-------------------------- MODULE MCProxyDelivery --------------------------
(* Instances of ProxyDelivery: its properties do not tell topics apart.     *)
EXTENDS ProxyDelivery, TLC

AnyTopicFirst == Permutations(Topics)
=============================================================================
