SPECIFICATION FairSpec
CONSTANTS
    Slots = {s0, s1}
    Images = {factory, old, bootstrap, final, newer, broken}
    Factory = factory
    Bootstrap = bootstrap
    First = {factory, old}
    Final = final
    Newer = {newer, broken}
    Broken = {broken}
    NoImage = NoImage
    Chunks = 2
    MaxFaults = 3
INVARIANTS
    AlwaysBootable
    CompleteIsConfirmed
PROPERTIES
    ConfirmedStays
    Migrates
    CandidateNeverStrands
