SPECIFICATION Spec

CONSTANTS
    Root = Root
    Mid = Mid
    Small = Small
    Large = Large
    Class = {Root, Mid, Small, Large}
    Null = Null
    Bases <- MCBases
    Makers = {Small, Large}
    Private = {Root, Mid}
    Freers = {Small}
    Block = {b1, b2}
    Size <- MCSize
    Fields <- MCFields
    Pool <- MCPool
    Gives <- MCGives
    Local = {p}
    Hand = Hand
    None = None
    Absent = Absent

INVARIANTS
    TypeOK
    CountsExact
    DeadOnce
    MroRight

PROPERTIES
    ImplementsHeap
    DeadIsFreed

CHECK_DEADLOCK FALSE
