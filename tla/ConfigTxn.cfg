CONSTANTS
    op1 = op1  op2 = op2
    A = A  B = B  Raw = Raw  Cooked = Cooked
    None = None
    Ops = {op1, op2}
    Contents <- MCContents
    Initial = A
    Norm <- MCNorm
    Requested <- RawAndB
    LockedWrites <- OnlyB
    UnlockedWrites <- RawAndB
    Disturbances <- OneKind
SPECIFICATION Spec
INVARIANTS
    BackupSurvives
    
PROPERTIES
    
    RollbackRestores
    CommittedIsFinal
SYMMETRY SameOps
