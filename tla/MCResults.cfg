SPECIFICATION Spec
CONSTANTS
    Cases = {"A", "B", "C"}
    KindOf <- MCKindOf
    Declared <- MCDeclared
    ModuleOf <- MCModuleOf
    Place <- MCPlace
    MaxSteps = 3
    MaxRuns = 2
    MaxRecords = 3
INVARIANTS
    VerdictIsEarned
    GateTellsTruth
    IssuePerProblem
CHECK_DEADLOCK FALSE
