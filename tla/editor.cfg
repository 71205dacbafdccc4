SPECIFICATION Spec
CONSTANTS
    None = None
    Torn = Torn
    e1 = e1
    e2 = e2
    Editors = {e1, e2}
    Keys = {"k1", "k2"}
    Names = {"a", "b", "c", "../x"}
    UnsafeNames = {"../x"}
    Texts = {"t0"}
    Placeholder = "k1"
    FirstId = "phase1"
    ChecklistId = "checklist"
    InjectId = "inject"
    ExecuteId = "execute"
    LibraryEntries <- SmallEntries
    HookLibrary <- SmallHookLibrary
    ColonIds = {"a:b", "x:y"}
    MacroIds = {"ship", "a:b"}
    SubIds = {"do", "x:y"}
    Iterations = {0}
    HookRefs <- SmallHookRefs
    CallerStates <- SmallCallerStates
    CallerProfiles <- SmallCallerProfiles
    InitialDisk <- SmallDisks
    MaxOps = 2
SYMMETRY Symmetry
INVARIANTS
    TypeOK
    EveryFileRuns
    CriteriaAttested
    LossesExplained
    NoClobber
    RenameKeeps
PROPERTIES
    ProtectionRaces
CHECK_DEADLOCK FALSE
