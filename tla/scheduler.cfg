\* Two overlapping calls from two copies of the launcher, two names, all faults.
SPECIFICATION Spec
CONSTANTS
    c1 = c1
    c2 = c2
    task = task
    Task2 = Task2
    exe1 = exe1
    exe2 = exe2
    None = None
    Foreign = Foreign
    Calls = {c1, c2}
    Names <- MCNames
    KeyOf <- DistinctKeys
    Schedules = {daily}
    ExeOf <- TwoExes
    Faults = TRUE
INVARIANTS InstallDelivers
PROPERTIES ForeignTasksKept InstallNeverLosesTask ForgottenOnlyWhenGone
SYMMETRY Alike
