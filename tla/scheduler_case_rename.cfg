\* One call, two spellings of one task name.
SPECIFICATION Spec
CONSTANTS
    c1 = c1
    c2 = c2
    task = task
    Task2 = Task2
    exe1 = exe1
    exe2 = exe2
    None = None
    Foreign = Foreign
    Calls = {c1}
    Names <- MCNames
    KeyOf <- CaseInsensitiveKeys
    Schedules = {daily}
    ExeOf <- OneExe
    Faults = FALSE
PROPERTY InstallNeverLosesTask
