\* A copy of what CreateFile() returned when it failed.
CONSTANTS
    Threads = {t1}
    Objects = {o1, o2}
    Handles = {h1}
    Null = Null
    Invalid = Invalid
    MayFail = TRUE
SPECIFICATION Spec
INVARIANTS CopyIsOkOnlyIfOriginalWas
