\* A waiter that destroys the guard once it is let through.
CONSTANTS
    Users = {u1}
    Waiter = w
    NoThread = NoThread
    Default = FALSE
    AtOnce = TRUE
    MaxRounds = 2
SPECIFICATION Spec
INVARIANTS NoUseAfterDestroy
