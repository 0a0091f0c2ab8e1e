\* One Executer; every kind of interval, with and without a function.
CONSTANTS
    Worker = worker
    Owner = owner
    NoThread = NoThread
    LateBound = 2
SPECIFICATION Spec
INVARIANT AtMostOneLateCall
PROPERTIES DestructionEnds KeepsCalling
