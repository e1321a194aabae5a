CONSTANT NumBufs = 4
SPECIFICATION Spec
INVARIANTS SweepIsClosedForm SecondChanceHonoured
PROPERTIES ComesCloser Terminates
CHECK_DEADLOCK FALSE
