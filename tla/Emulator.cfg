SPECIFICATION FairSpec
CONSTANTS
  Requests = {r1, r2}
  Window = 1
  None = None
  BootMayFail = TRUE
  SaveMayFail = TRUE
  MayCrash = TRUE
CHECK_DEADLOCK FALSE
INVARIANTS NoLostWakeup CleanExitSaved ExactlyOnceInOrder
PROPERTIES KeepsContract ClosesWhenDue EveryRequestAnswered
