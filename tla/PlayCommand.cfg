SPECIFICATION Spec
CONSTANTS
  Absent = Absent
  Calls <- McCalls
  Screens <- McScreens
  MaxHold = 12
  MaxFrames = 11
  MaxGap = 4
  MaxSteps = 3
  MaxInterval = 4
  DefaultInterval = 2
  DefaultStable = 3
  DefaultFrames = 2
  WalkFrames = 10
  MashPress = 3
  MashRelease = 2
  KeyframeMin = 4
  DefaultTimeout = 5
  MaxTimeout = 10
  Slack = 2
  Rate = 2
  Grace = 2
  MaxShots = 3
  LongAction = 6
  AbortGap = 2
  LeastGap = 1
  MostGap = 3
  MashLeast = 3
  AdvanceWait = 3
  EvalSlice = 2
  GoneEvals = 2
  PressHold = 2
  PressGap = 1
  PulseHold = 1
  SkipCap = 7
  TurnRounds = 3
  TurnCap = 9
  TurnWait = 4
  TextMash = 4
  FleeWait = 2
  FleeSettle = 4
  DoorLeast = 3
  DoorMost = 6
  BriefWait = 2
  SettleEvals = 1
INVARIANTS PlayInv RoundTrip FollowsScript NothingHeld
  ReleasedAfterMash LooksInTime ReasonIsTrue BlockedMeansStill
  ShotsCurrent SpentBounded
PROPERTIES StaysGone EveryCallEnds
