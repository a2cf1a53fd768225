SPECIFICATION Spec
CONSTANTS
  e1 = e1
  e2 = e2
  d1 = d1
  d2 = d2
  d3 = d3
  None = None
  Emails = {e1, e2}
  Subdirs = {d1, d2, d3}
  Owner <- TwoOwners
  Threads = {t1, t2}
  Sessions = {s1, s2, s3}
  MaxRequests = 3
  MaxRestarts = 0
  SlowGuest = TRUE
  GuestCrashes = TRUE
  InspectFlakes = FALSE
  RpcFaults = TRUE
  DockerHangs = FALSE
  RunTimeouts = FALSE
CHECK_DEADLOCK FALSE
VIEW SeenByServer
SYMMETRY Symmetry
INVARIANTS CallInv OneLivePerEmail NoOrphan DeadIsDown ShutdownLeavesNothing
