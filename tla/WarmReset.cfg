SPECIFICATION Spec
CONSTANTS
  e1 = e1
  e2 = e2
  d1 = d1
  d2 = d2
  d3 = d3
  None = None
  Emails = {e1}
  Subdirs = {d1, d2}
  Owner <- OneOwner
  Threads = {t1, t2}
  Sessions = {s1, s2, s3}
  MaxRequests = 2
  MaxRestarts = 0
  SlowGuest = FALSE
  GuestCrashes = FALSE
  InspectFlakes = FALSE
  RpcFaults = FALSE
  DockerHangs = FALSE
  RunTimeouts = FALSE
CHECK_DEADLOCK FALSE
INVARIANT ResetIsCold
