SPECIFICATION FairSpec
CONSTANTS
  e1 = e1
  e2 = e2
  d1 = d1
  d2 = d2
  d3 = d3
  None = None
  Emails = {e1}
  Subdirs = {d1}
  Owner <- OneOwner
  Threads = {t1, t2}
  Sessions = {s1, s2, s3}
  MaxRequests = 2
  MaxRestarts = 0
  SlowGuest = TRUE
  GuestCrashes = TRUE
  InspectFlakes = TRUE
  RpcFaults = TRUE
  DockerHangs = TRUE
  RunTimeouts = TRUE
CHECK_DEADLOCK FALSE
PROPERTY EveryCallAnswered
