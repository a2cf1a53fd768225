SPECIFICATION Spec
CONSTANTS
  None = None
  Threads = {t1, t2}
  Clients = {c1, c2}
  Emails = {e1, e2}
  Sites = {s1, s2}
  Signs = TRUE
  MaxMinted = 6
  MaxCalls = 4
  MaxRestarts = 1
CHECK_DEADLOCK FALSE
SYMMETRY Symmetry
INVARIANTS OAuthInv OneLivePerGrant TokensBound ActsAsConsented RedeemedInTime
