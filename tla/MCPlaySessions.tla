--------------------------- MODULE MCPlaySessions ---------------------------
(***************************************************************************)
(* Small instances of PlaySessions for TLC.                                *)
(***************************************************************************)
EXTENDS PlaySessionsInv, TLC

CONSTANTS e1, e2, d1, d2, d3

(* All games belong to one user, or d3 to a second one. *)
OneOwner  == [d \in Subdirs |-> e1]
TwoOwners == [d \in Subdirs |-> IF d = d3 THEN e2 ELSE e1]

(* The state as the server can tell it apart.  What the snapshots hold     *)
(* (cold, unsaved, snap) is written by guests and commands but read by no  *)
(* guard, so it makes no difference to properties that do not mention it.  *)
SeenByServer == <<con, registry, process, locals, lock, ret, up, pc, out>>

(* d1 and d2 always have the same owner. *)
Symmetry ==
  Permutations(Sessions) \cup Permutations(Threads) \cup Permutations({d1, d2})
=============================================================================
