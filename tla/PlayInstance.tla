----------------------------- MODULE PlayInstance -----------------------------
(***************************************************************************)
(* What one play instance (a gb-play-<subdir> container and the snapshot   *)
(* on its volume) promises to its user: play progress leaves the emulator  *)
(* only into the snapshot.  The only way to lose it is a guest crash,      *)
(* where the constant allows one.                                          *)
(*                                                                         *)
(* EmulatorSession implements this contract from the inside (the emulator  *)
(* loop of the guest), PlaySessions from the outside (the MCP server).     *)
(***************************************************************************)
CONSTANT
  MayCrash  \* the guest may die by itself

VARIABLES
  phase,     \* "none", "booting", "live" or "exited"
  snapshot,  \* rom.gb.state exists
  ahead      \* the emulator has progress the snapshot lacks

vars == <<phase, snapshot, ahead>>

Init ==
  /\ phase \in {"none", "booting"}
  /\ snapshot \in BOOLEAN
  /\ ahead = FALSE

Start  == phase = "none" /\ phase' = "booting" /\ UNCHANGED <<snapshot, ahead>>

Ready  == phase = "booting" /\ phase' = "live" /\ UNCHANGED <<snapshot, ahead>>

Play   == phase = "live" /\ ahead' = TRUE /\ UNCHANGED <<phase, snapshot>>

Save   == phase = "live" /\ snapshot' = TRUE /\ ahead' = FALSE /\ UNCHANGED phase

(* discard_state: what the emulator holds is then on no disk. *)
Drop   == /\ phase = "live"
          /\ snapshot' = FALSE
          /\ ahead' \in {ahead, TRUE}
          /\ UNCHANGED phase

(* reset unlinks the snapshot from the host, whatever the guest does. *)
Unlink == snapshot' = FALSE /\ UNCHANGED <<phase, ahead>>

(* The close path of stop and of the idle timeout. *)
Exit   == /\ phase = "live"
          /\ phase' = "exited"
          /\ snapshot' = TRUE
          /\ ahead' = FALSE

Crash  == /\ MayCrash
          /\ phase = "live"
          /\ phase' = "exited"
          /\ ahead' = FALSE
          /\ UNCHANGED snapshot

(* A boot that fails has nothing to lose. *)
NoBoot == phase = "booting" /\ phase' = "exited" /\ UNCHANGED <<snapshot, ahead>>

(* A guest with nothing to lose may be removed, whatever it is doing. *)
Remove == /\ ~ahead
          /\ phase' = "none"
          /\ ahead' = FALSE
          /\ UNCHANGED snapshot

Next ==
  \/ Start \/ Ready \/ NoBoot
  \/ Play \/ Save \/ Drop \/ Unlink
  \/ Exit \/ Crash \/ Remove

Spec == Init /\ [][Next]_vars
=============================================================================
