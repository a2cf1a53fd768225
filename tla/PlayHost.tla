------------------------------- MODULE PlayHost -------------------------------
(***************************************************************************)
(* The Docker host as the MCP server sees it: one container name per ROM   *)
(* subdirectory (gb-play-<subdir>), the emulator guest inside it and the   *)
(* PyBoy snapshot rom.gb.state on the mounted volume.                      *)
(*                                                                         *)
(* The container NAME is the only handle the server has on a guest         *)
(* (backend.py, play_container_name), so a command meant for one container *)
(* reaches whichever container carries the name when it runs.              *)
(*                                                                         *)
(* EmulatorSession.tla models the inside of a guest in detail; the guest   *)
(* steps here are its life cycle, and PlayInstance.tla is the contract     *)
(* both meet.                                                              *)
(***************************************************************************)
CONSTANTS
  Subdirs,        \* ROM subdirectories, each holding one ROM
  SlowGuest,      \* a guest may take longer than join()'s 15 s to close
  GuestCrashes,   \* a guest process may die, or fail to boot
  InspectFlakes,  \* `docker inspect` may exit nonzero on a running container
  RpcFaults,      \* `docker exec` of an RPC may exit nonzero
  DockerHangs,    \* a docker command may raise TimeoutExpired
  RunTimeouts     \* `docker run` may time out after the container was created

ASSUME FaultsAssumption ==
  /\ SlowGuest \in BOOLEAN
  /\ GuestCrashes \in BOOLEAN
  /\ InspectFlakes \in BOOLEAN
  /\ RpcFaults \in BOOLEAN
  /\ DockerHangs \in BOOLEAN
  /\ RunTimeouts \in BOOLEAN

VARIABLES
  con,      \* con[d]: life cycle of the container named after d
  cold,     \* cold[d]: the guest runs without the previous snapshot
  unsaved,  \* unsaved[d]: the emulator is ahead of the snapshot on disk
  snap      \* snap[d]: rom.gb.state exists

hostVars == <<con, cold, unsaved, snap>>

Phases == {"none", "booting", "live", "closing", "exited"}

HostTypeOK ==
  /\ con \in [Subdirs -> Phases]
  /\ cold \in [Subdirs -> BOOLEAN]
  /\ unsaved \in [Subdirs -> BOOLEAN]
  /\ snap \in [Subdirs -> BOOLEAN]

HostInit ==
  /\ con = [d \in Subdirs |-> "none"]
  /\ cold = [d \in Subdirs |-> FALSE]
  /\ unsaved = [d \in Subdirs |-> FALSE]
  /\ snap \in [Subdirs -> BOOLEAN]

(* {{.State.Running}} of the container. *)
Up(d) == con[d] \in {"booting", "live", "closing"}

(* `docker inspect` may read "no" of a container that runs, never "yes" of *)
(* one that does not: a nonzero exit counts as not running.                *)
SeemsDown(d) == ~Up(d) \/ InspectFlakes

-----------------------------------------------------------------------------
(* Commands of the server. *)

(* `docker run`: the guest boots, restoring the snapshot unless told not to. *)
Launch(d, restore) ==
  /\ con' = [con EXCEPT ![d] = "booting"]
  /\ cold' = [cold EXCEPT ![d] = ~restore]
  /\ unsaved' = [unsaved EXCEPT ![d] = FALSE]
  /\ UNCHANGED snap

(* `docker rm -f`: kills a running guest without letting it save. *)
Remove(d) ==
  /\ con' = [con EXCEPT ![d] = "none"]
  /\ unsaved' = [unsaved EXCEPT ![d] = FALSE]
  /\ UNCHANGED <<cold, snap>>

(* _rm ignores every error: a daemon that hangs may leave the container. *)
Rm(d) == Remove(d) \/ (DockerHangs /\ UNCHANGED hostVars)

(* POST /stop reaches the emulator loop of a guest that is serving. *)
DeliverStop(d) ==
  /\ con[d] = "live"
  /\ con' = [con EXCEPT ![d] = "closing"]
  /\ UNCHANGED <<cold, unsaved, snap>>

(* An input, save or discard_state command the guest executes: the loop    *)
(* finishes the batch it is in even after a stop was requested.            *)
Execute(d, command) ==
  /\ con[d] \in {"live", "closing"}
  /\ unsaved' = [unsaved EXCEPT ![d] = command # "save"]
  /\ snap' = IF command = "play" THEN snap
             ELSE [snap EXCEPT ![d] = command = "save"]
  /\ UNCHANGED <<con, cold>>

(* reset's unlink of rom.gb.state on the host volume. *)
UnlinkSnapshot(d) ==
  /\ snap' = [snap EXCEPT ![d] = FALSE]
  /\ UNCHANGED <<con, cold, unsaved>>

-----------------------------------------------------------------------------
(* Steps of the guest itself. *)

(* The snapshot is read at boot; without one the boot is cold anyway. *)
GuestReady(d) ==
  /\ con[d] = "booting"
  /\ con' = [con EXCEPT ![d] = "live"]
  /\ cold' = [cold EXCEPT ![d] = cold[d] \/ ~snap[d]]
  /\ UNCHANGED <<unsaved, snap>>

IdleTimeout(d) ==
  /\ con[d] = "live"
  /\ con' = [con EXCEPT ![d] = "closing"]
  /\ UNCHANGED <<cold, unsaved, snap>>

(* Mutant of GuestClose: the process exits without the snapshot. *)
GuestCloseUnsaved(d) ==
  /\ con[d] = "closing"
  /\ con' = [con EXCEPT ![d] = "exited"]
  /\ unsaved' = [unsaved EXCEPT ![d] = FALSE]
  /\ UNCHANGED <<cold, snap>>

(* Out of the loop: snapshot, SRAM flush, process exit. *)
GuestClose(d) ==
  /\ con[d] = "closing"
  /\ con' = [con EXCEPT ![d] = "exited"]
  /\ snap' = [snap EXCEPT ![d] = TRUE]
  /\ unsaved' = [unsaved EXCEPT ![d] = FALSE]
  /\ UNCHANGED cold

GuestCrash(d) ==
  /\ GuestCrashes
  /\ Up(d)
  /\ con' = [con EXCEPT ![d] = "exited"]
  /\ unsaved' = [unsaved EXCEPT ![d] = FALSE]
  /\ UNCHANGED <<cold, snap>>

GuestStep(d) ==
  GuestReady(d) \/ IdleTimeout(d) \/ GuestClose(d) \/ GuestCrash(d)
=============================================================================
