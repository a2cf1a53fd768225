--------------------------- MODULE EmulatorSession ---------------------------
(***************************************************************************)
(* The inside of a play instance: the emulator loop of EmulatorSession     *)
(* (gb_mcp/emulator/loop.py) and the HTTP handlers of the control plane    *)
(* around it (docker/instance_server.py).                                  *)
(*                                                                         *)
(* Three kinds of threads share the session: the loop thread, which alone  *)
(* touches the emulator; one handler thread per request, which queues a    *)
(* command and waits for its event, or asks for a stop; and the main       *)
(* thread, which joins the loop and then ends the process.  A step is the  *)
(* code between two operations on a lock, an event or the disk.  The       *)
(* snapshot is written to a temporary file and renamed (loop.py,           *)
(* _atomic_write_file): one atomic step, or none if it fails.              *)
(*                                                                         *)
(* Emulator states are version numbers: 0 is what the snapshot of an       *)
(* earlier run restores, 1 a cold boot, and every input adds one.          *)
(***************************************************************************)
EXTENDS Naturals, Sequences

CONSTANTS
  Requests,     \* handler threads, each serving one HTTP request
  Window,       \* bound: ticks of the idle window
  None,         \* no snapshot, no SRAM flushed by this run, not booted
  BootMayFail,  \* PyBoy may refuse the ROM, or boot longer than 30 s
  SaveMayFail,  \* writing the snapshot or stopping PyBoy may raise
  MayCrash      \* the process may be killed (docker rm -f, OOM)

ASSUME EmulatorAssumption ==
  /\ Window \in Nat \ {0}
  /\ None \notin Nat
  /\ BootMayFail \in BOOLEAN
  /\ SaveMayFail \in BOOLEAN
  /\ MayCrash \in BOOLEAN

VARIABLES
  loop,           \* label of the loop thread (_run)
  commands,       \* _commands
  batch,          \* commands popped and not handled yet
  available,      \* _cmd_available
  stopRequested,  \* _stop_requested
  reason,         \* close_reason
  clock,          \* ticks since _last_input_at, up to Window
  emu,            \* version in the emulator
  boot,           \* version it booted with, once it has
  disk,           \* version in rom.gb.state
  sram,           \* version in rom.gb.ram, once this run wrote it
  main,           \* main thread of the process
  code,           \* exit code
  pc,             \* per request: label of its handler thread
  kind,           \* per request: what it asks for
  result,         \* per request: _Command.event with its result or error
  accepted,       \* history: requests appended to _commands, in order
  finished,       \* history: requests completed or failed, in order
  closeFailed     \* history: the last snapshot or pyboy.stop raised

queueVars == <<commands, batch, available, accepted, finished, result>>
emuVars   == <<clock, emu, boot, disk, sram, closeFailed>>
procVars  == <<main, code>>
vars == <<loop, queueVars, stopRequested, reason, emuVars, procVars, pc, kind>>

Kinds == {"input", "ping", "save", "discard_state", "stop"}

(* The handler has replied, or died with the process. *)
Final == {"ok", "failed", "timeout", "lost"}

RequestLabels == {"free", "submit", "append", "signal", "await",
                  "reason", "flag", "wake", "join"} \cup Final

LoopLabels == {"boot", "check", "pop", "handle", "recheck", "idle", "wait",
               "save", "close", "close_unsaved", "drain", "final", "closed"}

TypeOK ==
  /\ loop \in LoopLabels
  /\ commands \in Seq(Requests)
  /\ batch \in Seq(Requests)
  /\ available \in BOOLEAN
  /\ stopRequested \in BOOLEAN
  /\ reason \in {"none", "requested", "idle_timeout", "error"}
  /\ clock \in 0..Window
  /\ emu \in Nat
  /\ boot \in Nat \cup {None}
  /\ disk \in Nat \cup {None}
  /\ sram \in Nat \cup {None}
  /\ main \in {"starting", "serving", "leaving", "exited"}
  /\ code \in {"none", "idle", "requested", "error", "killed"}
  /\ pc \in [Requests -> RequestLabels]
  /\ kind \in [Requests -> Kinds]
  /\ result \in [Requests -> {"none", "ok", "failed"}]
  /\ accepted \in Seq(Requests)
  /\ finished \in Seq(Requests)
  /\ closeFailed \in BOOLEAN

Init ==
  /\ loop = "boot"
  /\ commands = <<>>
  /\ batch = <<>>
  /\ available = FALSE
  /\ stopRequested = FALSE
  /\ reason = "none"
  /\ clock = 0
  /\ emu = 1
  /\ boot = None
  /\ disk \in {None, 0}
  /\ sram = None
  /\ main = "starting"
  /\ code = "none"
  /\ pc = [r \in Requests |-> "free"]
  /\ kind = [r \in Requests |-> "ping"]
  /\ result = [r \in Requests |-> "none"]
  /\ accepted = <<>>
  /\ finished = <<>>
  /\ closeFailed = FALSE

(* EmulatorSession.is_running *)
IsRunning == loop # "closed"

-----------------------------------------------------------------------------
(* Handler threads: Handler.do_POST, submit and request_stop. *)

Goto(r, label) ==
  /\ pc' = [pc EXCEPT ![r] = label]
  /\ UNCHANGED <<loop, emuVars, procVars>>

Arrive(r) ==
  /\ main \in {"serving", "leaving"}
  /\ pc[r] = "free"
  /\ \E k \in Kinds : kind' = [kind EXCEPT ![r] = k]
  /\ Goto(r, "submit")
  /\ UNCHANGED <<queueVars, stopRequested, reason>>

(* The check of is_running and what follows are apart: the loop may have   *)
(* ended when the command is appended.                                     *)
Submit(r) ==
  /\ pc[r] = "submit"
  /\ Goto(r, IF ~IsRunning THEN "failed"
             ELSE IF kind[r] = "stop" THEN "reason" ELSE "append")
  /\ UNCHANGED <<queueVars, stopRequested, reason, kind>>

(* Mutant of Enqueue: the loop is not woken for the command. *)
EnqueueUnsignalled(r) ==
  /\ pc[r] = "append"
  /\ commands' = Append(commands, r)
  /\ accepted' = Append(accepted, r)
  /\ Goto(r, "await")
  /\ UNCHANGED <<batch, available, finished, result, stopRequested, reason,
                 kind>>

Enqueue(r) ==
  /\ pc[r] = "append"
  /\ commands' = Append(commands, r)
  /\ accepted' = Append(accepted, r)
  /\ Goto(r, "signal")
  /\ UNCHANGED <<batch, available, finished, result, stopRequested, reason,
                 kind>>

Signal(r) ==
  /\ pc[r] \in {"signal", "wake"}
  /\ available' = TRUE
  /\ Goto(r, IF pc[r] = "signal" THEN "await" ELSE "join")
  /\ UNCHANGED <<commands, batch, accepted, finished, result, stopRequested,
                 reason, kind>>

(* The answer of the loop, or the timeout of the wait: the command of a    *)
(* request that timed out stays queued and may still be executed.          *)
Await(r) ==
  /\ pc[r] = "await"
  /\ result[r] # "none"
  /\ Goto(r, result[r])
  /\ UNCHANGED <<queueVars, stopRequested, reason, kind>>

SetReason(r) ==
  /\ pc[r] = "reason"
  /\ reason' = "requested"
  /\ Goto(r, "flag")
  /\ UNCHANGED <<queueVars, stopRequested, kind>>

(* Mutant of SetStop: the loop is not woken for the stop. *)
SetStopQuietly(r) ==
  /\ pc[r] = "flag"
  /\ stopRequested' = TRUE
  /\ Goto(r, "join")
  /\ UNCHANGED <<queueVars, reason, kind>>

SetStop(r) ==
  /\ pc[r] = "flag"
  /\ stopRequested' = TRUE
  /\ Goto(r, "wake")
  /\ UNCHANGED <<queueVars, reason, kind>>

JoinLoop(r) ==
  /\ pc[r] = "join"
  /\ ~IsRunning
  /\ Goto(r, "ok")
  /\ UNCHANGED <<queueVars, stopRequested, reason, kind>>

(* A stop that gives up joining replies {"stopped": true} all the same. *)
Timeout(r) ==
  /\ \/ pc[r] = "await" /\ result[r] = "none" /\ Goto(r, "timeout")
     \/ pc[r] = "join" /\ IsRunning /\ Goto(r, "ok")
  /\ UNCHANGED <<queueVars, stopRequested, reason, kind>>

Handler(r) ==
  \/ Submit(r) \/ Enqueue(r) \/ Signal(r) \/ Await(r)
  \/ SetReason(r) \/ SetStop(r) \/ JoinLoop(r)

-----------------------------------------------------------------------------
(* The loop thread: EmulatorSession._run. *)

LoopTo(label) == loop' = label /\ UNCHANGED <<procVars, pc, kind, stopRequested>>

(* A snapshot that does not load, or is not wanted, leaves a cold boot. *)
Boot ==
  /\ loop = "boot"
  /\ \/ /\ emu' \in {1} \cup ({disk} \ {None})
        /\ boot' = emu'
        /\ clock' = 0
        /\ LoopTo("check")
        /\ UNCHANGED <<disk, sram, closeFailed>>
     \/ BootMayFail /\ LoopTo("drain") /\ UNCHANGED emuVars
  /\ UNCHANGED <<queueVars, reason>>

Check ==
  /\ loop = "check"
  /\ LoopTo(IF stopRequested THEN "save" ELSE "pop")
  /\ UNCHANGED <<queueVars, reason, emuVars>>

(* _pop_commands: under _cmd_lock, the event is cleared with the queue. *)
Pop ==
  /\ loop = "pop"
  /\ batch' = commands
  /\ commands' = <<>>
  /\ available' = FALSE
  /\ LoopTo(IF commands = <<>> THEN "recheck" ELSE "handle")
  /\ UNCHANGED <<accepted, finished, result, reason, emuVars>>

(* command.complete or command.fail, and on to the next command. *)
Answer(outcome) ==
  LET r == Head(batch) IN
  /\ result' = [result EXCEPT ![r] = outcome]
  /\ finished' = Append(finished, r)
  /\ batch' = Tail(batch)
  /\ LoopTo(IF Tail(batch) = <<>> THEN "check" ELSE "handle")
  /\ UNCHANGED <<commands, available, accepted, reason>>

Handling(k) == loop = "handle" /\ kind[Head(batch)] = k

(* _apply_input: an input that raises may have advanced the emulator, and  *)
(* does not reset the idle clock.                                          *)
Input ==
  /\ Handling("input")
  /\ \/ emu' = emu + 1 /\ clock' = 0 /\ Answer("ok")
     \/ emu' \in {emu, emu + 1} /\ UNCHANGED clock /\ Answer("failed")
  /\ UNCHANGED <<boot, disk, sram, closeFailed>>

Ping ==
  /\ Handling("ping")
  /\ clock' = 0
  /\ Answer("ok")
  /\ UNCHANGED <<emu, boot, disk, sram, closeFailed>>

(* _apply_save: the snapshot, then the SRAM if this PyBoy can dump it. *)
Save ==
  /\ Handling("save")
  /\ \/ disk' = emu /\ sram' \in {sram, emu} /\ Answer("ok")
     \/ SaveMayFail /\ UNCHANGED <<disk, sram>> /\ Answer("failed")
  /\ UNCHANGED <<clock, emu, boot, closeFailed>>

(* An unlink that fails is answered too: {"discarded": false}. *)
Discard ==
  /\ Handling("discard_state")
  /\ disk' \in {None} \cup (IF SaveMayFail THEN {disk} ELSE {})
  /\ Answer("ok")
  /\ UNCHANGED <<clock, emu, boot, sram, closeFailed>>

Handle == Input \/ Ping \/ Save \/ Discard

(* Mutant of Recheck: the second look at _stop_requested is left out. *)
RecheckSkipped ==
  /\ loop = "recheck"
  /\ LoopTo("idle")
  /\ UNCHANGED <<queueVars, reason, emuVars>>

Recheck ==
  /\ loop = "recheck"
  /\ LoopTo(IF stopRequested THEN "save" ELSE "idle")
  /\ UNCHANGED <<queueVars, reason, emuVars>>

(* Mutant of CheckIdle: the idle close goes straight to pyboy.stop. *)
CheckIdleUnsaved ==
  /\ loop = "idle"
  /\ IF clock = Window
       THEN reason' = "idle_timeout" /\ LoopTo("close")
       ELSE LoopTo("wait") /\ UNCHANGED reason
  /\ UNCHANGED <<queueVars, emuVars>>

CheckIdle ==
  /\ loop = "idle"
  /\ IF clock = Window
       THEN reason' = "idle_timeout" /\ LoopTo("save")
       ELSE LoopTo("wait") /\ UNCHANGED reason
  /\ UNCHANGED <<queueVars, emuVars>>

(* _cmd_available.wait(timeout=remaining) *)
Wait ==
  /\ loop = "wait"
  /\ available \/ clock = Window
  /\ LoopTo("check")
  /\ UNCHANGED <<queueVars, reason, emuVars>>

(* Mutant of SaveSnapshot: nothing is written. *)
SaveSnapshotSkipped ==
  /\ loop = "save"
  /\ LoopTo("close")
  /\ UNCHANGED <<queueVars, reason, emuVars>>

(* _save_snapshot on the way out; `finally` stops PyBoy in either case. *)
SaveSnapshot ==
  /\ loop = "save"
  /\ \/ disk' = emu /\ LoopTo("close") /\ UNCHANGED closeFailed
     \/ /\ SaveMayFail
        /\ closeFailed' = TRUE
        /\ LoopTo("close_unsaved")
        /\ UNCHANGED disk
  /\ UNCHANGED <<queueVars, reason, clock, emu, boot, sram>>

(* pyboy.stop(save=True) flushes the SRAM. *)
ClosePyboy ==
  /\ loop \in {"close", "close_unsaved"}
  /\ \/ /\ sram' = emu
        /\ LoopTo(IF loop = "close" THEN "final" ELSE "drain")
        /\ UNCHANGED closeFailed
     \/ /\ SaveMayFail
        /\ closeFailed' = TRUE
        /\ LoopTo("drain")
        /\ UNCHANGED sram
  /\ UNCHANGED <<queueVars, reason, clock, emu, boot, disk>>

(* Mutant of Drain: the commands that wait are dropped, not failed. *)
DrainSilently ==
  /\ loop = "drain"
  /\ reason' = IF reason = "none" THEN "error" ELSE reason
  /\ commands' = <<>>
  /\ available' = FALSE
  /\ LoopTo("final")
  /\ UNCHANGED <<batch, accepted, finished, result, emuVars>>

(* except Exception: commands that wait are failed, others come too late.  *)
(* Before the session is ready nobody can have set a close reason.         *)
Drain ==
  /\ loop = "drain"
  /\ reason' = IF reason = "none" THEN "error" ELSE reason
  /\ result' = [r \in Requests |->
                  IF \E i \in DOMAIN commands : commands[i] = r
                  THEN "failed" ELSE result[r]]
  /\ finished' = finished \o commands
  /\ commands' = <<>>
  /\ available' = FALSE
  /\ LoopTo("final")
  /\ UNCHANGED <<batch, accepted, emuVars>>

Finally ==
  /\ loop = "final"
  /\ available' = TRUE
  /\ LoopTo("closed")
  /\ UNCHANGED <<commands, batch, accepted, finished, result, reason, emuVars>>

Loop ==
  \/ Boot \/ Check \/ Pop \/ Handle \/ Recheck \/ CheckIdle \/ Wait
  \/ SaveSnapshot \/ ClosePyboy \/ Drain \/ Finally

Tick ==
  /\ loop \notin {"boot", "closed"}
  /\ clock < Window
  /\ clock' = clock + 1
  /\ UNCHANGED <<loop, queueVars, stopRequested, reason, emu, boot, disk, sram,
                 closeFailed, procVars, pc, kind>>

-----------------------------------------------------------------------------
(* The main thread of docker/instance_server.py. *)

(* Daemon threads die with the process: the loop and every handler. *)
Exit(c) ==
  /\ main' = "exited"
  /\ code' = c
  /\ loop' = "closed"
  /\ pc' = [r \in Requests |->
              IF pc[r] \in Final \cup {"free"} THEN pc[r] ELSE "lost"]
  /\ UNCHANGED <<queueVars, stopRequested, reason, emuVars, kind>>

(* _exit_code(session.close_reason) *)
ExitCode == CASE reason = "requested" -> "requested"
              [] reason = "error" -> "error"
              [] reason \in {"none", "idle_timeout"} -> "idle"

(* wait_ready: the boot succeeded, or it raised. *)
Serve ==
  /\ main = "starting"
  /\ boot # None
  /\ main' = "serving"
  /\ UNCHANGED <<loop, queueVars, stopRequested, reason, emuVars, code, pc, kind>>

BootFailed ==
  /\ main = "starting"
  /\ boot = None
  /\ loop = "closed"
  /\ Exit("error")

BootTimeout ==
  /\ main = "starting"
  /\ BootMayFail
  /\ loop = "boot"
  /\ Exit("error")

Leave ==
  /\ main = "serving"
  /\ loop = "closed"
  /\ main' = "leaving"
  /\ UNCHANGED <<loop, queueVars, stopRequested, reason, emuVars, code, pc, kind>>

Leaving == main = "leaving" /\ Exit(ExitCode)

Crash ==
  /\ MayCrash
  /\ main # "exited"
  /\ Exit("killed")

Main == Serve \/ BootFailed \/ Leave \/ Leaving

Next ==
  \/ \E r \in Requests : Arrive(r) \/ Handler(r) \/ Timeout(r)
  \/ Loop
  \/ Tick
  \/ Main \/ BootTimeout \/ Crash

Spec == Init /\ [][Next]_vars

(* The operating system runs every thread that can run; nothing is assumed *)
(* of clients, of submit's timeout, of failures or of the clock.           *)
Fairness ==
  /\ WF_vars(Loop)
  /\ WF_vars(Main)
  /\ \A r \in Requests : WF_vars(Handler(r))

FairSpec == Spec /\ Fairness

-----------------------------------------------------------------------------
(* Properties. *)

(* Before it waits, the loop has seen every command whose submitter has    *)
(* signalled, and every stop whose requester has: a loop asleep on a clear *)
(* event has nothing to do.  This is what clearing the event under the     *)
(* lock and the second look at _stop_requested are for.                    *)
NoLostWakeup ==
  loop = "wait" /\ ~available =>
    /\ \A i \in DOMAIN commands : pc[commands[i]] = "signal"
    /\ stopRequested => \E r \in Requests : pc[r] = "wake"

(* Every command that was queued is answered by the loop once, in the      *)
(* order of the queue, whether it is executed, raises or comes too late.   *)
ExactlyOnceInOrder == accepted = finished \o batch \o commands

(* A process that reports an idle or a requested close has left all play   *)
(* progress in the snapshot and in the SRAM file, unless that last write   *)
(* itself raised: no command is executed after the final snapshot.         *)
CleanExitSaved ==
  code \in {"idle", "requested"} => closeFailed \/ (disk = emu /\ sram = emu)

(* A requested stop ends the process without waiting for the idle clock;   *)
(* so does the end of the idle window, unless a play or a ping opens a new *)
(* one.                                                                    *)
Due == stopRequested \/ clock = Window

ClosesWhenDue == Due ~> main = "exited" \/ ~Due

(* Every request is answered, or ends with the process: submit's timeout   *)
(* is never what ends the wait for a loop that has left.                   *)
EveryRequestAnswered ==
  \A r \in Requests : pc[r] # "free" ~> pc[r] \in Final

(* From outside, the instance keeps the contract of PlayInstance, and what  *)
(* the contract allows a crash happens only after a last write that raised. *)
(* A process that is killed takes no further step.                          *)
Live == boot # None /\ (main # "exited" \/ code = "killed")

Contract == INSTANCE PlayInstance WITH
  MayCrash <- SaveMayFail,
  phase    <- IF Live THEN "live"
              ELSE IF main = "exited" THEN "exited" ELSE "booting",
  snapshot <- disk # None,
  ahead    <- Live /\ disk # emu /\ emu # boot

SavesOnExit == [][Live /\ ~Live' => Contract!Exit \/ closeFailed]_vars

KeepsContract == Contract!Spec /\ SavesOnExit
=============================================================================
