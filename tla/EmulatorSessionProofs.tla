------------------------ MODULE EmulatorSessionProofs ------------------------
(***************************************************************************)
(* Proofs about EmulatorSession, for any number of requests and any idle   *)
(* window, whatever fails: the loop never sleeps on work it was told of,   *)
(* every queued command is answered once, in order, and the whole keeps    *)
(* the contract of PlayInstance.                                           *)
(***************************************************************************)
EXTENDS EmulatorSession, SequenceTheorems, TLAPS

(* A batch is only there to be handled; a killed process leaves one behind. *)
BatchInv ==
  /\ loop = "handle" => batch # <<>>
  /\ loop \notin {"handle", "closed"} => batch = <<>>

(* From the moment the queue was found empty, and the stop flag down, every *)
(* later command and stop leaves a thread that has still to set the event.  *)
WakeInv ==
  /\ loop \in {"recheck", "idle", "wait"} /\ ~available =>
       \A i \in DOMAIN commands : pc[commands[i]] = "signal"
  /\ loop \in {"idle", "wait"} /\ ~available /\ stopRequested =>
       \E r \in Requests : pc[r] = "wake"

Inv == TypeOK /\ BatchInv /\ WakeInv /\ ExactlyOnceInOrder

USE DEF Goto, LoopTo, queueVars, emuVars, procVars, IsRunning

LEMMA InvInit == Init => Inv
<1> SUFFICES ASSUME Init PROVE Inv
  OBVIOUS
<1> USE EmulatorAssumption DEF Init
<1>1. TypeOK
  <2>1. <<>> \in Seq(Requests)
    OBVIOUS
  <2>2. /\ pc \in [Requests -> RequestLabels]
        /\ kind \in [Requests -> Kinds]
        /\ result \in [Requests -> {"none", "ok", "failed"}]
    BY DEF RequestLabels, Kinds
  <2>3. /\ loop \in LoopLabels
        /\ clock \in 0..Window
        /\ emu \in Nat
        /\ disk \in Nat \cup {None}
    BY DEF LoopLabels
  <2> QED
    BY <2>1, <2>2, <2>3 DEF TypeOK
<1>2. BatchInv /\ WakeInv
  BY DEF BatchInv, WakeInv
<1>3. ExactlyOnceInOrder
  <2>1. <<>> \in Seq(Requests)
    OBVIOUS
  <2> QED
    BY <2>1, ConcatEmptySeq DEF ExactlyOnceInOrder
<1> QED
  BY <1>1, <1>2, <1>3 DEF Inv

(* What is appended to the last of three sequences is appended to the whole. *)
LEMMA AppendsToThird ==
  ASSUME NEW S, NEW a \in Seq(S), NEW b \in Seq(S), NEW c \in Seq(S),
         NEW d \in Seq(S)
  PROVE  (a \o b \o c) \o d = a \o b \o (c \o d)
<1>1. a \o b \in Seq(S)
  BY ConcatProperties
<1> QED
  BY <1>1, ConcatAssociative

(* A handler thread. *)
LEMMA HandlerStep ==
  ASSUME Inv, NEW r \in Requests, Arrive(r) \/ Handler(r) \/ Timeout(r)
  PROVE  Inv'
<1> USE EmulatorAssumption
        DEF Inv, TypeOK, BatchInv, WakeInv, RequestLabels, Final, Kinds
<1>1. CASE Arrive(r)
  BY <1>1 DEF Arrive, ExactlyOnceInOrder
<1>2. CASE Submit(r)
  BY <1>2 DEF Submit, ExactlyOnceInOrder
<1>3. CASE Enqueue(r)
  <2>1. TypeOK'
    BY <1>3 DEF Enqueue
  <2>2. BatchInv' /\ WakeInv'
    BY <1>3 DEF Enqueue
  <2>3. ExactlyOnceInOrder'
    <3>1. accepted' = (finished \o batch \o commands) \o <<r>>
      BY <1>3, AppendIsConcat DEF Enqueue, ExactlyOnceInOrder
    <3>2. commands' = commands \o <<r>>
      BY <1>3, AppendIsConcat DEF Enqueue
    <3>3. <<r>> \in Seq(Requests)
      OBVIOUS
    <3>4. (finished \o batch \o commands) \o <<r>>
            = finished \o batch \o (commands \o <<r>>)
      BY <3>3, AppendsToThird
    <3> QED
      BY <1>3, <3>1, <3>2, <3>4 DEF Enqueue, ExactlyOnceInOrder
  <2> QED
    BY <2>1, <2>2, <2>3
<1>4. CASE Signal(r)
  BY <1>4 DEF Signal, ExactlyOnceInOrder
<1>5. CASE Await(r)
  BY <1>5 DEF Await, ExactlyOnceInOrder
<1>6. CASE SetReason(r)
  BY <1>6 DEF SetReason, ExactlyOnceInOrder
<1>7. CASE SetStop(r)
  BY <1>7 DEF SetStop, ExactlyOnceInOrder
<1>8. CASE JoinLoop(r)
  BY <1>8 DEF JoinLoop, ExactlyOnceInOrder
<1>9. CASE Timeout(r)
  <2>1. TypeOK'
    <3>1. CASE pc[r] = "await"
      BY <1>9, <3>1 DEF Timeout
    <3>2. CASE pc[r] = "join"
      BY <1>9, <3>2 DEF Timeout
    <3> QED
      BY <1>9, <3>1, <3>2 DEF Timeout
  <2>2. BatchInv' /\ ExactlyOnceInOrder'
    BY <1>9 DEF Timeout, ExactlyOnceInOrder
  <2>3. WakeInv'
    BY <1>9 DEF Timeout
  <2> QED
    BY <2>1, <2>2, <2>3
<1> QED
  BY <1>1, <1>2, <1>3, <1>4, <1>5, <1>6, <1>7, <1>8, <1>9 DEF Handler

(* The loop thread. *)
LEMMA LoopStep ==
  ASSUME Inv, Loop
  PROVE  Inv'
<1> USE EmulatorAssumption
        DEF Inv, TypeOK, BatchInv, WakeInv, LoopLabels
<1>1. CASE Boot
  <2>1. TypeOK'
    <3>1. emu' \in Nat /\ boot' \in Nat \cup {None} /\ clock' \in 0..Window
      BY <1>1 DEF Boot
    <3> QED
      BY <1>1, <3>1 DEF Boot
  <2>2. BatchInv' /\ WakeInv' /\ ExactlyOnceInOrder'
    BY <1>1 DEF Boot, ExactlyOnceInOrder
  <2> QED
    BY <2>1, <2>2
<1>2. CASE Check
  BY <1>2 DEF Check, ExactlyOnceInOrder
<1>3. CASE Pop
  <2>1. TypeOK'
    BY <1>3 DEF Pop
  <2>2. BatchInv' /\ WakeInv'
    BY <1>3 DEF Pop
  <2>3. ExactlyOnceInOrder'
    <3>1. finished \o <<>> \o commands = finished \o commands \o <<>>
      <4>1. finished \o commands \in Seq(Requests)
        BY ConcatProperties
      <4> QED
        BY <4>1, ConcatEmptySeq
    <3> QED
      BY <1>3, <3>1 DEF Pop, ExactlyOnceInOrder
  <2> QED
    BY <2>1, <2>2, <2>3
<1>4. CASE Handle
  <2> USE DEF Handle
  <2>1. ASSUME NEW c \in {"ok", "failed"}, loop = "handle", Answer(c),
               emu' \in Nat, clock' \in 0..Window, boot' = boot,
               disk' \in Nat \cup {None}, sram' \in Nat \cup {None},
               closeFailed' = closeFailed
        PROVE  Inv'
    <3>1. Head(batch) \in Requests /\ Tail(batch) \in Seq(Requests)
      BY <2>1, HeadTailProperties
    <3>2. TypeOK' /\ BatchInv' /\ WakeInv'
      BY <2>1, <3>1 DEF Answer
    <3>3. ExactlyOnceInOrder'
      <4>1. batch = <<Head(batch)>> \o Tail(batch)
        BY <2>1
      <4>2. finished' = finished \o <<Head(batch)>>
        BY <2>1, <3>1, AppendIsConcat DEF Answer
      <4>3. finished \o batch = finished' \o Tail(batch)
        BY <3>1, <4>1, <4>2, ConcatAssociative
      <4> QED
        BY <2>1, <4>3 DEF Answer, ExactlyOnceInOrder
    <3> QED
      BY <3>2, <3>3
  <2>2. CASE Input
    BY <1>4, <2>1, <2>2 DEF Input, Handling
  <2>3. CASE Ping
    BY <1>4, <2>1, <2>3 DEF Ping, Handling
  <2>4. CASE Save
    BY <1>4, <2>1, <2>4 DEF Save, Handling
  <2>5. CASE Discard
    BY <1>4, <2>1, <2>5 DEF Discard, Handling
  <2> QED
    BY <1>4, <2>2, <2>3, <2>4, <2>5
<1>5. CASE Recheck
  BY <1>5 DEF Recheck, ExactlyOnceInOrder
<1>6. CASE CheckIdle
  BY <1>6 DEF CheckIdle, ExactlyOnceInOrder
<1>7. CASE Wait
  BY <1>7 DEF Wait, ExactlyOnceInOrder
<1>8. CASE SaveSnapshot \/ ClosePyboy
  <2>1. closeFailed' \in BOOLEAN
    BY <1>8 DEF SaveSnapshot, ClosePyboy
  <2>2. /\ loop' \in {"close", "close_unsaved", "final", "drain"}
        /\ disk' \in {disk, emu} /\ sram' \in {sram, emu}
        /\ UNCHANGED <<queueVars, procVars, pc, kind, stopRequested, reason,
                       clock, emu, boot>>
    BY <1>8 DEF SaveSnapshot, ClosePyboy
  <2>3. loop \notin {"handle", "closed"}
    BY <1>8 DEF SaveSnapshot, ClosePyboy
  <2>4. TypeOK'
    BY <2>1, <2>2
  <2> QED
    BY <2>2, <2>3, <2>4 DEF ExactlyOnceInOrder
<1>9. CASE Drain
  <2>1. finished \o commands \in Seq(Requests)
    BY ConcatProperties
  <2>2. /\ finished' = finished \o commands /\ commands' = <<>>
        /\ available' = FALSE /\ loop = "drain" /\ loop' = "final"
        /\ result' \in [Requests -> {"none", "ok", "failed"}]
        /\ reason' \in {"none", "requested", "idle_timeout", "error"}
        /\ UNCHANGED <<batch, accepted, emuVars, procVars, pc, kind, stopRequested>>
    BY <1>9 DEF Drain
  <2>3. TypeOK'
    BY <2>1, <2>2
  <2>4. BatchInv' /\ WakeInv'
    BY <2>2
  <2>5. ExactlyOnceInOrder'
    <3>1. finished \o <<>> \o commands
            = finished \o commands \o <<>> \o <<>>
      BY <2>1, ConcatEmptySeq
    <3> QED
      BY <2>2, <3>1 DEF ExactlyOnceInOrder
  <2> QED
    BY <2>3, <2>4, <2>5
<1>10. CASE Finally
  BY <1>10 DEF Finally, ExactlyOnceInOrder
<1> QED
  BY <1>1, <1>2, <1>3, <1>4, <1>5, <1>6, <1>7, <1>8, <1>9, <1>10
     DEF Loop

(* The process ends, in whatever state it leaves its threads. *)
LEMMA ExitStep ==
  ASSUME Inv, NEW c \in {"idle", "requested", "error", "killed"}, Exit(c)
  PROVE  Inv'
BY DEF Exit, Inv, TypeOK, BatchInv, WakeInv, ExactlyOnceInOrder, LoopLabels,
       RequestLabels, Final

(* The clock, the main thread, a crash, stuttering. *)
LEMMA OtherStep ==
  ASSUME Inv, Tick \/ Main \/ BootTimeout \/ Crash \/ UNCHANGED vars
  PROVE  Inv'
<1> USE EmulatorAssumption
<1>1. CASE Tick
  BY <1>1 DEF Tick, Inv, TypeOK, BatchInv, WakeInv, ExactlyOnceInOrder
<1>2. CASE Serve \/ Leave
  <2>1. /\ main' \in {"serving", "leaving"}
        /\ UNCHANGED <<loop, queueVars, stopRequested, reason, emuVars, code,
                       pc, kind>>
    BY <1>2 DEF Serve, Leave
  <2> QED
    BY <2>1 DEF Inv, TypeOK, BatchInv, WakeInv, ExactlyOnceInOrder
<1>3. CASE BootFailed \/ BootTimeout \/ Crash
  BY <1>3, ExitStep DEF BootFailed, BootTimeout, Crash
<1>4. CASE Leaving
  <2>1. ExitCode \in {"idle", "requested", "error"}
    BY DEF ExitCode, Inv, TypeOK
  <2> QED
    BY <1>4, <2>1, ExitStep DEF Leaving
<1>5. CASE UNCHANGED vars
  BY <1>5 DEF vars, Inv, TypeOK, BatchInv, WakeInv, ExactlyOnceInOrder
<1> QED
  BY <1>1, <1>2, <1>3, <1>4, <1>5 DEF Main

LEMMA InvNext == Inv /\ [Next]_vars => Inv'
BY HandlerStep, LoopStep, OtherStep DEF Next

(* Inv is an invariant of the specification, whatever fails. *)
THEOREM Invariance == Spec => []Inv
<1> QED
  BY InvInit, InvNext, PTL DEF Spec

(* The loop never waits on a clear event while a signalled command or a      *)
(* requested stop is there: the event discipline of _pop_commands, submit    *)
(* and request_stop loses no wakeup, for any number of handler threads.      *)
THEOREM NeverSleepsOnWork == Spec => []NoLostWakeup
<1>1. Inv => NoLostWakeup
  BY DEF Inv, WakeInv, NoLostWakeup
<1> QED
  BY Invariance, <1>1, PTL

(* No queued command is lost, answered twice or overtaken by the loop.       *)
THEOREM AnsweredOnceInOrder == Spec => []ExactlyOnceInOrder
<1>1. Inv => ExactlyOnceInOrder
  BY DEF Inv
<1> QED
  BY Invariance, <1>1, PTL

-----------------------------------------------------------------------------
Flushed == disk = emu /\ sram = emu

(* A session that was ready only leaves through the snapshot and the flush, *)
(* or after one of the two has raised, and its process after it.            *)
CleanInv ==
  /\ boot = None => loop \in {"boot", "drain", "final", "closed"}
  /\ loop = "boot" => boot = None
  /\ loop = "drain" => boot = None \/ closeFailed
  /\ loop = "close_unsaved" => closeFailed
  /\ loop = "close" => disk = emu
  /\ loop = "final" => boot = None \/ Flushed \/ closeFailed
  /\ loop = "closed" /\ main # "exited" => boot = None \/ Flushed \/ closeFailed
  /\ closeFailed => SaveMayFail
  /\ main \in {"serving", "leaving"} => boot # None
  /\ main \in {"leaving", "exited"} => loop = "closed"
  /\ code \in {"idle", "requested"} => (Flushed \/ closeFailed) /\ main = "exited"

LEMMA CleanInit == Init => CleanInv
BY DEF Init, CleanInv

LEMMA CleanNext ==
  ASSUME Inv, CleanInv, [Next]_vars
  PROVE  CleanInv'
<1> USE EmulatorAssumption DEF CleanInv, Flushed
<1>1. ASSUME NEW r \in Requests, Arrive(r) \/ Handler(r) \/ Timeout(r)
      PROVE  CleanInv'
  <2>1. UNCHANGED <<loop, emuVars, procVars>>
    BY <1>1 DEF Arrive, Handler, Submit, Enqueue, Signal, Await, SetReason,
                SetStop, JoinLoop, Timeout
  <2> QED
    BY <2>1
<1>2. CASE Loop
  <2>1. CASE Boot
    BY <2>1 DEF Boot, Inv, TypeOK
  <2>2. CASE Check \/ Pop \/ Recheck \/ CheckIdle \/ Wait
    BY <2>2 DEF Check, Pop, Recheck, CheckIdle, Wait
  <2>3. CASE Handle
    <3>1. /\ loop = "handle" /\ loop' \in {"check", "handle"}
          /\ boot' = boot /\ UNCHANGED <<closeFailed, procVars>>
      BY <2>3 DEF Handle, Input, Ping, Save, Discard, Handling, Answer
    <3> QED
      BY <3>1
  <2>4. CASE SaveSnapshot \/ ClosePyboy
    BY <2>4 DEF SaveSnapshot, ClosePyboy
  <2>5. CASE Drain \/ Finally
    BY <2>5 DEF Drain, Finally
  <2> QED
    BY <1>2, <2>1, <2>2, <2>3, <2>4, <2>5 DEF Loop
<1>3. CASE Tick
  BY <1>3 DEF Tick
<1>4. CASE Main \/ BootTimeout \/ Crash
  BY <1>4 DEF Main, Serve, BootFailed, Leave, Leaving, BootTimeout, Crash, Exit
<1>5. CASE UNCHANGED vars
  BY <1>5 DEF vars
<1> QED
  BY <1>1, <1>2, <1>3, <1>4, <1>5 DEF Next

(* A process that reports an idle or a requested close has left all play     *)
(* progress on the volume, wherever the stop, the idle clock and the         *)
(* requests met the loop, unless the last snapshot or the flush raised.      *)
THEOREM NothingLostAtClose == Spec => []CleanExitSaved
<1>1. Inv /\ CleanInv /\ [Next]_vars => CleanInv'
  BY CleanNext
<1>2. CleanInv => CleanExitSaved
  BY DEF CleanInv, Flushed, CleanExitSaved
<1> QED
  BY Invariance, CleanInit, <1>1, <1>2, PTL DEF Spec

-----------------------------------------------------------------------------
(* Nothing before the boot, nothing after the exit, and versions only grow. *)
StageInv ==
  /\ loop = "boot" => boot = None /\ disk \in {None, 0}
  /\ boot = None => loop \in {"boot", "drain", "final", "closed"}
  /\ main \in {"serving", "leaving"} => boot # None
  /\ main \in {"leaving", "exited"} => loop = "closed"
  /\ main # "exited" => code = "none"
  /\ boot # None => boot <= emu
  /\ disk # None => disk <= emu

LEMMA StageInit == Init => StageInv
BY DEF Init, StageInv

LEMMA StageNext ==
  ASSUME Inv, StageInv, [Next]_vars
  PROVE  StageInv'
<1> USE EmulatorAssumption DEF StageInv
<1>1. /\ emu \in Nat /\ disk \in Nat \cup {None} /\ boot \in Nat \cup {None}
      /\ main \in {"starting", "serving", "leaving", "exited"}
  BY DEF Inv, TypeOK
<1>2. ASSUME NEW r \in Requests, Arrive(r) \/ Handler(r) \/ Timeout(r)
      PROVE  StageInv'
  <2>1. UNCHANGED <<loop, emuVars, procVars>>
    BY <1>2 DEF Arrive, Handler, Submit, Enqueue, Signal, Await, SetReason,
                SetStop, JoinLoop, Timeout
  <2> QED
    BY <2>1
<1>3. CASE Loop
  <2>1. CASE Boot
    BY <1>1, <2>1 DEF Boot
  <2>2. CASE Check \/ Pop \/ Recheck \/ CheckIdle \/ Wait
    BY <2>2 DEF Check, Pop, Recheck, CheckIdle, Wait
  <2>3. CASE Handle
    <3>1. /\ loop = "handle" /\ loop' \in {"check", "handle"}
          /\ boot' = boot /\ UNCHANGED procVars
      BY <2>3 DEF Handle, Input, Ping, Save, Discard, Handling, Answer
    <3>2. \/ emu' \in {emu, emu + 1} /\ disk' = disk
          \/ emu' = emu /\ disk' \in {emu, None, disk}
      BY <2>3 DEF Handle, Input, Ping, Save, Discard
    <3> QED
      BY <1>1, <3>1, <3>2
  <2>4. CASE SaveSnapshot \/ ClosePyboy
    BY <1>1, <2>4 DEF SaveSnapshot, ClosePyboy
  <2>5. CASE Drain \/ Finally
    BY <2>5 DEF Drain, Finally
  <2> QED
    BY <1>3, <2>1, <2>2, <2>3, <2>4, <2>5 DEF Loop
<1>4. CASE Tick
  BY <1>4 DEF Tick
<1>5. CASE Main \/ BootTimeout \/ Crash
  BY <1>1, <1>5 DEF Main, Serve, BootFailed, Leave, Leaving, BootTimeout, Crash, Exit
<1>6. CASE UNCHANGED vars
  BY <1>6 DEF vars
<1> QED
  BY <1>2, <1>3, <1>4, <1>5, <1>6 DEF Next

LEMMA InitMaps == Init => Contract!Init
BY DEF Init, Contract!Init, Live

(* A step that leaves the process and the versions as they are.            *)
LEMMA Unseen ==
  ASSUME UNCHANGED <<boot, main, code, emu, disk>>
  PROVE  UNCHANGED Contract!vars
BY DEF Contract!vars, Live

(* The end of a process that was ready saves its progress, or is to the     *)
(* contract a crash.                                                        *)
LEMMA LeavingMaps ==
  ASSUME Inv, StageInv, CleanInv, Leaving
  PROVE  Contract!Exit \/ (closeFailed /\ Contract!Crash)
<1> USE EmulatorAssumption
<1>1. /\ emu \in Nat /\ disk \in Nat \cup {None} /\ boot \in Nat \cup {None}
  BY DEF Inv, TypeOK
<1>2. /\ UNCHANGED <<boot, emu, disk>> /\ boot # None
      /\ Live /\ ~Live' /\ main' = "exited"
  <2>1. ExitCode # "killed"
    BY DEF ExitCode, Inv, TypeOK
  <2> QED
    BY <2>1 DEF Leaving, Exit, Live, StageInv
<1>3. CASE closeFailed
  <2>1. Contract!Crash
    BY <1>2, <1>3 DEF Contract!Crash, CleanInv
  <2> QED
    BY <1>3, <2>1
<1>4. CASE ~closeFailed
  <2>1. disk = emu /\ loop = "closed" /\ main # "exited"
    BY <1>2, <1>4 DEF Leaving, StageInv, CleanInv, Flushed
  <2>2. Contract!Exit
    BY <1>1, <1>2, <2>1 DEF Contract!Exit
  <2> QED
    BY <2>2
<1> QED
  BY <1>3, <1>4

(* No other step takes a live process out of its contract. *)
LEMMA ExitSaves ==
  ASSUME Inv, StageInv, CleanInv, [Next]_vars, Live, ~Live'
  PROVE  Contract!Exit \/ closeFailed
<1> USE EmulatorAssumption
<1>1. boot # None /\ boot \in Nat /\ loop # "boot"
  BY DEF Live, Inv, TypeOK, StageInv
<1>2. CASE Leaving
  BY <1>2, LeavingMaps
<1>3. CASE Crash
  BY <1>1, <1>3 DEF Crash, Exit, Live
<1>4. CASE BootFailed \/ BootTimeout
  BY <1>1, <1>4 DEF BootFailed, BootTimeout
<1>5. CASE Loop
  <2>1. UNCHANGED <<boot, main, code>>
    BY <1>1, <1>5 DEF Loop, Boot, Check, Pop, Handle, Input, Ping, Save, Discard,
                      Handling, Answer, Recheck, CheckIdle, Wait, SaveSnapshot,
                      ClosePyboy, Drain, Finally
  <2> QED
    BY <2>1 DEF Live
<1>6. CASE Serve \/ Leave
  BY <1>6 DEF Serve, Leave, Live
<1>7. CASE \/ \E r \in Requests : Arrive(r) \/ Handler(r) \/ Timeout(r)
           \/ Tick \/ UNCHANGED vars
  <2>1. UNCHANGED <<boot, main, code>>
    BY <1>7 DEF Arrive, Handler, Submit, Enqueue, Signal, Await, SetReason,
                SetStop, JoinLoop, Timeout, Tick, vars
  <2> QED
    BY <2>1 DEF Live
<1> QED
  BY <1>2, <1>3, <1>4, <1>5, <1>6, <1>7 DEF Next, Main

LEMMA StepMaps ==
  ASSUME Inv, StageInv, CleanInv, [Next]_vars
  PROVE  [Contract!Next]_Contract!vars
<1> USE EmulatorAssumption
<1>1. /\ emu \in Nat /\ disk \in Nat \cup {None} /\ boot \in Nat \cup {None}
      /\ main \in {"starting", "serving", "leaving", "exited"}
  BY DEF Inv, TypeOK
<1>2. ASSUME NEW r \in Requests, Arrive(r) \/ Handler(r) \/ Timeout(r)
      PROVE  UNCHANGED <<boot, main, code, emu, disk>>
  BY <1>2 DEF Arrive, Handler, Submit, Enqueue, Signal, Await, SetReason, SetStop,
              JoinLoop, Timeout
<1>3. CASE Boot
  <2>1. CASE UNCHANGED <<boot, emu>>
    BY <1>3, <2>1, Unseen DEF Boot
  <2>2. CASE boot' = emu' /\ boot' # None
    <3>1. ~Live /\ Live' /\ main # "exited" /\ disk' = disk
      BY <1>1, <1>3, <2>2 DEF Boot, StageInv, Live
    <3>2. Contract!Ready
      BY <1>3, <2>2, <3>1 DEF Boot, Contract!Ready
    <3> QED
      BY <3>2 DEF Contract!Next
  <2> QED
    BY <1>1, <1>3, <2>1, <2>2 DEF Boot
<1>4. CASE Handle \/ SaveSnapshot
  <2>1. /\ boot # None /\ boot <= emu /\ disk # None => disk <= emu
        /\ UNCHANGED <<boot, main, code>>
        /\ Live /\ Live'
    BY <1>1, <1>4
       DEF Handle, Input, Ping, Save, Discard, Handling, Answer, SaveSnapshot,
           StageInv, Live
  <2>2. CASE UNCHANGED <<emu, disk>>
    BY <2>1, <2>2, Unseen
  <2>3. CASE emu' = emu + 1 /\ disk' = disk
    <3>1. disk' # emu' /\ emu' # boot'
      BY <1>1, <2>1, <2>3 DEF StageInv
    <3>2. Contract!Play
      BY <2>1, <2>3, <3>1 DEF Contract!Play
    <3> QED
      BY <3>2 DEF Contract!Next
  <2>4. CASE emu' = emu /\ disk' = emu
    <3>1. Contract!Save
      BY <1>1, <2>1, <2>4 DEF Contract!Save
    <3> QED
      BY <3>1 DEF Contract!Next
  <2>5. CASE emu' = emu /\ disk' = None
    <3>1. Contract!Drop
      BY <1>1, <2>1, <2>5 DEF Contract!Drop
    <3> QED
      BY <3>1 DEF Contract!Next
  <2> QED
    BY <1>4, <2>2, <2>3, <2>4, <2>5
       DEF Handle, Input, Ping, Save, Discard, SaveSnapshot
<1>5. CASE Check \/ Pop \/ Recheck \/ CheckIdle \/ Wait \/ ClosePyboy \/ Drain \/ Finally
  <2>1. UNCHANGED <<boot, main, code, emu, disk>>
    BY <1>5 DEF Check, Pop, Recheck, CheckIdle, Wait, ClosePyboy, Drain, Finally
  <2> QED
    BY <2>1, Unseen
<1>6. CASE Tick \/ UNCHANGED vars
  <2>1. UNCHANGED <<boot, main, code, emu, disk>>
    BY <1>6 DEF Tick, vars
  <2> QED
    BY <2>1, Unseen
<1>7. CASE Serve \/ Leave
  <2>1. /\ UNCHANGED <<boot, emu, disk, code>> /\ boot # None
        /\ main # "exited" /\ main' # "exited"
    BY <1>1, <1>7 DEF Serve, Leave, StageInv
  <2> QED
    BY <2>1 DEF Contract!vars, Live
<1>8. CASE BootFailed \/ BootTimeout \/ (Crash /\ boot = None)
  <2>1. /\ boot = None /\ UNCHANGED <<boot, disk>>
        /\ main # "exited" /\ main' = "exited"
    BY <1>8 DEF BootFailed, BootTimeout, Crash, Exit, StageInv
  <2>2. Contract!NoBoot
    BY <2>1 DEF Contract!NoBoot, Live
  <2> QED
    BY <2>2 DEF Contract!Next
<1>9. CASE Crash /\ boot # None
  <2>1. UNCHANGED <<boot, emu, disk>> /\ Live /\ Live'
    BY <1>9 DEF Crash, Exit, Live
  <2> QED
    BY <2>1 DEF Contract!vars
<1>10. CASE Leaving
  BY <1>10, LeavingMaps DEF Contract!Next
<1> QED
  BY <1>2, <1>3, <1>4, <1>5, <1>6, <1>7, <1>8, <1>9, <1>10, Unseen
     DEF Next, Loop, Main

(* KeepsContract: the loop, its handlers and the main thread together keep   *)
(* the contract of PlayInstance.  Progress leaves the emulator only into the *)
(* snapshot, for any number of requests, any idle window, boots that fail    *)
(* and kills; only where the last snapshot or the flush raised is more lost, *)
(* and no more than the contract allows a crash to lose.                     *)
THEOREM ContractKept == Spec => KeepsContract
<1>1. Inv /\ CleanInv /\ [Next]_vars => CleanInv'
  BY CleanNext
<1>2. Inv /\ StageInv /\ [Next]_vars => StageInv'
  BY StageNext
<1>3. Inv /\ StageInv /\ CleanInv /\ [Next]_vars => [Contract!Next]_Contract!vars
  BY StepMaps
<1>4. Inv /\ StageInv /\ CleanInv /\ [Next]_vars =>
        [Live /\ ~Live' => Contract!Exit \/ closeFailed]_vars
  BY ExitSaves
<1> QED
  BY Invariance, StageInit, CleanInit, InitMaps, <1>1, <1>2, <1>3, <1>4, PTL
     DEF Spec, KeepsContract, SavesOnExit, Contract!Spec
=============================================================================
