-------------------------- MODULE PlayCommandProofs --------------------------
(***************************************************************************)
(* Theorems about PlayCommand: the way of the arguments, the labels and    *)
(* counters of a call, with the invariants of PlayEngineProofs what the    *)
(* game and the caller see, and what the plays of an intent cost together. *)
(***************************************************************************)
EXTENDS PlayEngineProofs

-----------------------------------------------------------------------------
(* The way of the arguments                                                *)

CallInv ==
  /\ label = "idle" => guest = Absent
  /\ label = "sent" => guest = Absent
  /\ label # "idle" =>
       /\ raw \in Calls /\ Accepted(raw)
       /\ host = Host(Payload(raw), Default(raw.shots, Parse(Payload(raw)).mode))
  /\ label \notin {"idle", "sent"} => guest = AsScript(host)

\* A press or a wait has no budget of its own that could be too small.
LEMMA NoOwnBudget ==
  ASSUME NEW r, Accepted(r), Form(Payload(r)) \in {"chord", "wait"}
  PROVE  Budget(Payload(r)) >= Length(Payload(r))
<1> DEFINE q == Payload(r)
<1>1. q.max = Absent
  <2>1. \/ q.max = Absent
        \/ q.steps = Absent /\ q.macro = "mash"
        \/ q.steps = Absent /\ q.macro = "hold"
    <3> DEFINE common ==
          [Empty EXCEPT !.gap = Default(r.gap, 0), !.intent = r.intent,
                        !.until = PublicUntil(r), !.media = r.media]
    <3>1. common = [k \in DOMAIN Empty |-> common[k]]
      OBVIOUS
    <3>2. common.max = Absent /\ common.steps = Absent
      BY DEF Empty
    <3>3. {"max", "steps", "macro"} \subseteq DOMAIN Empty
      BY DEF Empty
    <3>4. DOMAIN common = DOMAIN Empty
      OBVIOUS
    <3>5. \/ q.max = Absent
          \/ q.steps = common.steps /\ q.macro = "mash"
          \/ q.steps = common.steps /\ q.macro = "hold"
      <4> HIDE DEF common
      <4> QED BY <3>1, <3>2, <3>3, <3>4 DEF Payload, common
    <3> QED BY <3>2, <3>5
  <2> QED BY <2>1 DEF Form
<1>2. Length(q) \in Int
  BY DEF Accepted, Acceptable
<1> HIDE DEF q
<1>3. Budget(q) = Length(q)
  BY <1>1 DEF Budget, Default
<1> QED
  BY <1>2, <1>3 DEF q

\* What the guest makes of an accepted call.
LEMMA Received ==
  ASSUME NEW r \in Calls, Accepted(r), NEW m
  PROVE  LET h == Host(Payload(r), m)
         IN  /\ Acceptable(Relayed(AsPayload(h)))
             /\ Parse(Relayed(AsPayload(h))) = AsScript(h)
             /\ PlayOK(AsScript(h))
             /\ AsScript(h).intent \in Intents \cup {Absent}
<1> DEFINE q == Payload(r)
           h == Host(q, m)
<1>1. Acceptable(q) /\ q.intent \in Intents \cup {Absent}
  BY DEF Accepted, Acceptable
<1>2. AsPayload(Parse(q)).steps # Absent
  BY CallsAssumption
<1>3. Form(q) \in {"chord", "wait"} => Budget(q) >= Length(q)
  BY NoOwnBudget
<1>4. AsScript(h).intent = q.intent
  <2>1. h = [k \in Keys |-> h[k]] /\ h.intent = Parse(q).intent
    BY HostKeys DEF Keys
  <2>2. AsScript(h).intent = h.intent
    BY <2>1, AsScriptKeys DEF Keys
  <2> QED BY <2>1, <2>2, ParseKeys
<1> HIDE DEF q
<1>5. Acceptable(Sent(h)) /\ Parse(Sent(h)) = AsScript(h) /\ PlayOK(AsScript(h))
  BY <1>1, <1>2, <1>3, SecondParse, GuestPlayOK
<1> QED
  BY <1>1, <1>4, <1>5 DEF Sent, q

\* No step of an intent touches the arguments.
LEMMA IntentCommand ==
  ASSUME Intent
  PROVE  UNCHANGED command /\ label \notin {"idle", "sent"}
<1>1. CASE \/ AdvanceStart \/ AdvanceOpened \/ Advance \/ AdvanceMashed
           \/ AdvanceLooked
  BY <1>1 DEF AdvanceStart, AdvanceOpened, Advance, AdvanceMashed,
       AdvanceLooked, Returned
<1>2. CASE \/ FleeStart \/ Flee \/ FleeCleared \/ FleeBacked \/ FleePane
           \/ FleeChosen \/ FleeEnd
  BY <1>2 DEF FleeStart, Flee, FleeCleared, FleeBacked, FleePane, FleeChosen,
       FleeEnd, Returned
<1>3. CASE TurnStart \/ Turn \/ TurnActed \/ Settle \/ Settling
  BY <1>3 DEF TurnStart, Turn, TurnActed, Settle, Settling, Returned
<1>4. CASE UntilOverworld \/ Skip \/ SkipPulsed \/ Door \/ DoorEntered
  BY <1>4 DEF UntilOverworld, Skip, SkipPulsed, Door, DoorEntered, Returned
<1> QED
  BY <1>1, <1>2, <1>3, <1>4 DEF Intent

-----------------------------------------------------------------------------
(* Where a call stands                                                     *)

LabelInv ==
  /\ label \in {"idle", "refused"} \cup Between \cup Running
  /\ label \in Running <=> at # "idle"

LEMMA RunLabel ==
  ASSUME NEW p, NEW next, Run(p, next)
  PROVE  \/ at' = "loop" /\ label' = next
         \/ at' = "idle" /\ label' = "refused"
BY DEF Run, Goto, Forget, Start

LEMMA GotoLabel ==
  ASSUME NEW next, Goto(next)
  PROVE  at' = "idle" /\ label' = next
BY DEF Goto, Forget

LEMMA IntentLabel ==
  ASSUME LabelInv, Intent
  PROVE  LabelInv' /\ label' \notin {"idle", "sent"}
<1> USE RunLabel, GotoLabel
    DEF LabelInv, Between, Running, Intents, Returned, engine
<1>1. CASE AdvanceStart \/ AdvanceOpened \/ Advance
  BY <1>1 DEF AdvanceStart, AdvanceOpened, Advance
<1>2. CASE AdvanceMashed \/ AdvanceLooked
  BY <1>2 DEF AdvanceMashed, AdvanceLooked
<1>3. CASE FleeStart \/ Flee \/ FleeCleared \/ FleeBacked
  BY <1>3 DEF FleeStart, Flee, FleeCleared, FleeBacked
<1>4. CASE FleePane \/ FleeChosen \/ FleeEnd
  BY <1>4 DEF FleePane, FleeChosen, FleeEnd
<1>5. CASE TurnStart \/ Turn \/ TurnActed
  BY <1>5 DEF TurnStart, Turn, TurnActed
<1>6. CASE Settle \/ Settling
  BY <1>6 DEF Settle, Settling, TurnEnds
<1>7. CASE UntilOverworld \/ SkipPulsed \/ DoorEntered
  BY <1>7 DEF UntilOverworld, SkipPulsed, DoorEntered
<1>8. CASE Skip
  BY <1>8 DEF Skip
<1>9. CASE Door
  BY <1>9 DEF Door
<1> QED
  BY <1>1, <1>2, <1>3, <1>4, <1>5, <1>6, <1>7, <1>8, <1>9 DEF Intent

\* The engine moves within a play; only the call leaves it.
LEMMA EngineLabel ==
  ASSUME CourseInv, Engine
  PROVE  at # "idle" /\ at' # "idle"
BY DEF Engine, Chunk, Interrupt, Drive, MashGap, WrapUp, NextPhase, Timeout,
   Finished, Stopped

LEMMA CallStep ==
  ASSUME CourseInv, LabelInv, CallInv, [Next]_vars
  PROVE  CallInv' /\ LabelInv'
<1>1. CASE UNCHANGED vars
  BY <1>1 DEF vars, engine, command, LabelInv, CallInv
<1>2. ASSUME NEW r \in Calls, Call(r)
      PROVE  CallInv' /\ LabelInv'
  <2>1. CallInv'
    BY <1>2 DEF Call, CallInv, Host
  <2>2. LabelInv'
    BY <1>2 DEF Call, LabelInv, Between, Running, engine
  <2> QED BY <2>1, <2>2
<1>3. CASE Receive
  <2> DEFINE p == Relayed(AsPayload(host))
  <2>1. /\ label = "sent" /\ raw' = raw /\ host' = host /\ at' = at
        /\ IF Acceptable(p)
           THEN guest' = Parse(p) /\ label' = Default(guest'.intent, "play")
           ELSE guest' = guest /\ label' = "refused"
    BY <1>3 DEF Receive, engine
  <2>2. /\ raw \in Calls /\ Accepted(raw)
        /\ host = Host(Payload(raw), Default(raw.shots, Parse(Payload(raw)).mode))
    BY <2>1 DEF CallInv
  <2>3. Acceptable(p) /\ Parse(p) = AsScript(host)
        /\ AsScript(host).intent \in Intents \cup {Absent}
    BY <2>2, Received
  <2> HIDE DEF p
  <2>4. guest' = AsScript(host) /\ label' \in Intents \cup {"play"}
    BY <2>1, <2>3 DEF Default
  <2>5. CallInv'
    BY <2>1, <2>2, <2>4 DEF CallInv, Intents
  <2>6. LabelInv'
    BY <2>1, <2>4 DEF LabelInv, Between, Running, Intents
  <2> QED BY <2>5, <2>6
<1>4. CASE RunPlay
  <2>1. at' = "loop" /\ label' = "last" /\ label = "play" /\ UNCHANGED command
    BY <1>4 DEF RunPlay, Start
  <2> QED BY <2>1 DEF command, CallInv, LabelInv, Between, Running
<1>5. CASE LastPlay
  <2>1. at' = "idle" /\ label' = "reply" /\ label = "last" /\ UNCHANGED command
    BY <1>5, GotoLabel DEF LastPlay, Returned
  <2> QED BY <2>1 DEF command, CallInv, LabelInv, Between, Running
<1>6. CASE Reply
  <2>1. /\ label = "reply" /\ label' = "idle" /\ at' = at /\ guest' = Absent
    BY <1>6 DEF Reply, Idle, engine
  <2> QED BY <2>1 DEF CallInv, LabelInv, Between, Running
<1>7. CASE Fail
  <2>1. label' = "idle" /\ at' = "idle" /\ guest' = Absent
    BY <1>7 DEF Fail, Idle, Forget
  <2> QED BY <2>1 DEF CallInv, LabelInv, Between, Running
<1>8. CASE Intent
  <2>1. CallInv'
    BY <1>8, IntentCommand, IntentLabel DEF command, CallInv
  <2> QED BY <1>8, <2>1, IntentLabel
<1>9. CASE Engine /\ UNCHANGED <<label, command, counts>>
  BY <1>9, EngineLabel DEF command, CallInv, LabelInv
<1> QED
  BY <1>1, <1>2, <1>3, <1>4, <1>5, <1>6, <1>7, <1>8, <1>9 DEF Next, Work

-----------------------------------------------------------------------------
(* The counters of a call                                                  *)

CountInv ==
  /\ used \in Nat /\ gone \in Nat /\ round \in Nat /\ waited \in Nat
  /\ spent \in Nat /\ gone = clear
  /\ label \in {"idle", "sent", "advance_text", "opened", "mashed"} => gone = 0
  /\ label = "advance" /\ "textbox" \in screen => gone = 0

\* An intent other than advance_text leaves its counts of looks alone.
LEMMA OtherIntentCounts ==
  ASSUME CourseInv, LabelInv, CountInv,
         \/ FleeStart \/ Flee \/ FleeCleared \/ FleeBacked \/ FleePane
         \/ FleeChosen \/ FleeEnd \/ TurnStart \/ Turn \/ TurnActed \/ Settle
         \/ Settling \/ UntilOverworld \/ Skip \/ SkipPulsed \/ Door
         \/ DoorEntered
  PROVE  CountInv'
<1> DEFINE rest == {"idle", "sent", "advance_text", "opened", "mashed", "advance"}
<1>1. /\ gone' = gone /\ clear' = clear
      /\ used' \in Nat /\ round' \in Nat /\ waited' \in Nat /\ spent' \in Nat
  <2> USE DEF CourseInv, CountInv, counts, Returned
  <2>1. CASE \/ FleeStart \/ Flee \/ FleeCleared \/ FleeBacked \/ FleePane
             \/ FleeChosen \/ FleeEnd
    BY <2>1 DEF FleeStart, Flee, FleeCleared, FleeBacked, FleePane,
         FleeChosen, FleeEnd
  <2>2. CASE TurnStart \/ Turn \/ TurnActed
    BY <2>2 DEF TurnStart, Turn, TurnActed
  <2>3. CASE Settle \/ Settling
    BY <2>3 DEF Settle, Settling, TurnEnds
  <2>4. CASE UntilOverworld \/ SkipPulsed \/ DoorEntered
    BY <2>4 DEF UntilOverworld, SkipPulsed, DoorEntered
  <2>5. CASE Skip
    BY <2>5 DEF Skip
  <2>6. CASE Door
    BY <2>6 DEF Door
  <2> QED BY <2>1, <2>2, <2>3, <2>4, <2>5, <2>6
<1>2. label' \notin rest
  <2> USE RunLabel, GotoLabel DEF Returned
  <2>1. CASE FleeStart \/ Flee \/ FleeCleared \/ FleeBacked
    BY <2>1 DEF FleeStart, Flee, FleeCleared, FleeBacked
  <2>2. CASE FleePane \/ FleeChosen \/ FleeEnd
    BY <2>2 DEF FleePane, FleeChosen, FleeEnd
  <2>3. CASE TurnStart \/ Turn \/ TurnActed
    BY <2>3 DEF TurnStart, Turn, TurnActed
  <2>4. CASE Settle \/ Settling
    BY <2>4 DEF Settle, Settling, TurnEnds
  <2>5. CASE UntilOverworld \/ SkipPulsed \/ DoorEntered
    BY <2>5 DEF UntilOverworld, SkipPulsed, DoorEntered
  <2>6. CASE Skip
    BY <2>6 DEF Skip
  <2>7. CASE Door
    <3>1. \E p : Run(p, "entered")
      BY <2>7 DEF Door
    <3> QED BY <3>1
  <2> QED BY <2>1, <2>2, <2>3, <2>4, <2>5, <2>6, <2>7
<1> QED
  BY <1>1, <1>2 DEF CountInv

LEMMA AdvanceCounts ==
  ASSUME CourseInv, LabelInv, CountInv,
         \/ AdvanceStart \/ AdvanceOpened \/ Advance \/ AdvanceMashed
         \/ AdvanceLooked
  PROVE  CountInv'
<1> USE RunLabel, GotoLabel DEF CourseInv, CountInv, Returned
<1>1. CASE AdvanceStart
  <2>1. gone = 0 /\ UNCHANGED counts
    BY <1>1 DEF AdvanceStart
  <2> QED BY <2>1 DEF counts
<1>2. CASE AdvanceOpened
  BY <1>2 DEF AdvanceOpened
<1>3. CASE Advance
  <2>1. gone' = clear' /\ gone' \in Nat /\ label' \in {"reply", "mashed", "looked", "refused"}
    BY <1>3 DEF Advance, Shows
  <2>2. label' = "mashed" => gone' = 0
    BY <1>3 DEF Advance, Shows
  <2> QED BY <1>3, <2>1, <2>2 DEF Advance
<1>4. CASE AdvanceMashed
  BY <1>4 DEF AdvanceMashed
<1>5. CASE AdvanceLooked
  <2>1. Most(frames, 1) \in Nat
    BY DEF Most
  <2>2. screen' = screen
    BY <1>5 DEF AdvanceLooked, Goto, Forget
  <2>3. gone' = clear' /\ gone' \in Nat /\ label' \in {"advance", "reply"}
    BY <1>5 DEF AdvanceLooked
  <2>4. "textbox" \in screen => gone' = 0
    BY <1>5 DEF AdvanceLooked, Shows
  <2> QED BY <1>5, <2>1, <2>2, <2>3, <2>4 DEF AdvanceLooked
<1> QED
  BY <1>1, <1>2, <1>3, <1>4, <1>5

LEMMA CountStep ==
  ASSUME CourseInv, LabelInv, CallInv, CountInv, [Next]_vars
  PROVE  CountInv'
<1>1. CASE UNCHANGED vars
  BY <1>1 DEF vars, engine, lcd, counts, CountInv
<1>2. ASSUME NEW r \in Calls, Call(r)
      PROVE  CountInv'
  BY <1>2 DEF Call, counts, CountInv
<1>3. CASE Receive
  <2>1. gone = 0 /\ UNCHANGED counts
    BY <1>3 DEF Receive, CountInv
  <2> QED BY <2>1 DEF counts, CountInv
<1>4. CASE RunPlay
  BY <1>4 DEF RunPlay, counts, CountInv
<1>5. CASE LastPlay
  BY <1>5, GotoLabel DEF LastPlay, Returned, CourseInv, CountInv
<1>6. CASE Reply \/ Fail
  BY <1>6 DEF Reply, Fail, Idle, CountInv
<1>7. CASE Intent
  BY <1>7, AdvanceCounts, OtherIntentCounts DEF Intent
<1>8. CASE Engine /\ UNCHANGED <<label, command, counts>>
  <2>1. label \in Running
    BY <1>8, EngineLabel DEF LabelInv
  <2>2. label # "advance" /\ label' = label /\ UNCHANGED counts
    BY <1>8, <2>1 DEF Running
  <2> QED BY <2>2 DEF counts, CountInv
<1> QED
  BY <1>1, <1>2, <1>3, <1>4, <1>5, <1>6, <1>7, <1>8 DEF Next, Work

-----------------------------------------------------------------------------
(* The invariant of a call and what follows from it                        *)

EngineInv == CourseInv /\ JoyInv /\ ShotsInv /\ LookInv /\ CalmInv /\ FollowInv
IInv == EngineInv /\ LabelInv /\ CallInv /\ CountInv

LEMMA IInvInit ==
  ASSUME Init
  PROVE  IInv
<1>1. EngineInv
  BY CourseInit, JoyInit, ShotsInit, CalmInit, FollowInit
  DEF Init, EngineInv, LookInv, Driving
<1>2. LabelInv /\ CallInv /\ CountInv
  BY DEF Init, LabelInv, Between, Running, CallInv, CountInv
<1> QED
  BY <1>1, <1>2 DEF IInv

LEMMA IInvStep ==
  ASSUME IInv, [Next]_vars
  PROVE  IInv'
<1>1. CallInv' /\ LabelInv' /\ CountInv'
  BY CallStep, CountStep DEF IInv, EngineInv
<1>2. label = "play" => PlayOK(guest)
  BY Received DEF IInv, CallInv
<1>3. Move
  BY EngineMoves
<1>4. UNCHANGED engine \/ Forget \/ (\E p : PlayOK(p) /\ Start(p)) \/ Engine
  BY <1>2, <1>3, MoveKinds
<1>5. CourseInv'
  BY <1>2, <1>3, CourseStep DEF IInv, EngineInv
<1>6. JoyInv' /\ ShotsInv' /\ LookInv' /\ CalmInv' /\ FollowInv'
  BY <1>4, <1>5, JoyStep, ShotsStep, LookStep, CalmStep, FollowStep
  DEF IInv, EngineInv
<1> QED
  BY <1>1, <1>5, <1>6 DEF IInv, EngineInv

\* The inductive invariant of a call and of the play within it.
THEOREM CommandCorrect == Spec => []IInv
<1>1. Init => IInv
  BY IInvInit
<1>2. IInv /\ [Next]_vars => IInv'
  BY IInvStep
<1> QED
  BY <1>1, <1>2, PTL DEF Spec

\* A play runs exactly at the labels that wait for one, within its budget.
THEOREM PlayInvCorrect == Spec => []PlayInv
<1>1. IInv => PlayInv
  BY DEF IInv, EngineInv, CourseInv, LabelInv, CountInv, PlayInv, PlayOK
<1> QED
  BY <1>1, CommandCorrect, PTL

\* The guest runs the very play the host has parsed and serialized.
THEOREM RoundTripCorrect == Spec => []RoundTrip
<1>1. IInv => RoundTrip
  BY DEF IInv, CallInv, RoundTrip, AsScript
<1> QED
  BY <1>1, CommandCorrect, PTL

\* No button stays pressed when a play is over, however it ended.
THEOREM NothingHeldCorrect == Spec => []NothingHeld
<1>1. IInv => NothingHeld
  BY DEF IInv, EngineInv, CourseInv
<1> QED
  BY <1>1, CommandCorrect, PTL

\* A mash ended by the screen is followed by released ticks.
THEOREM ReleasedAfterMashCorrect == Spec => []ReleasedAfterMash
<1>1. IInv => ReleasedAfterMash
  <2> SUFFICES ASSUME IInv, at = "ended", play.macro = "mash",
                      stop.reason \notin {"completed", "max_frames", "call_timeout"}
               PROVE  /\ frames >= GapAfter(play)
                      /\ \A n \in (frames - GapAfter(play) + 1)..frames : joy[n] = {}
    BY DEF ReleasedAfterMash
  <2>1. ScreenStop(stop)
    BY Reasons DEF IInv, EngineInv, CourseInv, RanTo, Ran
  <2> QED
    BY <2>1 DEF IInv, EngineInv, JoyInv
<1> QED
  BY <1>1, CommandCorrect, PTL

\* The screen is looked at every interval and at the end of a play.
THEOREM LooksInTimeCorrect == Spec => []LooksInTime
<1>1. IInv => LooksInTime
  BY DEF IInv, EngineInv, LookInv, LooksInTime, Driving
<1> QED
  BY <1>1, CommandCorrect, PTL

\* The reason a play reports is what happened.
THEOREM ReasonIsTrueCorrect == Spec => []ReasonIsTrue
<1>1. IInv => ReasonIsTrue
  <2> SUFFICES ASSUME IInv, at = "ended"
               PROVE  ReasonIsTrue
    BY DEF ReasonIsTrue
  <2> DEFINE cut == {i \in 1..Len(shots) : shots[i].interrupt}
  <2>1. \/ RanTo(stop)
        \/ stop = Late /\ frames <= total
        \/ ScreenStop(stop)
    BY DEF IInv, EngineInv, CourseInv
  <2>2. IF ScreenStop(stop) THEN OneCut(shots, looked \cap {CutFrame})
                            ELSE NoCut(shots)
    BY DEF IInv, EngineInv, ShotsInv
  <2>3. CASE ScreenStop(stop)
    <3>1. \E i \in cut : /\ cut = {i}
                         /\ shots[i].frame \in looked
                         /\ shots[i].frame = CutFrame
      BY <2>2, <2>3 DEF OneCut
    <3>2. stop.reason \notin {"completed", "max_frames", "call_timeout"}
      BY <2>3 DEF ScreenStop, ScreenReasons
    <3> QED BY <3>1, <3>2 DEF ReasonIsTrue
  <2>4. CASE ~ScreenStop(stop) /\ RanTo(stop)
    <3>1. cut = {}
      BY <2>2, <2>4 DEF NoCut
    <3>2. /\ frames \in Nat /\ total \in Nat
          /\ PlayOK(play) /\ total <= play.max
      BY DEF IInv, EngineInv, CourseInv
    <3>3. stop.reason = "max_frames" => frames = play.max
      BY <2>4, <3>2, LimitsAssumption DEF RanTo, PlayOK
    <3> QED BY <2>4, <3>1, <3>3 DEF ReasonIsTrue, RanTo, Ran
  <2>5. CASE ~ScreenStop(stop) /\ stop = Late /\ frames <= total
    <3>1. cut = {}
      BY <2>2, <2>5 DEF NoCut
    <3> QED BY <2>5, <3>1, Reasons DEF ReasonIsTrue
  <2> QED BY <2>1, <2>3, <2>4, <2>5
<1> QED
  BY <1>1, CommandCorrect, PTL

\* The default abort reports a wall only after the player stood still for long.
THEOREM BlockedMeansStillCorrect == Spec => []BlockedMeansStill
<1>1. IInv => BlockedMeansStill
  BY DEF IInv, EngineInv, CalmInv, BlockedMeansStill, Wall
<1> QED
  BY <1>1, CommandCorrect, PTL

\* Every image but the last one of a late play shows the frame it is filed
\* under.
THEOREM ShotsCurrentCorrect == Spec => []ShotsCurrent
<1>1. IInv => ShotsCurrent
  BY Reasons DEF IInv, EngineInv, ShotsInv, ShotsCurrent, Current
<1> QED
  BY <1>1, CommandCorrect, PTL

\* advance_text ends after a look only once the box has stayed away.
THEOREM StaysGoneCorrect == Spec => StaysGone
<1>1. ASSUME IInv, [Next]_vars, label = "looked", label' = "reply"
      PROVE  clear' >= GoneEvals /\ "textbox" \notin screen
  <2>1. AdvanceLooked
    <3>1. ~UNCHANGED vars /\ ~(Engine /\ UNCHANGED <<label, command, counts>>)
      BY <1>1 DEF vars
    <3>2. CASE Intent
      BY <1>1, <3>2 DEF Intent, AdvanceStart, AdvanceOpened, Advance,
         AdvanceMashed, FleeStart, Flee, FleeCleared, FleeBacked, FleePane,
         FleeChosen, FleeEnd, TurnStart, Turn, TurnActed, Settle, Settling,
         UntilOverworld, Skip, SkipPulsed, Door, DoorEntered, Returned
    <3>3. ~(Receive \/ RunPlay \/ LastPlay \/ Reply \/ Fail)
      BY <1>1 DEF Receive, RunPlay, LastPlay, Reply, Fail, Idle, Returned
    <3>4. \A r \in Calls : ~Call(r)
      BY <1>1 DEF Call
    <3> QED BY <1>1, <3>1, <3>2, <3>3, <3>4 DEF Next, Work
  <2>2. gone = clear /\ ~Shows({"textbox"}) /\ gone' = gone + 1
        /\ clear' = clear + 1 /\ gone' >= GoneEvals
    BY <1>1, <2>1 DEF AdvanceLooked, Goto, IInv, CountInv
  <2> QED
    BY <2>2 DEF Shows
<1> QED
  BY <1>1, CommandCorrect, PTL DEF Spec, StaysGone

-----------------------------------------------------------------------------
(* The plays of an intent                                                  *)

\* A payload of the engine has every key.
PayloadKeys == DOMAIN Empty

\* What the payloads of intents.py have in common asks for nothing by itself.
LEMMA BaseKeys ==
  /\ DOMAIN Base = PayloadKeys
  /\ Base.macro = Absent /\ Base.buttons = Absent /\ Base.steps = Absent
  /\ Base.wait = FALSE /\ Base.hold = Absent /\ Base.gap = Absent
  /\ Base.max = Absent /\ Base.press = Absent /\ Base.release = Absent
  /\ Base.until = Absent /\ Base.interval = Absent
  /\ Base.timeout = Absent /\ Base.intent = Absent
  /\ {"macro", "buttons", "steps", "wait", "hold", "gap", "max", "press", "release",
      "until", "interval", "timeout", "intent", "mode", "disable"} \subseteq PayloadKeys
BY DEF Base, Empty, PayloadKeys

\* The most frames a play can take: a mash may be followed by its gap.
Worst(p) == IF p.macro = "mash" THEN p.max + MostGap ELSE p.max

\* A run of an acceptable payload.
LEMMA RunStarts ==
  ASSUME NEW p, NEW next, Acceptable(p), Run(p, next)
  PROVE  /\ label' = next /\ at' = "loop" /\ screen' = screen
         /\ play'.max = Budget(p) /\ play'.macro = Parse(p).macro
<1>1. label' = next /\ Start(Parse(p))
  BY DEF Run
<1>2. PlayOK(Parse(p)) /\ Parse(p).max = Budget(p)
  BY ParsedPlayOK, ParseKeys
<1>3. Parse(p) = [k \in Keys |-> Parse(p)[k]]
  BY <1>2 DEF PlayOK
<1>4. play'.max = Parse(p).max /\ play'.macro = Parse(p).macro
  BY <1>1, <1>3 DEF Start, Keys
<1> QED
  BY <1>1, <1>2, <1>4 DEF Start

\* Equal presses add up to a multiple.
LEMMA PlannedEqual ==
  ASSUME NEW q, NEW n \in 1..3, DOMAIN q = 1..n, NEW h \in Nat, NEW g \in Nat,
         \A i \in 1..n : q[i].hold = h /\ q[i].gap = g
  PROVE  Planned(q) = n * (h + g)
<1> DEFINE P == [i \in 0..n |-> i * (h + g)]
           w == [i \in 1..n |-> q[i].hold + q[i].gap]
<1>1. \A i \in 0..3 : i * (h + g) \in Nat
  OBVIOUS
<1>2. P \in [0..n -> Nat] /\ P[0] = 0
  BY <1>1
<1>3. ASSUME NEW i \in 1..n
      PROVE  P[i] = P[i - 1] + w[i]
  <2>1. i \in {1, 2, 3} /\ i - 1 \in 0..n /\ i \in 0..n
    OBVIOUS
  <2>2. P[i] = i * (h + g) /\ P[i - 1] = (i - 1) * (h + g) /\ w[i] = h + g
    BY <2>1
  <2>3. i * (h + g) = (i - 1) * (h + g) + (h + g)
    BY <2>1
  <2> QED
    BY <2>2, <2>3
<1>4. Sums(P, w, n)
  BY <1>2, <1>3 DEF Sums
<1>5. Planned(q) = P[n]
  <2> HIDE DEF P
  <2>1. \A i \in 1..n : q[i].hold \in Nat /\ q[i].gap \in Nat
    OBVIOUS
  <2>2. Sums(P, [i \in 1..n |-> q[i].hold + q[i].gap], n) /\ n \in Nat
    BY <1>4
  <2> QED
    BY <2>1, <2>2, PlannedSum
<1> QED
  BY <1>5

\* A wait takes the frames it is given.
LEMMA RunWait ==
  ASSUME NEW n \in 1..MaxFrames, NEW u, Until_OK(u), NEW next, Run(Wait(n, u), next)
  PROVE  /\ label' = next /\ at' = "loop" /\ screen' = screen
         /\ Worst(play') = n
<1> DEFINE p == Wait(n, u)
<1>1. /\ p.wait = TRUE /\ p.hold = n /\ p.max = n /\ p.until = u
      /\ p.macro = Absent /\ p.buttons = Absent /\ p.steps = Absent
      /\ p.gap = Absent /\ p.press = Absent /\ p.release = Absent
      /\ p.interval = Absent /\ p.timeout = Absent /\ p.intent = Absent
  BY BaseKeys DEF Wait
<1> HIDE DEF p
<1>2. n \in Nat /\ n # Absent /\ n \in 1..MaxHold
  BY AbsentAssumption, LimitsAssumption
<1>3. Form(p) = "wait" /\ Chord(p) = {} /\ Hold(p) = n /\ Gap(p) = 0 /\ Budget(p) = n
  BY <1>1, <1>2, TapsAssumption DEF Form, Chord, Hold, Gap, Budget, Default
<1>4. Length(p) = n
  <2> DEFINE q == Script(p)
  <2>1. q = <<[buttons |-> {}, hold |-> n, gap |-> 0]>>
    BY <1>3 DEF Script
  <2>2. DOMAIN q = 1..1 /\ \A i \in 1..1 : q[i].hold = n /\ q[i].gap = 0
    BY <2>1
  <2>3. Planned(q) = 1 * (n + 0)
    <3> HIDE DEF q
    <3> QED
      BY <1>2, <2>2, PlannedEqual
  <2> QED
    BY <1>2, <1>3, <2>3 DEF Length
<1>5. Acceptable(p)
  BY <1>1, <1>2, <1>3, <1>4 DEF Acceptable, Within
<1>6. Parse(p).macro = "steps"
  BY <1>3, ParseKeys
<1> QED
  BY <1>3, <1>5, <1>6, RunStarts DEF p, Worst

\* A mash takes the frames it is given, raised to the least, and its gap.
LEMMA RunMash ==
  ASSUME NEW n \in Int, NEW u, Until_OK(u), NEW next, Run(Mash(n, u), next)
  PROVE  /\ label' = next /\ at' = "loop" /\ screen' = screen
         /\ Worst(play') \in Nat /\ MashCost(n) \in Nat
         /\ Worst(play') <= MashCost(n)
<1> DEFINE p == Mash(n, u)
           most == Most(MashLeast, Least(n, MaxFrames))
<1>1. /\ p.macro = "mash" /\ p.press = MashPress /\ p.release = MashRelease
      /\ p.max = most /\ p.until = u
      /\ p.steps = Absent /\ p.hold = Absent /\ p.gap = Absent
      /\ p.interval = Absent /\ p.timeout = Absent /\ p.intent = Absent
  BY BaseKeys DEF Mash
<1> HIDE DEF p
<1>2. most \in 1..MaxFrames
  BY CommandAssumption, LimitsAssumption DEF Most, Least
<1> HIDE DEF most
<1>3. most # Absent
  BY <1>2, AbsentAssumption
<1>4. Form(p) = "mash" /\ Budget(p) = most /\ Length(p) = most
  BY <1>1, <1>3 DEF Form, Budget, Length, Default
<1>5. Acceptable(p)
  BY <1>1, <1>2, <1>4, LimitsAssumption DEF Acceptable, Within
<1> QED
  <2>1. play'.max = most /\ label' = next /\ at' = "loop" /\ screen' = screen
    BY <1>4, <1>5, RunStarts DEF p
  <2>2. most \in Nat /\ MostGap \in Nat
    BY <1>2, EngineAssumption
  <2>3. Worst(play') \in {most, most + MostGap}
    BY <2>1 DEF Worst
  <2>4. MashCost(n) = most + MostGap
    BY DEF MashCost, most
  <2> QED
    BY <2>1, <2>2, <2>3, <2>4

\* Presses one after the other take what each takes, gap included.
LEMMA RunPresses ==
  ASSUME NEW names, NEW n \in 1..3, Len(names) = n,
         \A i \in 1..n : names[i] \in Buttons,
         NEW hold \in 1..MaxHold, NEW gap \in 0..MaxGap,
         Taps(names, hold, gap) # Absent, n * (hold + gap) <= MaxFrames,
         NEW next, Run(Presses(names, hold, gap), next)
  PROVE  /\ label' = next /\ at' = "loop" /\ screen' = screen
         /\ Worst(play') = n * (hold + gap)
<1> DEFINE p == Presses(names, hold, gap)
           most == n * (hold + gap)
<1>1. /\ p.steps = Taps(names, hold, gap)
      /\ p.max = Absent /\ p.until = Absent
      /\ p.macro = Absent /\ p.buttons = Absent
      /\ p.gap = Absent /\ p.press = Absent /\ p.release = Absent /\ p.hold = Absent
      /\ p.interval = Absent /\ p.timeout = Absent /\ p.intent = Absent
  BY BaseKeys DEF Presses
<1> HIDE DEF p
<1>2. /\ hold \in Nat /\ gap \in Nat /\ hold # Absent /\ gap # Absent
      /\ most \in 1..MaxFrames
  <2>1. hold \in Nat /\ hold >= 1 /\ gap \in Nat /\ MaxFrames \in Nat
    BY LimitsAssumption
  <2>2. n = 1 \/ n = 2 \/ n = 3
    OBVIOUS
  <2>3. most \in Nat /\ most >= 1
    <3>1. most = hold + gap \/ most = 2 * (hold + gap) \/ most = 3 * (hold + gap)
      BY <2>2
    <3> HIDE DEF most
    <3> QED
      BY <2>1, <3>1
  <2> QED
    BY <2>1, <2>3, AbsentAssumption
<1>3. Form(p) = "script" /\ Chord(p) = {}
  BY <1>1 DEF Form, Chord, Default
<1>4. /\ Len(p.steps) = n
      /\ \A i \in 1..n : /\ p.steps[i].buttons = {names[i]} /\ p.steps[i].hold = hold
                         /\ p.steps[i].gap = gap
  BY <1>1 DEF Taps
<1>5. Planned(Script(p)) = most
  <2> DEFINE q == Script(p)
  <2>1. q = [i \in 1..n |-> Step(p.steps[i], Gap(p))]
    BY <1>3, <1>4 DEF Script
  <2>2. DOMAIN q = 1..n /\ \A i \in 1..n : q[i].hold = hold /\ q[i].gap = gap
    BY <1>2, <1>4, <2>1 DEF Step, Default
  <2> HIDE DEF q
  <2> QED
    BY <1>2, <2>2, PlannedEqual DEF q
<1> HIDE DEF most
<1>6. Length(p) = most /\ Budget(p) = most
  BY <1>1, <1>3, <1>5 DEF Length, Budget, Default
<1>7. \A i \in 1..n : StepOK(p.steps[i])
  BY <1>2, <1>4, TapsAssumption DEF StepOK, Within
<1>8. Acceptable(p)
  <2>1. Len(p.steps) \in 1..MaxSteps
    <3>1. n <= MaxSteps
      BY CommandAssumption, LimitsAssumption
    <3> QED
      BY <1>4, <3>1, LimitsAssumption
  <2> QED
    BY <1>1, <1>2, <1>3, <1>4, <1>6, <1>7, <2>1, TapsAssumption DEF Acceptable, Within, Until_OK
<1>9. Parse(p).macro = "steps"
  BY <1>3, ParseKeys
<1> QED
  BY <1>6, <1>8, <1>9, RunStarts DEF p, most, Worst

\* A hold takes the frames it is given.
LEMMA RunDoor ==
  ASSUME NEW n \in 1..MaxFrames, NEW d \in Directions, NEW u, Until_OK(u), NEW next,
         Run([Base EXCEPT !.macro = "hold", !.buttons = {d}, !.hold = n, !.max = n,
                !.until = u], next)
  PROVE  /\ label' = next /\ at' = "loop" /\ screen' = screen
         /\ Worst(play') = n
<1> DEFINE p == [Base EXCEPT !.macro = "hold", !.buttons = {d}, !.hold = n, !.max = n,
                   !.until = u]
<1>1. /\ p.macro = "hold" /\ p.hold = n /\ p.max = n /\ p.until = u
      /\ p.steps = Absent
      /\ p.gap = Absent /\ p.press = Absent /\ p.release = Absent
      /\ p.interval = Absent /\ p.timeout = Absent /\ p.intent = Absent
  BY BaseKeys
<1>2. Run(p, next)
  OBVIOUS
<1> HIDE DEF p
<1>3. n \in Nat /\ n # Absent /\ n \in 1..MaxHold
  BY AbsentAssumption, LimitsAssumption
<1>4. Form(p) = "hold" /\ Budget(p) = n /\ Length(p) = n
  BY <1>1, <1>3 DEF Form, Budget, Length, Default
<1>5. Acceptable(p)
  BY <1>1, <1>3, <1>4 DEF Acceptable, Within
<1>6. Parse(p).macro = "hold"
  BY <1>4, ParseKeys
<1> QED
  BY <1>2, <1>4, <1>5, <1>6, RunStarts DEF Worst

-----------------------------------------------------------------------------
(* What a call costs                                                       *)

\* Only a mash is ticked beyond its end.
PlainInv == at # "idle" /\ play.macro # "mash" => frames <= total

\* No step of the engine ticks beyond the end but the gap of a mash.
LEMMA PlainStep ==
  ASSUME CourseInv, PlainInv, Move, label = "play" => PlayOK(guest)
  PROVE  PlainInv'
<1> USE DEF PlainInv, CourseInv, Driving, Over
<1>1. CASE UNCHANGED engine
  BY <1>1 DEF engine, script, clock
<1>2. CASE Forget
  BY <1>2 DEF Forget
<1>3. ASSUME NEW p, PlayOK(p), Start(p)
      PROVE  PlainInv'
  <2>1. total' \in 0..play'.max /\ frames' = 0 /\ PlayOK(play')
    BY <1>3, StartFacts
  <2>2. total' >= 0
    BY <2>1, LimitsAssumption DEF PlayOK
  <2> QED
    BY <2>1, <2>2
<1>4. ASSUME NEW s \in Screens, NEW end \in (frames + 1)..total,
             Chunk(end, s) \/ Interrupt(end, s)
      PROVE  PlainInv'
  <2>1. at = "loop" /\ frames' = end /\ total' = total
    BY <1>4 DEF Chunk, Interrupt, Drive, script
  <2> QED
    BY <2>1
<1>5. ASSUME NEW s \in Screens, MashGap(s) \/ WrapUp(s)
      PROVE  PlainInv'
  BY <1>5 DEF MashGap, WrapUp, script
<1>6. CASE NextPhase \/ Timeout \/ Finished \/ Stopped
  BY <1>6 DEF NextPhase, Timeout, Finished, Stopped, script, clock
<1> QED
  BY <1>1, <1>2, <1>3, <1>4, <1>5, <1>6, MoveKinds DEF Engine

\* A play never takes more than its worst.
LEMMA FramesBounded ==
  ASSUME CourseInv, PlainInv, at # "idle"
  PROVE  frames <= Worst(play)
<1>1. play.max \in Nat /\ frames \in Nat /\ total \in Nat /\ MostGap \in Nat
  BY LimitsAssumption, EngineAssumption DEF CourseInv, PlayOK
<1> QED
  BY <1>1 DEF CourseInv, PlainInv, Worst

Fleeing == {"flee", "cleared", "backed", "pane", "chosen", "fled"}

\* The labels of an intent are its own.
OfIntent ==
  /\ label \in Intents => guest.intent = label
  /\ label \in {"opened", "advance", "mashed", "looked"} =>
       guest.intent = "advance_text"
  /\ label \in Fleeing => guest.intent = "run_away"
  /\ label \in {"turn", "acted", "settle", "settling"} =>
       guest.intent = "battle_turn"
  /\ label = "pulsed" => guest.intent = "skip_intro"
  /\ label = "entered" => guest.intent = "enter_door"
  /\ label = "play" => guest.intent = Absent

\* The frames of one attempt to flee before the play of a label.
FleeMash == MashCost(Least(TextMash, guest.max))
Ahead ==
  CASE label \in {"flee", "cleared"} -> 0
    [] label = "backed" -> FleeMash
    [] label = "pane" -> FleeMash + PressCost(1)
    [] label = "chosen" -> FleeMash + PressCost(1) + FleeWait
    [] label = "fled" -> FleeMash + PressCost(4) + FleeWait

\* ... and that play itself.
FleePlay ==
  CASE label = "cleared" -> FleeMash
    [] label = "backed" -> PressCost(1)
    [] label = "pane" -> FleeWait
    [] label = "chosen" -> PressCost(3)
    [] label = "fled" -> FleeSettle

FleeInv ==
  label \in Fleeing =>
    /\ round \in 1..2
    /\ spent <= Ahead + IF round = 1 THEN 0
                        ELSE FleeMash + PressCost(4) + FleeWait + FleeSettle
    /\ label # "flee" => Worst(play) <= FleePlay

DoorHold == Most(DoorLeast, Least(guest.max, DoorMost))

\* No play is refused, and what is spent leaves room for the one that runs.
SpentInv ==
  /\ label # "refused"
  /\ OfIntent
  /\ label \in {"idle", "sent", "play", "opened", "entered"}
                 \cup (Intents \ {"skip_intro"}) =>
       spent = 0 /\ used = 0 /\ round = 1
  /\ label \notin {"idle", "sent"} => spent <= CostOf(guest)
  /\ label \in Running => spent + Worst(play) <= CostOf(guest)
  /\ label \in {"advance", "mashed", "looked"} => spent <= used
  /\ label \in {"turn", "acted", "settle", "settling", "skip_intro", "pulsed"} =>
       spent = used
  /\ label = "entered" => Worst(play) <= DoorHold
  /\ FleeInv

\* What the steps of an intent start from.
Sound == CourseInv /\ PlainInv /\ LabelInv /\ CallInv /\ CountInv /\ SpentInv

\* The numbers that a step of an intent adds up.
LEMMA Numbers ==
  ASSUME Sound, label \notin {"idle", "sent"}
  PROVE  /\ guest.max \in 1..MaxFrames /\ guest.intent \in Intents \cup {Absent}
         /\ used \in Nat /\ spent \in Nat /\ waited \in Nat /\ round \in Nat
         /\ frames \in Nat /\ MaxFrames \in Nat /\ MostGap \in Nat
         /\ Cap = guest.max
         /\ at # "idle" => frames <= Worst(play)
<1>1. PlayOK(guest) /\ guest.intent \in Intents \cup {Absent}
  BY Received DEF Sound, CallInv
<1>2. guest.max \in 1..MaxFrames
  BY <1>1 DEF PlayOK
<1>3. Cap = guest.max
  BY <1>2, LimitsAssumption DEF Cap, Least
<1> QED
  BY <1>1, <1>2, <1>3, FramesBounded, LimitsAssumption, EngineAssumption
     DEF Sound, CourseInv, CountInv

\* The constants of the intents, as numbers.
LEMMA Constants ==
  /\ {MashLeast, AdvanceWait, EvalSlice, TextMash, FleeWait, FleeSettle,
      DoorLeast, DoorMost, BriefWait, TurnWait} \subseteq 1..MaxFrames
  /\ {TurnCap, SkipCap} \subseteq Nat \ {0}
  /\ PressHold \in Nat /\ PressGap \in Nat /\ PulseHold \in Nat
  /\ MaxFrames \in Nat /\ MostGap \in Nat
BY CommandAssumption, LimitsAssumption, EngineAssumption

\* The conditions the intents wait for are conditions the parser takes.
LEMMA Conditions ==
  /\ \A name \in Classifiers : Until_OK(Appears(name)) /\ Until_OK(Disappears(name))
  /\ Until_OK(Overworld) /\ Until_OK(Absent)
  /\ Until_OK(Until("luma_jump", Absent, "appears", DefaultStable))
BY LimitsAssumption, CommandAssumption
   DEF Until_OK, Appears, Disappears, Overworld, Until

\* A call may always take a frame or none.
LEMMA CostType ==
  ASSUME NEW p, p.max \in 1..MaxFrames, p.intent \in Intents \cup {Absent}
  PROVE  CostOf(p) \in Nat
BY Constants, EngineAssumption DEF CostOf, Most, Least, MashCost, PressCost, Intents

\* After a play the call has spent what it took.
LEMMA ReturnedFrames ==
  ASSUME Sound, NEW here \in Running, Returned(here)
  PROVE  /\ label = here /\ spent' = spent + frames /\ frames <= Worst(play)
         /\ spent' \in Nat /\ spent' <= CostOf(guest)
         /\ label \notin {"idle", "sent"}
<1>1. label = here /\ at = "ended" /\ spent' = spent + frames
  BY DEF Returned
<1>2. label \notin {"idle", "sent"}
  BY <1>1 DEF Running
<1>3. /\ frames \in Nat /\ spent \in Nat /\ frames <= Worst(play)
      /\ guest.max \in 1..MaxFrames /\ guest.intent \in Intents \cup {Absent}
  BY <1>1, <1>2, Numbers
<1>4. spent + Worst(play) <= CostOf(guest) /\ CostOf(guest) \in Nat
  BY <1>1, <1>3, CostType DEF Sound, SpentInv
<1>5. Worst(play) \in Int
  BY <1>1, LimitsAssumption, EngineAssumption DEF Sound, CourseInv, PlayOK, Worst
<1> QED
  BY <1>1, <1>2, <1>3, <1>4, <1>5

\* To the reply with what was spent.
LEMMA Replying ==
  ASSUME Sound, label' = "reply", spent' <= CostOf(guest), guest' = guest
  PROVE  SpentInv'
BY DEF SpentInv, OfIntent, FleeInv, Fleeing, Running, Intents

\* advance_text: the loop counts what it spends, so the last play may overrun
\* the budget by the least of a mash.
LEMMA AdvanceSpent ==
  ASSUME Sound,
         \/ AdvanceStart \/ AdvanceOpened \/ Advance \/ AdvanceMashed
         \/ AdvanceLooked
  PROVE  SpentInv'
<1> DEFINE most == Most(AdvanceWait, Least(MaxFrames, guest.max) - 1 + MashLeast + MostGap)
<1>1. /\ label \in {"advance_text", "opened", "advance", "mashed", "looked"}
      /\ UNCHANGED command
  BY DEF AdvanceStart, AdvanceOpened, Advance, AdvanceMashed, AdvanceLooked,
     Returned
<1>2. /\ guest' = guest /\ guest.intent = "advance_text"
      /\ used \in Nat /\ spent \in Nat /\ guest.max \in 1..MaxFrames
      /\ frames \in Nat /\ Cap = guest.max
  BY <1>1, Numbers DEF command, Sound, SpentInv, OfIntent, Intents
<1>3. CostOf(guest) = most /\ most \in Nat
  <2>1. CostOf(guest) = most
    BY <1>2 DEF CostOf
  <2>2. CostOf(guest) \in Nat
    BY <1>2, CostType DEF Intents
  <2> QED
    BY <2>1, <2>2
<1>4. most >= AdvanceWait /\ most >= Cap - 1 + MashLeast + MostGap
  BY <1>2, Constants DEF Most, Cap
<1>5. spent <= most
  BY <1>1, <1>2, <1>3 DEF Sound, SpentInv
<1> HIDE DEF most
<1>6. ASSUME label' \in {"advance", "mashed", "looked"}, spent' <= used',
             spent' \in Nat, spent' <= most,
             label' # "advance" => spent' + Worst(play') <= most
      PROVE  SpentInv'
  BY <1>2, <1>3, <1>6
     DEF SpentInv, OfIntent, FleeInv, Fleeing, Running, Intents
<1>7. CASE AdvanceStart
  <2>1. spent = 0 /\ used = 0 /\ spent' = 0 /\ used' = 0 /\ round' = 1
    BY <1>7 DEF AdvanceStart, Sound, SpentInv, Intents, counts
  <2>2. CASE label' = "advance"
    BY <1>3, <1>6, <2>1, <2>2
  <2>3. CASE Run(Wait(AdvanceWait, Appears("textbox")), "opened")
    <3>1. label' = "opened" /\ Worst(play') = AdvanceWait
      BY <2>3, RunWait, Constants, Conditions DEF Classifiers
    <3> QED
      BY <1>2, <1>3, <1>4, <2>1, <3>1, Constants
         DEF SpentInv, OfIntent, FleeInv, Fleeing, Running, Intents
  <2> QED
    BY <1>7, <2>2, <2>3 DEF AdvanceStart
<1>8. CASE AdvanceOpened
  <2>1. /\ spent' = spent + frames /\ spent' \in Nat /\ spent' <= most
        /\ spent = 0 /\ used' = frames
    BY <1>3, <1>8, ReturnedFrames
       DEF AdvanceOpened, Running, Returned, Sound, SpentInv
  <2>2. label' \in {"advance", "reply"}
    BY <1>8, GotoLabel DEF AdvanceOpened
  <2> QED
    BY <1>2, <1>3, <1>6, <2>1, <2>2, Replying
<1>9. CASE Advance
  <2>1. spent' = spent /\ used' = used /\ spent <= used
    BY <1>9 DEF Advance, Sound, SpentInv
  <2>2. CASE used >= Cap
    <3>1. label' = "reply"
      BY <1>9, <2>2 DEF Advance
    <3> QED
      BY <1>2, <1>3, <1>5, <2>1, <3>1, Replying
  <2>3. CASE used < Cap /\ Run(Mash(Cap - used, Disappears("textbox")), "mashed")
    <3>1. /\ label' = "mashed" /\ Worst(play') <= MashCost(Cap - used)
          /\ Worst(play') \in Nat /\ MashCost(Cap - used) \in Nat
      BY <1>2, <2>3, RunMash, Constants, Conditions DEF Classifiers
    <3>2. MashCost(Cap - used) + used <= Cap - 1 + MashLeast + MostGap
      BY <1>2, <2>3, Constants DEF MashCost, Most, Least
    <3> QED
      BY <1>2, <1>3, <1>4, <1>5, <1>6, <2>1, <3>1, <3>2, Constants
  <2>4. CASE used < Cap /\ Run(Wait(Least(EvalSlice, Cap - used), Absent), "looked")
    <3>1. /\ Least(EvalSlice, Cap - used) \in 1..MaxFrames
          /\ Least(EvalSlice, Cap - used) <= Cap - used
      BY <1>2, <2>4, Constants DEF Least
    <3>2. label' = "looked" /\ Worst(play') = Least(EvalSlice, Cap - used)
      BY <2>4, <3>1, RunWait, Conditions
    <3> QED
      BY <1>2, <1>3, <1>4, <1>5, <1>6, <2>1, <3>1, <3>2, Constants
  <2> QED
    BY <1>2, <1>9, <2>2, <2>3, <2>4 DEF Advance
<1>10. CASE AdvanceMashed
  <2>1. /\ spent' = spent + frames /\ spent' \in Nat /\ spent' <= most
        /\ spent <= used /\ used' = used + frames
    BY <1>3, <1>10, ReturnedFrames
       DEF AdvanceMashed, Running, Returned, Sound, SpentInv
  <2>2. label' \in {"advance", "reply"}
    BY <1>10, GotoLabel DEF AdvanceMashed
  <2> QED
    BY <1>2, <1>3, <1>6, <2>1, <2>2, Replying
<1>11. CASE AdvanceLooked
  <2>1. /\ spent' = spent + frames /\ spent' \in Nat /\ spent' <= most
        /\ spent <= used /\ used' = used + Most(frames, 1)
    BY <1>3, <1>11, ReturnedFrames
       DEF AdvanceLooked, Running, Returned, Sound, SpentInv
  <2>2. label' \in {"advance", "reply"}
    BY <1>11, GotoLabel DEF AdvanceLooked
  <2>3. spent' <= used'
    BY <1>2, <2>1 DEF Most
  <2> QED
    BY <1>2, <1>3, <1>6, <2>1, <2>2, <2>3, Replying
<1> QED
  BY <1>7, <1>8, <1>9, <1>10, <1>11

\* What one tap costs.
LEMMA TapCost ==
  /\ PressCost(1) = PressHold + PressGap
  /\ PressCost(3) = 3 * (PressHold + PressGap)
  /\ PressCost(4) = 4 * (PressHold + PressGap)
BY Constants DEF PressCost

\* A tap of A or B.
LEMMA RunTap ==
  ASSUME NEW b \in {"a", "b"}, NEW next,
         Run(Presses(<<b>>, PressHold, PressGap), next)
  PROVE  label' = next /\ screen' = screen /\ Worst(play') = PressCost(1)
<1>1. Len(<<b>>) = 1 /\ \A i \in 1..1 : <<b>>[i] \in Buttons
  BY DEF Buttons, AB
<1>2. Taps(<<b>>, PressHold, PressGap) # Absent
  BY TapsAssumption DEF Paths
<1>3. 1 * (PressHold + PressGap) <= MaxFrames
  BY Constants, CommandAssumption
<1> QED
  BY <1>1, <1>2, <1>3, RunPresses, CommandAssumption DEF PressCost

\* A way of the cursor to the last cell.
LEMMA RunPath ==
  ASSUME NEW path \in Paths, NEW next, Run(Presses(path, PressHold, PressGap), next)
  PROVE  /\ label' = next /\ screen' = screen /\ Worst(play') \in Nat
         /\ Worst(play') <= PressCost(3)
<1>1. PICK n \in 1..3 : Len(path) = n /\ \A i \in 1..n : path[i] \in Buttons
  <2>1. CASE path = <<"a">>
    BY <2>1 DEF Buttons, AB
  <2>2. CASE path = <<"right", "a">>
    <3>1. Len(path) = 2 /\ \A i \in 1..2 : path[i] \in Buttons
      BY <2>2 DEF Buttons, AB, Directions
    <3> QED
      BY <3>1
  <2>3. CASE path = <<"down", "a">>
    <3>1. Len(path) = 2 /\ \A i \in 1..2 : path[i] \in Buttons
      BY <2>3 DEF Buttons, AB, Directions
    <3> QED
      BY <3>1
  <2>4. CASE path = <<"down", "right", "a">>
    <3>1. Len(path) = 3 /\ \A i \in 1..3 : path[i] \in Buttons
      BY <2>4 DEF Buttons, AB, Directions
    <3> QED
      BY <3>1
  <2> QED
    BY <2>1, <2>2, <2>3, <2>4 DEF Paths
<1>2. Taps(path, PressHold, PressGap) # Absent
  BY TapsAssumption
<1> DEFINE c == PressHold + PressGap
<1>3. c \in Nat /\ 3 * c <= MaxFrames
  BY Constants, CommandAssumption
<1>4. n * c \in Nat /\ n * c <= 3 * c
  <2> HIDE DEF c
  <2>1. n = 1 \/ n = 2 \/ n = 3
    OBVIOUS
  <2> QED
    BY <1>3, <2>1
<1>5. Worst(play') = n * c /\ label' = next /\ screen' = screen
  <2>1. n * (PressHold + PressGap) <= MaxFrames
    BY <1>3, <1>4, Constants
  <2> QED
    BY <1>1, <1>2, <2>1, RunPresses, CommandAssumption
<1> QED
  BY <1>4, <1>5, TapCost

\* An intent that has nothing to do waits a little.
LEMMA RunBrief ==
  ASSUME NEW next, Run(Wait(BriefWait, Absent), next)
  PROVE  label' = next /\ Worst(play') = BriefWait
BY RunWait, Constants, Conditions

\* To the last play, with room for it.
LEMMA Finishing ==
  ASSUME Sound, label' = "last", guest' = guest, spent' <= CostOf(guest),
         spent' + Worst(play') <= CostOf(guest)
  PROVE  SpentInv'
BY DEF SpentInv, OfIntent, FleeInv, Fleeing, Running, Intents

\* run_away: two attempts of the same five plays.
LEMMA FleeSpent ==
  ASSUME Sound,
         \/ FleeStart \/ Flee \/ FleeCleared \/ FleeBacked \/ FleePane
         \/ FleeChosen \/ FleeEnd
  PROVE  SpentInv'
<1> DEFINE m == FleeMash
           c == PressHold + PressGap
           attempt == m + 4 * c + FleeWait + FleeSettle
           past(n) == IF n = 1 THEN 0 ELSE attempt
<1>1. /\ label \in {"run_away"} \cup Fleeing /\ UNCHANGED command
  BY DEF FleeStart, Flee, FleeCleared, FleeBacked, FleePane, FleeChosen, FleeEnd,
     Returned, Fleeing
<1>2. /\ guest' = guest /\ guest.intent = "run_away"
      /\ used \in Nat /\ spent \in Nat /\ guest.max \in 1..MaxFrames
      /\ frames \in Nat
  BY <1>1, Numbers DEF command, Sound, SpentInv, OfIntent, Intents, Fleeing
<1>3. m \in Nat /\ c \in Nat
  BY <1>2, Constants DEF FleeMash, MashCost, Most, Least
<1>4. CostOf(guest) = Most(BriefWait, 2 * attempt)
  BY <1>2, TapCost DEF CostOf, FleeMash
<1>5. /\ CostOf(guest) \in Nat /\ BriefWait <= CostOf(guest)
      /\ 2 * attempt <= CostOf(guest) /\ attempt \in Nat
  BY <1>3, <1>4, Constants DEF Most
<1>6. FleeMash' = m
  BY <1>2 DEF FleeMash
<1>7. label \in Fleeing =>
        /\ round \in 1..2 /\ spent <= Ahead + past(round)
        /\ label # "flee" => Worst(play) <= FleePlay
  BY TapCost DEF Sound, SpentInv, FleeInv
<1>8. ASSUME NEW k \in Nat, NEW l \in Nat, spent' \in Nat, Worst(play') \in Nat,
             round' \in 1..2, spent' <= k + past(round'), Worst(play') <= l,
             k + l <= attempt,
             \/ label' = "cleared" /\ k = 0 /\ l = m
             \/ label' = "backed" /\ k = m /\ l = c
             \/ label' = "pane" /\ k = m + c /\ l = FleeWait
             \/ label' = "chosen" /\ k = m + c + FleeWait /\ l = 3 * c
             \/ label' = "fled" /\ k = m + 4 * c + FleeWait /\ l = FleeSettle
      PROVE  SpentInv'
  <2>1. spent' + Worst(play') <= CostOf(guest)
    BY <1>5, <1>8
  <2>2. FleeInv'
    <3>1. Ahead' = k /\ FleePlay' = l
      BY <1>6, <1>8, TapCost DEF Ahead, FleePlay
    <3> QED
      BY <1>6, <1>8, <3>1, TapCost DEF FleeInv
  <2>3. label' \in Running /\ label' \in Fleeing
    BY <1>8 DEF Running, Fleeing
  <2> QED
    BY <1>2, <1>5, <1>8, <2>1, <2>2, <2>3
       DEF SpentInv, OfIntent, Fleeing, Running, Intents
<1>9. ASSUME label' = "flee", spent' \in Nat, round' \in 1..2, spent' <= past(round')
      PROVE  SpentInv'
  <2>1. FleeInv'
    <3>1. Ahead' = 0
      BY <1>9 DEF Ahead
    <3> QED
      BY <1>3, <1>6, <1>9, <3>1, TapCost, Constants DEF FleeInv
  <2>2. spent' <= CostOf(guest)
    BY <1>5, <1>9
  <2> QED
    BY <1>2, <1>9, <2>1, <2>2
       DEF SpentInv, OfIntent, Fleeing, Running, Intents
<1>10. ASSUME NEW here \in Fleeing, Returned(here)
       PROVE  /\ label = here /\ here \in Running /\ spent' = spent + frames
              /\ frames <= FleePlay /\ spent' \in Nat /\ spent' <= CostOf(guest)
              /\ round \in 1..2 /\ spent <= Ahead + past(round)
  <2>1. label = here /\ here # "flee"
    BY <1>10 DEF Returned, Sound, LabelInv, Running
  <2>2. here \in Running
    BY <1>10, <2>1 DEF Fleeing, Running
  <2>3. frames <= Worst(play) /\ spent' = spent + frames
        /\ spent' \in Nat /\ spent' <= CostOf(guest)
    BY <1>10, <2>2, ReturnedFrames
  <2>4. Worst(play) <= FleePlay
    BY <1>7, <1>10, <2>1
  <2>5. FleePlay \in Nat
    BY <1>3, <1>10, <2>1, TapCost, Constants DEF FleePlay, Fleeing
  <2>6. Worst(play) \in Nat
    BY <1>10, LimitsAssumption, EngineAssumption
       DEF Returned, Sound, CourseInv, PlayOK, Worst
  <2> QED
    BY <1>2, <1>7, <1>10, <2>1, <2>2, <2>3, <2>4, <2>5, <2>6
<1>11. CASE FleeStart
  <2>1. spent = 0 /\ round = 1 /\ spent' = 0 /\ round' = 1
    BY <1>11 DEF FleeStart, Sound, SpentInv, Intents, counts
  <2>2. CASE label' = "flee"
    BY <1>9, <2>1, <2>2
  <2>3. CASE Run(Wait(BriefWait, Absent), "last")
    <3>1. label' = "last" /\ Worst(play') = BriefWait
      BY <2>3, RunBrief
    <3> QED
      BY <1>2, <1>5, <2>1, <3>1, Constants, Finishing
  <2> QED
    BY <1>11, <2>2, <2>3 DEF FleeStart
<1>12. CASE Flee
  <2>1. /\ label = "flee" /\ spent' = spent /\ round' = round
        /\ Ahead = 0 /\ round \in 1..2
    BY <1>7, <1>12 DEF Flee, Fleeing, counts, Ahead
  <2>2. spent' \in Nat /\ spent' <= past(round')
    BY <1>2, <1>3, <1>7, <2>1, Constants DEF Fleeing
  <2>3. CASE Run(Mash(Least(TextMash, guest.max), Disappears("textbox")), "cleared")
    <3>1. Least(TextMash, guest.max) \in Int
      BY <1>2, Constants DEF Least
    <3>2. label' = "cleared" /\ Worst(play') <= m /\ Worst(play') \in Nat
      BY <2>3, <3>1, RunMash, Conditions DEF Classifiers, FleeMash
    <3> QED
      BY <1>3, <1>8, <2>1, <2>2, <3>2, Constants
  <2>4. CASE Run(Presses(<<"b">>, PressHold, PressGap), "backed")
    <3>1. label' = "backed" /\ Worst(play') = c
      BY <2>4, RunTap, TapCost
    <3> QED
      BY <1>3, <1>8, <2>1, <2>2, <3>1, Constants
  <2> QED
    BY <1>12, <2>3, <2>4 DEF Flee
<1>13. CASE FleeCleared
  <2>1. /\ spent' = spent + frames /\ frames <= m /\ spent' \in Nat
        /\ spent' <= CostOf(guest) /\ round' = round /\ round \in 1..2
        /\ spent <= 0 + past(round)
    BY <1>10, <1>13 DEF FleeCleared, Fleeing, FleePlay, Ahead, Returned
  <2>2. CASE Run(Presses(<<"b">>, PressHold, PressGap), "backed")
    <3>1. label' = "backed" /\ Worst(play') = c
      BY <2>2, RunTap, TapCost
    <3> QED
      BY <1>2, <1>3, <1>8, <2>1, <3>1, Constants
  <2>3. CASE Goto("reply")
    BY <1>2, <2>1, <2>3, GotoLabel, Replying
  <2> QED
    BY <1>13, <2>2, <2>3 DEF FleeCleared
<1>14. CASE FleeBacked
  <2>1. /\ spent' = spent + frames /\ frames <= c /\ spent' \in Nat
        /\ round' = round /\ round \in 1..2
        /\ spent <= m + past(round)
    BY <1>10, <1>14, TapCost DEF FleeBacked, Fleeing, FleePlay, Ahead, Returned
  <2>2. label' = "pane" /\ Worst(play') = FleeWait
    BY <1>14, RunWait, Constants, Conditions DEF FleeBacked, Classifiers
  <2>3. past(round') \in Nat /\ past(round) = past(round')
    BY <1>5, <2>1
  <2>4. spent' <= m + c + past(round') /\ m + c \in Nat
    <3> HIDE DEF m, c, past
    <3> QED
      BY <1>2, <1>3, <2>1, <2>3, Constants
  <2> QED
    BY <1>3, <1>8, <2>1, <2>2, <2>4, Constants
<1>15. CASE FleePane
  <2>1. /\ spent' = spent + frames /\ frames <= FleeWait /\ spent' \in Nat
        /\ round' = round /\ round \in 1..2
        /\ spent <= m + c + past(round)
    BY <1>10, <1>15, TapCost DEF FleePane, Fleeing, FleePlay, Ahead, Returned
  <2>2. CASE \E path \in Paths : Run(Presses(path, PressHold, PressGap), "chosen")
    <3>1. label' = "chosen" /\ Worst(play') <= 3 * c /\ Worst(play') \in Nat
      BY <2>2, RunPath, TapCost
    <3> QED
      BY <1>2, <1>3, <1>8, <2>1, <3>1, Constants
  <2>3. CASE Run(Wait(FleeSettle, Overworld), "fled")
    <3>1. label' = "fled" /\ Worst(play') = FleeSettle
      BY <2>3, RunWait, Constants, Conditions
    <3>2. spent' <= m + 4 * c + FleeWait + past(round')
      BY <1>2, <1>3, <2>1, Constants
    <3> QED
      BY <1>3, <1>8, <2>1, <3>1, <3>2, Constants
  <2> QED
    BY <1>15, <2>2, <2>3 DEF FleePane
<1>16. CASE FleeChosen
  <2>1. /\ spent' = spent + frames /\ frames <= 3 * c /\ spent' \in Nat
        /\ round' = round /\ round \in 1..2
        /\ spent <= m + c + FleeWait + past(round)
    BY <1>10, <1>16, TapCost DEF FleeChosen, Fleeing, FleePlay, Ahead, Returned
  <2>2. label' = "fled" /\ Worst(play') = FleeSettle
    BY <1>16, RunWait, Constants, Conditions DEF FleeChosen
  <2>3. spent' <= m + 4 * c + FleeWait + past(round')
    BY <1>2, <1>3, <2>1, Constants
  <2> QED
    BY <1>3, <1>8, <2>1, <2>2, <2>3, Constants
<1>17. CASE FleeEnd
  <2>1. /\ spent' = spent + frames /\ frames <= FleeSettle /\ spent' \in Nat
        /\ round' = round + 1 /\ round \in 1..2 /\ spent' <= CostOf(guest)
        /\ spent <= m + 4 * c + FleeWait + past(round)
    BY <1>10, <1>17, TapCost DEF FleeEnd, Fleeing, FleePlay, Ahead, Returned
  <2>2. CASE round < 2 /\ Goto("flee")
    <3>1. round = 1 /\ label' = "flee" /\ round' = 2
      BY <2>1, <2>2, GotoLabel
    <3>2. spent' <= past(round')
      BY <1>2, <1>3, <2>1, <3>1, Constants
    <3> QED
      BY <1>9, <2>1, <3>1, <3>2
  <2>3. CASE Goto("reply")
    BY <1>2, <2>1, <2>3, GotoLabel, Replying
  <2> QED
    BY <1>17, <2>2, <2>3 DEF FleeEnd
<1> QED
  BY <1>11, <1>12, <1>13, <1>14, <1>15, <1>16, <1>17

\* battle_turn: the rounds and the waits between them share one budget.
LEMMA TurnSpent ==
  ASSUME Sound, TurnStart \/ Turn \/ TurnActed \/ Settle \/ Settling
  PROVE  SpentInv'
<1> DEFINE most == TurnCap - 1 + Most(MashLeast + MostGap, PressCost(1))
           here == {"turn", "acted", "settle", "settling"}
<1>1. label \in {"battle_turn"} \cup here /\ UNCHANGED command
  BY DEF TurnStart, Turn, TurnActed, Settle, Settling, Returned
<1>2. /\ guest' = guest /\ guest.intent = "battle_turn"
      /\ used \in Nat /\ spent \in Nat /\ waited \in Nat /\ frames \in Nat
      /\ guest.max \in 1..MaxFrames
  BY <1>1, Numbers DEF command, Sound, SpentInv, OfIntent, Intents
<1>3. PressCost(1) \in Nat
  BY Constants, TapCost
<1>4. CostOf(guest) \in Nat
  BY <1>2, CostType DEF Intents
<1>5. /\ CostOf(guest) >= BriefWait /\ CostOf(guest) >= most /\ most \in Nat
      /\ most >= TurnCap - 1 + MashLeast + MostGap
      /\ most >= TurnCap - 1 + PressCost(1)
  <2>1. CostOf(guest) = Most(BriefWait, most)
    BY <1>2 DEF CostOf
  <2>2. /\ most \in Nat
        /\ most >= TurnCap - 1 + MashLeast + MostGap
        /\ most >= TurnCap - 1 + PressCost(1)
    BY <1>3, Constants DEF Most
  <2> HIDE DEF most
  <2> QED
    BY <2>1, <2>2, Constants DEF Most
<1> HIDE DEF most
<1>6. label \in here => spent = used
  BY DEF Sound, SpentInv
<1>7. ASSUME label' \in {"turn", "settle"}, spent' = used', spent' <= CostOf(guest)
      PROVE  SpentInv'
  BY <1>2, <1>7 DEF SpentInv, OfIntent, FleeInv, Fleeing, Running, Intents
<1>8. ASSUME label' \in {"acted", "settling"}, spent' = used', spent' <= CostOf(guest),
             spent' + Worst(play') <= CostOf(guest)
      PROVE  SpentInv'
  BY <1>2, <1>8 DEF SpentInv, OfIntent, FleeInv, Fleeing, Running, Intents
<1>9. CASE TurnStart
  <2>1. spent = 0 /\ used = 0 /\ spent' = 0 /\ used' = 0
    BY <1>9 DEF TurnStart, Sound, SpentInv, Intents, counts
  <2>2. CASE label' = "turn"
    BY <1>4, <1>7, <2>1, <2>2
  <2>3. CASE Run(Wait(BriefWait, Absent), "last")
    <3>1. label' = "last" /\ Worst(play') = BriefWait
      BY <2>3, RunBrief
    <3> QED
      BY <1>2, <1>4, <1>5, <2>1, <3>1, Constants, Finishing
  <2> QED
    BY <1>9, <2>2, <2>3 DEF TurnStart
<1>10. CASE Turn
  <2>1. label = "turn" /\ spent' = spent /\ used' = used /\ spent = used
        /\ spent <= CostOf(guest)
    BY <1>10 DEF Turn, counts, Sound, SpentInv
  <2>2. CASE label' = "reply"
    BY <1>2, <2>1, <2>2, Replying
  <2>3. CASE used < TurnCap
             /\ Run(Mash(Least(TextMash, TurnCap - used), Disappears("textbox")), "acted")
    <3>1. Least(TextMash, TurnCap - used) \in Int
      BY <1>2, Constants DEF Least
    <3>2. /\ label' = "acted" /\ Worst(play') \in Nat
          /\ Worst(play') <= MashCost(Least(TextMash, TurnCap - used))
          /\ MashCost(Least(TextMash, TurnCap - used)) \in Nat
      BY <2>3, <3>1, RunMash, Conditions DEF Classifiers
    <3>3. used + MashCost(Least(TextMash, TurnCap - used))
            <= TurnCap - 1 + MashLeast + MostGap
      BY <1>2, <2>3, Constants DEF MashCost, Most, Least
    <3> QED
      BY <1>2, <1>4, <1>5, <1>8, <2>1, <3>2, <3>3, Constants
  <2>4. CASE used < TurnCap /\ Run(Presses(<<"a">>, PressHold, PressGap), "acted")
    <3>1. label' = "acted" /\ Worst(play') = PressCost(1)
      BY <2>4, RunTap
    <3> QED
      BY <1>2, <1>3, <1>4, <1>5, <1>8, <2>1, <2>4, <3>1, Constants
  <2> QED
    BY <1>2, <1>10, <2>2, <2>3, <2>4, Constants DEF Turn
<1>11. CASE TurnActed
  <2>1. /\ spent' = spent + frames /\ spent' <= CostOf(guest)
        /\ spent = used /\ used' = used + frames
    BY <1>6, <1>11, ReturnedFrames DEF TurnActed, Running, Returned
  <2>2. label' = "settle"
    BY <1>11, GotoLabel DEF TurnActed
  <2> QED
    BY <1>7, <2>1, <2>2
<1>12. CASE Settle
  <2> DEFINE left == Least(TurnWait, TurnCap - used + waited) - waited
  <2>1. label = "settle" /\ spent' = spent /\ used' = used /\ spent = used
        /\ spent <= CostOf(guest)
    BY <1>12 DEF Settle, Sound, SpentInv
  <2>2. CASE TurnEnds
    BY <1>2, <1>7, <2>1, <2>2, GotoLabel, Replying DEF TurnEnds
  <2>3. CASE left > 0 /\ Run(Wait(Least(EvalSlice, left), Absent), "settling")
    <3>1. left \in Int /\ left <= TurnCap - used
      BY <1>2, Constants DEF Least
    <3>2. Least(EvalSlice, left) \in 1..MaxFrames /\ Least(EvalSlice, left) <= left
      <4> HIDE DEF left
      <4> QED
        BY <2>3, <3>1, Constants DEF Least
    <3> HIDE DEF left
    <3>3. label' = "settling" /\ Worst(play') = Least(EvalSlice, left)
      BY <2>3, <3>2, RunWait, Conditions
    <3>4. Least(EvalSlice, left) + used <= TurnCap
      BY <1>2, <3>1, <3>2, Constants
    <3> QED
      BY <1>2, <1>4, <1>5, <1>8, <2>1, <3>2, <3>3, <3>4, Constants
  <2>4. left \in Int
    BY <1>2, Constants DEF Least
  <2>5. TurnEnds \/ (~(left <= 0) /\ Run(Wait(Least(EvalSlice, left), Absent), "settling"))
    BY <1>12 DEF Settle
  <2> HIDE DEF left
  <2> QED
    BY <2>2, <2>3, <2>4, <2>5
<1>13. CASE Settling
  <2>1. /\ spent' = spent + frames /\ spent' <= CostOf(guest)
        /\ spent = used /\ used' = used + frames
    BY <1>6, <1>13, ReturnedFrames DEF Settling, Running, Returned
  <2>2. label' \in {"settle", "turn", "reply"}
    BY <1>13, GotoLabel DEF Settling, TurnEnds
  <2> QED
    BY <1>2, <1>7, <2>1, <2>2, Replying
<1> QED
  BY <1>9, <1>10, <1>11, <1>12, <1>13

\* One pulse of skip_intro.
LEMMA RunPulse ==
  ASSUME NEW next, Run(Presses(<<"start", "a">>, PulseHold, PulseHold), next)
  PROVE  label' = next /\ Worst(play') = 4 * PulseHold
<1>1. Len(<<"start", "a">>) = 2 /\ \A i \in 1..2 : <<"start", "a">>[i] \in Buttons
  <2>1. Len(<<"start", "a">>) = 2 /\ <<"start", "a">>[1] = "start"
        /\ <<"start", "a">>[2] = "a"
    OBVIOUS
  <2>2. "start" \in Buttons /\ "a" \in Buttons
    BY DEF Buttons, AB
  <2> QED
    BY <2>1, <2>2
<1>2. Taps(<<"start", "a">>, PulseHold, PulseHold) # Absent
  BY TapsAssumption
<1>3. /\ 2 * (PulseHold + PulseHold) <= MaxFrames /\ PulseHold \in 0..MaxGap
      /\ 2 * (PulseHold + PulseHold) = 4 * PulseHold
  BY Constants, CommandAssumption, LimitsAssumption
<1>4. PulseHold \in 1..MaxHold
  BY CommandAssumption
<1> QED
  BY <1>1, <1>2, <1>3, <1>4, RunPresses

\* The intents of one play, of two, and the pulses of skip_intro.
LEMMA OtherSpent ==
  ASSUME Sound, UntilOverworld \/ Skip \/ SkipPulsed \/ Door \/ DoorEntered
  PROVE  SpentInv'
<1>1. /\ label \in {"battle_until_overworld", "skip_intro", "pulsed", "enter_door",
                    "entered"}
      /\ UNCHANGED command
  BY DEF UntilOverworld, Skip, SkipPulsed, Door, DoorEntered, Returned
<1>2. /\ guest' = guest /\ guest.max \in 1..MaxFrames /\ Cap = guest.max
      /\ used \in Nat /\ spent \in Nat /\ frames \in Nat
      /\ CostOf(guest) \in Nat
  BY <1>1, Numbers, CostType DEF command
<1>3. CASE UntilOverworld
  <2>1. label = "battle_until_overworld" /\ spent = 0 /\ spent' = 0
    BY <1>3 DEF UntilOverworld, Sound, SpentInv, Intents, counts
  <2>2. guest.intent = "battle_until_overworld"
    BY <2>1 DEF Sound, SpentInv, OfIntent, Intents
  <2>3. MashCost(guest.max) \in Nat
    BY <1>2, Constants DEF MashCost, Most, Least
  <2>4. CostOf(guest) = Most(BriefWait, MashCost(guest.max))
    BY <2>2 DEF CostOf
  <2>5. CostOf(guest) >= BriefWait /\ CostOf(guest) >= MashCost(guest.max)
    BY <2>3, <2>4, Constants DEF Most
  <2>6. CASE Run(Mash(Cap, Overworld), "last")
    <3>1. label' = "last" /\ Worst(play') <= MashCost(guest.max) /\ Worst(play') \in Nat
      BY <1>2, <2>6, RunMash, Conditions, Constants
    <3> QED
      BY <1>2, <2>1, <2>3, <2>5, <3>1, Finishing
  <2>7. CASE Run(Wait(BriefWait, Absent), "last")
    <3>1. label' = "last" /\ Worst(play') = BriefWait
      BY <2>7, RunBrief
    <3> QED
      BY <1>2, <2>1, <2>5, <3>1, Constants, Finishing
  <2> QED
    BY <1>3, <2>6, <2>7 DEF UntilOverworld
<1>4. CASE Skip
  <2>1. label = "skip_intro" /\ spent = used /\ spent' = spent /\ used' = used
        /\ spent <= CostOf(guest) /\ guest.intent = "skip_intro"
    BY <1>4 DEF Skip, Sound, SpentInv, OfIntent, Intents, counts
  <2>2. CostOf(guest) = Most(BriefWait, Least(SkipCap, guest.max) - 1 + 4 * PulseHold)
    BY <2>1 DEF CostOf
  <2>3. /\ CostOf(guest) >= BriefWait
        /\ CostOf(guest) >= Least(SkipCap, guest.max) - 1 + 4 * PulseHold
        /\ Least(SkipCap, guest.max) \in Nat
    BY <1>2, <2>2, Constants DEF Most, Least
  <2>4. CASE used < Least(SkipCap, guest.max)
             /\ Run(Presses(<<"start", "a">>, PulseHold, PulseHold), "pulsed")
    <3>1. label' = "pulsed" /\ Worst(play') = 4 * PulseHold
      BY <2>4, RunPulse
    <3>2. spent' + Worst(play') <= CostOf(guest)
      BY <1>2, <2>1, <2>3, <2>4, <3>1, Constants
    <3> QED
      BY <1>2, <2>1, <3>1, <3>2
         DEF SpentInv, OfIntent, FleeInv, Fleeing, Running, Intents
  <2>5. CASE used = 0 /\ Run(Wait(BriefWait, Absent), "last")
    <3>1. label' = "last" /\ Worst(play') = BriefWait
      BY <2>5, RunBrief
    <3> QED
      BY <1>2, <2>1, <2>3, <2>5, <3>1, Constants, Finishing
  <2>6. CASE label' = "reply"
    BY <1>2, <2>1, <2>6, Replying
  <2> QED
    BY <1>4, <2>4, <2>5, <2>6 DEF Skip
<1>5. CASE SkipPulsed
  <2>1. /\ spent' = spent + frames /\ spent' <= CostOf(guest)
        /\ spent = used /\ used' = used + frames /\ guest.intent = "skip_intro"
    BY <1>5, ReturnedFrames
       DEF SkipPulsed, Running, Returned, Sound, SpentInv, OfIntent
  <2>2. label' \in {"skip_intro", "reply"}
    BY <1>5, GotoLabel DEF SkipPulsed
  <2>3. CASE label' = "skip_intro"
    BY <1>2, <2>1, <2>3 DEF SpentInv, OfIntent, FleeInv, Fleeing, Running, Intents
  <2> QED
    BY <1>2, <2>1, <2>2, <2>3, Replying
<1> DEFINE hold == Most(DoorLeast, Least(guest.max, DoorMost))
           wait == Most(DoorLeast, Least(guest.max, MaxFrames))
<1>6. /\ hold \in 1..MaxFrames /\ wait \in 1..MaxFrames
      /\ wait = Most(DoorLeast, guest.max)
  BY <1>2, Constants DEF Most, Least
<1>7. guest.intent = "enter_door" => CostOf(guest) = hold + wait
  BY <1>6 DEF CostOf
<1>8. DoorHold = hold /\ DoorHold' = hold
  BY <1>2 DEF DoorHold
<1> HIDE DEF hold, wait
<1>9. CASE Door
  <2>1. /\ label = "enter_door" /\ spent = 0 /\ used = 0 /\ round = 1
        /\ spent' = 0 /\ used' = 0 /\ round' = 1 /\ guest.intent = "enter_door"
    BY <1>9 DEF Door, Sound, SpentInv, OfIntent, Intents, counts
  <2>2. PICK d \in Directions :
          Run([Base EXCEPT !.macro = "hold", !.buttons = {d}, !.hold = hold,
                 !.max = hold, !.until = Until("luma_jump", Absent, "appears", DefaultStable)],
              "entered")
    BY <1>9 DEF Door, Directions, hold
  <2>3. label' = "entered" /\ Worst(play') = hold
    BY <1>6, <2>2, RunDoor, Conditions
  <2>4. spent' + Worst(play') <= CostOf(guest) /\ spent' <= CostOf(guest)
    BY <1>2, <1>6, <1>7, <2>1, <2>3, Constants
  <2>5. Worst(play') <= hold
    BY <1>6, <2>3
  <2> QED
    BY <1>2, <1>8, <2>1, <2>3, <2>4, <2>5
       DEF SpentInv, OfIntent, FleeInv, Fleeing, Running, Intents
<1>10. CASE DoorEntered
  <2>1. /\ spent' = frames /\ frames <= Worst(play) /\ spent' <= CostOf(guest)
        /\ Worst(play) <= hold /\ guest.intent = "enter_door"
    BY <1>2, <1>8, <1>10, ReturnedFrames
       DEF DoorEntered, Running, Returned, Sound, SpentInv, OfIntent
  <2>2. label' = "last" /\ Worst(play') = wait
    BY <1>6, <1>10, RunWait, Conditions DEF DoorEntered, wait
  <2>3. Worst(play) \in Int
    BY <1>10, LimitsAssumption, EngineAssumption
       DEF DoorEntered, Returned, Sound, CourseInv, PlayOK, Worst
  <2>4. spent' + Worst(play') <= CostOf(guest)
    BY <1>2, <1>6, <1>7, <2>1, <2>2, <2>3, Constants
  <2> QED
    BY <1>2, <2>1, <2>2, <2>4, Finishing
<1> QED
  BY <1>3, <1>4, <1>5, <1>9, <1>10

\* The engine runs the play it was given.
LEMMA EnginePlay ==
  ASSUME Engine
  PROVE  play' = play
BY DEF Engine, Chunk, Interrupt, Drive, MashGap, WrapUp, NextPhase, Timeout,
   Finished, Stopped, script

\* The cost of a call does not depend on how its play proceeds.
LEMMA SameSpent ==
  ASSUME SpentInv, play' = play, UNCHANGED <<label, command, counts>>
  PROVE  SpentInv'
BY DEF SpentInv, OfIntent, FleeInv, Ahead, FleePlay, FleeMash, DoorHold, Worst,
   command, counts

\* Every step of a call keeps what is spent within its bounds.
LEMMA SpentStep ==
  ASSUME Sound, [Next]_vars
  PROVE  SpentInv'
<1>1. CASE UNCHANGED vars
  BY <1>1, SameSpent DEF vars, engine, script, Sound
<1>2. ASSUME NEW r \in Calls, Call(r)
      PROVE  SpentInv'
  <2>1. label' = "sent" /\ spent' = 0 /\ used' = 0 /\ round' = 1
    BY <1>2 DEF Call, Sound, SpentInv, counts
  <2> QED
    BY <2>1 DEF SpentInv, OfIntent, FleeInv, Fleeing, Running, Intents
<1>3. CASE Receive
  <2>1. /\ label = "sent" /\ spent' = 0 /\ used' = 0 /\ round' = 1
    BY <1>3 DEF Receive, Sound, SpentInv, counts
  <2>2. /\ raw \in Calls /\ Accepted(raw)
        /\ host = Host(Payload(raw), Default(raw.shots, Parse(Payload(raw)).mode))
    BY <2>1 DEF Sound, CallInv
  <2> DEFINE p == Relayed(AsPayload(host))
  <2>3. Acceptable(p) /\ Parse(p) = AsScript(host) /\ PlayOK(AsScript(host))
        /\ AsScript(host).intent \in Intents \cup {Absent}
    BY <2>2, Received
  <2>4. IF Acceptable(p)
        THEN guest' = Parse(p) /\ label' = Default(guest'.intent, "play")
        ELSE guest' = guest /\ label' = "refused"
    BY <1>3 DEF Receive
  <2> HIDE DEF p
  <2>5. guest' = AsScript(host) /\ guest'.max \in 1..MaxFrames
        /\ guest'.intent \in Intents \cup {Absent}
    BY <2>3, <2>4 DEF PlayOK
  <2>6. label' = IF guest'.intent = Absent THEN "play" ELSE guest'.intent
    BY <2>3, <2>4 DEF Default
  <2>7. CostOf(guest') \in Nat
    BY <2>5, CostType
  <2>8. CostOf(guest)' >= 0
    BY <2>7
  <2> QED
    BY <2>1, <2>5, <2>6, <2>8, TapsAssumption
       DEF SpentInv, OfIntent, FleeInv, Fleeing, Running, Intents
<1>4. CASE RunPlay
  <2>1. /\ label = "play" /\ label' = "last" /\ spent = 0 /\ spent' = 0
        /\ guest' = guest /\ guest.intent = Absent /\ Start(Rewritten(guest))
    BY <1>4 DEF RunPlay, Sound, SpentInv, OfIntent, command, counts
  <2>2. PlayOK(guest) /\ guest.max \in 1..MaxFrames
    BY <2>1, Received DEF Sound, CallInv, PlayOK
  <2>3. CostOf(guest) = Most(guest.max, AbortGap) + MostGap /\ CostOf(guest) \in Nat
    BY <2>1, <2>2, TapsAssumption, CostType DEF CostOf, Intents
  <2>4. Worst(play') <= Most(guest.max, AbortGap) + MostGap /\ Worst(play') \in Nat
    <3>1. play'.max \in {guest.max, AbortGap}
      BY <2>1, <2>2 DEF Start, Rewritten, PlayOK, Keys
    <3>2. Worst(play') \in {play'.max, play'.max + MostGap}
      BY DEF Worst
    <3>3. AbortGap \in Nat /\ guest.max \in Nat
      BY <2>2, LimitsAssumption, EngineAssumption
    <3> QED
      BY <3>1, <3>2, <3>3, Constants DEF Most
  <2>5. spent' <= CostOf(guest) /\ spent' + Worst(play') <= CostOf(guest)
    BY <2>1, <2>3, <2>4
  <2> QED
    BY <2>1, <2>5, Finishing
<1>5. CASE LastPlay
  <2>1. label' = "reply" /\ guest' = guest
    BY <1>5, GotoLabel DEF LastPlay, command
  <2>2. spent' <= CostOf(guest)
    BY <1>5, ReturnedFrames DEF LastPlay, Running
  <2> QED
    BY <2>1, <2>2, Replying
<1>6. CASE Reply \/ Fail
  <2>1. label' = "idle" /\ spent' = 0 /\ used' = 0 /\ round' = 1
    BY <1>6 DEF Reply, Fail, Idle
  <2> QED
    BY <2>1 DEF SpentInv, OfIntent, FleeInv, Fleeing, Running, Intents
<1>7. CASE Intent
  BY <1>7, AdvanceSpent, FleeSpent, TurnSpent, OtherSpent DEF Intent
<1>8. CASE Engine /\ UNCHANGED <<label, command, counts>>
  BY <1>8, EnginePlay, SameSpent DEF Sound
<1> QED
  BY <1>1, <1>2, <1>3, <1>4, <1>5, <1>6, <1>7, <1>8 DEF Next, Work

\* What a play may still take fits what its call may still spend.
THEOREM CostsFit == Spec => [](PlainInv /\ SpentInv)
<1>1. Init => PlainInv /\ SpentInv
  BY DEF Init, PlainInv, SpentInv, OfIntent, FleeInv, Fleeing, Running, Intents
<1>2. ASSUME IInv, PlainInv, SpentInv, [Next]_vars
      PROVE  PlainInv' /\ SpentInv'
  <2>1. label = "play" => PlayOK(guest)
    BY <1>2, Received DEF IInv, CallInv
  <2>2. PlainInv'
    BY <1>2, <2>1, EngineMoves, PlainStep DEF IInv, EngineInv
  <2>3. SpentInv'
    BY <1>2, SpentStep DEF IInv, EngineInv, Sound
  <2> QED
    BY <2>2, <2>3
<1> QED
  BY <1>1, <1>2, CommandCorrect, PTL DEF Spec

\* What the plays of a call take never exceeds the budget of its intent, and
\* the guest refuses nothing the host has accepted or an intent composed.
THEOREM SpentBoundedCorrect == Spec => []SpentBounded
<1>1. IInv /\ SpentInv => SpentBounded
  BY DEF IInv, CallInv, SpentInv, SpentBounded
<1> QED
  BY <1>1, CommandCorrect, CostsFit, PTL

-----------------------------------------------------------------------------
(* A mash without text                                                     *)

\* A mash that began without a text box is the script of a pause.
BlindInv ==
  label = "last" /\ guest.intent = Absent /\ guest.macro = "mash" /\ guest.mash
    /\ "textbox" \notin memory.base => play.macro = "steps" /\ play.steps = Pause

\* The screen a play begins with is remembered until it is over.
LEMMA BaseKept ==
  ASSUME CalmInv, Engine
  PROVE  memory'.base = memory.base
<1>1. ASSUME NEW m, MemoryOK(m), NEW p, NEW s, NEW n
      PROVE  Evaluate(m, p, s, n).memory.base = m.base
  <2> DEFINE m1 == IF p.until = Absent THEN m ELSE Remember(m, p.until, s)
             walks == p.abort /\ Takeover(m, s) = Absent /\ Directional(p)
             m2 == IF walks THEN [m1 EXCEPT !.still = StillCount(m1, s, n, FALSE)]
                   ELSE m1
  <2>1. MemoryOK(m1)
    BY <1>1, Remembered
  <2>2. m1.base = m.base
    BY <1>1 DEF Remember, MemoryOK, MemoryKeys
  <2>3. Evaluate(m, p, s, n).memory = [m2 EXCEPT !.begun = TRUE]
    BY DEF Evaluate
  <2> HIDE DEF m1
  <2>4. MemoryOK(m2) /\ m2.base = m1.base
    BY <2>1 DEF MemoryOK, MemoryKeys
  <2> HIDE DEF m2
  <2> QED BY <2>2, <2>3, <2>4 DEF MemoryOK, MemoryKeys
<1>2. ASSUME NEW s \in Screens, NEW end \in (frames + 1)..total,
             Chunk(end, s) \/ Interrupt(end, s)
      PROVE  memory'.base = memory.base
  <2>1. at = "loop"
    BY <1>2 DEF Chunk, Interrupt, Drive
  <2>2. MemoryOK(memory)
    BY <2>1 DEF CalmInv, Driving
  <2>3. memory' = memory \/ memory' = Evaluate(memory, play, s, evals).memory
    BY <1>2 DEF Chunk, Interrupt, Look, sight
  <2> QED BY <1>1, <2>2, <2>3
<1>3. CASE \E s \in Screens : MashGap(s) \/ WrapUp(s)
  BY <1>3 DEF MashGap, WrapUp, sight
<1>4. CASE NextPhase \/ Timeout \/ Finished \/ Stopped
  BY <1>4 DEF NextPhase, Timeout, Finished, Stopped, sight
<1> QED
  BY <1>2, <1>3, <1>4 DEF Engine

LEMMA BlindStep ==
  ASSUME IInv, SpentInv, BlindInv, [Next]_vars
  PROVE  BlindInv'
<1>1. CASE label = "last" /\ label' = "last"
  <2>1. UNCHANGED vars \/ (Engine /\ UNCHANGED <<label, command, counts>>)
    <3>1. ~Intent
      BY <1>1 DEF Intent, AdvanceStart, AdvanceOpened, Advance,
         AdvanceMashed, AdvanceLooked, FleeStart, Flee, FleeCleared, FleeBacked,
         FleePane, FleeChosen, FleeEnd, TurnStart, Turn, TurnActed, Settle,
         Settling, UntilOverworld, Skip, SkipPulsed, Door, DoorEntered, Returned
    <3>2. ~(Receive \/ RunPlay \/ LastPlay \/ Reply \/ Fail)
      BY <1>1 DEF Receive, RunPlay, LastPlay, Reply, Fail, Idle, Goto
    <3>3. \A r \in Calls : ~Call(r)
      BY <1>1 DEF Call
    <3> QED BY <3>1, <3>2, <3>3 DEF Next, Work
  <2>2. guest' = guest /\ play' = play /\ memory'.base = memory.base
    <3>1. CASE UNCHANGED vars
      BY <3>1 DEF vars, engine, script, sight, command
    <3>2. CASE Engine /\ UNCHANGED <<label, command, counts>>
      <4>1. memory'.base = memory.base
        BY <3>2, BaseKept DEF IInv, EngineInv
      <4>2. play' = play
        BY <3>2 DEF Engine, Chunk, Interrupt, MashGap, WrapUp, NextPhase,
           Timeout, Finished, Stopped, script
      <4> QED BY <3>2, <4>1, <4>2 DEF command
    <3> QED BY <2>1, <3>1, <3>2
  <2> QED BY <1>1, <2>2 DEF BlindInv
<1>2. CASE RunPlay
  <2>1. /\ Start(Rewritten(guest)) /\ guest' = guest /\ PlayOK(guest)
    BY <1>2, Received DEF RunPlay, command, IInv, CallInv
  <2>2. SUFFICES ASSUME guest.macro = "mash", guest.mash, "textbox" \notin memory'.base
                 PROVE  play'.macro = "steps" /\ play'.steps = Pause
    BY <2>1 DEF BlindInv
  <2>3. "textbox" \notin screen
    BY <2>1, <2>2 DEF Start, NewMonitor
  <2>4. Rewritten(guest).macro = "steps" /\ Rewritten(guest).steps = Pause
    <3>1. DOMAIN guest = Keys
      BY <2>1 DEF PlayOK
    <3> QED BY <2>2, <2>3, <3>1 DEF Rewritten, Pause, Keys
  <2>5. play' = Rewritten(guest)
    BY <2>1, <2>4 DEF Start, WantsGif
  <2> QED BY <2>4, <2>5
<1>3. CASE Intent
  <2>1. guest' = guest /\ (label' = "last" => guest.intent \in Intents)
    <3>1. guest' = guest
      BY <1>3, IntentCommand DEF command
    <3>2. label' = "last" => label \in {"run_away", "battle_turn", "entered",
                                        "battle_until_overworld", "skip_intro"}
      <4> USE RunLabel, GotoLabel DEF Returned
      <4>1. CASE \/ AdvanceStart \/ AdvanceOpened \/ Advance \/ AdvanceMashed
                 \/ AdvanceLooked
        BY <4>1 DEF AdvanceStart, AdvanceOpened, Advance, AdvanceMashed,
           AdvanceLooked
      <4>2. CASE FleeStart \/ Flee \/ FleeCleared \/ FleeBacked
        BY <4>2 DEF FleeStart, Flee, FleeCleared, FleeBacked
      <4>3. CASE FleePane \/ FleeChosen \/ FleeEnd
        BY <4>3 DEF FleePane, FleeChosen, FleeEnd
      <4>4. CASE TurnStart \/ Turn \/ TurnActed \/ Settle \/ Settling
        BY <4>4 DEF TurnStart, Turn, TurnActed, TurnEnds, Settle, Settling
      <4>5. CASE UntilOverworld \/ SkipPulsed \/ DoorEntered
        BY <4>5 DEF UntilOverworld, SkipPulsed, DoorEntered
      <4>6. CASE Skip
        BY <4>6 DEF Skip
      <4>7. CASE Door
        <5>1. \E p : Run(p, "entered")
          BY <4>7 DEF Door
        <5> QED BY <5>1
      <4> QED
        BY <1>3, <4>1, <4>2, <4>3, <4>4, <4>5, <4>6, <4>7 DEF Intent
    <3> QED BY <3>1, <3>2 DEF SpentInv, OfIntent, Intents
  <2> QED BY <2>1, TapsAssumption DEF BlindInv
<1>4. CASE label # "last" /\ label' = "last"
  <2>1. RunPlay \/ Intent
    <3>1. ~UNCHANGED vars /\ ~(Engine /\ UNCHANGED <<label, command, counts>>)
      BY <1>4 DEF vars
    <3>2. ~(LastPlay \/ Reply \/ Fail)
      BY <1>4 DEF LastPlay, Reply, Fail, Idle, Goto
    <3>3. ~Receive
      <4> SUFFICES ASSUME Receive PROVE FALSE
        OBVIOUS
      <4>1. Acceptable(Relayed(AsPayload(host)))
            /\ Parse(Relayed(AsPayload(host))).intent \in Intents \cup {Absent}
        BY Received DEF Receive, IInv, CallInv
      <4>2. label' \in Intents \cup {"play"}
        BY <4>1 DEF Receive, Default
      <4> QED BY <1>4, <4>2 DEF Intents
    <3>4. \A r \in Calls : ~Call(r)
      BY <1>4 DEF Call
    <3> QED BY <3>1, <3>2, <3>3, <3>4 DEF Next, Work
  <2> QED BY <1>2, <1>3, <2>1
<1> QED
  BY <1>1, <1>4 DEF BlindInv

\* The arguments of a mash make a mash of the guest.
LEMMA MashMashes ==
  ASSUME NEW r, r.mash, NEW m
  PROVE  LET g == AsScript(Host(Payload(r), m))
         IN  g.macro = "mash" /\ g.mash /\ g.intent = r.intent
<1> DEFINE q == Payload(r)
           h == Host(q, m)
           g == AsScript(h)
<1>1. q.steps = Absent /\ q.macro = "mash" /\ q.mash = TRUE /\ q.intent = r.intent
  <2> DEFINE common ==
        [Empty EXCEPT !.gap = Default(r.gap, 0), !.intent = r.intent,
                      !.until = PublicUntil(r), !.media = r.media]
  <2>1. /\ common.steps = Absent /\ common.intent = r.intent
        /\ DOMAIN common = DOMAIN Empty
    BY DEF Empty
  <2>2. {"macro", "max", "mash", "press", "release", "until", "mode", "steps",
         "intent"} \subseteq DOMAIN Empty
    BY DEF Empty
  <2>3. q = [common EXCEPT !.macro = "mash", !.max = FramesOf(r), !.mash = TRUE,
                !.press = MashPress, !.release = MashRelease,
                !.until = IF r.until = Absent THEN TextboxGone ELSE @,
                !.mode = ScreenshotMode(r.media, "mash", FramesOf(r))]
    BY DEF Payload
  <2> HIDE DEF common, q
  <2> QED BY <2>1, <2>2, <2>3
<1>2. Form(q) = "mash"
  BY <1>1 DEF Form
<1> HIDE DEF q
<1>3. /\ Parse(q).macro = "mash" /\ Parse(q).mash = q.mash
      /\ Parse(q).intent = q.intent
  BY <1>2, ParseKeys DEF Parse
<1>4. /\ h = [k \in Keys |-> h[k]]
      /\ h.macro = "mash" /\ h.mash = TRUE /\ h.intent = r.intent
  BY <1>1, <1>3, HostKeys DEF Keys
<1> HIDE DEF h
<1>5. g.macro = "mash" /\ g.mash = TRUE /\ g.intent = r.intent
  BY <1>4, AsScriptKeys DEF Keys
<1> QED
  BY <1>5 DEF h, q

\* The game sees what the play asks for, tick by tick, and nothing after a play
\* is cut short or of a mash without text.
THEOREM FollowsScriptCorrect == Spec => []FollowsScript
<1>1. Init => BlindInv
  BY DEF Init, BlindInv
<1>2. IInv /\ BlindInv => FollowsScript
  <2> SUFFICES ASSUME IInv, BlindInv
               PROVE  FollowsScript
    OBVIOUS
  <2>1. /\ at \in Driving => Len(joy) = frames
        /\ at # "idle" =>
             \A n \in 1..Len(joy) :
               IF at \in Driving \/ (\E m \in looked : n <= m)
               THEN joy[n] = Asked(play, n)
               ELSE joy[n] \in {Asked(play, n), {}}
    BY DEF IInv, EngineInv, JoyInv, FollowInv, SeenInv
  <2>2. ASSUME label = "last", raw.mash, raw.intent = Absent,
               "textbox" \notin memory.base, NEW n \in 1..Len(joy)
        PROVE  joy[n] = {}
    <3>1. guest.macro = "mash" /\ guest.mash /\ guest.intent = Absent
      BY <2>2, MashMashes DEF IInv, CallInv
    <3>2. play.macro = "steps" /\ play.steps = Pause
      BY <2>2, <3>1 DEF BlindInv
    <3>3. at # "idle"
      BY <2>2 DEF IInv, LabelInv, Running
    <3>4. \A i \in 1..Len(Pause) : Pause[i].buttons = {}
      BY DEF Pause
    <3>5. Asked(play, n) = {}
      BY <3>2, <3>4 DEF Asked
    <3> QED BY <2>1, <3>3, <3>5
  <2> QED BY <2>1, <2>2 DEF FollowsScript, NoBlindMash
<1>3. IInv /\ PlainInv /\ SpentInv /\ BlindInv /\ [Next]_vars => BlindInv'
  BY BlindStep
<1> QED
  BY <1>1, <1>2, <1>3, CommandCorrect, CostsFit, PTL DEF Spec
=============================================================================
