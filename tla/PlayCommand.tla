----------------------------- MODULE PlayCommand -----------------------------
(***************************************************************************)
(* One call of the tool play, from its arguments to its reply: the host    *)
(* parses and sends it (gb_mcp/tools/play.py, session.py), the guest       *)
(* parses it again (play_runtime.py) and either runs it on the engine or   *)
(* lets an intent (intents.py) run a series of plays on the engine.        *)
(*                                                                         *)
(* label is where the call stands, at where the engine stands within it.   *)
(* The guest executes one command at a time; EmulatorSession models the    *)
(* queue before it.  Between two plays nothing ticks the emulator.  What   *)
(* _merge does with the images and the reason stamped on a reply are left  *)
(* out.                                                                    *)
(***************************************************************************)
EXTENDS InputEngine

CONSTANTS
  Calls,       \* arguments the tool is called with
  \* intents.py, in frames unless said otherwise
  MashLeast,   \* 16
  AdvanceWait, \* _ADVANCE_WAIT_FRAMES
  EvalSlice,   \* _ADVANCE_EVAL_FRAMES; also a slice of _wait_turn_event
  GoneEvals,   \* _ADVANCE_GONE_EVALS, evaluations
  PressHold, PressGap,          \* _HOLD and the gap of _button_steps
  PulseHold,   \* hold and gap of a pulse of _skip_intro
  SkipCap,     \* _SKIP_INTRO_CAP
  TurnRounds, TurnCap, TurnWait,   \* _BATTLE_TURN_*, 180
  TextMash,    \* 240: mash within run_away and battle_turn
  FleeWait, FleeSettle,         \* 32 and 96
  DoorLeast, DoorMost,          \* 32 and 360
  BriefWait,   \* 6
  SettleEvals  \* stable_frames of until=overworld, evaluations

ASSUME CommandAssumption ==
  /\ {MashLeast, AdvanceWait, EvalSlice, TextMash, FleeWait, FleeSettle,
      DoorLeast, DoorMost, BriefWait, SettleEvals, TurnWait}
       \subseteq 1..MaxFrames
  /\ DoorLeast <= DoorMost
  /\ {GoneEvals, SkipCap, TurnRounds, TurnCap} \subseteq Nat \ {0}
  /\ PressHold \in 1..MaxHold /\ PressGap \in 0..MaxGap
  /\ PulseHold \in 1..MaxHold /\ PulseHold <= MaxGap
  /\ 3 <= MaxSteps
  /\ 3 * (PressHold + PressGap) <= MaxFrames /\ 4 * PulseHold <= MaxFrames

\* No call has a script that is mistaken for a missing one.
ASSUME CallsAssumption ==
  \A r \in Calls : Accepted(r) => AsPayload(Parse(Payload(r))).steps # Absent

VARIABLES
  label,   \* where the call stands
  raw,     \* its arguments
  host,    \* the PlayInput of the host
  guest,   \* the PlayInput of the guest
  used,    \* used, total: frames an intent counts against its budget
  gone,    \* gone_evals
  round,   \* _attempt, the iterations of a battle turn
  waited,  \* used of _wait_turn_event
  spent,   \* frames_advanced summed by _merge
  clear    \* history: looks in a row, by advance_text, without a text box

command == <<raw, host, guest>>
counts == <<used, gone, round, waited, spent, clear>>
vars == <<engine, label, command, counts>>

Init ==
  /\ label = "idle" /\ at = "idle" /\ screen \in Screens
  /\ raw = Absent /\ host = Absent /\ guest = Absent
  /\ used = 0 /\ gone = 0 /\ round = 1 /\ waited = 0 /\ spent = 0 /\ clear = 0
  /\ play = Absent /\ phases = <<>> /\ total = 0
  /\ frames = 0 /\ idx = 1 /\ progress = 0 /\ fresh = FALSE
  /\ rendered = FALSE /\ joy = <<>> /\ pressed = {}
  /\ evals = 0 /\ memory = NewMonitor(Absent, {}) /\ looked = {} /\ calm = 0
  /\ shots = <<>> /\ stop = Absent /\ shown = 0

-----------------------------------------------------------------------------
(* The tool and the entry of the guest                                     *)

\* play(): what parse_play_args refuses goes no further.
Call(r) ==
  /\ label = "idle"
  /\ Accepted(r)
  /\ raw' = r
  /\ host' = [Parse(Payload(r)) EXCEPT !.mode = Default(r.shots, @)]
  /\ label' = "sent"
  /\ UNCHANGED <<engine, guest, counts>>

\* execute_play_command up to its two branches.
Receive ==
  LET p == Relayed(AsPayload(host))
  IN  /\ label = "sent"
      /\ IF Acceptable(p)
         THEN /\ guest' = Parse(p)
              /\ label' = Default(guest'.intent, "play")
         ELSE guest' = guest /\ label' = "refused"
      /\ UNCHANGED <<engine, raw, host, counts>>

\* _rewrite_public_mash_without_box: mashing with no text box is a short wait.
Rewritten(p) ==
  IF ~(p.macro = "mash" /\ p.mash) THEN p
  ELSE IF "textbox" \in screen
  THEN [p EXCEPT !.until = Default(@, TextboxGone)]
  ELSE [p EXCEPT !.macro = "steps", !.buttons = {}, !.until = Absent,
          !.steps = <<[buttons |-> {}, hold |-> AbortGap, gap |-> 0]>>,
          !.max = AbortGap, !.planned = AbortGap, !.hold = AbortGap,
          !.abort = FALSE, !.disable = TRUE, !.intent = Absent]

\* On with the call: nothing of the play is left but the screen.
Goto(next) == label' = next /\ Forget

\* A play of the intent, parsed like any payload, and what follows it.
Run(p, next) ==
  IF Acceptable(p)
  THEN Start(Parse(p)) /\ label' = next
  ELSE Goto("refused")

\* The engine has returned to the call, which adds up the frames reported.
Returned(here) == label = here /\ at = "ended" /\ spent' = spent + frames

RunPlay ==
  /\ label = "play"
  /\ Start(Rewritten(guest)) /\ label' = "last"
  /\ UNCHANGED <<command, counts>>

\* The last play of a command: the rest is packaging.
LastPlay ==
  /\ Returned("last") /\ Goto("reply")
  /\ UNCHANGED <<command, used, gone, round, waited, clear>>

Idle ==
  /\ label' = "idle"
  /\ raw' = Absent /\ host' = Absent /\ guest' = Absent
  /\ used' = 0 /\ gone' = 0 /\ round' = 1 /\ waited' = 0 /\ spent' = 0
  /\ clear' = 0

\* The answer; the guest goes on to the next command.
Reply ==
  /\ label = "reply"
  /\ Idle
  /\ UNCHANGED engine

\* An exception fails the command; the guest goes on to the next one.
Fail ==
  /\ at = "raised" \/ label = "refused"
  /\ Idle
  /\ Forget

-----------------------------------------------------------------------------
(* The payloads of intents.py                                              *)

Base ==
  [Empty EXCEPT !.media = guest.media,
     !.mode = IF guest.media = "video" THEN "keyframes"
              ELSE IF guest.mode \in {"keyframes", "all"} THEN guest.mode
              ELSE "final"]

Wait(n, u) ==
  [Base EXCEPT !.wait = TRUE, !.hold = n, !.max = n, !.until = u,
               !.mode = "interrupt_and_final"]

Taps(names, hold, gap) ==
  [i \in 1..Len(names) |-> [buttons |-> {names[i]}, hold |-> hold,
                            gap |-> gap, wait |-> FALSE]]

Presses(names, hold, gap) == [Base EXCEPT !.steps = Taps(names, hold, gap)]

Mash(n, u) ==
  [Base EXCEPT !.macro = "mash", !.press = MashPress, !.release = MashRelease,
     !.max = Most(MashLeast, Least(n, MaxFrames)), !.until = u]

Appears(name) == Until("classifier", name, "appears", DefaultStable)
Disappears(name) == Until("classifier", name, "disappears", DefaultStable)
Overworld == Until("overworld", Absent, "appears", SettleEvals)

Paths == {<<"a">>, <<"right", "a">>, <<"down", "a">>, <<"down", "right", "a">>}

\* Nothing an intent asks for is mistaken for a missing key.
ASSUME TapsAssumption ==
  /\ Absent \notin {"mash", "hold", "buttons"} \cup Intents
  /\ \A b \in Buttons : Absent # {b}
  /\ \A names \in Paths \cup {<<"b">>} : Absent # Taps(names, PressHold, PressGap)
  /\ Absent # Taps(<<"start", "a">>, PulseHold, PulseHold)

Cap == Least(MaxFrames, guest.max)

Shows(names) == screen \cap names # {}

-----------------------------------------------------------------------------
(* advance_text                                                            *)

\* Without a text box, wait for one to open.
AdvanceStart ==
  /\ label = "advance_text"
  /\ IF Shows({"textbox"}) THEN label' = "advance" /\ UNCHANGED engine
     ELSE Run(Wait(AdvanceWait, Appears("textbox")), "opened")
  /\ UNCHANGED <<command, counts>>

AdvanceOpened ==
  /\ Returned("opened")
  /\ used' = frames
  /\ Goto(IF Shows({"textbox"}) THEN "advance" ELSE "reply")
  /\ UNCHANGED <<command, gone, round, waited, clear>>

\* One pass of the loop: mash while there is a box, else wait a little.
Advance ==
  /\ label = "advance"
  /\ IF used >= Cap
     THEN label' = "reply" /\ UNCHANGED <<engine, gone>>
     ELSE IF Shows({"textbox"})
     THEN gone' = 0 /\ Run(Mash(Cap - used, Disappears("textbox")), "mashed")
     ELSE gone' = gone /\ Run(Wait(Least(EvalSlice, Cap - used), Absent), "looked")
  /\ clear' = IF Shows({"textbox"}) THEN 0 ELSE clear
  /\ UNCHANGED <<command, used, round, waited, spent>>

(* Mutant: the released frames after the mash are not counted. *)
AdvanceMashedUncounted ==
  /\ Returned("mashed")
  /\ used' = used + IF stop.reason = "classifier" THEN frames - GapAfter(play)
                   ELSE frames
  /\ Goto(IF frames = 0 THEN "reply" ELSE "advance")
  /\ UNCHANGED <<command, gone, round, waited, clear>>

(* Mutant: a mash that got nowhere is tried again. *)
AdvanceMashedRetries ==
  /\ Returned("mashed")
  /\ used' = used + frames
  /\ Goto("advance")
  /\ UNCHANGED <<command, gone, round, waited, clear>>

AdvanceMashed ==
  /\ Returned("mashed")
  /\ used' = used + frames
  /\ Goto(IF frames = 0 THEN "reply" ELSE "advance")
  /\ UNCHANGED <<command, gone, round, waited, clear>>

(* Mutant: one look without a text box is enough. *)
AdvanceLookedOnce ==
  /\ Returned("looked")
  /\ used' = used + Most(frames, 1)
  /\ IF Shows({"textbox"})
     THEN gone' = 0 /\ clear' = 0 /\ Goto("advance")
     ELSE gone' = gone + 1 /\ clear' = clear + 1 /\ Goto("reply")
  /\ UNCHANGED <<command, round, waited>>

AdvanceLooked ==
  /\ Returned("looked")
  /\ used' = used + Most(frames, 1)
  /\ IF Shows({"textbox"})
     THEN gone' = 0 /\ clear' = 0 /\ Goto("advance")
     ELSE /\ gone' = gone + 1 /\ clear' = clear + 1
          /\ Goto(IF gone' >= GoneEvals THEN "reply" ELSE "advance")
  /\ UNCHANGED <<command, round, waited>>

-----------------------------------------------------------------------------
(* run_away                                                                *)

FleeStart ==
  /\ label = "run_away"
  /\ IF Shows({"battle", "menu", "textbox"})
     THEN label' = "flee" /\ UNCHANGED engine
     ELSE Run(Wait(BriefWait, Absent), "last")
  /\ UNCHANGED <<command, counts>>

\* An attempt begins by clearing a text box.
Flee ==
  /\ label = "flee"
  /\ IF Shows({"textbox"})
     THEN Run(Mash(Least(TextMash, guest.max), Disappears("textbox")), "cleared")
     ELSE Run(Presses(<<"b">>, PressHold, PressGap), "backed")
  /\ UNCHANGED <<command, counts>>

FleeCleared ==
  /\ Returned("cleared")
  /\ IF Shows({"battle", "menu", "pane"})
     THEN Run(Presses(<<"b">>, PressHold, PressGap), "backed")
     ELSE Goto("reply")
  /\ UNCHANGED <<command, used, gone, round, waited, clear>>

FleeBacked ==
  /\ Returned("backed")
  /\ Run(Wait(FleeWait, Disappears("battle")), "pane")
  /\ UNCHANGED <<command, used, gone, round, waited, clear>>

\* Walk the cursor of the command pane to its last cell and confirm.
FleePane ==
  /\ Returned("pane")
  /\ IF Shows({"pane"})
     THEN \E path \in Paths : Run(Presses(path, PressHold, PressGap), "chosen")
     ELSE Run(Wait(FleeSettle, Overworld), "fled")
  /\ UNCHANGED <<command, used, gone, round, waited, clear>>

FleeChosen ==
  /\ Returned("chosen")
  /\ Run(Wait(FleeSettle, Overworld), "fled")
  /\ UNCHANGED <<command, used, gone, round, waited, clear>>

FleeEnd ==
  /\ Returned("fled")
  /\ round' = round + 1
  /\ Goto(IF Shows({"battle"}) /\ round < 2 THEN "flee" ELSE "reply")
  /\ UNCHANGED <<command, used, gone, waited, clear>>

-----------------------------------------------------------------------------
(* battle_turn and _wait_turn_event                                        *)

TurnStart ==
  /\ label = "battle_turn"
  /\ IF Shows({"battle"}) THEN label' = "turn" /\ UNCHANGED engine
     ELSE Run(Wait(BriefWait, Absent), "last")
  /\ UNCHANGED <<command, counts>>

Turn ==
  /\ label = "turn"
  /\ IF round > TurnRounds \/ used >= TurnCap \/ ~Shows({"battle", "textbox"})
     THEN label' = "reply" /\ UNCHANGED engine
     ELSE IF Shows({"textbox"})
     THEN Run(Mash(Least(TextMash, TurnCap - used), Disappears("textbox")), "acted")
     ELSE Run(Presses(<<"a">>, PressHold, PressGap), "acted")
  /\ UNCHANGED <<command, counts>>

TurnActed ==
  /\ Returned("acted")
  /\ used' = used + frames
  /\ waited' = 0
  /\ Goto("settle")
  /\ UNCHANGED <<command, gone, round, clear>>

Ready == Shows({"pane", "textbox", "occluded"}) \/ ~Shows({"battle"})

\* Leaves _wait_turn_event and ends the iteration.
TurnEnds ==
  /\ round' = round + 1
  /\ Goto(IF Shows({"battle", "textbox"}) THEN "turn" ELSE "reply")

Settle ==
  /\ label = "settle"
  /\ LET left == Least(TurnWait, TurnCap - used + waited) - waited
     IN  IF left <= 0 \/ Ready
         THEN TurnEnds
         ELSE Run(Wait(Least(EvalSlice, left), Absent), "settling") /\ round' = round
  /\ UNCHANGED <<command, used, gone, waited, spent, clear>>

Settling ==
  /\ Returned("settling")
  /\ used' = used + frames
  /\ waited' = waited + frames
  /\ IF frames = 0 \/ Ready THEN TurnEnds ELSE Goto("settle") /\ round' = round
  /\ UNCHANGED <<command, gone, clear>>

-----------------------------------------------------------------------------
(* battle_until_overworld, skip_intro, enter_door                          *)

UntilOverworld ==
  /\ label = "battle_until_overworld"
  /\ IF Shows({"battle", "textbox"})
     THEN Run(Mash(Cap, Overworld), "last")
     ELSE Run(Wait(BriefWait, Absent), "last")
  /\ UNCHANGED <<command, counts>>

\* One pulse of start and a while the budget lasts and nothing opened.
Skip ==
  /\ label = "skip_intro"
  /\ IF used < Least(SkipCap, guest.max) /\ ~Shows({"menu", "textbox"})
     THEN Run(Presses(<<"start", "a">>, PulseHold, PulseHold), "pulsed")
     ELSE IF used = 0 THEN Run(Wait(BriefWait, Absent), "last")
     ELSE label' = "reply" /\ UNCHANGED engine
  /\ UNCHANGED <<command, counts>>

SkipPulsed ==
  /\ Returned("pulsed")
  /\ used' = used + frames
  /\ Goto(IF frames = 0 THEN "reply" ELSE "skip_intro")
  /\ UNCHANGED <<command, gone, round, waited, clear>>

\* Hold the direction into the door, then wait for the room behind it.
Door ==
  /\ label = "enter_door"
  /\ \E d \in IF guest.buttons \cap Directions = {} THEN {"up"}
              ELSE guest.buttons \cap Directions :
       Run([Base EXCEPT !.macro = "hold", !.buttons = {d},
              !.hold = Most(DoorLeast, Least(guest.max, DoorMost)),
              !.max = Most(DoorLeast, Least(guest.max, DoorMost)),
              !.until = Until("luma_jump", Absent, "appears", DefaultStable)],
           "entered")
  /\ UNCHANGED <<command, counts>>

DoorEntered ==
  /\ Returned("entered")
  /\ Run(Wait(Most(DoorLeast, Least(guest.max, MaxFrames)), Overworld), "last")
  /\ UNCHANGED <<command, used, gone, round, waited, clear>>

-----------------------------------------------------------------------------
Intent ==
  \/ AdvanceStart \/ AdvanceOpened \/ Advance \/ AdvanceMashed \/ AdvanceLooked
  \/ FleeStart \/ Flee \/ FleeCleared \/ FleeBacked \/ FleePane \/ FleeChosen
  \/ FleeEnd \/ TurnStart \/ Turn \/ TurnActed \/ Settle \/ Settling
  \/ UntilOverworld \/ Skip \/ SkipPulsed \/ Door \/ DoorEntered

Work ==
  \/ Receive \/ RunPlay \/ LastPlay \/ Reply \/ Fail \/ Intent
  \/ Engine /\ UNCHANGED <<label, command, counts>>

Next == (\E r \in Calls : Call(r)) \/ Work

Spec == Init /\ [][Next]_vars /\ WF_vars(Work)
=============================================================================
