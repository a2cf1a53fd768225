------------------------------ MODULE PlayInput ------------------------------
(***************************************************************************)
(* What a play asks for (gb_mcp/emulator/input_schema.py).  The arguments  *)
(* of the tool are checked and defaulted into PlayArgs, rewritten into the *)
(* payload of the input engine, parsed into a PlayInput, sent to the guest *)
(* as a payload again and parsed there a second time.                      *)
(*                                                                         *)
(* A chord is the set of its buttons: normalize_buttons drops repetitions. *)
(* A missing key is Absent; a value of the wrong type is refused like a    *)
(* number outside its range.  Emulation speed, image scale, OCR, regions   *)
(* and thresholds pass through unchanged and are left out.                 *)
(***************************************************************************)
EXTENDS Integers, Sequences, SequencesExt

CONSTANTS
  Absent,
  MaxHold, MaxFrames, MaxGap, MaxSteps, MaxInterval,  \* MAX_* of play_limits.py
  DefaultInterval,         \* DEFAULT_UNTIL_EVAL_INTERVAL
  DefaultStable,           \* DEFAULT_STABLE_FRAMES
  DefaultFrames,           \* DEFAULT_PLAY_FRAMES: one tile
  WalkFrames,              \* PUBLIC_DPAD_HOLD_FRAMES
  MashPress, MashRelease,  \* PUBLIC_MASH_*_FRAMES
  KeyframeMin,             \* PUBLIC_KEYFRAME_MIN_FRAMES
  DefaultTimeout, MaxTimeout, Slack, Rate  \* seconds; frames in a second

ASSUME AbsentAssumption == Absent \notin Nat

ASSUME LimitsAssumption ==
  /\ MaxHold \in Nat /\ MaxHold >= 4 /\ MaxGap \in Nat /\ MaxSteps \in Nat \ {0}
  /\ MaxFrames \in 1..MaxHold
  /\ MaxInterval \in Nat /\ DefaultInterval \in 1..MaxInterval
  /\ DefaultStable \in 1..MaxFrames
  /\ DefaultFrames \in 1..MaxFrames /\ WalkFrames \in 1..MaxFrames
  /\ MashPress \in 1..MaxHold /\ MashRelease \in 1..MaxHold
  /\ KeyframeMin \in Nat
  /\ MaxTimeout \in Nat /\ DefaultTimeout \in 1..MaxTimeout
  /\ Slack \in Nat /\ Rate \in Nat \ {0}

Directions == {"up", "down", "left", "right"}
AB == {"a", "b"}
Buttons == Directions \cup AB \cup {"start", "select"}
Classifiers == {"battle", "textbox", "menu"}
UntilNames == Classifiers \cup {"stable", "fade", "blocked", "overworld",
                                "textbox_end", "clear_text"}
Intents == {"advance_text", "run_away", "battle_turn",
            "battle_until_overworld", "skip_intro", "enter_door"}

Default(v, d) == IF v = Absent THEN d ELSE v
Within(v, low, high) == v # Absent => v \in low..high
Least(a, b) == IF a <= b THEN a ELSE b
Most(a, b) == IF a <= b THEN b ELSE a

-----------------------------------------------------------------------------
(* The payload of the engine: parse_play_input.                            *)

\* A payload without any key.
Empty ==
  [macro |-> Absent, buttons |-> Absent, steps |-> Absent, wait |-> FALSE,
   hold |-> Absent, gap |-> Absent, max |-> Absent, press |-> Absent,
   release |-> Absent, until |-> Absent, disable |-> FALSE,
   interval |-> Absent, timeout |-> Absent, mode |-> "final",
   intent |-> Absent, media |-> Absent, mash |-> FALSE]

\* parse_until: a condition on the screen.  need is stable_frames.
Until(on, classifier, polarity, need) ==
  [on |-> on, classifier |-> classifier, polarity |-> polarity, need |-> need]

Until_OK(u) == u # Absent =>
  /\ u.need \in 1..MaxFrames
  /\ u.on = "classifier" => u.classifier \in Classifiers

Chord(p) == Default(p.buttons, {})
Hold(p) == Default(p.hold, 1)
Gap(p) == Default(p.gap, 0)

\* Which of its branches parse_play_input takes.
Form(p) ==
  IF p.steps # Absent THEN "script"
  ELSE IF p.macro \in {"mash", "hold"} THEN p.macro
  ELSE IF Chord(p) # {} \/ p.macro = "buttons" THEN "chord"
  ELSE IF p.wait THEN "wait"
  ELSE "nothing"

StepOK(s) ==
  /\ s.buttons # Absent \/ s.wait
  /\ Within(s.hold, 1, MaxHold)
  /\ Within(s.gap, 0, MaxGap)

Step(s, gap) ==
  [buttons |-> Default(s.buttons, {}), hold |-> Default(s.hold, 1),
   gap |-> Default(s.gap, gap)]

Script(p) ==
  CASE Form(p) = "script" -> [i \in 1..Len(p.steps) |-> Step(p.steps[i], Gap(p))]
    [] Form(p) \in {"chord", "wait"} ->
         <<[buttons |-> Chord(p), hold |-> Hold(p), gap |-> Gap(p)]>>
    [] OTHER -> <<>>

Planned(steps) == FoldLeft(LAMBDA n, s : n + s.hold + s.gap, 0, steps)

\* Frames the payload plans, and the most it may take.
Length(p) ==
  CASE Form(p) = "mash" -> Default(p.max, MaxFrames)
    [] Form(p) = "hold" -> Default(p.max, Default(p.hold, MaxFrames))
    [] OTHER -> Planned(Script(p))
Budget(p) == Default(p.max, Length(p))

\* Everything parse_play_input does not raise ValueError for.
Acceptable(p) ==
  /\ Form(p) # "nothing"
  /\ Within(p.hold, 1, MaxHold) /\ Within(p.gap, 0, MaxGap)
  /\ Within(p.max, 1, MaxFrames) /\ Within(p.interval, 1, MaxInterval)
  /\ Within(p.press, 1, MaxHold) /\ Within(p.release, 1, MaxHold)
  /\ Within(p.timeout, 1, MaxTimeout)
  /\ Until_OK(p.until) /\ p.intent \in Intents \cup {Absent}
  /\ Form(p) = "script" =>
       /\ Chord(p) = {}
       /\ p.macro \notin {"mash", "hold"}
       /\ Len(p.steps) \in 1..MaxSteps
       /\ \A i \in 1..Len(p.steps) : StepOK(p.steps[i])
       /\ Budget(p) >= Length(p)
  /\ Form(p) = "chord" => Chord(p) # {}
  /\ Length(p) \in 1..MaxFrames

\* call_timeout_for_speed at the default speed.
CallTimeout(n) ==
  Least(MaxTimeout, Most(DefaultTimeout, n \div Rate + Slack))

\* The PlayInput made of an acceptable payload.
Parse(p) ==
  LET off == p.disable \/ (p.until # Absent /\ p.until.on = "none")
      planned == Least(Length(p), Budget(p))
  IN [macro |-> CASE Form(p) \in {"script", "wait"} -> "steps"
                  [] Form(p) = "chord" -> "buttons"
                  [] OTHER -> Form(p),
      steps |-> Script(p),
      buttons |-> IF Form(p) \in {"chord", "hold"} THEN Chord(p) ELSE {},
      hold |-> IF Form(p) \in {"mash", "hold"} THEN Budget(p) ELSE Hold(p),
      gap |-> Gap(p),
      max |-> Budget(p),
      planned |-> planned,
      press |-> Default(p.press, 4), release |-> Default(p.release, 4),
      until |-> IF p.until # Absent /\ p.until.on = "none"
                THEN Absent ELSE p.until,
      disable |-> off,
      abort |-> Form(p) = "hold" /\ ~off,
      interval |-> Default(p.interval, DefaultInterval),
      timeout |-> Default(p.timeout, CallTimeout(planned)),
      mode |-> p.mode, intent |-> p.intent, media |-> p.media,
      mash |-> p.mash]

-----------------------------------------------------------------------------
(* The arguments of the tool: parse_play_args and play_input_from_args.    *)
(* raw has the keys buttons, frames, gap, mash, steps, until, polarity,    *)
(* intent and media.                                                       *)

Canonical(name) ==
  IF name \in {"textbox_end", "clear_text"} THEN "textbox" ELSE name

Polarity(raw) ==
  Default(raw.polarity,
          IF raw.until \in {"textbox_end", "clear_text"} THEN "disappears"
          ELSE "appears")

\* Frames when none are given: a mash, a walk, or one tile.
FramesOf(raw) ==
  Default(raw.frames,
    IF raw.mash THEN MaxFrames
    ELSE IF \E d \in Directions : raw.buttons = {d} THEN WalkFrames
    ELSE DefaultFrames)

ArgsOK(raw) ==
  /\ Within(raw.gap, 0, MaxGap) /\ Within(raw.frames, 1, MaxHold)
  /\ raw.buttons = Absent \/ raw.steps = Absent
  /\ ~(raw.mash /\ raw.steps # Absent)
  /\ raw.mash \/ raw.buttons # Absent \/ raw.steps # Absent \/ raw.intent # Absent
  /\ raw.steps # Absent =>
       /\ Len(raw.steps) \in 1..MaxSteps
       /\ \A i \in 1..Len(raw.steps) :
            /\ raw.steps[i].buttons # Absent
            /\ Within(raw.steps[i].frames, 1, MaxHold)
            /\ Within(raw.steps[i].gap, 0, MaxGap)

PublicUntil(raw) ==
  LET name == Canonical(raw.until)
  IN  CASE raw.until = Absent -> Absent
        [] name \in Classifiers ->
             Until("classifier", name, Polarity(raw), DefaultStable)
        [] name = "fade" -> Until("luma_jump", Absent, "appears", DefaultStable)
        [] OTHER -> Until(name, Absent, "appears", DefaultStable)

TextboxGone == Until("classifier", "textbox", "disappears", DefaultStable)

PublicStep(s, raw) ==
  [buttons |-> s.buttons, hold |-> Default(s.frames, FramesOf(raw)),
   gap |-> Default(s.gap, Default(raw.gap, 0)), wait |-> s.buttons = {}]

\* A long press of one direction, or of A and B, becomes a hold with abort.
LongHold(chord, n) ==
  /\ n > DefaultFrames
  /\ chord # {}
  /\ (\E d \in Directions : chord = {d}) \/ chord \subseteq AB

ScreenshotMode(media, macro, n) ==
  IF media # "video" /\ (macro = "hold" \/ (macro = "mash" /\ n > KeyframeMin))
  THEN "interrupt_and_final" ELSE "final"

\* The payload play_input_from_args hands to parse_play_input.
Payload(raw) ==
  LET n == FramesOf(raw)
      chord == Default(raw.buttons, {})
      common == [Empty EXCEPT !.gap = Default(raw.gap, 0), !.intent = raw.intent,
                              !.until = PublicUntil(raw), !.media = raw.media]
  IN  CASE raw.mash ->
             [common EXCEPT !.macro = "mash", !.max = n, !.mash = TRUE,
                !.press = MashPress, !.release = MashRelease,
                !.until = IF raw.until = Absent THEN TextboxGone ELSE @,
                !.mode = ScreenshotMode(raw.media, "mash", n)]
        [] ~raw.mash /\ raw.steps # Absent ->
             [common EXCEPT !.steps =
                [i \in 1..Len(raw.steps) |-> PublicStep(raw.steps[i], raw)]]
        [] ~raw.mash /\ raw.steps = Absent /\ chord = {} ->
             [common EXCEPT !.wait = TRUE, !.hold = n]
        [] ~raw.mash /\ raw.steps = Absent /\ LongHold(chord, n) ->
             [common EXCEPT !.macro = "hold", !.buttons = chord, !.max = n,
                !.hold = n, !.mode = ScreenshotMode(raw.media, "hold", n)]
        [] OTHER -> [common EXCEPT !.buttons = chord, !.hold = n]

Accepted(raw) == ArgsOK(raw) /\ Acceptable(Payload(raw))

-----------------------------------------------------------------------------
(* The way to the guest: play_to_payload, send_input, execute_play_command.*)

(* Mutant: a mash is sent without its frames. *)
AsPayloadEndless(play) ==
  [Empty EXCEPT !.macro = play.macro, !.buttons = play.buttons,
     !.steps = [i \in 1..Len(play.steps) |->
       [buttons |-> play.steps[i].buttons, hold |-> play.steps[i].hold,
        gap |-> play.steps[i].gap, wait |-> play.steps[i].buttons = {}]],
     !.hold = play.hold, !.gap = play.gap, !.press = play.press,
     !.release = play.release, !.until = play.until, !.mode = play.mode,
     !.intent = play.intent, !.media = play.media, !.mash = play.mash]

AsPayload(play) ==
  [Empty EXCEPT !.macro = play.macro, !.buttons = play.buttons,
     !.steps = [i \in 1..Len(play.steps) |->
       [buttons |-> play.steps[i].buttons, hold |-> play.steps[i].hold,
        gap |-> play.steps[i].gap, wait |-> play.steps[i].buttons = {}]],
     !.hold = play.hold, !.gap = play.gap, !.max = play.max,
     !.press = play.press, !.release = play.release, !.until = play.until,
     !.disable = play.disable, !.interval = play.interval,
     !.timeout = play.timeout, !.mode = play.mode, !.intent = play.intent,
     !.media = play.media, !.mash = play.mash]

\* An empty list of steps is dropped; with steps, the buttons are.
Relayed(p) ==
  IF p.steps = Absent \/ p.steps = <<>> THEN [p EXCEPT !.steps = Absent]
  ELSE [p EXCEPT !.buttons = Absent]
=============================================================================
