----------------------------- MODULE InputEngine -----------------------------
(***************************************************************************)
(* One play on the emulator (gb_mcp/emulator/input_engine.py,              *)
(* run_play_input): the chords of a PlayInput are pressed phase by phase   *)
(* and the emulator is ticked in chunks, each up to the next change of     *)
(* buttons, evaluation of the screen or wanted image.  An evaluation, the  *)
(* clock or the emulator itself may end the play at any chunk.             *)
(*                                                                         *)
(* What the game sees is recorded: joy has the joypad of every tick.  The  *)
(* emulator composes its LCD only on the last tick of a rendered chunk, so *)
(* capture_native yields the screen of tick shown, which may be an old one.*)
(***************************************************************************)
EXTENDS UntilMonitor

CONSTANTS Screens,     \* the screens considered
          LongAction,  \* LONG_ACTION_FRAMES
          AbortGap,    \* PUBLIC_MASH_ABORT_GAP_FRAMES
          LeastGap, MostGap  \* 8 and 16: bounds of the gap after a mash

ASSUME EngineAssumption ==
  /\ LongAction \in Nat /\ AbortGap \in 1..MaxFrames
  /\ LeastGap \in Nat \ {0} /\ MostGap \in Nat /\ LeastGap <= MostGap

VARIABLES
  at,        \* where run_play_input stands; "idle" outside of it
  play,      \* the PlayInput
  phases, total,    \* _phases_for and total_frames
  frames,    \* frames_advanced
  idx, progress,    \* phase_idx (from 1) and phase_progress
  pressed,   \* the buttons held down
  fresh,     \* chord_changed
  rendered,  \* last_lcd_rendered
  evals,     \* eval_index
  memory,    \* the UntilMonitor
  shots,     \* the records of the ScreenshotPlan
  stop,      \* stop_reason and stop_detail
  screen,    \* what the LCD shows
  shown,     \* the tick of the play it shows
  joy,       \* history: the joypad of every tick of the play
  looked,    \* history: the frames the screen was evaluated at
  calm       \* history: evaluations in a row with a still screen

script == <<play, phases, total>>
clock == <<frames, idx, progress, fresh, rendered, joy>>
sight == <<evals, memory, looked, calm>>
lcd == <<screen, shown>>
engine == <<at, script, clock, sight, lcd, pressed, shots, stop>>

-----------------------------------------------------------------------------
(* _phases_for, _mash_phases                                               *)

Phase(buttons, n, report) ==
  [buttons |-> buttons, frames |-> n, report |-> report]

FramesIn(seq) == FoldLeft(LAMBDA n, q : n + q.frames, 0, seq)

\* The phases that begin within the budget, the last one shortened to it.
Cut(raw, budget) ==
  LET before(i) == FramesIn(SubSeq(raw, 1, i - 1))
      begun == {i \in 1..Len(raw) : before(i) < budget}
  IN  [i \in 1..Cardinality(begun) |->
         [raw[i] EXCEPT !.frames = Least(@, budget - before(i))]]

Phases(p) ==
  CASE p.macro = "mash" ->
         Cut([i \in 1..(2 * p.max) |->
                IF i % 2 = 1 THEN Phase({"a"}, p.press, TRUE)
                ELSE Phase({}, p.release, TRUE)], p.max)
    [] p.macro = "hold" -> <<Phase(p.buttons, p.max, TRUE)>>
    [] OTHER ->
         Cut(FlattenSeq([i \in 1..Len(p.steps) |->
               <<Phase(p.steps[i].buttons, p.steps[i].hold, TRUE)>> \o
               IF p.steps[i].gap = 0 THEN <<>>
               ELSE <<Phase({}, p.steps[i].gap, FALSE)>>]), p.max)

-----------------------------------------------------------------------------
\* wants_action_gif and _with_internal_keyframes: a long mash or hold whose
\* caller wants a video is sampled for it.
WantsGif(p) ==
  p.media = "video" /\ p.macro \in {"mash", "hold"} /\ p.max >= LongAction

\* execute_play_command from capture_native on: the call of run_play_input
\* and its first lines.
Start(p) ==
  /\ play' = IF WantsGif(p) THEN [p EXCEPT !.mode = "keyframes"] ELSE p
  /\ phases' = Phases(play')
  /\ total' \in 0..play'.max
  /\ total' = Least(play'.max, FramesIn(phases'))
  /\ pressed' = phases'[1].buttons
  /\ fresh' = (pressed' # {})
  /\ frames' = 0 /\ idx' = 1 /\ progress' = 0 /\ rendered' = FALSE
  /\ evals' = 0 /\ memory' = NewMonitor(play'.until, screen)
  /\ shots' = IF WantsGif(play') THEN <<Shot(0, FALSE, FALSE, 0)>> ELSE <<>>
  /\ stop' = Absent
  /\ shown' = 0 /\ joy' = <<>> /\ looked' = {} /\ calm' = 0
  /\ at' = "loop"
  /\ UNCHANGED screen

\* run_play_input has returned: its locals are gone.
Forget ==
  /\ at' = "idle" /\ play' = Absent /\ phases' = <<>> /\ total' = 0
  /\ frames' = 0 /\ idx' = 1 /\ progress' = 0 /\ pressed' = {}
  /\ fresh' = FALSE /\ rendered' = FALSE
  /\ evals' = 0 /\ memory' = NewMonitor(Absent, {})
  /\ shots' = <<>> /\ stop' = Absent /\ shown' = 0
  /\ joy' = <<>> /\ looked' = {} /\ calm' = 0
  /\ UNCHANGED screen

(* Mutant: an interval is counted from wherever the play stands. *)
NextEvalFrom(n) == Least(n + play.interval, total)

NextEval(n) == Least((n \div play.interval + 1) * play.interval, total)

\* _tick_chunk goes up to the first frame at which there is something to do.
ChunkEnd(end) ==
  LET ends == {frames + phases[idx].frames - progress, NextEval(frames), total}
              \cup {n \in (frames + 1)..total : WantRender(play, n)}
  IN  end \in ends /\ \A n \in ends : end <= n

\* _tick_chunk up to frame end: s is what the LCD shows if it is composed,
\* which it is at the end of a rendered chunk and after a change of chord.
Drive(end, s) ==
  LET phase == phases[idx]
      whole == progress + end - frames >= phase.frames
      render == \/ end \in {NextEval(frames), total}
                \/ WantRender(play, end)
                \/ play.mode = "all" /\ whole /\ phase.report
  IN  /\ at = "loop" /\ ChunkEnd(end)
      /\ joy' = joy \o [i \in 1..(end - frames) |-> pressed]
      /\ frames' = end /\ progress' = progress + end - frames
      /\ fresh' = FALSE
      /\ rendered' = (rendered \/ render)
      /\ shown' = IF render THEN end ELSE IF fresh THEN frames + 1 ELSE shown
      /\ screen' = s
      /\ ~render /\ ~fresh => s = screen
      /\ idx' = idx

Look(end, s, seen) ==
  /\ evals' = evals + 1
  /\ memory' = seen.memory
  /\ looked' = looked \cup {end}
  /\ calm' = IF "still" \in s /\ evals > 0 THEN calm + 1 ELSE 0

\* A chunk after which the play goes on.
Chunk(end, s) ==
  LET seen == Evaluate(memory, play, s, evals)
      phase == phases[idx]
      shot == \/ end = total \/ WantRender(play, end)
              \/ /\ play.mode = "all" /\ phase.report
                 /\ progress + end - frames >= phase.frames
  IN  /\ Drive(end, s)
      /\ IF end = NextEval(frames)
         THEN seen.stop = Absent /\ Look(end, s, seen)
         ELSE UNCHANGED sight
      /\ shots' = IF shot THEN Append(shots, Shot(end, FALSE, end = total, shown'))
                  ELSE shots
      /\ at' = "between"
      /\ UNCHANGED <<script, pressed, stop>>

\* A chunk after which the screen ends the play; a mash is followed by a gap.
Interrupt(end, s) ==
  LET seen == Evaluate(memory, play, s, evals)
  IN  /\ Drive(end, s)
      /\ end = NextEval(frames)
      /\ seen.stop # Absent
      /\ Look(end, s, seen)
      /\ pressed' = {}
      /\ stop' = seen.stop
      /\ shots' = Append(shots, Shot(end, TRUE, play.macro # "mash", shown'))
      /\ at' = IF play.macro = "mash" THEN "gap" ELSE "wrap"
      /\ UNCHANGED script

(* Mutant: the two gaps are added and not capped. *)
GapAfterSum(p) == p.release + AbortGap

GapAfter(p) == Least(MostGap, Most(LeastGap, Most(p.release, AbortGap)))

(* Mutant: there is no gap. *)
MashGapLeftOut(s) ==
  /\ at = "gap" /\ s = screen
  /\ at' = "wrap"
  /\ shots' = Append(shots, Shot(frames, FALSE, TRUE, shown))
  /\ UNCHANGED <<script, clock, sight, lcd, pressed, stop>>

(* Mutant: the gap is ticked without drawing. *)
MashGapUndrawn(s) ==
  LET end == frames + GapAfter(play)
  IN  /\ at = "gap" /\ s = screen
      /\ joy' = joy \o [i \in 1..GapAfter(play) |-> pressed]
      /\ frames' = end
      /\ shots' = Append(shots, Shot(end, FALSE, TRUE, shown))
      /\ at' = "wrap"
      /\ UNCHANGED <<script, idx, progress, fresh, rendered, sight, lcd, pressed,
                     stop>>

\* The released ticks after an interrupted mash.
MashGap(s) ==
  LET end == frames + GapAfter(play)
  IN  /\ at = "gap"
      /\ joy' = joy \o [i \in 1..GapAfter(play) |-> pressed]
      /\ frames' = end
      /\ screen' = s /\ shown' = end
      /\ shots' = Append(shots, Shot(end, FALSE, TRUE, end))
      /\ at' = "wrap"
      /\ UNCHANGED <<script, idx, progress, fresh, rendered, sight, pressed, stop>>

(* Mutant: the new chord is pressed, the old one not released. *)
NextPhaseAdds ==
  /\ at = "between"
  /\ at' = "loop"
  /\ IF progress < phases[idx].frames
     THEN UNCHANGED <<idx, progress, pressed, fresh>>
     ELSE /\ idx' = idx + 1 /\ progress' = 0
          /\ IF idx < Len(phases) /\ frames < total
             THEN /\ pressed' = pressed \cup phases[idx + 1].buttons
                  /\ fresh' = (pressed' # pressed)
             ELSE UNCHANGED <<pressed, fresh>>
  /\ UNCHANGED <<script, frames, rendered, joy, sight, lcd, shots, stop>>

\* _set_buttons at the end of a phase.
NextPhase ==
  /\ at = "between"
  /\ at' = "loop"
  /\ IF progress < phases[idx].frames
     THEN UNCHANGED <<idx, progress, pressed, fresh>>
     ELSE /\ idx' = idx + 1 /\ progress' = 0
          /\ IF idx < Len(phases) /\ frames < total
             THEN /\ pressed' = phases[idx + 1].buttons
                  /\ fresh' = (pressed' # pressed)
             ELSE UNCHANGED <<pressed, fresh>>
  /\ UNCHANGED <<script, frames, rendered, joy, sight, lcd, shots, stop>>

(* Mutant: the buttons stay as they are. *)
TimeoutHolds ==
  /\ at = "between" \/ (at = "loop" /\ frames < total)
  /\ at' = "wrap"
  /\ stop' = Decision("call_timeout", Absent)
  /\ UNCHANGED <<script, clock, sight, lcd, pressed, shots>>

(* Mutant: the reason is not noted. *)
TimeoutSilent ==
  /\ at = "between" \/ (at = "loop" /\ frames < total)
  /\ at' = "wrap"
  /\ pressed' = {}
  /\ UNCHANGED <<script, clock, sight, lcd, shots, stop>>

\* The clock passes call_timeout_seconds; it is read before and after a chunk.
Timeout ==
  /\ at = "between" \/ (at = "loop" /\ frames < total)
  /\ at' = "wrap"
  /\ stop' = Decision("call_timeout", Absent)
  /\ pressed' = {}
  /\ UNCHANGED <<script, clock, sight, lcd, shots>>

Finished ==
  /\ at = "loop" /\ frames = total
  /\ at' = "wrap"
  /\ pressed' = {}
  /\ UNCHANGED <<script, clock, sight, lcd, shots, stop>>

FinalShot == \E i \in 1..Len(shots) : shots[i].final

\* Nothing was rendered: the final capture needs a tick of its own.
Undrawn == ~FinalShot /\ frames > 0 /\ ~rendered

\* tick() returns False: RuntimeError after some of its ticks.
Stopped ==
  /\ \/ at = "loop" /\ frames < total
     \/ at = "gap"
     \/ at = "wrap" /\ Undrawn
  /\ \E end \in (frames + 1)..(total + MostGap + 1) :
       /\ CASE at = "loop" -> ChunkEnd(end)
            [] at = "gap" -> end = frames + GapAfter(play)
            [] at = "wrap" -> end = frames + 1
       /\ \E n \in 0..(end - frames) : joy' = joy \o [i \in 1..n |-> pressed]
  /\ at' = "raised"
  /\ pressed' = {}
  /\ UNCHANGED <<script, frames, idx, progress, fresh, rendered, sight, lcd,
                 shots, stop>>

\* The stop reason of a play that ran to its end.
RanOut ==
  IF play.macro \in {"hold", "mash"} /\ frames >= play.max
  THEN "max_frames" ELSE "completed"

\* The lines after the loop: a capture of the end if there is none yet, of a
\* newly composed LCD if nothing was rendered at all.
WrapUp(s) ==
  /\ at = "wrap"
  /\ at' = "ended"
  /\ stop' = IF stop = Absent THEN Decision(RanOut, Absent) ELSE stop
  /\ IF Undrawn
     THEN joy' = Append(joy, pressed) /\ screen' = s /\ shown' = Len(joy')
     ELSE s = screen /\ UNCHANGED <<joy, lcd>>
  /\ shots' = IF FinalShot THEN shots
              ELSE Append(shots, Shot(frames, FALSE, TRUE, shown'))
  /\ UNCHANGED <<script, frames, idx, progress, fresh, rendered, sight, pressed>>

Engine ==
  \/ \E s \in Screens :
       \/ MashGap(s)
       \/ WrapUp(s)
       \/ \E end \in (frames + 1)..total : Chunk(end, s) \/ Interrupt(end, s)
  \/ NextPhase \/ Timeout \/ Finished \/ Stopped
=============================================================================
