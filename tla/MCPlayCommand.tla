---------------------------- MODULE MCPlayCommand -----------------------------
(***************************************************************************)
(* Small instances of PlayCommand for TLC: every form of play, condition,  *)
(* image mode and intent at least once, on seven screens.                  *)
(***************************************************************************)
EXTENDS PlayCommandInv

None == [buttons |-> Absent, frames |-> Absent, gap |-> Absent, mash |-> FALSE,
         steps |-> Absent, until |-> Absent, polarity |-> Absent,
         intent |-> Absent, media |-> "image", shots |-> Absent]

Press(chord) == [None EXCEPT !.buttons = chord]
StepOf(chord, n, gap) == [buttons |-> chord, frames |-> n, gap |-> gap]

McScreens ==
  {{"still", "steady"}, {"textbox", "moved"}, {"battle", "moved"},
   {"battle", "pane", "textbox", "moved", "still"}, {"menu", "moved", "steady"},
   {"uniform", "moved"}, {"occluded", "moved", "steady"}}

Scripts ==
  {[None EXCEPT !.steps = <<StepOf({"a"}, 1, Absent), StepOf({}, Absent, 0),
                            StepOf({"a", "up"}, 3, 1)>>, !.gap = 1,
                !.shots = m] : m \in {Absent, "all", "keyframes"}}
Chords ==
  {Press({"a"}), Press({}), [Press({"a", "start"}) EXCEPT !.gap = 2],
   [Press({}) EXCEPT !.frames = 8, !.until = "stable"],
   [Press({}) EXCEPT !.frames = 6, !.until = "overworld", !.shots = "all"]}
Holds ==
  {Press({"left"}),
   [Press({"up"}) EXCEPT !.until = "blocked"],
   [Press({"up"}) EXCEPT !.until = "fade", !.media = "video"],
   [Press({"a", "b"}) EXCEPT !.frames = 5, !.shots = "keyframes"]}
Mashes ==
  {[None EXCEPT !.mash = TRUE],
   [None EXCEPT !.mash = TRUE, !.frames = 8, !.media = "video"],
   [None EXCEPT !.mash = TRUE, !.frames = 5, !.until = "battle", !.shots = "all"]}
Helped ==
  {[None EXCEPT !.intent = i] : i \in Intents}
    \cup {[None EXCEPT !.intent = i, !.frames = 9] :
            i \in Intents \ {"run_away", "battle_turn"}}
Doors ==
  {[Press({"left"}) EXCEPT !.intent = "enter_door", !.media = "video"]}

\* Arguments the tool refuses, of which none may come through.
Refused ==
  {None, [None EXCEPT !.frames = 0, !.mash = TRUE],
   [None EXCEPT !.intent = "save_game"],
   [Press({"a"}) EXCEPT !.steps = <<StepOf({"b"}, 1, 0)>>],
   [Press({"up"}) EXCEPT !.frames = MaxFrames, !.gap = 1, !.buttons = {"up", "a"}]}

\* Lists of images as a play may leave them: frames ascend, the last is the
\* final one, at most one is of an interrupt.
ShotLists ==
  UNION {{[i \in 1..n |-> [frame |-> f[i], interrupt |-> i = k, final |-> i = n,
                          shows |-> f[i]]] :
            k \in 0..n,
            f \in {g \in [1..n -> 0..6] : \A i \in 1..(n - 1) : g[i] < g[i + 1]}} :
         n \in 1..5}

\* "Look at the last image": whatever a mode keeps of the images taken, they
\* are in the order of the play and the last one is the last one taken.
SelectionAssumption ==
  \A mode \in {"final", "interrupt_and_final", "keyframes", "all"} :
    \A taken \in ShotLists :
      LET kept == Select(mode, taken)
      IN  /\ kept # <<>> /\ Last(kept) = Last(taken)
          /\ \A i \in 1..Len(kept) : kept[i] \in ToSet(taken)
          /\ \A i \in 1..(Len(kept) - 1) : kept[i].frame < kept[i + 1].frame
ASSUME SelectionAssumption

McCalls == Scripts \cup Chords \cup Holds \cup Mashes \cup Helped \cup Doors
             \cup Refused
=============================================================================
