---------------------------- MODULE PlayCommandInv ----------------------------
(***************************************************************************)
(* What a call of the tool play promises: properties of PlayCommand.       *)
(***************************************************************************)
EXTENDS PlayCommand

\* Labels at which a play runs on the engine.
Running == {"last", "opened", "mashed", "looked", "cleared", "backed", "pane",
            "chosen", "fled", "acted", "settling", "pulsed", "entered"}
Between == {"sent", "play", "reply", "advance", "flee", "turn", "settle"}
             \cup Intents
Driving == {"loop", "between"}
Over == {"gap", "wrap", "ended", "raised"}

\* Type invariant, with where the engine may stand at each label and how far a
\* play may get: never past what it plans, but for the gap after a mash.
PlayInv ==
  /\ label \in {"idle", "refused"} \cup Between \cup Running
  /\ at \in {"idle"} \cup Driving \cup Over
  /\ label \in Running <=> at # "idle"
  /\ {used, gone, round, waited, spent, clear} \subseteq Nat
  /\ frames \in Nat /\ total \in Nat /\ gone = clear
  /\ at # "idle" => /\ play.max \in 1..MaxFrames /\ total <= play.max
                    /\ frames <= total + MostGap
                    /\ at \in Driving \cup {"gap"} => frames <= total

-----------------------------------------------------------------------------
(* The way of the arguments                                                *)

\* The guest parses what the host has parsed and serialized: it must get the
\* same play, whichever of the forms it has.  A chord comes back as a script of
\* one step.
RoundTrip ==
  guest # Absent =>
    guest = [host EXCEPT !.macro = IF @ = "buttons" THEN "steps" ELSE @,
                         !.buttons = IF host.steps = <<>> THEN @ ELSE {}]

-----------------------------------------------------------------------------
(* What the game sees                                                      *)

\* The buttons a play asks for at its n-th tick, without reference to phases.
Asked(p, n) ==
  LET before(i) == Planned(SubSeq(p.steps, 1, i - 1))
      held == {i \in 1..Len(p.steps) :
                 n \in (before(i) + 1)..(before(i) + p.steps[i].hold)}
  IN  CASE p.macro = "mash" ->
             IF (n - 1) % (p.press + p.release) < p.press THEN {"a"} ELSE {}
        [] p.macro = "hold" -> p.buttons
        [] OTHER -> UNION {p.steps[i].buttons : i \in held}

\* A mash=true asks for nothing unless a text box shows when it begins.
NoBlindMash ==
  label = "last" /\ raw.mash /\ raw.intent = Absent
    /\ "textbox" \notin memory.base =>
      \A n \in 1..Len(joy) : joy[n] = {}

\* On every tick the game sees the buttons the play asks for at that tick,
\* whatever chunks the ticks are made of, and none of a mash without text.
\* When the play has ended, the ticks after the last look may have been driven
\* before a late end or an exception, or released after it: those buttons or
\* none.  NothingHeld and ReleasedAfterMash say more of them.
FollowsScript ==
  /\ NoBlindMash
  /\ at \in Driving => Len(joy) = frames
  /\ at # "idle" =>
       \A n \in 1..Len(joy) :
         IF at \in Driving \/ (\E m \in looked : n <= m)
         THEN joy[n] = Asked(play, n)
         ELSE joy[n] \in {Asked(play, n), {}}

\* However a play ends (run out, interrupted, late, an exception), no button
\* stays pressed, neither for the final tick nor for the next call.
NothingHeld == at \notin Driving => pressed = {}

\* A mash that the screen has ended is followed by released ticks, so that the
\* next A does not open the text again.
ReleasedAfterMash ==
  at = "ended" /\ play.macro = "mash"
    /\ stop.reason \notin {"completed", "max_frames", "call_timeout"} =>
      /\ frames >= GapAfter(play)
      /\ \A n \in (frames - GapAfter(play) + 1)..frames : joy[n] = {}

-----------------------------------------------------------------------------
(* What the caller sees                                                    *)

\* The screen is looked at every interval and at the end, through any change
\* of chords, so a condition is not missed for longer than the interval.
LooksInTime ==
  at = "between" => \A n \in 1..frames :
    n % play.interval = 0 \/ n = total => n \in looked

\* The frame a play has stopped at, but for the gap after a mash.
CutFrame == frames - (IF play.macro = "mash" THEN GapAfter(play) ELSE 0)

\* The reported reason is what happened.  A play that "completed" was driven to
\* its end, one that reports "max_frames" to the most its caller allows, and no
\* image of either is marked as an interrupt.  One the screen has ended stopped
\* at the frame of its only interrupt image, at which it was looked at, however
\* chunks, images and the end coincide.  A late one has no interrupt image; the
\* clock is also read after the last chunk, so it may have run to its end.
ReasonIsTrue ==
  at = "ended" =>
    LET cut == {i \in 1..Len(shots) : shots[i].interrupt}
    IN  CASE stop.reason = "completed" -> frames = total /\ cut = {}
          [] stop.reason = "max_frames" ->
               /\ play.macro \in {"hold", "mash"}
               /\ frames = play.max
               /\ cut = {}
          [] stop.reason = "call_timeout" -> frames <= total /\ cut = {}
          [] OTHER -> \E i \in cut : /\ cut = {i}
                                     /\ shots[i].frame \in looked
                                     /\ shots[i].frame = CutFrame

\* The default abort reports a wall only if the player stood still for
\* DEFAULT_STABLE_FRAMES evaluations in a row, after the grace for turning.  A
\* hold that has until=blocked as well counts every evaluation twice.
BlockedMeansStill ==
  at = "ended" /\ stop = Decision("default_hold_abort", "blocked")
    /\ ~On(play.until, {"blocked"}) =>
      calm >= DefaultStable /\ evals >= Grace + DefaultStable

\* An image shows the frame it is filed under.  Only the last one of a late
\* play may show another: an older one, when frames were ticked without drawing
\* since, or the extra one ticked to draw it.
ShotsCurrent ==
  \A i \in 1..Len(shots) : shots[i].shows # shots[i].frame =>
    i = Len(shots) /\ stop.reason = "call_timeout"

-----------------------------------------------------------------------------
(* What a call costs                                                       *)

MashCost(n) == Most(MashLeast, Least(n, MaxFrames)) + MostGap
PressCost(n) == n * (PressHold + PressGap)

\* The most frames a call of an intent may take.
CostOf(p) ==
  CASE p.intent = "advance_text" ->
         Most(AdvanceWait, Least(MaxFrames, p.max) - 1 + MashLeast + MostGap)
    [] p.intent = "run_away" ->
         Most(BriefWait, 2 * (MashCost(Least(TextMash, p.max)) + PressCost(4)
                                + FleeWait + FleeSettle))
    [] p.intent = "battle_turn" ->
         Most(BriefWait, TurnCap - 1 + Most(MashLeast + MostGap, PressCost(1)))
    [] p.intent = "battle_until_overworld" -> Most(BriefWait, MashCost(p.max))
    [] p.intent = "skip_intro" ->
         Most(BriefWait, Least(SkipCap, p.max) - 1 + 4 * PulseHold)
    [] p.intent = "enter_door" ->
         Most(DoorLeast, Least(p.max, DoorMost)) + Most(DoorLeast, p.max)
    [] OTHER -> Most(p.max, AbortGap) + MostGap

\* An intent stops within its budget but for the play under way, whatever the
\* screen does: the loops count the frames of every play, gaps included.  And
\* what they compose of the frames left, however few, is no play the engine
\* refuses, as nothing is that the host has accepted.
SpentBounded ==
  /\ label # "refused"
  /\ guest # Absent => spent <= CostOf(guest)

\* advance_text, "until the box stays gone": when it ends after a look, no text
\* box was seen on the last GoneEvals looks, with no mash between them.
StaysGone ==
  [][label = "looked" /\ label' = "reply" =>
       clear' >= GoneEvals /\ "textbox" \notin screen]_vars

\* Every call is answered: each loop of an intent advances or ends.
EveryCallEnds == label = "sent" ~> label = "idle"
=============================================================================
