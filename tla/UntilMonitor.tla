----------------------------- MODULE UntilMonitor -----------------------------
(***************************************************************************)
(* What stops a play early, and which images of it are kept                *)
(* (gb_mcp/emulator/vision.py: UntilMonitor and ScreenshotPlan).           *)
(*                                                                         *)
(* A screen is the set of what the image arithmetic finds on it:           *)
(*   battle, textbox, menu, occluded  the flags of classify                *)
(*   pane     a command pane is visible                                    *)
(*   field    _tilemap_field_likely                                        *)
(*   uniform  _near_uniform: a solid fade                                  *)
(*   jump     the mean luminance is far from the start of the call         *)
(*   black    the black share rose and the luminance moved half as far     *)
(*   moved    pixel_delta against the start exceeds the hold threshold     *)
(*   steady   pixel_delta against the previous evaluation is small         *)
(*   still    so is coarse_mean_abs of the player's surroundings           *)
(* Conditions on pixels or hashes of a region cannot come from the tool    *)
(* play and are left out.                                                  *)
(***************************************************************************)
EXTENDS PlayInput

CONSTANTS Grace,      \* BLOCKED_TURN_GRACE_EVALS
          MaxShots    \* MAX_SCREENSHOT_ALL

ASSUME MonitorAssumption == Grace \in Nat /\ MaxShots \in Nat \ {0, 1}

\* UntilMonitor.__init__.  begun: there is a previous evaluation.
NewMonitor(u, screen) ==
  LET there == u # Absent /\ u.on = "classifier" /\ u.classifier \in screen
  IN  [base |-> screen, begun |-> FALSE, steady |-> 0, still |-> 0,
       seen |-> there, met |-> ~there, covered |-> FALSE]

On(u, kinds) == u # Absent /\ u.on \in kinds

\* A screen on which the count of steady evaluations starts anew.
Restless(u, s) ==
  \/ "uniform" \in s
  \/ u.on = "overworld" /\ s \cap {"battle", "textbox"} # {}

(* Mutant: turning counts as standing still. *)
StillCountAtOnce(m, s, n, asUntil) ==
  IF m.begun /\ "still" \in s THEN m.still + 1 ELSE 0

\* _eval_blocked: the count of still evaluations after this one.  asUntil: it
\* is the caller's condition; the default abort waits for a facing turn.
StillCount(m, s, n, asUntil) ==
  IF m.begun /\ (asUntil \/ n >= Grace) /\ "still" \in s THEN m.still + 1 ELSE 0

\* _eval_caller_until: what it remembers of screen s.
Remember(m, u, s) ==
  [m EXCEPT
     !.steady = IF ~On(u, {"stable", "overworld"}) THEN @
                ELSE IF m.begun /\ ~Restless(u, s) /\ "steady" \in s THEN @ + 1
                ELSE 0,
     !.still = IF On(u, {"blocked"}) THEN StillCount(m, s, 0, TRUE) ELSE @,
     !.seen = @ \/ (On(u, {"classifier"}) /\ u.classifier \in s),
     !.covered = @ \/ /\ On(u, {"luma_jump"})
                      /\ "occluded" \in s \ m.base]

Decision(reason, detail) == [reason |-> reason, detail |-> detail]

ASSUME DecisionAssumption ==
  \A reason \in {"call_timeout", "default_hold_abort"} :
    \A detail \in {Absent, "battle", "textbox", "menu", "fade", "blocked"} :
      Decision(reason, detail) # Absent

\* _eval_caller_until: what it decides, m being what it remembers now.
CallerStop(m, u, s) ==
  LET there == u.classifier \in s
  IN  CASE On(u, {"classifier"}) /\ u.polarity = "appears" /\ there ->
             Decision("classifier", u.classifier)
        [] On(u, {"classifier"}) /\ u.polarity = "disappears" /\ ~there
             /\ (m.seen \/ m.met) -> Decision("classifier", u.classifier)
        [] On(u, {"stable"}) /\ m.steady >= u.need -> Decision("stable", Absent)
        [] On(u, {"overworld"}) /\ m.steady >= u.need ->
             Decision("stable", "completed")
        [] On(u, {"blocked"}) /\ m.still >= u.need ->
             Decision("blocked", "blocked")
        [] On(u, {"luma_jump"}) /\ (\/ s \cap {"uniform", "jump"} # {}
                                    \/ m.covered /\ "occluded" \notin s) ->
             Decision("fade", "fade")
        [] OTHER -> Absent

Directional(p) == p.macro = "hold" /\ p.buttons \cap Directions # {}

\* _eval_default_hold_abort, apart from the blocked walker.
Takeover(m, s) ==
  LET new == s \ m.base
  IN  CASE "moved" \notin s -> Absent
        [] "moved" \in s /\ "battle" \in new /\ "field" \notin s -> "battle"
        [] /\ "moved" \in s
           /\ ~("battle" \in new /\ "field" \notin s)
           /\ "textbox" \in new -> "textbox"
        [] /\ "moved" \in s
           /\ ~("battle" \in new /\ "field" \notin s)
           /\ "textbox" \notin new /\ "menu" \in new -> "menu"
        [] OTHER ->
             IF s \cap {"uniform", "jump", "black"} # {} \/ "occluded" \in new
             THEN "fade" ELSE Absent

\* evaluate, for the n-th time: the new memory and the decision.
Evaluate(m, p, s, n) ==
  LET m1 == IF p.until = Absent THEN m ELSE Remember(m, p.until, s)
      caller == IF p.until = Absent THEN Absent ELSE CallerStop(m1, p.until, s)
      walks == p.abort /\ Takeover(m, s) = Absent /\ Directional(p)
      m2 == IF walks THEN [m1 EXCEPT !.still = StillCount(m1, s, n, FALSE)]
            ELSE m1
      abort == IF ~p.abort THEN Absent
               ELSE IF Takeover(m, s) # Absent
                    THEN Decision("default_hold_abort", Takeover(m, s))
               ELSE IF walks /\ m2.still >= DefaultStable
                    THEN Decision("default_hold_abort", "blocked")
               ELSE Absent
  IN  [memory |-> [m2 EXCEPT !.begun = TRUE],
       stop |-> IF caller # Absent THEN caller ELSE abort]

-----------------------------------------------------------------------------
(* ScreenshotPlan: a shot has the frame it is filed under, the flags of    *)
(* record, and the frame the image shows.                                  *)

Shot(n, interrupt, final, shows) ==
  [frame |-> n, interrupt |-> interrupt, final |-> final, shows |-> shows]

\* Python's round(n / d): a half goes to the even neighbour.
Round(n, d) ==
  LET q == n \div d
      r == 2 * (n % d)
  IN  IF r > d \/ (r = d /\ q % 2 = 1) THEN q + 1 ELSE q

Checkpoints(n) == {Most(1, Round(n * k, 4)) : k \in 1..4}

WantRender(p, n) ==
  p.mode = "keyframes" /\ p.planned > 0 /\ n \in Checkpoints(p.planned)

Distance(s, n) == IF s.frame < n THEN n - s.frame ELSE s.frame - n

\* The index of the shot nearest to frame n: the earlier frame, then the
\* earlier record, of two as near.
Closest(shots, n, from) ==
  CHOOSE i \in from : \A j \in from :
    \/ Distance(shots[i], n) < Distance(shots[j], n)
    \/ /\ Distance(shots[i], n) = Distance(shots[j], n)
       /\ \/ shots[i].frame < shots[j].frame
          \/ shots[i].frame = shots[j].frame /\ i <= j

\* _select_keyframes: the nearest shots to the quarters of what was played,
\* one of each frame, and the interrupt.
Keyframes(shots) ==
  LET last == CHOOSE n \in {s.frame : s \in ToSet(shots)} :
                \A s \in ToSet(shots) : s.frame <= n
      pick(picked, k) ==
        LET left == {i \in 1..Len(shots) :
                       \A j \in picked : shots[j].frame # shots[i].frame}
        IN  IF left = {} THEN picked
            ELSE picked \cup {Closest(shots, Most(1, Round(Most(1, last) * k, 4)), left)}
      quarters == FoldLeft(pick, {}, <<1, 2, 3, 4>>)
      first == {i \in 1..Len(shots) :
                  /\ shots[i].interrupt
                  /\ \A j \in 1..(i - 1) : ~shots[j].interrupt
                  /\ \A j \in quarters : shots[j].frame # shots[i].frame}
  IN  [i \in 1..Cardinality(quarters \cup first) |->
         shots[CHOOSE j \in quarters \cup first :
           Cardinality({k \in quarters \cup first :
                          shots[k].frame < shots[j].frame}) = i - 1]]

\* _even_indices: as many as may be kept, spread over the play.
Even(shots) ==
  [i \in 1..MaxShots |->
     shots[Round((i - 1) * (Len(shots) - 1), MaxShots - 1) + 1]]

\* _select: the shots that are packaged, in order.
Select(mode, shots) ==
  LET finals == SelectSeq(shots, LAMBDA s : s.final)
      final == IF finals = <<>> THEN Last(shots) ELSE Last(finals)
      stops == SelectSeq(shots, LAMBDA s : s.interrupt)
  IN  CASE shots = <<>> -> <<>>
        [] shots # <<>> /\ mode = "keyframes" -> Keyframes(shots)
        [] shots # <<>> /\ mode = "all" ->
             IF Len(shots) > MaxShots THEN Even(shots) ELSE shots
        [] shots # <<>> /\ mode = "interrupt_and_final" ->
             IF stops = <<>> THEN <<final>>
             ELSE IF Head(stops).frame = final.frame THEN <<Head(stops)>>
             ELSE IF Head(stops).frame < final.frame
                  THEN <<Head(stops), final>>
             ELSE <<final, Head(stops)>>
        [] OTHER -> <<final>>
=============================================================================
