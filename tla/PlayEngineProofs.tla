--------------------------- MODULE PlayEngineProofs ---------------------------
(***************************************************************************)
(* Invariants of the engine in PlayCommand.  Whatever command runs, a step *)
(* leaves the engine alone, ends a play, starts an accepted one or is a    *)
(* step of the engine (EngineMoves); every invariant of a single play      *)
(* follows from that, whichever intent or call the play belongs to.        *)
(***************************************************************************)
EXTENDS PlayCommandInv, PlayInputProofs, FiniteSetTheorems

\* The steps of a call, as the engine sees them.
Move ==
  \/ UNCHANGED engine
  \/ Forget
  \/ \E p : Acceptable(p) /\ Start(Parse(p))
  \/ label = "play" /\ Start(Rewritten(guest))
  \/ Engine

LEMMA RunMoves ==
  ASSUME NEW p, NEW next, Run(p, next)
  PROVE  Move
BY DEF Run, Goto, Move

LEMMA EngineMoves ==
  ASSUME [Next]_vars
  PROVE  Move
<1>1. CASE UNCHANGED vars
  BY <1>1 DEF vars, Move
<1>2. ASSUME NEW r \in Calls, Call(r)
      PROVE  Move
  BY <1>2 DEF Call, Move
<1>3. CASE Receive \/ Reply
  BY <1>3 DEF Receive, Reply, Move
<1>4. CASE RunPlay
  BY <1>4 DEF RunPlay, Move
<1>5. CASE LastPlay \/ Fail
  BY <1>5 DEF LastPlay, Fail, Goto, Move
<1>6. CASE Engine /\ UNCHANGED <<label, command, counts>>
  BY <1>6 DEF Move
<1>7. CASE Intent
  <2>1. CASE \/ AdvanceStart \/ AdvanceOpened \/ Advance \/ AdvanceMashed
             \/ AdvanceLooked
    BY <2>1, RunMoves DEF AdvanceStart, AdvanceOpened, Advance, AdvanceMashed,
         AdvanceLooked, Goto, Move
  <2>2. CASE \/ FleeStart \/ Flee \/ FleeCleared \/ FleeBacked \/ FleePane
             \/ FleeChosen \/ FleeEnd
    BY <2>2, RunMoves DEF FleeStart, Flee, FleeCleared, FleeBacked, FleePane,
         FleeChosen, FleeEnd, Goto, Move
  <2>3. CASE TurnStart \/ Turn \/ TurnActed \/ Settle \/ Settling
    BY <2>3, RunMoves DEF TurnStart, Turn, TurnActed, Settle, Settling,
         TurnEnds, Goto, Move
  <2>4. CASE UntilOverworld \/ Skip \/ SkipPulsed \/ Door \/ DoorEntered
    BY <2>4, RunMoves DEF UntilOverworld, Skip, SkipPulsed, Door, DoorEntered,
         Goto, Move
  <2> QED
    BY <1>7, <2>1, <2>2, <2>3, <2>4 DEF Intent
<1> QED
  BY <1>1, <1>2, <1>3, <1>4, <1>5, <1>6, <1>7 DEF Next, Work

-----------------------------------------------------------------------------
(* The phases of a play                                                    *)

\* The frames of phases are their sum.
LEMMA FramesSum ==
  ASSUME NEW q, NEW n \in Nat, DOMAIN q = 1..n, NEW P,
         Sums(P, [i \in 1..n |-> q[i].frames], n),
         \A i \in 1..n : q[i].frames \in Nat
  PROVE  FramesIn(q) = P[n]
<1> DEFINE w == [i \in 1..n |-> q[i].frames]
           Is(f) == f = [s \in SUBSET (1..n) |->
                          IF s = {} THEN 0
                          ELSE f[s \ {Max(s)}] + q[Max(s)].frames]
<1>1. \A i \in 1..n : w[i] \in Nat
  OBVIOUS
<1>2. \E f : Is(f)
  <2>1. PICK f : Adds(f, w, n)
    BY <1>1, AddsExists
  <2>2. ASSUME NEW s \in SUBSET (1..n), s # {}
        PROVE  f[s] = f[s \ {Max(s)}] + q[Max(s)].frames
    <3>1. Max(s) \in 1..n
      BY <2>2, MaxIn
    <3>2. f[s] = f[s \ {Max(s)}] + w[Max(s)] /\ f[s \ {Max(s)}] \in Nat
      BY <2>1, <2>2 DEF Adds
    <3> QED
      BY <3>1, <3>2
  <2>3. f = [s \in SUBSET (1..n) |-> f[s]] /\ f[{}] = 0
    BY <2>1 DEF Adds
  <2> QED
    BY <2>2, <2>3
<1>3. PICK f : Is(f) /\ FramesIn(q) = f[1..n]
  <2> DEFINE g == CHOOSE f : Is(f)
  <2>1. Is(g)
    BY <1>2
  <2>2. FramesIn(q) = g[1..n]
    BY DEF FramesIn, FoldLeft, MapThenFoldSet
  <2> QED
    BY <2>1, <2>2
<1>4. f[{}] = 0
  BY <1>3
<1>5. ASSUME NEW i \in 1..n, f[1..(i - 1)] \in Nat
      PROVE  f[1..i] = f[1..(i - 1)] + w[i]
  <2>1. 1..i \in SUBSET (1..n) /\ 1..i # {}
    <3>1. i \in 1..i /\ i \in Nat /\ i <= n
      OBVIOUS
    <3>2. \A k \in 1..i : k \in 1..n
      BY <3>1
    <3> QED
      BY <3>1, <3>2
  <2>2. f[1..i] = f[(1..i) \ {Max(1..i)}] + q[Max(1..i)].frames
    BY <1>3, <2>1
  <2>3. Max(1..i) = i /\ (1..i) \ {i} = 1..(i - 1)
    BY MaxOfRange
  <2>4. f[1..i] = f[1..(i - 1)] + q[i].frames
    BY <2>2, <2>3
  <2> QED
    BY <1>5, <2>4
<1> HIDE DEF w
<1>6. f[1..n] = P[n]
  BY <1>4, <1>5, FoldIsSum DEF w
<1> QED
  BY <1>3, <1>6

LEMMA FramesBefore ==
  ASSUME NEW q, NEW n \in Nat, DOMAIN q = 1..n, NEW P,
         Sums(P, [i \in 1..n |-> q[i].frames], n),
         \A i \in 1..n : q[i].frames \in Nat,
         NEW i \in 1..n
  PROVE  FramesIn(SubSeq(q, 1, i - 1)) = P[i - 1]
<1> DEFINE k == i - 1
           r == SubSeq(q, 1, k)
           S == {q[j] : j \in 1..n}
           R == [j \in 0..k |-> P[j]]
<1>1. k \in Nat /\ k <= n /\ k \in 0..n
  OBVIOUS
<1>2. \A j \in 1..k : q[j] \in S
  BY <1>1
<1> HIDE DEF k
<1>3. r \in Seq(S) /\ Len(r) = k /\ \A j \in 1..k : r[j] = q[j]
  <2>1. /\ r \in Seq(S) /\ Len(r) = IF 1 <= k THEN k - 1 + 1 ELSE 0
        /\ \A j \in 1..(k - 1 + 1) : r[j] = q[1 + j - 1]
    <3> HIDE DEF S
    <3> QED BY <1>1, <1>2, SubSeqProperties
  <2> QED BY <1>1, <2>1
<1> HIDE DEF r
<1>4. DOMAIN r = 1..k /\ \A j \in 1..k : r[j].frames \in Nat
  BY <1>1, <1>3
<1>5. Sums(R, [j \in 1..k |-> r[j].frames], k)
  <2> DEFINE w == [j \in 1..n |-> q[j].frames]
             v == [j \in 1..k |-> r[j].frames]
  <2>1. Sums(P, w, n) /\ \A j \in 1..k : v[j] = w[j]
    BY <1>1, <1>3
  <2>2. R = [j \in 0..k |-> P[j]]
    OBVIOUS
  <2> HIDE DEF w, v, R
  <2>3. Sums(R, v, k)
    BY <1>1, <2>1, <2>2 DEF Sums
  <2> QED BY <2>3 DEF v
<1>6. FramesIn(r) = R[k]
  BY <1>1, <1>4, <1>5, FramesSum
<1> QED
  BY <1>1, <1>6 DEF k, r

\* R has the frames at which the m phases of q end; every phase takes at least
\* one, and its buttons are what p asks for on its frames.
Timed(q, m, R) ==
  /\ q = [i \in 1..m |-> q[i]]
  /\ R \in [0..m -> Nat] /\ R[0] = 0
  /\ \A i \in 1..m : /\ {"frames", "buttons"} \subseteq DOMAIN q[i]
                     /\ q[i].frames \in Nat \ {0}
                     /\ R[i] = R[i - 1] + q[i].frames

Covers(q, m, R, p) ==
  /\ Timed(q, m, R)
  /\ \A i \in 1..m : \A n \in (R[i - 1] + 1)..R[i] : q[i].buttons = Asked(p, n)

LEMMA TimedSums ==
  ASSUME NEW q, NEW m \in Nat, NEW R, Timed(q, m, R)
  PROVE  /\ Sums(R, [i \in 1..m |-> q[i].frames], m)
         /\ DOMAIN q = 1..m /\ Len(q) = m
         /\ FramesIn(q) = R[m]
         /\ \A i \in 1..m : FramesIn(SubSeq(q, 1, i - 1)) = R[i - 1]
         /\ \A i, j \in 0..m : i <= j => R[i] <= R[j] /\ R[j] >= R[i] + (j - i)
<1> DEFINE w == [i \in 1..m |-> q[i].frames]
<1>1. /\ \A i \in 1..m : w[i] \in Nat /\ w[i] >= 1 /\ q[i].frames \in Nat
      /\ DOMAIN q = 1..m
  BY DEF Timed
<1>2. Sums(R, w, m)
  BY DEF Sums, Timed
<1>3. Len(q) = m
  BY <1>1 DEF Timed
<1>4. FramesIn(q) = R[m]
  BY <1>1, <1>2, FramesSum
<1>5. \A i \in 1..m : FramesIn(SubSeq(q, 1, i - 1)) = R[i - 1]
  BY <1>1, <1>2, FramesBefore
<1>6. ASSUME NEW i \in 0..m, NEW j \in 0..m, i <= j
      PROVE  R[i] <= R[j] /\ R[j] >= R[i] + (j - i)
  <2>1. j \in i..m
    BY <1>6
  <2> HIDE DEF w
  <2> QED BY <1>1, <1>2, <2>1, SumsRise
<1> QED
  BY <1>1, <1>2, <1>3, <1>4, <1>5, <1>6

\* What is cut to a budget covers the play as far as the budget reaches.
LEMMA CutCovers ==
  ASSUME NEW q, NEW m \in Nat \ {0}, NEW R, NEW p, Covers(q, m, R, p),
         NEW budget \in Nat \ {0}
  PROVE  \E c \in Nat \ {0} : \E Q :
           /\ Covers(Cut(q, budget), c, Q, p)
           /\ Q[c] = Least(R[m], budget)
<1> DEFINE before(i) == FramesIn(SubSeq(q, 1, i - 1))
           begun == {i \in 1..Len(q) : before(i) < budget}
           c == Max(begun)
           Q == [i \in 0..c |-> Least(R[i], budget)]
           cut == Cut(q, budget)
<1>1. /\ DOMAIN q = 1..m /\ Len(q) = m
      /\ \A i \in 1..m : before(i) = R[i - 1]
      /\ \A i, j \in 0..m : i <= j => R[i] <= R[j] /\ R[j] >= R[i] + (j - i)
  BY TimedSums DEF Covers
<1>2. /\ R \in [0..m -> Nat] /\ R[0] = 0
      /\ \A i \in 1..m : q[i].frames \in Nat \ {0} /\ R[i] = R[i - 1] + q[i].frames
  BY DEF Covers, Timed
<1>3. begun = {i \in 1..m : R[i - 1] < budget}
  BY <1>1
<1> HIDE DEF begun, before
<1>4. /\ c \in 1..m /\ R[c - 1] < budget
      /\ \A i \in 1..m : R[i - 1] < budget => i <= c
  <2>1. 1 \in begun
    <3>1. R[1 - 1] = 0
      BY <1>2
    <3> QED BY <1>3, <3>1
  <2>2. begun \subseteq 1..m /\ begun # {}
    BY <1>3, <2>1
  <2>3. c \in begun /\ \A i \in begun : c >= i
    BY <2>2, MaxIn
  <2>4. c \in 1..m /\ R[c - 1] < budget
    BY <1>3, <2>3
  <2> HIDE DEF c
  <2>5. ASSUME NEW i \in 1..m, R[i - 1] < budget
        PROVE  i <= c
    <3>1. i \in begun
      BY <1>3, <2>5
    <3> QED BY <2>3, <2>4, <3>1
  <2> QED BY <2>4, <2>5
<1> HIDE DEF c
<1>5. begun = 1..c
  <2>1. ASSUME NEW i \in 1..c
        PROVE  i \in begun
    <3>1. i \in 1..m /\ i - 1 \in 0..m /\ c - 1 \in 0..m /\ i - 1 <= c - 1
      BY <1>4
    <3>2. R[i - 1] <= R[c - 1] /\ R[i - 1] \in Nat /\ R[c - 1] \in Nat
      BY <1>1, <1>2, <3>1
    <3> QED BY <1>3, <1>4, <3>1, <3>2
  <2>2. ASSUME NEW i \in begun
        PROVE  i \in 1..c
    BY <1>3, <1>4
  <2> QED BY <2>1, <2>2
<1>6. Cardinality(begun) = c
  BY <1>4, <1>5, FS_Interval
<1>7. cut = [i \in 1..c |-> [q[i] EXCEPT !.frames = Least(@, budget - before(i))]]
  BY <1>6 DEF Cut, begun, before
<1>8. \A i \in 1..c : /\ cut[i] = [q[i] EXCEPT !.frames = Least(@, budget - R[i - 1])]
                      /\ R[i - 1] < budget
  BY <1>1, <1>3, <1>4, <1>5, <1>7
<1>d. cut = [i \in 1..c |-> cut[i]]
  BY <1>7
<1> HIDE DEF cut
<1>r. /\ \A i \in 0..m : R[i] \in Nat
      /\ \A i \in 1..c : i \in 1..m /\ i - 1 \in 0..m /\ i \in 0..m
  BY <1>2, <1>4
<1>9. \A i \in 1..m : {"frames", "buttons"} \subseteq DOMAIN q[i]
  BY DEF Covers, Timed
<1>10. ASSUME NEW i \in 1..c
       PROVE  /\ cut[i].frames = Least(q[i].frames, budget - R[i - 1])
              /\ cut[i].buttons = q[i].buttons
              /\ {"frames", "buttons"} \subseteq DOMAIN cut[i]
  <2>1. i \in 1..m
    BY <1>r
  <2> QED BY <1>8, <1>9, <2>1
<1>11. Q \in [0..c -> Nat] /\ Q[0] = 0
  <2>1. ASSUME NEW i \in 0..c PROVE Least(R[i], budget) \in Nat
    <3>1. i \in 0..m
      BY <1>4
    <3>2. R[i] \in Nat
      BY <1>r, <3>1
    <3> QED BY <3>2 DEF Least
  <2>2. Least(R[0], budget) = 0 /\ 0 \in 0..c
    BY <1>2, <1>4 DEF Least
  <2> QED BY <2>1, <2>2
<1>12. ASSUME NEW i \in 1..c
       PROVE  /\ cut[i].frames \in Nat \ {0}
              /\ Q[i] = Q[i - 1] + cut[i].frames
              /\ Q[i - 1] = R[i - 1] /\ Q[i] <= R[i]
  <2>1. Q[i - 1] = Least(R[i - 1], budget) /\ Q[i] = Least(R[i], budget)
    BY <1>4
  <2>2. /\ q[i].frames \in Nat \ {0} /\ R[i] = R[i - 1] + q[i].frames
        /\ R[i - 1] \in Nat /\ R[i] \in Nat /\ R[i - 1] < budget
        /\ cut[i].frames = Least(q[i].frames, budget - R[i - 1])
    BY <1>2, <1>r, <1>8, <1>10
  <2> HIDE DEF Q
  <2> QED
    BY <2>1, <2>2 DEF Least
<1>13. ASSUME NEW i \in 1..c, NEW n \in (Q[i - 1] + 1)..Q[i]
       PROVE  cut[i].buttons = Asked(p, n)
  <2>1. n \in (R[i - 1] + 1)..R[i] /\ i \in 1..m
    <3>1. /\ Q[i - 1] = R[i - 1] /\ Q[i] <= R[i] /\ Q[i] \in Nat
          /\ i \in 1..m /\ R[i - 1] \in Nat /\ R[i] \in Nat
      <4>1. i \in 0..c
        BY <1>4
      <4>2. Q[i] \in Nat
        <5> HIDE DEF Q
        <5> QED BY <1>11, <4>1
      <4>3. Q[i - 1] = R[i - 1] /\ Q[i] <= R[i]
        BY <1>12
      <4> QED BY <1>r, <4>2, <4>3
    <3> HIDE DEF Q
    <3> QED BY <3>1
  <2> QED BY <1>10, <2>1 DEF Covers
<1>14. Q[c] = Least(R[m], budget)
  <2>1. Q[c] = Least(R[c], budget)
    BY <1>4
  <2>2. CASE c = m
    BY <2>1, <2>2
  <2>3. CASE c # m
    <3>1. c + 1 \in 1..m /\ c \in 0..m /\ (c + 1) - 1 = c
      BY <1>4, <2>3
    <3>2. ~(R[c] < budget)
      BY <1>4, <3>1
    <3>3. R[c] <= R[m] /\ R[c] \in Nat /\ R[m] \in Nat
      <4>1. m \in 0..m /\ c <= m
        BY <1>4
      <4> QED BY <1>1, <1>r, <3>1, <4>1
    <3> QED BY <2>1, <3>2, <3>3 DEF Least
  <2> QED BY <2>2, <2>3
<1> HIDE DEF Q
<1>15. Covers(cut, c, Q, p)
  BY <1>d, <1>10, <1>11, <1>12, <1>13 DEF Covers, Timed
<1> QED
  BY <1>4, <1>14, <1>15 DEF cut

\* q covers p to frame k.
CoversTo(q, k, p) == \E m \in Nat : \E R : Covers(q, m, R, p) /\ R[m] = k

\* One phase more.
LEMMA AppendCovers ==
  ASSUME NEW q, NEW p, NEW k, CoversTo(q, k, p),
         NEW b, NEW n \in Nat \ {0}, NEW report, NEW e, e = k + n,
         \A t \in (k + 1)..e : b = Asked(p, t)
  PROVE  CoversTo(q \o <<Phase(b, n, report)>>, e, p)
<1>0m. PICK m \in Nat : \E R : Covers(q, m, R, p) /\ R[m] = k
  BY DEF CoversTo
<1>0. PICK R : Covers(q, m, R, p) /\ R[m] = k
  BY <1>0m
<1> DEFINE x == Phase(b, n, report)
           r == q \o <<x>>
           Q == [i \in 0..(m + 1) |-> IF i <= m THEN R[i] ELSE e]
           S == {q[i] : i \in 1..m} \cup {x}
<1>1. /\ q = [i \in 1..m |-> q[i]] /\ R \in [0..m -> Nat] /\ R[0] = 0
      /\ \A i \in 1..m : /\ {"frames", "buttons"} \subseteq DOMAIN q[i]
                         /\ q[i].frames \in Nat \ {0}
                         /\ R[i] = R[i - 1] + q[i].frames
      /\ \A i \in 1..m : \A t \in (R[i - 1] + 1)..R[i] : q[i].buttons = Asked(p, t)
  BY <1>0 DEF Covers, Timed
<1>2. x.buttons = b /\ x.frames = n /\ {"frames", "buttons"} \subseteq DOMAIN x
  BY DEF Phase
<1> HIDE DEF x
<1>3. q \in Seq(S) /\ <<x>> \in Seq(S) /\ Len(q) = m /\ Len(<<x>>) = 1
  <2>1. \A i \in 1..m : q[i] \in S
    OBVIOUS
  <2>2. x \in S
    OBVIOUS
  <2> HIDE DEF S
  <2>3. q \in [1..m -> S]
    BY <1>1, <2>1
  <2> QED BY <2>2, <2>3
<1>4. /\ r \in Seq(S) /\ Len(r) = m + 1
      /\ \A i \in 1..(m + 1) : r[i] = IF i <= m THEN q[i] ELSE x
  <2> HIDE DEF S
  <2>1. /\ r \in Seq(S) /\ Len(r) = m + 1
        /\ \A i \in 1..(m + 1) : r[i] = IF i <= m THEN q[i] ELSE <<x>>[i - m]
    BY <1>3, ConcatProperties
  <2>2. \A i \in 1..(m + 1) : ~(i <= m) => i - m = 1
    OBVIOUS
  <2> QED BY <2>1, <2>2
<1>5. r = [i \in 1..(m + 1) |-> r[i]]
  <2> HIDE DEF S, r
  <2> QED BY <1>4
<1>6. /\ Q \in [0..(m + 1) -> Nat] /\ Q[0] = 0 /\ Q[m + 1] = e
      /\ \A i \in 0..m : Q[i] = R[i]
  BY <1>0, <1>1
<1> HIDE DEF r, Q
<1>7. ASSUME NEW i \in 1..(m + 1)
      PROVE  /\ {"frames", "buttons"} \subseteq DOMAIN r[i]
             /\ r[i].frames \in Nat \ {0} /\ Q[i] = Q[i - 1] + r[i].frames
             /\ \A t \in (Q[i - 1] + 1)..Q[i] : r[i].buttons = Asked(p, t)
  <2>1. CASE i \in 1..m
    <3>1. i \in 0..m /\ i - 1 \in 0..m /\ i <= m
      BY <2>1
    <3>2. Q[i] = R[i] /\ Q[i - 1] = R[i - 1] /\ r[i] = q[i]
      BY <1>4, <1>6, <3>1
    <3> QED BY <1>1, <2>1, <3>2
  <2>2. CASE i = m + 1
    <3>1. i - 1 = m /\ m \in 0..m /\ ~(i <= m)
      BY <2>2
    <3>2. r[i] = x /\ Q[i - 1] = R[m] /\ Q[i] = e
      BY <1>4, <1>6, <2>2, <3>1
    <3>3. Q[i - 1] = k /\ Q[i] = k + n /\ k \in Nat
      BY <1>0, <1>1, <3>2
    <3> QED BY <1>2, <3>2, <3>3
  <2> QED BY <2>1, <2>2
<1>8. Covers(r, m + 1, Q, p)
  BY <1>5, <1>6, <1>7 DEF Covers, Timed
<1> QED
  BY <1>6, <1>8 DEF r, x, CoversTo

\* A quotient and a remainder determine the number.
LEMMA Remainder ==
  ASSUME NEW c \in Nat \ {0}, NEW k \in Nat, NEW r \in 0..(c - 1)
  PROVE  (k * c + r) % c = r
<1> DEFINE n == k * c + r
           a == n \div c
           b == n % c
<1>1. n \in Nat
  OBVIOUS
<1>2. a \in Nat /\ b \in 0..(c - 1) /\ n = c * a + b
  <2> HIDE DEF n
  <2> QED BY <1>1
<1>3. c * a + b = c * k + r
  BY <1>2
<1> HIDE DEF a, b
<1>4. a = k
  <2>1. CASE a >= k + 1
    <3>1. c * a >= c * (k + 1) /\ c * (k + 1) = c * k + c
      BY <1>2, <2>1
    <3> QED BY <1>2, <1>3, <3>1
  <2>2. CASE a + 1 <= k
    <3>1. c * k >= c * (a + 1) /\ c * (a + 1) = c * a + c
      BY <1>2, <2>2
    <3> QED BY <1>2, <1>3, <3>1
  <2> QED BY <1>2, <2>1, <2>2
<1>5. b = r
  BY <1>2, <1>3, <1>4
<1> QED
  BY <1>5 DEF b

\* The phases of a mash.
LEMMA MashCovers ==
  ASSUME NEW p, p.macro = "mash", NEW press \in Nat \ {0},
         NEW release \in Nat \ {0}, p.press = press, p.release = release,
         NEW max \in Nat \ {0}, NEW q,
         q = [i \in 1..(2 * max) |->
                IF i % 2 = 1 THEN Phase({"a"}, press, TRUE)
                ELSE Phase({}, release, TRUE)]
  PROVE  \E R : Covers(q, 2 * max, R, p) /\ R[2 * max] >= max
<1> DEFINE c == press + release
           R == [i \in 0..(2 * max) |->
                   IF i % 2 = 1 THEN (i \div 2) * c + press ELSE (i \div 2) * c]
<1>1. \A t \in Nat \ {0} :
        Asked(p, t) = IF (t - 1) % c < press THEN {"a"} ELSE {}
  BY DEF Asked
<1>2. c \in Nat \ {0} /\ press \in 0..c /\ c = press + release
  OBVIOUS
<1>3. R \in [0..(2 * max) -> Nat] /\ R[0] = 0
  <2>1. ASSUME NEW i \in 0..(2 * max)
        PROVE  (IF i % 2 = 1 THEN (i \div 2) * c + press ELSE (i \div 2) * c) \in Nat
    <3> DEFINE k == i \div 2
    <3>1. k \in Nat
      OBVIOUS
    <3> HIDE DEF k, c
    <3>2. k * c \in Nat
      BY <1>2, <3>1
    <3> QED BY <3>2 DEF k
  <2>2. 0 \in 0..(2 * max) /\ 0 % 2 = 0 /\ 0 \div 2 = 0
    OBVIOUS
  <2>3. R[0] = 0 * c /\ 0 * c = 0
    <3>1. R[0] = 0 * c
      BY <2>2
    <3> QED BY <1>2, <3>1
  <2> QED BY <2>1, <2>3
<1>4. ASSUME NEW i \in 1..(2 * max)
      PROVE  /\ {"frames", "buttons"} \subseteq DOMAIN q[i]
             /\ q[i].frames \in Nat \ {0} /\ R[i] = R[i - 1] + q[i].frames
             /\ \A t \in (R[i - 1] + 1)..R[i] : q[i].buttons = Asked(p, t)
  <2> DEFINE k == i \div 2
  <2>1. k \in Nat /\ i - 1 \in 0..(2 * max) /\ i \in 0..(2 * max)
    OBVIOUS
  <2>2. CASE i % 2 = 1
    <3>1. i = 2 * k + 1
      BY <2>2
    <3>2. (i - 1) \div 2 = k /\ (i - 1) % 2 = 0
      BY <3>1
    <3>3. R[i] = k * c + press /\ R[i - 1] = k * c /\ k * c \in Nat
      BY <2>1, <2>2, <3>2
    <3>4. q[i].buttons = {"a"} /\ q[i].frames = press
          /\ {"frames", "buttons"} \subseteq DOMAIN q[i]
      <4>1. q[i] = Phase({"a"}, press, TRUE)
        BY <2>2
      <4> QED BY <4>1 DEF Phase
    <3> HIDE DEF R, k
    <3>5. ASSUME NEW t \in (k * c + 1)..(k * c + press)
          PROVE  Asked(p, t) = {"a"}
      <4> DEFINE r == t - 1 - k * c
      <4> HIDE DEF c
      <4>1. r \in 0..(c - 1) /\ r < press /\ t - 1 = k * c + r /\ t \in Nat \ {0}
        BY <1>2, <2>1, <3>3
      <4> HIDE DEF r
      <4>2. (k * c + r) % c = r
        BY <1>2, <2>1, <4>1, Remainder
      <4> QED BY <1>1, <4>1, <4>2
    <3>6. k * c + press \in Nat
      BY <3>3
    <3> QED BY <3>3, <3>4, <3>5, <3>6
  <2>3. CASE i % 2 = 0
    <3> DEFINE l == k - 1
    <3>1. i = 2 * k /\ k >= 1
      BY <2>3
    <3>2. (i - 1) \div 2 = l /\ (i - 1) % 2 = 1 /\ l \in Nat
      BY <3>1
    <3>3. /\ R[i] = k * c /\ R[i - 1] = l * c + press
          /\ k * c = l * c + c /\ l * c \in Nat
      BY <2>1, <2>3, <3>1, <3>2
    <3>4. q[i].buttons = {} /\ q[i].frames = release
          /\ {"frames", "buttons"} \subseteq DOMAIN q[i]
      <4>1. i % 2 # 1
        BY <2>3
      <4>2. q[i] = Phase({}, release, TRUE)
        BY <4>1
      <4> QED BY <4>2 DEF Phase
    <3>6. l * c + press + release = k * c
      BY <3>3
    <3> HIDE DEF R, k, l
    <3>5. ASSUME NEW t \in (l * c + press + 1)..(l * c + c)
          PROVE  Asked(p, t) = {}
      <4> DEFINE r == t - 1 - l * c
      <4> HIDE DEF c
      <4>1. r \in 0..(c - 1) /\ ~(r < press) /\ t - 1 = l * c + r /\ t \in Nat \ {0}
        BY <1>2, <3>2, <3>3
      <4> HIDE DEF r
      <4>2. (l * c + r) % c = r
        <5>1. l \in Nat
          BY <3>2
        <5> QED BY <1>2, <4>1, <5>1, Remainder
      <4> QED BY <1>1, <4>1, <4>2
    <3>7. \A t \in (R[i - 1] + 1)..R[i] : Asked(p, t) = {}
      BY <3>3, <3>5
    <3>8. R[i] = R[i - 1] + release
      BY <3>3, <3>6
    <3> QED BY <3>4, <3>7, <3>8
  <2>4. i % 2 \in {0, 1}
    OBVIOUS
  <2> QED BY <2>2, <2>3, <2>4
<1>5. R[2 * max] = max * c /\ max * c >= max
  <2>1. (2 * max) \div 2 = max /\ (2 * max) % 2 = 0
    OBVIOUS
  <2>2. R[2 * max] = max * c
    BY <2>1
  <2>3. max * c >= max * 1
    <3> HIDE DEF c
    <3> QED BY <1>2
  <2> QED BY <2>2, <2>3
<1>6. q = [i \in 1..(2 * max) |-> q[i]]
  OBVIOUS
<1> HIDE DEF R
<1>7. Covers(q, 2 * max, R, p)
  BY <1>3, <1>4, <1>6 DEF Covers, Timed
<1> QED
  BY <1>5, <1>7

\* A hold is one phase.
LEMMA HoldCovers ==
  ASSUME NEW p, p.macro = "hold", p.max \in Nat \ {0}
  PROVE  \E R : /\ Covers(<<Phase(p.buttons, p.max, TRUE)>>, 1, R, p)
                /\ R[1] = p.max
<1> DEFINE R == [i \in 0..1 |-> IF i = 0 THEN 0 ELSE p.max]
           q == <<Phase(p.buttons, p.max, TRUE)>>
<1>1. R \in [0..1 -> Nat] /\ R[0] = 0 /\ R[1] = p.max
  OBVIOUS
<1>2. q = [i \in 1..1 |-> q[i]] /\ \A i \in 1..1 : i = 1 /\ i - 1 = 0
  OBVIOUS
<1>3. /\ q[1].buttons = p.buttons /\ q[1].frames = p.max
      /\ {"frames", "buttons"} \subseteq DOMAIN q[1]
  BY DEF Phase
<1>4. \A t : Asked(p, t) = p.buttons
  BY DEF Asked
<1> HIDE DEF R, q
<1>5. Covers(q, 1, R, p)
  BY <1>1, <1>2, <1>3, <1>4 DEF Covers, Timed
<1> QED
  BY <1>1, <1>5 DEF q

\* What a script asks for on the frames of its j-th step.
LEMMA StepAsks ==
  ASSUME NEW p, p.macro \notin {"mash", "hold"}, Scripted(p.steps),
         NEW P, StepSums(P, p.steps, Len(p.steps)), NEW j \in 1..Len(p.steps)
  PROVE  LET s == p.steps[j]
             mid == P[j - 1] + s.hold
         IN  /\ P[j - 1] \in Nat /\ P[j] = mid + s.gap
             /\ \A t \in (P[j - 1] + 1)..mid : Asked(p, t) = s.buttons
             /\ \A t \in (mid + 1)..P[j] : Asked(p, t) = {}
<1> DEFINE n == Len(p.steps)
           s == p.steps[j]
           mid == P[j - 1] + s.hold
           w == [i \in 1..n |-> p.steps[i].hold + p.steps[i].gap]
           before(i) == Planned(SubSeq(p.steps, 1, i - 1))
           held(t) == {i \in 1..n : t \in (before(i) + 1)..(before(i) + p.steps[i].hold)}
<1>1. /\ n \in Nat \ {0} /\ DOMAIN p.steps = 1..n
      /\ \A i \in 1..n : p.steps[i].hold \in Nat \ {0} /\ p.steps[i].gap \in Nat
  BY DEF Scripted
<1>2. Sums(P, w, n)
  BY DEF StepSums
<1>3. \A i \in 1..n : before(i) = P[i - 1]
  <2> DEFINE q == p.steps
  <2>1. StepSums(P, q, n)
    OBVIOUS
  <2> HIDE DEF n, q
  <2>2. \A i \in 1..n : Planned(SubSeq(q, 1, i - 1)) = P[i - 1]
    BY <2>1, PlannedBefore
  <2> QED BY <2>2 DEF q
<1>4. \A t : Asked(p, t) = UNION {p.steps[i].buttons : i \in held(t)}
  BY DEF Asked
<1>5. /\ \A i \in 0..n : P[i] \in Nat
      /\ \A i \in 1..n : P[i] = P[i - 1] + (p.steps[i].hold + p.steps[i].gap)
  BY <1>2 DEF Sums
<1>6. \A a, b \in 0..n : a <= b => P[a] <= P[b]
  <2> SUFFICES ASSUME NEW a \in 0..n, NEW b \in 0..n, a <= b
               PROVE  P[a] <= P[b]
    OBVIOUS
  <2>1. b \in a..n /\ \A i \in 1..n : w[i] \in Nat
    BY <1>1
  <2> HIDE DEF w, n
  <2> QED BY <1>1, <1>2, <2>1, SumsRise
<1> HIDE DEF before, w, n
<1>7. \A i \in 1..n : /\ i \in 0..n /\ i - 1 \in 0..n
                      /\ P[i - 1] \in Nat /\ P[i] \in Nat
  BY <1>1, <1>5
<1>8. /\ j \in 1..n /\ P[j - 1] \in Nat /\ P[j] = mid + s.gap
      /\ s.hold \in Nat \ {0} /\ s.gap \in Nat
  BY <1>1, <1>5, <1>7 DEF n
<1>9. ASSUME NEW t \in (P[j - 1] + 1)..P[j]
      PROVE  held(t) = IF t <= mid THEN {j} ELSE {}
  <2>1. ASSUME NEW i \in 1..n, i # j
        PROVE  ~(t \in (before(i) + 1)..(before(i) + p.steps[i].hold))
    <3> DEFINE h == p.steps[i].hold
               g == p.steps[i].gap
    <3>3. h \in Nat /\ g \in Nat /\ P[i] = P[i - 1] + (h + g)
      BY <1>1, <1>5
    <3> HIDE DEF h, g
    <3>4. P[i - 1] \in Nat /\ P[i] \in Nat /\ i \in 0..n /\ i - 1 \in 0..n
      BY <1>7
    <3>5. j \in 0..n /\ j - 1 \in 0..n
      BY <1>7, <1>8
    <3>6. t \in Nat /\ t > P[j - 1] /\ t <= P[j] /\ P[j] \in Nat
      BY <1>7, <1>8
    <3>7. before(i) = P[i - 1] /\ i \in Nat /\ j \in Nat
      BY <1>1, <1>3, <1>8
    <3>1. CASE i < j
      <4>1. i <= j - 1
        BY <3>1, <3>7
      <4>2. P[i] <= P[j - 1]
        BY <1>6, <3>4, <3>5, <4>1
      <4>3. P[j - 1] \in Nat
        BY <1>8
      <4>4. t > P[i - 1] + h
        BY <3>3, <3>4, <3>6, <4>2, <4>3
      <4>5. ~(t \in (before(i) + 1)..(before(i) + h))
        BY <3>3, <3>4, <3>6, <3>7, <4>4
      <4> QED BY <4>5 DEF h
    <3>2. CASE j < i
      <4>1. j <= i - 1
        BY <3>2, <3>7
      <4>2. P[j] <= P[i - 1]
        BY <1>6, <3>4, <3>5, <4>1
      <4> QED BY <3>4, <3>6, <3>7, <4>2
    <3> QED BY <2>1, <3>1, <3>2, <3>7
  <2>2. j \in held(t) <=> t <= mid
    <3>1. before(j) = P[j - 1]
      BY <1>3, <1>8
    <3> QED BY <1>8, <3>1
  <2>3. held(t) \subseteq {j}
    BY <2>1
  <2> HIDE DEF held
  <2> QED BY <2>2, <2>3
<1> HIDE DEF held
<1>10. ASSUME NEW t \in (P[j - 1] + 1)..mid
       PROVE  Asked(p, t) = s.buttons
  <2>1. t \in (P[j - 1] + 1)..P[j] /\ t <= mid
    BY <1>8
  <2>2. held(t) = {j}
    BY <1>9, <2>1
  <2>3. UNION {p.steps[i].buttons : i \in {j}} = p.steps[j].buttons
    OBVIOUS
  <2> QED BY <1>4, <2>2, <2>3
<1>11. ASSUME NEW t \in (mid + 1)..P[j]
       PROVE  Asked(p, t) = {}
  <2>1. t \in (P[j - 1] + 1)..P[j] /\ ~(t <= mid)
    BY <1>8
  <2>2. held(t) = {}
    BY <1>9, <2>1
  <2>3. UNION {p.steps[i].buttons : i \in {}} = {}
    OBVIOUS
  <2> QED BY <1>4, <2>2, <2>3
<1> QED
  BY <1>8, <1>10, <1>11

\* The phases of one step.
StepPhases(s) ==
  <<Phase(s.buttons, s.hold, TRUE)>> \o
    IF s.gap = 0 THEN <<>> ELSE <<Phase({}, s.gap, FALSE)>>

LEMMA StepCovers ==
  ASSUME NEW p, p.macro \notin {"mash", "hold"}, Scripted(p.steps),
         NEW P, StepSums(P, p.steps, Len(p.steps)), NEW j \in 1..Len(p.steps),
         NEW q, CoversTo(q, P[j - 1], p)
  PROVE  CoversTo(q \o StepPhases(p.steps[j]), P[j], p)
<1> DEFINE s == p.steps[j]
           b == s.buttons
           h == s.hold
           g == s.gap
           none == {}
           k == P[j - 1]
           mid == k + h
           e == P[j]
           x == Phase(b, h, TRUE)
           y == Phase(none, g, FALSE)
<1>1. /\ k \in Nat /\ e = mid + g
      /\ \A t \in (k + 1)..mid : b = Asked(p, t)
      /\ \A t \in (mid + 1)..e : none = Asked(p, t)
  BY StepAsks
<1>2. h \in Nat \ {0} /\ g \in Nat
  BY DEF Scripted
<1>3. StepPhases(s) = <<x>> \o IF g = 0 THEN <<>> ELSE <<y>>
  BY DEF StepPhases
<1>4. CoversTo(q, k, p)
  OBVIOUS
<1> HIDE DEF s, b, h, g, none, k, e
<1>5. CoversTo(q \o <<x>>, mid, p)
  <2> DEFINE f == k + h
  <2>1. f = k + h /\ \A t \in (k + 1)..f : b = Asked(p, t)
    BY <1>1
  <2> HIDE DEF f
  <2>2. CoversTo(q \o <<Phase(b, h, TRUE)>>, f, p)
    BY <1>2, <1>4, <2>1, AppendCovers
  <2> QED BY <2>2 DEF f
<1>q. \E S : q \in Seq(S) /\ <<x>> \in Seq(S) /\ <<y>> \in Seq(S)
  <2>1m. PICK m \in Nat : \E R : Covers(q, m, R, p)
    BY <1>4 DEF CoversTo
  <2>1. PICK R : Covers(q, m, R, p)
    BY <2>1m
  <2> DEFINE S == {q[i] : i \in 1..m} \cup {x, y}
  <2>2. q = [i \in 1..m |-> q[i]] /\ (\A i \in 1..m : q[i] \in S) /\ x \in S /\ y \in S
    BY <2>1 DEF Covers, Timed
  <2> HIDE DEF S, x, y
  <2>3. q \in [1..m -> S]
    BY <2>2
  <2>4. q \in Seq(S) /\ <<x>> \in Seq(S) /\ <<y>> \in Seq(S)
    BY <2>2, <2>3
  <2> QED BY <2>4
<1>6. CASE g = 0
  <2> HIDE DEF x, y
  <2>1. StepPhases(s) = <<x>>
    <3>1. <<x>> \in Seq({x})
      OBVIOUS
    <3>2. <<x>> \o <<>> = <<x>>
      BY <3>1, ConcatEmptySeq
    <3> QED BY <1>3, <1>6, <3>2
  <2>2. e = mid
    BY <1>1, <1>2, <1>6
  <2> QED BY <1>5, <2>1, <2>2 DEF s, e
<1>7. CASE g # 0
  <2> DEFINE r == q \o <<x>>
  <2>1. StepPhases(s) = <<x>> \o <<y>>
    BY <1>3, <1>7
  <2>2. q \o StepPhases(s) = r \o <<y>>
    <3> HIDE DEF x, y
    <3> QED BY <1>q, <2>1, ConcatAssociative
  <2>3. CoversTo(r, mid, p) /\ g \in Nat \ {0}
    BY <1>2, <1>5, <1>7
  <2> HIDE DEF r, mid
  <2>4. CoversTo(r \o <<Phase(none, g, FALSE)>>, e, p)
    BY <1>1, <2>3, AppendCovers
  <2> QED BY <2>2, <2>4 DEF s, e
<1> QED
  BY <1>6, <1>7

\* There is the function by which FlattenSeq is defined.
Flattens(f, seqs, n) ==
  f = [i \in 1..n |-> IF i = 1 THEN seqs[i] ELSE f[i - 1] \o seqs[i]]

LEMMA FlattenExists ==
  ASSUME NEW seqs, NEW n \in Nat \ {0}
  PROVE  \E f : Flattens(f, seqs, n)
<1> DEFINE bad == {k \in 1..n : ~\E f : Flattens(f, seqs, k)}
<1>1. bad = {}
  <2> SUFFICES ASSUME bad # {} PROVE FALSE
    OBVIOUS
  <2>1. PICK k \in bad : \A l \in bad : k <= l
    <3>1. bad \subseteq Nat
      OBVIOUS
    <3> HIDE DEF bad
    <3> QED BY <3>1, LeastOf
  <2>2. k # 1
    <3> DEFINE f == [i \in 1..1 |-> seqs[1]]
    <3>1. \A i \in 1..1 : i = 1
      OBVIOUS
    <3>2. f = [i \in 1..1 |-> IF i = 1 THEN seqs[i] ELSE f[i - 1] \o seqs[i]]
      BY <3>1
    <3>3. Flattens(f, seqs, 1)
      BY <3>2 DEF Flattens
    <3> QED BY <3>3
  <2>3. k - 1 \in 1..n /\ k - 1 \notin bad /\ k \in Nat
    BY <2>1, <2>2
  <2>4. PICK f : Flattens(f, seqs, k - 1)
    BY <2>3
  <2> DEFINE g == [i \in 1..k |-> IF i = k THEN f[k - 1] \o seqs[k] ELSE f[i]]
  <2>5. ASSUME NEW i \in 1..k
        PROVE  g[i] = IF i = 1 THEN seqs[i] ELSE g[i - 1] \o seqs[i]
    <3>1. CASE i = k
      <4>1. g[i] = f[k - 1] \o seqs[k] /\ i # 1
        BY <2>2, <3>1
      <4>2. g[i - 1] = f[k - 1]
        <5>1. i - 1 \in 1..k /\ i - 1 # k /\ i - 1 = k - 1
          BY <2>2, <2>3, <3>1
        <5> QED BY <5>1
      <4> HIDE DEF g
      <4> QED BY <3>1, <4>1, <4>2
    <3>2. CASE i # k
      <4>1. i \in 1..(k - 1) /\ g[i] = f[i]
        BY <2>3, <3>2
      <4>2. f[i] = IF i = 1 THEN seqs[i] ELSE f[i - 1] \o seqs[i]
        BY <2>4, <4>1 DEF Flattens
      <4>3. i # 1 => g[i - 1] = f[i - 1]
        <5>1. i # 1 => i - 1 \in 1..k /\ i - 1 # k
          BY <2>3, <4>1
        <5> QED BY <5>1
      <4> HIDE DEF g
      <4> QED BY <4>1, <4>2, <4>3
    <3> QED BY <3>1, <3>2
  <2>6. g = [i \in 1..k |-> g[i]]
    OBVIOUS
  <2> HIDE DEF g
  <2>7. Flattens(g, seqs, k)
    BY <2>5, <2>6 DEF Flattens
  <2> QED
    BY <2>1, <2>7
<1>2. n \in 1..n
  OBVIOUS
<1> QED
  BY <1>1, <1>2

LEMMA FlattenIs ==
  ASSUME NEW seqs, Len(seqs) \in Nat \ {0}
  PROVE  \E f : Flattens(f, seqs, Len(seqs)) /\ FlattenSeq(seqs) = f[Len(seqs)]
<1> DEFINE n == Len(seqs)
           g == CHOOSE f : Flattens(f, seqs, n)
<1>1. Flattens(g, seqs, n)
  BY FlattenExists
<1>2. FlattenSeq(seqs) = g[n]
  BY DEF FlattenSeq, Flattens
<1> QED
  BY <1>1, <1>2

\* The phases of a script, before they are cut.
LEMMA ScriptCovers ==
  ASSUME NEW p, p.macro \notin {"mash", "hold"}, Scripted(p.steps)
  PROVE  \E k \in Nat \ {0} :
           CoversTo(FlattenSeq([i \in 1..Len(p.steps) |-> StepPhases(p.steps[i])]),
                    k, p)
<1> DEFINE n == Len(p.steps)
           seqs == [i \in 1..n |-> StepPhases(p.steps[i])]
<1>1. n \in Nat \ {0} /\ DOMAIN p.steps = 1..n
      /\ \A i \in 1..n : p.steps[i].hold \in Nat \ {0} /\ p.steps[i].gap \in Nat
  BY DEF Scripted
<1>2. PICK P : StepSums(P, p.steps, n)
  <2> DEFINE w == [i \in 1..n |-> p.steps[i].hold + p.steps[i].gap]
  <2>1. \A i \in 1..n : w[i] \in Nat
    BY <1>1
  <2>2. \E P : Sums(P, w, n)
    <3> HIDE DEF n, w
    <3> QED BY <1>1, <2>1, SumsExist
  <2> QED BY <1>1, <2>2 DEF StepSums
<1>3. Len(seqs) = n
  <2> HIDE DEF n
  <2> QED BY <1>1
<1>4. PICK f : Flattens(f, seqs, n) /\ FlattenSeq(seqs) = f[n]
  <2> HIDE DEF seqs, n
  <2>1. Len(seqs) \in Nat \ {0}
    BY <1>1, <1>3
  <2>2. \E f : Flattens(f, seqs, Len(seqs)) /\ FlattenSeq(seqs) = f[Len(seqs)]
    BY <2>1, FlattenIs
  <2> QED BY <1>3, <2>2
<1>5. /\ P[0] = 0 /\ \A i \in 0..n : P[i] \in Nat
      /\ \A i \in 1..n : P[i] = P[i - 1] + (p.steps[i].hold + p.steps[i].gap)
  BY <1>2 DEF StepSums, Sums
<1>6. CoversTo(<<>>, 0, p)
  <2> DEFINE R == [i \in 0..0 |-> 0]
             q == <<>>
  <2>1. q = [i \in 1..0 |-> q[i]] /\ 1..0 = {} /\ R \in [0..0 -> Nat] /\ R[0] = 0
    OBVIOUS
  <2> HIDE DEF R, q
  <2>2. Covers(q, 0, R, p)
    BY <2>1 DEF Covers, Timed
  <2> QED BY <2>1, <2>2 DEF CoversTo, q
<1>7. \A i \in 1..n : f[i] = IF i = 1 THEN StepPhases(p.steps[i])
                             ELSE f[i - 1] \o StepPhases(p.steps[i])
  BY <1>4 DEF Flattens
<1>8. ASSUME NEW i \in 1..n
      PROVE  \E S : StepPhases(p.steps[i]) \in Seq(S)
  <2> DEFINE x == Phase(p.steps[i].buttons, p.steps[i].hold, TRUE)
             y == Phase({}, p.steps[i].gap, FALSE)
             r == IF p.steps[i].gap = 0 THEN <<>> ELSE <<y>>
  <2>1. StepPhases(p.steps[i]) = <<x>> \o r
    BY DEF StepPhases
  <2> HIDE DEF x, y
  <2>2. /\ <<x>> \in Seq({x, y}) /\ <<y>> \in Seq({x, y})
        /\ <<>> \in Seq({x, y})
    OBVIOUS
  <2>3. r \in Seq({x, y})
    BY <2>2
  <2> HIDE DEF r
  <2> QED BY <2>1, <2>2, <2>3, ConcatProperties
<1> DEFINE bad == {i \in 1..n : ~CoversTo(f[i], P[i], p)}
<1>9. bad = {}
  <2> SUFFICES ASSUME bad # {} PROVE FALSE
    OBVIOUS
  <2>1. PICK j \in bad : \A l \in bad : j <= l
    <3>1. bad \subseteq Nat
      BY <1>1
    <3> HIDE DEF bad
    <3> QED BY <3>1, LeastOf
  <2>2. PICK q : CoversTo(q, P[j - 1], p) /\ f[j] = q \o StepPhases(p.steps[j])
    <3>1. CASE j = 1
      <4>1. PICK S : StepPhases(p.steps[j]) \in Seq(S)
        BY <1>8
      <4>2. <<>> \o StepPhases(p.steps[j]) = StepPhases(p.steps[j])
        BY <4>1, ConcatEmptySeq
      <4>3. P[j - 1] = 0 /\ f[j] = StepPhases(p.steps[j])
        BY <1>5, <1>7, <3>1
      <4> QED BY <1>6, <4>2, <4>3
    <3>2. CASE j # 1
      <4>1. j - 1 \in 1..n /\ j - 1 \notin bad
        BY <1>1, <2>1, <3>2
      <4>2. CoversTo(f[j - 1], P[j - 1], p)
        BY <4>1
      <4>3. f[j] = f[j - 1] \o StepPhases(p.steps[j])
        BY <1>7, <3>2
      <4> QED BY <4>2, <4>3
    <3> QED BY <3>1, <3>2
  <2>3. CoversTo(q \o StepPhases(p.steps[j]), P[j], p)
    BY <1>2, <2>1, <2>2, StepCovers
  <2> QED BY <2>1, <2>2, <2>3
<1>10. n \in 1..n /\ n - 1 \in 0..n /\ n \in 0..n
  BY <1>1
<1>11. CoversTo(FlattenSeq(seqs), P[n], p)
  BY <1>4, <1>9, <1>10
<1>12. P[n] \in Nat \ {0}
  <2> HIDE DEF n
  <2> DEFINE h == p.steps[n].hold
             g == p.steps[n].gap
  <2>1. P[n - 1] \in Nat /\ P[n] = P[n - 1] + (h + g)
    BY <1>5, <1>10
  <2>2. h \in Nat \ {0} /\ g \in Nat
    BY <1>1, <1>10
  <2> HIDE DEF h, g
  <2> QED BY <2>1, <2>2
<1> QED
  BY <1>11, <1>12

\* A play that can be driven: every macro has the numbers its phases need.
Drivable(p) ==
  /\ p.macro = "mash" => p.press \in Nat \ {0} /\ p.release \in Nat \ {0}
  /\ p.macro \notin {"mash", "hold"} => Scripted(p.steps)

\* The phases of a play are what it asks for on every one of its frames.
LEMMA PhasesCover ==
  ASSUME NEW p, Drivable(p), p.max \in Nat \ {0}
  PROVE  \E c \in Nat \ {0} : \E R : Covers(Phases(p), c, R, p)
<1> DEFINE max == p.max
<1>0. max \in Nat \ {0}
  OBVIOUS
<1>1. CASE p.macro = "mash"
  <2> DEFINE press == p.press
             release == p.release
             q == [i \in 1..(2 * max) |->
                     IF i % 2 = 1 THEN Phase({"a"}, press, TRUE)
                     ELSE Phase({}, release, TRUE)]
             m == 2 * max
  <2>1. press \in Nat \ {0} /\ release \in Nat \ {0}
    BY <1>1 DEF Drivable
  <2>2. Phases(p) = Cut(q, max)
    BY <1>1 DEF Phases
  <2>3. m \in Nat \ {0}
    BY <1>0
  <2>4. PICK R : Covers(q, m, R, p)
    <3> HIDE DEF max
    <3> QED BY <1>0, <1>1, <2>1, MashCovers
  <2> HIDE DEF q, m, max
  <2> QED BY <1>0, <2>2, <2>3, <2>4, CutCovers
<1>2. CASE p.macro = "hold"
  <2>1. Phases(p) = <<Phase(p.buttons, p.max, TRUE)>>
    BY <1>2 DEF Phases
  <2>2. \E R : Covers(<<Phase(p.buttons, p.max, TRUE)>>, 1, R, p)
    BY <1>0, <1>2, HoldCovers
  <2>3. 1 \in Nat \ {0}
    OBVIOUS
  <2> QED BY <2>1, <2>2, <2>3
<1>3. CASE p.macro \notin {"mash", "hold"}
  <2> DEFINE q == FlattenSeq([i \in 1..Len(p.steps) |-> StepPhases(p.steps[i])])
  <2>1. PICK k \in Nat \ {0} : CoversTo(q, k, p)
    BY <1>3, ScriptCovers DEF Drivable
  <2>2m. PICK m \in Nat : \E R : Covers(q, m, R, p) /\ R[m] = k
    BY <2>1 DEF CoversTo
  <2>2. PICK R : Covers(q, m, R, p) /\ R[m] = k
    BY <2>2m
  <2>3. m # 0
    BY <2>2 DEF Covers, Timed
  <2>4. Phases(p) = Cut(q, max)
    BY <1>3 DEF Phases, StepPhases
  <2>5. m \in Nat \ {0}
    BY <2>3
  <2> HIDE DEF q, max
  <2> QED BY <1>0, <2>2, <2>4, <2>5, CutCovers
<1> QED
  BY <1>1, <1>2, <1>3

-----------------------------------------------------------------------------
(* The plays that come to the engine                                       *)

\* A play with its numbers in their ranges.
PlayOK(p) ==
  /\ p = [k \in Keys |-> p[k]]
  /\ p.max \in 1..MaxFrames /\ p.release \in 1..MaxHold
  /\ p.interval \in 1..MaxInterval
  /\ Drivable(p)

LEMMA ParsedPlayOK ==
  ASSUME NEW p, Acceptable(p)
  PROVE  PlayOK(Parse(p))
<1> DEFINE h == Parse(p)
<1>1. /\ h.macro = CASE Form(p) \in {"script", "wait"} -> "steps"
                     [] Form(p) = "chord" -> "buttons"
                     [] OTHER -> Form(p)
      /\ h.steps = Script(p)
      /\ h.press \in 1..MaxHold /\ h.release \in 1..MaxHold
  BY ParseKeys, ParsedNumbers
<1>2. Form(p) \in {"script", "mash", "hold", "chord", "wait"}
  BY DEF Acceptable, Form
<1> HIDE DEF h
<1>3. h.macro \notin {"mash", "hold"} => Form(p) \in {"script", "chord", "wait"}
  BY <1>1, <1>2
<1>4. Drivable(h)
  BY <1>1, <1>3, ScriptShape, LimitsAssumption DEF Drivable
<1> QED
  BY <1>4, ParseKeys, ParsedNumbers DEF PlayOK, h

LEMMA GuestPlayOK ==
  ASSUME NEW q, Acceptable(q), NEW m
  PROVE  PlayOK(AsScript(Host(q, m)))
<1> DEFINE h == Host(q, m)
<1>1. h = [k \in Keys |-> h[k]] /\ \A k \in Keys \ {"mode"} : h[k] = Parse(q)[k]
  BY HostKeys
<1>2. PlayOK(h)
  <2> DEFINE g == Parse(q)
  <2>1. PlayOK(g)
    BY ParsedPlayOK
  <2>2. \A k \in Keys \ {"mode"} : h[k] = g[k]
    BY <1>1
  <2>3. h = [k \in Keys |-> h[k]]
    BY <1>1
  <2> HIDE DEF h, g
  <2>4. /\ h.macro = g.macro /\ h.steps = g.steps /\ h.max = g.max
        /\ h.press = g.press /\ h.release = g.release
        /\ h.interval = g.interval
    BY <2>2 DEF Keys
  <2> QED BY <2>1, <2>3, <2>4 DEF PlayOK, Drivable
<1> HIDE DEF h
<1>3. /\ AsScript(h) = [k \in Keys |-> AsScript(h)[k]]
      /\ AsScript(h).macro = IF h.macro = "buttons" THEN "steps" ELSE h.macro
      /\ \A k \in Keys \ {"macro", "buttons"} : AsScript(h)[k] = h[k]
  BY <1>2, AsScriptKeys DEF PlayOK
<1>4. Drivable(AsScript(h))
  BY <1>2, <1>3 DEF PlayOK, Drivable, Keys
<1> QED
  BY <1>2, <1>3, <1>4 DEF PlayOK, Keys, h

\* The script of a mash without text.
Pause == <<[buttons |-> {}, hold |-> AbortGap, gap |-> 0]>>

LEMMA RewrittenPlayOK ==
  ASSUME NEW p, PlayOK(p)
  PROVE  PlayOK(Rewritten(p))
<1>1. DOMAIN p = Keys
  BY DEF PlayOK
<1> DEFINE r == Rewritten(p)
<1>2. DOMAIN r = Keys /\ r.release = p.release /\ r.interval = p.interval
  BY <1>1 DEF Rewritten, Keys
<1>3. r.max = p.max \/ r.max = AbortGap
  BY <1>1 DEF Rewritten, Keys
<1>4. r = [k \in DOMAIN r |-> r[k]]
  BY <1>1 DEF Rewritten, PlayOK
<1>6. \/ r.macro = p.macro /\ r.press = p.press /\ r.steps = p.steps
      \/ r.macro = "steps" /\ r.steps = Pause
  BY <1>1 DEF Rewritten, Pause, Keys
<1>7. Scripted(Pause)
  <2> DEFINE s == [buttons |-> {}, hold |-> AbortGap, gap |-> 0]
  <2>1. s.hold \in Nat \ {0} /\ s.gap \in Nat /\ Pause = <<s>>
    BY EngineAssumption DEF Pause
  <2> HIDE DEF s
  <2>2. \A i \in 1..1 : i = 1
    OBVIOUS
  <2>3. Len(<<s>>) = 1 /\ DOMAIN <<s>> = 1..1 /\ <<s>>[1] = s
    OBVIOUS
  <2> QED BY <2>1, <2>2, <2>3 DEF Scripted
<1> HIDE DEF r
<1>8. Drivable(r)
  BY <1>2, <1>6, <1>7 DEF PlayOK, Drivable
<1>5. PlayOK(r)
  BY <1>2, <1>3, <1>4, <1>8, EngineAssumption DEF PlayOK
<1> QED
  BY <1>5 DEF r

\* How a play begins.
LEMMA StartFacts ==
  ASSUME NEW p, PlayOK(p), Start(p)
  PROVE  /\ at' = "loop" /\ PlayOK(play') /\ total' \in 0..play'.max
         /\ frames' = 0 /\ evals' = 0 /\ stop' = Absent /\ shown' = 0
         /\ joy' = <<>> /\ looked' = {} /\ calm' = 0
         /\ memory' = NewMonitor(play'.until, screen)
         /\ shots' = <<>> \/ shots' = <<Shot(0, FALSE, FALSE, 0)>>
<1>1. PlayOK([p EXCEPT !.mode = "keyframes"])
  <2> DEFINE r == [p EXCEPT !["mode"] = "keyframes"]
  <2>1. DOMAIN p = Keys
    BY DEF PlayOK
  <2>2. r = [k \in Keys |-> IF k = "mode" THEN "keyframes" ELSE p[k]]
    BY <2>1
  <2> HIDE DEF r
  <2>3. Drivable(r)
    BY <2>2 DEF PlayOK, Drivable, Keys
  <2> QED
    BY <2>2, <2>3 DEF PlayOK, Keys, r
<1> QED
  BY <1>1 DEF Start

-----------------------------------------------------------------------------
(* Where the engine stands, how far it is and why it has stopped.          *)

ScreenReasons == {"classifier", "stable", "blocked", "fade", "default_hold_abort"}
ScreenStop(d) == d # Absent /\ d.reason \in ScreenReasons

LEMMA EvaluateStop ==
  ASSUME NEW m, NEW p, NEW s, NEW n, Evaluate(m, p, s, n).stop # Absent
  PROVE  ScreenStop(Evaluate(m, p, s, n).stop)
<1>1. ASSUME NEW m1, NEW u, CallerStop(m1, u, s) # Absent
      PROVE  CallerStop(m1, u, s).reason \in ScreenReasons
  BY <1>1 DEF CallerStop, Decision, ScreenReasons
<1>2. ASSUME NEW d
      PROVE  Decision("default_hold_abort", d).reason \in ScreenReasons
  BY DEF Decision, ScreenReasons
<1> QED
  BY <1>1, <1>2 DEF Evaluate, ScreenStop

Late == Decision("call_timeout", Absent)
Ran == {"completed", "max_frames"}

LEMMA Reasons ==
  /\ Late # Absent /\ Late.reason = "call_timeout"
  /\ Decision(RanOut, Absent).reason \in Ran
BY DecisionAssumption DEF Late, Decision, RanOut, Ran

\* A play reports so that was driven to its end.
RanTo(d) ==
  /\ d.reason \in Ran
  /\ frames = total
  /\ d.reason = "max_frames" => /\ play.macro \in {"hold", "mash"}
                                /\ frames >= play.max

CourseInv ==
  /\ at \in {"idle"} \cup Driving \cup Over
  /\ frames \in Nat /\ total \in Nat
  /\ NothingHeld
  /\ at # "idle" => /\ PlayOK(play) /\ total <= play.max
                    /\ frames <= total + MostGap
  /\ at \in Driving => frames <= total /\ stop = Absent
  /\ at = "gap" => frames <= total /\ ScreenStop(stop) /\ play.macro = "mash"
  /\ at = "wrap" => \/ stop = Absent /\ frames = total
                    \/ stop = Late /\ frames <= total
                    \/ ScreenStop(stop)
  /\ at = "ended" => \/ RanTo(stop)
                     \/ stop = Late /\ frames <= total
                     \/ ScreenStop(stop)

LEMMA GapType ==
  ASSUME NEW p, PlayOK(p)
  PROVE  GapAfter(p) \in 1..MostGap
BY EngineAssumption, LimitsAssumption DEF GapAfter, Least, Most, PlayOK

LEMMA LeqPlus ==
  ASSUME NEW a \in Nat, NEW b \in Nat, NEW c \in Nat, a <= b
  PROVE  a <= b + c
OBVIOUS

LEMMA CourseInit ==
  ASSUME Init
  PROVE  CourseInv
BY DEF Init, CourseInv, NothingHeld, Driving, Over

LEMMA CourseStep ==
  ASSUME CourseInv, Move, label = "play" => PlayOK(guest)
  PROVE  CourseInv'
<1> USE DEF CourseInv, NothingHeld, Driving, Over
<1>1. CASE UNCHANGED engine
  BY <1>1 DEF engine, script, clock, RanTo
<1>2. CASE Forget
  BY <1>2 DEF Forget
<1>3. ASSUME NEW p, PlayOK(p), Start(p)
      PROVE  CourseInv'
  <2>1. /\ at' = "loop" /\ PlayOK(play') /\ total' \in 0..play'.max
        /\ frames' = 0 /\ stop' = Absent
    BY <1>3, StartFacts
  <2>2. play'.max \in Nat
    BY <2>1, LimitsAssumption DEF PlayOK
  <2>3. total' \in Nat /\ total' <= play'.max
    BY <2>1, <2>2
  <2>4. MostGap \in Nat
    BY EngineAssumption
  <2>5. frames' \in Nat /\ frames' <= total'
    BY <2>1, <2>3
  <2>6. frames' <= total' + MostGap
    BY <2>3, <2>4, <2>5, LeqPlus
  <2> QED
    BY <2>1, <2>3, <2>5, <2>6
<1>4. CASE \E p : Acceptable(p) /\ Start(Parse(p))
  BY <1>3, <1>4, ParsedPlayOK
<1>5. CASE label = "play" /\ Start(Rewritten(guest))
  BY <1>3, <1>5, RewrittenPlayOK
<1>6. ASSUME NEW s \in Screens, NEW end \in (frames + 1)..total, Chunk(end, s)
      PROVE  CourseInv'
  BY <1>6, EngineAssumption DEF Chunk, Drive, script
<1>7. ASSUME NEW s \in Screens, NEW end \in (frames + 1)..total, Interrupt(end, s)
      PROVE  CourseInv'
  BY <1>7, EvaluateStop, EngineAssumption DEF Interrupt, Drive, script
<1>8. ASSUME NEW s \in Screens, MashGap(s)
      PROVE  CourseInv'
  BY <1>8, GapType, EngineAssumption DEF MashGap, script
<1>9. ASSUME NEW s \in Screens, WrapUp(s)
      PROVE  CourseInv'
  <2>1. /\ at = "wrap" /\ at' = "ended"
        /\ frames' = frames /\ total' = total /\ play' = play
        /\ pressed' = pressed
        /\ stop' = IF stop = Absent THEN Decision(RanOut, Absent) ELSE stop
    BY <1>9 DEF WrapUp, script
  <2>2. CASE stop = Absent
    <3>1. stop' = Decision(RanOut, Absent) /\ frames = total
      BY <2>1, <2>2, Reasons DEF ScreenStop
    <3>2. stop'.reason \in Ran
      BY <3>1, Reasons
    <3>3. stop'.reason = "max_frames" =>
            play.macro \in {"hold", "mash"} /\ frames >= play.max
      BY <3>1 DEF Decision, RanOut
    <3>4. RanTo(stop)'
      BY <2>1, <3>1, <3>2, <3>3 DEF RanTo
    <3> QED
      BY <2>1, <3>4
  <2>3. CASE stop # Absent
    BY <2>1, <2>3
  <2> QED
    BY <2>2, <2>3
<1>10. CASE NextPhase \/ Finished
  BY <1>10 DEF NextPhase, Finished, script, clock
<1>11. CASE Timeout \/ Stopped
  BY <1>11 DEF Timeout, Stopped, Late, script, clock
<1> QED
  BY <1>1, <1>2, <1>4, <1>5, <1>6, <1>7, <1>8, <1>9, <1>10, <1>11
  DEF Move, Engine

LEMMA MoveKinds ==
  ASSUME Move, label = "play" => PlayOK(guest)
  PROVE  UNCHANGED engine \/ Forget \/ (\E p : PlayOK(p) /\ Start(p)) \/ Engine
BY ParsedPlayOK, RewrittenPlayOK DEF Move

-----------------------------------------------------------------------------
(* What the game sees                                                      *)

\* n ticks of the joypad x.
Ticks(n, x) == [i \in 1..n |-> x]

LEMMA Ticked ==
  ASSUME NEW S, NEW j \in Seq(S), NEW x, NEW n \in Nat
  PROVE  LET k == j \o Ticks(n, x)
         IN  k \in Seq(S \cup {x}) /\ Len(k) = Len(j) + n
<1> DEFINE U == S \cup {x}
<1>1. j \in Seq(U) /\ Ticks(n, x) \in Seq(U) /\ Len(Ticks(n, x)) = n
  BY DEF Ticks
<1> HIDE DEF U
<1>2. /\ j \o Ticks(n, x) \in Seq(U)
      /\ Len(j \o Ticks(n, x)) = Len(j) + Len(Ticks(n, x))
  BY <1>1, ConcatProperties
<1> QED
  BY <1>1, <1>2 DEF U

LEMMA LastTicks ==
  ASSUME NEW S, NEW j \in Seq(S), NEW x, NEW n \in Nat,
         NEW i \in (Len(j) + 1)..(Len(j) + n)
  PROVE  (j \o Ticks(n, x))[i] = x
<1> DEFINE U == S \cup {x}
           t == Ticks(n, x)
<1>1. /\ j \in Seq(U) /\ Len(j) \in Nat
      /\ t \in Seq(U) /\ Len(t) = n /\ \A m \in 1..n : t[m] = x
  BY DEF Ticks
<1> HIDE DEF U, t
<1>2. /\ i \in 1..(Len(j) + Len(t)) /\ ~(i <= Len(j))
      /\ i - Len(j) \in 1..n
  BY <1>1
<1>3. (j \o t)[i] = IF i <= Len(j) THEN j[i] ELSE t[i - Len(j)]
  BY <1>1, <1>2, ConcatProperties
<1> QED
  BY <1>1, <1>2, <1>3 DEF t

JoyInv ==
  /\ \E S : joy \in Seq(S)
  /\ at \in Driving \cup {"gap", "wrap"} => Len(joy) = frames
  /\ at \in {"wrap", "ended"} /\ ScreenStop(stop) /\ play.macro = "mash" =>
       /\ frames >= GapAfter(play)
       /\ \A n \in (frames - GapAfter(play) + 1)..frames : joy[n] = {}

LEMMA JoyInit ==
  ASSUME Init
  PROVE  JoyInv
<1>1. joy \in Seq({}) /\ at = "idle"
  BY DEF Init
<1> QED
  BY <1>1 DEF JoyInv, Driving

\* A chunk ticks the joypad as often as it advances frames.
LEMMA DriveTicks ==
  ASSUME CourseInv, JoyInv, NEW s, NEW end \in (frames + 1)..total, Drive(end, s)
  PROVE  (\E S : joy' \in Seq(S)) /\ Len(joy') = end /\ frames' = end
<1>1. PICK S : joy \in Seq(S)
  BY DEF JoyInv
<1>2. /\ Len(joy) = frames /\ frames \in Nat /\ total \in Nat /\ frames' = end
      /\ joy' = joy \o Ticks(end - frames, pressed)
  BY DEF Drive, CourseInv, JoyInv, Driving, Ticks
<1>3. end - frames \in Nat
  BY <1>2
<1>4. joy' \in Seq(S \cup {pressed}) /\ Len(joy') = Len(joy) + (end - frames)
  <2> DEFINE n == end - frames
             k == joy \o Ticks(n, pressed)
  <2>1. n \in Nat
    BY <1>3
  <2> HIDE DEF n
  <2>2. k \in Seq(S \cup {pressed}) /\ Len(k) = Len(joy) + n
    BY <1>1, <2>1, Ticked
  <2> QED BY <1>2, <2>2 DEF n
<1>5. Len(joy') = end
  BY <1>2, <1>4
<1> QED
  BY <1>2, <1>4, <1>5

LEMMA JoyStep ==
  ASSUME CourseInv, JoyInv, UNCHANGED engine \/ Forget
                              \/ (\E p : PlayOK(p) /\ Start(p)) \/ Engine
  PROVE  JoyInv'
<1>1. CASE UNCHANGED engine
  BY <1>1 DEF engine, script, clock, JoyInv, GapAfter, Least, Most
<1>2. CASE Forget
  BY <1>2 DEF Forget, JoyInv, Driving
<1>3. ASSUME NEW p, PlayOK(p), Start(p)
      PROVE  JoyInv'
  <2>1. at' = "loop" /\ joy' = <<>> /\ frames' = 0
    BY <1>3, StartFacts
  <2>2. joy' \in Seq({}) /\ Len(joy') = 0
    BY <2>1
  <2> QED
    BY <2>1, <2>2 DEF JoyInv
<1>4. ASSUME NEW s \in Screens, NEW end \in (frames + 1)..total, Chunk(end, s)
      PROVE  JoyInv'
  <2>1. Drive(end, s) /\ at' = "between"
    BY <1>4 DEF Chunk
  <2> QED
    BY <2>1, DriveTicks DEF JoyInv
<1>5. ASSUME NEW s \in Screens, NEW end \in (frames + 1)..total, Interrupt(end, s)
      PROVE  JoyInv'
  <2>1. /\ Drive(end, s)
        /\ play' = play /\ at' = IF play.macro = "mash" THEN "gap" ELSE "wrap"
    BY <1>5 DEF Interrupt, script
  <2> QED
    BY <2>1, DriveTicks DEF JoyInv, Driving
<1>6. ASSUME NEW s \in Screens, MashGap(s)
      PROVE  JoyInv'
  <2> DEFINE g == GapAfter(play)
  <2>1. /\ at = "gap" /\ at' = "wrap" /\ frames' = frames + g
        /\ joy' = joy \o Ticks(g, pressed) /\ play' = play
        /\ stop' = stop
    BY <1>6 DEF MashGap, script, Ticks
  <2>2. /\ pressed = {} /\ g \in Nat /\ frames \in Nat /\ Len(joy) = frames
        /\ GapAfter(play)' = g
    BY <2>1, GapType, EngineAssumption
    DEF CourseInv, NothingHeld, JoyInv, Driving, GapAfter, Least, Most
  <2> HIDE DEF g
  <2>3. PICK S : joy \in Seq(S)
    BY DEF JoyInv
  <2>4. /\ joy' \in Seq(S \cup {{}}) /\ Len(joy') = Len(joy) + g
        /\ \A i \in (Len(joy) + 1)..(Len(joy) + g) : joy'[i] = {}
    <3> DEFINE k == joy \o Ticks(g, pressed)
    <3>n. g \in Nat
      BY <2>2
    <3>1. /\ k \in Seq(S \cup {pressed}) /\ Len(k) = Len(joy) + g
          /\ \A i \in (Len(joy) + 1)..(Len(joy) + g) : k[i] = pressed
      <4>1. k \in Seq(S \cup {pressed}) /\ Len(k) = Len(joy) + g
        BY <3>n, <2>3, Ticked
      <4>2. \A i \in (Len(joy) + 1)..(Len(joy) + g) : k[i] = pressed
        BY <3>n, <2>3, LastTicks
      <4> QED BY <4>1, <4>2
    <3>2. joy' = k /\ pressed = {}
      BY <2>1, <2>2
    <3> HIDE DEF k
    <3> QED BY <3>1, <3>2
  <2>5. Len(joy') = frames' /\ frames' >= g /\ frames' - g = frames
    BY <2>1, <2>2, <2>4
  <2>6. \A n \in (frames' - g + 1)..frames' : joy'[n] = {}
    BY <2>1, <2>2, <2>4, <2>5
  <2> QED
    BY <2>1, <2>2, <2>4, <2>5, <2>6 DEF JoyInv
<1>7. ASSUME NEW s \in Screens, WrapUp(s)
      PROVE  JoyInv'
  <2>1. /\ at = "wrap" /\ at' = "ended" /\ play' = play /\ frames' = frames
        /\ joy' = joy \/ joy' = Append(joy, pressed)
        /\ stop' = IF stop = Absent THEN Decision(RanOut, Absent) ELSE stop
    BY <1>7 DEF WrapUp, script
  <2>2. PICK S : joy \in Seq(S)
    BY DEF JoyInv
  <2>3. joy' \in Seq(S \cup {pressed}) /\ \A n \in 1..Len(joy) : joy'[n] = joy[n]
    BY <2>1, <2>2
  <2>4. ScreenStop(stop') => ScreenStop(stop)
    BY <2>1, Reasons DEF ScreenStop, ScreenReasons, Ran
  <2>5. Len(joy) = frames /\ frames \in Nat /\ GapAfter(play)' = GapAfter(play)
    BY <2>1 DEF JoyInv, CourseInv, GapAfter, Least, Most
  <2>6. ASSUME ScreenStop(stop'), play'.macro = "mash"
        PROVE  /\ frames' >= GapAfter(play)'
               /\ \A n \in (frames' - GapAfter(play)' + 1)..frames' : joy'[n] = {}
    <3>1. /\ frames >= GapAfter(play)
          /\ \A n \in (frames - GapAfter(play) + 1)..frames : joy[n] = {}
      BY <2>1, <2>4, <2>6 DEF JoyInv
    <3>2. GapAfter(play) \in Nat /\ GapAfter(play) >= 1
      BY <2>1, GapType, EngineAssumption DEF CourseInv
    <3> QED
      BY <2>1, <2>3, <2>5, <3>1, <3>2
  <2> QED
    BY <2>1, <2>3, <2>6 DEF JoyInv, Driving
<1>8. CASE NextPhase \/ Finished \/ Timeout
  <2>1. /\ at \in Driving /\ at' \in Driving \cup {"wrap"}
        /\ joy' = joy /\ frames' = frames
        /\ stop' = stop \/ stop' = Late
    BY <1>8 DEF NextPhase, Finished, Timeout, Driving, clock, Late
  <2>2. ~ScreenStop(stop')
    BY <2>1, Reasons DEF CourseInv, ScreenStop, ScreenReasons
  <2> QED
    BY <2>1, <2>2 DEF JoyInv, Driving
<1>9. CASE Stopped
  <2>1. PICK n \in Nat : joy' = joy \o Ticks(n, pressed)
    <3>1. PICK end \in (frames + 1)..(total + MostGap + 1) :
            \E n \in 0..(end - frames) : joy' = joy \o Ticks(n, pressed)
      BY <1>9 DEF Stopped, Ticks
    <3> QED BY <3>1
  <2>2. \E S : joy' \in Seq(S)
    BY <2>1, Ticked DEF JoyInv
  <2> QED
    BY <1>9, <2>2 DEF Stopped, JoyInv, Driving
<1> QED
  BY <1>1, <1>2, <1>3, <1>4, <1>5, <1>6, <1>7, <1>8, <1>9 DEF Engine

-----------------------------------------------------------------------------
(* The images                                                              *)

ShotSet == [frame : Nat, interrupt : BOOLEAN, final : BOOLEAN, shows : Nat]
NoCut(q) == \A i \in 1..Len(q) : ~q[i].interrupt
OneCut(q, frameset) ==
  \E i \in 1..Len(q) : /\ q[i].interrupt /\ q[i].frame \in frameset
                       /\ \A j \in 1..Len(q) : q[j].interrupt => j = i
Current(q) == \A i \in 1..Len(q) : q[i].shows = q[i].frame
HasFinal(q) == \E i \in 1..Len(q) : q[i].final

LEMMA Appended ==
  ASSUME NEW q \in Seq(ShotSet), NEW t \in ShotSet, NEW frameset,
         NEW r, r = Append(q, t)
  PROVE  /\ r \in Seq(ShotSet)
         /\ NoCut(q) /\ ~t.interrupt => NoCut(r)
         /\ NoCut(q) /\ t.interrupt /\ t.frame \in frameset => OneCut(r, frameset)
         /\ OneCut(q, frameset) /\ ~t.interrupt => OneCut(r, frameset)
         /\ Current(q) /\ t.shows = t.frame => Current(r)
         /\ t.final => HasFinal(r)
         /\ Current(q) => \A i \in 1..Len(r) :
                            r[i].shows # r[i].frame => i = Len(r)
<1>1. /\ r \in Seq(ShotSet) /\ Len(q) \in Nat /\ Len(r) = Len(q) + 1
      /\ \A i \in 1..Len(q) : r[i] = q[i]
      /\ r[Len(r)] = t
  BY AppendProperties
<1>2. \A i \in 1..Len(r) : i \in 1..Len(q) \/ i = Len(r)
  BY <1>1
<1>3. Len(r) \in 1..Len(r) /\ 1..Len(q) \subseteq 1..Len(r) /\ Len(r) \notin 1..Len(q)
  BY <1>1
<1>4. NoCut(q) /\ t.interrupt /\ t.frame \in frameset => OneCut(r, frameset)
  BY <1>1, <1>2, <1>3 DEF NoCut, OneCut
<1>5. OneCut(q, frameset) /\ ~t.interrupt => OneCut(r, frameset)
  BY <1>1, <1>2, <1>3 DEF OneCut
<1>6. /\ NoCut(q) /\ ~t.interrupt => NoCut(r)
      /\ Current(q) /\ t.shows = t.frame => Current(r)
      /\ Current(q) => \A i \in 1..Len(r) :
                         r[i].shows # r[i].frame => i = Len(r)
  BY <1>1, <1>2, <1>3 DEF NoCut, Current
<1>7. t.final => HasFinal(r)
  BY <1>1, <1>3 DEF HasFinal
<1> QED
  BY <1>1, <1>4, <1>5, <1>6, <1>7

\* A chunk that ends at frame end after a drawn tick shows that frame.
LEMMA DriveShows ==
  ASSUME CourseInv, NEW s, NEW end \in (frames + 1)..total, Drive(end, s),
         shown \in Nat, shown <= frames
  PROVE  /\ frames' = end /\ shown' \in Nat /\ shown' <= end
         /\ \/ end \in {NextEval(frames), total}
            \/ WantRender(play, end)
            \/ /\ play.mode = "all" /\ phases[idx].report
               /\ progress + end - frames >= phases[idx].frames
            => shown' = end
BY DEF Drive, CourseInv, Driving

ShotsInv ==
  /\ shots \in Seq(ShotSet) /\ shown \in Nat
  /\ at \in Driving \cup {"gap", "wrap"} => shown <= frames
  /\ at \in Driving => /\ NoCut(shots)
                       /\ frames = total /\ frames > 0 => HasFinal(shots)
  /\ at = "gap" => OneCut(shots, looked \cap {frames})
  /\ at \in {"wrap", "ended"} =>
       IF ScreenStop(stop) THEN OneCut(shots, looked \cap {CutFrame})
                           ELSE NoCut(shots)
  /\ at = "wrap" => stop = Late \/ HasFinal(shots) \/ frames = 0
  /\ Current(shots) \/ /\ at = "ended" /\ stop = Late
                       /\ \A i \in 1..Len(shots) :
                            shots[i].shows # shots[i].frame => i = Len(shots)

LEMMA ShotsInit ==
  ASSUME Init
  PROVE  ShotsInv
BY DEF Init, ShotsInv, Driving, Current

LEMMA ShotsStart ==
  ASSUME NEW p, PlayOK(p), Start(p)
  PROVE  ShotsInv'
<1>1. /\ at' = "loop" /\ frames' = 0 /\ shown' = 0
      /\ shots' = <<>> \/ shots' = <<Shot(0, FALSE, FALSE, 0)>>
  BY StartFacts
<1> DEFINE t == Shot(0, FALSE, FALSE, 0)
<1>2. t \in ShotSet /\ t.interrupt = FALSE /\ t.shows = t.frame
  BY DEF Shot, ShotSet
<1>3. CASE shots' = <<>>
  BY <1>1, <1>3 DEF ShotsInv, Driving, NoCut, Current
<1>4. CASE shots' = <<t>>
  <2> HIDE DEF t
  <2>1. Len(shots') = 1 /\ shots'[1] = t
    BY <1>4
  <2>2. shots' \in Seq(ShotSet)
    BY <1>2, <1>4
  <2>3. NoCut(shots') /\ Current(shots')
    BY <1>2, <2>1 DEF NoCut, Current
  <2> QED
    BY <1>1, <2>2, <2>3 DEF ShotsInv, Driving
<1> QED
  BY <1>1, <1>3, <1>4

LEMMA ShotsChunk ==
  ASSUME CourseInv, ShotsInv, NEW s, NEW end \in (frames + 1)..total,
         Chunk(end, s)
  PROVE  ShotsInv'
<1> DEFINE shot == \/ end = total \/ WantRender(play, end)
                   \/ /\ play.mode = "all" /\ phases[idx].report
                      /\ progress + end - frames >= phases[idx].frames
           t == Shot(end, FALSE, end = total, shown')
<1>1. /\ at = "loop" /\ at' = "between" /\ Drive(end, s) /\ total' = total
      /\ shots' = IF shot THEN Append(shots, t) ELSE shots
  BY DEF Chunk, Drive, script
<1>2. /\ frames' = end /\ shown' \in Nat /\ shown' <= end
      /\ shot => shown' = end
  BY <1>1, DriveShows DEF ShotsInv, Driving
<1>3. /\ shots \in Seq(ShotSet) /\ NoCut(shots) /\ Current(shots)
      /\ end \in Nat /\ end > 0
  BY <1>1 DEF ShotsInv, CourseInv, Driving
<1>4. /\ t \in ShotSet /\ ~t.interrupt /\ t.frame = end /\ t.shows = shown'
      /\ t.final = (end = total)
  BY <1>2, <1>3 DEF Shot, ShotSet
<1>5. CASE ~shot
  BY <1>1, <1>2, <1>3, <1>5 DEF ShotsInv, Driving
<1>6. CASE shot
  <2> HIDE DEF shot, t
  <2>1. /\ shots' \in Seq(ShotSet) /\ NoCut(shots') /\ Current(shots')
        /\ t.final => HasFinal(shots')
    BY <1>1, <1>2, <1>3, <1>4, <1>6, Appended
  <2>2. end = total => HasFinal(shots')
    BY <1>4, <2>1
  <2> QED
    BY <1>1, <1>2, <2>1, <2>2 DEF ShotsInv, Driving
<1> QED
  BY <1>5, <1>6

LEMMA ShotsInterrupt ==
  ASSUME CourseInv, CourseInv', ShotsInv, NEW s,
         NEW end \in (frames + 1)..total, Interrupt(end, s)
  PROVE  ShotsInv'
<1> DEFINE t == Shot(end, TRUE, play.macro # "mash", shown')
<1>1. /\ at = "loop" /\ Drive(end, s) /\ end = NextEval(frames)
      /\ at' = IF play.macro = "mash" THEN "gap" ELSE "wrap"
      /\ shots' = Append(shots, t) /\ looked' = looked \cup {end}
      /\ play' = play
  BY DEF Interrupt, Drive, Look, script
<1>2. frames' = end /\ shown' \in Nat /\ shown' = end
  BY <1>1, DriveShows DEF ShotsInv, Driving
<1>3. /\ shots \in Seq(ShotSet) /\ NoCut(shots) /\ Current(shots) /\ end \in Nat
  BY <1>1 DEF ShotsInv, CourseInv, Driving
<1>4. /\ t \in ShotSet /\ t.interrupt /\ t.frame = end /\ t.shows = end
      /\ t.final = (play.macro # "mash")
  BY <1>2, <1>3 DEF Shot, ShotSet
<1> HIDE DEF t
<1>5. /\ shots' \in Seq(ShotSet) /\ OneCut(shots', looked' \cap {frames'})
      /\ Current(shots')
      /\ t.final => HasFinal(shots')
  <2>1. t.frame \in looked' \cap {frames'}
    BY <1>1, <1>2, <1>4
  <2> QED BY <1>1, <1>3, <1>4, <2>1, Appended
<1>6. at' = "wrap" => HasFinal(shots') /\ ScreenStop(stop')
  <2>1. ScreenStop(stop')
    BY EvaluateStop DEF Interrupt
  <2> QED BY <1>1, <1>4, <1>5, <2>1
<1>7. at' = "wrap" => CutFrame' = frames'
  BY <1>1, <1>2, <1>3 DEF CutFrame
<1>8. at' = "wrap" => OneCut(shots', looked' \cap {CutFrame'})
  BY <1>5, <1>7
<1>9. at' \in {"gap", "wrap"} /\ shown' <= frames'
  BY <1>1, <1>2, <1>3
<1> QED
  BY <1>2, <1>5, <1>6, <1>8, <1>9 DEF ShotsInv, Driving

LEMMA ShotsGap ==
  ASSUME CourseInv, ShotsInv, NEW s, MashGap(s)
  PROVE  ShotsInv'
<1> DEFINE end == frames + GapAfter(play)
           t == Shot(end, FALSE, TRUE, end)
<1>1. /\ at = "gap" /\ at' = "wrap" /\ frames' = end /\ shown' = end
      /\ shots' = Append(shots, t) /\ looked' = looked /\ stop' = stop
      /\ play' = play
  BY DEF MashGap, sight, script
<1>2. /\ shots \in Seq(ShotSet) /\ OneCut(shots, looked \cap {frames})
      /\ Current(shots) /\ ScreenStop(stop) /\ frames \in Nat
      /\ PlayOK(play) /\ play.macro = "mash"
  BY <1>1 DEF ShotsInv, CourseInv, Over
<1>3. end \in Nat /\ end - GapAfter(play) = frames
  <2>1. GapAfter(play) \in Nat
    BY <1>2, GapType, EngineAssumption
  <2> QED BY <1>2, <2>1
<1>6. CutFrame' = frames
  <2>1. GapAfter(play)' = GapAfter(play)
    BY <1>1 DEF GapAfter, Least, Most
  <2> QED BY <1>1, <1>2, <1>3, <2>1 DEF CutFrame
<1> HIDE DEF end
<1>4. t \in ShotSet /\ ~t.interrupt /\ t.frame = t.shows /\ t.final
  BY <1>3 DEF Shot, ShotSet
<1> HIDE DEF t
<1>5. /\ shots' \in Seq(ShotSet) /\ OneCut(shots', looked \cap {frames})
      /\ Current(shots') /\ HasFinal(shots')
  BY <1>1, <1>2, <1>4, Appended
<1> QED
  BY <1>1, <1>2, <1>3, <1>5, <1>6 DEF ShotsInv, Driving

LEMMA ShotsWrapUp ==
  ASSUME CourseInv, JoyInv, ShotsInv, NEW s, WrapUp(s)
  PROVE  ShotsInv'
<1> DEFINE t == Shot(frames, FALSE, TRUE, shown')
<1>1. /\ at = "wrap" /\ at' = "ended" /\ frames' = frames /\ looked' = looked
      /\ CutFrame' = CutFrame
      /\ stop' = IF stop = Absent THEN Decision(RanOut, Absent) ELSE stop
      /\ shots' = IF HasFinal(shots) THEN shots ELSE Append(shots, t)
  BY DEF WrapUp, script, sight, FinalShot, HasFinal, CutFrame, GapAfter, Least, Most
<1>2. /\ shots \in Seq(ShotSet) /\ Current(shots) /\ frames \in Nat
      /\ shown \in Nat /\ shown <= frames
      /\ IF ScreenStop(stop) THEN OneCut(shots, looked \cap {CutFrame})
                             ELSE NoCut(shots)
      /\ stop = Late \/ HasFinal(shots) \/ frames = 0
  BY <1>1 DEF ShotsInv, CourseInv, Driving
<1>3. /\ shown' \in Nat
      /\ ~HasFinal(shots) /\ stop # Late => shown' = frames
  <2>1. CASE Undrawn
    <3>1. PICK S : joy \in Seq(S)
      BY DEF JoyInv
    <3>2. joy' = Append(joy, pressed) /\ shown' = Len(joy')
      BY <2>1 DEF WrapUp
    <3>3. shown' \in Nat
      BY <3>1, <3>2
    <3>4. ~HasFinal(shots) /\ frames > 0
      BY <2>1 DEF Undrawn, FinalShot, HasFinal
    <3> QED BY <1>2, <3>3, <3>4
  <2>2. CASE ~Undrawn
    <3>1. shown' = shown
      BY <2>2 DEF WrapUp, lcd
    <3> QED BY <1>2, <3>1
  <2> QED BY <2>1, <2>2
<1>4. ScreenStop(stop') <=> ScreenStop(stop)
  BY <1>1, Reasons DEF ScreenStop, ScreenReasons, Ran
<1>5. stop = Late => stop' = Late
  BY <1>1, Reasons
<1>6. CASE HasFinal(shots)
  BY <1>1, <1>2, <1>3, <1>4, <1>6 DEF ShotsInv, Driving
<1>7. CASE ~HasFinal(shots)
  <2>1. t \in ShotSet /\ ~t.interrupt /\ t.frame = frames /\ t.shows = shown'
    BY <1>2, <1>3 DEF Shot, ShotSet
  <2> HIDE DEF t
  <2>2. /\ shots' \in Seq(ShotSet)
        /\ NoCut(shots) => NoCut(shots')
        /\ OneCut(shots, looked \cap {CutFrame}) =>
             OneCut(shots', looked \cap {CutFrame})
        /\ t.shows = t.frame => Current(shots')
        /\ \A i \in 1..Len(shots') :
             shots'[i].shows # shots'[i].frame => i = Len(shots')
    BY <1>1, <1>2, <1>7, <2>1, Appended
  <2>3. stop # Late => Current(shots')
    BY <1>3, <1>7, <2>1, <2>2
  <2> QED
    BY <1>1, <1>2, <1>3, <1>4, <1>5, <2>2, <2>3 DEF ShotsInv, Driving
<1> QED
  BY <1>6, <1>7

LEMMA ShotsStep ==
  ASSUME CourseInv, CourseInv', JoyInv, ShotsInv,
         UNCHANGED engine \/ Forget \/ (\E p : PlayOK(p) /\ Start(p)) \/ Engine
  PROVE  ShotsInv'
<1>1. CASE UNCHANGED engine
  <2>1. CutFrame' = CutFrame
    BY <1>1 DEF engine, script, clock, CutFrame, GapAfter, Least, Most
  <2> QED
    BY <1>1, <2>1 DEF engine, script, clock, sight, lcd, ShotsInv
<1>2. CASE Forget
  BY <1>2 DEF Forget, ShotsInv, Driving, Current
<1>3. CASE NextPhase \/ Finished
  BY <1>3, Reasons DEF NextPhase, Finished, script, sight, lcd, ShotsInv,
     CourseInv, Driving, ScreenStop
<1>4. CASE Timeout
  <2>1. stop' = Late /\ ~ScreenStop(stop')
    BY <1>4, Reasons DEF Timeout, Late, ScreenStop, ScreenReasons
  <2> QED
    BY <1>4, <2>1 DEF Timeout, script, clock, sight, lcd, ShotsInv, Driving
<1>5. CASE Stopped
  BY <1>5 DEF Stopped, lcd, ShotsInv, Driving
<1> QED
  BY <1>1, <1>2, <1>3, <1>4, <1>5, ShotsStart, ShotsChunk, ShotsInterrupt,
     ShotsGap, ShotsWrapUp DEF Engine

-----------------------------------------------------------------------------
(* What is looked at                                                       *)

\* A multiple of k above f is at least the next multiple of k.
LEMMA NextMultiple ==
  ASSUME NEW k \in Nat \ {0}, NEW f \in Nat, NEW n \in Nat, n > f, n % k = 0
  PROVE  n >= (f \div k + 1) * k
<1> DEFINE a == n \div k
           b == f \div k
<1>1. a \in Nat /\ n = k * a
  OBVIOUS
<1>2. b \in Nat /\ f >= k * b /\ f < k * (b + 1)
  OBVIOUS
<1> HIDE DEF a, b
<1>3. a >= b + 1
  BY <1>1, <1>2
<1>4. k * a >= k * (b + 1)
  BY <1>1, <1>2, <1>3
<1> QED
  BY <1>1, <1>2, <1>4 DEF b

LookInv ==
  at \in Driving => \A n \in 1..frames :
    n % play.interval = 0 \/ n = total => n \in looked

LEMMA LookStep ==
  ASSUME CourseInv, LookInv,
         UNCHANGED engine \/ Forget \/ (\E p : PlayOK(p) /\ Start(p)) \/ Engine
  PROVE  LookInv'
<1>1. CASE UNCHANGED engine
  BY <1>1 DEF engine, script, clock, sight, LookInv
<1>2. CASE Forget
  BY <1>2 DEF Forget, LookInv, Driving
<1>3. ASSUME NEW p, PlayOK(p), Start(p)
      PROVE  LookInv'
  <2>1. at' = "loop" /\ frames' = 0
    BY <1>3, StartFacts
  <2>2. 1..frames' = {}
    BY <2>1
  <2> QED BY <2>1, <2>2 DEF LookInv
<1>4. ASSUME NEW s \in Screens, NEW end \in (frames + 1)..total, Chunk(end, s)
      PROVE  LookInv'
  <2> DEFINE next == NextEval(frames)
             k == play.interval
  <2>1. /\ at = "loop" /\ frames' = end /\ total' = total /\ play' = play
        /\ end <= next
        /\ looked' = looked \/ looked' = looked \cup {end}
        /\ end = next => looked' = looked \cup {end}
    BY <1>4 DEF Chunk, Drive, ChunkEnd, Look, script, sight
  <2>2. frames \in Nat /\ total \in Nat /\ k \in Nat \ {0}
    BY <2>1, LimitsAssumption DEF CourseInv, PlayOK, Driving
  <2>3. next \in Nat /\ next <= total /\ next <= (frames \div k + 1) * k
    <3>1. (frames \div k + 1) * k \in Nat
      BY <2>2
    <3> QED BY <2>2, <3>1 DEF NextEval, Least
  <2> HIDE DEF next
  <2>4. SUFFICES ASSUME NEW n \in 1..end, n % k = 0 \/ n = total
                 PROVE  n \in looked'
    BY <2>1 DEF LookInv
  <2>n. n \in Nat /\ end \in Nat /\ n <= end
    BY <2>2
  <2>5. CASE n <= frames
    BY <2>1, <2>2, <2>4, <2>5 DEF LookInv, Driving
  <2>6. CASE n > frames
    <3>1. CASE n = total
      <4>1. end = next
        BY <2>1, <2>2, <2>3, <2>n, <3>1
      <4> QED BY <2>1, <2>n, <3>1, <4>1, <2>2, <2>3
    <3>2. CASE n % k = 0
      <4>1. n >= (frames \div k + 1) * k
        BY <2>2, <2>n, <2>6, <3>2, NextMultiple
      <4>2. (frames \div k + 1) * k \in Nat
        BY <2>2
      <4> HIDE DEF k
      <4>3. n = end /\ end = next
        BY <2>1, <2>2, <2>3, <2>n, <4>1, <4>2
      <4> QED BY <2>1, <4>3
    <3> QED BY <2>4, <3>1, <3>2
  <2> QED
    BY <2>2, <2>5, <2>6
<1>5. CASE NextPhase
  BY <1>5 DEF NextPhase, script, sight, LookInv, Driving
<1>6. CASE \/ Finished \/ Timeout \/ Stopped
           \/ \E s \in Screens : MashGap(s) \/ WrapUp(s)
           \/ \E s \in Screens : \E end \in (frames + 1)..total : Interrupt(end, s)
  BY <1>6 DEF Finished, Timeout, Stopped, MashGap, WrapUp, Interrupt, LookInv,
     Driving
<1> QED
  BY <1>1, <1>2, <1>3, <1>4, <1>5, <1>6 DEF Engine

-----------------------------------------------------------------------------
(* When a wall is reported                                                 *)

MemoryKeys == {"base", "begun", "steady", "still", "seen", "met", "covered"}
MemoryOK(m) == m = [k \in MemoryKeys |-> m[k]]
Wall == Decision("default_hold_abort", "blocked")

\* The count of still evaluations, n and c being those of all evaluations and
\* of the last ones on which the player was seen standing.
Counted(m, p, n, c) ==
  IF p.abort /\ Directional(p)
  THEN /\ m.still \in Nat /\ m.still <= c
       /\ m.still = 0 \/ m.still + Grace <= n
  ELSE m.still = 0

LEMMA Remembered ==
  ASSUME NEW m, MemoryOK(m), NEW u, NEW s
  PROVE  LET r == Remember(m, u, s)
         IN  /\ MemoryOK(r) /\ r.begun = m.begun
             /\ ~On(u, {"blocked"}) => r.still = m.still
BY DEF Remember, MemoryOK, MemoryKeys

\* The reasons of a caller's condition are never that of the default abort.
LEMMA CallerIsNoWall ==
  ASSUME NEW m, NEW u, NEW s
  PROVE  CallerStop(m, u, s) # Absent => CallerStop(m, u, s) # Wall
<1>1. \A d : Decision("classifier", d) # Wall /\ Decision("stable", d) # Wall
             /\ Decision("blocked", d) # Wall /\ Decision("fade", d) # Wall
  BY DEF Decision, Wall
<1> QED
  BY <1>1 DEF CallerStop

LEMMA TakeoverIsNoWall ==
  ASSUME NEW m, NEW s, Takeover(m, s) # Absent
  PROVE  Decision("default_hold_abort", Takeover(m, s)) # Wall
<1>1. Takeover(m, s) \in {"battle", "textbox", "menu", "fade"}
  BY DEF Takeover
<1> QED
  BY <1>1 DEF Decision, Wall

LEMMA EvaluateCounts ==
  ASSUME NEW m, MemoryOK(m), NEW p, NEW s, NEW n \in Nat, NEW c \in Nat,
         m.begun = (n > 0), ~On(p.until, {"blocked"}), Counted(m, p, n, c),
         NEW c2, c2 = IF "still" \in s /\ n > 0 THEN c + 1 ELSE 0
  PROVE  LET seen == Evaluate(m, p, s, n)
         IN  /\ seen.stop = Absent => Counted(seen.memory, p, n + 1, c2)
             /\ seen.stop = Wall =>
                  c2 >= DefaultStable /\ n + 1 >= Grace + DefaultStable
<1> DEFINE m1 == IF p.until = Absent THEN m ELSE Remember(m, p.until, s)
           caller == IF p.until = Absent THEN Absent
                     ELSE CallerStop(m1, p.until, s)
           walks == p.abort /\ Takeover(m, s) = Absent /\ Directional(p)
           m2 == IF walks THEN [m1 EXCEPT !.still = StillCount(m1, s, n, FALSE)]
                 ELSE m1
           abort == IF ~p.abort THEN Absent
                    ELSE IF Takeover(m, s) # Absent
                         THEN Decision("default_hold_abort", Takeover(m, s))
                    ELSE IF walks /\ m2.still >= DefaultStable
                         THEN Wall
                    ELSE Absent
           seen == Evaluate(m, p, s, n)
<1>1. MemoryOK(m1) /\ m1.begun = m.begun /\ m1.still = m.still
  BY Remembered
<1>2. /\ seen.memory = [m2 EXCEPT !.begun = TRUE]
      /\ seen.stop = IF caller # Absent THEN caller ELSE abort
  BY DEF Evaluate, Wall
<1> HIDE DEF m1
<1>3. MemoryOK(m2) /\ m2.still = IF walks THEN StillCount(m1, s, n, FALSE)
                                 ELSE m.still
  BY <1>1 DEF MemoryOK, MemoryKeys
<1>4. seen.memory.still = m2.still
  BY <1>2, <1>3 DEF MemoryOK, MemoryKeys
<1>5. caller # Absent => caller # Wall
  BY CallerIsNoWall
<1>6. c2 \in Nat /\ DefaultStable \in Nat \ {0} /\ Grace \in Nat
  BY LimitsAssumption, MonitorAssumption
<1> HIDE DEF caller, seen, m2
<1>7. ASSUME walks
      PROVE  /\ m2.still \in Nat /\ m2.still <= c2
             /\ m2.still = 0 \/ m2.still + Grace <= n + 1
  <2>1. /\ m.still \in Nat /\ m.still <= c
        /\ m.still = 0 \/ m.still + Grace <= n
    BY <1>7 DEF Counted
  <2>2. m2.still = IF n > 0 /\ n >= Grace /\ "still" \in s
                   THEN m.still + 1 ELSE 0
    BY <1>1, <1>3, <1>7 DEF StillCount
  <2> QED
    BY <1>6, <2>1, <2>2
<1>8. ASSUME seen.stop = Absent
      PROVE  Counted(seen.memory, p, n + 1, c2)
  <2>1. abort = Absent
    BY <1>2, <1>8
  <2>2. CASE p.abort /\ Directional(p)
    <3>1. walks
      <4>1. ASSUME Takeover(m, s) # Absent
            PROVE  Decision("default_hold_abort", Takeover(m, s)) # Absent
        BY <4>1, DecisionAssumption DEF Takeover
      <4> QED BY <2>1, <2>2, <4>1
    <3> QED BY <1>4, <1>7, <2>2, <3>1 DEF Counted
  <2>3. CASE ~(p.abort /\ Directional(p))
    <3>1. m2.still = m.still /\ m.still = 0
      BY <1>3, <2>3 DEF Counted
    <3> QED BY <1>4, <2>3, <3>1 DEF Counted
  <2> QED BY <2>2, <2>3
<1>9. ASSUME seen.stop = Wall
      PROVE  c2 >= DefaultStable /\ n + 1 >= Grace + DefaultStable
  <2>1. abort = Wall
    BY <1>2, <1>5, <1>9
  <2>2. Wall # Absent
    BY DecisionAssumption DEF Wall
  <2>3. walks /\ m2.still >= DefaultStable
    BY <2>1, <2>2, TakeoverIsNoWall
  <2> QED
    BY <1>6, <1>7, <2>3
<1> QED
  BY <1>8, <1>9 DEF seen

LEMMA EvaluateMemory ==
  ASSUME NEW m, MemoryOK(m), NEW p, NEW s, NEW n
  PROVE  LET r == Evaluate(m, p, s, n).memory
         IN  MemoryOK(r) /\ r.begun = TRUE
<1> DEFINE m1 == IF p.until = Absent THEN m ELSE Remember(m, p.until, s)
           walks == p.abort /\ Takeover(m, s) = Absent /\ Directional(p)
           m2 == IF walks THEN [m1 EXCEPT !.still = StillCount(m1, s, n, FALSE)]
                 ELSE m1
<1>1. MemoryOK(m1)
  BY Remembered
<1>2. Evaluate(m, p, s, n).memory = [m2 EXCEPT !.begun = TRUE]
  BY DEF Evaluate
<1> HIDE DEF m1
<1>3. MemoryOK(m2)
  BY <1>1 DEF MemoryOK, MemoryKeys
<1> HIDE DEF m2
<1> QED
  BY <1>2, <1>3 DEF MemoryOK, MemoryKeys

CalmInv ==
  /\ evals \in Nat /\ calm \in Nat
  /\ at \in Driving =>
       /\ MemoryOK(memory) /\ memory.begun = (evals > 0)
       /\ ~On(play.until, {"blocked"}) => Counted(memory, play, evals, calm)
  /\ at \in {"gap", "wrap", "ended"} /\ stop = Wall
       /\ ~On(play.until, {"blocked"}) =>
         calm >= DefaultStable /\ evals >= Grace + DefaultStable

LEMMA CalmInit ==
  ASSUME Init
  PROVE  CalmInv
BY DEF Init, CalmInv, Driving

\* A chunk that ends with an evaluation.
LEMMA LookCounts ==
  ASSUME CalmInv, at = "loop", NEW s, NEW end,
         LET seen == Evaluate(memory, play, s, evals) IN Look(end, s, seen)
  PROVE  LET seen == Evaluate(memory, play, s, evals)
         IN  /\ evals' \in Nat /\ calm' \in Nat /\ evals' = evals + 1
             /\ MemoryOK(memory') /\ memory'.begun = (evals' > 0)
             /\ ~On(play.until, {"blocked"}) =>
                  /\ seen.stop = Absent => Counted(memory', play, evals', calm')
                  /\ seen.stop = Wall =>
                       /\ calm' >= DefaultStable
                       /\ evals' >= Grace + DefaultStable
<1> DEFINE seen == Evaluate(memory, play, s, evals)
           c2 == IF "still" \in s /\ evals > 0 THEN calm + 1 ELSE 0
<1>1. /\ evals \in Nat /\ calm \in Nat
      /\ MemoryOK(memory) /\ memory.begun = (evals > 0)
      /\ ~On(play.until, {"blocked"}) => Counted(memory, play, evals, calm)
  BY DEF CalmInv, Driving
<1>2. evals' = evals + 1 /\ memory' = seen.memory /\ calm' = c2
  BY DEF Look
<1>3. MemoryOK(memory') /\ memory'.begun = TRUE
  BY <1>1, <1>2, EvaluateMemory
<1>4. evals' \in Nat /\ calm' \in Nat /\ evals' > 0
  BY <1>1, <1>2
<1>5. ASSUME ~On(play.until, {"blocked"})
      PROVE  /\ seen.stop = Absent =>
                  Counted(seen.memory, play, evals + 1, c2)
             /\ seen.stop = Wall =>
                  c2 >= DefaultStable /\ evals + 1 >= Grace + DefaultStable
  <2> DEFINE d == c2
  <2>1. d = IF "still" \in s /\ evals > 0 THEN calm + 1 ELSE 0
    OBVIOUS
  <2> HIDE DEF d
  <2>2. /\ seen.stop = Absent => Counted(seen.memory, play, evals + 1, d)
        /\ seen.stop = Wall =>
             d >= DefaultStable /\ evals + 1 >= Grace + DefaultStable
    BY <1>1, <1>5, <2>1, EvaluateCounts
  <2> QED BY <2>2 DEF d
<1> HIDE DEF seen, c2
<1> QED
  BY <1>2, <1>3, <1>4, <1>5 DEF seen

LEMMA CalmStep ==
  ASSUME CourseInv, CalmInv,
         UNCHANGED engine \/ Forget \/ (\E p : PlayOK(p) /\ Start(p)) \/ Engine
  PROVE  CalmInv'
<1>1. CASE UNCHANGED engine
  BY <1>1 DEF engine, script, sight, CalmInv
<1>2. CASE Forget
  BY <1>2 DEF Forget, CalmInv, Driving
<1>3. ASSUME NEW p, PlayOK(p), Start(p)
      PROVE  CalmInv'
  <2>1. /\ at' = "loop" /\ evals' = 0 /\ calm' = 0
        /\ memory' = NewMonitor(play'.until, screen)
    BY <1>3, StartFacts
  <2>2. /\ MemoryOK(memory') /\ memory'.begun = FALSE /\ memory'.still = 0
    BY <2>1 DEF NewMonitor, MemoryOK, MemoryKeys
  <2>3. Counted(memory', play', evals', calm')
    BY <2>1, <2>2 DEF Counted
  <2>4. (evals' > 0) = FALSE /\ evals' \in Nat /\ calm' \in Nat
    BY <2>1
  <2>5. memory'.begun = (evals' > 0)
    BY <2>2, <2>4, Zenon
  <2> QED
    BY <2>1, <2>2, <2>3, <2>4, <2>5 DEF CalmInv
<1>4. ASSUME NEW s \in Screens, NEW end \in (frames + 1)..total, Chunk(end, s)
      PROVE  CalmInv'
  <2>1. at = "loop" /\ at' = "between" /\ play' = play
    BY <1>4 DEF Chunk, Drive, script
  <2>2. CASE UNCHANGED sight
    BY <2>1, <2>2 DEF CalmInv, Driving, sight
  <2>3. CASE ~UNCHANGED sight
    <3>1. /\ Look(end, s, Evaluate(memory, play, s, evals))
          /\ Evaluate(memory, play, s, evals).stop = Absent
      BY <1>4, <2>3 DEF Chunk
    <3> QED BY <2>1, <3>1, LookCounts DEF CalmInv
  <2> QED BY <2>2, <2>3
<1>5. ASSUME NEW s \in Screens, NEW end \in (frames + 1)..total, Interrupt(end, s)
      PROVE  CalmInv'
  <2>1. /\ at = "loop" /\ at' \in {"gap", "wrap"} /\ play' = play
        /\ Look(end, s, Evaluate(memory, play, s, evals))
        /\ stop' = Evaluate(memory, play, s, evals).stop
    BY <1>5 DEF Interrupt, Drive, script
  <2> QED BY <2>1, LookCounts DEF CalmInv, Driving
<1>6. ASSUME NEW s \in Screens, MashGap(s) \/ WrapUp(s)
      PROVE  CalmInv'
  <2>1. /\ at \in {"gap", "wrap"} /\ at' \in {"wrap", "ended"} /\ play' = play
        /\ evals' = evals /\ calm' = calm
        /\ stop' = stop \/ stop' = Decision(RanOut, Absent)
    BY <1>6 DEF MashGap, WrapUp, script, sight
  <2>2. Decision(RanOut, Absent) # Wall
    BY DEF RanOut, Decision, Wall
  <2> QED BY <2>1, <2>2 DEF CalmInv, Driving
<1>7. CASE NextPhase
  BY <1>7 DEF NextPhase, script, sight, CalmInv, Driving
<1>8. CASE Finished \/ Timeout
  <2>1. /\ at \in Driving /\ at' = "wrap" /\ evals' = evals /\ calm' = calm
        /\ stop' = stop \/ stop' = Late
    BY <1>8 DEF Finished, Timeout, sight, Late, Driving
  <2>2. Wall # Late /\ Wall # Absent
    BY DecisionAssumption DEF Wall, Late, Decision
  <2> QED BY <2>1, <2>2 DEF CalmInv, CourseInv, Driving
<1>9. CASE Stopped
  BY <1>9 DEF Stopped, sight, CalmInv, Driving
<1> QED
  BY <1>1, <1>2, <1>3, <1>4, <1>5, <1>6, <1>7, <1>8, <1>9 DEF Engine

-----------------------------------------------------------------------------
(* Whether the game sees what was asked for                                *)

\* The engine stands in phase idx, progress frames after its beginning.
Placed(m, R) ==
  /\ idx \in 1..m /\ progress \in Nat /\ frames = R[idx - 1] + progress
  /\ pressed = phases[idx].buttons

\* The phases cover the play, and the engine is where the frames say.
OnCourse(m, R) ==
  /\ Covers(phases, m, R, play) /\ total <= R[m]
  /\ at = "loop" /\ frames < total =>
       Placed(m, R) /\ progress < phases[idx].frames
  /\ at = "between" => Placed(m, R) /\ progress <= phases[idx].frames

\* The ticks up to the last look are as asked for; later ones may be released.
SeenInv ==
  at # "idle" =>
    /\ \A n \in looked : n \in Nat /\ n <= Len(joy)
    /\ \A n \in 1..Len(joy) :
         /\ joy[n] \in {Asked(play, n), {}}
         /\ at \in Driving \/ (\E l \in looked : n <= l) =>
              joy[n] = Asked(play, n)

FollowInv ==
  /\ SeenInv
  /\ at \in Driving => \E m \in Nat : \E R : OnCourse(m, R)

LEMMA FollowStart ==
  ASSUME NEW p, PlayOK(p), Start(p)
  PROVE  FollowInv'
<1>1. /\ at' = "loop" /\ PlayOK(play') /\ total' \in 0..play'.max
      /\ frames' = 0 /\ joy' = <<>> /\ looked' = {}
  BY StartFacts
<1>2. /\ phases' = Phases(play') /\ idx' = 1 /\ progress' = 0
      /\ total' = Least(play'.max, FramesIn(phases'))
      /\ pressed' = phases'[1].buttons
  BY DEF Start
<1>3. Drivable(play') /\ play'.max \in Nat \ {0}
  <2> DEFINE q == play'
  <2>1. PlayOK(q)
    BY <1>1
  <2> HIDE DEF q
  <2>2. Drivable(q) /\ q.max \in Nat \ {0}
    BY <2>1, LimitsAssumption DEF PlayOK
  <2> QED BY <2>2 DEF q
<1>4m. PICK m \in Nat \ {0} : \E R : Covers(phases', m, R, play')
  <2> DEFINE q == play'
  <2>1. Drivable(q) /\ q.max \in Nat \ {0} /\ phases' = Phases(q)
    BY <1>2, <1>3
  <2> HIDE DEF q
  <2>2. \E c \in Nat \ {0} : \E R : Covers(Phases(q), c, R, q)
    BY <2>1, PhasesCover
  <2> QED BY <2>1, <2>2 DEF q
<1>4. PICK R : Covers(phases', m, R, play')
  BY <1>4m
<1>5. /\ FramesIn(phases') = R[m] /\ R[m] \in Nat /\ R[0] = 0
      /\ phases'[1].frames \in Nat \ {0}
  <2> DEFINE q == phases'
  <2>1. Timed(q, m, R) /\ m \in Nat
    BY <1>4 DEF Covers
  <2> HIDE DEF q
  <2>2. FramesIn(q) = R[m]
    BY <2>1, TimedSums
  <2>3. R[m] \in Nat /\ R[0] = 0 /\ q[1].frames \in Nat \ {0}
    BY <1>4, <2>1 DEF Timed
  <2> QED BY <2>2, <2>3 DEF q
<1>6. total' <= R[m] /\ 1 \in 1..m /\ m \in Nat
  BY <1>2, <1>3, <1>4, <1>5 DEF Least
<1>7. OnCourse(m, R)'
  BY <1>1, <1>2, <1>4, <1>5, <1>6 DEF OnCourse, Placed
<1>8. SeenInv'
  BY <1>1 DEF SeenInv
<1> QED
  BY <1>6, <1>7, <1>8 DEF FollowInv

\* Ticks of the joypad within a phase are as asked for.
LEMMA TicksFollow ==
  ASSUME CourseInv, JoyInv, FollowInv, at = "loop", frames < total,
         NEW n \in Nat, NEW m \in Nat, NEW R, OnCourse(m, R),
         progress + n <= phases[idx].frames,
         NEW k, k = joy \o Ticks(n, pressed)
  PROVE  /\ Len(k) = frames + n
         /\ \A t \in 1..Len(k) : k[t] = Asked(play, t)
<1>1. PICK S : joy \in Seq(S)
  BY DEF JoyInv
<1>2. Len(joy) = frames /\ frames \in Nat
  BY DEF JoyInv, CourseInv, Driving
<1>3. Len(k) = frames + n
  <2> DEFINE j == joy \o Ticks(n, pressed)
  <2>1. j \in Seq(S \cup {pressed}) /\ Len(j) = Len(joy) + n
    BY <1>1, Ticked
  <2> HIDE DEF j
  <2>2. k = j
    BY DEF j
  <2> QED BY <1>2, <2>1, <2>2
<1>4. ASSUME NEW t \in 1..frames
      PROVE  k[t] = Asked(play, t)
  <2>1. joy[t] = Asked(play, t)
    BY <1>2 DEF FollowInv, SeenInv, Driving
  <2>2. k[t] = joy[t]
    <3> DEFINE U == S \cup {pressed}
               q == Ticks(n, pressed)
    <3>1. joy \in Seq(U) /\ q \in Seq(U) /\ Len(q) = n
      BY <1>1 DEF Ticks
    <3> HIDE DEF U, q
    <3>2. t \in 1..(Len(joy) + Len(q)) /\ t <= Len(joy)
      BY <1>2, <3>1
    <3>3. (joy \o q)[t] = joy[t]
      BY <3>1, <3>2, ConcatProperties
    <3> QED BY <3>3 DEF q
  <2> QED BY <2>1, <2>2
<1>5. ASSUME NEW t \in (frames + 1)..(frames + n)
      PROVE  k[t] = Asked(play, t)
  <2>1. k[t] = pressed
    <3>1. t \in (Len(joy) + 1)..(Len(joy) + n)
      BY <1>2
    <3>2. (joy \o Ticks(n, pressed))[t] = pressed
      BY <1>1, <3>1, LastTicks
    <3> QED BY <3>2
  <2> DEFINE before == R[idx - 1]
             whole == phases[idx].frames
  <2>2. /\ idx \in 1..m /\ progress \in Nat /\ frames = before + progress
        /\ pressed = phases[idx].buttons
    BY DEF OnCourse, Placed
  <2>3. /\ R[idx] = before + whole /\ before \in Nat /\ whole \in Nat
        /\ \A l \in (before + 1)..R[idx] : phases[idx].buttons = Asked(play, l)
    <3>1. idx - 1 \in 0..m
      BY <2>2
    <3> QED BY <2>2, <3>1 DEF OnCourse, Covers, Timed
  <2>4. progress + n <= whole
    OBVIOUS
  <2> HIDE DEF before, whole
  <2>5. t \in (before + 1)..R[idx]
    BY <2>2, <2>3, <2>4
  <2> QED BY <2>1, <2>2, <2>3, <2>5
<1>6. \A t \in 1..Len(k) : t \in 1..frames \/ t \in (frames + 1)..(frames + n)
  BY <1>2, <1>3
<1> QED
  BY <1>3, <1>4, <1>5, <1>6

\* What Drive does to the course.
LEMMA DriveFollows ==
  ASSUME CourseInv, JoyInv, FollowInv, NEW s, NEW end \in (frames + 1)..total,
         Drive(end, s), UNCHANGED script,
         NEW m \in Nat, NEW R, OnCourse(m, R)
  PROVE  /\ Len(joy') = end
         /\ \A t \in 1..Len(joy') : joy'[t] = Asked(play, t)
         /\ idx' \in 1..m /\ progress' \in Nat /\ frames' = R[idx' - 1] + progress'
         /\ progress' <= phases'[idx'].frames /\ idx' = idx
<1> DEFINE n == end - frames
<1>1. /\ frames \in Nat /\ total \in Nat /\ at = "loop" /\ frames < total
      /\ frames + n = end /\ n \in Nat
  BY DEF CourseInv, Drive
<1>2. /\ idx \in 1..m /\ progress \in Nat /\ frames = R[idx - 1] + progress
      /\ progress < phases[idx].frames
  BY <1>1 DEF OnCourse, Placed
<1>3. R[idx - 1] \in Nat /\ phases[idx].frames \in Nat
  <2>1. idx - 1 \in 0..m
    BY <1>2
  <2> QED BY <1>2, <2>1 DEF OnCourse, Covers, Timed
<1>4. end <= frames + phases[idx].frames - progress
  BY DEF Drive, ChunkEnd
<1>5. /\ joy' = joy \o Ticks(n, pressed) /\ frames' = end /\ idx' = idx
      /\ progress' = progress + end - frames /\ phases' = phases
  BY DEF Drive, Ticks, script
<1> HIDE DEF n
<1> DEFINE whole == phases[idx].frames
           before == R[idx - 1]
<1>w. /\ whole \in Nat /\ before \in Nat /\ frames = before + progress
      /\ progress < whole /\ progress \in Nat /\ frames \in Nat
      /\ end <= frames + whole - progress
  BY <1>1, <1>2, <1>3, <1>4
<1> HIDE DEF whole, before
<1>n. n = end - frames /\ n \in Nat /\ end = frames + n
  BY <1>1 DEF n
<1>6. progress + n <= whole /\ progress' = progress + n
  BY <1>n, <1>w, <1>5
<1>7. Len(joy') = frames + n /\ \A t \in 1..Len(joy') : joy'[t] = Asked(play, t)
  <2> DEFINE k == joy'
  <2>1. k = joy \o Ticks(n, pressed) /\ progress + n <= phases[idx].frames
    BY <1>5, <1>6 DEF whole
  <2> HIDE DEF k
  <2>2. Len(k) = frames + n /\ \A t \in 1..Len(k) : k[t] = Asked(play, t)
    BY <1>1, <1>n, <2>1, TicksFollow
  <2> QED BY <2>2 DEF k
<1>8. frames' = before + progress' /\ progress' \in Nat
  BY <1>n, <1>w, <1>5, <1>6
<1>9. R[idx' - 1] = before /\ phases'[idx'].frames = whole
  BY <1>5 DEF before, whole
<1> QED
  BY <1>1, <1>2, <1>5, <1>6, <1>7, <1>8, <1>9

\* Ticks with nothing pressed, once the play is no longer driven.
LEMMA ReleasedFollow ==
  ASSUME SeenInv, at # "idle", NEW S, joy \in Seq(S), NEW n \in Nat,
         joy' = joy \o Ticks(n, {}), looked' = looked, play' = play,
         at' \notin Driving
  PROVE  SeenInv'
<1> DEFINE k == joy \o Ticks(n, {})
           U == S \cup {{}}
<1>1. k \in Seq(U) /\ Len(k) = Len(joy) + n /\ Len(joy) \in Nat
  <2>1. k \in Seq(U) /\ Len(k) = Len(joy) + n
    BY Ticked
  <2>2. Len(joy) \in Nat
    OBVIOUS
  <2> QED BY <2>1, <2>2
<1>2. \A t \in (Len(joy) + 1)..(Len(joy) + n) : k[t] = {}
  BY LastTicks
<1>3. ASSUME NEW t \in 1..Len(joy)
      PROVE  k[t] = joy[t]
  <2> DEFINE q == Ticks(n, {})
  <2>1. joy \in Seq(U) /\ q \in Seq(U) /\ Len(q) = n
    BY DEF Ticks
  <2> HIDE DEF U, q
  <2>2. t \in 1..(Len(joy) + Len(q)) /\ t <= Len(joy)
    BY <1>1, <2>1
  <2>3. (joy \o q)[t] = joy[t]
    BY <2>1, <2>2, ConcatProperties
  <2> QED BY <2>3 DEF q
<1>4. joy' = k
  OBVIOUS
<1> HIDE DEF k, U
<1>5. \A l \in looked : l \in Nat /\ l <= Len(joy)
  BY DEF SeenInv
<1>6. ASSUME NEW t \in 1..Len(k)
      PROVE  /\ k[t] \in {Asked(play, t), {}}
             /\ (\E l \in looked : t <= l) => k[t] = Asked(play, t)
  <2>1. t \in 1..Len(joy) \/ t \in (Len(joy) + 1)..(Len(joy) + n)
    BY <1>1
  <2>2. CASE t \in 1..Len(joy)
    BY <1>3, <2>2 DEF SeenInv
  <2>3. CASE t \in (Len(joy) + 1)..(Len(joy) + n)
    BY <1>1, <1>2, <1>5, <2>3
  <2> QED BY <2>1, <2>2, <2>3
<1>7. \A l \in looked : l \in Nat /\ l <= Len(k)
  BY <1>1, <1>5
<1> QED
  BY <1>4, <1>6, <1>7 DEF SeenInv

\* The end of a phase: the next one is pressed, unless the play is over.
LEMMA NextPhaseFollows ==
  ASSUME CourseInv, FollowInv, NextPhase
  PROVE  FollowInv'
<1>1. /\ at = "between" /\ at' = "loop"
      /\ play' = play /\ phases' = phases /\ total' = total
      /\ frames' = frames /\ joy' = joy /\ looked' = looked
  BY DEF NextPhase, script, sight
<1>2. SeenInv'
  BY <1>1 DEF FollowInv, SeenInv, Driving
<1>3m. PICK m \in Nat : \E R : OnCourse(m, R)
  BY <1>1 DEF FollowInv, Driving
<1>3. PICK R : OnCourse(m, R)
  BY <1>3m
<1>4. /\ Timed(phases, m, R) /\ total <= R[m] /\ Covers(phases, m, R, play)
      /\ idx \in 1..m /\ progress \in Nat /\ frames = R[idx - 1] + progress
      /\ pressed = phases[idx].buttons /\ progress <= phases[idx].frames
  BY <1>1, <1>3 DEF OnCourse, Placed, Covers
<1>5. Len(phases) = m /\ \A i, j \in 0..m : i <= j => R[i] <= R[j]
  BY <1>4, TimedSums
<1>6. /\ \A i \in 1..m : phases[i].frames \in Nat \ {0}
      /\ \A i \in 1..m : R[i] = R[i - 1] + phases[i].frames
      /\ \A i \in 0..m : R[i] \in Nat
  BY <1>4 DEF Timed
<1>7. ASSUME frames < total
      PROVE  /\ idx' \in 1..m /\ progress' \in Nat
             /\ frames = R[idx' - 1] + progress'
             /\ pressed' = phases[idx'].buttons
             /\ progress' < phases[idx'].frames
  <2>1. CASE progress < phases[idx].frames
    BY <1>4, <2>1 DEF NextPhase
  <2>2. CASE ~(progress < phases[idx].frames)
    <3>1. phases[idx].frames \in Nat
      BY <1>4, <1>6
    <3>2. progress = phases[idx].frames
      BY <1>4, <2>2, <3>1
    <3>3. frames = R[idx] /\ R[idx] \in Nat /\ R[m] \in Nat /\ total \in Nat
      BY <1>4, <1>6, <3>2 DEF CourseInv
    <3>4. idx # m
      BY <1>4, <1>7, <3>3
    <3>5. idx + 1 \in 1..m /\ idx < Len(phases)
      BY <1>4, <1>5, <3>4
    <3>6. /\ idx' = idx + 1 /\ progress' = 0
          /\ pressed' = phases[idx + 1].buttons
      BY <1>7, <2>2, <3>5 DEF NextPhase
    <3>7. phases[idx + 1].frames \in Nat \ {0} /\ (idx + 1) - 1 = idx
      BY <1>4, <1>6, <3>5
    <3> QED
      BY <3>3, <3>5, <3>6, <3>7
  <2> QED BY <2>1, <2>2
<1>8. OnCourse(m, R)'
  BY <1>1, <1>4, <1>7 DEF OnCourse, Placed
<1> QED
  BY <1>2, <1>8 DEF FollowInv

LEMMA FollowStep ==
  ASSUME CourseInv, JoyInv, FollowInv,
         UNCHANGED engine \/ Forget \/ (\E p : PlayOK(p) /\ Start(p)) \/ Engine
  PROVE  FollowInv'
<1> PICK S : joy \in Seq(S)
  BY DEF JoyInv
<1>j. Len(joy) \in Nat
  OBVIOUS
<1>1. CASE UNCHANGED engine
  BY <1>1 DEF engine, script, clock, sight, FollowInv, SeenInv, OnCourse, Placed
<1>2. CASE Forget
  BY <1>2 DEF Forget, FollowInv, SeenInv, Driving
<1>3. CASE \E p : PlayOK(p) /\ Start(p)
  BY <1>3, FollowStart
<1>4. ASSUME NEW s \in Screens, NEW end \in (frames + 1)..total,
             Drive(end, s), UNCHANGED script,
             looked' = looked \/ looked' = looked \cup {end}, at' # "idle"
      PROVE  SeenInv' /\ \E m \in Nat : \E R :
               /\ OnCourse(m, R) /\ frames' = R[idx' - 1] + progress'
               /\ idx' \in 1..m /\ progress' \in Nat /\ idx' = idx
               /\ progress' <= phases'[idx'].frames
  <2>1. /\ at = "loop" /\ play' = play /\ frames \in Nat /\ total \in Nat
        /\ Len(joy) = frames
    BY <1>4 DEF Drive, script, CourseInv, JoyInv, Driving
  <2>2m. PICK m \in Nat : \E R : OnCourse(m, R)
    BY <2>1 DEF FollowInv, Driving
  <2>2. PICK R : OnCourse(m, R)
    BY <2>2m
  <2>3. /\ Len(joy') = end /\ \A t \in 1..Len(joy') : joy'[t] = Asked(play, t)
        /\ idx' \in 1..m /\ progress' \in Nat /\ frames' = R[idx' - 1] + progress'
        /\ progress' <= phases'[idx'].frames /\ idx' = idx
    BY <1>4, <2>2, DriveFollows
  <2>4. \A l \in looked' : l \in Nat /\ l <= Len(joy')
    <3>1. \A l \in looked : l \in Nat /\ l <= frames
      BY <2>1 DEF FollowInv, SeenInv
    <3> QED BY <1>4, <2>1, <2>3, <3>1
  <2>5. SeenInv'
    BY <2>1, <2>3, <2>4 DEF SeenInv
  <2> QED
    BY <2>2, <2>3, <2>5
<1>5. ASSUME NEW s \in Screens, NEW end \in (frames + 1)..total, Chunk(end, s)
      PROVE  FollowInv'
  <2>1. /\ Drive(end, s) /\ UNCHANGED script /\ at = "loop" /\ at' = "between"
        /\ pressed' = pressed /\ frames < total
        /\ looked' = looked \/ looked' = looked \cup {end}
    <3>1. frames \in Nat /\ total \in Nat
      BY DEF CourseInv
    <3> QED BY <1>5, <3>1 DEF Chunk, Drive, Look, sight
  <2>2m. PICK m \in Nat : \E R :
          /\ OnCourse(m, R) /\ frames' = R[idx' - 1] + progress'
          /\ idx' \in 1..m /\ progress' \in Nat /\ idx' = idx
          /\ progress' <= phases'[idx'].frames
    BY <1>4, <2>1
  <2>2. PICK R :
          /\ OnCourse(m, R) /\ frames' = R[idx' - 1] + progress'
          /\ idx' \in 1..m /\ progress' \in Nat /\ idx' = idx
          /\ progress' <= phases'[idx'].frames
    BY <2>2m
  <2>3. OnCourse(m, R)'
    BY <2>1, <2>2 DEF OnCourse, Placed, script
  <2> QED
    BY <1>4, <2>1, <2>3 DEF FollowInv
<1>6. ASSUME NEW s \in Screens, NEW end \in (frames + 1)..total, Interrupt(end, s)
      PROVE  FollowInv'
  <2>1. /\ Drive(end, s) /\ UNCHANGED script /\ at' \in {"gap", "wrap"}
        /\ looked' = looked \cup {end}
    BY <1>6 DEF Interrupt, Look
  <2> QED
    BY <1>4, <2>1 DEF FollowInv, Driving
<1>7. ASSUME NEW n \in Nat, joy' = joy \o Ticks(n, pressed), at \notin Driving,
             at # "idle", at' \notin Driving, looked' = looked, play' = play
      PROVE  FollowInv'
  <2>1. pressed = {} /\ SeenInv
    BY <1>7 DEF CourseInv, NothingHeld, FollowInv
  <2>2. SeenInv'
    BY <1>7, <2>1, ReleasedFollow
  <2> QED
    BY <1>7, <2>2 DEF FollowInv
<1>8. ASSUME joy' = joy, at # "idle", at' \notin Driving, looked' = looked,
             play' = play
      PROVE  FollowInv'
  BY <1>8 DEF FollowInv, SeenInv
<1>9. ASSUME NEW s \in Screens, MashGap(s)
      PROVE  FollowInv'
  <2> DEFINE g == GapAfter(play)
  <2>1. /\ at = "gap" /\ at' = "wrap" /\ play' = play /\ looked' = looked
        /\ joy' = joy \o Ticks(g, pressed)
    BY <1>9 DEF MashGap, script, sight, Ticks
  <2>2. g \in Nat
    BY <2>1, GapType, EngineAssumption DEF CourseInv
  <2> HIDE DEF g
  <2> QED
    BY <1>7, <2>1, <2>2 DEF Driving
<1>10. ASSUME NEW s \in Screens, WrapUp(s)
       PROVE  FollowInv'
  <2>1. /\ at = "wrap" /\ at' = "ended" /\ play' = play /\ looked' = looked
        /\ joy' = joy \/ joy' = Append(joy, pressed)
    BY <1>10 DEF WrapUp, script, sight
  <2>2. Append(joy, pressed) = joy \o Ticks(1, pressed)
    <3>1. Ticks(1, pressed) = <<pressed>>
      BY DEF Ticks
    <3>2. \A U : joy \in Seq(U) /\ pressed \in U =>
            Append(joy, pressed) = joy \o <<pressed>>
      BY AppendIsConcat
    <3>3. joy \in Seq(S \cup {pressed})
      OBVIOUS
    <3> QED BY <3>1, <3>2, <3>3
  <2> QED
    BY <1>7, <1>8, <2>1, <2>2 DEF Driving
<1>11. CASE NextPhase
  BY <1>11, NextPhaseFollows
<1>12. CASE Timeout \/ Finished
  BY <1>8, <1>12 DEF Timeout, Finished, script, clock, sight, Driving
<1>13. CASE Stopped
  <2>1. /\ at' = "raised" /\ play' = play /\ looked' = looked
        /\ at \in {"loop", "gap", "wrap"}
    BY <1>13 DEF Stopped, script, sight
  <2>2. PICK end \in (frames + 1)..(total + MostGap + 1) :
          /\ at = "loop" => ChunkEnd(end) /\ frames < total
          /\ \E n \in 0..(end - frames) : joy' = joy \o Ticks(n, pressed)
    BY <1>13 DEF Stopped, Ticks
  <2>3. PICK n \in 0..(end - frames) : joy' = joy \o Ticks(n, pressed)
    BY <2>2
  <2>4. n \in Nat /\ n <= end - frames
    OBVIOUS
  <2>5. CASE at # "loop"
    BY <1>7, <2>1, <2>3, <2>4, <2>5 DEF Driving
  <2>6. CASE at = "loop"
    <3>1m. PICK m \in Nat : \E R : OnCourse(m, R)
      BY <2>6 DEF FollowInv, Driving
    <3>1. PICK R : OnCourse(m, R)
      BY <3>1m
    <3>2. frames \in Nat /\ Len(joy) = frames
      BY <2>6 DEF CourseInv, JoyInv, Driving
    <3>3. progress + n <= phases[idx].frames
      <4> DEFINE whole == phases[idx].frames
      <4>1. end <= frames + whole - progress
        BY <2>2, <2>6 DEF ChunkEnd
      <4>2. idx \in 1..m /\ progress \in Nat
        BY <2>2, <2>6, <3>1 DEF OnCourse, Placed
      <4>3. whole \in Nat
        BY <3>1, <4>2 DEF OnCourse, Covers, Timed
      <4> HIDE DEF whole
      <4>4. progress + n <= whole
        <5>1. end \in Int
          BY <2>2, <3>2 DEF CourseInv
        <5> QED BY <2>4, <3>2, <4>1, <4>2, <4>3, <5>1
      <4> QED BY <4>4 DEF whole
    <3>4. Len(joy') = frames + n /\ \A t \in 1..Len(joy') : joy'[t] = Asked(play, t)
      <4> DEFINE k == joy'
      <4>1. k = joy \o Ticks(n, pressed)
        BY <2>3
      <4> HIDE DEF k
      <4>2. Len(k) = frames + n /\ \A t \in 1..Len(k) : k[t] = Asked(play, t)
        BY <2>2, <2>4, <2>6, <3>1, <3>3, <4>1, TicksFollow
      <4> QED BY <4>2 DEF k
    <3>5. \A l \in looked' : l \in Nat /\ l <= Len(joy')
      <4>1. \A l \in looked : l \in Nat /\ l <= frames
        BY <2>6, <3>2 DEF FollowInv, SeenInv
      <4> QED BY <2>1, <2>4, <3>2, <3>4, <4>1
    <3> QED
      BY <2>1, <3>4, <3>5 DEF FollowInv, SeenInv, Driving
  <2> QED BY <2>5, <2>6
<1> QED
  BY <1>1, <1>2, <1>3, <1>5, <1>6, <1>9, <1>10, <1>11, <1>12, <1>13 DEF Engine

LEMMA FollowInit ==
  ASSUME Init
  PROVE  FollowInv
BY DEF Init, FollowInv, SeenInv, Driving
=============================================================================
