----------------------------- MODULE GameLibrary -----------------------------
(***************************************************************************)
(* What the ROM store promises its users, whatever files, tables and       *)
(* temporary names it uses: a subdirectory belongs to one email for good,  *)
(* it has a playable game from the moment it belongs to somebody, and a    *)
(* game is only ever exchanged, in one step, for another playable game.    *)
(* A subdirectory may come from an earlier version of the server with a    *)
(* truncated dump in it; it then has no playable game until it gets one.   *)
(***************************************************************************)
CONSTANTS Subdirs, Emails, Playable, None

VARIABLES
  belongs,  \* belongs[d]: the email that d is mapped to, or None
  game      \* game[d]: the game that a boot of d starts, or None

Init ==
  /\ belongs \in [Subdirs -> Emails \cup {None}]
  /\ game \in [Subdirs -> Playable \cup {None}]
  /\ \A d \in Subdirs : belongs[d] = None => game[d] = None

Add(d, e, r) ==
  /\ belongs[d] = None
  /\ belongs' = [belongs EXCEPT ![d] = e]
  /\ game' = [game EXCEPT ![d] = r]

Exchange(d, r) ==
  /\ belongs[d] # None
  /\ game' = [game EXCEPT ![d] = r]
  /\ UNCHANGED belongs

Next == \E d \in Subdirs, r \in Playable :
          Exchange(d, r) \/ \E e \in Emails : Add(d, e, r)

Spec == Init /\ [][Next]_<<belongs, game>>
=============================================================================
