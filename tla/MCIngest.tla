------------------------------ MODULE MCIngest -------------------------------
(***************************************************************************)
(* Small instances of Ingest for TLC.  A ROM of two bytes; the clients     *)
(* send its slices, too large ones, and the two bytes in the wrong order,  *)
(* which make a ROM that is playable but was never announced.              *)
(***************************************************************************)
EXTENDS Ingest, TLC

McRom == <<1, 2>>
Swapped == <<2, 1>>
Whole == <<3>>
Truncated == <<4>>

McContents == {McRom, Swapped, Whole, Truncated}
McPlayable == {McRom, Swapped, Whole}
McSent == {Whole, Truncated}
McBefore == {Whole, Truncated}
McChunks == {<<1>>, <<2>>, McRom}
McBatches == {<<<<1>>, <<2>>>>, <<<<2>>, <<1>>>>, <<<<2>>, <<2>>>>}

Symmetry == Permutations(Threads) \cup Permutations(Subdirs)
            \cup Permutations(Emails)
=============================================================================
