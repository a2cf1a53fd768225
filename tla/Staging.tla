------------------------------- MODULE Staging -------------------------------
(***************************************************************************)
(* The staging area of resumable uploads, roms/.uploads/<upload_id>/       *)
(* (gb_mcp/storage/uploads.py): per upload a directory with data.bin and   *)
(* meta.json.  Everything here survives a restart of the server.           *)
(*                                                                         *)
(* All uploads announce the same ROM.  A digest is the identity of the     *)
(* bytes it was taken of.  Instead of a clock, the time to live of an      *)
(* upload may run out at any moment; expire_uploads is the only judge of   *)
(* it, because every caller of _load_live has just run it.                 *)
(***************************************************************************)
EXTENDS Sequences, SequencesExt, RomStore

CONSTANTS
  Uploads,     \* upload ids; uuid4 never yields one twice
  Rom,         \* the announced bytes: total_bytes and sha256
  ChunkSize,   \* bound of a decoded slice
  WriteFails   \* a write may raise OSError (disk full)

Progress == [next : Nat, received : Nat]

ASSUME StagingAssumption ==
  /\ Rom \in Seq(Nat)
  /\ Len(Rom) > 0
  /\ ChunkSize \in Nat
  /\ WriteFails \in BOOLEAN
  /\ None \notin Uploads
  /\ None \notin Seq(Nat)
  /\ None \notin Progress

VARIABLES
  dirs,    \* staging directories
  meta,    \* meta.json: next_index and received_bytes, or None
  data,    \* data.bin, or None
  minted,  \* ids given to a begin so far
  old      \* uploads whose time to live is over

disk == <<dirs, meta, data>>
stagingVars == <<disk, minted, old>>

StagingTypeOK ==
  /\ dirs \subseteq minted
  /\ minted \subseteq Uploads
  /\ old \subseteq Uploads
  /\ meta \in [Uploads -> Progress \cup {None}]
  /\ data \in [Uploads -> Seq(Nat) \cup {None}]
  /\ \A u \in Uploads \ dirs : meta[u] = None /\ data[u] = None

Staged(u, m, bytes) ==
  /\ dirs = {u}
  /\ minted = {u}
  /\ meta = [v \in Uploads |-> IF v = u THEN m ELSE None]
  /\ data = [v \in Uploads |-> IF v = u THEN bytes ELSE None]

(* Nothing staged, or an upload of an earlier process: k bytes in n        *)
(* slices, or one that a sweep without the lock has deprived of its bytes  *)
(* while it was begun.                                                     *)
StagingInit ==
  /\ old = {}
  /\ \/ /\ dirs = {}
        /\ minted = {}
        /\ meta = [u \in Uploads |-> None]
        /\ data = [u \in Uploads |-> None]
     \/ \E u \in Uploads, k \in 0..Len(Rom), n \in 0..Len(Rom) :
          /\ n <= k /\ k <= n * ChunkSize
          /\ Staged(u, [next |-> n, received |-> k], SubSeq(Rom, 1, k))
     \/ \E u \in Uploads : Staged(u, [next |-> 0, received |-> 0], None)

-----------------------------------------------------------------------------
(* expire_uploads: a directory without readable meta.json counts as made   *)
(* at time 0.                                                              *)
Expired(u) == u \in dirs /\ (meta[u] = None \/ u \in old)

Swept == {u \in dirs : Expired(u)}

(* What _load_live finds after the sweep of the same caller. *)
Live(u) == u \in dirs \ Swept

(* shutil.rmtree of the directories in S. *)
RmTree(S) ==
  /\ dirs' = dirs \ S
  /\ meta' = [u \in Uploads |-> IF u \in S THEN None ELSE meta[u]]
  /\ data' = [u \in Uploads |-> IF u \in S THEN None ELSE data[u]]

(* rmtree without the lock: the entries it listed, then the directory,     *)
(* which is not removed if somebody has put a file there since.            *)
Unlink(u) ==
  /\ meta' = [meta EXCEPT ![u] = None]
  /\ data' = [data EXCEPT ![u] = None]
  /\ UNCHANGED dirs

Rmdir(u) ==
  /\ dirs' = IF meta[u] = None /\ data[u] = None THEN dirs \ {u} ELSE dirs
  /\ UNCHANGED <<meta, data>>

(* The sweep of begin_upload, then mkdir. *)
Mkdir(u) ==
  /\ u \notin minted
  /\ minted' = minted \cup {u}
  /\ dirs' = (dirs \ Swept) \cup {u}
  /\ meta' = [v \in Uploads |-> IF v \in Swept THEN None ELSE meta[v]]
  /\ data' = [v \in Uploads |-> IF v \in Swept THEN None ELSE data[v]]

(* data_path.touch() and data_path.open("ab").write. *)
Touch(u) ==
  /\ u \in dirs
  /\ data' = [data EXCEPT ![u] = IF @ = None THEN <<>> ELSE @]
  /\ UNCHANGED <<dirs, meta>>

AppendData(u, bytes) ==
  /\ u \in dirs
  /\ data' = [data EXCEPT ![u] = IF @ = None THEN bytes ELSE @ \o bytes]
  /\ UNCHANGED <<dirs, meta>>

(* Mutant: the rollback restores meta.json only. *)
TruncateNothing(u, size) ==
  /\ data[u] # None
  /\ UNCHANGED disk

(* truncate(size_before); r+b needs the file.  A file that a sweep has     *)
(* replaced by a shorter one is filled up with zeros.                      *)
Truncate(u, size) ==
  /\ data[u] # None
  /\ data' = [data EXCEPT ![u] = [i \in 1..size |-> IF i <= Len(@) THEN @[i] ELSE 0]]
  /\ UNCHANGED <<dirs, meta>>

(* _write_meta replaces meta.json in one step. *)
WriteMeta(u, m) ==
  /\ u \in dirs
  /\ meta' = [meta EXCEPT ![u] = m]
  /\ UNCHANGED <<dirs, data>>

(* _decode_chunk. *)
Decodes(chunk) == Len(chunk) > 0 /\ Len(chunk) <= ChunkSize

(* The last bytes of data.bin are those of the chunk. *)
Repeats(u, chunk) ==
  /\ data[u] # None
  /\ Len(chunk) <= meta[u].received
  /\ IsSuffix(chunk, data[u])

(* The checks of _apply_decoded_chunk. *)
Fits(m, index, chunk) ==
  /\ index = m.next
  /\ m.received + Len(chunk) <= Len(Rom)

After(m, chunk) == [next |-> m.next + 1, received |-> m.received + Len(chunk)]

(* Mutant: the digest is not compared. *)
AssembledUnverified(u) ==
  Live(u) /\ data[u] # None /\ Len(data[u]) = Len(Rom)

(* take_assembled: length, then digest. *)
Assembled(u) == Live(u) /\ data[u] = Rom
=============================================================================
