---------------------------- MODULE StagingProofs ----------------------------
(***************************************************************************)
(* Theorems about the staging area of Ingest, for any numbers of threads,  *)
(* uploads, calls and restarts, any slices, and all faults: types, and     *)
(* that what a client was told is staged stays staged.                     *)
(***************************************************************************)
EXTENDS IngestProofs, SequenceTheorems

Writing == {"write", "write_meta"}
Undoing == {"rollback", "rollback_meta"}
Listing == {"list_next", "list_unlink", "list_rmdir"}
OnUpload == Locked \cup {"load", "take", "delete", "list_unlink", "list_rmdir"}

(* Which call stands where, and what it has at hand there.                 *)
Work(t) ==
  /\ pc[t] \in OnUpload => id[t] \in Uploads
  /\ pc[t] # "idle" /\ op[t] = "finalize" => id[t] \in Uploads
  /\ pc[t] \in {"list"} \cup Listing => op[t] = "list"
  /\ pc[t] = "load" => op[t] \in {"get", "append", "batch"}
  /\ pc[t] \in Writing => op[t] \in {"append", "batch"}
  /\ pc[t] \in Undoing => op[t] = "batch"
  /\ pc[t] = "load" /\ op[t] # "get" => Len(chunks[t]) > 0
  /\ pc[t] \in {"load"} \cup Writing /\ op[t] = "append" => Len(chunks[t]) = 1
  /\ pc[t] \in Writing =>
       mem[t] \in Progress /\ mem[t].next - idx[t] \in 0..(Len(chunks[t]) - 1)
  /\ pc[t] \in Writing \cup Undoing /\ op[t] = "batch" =>
       undo[t] \in [meta : Progress, size : Nat]

WorkInv == \A t \in Threads : Work(t)

(* The history variable counts what meta.json and its copies say.          *)
Tally(u) ==
  /\ u \notin minted => counted[u] = <<>>
  /\ meta[u] # None => meta[u].received = Len(counted[u])

TallyAt(t) ==
  /\ pc[t] \in {"begin_touch", "begin_meta"} => counted[id[t]] = <<>>
  /\ pc[t] \in Writing => mem[t].received = Len(counted[id[t]])
  /\ pc[t] \in Writing \cup Undoing /\ op[t] = "batch" =>
       undo[t].meta.received <= Len(counted[id[t]])

CountInv ==
  /\ \A u \in Uploads : Tally(u)
  /\ \A t \in Threads : TallyAt(t)

(***************************************************************************)
(* The data of an upload that no failure has put out of step, by the place *)
(* of whoever is at work on it.                                            *)
(***************************************************************************)
Sound(u) == u \in Uploads /\ u \notin old /\ u \notin spoiled

Told(u) == Sound(u) /\ acked[u] # None

Begins(s, b) == Len(s) <= Len(b) /\ \A i \in 1..Len(s) : s[i] = b[i]

(* An upload that a client counts on is there, and the progress that the   *)
(* client was told of is part of what was counted since.                   *)
Kept(u) ==
  /\ Sound(u) /\ u \notin minted => acked[u] = None
  /\ Told(u) =>
       /\ meta[u] # None
       /\ data[u] # None
       /\ Begins(acked[u], counted[u])
       /\ (\A t \in Threads : Torn(t) => id[t] # u) => data[u] = counted[u]

(* What a thread in the middle of its writes has left there: nothing yet, a *)
(* slice more than is counted, or as much as it has to roll back to.       *)
BeginInv(t) ==
  Sound(id[t]) =>
    /\ pc[t] \in {"begin_touch", "begin_meta"} => acked[id[t]] = None
    /\ pc[t] = "begin_touch" => data[id[t]] = None
    /\ pc[t] = "begin_meta" => data[id[t]] = <<>>

WriteInv(t) ==
  Told(id[t]) =>
    /\ pc[t] \in Writing => mem[t] = meta[id[t]]
    /\ pc[t] = "write_meta" => data[id[t]] = counted[id[t]] \o Current(t)

UndoInv(t) ==
  Told(id[t]) =>
    /\ pc[t] \in Writing \cup Undoing /\ op[t] = "batch" =>
         /\ undo[t].size = undo[t].meta.received
         /\ Len(acked[id[t]]) <= undo[t].size
    /\ pc[t] = "rollback" => Begins(counted[id[t]], data[id[t]])
    /\ pc[t] = "rollback_meta" =>
         /\ Len(data[id[t]]) = undo[t].size
         /\ \A i \in 1..undo[t].size : data[id[t]][i] = counted[id[t]][i]

(* A listing only removes what is too old or caught half begun.            *)
SweepInv(t) == pc[t] \in {"list_unlink", "list_rmdir"} => ~Sound(id[t])

InStep(t) == BeginInv(t) /\ WriteInv(t) /\ UndoInv(t) /\ SweepInv(t)

StagedInv ==
  /\ \A u \in Uploads : Kept(u)
  /\ \A t \in Threads : InStep(t)

-----------------------------------------------------------------------------
(* Types. *)

TypeInv == TypeOK /\ WorkInv /\ CountInv

LEMMA InitType == Init => TypeInv
<1> SUFFICES ASSUME Init PROVE TypeInv
  OBVIOUS
<1> USE StagingAssumption, IngestAssumption, RomStoreAssumption
    DEF Init, Unset, StagingAssumption, IngestAssumption, RomStoreAssumption
<1>1. StagingTypeOK
  <2>1. \A k \in 0..Len(Rom) : SubSeq(Rom, 1, k) \in Seq(Nat)
    OBVIOUS
  <2>2. CASE dirs = {}
    BY <2>2 DEF StagingInit, Staged, StagingTypeOK
  <2>3. CASE \E u \in Uploads, k \in 0..Len(Rom), n \in 0..Len(Rom) :
               Staged(u, [next |-> n, received |-> k], SubSeq(Rom, 1, k))
    <3>1. PICK u \in Uploads, k \in 0..Len(Rom), n \in 0..Len(Rom) :
                 Staged(u, [next |-> n, received |-> k], SubSeq(Rom, 1, k))
      BY <2>3
    <3>2. [next |-> n, received |-> k] \in Progress /\ SubSeq(Rom, 1, k) \in Seq(Nat)
      BY <2>1 DEF Progress
    <3>3. old = {}
      BY DEF StagingInit
    <3> QED BY <3>1, <3>2, <3>3 DEF Staged, StagingTypeOK
  <2>4. CASE \E u \in Uploads : Staged(u, [next |-> 0, received |-> 0], None)
    BY <2>4 DEF StagingInit, Staged, StagingTypeOK, Progress
  <2> QED BY <2>2, <2>3, <2>4 DEF StagingInit
<1>2. StoreTypeOK
  <2>1. CASE files = [d \in Subdirs |-> NoFiles]
    BY <2>1 DEF StoreInit, StoreTypeOK, NoFiles
  <2>2. CASE files # [d \in Subdirs |-> NoFiles]
    <3>1. PICK d \in Subdirs, e \in Emails, r \in Before :
            /\ romDirs = {d}
            /\ files = [[s \in Subdirs |-> NoFiles] EXCEPT ![d][Min(Names)] = r]
            /\ owner = [[s \in Subdirs |-> None] EXCEPT ![d] = e]
      BY <2>2 DEF StoreInit
    <3> DEFINE first == Min(Names)
    <3>2. files = [[s \in Subdirs |-> NoFiles] EXCEPT ![d][first] = r]
      BY <3>1
    <3>3. files \in [Subdirs -> [Names -> Contents \cup {None}]]
      <4> HIDE DEF first
      <4> QED BY <3>2 DEF NoFiles
    <3> QED BY <3>1, <3>3 DEF StoreTypeOK
  <2> QED BY <2>1, <2>2
<1>3. counted \in [Uploads -> Seq(Nat)] /\ acked \in [Uploads -> Seq(Nat) \cup {None}]
  BY <1>1 DEF StagingTypeOK
<1>4. TypeOK
  <2>1. [t \in Threads |-> <<>>] \in [Threads -> Seq(Chunks)]
    OBVIOUS
  <2>2. ControlTypeOK /\ UploadTypeOK /\ StoringTypeOK /\ HistoryTypeOK
    BY <1>3, <2>1
       DEF ControlTypeOK, UploadTypeOK, StoringTypeOK, HistoryTypeOK, Labels, Replies
  <2> QED BY <1>1, <1>2, <2>2 DEF TypeOK
<1>5. WorkInv
  BY DEF WorkInv, Work, OnUpload, Locked, Listing, Writing, Undoing
<1>6. CountInv
  <2>1. \A u \in Uploads :
          /\ u \notin minted => counted[u] = <<>>
          /\ meta[u] # None => meta[u].received = Len(counted[u])
    <3>1. CASE dirs = {}
      BY <3>1 DEF StagingInit, Staged
    <3>2. ASSUME NEW u \in Uploads, NEW k \in 0..Len(Rom), NEW n \in 0..Len(Rom),
                 Staged(u, [next |-> n, received |-> k], SubSeq(Rom, 1, k))
          PROVE  \A v \in Uploads :
                   /\ v \notin minted => counted[v] = <<>>
                   /\ meta[v] # None => meta[v].received = Len(counted[v])
      <4>1. SubSeq(Rom, 1, k) \in Seq(Nat) /\ Len(SubSeq(Rom, 1, k)) = k
        OBVIOUS
      <4> QED BY <3>2, <4>1 DEF Staged
    <3>3. CASE \E u \in Uploads : Staged(u, [next |-> 0, received |-> 0], None)
      BY <3>3 DEF Staged
    <3> QED BY <3>1, <3>2, <3>3 DEF StagingInit
  <2> QED BY <2>1 DEF CountInv, Tally, TallyAt, Writing, Undoing
<1> QED BY <1>4, <1>5, <1>6 DEF TypeInv

(* A call arrives with what the client sent. *)
LEMMA CallKeepsType ==
  ASSUME TypeInv, NEW t \in Threads, Call(t)
  PROVE  TypeInv'
<1> USE StagingAssumption, IngestAssumption, RomStoreAssumption
    DEF TypeInv, StagingAssumption, IngestAssumption, RomStoreAssumption
<1>1. PICK o \in Calls, label \in {"begin", "load", "delete", "list", "take", "validate"} :
        Arrive(t, o, label)
  BY DEF Call, CallBegin, CallAppend, CallOnUpload, CallList, CallFinalize,
         CallSend, Calls
<1> USE DEF Arrive, At, Goto, Set
<1>2. /\ id' \in [Threads -> Uploads \cup {None}]
      /\ idx' \in [Threads -> Nat]
      /\ chunks' \in [Threads -> Seq(Chunks)]
      /\ who' \in [Threads -> Emails \cup {None}]
      /\ rom' \in [Threads -> Contents \cup {None}]
      /\ dir' \in [Threads -> Subdirs \cup {None}]
      /\ name' \in [Threads -> Names \cup {None}]
      /\ \A s \in Threads : s # t =>
           id'[s] = id[s] /\ idx'[s] = idx[s] /\ chunks'[s] = chunks[s]
      /\ pc'[t] \in {"load", "delete", "take"} => id'[t] \in Uploads
      /\ op'[t] = "finalize" => id'[t] \in Uploads
      /\ pc'[t] = "list" => op'[t] = "list"
      /\ pc'[t] = "load" => op'[t] \in {"get", "append", "batch"}
      /\ pc'[t] = "load" /\ op'[t] # "get" => Len(chunks'[t]) > 0
      /\ pc'[t] = "load" /\ op'[t] = "append" => Len(chunks'[t]) = 1
  <2> USE DEF TypeOK, StagingTypeOK, ControlTypeOK, UploadTypeOK, StoringTypeOK
  <2>1. CASE CallBegin(t) \/ CallList(t)
    BY <2>1 DEF CallBegin, CallList
  <2>2. CASE CallOnUpload(t)
    BY <2>2 DEF CallOnUpload
  <2>3. CASE CallAppend(t)
    <3>1. PICK u \in minted, i \in 0..Len(Rom), b \in Batches \cup {<<c>> : c \in Chunks} :
            /\ (Len(b) = 1 /\ Arrive(t, "append", "load")) \/ Arrive(t, "batch", "load")
            /\ id' = Set(id, t, u)
            /\ idx' = Set(idx, t, i)
            /\ chunks' = Set(chunks, t, b)
            /\ UNCHANGED <<who, rom, dir, name>>
      BY <2>3 DEF CallAppend
    <3>2. b \in Seq(Chunks) /\ Len(b) > 0
      <4>1. CASE b \in Batches
        BY <4>1
      <4>2. ASSUME NEW c \in Chunks, b = <<c>>
            PROVE  b \in Seq(Chunks) /\ Len(b) > 0
        BY <4>2
      <4> QED BY <4>1, <4>2
    <3>3. u \in Uploads /\ i \in Nat
      OBVIOUS
    <3> QED BY <3>1, <3>2, <3>3
  <2>4. CASE CallFinalize(t)
    BY <2>4 DEF CallFinalize
  <2>5. CASE CallSend(t)
    BY <2>5 DEF CallSend
  <2> QED BY <2>1, <2>2, <2>3, <2>4, <2>5 DEF Call
<1>4. StagingTypeOK' /\ StoreTypeOK'
  <2>1. UNCHANGED <<dirs, meta, data, minted, old, romDirs, files, owner>>
    BY <1>1 DEF stagingVars, storeVars, disk
  <2> QED BY <2>1 DEF TypeOK, StagingTypeOK, StoreTypeOK
<1>5. TypeOK'
  <2>1. ControlTypeOK'
    BY <1>1 DEF TypeOK, ControlTypeOK, Labels
  <2>2. UploadTypeOK' /\ StoringTypeOK'
    BY <1>1, <1>2 DEF TypeOK, UploadTypeOK, StoringTypeOK
  <2>3. HistoryTypeOK'
    BY <1>1 DEF TypeOK, HistoryTypeOK, history
  <2> QED BY <1>4, <2>1, <2>2, <2>3 DEF TypeOK
<1>6. /\ \A s \in Threads : s # t => pc'[s] = pc[s] /\ op'[s] = op[s]
      /\ pc'[t] = label /\ mem' = mem /\ undo' = undo
  BY <1>1 DEF TypeOK, ControlTypeOK
<1>7. WorkInv'
  BY <1>2, <1>6 DEF WorkInv, Work, OnUpload, Locked, Listing, Writing, Undoing
<1>8. CountInv'
  <2>1. UNCHANGED <<minted, meta, counted>>
    BY <1>1 DEF stagingVars, disk, history
  <2> QED BY <1>2, <1>6, <2>1 DEF CountInv, Tally, TallyAt, Writing, Undoing
<1> QED BY <1>5, <1>7, <1>8

(* Whatever is done to the files of an upload leaves a data.bin of bytes    *)
(* and a meta.json with a progress, in a directory, or nothing.            *)
LEMMA DiskKeepsType ==
  ASSUME StagingTypeOK, UNCHANGED <<minted, old>>, NEW u \in Uploads,
         \/ UNCHANGED disk
         \/ \E S \in SUBSET Uploads : RmTree(S)
         \/ Unlink(u) \/ Rmdir(u) \/ Touch(u)
         \/ \E bytes \in Seq(Nat) : AppendData(u, bytes)
         \/ \E size \in Nat : Truncate(u, size)
         \/ \E m \in Progress : WriteMeta(u, m)
  PROVE  StagingTypeOK'
<1> USE StagingAssumption DEF StagingAssumption, StagingTypeOK
<1>1. CASE UNCHANGED disk
  BY <1>1 DEF disk
<1>2. CASE \E S \in SUBSET Uploads : RmTree(S)
  BY <1>2 DEF RmTree
<1>3. CASE Unlink(u) \/ Rmdir(u)
  BY <1>3 DEF Unlink, Rmdir
<1>4. CASE Touch(u)
  <2>1. <<>> \in Seq(Nat)
    OBVIOUS
  <2> QED BY <1>4, <2>1 DEF Touch
<1>5. CASE \E bytes \in Seq(Nat) : AppendData(u, bytes)
  <2>1. PICK bytes \in Seq(Nat) : AppendData(u, bytes)
    BY <1>5
  <2>2. data[u] # None => data[u] \o bytes \in Seq(Nat)
    BY ConcatProperties
  <2> QED BY <2>1, <2>2 DEF AppendData
<1>6. CASE \E size \in Nat : Truncate(u, size)
  <2>1. PICK size \in Nat : Truncate(u, size)
    BY <1>6
  <2>2. data[u] \in Seq(Nat)
    BY <2>1 DEF Truncate
  <2>3. [i \in 1..size |-> IF i <= Len(data[u]) THEN data[u][i] ELSE 0] \in Seq(Nat)
    BY <2>2
  <2> QED BY <2>1, <2>3 DEF Truncate
<1>7. CASE \E m \in Progress : WriteMeta(u, m)
  BY <1>7 DEF WriteMeta
<1> QED BY <1>1, <1>2, <1>3, <1>4, <1>5, <1>6, <1>7

(* Only the holder of the lock changes what is counted, so a step of one    *)
(* thread leaves the others as they are.                                   *)
Aside(t) ==
  \A s \in Threads \ {t} :
    /\ pc'[s] = pc[s] /\ op'[s] = op[s] /\ id'[s] = id[s] /\ idx'[s] = idx[s]
    /\ chunks'[s] = chunks[s] /\ mem'[s] = mem[s] /\ undo'[s] = undo[s]

LEMMA OthersKeepWork ==
  ASSUME TypeInv, LockInv, NEW t \in Threads, Aside(t),
         counted' = counted \/ pc[t] \in Locked,
         Work(t)', TallyAt(t)', \A u \in Uploads : Tally(u)'
  PROVE  WorkInv' /\ CountInv'
<1>1. WorkInv'
  BY DEF TypeInv, WorkInv, Work, Aside
<1>2. ASSUME NEW s \in Threads, s # t
      PROVE  TallyAt(s)'
  <2>1. CASE counted' = counted
    BY <1>2, <2>1 DEF TypeInv, CountInv, TallyAt, Aside
  <2>2. CASE pc[t] \in Locked
    <3>1. pc[s] \notin Locked
      BY <1>2, <2>2 DEF LockInv
    <3> QED BY <1>2, <3>1 DEF TallyAt, Aside, Locked, Writing, Undoing
  <2> QED BY <2>1, <2>2
<1> QED BY <1>1, <1>2 DEF CountInv

(* begin_upload. *)
LEMMA BeginKeepsType ==
  ASSUME TypeInv, LockInv, NEW t \in Threads,
         Begin(t) \/ BeginTouch(t) \/ BeginMeta(t)
  PROVE  TypeInv'
<1> USE StagingAssumption, IngestAssumption
    DEF StagingAssumption, IngestAssumption, At, Goto, Set, Reply, Free, Hold,
        Release
<1>1. CASE Begin(t)
  <2>1. PICK u \in Uploads : Mkdir(u) /\ id' = [id EXCEPT ![t] = u]
    BY <1>1 DEF Begin
  <2>2. /\ pc[t] = "begin" /\ pc' = [pc EXCEPT ![t] = "begin_touch"]
        /\ lock' = t
        /\ UNCHANGED <<romDirs, files, owner, old, op, out, idx, chunks, mem, undo,
                       who, rom, dir, name, todo, left, restarts, counted, acked,
                       spoiled>>
    BY <1>1 DEF Begin, storeVars, bounds, history
  <2>3. StagingTypeOK'
    BY <2>1, <2>2 DEF TypeInv, TypeOK, StagingTypeOK, Mkdir, Swept
  <2>4. TypeOK'
    <3>1. StoreTypeOK' /\ StoringTypeOK' /\ HistoryTypeOK'
      BY <2>2 DEF TypeInv, TypeOK, StoreTypeOK, StoringTypeOK, HistoryTypeOK
    <3>2. ControlTypeOK' /\ UploadTypeOK'
      BY <2>1, <2>2 DEF TypeInv, TypeOK, ControlTypeOK, UploadTypeOK, Labels, Locked
    <3> QED BY <2>3, <3>1, <3>2 DEF TypeOK
  <2>5. Aside(t) /\ pc'[t] = "begin_touch" /\ id'[t] = u
    BY <2>1, <2>2 DEF Aside, TypeInv, TypeOK, ControlTypeOK, UploadTypeOK
  <2>6. Work(t)'
    BY <2>2, <2>5
       DEF TypeInv, WorkInv, Work, OnUpload, Locked, Listing, Writing, Undoing
  <2>7. TallyAt(t)' /\ \A v \in Uploads : Tally(v)'
    BY <2>1, <2>2, <2>5
       DEF TypeInv, CountInv, Tally, TallyAt, Mkdir, Writing, Undoing
  <2> QED BY <2>2, <2>4, <2>5, <2>6, <2>7, OthersKeepWork DEF TypeInv
<1>2. CASE BeginTouch(t) \/ BeginMeta(t)
  <2>1. /\ pc[t] \in {"begin_touch", "begin_meta"} /\ id[t] \in Uploads
        /\ counted[id[t]] = <<>>
    BY <1>2 DEF BeginTouch, BeginMeta, TypeInv, WorkInv, Work, CountInv, TallyAt,
                OnUpload, Locked
  <2>2. /\ UNCHANGED <<romDirs, files, owner, minted, old, op, id, idx, chunks, mem,
                       undo, who, rom, dir, name, todo, left, restarts, counted,
                       spoiled>>
        /\ \E label \in {"begin_meta", "answer"} : pc' = [pc EXCEPT ![t] = label]
        /\ \E r \in Replies : out' = [out EXCEPT ![t] = r]
        /\ lock' \in {lock, None}
    BY <1>2 DEF BeginTouch, BeginMeta, storeVars, bounds, history, Replies, TypeInv,
                TypeOK, ControlTypeOK
  <2>3. acked' = acked \/ \E s \in Seq(Nat) : acked' = [acked EXCEPT ![id[t]] = s]
    <3>1. <<>> \in Seq(Nat)
      OBVIOUS
    <3> QED BY <1>2, <3>1 DEF BeginTouch, BeginMeta, history
  <2>4. \/ UNCHANGED disk
        \/ Touch(id[t])
        \/ WriteMeta(id[t], [next |-> 0, received |-> 0])
    BY <1>2 DEF BeginTouch, BeginMeta
  <2>5. StagingTypeOK'
    <3>1. [next |-> 0, received |-> 0] \in Progress
      BY DEF Progress
    <3> QED BY <2>1, <2>2, <2>4, <3>1, DiskKeepsType DEF TypeInv, TypeOK
  <2>6. TypeOK'
    <3>1. StoreTypeOK' /\ StoringTypeOK' /\ UploadTypeOK'
      BY <2>2 DEF TypeInv, TypeOK, StoreTypeOK, StoringTypeOK, UploadTypeOK
    <3>2. ControlTypeOK'
      BY <2>2 DEF TypeInv, TypeOK, ControlTypeOK, Labels, Locked
    <3>3. HistoryTypeOK'
      <4>1. acked' \in [Uploads -> Seq(Nat) \cup {None}]
        BY <2>3 DEF TypeInv, TypeOK, HistoryTypeOK
      <4> QED BY <2>2, <4>1 DEF TypeInv, TypeOK, HistoryTypeOK
    <3> QED BY <2>5, <3>1, <3>2, <3>3 DEF TypeOK
  <2>7. Aside(t) /\ pc'[t] \in {"begin_meta", "answer"}
    BY <2>2 DEF Aside, TypeInv, TypeOK, ControlTypeOK
  <2>8. Work(t)'
    BY <2>1, <2>2, <2>7
       DEF TypeInv, WorkInv, Work, OnUpload, Locked, Listing, Writing, Undoing
  <2>9. TallyAt(t)' /\ \A v \in Uploads : Tally(v)'
    BY <2>1, <2>2, <2>4, <2>7
       DEF TypeInv, CountInv, Tally, TallyAt, Touch, WriteMeta, disk, Writing,
           Undoing, TypeOK, StagingTypeOK
  <2> QED BY <2>2, <2>6, <2>7, <2>8, <2>9, OthersKeepWork DEF TypeInv
<1> QED BY <1>1, <1>2

(* get_upload, append_chunk and append_chunks up to the first write.       *)
LEMMA LoadKeepsType ==
  ASSUME TypeInv, LockInv, NEW t \in Threads, Load(t)
  PROVE  TypeInv'
<1> USE StagingAssumption, IngestAssumption
    DEF StagingAssumption, IngestAssumption, At, Goto, Set, Reply, Free, Hold,
        Release
<1>1. /\ pc[t] = "load" /\ id[t] \in Uploads
      /\ op[t] \in {"get", "append", "batch"}
      /\ op[t] # "get" => Len(chunks[t]) > 0
      /\ op[t] = "append" => Len(chunks[t]) = 1
      /\ meta[id[t]] \in Progress \cup {None} /\ data[id[t]] \in Seq(Nat) \cup {None}
      /\ chunks[t] \in Seq(Chunks) /\ idx[t] \in Nat
  BY DEF Load, TypeInv, WorkInv, Work, OnUpload, TypeOK, StagingTypeOK, UploadTypeOK
<1>2. /\ UNCHANGED <<romDirs, files, owner, minted, old, op, id, idx, chunks, who, rom,
                     dir, name, todo, left, restarts, counted, spoiled>>
      /\ RmTree(Swept)
  BY DEF Load, storeVars, bounds
<1>3. acked' = acked \/ acked' = [acked EXCEPT ![id[t]] = counted[id[t]]]
  BY DEF Load, Tell
<1>4. \/ /\ \E r \in Replies : out' = [out EXCEPT ![t] = r]
         /\ pc' = [pc EXCEPT ![t] = "answer"]
         /\ UNCHANGED <<lock, mem, undo>>
      \/ /\ Live(id[t]) /\ op[t] # "get" /\ lock' = t
         /\ op[t] = "batch" => data[id[t]] # None
         /\ mem' = [mem EXCEPT ![t] = meta[id[t]]]
         /\ undo' = IF op[t] = "append" THEN undo
                    ELSE [undo EXCEPT ![t] = [meta |-> meta[id[t]],
                                              size |-> Len(data[id[t]])]]
         /\ \/ Fits(meta[id[t]], idx[t], chunks[t][1]) /\ pc' = [pc EXCEPT ![t] = "write"]
            \/ op[t] = "batch" /\ pc' = [pc EXCEPT ![t] = "rollback"]
         /\ out' = out
  BY <1>1 DEF Load, Apply, Replies
<1>5. StagingTypeOK'
  <2>1. Swept \in SUBSET Uploads
    BY DEF Swept, TypeInv, TypeOK, StagingTypeOK
  <2> QED BY <1>1, <1>2, <2>1, DiskKeepsType DEF TypeInv, TypeOK
<1>6. StoreTypeOK' /\ StoringTypeOK'
  BY <1>2 DEF TypeInv, TypeOK, StoreTypeOK, StoringTypeOK
<1>7. HistoryTypeOK'
  BY <1>1, <1>2, <1>3 DEF TypeInv, TypeOK, HistoryTypeOK
<1>8. Live(id[t]) => meta[id[t]] \in Progress
  BY <1>1 DEF Live, Swept, Expired
<1>9. ControlTypeOK'
  BY <1>2, <1>4 DEF TypeInv, TypeOK, ControlTypeOK, Labels, Locked
<1>10. UploadTypeOK'
  <2>1. CASE UNCHANGED <<mem, undo>>
    BY <1>2, <2>1 DEF TypeInv, TypeOK, UploadTypeOK
  <2>2. CASE Live(id[t]) /\ op[t] = "append"
    BY <1>1, <1>2, <1>4, <1>8, <2>2 DEF TypeInv, TypeOK, UploadTypeOK
  <2>3. CASE Live(id[t]) /\ op[t] = "batch" /\ data[id[t]] # None
    <3>1. [meta |-> meta[id[t]], size |-> Len(data[id[t]])] \in [meta : Progress, size : Nat]
      BY <1>1, <1>8, <2>3
    <3>2. /\ \/ undo' = undo
             \/ \E r \in [meta : Progress, size : Nat] : undo' = [undo EXCEPT ![t] = r]
          /\ mem' = mem \/ \E m \in Progress : mem' = [mem EXCEPT ![t] = m]
      BY <1>4, <1>8, <2>3, <3>1
    <3>3. undo' \in [Threads -> [meta : Progress, size : Nat] \cup {None}]
      BY <3>2 DEF TypeInv, TypeOK, UploadTypeOK
    <3>4. mem' \in [Threads -> Progress \cup {None}]
      BY <3>2 DEF TypeInv, TypeOK, UploadTypeOK
    <3> QED BY <1>2, <3>3, <3>4 DEF TypeInv, TypeOK, UploadTypeOK
  <2> QED BY <1>1, <1>4, <2>1, <2>2, <2>3
<1>11. TypeOK'
  BY <1>5, <1>6, <1>7, <1>9, <1>10 DEF TypeOK
<1>12. Aside(t) /\ pc'[t] \in {"answer", "write", "rollback"}
  BY <1>2, <1>4 DEF Aside, TypeInv, TypeOK, ControlTypeOK, UploadTypeOK
<1>13. \A u \in Uploads : Tally(u)'
  BY <1>2 DEF RmTree, TypeInv, CountInv, Tally
<1>14. Work(t)' /\ TallyAt(t)'
  <2>1. CASE pc'[t] = "answer"
    BY <1>1, <1>2, <2>1
       DEF Work, TallyAt, OnUpload, Locked, Listing, Writing, Undoing
  <2>2. CASE pc'[t] # "answer"
    <3>1. /\ Live(id[t]) /\ meta[id[t]] \in Progress
          /\ meta[id[t]].received = Len(counted[id[t]])
      BY <1>1, <1>4, <1>8, <2>2
         DEF TypeInv, CountInv, Tally, TypeOK, ControlTypeOK
    <3>2. /\ mem'[t] = meta[id[t]]
          /\ op[t] = "batch" =>
               undo'[t] = [meta |-> meta[id[t]], size |-> Len(data[id[t]])]
                 /\ data[id[t]] # None
          /\ op[t] \in {"append", "batch"}
      BY <1>1, <1>4, <2>2 DEF TypeInv, TypeOK, ControlTypeOK, UploadTypeOK
    <3>3. /\ pc'[t] = "write" => idx[t] = meta[id[t]].next
          /\ pc'[t] = "rollback" => op[t] = "batch"
      BY <1>1, <1>4, <2>2 DEF Fits, TypeInv, TypeOK, ControlTypeOK
    <3>4. Work(t)'
      <4>1. op[t] = "batch" => undo'[t] \in [meta : Progress, size : Nat]
        BY <1>1, <3>1, <3>2
      <4>2. pc'[t] = "write" => mem'[t].next - idx[t] = 0
        BY <1>1, <3>1, <3>2, <3>3 DEF Progress
      <4>3. 0 \in 0..(Len(chunks[t]) - 1)
        BY <1>1, <3>2
      <4> QED BY <1>1, <1>2, <1>12, <2>2, <3>1, <3>2, <3>3, <4>1, <4>2, <4>3
              DEF Work, OnUpload, Locked, Listing, Writing, Undoing
    <3>5. TallyAt(t)'
      BY <1>1, <1>2, <1>12, <2>2, <3>1, <3>2
         DEF TallyAt, Writing, Undoing, Progress
    <3> QED BY <3>4, <3>5
  <2> QED BY <2>1, <2>2
<1> QED BY <1>2, <1>11, <1>12, <1>13, <1>14, OthersKeepWork DEF TypeInv

(* The slice being written is one of those the client has sent.            *)
LEMMA CurrentIsSent ==
  ASSUME TypeInv, NEW t \in Threads, pc[t] \in Writing
  PROVE  /\ Current(t) \in Seq(Nat)
         /\ id[t] \in Uploads /\ mem[t] \in Progress
         /\ mem[t].received = Len(counted[id[t]])
         /\ counted[id[t]] \in Seq(Nat) /\ Len(counted[id[t]]) \in Nat
         /\ Len(Current(t)) \in Nat
         /\ idx[t] \in Nat /\ Len(chunks[t]) \in Nat
<1>1. /\ chunks[t] \in Seq(Chunks) /\ idx[t] \in Nat /\ mem[t] \in Progress
      /\ mem[t].next - idx[t] \in 0..(Len(chunks[t]) - 1)
      /\ id[t] \in Uploads
  BY DEF TypeInv, TypeOK, UploadTypeOK, WorkInv, Work, OnUpload, Locked, Writing
<1>2. mem[t].received = Len(counted[id[t]]) /\ counted[id[t]] \in Seq(Nat)
  BY <1>1 DEF TypeInv, CountInv, TallyAt, TypeOK, HistoryTypeOK
<1>3. Len(chunks[t]) \in Nat
  BY <1>1
<1>4. mem[t].next - idx[t] + 1 \in 1..Len(chunks[t])
  BY <1>1, <1>3
<1>5. Current(t) \in Chunks
  BY <1>1, <1>4, ElementOfSeq DEF Current
<1>6. Current(t) \in Seq(Nat)
  BY <1>5, IngestAssumption DEF IngestAssumption
<1> QED BY <1>1, <1>2, <1>3, <1>6

(* The bytes of a slice. *)
LEMMA WriteDataKeepsType ==
  ASSUME TypeInv, LockInv, NEW t \in Threads, WriteData(t)
  PROVE  TypeInv'
<1> USE StagingAssumption, IngestAssumption
    DEF StagingAssumption, IngestAssumption, At, Goto, Set, Reply, Release, Fail
<1>1. /\ pc[t] = "write" /\ pc[t] \in Locked /\ pc[t] \in Writing
      /\ op[t] \in {"append", "batch"}
      /\ op[t] = "batch" => undo[t] \in [meta : Progress, size : Nat]
      /\ op[t] = "append" => Len(chunks[t]) = 1
      /\ mem[t].next - idx[t] \in 0..(Len(chunks[t]) - 1)
  BY DEF WriteData, Writing, Locked, TypeInv, WorkInv, Work
<1>2. /\ Current(t) \in Seq(Nat) /\ id[t] \in Uploads /\ mem[t] \in Progress
      /\ mem[t].received = Len(counted[id[t]])
  BY <1>1, CurrentIsSent
<1>3. /\ UNCHANGED <<romDirs, files, owner, minted, old, op, id, idx, chunks, mem,
                     undo, who, rom, dir, name, todo, left, restarts, counted, acked>>
      /\ UNCHANGED disk \/ AppendData(id[t], Current(t))
      /\ spoiled' \subseteq spoiled \cup {id[t]}
  BY DEF WriteData, storeVars, bounds, SpoilUnlessBatch, Spoil
<1>4. /\ \/ pc' = [pc EXCEPT ![t] = "write_meta"] /\ lock' = lock
         \/ op[t] = "batch" /\ pc' = [pc EXCEPT ![t] = "rollback"] /\ lock' = lock
         \/ pc' = [pc EXCEPT ![t] = "answer"] /\ lock' = None
      /\ out' \in [Threads -> Replies]
  BY DEF WriteData, TypeInv, TypeOK, ControlTypeOK, Replies
<1>5. StagingTypeOK'
  BY <1>2, <1>3, DiskKeepsType DEF TypeInv, TypeOK
<1>6. StoreTypeOK' /\ StoringTypeOK' /\ UploadTypeOK' /\ HistoryTypeOK'
  BY <1>2, <1>3
     DEF TypeInv, TypeOK, StoreTypeOK, StoringTypeOK, UploadTypeOK, HistoryTypeOK
<1>7. ControlTypeOK'
  BY <1>3, <1>4 DEF TypeInv, TypeOK, ControlTypeOK, Labels, Locked
<1>8. Aside(t) /\ pc'[t] \in {"write_meta", "rollback", "answer"}
      /\ (pc'[t] = "rollback" => op[t] = "batch")
  BY <1>3, <1>4 DEF Aside, TypeInv, TypeOK, ControlTypeOK
<1>9. \A u \in Uploads : Tally(u)'
  BY <1>3 DEF AppendData, disk, TypeInv, CountInv, Tally
<1>10. Work(t)'
  BY <1>1, <1>2, <1>3, <1>8
     DEF Work, OnUpload, Locked, Listing, Writing, Undoing
<1>11. TallyAt(t)'
  BY <1>1, <1>2, <1>3, <1>8 DEF TypeInv, CountInv, TallyAt, Writing, Undoing
<1> QED BY <1>3, <1>5, <1>6, <1>7, <1>8, <1>9, <1>10, <1>11, OthersKeepWork
        DEF TypeInv, TypeOK

LEMMA NextSlice ==
  ASSUME NEW next \in Nat, NEW first \in Nat, NEW n \in Nat, NEW new,
         next - first \in 0..(n - 1), new = next + 1, new - first < n
  PROVE  n # 1 /\ new - first \in 0..(n - 1)
OBVIOUS

(* Its progress. *)
LEMMA WriteProgressKeepsType ==
  ASSUME TypeInv, LockInv, NEW t \in Threads, WriteProgress(t)
  PROVE  TypeInv'
<1> DEFINE new == After(mem[t], Current(t))
           bytes == counted[id[t]] \o Current(t)
<1> USE StagingAssumption, IngestAssumption
    DEF StagingAssumption, IngestAssumption, At, Goto, Set, Reply, Release, Fail
<1>1. /\ pc[t] = "write_meta" /\ pc[t] \in Locked /\ pc[t] \in Writing
      /\ op[t] \in {"append", "batch"}
      /\ op[t] = "batch" => undo[t] \in [meta : Progress, size : Nat]
      /\ op[t] = "append" => Len(chunks[t]) = 1
      /\ mem[t].next - idx[t] \in 0..(Len(chunks[t]) - 1)
      /\ op[t] = "batch" => undo[t].meta.received <= Len(counted[id[t]])
  BY DEF WriteProgress, Writing, Locked, TypeInv, WorkInv, Work, CountInv, TallyAt
<1>2. /\ Current(t) \in Seq(Nat) /\ id[t] \in Uploads /\ mem[t] \in Progress
      /\ mem[t].received = Len(counted[id[t]])
      /\ counted[id[t]] \in Seq(Nat) /\ Len(counted[id[t]]) \in Nat
      /\ Len(Current(t)) \in Nat /\ idx[t] \in Nat /\ Len(chunks[t]) \in Nat
  BY <1>1, CurrentIsSent
<1>3. /\ new \in Progress /\ new.next = mem[t].next + 1
      /\ new.received = mem[t].received + Len(Current(t))
  BY <1>2 DEF After, Progress
<1>4. bytes \in Seq(Nat) /\ Len(bytes) = Len(counted[id[t]]) + Len(Current(t))
  BY <1>2, ConcatProperties
<1>5. /\ UNCHANGED <<romDirs, files, owner, minted, old, op, id, idx, chunks, undo, who,
                     rom, dir, name, todo, left, restarts>>
      /\ spoiled' \subseteq spoiled \cup {id[t]}
      /\ acked' = acked \/ acked' = [acked EXCEPT ![id[t]] = bytes]
      /\ out' \in [Threads -> Replies]
  BY DEF WriteProgress, storeVars, bounds, SpoilUnlessBatch, Spoil, Tell, TypeInv,
         TypeOK, ControlTypeOK, Replies
<1>6. \/ /\ UNCHANGED <<disk, mem, counted>>
         /\ \/ op[t] = "batch" /\ pc' = [pc EXCEPT ![t] = "rollback"] /\ lock' = lock
            \/ pc' = [pc EXCEPT ![t] = "answer"] /\ lock' = None
      \/ /\ WriteMeta(id[t], new)
         /\ mem' = [mem EXCEPT ![t] = new]
         /\ counted' = [counted EXCEPT ![id[t]] = bytes]
         /\ \/ pc' = [pc EXCEPT ![t] = "answer"] /\ lock' = None
            \/ /\ new.next - idx[t] < Len(chunks[t])
               /\ \E label \in {"write", "rollback"} : pc' = [pc EXCEPT ![t] = label]
               /\ lock' = lock
  BY DEF WriteProgress
<1> HIDE DEF new, bytes
<1>7. \E label \in {"answer", "write", "rollback"} :
        /\ pc' = [pc EXCEPT ![t] = label]
        /\ lock' \in {lock, None}
  BY <1>6
<1>8. StagingTypeOK'
  BY <1>2, <1>3, <1>5, <1>6, DiskKeepsType DEF TypeInv, TypeOK
<1>9. StoreTypeOK' /\ StoringTypeOK' /\ ControlTypeOK'
  BY <1>5, <1>7
     DEF TypeInv, TypeOK, StoreTypeOK, StoringTypeOK, ControlTypeOK, Labels, Locked
<1>10. UploadTypeOK' /\ HistoryTypeOK'
  <2>1. mem' \in [Threads -> Progress \cup {None}]
    BY <1>3, <1>6 DEF TypeInv, TypeOK, UploadTypeOK
  <2>2. counted' \in [Uploads -> Seq(Nat)]
    BY <1>4, <1>6 DEF TypeInv, TypeOK, HistoryTypeOK
  <2>3. acked' \in [Uploads -> Seq(Nat) \cup {None}]
    BY <1>4, <1>5 DEF TypeInv, TypeOK, HistoryTypeOK
  <2> QED BY <1>2, <1>5, <2>1, <2>2, <2>3
          DEF TypeInv, TypeOK, UploadTypeOK, HistoryTypeOK
<1>11. /\ Aside(t)
       /\ pc'[t] \in {"answer", "write", "rollback"}
       /\ id'[t] = id[t] /\ op'[t] = op[t] /\ undo'[t] = undo[t]
       /\ idx'[t] = idx[t] /\ chunks'[t] = chunks[t]
  BY <1>5, <1>6, <1>7 DEF Aside, TypeInv, TypeOK, ControlTypeOK, UploadTypeOK
<1>12. pc'[t] # "answer" =>
         \/ op[t] = "batch" /\ pc'[t] = "rollback" /\ UNCHANGED <<disk, mem, counted>>
         \/ /\ new.next - idx[t] < Len(chunks[t])
            /\ mem'[t] = new
            /\ counted'[id[t]] = bytes
  BY <1>2, <1>6
     DEF TypeInv, TypeOK, ControlTypeOK, UploadTypeOK, HistoryTypeOK
<1>13. \A u \in Uploads : Tally(u)'
  <2>1. CASE UNCHANGED <<disk, counted>>
    BY <1>5, <2>1 DEF disk, TypeInv, CountInv, Tally
  <2>2. CASE WriteMeta(id[t], new) /\ counted' = [counted EXCEPT ![id[t]] = bytes]
    <3>1. id[t] \in minted /\ meta' = [meta EXCEPT ![id[t]] = new]
      BY <2>2 DEF WriteMeta, TypeInv, TypeOK, StagingTypeOK
    <3>2. Len(bytes) = new.received
      BY <1>2, <1>3, <1>4
    <3> QED BY <1>5, <2>2, <3>1, <3>2
            DEF TypeInv, CountInv, Tally, TypeOK, StagingTypeOK, HistoryTypeOK
  <2> QED BY <1>6, <2>1, <2>2
<1>14. Work(t)'
  <2>1. CASE pc'[t] = "answer"
    BY <1>2, <1>11, <2>1 DEF Work, OnUpload, Locked, Listing, Writing, Undoing
  <2>2. CASE op[t] = "batch" /\ pc'[t] = "rollback"
    BY <1>1, <1>2, <1>11, <2>2
       DEF Work, OnUpload, Locked, Listing, Writing, Undoing
  <2>3. CASE new.next - idx[t] < Len(chunks[t]) /\ mem'[t] = new
    <3>3. mem[t].next \in Nat /\ idx[t] \in Nat /\ Len(chunks[t]) \in Nat
      BY <1>2 DEF Progress
    <3>4. mem'[t].next = mem[t].next + 1
      BY <1>3, <2>3
    <3>5. mem'[t].next - idx[t] < Len(chunks[t])
      BY <2>3
    <3>6. /\ Len(chunks[t]) # 1
          /\ mem'[t].next - idx[t] \in 0..(Len(chunks[t]) - 1)
      BY <1>1, <3>3, <3>4, <3>5, NextSlice
    <3>1. op[t] = "batch"
      BY <1>1, <3>6
    <3>2. mem'[t].next - idx[t] \in 0..(Len(chunks[t]) - 1)
      BY <3>6
    <3> QED BY <1>1, <1>2, <1>3, <1>11, <2>3, <3>1, <3>2
            DEF Work, OnUpload, Locked, Listing, Writing, Undoing
  <2> QED BY <1>11, <1>12, <2>1, <2>2, <2>3
<1>15. TallyAt(t)'
  <2>1. CASE pc'[t] = "answer"
    BY <2>1 DEF TallyAt, Writing, Undoing
  <2>2. CASE op[t] = "batch" /\ pc'[t] = "rollback" /\ UNCHANGED <<disk, mem, counted>>
    BY <1>1, <1>2, <1>11, <2>2 DEF TallyAt, Writing, Undoing
  <2>3. CASE mem'[t] = new /\ counted'[id[t]] = bytes
    <3>1. mem'[t].received = Len(counted'[id[t]])
      BY <1>2, <1>3, <1>4, <2>3
    <3>2. op[t] = "batch" => undo[t].meta.received <= Len(counted'[id[t]])
      <4>1. op[t] = "batch" => undo[t].meta.received \in Nat
        BY <1>1 DEF Progress
      <4> QED BY <1>1, <1>2, <1>4, <2>3, <4>1
    <3> QED BY <1>11, <3>1, <3>2 DEF TallyAt, Writing, Undoing
  <2> QED BY <1>11, <1>12, <2>1, <2>2, <2>3
<1> QED BY <1>1, <1>8, <1>9, <1>10, <1>11, <1>13, <1>14, <1>15, OthersKeepWork
        DEF TypeInv, TypeOK

(* _rollback_upload. *)
LEMMA RollbackDataKeepsType ==
  ASSUME TypeInv, LockInv, NEW t \in Threads, RollbackData(t)
  PROVE  TypeInv'
<1> USE DEF At, Goto, Set, Reply, Release
<1>1. /\ pc[t] = "rollback" /\ id[t] \in Uploads /\ op[t] = "batch"
      /\ undo[t] \in [meta : Progress, size : Nat]
  BY DEF RollbackData, TypeInv, WorkInv, Work, OnUpload, Locked, Undoing
<1>2. /\ UNCHANGED <<romDirs, files, owner, minted, old, op, id, idx, chunks, mem, undo,
                     who, rom, dir, name, todo, left, restarts, counted, acked>>
      /\ UNCHANGED disk \/ Truncate(id[t], undo[t].size)
      /\ spoiled' \subseteq spoiled \cup {id[t]}
      /\ \E label \in {"rollback_meta", "answer"} : pc' = [pc EXCEPT ![t] = label]
      /\ lock' \in {lock, None}
      /\ out' \in [Threads -> Replies]
  BY DEF RollbackData, storeVars, bounds, Spoil, TypeInv, TypeOK, ControlTypeOK,
         Replies
<1>3. StagingTypeOK'
  <2>1. undo[t].size \in Nat
    BY <1>1
  <2> QED BY <1>1, <1>2, <2>1, DiskKeepsType DEF TypeInv, TypeOK
<1>4. StoreTypeOK' /\ StoringTypeOK' /\ UploadTypeOK' /\ HistoryTypeOK'
  BY <1>1, <1>2
     DEF TypeInv, TypeOK, StoreTypeOK, StoringTypeOK, UploadTypeOK, HistoryTypeOK
<1>5. ControlTypeOK'
  BY <1>2 DEF TypeInv, TypeOK, ControlTypeOK, Labels, Locked
<1>6. Aside(t) /\ pc'[t] \in {"rollback_meta", "answer"}
  BY <1>2 DEF Aside, TypeInv, TypeOK, ControlTypeOK
<1>7. \A u \in Uploads : Tally(u)'
  BY <1>2 DEF Truncate, disk, TypeInv, CountInv, Tally
<1>8. Work(t)' /\ TallyAt(t)'
  BY <1>1, <1>2, <1>6
     DEF TypeInv, CountInv, TallyAt, Work, OnUpload, Locked, Listing, Writing, Undoing
<1> QED BY <1>2, <1>3, <1>4, <1>5, <1>6, <1>7, <1>8, OthersKeepWork
        DEF TypeInv, TypeOK

(* A file truncated to n bytes is n bytes long, with zeros where it was    *)
(* shorter.                                                                *)
LEMMA PaddedTo ==
  ASSUME NEW s \in Seq(Nat), NEW n \in Nat
  PROVE  LET p == [i \in 1..n |-> IF i <= Len(s) THEN s[i] ELSE 0]
         IN  p \in Seq(Nat) /\ Len(p) = n
<1> DEFINE p == [i \in 1..n |-> IF i <= Len(s) THEN s[i] ELSE 0]
<1>1. p \in [1..n -> Nat]
  OBVIOUS
<1> QED BY <1>1

(* The first n elements of a sequence, as rollback restores them. *)
LEMMA FrontOf ==
  ASSUME NEW s \in Seq(Nat), NEW n \in Nat, n <= Len(s)
  PROVE  /\ SubSeq(s, 1, n) \in Seq(Nat) /\ Len(SubSeq(s, 1, n)) = n
         /\ \A i \in 1..n : SubSeq(s, 1, n)[i] = s[i]
<1> QED OBVIOUS

LEMMA RollbackMetaKeepsType ==
  ASSUME TypeInv, LockInv, NEW t \in Threads, RollbackMeta(t)
  PROVE  TypeInv'
<1> DEFINE back == SubSeq(counted[id[t]], 1, undo[t].meta.received)
<1> USE DEF At, Goto, Set, Reply, Release
<1>1. /\ pc[t] = "rollback_meta" /\ pc[t] \in Locked
      /\ id[t] \in Uploads /\ op[t] = "batch"
      /\ undo[t] \in [meta : Progress, size : Nat]
      /\ undo[t].meta.received <= Len(counted[id[t]])
      /\ counted[id[t]] \in Seq(Nat)
  BY DEF RollbackMeta, TypeInv, WorkInv, Work, OnUpload, Locked, Undoing, CountInv,
         TallyAt, TypeOK, HistoryTypeOK
<1>2. undo[t].meta \in Progress /\ undo[t].meta.received \in Nat
  BY <1>1 DEF Progress
<1>3. back \in Seq(Nat) /\ Len(back) = undo[t].meta.received
  BY <1>1, <1>2, FrontOf
<1>4. /\ UNCHANGED <<romDirs, files, owner, minted, old, op, id, idx, chunks, mem, undo,
                     who, rom, dir, name, todo, left, restarts, acked>>
      /\ spoiled' \subseteq spoiled \cup {id[t]}
      /\ pc' = [pc EXCEPT ![t] = "answer"]
      /\ lock' = None
      /\ out' \in [Threads -> Replies]
      /\ \/ UNCHANGED <<disk, counted>>
         \/ /\ WriteMeta(id[t], undo[t].meta)
            /\ counted' = [counted EXCEPT ![id[t]] = back]
  BY DEF RollbackMeta, storeVars, bounds, Spoil, TypeInv, TypeOK, ControlTypeOK,
         Replies
<1> HIDE DEF back
<1>5. StagingTypeOK'
  BY <1>1, <1>2, <1>4, DiskKeepsType DEF TypeInv, TypeOK
<1>6. StoreTypeOK' /\ StoringTypeOK' /\ UploadTypeOK' /\ ControlTypeOK'
  BY <1>4
     DEF TypeInv, TypeOK, StoreTypeOK, StoringTypeOK, UploadTypeOK, ControlTypeOK,
         Labels, Locked
<1>7. HistoryTypeOK'
  <2>1. counted' \in [Uploads -> Seq(Nat)]
    BY <1>3, <1>4 DEF TypeInv, TypeOK, HistoryTypeOK
  <2> QED BY <1>1, <1>4, <2>1 DEF TypeInv, TypeOK, HistoryTypeOK
<1>8. Aside(t) /\ pc'[t] = "answer"
  BY <1>4 DEF Aside, TypeInv, TypeOK, ControlTypeOK
<1>9. \A u \in Uploads : Tally(u)'
  <2>1. CASE UNCHANGED <<disk, counted>>
    BY <1>4, <2>1 DEF disk, TypeInv, CountInv, Tally
  <2>2. CASE /\ WriteMeta(id[t], undo[t].meta)
             /\ counted' = [counted EXCEPT ![id[t]] = back]
    <3>1. id[t] \in minted /\ meta' = [meta EXCEPT ![id[t]] = undo[t].meta]
      BY <2>2 DEF WriteMeta, TypeInv, TypeOK, StagingTypeOK
    <3> QED BY <1>3, <1>4, <2>2, <3>1
            DEF TypeInv, CountInv, Tally, TypeOK, StagingTypeOK, HistoryTypeOK
  <2> QED BY <1>4, <2>1, <2>2
<1>10. Work(t)' /\ TallyAt(t)'
  BY <1>1, <1>4, <1>8
     DEF TallyAt, Work, OnUpload, Locked, Listing, Writing, Undoing
<1> QED BY <1>1, <1>5, <1>6, <1>7, <1>8, <1>9, <1>10, OthersKeepWork
        DEF TypeInv, TypeOK

LEMMA OneChanges ==
  ASSUME NEW S, NEW T, NEW f \in [T -> S], NEW t \in T, NEW g,
         g = f \/ \E v \in S : g = [f EXCEPT ![t] = v]
  PROVE  g \in [T -> S] /\ \A s \in T : s # t => g[s] = f[s]
OBVIOUS

(* delete_upload, and the sweep of list_games. *)
LEMMA SweepKeepsType ==
  ASSUME TypeInv, LockInv, NEW t \in Threads,
         Delete(t) \/ List(t) \/ ListNext(t) \/ ListUnlink(t) \/ ListRmdir(t)
  PROVE  TypeInv'
<1> USE StagingAssumption DEF StagingAssumption, At, Goto, Set, Reply, Free
<1>1. /\ UNCHANGED <<romDirs, files, owner, minted, old, op, idx, chunks, mem, undo,
                     who, rom, dir, name, left, restarts, counted, lock>>
      /\ \E label \in {"answer", "list_next", "list_unlink", "list_rmdir"} :
           pc' = [pc EXCEPT ![t] = label]
  BY DEF Delete, List, ListNext, ListUnlink, ListRmdir, storeVars, bounds, history,
         stagingVars, locals, TypeInv, TypeOK, ControlTypeOK
<1>2. out' \in [Threads -> Replies]
  BY DEF Delete, List, ListNext, ListUnlink, ListRmdir, locals, TypeInv, TypeOK,
         ControlTypeOK, Replies
<1>3. /\ id' \in [Threads -> Uploads \cup {None}]
      /\ \A s \in Threads : s # t => id'[s] = id[s]
      /\ todo' \in [Threads -> SUBSET (Uploads \cup Names)]
  <2> USE DEF TypeInv, TypeOK, UploadTypeOK, StoringTypeOK, StagingTypeOK
  <2>1. CASE Delete(t) \/ ListUnlink(t) \/ ListRmdir(t)
    BY <2>1 DEF Delete, ListUnlink, ListRmdir, locals
  <2>2. CASE List(t)
    <3>1. dirs \in SUBSET (Uploads \cup Names)
      OBVIOUS
    <3>2. id' = id /\ todo' = [todo EXCEPT ![t] = dirs]
      BY <2>2 DEF List
    <3> QED BY <3>1, <3>2
  <2>3. CASE ListNext(t)
    <3>1. /\ id' = id \/ \E u \in Uploads : id' = [id EXCEPT ![t] = u]
          /\ \/ todo' = todo
             \/ \E S \in SUBSET (Uploads \cup Names) : todo' = [todo EXCEPT ![t] = S]
      <4>1. CASE UNCHANGED <<id, todo>>
        BY <4>1
      <4>2. ASSUME NEW u \in todo[t],
                   todo' = [todo EXCEPT ![t] = todo[t] \ {u}],
                   id' = id \/ (Expired(u) /\ id' = [id EXCEPT ![t] = u])
            PROVE  /\ id' = id \/ \E v \in Uploads : id' = [id EXCEPT ![t] = v]
                   /\ \E S \in SUBSET (Uploads \cup Names) :
                        todo' = [todo EXCEPT ![t] = S]
        <5>1. todo[t] \ {u} \in SUBSET (Uploads \cup Names)
          OBVIOUS
        <5>2. Expired(u) => u \in Uploads
          BY DEF Expired
        <5> QED BY <4>2, <5>1, <5>2
      <4> QED BY <2>3, <4>1, <4>2 DEF ListNext
    <3>2. id' \in [Threads -> Uploads \cup {None}] /\ \A s \in Threads : s # t => id'[s] = id[s]
      <4>1. id' = id \/ \E u \in Uploads \cup {None} : id' = [id EXCEPT ![t] = u]
        BY <3>1
      <4>2. id \in [Threads -> Uploads \cup {None}]
        OBVIOUS
      <4> HIDE DEF TypeInv, TypeOK
      <4> QED BY <4>1, <4>2, OneChanges
    <3>3. todo' \in [Threads -> SUBSET (Uploads \cup Names)]
      BY <3>1, OneChanges
    <3> QED BY <3>2, <3>3
  <2> QED BY <2>1, <2>2, <2>3
<1>4. StagingTypeOK'
  <2>1. CASE Delete(t)
    <3>1. id[t] \in Uploads
      BY <2>1 DEF Delete, TypeInv, WorkInv, Work, OnUpload
    <3> QED BY <1>1, <2>1, <3>1, DiskKeepsType DEF Delete, TypeInv, TypeOK
  <2>2. CASE List(t) \/ ListNext(t)
    BY <2>2 DEF List, ListNext, stagingVars, disk, TypeInv, TypeOK, StagingTypeOK
  <2>3. CASE ListUnlink(t) \/ ListRmdir(t)
    <3>1. id[t] \in Uploads
      BY <2>3 DEF ListUnlink, ListRmdir, TypeInv, WorkInv, Work, OnUpload
    <3> QED BY <1>1, <2>3, <3>1, DiskKeepsType
            DEF ListUnlink, ListRmdir, TypeInv, TypeOK
  <2> QED BY <2>1, <2>2, <2>3
<1>5. HistoryTypeOK'
  <2>1. acked' = acked \/ acked' = [acked EXCEPT ![id[t]] = None]
    BY DEF Delete, List, ListNext, ListUnlink, ListRmdir, history
  <2>2. acked' \in [Uploads -> Seq(Nat) \cup {None}]
    BY <2>1 DEF TypeInv, TypeOK, HistoryTypeOK
  <2>3. spoiled' = spoiled \/ \E u : spoiled' = spoiled \cup (({u} \cap Swept) \ old)
    BY DEF Delete, List, ListNext, ListUnlink, ListRmdir, history
  <2>4. Swept \subseteq Uploads
    BY DEF Swept, TypeInv, TypeOK, StagingTypeOK
  <2>5. spoiled' \subseteq Uploads
    BY <2>3, <2>4 DEF TypeInv, TypeOK, HistoryTypeOK
  <2> QED BY <1>1, <2>2, <2>5 DEF TypeInv, TypeOK, HistoryTypeOK
<1>6. TypeOK'
  <2>1. ControlTypeOK'
    BY <1>1, <1>2 DEF TypeInv, TypeOK, ControlTypeOK, Labels
  <2>2. StoreTypeOK' /\ StoringTypeOK' /\ UploadTypeOK'
    BY <1>1, <1>3 DEF TypeInv, TypeOK, StoreTypeOK, StoringTypeOK, UploadTypeOK
  <2> QED BY <1>4, <1>5, <2>1, <2>2 DEF TypeOK
<1>7. Aside(t)
  BY <1>1, <1>3 DEF Aside, TypeInv, TypeOK, ControlTypeOK
<1>8. \A u \in Uploads : Tally(u)'
  BY <1>1
     DEF Delete, List, ListNext, ListUnlink, ListRmdir, RmTree, Unlink, Rmdir,
         stagingVars, disk, TypeInv, CountInv, Tally, TypeOK, StagingTypeOK
<1>9. /\ pc'[t] \in {"answer", "list_next", "list_unlink", "list_rmdir"}
      /\ pc'[t] \in Listing => op[t] = "list"
      /\ pc'[t] \in {"list_unlink", "list_rmdir"} => id'[t] \in Uploads
      /\ op[t] = "finalize" => id'[t] \in Uploads
  <2> USE DEF TypeInv, WorkInv, Work, OnUpload, Listing, TypeOK, ControlTypeOK,
              UploadTypeOK
  <2>1. CASE Delete(t)
    BY <2>1 DEF Delete
  <2>2. CASE List(t)
    BY <2>2 DEF List
  <2>3. CASE ListNext(t)
    BY <2>3 DEF ListNext, Expired, StagingTypeOK
  <2>4. CASE ListUnlink(t) \/ ListRmdir(t)
    BY <2>4 DEF ListUnlink, ListRmdir, locals
  <2> QED BY <2>1, <2>2, <2>3, <2>4
<1>10. Work(t)'
  BY <1>1, <1>9 DEF Work, OnUpload, Locked, Listing, Writing, Undoing
<1>11. TallyAt(t)'
  BY <1>1 DEF TallyAt, Writing, Undoing, TypeInv, TypeOK, ControlTypeOK
<1> QED BY <1>1, <1>6, <1>7, <1>8, <1>10, <1>11, OthersKeepWork DEF TypeInv

LEMMA FileChanges ==
  ASSUME NEW S, NEW f \in [Subdirs -> [Names -> S]], NEW d, NEW n, NEW v \in S, NEW g,
         g = f \/ g = [f EXCEPT ![d][n] = v]
  PROVE  g \in [Subdirs -> [Names -> S]]
OBVIOUS

(* finalize_staged, add_rom and post_roms: the store. *)
LEMMA StoringKeepsType ==
  ASSUME TypeInv, LockInv, OwnInv, NEW t \in Threads,
         \/ Take(t) \/ Validate(t) \/ CheckOwner(t) \/ Allocate(t)
         \/ Persist(t) \/ Prune(t) \/ UnlinkNext(t) \/ MapOwner(t)
         \/ Answer(t)
  PROVE  TypeInv'
<1> USE StagingAssumption, IngestAssumption, RomStoreAssumption
    DEF StagingAssumption, IngestAssumption, RomStoreAssumption, At, Goto, Set,
        Reply, Finish, Free
<1> DEFINE Here == {"idle", "validate", "own", "allocate", "persist", "replace", "prune",
                    "unlink", "map", "delete", "answer"}
<1>1. /\ UNCHANGED <<minted, old, lock, left, restarts, counted, acked, spoiled>>
      /\ UNCHANGED disk \/ RmTree(Swept)
      /\ \E label \in Here : pc' = [pc EXCEPT ![t] = label]
  <2>1. UNCHANGED <<minted, old, lock, left, restarts, counted, acked, spoiled>>
    BY DEF Take, Validate, CheckOwner, Allocate, Persist, Prune, UnlinkNext, MapOwner,
           Answer, stagingVars, bounds, history
  <2>2. UNCHANGED disk \/ RmTree(Swept)
    BY DEF Take, Validate, CheckOwner, Allocate, Persist, Prune, UnlinkNext, MapOwner,
           Answer, stagingVars
  <2>3. \E label \in Here : pc' = [pc EXCEPT ![t] = label]
    <3>1. CASE Take(t) \/ Validate(t) \/ CheckOwner(t) \/ Allocate(t)
      BY <3>1 DEF Take, Validate, CheckOwner, Allocate
    <3>2. CASE Persist(t) \/ Prune(t) \/ MapOwner(t) \/ Answer(t)
      BY <3>2 DEF Persist, Prune, MapOwner, Answer
    <3>3. CASE UnlinkNext(t)
      <4>1. pc = [pc EXCEPT ![t] = "unlink"]
        BY <3>3 DEF UnlinkNext, TypeInv, TypeOK, ControlTypeOK
      <4> QED BY <3>3, <4>1 DEF UnlinkNext
    <3> QED BY <3>1, <3>2, <3>3
  <2> QED BY <2>1, <2>2, <2>3
<1>2. /\ op' = op \/ op' = [op EXCEPT ![t] = None]
      /\ id' = id \/ id' = [id EXCEPT ![t] = None]
      /\ idx' = idx \/ idx' = [idx EXCEPT ![t] = 0]
      /\ mem' = mem \/ mem' = [mem EXCEPT ![t] = None]
      /\ undo' = undo \/ undo' = [undo EXCEPT ![t] = None]
      /\ who' = who \/ who' = [who EXCEPT ![t] = None]
      /\ name' = name \/ name' = [name EXCEPT ![t] = None]
  BY DEF Take, Validate, CheckOwner, Allocate, Persist, Prune, UnlinkNext, MapOwner,
         Answer
<1>3. chunks' = chunks \/ \E s \in Seq(Chunks) : chunks' = [chunks EXCEPT ![t] = s]
  <2>1. <<>> \in Seq(Chunks)
    OBVIOUS
  <2> QED BY <2>1
          DEF Take, Validate, CheckOwner, Allocate, Persist, Prune, UnlinkNext,
              MapOwner, Answer
<1>4. out' = out \/ \E r \in Replies : out' = [out EXCEPT ![t] = r]
  BY DEF Take, Validate, CheckOwner, Allocate, Persist, Prune, UnlinkNext, MapOwner,
         Answer, Replies
<1>5. rom' = rom \/ \E r \in Contents \cup {None} : rom' = [rom EXCEPT ![t] = r]
  BY DEF Take, Validate, CheckOwner, Allocate, Persist, Prune, UnlinkNext, MapOwner,
         Answer, Assembled
<1>6. dir' = dir \/ \E d \in Subdirs \cup {None} : dir' = [dir EXCEPT ![t] = d]
  BY DEF Take, Validate, CheckOwner, Allocate, Persist, Prune, UnlinkNext, MapOwner,
         Answer
<1>7. \/ todo' = todo
      \/ \E S \in SUBSET (Uploads \cup Names) : todo' = [todo EXCEPT ![t] = S]
  <2>1. Listed(dir[t]) \ {name[t]} \in SUBSET (Uploads \cup Names)
    BY DEF Listed
  <2>2. todo[t] \ {Min(todo[t])} \in SUBSET (Uploads \cup Names)
    BY DEF TypeInv, TypeOK, StoringTypeOK
  <2> QED BY <2>1, <2>2
          DEF Take, Validate, CheckOwner, Allocate, Persist, Prune, UnlinkNext,
              MapOwner, Answer
<1>8. StagingTypeOK'
  <2>1. Swept \in SUBSET Uploads
    BY DEF Swept, TypeInv, TypeOK, StagingTypeOK
  <2>2. CASE Uploads = {}
    BY <1>1, <2>1, <2>2 DEF disk, RmTree, TypeInv, TypeOK, StagingTypeOK
  <2>3. ASSUME NEW u \in Uploads
        PROVE  StagingTypeOK'
    BY <1>1, <2>1, DiskKeepsType DEF TypeInv, TypeOK
  <2> QED BY <2>2, <2>3
<1>9. ControlTypeOK'
  <2>1. pc' \in [Threads -> Labels]
    BY <1>1 DEF Labels, TypeInv, TypeOK, ControlTypeOK
  <2>2. op' \in [Threads -> Calls \cup {None}]
    BY <1>2 DEF TypeInv, TypeOK, ControlTypeOK
  <2>3. out' \in [Threads -> Replies]
    BY <1>4 DEF TypeInv, TypeOK, ControlTypeOK
  <2> QED BY <1>1, <2>1, <2>2, <2>3 DEF TypeInv, TypeOK, ControlTypeOK
<1>10. UploadTypeOK'
  <2>1. id' \in [Threads -> Uploads \cup {None}]
    BY <1>2 DEF TypeInv, TypeOK, UploadTypeOK
  <2>5. idx' \in [Threads -> Nat]
    BY <1>2 DEF TypeInv, TypeOK, UploadTypeOK
  <2>4. mem' \in [Threads -> Progress \cup {None}]
    BY <1>2 DEF TypeInv, TypeOK, UploadTypeOK
  <2>2. chunks' \in [Threads -> Seq(Chunks)]
    BY <1>3 DEF TypeInv, TypeOK, UploadTypeOK
  <2>3. undo' \in [Threads -> [meta : Progress, size : Nat] \cup {None}]
    BY <1>2 DEF TypeInv, TypeOK, UploadTypeOK
  <2> QED BY <2>1, <2>2, <2>3, <2>4, <2>5 DEF UploadTypeOK
<1>11. StoringTypeOK'
  <2>1. who' \in [Threads -> Emails \cup {None}] /\ name' \in [Threads -> Names \cup {None}]
    BY <1>2 DEF TypeInv, TypeOK, StoringTypeOK
  <2>2. rom' \in [Threads -> Contents \cup {None}]
    BY <1>5 DEF TypeInv, TypeOK, StoringTypeOK
  <2>3. dir' \in [Threads -> Subdirs \cup {None}]
    BY <1>6 DEF TypeInv, TypeOK, StoringTypeOK
  <2>4. todo' \in [Threads -> SUBSET (Uploads \cup Names)]
    <3>1. todo \in [Threads -> SUBSET (Uploads \cup Names)]
      BY DEF TypeInv, TypeOK, StoringTypeOK
    <3> QED BY <1>7, <3>1, OneChanges
  <2> QED BY <2>1, <2>2, <2>3, <2>4 DEF StoringTypeOK
<1>12. HistoryTypeOK'
  BY <1>1 DEF TypeInv, TypeOK, HistoryTypeOK
<1>13. StoreTypeOK'
  <2>1. CASE Persist(t)
    <3>1. dir[t] \in Subdirs
      BY <2>1 DEF Persist, OwnInv, OwnTypeOK, Replacing
    <3>2. romDirs' = romDirs \cup {dir[t]} /\ owner' = owner
      BY <2>1 DEF Persist, Write, WriteAborted
    <3>3. files' = files \/ files' = [files EXCEPT ![dir[t]][name[t]] = rom[t]]
      BY <2>1 DEF Persist, Write, WriteAborted
    <3>4. files' \in [Subdirs -> [Names -> Contents \cup {None}]]
      <4>1. rom[t] \in Contents \cup {None}
        BY DEF TypeInv, TypeOK, StoringTypeOK
      <4>2. files \in [Subdirs -> [Names -> Contents \cup {None}]]
        BY DEF TypeInv, TypeOK, StoreTypeOK
      <4> HIDE StagingAssumption, IngestAssumption, RomStoreAssumption
               DEF StagingAssumption, IngestAssumption, RomStoreAssumption
      <4> QED BY <3>3, <4>1, <4>2, FileChanges
    <3> QED BY <3>1, <3>2, <3>4 DEF TypeInv, TypeOK, StoreTypeOK
  <2>2. CASE UnlinkNext(t)
    <3>1. romDirs' = romDirs /\ owner' = owner
      BY <2>2 DEF UnlinkNext, UnlinkRom, storeVars
    <3>2. \/ files' = files
          \/ files' = [files EXCEPT ![dir[t]][Min(todo[t])] = None]
      BY <2>2 DEF UnlinkNext, UnlinkRom, storeVars
    <3>3. files' \in [Subdirs -> [Names -> Contents \cup {None}]]
      <4>1. files \in [Subdirs -> [Names -> Contents \cup {None}]]
        BY DEF TypeInv, TypeOK, StoreTypeOK
      <4>2. None \in Contents \cup {None}
        OBVIOUS
      <4> HIDE StagingAssumption, IngestAssumption, RomStoreAssumption
               DEF StagingAssumption, IngestAssumption, RomStoreAssumption
      <4> QED BY <3>2, <4>1, <4>2, FileChanges
    <3> QED BY <3>1, <3>3 DEF TypeInv, TypeOK, StoreTypeOK
  <2>3. CASE MapOwner(t)
    <3>1. who[t] \in Emails \cup {None}
      BY DEF TypeInv, TypeOK, StoringTypeOK
    <3> QED BY <2>3, <3>1 DEF MapOwner, Map, storeVars, TypeInv, TypeOK, StoreTypeOK
  <2>4. CASE ~Persist(t) /\ ~UnlinkNext(t) /\ ~MapOwner(t)
    BY <2>4 DEF Take, Validate, CheckOwner, Allocate, Prune, Answer, storeVars, TypeInv,
                TypeOK, StoreTypeOK
  <2> QED BY <2>1, <2>2, <2>3, <2>4
<1>14. Aside(t)
  BY <1>1, <1>2, <1>3 DEF Aside, TypeInv, TypeOK, ControlTypeOK, UploadTypeOK
<1>15. \A u \in Uploads : Tally(u)'
  BY <1>1 DEF RmTree, disk, TypeInv, CountInv, Tally
<1>16. /\ pc'[t] \in Here
       /\ op'[t] = "finalize" /\ pc'[t] # "idle" => id'[t] \in Uploads
       /\ pc'[t] \in {"take", "delete"} => id'[t] \in Uploads
  <2> USE DEF TypeInv, WorkInv, Work, TypeOK, ControlTypeOK
  <2>1. pc'[t] \in Here
    BY <1>1
  <2>2. CASE Answer(t)
    BY <2>1, <2>2 DEF Answer
  <2>3. CASE ~Answer(t)
    <3>1. id' = id /\ op' = op /\ pc[t] # "idle" /\ pc'[t] # "take"
      BY <2>3
         DEF Take, Validate, CheckOwner, Allocate, Persist, Prune, UnlinkNext,
             MapOwner
    <3>2. pc'[t] = "delete" => op[t] = "finalize"
      BY <2>3
         DEF Take, Validate, CheckOwner, Allocate, Persist, Prune, UnlinkNext,
             MapOwner
    <3> QED BY <2>1, <3>1, <3>2
  <2> QED BY <2>2, <2>3
<1>17. Work(t)' /\ TallyAt(t)'
  BY <1>16 DEF Work, TallyAt, OnUpload, Locked, Listing, Writing, Undoing
<1> QED BY <1>1, <1>8, <1>9, <1>10, <1>11, <1>12, <1>13, <1>14, <1>15, <1>17,
           OthersKeepWork
        DEF TypeInv, TypeOK

(* The clock, a restart, and nothing at all. *)
LEMMA RestKeepsType ==
  ASSUME TypeInv, GrowOld \/ Restart \/ UNCHANGED vars
  PROVE  TypeInv'
<1>1. CASE GrowOld \/ UNCHANGED vars
  <2>1. /\ UNCHANGED <<romDirs, files, owner, dirs, meta, data, minted, lock, pc, op,
                       out, id, idx, chunks, mem, undo, who, rom, dir, name, todo,
                       left, restarts, counted, acked, spoiled>>
        /\ old' = old \/ \E u \in minted \ old : old' = old \cup {u}
    BY <1>1 DEF GrowOld, vars, stagingVars, disk, storeVars, locals, bounds, history
  <2>2. TypeOK'
    BY <2>1
       DEF TypeInv, TypeOK, StagingTypeOK, StoreTypeOK, ControlTypeOK, UploadTypeOK,
           StoringTypeOK, HistoryTypeOK
  <2>3. WorkInv' /\ CountInv'
    BY <2>1 DEF TypeInv, WorkInv, Work, CountInv, Tally, TallyAt
  <2> QED BY <2>2, <2>3 DEF TypeInv
<1>2. CASE Restart
  <2> USE <1>2 DEF Restart, Unset, stagingVars, disk, storeVars
  <2>1. StagingTypeOK' /\ StoreTypeOK'
    BY DEF TypeInv, TypeOK, StagingTypeOK, StoreTypeOK
  <2>2. ControlTypeOK'
    BY IngestAssumption
       DEF TypeInv, TypeOK, ControlTypeOK, Labels, Replies, IngestAssumption
  <2>3. UploadTypeOK'
    <3>1. [t \in Threads |-> <<>>] \in [Threads -> Seq(Chunks)]
      OBVIOUS
    <3> QED BY <3>1 DEF UploadTypeOK
  <2>4. StoringTypeOK'
    BY DEF StoringTypeOK
  <2>5. HistoryTypeOK'
    <3>1. ASSUME NEW t \in Threads, Torn(t)
          PROVE  id[t] \in Uploads
      BY <3>1 DEF Torn, TypeInv, WorkInv, Work, OnUpload, Locked
    <3> QED BY <3>1 DEF TypeInv, TypeOK, HistoryTypeOK
  <2>6. WorkInv'
    BY DEF WorkInv, Work, OnUpload, Locked, Listing, Writing, Undoing
  <2>7. CountInv'
    BY DEF TypeInv, CountInv, Tally, TallyAt, Writing, Undoing
  <2> QED BY <2>1, <2>2, <2>3, <2>4, <2>5, <2>6, <2>7 DEF TypeInv, TypeOK
<1> QED BY <1>1, <1>2

(* Every step keeps the types. *)
LEMMA StepKeepsType ==
  ASSUME TypeInv, LockInv, OwnInv, [Next]_vars
  PROVE  TypeInv'
<1>1. ASSUME NEW t \in Threads, Call(t) \/ Step(t)
      PROVE  TypeInv'
  BY <1>1, CallKeepsType, BeginKeepsType, LoadKeepsType, WriteDataKeepsType,
     WriteProgressKeepsType, RollbackDataKeepsType, RollbackMetaKeepsType,
     SweepKeepsType, StoringKeepsType
     DEF Step
<1> QED BY <1>1, RestKeepsType DEF Next

THEOREM TypeCorrect == Spec => []TypeInv
<1>1. TypeInv /\ LockInv /\ OwnInv /\ [Next]_vars => TypeInv'
  BY StepKeepsType
<1> QED BY InitType, LockCorrect, OwnCorrect, <1>1, PTL DEF Spec

(* IngestInv: every variable keeps its type in every behaviour, and the     *)
(* lock of the staging area is never left taken or taken twice, whatever    *)
(* raises in a write and whoever calls at the same time.                    *)
THEOREM IngestInvCorrect == Spec => []IngestInv
<1>1. TypeInv /\ LockInv => IngestInv
  BY DEF TypeInv, IngestInv
<1> QED BY TypeCorrect, LockCorrect, <1>1, PTL

-----------------------------------------------------------------------------
(* What a client was told is staged. *)

LEMMA InitStaged == Init => StagedInv
<1> SUFFICES ASSUME Init PROVE StagedInv
  OBVIOUS
<1>1. TypeOK
  BY InitType DEF TypeInv
<1>2. \A t \in Threads : InStep(t)
  BY DEF Init, InStep, BeginInv, WriteInv, UndoInv, SweepInv, Writing, Undoing
<1>3. ASSUME NEW u \in Uploads
      PROVE  Kept(u)
  <2>1. acked[u] = data[u] /\ (acked[u] # None => counted[u] = acked[u])
    BY DEF Init
  <2>2. acked[u] # None => acked[u] \in Seq(Nat) /\ Begins(acked[u], acked[u])
    BY <1>1 DEF TypeOK, HistoryTypeOK, Begins
  <2>3. /\ u \notin minted => data[u] = None
        /\ data[u] # None => meta[u] # None
    <3>1. CASE dirs = {} /\ data = [v \in Uploads |-> None]
      BY <3>1
    <3>2. ASSUME NEW v \in Uploads, NEW m \in Progress, NEW bytes, Staged(v, m, bytes)
          PROVE  /\ u \notin minted => data[u] = None
                 /\ data[u] # None => meta[u] # None
      BY <3>2, StagingAssumption DEF Staged, StagingAssumption
    <3>3. \A k, n \in 0..Len(Rom) : [next |-> n, received |-> k] \in Progress
      BY StagingAssumption DEF Progress, StagingAssumption
    <3>4. [next |-> 0, received |-> 0] \in Progress
      BY DEF Progress
    <3>5. \/ dirs = {} /\ data = [v \in Uploads |-> None]
          \/ \E v \in Uploads, m \in Progress : \E bytes : Staged(v, m, bytes)
      BY <3>3, <3>4 DEF Init, StagingInit
    <3> QED BY <3>1, <3>2, <3>5
  <2> QED BY <2>1, <2>2, <2>3 DEF Kept, Told
<1> QED BY <1>2, <1>3 DEF StagedInv

(* An upload that a step of thread t leaves as it is, or that it makes one  *)
(* that nobody counts on.                                                  *)
SameFiles(u) == meta'[u] = meta[u] /\ data'[u] = data[u]

Spared(t, u) ==
  \/ acked'[u] = None
  \/ /\ acked'[u] = acked[u] /\ counted'[u] = counted[u]
     /\ Told(u) => SameFiles(u)
     /\ Torn(t) /\ id[t] = u => Torn(t)' /\ id'[t] = u

Fading == minted \subseteq minted' /\ old \subseteq old' /\ spoiled \subseteq spoiled'

LEMMA SparedStays ==
  ASSUME NEW t \in Threads, NEW u \in Uploads, Kept(u), Fading, Aside(t),
         Spared(t, u) \/ ~Sound(u)'
  PROVE  Kept(u)'
<1>1. Sound(u)' => Sound(u)
  BY DEF Sound, Fading
<1>2. CASE acked'[u] = None \/ ~Sound(u)'
  BY <1>2 DEF Kept, Told
<1>3. CASE acked'[u] # None /\ Sound(u)'
  <2>1. /\ acked'[u] = acked[u] /\ counted'[u] = counted[u]
        /\ Torn(t) /\ id[t] = u => Torn(t)' /\ id'[t] = u
    BY <1>3 DEF Spared
  <2>2. Told(u) /\ SameFiles(u) /\ u \in minted'
    BY <1>1, <1>3, <2>1 DEF Spared, Told, Kept, Fading
  <2>3. (\A s \in Threads : Torn(s) => id[s] # u)'
          => \A s \in Threads : Torn(s) => id[s] # u
    BY <2>1 DEF Torn, Aside
  <2> QED BY <2>1, <2>2, <2>3 DEF Kept, SameFiles
<1> QED BY <1>2, <1>3

(* Another thread is nowhere in its writes, or finds its upload unchanged. *)
LEMMA OthersStay ==
  ASSUME LockInv, NEW t \in Threads, Aside(t), Fading,
         NEW s \in Threads, s # t, InStep(s),
         \/ pc[s] \notin Locked
         \/ /\ Sound(id[s]) => SameFiles(id[s])
            /\ acked'[id[s]] = acked[id[s]] /\ counted'[id[s]] = counted[id[s]]
  PROVE  InStep(s)'
<1>1. Sound(id[s])' => Sound(id[s])
  BY DEF Sound, Fading, Aside
<1>2. /\ pc'[s] = pc[s] /\ op'[s] = op[s] /\ id'[s] = id[s] /\ idx'[s] = idx[s]
      /\ chunks'[s] = chunks[s] /\ mem'[s] = mem[s] /\ undo'[s] = undo[s]
  BY DEF Aside
<1>3. SweepInv(s)'
  BY <1>1, <1>2 DEF InStep, SweepInv
<1>4. CASE pc[s] \notin Locked
  BY <1>2, <1>3, <1>4
     DEF InStep, BeginInv, WriteInv, UndoInv, Locked, Writing, Undoing
<1>5. CASE /\ Sound(id[s]) => SameFiles(id[s])
           /\ acked'[id[s]] = acked[id[s]] /\ counted'[id[s]] = counted[id[s]]
  <2>1. Told(id[s])' => Told(id[s])
    BY <1>1, <1>2, <1>5 DEF Told
  <2>2. Current(s)' = Current(s)
    BY <1>2 DEF Current
  <2>3. BeginInv(s)'
    BY <1>1, <1>2, <1>5 DEF InStep, BeginInv, SameFiles
  <2>4. WriteInv(s)'
    BY <1>2, <1>5, <2>1, <2>2 DEF InStep, WriteInv, SameFiles, Told
  <2>5. UndoInv(s)'
    BY <1>2, <1>5, <2>1 DEF InStep, UndoInv, SameFiles, Told
  <2> QED BY <1>3, <2>3, <2>4, <2>5 DEF InStep
<1> QED BY <1>4, <1>5

LEMMA StagedStep ==
  ASSUME LockInv, StagedInv, NEW t \in Threads, Aside(t), Fading, InStep(t)',
         \A u \in Uploads : Kept(u)',
         \/ lock \in {None, t}
         \/ /\ \A u \in Uploads : Sound(u) => SameFiles(u)
            /\ UNCHANGED <<acked, counted>>
  PROVE  StagedInv'
<1>1. ASSUME NEW s \in Threads, s # t
      PROVE  InStep(s)'
  <2>1. InStep(s)
    BY DEF StagedInv
  <2>2. CASE lock \in {None, t}
    <3>1. pc[s] \notin Locked
      BY <1>1, <2>2, IngestAssumption DEF LockInv, IngestAssumption
    <3> QED BY <1>1, <2>1, <3>1, OthersStay
  <2>3. CASE /\ \A u \in Uploads : Sound(u) => SameFiles(u)
             /\ UNCHANGED <<acked, counted>>
    <3>1. Sound(id[s]) => SameFiles(id[s])
      BY <2>3 DEF Sound
    <3> QED BY <1>1, <2>1, <2>3, <3>1, OthersStay
  <2> QED BY <2>2, <2>3
<1> QED BY <1>1 DEF StagedInv

(* A step that neither takes nor gives back the lock and touches no files   *)
(* that count.                                                             *)
LEMMA QuietKeepsStaged ==
  ASSUME LockInv, StagedInv, NEW t \in Threads, Aside(t), Fading,
         pc[t] \notin Locked, pc'[t] \notin Locked, SweepInv(t)',
         \A u \in Uploads : Sound(u) => SameFiles(u),
         UNCHANGED <<acked, counted>>
  PROVE  StagedInv'
<1>1. InStep(t)'
  BY DEF InStep, BeginInv, WriteInv, UndoInv, Locked, Writing, Undoing
<1>2. ASSUME NEW u \in Uploads
      PROVE  Kept(u)'
  <2>1. Spared(t, u)
    BY DEF Spared, Told, Torn, Locked
  <2> QED BY <2>1, SparedStays DEF StagedInv
<1> QED BY <1>1, <1>2, StagedStep

(* Calls, and the way into the store. *)
LEMMA ElsewhereKeepsStaged ==
  ASSUME TypeInv, LockInv, StagedInv, NEW t \in Threads,
         \/ Call(t) \/ Validate(t) \/ CheckOwner(t) \/ Allocate(t) \/ Persist(t)
         \/ Prune(t) \/ UnlinkNext(t) \/ MapOwner(t) \/ Answer(t)
  PROVE  StagedInv'
<1> USE DEF At, Goto, Set, Arrive, Finish
<1>1. UNCHANGED <<stagingVars, history>>
  BY DEF Call, CallBegin, CallAppend, CallOnUpload, CallList, CallFinalize, CallSend,
         Validate, CheckOwner, Allocate, Persist, Prune, UnlinkNext, MapOwner, Answer
<1>2. /\ pc[t] \notin Locked /\ pc'[t] \notin Locked
      /\ pc'[t] \notin {"list_unlink", "list_rmdir"}
      /\ \A s \in Threads : s # t => pc'[s] = pc[s]
  <2> USE DEF TypeInv, TypeOK, ControlTypeOK, Locked
  <2>1. CASE Call(t)
    BY <2>1 DEF Call, CallBegin, CallAppend, CallOnUpload, CallList, CallFinalize,
                CallSend
  <2>2. CASE Validate(t) \/ CheckOwner(t) \/ Allocate(t) \/ Prune(t) \/ UnlinkNext(t)
    BY <2>2 DEF Validate, CheckOwner, Allocate, Prune, UnlinkNext
  <2>3. CASE Persist(t) \/ MapOwner(t) \/ Answer(t)
    BY <2>3 DEF Persist, MapOwner, Answer
  <2> QED BY <2>1, <2>2, <2>3
<1>3. \A s \in Threads : s # t =>
        /\ op'[s] = op[s] /\ id'[s] = id[s] /\ idx'[s] = idx[s]
        /\ chunks'[s] = chunks[s] /\ mem'[s] = mem[s] /\ undo'[s] = undo[s]
  <2> USE DEF TypeInv, TypeOK, ControlTypeOK, UploadTypeOK
  <2>1. CASE Call(t)
    BY <2>1 DEF Call, CallBegin, CallAppend, CallOnUpload, CallList, CallFinalize,
                CallSend
  <2>2. CASE ~Call(t)
    BY <2>2 DEF Validate, CheckOwner, Allocate, Persist, Prune, UnlinkNext, MapOwner,
                Answer
  <2> QED BY <2>1, <2>2
<1>4. Aside(t)
  BY <1>2, <1>3 DEF Aside
<1>5. Fading /\ UNCHANGED <<meta, data, acked, counted>>
  BY <1>1 DEF Fading, stagingVars, disk, history
<1>6. SweepInv(t)'
  BY <1>2 DEF SweepInv
<1> QED BY <1>2, <1>4, <1>5, <1>6, QuietKeepsStaged DEF SameFiles

(* The sweep of list_games: what it takes away without the lock is too old, *)
(* or caught half begun.                                                   *)
LEMMA SweepKeepsStaged ==
  ASSUME TypeInv, LockInv, StagedInv, NEW t \in Threads,
         List(t) \/ ListNext(t) \/ ListUnlink(t) \/ ListRmdir(t)
  PROVE  StagedInv'
<1> USE DEF At, Goto, Set, Reply
<1>1. /\ UNCHANGED <<minted, old, op, idx, chunks, mem, undo, acked, counted>>
      /\ spoiled \subseteq spoiled'
  BY DEF List, ListNext, ListUnlink, ListRmdir, stagingVars, disk, history, locals
<1>2. /\ pc[t] \in {"list", "list_next", "list_unlink", "list_rmdir"}
      /\ \E label \in {"answer", "list_next", "list_unlink", "list_rmdir"} :
           pc' = [pc EXCEPT ![t] = label]
      /\ \A s \in Threads : s # t => id'[s] = id[s]
  BY DEF List, ListNext, ListUnlink, ListRmdir, locals, TypeInv, TypeOK,
         ControlTypeOK, UploadTypeOK
<1>3. Aside(t) /\ pc[t] \notin Locked /\ pc'[t] \notin Locked
  BY <1>1, <1>2 DEF Aside, Locked, TypeInv, TypeOK, ControlTypeOK
<1>4. \A u \in Uploads : Sound(u) => SameFiles(u)
  <2>1. CASE List(t) \/ ListNext(t)
    BY <2>1 DEF List, ListNext, stagingVars, disk, SameFiles
  <2>2. CASE ListUnlink(t) \/ ListRmdir(t)
    <3>1. ~Sound(id[t])
      BY <2>2 DEF ListUnlink, ListRmdir, StagedInv, InStep, SweepInv
    <3> QED BY <2>2, <3>1
            DEF ListUnlink, ListRmdir, Unlink, Rmdir, SameFiles, TypeInv, TypeOK,
                StagingTypeOK
  <2> QED BY <2>1, <2>2
<1>5. SweepInv(t)'
  <2>1. CASE List(t) \/ ListRmdir(t)
    BY <2>1 DEF List, ListRmdir, SweepInv, TypeInv, TypeOK, ControlTypeOK
  <2>2. CASE ListUnlink(t)
    BY <2>2, <1>1 DEF ListUnlink, locals, StagedInv, InStep, SweepInv, Sound, history
  <2>3. CASE ListNext(t)
    <3>1. CASE pc'[t] \in {"list_unlink", "list_rmdir"}
      <4>1. pc[t] = "list_next"
        BY <2>3 DEF ListNext
      <4>2. PICK u \in todo[t] :
              /\ Expired(u) /\ id' = [id EXCEPT ![t] = u]
              /\ spoiled' = spoiled \cup (({u} \cap Swept) \ old)
        BY <2>3, <3>1, <4>1 DEF ListNext, TypeInv, TypeOK, ControlTypeOK
      <4>3. id'[t] = u
        BY <4>2 DEF TypeInv, TypeOK, UploadTypeOK
      <4>4. u \in old \/ u \in spoiled'
        BY <4>2 DEF Expired, Swept
      <4> QED BY <1>1, <4>3, <4>4 DEF SweepInv, Sound
    <3>2. CASE pc'[t] \notin {"list_unlink", "list_rmdir"}
      BY <3>2 DEF SweepInv
    <3> QED BY <3>1, <3>2
  <2> QED BY <2>1, <2>2, <2>3
<1> QED BY <1>1, <1>3, <1>4, <1>5, QuietKeepsStaged DEF Fading

(* The sweep with the lock takes nothing away that somebody counts on.      *)
LEMMA SweepSpares ==
  ASSUME TypeInv, NEW u \in Uploads, Kept(u), Told(u)
  PROVE  u \notin Swept
BY DEF Kept, Told, Sound, Swept, Expired

LEMMA TakeKeepsStaged ==
  ASSUME TypeInv, LockInv, StagedInv, NEW t \in Threads, Take(t) \/ Delete(t)
  PROVE  StagedInv'
<1> USE DEF At, Goto, Set, Reply, Free
<1>1. /\ UNCHANGED <<minted, old, op, id, idx, chunks, mem, undo, counted, spoiled>>
      /\ lock = None /\ pc[t] \in {"take", "delete"}
      /\ \E label \in {"validate", "answer"} : pc' = [pc EXCEPT ![t] = label]
  BY DEF Take, Delete, history
<1>2. Aside(t) /\ pc'[t] \in {"validate", "answer"} /\ Fading
  BY <1>1 DEF Aside, Fading, TypeInv, TypeOK, ControlTypeOK
<1>3. InStep(t)'
  BY <1>2
     DEF InStep, BeginInv, WriteInv, UndoInv, SweepInv, Writing, Undoing
<1>4. ASSUME NEW u \in Uploads
      PROVE  Kept(u)'
  <2>1. ~Torn(t)
    BY <1>1 DEF Torn
  <2>2. CASE Take(t)
    <3>1. Told(u) => SameFiles(u)
      BY <2>2, SweepSpares DEF Take, RmTree, SameFiles, StagedInv
    <3>2. acked' = acked
      BY <2>2 DEF Take, history
    <3> QED BY <1>1, <1>2, <2>1, <3>1, <3>2, SparedStays DEF Spared, StagedInv
  <2>3. CASE Delete(t)
    <3>1. acked' = [acked EXCEPT ![id[t]] = None]
      BY <2>3 DEF Delete
    <3>2. acked'[u] = None \/ (u # id[t] /\ acked'[u] = acked[u])
      BY <3>1 DEF TypeInv, TypeOK, HistoryTypeOK
    <3>3. u # id[t] => SameFiles(u)
      BY <2>3 DEF Delete, RmTree, SameFiles
    <3> QED BY <1>1, <1>2, <2>1, <3>2, <3>3, SparedStays DEF Spared, StagedInv
  <2> QED BY <2>2, <2>3
<1> QED BY <1>1, <1>2, <1>3, <1>4, StagedStep

(* begin_upload. *)
LEMMA BeginKeepsStaged ==
  ASSUME TypeInv, LockInv, StagedInv, NEW t \in Threads, Begin(t)
  PROVE  StagedInv'
<1> USE DEF At, Goto, Set, Free, Hold
<1>1. /\ UNCHANGED <<old, op, idx, chunks, mem, undo, counted, acked, spoiled>>
      /\ lock = None /\ pc[t] = "begin" /\ pc' = [pc EXCEPT ![t] = "begin_touch"]
  BY DEF Begin, history
<1>2. PICK u \in Uploads : Mkdir(u) /\ id' = [id EXCEPT ![t] = u]
  BY DEF Begin
<1>3. /\ Aside(t) /\ pc'[t] = "begin_touch" /\ id'[t] = u
      /\ Fading
  BY <1>1, <1>2
     DEF Aside, Fading, Mkdir, TypeInv, TypeOK, ControlTypeOK, UploadTypeOK
<1>4. InStep(t)'
  <2>1. Sound(u)' => acked'[u] = None
    BY <1>1, <1>2 DEF Mkdir, StagedInv, Kept, Sound
  <2>2. data'[u] = None
    BY <1>2 DEF Mkdir, TypeInv, TypeOK, StagingTypeOK
  <2>3. BeginInv(t)'
    BY <1>3, <2>1, <2>2 DEF BeginInv
  <2> QED BY <1>3, <2>3
          DEF InStep, WriteInv, UndoInv, SweepInv, Writing, Undoing
<1>5. ASSUME NEW v \in Uploads
      PROVE  Kept(v)'
  <2>1. Told(v) => SameFiles(v)
    BY <1>2, SweepSpares DEF Mkdir, SameFiles, StagedInv
  <2>2. ~Torn(t)
    BY <1>1 DEF Torn
  <2> QED BY <1>1, <1>3, <2>1, <2>2, SparedStays DEF Spared, StagedInv
<1> QED BY <1>1, <1>3, <1>4, <1>5, StagedStep

LEMMA BegunKeepsStaged ==
  ASSUME TypeInv, LockInv, StagedInv, NEW t \in Threads, BeginTouch(t) \/ BeginMeta(t)
  PROVE  StagedInv'
<1> USE DEF At, Goto, Set, Reply, Release
<1>1. /\ UNCHANGED <<minted, old, op, id, idx, chunks, mem, undo, counted, spoiled>>
      /\ pc[t] \in {"begin_touch", "begin_meta"} /\ ~Torn(t)
      /\ \E label \in {"begin_meta", "answer"} : pc' = [pc EXCEPT ![t] = label]
      /\ pc'[t] = "begin_meta" => BeginTouch(t) /\ Touch(id[t])
  BY DEF BeginTouch, BeginMeta, history, Torn, TypeInv, TypeOK, ControlTypeOK
<1>2. /\ id[t] \in Uploads /\ counted[id[t]] = <<>> /\ lock = t
      /\ Sound(id[t]) => acked[id[t]] = None
  BY <1>1
     DEF TypeInv, WorkInv, Work, CountInv, TallyAt, OnUpload, Locked, LockInv,
         StagedInv, InStep, BeginInv
<1>3. /\ Aside(t) /\ pc'[t] \in {"begin_meta", "answer"} /\ Fading
  BY <1>1 DEF Aside, Fading, TypeInv, TypeOK, ControlTypeOK
<1>4. InStep(t)'
  <2>1. CASE pc'[t] = "answer"
    BY <2>1 DEF InStep, BeginInv, WriteInv, UndoInv, SweepInv, Writing, Undoing
  <2>2. CASE pc'[t] = "begin_meta"
    <3>1. /\ pc[t] = "begin_touch" /\ acked' = acked
          /\ data' = [data EXCEPT ![id[t]] = IF @ = None THEN <<>> ELSE @]
      BY <1>1, <2>2 DEF BeginTouch, Touch, history
    <3>2. Sound(id[t]) => data'[id[t]] = <<>>
      BY <1>2, <3>1 DEF StagedInv, InStep, BeginInv, TypeInv, TypeOK, StagingTypeOK
    <3>3. BeginInv(t)'
      BY <1>1, <1>2, <2>2, <3>1, <3>2 DEF BeginInv, Sound
    <3> QED BY <2>2, <3>3
            DEF InStep, WriteInv, UndoInv, SweepInv, Writing, Undoing
  <2> QED BY <1>3, <2>1, <2>2
<1>5. ASSUME NEW v \in Uploads
      PROVE  Kept(v)'
  <2>1. CASE v # id[t]
    <3>1. SameFiles(v) /\ acked'[v] = acked[v]
      BY <1>2, <2>1
         DEF BeginTouch, BeginMeta, Touch, WriteMeta, disk, history, SameFiles,
             TypeInv, TypeOK, StagingTypeOK, HistoryTypeOK
    <3> QED BY <1>1, <1>3, <3>1, SparedStays DEF Spared, StagedInv
  <2>2. CASE v = id[t] /\ (acked'[v] = None \/ ~Sound(v)')
    BY <2>2 DEF Kept, Told
  <2>3. CASE v = id[t] /\ acked'[v] # None /\ Sound(v)'
    <3>1. Sound(v)
      BY <1>1, <2>3 DEF Sound
    <3>2. acked' # acked
      BY <1>2, <2>3, <3>1
    <3>3. /\ pc[t] = "begin_meta"
          /\ WriteMeta(v, [next |-> 0, received |-> 0])
          /\ acked' = [acked EXCEPT ![v] = <<>>]
      BY <2>3, <3>2 DEF BeginTouch, BeginMeta, history
    <3>4. /\ v \in minted'
          /\ meta'[v] = [next |-> 0, received |-> 0]
          /\ data'[v] = <<>> /\ acked'[v] = <<>> /\ counted'[v] = <<>>
      BY <1>1, <1>2, <2>3, <3>1, <3>3
         DEF WriteMeta, StagedInv, InStep, BeginInv, TypeInv, TypeOK, StagingTypeOK,
             HistoryTypeOK
    <3>5. [next |-> 0, received |-> 0] \in Progress /\ <<>> \in Seq(Nat)
      BY DEF Progress
    <3>6. Begins(<<>>, <<>>)
      BY DEF Begins
    <3> QED BY <3>4, <3>5, <3>6, StagingAssumption DEF Kept, StagingAssumption
  <2> QED BY <2>1, <2>2, <2>3
<1> QED BY <1>2, <1>3, <1>4, <1>5, StagedStep

(* Between two calls data.bin is what is counted.                          *)
LEMMA FreeIsCounted ==
  ASSUME TypeInv, LockInv, StagedInv, NEW t \in Threads, lock = None \/ lock = t,
         ~Torn(t), NEW u \in Uploads, Told(u)
  PROVE  /\ data[u] = counted[u] /\ counted[u] \in Seq(Nat)
         /\ Begins(acked[u], counted[u]) /\ acked[u] \in Seq(Nat)
         /\ meta[u] \in Progress
<1>1. \A s \in Threads : ~Torn(s)
  BY IngestAssumption DEF LockInv, Torn, Locked, IngestAssumption
<1> QED BY <1>1
        DEF StagedInv, Kept, Told, TypeInv, TypeOK, HistoryTypeOK, StagingTypeOK

LEMMA BeginsItself ==
  ASSUME NEW s \in Seq(Nat)
  PROVE  Begins(s, s)
BY DEF Begins

LEMMA BeginsMore ==
  ASSUME NEW s \in Seq(Nat), NEW b \in Seq(Nat)
  PROVE  Begins(s, s \o b)
BY ConcatProperties DEF Begins

LEMMA BeginsOnwards ==
  ASSUME NEW r \in Seq(Nat), NEW s \in Seq(Nat), NEW b \in Seq(Nat),
         Begins(r, s), Begins(s, b)
  PROVE  Begins(r, b)
<1>1. Len(r) \in Nat /\ Len(s) \in Nat /\ Len(b) \in Nat
  OBVIOUS
<1>2. Len(r) <= Len(s) /\ Len(s) <= Len(b)
  BY DEF Begins
<1>3. ASSUME NEW i \in 1..Len(r)
      PROVE  r[i] = b[i]
  <2>1. i \in 1..Len(s)
    BY <1>1, <1>2
  <2> QED BY <2>1 DEF Begins
<1>4. Len(r) <= Len(b)
  BY <1>1, <1>2
<1> QED BY <1>3, <1>4 DEF Begins

(* get_upload, append_chunk and append_chunks up to the first write.       *)
LEMMA LoadKeepsStaged ==
  ASSUME TypeInv, LockInv, StagedInv, NEW t \in Threads, Load(t)
  PROVE  StagedInv'
<1> USE DEF At, Goto, Set, Reply, Free, Hold
<1>1. /\ pc[t] = "load" /\ id[t] \in Uploads
      /\ op[t] \in {"get", "append", "batch"}
      /\ lock = None /\ ~Torn(t)
  BY DEF Load, TypeInv, WorkInv, Work, OnUpload, Torn
<1>2. /\ UNCHANGED <<minted, old, op, id, idx, chunks, counted, spoiled>>
      /\ RmTree(Swept)
  BY DEF Load
<1>3. \/ /\ pc' = [pc EXCEPT ![t] = "answer"]
         /\ UNCHANGED <<mem, undo>>
         /\ \/ acked' = acked
            \/ acked[id[t]] # None /\ acked' = [acked EXCEPT ![id[t]] = counted[id[t]]]
      \/ /\ Live(id[t]) /\ op[t] # "get" /\ acked' = acked
         /\ mem' = [mem EXCEPT ![t] = meta[id[t]]]
         /\ undo' = IF op[t] = "append" THEN undo
                    ELSE [undo EXCEPT ![t] = [meta |-> meta[id[t]],
                                              size |-> Len(data[id[t]])]]
         /\ \E label \in {"write", "rollback"} : pc' = [pc EXCEPT ![t] = label]
  BY <1>1 DEF Load, Apply, Tell
<1>4. Aside(t) /\ pc'[t] \in {"answer", "write", "rollback"} /\ Fading
  BY <1>2, <1>3 DEF Aside, Fading, TypeInv, TypeOK, ControlTypeOK, UploadTypeOK
<1>5. \A v \in Uploads : Told(v) => SameFiles(v)
  BY <1>2, SweepSpares DEF RmTree, SameFiles, StagedInv
<1>6. ASSUME NEW v \in Uploads
      PROVE  Kept(v)'
  <2>1. CASE acked'[v] = acked[v] \/ ~Sound(v)'
    BY <1>1, <1>2, <1>4, <1>5, <2>1, SparedStays DEF Spared, StagedInv
  <2>2. CASE acked'[v] # acked[v] /\ Sound(v)'
    <3>1. v = id[t] /\ acked[v] # None /\ acked'[v] = counted[v]
      BY <1>1, <1>3, <2>2 DEF TypeInv, TypeOK, HistoryTypeOK
    <3>2. Told(v) /\ SameFiles(v)
      BY <1>2, <1>5, <2>2, <3>1 DEF Told, Sound
    <3>3. /\ data[v] = counted[v] /\ counted[v] \in Seq(Nat) /\ meta[v] \in Progress
          /\ v \in minted
      BY <1>1, <3>2, FreeIsCounted DEF StagedInv, Kept, Told
    <3> QED BY <1>2, <3>1, <3>2, <3>3, BeginsItself, StagingAssumption
            DEF Kept, SameFiles, StagingAssumption
  <2> QED BY <2>1, <2>2
<1>7. InStep(t)'
  <2>1. CASE pc'[t] = "answer"
    BY <2>1 DEF InStep, BeginInv, WriteInv, UndoInv, SweepInv, Writing, Undoing
  <2>2. CASE pc'[t] \in {"write", "rollback"}
    <3>1. /\ acked' = acked
          /\ mem'[t] = meta[id[t]]
          /\ op[t] = "batch" =>
               undo'[t] = [meta |-> meta[id[t]], size |-> Len(data[id[t]])]
      BY <1>1, <1>3, <2>2 DEF TypeInv, TypeOK, ControlTypeOK, UploadTypeOK
    <3>2. ASSUME Told(id[t])'
          PROVE  /\ mem'[t] = meta'[id[t]]
                 /\ op[t] = "batch" =>
                      /\ undo'[t].size = undo'[t].meta.received
                      /\ Len(acked[id[t]]) <= undo'[t].size
                 /\ Begins(counted[id[t]], data'[id[t]])
      <4>1. Told(id[t])
        BY <1>2, <3>1, <3>2 DEF Told, Sound
      <4>2. SameFiles(id[t])
        BY <1>1, <1>5, <4>1
      <4>3. /\ data[id[t]] = counted[id[t]] /\ counted[id[t]] \in Seq(Nat)
            /\ Begins(acked[id[t]], counted[id[t]]) /\ meta[id[t]] \in Progress
        BY <1>1, <4>1, FreeIsCounted
      <4>4. meta[id[t]].received = Len(counted[id[t]])
        BY <1>1, <4>3, StagingAssumption
           DEF TypeInv, CountInv, Tally, StagingAssumption
      <4>5. Begins(counted[id[t]], data'[id[t]])
        BY <4>2, <4>3, BeginsItself DEF SameFiles
      <4>6. op[t] = "batch" =>
              /\ undo'[t].size = undo'[t].meta.received
              /\ Len(acked[id[t]]) <= undo'[t].size
        BY <3>1, <4>3, <4>4 DEF Begins
      <4> QED BY <3>1, <4>2, <4>5, <4>6 DEF SameFiles
    <3>3. id'[t] = id[t] /\ op'[t] = op[t]
      BY <1>2
    <3>4. WriteInv(t)'
      BY <2>2, <3>2, <3>3 DEF WriteInv
    <3>5. UndoInv(t)'
      BY <1>2, <2>2, <3>1, <3>2, <3>3 DEF UndoInv
    <3> QED BY <2>2, <3>4, <3>5 DEF InStep, BeginInv, SweepInv
  <2> QED BY <1>4, <2>1, <2>2
<1> QED BY <1>1, <1>4, <1>6, <1>7, StagedStep

(* A thread in its writes that goes on, and what it must then have left.    *)
LEMMA HolderStep ==
  ASSUME TypeInv, LockInv, StagedInv, NEW t \in Threads, pc[t] \in Locked, Aside(t),
         Fading, UNCHANGED <<id, op>>, InStep(t)', Kept(id[t])',
         \A v \in Uploads : v # id[t] =>
           SameFiles(v) /\ acked'[v] = acked[v] /\ counted'[v] = counted[v]
  PROVE  StagedInv'
<1>1. lock = t
  BY DEF LockInv
<1>2. ASSUME NEW v \in Uploads, v # id[t]
      PROVE  Kept(v)'
  BY <1>2, SparedStays DEF Spared, StagedInv
<1> QED BY <1>1, <1>2, StagedStep

(* The bytes of a slice. *)
LEMMA WriteDataKeepsStaged ==
  ASSUME TypeInv, LockInv, StagedInv, NEW t \in Threads, WriteData(t)
  PROVE  StagedInv'
<1> DEFINE u == id[t]
<1> USE DEF At, Goto, Set, Reply, Release, Fail
<1>1. /\ pc[t] = "write" /\ pc[t] \in Locked /\ pc[t] \in Writing /\ ~Torn(t)
      /\ op[t] \in {"append", "batch"} /\ u \in Uploads /\ lock = t
      /\ Current(t) \in Seq(Nat)
  BY CurrentIsSent
     DEF WriteData, Writing, Locked, Torn, TypeInv, WorkInv, Work, OnUpload, LockInv
<1>2. /\ UNCHANGED <<minted, old, op, id, idx, chunks, mem, undo, counted, acked>>
      /\ spoiled \subseteq spoiled'
      /\ UNCHANGED disk \/ AppendData(u, Current(t))
  BY DEF WriteData, SpoilUnlessBatch, Spoil
<1>3. /\ \E label \in {"write_meta", "rollback", "answer"} :
           pc' = [pc EXCEPT ![t] = label]
      /\ Sound(u)' =>
           \/ pc'[t] = "write_meta" /\ AppendData(u, Current(t))
           \/ pc'[t] = "rollback" /\ op[t] = "batch"
           \/ pc'[t] = "answer" /\ UNCHANGED disk
  BY <1>1 DEF WriteData, SpoilUnlessBatch, Spoil, Sound, TypeInv, TypeOK, ControlTypeOK
<1>4. Aside(t) /\ pc'[t] \in {"write_meta", "rollback", "answer"} /\ Fading
  BY <1>2, <1>3 DEF Aside, Fading, TypeInv, TypeOK, ControlTypeOK
<1>5. \A v \in Uploads : v # u => SameFiles(v)
  BY <1>1, <1>2 DEF AppendData, disk, SameFiles, TypeInv, TypeOK, StagingTypeOK
<1>6. ASSUME Told(u)'
      PROVE  /\ Told(u) /\ meta'[u] = meta[u] /\ mem[t] = meta[u]
             /\ data[u] = counted[u] /\ counted[u] \in Seq(Nat)
             /\ \/ data'[u] = counted[u]
                \/ data'[u] = counted[u] \o Current(t)
             /\ pc'[t] = "write_meta" => data'[u] = counted[u] \o Current(t)
             /\ pc'[t] = "answer" => data'[u] = counted[u]
  <2>1. Told(u) /\ Sound(u)'
    BY <1>2, <1>6 DEF Told, Sound
  <2>2. data[u] = counted[u] /\ counted[u] \in Seq(Nat)
    BY <1>1, <2>1, FreeIsCounted
  <2>3. AppendData(u, Current(t)) =>
          data'[u] = counted[u] \o Current(t) /\ meta' = meta
    BY <1>1, <2>2, StagingAssumption
       DEF AppendData, TypeInv, TypeOK, StagingTypeOK, StagingAssumption
  <2>4. mem[t] = meta[u]
    BY <1>1, <2>1 DEF StagedInv, InStep, WriteInv
  <2>5. UNCHANGED disk => data'[u] = counted[u] /\ meta' = meta
    BY <2>2 DEF disk
  <2> QED BY <1>2, <1>3, <2>1, <2>2, <2>3, <2>4, <2>5
<1>7. Current(t)' = Current(t)
  BY <1>2 DEF Current
<1>8. Kept(u)'
  <2>1. CASE ~Told(u)'
    BY <2>1 DEF Kept, Told
  <2>2. CASE Told(u)'
    <3>1. counted[u] \o Current(t) \in Seq(Nat)
      BY <1>1, <1>6, <2>2, ConcatProperties
    <3>2. data'[u] # None /\ meta'[u] # None /\ u \in minted'
      BY <1>1, <1>2, <1>6, <2>2, <3>1, StagingAssumption
         DEF StagedInv, Kept, Told, StagingAssumption
    <3>3. Begins(acked'[u], counted'[u])
      BY <1>1, <1>2, <1>6, <2>2 DEF StagedInv, Kept
    <3>4. pc'[t] # "answer" => Torn(t)' /\ id'[t] = u
      BY <1>2, <1>4 DEF Torn
    <3> QED BY <1>2, <1>6, <2>2, <3>2, <3>3, <3>4 DEF Kept
  <2> QED BY <2>1, <2>2
<1>9. InStep(t)'
  <2>1. CASE ~Told(u)'
    BY <1>2, <1>4, <2>1 DEF InStep, BeginInv, WriteInv, UndoInv, SweepInv
  <2>2. CASE Told(u)'
    <3>1. WriteInv(t)'
      BY <1>2, <1>6, <1>7, <2>2 DEF WriteInv
    <3>2. op[t] = "batch" =>
            undo[t].size = undo[t].meta.received /\ Len(acked[u]) <= undo[t].size
      BY <1>1, <1>6, <2>2 DEF StagedInv, InStep, UndoInv
    <3>3. Begins(counted[u], data'[u])
      BY <1>1, <1>6, <2>2, BeginsItself, BeginsMore
    <3>4. UndoInv(t)'
      BY <1>2, <1>4, <3>2, <3>3 DEF UndoInv
    <3> QED BY <1>4, <3>1, <3>4 DEF InStep, BeginInv, SweepInv
  <2> QED BY <2>1, <2>2
<1> QED BY <1>1, <1>2, <1>4, <1>5, <1>8, <1>9, HolderStep

(* Its progress. *)
LEMMA WriteProgressKeepsStaged ==
  ASSUME TypeInv, LockInv, StagedInv, NEW t \in Threads, WriteProgress(t)
  PROVE  StagedInv'
<1> DEFINE u == id[t]
           new == After(mem[t], Current(t))
           bytes == counted[id[t]] \o Current(t)
<1> USE DEF At, Goto, Set, Reply, Release, Fail
<1>1. /\ pc[t] = "write_meta" /\ pc[t] \in Locked /\ pc[t] \in Writing
      /\ op[t] \in {"append", "batch"} /\ u \in Uploads /\ lock = t
  BY DEF WriteProgress, Writing, Locked, TypeInv, WorkInv, Work, OnUpload, LockInv
<1>2. /\ Current(t) \in Seq(Nat) /\ mem[t] \in Progress /\ counted[u] \in Seq(Nat)
      /\ Len(Current(t)) \in Nat
  BY <1>1, CurrentIsSent
<1>3. new \in Progress /\ bytes \in Seq(Nat)
  BY <1>2, ConcatProperties DEF After, Progress
<1>4. /\ UNCHANGED <<minted, old, op, id, idx, chunks, undo, dirs, data>>
      /\ spoiled \subseteq spoiled'
      /\ acked' = acked \/ (acked[u] # None /\ acked' = [acked EXCEPT ![u] = bytes])
      /\ \E label \in {"write", "rollback", "answer"} : pc' = [pc EXCEPT ![t] = label]
  BY DEF WriteProgress, SpoilUnlessBatch, Spoil, Tell, WriteMeta, disk
<1>5. /\ pc'[t] \in {"write", "rollback", "answer"}
      /\ pc'[t] # "answer" => acked' = acked
      /\ \/ /\ meta' = [meta EXCEPT ![u] = new]
            /\ mem' = [mem EXCEPT ![t] = new]
            /\ counted' = [counted EXCEPT ![u] = bytes]
         \/ /\ UNCHANGED <<meta, mem, counted, acked>>
            /\ pc'[t] = "rollback" \/ ~Sound(u)'
  BY <1>1
     DEF WriteProgress, SpoilUnlessBatch, Spoil, WriteMeta, disk, Sound, TypeInv,
         TypeOK, ControlTypeOK
<1> HIDE DEF new, bytes
<1>6. Aside(t) /\ Fading
  BY <1>4, <1>5 DEF Aside, Fading, TypeInv, TypeOK, ControlTypeOK, UploadTypeOK
<1>7. \A v \in Uploads : v # u =>
        SameFiles(v) /\ acked'[v] = acked[v] /\ counted'[v] = counted[v]
  BY <1>4, <1>5
     DEF SameFiles, TypeInv, TypeOK, StagingTypeOK, HistoryTypeOK
<1>8. ASSUME Told(u)'
      PROVE  /\ Told(u) /\ u \in minted /\ meta[u] # None
             /\ data'[u] = bytes
             /\ Begins(acked[u], counted[u]) /\ acked[u] \in Seq(Nat)
             /\ acked'[u] \in {acked[u], bytes}
             /\ \/ meta'[u] = new /\ mem'[t] = new /\ counted'[u] = bytes
                \/ /\ UNCHANGED <<meta, mem, counted, acked>>
                   /\ pc'[t] = "rollback"
  <2>1. Told(u)
    BY <1>1, <1>4, <1>8 DEF Told, Sound
  <2>2. /\ u \in minted /\ meta[u] # None /\ Begins(acked[u], counted[u])
        /\ acked[u] \in Seq(Nat)
    BY <1>1, <2>1 DEF StagedInv, Kept, Told, TypeInv, TypeOK, HistoryTypeOK
  <2>3. data[u] = bytes
    BY <1>1, <2>1 DEF StagedInv, InStep, WriteInv, bytes
  <2>4. acked'[u] \in {acked[u], bytes}
    BY <1>1, <1>4 DEF TypeInv, TypeOK, HistoryTypeOK
  <2>5. \/ meta'[u] = new /\ mem'[t] = new /\ counted'[u] = bytes
        \/ UNCHANGED <<meta, mem, counted, acked>> /\ pc'[t] = "rollback"
    BY <1>1, <1>5, <1>8
       DEF Told, TypeInv, TypeOK, StagingTypeOK, UploadTypeOK, HistoryTypeOK
  <2> QED BY <1>4, <2>1, <2>2, <2>3, <2>4, <2>5
<1>9. Begins(counted[u], bytes)
  BY <1>2, BeginsMore DEF bytes
<1>10. Kept(u)'
  <2>1. CASE ~Told(u)'
    BY <2>1 DEF Kept, Told
  <2>2. CASE Told(u)'
    <3>1. /\ meta'[u] # None /\ data'[u] # None /\ u \in minted'
      BY <1>3, <1>4, <1>8, <2>2, StagingAssumption DEF StagingAssumption
    <3>2. Begins(acked'[u], counted'[u])
      <4>1. Begins(acked[u], bytes)
        BY <1>2, <1>3, <1>8, <1>9, <2>2, BeginsOnwards
      <4> QED BY <1>3, <1>8, <2>2, <4>1, BeginsItself
    <3>3. data'[u] = counted'[u] \/ (Torn(t)' /\ id'[t] = u)
      BY <1>4, <1>8, <2>2 DEF Torn
    <3> QED BY <1>4, <2>2, <3>1, <3>2, <3>3 DEF Kept
  <2> QED BY <2>1, <2>2
<1>11. InStep(t)'
  <2>1. CASE ~Told(u)' \/ pc'[t] = "answer"
    BY <1>4, <1>5, <2>1
       DEF InStep, BeginInv, WriteInv, UndoInv, SweepInv, Writing, Undoing
  <2>2. CASE Told(u)' /\ pc'[t] # "answer"
    <3>1. WriteInv(t)'
      BY <1>4, <1>5, <1>8, <2>2 DEF WriteInv, Writing
    <3>2. op[t] = "batch" =>
            undo[t].size = undo[t].meta.received /\ Len(acked[u]) <= undo[t].size
      BY <1>1, <1>8, <2>2 DEF StagedInv, InStep, UndoInv
    <3>3. Begins(counted'[u], data'[u])
      BY <1>3, <1>8, <1>9, <2>2, BeginsItself
    <3>4. UndoInv(t)'
      BY <1>4, <1>5, <2>2, <3>2, <3>3 DEF UndoInv
    <3> QED BY <1>5, <3>1, <3>4 DEF InStep, BeginInv, SweepInv
  <2> QED BY <2>1, <2>2
<1> QED BY <1>1, <1>4, <1>6, <1>7, <1>10, <1>11, HolderStep

(* _rollback_upload. *)
LEMMA RollbackDataKeepsStaged ==
  ASSUME TypeInv, LockInv, StagedInv, NEW t \in Threads, RollbackData(t)
  PROVE  StagedInv'
<1> DEFINE u == id[t]
           size == undo[t].size
<1> USE DEF At, Goto, Set, Reply, Release
<1>1. /\ pc[t] = "rollback" /\ pc[t] \in Locked /\ op[t] = "batch"
      /\ u \in Uploads /\ lock = t
      /\ undo[t] \in [meta : Progress, size : Nat]
      /\ undo[t].meta.received <= Len(counted[u])
      /\ counted[u] \in Seq(Nat) /\ data[u] \in Seq(Nat) \cup {None}
  BY DEF RollbackData, Undoing, Locked, TypeInv, WorkInv, Work, OnUpload, LockInv,
         CountInv, TallyAt, TypeOK, HistoryTypeOK, StagingTypeOK
<1>2. /\ UNCHANGED <<minted, old, op, id, idx, chunks, mem, undo, counted, acked>>
      /\ spoiled \subseteq spoiled'
      /\ \E label \in {"rollback_meta", "answer"} : pc' = [pc EXCEPT ![t] = label]
      /\ UNCHANGED disk \/ Truncate(u, size)
  BY DEF RollbackData, Spoil
<1>3. Sound(u)' => Truncate(u, size) /\ pc'[t] = "rollback_meta"
  BY <1>1 DEF RollbackData, Spoil, Sound, TypeInv, TypeOK, ControlTypeOK
<1>4. Aside(t) /\ Fading /\ pc'[t] \in {"rollback_meta", "answer"}
  BY <1>2 DEF Aside, Fading, TypeInv, TypeOK, ControlTypeOK
<1>5. \A v \in Uploads : v # u =>
        SameFiles(v) /\ acked'[v] = acked[v] /\ counted'[v] = counted[v]
  BY <1>1, <1>2 DEF Truncate, disk, SameFiles, TypeInv, TypeOK, StagingTypeOK
<1>6. ASSUME Told(u)'
      PROVE  /\ Told(u) /\ meta' = meta
             /\ data'[u] \in Seq(Nat) /\ Len(data'[u]) = size
             /\ \A i \in 1..size : data'[u][i] = counted[u][i]
             /\ size = undo[t].meta.received /\ Len(acked[u]) <= size
  <2>1. Told(u) /\ Truncate(u, size)
    BY <1>2, <1>3, <1>6 DEF Told, Sound
  <2>2. /\ size = undo[t].meta.received /\ Len(acked[u]) <= size
        /\ Begins(counted[u], data[u])
    BY <1>1, <2>1 DEF StagedInv, InStep, UndoInv, Undoing
  <2>3. data[u] \in Seq(Nat)
    BY <1>1, <2>1 DEF Truncate
  <2>4. data'[u] = [i \in 1..size |-> IF i <= Len(data[u]) THEN data[u][i] ELSE 0]
    BY <1>1, <2>1 DEF Truncate, TypeInv, TypeOK, StagingTypeOK
  <2>5. size \in Nat /\ Len(counted[u]) \in Nat /\ Len(data[u]) \in Nat
    BY <1>1, <2>3
  <2>6. size <= Len(counted[u]) /\ size <= Len(data[u])
    BY <1>1, <2>2, <2>5 DEF Begins
  <2>7. data'[u] \in Seq(Nat) /\ Len(data'[u]) = size
    <3>1. data[u] \in Seq(Nat) /\ size \in Nat
      BY <2>3, <2>5
    <3> HIDE DEF size
    <3> QED BY <2>4, <3>1, PaddedTo
  <2>8. ASSUME NEW i \in 1..size
        PROVE  data'[u][i] = counted[u][i]
    <3>1. i <= Len(data[u]) /\ i \in 1..Len(counted[u])
      BY <2>5, <2>6
    <3> QED BY <2>2, <2>4, <3>1 DEF Begins
  <2> QED BY <2>1, <2>2, <2>7, <2>8 DEF Truncate
<1>7. Kept(u)'
  <2>1. CASE ~Told(u)'
    BY <2>1 DEF Kept, Told
  <2>2. CASE Told(u)'
    <3>1. /\ meta'[u] # None /\ data'[u] # None /\ u \in minted'
          /\ Begins(acked'[u], counted'[u])
      BY <1>1, <1>2, <1>6, <2>2, StagingAssumption
         DEF StagedInv, Kept, Told, StagingAssumption
    <3>2. Torn(t)' /\ id'[t] = u
      BY <1>2, <1>3, <2>2 DEF Told, Torn
    <3> QED BY <3>1, <3>2 DEF Kept
  <2> QED BY <2>1, <2>2
<1>8. InStep(t)'
  <2>1. CASE ~Told(u)'
    BY <1>2, <1>4, <2>1
       DEF InStep, BeginInv, WriteInv, UndoInv, SweepInv, Writing, Undoing
  <2>2. CASE Told(u)'
    BY <1>2, <1>3, <1>6, <2>2
       DEF Told, InStep, BeginInv, WriteInv, UndoInv, SweepInv, Writing, Undoing
  <2> QED BY <2>1, <2>2
<1> QED BY <1>1, <1>2, <1>4, <1>5, <1>7, <1>8, HolderStep

LEMMA RollbackMetaKeepsStaged ==
  ASSUME TypeInv, LockInv, StagedInv, NEW t \in Threads, RollbackMeta(t)
  PROVE  StagedInv'
<1> DEFINE u == id[t]
           size == undo[t].meta.received
           back == SubSeq(counted[u], 1, size)
<1> USE DEF At, Goto, Set, Reply, Release
<1>1. /\ pc[t] = "rollback_meta" /\ pc[t] \in Locked /\ op[t] = "batch"
      /\ u \in Uploads /\ lock = t
      /\ undo[t] \in [meta : Progress, size : Nat]
      /\ size <= Len(counted[u])
      /\ counted[u] \in Seq(Nat) /\ data[u] \in Seq(Nat) \cup {None}
      /\ acked[u] \in Seq(Nat) \cup {None}
  BY DEF RollbackMeta, Undoing, Locked, TypeInv, WorkInv, Work, OnUpload, LockInv,
         CountInv, TallyAt, TypeOK, HistoryTypeOK, StagingTypeOK
<1>2. size \in Nat /\ Len(counted[u]) \in Nat /\ undo[t].meta \in Progress
  BY <1>1 DEF Progress
<1>3. /\ back \in Seq(Nat) /\ Len(back) = size
      /\ \A i \in 1..size : back[i] = counted[u][i]
  <2>1. counted[u] \in Seq(Nat) /\ size \in Nat /\ size <= Len(counted[u])
    BY <1>1, <1>2
  <2> HIDE DEF size
  <2> QED BY <2>1, FrontOf
<1>4. /\ UNCHANGED <<minted, old, op, id, idx, chunks, mem, undo, data, acked>>
      /\ spoiled \subseteq spoiled'
      /\ pc' = [pc EXCEPT ![t] = "answer"]
      /\ \/ UNCHANGED <<meta, counted>> /\ ~Sound(u)'
         \/ /\ meta' = [meta EXCEPT ![u] = undo[t].meta]
            /\ counted' = [counted EXCEPT ![u] = back]
  BY DEF RollbackMeta, Spoil, WriteMeta, disk, Sound
<1> HIDE DEF back
<1>5. Aside(t) /\ Fading /\ pc'[t] = "answer"
  BY <1>4 DEF Aside, Fading, TypeInv, TypeOK, ControlTypeOK
<1>6. \A v \in Uploads : v # u =>
        SameFiles(v) /\ acked'[v] = acked[v] /\ counted'[v] = counted[v]
  BY <1>4 DEF SameFiles, TypeInv, TypeOK, StagingTypeOK, HistoryTypeOK
<1>7. Kept(u)'
  <2>1. CASE ~Told(u)'
    BY <2>1 DEF Kept, Told
  <2>2. CASE Told(u)'
    <3>1. Told(u) /\ u \in minted /\ meta'[u] = undo[t].meta /\ counted'[u] = back
      BY <1>1, <1>4, <2>2
         DEF Told, Sound, StagedInv, Kept, TypeInv, TypeOK, StagingTypeOK,
             HistoryTypeOK
    <3>2. /\ undo[t].size = size /\ Len(acked[u]) <= size
          /\ Len(data[u]) = size
          /\ \A i \in 1..size : data[u][i] = counted[u][i]
      BY <1>1, <3>1 DEF StagedInv, InStep, UndoInv, Undoing
    <3>3. /\ data[u] \in Seq(Nat) /\ acked[u] \in Seq(Nat)
          /\ Begins(acked[u], counted[u])
      BY <1>1, <3>1 DEF StagedInv, Kept, Told
    <3>4. data[u] = back
      BY <1>3, <3>2, <3>3, SeqEqual
    <3>5. Begins(acked[u], back)
      <4>1. ASSUME NEW i \in 1..Len(acked[u])
            PROVE  acked[u][i] = back[i]
        <5>1. i \in 1..size
          BY <1>2, <3>2, <3>3
        <5> QED BY <1>3, <3>3, <5>1 DEF Begins
      <4> QED BY <1>3, <3>2, <4>1 DEF Begins
    <3> QED BY <1>2, <1>3, <1>4, <3>1, <3>3, <3>4, <3>5, StagingAssumption
            DEF Kept, StagingAssumption
  <2> QED BY <2>1, <2>2
<1>8. InStep(t)'
  BY <1>5 DEF InStep, BeginInv, WriteInv, UndoInv, SweepInv, Writing, Undoing
<1> QED BY <1>1, <1>4, <1>5, <1>6, <1>7, <1>8, HolderStep

(* The clock, a restart, and nothing at all. *)
LEMMA RestKeepsStaged ==
  ASSUME TypeInv, StagedInv, GrowOld \/ Restart \/ UNCHANGED vars
  PROVE  StagedInv'
<1>1. /\ UNCHANGED <<minted, meta, data, counted, acked>>
      /\ \A u \in Uploads : Sound(u)' => Sound(u)
  BY DEF GrowOld, Restart, vars, stagingVars, disk, history, Sound
<1>2. CASE GrowOld \/ UNCHANGED vars
  <2>1. UNCHANGED <<pc, op, id, idx, chunks, mem, undo>>
    BY <1>2 DEF GrowOld, vars, locals
  <2>2. \A u \in Uploads : Kept(u)'
    BY <1>1, <2>1 DEF StagedInv, Kept, Told, Torn
  <2>3. ASSUME NEW t \in Threads
        PROVE  InStep(t)'
    <3>1. InStep(t) /\ (Sound(id[t])' => Sound(id[t])) /\ (Told(id[t])' => Told(id[t]))
      BY <1>1, <2>1 DEF StagedInv, Sound, Told
    <3> QED BY <1>1, <2>1, <3>1
            DEF InStep, BeginInv, WriteInv, UndoInv, SweepInv, Current
  <2> QED BY <2>2, <2>3 DEF StagedInv
<1>3. CASE Restart
  <2>1. /\ \A t \in Threads : pc'[t] = "idle"
        /\ \A t \in Threads : Torn(t) => id[t] \in spoiled'
    BY <1>3 DEF Restart
  <2>2. \A t \in Threads : InStep(t)'
    BY <2>1
       DEF InStep, BeginInv, WriteInv, UndoInv, SweepInv, Writing, Undoing
  <2>3. \A u \in Uploads : Kept(u)'
    BY <1>1, <2>1 DEF StagedInv, Kept, Told, Sound
  <2> QED BY <2>2, <2>3 DEF StagedInv
<1> QED BY <1>2, <1>3

LEMMA StepKeepsStaged ==
  ASSUME TypeInv, LockInv, StagedInv, [Next]_vars
  PROVE  StagedInv'
<1>1. ASSUME NEW t \in Threads, Call(t) \/ Step(t)
      PROVE  StagedInv'
  BY <1>1, ElsewhereKeepsStaged, SweepKeepsStaged, TakeKeepsStaged, BeginKeepsStaged,
     BegunKeepsStaged, LoadKeepsStaged, WriteDataKeepsStaged,
     WriteProgressKeepsStaged, RollbackDataKeepsStaged, RollbackMetaKeepsStaged
     DEF Step
<1> QED BY <1>1, RestKeepsStaged DEF Next

(* What is counted and told stands in data.bin, wherever the calls are.     *)
LEMMA StagedInvImplies == TypeInv /\ LockInv /\ StagedInv => StagedInOrder
<1> SUFFICES ASSUME TypeInv, LockInv, StagedInv, NEW u \in Uploads, Told(u)
             PROVE  /\ meta[u] # None
                    /\ data[u] # None
                    /\ IsPrefix(acked[u], data[u])
                    /\ lock = None => data[u] = counted[u]
  BY DEF StagedInOrder, Told, Sound
<1>1. /\ meta[u] # None /\ data[u] # None
      /\ Begins(acked[u], counted[u])
      /\ (\A t \in Threads : Torn(t) => id[t] # u) => data[u] = counted[u]
      /\ acked[u] \in Seq(Nat) /\ counted[u] \in Seq(Nat) /\ data[u] \in Seq(Nat)
  BY DEF StagedInv, Kept, Told, TypeInv, TypeOK, HistoryTypeOK, StagingTypeOK
<1>2. lock = None => data[u] = counted[u]
  BY <1>1, IngestAssumption DEF LockInv, Torn, Locked, IngestAssumption
<1>3. Begins(acked[u], data[u])
  <2>1. CASE data[u] = counted[u]
    BY <1>1, <2>1
  <2>2. ASSUME NEW t \in Threads, Torn(t), id[t] = u
        PROVE  Begins(acked[u], data[u])
    <3>1. InStep(t)
      BY DEF StagedInv
    <3>2. CASE pc[t] = "write_meta"
      <4>1. Current(t) \in Seq(Nat)
        BY <3>2, CurrentIsSent DEF Writing
      <4>2. data[u] = counted[u] \o Current(t)
        BY <2>2, <3>1, <3>2 DEF InStep, WriteInv
      <4> QED BY <1>1, <4>1, <4>2, BeginsMore, BeginsOnwards
    <3>3. CASE pc[t] = "rollback"
      BY <1>1, <2>2, <3>1, <3>3, BeginsOnwards DEF InStep, UndoInv
    <3>4. CASE pc[t] = "rollback_meta"
      <4>1. op[t] = "batch" /\ undo[t].size \in Nat
        BY <3>4 DEF TypeInv, WorkInv, Work, Undoing
      <4>2. /\ Len(acked[u]) <= undo[t].size /\ Len(data[u]) = undo[t].size
            /\ \A i \in 1..undo[t].size : data[u][i] = counted[u][i]
        BY <2>2, <3>1, <3>4, <4>1 DEF InStep, UndoInv, Undoing
      <4>3. ASSUME NEW i \in 1..Len(acked[u])
            PROVE  acked[u][i] = data[u][i]
        <5>1. i \in 1..undo[t].size
          BY <1>1, <4>1, <4>2
        <5> QED BY <1>1, <4>2, <5>1 DEF Begins
      <4> QED BY <4>2, <4>3 DEF Begins
    <3> QED BY <2>2, <3>2, <3>3, <3>4 DEF Torn
  <2> QED BY <1>1, <2>1, <2>2
<1>4. IsPrefix(acked[u], data[u])
  <2>1. Len(acked[u]) \in Nat /\ Len(data[u]) \in Nat /\ Len(acked[u]) <= Len(data[u])
    BY <1>1, <1>3 DEF Begins
  <2>2. /\ SubSeq(acked[u], 1, Len(acked[u])) \in Seq(Nat)
        /\ SubSeq(data[u], 1, Len(acked[u])) \in Seq(Nat)
        /\ Len(SubSeq(acked[u], 1, Len(acked[u]))) = Len(acked[u])
        /\ Len(SubSeq(data[u], 1, Len(acked[u]))) = Len(acked[u])
    BY <1>1, <2>1, FrontOf
  <2>3. ASSUME NEW i \in 1..Len(acked[u])
        PROVE  SubSeq(acked[u], 1, Len(acked[u]))[i] = SubSeq(data[u], 1, Len(acked[u]))[i]
    BY <1>1, <1>3, <2>1 DEF Begins
  <2>4. SubSeq(acked[u], 1, Len(acked[u])) = SubSeq(data[u], 1, Len(acked[u]))
    BY <2>2, <2>3, SeqEqual
  <2> QED BY <2>1, <2>4 DEF IsPrefix
<1> QED BY <1>1, <1>2, <1>4

(* StagedInOrder: what a client was told is staged stays staged, from the   *)
(* first byte and in that order, and between two calls data.bin holds       *)
(* exactly the slices that the progress counts, for any number of clients   *)
(* that append, retry, abort and finalize at the same time, any failing     *)
(* writes and rollbacks, and any restarts.                                  *)
THEOREM StagedInOrderCorrect == Spec => []StagedInOrder
<1>1. TypeInv /\ LockInv /\ StagedInv /\ [Next]_vars => StagedInv'
  BY StepKeepsStaged
<1> QED BY InitStaged, TypeCorrect, LockCorrect, StagedInvImplies, <1>1, PTL DEF Spec
=============================================================================
