---------------------------- MODULE IngestProofs -----------------------------
(***************************************************************************)
(* Theorems about Ingest for any numbers of threads, uploads, calls and    *)
(* restarts, any ROMs and slices, and all faults: the discipline of        *)
(* uploads._LOCK, that the store only ever holds what a client meant to    *)
(* put there and the validator accepted, and that to its users it is a     *)
(* GameLibrary while they give one file name.                              *)
(***************************************************************************)
EXTENDS Ingest, WellFoundedInduction, TLAPS

Intended == {Rom} \cup Sent
Good == {None} \cup Before \cup (Intended \cap Playable)

(* OnlyIntended rests on where the bytes of a call come from: from the     *)
(* verified staging or the request up to the validation, and from there on *)
(* they are playable.                                                      *)
RomInv ==
  /\ rom \in [Threads -> Intended \cup {None}]
  /\ \A t \in Threads :
       /\ pc[t] = "validate" => rom[t] \in Intended
       /\ pc[t] \in {"own", "allocate", "persist", "replace"}
            => rom[t] \in Intended \cap Playable

FilesInv == files \in [Subdirs -> [Names -> Good]]

PcInv == pc \in [Threads -> Labels]

Inv == PcInv /\ LockInv /\ RomInv /\ FilesInv

(* The initial states. *)
LEMMA InitInv == Init => Inv
<1> SUFFICES ASSUME Init PROVE Inv
  OBVIOUS
<1> USE DEF Init, Unset
<1>1. PcInv
  BY DEF PcInv, Labels
<1>2. LockInv
  BY IngestAssumption DEF LockInv, Locked, IngestAssumption
<1>3. RomInv
  BY DEF RomInv
<1>4. FilesInv
  BY DEF StoreInit, FilesInv, Good, NoFiles
<1> QED BY <1>1, <1>2, <1>3, <1>4 DEF Inv

(* A call arrives with what the client sent. *)
LEMMA CallKeepsInv ==
  ASSUME Inv, NEW t \in Threads, Call(t)
  PROVE  Inv'
<1> USE DEF Inv, Arrive, At, Goto, Set, Labels, Locked
<1>1. files' = files /\ lock' = lock
  BY DEF Call, CallBegin, CallAppend, CallOnUpload, CallList, CallFinalize,
         CallSend, storeVars
<1>2. PICK label \in {"begin", "load", "delete", "list", "take", "validate"} :
        pc[t] = "idle" /\ pc' = [pc EXCEPT ![t] = label]
  BY DEF Call, CallBegin, CallAppend, CallOnUpload, CallList, CallFinalize,
         CallSend
<1>3. \/ rom' = rom /\ label # "validate"
      \/ \E r \in Sent : rom' = [rom EXCEPT ![t] = r]
  BY <1>2 DEF Call, CallBegin, CallAppend, CallOnUpload, CallList, CallFinalize,
         CallSend, PcInv
<1>4. PcInv' /\ LockInv'
  BY <1>1, <1>2 DEF PcInv, LockInv
<1>5. RomInv'
  BY <1>2, <1>3 DEF RomInv, PcInv, Intended
<1> QED BY <1>1, <1>4, <1>5 DEF FilesInv

(* The steps of the staging area touch neither the bytes of a call nor the *)
(* store, and pass the lock on as LockInv says.                            *)
LEMMA StagingKeepsInv ==
  ASSUME Inv, NEW t \in Threads,
         \/ Begin(t) \/ BeginTouch(t) \/ BeginMeta(t)
         \/ Load(t) \/ WriteData(t) \/ WriteProgress(t)
         \/ RollbackData(t) \/ RollbackMeta(t) \/ Delete(t)
         \/ List(t) \/ ListNext(t) \/ ListUnlink(t) \/ ListRmdir(t)
  PROVE  Inv'
<1> DEFINE Here == Locked \cup {"begin", "load", "delete", "list", "list_next",
                                "list_unlink", "list_rmdir", "answer"}
<1> USE IngestAssumption DEF IngestAssumption, Inv, At, Goto, Set, Reply, Free,
        Hold, Release, Labels, Locked
<1>1. rom' = rom /\ files' = files
  BY DEF Begin, BeginTouch, BeginMeta, Load, WriteData, WriteProgress,
         RollbackData, RollbackMeta, Delete, List, ListNext, ListUnlink,
         ListRmdir, storeVars, locals
<1>2. /\ pc[t] \in Here
      /\ \E label \in Here : pc' = [pc EXCEPT ![t] = label]
      /\ \/ lock' = lock /\ (pc[t] \in Locked <=> pc'[t] \in Locked)
         \/ lock = None /\ lock' = t /\ pc'[t] \in Locked
         \/ pc[t] \in Locked /\ lock' = None /\ pc'[t] \notin Locked
  <2> USE DEF PcInv
  <2>1. CASE Begin(t)
    BY <2>1 DEF Begin
  <2>2. CASE BeginTouch(t) \/ BeginMeta(t)
    BY <2>2 DEF BeginTouch, BeginMeta
  <2>3. CASE Load(t)
    BY <2>3 DEF Load, Apply
  <2>4. CASE WriteData(t) \/ WriteProgress(t)
    BY <2>4 DEF WriteData, WriteProgress, Fail
  <2>5. CASE RollbackData(t) \/ RollbackMeta(t)
    BY <2>5 DEF RollbackData, RollbackMeta
  <2>6. CASE Delete(t)
    BY <2>6 DEF Delete
  <2>7. CASE List(t) \/ ListNext(t) \/ ListUnlink(t) \/ ListRmdir(t)
    BY <2>7 DEF List, ListNext, ListUnlink, ListRmdir
  <2> QED BY <2>1, <2>2, <2>3, <2>4, <2>5, <2>6, <2>7
<1>3. PcInv'
  BY <1>2 DEF PcInv
<1>4. LockInv'
  BY <1>2 DEF LockInv, PcInv
<1>5. RomInv'
  BY <1>1, <1>2 DEF RomInv, PcInv
<1> QED BY <1>1, <1>3, <1>4, <1>5 DEF FilesInv

(* The way of the bytes from the staging area or the request into the      *)
(* store takes no lock.                                                    *)
LEMMA StoringKeepsInv ==
  ASSUME Inv, NEW t \in Threads,
         \/ Take(t) \/ Validate(t) \/ CheckOwner(t) \/ Allocate(t)
         \/ Persist(t) \/ Prune(t) \/ UnlinkNext(t) \/ MapOwner(t)
         \/ Answer(t)
  PROVE  Inv'
<1> USE DEF Inv, At, Goto, Set, Reply, Finish, Labels, Locked
<1>1. /\ lock' = lock
      /\ pc[t] \in Labels \ Locked
      /\ \E label \in Labels \ Locked : pc' = [pc EXCEPT ![t] = label]
  BY DEF PcInv, Take, Validate, CheckOwner, Allocate, Persist, Prune, UnlinkNext,
         MapOwner, Answer
<1>2. PcInv' /\ LockInv'
  BY <1>1 DEF PcInv, LockInv
<1>3. RomInv'
  <2> USE DEF RomInv, PcInv
  <2>1. CASE Take(t)
    BY <2>1 DEF Take, Assembled, Intended
  <2>2. CASE Validate(t)
    BY <2>2 DEF Validate
  <2>3. CASE CheckOwner(t) \/ Allocate(t)
    BY <2>3 DEF CheckOwner, Allocate
  <2>4. CASE Persist(t)
    BY <2>4 DEF Persist
  <2>5. CASE Prune(t) \/ UnlinkNext(t) \/ MapOwner(t)
    BY <2>5 DEF Prune, UnlinkNext, MapOwner
  <2>6. CASE Answer(t)
    BY <2>6 DEF Answer
  <2> QED BY <2>1, <2>2, <2>3, <2>4, <2>5, <2>6
<1>4. FilesInv'
  <2> USE DEF FilesInv
  <2>1. CASE Persist(t)
    <3>1. rom[t] \in Good
      BY <2>1 DEF Persist, RomInv, Good
    <3>2. \/ files' = files
          \/ files' = [files EXCEPT ![dir[t]][name[t]] = rom[t]]
      BY <2>1 DEF Persist, Write, WriteAborted
    <3> QED BY <3>1, <3>2
  <2>2. CASE UnlinkNext(t)
    <3>1. None \in Good
      BY DEF Good
    <3>2. \/ files' = files
          \/ files' = [files EXCEPT ![dir[t]][Min(todo[t])] = None]
      BY <2>2 DEF UnlinkNext, UnlinkRom, storeVars
    <3> QED BY <3>1, <3>2
  <2>3. CASE ~Persist(t) /\ ~UnlinkNext(t)
    BY <2>3 DEF Take, Validate, CheckOwner, Allocate, Prune, MapOwner, Map,
                Answer, storeVars
  <2> QED BY <2>1, <2>2, <2>3
<1> QED BY <1>2, <1>3, <1>4

(* The clock, a restart, and nothing at all. *)
LEMMA RestKeepsInv ==
  ASSUME Inv, GrowOld \/ Restart \/ UNCHANGED vars
  PROVE  Inv'
<1> USE DEF Inv, PcInv, LockInv, RomInv, FilesInv
<1>1. CASE GrowOld
  BY <1>1 DEF GrowOld, storeVars, locals
<1>2. CASE Restart
  BY <1>2, IngestAssumption
     DEF Restart, storeVars, Unset, Labels, Locked, IngestAssumption
<1>3. CASE UNCHANGED vars
  BY <1>3 DEF vars, storeVars, locals
<1> QED BY <1>1, <1>2, <1>3

(* The inductive invariant. *)
THEOREM InvCorrect == Spec => []Inv
<1>1. Inv /\ [Next]_vars => Inv'
  BY CallKeepsInv, StagingKeepsInv, StoringKeepsInv, RestKeepsInv
     DEF Next, Step
<1> QED BY InitInv, <1>1, PTL DEF Spec

(* LockInv: whatever raises between two writes, and whoever calls at the   *)
(* same time, the lock of the staging area has exactly the holder that is  *)
(* between two writes, so it is never lost and never shared.               *)
THEOREM LockCorrect == Spec => []LockInv
<1>1. Inv => LockInv
  BY DEF Inv
<1> QED BY InvCorrect, <1>1, PTL

(* OnlyIntended: no file of the store holds bytes other than an announced  *)
(* ROM whose digest was verified or a ROM sent in one piece, and only if   *)
(* the validator accepted it.                                              *)
THEOREM StoreHoldsIntended == Spec => []OnlyIntended
<1>1. Inv => OnlyIntended
  BY DEF Inv, FilesInv, Good, Intended, OnlyIntended
<1> QED BY InvCorrect, <1>1, PTL

-----------------------------------------------------------------------------
(* OwnersOnly rests on two facts: a replacement goes on only for the owner *)
(* (Replacing), and a subdirectory drawn for a new ROM belongs to nobody   *)
(* and to no other call until it is mapped (Fresh).                        *)

Replacing == {"replace", "prune", "unlink"}

Fresh(t) == pc[t] = "persist" \/ (pc[t] = "map" /\ owner[dir[t]] = None)

OwnTypeOK ==
  /\ owner \in [Subdirs -> Emails \cup {None}]
  /\ dir \in [Threads -> Subdirs \cup {None}]
  /\ who \in [Threads -> Emails \cup {None}]
  /\ \A t \in Threads :
       pc[t] \in {"own", "persist", "map"} \cup Replacing => dir[t] \in Subdirs

ReplacingInv ==
  \A t \in Threads : pc[t] \in Replacing =>
    owner[dir[t]] = who[t] /\ owner[dir[t]] # None

FreshInv ==
  /\ \A t \in Threads : pc[t] = "persist" => owner[dir[t]] = None
  /\ \A s, t \in Threads : Fresh(s) /\ Fresh(t) /\ dir[s] = dir[t] => s = t

(* A call that names a subdirectory names its caller. *)
Named(t) ==
  /\ pc[t] = "idle" => dir[t] = None
  /\ pc[t] \in {"take", "validate", "own"} /\ dir[t] # None => who[t] \in Emails

NamedInv == \A t \in Threads : Named(t)

OwnInv == PcInv /\ OwnTypeOK /\ NamedInv /\ ReplacingInv /\ FreshInv

(* Thread t goes to a place where nothing is stored. *)
Elsewhere(t, label) ==
  /\ pc' = [pc EXCEPT ![t] = label]
  /\ label \notin {"own", "persist", "map"} \cup Replacing
  /\ Named(t)'

LEMMA InitOwn == Init => OwnInv
<1> SUFFICES ASSUME Init PROVE OwnInv
  OBVIOUS
<1> USE DEF Init, Unset
<1>1. PcInv
  BY DEF PcInv, Labels
<1>2. OwnTypeOK
  BY DEF OwnTypeOK, StoreInit, Replacing
<1>3. ReplacingInv /\ FreshInv
  BY DEF ReplacingInv, FreshInv, Fresh, Replacing
<1>4. NamedInv
  BY DEF NamedInv, Named
<1> QED BY <1>1, <1>2, <1>3, <1>4 DEF OwnInv

(* Leaving for a label at which nothing is stored changes nothing. *)
LEMMA ElsewhereKeepsOwn ==
  ASSUME OwnInv, NEW t \in Threads, NEW label \in Labels, Elsewhere(t, label),
         owner' = owner,
         \/ dir' = dir
         \/ \E d \in Subdirs \cup {None} : dir' = [dir EXCEPT ![t] = d],
         \/ who' = who
         \/ \E e \in Emails \cup {None} : who' = [who EXCEPT ![t] = e]
  PROVE  OwnInv'
<1> USE DEF OwnInv, PcInv, Elsewhere
<1>1. PcInv' /\ OwnTypeOK'
  BY DEF OwnTypeOK
<1>2. \A s \in Threads : s # t =>
        pc'[s] = pc[s] /\ dir'[s] = dir[s] /\ who'[s] = who[s]
  BY DEF OwnTypeOK
<1>3. ReplacingInv'
  BY <1>2 DEF ReplacingInv
<1>4. FreshInv'
  BY <1>2 DEF FreshInv, Fresh
<1>5. NamedInv'
  BY <1>2 DEF NamedInv, Named
<1> QED BY <1>1, <1>3, <1>4, <1>5

LEMMA CallKeepsOwn ==
  ASSUME OwnInv, NEW t \in Threads, Call(t)
  PROVE  OwnInv'
<1> USE DEF Arrive, Goto, Set
<1>1. PICK label \in {"begin", "load", "delete", "list", "take", "validate"} :
        pc' = [pc EXCEPT ![t] = label]
  BY DEF Call, CallBegin, CallAppend, CallOnUpload, CallList, CallFinalize,
         CallSend
<1>2. Named(t)'
  BY DEF Call, CallBegin, CallAppend, CallOnUpload, CallList, CallFinalize,
         CallSend, Named, At, OwnInv, NamedInv, OwnTypeOK, PcInv
<1>6. label \in Labels /\ Elsewhere(t, label)
  BY <1>1, <1>2 DEF Elsewhere, Labels, Locked, Replacing
<1>3. owner' = owner
  BY DEF Call, CallBegin, CallAppend, CallOnUpload, CallList, CallFinalize,
         CallSend, storeVars
<1>4. \/ dir' = dir
      \/ \E d \in Subdirs \cup {None} : dir' = [dir EXCEPT ![t] = d]
  BY DEF Call, CallBegin, CallAppend, CallOnUpload, CallList, CallFinalize,
         CallSend
<1>5. \/ who' = who
      \/ \E e \in Emails \cup {None} : who' = [who EXCEPT ![t] = e]
  BY DEF Call, CallBegin, CallAppend, CallOnUpload, CallList, CallFinalize,
         CallSend
<1> QED BY <1>3, <1>4, <1>5, <1>6, ElsewhereKeepsOwn

LEMMA StagingKeepsOwn ==
  ASSUME OwnInv, NEW t \in Threads,
         \/ Begin(t) \/ BeginTouch(t) \/ BeginMeta(t)
         \/ Load(t) \/ WriteData(t) \/ WriteProgress(t)
         \/ RollbackData(t) \/ RollbackMeta(t) \/ Delete(t)
         \/ List(t) \/ ListNext(t) \/ ListUnlink(t) \/ ListRmdir(t)
  PROVE  OwnInv'
<1> DEFINE Here == Locked \cup {"begin", "load", "delete", "list", "list_next",
                                "list_unlink", "list_rmdir", "answer"}
<1>1. dir' = dir /\ who' = who /\ owner' = owner
  BY DEF Begin, BeginTouch, BeginMeta, Load, WriteData, WriteProgress,
         RollbackData, RollbackMeta, Delete, List, ListNext, ListUnlink,
         ListRmdir, storeVars, locals
<1>2. \E label \in Here : pc' = [pc EXCEPT ![t] = label]
  <2> USE DEF OwnInv, PcInv, At, Goto, Set, Reply, Labels, Locked
  <2>1. CASE Begin(t) \/ BeginTouch(t) \/ BeginMeta(t)
    BY <2>1 DEF Begin, BeginTouch, BeginMeta
  <2>2. CASE Load(t)
    BY <2>2 DEF Load, Apply
  <2>3. CASE WriteData(t) \/ WriteProgress(t)
    BY <2>3 DEF WriteData, WriteProgress, Fail
  <2>4. CASE RollbackData(t) \/ RollbackMeta(t) \/ Delete(t)
    BY <2>4 DEF RollbackData, RollbackMeta, Delete
  <2>5. CASE List(t) \/ ListNext(t) \/ ListUnlink(t) \/ ListRmdir(t)
    BY <2>5 DEF List, ListNext, ListUnlink, ListRmdir
  <2> QED BY <2>1, <2>2, <2>3, <2>4, <2>5
<1>3. PICK label \in Labels : Elsewhere(t, label)
  BY <1>2 DEF Elsewhere, Labels, Locked, Replacing, Named, OwnInv, PcInv
<1> QED BY <1>1, <1>3, ElsewhereKeepsOwn

(* The steps that leave for, or stay at, a place where something is stored. *)
LEMMA StoringKeepsOwn ==
  ASSUME OwnInv, NEW t \in Threads,
         \/ Take(t) \/ Validate(t) \/ CheckOwner(t) \/ Allocate(t)
         \/ Persist(t) \/ Prune(t) \/ UnlinkNext(t) \/ MapOwner(t)
         \/ Answer(t)
  PROVE  OwnInv'
<1> USE RomStoreAssumption
    DEF OwnInv, PcInv, At, Goto, Set, Reply, Finish, Labels, Locked, Replacing,
        RomStoreAssumption
<1>1. CASE Take(t) \/ Answer(t)
  <2>1. owner' = owner /\ (dir' = dir \/ dir' = [dir EXCEPT ![t] = None])
        /\ (who' = who \/ who' = [who EXCEPT ![t] = None])
    BY <1>1 DEF Take, Answer, storeVars
  <2>2. PICK label \in Labels : Elsewhere(t, label)
    BY <1>1, <2>1 DEF Take, Answer, Elsewhere, Named, NamedInv, OwnTypeOK
  <2> QED BY <2>1, <2>2, ElsewhereKeepsOwn
<1>2. CASE Validate(t) \/ CheckOwner(t) \/ Prune(t)
  <2>1. owner' = owner /\ dir' = dir /\ who' = who
    BY <1>2 DEF Validate, CheckOwner, Prune, storeVars
  <2>2. PcInv' /\ OwnTypeOK'
    BY <1>2, <2>1 DEF Validate, CheckOwner, Prune, OwnTypeOK
  <2>3. ReplacingInv'
    BY <1>2, <2>1
       DEF Validate, CheckOwner, Prune, OwnTypeOK, ReplacingInv, Owns, NamedInv,
           Named
  <2>4. FreshInv'
    BY <1>2, <2>1 DEF Validate, CheckOwner, Prune, FreshInv, Fresh
  <2>5. NamedInv'
    BY <1>2, <2>1 DEF Validate, CheckOwner, Prune, NamedInv, Named
  <2> QED BY <2>2, <2>3, <2>4, <2>5
<1>3. CASE Allocate(t)
  <2>1. owner' = owner /\ who' = who
    BY <1>3 DEF Allocate, storeVars
  <2>2. CASE dir' = dir
    <3>1. ~\E d \in Subdirs : Drawable(d) /\ dir' = [dir EXCEPT ![t] = d]
      BY <2>2 DEF Drawable, OwnTypeOK
    <3>2. PICK label \in {"delete", "answer"} : pc' = [pc EXCEPT ![t] = label]
      BY <1>3, <3>1 DEF Allocate
    <3>3. label \in Labels /\ Elsewhere(t, label)
      BY <3>2 DEF Elsewhere, Named
    <3> QED BY <2>1, <2>2, <3>3, ElsewhereKeepsOwn
  <2>3. CASE dir' # dir
    <3>1. PICK d \in Subdirs : Drawable(d) /\ dir' = [dir EXCEPT ![t] = d]
      BY <1>3, <2>3 DEF Allocate
    <3>2. pc' = [pc EXCEPT ![t] = "persist"]
      BY <1>3, <2>3 DEF Allocate
    <3>3. PcInv' /\ OwnTypeOK'
      BY <2>1, <3>1, <3>2 DEF OwnTypeOK
    <3>4. ReplacingInv'
      BY <2>1, <3>1, <3>2 DEF OwnTypeOK, ReplacingInv
    <3>5. FreshInv'
      BY <2>1, <3>1, <3>2 DEF OwnTypeOK, FreshInv, Fresh, Drawable, Unused
    <3>6. NamedInv'
      BY <2>1, <3>1, <3>2 DEF OwnTypeOK, NamedInv, Named
    <3> QED BY <3>3, <3>4, <3>5, <3>6
  <2> QED BY <2>2, <2>3
<1>4. CASE Persist(t) \/ UnlinkNext(t)
  <2>1. owner' = owner /\ dir' = dir /\ who' = who
    BY <1>4 DEF Persist, UnlinkNext, Write, WriteAborted, UnlinkRom, storeVars
  <2>2. PcInv' /\ OwnTypeOK'
    BY <1>4, <2>1 DEF Persist, UnlinkNext, OwnTypeOK
  <2>3. ReplacingInv'
    BY <1>4, <2>1 DEF Persist, UnlinkNext, ReplacingInv
  <2>4. FreshInv'
    BY <1>4, <2>1 DEF Persist, UnlinkNext, FreshInv, Fresh, ReplacingInv
  <2>5. NamedInv'
    BY <1>4, <2>1 DEF Persist, UnlinkNext, NamedInv, Named
  <2> QED BY <2>2, <2>3, <2>4, <2>5
<1>5. CASE MapOwner(t)
  <2>1. dir' = dir /\ who' = who /\ pc[t] = "map"
    BY <1>5 DEF MapOwner
  <2>2. PICK label \in Labels : Elsewhere(t, label)
    BY <1>5 DEF MapOwner, Elsewhere, Named
  <2>3. CASE owner' = owner
    BY <2>1, <2>2, <2>3, ElsewhereKeepsOwn
  <2>4. CASE owner' # owner
    <3>1. /\ owner[dir[t]] = None
          /\ owner' = [owner EXCEPT ![dir[t]] = who[t]]
      BY <1>5, <2>1, <2>4 DEF MapOwner, Map, Mappable, OwnTypeOK, storeVars
    <3>2. PcInv' /\ OwnTypeOK'
      BY <2>1, <2>2, <3>1 DEF OwnTypeOK, Elsewhere
    <3>3. ReplacingInv'
      BY <2>1, <2>2, <3>1 DEF OwnTypeOK, ReplacingInv, Elsewhere
    <3>4. FreshInv'
      BY <2>1, <2>2, <3>1 DEF OwnTypeOK, FreshInv, Fresh, Elsewhere
    <3>5. NamedInv'
      BY <2>1, <2>2 DEF NamedInv, Named, Elsewhere
    <3> QED BY <3>2, <3>3, <3>4, <3>5
  <2> QED BY <2>3, <2>4
<1> QED BY <1>1, <1>2, <1>3, <1>4, <1>5

LEMMA RestKeepsOwn ==
  ASSUME OwnInv, GrowOld \/ Restart \/ UNCHANGED vars
  PROVE  OwnInv'
<1> USE DEF OwnInv, PcInv, OwnTypeOK, NamedInv, Named, ReplacingInv, FreshInv,
        Fresh, Replacing
<1>1. CASE GrowOld
  BY <1>1 DEF GrowOld, storeVars, locals
<1>2. CASE Restart
  BY <1>2 DEF Restart, storeVars, Unset, Labels
<1>3. CASE UNCHANGED vars
  BY <1>3 DEF vars, storeVars, locals
<1> QED BY <1>1, <1>2, <1>3

(* Who stores where, at any moment. *)
THEOREM OwnCorrect == Spec => []OwnInv
<1>1. OwnInv /\ [Next]_vars => OwnInv'
  BY CallKeepsOwn, StagingKeepsOwn, StoringKeepsOwn, RestKeepsOwn
     DEF Next, Step
<1> QED BY InitOwn, <1>1, PTL DEF Spec

(* A step changes the files of an owned subdirectory only as its owner's   *)
(* replacement.                                                            *)
LEMMA StepOwnersOnly ==
  ASSUME OwnInv, FilesInv, Next, NEW d \in Subdirs, owner[d] # None, files'[d] # files[d]
  PROVE  \E t \in Threads :
           pc[t] \in {"replace", "unlink"} /\ dir[t] = d /\ who[t] = owner[d]
<1>1. ~GrowOld /\ ~Restart
  BY DEF GrowOld, Restart, storeVars
<1>2. PICK t \in Threads : Call(t) \/ Step(t)
  BY <1>1 DEF Next
<1>3. ~Call(t)
  BY DEF Call, CallBegin, CallAppend, CallOnUpload, CallList, CallFinalize,
         CallSend, Arrive, storeVars
<1>4. Persist(t) \/ UnlinkNext(t)
  BY <1>2, <1>3
     DEF Step, Begin, BeginTouch, BeginMeta, Load, WriteData, WriteProgress,
         RollbackData, RollbackMeta, Delete, List, ListNext, ListUnlink,
         ListRmdir, Take, Validate, CheckOwner, Allocate, Prune, MapOwner, Map,
         Answer, storeVars
<1>5. dir[t] = d
  BY <1>4
     DEF Persist, UnlinkNext, Write, WriteAborted, UnlinkRom, storeVars, FilesInv
<1>6. pc[t] \in {"persist", "replace", "unlink"}
  BY <1>4 DEF Persist, UnlinkNext, At
<1>7. pc[t] # "persist"
  BY <1>5 DEF OwnInv, FreshInv
<1> QED BY <1>5, <1>6, <1>7 DEF OwnInv, ReplacingInv, Replacing

Owned ==
  [\A d \in Subdirs :
     owner[d] # None /\ files'[d] # files[d] =>
       \E t \in Threads :
         /\ pc[t] \in {"replace", "unlink"}
         /\ dir[t] = d
         /\ who[t] = owner[d]]_vars

(* OwnersOnly: the files of a subdirectory that belongs to somebody are    *)
(* changed by nothing but a replacement that its owner has asked for, for  *)
(* any number of concurrent uploads, users and restarts.                   *)
THEOREM OwnersOnlyCorrect == Spec => OwnersOnly
<1>1. OwnInv /\ FilesInv /\ [Next]_vars => Owned
  <2>1. CASE Next
    BY <2>1, StepOwnersOnly DEF Owned
  <2>2. CASE UNCHANGED vars
    BY <2>2 DEF Owned, vars, storeVars
  <2> QED BY <2>1, <2>2
<1>2. Inv => FilesInv
  BY DEF Inv
<1> QED BY OwnCorrect, InvCorrect, <1>1, <1>2, PTL DEF Spec, OwnersOnly, Owned
-----------------------------------------------------------------------------
(* While clients give one file name n, a new ROM replaces the file that an *)
(* earlier one was stored in, and no replacement removes the file of       *)
(* another.  Then a subdirectory never loses its game (Has), from the      *)
(* moment a call has stored one there.                                     *)

Has(t, n) == dir[t] \in Subdirs /\ files[dir[t]][n] \in Playable

Stores == {"take", "validate", "own", "allocate", "persist", "map"} \cup Replacing

(* Where thread t is with the game it stores. *)
Storing(t, n) ==
  /\ pc[t] \in Stores => name[t] = n
  /\ pc[t] \in {"prune", "unlink", "map"} => Has(t, n)
  /\ pc[t] = "unlink" => todo[t] \subseteq Names \ {n}
  /\ pc[t] = "map" => who[t] \in Emails

Promised(t, n) ==
  out[t] = "mapped" =>
    /\ pc[t] \in {"answer", "delete"}
    /\ Has(t, n)
    /\ who[t] \in Emails
    /\ owner[dir[t]] = who[t]

GameInv(n) ==
  /\ name = [t \in Threads |-> name[t]]
  /\ todo = [t \in Threads |-> todo[t]]
  /\ out = [t \in Threads |-> out[t]]
  /\ \A t \in Threads : Storing(t, n) /\ Promised(t, n)

(* What is never taken back. *)
Lasting(n) ==
  /\ \A d \in Subdirs : files[d][n] \in Playable => files'[d][n] \in Playable
  /\ \A d \in Subdirs : owner[d] # None => owner'[d] = owner[d]

(* A step of thread t is of no concern to thread s. *)
Apart(s) ==
  /\ pc'[s] = pc[s] /\ name'[s] = name[s] /\ todo'[s] = todo[s]
  /\ out'[s] = out[s] /\ dir'[s] = dir[s] /\ who'[s] = who[s]

Framed(t) ==
  /\ name' = [s \in Threads |-> name'[s]]
  /\ todo' = [s \in Threads |-> todo'[s]]
  /\ out' = [s \in Threads |-> out'[s]]
  /\ \A s \in Threads : s # t => Apart(s)

LEMMA ApartKeeps ==
  ASSUME NEW n \in Names, GameInv(n), Lasting(n), NEW s \in Threads, Apart(s)
  PROVE  Storing(s, n)' /\ Promised(s, n)'
BY RomStoreAssumption
   DEF GameInv, Storing, Promised, Has, Lasting, Apart, RomStoreAssumption, Stores

LEMMA InitGame == \A n \in Names : Init => GameInv(n)
<1> SUFFICES ASSUME NEW n \in Names, Init PROVE GameInv(n)
  OBVIOUS
<1> USE DEF Init, Unset
<1>1. \A t \in Threads : Storing(t, n) /\ Promised(t, n)
  BY DEF Storing, Promised, Stores, Replacing
<1> QED BY <1>1 DEF GameInv

(* A call and a step of the staging area change neither files nor owners,  *)
(* and are not at a place where a game is stored.                          *)
LEMMA CallKeepsGame ==
  ASSUME NEW n \in Names, NewNames = {n}, OwnInv, GameInv(n),
         NEW t \in Threads, Call(t)
  PROVE  GameInv(n)'
<1> USE DEF OwnInv, PcInv, OwnTypeOK, GameInv, Arrive, At, Goto, Set
<1>1. Lasting(n) /\ owner' = owner /\ files' = files
  BY DEF Call, CallBegin, CallAppend, CallOnUpload, CallList, CallFinalize,
         CallSend, storeVars, Lasting
<1>2. PICK label \in {"begin", "load", "delete", "list", "take", "validate"} :
        /\ pc[t] = "idle" /\ pc' = [pc EXCEPT ![t] = label]
        /\ todo' = todo /\ out' = out
        /\ \/ name' = name /\ label \notin {"take", "validate"}
           \/ name' = [name EXCEPT ![t] = n]
        /\ \/ dir' = dir
           \/ \E d \in Subdirs \cup {None} : dir' = [dir EXCEPT ![t] = d]
        /\ \/ who' = who
           \/ \E e \in Emails \cup {None} : who' = [who EXCEPT ![t] = e]
  BY DEF Call, CallBegin, CallAppend, CallOnUpload, CallList, CallFinalize,
         CallSend
<1>3. Framed(t)
  BY <1>2 DEF Framed, Apart
<1>4. Storing(t, n)' /\ Promised(t, n)'
  BY <1>2 DEF Storing, Promised, Stores, Replacing
<1> QED BY <1>1, <1>3, <1>4, ApartKeeps DEF Framed

LEMMA StagingKeepsGame ==
  ASSUME NEW n \in Names, OwnInv, GameInv(n), NEW t \in Threads,
         \/ Begin(t) \/ BeginTouch(t) \/ BeginMeta(t)
         \/ Load(t) \/ WriteData(t) \/ WriteProgress(t)
         \/ RollbackData(t) \/ RollbackMeta(t) \/ Delete(t)
         \/ List(t) \/ ListNext(t) \/ ListUnlink(t) \/ ListRmdir(t)
  PROVE  GameInv(n)'
<1> DEFINE Here == Locked \cup {"begin", "load", "delete", "list", "list_next",
                                "list_unlink", "list_rmdir"}
<1> USE DEF OwnInv, PcInv, GameInv, At, Goto, Set, Reply, Locked, Labels
<1>1. Lasting(n) /\ owner' = owner /\ files' = files
      /\ dir' = dir /\ who' = who /\ name' = name
  BY DEF Begin, BeginTouch, BeginMeta, Load, WriteData, WriteProgress,
         RollbackData, RollbackMeta, Delete, List, ListNext, ListUnlink,
         ListRmdir, storeVars, locals, Lasting
<1>2. /\ pc[t] \in Here
      /\ \E label \in Here \cup {"answer"} :
           /\ pc' = [pc EXCEPT ![t] = label]
           /\ \/ out' = out /\ (pc[t] = "delete" => label = "answer")
              \/ \E r \in Replies \ {"mapped"} : out' = [out EXCEPT ![t] = r]
      /\ \/ todo' = todo
         \/ todo' = [todo EXCEPT ![t] = todo'[t]]
  <2> USE DEF Replies
  <2>1. CASE Begin(t) \/ BeginTouch(t) \/ BeginMeta(t)
    BY <2>1 DEF Begin, BeginTouch, BeginMeta
  <2>2. CASE Load(t)
    BY <2>2 DEF Load, Apply
  <2>3. CASE WriteData(t) \/ WriteProgress(t)
    BY <2>3 DEF WriteData, WriteProgress, Fail
  <2>4. CASE RollbackData(t) \/ RollbackMeta(t)
    BY <2>4 DEF RollbackData, RollbackMeta
  <2>5. CASE Delete(t)
    BY <2>5 DEF Delete
  <2>6. CASE List(t) \/ ListNext(t)
    BY <2>6 DEF List, ListNext
  <2>7. CASE ListUnlink(t) \/ ListRmdir(t)
    BY <2>7 DEF ListUnlink, ListRmdir, locals
  <2> QED BY <2>1, <2>2, <2>3, <2>4, <2>5, <2>6, <2>7
<1>3. Framed(t)
  BY <1>1, <1>2 DEF Framed, Apart
<1>4. Storing(t, n)'
  BY <1>2 DEF Storing, Stores, Replacing
<1>5. Promised(t, n)'
  BY <1>1, <1>2 DEF Promised, Has
<1> QED BY <1>1, <1>3, <1>4, <1>5, ApartKeeps DEF Framed

(* The first file of a listing is one of it. *)
Less == {p \in Nat \X Nat : p[1] < p[2]}

LEMMA LessWellFounded == IsWellFoundedOn(Less, Nat)
BY NatLessThanWellFounded DEF OpToRel, Less

LEMMA MinIn ==
  ASSUME NEW S, S \subseteq Nat, S # {}
  PROVE  Min(S) \in S
<1>1. PICK x \in S : \A y \in S : <<y, x>> \notin Less
  BY LessWellFounded, WFMin
<1>2. \A y \in S : x =< y
  <2> SUFFICES ASSUME NEW y \in S PROVE x =< y
    OBVIOUS
  <2>1. <<y, x>> \in Nat \X Nat /\ <<y, x>>[1] = y /\ <<y, x>>[2] = x
    OBVIOUS
  <2>2. ~(y < x)
    BY <1>1, <2>1 DEF Less
  <2> QED BY <2>2
<1> QED BY <1>2 DEF Min

(* The steps that store a game. *)
LEMMA StoringKeepsGame ==
  ASSUME NEW n \in Names, Inv, OwnInv, GameInv(n), NEW t \in Threads,
         \/ Take(t) \/ Validate(t) \/ CheckOwner(t) \/ Allocate(t)
         \/ Persist(t) \/ Prune(t) \/ UnlinkNext(t) \/ MapOwner(t)
         \/ Answer(t)
  PROVE  GameInv(n)' /\ Lasting(n)
<1> USE DEF Inv, OwnInv, PcInv, OwnTypeOK, GameInv, At, Goto, Set, Reply, Finish,
        Labels, Locked, Replacing, Stores
<1>1. CASE Take(t) \/ Validate(t) \/ CheckOwner(t) \/ Allocate(t) \/ Answer(t)
  <2>1. UNCHANGED storeVars
    BY <1>1 DEF Take, Validate, CheckOwner, Allocate, Answer
  <2>2. Lasting(n) /\ owner' = owner /\ files' = files
    BY <2>1 DEF Lasting, storeVars
  <2>3. Framed(t)
    BY <1>1 DEF Framed, Apart, Take, Validate, CheckOwner, Allocate, Answer
  <2>4. Storing(t, n)'
    BY <1>1, <2>2 DEF Storing, Has, Take, Validate, CheckOwner, Allocate, Answer
  <2>5. Promised(t, n)'
    BY <1>1, <2>2 DEF Promised, Has, Take, Validate, CheckOwner, Allocate, Answer
  <2> QED BY <2>2, <2>3, <2>4, <2>5, ApartKeeps DEF Framed
<1>2. CASE Persist(t)
  <2>1. /\ UNCHANGED <<owner, dir, who, name, todo>>
        /\ dir[t] \in Subdirs /\ name[t] = n /\ rom[t] \in Playable
    BY <1>2 DEF Persist, Write, WriteAborted, Storing, RomInv
  <2>2. \/ files' = [files EXCEPT ![dir[t]][n] = rom[t]]
        \/ files' = files /\ pc'[t] \in {"delete", "answer"}
    BY <1>2, <2>1 DEF Persist, Write, WriteAborted
  <2>3. Lasting(n)
    BY <2>1, <2>2 DEF Lasting, FilesInv
  <2>4. Framed(t)
    BY <1>2, <2>1 DEF Framed, Apart, Persist
  <2>5. pc'[t] \in {"prune", "map"} => Has(t, n)'
    BY <2>1, <2>2 DEF Has, FilesInv
  <2>6. pc'[t] = "map" => who'[t] \in Emails
    BY <1>2, <2>1 DEF Persist
  <2>7. pc'[t] \in {"prune", "map", "delete", "answer"} /\ out'[t] # "mapped"
    BY <1>2 DEF Persist, Promised
  <2>8. Storing(t, n)' /\ Promised(t, n)'
    BY <2>1, <2>5, <2>6, <2>7 DEF Storing, Promised
  <2> QED BY <2>3, <2>4, <2>8, ApartKeeps DEF Framed
<1>3. CASE Prune(t)
  <2>1. UNCHANGED <<files, owner, dir, who, name, out>>
    BY <1>3 DEF Prune, storeVars
  <2>2. Lasting(n)
    BY <2>1 DEF Lasting
  <2>3. Framed(t)
    BY <1>3, <2>1 DEF Framed, Apart, Prune
  <2>4. Storing(t, n)' /\ Promised(t, n)'
    BY <1>3, <2>1 DEF Storing, Promised, Has, Prune, Listed
  <2> QED BY <2>2, <2>3, <2>4, ApartKeeps DEF Framed
<1>4. CASE UnlinkNext(t)
  <2>1. /\ UNCHANGED <<owner, dir, who, name, out>>
        /\ dir[t] \in Subdirs /\ name[t] = n
        /\ todo[t] \subseteq Names \ {n}
    BY <1>4 DEF UnlinkNext, UnlinkRom, Storing, storeVars
  <2>2. todo[t] # {} => Min(todo[t]) \in todo[t]
    BY <2>1, MinIn, RomStoreAssumption DEF RomStoreAssumption
  <2>3. \A d \in Subdirs : files'[d][n] = files[d][n]
    BY <1>4, <2>1, <2>2 DEF UnlinkNext, UnlinkRom, FilesInv, storeVars
  <2>4. Lasting(n)
    BY <2>1, <2>3 DEF Lasting
  <2>5. Framed(t)
    BY <1>4, <2>1 DEF Framed, Apart, UnlinkNext
  <2>6. who[t] \in Emails
    BY <1>4 DEF UnlinkNext, ReplacingInv
  <2>7. Has(t, n)'
    BY <1>4, <2>1, <2>3 DEF UnlinkNext, Storing, Has
  <2>8. /\ pc'[t] \in {"unlink", "map"} /\ todo'[t] \subseteq todo[t]
        /\ out'[t] # "mapped"
    BY <1>4, <2>1 DEF UnlinkNext, Promised
  <2>9. Storing(t, n)' /\ Promised(t, n)'
    BY <2>1, <2>6, <2>7, <2>8 DEF Storing, Promised
  <2> QED BY <2>4, <2>5, <2>9, ApartKeeps DEF Framed
<1>5. CASE MapOwner(t)
  <2>1. /\ UNCHANGED <<files, dir, who, name, todo>>
        /\ dir[t] \in Subdirs /\ who[t] \in Emails /\ Has(t, n)
    BY <1>5 DEF MapOwner, Map, Storing, storeVars
  <2>2. \/ /\ owner[dir[t]] \in {None, who[t]}
           /\ owner' = [owner EXCEPT ![dir[t]] = who[t]]
           /\ out' = [out EXCEPT ![t] = "mapped"]
        \/ owner' = owner /\ out' = [out EXCEPT ![t] = "saved"]
    BY <1>5 DEF MapOwner, Map, Mappable, storeVars
  <2>3. Lasting(n)
    BY <2>1, <2>2 DEF Lasting
  <2>4. Framed(t)
    BY <1>5, <2>1, <2>2 DEF Framed, Apart, MapOwner
  <2>5. pc'[t] \in {"delete", "answer"}
    BY <1>5 DEF MapOwner
  <2>6. Storing(t, n)' /\ Promised(t, n)'
    BY <2>1, <2>2, <2>5 DEF Storing, Promised, Has
  <2> QED BY <2>3, <2>4, <2>6, ApartKeeps DEF Framed
<1> QED BY <1>1, <1>2, <1>3, <1>4, <1>5

LEMMA RestKeepsGame ==
  ASSUME NEW n \in Names, GameInv(n), GrowOld \/ Restart \/ UNCHANGED vars
  PROVE  GameInv(n)'
<1> USE DEF GameInv, Storing, Promised, Has, Stores, Replacing
<1>1. CASE GrowOld
  BY <1>1 DEF GrowOld, storeVars, locals
<1>2. CASE Restart
  BY <1>2 DEF Restart, storeVars, Unset
<1>3. CASE UNCHANGED vars
  BY <1>3 DEF vars, storeVars, locals
<1> QED BY <1>1, <1>2, <1>3

LEMMA GameCorrect ==
  ASSUME NEW n \in Names, NewNames = {n}
  PROVE  Spec => []GameInv(n)
<1>1. Inv /\ OwnInv /\ GameInv(n) /\ [Next]_vars => GameInv(n)'
  BY CallKeepsGame, StagingKeepsGame, StoringKeepsGame, RestKeepsGame
     DEF Next, Step
<1>2. Init => GameInv(n)
  BY InitGame
<1> QED BY InvCorrect, OwnCorrect, <1>1, <1>2, PTL DEF Spec

(* Where there is a playable file there is a game to boot. *)
LEMMA PickedPlayable ==
  ASSUME NEW d \in Subdirs
  PROVE  /\ Picked(d) \in Playable \cup {None}
         /\ (\E m \in Names : files[d][m] \in Playable) => Picked(d) \in Playable
<1>1. Bootable(d) \subseteq Nat
  BY RomStoreAssumption DEF Bootable, Listed, RomStoreAssumption
<1>2. Bootable(d) # {} => Min(Bootable(d)) \in Bootable(d)
  BY <1>1, MinIn
<1>3. Bootable(d) # {} => Picked(d) \in Playable
  BY <1>2 DEF Picked, Bootable
<1>4. \A m \in Names : files[d][m] \in Playable => m \in Bootable(d)
  BY RomStoreAssumption DEF Bootable, Listed, RomStoreAssumption
<1> QED BY <1>3, <1>4 DEF Picked

(* MappedBoots: while clients give one file name, "mapped" is answered only *)
(* when the subdirectory is the caller's and boots, whoever replaces the    *)
(* game of it, or takes a new one, at the same time.                        *)
THEOREM MappedBootsCorrect ==
  ASSUME NEW n \in Names, NewNames = {n}
  PROVE  Spec => []MappedBoots
<1>1. GameInv(n) => MappedBoots
  <2> SUFFICES ASSUME GameInv(n), NEW t \in Threads, out[t] = "mapped"
               PROVE  owner[dir[t]] = who[t] /\ Picked(dir[t]) # None
    BY DEF MappedBoots
  <2>1. dir[t] \in Subdirs /\ owner[dir[t]] = who[t] /\ files[dir[t]][n] \in Playable
    BY DEF GameInv, Promised, Has
  <2>2. Picked(dir[t]) \in Playable
    BY <2>1, PickedPlayable
  <2> QED BY <2>1, <2>2, RomStoreAssumption DEF RomStoreAssumption
<1> QED BY GameCorrect, <1>1, PTL

-----------------------------------------------------------------------------
(* The store as a GameLibrary. *)

Shown(d) == IF owner[d] = None THEN None ELSE Picked(d)

LEMMA InitLibrary == Init => Library!Init
<1> SUFFICES ASSUME Init PROVE Library!Init
  OBVIOUS
<1>1. owner \in [Subdirs -> Emails \cup {None}]
  BY DEF Init, StoreInit
<1>2. \A d \in Subdirs : Shown(d) \in Playable \cup {None}
  BY PickedPlayable DEF Shown
<1> QED BY <1>1, <1>2 DEF Library!Init, Shown

(* Every step on the files and the table. *)
LEMMA StepLibrary ==
  ASSUME NEW n \in Names, Inv, OwnInv, GameInv(n), [Next]_vars, NewNames = {n}
  PROVE  [Library!Next]_<<owner, [d \in Subdirs |-> Shown(d)]>>
<1> USE DEF OwnInv, OwnTypeOK
<1>1. CASE UNCHANGED <<files, owner>>
  BY <1>1 DEF Shown, Picked, Bootable, Listed
<1>2. CASE ~UNCHANGED <<files, owner>>
  <2>1. PICK t \in Threads : Persist(t) \/ UnlinkNext(t) \/ MapOwner(t)
    <3>1. Next /\ ~GrowOld /\ ~Restart
      BY <1>2 DEF GrowOld, Restart, vars, storeVars
    <3>2. PICK t \in Threads : Call(t) \/ Step(t)
      BY <3>1 DEF Next
    <3>3. ~Call(t)
      BY <1>2 DEF Call, CallBegin, CallAppend, CallOnUpload, CallList, CallFinalize,
                  CallSend, Arrive, storeVars
    <3>4. Persist(t) \/ UnlinkNext(t) \/ MapOwner(t)
      BY <1>2, <3>2, <3>3
         DEF Step, Begin, BeginTouch, BeginMeta, Load, WriteData, WriteProgress,
             RollbackData, RollbackMeta, Delete, List, ListNext, ListUnlink,
             ListRmdir, Take, Validate, CheckOwner, Allocate, Prune, Answer,
             storeVars
    <3> QED BY <3>4
  <2>2. PICK d \in Subdirs : dir[t] = d
    BY <2>1 DEF Persist, UnlinkNext, MapOwner, At, Replacing
  <2>3. GameInv(n)' /\ Lasting(n)
    BY <2>1, StoringKeepsGame
  <2>4. \A s \in Subdirs : s # d => files'[s] = files[s] /\ owner'[s] = owner[s]
    BY <2>1, <2>2
       DEF Persist, UnlinkNext, MapOwner, Write, WriteAborted, UnlinkRom, Map, Inv,
           FilesInv, storeVars
  <2>5. \A s \in Subdirs : s # d => Shown(s)' = Shown(s)
    BY <2>4 DEF Shown, Picked, Bootable, Listed
  <2> DEFINE g  == [s \in Subdirs |-> Shown(s)]
             gn == [s \in Subdirs |-> Shown(s)']
  <2>6. gn = [g EXCEPT ![d] = Shown(d)']
    BY <2>2, <2>5
  <2>7. CASE owner[d] = None /\ owner'[d] = None
    <3>1. owner' = owner
      BY <2>1, <2>2, <2>7
         DEF Persist, UnlinkNext, MapOwner, Write, WriteAborted, UnlinkRom, Map,
             storeVars
    <3>2. Shown(d)' = Shown(d)
      BY <2>7 DEF Shown
    <3>3. gn = g
      BY <2>5, <3>2
    <3> QED BY <3>1, <3>3
  <2>8. CASE owner[d] = None /\ owner'[d] # None
    <3>1. /\ MapOwner(t)
          /\ owner' = [owner EXCEPT ![d] = who[t]]
          /\ files' = files
      BY <2>1, <2>8
         DEF Persist, UnlinkNext, MapOwner, Write, WriteAborted, UnlinkRom, Map,
             storeVars
    <3>2. who[t] \in Emails /\ files[d][n] \in Playable
      BY <2>2, <3>1 DEF MapOwner, At, GameInv, Storing, Has
    <3>3. Picked(d) \in Playable /\ Picked(d)' = Picked(d)
      BY <2>2, <3>1, <3>2, PickedPlayable DEF Picked, Bootable, Listed
    <3>4. PICK r \in Playable, e \in Emails : Picked(d) = r /\ who[t] = e
      BY <3>2, <3>3
    <3>5. Shown(d)' = r
      BY <2>8, <3>3, <3>4 DEF Shown
    <3>6. Library!Add(d, e, r)
      BY <2>6, <2>8, <3>1, <3>4, <3>5 DEF Library!Add, Shown
    <3>7. Library!Next
      BY <3>6 DEF Library!Next
    <3> QED BY <3>7
  <2>9. CASE owner[d] # None
    <3>1. owner' = owner
      <4>1. owner'[d] = owner[d]
        BY <2>2, <2>3, <2>9 DEF Lasting
      <4> QED BY <2>1, <2>2, <2>9, <4>1
              DEF Persist, UnlinkNext, MapOwner, Write, WriteAborted, UnlinkRom,
                  Map, storeVars
    <3>2. ~MapOwner(t)
      BY <1>2, <3>1 DEF MapOwner, Map, storeVars
    <3>3. CASE files' = files
      BY <1>2, <3>1, <3>3
    <3>4. CASE files' # files
      <4>1. files'[d][n] \in Playable
        <5>1. CASE Persist(t)
          <6>1. /\ files' = [files EXCEPT ![d][n] = rom[t]]
                /\ rom[t] \in Playable
            BY <2>2, <3>4, <5>1
               DEF Persist, Write, WriteAborted, At, GameInv, Storing, Stores,
                   Replacing, Inv, RomInv
          <6> QED BY <2>2, <6>1 DEF Inv, FilesInv
        <5>2. CASE UnlinkNext(t)
          BY <2>2, <2>3, <5>2 DEF UnlinkNext, At, GameInv, Storing, Has, Lasting
        <5> QED BY <2>1, <3>2, <5>1, <5>2
      <4>2. Picked(d)' \in Playable
        <5> DEFINE Then == Bootable(d)'
        <5>1. Then \subseteq Nat /\ n \in Then
          BY <4>1, RomStoreAssumption DEF Bootable, Listed, RomStoreAssumption
        <5>2. Min(Then) \in Then
          BY <5>1, MinIn
        <5> QED BY <5>1, <5>2 DEF Picked, Bootable
      <4>3. PICK r \in Playable : Picked(d)' = r
        BY <4>2
      <4>4. Shown(d)' = r
        BY <2>9, <3>1, <4>3 DEF Shown
      <4>5. gn = [g EXCEPT ![d] = r]
        BY <2>6, <4>4
      <4>6. Library!Exchange(d, r)
        BY <2>9, <3>1, <4>5 DEF Library!Exchange, Shown
      <4>7. Library!Next
        BY <4>6 DEF Library!Next
      <4> QED BY <4>7
    <3> QED BY <3>3, <3>4
  <2> QED BY <2>7, <2>8, <2>9
<1> QED BY <1>1, <1>2

(* LibraryContract: while clients give one file name, whatever fails and   *)
(* whoever calls at the same time, a subdirectory has one owner for good,  *)
(* has a game from the moment it has an owner, and exchanges its game only *)
(* for another playable one.                                               *)
THEOREM LibraryKept ==
  ASSUME NEW n \in Names, NewNames = {n}
  PROVE  Spec => LibraryContract
<1>1. Inv /\ OwnInv /\ GameInv(n) /\ [Next]_vars
        => [Library!Next]_<<owner, [d \in Subdirs |-> Shown(d)]>>
  BY StepLibrary
<1> QED BY InvCorrect, OwnCorrect, GameCorrect, InitLibrary, <1>1, PTL
        DEF Spec, LibraryContract, Library!Spec, Shown
=============================================================================
