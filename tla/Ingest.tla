------------------------------- MODULE Ingest --------------------------------
(***************************************************************************)
(* How a ROM gets into the store: the storage calls of a resumable upload  *)
(* (gb_mcp/storage/uploads.py), finalize_staged and add_rom                *)
(* (gb_mcp/tools/ingest.py), POST /roms (gb_mcp/http.py) and the sweep of  *)
(* list_games (gb_mcp/tools/play.py), called by concurrent threads of a    *)
(* server that may be restarted.                                           *)
(*                                                                         *)
(* A step of a thread ends where another thread, a failing write or a      *)
(* restart can tell the difference: at a write to the disk and at a use of *)
(* uploads._LOCK.  The list_games sweep takes no lock.                     *)
(***************************************************************************)
EXTENDS Staging

CONSTANTS
  Threads,
  Chunks,       \* decoded slices that clients send
  Batches,      \* batches of them
  Sent,         \* ROMs that clients send in one piece
  NewNames,     \* the sanitized file names they give
  DockerFails,  \* the isolated validation may raise
  MaxCalls,     \* bound: calls in a behaviour
  MaxRestarts   \* bound: restarts of the server

ASSUME IngestAssumption ==
  /\ Chunks \cup {Rom} \subseteq Seq(Nat)
  /\ \A b \in Batches : b \in Seq(Chunks) /\ Len(b) > 0
  /\ Sent \cup {Rom} \subseteq Contents
  /\ NewNames \subseteq Names
  /\ DockerFails \in BOOLEAN
  /\ MaxCalls \in Nat
  /\ MaxRestarts \in Nat
  /\ None \notin Threads

VARIABLES
  lock,     \* holder of uploads._LOCK between two steps
  pc, op, out,              \* per thread: label, call, reply
  id, idx, chunks,       \* upload_id, chunk_index, slices of the call
  mem, undo,             \* meta as read or written last, what a rollback restores
  who, rom, dir, name,      \* email, bytes, subdirectory, file name
  todo,     \* entries that a listing or a replacement has still to visit
  left, restarts,
  counted,  \* history: bytes of the slices that the progress counts
  acked,    \* history: those that a client was told of, None if no client
            \* counts on the upload
  spoiled   \* history: uploads whose files a failure has put out of step

locals == <<op, out, id, idx, chunks, mem, undo, who, rom, dir, name, todo>>
history == <<counted, acked, spoiled>>
bounds == <<left, restarts>>
vars == <<stagingVars, storeVars, lock, pc, locals, bounds, history>>

Calls == {"begin", "get", "append", "batch", "finalize", "abort", "list",
          "add", "post"}
Locked == {"begin_touch", "begin_meta", "write", "write_meta", "rollback",
           "rollback_meta"}
Labels == Locked \cup
          {"idle", "begin", "load", "take", "delete", "list", "list_next",
           "list_unlink", "list_rmdir", "validate", "own", "allocate",
           "persist", "replace", "prune", "unlink", "map", "answer"}
Replies == {"none", "ok", "mapped", "saved", "refused", "error"}

ControlTypeOK ==
  /\ lock \in Threads \cup {None}
  /\ pc \in [Threads -> Labels]
  /\ op \in [Threads -> Calls \cup {None}]
  /\ out \in [Threads -> Replies]
  /\ left \in 0..MaxCalls
  /\ restarts \in 0..MaxRestarts

UploadTypeOK ==
  /\ id \in [Threads -> Uploads \cup {None}]
  /\ idx \in [Threads -> Nat]
  /\ chunks \in [Threads -> Seq(Chunks)]
  /\ mem \in [Threads -> Progress \cup {None}]
  /\ undo \in [Threads -> [meta : Progress, size : Nat] \cup {None}]

StoringTypeOK ==
  /\ who \in [Threads -> Emails \cup {None}]
  /\ rom \in [Threads -> Contents \cup {None}]
  /\ dir \in [Threads -> Subdirs \cup {None}]
  /\ name \in [Threads -> Names \cup {None}]
  /\ todo \in [Threads -> SUBSET (Uploads \cup Names)]

HistoryTypeOK ==
  /\ counted \in [Uploads -> Seq(Nat)]
  /\ acked \in [Uploads -> Seq(Nat) \cup {None}]
  /\ spoiled \subseteq Uploads

TypeOK ==
  /\ StagingTypeOK /\ StoreTypeOK
  /\ ControlTypeOK /\ UploadTypeOK /\ StoringTypeOK /\ HistoryTypeOK

Unset == [t \in Threads |-> None]

Init ==
  /\ StagingInit
  /\ StoreInit
  /\ lock = None
  /\ pc = [t \in Threads |-> "idle"]
  /\ op = Unset
  /\ out = [t \in Threads |-> "none"]
  /\ id = Unset
  /\ idx = [t \in Threads |-> 0]
  /\ chunks = [t \in Threads |-> <<>>]
  /\ mem = Unset
  /\ undo = Unset
  /\ who = Unset
  /\ rom = Unset
  /\ dir = Unset
  /\ name = Unset
  /\ todo = [t \in Threads |-> {}]
  /\ left = MaxCalls
  /\ restarts = 0
  /\ counted = [u \in Uploads |-> IF data[u] = None THEN <<>> ELSE data[u]]
  /\ acked = data
  /\ spoiled = {}

-----------------------------------------------------------------------------
At(t, label) == pc[t] = label
Goto(t, label) == pc' = [pc EXCEPT ![t] = label]
Set(f, t, v) == [f EXCEPT ![t] = v]

Reply(t, r) ==
  /\ Goto(t, "answer")
  /\ out' = Set(out, t, r)

(* The client learns the progress of a live upload. *)
Tell(t, bytes) ==
  acked' = IF acked[id[t]] = None THEN acked ELSE Set(acked, id[t], bytes)

(* `with _LOCK` is entered in the same step as the work up to the next     *)
(* write, and left with the last one.                                      *)
Free == lock = None
Hold(t) == lock' = t
Release == lock' = None

-----------------------------------------------------------------------------
(* A call arrives. *)

Arrive(t, o, label) ==
  /\ At(t, "idle")
  /\ left > 0
  /\ left' = left - 1
  /\ op' = Set(op, t, o)
  /\ Goto(t, label)
  /\ UNCHANGED <<stagingVars, storeVars, lock, out, mem, undo, todo, restarts,
                 history>>

CallBegin(t) ==
  /\ Arrive(t, "begin", "begin")
  /\ UNCHANGED <<id, idx, chunks, who, rom, dir, name>>

CallAppend(t) ==
  \E u \in minted, i \in 0..Len(Rom), b \in Batches \cup {<<c>> : c \in Chunks} :
    /\ \/ Len(b) = 1 /\ Arrive(t, "append", "load")
       \/ b \in Batches /\ Arrive(t, "batch", "load")
    /\ id' = Set(id, t, u)
    /\ idx' = Set(idx, t, i)
    /\ chunks' = Set(chunks, t, b)
    /\ UNCHANGED <<who, rom, dir, name>>

CallOnUpload(t) ==
  \E u \in minted :
    /\ Arrive(t, "get", "load") \/ Arrive(t, "abort", "delete")
    /\ id' = Set(id, t, u)
    /\ UNCHANGED <<idx, chunks, who, rom, dir, name>>

CallList(t) ==
  /\ Arrive(t, "list", "list")
  /\ UNCHANGED <<id, idx, chunks, who, rom, dir, name>>

CallFinalize(t) ==
  \E u \in minted, e \in Emails, d \in Subdirs \cup {None}, n \in NewNames :
    /\ Arrive(t, "finalize", "take")
    /\ id' = Set(id, t, u)
    /\ who' = Set(who, t, e)
    /\ dir' = Set(dir, t, d)
    /\ name' = Set(name, t, n)
    /\ UNCHANGED <<idx, chunks, rom>>

(* add_rom asks for the identity first, post_roms after it has saved. *)
CallSend(t) ==
  \E e \in Emails \cup {None}, r \in Sent, n \in NewNames :
    /\ \/ e # None /\ Arrive(t, "add", "validate")
       \/ Arrive(t, "post", "validate")
    /\ who' = Set(who, t, e)
    /\ rom' = Set(rom, t, r)
    /\ name' = Set(name, t, n)
    /\ UNCHANGED <<id, idx, chunks, dir>>

Answer(t) ==
  /\ At(t, "answer")
  /\ Goto(t, "idle")
  /\ op' = Set(op, t, None)
  /\ out' = Set(out, t, "none")
  /\ id' = Set(id, t, None)
  /\ idx' = Set(idx, t, 0)
  /\ chunks' = Set(chunks, t, <<>>)
  /\ mem' = Set(mem, t, None)
  /\ undo' = Set(undo, t, None)
  /\ who' = Set(who, t, None)
  /\ rom' = Set(rom, t, None)
  /\ dir' = Set(dir, t, None)
  /\ name' = Set(name, t, None)
  /\ UNCHANGED <<stagingVars, storeVars, lock, todo, bounds, history>>

-----------------------------------------------------------------------------
(* begin_upload. *)

Begin(t) ==
  /\ At(t, "begin")
  /\ Free
  /\ Hold(t)
  /\ \E u \in Uploads : Mkdir(u) /\ id' = Set(id, t, u)
  /\ Goto(t, "begin_touch")
  /\ UNCHANGED <<storeVars, old, op, out, idx, chunks, mem, undo, who, rom, dir,
                 name, todo, bounds, history>>

(* A write raises: the directory is gone, or the disk refuses. *)
Refusing(u) == u \notin dirs \/ WriteFails

BeginTouch(t) ==
  /\ At(t, "begin_touch")
  /\ \/ Touch(id[t]) /\ Goto(t, "begin_meta") /\ UNCHANGED <<lock, out>>
     \/ Refusing(id[t]) /\ Reply(t, "error") /\ Release /\ UNCHANGED disk
  /\ UNCHANGED <<storeVars, minted, old, op, id, idx, chunks, mem, undo, who, rom,
                 dir, name, todo, bounds, history>>

BeginMeta(t) ==
  /\ At(t, "begin_meta")
  /\ Release
  /\ \/ /\ WriteMeta(id[t], [next |-> 0, received |-> 0])
        /\ Reply(t, "ok")
        /\ acked' = Set(acked, id[t], <<>>)
     \/ Refusing(id[t]) /\ Reply(t, "error") /\ UNCHANGED <<disk, acked>>
  /\ UNCHANGED <<storeVars, minted, old, op, id, idx, chunks, mem, undo, who, rom,
                 dir, name, todo, bounds, counted, spoiled>>

-----------------------------------------------------------------------------
(* get_upload, append_chunk, append_chunks. *)

(* Everything up to the first write.  A rejected slice, a retry of the last *)
(* one and get_upload write nothing.                                       *)
Rejected(t) == \E i \in DOMAIN chunks[t] : ~Decodes(chunks[t][i])

Repeated(t) ==
  /\ op[t] = "append"
  /\ idx[t] = meta[id[t]].next - 1
  /\ Repeats(id[t], chunks[t][1])

(* _apply_decoded_chunk checks the first slice, inside the try of a batch. *)
Apply(t) ==
  LET m == meta[id[t]]
      fits == Fits(m, idx[t], chunks[t][1])
  IN  \/ /\ op[t] = "append" /\ ~fits
         /\ Reply(t, "refused")
         /\ UNCHANGED <<lock, mem, undo>>
      \/ /\ op[t] = "batch" /\ data[id[t]] = None
         /\ Reply(t, "error")
         /\ UNCHANGED <<lock, mem, undo>>
      \/ /\ IF op[t] = "append" THEN fits ELSE data[id[t]] # None
         /\ Hold(t)
         /\ mem' = Set(mem, t, m)
         /\ undo' = IF op[t] = "append" THEN undo
                    ELSE Set(undo, t, [meta |-> m, size |-> Len(data[id[t]])])
         /\ Goto(t, IF fits THEN "write" ELSE "rollback")
         /\ UNCHANGED out

Load(t) ==
  /\ At(t, "load")
  /\ Free
  /\ RmTree(Swept)
  /\ \/ /\ ~Live(id[t])
        /\ Reply(t, "refused")
        /\ UNCHANGED <<lock, mem, undo, acked>>
     \/ /\ Live(id[t])
        /\ op[t] = "get" \/ (~Rejected(t) /\ Repeated(t))
        /\ Reply(t, "ok")
        /\ Tell(t, counted[id[t]])
        /\ UNCHANGED <<lock, mem, undo>>
     \/ /\ Live(id[t]) /\ op[t] # "get" /\ Rejected(t)
        /\ Reply(t, "refused")
        /\ UNCHANGED <<lock, mem, undo, acked>>
     \/ /\ Live(id[t]) /\ op[t] # "get" /\ ~Rejected(t) /\ ~Repeated(t)
        /\ Apply(t)
        /\ UNCHANGED acked
  /\ UNCHANGED <<storeVars, minted, old, op, id, idx, chunks, who, rom, dir,
                 name, todo, bounds, counted, spoiled>>

(* Mutant: append_chunk leaves the lock taken. *)
FailKeepsLock(t) ==
  IF op[t] = "batch" THEN Goto(t, "rollback") /\ UNCHANGED <<lock, out>>
                     ELSE Reply(t, "error") /\ UNCHANGED lock

(* An exception of _apply_decoded_chunk: append_chunks rolls back,         *)
(* append_chunk does not.                                                  *)
Fail(t) ==
  IF op[t] = "batch" THEN Goto(t, "rollback") /\ UNCHANGED <<lock, out>>
                     ELSE Reply(t, "error") /\ Release

Spoil(t) == spoiled' = spoiled \cup {id[t]}

(* Nobody takes back the bytes of a slice that append_chunk has written. *)
SpoilUnlessBatch(t) == IF op[t] = "batch" THEN UNCHANGED spoiled ELSE Spoil(t)

(* The slice being applied: next_index counts from chunk_index on. *)
Current(t) == chunks[t][mem[t].next - idx[t] + 1]

(* open("ab"), write, fsync: it may raise before or after the bytes. *)
WriteData(t) ==
  /\ At(t, "write")
  /\ \/ /\ AppendData(id[t], Current(t))
        /\ \/ Goto(t, "write_meta") /\ UNCHANGED <<lock, out, spoiled>>
           \/ WriteFails /\ Fail(t) /\ SpoilUnlessBatch(t)
     \/ Refusing(id[t]) /\ Fail(t) /\ UNCHANGED <<disk, spoiled>>
  /\ UNCHANGED <<storeVars, minted, old, op, id, idx, chunks, mem, undo, who,
                 rom, dir, name, todo, bounds, counted, acked>>

(* meta.json for the slice just written, then the next slice of a batch. *)
WriteProgress(t) ==
  /\ At(t, "write_meta")
  /\ LET new == After(mem[t], Current(t))
         done == new.next - idx[t]
         bytes == counted[id[t]] \o Current(t)
     IN  \/ /\ WriteMeta(id[t], new)
            /\ mem' = Set(mem, t, new)
            /\ counted' = Set(counted, id[t], bytes)
            /\ \/ /\ done = Len(chunks[t])
                  /\ Reply(t, "ok")
                  /\ Release
                  /\ Tell(t, bytes)
               \/ /\ done < Len(chunks[t])
                  /\ IF Fits(new, new.next, chunks[t][done + 1])
                       THEN Goto(t, "write") /\ UNCHANGED <<lock, out>>
                       ELSE Goto(t, "rollback") /\ UNCHANGED <<lock, out>>
                  /\ UNCHANGED acked
            /\ UNCHANGED spoiled
         \/ /\ Refusing(id[t])
            /\ Fail(t)
            /\ SpoilUnlessBatch(t)
            /\ UNCHANGED <<disk, mem, counted, acked>>
  /\ UNCHANGED <<storeVars, minted, old, op, id, idx, chunks, undo, who, rom,
                 dir, name, todo, bounds>>

(* _rollback_upload. *)
RollbackData(t) ==
  /\ At(t, "rollback")
  /\ \/ /\ Truncate(id[t], undo[t].size)
        /\ Goto(t, "rollback_meta")
        /\ UNCHANGED <<lock, out, spoiled>>
     \/ /\ data[id[t]] = None \/ WriteFails
        /\ Reply(t, "error")
        /\ Release
        /\ Spoil(t)
        /\ UNCHANGED disk
  /\ UNCHANGED <<storeVars, minted, old, op, id, idx, chunks, mem, undo, who,
                 rom, dir, name, todo, bounds, counted, acked>>

RollbackMeta(t) ==
  /\ At(t, "rollback_meta")
  /\ Reply(t, "error")
  /\ Release
  /\ \/ /\ WriteMeta(id[t], undo[t].meta)
        /\ counted' = Set(counted, id[t],
                          SubSeq(counted[id[t]], 1, undo[t].meta.received))
        /\ UNCHANGED spoiled
     \/ Refusing(id[t]) /\ Spoil(t) /\ UNCHANGED <<disk, counted>>
  /\ UNCHANGED <<storeVars, minted, old, op, id, idx, chunks, mem, undo, who,
                 rom, dir, name, todo, bounds, acked>>

-----------------------------------------------------------------------------
(* abort_upload, and delete_upload at the end of finalize_staged.  A client *)
(* that aborts or finalizes no longer counts on the upload.                *)
Delete(t) ==
  /\ At(t, "delete")
  /\ Free
  /\ RmTree({id[t]})
  /\ acked' = Set(acked, id[t], None)
  /\ Goto(t, "answer")
  /\ out' = IF op[t] = "abort" THEN Set(out, t, "ok") ELSE out
  /\ UNCHANGED <<storeVars, lock, minted, old, op, id, idx, chunks, mem, undo,
                 who, rom, dir, name, todo, bounds, counted, spoiled>>

(* expire_uploads called by list_games: no lock.  The listing of the       *)
(* directory, then for each entry its metadata, its files, itself.         *)
List(t) ==
  /\ At(t, "list")
  /\ todo' = Set(todo, t, dirs)
  /\ Goto(t, "list_next")
  /\ UNCHANGED <<stagingVars, storeVars, lock, op, out, id, idx, chunks, mem,
                 undo, who, rom, dir, name, bounds, history>>

ListNext(t) ==
  /\ At(t, "list_next")
  /\ \/ todo[t] = {} /\ Reply(t, "ok") /\ UNCHANGED <<id, todo, spoiled>>
     \/ \E u \in todo[t] :
          /\ todo' = Set(todo, t, todo[t] \ {u})
          /\ \/ Expired(u) /\ Goto(t, "list_unlink") /\ id' = Set(id, t, u)
             \/ ~Expired(u) /\ UNCHANGED <<pc, id>>
          /\ spoiled' = spoiled \cup (({u} \cap Swept) \ old)
          /\ UNCHANGED out
  /\ UNCHANGED <<stagingVars, storeVars, lock, op, idx, chunks, mem, undo, who,
                 rom, dir, name, bounds, counted, acked>>

ListUnlink(t) ==
  /\ At(t, "list_unlink")
  /\ Unlink(id[t])
  /\ Goto(t, "list_rmdir")
  /\ UNCHANGED <<storeVars, lock, minted, old, locals, bounds, history>>

ListRmdir(t) ==
  /\ At(t, "list_rmdir")
  /\ Rmdir(id[t])
  /\ Goto(t, "list_next")
  /\ id' = Set(id, t, None)
  /\ UNCHANGED <<storeVars, lock, minted, old, op, out, idx, chunks, mem, undo,
                 who, rom, dir, name, todo, bounds, history>>

-----------------------------------------------------------------------------
(* finalize_staged, add_rom and post_roms. *)

(* take_assembled; a refusal leaves the staged bytes for another try. *)
Take(t) ==
  /\ At(t, "take")
  /\ Free
  /\ RmTree(Swept)
  /\ \/ /\ Assembled(id[t])
        /\ rom' = Set(rom, t, data[id[t]])
        /\ Goto(t, "validate")
        /\ UNCHANGED out
     \/ ~Assembled(id[t]) /\ Reply(t, "refused") /\ UNCHANGED rom
  /\ UNCHANGED <<storeVars, lock, minted, old, op, id, idx, chunks, mem, undo,
                 who, dir, name, todo, bounds, history>>

(* The result is known; finalize_staged still has its finally clause. *)
Finish(t, r) ==
  /\ Goto(t, IF op[t] = "finalize" THEN "delete" ELSE "answer")
  /\ out' = Set(out, t, r)

(* run_isolated_validation and _reject_unplayable_or_invalid. *)
Validate(t) ==
  /\ At(t, "validate")
  /\ \/ /\ rom[t] \in Playable
        /\ Goto(t, IF dir[t] = None THEN "allocate" ELSE "own")
        /\ UNCHANGED out
     \/ rom[t] \notin Playable /\ Finish(t, "refused")
     \/ DockerFails /\ Finish(t, "error")
  /\ UNCHANGED <<stagingVars, storeVars, lock, op, id, idx, chunks, mem, undo,
                 who, rom, dir, name, todo, bounds, history>>

(* persist_mapped_rom with a subdirectory: it must be the caller's. *)
CheckOwner(t) ==
  /\ At(t, "own")
  /\ \/ Owns(who[t], dir[t]) /\ Goto(t, "replace") /\ UNCHANGED out
     \/ ~Owns(who[t], dir[t]) /\ Finish(t, "refused")
  /\ UNCHANGED <<stagingVars, storeVars, lock, op, id, idx, chunks, mem, undo,
                 who, rom, dir, name, todo, bounds, history>>

(* A random name; nobody else has drawn it.  Without one the call fails. *)
Drawable(d) == Unused(d) /\ \A t \in Threads : dir[t] # d

Allocate(t) ==
  /\ At(t, "allocate")
  /\ \/ /\ \E d \in Subdirs : Drawable(d) /\ dir' = Set(dir, t, d)
        /\ Goto(t, "persist")
        /\ UNCHANGED out
     \/ /\ \A d \in Subdirs : ~Drawable(d)
        /\ Finish(t, "error")
        /\ UNCHANGED dir
  /\ UNCHANGED <<stagingVars, storeVars, lock, op, id, idx, chunks, mem, undo,
                 who, rom, name, todo, bounds, history>>

(* _persist_validated_rom.  A new directory has no file of that name yet;  *)
(* a replacement goes on to remove the other ROMs.  POST /roms asks for    *)
(* the identity only now.                                                  *)
Persist(t) ==
  /\ At(t, "persist") \/ At(t, "replace")
  /\ \/ /\ Write(dir[t], name[t], rom[t])
        /\ IF At(t, "replace") THEN Goto(t, "prune") /\ UNCHANGED out
           ELSE IF who[t] = None THEN Finish(t, "saved")
           ELSE Goto(t, "map") /\ UNCHANGED out
     \/ WriteFails /\ WriteAborted(dir[t]) /\ Finish(t, "error")
  /\ UNCHANGED <<stagingVars, lock, op, id, idx, chunks, mem, undo, who, rom,
                 dir, name, todo, bounds, history>>

(* Mutant: the new file is not skipped. *)
PruneAll(t) ==
  /\ At(t, "prune")
  /\ todo' = Set(todo, t, Listed(dir[t]))
  /\ Goto(t, "unlink")
  /\ UNCHANGED <<stagingVars, storeVars, lock, op, out, id, idx, chunks, mem,
                 undo, who, rom, dir, name, bounds, history>>

(* The listing of the directory after the new file is in place. *)
Prune(t) ==
  /\ At(t, "prune")
  /\ todo' = Set(todo, t, Listed(dir[t]) \ {name[t]})
  /\ Goto(t, "unlink")
  /\ UNCHANGED <<stagingVars, storeVars, lock, op, out, id, idx, chunks, mem,
                 undo, who, rom, dir, name, bounds, history>>

(* One file after the other; a failing unlink is passed over. *)
UnlinkNext(t) ==
  /\ At(t, "unlink")
  /\ IF todo[t] = {}
       THEN Goto(t, "map") /\ UNCHANGED <<storeVars, todo>>
       ELSE /\ \/ UnlinkRom(dir[t], Min(todo[t]))
               \/ WriteFails /\ UNCHANGED storeVars
            /\ todo' = Set(todo, t, todo[t] \ {Min(todo[t])})
            /\ UNCHANGED pc
  /\ UNCHANGED <<stagingVars, lock, op, out, id, idx, chunks, mem, undo, who,
                 rom, dir, name, bounds, history>>

MapOwner(t) ==
  /\ At(t, "map")
  /\ \/ Map(dir[t], who[t]) /\ Finish(t, "mapped")
     \/ /\ ~Mappable(dir[t], who[t]) \/ WriteFails
        /\ Finish(t, "saved")
        /\ UNCHANGED storeVars
  /\ UNCHANGED <<stagingVars, lock, op, id, idx, chunks, mem, undo, who, rom,
                 dir, name, todo, bounds, history>>

-----------------------------------------------------------------------------
Step(t) ==
  \/ Begin(t) \/ BeginTouch(t) \/ BeginMeta(t)
  \/ Load(t) \/ WriteData(t) \/ WriteProgress(t)
  \/ RollbackData(t) \/ RollbackMeta(t)
  \/ Delete(t)
  \/ List(t) \/ ListNext(t) \/ ListUnlink(t) \/ ListRmdir(t)
  \/ Take(t) \/ Validate(t) \/ CheckOwner(t) \/ Allocate(t)
  \/ Persist(t) \/ Prune(t) \/ UnlinkNext(t) \/ MapOwner(t)
  \/ Answer(t)

Call(t) ==
  \/ CallBegin(t) \/ CallAppend(t) \/ CallOnUpload(t) \/ CallList(t)
  \/ CallFinalize(t) \/ CallSend(t)

(* The time to live of an upload is over. *)
GrowOld ==
  /\ \E u \in minted \ old : old' = old \cup {u}
  /\ UNCHANGED <<disk, minted, storeVars, lock, pc, locals, bounds, history>>

(* Between two writes that belong together. *)
Torn(t) == pc[t] \in {"write_meta", "rollback", "rollback_meta"}

(* The process dies between two writes and is started again. *)
Restart ==
  /\ restarts < MaxRestarts
  /\ restarts' = restarts + 1
  /\ lock' = None
  /\ pc' = [t \in Threads |-> "idle"]
  /\ op' = Unset
  /\ out' = [t \in Threads |-> "none"]
  /\ id' = Unset
  /\ idx' = [t \in Threads |-> 0]
  /\ chunks' = [t \in Threads |-> <<>>]
  /\ mem' = Unset
  /\ undo' = Unset
  /\ who' = Unset
  /\ rom' = Unset
  /\ dir' = Unset
  /\ name' = Unset
  /\ todo' = [t \in Threads |-> {}]
  /\ spoiled' = spoiled \cup {id[t] : t \in {s \in Threads : Torn(s)}}
  /\ UNCHANGED <<stagingVars, storeVars, left, counted, acked>>

Next ==
  \/ \E t \in Threads : Call(t) \/ Step(t)
  \/ GrowOld
  \/ Restart

Spec == Init /\ [][Next]_vars

-----------------------------------------------------------------------------
(* Properties. *)

(* uploads._LOCK is held by exactly the thread that is between two writes  *)
(* to a staging directory, whatever raises there.                          *)
LockInv == \A t \in Threads : pc[t] \in Locked <=> lock = t

(* Types, and the lock is never left taken or taken twice: an exception in *)
(* any of the writes gives it back.                                        *)
IngestInv == TypeOK /\ LockInv

(* What a client was told is staged stays staged, in that order and from   *)
(* the first byte, until the upload is aborted, finalized or too old, and  *)
(* between two calls data.bin holds exactly the slices that the progress   *)
(* counts: through concurrent, repeated and refused slices, failing        *)
(* batches and their rollback, and restarts.  A finalize that refuses the  *)
(* bytes ends nothing: the code leaves the staging for another try, which  *)
(* its documents do not allow (see FinalizeDeletes).  Uploads that a       *)
(* listing caught half begun (see BegunSurvives) or that a failure has put *)
(* out of step (see NoUncountedBytes) are excepted.                        *)
StagedInOrder ==
  \A u \in Uploads \ (old \cup spoiled) :
    acked[u] # None =>
      /\ meta[u] # None
      /\ data[u] # None
      /\ IsPrefix(acked[u], data[u])
      /\ lock = None => data[u] = counted[u]

(* No file of the store holds anything but an announced ROM, with its      *)
(* digest verified, or one sent in one piece, and only if the validator    *)
(* accepted it, whatever else was staged under the same upload id.         *)
OnlyIntended ==
  \A d \in Subdirs, n \in Names :
    files[d][n] \in {None} \cup Before \cup (({Rom} \cup Sent) \cap Playable)

(* "mapped" is only answered when the subdirectory is the caller's and     *)
(* boots.                                                                  *)
MappedBoots ==
  \A t \in Threads :
    At(t, "answer") /\ out[t] = "mapped" =>
      owner[dir[t]] = who[t] /\ Picked(dir[t]) # None

(* docs/operator.md: "Unmapped or other-owned ids are rejected and nothing *)
(* is persisted": the files of a subdirectory that belongs to somebody are *)
(* only changed by a replacement that its owner has asked for, although    *)
(* ownership is looked up in another store and long before the last write. *)
OwnersOnly ==
  [][\A d \in Subdirs :
       owner[d] # None /\ files'[d] # files[d] =>
         \E t \in Threads :
           /\ pc[t] \in {"replace", "unlink"}
           /\ dir[t] = d
           /\ who[t] = owner[d]]_vars

(* The store is a GameLibrary: no write, crash or failure in the middle of *)
(* a call shows a user a subdirectory without its game.                    *)
Library == INSTANCE GameLibrary WITH
  belongs <- owner,
  game <- [d \in Subdirs |-> IF owner[d] = None THEN None ELSE Picked(d)]

LibraryContract == Library!Spec

-----------------------------------------------------------------------------
(* Known not to hold.  A run finds the first one violated; no run checks   *)
(* the others.                                                             *)

(* docs/operator.md of finalize: "Staging is always deleted."  A finalize  *)
(* that take_assembled refuses, because bytes are missing or their digest  *)
(* is not the announced one, answers and leaves the staging.               *)
FinalizeDeletes ==
  \A t \in Threads :
    At(t, "answer") /\ op[t] = "finalize" => id[t] \notin dirs

(* docs/operator.md: "Abandoned staging expires after 30 minutes": before  *)
(* that, an upload that begin_upload has answered is there.  list_games    *)
(* sweeps without the lock and may take it between mkdir and meta.json.    *)
BegunSurvives ==
  \A u \in Uploads \ old : acked[u] # None => u \in dirs /\ meta[u] # None

(* docs/operator.md: "Retrying the immediately previous slice with         *)
(* identical bytes is idempotent": between two calls there is no byte in   *)
(* data.bin that the progress does not count.  append_chunk leaves one     *)
(* when meta.json cannot be written, or the process dies before it is; the *)
(* retry is then appended behind it.                                       *)
NoUncountedBytes ==
  \A u \in dirs \ old :
    lock = None /\ meta[u] # None => Len(data[u]) = meta[u].received

(* CHANGELOG.md: "atomically overwrite": a mapping that had a game has one *)
(* for ever.  Two replacements under different file names each remove the  *)
(* other's file (NewNames with two elements).                              *)
GameStays ==
  [][\A d \in Subdirs : owner[d] # None /\ Picked(d) # None
                          => Picked(d)' # None]_vars
=============================================================================
