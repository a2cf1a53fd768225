----------------------------- MODULE PlaySessions -----------------------------
(***************************************************************************)
(* The registry of play sessions of the MCP server: SessionManager and     *)
(* PlaySession (gb_mcp/emulator/session.py) over the Docker backend        *)
(* (gb_mcp/emulator/instance.py), driven by the tools of                   *)
(* gb_mcp/tools/play.py.                                                   *)
(*                                                                         *)
(* Every worker thread runs one tool call at a time.  A step of a thread   *)
(* is the code between two docker commands or two uses of the manager's    *)
(* lock; in between, other threads, the guests and the idle clock move.    *)
(* PlaySession.is_running is called from a dozen places, so it is a        *)
(* procedure here: "query", "mark" and "reap" return to the label ret[t]   *)
(* with the answer in up[t].  The stop sequence (request_stop, join, then  *)
(* is_running again) is shared by load, stop and shutdown the same way.    *)
(***************************************************************************)
EXTENDS Naturals, PlayHost

CONSTANTS
  Emails,
  Owner,        \* Owner[d]: the email that subdirectory d is mapped to
  Threads,      \* worker threads of the MCP server
  Sessions,     \* identities of PlaySession objects, reused when unreachable
  None,
  MaxRequests,  \* bound: tool calls in a behaviour
  MaxRestarts   \* bound: crashes or restarts of the MCP server

Ops == {"load", "reset", "play", "save", "discard", "stop", "shutdown"}

ASSUME SessionsAssumption ==
  /\ Owner \in [Subdirs -> Emails]
  /\ None \notin Sessions \cup Threads \cup Subdirs \cup Emails \cup Ops
  /\ MaxRequests \in Nat
  /\ MaxRestarts \in Nat

VARIABLES
  byEmail,   \* SessionManager._by_email
  lock,      \* holder of SessionManager._lock
  subOf,     \* PlaySession.subdirectory
  dead,      \* PlaySession._known_dead
  mcp,       \* "on", "closing" (atexit handler running) or "down"
  todo,      \* emails shutdown() has still to visit
  pc, ret, up, out,          \* per thread: label, return label, result, reply
  op, who, tgt, sess, held,  \* per thread: the call and its local variables
  left, restarts             \* remaining tool calls, restarts so far

registry == <<byEmail, subOf, dead>>
process  == <<mcp, todo, left, restarts>>
callVars == <<op, who, tgt>>
locals   == <<callVars, sess, held>>
vars == <<hostVars, registry, process, locals, lock, pc, ret, up, out>>

-----------------------------------------------------------------------------
(* Labels of a thread. *)

StartLabels == {"start_inspect", "start_rm", "start_run", "start_ready",
                "start_abort", "register"}
StopLabels  == {"ask_stop", "join", "join_rm", "join_end", "join_mark"}
QueryLabels == {"query", "mark", "reap"}
ReturnLabels ==
  {"cur_checked", "req_checked", "rpc", "stop_checked", "stop_end",
   "reset_cur", "reset_stopped", "load_cur", "load_stopped",
   "shut_checked", "shut_next", "reset_back", "answer"}
Labels == {"idle", "cur_get", "req_get", "stop_get", "reset_get",
           "reset_unlink", "load_lock", "status", "status_rpc",
           "status_retry"}
          \cup StartLabels \cup StopLabels \cup QueryLabels \cup ReturnLabels

Replies == {"none", "started", "reused", "already", "not_started",
            "not_stopped", "stopped", "already_stopped", "no_session",
            "mismatch", "sent", "not_sent", "error", "shutdown"}

TypeOK ==
  /\ HostTypeOK
  /\ byEmail \in [Emails -> Sessions \cup {None}]
  /\ lock \in Threads \cup {None}
  /\ subOf \in [Sessions -> Subdirs \cup {None}]
  /\ dead \in [Sessions -> BOOLEAN]
  /\ mcp \in {"on", "closing", "down"}
  /\ todo \in SUBSET Emails
  /\ pc \in [Threads -> Labels]
  /\ ret \in [Threads -> ReturnLabels]
  /\ up \in [Threads -> BOOLEAN]
  /\ out \in [Threads -> Replies]
  /\ op \in [Threads -> Ops \cup {None}]
  /\ who \in [Threads -> Emails \cup {None}]
  /\ tgt \in [Threads -> Subdirs \cup {None}]
  /\ sess \in [Threads -> Sessions \cup {None}]
  /\ held \in [Threads -> Sessions \cup {None}]
  /\ left \in 0..MaxRequests
  /\ restarts \in 0..MaxRestarts

Idle == [t \in Threads |-> "idle"]
Unset == [t \in Threads |-> None]

Init ==
  /\ HostInit
  /\ byEmail = [e \in Emails |-> None]
  /\ lock = None
  /\ subOf = [s \in Sessions |-> None]
  /\ dead = [s \in Sessions |-> FALSE]
  /\ mcp = "on"
  /\ todo = {}
  /\ pc = Idle
  /\ ret = [t \in Threads |-> "answer"]
  /\ up = [t \in Threads |-> FALSE]
  /\ out = [t \in Threads |-> "none"]
  /\ op = Unset
  /\ who = Unset
  /\ tgt = Unset
  /\ sess = Unset
  /\ held = Unset
  /\ left = MaxRequests
  /\ restarts = 0

-----------------------------------------------------------------------------
(* Control helpers. *)

Goto(t, label) == pc' = [pc EXCEPT ![t] = label]

Reply(t, r) == out' = [out EXCEPT ![t] = r]

(* Call is_running on sess[t] and go on at label `back`. *)
IsRunning(t, back) ==
  /\ Goto(t, "query")
  /\ ret' = [ret EXCEPT ![t] = back]

(* `return session.status(...)`, then go on at label `back`. *)
Status(t, back) ==
  /\ Goto(t, "status")
  /\ ret' = [ret EXCEPT ![t] = back]

(* `return {...error...}` without asking the backend. *)
Refuse(t, r) ==
  /\ Goto(t, "answer")
  /\ Reply(t, r)
  /\ UNCHANGED ret

(* session = self._by_email.get(email), under the lock. *)
ReadRegistry(t) ==
  /\ lock = None
  /\ sess' = [sess EXCEPT ![t] = byEmail[who[t]]]

Sub(t) == subOf[sess[t]]

At(t, label) == pc[t] = label

-----------------------------------------------------------------------------
(* A tool call arrives (tools/play.py: boot, play, save, stop).  No tool   *)
(* offers discard_state of the manager; its caller is taken to look for    *)
(* the session as the tools do.                                            *)

Begin(t) ==
  /\ At(t, "idle")
  /\ mcp = "on"
  /\ left > 0
  /\ left' = left - 1
  /\ \/ \E o \in {"load", "reset"}, d \in Subdirs :
          /\ op' = [op EXCEPT ![t] = o]
          /\ who' = [who EXCEPT ![t] = Owner[d]]
          /\ tgt' = [tgt EXCEPT ![t] = d]
          /\ Goto(t, IF o = "load" THEN "load_lock" ELSE "reset_get")
     \/ \E o \in {"play", "save", "discard", "stop"}, e \in Emails :
          /\ op' = [op EXCEPT ![t] = o]
          /\ who' = [who EXCEPT ![t] = e]
          /\ tgt' = tgt
          /\ Goto(t, "cur_get")
  /\ UNCHANGED <<hostVars, registry, lock, ret, up, out, sess, held,
                 mcp, todo, restarts>>

(* Mutant of Answer: the lock is not given back. *)
AnswerKeepsLock(t) ==
  /\ At(t, "answer")
  /\ Goto(t, "idle")
  /\ mcp' = IF op[t] = "shutdown" THEN "down" ELSE mcp
  /\ Reply(t, "none")
  /\ ret' = [ret EXCEPT ![t] = "answer"]
  /\ up' = [up EXCEPT ![t] = FALSE]
  /\ op' = [op EXCEPT ![t] = None]
  /\ who' = [who EXCEPT ![t] = None]
  /\ tgt' = [tgt EXCEPT ![t] = None]
  /\ sess' = [sess EXCEPT ![t] = None]
  /\ held' = [held EXCEPT ![t] = None]
  /\ UNCHANGED <<hostVars, registry, todo, lock, left, restarts>>

(* The reply leaves; `with self._lock` ends if the call still held it. *)
Answer(t) ==
  /\ At(t, "answer")
  /\ Goto(t, "idle")
  /\ lock' = IF lock = t THEN None ELSE lock
  /\ mcp' = IF op[t] = "shutdown" THEN "down" ELSE mcp
  /\ Reply(t, "none")
  /\ ret' = [ret EXCEPT ![t] = "answer"]
  /\ up' = [up EXCEPT ![t] = FALSE]
  /\ op' = [op EXCEPT ![t] = None]
  /\ who' = [who EXCEPT ![t] = None]
  /\ tgt' = [tgt EXCEPT ![t] = None]
  /\ sess' = [sess EXCEPT ![t] = None]
  /\ held' = [held EXCEPT ![t] = None]
  /\ UNCHANGED <<hostVars, registry, todo, left, restarts>>

-----------------------------------------------------------------------------
(* PlaySession.is_running, _mark_dead and status. *)

(* Mutant of Query: a guest that is saving on its way out counts as down. *)
QueryForgetsClosing(t) ==
  /\ At(t, "query")
  /\ \/ /\ ~dead[sess[t]] /\ con[Sub(t)] \in {"booting", "live"}
        /\ up' = [up EXCEPT ![t] = TRUE]
        /\ Goto(t, ret[t])
     \/ /\ dead[sess[t]] \/ con[Sub(t)] \notin {"booting", "live"}
        /\ up' = [up EXCEPT ![t] = FALSE]
        /\ Goto(t, IF dead[sess[t]] THEN ret[t] ELSE "mark")
  /\ UNCHANGED <<hostVars, registry, process, locals, lock, ret, out>>

(* An exception of the inspect is read as "still running". *)
Query(t) ==
  /\ At(t, "query")
  /\ \/ /\ dead[sess[t]]
        /\ up' = [up EXCEPT ![t] = FALSE]
        /\ Goto(t, ret[t])
     \/ /\ ~dead[sess[t]]
        /\ Up(Sub(t)) \/ DockerHangs
        /\ up' = [up EXCEPT ![t] = TRUE]
        /\ Goto(t, ret[t])
     \/ /\ ~dead[sess[t]]
        /\ SeemsDown(Sub(t))
        /\ up' = [up EXCEPT ![t] = FALSE]
        /\ Goto(t, "mark")
  /\ UNCHANGED <<hostVars, registry, process, locals, lock, ret, out>>

MarkDead(t) ==
  /\ At(t, "mark")
  /\ dead' = [dead EXCEPT ![sess[t]] = TRUE]
  /\ Goto(t, IF dead[sess[t]] THEN ret[t] ELSE "reap")
  /\ UNCHANGED <<hostVars, byEmail, subOf, process, locals, lock, ret, up, out>>

Reap(t) ==
  /\ At(t, "reap")
  /\ Rm(Sub(t))
  /\ Goto(t, ret[t])
  /\ UNCHANGED <<registry, process, locals, lock, ret, up, out>>

(* backend.status: inspect, then GET /status. *)
StatusInspect(t) ==
  /\ At(t, "status")
  /\ \/ Up(Sub(t)) /\ Goto(t, "status_rpc")
     \/ SeemsDown(Sub(t)) /\ Goto(t, ret[t])
     \/ DockerHangs /\ Goto(t, "status_retry")
  /\ UNCHANGED <<hostVars, registry, process, locals, lock, ret, up, out>>

(* Mutant of StatusRpc: a failed RPC is taken for a dead container. *)
StatusRpcGivesUp(t) ==
  /\ At(t, "status_rpc")
  /\ \/ Up(Sub(t)) /\ Goto(t, ret[t])
     \/ (~Up(Sub(t)) \/ RpcFaults \/ DockerHangs) /\ Goto(t, "mark")
  /\ UNCHANGED <<hostVars, registry, process, locals, lock, ret, up, out>>

StatusRpc(t) ==
  /\ At(t, "status_rpc")
  /\ \/ Up(Sub(t)) /\ Goto(t, ret[t])
     \/ (~Up(Sub(t)) \/ RpcFaults \/ DockerHangs) /\ Goto(t, "status_retry")
  /\ UNCHANGED <<hostVars, registry, process, locals, lock, ret, up, out>>

(* After a failed backend.status: is the guest still up?  An exception of  *)
(* this second inspect is read as "down".                                  *)
StatusRetry(t) ==
  /\ At(t, "status_retry")
  /\ \/ Up(Sub(t)) /\ Goto(t, ret[t])
     \/ (SeemsDown(Sub(t)) \/ DockerHangs) /\ Goto(t, "mark")
  /\ UNCHANGED <<hostVars, registry, process, locals, lock, ret, up, out>>

-----------------------------------------------------------------------------
(* request_stop, join(15) and the is_running that follows them. *)

(* shutdown() does not look again after join. *)
AfterJoin(t) == IF ret[t] = "shut_next" THEN "shut_next" ELSE "query"

(* TimeoutExpired leaves the manager; the stop tool then asks is_running.   *)
Raise(t) ==
  /\ Reply(t, "error")
  /\ IF op[t] = "stop" THEN IsRunning(t, "answer")
                       ELSE Goto(t, "answer") /\ UNCHANGED ret

(* Mutant of AskStop: the stop never reaches the guest. *)
AskStopUnheard(t) ==
  /\ At(t, "ask_stop")
  /\ Goto(t, "join")
  /\ UNCHANGED <<hostVars, ret, out, registry, process, locals, lock, up>>

(* POST /stop; a nonzero docker exec is swallowed, TimeoutExpired is not. *)
AskStop(t) ==
  /\ At(t, "ask_stop")
  /\ \/ DeliverStop(Sub(t)) /\ Goto(t, "join") /\ UNCHANGED <<ret, out>>
     \/ /\ con[Sub(t)] # "live" \/ SeemsDown(Sub(t)) \/ RpcFaults
        /\ Goto(t, "join")
        /\ UNCHANGED <<hostVars, ret, out>>
     \/ DockerHangs /\ Raise(t) /\ UNCHANGED hostVars
  /\ UNCHANGED <<registry, process, locals, lock, up>>

(* The deadline of the poll.  A guest that was asked to stop meets it      *)
(* unless SlowGuest; one that never heard of the stop always misses it.    *)
Deadline(d) == SlowGuest \/ con[d] \in {"booting", "live"}

(* Mutant of Join: it does not wait for the guest to save. *)
JoinAtOnce(t) ==
  /\ At(t, "join")
  /\ Goto(t, "join_rm")
  /\ UNCHANGED <<hostVars, ret, out, registry, process, locals, lock, up>>

Join(t) ==
  /\ At(t, "join")
  /\ \/ /\ SeemsDown(Sub(t)) \/ Deadline(Sub(t))
        /\ Goto(t, "join_rm")
        /\ UNCHANGED <<ret, out>>
     \/ DockerHangs /\ Raise(t)
  /\ UNCHANGED <<hostVars, registry, process, locals, lock, up>>

JoinRm(t) ==
  /\ At(t, "join_rm")
  /\ Rm(Sub(t))
  /\ Goto(t, "join_end")
  /\ UNCHANGED <<registry, process, locals, lock, ret, up, out>>

(* finally: if not is_running: _mark_dead(reap=False).  When docker hangs  *)
(* in join, the code asks here too before the exception goes on; the model *)
(* raises at once, and the next is_running finds the dead container.       *)
JoinEnd(t) ==
  /\ At(t, "join_end")
  /\ \/ Up(Sub(t)) /\ Goto(t, AfterJoin(t)) /\ UNCHANGED <<ret, out>>
     \/ SeemsDown(Sub(t)) /\ Goto(t, "join_mark") /\ UNCHANGED <<ret, out>>
     \/ DockerHangs /\ Raise(t)
  /\ UNCHANGED <<hostVars, registry, process, locals, lock, up>>

JoinMark(t) ==
  /\ At(t, "join_mark")
  /\ dead' = [dead EXCEPT ![sess[t]] = TRUE]
  /\ Goto(t, AfterJoin(t))
  /\ UNCHANGED <<hostVars, byEmail, subOf, process, locals, lock, ret, up, out>>

-----------------------------------------------------------------------------
(* SessionManager.load and DockerInstanceBackend.start, under the lock. *)

(* Mutant of LoadLock: the manager's lock is not kept for the whole load. *)
LoadLockReleases(t) ==
  /\ At(t, "load_lock")
  /\ ReadRegistry(t)
  /\ IF byEmail[who[t]] = None
       THEN Goto(t, "start_inspect") /\ UNCHANGED ret
       ELSE IsRunning(t, "load_cur")
  /\ UNCHANGED <<hostVars, registry, process, callVars, held, lock, up, out>>

LoadLock(t) ==
  /\ At(t, "load_lock")
  /\ ReadRegistry(t)
  /\ lock' = t
  /\ IF byEmail[who[t]] = None
       THEN Goto(t, "start_inspect") /\ UNCHANGED ret
       ELSE IsRunning(t, "load_cur")
  /\ UNCHANGED <<hostVars, registry, process, callVars, held, up, out>>

(* Mutant of LoadCurrent: the other game is not stopped first. *)
LoadCurrentKeepsOld(t) ==
  /\ At(t, "load_cur")
  /\ IF up[t] /\ Sub(t) = tgt[t]
       THEN Status(t, "answer") /\ Reply(t, "already")
       ELSE Goto(t, "start_inspect") /\ UNCHANGED <<ret, out>>
  /\ UNCHANGED <<hostVars, registry, process, locals, lock, up>>

LoadCurrent(t) ==
  /\ At(t, "load_cur")
  /\ \/ /\ ~up[t]
        /\ Goto(t, "start_inspect")
        /\ UNCHANGED <<ret, out>>
     \/ /\ up[t] /\ Sub(t) = tgt[t]
        /\ Status(t, "answer")
        /\ Reply(t, "already")
     \/ /\ up[t] /\ Sub(t) # tgt[t]
        /\ Goto(t, "ask_stop")
        /\ ret' = [ret EXCEPT ![t] = "load_stopped"]
        /\ UNCHANGED out
  /\ UNCHANGED <<hostVars, registry, process, locals, lock, up>>

LoadStopped(t) ==
  /\ At(t, "load_stopped")
  /\ IF up[t] THEN Refuse(t, "not_stopped")
              ELSE Goto(t, "start_inspect") /\ UNCHANGED <<ret, out>>
  /\ UNCHANGED <<hostVars, registry, process, locals, lock, up>>

(* Running?  If not, does a container with this name exist? *)
StartInspect(t) ==
  /\ At(t, "start_inspect")
  /\ \/ Up(tgt[t]) /\ Goto(t, "register") /\ Reply(t, "reused")
     \/ /\ SeemsDown(tgt[t])
        /\ \/ con[tgt[t]] # "none" /\ Goto(t, "start_rm")
           \/ (con[tgt[t]] = "none" \/ InspectFlakes) /\ Goto(t, "start_run")
        /\ UNCHANGED out
     \/ DockerHangs /\ Goto(t, "answer") /\ Reply(t, "not_started")
  /\ UNCHANGED <<hostVars, registry, process, locals, lock, ret, up>>

StartRm(t) ==
  /\ At(t, "start_rm")
  /\ Rm(tgt[t])
  /\ Goto(t, "start_run")
  /\ UNCHANGED <<registry, process, locals, lock, ret, up, out>>

(* `docker run` fails on a name that is taken; it may time out with the    *)
(* container created.                                                      *)
StartRun(t) ==
  /\ At(t, "start_run")
  /\ \/ /\ con[tgt[t]] = "none"
        /\ Launch(tgt[t], op[t] # "reset")
        /\ Goto(t, "start_ready")
        /\ UNCHANGED out
     \/ /\ Refuse(t, "not_started")
        /\ \/ UNCHANGED hostVars
           \/ /\ RunTimeouts
              /\ con[tgt[t]] = "none"
              /\ Launch(tgt[t], op[t] # "reset")
  /\ UNCHANGED <<registry, process, locals, lock, ret, up>>

(* _wait_ready polls until its 30 s deadline ("booting" here), or until an  *)
(* inspect or an RPC misleads it.                                          *)
StartReady(t) ==
  /\ At(t, "start_ready")
  /\ \/ /\ con[tgt[t]] \in {"live", "closing"}
        /\ Goto(t, "register")
        /\ Reply(t, "started")
     \/ /\ \/ con[tgt[t]] \notin {"live", "closing"}
           \/ InspectFlakes \/ RpcFaults \/ DockerHangs
        /\ Goto(t, "start_abort")
        /\ UNCHANGED out
  /\ UNCHANGED <<hostVars, registry, process, locals, lock, ret, up>>

(* Mutant of StartAbort: the guest that was not ready is left behind. *)
StartAbortLeaves(t) ==
  /\ At(t, "start_abort")
  /\ Refuse(t, "not_started")
  /\ UNCHANGED <<hostVars, registry, process, locals, lock, up>>

StartAbort(t) ==
  /\ At(t, "start_abort")
  /\ Rm(tgt[t])
  /\ Refuse(t, "not_started")
  /\ UNCHANGED <<registry, process, locals, lock, up>>

(* A session object no variable of the server refers to any more. *)
Unreachable(s) ==
  /\ \A e \in Emails : byEmail[e] # s
  /\ \A t \in Threads : sess[t] # s /\ held[t] # s

Register(t) ==
  /\ At(t, "register")
  /\ \E s \in Sessions :
       /\ Unreachable(s)
       /\ subOf' = [subOf EXCEPT ![s] = tgt[t]]
       /\ dead' = [dead EXCEPT ![s] = FALSE]
       /\ byEmail' = [byEmail EXCEPT ![who[t]] = s]
       /\ sess' = [sess EXCEPT ![t] = s]
  /\ lock' = None
  /\ Status(t, "answer")
  /\ UNCHANGED <<hostVars, process, callVars, held, up, out>>

-----------------------------------------------------------------------------
(* current(), then send_input / save_battery / discard_state. *)

CurrentGet(t) ==
  /\ At(t, "cur_get")
  /\ ReadRegistry(t)
  /\ IF byEmail[who[t]] = None
       THEN Refuse(t, "no_session")
       ELSE IsRunning(t, "cur_checked") /\ UNCHANGED out
  /\ UNCHANGED <<hostVars, registry, process, callVars, held, lock, up>>

(* The tool goes on with the subdirectory of the session it was given. *)
CurrentChecked(t) ==
  /\ At(t, "cur_checked")
  /\ \/ ~up[t] /\ Refuse(t, "no_session") /\ UNCHANGED tgt
     \/ /\ up[t]
        /\ tgt' = [tgt EXCEPT ![t] = Sub(t)]
        /\ Goto(t, IF op[t] = "stop" THEN "stop_get" ELSE "req_get")
        /\ UNCHANGED <<ret, out>>
  /\ UNCHANGED <<hostVars, registry, process, op, who, sess, held, lock, up>>

RequireGet(t) ==
  /\ At(t, "req_get")
  /\ ReadRegistry(t)
  /\ IsRunning(t, "req_checked")
  /\ UNCHANGED <<hostVars, registry, process, callVars, held, lock, up, out>>

(* An entry of _by_email is replaced, never removed: after current() the    *)
(* second look finds one too.                                              *)
(* submit() asks is_running once more before it talks to the backend. *)
RequireChecked(t) ==
  /\ At(t, "req_checked")
  /\ \/ ~up[t] /\ Refuse(t, "no_session")
     \/ up[t] /\ Sub(t) # tgt[t] /\ Refuse(t, "mismatch")
     \/ up[t] /\ Sub(t) = tgt[t] /\ IsRunning(t, "rpc") /\ UNCHANGED out
  /\ UNCHANGED <<hostVars, registry, process, locals, lock, up>>

(* A call that fails or times out may have been executed all the same. *)
Rpc(t) ==
  /\ At(t, "rpc")
  /\ \/ up[t] /\ Execute(Sub(t), op[t]) /\ Reply(t, "sent")
     \/ up[t] /\ Execute(Sub(t), op[t]) /\ Reply(t, "not_sent")
     \/ Reply(t, "not_sent") /\ UNCHANGED hostVars
  /\ Status(t, "answer")
  /\ UNCHANGED <<registry, process, locals, lock, up>>

-----------------------------------------------------------------------------
(* SessionManager.stop, called by the tool or by reset. *)

StopReturn(t) == IF op[t] = "reset" THEN "reset_back" ELSE "answer"

(* The subdirectory argument of stop. *)
StopSub(t) == IF op[t] = "reset" THEN subOf[held[t]] ELSE tgt[t]

StopGet(t) ==
  /\ At(t, "stop_get")
  /\ ReadRegistry(t)
  /\ IF subOf[byEmail[who[t]]] # StopSub(t)
       THEN Goto(t, StopReturn(t)) /\ Reply(t, "mismatch") /\ UNCHANGED ret
       ELSE IsRunning(t, "stop_checked") /\ UNCHANGED out
  /\ UNCHANGED <<hostVars, registry, process, callVars, held, lock, up>>

StopChecked(t) ==
  /\ At(t, "stop_checked")
  /\ \/ ~up[t] /\ Status(t, StopReturn(t)) /\ Reply(t, "already_stopped")
     \/ /\ up[t]
        /\ Goto(t, "ask_stop")
        /\ ret' = [ret EXCEPT ![t] = "stop_end"]
        /\ UNCHANGED out
  /\ UNCHANGED <<hostVars, registry, process, locals, lock, up>>

StopEnd(t) ==
  /\ At(t, "stop_end")
  /\ Status(t, StopReturn(t))
  /\ Reply(t, IF up[t] THEN "not_stopped" ELSE "stopped")
  /\ UNCHANGED <<hostVars, registry, process, locals, lock, up>>

-----------------------------------------------------------------------------
(* SessionManager.reset: stop, unlink the snapshot, load without restore. *)

ResetGet(t) ==
  /\ At(t, "reset_get")
  /\ ReadRegistry(t)
  /\ held' = [held EXCEPT ![t] = byEmail[who[t]]]
  /\ IF byEmail[who[t]] = None
       THEN Goto(t, "reset_unlink") /\ UNCHANGED ret
       ELSE IsRunning(t, "reset_cur")
  /\ UNCHANGED <<hostVars, registry, process, callVars, lock, up, out>>

(* Mutant of ResetCurrent: the running game is not stopped. *)
ResetCurrentSkipsStop(t) ==
  /\ At(t, "reset_cur")
  /\ Goto(t, "reset_unlink")
  /\ UNCHANGED <<hostVars, registry, process, locals, lock, ret, up, out>>

ResetCurrent(t) ==
  /\ At(t, "reset_cur")
  /\ Goto(t, IF up[t] THEN "stop_get" ELSE "reset_unlink")
  /\ UNCHANGED <<hostVars, registry, process, locals, lock, ret, up, out>>

ResetBack(t) ==
  /\ At(t, "reset_back")
  /\ sess' = [sess EXCEPT ![t] = held[t]]
  /\ IsRunning(t, "reset_stopped")
  /\ UNCHANGED <<hostVars, registry, process, callVars, held, lock, up, out>>

ResetStopped(t) ==
  /\ At(t, "reset_stopped")
  /\ IF up[t] THEN Refuse(t, "not_stopped")
              ELSE Goto(t, "reset_unlink") /\ UNCHANGED <<ret, out>>
  /\ UNCHANGED <<hostVars, registry, process, locals, lock, up>>

ResetUnlink(t) ==
  /\ At(t, "reset_unlink")
  /\ UnlinkSnapshot(tgt[t])
  /\ held' = [held EXCEPT ![t] = None]
  /\ Goto(t, "load_lock")
  /\ UNCHANGED <<registry, process, callVars, sess, lock, ret, up, out>>

-----------------------------------------------------------------------------
(* The atexit handler, and the death and restart of the server process. *)

(* Python joins the worker threads before it runs atexit handlers. *)
BeginShutdown(t) ==
  /\ mcp = "on"
  /\ pc = Idle
  /\ mcp' = "closing"
  /\ todo' = {e \in Emails : byEmail[e] # None}
  /\ op' = [op EXCEPT ![t] = "shutdown"]
  /\ Goto(t, "shut_next")
  /\ UNCHANGED <<hostVars, registry, who, tgt, sess, held, lock, ret, up, out,
                 left, restarts>>

(* Mutant of ShutdownNext: the first session it picks is the only one. *)
ShutdownNextOnce(t) ==
  /\ At(t, "shut_next")
  /\ \/ /\ todo = {}
        /\ Goto(t, "answer")
        /\ Reply(t, "shutdown")
        /\ UNCHANGED <<todo, sess, ret>>
     \/ \E e \in todo :
          /\ todo' = {}
          /\ sess' = [sess EXCEPT ![t] = byEmail[e]]
          /\ IsRunning(t, "shut_checked")
          /\ UNCHANGED out
  /\ UNCHANGED <<hostVars, registry, callVars, held, lock, up, mcp, left,
                 restarts>>

ShutdownNext(t) ==
  /\ At(t, "shut_next")
  /\ \/ /\ todo = {}
        /\ Goto(t, "answer")
        /\ Reply(t, "shutdown")
        /\ UNCHANGED <<todo, sess, ret>>
     \/ \E e \in todo :
          /\ todo' = todo \ {e}
          /\ sess' = [sess EXCEPT ![t] = byEmail[e]]
          /\ IsRunning(t, "shut_checked")
          /\ UNCHANGED out
  /\ UNCHANGED <<hostVars, registry, callVars, held, lock, up, mcp, left,
                 restarts>>

ShutdownChecked(t) ==
  /\ At(t, "shut_checked")
  /\ Goto(t, IF up[t] THEN "ask_stop" ELSE "shut_next")
  /\ ret' = [ret EXCEPT ![t] = "shut_next"]
  /\ UNCHANGED <<hostVars, registry, process, locals, lock, up, out>>

(* The process dies at any moment, or ended by itself, and comes back: the *)
(* registry is process memory, the containers and the volume stay.         *)
Restart ==
  /\ restarts < MaxRestarts
  /\ restarts' = restarts + 1
  /\ mcp' = "on"
  /\ todo' = {}
  /\ byEmail' = [e \in Emails |-> None]
  /\ lock' = None
  /\ pc' = Idle
  /\ ret' = [t \in Threads |-> "answer"]
  /\ up' = [t \in Threads |-> FALSE]
  /\ out' = [t \in Threads |-> "none"]
  /\ op' = Unset
  /\ who' = Unset
  /\ tgt' = Unset
  /\ sess' = Unset
  /\ held' = Unset
  /\ UNCHANGED <<hostVars, subOf, dead, left>>

-----------------------------------------------------------------------------
StopSteps(t) == AskStop(t) \/ Join(t) \/ JoinRm(t) \/ JoinEnd(t) \/ JoinMark(t)

StartSteps(t) ==
  \/ StartInspect(t) \/ StartRm(t) \/ StartRun(t) \/ StartReady(t)
  \/ StartAbort(t) \/ Register(t)

(* Every step of a call that has begun. *)
Step(t) ==
  \/ Query(t) \/ MarkDead(t) \/ Reap(t) \/ StatusInspect(t) \/ StatusRpc(t)
  \/ StatusRetry(t)
  \/ StopSteps(t)
  \/ LoadLock(t) \/ LoadCurrent(t) \/ LoadStopped(t) \/ StartSteps(t)
  \/ CurrentGet(t) \/ CurrentChecked(t)
  \/ RequireGet(t) \/ RequireChecked(t) \/ Rpc(t)
  \/ StopGet(t) \/ StopChecked(t) \/ StopEnd(t)
  \/ ResetGet(t) \/ ResetCurrent(t) \/ ResetBack(t) \/ ResetStopped(t)
  \/ ResetUnlink(t)
  \/ ShutdownNext(t) \/ ShutdownChecked(t)
  \/ Answer(t)

GuestSteps ==
  \E d \in Subdirs :
    /\ GuestStep(d)
    /\ UNCHANGED <<registry, process, locals, lock, pc, ret, up, out>>

Next ==
  \/ \E t \in Threads : Begin(t) \/ BeginShutdown(t) \/ Step(t)
  \/ GuestSteps
  \/ Restart

Spec == Init /\ [][Next]_vars

(* A tool call that has begun keeps running, and a closing guest closes;   *)
(* nobody is obliged to call a tool, and no guest to be slow or idle.      *)
Fairness ==
  /\ \A t \in Threads : WF_vars(Step(t))
  /\ \A d \in Subdirs : WF_vars(GuestClose(d) /\ GuestSteps)

FairSpec == Spec /\ Fairness

-----------------------------------------------------------------------------
(* Properties. *)

(* "One live play instance per email": however calls of one user          *)
(* interleave, at most one container of the user's games is running        *)
(* (SessionManager.load stops the old one before it starts another).       *)
OneLivePerEmail ==
  \A d1, d2 \in Subdirs :
    Up(d1) /\ Up(d2) /\ Owner[d1] = Owner[d2] => d1 = d2

(* Nobody is about to start a container for email e. *)
NoLoad(e) == lock = None \/ who[lock] # e

(* A running container always belongs to the registered session of its     *)
(* owner, unless the load that starts it is still in progress: stop can    *)
(* reach it, and shutdown will.                                            *)
NoOrphan ==
  \A d \in Subdirs :
    Up(d) /\ NoLoad(Owner[d]) =>
      byEmail[Owner[d]] # None /\ subOf[byEmail[Owner[d]]] = d

(* The cached _known_dead of the registered session is never stale: its    *)
(* container is down, so is_running may answer without asking Docker.      *)
DeadIsDown ==
  \A e \in Emails :
    byEmail[e] # None /\ dead[byEmail[e]] /\ NoLoad(e)
      => ~Up(subOf[byEmail[e]])

(* When the atexit handler has run, no play instance is left running,      *)
(* whichever session its loop visited first and whatever failed before.    *)
ShutdownLeavesNothing == mcp = "down" => \A d \in Subdirs : ~Up(d)

(* No docker rm -f ever hits a guest holding progress its snapshot lacks:  *)
(* switching, stopping and resetting save first (session.py load/stop).    *)
NeverRemovesUnsaved ==
  [][\A d \in Subdirs : unsaved[d] => con'[d] # "none"]_vars

(* _mark_dead's reap removes dead containers only: a session the server    *)
(* gave up on, by a stale or failed query, never costs a live instance.    *)
NeverReapsLive ==
  [][\A t \in Threads : At(t, "reap") /\ pc'[t] # "reap" => ~Up(Sub(t))]_vars

(* A stop that reports success leaves the snapshot on disk and no          *)
(* container behind.  (After a restart of the server the container it      *)
(* takes over may still be booting and not hear the stop.)                 *)
StopLeavesSnapshot ==
  restarts = 0 =>
    \A t \in Threads :
      At(t, "answer") /\ op[t] = "stop" /\ out[t] \in {"stopped", "already_stopped"}
        => snap[tgt[t]] /\ con[tgt[t]] = "none"

(* A reset that reports a running game runs it from a cold boot, not from  *)
(* the snapshot it was asked to drop.  (After a restart of the server the  *)
(* reset does not know that the game runs and takes it over as it is.)     *)
ResetIsCold ==
  restarts = 0 =>
    \A t \in Threads :
      At(t, "answer") /\ op[t] = "reset" /\ out[t] \in {"started", "reused", "already"}
        => (con[tgt[t]] = "live" => cold[tgt[t]])

(* Every tool call is answered: no thread waits for ever for the manager's *)
(* lock, for a join, or for a guest, whatever fails.                       *)
EveryCallAnswered ==
  \A t \in Threads : pc[t] # "idle" ~> pc[t] = "idle"

(* The idle close "removes the container": a guest that exited is removed  *)
(* in the end, even if its user never calls again.                         *)
ExitedIsRemoved ==
  \A d \in Subdirs : con[d] = "exited" ~> con[d] # "exited"

(* Seen from outside, every container keeps the contract of a play         *)
(* instance: progress leaves it into the snapshot only.                    *)
Instance(d) == INSTANCE PlayInstance WITH
  MayCrash <- GuestCrashes,
  phase    <- IF con[d] = "closing" THEN "live" ELSE con[d],
  snapshot <- snap[d],
  ahead    <- unsaved[d]

KeepsContract ==
  /\ \A d \in Subdirs : Instance(d)!Init
  /\ [][\A d \in Subdirs : Instance(d)!Next \/ UNCHANGED Instance(d)!vars]_hostVars
=============================================================================
