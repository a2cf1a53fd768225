--------------------------- MODULE PlaySessionsInv ---------------------------
(***************************************************************************)
(* The inductive invariants behind the safety of PlaySessions.             *)
(*                                                                         *)
(* CallInv holds whatever fails: it says where a thread may be with which  *)
(* local variables, and that a load keeps the manager's lock.  LiveInv     *)
(* needs a Docker daemon that answers truthfully and in time (Steady) and  *)
(* holds until the server restarts: it is the argument that no game of a   *)
(* user runs beside another one.  AloneInv and VisitInv are about the      *)
(* atexit handler.  The rest is about one call of a user at its positions: *)
(* which session it works on, what it has seen, and what it may remove.    *)
(***************************************************************************)
EXTENDS PlaySessions

StatusLabels == {"status", "status_rpc", "status_retry"}

(* Where a thread is in its call, looking through the shared procedures. *)
Pos(t) ==
  IF pc[t] \in QueryLabels \cup StopLabels \cup StatusLabels THEN ret[t] ELSE pc[t]

(* Outside these positions the call is bound to an email ... *)
Unbound == {"idle", "answer", "shut_next", "shut_checked"}

(* ... and outside these it has found a session for it. *)
Sessionless == Unbound \cup StartLabels
               \cup {"cur_get", "reset_get", "reset_unlink", "load_lock"}

Found(t) == byEmail[who[t]] # None

(* Labels at which sess[t] is a session. *)
HoldsSession ==
  QueryLabels \cup StopLabels \cup StatusLabels
  \cup (ReturnLabels \ {"reset_back", "shut_next", "answer"})

(* Positions of reset before the unlink, where held[t] is its `current`. *)
HoldsCurrent(t) ==
  \/ Pos(t) \in {"reset_cur", "reset_back", "reset_stopped"}
  \/ Pos(t) \in {"stop_get", "stop_checked", "stop_end"} /\ op[t] = "reset"

LocalsInv ==
  \A t \in Threads :
    /\ Pos(t) \notin Unbound => who[t] \in Emails
    /\ Pos(t) \in Unbound \ {"answer"} => who[t] = None
    /\ pc[t] = "idle" => tgt[t] = None /\ sess[t] = None /\ held[t] = None
    /\ pc[t] \in StatusLabels => ret[t] \in {"answer", "reset_back"}
    /\ Pos(t) \notin Sessionless => Found(t)
    /\ pc[t] \in HoldsSession => sess[t] \in Sessions
    /\ HoldsCurrent(t) => held[t] \in Sessions

TodoInv == \A e \in todo : byEmail[e] # None

LoadReturn == {"load_cur", "load_stopped"}

(* A load that has taken the manager's lock and not given it back. *)
InLoad(t) == Pos(t) \in StartLabels \cup LoadReturn

LockInv == \A t \in Threads : InLoad(t) => lock = t

CallInv == TypeOK /\ LocalsInv /\ TodoInv /\ LockInv

-----------------------------------------------------------------------------
(* Every session a variable refers to is one of the email's games. *)
OwnerInv ==
  /\ \A e \in Emails : byEmail[e] # None =>
       subOf[byEmail[e]] \in Subdirs /\ Owner[subOf[byEmail[e]]] = e
  /\ \A t \in Threads : who[t] # None =>
       /\ tgt[t] # None => Owner[tgt[t]] = who[t]
       /\ sess[t] # None =>
            subOf[sess[t]] \in Subdirs /\ Owner[subOf[sess[t]]] = who[t]
       /\ held[t] # None =>
            subOf[held[t]] \in Subdirs /\ Owner[subOf[held[t]]] = who[t]

(* The load of a game of email e has found the old one down. *)
Starting(e) == lock # None /\ pc[lock] \in StartLabels /\ who[lock] = e

(* Positions of load and reset, which were given a subdirectory. *)
HasTarget(t) ==
  \/ Pos(t) \in StartLabels \cup LoadReturn
                \cup {"load_lock", "reset_get", "reset_unlink"}
  \/ HoldsCurrent(t)

(* A load works on the registered session until it starts another one. *)
LoaderInv ==
  \A t \in Threads :
    /\ HasTarget(t) => tgt[t] \in Subdirs
    /\ InLoad(t) /\ pc[t] \notin StartLabels => sess[t] = byEmail[who[t]]

(* What a load has seen down stays down until it starts something itself. *)
SeenDown ==
  \A t \in Threads :
    /\ /\ InLoad(t)
       /\ pc[t] \in {"mark", "reap"} \/ (pc[t] \in LoadReturn /\ ~up[t])
       => ~Up(Sub(t))
    /\ pc[t] \in StartLabels =>
         \A d \in Subdirs : Owner[d] = who[t] /\ d # tgt[t] => ~Up(d)
    /\ pc[t] = "start_run" => ~Up(tgt[t])

Registered ==
  \A d \in Subdirs : Up(d) =>
    \/ byEmail[Owner[d]] # None /\ subOf[byEmail[Owner[d]]] = d
    \/ Starting(Owner[d]) /\ tgt[lock] = d

(* A registered session that is dead, or about to be marked dead, is down. *)
DeadInv ==
  \A e \in Emails : byEmail[e] # None =>
    \/ Starting(e)
    \/ ~Up(subOf[byEmail[e]])
    \/ /\ ~dead[byEmail[e]]
       /\ \A t \in Threads :
            pc[t] \in {"mark", "join_mark"} => sess[t] # byEmail[e]

LiveInv == OwnerInv /\ LoaderInv /\ SeenDown /\ Registered /\ DeadInv

(* docker inspect tells the truth, and no docker command hangs. *)
Truthful == ~InspectFlakes /\ ~DockerHangs

(* Moreover `docker run` ends in time.  Slow guests, crashing guests and   *)
(* failing RPCs are allowed.                                               *)
Steady == Truthful /\ ~RunTimeouts

(* Moreover the server lives as long as the behaviour. *)
Reliable == Steady /\ MaxRestarts = 0

-----------------------------------------------------------------------------
(* The atexit handler runs alone, on sessions of the registry, and nothing *)
(* runs after it, whatever fails.                                          *)
AloneInv ==
  /\ mcp = "closing" => \E t \in Threads : op[t] = "shutdown"
  /\ mcp = "down" => pc = Idle
  /\ \A t \in Threads :
       /\ pc[t] = "idle" => op[t] = None
       /\ pc[t] # "idle" /\ op[t] # "shutdown" => who[t] \in Emails
       /\ Pos(t) \in {"shut_next", "shut_checked"} => op[t] = "shutdown"
       /\ op[t] = "shutdown" =>
            /\ mcp = "closing"
            /\ \A s \in Threads \ {t} : pc[s] = "idle"
            /\ pc[t] \in {"shut_next", "shut_checked", "answer"}
                         \cup StopLabels \cup QueryLabels
            /\ pc[t] \in StopLabels => ret[t] = "shut_next"
            /\ pc[t] \in QueryLabels => ret[t] = "shut_checked"
            /\ who[t] = None
            /\ sess[t] # None => \E e \in Emails : byEmail[e] = sess[t]

(* Labels at which the handler is not yet done with sess[t]. *)
Visiting(t) ==
  \/ pc[t] \in {"query", "ask_stop", "join", "join_rm"}
  \/ pc[t] = "shut_checked" /\ up[t]

(* What runs is still to be visited by the handler, or being stopped by it. *)
VisitInv ==
  /\ \A t \in Threads : op[t] = "shutdown" =>
       /\ pc[t] = "answer" => todo = {}
       /\ \A e \in Emails \ todo :
            byEmail[e] # None /\ Up(subOf[byEmail[e]])
              => Visiting(t) /\ sess[t] = byEmail[e]
  /\ mcp = "down" => \A d \in Subdirs : ~Up(d)

(* Which calls pass through which positions. *)
OpInv ==
  \A t \in Threads :
    /\ pc[t] = "idle" => out[t] = "none"
    /\ op[t] \in {"load", "reset"} => tgt[t] \in Subdirs
    /\ Pos(t) \in {"cur_get", "cur_checked"} =>
         op[t] \in {"play", "save", "discard", "stop"} /\ out[t] = "none"
    /\ Pos(t) \in {"req_get", "req_checked", "rpc"} =>
         op[t] \in {"play", "save", "discard"}
    /\ Pos(t) \in {"stop_get", "stop_checked", "stop_end"} =>
         op[t] \in {"stop", "reset"}
    /\ Pos(t) \in {"reset_get", "reset_cur", "reset_back", "reset_stopped",
                   "reset_unlink"} => op[t] = "reset"
    /\ Pos(t) \in StartLabels \cup LoadReturn \cup {"load_lock"} =>
         op[t] \in {"load", "reset"}

-----------------------------------------------------------------------------
(* A user whose calls come one after the other (calls of different users   *)
(* still interleave in any way).                                           *)
OneCallPerUser ==
  \A s, t \in Threads :
    s # t /\ pc[s] # "idle" /\ pc[t] # "idle" => who[s] # who[t]

(* Then a call works on the session that is registered for its user. *)
OwnSession(t) ==
  who[t] # None =>
    /\ sess[t] # None => sess[t] = byEmail[who[t]]
    /\ held[t] # None => held[t] = byEmail[who[t]]
    /\ pc[t] = "load_lock" \/ InLoad(t) => held[t] = None

(* With a truthful Docker, what a call is about to reap is down ... *)
ReapsDown(t) == pc[t] \in {"mark", "reap"} => ~Up(Sub(t))

(* Moreover every stop is heard, and a guest that hears it saves in time. *)
Careful == Truthful /\ ~RpcFaults /\ ~SlowGuest

(* ... and with a careful one, what it is about to remove has nothing to   *)
(* lose.                                                                   *)
NothingAhead == \A d \in Subdirs : unsaved[d] => con[d] \in {"live", "closing"}

RemovesSaved(t) ==
  /\ pc[t] = "join" /\ unsaved[Sub(t)] => con[Sub(t)] = "closing"
  /\ pc[t] = "join_rm" => ~unsaved[Sub(t)]
  /\ pc[t] = "start_rm" => ~Up(tgt[t])
  /\ pc[t] \in {"start_ready", "start_abort"} => ~unsaved[tgt[t]]

(* Returns from is_running inside a call of a user. *)
Checked == {"cur_checked", "req_checked", "rpc", "stop_checked", "stop_end",
            "reset_cur", "reset_stopped", "load_cur", "load_stopped"}

(* In a steady deployment a call that is told "down" may rely on it, and a  *)
(* reset finds its game down and starts it cold.                           *)
SeesDown(t) ==
  /\ pc[t] \in {"mark", "reap"} /\ ret[t] \in Checked => ~up[t]
  /\ pc[t] \in Checked /\ ~up[t] => ~Up(Sub(t))

Resetting(t) ==
  op[t] = "reset" =>
    /\ Pos(t) \in {"reset_unlink", "load_lock", "load_cur", "load_stopped",
                   "start_inspect", "start_rm", "start_run"} => ~Up(tgt[t])
    /\ pc[t] = "load_cur" /\ up[t] => Sub(t) # tgt[t]
    /\ pc[t] \in {"start_ready", "register"} => cold[tgt[t]]
    /\ out[t] \in {"started", "reused", "already"} => cold[tgt[t]]

(* Moreover a guest boots only while a load waits for it ... *)
BootAwaited ==
  \A d \in Subdirs : con[d] = "booting" =>
    \E t \in Threads : pc[t] \in {"start_ready", "start_abort"} /\ tgt[t] = d

(* ... and what the registry or a call knows to be dead has been removed.  *)
DeadGone ==
  \A e \in Emails : byEmail[e] # None /\ dead[byEmail[e]] =>
    \/ con[subOf[byEmail[e]]] = "none"
    \/ \E t \in Threads : pc[t] = "reap" /\ sess[t] = byEmail[e]
    \/ \E t \in Threads : /\ pc[t] \in {"start_ready", "start_abort", "register"}
                          /\ tgt[t] = subOf[byEmail[e]]

SeesGone(t) ==
  \/ pc[t] \in Checked /\ ~up[t]
  \/ pc[t] \in {"join_end", "join_mark"}
  => con[Sub(t)] = "none"

(* Every RPC is heard, every guest saves in time, and no guest crashes. *)
Faultless == Steady /\ Careful /\ ~GuestCrashes

(* A stop that has seen its game running ends with the snapshot of it. *)
Stopping(t) ==
  op[t] = "stop" =>
    /\ pc[t] = "cur_checked" /\ up[t] =>
         con[Sub(t)] \in {"live", "closing"} \/ snap[Sub(t)]
    /\ Pos(t) \in {"stop_get", "stop_checked", "stop_end"} =>
         /\ tgt[t] \in Subdirs
         /\ con[tgt[t]] \in {"live", "closing"} \/ snap[tgt[t]]
    /\ Pos(t) \in {"stop_checked", "stop_end"} => Sub(t) = tgt[t]
    /\ pc[t] \in {"join", "join_rm"} => con[Sub(t)] # "live"
    /\ pc[t] = "join_rm" => ~Up(Sub(t))
    /\ out[t] \in {"stopped", "already_stopped"} =>
         tgt[t] \in Subdirs /\ con[tgt[t]] = "none" /\ snap[tgt[t]]

=============================================================================
