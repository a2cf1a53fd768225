-------------------------- MODULE PlaySessionsProofs --------------------------
(***************************************************************************)
(* Proofs about PlaySessions, for every set of users, games, threads and   *)
(* session objects and every bound.                                        *)
(*                                                                         *)
(* CallInv is inductive whatever fails.  LiveInv is inductive beside it    *)
(* when the deployment is Steady, until the first restart, and implies     *)
(* that no user ever has two running games, that every running game can be *)
(* stopped, and that a cached _known_dead is never stale.  AloneInv and    *)
(* VisitInv follow the atexit handler to its end.                          *)
(*                                                                         *)
(* The theorems about what a call does to its own game are for             *)
(* OneCallPerUser: calls of different users interleave in any way, as do   *)
(* guests, restarts and faults.  They rest on OwnSession, and say that     *)
(* nothing live is reaped, nothing unsaved is removed, that every game     *)
(* keeps the contract PlayInstance, that a reset is cold and that a stop   *)
(* leaves the snapshot, each under the faults it can bear.                 *)
(*                                                                         *)
(* Each lemma ...Step has one case per action of a call; each lemma        *)
(* ...Others covers the rest of Next.                                      *)
(***************************************************************************)
EXTENDS PlaySessionsInv, TLAPS

USE DEF At, Goto, Reply, IsRunning, Status, Refuse, ReadRegistry, Sub, Remove

(* The steps that are no step of a running call. *)
Others ==
  \/ \E t \in Threads : Begin(t) \/ BeginShutdown(t)
  \/ GuestSteps
  \/ Restart
  \/ UNCHANGED vars

(* Next is a step of a call, or one of the others. *)
LEMMA Split ==
  ASSUME [Next]_vars
  PROVE  Others \/ \E t \in Threads : Step(t)
BY DEF Next, Others

(* A command executed by a guest keeps the host variables in range. *)
LEMMA ExecuteType ==
  ASSUME HostTypeOK, NEW d, NEW command, Execute(d, command)
  PROVE  HostTypeOK'
<1>1. snap' \in [Subdirs -> BOOLEAN]
  <2>1. CASE command = "play"
    BY <2>1 DEF Execute, HostTypeOK
  <2>2. CASE command = "save"
    BY <2>2 DEF Execute, HostTypeOK
  <2>3. CASE command # "play" /\ command # "save"
    BY <2>3 DEF Execute, HostTypeOK
  <2> QED
    BY <2>1, <2>2, <2>3
<1>2. unsaved' \in [Subdirs -> BOOLEAN]
  BY DEF Execute, HostTypeOK
<1> QED
  BY <1>1, <1>2 DEF Execute, HostTypeOK

(* So does a step of a guest. *)
LEMMA GuestType ==
  ASSUME HostTypeOK, NEW d \in Subdirs, GuestStep(d)
  PROVE  HostTypeOK'
<1> USE DEF HostTypeOK, Phases
<1>1. CASE GuestReady(d)
  <2>1. (cold[d] \/ ~snap[d]) \in BOOLEAN
    OBVIOUS
  <2>2. cold' \in [Subdirs -> BOOLEAN]
    BY <1>1, <2>1 DEF GuestReady
  <2> QED
    BY <1>1, <2>2 DEF GuestReady
<1>2. CASE IdleTimeout(d)
  BY <1>2 DEF IdleTimeout
<1>3. CASE GuestClose(d)
  BY <1>3 DEF GuestClose
<1>4. CASE GuestCrash(d)
  BY <1>4 DEF GuestCrash
<1> QED
  BY <1>1, <1>2, <1>3, <1>4 DEF GuestStep

(* The procedure is_running goes to `mark` or back to where it was called. *)
LEMMA QueryType ==
  ASSUME TypeOK, NEW t \in Threads, Query(t)
  PROVE  pc' \in [Threads -> Labels] /\ up' \in [Threads -> BOOLEAN]
<1>1. pc' = [pc EXCEPT ![t] = ret[t]] \/ pc' = [pc EXCEPT ![t] = "mark"]
  BY DEF Query
<1>2. ret[t] \in Labels /\ "mark" \in Labels
  BY DEF TypeOK, Labels, QueryLabels
<1>3. up' = [up EXCEPT ![t] = TRUE] \/ up' = [up EXCEPT ![t] = FALSE]
  BY DEF Query
<1> QED
  BY <1>1, <1>2, <1>3 DEF TypeOK

(* Every step of a call keeps every variable in its range. *)
LEMMA TypeStep ==
  ASSUME CallInv, NEW t \in Threads, Step(t)
  PROVE  TypeOK'
<1> USE SessionsAssumption DEF CallInv, TypeOK, HostTypeOK, LocalsInv,
        Labels, StartLabels, StopLabels, QueryLabels, ReturnLabels, Replies,
        Phases, hostVars, registry, process, locals, callVars
<1>1. CASE Query(t)
  <2>1. pc' \in [Threads -> Labels] /\ up' \in [Threads -> BOOLEAN]
    BY <1>1, QueryType
  <2> QED
    BY <1>1, <2>1 DEF Query
<1>2. CASE MarkDead(t)
  BY <1>2 DEF MarkDead
<1>3. CASE Reap(t)
  BY <1>3 DEF Reap, Rm
<1>4. CASE StatusInspect(t)
  BY <1>4 DEF StatusInspect
<1>5. CASE StatusRpc(t)
  BY <1>5 DEF StatusRpc
<1>6. CASE StatusRetry(t)
  BY <1>6 DEF StatusRetry
<1>7. CASE AskStop(t)
  BY <1>7 DEF AskStop, Raise, DeliverStop
<1>8. CASE Join(t)
  BY <1>8 DEF Join, Raise
<1>9. CASE JoinRm(t)
  BY <1>9 DEF JoinRm, Rm
<1>10. CASE JoinEnd(t)
  BY <1>10 DEF JoinEnd, AfterJoin, Raise
<1>11. CASE JoinMark(t)
  BY <1>11 DEF JoinMark, AfterJoin
<1>12. CASE LoadLock(t)
  BY <1>12
     DEF LoadLock, Pos, HoldsSession, Unbound, Sessionless, Found,
         StatusLabels
<1>13. CASE LoadCurrent(t)
  BY <1>13 DEF LoadCurrent
<1>14. CASE LoadStopped(t)
  BY <1>14 DEF LoadStopped
<1>15. CASE StartInspect(t)
  BY <1>15 DEF StartInspect
<1>16. CASE StartRm(t)
  BY <1>16 DEF StartRm, Rm
<1>17. CASE StartRun(t)
  <2>1. CASE UNCHANGED hostVars
    BY <1>17, <2>1 DEF StartRun
  <2>2. CASE Launch(tgt[t], op[t] # "reset")
    <3>1. HostTypeOK'
      BY <2>2 DEF Launch
    <3> QED
      BY <1>17, <3>1 DEF StartRun
  <2> QED
    BY <1>17, <2>1, <2>2 DEF StartRun
<1>18. CASE StartReady(t)
  BY <1>18 DEF StartReady
<1>19. CASE StartAbort(t)
  BY <1>19 DEF StartAbort, Rm
<1>20. CASE Register(t)
  BY <1>20
     DEF Register, Unreachable, Pos, HoldsSession, Unbound, Sessionless,
         Found, StatusLabels
<1>21. CASE CurrentGet(t)
  BY <1>21
     DEF CurrentGet, Pos, HoldsSession, Unbound, Sessionless, Found,
         StatusLabels
<1>22. CASE CurrentChecked(t)
  BY <1>22
     DEF CurrentChecked, Pos, HoldsSession, Unbound, Sessionless, Found,
         StatusLabels
<1>23. CASE RequireGet(t)
  BY <1>23
     DEF RequireGet, Pos, HoldsSession, Unbound, Sessionless, Found,
         StatusLabels
<1>24. CASE RequireChecked(t)
  BY <1>24 DEF RequireChecked
<1>25. CASE Rpc(t)
  <2>1. HostTypeOK'
    BY <1>25, ExecuteType DEF Rpc
  <2>2. pc' \in [Threads -> Labels]
    BY <1>25 DEF Rpc
  <2>3. ret' \in [Threads -> ReturnLabels]
    BY <1>25 DEF Rpc
  <2>4. out' \in [Threads -> Replies]
    BY <1>25 DEF Rpc
  <2> QED
    BY <1>25, <2>1, <2>2, <2>3, <2>4 DEF Rpc
<1>26. CASE StopGet(t)
  BY <1>26
     DEF StopGet, StopReturn, StopSub, Pos, HoldsSession, Unbound,
         Sessionless, Found, StatusLabels
<1>27. CASE StopChecked(t)
  BY <1>27 DEF StopChecked, StopReturn
<1>28. CASE StopEnd(t)
  BY <1>28 DEF StopEnd, StopReturn
<1>29. CASE ResetGet(t)
  BY <1>29
     DEF ResetGet, Pos, HoldsSession, Unbound, Sessionless, Found,
         StatusLabels
<1>30. CASE ResetCurrent(t)
  BY <1>30 DEF ResetCurrent
<1>31. CASE ResetBack(t)
  BY <1>31 DEF ResetBack
<1>32. CASE ResetStopped(t)
  BY <1>32 DEF ResetStopped
<1>33. CASE ResetUnlink(t)
  BY <1>33 DEF ResetUnlink, UnlinkSnapshot
<1>34. CASE ShutdownNext(t)
  BY <1>34 DEF ShutdownNext
<1>35. CASE ShutdownChecked(t)
  BY <1>35 DEF ShutdownChecked
<1>36. CASE Answer(t)
  BY <1>36 DEF Answer
<1> QED
  BY <1>1, <1>2, <1>3, <1>4, <1>5, <1>6, <1>7, <1>8, <1>9, <1>10, <1>11,
     <1>12, <1>13, <1>14, <1>15, <1>16, <1>17, <1>18, <1>19, <1>20, <1>21,
     <1>22, <1>23, <1>24, <1>25, <1>26, <1>27, <1>28, <1>29, <1>30, <1>31,
     <1>32, <1>33, <1>34, <1>35, <1>36
     DEF Step, StopSteps, StartSteps

(* A call keeps the locals its next label reads. *)
LEMMA LocalsStep ==
  ASSUME CallInv, NEW t \in Threads, Step(t)
  PROVE  LocalsInv'
<1> USE SessionsAssumption DEF CallInv, TypeOK, LocalsInv, TodoInv, Labels,
        StatusLabels, StartLabels, StopLabels, QueryLabels, ReturnLabels,
        registry, process, locals, callVars, Pos, HoldsSession,
        HoldsCurrent, Unbound, Sessionless, Found
<1>1. CASE Query(t)
  BY <1>1 DEF Query
<1>2. CASE MarkDead(t)
  BY <1>2 DEF MarkDead
<1>3. CASE Reap(t)
  BY <1>3 DEF Reap, Rm
<1>4. CASE StatusInspect(t)
  BY <1>4 DEF StatusInspect
<1>5. CASE StatusRpc(t)
  BY <1>5 DEF StatusRpc
<1>6. CASE StatusRetry(t)
  BY <1>6 DEF StatusRetry
<1>7. CASE AskStop(t)
  BY <1>7 DEF AskStop, Raise, DeliverStop
<1>8. CASE Join(t)
  BY <1>8 DEF Join, Raise
<1>9. CASE JoinRm(t)
  BY <1>9 DEF JoinRm, Rm
<1>10. CASE JoinEnd(t)
  BY <1>10 DEF JoinEnd, AfterJoin, Raise
<1>11. CASE JoinMark(t)
  BY <1>11 DEF JoinMark, AfterJoin
<1>12. CASE LoadLock(t)
  BY <1>12 DEF LoadLock
<1>13. CASE LoadCurrent(t)
  BY <1>13 DEF LoadCurrent
<1>14. CASE LoadStopped(t)
  BY <1>14 DEF LoadStopped
<1>15. CASE StartInspect(t)
  BY <1>15 DEF StartInspect
<1>16. CASE StartRm(t)
  BY <1>16 DEF StartRm, Rm
<1>17. CASE StartRun(t)
  BY <1>17 DEF StartRun, Launch
<1>18. CASE StartReady(t)
  BY <1>18 DEF StartReady
<1>19. CASE StartAbort(t)
  BY <1>19 DEF StartAbort, Rm
<1>20. CASE Register(t)
  BY <1>20 DEF Register, Unreachable
<1>21. CASE CurrentGet(t)
  BY <1>21 DEF CurrentGet
<1>22. CASE CurrentChecked(t)
  BY <1>22 DEF CurrentChecked
<1>23. CASE RequireGet(t)
  BY <1>23 DEF RequireGet
<1>24. CASE RequireChecked(t)
  BY <1>24 DEF RequireChecked
<1>25. CASE Rpc(t)
  BY <1>25 DEF Rpc, Execute
<1>26. CASE StopGet(t)
  BY <1>26 DEF StopGet, StopReturn, StopSub
<1>27. CASE StopChecked(t)
  BY <1>27 DEF StopChecked, StopReturn
<1>28. CASE StopEnd(t)
  BY <1>28 DEF StopEnd, StopReturn
<1>29. CASE ResetGet(t)
  BY <1>29 DEF ResetGet
<1>30. CASE ResetCurrent(t)
  BY <1>30 DEF ResetCurrent
<1>31. CASE ResetBack(t)
  BY <1>31 DEF ResetBack
<1>32. CASE ResetStopped(t)
  BY <1>32 DEF ResetStopped
<1>33. CASE ResetUnlink(t)
  BY <1>33 DEF ResetUnlink, UnlinkSnapshot
<1>34. CASE ShutdownNext(t)
  BY <1>34 DEF ShutdownNext
<1>35. CASE ShutdownChecked(t)
  BY <1>35 DEF ShutdownChecked
<1>36. CASE Answer(t)
  BY <1>36 DEF Answer
<1> QED
  BY <1>1, <1>2, <1>3, <1>4, <1>5, <1>6, <1>7, <1>8, <1>9, <1>10, <1>11,
     <1>12, <1>13, <1>14, <1>15, <1>16, <1>17, <1>18, <1>19, <1>20, <1>21,
     <1>22, <1>23, <1>24, <1>25, <1>26, <1>27, <1>28, <1>29, <1>30, <1>31,
     <1>32, <1>33, <1>34, <1>35, <1>36
     DEF Step, StopSteps, StartSteps

(* Only the load that took the manager's lock gives it back. *)
LEMMA LockStep ==
  ASSUME CallInv, NEW t \in Threads, Step(t)
  PROVE  TodoInv' /\ LockInv'
<1> USE SessionsAssumption DEF CallInv, TypeOK, LocalsInv, TodoInv, LockInv,
        InLoad, LoadReturn, Pos, StatusLabels, StartLabels, StopLabels,
        QueryLabels, ReturnLabels, registry, process, locals, callVars
<1>1. CASE Query(t)
  BY <1>1 DEF Query
<1>2. CASE MarkDead(t)
  BY <1>2 DEF MarkDead
<1>3. CASE Reap(t)
  BY <1>3 DEF Reap, Rm
<1>4. CASE StatusInspect(t)
  BY <1>4 DEF StatusInspect
<1>5. CASE StatusRpc(t)
  BY <1>5 DEF StatusRpc
<1>6. CASE StatusRetry(t)
  BY <1>6 DEF StatusRetry
<1>7. CASE AskStop(t)
  BY <1>7 DEF AskStop, Raise, DeliverStop
<1>8. CASE Join(t)
  BY <1>8 DEF Join, Raise
<1>9. CASE JoinRm(t)
  BY <1>9 DEF JoinRm, Rm
<1>10. CASE JoinEnd(t)
  BY <1>10 DEF JoinEnd, AfterJoin, Raise
<1>11. CASE JoinMark(t)
  BY <1>11 DEF JoinMark, AfterJoin
<1>12. CASE LoadLock(t)
  BY <1>12 DEF LoadLock
<1>13. CASE LoadCurrent(t)
  BY <1>13 DEF LoadCurrent
<1>14. CASE LoadStopped(t)
  BY <1>14 DEF LoadStopped
<1>15. CASE StartInspect(t)
  BY <1>15 DEF StartInspect
<1>16. CASE StartRm(t)
  BY <1>16 DEF StartRm, Rm
<1>17. CASE StartRun(t)
  BY <1>17 DEF StartRun, Launch
<1>18. CASE StartReady(t)
  BY <1>18 DEF StartReady
<1>19. CASE StartAbort(t)
  BY <1>19 DEF StartAbort, Rm
<1>20. CASE Register(t)
  BY <1>20 DEF Register, Unreachable
<1>21. CASE CurrentGet(t)
  BY <1>21 DEF CurrentGet
<1>22. CASE CurrentChecked(t)
  BY <1>22 DEF CurrentChecked
<1>23. CASE RequireGet(t)
  BY <1>23 DEF RequireGet
<1>24. CASE RequireChecked(t)
  BY <1>24 DEF RequireChecked
<1>25. CASE Rpc(t)
  BY <1>25 DEF Rpc, Execute
<1>26. CASE StopGet(t)
  BY <1>26 DEF StopGet, StopReturn, StopSub
<1>27. CASE StopChecked(t)
  BY <1>27 DEF StopChecked, StopReturn
<1>28. CASE StopEnd(t)
  BY <1>28 DEF StopEnd, StopReturn
<1>29. CASE ResetGet(t)
  BY <1>29 DEF ResetGet
<1>30. CASE ResetCurrent(t)
  BY <1>30 DEF ResetCurrent
<1>31. CASE ResetBack(t)
  BY <1>31 DEF ResetBack
<1>32. CASE ResetStopped(t)
  BY <1>32 DEF ResetStopped
<1>33. CASE ResetUnlink(t)
  BY <1>33 DEF ResetUnlink, UnlinkSnapshot
<1>34. CASE ShutdownNext(t)
  BY <1>34 DEF ShutdownNext
<1>35. CASE ShutdownChecked(t)
  BY <1>35 DEF ShutdownChecked
<1>36. CASE Answer(t)
  BY <1>36 DEF Answer
<1> QED
  BY <1>1, <1>2, <1>3, <1>4, <1>5, <1>6, <1>7, <1>8, <1>9, <1>10, <1>11,
     <1>12, <1>13, <1>14, <1>15, <1>16, <1>17, <1>18, <1>19, <1>20, <1>21,
     <1>22, <1>23, <1>24, <1>25, <1>26, <1>27, <1>28, <1>29, <1>30, <1>31,
     <1>32, <1>33, <1>34, <1>35, <1>36
     DEF Step, StopSteps, StartSteps

(* Arrivals, guests, restarts and stuttering keep CallInv. *)
LEMMA CallOthers ==
  ASSUME CallInv, Others
  PROVE  CallInv'
<1> USE SessionsAssumption DEF CallInv, TypeOK, HostTypeOK, LocalsInv,
        TodoInv, LockInv, Labels, InLoad, LoadReturn, StatusLabels,
        StartLabels, StopLabels, QueryLabels, ReturnLabels, Replies, Ops,
        Phases, hostVars, registry, process, locals, callVars, Pos,
        HoldsSession, HoldsCurrent, Unbound, Sessionless, Found
<1>1. ASSUME NEW t \in Threads, Begin(t) PROVE CallInv'
  <2>1. TypeOK'
    BY <1>1 DEF Begin
  <2>2. LocalsInv'
    BY <1>1 DEF Begin
  <2>3. TodoInv' /\ LockInv'
    BY <1>1 DEF Begin
  <2> QED
    BY <2>1, <2>2, <2>3
<1>2. ASSUME NEW t \in Threads, BeginShutdown(t) PROVE CallInv'
  BY <1>2 DEF BeginShutdown, Idle
<1>3. ASSUME NEW d \in Subdirs, GuestStep(d),
             UNCHANGED <<registry, process, locals, lock, pc, ret, up, out>>
      PROVE  CallInv'
  <2>1. HostTypeOK'
    BY <1>3, GuestType
  <2> QED
    BY <1>3, <2>1
<1>4. CASE Restart
  BY <1>4 DEF Restart, Idle, Unset
<1>5. CASE UNCHANGED vars
  BY <1>5 DEF vars
<1> QED
  BY <1>1, <1>2, <1>3, <1>4, <1>5 DEF Others, GuestSteps

(* CallInv holds at first ... *)
LEMMA CallInit == Init => CallInv
BY SessionsAssumption
   DEF Init, HostInit, Idle, Unset, CallInv, TypeOK, HostTypeOK, Phases, Labels,
       StatusLabels, StartLabels, StopLabels, QueryLabels, ReturnLabels,
       Replies, Ops, LocalsInv, TodoInv, LockInv, InLoad, LoadReturn, Pos,
       HoldsSession, HoldsCurrent, Unbound, Sessionless

(* ... and every step keeps it. *)
LEMMA CallNext == CallInv /\ [Next]_vars => CallInv'
<1> SUFFICES ASSUME CallInv, [Next]_vars PROVE CallInv'
  OBVIOUS
<1>1. CASE Others
  BY <1>1, CallOthers
<1>2. ASSUME NEW t \in Threads, Step(t) PROVE CallInv'
  BY <1>2, TypeStep, LocalsStep, LockStep DEF CallInv
<1> QED
  BY <1>1, <1>2, Split

(* CallInv is an invariant of the specification: where a thread may be, with *)
(* which locals, and who holds the manager's lock, whatever fails.           *)
THEOREM CallCorrect == Spec => []CallInv
<1> QED
  BY CallInit, CallNext, PTL DEF Spec

(* Every variable stays in its range, whatever fails: in particular no       *)
(* attribute of a missing session is ever read (sess, held and the registry  *)
(* are only used where they name a session, by LocalsInv).                   *)
THEOREM TypeCorrect == Spec => []TypeOK
<1>1. CallInv => TypeOK
  BY DEF CallInv
<1> QED
  BY CallCorrect, <1>1, PTL

-----------------------------------------------------------------------------

(* Sessions of an email are games of that email. *)
LEMMA OwnerStep ==
  ASSUME CallInv, OwnerInv, LoaderInv, NEW t \in Threads, Step(t)
  PROVE  OwnerInv'
<1> USE SessionsAssumption DEF CallInv, TypeOK, LocalsInv, HasTarget,
        LockInv, InLoad, LoadReturn, Pos, HoldsSession, HoldsCurrent,
        Unbound, Sessionless, Found, StatusLabels, StartLabels, StopLabels,
        QueryLabels, ReturnLabels, registry, process, locals, callVars,
        OwnerInv, LoaderInv
<1>1. CASE Query(t)
  BY <1>1 DEF Query
<1>2. CASE MarkDead(t)
  BY <1>2 DEF MarkDead
<1>3. CASE Reap(t)
  BY <1>3 DEF Reap, Rm
<1>4. CASE StatusInspect(t)
  BY <1>4 DEF StatusInspect
<1>5. CASE StatusRpc(t)
  BY <1>5 DEF StatusRpc
<1>6. CASE StatusRetry(t)
  BY <1>6 DEF StatusRetry
<1>7. CASE AskStop(t)
  BY <1>7 DEF AskStop, Raise, DeliverStop
<1>8. CASE Join(t)
  BY <1>8 DEF Join, Raise
<1>9. CASE JoinRm(t)
  BY <1>9 DEF JoinRm, Rm
<1>10. CASE JoinEnd(t)
  BY <1>10 DEF JoinEnd, AfterJoin, Raise
<1>11. CASE JoinMark(t)
  BY <1>11 DEF JoinMark, AfterJoin
<1>12. CASE LoadLock(t)
  BY <1>12 DEF LoadLock
<1>13. CASE LoadCurrent(t)
  BY <1>13 DEF LoadCurrent
<1>14. CASE LoadStopped(t)
  BY <1>14 DEF LoadStopped
<1>15. CASE StartInspect(t)
  BY <1>15 DEF StartInspect
<1>16. CASE StartRm(t)
  BY <1>16 DEF StartRm, Rm
<1>17. CASE StartRun(t)
  BY <1>17 DEF StartRun, Launch
<1>18. CASE StartReady(t)
  BY <1>18 DEF StartReady
<1>19. CASE StartAbort(t)
  BY <1>19 DEF StartAbort, Rm
<1>20. CASE Register(t)
  BY <1>20 DEF Register, Unreachable
<1>21. CASE CurrentGet(t)
  BY <1>21 DEF CurrentGet
<1>22. CASE CurrentChecked(t)
  BY <1>22 DEF CurrentChecked
<1>23. CASE RequireGet(t)
  BY <1>23 DEF RequireGet
<1>24. CASE RequireChecked(t)
  BY <1>24 DEF RequireChecked
<1>25. CASE Rpc(t)
  BY <1>25 DEF Rpc, Execute
<1>26. CASE StopGet(t)
  BY <1>26 DEF StopGet, StopReturn, StopSub
<1>27. CASE StopChecked(t)
  BY <1>27 DEF StopChecked, StopReturn
<1>28. CASE StopEnd(t)
  BY <1>28 DEF StopEnd, StopReturn
<1>29. CASE ResetGet(t)
  BY <1>29 DEF ResetGet
<1>30. CASE ResetCurrent(t)
  BY <1>30 DEF ResetCurrent
<1>31. CASE ResetBack(t)
  BY <1>31 DEF ResetBack
<1>32. CASE ResetStopped(t)
  BY <1>32 DEF ResetStopped
<1>33. CASE ResetUnlink(t)
  BY <1>33 DEF ResetUnlink, UnlinkSnapshot
<1>34. CASE ShutdownNext(t)
  BY <1>34 DEF ShutdownNext
<1>35. CASE ShutdownChecked(t)
  BY <1>35 DEF ShutdownChecked
<1>36. CASE Answer(t)
  BY <1>36 DEF Answer
<1> QED
  BY <1>1, <1>2, <1>3, <1>4, <1>5, <1>6, <1>7, <1>8, <1>9, <1>10, <1>11,
     <1>12, <1>13, <1>14, <1>15, <1>16, <1>17, <1>18, <1>19, <1>20, <1>21,
     <1>22, <1>23, <1>24, <1>25, <1>26, <1>27, <1>28, <1>29, <1>30, <1>31,
     <1>32, <1>33, <1>34, <1>35, <1>36
     DEF Step, StopSteps, StartSteps

(* A load keeps to the session it found registered. *)
LEMMA LoaderStep ==
  ASSUME CallInv, OwnerInv, LoaderInv, NEW t \in Threads, Step(t)
  PROVE  LoaderInv'
<1> USE SessionsAssumption DEF CallInv, TypeOK, LocalsInv, HasTarget,
        LockInv, InLoad, LoadReturn, Pos, HoldsSession, HoldsCurrent,
        Unbound, Sessionless, Found, StatusLabels, StartLabels, StopLabels,
        QueryLabels, ReturnLabels, registry, process, locals, callVars,
        OwnerInv, LoaderInv
<1>1. CASE Query(t)
  BY <1>1 DEF Query
<1>2. CASE MarkDead(t)
  BY <1>2 DEF MarkDead
<1>3. CASE Reap(t)
  BY <1>3 DEF Reap, Rm
<1>4. CASE StatusInspect(t)
  BY <1>4 DEF StatusInspect
<1>5. CASE StatusRpc(t)
  BY <1>5 DEF StatusRpc
<1>6. CASE StatusRetry(t)
  BY <1>6 DEF StatusRetry
<1>7. CASE AskStop(t)
  BY <1>7 DEF AskStop, Raise, DeliverStop
<1>8. CASE Join(t)
  BY <1>8 DEF Join, Raise
<1>9. CASE JoinRm(t)
  BY <1>9 DEF JoinRm, Rm
<1>10. CASE JoinEnd(t)
  BY <1>10 DEF JoinEnd, AfterJoin, Raise
<1>11. CASE JoinMark(t)
  BY <1>11 DEF JoinMark, AfterJoin
<1>12. CASE LoadLock(t)
  BY <1>12 DEF LoadLock
<1>13. CASE LoadCurrent(t)
  BY <1>13 DEF LoadCurrent
<1>14. CASE LoadStopped(t)
  BY <1>14 DEF LoadStopped
<1>15. CASE StartInspect(t)
  BY <1>15 DEF StartInspect
<1>16. CASE StartRm(t)
  BY <1>16 DEF StartRm, Rm
<1>17. CASE StartRun(t)
  BY <1>17 DEF StartRun, Launch
<1>18. CASE StartReady(t)
  BY <1>18 DEF StartReady
<1>19. CASE StartAbort(t)
  BY <1>19 DEF StartAbort, Rm
<1>20. CASE Register(t)
  BY <1>20 DEF Register, Unreachable
<1>21. CASE CurrentGet(t)
  BY <1>21 DEF CurrentGet
<1>22. CASE CurrentChecked(t)
  BY <1>22 DEF CurrentChecked
<1>23. CASE RequireGet(t)
  BY <1>23 DEF RequireGet
<1>24. CASE RequireChecked(t)
  BY <1>24 DEF RequireChecked
<1>25. CASE Rpc(t)
  BY <1>25 DEF Rpc, Execute
<1>26. CASE StopGet(t)
  BY <1>26 DEF StopGet, StopReturn, StopSub
<1>27. CASE StopChecked(t)
  BY <1>27 DEF StopChecked, StopReturn
<1>28. CASE StopEnd(t)
  BY <1>28 DEF StopEnd, StopReturn
<1>29. CASE ResetGet(t)
  BY <1>29 DEF ResetGet
<1>30. CASE ResetCurrent(t)
  BY <1>30 DEF ResetCurrent
<1>31. CASE ResetBack(t)
  BY <1>31 DEF ResetBack
<1>32. CASE ResetStopped(t)
  BY <1>32 DEF ResetStopped
<1>33. CASE ResetUnlink(t)
  BY <1>33 DEF ResetUnlink, UnlinkSnapshot
<1>34. CASE ShutdownNext(t)
  BY <1>34 DEF ShutdownNext
<1>35. CASE ShutdownChecked(t)
  BY <1>35 DEF ShutdownChecked
<1>36. CASE Answer(t)
  BY <1>36 DEF Answer
<1> QED
  BY <1>1, <1>2, <1>3, <1>4, <1>5, <1>6, <1>7, <1>8, <1>9, <1>10, <1>11,
     <1>12, <1>13, <1>14, <1>15, <1>16, <1>17, <1>18, <1>19, <1>20, <1>21,
     <1>22, <1>23, <1>24, <1>25, <1>26, <1>27, <1>28, <1>29, <1>30, <1>31,
     <1>32, <1>33, <1>34, <1>35, <1>36
     DEF Step, StopSteps, StartSteps

(* Nothing starts a game behind the back of a load. *)
LEMMA SeenStep ==
  ASSUME CallInv, LiveInv, Steady, NEW t \in Threads, Step(t)
  PROVE  SeenDown'
<1> USE SessionsAssumption DEF CallInv, TypeOK, LocalsInv, HasTarget,
        LockInv, InLoad, LoadReturn, Pos, HoldsSession, HoldsCurrent,
        Unbound, Sessionless, Found, StatusLabels, StartLabels, StopLabels,
        QueryLabels, ReturnLabels, registry, process, locals, callVars,
        HostTypeOK, Phases, hostVars, LiveInv, OwnerInv, LoaderInv,
        SeenDown, Registered, DeadInv, Starting, Steady, Truthful, Up, SeemsDown
<1>1. CASE Query(t)
  BY <1>1 DEF Query
<1>2. CASE MarkDead(t)
  BY <1>2 DEF MarkDead
<1>3. CASE Reap(t)
  BY <1>3 DEF Reap, Rm
<1>4. CASE StatusInspect(t)
  BY <1>4 DEF StatusInspect
<1>5. CASE StatusRpc(t)
  BY <1>5 DEF StatusRpc
<1>6. CASE StatusRetry(t)
  BY <1>6 DEF StatusRetry
<1>7. CASE AskStop(t)
  BY <1>7 DEF AskStop, Raise, DeliverStop
<1>8. CASE Join(t)
  BY <1>8 DEF Join, Raise
<1>9. CASE JoinRm(t)
  <2>1. con' = [con EXCEPT ![Sub(t)] = "none"]
    BY <1>9 DEF JoinRm, Rm
  <2> QED
    BY <1>9, <2>1 DEF JoinRm
<1>10. CASE JoinEnd(t)
  BY <1>10 DEF JoinEnd, AfterJoin, Raise
<1>11. CASE JoinMark(t)
  BY <1>11 DEF JoinMark, AfterJoin
<1>12. CASE LoadLock(t)
  BY <1>12 DEF LoadLock
<1>13. CASE LoadCurrent(t)
  BY <1>13 DEF LoadCurrent
<1>14. CASE LoadStopped(t)
  BY <1>14 DEF LoadStopped
<1>15. CASE StartInspect(t)
  BY <1>15 DEF StartInspect
<1>16. CASE StartRm(t)
  BY <1>16 DEF StartRm, Rm
<1>17. CASE StartRun(t)
  BY <1>17 DEF StartRun, Launch
<1>18. CASE StartReady(t)
  BY <1>18 DEF StartReady
<1>19. CASE StartAbort(t)
  BY <1>19 DEF StartAbort, Rm
<1>20. CASE Register(t)
  BY <1>20 DEF Register, Unreachable
<1>21. CASE CurrentGet(t)
  BY <1>21 DEF CurrentGet
<1>22. CASE CurrentChecked(t)
  BY <1>22 DEF CurrentChecked
<1>23. CASE RequireGet(t)
  BY <1>23 DEF RequireGet
<1>24. CASE RequireChecked(t)
  BY <1>24 DEF RequireChecked
<1>25. CASE Rpc(t)
  BY <1>25 DEF Rpc, Execute
<1>26. CASE StopGet(t)
  BY <1>26 DEF StopGet, StopReturn, StopSub
<1>27. CASE StopChecked(t)
  BY <1>27 DEF StopChecked, StopReturn
<1>28. CASE StopEnd(t)
  BY <1>28 DEF StopEnd, StopReturn
<1>29. CASE ResetGet(t)
  BY <1>29 DEF ResetGet
<1>30. CASE ResetCurrent(t)
  BY <1>30 DEF ResetCurrent
<1>31. CASE ResetBack(t)
  BY <1>31 DEF ResetBack
<1>32. CASE ResetStopped(t)
  BY <1>32 DEF ResetStopped
<1>33. CASE ResetUnlink(t)
  BY <1>33 DEF ResetUnlink, UnlinkSnapshot
<1>34. CASE ShutdownNext(t)
  BY <1>34 DEF ShutdownNext
<1>35. CASE ShutdownChecked(t)
  BY <1>35 DEF ShutdownChecked
<1>36. CASE Answer(t)
  BY <1>36 DEF Answer
<1> QED
  BY <1>1, <1>2, <1>3, <1>4, <1>5, <1>6, <1>7, <1>8, <1>9, <1>10, <1>11,
     <1>12, <1>13, <1>14, <1>15, <1>16, <1>17, <1>18, <1>19, <1>20, <1>21,
     <1>22, <1>23, <1>24, <1>25, <1>26, <1>27, <1>28, <1>29, <1>30, <1>31,
     <1>32, <1>33, <1>34, <1>35, <1>36
     DEF Step, StopSteps, StartSteps

(* What runs is registered, or is being started. *)
LEMMA RegisteredStep ==
  ASSUME CallInv, LiveInv, Steady, NEW t \in Threads, Step(t)
  PROVE  Registered'
<1> USE SessionsAssumption DEF CallInv, TypeOK, LocalsInv, HasTarget,
        LockInv, InLoad, LoadReturn, Pos, HoldsSession, HoldsCurrent,
        Unbound, Sessionless, Found, StatusLabels, StartLabels, StopLabels,
        QueryLabels, ReturnLabels, registry, process, locals, callVars,
        HostTypeOK, Phases, hostVars, LiveInv, OwnerInv, LoaderInv,
        SeenDown, Registered, DeadInv, Starting, Steady, Truthful, Up, SeemsDown
<1>1. CASE Query(t)
  BY <1>1 DEF Query
<1>2. CASE MarkDead(t)
  BY <1>2 DEF MarkDead
<1>3. CASE Reap(t)
  BY <1>3 DEF Reap, Rm
<1>4. CASE StatusInspect(t)
  BY <1>4 DEF StatusInspect
<1>5. CASE StatusRpc(t)
  BY <1>5 DEF StatusRpc
<1>6. CASE StatusRetry(t)
  BY <1>6 DEF StatusRetry
<1>7. CASE AskStop(t)
  BY <1>7 DEF AskStop, Raise, DeliverStop
<1>8. CASE Join(t)
  BY <1>8 DEF Join, Raise
<1>9. CASE JoinRm(t)
  BY <1>9 DEF JoinRm, Rm
<1>10. CASE JoinEnd(t)
  BY <1>10 DEF JoinEnd, AfterJoin, Raise
<1>11. CASE JoinMark(t)
  BY <1>11 DEF JoinMark, AfterJoin
<1>12. CASE LoadLock(t)
  BY <1>12 DEF LoadLock
<1>13. CASE LoadCurrent(t)
  BY <1>13 DEF LoadCurrent
<1>14. CASE LoadStopped(t)
  BY <1>14 DEF LoadStopped
<1>15. CASE StartInspect(t)
  BY <1>15 DEF StartInspect
<1>16. CASE StartRm(t)
  BY <1>16 DEF StartRm, Rm
<1>17. CASE StartRun(t)
  BY <1>17 DEF StartRun, Launch
<1>18. CASE StartReady(t)
  BY <1>18 DEF StartReady
<1>19. CASE StartAbort(t)
  BY <1>19 DEF StartAbort, Rm
<1>20. CASE Register(t)
  BY <1>20 DEF Register, Unreachable
<1>21. CASE CurrentGet(t)
  BY <1>21 DEF CurrentGet
<1>22. CASE CurrentChecked(t)
  BY <1>22 DEF CurrentChecked
<1>23. CASE RequireGet(t)
  BY <1>23 DEF RequireGet
<1>24. CASE RequireChecked(t)
  BY <1>24 DEF RequireChecked
<1>25. CASE Rpc(t)
  BY <1>25 DEF Rpc, Execute
<1>26. CASE StopGet(t)
  BY <1>26 DEF StopGet, StopReturn, StopSub
<1>27. CASE StopChecked(t)
  BY <1>27 DEF StopChecked, StopReturn
<1>28. CASE StopEnd(t)
  BY <1>28 DEF StopEnd, StopReturn
<1>29. CASE ResetGet(t)
  BY <1>29 DEF ResetGet
<1>30. CASE ResetCurrent(t)
  BY <1>30 DEF ResetCurrent
<1>31. CASE ResetBack(t)
  BY <1>31 DEF ResetBack
<1>32. CASE ResetStopped(t)
  BY <1>32 DEF ResetStopped
<1>33. CASE ResetUnlink(t)
  BY <1>33 DEF ResetUnlink, UnlinkSnapshot
<1>34. CASE ShutdownNext(t)
  BY <1>34 DEF ShutdownNext
<1>35. CASE ShutdownChecked(t)
  BY <1>35 DEF ShutdownChecked
<1>36. CASE Answer(t)
  BY <1>36 DEF Answer
<1> QED
  BY <1>1, <1>2, <1>3, <1>4, <1>5, <1>6, <1>7, <1>8, <1>9, <1>10, <1>11,
     <1>12, <1>13, <1>14, <1>15, <1>16, <1>17, <1>18, <1>19, <1>20, <1>21,
     <1>22, <1>23, <1>24, <1>25, <1>26, <1>27, <1>28, <1>29, <1>30, <1>31,
     <1>32, <1>33, <1>34, <1>35, <1>36
     DEF Step, StopSteps, StartSteps

(* Only sessions whose container is down are marked dead. *)
LEMMA DeadStep ==
  ASSUME CallInv, LiveInv, Steady, NEW t \in Threads, Step(t)
  PROVE  DeadInv'
<1> USE SessionsAssumption DEF CallInv, TypeOK, LocalsInv, HasTarget,
        LockInv, InLoad, LoadReturn, Pos, HoldsSession, HoldsCurrent,
        Unbound, Sessionless, Found, StatusLabels, StartLabels, StopLabels,
        QueryLabels, ReturnLabels, registry, process, locals, callVars,
        HostTypeOK, Phases, hostVars, LiveInv, OwnerInv, LoaderInv,
        SeenDown, Registered, DeadInv, Starting, Steady, Truthful, Up, SeemsDown
<1>1. CASE Query(t)
  BY <1>1 DEF Query
<1>2. CASE MarkDead(t)
  BY <1>2 DEF MarkDead
<1>3. CASE Reap(t)
  BY <1>3 DEF Reap, Rm
<1>4. CASE StatusInspect(t)
  BY <1>4 DEF StatusInspect
<1>5. CASE StatusRpc(t)
  BY <1>5 DEF StatusRpc
<1>6. CASE StatusRetry(t)
  BY <1>6 DEF StatusRetry
<1>7. CASE AskStop(t)
  BY <1>7 DEF AskStop, Raise, DeliverStop
<1>8. CASE Join(t)
  BY <1>8 DEF Join, Raise
<1>9. CASE JoinRm(t)
  BY <1>9 DEF JoinRm, Rm
<1>10. CASE JoinEnd(t)
  BY <1>10 DEF JoinEnd, AfterJoin, Raise
<1>11. CASE JoinMark(t)
  BY <1>11 DEF JoinMark, AfterJoin
<1>12. CASE LoadLock(t)
  BY <1>12 DEF LoadLock
<1>13. CASE LoadCurrent(t)
  BY <1>13 DEF LoadCurrent
<1>14. CASE LoadStopped(t)
  BY <1>14 DEF LoadStopped
<1>15. CASE StartInspect(t)
  BY <1>15 DEF StartInspect
<1>16. CASE StartRm(t)
  BY <1>16 DEF StartRm, Rm
<1>17. CASE StartRun(t)
  BY <1>17 DEF StartRun, Launch
<1>18. CASE StartReady(t)
  BY <1>18 DEF StartReady
<1>19. CASE StartAbort(t)
  BY <1>19 DEF StartAbort, Rm
<1>20. CASE Register(t)
  BY <1>20 DEF Register, Unreachable
<1>21. CASE CurrentGet(t)
  BY <1>21 DEF CurrentGet
<1>22. CASE CurrentChecked(t)
  BY <1>22 DEF CurrentChecked
<1>23. CASE RequireGet(t)
  BY <1>23 DEF RequireGet
<1>24. CASE RequireChecked(t)
  BY <1>24 DEF RequireChecked
<1>25. CASE Rpc(t)
  BY <1>25 DEF Rpc, Execute
<1>26. CASE StopGet(t)
  BY <1>26 DEF StopGet, StopReturn, StopSub
<1>27. CASE StopChecked(t)
  BY <1>27 DEF StopChecked, StopReturn
<1>28. CASE StopEnd(t)
  BY <1>28 DEF StopEnd, StopReturn
<1>29. CASE ResetGet(t)
  BY <1>29 DEF ResetGet
<1>30. CASE ResetCurrent(t)
  BY <1>30 DEF ResetCurrent
<1>31. CASE ResetBack(t)
  BY <1>31 DEF ResetBack
<1>32. CASE ResetStopped(t)
  BY <1>32 DEF ResetStopped
<1>33. CASE ResetUnlink(t)
  BY <1>33 DEF ResetUnlink, UnlinkSnapshot
<1>34. CASE ShutdownNext(t)
  BY <1>34 DEF ShutdownNext
<1>35. CASE ShutdownChecked(t)
  BY <1>35 DEF ShutdownChecked
<1>36. CASE Answer(t)
  BY <1>36 DEF Answer
<1> QED
  BY <1>1, <1>2, <1>3, <1>4, <1>5, <1>6, <1>7, <1>8, <1>9, <1>10, <1>11,
     <1>12, <1>13, <1>14, <1>15, <1>16, <1>17, <1>18, <1>19, <1>20, <1>21,
     <1>22, <1>23, <1>24, <1>25, <1>26, <1>27, <1>28, <1>29, <1>30, <1>31,
     <1>32, <1>33, <1>34, <1>35, <1>36
     DEF Step, StopSteps, StartSteps

(* Arrivals, guests and stuttering keep LiveInv, restarts do not. *)
LEMMA LiveOthers ==
  ASSUME CallInv, LiveInv, Steady, Others, restarts' = 0
  PROVE  LiveInv'
<1> USE SessionsAssumption DEF CallInv, TypeOK, LocalsInv, HasTarget,
        LockInv, InLoad, LoadReturn, Pos, HoldsSession, HoldsCurrent,
        Unbound, Sessionless, Found, StatusLabels, StartLabels, StopLabels,
        QueryLabels, ReturnLabels, registry, process, locals, callVars,
        HostTypeOK, Phases, hostVars, LiveInv, OwnerInv, LoaderInv,
        SeenDown, Registered, DeadInv, Starting, Steady, Truthful, Up, SeemsDown
<1>1. ASSUME NEW t \in Threads, Begin(t) PROVE LiveInv'
  <2>1. OwnerInv'
    BY <1>1 DEF Begin
  <2>2. LoaderInv'
    BY <1>1 DEF Begin
  <2>3. SeenDown'
    BY <1>1 DEF Begin
  <2>4. Registered'
    BY <1>1 DEF Begin
  <2>5. DeadInv'
    BY <1>1 DEF Begin
  <2> QED
    BY <2>1, <2>2, <2>3, <2>4, <2>5
<1>2. ASSUME NEW t \in Threads, BeginShutdown(t) PROVE LiveInv'
  BY <1>2 DEF BeginShutdown, Idle
<1>3. ASSUME NEW d \in Subdirs, GuestStep(d),
             UNCHANGED <<registry, process, locals, lock, pc, ret, up, out>>
      PROVE  LiveInv'
  BY <1>3 DEF GuestStep, GuestReady, IdleTimeout, GuestClose, GuestCrash
<1>4. CASE Restart
  BY <1>4 DEF Restart, Idle, Unset
<1>5. CASE UNCHANGED vars
  BY <1>5 DEF vars
<1> QED
  BY <1>1, <1>2, <1>3, <1>4, <1>5 DEF Others, GuestSteps

(* What a step of a call leaves alone: the locals of the other threads, and   *)
(* the life of the server.                                                   *)
LEMMA StepFrame ==
  ASSUME CallInv, NEW t \in Threads, Step(t)
  PROVE  /\ pc[t] # "idle"
         /\ restarts' = restarts
         /\ op[t] # "shutdown" => mcp' = mcp
         /\ op'[t] \in {op[t], None}
         /\ \A s \in Threads \ {t} :
              /\ UNCHANGED <<pc[s], ret[s], up[s], out[s]>>
              /\ UNCHANGED <<op[s], who[s], tgt[s], sess[s], held[s]>>
<1> USE DEF process, locals, callVars, CallInv, TypeOK
<1>1. pc[t] # "idle" /\ restarts' = restarts /\ (op[t] # "shutdown" => mcp' = mcp)
  BY DEF Step, StopSteps, StartSteps, Query, MarkDead, Reap, StatusInspect,
         StatusRpc, StatusRetry, AskStop, Raise, Join, JoinRm, JoinEnd,
         JoinMark, AfterJoin, LoadLock, LoadCurrent, LoadStopped,
         StartInspect, StartRm, StartRun, StartReady, StartAbort, Register,
         CurrentGet, CurrentChecked, RequireGet, RequireChecked, Rpc, StopGet,
         StopChecked, StopEnd, ResetGet, ResetCurrent, ResetBack,
         ResetStopped, ResetUnlink, ShutdownNext, ShutdownChecked, Answer
<1>2. op'[t] \in {op[t], None}
  BY DEF Step, StopSteps, StartSteps, Query, MarkDead, Reap, StatusInspect,
         StatusRpc, StatusRetry, AskStop, Raise, Join, JoinRm, JoinEnd,
         JoinMark, AfterJoin, LoadLock, LoadCurrent, LoadStopped,
         StartInspect, StartRm, StartRun, StartReady, StartAbort, Register,
         CurrentGet, CurrentChecked, RequireGet, RequireChecked, Rpc, StopGet,
         StopChecked, StopEnd, ResetGet, ResetCurrent, ResetBack,
         ResetStopped, ResetUnlink, ShutdownNext, ShutdownChecked, Answer
<1>3. ASSUME NEW s \in Threads, s # t
      PROVE  UNCHANGED <<pc[s], ret[s], up[s], out[s]>>
  BY <1>3 DEF Step, StopSteps, StartSteps, Query, MarkDead, Reap, StatusInspect,
         StatusRpc, StatusRetry, AskStop, Raise, Join, JoinRm, JoinEnd,
         JoinMark, AfterJoin, LoadLock, LoadCurrent, LoadStopped,
         StartInspect, StartRm, StartRun, StartReady, StartAbort, Register,
         CurrentGet, CurrentChecked, RequireGet, RequireChecked, Rpc, StopGet,
         StopChecked, StopEnd, ResetGet, ResetCurrent, ResetBack,
         ResetStopped, ResetUnlink, ShutdownNext, ShutdownChecked, Answer
<1>4. ASSUME NEW s \in Threads, s # t
      PROVE  UNCHANGED <<op[s], who[s], tgt[s], sess[s], held[s]>>
  BY <1>4 DEF Step, StopSteps, StartSteps, Query, MarkDead, Reap, StatusInspect,
         StatusRpc, StatusRetry, AskStop, Raise, Join, JoinRm, JoinEnd,
         JoinMark, AfterJoin, LoadLock, LoadCurrent, LoadStopped,
         StartInspect, StartRm, StartRun, StartReady, StartAbort, Register,
         CurrentGet, CurrentChecked, RequireGet, RequireChecked, Rpc, StopGet,
         StopChecked, StopEnd, ResetGet, ResetCurrent, ResetBack,
         ResetStopped, ResetUnlink, ShutdownNext, ShutdownChecked, Answer
<1> QED
  BY <1>1, <1>2, <1>3, <1>4

(* A server that has not restarted after a step had not before. *)
LEMMA FirstLife ==
  ASSUME CallInv, [Next]_vars, restarts' = 0
  PROVE  restarts = 0
<1> USE SessionsAssumption DEF CallInv, TypeOK, process
<1>1. CASE Restart
  BY <1>1 DEF Restart
<1>2. CASE ~Restart
  <2>1. CASE UNCHANGED vars
    BY <2>1 DEF vars
  <2>2. ASSUME NEW t \in Threads, Begin(t) PROVE restarts' = restarts
    BY <2>2 DEF Begin
  <2>3. ASSUME NEW t \in Threads, BeginShutdown(t) PROVE restarts' = restarts
    BY <2>3 DEF BeginShutdown
  <2>4. CASE GuestSteps
    BY <2>4 DEF GuestSteps
  <2>5. ASSUME NEW t \in Threads, Step(t) PROVE restarts' = restarts
    BY <2>5, StepFrame
  <2> QED
    BY <1>2, <2>1, <2>2, <2>3, <2>4, <2>5 DEF Next
<1> QED
  BY <1>1, <1>2

LEMMA LiveInit == Init => LiveInv
BY SessionsAssumption
   DEF Init, HostInit, Idle, Unset, LiveInv, OwnerInv, LoaderInv, SeenDown,
       Registered, DeadInv, Starting, HasTarget, HoldsCurrent, InLoad,
       LoadReturn, Pos, StatusLabels, StartLabels, StopLabels, QueryLabels, Up

LEMMA LiveNext ==
  Steady /\ CallInv /\ (restarts = 0 => LiveInv) /\ [Next]_vars
    => (restarts = 0 => LiveInv)'
<1> SUFFICES ASSUME Steady, CallInv, restarts = 0 => LiveInv, [Next]_vars,
                    restarts' = 0
             PROVE  LiveInv'
  OBVIOUS
<1>0. LiveInv
  BY FirstLife
<1>1. CASE Others
  BY <1>0, <1>1, LiveOthers
<1>2. ASSUME NEW t \in Threads, Step(t) PROVE LiveInv'
  BY <1>0, <1>2, OwnerStep, LoaderStep, SeenStep, RegisteredStep, DeadStep
     DEF LiveInv
<1> QED
  BY <1>1, <1>2, Split

(* In a steady deployment, until the server restarts, what runs is what the  *)
(* registry says, or what a load in progress is about to register.           *)
THEOREM LiveCorrect == ASSUME Steady PROVE Spec => [](restarts = 0 => LiveInv)
<1>1. Init => LiveInv
  BY LiveInit
<1>2. CallInv /\ (restarts = 0 => LiveInv) /\ [Next]_vars
        => (restarts = 0 => LiveInv)'
  BY Steady, LiveNext
<1> QED
  BY CallCorrect, <1>1, <1>2, PTL DEF Spec

(* With no restart allowed there is none. *)
LEMMA Lasting == ASSUME Reliable PROVE CallInv => restarts = 0
BY SessionsAssumption DEF CallInv, TypeOK, Reliable

LEMMA LiveAlways == ASSUME Reliable PROVE Spec => []LiveInv
<1>1. Steady
  BY DEF Reliable
<1>2. Spec => [](restarts = 0 => LiveInv)
  BY <1>1, LiveCorrect
<1>3. CallInv => restarts = 0
  BY Lasting
<1> QED
  BY CallCorrect, <1>2, <1>3, PTL

(* "One live play instance per email", for every number of users, games and  *)
(* concurrent calls, with slow and crashing guests and failing RPCs.         *)
THEOREM OneLive == ASSUME Reliable PROVE Spec => []OneLivePerEmail
<1>1. CallInv /\ LiveInv => OneLivePerEmail
  BY SessionsAssumption
     DEF CallInv, TypeOK, LiveInv, OneLivePerEmail, Registered, SeenDown,
         Starting
<1> QED
  BY CallCorrect, LiveAlways, <1>1, PTL

(* Every running game is registered with its owner, so that stop and         *)
(* shutdown reach it, unless the load that starts it is still running.       *)
THEOREM Reachable == ASSUME Reliable PROVE Spec => []NoOrphan
<1>1. CallInv /\ LiveInv => NoOrphan
  BY SessionsAssumption
     DEF LiveInv, NoOrphan, NoLoad, Registered, Starting
<1> QED
  BY CallCorrect, LiveAlways, <1>1, PTL

(* The _known_dead shortcut of is_running never hides a running game.        *)
THEOREM DeadFlagTruthful == ASSUME Reliable PROVE Spec => []DeadIsDown
<1>1. LiveInv => DeadIsDown
  BY DEF LiveInv, DeadIsDown, DeadInv, NoLoad, Starting
<1> QED
  BY LiveAlways, <1>1, PTL

-----------------------------------------------------------------------------

(* A step of a call keeps the atexit handler alone. *)
LEMMA AloneStep ==
  ASSUME CallInv, AloneInv, NEW t \in Threads, Step(t)
  PROVE  AloneInv'
<1> USE SessionsAssumption DEF CallInv, TypeOK, LocalsInv, Pos, HoldsSession,
        HoldsCurrent, Unbound, Sessionless, Found, StatusLabels, StartLabels,
        StopLabels, QueryLabels, ReturnLabels, Ops, registry, process, locals,
        callVars, AloneInv, Idle
<1>1. CASE Query(t)
  BY <1>1 DEF Query
<1>2. CASE MarkDead(t)
  BY <1>2 DEF MarkDead
<1>3. CASE Reap(t)
  BY <1>3 DEF Reap, Rm
<1>4. CASE StatusInspect(t)
  BY <1>4 DEF StatusInspect
<1>5. CASE StatusRpc(t)
  BY <1>5 DEF StatusRpc
<1>6. CASE StatusRetry(t)
  BY <1>6 DEF StatusRetry
<1>7. CASE AskStop(t)
  BY <1>7 DEF AskStop, Raise, DeliverStop
<1>8. CASE Join(t)
  BY <1>8 DEF Join, Raise
<1>9. CASE JoinRm(t)
  BY <1>9 DEF JoinRm, Rm
<1>10. CASE JoinEnd(t)
  BY <1>10 DEF JoinEnd, AfterJoin, Raise
<1>11. CASE JoinMark(t)
  BY <1>11 DEF JoinMark, AfterJoin
<1>12. CASE LoadLock(t)
  BY <1>12 DEF LoadLock
<1>13. CASE LoadCurrent(t)
  BY <1>13 DEF LoadCurrent
<1>14. CASE LoadStopped(t)
  BY <1>14 DEF LoadStopped
<1>15. CASE StartInspect(t)
  BY <1>15 DEF StartInspect
<1>16. CASE StartRm(t)
  BY <1>16 DEF StartRm, Rm
<1>17. CASE StartRun(t)
  BY <1>17 DEF StartRun, Launch
<1>18. CASE StartReady(t)
  BY <1>18 DEF StartReady
<1>19. CASE StartAbort(t)
  BY <1>19 DEF StartAbort, Rm
<1>20. CASE Register(t)
  BY <1>20 DEF Register, Unreachable
<1>21. CASE CurrentGet(t)
  BY <1>21 DEF CurrentGet
<1>22. CASE CurrentChecked(t)
  BY <1>22 DEF CurrentChecked
<1>23. CASE RequireGet(t)
  BY <1>23 DEF RequireGet
<1>24. CASE RequireChecked(t)
  BY <1>24 DEF RequireChecked
<1>25. CASE Rpc(t)
  BY <1>25 DEF Rpc, Execute
<1>26. CASE StopGet(t)
  BY <1>26 DEF StopGet, StopReturn, StopSub
<1>27. CASE StopChecked(t)
  BY <1>27 DEF StopChecked, StopReturn
<1>28. CASE StopEnd(t)
  BY <1>28 DEF StopEnd, StopReturn
<1>29. CASE ResetGet(t)
  BY <1>29 DEF ResetGet
<1>30. CASE ResetCurrent(t)
  BY <1>30 DEF ResetCurrent
<1>31. CASE ResetBack(t)
  BY <1>31 DEF ResetBack
<1>32. CASE ResetStopped(t)
  BY <1>32 DEF ResetStopped
<1>33. CASE ResetUnlink(t)
  BY <1>33 DEF ResetUnlink, UnlinkSnapshot
<1>34. CASE ShutdownNext(t)
  BY <1>34 DEF ShutdownNext
<1>35. CASE ShutdownChecked(t)
  BY <1>35 DEF ShutdownChecked
<1>36. CASE Answer(t)
  <2>1. CASE op[t] = "shutdown"
    <3>1. pc' = Idle
      BY <1>36, <2>1 DEF Answer
    <3>2. mcp' = "down"
      BY <1>36, <2>1 DEF Answer
    <3>3. \A s \in Threads : op'[s] = None /\ pc'[s] = "idle"
      BY <1>36, <2>1, <3>1 DEF Answer
    <3> QED
      BY <1>36, <3>1, <3>2, <3>3
  <2>2. CASE op[t] # "shutdown"
    <3>1. \A s \in Threads : op'[s] = "shutdown" => pc[t] = "idle"
      BY <1>36, <2>2 DEF Answer
    <3>2. mcp' = mcp /\ mcp # "closing" /\ mcp # "down"
      BY <1>36, <2>2 DEF Answer
    <3> QED
      BY <1>36, <2>2, <3>1, <3>2 DEF Answer
  <2> QED
    BY <2>1, <2>2
<1> QED
  BY <1>1, <1>2, <1>3, <1>4, <1>5, <1>6, <1>7, <1>8, <1>9, <1>10, <1>11,
     <1>12, <1>13, <1>14, <1>15, <1>16, <1>17, <1>18, <1>19, <1>20, <1>21,
     <1>22, <1>23, <1>24, <1>25, <1>26, <1>27, <1>28, <1>29, <1>30, <1>31,
     <1>32, <1>33, <1>34, <1>35, <1>36
     DEF Step, StopSteps, StartSteps

(* So do the other steps. *)
LEMMA AloneOthers ==
  ASSUME CallInv, AloneInv, Others
  PROVE  AloneInv'
<1> USE SessionsAssumption DEF CallInv, TypeOK, LocalsInv, Pos, HoldsSession,
        HoldsCurrent, Unbound, Sessionless, Found, StatusLabels, StartLabels,
        StopLabels, QueryLabels, ReturnLabels, Ops, registry, process, locals,
        callVars, AloneInv, Idle
<1>1. ASSUME NEW t \in Threads, Begin(t) PROVE AloneInv'
  BY <1>1 DEF Begin
<1>2. ASSUME NEW t \in Threads, BeginShutdown(t) PROVE AloneInv'
  BY <1>2 DEF BeginShutdown
<1>3. CASE GuestSteps
  BY <1>3 DEF GuestSteps
<1>4. CASE Restart
  BY <1>4 DEF Restart, Unset
<1>5. CASE UNCHANGED vars
  BY <1>5 DEF vars
<1> QED
  BY <1>1, <1>2, <1>3, <1>4, <1>5 DEF Others

LEMMA AloneNext == CallInv /\ AloneInv /\ [Next]_vars => AloneInv'
BY AloneStep, AloneOthers, Split

LEMMA AloneInit == Init => AloneInv
BY SessionsAssumption
   DEF Init, Idle, Unset, AloneInv, Pos, Ops, StatusLabels, StopLabels, QueryLabels

(* The atexit handler runs when no call is under way, nothing runs beside it  *)
(* or after it, and it only ever works on sessions of the registry.           *)
THEOREM ShutdownAlone == Spec => []AloneInv
<1> QED
  BY CallCorrect, AloneInit, AloneNext, PTL DEF Spec

-----------------------------------------------------------------------------

(* Only the thread of the atexit handler is past a call's beginning while it *)
(* runs, so every other step leaves VisitInv with nothing to say.            *)
LEMMA VisitElsewhere ==
  ASSUME CallInv, AloneInv, VisitInv, NEW t \in Threads, Step(t),
         op[t] # "shutdown"
  PROVE  VisitInv'
<1>1. \A s \in Threads : op[s] # "shutdown"
  BY StepFrame DEF AloneInv
<1>2. \A s \in Threads : op'[s] # "shutdown"
  BY <1>1, StepFrame, SessionsAssumption DEF Ops
<1>3. mcp' # "down"
  BY StepFrame DEF AloneInv, Idle
<1> QED
  BY <1>2, <1>3 DEF VisitInv

(* The handler goes from one session to the next, leaving each one down. *)
LEMMA VisitStep ==
  ASSUME CallInv, LiveInv, AloneInv, VisitInv, Steady,
         NEW t \in Threads, Step(t), op[t] = "shutdown"
  PROVE  VisitInv'
<1> USE SessionsAssumption DEF CallInv, TypeOK, LocalsInv, TodoInv, Pos,
        HoldsSession, HoldsCurrent, Unbound, Sessionless, Found, StatusLabels,
        StartLabels, StopLabels, QueryLabels, ReturnLabels, Ops, registry,
        process, locals, callVars, HostTypeOK, Phases, hostVars, LiveInv,
        OwnerInv, DeadInv, Registered, Starting, Steady, Truthful, Up,
        SeemsDown, Idle
<1> USE DEF AloneInv, VisitInv, Visiting
<1>1. CASE Query(t)
  BY <1>1 DEF Query
<1>2. CASE MarkDead(t)
  BY <1>2 DEF MarkDead
<1>3. CASE Reap(t)
  BY <1>3 DEF Reap, Rm
<1>4. CASE StatusInspect(t)
  BY <1>4 DEF StatusInspect
<1>5. CASE StatusRpc(t)
  BY <1>5 DEF StatusRpc
<1>6. CASE StatusRetry(t)
  BY <1>6 DEF StatusRetry
<1>7. CASE AskStop(t)
  BY <1>7 DEF AskStop, Raise, DeliverStop
<1>8. CASE Join(t)
  BY <1>8 DEF Join, Raise
<1>9. CASE JoinRm(t)
  BY <1>9 DEF JoinRm, Rm
<1>10. CASE JoinEnd(t)
  BY <1>10 DEF JoinEnd, AfterJoin, Raise
<1>11. CASE JoinMark(t)
  BY <1>11 DEF JoinMark, AfterJoin
<1>12. CASE LoadLock(t)
  BY <1>12 DEF LoadLock
<1>13. CASE LoadCurrent(t)
  BY <1>13 DEF LoadCurrent
<1>14. CASE LoadStopped(t)
  BY <1>14 DEF LoadStopped
<1>15. CASE StartInspect(t)
  BY <1>15 DEF StartInspect
<1>16. CASE StartRm(t)
  BY <1>16 DEF StartRm, Rm
<1>17. CASE StartRun(t)
  BY <1>17 DEF StartRun, Launch
<1>18. CASE StartReady(t)
  BY <1>18 DEF StartReady
<1>19. CASE StartAbort(t)
  BY <1>19 DEF StartAbort, Rm
<1>20. CASE Register(t)
  BY <1>20 DEF Register, Unreachable
<1>21. CASE CurrentGet(t)
  BY <1>21 DEF CurrentGet
<1>22. CASE CurrentChecked(t)
  BY <1>22 DEF CurrentChecked
<1>23. CASE RequireGet(t)
  BY <1>23 DEF RequireGet
<1>24. CASE RequireChecked(t)
  BY <1>24 DEF RequireChecked
<1>25. CASE Rpc(t)
  BY <1>25 DEF Rpc, Execute
<1>26. CASE StopGet(t)
  BY <1>26 DEF StopGet, StopReturn, StopSub
<1>27. CASE StopChecked(t)
  BY <1>27 DEF StopChecked, StopReturn
<1>28. CASE StopEnd(t)
  BY <1>28 DEF StopEnd, StopReturn
<1>29. CASE ResetGet(t)
  BY <1>29 DEF ResetGet
<1>30. CASE ResetCurrent(t)
  BY <1>30 DEF ResetCurrent
<1>31. CASE ResetBack(t)
  BY <1>31 DEF ResetBack
<1>32. CASE ResetStopped(t)
  BY <1>32 DEF ResetStopped
<1>33. CASE ResetUnlink(t)
  BY <1>33 DEF ResetUnlink, UnlinkSnapshot
<1>34. CASE ShutdownNext(t)
  BY <1>34 DEF ShutdownNext
<1>35. CASE ShutdownChecked(t)
  BY <1>35 DEF ShutdownChecked
<1>36. CASE Answer(t)
  BY <1>36 DEF Answer
<1> QED
  BY <1>1, <1>2, <1>3, <1>4, <1>5, <1>6, <1>7, <1>8, <1>9, <1>10, <1>11,
     <1>12, <1>13, <1>14, <1>15, <1>16, <1>17, <1>18, <1>19, <1>20, <1>21,
     <1>22, <1>23, <1>24, <1>25, <1>26, <1>27, <1>28, <1>29, <1>30, <1>31,
     <1>32, <1>33, <1>34, <1>35, <1>36
     DEF Step, StopSteps, StartSteps

(* Arrivals, guests and stuttering keep VisitInv: the handler begins with the *)
(* whole registry before it.                                                  *)
LEMMA VisitOthers ==
  ASSUME CallInv, LiveInv, AloneInv, VisitInv, Steady, Others, restarts' = 0
  PROVE  VisitInv'
<1> USE SessionsAssumption DEF CallInv, TypeOK, LocalsInv, TodoInv, Pos,
        HoldsSession, HoldsCurrent, Unbound, Sessionless, Found, StatusLabels,
        StartLabels, StopLabels, QueryLabels, ReturnLabels, Ops, registry,
        process, locals, callVars, HostTypeOK, Phases, hostVars, LiveInv,
        OwnerInv, DeadInv, Registered, Starting, Steady, Truthful, Up,
        SeemsDown, Idle
<1> USE DEF AloneInv, VisitInv, Visiting
<1>1. ASSUME NEW t \in Threads, Begin(t) PROVE VisitInv'
  BY <1>1 DEF Begin
<1>2. ASSUME NEW t \in Threads, BeginShutdown(t) PROVE VisitInv'
  BY <1>2 DEF BeginShutdown
<1>3. ASSUME NEW d \in Subdirs, GuestStep(d),
             UNCHANGED <<registry, process, locals, lock, pc, ret, up, out>>
      PROVE  VisitInv'
  BY <1>3 DEF GuestStep, GuestReady, IdleTimeout, GuestClose, GuestCrash
<1>4. CASE Restart
  BY <1>4 DEF Restart
<1>5. CASE UNCHANGED vars
  BY <1>5 DEF vars
<1> QED
  BY <1>1, <1>2, <1>3, <1>4, <1>5 DEF Others, GuestSteps

LEMMA VisitInit == Init => VisitInv
BY SessionsAssumption DEF Init, Unset, VisitInv, Ops

LEMMA VisitNext ==
  ASSUME Reliable, CallInv, LiveInv, AloneInv, VisitInv, [Next]_vars, CallInv'
  PROVE  VisitInv'
<1>1. restarts' = 0
  BY SessionsAssumption DEF CallInv, TypeOK, Reliable
<1>2. Steady
  BY DEF Reliable
<1>3. CASE Others
  BY <1>1, <1>2, <1>3, VisitOthers
<1>4. ASSUME NEW t \in Threads, Step(t) PROVE VisitInv'
  BY <1>2, <1>4, VisitElsewhere, VisitStep
<1> QED
  BY <1>3, <1>4, Split

(* When the atexit handler has run, no play instance is left running: what    *)
(* runs was registered when it began, and it stops whatever was registered.   *)
THEOREM ShutdownComplete ==
  ASSUME Reliable PROVE Spec => []ShutdownLeavesNothing
<1>1. Init => VisitInv
  BY VisitInit
<1>2. CallInv /\ LiveInv /\ AloneInv /\ VisitInv /\ [Next]_vars /\ CallInv'
        => VisitInv'
  BY VisitNext
<1>3. VisitInv => ShutdownLeavesNothing
  BY DEF VisitInv, ShutdownLeavesNothing
<1> QED
  BY CallCorrect, LiveAlways, ShutdownAlone, <1>1, <1>2, <1>3, PTL DEF Spec

-----------------------------------------------------------------------------

(* The sessions of a call are games of its user, whatever fails. *)
LEMMA OwnerOthers ==
  ASSUME CallInv, OwnerInv, LoaderInv, Others
  PROVE  OwnerInv' /\ LoaderInv'
<1> USE SessionsAssumption DEF CallInv, TypeOK, LocalsInv, HasTarget,
        LockInv, InLoad, LoadReturn, Pos, HoldsSession, HoldsCurrent,
        Unbound, Sessionless, Found, StatusLabels, StartLabels, StopLabels,
        QueryLabels, ReturnLabels, Ops, registry, process, locals, callVars,
        HostTypeOK, hostVars, OwnerInv, LoaderInv, AloneInv
<1>1. ASSUME NEW t \in Threads, Begin(t) PROVE OwnerInv' /\ LoaderInv'
  BY <1>1 DEF Begin
<1>2. ASSUME NEW t \in Threads, BeginShutdown(t) PROVE OwnerInv' /\ LoaderInv'
  BY <1>2 DEF BeginShutdown, Idle
<1>3. CASE GuestSteps
  BY <1>3 DEF GuestSteps
<1>4. CASE Restart
  BY <1>4 DEF Restart, Idle, Unset
<1>5. CASE UNCHANGED vars
  BY <1>5 DEF vars
<1> QED
  BY <1>1, <1>2, <1>3, <1>4, <1>5 DEF Others

LEMMA OwnerCorrect == Spec => [](OwnerInv /\ LoaderInv)
<1>1. Init => OwnerInv /\ LoaderInv
  BY LiveInit DEF LiveInv
<1>2. CallInv /\ OwnerInv /\ LoaderInv /\ [Next]_vars => OwnerInv' /\ LoaderInv'
  BY OwnerOthers, OwnerStep, LoaderStep, Split
<1> QED
  BY CallCorrect, <1>1, <1>2, PTL DEF Spec

(* A call of another user touches nothing that a call under way depends on:  *)
(* not its locals, not its registry entry, not the containers of its user.   *)
LEMMA Elsewhere ==
  ASSUME CallInv, OwnerInv, LoaderInv, AloneInv, OneCallPerUser,
         NEW s \in Threads, NEW t \in Threads, s # t, pc[t] # "idle", Step(s)
  PROVE  /\ who[t] \in Emails
         /\ UNCHANGED byEmail[who[t]]
         /\ UNCHANGED <<pc[t], ret[t], up[t], out[t]>>
         /\ UNCHANGED <<op[t], who[t], tgt[t], sess[t], held[t]>>
         /\ sess[t] # None => UNCHANGED <<subOf[sess[t]], dead[sess[t]]>>
         /\ held[t] # None => UNCHANGED subOf[held[t]]
         /\ \A d \in Subdirs : Owner[d] = who[t] =>
              UNCHANGED <<con[d], cold[d], unsaved[d], snap[d]>>
<1> USE SessionsAssumption DEF CallInv, TypeOK, LocalsInv, HasTarget,
        LockInv, InLoad, LoadReturn, Pos, HoldsSession, HoldsCurrent,
        Unbound, Sessionless, Found, StatusLabels, StartLabels, StopLabels,
        QueryLabels, ReturnLabels, Ops, registry, process, locals, callVars,
        HostTypeOK, hostVars, OwnerInv, LoaderInv, AloneInv
<1>1. /\ pc[s] # "idle"
      /\ op[s] # "shutdown"
      /\ op[t] # "shutdown"
      /\ who[s] \in Emails
      /\ who[t] \in Emails
      /\ who[s] # who[t]
  BY StepFrame DEF OneCallPerUser
<1>5. sess[s] # None /\ sess[t] # None => sess[s] # sess[t]
  BY <1>1
<1>2. /\ UNCHANGED <<pc[t], ret[t], up[t], out[t]>>
      /\ UNCHANGED <<op[t], who[t], tgt[t], sess[t], held[t]>>
  BY StepFrame
<1>3. /\ UNCHANGED byEmail[who[t]]
      /\ sess[t] # None => UNCHANGED <<subOf[sess[t]], dead[sess[t]]>>
      /\ held[t] # None => UNCHANGED subOf[held[t]]
  <2>1. CASE Query(s)
    BY <2>1, <1>1 DEF Query
  <2>2. CASE MarkDead(s)
    <3>1. sess[s] \in Sessions
      BY <2>2 DEF MarkDead
    <3>2. dead' = [dead EXCEPT ![sess[s]] = TRUE] /\ UNCHANGED <<byEmail, subOf>>
      BY <2>2 DEF MarkDead
    <3>3. ASSUME sess[t] # None PROVE UNCHANGED dead[sess[t]]
      <4>1. sess[t] # sess[s] /\ sess[t] \in Sessions /\ UNCHANGED sess[t]
        BY <1>2, <1>5, <3>1, <3>3, SessionsAssumption
      <4>2. dead \in [Sessions -> BOOLEAN]
        OBVIOUS
      <4> HIDE DEF CallInv, OwnerInv, LoaderInv, AloneInv
      <4> QED
        BY <3>1, <3>2, <4>1, <4>2
    <3> QED
      BY <1>2, <3>2, <3>3
  <2>3. CASE Reap(s)
    BY <2>3, <1>1 DEF Reap, Rm
  <2>4. CASE StatusInspect(s)
    BY <2>4, <1>1 DEF StatusInspect
  <2>5. CASE StatusRpc(s)
    BY <2>5, <1>1 DEF StatusRpc
  <2>6. CASE StatusRetry(s)
    BY <2>6, <1>1 DEF StatusRetry
  <2>7. CASE AskStop(s)
    BY <2>7, <1>1 DEF AskStop, Raise, DeliverStop
  <2>8. CASE Join(s)
    BY <2>8, <1>1 DEF Join, Raise
  <2>9. CASE JoinRm(s)
    BY <2>9, <1>1 DEF JoinRm, Rm
  <2>10. CASE JoinEnd(s)
    BY <2>10, <1>1 DEF JoinEnd, AfterJoin, Raise
  <2>11. CASE JoinMark(s)
    <3>1. sess[s] \in Sessions
      BY <2>11 DEF JoinMark
    <3>2. dead' = [dead EXCEPT ![sess[s]] = TRUE] /\ UNCHANGED <<byEmail, subOf>>
      BY <2>11 DEF JoinMark
    <3>3. ASSUME sess[t] # None PROVE UNCHANGED dead[sess[t]]
      <4>1. sess[t] # sess[s] /\ sess[t] \in Sessions /\ UNCHANGED sess[t]
        BY <1>2, <1>5, <3>1, <3>3, SessionsAssumption
      <4>2. dead \in [Sessions -> BOOLEAN]
        OBVIOUS
      <4> HIDE DEF CallInv, OwnerInv, LoaderInv, AloneInv
      <4> QED
        BY <3>1, <3>2, <4>1, <4>2
    <3> QED
      BY <1>2, <3>2, <3>3
  <2>12. CASE LoadLock(s)
    BY <2>12, <1>1 DEF LoadLock
  <2>13. CASE LoadCurrent(s)
    BY <2>13, <1>1 DEF LoadCurrent
  <2>14. CASE LoadStopped(s)
    BY <2>14, <1>1 DEF LoadStopped
  <2>15. CASE StartInspect(s)
    BY <2>15, <1>1 DEF StartInspect
  <2>16. CASE StartRm(s)
    BY <2>16, <1>1 DEF StartRm, Rm
  <2>17. CASE StartRun(s)
    BY <2>17, <1>1 DEF StartRun, Launch
  <2>18. CASE StartReady(s)
    BY <2>18, <1>1 DEF StartReady
  <2>19. CASE StartAbort(s)
    BY <2>19, <1>1 DEF StartAbort, Rm
  <2>20. CASE Register(s)
    <3>1. PICK n \in Sessions :
            /\ Unreachable(n)
            /\ subOf' = [subOf EXCEPT ![n] = tgt[s]]
            /\ dead' = [dead EXCEPT ![n] = FALSE]
            /\ byEmail' = [byEmail EXCEPT ![who[s]] = n]
      BY <2>20 DEF Register
    <3>2. sess[t] # n /\ held[t] # n
      BY <3>1 DEF Unreachable
    <3> QED
      BY <1>1, <1>2, <3>1, <3>2
  <2>21. CASE CurrentGet(s)
    BY <2>21, <1>1 DEF CurrentGet
  <2>22. CASE CurrentChecked(s)
    BY <2>22, <1>1 DEF CurrentChecked
  <2>23. CASE RequireGet(s)
    BY <2>23, <1>1 DEF RequireGet
  <2>24. CASE RequireChecked(s)
    BY <2>24, <1>1 DEF RequireChecked
  <2>25. CASE Rpc(s)
    BY <2>25, <1>1 DEF Rpc, Execute
  <2>26. CASE StopGet(s)
    BY <2>26, <1>1 DEF StopGet, StopReturn, StopSub
  <2>27. CASE StopChecked(s)
    BY <2>27, <1>1 DEF StopChecked, StopReturn
  <2>28. CASE StopEnd(s)
    BY <2>28, <1>1 DEF StopEnd, StopReturn
  <2>29. CASE ResetGet(s)
    BY <2>29, <1>1 DEF ResetGet
  <2>30. CASE ResetCurrent(s)
    BY <2>30, <1>1 DEF ResetCurrent
  <2>31. CASE ResetBack(s)
    BY <2>31, <1>1 DEF ResetBack
  <2>32. CASE ResetStopped(s)
    BY <2>32, <1>1 DEF ResetStopped
  <2>33. CASE ResetUnlink(s)
    BY <2>33, <1>1 DEF ResetUnlink, UnlinkSnapshot
  <2>34. CASE ShutdownNext(s)
    BY <2>34, <1>1 DEF ShutdownNext
  <2>35. CASE ShutdownChecked(s)
    BY <2>35, <1>1 DEF ShutdownChecked
  <2>36. CASE Answer(s)
    BY <2>36, <1>1 DEF Answer
  <2> QED
    BY <2>1, <2>2, <2>3, <2>4, <2>5, <2>6, <2>7, <2>8, <2>9, <2>10, <2>11,
       <2>12, <2>13, <2>14, <2>15, <2>16, <2>17, <2>18, <2>19, <2>20, <2>21,
       <2>22, <2>23, <2>24, <2>25, <2>26, <2>27, <2>28, <2>29, <2>30, <2>31,
       <2>32, <2>33, <2>34, <2>35, <2>36
       DEF Step, StopSteps, StartSteps
<1>4. \A d \in Subdirs : Owner[d] = who[t] =>
        UNCHANGED <<con[d], cold[d], unsaved[d], snap[d]>>
  <2>1. CASE Query(s)
    BY <2>1, <1>1 DEF Query
  <2>2. CASE MarkDead(s)
    BY <2>2, <1>1 DEF MarkDead
  <2>3. CASE Reap(s)
    BY <2>3, <1>1 DEF Reap, Rm
  <2>4. CASE StatusInspect(s)
    BY <2>4, <1>1 DEF StatusInspect
  <2>5. CASE StatusRpc(s)
    BY <2>5, <1>1 DEF StatusRpc
  <2>6. CASE StatusRetry(s)
    BY <2>6, <1>1 DEF StatusRetry
  <2>7. CASE AskStop(s)
    BY <2>7, <1>1 DEF AskStop, Raise, DeliverStop
  <2>8. CASE Join(s)
    BY <2>8, <1>1 DEF Join, Raise
  <2>9. CASE JoinRm(s)
    BY <2>9, <1>1 DEF JoinRm, Rm
  <2>10. CASE JoinEnd(s)
    BY <2>10, <1>1 DEF JoinEnd, AfterJoin, Raise
  <2>11. CASE JoinMark(s)
    BY <2>11, <1>1 DEF JoinMark, AfterJoin
  <2>12. CASE LoadLock(s)
    BY <2>12, <1>1 DEF LoadLock
  <2>13. CASE LoadCurrent(s)
    BY <2>13, <1>1 DEF LoadCurrent
  <2>14. CASE LoadStopped(s)
    BY <2>14, <1>1 DEF LoadStopped
  <2>15. CASE StartInspect(s)
    BY <2>15, <1>1 DEF StartInspect
  <2>16. CASE StartRm(s)
    BY <2>16, <1>1 DEF StartRm, Rm
  <2>17. CASE StartRun(s)
    BY <2>17, <1>1 DEF StartRun, Launch
  <2>18. CASE StartReady(s)
    BY <2>18, <1>1 DEF StartReady
  <2>19. CASE StartAbort(s)
    BY <2>19, <1>1 DEF StartAbort, Rm
  <2>20. CASE Register(s)
    BY <2>20, <1>1 DEF Register, Unreachable
  <2>21. CASE CurrentGet(s)
    BY <2>21, <1>1 DEF CurrentGet
  <2>22. CASE CurrentChecked(s)
    BY <2>22, <1>1 DEF CurrentChecked
  <2>23. CASE RequireGet(s)
    BY <2>23, <1>1 DEF RequireGet
  <2>24. CASE RequireChecked(s)
    BY <2>24, <1>1 DEF RequireChecked
  <2>25. CASE Rpc(s)
    BY <2>25, <1>1 DEF Rpc, Execute
  <2>26. CASE StopGet(s)
    BY <2>26, <1>1 DEF StopGet, StopReturn, StopSub
  <2>27. CASE StopChecked(s)
    BY <2>27, <1>1 DEF StopChecked, StopReturn
  <2>28. CASE StopEnd(s)
    BY <2>28, <1>1 DEF StopEnd, StopReturn
  <2>29. CASE ResetGet(s)
    BY <2>29, <1>1 DEF ResetGet
  <2>30. CASE ResetCurrent(s)
    BY <2>30, <1>1 DEF ResetCurrent
  <2>31. CASE ResetBack(s)
    BY <2>31, <1>1 DEF ResetBack
  <2>32. CASE ResetStopped(s)
    BY <2>32, <1>1 DEF ResetStopped
  <2>33. CASE ResetUnlink(s)
    <3>1. tgt[s] \in Subdirs /\ Owner[tgt[s]] = who[s]
      BY <2>33, <1>1 DEF ResetUnlink
    <3>2. snap' = [snap EXCEPT ![tgt[s]] = FALSE] /\ UNCHANGED <<con, cold, unsaved>>
      BY <2>33 DEF ResetUnlink, UnlinkSnapshot
    <3>3. ASSUME NEW d \in Subdirs, Owner[d] = who[t] PROVE d # tgt[s]
      BY <1>1, <3>1, <3>3
    <3>4. ASSUME NEW d \in Subdirs, Owner[d] = who[t] PROVE UNCHANGED snap[d]
      <4>1. d # tgt[s]
        BY <3>3, <3>4
      <4>2. snap \in [Subdirs -> BOOLEAN]
        OBVIOUS
      <4> HIDE DEF CallInv, OwnerInv, LoaderInv, AloneInv
      <4> QED
        BY <3>2, <4>1, <4>2
    <3> QED
      BY <3>2, <3>4
  <2>34. CASE ShutdownNext(s)
    BY <2>34, <1>1 DEF ShutdownNext
  <2>35. CASE ShutdownChecked(s)
    BY <2>35, <1>1 DEF ShutdownChecked
  <2>36. CASE Answer(s)
    BY <2>36, <1>1 DEF Answer
  <2> QED
    BY <2>1, <2>2, <2>3, <2>4, <2>5, <2>6, <2>7, <2>8, <2>9, <2>10, <2>11,
       <2>12, <2>13, <2>14, <2>15, <2>16, <2>17, <2>18, <2>19, <2>20, <2>21,
       <2>22, <2>23, <2>24, <2>25, <2>26, <2>27, <2>28, <2>29, <2>30, <2>31,
       <2>32, <2>33, <2>34, <2>35, <2>36
       DEF Step, StopSteps, StartSteps
<1> QED
  BY <1>1, <1>2, <1>3, <1>4

-----------------------------------------------------------------------------

(* A call passes through the positions of its operation only. *)
LEMMA OpStep ==
  ASSUME CallInv, OpInv, NEW t \in Threads, Step(t)
  PROVE  OpInv'
<1> USE SessionsAssumption DEF CallInv, TypeOK, LocalsInv, Pos, StatusLabels,
        StartLabels, StopLabels, QueryLabels, ReturnLabels, LoadReturn, Ops,
        registry, process, locals, callVars, OpInv
<1>1. CASE Query(t)
  BY <1>1 DEF Query
<1>2. CASE MarkDead(t)
  BY <1>2 DEF MarkDead
<1>3. CASE Reap(t)
  BY <1>3 DEF Reap, Rm
<1>4. CASE StatusInspect(t)
  BY <1>4 DEF StatusInspect
<1>5. CASE StatusRpc(t)
  BY <1>5 DEF StatusRpc
<1>6. CASE StatusRetry(t)
  BY <1>6 DEF StatusRetry
<1>7. CASE AskStop(t)
  BY <1>7 DEF AskStop, Raise, DeliverStop
<1>8. CASE Join(t)
  BY <1>8 DEF Join, Raise
<1>9. CASE JoinRm(t)
  BY <1>9 DEF JoinRm, Rm
<1>10. CASE JoinEnd(t)
  BY <1>10 DEF JoinEnd, AfterJoin, Raise
<1>11. CASE JoinMark(t)
  BY <1>11 DEF JoinMark, AfterJoin
<1>12. CASE LoadLock(t)
  BY <1>12 DEF LoadLock
<1>13. CASE LoadCurrent(t)
  BY <1>13 DEF LoadCurrent
<1>14. CASE LoadStopped(t)
  BY <1>14 DEF LoadStopped
<1>15. CASE StartInspect(t)
  BY <1>15 DEF StartInspect
<1>16. CASE StartRm(t)
  BY <1>16 DEF StartRm, Rm
<1>17. CASE StartRun(t)
  BY <1>17 DEF StartRun, Launch
<1>18. CASE StartReady(t)
  BY <1>18 DEF StartReady
<1>19. CASE StartAbort(t)
  BY <1>19 DEF StartAbort, Rm
<1>20. CASE Register(t)
  BY <1>20 DEF Register, Unreachable
<1>21. CASE CurrentGet(t)
  BY <1>21 DEF CurrentGet
<1>22. CASE CurrentChecked(t)
  BY <1>22 DEF CurrentChecked
<1>23. CASE RequireGet(t)
  BY <1>23 DEF RequireGet
<1>24. CASE RequireChecked(t)
  BY <1>24 DEF RequireChecked
<1>25. CASE Rpc(t)
  BY <1>25 DEF Rpc, Execute
<1>26. CASE StopGet(t)
  BY <1>26 DEF StopGet, StopReturn, StopSub
<1>27. CASE StopChecked(t)
  BY <1>27 DEF StopChecked, StopReturn
<1>28. CASE StopEnd(t)
  BY <1>28 DEF StopEnd, StopReturn
<1>29. CASE ResetGet(t)
  BY <1>29 DEF ResetGet
<1>30. CASE ResetCurrent(t)
  BY <1>30 DEF ResetCurrent
<1>31. CASE ResetBack(t)
  BY <1>31 DEF ResetBack
<1>32. CASE ResetStopped(t)
  BY <1>32 DEF ResetStopped
<1>33. CASE ResetUnlink(t)
  BY <1>33 DEF ResetUnlink, UnlinkSnapshot
<1>34. CASE ShutdownNext(t)
  BY <1>34 DEF ShutdownNext
<1>35. CASE ShutdownChecked(t)
  BY <1>35 DEF ShutdownChecked
<1>36. CASE Answer(t)
  BY <1>36 DEF Answer
<1> QED
  BY <1>1, <1>2, <1>3, <1>4, <1>5, <1>6, <1>7, <1>8, <1>9, <1>10, <1>11,
     <1>12, <1>13, <1>14, <1>15, <1>16, <1>17, <1>18, <1>19, <1>20, <1>21,
     <1>22, <1>23, <1>24, <1>25, <1>26, <1>27, <1>28, <1>29, <1>30, <1>31,
     <1>32, <1>33, <1>34, <1>35, <1>36
     DEF Step, StopSteps, StartSteps

LEMMA OpOthers ==
  ASSUME CallInv, OpInv, Others
  PROVE  OpInv'
<1> USE SessionsAssumption DEF CallInv, TypeOK, Pos, StatusLabels, StartLabels,
        StopLabels, QueryLabels, LoadReturn, Ops, registry, process, locals,
        callVars, OpInv
<1>1. ASSUME NEW t \in Threads, Begin(t) PROVE OpInv'
  BY <1>1 DEF Begin
<1>2. ASSUME NEW t \in Threads, BeginShutdown(t) PROVE OpInv'
  BY <1>2 DEF BeginShutdown, Idle
<1>3. CASE GuestSteps
  BY <1>3 DEF GuestSteps
<1>4. CASE Restart
  BY <1>4 DEF Restart, Idle, Unset
<1>5. CASE UNCHANGED vars
  BY <1>5 DEF vars
<1> QED
  BY <1>1, <1>2, <1>3, <1>4, <1>5 DEF Others

LEMMA OpCorrect == Spec => []OpInv
<1>1. Init => OpInv
  BY SessionsAssumption
     DEF Init, Idle, Unset, OpInv, Pos, StatusLabels, StartLabels, StopLabels,
         QueryLabels, LoadReturn, Ops
<1>2. CallInv /\ OpInv /\ [Next]_vars => OpInv'
  BY OpStep, OpOthers, Split
<1> QED
  BY CallCorrect, <1>1, <1>2, PTL DEF Spec

(* What the invariants below take for granted. *)
Base == CallInv /\ OwnerInv /\ LoaderInv /\ AloneInv /\ OpInv

LEMMA BaseCorrect == Spec => []Base
BY CallCorrect, OwnerCorrect, ShutdownAlone, OpCorrect, PTL DEF Base

(* A server that handles its calls one after the other has one at a time. *)
LEMMA Sequential ==
  ASSUME \A s, t \in Threads : s = t
  PROVE  OneCallPerUser
BY DEF OneCallPerUser

(* A call works on the session that is registered for its user. *)
LEMMA OwnSessionStep ==
  ASSUME Base, NEW t \in Threads, OwnSession(t), Step(t)
  PROVE  OwnSession(t)'
<1> USE SessionsAssumption DEF CallInv, TypeOK, LocalsInv, HasTarget,
        LockInv, InLoad, LoadReturn, Pos, HoldsSession, HoldsCurrent,
        Unbound, Sessionless, Found, StatusLabels, StartLabels, StopLabels,
        QueryLabels, ReturnLabels, Ops, registry, process, locals, callVars,
        HostTypeOK, hostVars, OwnerInv, LoaderInv, AloneInv
<1> USE DEF Base, OwnSession
<1>1. CASE Query(t)
  BY <1>1 DEF Query
<1>2. CASE MarkDead(t)
  BY <1>2 DEF MarkDead
<1>3. CASE Reap(t)
  BY <1>3 DEF Reap, Rm
<1>4. CASE StatusInspect(t)
  BY <1>4 DEF StatusInspect
<1>5. CASE StatusRpc(t)
  BY <1>5 DEF StatusRpc
<1>6. CASE StatusRetry(t)
  BY <1>6 DEF StatusRetry
<1>7. CASE AskStop(t)
  BY <1>7 DEF AskStop, Raise, DeliverStop
<1>8. CASE Join(t)
  BY <1>8 DEF Join, Raise
<1>9. CASE JoinRm(t)
  BY <1>9 DEF JoinRm, Rm
<1>10. CASE JoinEnd(t)
  BY <1>10 DEF JoinEnd, AfterJoin, Raise
<1>11. CASE JoinMark(t)
  BY <1>11 DEF JoinMark, AfterJoin
<1>12. CASE LoadLock(t)
  BY <1>12 DEF LoadLock
<1>13. CASE LoadCurrent(t)
  BY <1>13 DEF LoadCurrent
<1>14. CASE LoadStopped(t)
  BY <1>14 DEF LoadStopped
<1>15. CASE StartInspect(t)
  BY <1>15 DEF StartInspect
<1>16. CASE StartRm(t)
  BY <1>16 DEF StartRm, Rm
<1>17. CASE StartRun(t)
  BY <1>17 DEF StartRun, Launch
<1>18. CASE StartReady(t)
  BY <1>18 DEF StartReady
<1>19. CASE StartAbort(t)
  BY <1>19 DEF StartAbort, Rm
<1>20. CASE Register(t)
  BY <1>20 DEF Register, Unreachable
<1>21. CASE CurrentGet(t)
  BY <1>21 DEF CurrentGet
<1>22. CASE CurrentChecked(t)
  BY <1>22 DEF CurrentChecked
<1>23. CASE RequireGet(t)
  BY <1>23 DEF RequireGet
<1>24. CASE RequireChecked(t)
  BY <1>24 DEF RequireChecked
<1>25. CASE Rpc(t)
  BY <1>25 DEF Rpc, Execute
<1>26. CASE StopGet(t)
  BY <1>26 DEF StopGet, StopReturn, StopSub
<1>27. CASE StopChecked(t)
  BY <1>27 DEF StopChecked, StopReturn
<1>28. CASE StopEnd(t)
  BY <1>28 DEF StopEnd, StopReturn
<1>29. CASE ResetGet(t)
  BY <1>29 DEF ResetGet
<1>30. CASE ResetCurrent(t)
  BY <1>30 DEF ResetCurrent
<1>31. CASE ResetBack(t)
  BY <1>31 DEF ResetBack
<1>32. CASE ResetStopped(t)
  BY <1>32 DEF ResetStopped
<1>33. CASE ResetUnlink(t)
  BY <1>33 DEF ResetUnlink, UnlinkSnapshot
<1>34. CASE ShutdownNext(t)
  BY <1>34 DEF ShutdownNext
<1>35. CASE ShutdownChecked(t)
  BY <1>35 DEF ShutdownChecked
<1>36. CASE Answer(t)
  BY <1>36 DEF Answer
<1> QED
  BY <1>1, <1>2, <1>3, <1>4, <1>5, <1>6, <1>7, <1>8, <1>9, <1>10, <1>11,
     <1>12, <1>13, <1>14, <1>15, <1>16, <1>17, <1>18, <1>19, <1>20, <1>21,
     <1>22, <1>23, <1>24, <1>25, <1>26, <1>27, <1>28, <1>29, <1>30, <1>31,
     <1>32, <1>33, <1>34, <1>35, <1>36
     DEF Step, StopSteps, StartSteps

LEMMA OwnSessionOthers ==
  ASSUME Base, \A t \in Threads : OwnSession(t), Others
  PROVE  \A t \in Threads : OwnSession(t)'
<1> USE SessionsAssumption DEF CallInv, TypeOK, LocalsInv, HasTarget,
        LockInv, InLoad, LoadReturn, Pos, HoldsSession, HoldsCurrent,
        Unbound, Sessionless, Found, StatusLabels, StartLabels, StopLabels,
        QueryLabels, ReturnLabels, Ops, registry, process, locals, callVars,
        HostTypeOK, hostVars, OwnerInv, LoaderInv, AloneInv
<1> USE DEF Base, OwnSession
<1>1. ASSUME NEW s \in Threads, Begin(s) PROVE \A t \in Threads : OwnSession(t)'
  BY <1>1 DEF Begin
<1>2. ASSUME NEW s \in Threads, BeginShutdown(s)
      PROVE  \A t \in Threads : OwnSession(t)'
  BY <1>2 DEF BeginShutdown, Idle
<1>3. CASE GuestSteps
  BY <1>3 DEF GuestSteps
<1>4. CASE Restart
  BY <1>4 DEF Restart, Unset
<1>5. CASE UNCHANGED vars
  BY <1>5 DEF vars
<1> QED
  BY <1>1, <1>2, <1>3, <1>4, <1>5 DEF Others

LEMMA OwnSessionNext ==
  ASSUME Base, OneCallPerUser, \A t \in Threads : OwnSession(t), [Next]_vars
  PROVE  \A t \in Threads : OwnSession(t)'
<1>1. CASE Others
  BY <1>1, OwnSessionOthers
<1>2. ASSUME NEW s \in Threads, Step(s), NEW t \in Threads
      PROVE  OwnSession(t)'
  <2>1. CASE s = t
    BY <1>2, <2>1, OwnSessionStep
  <2>2. CASE s # t /\ pc[t] # "idle"
    BY <1>2, <2>2, Elsewhere DEF Base, OwnSession, InLoad, Pos
  <2>3. CASE s # t /\ pc[t] = "idle"
    <3>1. who[t] = None
      BY <2>3 DEF Base, CallInv, LocalsInv, Pos, Unbound, QueryLabels,
                  StopLabels, StatusLabels
    <3>2. who'[t] = None
      BY <1>2, <2>3, <3>1, StepFrame DEF Base
    <3> QED
      BY <3>2 DEF OwnSession
  <2> QED
    BY <2>1, <2>2, <2>3
<1> QED
  BY <1>1, <1>2, Split

(* If the calls of each user come one at a time, a call and the registry     *)
(* speak of the same session all along, whatever else fails.                 *)
THEOREM SessionIsOwn ==
  Spec /\ []OneCallPerUser => [](\A t \in Threads : OwnSession(t))
<1>1. Init => \A t \in Threads : OwnSession(t)
  BY SessionsAssumption DEF Init, Unset, OwnSession
<1>2. Base /\ OneCallPerUser /\ (\A t \in Threads : OwnSession(t)) /\ [Next]_vars
        => (\A t \in Threads : OwnSession(t))'
  BY OwnSessionNext
<1> QED
  BY BaseCorrect, <1>1, <1>2, PTL DEF Spec

-----------------------------------------------------------------------------

(* Where a label needs a session or a target, it is a game of the user. *)
LEMMA SubKnown ==
  ASSUME Base, NEW t \in Threads
  PROVE  /\ pc[t] \in HoldsSession => /\ sess[t] # None
                                      /\ Sub(t) \in Subdirs
                                      /\ op[t] # "shutdown" => Owner[Sub(t)] = who[t]
         /\ pc[t] \in StartLabels => tgt[t] \in Subdirs /\ Owner[tgt[t]] = who[t]
<1> USE SessionsAssumption DEF CallInv, TypeOK, LocalsInv, HasTarget,
        LockInv, InLoad, LoadReturn, Pos, HoldsSession, HoldsCurrent,
        Unbound, Sessionless, Found, StatusLabels, StartLabels, StopLabels,
        QueryLabels, ReturnLabels, Ops, registry, process, locals, callVars,
        HostTypeOK, Phases, hostVars, OwnerInv, LoaderInv, AloneInv, Base
<1>1. ASSUME pc[t] \in HoldsSession
      PROVE  /\ sess[t] # None
             /\ Sub(t) \in Subdirs
             /\ op[t] # "shutdown" => Owner[Sub(t)] = who[t]
  <2>1. sess[t] \in Sessions
    BY <1>1
  <2>2. CASE op[t] = "shutdown"
    BY <2>1, <2>2
  <2>3. CASE op[t] # "shutdown"
    <3>1. who[t] \in Emails
      BY <1>1, <2>3
    <3> QED
      BY <2>1, <2>3, <3>1
  <2> QED
    BY <2>1, <2>2, <2>3
<1>2. pc[t] \in StartLabels => tgt[t] \in Subdirs /\ Owner[tgt[t]] = who[t]
  OBVIOUS
<1> QED
  BY <1>1, <1>2

(* A call reaps what it has just seen down. *)
LEMMA ReapsStep ==
  ASSUME Base, Truthful, NEW t \in Threads, ReapsDown(t), Step(t)
  PROVE  ReapsDown(t)'
<1> USE SessionsAssumption DEF CallInv, TypeOK, LocalsInv, HasTarget,
        LockInv, InLoad, LoadReturn, Pos, HoldsSession, HoldsCurrent,
        Unbound, Sessionless, Found, StatusLabels, StartLabels, StopLabels,
        QueryLabels, ReturnLabels, Ops, registry, process, locals, callVars,
        HostTypeOK, Phases, hostVars, OwnerInv, LoaderInv, AloneInv, Base
<1> USE DEF Truthful, ReapsDown, Up, SeemsDown
<1>1. CASE Query(t)
  BY <1>1 DEF Query
<1>2. CASE MarkDead(t)
  BY <1>2 DEF MarkDead
<1>3. CASE Reap(t)
  BY <1>3 DEF Reap, Rm
<1>4. CASE StatusInspect(t)
  BY <1>4 DEF StatusInspect
<1>5. CASE StatusRpc(t)
  BY <1>5 DEF StatusRpc
<1>6. CASE StatusRetry(t)
  BY <1>6 DEF StatusRetry
<1>7. CASE AskStop(t)
  BY <1>7 DEF AskStop, Raise, DeliverStop
<1>8. CASE Join(t)
  BY <1>8 DEF Join, Raise
<1>9. CASE JoinRm(t)
  BY <1>9 DEF JoinRm, Rm
<1>10. CASE JoinEnd(t)
  BY <1>10 DEF JoinEnd, AfterJoin, Raise
<1>11. CASE JoinMark(t)
  BY <1>11 DEF JoinMark, AfterJoin
<1>12. CASE LoadLock(t)
  BY <1>12 DEF LoadLock
<1>13. CASE LoadCurrent(t)
  BY <1>13 DEF LoadCurrent
<1>14. CASE LoadStopped(t)
  BY <1>14 DEF LoadStopped
<1>15. CASE StartInspect(t)
  BY <1>15 DEF StartInspect
<1>16. CASE StartRm(t)
  BY <1>16 DEF StartRm, Rm
<1>17. CASE StartRun(t)
  BY <1>17 DEF StartRun, Launch
<1>18. CASE StartReady(t)
  BY <1>18 DEF StartReady
<1>19. CASE StartAbort(t)
  BY <1>19 DEF StartAbort, Rm
<1>20. CASE Register(t)
  BY <1>20 DEF Register, Unreachable
<1>21. CASE CurrentGet(t)
  BY <1>21 DEF CurrentGet
<1>22. CASE CurrentChecked(t)
  BY <1>22 DEF CurrentChecked
<1>23. CASE RequireGet(t)
  BY <1>23 DEF RequireGet
<1>24. CASE RequireChecked(t)
  BY <1>24 DEF RequireChecked
<1>25. CASE Rpc(t)
  BY <1>25 DEF Rpc, Execute
<1>26. CASE StopGet(t)
  BY <1>26 DEF StopGet, StopReturn, StopSub
<1>27. CASE StopChecked(t)
  BY <1>27 DEF StopChecked, StopReturn
<1>28. CASE StopEnd(t)
  BY <1>28 DEF StopEnd, StopReturn
<1>29. CASE ResetGet(t)
  BY <1>29 DEF ResetGet
<1>30. CASE ResetCurrent(t)
  BY <1>30 DEF ResetCurrent
<1>31. CASE ResetBack(t)
  BY <1>31 DEF ResetBack
<1>32. CASE ResetStopped(t)
  BY <1>32 DEF ResetStopped
<1>33. CASE ResetUnlink(t)
  BY <1>33 DEF ResetUnlink, UnlinkSnapshot
<1>34. CASE ShutdownNext(t)
  BY <1>34 DEF ShutdownNext
<1>35. CASE ShutdownChecked(t)
  BY <1>35 DEF ShutdownChecked
<1>36. CASE Answer(t)
  BY <1>36 DEF Answer
<1> QED
  BY <1>1, <1>2, <1>3, <1>4, <1>5, <1>6, <1>7, <1>8, <1>9, <1>10, <1>11,
     <1>12, <1>13, <1>14, <1>15, <1>16, <1>17, <1>18, <1>19, <1>20, <1>21,
     <1>22, <1>23, <1>24, <1>25, <1>26, <1>27, <1>28, <1>29, <1>30, <1>31,
     <1>32, <1>33, <1>34, <1>35, <1>36
     DEF Step, StopSteps, StartSteps

(* No guest comes up by itself. *)
LEMMA ReapsOthers ==
  ASSUME Base, NEW t \in Threads, ReapsDown(t), Others
  PROVE  ReapsDown(t)'
<1>0. pc[t] \in {"mark", "reap"} => Sub(t) \in Subdirs
  BY SubKnown DEF HoldsSession, QueryLabels
<1> USE SessionsAssumption DEF CallInv, TypeOK, LocalsInv, HasTarget,
        LockInv, InLoad, LoadReturn, Pos, HoldsSession, HoldsCurrent,
        Unbound, Sessionless, Found, StatusLabels, StartLabels, StopLabels,
        QueryLabels, ReturnLabels, Ops, registry, process, locals, callVars,
        HostTypeOK, Phases, hostVars, OwnerInv, LoaderInv, AloneInv, Base
<1> USE <1>0 DEF ReapsDown, Up
<1>1. ASSUME NEW s \in Threads, Begin(s) PROVE ReapsDown(t)'
  BY <1>1 DEF Begin
<1>2. ASSUME NEW s \in Threads, BeginShutdown(s) PROVE ReapsDown(t)'
  BY <1>2 DEF BeginShutdown, Idle
<1>3. ASSUME NEW d \in Subdirs, GuestStep(d),
             UNCHANGED <<registry, process, locals, lock, pc, ret, up, out>>
      PROVE  ReapsDown(t)'
  BY <1>3 DEF GuestStep, GuestReady, IdleTimeout, GuestClose, GuestCrash
<1>4. CASE Restart
  BY <1>4 DEF Restart, Idle
<1>5. CASE UNCHANGED vars
  BY <1>5 DEF vars
<1> QED
  BY <1>1, <1>2, <1>3, <1>4, <1>5 DEF Others, GuestSteps

LEMMA ReapsNext ==
  ASSUME Base, Truthful, OneCallPerUser, \A t \in Threads : ReapsDown(t),
         [Next]_vars
  PROVE  \A t \in Threads : ReapsDown(t)'
<1>1. CASE Others
  BY <1>1, ReapsOthers
<1>2. ASSUME NEW s \in Threads, Step(s), NEW t \in Threads
      PROVE  ReapsDown(t)'
  <2>1. CASE s = t
    BY <1>2, <2>1, ReapsStep
  <2>2. CASE s # t /\ pc[t] \in {"mark", "reap"}
    <3>1. op[t] # "shutdown"
      BY <1>2, <2>2, StepFrame DEF Base, AloneInv
    <3>2. sess[t] # None /\ Sub(t) \in Subdirs /\ Owner[Sub(t)] = who[t]
      BY <2>2, <3>1, SubKnown DEF HoldsSession, QueryLabels
    <3>3. UNCHANGED <<pc[t], Sub(t), con[Sub(t)]>>
      BY <1>2, <2>2, <3>2, Elsewhere DEF Base
    <3> QED
      BY <2>2, <3>3 DEF ReapsDown, Up
  <2>3. CASE s # t /\ pc[t] \notin {"mark", "reap"}
    BY <1>2, <2>3, StepFrame DEF Base, ReapsDown
  <2> QED
    BY <2>1, <2>2, <2>3
<1> QED
  BY <1>1, <1>2, Split

(* If docker inspect is truthful and no docker command hangs, and the calls  *)
(* of each user come one at a time, a session that the server gives up on    *)
(* never costs a live instance, even with slow and crashing guests, failing  *)
(* RPCs, calls of other users and restarts of the server.                    *)
THEOREM ReapsOnlyDead ==
  ASSUME Truthful PROVE Spec /\ []OneCallPerUser => NeverReapsLive
<1>1. Init => \A t \in Threads : ReapsDown(t)
  BY DEF Init, Idle, ReapsDown
<1>2. Base /\ OneCallPerUser /\ (\A t \in Threads : ReapsDown(t)) /\ [Next]_vars
        => (\A t \in Threads : ReapsDown(t))'
  BY ReapsNext
<1>3. (\A t \in Threads : ReapsDown(t))
        => [\A t \in Threads : At(t, "reap") /\ pc'[t] # "reap" => ~Up(Sub(t))]_vars
  BY DEF ReapsDown
<1> QED
  BY BaseCorrect, <1>1, <1>2, <1>3, PTL DEF Spec, NeverReapsLive

-----------------------------------------------------------------------------

(* Only a serving guest has progress that its snapshot lacks. *)
LEMMA AheadStep ==
  ASSUME TypeOK, NothingAhead, NEW t \in Threads, Step(t)
  PROVE  NothingAhead'
<1> USE SessionsAssumption
    DEF TypeOK, HostTypeOK, Phases, hostVars, locals, callVars, NothingAhead
<1>1. CASE Query(t)
  BY <1>1 DEF Query
<1>2. CASE MarkDead(t)
  BY <1>2 DEF MarkDead
<1>3. CASE Reap(t)
  BY <1>3 DEF Reap, Rm
<1>4. CASE StatusInspect(t)
  BY <1>4 DEF StatusInspect
<1>5. CASE StatusRpc(t)
  BY <1>5 DEF StatusRpc
<1>6. CASE StatusRetry(t)
  BY <1>6 DEF StatusRetry
<1>7. CASE AskStop(t)
  BY <1>7 DEF AskStop, Raise, DeliverStop
<1>8. CASE Join(t)
  BY <1>8 DEF Join, Raise
<1>9. CASE JoinRm(t)
  BY <1>9 DEF JoinRm, Rm
<1>10. CASE JoinEnd(t)
  BY <1>10 DEF JoinEnd, AfterJoin, Raise
<1>11. CASE JoinMark(t)
  BY <1>11 DEF JoinMark, AfterJoin
<1>12. CASE LoadLock(t)
  BY <1>12 DEF LoadLock
<1>13. CASE LoadCurrent(t)
  BY <1>13 DEF LoadCurrent
<1>14. CASE LoadStopped(t)
  BY <1>14 DEF LoadStopped
<1>15. CASE StartInspect(t)
  BY <1>15 DEF StartInspect
<1>16. CASE StartRm(t)
  BY <1>16 DEF StartRm, Rm
<1>17. CASE StartRun(t)
  BY <1>17 DEF StartRun, Launch
<1>18. CASE StartReady(t)
  BY <1>18 DEF StartReady
<1>19. CASE StartAbort(t)
  BY <1>19 DEF StartAbort, Rm
<1>20. CASE Register(t)
  BY <1>20 DEF Register, Unreachable
<1>21. CASE CurrentGet(t)
  BY <1>21 DEF CurrentGet
<1>22. CASE CurrentChecked(t)
  BY <1>22 DEF CurrentChecked
<1>23. CASE RequireGet(t)
  BY <1>23 DEF RequireGet
<1>24. CASE RequireChecked(t)
  BY <1>24 DEF RequireChecked
<1>25. CASE Rpc(t)
  <2>1. CASE UNCHANGED hostVars
    BY <2>1
  <2>2. CASE Execute(Sub(t), op[t])
    BY <2>2 DEF Execute
  <2> QED
    BY <1>25, <2>1, <2>2 DEF Rpc
<1>26. CASE StopGet(t)
  BY <1>26 DEF StopGet, StopReturn, StopSub
<1>27. CASE StopChecked(t)
  BY <1>27 DEF StopChecked, StopReturn
<1>28. CASE StopEnd(t)
  BY <1>28 DEF StopEnd, StopReturn
<1>29. CASE ResetGet(t)
  BY <1>29 DEF ResetGet
<1>30. CASE ResetCurrent(t)
  BY <1>30 DEF ResetCurrent
<1>31. CASE ResetBack(t)
  BY <1>31 DEF ResetBack
<1>32. CASE ResetStopped(t)
  BY <1>32 DEF ResetStopped
<1>33. CASE ResetUnlink(t)
  BY <1>33 DEF ResetUnlink, UnlinkSnapshot
<1>34. CASE ShutdownNext(t)
  BY <1>34 DEF ShutdownNext
<1>35. CASE ShutdownChecked(t)
  BY <1>35 DEF ShutdownChecked
<1>36. CASE Answer(t)
  BY <1>36 DEF Answer
<1> QED
  BY <1>1, <1>2, <1>3, <1>4, <1>5, <1>6, <1>7, <1>8, <1>9, <1>10, <1>11,
     <1>12, <1>13, <1>14, <1>15, <1>16, <1>17, <1>18, <1>19, <1>20, <1>21,
     <1>22, <1>23, <1>24, <1>25, <1>26, <1>27, <1>28, <1>29, <1>30, <1>31,
     <1>32, <1>33, <1>34, <1>35, <1>36
     DEF Step, StopSteps, StartSteps

LEMMA AheadOthers ==
  ASSUME TypeOK, NothingAhead, Others
  PROVE  NothingAhead'
<1> USE SessionsAssumption
    DEF TypeOK, HostTypeOK, Phases, hostVars, NothingAhead
<1>1. ASSUME NEW s \in Threads, Begin(s) PROVE NothingAhead'
  BY <1>1 DEF Begin
<1>2. ASSUME NEW s \in Threads, BeginShutdown(s) PROVE NothingAhead'
  BY <1>2 DEF BeginShutdown, Idle
<1>3. ASSUME NEW d \in Subdirs, GuestStep(d),
             UNCHANGED <<registry, process, locals, lock, pc, ret, up, out>>
      PROVE  NothingAhead'
  BY <1>3 DEF GuestStep, GuestReady, IdleTimeout, GuestClose, GuestCrash
<1>4. CASE Restart
  BY <1>4 DEF Restart, Idle
<1>5. CASE UNCHANGED vars
  BY <1>5 DEF vars
<1> QED
  BY <1>1, <1>2, <1>3, <1>4, <1>5 DEF Others, GuestSteps

LEMMA AheadCorrect == Spec => []NothingAhead
<1>1. Init => NothingAhead
  BY DEF Init, HostInit, NothingAhead
<1>2. CallInv /\ NothingAhead /\ [Next]_vars => NothingAhead'
  BY AheadStep, AheadOthers, Split DEF CallInv
<1> QED
  BY CallCorrect, <1>1, <1>2, PTL DEF Spec

(* A call removes what it has waited for, found down or never played. *)
LEMMA RemovesStep ==
  ASSUME Base, Careful, NothingAhead, NEW t \in Threads, RemovesSaved(t), Step(t)
  PROVE  RemovesSaved(t)'
<1>0. /\ pc[t] \in HoldsSession => Sub(t) \in Subdirs
      /\ pc[t] \in StartLabels => tgt[t] \in Subdirs
  BY SubKnown
<1> USE SessionsAssumption DEF CallInv, TypeOK, LocalsInv, HasTarget,
        LockInv, InLoad, LoadReturn, Pos, HoldsSession, HoldsCurrent,
        Unbound, Sessionless, Found, StatusLabels, StartLabels, StopLabels,
        QueryLabels, ReturnLabels, Ops, registry, process, locals, callVars,
        HostTypeOK, Phases, hostVars, OwnerInv, LoaderInv, AloneInv, Base
<1> USE <1>0 DEF Careful, Truthful, NothingAhead, RemovesSaved, Up, SeemsDown
<1>1. CASE Query(t)
  BY <1>1 DEF Query
<1>2. CASE MarkDead(t)
  BY <1>2 DEF MarkDead
<1>3. CASE Reap(t)
  BY <1>3 DEF Reap, Rm
<1>4. CASE StatusInspect(t)
  BY <1>4 DEF StatusInspect
<1>5. CASE StatusRpc(t)
  BY <1>5 DEF StatusRpc
<1>6. CASE StatusRetry(t)
  BY <1>6 DEF StatusRetry
<1>7. CASE AskStop(t)
  BY <1>7 DEF AskStop, Raise, DeliverStop
<1>8. CASE Join(t)
  BY <1>8 DEF Join, Raise, Deadline
<1>9. CASE JoinRm(t)
  BY <1>9 DEF JoinRm, Rm
<1>10. CASE JoinEnd(t)
  BY <1>10 DEF JoinEnd, AfterJoin, Raise
<1>11. CASE JoinMark(t)
  BY <1>11 DEF JoinMark, AfterJoin
<1>12. CASE LoadLock(t)
  BY <1>12 DEF LoadLock
<1>13. CASE LoadCurrent(t)
  BY <1>13 DEF LoadCurrent
<1>14. CASE LoadStopped(t)
  BY <1>14 DEF LoadStopped
<1>15. CASE StartInspect(t)
  BY <1>15 DEF StartInspect
<1>16. CASE StartRm(t)
  BY <1>16 DEF StartRm, Rm
<1>17. CASE StartRun(t)
  BY <1>17 DEF StartRun, Launch
<1>18. CASE StartReady(t)
  BY <1>18 DEF StartReady
<1>19. CASE StartAbort(t)
  BY <1>19 DEF StartAbort, Rm
<1>20. CASE Register(t)
  BY <1>20 DEF Register, Unreachable
<1>21. CASE CurrentGet(t)
  BY <1>21 DEF CurrentGet
<1>22. CASE CurrentChecked(t)
  BY <1>22 DEF CurrentChecked
<1>23. CASE RequireGet(t)
  BY <1>23 DEF RequireGet
<1>24. CASE RequireChecked(t)
  BY <1>24 DEF RequireChecked
<1>25. CASE Rpc(t)
  BY <1>25 DEF Rpc, Execute
<1>26. CASE StopGet(t)
  BY <1>26 DEF StopGet, StopReturn, StopSub
<1>27. CASE StopChecked(t)
  BY <1>27 DEF StopChecked, StopReturn
<1>28. CASE StopEnd(t)
  BY <1>28 DEF StopEnd, StopReturn
<1>29. CASE ResetGet(t)
  BY <1>29 DEF ResetGet
<1>30. CASE ResetCurrent(t)
  BY <1>30 DEF ResetCurrent
<1>31. CASE ResetBack(t)
  BY <1>31 DEF ResetBack
<1>32. CASE ResetStopped(t)
  BY <1>32 DEF ResetStopped
<1>33. CASE ResetUnlink(t)
  BY <1>33 DEF ResetUnlink, UnlinkSnapshot
<1>34. CASE ShutdownNext(t)
  BY <1>34 DEF ShutdownNext
<1>35. CASE ShutdownChecked(t)
  BY <1>35 DEF ShutdownChecked
<1>36. CASE Answer(t)
  BY <1>36 DEF Answer
<1> QED
  BY <1>1, <1>2, <1>3, <1>4, <1>5, <1>6, <1>7, <1>8, <1>9, <1>10, <1>11,
     <1>12, <1>13, <1>14, <1>15, <1>16, <1>17, <1>18, <1>19, <1>20, <1>21,
     <1>22, <1>23, <1>24, <1>25, <1>26, <1>27, <1>28, <1>29, <1>30, <1>31,
     <1>32, <1>33, <1>34, <1>35, <1>36
     DEF Step, StopSteps, StartSteps

LEMMA RemovesOthers ==
  ASSUME Base, NEW t \in Threads, RemovesSaved(t), NothingAhead, Others
  PROVE  RemovesSaved(t)'
<1>0. /\ pc[t] \in HoldsSession => Sub(t) \in Subdirs
      /\ pc[t] \in StartLabels => tgt[t] \in Subdirs
  BY SubKnown
<1> USE SessionsAssumption DEF CallInv, TypeOK, LocalsInv, HasTarget,
        LockInv, InLoad, LoadReturn, Pos, HoldsSession, HoldsCurrent,
        Unbound, Sessionless, Found, StatusLabels, StartLabels, StopLabels,
        QueryLabels, ReturnLabels, Ops, registry, process, locals, callVars,
        HostTypeOK, Phases, hostVars, OwnerInv, LoaderInv, AloneInv, Base
<1> USE <1>0 DEF RemovesSaved, NothingAhead, Up
<1>1. ASSUME NEW s \in Threads, Begin(s) PROVE RemovesSaved(t)'
  BY <1>1 DEF Begin
<1>2. ASSUME NEW s \in Threads, BeginShutdown(s) PROVE RemovesSaved(t)'
  BY <1>2 DEF BeginShutdown, Idle
<1>3. ASSUME NEW d \in Subdirs, GuestStep(d),
             UNCHANGED <<registry, process, locals, lock, pc, ret, up, out>>
      PROVE  RemovesSaved(t)'
  BY <1>3 DEF GuestStep, GuestReady, IdleTimeout, GuestClose, GuestCrash
<1>4. CASE Restart
  BY <1>4 DEF Restart, Idle
<1>5. CASE UNCHANGED vars
  BY <1>5 DEF vars
<1> QED
  BY <1>1, <1>2, <1>3, <1>4, <1>5 DEF Others, GuestSteps

LEMMA RemovesNext ==
  ASSUME Base, Careful, NothingAhead, OneCallPerUser,
         \A t \in Threads : RemovesSaved(t), [Next]_vars
  PROVE  \A t \in Threads : RemovesSaved(t)'
<1>1. CASE Others
  BY <1>1, RemovesOthers
<1>2. ASSUME NEW s \in Threads, Step(s), NEW t \in Threads
      PROVE  RemovesSaved(t)'
  <2>1. CASE s = t
    BY <1>2, <2>1, RemovesStep
  <2>2. CASE s # t /\ pc[t] \in {"join", "join_rm"}
    <3>1. op[t] # "shutdown"
      BY <1>2, <2>2, StepFrame DEF Base, AloneInv
    <3>2. sess[t] # None /\ Sub(t) \in Subdirs /\ Owner[Sub(t)] = who[t]
      BY <2>2, <3>1, SubKnown DEF HoldsSession, StopLabels
    <3>3. UNCHANGED <<pc[t], Sub(t), con[Sub(t)], unsaved[Sub(t)]>>
      BY <1>2, <2>2, <3>2, Elsewhere DEF Base
    <3> QED
      BY <2>2, <3>3 DEF RemovesSaved
  <2>3. CASE s # t /\ pc[t] \in {"start_rm", "start_ready", "start_abort"}
    <3>1. tgt[t] \in Subdirs /\ Owner[tgt[t]] = who[t]
      BY <2>3, SubKnown DEF StartLabels
    <3>2. UNCHANGED <<pc[t], tgt[t], con[tgt[t]], unsaved[tgt[t]]>>
      BY <1>2, <2>3, <3>1, Elsewhere DEF Base
    <3> QED
      BY <2>3, <3>2 DEF RemovesSaved, Up
  <2>4. CASE /\ s # t
             /\ pc[t] \notin {"join", "join_rm", "start_rm", "start_ready",
                              "start_abort"}
    BY <1>2, <2>4, StepFrame DEF Base, RemovesSaved
  <2> QED
    BY <2>1, <2>2, <2>3, <2>4
<1> QED
  BY <1>1, <1>2, Split

(* The invariant of a careful deployment. *)
SafeRemoval ==
  /\ Base
  /\ NothingAhead
  /\ \A t \in Threads : ReapsDown(t) /\ RemovesSaved(t)

LEMMA SafeRemovalCorrect ==
  ASSUME Careful PROVE Spec /\ []OneCallPerUser => []SafeRemoval
<1>0. Truthful
  BY DEF Careful
<1>1. Init => \A t \in Threads : ReapsDown(t) /\ RemovesSaved(t)
  BY DEF Init, Idle, ReapsDown, RemovesSaved
<1>2. /\ Base /\ NothingAhead /\ OneCallPerUser /\ [Next]_vars
      /\ \A t \in Threads : ReapsDown(t) /\ RemovesSaved(t)
      => (\A t \in Threads : ReapsDown(t) /\ RemovesSaved(t))'
  BY <1>0, Careful, ReapsNext, RemovesNext
<1> QED
  BY BaseCorrect, AheadCorrect, <1>1, <1>2, PTL DEF Spec, SafeRemoval

-----------------------------------------------------------------------------

(* The commands of the server that a guest notices, with what a careful      *)
(* deployment adds to them: nothing removed has progress to lose.            *)
SafeCommand ==
  \E x \in Subdirs :
    \/ Remove(x) /\ ~unsaved[x]
    \/ con[x] = "none" /\ \E r \in BOOLEAN : Launch(x, r)
    \/ DeliverStop(x)
    \/ \E c \in Ops \cup {None} : Execute(x, c)
    \/ UnlinkSnapshot(x)

LEMMA CommandStep ==
  ASSUME SafeRemoval, Careful, NEW t \in Threads, Step(t)
  PROVE  UNCHANGED hostVars \/ SafeCommand
<1>0. /\ pc[t] \in HoldsSession => Sub(t) \in Subdirs
      /\ pc[t] \in StartLabels => tgt[t] \in Subdirs
  BY SubKnown DEF SafeRemoval
<1> USE <1>0 DEF SafeRemoval, Base, CallInv, TypeOK, HostTypeOK, Phases,
        HoldsSession, HasTarget, Pos, LoaderInv, StatusLabels, StartLabels,
        StopLabels, QueryLabels, ReturnLabels, NothingAhead, ReapsDown,
        RemovesSaved, SafeCommand, Careful, Truthful, Up
<1>1. CASE Query(t)
  BY <1>1 DEF Query
<1>2. CASE MarkDead(t)
  BY <1>2 DEF MarkDead
<1>3. CASE Reap(t)
  BY <1>3 DEF Reap, Rm
<1>4. CASE StatusInspect(t)
  BY <1>4 DEF StatusInspect
<1>5. CASE StatusRpc(t)
  BY <1>5 DEF StatusRpc
<1>6. CASE StatusRetry(t)
  BY <1>6 DEF StatusRetry
<1>7. CASE AskStop(t)
  BY <1>7 DEF AskStop, Raise
<1>8. CASE Join(t)
  BY <1>8 DEF Join, Raise
<1>9. CASE JoinRm(t)
  BY <1>9 DEF JoinRm, Rm
<1>10. CASE JoinEnd(t)
  BY <1>10 DEF JoinEnd, AfterJoin, Raise
<1>11. CASE JoinMark(t)
  BY <1>11 DEF JoinMark, AfterJoin
<1>12. CASE LoadLock(t)
  BY <1>12 DEF LoadLock
<1>13. CASE LoadCurrent(t)
  BY <1>13 DEF LoadCurrent
<1>14. CASE LoadStopped(t)
  BY <1>14 DEF LoadStopped
<1>15. CASE StartInspect(t)
  BY <1>15 DEF StartInspect
<1>16. CASE StartRm(t)
  BY <1>16 DEF StartRm, Rm
<1>17. CASE StartRun(t)
  BY <1>17 DEF StartRun
<1>18. CASE StartReady(t)
  BY <1>18 DEF StartReady
<1>19. CASE StartAbort(t)
  BY <1>19 DEF StartAbort, Rm
<1>20. CASE Register(t)
  BY <1>20 DEF Register, Unreachable
<1>21. CASE CurrentGet(t)
  BY <1>21 DEF CurrentGet
<1>22. CASE CurrentChecked(t)
  BY <1>22 DEF CurrentChecked
<1>23. CASE RequireGet(t)
  BY <1>23 DEF RequireGet
<1>24. CASE RequireChecked(t)
  BY <1>24 DEF RequireChecked
<1>25. CASE Rpc(t)
  <2>1. CASE UNCHANGED hostVars
    BY <2>1
  <2>2. CASE Execute(Sub(t), op[t])
    <3>1. Sub(t) \in Subdirs
      BY <1>25 DEF Rpc
    <3>2. op[t] \in Ops \cup {None}
      OBVIOUS
    <3> QED
      BY <2>2, <3>1, <3>2 DEF SafeCommand
  <2> QED
    BY <1>25, <2>1, <2>2 DEF Rpc
<1>26. CASE StopGet(t)
  BY <1>26 DEF StopGet, StopReturn, StopSub
<1>27. CASE StopChecked(t)
  BY <1>27 DEF StopChecked, StopReturn
<1>28. CASE StopEnd(t)
  BY <1>28 DEF StopEnd, StopReturn
<1>29. CASE ResetGet(t)
  BY <1>29 DEF ResetGet
<1>30. CASE ResetCurrent(t)
  BY <1>30 DEF ResetCurrent
<1>31. CASE ResetBack(t)
  BY <1>31 DEF ResetBack
<1>32. CASE ResetStopped(t)
  BY <1>32 DEF ResetStopped
<1>33. CASE ResetUnlink(t)
  BY <1>33 DEF ResetUnlink
<1>34. CASE ShutdownNext(t)
  BY <1>34 DEF ShutdownNext
<1>35. CASE ShutdownChecked(t)
  BY <1>35 DEF ShutdownChecked
<1>36. CASE Answer(t)
  BY <1>36 DEF Answer
<1> QED
  BY <1>1, <1>2, <1>3, <1>4, <1>5, <1>6, <1>7, <1>8, <1>9, <1>10, <1>11,
     <1>12, <1>13, <1>14, <1>15, <1>16, <1>17, <1>18, <1>19, <1>20, <1>21,
     <1>22, <1>23, <1>24, <1>25, <1>26, <1>27, <1>28, <1>29, <1>30, <1>31,
     <1>32, <1>33, <1>34, <1>35, <1>36
     DEF Step, StopSteps, StartSteps

(* What the contract of container d sees of a step: one of its actions, or   *)
(* nothing.                                                                  *)
Kept(d) == Instance(d)!Next \/ UNCHANGED Instance(d)!vars

LEMMA CommandKept ==
  ASSUME HostTypeOK, NothingAhead, SafeCommand, NEW d \in Subdirs
  PROVE  Kept(d)
<1> USE DEF HostTypeOK, Phases, NothingAhead
<1>1. PICK x \in Subdirs :
        \/ Remove(x) /\ ~unsaved[x]
        \/ con[x] = "none" /\ \E r \in BOOLEAN : Launch(x, r)
        \/ DeliverStop(x)
        \/ \E c \in Ops \cup {None} : Execute(x, c)
        \/ UnlinkSnapshot(x)
  BY DEF SafeCommand
<1>2. CASE x # d
  <2>1. UNCHANGED <<con[d], unsaved[d], snap[d]>>
    BY <1>1, <1>2 DEF Launch, DeliverStop, Execute, UnlinkSnapshot
  <2> QED
    BY <2>1 DEF Kept, Instance!vars
<1>3. CASE x = d /\ Remove(d) /\ ~unsaved[d]
  <2>1. Instance(d)!Remove
    BY <1>3 DEF Instance!Remove
  <2> QED
    BY <2>1 DEF Kept, Instance!Next
<1>4. CASE x = d /\ con[d] = "none" /\ \E r \in BOOLEAN : Launch(d, r)
  <2>1. Instance(d)!Start
    BY <1>4 DEF Instance!Start, Launch
  <2> QED
    BY <2>1 DEF Kept, Instance!Next
<1>5. CASE x = d /\ DeliverStop(d)
  BY <1>5 DEF Kept, Instance!vars, DeliverStop
<1>6. ASSUME x = d, NEW c \in Ops \cup {None}, Execute(d, c) PROVE Kept(d)
  <2>1. CASE c = "play"
    <3>1. Instance(d)!Play
      BY <1>6, <2>1 DEF Instance!Play, Execute
    <3> QED
      BY <3>1 DEF Kept, Instance!Next
  <2>2. CASE c = "save"
    <3>1. Instance(d)!Save
      BY <1>6, <2>2 DEF Instance!Save, Execute
    <3> QED
      BY <3>1 DEF Kept, Instance!Next
  <2>3. CASE c # "play" /\ c # "save"
    <3>1. Instance(d)!Drop
      BY <1>6, <2>3 DEF Instance!Drop, Execute
    <3> QED
      BY <3>1 DEF Kept, Instance!Next
  <2> QED
    BY <2>1, <2>2, <2>3
<1>7. CASE x = d /\ UnlinkSnapshot(d)
  <2>1. Instance(d)!Unlink
    BY <1>7 DEF Instance!Unlink, UnlinkSnapshot
  <2> QED
    BY <2>1 DEF Kept, Instance!Next
<1> QED
  BY <1>1, <1>2, <1>3, <1>4, <1>5, <1>6, <1>7

(* The guest itself keeps the contract: it saves before it exits, unless it  *)
(* crashes.                                                                  *)
LEMMA GuestKept ==
  ASSUME HostTypeOK, NothingAhead, NEW x \in Subdirs, GuestStep(x),
         NEW d \in Subdirs
  PROVE  Kept(d)
<1> USE DEF HostTypeOK, Phases, NothingAhead
<1>1. CASE x # d
  <2>1. UNCHANGED <<con[d], unsaved[d], snap[d]>>
    BY <1>1 DEF GuestStep, GuestReady, IdleTimeout, GuestClose, GuestCrash
  <2> QED
    BY <2>1 DEF Kept, Instance!vars
<1>2. CASE x = d /\ GuestReady(d)
  <2>1. Instance(d)!Ready
    BY <1>2 DEF Instance!Ready, GuestReady
  <2> QED
    BY <2>1 DEF Kept, Instance!Next
<1>3. CASE x = d /\ IdleTimeout(d)
  BY <1>3 DEF Kept, Instance!vars, IdleTimeout
<1>4. CASE x = d /\ GuestClose(d)
  <2>1. Instance(d)!Exit
    BY <1>4 DEF Instance!Exit, GuestClose
  <2> QED
    BY <2>1 DEF Kept, Instance!Next
<1>5. CASE x = d /\ GuestCrash(d) /\ con[d] = "booting"
  <2>1. Instance(d)!NoBoot
    BY <1>5 DEF Instance!NoBoot, GuestCrash
  <2> QED
    BY <2>1 DEF Kept, Instance!Next
<1>6. CASE x = d /\ GuestCrash(d) /\ con[d] # "booting"
  <2>1. Instance(d)!Crash
    BY <1>6 DEF Instance!Crash, GuestCrash, Up
  <2> QED
    BY <2>1 DEF Kept, Instance!Next
<1> QED
  BY <1>1, <1>2, <1>3, <1>4, <1>5, <1>6 DEF GuestStep

LEMMA KeptNext ==
  ASSUME SafeRemoval, Careful, [Next]_vars, NEW d \in Subdirs
  PROVE  Kept(d)
<1>0. HostTypeOK /\ NothingAhead
  BY DEF SafeRemoval, Base, CallInv, TypeOK
<1>1. ASSUME UNCHANGED hostVars PROVE Kept(d)
  BY <1>1 DEF hostVars, Kept, Instance!vars
<1>2. ASSUME NEW t \in Threads, Step(t) PROVE Kept(d)
  BY <1>0, <1>1, <1>2, CommandStep, CommandKept
<1>3. ASSUME NEW x \in Subdirs, GuestStep(x) PROVE Kept(d)
  BY <1>0, <1>3, GuestKept
<1>4. CASE Others
  BY <1>1, <1>3, <1>4
     DEF Others, Begin, BeginShutdown, GuestSteps, Restart, vars
<1> QED
  BY <1>2, <1>4, Split

(* In a careful deployment, calls of each user coming one at a time, every    *)
(* container keeps the contract of a play instance: its progress leaves it    *)
(* into the snapshot only, or in a crash of the guest.                        *)
THEOREM ContractKept ==
  ASSUME Careful PROVE Spec /\ []OneCallPerUser => KeepsContract
<1>1. Init => \A d \in Subdirs : Instance(d)!Init
  BY DEF Init, HostInit, Instance!Init
<1>2. SafeRemoval /\ [Next]_vars
        => [\A d \in Subdirs : Instance(d)!Next \/ UNCHANGED Instance(d)!vars]_hostVars
  BY KeptNext DEF Kept
<1> QED
  BY SafeRemovalCorrect, <1>1, <1>2, PTL DEF Spec, KeepsContract

(* No docker rm -f ever hits a guest holding progress its snapshot lacks: in  *)
(* the contract a container with something to lose is never removed.          *)
THEOREM NothingLost ==
  ASSUME Careful PROVE Spec /\ []OneCallPerUser => NeverRemovesUnsaved
<1>1. SafeRemoval /\ [Next]_vars
        => [\A d \in Subdirs : unsaved[d] => con'[d] # "none"]_vars
  <2> SUFFICES ASSUME SafeRemoval, [Next]_vars, NEW d \in Subdirs, unsaved[d]
               PROVE  con'[d] # "none"
    OBVIOUS
  <2>1. Kept(d)
    BY Careful, KeptNext
  <2>2. con[d] \in {"live", "closing"}
    BY DEF SafeRemoval, NothingAhead
  <2> QED
    BY <2>1, <2>2
       DEF Kept, Instance!Next, Instance!vars, Instance!Start, Instance!Ready,
           Instance!NoBoot, Instance!Play, Instance!Save, Instance!Drop,
           Instance!Unlink, Instance!Exit, Instance!Crash, Instance!Remove
<1> QED
  BY SafeRemovalCorrect, <1>1, PTL DEF Spec, NeverRemovesUnsaved

-----------------------------------------------------------------------------

(* A call that starts a game is the only call of its user. *)
LEMMA NotStarting ==
  ASSUME Base, OneCallPerUser, NEW t \in Threads, pc[t] # "idle",
         pc[t] \notin StartLabels
  PROVE  ~Starting(who[t])
<1> SUFFICES ASSUME Starting(who[t]) PROVE FALSE
  OBVIOUS
<1>1. lock \in Threads /\ lock # t /\ pc[lock] # "idle" /\ who[lock] = who[t]
  BY DEF Starting, Base, CallInv, TypeOK, StartLabels
<1> QED
  BY <1>1 DEF OneCallPerUser

(* A user whose call finds the registered session down has no running game. *)
LEMMA SeesDownStep ==
  ASSUME Base, Steady, LiveInv, OneCallPerUser, NEW t \in Threads,
         OwnSession(t), ReapsDown(t), SeesDown(t), Step(t)
  PROVE  SeesDown(t)'
<1>0. /\ pc[t] \in HoldsSession => Sub(t) \in Subdirs
      /\ pc[t] = "query" => ~Starting(who[t])
  BY NotStarting, SubKnown DEF StartLabels
<1> USE SessionsAssumption DEF CallInv, TypeOK, LocalsInv, HasTarget,
        LockInv, InLoad, LoadReturn, Pos, HoldsSession, HoldsCurrent,
        Unbound, Sessionless, Found, StatusLabels, StartLabels, StopLabels,
        QueryLabels, ReturnLabels, Ops, registry, process, locals, callVars,
        HostTypeOK, Phases, hostVars, OwnerInv, LoaderInv, AloneInv, Base
<1> USE <1>0 DEF LiveInv, DeadInv, OwnSession, Steady, Truthful, ReapsDown,
        SeesDown, Checked, Up, SeemsDown
<1>1. CASE Query(t)
  BY <1>1 DEF Query
<1>2. CASE MarkDead(t)
  BY <1>2 DEF MarkDead
<1>3. CASE Reap(t)
  BY <1>3 DEF Reap, Rm
<1>4. CASE StatusInspect(t)
  BY <1>4 DEF StatusInspect
<1>5. CASE StatusRpc(t)
  BY <1>5 DEF StatusRpc
<1>6. CASE StatusRetry(t)
  BY <1>6 DEF StatusRetry
<1>7. CASE AskStop(t)
  BY <1>7 DEF AskStop, Raise, DeliverStop
<1>8. CASE Join(t)
  BY <1>8 DEF Join, Raise
<1>9. CASE JoinRm(t)
  BY <1>9 DEF JoinRm, Rm
<1>10. CASE JoinEnd(t)
  BY <1>10 DEF JoinEnd, AfterJoin, Raise
<1>11. CASE JoinMark(t)
  BY <1>11 DEF JoinMark, AfterJoin
<1>12. CASE LoadLock(t)
  BY <1>12 DEF LoadLock
<1>13. CASE LoadCurrent(t)
  BY <1>13 DEF LoadCurrent
<1>14. CASE LoadStopped(t)
  BY <1>14 DEF LoadStopped
<1>15. CASE StartInspect(t)
  BY <1>15 DEF StartInspect
<1>16. CASE StartRm(t)
  BY <1>16 DEF StartRm, Rm
<1>17. CASE StartRun(t)
  BY <1>17 DEF StartRun, Launch
<1>18. CASE StartReady(t)
  BY <1>18 DEF StartReady
<1>19. CASE StartAbort(t)
  BY <1>19 DEF StartAbort, Rm
<1>20. CASE Register(t)
  BY <1>20 DEF Register, Unreachable
<1>21. CASE CurrentGet(t)
  BY <1>21 DEF CurrentGet
<1>22. CASE CurrentChecked(t)
  BY <1>22 DEF CurrentChecked
<1>23. CASE RequireGet(t)
  BY <1>23 DEF RequireGet
<1>24. CASE RequireChecked(t)
  BY <1>24 DEF RequireChecked
<1>25. CASE Rpc(t)
  BY <1>25 DEF Rpc, Execute
<1>26. CASE StopGet(t)
  BY <1>26 DEF StopGet, StopReturn, StopSub
<1>27. CASE StopChecked(t)
  BY <1>27 DEF StopChecked, StopReturn
<1>28. CASE StopEnd(t)
  BY <1>28 DEF StopEnd, StopReturn
<1>29. CASE ResetGet(t)
  BY <1>29 DEF ResetGet
<1>30. CASE ResetCurrent(t)
  BY <1>30 DEF ResetCurrent
<1>31. CASE ResetBack(t)
  BY <1>31 DEF ResetBack
<1>32. CASE ResetStopped(t)
  BY <1>32 DEF ResetStopped
<1>33. CASE ResetUnlink(t)
  BY <1>33 DEF ResetUnlink, UnlinkSnapshot
<1>34. CASE ShutdownNext(t)
  BY <1>34 DEF ShutdownNext
<1>35. CASE ShutdownChecked(t)
  BY <1>35 DEF ShutdownChecked
<1>36. CASE Answer(t)
  BY <1>36 DEF Answer
<1> QED
  BY <1>1, <1>2, <1>3, <1>4, <1>5, <1>6, <1>7, <1>8, <1>9, <1>10, <1>11,
     <1>12, <1>13, <1>14, <1>15, <1>16, <1>17, <1>18, <1>19, <1>20, <1>21,
     <1>22, <1>23, <1>24, <1>25, <1>26, <1>27, <1>28, <1>29, <1>30, <1>31,
     <1>32, <1>33, <1>34, <1>35, <1>36
     DEF Step, StopSteps, StartSteps

(* A reset unlinks the snapshot and launches with the game down: were it     *)
(* running, it would be the registered one that the call has seen down.      *)
LEMMA ResettingStep ==
  ASSUME Base, Steady, LiveInv, OneCallPerUser, NEW t \in Threads,
         OwnSession(t), ReapsDown(t), SeesDown(t), Resetting(t), Step(t)
  PROVE  Resetting(t)'
<1>0. /\ pc[t] \in HoldsSession => Sub(t) \in Subdirs
      /\ pc[t] # "idle" /\ pc[t] \notin StartLabels => ~Starting(who[t])
  BY NotStarting, SubKnown
<1> USE SessionsAssumption DEF CallInv, TypeOK, LocalsInv, HasTarget,
        LockInv, InLoad, LoadReturn, Pos, HoldsSession, HoldsCurrent,
        Unbound, Sessionless, Found, StatusLabels, StartLabels, StopLabels,
        QueryLabels, ReturnLabels, Ops, registry, process, locals, callVars,
        HostTypeOK, Phases, hostVars, OwnerInv, LoaderInv, AloneInv, Base
<1> USE <1>0 DEF LiveInv, Registered, OwnSession, Steady, Truthful, ReapsDown,
        SeesDown, Resetting, Checked, OpInv, Up, SeemsDown
<1>1. CASE Query(t)
  BY <1>1 DEF Query
<1>2. CASE MarkDead(t)
  BY <1>2 DEF MarkDead
<1>3. CASE Reap(t)
  BY <1>3 DEF Reap, Rm
<1>4. CASE StatusInspect(t)
  BY <1>4 DEF StatusInspect
<1>5. CASE StatusRpc(t)
  BY <1>5 DEF StatusRpc
<1>6. CASE StatusRetry(t)
  BY <1>6 DEF StatusRetry
<1>7. CASE AskStop(t)
  BY <1>7 DEF AskStop, Raise, DeliverStop
<1>8. CASE Join(t)
  BY <1>8 DEF Join, Raise
<1>9. CASE JoinRm(t)
  BY <1>9 DEF JoinRm, Rm
<1>10. CASE JoinEnd(t)
  BY <1>10 DEF JoinEnd, AfterJoin, Raise
<1>11. CASE JoinMark(t)
  BY <1>11 DEF JoinMark, AfterJoin
<1>12. CASE LoadLock(t)
  BY <1>12 DEF LoadLock
<1>13. CASE LoadCurrent(t)
  BY <1>13 DEF LoadCurrent
<1>14. CASE LoadStopped(t)
  BY <1>14 DEF LoadStopped
<1>15. CASE StartInspect(t)
  BY <1>15 DEF StartInspect
<1>16. CASE StartRm(t)
  BY <1>16 DEF StartRm, Rm
<1>17. CASE StartRun(t)
  <2>0. tgt[t] \in Subdirs
    BY <1>17 DEF StartRun
  <2>1. CASE Refuse(t, "not_started")
    BY <1>17, <2>1 DEF StartRun
  <2>2. CASE Launch(tgt[t], op[t] # "reset") /\ Goto(t, "start_ready") /\ UNCHANGED out
    <3>1. ASSUME op[t] = "reset" PROVE cold'[tgt[t]]
      <4>1. cold' = [cold EXCEPT ![tgt[t]] = TRUE]
        BY <2>2, <3>1 DEF Launch
      <4> QED
        BY <2>0, <4>1
    <3> QED
      BY <1>17, <2>2, <3>1 DEF StartRun
  <2> QED
    BY <1>17, <2>1, <2>2 DEF StartRun
<1>18. CASE StartReady(t)
  BY <1>18 DEF StartReady
<1>19. CASE StartAbort(t)
  BY <1>19 DEF StartAbort, Rm
<1>20. CASE Register(t)
  BY <1>20 DEF Register, Unreachable
<1>21. CASE CurrentGet(t)
  BY <1>21 DEF CurrentGet
<1>22. CASE CurrentChecked(t)
  BY <1>22 DEF CurrentChecked
<1>23. CASE RequireGet(t)
  BY <1>23 DEF RequireGet
<1>24. CASE RequireChecked(t)
  BY <1>24 DEF RequireChecked
<1>25. CASE Rpc(t)
  BY <1>25 DEF Rpc, Execute
<1>26. CASE StopGet(t)
  BY <1>26 DEF StopGet, StopReturn, StopSub
<1>27. CASE StopChecked(t)
  BY <1>27 DEF StopChecked, StopReturn
<1>28. CASE StopEnd(t)
  BY <1>28 DEF StopEnd, StopReturn
<1>29. CASE ResetGet(t)
  BY <1>29 DEF ResetGet
<1>30. CASE ResetCurrent(t)
  BY <1>30 DEF ResetCurrent
<1>31. CASE ResetBack(t)
  BY <1>31 DEF ResetBack
<1>32. CASE ResetStopped(t)
  BY <1>32 DEF ResetStopped
<1>33. CASE ResetUnlink(t)
  BY <1>33 DEF ResetUnlink, UnlinkSnapshot
<1>34. CASE ShutdownNext(t)
  BY <1>34 DEF ShutdownNext
<1>35. CASE ShutdownChecked(t)
  BY <1>35 DEF ShutdownChecked
<1>36. CASE Answer(t)
  BY <1>36 DEF Answer
<1> QED
  BY <1>1, <1>2, <1>3, <1>4, <1>5, <1>6, <1>7, <1>8, <1>9, <1>10, <1>11,
     <1>12, <1>13, <1>14, <1>15, <1>16, <1>17, <1>18, <1>19, <1>20, <1>21,
     <1>22, <1>23, <1>24, <1>25, <1>26, <1>27, <1>28, <1>29, <1>30, <1>31,
     <1>32, <1>33, <1>34, <1>35, <1>36
     DEF Step, StopSteps, StartSteps

LEMMA ResettingOthers ==
  ASSUME Base, NEW t \in Threads, SeesDown(t), Resetting(t), Others
  PROVE  SeesDown(t)' /\ Resetting(t)'
<1>0. pc[t] \in HoldsSession => Sub(t) \in Subdirs
  BY SubKnown
<1> USE SessionsAssumption DEF CallInv, TypeOK, LocalsInv, HasTarget,
        LockInv, InLoad, LoadReturn, Pos, HoldsSession, HoldsCurrent,
        Unbound, Sessionless, Found, StatusLabels, StartLabels, StopLabels,
        QueryLabels, ReturnLabels, Ops, registry, process, locals, callVars,
        HostTypeOK, Phases, hostVars, OwnerInv, LoaderInv, AloneInv, Base
<1> USE <1>0 DEF SeesDown, Resetting, Checked, OpInv, Up
<1>1. ASSUME NEW s \in Threads, Begin(s) PROVE SeesDown(t)' /\ Resetting(t)'
  BY <1>1 DEF Begin
<1>2. ASSUME NEW s \in Threads, BeginShutdown(s) PROVE SeesDown(t)' /\ Resetting(t)'
  BY <1>2 DEF BeginShutdown, Idle
<1>3. ASSUME NEW d \in Subdirs, GuestStep(d),
             UNCHANGED <<registry, process, locals, lock, pc, ret, up, out>>
      PROVE  SeesDown(t)' /\ Resetting(t)'
  <2>1. CASE GuestReady(d)
    BY <1>3, <2>1 DEF GuestReady
  <2>2. CASE IdleTimeout(d) \/ GuestClose(d) \/ GuestCrash(d)
    BY <1>3, <2>2 DEF IdleTimeout, GuestClose, GuestCrash
  <2> QED
    BY <1>3, <2>1, <2>2 DEF GuestStep
<1>4. CASE Restart
  BY <1>4 DEF Restart, Idle
<1>5. CASE UNCHANGED vars
  BY <1>5 DEF vars
<1> QED
  BY <1>1, <1>2, <1>3, <1>4, <1>5 DEF Others, GuestSteps

(* Calls of other users do not interfere. *)
LEMMA ResettingElsewhere ==
  ASSUME Base, OneCallPerUser, NEW t \in Threads, SeesDown(t), Resetting(t),
         NEW s \in Threads, s # t, Step(s)
  PROVE  SeesDown(t)' /\ Resetting(t)'
<1>1. CASE pc[t] = "idle"
  <2>1. pc'[t] = "idle" /\ op'[t] = None
    BY <1>1, StepFrame DEF Base, AloneInv
  <2> QED
    BY <2>1, SessionsAssumption DEF SeesDown, Resetting, Checked, Ops
<1>2. CASE pc[t] # "idle"
  <2>0. op[t] # "shutdown"
    BY <1>2, StepFrame DEF Base, AloneInv
  <2>1. /\ pc[t] \in HoldsSession => UNCHANGED <<Sub(t), con[Sub(t)]>>
        /\ UNCHANGED <<pc[t], ret[t], up[t], out[t], op[t], tgt[t]>>
    BY <1>2, <2>0, Elsewhere, SubKnown DEF Base
  <2>2. op[t] \in {"load", "reset"} => UNCHANGED <<con[tgt[t]], cold[tgt[t]]>>
    <3>1. ASSUME op[t] \in {"load", "reset"}
          PROVE  tgt[t] \in Subdirs /\ Owner[tgt[t]] = who[t]
      BY <1>2, <2>0, <3>1, SessionsAssumption
         DEF Base, OpInv, AloneInv, OwnerInv
    <3> QED
      BY <1>2, <3>1, Elsewhere DEF Base
  <2> QED
    BY <2>1, <2>2
       DEF SeesDown, Resetting, Checked, HoldsSession, ReturnLabels,
           QueryLabels, Pos, Up
<1> QED
  BY <1>1, <1>2

(* The invariant of the calls of one user in a steady deployment. *)
OneUser ==
  /\ Base
  /\ OneCallPerUser
  /\ \A t \in Threads : OwnSession(t) /\ ReapsDown(t)

LEMMA ResettingNext ==
  ASSUME Steady, OneUser,
         restarts = 0 => LiveInv,
         restarts = 0 => \A t \in Threads : SeesDown(t) /\ Resetting(t),
         [Next]_vars, restarts' = 0
  PROVE  \A t \in Threads : SeesDown(t)' /\ Resetting(t)'
<1> SUFFICES ASSUME NEW t \in Threads PROVE SeesDown(t)' /\ Resetting(t)'
  OBVIOUS
<1>1. Base /\ OneCallPerUser /\ OwnSession(t) /\ ReapsDown(t)
  BY DEF OneUser
<1>2. LiveInv /\ SeesDown(t) /\ Resetting(t)
  BY <1>1, FirstLife DEF Base
<1>3. CASE Others
  BY <1>1, <1>2, <1>3, ResettingOthers
<1>4. ASSUME NEW s \in Threads, Step(s)
      PROVE  SeesDown(t)' /\ Resetting(t)'
  <2>1. CASE s = t
    BY <1>1, <1>2, <1>4, <2>1, SeesDownStep, ResettingStep
  <2>2. CASE s # t
    BY <1>1, <1>2, <1>4, <2>2, ResettingElsewhere
  <2> QED
    BY <2>1, <2>2
<1> QED
  BY <1>3, <1>4, Split

LEMMA OneUserCorrect ==
  ASSUME Truthful
  PROVE  Spec /\ []OneCallPerUser => []OneUser
<1>1. Init => \A t \in Threads : ReapsDown(t)
  BY DEF Init, Idle, ReapsDown
<1>2. Base /\ OneCallPerUser /\ (\A t \in Threads : ReapsDown(t)) /\ [Next]_vars
        => (\A t \in Threads : ReapsDown(t))'
  BY ReapsNext
<1>3. /\ Base
      /\ OneCallPerUser
      /\ \A t \in Threads : OwnSession(t)
      /\ \A t \in Threads : ReapsDown(t)
      => OneUser
  BY DEF OneUser
<1> QED
  BY BaseCorrect, SessionIsOwn, <1>1, <1>2, <1>3, PTL DEF Spec

LEMMA ResettingCorrect ==
  ASSUME Steady
  PROVE  Spec /\ []OneCallPerUser
           => [](restarts = 0 => \A t \in Threads : SeesDown(t) /\ Resetting(t))
<1>0. Truthful
  BY DEF Steady
<1>1. Init => \A t \in Threads : SeesDown(t) /\ Resetting(t)
  BY SessionsAssumption
     DEF Init, Idle, Unset, SeesDown, Resetting, Checked, Ops
<1>2. /\ OneUser
      /\ restarts = 0 => LiveInv
      /\ restarts = 0 => \A t \in Threads : SeesDown(t) /\ Resetting(t)
      /\ [Next]_vars
      => (restarts = 0 => \A t \in Threads : SeesDown(t) /\ Resetting(t))'
  BY Steady, ResettingNext
<1>3. Spec /\ []OneCallPerUser => []OneUser
  BY <1>0, OneUserCorrect
<1>4. Spec => [](restarts = 0 => LiveInv)
  BY Steady, LiveCorrect
<1> QED
  BY <1>1, <1>2, <1>3, <1>4, PTL DEF Spec

(* A reset that reports a running game runs it from a cold boot, in a steady  *)
(* deployment where the calls of each user come one at a time: slow and       *)
(* crashing guests, failing RPCs and the calls of other users do not matter.  *)
THEOREM ResetCold ==
  ASSUME Steady PROVE Spec /\ []OneCallPerUser => []ResetIsCold
<1>1. Spec /\ []OneCallPerUser
        => [](restarts = 0 => \A t \in Threads : SeesDown(t) /\ Resetting(t))
  BY Steady, ResettingCorrect
<1>2. (restarts = 0 => \A t \in Threads : SeesDown(t) /\ Resetting(t))
        => ResetIsCold
  BY DEF Resetting, ResetIsCold
<1> QED
  BY <1>1, <1>2, PTL

-----------------------------------------------------------------------------

(* A load waits for the guest it launches, and removes it if it gives up. *)
LEMMA BootStep ==
  ASSUME Base, Steady, BootAwaited, NEW t \in Threads, Step(t)
  PROVE  BootAwaited'
<1>0. /\ pc[t] \in HoldsSession => Sub(t) \in Subdirs
      /\ pc[t] \in StartLabels => tgt[t] \in Subdirs
  BY SubKnown
<1> USE SessionsAssumption DEF CallInv, TypeOK, LocalsInv, HasTarget,
        LockInv, InLoad, LoadReturn, Pos, HoldsSession, HoldsCurrent,
        Unbound, Sessionless, Found, StatusLabels, StartLabels, StopLabels,
        QueryLabels, ReturnLabels, Ops, registry, process, locals, callVars,
        HostTypeOK, Phases, hostVars, OwnerInv, LoaderInv, AloneInv, Base
<1> USE <1>0 DEF BootAwaited, Steady, Truthful
<1>1. CASE Query(t)
  BY <1>1 DEF Query
<1>2. CASE MarkDead(t)
  BY <1>2 DEF MarkDead
<1>3. CASE Reap(t)
  BY <1>3 DEF Reap, Rm
<1>4. CASE StatusInspect(t)
  BY <1>4 DEF StatusInspect
<1>5. CASE StatusRpc(t)
  BY <1>5 DEF StatusRpc
<1>6. CASE StatusRetry(t)
  BY <1>6 DEF StatusRetry
<1>7. CASE AskStop(t)
  BY <1>7 DEF AskStop, Raise, DeliverStop
<1>8. CASE Join(t)
  BY <1>8 DEF Join, Raise
<1>9. CASE JoinRm(t)
  BY <1>9 DEF JoinRm, Rm
<1>10. CASE JoinEnd(t)
  BY <1>10 DEF JoinEnd, AfterJoin, Raise
<1>11. CASE JoinMark(t)
  BY <1>11 DEF JoinMark, AfterJoin
<1>12. CASE LoadLock(t)
  BY <1>12 DEF LoadLock
<1>13. CASE LoadCurrent(t)
  BY <1>13 DEF LoadCurrent
<1>14. CASE LoadStopped(t)
  BY <1>14 DEF LoadStopped
<1>15. CASE StartInspect(t)
  BY <1>15 DEF StartInspect
<1>16. CASE StartRm(t)
  BY <1>16 DEF StartRm, Rm
<1>17. CASE StartRun(t)
  BY <1>17 DEF StartRun, Launch
<1>18. CASE StartReady(t)
  BY <1>18 DEF StartReady
<1>19. CASE StartAbort(t)
  BY <1>19 DEF StartAbort, Rm
<1>20. CASE Register(t)
  BY <1>20 DEF Register, Unreachable
<1>21. CASE CurrentGet(t)
  BY <1>21 DEF CurrentGet
<1>22. CASE CurrentChecked(t)
  BY <1>22 DEF CurrentChecked
<1>23. CASE RequireGet(t)
  BY <1>23 DEF RequireGet
<1>24. CASE RequireChecked(t)
  BY <1>24 DEF RequireChecked
<1>25. CASE Rpc(t)
  BY <1>25 DEF Rpc, Execute
<1>26. CASE StopGet(t)
  BY <1>26 DEF StopGet, StopReturn, StopSub
<1>27. CASE StopChecked(t)
  BY <1>27 DEF StopChecked, StopReturn
<1>28. CASE StopEnd(t)
  BY <1>28 DEF StopEnd, StopReturn
<1>29. CASE ResetGet(t)
  BY <1>29 DEF ResetGet
<1>30. CASE ResetCurrent(t)
  BY <1>30 DEF ResetCurrent
<1>31. CASE ResetBack(t)
  BY <1>31 DEF ResetBack
<1>32. CASE ResetStopped(t)
  BY <1>32 DEF ResetStopped
<1>33. CASE ResetUnlink(t)
  BY <1>33 DEF ResetUnlink, UnlinkSnapshot
<1>34. CASE ShutdownNext(t)
  BY <1>34 DEF ShutdownNext
<1>35. CASE ShutdownChecked(t)
  BY <1>35 DEF ShutdownChecked
<1>36. CASE Answer(t)
  BY <1>36 DEF Answer
<1> QED
  BY <1>1, <1>2, <1>3, <1>4, <1>5, <1>6, <1>7, <1>8, <1>9, <1>10, <1>11,
     <1>12, <1>13, <1>14, <1>15, <1>16, <1>17, <1>18, <1>19, <1>20, <1>21,
     <1>22, <1>23, <1>24, <1>25, <1>26, <1>27, <1>28, <1>29, <1>30, <1>31,
     <1>32, <1>33, <1>34, <1>35, <1>36
     DEF Step, StopSteps, StartSteps

(* A step that starts and marks nothing keeps what is dead removed. *)
LEMMA DeadGoneKept ==
  ASSUME Base, DeadGone, NEW t \in Threads, Step(t), UNCHANGED registry,
         \A d \in Subdirs : con[d] = "none" => con'[d] = "none",
         pc[t] = "reap" => con'[Sub(t)] = "none",
         pc[t] \in {"start_ready", "start_abort", "register"} =>
           \/ con'[tgt[t]] = "none"
           \/ /\ pc'[t] \in {"start_ready", "start_abort", "register"}
              /\ tgt'[t] = tgt[t]
  PROVE  DeadGone'
<1> SUFFICES ASSUME NEW e \in Emails, byEmail[e] # None, dead[byEmail[e]]
             PROVE  \/ con'[subOf[byEmail[e]]] = "none"
                    \/ \E s \in Threads : pc'[s] = "reap" /\ sess'[s] = byEmail[e]
                    \/ \E s \in Threads :
                         /\ pc'[s] \in {"start_ready", "start_abort", "register"}
                         /\ tgt'[s] = subOf[byEmail[e]]
  BY DEF DeadGone, registry
<1>1. CASE con[subOf[byEmail[e]]] = "none"
  <2>1. subOf[byEmail[e]] \in Subdirs
    BY DEF Base, OwnerInv
  <2> QED
    BY <1>1, <2>1
<1>2. ASSUME NEW s \in Threads, pc[s] = "reap", sess[s] = byEmail[e]
      PROVE  \/ con'[subOf[byEmail[e]]] = "none"
             \/ pc'[s] = "reap" /\ sess'[s] = byEmail[e]
  BY <1>2, StepFrame DEF Base
<1>3. ASSUME NEW s \in Threads,
             pc[s] \in {"start_ready", "start_abort", "register"},
             tgt[s] = subOf[byEmail[e]]
      PROVE  \/ con'[subOf[byEmail[e]]] = "none"
             \/ /\ pc'[s] \in {"start_ready", "start_abort", "register"}
                /\ tgt'[s] = subOf[byEmail[e]]
  BY <1>3, StepFrame DEF Base
<1> QED
  BY <1>1, <1>2, <1>3 DEF DeadGone

(* A session is marked dead before its container is removed, by one call. *)
LEMMA DeadGoneStep ==
  ASSUME Base, Steady, DeadGone, NEW t \in Threads, SeesGone(t), Step(t)
  PROVE  DeadGone'
<1>0. /\ pc[t] \in HoldsSession => Sub(t) \in Subdirs
      /\ pc[t] \in StartLabels => tgt[t] \in Subdirs
  BY SubKnown
<1>K. ASSUME /\ UNCHANGED registry
             /\ \A d \in Subdirs : con[d] = "none" => con'[d] = "none"
             /\ pc[t] = "reap" => con'[Sub(t)] = "none"
             /\ pc[t] \in {"start_ready", "start_abort", "register"} =>
                  \/ con'[tgt[t]] = "none"
                  \/ /\ pc'[t] \in {"start_ready", "start_abort", "register"}
                     /\ tgt'[t] = tgt[t]
      PROVE  DeadGone'
  BY <1>K, DeadGoneKept
<1> USE SessionsAssumption DEF CallInv, TypeOK, LocalsInv, HasTarget,
        LockInv, InLoad, LoadReturn, Pos, HoldsSession, HoldsCurrent,
        Unbound, Sessionless, Found, StatusLabels, StartLabels, StopLabels,
        QueryLabels, ReturnLabels, Ops, registry, process, locals, callVars,
        HostTypeOK, Phases, hostVars, OwnerInv, LoaderInv, AloneInv, Base
<1> USE <1>0 DEF DeadGone, SeesGone, Checked, Steady, Truthful, Up
<1>1. CASE Query(t)
  BY <1>K, <1>1 DEF Query
<1>2. CASE MarkDead(t)
  BY <1>2 DEF MarkDead
<1>3. CASE Reap(t)
  BY <1>K, <1>3 DEF Reap, Rm
<1>4. CASE StatusInspect(t)
  BY <1>K, <1>4 DEF StatusInspect
<1>5. CASE StatusRpc(t)
  BY <1>K, <1>5 DEF StatusRpc
<1>6. CASE StatusRetry(t)
  BY <1>K, <1>6 DEF StatusRetry
<1>7. CASE AskStop(t)
  BY <1>K, <1>7 DEF AskStop, Raise, DeliverStop
<1>8. CASE Join(t)
  BY <1>K, <1>8 DEF Join, Raise
<1>9. CASE JoinRm(t)
  BY <1>K, <1>9 DEF JoinRm, Rm
<1>10. CASE JoinEnd(t)
  BY <1>K, <1>10 DEF JoinEnd, AfterJoin, Raise
<1>11. CASE JoinMark(t)
  BY <1>11 DEF JoinMark, AfterJoin
<1>12. CASE LoadLock(t)
  BY <1>K, <1>12 DEF LoadLock
<1>13. CASE LoadCurrent(t)
  BY <1>K, <1>13 DEF LoadCurrent
<1>14. CASE LoadStopped(t)
  BY <1>K, <1>14 DEF LoadStopped
<1>15. CASE StartInspect(t)
  BY <1>K, <1>15 DEF StartInspect
<1>16. CASE StartRm(t)
  BY <1>K, <1>16 DEF StartRm, Rm
<1>17. CASE StartRun(t)
  BY <1>17 DEF StartRun, Launch
<1>18. CASE StartReady(t)
  BY <1>K, <1>18 DEF StartReady
<1>19. CASE StartAbort(t)
  BY <1>K, <1>19 DEF StartAbort, Rm
<1>20. CASE Register(t)
  <2>1. PICK n \in Sessions :
          /\ Unreachable(n)
          /\ subOf' = [subOf EXCEPT ![n] = tgt[t]]
          /\ dead' = [dead EXCEPT ![n] = FALSE]
          /\ byEmail' = [byEmail EXCEPT ![who[t]] = n]
    BY <1>20 DEF Register
  <2> SUFFICES ASSUME NEW e \in Emails, byEmail'[e] # None, dead'[byEmail'[e]]
               PROVE  \/ con'[subOf'[byEmail'[e]]] = "none"
                      \/ \E s \in Threads : pc'[s] = "reap" /\ sess'[s] = byEmail'[e]
                      \/ \E s \in Threads :
                           /\ pc'[s] \in {"start_ready", "start_abort", "register"}
                           /\ tgt'[s] = subOf'[byEmail'[e]]
    BY DEF DeadGone
  <2>2. e # who[t]
    BY <2>1, <1>20 DEF Register
  <2>3. /\ byEmail'[e] = byEmail[e]
        /\ subOf'[byEmail[e]] = subOf[byEmail[e]]
        /\ dead[byEmail[e]]
    BY <2>1, <2>2 DEF Unreachable
  <2>4. CASE con[subOf[byEmail[e]]] = "none"
    BY <2>3, <2>4, <1>20 DEF Register
  <2>5. ASSUME NEW s \in Threads, pc[s] = "reap", sess[s] = byEmail[e]
        PROVE  pc'[s] = "reap" /\ sess'[s] = byEmail[e]
    BY <2>5, <1>20 DEF Register
  <2>6. ASSUME NEW s \in Threads,
               pc[s] \in {"start_ready", "start_abort", "register"},
               tgt[s] = subOf[byEmail[e]]
        PROVE  /\ pc'[s] \in {"start_ready", "start_abort", "register"}
               /\ tgt'[s] = subOf[byEmail[e]]
    <3>1. s # t
      BY <2>2, <2>3, <2>6, <1>20 DEF Register
    <3> QED
      BY <2>6, <3>1, <1>20 DEF Register
  <2> QED
    BY <2>3, <2>4, <2>5, <2>6
<1>21. CASE CurrentGet(t)
  BY <1>K, <1>21 DEF CurrentGet
<1>22. CASE CurrentChecked(t)
  BY <1>K, <1>22 DEF CurrentChecked
<1>23. CASE RequireGet(t)
  BY <1>K, <1>23 DEF RequireGet
<1>24. CASE RequireChecked(t)
  BY <1>K, <1>24 DEF RequireChecked
<1>25. CASE Rpc(t)
  BY <1>K, <1>25 DEF Rpc, Execute
<1>26. CASE StopGet(t)
  BY <1>K, <1>26 DEF StopGet, StopReturn, StopSub
<1>27. CASE StopChecked(t)
  BY <1>K, <1>27 DEF StopChecked, StopReturn
<1>28. CASE StopEnd(t)
  BY <1>K, <1>28 DEF StopEnd, StopReturn
<1>29. CASE ResetGet(t)
  BY <1>K, <1>29 DEF ResetGet
<1>30. CASE ResetCurrent(t)
  BY <1>K, <1>30 DEF ResetCurrent
<1>31. CASE ResetBack(t)
  BY <1>K, <1>31 DEF ResetBack
<1>32. CASE ResetStopped(t)
  BY <1>K, <1>32 DEF ResetStopped
<1>33. CASE ResetUnlink(t)
  BY <1>K, <1>33 DEF ResetUnlink, UnlinkSnapshot
<1>34. CASE ShutdownNext(t)
  BY <1>K, <1>34 DEF ShutdownNext
<1>35. CASE ShutdownChecked(t)
  BY <1>K, <1>35 DEF ShutdownChecked
<1>36. CASE Answer(t)
  BY <1>K, <1>36 DEF Answer
<1> QED
  BY <1>1, <1>2, <1>3, <1>4, <1>5, <1>6, <1>7, <1>8, <1>9, <1>10, <1>11,
     <1>12, <1>13, <1>14, <1>15, <1>16, <1>17, <1>18, <1>19, <1>20, <1>21,
     <1>22, <1>23, <1>24, <1>25, <1>26, <1>27, <1>28, <1>29, <1>30, <1>31,
     <1>32, <1>33, <1>34, <1>35, <1>36
     DEF Step, StopSteps, StartSteps

(* Nobody removes, or starts, a game behind the back of its user's call. *)
LEMMA UserAlone ==
  ASSUME Base, OneCallPerUser, NEW t \in Threads, pc[t] \in HoldsSession,
         op[t] # "shutdown"
  PROVE  /\ \A s \in Threads : pc[s] = "reap" /\ sess[s] = sess[t] => s = t
         /\ \A s \in Threads : pc[s] \in StartLabels => tgt[s] # Sub(t)
<1>1. pc[t] # "idle" /\ who[t] \in Emails /\ Owner[Sub(t)] = who[t]
  BY SubKnown
     DEF Base, AloneInv, HoldsSession, QueryLabels, StopLabels, StatusLabels,
         ReturnLabels
<1>2. ASSUME NEW s \in Threads, pc[s] = "reap", sess[s] = sess[t], s # t
      PROVE  FALSE
  <2>1. op[s] # "shutdown"
    BY <1>1, <1>2 DEF Base, AloneInv
  <2>2. Owner[Sub(s)] = who[s] /\ Sub(s) = Sub(t)
    BY <1>2, <2>1, SubKnown DEF HoldsSession, QueryLabels
  <2> QED
    BY <1>1, <1>2, <2>2 DEF OneCallPerUser
<1>3. ASSUME NEW s \in Threads, pc[s] \in StartLabels, tgt[s] = Sub(t)
      PROVE  FALSE
  <2>1. s # t
    BY <1>3 DEF StartLabels, HoldsSession, QueryLabels, StopLabels,
                StatusLabels, ReturnLabels
  <2>2. Owner[tgt[s]] = who[s] /\ pc[s] # "idle"
    BY <1>3, SubKnown DEF StartLabels
  <2> QED
    BY <1>1, <1>3, <2>1, <2>2 DEF OneCallPerUser
<1> QED
  BY <1>2, <1>3

(* What a call sees down has been removed. *)
LEMMA SeesGoneStep ==
  ASSUME Base, Steady, OneCallPerUser, DeadGone, NEW t \in Threads,
         OwnSession(t), SeesDown(t), SeesGone(t), Step(t)
  PROVE  SeesGone(t)'
<1>0. /\ pc[t] \in HoldsSession => Sub(t) \in Subdirs
      /\ pc[t] \in HoldsSession /\ op[t] # "shutdown" =>
           /\ \A s \in Threads : pc[s] = "reap" /\ sess[s] = sess[t] => s = t
           /\ \A s \in Threads : pc[s] \in StartLabels => tgt[s] # Sub(t)
  BY SubKnown, UserAlone
<1> USE SessionsAssumption DEF CallInv, TypeOK, LocalsInv, HasTarget,
        LockInv, InLoad, LoadReturn, Pos, HoldsSession, HoldsCurrent,
        Unbound, Sessionless, Found, StatusLabels, StartLabels, StopLabels,
        QueryLabels, ReturnLabels, Ops, registry, process, locals, callVars,
        HostTypeOK, Phases, hostVars, OwnerInv, LoaderInv, AloneInv, Base
<1> USE <1>0 DEF DeadGone, SeesGone, SeesDown, OwnSession, Checked, Steady,
        Truthful, Up, SeemsDown
<1>1. CASE Query(t)
  BY <1>1 DEF Query
<1>2. CASE MarkDead(t)
  BY <1>2 DEF MarkDead
<1>3. CASE Reap(t)
  BY <1>3 DEF Reap, Rm
<1>4. CASE StatusInspect(t)
  BY <1>4 DEF StatusInspect
<1>5. CASE StatusRpc(t)
  BY <1>5 DEF StatusRpc
<1>6. CASE StatusRetry(t)
  BY <1>6 DEF StatusRetry
<1>7. CASE AskStop(t)
  BY <1>7 DEF AskStop, Raise, DeliverStop
<1>8. CASE Join(t)
  BY <1>8 DEF Join, Raise
<1>9. CASE JoinRm(t)
  BY <1>9 DEF JoinRm, Rm
<1>10. CASE JoinEnd(t)
  BY <1>10 DEF JoinEnd, AfterJoin, Raise
<1>11. CASE JoinMark(t)
  BY <1>11 DEF JoinMark, AfterJoin
<1>12. CASE LoadLock(t)
  BY <1>12 DEF LoadLock
<1>13. CASE LoadCurrent(t)
  BY <1>13 DEF LoadCurrent
<1>14. CASE LoadStopped(t)
  BY <1>14 DEF LoadStopped
<1>15. CASE StartInspect(t)
  BY <1>15 DEF StartInspect
<1>16. CASE StartRm(t)
  BY <1>16 DEF StartRm, Rm
<1>17. CASE StartRun(t)
  BY <1>17 DEF StartRun, Launch
<1>18. CASE StartReady(t)
  BY <1>18 DEF StartReady
<1>19. CASE StartAbort(t)
  BY <1>19 DEF StartAbort, Rm
<1>20. CASE Register(t)
  BY <1>20 DEF Register, Unreachable
<1>21. CASE CurrentGet(t)
  BY <1>21 DEF CurrentGet
<1>22. CASE CurrentChecked(t)
  BY <1>22 DEF CurrentChecked
<1>23. CASE RequireGet(t)
  BY <1>23 DEF RequireGet
<1>24. CASE RequireChecked(t)
  BY <1>24 DEF RequireChecked
<1>25. CASE Rpc(t)
  BY <1>25 DEF Rpc, Execute
<1>26. CASE StopGet(t)
  BY <1>26 DEF StopGet, StopReturn, StopSub
<1>27. CASE StopChecked(t)
  BY <1>27 DEF StopChecked, StopReturn
<1>28. CASE StopEnd(t)
  BY <1>28 DEF StopEnd, StopReturn
<1>29. CASE ResetGet(t)
  BY <1>29 DEF ResetGet
<1>30. CASE ResetCurrent(t)
  BY <1>30 DEF ResetCurrent
<1>31. CASE ResetBack(t)
  BY <1>31 DEF ResetBack
<1>32. CASE ResetStopped(t)
  BY <1>32 DEF ResetStopped
<1>33. CASE ResetUnlink(t)
  BY <1>33 DEF ResetUnlink, UnlinkSnapshot
<1>34. CASE ShutdownNext(t)
  BY <1>34 DEF ShutdownNext
<1>35. CASE ShutdownChecked(t)
  BY <1>35 DEF ShutdownChecked
<1>36. CASE Answer(t)
  BY <1>36 DEF Answer
<1> QED
  BY <1>1, <1>2, <1>3, <1>4, <1>5, <1>6, <1>7, <1>8, <1>9, <1>10, <1>11,
     <1>12, <1>13, <1>14, <1>15, <1>16, <1>17, <1>18, <1>19, <1>20, <1>21,
     <1>22, <1>23, <1>24, <1>25, <1>26, <1>27, <1>28, <1>29, <1>30, <1>31,
     <1>32, <1>33, <1>34, <1>35, <1>36
     DEF Step, StopSteps, StartSteps

(* A stop that has seen the game running waits for its snapshot. *)
LEMMA StoppingStep ==
  ASSUME Base, Faultless, OneCallPerUser, BootAwaited, NEW t \in Threads,
         OwnSession(t), ReapsDown(t), SeesDown(t), SeesGone(t), Stopping(t),
         Step(t)
  PROVE  Stopping(t)'
<1>0. /\ pc[t] \in HoldsSession => Sub(t) \in Subdirs
      /\ pc[t] \in HoldsSession /\ op[t] # "shutdown" =>
           con[Sub(t)] # "booting"
  BY SubKnown, UserAlone DEF BootAwaited, StartLabels
<1> USE SessionsAssumption DEF CallInv, TypeOK, LocalsInv, HasTarget,
        LockInv, InLoad, LoadReturn, Pos, HoldsSession, HoldsCurrent,
        Unbound, Sessionless, Found, StatusLabels, StartLabels, StopLabels,
        QueryLabels, ReturnLabels, Ops, registry, process, locals, callVars,
        HostTypeOK, Phases, hostVars, OwnerInv, LoaderInv, AloneInv, Base
<1> USE <1>0 DEF Faultless, Careful, Steady, Truthful, OwnSession, ReapsDown,
        SeesDown, SeesGone, Stopping, Checked, OpInv, Up, SeemsDown
<1>1. CASE Query(t)
  BY <1>1 DEF Query
<1>2. CASE MarkDead(t)
  BY <1>2 DEF MarkDead
<1>3. CASE Reap(t)
  BY <1>3 DEF Reap, Rm
<1>4. CASE StatusInspect(t)
  BY <1>4 DEF StatusInspect
<1>5. CASE StatusRpc(t)
  BY <1>5 DEF StatusRpc
<1>6. CASE StatusRetry(t)
  BY <1>6 DEF StatusRetry
<1>7. CASE AskStop(t)
  BY <1>7 DEF AskStop, Raise, DeliverStop
<1>8. CASE Join(t)
  BY <1>8 DEF Join, Raise, Deadline
<1>9. CASE JoinRm(t)
  BY <1>9 DEF JoinRm, Rm
<1>10. CASE JoinEnd(t)
  BY <1>10 DEF JoinEnd, AfterJoin, Raise
<1>11. CASE JoinMark(t)
  BY <1>11 DEF JoinMark, AfterJoin
<1>12. CASE LoadLock(t)
  BY <1>12 DEF LoadLock
<1>13. CASE LoadCurrent(t)
  BY <1>13 DEF LoadCurrent
<1>14. CASE LoadStopped(t)
  BY <1>14 DEF LoadStopped
<1>15. CASE StartInspect(t)
  BY <1>15 DEF StartInspect
<1>16. CASE StartRm(t)
  BY <1>16 DEF StartRm, Rm
<1>17. CASE StartRun(t)
  BY <1>17 DEF StartRun, Launch
<1>18. CASE StartReady(t)
  BY <1>18 DEF StartReady
<1>19. CASE StartAbort(t)
  BY <1>19 DEF StartAbort, Rm
<1>20. CASE Register(t)
  BY <1>20 DEF Register, Unreachable
<1>21. CASE CurrentGet(t)
  BY <1>21 DEF CurrentGet
<1>22. CASE CurrentChecked(t)
  BY <1>22 DEF CurrentChecked
<1>23. CASE RequireGet(t)
  BY <1>23 DEF RequireGet
<1>24. CASE RequireChecked(t)
  BY <1>24 DEF RequireChecked
<1>25. CASE Rpc(t)
  BY <1>25 DEF Rpc, Execute
<1>26. CASE StopGet(t)
  BY <1>26 DEF StopGet, StopReturn, StopSub
<1>27. CASE StopChecked(t)
  BY <1>27 DEF StopChecked, StopReturn
<1>28. CASE StopEnd(t)
  BY <1>28 DEF StopEnd, StopReturn
<1>29. CASE ResetGet(t)
  BY <1>29 DEF ResetGet
<1>30. CASE ResetCurrent(t)
  BY <1>30 DEF ResetCurrent
<1>31. CASE ResetBack(t)
  BY <1>31 DEF ResetBack
<1>32. CASE ResetStopped(t)
  BY <1>32 DEF ResetStopped
<1>33. CASE ResetUnlink(t)
  BY <1>33 DEF ResetUnlink, UnlinkSnapshot
<1>34. CASE ShutdownNext(t)
  BY <1>34 DEF ShutdownNext
<1>35. CASE ShutdownChecked(t)
  BY <1>35 DEF ShutdownChecked
<1>36. CASE Answer(t)
  BY <1>36 DEF Answer
<1> QED
  BY <1>1, <1>2, <1>3, <1>4, <1>5, <1>6, <1>7, <1>8, <1>9, <1>10, <1>11,
     <1>12, <1>13, <1>14, <1>15, <1>16, <1>17, <1>18, <1>19, <1>20, <1>21,
     <1>22, <1>23, <1>24, <1>25, <1>26, <1>27, <1>28, <1>29, <1>30, <1>31,
     <1>32, <1>33, <1>34, <1>35, <1>36
     DEF Step, StopSteps, StartSteps

(* Arrivals and guests keep all of this; a guest that is not cut short saves *)
(* before it exits.                                                          *)
LEMMA FaultlessOthers ==
  ASSUME Base, OneCallPerUser, Faultless, BootAwaited, DeadGone,
         \A t \in Threads : SeesGone(t) /\ Stopping(t), Others, restarts' = 0
  PROVE  BootAwaited' /\ DeadGone' /\ \A t \in Threads : SeesGone(t)' /\ Stopping(t)'
<1>0. \A t \in Threads : pc[t] \in HoldsSession => Sub(t) \in Subdirs
  BY SubKnown
<1>9. ASSUME NEW t \in Threads, pc[t] \in {"join", "join_rm"}, op[t] = "stop"
      PROVE  con[Sub(t)] # "booting"
  <2>1. pc[t] \in HoldsSession /\ op[t] # "shutdown"
    BY <1>9 DEF HoldsSession, QueryLabels, StopLabels, StatusLabels, ReturnLabels
  <2> QED
    BY <1>0, <2>1, UserAlone DEF BootAwaited, StartLabels
<1> USE SessionsAssumption DEF CallInv, TypeOK, LocalsInv, HasTarget,
        LockInv, InLoad, LoadReturn, Pos, HoldsSession, HoldsCurrent,
        Unbound, Sessionless, Found, StatusLabels, StartLabels, StopLabels,
        QueryLabels, ReturnLabels, Ops, registry, process, locals, callVars,
        HostTypeOK, Phases, hostVars, OwnerInv, LoaderInv, AloneInv, Base
<1> USE <1>0 DEF BootAwaited, DeadGone, SeesGone, Stopping, Checked, OpInv, Up
<1>1. ASSUME NEW s \in Threads, Begin(s)
      PROVE  BootAwaited' /\ DeadGone' /\ \A t \in Threads : SeesGone(t)' /\ Stopping(t)'
  <2>1. BootAwaited'
    BY <1>1 DEF Begin
  <2>2. DeadGone'
    BY <1>1 DEF Begin
  <2>3. \A t \in Threads : SeesGone(t)'
    BY <1>1 DEF Begin
  <2>4. \A t \in Threads : Stopping(t)'
    BY <1>1 DEF Begin
  <2> QED
    BY <2>1, <2>2, <2>3, <2>4
<1>2. ASSUME NEW s \in Threads, BeginShutdown(s)
      PROVE  BootAwaited' /\ DeadGone' /\ \A t \in Threads : SeesGone(t)' /\ Stopping(t)'
  BY <1>2 DEF BeginShutdown, Idle
<1>3. ASSUME NEW d \in Subdirs, GuestStep(d),
             UNCHANGED <<registry, process, locals, lock, pc, ret, up, out>>
      PROVE  BootAwaited' /\ DeadGone' /\ \A t \in Threads : SeesGone(t)' /\ Stopping(t)'
  <2>1. CASE GuestReady(d)
    <3>1. /\ con[d] = "booting" /\ con' = [con EXCEPT ![d] = "live"]
          /\ UNCHANGED <<snap, registry, process, locals, lock, pc, ret, up, out>>
      BY <1>3, <2>1 DEF GuestReady
    <3>2. \A t \in Threads : SeesGone(t)'
      BY <3>1
    <3>3. ASSUME NEW t \in Threads PROVE Stopping(t)'
      BY <3>1, <1>9
    <3>4. BootAwaited' /\ DeadGone'
      BY <3>1
    <3> QED
      BY <3>2, <3>3, <3>4
  <2>2. CASE IdleTimeout(d)
    BY <1>3, <2>2 DEF IdleTimeout
  <2>3. CASE GuestClose(d)
    BY <1>3, <2>3 DEF GuestClose
  <2>4. ~GuestCrash(d)
    BY DEF GuestCrash, Faultless
  <2> QED
    BY <1>3, <2>1, <2>2, <2>3, <2>4 DEF GuestStep
<1>4. ~Restart
  BY DEF Restart
<1>5. CASE UNCHANGED vars
  BY <1>5 DEF vars
<1> QED
  BY <1>1, <1>2, <1>3, <1>4, <1>5 DEF Others, GuestSteps

(* Calls of other users do not interfere. *)
LEMMA StoppingElsewhere ==
  ASSUME Base, OneCallPerUser, NEW t \in Threads, SeesGone(t), Stopping(t),
         NEW s \in Threads, s # t, Step(s)
  PROVE  SeesGone(t)' /\ Stopping(t)'
<1>1. CASE pc[t] = "idle"
  <2>1. pc'[t] = "idle" /\ op'[t] = None
    BY <1>1, StepFrame DEF Base, AloneInv
  <2> QED
    BY <2>1, SessionsAssumption DEF SeesGone, Stopping, Checked, Ops
<1>2. CASE pc[t] # "idle"
  <2>0. op[t] # "shutdown" /\ who[t] \in Emails
    BY <1>2, StepFrame DEF Base, AloneInv
  <2>1. /\ pc[t] \in HoldsSession =>
             UNCHANGED <<Sub(t), con[Sub(t)], snap[Sub(t)]>>
        /\ UNCHANGED <<pc[t], ret[t], up[t], out[t], op[t], tgt[t]>>
    BY <1>2, <2>0, Elsewhere, SubKnown DEF Base
  <2>2. tgt[t] \in Subdirs => UNCHANGED <<con[tgt[t]], snap[tgt[t]]>>
    <3>1. ASSUME tgt[t] \in Subdirs PROVE Owner[tgt[t]] = who[t]
      BY <2>0, <3>1, SessionsAssumption DEF Base, OwnerInv
    <3> QED
      BY <1>2, <3>1, Elsewhere DEF Base
  <2>3. Pos(t) \in {"stop_checked", "stop_end"} => pc[t] \in HoldsSession
    BY DEF Pos, HoldsSession, ReturnLabels
  <2> QED
    BY <2>1, <2>2, <2>3
       DEF SeesGone, Stopping, Checked, HoldsSession, ReturnLabels, StopLabels,
           Pos, Up
<1> QED
  BY <1>1, <1>2

(* The invariant of a faultless deployment before its first restart. *)
Faultlessly ==
  /\ BootAwaited
  /\ DeadGone
  /\ \A t \in Threads : SeesGone(t) /\ Stopping(t)

LEMMA FaultlesslyNext ==
  ASSUME Faultless, OneUser,
         restarts = 0 => \A t \in Threads : SeesDown(t) /\ Resetting(t),
         restarts = 0 => Faultlessly, [Next]_vars, restarts' = 0
  PROVE  Faultlessly'
<1>0. Steady
  BY DEF Faultless
<1>1. Base /\ OneCallPerUser /\ \A t \in Threads : OwnSession(t) /\ ReapsDown(t)
  BY DEF OneUser
<1>2. Faultlessly /\ \A t \in Threads : SeesDown(t)
  BY <1>1, FirstLife DEF Base
<1>3. CASE Others
  BY <1>1, <1>2, <1>3, FaultlessOthers DEF Faultlessly
<1>4. ASSUME NEW s \in Threads, Step(s) PROVE Faultlessly'
  <2>1. BootAwaited'
    BY <1>0, <1>1, <1>2, <1>4, BootStep DEF Faultlessly
  <2>2. DeadGone'
    BY <1>0, <1>1, <1>2, <1>4, DeadGoneStep DEF Faultlessly
  <2>3. SeesGone(s)' /\ Stopping(s)'
    BY <1>0, <1>1, <1>2, <1>4, SeesGoneStep, StoppingStep DEF Faultlessly
  <2>4. ASSUME NEW t \in Threads, t # s PROVE SeesGone(t)' /\ Stopping(t)'
    BY <1>1, <1>2, <1>4, <2>4, StoppingElsewhere DEF Faultlessly
  <2> QED
    BY <2>1, <2>2, <2>3, <2>4 DEF Faultlessly
<1> QED
  BY <1>3, <1>4, Split

(* A stop that reports success leaves the snapshot on disk and no container   *)
(* behind, if nothing fails and the calls of each user come one at a time.    *)
THEOREM StopSaves ==
  ASSUME Faultless PROVE Spec /\ []OneCallPerUser => []StopLeavesSnapshot
<1>0. Steady /\ Truthful
  BY DEF Faultless, Steady
<1>1. Init => Faultlessly
  BY SessionsAssumption
     DEF Init, HostInit, Idle, Unset, Faultlessly, BootAwaited, DeadGone,
         SeesGone, Stopping, Checked, Ops
<1>2. /\ OneUser
      /\ restarts = 0 => \A t \in Threads : SeesDown(t) /\ Resetting(t)
      /\ restarts = 0 => Faultlessly
      /\ [Next]_vars
      => (restarts = 0 => Faultlessly)'
  BY Faultless, FaultlesslyNext
<1>3. (restarts = 0 => Faultlessly) => StopLeavesSnapshot
  BY DEF Faultlessly, Stopping, StopLeavesSnapshot
<1>4. Spec /\ []OneCallPerUser => []OneUser
  BY <1>0, OneUserCorrect
<1>5. Spec /\ []OneCallPerUser
        => [](restarts = 0 => \A t \in Threads : SeesDown(t) /\ Resetting(t))
  BY <1>0, ResettingCorrect
<1> QED
  BY <1>1, <1>2, <1>3, <1>4, <1>5, PTL DEF Spec
=============================================================================
