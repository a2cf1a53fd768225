----------------------------- MODULE OAuthProofs -----------------------------
(***************************************************************************)
(* Theorems about OAuth for any numbers of clients, users, sites, requests *)
(* and restarts.                                                           *)
(***************************************************************************)
EXTENDS OAuth, TLAPS

(* While a grant has a page, or a request that has popped one, nothing but *)
(* pages has been made of it.                                              *)
AtPage(g) ==
  \/ \E p \in pending : Grant(p) = g
  \/ \E t \in Threads : Holds(t, g)

PageInv == \A k \in Ids : AtPage(Grant(k)) => Kind(k) = "consent"

(* What was late on arrival is still late. *)
LateInv ==
  \A t \in Threads : ~early[t] =>
    /\ pc[t] = "take_pending" => Grant(key[t]) \in late
    /\ pc[t] \in {"resource", "load"} => key[t] \in late

GivenInv == \A k \in Ids : Kind(k) # "consent" => minted[k].email \in Emails

IInv ==
  /\ TypeOK /\ ArgsInv /\ HoldInv /\ OneLivePerGrant
  /\ PageInv /\ LateInv /\ GivenInv /\ TokensBound /\ RedeemedInTime

LEMMA Appended ==
  ASSUME NEW S, NEW s \in Seq(S), NEW r \in S
  PROVE  /\ Append(s, r) \in Seq(S)
         /\ Len(Append(s, r)) = Len(s) + 1
         /\ DOMAIN Append(s, r) = DOMAIN s \cup {Len(s) + 1}
         /\ Len(s) + 1 \notin DOMAIN s
         /\ \A k \in DOMAIN s : Append(s, r)[k] = s[k]
         /\ Append(s, r)[Len(s) + 1] = r
OBVIOUS

LEMMA GrantIds == ASSUME TypeOK PROVE \A k \in Ids : Grant(k) \in Ids
BY DEF TypeOK, Ids

LEMMA LiveIds == ASSUME TypeOK PROVE Live \subseteq Ids
BY DEF TypeOK, Live

LEMMA InitIInv == Init => IInv
<1> SUFFICES ASSUME Init PROVE IInv
  OBVIOUS
<1> USE OAuthAssumption DEF Init, OAuthAssumption
<1>1. Ids = {}
  BY DEF Ids
<1>2. TypeOK
  BY <1>1 DEF TypeOK, Labels, Answers, Ids
<1>3. ArgsInv /\ HoldInv /\ LateInv /\ RedeemedInTime
  BY <1>1 DEF ArgsInv, HoldInv, LateInv, RedeemedInTime, Holding, Live, Holds
<1>4. OneLivePerGrant /\ PageInv /\ GivenInv /\ TokensBound
  BY <1>1 DEF OneLivePerGrant, Live, PageInv, GivenInv, TokensBound
<1> QED BY <1>2, <1>3, <1>4 DEF IInv

(* Registration, the passing of time, a restart, and nothing at all. *)
LEMMA RestKeeps ==
  ASSUME IInv, Register \/ Expire \/ Restart \/ UNCHANGED vars
  PROVE  IInv'
<1>1. CASE Register
  BY <1>1
     DEF Register, IInv, TypeOK, ArgsInv, HoldInv, OneLivePerGrant, PageInv,
         AtPage, LateInv, GivenInv, TokensBound, RedeemedInTime, Live, Holds,
         Ids, Kind, Grant, Holding, args
<1>2. CASE Expire
  BY <1>2
     DEF Expire, IInv, TypeOK, ArgsInv, HoldInv, OneLivePerGrant, PageInv,
         AtPage, LateInv, GivenInv, TokensBound, RedeemedInTime, Live, Holds,
         Ids, Kind, Grant, Holding, args, dicts
<1>3. CASE Restart
  <2>1. TypeOK'
    BY <1>3, OAuthAssumption
       DEF Restart, IInv, TypeOK, Ids, Kind, Grant, args, Labels, OAuthAssumption
  <2>2. ArgsInv' /\ HoldInv' /\ LateInv' /\ RedeemedInTime'
    BY <1>3 DEF Restart, IInv, TypeOK, ArgsInv, HoldInv, LateInv, RedeemedInTime,
                Live, Holds, Holding, args
  <2>3. OneLivePerGrant' /\ PageInv' /\ GivenInv' /\ TokensBound'
    BY <1>3 DEF Restart, IInv, OneLivePerGrant, PageInv, AtPage, GivenInv,
                TokensBound, Live, Holds, Holding, Ids, Kind, Grant
  <2> QED BY <2>1, <2>2, <2>3 DEF IInv
<1>4. CASE UNCHANGED vars
  BY <1>4
     DEF vars, IInv, TypeOK, ArgsInv, HoldInv, OneLivePerGrant, PageInv,
         AtPage, LateInv, GivenInv, TokensBound, RedeemedInTime, Live, Holds,
         Ids, Kind, Grant, Holding, args, dicts
<1> QED BY <1>1, <1>2, <1>3, <1>4

(* A request arrives: it holds nothing, and notes what is late. *)
LEMMA CallKeeps ==
  ASSUME IInv, NEW t \in Threads, Call(t)
  PROVE  IInv'
<1> USE DEF Arrive, At, Goto, Ids, Kind, Grant, dicts
<1>1. /\ UNCHANGED <<dicts, minted, late, consented, restarts>>
      /\ \E label \in {"authorize", "take_pending", "resource", "load"} :
           pc' = [pc EXCEPT ![t] = label]
  BY DEF Call, CallAuthorize, CallConsent, CallToken
<1>2. TypeOK'
  <2> SUFFICES /\ left' \in 0..MaxCalls
               /\ key' \in [Threads -> 0..Len(minted)]
               /\ early' \in [Threads -> BOOLEAN]
               /\ who' \in [Threads -> Clients \cup {None}]
               /\ here' \in [Threads -> Sites \cup {None}]
               /\ res' \in [Threads -> Sites \cup {None}]
               /\ typed' \in [Threads -> Answers \cup {None}]
    BY <1>1 DEF IInv, TypeOK, Labels
  <2>1. left' \in 0..MaxCalls
    <3>1. left' = left - 1 /\ left > 0
      BY DEF Call, CallAuthorize, CallConsent, CallToken
    <3> QED BY <3>1, OAuthAssumption DEF IInv, TypeOK, OAuthAssumption
  <2>2. CASE CallAuthorize(t)
    BY <2>1, <2>2 DEF IInv, TypeOK, CallAuthorize
  <2>3. CASE CallConsent(t)
    BY <2>1, <2>3 DEF IInv, TypeOK, CallConsent
  <2>4. CASE CallToken(t)
    BY <2>1, <2>4 DEF IInv, TypeOK, CallToken
  <2> QED BY <2>2, <2>3, <2>4 DEF Call
<1>3. ArgsInv'
  BY DEF IInv, TypeOK, ArgsInv, Call, CallAuthorize, CallConsent, CallToken,
         Holding
<1>4. \A s \in Threads : s # t => pc'[s] = pc[s] /\ key'[s] = key[s]
                                  /\ early'[s] = early[s]
  BY <1>1 DEF IInv, TypeOK, Call, CallAuthorize, CallConsent, CallToken
<1>5. \A s \in Threads, g \in Ids : Holds(s, g)' => Holds(s, g)
  BY <1>1, <1>4 DEF IInv, TypeOK, Holds, Holding
<1>6. HoldInv' /\ OneLivePerGrant' /\ PageInv' /\ GivenInv' /\ TokensBound'
  BY <1>1, <1>5 DEF IInv, TypeOK, HoldInv, OneLivePerGrant, PageInv, AtPage,
                    GivenInv, TokensBound, Live
<1>7. LateInv'
  <2>1. CASE CallAuthorize(t)
    BY <2>1, <1>1, <1>4 DEF IInv, TypeOK, LateInv, CallAuthorize
  <2>2. CASE CallConsent(t)
    <3>1. PICK k \in Ids :
            /\ key' = [key EXCEPT ![t] = k]
            /\ early' = [early EXCEPT ![t] = Grant(k) \notin late]
            /\ pc' = [pc EXCEPT ![t] = "take_pending"]
      BY <2>2 DEF CallConsent
    <3>2. ~early'[t] => Grant(key'[t]) \in late
      BY <3>1 DEF IInv, TypeOK
    <3> QED BY <3>1, <3>2, <1>1, <1>4 DEF IInv, TypeOK, LateInv
  <2>3. CASE CallToken(t)
    <3>1. PICK k \in Ids, label \in {"load", "resource"} :
            /\ key' = [key EXCEPT ![t] = k]
            /\ early' = [early EXCEPT ![t] = k \notin late]
            /\ pc' = [pc EXCEPT ![t] = label]
      BY <2>3 DEF CallToken
    <3>2. ~early'[t] => key'[t] \in late
      BY <3>1 DEF IInv, TypeOK
    <3> QED BY <3>1, <3>2, <1>1, <1>4 DEF IInv, TypeOK, LateInv
  <2> QED BY <2>1, <2>2, <2>3 DEF Call
<1>8. RedeemedInTime'
  BY <1>1, <1>4 DEF IInv, TypeOK, RedeemedInTime, Holding
<1> QED BY <1>2, <1>3, <1>6, <1>7, <1>8 DEF IInv

(* The steps that only look, or pop a page: no value is made. *)
LEMMA LookKeeps ==
  ASSUME IInv, NEW t \in Threads,
         \/ Authorize(t) \/ TakePending(t) \/ Redisplay(t)
         \/ CheckResource(t) \/ Load(t)
  PROVE  IInv'
<1> USE DEF At, Goto, Answered, Ids, Kind, Grant, dicts, args
<1>1. /\ UNCHANGED <<clients, codes, refresh, minted, late, args, consented,
                     left, restarts>>
      /\ pending' \subseteq pending
  BY DEF Authorize, TakePending, Redisplay, CheckResource, Load
<1>2. \E label \in Labels : pc' = [pc EXCEPT ![t] = label]
  BY DEF Authorize, TakePending, Decide, Redisplay, CheckResource, Load, Labels
<1>3. TypeOK'
  BY <1>1, <1>2 DEF IInv, TypeOK
<1>4. \A s \in Threads : s # t => pc'[s] = pc[s]
  BY <1>2 DEF IInv, TypeOK
<1>5. \/ pc'[t] \notin Holding
      \/ pc[t] \in Holding
      \/ /\ pc[t] = "take_pending"
         /\ key[t] \in pending
         /\ pending' = pending \ {key[t]}
         /\ Grant(key[t]) \notin late
  <2>1. CASE TakePending(t)
    <3>1. \/ key[t] \in pending /\ Deadline(key[t]) \notin late
          \/ pc'[t] \notin Holding
      BY <2>1 DEF TakePending, Holding, IInv, TypeOK
    <3>2. pc[t] = "take_pending" /\ pending' = pending \ {key[t]}
      BY <2>1 DEF TakePending
    <3>3. key[t] \in pending => Kind(key[t]) = "consent"
      BY DEF IInv, TypeOK
    <3> QED BY <3>1, <3>2, <3>3 DEF Deadline
  <2>2. CASE Redisplay(t)
    BY <2>2 DEF Redisplay, Holding
  <2>3. CASE Authorize(t) \/ CheckResource(t) \/ Load(t)
    BY <2>3 DEF Authorize, CheckResource, Load, Holding, IInv, TypeOK
  <2> QED BY <2>1, <2>2, <2>3
<1>6. ArgsInv'
  <2>1. CASE TakePending(t)
    BY <2>1, <1>1, <1>4
       DEF TakePending, Decide, IInv, TypeOK, ArgsInv, Holding
  <2>2. CASE Redisplay(t)
    BY <2>2, <1>1, <1>4 DEF Redisplay, IInv, TypeOK, ArgsInv, Holding
  <2>3. CASE Authorize(t) \/ CheckResource(t) \/ Load(t)
    BY <2>3, <1>1, <1>4
       DEF Authorize, CheckResource, Load, IInv, TypeOK, ArgsInv, Holding
  <2> QED BY <2>1, <2>2, <2>3
<1>7. OneLivePerGrant' /\ GivenInv' /\ TokensBound'
  BY <1>1 DEF IInv, OneLivePerGrant, GivenInv, TokensBound, Live
<1>8. \A s \in Threads, g \in Ids : Holds(s, g)' =>
        \/ Holds(s, g)
        \/ s = t /\ key[t] \in pending \ pending' /\ Grant(key[t]) = g
  BY <1>1, <1>4, <1>5 DEF Holds
<1>9. HoldInv'
  <2>1. \A s \in Threads, k \in Live' : ~Holds(s, Grant(k))'
    <3> SUFFICES ASSUME NEW s \in Threads, NEW k \in Live', Holds(s, Grant(k))'
                 PROVE  FALSE
      OBVIOUS
    <3>1. k \in Live /\ k \in Ids /\ Grant(k) \in Ids
      BY <1>1, GrantIds, LiveIds DEF Live, IInv
    <3>2. ~Holds(s, Grant(k))
      BY <3>1 DEF IInv, HoldInv
    <3>3. key[t] \in pending \ pending' /\ Grant(key[t]) = Grant(k)
      BY <1>1, <1>8, <3>1, <3>2
    <3>4. k = key[t]
      BY <3>1, <3>3 DEF IInv, OneLivePerGrant, Live
    <3>5. k \notin codes \cup refresh
      BY <3>3, <3>4 DEF IInv, TypeOK
    <3> QED BY <1>1, <3>3, <3>4, <3>5 DEF Live
  <2>2. \A r, s \in Threads, g \in Ids : Holds(r, g)' /\ Holds(s, g)' => r = s
    BY <1>8 DEF IInv, HoldInv, Live
  <2> QED BY <1>1, <2>1, <2>2 DEF HoldInv
<1>10. PageInv'
  <2>1. \A k \in Ids : AtPage(Grant(k))' => AtPage(Grant(k))
    BY <1>1, <1>8, GrantIds DEF AtPage, IInv
  <2> QED BY <1>1, <2>1 DEF IInv, PageInv
<1>11. LateInv'
  BY <1>1, <1>2, <1>4
     DEF IInv, TypeOK, LateInv, Authorize, TakePending, Decide, Redisplay,
         CheckResource, Load
<1>12. RedeemedInTime'
  <2>1. CASE pc'[t] \in Holding
    BY <2>1, <1>1, <1>4, <1>5
       DEF IInv, TypeOK, LateInv, RedeemedInTime, Holding
  <2>2. CASE pc'[t] = "exchange"
    BY <2>2, <1>1, <1>4
       DEF IInv, TypeOK, LateInv, RedeemedInTime, Authorize, TakePending,
           Decide, Redisplay, CheckResource, Load, Holding
  <2>3. CASE pc'[t] \notin Holding \cup {"exchange"}
    BY <2>3, <1>1, <1>4 DEF IInv, RedeemedInTime
  <2> QED BY <2>1, <2>2, <2>3
<1> QED BY <1>3, <1>6, <1>7, <1>9, <1>10, <1>11, <1>12 DEF IInv

-----------------------------------------------------------------------------
(* A request that makes new values and answers: all that was made before   *)
(* stays as it is, no other request moves, and it holds nothing any more.  *)
Extends(t) ==
  /\ minted' \in Seq(Values)
  /\ Len(minted') \in Len(minted)..MaxMinted
  /\ \A k \in Ids : minted'[k] = minted[k]
  /\ \A k \in Ids' \ Ids : minted'[k].grant \in 1..k
  /\ pc' = [pc EXCEPT ![t] = "idle"]
  /\ UNCHANGED <<clients, late, args, left, restarts>>

LEMMA Frame ==
  ASSUME IInv, NEW t \in Threads, Extends(t)
  PROVE  /\ Ids \subseteq Ids'
         /\ \A k \in Ids : /\ Kind(k)' = Kind(k)
                           /\ Grant(k)' = Grant(k)
                           /\ Grant(k) \in Ids
         /\ \A s \in Threads : \A g : Holds(s, g)' => s # t /\ Holds(s, g) /\ g \in Ids
         /\ ArgsInv' /\ LateInv' /\ RedeemedInTime'
<1> USE DEF Extends
<1>1. Ids \subseteq Ids'
  BY DEF Ids, IInv, TypeOK
<1>2. \A k \in Ids : Kind(k)' = Kind(k) /\ Grant(k)' = Grant(k) /\ Grant(k) \in Ids
  BY GrantIds DEF Kind, Grant, IInv
<1>3. \A s \in Threads : s # t => pc'[s] = pc[s]
  BY DEF IInv, TypeOK
<1>4. pc'[t] = "idle"
  BY DEF IInv, TypeOK
<1>5. \A s \in Threads : pc'[s] \in Holding =>
        s # t /\ pc[s] \in Holding /\ key'[s] = key[s] /\ key[s] \in Ids
  BY <1>3, <1>4 DEF Holding, args, IInv, ArgsInv
<1>6. \A s \in Threads : \A g : Holds(s, g)' => s # t /\ Holds(s, g) /\ g \in Ids
  BY <1>2, <1>5 DEF Holds
<1>7. ArgsInv'
  BY <1>1, <1>2, <1>3, <1>4 DEF IInv, ArgsInv, Holding, args
<1>8. LateInv'
  BY <1>2, <1>3, <1>4 DEF IInv, LateInv, ArgsInv, args
<1>9. RedeemedInTime'
  BY <1>3, <1>4 DEF IInv, RedeemedInTime, Holding, args
<1> QED BY <1>1, <1>2, <1>6, <1>7, <1>8, <1>9

LEMMA FrameType ==
  ASSUME IInv, NEW t \in Threads, Extends(t),
         pending' \subseteq {k \in Ids' : Kind(k)' = "consent"},
         codes' \subseteq {k \in Ids' : Kind(k)' = "code"},
         refresh' \subseteq {k \in Ids' : Kind(k)' = "refresh"},
         consented' \in [1..MaxMinted -> Emails \cup {None}]
  PROVE  TypeOK'
<1> USE DEF Extends, IInv
<1>1. \A k \in Ids' : Grant(k)' \in 1..k
  BY DEF Grant, TypeOK
<1>2. late' \subseteq Ids'
  BY Frame DEF TypeOK
<1>3. pc' \in [Threads -> Labels]
  BY DEF TypeOK, Labels
<1>4. key' \in [Threads -> 0..Len(minted')]
  BY DEF TypeOK, args
<1>5. Len(minted') <= MaxMinted
  BY OAuthAssumption DEF TypeOK, OAuthAssumption
<1> QED BY <1>1, <1>2, <1>3, <1>4, <1>5 DEF TypeOK, args

(* One value n, with record r. *)
LEMMA One ==
  ASSUME IInv, NEW t \in Threads, NEW n, n = New, NEW r \in Values,
         r.grant \in 1..n, Room(1),
         minted' = Append(minted, r),
         pc' = [pc EXCEPT ![t] = "idle"],
         UNCHANGED <<clients, late, args, left, restarts>>
  PROVE  /\ Extends(t)
         /\ Ids' = Ids \cup {n} /\ n \notin Ids
         /\ minted'[n] = r /\ Kind(n)' = r.kind /\ Grant(n)' = r.grant
<1>1. minted \in Seq(Values)
  BY DEF IInv, TypeOK
<1>2. /\ minted' \in Seq(Values)
      /\ Len(minted') = Len(minted) + 1
      /\ Ids' = Ids \cup {n} /\ n \notin Ids
      /\ \A k \in Ids : minted'[k] = minted[k]
      /\ minted'[n] = r
  BY <1>1, Appended DEF Ids, New
<1>3. Len(minted') \in Len(minted)..MaxMinted
  BY <1>1, <1>2, OAuthAssumption DEF Room, OAuthAssumption
<1> QED BY <1>2, <1>3 DEF Extends, Kind, Grant

(* A page: of a new grant, or of the one that t holds. *)
LEMMA PageKeeps ==
  ASSUME IInv, NEW t \in Threads, NEW n, n = New, NEW r \in Values,
         Extends(t),
         Ids' = Ids \cup {n}, n \notin Ids,
         minted'[n] = r, Kind(n)' = r.kind, Grant(n)' = r.grant,
         r.kind = "consent", r.email = None,
         \/ r.grant = n
         \/ /\ Holds(t, r.grant)
            /\ r = minted[key[t]] /\ key[t] \in Ids,
         pending' = pending \cup {n},
         UNCHANGED <<codes, refresh, consented>>
  PROVE  IInv'
<1>1. /\ \A k \in Ids : Kind(k)' = Kind(k) /\ Grant(k)' = Grant(k) /\ Grant(k) \in Ids
      /\ \A s \in Threads : \A g : Holds(s, g)' => s # t /\ Holds(s, g) /\ g \in Ids
      /\ ArgsInv' /\ LateInv' /\ RedeemedInTime'
  BY Frame
<1>2. Live' = Live \cup {n} /\ Live \subseteq Ids
  BY LiveIds DEF Live, IInv
<1>3. TypeOK'
  BY <1>1, FrameType DEF IInv, TypeOK
<1>4. HoldInv'
  BY <1>1, <1>2 DEF IInv, HoldInv
<1>5. OneLivePerGrant'
  BY <1>1, <1>2 DEF IInv, HoldInv, OneLivePerGrant
<1>6. ASSUME NEW k \in Ids, AtPage(Grant(k))' PROVE AtPage(Grant(k))
  <2>1. CASE \E s \in Threads : Holds(s, Grant(k))'
    BY <2>1, <1>1 DEF AtPage
  <2>2. CASE \E p \in pending' : Grant(p)' = Grant(k)'
    <3>1. PICK p \in pending' : Grant(p)' = Grant(k)
      BY <2>2, <1>1
    <3>2. CASE p \in pending
      BY <3>1, <3>2, <1>1 DEF AtPage, IInv, TypeOK
    <3>3. CASE p = n
      BY <3>1, <3>3, <1>1 DEF AtPage
    <3> QED BY <3>1, <3>2, <3>3
  <2> QED BY <1>6, <2>1, <2>2 DEF AtPage
<1>7. PageInv'
  BY <1>1, <1>6 DEF IInv, PageInv
<1>8. GivenInv' /\ TokensBound'
  BY <1>1 DEF IInv, GivenInv, TokensBound, Kind, Grant, Extends
<1> QED BY <1>1, <1>3, <1>4, <1>5, <1>7, <1>8 DEF IInv
LEMMA StorePendingKeeps ==
  ASSUME IInv, NEW t \in Threads, StorePending(t)
  PROVE  IInv'
<1> USE DEF StorePending, At, Answered, Goto
<1>1. New \in Nat /\ New \in 1..New
  BY DEF New, IInv, TypeOK
<1>2. PICK n : n = New
  OBVIOUS
<1>3. PICK r \in Values :
        r = [kind |-> "consent", grant |-> n, client |-> who[t],
             site |-> here[t], email |-> None]
  BY <1>1, <1>2 DEF Values, Kinds, IInv, ArgsInv
<1>4. /\ Extends(t)
      /\ Ids' = Ids \cup {n} /\ n \notin Ids
      /\ minted'[n] = r /\ Kind(n)' = r.kind /\ Grant(n)' = r.grant
  BY <1>1, <1>2, <1>3, One
<1>5. /\ r.kind = "consent" /\ r.email = None /\ r.grant = n
      /\ pending' = pending \cup {n} /\ UNCHANGED <<codes, refresh, consented>>
  BY <1>2, <1>3
<1> HIDE DEF StorePending, At, Answered, Goto
<1> QED BY <1>2, <1>3, <1>4, <1>5, PageKeeps

LEMMA StoreAgainKeeps ==
  ASSUME IInv, NEW t \in Threads, StoreAgain(t)
  PROVE  IInv'
<1> USE DEF StoreAgain, At, Answered, Goto
<1>1. /\ key[t] \in Ids /\ Kind(key[t]) = "consent"
      /\ Grant(key[t]) \in Ids
      /\ Holds(t, Grant(key[t]))
      /\ minted[key[t]] \in Values /\ minted[key[t]].email = None
  <2>1. key[t] \in Ids /\ Kind(key[t]) = "consent"
    BY DEF IInv, ArgsInv, Holding
  <2>2. Grant(key[t]) \in Ids /\ minted[key[t]] \in Values
    BY <2>1, GrantIds DEF IInv, TypeOK, Ids
  <2>3. minted[key[t]].email = None
    BY <2>1 DEF IInv, TokensBound
  <2> QED BY <2>1, <2>2, <2>3 DEF Holding, Holds
<1>2. PICK n : n = New
  OBVIOUS
<1>3. PICK r \in Values : r = minted[key[t]]
  BY <1>1
<1>4. r.kind = "consent" /\ r.email = None /\ r.grant = Grant(key[t])
  BY <1>1, <1>3 DEF Kind, Grant
<1>5. r.grant \in 1..n
  BY <1>1, <1>2, <1>4 DEF New, Ids, IInv, TypeOK
<1>6. /\ Extends(t)
      /\ Ids' = Ids \cup {n} /\ n \notin Ids
      /\ minted'[n] = r /\ Kind(n)' = r.kind /\ Grant(n)' = r.grant
  BY <1>2, <1>3, <1>5, One
<1> QED BY <1>1, <1>2, <1>3, <1>4, <1>6, PageKeeps

(* A code: the first value of its grant that is not a page. *)
LEMMA StoreCodeKeeps ==
  ASSUME IInv, NEW t \in Threads, StoreCode(t)
  PROVE  IInv'
<1>1. /\ key[t] \in Ids /\ Kind(key[t]) = "consent"
      /\ Grant(key[t]) \in Ids
      /\ Holds(t, Grant(key[t]))
      /\ minted[key[t]] \in Values /\ typed[t] \in Emails
  BY GrantIds DEF StoreCode, At, IInv, ArgsInv, Holding, Holds, TypeOK, Ids
<1>2. PICK n : n = New
  OBVIOUS
<1>3. PICK g : g = Grant(key[t])
  OBVIOUS
<1>4. PICK r \in Values :
        /\ r = [minted[key[t]] EXCEPT !.kind = "code", !.email = typed[t]]
        /\ r.kind = "code" /\ r.email = typed[t] /\ r.grant = g
        /\ r.client = minted[key[t]].client /\ r.site = minted[key[t]].site
  <2> DEFINE c == [minted[key[t]] EXCEPT !.kind = "code", !.email = typed[t]]
  <2>1. c \in Values
    BY <1>1 DEF Values, Kinds
  <2>2. /\ c.kind = "code" /\ c.email = typed[t] /\ c.grant = g
        /\ c.client = minted[key[t]].client /\ c.site = minted[key[t]].site
    BY <1>1, <1>3 DEF Values, Grant
  <2> QED BY <2>1, <2>2
<1>5. r.grant \in 1..n
  BY <1>1, <1>2, <1>3, <1>4 DEF New, Ids, IInv, TypeOK
<1>6. /\ Extends(t)
      /\ Ids' = Ids \cup {n} /\ n \notin Ids
      /\ minted'[n] = r /\ Kind(n)' = r.kind /\ Grant(n)' = r.grant
  <2>1. /\ minted' = Append(minted, r) /\ Room(1)
        /\ pc' = [pc EXCEPT ![t] = "idle"]
        /\ UNCHANGED <<clients, late, args, left, restarts>>
    BY <1>4 DEF StoreCode, Answered, Goto
  <2> QED BY <1>2, <1>5, <2>1, One
<1>7. /\ \A k \in Ids : Kind(k)' = Kind(k) /\ Grant(k)' = Grant(k) /\ Grant(k) \in Ids
      /\ \A s \in Threads : \A h : Holds(s, h)' => s # t /\ Holds(s, h) /\ h \in Ids
      /\ ArgsInv' /\ LateInv' /\ RedeemedInTime'
  BY <1>6, Frame
<1>8. codes' = codes \cup {n} /\ UNCHANGED <<pending, refresh>>
  BY <1>2 DEF StoreCode
<1>9. Live' = Live \cup {n} /\ Live \subseteq Ids
  BY <1>8, LiveIds DEF Live, IInv
<1>10. consented' = [consented EXCEPT ![g] = typed[t]]
  BY <1>3 DEF StoreCode
<1>11. TypeOK'
  <2>1. consented' \in [1..MaxMinted -> Emails \cup {None}]
    BY <1>1, <1>10 DEF IInv, TypeOK
  <2> QED BY <1>4, <1>6, <1>7, <1>8, <2>1, FrameType DEF IInv, TypeOK
<1>12. HoldInv'
  BY <1>1, <1>3, <1>4, <1>6, <1>7, <1>9 DEF IInv, HoldInv
<1>13. OneLivePerGrant'
  BY <1>1, <1>3, <1>4, <1>6, <1>7, <1>9 DEF IInv, HoldInv, OneLivePerGrant
<1>14. ASSUME NEW h \in Ids, AtPage(h)' PROVE AtPage(h) /\ h # g
  <2>1. ~AtPage(h)' \/ AtPage(h)
    BY <1>7, <1>8 DEF AtPage, IInv, TypeOK
  <2>2. CASE \E s \in Threads : Holds(s, h)'
    BY <1>1, <1>3, <1>7, <1>14, <2>1, <2>2 DEF IInv, HoldInv
  <2>3. CASE \E p \in pending' : Grant(p)' = h
    <3>1. PICK p \in pending : Grant(p) = h /\ p \in Live
      BY <1>7, <1>8, <2>3 DEF IInv, TypeOK, Live
    <3> QED BY <1>1, <1>3, <1>14, <2>1, <3>1 DEF IInv, HoldInv
  <2> QED BY <1>14, <2>2, <2>3 DEF AtPage
<1>15. PageInv'
  BY <1>1, <1>3, <1>4, <1>6, <1>7, <1>14 DEF IInv, PageInv
<1>16. \A k \in Ids : Grant(k) = g => Kind(k) = "consent"
  BY <1>1, <1>3 DEF IInv, PageInv, AtPage
<1>17. GivenInv' /\ TokensBound'
  <2>2. \A k \in Ids : minted'[k] = minted[k]
    BY <1>6 DEF Extends
  <2>1. GivenInv'
    BY <1>1, <1>4, <1>6, <1>7, <2>2 DEF IInv, GivenInv
  <2>3. /\ minted[g].kind = "consent"
        /\ minted[g].client = r.client /\ minted[g].site = r.site
    BY <1>1, <1>3, <1>4 DEF IInv, TokensBound
  <2>4. consented'[g] = typed[t]
        /\ \A h \in Ids : h # g => consented'[h] = consented[h]
    <3>1. Ids \subseteq 1..MaxMinted
      BY OAuthAssumption DEF IInv, TypeOK, Ids, OAuthAssumption
    <3> QED BY <1>1, <1>3, <1>10, <3>1 DEF IInv, TypeOK
  <2>5. ASSUME NEW k \in Ids'
        PROVE  /\ minted'[Grant(k)'].kind = "consent"
               /\ minted'[k].client = minted'[Grant(k)'].client
               /\ minted'[k].site = minted'[Grant(k)'].site
               /\ minted'[k].email = IF Kind(k)' = "consent" THEN None
                                     ELSE consented'[Grant(k)']
    <3>1. CASE k = n
      BY <1>1, <1>3, <1>4, <1>6, <2>2, <2>3, <2>4, <3>1
    <3>2. CASE k \in Ids /\ Grant(k) = g
      BY <1>7, <1>16, <2>2, <2>4, <3>2 DEF IInv, TokensBound
    <3>3. CASE k \in Ids /\ Grant(k) # g
      BY <1>7, <2>2, <2>4, <3>3 DEF IInv, TokensBound
    <3> QED BY <1>6, <3>1, <3>2, <3>3
  <2>6. TokensBound'
    BY <2>5 DEF TokensBound
  <2> QED BY <2>1, <2>6
<1> QED BY <1>7, <1>11, <1>12, <1>13, <1>15, <1>17 DEF IInv
(* What a lemma about two new values says of their ids and records. *)
Follows(m, n) == m = n + 1
Made(n, r) == minted'[n] = r /\ Kind(n)' = r.kind /\ Grant(n)' = r.grant

(* Two values n and m. *)
LEMMA Two ==
  ASSUME IInv, NEW t \in Threads, NEW n \in Nat, n = New, NEW m \in Nat, Follows(m, n),
         NEW a \in Values, NEW b \in Values,
         a.grant \in 1..n, b.grant \in 1..n, Room(2),
         minted' = Append(Append(minted, a), b),
         pc' = [pc EXCEPT ![t] = "idle"],
         UNCHANGED <<clients, late, args, left, restarts>>
  PROVE  /\ Extends(t)
         /\ Ids' = Ids \cup {n, m} /\ n \notin Ids /\ m \notin Ids /\ n # m
         /\ Made(n, a) /\ Made(m, b)
<1>1. minted \in Seq(Values) /\ Len(minted) \in Nat
  BY DEF IInv, TypeOK
<1>2. PICK s \in Seq(Values) : s = Append(minted, a)
  BY <1>1, Appended
<1>3. /\ Len(s) = Len(minted) + 1 /\ n = Len(s) /\ m = Len(s) + 1
      /\ DOMAIN s = Ids \cup {n} /\ n \notin Ids
      /\ \A k \in Ids : s[k] = minted[k]
      /\ s[n] = a
  BY <1>1, <1>2, Appended DEF Ids, New, Follows
<1>4. minted' = Append(s, b)
  BY <1>2
<1>5. /\ minted' \in Seq(Values)
      /\ Len(minted') = Len(s) + 1
      /\ DOMAIN minted' = DOMAIN s \cup {m} /\ m \notin DOMAIN s
      /\ \A k \in DOMAIN s : minted'[k] = s[k]
      /\ minted'[m] = b
  BY <1>3, <1>4, Appended
<1>6. Len(minted') \in Len(minted)..MaxMinted
  BY <1>1, <1>3, <1>5, OAuthAssumption DEF Room, OAuthAssumption
<1>7. /\ Ids' = Ids \cup {n, m} /\ n # m
      /\ \A k \in Ids : minted'[k] = minted[k]
      /\ minted'[n] = a
  BY <1>3, <1>5 DEF Ids
<1>8. \A k \in Ids' \ Ids : minted'[k].grant \in 1..k
  BY <1>1, <1>3, <1>5, <1>7
<1> QED BY <1>3, <1>5, <1>6, <1>7, <1>8 DEF Made, Extends, Kind, Grant, Ids

(* A code or a refresh token is popped, and nothing is made of it. *)
LEMMA LostKeeps ==
  ASSUME IInv, NEW t \in Threads,
         codes' = codes \ {key[t]}, refresh' = refresh \ {key[t]},
         pc' = [pc EXCEPT ![t] = "idle"],
         UNCHANGED <<minted, clients, pending, late, args, consented, left,
                     restarts>>
  PROVE  IInv'
<1>1. minted \in Seq(Values) /\ Len(minted) \in Nat /\ Len(minted) <= MaxMinted
  BY DEF IInv, TypeOK
<1>2. Extends(t)
  BY <1>1, OAuthAssumption DEF Extends, Ids, OAuthAssumption
<1>3. /\ \A s \in Threads : \A g : Holds(s, g)' => s # t /\ Holds(s, g) /\ g \in Ids
      /\ ArgsInv' /\ LateInv' /\ RedeemedInTime'
  BY <1>2, Frame
<1>4. Ids' = Ids /\ Live' \subseteq Live
      /\ \A k \in Ids : Kind(k)' = Kind(k) /\ Grant(k)' = Grant(k)
  BY DEF Ids, Live, Kind, Grant
<1>5. TypeOK'
  BY <1>2, <1>4, FrameType DEF IInv, TypeOK
<1>6. HoldInv' /\ OneLivePerGrant'
  BY <1>3, <1>4, LiveIds DEF IInv, HoldInv, OneLivePerGrant
<1>7. PageInv'
  <2>1. \A g : AtPage(g)' => AtPage(g)
    BY <1>3, <1>4 DEF AtPage, IInv, TypeOK
  <2> QED BY <1>4, <2>1 DEF IInv, PageInv
<1>8. GivenInv' /\ TokensBound'
  BY <1>4 DEF IInv, GivenInv, TokensBound
<1> QED BY <1>3, <1>5, <1>6, <1>7, <1>8 DEF IInv

(* It is popped, and the next pair of its grant made of it. *)
LEMMA IssuedKeeps ==
  ASSUME IInv, NEW t \in Threads, NEW c, c = key[t], c \in codes \cup refresh,
         NEW n \in Nat, n = New, NEW m \in Nat, Follows(m, n),
         NEW a \in Values, NEW b \in Values,
         Extends(t),
         Ids' = Ids \cup {n, m}, n \notin Ids, m \notin Ids, n # m,
         Made(n, a), Made(m, b),
         a.kind = "access", b.kind = "refresh",
         a.grant = Grant(c), b.grant = Grant(c),
         a.client = minted[c].client, b.client = minted[c].client,
         a.site = minted[c].site, b.site = minted[c].site,
         a.email = minted[c].email, b.email = minted[c].email,
         codes' = codes \ {c}, refresh' = (refresh \ {c}) \cup {m},
         UNCHANGED <<pending, consented>>
  PROVE  IInv'
<1> USE DEF Made
<1>1. /\ c \in Ids /\ c \in Live /\ Kind(c) # "consent" /\ Grant(c) \in Ids
      /\ c \notin pending
  BY GrantIds DEF IInv, TypeOK, Live
<1>2. PICK g \in Ids : g = Grant(c)
  BY <1>1
<1>3. /\ \A k \in Ids : Kind(k)' = Kind(k) /\ Grant(k)' = Grant(k) /\ Grant(k) \in Ids
      /\ \A s \in Threads : \A h : Holds(s, h)' => s # t /\ Holds(s, h) /\ h \in Ids
      /\ ArgsInv' /\ LateInv' /\ RedeemedInTime'
  BY Frame
<1>4. Live' = (Live \ {c}) \cup {m} /\ Live \subseteq Ids
  BY <1>1, LiveIds DEF Live, IInv
<1>5. TypeOK'
  <2>1. pending' \subseteq {k \in Ids' : Kind(k)' = "consent"}
    BY <1>3 DEF IInv, TypeOK
  <2>2. codes' \subseteq {k \in Ids' : Kind(k)' = "code"}
    BY <1>3 DEF IInv, TypeOK
  <2>3. refresh' \subseteq {k \in Ids' : Kind(k)' = "refresh"}
    BY <1>3 DEF IInv, TypeOK
  <2>4. consented' \in [1..MaxMinted -> Emails \cup {None}]
    BY DEF IInv, TypeOK
  <2> QED BY <2>1, <2>2, <2>3, <2>4, FrameType
<1>6. /\ \A k \in Live \ {c} : Grant(k) # g
      /\ \A s \in Threads : ~Holds(s, g)
  BY <1>1, <1>2 DEF IInv, OneLivePerGrant, HoldInv
<1>7. HoldInv'
  BY <1>2, <1>3, <1>4, <1>6 DEF IInv, HoldInv
<1>8. OneLivePerGrant'
  BY <1>2, <1>3, <1>4, <1>6 DEF IInv, OneLivePerGrant
<1>9. ASSUME NEW h, AtPage(h)' PROVE AtPage(h) /\ h # g
  <2>1. CASE \E s \in Threads : Holds(s, h)'
    BY <1>3, <1>6, <2>1 DEF AtPage
  <2>2. CASE \E p \in pending' : Grant(p)' = h
    <3>1. PICK p \in pending : Grant(p) = h /\ p \in Live /\ p # c
      BY <1>1, <1>3, <2>2 DEF IInv, TypeOK, Live
    <3> QED BY <1>6, <3>1 DEF AtPage
  <2> QED BY <1>9, <2>1, <2>2 DEF AtPage
<1>10. PageInv'
  BY <1>2, <1>3, <1>9 DEF IInv, PageInv
<1>11. \A k \in Ids : minted'[k] = minted[k]
  BY DEF Extends
<1>12. GivenInv'
  BY <1>1, <1>3, <1>11 DEF IInv, GivenInv
<1>13. TokensBound'
  BY <1>1, <1>2, <1>3, <1>11 DEF IInv, TokensBound
<1> QED BY <1>3, <1>5, <1>7, <1>8, <1>10, <1>12, <1>13 DEF IInv

LEMMA ExchangeKeeps ==
  ASSUME IInv, NEW t \in Threads, Exchange(t)
  PROVE  IInv'
<1>1. /\ pc' = [pc EXCEPT ![t] = "idle"] /\ Room(2)
      /\ codes' = codes \ {key[t]}
      /\ UNCHANGED <<clients, pending, late, args, consented, left, restarts>>
  BY DEF Exchange, Answered, Goto
<1>2. CASE Stored(t) /\ Signs
  <2>1. key[t] \in codes \cup refresh /\ Issue(key[t], minted[key[t]].site)
    BY <1>2 DEF Exchange, Stored
  <2>2. PICK c : c = key[t]
    OBVIOUS
  <2>3. /\ c \in Ids /\ minted[c] \in Values
        /\ Grant(c) \in 1..c /\ c \in 1..Len(minted) /\ Len(minted) \in Nat
    BY <2>1, <2>2 DEF IInv, TypeOK, Ids
  <2>4. PICK n \in Nat, m \in Nat : n = New /\ Follows(m, n)
    BY <2>3 DEF New, Follows
  <2> DEFINE token == [minted[c] EXCEPT !.kind = "access", !.site = minted[c].site]
  <2>5. PICK a \in Values :
          /\ a = token /\ a.kind = "access" /\ a.grant = Grant(c)
          /\ a.client = minted[c].client /\ a.site = minted[c].site
          /\ a.email = minted[c].email
    <3>1. token \in Values
      BY <2>3 DEF Values, Kinds
    <3>2. /\ token.kind = "access" /\ token.grant = Grant(c)
          /\ token.client = minted[c].client /\ token.site = minted[c].site
          /\ token.email = minted[c].email
      BY <2>3 DEF Values, Grant
    <3> QED BY <3>1, <3>2
  <2>6. PICK b \in Values :
          /\ b = [a EXCEPT !.kind = "refresh"]
          /\ b.kind = "refresh" /\ b.grant = Grant(c)
          /\ b.client = minted[c].client /\ b.site = minted[c].site
          /\ b.email = minted[c].email
    <3> DEFINE d == [a EXCEPT !.kind = "refresh"]
    <3>1. d \in Values
      BY DEF Values, Kinds
    <3>2. /\ d.kind = "refresh" /\ d.grant = a.grant /\ d.client = a.client
          /\ d.site = a.site /\ d.email = a.email
      BY DEF Values
    <3> QED BY <2>5, <3>1, <3>2
  <2>7. /\ minted' = Append(Append(minted, a), b)
        /\ refresh' = (refresh \ {c}) \cup {m}
    BY <2>1, <2>2, <2>3, <2>4, <2>5, <2>6 DEF Issue, Follows
  <2>8. a.grant \in 1..n /\ b.grant \in 1..n
    BY <2>3, <2>4, <2>5, <2>6 DEF New
  <2>9. /\ Extends(t)
        /\ Ids' = Ids \cup {n, m} /\ n \notin Ids /\ m \notin Ids /\ n # m
        /\ Made(n, a) /\ Made(m, b)
    <3>1. minted' = Append(Append(minted, a), b)
      BY <2>7
    <3>2. Room(2) /\ pc' = [pc EXCEPT ![t] = "idle"]
          /\ UNCHANGED <<clients, late, args, left, restarts>>
      BY <1>1
    <3> QED BY <2>4, <2>8, <3>1, <3>2, Two
  <2>10. /\ a.kind = "access" /\ a.grant = Grant(c) /\ a.client = minted[c].client
         /\ a.site = minted[c].site /\ a.email = minted[c].email
    BY <2>5
  <2>11. /\ b.kind = "refresh" /\ b.grant = Grant(c) /\ b.client = minted[c].client
         /\ b.site = minted[c].site /\ b.email = minted[c].email
    BY <2>6
  <2>12. c \in codes \cup refresh /\ codes' = codes \ {c}
         /\ UNCHANGED <<pending, consented>>
    BY <1>1, <2>1, <2>2
  <2> QED BY <2>2, <2>4, <2>7, <2>9, <2>10, <2>11, <2>12, IssuedKeeps
<1>3. CASE ~(Stored(t) /\ Signs)
  <2>1. refresh' = refresh \ {key[t]} /\ UNCHANGED minted
    BY <1>3 DEF Exchange
  <2> QED BY <1>1, <2>1, LostKeeps
<1> QED BY <1>2, <1>3

-----------------------------------------------------------------------------
LEMMA NextIInv == IInv /\ [Next]_vars => IInv'
<1> SUFFICES ASSUME IInv, [Next]_vars PROVE IInv'
  OBVIOUS
<1>1. CASE Register \/ Expire \/ Restart \/ UNCHANGED vars
  BY <1>1, RestKeeps
<1>2. CASE \E t \in Threads : Call(t) \/ Step(t)
  <2>1. PICK t \in Threads : Call(t) \/ Step(t)
    BY <1>2
  <2>2. CASE Call(t)
    BY <2>2, CallKeeps
  <2>3. CASE \/ Authorize(t) \/ TakePending(t) \/ Redisplay(t)
             \/ CheckResource(t) \/ Load(t)
    BY <2>3, LookKeeps
  <2>4. CASE StorePending(t)
    BY <2>4, StorePendingKeeps
  <2>5. CASE StoreAgain(t)
    BY <2>5, StoreAgainKeeps
  <2>6. CASE StoreCode(t)
    BY <2>6, StoreCodeKeeps
  <2>7. CASE Exchange(t)
    BY <2>7, ExchangeKeeps
  <2> QED BY <2>1, <2>2, <2>3, <2>4, <2>5, <2>6, <2>7 DEF Step
<1> QED BY <1>1, <1>2 DEF Next

LEMMA Inductive == Spec => []IInv
BY InitIInv, NextIInv, PTL DEF Spec

LEMMA AcceptedConsented ==
  ASSUME IInv PROVE ActsAsConsented
<1> SUFFICES ASSUME NEW k \in Ids, NEW s \in Sites, Accepted(k, s)
             PROVE  /\ minted[Grant(k)].site = s
                    /\ minted[k].email = consented[Grant(k)]
                    /\ minted[k].email \in Emails
  BY DEF ActsAsConsented
<1>1. Kind(k) = "access" /\ minted[k].site = s
  BY DEF Accepted
<1> QED BY <1>1 DEF IInv, TokensBound, GivenInv

(* What a request has popped (a consent page, in _complete_consent) is in  *)
(* nobody else's hands and not live any more, and every record is well     *)
(* formed: for any number of concurrent requests and restarts.             *)
THEOREM OAuthCorrect == Spec => []OAuthInv
<1>1. IInv => OAuthInv
  BY DEF IInv, OAuthInv
<1> QED BY <1>1, Inductive, PTL

(* However many requests submit a page, a code or a refresh token of a     *)
(* grant at once, only one page, code or refresh token of it is ever live: *)
(* the pops under the provider's lock are enough.                          *)
THEOREM OneLivePerGrantCorrect == Spec => []OneLivePerGrant
<1>1. IInv => OneLivePerGrant
  BY DEF IInv
<1> QED BY <1>1, Inductive, PTL

(* Every code, access and refresh token carries the client, the site and   *)
(* the email of its consent, through any number of rotations.              *)
THEOREM TokensBoundCorrect == Spec => []TokensBound
<1>1. IInv => TokensBound
  BY DEF IInv
<1> QED BY <1>1, Inductive, PTL

(* The address bearer_token_claims hands to the tools was given by a user  *)
(* on a consent page of the very site that accepts the token.              *)
THEOREM ActsAsConsentedCorrect == Spec => []ActsAsConsented
BY AcceptedConsented, Inductive, PTL

(* What was expired when a request came is not redeemed by it, and a page  *)
(* shown again lives no longer than the first one.                         *)
THEOREM RedeemedInTimeCorrect == Spec => []RedeemedInTime
<1>1. IInv => RedeemedInTime
  BY DEF IInv
<1> QED BY <1>1, Inductive, PTL
=============================================================================
