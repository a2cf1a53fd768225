-------------------------------- MODULE OAuth --------------------------------
(***************************************************************************)
(* The authorization server (gb_mcp/oauth.py) and the acceptance of its    *)
(* access tokens (gb_mcp/http.py).  A client registers, sends its user to  *)
(* a consent page, gets a code for it, redeems the code for an access and  *)
(* a refresh token, and the refresh token for another pair, and so on.     *)
(*                                                                         *)
(* Every random value is the index of a record in minted; which of them    *)
(* are live is what the dictionaries of the provider say.  A step of a     *)
(* request is the code between two uses of the provider's lock.  A grant   *)
(* is one authorization, named after its first consent page.  Lifetimes    *)
(* end at any moment.  Only the process's memory is lost in a restart; the *)
(* signing secret comes from the environment.                              *)
(***************************************************************************)
EXTENDS Naturals, Sequences, FiniteSets

CONSTANTS
  Threads,     \* request handlers
  Clients,     \* client ids; registration never yields one twice
  Emails,      \* normalized addresses
  Sites,       \* public origins, up to same_resource and _issuers_equivalent
  Signs,       \* a token signing secret is configured
  None,
  MaxMinted,   \* bound: random values
  MaxCalls,    \* bound: requests
  MaxRestarts  \* bound: restarts

ASSUME OAuthAssumption ==
  /\ Signs \in BOOLEAN
  /\ MaxMinted \in Nat
  /\ MaxCalls \in Nat
  /\ MaxRestarts \in Nat
  /\ None \notin Emails
  /\ None \notin Sites
  /\ None \notin Clients

VARIABLES
  clients,    \* _clients
  minted,     \* all random values so far
  pending,    \* _pending: live consent pages
  codes,      \* _codes
  refresh,    \* _refresh
  late,       \* values whose expires_at or exp has passed
  pc,         \* per request: label
  key,        \* the value it presents
  who,        \* client_id
  here,       \* the site it was sent to
  res,        \* resource parameter of a token request, or None
  typed,      \* what the user answers on the consent page
  early,      \* history: what the request presents was not late on arrival
  consented,  \* history: the email the user gave for a grant
  left, restarts

dicts == <<clients, pending, codes, refresh>>
args == <<key, who, here, res, typed, early>>
vars == <<dicts, minted, late, pc, args, consented, left, restarts>>

Kinds == {"consent", "code", "access", "refresh"}
Values == [kind : Kinds, grant : Nat, client : Clients, site : Sites,
           email : Emails \cup {None}]
Labels == {"idle", "authorize", "store_pending", "take_pending", "store_code",
           "redisplay", "store_again", "resource", "load", "exchange"}
Holding == {"store_code", "redisplay", "store_again"}
Answers == Emails \cup {"deny", "invalid"}

Ids == DOMAIN minted
Kind(k) == minted[k].kind
Grant(k) == minted[k].grant
Live == pending \cup codes \cup refresh

Init ==
  /\ clients = {}
  /\ minted = <<>>
  /\ pending = {}
  /\ codes = {}
  /\ refresh = {}
  /\ late = {}
  /\ pc = [t \in Threads |-> "idle"]
  /\ key = [t \in Threads |-> 0]
  /\ who = [t \in Threads |-> None]
  /\ here = [t \in Threads |-> None]
  /\ res = [t \in Threads |-> None]
  /\ typed = [t \in Threads |-> None]
  /\ early = [t \in Threads |-> TRUE]
  /\ consented = [g \in 1..MaxMinted |-> None]
  /\ left = MaxCalls
  /\ restarts = 0

-----------------------------------------------------------------------------
At(t, label) == pc[t] = label
Goto(t, label) == pc' = [pc EXCEPT ![t] = label]
Answered(t) == Goto(t, "idle")

(* A page shown again for a wrong address keeps the expires_at of the      *)
(* first one; everything else has its own.                                 *)
Deadline(k) == IF Kind(k) = "consent" THEN Grant(k) ELSE k

Room(n) == Len(minted) + n <= MaxMinted
New == Len(minted) + 1

(* register_client: a new id. *)
Register ==
  /\ \E c \in Clients \ clients :
       /\ \A k \in Ids : minted[k].client # c
       /\ clients' = clients \cup {c}
  /\ UNCHANGED <<minted, pending, codes, refresh, late, pc, args, consented,
                 left, restarts>>

(* A request arrives. *)
Arrive(t, label) ==
  /\ At(t, "idle")
  /\ left > 0
  /\ left' = left - 1
  /\ Goto(t, label)
  /\ UNCHANGED <<dicts, minted, late, consented, restarts>>

CallAuthorize(t) ==
  \E c \in Clients, s \in Sites :
    /\ Arrive(t, "authorize")
    /\ who' = [who EXCEPT ![t] = c]
    /\ here' = [here EXCEPT ![t] = s]
    /\ UNCHANGED <<key, res, typed, early>>

CallConsent(t) ==
  \E k \in {i \in Ids : Kind(i) = "consent"}, a \in Answers :
    /\ Arrive(t, "take_pending")
    /\ key' = [key EXCEPT ![t] = k]
    /\ typed' = [typed EXCEPT ![t] = a]
    /\ early' = [early EXCEPT ![t] = Grant(k) \notin late]
    /\ UNCHANGED <<who, here, res>>

CallToken(t) ==
  \E k \in {i \in Ids : Kind(i) \in {"code", "refresh"}}, c \in Clients,
     s \in Sites, r \in Sites \cup {None} :
    /\ Arrive(t, IF r = None THEN "load" ELSE "resource")
    /\ key' = [key EXCEPT ![t] = k]
    /\ who' = [who EXCEPT ![t] = c]
    /\ here' = [here EXCEPT ![t] = s]
    /\ res' = [res EXCEPT ![t] = r]
    /\ early' = [early EXCEPT ![t] = k \notin late]
    /\ UNCHANGED typed

-----------------------------------------------------------------------------
(* _begin_consent: the client must be known, and its redirect_uri, scope   *)
(* and resource acceptable.                                                *)
Authorize(t) ==
  /\ At(t, "authorize")
  /\ \/ who[t] \in clients /\ Goto(t, "store_pending")
     \/ Answered(t)
  /\ UNCHANGED <<dicts, minted, late, args, consented, left, restarts>>

StorePending(t) ==
  /\ At(t, "store_pending")
  /\ Room(1)
  /\ minted' = Append(minted, [kind |-> "consent", grant |-> New,
                               client |-> who[t], site |-> here[t],
                               email |-> None])
  /\ pending' = pending \cup {New}
  /\ Answered(t)
  /\ UNCHANGED <<clients, codes, refresh, late, args, consented, left, restarts>>

(* take_pending and the decision of _complete_consent. *)
Decide(t) ==
  CASE typed[t] \in Emails    -> Goto(t, "store_code")
    [] typed[t] = "invalid"   -> Goto(t, "redisplay")
    [] OTHER                  -> Answered(t)

(* Mutant: the page is looked up and removed only with the code. *)
TakePendingLater(t) ==
  /\ At(t, "take_pending")
  /\ IF key[t] \in pending /\ Deadline(key[t]) \notin late
       THEN Decide(t) ELSE Answered(t)
  /\ UNCHANGED <<dicts, minted, late, args, consented, left, restarts>>

(* Mutant: a page does not expire. *)
TakePendingLate(t) ==
  /\ At(t, "take_pending")
  /\ pending' = pending \ {key[t]}
  /\ IF key[t] \in pending THEN Decide(t) ELSE Answered(t)
  /\ UNCHANGED <<clients, codes, refresh, minted, late, args, consented, left,
                 restarts>>

TakePending(t) ==
  /\ At(t, "take_pending")
  /\ pending' = pending \ {key[t]}
  /\ IF key[t] \in pending /\ Deadline(key[t]) \notin late
       THEN Decide(t) ELSE Answered(t)
  /\ UNCHANGED <<clients, codes, refresh, minted, late, args, consented, left,
                 restarts>>

StoreCode(t) ==
  /\ At(t, "store_code")
  /\ Room(1)
  /\ minted' = Append(minted, [minted[key[t]] EXCEPT !.kind = "code",
                                                     !.email = typed[t]])
  /\ codes' = codes \cup {New}
  /\ consented' = [consented EXCEPT ![Grant(key[t])] = typed[t]]
  /\ Answered(t)
  /\ UNCHANGED <<clients, pending, refresh, late, args, left, restarts>>

(* _redisplay_consent: get_client, then store_pending of the same request. *)
Redisplay(t) ==
  /\ At(t, "redisplay")
  /\ Goto(t, IF minted[key[t]].client \in clients THEN "store_again" ELSE "idle")
  /\ UNCHANGED <<dicts, minted, late, args, consented, left, restarts>>

StoreAgain(t) ==
  /\ At(t, "store_again")
  /\ Room(1)
  /\ minted' = Append(minted, minted[key[t]])
  /\ pending' = pending \cup {New}
  /\ Answered(t)
  /\ UNCHANGED <<clients, codes, refresh, late, args, consented, left, restarts>>

-----------------------------------------------------------------------------
(* load_authorization_code and load_refresh_token for a known client. *)
Stored(t) ==
  /\ who[t] \in clients
  /\ key[t] \in codes \cup refresh
  /\ minted[key[t]].client = who[t]

(* _token_resource_mismatch: against the grant, or else this server. *)
CheckResource(t) ==
  /\ At(t, "resource")
  /\ LET bound == IF Stored(t) THEN minted[key[t]].site ELSE here[t]
     IN  Goto(t, IF res[t] = bound THEN "load" ELSE "idle")
  /\ UNCHANGED <<dicts, minted, late, args, consented, left, restarts>>

(* ClientAuthenticator and TokenHandler of the SDK: the client is known,   *)
(* the value is its own and not expired.  PKCE, redirect_uri and scope may *)
(* be refused as well.                                                     *)
Load(t) ==
  /\ At(t, "load")
  /\ \/ Stored(t) /\ key[t] \notin late /\ Goto(t, "exchange")
     \/ Answered(t)
  /\ UNCHANGED <<dicts, minted, late, args, consented, left, restarts>>

(* _issue_tokens_locked, for what the stored value is bound to: an access  *)
(* token and, in the dictionary, the next refresh token.                   *)
Issue(k, site) ==
  LET token == [minted[k] EXCEPT !.kind = "access", !.site = site]
  IN  /\ minted' = Append(Append(minted, token), [token EXCEPT !.kind = "refresh"])
      /\ refresh' = (refresh \ {k}) \cup {New + 1}

(* Mutant: the tokens are bound to the site of the request. *)
ExchangeHere(t) ==
  /\ At(t, "exchange")
  /\ Room(2)
  /\ codes' = codes \ {key[t]}
  /\ IF Stored(t) /\ Signs
       THEN Issue(key[t], here[t])
       ELSE refresh' = refresh \ {key[t]} /\ UNCHANGED minted
  /\ Answered(t)
  /\ UNCHANGED <<clients, pending, late, args, consented, left, restarts>>

(* Mutant: what load has found is not looked up again. *)
ExchangeLoaded(t) ==
  /\ At(t, "exchange")
  /\ Room(2)
  /\ codes' = codes \ {key[t]}
  /\ IF Signs
       THEN Issue(key[t], minted[key[t]].site)
       ELSE refresh' = refresh \ {key[t]} /\ UNCHANGED minted
  /\ Answered(t)
  /\ UNCHANGED <<clients, pending, late, args, consented, left, restarts>>

(* exchange_authorization_code and exchange_refresh_token: the value is    *)
(* popped first, and lost if no pair can be issued for it.                 *)
Exchange(t) ==
  /\ At(t, "exchange")
  /\ Room(2)
  /\ codes' = codes \ {key[t]}
  /\ IF Stored(t) /\ Signs
       THEN Issue(key[t], minted[key[t]].site)
       ELSE refresh' = refresh \ {key[t]} /\ UNCHANGED minted
  /\ Answered(t)
  /\ UNCHANGED <<clients, pending, late, args, consented, left, restarts>>

-----------------------------------------------------------------------------
(* Mutant: any audience will do. *)
AcceptedAnywhere(k, s) == Kind(k) = "access" /\ k \notin late

(* bearer_token_claims at site s: signed here, not expired, and both iss   *)
(* and aud are this site's.  The claims carry the identity of the tools.   *)
Accepted(k, s) ==
  /\ Kind(k) = "access"
  /\ k \notin late
  /\ minted[k].site = s

Step(t) ==
  \/ Authorize(t) \/ StorePending(t)
  \/ TakePending(t) \/ StoreCode(t) \/ Redisplay(t) \/ StoreAgain(t)
  \/ CheckResource(t) \/ Load(t) \/ Exchange(t)

Call(t) == CallAuthorize(t) \/ CallConsent(t) \/ CallToken(t)

(* A lifetime ends. *)
Expire ==
  /\ \E k \in Ids \ late : Deadline(k) = k /\ late' = late \cup {k}
  /\ UNCHANGED <<dicts, minted, pc, args, consented, left, restarts>>

Restart ==
  /\ restarts < MaxRestarts
  /\ restarts' = restarts + 1
  /\ clients' = {}
  /\ pending' = {}
  /\ codes' = {}
  /\ refresh' = {}
  /\ pc' = [t \in Threads |-> "idle"]
  /\ UNCHANGED <<minted, late, args, consented, left>>

Next ==
  \/ Register \/ Expire \/ Restart
  \/ \E t \in Threads : Call(t) \/ Step(t)

Spec == Init /\ [][Next]_vars

-----------------------------------------------------------------------------
(* Properties. *)

TypeOK ==
  /\ clients \subseteq Clients
  /\ minted \in Seq(Values)
  /\ Len(minted) <= MaxMinted
  /\ pending \subseteq {k \in Ids : Kind(k) = "consent"}
  /\ codes \subseteq {k \in Ids : Kind(k) = "code"}
  /\ refresh \subseteq {k \in Ids : Kind(k) = "refresh"}
  /\ \A k \in Ids : Grant(k) \in 1..k
  /\ late \subseteq Ids
  /\ pc \in [Threads -> Labels]
  /\ key \in [Threads -> 0..Len(minted)]
  /\ who \in [Threads -> Clients \cup {None}]
  /\ here \in [Threads -> Sites \cup {None}]
  /\ res \in [Threads -> Sites \cup {None}]
  /\ typed \in [Threads -> Answers \cup {None}]
  /\ early \in [Threads -> BOOLEAN]
  /\ consented \in [1..MaxMinted -> Emails \cup {None}]
  /\ left \in 0..MaxCalls
  /\ restarts \in 0..MaxRestarts

(* What a request works on. *)
ArgsInv ==
  \A t \in Threads :
    /\ pc[t] \in {"authorize", "store_pending"}
         => who[t] \in Clients /\ here[t] \in Sites
    /\ pc[t] \in {"take_pending"} \cup Holding
         => key[t] \in Ids /\ Kind(key[t]) = "consent"
    /\ pc[t] \in {"resource", "load", "exchange"}
         => key[t] \in Ids /\ Kind(key[t]) \in {"code", "refresh"}
    /\ pc[t] = "store_code" => typed[t] \in Emails

(* A request that has taken a page from its grant and stored nothing for   *)
(* it yet has the grant to itself.                                         *)
Holds(t, g) == pc[t] \in Holding /\ Grant(key[t]) = g

HoldInv ==
  /\ \A t \in Threads, k \in Live : ~Holds(t, Grant(k))
  /\ \A s, t \in Threads, g \in Ids : Holds(s, g) /\ Holds(t, g) => s = t

(* Types, and a grant that a request has popped is nowhere else: neither   *)
(* live nor in the hands of another request.                               *)
OAuthInv == TypeOK /\ ArgsInv /\ HoldInv

(* A grant has at most one live page, code or refresh token: what is       *)
(* submitted or presented twice, at the same time or later, goes on at     *)
(* most once.                                                              *)
OneLivePerGrant == \A j, k \in Live : Grant(j) = Grant(k) => j = k

(* README.md: "Application identity is the consent email claim on the      *)
(* OAuth access token": however often it is rotated, whichever site the    *)
(* token request comes to and whatever else is going on, a credential      *)
(* carries the email its user gave, the client that asked, and the site    *)
(* that it asked at.                                                       *)
TokensBound ==
  \A k \in Ids :
    LET first == minted[Grant(k)]
    IN  /\ first.kind = "consent"
        /\ minted[k].client = first.client
        /\ minted[k].site = first.site
        /\ minted[k].email
             = IF Kind(k) = "consent" THEN None ELSE consented[Grant(k)]

(* http.py: "OAuth tokens must match this request's issuer and resource":  *)
(* a request is only let in as somebody who has consented at that site.    *)
ActsAsConsented ==
  \A k \in Ids, s \in Sites :
    Accepted(k, s) =>
      /\ minted[Grant(k)].site = s
      /\ minted[k].email = consented[Grant(k)]
      /\ minted[k].email \in Emails

(* Nothing is made of a page, a code or a refresh token that was expired   *)
(* when the request came, and showing a page again gives it no more time.  *)
RedeemedInTime ==
  \A t \in Threads :
    pc[t] \in Holding \cup {"exchange"} => early[t]
=============================================================================
