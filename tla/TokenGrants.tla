---------------------------- MODULE TokenGrants ----------------------------
(***************************************************************************)
(* Authorization codes, refresh tokens and reference access tokens, and    *)
(* the requests that create, redeem, rotate and revoke them.               *)
(*                                                                         *)
(* All three kinds of grant live in one IPersistedGrantStore.  The token   *)
(* endpoint, the revocation endpoint, the token validator and the grant    *)
(* service reach it through awaited calls, so that requests interleave at  *)
(* every call: one action of this module is the code between two of them.  *)
(***************************************************************************)
EXTENDS Integers, FiniteSets

CONSTANTS
    Clients, Users, Sessions,
    Keys,        \* handles the HandleGenerationService may draw
    Requests,    \* requests the host serves at the same time
    Config,      \* what a Client says of the lifetimes of its tokens
    SessionUser, \* the user a browser session belongs to
    MaxTime,     \* bound on the clock
    SignIns,     \* bound on the authorization codes issued
    Arrivals,    \* the kinds of request that arrive: their first steps
    Lockable,    \* the users an administrator may lock and unlock
    Edits,       \* what an administrator may change a client to
    None         \* no grant, no session, no filter, no locals

GrantTypes == {"code", "refresh", "reference"}

Settings ==
    [usage : {"OneTimeOnly", "ReUse"}, expiration : {"Absolute", "Sliding"},
     absolute : Nat, sliding : Nat, codeLifetime : Nat, accessLifetime : Nat,
     reference : BOOLEAN,      \* AccessTokenType = Reference
     updateClaims : BOOLEAN]   \* UpdateAccessTokenClaimsOnRefresh

ASSUME ConfigAssumption ==
    /\ Config \in [Clients -> Settings]
    /\ SessionUser \in [Sessions -> Users]
    /\ MaxTime \in Nat /\ SignIns \in Nat
    /\ Arrivals \subseteq {"code_get", "refresh_get", "revoke_get", "use_get", "sweep_take"}
    /\ Lockable \subseteq Users
    /\ Edits \subseteq {"full", "noOffline", "disabled"}

VARIABLES
    now,      \* the clock, in seconds
    active,   \* users the profile service reports as active
    admin,    \* what the client store says of a client
    grants,   \* the IPersistedGrantStore
    pc,       \* per request: the store call it makes next
    ctx,      \* per request: its locals
    sweep,    \* per request: a RemoveAllAsync in progress
    lineage,   \* history: the authorization a handle descends from
    spent,     \* history: handles that were revoked, or used up by an answer
    ended,     \* history: sessions whose grants have all been removed
    raced      \* history: sessions with a request in flight while removed

environment == <<now, active, admin>>
history     == <<lineage, spent, ended, raced>>
vars == <<now, active, admin, grants, pc, ctx, sweep, history>>

Grant ==
    [type : GrantTypes, client : Clients, user : Users,
     session : Sessions \cup {None}, created : Nat, lifetime : Nat,
     consumed : BOOLEAN,
     offline : BOOLEAN]    \* offline_access is among the scopes

Filter ==
    [user : Users, client : Clients \cup {None},
     session : Sessions \cup {None}, type : GrantTypes \cup {None}]

Context ==
    [client  : Clients,
     offline : BOOLEAN,    \* AllowOfflineAccess when the client authenticated
     key     : Keys,
     valid   : BOOLEAN,    \* redirect_uri, scopes and code_verifier are right
     late    : BOOLEAN,    \* history: the handle was spent when the request came
     grant   : Grant \cup {None}]

Sweep == [filter : Filter, todo : SUBSET Keys]

Lineage ==
    [type : GrantTypes, client : Clients, user : Users, session : Sessions,
     born : Nat]

ASSUME NoneAssumption ==
    /\ None \notin Clients \cup Users \cup Sessions \cup Keys
    /\ None \notin Grant \cup Context \cup Sweep \cup Lineage

\* Steps of a request whose handle was found good.
AcceptedSteps ==
    {"code_access", "code_refresh", "code_id", "refresh_access",
     "refresh_consume", "refresh_write", "use_client"}

RequestSteps ==
    AcceptedSteps \cup
    {"code_get", "code_remove", "code_active", "refresh_get", "refresh_active",
     "use_get", "use_remove", "revoke_get", "revoke_remove"}

SweepSteps == {"sweep_take", "sweep_remove"}

TypeOK ==
    /\ now \in Nat
    /\ active \in [Users -> BOOLEAN]
    /\ admin \in [Clients -> {"full", "noOffline", "disabled"}]
    /\ grants \in [Keys -> Grant \cup {None}]
    /\ pc \in [Requests -> {"idle"} \cup RequestSteps \cup SweepSteps]
    /\ ctx \in [Requests -> Context \cup {None}]
    /\ sweep \in [Requests -> Sweep \cup {None}]
    /\ lineage \in [Keys -> Lineage \cup {None}]
    /\ spent \subseteq Keys
    /\ ended \subseteq Sessions
    /\ raced \subseteq Sessions

-----------------------------------------------------------------------------
Init ==
    /\ now = 0
    /\ active = [u \in Users |-> TRUE]
    /\ admin = [c \in Clients |-> "full"]
    /\ grants = [k \in Keys |-> None]
    /\ pc = [r \in Requests |-> "idle"]
    /\ ctx = [r \in Requests |-> None]
    /\ sweep = [r \in Requests |-> None]
    /\ lineage = [k \in Keys |-> None]
    /\ spent = {}
    /\ ended = {}
    /\ raced = {}

\* A handle is a fresh random value: one that was never stored before.
Fresh == {k \in Keys : lineage[k] = None}

\* DefaultGrantStore.GetItemAsync: the key must hold a grant of that type.
Lookup(k, type) ==
    IF grants[k] # None /\ grants[k].type = type THEN grants[k] ELSE None

HasExceeded(g, seconds) == now > g.created + seconds

\* InMemoryPersistedGrantStore.Filter: an absent criterion matches everything.
Matches(g, f) ==
    /\ g.user = f.user
    /\ f.client # None => g.client = f.client
    /\ f.session # None => g.session = f.session
    /\ f.type # None => g.type = f.type

Enabled(c) == admin[c] # "disabled"

Goto(r, step) == pc' = [pc EXCEPT ![r] = step]

\* The request answers, with tokens or with an error, and its locals are gone.
Answer(r) == Goto(r, "idle") /\ ctx' = [ctx EXCEPT ![r] = None]

Reject(r) == Answer(r) /\ UNCHANGED <<grants, lineage, spent>>

\* History of a successful answer to the handle k.
Deliver(k, usedUp) == spent' = IF usedUp THEN spent \cup {k} ELSE spent

\* CreateItemAsync: store a grant under a handle drawn at random, on behalf of
\* the authorization line.
Create(k, g, line) ==
    /\ k \in Fresh
    /\ grants' = [grants EXCEPT ![k] = g]
    /\ lineage' = [lineage EXCEPT ![k] = [line EXCEPT !.type = g.type]]

-----------------------------------------------------------------------------
(***************************************************************************)
(* The world around the requests.                                          *)
(***************************************************************************)
Tick == /\ now < MaxTime
        /\ now' = now + 1
        /\ UNCHANGED <<active, admin, grants, pc, ctx, sweep, history>>

SetActive(u) ==
    /\ active' = [active EXCEPT ![u] = ~ @]
    /\ UNCHANGED <<now, admin, grants, pc, ctx, sweep, history>>

EditClient(c, state) ==
    /\ admin[c] # state
    /\ admin' = [admin EXCEPT ![c] = state]
    /\ UNCHANGED <<now, active, grants, pc, ctx, sweep, history>>

\* The authorize endpoint answers a code flow: CreateCodeAsync and
\* StoreAuthorizationCodeAsync.  A browser session that ended stays ended.
IssueCode(k, c, s, offline) ==
    /\ Cardinality({x \in Keys : lineage[x] # None /\ lineage[x].type = "code"}) < SignIns
    /\ Enabled(c)
    /\ offline => admin[c] = "full"
    /\ s \notin ended
    /\ \A r \in Requests : sweep[r] # None => sweep[r].filter.session # s
    /\ Create(k,
              [type |-> "code", client |-> c, user |-> SessionUser[s],
               session |-> s, created |-> now,
               lifetime |-> Config[c].codeLifetime,
               consumed |-> FALSE, offline |-> offline],
              [type |-> "code", client |-> c, user |-> SessionUser[s],
               session |-> s, born |-> now])
    /\ UNCHANGED <<environment, pc, ctx, sweep, spent, ended, raced>>

\* History: a request that presents k meets the removal of k's session.
Race(k) ==
    raced' = raced \cup
        {s \in Sessions : /\ lineage[k].session = s
                          /\ \E r \in Requests :
                                sweep[r] # None /\ sweep[r].filter.session = s}

\* A request presents the handle k on behalf of the client c.
Present(r, c, k, valid, step) ==
    /\ pc[r] = "idle"
    /\ lineage[k] # None
    /\ Goto(r, step)
    /\ ctx' = [ctx EXCEPT ![r] =
                 [client |-> c, offline |-> admin[c] = "full", key |-> k,
                  valid |-> valid, late |-> k \in spent, grant |-> None]]
    /\ Race(k)
    /\ UNCHANGED <<environment, grants, sweep, lineage, spent, ended>>

\* The token and the revocation endpoint authenticate the client first, which
\* loads it while it is enabled.
TokenRequest(r, c, k, valid, step) == Enabled(c) /\ Present(r, c, k, valid, step)

-----------------------------------------------------------------------------
(***************************************************************************)
(* grant_type=authorization_code                                           *)
(***************************************************************************)
\* Mutant of CodeGet: the code is not bound to its client.
CodeGet_Unbound(r) ==
    /\ pc[r] = "code_get"
    /\ LET g == Lookup(ctx[r].key, "code") IN
       IF g = None
       THEN Reject(r)
       ELSE /\ Goto(r, "code_remove")
            /\ ctx' = [ctx EXCEPT ![r].grant = g]
            /\ UNCHANGED <<grants, lineage, spent>>
    /\ UNCHANGED <<environment, sweep, ended, raced>>

CodeGet(r) ==
    /\ pc[r] = "code_get"
    /\ LET g == Lookup(ctx[r].key, "code") IN
       IF g = None \/ g.client # ctx[r].client
       THEN Reject(r)
       ELSE /\ Goto(r, "code_remove")
            /\ ctx' = [ctx EXCEPT ![r].grant = g]
            /\ UNCHANGED <<grants, lineage, spent>>
    /\ UNCHANGED <<environment, sweep, ended, raced>>

\* Mutant of CodeRemove: a code that fails a check stays.
CodeRemove_Kept(r) ==
    /\ pc[r] = "code_remove"
    /\ UNCHANGED grants
    /\ LET g == ctx[r].grant IN
       IF HasExceeded(g, g.lifetime) \/ ~ ctx[r].valid
       THEN Answer(r)
       ELSE Goto(r, "code_active") /\ UNCHANGED ctx
    /\ UNCHANGED <<environment, sweep, history>>

\* The code is removed before anything else about it is checked.
CodeRemove(r) ==
    /\ pc[r] = "code_remove"
    /\ grants' = [grants EXCEPT ![ctx[r].key] = None]
    /\ LET g == ctx[r].grant IN
       IF \/ HasExceeded(g, g.lifetime)
          \/ HasExceeded(g, Config[ctx[r].client].codeLifetime)
          \/ ~ ctx[r].valid
       THEN Answer(r)
       ELSE Goto(r, "code_active") /\ UNCHANGED ctx
    /\ UNCHANGED <<environment, sweep, history>>

CodeActive(r) ==
    /\ pc[r] = "code_active"
    /\ IF active[ctx[r].grant.user]
       THEN Goto(r, "code_access") /\ UNCHANGED <<ctx, grants, lineage, spent>>
       ELSE Reject(r)
    /\ UNCHANGED <<environment, sweep, ended, raced>>

\* Mutant of AccessToken: the session is never carried over.
AccessToken_NoSession(r, k, updated) ==
    IF Config[ctx[r].client].reference
    THEN Create(k, [ctx[r].grant EXCEPT !.type = "reference", !.session = None,
                       !.client = ctx[r].client, !.created = now,
                       !.lifetime = Config[ctx[r].client].accessLifetime],
                lineage[ctx[r].key])
    ELSE UNCHANGED <<grants, lineage>>

\* Mutant of AccessToken: the age of the grant is taken off the lifetime.
AccessToken_Aged(r, k, updated) ==
    LET c == ctx[r].client IN
    IF Config[c].reference
    THEN Create(k, [ctx[r].grant EXCEPT !.type = "reference", !.client = c, !.created = now,
                       !.lifetime = Config[c].accessLifetime - (now - ctx[r].grant.created)],
                lineage[ctx[r].key])
    ELSE UNCHANGED <<grants, lineage>>

\* The access token: a JWT leaves no trace, a reference token is stored.
\* updated: the token is built anew by a refresh, whose request has no session.
AccessToken(r, k, updated) ==
    LET g == ctx[r].grant
        c == ctx[r].client
    IN  IF Config[c].reference
        THEN Create(k, [g EXCEPT !.type = "reference",
                                 !.client = c,
                                 !.session = IF updated THEN None ELSE @,
                                 !.created = now,
                                 !.lifetime = Config[c].accessLifetime],
                    lineage[ctx[r].key])
        ELSE UNCHANGED <<grants, lineage>>

\* CreateAccessTokenAsync loads the client again: one that was disabled in the
\* meantime makes it throw.
CodeAccess(r, k) ==
    /\ pc[r] = "code_access"
    /\ IF ~ Enabled(ctx[r].client)
       THEN Reject(r)
       ELSE /\ AccessToken(r, k, FALSE)
            /\ Goto(r, IF ctx[r].grant.offline THEN "code_refresh" ELSE "code_id")
            /\ UNCHANGED <<ctx, spent>>
    /\ UNCHANGED <<environment, sweep, ended, raced>>

\* The lifetime CreateRefreshTokenAsync gives a new refresh token ...
FirstLifetime(c) ==
    LET s == Config[c] IN
    IF s.expiration = "Absolute" \/ (s.absolute > 0 /\ s.sliding > s.absolute)
    THEN s.absolute
    ELSE s.sliding

\* Mutant of NextLifetime: without the cap.
NextLifetime_Uncapped(c, g) ==
    IF Config[c].expiration = "Absolute" THEN g.lifetime
    ELSE (now - g.created) + Config[c].sliding

\* ... and the one UpdateRefreshTokenAsync gives it when it is used.
NextLifetime(c, g) ==
    LET s == Config[c]
        slid == (now - g.created) + s.sliding
    IN  IF s.expiration = "Absolute" THEN g.lifetime
        ELSE IF s.absolute > 0 /\ slid > s.absolute THEN s.absolute ELSE slid

CodeRefresh(r, k) ==
    /\ pc[r] = "code_refresh"
    /\ Create(k, [ctx[r].grant EXCEPT !.type = "refresh", !.created = now,
                                      !.client = ctx[r].client,
                                      !.lifetime = FirstLifetime(ctx[r].client)],
              [lineage[ctx[r].key] EXCEPT !.born = now])
    /\ Goto(r, "code_id")
    /\ UNCHANGED <<environment, ctx, sweep, spent, ended, raced>>

\* The id token of an OpenID request needs the client once more; a plain OAuth
\* request does not ask.
CodeId(r) ==
    /\ pc[r] = "code_id"
    /\ \/ Answer(r) /\ Deliver(ctx[r].key, TRUE) /\ UNCHANGED <<grants, lineage>>
       \/ ~ Enabled(ctx[r].client) /\ Reject(r)
    /\ UNCHANGED <<environment, sweep, ended, raced>>

-----------------------------------------------------------------------------
(***************************************************************************)
(* grant_type=refresh_token                                                *)
(***************************************************************************)
RefreshGet(r) ==
    /\ pc[r] = "refresh_get"
    /\ LET g == Lookup(ctx[r].key, "refresh") IN
       IF \/ g = None
          \/ HasExceeded(g, g.lifetime)
          \/ g.client # ctx[r].client
          \/ ~ ctx[r].offline
          \/ g.consumed
       THEN Reject(r)
       ELSE /\ Goto(r, "refresh_active")
            /\ ctx' = [ctx EXCEPT ![r].grant = g]
            /\ UNCHANGED <<grants, lineage, spent>>
    /\ UNCHANGED <<environment, sweep, ended, raced>>

RefreshActive(r) ==
    /\ pc[r] = "refresh_active"
    /\ IF active[ctx[r].grant.user]
       THEN Goto(r, "refresh_access") /\ UNCHANGED <<ctx, grants, lineage, spent>>
       ELSE Reject(r)
    /\ UNCHANGED <<environment, sweep, ended, raced>>

\* A reusable handle with an absolute expiration needs no update.
RefreshAccess(r, k) ==
    /\ pc[r] = "refresh_access"
    /\ AccessToken(r, k, Config[ctx[r].client].updateClaims)
    /\ LET s == Config[ctx[r].client] IN
       \/ /\ s.usage = "OneTimeOnly"
          /\ Goto(r, "refresh_consume")
          /\ UNCHANGED <<ctx, spent>>
       \/ /\ s.usage = "ReUse" /\ s.expiration = "Sliding"
          /\ Goto(r, "refresh_write")
          /\ UNCHANGED <<ctx, spent>>
       \/ /\ s.usage = "ReUse" /\ s.expiration = "Absolute"
          /\ Answer(r)
          /\ Deliver(ctx[r].key, FALSE)
    /\ UNCHANGED <<environment, sweep, ended, raced>>

\* Mutant of RefreshConsume: the handle is not flagged.
RefreshConsume_Unflagged(r) ==
    /\ pc[r] = "refresh_consume"
    /\ grants' = [grants EXCEPT ![ctx[r].key] = ctx[r].grant]
    /\ Goto(r, "refresh_write")
    /\ UNCHANGED <<environment, ctx, sweep, history>>

\* StoreAsync writes the grant whether or not the handle is still there.
RefreshConsume(r) ==
    /\ pc[r] = "refresh_consume"
    /\ grants' = [grants EXCEPT ![ctx[r].key] = [ctx[r].grant EXCEPT !.consumed = TRUE]]
    /\ Goto(r, "refresh_write")
    /\ UNCHANGED <<environment, ctx, sweep, history>>

\* Mutant of RefreshWrite: the rotated token goes back under the old handle.
RefreshWrite_SameHandle(r, k) ==
    /\ pc[r] = "refresh_write"
    /\ grants' = [grants EXCEPT ![ctx[r].key] =
          [ctx[r].grant EXCEPT !.lifetime = NextLifetime(ctx[r].client, ctx[r].grant)]]
    /\ Deliver(ctx[r].key, FALSE)
    /\ Answer(r)
    /\ UNCHANGED <<environment, sweep, lineage, ended, raced>>

RefreshWrite(r, k) ==
    /\ pc[r] = "refresh_write"
    /\ LET c == ctx[r].client
           h == ctx[r].key
           g == [ctx[r].grant EXCEPT !.lifetime = NextLifetime(c, ctx[r].grant)]
       IN  IF Config[c].usage = "OneTimeOnly"
           THEN Create(k, g, lineage[h]) /\ Deliver(h, TRUE)
           ELSE /\ grants' = [grants EXCEPT ![h] = g]
                /\ UNCHANGED lineage
                /\ Deliver(h, FALSE)
    /\ Answer(r)
    /\ UNCHANGED <<environment, sweep, ended, raced>>

-----------------------------------------------------------------------------
(***************************************************************************)
(* The revocation endpoint, and the validation of a reference token.       *)
(***************************************************************************)
RevokeGet(r) ==
    /\ pc[r] = "revoke_get"
    /\ LET g == grants[ctx[r].key] IN
       IF g = None \/ g.type = "code" \/ g.client # ctx[r].client
       THEN Reject(r)
       ELSE /\ Goto(r, "revoke_remove")
            /\ ctx' = [ctx EXCEPT ![r].grant = g]
            /\ UNCHANGED <<grants, lineage, spent>>
    /\ UNCHANGED <<environment, sweep, ended, raced>>

\* A refresh token takes the reference tokens of its user and client with it.
RevokeRemove(r) ==
    /\ pc[r] = "revoke_remove"
    /\ grants' = [grants EXCEPT ![ctx[r].key] = None]
    /\ spent' = spent \cup {ctx[r].key}
    /\ LET g == ctx[r].grant IN
       IF g.type = "refresh"
       THEN /\ Goto(r, "sweep_take")
            /\ sweep' = [sweep EXCEPT ![r] =
                   [filter |-> [user |-> g.user, client |-> g.client,
                                session |-> None, type |-> "reference"],
                    todo |-> {}]]
            /\ ctx' = [ctx EXCEPT ![r] = None]
       ELSE Answer(r) /\ UNCHANGED sweep
    /\ UNCHANGED <<environment, lineage, ended, raced>>

UseGet(r) ==
    /\ pc[r] = "use_get"
    /\ LET g == Lookup(ctx[r].key, "reference") IN
       IF g = None
       THEN Reject(r)
       ELSE /\ Goto(r, IF HasExceeded(g, g.lifetime) THEN "use_remove" ELSE "use_client")
            /\ ctx' = [ctx EXCEPT ![r].grant = g]
            /\ UNCHANGED <<grants, lineage, spent>>
    /\ UNCHANGED <<environment, sweep, ended, raced>>

UseRemove(r) ==
    /\ pc[r] = "use_remove"
    /\ grants' = [grants EXCEPT ![ctx[r].key] = None]
    /\ Answer(r)
    /\ UNCHANGED <<environment, sweep, history>>

UseClient(r) ==
    /\ pc[r] = "use_client"
    /\ IF Enabled(ctx[r].grant.client)
       THEN Answer(r) /\ Deliver(ctx[r].key, FALSE) /\ UNCHANGED <<grants, lineage>>
       ELSE Reject(r)
    /\ UNCHANGED <<environment, sweep, ended, raced>>

-----------------------------------------------------------------------------
(***************************************************************************)
(* RemoveAllAsync: the matching grants are collected first and removed one *)
(* by one; the grant service calls it for a user, with a client (the       *)
(* user takes back a consent) or a session (the user leaves).              *)
(***************************************************************************)
RemoveAllGrants(r, u, c, s) ==
    /\ pc[r] = "idle"
    /\ Goto(r, "sweep_take")
    /\ sweep' = [sweep EXCEPT ![r] =
           [filter |-> [user |-> u, client |-> c, session |-> s, type |-> None],
            todo |-> {}]]
    /\ raced' = raced \cup
           {x \in {s} \ {None} : \E q \in Requests :
               ctx[q] # None /\ lineage[ctx[q].key].session = x}
    /\ UNCHANGED <<environment, grants, ctx, lineage, spent, ended>>

SweepTake(r) ==
    /\ pc[r] = "sweep_take"
    /\ Goto(r, "sweep_remove")
    /\ sweep' = [sweep EXCEPT ![r].todo =
           {k \in Keys : grants[k] # None /\ Matches(grants[k], sweep[r].filter)}]
    /\ UNCHANGED <<environment, grants, ctx, history>>

SweepRemove(r, k) ==
    /\ pc[r] = "sweep_remove"
    /\ k \in sweep[r].todo
    /\ grants' = [grants EXCEPT ![k] = None]
    /\ sweep' = [sweep EXCEPT ![r].todo = @ \ {k}]
    /\ UNCHANGED <<environment, pc, ctx, history>>

SweepDone(r) ==
    /\ pc[r] = "sweep_remove"
    /\ sweep[r].todo = {}
    /\ Goto(r, "idle")
    /\ ended' = ended \cup ({sweep[r].filter.session} \ {None})
    /\ sweep' = [sweep EXCEPT ![r] = None]
    /\ UNCHANGED <<environment, grants, ctx, lineage, spent, raced>>

-----------------------------------------------------------------------------
EnvironmentStep ==
    \/ Tick
    \/ \E u \in Lockable : SetActive(u)
    \/ \E c \in Clients, state \in Edits : EditClient(c, state)
    \/ \E k \in Keys, c \in Clients, s \in Sessions, offline \in BOOLEAN :
          IssueCode(k, c, s, offline)

Arrival(r) ==
    \/ /\ "code_get" \in Arrivals
       /\ \E c \in Clients, k \in Keys, valid \in BOOLEAN :
             TokenRequest(r, c, k, valid, "code_get")
    \/ \E c \in Clients, k \in Keys, step \in Arrivals \cap {"refresh_get", "revoke_get"} :
          TokenRequest(r, c, k, TRUE, step)
    \/ /\ "use_get" \in Arrivals
       /\ \E k \in Keys : lineage[k] # None /\ Present(r, lineage[k].client, k, TRUE, "use_get")
    \/ /\ "sweep_take" \in Arrivals
       /\ \/ \E u \in Users, c \in Clients : RemoveAllGrants(r, u, c, None)
          \/ \E s \in Sessions : RemoveAllGrants(r, SessionUser[s], None, s)

Step(r) ==
    \/ CodeGet(r) \/ CodeRemove(r) \/ CodeActive(r) \/ CodeId(r)
    \/ RefreshGet(r) \/ RefreshActive(r) \/ RefreshConsume(r)
    \/ RevokeGet(r) \/ RevokeRemove(r)
    \/ UseGet(r) \/ UseRemove(r) \/ UseClient(r)
    \/ SweepTake(r) \/ SweepDone(r)
    \/ \E k \in Keys :
          \/ CodeAccess(r, k) \/ CodeRefresh(r, k)
          \/ RefreshAccess(r, k) \/ RefreshWrite(r, k)
          \/ SweepRemove(r, k)

Next == EnvironmentStep \/ \E r \in Requests : Arrival(r) \/ Step(r)

Spec == Init /\ [][Next]_vars

-----------------------------------------------------------------------------
(***************************************************************************)
(* Properties.                                                             *)
(***************************************************************************)

\* A grant stays with the client, the user and (unless it names none) the
\* session that were authorized, whatever chain of redemptions and rotations
\* led to it and whoever presented the handles (TokenRequestValidator,
\* DefaultRefreshTokenService: client binding).
OwnerKept ==
    \A k \in Keys : grants[k] # None =>
        /\ lineage[k] # None
        /\ grants[k].client = lineage[k].client
        /\ grants[k].user = lineage[k].user
        /\ grants[k].session \in {lineage[k].session, None}

\* Client.RefreshTokenExpiration: however often a refresh token is rotated or
\* extended, it keeps the creation time of the first one, and its lifetime does
\* not exceed AbsoluteRefreshTokenLifetime (0 stands for no limit).
LifetimeCapped ==
    \A k \in Keys : grants[k] # None /\ grants[k].type = "refresh" =>
        /\ grants[k].created = lineage[k].born
        /\ Config[grants[k].client].absolute > 0 =>
              grants[k].lifetime <= Config[grants[k].client].absolute

\* A handle that was revoked, or used up by an earlier answer, is not accepted
\* by a request that arrives later (RevokeRefreshTokenAsync, "remove code from
\* store"): neither endpoint nor interleaving brings it back ...
LateAccepted(r) == ctx[r] # None /\ ctx[r].late /\ pc[r] \in AcceptedSteps

RevokedStaysRevoked == \A r \in Requests : ~ LateAccepted(r)

\* ... except the handle of a client whose refresh tokens are extended in place.
ExtendedInPlace(k) ==
    /\ lineage[k].type = "refresh"
    /\ Config[lineage[k].client].usage = "ReUse"
    /\ Config[lineage[k].client].expiration = "Sliding"

SpentNeverAccepted ==
    \A r \in Requests : LateAccepted(r) => ExtendedInPlace(ctx[r].key)

\* Once RemoveAllGrantsAsync has run for a session, and no request was using a
\* grant of that session meanwhile, the store holds nothing issued under it.
SessionCleared ==
    \A k \in Keys : grants[k] # None => lineage[k].session \notin ended \ raced

\* A consumed refresh token is never made fresh again: its entry stays consumed
\* until it is removed (UpdateRefreshTokenAsync clears ConsumedTime only for the
\* new handle).
ConsumedStays ==
    [][\A k \in Keys :
          grants[k] # None /\ grants[k].consumed /\ grants'[k] # None
          => grants'[k].consumed]_vars

\* The store, seen one handle at a time, is the life cycle of GrantLifecycle.
LifeOf(k) ==
    IF lineage[k] = None THEN [mode |-> "none", state |-> "unborn"]
    ELSE [mode |-> IF /\ lineage[k].type = "refresh"
                      /\ Config[lineage[k].client].usage = "ReUse"
                   THEN "rewritten" ELSE "oneTime",
          state |-> IF grants[k] = None THEN "gone"
                    ELSE IF grants[k].consumed THEN "consumed" ELSE "fresh"]

Lifecycle == INSTANCE GrantLifecycle
                WITH Handles <- Keys, life <- [k \in Keys |-> LifeOf(k)]

\* TokenGrants implements GrantLifecycle: no step of any request, the races
\* between redemption, rotation and removal included, makes a one-time handle
\* fresh again.
ImplementsLifecycle == Lifecycle!Spec

=============================================================================
