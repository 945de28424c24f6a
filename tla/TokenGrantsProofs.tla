------------------------- MODULE TokenGrantsProofs -------------------------
(***************************************************************************)
(* Theorems of TokenGrants, for every set of clients, users, sessions,     *)
(* handles and requests, every configuration and any bounds.               *)
(***************************************************************************)
EXTENDS TokenGrants, TLAPS

\* Steps at which a request holds the grant it has read.
HoldingSteps ==
    RequestSteps \ {"code_get", "refresh_get", "use_get", "revoke_get"}

CodeSteps == {"code_remove", "code_active", "code_access", "code_refresh", "code_id"}

RefreshSteps == {"refresh_active", "refresh_access", "refresh_consume", "refresh_write"}

\* The locals of the request r are set whenever its next step reads them, and
\* the grant it holds does not come from the future.
LocalsOf(r) ==
    /\ pc[r] \in RequestSteps => ctx[r] \in Context /\ lineage[ctx[r].key] \in Lineage
    /\ pc[r] \in HoldingSteps => ctx[r].grant \in Grant /\ ctx[r].grant.created <= now
    /\ pc[r] \in SweepSteps => sweep[r] \in Sweep

StorePast == \A k \in Keys : grants[k] \in Grant => grants[k].created <= now

TypeInv == TypeOK /\ StorePast /\ \A r \in Requests : LocalsOf(r)

\* What the configuration of its client says of the lifetime of g.
Capped(g) == Config[g.client].absolute > 0 => g.lifetime <= Config[g.client].absolute

\* The grant g descends from the authorization l.
Descends(g, l) ==
    /\ g.client = l.client
    /\ g.user = l.user
    /\ g.session \in {l.session, None}
    /\ g.type = l.type
    /\ g.type = "refresh" => g.created = l.born /\ Capped(g)
    /\ g.consumed => /\ g.type = "refresh"
                     /\ Config[g.client].usage = "OneTimeOnly"

\* Stored grants descend from the authorization of their handle ...
StoredDescend ==
    \A k \in Keys : grants[k] \in Grant =>
        lineage[k] \in Lineage /\ Descends(grants[k], lineage[k])

\* ... and so does the copy the request r holds, which is its client's own ...
HeldDescends(r) ==
    /\ pc[r] = "use_get" => ctx[r].client = lineage[ctx[r].key].client
    /\ pc[r] \in HoldingSteps =>
          /\ Descends(ctx[r].grant, lineage[ctx[r].key])
          /\ ctx[r].client = ctx[r].grant.client
    /\ pc[r] \in CodeSteps => ctx[r].grant.type = "code"
    /\ pc[r] \in RefreshSteps => ctx[r].grant.type = "refresh" /\ ~ ctx[r].grant.consumed
    /\ pc[r] = "refresh_consume" => Config[ctx[r].client].usage = "OneTimeOnly"

\* ... and removals only concern handles that were drawn.
SweptDrawn(r) ==
    pc[r] \in SweepSteps => \A k \in sweep[r].todo : lineage[k] \in Lineage

Descent == StoredDescend /\ \A r \in Requests : HeldDescends(r) /\ SweptDrawn(r)

IInv == TypeInv /\ Descent

-----------------------------------------------------------------------------
(***************************************************************************)
(* Types.                                                                  *)
(***************************************************************************)
LEMMA LifetimesAreNat ==
    ASSUME TypeOK, NEW c \in Clients, NEW g \in Grant, now - g.created \in Nat
    PROVE  FirstLifetime(c) \in Nat /\ NextLifetime(c, g) \in Nat
BY ConfigAssumption DEF TypeOK, FirstLifetime, NextLifetime, Settings, Grant

LEMMA TypeInvInit == Init => TypeInv
BY ConfigAssumption, NoneAssumption
   DEF Init, TypeInv, TypeOK, LocalsOf, StorePast, RequestSteps, AcceptedSteps,
       HoldingSteps, SweepSteps

\* Only the request r changes its locals; the clock stands still, and the
\* authorization a handle descends from is never rewritten.
OnlyOf(r) ==
    /\ now' = now
    /\ \A q \in Requests \ {r} : pc'[q] = pc[q] /\ ctx'[q] = ctx[q] /\ sweep'[q] = sweep[q]
    /\ \A k \in Keys : lineage[k] # None => lineage'[k] = lineage[k]

LEMMA OneRequest ==
    ASSUME TypeInv, NEW r \in Requests, OnlyOf(r), TypeOK', StorePast', LocalsOf(r)'
    PROVE  TypeInv'
<1>1. \A q \in Requests \ {r} : LocalsOf(q)'
  BY NoneAssumption DEF TypeInv, LocalsOf, OnlyOf, Context
<1> QED
  BY <1>1 DEF TypeInv

LEMMA EnvironmentTypeInv ==
    ASSUME TypeInv
    PROVE  /\ Tick => TypeInv'
           /\ \A u \in Users : SetActive(u) => TypeInv'
           /\ \A c \in Clients, x \in {"full", "noOffline", "disabled"} :
                 EditClient(c, x) => TypeInv'
           /\ UNCHANGED vars => TypeInv'
<1> USE ConfigAssumption
    DEF TypeInv, TypeOK, LocalsOf, StorePast, history, environment, Grant, HoldingSteps,
        RequestSteps, AcceptedSteps
<1>1. Tick => TypeInv'
  BY DEF Tick
<1>2. ASSUME NEW u \in Users, SetActive(u) PROVE TypeInv'
  BY <1>2 DEF SetActive
<1>3. ASSUME NEW c \in Clients, NEW x \in {"full", "noOffline", "disabled"}, EditClient(c, x)
      PROVE  TypeInv'
  BY <1>3 DEF EditClient
<1>4. UNCHANGED vars => TypeInv'
  BY DEF vars
<1> QED
  BY <1>1, <1>2, <1>3, <1>4

LEMMA PresentType ==
    ASSUME TypeInv, NEW r \in Requests, NEW c \in Clients, NEW k \in Keys, NEW v \in BOOLEAN,
           NEW x \in {"code_get", "refresh_get", "revoke_get", "use_get"}, Present(r, c, k, v, x)
    PROVE  TypeInv'
<1> USE ConfigAssumption, NoneAssumption
    DEF Present, Goto, Race, history, environment, RequestSteps, AcceptedSteps, HoldingSteps, SweepSteps
<1>1. OnlyOf(r)
  BY DEF TypeInv, TypeOK, LocalsOf, OnlyOf
<1>2. TypeOK'
  BY SMTT(30) DEF TypeInv, TypeOK, LocalsOf, Grant, Context, Sweep, Lineage, Filter, GrantTypes, Settings
<1>3. StorePast'
  BY SMTT(30) DEF TypeInv, TypeOK, LocalsOf, StorePast, Grant, Context, Settings
<1>4. LocalsOf(r)'
  BY SMTT(30) DEF TypeInv, TypeOK, LocalsOf, StorePast, Grant, Context, Sweep, Lineage, Filter
<1> QED
  BY <1>1, <1>2, <1>3, <1>4, OneRequest

LEMMA RemoveAllGrantsType ==
    ASSUME TypeInv, NEW r \in Requests, NEW u \in Users, NEW c \in Clients \cup {None},
           NEW x \in Sessions \cup {None}, RemoveAllGrants(r, u, c, x)
    PROVE  TypeInv'
<1> USE ConfigAssumption, NoneAssumption
    DEF RemoveAllGrants, Goto, history, environment, RequestSteps, AcceptedSteps, HoldingSteps, SweepSteps
<1>1. OnlyOf(r)
  BY DEF TypeInv, TypeOK, LocalsOf, OnlyOf
<1>2. TypeOK'
  BY SMTT(30) DEF TypeInv, TypeOK, LocalsOf, Grant, Context, Sweep, Lineage, Filter, GrantTypes, Settings
<1>3. StorePast'
  BY SMTT(30) DEF TypeInv, TypeOK, LocalsOf, StorePast, Grant, Context, Settings
<1>4. LocalsOf(r)'
  BY SMTT(30) DEF TypeInv, TypeOK, LocalsOf, StorePast, Grant, Context, Sweep, Lineage, Filter
<1> QED
  BY <1>1, <1>2, <1>3, <1>4, OneRequest

LEMMA GotoType ==
    ASSUME TypeInv, NEW r \in Requests,
           NEW x \in {"idle"} \cup RequestSteps \cup SweepSteps, Goto(r, x)
    PROVE  pc' \in [Requests -> {"idle"} \cup RequestSteps \cup SweepSteps]
BY DEF Goto, TypeInv, TypeOK

\* What a step that stores a grant leaves behind.
StoreTyped ==
    /\ grants' \in [Keys -> Grant \cup {None}]
    /\ lineage' \in [Keys -> Lineage \cup {None}]
    /\ \A k \in Keys : lineage[k] # None => lineage'[k] = lineage[k]
    /\ now' = now => StorePast'

LEMMA CreateType ==
    ASSUME TypeInv, NEW k \in Keys, NEW g \in Grant, g.created <= now,
           NEW l \in Lineage, Create(k, g, l)
    PROVE  StoreTyped
<1>1. [l EXCEPT !.type = g.type] \in Lineage
  BY DEF Lineage, Grant
<1> QED
  BY <1>1 DEF Create, Fresh, StoreTyped, TypeInv, TypeOK, StorePast

LEMMA AccessTokenType ==
    ASSUME TypeInv, NEW r \in Requests, NEW k \in Keys, NEW u \in BOOLEAN,
           ctx[r] \in Context, ctx[r].grant \in Grant, lineage[ctx[r].key] \in Lineage,
           AccessToken(r, k, u)
    PROVE  StoreTyped
<1> DEFINE c == ctx[r].client
           g == [ctx[r].grant EXCEPT !.type = "reference", !.client = c,
                                     !.session = IF u THEN None ELSE @, !.created = now,
                                     !.lifetime = Config[c].accessLifetime]
<1>1. CASE Config[c].reference
  <2>1. g \in Grant /\ g.created <= now
    <3>1. c \in Clients /\ Config[c].accessLifetime \in Nat /\ now \in Nat
      BY ConfigAssumption DEF Context, Settings, TypeInv, TypeOK
    <3>2. (IF u THEN None ELSE ctx[r].grant.session) \in Sessions \cup {None}
      BY DEF Grant
    <3>3. \A x \in Sessions \cup {None} :
             [ctx[r].grant EXCEPT !.type = "reference", !.client = c, !.session = x,
                                  !.created = now, !.lifetime = Config[c].accessLifetime] \in Grant
      BY <3>1 DEF Grant, GrantTypes
    <3>4. g \in Grant
      BY <3>2, <3>3
    <3> QED
      BY <3>1, <3>4 DEF Grant
  <2>2. Create(k, g, lineage[ctx[r].key])
    BY <1>1 DEF AccessToken
  <2> HIDE DEF g
  <2> QED
    BY <2>1, <2>2, CreateType
<1>2. CASE ~ Config[c].reference
  BY <1>2 DEF AccessToken, StoreTyped, TypeInv, TypeOK, StorePast
<1> QED
  BY <1>1, <1>2

LEMMA IssueCodeType ==
    ASSUME TypeInv, NEW k \in Keys, NEW c \in Clients, NEW x \in Sessions,
           NEW o \in BOOLEAN, IssueCode(k, c, x, o)
    PROVE  TypeInv'
<1> DEFINE g == [type |-> "code", client |-> c, user |-> SessionUser[x], session |-> x,
                 created |-> now, lifetime |-> Config[c].codeLifetime,
                 consumed |-> FALSE, offline |-> o]
           l == [type |-> "code", client |-> c, user |-> SessionUser[x], session |-> x,
                 born |-> now]
<1>1. g \in Grant /\ g.created = now /\ l \in Lineage /\ now \in Nat
  BY ConfigAssumption DEF Grant, Lineage, GrantTypes, Settings, TypeInv, TypeOK
<1>2. Create(k, g, l)
  BY DEF IssueCode
<1>3. StoreTyped
  <2> HIDE DEF g, l
  <2> QED
    BY <1>1, <1>2, CreateType
<1>4. TypeOK' /\ StorePast'
  BY <1>3 DEF IssueCode, environment, StoreTyped, TypeInv, TypeOK
<1>5. ASSUME NEW r \in Requests PROVE LocalsOf(r)'
  BY <1>3, NoneAssumption
  DEF IssueCode, environment, StoreTyped, TypeInv, LocalsOf, Context
<1> QED
  BY <1>4, <1>5 DEF TypeInv

LEMMA CodeGetType ==
    ASSUME TypeInv, NEW r \in Requests, CodeGet(r)
    PROVE  TypeInv'
<1> USE ConfigAssumption, NoneAssumption
    DEF history, environment, RequestSteps, AcceptedSteps, HoldingSteps, SweepSteps
<1>0. ctx[r] \in Context
  BY DEF CodeGet, TypeInv, LocalsOf
<1>1. OnlyOf(r)
  BY DEF CodeGet, Goto, Answer, Reject, Deliver, Lookup, TypeInv, TypeOK, LocalsOf, OnlyOf
<1>2. TypeOK'
  <2>1. ctx' \in [Requests -> Context \cup {None}]
    BY <1>0, SMTT(30) DEF CodeGet, Goto, Answer, Reject, Deliver, Lookup, TypeInv, TypeOK, Context
  <2>2. grants' \in [Keys -> Grant \cup {None}] /\ lineage' \in [Keys -> Lineage \cup {None}]
    BY <1>0, SMTT(30) DEF CodeGet, Lookup, Reject, Answer, Goto, TypeInv, TypeOK, LocalsOf, Context, Grant, Lineage, GrantTypes
  <2>3. sweep' \in [Requests -> Sweep \cup {None}]
    BY <1>0, SMTT(30) DEF CodeGet, TypeInv, TypeOK, Sweep, Filter, Grant, GrantTypes
  <2> QED
    BY <2>1, <2>2, <2>3, SMTT(30) DEF CodeGet, Goto, Answer, Reject, Deliver, Lookup, TypeInv, TypeOK
<1>3. StorePast'
  BY <1>0, SMTT(30) DEF CodeGet, Goto, Answer, Reject, Deliver, Lookup, TypeInv, TypeOK, StorePast, Grant
<1>4. LocalsOf(r)'
  BY <1>0, <1>1, SMTT(30) DEF CodeGet, Goto, Answer, Reject, Deliver, Lookup, OnlyOf, TypeInv, TypeOK, LocalsOf, StorePast, Context
<1> QED
  BY <1>1, <1>2, <1>3, <1>4, OneRequest

LEMMA CodeRemoveType ==
    ASSUME TypeInv, NEW r \in Requests, CodeRemove(r)
    PROVE  TypeInv'
<1> USE ConfigAssumption, NoneAssumption
    DEF history, environment, RequestSteps, AcceptedSteps, HoldingSteps, SweepSteps
<1>0. ctx[r] \in Context /\ ctx[r].grant \in Grant /\ ctx[r].grant.created <= now
  BY DEF CodeRemove, TypeInv, LocalsOf
<1>1. OnlyOf(r)
  BY DEF CodeRemove, Goto, Answer, Reject, Deliver, Lookup, TypeInv, TypeOK, LocalsOf, OnlyOf
<1>2. TypeOK'
  <2>1. ctx' \in [Requests -> Context \cup {None}]
    BY <1>0, SMTT(30) DEF CodeRemove, Goto, Answer, Reject, Deliver, Lookup, TypeInv, TypeOK, Context
  <2>2. grants' \in [Keys -> Grant \cup {None}] /\ lineage' \in [Keys -> Lineage \cup {None}]
    BY <1>0, SMTT(30) DEF CodeRemove, Lookup, Reject, Answer, Goto, TypeInv, TypeOK, LocalsOf, Context, Grant, Lineage, GrantTypes
  <2>3. sweep' \in [Requests -> Sweep \cup {None}]
    BY <1>0, SMTT(30) DEF CodeRemove, TypeInv, TypeOK, Sweep, Filter, Grant, GrantTypes
  <2> QED
    BY <2>1, <2>2, <2>3, SMTT(30) DEF CodeRemove, Goto, Answer, Reject, Deliver, Lookup, TypeInv, TypeOK
<1>3. StorePast'
  BY <1>0, SMTT(30) DEF CodeRemove, Goto, Answer, Reject, Deliver, Lookup, TypeInv, TypeOK, StorePast, Grant
<1>4. LocalsOf(r)'
  BY <1>0, <1>1, SMTT(30) DEF CodeRemove, Goto, Answer, Reject, Deliver, Lookup, OnlyOf, TypeInv, TypeOK, LocalsOf, StorePast, Context
<1> QED
  BY <1>1, <1>2, <1>3, <1>4, OneRequest

LEMMA CodeActiveType ==
    ASSUME TypeInv, NEW r \in Requests, CodeActive(r)
    PROVE  TypeInv'
<1> USE ConfigAssumption, NoneAssumption
    DEF history, environment, RequestSteps, AcceptedSteps, HoldingSteps, SweepSteps
<1>0. ctx[r] \in Context /\ ctx[r].grant \in Grant /\ ctx[r].grant.created <= now
  BY DEF CodeActive, TypeInv, LocalsOf
<1>1. OnlyOf(r)
  BY DEF CodeActive, Goto, Answer, Reject, Deliver, Lookup, TypeInv, TypeOK, LocalsOf, OnlyOf
<1>2. TypeOK'
  <2>1. ctx' \in [Requests -> Context \cup {None}]
    BY <1>0, SMTT(30) DEF CodeActive, Goto, Answer, Reject, Deliver, Lookup, TypeInv, TypeOK, Context
  <2>2. grants' \in [Keys -> Grant \cup {None}] /\ lineage' \in [Keys -> Lineage \cup {None}]
    BY <1>0, SMTT(30) DEF CodeActive, Lookup, Reject, Answer, Goto, TypeInv, TypeOK, LocalsOf, Context, Grant, Lineage, GrantTypes
  <2>3. sweep' \in [Requests -> Sweep \cup {None}]
    BY <1>0, SMTT(30) DEF CodeActive, TypeInv, TypeOK, Sweep, Filter, Grant, GrantTypes
  <2> QED
    BY <2>1, <2>2, <2>3, SMTT(30) DEF CodeActive, Goto, Answer, Reject, Deliver, Lookup, TypeInv, TypeOK
<1>3. StorePast'
  BY <1>0, SMTT(30) DEF CodeActive, Goto, Answer, Reject, Deliver, Lookup, TypeInv, TypeOK, StorePast, Grant
<1>4. LocalsOf(r)'
  BY <1>0, <1>1, SMTT(30) DEF CodeActive, Goto, Answer, Reject, Deliver, Lookup, OnlyOf, TypeInv, TypeOK, LocalsOf, StorePast, Context
<1> QED
  BY <1>1, <1>2, <1>3, <1>4, OneRequest

LEMMA CodeIdType ==
    ASSUME TypeInv, NEW r \in Requests, CodeId(r)
    PROVE  TypeInv'
<1> USE ConfigAssumption, NoneAssumption
    DEF history, environment, RequestSteps, AcceptedSteps, HoldingSteps, SweepSteps
<1>0. ctx[r] \in Context /\ ctx[r].grant \in Grant /\ ctx[r].grant.created <= now
  BY DEF CodeId, TypeInv, LocalsOf
<1>1. OnlyOf(r)
  BY DEF CodeId, Goto, Answer, Reject, Deliver, Lookup, TypeInv, TypeOK, LocalsOf, OnlyOf
<1>2. TypeOK'
  <2>1. ctx' \in [Requests -> Context \cup {None}]
    BY <1>0, SMTT(30) DEF CodeId, Goto, Answer, Reject, Deliver, Lookup, TypeInv, TypeOK, Context
  <2>2. grants' \in [Keys -> Grant \cup {None}] /\ lineage' \in [Keys -> Lineage \cup {None}]
    BY <1>0, SMTT(30) DEF CodeId, Reject, Deliver, Enabled, TypeInv, TypeOK
  <2>3. sweep' \in [Requests -> Sweep \cup {None}]
    BY <1>0, SMTT(30) DEF CodeId, TypeInv, TypeOK, Sweep, Filter, Grant, GrantTypes
  <2>4. spent' \subseteq Keys
    BY <1>0 DEF CodeId, Reject, Deliver, Context, TypeInv, TypeOK
  <2>5. pc' \in [Requests -> {"idle"} \cup RequestSteps \cup SweepSteps]
    <3>1. \E x \in {"idle"} \cup RequestSteps \cup SweepSteps : Goto(r, x)
      BY DEF CodeId, Reject, Answer
    <3> QED
      BY <3>1, GotoType
  <2> QED
    BY <2>4, <2>5, <2>1, <2>2, <2>3, SMTT(30) DEF CodeId, TypeInv, TypeOK
<1>3. StorePast'
  BY <1>0, SMTT(30) DEF CodeId, Goto, Answer, Reject, Deliver, Lookup, TypeInv, TypeOK, StorePast, Grant
<1>4. LocalsOf(r)'
  BY <1>0, <1>1, SMTT(30) DEF CodeId, Goto, Answer, Reject, Deliver, Lookup, OnlyOf, TypeInv, TypeOK, LocalsOf, StorePast, Context
<1> QED
  BY <1>1, <1>2, <1>3, <1>4, OneRequest

LEMMA RefreshGetType ==
    ASSUME TypeInv, NEW r \in Requests, RefreshGet(r)
    PROVE  TypeInv'
<1> USE ConfigAssumption, NoneAssumption
    DEF history, environment, RequestSteps, AcceptedSteps, HoldingSteps, SweepSteps
<1>0. ctx[r] \in Context
  BY DEF RefreshGet, TypeInv, LocalsOf
<1>1. OnlyOf(r)
  BY DEF RefreshGet, Goto, Answer, Reject, Deliver, Lookup, TypeInv, TypeOK, LocalsOf, OnlyOf
<1>2. TypeOK'
  <2>1. ctx' \in [Requests -> Context \cup {None}]
    BY <1>0, SMTT(30) DEF RefreshGet, Goto, Answer, Reject, Deliver, Lookup, TypeInv, TypeOK, Context
  <2>2. grants' \in [Keys -> Grant \cup {None}] /\ lineage' \in [Keys -> Lineage \cup {None}]
    BY <1>0, SMTT(30) DEF RefreshGet, Lookup, Reject, Answer, Goto, TypeInv, TypeOK, LocalsOf, Context, Grant, Lineage, GrantTypes
  <2>3. sweep' \in [Requests -> Sweep \cup {None}]
    BY <1>0, SMTT(30) DEF RefreshGet, TypeInv, TypeOK, Sweep, Filter, Grant, GrantTypes
  <2> QED
    BY <2>1, <2>2, <2>3, SMTT(30) DEF RefreshGet, Goto, Answer, Reject, Deliver, Lookup, TypeInv, TypeOK
<1>3. StorePast'
  BY <1>0, SMTT(30) DEF RefreshGet, Goto, Answer, Reject, Deliver, Lookup, TypeInv, TypeOK, StorePast, Grant
<1>4. LocalsOf(r)'
  BY <1>0, <1>1, SMTT(30) DEF RefreshGet, Goto, Answer, Reject, Deliver, Lookup, OnlyOf, TypeInv, TypeOK, LocalsOf, StorePast, Context
<1> QED
  BY <1>1, <1>2, <1>3, <1>4, OneRequest

LEMMA RefreshActiveType ==
    ASSUME TypeInv, NEW r \in Requests, RefreshActive(r)
    PROVE  TypeInv'
<1> USE ConfigAssumption, NoneAssumption
    DEF history, environment, RequestSteps, AcceptedSteps, HoldingSteps, SweepSteps
<1>0. ctx[r] \in Context /\ ctx[r].grant \in Grant /\ ctx[r].grant.created <= now
  BY DEF RefreshActive, TypeInv, LocalsOf
<1>1. OnlyOf(r)
  BY DEF RefreshActive, Goto, Answer, Reject, Deliver, Lookup, TypeInv, TypeOK, LocalsOf, OnlyOf
<1>2. TypeOK'
  <2>1. ctx' \in [Requests -> Context \cup {None}]
    BY <1>0, SMTT(30) DEF RefreshActive, Goto, Answer, Reject, Deliver, Lookup, TypeInv, TypeOK, Context
  <2>2. grants' \in [Keys -> Grant \cup {None}] /\ lineage' \in [Keys -> Lineage \cup {None}]
    BY <1>0, SMTT(30) DEF RefreshActive, Lookup, Reject, Answer, Goto, TypeInv, TypeOK, LocalsOf, Context, Grant, Lineage, GrantTypes
  <2>3. sweep' \in [Requests -> Sweep \cup {None}]
    BY <1>0, SMTT(30) DEF RefreshActive, TypeInv, TypeOK, Sweep, Filter, Grant, GrantTypes
  <2> QED
    BY <2>1, <2>2, <2>3, SMTT(30) DEF RefreshActive, Goto, Answer, Reject, Deliver, Lookup, TypeInv, TypeOK
<1>3. StorePast'
  BY <1>0, SMTT(30) DEF RefreshActive, Goto, Answer, Reject, Deliver, Lookup, TypeInv, TypeOK, StorePast, Grant
<1>4. LocalsOf(r)'
  BY <1>0, <1>1, SMTT(30) DEF RefreshActive, Goto, Answer, Reject, Deliver, Lookup, OnlyOf, TypeInv, TypeOK, LocalsOf, StorePast, Context
<1> QED
  BY <1>1, <1>2, <1>3, <1>4, OneRequest

LEMMA RefreshConsumeType ==
    ASSUME TypeInv, NEW r \in Requests, RefreshConsume(r)
    PROVE  TypeInv'
<1> USE ConfigAssumption, NoneAssumption
    DEF history, environment, RequestSteps, AcceptedSteps, HoldingSteps, SweepSteps
<1>0. ctx[r] \in Context /\ ctx[r].grant \in Grant /\ ctx[r].grant.created <= now
  BY DEF RefreshConsume, TypeInv, LocalsOf
<1>1. OnlyOf(r)
  BY DEF RefreshConsume, Goto, Answer, Reject, Deliver, Lookup, TypeInv, TypeOK, LocalsOf, OnlyOf
<1>2. TypeOK'
  <2>1. ctx' \in [Requests -> Context \cup {None}]
    BY <1>0, SMTT(30) DEF RefreshConsume, Goto, Answer, Reject, Deliver, Lookup, TypeInv, TypeOK, Context
  <2>2. grants' \in [Keys -> Grant \cup {None}] /\ lineage' \in [Keys -> Lineage \cup {None}]
    <3>1. [ctx[r].grant EXCEPT !.consumed = TRUE] \in Grant
      BY <1>0 DEF Grant
    <3> QED
      BY <1>0, <3>1 DEF RefreshConsume, TypeInv, TypeOK
  <2>3. sweep' \in [Requests -> Sweep \cup {None}]
    BY <1>0, SMTT(30) DEF RefreshConsume, TypeInv, TypeOK, Sweep, Filter, Grant, GrantTypes
  <2> QED
    BY <2>1, <2>2, <2>3, SMTT(30) DEF RefreshConsume, Goto, Answer, Reject, Deliver, Lookup, TypeInv, TypeOK
<1>3. StorePast'
  BY <1>0, SMTT(30) DEF RefreshConsume, Goto, Answer, Reject, Deliver, Lookup, TypeInv, TypeOK, StorePast, Grant
<1>4. LocalsOf(r)'
  BY <1>0, <1>1, SMTT(30) DEF RefreshConsume, Goto, Answer, Reject, Deliver, Lookup, OnlyOf, TypeInv, TypeOK, LocalsOf, StorePast, Context
<1> QED
  BY <1>1, <1>2, <1>3, <1>4, OneRequest

LEMMA RevokeGetType ==
    ASSUME TypeInv, NEW r \in Requests, RevokeGet(r)
    PROVE  TypeInv'
<1> USE ConfigAssumption, NoneAssumption
    DEF history, environment, RequestSteps, AcceptedSteps, HoldingSteps, SweepSteps
<1>0. ctx[r] \in Context
  BY DEF RevokeGet, TypeInv, LocalsOf
<1>1. OnlyOf(r)
  BY DEF RevokeGet, Goto, Answer, Reject, Deliver, Lookup, TypeInv, TypeOK, LocalsOf, OnlyOf
<1>2. TypeOK'
  <2>1. ctx' \in [Requests -> Context \cup {None}]
    BY <1>0, SMTT(30) DEF RevokeGet, Goto, Answer, Reject, Deliver, Lookup, TypeInv, TypeOK, Context
  <2>2. grants' \in [Keys -> Grant \cup {None}] /\ lineage' \in [Keys -> Lineage \cup {None}]
    BY <1>0, SMTT(30) DEF RevokeGet, Lookup, Reject, Answer, Goto, TypeInv, TypeOK, LocalsOf, Context, Grant, Lineage, GrantTypes
  <2>3. sweep' \in [Requests -> Sweep \cup {None}]
    BY <1>0, SMTT(30) DEF RevokeGet, TypeInv, TypeOK, Sweep, Filter, Grant, GrantTypes
  <2> QED
    BY <2>1, <2>2, <2>3, SMTT(30) DEF RevokeGet, Goto, Answer, Reject, Deliver, Lookup, TypeInv, TypeOK
<1>3. StorePast'
  BY <1>0, SMTT(30) DEF RevokeGet, Goto, Answer, Reject, Deliver, Lookup, TypeInv, TypeOK, StorePast, Grant
<1>4. LocalsOf(r)'
  BY <1>0, <1>1, SMTT(30) DEF RevokeGet, Goto, Answer, Reject, Deliver, Lookup, OnlyOf, TypeInv, TypeOK, LocalsOf, StorePast, Context
<1> QED
  BY <1>1, <1>2, <1>3, <1>4, OneRequest

LEMMA RevokeRemoveType ==
    ASSUME TypeInv, NEW r \in Requests, RevokeRemove(r)
    PROVE  TypeInv'
<1> USE ConfigAssumption, NoneAssumption
    DEF history, environment, RequestSteps, AcceptedSteps, HoldingSteps, SweepSteps
<1>0. ctx[r] \in Context /\ ctx[r].grant \in Grant /\ ctx[r].grant.created <= now
  BY DEF RevokeRemove, TypeInv, LocalsOf
<1>1. OnlyOf(r)
  BY DEF RevokeRemove, Goto, Answer, Reject, Deliver, Lookup, TypeInv, TypeOK, LocalsOf, OnlyOf
<1>2. TypeOK'
  <2>1. ctx' \in [Requests -> Context \cup {None}]
    BY <1>0, SMTT(30) DEF RevokeRemove, Goto, Answer, Reject, Deliver, Lookup, TypeInv, TypeOK, Context
  <2>2. grants' \in [Keys -> Grant \cup {None}] /\ lineage' \in [Keys -> Lineage \cup {None}]
    BY <1>0, SMTT(30) DEF RevokeRemove, Lookup, Reject, Answer, Goto, TypeInv, TypeOK, LocalsOf, Context, Grant, Lineage, GrantTypes
  <2>3. sweep' \in [Requests -> Sweep \cup {None}]
    BY <1>0, SMTT(30) DEF RevokeRemove, TypeInv, TypeOK, Sweep, Filter, Grant, GrantTypes
  <2> QED
    BY <2>1, <2>2, <2>3, SMTT(30) DEF RevokeRemove, Goto, Answer, Reject, Deliver, Lookup, TypeInv, TypeOK
<1>3. StorePast'
  BY <1>0, SMTT(30) DEF RevokeRemove, Goto, Answer, Reject, Deliver, Lookup, TypeInv, TypeOK, StorePast, Grant
<1>4. LocalsOf(r)'
  BY <1>0, <1>1, SMTT(30) DEF RevokeRemove, Goto, Answer, Reject, Deliver, Lookup, OnlyOf, TypeInv, TypeOK, LocalsOf, StorePast, Context, Sweep, Filter, Grant, GrantTypes
<1> QED
  BY <1>1, <1>2, <1>3, <1>4, OneRequest

LEMMA UseGetType ==
    ASSUME TypeInv, NEW r \in Requests, UseGet(r)
    PROVE  TypeInv'
<1> USE ConfigAssumption, NoneAssumption
    DEF history, environment, RequestSteps, AcceptedSteps, HoldingSteps, SweepSteps
<1>0. ctx[r] \in Context
  BY DEF UseGet, TypeInv, LocalsOf
<1>1. OnlyOf(r)
  BY DEF UseGet, Goto, Answer, Reject, Deliver, Lookup, TypeInv, TypeOK, LocalsOf, OnlyOf
<1>2. TypeOK'
  <2>1. ctx' \in [Requests -> Context \cup {None}]
    BY <1>0, SMTT(30) DEF UseGet, Goto, Answer, Reject, Deliver, Lookup, TypeInv, TypeOK, Context
  <2>2. grants' \in [Keys -> Grant \cup {None}] /\ lineage' \in [Keys -> Lineage \cup {None}]
    BY <1>0, SMTT(30) DEF UseGet, Lookup, Reject, Answer, Goto, TypeInv, TypeOK, LocalsOf, Context, Grant, Lineage, GrantTypes
  <2>3. sweep' \in [Requests -> Sweep \cup {None}]
    BY <1>0, SMTT(30) DEF UseGet, TypeInv, TypeOK, Sweep, Filter, Grant, GrantTypes
  <2> QED
    BY <2>1, <2>2, <2>3, SMTT(30) DEF UseGet, Goto, Answer, Reject, Deliver, Lookup, TypeInv, TypeOK
<1>3. StorePast'
  BY <1>0, SMTT(30) DEF UseGet, Goto, Answer, Reject, Deliver, Lookup, TypeInv, TypeOK, StorePast, Grant
<1>4. LocalsOf(r)'
  BY <1>0, <1>1, SMTT(30) DEF UseGet, Goto, Answer, Reject, Deliver, Lookup, OnlyOf, TypeInv, TypeOK, LocalsOf, StorePast, Context
<1> QED
  BY <1>1, <1>2, <1>3, <1>4, OneRequest

LEMMA UseRemoveType ==
    ASSUME TypeInv, NEW r \in Requests, UseRemove(r)
    PROVE  TypeInv'
<1> USE ConfigAssumption, NoneAssumption
    DEF history, environment, RequestSteps, AcceptedSteps, HoldingSteps, SweepSteps
<1>0. ctx[r] \in Context /\ ctx[r].grant \in Grant /\ ctx[r].grant.created <= now
  BY DEF UseRemove, TypeInv, LocalsOf
<1>1. OnlyOf(r)
  BY DEF UseRemove, Goto, Answer, Reject, Deliver, Lookup, TypeInv, TypeOK, LocalsOf, OnlyOf
<1>2. TypeOK'
  <2>1. ctx' \in [Requests -> Context \cup {None}]
    BY <1>0, SMTT(30) DEF UseRemove, Goto, Answer, Reject, Deliver, Lookup, TypeInv, TypeOK, Context
  <2>2. grants' \in [Keys -> Grant \cup {None}] /\ lineage' \in [Keys -> Lineage \cup {None}]
    BY <1>0, SMTT(30) DEF UseRemove, Lookup, Reject, Answer, Goto, TypeInv, TypeOK, LocalsOf, Context, Grant, Lineage, GrantTypes
  <2>3. sweep' \in [Requests -> Sweep \cup {None}]
    BY <1>0, SMTT(30) DEF UseRemove, TypeInv, TypeOK, Sweep, Filter, Grant, GrantTypes
  <2> QED
    BY <2>1, <2>2, <2>3, SMTT(30) DEF UseRemove, Goto, Answer, Reject, Deliver, Lookup, TypeInv, TypeOK
<1>3. StorePast'
  BY <1>0, SMTT(30) DEF UseRemove, Goto, Answer, Reject, Deliver, Lookup, TypeInv, TypeOK, StorePast, Grant
<1>4. LocalsOf(r)'
  BY <1>0, <1>1, SMTT(30) DEF UseRemove, Goto, Answer, Reject, Deliver, Lookup, OnlyOf, TypeInv, TypeOK, LocalsOf, StorePast, Context
<1> QED
  BY <1>1, <1>2, <1>3, <1>4, OneRequest

LEMMA UseClientType ==
    ASSUME TypeInv, NEW r \in Requests, UseClient(r)
    PROVE  TypeInv'
<1> USE ConfigAssumption, NoneAssumption
    DEF history, environment, RequestSteps, AcceptedSteps, HoldingSteps, SweepSteps
<1>0. ctx[r] \in Context /\ ctx[r].grant \in Grant /\ ctx[r].grant.created <= now
  BY DEF UseClient, TypeInv, LocalsOf
<1>1. OnlyOf(r)
  BY DEF UseClient, Goto, Answer, Reject, Deliver, Lookup, TypeInv, TypeOK, LocalsOf, OnlyOf
<1>2. TypeOK'
  <2>1. ctx' \in [Requests -> Context \cup {None}]
    BY <1>0, SMTT(30) DEF UseClient, Goto, Answer, Reject, Deliver, Lookup, TypeInv, TypeOK, Context
  <2>2. grants' \in [Keys -> Grant \cup {None}] /\ lineage' \in [Keys -> Lineage \cup {None}]
    BY <1>0, SMTT(30) DEF UseClient, Reject, Deliver, Enabled, TypeInv, TypeOK
  <2>3. sweep' \in [Requests -> Sweep \cup {None}]
    BY <1>0, SMTT(30) DEF UseClient, TypeInv, TypeOK, Sweep, Filter, Grant, GrantTypes
  <2> QED
    BY <2>1, <2>2, <2>3, SMTT(30) DEF UseClient, Goto, Answer, Reject, Deliver, Lookup, TypeInv, TypeOK
<1>3. StorePast'
  BY <1>0, SMTT(30) DEF UseClient, Goto, Answer, Reject, Deliver, Lookup, TypeInv, TypeOK, StorePast, Grant
<1>4. LocalsOf(r)'
  BY <1>0, <1>1, SMTT(30) DEF UseClient, Goto, Answer, Reject, Deliver, Lookup, OnlyOf, TypeInv, TypeOK, LocalsOf, StorePast, Context
<1> QED
  BY <1>1, <1>2, <1>3, <1>4, OneRequest

LEMMA SweepTakeType ==
    ASSUME TypeInv, NEW r \in Requests, SweepTake(r)
    PROVE  TypeInv'
<1> USE ConfigAssumption, NoneAssumption
    DEF SweepTake, Goto, Answer, Reject, Deliver, Lookup, history, environment, RequestSteps, AcceptedSteps, HoldingSteps, SweepSteps
<1>1. OnlyOf(r)
  BY DEF TypeInv, TypeOK, LocalsOf, OnlyOf
<1>2. TypeOK'
  BY SMTT(30) DEF TypeInv, TypeOK, LocalsOf, Grant, Context, Sweep, Lineage, Filter, GrantTypes, Settings
<1>3. StorePast'
  BY SMTT(30) DEF TypeInv, TypeOK, LocalsOf, StorePast, Grant, Context, Settings
<1>4. LocalsOf(r)'
  BY SMTT(30) DEF TypeInv, TypeOK, LocalsOf, StorePast, Grant, Context, Sweep, Lineage, Filter
<1> QED
  BY <1>1, <1>2, <1>3, <1>4, OneRequest

LEMMA SweepDoneType ==
    ASSUME TypeInv, NEW r \in Requests, SweepDone(r)
    PROVE  TypeInv'
<1> USE ConfigAssumption, NoneAssumption
    DEF SweepDone, Goto, Answer, Reject, Deliver, Lookup, history, environment, RequestSteps, AcceptedSteps, HoldingSteps, SweepSteps
<1>1. OnlyOf(r)
  BY DEF TypeInv, TypeOK, LocalsOf, OnlyOf
<1>2. TypeOK'
  BY SMTT(30) DEF TypeInv, TypeOK, LocalsOf, Grant, Context, Sweep, Lineage, Filter, GrantTypes, Settings
<1>3. StorePast'
  BY SMTT(30) DEF TypeInv, TypeOK, LocalsOf, StorePast, Grant, Context, Settings
<1>4. LocalsOf(r)'
  BY SMTT(30) DEF TypeInv, TypeOK, LocalsOf, StorePast, Grant, Context, Sweep, Lineage, Filter
<1> QED
  BY <1>1, <1>2, <1>3, <1>4, OneRequest

LEMMA CodeAccessType ==
    ASSUME TypeInv, NEW r \in Requests, NEW k \in Keys, CodeAccess(r, k)
    PROVE  TypeInv'
<1> USE ConfigAssumption, NoneAssumption
    DEF history, environment, RequestSteps, AcceptedSteps, HoldingSteps, SweepSteps
<1>0. /\ ctx[r] \in Context /\ lineage[ctx[r].key] \in Lineage
      /\ ctx[r].grant \in Grant /\ ctx[r].grant.created <= now
  BY DEF CodeAccess, TypeInv, LocalsOf
<1>1. StoreTyped
  BY <1>0, AccessTokenType DEF CodeAccess, Enabled, Reject, StoreTyped, TypeInv, TypeOK, StorePast
<1>2. OnlyOf(r)
  BY <1>1 DEF CodeAccess, Goto, Answer, Reject, Deliver, TypeInv, TypeOK, LocalsOf, OnlyOf, StoreTyped
<1>3. TypeOK'
  <2>1. ctx' \in [Requests -> Context \cup {None}]
    BY DEF CodeAccess, Reject, Answer, TypeInv, TypeOK
  <2>2. pc' \in [Requests -> {"idle"} \cup RequestSteps \cup SweepSteps]
    <3>1. \E x \in {"idle"} \cup RequestSteps \cup SweepSteps : Goto(r, x)
      BY DEF CodeAccess, Reject, Answer
    <3> QED
      BY <3>1, GotoType
  <2>3. spent' \subseteq Keys
    BY <1>0 DEF CodeAccess, Reject, Deliver, Context, TypeInv, TypeOK
  <2> QED
    BY <1>1, <2>1, <2>2, <2>3 DEF CodeAccess, TypeInv, TypeOK, StoreTyped
<1>4. LocalsOf(r)'
  <2>1. pc'[r] \in HoldingSteps => ctx' = ctx
    BY ZenonT(60) DEF CodeAccess, Reject, Answer, Goto, TypeInv, TypeOK
  <2>2. pc'[r] \in {"idle", "code_refresh", "code_id", "refresh_consume", "refresh_write"}
    BY ZenonT(60) DEF CodeAccess, Reject, Answer, Goto, TypeInv, TypeOK
  <2>3. lineage'[ctx[r].key] = lineage[ctx[r].key] /\ now' = now
    BY <1>0, <1>1, <1>2 DEF StoreTyped, OnlyOf, Context
  <2> QED
    BY <1>0, <2>1, <2>2, <2>3 DEF LocalsOf
<1> QED
  BY <1>1, <1>2, <1>3, <1>4, OneRequest DEF StoreTyped, OnlyOf

LEMMA CodeRefreshType ==
    ASSUME TypeInv, NEW r \in Requests, NEW k \in Keys, CodeRefresh(r, k)
    PROVE  TypeInv'
<1> USE ConfigAssumption, NoneAssumption
    DEF history, environment, RequestSteps, AcceptedSteps, HoldingSteps, SweepSteps
<1>0. /\ ctx[r] \in Context /\ lineage[ctx[r].key] \in Lineage
      /\ ctx[r].grant \in Grant /\ ctx[r].grant.created <= now
  BY DEF CodeRefresh, TypeInv, LocalsOf
<1>n. /\ FirstLifetime(ctx[r].client) \in Nat
      /\ NextLifetime(ctx[r].client, ctx[r].grant) \in Nat
  <2>1. ctx[r].client \in Clients /\ now - ctx[r].grant.created \in Nat
    BY <1>0 DEF TypeInv, TypeOK, Context, Grant
  <2> QED
    BY <2>1, <1>0, LifetimesAreNat DEF TypeInv
<1>1. StoreTyped
  <2> DEFINE g == [ctx[r].grant EXCEPT !.type = "refresh", !.created = now,
                                       !.client = ctx[r].client,
                                       !.lifetime = FirstLifetime(ctx[r].client)]
             l == [lineage[ctx[r].key] EXCEPT !.born = now]
  <2>1. g \in Grant /\ g.created = now /\ l \in Lineage
    BY <1>0, <1>n DEF Grant, Context, GrantTypes, Lineage, TypeInv, TypeOK
  <2>2. Create(k, g, l)
    BY DEF CodeRefresh
  <2> HIDE DEF g, l
  <2> QED
    BY <2>1, <2>2, CreateType DEF TypeInv, TypeOK
<1>2. OnlyOf(r)
  BY <1>1 DEF CodeRefresh, Goto, Answer, Deliver, TypeInv, TypeOK, LocalsOf, OnlyOf, StoreTyped
<1>3. TypeOK'
  BY <1>1, SMTT(30) DEF CodeRefresh, Goto, Answer, Deliver, TypeInv, TypeOK, StoreTyped
<1>4. LocalsOf(r)'
  BY <1>0, <1>2, SMTT(30) DEF CodeRefresh, Goto, Answer, OnlyOf, TypeInv, TypeOK, LocalsOf, Context
<1> QED
  BY <1>1, <1>2, <1>3, <1>4, OneRequest DEF StoreTyped, OnlyOf

LEMMA RefreshAccessType ==
    ASSUME TypeInv, NEW r \in Requests, NEW k \in Keys, RefreshAccess(r, k)
    PROVE  TypeInv'
<1> USE ConfigAssumption, NoneAssumption
    DEF history, environment, RequestSteps, AcceptedSteps, HoldingSteps, SweepSteps
<1>0. /\ ctx[r] \in Context /\ lineage[ctx[r].key] \in Lineage
      /\ ctx[r].grant \in Grant /\ ctx[r].grant.created <= now
  BY DEF RefreshAccess, TypeInv, LocalsOf
<1>1. StoreTyped
  BY <1>0, AccessTokenType DEF RefreshAccess, Context, Settings, Enabled, Reject, StoreTyped, TypeInv, TypeOK, StorePast
<1>2. OnlyOf(r)
  BY <1>1 DEF RefreshAccess, Goto, Answer, Reject, Deliver, TypeInv, TypeOK, LocalsOf, OnlyOf, StoreTyped
<1>3. TypeOK'
  <2>1. ctx' \in [Requests -> Context \cup {None}]
    BY DEF RefreshAccess, Reject, Answer, TypeInv, TypeOK
  <2>2. pc' \in [Requests -> {"idle"} \cup RequestSteps \cup SweepSteps]
    <3>1. \E x \in {"idle"} \cup RequestSteps \cup SweepSteps : Goto(r, x)
      BY DEF RefreshAccess, Reject, Answer
    <3> QED
      BY <3>1, GotoType
  <2>3. spent' \subseteq Keys
    BY <1>0 DEF RefreshAccess, Reject, Deliver, Context, TypeInv, TypeOK
  <2> QED
    BY <1>1, <2>1, <2>2, <2>3 DEF RefreshAccess, TypeInv, TypeOK, StoreTyped
<1>4. LocalsOf(r)'
  <2>1. pc'[r] \in HoldingSteps => ctx' = ctx
    BY DEF RefreshAccess, Reject, Answer, Goto, TypeInv, TypeOK
  <2>2. pc'[r] \in {"idle", "code_refresh", "code_id", "refresh_consume", "refresh_write"}
    BY DEF RefreshAccess, Reject, Answer, Goto, TypeInv, TypeOK
  <2>3. lineage'[ctx[r].key] = lineage[ctx[r].key] /\ now' = now
    BY <1>0, <1>1, <1>2 DEF StoreTyped, OnlyOf, Context
  <2> QED
    BY <1>0, <2>1, <2>2, <2>3 DEF LocalsOf
<1> QED
  BY <1>1, <1>2, <1>3, <1>4, OneRequest DEF StoreTyped, OnlyOf

LEMMA RefreshWriteType ==
    ASSUME TypeInv, NEW r \in Requests, NEW k \in Keys, RefreshWrite(r, k)
    PROVE  TypeInv'
<1> USE ConfigAssumption, NoneAssumption
    DEF history, environment, RequestSteps, AcceptedSteps, HoldingSteps, SweepSteps
<1>0. /\ ctx[r] \in Context /\ lineage[ctx[r].key] \in Lineage
      /\ ctx[r].grant \in Grant /\ ctx[r].grant.created <= now
  BY DEF RefreshWrite, TypeInv, LocalsOf
<1>n. /\ FirstLifetime(ctx[r].client) \in Nat
      /\ NextLifetime(ctx[r].client, ctx[r].grant) \in Nat
  <2>1. ctx[r].client \in Clients /\ now - ctx[r].grant.created \in Nat
    BY <1>0 DEF TypeInv, TypeOK, Context, Grant
  <2> QED
    BY <2>1, <1>0, LifetimesAreNat DEF TypeInv
<1>1. StoreTyped
  <2> DEFINE g == [ctx[r].grant EXCEPT !.lifetime = NextLifetime(ctx[r].client, ctx[r].grant)]
             h == ctx[r].key
  <2>1. g \in Grant /\ g.created <= now /\ h \in Keys
    BY <1>0, <1>n DEF Grant, Context
  <2>2. \/ Create(k, g, lineage[h])
        \/ grants' = [grants EXCEPT ![h] = g] /\ UNCHANGED lineage
    BY DEF RefreshWrite
  <2>3. CASE Create(k, g, lineage[h])
    <3> HIDE DEF g
    <3> QED BY <1>0, <2>1, <2>3, CreateType
  <2>4. CASE grants' = [grants EXCEPT ![h] = g] /\ UNCHANGED lineage
    <3> HIDE DEF g, h
    <3>1. now' = now
      BY DEF RefreshWrite
    <3> QED BY <2>1, <2>4, <3>1 DEF TypeInv, TypeOK, StoreTyped, StorePast
  <2> QED
    BY <2>2, <2>3, <2>4
<1>2. OnlyOf(r)
  BY <1>1 DEF RefreshWrite, Goto, Answer, Deliver, TypeInv, TypeOK, LocalsOf, OnlyOf, StoreTyped
<1>3. TypeOK'
  <2>1. spent' \subseteq Keys
    BY <1>0 DEF RefreshWrite, Deliver, Context, TypeInv, TypeOK
  <2> QED
    BY <1>1, <2>1 DEF RefreshWrite, Goto, Answer, TypeInv, TypeOK, StoreTyped
<1>4. LocalsOf(r)'
  BY <1>0, <1>2, SMTT(30) DEF RefreshWrite, Goto, Answer, OnlyOf, TypeInv, TypeOK, LocalsOf, Context
<1> QED
  BY <1>1, <1>2, <1>3, <1>4, OneRequest DEF StoreTyped, OnlyOf

LEMMA SweepRemoveType ==
    ASSUME TypeInv, NEW r \in Requests, NEW k \in Keys, SweepRemove(r, k)
    PROVE  TypeInv'
<1> USE ConfigAssumption, NoneAssumption
    DEF SweepRemove, Goto, Answer, Reject, Deliver, AccessToken, Create, Fresh, history, environment, RequestSteps, AcceptedSteps, HoldingSteps, SweepSteps
<1>1. OnlyOf(r)
  BY DEF TypeInv, TypeOK, LocalsOf, OnlyOf
<1>2. TypeOK'
  BY SMTT(30) DEF TypeInv, TypeOK, LocalsOf, Grant, Context, Sweep, Lineage, Filter, GrantTypes, Settings
<1>3. StorePast'
  BY SMTT(30) DEF TypeInv, TypeOK, LocalsOf, StorePast, Grant, Context, Settings
<1>4. LocalsOf(r)'
  BY SMTT(30) DEF TypeInv, TypeOK, LocalsOf, StorePast, Grant, Context, Sweep, Lineage, Filter
<1> QED
  BY <1>1, <1>2, <1>3, <1>4, OneRequest

LEMMA TypeInvStep == TypeInv /\ [Next]_vars => TypeInv'
<1> SUFFICES ASSUME TypeInv, [Next]_vars PROVE TypeInv'
  OBVIOUS
<1>1. CASE EnvironmentStep \/ UNCHANGED vars
  BY <1>1, EnvironmentTypeInv, IssueCodeType, ConfigAssumption DEF EnvironmentStep
<1>2. ASSUME NEW r \in Requests, Arrival(r) PROVE TypeInv'
  <2>1. ASSUME NEW k \in Keys, lineage[k] # None PROVE lineage[k].client \in Clients
    BY <2>1 DEF TypeInv, TypeOK, Lineage
  <2> QED
    BY <1>2, <2>1, PresentType, RemoveAllGrantsType, ConfigAssumption, ZenonT(60) DEF Arrival, TokenRequest
<1>3. ASSUME NEW r \in Requests, Step(r) PROVE TypeInv'
  BY <1>3, CodeGetType, CodeRemoveType, CodeActiveType, CodeIdType, RefreshGetType,
     RefreshActiveType, RefreshConsumeType, RevokeGetType, RevokeRemoveType, UseGetType,
     UseRemoveType, UseClientType, SweepTakeType, SweepDoneType, CodeAccessType,
     CodeRefreshType, RefreshAccessType, RefreshWriteType, SweepRemoveType
  DEF Step
<1> QED
  BY <1>1, <1>2, <1>3 DEF Next

\* Every variable keeps its type: the clock, the store, the steps and the locals of
\* the requests of the token, revocation and introspection endpoints.
THEOREM TypeCorrect == Spec => []TypeOK
<1>1. Spec => []TypeInv
  BY TypeInvInit, TypeInvStep, PTL DEF Spec
<1> QED
  BY <1>1, PTL DEF TypeInv

-----------------------------------------------------------------------------
(***************************************************************************)
(* Descent: every grant descends from the authorization of its handle.     *)
(***************************************************************************)
LEMMA DescentInit == Init => Descent
BY NoneAssumption
   DEF Init, Descent, StoredDescend, HeldDescends, SweptDrawn, HoldingSteps, SweepSteps,
       RequestSteps, AcceptedSteps, CodeSteps, RefreshSteps

LEMMA OneRequestDescent ==
    ASSUME IInv, NEW r \in Requests, OnlyOf(r), TypeInv',
           StoredDescend', HeldDescends(r)', SweptDrawn(r)'
    PROVE  Descent'
<1>1. ASSUME NEW q \in Requests \ {r} PROVE HeldDescends(q)' /\ SweptDrawn(q)'
  <2>1. pc[q] \in RequestSteps => lineage'[ctx[q].key] = lineage[ctx[q].key]
    BY NoneAssumption
    DEF OnlyOf, IInv, TypeInv, LocalsOf, Context
  <2>2. HeldDescends(q)'
    BY <2>1, SMTT(30) DEF OnlyOf, IInv, Descent, HeldDescends, Descends, Capped, HoldingSteps,
        CodeSteps, RefreshSteps, RequestSteps, AcceptedSteps
  <2>3. pc[q] \in SweepSteps => sweep[q].todo \subseteq Keys
    BY DEF IInv, TypeInv, LocalsOf, Sweep
  <2>4. SweptDrawn(q)'
    BY <2>3, NoneAssumption DEF OnlyOf, IInv, Descent, SweptDrawn
  <2> QED
    BY <2>2, <2>4
<1> QED
  BY <1>1 DEF Descent

\* A grant is stored under a fresh handle.
LEMMA CreateDescent ==
    ASSUME IInv, NEW k \in Keys, NEW g \in Grant, NEW l \in Lineage, Create(k, g, l),
           Descends(g, [l EXCEPT !.type = g.type])
    PROVE  StoredDescend'
<1>1. [l EXCEPT !.type = g.type] \in Lineage
  BY DEF Grant, Lineage
<1> QED
  BY <1>1 DEF Create, Fresh, IInv, TypeInv, TypeOK, Descent, StoredDescend, Descends, Capped

LEMMA PresentDescent ==
    ASSUME IInv, NEW r \in Requests, NEW c \in Clients, NEW k \in Keys, NEW v \in BOOLEAN,
           NEW x \in {"code_get", "refresh_get", "revoke_get", "use_get"}, Present(r, c, k, v, x),
           x = "use_get" => c = lineage[k].client
    PROVE  Descent'
<1> USE NoneAssumption
    DEF history, environment, RequestSteps, AcceptedSteps, HoldingSteps, SweepSteps
<1>1. TypeInv' /\ OnlyOf(r)
  BY PresentType, ZenonT(60) DEF Present, Goto, IInv, TypeInv, TypeOK, LocalsOf, OnlyOf
<1>2. StoredDescend'
  BY DEF Present, Goto, IInv, TypeInv, TypeOK, LocalsOf, Context, Descent, StoredDescend
<1>3. HeldDescends(r)'
  BY <1>1, SMTT(60) DEF Present, Goto, OnlyOf, IInv, TypeInv, TypeOK, LocalsOf, Context, Descent, StoredDescend,
     HeldDescends, Descends, Capped, CodeSteps, RefreshSteps
<1>4. SweptDrawn(r)'
  BY <1>1 DEF Present, Goto, OnlyOf, IInv, TypeInv, TypeOK, LocalsOf, Descent, StoredDescend, SweptDrawn, Sweep
<1> QED
  BY <1>1, <1>2, <1>3, <1>4, OneRequestDescent

LEMMA RemoveAllGrantsDescent ==
    ASSUME IInv, NEW r \in Requests, NEW u \in Users, NEW c \in Clients \cup {None},
           NEW x \in Sessions \cup {None}, RemoveAllGrants(r, u, c, x)
    PROVE  Descent'
<1> USE NoneAssumption
    DEF history, environment, RequestSteps, AcceptedSteps, HoldingSteps, SweepSteps
<1>1. TypeInv' /\ OnlyOf(r)
  BY RemoveAllGrantsType DEF RemoveAllGrants, Goto, IInv, TypeInv, TypeOK, LocalsOf, OnlyOf
<1>2. StoredDescend'
  BY DEF RemoveAllGrants, Goto, IInv, TypeInv, TypeOK, LocalsOf, Context, Descent, StoredDescend
<1>3. HeldDescends(r)'
  BY <1>1, SMTT(60) DEF RemoveAllGrants, Goto, OnlyOf, IInv, TypeInv, TypeOK, LocalsOf, Context, Descent, StoredDescend,
     HeldDescends, Descends, Capped, CodeSteps, RefreshSteps
<1>4. SweptDrawn(r)'
  BY <1>1 DEF RemoveAllGrants, Goto, OnlyOf, IInv, TypeInv, TypeOK, LocalsOf, Descent, StoredDescend, SweptDrawn, Sweep
<1> QED
  BY <1>1, <1>2, <1>3, <1>4, OneRequestDescent

LEMMA CodeGetDescent ==
    ASSUME IInv, NEW r \in Requests, CodeGet(r)
    PROVE  Descent'
<1> USE NoneAssumption
    DEF history, environment, RequestSteps, AcceptedSteps, HoldingSteps, SweepSteps
<1>1. TypeInv' /\ OnlyOf(r)
  BY CodeGetType DEF CodeGet, Goto, Answer, Reject, Lookup, IInv, TypeInv, TypeOK, LocalsOf, OnlyOf
<1>2. StoredDescend'
  BY DEF CodeGet, Goto, Answer, Reject, Lookup, IInv, TypeInv, TypeOK, LocalsOf, Context, Descent, StoredDescend
<1>3. HeldDescends(r)'
  BY <1>1, SMTT(60) DEF CodeGet, Goto, Answer, Reject, Lookup, OnlyOf, IInv, TypeInv, TypeOK, LocalsOf, Context, Descent, StoredDescend,
     HeldDescends, Descends, Capped, CodeSteps, RefreshSteps
<1>4. SweptDrawn(r)'
  <2>1. pc'[r] \notin SweepSteps
    BY DEF CodeGet, Goto, Answer, Reject, IInv, TypeInv, TypeOK
  <2> QED
    BY <2>1 DEF SweptDrawn
<1> QED
  BY <1>1, <1>2, <1>3, <1>4, OneRequestDescent

LEMMA CodeRemoveDescent ==
    ASSUME IInv, NEW r \in Requests, CodeRemove(r)
    PROVE  Descent'
<1> USE NoneAssumption
    DEF history, environment, RequestSteps, AcceptedSteps, HoldingSteps, SweepSteps
<1>1. TypeInv' /\ OnlyOf(r)
  <2>1. TypeInv'
    BY CodeRemoveType DEF IInv
  <2>2. OnlyOf(r)
    BY DEF CodeRemove, Goto, Answer, IInv, TypeInv, TypeOK, LocalsOf, OnlyOf
  <2> QED
    BY <2>1, <2>2
<1>2. StoredDescend'
  BY DEF CodeRemove, Goto, Answer, Reject, Lookup, IInv, TypeInv, TypeOK, LocalsOf, Context, Descent, StoredDescend
<1>3. HeldDescends(r)'
  BY <1>1, SMTT(60) DEF CodeRemove, Goto, Answer, Reject, Lookup, OnlyOf, IInv, TypeInv, TypeOK, LocalsOf, Context, Descent, StoredDescend,
     HeldDescends, Descends, Capped, CodeSteps, RefreshSteps
<1>4. SweptDrawn(r)'
  <2>1. pc'[r] \notin SweepSteps
    BY DEF CodeRemove, Goto, Answer, Reject, IInv, TypeInv, TypeOK
  <2> QED
    BY <2>1 DEF SweptDrawn
<1> QED
  BY <1>1, <1>2, <1>3, <1>4, OneRequestDescent

LEMMA CodeActiveDescent ==
    ASSUME IInv, NEW r \in Requests, CodeActive(r)
    PROVE  Descent'
<1> USE NoneAssumption
    DEF history, environment, RequestSteps, AcceptedSteps, HoldingSteps, SweepSteps
<1>1. TypeInv' /\ OnlyOf(r)
  BY CodeActiveType DEF CodeActive, Goto, Answer, Reject, Lookup, IInv, TypeInv, TypeOK, LocalsOf, OnlyOf
<1>2. StoredDescend'
  BY DEF CodeActive, Goto, Answer, Reject, Lookup, IInv, TypeInv, TypeOK, LocalsOf, Context, Descent, StoredDescend
<1>3. HeldDescends(r)'
  BY <1>1, SMTT(60) DEF CodeActive, Goto, Answer, Reject, Lookup, OnlyOf, IInv, TypeInv, TypeOK, LocalsOf, Context, Descent, StoredDescend,
     HeldDescends, Descends, Capped, CodeSteps, RefreshSteps
<1>4. SweptDrawn(r)'
  <2>1. pc'[r] \notin SweepSteps
    BY DEF CodeActive, Goto, Answer, Reject, IInv, TypeInv, TypeOK
  <2> QED
    BY <2>1 DEF SweptDrawn
<1> QED
  BY <1>1, <1>2, <1>3, <1>4, OneRequestDescent

LEMMA CodeIdDescent ==
    ASSUME IInv, NEW r \in Requests, CodeId(r)
    PROVE  Descent'
<1> USE NoneAssumption
    DEF history, environment, RequestSteps, AcceptedSteps, HoldingSteps, SweepSteps
<1>1. TypeInv' /\ OnlyOf(r)
  <2>1. TypeInv'
    BY CodeIdType DEF IInv
  <2>2. OnlyOf(r)
    BY DEF CodeId, Goto, Answer, Reject, Deliver, IInv, TypeInv, TypeOK, LocalsOf, OnlyOf
  <2> QED
    BY <2>1, <2>2
<1>2. StoredDescend'
  BY DEF CodeId, Goto, Answer, Reject, Lookup, IInv, TypeInv, TypeOK, LocalsOf, Context, Descent, StoredDescend
<1>3. HeldDescends(r)'
  <2>1. pc'[r] = "idle"
    BY DEF CodeId, Reject, Answer, Goto, IInv, TypeInv, TypeOK
  <2> QED
    BY <2>1 DEF HeldDescends, CodeSteps, RefreshSteps
<1>4. SweptDrawn(r)'
  <2>1. pc'[r] \notin SweepSteps
    BY DEF CodeId, Goto, Answer, Reject, IInv, TypeInv, TypeOK
  <2> QED
    BY <2>1 DEF SweptDrawn
<1> QED
  BY <1>1, <1>2, <1>3, <1>4, OneRequestDescent

LEMMA RefreshGetDescent ==
    ASSUME IInv, NEW r \in Requests, RefreshGet(r)
    PROVE  Descent'
<1> USE NoneAssumption
    DEF history, environment, RequestSteps, AcceptedSteps, HoldingSteps, SweepSteps
<1>1. TypeInv' /\ OnlyOf(r)
  BY RefreshGetType DEF RefreshGet, Goto, Answer, Reject, Lookup, IInv, TypeInv, TypeOK, LocalsOf, OnlyOf
<1>2. StoredDescend'
  BY DEF RefreshGet, Goto, Answer, Reject, Lookup, IInv, TypeInv, TypeOK, LocalsOf, Context, Descent, StoredDescend
<1>3. HeldDescends(r)'
  BY <1>1, SMTT(60) DEF RefreshGet, Goto, Answer, Reject, Lookup, OnlyOf, IInv, TypeInv, TypeOK, LocalsOf, Context, Descent, StoredDescend,
     HeldDescends, Descends, Capped, CodeSteps, RefreshSteps
<1>4. SweptDrawn(r)'
  <2>1. pc'[r] \notin SweepSteps
    BY DEF RefreshGet, Goto, Answer, Reject, IInv, TypeInv, TypeOK
  <2> QED
    BY <2>1 DEF SweptDrawn
<1> QED
  BY <1>1, <1>2, <1>3, <1>4, OneRequestDescent

LEMMA RefreshActiveDescent ==
    ASSUME IInv, NEW r \in Requests, RefreshActive(r)
    PROVE  Descent'
<1> USE NoneAssumption
    DEF history, environment, RequestSteps, AcceptedSteps, HoldingSteps, SweepSteps
<1>1. TypeInv' /\ OnlyOf(r)
  BY RefreshActiveType DEF RefreshActive, Goto, Answer, Reject, Lookup, IInv, TypeInv, TypeOK, LocalsOf, OnlyOf
<1>2. StoredDescend'
  BY DEF RefreshActive, Goto, Answer, Reject, Lookup, IInv, TypeInv, TypeOK, LocalsOf, Context, Descent, StoredDescend
<1>3. HeldDescends(r)'
  BY <1>1, SMTT(60) DEF RefreshActive, Goto, Answer, Reject, Lookup, OnlyOf, IInv, TypeInv, TypeOK, LocalsOf, Context, Descent, StoredDescend,
     HeldDescends, Descends, Capped, CodeSteps, RefreshSteps
<1>4. SweptDrawn(r)'
  <2>1. pc'[r] \notin SweepSteps
    BY DEF RefreshActive, Goto, Answer, Reject, IInv, TypeInv, TypeOK
  <2> QED
    BY <2>1 DEF SweptDrawn
<1> QED
  BY <1>1, <1>2, <1>3, <1>4, OneRequestDescent

LEMMA RefreshConsumeDescent ==
    ASSUME IInv, NEW r \in Requests, RefreshConsume(r)
    PROVE  Descent'
<1> USE NoneAssumption
    DEF history, environment, RequestSteps, AcceptedSteps, HoldingSteps, SweepSteps
<1>1. TypeInv' /\ OnlyOf(r)
  BY RefreshConsumeType DEF RefreshConsume, Goto, Answer, Reject, Lookup, IInv, TypeInv, TypeOK, LocalsOf, OnlyOf
<1>2. StoredDescend'
  <2> DEFINE g == [ctx[r].grant EXCEPT !.consumed = TRUE]
             h == ctx[r].key
  <2>1. h \in Keys /\ ctx[r].grant \in Grant /\ lineage[h] \in Lineage
    BY DEF RefreshConsume, IInv, TypeInv, LocalsOf, Context
  <2>2. Descends(g, lineage[h])
    BY <2>1 DEF RefreshConsume, IInv, Descent, HeldDescends, Descends, Capped, Grant,
       RefreshSteps
  <2>3. grants' = [grants EXCEPT ![h] = g] /\ lineage' = lineage
    BY DEF RefreshConsume
  <2> HIDE DEF g, h
  <2> QED
    BY <2>1, <2>2, <2>3 DEF IInv, TypeInv, TypeOK, Descent, StoredDescend, Descends, Capped
<1>3. HeldDescends(r)'
  BY <1>1, SMTT(60) DEF RefreshConsume, Goto, Answer, Reject, Lookup, OnlyOf, IInv, TypeInv, TypeOK, LocalsOf, Context, Descent, StoredDescend,
     HeldDescends, Descends, Capped, CodeSteps, RefreshSteps
<1>4. SweptDrawn(r)'
  <2>1. pc'[r] \notin SweepSteps
    BY DEF RefreshConsume, Goto, Answer, Reject, IInv, TypeInv, TypeOK
  <2> QED
    BY <2>1 DEF SweptDrawn
<1> QED
  BY <1>1, <1>2, <1>3, <1>4, OneRequestDescent

LEMMA RevokeGetDescent ==
    ASSUME IInv, NEW r \in Requests, RevokeGet(r)
    PROVE  Descent'
<1> USE NoneAssumption
    DEF history, environment, RequestSteps, AcceptedSteps, HoldingSteps, SweepSteps
<1>1. TypeInv' /\ OnlyOf(r)
  BY RevokeGetType DEF RevokeGet, Goto, Answer, Reject, Lookup, IInv, TypeInv, TypeOK, LocalsOf, OnlyOf
<1>2. StoredDescend'
  BY DEF RevokeGet, Goto, Answer, Reject, Lookup, IInv, TypeInv, TypeOK, LocalsOf, Context, Descent, StoredDescend
<1>3. HeldDescends(r)'
  BY <1>1, SMTT(60) DEF RevokeGet, Goto, Answer, Reject, Lookup, OnlyOf, IInv, TypeInv, TypeOK, LocalsOf, Context, Descent, StoredDescend,
     HeldDescends, Descends, Capped, CodeSteps, RefreshSteps
<1>4. SweptDrawn(r)'
  <2>1. pc'[r] \notin SweepSteps
    BY DEF RevokeGet, Goto, Answer, Reject, IInv, TypeInv, TypeOK
  <2> QED
    BY <2>1 DEF SweptDrawn
<1> QED
  BY <1>1, <1>2, <1>3, <1>4, OneRequestDescent

LEMMA RevokeRemoveDescent ==
    ASSUME IInv, NEW r \in Requests, RevokeRemove(r)
    PROVE  Descent'
<1> USE NoneAssumption
    DEF history, environment, RequestSteps, AcceptedSteps, HoldingSteps, SweepSteps
<1>1. TypeInv' /\ OnlyOf(r)
  <2>1. TypeInv'
    BY RevokeRemoveType DEF IInv
  <2>2. OnlyOf(r)
    BY DEF RevokeRemove, Goto, Answer, IInv, TypeInv, TypeOK, LocalsOf, OnlyOf
  <2> QED
    BY <2>1, <2>2
<1>2. StoredDescend'
  BY DEF RevokeRemove, Goto, Answer, Reject, Lookup, IInv, TypeInv, TypeOK, LocalsOf, Context, Descent, StoredDescend
<1>3. HeldDescends(r)'
  BY <1>1, SMTT(60) DEF RevokeRemove, Goto, Answer, Reject, Lookup, OnlyOf, IInv, TypeInv, TypeOK, LocalsOf, Context, Descent, StoredDescend,
     HeldDescends, Descends, Capped, CodeSteps, RefreshSteps
<1>4. SweptDrawn(r)'
  BY <1>1 DEF RevokeRemove, Goto, Answer, Reject, Lookup, OnlyOf, IInv, TypeInv, TypeOK, LocalsOf, Descent, StoredDescend, SweptDrawn, Sweep
<1> QED
  BY <1>1, <1>2, <1>3, <1>4, OneRequestDescent

LEMMA UseGetDescent ==
    ASSUME IInv, NEW r \in Requests, UseGet(r)
    PROVE  Descent'
<1> USE NoneAssumption
    DEF history, environment, RequestSteps, AcceptedSteps, HoldingSteps, SweepSteps
<1>1. TypeInv' /\ OnlyOf(r)
  BY UseGetType DEF UseGet, Goto, Answer, Reject, Lookup, IInv, TypeInv, TypeOK, LocalsOf, OnlyOf
<1>2. StoredDescend'
  BY DEF UseGet, Goto, Answer, Reject, Lookup, IInv, TypeInv, TypeOK, LocalsOf, Context, Descent, StoredDescend
<1>3. HeldDescends(r)'
  BY <1>1, SMTT(60) DEF UseGet, Goto, Answer, Reject, Lookup, OnlyOf, IInv, TypeInv, TypeOK, LocalsOf, Context, Descent, StoredDescend,
     HeldDescends, Descends, Capped, CodeSteps, RefreshSteps
<1>4. SweptDrawn(r)'
  <2>1. pc'[r] \notin SweepSteps
    BY DEF UseGet, Goto, Answer, Reject, IInv, TypeInv, TypeOK
  <2> QED
    BY <2>1 DEF SweptDrawn
<1> QED
  BY <1>1, <1>2, <1>3, <1>4, OneRequestDescent

LEMMA UseRemoveDescent ==
    ASSUME IInv, NEW r \in Requests, UseRemove(r)
    PROVE  Descent'
<1> USE NoneAssumption
    DEF history, environment, RequestSteps, AcceptedSteps, HoldingSteps, SweepSteps
<1>1. TypeInv' /\ OnlyOf(r)
  BY UseRemoveType DEF UseRemove, Goto, Answer, Reject, Lookup, IInv, TypeInv, TypeOK, LocalsOf, OnlyOf
<1>2. StoredDescend'
  BY DEF UseRemove, Goto, Answer, Reject, Lookup, IInv, TypeInv, TypeOK, LocalsOf, Context, Descent, StoredDescend
<1>3. HeldDescends(r)'
  BY <1>1, SMTT(60) DEF UseRemove, Goto, Answer, Reject, Lookup, OnlyOf, IInv, TypeInv, TypeOK, LocalsOf, Context, Descent, StoredDescend,
     HeldDescends, Descends, Capped, CodeSteps, RefreshSteps
<1>4. SweptDrawn(r)'
  <2>1. pc'[r] \notin SweepSteps
    BY DEF UseRemove, Goto, Answer, Reject, IInv, TypeInv, TypeOK
  <2> QED
    BY <2>1 DEF SweptDrawn
<1> QED
  BY <1>1, <1>2, <1>3, <1>4, OneRequestDescent

LEMMA UseClientDescent ==
    ASSUME IInv, NEW r \in Requests, UseClient(r)
    PROVE  Descent'
<1> USE NoneAssumption
    DEF history, environment, RequestSteps, AcceptedSteps, HoldingSteps, SweepSteps
<1>1. TypeInv' /\ OnlyOf(r)
  <2>1. TypeInv'
    BY UseClientType DEF IInv
  <2>2. OnlyOf(r)
    BY DEF UseClient, Goto, Answer, Reject, Deliver, IInv, TypeInv, TypeOK, LocalsOf, OnlyOf
  <2> QED
    BY <2>1, <2>2
<1>2. StoredDescend'
  BY DEF UseClient, Goto, Answer, Reject, Lookup, IInv, TypeInv, TypeOK, LocalsOf, Context, Descent, StoredDescend
<1>3. HeldDescends(r)'
  <2>1. pc'[r] = "idle"
    BY DEF UseClient, Reject, Answer, Goto, IInv, TypeInv, TypeOK
  <2> QED
    BY <2>1 DEF HeldDescends, CodeSteps, RefreshSteps
<1>4. SweptDrawn(r)'
  <2>1. pc'[r] = "idle"
    BY DEF UseClient, Reject, Answer, Goto, IInv, TypeInv, TypeOK
  <2> QED
    BY <2>1 DEF SweptDrawn, SweepSteps
<1> QED
  BY <1>1, <1>2, <1>3, <1>4, OneRequestDescent

LEMMA SweepTakeDescent ==
    ASSUME IInv, NEW r \in Requests, SweepTake(r)
    PROVE  Descent'
<1> USE NoneAssumption
    DEF history, environment, RequestSteps, AcceptedSteps, HoldingSteps, SweepSteps
<1>1. TypeInv' /\ OnlyOf(r)
  BY SweepTakeType DEF SweepTake, Goto, Answer, Reject, Lookup, IInv, TypeInv, TypeOK, LocalsOf, OnlyOf
<1>2. StoredDescend'
  BY DEF SweepTake, Goto, Answer, Reject, Lookup, IInv, TypeInv, TypeOK, LocalsOf, Context, Descent, StoredDescend
<1>3. HeldDescends(r)'
  BY <1>1, SMTT(60) DEF SweepTake, Goto, Answer, Reject, Lookup, OnlyOf, IInv, TypeInv, TypeOK, LocalsOf, Context, Descent, StoredDescend,
     HeldDescends, Descends, Capped, CodeSteps, RefreshSteps
<1>4. SweptDrawn(r)'
  BY <1>1 DEF SweepTake, Goto, Answer, Reject, Lookup, OnlyOf, IInv, TypeInv, TypeOK, LocalsOf, Descent, StoredDescend, SweptDrawn, Sweep
<1> QED
  BY <1>1, <1>2, <1>3, <1>4, OneRequestDescent

LEMMA SweepDoneDescent ==
    ASSUME IInv, NEW r \in Requests, SweepDone(r)
    PROVE  Descent'
<1> USE NoneAssumption
    DEF history, environment, RequestSteps, AcceptedSteps, HoldingSteps, SweepSteps
<1>1. TypeInv' /\ OnlyOf(r)
  BY SweepDoneType DEF SweepDone, Goto, Answer, Reject, Lookup, IInv, TypeInv, TypeOK, LocalsOf, OnlyOf
<1>2. StoredDescend'
  BY DEF SweepDone, Goto, Answer, Reject, Lookup, IInv, TypeInv, TypeOK, LocalsOf, Context, Descent, StoredDescend
<1>3. HeldDescends(r)'
  BY <1>1, SMTT(60) DEF SweepDone, Goto, Answer, Reject, Lookup, OnlyOf, IInv, TypeInv, TypeOK, LocalsOf, Context, Descent, StoredDescend,
     HeldDescends, Descends, Capped, CodeSteps, RefreshSteps
<1>4. SweptDrawn(r)'
  BY <1>1 DEF SweepDone, Goto, Answer, Reject, Lookup, OnlyOf, IInv, TypeInv, TypeOK, LocalsOf, Descent, StoredDescend, SweptDrawn, Sweep
<1> QED
  BY <1>1, <1>2, <1>3, <1>4, OneRequestDescent

LEMMA SweepRemoveDescent ==
    ASSUME IInv, NEW r \in Requests, NEW k \in Keys, SweepRemove(r, k)
    PROVE  Descent'
<1> USE NoneAssumption
    DEF history, environment, RequestSteps, AcceptedSteps, HoldingSteps, SweepSteps
<1>1. TypeInv' /\ OnlyOf(r)
  BY SweepRemoveType DEF SweepRemove, Goto, IInv, TypeInv, TypeOK, LocalsOf, OnlyOf
<1>2. StoredDescend'
  BY DEF SweepRemove, Goto, IInv, TypeInv, TypeOK, LocalsOf, Context, Descent, StoredDescend
<1>3. HeldDescends(r)'
  BY <1>1, SMTT(60) DEF SweepRemove, Goto, OnlyOf, IInv, TypeInv, TypeOK, LocalsOf, Context, Descent, StoredDescend,
     HeldDescends, Descends, Capped, CodeSteps, RefreshSteps
<1>4. SweptDrawn(r)'
  BY <1>1 DEF SweepRemove, Goto, OnlyOf, IInv, TypeInv, TypeOK, LocalsOf, Descent, StoredDescend, SweptDrawn, Sweep
<1> QED
  BY <1>1, <1>2, <1>3, <1>4, OneRequestDescent

LEMMA AccessTokenDescent ==
    ASSUME IInv, NEW r \in Requests, NEW k \in Keys, NEW u \in BOOLEAN,
           ctx[r] \in Context, ctx[r].grant \in Grant, lineage[ctx[r].key] \in Lineage,
           Descends(ctx[r].grant, lineage[ctx[r].key]), ~ ctx[r].grant.consumed,
           ctx[r].client = ctx[r].grant.client, AccessToken(r, k, u)
    PROVE  StoredDescend'
<1> DEFINE c == ctx[r].client
           l == lineage[ctx[r].key]
           g == [ctx[r].grant EXCEPT !.type = "reference", !.client = c,
                                     !.session = IF u THEN None ELSE @, !.created = now,
                                     !.lifetime = Config[c].accessLifetime]
<1>1. CASE Config[c].reference
  <2>1. g \in Grant
    <3>1. c \in Clients /\ Config[c].accessLifetime \in Nat /\ now \in Nat
      BY ConfigAssumption DEF Context, Settings, IInv, TypeInv, TypeOK
    <3>2. (IF u THEN None ELSE ctx[r].grant.session) \in Sessions \cup {None}
      BY DEF Grant
    <3>3. \A x \in Sessions \cup {None} :
             [ctx[r].grant EXCEPT !.type = "reference", !.client = c, !.session = x,
                                  !.created = now, !.lifetime = Config[c].accessLifetime] \in Grant
      BY <3>1 DEF Grant, GrantTypes
    <3> QED
      BY <3>2, <3>3
  <2>2. Descends(g, [l EXCEPT !.type = g.type])
    BY DEF Descends, Capped, Grant, Lineage
  <2>3. Create(k, g, l)
    BY <1>1 DEF AccessToken
  <2> HIDE DEF g, l
  <2> QED
    BY <2>1, <2>2, <2>3, CreateDescent DEF l
<1>2. CASE ~ Config[c].reference
  BY <1>2 DEF AccessToken, IInv, Descent, StoredDescend, Descends, Capped
<1> QED
  BY <1>1, <1>2

LEMMA CodeAccessDescent ==
    ASSUME IInv, NEW r \in Requests, NEW k \in Keys, CodeAccess(r, k)
    PROVE  Descent'
<1> USE NoneAssumption
    DEF history, environment, RequestSteps, AcceptedSteps, HoldingSteps, SweepSteps
<1>0. /\ ctx[r] \in Context /\ lineage[ctx[r].key] \in Lineage /\ ctx[r].key \in Keys
      /\ ctx[r].grant \in Grant
      /\ Descends(ctx[r].grant, lineage[ctx[r].key])
      /\ ctx[r].client = ctx[r].grant.client
  BY DEF CodeAccess, IInv, TypeInv, LocalsOf, Descent, HeldDescends, Context
<1>1. TypeInv'
  BY CodeAccessType DEF IInv
<1>2. OnlyOf(r)
  <2>1. StoreTyped
    BY <1>0, ConfigAssumption, AccessTokenType, ZenonT(60)
    DEF CodeAccess, Enabled, Reject, StoreTyped, IInv, TypeInv, TypeOK, StorePast, Context, Settings
  <2> QED
    BY <2>1 DEF CodeAccess, Goto, Answer, Reject, Deliver, IInv, TypeInv, TypeOK, OnlyOf, StoreTyped
<1>3. StoredDescend'
  <2>1. ~ ctx[r].grant.consumed
    BY <1>0 DEF CodeAccess, IInv, Descent, HeldDescends, Descends, CodeSteps, RefreshSteps
  <2>2. \/ \E u \in BOOLEAN : AccessToken(r, k, u)
        \/ UNCHANGED <<grants, lineage>>
    BY <1>0, ConfigAssumption DEF CodeAccess, Reject, Context, Settings
  <2>3. CASE UNCHANGED <<grants, lineage>>
    BY <2>3 DEF IInv, Descent, StoredDescend, Descends, Capped
  <2> QED
    BY <1>0, <2>1, <2>2, <2>3, AccessTokenDescent
<1>4. HeldDescends(r)'
  <2>1. pc'[r] \in HoldingSteps => ctx' = ctx
    BY DEF CodeAccess, Reject, Answer, Goto, IInv, TypeInv, TypeOK
  <2>2. pc'[r] \in {"idle", "code_refresh", "code_id"}
    BY DEF CodeAccess, Reject, Answer, Goto, IInv, TypeInv, TypeOK
  <2>3. lineage'[ctx[r].key] = lineage[ctx[r].key]
    BY <1>0, <1>2 DEF OnlyOf
  <2>4. pc'[r] = "refresh_consume" => Config[ctx[r].client].usage = "OneTimeOnly"
    BY DEF CodeAccess, Reject, Answer, Goto, IInv, TypeInv, TypeOK
  <2> QED
    BY <1>0, <2>1, <2>2, <2>3, <2>4, ZenonT(60)
    DEF CodeAccess, IInv, Descent, HeldDescends, Descends, Capped, CodeSteps, RefreshSteps
<1>5. SweptDrawn(r)'
  <2>1. pc'[r] \in {"idle"} \cup RequestSteps
    BY DEF CodeAccess, Reject, Answer, Goto, IInv, TypeInv, TypeOK
  <2> QED
    BY <2>1 DEF SweptDrawn
<1> QED
  BY <1>1, <1>2, <1>3, <1>4, <1>5, OneRequestDescent

LEMMA RefreshAccessDescent ==
    ASSUME IInv, NEW r \in Requests, NEW k \in Keys, RefreshAccess(r, k)
    PROVE  Descent'
<1> USE NoneAssumption
    DEF history, environment, RequestSteps, AcceptedSteps, HoldingSteps, SweepSteps
<1>0. /\ ctx[r] \in Context /\ lineage[ctx[r].key] \in Lineage /\ ctx[r].key \in Keys
      /\ ctx[r].grant \in Grant
      /\ Descends(ctx[r].grant, lineage[ctx[r].key])
      /\ ctx[r].client = ctx[r].grant.client
  BY DEF RefreshAccess, IInv, TypeInv, LocalsOf, Descent, HeldDescends, Context
<1>1. TypeInv'
  BY RefreshAccessType DEF IInv
<1>2. OnlyOf(r)
  <2>1. StoreTyped
    BY <1>0, ConfigAssumption, AccessTokenType, SMTT(30)
    DEF RefreshAccess, Enabled, Reject, StoreTyped, IInv, TypeInv, TypeOK, StorePast, Context, Settings
  <2> QED
    BY <2>1 DEF RefreshAccess, Goto, Answer, Reject, Deliver, IInv, TypeInv, TypeOK, OnlyOf, StoreTyped
<1>3. StoredDescend'
  <2>1. ~ ctx[r].grant.consumed
    BY <1>0 DEF RefreshAccess, IInv, Descent, HeldDescends, Descends, CodeSteps, RefreshSteps
  <2>2. \/ \E u \in BOOLEAN : AccessToken(r, k, u)
        \/ UNCHANGED <<grants, lineage>>
    BY <1>0, ConfigAssumption DEF RefreshAccess, Reject, Context, Settings
  <2>3. CASE UNCHANGED <<grants, lineage>>
    BY <2>3 DEF IInv, Descent, StoredDescend, Descends, Capped
  <2> QED
    BY <1>0, <2>1, <2>2, <2>3, AccessTokenDescent
<1>4. HeldDescends(r)'
  <2>1. pc'[r] \in HoldingSteps => ctx' = ctx
    BY DEF RefreshAccess, Reject, Answer, Goto, IInv, TypeInv, TypeOK
  <2>2. pc'[r] \in {"idle", "refresh_consume", "refresh_write"}
    BY DEF RefreshAccess, Reject, Answer, Goto, IInv, TypeInv, TypeOK
  <2>3. lineage'[ctx[r].key] = lineage[ctx[r].key]
    BY <1>0, <1>2 DEF OnlyOf
  <2>4. pc'[r] = "refresh_consume" => Config[ctx[r].client].usage = "OneTimeOnly"
    BY DEF RefreshAccess, Reject, Answer, Goto, IInv, TypeInv, TypeOK
  <2> QED
    BY <1>0, <2>1, <2>2, <2>3, <2>4, ZenonT(60)
    DEF RefreshAccess, IInv, Descent, HeldDescends, Descends, Capped, CodeSteps, RefreshSteps
<1>5. SweptDrawn(r)'
  <2>1. pc'[r] \in {"idle"} \cup RequestSteps
    BY DEF RefreshAccess, Reject, Answer, Goto, IInv, TypeInv, TypeOK
  <2> QED
    BY <2>1 DEF SweptDrawn
<1> QED
  BY <1>1, <1>2, <1>3, <1>4, <1>5, OneRequestDescent

LEMMA CodeRefreshDescent ==
    ASSUME IInv, NEW r \in Requests, NEW k \in Keys, CodeRefresh(r, k)
    PROVE  Descent'
<1> USE NoneAssumption
    DEF history, environment, RequestSteps, AcceptedSteps, HoldingSteps, SweepSteps
<1>0. /\ ctx[r] \in Context /\ lineage[ctx[r].key] \in Lineage /\ ctx[r].key \in Keys
      /\ ctx[r].grant \in Grant
      /\ Descends(ctx[r].grant, lineage[ctx[r].key])
      /\ ctx[r].client = ctx[r].grant.client
  BY DEF CodeRefresh, IInv, TypeInv, LocalsOf, Descent, HeldDescends, Context
<1>1. TypeInv'
  BY CodeRefreshType DEF IInv
<1>2. OnlyOf(r)
  BY DEF CodeRefresh, Create, Fresh, Goto, IInv, TypeInv, TypeOK, OnlyOf
<1>3. StoredDescend'
  <2> DEFINE g == [ctx[r].grant EXCEPT !.type = "refresh", !.created = now,
                                       !.client = ctx[r].client,
                                       !.lifetime = FirstLifetime(ctx[r].client)]
             l == [lineage[ctx[r].key] EXCEPT !.born = now]
  <2>1. ctx[r].client \in Clients /\ now \in Nat /\ Config[ctx[r].client] \in Settings
    BY <1>0, ConfigAssumption DEF IInv, TypeInv, TypeOK, Context
  <2>2. FirstLifetime(ctx[r].client) \in Nat
    BY <2>1 DEF FirstLifetime, Settings
  <2>3. g \in Grant /\ l \in Lineage
    BY <1>0, <2>1, <2>2 DEF Grant, GrantTypes, Lineage
  <2>4. Config[ctx[r].client].absolute > 0 =>
            FirstLifetime(ctx[r].client) <= Config[ctx[r].client].absolute
    BY <2>1 DEF FirstLifetime, Settings
  <2>5. ~ ctx[r].grant.consumed
    BY <1>0 DEF CodeRefresh, IInv, Descent, HeldDescends, Descends, CodeSteps
  <2>6. Descends(g, [l EXCEPT !.type = g.type])
    BY <1>0, <2>4, <2>5 DEF Descends, Capped, Grant, Lineage
  <2>7. Create(k, g, l)
    BY DEF CodeRefresh
  <2> HIDE DEF g, l
  <2> QED
    BY <2>3, <2>6, <2>7, CreateDescent
<1>4. HeldDescends(r)'
  <2>1. ctx' = ctx /\ pc'[r] = "code_id" /\ pc[r] = "code_refresh"
    BY DEF CodeRefresh, Goto, IInv, TypeInv, TypeOK
  <2>2. lineage'[ctx[r].key] = lineage[ctx[r].key]
    BY <1>0, <1>2 DEF OnlyOf
  <2> QED
    BY <1>0, <2>1, <2>2
    DEF IInv, Descent, HeldDescends, Descends, Capped, CodeSteps, RefreshSteps
<1>5. SweptDrawn(r)'
  <2>1. pc'[r] \in {"idle"} \cup RequestSteps
    BY DEF CodeRefresh, Reject, Answer, Goto, IInv, TypeInv, TypeOK
  <2> QED
    BY <2>1 DEF SweptDrawn
<1> QED
  BY <1>1, <1>2, <1>3, <1>4, <1>5, OneRequestDescent

LEMMA RefreshWriteDescent ==
    ASSUME IInv, NEW r \in Requests, NEW k \in Keys, RefreshWrite(r, k)
    PROVE  Descent'
<1> USE NoneAssumption
    DEF history, environment, RequestSteps, AcceptedSteps, HoldingSteps, SweepSteps
<1>0. /\ ctx[r] \in Context /\ lineage[ctx[r].key] \in Lineage /\ ctx[r].key \in Keys
      /\ ctx[r].grant \in Grant
      /\ Descends(ctx[r].grant, lineage[ctx[r].key])
      /\ ctx[r].client = ctx[r].grant.client
  BY DEF RefreshWrite, IInv, TypeInv, LocalsOf, Descent, HeldDescends, Context
<1>1. TypeInv'
  BY RefreshWriteType DEF IInv
<1>2. OnlyOf(r)
  BY DEF RefreshWrite, Create, Fresh, Goto, Answer, IInv, TypeInv, TypeOK, OnlyOf
<1>3. StoredDescend'
  <2> DEFINE g == [ctx[r].grant EXCEPT !.lifetime = NextLifetime(ctx[r].client, ctx[r].grant)]
             h == ctx[r].key
  <2>1. ctx[r].client \in Clients /\ Config[ctx[r].client] \in Settings
        /\ now - ctx[r].grant.created \in Nat
    BY <1>0, ConfigAssumption DEF RefreshWrite, IInv, TypeInv, TypeOK, LocalsOf, Context, Grant
  <2>2. NextLifetime(ctx[r].client, ctx[r].grant) \in Nat
    BY <1>0, <2>1, LifetimesAreNat DEF IInv, TypeInv
  <2>3. g \in Grant
    BY <1>0, <2>2 DEF Grant
  <2>4. ctx[r].grant.type = "refresh" /\ ~ ctx[r].grant.consumed
    BY DEF RefreshWrite, IInv, Descent, HeldDescends, RefreshSteps
  <2>5. Config[ctx[r].client].absolute > 0 =>
            NextLifetime(ctx[r].client, ctx[r].grant) <= Config[ctx[r].client].absolute
    BY <1>0, <2>1, <2>4, SMTT(30) DEF NextLifetime, Descends, Capped, Settings, Grant
  <2>6. Descends(g, lineage[h])
    BY <1>0, <2>4, <2>5 DEF Descends, Capped, Grant
  <2>7. lineage[h] = [lineage[h] EXCEPT !.type = g.type]
    BY <1>0, <2>4 DEF Descends, Lineage, Grant
  <2>8. \/ Create(k, g, lineage[h])
        \/ grants' = [grants EXCEPT ![h] = g] /\ UNCHANGED lineage
    BY DEF RefreshWrite
  <2>9. CASE Create(k, g, lineage[h])
    <3> HIDE DEF g
    <3> QED
      BY <1>0, <2>3, <2>6, <2>7, <2>9, CreateDescent
  <2>10. CASE grants' = [grants EXCEPT ![h] = g] /\ UNCHANGED lineage
    <3> HIDE DEF g, h
    <3> QED
      BY <1>0, <2>6, <2>10, SMTT(30) DEF h, IInv, TypeInv, TypeOK, Descent, StoredDescend, Descends, Capped
  <2> QED
    BY <2>8, <2>9, <2>10
<1>4. HeldDescends(r)'
  <2>1. pc'[r] = "idle"
    BY DEF RefreshWrite, Answer, Goto, IInv, TypeInv, TypeOK
  <2> QED
    BY <2>1 DEF HeldDescends, CodeSteps, RefreshSteps
<1>5. SweptDrawn(r)'
  <2>1. pc'[r] \in {"idle"} \cup RequestSteps
    BY DEF RefreshWrite, Reject, Answer, Goto, IInv, TypeInv, TypeOK
  <2> QED
    BY <2>1 DEF SweptDrawn
<1> QED
  BY <1>1, <1>2, <1>3, <1>4, <1>5, OneRequestDescent

LEMMA IssueCodeDescent ==
    ASSUME IInv, NEW k \in Keys, NEW c \in Clients, NEW x \in Sessions,
           NEW o \in BOOLEAN, IssueCode(k, c, x, o)
    PROVE  Descent'
<1> DEFINE g == [type |-> "code", client |-> c, user |-> SessionUser[x], session |-> x,
                 created |-> now, lifetime |-> Config[c].codeLifetime,
                 consumed |-> FALSE, offline |-> o]
           l == [type |-> "code", client |-> c, user |-> SessionUser[x], session |-> x,
                 born |-> now]
<1>1. g \in Grant /\ l \in Lineage
  BY ConfigAssumption DEF Grant, Lineage, GrantTypes, Settings, IInv, TypeInv, TypeOK
<1>2. Descends(g, [l EXCEPT !.type = g.type])
  BY DEF Descends
<1>3. Create(k, g, l)
  BY DEF IssueCode
<1>4. StoredDescend'
  <2> HIDE DEF g, l
  <2> QED
    BY <1>1, <1>2, <1>3, CreateDescent
<1>5. /\ \A h \in Keys : lineage[h] # None => lineage'[h] = lineage[h]
      /\ pc' = pc /\ ctx' = ctx /\ sweep' = sweep
  BY DEF IssueCode, Create, Fresh, IInv, TypeInv, TypeOK
<1>6. ASSUME NEW r \in Requests PROVE HeldDescends(r)' /\ SweptDrawn(r)'
  <2>1. pc[r] \in RequestSteps => lineage'[ctx[r].key] = lineage[ctx[r].key]
    BY <1>5, NoneAssumption DEF IInv, TypeInv, LocalsOf, Context
  <2>2. HeldDescends(r)'
    BY <1>5, <2>1 DEF IInv, Descent, HeldDescends, Descends, Capped, HoldingSteps,
        CodeSteps, RefreshSteps, RequestSteps, AcceptedSteps
  <2>3. SweptDrawn(r)'
    BY <1>5, NoneAssumption DEF IInv, TypeInv, LocalsOf, Sweep, Descent, SweptDrawn
  <2> QED
    BY <2>2, <2>3
<1> QED
  BY <1>4, <1>6 DEF Descent

LEMMA DescentStep == IInv /\ [Next]_vars => Descent'
<1> SUFFICES ASSUME IInv, [Next]_vars PROVE Descent'
  OBVIOUS
<1>1. CASE \/ Tick \/ UNCHANGED vars
           \/ \E u \in Lockable : SetActive(u)
           \/ \E c \in Clients, state \in Edits : EditClient(c, state)
  <2>1. UNCHANGED <<grants, pc, ctx, sweep, lineage>>
    BY <1>1 DEF Tick, SetActive, EditClient, vars, history
  <2> QED
    BY <2>1 DEF IInv, Descent, StoredDescend, HeldDescends, SweptDrawn, Descends, Capped
<1>2. ASSUME NEW r \in Requests, Arrival(r) PROVE Descent'
  <2>1. ASSUME NEW k \in Keys, lineage[k] # None PROVE lineage[k].client \in Clients
    BY <2>1 DEF IInv, TypeInv, TypeOK, Lineage
  <2> QED
    BY <1>2, <2>1, PresentDescent, RemoveAllGrantsDescent, ConfigAssumption, ZenonT(60)
    DEF Arrival, TokenRequest
<1>3. ASSUME NEW r \in Requests, Step(r) PROVE Descent'
  BY <1>3, CodeGetDescent, CodeRemoveDescent, CodeActiveDescent, CodeIdDescent,
     RefreshGetDescent, RefreshActiveDescent, RefreshConsumeDescent, RevokeGetDescent,
     RevokeRemoveDescent, UseGetDescent, UseRemoveDescent, UseClientDescent,
     SweepTakeDescent, SweepDoneDescent, CodeAccessDescent, CodeRefreshDescent,
     RefreshAccessDescent, RefreshWriteDescent, SweepRemoveDescent
  DEF Step
<1> QED
  BY <1>1, <1>2, <1>3, IssueCodeDescent DEF Next, EnvironmentStep

LEMMA Inductive == Spec => []IInv
<1>1. Init => IInv
  BY TypeInvInit, DescentInit DEF IInv
<1>2. IInv /\ [Next]_vars => IInv'
  BY TypeInvStep, DescentStep DEF IInv
<1> QED
  BY <1>1, <1>2, PTL DEF Spec

\* Grants keep the client, the user and the session they were authorized for.
THEOREM OwnersAreKept == Spec => []OwnerKept
<1>1. IInv => OwnerKept
  BY NoneAssumption DEF IInv, TypeInv, TypeOK, Descent, StoredDescend, Descends, OwnerKept
<1> QED
  BY <1>1, Inductive, PTL

\* No chain of rotations and extensions carries a refresh token past its absolute
\* lifetime, whatever the lifetimes a client is configured with.
THEOREM LifetimesAreCapped == Spec => []LifetimeCapped
<1>1. IInv => LifetimeCapped
  BY DEF IInv, TypeInv, TypeOK, Descent, StoredDescend, Descends, Capped, LifetimeCapped
<1> QED
  BY <1>1, Inductive, PTL

-----------------------------------------------------------------------------
(***************************************************************************)
(* Sessions: removing the grants of a session leaves none behind.          *)
(***************************************************************************)
\* No client has its reference tokens built anew by a refresh, which would make
\* them without a session (UpdateAccessTokenClaimsOnRefresh).
SessionsAreKept == \A c \in Clients : ~ (Config[c].reference /\ Config[c].updateClaims)

SessionOf(k) == lineage[k].session

\* A handle belongs to the session of its grant, and to that session's user.
SessionExact ==
    \A k \in Keys :
       /\ lineage[k] \in Lineage => lineage[k].user = SessionUser[SessionOf(k)]
       /\ grants[k] \in Grant => grants[k].session = SessionOf(k)

\* The copy a request holds is of the same session, and of one that was not removed.
HeldSession(r) ==
    pc[r] \in HoldingSteps =>
       /\ ctx[r].grant.session = SessionOf(ctx[r].key)
       /\ SessionOf(ctx[r].key) \notin ended \ raced

\* The removal of a session takes all that is stored under it, and meets no request
\* that uses it, unless it is marked as raced.
Removing(r) == pc[r] \in SweepSteps /\ sweep[r].filter.session # None

SweptSession(r) ==
    Removing(r) =>
       LET f == sweep[r].filter IN
       /\ f.user = SessionUser[f.session] /\ f.client = None /\ f.type = None
       /\ f.session \notin raced =>
             /\ \A q \in Requests : pc[q] \in RequestSteps => SessionOf(ctx[q].key) # f.session
             /\ pc[r] = "sweep_remove" =>
                   \A k \in Keys : grants[k] \in Grant /\ SessionOf(k) = f.session
                                      => k \in sweep[r].todo

SessionInv ==
    /\ IInv
    /\ SessionExact
    /\ \A r \in Requests : HeldSession(r) /\ SweptSession(r)
    /\ SessionCleared

\* A step of a request that serves a handle: what it stores is of the session of
\* that handle, and it holds nothing but what it held or what the store has.
Serves(r) ==
    /\ OnlyOf(r)
    /\ UNCHANGED <<ended, raced>>
    /\ pc[r] \in RequestSteps
    /\ \A k \in Keys :
          grants'[k] \in Grant =>
             \/ grants'[k] = grants[k]
             \/ /\ pc[r] \in HoldingSteps
                /\ grants'[k].session = SessionOf(ctx[r].key)
                /\ lineage'[k].session = SessionOf(ctx[r].key)
    /\ \A k \in Keys :
          lineage'[k] \in Lineage =>
             \/ lineage'[k] = lineage[k]
             \/ /\ lineage'[k].session = SessionOf(ctx[r].key)
                /\ lineage'[k].user = lineage[ctx[r].key].user
    /\ pc'[r] \in RequestSteps => ctx'[r].key = ctx[r].key
    /\ pc'[r] \in HoldingSteps =>
          \/ pc[r] \in HoldingSteps /\ ctx'[r].grant = ctx[r].grant
          \/ grants[ctx[r].key] \in Grant /\ ctx'[r].grant = grants[ctx[r].key]
    /\ pc'[r] \in SweepSteps => sweep'[r].filter.session = None

LEMMA ServesKeeps ==
    ASSUME SessionInv, IInv', NEW r \in Requests, Serves(r)
    PROVE  SessionInv'
<1>1. /\ IInv /\ OnlyOf(r)
      /\ \A k \in Keys : lineage[k] \in Lineage => lineage'[k] = lineage[k]
      /\ \A k \in Keys : grants[k] \in Grant => lineage[k] \in Lineage
      /\ \A k \in Keys : grants'[k] \in Grant => lineage'[k] \in Lineage
      /\ \A k \in Keys : grants[k] \in Grant <=> grants[k] # None
      /\ \A k \in Keys : grants'[k] \in Grant <=> grants'[k] # None
  BY NoneAssumption
  DEF SessionInv, Serves, OnlyOf, IInv, TypeInv, TypeOK, Descent, StoredDescend
<1>2. \A q \in Requests : pc[q] \in RequestSteps =>
         ctx[q].key \in Keys /\ lineage[ctx[q].key] \in Lineage
  BY <1>1 DEF IInv, TypeInv, LocalsOf, Context
<1>3. ctx[r].key \in Keys /\ lineage[ctx[r].key] \in Lineage /\ pc[r] \in RequestSteps
  BY <1>2 DEF Serves
<1>4. \A q \in Requests : pc'[q] \in RequestSteps =>
         /\ pc[q] \in RequestSteps
         /\ ctx'[q].key = ctx[q].key
         /\ lineage'[ctx[q].key] = lineage[ctx[q].key]
  BY <1>1, <1>2, <1>3 DEF Serves, OnlyOf
<1>5. \A k \in Keys : grants'[k] \in Grant =>
         \/ grants[k] \in Grant /\ grants'[k] = grants[k] /\ lineage'[k] = lineage[k]
         \/ /\ pc[r] \in HoldingSteps
            /\ grants'[k].session = SessionOf(ctx[r].key)
            /\ lineage'[k].session = SessionOf(ctx[r].key)
  BY <1>1 DEF Serves
<1>6. SessionExact'
  <2>1. ASSUME NEW k \in Keys, lineage'[k] \in Lineage
        PROVE  lineage'[k].user = SessionUser[lineage'[k].session]
    BY <1>3, <2>1 DEF Serves, SessionInv, SessionExact, SessionOf
  <2>2. ASSUME NEW k \in Keys, grants'[k] \in Grant
        PROVE  grants'[k].session = lineage'[k].session
    BY <1>5, <2>2 DEF SessionInv, SessionExact, SessionOf
  <2> QED
    BY <2>1, <2>2 DEF SessionExact, SessionOf
<1>7. SessionCleared'
  <2> SUFFICES ASSUME NEW k \in Keys, grants'[k] # None
               PROVE  lineage'[k].session \notin ended \ raced
    BY DEF SessionCleared, Serves
  <2> QED
    BY <1>1, <1>3, <1>5 DEF SessionInv, SessionCleared, HeldSession, SessionOf
<1>8. ASSUME NEW q \in Requests PROVE HeldSession(q)'
  <2> SUFFICES ASSUME pc'[q] \in HoldingSteps
               PROVE  /\ ctx'[q].grant.session = lineage'[ctx'[q].key].session
                      /\ lineage'[ctx'[q].key].session \notin ended \ raced
    BY DEF HeldSession, SessionOf, Serves
  <2>1. /\ pc[q] \in RequestSteps /\ ctx'[q].key = ctx[q].key
        /\ ctx[q].key \in Keys
        /\ lineage'[ctx[q].key] = lineage[ctx[q].key]
    BY <1>2, <1>4 DEF HoldingSteps
  <2>2. CASE pc[q] \in HoldingSteps /\ ctx'[q].grant = ctx[q].grant
    BY <2>1, <2>2 DEF SessionInv, HeldSession, SessionOf
  <2>3. CASE grants[ctx[q].key] \in Grant /\ ctx'[q].grant = grants[ctx[q].key]
    BY <1>1, <2>1, <2>3 DEF SessionInv, SessionExact, SessionCleared, SessionOf
  <2>4. CASE q # r
    BY <2>2, <2>4 DEF Serves, OnlyOf
  <2> QED
    BY <2>2, <2>3, <2>4 DEF Serves
<1>9. ASSUME NEW q \in Requests PROVE SweptSession(q)'
  <2> SUFFICES ASSUME pc'[q] \in SweepSteps, sweep'[q].filter.session # None
               PROVE  LET f == sweep'[q].filter IN
                      /\ f.user = SessionUser[f.session] /\ f.client = None /\ f.type = None
                      /\ f.session \notin raced =>
                            /\ \A p \in Requests : pc'[p] \in RequestSteps =>
                                  lineage'[ctx'[p].key].session # f.session
                            /\ pc'[q] = "sweep_remove" =>
                                  \A k \in Keys :
                                     grants'[k] \in Grant /\ lineage'[k].session = f.session
                                     => k \in sweep'[q].todo
    BY DEF SweptSession, Removing, SessionOf, Serves
  <2>1. q # r
    BY DEF Serves
  <2>2. pc'[q] = pc[q] /\ sweep'[q] = sweep[q]
    BY <1>1, <2>1 DEF OnlyOf
  <2>3. SweptSession(q) /\ Removing(q)
    BY <2>2 DEF SessionInv, Removing
  <2> DEFINE s == sweep[q].filter.session
  <2>4. ASSUME s \notin raced, NEW p \in Requests, pc'[p] \in RequestSteps
        PROVE  lineage'[ctx'[p].key].session # s
    BY <1>4, <2>3, <2>4 DEF SweptSession, SessionOf
  <2>5. ASSUME s \notin raced, pc[q] = "sweep_remove", NEW k \in Keys,
               grants'[k] \in Grant, lineage'[k].session = s
        PROVE  k \in sweep[q].todo
    <3>1. SessionOf(ctx[r].key) # s
      BY <1>3, <2>3, <2>5 DEF SweptSession
    <3> QED
      BY <1>5, <2>3, <2>5, <3>1 DEF SweptSession, SessionOf
  <2> QED
    BY <2>2, <2>3, <2>4, <2>5 DEF SweptSession
<1> QED
  BY <1>6, <1>7, <1>8, <1>9 DEF SessionInv

\* A request that serves a handle has one that was drawn, and holds a grant of its
\* session.
LEMMA ServedHandle ==
    ASSUME SessionInv, NEW r \in Requests, pc[r] \in RequestSteps
    PROVE  /\ ctx[r] \in Context /\ ctx[r].key \in Keys
           /\ lineage[ctx[r].key] \in Lineage
           /\ pc[r] \in HoldingSteps =>
                 ctx[r].grant \in Grant /\ ctx[r].grant.session = SessionOf(ctx[r].key)
BY DEF SessionInv, HeldSession, IInv, TypeInv, LocalsOf, Context

\* The steps that store nothing under a new handle.
LEMMA PlainStepServes ==
    ASSUME SessionInv, NEW r \in Requests,
           \/ CodeGet(r) \/ CodeRemove(r) \/ CodeActive(r) \/ CodeId(r)
              \/ RefreshGet(r) \/ RefreshActive(r) \/ RefreshConsume(r) \/ RevokeGet(r)
              \/ RevokeRemove(r) \/ UseGet(r) \/ UseRemove(r) \/ UseClient(r)
    PROVE  Serves(r)
<1> USE NoneAssumption
    DEF RequestSteps, AcceptedSteps, HoldingSteps, SweepSteps, Reject, Answer, Goto, Deliver,
        environment, history
<1>1. pc[r] \in RequestSteps /\ TypeOK
  BY DEF SessionInv, IInv, TypeInv, CodeGet, CodeRemove, CodeActive, CodeId, RefreshGet, RefreshActive, RefreshConsume, RevokeGet, RevokeRemove, UseGet, UseRemove, UseClient
<1>2. /\ ctx[r].key \in Keys /\ ctx[r] \in Context
      /\ pc[r] \in HoldingSteps => ctx[r].grant.session = SessionOf(ctx[r].key)
  BY <1>1, ServedHandle
<1> USE <1>1, <1>2 DEF Serves, OnlyOf, SessionOf, TypeOK, Context
<1>3. CASE CodeGet(r)
  BY <1>3 DEF CodeGet, Lookup
<1>4. CASE CodeRemove(r)
  BY <1>4 DEF CodeRemove
<1>5. CASE CodeActive(r)
  BY <1>5 DEF CodeActive
<1>6. CASE CodeId(r)
  BY <1>6 DEF CodeId
<1>7. CASE RefreshGet(r)
  BY <1>7 DEF RefreshGet, Lookup
<1>8. CASE RefreshActive(r)
  BY <1>8 DEF RefreshActive
<1>9. CASE RefreshConsume(r)
  BY <1>9 DEF RefreshConsume, Grant
<1>10. CASE RevokeGet(r)
  BY <1>10 DEF RevokeGet, Lookup
<1>11. CASE RevokeRemove(r)
  BY <1>11 DEF RevokeRemove
<1>12. CASE UseGet(r)
  BY <1>12 DEF UseGet, Lookup
<1>13. CASE UseRemove(r)
  BY <1>13 DEF UseRemove
<1>14. CASE UseClient(r)
  BY <1>14 DEF UseClient
<1> QED
  BY <1>3, <1>4, <1>5, <1>6, <1>7, <1>8, <1>9, <1>10, <1>11, <1>12, <1>13, <1>14

\* What a step of the request r leaves in the store: what was there, and grants of
\* the session of its handle.
Stores(r) ==
    /\ \A k \in Keys : lineage[k] # None => lineage'[k] = lineage[k]
    /\ \A k \in Keys :
          \/ grants'[k] = grants[k] /\ lineage'[k] = lineage[k]
          \/ /\ grants'[k].session = SessionOf(ctx[r].key)
             /\ lineage'[k].session = SessionOf(ctx[r].key)
             /\ lineage'[k].user = lineage[ctx[r].key].user

LEMMA CreateStores ==
    ASSUME SessionInv, NEW r \in Requests, NEW k \in Keys, NEW g, NEW l, Create(k, g, l),
           g.session = SessionOf(ctx[r].key),
           l \in Lineage,
           l.session = SessionOf(ctx[r].key), l.user = lineage[ctx[r].key].user
    PROVE  Stores(r)
<1>1. [l EXCEPT !.type = g.type].session = l.session /\ [l EXCEPT !.type = g.type].user = l.user
  BY DEF Lineage
<1>2. grants \in [Keys -> Grant \cup {None}] /\ lineage \in [Keys -> Lineage \cup {None}]
  BY DEF SessionInv, IInv, TypeInv, TypeOK
<1> QED
  BY <1>1, <1>2 DEF Create, Fresh, Stores

LEMMA AccessTokenStores ==
    ASSUME SessionInv, NEW r \in Requests, pc[r] \in HoldingSteps, NEW k \in Keys,
           NEW u \in BOOLEAN, AccessToken(r, k, u),
           ~ (Config[ctx[r].client].reference /\ u)
    PROVE  Stores(r)
<1>1. /\ lineage[ctx[r].key] \in Lineage
      /\ ctx[r].grant \in Grant /\ ctx[r].grant.session = SessionOf(ctx[r].key)
  BY ServedHandle DEF HoldingSteps
<1>2. CASE Config[ctx[r].client].reference
  <2> DEFINE g == [ctx[r].grant EXCEPT !.type = "reference", !.client = ctx[r].client,
                                       !.session = IF u THEN None ELSE @, !.created = now,
                                       !.lifetime = Config[ctx[r].client].accessLifetime]
  <2>1. Create(k, g, lineage[ctx[r].key])
    BY <1>2 DEF AccessToken
  <2>2. g.session = SessionOf(ctx[r].key)
    BY <1>1, <1>2 DEF Grant
  <2> HIDE DEF g
  <2> QED
    BY <1>1, <2>1, <2>2, CreateStores DEF SessionOf
<1>3. CASE ~ Config[ctx[r].client].reference
  BY <1>3 DEF AccessToken, Stores
<1> QED
  BY <1>2, <1>3

\* A step that stores and goes on serving, or answers.
LEMMA StoringStepServes ==
    ASSUME SessionInv, NEW r \in Requests, pc[r] \in HoldingSteps,
           Stores(r), UNCHANGED <<now, sweep, ended, raced>>,
           NEW x \in {"idle"} \cup RequestSteps, Goto(r, x),
           \/ UNCHANGED ctx
           \/ x = "idle" /\ ctx' = [ctx EXCEPT ![r] = None]
    PROVE  Serves(r)
<1>1. pc[r] \in RequestSteps /\ TypeOK
  BY DEF HoldingSteps, SessionInv, IInv, TypeInv
<1>2. /\ pc' = [pc EXCEPT ![r] = x]
      /\ \A q \in Requests \ {r} : pc'[q] = pc[q] /\ ctx'[q] = ctx[q] /\ sweep'[q] = sweep[q]
      /\ pc'[r] = x
      /\ x # "idle" => ctx' = ctx
  BY <1>1 DEF Goto, TypeOK
<1>3. OnlyOf(r)
  BY <1>2 DEF OnlyOf, Stores
<1> QED
  BY <1>1, <1>2, <1>3
  DEF Serves, Stores, HoldingSteps, RequestSteps, AcceptedSteps, SweepSteps

LEMMA CodeAccessServes ==
    ASSUME SessionInv, NEW r \in Requests, NEW k \in Keys, CodeAccess(r, k)
    PROVE  Serves(r)
<1> USE DEF CodeAccess, HoldingSteps, RequestSteps, AcceptedSteps, environment, history
<1>1. pc[r] \in HoldingSteps
  OBVIOUS
<1>2. CASE ~ Enabled(ctx[r].client)
  BY <1>1, <1>2, StoringStepServes DEF Reject, Answer, Stores
<1>3. CASE Enabled(ctx[r].client)
  <2>1. Stores(r)
    BY <1>1, <1>3, AccessTokenStores
  <2>2. PICK x \in {"code_refresh", "code_id"} : Goto(r, x)
    BY <1>3
  <2> QED
    BY <1>1, <1>3, <2>1, <2>2, StoringStepServes
<1> QED
  BY <1>2, <1>3

LEMMA CodeRefreshServes ==
    ASSUME SessionInv, NEW r \in Requests, NEW k \in Keys, CodeRefresh(r, k)
    PROVE  Serves(r)
<1> USE DEF CodeRefresh, HoldingSteps, RequestSteps, AcceptedSteps, environment, history
<1> DEFINE g == [ctx[r].grant EXCEPT !.type = "refresh", !.created = now,
                                     !.client = ctx[r].client,
                                     !.lifetime = FirstLifetime(ctx[r].client)]
           l == [lineage[ctx[r].key] EXCEPT !.born = now]
<1>1. pc[r] \in HoldingSteps /\ Create(k, g, l)
  OBVIOUS
<1>2. /\ g.session = SessionOf(ctx[r].key)
      /\ l \in Lineage /\ l.session = SessionOf(ctx[r].key)
      /\ l.user = lineage[ctx[r].key].user
  BY <1>1, ServedHandle DEF SessionOf, Grant, Lineage, SessionInv, IInv, TypeInv, TypeOK
<1> HIDE DEF g, l
<1>3. Stores(r)
  BY <1>1, <1>2, CreateStores
<1> QED
  BY <1>1, <1>3, StoringStepServes

LEMMA RefreshAccessServes ==
    ASSUME SessionInv, SessionsAreKept, NEW r \in Requests, NEW k \in Keys, RefreshAccess(r, k)
    PROVE  Serves(r)
<1> USE DEF RefreshAccess, HoldingSteps, RequestSteps, AcceptedSteps, environment, history
<1>1. pc[r] \in HoldingSteps
  OBVIOUS
<1>2. Stores(r)
  <2>1. ctx[r].client \in Clients
    BY <1>1, ServedHandle DEF Context
  <2>2. Config[ctx[r].client].updateClaims \in BOOLEAN
    BY <2>1, ConfigAssumption DEF Settings
  <2> QED
    BY <1>1, <2>1, <2>2, AccessTokenStores DEF SessionsAreKept
<1> QED
  BY <1>1, <1>2, StoringStepServes DEF Answer

LEMMA RefreshWriteServes ==
    ASSUME SessionInv, NEW r \in Requests, NEW k \in Keys, RefreshWrite(r, k)
    PROVE  Serves(r)
<1> USE DEF RefreshWrite, HoldingSteps, RequestSteps, AcceptedSteps, environment, history
<1> DEFINE g == [ctx[r].grant EXCEPT !.lifetime = NextLifetime(ctx[r].client, ctx[r].grant)]
<1>1. /\ pc[r] \in HoldingSteps
      /\ lineage[ctx[r].key] \in Lineage /\ ctx[r].key \in Keys
      /\ g.session = SessionOf(ctx[r].key)
  BY ServedHandle DEF Grant
<1>2. Stores(r)
  <2>1. CASE Create(k, g, lineage[ctx[r].key])
    <3> HIDE DEF g
    <3> QED
      BY <1>1, <2>1, CreateStores DEF SessionOf
  <2>2. CASE grants' = [grants EXCEPT ![ctx[r].key] = g] /\ UNCHANGED lineage
    <3> HIDE DEF g
    <3> QED
      BY <1>1, <2>2 DEF Stores, SessionOf, SessionInv, IInv, TypeInv, TypeOK
  <2> QED
    BY <2>1, <2>2
<1> QED
  BY <1>1, <1>2, StoringStepServes DEF Answer

\* The steps of a removal.
LEMMA SweepTakeSession ==
    ASSUME SessionInv, NEW r \in Requests, SweepTake(r)
    PROVE  SessionInv'
<1>1. /\ IInv' /\ UNCHANGED <<grants, ctx, lineage, ended, raced>>
      /\ pc[r] = "sweep_take" /\ pc' = [pc EXCEPT ![r] = "sweep_remove"]
      /\ sweep[r] \in Sweep /\ TypeOK
      /\ sweep' = [sweep EXCEPT ![r].todo =
                      {k \in Keys : grants[k] # None /\ Matches(grants[k], sweep[r].filter)}]
  BY SweepTakeType, SweepTakeDescent
  DEF SessionInv, IInv, TypeInv, LocalsOf, SweepTake, Goto, history, SweepSteps
<1>2. SessionExact' /\ SessionCleared' /\ \A q \in Requests : HeldSession(q)'
  BY <1>1
  DEF SessionInv, SessionExact, SessionCleared, HeldSession, SessionOf, TypeOK, HoldingSteps,
      RequestSteps, AcceptedSteps
<1>3. \A q \in Requests : pc'[q] \in RequestSteps <=> pc[q] \in RequestSteps
  BY <1>1 DEF RequestSteps, AcceptedSteps, TypeOK
<1>4. ASSUME NEW q \in Requests \ {r} PROVE SweptSession(q)'
  <2>1. pc'[q] = pc[q] /\ sweep'[q] = sweep[q]
    BY <1>1 DEF TypeOK
  <2> QED
    BY <1>1, <1>3, <2>1 DEF SessionInv, SweptSession, Removing, SessionOf
<1>5. SweptSession(r)'
  <2> SUFFICES ASSUME Removing(r)' PROVE SweptSession(r)'
    BY DEF SweptSession
  <2> DEFINE f == sweep[r].filter
  <2>1. /\ sweep'[r].filter = f
        /\ sweep'[r].todo = {k \in Keys : grants[k] # None /\ Matches(grants[k], f)}
        /\ Removing(r)
    BY <1>1 DEF TypeOK, Sweep, Removing, SweepSteps
  <2>2. f.user = SessionUser[f.session] /\ f.client = None /\ f.type = None
    BY <2>1 DEF SessionInv, SweptSession
  <2>3. ASSUME NEW k \in Keys, grants[k] \in Grant, SessionOf(k) = f.session
        PROVE  k \in sweep'[r].todo
    <3>1. /\ lineage[k] \in Lineage
          /\ grants[k].user = lineage[k].user
      BY <2>3 DEF SessionInv, IInv, Descent, StoredDescend, Descends
    <3>2. grants[k].user = f.user /\ grants[k].session = f.session /\ grants[k] # None
      BY <2>2, <2>3, <3>1, NoneAssumption DEF SessionInv, SessionExact
    <3> QED
      BY <2>1, <2>2, <3>2 DEF Matches
  <2> QED
    BY <1>1, <1>3, <2>1, <2>2, <2>3 DEF SessionInv, SweptSession, SessionOf
<1> QED
  BY <1>1, <1>2, <1>4, <1>5 DEF SessionInv

LEMMA SweepRemoveSession ==
    ASSUME SessionInv, NEW r \in Requests, NEW k \in Keys, SweepRemove(r, k)
    PROVE  SessionInv'
<1>1. /\ IInv' /\ UNCHANGED <<pc, ctx, lineage, ended, raced>>
      /\ pc[r] = "sweep_remove"
      /\ sweep[r] \in Sweep /\ TypeOK
      /\ sweep' = [sweep EXCEPT ![r].todo = @ \ {k}]
      /\ grants' = [grants EXCEPT ![k] = None]
  BY SweepRemoveType, SweepRemoveDescent
  DEF SessionInv, IInv, TypeInv, LocalsOf, SweepRemove, history, SweepSteps
<1>2. \A x \in Keys : grants'[x] \in Grant => x # k /\ grants'[x] = grants[x]
  BY <1>1, NoneAssumption DEF TypeOK
<1>3. SessionExact' /\ SessionCleared' /\ \A q \in Requests : HeldSession(q)'
  BY <1>1, <1>2
  DEF SessionInv, SessionExact, SessionCleared, HeldSession, SessionOf, TypeOK
<1>4. ASSUME NEW q \in Requests PROVE SweptSession(q)'
  <2>1. /\ sweep'[q].filter = sweep[q].filter
        /\ \A x \in Keys : x # k /\ x \in sweep[q].todo => x \in sweep'[q].todo
    BY <1>1 DEF TypeOK, Sweep
  <2> QED
    BY <1>1, <1>2, <2>1 DEF SessionInv, SweptSession, Removing, SessionOf
<1> QED
  BY <1>1, <1>3, <1>4 DEF SessionInv

LEMMA SweepDoneSession ==
    ASSUME SessionInv, NEW r \in Requests, SweepDone(r)
    PROVE  SessionInv'
<1>1. /\ IInv' /\ UNCHANGED <<grants, ctx, lineage, raced>>
      /\ pc[r] = "sweep_remove" /\ pc' = [pc EXCEPT ![r] = "idle"]
      /\ sweep[r].todo = {} /\ TypeOK
      /\ sweep' = [sweep EXCEPT ![r] = None]
      /\ ended' = ended \cup ({sweep[r].filter.session} \ {None})
  BY SweepDoneType, SweepDoneDescent
  DEF SessionInv, IInv, TypeInv, LocalsOf, SweepDone, Goto, history, SweepSteps
<1>2. /\ \A q \in Requests \ {r} : pc'[q] = pc[q] /\ sweep'[q] = sweep[q]
      /\ pc'[r] = "idle"
  BY <1>1 DEF TypeOK
<1> DEFINE s == sweep[r].filter.session
<1>3. s # None /\ s \notin raced =>
         /\ \A q \in Requests : pc[q] \in RequestSteps => SessionOf(ctx[q].key) # s
         /\ \A k \in Keys : grants[k] \in Grant => SessionOf(k) # s
  BY <1>1 DEF SessionInv, SweptSession, Removing, SweepSteps
<1>4. SessionExact' /\ SessionCleared'
  BY <1>1, <1>3 DEF SessionInv, SessionExact, SessionCleared, SessionOf, TypeOK
<1>5. \A q \in Requests : HeldSession(q)'
  BY <1>1, <1>2, <1>3 DEF SessionInv, HeldSession, SessionOf, HoldingSteps, RequestSteps, AcceptedSteps
<1>6. \A q \in Requests : SweptSession(q)'
  <2>1. ~ Removing(r)'
    BY <1>2 DEF Removing, SweepSteps
  <2>2. \A q \in Requests : pc'[q] \in RequestSteps => pc[q] \in RequestSteps
    BY <1>2 DEF RequestSteps, AcceptedSteps
  <2> QED
    BY <1>1, <1>2, <2>1, <2>2 DEF SessionInv, SweptSession, Removing, SessionOf
<1> QED
  BY <1>1, <1>4, <1>5, <1>6 DEF SessionInv

\* A handle is presented, and a session is left.
LEMMA PresentSession ==
    ASSUME SessionInv, NEW r \in Requests, NEW c \in Clients, NEW h \in Keys, NEW v \in BOOLEAN,
           NEW x \in {"code_get", "refresh_get", "revoke_get", "use_get"}, Present(r, c, h, v, x),
           x = "use_get" => c = lineage[h].client
    PROVE  SessionInv'
<1>1. /\ IInv' /\ UNCHANGED <<grants, sweep, lineage, ended>>
      /\ pc[r] = "idle" /\ pc' = [pc EXCEPT ![r] = x] /\ TypeOK
      /\ lineage[h] \in Lineage
  BY PresentType, PresentDescent
  DEF SessionInv, IInv, TypeInv, TypeOK, Present, Goto, history
<1>2. /\ \A q \in Requests \ {r} : pc'[q] = pc[q] /\ ctx'[q] = ctx[q]
      /\ pc'[r] = x /\ ctx'[r].key = h
  BY <1>1 DEF TypeOK, Present
<1>3. /\ raced \subseteq raced'
      /\ \A q \in Requests : Removing(q) /\ sweep[q].filter.session = SessionOf(h) =>
            SessionOf(h) \in raced'
  BY <1>1, NoneAssumption
  DEF Present, Race, SessionOf, Lineage, Removing, SessionInv, IInv, TypeInv, LocalsOf
<1>4. SessionExact' /\ SessionCleared'
  BY <1>1, <1>3 DEF SessionInv, SessionExact, SessionCleared, SessionOf
<1>5. \A q \in Requests : HeldSession(q)'
  BY <1>1, <1>2, <1>3 DEF SessionInv, HeldSession, SessionOf, HoldingSteps
<1>6. ASSUME NEW q \in Requests PROVE SweptSession(q)'
  <2>1. CASE q = r
    BY <1>2, <2>1 DEF SweptSession, Removing, SweepSteps
  <2>2. CASE q # r
    BY <1>1, <1>2, <1>3, <2>2 DEF SessionInv, SweptSession, Removing, SessionOf
  <2> QED
    BY <2>1, <2>2
<1> QED
  BY <1>1, <1>4, <1>5, <1>6 DEF SessionInv

LEMMA RemoveAllGrantsSession ==
    ASSUME SessionInv, NEW r \in Requests, NEW u \in Users, NEW c \in Clients \cup {None},
           NEW x \in Sessions \cup {None}, RemoveAllGrants(r, u, c, x),
           x # None => u = SessionUser[x] /\ c = None
    PROVE  SessionInv'
<1>1. /\ IInv' /\ UNCHANGED <<grants, ctx, lineage, ended>>
      /\ pc[r] = "idle" /\ pc' = [pc EXCEPT ![r] = "sweep_take"] /\ TypeOK
      /\ sweep' = [sweep EXCEPT ![r] =
             [filter |-> [user |-> u, client |-> c, session |-> x, type |-> None],
              todo |-> {}]]
      /\ raced \subseteq raced'
  BY RemoveAllGrantsType, RemoveAllGrantsDescent
  DEF SessionInv, IInv, TypeInv, RemoveAllGrants, Goto, history
<1>2. /\ \A q \in Requests \ {r} : pc'[q] = pc[q] /\ sweep'[q] = sweep[q]
      /\ pc'[r] = "sweep_take"
      /\ sweep'[r].filter = [user |-> u, client |-> c, session |-> x, type |-> None]
  BY <1>1 DEF TypeOK
<1>3. \A q \in Requests : pc'[q] \in RequestSteps => pc[q] \in RequestSteps /\ pc'[q] = pc[q]
  BY <1>2 DEF RequestSteps, AcceptedSteps
<1>4. ASSUME NEW q \in Requests, pc[q] \in RequestSteps, x # None, SessionOf(ctx[q].key) = x
      PROVE  x \in raced'
  BY <1>4, NoneAssumption
  DEF RemoveAllGrants, SessionOf, SessionInv, IInv, TypeInv, LocalsOf
<1>5. SessionExact' /\ SessionCleared'
  BY <1>1 DEF SessionInv, SessionExact, SessionCleared, SessionOf
<1>6. \A q \in Requests : HeldSession(q)'
  BY <1>1, <1>3 DEF SessionInv, HeldSession, SessionOf, HoldingSteps
<1>7. ASSUME NEW q \in Requests PROVE SweptSession(q)'
  <2>1. CASE q = r
    BY <1>1, <1>2, <1>3, <1>4, <2>1 DEF SweptSession, Removing, SessionOf
  <2>2. CASE q # r
    BY <1>1, <1>2, <1>3, <2>2 DEF SessionInv, SweptSession, Removing, SessionOf
  <2> QED
    BY <2>1, <2>2
<1> QED
  BY <1>1, <1>5, <1>6, <1>7 DEF SessionInv

\* A code is issued in a session that was not removed and is not being removed.
LEMMA IssueCodeSession ==
    ASSUME SessionInv, IInv', NEW h \in Keys, NEW c \in Clients, NEW x \in Sessions,
           NEW o \in BOOLEAN, IssueCode(h, c, x, o)
    PROVE  SessionInv'
<1>1. /\ UNCHANGED <<pc, ctx, sweep, ended, raced>> /\ TypeOK
      /\ lineage[h] = None /\ x \notin ended
      /\ \A r \in Requests : sweep[r] # None => sweep[r].filter.session # x
  BY DEF IssueCode, Create, Fresh, SessionInv, IInv, TypeInv
<1>2. /\ \A k \in Keys \ {h} : grants'[k] = grants[k] /\ lineage'[k] = lineage[k]
      /\ grants'[h].session = x /\ lineage'[h].session = x
      /\ lineage'[h].user = SessionUser[x]
  BY <1>1 DEF IssueCode, Create, TypeOK
<1>3. \A r \in Requests : pc[r] \in RequestSteps =>
         lineage'[ctx[r].key] = lineage[ctx[r].key]
  BY <1>1, <1>2, NoneAssumption DEF SessionInv, IInv, TypeInv, LocalsOf, Context
<1>4. SessionExact' /\ SessionCleared'
  BY <1>1, <1>2 DEF SessionInv, SessionExact, SessionCleared, SessionOf
<1>5. \A r \in Requests : HeldSession(r)'
  BY <1>1, <1>3 DEF SessionInv, HeldSession, SessionOf, HoldingSteps
<1>6. ASSUME NEW r \in Requests PROVE SweptSession(r)'
  <2> SUFFICES ASSUME Removing(r) PROVE SweptSession(r)'
    BY <1>1 DEF SweptSession, Removing
  <2>1. sweep[r].filter.session # x
    BY <1>1, NoneAssumption DEF Removing, SessionInv, IInv, TypeInv, LocalsOf
  <2> QED
    BY <1>1, <1>2, <1>3, <2>1 DEF SessionInv, SweptSession, SessionOf
<1> QED
  BY <1>4, <1>5, <1>6 DEF SessionInv

LEMMA SessionInit == Init => SessionInv
BY TypeInvInit, DescentInit, NoneAssumption
   DEF Init, IInv, SessionInv, SessionExact, SessionCleared, HeldSession, SweptSession, Removing,
       HoldingSteps, RequestSteps, AcceptedSteps, SweepSteps

LEMMA SessionStep ==
    ASSUME SessionsAreKept, SessionInv, [Next]_vars
    PROVE  SessionInv'
<1>1. IInv'
  BY TypeInvStep, DescentStep DEF SessionInv, IInv
<1>2. CASE \/ Tick \/ UNCHANGED vars
           \/ \E u \in Lockable : SetActive(u)
           \/ \E c \in Clients, state \in Edits : EditClient(c, state)
  <2>1. UNCHANGED <<grants, pc, ctx, sweep, lineage, ended, raced>>
    BY <1>2 DEF Tick, SetActive, EditClient, vars, history
  <2> QED
    BY <1>1, <2>1
    DEF SessionInv, SessionExact, SessionCleared, HeldSession, SweptSession, Removing, SessionOf
<1>3. ASSUME NEW r \in Requests, Arrival(r) PROVE SessionInv'
  <2>1. ASSUME NEW k \in Keys, lineage[k] # None PROVE lineage[k].client \in Clients
    BY <2>1 DEF SessionInv, IInv, TypeInv, TypeOK, Lineage
  <2>2. \A s \in Sessions : SessionUser[s] \in Users
    BY ConfigAssumption
  <2> QED
    BY <1>3, <2>1, <2>2, PresentSession, RemoveAllGrantsSession, ZenonT(60)
    DEF Arrival, TokenRequest
<1>4. ASSUME NEW r \in Requests, Step(r) PROVE SessionInv'
  <2>1. \/ Serves(r)
        \/ SweepTake(r) \/ SweepDone(r)
        \/ \E k \in Keys : SweepRemove(r, k)
    BY <1>4, PlainStepServes, CodeAccessServes, CodeRefreshServes, RefreshAccessServes,
       RefreshWriteServes
    DEF Step
  <2> QED
    BY <1>1, <2>1, ServesKeeps, SweepTakeSession, SweepDoneSession, SweepRemoveSession
<1> QED
  BY <1>1, <1>2, <1>3, <1>4, IssueCodeSession DEF Next, EnvironmentStep

\* When the grants of a session have been removed, and no request was using one of
\* them meanwhile, the store holds nothing that was issued under the session - for
\* the clients whose refreshed reference tokens keep their session.
THEOREM EndedSessionsAreEmpty ==
    ASSUME SessionsAreKept
    PROVE  Spec => []SessionCleared
<1>1. SessionInv => SessionCleared
  BY DEF SessionInv
<1>2. SessionInv /\ [Next]_vars => SessionInv'
  BY SessionStep
<1> QED
  BY <1>1, <1>2, SessionInit, PTL DEF Spec

=============================================================================
