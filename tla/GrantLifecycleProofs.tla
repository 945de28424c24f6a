------------------------ MODULE GrantLifecycleProofs ------------------------
(***************************************************************************)
(* TokenGrants implements GrantLifecycle, and no request brings a handle   *)
(* back that was spent.  Both rest on one fact: whatever step any request  *)
(* takes, the store changes in one of a few ways (StoreStep).              *)
(***************************************************************************)
EXTENDS TokenGrantsProofs

\* Nothing can be had for the handle k any more.
Weak(k) == grants[k] = None \/ grants[k].consumed

Drawn(k) == lineage[k] \in Lineage

Rotated(k) == lineage[k].type = "refresh" /\ Config[lineage[k].client].usage = "OneTimeOnly"

\* What a step does to the store: nothing, or it draws a handle, removes a
\* grant, flags a rotated one or extends one in place.
StoreStep ==
    \/ UNCHANGED <<grants, lineage>>
    \/ \E k \in Fresh, g \in Grant, l \in Lineage :
          /\ ~ g.consumed
          /\ grants' = [grants EXCEPT ![k] = g]
          /\ lineage' = [lineage EXCEPT ![k] = l]
    \/ /\ UNCHANGED lineage
       /\ \E k \in Keys : Drawn(k) /\ grants' = [grants EXCEPT ![k] = None]
    \/ /\ UNCHANGED lineage
       /\ \E k \in Keys, g \in Grant :
             /\ Drawn(k) /\ Rotated(k) /\ g.consumed
             /\ grants' = [grants EXCEPT ![k] = g]
    \/ /\ UNCHANGED lineage
       /\ \E k \in Keys, g \in Grant :
             /\ Drawn(k) /\ ExtendedInPlace(k) /\ ~ g.consumed
             /\ grants' = [grants EXCEPT ![k] = g]

\* What the request r knows of the handle it holds: where the code it redeems
\* and the refresh token it rotates are, and how it came to hold a handle that
\* was spent before it arrived.
Bound(r) ==
    /\ pc[r] \in CodeSteps \ {"code_remove"} => Weak(ctx[r].key)
    /\ pc[r] = "refresh_write" =>
          \/ Rotated(ctx[r].key) /\ Weak(ctx[r].key)
          \/ ExtendedInPlace(ctx[r].key)
    /\ pc[r] \in RequestSteps /\ ctx[r].late => ctx[r].key \in spent
    /\ pc[r] \in HoldingSteps \ {"revoke_remove"} /\ ctx[r].late => ExtendedInPlace(ctx[r].key)

SpentWeak == \A k \in spent : Drawn(k) /\ (ExtendedInPlace(k) \/ Weak(k))

\* The strengthening of SpentNeverAccepted that is inductive.
SpentInv == SpentWeak /\ \A r \in Requests : Bound(r)

FullInv == IInv /\ SpentInv

-----------------------------------------------------------------------------
\* A handle that is weak stays weak, unless it is extended in place.
LEMMA WeakStays ==
    ASSUME IInv, StoreStep, NEW k \in Keys, Drawn(k)
    PROVE  /\ lineage'[k] = lineage[k]
           /\ Weak(k) /\ ~ ExtendedInPlace(k) => Weak(k)'
BY NoneAssumption DEF StoreStep, Fresh, Drawn, Weak, IInv, TypeInv, TypeOK

LEMMA SpentStay ==
    ASSUME IInv, SpentWeak, StoreStep, spent \subseteq spent',
           \A k \in spent' \ spent : k \in Keys /\ Drawn(k) /\ Weak(k)'
    PROVE  SpentWeak'
<1> SUFFICES ASSUME NEW k \in spent' PROVE Drawn(k)' /\ (ExtendedInPlace(k)' \/ Weak(k)')
  BY DEF SpentWeak
<1>1. k \in Keys /\ Drawn(k)
  BY DEF SpentWeak, IInv, TypeInv, TypeOK
<1>2. lineage'[k] = lineage[k]
  BY <1>1, WeakStays
<1>3. Drawn(k)' /\ (ExtendedInPlace(k)' <=> ExtendedInPlace(k))
  BY <1>1, <1>2 DEF Drawn, ExtendedInPlace
<1> QED
  BY <1>1, <1>3, WeakStays DEF SpentWeak

\* A request that stands still keeps what it knows.
LEMMA BoundStays ==
    ASSUME IInv, StoreStep, spent \subseteq spent',
           NEW r \in Requests, Bound(r), pc'[r] = pc[r], ctx'[r] = ctx[r]
    PROVE  Bound(r)'
<1>1. CASE pc[r] \in RequestSteps
  <2>1. ctx[r].key \in Keys /\ Drawn(ctx[r].key)
    BY <1>1 DEF IInv, TypeInv, LocalsOf, Context, Drawn
  <2>2. /\ lineage'[ctx[r].key] = lineage[ctx[r].key]
        /\ Weak(ctx[r].key) /\ ~ ExtendedInPlace(ctx[r].key) => (Weak(ctx[r].key))'
    <3>1. \A k \in Keys : Drawn(k) =>
             /\ lineage'[k] = lineage[k]
             /\ Weak(k) /\ ~ ExtendedInPlace(k) => grants'[k] = None \/ grants'[k].consumed
      BY WeakStays DEF Weak
    <3> QED
      BY <2>1, <3>1 DEF Weak
  <2>3. pc[r] \in CodeSteps => lineage[ctx[r].key].type = "code"
    BY <1>1 DEF IInv, Descent, HeldDescends, Descends, CodeSteps, HoldingSteps, RequestSteps, AcceptedSteps
  <2> QED
    BY <2>1, <2>2, <2>3 DEF Bound, Weak, Rotated, ExtendedInPlace
<1>2. CASE pc[r] \notin RequestSteps
  BY <1>2 DEF Bound, CodeSteps, HoldingSteps, RequestSteps, AcceptedSteps
<1> QED
  BY <1>1, <1>2

\* What a step of the request r leaves for the others.
StepOf(r) ==
    /\ \A q \in Requests \ {r} : pc'[q] = pc[q] /\ ctx'[q] = ctx[q]
    /\ spent \subseteq spent'
    /\ \A k \in spent' \ spent : k \in Keys /\ Drawn(k) /\ Weak(k)'

LEMMA OneRequestSpent ==
    ASSUME FullInv, StoreStep, NEW r \in Requests, StepOf(r), Bound(r)'
    PROVE  SpentInv'
<1>1. \A q \in Requests \ {r} : Bound(q)'
  BY BoundStays DEF FullInv, SpentInv, StepOf
<1>2. SpentWeak'
  BY SpentStay DEF FullInv, SpentInv, StepOf
<1> QED
  BY <1>1, <1>2 DEF SpentInv

LEMMA NoRequestSpent ==
    ASSUME FullInv, StoreStep, UNCHANGED <<pc, ctx, spent>>
    PROVE  SpentInv'
<1>1. \A q \in Requests : Bound(q)'
  BY BoundStays DEF FullInv, SpentInv
<1>2. SpentWeak'
  BY SpentStay DEF FullInv, SpentInv
<1> QED
  BY <1>1, <1>2 DEF SpentInv
LEMMA NoLocalsBound ==
    ASSUME NEW r \in Requests, pc'[r] \notin RequestSteps
    PROVE  Bound(r)'
BY DEF Bound, CodeSteps, HoldingSteps, RequestSteps, AcceptedSteps

-----------------------------------------------------------------------------
(***************************************************************************)
(* The steps that leave the store and the spent handles alone.             *)
(***************************************************************************)
LEMMA CodeGetSpent ==
    ASSUME FullInv, NEW r \in Requests, CodeGet(r)
    PROVE  StoreStep /\ SpentInv'
<1>1. StoreStep /\ StepOf(r)
  BY DEF CodeGet, Goto, Answer, Reject, StoreStep, StepOf, history, FullInv, IInv, TypeInv, TypeOK
<1>2. Bound(r)'
  BY NoneAssumption, SMTT(60)
  DEF CodeGet, Goto, Answer, Reject, Lookup, Bound, CodeSteps, RefreshSteps, HoldingSteps, RequestSteps,
      AcceptedSteps, SpentInv, SpentWeak, Weak, Drawn, FullInv, IInv, TypeInv, TypeOK, LocalsOf,
      Context, history, Descent, StoredDescend, HeldDescends, Descends, ExtendedInPlace, Rotated
<1> QED
  BY <1>1, <1>2, OneRequestSpent

LEMMA CodeActiveSpent ==
    ASSUME FullInv, NEW r \in Requests, CodeActive(r)
    PROVE  StoreStep /\ SpentInv'
<1>1. StoreStep /\ StepOf(r)
  BY DEF CodeActive, Goto, Answer, Reject, StoreStep, StepOf, history, FullInv, IInv, TypeInv, TypeOK
<1>2. Bound(r)'
  BY NoneAssumption, SMTT(60)
  DEF CodeActive, Goto, Answer, Reject, Lookup, Bound, CodeSteps, RefreshSteps, HoldingSteps, RequestSteps,
      AcceptedSteps, SpentInv, SpentWeak, Weak, Drawn, FullInv, IInv, TypeInv, TypeOK, LocalsOf,
      Context, history, Descent, StoredDescend, HeldDescends, Descends, ExtendedInPlace, Rotated
<1> QED
  BY <1>1, <1>2, OneRequestSpent

LEMMA RefreshGetSpent ==
    ASSUME FullInv, NEW r \in Requests, RefreshGet(r)
    PROVE  StoreStep /\ SpentInv'
<1>1. StoreStep /\ StepOf(r)
  BY DEF RefreshGet, Goto, Answer, Reject, StoreStep, StepOf, history, FullInv, IInv, TypeInv, TypeOK
<1>2. Bound(r)'
  BY NoneAssumption, SMTT(60)
  DEF RefreshGet, Goto, Answer, Reject, Lookup, Bound, CodeSteps, RefreshSteps, HoldingSteps, RequestSteps,
      AcceptedSteps, SpentInv, SpentWeak, Weak, Drawn, FullInv, IInv, TypeInv, TypeOK, LocalsOf,
      Context, history, Descent, StoredDescend, HeldDescends, Descends, ExtendedInPlace, Rotated
<1> QED
  BY <1>1, <1>2, OneRequestSpent

LEMMA RefreshActiveSpent ==
    ASSUME FullInv, NEW r \in Requests, RefreshActive(r)
    PROVE  StoreStep /\ SpentInv'
<1>1. StoreStep /\ StepOf(r)
  BY DEF RefreshActive, Goto, Answer, Reject, StoreStep, StepOf, history, FullInv, IInv, TypeInv, TypeOK
<1>2. Bound(r)'
  BY NoneAssumption, SMTT(60)
  DEF RefreshActive, Goto, Answer, Reject, Lookup, Bound, CodeSteps, RefreshSteps, HoldingSteps, RequestSteps,
      AcceptedSteps, SpentInv, SpentWeak, Weak, Drawn, FullInv, IInv, TypeInv, TypeOK, LocalsOf,
      Context, history, Descent, StoredDescend, HeldDescends, Descends, ExtendedInPlace, Rotated
<1> QED
  BY <1>1, <1>2, OneRequestSpent

LEMMA RevokeGetSpent ==
    ASSUME FullInv, NEW r \in Requests, RevokeGet(r)
    PROVE  StoreStep /\ SpentInv'
<1>1. StoreStep /\ StepOf(r)
  BY DEF RevokeGet, Goto, Answer, Reject, StoreStep, StepOf, history, FullInv, IInv, TypeInv, TypeOK
<1>2. Bound(r)'
  BY NoneAssumption, SMTT(60)
  DEF RevokeGet, Goto, Answer, Reject, Lookup, Bound, CodeSteps, RefreshSteps, HoldingSteps, RequestSteps,
      AcceptedSteps, SpentInv, SpentWeak, Weak, Drawn, FullInv, IInv, TypeInv, TypeOK, LocalsOf,
      Context, history, Descent, StoredDescend, HeldDescends, Descends, ExtendedInPlace, Rotated
<1> QED
  BY <1>1, <1>2, OneRequestSpent

LEMMA UseGetSpent ==
    ASSUME FullInv, NEW r \in Requests, UseGet(r)
    PROVE  StoreStep /\ SpentInv'
<1>1. StoreStep /\ StepOf(r)
  BY DEF UseGet, Goto, Answer, Reject, StoreStep, StepOf, history, FullInv, IInv, TypeInv, TypeOK
<1>2. Bound(r)'
  BY NoneAssumption, SMTT(60)
  DEF UseGet, Goto, Answer, Reject, Lookup, Bound, CodeSteps, RefreshSteps, HoldingSteps, RequestSteps,
      AcceptedSteps, SpentInv, SpentWeak, Weak, Drawn, FullInv, IInv, TypeInv, TypeOK, LocalsOf,
      Context, history, Descent, StoredDescend, HeldDescends, Descends, ExtendedInPlace, Rotated
<1> QED
  BY <1>1, <1>2, OneRequestSpent

LEMMA SweepTakeSpent ==
    ASSUME FullInv, NEW r \in Requests, SweepTake(r)
    PROVE  StoreStep /\ SpentInv'
<1>1. StoreStep /\ StepOf(r)
  BY DEF SweepTake, Goto, Answer, Reject, StoreStep, StepOf, history, FullInv, IInv, TypeInv, TypeOK
<1>2. Bound(r)'
  BY NoneAssumption, SMTT(60)
  DEF SweepTake, Goto, Answer, Reject, Lookup, Bound, CodeSteps, RefreshSteps, HoldingSteps, RequestSteps,
      AcceptedSteps, SpentInv, SpentWeak, Weak, Drawn, FullInv, IInv, TypeInv, TypeOK, LocalsOf,
      Context, history, Descent, StoredDescend, HeldDescends, Descends, ExtendedInPlace, Rotated
<1> QED
  BY <1>1, <1>2, OneRequestSpent

LEMMA SweepDoneSpent ==
    ASSUME FullInv, NEW r \in Requests, SweepDone(r)
    PROVE  StoreStep /\ SpentInv'
<1>1. StoreStep /\ StepOf(r)
  BY DEF SweepDone, Goto, Answer, Reject, StoreStep, StepOf, history, FullInv, IInv, TypeInv, TypeOK
<1>2. Bound(r)'
  BY NoneAssumption, SMTT(60)
  DEF SweepDone, Goto, Answer, Reject, Lookup, Bound, CodeSteps, RefreshSteps, HoldingSteps, RequestSteps,
      AcceptedSteps, SpentInv, SpentWeak, Weak, Drawn, FullInv, IInv, TypeInv, TypeOK, LocalsOf,
      Context, history, Descent, StoredDescend, HeldDescends, Descends, ExtendedInPlace, Rotated
<1> QED
  BY <1>1, <1>2, OneRequestSpent

LEMMA PresentSpent ==
    ASSUME FullInv, NEW r \in Requests, NEW c \in Clients, NEW k \in Keys, NEW v \in BOOLEAN,
           NEW x \in {"code_get", "refresh_get", "revoke_get", "use_get"}, Present(r, c, k, v, x)
    PROVE  StoreStep /\ SpentInv'
<1>1. StoreStep /\ StepOf(r)
  BY DEF Present, Goto, StoreStep, StepOf, history, FullInv, IInv, TypeInv, TypeOK
<1>2. Bound(r)'
  BY DEF Present, Goto, Bound, CodeSteps, HoldingSteps, RequestSteps, AcceptedSteps, FullInv, IInv,
         TypeInv, TypeOK
<1> QED
  BY <1>1, <1>2, OneRequestSpent

LEMMA RemoveAllGrantsSpent ==
    ASSUME FullInv, NEW r \in Requests, NEW u \in Users, NEW c \in Clients \cup {None},
           NEW x \in Sessions \cup {None}, RemoveAllGrants(r, u, c, x)
    PROVE  StoreStep /\ SpentInv'
<1>1. StoreStep /\ StepOf(r)
  BY DEF RemoveAllGrants, Goto, StoreStep, StepOf, history, FullInv, IInv, TypeInv, TypeOK
<1>2. pc'[r] \notin RequestSteps
  BY DEF RemoveAllGrants, Goto, RequestSteps, AcceptedSteps, FullInv, IInv, TypeInv, TypeOK
<1> QED
  BY <1>1, <1>2, NoLocalsBound, OneRequestSpent

LEMMA UseClientSpent ==
    ASSUME FullInv, NEW r \in Requests, UseClient(r)
    PROVE  StoreStep /\ SpentInv'
<1>1. StoreStep /\ StepOf(r)
  BY DEF UseClient, Deliver, Goto, Answer, Reject, StoreStep, StepOf, FullInv, IInv, TypeInv, TypeOK
<1>2. pc'[r] \notin RequestSteps
  BY DEF UseClient, Goto, Answer, Reject, RequestSteps, AcceptedSteps, FullInv, IInv, TypeInv, TypeOK
<1> QED
  BY <1>1, <1>2, NoLocalsBound, OneRequestSpent

\* The code was removed when the request came past CodeRemove.
LEMMA CodeIdSpent ==
    ASSUME FullInv, NEW r \in Requests, CodeId(r)
    PROVE  StoreStep /\ SpentInv'
<1>1. StoreStep
  BY DEF CodeId, Reject, StoreStep
<1>2. StepOf(r)
  <2>1. ctx[r].key \in Keys /\ Drawn(ctx[r].key) /\ Weak(ctx[r].key)
    BY DEF CodeId, FullInv, IInv, TypeInv, LocalsOf, Context, Drawn, SpentInv, Bound,
           CodeSteps, RequestSteps, AcceptedSteps
  <2>2. spent' = spent \/ spent' = spent \cup {ctx[r].key}
    BY DEF CodeId, Reject, Deliver
  <2>3. (\A k \in spent' \ spent : k \in Keys /\ Drawn(k) /\ Weak(k)') /\ spent \subseteq spent'
    BY <2>1, <2>2 DEF CodeId, Reject, Weak
  <2> QED
    BY <2>3 DEF CodeId, Answer, Reject, Goto, StepOf, FullInv, IInv, TypeInv, TypeOK
<1>3. pc'[r] \notin RequestSteps
  BY DEF CodeId, Goto, Answer, Reject, RequestSteps, AcceptedSteps, FullInv, IInv, TypeInv, TypeOK
<1> QED
  BY <1>1, <1>2, <1>3, NoLocalsBound, OneRequestSpent

-----------------------------------------------------------------------------
(***************************************************************************)
(* The steps that remove a grant.                                          *)
(***************************************************************************)
LEMMA RemovalIsStoreStep ==
    ASSUME NEW k \in Keys, Drawn(k), UNCHANGED lineage, grants' = [grants EXCEPT ![k] = None]
    PROVE  StoreStep
BY DEF StoreStep

LEMMA CodeRemoveSpent ==
    ASSUME FullInv, NEW r \in Requests, CodeRemove(r)
    PROVE  StoreStep /\ SpentInv'
<1>1. ctx[r].key \in Keys /\ Drawn(ctx[r].key)
  BY DEF CodeRemove, FullInv, IInv, TypeInv, LocalsOf, Context, Drawn, RequestSteps, AcceptedSteps
<1>2. StoreStep
  BY <1>1, RemovalIsStoreStep DEF CodeRemove, history
<1>3. StepOf(r)
  BY DEF CodeRemove, Answer, Goto, StepOf, history, FullInv, IInv, TypeInv, TypeOK
<1>4. Bound(r)'
  <2>1. CASE pc'[r] = "code_active"
    <3>1. ctx' = ctx /\ grants'[ctx[r].key] = None /\ UNCHANGED <<lineage, spent>>
      BY <1>1, <2>1 DEF CodeRemove, Answer, Goto, history, FullInv, IInv, TypeInv, TypeOK
    <3> QED
      BY <2>1, <3>1 DEF CodeRemove, Bound, Weak, FullInv, SpentInv, CodeSteps, HoldingSteps,
         RequestSteps, AcceptedSteps, ExtendedInPlace
  <2>2. CASE pc'[r] # "code_active"
    <3>1. pc'[r] = "idle"
      BY <2>2 DEF CodeRemove, Answer, Goto, FullInv, IInv, TypeInv, TypeOK
    <3> QED
      BY <3>1, NoLocalsBound DEF RequestSteps, AcceptedSteps
  <2> QED
    BY <2>1, <2>2
<1> QED
  BY <1>2, <1>3, <1>4, OneRequestSpent

LEMMA RevokeRemoveSpent ==
    ASSUME FullInv, NEW r \in Requests, RevokeRemove(r)
    PROVE  StoreStep /\ SpentInv'
<1>1. ctx[r].key \in Keys /\ Drawn(ctx[r].key)
  BY DEF RevokeRemove, FullInv, IInv, TypeInv, LocalsOf, Context, Drawn, RequestSteps, AcceptedSteps
<1>2. StoreStep
  BY <1>1, RemovalIsStoreStep DEF RevokeRemove
<1>3. StepOf(r)
  <2>1. grants'[ctx[r].key] = None
    BY <1>1 DEF RevokeRemove, FullInv, IInv, TypeInv, TypeOK
  <2>2. \A k \in spent' \ spent : k \in Keys /\ Drawn(k) /\ Weak(k)'
    BY <1>1, <2>1 DEF RevokeRemove, Weak
  <2> QED
    BY <2>2 DEF RevokeRemove, Answer, Goto, StepOf, FullInv, IInv, TypeInv, TypeOK
<1>4. pc'[r] \notin RequestSteps
  BY DEF RevokeRemove, Goto, Answer, RequestSteps, AcceptedSteps, FullInv, IInv, TypeInv, TypeOK
<1> QED
  BY <1>2, <1>3, <1>4, NoLocalsBound, OneRequestSpent

LEMMA UseRemoveSpent ==
    ASSUME FullInv, NEW r \in Requests, UseRemove(r)
    PROVE  StoreStep /\ SpentInv'
<1>1. ctx[r].key \in Keys /\ Drawn(ctx[r].key)
  BY DEF UseRemove, FullInv, IInv, TypeInv, LocalsOf, Context, Drawn, RequestSteps, AcceptedSteps
<1>2. StoreStep
  BY <1>1, RemovalIsStoreStep DEF UseRemove, history
<1>3. StepOf(r)
  BY DEF UseRemove, Answer, Goto, StepOf, history, FullInv, IInv, TypeInv, TypeOK
<1>4. pc'[r] \notin RequestSteps
  BY DEF UseRemove, Goto, Answer, RequestSteps, AcceptedSteps, FullInv, IInv, TypeInv, TypeOK
<1> QED
  BY <1>2, <1>3, <1>4, NoLocalsBound, OneRequestSpent

LEMMA SweepRemoveSpent ==
    ASSUME FullInv, NEW r \in Requests, NEW k \in Keys, SweepRemove(r, k)
    PROVE  StoreStep /\ SpentInv'
<1>1. Drawn(k)
  BY DEF SweepRemove, FullInv, IInv, Descent, SweptDrawn, SweepSteps, Drawn
<1>2. StoreStep
  BY <1>1, RemovalIsStoreStep DEF SweepRemove, history
<1>3. StepOf(r)
  BY DEF SweepRemove, StepOf, history
<1>4. pc'[r] \notin RequestSteps
  BY DEF SweepRemove, RequestSteps, AcceptedSteps
<1> QED
  BY <1>2, <1>3, <1>4, NoLocalsBound, OneRequestSpent

-----------------------------------------------------------------------------
(***************************************************************************)
(* The steps that write a grant.                                           *)
(***************************************************************************)
LEMMA CreationIsStoreStep ==
    ASSUME NEW k \in Keys, NEW g \in Grant, NEW l \in Lineage, Create(k, g, l), ~ g.consumed
    PROVE  StoreStep
<1>1. [l EXCEPT !.type = g.type] \in Lineage
  BY DEF Grant, Lineage
<1> QED
  BY <1>1 DEF Create, StoreStep

\* The grant a request redeems or rotates: well typed, its client's, not yet
\* consumed, under a handle of the same type.
LEMMA Holding ==
    ASSUME FullInv, NEW r \in Requests, pc[r] \in CodeSteps \cup RefreshSteps
    PROVE  /\ ctx[r] \in Context /\ ctx[r].key \in Keys /\ ctx[r].grant \in Grant
           /\ Drawn(ctx[r].key) /\ lineage[ctx[r].key] \in Lineage
           /\ ctx[r].client \in Clients /\ Config[ctx[r].client] \in Settings /\ now \in Nat
           /\ ~ ctx[r].grant.consumed
           /\ ctx[r].client = lineage[ctx[r].key].client
           /\ ctx[r].grant.type = lineage[ctx[r].key].type
           /\ ctx[r].late => ctx[r].key \in spent /\ ExtendedInPlace(ctx[r].key)
<1>1. pc[r] \in RequestSteps /\ pc[r] \in HoldingSteps \ {"revoke_remove"}
  BY DEF CodeSteps, RefreshSteps, HoldingSteps, RequestSteps, AcceptedSteps
<1>2. ctx[r] \in Context /\ ctx[r].grant \in Grant /\ lineage[ctx[r].key] \in Lineage
  BY <1>1 DEF FullInv, IInv, TypeInv, LocalsOf
<1>3. /\ Descends(ctx[r].grant, lineage[ctx[r].key]) /\ ctx[r].client = ctx[r].grant.client
      /\ ~ ctx[r].grant.consumed
  BY <1>1 DEF FullInv, IInv, Descent, HeldDescends, Descends, CodeSteps, RefreshSteps
<1>4. ctx[r].late => ctx[r].key \in spent /\ ExtendedInPlace(ctx[r].key)
  BY <1>1 DEF FullInv, SpentInv, Bound
<1> QED
  BY <1>2, <1>3, <1>4, ConfigAssumption
  DEF Context, Drawn, Descends, FullInv, IInv, TypeInv, TypeOK

LEMMA IssueCodeSpent ==
    ASSUME FullInv, NEW k \in Keys, NEW c \in Clients, NEW x \in Sessions,
           NEW o \in BOOLEAN, IssueCode(k, c, x, o)
    PROVE  StoreStep /\ SpentInv'
<1> DEFINE g == [type |-> "code", client |-> c, user |-> SessionUser[x], session |-> x,
                 created |-> now, lifetime |-> Config[c].codeLifetime,
                 consumed |-> FALSE, offline |-> o]
           l == [type |-> "code", client |-> c, user |-> SessionUser[x], session |-> x,
                 born |-> now]
<1>1. g \in Grant /\ l \in Lineage
  BY ConfigAssumption DEF Grant, Lineage, GrantTypes, Settings, FullInv, IInv, TypeInv, TypeOK
<1>2. Create(k, g, l) /\ ~ g.consumed
  BY DEF IssueCode
<1>3. StoreStep
  <2> HIDE DEF g, l
  <2> QED
    BY <1>1, <1>2, CreationIsStoreStep
<1> QED
  BY <1>3, NoRequestSpent DEF IssueCode

LEMMA AccessTokenIsStoreStep ==
    ASSUME FullInv, NEW r \in Requests, pc[r] \in CodeSteps \cup RefreshSteps,
           NEW k \in Keys, NEW u \in BOOLEAN, AccessToken(r, k, u)
    PROVE  StoreStep
<1> DEFINE c == ctx[r].client
           l == lineage[ctx[r].key]
           g == [ctx[r].grant EXCEPT !.type = "reference", !.client = c,
                                     !.session = IF u THEN None ELSE @, !.created = now,
                                     !.lifetime = Config[c].accessLifetime]
<1>1. CASE Config[c].reference
  <2>1. g \in Grant
    <3>1. c \in Clients /\ Config[c].accessLifetime \in Nat /\ now \in Nat /\ ctx[r].grant \in Grant
      BY Holding DEF Settings
    <3>2. (IF u THEN None ELSE ctx[r].grant.session) \in Sessions \cup {None}
      BY <3>1 DEF Grant
    <3>3. \A x \in Sessions \cup {None} :
             [ctx[r].grant EXCEPT !.type = "reference", !.client = c, !.session = x,
                                  !.created = now, !.lifetime = Config[c].accessLifetime] \in Grant
      BY <3>1 DEF Grant, GrantTypes
    <3> QED
      BY <3>2, <3>3
  <2>2. ~ g.consumed /\ l \in Lineage
    BY Holding DEF Grant
  <2>3. Create(k, g, l)
    BY <1>1 DEF AccessToken
  <2> HIDE DEF g, l
  <2> QED
    BY <2>1, <2>2, <2>3, CreationIsStoreStep
<1>2. CASE ~ Config[c].reference
  BY <1>2 DEF AccessToken, StoreStep
<1> QED
  BY <1>1, <1>2

\* What a step of r knows of the handle r holds, after the store changed.
LEMMA HeldStays ==
    ASSUME FullInv, NEW r \in Requests, pc[r] \in CodeSteps \cup RefreshSteps, StoreStep
    PROVE  /\ lineage'[ctx[r].key] = lineage[ctx[r].key]
           /\ pc[r] \in CodeSteps \ {"code_remove"} =>
                 grants'[ctx[r].key] = None \/ grants'[ctx[r].key].consumed
<1>1. ctx[r].key \in Keys /\ Drawn(ctx[r].key)
  BY Holding
<1>2. \A k \in Keys : Drawn(k) =>
         /\ lineage'[k] = lineage[k]
         /\ Weak(k) /\ ~ ExtendedInPlace(k) => grants'[k] = None \/ grants'[k].consumed
  BY WeakStays DEF Weak, FullInv
<1>3. pc[r] \in CodeSteps => lineage[ctx[r].key].type = "code"
  BY DEF FullInv, IInv, Descent, HeldDescends, Descends, CodeSteps, HoldingSteps, RequestSteps,
         AcceptedSteps
<1> QED
  BY <1>1, <1>2, <1>3 DEF ExtendedInPlace, FullInv, SpentInv, Bound

LEMMA CodeAccessSpent ==
    ASSUME FullInv, NEW r \in Requests, NEW k \in Keys, CodeAccess(r, k)
    PROVE  StoreStep /\ SpentInv'
<1>1. pc[r] = "code_access" /\ pc[r] \in CodeSteps
  BY DEF CodeAccess, CodeSteps
<1>2. StoreStep
  BY <1>1, AccessTokenIsStoreStep DEF CodeAccess, Reject, StoreStep
<1>3. StepOf(r)
  BY DEF CodeAccess, Answer, Reject, Goto, StepOf, FullInv, IInv, TypeInv, TypeOK
<1>4. Bound(r)'
  <2>1. CASE pc'[r] = "idle"
    BY <2>1, NoLocalsBound DEF RequestSteps, AcceptedSteps
  <2>2. CASE pc'[r] # "idle"
    <3>1. pc'[r] \in {"code_refresh", "code_id"} /\ UNCHANGED <<ctx, spent>>
      BY <2>2 DEF CodeAccess, Answer, Reject, Goto, FullInv, IInv, TypeInv, TypeOK
    <3> QED
      BY <1>1, <1>2, <3>1, Holding, HeldStays DEF Bound, Weak, CodeSteps, ExtendedInPlace
  <2> QED
    BY <2>1, <2>2
<1> QED
  BY <1>2, <1>3, <1>4, OneRequestSpent

LEMMA CodeRefreshSpent ==
    ASSUME FullInv, NEW r \in Requests, NEW k \in Keys, CodeRefresh(r, k)
    PROVE  StoreStep /\ SpentInv'
<1> DEFINE g == [ctx[r].grant EXCEPT !.type = "refresh", !.created = now,
                                     !.client = ctx[r].client,
                                     !.lifetime = FirstLifetime(ctx[r].client)]
           l == [lineage[ctx[r].key] EXCEPT !.born = now]
<1>1. pc[r] = "code_refresh" /\ pc[r] \in CodeSteps
  BY DEF CodeRefresh, CodeSteps
<1>2. StoreStep
  <2>1. FirstLifetime(ctx[r].client) \in Nat
    BY <1>1, Holding DEF FirstLifetime, Settings
  <2>2. g \in Grant /\ l \in Lineage /\ ~ g.consumed
    BY <1>1, <2>1, Holding DEF Grant, GrantTypes, Lineage
  <2>3. Create(k, g, l)
    BY DEF CodeRefresh
  <2> HIDE DEF g, l
  <2> QED
    BY <2>2, <2>3, CreationIsStoreStep
<1>3. StepOf(r)
  BY DEF CodeRefresh, Goto, StepOf, FullInv, IInv, TypeInv, TypeOK
<1>4. Bound(r)'
  <2>1. pc'[r] = "code_id" /\ UNCHANGED <<ctx, spent>>
    BY DEF CodeRefresh, Goto, FullInv, IInv, TypeInv, TypeOK
  <2> QED
    BY <1>1, <1>2, <2>1, Holding, HeldStays DEF Bound, Weak, CodeSteps, ExtendedInPlace
<1> QED
  BY <1>2, <1>3, <1>4, OneRequestSpent

LEMMA RefreshAccessSpent ==
    ASSUME FullInv, NEW r \in Requests, NEW k \in Keys, RefreshAccess(r, k)
    PROVE  StoreStep /\ SpentInv'
<1>1. pc[r] = "refresh_access" /\ pc[r] \in RefreshSteps /\ lineage[ctx[r].key].type = "refresh"
  BY Holding DEF RefreshAccess, RefreshSteps, FullInv, IInv, Descent, HeldDescends
<1>2. StoreStep
  BY <1>1, Holding, AccessTokenIsStoreStep DEF RefreshAccess, Settings
<1>3. StepOf(r)
  BY DEF RefreshAccess, Deliver, Answer, Goto, StepOf, FullInv, IInv, TypeInv, TypeOK
<1>4. Bound(r)'
  <2>1. CASE pc'[r] = "idle"
    BY <2>1, NoLocalsBound DEF RequestSteps, AcceptedSteps
  <2>2. CASE pc'[r] # "idle"
    <3>1. UNCHANGED <<ctx, spent>>
      BY <2>2 DEF RefreshAccess, Answer, Goto, FullInv, IInv, TypeInv, TypeOK
    <3>2. \/ pc'[r] = "refresh_consume"
          \/ /\ pc'[r] = "refresh_write"
             /\ Config[ctx[r].client].usage = "ReUse"
             /\ Config[ctx[r].client].expiration = "Sliding"
      BY <2>2 DEF RefreshAccess, Answer, Goto, FullInv, IInv, TypeInv, TypeOK
    <3> QED
      BY <1>1, <1>2, <3>1, <3>2, Holding, HeldStays, SMTT(30) DEF Bound, CodeSteps, ExtendedInPlace
  <2> QED
    BY <2>1, <2>2
<1> QED
  BY <1>2, <1>3, <1>4, OneRequestSpent

LEMMA RefreshConsumeSpent ==
    ASSUME FullInv, NEW r \in Requests, RefreshConsume(r)
    PROVE  StoreStep /\ SpentInv'
<1> DEFINE g == [ctx[r].grant EXCEPT !.consumed = TRUE]
           h == ctx[r].key
<1>1. pc[r] \in RefreshSteps /\ g \in Grant /\ g.consumed /\ h \in Keys /\ Drawn(h)
  BY Holding DEF RefreshConsume, RefreshSteps, Grant
<1>2. Rotated(h)
  BY <1>1, Holding DEF RefreshConsume, Rotated, FullInv, IInv, Descent, HeldDescends, RefreshSteps
<1>3. grants' = [grants EXCEPT ![h] = g] /\ UNCHANGED <<ctx, lineage, spent>>
      /\ pc'[r] = "refresh_write"
  BY DEF RefreshConsume, Goto, history, FullInv, IInv, TypeInv, TypeOK
<1>4. StoreStep
  <2> HIDE DEF g, h
  <2> QED
    BY <1>1, <1>2, <1>3 DEF StoreStep
<1>5. StepOf(r)
  BY DEF RefreshConsume, Goto, StepOf, history, FullInv, IInv, TypeInv, TypeOK
<1>6. Bound(r)'
  <2>1. Rotated(h)' /\ Weak(h)'
    <3> HIDE DEF g
    <3> QED
      BY <1>1, <1>2, <1>3 DEF Rotated, Weak, FullInv, IInv, TypeInv, TypeOK
  <2> QED
    BY <1>1, <1>3, <2>1, Holding DEF Bound, CodeSteps, ExtendedInPlace
<1> QED
  BY <1>4, <1>5, <1>6, OneRequestSpent

LEMMA RefreshWriteSpent ==
    ASSUME FullInv, NEW r \in Requests, NEW k \in Keys, RefreshWrite(r, k)
    PROVE  StoreStep /\ SpentInv'
<1> DEFINE g == [ctx[r].grant EXCEPT !.lifetime = NextLifetime(ctx[r].client, ctx[r].grant)]
           h == ctx[r].key
<1>1. pc[r] = "refresh_write" /\ pc[r] \in RefreshSteps /\ h \in Keys /\ Drawn(h)
  BY Holding DEF RefreshWrite, RefreshSteps
<1>2. g \in Grant /\ ~ g.consumed
  <2>1. now - ctx[r].grant.created \in Nat
    BY <1>1, Holding DEF FullInv, IInv, TypeInv, LocalsOf, HoldingSteps, RequestSteps, AcceptedSteps, Grant
  <2>2. NextLifetime(ctx[r].client, ctx[r].grant) \in Nat
    BY <1>1, <2>1, Holding, LifetimesAreNat DEF FullInv, IInv, TypeInv
  <2> QED
    BY <1>1, <2>2, Holding DEF Grant
<1>3. ASSUME Config[ctx[r].client].usage = "OneTimeOnly"
      PROVE  StoreStep /\ spent' = spent \cup {h} /\ (grants'[h] = None \/ grants'[h].consumed)
  <2>1. Create(k, g, lineage[h]) /\ spent' = spent \cup {h}
    BY <1>3 DEF RefreshWrite, Deliver
  <2>2. Rotated(h) /\ Weak(h)
    BY <1>1, <1>3, Holding DEF FullInv, SpentInv, Bound, ExtendedInPlace, Rotated
  <2>3. StoreStep
    <3>1. lineage[h] \in Lineage
      BY <1>1 DEF Drawn
    <3> HIDE DEF g, h
    <3> QED
      BY <1>2, <2>1, <3>1, CreationIsStoreStep
  <2>4. Weak(h) => grants'[h] = None \/ grants'[h].consumed
    <3>1. \A x \in Keys : Drawn(x) /\ Weak(x) /\ ~ ExtendedInPlace(x) =>
             grants'[x] = None \/ grants'[x].consumed
      BY <2>3, WeakStays DEF Weak, FullInv
    <3> QED
      BY <1>1, <2>2, <3>1 DEF Rotated, ExtendedInPlace
  <2> QED
    BY <1>1, <2>1, <2>2, <2>3, <2>4
<1>4. ASSUME Config[ctx[r].client].usage # "OneTimeOnly"
      PROVE  StoreStep /\ UNCHANGED spent
  <2>1. grants' = [grants EXCEPT ![h] = g] /\ UNCHANGED <<lineage, spent>>
    BY <1>4 DEF RefreshWrite, Deliver
  <2>2. ExtendedInPlace(h)
    BY <1>1, <1>4, Holding DEF FullInv, SpentInv, Bound, Rotated
  <2>3. StoreStep
    <3> HIDE DEF g, h
    <3> QED
      BY <1>1, <1>2, <2>1, <2>2 DEF StoreStep
  <2> QED
    BY <2>1, <2>3
<1>5. StoreStep /\ StepOf(r)
  <2>1. /\ StoreStep /\ spent \subseteq spent'
        /\ \A x \in spent' \ spent : x \in Keys /\ Drawn(x) /\ Weak(x)'
    <3>1. CASE Config[ctx[r].client].usage = "OneTimeOnly"
      <4>1. spent' = spent \cup {h} /\ StoreStep /\ (grants'[h] = None \/ grants'[h].consumed)
        BY <3>1, <1>3
      <4> QED
        BY <1>1, <4>1 DEF Weak
    <3> QED
      BY <3>1, <1>4
  <2> QED
    BY <2>1 DEF RefreshWrite, Answer, Goto, StepOf, FullInv, IInv, TypeInv, TypeOK
<1>6. pc'[r] \notin RequestSteps
  BY DEF RefreshWrite, Goto, Answer, RequestSteps, AcceptedSteps, FullInv, IInv, TypeInv, TypeOK
<1> QED
  BY <1>5, <1>6, NoLocalsBound, OneRequestSpent

-----------------------------------------------------------------------------
(***************************************************************************)
(* All steps together, and the theorems.                                   *)
(***************************************************************************)
LEMMA FullInvInit == Init => FullInv
BY TypeInvInit, DescentInit
DEF FullInv, IInv, SpentInv, SpentWeak, Bound, Init, CodeSteps, HoldingSteps, RequestSteps, AcceptedSteps

LEMMA AnyStep == FullInv /\ [Next]_vars => StoreStep /\ SpentInv'
<1> SUFFICES ASSUME FullInv, [Next]_vars PROVE StoreStep /\ SpentInv'
  OBVIOUS
<1>1. CASE \/ Tick \/ UNCHANGED vars
           \/ \E u \in Lockable : SetActive(u)
           \/ \E c \in Clients, state \in Edits : EditClient(c, state)
  <2>1. UNCHANGED <<grants, pc, ctx, lineage, spent>>
    BY <1>1 DEF Tick, SetActive, EditClient, vars, history
  <2> QED
    BY <2>1, NoRequestSpent DEF StoreStep
<1>2. ASSUME NEW r \in Requests, Arrival(r) PROVE StoreStep /\ SpentInv'
  <2>1. ASSUME NEW k \in Keys, lineage[k] # None PROVE lineage[k].client \in Clients
    BY <2>1 DEF FullInv, IInv, TypeInv, TypeOK, Lineage
  <2> QED
    BY <1>2, <2>1, PresentSpent, RemoveAllGrantsSpent, ConfigAssumption, ZenonT(60)
    DEF Arrival, TokenRequest
<1>3. ASSUME NEW r \in Requests, Step(r) PROVE StoreStep /\ SpentInv'
  BY <1>3, CodeGetSpent, CodeRemoveSpent, CodeActiveSpent, CodeIdSpent,
     RefreshGetSpent, RefreshActiveSpent, RefreshConsumeSpent, RevokeGetSpent,
     RevokeRemoveSpent, UseGetSpent, UseRemoveSpent, UseClientSpent,
     SweepTakeSpent, SweepDoneSpent, CodeAccessSpent, CodeRefreshSpent,
     RefreshAccessSpent, RefreshWriteSpent, SweepRemoveSpent
  DEF Step
<1> QED
  BY <1>1, <1>2, <1>3, IssueCodeSpent DEF Next, EnvironmentStep

LEMMA FullInductive == Spec => []FullInv
<1>1. Init => FullInv
  BY FullInvInit
<1>2. FullInv /\ [Next]_vars => FullInv'
  BY AnyStep, TypeInvStep, DescentStep DEF FullInv, IInv
<1> QED
  BY <1>1, <1>2, PTL DEF Spec

\* A handle that was revoked or used up is not accepted by a request that
\* arrives later, unless its client extends refresh tokens in place.
THEOREM SpentAreNeverAccepted == Spec => []SpentNeverAccepted
<1>1. FullInv => SpentNeverAccepted
  BY DEF FullInv, SpentInv, Bound, SpentNeverAccepted, LateAccepted, HoldingSteps, RequestSteps,
     AcceptedSteps
<1> QED
  BY <1>1, FullInductive, PTL

\* No step of any request makes a consumed grant fresh again.
THEOREM ConsumedGrantsStay == Spec => ConsumedStays
<1>1. FullInv /\ [Next]_vars =>
         [\A k \in Keys : grants[k] # None /\ grants[k].consumed /\ grants'[k] # None
                          => grants'[k].consumed]_vars
  <2> SUFFICES ASSUME FullInv, [Next]_vars, NEW k \in Keys,
                      grants[k] # None, grants[k].consumed, grants'[k] # None
               PROVE  grants'[k].consumed
    OBVIOUS
  <2>1. StoreStep
    BY AnyStep
  <2>2. Drawn(k) /\ Weak(k) /\ ~ ExtendedInPlace(k)
    BY DEF FullInv, IInv, TypeInv, TypeOK, Descent, StoredDescend, Descends, Drawn, Weak,
           ExtendedInPlace
  <2> QED
    BY <2>1, <2>2, WeakStays DEF Weak, FullInv
<1> QED
  BY <1>1, FullInductive, PTL DEF Spec, ConsumedStays

\* A step that leaves the other handles alone changes one life.
LEMMA OneLife ==
    ASSUME NEW k \in Keys,
           \A x \in Keys \ {k} : grants'[x] = grants[x] /\ lineage'[x] = lineage[x]
    PROVE  [x \in Keys |-> LifeOf(x)]' = [[x \in Keys |-> LifeOf(x)] EXCEPT ![k] = LifeOf(k)']
<1>1. \A x \in Keys \ {k} : LifeOf(x)' = LifeOf(x)
  BY DEF LifeOf
<1> QED
  BY <1>1

LEMMA LifeOfDrawn ==
    ASSUME NEW k \in Keys, Drawn(k)
    PROVE  /\ LifeOf(k) # Lifecycle!Unborn
           /\ LifeOf(k).mode \in {"oneTime", "rewritten"}
           /\ Rotated(k) => LifeOf(k).mode = "oneTime"
           /\ ExtendedInPlace(k) => LifeOf(k).mode = "rewritten"
<1>1. lineage[k] # None
  BY NoneAssumption DEF Drawn
<1>2. LifeOf(k).mode = IF lineage[k].type = "refresh" /\ Config[lineage[k].client].usage = "ReUse"
                       THEN "rewritten" ELSE "oneTime"
  BY <1>1 DEF LifeOf
<1> QED
  BY <1>2 DEF Lifecycle!Unborn, Rotated, ExtendedInPlace

\* A step of the store draws, consumes, removes or rewrites one handle.
LEMMA LifeStep ==
    ASSUME FullInv, StoreStep
    PROVE  [Lifecycle!Next]_([k \in Keys |-> LifeOf(k)])
<1> DEFINE life == [k \in Keys |-> LifeOf(k)]
<1>0. grants \in [Keys -> Grant \cup {None}] /\ lineage \in [Keys -> Lineage \cup {None}]
  BY DEF FullInv, IInv, TypeInv, TypeOK
<1>1. CASE UNCHANGED <<grants, lineage>>
  BY <1>1 DEF LifeOf
<1>2. ASSUME NEW k \in Fresh, NEW g \in Grant, NEW l \in Lineage, ~ g.consumed,
             grants' = [grants EXCEPT ![k] = g], lineage' = [lineage EXCEPT ![k] = l]
      PROVE  Lifecycle!Next
  <2>1. k \in Keys /\ lineage[k] = None
    BY DEF Fresh
  <2>2. life' = [life EXCEPT ![k] = LifeOf(k)']
    BY <1>0, <1>2, <2>1, OneLife
  <2>3. grants'[k] # None /\ ~ grants'[k].consumed /\ lineage'[k] # None
    BY <1>0, <1>2, <2>1, NoneAssumption
  <2>4. \E mode \in {"oneTime", "rewritten"} : LifeOf(k)' = [mode |-> mode, state |-> "fresh"]
    BY <2>3 DEF LifeOf
  <2>5. life[k] = Lifecycle!Unborn
    BY <2>1 DEF LifeOf, Lifecycle!Unborn
  <2> QED
    BY <2>1, <2>2, <2>4, <2>5 DEF Lifecycle!Next, Lifecycle!Draw, Lifecycle!Become, Lifecycle!Modes
<1>3. ASSUME UNCHANGED lineage, NEW k \in Keys, Drawn(k), grants' = [grants EXCEPT ![k] = None]
      PROVE  Lifecycle!Next
  <2>1. life' = [life EXCEPT ![k] = LifeOf(k)']
    BY <1>0, <1>3, OneLife
  <2>2. grants'[k] = None /\ lineage'[k] = lineage[k] /\ lineage[k] # None
    BY <1>0, <1>3, NoneAssumption DEF Drawn
  <2>3. LifeOf(k)' = [mode |-> LifeOf(k).mode, state |-> "gone"]
    BY <2>2 DEF LifeOf
  <2>4. life[k] = LifeOf(k) /\ life[k] # Lifecycle!Unborn
    BY <1>3, LifeOfDrawn
  <2> QED
    BY <2>1, <2>3, <2>4 DEF Lifecycle!Next, Lifecycle!Remove, Lifecycle!Become
<1>4. ASSUME UNCHANGED lineage, NEW k \in Keys, NEW g \in Grant, Drawn(k),
             grants' = [grants EXCEPT ![k] = g]
      PROVE  /\ life' = [life EXCEPT ![k] = LifeOf(k)']
             /\ LifeOf(k)' = [mode  |-> LifeOf(k).mode,
                              state |-> IF g.consumed THEN "consumed" ELSE "fresh"]
             /\ life[k] = LifeOf(k) /\ life[k] # Lifecycle!Unborn
  <2>1. life' = [life EXCEPT ![k] = LifeOf(k)']
    BY <1>0, <1>4, OneLife
  <2>2. /\ grants'[k] = g /\ g # None
        /\ lineage'[k] = lineage[k] /\ lineage[k] # None
    BY <1>0, <1>4, NoneAssumption DEF Drawn
  <2>3. LifeOf(k)' = [mode |-> LifeOf(k).mode, state |-> IF g.consumed THEN "consumed" ELSE "fresh"]
    BY <2>2 DEF LifeOf
  <2>4. life[k] = LifeOf(k) /\ life[k] # Lifecycle!Unborn
    BY <1>4, LifeOfDrawn
  <2> QED
    BY <2>1, <2>3, <2>4
<1>5. ASSUME UNCHANGED lineage, NEW k \in Keys, NEW g \in Grant, Drawn(k), Rotated(k), g.consumed,
             grants' = [grants EXCEPT ![k] = g]
      PROVE  Lifecycle!Next
  <2>1. LifeOf(k).mode = "oneTime"
    BY <1>5, LifeOfDrawn
  <2> QED
    BY <1>4, <1>5, <2>1, ZenonT(60) DEF Lifecycle!Next, Lifecycle!Consume, Lifecycle!Become
<1>6. ASSUME UNCHANGED lineage, NEW k \in Keys, NEW g \in Grant, Drawn(k), ExtendedInPlace(k),
             ~ g.consumed, grants' = [grants EXCEPT ![k] = g]
      PROVE  Lifecycle!Next
  <2>1. LifeOf(k).mode = "rewritten"
    BY <1>6, LifeOfDrawn
  <2> QED
    BY <1>4, <1>6, <2>1 DEF Lifecycle!Next, Lifecycle!Rewrite, Lifecycle!Become
<1>7. UNCHANGED <<grants, lineage>> \/ Lifecycle!Next
  BY <1>2, <1>3, <1>5, <1>6 DEF StoreStep
<1> QED
  BY <1>1, <1>7

\* TokenGrants implements GrantLifecycle.
THEOREM GrantsFollowTheLifecycle == Spec => ImplementsLifecycle
<1>1. Init => Lifecycle!Init
  BY DEF Init, Lifecycle!Init, Lifecycle!Unborn, LifeOf
<1>2. FullInv /\ [Next]_vars => [Lifecycle!Next]_([k \in Keys |-> LifeOf(k)])
  BY AnyStep, LifeStep
<1> QED
  BY <1>1, <1>2, FullInductive, PTL DEF Spec, ImplementsLifecycle, Lifecycle!Spec

=============================================================================
