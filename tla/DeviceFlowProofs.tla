-------------------------- MODULE DeviceFlowProofs --------------------------
(***************************************************************************)
(* Theorems of DeviceFlow, for every set of codes, clients, users, scopes  *)
(* and requests, any interval and lifetime.                                *)
(***************************************************************************)
EXTENDS DeviceFlow, WellFoundedInduction, TLAPS

\* The steps of the device page and of a poll.
PageSteps == {"consent", "handle", "set_authorized", "set_subject", "set_scopes", "update"}
WritingSteps == {"set_authorized", "set_subject", "set_scopes", "update"}
SubjectSteps == {"poll_active"} \cup AcceptedSteps
FoundSteps == {"poll_seen", "poll_mark", "poll_slow", "poll_denied", "poll_pending"}
                 \cup SubjectSteps

\* A request has the locals its next step reads, and an object it found.
LocalsOf(r) ==
    /\ pc[r] = "idle" => ctx[r] = None
    /\ pc[r] \in {"start_find", "start_store"} => ctx[r] \in StartContext
    /\ pc[r] = "start_store" => ctx[r].code \in UserCodes
    /\ pc[r] \in PageSteps => ctx[r] \in ConsentContext
    /\ pc[r] \in WritingSteps =>
          ctx[r].object \in DeviceCodes /\ object[ctx[r].object] # None
    /\ pc[r] \in {"poll_find"} \cup FoundSteps =>
          ctx[r] \in PollContext /\ object[ctx[r].device] # None
    /\ pc[r] \in FoundSteps =>
          /\ ctx[r].object \in DeviceCodes /\ object[ctx[r].object] # None
          /\ object[ctx[r].object].client = ctx[r].client
    /\ pc[r] \in SubjectSteps =>
          ctx[r].subject \in Users /\ object[ctx[r].object].subject # None
    /\ pc[r] = "poll_subject" => ctx[r].scopes \in Consents

\* The entries of the store hold objects that were made, and each device code is
\* stored once.
StoreOK ==
    /\ \A i \in DOMAIN repository :
          object[repository[i].device] # None /\ object[repository[i].data] # None
    /\ \A i, j \in DOMAIN repository :
          repository[i].device = repository[j].device => i = j

TypeInv == TypeOK /\ StoreOK /\ \A r \in Requests : LocalsOf(r)

\* An object says what users decided about it, and a request under way what they
\* are about to write.
Decided(d) ==
    object[d] # None =>
       /\ object[d].subject # None => \E x \in decisions[d] : x.user = object[d].subject
       /\ object[d].scopes # None => \E x \in decisions[d] : x.scopes = object[d].scopes

Deciding(r) ==
    /\ pc[r] \in WritingSteps =>
          [user |-> ctx[r].user, scopes |-> ctx[r].scopes] \in decisions[ctx[r].object]
    /\ pc[r] = "poll_subject" =>
          \E x \in decisions[ctx[r].object] : x.scopes = ctx[r].scopes

GrantInv ==
    /\ TypeInv
    /\ \A d \in DeviceCodes : Decided(d)
    /\ \A r \in Requests : Deciding(r)
    /\ \A t \in issued : object[t.object] # None
    /\ OnlyWhatWasGranted

\* A removed code is not in the store, and a poll that came later finds nothing.
RemovedGone ==
    \A d \in removed : object[d] # None /\ \A i \in DOMAIN repository : repository[i].device # d

Late(r) ==
    ctx[r] \in PollContext /\ ctx[r].late => pc[r] = "poll_find" /\ ctx[r].device \in removed

RemovedInv == TypeInv /\ RemovedGone /\ \A r \in Requests : Late(r)

\* A polite poll is the only one of its device, and the cache has forgotten the
\* poll before it.
Polite(r) ==
    ctx[r] \in PollContext /\ ctx[r].polite =>
       /\ \A q \in Requests \ {r} : ~ Polling(q, ctx[r].device)
       /\ pc[r] \in {"poll_find", "poll_seen"} => seen[ctx[r].device] = Interval
       /\ pc[r] # "poll_slow"

Quiet(d) == quiet[d] <= seen[d] \/ \E r \in Requests : Polling(r, d)

PoliteInv ==
    /\ TypeInv
    /\ \A r \in Requests : Polite(r)
    /\ \A d \in DeviceCodes : Quiet(d)

\* The throttling cache is not older than the last poll that passed, but for
\* polls that have passed and are about to record themselves.
Marking(r, d) == pc[r] = "poll_mark" /\ ctx[r].device = d

Spaced(d) == seen[d] <= passed[d] \/ \E r \in Requests : Marking(r, d)

SpacedInv == TypeInv /\ \A d \in DeviceCodes : Spaced(d)

-----------------------------------------------------------------------------
(***************************************************************************)
(* The store is a list.                                                    *)
(***************************************************************************)
LEMMA FirstIsLeast ==
    ASSUME NEW I \in SUBSET Nat, I # {}
    PROVE  First(I) \in I
<1>1. PICK i \in I : \A j \in I : ~ (<<j, i>> \in OpToRel(<, Nat))
  BY NatLessThanWellFounded, WFMin
<1>2. \A j \in I : ~ (j < i)
  BY <1>1, Zenon DEF OpToRel
<1>3. \A j \in I : i <= j
  BY <1>2
<1> QED
  BY <1>3 DEF First

LEMMA RemoveAtMoves ==
    ASSUME NEW S, NEW s \in Seq(S), NEW i \in 1..Len(s)
    PROVE  /\ RemoveAt(s, i) \in Seq(S)
           /\ Len(RemoveAt(s, i)) = Len(s) - 1
           /\ \A j \in 1..(Len(s) - 1) : RemoveAt(s, i)[j] = IF j < i THEN s[j] ELSE s[j + 1]
<1> DEFINE a == SubSeq(s, 1, i - 1)
           b == SubSeq(s, i + 1, Len(s))
<1>1. a \in Seq(S) /\ Len(a) = i - 1 /\ \A j \in 1..(i - 1) : a[j] = s[j]
  OBVIOUS
<1>2. b \in Seq(S) /\ Len(b) = Len(s) - i /\ \A j \in 1..(Len(s) - i) : b[j] = s[i + j]
  OBVIOUS
<1>3. RemoveAt(s, i) = a \o b
  BY DEF RemoveAt
<1> HIDE DEF a, b
<1>4. (a \o b) \in Seq(S)
  BY <1>1, <1>2
<1>5. Len(a \o b) = Len(s) - 1
  BY <1>1, <1>2
<1>6. \A j \in 1..(Len(s) - 1) : (a \o b)[j] = IF j < i THEN s[j] ELSE s[j + 1]
  BY <1>1, <1>2
<1> QED
  BY <1>3, <1>4, <1>5, <1>6

\* The first entry with a code is an entry with that code.
LEMMA FoundEntry ==
    ASSUME TypeOK
    PROVE  /\ \A u : ByUserCode(u) # {} =>
                 First(ByUserCode(u)) \in 1..Len(repository)
                 /\ repository[First(ByUserCode(u))].user = u
           /\ \A d : ByDeviceCode(d) # {} =>
                 First(ByDeviceCode(d)) \in 1..Len(repository)
                 /\ repository[First(ByDeviceCode(d))].device = d
<1>1. repository \in Seq(Entry)
  BY DEF TypeOK
<1>2. ASSUME NEW u, ByUserCode(u) # {}
      PROVE  First(ByUserCode(u)) \in 1..Len(repository)
             /\ repository[First(ByUserCode(u))].user = u
  <2>1. ByUserCode(u) \in SUBSET Nat
    BY <1>1 DEF ByUserCode
  <2>2. First(ByUserCode(u)) \in ByUserCode(u)
    BY <1>2, <2>1, FirstIsLeast
  <2> QED
    BY <1>1, <2>2 DEF ByUserCode
<1>3. ASSUME NEW d, ByDeviceCode(d) # {}
      PROVE  First(ByDeviceCode(d)) \in 1..Len(repository)
             /\ repository[First(ByDeviceCode(d))].device = d
  <2>1. ByDeviceCode(d) \in SUBSET Nat
    BY <1>1 DEF ByDeviceCode
  <2>2. First(ByDeviceCode(d)) \in ByDeviceCode(d)
    BY <1>3, <2>1, FirstIsLeast
  <2> QED
    BY <1>1, <2>2 DEF ByDeviceCode
<1> QED
  BY <1>2, <1>3

\* What is found is an object that was made.
LEMMA FoundObject ==
    ASSUME TypeOK, StoreOK
    PROVE  /\ \A u : Found(ByUserCode(u)) # None =>
                 Found(ByUserCode(u)) \in DeviceCodes /\ object[Found(ByUserCode(u))] # None
           /\ \A d : Found(ByDeviceCode(d)) # None =>
                 Found(ByDeviceCode(d)) \in DeviceCodes /\ object[Found(ByDeviceCode(d))] # None
<1>1. repository \in Seq(Entry)
  BY DEF TypeOK
<1>2. DOMAIN repository = 1..Len(repository)
  BY <1>1
<1>3. \A i \in 1..Len(repository) : repository[i].data \in DeviceCodes
  <2>1. \A i \in 1..Len(repository) : repository[i] \in Entry
    BY <1>1
  <2> QED
    BY <2>1 DEF Entry
<1>4. \A i \in 1..Len(repository) : object[repository[i].data] # None
  BY <1>2 DEF StoreOK
<1> QED
  BY <1>3, <1>4, FoundEntry DEF Found

-----------------------------------------------------------------------------
(***************************************************************************)
(* Types.                                                                  *)
(***************************************************************************)
LEMMA TypeInvInit == Init => TypeInv
<1> SUFFICES ASSUME Init PROVE TypeInv
  OBVIOUS
<1>1. /\ repository \in Seq(Entry)
      /\ pc \in [Requests -> Steps]
      /\ ctx \in [Requests -> StartContext \cup ConsentContext \cup PollContext \cup {None}]
      /\ issued \subseteq Token /\ removed \subseteq DeviceCodes
  BY DEF Init, Steps
<1>2. /\ object \in [DeviceCodes -> DeviceCode \cup {None}]
      /\ active \in [Users -> BOOLEAN]
      /\ decisions \in [DeviceCodes -> SUBSET [user : Users, scopes : Consents \cup {None}]]
  BY DEF Init
<1>3. /\ age \in [DeviceCodes -> 0..(Lifetime + 1)]
      /\ seen \in [DeviceCodes -> 0..Interval]
      /\ quiet \in [DeviceCodes -> 0..Interval]
      /\ passed \in [DeviceCodes -> 0..Interval]
  BY DeviceFlowAssumption DEF Init
<1>4. StoreOK /\ \A r \in Requests : LocalsOf(r)
  BY DEF Init, StoreOK, LocalsOf, PageSteps, WritingSteps, FoundSteps, SubjectSteps, AcceptedSteps
<1> QED
  BY <1>1, <1>2, <1>3, <1>4 DEF TypeInv, TypeOK

\* No step unmakes an object, gives it to another client or takes its subject away.
ObjectsGrow ==
    \A d \in DeviceCodes : object[d] # None =>
       /\ object'[d] # None /\ object'[d].client = object[d].client
       /\ object[d].subject # None => object'[d].subject # None

\* Only the request r moves.
Alone(r) == \A q \in Requests \ {r} : pc'[q] = pc[q] /\ ctx'[q] = ctx[q]

LocalsTyped ==
    /\ pc' \in [Requests -> Steps]
    /\ ctx' \in [Requests -> StartContext \cup ConsentContext \cup PollContext \cup {None}]

LEMMA OthersKeep ==
    ASSUME TypeInv, NEW q \in Requests, ObjectsGrow, pc'[q] = pc[q], ctx'[q] = ctx[q]
    PROVE  LocalsOf(q)'
<1>1. LocalsOf(q)
  BY DEF TypeInv
<1>2. pc[q] \in {"poll_find"} \cup FoundSteps => ctx[q].device \in DeviceCodes
  BY <1>1 DEF LocalsOf, PollContext
<1> QED
  BY <1>1, <1>2 DEF LocalsOf, ObjectsGrow, FoundSteps, SubjectSteps

LEMMA Answered ==
    ASSUME TypeInv, NEW r \in Requests, Answer(r)
    PROVE  LocalsTyped /\ Alone(r) /\ pc'[r] = "idle" /\ ctx'[r] = None /\ LocalsOf(r)'
<1>1. pc'[r] = "idle" /\ ctx'[r] = None /\ Alone(r)
  BY DEF TypeInv, TypeOK, Answer, Goto, Alone
<1>2. LocalsTyped
  BY DEF TypeInv, TypeOK, Answer, Goto, LocalsTyped, Steps
<1>3. LocalsOf(r)'
  BY <1>1 DEF LocalsOf, PageSteps, WritingSteps, FoundSteps, SubjectSteps, AcceptedSteps
<1> QED
  BY <1>1, <1>2, <1>3

LEMMA Gone ==
    ASSUME TypeInv, NEW r \in Requests, NEW step \in Steps, Goto(r, step), 
           NEW c \in StartContext \cup ConsentContext \cup PollContext \cup {None},
           ctx' = [ctx EXCEPT ![r] = c]
    PROVE  LocalsTyped /\ Alone(r) /\ pc'[r] = step /\ ctx'[r] = c
BY DEF TypeInv, TypeOK, Goto, LocalsTyped, Alone

\* The request r goes on, with everything it works on unchanged but the clocks.
LEMMA RequestMoves ==
    ASSUME TypeInv, NEW r \in Requests, LocalsTyped, Alone(r), LocalsOf(r)',
           UNCHANGED <<repository, object, age, active, removed>>,
           decisions' \in [DeviceCodes -> SUBSET [user : Users, scopes : Consents \cup {None}]],
           issued' \subseteq Token,
           seen' \in [DeviceCodes -> 0..Interval],
           quiet' \in [DeviceCodes -> 0..Interval],
           passed' \in [DeviceCodes -> 0..Interval]
    PROVE  TypeInv'
<1>1. ObjectsGrow
  BY DEF ObjectsGrow
<1>2. \A q \in Requests : LocalsOf(q)'
  BY <1>1, OthersKeep DEF Alone
<1>3. StoreOK'
  BY DEF TypeInv, StoreOK
<1> QED
  BY <1>2, <1>3 DEF TypeInv, TypeOK, LocalsTyped

\* The page's requests touch nothing but their locals in most steps.
LEMMA PageMoves ==
    ASSUME TypeInv, NEW r \in Requests, LocalsTyped, Alone(r), LocalsOf(r)',
           UNCHANGED <<repository, object, age, seen, active, history>>
    PROVE  TypeInv'
<1>1. /\ decisions' \in [DeviceCodes -> SUBSET [user : Users, scopes : Consents \cup {None}]]
      /\ issued' \subseteq Token
      /\ seen' \in [DeviceCodes -> 0..Interval]
      /\ quiet' \in [DeviceCodes -> 0..Interval]
      /\ passed' \in [DeviceCodes -> 0..Interval]
  BY DEF TypeInv, TypeOK, history, outcome
<1> QED
  BY <1>1, RequestMoves DEF history, outcome

LEMMA AnswerType ==
    ASSUME TypeInv, NEW r \in Requests, Answer(r),
           UNCHANGED <<repository, object, age, seen, active, history>>
    PROVE  TypeInv'
BY Answered, PageMoves

LEMMA StartType ==
    ASSUME TypeInv, NEW r \in Requests, NEW c \in Clients, Start(r, c)
    PROVE  TypeInv'
<1> DEFINE x == [client |-> c, code |-> None, tries |-> 0]
<1>1. x \in StartContext
  BY DEF StartContext
<1>2. Goto(r, "start_find") /\ ctx' = [ctx EXCEPT ![r] = x]
  BY DEF Start, Begin, Goto
<1> HIDE DEF x
<1>3. LocalsTyped /\ Alone(r) /\ pc'[r] = "start_find" /\ ctx'[r] = x
  BY <1>1, <1>2, Gone DEF Steps
<1>4. LocalsOf(r)'
  BY <1>1, <1>3 DEF LocalsOf, PageSteps, WritingSteps, FoundSteps, SubjectSteps, AcceptedSteps
<1> QED
  BY <1>3, <1>4, PageMoves DEF Start

LEMMA StartFindType ==
    ASSUME TypeInv, NEW r \in Requests, NEW u \in UserCodes, StartFind(r, u)
    PROVE  TypeInv'
<1>1. ctx[r] \in StartContext /\ pc[r] = "start_find" /\ ctx \in [Requests ->
           StartContext \cup ConsentContext \cup PollContext \cup {None}]
  BY DEF TypeInv, TypeOK, LocalsOf, StartFind
<1>2. UNCHANGED <<repository, object, age, seen, active, history>>
  BY DEF StartFind
<1>3. CASE Found(ByUserCode(u)) = None
  <2> DEFINE x == [ctx[r] EXCEPT !.code = u]
  <2>1. x \in StartContext /\ x.code = u
    BY <1>1 DEF StartContext
  <2>2. Goto(r, "start_store") /\ ctx' = [ctx EXCEPT ![r] = x]
    BY <1>1, <1>3 DEF StartFind
  <2> HIDE DEF x
  <2>3. LocalsTyped /\ Alone(r) /\ pc'[r] = "start_store" /\ ctx'[r] = x
    BY <2>1, <2>2, Gone DEF Steps
  <2>4. LocalsOf(r)'
    BY <2>1, <2>3 DEF LocalsOf, PageSteps, WritingSteps, FoundSteps, SubjectSteps, AcceptedSteps
  <2> QED
    BY <1>2, <2>3, <2>4, PageMoves
<1>4. CASE Found(ByUserCode(u)) # None /\ ctx[r].tries + 1 < RetryLimit
  <2> DEFINE x == [ctx[r] EXCEPT !.tries = ctx[r].tries + 1]
  <2>1. x \in StartContext
    BY <1>1 DEF StartContext
  <2>2. UNCHANGED pc /\ ctx' = [ctx EXCEPT ![r] = x]
    BY <1>1, <1>4 DEF StartFind
  <2>3. Goto(r, "start_find")
    BY <1>1, <2>2 DEF Goto, TypeInv, TypeOK
  <2> HIDE DEF x
  <2>4. LocalsTyped /\ Alone(r) /\ pc'[r] = "start_find" /\ ctx'[r] = x
    BY <2>1, <2>2, <2>3, Gone DEF Steps
  <2>5. LocalsOf(r)'
    BY <2>1, <2>4 DEF LocalsOf, PageSteps, WritingSteps, FoundSteps, SubjectSteps, AcceptedSteps
  <2> QED
    BY <1>2, <2>4, <2>5, PageMoves
<1>5. CASE Found(ByUserCode(u)) # None /\ ~ (ctx[r].tries + 1 < RetryLimit)
  <2>1. Answer(r)
    BY <1>5 DEF StartFind
  <2> QED
    BY <1>2, <2>1, AnswerType
<1> QED
  BY <1>3, <1>4, <1>5

LEMMA ShowType ==
    ASSUME TypeInv, NEW r \in Requests, NEW code \in UserCodes, NEW user \in Users,
           NEW scopes \in Consents \cup {None}, Show(r, code, user, scopes)
    PROVE  TypeInv'
<1> DEFINE x == [code |-> code, user |-> user, scopes |-> scopes, object |-> None]
<1>1. x \in ConsentContext
  BY DEF ConsentContext
<1>2. Goto(r, "consent") /\ ctx' = [ctx EXCEPT ![r] = x]
  BY DEF Show, Begin, Goto
<1> HIDE DEF x
<1>3. LocalsTyped /\ Alone(r) /\ pc'[r] = "consent" /\ ctx'[r] = x
  BY <1>1, <1>2, Gone DEF Steps
<1>4. LocalsOf(r)'
  BY <1>1, <1>3 DEF LocalsOf, PageSteps, WritingSteps, FoundSteps, SubjectSteps, AcceptedSteps
<1> QED
  BY <1>3, <1>4, PageMoves DEF Show

LEMMA ConsentType ==
    ASSUME TypeInv, NEW r \in Requests, Consent(r)
    PROVE  TypeInv'
<1>1. ctx[r] \in ConsentContext /\ UNCHANGED <<repository, object, age, seen, active, history>>
  BY DEF TypeInv, LocalsOf, Consent, PageSteps
<1>2. CASE Answer(r)
  BY <1>1, <1>2, AnswerType
<1>3. CASE Goto(r, "handle") /\ UNCHANGED ctx
  <2>1. ctx' = [ctx EXCEPT ![r] = ctx[r]]
    BY <1>3 DEF TypeInv, TypeOK
  <2>2. LocalsTyped /\ Alone(r) /\ pc'[r] = "handle" /\ ctx'[r] = ctx[r]
    BY <1>1, <1>3, <2>1, Gone DEF Steps
  <2>3. LocalsOf(r)'
    BY <1>1, <2>2 DEF LocalsOf, PageSteps, WritingSteps, FoundSteps, SubjectSteps, AcceptedSteps
  <2> QED
    BY <1>1, <2>2, <2>3, PageMoves
<1> QED
  BY <1>2, <1>3 DEF Consent

LEMMA HandleType ==
    ASSUME TypeInv, NEW r \in Requests, Handle(r)
    PROVE  TypeInv'
<1> DEFINE o == Found(ByUserCode(ctx[r].code))
<1>1. ctx[r] \in ConsentContext /\ UNCHANGED <<repository, object, age, seen, active, issued, removed, quiet, passed>>
  BY DEF TypeInv, LocalsOf, Handle, PageSteps
<1>2. CASE o = None
  <2>1. Answer(r) /\ UNCHANGED decisions
    BY <1>2 DEF Handle
  <2> QED
    BY <1>1, <2>1, AnswerType DEF history, outcome
<1>3. CASE o # None
  <2>1. o \in DeviceCodes /\ object[o] # None
    BY <1>3, FoundObject DEF TypeInv
  <2>2. /\ Goto(r, "set_authorized")
        /\ ctx' = [ctx EXCEPT ![r].object = o]
        /\ decisions' = [decisions EXCEPT ![o] =
              @ \cup {[user |-> ctx[r].user, scopes |-> ctx[r].scopes]}]
    BY <1>3 DEF Handle
  <2> HIDE DEF o
  <2> DEFINE x == [ctx[r] EXCEPT !.object = o]
  <2>3. x \in ConsentContext /\ x.object = o
    BY <1>1, <2>1 DEF ConsentContext
  <2>4. ctx' = [ctx EXCEPT ![r] = x]
    BY <2>2 DEF TypeInv, TypeOK
  <2> HIDE DEF x
  <2>5. LocalsTyped /\ Alone(r) /\ pc'[r] = "set_authorized" /\ ctx'[r] = x
    BY <2>2, <2>3, <2>4, Gone DEF Steps
  <2>6. LocalsOf(r)'
    BY <1>1, <2>1, <2>3, <2>5
    DEF LocalsOf, PageSteps, WritingSteps, FoundSteps, SubjectSteps, AcceptedSteps
  <2>7. [user |-> ctx[r].user, scopes |-> ctx[r].scopes] \in [user : Users, scopes : Consents \cup {None}]
    BY <1>1 DEF ConsentContext
  <2>8. decisions' \in [DeviceCodes -> SUBSET [user : Users, scopes : Consents \cup {None}]]
    BY <2>1, <2>2, <2>7 DEF TypeInv, TypeOK
  <2>9. /\ issued' \subseteq Token
        /\ seen' \in [DeviceCodes -> 0..Interval]
        /\ quiet' \in [DeviceCodes -> 0..Interval]
        /\ passed' \in [DeviceCodes -> 0..Interval]
    BY <1>1 DEF TypeInv, TypeOK
  <2> QED
    BY <1>1, <2>5, <2>6, <2>8, <2>9, RequestMoves
<1> QED
  BY <1>2, <1>3

\* One assignment to an object by the page's request r.
LEMMA WriteType ==
    ASSUME TypeInv, NEW r \in Requests, pc[r] \in WritingSteps, NEW step \in WritingSteps,
           NEW x \in DeviceCode, x.client = object[ctx[r].object].client,
           object[ctx[r].object].subject # None => x.subject # None,
           object' = [object EXCEPT ![ctx[r].object] = x],
           Goto(r, step), UNCHANGED <<repository, age, seen, active, ctx, history>>
    PROVE  TypeInv' /\ ObjectsGrow
<1>1. ctx[r] \in ConsentContext /\ ctx[r].object \in DeviceCodes
  BY DEF TypeInv, LocalsOf, PageSteps, WritingSteps
<1>2. PICK d \in DeviceCodes : d = ctx[r].object
  BY <1>1
<1>3. x # None
  BY NoneAssumption
<1>4. object' \in [DeviceCodes -> DeviceCode \cup {None}]
      /\ object'[d] = x /\ \A e \in DeviceCodes \ {d} : object'[e] = object[e]
  BY <1>2 DEF TypeInv, TypeOK
<1>5. ObjectsGrow
  BY <1>2, <1>3, <1>4 DEF ObjectsGrow
<1>6. ctx' = [ctx EXCEPT ![r] = ctx[r]] /\ step \in Steps
  BY DEF TypeInv, TypeOK, WritingSteps, Steps
<1>7. LocalsTyped /\ Alone(r) /\ pc'[r] = step /\ ctx'[r] = ctx[r]
  BY <1>1, <1>6, Gone
<1>8. LocalsOf(r)'
  <2>1. object'[ctx[r].object] # None
    BY <1>2, <1>3, <1>4
  <2> QED
    BY <1>1, <1>7, <2>1
    DEF LocalsOf, PageSteps, WritingSteps, FoundSteps, SubjectSteps, AcceptedSteps
<1>9. \A q \in Requests : LocalsOf(q)'
  BY <1>5, <1>7, <1>8, OthersKeep DEF Alone
<1>10. StoreOK'
  <2>1. \A i \in DOMAIN repository :
           repository[i].device \in DeviceCodes /\ repository[i].data \in DeviceCodes
    <3>1. repository \in Seq(Entry)
      BY DEF TypeInv, TypeOK
    <3>2. \A i \in DOMAIN repository : repository[i] \in Entry
      BY <3>1
    <3> QED
      BY <3>2 DEF Entry
  <2> QED
    BY <1>5, <2>1 DEF TypeInv, StoreOK, ObjectsGrow
<1>11. TypeOK'
  BY <1>4, <1>7 DEF TypeInv, TypeOK, LocalsTyped, history, outcome
<1> QED
  BY <1>5, <1>9, <1>10, <1>11 DEF TypeInv

LEMMA WrittenObject ==
    ASSUME TypeInv, NEW r \in Requests, pc[r] \in WritingSteps
    PROVE  /\ ctx[r] \in ConsentContext /\ ctx[r].object \in DeviceCodes
           /\ ctx[r].user \in Users /\ ctx[r].scopes \in Consents \cup {None}
           /\ object[ctx[r].object] \in DeviceCode
<1>1. ctx[r] \in ConsentContext /\ ctx[r].object \in DeviceCodes /\ object[ctx[r].object] # None
  BY DEF TypeInv, LocalsOf, PageSteps, WritingSteps
<1>2. ctx[r].user \in Users /\ ctx[r].scopes \in Consents \cup {None}
  BY <1>1 DEF ConsentContext
<1>3. object[ctx[r].object] \in DeviceCode
  BY <1>1 DEF TypeInv, TypeOK
<1> QED
  BY <1>1, <1>2, <1>3

LEMMA SetAuthorizedType ==
    ASSUME TypeInv, NEW r \in Requests, SetAuthorized(r)
    PROVE  TypeInv' /\ ObjectsGrow
<1> DEFINE x == [object[ctx[r].object] EXCEPT !.authorized = TRUE]
<1>1. pc[r] \in WritingSteps
  BY DEF SetAuthorized, WritingSteps
<1>2. /\ x \in DeviceCode /\ x.client = object[ctx[r].object].client
      /\ x.subject = object[ctx[r].object].subject
  BY <1>1, WrittenObject DEF DeviceCode
<1>3. object' = [object EXCEPT ![ctx[r].object] = x]
  BY <1>1, WrittenObject DEF SetAuthorized, TypeInv, TypeOK
<1> HIDE DEF x
<1> QED
  BY <1>1, <1>2, <1>3, WriteType DEF SetAuthorized, WritingSteps

LEMMA SetSubjectType ==
    ASSUME TypeInv, NEW r \in Requests, SetSubject(r)
    PROVE  TypeInv' /\ ObjectsGrow
<1> DEFINE x == [object[ctx[r].object] EXCEPT !.subject = ctx[r].user]
<1>1. pc[r] \in WritingSteps
  BY DEF SetSubject, WritingSteps
<1>2. /\ x \in DeviceCode /\ x.client = object[ctx[r].object].client
      /\ x.subject = ctx[r].user
  BY <1>1, WrittenObject DEF DeviceCode
<1>3. object' = [object EXCEPT ![ctx[r].object] = x]
  BY <1>1, WrittenObject DEF SetSubject, TypeInv, TypeOK
<1>4. ctx[r].user # None
  BY <1>1, WrittenObject, DeviceFlowAssumption
<1> HIDE DEF x
<1> QED
  BY <1>1, <1>2, <1>3, <1>4, WriteType DEF SetSubject, WritingSteps

LEMMA SetScopesType ==
    ASSUME TypeInv, NEW r \in Requests, SetScopes(r)
    PROVE  TypeInv' /\ ObjectsGrow
<1> DEFINE x == [object[ctx[r].object] EXCEPT !.scopes = ctx[r].scopes]
<1>1. pc[r] \in WritingSteps
  BY DEF SetScopes, WritingSteps
<1>2. /\ x \in DeviceCode /\ x.client = object[ctx[r].object].client
      /\ x.subject = object[ctx[r].object].subject
  BY <1>1, WrittenObject DEF DeviceCode
<1>3. object' = [object EXCEPT ![ctx[r].object] = x]
  BY <1>1, WrittenObject DEF SetScopes, TypeInv, TypeOK
<1> HIDE DEF x
<1> QED
  BY <1>1, <1>2, <1>3, WriteType DEF SetScopes, WritingSteps

\* A request is answered and the store is replaced.
LEMMA StoreMoves ==
    ASSUME TypeInv, NEW r \in Requests, LocalsTyped, Alone(r), LocalsOf(r)', ObjectsGrow,
           object' \in [DeviceCodes -> DeviceCode \cup {None}],
           repository' \in Seq(Entry), StoreOK', removed' \subseteq DeviceCodes,
           UNCHANGED <<age, seen, active, decisions, issued, quiet, passed>>
    PROVE  TypeInv'
<1>1. \A q \in Requests : LocalsOf(q)'
  BY OthersKeep DEF Alone
<1> QED
  BY <1>1 DEF TypeInv, TypeOK, LocalsTyped

LEMMA UpdateType ==
    ASSUME TypeInv, NEW r \in Requests, Update(r)
    PROVE  TypeInv'
<1> DEFINE I == ByUserCode(ctx[r].code)
<1>1. /\ ctx[r] \in ConsentContext /\ ctx[r].object \in DeviceCodes
      /\ object[ctx[r].object] # None
  BY DEF TypeInv, LocalsOf, Update, PageSteps, WritingSteps
<1>2. Answer(r) /\ UNCHANGED <<object, age, seen, active, history>>
  BY DEF Update
<1>3. CASE I = {}
  <2>1. UNCHANGED repository
    BY <1>3 DEF Update
  <2> QED
    BY <1>2, <2>1, AnswerType
<1>4. CASE I # {}
  <2>1. PICK i \in 1..Len(repository) : i = First(I)
    BY <1>4, FoundEntry DEF TypeInv
  <2>2. repository' = [repository EXCEPT ![First(I)].data = ctx[r].object]
    BY <1>4 DEF Update
  <2> HIDE DEF I
  <2> DEFINE x == [repository[i] EXCEPT !.data = ctx[r].object]
  <2>3. repository \in Seq(Entry) /\ DOMAIN repository = 1..Len(repository) /\ repository[i] \in Entry
    BY <2>1 DEF TypeInv, TypeOK
  <2>4. x \in Entry /\ x.device = repository[i].device /\ x.data = ctx[r].object
    BY <1>1, <2>3 DEF Entry
  <2>5. repository' = [repository EXCEPT ![i] = x]
    BY <2>1, <2>2, <2>3
  <2> HIDE DEF x
  <2>6. /\ repository' \in Seq(Entry) /\ DOMAIN repository' = DOMAIN repository
        /\ repository'[i] = x /\ \A j \in DOMAIN repository \ {i} : repository'[j] = repository[j]
    BY <2>3, <2>4, <2>5
  <2>7. \A j \in DOMAIN repository : repository'[j].device = repository[j].device
    BY <2>4, <2>6
  <2>8. StoreOK'
    BY <1>1, <1>2, <2>4, <2>6, <2>7 DEF TypeInv, StoreOK
  <2>9. ObjectsGrow /\ object' \in [DeviceCodes -> DeviceCode \cup {None}]
        /\ removed' \subseteq DeviceCodes /\ UNCHANGED <<decisions, issued, quiet, passed>>
    BY <1>2 DEF ObjectsGrow, TypeInv, TypeOK, history, outcome
  <2> QED
    BY <1>2, <2>6, <2>8, <2>9, Answered, StoreMoves
<1> QED
  BY <1>3, <1>4

LEMMA StartStoreType ==
    ASSUME TypeInv, NEW r \in Requests, NEW d \in DeviceCodes, StartStore(r, d)
    PROVE  TypeInv' /\ ObjectsGrow
<1> DEFINE o == [client |-> ctx[r].client, authorized |-> FALSE, subject |-> None, scopes |-> None]
           e == [device |-> d, user |-> ctx[r].code, data |-> d]
<1>1. ctx[r] \in StartContext /\ ctx[r].code \in UserCodes /\ ctx[r].client \in Clients
  <2>1. ctx[r] \in StartContext /\ ctx[r].code \in UserCodes
    BY DEF TypeInv, LocalsOf, StartStore
  <2> QED
    BY <2>1 DEF StartContext
<1>2. o \in DeviceCode
  BY <1>1 DEF DeviceCode
<1>3. e \in Entry /\ e.device = d /\ e.data = d
  BY <1>1 DEF Entry
<1>4. /\ object[d] = None /\ object' = [object EXCEPT ![d] = o]
      /\ repository' = Append(repository, e)
      /\ Answer(r) /\ UNCHANGED <<age, seen, active, history>>
  BY DEF StartStore
<1> HIDE DEF o, e
<1>5. /\ object' \in [DeviceCodes -> DeviceCode \cup {None}] /\ object'[d] # None
      /\ \A x \in DeviceCodes \ {d} : object'[x] = object[x]
  BY <1>2, <1>4, NoneAssumption DEF TypeInv, TypeOK
<1>6. ObjectsGrow
  BY <1>4, <1>5 DEF ObjectsGrow
<1>7. repository \in Seq(Entry)
  BY DEF TypeInv, TypeOK
<1>8. /\ repository' \in Seq(Entry) /\ DOMAIN repository' = 1..(Len(repository) + 1)
      /\ repository'[Len(repository) + 1] = e
      /\ \A i \in 1..Len(repository) : repository'[i] = repository[i]
  BY <1>3, <1>4, <1>7
<1>9. \A i \in 1..Len(repository) :
         /\ repository[i].device \in DeviceCodes /\ repository[i].data \in DeviceCodes
         /\ object[repository[i].device] # None /\ object[repository[i].data] # None
  <2>1. \A i \in 1..Len(repository) : repository[i] \in Entry
    BY <1>7
  <2>2. \A i \in 1..Len(repository) :
           repository[i].device \in DeviceCodes /\ repository[i].data \in DeviceCodes
    BY <2>1 DEF Entry
  <2>3. DOMAIN repository = 1..Len(repository)
    BY <1>7
  <2> QED
    BY <2>2, <2>3 DEF TypeInv, StoreOK
<1>10. \A i \in 1..Len(repository) : /\ repository'[i].device # d
                                     /\ object'[repository'[i].device] # None
                                     /\ object'[repository'[i].data] # None
  <2>1. \A i \in 1..Len(repository) : repository[i].device # d /\ repository[i].data # d
    BY <1>4, <1>9
  <2> QED
    BY <1>5, <1>8, <1>9, <2>1
<1>11. StoreOK'
  <2>1. /\ DOMAIN repository = 1..Len(repository) /\ Len(repository) \in Nat
        /\ \A i, j \in 1..Len(repository) : repository[i].device = repository[j].device => i = j
    BY <1>7 DEF TypeInv, StoreOK
  <2>2. \A i \in DOMAIN repository' : i \in 1..Len(repository) \/ i = Len(repository) + 1
    BY <1>8, <2>1
  <2>3. \A i \in DOMAIN repository' : /\ object'[repository'[i].device] # None
                                      /\ object'[repository'[i].data] # None
    BY <1>3, <1>5, <1>8, <1>10, <2>2
  <2>4. \A i, j \in DOMAIN repository' : repository'[i].device = repository'[j].device => i = j
    BY <1>3, <1>8, <1>10, <2>1, <2>2
  <2> QED
    BY <2>3, <2>4 DEF StoreOK
<1>12. removed' \subseteq DeviceCodes /\ UNCHANGED <<decisions, issued, quiet, passed>>
  BY <1>4 DEF TypeInv, TypeOK, history, outcome
<1> QED
  BY <1>4, <1>5, <1>6, <1>8, <1>11, <1>12, Answered, StoreMoves

\* A poll goes on to its next step, or is answered.
LEMMA PollGoes ==
    ASSUME TypeInv, NEW r \in Requests, pc[r] \in {"poll_find"} \cup FoundSteps
    PROVE  /\ ctx[r] \in PollContext /\ ctx[r].device \in DeviceCodes
           /\ object[ctx[r].device] # None
           /\ pc[r] \in FoundSteps => ctx[r].object \in DeviceCodes
                                      /\ object[ctx[r].object] \in DeviceCode
           /\ UNCHANGED ctx => ctx' = [ctx EXCEPT ![r] = ctx[r]]
<1>1. ctx[r] \in PollContext /\ object[ctx[r].device] # None
  BY DEF TypeInv, LocalsOf
<1>2. ctx[r].device \in DeviceCodes
  BY <1>1 DEF PollContext
<1>3. pc[r] \in FoundSteps => ctx[r].object \in DeviceCodes
                                      /\ object[ctx[r].object] \in DeviceCode
  BY DEF TypeInv, LocalsOf, TypeOK
<1>4. UNCHANGED ctx => ctx' = [ctx EXCEPT ![r] = ctx[r]]
  BY DEF TypeInv, TypeOK
<1> QED
  BY <1>1, <1>2, <1>3, <1>4

\* The clock of a device is set back, or left alone.
LEMMA ClockSet ==
    ASSUME NEW clock \in [DeviceCodes -> 0..Interval], NEW d \in DeviceCodes
    PROVE  [clock EXCEPT ![d] = 0] \in [DeviceCodes -> 0..Interval]
BY DeviceFlowAssumption

LEMMA PollAnswered ==
    ASSUME TypeInv, NEW r \in Requests, pc[r] \in {"poll_find"} \cup FoundSteps, AnswerPoll(r),
           UNCHANGED <<repository, object, age, active, decisions, removed>>,
           issued' \subseteq Token,
           seen' \in [DeviceCodes -> 0..Interval], passed' \in [DeviceCodes -> 0..Interval]
    PROVE  TypeInv'
<1>1. quiet' \in [DeviceCodes -> 0..Interval]
  <2>1. quiet' = [quiet EXCEPT ![ctx[r].device] = 0] /\ quiet \in [DeviceCodes -> 0..Interval]
    BY DEF AnswerPoll, TypeInv, TypeOK
  <2> QED
    BY <2>1, PollGoes, ClockSet
<1>2. decisions' \in [DeviceCodes -> SUBSET [user : Users, scopes : Consents \cup {None}]]
  BY DEF TypeInv, TypeOK
<1>3. LocalsTyped /\ Alone(r) /\ LocalsOf(r)'
  BY Answered DEF AnswerPoll
<1> QED
  BY <1>1, <1>2, <1>3, RequestMoves

LEMMA PollMoves ==
    ASSUME TypeInv, NEW r \in Requests, pc[r] \in {"poll_find"} \cup FoundSteps,
           NEW step \in FoundSteps, Goto(r, step),
           NEW x \in PollContext, ctx' = [ctx EXCEPT ![r] = x],
           x.device = ctx[r].device, x.object \in DeviceCodes, object[x.object] # None,
           object[x.object].client = x.client,
           step \in SubjectSteps => x.subject \in Users /\ object[x.object].subject # None,
           step = "poll_subject" => x.scopes \in Consents,
           UNCHANGED <<repository, object, age, active, outcome, quiet>>,
           seen' \in [DeviceCodes -> 0..Interval], passed' \in [DeviceCodes -> 0..Interval]
    PROVE  TypeInv'
<1>1. step \in Steps
  BY DEF FoundSteps, SubjectSteps, AcceptedSteps, Steps
<1>2. LocalsTyped /\ Alone(r) /\ pc'[r] = step /\ ctx'[r] = x
  BY <1>1, Gone
<1>3. object[x.device] # None
  BY PollGoes
<1>4. LocalsOf(r)'
  BY <1>2, <1>3 DEF LocalsOf, PageSteps, WritingSteps, FoundSteps, SubjectSteps, AcceptedSteps
<1>5. /\ decisions' \in [DeviceCodes -> SUBSET [user : Users, scopes : Consents \cup {None}]]
      /\ issued' \subseteq Token /\ quiet' \in [DeviceCodes -> 0..Interval]
  BY DEF TypeInv, TypeOK, outcome
<1> QED
  BY <1>2, <1>4, <1>5, RequestMoves DEF outcome

\* The same, when the poll only goes to its next step.
LEMMA PollSteps ==
    ASSUME TypeInv, NEW r \in Requests, pc[r] \in FoundSteps,
           NEW step \in FoundSteps, Goto(r, step), UNCHANGED ctx,
           step \in SubjectSteps => pc[r] \in SubjectSteps,
           step = "poll_subject" => pc[r] = "poll_subject",
           UNCHANGED <<repository, object, age, active, outcome, quiet>>,
           seen' \in [DeviceCodes -> 0..Interval], passed' \in [DeviceCodes -> 0..Interval]
    PROVE  TypeInv'
<1>1. LocalsOf(r) /\ pc[r] \in {"poll_find"} \cup FoundSteps
  BY DEF TypeInv
<1>2. ctx[r] \in PollContext /\ ctx' = [ctx EXCEPT ![r] = ctx[r]]
  BY <1>1, PollGoes
<1>3. /\ ctx[r].object \in DeviceCodes /\ object[ctx[r].object] # None
      /\ object[ctx[r].object].client = ctx[r].client
      /\ step \in SubjectSteps => ctx[r].subject \in Users
                                  /\ object[ctx[r].object].subject # None
      /\ step = "poll_subject" => ctx[r].scopes \in Consents
  BY <1>1 DEF LocalsOf
<1> QED
  BY <1>1, <1>2, <1>3, PollMoves

LEMMA ClocksTyped ==
    ASSUME TypeInv
    PROVE  /\ seen \in [DeviceCodes -> 0..Interval] /\ passed \in [DeviceCodes -> 0..Interval]
           /\ UNCHANGED seen => seen' \in [DeviceCodes -> 0..Interval]
           /\ UNCHANGED passed => passed' \in [DeviceCodes -> 0..Interval]
           /\ UNCHANGED outcome => issued' \subseteq Token /\ UNCHANGED <<decisions, removed>>
BY DEF TypeInv, TypeOK, outcome

LEMMA PollFindType ==
    ASSUME TypeInv, NEW r \in Requests, PollFind(r)
    PROVE  TypeInv'
<1> DEFINE o == Found(ByDeviceCode(ctx[r].device))
<1>1. /\ pc[r] \in {"poll_find"} \cup FoundSteps
      /\ UNCHANGED <<repository, object, age, seen, active, outcome, passed>>
  BY DEF PollFind
<1>2. CASE AnswerPoll(r)
  BY <1>1, <1>2, ClocksTyped, PollAnswered
<1>3. CASE ~ (o = None \/ object[o].client # ctx[r].client)
  <2>1. PICK d \in DeviceCodes : d = o /\ object[d] # None
    BY <1>3, FoundObject DEF TypeInv
  <2>2. object[d].client = ctx[r].client /\ Goto(r, "poll_seen") /\ UNCHANGED quiet
        /\ ctx' = [ctx EXCEPT ![r].object = d]
    BY <1>3, <2>1 DEF PollFind
  <2> HIDE DEF o
  <2> DEFINE x == [ctx[r] EXCEPT !.object = d]
  <2>3. x \in PollContext /\ x.object = d /\ x.device = ctx[r].device /\ x.client = ctx[r].client
    BY <1>1, PollGoes DEF PollContext
  <2>4. ctx' = [ctx EXCEPT ![r] = x]
    BY <2>2 DEF TypeInv, TypeOK
  <2> HIDE DEF x
  <2>5. "poll_seen" \in FoundSteps /\ "poll_seen" \notin SubjectSteps
    BY DEF FoundSteps, SubjectSteps, AcceptedSteps
  <2>6. /\ x.object \in DeviceCodes /\ object[x.object] # None
        /\ object[x.object].client = x.client
    BY <2>1, <2>2, <2>3
  <2> QED
    BY <1>1, <2>2, <2>3, <2>4, <2>5, <2>6, ClocksTyped, PollMoves
<1> QED
  BY <1>2, <1>3 DEF PollFind

LEMMA PollSeenType ==
    ASSUME TypeInv, NEW r \in Requests, PollSeen(r)
    PROVE  TypeInv'
<1>1. /\ pc[r] \in FoundSteps /\ "poll_slow" \in FoundSteps /\ "poll_mark" \in FoundSteps
      /\ "poll_slow" \notin SubjectSteps /\ "poll_mark" \notin SubjectSteps
  BY DEF PollSeen, FoundSteps, SubjectSteps, AcceptedSteps
<1>2. UNCHANGED <<repository, object, age, seen, active, ctx, outcome, quiet>>
  BY DEF PollSeen
<1>3. passed' \in [DeviceCodes -> 0..Interval]
  <2>1. UNCHANGED passed \/ passed' = [passed EXCEPT ![ctx[r].device] = 0]
    BY DEF PollSeen
  <2> QED
    BY <1>1, <2>1, PollGoes, ClocksTyped, ClockSet
<1>4. Goto(r, "poll_slow") \/ Goto(r, "poll_mark")
  BY DEF PollSeen
<1> QED
  BY <1>1, <1>2, <1>3, <1>4, ClocksTyped, PollSteps

LEMMA PollSlowType ==
    ASSUME TypeInv, NEW r \in Requests, PollSlow(r)
    PROVE  TypeInv'
<1>1. pc[r] \in {"poll_find"} \cup FoundSteps
  BY DEF PollSlow, FoundSteps
<1>2. seen' \in [DeviceCodes -> 0..Interval]
  <2>1. seen' = [seen EXCEPT ![ctx[r].device] = 0]
    BY DEF PollSlow
  <2> QED
    BY <1>1, <2>1, PollGoes, ClocksTyped, ClockSet
<1> QED
  BY <1>1, <1>2, ClocksTyped, PollAnswered DEF PollSlow

LEMMA PollMarkType ==
    ASSUME TypeInv, NEW r \in Requests, PollMark(r)
    PROVE  TypeInv'
<1>1. pc[r] \in FoundSteps /\ "poll_denied" \in FoundSteps /\ "poll_denied" \notin SubjectSteps
  BY DEF PollMark, FoundSteps, SubjectSteps, AcceptedSteps
<1>2. seen' \in [DeviceCodes -> 0..Interval]
  <2>1. seen' = [seen EXCEPT ![ctx[r].device] = 0]
    BY DEF PollMark
  <2> QED
    BY <1>1, <2>1, PollGoes, ClocksTyped, ClockSet
<1>3. UNCHANGED <<repository, object, age, active, outcome, passed>>
  BY DEF PollMark
<1>4. CASE AnswerPoll(r)
  BY <1>1, <1>2, <1>3, <1>4, ClocksTyped, PollAnswered
<1>5. CASE Goto(r, "poll_denied") /\ UNCHANGED <<ctx, quiet>>
  BY <1>1, <1>2, <1>3, <1>5, ClocksTyped, PollSteps
<1> QED
  BY <1>4, <1>5 DEF PollMark

LEMMA PollDeniedType ==
    ASSUME TypeInv, NEW r \in Requests, PollDenied(r)
    PROVE  TypeInv'
<1>1. pc[r] \in FoundSteps /\ "poll_pending" \in FoundSteps /\ "poll_pending" \notin SubjectSteps
  BY DEF PollDenied, FoundSteps, SubjectSteps, AcceptedSteps
<1>2. UNCHANGED <<repository, object, age, seen, active, outcome, passed>>
  BY DEF PollDenied
<1>3. CASE AnswerPoll(r)
  BY <1>1, <1>2, <1>3, ClocksTyped, PollAnswered
<1>4. CASE Goto(r, "poll_pending") /\ UNCHANGED <<ctx, quiet>>
  BY <1>1, <1>2, <1>4, ClocksTyped, PollSteps
<1> QED
  BY <1>3, <1>4 DEF PollDenied

LEMMA PollPendingType ==
    ASSUME TypeInv, NEW r \in Requests, PollPending(r)
    PROVE  TypeInv'
<1> DEFINE o == object[ctx[r].object]
<1>1. pc[r] \in FoundSteps /\ "poll_active" \in FoundSteps /\ "poll_active" # "poll_subject"
  BY DEF PollPending, FoundSteps, SubjectSteps, AcceptedSteps
<1>2. UNCHANGED <<repository, object, age, seen, active, outcome, passed>>
  BY DEF PollPending
<1>3. CASE AnswerPoll(r)
  BY <1>1, <1>2, <1>3, ClocksTyped, PollAnswered
<1>4. CASE ~ (~ o.authorized \/ o.subject = None)
  <2>1. PICK u : u = o.subject /\ u # None
    BY <1>4
  <2>2. /\ Goto(r, "poll_active") /\ UNCHANGED quiet
        /\ ctx' = [ctx EXCEPT ![r].subject = u]
    BY <1>4, <2>1 DEF PollPending
  <2>3. /\ o.client = ctx[r].client /\ o \in DeviceCode /\ o # None
        /\ ctx[r] \in PollContext /\ ctx[r].object \in DeviceCodes
    <3>1. o.client = ctx[r].client /\ o # None
      BY <1>1 DEF TypeInv, LocalsOf
    <3> QED
      BY <1>1, <3>1, PollGoes
  <2> HIDE DEF o
  <2>4. u \in Users
    BY <2>1, <2>3 DEF DeviceCode
  <2> DEFINE x == [ctx[r] EXCEPT !.subject = u]
  <2>5. /\ x \in PollContext /\ x.object = ctx[r].object /\ x.device = ctx[r].device
        /\ x.client = ctx[r].client /\ x.subject = u
    BY <2>3, <2>4 DEF PollContext
  <2>6. ctx' = [ctx EXCEPT ![r] = x]
    BY <2>2 DEF TypeInv, TypeOK
  <2> HIDE DEF x
  <2>7. /\ x.object \in DeviceCodes /\ object[x.object] # None
        /\ object[x.object].client = x.client /\ object[x.object].subject # None
    BY <2>1, <2>3, <2>5 DEF o
  <2> QED
    BY <1>1, <1>2, <2>2, <2>4, <2>5, <2>6, <2>7, ClocksTyped, PollMoves
<1> QED
  BY <1>3, <1>4 DEF PollPending

LEMMA PollActiveType ==
    ASSUME TypeInv, NEW r \in Requests, PollActive(r)
    PROVE  TypeInv'
<1>1. /\ pc[r] \in FoundSteps /\ pc[r] \in SubjectSteps /\ "poll_remove" \in FoundSteps
      /\ "poll_remove" # "poll_subject"
  BY DEF PollActive, FoundSteps, SubjectSteps, AcceptedSteps
<1>2. UNCHANGED <<repository, object, age, seen, active, outcome, passed>>
  BY DEF PollActive
<1>3. CASE AnswerPoll(r)
  BY <1>1, <1>2, <1>3, ClocksTyped, PollAnswered
<1>4. CASE Goto(r, "poll_remove") /\ UNCHANGED <<ctx, quiet>>
  BY <1>1, <1>2, <1>4, ClocksTyped, PollSteps
<1> QED
  BY <1>3, <1>4 DEF PollActive

LEMMA PollScopesType ==
    ASSUME TypeInv, NEW r \in Requests, PollScopes(r)
    PROVE  TypeInv'
<1> DEFINE scopes == object[ctx[r].object].scopes
<1>1. pc[r] \in FoundSteps /\ pc[r] \in SubjectSteps /\ "poll_subject" \in FoundSteps
  BY DEF PollScopes, FoundSteps, SubjectSteps, AcceptedSteps
<1>2. UNCHANGED <<repository, object, age, seen, active, outcome, passed>>
  BY DEF PollScopes
<1>3. CASE AnswerPoll(r)
  BY <1>1, <1>2, <1>3, ClocksTyped, PollAnswered
<1>4. CASE scopes # None
  <2>1. PICK s : s = scopes /\ s # None
    BY <1>4
  <2>2. /\ Goto(r, "poll_subject") /\ UNCHANGED quiet
        /\ ctx' = [ctx EXCEPT ![r].scopes = s]
    BY <1>4, <2>1 DEF PollScopes
  <2>3. /\ ctx[r] \in PollContext /\ ctx[r].object \in DeviceCodes
        /\ object[ctx[r].object] \in DeviceCode
    BY <1>1, PollGoes
  <2>4. s \in Consents
    BY <2>1, <2>3 DEF DeviceCode
  <2> HIDE DEF scopes
  <2> DEFINE x == [ctx[r] EXCEPT !.scopes = s]
  <2>5. /\ x \in PollContext /\ x.object = ctx[r].object /\ x.device = ctx[r].device
        /\ x.client = ctx[r].client /\ x.subject = ctx[r].subject /\ x.scopes = s
    BY <2>3, <2>4 DEF PollContext
  <2>6. ctx' = [ctx EXCEPT ![r] = x]
    BY <2>2 DEF TypeInv, TypeOK
  <2> HIDE DEF x
  <2>7. /\ object[x.object] # None /\ object[x.object].client = x.client
        /\ x.subject \in Users /\ object[x.object].subject # None
    BY <1>1, <2>5 DEF TypeInv, LocalsOf
  <2> QED
    BY <1>1, <1>2, <2>2, <2>3, <2>4, <2>5, <2>6, <2>7, ClocksTyped, PollMoves
<1> QED
  BY <1>3, <1>4 DEF PollScopes

\* The tokens that are issued.
LEMMA TokenTyped ==
    ASSUME TypeInv, NEW r \in Requests, pc[r] = "poll_subject"
    PROVE  [client |-> ctx[r].client, object |-> ctx[r].object,
            user |-> object[ctx[r].object].subject, scopes |-> ctx[r].scopes] \in Token
<1>1. /\ ctx[r] \in PollContext /\ ctx[r].object \in DeviceCodes
      /\ object[ctx[r].object] \in DeviceCode
  BY PollGoes DEF FoundSteps, SubjectSteps, AcceptedSteps
<1>2. ctx[r].scopes \in Consents
  BY DEF TypeInv, LocalsOf
<1>3. ctx[r].client \in Clients /\ object[ctx[r].object].subject \in Users \cup {None}
  BY <1>1 DEF PollContext, DeviceCode
<1> QED
  BY <1>1, <1>2, <1>3 DEF Token

LEMMA PollSubjectType ==
    ASSUME TypeInv, NEW r \in Requests, PollSubject(r)
    PROVE  TypeInv'
<1>1. pc[r] = "poll_subject" /\ pc[r] \in {"poll_find"} \cup FoundSteps
  BY DEF PollSubject, FoundSteps, SubjectSteps, AcceptedSteps
<1>2. issued' \subseteq Token
  BY <1>1, TokenTyped DEF PollSubject, TypeInv, TypeOK
<1> QED
  BY <1>1, <1>2, ClocksTyped, PollAnswered DEF PollSubject

\* The entry a poll removes is the only one of its device code.
LEMMA RemovedEntry ==
    ASSUME TypeInv, NEW r \in Requests, PollRemove(r)
    PROVE  /\ repository' \in Seq(Entry) /\ StoreOK'
           /\ \A i \in DOMAIN repository' :
                 /\ repository'[i].device # ctx[r].device
                 /\ \E j \in DOMAIN repository : repository'[i] = repository[j]
<1> DEFINE I == ByDeviceCode(ctx[r].device)
<1>1. /\ repository \in Seq(Entry) /\ DOMAIN repository = 1..Len(repository)
      /\ Len(repository) \in Nat
      /\ \A i, j \in 1..Len(repository) : repository[i].device = repository[j].device => i = j
      /\ \A i \in 1..Len(repository) : /\ object[repository[i].device] # None
                                       /\ object[repository[i].data] # None
  <2>1. repository \in Seq(Entry)
    BY DEF TypeInv, TypeOK
  <2>2. DOMAIN repository = 1..Len(repository) /\ Len(repository) \in Nat
    BY <2>1
  <2> QED
    BY <2>1, <2>2 DEF TypeInv, StoreOK
<1>2. UNCHANGED object
  BY DEF PollRemove
<1>3. CASE I = {}
  <2>1. repository' = repository
    BY <1>3 DEF PollRemove
  <2>2. \A i \in DOMAIN repository : repository[i].device # ctx[r].device
    BY <1>3 DEF ByDeviceCode
  <2> QED
    BY <1>1, <1>2, <2>1, <2>2 DEF TypeInv, StoreOK
<1>4. CASE I # {}
  <2>1. PICK f \in 1..Len(repository) : f = First(I) /\ repository[f].device = ctx[r].device
    BY <1>4, FoundEntry DEF TypeInv
  <2>2. repository' = RemoveAt(repository, f)
    BY <1>4, <2>1 DEF PollRemove
  <2>3. /\ repository' \in Seq(Entry) /\ Len(repository') = Len(repository) - 1
        /\ \A j \in 1..(Len(repository) - 1) :
              repository'[j] = IF j < f THEN repository[j] ELSE repository[j + 1]
    BY <1>1, <2>2, RemoveAtMoves
  <2>4. DOMAIN repository' = 1..(Len(repository) - 1)
    BY <2>3
  <2>5. \A j \in DOMAIN repository' : \E k \in 1..Len(repository) :
           repository'[j] = repository[k] /\ k # f /\ k = IF j < f THEN j ELSE j + 1
    BY <1>1, <2>3, <2>4
  <2>6. \A j \in DOMAIN repository' : repository'[j].device # ctx[r].device
    BY <1>1, <2>1, <2>5
  <2>7. \A j \in DOMAIN repository' : /\ object'[repository'[j].device] # None
                                      /\ object'[repository'[j].data] # None
    BY <1>1, <1>2, <2>5
  <2>8. \A i, j \in DOMAIN repository' : repository'[i].device = repository'[j].device => i = j
    <3> SUFFICES ASSUME NEW i \in DOMAIN repository', NEW j \in DOMAIN repository',
                        repository'[i].device = repository'[j].device
                 PROVE  i = j
      OBVIOUS
    <3>1. PICK k \in 1..Len(repository) :
             repository'[i] = repository[k] /\ k # f /\ k = IF i < f THEN i ELSE i + 1
      BY <2>5
    <3>2. PICK l \in 1..Len(repository) :
             repository'[j] = repository[l] /\ l # f /\ l = IF j < f THEN j ELSE j + 1
      BY <2>5
    <3>3. k = l
      BY <1>1, <3>1, <3>2
    <3> QED
      BY <1>1, <2>4, <3>1, <3>2, <3>3
  <2> QED
    BY <1>1, <2>3, <2>5, <2>6, <2>7, <2>8 DEF StoreOK
<1> QED
  BY <1>3, <1>4

LEMMA PollRemoveType ==
    ASSUME TypeInv, NEW r \in Requests, PollRemove(r)
    PROVE  TypeInv'
<1>1. pc[r] \in {"poll_find"} \cup FoundSteps /\ pc[r] \in SubjectSteps /\ pc[r] \in FoundSteps
  BY DEF PollRemove, FoundSteps, SubjectSteps, AcceptedSteps
<1>2. /\ Goto(r, "poll_scopes") /\ UNCHANGED ctx
      /\ UNCHANGED <<object, age, seen, active, ctx, decisions, issued, quiet, passed>>
      /\ removed' = removed \cup {ctx[r].device}
  BY DEF PollRemove
<1>3. ctx[r] \in PollContext /\ ctx' = [ctx EXCEPT ![r] = ctx[r]] /\ ctx[r].device \in DeviceCodes
  BY <1>1, <1>2, PollGoes
<1>4. LocalsTyped /\ Alone(r) /\ pc'[r] = "poll_scopes" /\ ctx'[r] = ctx[r]
  BY <1>2, <1>3, Gone DEF Steps, AcceptedSteps
<1>5. LocalsOf(r)
  BY DEF TypeInv
<1>6. LocalsOf(r)'
  BY <1>1, <1>2, <1>4, <1>5
  DEF LocalsOf, PageSteps, WritingSteps, FoundSteps, SubjectSteps, AcceptedSteps
<1>7. /\ ObjectsGrow /\ removed' \subseteq DeviceCodes
      /\ object' \in [DeviceCodes -> DeviceCode \cup {None}]
  BY <1>2, <1>3 DEF ObjectsGrow, TypeInv, TypeOK
<1> QED
  BY <1>2, <1>4, <1>6, <1>7, RemovedEntry, StoreMoves

\* What a poll that arrives does to the locals of another request.
NoLongerPolite(q) ==
    \/ ctx'[q] = ctx[q]
    \/ /\ ctx[q] \in PollContext /\ ctx'[q] \in PollContext
       /\ ctx'[q] = [ctx[q] EXCEPT !.polite = FALSE]

LEMMA PollArrives ==
    ASSUME TypeInv, NEW r \in Requests, NEW c \in Clients, NEW d \in DeviceCodes, Poll(r, c, d)
    PROVE  /\ pc'[r] = "poll_find" /\ \A q \in Requests \ {r} : pc'[q] = pc[q]
           /\ ctx'[r] \in PollContext /\ ctx'[r].device = d
           /\ ctx'[r].late = (d \in removed)
           /\ ctx'[r].polite = (quiet[d] = Interval /\ \A p \in Requests : ~ Polling(p, d))
           /\ LocalsTyped
           /\ \A q \in Requests \ {r} : NoLongerPolite(q)
           /\ \A q \in Requests \ {r} : Polling(q, d) =>
                 ctx'[q] = [ctx[q] EXCEPT !.polite = FALSE]
<1> DEFINE x == [client |-> c, device |-> d, object |-> None, late |-> d \in removed,
                 polite |-> quiet[d] = Interval /\ \A p \in Requests : ~ Polling(p, d),
                 subject |-> None, scopes |-> None]
<1>1. x \in PollContext
  BY DEF PollContext
<1>2. ctx' = [q \in Requests |-> IF q = r THEN x
                                 ELSE IF Polling(q, d) THEN [ctx[q] EXCEPT !.polite = FALSE]
                                 ELSE ctx[q]]
  BY DEF Poll
<1>3. /\ x.device = d /\ x.late = (d \in removed)
      /\ x.polite = (quiet[d] = Interval /\ \A p \in Requests : ~ Polling(p, d))
  BY Zenon
<1>4. Goto(r, "poll_find")
  BY DEF Poll
<1>5. pc'[r] = "poll_find" /\ \A q \in Requests \ {r} : pc'[q] = pc[q]
  BY <1>4 DEF Goto, TypeInv, TypeOK
<1>6. pc' \in [Requests -> Steps]
  BY <1>4 DEF Goto, TypeInv, TypeOK, Steps
<1> HIDE DEF x
<1>7. ctx'[r] = x
  BY <1>2
<1>8. \A q \in Requests \ {r} : Polling(q, d) =>
         ctx'[q] = [ctx[q] EXCEPT !.polite = FALSE] /\ ctx[q] \in PollContext
  BY <1>2 DEF Polling
<1>9. \A q \in Requests \ {r} : ~ Polling(q, d) => ctx'[q] = ctx[q]
  BY <1>2
<1>10. \A q \in Requests : ctx[q] \in PollContext => [ctx[q] EXCEPT !.polite = FALSE] \in PollContext
  BY DEF PollContext
<1>11. \A q \in Requests \ {r} : NoLongerPolite(q)
  BY <1>8, <1>9, <1>10 DEF NoLongerPolite
<1>12. ctx' \in [Requests -> StartContext \cup ConsentContext \cup PollContext \cup {None}]
  <2>1. ctx' = [q \in Requests |-> ctx'[q]]
    BY <1>2
  <2>2. \A q \in Requests : ctx'[q] \in StartContext \cup ConsentContext \cup PollContext \cup {None}
    BY <1>1, <1>7, <1>11 DEF NoLongerPolite, TypeInv, TypeOK
  <2> QED
    BY <2>1, <2>2
<1> QED
  BY <1>1, <1>3, <1>5, <1>6, <1>7, <1>8, <1>11, <1>12 DEF LocalsTyped

LEMMA PollType ==
    ASSUME TypeInv, NEW r \in Requests, NEW c \in Clients, NEW d \in DeviceCodes, Poll(r, c, d)
    PROVE  TypeInv'
<1>1. object[d] # None /\ UNCHANGED <<repository, object, age, seen, active, history>>
  BY DEF Poll
<1>2. LocalsOf(r)'
  BY <1>1, PollArrives
  DEF LocalsOf, PageSteps, WritingSteps, FoundSteps, SubjectSteps, AcceptedSteps
<1>3. ASSUME NEW q \in Requests \ {r} PROVE LocalsOf(q)'
  <2>1. LocalsOf(q) /\ NoLongerPolite(q) /\ pc'[q] = pc[q]
    BY PollArrives DEF TypeInv
  <2>2. CASE ctx'[q] = ctx[q]
    BY <1>1, <2>1, <2>2, OthersKeep DEF ObjectsGrow
  <2>3. CASE /\ ctx[q] \in PollContext /\ ctx'[q] \in PollContext
             /\ ctx'[q] = [ctx[q] EXCEPT !.polite = FALSE]
    <3>1. /\ ctx'[q].device = ctx[q].device /\ ctx'[q].object = ctx[q].object
          /\ ctx'[q].client = ctx[q].client /\ ctx'[q].subject = ctx[q].subject
          /\ ctx'[q].scopes = ctx[q].scopes
      BY <2>3 DEF PollContext
    <3>2. ctx[q] \notin StartContext /\ ctx[q] \notin ConsentContext /\ ctx[q] # None
      <4>1. ctx[q] \notin StartContext
        BY <2>3 DEF PollContext, StartContext
      <4>2. ctx[q] \notin ConsentContext
        BY <2>3 DEF PollContext, ConsentContext
      <4> QED
        BY <2>3, <4>1, <4>2, NoneAssumption
    <3>3. pc[q] # "idle" /\ pc[q] \notin {"start_find", "start_store"} /\ pc[q] \notin PageSteps
          /\ pc[q] \notin WritingSteps
      BY <2>1, <3>2 DEF LocalsOf, PageSteps, WritingSteps
    <3> QED
      BY <1>1, <2>1, <2>3, <3>1, <3>3 DEF LocalsOf
  <2> QED
    BY <2>1, <2>2, <2>3 DEF NoLongerPolite
<1>4. StoreOK'
  BY <1>1 DEF TypeInv, StoreOK
<1>5. TypeOK'
  BY <1>1, PollArrives DEF TypeInv, TypeOK, LocalsTyped, history, outcome
<1> QED
  BY <1>2, <1>3, <1>4, <1>5 DEF TypeInv

\* A step that leaves the requests, the store and the objects alone.
LEMMA NothingMoves ==
    ASSUME TypeInv, UNCHANGED <<repository, object, pc, ctx>>, TypeOK'
    PROVE  TypeInv'
<1>1. \A q \in Requests : LocalsOf(q)'
  BY OthersKeep DEF ObjectsGrow
<1> QED
  BY <1>1 DEF TypeInv, StoreOK

LEMMA TickType ==
    ASSUME TypeInv, Tick
    PROVE  TypeInv'
<1>1. \A a, top \in Nat : a \in 0..top => Older(a, top) \in 0..top
  BY DEF Older
<1>2. Lifetime \in Nat /\ Interval \in Nat /\ Lifetime + 1 \in Nat /\ Interval \in 0..Interval
      /\ 0 \in 0..(Lifetime + 1)
  BY DeviceFlowAssumption
<1>3. /\ age \in [DeviceCodes -> 0..(Lifetime + 1)]
      /\ seen \in [DeviceCodes -> 0..Interval]
      /\ quiet \in [DeviceCodes -> 0..Interval]
      /\ passed \in [DeviceCodes -> 0..Interval]
  BY DEF TypeInv, TypeOK
<1>4. \A d \in DeviceCodes :
         /\ Older(age[d], Lifetime + 1) \in 0..(Lifetime + 1)
         /\ Older(seen[d], Interval) \in 0..Interval
         /\ Older(quiet[d], Interval) \in 0..Interval
         /\ Older(passed[d], Interval) \in 0..Interval
  BY <1>1, <1>2, <1>3
<1>5. /\ age' \in [DeviceCodes -> 0..(Lifetime + 1)]
      /\ seen' \in [DeviceCodes -> 0..Interval]
      /\ quiet' \in [DeviceCodes -> 0..Interval]
      /\ passed' \in [DeviceCodes -> 0..Interval]
  BY <1>2, <1>4 DEF Tick
<1>6. UNCHANGED <<repository, object, active, pc, ctx, outcome>>
  BY DEF Tick
<1>7. TypeOK'
  BY <1>5, <1>6 DEF TypeInv, TypeOK, outcome
<1> QED
  BY <1>6, <1>7, NothingMoves

LEMMA SetActiveType ==
    ASSUME TypeInv, NEW u \in Users, SetActive(u)
    PROVE  TypeInv'
<1>1. active' \in [Users -> BOOLEAN]
  BY DEF SetActive, TypeInv, TypeOK
<1>2. TypeOK'
  BY <1>1 DEF SetActive, TypeInv, TypeOK, history, outcome
<1> QED
  BY <1>2, NothingMoves DEF SetActive

LEMMA TypeInductive == TypeInv /\ [Next]_vars => TypeInv'
<1> SUFFICES ASSUME TypeInv, [Next]_vars PROVE TypeInv'
  OBVIOUS
<1>1. CASE Tick
  BY <1>1, TickType
<1>2. ASSUME NEW u \in Users, SetActive(u) PROVE TypeInv'
  BY <1>2, SetActiveType
<1>3. ASSUME NEW r \in Requests, Arrival(r) PROVE TypeInv'
  BY <1>3, StartType, ShowType, PollType DEF Arrival
<1>4. ASSUME NEW r \in Requests, Step(r) PROVE TypeInv'
  BY <1>4, StartFindType, StartStoreType, ConsentType, HandleType, SetAuthorizedType,
     SetSubjectType, SetScopesType, UpdateType, PollFindType, PollSeenType, PollSlowType,
     PollMarkType, PollDeniedType, PollPendingType, PollActiveType, PollRemoveType,
     PollScopesType, PollSubjectType DEF Step
<1>5. CASE UNCHANGED vars
  <2>1. TypeOK'
    BY <1>5 DEF TypeInv, TypeOK, vars, history, outcome
  <2> QED
    BY <1>5, <2>1, NothingMoves DEF vars
<1> QED
  BY <1>1, <1>2, <1>3, <1>4, <1>5 DEF Next

\* Every variable has its type in every reachable state; a request has the locals
\* that its next step reads and has found the object it works on.
THEOREM TypeCorrect == Spec => []TypeOK
<1>1. TypeInv => TypeOK
  BY DEF TypeInv
<1> QED
  BY <1>1, TypeInvInit, TypeInductive, PTL DEF Spec

-----------------------------------------------------------------------------
(***************************************************************************)
(* What was granted.                                                       *)
(***************************************************************************)
LEMMA Went ==
    ASSUME TypeInv, NEW r \in Requests
    PROVE  /\ \A step : Goto(r, step) => /\ pc'[r] = step
                                         /\ \A q \in Requests \ {r} : pc'[q] = pc[q]
           /\ Answer(r) => /\ pc'[r] = "idle" /\ ctx'[r] = None /\ Alone(r)
           /\ UNCHANGED ctx => \A q \in Requests : ctx'[q] = ctx[q]
<1>1. pc \in [Requests -> Steps] /\ DOMAIN ctx = Requests
  BY DEF TypeInv, TypeOK
<1> QED
  BY <1>1, Answered DEF Goto

\* The steps that start a request or lead it on, and write no object and no token.
Leading(r) ==
    \/ \E c \in Clients : Start(r, c)
    \/ \E u \in UserCodes : StartFind(r, u)
    \/ \E u \in UserCodes, user \in Users, scopes \in Consents \cup {None} : Show(r, u, user, scopes)
    \/ Consent(r) \/ Update(r)
    \/ PollFind(r) \/ PollSeen(r) \/ PollSlow(r) \/ PollMark(r) \/ PollDenied(r)
    \/ PollPending(r) \/ PollActive(r) \/ PollRemove(r)

LEMMA LeadingMoves ==
    ASSUME TypeInv, NEW r \in Requests, Leading(r)
    PROVE  /\ Alone(r) /\ pc'[r] \notin WritingSteps \cup {"poll_subject"}
           /\ UNCHANGED <<object, decisions, issued>>
<1> USE DEF WritingSteps
<1>0. /\ \A c, x : Begin(r, x, c) => Goto(r, x)
      /\ \A x : ctx' = [ctx EXCEPT ![r] = x] => \A q \in Requests \ {r} : ctx'[q] = ctx[q]
  BY DEF Begin, Goto, TypeInv, TypeOK
<1>a. DOMAIN ctx = Requests
  BY DEF TypeInv, TypeOK
<1>1. ASSUME NEW c \in Clients, Start(r, c)
      PROVE  Alone(r) /\ pc'[r] = "start_find" /\ UNCHANGED <<object, decisions, issued>>
  BY <1>1, <1>0, Went DEF Start, Begin, Alone, history, outcome
<1>2. ASSUME NEW u \in UserCodes, StartFind(r, u)
      PROVE  /\ Alone(r) /\ pc'[r] \in {"start_find", "start_store", "idle"}
             /\ UNCHANGED <<object, decisions, issued>>
  BY <1>2, <1>a, Went DEF StartFind, Alone, history, outcome
<1>3. ASSUME NEW u \in UserCodes, NEW user \in Users, NEW scopes \in Consents \cup {None},
             Show(r, u, user, scopes)
      PROVE  Alone(r) /\ pc'[r] = "consent" /\ UNCHANGED <<object, decisions, issued>>
  BY <1>3, <1>0, Went DEF Show, Begin, Alone, history, outcome
<1>4. CASE Consent(r)
  BY <1>4, Went DEF Consent, Alone, history, outcome
<1>5. CASE Update(r)
  BY <1>5, Went DEF Update, Alone, history, outcome
<1>6. CASE PollFind(r)
  BY <1>6, <1>a, Went DEF PollFind, AnswerPoll, Alone, outcome
<1>7. CASE PollSeen(r)
  BY <1>7, Went DEF PollSeen, Alone, outcome
<1>8. CASE PollSlow(r)
  BY <1>8, Went DEF PollSlow, AnswerPoll, Alone, outcome
<1>9. CASE PollMark(r)
  BY <1>9, Went DEF PollMark, AnswerPoll, Alone, outcome
<1>10. CASE PollDenied(r)
  BY <1>10, Went DEF PollDenied, AnswerPoll, Alone, outcome
<1>11. CASE PollPending(r)
  BY <1>11, <1>a, Went DEF PollPending, AnswerPoll, Alone, outcome
<1>12. CASE PollActive(r)
  BY <1>12, Went DEF PollActive, AnswerPoll, Alone, outcome
<1>13. CASE PollRemove(r)
  BY <1>13, Went DEF PollRemove, Alone
<1> QED
  BY <1>1, <1>2, <1>3, <1>4, <1>5, <1>6, <1>7, <1>8, <1>9, <1>10, <1>11, <1>12, <1>13 DEF Leading

\* The decision a request is about to write is still known when the request has not moved.
LEMMA DecidingKept ==
    ASSUME GrantInv, NEW q \in Requests,
           \A d \in DeviceCodes : decisions[d] \subseteq decisions'[d],
           \/ pc'[q] \notin WritingSteps \cup {"poll_subject"}
           \/ pc'[q] = pc[q] /\ ctx'[q].object = ctx[q].object /\ ctx'[q].scopes = ctx[q].scopes
              /\ (pc[q] \in WritingSteps => ctx'[q].user = ctx[q].user)
           \/ pc[q] \in WritingSteps /\ pc'[q] \in WritingSteps /\ ctx'[q] = ctx[q]
    PROVE  Deciding(q)'
<1>1. Deciding(q) /\ LocalsOf(q)
  BY DEF GrantInv, TypeInv
<1>2. "poll_subject" \notin WritingSteps
  BY DEF WritingSteps
<1>3. pc[q] \in WritingSteps \cup {"poll_subject"} => ctx[q].object \in DeviceCodes
  BY <1>1 DEF LocalsOf, FoundSteps, SubjectSteps, AcceptedSteps
<1> QED
  BY <1>1, <1>2, <1>3 DEF Deciding

\* The invariant is kept when objects keep what was decided about them and every new
\* token is one of its object.
LEMMA GrantKept ==
    ASSUME GrantInv, TypeInv', ObjectsGrow,
           \A d \in DeviceCodes : decisions[d] \subseteq decisions'[d],
           \A d \in DeviceCodes : Decided(d)',
           \A q \in Requests : Deciding(q)',
           \A t \in issued' \ issued :
              /\ object'[t.object] # None /\ t.client = object'[t.object].client
              /\ \E x \in decisions'[t.object] : x.user = t.user
              /\ \E x \in decisions'[t.object] : x.scopes = t.scopes
    PROVE  GrantInv'
<1>1. \A t \in issued : t.object \in DeviceCodes
  <2>1. \A t \in issued : t \in Token
    BY DEF GrantInv, TypeInv, TypeOK
  <2> QED
    BY <2>1 DEF Token
<1>2. \A t \in issued :
         /\ object'[t.object] # None /\ t.client = object'[t.object].client
         /\ \E x \in decisions'[t.object] : x.user = t.user
         /\ \E x \in decisions'[t.object] : x.scopes = t.scopes
  BY <1>1 DEF GrantInv, OnlyWhatWasGranted, ObjectsGrow
<1>3. \A t \in issued' : object'[t.object] # None
  BY <1>2
<1>4. OnlyWhatWasGranted'
  BY <1>2 DEF OnlyWhatWasGranted
<1> QED
  BY <1>3, <1>4 DEF GrantInv

LEMMA GrantUntouched ==
    ASSUME GrantInv, TypeInv', UNCHANGED <<object, decisions, issued>>,
           \A q \in Requests : Deciding(q)'
    PROVE  GrantInv'
<1>1. ObjectsGrow
  BY DEF ObjectsGrow
<1>2. \A d \in DeviceCodes : Decided(d)'
  BY DEF GrantInv, Decided
<1> QED
  BY <1>1, <1>2, GrantKept

LEMMA LeadingGrants ==
    ASSUME GrantInv, TypeInv', NEW r \in Requests, Leading(r)
    PROVE  GrantInv'
<1>1. /\ Alone(r) /\ pc'[r] \notin WritingSteps \cup {"poll_subject"}
      /\ UNCHANGED <<object, decisions, issued>>
  BY LeadingMoves DEF GrantInv
<1>2. ASSUME NEW q \in Requests PROVE Deciding(q)'
  BY <1>1, DecidingKept DEF Alone
<1> QED
  BY <1>1, <1>2, GrantUntouched

LEMMA StartStoreGrants ==
    ASSUME GrantInv, TypeInv', NEW r \in Requests, NEW d \in DeviceCodes, StartStore(r, d)
    PROVE  GrantInv'
<1> DEFINE o == [client |-> ctx[r].client, authorized |-> FALSE, subject |-> None, scopes |-> None]
<1>1. TypeInv /\ ObjectsGrow
  BY StartStoreType DEF GrantInv
<1>2. object' = [object EXCEPT ![d] = o] /\ Answer(r) /\ UNCHANGED <<decisions, issued>>
  BY DEF StartStore, history, outcome
<1>3. o.subject = None /\ o.scopes = None
  OBVIOUS
<1> HIDE DEF o
<1>4. object'[d] = o /\ \A e \in DeviceCodes \ {d} : object'[e] = object[e]
  BY <1>1, <1>2 DEF TypeInv, TypeOK
<1>5. ASSUME NEW e \in DeviceCodes PROVE Decided(e)'
  BY <1>2, <1>3, <1>4 DEF GrantInv, Decided
<1>6. ASSUME NEW q \in Requests PROVE Deciding(q)'
  <2>1. pc'[r] = "idle" /\ Alone(r) /\ "idle" \notin WritingSteps \cup {"poll_subject"}
    BY <1>1, <1>2, Answered DEF WritingSteps
  <2> QED
    BY <1>2, <2>1, DecidingKept DEF Alone
<1> QED
  BY <1>1, <1>2, <1>5, <1>6, GrantKept

\* The page's request r writes x, whose subject and scopes were decided.
LEMMA WriteGrants ==
    ASSUME GrantInv, TypeInv', ObjectsGrow, NEW r \in Requests, pc[r] \in WritingSteps,
           NEW step \in WritingSteps, Goto(r, step), UNCHANGED <<ctx, decisions, issued>>,
           NEW x, object' = [object EXCEPT ![ctx[r].object] = x],
           \/ x.subject = object[ctx[r].object].subject
           \/ x.subject = ctx[r].user,
           \/ x.scopes = object[ctx[r].object].scopes
           \/ x.scopes = ctx[r].scopes
    PROVE  GrantInv'
<1>1. TypeInv
  BY DEF GrantInv
<1>2. PICK d \in DeviceCodes : d = ctx[r].object /\ object[d] # None
  BY <1>1 DEF TypeInv, LocalsOf
<1>3. object'[d] = x /\ \A e \in DeviceCodes \ {d} : object'[e] = object[e]
  BY <1>1, <1>2 DEF TypeInv, TypeOK
<1>4. \E y \in decisions[d] : y.user = ctx[r].user /\ y.scopes = ctx[r].scopes
  <2>1. [user |-> ctx[r].user, scopes |-> ctx[r].scopes] \in decisions[d]
    BY <1>2 DEF GrantInv, Deciding
  <2> QED
    BY <2>1
<1>5. ASSUME NEW e \in DeviceCodes PROVE Decided(e)'
  <2>1. Decided(e)
    BY DEF GrantInv
  <2>2. CASE e = d
    BY <1>2, <1>3, <1>4, <2>1, <2>2 DEF Decided
  <2>3. CASE e # d
    BY <1>3, <2>1, <2>3 DEF Decided
  <2> QED
    BY <2>2, <2>3
<1>6. ASSUME NEW q \in Requests PROVE Deciding(q)'
  BY <1>1, Went, DecidingKept
<1> QED
  BY <1>5, <1>6, GrantKept

LEMMA SetGrants ==
    ASSUME GrantInv, TypeInv', NEW r \in Requests,
           SetAuthorized(r) \/ SetSubject(r) \/ SetScopes(r)
    PROVE  GrantInv'
<1>1. TypeInv
  BY DEF GrantInv
<1>2. pc[r] \in WritingSteps /\ UNCHANGED <<ctx, decisions, issued>>
  BY DEF SetAuthorized, SetSubject, SetScopes, WritingSteps, history, outcome
<1>3. object[ctx[r].object] \in DeviceCode /\ ctx[r].object \in DeviceCodes /\ DOMAIN object = DeviceCodes
  BY <1>1, <1>2, WrittenObject DEF TypeInv, TypeOK
<1>4. CASE SetAuthorized(r)
  <2> DEFINE x == [object[ctx[r].object] EXCEPT !.authorized = TRUE]
  <2>1. x.subject = object[ctx[r].object].subject /\ x.scopes = object[ctx[r].object].scopes
    BY <1>3 DEF DeviceCode
  <2>2. object' = [object EXCEPT ![ctx[r].object] = x] /\ Goto(r, "set_subject")
    BY <1>3, <1>4 DEF SetAuthorized
  <2> HIDE DEF x
  <2> QED
    BY <1>1, <1>2, <1>4, <2>1, <2>2, SetAuthorizedType, WriteGrants DEF WritingSteps
<1>5. CASE SetSubject(r)
  <2> DEFINE x == [object[ctx[r].object] EXCEPT !.subject = ctx[r].user]
  <2>1. x.subject = ctx[r].user /\ x.scopes = object[ctx[r].object].scopes
    BY <1>3 DEF DeviceCode
  <2>2. object' = [object EXCEPT ![ctx[r].object] = x] /\ Goto(r, "set_scopes")
    BY <1>3, <1>5 DEF SetSubject
  <2> HIDE DEF x
  <2> QED
    BY <1>1, <1>2, <1>5, <2>1, <2>2, SetSubjectType, WriteGrants DEF WritingSteps
<1>6. CASE SetScopes(r)
  <2> DEFINE x == [object[ctx[r].object] EXCEPT !.scopes = ctx[r].scopes]
  <2>1. x.subject = object[ctx[r].object].subject /\ x.scopes = ctx[r].scopes
    BY <1>3 DEF DeviceCode
  <2>2. object' = [object EXCEPT ![ctx[r].object] = x] /\ Goto(r, "update")
    BY <1>3, <1>6 DEF SetScopes
  <2> HIDE DEF x
  <2> QED
    BY <1>1, <1>2, <1>6, <2>1, <2>2, SetScopesType, WriteGrants DEF WritingSteps
<1> QED
  BY <1>4, <1>5, <1>6

LEMMA HandleGrants ==
    ASSUME GrantInv, TypeInv', NEW r \in Requests, Handle(r)
    PROVE  GrantInv'
<1> DEFINE o == Found(ByUserCode(ctx[r].code))
           new == [user |-> ctx[r].user, scopes |-> ctx[r].scopes]
<1>1. TypeInv /\ ctx[r] \in ConsentContext /\ UNCHANGED <<object, issued>>
  BY DEF GrantInv, TypeInv, LocalsOf, Handle, PageSteps
<1>2. CASE o = None
  <2>1. Answer(r) /\ UNCHANGED decisions
    BY <1>2 DEF Handle
  <2>2. pc'[r] = "idle" /\ Alone(r) /\ "idle" \notin WritingSteps \cup {"poll_subject"}
    BY <1>1, <2>1, Answered DEF WritingSteps
  <2>3. ASSUME NEW q \in Requests PROVE Deciding(q)'
    BY <2>1, <2>2, DecidingKept DEF Alone
  <2> QED
    BY <1>1, <2>1, <2>3, GrantUntouched
<1>3. CASE o # None
  <2>1. PICK d \in DeviceCodes : d = o
    BY <1>1, <1>3, FoundObject DEF TypeInv
  <2>2. /\ Goto(r, "set_authorized") /\ ctx' = [ctx EXCEPT ![r].object = d]
        /\ decisions' = [decisions EXCEPT ![d] = @ \cup {new}]
    BY <1>3, <2>1 DEF Handle
  <2> HIDE DEF o, new
  <2>3. /\ new \in decisions'[d]
        /\ \A e \in DeviceCodes : decisions[e] \subseteq decisions'[e]
    BY <1>1, <2>2 DEF TypeInv, TypeOK
  <2>4. /\ ctx'[r].object = d /\ ctx'[r].user = ctx[r].user /\ ctx'[r].scopes = ctx[r].scopes
        /\ \A q \in Requests \ {r} : ctx'[q] = ctx[q]
    <3>1. ctx'[r] = [ctx[r] EXCEPT !.object = d] /\ \A q \in Requests \ {r} : ctx'[q] = ctx[q]
      BY <2>2, <1>1 DEF TypeInv, TypeOK
    <3> QED
      BY <1>1, <3>1 DEF ConsentContext
  <2>5. pc'[r] = "set_authorized" /\ \A q \in Requests \ {r} : pc'[q] = pc[q]
    BY <1>1, <2>2, Went
  <2>6. Deciding(r)'
    BY <2>3, <2>4, <2>5 DEF Deciding, new
  <2>7. ASSUME NEW q \in Requests \ {r} PROVE Deciding(q)'
    BY <2>3, <2>4, <2>5, DecidingKept
  <2>8. ASSUME NEW e \in DeviceCodes PROVE Decided(e)'
    BY <1>1, <2>3 DEF GrantInv, Decided
  <2> QED
    BY <1>1, <2>3, <2>6, <2>7, <2>8, GrantKept DEF ObjectsGrow
<1> QED
  BY <1>2, <1>3

LEMMA PollScopesGrants ==
    ASSUME GrantInv, TypeInv', NEW r \in Requests, PollScopes(r)
    PROVE  GrantInv'
<1> DEFINE scopes == object[ctx[r].object].scopes
<1>1. TypeInv /\ UNCHANGED <<object, decisions, issued>> /\ pc[r] \in FoundSteps
  BY DEF GrantInv, PollScopes, outcome, FoundSteps, SubjectSteps, AcceptedSteps
<1>2. CASE AnswerPoll(r)
  <2>1. pc'[r] = "idle" /\ Alone(r) /\ "idle" \notin WritingSteps \cup {"poll_subject"}
    BY <1>1, <1>2, Answered DEF WritingSteps, AnswerPoll
  <2>2. ASSUME NEW q \in Requests PROVE Deciding(q)'
    BY <1>1, <2>1, DecidingKept DEF Alone
  <2> QED
    BY <1>1, <2>2, GrantUntouched
<1>3. CASE scopes # None
  <2>1. PICK s : s = scopes /\ s # None
    BY <1>3
  <2>2. Goto(r, "poll_subject") /\ ctx' = [ctx EXCEPT ![r].scopes = s]
    BY <1>3, <2>1 DEF PollScopes
  <2> HIDE DEF scopes
  <2>3. /\ ctx'[r].object = ctx[r].object /\ ctx'[r].scopes = s
        /\ \A q \in Requests \ {r} : ctx'[q] = ctx[q]
    <3>1. ctx'[r] = [ctx[r] EXCEPT !.scopes = s] /\ \A q \in Requests \ {r} : ctx'[q] = ctx[q]
      BY <1>1, <2>2 DEF TypeInv, TypeOK
    <3>2. ctx[r] \in PollContext
      BY <1>1, PollGoes
    <3> QED
      BY <3>1, <3>2 DEF PollContext
  <2>4. pc'[r] = "poll_subject" /\ \A q \in Requests \ {r} : pc'[q] = pc[q]
    BY <1>1, <2>2, Went
  <2>5. ctx[r].object \in DeviceCodes /\ object[ctx[r].object] # None
    BY <1>1 DEF TypeInv, LocalsOf
  <2>6. \E x \in decisions[ctx[r].object] : x.scopes = s
    BY <2>1, <2>5 DEF GrantInv, Decided, scopes
  <2>7. Deciding(r)'
    BY <1>1, <2>3, <2>4, <2>6 DEF Deciding, WritingSteps
  <2>8. ASSUME NEW q \in Requests \ {r} PROVE Deciding(q)'
    BY <1>1, <2>3, <2>4, DecidingKept
  <2> QED
    BY <1>1, <2>7, <2>8, GrantUntouched
<1> QED
  BY <1>2, <1>3 DEF PollScopes

LEMMA PollSubjectGrants ==
    ASSUME GrantInv, TypeInv', NEW r \in Requests, PollSubject(r)
    PROVE  GrantInv'
<1> DEFINE t == [client |-> ctx[r].client, object |-> ctx[r].object,
                 user |-> object[ctx[r].object].subject, scopes |-> ctx[r].scopes]
<1>1. /\ TypeInv /\ UNCHANGED <<object, decisions>> /\ issued' = issued \cup {t}
      /\ pc[r] = "poll_subject" /\ Answer(r)
  BY DEF GrantInv, PollSubject, AnswerPoll
<1>2. /\ t.client = ctx[r].client /\ t.object = ctx[r].object
      /\ t.user = object[ctx[r].object].subject /\ t.scopes = ctx[r].scopes
  OBVIOUS
<1> HIDE DEF t
<1>3. /\ ctx[r].object \in DeviceCodes /\ object[ctx[r].object] # None
      /\ object[ctx[r].object].client = ctx[r].client
      /\ object[ctx[r].object].subject # None
  BY <1>1 DEF TypeInv, LocalsOf, FoundSteps, SubjectSteps, AcceptedSteps
<1>4. /\ \E x \in decisions[ctx[r].object] : x.user = object[ctx[r].object].subject
      /\ \E x \in decisions[ctx[r].object] : x.scopes = ctx[r].scopes
  BY <1>1, <1>3 DEF GrantInv, Decided, Deciding
<1>5. \A s \in issued' \ issued :
         /\ object'[s.object] # None /\ s.client = object'[s.object].client
         /\ \E x \in decisions'[s.object] : x.user = s.user
         /\ \E x \in decisions'[s.object] : x.scopes = s.scopes
  BY <1>1, <1>2, <1>3, <1>4
<1>6. ASSUME NEW q \in Requests PROVE Deciding(q)'
  <2>1. pc'[r] = "idle" /\ Alone(r) /\ "idle" \notin WritingSteps \cup {"poll_subject"}
    BY <1>1, Answered DEF WritingSteps
  <2> QED
    BY <1>1, <2>1, DecidingKept DEF Alone
<1>7. \A d \in DeviceCodes : Decided(d)'
  BY <1>1 DEF GrantInv, Decided
<1> QED
  BY <1>1, <1>5, <1>6, <1>7, GrantKept DEF ObjectsGrow

LEMMA PollGrants ==
    ASSUME GrantInv, TypeInv', NEW r \in Requests, NEW c \in Clients, NEW d \in DeviceCodes,
           Poll(r, c, d)
    PROVE  GrantInv'
<1>1. TypeInv /\ UNCHANGED <<object, decisions, issued>>
  BY DEF GrantInv, Poll, history, outcome
<1>2. ASSUME NEW q \in Requests PROVE Deciding(q)'
  <2>1. CASE q = r
    <3>1. pc'[r] = "poll_find" /\ "poll_find" \notin WritingSteps \cup {"poll_subject"}
      BY <1>1, PollArrives DEF WritingSteps
    <3> QED
      BY <1>1, <2>1, <3>1, DecidingKept
  <2>2. CASE q # r
    <3>1. pc'[q] = pc[q] /\ NoLongerPolite(q) /\ LocalsOf(q)
      BY <1>1, <2>2, PollArrives DEF TypeInv
    <3>2. ctx[q] \in PollContext => pc[q] \notin WritingSteps
      <4>1. ctx[q] \in PollContext => ctx[q] \notin ConsentContext
        BY DEF PollContext, ConsentContext
      <4> QED
        BY <3>1, <4>1 DEF LocalsOf, WritingSteps, PageSteps
    <3>3. ctx'[q] = ctx[q] \/ /\ ctx'[q].object = ctx[q].object
                              /\ ctx'[q].scopes = ctx[q].scopes
                              /\ ctx[q] \in PollContext
      BY <3>1 DEF NoLongerPolite, PollContext
    <3> QED
      BY <1>1, <3>1, <3>2, <3>3, DecidingKept
  <2> QED
    BY <2>1, <2>2
<1> QED
  BY <1>1, <1>2, GrantUntouched

LEMMA GrantInductive == GrantInv /\ [Next]_vars => GrantInv'
<1> SUFFICES ASSUME GrantInv, [Next]_vars PROVE GrantInv'
  OBVIOUS
<1>0. TypeInv /\ TypeInv'
  BY TypeInductive DEF GrantInv
<1>1. CASE UNCHANGED <<object, decisions, issued, pc, ctx>>
  <2>1. ASSUME NEW q \in Requests PROVE Deciding(q)'
    BY <1>1, DecidingKept
  <2> QED
    BY <1>0, <1>1, <2>1, GrantUntouched
<1>2. CASE Tick \/ (\E u \in Users : SetActive(u)) \/ UNCHANGED vars
  BY <1>1, <1>2 DEF Tick, SetActive, vars, history, outcome
<1>3. ASSUME NEW r \in Requests, Leading(r) PROVE GrantInv'
  BY <1>0, <1>3, LeadingGrants
<1>4. ASSUME NEW r \in Requests, Arrival(r) PROVE GrantInv'
  BY <1>0, <1>3, <1>4, PollGrants DEF Arrival, Leading
<1>5. ASSUME NEW r \in Requests, Step(r) PROVE GrantInv'
  BY <1>0, <1>3, <1>5, StartStoreGrants, SetGrants, HandleGrants, PollScopesGrants,
     PollSubjectGrants DEF Step, Leading
<1> QED
  BY <1>2, <1>4, <1>5 DEF Next

\* Tokens go to the client that started the request, for a user and scopes that were
\* decided about that very request, however polls and consents interleave
\* (DeviceCodeValidator.ValidateAsync, HandleRequestAsync).
THEOREM GrantedOnly == Spec => []OnlyWhatWasGranted
<1>1. Init => GrantInv
  BY TypeInvInit DEF Init, GrantInv, Decided, Deciding, OnlyWhatWasGranted, WritingSteps
<1>2. GrantInv => OnlyWhatWasGranted
  BY DEF GrantInv
<1> QED
  BY <1>1, <1>2, GrantInductive, PTL DEF Spec

-----------------------------------------------------------------------------
(***************************************************************************)
(* How a poll moves.                                                       *)
(***************************************************************************)
\* A request has the locals of a poll while it polls.
PollLocals ==
    \A r \in Requests : ctx[r] \in PollContext <=> pc[r] \in {"poll_find"} \cup FoundSteps

LEMMA PollLocalsHold == TypeInv => PollLocals
<1> SUFFICES ASSUME TypeInv, NEW r \in Requests
             PROVE  ctx[r] \in PollContext <=> pc[r] \in {"poll_find"} \cup FoundSteps
  BY DEF PollLocals
<1>1. LocalsOf(r) /\ pc[r] \in Steps
  BY DEF TypeInv, TypeOK
<1>2. ctx[r] \in PollContext =>
         ctx[r] \notin StartContext /\ ctx[r] \notin ConsentContext /\ ctx[r] # None
  <2>1. ctx[r] \in PollContext => ctx[r] \notin StartContext
    BY DEF PollContext, StartContext
  <2>2. ctx[r] \in PollContext => ctx[r] \notin ConsentContext
    BY DEF PollContext, ConsentContext
  <2> QED
    BY <2>1, <2>2, NoneAssumption
<1>3. pc[r] \notin {"poll_find"} \cup FoundSteps =>
         pc[r] = "idle" \/ pc[r] \in {"start_find", "start_store"} \/ pc[r] \in PageSteps
  BY <1>1 DEF Steps, FoundSteps, SubjectSteps, AcceptedSteps, PageSteps
<1> QED
  BY <1>1, <1>2, <1>3 DEF LocalsOf

LEMMA PollLocalsThen == TypeInv' => PollLocals'
BY PollLocalsHold, PTL

\* What a request does that was there before, and every arrival but that of a poll.
Served(r) ==
    \/ \E c \in Clients : Start(r, c)
    \/ \E u \in UserCodes, user \in Users, scopes \in Consents \cup {None} : Show(r, u, user, scopes)
    \/ Step(r)

\* The poll r goes on: it is still the poll that came, and has found its entry.
GoesOn(r) ==
    /\ ctx[r] \in PollContext
    /\ ctx'[r].device = ctx[r].device /\ ctx'[r].late = ctx[r].late
    /\ ctx'[r].polite = ctx[r].polite
    /\ pc'[r] \in FoundSteps
    /\ pc[r] = "poll_find" => Found(ByDeviceCode(ctx[r].device)) # None
    /\ pc'[r] = "poll_seen" => pc[r] = "poll_find" /\ UNCHANGED seen
    /\ pc'[r] = "poll_slow" => pc[r] = "poll_seen" /\ TooFast(ctx[r].device)

LEMMA PollGoesOn ==
    ASSUME TypeInv, NEW r \in Requests, UNCHANGED ctx, pc[r] \in FoundSteps, pc'[r] \in FoundSteps,
           pc'[r] # "poll_seen",
           pc'[r] = "poll_slow" => pc[r] = "poll_seen" /\ TooFast(ctx[r].device)
    PROVE  GoesOn(r)
<1>1. ctx'[r] = ctx[r]
  BY Went
<1>2. ctx[r] \in PollContext /\ pc[r] # "poll_find"
  BY PollGoes DEF FoundSteps, SubjectSteps, AcceptedSteps
<1> QED
  BY <1>1, <1>2 DEF GoesOn

LEMMA PollMovesOn ==
    ASSUME TypeInv, TypeInv', NEW r \in Requests, pc[r] \in {"poll_find"} \cup FoundSteps, Step(r)
    PROVE  AnswerPoll(r) \/ (GoesOn(r) /\ Alone(r))
<1> USE DEF FoundSteps, SubjectSteps, AcceptedSteps
<1>a. ctx[r] \in PollContext /\ DOMAIN ctx = Requests
  BY PollGoes DEF TypeInv, TypeOK
<1>1. CASE PollFind(r)
  <2> DEFINE o == Found(ByDeviceCode(ctx[r].device))
  <2>1. CASE ~ (o = None \/ object[o].client # ctx[r].client)
    <3>1. Goto(r, "poll_seen") /\ ctx' = [ctx EXCEPT ![r].object = o] /\ o # None /\ UNCHANGED seen
      BY <1>1, <2>1 DEF PollFind
    <3>2. ctx'[r] = [ctx[r] EXCEPT !.object = o] /\ \A q \in Requests \ {r} : ctx'[q] = ctx[q]
      BY <1>a, <3>1
    <3>3. ctx'[r].device = ctx[r].device /\ ctx'[r].late = ctx[r].late
          /\ ctx'[r].polite = ctx[r].polite
      BY <1>a, <3>2 DEF PollContext
    <3>4. pc[r] = "poll_find" /\ pc'[r] = "poll_seen" /\ \A q \in Requests \ {r} : pc'[q] = pc[q]
      BY <1>1, <3>1, Went DEF PollFind
    <3> QED
      BY <1>a, <3>1, <3>2, <3>3, <3>4 DEF GoesOn, Alone
  <2> QED
    BY <1>1, <2>1 DEF PollFind
<1>2. CASE PollSeen(r)
  BY <1>2, PollGoesOn, Went DEF PollSeen, Alone
<1>3. CASE PollSlow(r)
  BY <1>3 DEF PollSlow
<1>4. CASE PollMark(r)
  BY <1>4, PollGoesOn, Went DEF PollMark, Alone
<1>5. CASE PollDenied(r)
  BY <1>5, PollGoesOn, Went DEF PollDenied, Alone
<1>6. CASE PollPending(r)
  <2> DEFINE u == object[ctx[r].object].subject
  <2>1. CASE /\ Goto(r, "poll_active") /\ ctx' = [ctx EXCEPT ![r].subject = u]
    <3>1. ctx'[r] = [ctx[r] EXCEPT !.subject = u] /\ \A q \in Requests \ {r} : ctx'[q] = ctx[q]
      BY <1>a, <2>1
    <3>2. ctx'[r].device = ctx[r].device /\ ctx'[r].late = ctx[r].late
          /\ ctx'[r].polite = ctx[r].polite
      BY <1>a, <3>1 DEF PollContext
    <3>3. pc[r] = "poll_pending" /\ pc'[r] = "poll_active" /\ \A q \in Requests \ {r} : pc'[q] = pc[q]
      BY <1>6, <2>1, Went DEF PollPending
    <3> QED
      BY <1>a, <3>1, <3>2, <3>3 DEF GoesOn, Alone
  <2> QED
    BY <1>6, <2>1 DEF PollPending
<1>7. CASE PollActive(r)
  BY <1>7, PollGoesOn, Went DEF PollActive, Alone
<1>8. CASE PollRemove(r)
  BY <1>8, PollGoesOn, Went DEF PollRemove, Alone
<1>9. CASE PollScopes(r)
  <2> DEFINE x == object[ctx[r].object].scopes
  <2>1. CASE /\ Goto(r, "poll_subject") /\ ctx' = [ctx EXCEPT ![r].scopes = x]
    <3>1. ctx'[r] = [ctx[r] EXCEPT !.scopes = x] /\ \A q \in Requests \ {r} : ctx'[q] = ctx[q]
      BY <1>a, <2>1
    <3>2. ctx'[r].device = ctx[r].device /\ ctx'[r].late = ctx[r].late
          /\ ctx'[r].polite = ctx[r].polite
      BY <1>a, <3>1 DEF PollContext
    <3>3. pc[r] = "poll_scopes" /\ pc'[r] = "poll_subject" /\ \A q \in Requests \ {r} : pc'[q] = pc[q]
      BY <1>9, <2>1, Went DEF PollScopes
    <3> QED
      BY <1>a, <3>1, <3>2, <3>3 DEF GoesOn, Alone
  <2> QED
    BY <1>9, <2>1 DEF PollScopes
<1>10. CASE PollSubject(r)
  BY <1>10 DEF PollSubject
<1>11. pc[r] \notin {"start_find", "start_store", "consent", "handle", "set_authorized",
                     "set_subject", "set_scopes", "update"}
  OBVIOUS
<1> QED
  BY <1>1, <1>2, <1>3, <1>4, <1>5, <1>6, <1>7, <1>8, <1>9, <1>10, <1>11
  DEF Step, StartFind, StartStore, Consent, Handle, SetAuthorized, SetSubject, SetScopes, Update

\* A request that is no poll does not become one.
LEMMA PageMovesOn ==
    ASSUME TypeInv, NEW r \in Requests, pc[r] \notin {"poll_find"} \cup FoundSteps, Served(r)
    PROVE  /\ Alone(r) /\ pc'[r] \notin {"poll_find"} \cup FoundSteps
           /\ UNCHANGED <<seen, quiet, passed>>
<1> USE DEF FoundSteps, SubjectSteps, AcceptedSteps
<1>1. ASSUME NEW c \in Clients, Start(r, c)
      PROVE  Alone(r) /\ pc'[r] = "start_find" /\ UNCHANGED <<seen, quiet, passed>>
  <2>1. Leading(r) /\ Goto(r, "start_find") /\ UNCHANGED <<seen, quiet, passed>>
    BY <1>1 DEF Leading, Start, Begin, Goto, history
  <2> QED
    BY <2>1, LeadingMoves, Went
<1>2. ASSUME NEW u \in UserCodes, NEW user \in Users, NEW scopes \in Consents \cup {None},
             Show(r, u, user, scopes)
      PROVE  Alone(r) /\ pc'[r] = "consent" /\ UNCHANGED <<seen, quiet, passed>>
  <2>1. Leading(r) /\ Goto(r, "consent") /\ UNCHANGED <<seen, quiet, passed>>
    BY <1>2 DEF Leading, Show, Begin, Goto, history
  <2> QED
    BY <2>1, LeadingMoves, Went
<1>3. ASSUME NEW u \in UserCodes, StartFind(r, u)
      PROVE  /\ Alone(r) /\ pc'[r] \in {"start_find", "start_store", "idle"}
             /\ UNCHANGED <<seen, quiet, passed>>
  <2>1. Leading(r) /\ UNCHANGED <<seen, quiet, passed>>
    BY <1>3 DEF Leading, StartFind, history
  <2>2. pc'[r] \in {"start_find", "start_store", "idle"}
    BY <1>3, Went DEF StartFind
  <2> QED
    BY <2>1, <2>2, LeadingMoves
<1>4. ASSUME NEW d \in DeviceCodes, StartStore(r, d)
      PROVE  Alone(r) /\ pc'[r] = "idle" /\ UNCHANGED <<seen, quiet, passed>>
  BY <1>4, Went DEF StartStore, history
<1>5. CASE Consent(r) \/ Update(r)
  <2>1. Leading(r) /\ UNCHANGED <<seen, quiet, passed>>
    BY <1>5 DEF Leading, Consent, Update, history
  <2>2. pc'[r] \in {"handle", "idle"}
    BY <1>5, Went DEF Consent, Update
  <2> QED
    BY <2>1, <2>2, LeadingMoves
<1>6. CASE Handle(r)
  <2>1. DOMAIN ctx = Requests
    BY DEF TypeInv, TypeOK
  <2> QED
    BY <1>6, <2>1, Went DEF Handle, Alone
<1>7. CASE SetAuthorized(r) \/ SetSubject(r) \/ SetScopes(r)
  <2>1. UNCHANGED <<ctx, seen, quiet, passed>>
        /\ (Goto(r, "set_subject") \/ Goto(r, "set_scopes") \/ Goto(r, "update"))
    BY <1>7 DEF SetAuthorized, SetSubject, SetScopes, history
  <2> QED
    BY <2>1, Went DEF Alone
<1> QED
  BY <1>1, <1>2, <1>3, <1>4, <1>5, <1>6, <1>7
  DEF Served, Step, PollFind, PollSeen, PollSlow, PollMark, PollDenied, PollPending, PollActive,
      PollRemove, PollScopes, PollSubject

\* What a request that is served does to the polls.
LEMMA ServedMoves ==
    ASSUME TypeInv, TypeInv', NEW r \in Requests, Served(r)
    PROVE  /\ Alone(r)
           /\ ctx'[r] \in PollContext => GoesOn(r)
           /\ ctx[r] \in PollContext => ctx'[r] \in PollContext \/ AnswerPoll(r)
<1>1. CASE pc[r] \in {"poll_find"} \cup FoundSteps
  <2>1. Step(r)
    BY <1>1 DEF Served, Start, Show, Begin, FoundSteps, SubjectSteps, AcceptedSteps
  <2>2. CASE AnswerPoll(r)
    <3>1. Alone(r) /\ ctx'[r] = None
      BY <2>2, Answered DEF AnswerPoll
    <3> QED
      BY <2>2, <3>1, NoneAssumption
  <2>3. CASE GoesOn(r) /\ Alone(r)
    <3>1. ctx'[r] \in PollContext
      BY <2>3, PollLocalsThen DEF GoesOn, PollLocals
    <3> QED
      BY <2>3, <3>1
  <2> QED
    BY <1>1, <2>1, <2>2, <2>3, PollMovesOn
<1>2. CASE pc[r] \notin {"poll_find"} \cup FoundSteps
  BY <1>2, PageMovesOn, PollLocalsHold, PollLocalsThen DEF PollLocals
<1> QED
  BY <1>1, <1>2

\* The clocks of a device are set by its polls only.
LEMMA OnlyPollsSetClocks ==
    ASSUME TypeInv, NEW r \in Requests, Served(r), NEW d \in DeviceCodes, ~ Polling(r, d)
    PROVE  seen'[d] = seen[d] /\ quiet'[d] = quiet[d] /\ passed'[d] = passed[d]
<1>1. CASE pc[r] \notin {"poll_find"} \cup FoundSteps
  BY <1>1, PageMovesOn
<1>2. CASE pc[r] \in {"poll_find"} \cup FoundSteps
  <2>1. ctx[r].device # d
    BY <1>2, PollLocalsHold DEF Polling, PollLocals
  <2>2. DOMAIN seen = DeviceCodes /\ DOMAIN quiet = DeviceCodes /\ DOMAIN passed = DeviceCodes
    BY DEF TypeInv, TypeOK
  <2>3. AnswerPoll(r) => quiet'[d] = quiet[d]
    BY <2>1, <2>2 DEF AnswerPoll
  <2>4. seen' = [seen EXCEPT ![ctx[r].device] = 0] => seen'[d] = seen[d]
    BY <2>1, <2>2
  <2>5. passed' = [passed EXCEPT ![ctx[r].device] = 0] => passed'[d] = passed[d]
    BY <2>1, <2>2
  <2>6. pc[r] \notin {"idle", "start_find", "start_store", "consent", "handle", "set_authorized",
                      "set_subject", "set_scopes", "update"}
    BY <1>2 DEF FoundSteps, SubjectSteps, AcceptedSteps
  <2>7. Step(r)
    BY <2>6 DEF Served, Start, Show, Begin
  <2>8. \/ PollFind(r) \/ PollSeen(r) \/ PollSlow(r) \/ PollMark(r) \/ PollDenied(r)
        \/ PollPending(r) \/ PollActive(r) \/ PollRemove(r) \/ PollScopes(r) \/ PollSubject(r)
    BY <2>6, <2>7
    DEF Step, StartFind, StartStore, Consent, Handle, SetAuthorized, SetSubject, SetScopes, Update
  <2>9. CASE PollFind(r) \/ PollPending(r) \/ PollScopes(r)
    BY <2>3, <2>9 DEF PollFind, PollPending, PollScopes
  <2>10. CASE PollSeen(r)
    BY <2>5, <2>10 DEF PollSeen
  <2>11. CASE PollSlow(r)
    BY <2>3, <2>4, <2>11 DEF PollSlow
  <2>12. CASE PollMark(r)
    BY <2>3, <2>4, <2>12 DEF PollMark
  <2>13. CASE PollDenied(r) \/ PollActive(r) \/ PollRemove(r) \/ PollSubject(r)
    BY <2>3, <2>13 DEF PollDenied, PollActive, PollRemove, PollSubject
  <2> QED
    BY <2>8, <2>9, <2>10, <2>11, <2>12, <2>13
<1> QED
  BY <1>1, <1>2

\* The clocks a tick moves.
LEMMA TickMoves ==
    ASSUME TypeInv, Tick, NEW d \in DeviceCodes
    PROVE  /\ seen[d] \in 0..Interval /\ quiet[d] \in 0..Interval /\ passed[d] \in 0..Interval
           /\ seen[d] = Interval => seen'[d] = Interval
           /\ quiet[d] <= seen[d] => quiet'[d] <= seen'[d]
           /\ Interval <= Lifetime /\ seen[d] <= passed[d] => seen'[d] <= passed'[d]
<1>1. /\ seen[d] \in 0..Interval /\ quiet[d] \in 0..Interval /\ passed[d] \in 0..Interval
      /\ Interval \in Nat /\ Lifetime \in Nat
  BY DeviceFlowAssumption DEF TypeInv, TypeOK
<1>2. /\ seen'[d] = IF Older(seen[d], Interval) > Lifetime THEN Interval
                    ELSE Older(seen[d], Interval)
      /\ quiet'[d] = Older(quiet[d], Interval)
      /\ passed'[d] = Older(passed[d], Interval)
  BY DEF Tick
<1> QED
  BY <1>1, <1>2 DEF Older

-----------------------------------------------------------------------------
(***************************************************************************)
(* Removed codes.                                                          *)
(***************************************************************************)
LEMMA EntriesTyped ==
    ASSUME TypeInv
    PROVE  /\ repository \in Seq(Entry) /\ DOMAIN repository = 1..Len(repository)
           /\ \A i \in DOMAIN repository : repository[i].device \in DeviceCodes
<1>1. repository \in Seq(Entry)
  BY DEF TypeInv, TypeOK
<1>2. DOMAIN repository = 1..Len(repository) /\ \A i \in DOMAIN repository : repository[i] \in Entry
  BY <1>1
<1> QED
  BY <1>1, <1>2 DEF Entry

\* Removed codes stay out of the store while it takes no device code but one whose
\* object is made, and codes are removed with their entries.
LEMMA GoneKept ==
    ASSUME TypeInv, RemovedGone, ObjectsGrow,
           \A i \in DOMAIN repository' :
              \/ \E j \in DOMAIN repository : repository'[i].device = repository[j].device
              \/ object[repository'[i].device] = None,
           \A d \in removed' \ removed :
              /\ d \in DeviceCodes /\ object[d] # None
              /\ \A i \in DOMAIN repository' : repository'[i].device # d
    PROVE  RemovedGone'
<1>1. removed \subseteq DeviceCodes
  BY DEF TypeInv, TypeOK
<1>2. \A d \in removed : object'[d] # None /\ \A i \in DOMAIN repository' : repository'[i].device # d
  BY <1>1 DEF RemovedGone, ObjectsGrow
<1>3. \A d \in removed' \ removed : object'[d] # None
  BY DEF ObjectsGrow
<1> QED
  BY <1>2, <1>3 DEF RemovedGone

\* No step writes the store but these.
LEMMA StoreWriters ==
    ASSUME TypeInv, NEW r \in Requests, Served(r)
    PROVE  \/ \E d \in DeviceCodes : StartStore(r, d)
           \/ Update(r) \/ PollRemove(r)
           \/ UNCHANGED <<repository, removed>>
BY DEF Served, Start, Show, Step, StartFind, Consent, Handle, SetAuthorized, SetSubject, SetScopes,
   PollFind, PollSeen, PollSlow, PollMark, PollDenied, PollPending, PollActive, PollScopes,
   PollSubject, history, outcome

LEMMA ServedObjects ==
    ASSUME TypeInv, NEW r \in Requests, Served(r)
    PROVE  ObjectsGrow
<1>1. \/ \E d \in DeviceCodes : StartStore(r, d)
      \/ SetAuthorized(r) \/ SetSubject(r) \/ SetScopes(r)
      \/ UNCHANGED object
  BY DEF Served, Start, Show, Step, StartFind, Consent, Handle, Update,
     PollFind, PollSeen, PollSlow, PollMark, PollDenied, PollPending, PollActive, PollRemove,
     PollScopes, PollSubject
<1>2. UNCHANGED object => ObjectsGrow
  BY DEF ObjectsGrow
<1> QED
  BY <1>1, <1>2, StartStoreType, SetAuthorizedType, SetSubjectType, SetScopesType

LEMMA ServedGone ==
    ASSUME TypeInv, RemovedGone, NEW r \in Requests, Served(r)
    PROVE  RemovedGone'
<1>0. ObjectsGrow
  BY ServedObjects
<1>1. ASSUME NEW d \in DeviceCodes, StartStore(r, d) PROVE RemovedGone'
  <2> DEFINE e == [device |-> d, user |-> ctx[r].code, data |-> d]
  <2>1. repository' = Append(repository, e) /\ object[d] = None /\ UNCHANGED removed
    BY <1>1 DEF StartStore, history, outcome
  <2>2. e.device = d
    OBVIOUS
  <2> HIDE DEF e
  <2>3. \A i \in DOMAIN repository' :
           (i \in DOMAIN repository /\ repository'[i] = repository[i]) \/ repository'[i] = e
    BY <2>1, EntriesTyped
  <2>4. \A i \in DOMAIN repository' :
           \/ \E j \in DOMAIN repository : repository'[i].device = repository[j].device
           \/ object[repository'[i].device] = None
    BY <2>1, <2>2, <2>3
  <2> QED
    BY <1>0, <2>1, <2>4, GoneKept
<1>2. CASE Update(r)
  <2> DEFINE I == ByUserCode(ctx[r].code)
  <2>1. UNCHANGED removed
    BY <1>2 DEF Update, history, outcome
  <2>2. \A i \in DOMAIN repository' :
           \E j \in DOMAIN repository : repository'[i].device = repository[j].device
    <3>1. CASE I = {}
      BY <1>2, <3>1 DEF Update
    <3>2. CASE I # {}
      <4>1. PICK f \in 1..Len(repository) : f = First(I)
        BY <3>2, FoundEntry DEF TypeInv
      <4>2. repository' = [repository EXCEPT ![f].data = ctx[r].object]
        BY <1>2, <3>2, <4>1 DEF Update
      <4>3. /\ DOMAIN repository' = DOMAIN repository
            /\ repository'[f] = [repository[f] EXCEPT !.data = ctx[r].object]
            /\ \A i \in DOMAIN repository \ {f} : repository'[i] = repository[i]
        BY <4>2, EntriesTyped
      <4>4. repository[f] \in Entry
        BY EntriesTyped
      <4>5. repository'[f].device = repository[f].device
        BY <4>3, <4>4 DEF Entry
      <4> QED
        BY <4>3, <4>5
    <3> QED
      BY <3>1, <3>2
  <2> QED
    BY <1>0, <2>1, <2>2, GoneKept
<1>3. CASE PollRemove(r)
  <2>1. removed' = removed \cup {ctx[r].device}
    BY <1>3 DEF PollRemove
  <2>2. ctx[r].device \in DeviceCodes /\ object[ctx[r].device] # None
    BY <1>3, PollGoes DEF PollRemove, FoundSteps, SubjectSteps, AcceptedSteps
  <2>3. \A i \in DOMAIN repository' : /\ repository'[i].device # ctx[r].device
                                      /\ \E j \in DOMAIN repository : repository'[i] = repository[j]
    BY <1>3, RemovedEntry
  <2> QED
    BY <1>0, <2>1, <2>2, <2>3, GoneKept
<1>4. CASE UNCHANGED <<repository, removed>>
  BY <1>0, <1>4, GoneKept
<1> QED
  BY <1>1, <1>2, <1>3, <1>4, StoreWriters

LEMMA ServedLate ==
    ASSUME RemovedInv, TypeInv', NEW r \in Requests, Served(r), NEW q \in Requests
    PROVE  Late(q)'
<1>1. TypeInv /\ Late(q) /\ removed \subseteq removed'
  <2>1. removed \subseteq removed'
    BY StoreWriters DEF RemovedInv, StartStore, Update, PollRemove, history, outcome
  <2> QED
    BY <2>1 DEF RemovedInv
<1>2. CASE q # r
  BY <1>1, <1>2, ServedMoves DEF Alone, Late
<1>3. CASE q = r
  <2> SUFFICES ASSUME ctx'[r] \in PollContext, ctx'[r].late PROVE FALSE
    BY <1>3 DEF Late
  <2>1. GoesOn(r)
    BY <1>1, ServedMoves
  <2>2. pc[r] = "poll_find" /\ ctx[r].device \in removed
    BY <1>1, <1>3, <2>1 DEF Late, GoesOn
  <2>3. ByDeviceCode(ctx[r].device) = {}
    BY <2>2 DEF RemovedInv, RemovedGone, ByDeviceCode
  <2> QED
    BY <2>1, <2>2, <2>3 DEF GoesOn, Found
<1> QED
  BY <1>2, <1>3

LEMMA PollLate ==
    ASSUME RemovedInv, NEW r \in Requests, NEW c \in Clients, NEW d \in DeviceCodes, Poll(r, c, d)
    PROVE  RemovedGone' /\ \A q \in Requests : Late(q)'
<1>1. TypeInv /\ UNCHANGED <<repository, object, removed>>
  BY DEF RemovedInv, Poll, history, outcome
<1>2. RemovedGone'
  BY <1>1 DEF RemovedInv, RemovedGone
<1>3. Late(r)'
  BY <1>1, PollArrives DEF Late
<1>4. ASSUME NEW q \in Requests \ {r} PROVE Late(q)'
  <2>1. Late(q) /\ NoLongerPolite(q) /\ pc'[q] = pc[q]
    BY <1>1, PollArrives DEF RemovedInv
  <2>2. /\ ctx'[q] \in PollContext => ctx[q] \in PollContext
        /\ ctx'[q].late = ctx[q].late /\ ctx'[q].device = ctx[q].device
    BY <2>1 DEF NoLongerPolite, PollContext
  <2> QED
    BY <1>1, <2>1, <2>2 DEF Late
<1> QED
  BY <1>2, <1>3, <1>4

LEMMA RemovedInductive == RemovedInv /\ [Next]_vars => RemovedInv'
<1> SUFFICES ASSUME RemovedInv, [Next]_vars PROVE RemovedInv'
  OBVIOUS
<1>1. TypeInv /\ TypeInv'
  BY TypeInductive DEF RemovedInv
<1>2. CASE Tick \/ (\E u \in Users : SetActive(u)) \/ UNCHANGED vars
  <2>1. UNCHANGED <<repository, object, removed, pc, ctx>>
    BY <1>2 DEF Tick, SetActive, vars, history, outcome
  <2> QED
    BY <1>1, <2>1 DEF RemovedInv, RemovedGone, Late
<1>3. ASSUME NEW r \in Requests, Served(r) PROVE RemovedInv'
  BY <1>1, <1>3, ServedGone, ServedLate DEF RemovedInv
<1>4. ASSUME NEW r \in Requests, NEW c \in Clients, NEW d \in DeviceCodes, Poll(r, c, d)
      PROVE  RemovedInv'
  BY <1>1, <1>4, PollLate DEF RemovedInv
<1> QED
  BY <1>2, <1>3, <1>4 DEF Next, Arrival, Served

\* A poll that comes after its code was removed is never accepted: an approval that
\* is still in flight does not bring the code back (RemoveByDeviceCodeAsync,
\* UpdateByUserCodeAsync).
THEOREM RemovedForGood == Spec => []RemovedStaysRemoved
<1>1. Init => RemovedInv
  <2>1. Init => \A r \in Requests : Late(r)
    BY NoneAssumption DEF Init, Late
  <2> QED
    BY <2>1, TypeInvInit DEF Init, RemovedInv, RemovedGone
<1>2. RemovedInv => RemovedStaysRemoved
  BY DEF RemovedInv, Late, RemovedStaysRemoved, AcceptedSteps
<1> QED
  BY <1>1, <1>2, RemovedInductive, PTL DEF Spec

-----------------------------------------------------------------------------
(***************************************************************************)
(* Throttling.                                                             *)
(***************************************************************************)
\* No request starts to poll for a device but by Poll.
LEMMA NoNewPolls ==
    ASSUME TypeInv, TypeInv', NEW r \in Requests, Served(r), NEW q \in Requests, NEW d \in DeviceCodes,
           Polling(q, d)'
    PROVE  Polling(q, d)
BY ServedMoves DEF Polling, Alone, GoesOn

LEMMA ServedPolite ==
    ASSUME PoliteInv, TypeInv', NEW r \in Requests, Served(r), NEW q \in Requests
    PROVE  Polite(q)'
<1>1. TypeInv /\ Polite(q)
  BY DEF PoliteInv
<1> SUFFICES ASSUME ctx'[q] \in PollContext, ctx'[q].polite PROVE Polite(q)'
  BY DEF Polite
<1>2. CASE q = r
  <2>1. GoesOn(r) /\ Alone(r)
    BY <1>1, <1>2, ServedMoves
  <2>2. /\ ctx[q] \in PollContext /\ ctx[q].polite
        /\ ctx'[q].device = ctx[q].device /\ pc'[q] # "poll_find"
    BY <1>2, <2>1 DEF GoesOn, FoundSteps, SubjectSteps, AcceptedSteps
  <2>3. PICK d \in DeviceCodes : d = ctx[q].device
    BY <2>2 DEF PollContext
  <2>4. /\ \A p \in Requests \ {q} : ~ Polling(p, d)
        /\ pc[q] \in {"poll_find", "poll_seen"} => seen[d] = Interval
    BY <1>1, <2>2, <2>3 DEF Polite
  <2>5. \A p \in Requests \ {q} : ~ Polling(p, d)'
    BY <1>1, <2>4, NoNewPolls
  <2>6. pc'[q] = "poll_seen" => seen'[d] = Interval
    BY <1>2, <2>1, <2>4 DEF GoesOn
  <2>7. pc'[q] # "poll_slow"
    BY <1>2, <2>1, <2>3, <2>4, DeviceFlowAssumption DEF GoesOn, TooFast
  <2> QED
    BY <2>2, <2>3, <2>5, <2>6, <2>7 DEF Polite
<1>3. CASE q # r
  <2>1. ctx'[q] = ctx[q] /\ pc'[q] = pc[q] /\ ctx[q] \in PollContext /\ ctx[q].polite
    BY <1>1, <1>3, ServedMoves DEF Alone
  <2>2. PICK d \in DeviceCodes : d = ctx[q].device
    BY <2>1 DEF PollContext
  <2>3. \A p \in Requests \ {q} : ~ Polling(p, d)
    BY <1>1, <2>1, <2>2 DEF Polite
  <2>4. \A p \in Requests \ {q} : ~ Polling(p, d)'
    BY <1>1, <2>3, NoNewPolls
  <2>5. seen'[d] = seen[d]
    BY <1>1, <1>3, <2>3, OnlyPollsSetClocks
  <2> QED
    BY <1>1, <2>1, <2>2, <2>4, <2>5 DEF Polite, Polling
<1> QED
  BY <1>2, <1>3

LEMMA ServedQuiet ==
    ASSUME PoliteInv, TypeInv', NEW r \in Requests, Served(r), NEW d \in DeviceCodes
    PROVE  Quiet(d)'
<1>1. TypeInv /\ Quiet(d)
  BY DEF PoliteInv
<1>2. CASE Polling(r, d) /\ ctx'[r] \in PollContext
  <2>1. Polling(r, d)'
    BY <1>1, <1>2, ServedMoves DEF GoesOn, Polling
  <2> QED
    BY <2>1 DEF Quiet
<1>3. CASE Polling(r, d) /\ ctx'[r] \notin PollContext
  <2>1. quiet' = [quiet EXCEPT ![d] = 0]
    BY <1>1, <1>3, ServedMoves DEF AnswerPoll, Polling
  <2>2. quiet'[d] = 0
    BY <1>1, <2>1 DEF TypeInv, TypeOK
  <2>3. seen'[d] >= 0
    BY DEF TypeInv, TypeOK
  <2> QED
    BY <2>2, <2>3 DEF Quiet
<1>4. CASE ~ Polling(r, d)
  <2>1. seen'[d] = seen[d] /\ quiet'[d] = quiet[d]
    BY <1>1, <1>4, OnlyPollsSetClocks
  <2>2. \A q \in Requests : Polling(q, d) => Polling(q, d)'
    BY <1>1, <1>4, ServedMoves DEF Alone, Polling
  <2> QED
    BY <1>1, <2>1, <2>2 DEF Quiet
<1> QED
  BY <1>2, <1>3, <1>4

LEMMA PollPolite ==
    ASSUME PoliteInv, NEW r \in Requests, NEW c \in Clients, NEW d \in DeviceCodes, Poll(r, c, d)
    PROVE  (\A q \in Requests : Polite(q)') /\ (\A e \in DeviceCodes : Quiet(e)')
<1>1. /\ TypeInv /\ UNCHANGED <<seen, quiet>> /\ pc[r] = "idle"
      /\ ctx[r] \notin PollContext
  <2>1. TypeInv /\ UNCHANGED <<seen, quiet>> /\ pc[r] = "idle"
    BY DEF PoliteInv, Poll, history
  <2> QED
    BY <2>1, PollLocalsHold DEF PollLocals, FoundSteps, SubjectSteps, AcceptedSteps
<1>2. \A q \in Requests \ {r} : /\ pc'[q] = pc[q] /\ NoLongerPolite(q)
                                /\ ctx'[q] \in PollContext <=> ctx[q] \in PollContext
                                /\ ctx'[q].device = ctx[q].device
  <2>1. \A q \in Requests \ {r} : pc'[q] = pc[q] /\ NoLongerPolite(q)
    BY <1>1, PollArrives
  <2> QED
    BY <2>1 DEF NoLongerPolite, PollContext
<1>3. \A q \in Requests \ {r}, e \in DeviceCodes : Polling(q, e)' <=> Polling(q, e)
  BY <1>2 DEF Polling
<1>4. Polite(r)'
  <2> SUFFICES ASSUME ctx'[r].polite
               PROVE  /\ \A p \in Requests \ {r} : ~ Polling(p, d)'
                      /\ seen'[d] = Interval
    <3>1. ctx'[r].device = d /\ pc'[r] = "poll_find"
      BY <1>1, PollArrives
    <3> QED
      BY <3>1 DEF Polite, Polling
  <2>1. quiet[d] = Interval /\ \A p \in Requests : ~ Polling(p, d)
    BY <1>1, PollArrives
  <2>2. seen[d] \in 0..Interval /\ quiet[d] <= seen[d] /\ Interval \in Nat
    BY <1>1, <2>1, DeviceFlowAssumption DEF PoliteInv, Quiet, TypeInv, TypeOK
  <2> QED
    BY <1>1, <1>3, <2>1, <2>2
<1>5. ASSUME NEW q \in Requests \ {r} PROVE Polite(q)'
  <2> SUFFICES ASSUME ctx'[q] \in PollContext, ctx'[q].polite PROVE Polite(q)'
    BY DEF Polite
  <2>1. ctx[q] \in PollContext /\ ~ Polling(q, d) /\ ctx'[q] = ctx[q]
    <3>1. ctx[q] \in PollContext
      BY <1>2
    <3>2. ctx'[q] # [ctx[q] EXCEPT !.polite = FALSE]
      BY <3>1 DEF PollContext
    <3> QED
      BY <1>1, <1>2, <3>1, <3>2, PollArrives DEF NoLongerPolite
  <2>2. PICK e \in DeviceCodes : e = ctx[q].device
    BY <2>1 DEF PollContext
  <2>3. e # d /\ \A p \in Requests \ {q} : ~ Polling(p, e)
    BY <2>1, <2>2 DEF Polling, PoliteInv, Polite
  <2>4. \A p \in Requests \ {q} : ~ Polling(p, e)'
    <3>1. ~ Polling(r, e)'
      BY <1>1, <2>3, PollArrives DEF Polling
    <3> QED
      BY <1>3, <2>3, <3>1
  <2>5. pc'[q] = pc[q] /\ Polite(q)
    BY <1>2 DEF PoliteInv
  <2> QED
    BY <1>1, <2>1, <2>2, <2>4, <2>5 DEF Polite, Polling
<1>6. ASSUME NEW e \in DeviceCodes PROVE Quiet(e)'
  <2>1. Quiet(e) /\ ~ Polling(r, e)
    BY <1>1 DEF PoliteInv, Polling
  <2> QED
    BY <1>1, <1>3, <2>1 DEF Quiet
<1> QED
  BY <1>4, <1>5, <1>6

LEMMA PoliteInductive == PoliteInv /\ [Next]_vars => PoliteInv'
<1> SUFFICES ASSUME PoliteInv, [Next]_vars PROVE PoliteInv'
  OBVIOUS
<1>1. TypeInv /\ TypeInv'
  BY TypeInductive DEF PoliteInv
<1>2. CASE Tick
  <2>1. UNCHANGED <<pc, ctx>>
    BY <1>2 DEF Tick
  <2>2. ASSUME NEW q \in Requests PROVE Polite(q)'
    <3>1. Polite(q) /\ (ctx[q] \in PollContext => ctx[q].device \in DeviceCodes)
      BY DEF PoliteInv, PollContext
    <3>2. \A d \in DeviceCodes : seen[d] = Interval => seen'[d] = Interval
      BY <1>1, <1>2, TickMoves
    <3> QED
      BY <2>1, <3>1, <3>2 DEF Polite, Polling
  <2>3. ASSUME NEW d \in DeviceCodes PROVE Quiet(d)'
    BY <1>1, <1>2, <2>1, TickMoves DEF PoliteInv, Quiet, Polling
  <2> QED
    BY <1>1, <2>2, <2>3 DEF PoliteInv
<1>3. CASE (\E u \in Users : SetActive(u)) \/ UNCHANGED vars
  <2>1. UNCHANGED <<pc, ctx, seen, quiet>>
    BY <1>3 DEF SetActive, vars, history
  <2> QED
    BY <1>1, <2>1 DEF PoliteInv, Polite, Quiet, Polling
<1>4. ASSUME NEW r \in Requests, Served(r) PROVE PoliteInv'
  BY <1>1, <1>4, ServedPolite, ServedQuiet DEF PoliteInv
<1>5. ASSUME NEW r \in Requests, NEW c \in Clients, NEW d \in DeviceCodes, Poll(r, c, d)
      PROVE  PoliteInv'
  BY <1>1, <1>5, PollPolite DEF PoliteInv
<1> QED
  BY <1>2, <1>3, <1>4, <1>5 DEF Next, Arrival, Served

\* A poll that comes an Interval after the last answer its device got, and alone, is
\* never told to slow down (DistributedDeviceFlowThrottlingService).
THEOREM PoliteArePolled == Spec => []PoliteNeverSlowed
<1>1. Init => PoliteInv
  <2>1. Init => \A r \in Requests : ctx[r] \notin PollContext
    BY NoneAssumption DEF Init
  <2>2. Init => \A d \in DeviceCodes : quiet[d] <= seen[d]
    BY DeviceFlowAssumption DEF Init
  <2> QED
    BY <2>1, <2>2, TypeInvInit DEF PoliteInv, Polite, Quiet
<1>2. PoliteInv => PoliteNeverSlowed
  BY PollLocalsHold DEF PoliteInv, Polite, PoliteNeverSlowed, PollLocals, FoundSteps
<1> QED
  BY <1>1, <1>2, PoliteInductive, PTL DEF Spec

\* A poll stops marking itself by recording itself.
LEMMA ServedSpaced ==
    ASSUME SpacedInv, TypeInv', NEW r \in Requests, Served(r), NEW d \in DeviceCodes
    PROVE  Spaced(d)'
<1>1. TypeInv /\ Spaced(d) /\ Alone(r)
  BY ServedMoves DEF SpacedInv
<1>2. \A q \in Requests \ {r} : Marking(q, d) => Marking(q, d)'
  BY <1>1 DEF Alone, Marking
<1>3. /\ DOMAIN seen = DeviceCodes /\ DOMAIN passed = DeviceCodes
      /\ passed'[d] >= 0
  BY <1>1 DEF TypeInv, TypeOK
<1>4. CASE PollSlow(r) \/ PollMark(r)
  <2>1. seen' = [seen EXCEPT ![ctx[r].device] = 0] /\ UNCHANGED passed
    BY <1>4 DEF PollSlow, PollMark
  <2>2. CASE ctx[r].device = d
    BY <1>3, <2>1, <2>2 DEF Spaced
  <2>3. CASE ctx[r].device # d
    <3>1. seen'[d] = seen[d] /\ passed'[d] = passed[d] /\ ~ Marking(r, d)
      BY <1>3, <2>1, <2>3 DEF Marking
    <3> QED
      BY <1>1, <1>2, <3>1 DEF Spaced
  <2> QED
    BY <2>2, <2>3
<1>5. CASE PollSeen(r)
  <2>1. UNCHANGED <<seen, ctx>> /\ pc[r] = "poll_seen"
    BY <1>5 DEF PollSeen
  <2>2. CASE UNCHANGED passed \/ ctx[r].device # d
    <3>1. passed'[d] = passed[d]
      BY <1>3, <1>5, <2>2 DEF PollSeen
    <3> QED
      BY <1>1, <1>2, <2>1, <3>1 DEF Spaced, Marking
  <2>3. CASE ~ TooFast(ctx[r].device) /\ ctx[r].device = d
    <3>1. pc'[r] = "poll_mark" /\ ctx'[r].device = d
      BY <1>1, <1>5, <2>1, <2>3, Went DEF PollSeen
    <3> QED
      BY <3>1 DEF Spaced, Marking
  <2> QED
    BY <1>5, <2>2, <2>3 DEF PollSeen
<1>6. CASE ~ (PollSlow(r) \/ PollMark(r) \/ PollSeen(r))
  <2>1. UNCHANGED <<seen, passed>> /\ pc[r] # "poll_mark"
    BY <1>6 DEF Served, Start, Show, Begin, Step, StartFind, StartStore, Consent, Handle, Update,
       SetAuthorized, SetSubject, SetScopes, PollFind, PollDenied, PollPending, PollActive,
       PollRemove, PollScopes, PollSubject, history
  <2> QED
    BY <1>1, <1>2, <2>1 DEF Spaced, Marking
<1> QED
  BY <1>4, <1>5, <1>6

LEMMA PollSpaced ==
    ASSUME SpacedInv, NEW r \in Requests, NEW c \in Clients, NEW e \in DeviceCodes, Poll(r, c, e),
           NEW d \in DeviceCodes
    PROVE  Spaced(d)'
<1>1. TypeInv /\ Spaced(d) /\ UNCHANGED <<seen, passed>> /\ pc[r] = "idle"
  BY DEF SpacedInv, Poll, history
<1>2. \A q \in Requests \ {r} : pc'[q] = pc[q] /\ NoLongerPolite(q)
  BY <1>1, PollArrives
<1>3. \A q \in Requests \ {r} : ctx'[q].device = ctx[q].device
  BY <1>2 DEF NoLongerPolite, PollContext
<1>4. \A q \in Requests : Marking(q, d) => Marking(q, d)'
  BY <1>1, <1>2, <1>3 DEF Marking
<1> QED
  BY <1>1, <1>4 DEF Spaced

LEMMA SpacedInductive ==
    ASSUME Interval <= Lifetime
    PROVE  SpacedInv /\ [Next]_vars => SpacedInv'
<1> SUFFICES ASSUME SpacedInv, [Next]_vars PROVE SpacedInv'
  OBVIOUS
<1>1. TypeInv /\ TypeInv'
  BY TypeInductive DEF SpacedInv
<1>2. CASE Tick
  <2>1. UNCHANGED <<pc, ctx>>
    BY <1>2 DEF Tick
  <2> QED
    BY <1>1, <1>2, <2>1, TickMoves DEF SpacedInv, Spaced, Marking
<1>3. CASE (\E u \in Users : SetActive(u)) \/ UNCHANGED vars
  <2>1. UNCHANGED <<pc, ctx, seen, passed>>
    BY <1>3 DEF SetActive, vars, history
  <2> QED
    BY <1>1, <2>1 DEF SpacedInv, Spaced, Marking
<1>4. ASSUME NEW r \in Requests, Served(r) PROVE SpacedInv'
  BY <1>1, <1>4, ServedSpaced DEF SpacedInv
<1>5. ASSUME NEW r \in Requests, NEW c \in Clients, NEW d \in DeviceCodes, Poll(r, c, d)
      PROVE  SpacedInv'
  BY <1>1, <1>5, PollSpaced DEF SpacedInv
<1> QED
  BY <1>2, <1>3, <1>4, <1>5 DEF Next, Arrival, Served

\* Only PollSeen takes a poll past the throttling.
LEMMA PassingPolls ==
    ASSUME SpacedInv, [Next]_vars, NEW r \in Requests, pc[r] = "poll_seen", pc'[r] = "poll_mark"
    PROVE  \/ passed[ctx[r].device] = Interval
           \/ \E q \in Requests \ {r} : pc[q] = "poll_mark" /\ ctx[q].device = ctx[r].device
<1>1. TypeInv /\ TypeInv'
  BY TypeInductive DEF SpacedInv
<1>2. ~ (Tick \/ (\E u \in Users : SetActive(u)) \/ UNCHANGED vars)
  BY DEF Tick, SetActive, vars
<1>3. \A q \in Requests, c \in Clients, d \in DeviceCodes : Poll(q, c, d) => pc'[r] # "poll_mark"
  BY <1>1, PollArrives
<1>4. PICK q \in Requests : Served(q)
  BY <1>2, <1>3 DEF Next, Arrival, Served
<1>5. q = r
  BY <1>1, <1>4, ServedMoves DEF Alone
<1>6. PollSeen(r)
  BY <1>4, <1>5 DEF Served, Start, Show, Begin, Step, StartFind, StartStore, Consent, Handle, Update,
     SetAuthorized, SetSubject, SetScopes, PollFind, PollSlow, PollMark, PollDenied, PollPending,
     PollActive, PollRemove, PollScopes, PollSubject
<1>7. PICK d \in DeviceCodes : d = ctx[r].device
  BY <1>1, PollGoes DEF FoundSteps
<1>8. ~ TooFast(d)
  <2>1. TooFast(d) => pc'[r] = "poll_slow"
    BY <1>1, <1>6, <1>7, Went DEF PollSeen
  <2> QED
    BY <2>1
<1>9. seen[d] \in 0..Interval /\ passed[d] \in 0..Interval /\ Interval \in Nat
  BY <1>1, DeviceFlowAssumption DEF TypeInv, TypeOK
<1>10. seen[d] <= passed[d] => passed[d] = Interval
  BY <1>8, <1>9 DEF TooFast
<1>11. Spaced(d)
  BY DEF SpacedInv
<1> QED
  BY <1>7, <1>10, <1>11 DEF Spaced, Marking

\* Within one Interval a second poll of a code passes the throttling only while an
\* earlier one is between reading the cache and recording itself
\* (DistributedDeviceFlowThrottlingService); for an interval that is no longer than
\* the code's lifetime, with which its cache entry expires.
THEOREM PollsAreSpaced ==
    ASSUME Interval <= Lifetime
    PROVE  Spec => SpacedUnlessConcurrent
<1>1. Init => SpacedInv
  <2>1. Init => \A d \in DeviceCodes : seen[d] <= passed[d]
    BY DeviceFlowAssumption DEF Init
  <2> QED
    BY <2>1, TypeInvInit DEF SpacedInv, Spaced
<1>2. SpacedInv /\ [Next]_vars => SpacedInv'
  BY SpacedInductive
<1>3. SpacedInv /\ [Next]_vars =>
         [\A r \in Requests :
             pc[r] = "poll_seen" /\ pc'[r] = "poll_mark" =>
                 \/ passed[ctx[r].device] = Interval
                 \/ \E q \in Requests \ {r} :
                       pc[q] = "poll_mark" /\ ctx[q].device = ctx[r].device]_vars
  BY PassingPolls
<1> QED
  BY <1>1, <1>2, <1>3, PTL DEF Spec, SpacedUnlessConcurrent

=============================================================================
