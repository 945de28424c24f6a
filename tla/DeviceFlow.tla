----------------------------- MODULE DeviceFlow -----------------------------
(***************************************************************************)
(* The device flow: a device asks for a device code and a user code, a     *)
(* user types the user code into the browser and consents or refuses, and  *)
(* the device polls the token endpoint until it is answered.               *)
(*                                                                         *)
(* The in-memory store hands out the DeviceCode object it holds, not a     *)
(* copy.  The browser writes that object field by field while polls read   *)
(* it, so one action here is one awaited call or one access to the object. *)
(***************************************************************************)
EXTENDS Integers, Sequences, SequencesExt

CONSTANTS
    DeviceCodes, UserCodes, Clients, Users,
    Consents,    \* the sets of scopes a user may consent to
    Requests,    \* requests the host serves at the same time
    Arrivals,    \* the kinds of request that arrive: their first steps
    Interval,    \* DeviceFlowOptions.Interval
    Lifetime,    \* Client.DeviceCodeLifetime
    RetryLimit,  \* NumericUserCodeGenerator.RetryLimit
    None

ASSUME DeviceFlowAssumption ==
    /\ Interval \in Nat /\ Lifetime \in Nat /\ RetryLimit \in Nat
    /\ Arrivals \subseteq {"start_find", "show", "poll_find"}
    /\ None \notin Clients \cup Users \cup DeviceCodes \cup UserCodes \cup Consents

VARIABLES
    repository, \* the store: a list of entries
    object,     \* the DeviceCode objects, each named after its device code
    age,        \* seconds since an object was created, up to Lifetime + 1
    seen,       \* throttling cache: seconds since the last poll, up to Interval
    active,     \* users the profile service reports as active
    pc, ctx,    \* per request: its next step, its locals
    decisions,  \* history: what users decided about an object
    issued,     \* history: the tokens that were issued
    removed,    \* history: the device codes that were removed
    quiet,      \* history: seconds since a device was answered, up to Interval
    passed      \* history: seconds since a poll got past the throttling

outcome == <<decisions, issued, removed>>
history == <<outcome, quiet, passed>>
vars == <<repository, object, age, seen, active, pc, ctx, history>>

DeviceCode ==
    [client : Clients, authorized : BOOLEAN, subject : Users \cup {None},
     scopes : Consents \cup {None}]

Entry == [device : DeviceCodes, user : UserCodes, data : DeviceCodes]

Token == [client : Clients, object : DeviceCodes, user : Users \cup {None},
          scopes : Consents]

StartContext == [client : Clients, code : UserCodes \cup {None}, tries : Nat]

ConsentContext ==
    [code : UserCodes, user : Users, scopes : Consents \cup {None},
     object : DeviceCodes \cup {None}]

PollContext ==
    [client : Clients, device : DeviceCodes, object : DeviceCodes \cup {None},
     late : BOOLEAN,      \* history: the code was removed when the poll came
     polite : BOOLEAN,    \* history: it came an Interval after the last answer, and alone
     subject : Users \cup {None}, scopes : Consents \cup {None}]

ASSUME NoneAssumption ==
    None \notin DeviceCode \cup StartContext \cup ConsentContext \cup PollContext

\* Steps of a poll whose device code was accepted.
AcceptedSteps == {"poll_remove", "poll_scopes", "poll_subject"}

Steps ==
    AcceptedSteps \cup
    {"idle", "start_find", "start_store", "consent", "handle",
     "set_authorized", "set_subject", "set_scopes", "update",
     "poll_find", "poll_seen", "poll_mark", "poll_slow", "poll_denied",
     "poll_pending", "poll_active"}

TypeOK ==
    /\ repository \in Seq(Entry)
    /\ object \in [DeviceCodes -> DeviceCode \cup {None}]
    /\ age \in [DeviceCodes -> 0..(Lifetime + 1)]
    /\ seen \in [DeviceCodes -> 0..Interval]
    /\ active \in [Users -> BOOLEAN]
    /\ pc \in [Requests -> Steps]
    /\ ctx \in [Requests -> StartContext \cup ConsentContext \cup PollContext \cup {None}]
    /\ decisions \in [DeviceCodes -> SUBSET [user : Users, scopes : Consents \cup {None}]]
    /\ issued \subseteq Token
    /\ removed \subseteq DeviceCodes
    /\ quiet \in [DeviceCodes -> 0..Interval]
    /\ passed \in [DeviceCodes -> 0..Interval]

-----------------------------------------------------------------------------
\* A device code that was never polled, and one whose cache entry expired, are
\* like one last seen an Interval ago.
Init ==
    /\ repository = <<>>
    /\ object = [d \in DeviceCodes |-> None]
    /\ age = [d \in DeviceCodes |-> 0]
    /\ seen = [d \in DeviceCodes |-> Interval]
    /\ active = [u \in Users |-> TRUE]
    /\ pc = [r \in Requests |-> "idle"]
    /\ ctx = [r \in Requests |-> None]
    /\ decisions = [d \in DeviceCodes |-> {}]
    /\ issued = {}
    /\ removed = {}
    /\ quiet = [d \in DeviceCodes |-> Interval]
    /\ passed = [d \in DeviceCodes |-> Interval]

First(I) == CHOOSE i \in I : \A j \in I : i <= j

ByUserCode(u) == {i \in DOMAIN repository : repository[i].user = u}
ByDeviceCode(d) == {i \in DOMAIN repository : repository[i].device = d}

\* FindByUserCodeAsync, FindByDeviceCodeAsync: the object of the first entry.
Found(I) == IF I = {} THEN None ELSE repository[First(I)].data

Begin(r, step, c) == /\ pc[r] = "idle"
                     /\ pc' = [pc EXCEPT ![r] = step]
                     /\ ctx' = [ctx EXCEPT ![r] = c]

Goto(r, step) == pc' = [pc EXCEPT ![r] = step]

\* The request answers, with a page, tokens or an error.
Answer(r) == Goto(r, "idle") /\ ctx' = [ctx EXCEPT ![r] = None]

\* Time passes for every code; a cache entry outlives the code, which it is set
\* to expire with, at most by one poll.
Older(a, top) == IF a < top THEN a + 1 ELSE a

Tick ==
    /\ age' = [d \in DeviceCodes |->
                  IF object[d] = None THEN 0 ELSE Older(age[d], Lifetime + 1)]
    /\ seen' = [d \in DeviceCodes |->
                  IF Older(seen[d], Interval) > Lifetime THEN Interval
                  ELSE Older(seen[d], Interval)]
    /\ quiet' = [d \in DeviceCodes |-> Older(quiet[d], Interval)]
    /\ passed' = [d \in DeviceCodes |-> Older(passed[d], Interval)]
    /\ UNCHANGED <<repository, object, active, pc, ctx, outcome>>

SetActive(u) ==
    /\ active' = [active EXCEPT ![u] = ~ @]
    /\ UNCHANGED <<repository, object, age, seen, pc, ctx, history>>

-----------------------------------------------------------------------------
(***************************************************************************)
(* The device authorization endpoint.                                      *)
(***************************************************************************)
Start(r, c) ==
    /\ Begin(r, "start_find", [client |-> c, code |-> None, tries |-> 0])
    /\ UNCHANGED <<repository, object, age, seen, active, history>>

\* Mutant of StartFind: it does not throw.
StartFind_NoThrow(r, u) ==
    /\ pc[r] = "start_find"
    /\ IF Found(ByUserCode(u)) = None
       THEN /\ Goto(r, "start_store")
            /\ ctx' = [ctx EXCEPT ![r].code = u]
       ELSE IF ctx[r].tries + 1 < RetryLimit
       THEN /\ ctx' = [ctx EXCEPT ![r].tries = @ + 1]
            /\ UNCHANGED pc
       ELSE Goto(r, "start_store") /\ UNCHANGED ctx
    /\ UNCHANGED <<repository, object, age, seen, active, history>>

\* A user code is drawn until one is found that nobody uses; after RetryLimit
\* draws the generator throws.
StartFind(r, u) ==
    /\ pc[r] = "start_find"
    /\ IF Found(ByUserCode(u)) = None
       THEN /\ Goto(r, "start_store")
            /\ ctx' = [ctx EXCEPT ![r].code = u]
       ELSE IF ctx[r].tries + 1 < RetryLimit
       THEN /\ ctx' = [ctx EXCEPT ![r].tries = @ + 1]
            /\ UNCHANGED pc
       ELSE Answer(r)
    /\ UNCHANGED <<repository, object, age, seen, active, history>>

StartStore(r, d) ==
    /\ pc[r] = "start_store"
    /\ object[d] = None
    /\ object' = [object EXCEPT ![d] =
          [client |-> ctx[r].client, authorized |-> FALSE, subject |-> None, scopes |-> None]]
    /\ repository' = Append(repository, [device |-> d, user |-> ctx[r].code, data |-> d])
    /\ Answer(r)
    /\ UNCHANGED <<age, seen, active, history>>

-----------------------------------------------------------------------------
(***************************************************************************)
(* The device page: the user is shown the request, consents to some of its *)
(* scopes or refuses (no scopes), and the object is written.               *)
(***************************************************************************)
Show(r, code, user, scopes) ==
    /\ Found(ByUserCode(code)) # None
    /\ Begin(r, "consent", [code |-> code, user |-> user, scopes |-> scopes, object |-> None])
    /\ UNCHANGED <<repository, object, age, seen, active, history>>

\* ProcessConsent looks the request up once more before it handles it.
Consent(r) ==
    /\ pc[r] = "consent"
    /\ IF Found(ByUserCode(ctx[r].code)) = None
       THEN Answer(r)
       ELSE Goto(r, "handle") /\ UNCHANGED ctx
    /\ UNCHANGED <<repository, object, age, seen, active, history>>

Handle(r) ==
    /\ pc[r] = "handle"
    /\ LET o == Found(ByUserCode(ctx[r].code)) IN
       IF o = None
       THEN Answer(r) /\ UNCHANGED decisions
       ELSE /\ Goto(r, "set_authorized")
            /\ ctx' = [ctx EXCEPT ![r].object = o]
            /\ decisions' = [decisions EXCEPT ![o] =
                  @ \cup {[user |-> ctx[r].user, scopes |-> ctx[r].scopes]}]
    /\ UNCHANGED <<repository, object, age, seen, active, issued, removed, quiet, passed>>

\* The assignments of HandleRequestAsync, in the order of the code.
SetAuthorized(r) ==
    /\ pc[r] = "set_authorized"
    /\ object' = [object EXCEPT ![ctx[r].object].authorized = TRUE]
    /\ Goto(r, "set_subject")
    /\ UNCHANGED <<repository, age, seen, active, ctx, history>>

SetSubject(r) ==
    /\ pc[r] = "set_subject"
    /\ object' = [object EXCEPT ![ctx[r].object].subject = ctx[r].user]
    /\ Goto(r, "set_scopes")
    /\ UNCHANGED <<repository, age, seen, active, ctx, history>>

SetScopes(r) ==
    /\ pc[r] = "set_scopes"
    /\ object' = [object EXCEPT ![ctx[r].object].scopes = ctx[r].scopes]
    /\ Goto(r, "update")
    /\ UNCHANGED <<repository, age, seen, active, ctx, history>>

\* Mutant of Update: an entry that is gone is added again.
Update_Upserts(r) ==
    /\ pc[r] = "update"
    /\ LET I == ByUserCode(ctx[r].code) IN
       repository' = IF I = {} THEN Append(repository, [device |-> ctx[r].object,
                                          user |-> ctx[r].code, data |-> ctx[r].object])
                     ELSE [repository EXCEPT ![First(I)].data = ctx[r].object]
    /\ Answer(r)
    /\ UNCHANGED <<object, age, seen, active, history>>

\* UpdateByUserCodeAsync: the first entry with the user code, if there still is
\* one, now holds this object.
Update(r) ==
    /\ pc[r] = "update"
    /\ LET I == ByUserCode(ctx[r].code) IN
       repository' = IF I = {} THEN repository
                     ELSE [repository EXCEPT ![First(I)].data = ctx[r].object]
    /\ Answer(r)
    /\ UNCHANGED <<object, age, seen, active, history>>

-----------------------------------------------------------------------------
(***************************************************************************)
(* A poll: grant_type=device_code at the token endpoint.                   *)
(***************************************************************************)
Polling(q, d) == ctx[q] \in PollContext /\ ctx[q].device = d

Poll(r, c, d) ==
    /\ object[d] # None
    /\ pc[r] = "idle"
    /\ Goto(r, "poll_find")
    /\ ctx' = [q \in Requests |->
          IF q = r
          THEN [client |-> c, device |-> d, object |-> None, late |-> d \in removed,
                polite |-> quiet[d] = Interval /\ \A p \in Requests : ~ Polling(p, d),
                subject |-> None, scopes |-> None]
          ELSE IF Polling(q, d) THEN [ctx[q] EXCEPT !.polite = FALSE]
          ELSE ctx[q]]
    /\ UNCHANGED <<repository, object, age, seen, active, history>>

\* The device is answered.
AnswerPoll(r) ==
    /\ Answer(r)
    /\ quiet' = [quiet EXCEPT ![ctx[r].device] = 0]

\* Mutant of PollFind: no client binding.
PollFind_Unbound(r) ==
    /\ pc[r] = "poll_find"
    /\ LET o == Found(ByDeviceCode(ctx[r].device)) IN
       IF o = None
       THEN AnswerPoll(r)
       ELSE /\ Goto(r, "poll_seen")
            /\ ctx' = [ctx EXCEPT ![r].object = o]
            /\ UNCHANGED quiet
    /\ UNCHANGED <<repository, object, age, seen, active, outcome, passed>>

PollFind(r) ==
    /\ pc[r] = "poll_find"
    /\ LET o == Found(ByDeviceCode(ctx[r].device)) IN
       IF o = None \/ object[o].client # ctx[r].client
       THEN AnswerPoll(r)
       ELSE /\ Goto(r, "poll_seen")
            /\ ctx' = [ctx EXCEPT ![r].object = o]
            /\ UNCHANGED quiet
    /\ UNCHANGED <<repository, object, age, seen, active, outcome, passed>>

\* Mutant of TooFast: off by one.
TooFast_OffByOne(d) == seen[d] <= Interval

TooFast(d) == seen[d] < Interval

\* ShouldSlowDown reads the cache ...
PollSeen(r) ==
    /\ pc[r] = "poll_seen"
    /\ IF TooFast(ctx[r].device)
       THEN Goto(r, "poll_slow") /\ UNCHANGED passed
       ELSE Goto(r, "poll_mark") /\ passed' = [passed EXCEPT ![ctx[r].device] = 0]
    /\ UNCHANGED <<repository, object, age, seen, active, ctx, outcome, quiet>>

\* ... and records this poll, whether it was too fast or not.
PollSlow(r) ==
    /\ pc[r] = "poll_slow"
    /\ seen' = [seen EXCEPT ![ctx[r].device] = 0]
    /\ AnswerPoll(r)
    /\ UNCHANGED <<repository, object, age, active, outcome, passed>>

\* Mutant of PollMark: a poll that passes is not recorded.
PollMark_Unrecorded(r) ==
    /\ pc[r] = "poll_mark"
    /\ IF age[ctx[r].object] > Lifetime
       THEN AnswerPoll(r)
       ELSE Goto(r, "poll_denied") /\ UNCHANGED <<ctx, quiet>>
    /\ UNCHANGED <<repository, object, age, seen, active, outcome, passed>>

PollMark(r) ==
    /\ pc[r] = "poll_mark"
    /\ seen' = [seen EXCEPT ![ctx[r].device] = 0]
    /\ IF age[ctx[r].object] > Lifetime
       THEN AnswerPoll(r)
       ELSE Goto(r, "poll_denied") /\ UNCHANGED <<ctx, quiet>>
    /\ UNCHANGED <<repository, object, age, active, outcome, passed>>

\* Authorized without a scope: the user refused.
PollDenied(r) ==
    /\ pc[r] = "poll_denied"
    /\ LET o == ctx[r].object IN
       IF object[o].authorized /\ object[o].scopes = None
       THEN AnswerPoll(r)
       ELSE Goto(r, "poll_pending") /\ UNCHANGED <<ctx, quiet>>
    /\ UNCHANGED <<repository, object, age, seen, active, outcome, passed>>

PollPending(r) ==
    /\ pc[r] = "poll_pending"
    /\ LET o == object[ctx[r].object] IN
       IF ~ o.authorized \/ o.subject = None
       THEN AnswerPoll(r)
       ELSE /\ Goto(r, "poll_active")
            /\ ctx' = [ctx EXCEPT ![r].subject = o.subject]
            /\ UNCHANGED quiet
    /\ UNCHANGED <<repository, object, age, seen, active, outcome, passed>>

PollActive(r) ==
    /\ pc[r] = "poll_active"
    /\ IF active[ctx[r].subject]
       THEN Goto(r, "poll_remove") /\ UNCHANGED <<ctx, quiet>>
       ELSE AnswerPoll(r)
    /\ UNCHANGED <<repository, object, age, seen, active, outcome, passed>>

PollRemove(r) ==
    /\ pc[r] = "poll_remove"
    /\ LET I == ByDeviceCode(ctx[r].device) IN
       repository' = IF I = {} THEN repository ELSE RemoveAt(repository, First(I))
    /\ removed' = removed \cup {ctx[r].device}
    /\ Goto(r, "poll_scopes")
    /\ UNCHANGED <<object, age, seen, active, ctx, decisions, issued, quiet, passed>>

\* CreateAccessTokenAsync reads the scopes off the object; it throws when a
\* refusal has taken them away since.
PollScopes(r) ==
    /\ pc[r] = "poll_scopes"
    /\ LET scopes == object[ctx[r].object].scopes IN
       IF scopes = None
       THEN AnswerPoll(r)
       ELSE /\ Goto(r, "poll_subject")
            /\ ctx' = [ctx EXCEPT ![r].scopes = scopes]
            /\ UNCHANGED quiet
    /\ UNCHANGED <<repository, object, age, seen, active, outcome, passed>>

\* The resources of the scopes are loaded before the subject is read.
PollSubject(r) ==
    /\ pc[r] = "poll_subject"
    /\ issued' = issued \cup
          {[client |-> ctx[r].client, object |-> ctx[r].object,
            user |-> object[ctx[r].object].subject, scopes |-> ctx[r].scopes]}
    /\ AnswerPoll(r)
    /\ UNCHANGED <<repository, object, age, seen, active, decisions, removed, passed>>

-----------------------------------------------------------------------------
Arrival(r) ==
    \/ \E c \in Clients : "start_find" \in Arrivals /\ Start(r, c)
    \/ \E u \in UserCodes, user \in Users, scopes \in Consents \cup {None} :
          "show" \in Arrivals /\ Show(r, u, user, scopes)
    \/ \E c \in Clients, d \in DeviceCodes : "poll_find" \in Arrivals /\ Poll(r, c, d)

Step(r) ==
    \/ \E u \in UserCodes : StartFind(r, u)
    \/ \E d \in DeviceCodes : StartStore(r, d)
    \/ Consent(r) \/ Handle(r)
    \/ SetAuthorized(r) \/ SetSubject(r) \/ SetScopes(r) \/ Update(r)
    \/ PollFind(r) \/ PollSeen(r) \/ PollSlow(r) \/ PollMark(r) \/ PollDenied(r)
    \/ PollPending(r) \/ PollActive(r) \/ PollRemove(r) \/ PollScopes(r) \/ PollSubject(r)

Next ==
    \/ Tick
    \/ \E u \in Users : SetActive(u)
    \/ \E r \in Requests : Arrival(r) \/ Step(r)

Spec == Init /\ [][Next]_vars

-----------------------------------------------------------------------------
(***************************************************************************)
(* Properties.                                                             *)
(***************************************************************************)

\* Tokens go to the client that started the request, for a user who decided
\* about that very request, with scopes a user granted to it: no interleaving
\* of polls and consents turns a pending or a foreign request into tokens
\* (DeviceCodeValidator.ValidateAsync, HandleRequestAsync).
OnlyWhatWasGranted ==
    \A t \in issued :
        /\ t.client = object[t.object].client
        /\ \E x \in decisions[t.object] : x.user = t.user
        /\ \E x \in decisions[t.object] : x.scopes = t.scopes

\* A poll that arrives after RemoveByDeviceCodeAsync is never accepted: an
\* approval that is still in flight does not bring the code back.
RemovedStaysRemoved ==
    \A r \in Requests :
        ctx[r] \in PollContext /\ ctx[r].late => pc[r] \notin AcceptedSteps

\* A poll that comes an Interval after the last answer its device got, while no
\* other poll for the device is under way, is never told to slow down
\* (DistributedDeviceFlowThrottlingService).
PoliteNeverSlowed == \A r \in Requests : pc[r] = "poll_slow" => ~ ctx[r].polite

\* Within one Interval the throttling lets a second poll of a code pass only while
\* an earlier one is between reading the cache and recording itself.
SpacedUnlessConcurrent ==
    [][\A r \in Requests :
          pc[r] = "poll_seen" /\ pc'[r] = "poll_mark" =>
              \/ passed[ctx[r].device] = Interval
              \/ \E q \in Requests \ {r} :
                    pc[q] = "poll_mark" /\ ctx[q].device = ctx[r].device]_vars

=============================================================================
