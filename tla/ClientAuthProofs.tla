-------------------------- MODULE ClientAuthProofs --------------------------
(***************************************************************************)
(* Theorems of ClientAuth, for every set of clients, API resources,        *)
(* secrets, edits, authentications and requests and any bounds.            *)
(***************************************************************************)
EXTENDS ClientAuth, TLAPS

\* A request under way that edits the party p.
EditOf(r, p) == pc[r] # "idle" /\ ctx[r].op \in Edits /\ ctx[r].op.party = p

Shared(S, text) == text \in Party => text.secrets \subseteq S

\* A request has the locals its next step reads, and an edit that removes a
\* secret holds a copy without it.
LocalsOf(r) ==
    /\ pc[r] \in {"check", "unlink", "open", "write", "validate"} => ctx[r].copy \in Party
    /\ pc[r] = "absent" /\ ctx[r].op.kind # "create" => ctx[r].copy \in Party
    /\ pc[r] \in {"exists", "cache"} =>
          ctx[r].op.credential.type = "jwt" /\ ctx[r].by \in Secrets
    /\ pc[r] \in {"exists", "cache", "vault"} => ctx[r].todo \subseteq Secrets
    /\ pc[r] \notin {"idle"} \cup LoginSteps /\ ctx[r].op.kind = "remove" =>
          (ctx[r].copy \in Party => ctx[r].op.secret \notin ctx[r].copy.secrets)

TypeInv == TypeOK /\ \A r \in Requests : LocalsOf(r)

\* All secrets the party p has, or edits of it under way may give it, are in S.
Covers(p, S) ==
    /\ file[p] # None => Shared(S, file[p].text)
    /\ \A q \in Requests : EditOf(q, p) =>
          /\ Shared(S, ctx[q].copy)
          /\ ctx[q].op.kind = "add" => ctx[q].op.secret \in S

\* An edit that is not disturbed is the only one of its party, and what it writes
\* is written to the file.
Alone(r) ==
    LET p == ctx[r].op.party IN
    EditOf(r, p) /\ ~ctx[r].disturbed =>
       /\ \A q \in Requests \ {r} : ~EditOf(q, p)
       /\ pc[r] = "write" => file[p] # None /\ file[p].writer = r

\* What a login may still be accepted with, before and after it has read the file.
Draws(r) ==
    /\ pc[r] \in {"find", "list", "scan"} => Covers(ctx[r].op.party, ctx[r].allowed)
    /\ pc[r] \in {"list", "scan", "validate"} => Shared(ctx[r].allowed, ctx[r].copy)
    /\ pc[r] \in {"exists", "cache", "vault"} => ctx[r].todo \subseteq ctx[r].allowed
    /\ pc[r] \in {"exists", "cache", "accepted"} => ctx[r].by \in ctx[r].allowed

\* A deletion writes nothing.
Deletes(r) == pc[r] \in {"absent", "open", "write"} => ctx[r].op.kind # "delete"

SecretsInv ==
    /\ TypeInv
    /\ \A p \in Parties : Covers(p, possible[p])
    /\ \A r \in Requests : Alone(r) /\ Draws(r) /\ Deletes(r)

\* Covers(p, S) in the next state, S being a set of this one.
CoversThen(p, S) ==
    /\ file'[p] # None => Shared(S, file'[p].text)
    /\ \A q \in Requests : pc'[q] # "idle" /\ ctx'[q].op \in Edits /\ ctx'[q].op.party = p =>
          /\ Shared(S, ctx'[q].copy)
          /\ ctx'[q].op.kind = "add" => ctx'[q].op.secret \in S

\* The file of the party p is what acknowledged edits ask for.
AsWanted(p) ==
    file[p] = IF wanted[p] = None THEN None ELSE [text |-> wanted[p], writer |-> None]

Settled(p) ==
    (\A q \in Requests : ~EditOf(q, p)) /\ wanted[p] # Unknown => AsWanted(p)

\* What edits that overlap ask for is not known.
Contested(r) ==
    EditOf(r, ctx[r].op.party) /\ ctx[r].disturbed => wanted[ctx[r].op.party] = Unknown

\* What an edit that is not disturbed has made of its file, and is about to write.
Written(r) ==
    LET p == ctx[r].op.party
        kind == ctx[r].op.kind IN
    EditOf(r, p) /\ ~ctx[r].disturbed =>
       /\ pc[r] \in {"load", "check", "unlink"} => kind # "create"
       /\ pc[r] = "open" \/ (pc[r] = "absent" /\ kind # "create") => file[p] = None
       /\ pc[r] = "write" => file[p] = [text |-> Broken, writer |-> r]
       /\ pc[r] \in {"open", "write"} /\ kind = "create" => ctx[r].copy = New
       /\ wanted[p] # Unknown =>
             /\ pc[r] \in {"load", "check", "unlink"} \/ (pc[r] = "absent" /\ kind = "create")
                   => AsWanted(p)
             /\ pc[r] \in {"check", "unlink", "absent", "open", "write"}
                /\ kind \notin {"create", "delete"} =>
                      wanted[p] \in Party /\ ctx[r].copy = Changed(ctx[r].op, wanted[p])

EditsInv ==
    /\ SecretsInv
    /\ \A p \in Parties : Settled(p)
    /\ \A r \in Requests : Contested(r) /\ Written(r)

\* The files that are read for a request.
Reads(r, p) == p = ctx[r].op.party \/ {p, ctx[r].op.party} \subseteq Apis

\* Nobody edits what a login that is not disturbed reads.
Unhindered(r) ==
    pc[r] \in LoginSteps /\ ~ctx[r].disturbed =>
       \A q \in Requests, p \in Parties : EditOf(q, p) => ~Reads(r, p)

Enabled(p) == wanted[p] # None /\ wanted[p].enabled

\* The request presents a shared secret of its party that has not expired.
Has(r) ==
    \E s \in wanted[Target(r)].secrets :
       /\ Presented(r) = [type |-> "shared", value |-> s.value]
       /\ s.type = "shared" /\ (s.until = None \/ now <= s.until)

\* What a login that is not disturbed has found so far.
Found(r) ==
    LET p == ctx[r].op.party IN
    /\ pc[r] \in {"validate", "exists", "cache", "vault", "accepted"} => Enabled(p)
    /\ pc[r] = "validate" => ctx[r].copy = wanted[p]
    /\ pc[r] = "list" => ctx[r].copy = None
    /\ pc[r] \in {"list", "scan"} => p \in Apis
    /\ pc[r] = "scan" =>
          /\ ctx[r].copy \in {None, wanted[p]}
          /\ wanted[p] # None => p \in ctx[r].todo \/ ctx[r].copy = wanted[p]
          /\ \A q \in ctx[r].todo : q \in Apis /\ file[q] # None
    /\ pc[r] = "vault" => ~Has(r)
    /\ pc[r] = "refused" =>
          \/ ~(Enabled(p) /\ Has(r))
          \/ p \in Apis /\ \E q \in Apis : wanted[q] = Unknown

Answered(r) ==
    pc[r] \in LoginSteps /\ ~ctx[r].disturbed /\ wanted[ctx[r].op.party] # Unknown => Found(r)

AnswersInv == EditsInv /\ \A r \in Requests : Unhindered(r) /\ Answered(r)

\* An assertion expires when its jti says.
OneExpiry ==
    \A l, m \in Logins :
       /\ l.credential.type = "jwt" /\ m.credential.type = "jwt"
       /\ l.credential.jti = m.credential.jti
       => l.credential.exp = m.credential.exp

\* Forgotten once it has expired, no sooner.
Remembered(a) == cache[a.jti] = a.exp + ClockSkew

\* What came before a request stays used, and what it presents is remembered
\* when it is accepted and was not used before it came.
Replays(r) ==
    /\ pc[r] # "idle" => ctx[r].barred \subseteq used
    /\ pc[r] = "accepted" /\ ctx[r].op.credential.type = "jwt" =>
          Remembered(ctx[r].op.credential)
    /\ /\ pc[r] \in {"cache", "accepted"} /\ ctx[r].op.credential.type = "jwt"
       /\ now < ctx[r].op.credential.exp + ClockSkew
       => ctx[r].op.credential \notin ctx[r].barred

ReplayInv ==
    /\ TypeInv
    /\ \A a \in used : /\ Remembered(a) /\ a.type = "jwt"
                       /\ \E l \in Logins : l.credential = a
    /\ \A r \in Requests : Replays(r)

-----------------------------------------------------------------------------
LEMMA Kinds ==
    /\ \A op \in Edits : /\ op.party \in Parties
                         /\ op.kind \in {"add", "remove"} => op.secret \in Secrets
                         /\ op.kind # "login" /\ op \notin Logins
    /\ \A op \in Logins : /\ op.party \in Parties /\ op.kind = "login"
                          /\ op.credential \in Credential
BY ClientAuthAssumption DEF Edit, Login

LEMMA TypeInvInit == Init => TypeInv
<1> SUFFICES ASSUME Init PROVE TypeInv
  OBVIOUS
<1>1. TypeOK
  <2>1. now \in Times
    <3>1. now = 0 /\ MaxTime \in Nat
      BY ClientAuthAssumption DEF Init
    <3> QED
      BY <3>1 DEF Times
  <2>3. crashed \in BOOLEAN /\ used \subseteq Credential
    BY DEF Init
  <2>2. /\ file \in [Parties -> File \cup {None}]
        /\ cache \in [Jtis -> 0..(MaxTime + ClockSkew) \cup {None}]
        /\ pc \in [Requests -> Steps] /\ ctx \in [Requests -> Context \cup {None}]
        /\ wanted \in [Parties -> Party \cup {None, Unknown}]
        /\ possible \in [Parties -> SUBSET Secrets]
    BY DEF Init, Steps
  <2> QED
    BY <2>1, <2>2, <2>3 DEF Init, TypeOK
<1>2. \A r \in Requests : LocalsOf(r)
  BY DEF Init, LocalsOf
<1> QED
  BY <1>1, <1>2 DEF TypeInv

\* Requests that are not the one that moves keep what they have.
LEMMA OneMoves ==
    ASSUME TypeInv, NEW r \in Requests,
           \A q \in Requests \ {r} : pc'[q] = pc[q] /\ ctx'[q] = ctx[q],
           now' \in Times, crashed' \in BOOLEAN,
           cache' \in [Jtis -> 0..(MaxTime + ClockSkew) \cup {None}],
           wanted' \in [Parties -> Party \cup {None, Unknown}],
           possible' \in [Parties -> SUBSET Secrets],
           used' \subseteq Credential,
           pc' \in [Requests -> Steps], ctx' \in [Requests -> Context \cup {None}],
           pc'[r] = "idle" <=> ctx'[r] = None,
           pc'[r] # "idle" => (pc'[r] \in LoginSteps <=> ctx'[r].op \in Logins),
           LocalsOf(r)',
           file' \in [Parties -> File \cup {None}],
           \A p \in Parties :
              file'[p] # None /\ file'[p].writer # None =>
                 \/ file'[p].writer = r /\ pc'[r] = "write" /\ ctx'[r].op.party = p
                 \/ file'[p].writer # r /\ file[p] # None /\ file'[p].writer = file[p].writer
    PROVE  TypeInv'
<1>1. \A q \in Requests : LocalsOf(q)'
  BY DEF TypeInv, LocalsOf
<1>2. \A q \in Requests : /\ pc'[q] = "idle" <=> ctx'[q] = None
                          /\ pc'[q] # "idle" => (pc'[q] \in LoginSteps <=> ctx'[q].op \in Logins)
  BY DEF TypeInv, TypeOK
<1>3. ASSUME NEW p \in Parties, file'[p] # None, file'[p].writer # None
      PROVE  pc'[file'[p].writer] = "write" /\ ctx'[file'[p].writer].op.party = p
  <2>1. file'[p].writer \in Requests
    BY <1>3 DEF File
  <2> QED
    BY <1>3, <2>1 DEF TypeInv, TypeOK
<1> QED
  BY <1>1, <1>2, <1>3 DEF TypeInv, TypeOK

LEMMA OtherType ==
    ASSUME TypeInv, Tick \/ UNCHANGED vars PROVE TypeInv'
BY ClientAuthAssumption DEF Tick, vars, TypeInv, TypeOK, LocalsOf, Times, history

LEMMA CrashType ==
    ASSUME TypeInv, Crash PROVE TypeInv'
<1>1. /\ file' \in [Parties -> File \cup {None}]
      /\ \A p \in Parties : file'[p] # None => file'[p].writer = None
  BY DEF Crash, Exists, TypeInv, TypeOK, File
<1>2. /\ wanted' \in [Parties -> Party \cup {None, Unknown}]
      /\ cache' \in [Jtis -> 0..(MaxTime + ClockSkew) \cup {None}]
      /\ pc' \in [Requests -> Steps] /\ ctx' \in [Requests -> Context \cup {None}]
      /\ crashed' \in BOOLEAN /\ used' \subseteq Credential
      /\ UNCHANGED <<now, possible>>
  BY DEF Crash, TypeInv, TypeOK, Steps
<1>3. \A r \in Requests : pc'[r] = "idle" /\ ctx'[r] = None
  BY DEF Crash
<1> QED
  BY <1>1, <1>2, <1>3 DEF TypeInv, TypeOK, LocalsOf, Steps, LoginSteps

LEMMA SubmitType ==
    ASSUME TypeInv, NEW r \in Requests, NEW op \in Edits \cup Logins, Submit(r, op) PROVE TypeInv'
<1>1. \A q \in Requests \ {r} : /\ ctx'[q] \in Context \cup {None}
                                /\ ctx'[q] = None <=> ctx[q] = None
                                /\ ctx[q] \in Context =>
                                      /\ ctx'[q].op = ctx[q].op /\ ctx'[q].copy = ctx[q].copy
                                      /\ ctx'[q].todo = ctx[q].todo /\ ctx'[q].by = ctx[q].by
  <2> SUFFICES ASSUME NEW q \in Requests \ {r}, q \in Active
               PROVE  /\ ctx'[q] \in Context
                      /\ ctx'[q].op = ctx[q].op /\ ctx'[q].copy = ctx[q].copy
                      /\ ctx'[q].todo = ctx[q].todo /\ ctx'[q].by = ctx[q].by
    <3>1. ASSUME NEW q \in Requests \ {r}, q \notin Active
          PROVE  ctx[q] = None /\ ctx'[q] = None
      <4>1. ctx'[q] = ctx[q]
        BY <3>1 DEF Submit
      <4> QED
        BY <3>1, <4>1 DEF Active, TypeInv, TypeOK
    <3>2. \A q \in Active : ctx[q] # None
      BY DEF Active, TypeInv, TypeOK
    <3> QED
      BY <3>1, <3>2, NoneAssumption
  <2> DEFINE added == IF op.kind = "add" THEN {op.secret} ELSE {}
  <2>1. ctx[q] \in Context /\ added \subseteq Secrets
    BY Kinds DEF Active, TypeInv, TypeOK
  <2>2. CASE op \notin Edits
    BY <2>1, <2>2 DEF Submit
  <2>3. CASE op \in Edits /\ Op(q) \in Edits
    <3>1. ctx'[q] = [ctx[q] EXCEPT !.disturbed = @ \/ Target(q) = op.party]
      BY <2>3 DEF Submit
    <3> QED
      BY <2>1, <3>1 DEF Context
  <2>4. CASE op \in Edits /\ Op(q) \notin Edits
    <3>1. ctx'[q] = [ctx[q] EXCEPT !.disturbed = @ \/ Disturbs(op, Op(q)),
                         !.allowed = IF Target(q) = op.party THEN @ \cup added ELSE @]
      BY <2>4 DEF Submit
    <3> DEFINE d == ctx[q].disturbed \/ Disturbs(op, Op(q))
               a == IF Target(q) = op.party THEN ctx[q].allowed \cup added ELSE ctx[q].allowed
    <3>2. d \in BOOLEAN /\ a \subseteq Secrets
      BY <2>1 DEF Context
    <3>3. ctx'[q] = [ctx[q] EXCEPT !.disturbed = d, !.allowed = a]
      BY <3>1
    <3> HIDE DEF d, a
    <3> QED
      BY <2>1, <3>2, <3>3 DEF Context
  <2> QED
    BY <2>2, <2>3, <2>4
<1>2. /\ ctx'[r] \in Context /\ ctx'[r].op = op
      /\ pc'[r] \in {"absent", "load", "find", "list"}
      /\ pc'[r] \in LoginSteps <=> op \in Logins
      /\ pc'[r] = "absent" => op.kind = "create"
      /\ ctx'[r].copy = None
  <2> DEFINE x == ctx'[r]
  <2>1. /\ x = [op |-> op, copy |-> None, todo |-> {}, by |-> None, disturbed |-> x.disturbed,
                allowed |-> x.allowed, barred |-> x.barred]
        /\ x.disturbed \in BOOLEAN /\ x.allowed \subseteq Secrets /\ x.barred \subseteq Credential
    BY Kinds DEF Submit, Editing, TypeInv, TypeOK, Disturbs
  <2>2. x \in Context
    BY <2>1 DEF Context
  <2>3. pc'[r] = FirstStep(op)
    <3>1. pc' = [pc EXCEPT ![r] = FirstStep(op)]
      BY DEF Submit, Goto
    <3> QED
      BY <3>1 DEF TypeInv, TypeOK
  <2>4. CASE op \in Edits
    BY <2>1, <2>2, <2>3, <2>4, Kinds DEF FirstStep, LoginSteps
  <2>5. CASE op \in Logins
    BY <2>1, <2>2, <2>3, <2>5, Kinds DEF FirstStep, LoginSteps
  <2> QED
    BY <2>4, <2>5
<1>3. /\ pc' \in [Requests -> Steps] /\ \A q \in Requests \ {r} : pc'[q] = pc[q]
      /\ pc[r] = "idle"
  <2>1. pc' = [pc EXCEPT ![r] = FirstStep(op)] /\ pc[r] = "idle"
    BY DEF Submit, Goto
  <2>2. FirstStep(op) \in Steps
    BY <1>2, <2>1 DEF TypeInv, TypeOK, Steps, LoginSteps
  <2> QED
    BY <2>1, <2>2 DEF TypeInv, TypeOK
<1>4. ctx' \in [Requests -> Context \cup {None}]
  <2>1. \A q \in Requests : ctx'[q] \in Context \cup {None}
    BY <1>1, <1>2
  <2>2. ctx' = [q \in Requests |-> ctx'[q]]
    BY DEF Submit
  <2> QED
    BY <2>1, <2>2
<1>8. UNCHANGED <<now, file, cache, crashed, used>>
  BY DEF Submit
<1>9. /\ wanted' \in [Parties -> Party \cup {None, Unknown}]
      /\ possible' \in [Parties -> SUBSET Secrets]
  <2>1. wanted' = wanted \/ wanted' = [wanted EXCEPT ![op.party] = Unknown]
    BY DEF Submit
  <2> DEFINE added == IF op.kind = "add" THEN {op.secret} ELSE {}
  <2>2. possible' = [possible EXCEPT ![op.party] = @ \cup added]
    BY DEF Submit
  <2>3. added \subseteq Secrets /\ op.party \in Parties
    BY Kinds
  <2> HIDE DEF added
  <2>4. possible' \in [Parties -> SUBSET Secrets]
    BY <2>2, <2>3 DEF TypeInv, TypeOK
  <2> QED
    BY <2>1, <2>4 DEF TypeInv, TypeOK
<1>5. \A q \in Requests : LocalsOf(q)'
  <2>1. LocalsOf(r)'
    BY <1>2, NoneAssumption DEF LocalsOf, LoginSteps
  <2>2. ASSUME NEW q \in Requests \ {r} PROVE LocalsOf(q)'
    <3>1. CASE ctx[q] = None
      BY <3>1, <1>3 DEF LocalsOf, TypeInv, TypeOK, LoginSteps
    <3>2. CASE ctx[q] # None
      <4>1. ctx[q] \in Context /\ LocalsOf(q) /\ pc'[q] = pc[q]
        BY <3>2, <1>3 DEF TypeInv, TypeOK
      <4> QED
        BY <4>1, <1>1 DEF LocalsOf
    <3> QED
      BY <3>1, <3>2
  <2> QED
    BY <2>1, <2>2
<1>6. \A q \in Requests : /\ pc'[q] = "idle" <=> ctx'[q] = None
                          /\ pc'[q] # "idle" => (pc'[q] \in LoginSteps <=> ctx'[q].op \in Logins)
  <2>1. pc'[r] = "idle" <=> ctx'[r] = None
    BY <1>2, NoneAssumption
  <2>2. ASSUME NEW q \in Requests \ {r}
        PROVE  /\ pc'[q] = "idle" <=> ctx'[q] = None
               /\ pc'[q] # "idle" => (pc'[q] \in LoginSteps <=> ctx'[q].op \in Logins)
    BY <1>1, <1>3 DEF TypeInv, TypeOK
  <2> QED
    BY <2>1, <2>2, <1>2
<1>7. \A p \in Parties : file'[p] # None /\ file'[p].writer # None =>
          pc'[file'[p].writer] = "write" /\ ctx'[file'[p].writer].op.party = p
  <2> SUFFICES ASSUME NEW p \in Parties, file[p] # None, file[p].writer # None
               PROVE  pc'[file[p].writer] = "write" /\ ctx'[file[p].writer].op.party = p
    BY <1>8
  <2> DEFINE q == file[p].writer
  <2>1. q \in Requests /\ pc[q] = "write" /\ ctx[q].op.party = p
    BY DEF TypeInv, TypeOK, File
  <2>2. q # r /\ ctx[q] \in Context
    BY <2>1, <1>3 DEF TypeInv, TypeOK
  <2> QED
    BY <2>1, <2>2, <1>1, <1>3
<1> QED
  BY <1>3, <1>4, <1>5, <1>6, <1>7, <1>8, <1>9 DEF TypeInv, TypeOK

LEMMA ChangedType ==
    ASSUME NEW op \in Edits, NEW x \in Party PROVE Changed(op, x) \in Party
<1>1. op.kind \in {"add", "remove"} => op.secret \in Secrets
  BY Kinds
<1> QED
  BY <1>1 DEF Changed, New, Party

\* A request that ends.
LEMMA Ends ==
    ASSUME TypeInv, NEW r \in Requests, Finish(r), UNCHANGED <<now, cache, crashed>>,
           wanted' \in [Parties -> Party \cup {None, Unknown}],
           possible' \in [Parties -> SUBSET Secrets], used' \subseteq Credential,
           file' \in [Parties -> File \cup {None}],
           \A p \in Parties : file'[p] # None /\ file'[p].writer # None =>
               file'[p].writer # r /\ file[p] # None /\ file'[p].writer = file[p].writer
    PROVE  TypeInv'
<1>1. /\ pc' = [pc EXCEPT ![r] = "idle"]
      /\ ctx' = [ctx EXCEPT ![r] = None]
  BY DEF Finish, Goto
<1>2. /\ \A q \in Requests \ {r} : pc'[q] = pc[q] /\ ctx'[q] = ctx[q]
      /\ pc' \in [Requests -> Steps] /\ ctx' \in [Requests -> Context \cup {None}]
      /\ pc'[r] = "idle" /\ ctx'[r] = None
  BY <1>1 DEF TypeInv, TypeOK, Steps
<1>3. LocalsOf(r)'
  BY <1>2 DEF LocalsOf
<1>4. /\ now' \in Times /\ crashed' \in BOOLEAN
      /\ cache' \in [Jtis -> 0..(MaxTime + ClockSkew) \cup {None}]
  BY DEF TypeInv, TypeOK
<1> QED
  BY <1>2, <1>3, <1>4, OneMoves

\* A request that goes on.
LEMMA GoesOn ==
    ASSUME TypeInv, NEW r \in Requests, NEW s \in Steps \ {"idle"}, NEW x \in Context,
           Goto(r, s), ctx' = [ctx EXCEPT ![r] = x], x.op = ctx[r].op,
           pc[r] # "idle", s \in LoginSteps <=> pc[r] \in LoginSteps,
           UNCHANGED <<now, crashed, history>>,
           cache' \in [Jtis -> 0..(MaxTime + ClockSkew) \cup {None}],
           LocalsOf(r)',
           file' \in [Parties -> File \cup {None}],
           \A p \in Parties : file'[p] # None /\ file'[p].writer # None =>
               \/ file'[p].writer = r /\ s = "write" /\ x.op.party = p
               \/ file'[p].writer # r /\ file[p] # None /\ file'[p].writer = file[p].writer
    PROVE  TypeInv'
<1>1. /\ pc' = [pc EXCEPT ![r] = s]
      /\ ctx' = [ctx EXCEPT ![r] = x]
  BY DEF Goto
<1>2. /\ \A q \in Requests \ {r} : pc'[q] = pc[q] /\ ctx'[q] = ctx[q]
      /\ pc' \in [Requests -> Steps] /\ ctx' \in [Requests -> Context \cup {None}]
      /\ pc'[r] = s /\ ctx'[r] = x
  BY <1>1 DEF TypeInv, TypeOK
<1>3. /\ pc'[r] = "idle" <=> ctx'[r] = None
      /\ pc'[r] # "idle" => (pc'[r] \in LoginSteps <=> ctx'[r].op \in Logins)
  BY <1>2, NoneAssumption DEF TypeInv, TypeOK
<1>4. /\ wanted' \in [Parties -> Party \cup {None, Unknown}]
      /\ possible' \in [Parties -> SUBSET Secrets] /\ used' \subseteq Credential
      /\ now' \in Times /\ crashed' \in BOOLEAN
  BY DEF TypeInv, TypeOK, history
<1> QED
  BY <1>2, <1>3, <1>4, OneMoves

\* Files stay, and the writer of one is not a request with another step.
LEMMA FilesStay ==
    ASSUME TypeInv, NEW r \in Requests, pc[r] # "write", UNCHANGED file
    PROVE  /\ file' \in [Parties -> File \cup {None}]
           /\ \A p \in Parties : file'[p] # None /\ file'[p].writer # None =>
                 file'[p].writer # r /\ file[p] # None /\ file'[p].writer = file[p].writer
BY DEF TypeInv, TypeOK

LEMMA AcknowledgeType ==
    ASSUME TypeInv, NEW r \in Requests, pc[r] \notin {"idle"} \cup LoginSteps, Acknowledge(r)
    PROVE  /\ Finish(r)
           /\ wanted' \in [Parties -> Party \cup {None, Unknown}]
           /\ possible' \in [Parties -> SUBSET Secrets]
           /\ used' \subseteq Credential
<1>1. ctx[r] \in Context /\ Op(r) \in Edits /\ Target(r) \in Parties
  BY Kinds DEF TypeInv, TypeOK, Context, Op, Target
<1>2. Finish(r) /\ used' \subseteq Credential
  BY DEF Acknowledge, TypeInv, TypeOK
<1>3. wanted' \in [Parties -> Party \cup {None, Unknown}]
  <2>1. New \in Party
    BY DEF New, Party
  <2>2. wanted[Target(r)] \in Party => Changed(Op(r), wanted[Target(r)]) \in Party
    BY <1>1, ChangedType
  <2> HIDE DEF Party
  <2>3. PICK y \in Party \cup {None, Unknown} :
           wanted' = wanted \/ wanted' = [wanted EXCEPT ![Target(r)] = y]
    BY <1>1, <2>1, <2>2 DEF Acknowledge, TypeInv, TypeOK
  <2> QED
    BY <2>3 DEF TypeInv, TypeOK
<1>4. possible' \in [Parties -> SUBSET Secrets]
  <2>1. PICK y \in SUBSET Secrets : possible' = [possible EXCEPT ![Target(r)] = y]
    BY <1>1 DEF Acknowledge, TypeInv, TypeOK
  <2> QED
    BY <2>1 DEF TypeInv, TypeOK
<1> QED
  BY <1>2, <1>3, <1>4

LEMMA LoadType ==
    ASSUME TypeInv, NEW r \in Requests, Load(r) PROVE TypeInv'
<1>1. pc[r] = "load" /\ UNCHANGED <<now, file, cache, crashed>>
  BY DEF Load
<1>2. ctx[r] \in Context /\ Op(r) \in Edits /\ Target(r) \in Parties
  BY <1>1, Kinds DEF TypeInv, TypeOK, Context, Op, Target, LoginSteps
<1>3. CASE Acknowledge(r)
  BY <1>1, <1>3, AcknowledgeType, FilesStay, Ends DEF LoginSteps
<1>4. CASE Fail(r)
  BY <1>1, <1>4, FilesStay, Ends DEF Fail, history, TypeInv, TypeOK
<1>5. CASE /\ Readable(Target(r)) /\ Goto(r, "check")
           /\ ctx' = [ctx EXCEPT ![r].copy = Changed(Op(r), file[Target(r)].text)]
           /\ UNCHANGED history
  <2> DEFINE c == Changed(Op(r), file[Target(r)].text)
             x == [ctx[r] EXCEPT !.copy = c]
  <2>1. file[Target(r)].text \in Party
    BY <1>2, <1>5 DEF Readable, Exists, TypeInv, TypeOK, File
  <2>2. c \in Party /\ (Op(r).kind = "remove" => Op(r).secret \notin c.secrets)
    BY <2>1, <1>2, ChangedType DEF Changed, Party
  <2> HIDE DEF c
  <2>3. x \in Context /\ x.op = ctx[r].op /\ x.copy = c
    BY <1>2, <2>2 DEF Context
  <2>4. ctx' = [ctx EXCEPT ![r] = x]
    BY <1>5 DEF c
  <2> HIDE DEF x
  <2>5. pc'[r] = "check" /\ ctx'[r] = x
    BY <1>5, <2>4 DEF Goto, TypeInv, TypeOK
  <2>6. LocalsOf(r)'
    BY <2>2, <2>3, <2>5 DEF LocalsOf, Op
  <2>7. cache' \in [Jtis -> 0..(MaxTime + ClockSkew) \cup {None}]
    BY <1>1 DEF TypeInv, TypeOK
  <2>8. "check" \in Steps \ {"idle"} /\ "check" \notin LoginSteps
        /\ pc[r] \notin {"idle", "write"} \cup LoginSteps
    BY <1>1 DEF Steps, LoginSteps
  <2>9. /\ file' \in [Parties -> File \cup {None}]
        /\ \A p \in Parties : file'[p] # None /\ file'[p].writer # None =>
              file'[p].writer # r /\ file[p] # None /\ file'[p].writer = file[p].writer
    BY <1>1, <2>8, FilesStay
  <2>10. Goto(r, "check") /\ UNCHANGED <<now, crashed, history>>
    BY <1>1, <1>5
  <2> QED
    BY <2>3, <2>4, <2>6, <2>7, <2>8, <2>9, <2>10, GoesOn
<1> QED
  BY <1>3, <1>4, <1>5 DEF Load

\* The request's locals, its party, and its operation.
LEMMA EditLocals ==
    ASSUME TypeInv, NEW r \in Requests, pc[r] \notin {"idle"} \cup LoginSteps
    PROVE  /\ ctx[r] \in Context /\ Op(r) \in Edits /\ Target(r) \in Parties
           /\ cache \in [Jtis -> 0..(MaxTime + ClockSkew) \cup {None}]
BY Kinds DEF TypeInv, TypeOK, Context, Op, Target

LEMMA LoginLocals ==
    ASSUME TypeInv, NEW r \in Requests, pc[r] \in LoginSteps
    PROVE  /\ ctx[r] \in Context /\ Op(r) \in Logins /\ Target(r) \in Parties
           /\ Presented(r) \in Credential
           /\ cache \in [Jtis -> 0..(MaxTime + ClockSkew) \cup {None}]
BY Kinds DEF TypeInv, TypeOK, Context, Op, Target, Presented, LoginSteps

\* An edit that goes on to another step with what it has.
LEMMA Continues ==
    ASSUME TypeInv, NEW r \in Requests, pc[r] \notin {"idle", "write"}, NEW s \in Steps \ {"idle"},
           s \in LoginSteps <=> pc[r] \in LoginSteps,
           Goto(r, s), UNCHANGED <<now, ctx, cache, crashed, history>>, LocalsOf(r)',
           file' \in [Parties -> File \cup {None}],
           \A p \in Parties : file'[p] # None /\ file'[p].writer # None =>
               \/ file'[p].writer = r /\ s = "write" /\ ctx[r].op.party = p
               \/ file'[p].writer # r /\ file[p] # None /\ file'[p].writer = file[p].writer
    PROVE  TypeInv'
<1>1. ctx[r] \in Context /\ ctx' = [ctx EXCEPT ![r] = ctx[r]]
  BY DEF TypeInv, TypeOK
<1>2. cache' \in [Jtis -> 0..(MaxTime + ClockSkew) \cup {None}]
  BY DEF TypeInv, TypeOK
<1> QED
  BY <1>1, <1>2, GoesOn

LEMMA CheckType ==
    ASSUME TypeInv, NEW r \in Requests, Check(r) PROVE TypeInv'
<1>1. pc[r] = "check" /\ UNCHANGED <<now, file, cache, crashed>>
  BY DEF Check
<1>2. CASE Acknowledge(r)
  BY <1>1, <1>2, AcknowledgeType, FilesStay, Ends DEF LoginSteps
<1>3. CASE Fail(r)
  BY <1>1, <1>3, FilesStay, Ends DEF Fail, history, TypeInv, TypeOK
<1>4. ASSUME NEW s \in {"unlink", "absent"}, Goto(r, s), UNCHANGED <<ctx, history>>
      PROVE  TypeInv'
  <2>1. pc'[r] = s /\ LocalsOf(r)
    BY <1>4 DEF Goto, TypeInv, TypeOK
  <2>2. LocalsOf(r)'
    BY <1>1, <1>4, <2>1 DEF LocalsOf, LoginSteps
  <2> QED
    BY <1>1, <1>4, <2>2, FilesStay, Continues DEF Steps, LoginSteps
<1> QED
  BY <1>2, <1>3, <1>4 DEF Check

LEMMA UnlinkType ==
    ASSUME TypeInv, NEW r \in Requests, Unlink(r) PROVE TypeInv'
<1>1. pc[r] = "unlink" /\ UNCHANGED <<now, cache, crashed>>
  BY DEF Unlink
<1>2. /\ file' \in [Parties -> File \cup {None}]
      /\ \A p \in Parties : file'[p] # None /\ file'[p].writer # None =>
            file'[p].writer # r /\ file[p] # None /\ file'[p].writer = file[p].writer
  BY <1>1, EditLocals DEF Unlink, TypeInv, TypeOK, LoginSteps
<1>3. CASE Acknowledge(r)
  BY <1>1, <1>2, <1>3, AcknowledgeType, Ends DEF LoginSteps
<1>4. CASE Fail(r)
  BY <1>1, <1>2, <1>4, Ends DEF Fail, history, TypeInv, TypeOK
<1>5. CASE Goto(r, "absent") /\ UNCHANGED <<ctx, history>>
  <2>1. pc'[r] = "absent" /\ LocalsOf(r)
    BY <1>5 DEF Goto, TypeInv, TypeOK
  <2>2. LocalsOf(r)'
    BY <1>1, <1>5, <2>1 DEF LocalsOf, LoginSteps
  <2> QED
    BY <1>1, <1>2, <1>5, <2>2, Continues DEF Steps, LoginSteps
<1> QED
  BY <1>3, <1>4, <1>5 DEF Unlink

LEMMA AbsentType ==
    ASSUME TypeInv, NEW r \in Requests, Absent(r) PROVE TypeInv'
<1>1. pc[r] = "absent" /\ UNCHANGED <<now, file, cache, crashed>>
  BY DEF Absent
<1>2. ctx[r] \in Context /\ LocalsOf(r)
  BY <1>1, EditLocals DEF TypeInv, LoginSteps
<1>3. CASE Fail(r)
  BY <1>1, <1>3, FilesStay, Ends DEF Fail, history, TypeInv, TypeOK
<1>4. CASE Goto(r, "open") /\ UNCHANGED history
           /\ ctx' = IF Op(r).kind = "create" THEN [ctx EXCEPT ![r].copy = New] ELSE ctx
  <2> DEFINE x == IF Op(r).kind = "create" THEN [ctx[r] EXCEPT !.copy = New] ELSE ctx[r]
  <2>1. New \in Party
    BY DEF New, Party
  <2>2. /\ x \in Context /\ x.op = ctx[r].op
        /\ Op(r).kind = "create" => x.copy = New
        /\ Op(r).kind # "create" => x = ctx[r]
    BY <1>2, <2>1 DEF Context
  <2>3. ctx' = [ctx EXCEPT ![r] = x]
    BY <1>4 DEF TypeInv, TypeOK
  <2> HIDE DEF x
  <2>4. pc'[r] = "open" /\ ctx'[r] = x
    BY <1>4, <2>3 DEF Goto, TypeInv, TypeOK
  <2>5. LocalsOf(r)'
    BY <1>1, <1>2, <2>1, <2>2, <2>4 DEF LocalsOf, Op, LoginSteps
  <2>6. cache' \in [Jtis -> 0..(MaxTime + ClockSkew) \cup {None}]
    BY <1>1 DEF TypeInv, TypeOK
  <2>7. "open" \in Steps \ {"idle"} /\ pc[r] \notin {"idle", "write"} \cup LoginSteps
        /\ "open" \notin LoginSteps
    BY <1>1 DEF Steps, LoginSteps
  <2>8. x \in Context /\ x.op = ctx[r].op
    BY <2>2
  <2>9. /\ file' \in [Parties -> File \cup {None}]
        /\ \A p \in Parties : file'[p] # None /\ file'[p].writer # None =>
              file'[p].writer # r /\ file[p] # None /\ file'[p].writer = file[p].writer
    BY <1>1, <2>7, FilesStay
  <2>10. Goto(r, "open") /\ UNCHANGED <<now, crashed, history>>
    BY <1>1, <1>4
  <2> QED
    BY <2>3, <2>5, <2>6, <2>7, <2>8, <2>9, <2>10, GoesOn
<1> QED
  BY <1>3, <1>4 DEF Absent

LEMMA OpenFileType ==
    ASSUME TypeInv, NEW r \in Requests, OpenFile(r) PROVE TypeInv'
<1>1. pc[r] = "open" /\ UNCHANGED <<now, cache, crashed>>
  BY DEF OpenFile
<1>2. ctx[r] \in Context /\ LocalsOf(r) /\ Target(r) \in Parties
  BY <1>1, EditLocals DEF TypeInv, LoginSteps
<1>3. CASE Fail(r) /\ UNCHANGED file
  BY <1>1, <1>3, FilesStay, Ends DEF Fail, history, TypeInv, TypeOK
<1>4. CASE /\ file' = [file EXCEPT ![Target(r)] =
                          [text |-> IF Exists(Target(r)) THEN @.text ELSE Broken, writer |-> r]]
           /\ Goto(r, "write")
           /\ UNCHANGED <<ctx, history>>
  <2> DEFINE text == IF Exists(Target(r)) THEN file[Target(r)].text ELSE Broken
  <2>1. text \in Party \cup {Broken}
    BY <1>2 DEF Exists, TypeInv, TypeOK, File
  <2>2. file' = [file EXCEPT ![Target(r)] = [text |-> text, writer |-> r]]
    BY <1>4
  <2> HIDE DEF text
  <2>3. /\ file' \in [Parties -> File \cup {None}]
        /\ \A p \in Parties : file'[p] # None /\ file'[p].writer # None =>
               \/ file'[p].writer = r /\ ctx[r].op.party = p
               \/ file'[p].writer # r /\ file[p] # None /\ file'[p].writer = file[p].writer
    <3>1. [text |-> text, writer |-> r] \in File
      BY <2>1 DEF File
    <3> QED
      BY <1>1, <1>2, <2>2, <3>1 DEF TypeInv, TypeOK, Target, Op
  <2>4. pc'[r] = "write"
    BY <1>4 DEF Goto, TypeInv, TypeOK
  <2>5. LocalsOf(r)'
    BY <1>1, <1>2, <1>4, <2>4 DEF LocalsOf, LoginSteps
  <2> QED
    BY <1>1, <1>4, <2>3, <2>5, Continues DEF Steps, LoginSteps
<1> QED
  BY <1>3, <1>4 DEF OpenFile

LEMMA WriteFileType ==
    ASSUME TypeInv, NEW r \in Requests, WriteFile(r) PROVE TypeInv'
<1>1. /\ pc[r] = "write" /\ Acknowledge(r) /\ UNCHANGED <<now, cache, crashed>>
  BY DEF WriteFile
<1>2. ctx[r].copy \in Party /\ Target(r) \in Parties
  BY <1>1, EditLocals DEF TypeInv, LocalsOf, LoginSteps
<1>3. /\ file' \in [Parties -> File \cup {None}]
      /\ \A p \in Parties : file'[p] # None /\ file'[p].writer # None =>
            file'[p].writer # r /\ file[p] # None /\ file'[p].writer = file[p].writer
  <2>1. CASE Held(Target(r)) /\ file[Target(r)].writer = r
    <3>1. PICK text \in Party \cup {Broken} :
             file' = [file EXCEPT ![Target(r)] = [text |-> text, writer |-> None]]
      BY <1>2, <2>1 DEF WriteFile
    <3>2. [text |-> text, writer |-> None] \in File
      BY DEF File
    <3>3. \A p \in Parties : file[p] # None /\ file[p].writer = r => p = Target(r)
      <4>1. r # None
        BY <2>1 DEF Held
      <4> QED
        BY <4>1 DEF TypeInv, TypeOK, Target, Op
    <3> QED
      BY <1>2, <3>1, <3>2, <3>3 DEF TypeInv, TypeOK
  <2>2. CASE ~(Held(Target(r)) /\ file[Target(r)].writer = r)
    <3>1. file' = file
      BY <2>2 DEF WriteFile
    <3>2. \A p \in Parties : file[p] # None /\ file[p].writer # None => file[p].writer # r
      BY <1>1, <2>2 DEF Held, Exists, TypeInv, TypeOK, Target, Op
    <3> QED
      BY <3>1, <3>2 DEF TypeInv, TypeOK
  <2> QED
    BY <2>1, <2>2
<1> QED
  BY <1>1, <1>3, AcknowledgeType, Ends DEF LoginSteps

\* An authentication that goes on, or comes to its end.
LEMMA LoginGoesOn ==
    ASSUME TypeInv, NEW r \in Requests, pc[r] \in LoginSteps,
           NEW s \in LoginSteps, NEW x \in Context,
           Goto(r, s), ctx' = [ctx EXCEPT ![r] = x], x.op = ctx[r].op, Silent,
           cache' \in [Jtis -> 0..(MaxTime + ClockSkew) \cup {None}],
           s = "validate" => x.copy \in Party,
           s \in {"exists", "cache"} =>
              x.op.credential.type = "jwt" /\ x.by \in Secrets,
           s \in {"exists", "cache", "vault"} => x.todo \subseteq Secrets
    PROVE  TypeInv'
<1>1. pc'[r] = s /\ ctx'[r] = x
  BY DEF Goto, TypeInv, TypeOK
<1>2. LocalsOf(r)'
  BY <1>1 DEF LocalsOf, LoginSteps
<1>3. s \in Steps \ {"idle"} /\ pc[r] \notin {"idle", "write"}
  BY DEF Steps, LoginSteps
<1>4. UNCHANGED <<now, file, crashed, history>>
  BY DEF Silent
<1>5. /\ file' \in [Parties -> File \cup {None}]
      /\ \A p \in Parties : file'[p] # None /\ file'[p].writer # None =>
            file'[p].writer # r /\ file[p] # None /\ file'[p].writer = file[p].writer
  BY <1>3, <1>4, FilesStay
<1> QED
  BY <1>2, <1>3, <1>4, <1>5, GoesOn

\* An authentication that goes on with what it has.
LEMMA LoginStays ==
    ASSUME TypeInv, NEW r \in Requests, pc[r] \in LoginSteps, NEW s \in LoginSteps,
           Goto(r, s), UNCHANGED <<ctx, cache>>, Silent,
           s = "validate" => ctx[r].copy \in Party,
           s \in {"exists", "cache"} =>
              ctx[r].op.credential.type = "jwt" /\ ctx[r].by \in Secrets,
           s \in {"exists", "cache", "vault"} => ctx[r].todo \subseteq Secrets
    PROVE  TypeInv'
<1>1. ctx[r] \in Context /\ ctx' = [ctx EXCEPT ![r] = ctx[r]]
  BY LoginLocals DEF TypeInv, TypeOK
<1>2. cache' \in [Jtis -> 0..(MaxTime + ClockSkew) \cup {None}]
  BY LoginLocals
<1> QED
  BY <1>1, <1>2, LoginGoesOn

LEMMA RefuseType ==
    ASSUME TypeInv, NEW r \in Requests, pc[r] \in LoginSteps, Refuse(r), Silent, UNCHANGED cache
    PROVE  TypeInv'
BY LoginStays DEF Refuse, LoginSteps

LEMMA AcceptType ==
    ASSUME TypeInv, NEW r \in Requests, pc[r] \in LoginSteps, NEW s \in Secrets, Accept(r, s),
           Silent, cache' \in [Jtis -> 0..(MaxTime + ClockSkew) \cup {None}]
    PROVE  TypeInv'
<1> DEFINE x == [ctx[r] EXCEPT !.by = s, !.todo = {}]
<1>1. x \in Context /\ x.op = ctx[r].op
  BY LoginLocals DEF Context
<1>2. Goto(r, "accepted") /\ ctx' = [ctx EXCEPT ![r] = x]
  <2>1. ctx' = [ctx EXCEPT ![r].by = s, ![r].todo = {}] /\ ctx[r] \in Context
    BY LoginLocals DEF Accept
  <2>2. ctx \in [Requests -> Context \cup {None}]
    BY DEF TypeInv, TypeOK
  <2> QED
    BY <2>1, <2>2 DEF Accept, Context
<1> HIDE DEF x
<1> QED
  BY <1>1, <1>2, LoginGoesOn DEF LoginSteps

LEMMA FindClientType ==
    ASSUME TypeInv, NEW r \in Requests, FindClient(r) PROVE TypeInv'
<1>1. pc[r] = "find" /\ pc[r] \in LoginSteps /\ Silent /\ UNCHANGED cache
  BY DEF FindClient, LoginSteps
<1>2. CASE Refuse(r)
  BY <1>1, <1>2, RefuseType
<1>3. CASE /\ Readable(Target(r)) /\ Goto(r, "validate")
           /\ ctx' = [ctx EXCEPT ![r].copy = file[Target(r)].text]
  <2> DEFINE x == [ctx[r] EXCEPT !.copy = file[Target(r)].text]
  <2>1. file[Target(r)].text \in Party
    BY <1>1, <1>3, LoginLocals DEF Readable, Exists, TypeInv, TypeOK, File
  <2>2. x \in Context /\ x.op = ctx[r].op /\ x.copy \in Party
    BY <1>1, <2>1, LoginLocals DEF Context
  <2>3. ctx' = [ctx EXCEPT ![r] = x]
    BY <1>3
  <2> HIDE DEF x
  <2> QED
    BY <1>1, <1>3, <2>2, <2>3, LoginLocals, LoginGoesOn DEF LoginSteps
<1> QED
  BY <1>2, <1>3 DEF FindClient

LEMMA ListApisType ==
    ASSUME TypeInv, NEW r \in Requests, ListApis(r) PROVE TypeInv'
<1> DEFINE x == [ctx[r] EXCEPT !.todo = {p \in Apis : Exists(p)}]
<1>1. /\ pc[r] = "list" /\ pc[r] \in LoginSteps /\ Silent /\ UNCHANGED cache
      /\ Goto(r, "scan") /\ ctx' = [ctx EXCEPT ![r] = x]
  BY DEF ListApis, LoginSteps
<1>2. x \in Context /\ x.op = ctx[r].op
  BY <1>1, LoginLocals DEF Context, Parties
<1> HIDE DEF x
<1> QED
  BY <1>1, <1>2, LoginLocals, LoginGoesOn DEF LoginSteps

LEMMA ReadApiType ==
    ASSUME TypeInv, NEW r \in Requests, ReadApi(r) PROVE TypeInv'
<1>1. pc[r] = "scan" /\ pc[r] \in LoginSteps /\ Silent /\ UNCHANGED cache
  BY DEF ReadApi, LoginSteps
<1>2. PICK p \in ctx[r].todo :
         \/ Refuse(r)
         \/ /\ Readable(p) /\ UNCHANGED pc
            /\ ctx' = [ctx EXCEPT ![r].todo = @ \ {p},
                                  ![r].copy = IF p = Target(r) THEN file[p].text ELSE @]
  BY DEF ReadApi
<1>3. CASE Refuse(r)
  BY <1>1, <1>3, RefuseType
<1>4. CASE /\ Readable(p) /\ UNCHANGED pc
           /\ ctx' = [ctx EXCEPT ![r].todo = @ \ {p},
                                 ![r].copy = IF p = Target(r) THEN file[p].text ELSE @]
  <2> DEFINE c == IF p = Target(r) THEN file[p].text ELSE ctx[r].copy
             x == [ctx[r] EXCEPT !.todo = @ \ {p}, !.copy = c]
  <2>1. c \in Party \cup {None}
    BY <1>1, <1>4, LoginLocals DEF Readable, Exists, TypeInv, TypeOK, File, Context
  <2>2. ctx' = [ctx EXCEPT ![r] = x]
    <3>1. ctx \in [Requests -> Context \cup {None}] /\ ctx[r] \in Context
      BY <1>1, LoginLocals DEF TypeInv, TypeOK
    <3>2. ctx' = [ctx EXCEPT ![r].todo = @ \ {p}, ![r].copy = c]
      BY <1>4, <3>1 DEF Context
    <3> HIDE DEF c
    <3> QED
      BY <3>1, <3>2 DEF Context
  <2> HIDE DEF c
  <2>3. x \in Context /\ x.op = ctx[r].op
    BY <1>1, <2>1, LoginLocals DEF Context
  <2>4. Goto(r, "scan")
    BY <1>1, <1>4 DEF Goto, TypeInv, TypeOK
  <2> HIDE DEF x
  <2> QED
    BY <1>1, <2>2, <2>3, <2>4, LoginLocals, LoginGoesOn DEF LoginSteps
<1> QED
  BY <1>2, <1>3, <1>4

LEMMA FindApiType ==
    ASSUME TypeInv, NEW r \in Requests, FindApi(r) PROVE TypeInv'
<1>1. pc[r] = "scan" /\ pc[r] \in LoginSteps /\ Silent /\ UNCHANGED cache
  BY DEF FindApi, LoginSteps
<1>2. CASE Refuse(r)
  BY <1>1, <1>2, RefuseType
<1>3. CASE ctx[r].copy # None /\ Goto(r, "validate") /\ UNCHANGED ctx
  <2>1. ctx[r].copy \in Party
    BY <1>1, <1>3, LoginLocals DEF Context
  <2> QED
    BY <1>1, <1>3, <2>1, LoginStays DEF LoginSteps
<1> QED
  BY <1>2, <1>3 DEF FindApi

\* The secrets of the copy that are still good.
LEMMA CurrentSecrets ==
    ASSUME NEW r, ctx[r].copy \in Party
    PROVE  /\ Current(r) \subseteq ctx[r].copy.secrets /\ Current(r) \subseteq Secrets
           /\ \A type : Matching(r, type) \subseteq Current(r)
BY DEF Current, Matching, Party

LEMMA ValidateType ==
    ASSUME TypeInv, NEW r \in Requests, Validate(r) PROVE TypeInv'
<1> DEFINE vault == {v \in Current(r) : v.type = "vault"}
<1>1. pc[r] = "validate" /\ pc[r] \in LoginSteps /\ Silent /\ UNCHANGED cache
  BY DEF Validate, LoginSteps
<1>2. ctx[r].copy \in Party /\ vault \subseteq Secrets
      /\ \A type : Matching(r, type) \subseteq Secrets
  BY <1>1, CurrentSecrets DEF TypeInv, LocalsOf
<1>3. CASE \E s \in Matching(r, "shared") : Accept(r, s)
  BY <1>1, <1>2, <1>3, LoginLocals, AcceptType
<1>4. CASE /\ Presented(r).type = "jwt" /\ Goto(r, "exists")
           /\ \E s \in Matching(r, "key") :
                 ctx' = [ctx EXCEPT ![r].by = s, ![r].todo = vault]
  <2>1. PICK s \in Matching(r, "key") :
           ctx' = [ctx EXCEPT ![r].by = s, ![r].todo = vault]
    BY <1>4
  <2> DEFINE x == [ctx[r] EXCEPT !.by = s, !.todo = vault]
  <2>2. s \in Secrets
    BY <1>2, <2>1
  <2> HIDE DEF vault
  <2>3. /\ x \in Context /\ x.op = ctx[r].op /\ x.by = s /\ x.todo = vault
    BY <1>1, <1>2, <2>2, LoginLocals DEF Context, Parties
  <2>4. ctx' = [ctx EXCEPT ![r] = x]
    <3>1. ctx \in [Requests -> Context \cup {None}] /\ ctx[r] \in Context
      BY <1>1, LoginLocals DEF TypeInv, TypeOK
    <3> QED
      BY <2>1, <3>1 DEF Context
  <2>5. x.op.credential.type = "jwt"
    BY <1>4, <2>3 DEF Presented, Op
  <2> HIDE DEF x
  <2> QED
    BY <1>1, <1>2, <1>4, <2>2, <2>3, <2>4, <2>5, LoginLocals, LoginGoesOn DEF LoginSteps
<1>5. CASE AskVault(r)
  <2> DEFINE x == [ctx[r] EXCEPT !.todo = vault]
  <2>1. Goto(r, "vault") /\ ctx' = [ctx EXCEPT ![r] = x]
    BY <1>5 DEF AskVault
  <2> HIDE DEF vault
  <2>2. x \in Context /\ x.op = ctx[r].op /\ x.todo = vault
    BY <1>1, <1>2, LoginLocals DEF Context, Parties
  <2> HIDE DEF x
  <2> QED
    BY <1>1, <1>2, <2>1, <2>2, LoginLocals, LoginGoesOn DEF LoginSteps
<1> QED
  BY <1>3, <1>4, <1>5 DEF Validate, SignedInTime

LEMMA ExistsJtiType ==
    ASSUME TypeInv, NEW r \in Requests, ExistsJti(r) PROVE TypeInv'
<1>1. pc[r] = "exists" /\ pc[r] \in LoginSteps /\ Silent /\ UNCHANGED cache
  BY DEF ExistsJti, LoginSteps
<1>2. LocalsOf(r)
  BY DEF TypeInv
<1>3. CASE Goto(r, "vault") /\ ctx' = [ctx EXCEPT ![r].by = None]
  <2> DEFINE x == [ctx[r] EXCEPT !.by = None]
  <2>1. x \in Context /\ x.op = ctx[r].op /\ x.todo = ctx[r].todo
    BY <1>1, LoginLocals DEF Context
  <2>2. ctx' = [ctx EXCEPT ![r] = x]
    BY <1>3
  <2>3. x.todo \subseteq Secrets
    BY <1>1, <1>2, <2>1 DEF LocalsOf
  <2> HIDE DEF x
  <2> QED
    BY <1>1, <1>3, <2>1, <2>2, <2>3, LoginLocals, LoginGoesOn DEF LoginSteps
<1>4. CASE Goto(r, "cache") /\ UNCHANGED ctx
  BY <1>1, <1>2, <1>4, LoginStays DEF LocalsOf, LoginSteps
<1> QED
  BY <1>3, <1>4 DEF ExistsJti

LEMMA AddJtiType ==
    ASSUME TypeInv, NEW r \in Requests, AddJti(r) PROVE TypeInv'
<1>1. pc[r] = "cache" /\ pc[r] \in LoginSteps /\ Silent /\ Accept(r, ctx[r].by)
  BY DEF AddJti, LoginSteps
<1>2. ctx[r].by \in Secrets /\ Presented(r).type = "jwt"
  BY <1>1 DEF TypeInv, LocalsOf, Presented, Op
<1>3. Presented(r).exp + ClockSkew \in 0..(MaxTime + ClockSkew)
  <2>1. Presented(r).exp \in Times
    BY <1>1, <1>2, LoginLocals DEF Credential
  <2> QED
    BY <2>1, ClientAuthAssumption DEF Times
<1>4. cache' \in [Jtis -> 0..(MaxTime + ClockSkew) \cup {None}]
  BY <1>1, <1>3, LoginLocals DEF AddJti
<1> QED
  BY <1>1, <1>2, <1>4, AcceptType

LEMMA ReadVaultType ==
    ASSUME TypeInv, NEW r \in Requests, ReadVault(r) PROVE TypeInv'
<1>1. pc[r] = "vault" /\ pc[r] \in LoginSteps /\ Silent /\ UNCHANGED cache
  BY DEF ReadVault, LoginSteps
<1>2. ctx[r].todo \subseteq Secrets
  BY <1>1 DEF TypeInv, LocalsOf
<1>3. PICK s \in ctx[r].todo :
         \/ Accept(r, s)
         \/ ctx' = [ctx EXCEPT ![r].todo = @ \ {s}] /\ UNCHANGED pc
         \/ Refuse(r)
  BY DEF ReadVault
<1>4. CASE Accept(r, s)
  BY <1>1, <1>2, <1>4, LoginLocals, AcceptType
<1>5. CASE Refuse(r)
  BY <1>1, <1>5, RefuseType
<1>6. CASE ctx' = [ctx EXCEPT ![r].todo = @ \ {s}] /\ UNCHANGED pc
  <2> DEFINE x == [ctx[r] EXCEPT !.todo = @ \ {s}]
  <2>1. x \in Context /\ x.op = ctx[r].op /\ x.todo \subseteq Secrets
    BY <1>1, <1>2, LoginLocals DEF Context
  <2>2. Goto(r, "vault") /\ ctx' = [ctx EXCEPT ![r] = x]
    BY <1>1, <1>6 DEF Goto, TypeInv, TypeOK
  <2> HIDE DEF x
  <2> QED
    BY <1>1, <2>1, <2>2, LoginLocals, LoginGoesOn DEF LoginSteps
<1> QED
  BY <1>3, <1>4, <1>5, <1>6

LEMMA RefuseAllType ==
    ASSUME TypeInv, NEW r \in Requests, RefuseAll(r) PROVE TypeInv'
BY RefuseType DEF RefuseAll, LoginSteps

LEMMA AnswerType ==
    ASSUME TypeInv, NEW r \in Requests, Answer(r) PROVE TypeInv'
<1>1. /\ pc[r] \in LoginSteps /\ pc[r] # "write" /\ Finish(r)
      /\ UNCHANGED <<now, file, cache, crashed, wanted, possible>>
  BY DEF Answer, LoginSteps
<1>2. used' \subseteq Credential
  BY <1>1, LoginLocals DEF Answer, TypeInv, TypeOK
<1>3. /\ wanted' \in [Parties -> Party \cup {None, Unknown}]
      /\ possible' \in [Parties -> SUBSET Secrets]
  BY <1>1 DEF TypeInv, TypeOK
<1> QED
  BY <1>1, <1>2, <1>3, FilesStay, Ends

LEMMA StepType ==
    ASSUME TypeInv, NEW r \in Requests, Step(r) PROVE TypeInv'
BY LoadType, CheckType, UnlinkType, AbsentType, OpenFileType, WriteFileType, FindClientType,
   ListApisType, ReadApiType, FindApiType, ValidateType, ExistsJtiType, AddJtiType,
   ReadVaultType, RefuseAllType, AnswerType DEF Step

LEMMA TypeInvNext == TypeInv /\ [Next]_vars => TypeInv'
BY StepType, SubmitType, CrashType, OtherType DEF Next

\* Variables keep their types, a request its locals, and a file that is being
\* written has its writer.
THEOREM TypeCorrect == Spec => []TypeOK
<1>1. TypeInv => TypeOK
  BY DEF TypeInv
<1> QED
  BY <1>1, TypeInvInit, TypeInvNext, PTL DEF Spec

-----------------------------------------------------------------------------
\* What Submit leaves of the requests under way.
LEMMA SubmitKeeps ==
    ASSUME TypeInv, NEW r \in Requests, NEW op \in Edits \cup Logins, Submit(r, op),
           NEW q \in Requests \ {r}
    PROVE  /\ pc'[q] = pc[q]
           /\ pc[q] # "idle" =>
                 /\ ctx[q] \in Context
                 /\ ctx'[q].op = ctx[q].op /\ ctx'[q].copy = ctx[q].copy
                 /\ ctx'[q].todo = ctx[q].todo /\ ctx'[q].by = ctx[q].by
                 /\ ctx'[q].barred = ctx[q].barred
<1>1. pc'[q] = pc[q]
  <2>1. PICK s : pc' = [pc EXCEPT ![r] = s]
    BY DEF Submit, Goto
  <2> QED
    BY <2>1 DEF TypeInv, TypeOK
<1>2. ASSUME pc[q] # "idle"
      PROVE  /\ ctx[q] \in Context
             /\ ctx'[q].op = ctx[q].op /\ ctx'[q].copy = ctx[q].copy
             /\ ctx'[q].todo = ctx[q].todo /\ ctx'[q].by = ctx[q].by
             /\ ctx'[q].barred = ctx[q].barred
  <2>1. ctx[q] \in Context /\ q \in Active
    BY <1>2 DEF Active, TypeInv, TypeOK
  <2>2. CASE op \notin Edits
    BY <2>1, <2>2 DEF Submit
  <2>3. CASE op \in Edits /\ Op(q) \in Edits
    <3>1. ctx'[q] = [ctx[q] EXCEPT !.disturbed = @ \/ Target(q) = op.party]
      BY <2>1, <2>3 DEF Submit
    <3> QED
      BY <2>1, <3>1 DEF Context
  <2>4. CASE op \in Edits /\ Op(q) \notin Edits
    <3>1. PICK d, a : ctx'[q] = [ctx[q] EXCEPT !.disturbed = d, !.allowed = a]
      BY <2>1, <2>4 DEF Submit
    <3> QED
      BY <2>1, <3>1 DEF Context
  <2> QED
    BY <2>2, <2>3, <2>4
<1> QED
  BY <1>1, <1>2

\* The request that comes.
LEMMA SubmitBrings ==
    ASSUME TypeInv, NEW r \in Requests, NEW op \in Edits \cup Logins, Submit(r, op)
    PROVE  /\ pc[r] = "idle" /\ pc'[r] = FirstStep(op)
           /\ pc'[r] \in {"absent", "load", "find", "list"}
           /\ pc'[r] \in {"find", "list"} <=> op \in Logins
           /\ pc'[r] = "absent" => op.kind = "create"
           /\ ctx'[r].op = op /\ ctx'[r].copy = None
           /\ op \notin Edits => ctx'[r].allowed = possible[op.party]
           /\ ctx'[r].barred \subseteq used
           /\ op \in Edits => (ctx'[r].disturbed <=> Editing(op.party) # {})
<1>1. pc[r] = "idle" /\ pc'[r] = FirstStep(op)
  <2>1. pc[r] = "idle" /\ pc' = [pc EXCEPT ![r] = FirstStep(op)]
    BY DEF Submit, Goto
  <2> QED
    BY <2>1 DEF TypeInv, TypeOK
<1>2. /\ ctx'[r].op = op /\ ctx'[r].copy = None
      /\ ctx'[r].allowed = IF op \in Edits THEN {} ELSE possible[op.party]
      /\ ctx'[r].barred = IF op \in Edits THEN {} ELSE used
      /\ op \in Edits => ctx'[r].disturbed = (op \in Edits /\ Editing(op.party) # {})
  BY DEF Submit
<1>3. /\ pc'[r] \in {"absent", "load", "find", "list"}
      /\ pc'[r] \in {"find", "list"} <=> op \in Logins
      /\ pc'[r] = "absent" => op.kind = "create"
  <2>1. CASE op \in Edits
    BY <1>1, <2>1, Kinds DEF FirstStep
  <2>2. CASE op \in Logins
    BY <1>1, <2>2, Kinds DEF FirstStep
  <2> QED
    BY <2>1, <2>2
<1> QED
  BY <1>1, <1>2, <1>3

\* A request under way keeps its operation and what was used before it came.
LEMMA StepKeeps ==
    ASSUME TypeInv, NEW r \in Requests, Step(r)
    PROVE  /\ \A q \in Requests \ {r} : pc'[q] = pc[q] /\ ctx'[q] = ctx[q]
           /\ pc[r] # "idle" /\ ctx[r] \in Context
           /\ pc'[r] # "idle" =>
                 /\ ctx'[r].op = ctx[r].op
                 /\ ctx'[r].barred = ctx[r].barred /\ ctx'[r].allowed = ctx[r].allowed
                 /\ ctx'[r].disturbed = ctx[r].disturbed
           /\ now' = now
<1> DEFINE Kept == /\ \A q \in Requests \ {r} : pc'[q] = pc[q] /\ ctx'[q] = ctx[q]
                   /\ pc'[r] # "idle" =>
                         /\ ctx'[r].op = ctx[r].op
                         /\ ctx'[r].barred = ctx[r].barred /\ ctx'[r].allowed = ctx[r].allowed
                         /\ ctx'[r].disturbed = ctx[r].disturbed
<1>1. pc[r] # "idle" /\ ctx[r] \in Context /\ now' = now
  <2>1. pc[r] # "idle" /\ now' = now
    BY DEF Step, Load, Check, Unlink, Absent, OpenFile, WriteFile, FindClient, ListApis, ReadApi,
       FindApi, Validate, ExistsJti, AddJti, ReadVault, RefuseAll, Answer, Silent
  <2> QED
    BY <2>1 DEF TypeInv, TypeOK
<1>2. /\ pc \in [Requests -> Steps] /\ ctx \in [Requests -> Context \cup {None}]
  BY DEF TypeInv, TypeOK
<1>3. ASSUME Finish(r) PROVE Kept
  BY <1>2, <1>3 DEF Finish, Goto
<1>4. ASSUME NEW s, Goto(r, s), UNCHANGED ctx PROVE Kept
  BY <1>2, <1>4 DEF Goto
<1>5. ASSUME UNCHANGED pc \/ \E s : Goto(r, s),
             \/ \E c : ctx' = [ctx EXCEPT ![r].copy = c]
             \/ \E t : ctx' = [ctx EXCEPT ![r].todo = t]
             \/ \E b : ctx' = [ctx EXCEPT ![r].by = b]
             \/ \E t, c : ctx' = [ctx EXCEPT ![r].todo = t, ![r].copy = c]
             \/ \E b, t : ctx' = [ctx EXCEPT ![r].by = b, ![r].todo = t]
      PROVE  Kept
  <2>1. \A q \in Requests \ {r} : pc'[q] = pc[q] /\ ctx'[q] = ctx[q]
    BY <1>2, <1>5 DEF Goto
  <2>2. /\ ctx'[r].op = ctx[r].op
        /\ ctx'[r].barred = ctx[r].barred /\ ctx'[r].allowed = ctx[r].allowed
        /\ ctx'[r].disturbed = ctx[r].disturbed
    <3> DEFINE Same(x) == /\ x.op = ctx[r].op /\ x.barred = ctx[r].barred
                          /\ x.allowed = ctx[r].allowed /\ x.disturbed = ctx[r].disturbed
    <3>1. \A c : Same([ctx[r] EXCEPT !.copy = c])
      BY <1>1 DEF Context
    <3>2. \A c : Same([ctx[r] EXCEPT !.todo = c])
      BY <1>1 DEF Context
    <3>3. \A c : Same([ctx[r] EXCEPT !.by = c])
      BY <1>1 DEF Context
    <3> SUFFICES Same(ctx'[r])
      OBVIOUS
    <3> HIDE DEF Same
    <3>6. CASE \E c : ctx' = [ctx EXCEPT ![r].copy = c]
      BY <1>2, <3>1, <3>6
    <3>7. CASE \E c : ctx' = [ctx EXCEPT ![r].todo = c]
      BY <1>2, <3>2, <3>7
    <3>8. CASE \E c : ctx' = [ctx EXCEPT ![r].by = c]
      BY <1>2, <3>3, <3>8
    <3>9. CASE \E b, c : ctx' = [ctx EXCEPT ![r].todo = b, ![r].copy = c]
      <4>1. PICK b, c : ctx' = [ctx EXCEPT ![r].todo = b, ![r].copy = c]
        BY <3>9
      <4>2. ctx'[r] = [ctx[r] EXCEPT !.todo = b, !.copy = c]
        BY <1>1, <1>2, <4>1 DEF Context
      <4> QED
        BY <1>1, <4>2 DEF Same, Context
    <3>10. CASE \E b, c : ctx' = [ctx EXCEPT ![r].by = b, ![r].todo = c]
      <4>1. PICK b, c : ctx' = [ctx EXCEPT ![r].by = b, ![r].todo = c]
        BY <3>10
      <4>2. ctx'[r] = [ctx[r] EXCEPT !.by = b, !.todo = c]
        BY <1>1, <1>2, <4>1 DEF Context
      <4> QED
        BY <1>1, <4>2 DEF Same, Context
    <3> QED
      BY <1>5, <3>6, <3>7, <3>8, <3>9, <3>10
  <2> QED
    BY <2>1, <2>2
<1> SUFFICES Kept
  BY <1>1
<1> HIDE DEF Kept
<1>6. CASE Load(r)
  BY <1>3, <1>4, <1>5, <1>6 DEF Load, Acknowledge, Fail
<1>7. CASE Check(r) \/ Unlink(r)
  BY <1>3, <1>4, <1>5, <1>7 DEF Check, Unlink, Acknowledge, Fail
<1>8. CASE Absent(r)
  BY <1>3, <1>4, <1>5, <1>8 DEF Absent, Fail
<1>9. CASE OpenFile(r) \/ WriteFile(r) \/ Answer(r)
  BY <1>3, <1>4, <1>9 DEF OpenFile, WriteFile, Acknowledge, Fail, Answer
<1>10. CASE FindClient(r) \/ ListApis(r)
  BY <1>4, <1>5, <1>10 DEF FindClient, ListApis, Refuse
<1>11. CASE ReadApi(r)
  BY <1>4, <1>5, <1>11 DEF ReadApi, Refuse
<1>12. CASE FindApi(r) \/ RefuseAll(r)
  BY <1>4, <1>12 DEF FindApi, RefuseAll, Refuse
<1>13. CASE Validate(r)
  BY <1>5, <1>13 DEF Validate, Accept, AskVault
<1>14. CASE ExistsJti(r) \/ AddJti(r)
  BY <1>4, <1>5, <1>14 DEF ExistsJti, AddJti, Accept
<1>15. CASE ReadVault(r)
  BY <1>4, <1>5, <1>15 DEF ReadVault, Accept, Refuse
<1> QED
  BY <1>6, <1>7, <1>8, <1>9, <1>10, <1>11, <1>12, <1>13, <1>14, <1>15 DEF Step

-----------------------------------------------------------------------------
\* What the replay cache remembers is what requests were accepted with: a step that
\* leaves both alone, and brings no request to where an assertion is accepted.
LEMMA ReplayStays ==
    ASSUME ReplayInv, TypeInv', UNCHANGED <<cache, used>>, now' \in Times, now <= now',
           \A q \in Requests : pc'[q] # "idle" => 
              \/ ctx'[q].barred \subseteq used /\ pc'[q] \notin {"cache", "accepted"}
              \/ /\ pc[q] # "idle"
                 /\ ctx'[q].op = ctx[q].op /\ ctx'[q].barred = ctx[q].barred
                 /\ \/ pc'[q] = pc[q]
                    \/ pc'[q] \notin {"cache", "accepted"}
                    \/ ctx[q].op.credential.type # "jwt"
                    \/ /\ pc'[q] = "cache"
                       /\ ~Cached(ctx[q].op.credential.jti)
    PROVE  ReplayInv'
<1>1. \A a \in used : /\ Remembered(a)' /\ a.type = "jwt"
                      /\ \E l \in Logins : l.credential = a
  BY DEF ReplayInv, Remembered
<1>2. now \in Int /\ now' \in Int /\ ClockSkew \in Nat
  BY ClientAuthAssumption DEF ReplayInv, TypeInv, TypeOK, Times
<1>3. \A a \in used : a.exp \in Times
  <2> TAKE a \in used
  <2>1. a \in Credential /\ a.type = "jwt"
    BY DEF ReplayInv, TypeInv, TypeOK
  <2> QED
    BY <2>1 DEF Credential, Times
<1>4. ASSUME NEW q \in Requests PROVE Replays(q)'
  <2> DEFINE a == ctx[q].op.credential
  <2>1. CASE \/ pc'[q] = "idle"
             \/ ctx'[q].barred \subseteq used /\ pc'[q] \notin {"cache", "accepted"}
    BY <2>1 DEF Replays
  <2>2. CASE /\ pc[q] # "idle"
             /\ ctx'[q].op = ctx[q].op /\ ctx'[q].barred = ctx[q].barred
             /\ \/ pc'[q] \notin {"cache", "accepted"}
                \/ a.type # "jwt"
    BY <2>2 DEF ReplayInv, Replays
  <2>3. CASE /\ pc[q] # "idle" /\ pc'[q] = pc[q]
             /\ ctx'[q].op = ctx[q].op /\ ctx'[q].barred = ctx[q].barred
             /\ pc[q] \in {"cache", "accepted"} /\ a.type = "jwt"
    <3>1. a \in Credential /\ a.exp \in Int
      <4>1. a \in Credential
        BY <2>3, LoginLocals DEF ReplayInv, Presented, Op, LoginSteps
      <4> QED
        BY <2>3, <4>1 DEF Credential, Times
    <3>2. now' < a.exp + ClockSkew => now < a.exp + ClockSkew
      BY <1>2, <3>1
    <3>3. /\ ctx[q].barred \subseteq used
          /\ pc[q] = "accepted" => Remembered(a)
          /\ now < a.exp + ClockSkew => a \notin ctx[q].barred
      BY <2>3 DEF ReplayInv, Replays
    <3> QED
      BY <2>3, <3>2, <3>3 DEF Replays, Remembered
  <2>4. CASE /\ pc[q] # "idle" /\ pc'[q] = "cache"
             /\ ctx'[q].op = ctx[q].op /\ ctx'[q].barred = ctx[q].barred
             /\ ~Cached(a.jti)
    <3>1. a \in used => Remembered(a) /\ a.exp \in Int
      BY <1>3 DEF ReplayInv, Times
    <3>2. a \in used => ~(now' < a.exp + ClockSkew)
      <4>1. ASSUME a \in used PROVE a.exp + ClockSkew # None
        <5>1. a.exp + ClockSkew \in 0..(MaxTime + ClockSkew)
          BY <1>3, <4>1, ClientAuthAssumption DEF Times
        <5> QED
          BY <5>1, NoneAssumption
      <4> QED
        BY <2>4, <1>2, <3>1, <4>1 DEF Cached, Remembered
    <3> QED
      BY <2>4, <3>2 DEF ReplayInv, Replays
  <2> QED
    BY <2>1, <2>2, <2>3, <2>4
<1> QED
  BY <1>1, <1>4 DEF ReplayInv, Remembered

\* A step that has to do with no assertion, or asks for one that is not remembered.
LEMMA ReplayQuiet ==
    ASSUME ReplayInv, TypeInv', NEW r \in Requests, Step(r), ~AddJti(r), ~Answer(r)
    PROVE  ReplayInv'
<1>1. TypeInv
  BY DEF ReplayInv
<1>2. pc \in [Requests -> Steps]
  BY <1>1 DEF TypeInv, TypeOK
<1> DEFINE Quiet == \/ pc'[r] \notin {"cache", "accepted"}
                    \/ Presented(r).type # "jwt"
                    \/ pc'[r] = "cache" /\ ~Cached(Presented(r).jti)
           Unused == UNCHANGED <<cache, used>>
<1>3. Quiet /\ Unused
  <2>1. CASE Load(r) \/ Check(r) \/ Unlink(r) \/ Absent(r) \/ OpenFile(r) \/ WriteFile(r)
    BY <1>2, <2>1 DEF Load, Check, Unlink, Absent, OpenFile, WriteFile, Acknowledge, Fail, Finish,
       Goto, history
  <2>2. CASE FindClient(r) \/ ListApis(r) \/ ReadApi(r) \/ FindApi(r) \/ RefuseAll(r)
    BY <1>2, <2>2 DEF FindClient, ListApis, ReadApi, FindApi, RefuseAll, Refuse, Goto, Silent,
       history
  <2>3. CASE Validate(r)
    BY <1>2, <2>3 DEF Validate, Accept, AskVault, Goto, Silent, history
  <2>4. CASE ExistsJti(r)
    BY <1>2, <2>4 DEF ExistsJti, Goto, Silent, history
  <2>5. CASE ReadVault(r)
    BY <1>2, <2>5 DEF ReadVault, Accept, Refuse, Goto, Silent, history
  <2> QED
    BY <2>1, <2>2, <2>3, <2>4, <2>5 DEF Step
<1>4. /\ \A q \in Requests \ {r} : pc'[q] = pc[q] /\ ctx'[q] = ctx[q]
      /\ pc[r] # "idle"
      /\ pc'[r] # "idle" => ctx'[r].op = ctx[r].op /\ ctx'[r].barred = ctx[r].barred
      /\ now' = now
  BY <1>1, StepKeeps
<1>5. now' \in Times /\ now <= now'
  BY <1>1, <1>4 DEF TypeInv, TypeOK, Times
<1> QED
  BY <1>3, <1>4, <1>5, ReplayStays DEF Presented, Op

LEMMA ReplayOther ==
    ASSUME ReplayInv, TypeInv', Tick \/ UNCHANGED vars PROVE ReplayInv'
<1>1. /\ UNCHANGED <<cache, used, pc, ctx>>
      /\ now' \in Times /\ now <= now'
  BY ClientAuthAssumption DEF Tick, vars, history, ReplayInv, TypeInv, TypeOK, Times
<1> QED
  BY <1>1, ReplayStays

LEMMA ReplayCrash ==
    ASSUME ReplayInv, TypeInv', Crash PROVE ReplayInv'
BY DEF Crash, ReplayInv, Replays

LEMMA ReplaySubmit ==
    ASSUME ReplayInv, TypeInv', NEW r \in Requests, NEW op \in Edits \cup Logins, Submit(r, op)
    PROVE  ReplayInv'
<1>1. TypeInv
  BY DEF ReplayInv
<1>2. UNCHANGED <<now, cache, used>>
  BY DEF Submit
<1>5. now' \in Times /\ now <= now'
  BY <1>1, <1>2 DEF TypeInv, TypeOK, Times
<1>3. ASSUME NEW q \in Requests \ {r}, pc'[q] # "idle"
      PROVE  /\ pc[q] # "idle" /\ pc'[q] = pc[q]
             /\ ctx'[q].op = ctx[q].op /\ ctx'[q].barred = ctx[q].barred
  BY <1>1, <1>3, SubmitKeeps
<1>4. ctx'[r].barred \subseteq used /\ pc'[r] \notin {"cache", "accepted"}
  BY <1>1, SubmitBrings
<1> QED
  BY <1>2, <1>3, <1>4, <1>5, ReplayStays

\* An assertion is added: others with its jti are remembered as long.
LEMMA ReplayAdd ==
    ASSUME OneExpiry, ReplayInv, TypeInv', NEW r \in Requests, AddJti(r)
    PROVE  ReplayInv'
<1> DEFINE a == ctx[r].op.credential
<1>1. TypeInv /\ pc[r] = "cache" /\ Step(r)
  BY DEF ReplayInv, AddJti, Step
<1>2. /\ cache' = [cache EXCEPT ![a.jti] = a.exp + ClockSkew]
      /\ UNCHANGED used /\ pc'[r] = "accepted"
  BY <1>1 DEF AddJti, Accept, Goto, Silent, history, Presented, Op, TypeInv, TypeOK
<1>3. a.type = "jwt" /\ a \in Credential /\ \E l \in Logins : l.credential = a
  BY <1>1, LoginLocals DEF TypeInv, LocalsOf, Presented, Op, LoginSteps
<1>4. a.jti \in Jtis
  BY <1>3 DEF Credential
<1>5. ASSUME NEW b, b.type = "jwt", Remembered(b), \E l \in Logins : l.credential = b
      PROVE  Remembered(b)'
  <2>1. CASE b.jti = a.jti
    <3>1. b.exp = a.exp
      BY <1>3, <1>5, <2>1 DEF OneExpiry
    <3> QED
      BY <1>1, <1>2, <1>4, <2>1, <3>1 DEF Remembered, TypeInv, TypeOK
  <2>2. CASE b.jti # a.jti
    BY <1>1, <1>2, <1>5, <2>2 DEF Remembered, TypeInv, TypeOK
  <2> QED
    BY <2>1, <2>2
<1>6. \A b \in used : /\ Remembered(b)' /\ b.type = "jwt"
                      /\ \E l \in Logins : l.credential = b
  BY <1>5 DEF ReplayInv
<1>7. /\ \A q \in Requests \ {r} : pc'[q] = pc[q] /\ ctx'[q] = ctx[q]
      /\ ctx'[r].op = ctx[r].op /\ ctx'[r].barred = ctx[r].barred /\ now' = now
  BY <1>1, <1>2, StepKeeps
<1>8. ASSUME NEW q \in Requests \ {r} PROVE Replays(q)'
  <2>1. pc[q] = "accepted" => \E l \in Logins : l.credential = ctx[q].op.credential
    BY <1>1, LoginLocals DEF LoginSteps, Op
  <2>2. pc[q] = "accepted" /\ ctx[q].op.credential.type = "jwt" =>
           cache'[ctx[q].op.credential.jti] = ctx[q].op.credential.exp + ClockSkew
    BY <1>5, <2>1 DEF ReplayInv, Replays, Remembered
  <2> QED
    BY <1>2, <1>7, <2>2 DEF ReplayInv, Replays, Remembered
<1>9. Replays(r)'
  <2>1. cache'[a.jti] = a.exp + ClockSkew
    BY <1>1, <1>2, <1>4 DEF TypeInv, TypeOK
  <2>2. /\ ctx[r].barred \subseteq used
        /\ now < a.exp + ClockSkew => a \notin ctx[r].barred
    BY <1>1, <1>3 DEF ReplayInv, Replays
  <2> QED
    BY <1>2, <1>7, <2>1, <2>2 DEF Replays, Remembered
<1> QED
  BY <1>2, <1>6, <1>8, <1>9 DEF ReplayInv, Remembered

LEMMA ReplayAnswer ==
    ASSUME ReplayInv, TypeInv', NEW r \in Requests, Answer(r)
    PROVE  ReplayInv'
<1> DEFINE a == ctx[r].op.credential
<1>1. TypeInv /\ Step(r) /\ UNCHANGED <<now, cache>> /\ pc'[r] = "idle"
  BY DEF ReplayInv, Answer, Step, Finish, Goto, TypeInv, TypeOK
<1>2. used' = IF pc[r] = "accepted" /\ a.type = "jwt" THEN used \cup {a} ELSE used
  BY DEF Answer, Presented, Op
<1>3. pc[r] = "accepted" => \E l \in Logins : l.credential = a
  BY <1>1, LoginLocals DEF LoginSteps, Op
<1>4. pc[r] = "accepted" /\ a.type = "jwt" => Remembered(a)
  BY DEF ReplayInv, Replays
<1>5. \A b \in used' : /\ cache'[b.jti] = b.exp + ClockSkew /\ b.type = "jwt"
                       /\ \E l \in Logins : l.credential = b
  BY <1>1, <1>2, <1>3, <1>4 DEF ReplayInv, Remembered
<1>6. \A q \in Requests \ {r} : pc'[q] = pc[q] /\ ctx'[q] = ctx[q]
  BY <1>1, StepKeeps
<1>7. \A q \in Requests : Replays(q)'
  BY <1>1, <1>2, <1>6 DEF ReplayInv, Replays, Remembered
<1> QED
  BY <1>5, <1>7 DEF ReplayInv, Remembered

LEMMA ReplayNext ==
    ASSUME OneExpiry PROVE ReplayInv /\ [Next]_vars => ReplayInv'
<1>1. ReplayInv /\ [Next]_vars => TypeInv'
  BY TypeInvNext DEF ReplayInv
<1> QED
  BY <1>1, ReplayQuiet, ReplayOther, ReplayCrash, ReplaySubmit, ReplayAdd, ReplayAnswer DEF Next

LEMMA ReplayInit == Init => ReplayInv
BY TypeInvInit DEF Init, ReplayInv, Replays

\* AssertionOnce when a jti has one expiry: the cache keeps one entry per jti, and an
\* assertion with the jti of another and an earlier expiry would shorten its entry.
THEOREM AssertionsAreNotReplayed ==
    ASSUME OneExpiry PROVE Spec => []AssertionOnce
<1>1. ReplayInv => AssertionOnce
  BY DEF ReplayInv, Replays, AssertionOnce, Presented, Op
<1> QED
  BY <1>1, ReplayInit, ReplayNext, PTL DEF Spec

-----------------------------------------------------------------------------
LEMMA NobodysText ==
    ASSUME NEW S PROVE Shared(S, None) /\ Shared(S, Broken) /\ Shared(S, New)
BY NoneAssumption DEF Shared, New

LEMMA ChangedShared ==
    ASSUME NEW op \in Edits, NEW x \in Party, NEW S, Shared(S, x),
           op.kind = "add" => op.secret \in S
    PROVE  Shared(S, Changed(op, x))
<1>1. x.secrets \subseteq S
  BY DEF Shared
<1>2. Changed(op, x).secrets \subseteq S
  BY <1>1 DEF Changed, New, Party
<1> QED
  BY <1>2 DEF Shared

\* A step of r shows what it does to the file and to the copy of r.
LEMMA CoversFrom ==
    ASSUME TypeInv, NEW r \in Requests, Step(r), NEW p \in Parties, NEW S, Covers(p, S),
           file'[p] # None => Shared(S, file'[p].text),
           EditOf(r, p) /\ pc'[r] # "idle" => Shared(S, ctx'[r].copy)
    PROVE  CoversThen(p, S)
<1> SUFFICES ASSUME NEW q \in Requests, pc'[q] # "idle", ctx'[q].op \in Edits, ctx'[q].op.party = p
             PROVE  /\ Shared(S, ctx'[q].copy)
                    /\ ctx'[q].op.kind = "add" => ctx'[q].op.secret \in S
  BY DEF CoversThen
<1>1. pc[q] # "idle" /\ ctx'[q].op = ctx[q].op /\ EditOf(q, p)
  BY StepKeeps DEF EditOf
<1>2. CASE q = r
  BY <1>1, <1>2 DEF Covers
<1>3. CASE q # r
  BY <1>1, <1>3, StepKeeps DEF Covers
<1> QED
  BY <1>2, <1>3

\* A file changes by the hand of a request that edits its party.
LEMMA FileElsewhere ==
    ASSUME TypeInv, NEW r \in Requests, Step(r), NEW p \in Parties, ~EditOf(r, p)
    PROVE  file'[p] = file[p]
<1>1. CASE file' = file
  BY <1>1
<1>2. CASE (Unlink(r) \/ OpenFile(r) \/ WriteFile(r)) /\ file' # file
  <2>1. pc[r] \notin {"idle"} \cup LoginSteps
    BY <1>2 DEF Unlink, OpenFile, WriteFile, LoginSteps
  <2>2. Op(r) \in Edits /\ Target(r) # p
    BY <2>1, EditLocals DEF EditOf, Op, Target
  <2>3. \E x : file' = [file EXCEPT ![Target(r)] = x]
    BY <1>2 DEF Unlink, OpenFile, WriteFile
  <2> QED
    BY <2>2, <2>3 DEF TypeInv, TypeOK
<1>3. ~(Unlink(r) \/ OpenFile(r) \/ WriteFile(r)) => file' = file
  BY DEF Step, Load, Check, Absent, FindClient, ListApis, ReadApi, FindApi, Validate, ExistsJti,
     AddJti, ReadVault, RefuseAll, Answer, Silent
<1> QED
  BY <1>1, <1>2, <1>3

\* Every step keeps to the secrets that were there, or on their way.
LEMMA CoversStays ==
    ASSUME TypeInv, NEW r \in Requests, Step(r), NEW p \in Parties, NEW S, Covers(p, S)
    PROVE  CoversThen(p, S)
<1>1. file[p] # None => Shared(S, file[p].text)
  BY DEF Covers
<1>2. CASE ~EditOf(r, p)
  BY <1>1, <1>2, FileElsewhere, CoversFrom
<1>3. CASE EditOf(r, p)
  <2>1. /\ Op(r) \in Edits /\ Target(r) = p /\ pc[r] \notin {"idle"} \cup LoginSteps
        /\ Shared(S, ctx[r].copy) /\ (Op(r).kind = "add" => Op(r).secret \in S)
    BY <1>3, Kinds DEF EditOf, Covers, Op, Target, TypeInv, TypeOK
  <2>2. ctx \in [Requests -> Context \cup {None}] /\ pc \in [Requests -> Steps]
        /\ file \in [Parties -> File \cup {None}] /\ ctx[r] \in Context
    BY <2>1, EditLocals DEF TypeInv, TypeOK
  <2>3. CASE Load(r)
    <3>1. file' = file
      BY <2>3 DEF Load
    <3>2. pc'[r] # "idle" =>
             Readable(p) /\ ctx' = [ctx EXCEPT ![r].copy = Changed(Op(r), file[p].text)]
      BY <2>1, <2>2, <2>3 DEF Load, Acknowledge, Fail, Finish, Goto
    <3>3. Readable(p) => file[p].text \in Party /\ Shared(S, file[p].text)
      BY <1>1, <2>2 DEF Readable, Exists, File
    <3>4. Readable(p) => Shared(S, Changed(Op(r), file[p].text))
      BY <2>1, <3>3, ChangedShared
    <3>5. pc'[r] # "idle" => Shared(S, ctx'[r].copy)
      BY <2>2, <3>2, <3>4 DEF Context
    <3> QED
      BY <1>1, <3>1, <3>5, CoversFrom
  <2>4. CASE Check(r)
    BY <1>1, <2>1, <2>2, <2>4, CoversFrom DEF Check, Acknowledge, Fail, Finish, Goto
  <2>5. CASE Unlink(r)
    <3>1. file'[p] # None => file'[p] = file[p]
      BY <2>1, <2>2, <2>5 DEF Unlink
    <3>2. pc'[r] # "idle" => ctx'[r] = ctx[r]
      BY <2>2, <2>5 DEF Unlink, Acknowledge, Fail, Finish, Goto
    <3> QED
      BY <1>1, <2>1, <3>1, <3>2, CoversFrom
  <2>6. CASE Absent(r)
    <3>1. file' = file
      BY <2>6 DEF Absent
    <3>2. pc'[r] # "idle" => ctx'[r].copy = ctx[r].copy \/ ctx'[r].copy = New
      BY <2>2, <2>6 DEF Absent, Fail, Finish, Goto, Context
    <3> QED
      BY <1>1, <2>1, <3>1, <3>2, NobodysText, CoversFrom
  <2>7. CASE OpenFile(r)
    <3>1. file'[p] # None =>
             \/ file[p] # None /\ file'[p].text = file[p].text
             \/ file'[p].text = Broken
      BY <2>1, <2>2, <2>7 DEF OpenFile, Exists
    <3>2. pc'[r] # "idle" => ctx'[r] = ctx[r]
      BY <2>2, <2>7 DEF OpenFile, Fail, Finish, Goto
    <3> QED
      BY <1>1, <2>1, <3>1, <3>2, NobodysText, CoversFrom
  <2>8. CASE WriteFile(r)
    <3>1. file'[p] # None =>
             \/ file'[p] = file[p]
             \/ file'[p].text \in {ctx[r].copy, Broken}
      BY <2>1, <2>2, <2>8 DEF WriteFile
    <3>2. pc'[r] = "idle"
      BY <2>2, <2>8 DEF WriteFile, Acknowledge, Finish, Goto
    <3> QED
      BY <1>1, <2>1, <3>1, <3>2, NobodysText, CoversFrom
  <2> QED
    BY <2>1, <2>3, <2>4, <2>5, <2>6, <2>7, <2>8
    DEF Step, FindClient, ListApis, ReadApi, FindApi, Validate, ExistsJti, AddJti, ReadVault,
        RefuseAll, Answer, LoginSteps
<1> QED
  BY <1>2, <1>3

\* What is no longer possible is what an edit took away that nobody else disturbed.
LEMMA Shrinks ==
    ASSUME TypeInv, NEW r \in Requests, Step(r), NEW p \in Parties, possible'[p] # possible[p]
    PROVE  /\ Acknowledge(r) /\ (Load(r) \/ Check(r) \/ Unlink(r) \/ WriteFile(r))
           /\ EditOf(r, p) /\ ~ctx[r].disturbed /\ pc'[r] = "idle"
           /\ \/ /\ ctx[r].op.kind = "remove"
                 /\ possible'[p] = possible[p] \ {ctx[r].op.secret}
              \/ ctx[r].op.kind = "delete" /\ possible'[p] = {}
<1>1. /\ Load(r) \/ Check(r) \/ Unlink(r) \/ WriteFile(r)
      /\ Acknowledge(r)
  BY DEF Step, Load, Check, Unlink, Absent, OpenFile, WriteFile, FindClient, ListApis, ReadApi,
     FindApi, Validate, ExistsJti, AddJti, ReadVault, RefuseAll, Answer, Silent, Fail, history
<1>2. pc[r] \notin {"idle"} \cup LoginSteps
  BY <1>1 DEF Load, Check, Unlink, WriteFile, LoginSteps
<1>3. Op(r) \in Edits /\ Target(r) \in Parties
  BY <1>2, EditLocals
<1>4. pc'[r] = "idle"
  BY <1>1 DEF Acknowledge, Finish, Goto, TypeInv, TypeOK
<1>5. possible' = [possible EXCEPT ![Target(r)] =
                       IF ctx[r].disturbed THEN @
                       ELSE IF Op(r).kind = "remove" THEN @ \ {Op(r).secret}
                       ELSE IF Op(r).kind = "delete" THEN {} ELSE @]
  BY <1>1 DEF Acknowledge
<1>6. p = Target(r)
  BY <1>3, <1>5 DEF TypeInv, TypeOK
<1>7. /\ ~ctx[r].disturbed
      /\ \/ Op(r).kind = "remove" /\ possible'[p] = possible[p] \ {Op(r).secret}
         \/ Op(r).kind = "delete" /\ possible'[p] = {}
  BY <1>5, <1>6 DEF TypeInv, TypeOK
<1> QED
  BY <1>1, <1>2, <1>3, <1>4, <1>6, <1>7 DEF EditOf, Op, Target

LEMMA CoversPossible ==
    ASSUME SecretsInv, NEW r \in Requests, Step(r), NEW p \in Parties
    PROVE  Covers(p, possible[p])'
<1>1. TypeInv /\ Covers(p, possible[p])
  BY DEF SecretsInv
<1>2. CoversThen(p, possible[p])
  BY <1>1, CoversStays
<1>3. CASE possible'[p] = possible[p]
  BY <1>2, <1>3 DEF CoversThen, Covers, EditOf
<1>4. CASE possible'[p] # possible[p]
  <2>1. /\ Acknowledge(r) /\ (Load(r) \/ Check(r) \/ Unlink(r) \/ WriteFile(r))
        /\ EditOf(r, p) /\ ~ctx[r].disturbed /\ pc'[r] = "idle"
        /\ \/ /\ ctx[r].op.kind = "remove"
              /\ possible'[p] = possible[p] \ {ctx[r].op.secret}
           \/ ctx[r].op.kind = "delete" /\ possible'[p] = {}
    BY <1>1, <1>4, Shrinks
  <2>2. ctx[r].op.party = p /\ Alone(r) /\ Deletes(r) /\ LocalsOf(r)
    BY <2>1 DEF EditOf, SecretsInv, TypeInv
  <2>3. \A q \in Requests : ~EditOf(q, p)'
    <3>1. \A q \in Requests \ {r} : ~EditOf(q, p)
      BY <2>1, <2>2 DEF Alone
    <3> QED
      BY <1>1, <2>1, <3>1, StepKeeps DEF EditOf
  <2>4. /\ file \in [Parties -> File \cup {None}]
        /\ Target(r) = p /\ Op(r) = ctx[r].op
    BY <1>1, <2>2 DEF TypeInv, TypeOK, Target, Op
  <2>5. Load(r) => ctx[r].op.kind = "remove"
    <3>1. ASSUME Load(r), ctx[r].op.kind = "delete" PROVE FALSE
      <4>1. \/ possible' = possible
            \/ pc' = [pc EXCEPT ![r] = "check"]
        BY <2>4, <3>1 DEF Load, Fail, history, Goto
      <4> QED
        BY <1>1, <1>4, <2>1, <4>1 DEF TypeInv, TypeOK
    <3> QED
      BY <2>1, <3>1
  <2>6. CASE ctx[r].op.kind = "delete"
    <3>1. file'[p] = None
      <4>1. Check(r) \/ Unlink(r)
        BY <2>1, <2>2, <2>5, <2>6 DEF Deletes, WriteFile
      <4>2. CASE Unlink(r)
        BY <1>4, <2>4, <4>2 DEF Unlink, Fail, history
      <4>3. CASE Check(r)
        BY <1>4, <2>4, <4>3 DEF Check, Fail, history, Exists
      <4> QED
        BY <4>1, <4>2, <4>3
    <3> QED
      BY <2>3, <3>1 DEF Covers
  <2>7. CASE ctx[r].op.kind = "remove"
    <3> DEFINE s == ctx[r].op.secret
    <3>1. Load(r) \/ WriteFile(r)
      BY <1>4, <2>1, <2>4, <2>7 DEF Check, Unlink, Fail, history
    <3>2. CASE Load(r)
      <4>1. file'[p] = file[p] /\ s \notin file[p].text.secrets
        BY <1>1, <1>4, <2>1, <2>4, <3>2 DEF Load, Fail, history
      <4>2. file'[p] # None => Shared(possible'[p], file'[p].text)
        BY <1>1, <2>1, <2>7, <4>1 DEF Covers, Shared
      <4> QED
        BY <2>3, <4>2 DEF Covers
    <3>3. CASE WriteFile(r)
      <4>1. pc[r] = "write" /\ file[p] # None /\ file[p].writer = r
        BY <2>1, <2>2, <3>3 DEF WriteFile, Alone
      <4>2. r # None
        BY NoneAssumption
      <4>3. file'[p].text \in {ctx[r].copy, Broken}
        BY <2>4, <3>3, <4>1, <4>2 DEF WriteFile, Held, Exists
      <4>4. ctx[r].copy \in Party => s \notin ctx[r].copy.secrets
        BY <2>2, <2>7, <4>1 DEF LocalsOf, LoginSteps
      <4>5. Shared(possible[p], ctx[r].copy)
        BY <1>1, <2>1 DEF Covers
      <4>6. Shared(possible'[p], file'[p].text)
        BY <2>1, <2>7, <4>3, <4>4, <4>5, NobodysText DEF Shared
      <4> QED
        BY <2>3, <4>6 DEF Covers
    <3> QED
      BY <3>1, <3>2, <3>3
  <2> QED
    BY <2>1, <2>6, <2>7
<1> QED
  BY <1>3, <1>4

LEMMA AloneStays ==
    ASSUME SecretsInv, NEW r \in Requests, Step(r), NEW q \in Requests
    PROVE  Alone(q)'
<1> DEFINE p == ctx[q].op.party
<1> SUFFICES ASSUME pc'[q] # "idle", ctx'[q].op \in Edits, ~ctx'[q].disturbed
             PROVE  /\ \A o \in Requests \ {q} :
                          ~(/\ pc'[o] # "idle" /\ ctx'[o].op \in Edits
                            /\ ctx'[o].op.party = ctx'[q].op.party)
                    /\ pc'[q] = "write" =>
                          file'[ctx'[q].op.party] # None /\ file'[ctx'[q].op.party].writer = q
  BY DEF Alone, EditOf
<1>1. TypeInv
  BY DEF SecretsInv
<1>2. /\ pc[q] # "idle"
      /\ ctx'[q].op = ctx[q].op /\ ctx'[q].disturbed = ctx[q].disturbed
      /\ EditOf(q, p) /\ p \in Parties
  BY <1>1, StepKeeps, Kinds DEF EditOf
<1>3. /\ \A o \in Requests \ {q} : ~EditOf(o, p)
      /\ pc[q] = "write" => file[p] # None /\ file[p].writer = q
  BY <1>2 DEF SecretsInv, Alone
<1>4. \A o \in Requests \ {q} : ~(pc'[o] # "idle" /\ ctx'[o].op \in Edits /\ ctx'[o].op.party = p)
  BY <1>1, <1>3, StepKeeps DEF EditOf
<1>5. CASE q # r
  BY <1>1, <1>2, <1>3, <1>4, <1>5, StepKeeps, FileElsewhere
<1>6. CASE q = r
  <2>1. ASSUME pc'[r] = "write" PROVE file'[p] # None /\ file'[p].writer = r
    <3>1. pc \in [Requests -> Steps] /\ file \in [Parties -> File \cup {None}]
      BY <1>1 DEF TypeInv, TypeOK
    <3>2. pc[r] \notin LoginSteps /\ Target(r) = p
      BY <1>1, <1>2, <1>6, Kinds DEF TypeInv, TypeOK, EditOf, Target, Op
    <3>3. OpenFile(r)
      <4>1. ~(Load(r) \/ Check(r) \/ Unlink(r) \/ Absent(r) \/ WriteFile(r))
        BY <2>1, <3>1 DEF Load, Check, Unlink, Absent, WriteFile, Acknowledge, Fail, Finish, Goto
      <4>2. ~(FindClient(r) \/ ListApis(r) \/ ReadApi(r) \/ FindApi(r) \/ Validate(r)
                \/ ExistsJti(r) \/ AddJti(r) \/ ReadVault(r) \/ RefuseAll(r) \/ Answer(r))
        BY <3>2 DEF FindClient, ListApis, ReadApi, FindApi, Validate, ExistsJti, AddJti, ReadVault,
           RefuseAll, Answer, LoginSteps
      <4> QED
        BY <4>1, <4>2 DEF Step
    <3> DEFINE text == IF Exists(p) THEN file[p].text ELSE Broken
    <3>4. file' = [file EXCEPT ![p] = [text |-> text, writer |-> r]]
      BY <1>2, <2>1, <3>1, <3>2, <3>3 DEF OpenFile, Fail, Finish, Goto
    <3>5. text \in Party \cup {Broken}
      BY <1>2, <3>1 DEF Exists, File
    <3> HIDE DEF text
    <3>6. [text |-> text, writer |-> r] \in File
      BY <3>5 DEF File
    <3> QED
      BY <1>2, <1>6, <3>1, <3>4, <3>6, NoneAssumption
  <2> QED
    BY <1>2, <1>4, <1>6, <2>1
<1> QED
  BY <1>5, <1>6

LEMMA DeletesStay ==
    ASSUME SecretsInv, NEW r \in Requests, Step(r), NEW q \in Requests
    PROVE  Deletes(q)'
<1>1. TypeInv /\ pc \in [Requests -> Steps] /\ Deletes(q)
  BY DEF SecretsInv, TypeInv, TypeOK
<1>2. CASE q # r
  BY <1>1, <1>2, StepKeeps DEF Deletes
<1>3. CASE q = r
  <2>1. pc'[r] \in {"absent", "open", "write"} =>
           ctx[r].op.kind # "delete" \/ pc[r] \in {"absent", "open", "write"}
    <3>1. CASE Load(r) \/ Check(r) \/ Unlink(r) \/ Absent(r) \/ OpenFile(r) \/ WriteFile(r)
      BY <1>1, <3>1 DEF Load, Check, Unlink, Absent, OpenFile, WriteFile, Acknowledge, Fail, Finish,
         Goto, Op
    <3>2. CASE FindClient(r) \/ ListApis(r) \/ ReadApi(r) \/ FindApi(r) \/ RefuseAll(r)
      BY <1>1, <3>2 DEF FindClient, ListApis, ReadApi, FindApi, RefuseAll, Refuse, Goto
    <3>3. CASE Validate(r) \/ ExistsJti(r) \/ AddJti(r) \/ ReadVault(r) \/ Answer(r)
      BY <1>1, <3>3 DEF Validate, ExistsJti, AddJti, ReadVault, Answer, Accept, AskVault, Refuse,
         Finish, Goto
    <3> QED
      BY <3>1, <3>2, <3>3 DEF Step
  <2> QED
    BY <1>1, <1>3, <2>1, StepKeeps DEF Deletes
<1> QED
  BY <1>2, <1>3

LEMMA DrawsStay ==
    ASSUME SecretsInv, TypeInv', NEW r \in Requests, Step(r), NEW q \in Requests
    PROVE  Draws(q)'
<1> DEFINE S == ctx[q].allowed
           Drawn == /\ pc'[q] \in {"list", "scan", "validate"} => Shared(S, ctx'[q].copy)
                    /\ pc'[q] \in {"exists", "cache", "vault"} => ctx'[q].todo \subseteq S
                    /\ pc'[q] \in {"exists", "cache", "accepted"} => ctx'[q].by \in S
<1>1. TypeInv /\ Draws(q) /\ pc \in [Requests -> Steps]
      /\ ctx \in [Requests -> Context \cup {None}]
  BY DEF SecretsInv, TypeInv, TypeOK
<1>2. ASSUME pc'[q] # "idle"
      PROVE  /\ pc[q] # "idle" /\ ctx[q] \in Context
             /\ ctx'[q].op = ctx[q].op /\ ctx'[q].allowed = S
             /\ pc'[q] \in LoginSteps => pc[q] \in LoginSteps
  <2>1. /\ pc[q] # "idle"
        /\ ctx'[q].op = ctx[q].op /\ ctx'[q].allowed = S
    BY <1>1, <1>2, StepKeeps
  <2>2. ctx[q] \in Context
    BY <1>1, <2>1 DEF TypeInv, TypeOK
  <2>3. pc'[q] \in LoginSteps => pc[q] \in LoginSteps
    BY <1>1, <1>2, <2>1 DEF TypeInv, TypeOK
  <2> QED
    BY <2>1, <2>2, <2>3
<1>3. pc'[q] \in {"find", "list", "scan"} => CoversThen(ctx[q].op.party, S)
  <2> SUFFICES ASSUME pc'[q] \in {"find", "list", "scan"} PROVE CoversThen(ctx[q].op.party, S)
    OBVIOUS
  <2>1. pc[q] \in LoginSteps
    BY <1>2 DEF LoginSteps
  <2>2. pc[q] \in {"find", "list", "scan"}
    <3>1. CASE q # r
      BY <1>1, <3>1, StepKeeps
    <3>2. CASE q = r
      BY <1>1, <2>1, <3>2 DEF Step, Load, Check, Unlink, Absent, OpenFile, WriteFile, FindClient,
         ListApis, ReadApi, FindApi, Validate, ExistsJti, AddJti, ReadVault, RefuseAll, Answer,
         Refuse, Accept, AskVault, Finish, Goto, LoginSteps
    <3> QED
      BY <3>1, <3>2
  <2>3. ctx[q].op.party \in Parties
    BY <1>1, <2>1, LoginLocals DEF Target, Op
  <2> QED
    BY <1>1, <2>2, <2>3, CoversStays DEF Draws
<1>4. Drawn
  <2>1. CASE q # r
    BY <1>1, <2>1, StepKeeps DEF Draws
  <2>2. CASE q = r /\ pc'[q] \in LoginSteps
    <3>1. pc[r] \in LoginSteps /\ ctx[r] \in Context
      BY <1>2, <2>2 DEF LoginSteps
    <3>2. CASE Refuse(r)
      BY <1>1, <2>2, <3>2 DEF Refuse, Goto
    <3>3. ASSUME NEW s \in S, Accept(r, s) PROVE Drawn
      <4>1. ctx'[r].by = s /\ pc'[r] = "accepted"
        BY <1>1, <3>1, <3>3 DEF Accept, Goto, Context
      <4> QED
        BY <2>2, <3>3, <4>1
    <3>4. CASE FindClient(r) /\ ~Refuse(r)
      <4>1. /\ file[Target(r)] # None /\ ctx' = [ctx EXCEPT ![r].copy = file[Target(r)].text]
            /\ pc'[r] = "validate" /\ pc[r] = "find"
        BY <1>1, <3>4 DEF FindClient, Readable, Exists, Goto
      <4>2. Shared(S, file[Target(r)].text)
        BY <1>1, <2>2, <4>1 DEF Draws, Covers, Target, Op
      <4>3. ctx'[r].copy = file[Target(r)].text
        BY <1>1, <3>1, <4>1 DEF Context
      <4> QED
        BY <2>2, <4>1, <4>2, <4>3
    <3>5. CASE ListApis(r)
      <4>1. ctx'[r].copy = ctx[r].copy /\ pc'[r] = "scan" /\ pc[r] = "list"
        BY <1>1, <3>1, <3>5 DEF ListApis, Goto, Context
      <4> QED
        BY <1>1, <2>2, <4>1 DEF Draws
    <3>6. CASE ReadApi(r) /\ ~Refuse(r)
      <4>1. PICK p \in ctx[r].todo :
               /\ Readable(p)
               /\ ctx' = [ctx EXCEPT ![r].todo = @ \ {p},
                                     ![r].copy = IF p = Target(r) THEN file[p].text ELSE @]
               /\ pc' = pc /\ pc[r] = "scan"
        BY <3>6 DEF ReadApi
      <4> DEFINE c == IF p = Target(r) THEN file[p].text ELSE ctx[r].copy
      <4>2. ctx'[r].copy = c
        BY <1>1, <3>1, <4>1 DEF Context
      <4>3. Shared(S, ctx[r].copy) /\ (p = Target(r) => Shared(S, file[p].text))
        BY <1>1, <2>2, <4>1 DEF Draws, Covers, Readable, Exists, Target, Op
      <4> QED
        BY <2>2, <4>1, <4>2, <4>3
    <3>7. CASE FindApi(r) /\ ~Refuse(r)
      BY <1>1, <2>2, <3>7 DEF FindApi, Draws, Goto
    <3>8. CASE Validate(r)
      <4>1. pc[r] = "validate" /\ ctx[r].copy \in Party /\ ctx[r].copy.secrets \subseteq S
        BY <1>1, <2>2, <3>8 DEF Validate, Draws, Shared, TypeInv, LocalsOf
      <4>2. Current(r) \subseteq S /\ \A type : Matching(r, type) \subseteq S
        BY <4>1, CurrentSecrets
      <4>3. CASE \E s \in Matching(r, "shared") : Accept(r, s)
        BY <3>3, <4>2, <4>3
      <4>4. CASE AskVault(r)
        <5>1. ctx'[r].todo \subseteq Current(r) /\ pc'[r] = "vault"
          BY <1>1, <3>1, <4>4 DEF AskVault, Goto, Context
        <5> QED
          BY <2>2, <4>2, <5>1
      <4>5. CASE /\ Goto(r, "exists")
                 /\ \E s \in Matching(r, "key") :
                       ctx' = [ctx EXCEPT ![r].by = s,
                                          ![r].todo = {v \in Current(r) : v.type = "vault"}]
        <5> DEFINE vault == {v \in Current(r) : v.type = "vault"}
        <5>1. PICK s \in Matching(r, "key") :
                 ctx' = [ctx EXCEPT ![r].by = s, ![r].todo = vault]
          BY <4>5
        <5>2. vault \subseteq S /\ s \in S
          BY <4>2
        <5> HIDE DEF vault
        <5>3. ctx'[r].by = s /\ ctx'[r].todo = vault
          BY <1>1, <3>1, <5>1 DEF Context
        <5>4. pc'[r] = "exists"
          BY <1>1, <4>5 DEF Goto
        <5> QED
          BY <2>2, <5>2, <5>3, <5>4
      <4> QED
        BY <3>8, <4>3, <4>4, <4>5 DEF Validate
    <3>9. CASE ExistsJti(r)
      <4>1. ctx[r].by \in S /\ ctx[r].todo \subseteq S
        BY <1>1, <2>2, <3>9 DEF ExistsJti, Draws
      <4>2. /\ ctx'[r].todo = ctx[r].todo
            /\ \/ pc'[r] = "vault"
               \/ pc'[r] = "cache" /\ ctx'[r].by = ctx[r].by
        <5>1. \/ pc'[r] = "vault" /\ ctx' = [ctx EXCEPT ![r].by = None]
              \/ pc'[r] = "cache" /\ ctx' = ctx
          BY <1>1, <3>9 DEF ExistsJti, Goto
        <5>2. CASE pc'[r] = "vault" /\ ctx' = [ctx EXCEPT ![r].by = None]
          <6>1. ctx'[r] = [ctx[r] EXCEPT !.by = None]
            BY <1>1, <5>2
          <6> QED
            BY <3>1, <5>2, <6>1 DEF Context
        <5> QED
          BY <5>1, <5>2
      <4> QED
        BY <2>2, <4>1, <4>2
    <3>10. CASE AddJti(r)
      BY <1>1, <2>2, <3>3, <3>10 DEF AddJti, Draws
    <3>11. CASE ReadVault(r) /\ ~Refuse(r)
      <4>1. ctx[r].todo \subseteq S /\ pc[r] = "vault"
        BY <1>1, <2>2, <3>11 DEF ReadVault, Draws
      <4>2. PICK s \in ctx[r].todo :
               \/ Accept(r, s)
               \/ ctx' = [ctx EXCEPT ![r].todo = @ \ {s}] /\ pc' = pc
        BY <3>11 DEF ReadVault
      <4>3. CASE Accept(r, s)
        BY <3>3, <4>1, <4>3
      <4>4. CASE ctx' = [ctx EXCEPT ![r].todo = @ \ {s}] /\ pc' = pc
        <5>1. ctx'[r].todo \subseteq ctx[r].todo /\ pc'[r] = "vault"
          BY <1>1, <3>1, <4>1, <4>4 DEF Context
        <5> QED
          BY <2>2, <4>1, <5>1
      <4> QED
        BY <4>2, <4>3, <4>4
    <3>12. ~(Load(r) \/ Check(r) \/ Unlink(r) \/ Absent(r) \/ OpenFile(r) \/ WriteFile(r))
      BY <3>1 DEF Load, Check, Unlink, Absent, OpenFile, WriteFile, LoginSteps
    <3>13. ~Answer(r) /\ (RefuseAll(r) => Refuse(r))
      BY <1>1, <2>2 DEF Answer, RefuseAll, Finish, Goto, LoginSteps
    <3> QED
      BY <3>2, <3>4, <3>5, <3>6, <3>7, <3>8, <3>9, <3>10, <3>11, <3>12, <3>13 DEF Step
  <2>3. CASE pc'[q] \notin LoginSteps
    BY <2>3 DEF LoginSteps
  <2> QED
    BY <2>1, <2>2, <2>3
<1>5. pc'[q] \in {"find", "list", "scan", "validate", "exists", "cache", "vault", "accepted"} =>
         ctx'[q].allowed = S /\ ctx'[q].op = ctx[q].op
  BY <1>2
<1> QED
  BY <1>3, <1>4, <1>5 DEF Draws, CoversThen, Covers, EditOf

LEMMA SecretsStep ==
    ASSUME SecretsInv, NEW r \in Requests, Step(r) PROVE SecretsInv'
<1>1. TypeInv'
  BY StepType DEF SecretsInv
<1> QED
  BY <1>1, CoversPossible, AloneStays, DrawsStay, DeletesStay DEF SecretsInv

LEMMA SecretsOther ==
    ASSUME SecretsInv, Tick \/ UNCHANGED vars PROVE SecretsInv'
<1>1. UNCHANGED <<file, pc, ctx, possible>> /\ TypeInv'
  BY OtherType DEF Tick, vars, history, SecretsInv
<1> QED
  BY <1>1 DEF SecretsInv, Covers, Alone, Draws, Deletes, EditOf

LEMMA SecretsCrash ==
    ASSUME SecretsInv, Crash PROVE SecretsInv'
<1>1. TypeInv' /\ \A r \in Requests : pc'[r] = "idle"
  BY CrashType DEF SecretsInv, Crash
<1>2. ASSUME NEW p \in Parties PROVE Covers(p, possible[p])'
  <2>1. file'[p] # None => file[p] # None /\ file'[p].text = file[p].text
    BY <1>2 DEF Crash, Exists, SecretsInv, TypeInv, TypeOK, File
  <2>2. Covers(p, possible[p]) /\ possible' = possible
    BY DEF SecretsInv, Crash
  <2> QED
    BY <1>1, <2>1, <2>2 DEF Covers, EditOf
<1> QED
  BY <1>1, <1>2 DEF SecretsInv, Alone, Draws, Deletes, EditOf

LEMMA SharedMore ==
    ASSUME NEW S, NEW T, S \subseteq T, NEW x, Shared(S, x) PROVE Shared(T, x)
BY DEF Shared

LEMMA SecretsSubmit ==
    ASSUME SecretsInv, NEW r \in Requests, NEW op \in Edits \cup Logins, Submit(r, op)
    PROVE  SecretsInv'
<1> DEFINE added == IF op.kind = "add" THEN {op.secret} ELSE {}
<1>1. TypeInv /\ TypeInv' /\ file' = file
  BY SubmitType DEF SecretsInv, Submit
<1>2. possible' = [possible EXCEPT ![op.party] = @ \cup added]
  BY DEF Submit
<1>3. ASSUME NEW p \in Parties
      PROVE  possible[p] \subseteq possible'[p] /\ (p = op.party => added \subseteq possible'[p])
  BY <1>1, <1>2 DEF TypeInv, TypeOK
<1> HIDE DEF added
<1>4. ASSUME NEW p \in Parties, NEW S, NEW T, S \subseteq T, Covers(p, S),
             op \in Edits /\ op.party = p => added \subseteq T
      PROVE  CoversThen(p, T)
  <2>1. file'[p] # None => Shared(T, file'[p].text)
    BY <1>1, <1>4, SharedMore DEF Covers
  <2>2. ASSUME NEW q \in Requests, pc'[q] # "idle", ctx'[q].op \in Edits, ctx'[q].op.party = p
        PROVE  Shared(T, ctx'[q].copy) /\ (ctx'[q].op.kind = "add" => ctx'[q].op.secret \in T)
    <3>1. CASE q = r
      BY <1>1, <1>4, <2>2, <3>1, SubmitBrings, NobodysText DEF added
    <3>2. CASE q # r
      <4>1. EditOf(q, p) /\ ctx'[q].copy = ctx[q].copy /\ ctx'[q].op = ctx[q].op
        BY <1>1, <2>2, <3>2, SubmitKeeps DEF EditOf
      <4> QED
        BY <1>4, <4>1, SharedMore DEF Covers
    <3> QED
      BY <3>1, <3>2
  <2> QED
    BY <2>1, <2>2 DEF CoversThen
<1>5. \A p \in Parties : Covers(p, possible[p])'
  <2> TAKE p \in Parties
  <2>1. CoversThen(p, possible'[p])
    BY <1>3, <1>4 DEF SecretsInv
  <2> QED
    BY <2>1 DEF CoversThen, Covers, EditOf
<1>6. ASSUME NEW q \in Requests \ {r}, pc[q] # "idle"
      PROVE  /\ ctx[q].op \in Edits =>
                   (ctx'[q].disturbed <=>
                      ctx[q].disturbed \/ (op \in Edits /\ ctx[q].op.party = op.party))
             /\ ctx[q].op \notin Edits =>
                   ctx'[q].allowed = IF op \in Edits /\ ctx[q].op.party = op.party
                                     THEN ctx[q].allowed \cup added ELSE ctx[q].allowed
  <2>1. ctx[q] \in Context /\ q \in Active
    BY <1>1, <1>6 DEF Active, TypeInv, TypeOK
  <2>2. CASE op \notin Edits
    <3>1. ctx'[q] = ctx[q]
      BY <2>1, <2>2 DEF Submit
    <3> QED
      BY <2>2, <3>1
  <2>3. CASE op \in Edits /\ Op(q) \in Edits
    <3>1. ctx'[q] = [ctx[q] EXCEPT !.disturbed = @ \/ Target(q) = op.party]
      BY <2>1, <2>3 DEF Submit
    <3>2. ctx'[q].disturbed = (ctx[q].disturbed \/ Target(q) = op.party)
      BY <2>1, <3>1 DEF Context
    <3> QED
      BY <2>1, <2>3, <3>2 DEF Op, Target
  <2>4. CASE op \in Edits /\ Op(q) \notin Edits
    <3> DEFINE a == IF Target(q) = op.party THEN ctx[q].allowed \cup added ELSE ctx[q].allowed
    <3>1. PICK d : ctx'[q] = [ctx[q] EXCEPT !.disturbed = d, !.allowed = a]
      BY <2>1, <2>4 DEF Submit, added
    <3> HIDE DEF a
    <3>2. ctx'[q].allowed = a
      BY <2>1, <3>1 DEF Context
    <3> QED
      BY <2>4, <3>2 DEF Op, Target, a
  <2> QED
    BY <2>2, <2>3, <2>4
<1>7. ASSUME NEW q \in Requests PROVE Deletes(q)'
  <2>1. CASE q = r
    BY <1>1, <2>1, SubmitBrings DEF Deletes
  <2>2. CASE q # r
    BY <1>1, <2>2, SubmitKeeps DEF Deletes, SecretsInv
  <2> QED
    BY <2>1, <2>2
<1>8. ASSUME NEW q \in Requests PROVE Draws(q)'
  <2>1. CASE q = r
    <3>1. /\ pc'[r] \in {"absent", "load", "find", "list"}
          /\ pc'[r] \in {"find", "list"} <=> op \in Logins
          /\ ctx'[r].op = op /\ ctx'[r].copy = None
          /\ op \notin Edits => ctx'[r].allowed = possible[op.party]
      BY <1>1, SubmitBrings
    <3>2. op \in Logins => op \notin Edits /\ op.party \in Parties
      BY Kinds
    <3>3. op \in Logins => CoversThen(op.party, possible[op.party])
      BY <1>4, <3>2 DEF SecretsInv
    <3> QED
      BY <2>1, <3>1, <3>2, <3>3, NobodysText DEF Draws, CoversThen, Covers, EditOf
  <2>2. CASE q # r /\ pc[q] \in LoginSteps
    <3> DEFINE S == ctx[q].allowed
               T == ctx'[q].allowed
    <3>1. ctx[q].op \in Logins /\ ctx[q].op.party \in Parties /\ ctx[q].op \notin Edits
      BY <1>1, <2>2, LoginLocals, Kinds DEF Op, Target
    <3>2. T = IF op \in Edits /\ ctx[q].op.party = op.party THEN S \cup added ELSE S
      BY <1>6, <2>2, <3>1 DEF LoginSteps
    <3>3. S \subseteq T /\ (op \in Edits /\ op.party = ctx[q].op.party => added \subseteq T)
      BY <3>2
    <3>4. /\ pc'[q] = pc[q] /\ ctx'[q].op = ctx[q].op /\ ctx'[q].copy = ctx[q].copy
          /\ ctx'[q].todo = ctx[q].todo /\ ctx'[q].by = ctx[q].by
      BY <1>1, <2>2, SubmitKeeps DEF LoginSteps
    <3>5. pc[q] \in {"find", "list", "scan"} => CoversThen(ctx[q].op.party, T)
      BY <1>4, <3>1, <3>3 DEF SecretsInv, Draws
    <3>6. /\ pc[q] \in {"list", "scan", "validate"} => Shared(T, ctx[q].copy)
          /\ pc[q] \in {"exists", "cache", "vault"} => ctx[q].todo \subseteq T
          /\ pc[q] \in {"exists", "cache", "accepted"} => ctx[q].by \in T
      BY <3>3, SharedMore DEF SecretsInv, Draws
    <3> QED
      BY <3>4, <3>5, <3>6 DEF Draws, CoversThen, Covers, EditOf
  <2>3. CASE q # r /\ pc[q] \notin LoginSteps
    BY <1>1, <2>3, SubmitKeeps DEF Draws, LoginSteps
  <2> QED
    BY <2>1, <2>2, <2>3
<1>9. ASSUME NEW q \in Requests PROVE Alone(q)'
  <2> SUFFICES ASSUME pc'[q] # "idle", ctx'[q].op \in Edits, ~ctx'[q].disturbed
               PROVE  /\ \A o \in Requests \ {q} :
                            ~(/\ pc'[o] # "idle" /\ ctx'[o].op \in Edits
                              /\ ctx'[o].op.party = ctx'[q].op.party)
                      /\ pc'[q] = "write" =>
                            file'[ctx'[q].op.party] # None /\ file'[ctx'[q].op.party].writer = q
    BY DEF Alone, EditOf
  <2>1. CASE q = r
    <3>1. ctx'[r].op = op /\ op \in Edits /\ Editing(op.party) = {} /\ pc'[r] # "write"
      BY <1>1, <2>1, SubmitBrings
    <3>2. \A o \in Requests : ~EditOf(o, op.party)
      BY <3>1 DEF Editing, EditOf, Active, Op, Target
    <3> QED
      BY <1>1, <2>1, <3>1, <3>2, SubmitKeeps DEF EditOf
  <2>2. CASE q # r
    <3> DEFINE p == ctx[q].op.party
    <3>1. /\ pc'[q] = pc[q] /\ pc[q] # "idle" /\ ctx'[q].op = ctx[q].op /\ ctx[q].op \in Edits
      BY <1>1, <2>2, SubmitKeeps
    <3>2. ~ctx[q].disturbed /\ ~(op \in Edits /\ p = op.party)
      BY <1>6, <2>2, <3>1
    <3>3. /\ \A o \in Requests \ {q} : ~EditOf(o, p)
          /\ pc[q] = "write" => file[p] # None /\ file[p].writer = q
      BY <3>1, <3>2 DEF SecretsInv, Alone, EditOf
    <3>4. ASSUME NEW o \in Requests \ {q}, pc'[o] # "idle", ctx'[o].op \in Edits,
                 ctx'[o].op.party = p
          PROVE  FALSE
      <4>1. CASE o = r
        BY <1>1, <3>2, <3>4, <4>1, SubmitBrings
      <4>2. CASE o # r
        BY <1>1, <3>3, <3>4, <4>2, SubmitKeeps DEF EditOf
      <4> QED
        BY <4>1, <4>2
    <3> QED
      BY <1>1, <3>1, <3>3, <3>4
  <2> QED
    BY <2>1, <2>2
<1> QED
  BY <1>1, <1>5, <1>7, <1>8, <1>9 DEF SecretsInv

LEMMA SecretsInit == Init => SecretsInv
BY TypeInvInit DEF Init, SecretsInv, Covers, Alone, Draws, Deletes, EditOf

LEMMA SecretsNext == SecretsInv /\ [Next]_vars => SecretsInv'
BY SecretsStep, SecretsSubmit, SecretsCrash, SecretsOther DEF Next

\* A request is accepted with a secret its party has, or is being given, after
\* the request came, however the edits of the party overlap and wherever the
\* process stops: what an acknowledged removal or deletion took away comes back
\* only by an edit that overlapped it.
THEOREM RemovedSecretsAreRefused == Spec => []RemovedIsRefused
<1>1. SecretsInv => RemovedIsRefused
  BY DEF SecretsInv, Draws, RemovedIsRefused
<1> QED
  BY <1>1, SecretsInit, SecretsNext, PTL DEF Spec

-----------------------------------------------------------------------------
\* A readable file is one whose text is a party, and back.
LEMMA KeptIsReadable ==
    ASSUME TypeInv, NEW p \in Parties, AsWanted(p), wanted[p] # Unknown
    PROVE  /\ Exists(p) <=> wanted[p] # None
           /\ ~Held(p)
           /\ wanted[p] # None => wanted[p] \in Party /\ file[p].text = wanted[p]
<1>1. wanted[p] \in Party \cup {None, Unknown}
  BY DEF TypeInv, TypeOK
<1>2. CASE wanted[p] = None
  BY <1>2 DEF AsWanted, Exists, Held
<1>3. CASE wanted[p] # None
  <2>1. wanted[p] \in Party /\ file[p] = [text |-> wanted[p], writer |-> None]
    BY <1>1, <1>3 DEF AsWanted
  <2>2. file[p] \in File
    BY <2>1 DEF File
  <2>3. file[p] # None
    BY <2>2, NoneAssumption
  <2> QED
    BY <1>3, <2>1, <2>3 DEF Exists, Held
<1> QED
  BY <1>2, <1>3

\* An edit, and the steps it takes.
EditStep(r) ==
    Load(r) \/ Check(r) \/ Unlink(r) \/ Absent(r) \/ OpenFile(r) \/ WriteFile(r)

LEMMA EditSteps ==
    ASSUME TypeInv, NEW r \in Requests, Step(r)
    PROVE  /\ EditStep(r) => EditOf(r, Target(r)) /\ Target(r) \in Parties
                             /\ Op(r) = ctx[r].op /\ Target(r) = ctx[r].op.party
           /\ ~EditStep(r) => /\ UNCHANGED <<file, wanted>>
                              /\ \A p \in Parties : ~EditOf(r, p)
<1>1. CASE EditStep(r)
  <2>1. pc[r] \notin {"idle"} \cup LoginSteps
    BY <1>1 DEF EditStep, Load, Check, Unlink, Absent, OpenFile, WriteFile, LoginSteps
  <2> QED
    BY <1>1, <2>1, EditLocals DEF EditOf, Op, Target
<1>2. CASE ~EditStep(r)
  <2>1. pc[r] \in LoginSteps /\ UNCHANGED <<file, wanted>>
    BY <1>2 DEF EditStep, Step, FindClient, ListApis, ReadApi, FindApi, Validate, ExistsJti, AddJti,
       ReadVault, RefuseAll, Answer, Silent, history, LoginSteps
  <2>2. ctx[r].op \in Logins
    BY <2>1 DEF TypeInv, TypeOK, LoginSteps
  <2> QED
    BY <1>2, <2>1, <2>2, Kinds DEF EditOf
<1> QED
  BY <1>1, <1>2

\* What is wanted changes by the hand of an edit that nobody disturbs.
LEMMA WantedStays ==
    ASSUME TypeInv, NEW r \in Requests, Step(r), ctx[r].disturbed
    PROVE  wanted' = wanted
BY DEF Step, Load, Check, Unlink, Absent, OpenFile, WriteFile, FindClient, ListApis, ReadApi,
   FindApi, Validate, ExistsJti, AddJti, ReadVault, RefuseAll, Answer, Silent, Fail, Acknowledge,
   history

LEMMA WantedElsewhere ==
    ASSUME TypeInv, NEW r \in Requests, Step(r), NEW p \in Parties, ~EditOf(r, p)
    PROVE  wanted'[p] = wanted[p]
<1>1. CASE ~EditStep(r) \/ wanted' = wanted
  BY <1>1, EditSteps
<1>2. CASE EditStep(r) /\ wanted' # wanted
  <2>1. Target(r) # p /\ Target(r) \in Parties
    BY <1>2, EditSteps
  <2>2. Acknowledge(r)
    BY <1>2 DEF EditStep, Load, Check, Unlink, Absent, OpenFile, WriteFile, Fail, history
  <2>3. \E x : wanted' = [wanted EXCEPT ![Target(r)] = x]
    BY <1>2, <2>2 DEF Acknowledge
  <2> QED
    BY <2>1, <2>3 DEF TypeInv, TypeOK
<1> QED
  BY <1>1, <1>2

\* What an acknowledged edit that is not disturbed makes of the party.
LEMMA Acknowledged ==
    ASSUME TypeInv, NEW r \in Requests, EditOf(r, Target(r)), Target(r) \in Parties,
           ~ctx[r].disturbed, Acknowledge(r)
    PROVE  /\ pc'[r] = "idle"
           /\ Op(r).kind = "delete" => wanted'[Target(r)] = None
           /\ Op(r).kind = "create" => wanted'[Target(r)] = New
           /\ Op(r).kind \notin {"delete", "create"} =>
                 wanted'[Target(r)] = IF wanted[Target(r)] \in Party
                                      THEN Changed(Op(r), wanted[Target(r)]) ELSE wanted[Target(r)]
<1>1. pc'[r] = "idle"
  BY DEF Acknowledge, Finish, Goto, TypeInv, TypeOK
<1> DEFINE new(x) == CASE Op(r).kind = "delete" -> None
                       [] Op(r).kind = "create" -> New
                       [] OTHER -> IF x \in Party THEN Changed(Op(r), x) ELSE x
<1>2. wanted' = [wanted EXCEPT ![Target(r)] = new(wanted[Target(r)])]
  BY DEF Acknowledge
<1>3. wanted'[Target(r)] = new(wanted[Target(r)])
  BY <1>2 DEF TypeInv, TypeOK
<1> QED
  BY <1>1, <1>3

\* The file of p stays as acknowledged edits ask for, or the edit r is still at it.
Carried(r, p) ==
    /\ pc'[r] = "idle" /\ wanted'[p] # Unknown => AsWanted(p)'
    /\ pc'[r] # "idle" => Written(r)'

LEMMA LoadCarries ==
    ASSUME EditsInv, NEW r \in Requests, Load(r), ~ctx[r].disturbed, NEW p \in Parties, p = Target(r),
           EditOf(r, p)
    PROVE  Carried(r, p)
<1>1. TypeInv /\ Written(r) /\ file' = file /\ pc[r] = "load" /\ ctx[r].op.party = p /\ Op(r) = ctx[r].op
  BY DEF EditsInv, SecretsInv, Load, Target, Op
<1>2. /\ ctx[r].op.kind # "create" /\ (wanted[p] # Unknown => AsWanted(p))
      /\ Op(r) \in Edits /\ ctx[r] \in Context
  BY <1>1 DEF Written, EditOf, TypeInv, TypeOK
<1>3. CASE Fail(r)
  BY <1>1, <1>2, <1>3 DEF Carried, AsWanted, Fail, history, Finish, Goto, TypeInv, TypeOK
<1>4. CASE Readable(p) /\ Op(r).kind = "remove" /\ Op(r).secret \notin file[p].text.secrets
           /\ Acknowledge(r)
  <2>1. pc'[r] = "idle"
        /\ wanted'[p] = IF wanted[p] \in Party THEN Changed(Op(r), wanted[p]) ELSE wanted[p]
    BY <1>1, <1>4, Acknowledged
  <2>2. CASE wanted[p] = Unknown
    BY <2>1, <2>2, NoneAssumption DEF Carried
  <2>3. CASE wanted[p] # Unknown
    <3>1. wanted[p] \in Party /\ file[p].text = wanted[p]
      BY <1>1, <1>2, <1>4, <2>3, KeptIsReadable DEF Readable
    <3>2. Changed(Op(r), wanted[p]) = wanted[p]
      BY <1>4, <3>1 DEF Changed, Party
    <3> QED
      BY <1>1, <1>2, <2>1, <2>3, <3>1, <3>2 DEF Carried, AsWanted
  <2> QED
    BY <2>2, <2>3
<1>5. CASE /\ Readable(p) /\ Goto(r, "check")
           /\ ctx' = [ctx EXCEPT ![r].copy = Changed(Op(r), file[p].text)]
           /\ UNCHANGED history
  <2>1. /\ pc'[r] = "check" /\ ctx'[r].copy = Changed(Op(r), file[p].text)
        /\ ctx'[r].op = ctx[r].op
    BY <1>1, <1>2, <1>5 DEF Goto, TypeInv, TypeOK, Context
  <2>2. wanted[p] # Unknown => wanted[p] \in Party /\ file[p].text = wanted[p]
    BY <1>1, <1>2, <1>5, KeptIsReadable DEF Readable
  <2> QED
    BY <1>1, <1>2, <1>5, <2>1, <2>2 DEF Carried, Written, AsWanted, history
<1> QED
  BY <1>1, <1>3, <1>4, <1>5 DEF Load

LEMMA CheckCarries ==
    ASSUME EditsInv, NEW r \in Requests, Check(r), ~ctx[r].disturbed, NEW p \in Parties, p = Target(r),
           EditOf(r, p)
    PROVE  Carried(r, p)
<1>1. TypeInv /\ Written(r) /\ file' = file /\ pc[r] = "check" /\ ctx[r].op.party = p /\ Op(r) = ctx[r].op
  BY DEF EditsInv, SecretsInv, Check, Target, Op
<1>2. /\ ctx[r].op.kind # "create" /\ (wanted[p] # Unknown => AsWanted(p))
  BY <1>1 DEF Written
<1>3. CASE Fail(r)
  BY <1>1, <1>2, <1>3 DEF Carried, AsWanted, Fail, history, Finish, Goto, TypeInv, TypeOK
<1>4. CASE ~Exists(p) /\ Op(r).kind = "delete" /\ Acknowledge(r)
  <2>1. pc'[r] = "idle" /\ wanted'[p] = None
    BY <1>1, <1>4, Acknowledged
  <2> QED
    BY <1>1, <1>4, <2>1 DEF Carried, AsWanted, Exists
<1>5. CASE Goto(r, "unlink") /\ UNCHANGED <<ctx, history>>
  <2>1. pc'[r] = "unlink" /\ ctx'[r] = ctx[r]
    BY <1>5 , <1>1 DEF Goto, TypeInv, TypeOK
  <2> QED
    BY <1>1, <1>2, <1>5, <2>1 DEF Carried, Written, AsWanted, EditOf, history
<1>6. CASE ~Exists(p) /\ Goto(r, "absent") /\ UNCHANGED <<ctx, history>>
  <2>1. pc'[r] = "absent" /\ ctx'[r] = ctx[r]
    BY <1>6 , <1>1 DEF Goto, TypeInv, TypeOK
  <2> QED
    BY <1>1, <1>2, <1>6, <2>1 DEF Carried, Written, EditOf, history, Exists
<1> QED
  BY <1>1, <1>3, <1>4, <1>5, <1>6 DEF Check

LEMMA UnlinkCarries ==
    ASSUME EditsInv, NEW r \in Requests, Unlink(r), ~ctx[r].disturbed, NEW p \in Parties, p = Target(r),
           EditOf(r, p)
    PROVE  Carried(r, p)
<1>1. TypeInv /\ Written(r) /\ pc[r] = "unlink" /\ ctx[r].op.party = p /\ Op(r) = ctx[r].op
  BY DEF EditsInv, SecretsInv, Unlink, Target, Op
<1>2. /\ ctx[r].op.kind # "create" /\ (wanted[p] # Unknown => AsWanted(p))
  BY <1>1 DEF Written
<1>3. CASE Fail(r) /\ UNCHANGED file
  BY <1>1, <1>2, <1>3 DEF Carried, AsWanted, Fail, history, Finish, Goto, TypeInv, TypeOK
<1>4. CASE file' = [file EXCEPT ![p] = None] /\ Op(r).kind = "delete" /\ Acknowledge(r)
  <2>1. pc'[r] = "idle" /\ wanted'[p] = None /\ file'[p] = None
    BY <1>1, <1>4, Acknowledged DEF TypeInv, TypeOK
  <2> QED
    BY <2>1 DEF Carried, AsWanted
<1>5. CASE file' = [file EXCEPT ![p] = None] /\ Goto(r, "absent") /\ UNCHANGED <<ctx, history>>
  <2>1. pc'[r] = "absent" /\ ctx'[r] = ctx[r] /\ file'[p] = None
    BY <1>5, <1>1 DEF Goto, TypeInv, TypeOK
  <2> QED
    BY <1>1, <1>2, <1>5, <2>1 DEF Carried, Written, EditOf, history
<1> QED
  BY <1>1, <1>3, <1>4, <1>5 DEF Unlink

LEMMA AbsentCarries ==
    ASSUME EditsInv, NEW r \in Requests, Absent(r), ~ctx[r].disturbed, NEW p \in Parties, p = Target(r),
           EditOf(r, p)
    PROVE  Carried(r, p)
<1>1. /\ TypeInv /\ Written(r) /\ Deletes(r) /\ file' = file /\ pc[r] = "absent"
      /\ ctx[r].op.party = p /\ Op(r) = ctx[r].op /\ ctx[r] \in Context
  BY DEF EditsInv, SecretsInv, Absent, Target, Op, TypeInv, TypeOK
<1>2. CASE Exists(p) /\ Fail(r)
  <2>1. ctx[r].op.kind = "create" /\ (wanted[p] # Unknown => AsWanted(p))
    BY <1>1, <1>2 DEF Written, Exists
  <2> QED
    BY <1>1, <1>2, <2>1 DEF Carried, AsWanted, Fail, history, Finish, Goto, TypeInv, TypeOK
<1>3. CASE ~Exists(p)
  <2>1. /\ Goto(r, "open") /\ UNCHANGED history
        /\ ctx' = IF Op(r).kind = "create" THEN [ctx EXCEPT ![r].copy = New] ELSE ctx
    BY <1>3 DEF Absent
  <2>2. pc'[r] = "open"
    BY <1>1, <2>1 DEF Goto, TypeInv, TypeOK
  <2>3. ctx[r].op.kind = "create" => ctx'[r].copy = New /\ ctx'[r].op = ctx[r].op
    BY <1>1, <2>1 DEF TypeInv, TypeOK, Context
  <2>4. ctx[r].op.kind # "create" => ctx'[r] = ctx[r]
    BY <1>1, <2>1
  <2> QED
    BY <1>1, <1>3, <2>1, <2>2, <2>3, <2>4 DEF Carried, Written, Exists, history
<1> QED
  BY <1>2, <1>3 DEF Absent

LEMMA OpenFileCarries ==
    ASSUME EditsInv, NEW r \in Requests, OpenFile(r), ~ctx[r].disturbed, NEW p \in Parties,
           p = Target(r), EditOf(r, p)
    PROVE  Carried(r, p)
<1>1. /\ TypeInv /\ Written(r) /\ pc[r] = "open" /\ ctx[r].op.party = p /\ Op(r) = ctx[r].op
  BY DEF EditsInv, SecretsInv, OpenFile, Target, Op
<1>2. file[p] = None
  BY <1>1 DEF Written
<1>3. /\ file' = [file EXCEPT ![p] = [text |-> Broken, writer |-> r]]
      /\ Goto(r, "write") /\ UNCHANGED <<ctx, history>>
  BY <1>2 DEF OpenFile, Held, Exists
<1>4. /\ file'[p] = [text |-> Broken, writer |-> r]
      /\ pc'[r] = "write" /\ ctx'[r] = ctx[r]
  BY <1>1, <1>3 DEF Goto, TypeInv, TypeOK
<1> QED
  BY <1>1, <1>3, <1>4 DEF Carried, Written, EditOf, history

LEMMA WriteFileCarries ==
    ASSUME EditsInv, NEW r \in Requests, WriteFile(r), ~ctx[r].disturbed, NEW p \in Parties,
           p = Target(r), EditOf(r, p)
    PROVE  Carried(r, p)
<1>1. /\ TypeInv /\ Written(r) /\ Deletes(r) /\ LocalsOf(r) /\ pc[r] = "write"
      /\ ctx[r].op.party = p /\ Op(r) = ctx[r].op
  BY DEF EditsInv, SecretsInv, WriteFile, Target, Op, TypeInv
<1>2. file[p] = [text |-> Broken, writer |-> r] /\ ctx[r].copy \in Party /\ ctx[r].op.kind # "delete"
  BY <1>1 DEF Written, LocalsOf, Deletes
<1>3. Held(p) /\ file[p].writer = r
  <2>1. [text |-> Broken, writer |-> r] \in File /\ r # None
    BY NoneAssumption DEF File
  <2> QED
    BY <1>2, <2>1, NoneAssumption DEF Held, Exists
<1>4. file' = [file EXCEPT ![p] = [text |-> ctx[r].copy, writer |-> None]]
  BY <1>2, <1>3 DEF WriteFile
<1>5. file'[p] = [text |-> ctx[r].copy, writer |-> None]
  BY <1>1, <1>4 DEF TypeInv, TypeOK
<1>6. Acknowledge(r)
  BY DEF WriteFile
<1>7. wanted'[p] # Unknown => wanted'[p] = ctx[r].copy
  <2>1. CASE ctx[r].op.kind = "create"
    BY <1>1, <1>6, <2>1, Acknowledged DEF Written
  <2>2. CASE ctx[r].op.kind # "create"
    <3>1. wanted'[p] = IF wanted[p] \in Party THEN Changed(Op(r), wanted[p]) ELSE wanted[p]
      BY <1>1, <1>2, <1>6, <2>2, Acknowledged
    <3>2. CASE wanted[p] = Unknown
      BY <3>1, <3>2, NoneAssumption
    <3>3. CASE wanted[p] # Unknown
      BY <1>1, <1>2, <2>2, <3>1, <3>3 DEF Written
    <3> QED
      BY <3>2, <3>3
  <2> QED
    BY <2>1, <2>2
<1>8. ctx[r].copy # None
  BY <1>2, NoneAssumption
<1>9. pc'[r] = "idle"
  BY <1>1, <1>6, Acknowledged
<1> QED
  BY <1>5, <1>7, <1>8, <1>9 DEF Carried, AsWanted

LEMMA EditsCarry ==
    ASSUME EditsInv, NEW r \in Requests, EditStep(r), ~ctx[r].disturbed, NEW p \in Parties,
           p = Target(r), EditOf(r, p)
    PROVE  Carried(r, p)
BY LoadCarries, CheckCarries, UnlinkCarries, AbsentCarries, OpenFileCarries, WriteFileCarries
   DEF EditStep

LEMMA EditsStep ==
    ASSUME EditsInv, NEW r \in Requests, Step(r)
    PROVE  EditsInv'
<1>1. TypeInv /\ SecretsInv /\ SecretsInv'
  BY SecretsStep DEF EditsInv, SecretsInv
<1>2. /\ \A q \in Requests \ {r} : pc'[q] = pc[q] /\ ctx'[q] = ctx[q]
      /\ pc'[r] # "idle" => ctx'[r].op = ctx[r].op /\ ctx'[r].disturbed = ctx[r].disturbed
      /\ pc[r] # "idle"
  BY <1>1, StepKeeps
<1>3. \A p \in Parties : ~EditOf(r, p) => file'[p] = file[p] /\ wanted'[p] = wanted[p]
  BY <1>1, FileElsewhere, WantedElsewhere
<1>4. \A q \in Requests, p \in Parties : EditOf(q, p) => p = ctx[q].op.party /\ ctx[q].op.party \in Parties
  BY DEF EditOf
<1>5. \A q \in Requests : \A p : EditOf(q, p)' => EditOf(q, p) /\ p \in Parties
  BY <1>2, Kinds DEF EditOf
<1>6. ASSUME NEW q \in Requests \ {r}, NEW p \in Parties, EditOf(q, p), EditOf(r, p)
      PROVE  ctx[q].disturbed /\ ctx[r].disturbed
  <2>1. Alone(q) /\ Alone(r) /\ ctx[q].op.party = p /\ ctx[r].op.party = p
    BY <1>1, <1>6 DEF SecretsInv, EditOf
  <2> QED
    BY <1>6, <2>1 DEF Alone
<1>7. ASSUME NEW q \in Requests PROVE Contested(q)'
  <2> SUFFICES ASSUME EditOf(q, ctx[q].op.party)', ctx'[q].disturbed
               PROVE  wanted'[ctx'[q].op.party] = Unknown
    BY DEF Contested
  <2>1. PICK p \in Parties : p = ctx[q].op.party /\ EditOf(q, p) /\ ctx'[q].op.party = p
        /\ ctx[q].disturbed
    BY <1>2, Kinds DEF EditOf
  <2>2. wanted[p] = Unknown
    BY <2>1 DEF EditsInv, Contested
  <2>3. CASE EditOf(r, p)
    <3>1. ctx[r].disturbed
      BY <1>6, <2>1, <2>3
    <3> QED
      BY <1>1, <2>1, <2>2, <3>1, WantedStays
  <2>4. CASE ~EditOf(r, p)
    BY <1>3, <2>1, <2>2, <2>4
  <2> QED
    BY <2>3, <2>4
<1>8. ASSUME NEW q \in Requests PROVE Written(q)'
  <2> SUFFICES ASSUME EditOf(q, ctx[q].op.party)', ~ctx'[q].disturbed
               PROVE  Written(q)'
    BY DEF Written
  <2>1. PICK p \in Parties : p = ctx[q].op.party /\ EditOf(q, p) /\ ctx'[q].op.party = p
        /\ ~ctx[q].disturbed
    BY <1>2, Kinds DEF EditOf
  <2>2. CASE q = r
    <3>1. EditStep(r) /\ p = Target(r)
      BY <1>1, <2>1, <2>2, EditSteps DEF Target, Op
    <3>2. Carried(r, p) /\ pc'[r] # "idle"
      BY <2>1, <2>2, <3>1, EditsCarry DEF EditOf
    <3> QED
      BY <2>2, <3>2 DEF Carried
  <2>3. CASE q # r
    <3>1. ~EditOf(r, p)
      BY <1>6, <2>1, <2>3
    <3>2. file'[p] = file[p] /\ wanted'[p] = wanted[p] /\ pc'[q] = pc[q] /\ ctx'[q] = ctx[q]
      BY <1>2, <1>3, <2>3, <3>1
    <3> QED
      BY <2>1, <3>2 DEF EditsInv, Written, AsWanted, EditOf
  <2> QED
    BY <2>2, <2>3
<1>9. ASSUME NEW p \in Parties PROVE Settled(p)'
  <2> SUFFICES ASSUME \A q \in Requests : ~EditOf(q, p)', wanted'[p] # Unknown
               PROVE  AsWanted(p)'
    BY DEF Settled
  <2>1. \A q \in Requests \ {r} : ~EditOf(q, p)
    BY <1>2 DEF EditOf
  <2>2. CASE EditOf(r, p)
    <3>1. EditStep(r) /\ p = Target(r)
      BY <1>1, <2>2, EditSteps DEF Target, Op, EditOf
    <3>2. pc'[r] = "idle"
      BY <1>2, <2>2 DEF EditOf
    <3>3. ~ctx[r].disturbed
      <4>1. ctx[r].disturbed => wanted'[p] = Unknown
        BY <1>1, <2>2, WantedStays DEF EditsInv, Contested, EditOf
      <4> QED
        BY <4>1
    <3> QED
      BY <2>2, <3>1, <3>2, <3>3, EditsCarry DEF Carried
  <2>3. CASE ~EditOf(r, p)
    BY <1>3, <2>1, <2>3 DEF EditsInv, Settled, AsWanted
  <2> QED
    BY <2>2, <2>3
<1> QED
  BY <1>1, <1>7, <1>8, <1>9 DEF EditsInv

LEMMA SubmitDisturbs ==
    ASSUME TypeInv, NEW r \in Requests, NEW op \in Edits \cup Logins, Submit(r, op),
           NEW q \in Requests \ {r}, pc[q] # "idle", ctx[q].op \in Edits
    PROVE  ctx'[q].disturbed <=> ctx[q].disturbed \/ (op \in Edits /\ ctx[q].op.party = op.party)
<1>1. ctx[q] \in Context /\ q \in Active
  BY DEF TypeInv, TypeOK, Active
<1>2. CASE op \notin Edits
  BY <1>1, <1>2 DEF Submit
<1>3. CASE op \in Edits
  <2>1. ctx'[q] = [ctx[q] EXCEPT !.disturbed = @ \/ Target(q) = op.party]
    BY <1>1, <1>3 DEF Submit, Op
  <2> QED
    BY <1>1, <1>3, <2>1 DEF Context, Target, Op
<1> QED
  BY <1>2, <1>3

LEMMA EditsSubmit ==
    ASSUME EditsInv, NEW r \in Requests, NEW op \in Edits \cup Logins, Submit(r, op)
    PROVE  EditsInv'
<1>1. TypeInv /\ SecretsInv' /\ file' = file /\ op.party \in Parties
  BY SecretsSubmit, Kinds DEF EditsInv, SecretsInv, Submit
<1>2. /\ ~EditOf(r, op.party)
      /\ \A q \in Requests, p \in Parties : EditOf(q, p) <=> q \in Editing(p)
  BY DEF Submit, Editing, Active, EditOf, Op, Target
<1>3. /\ op \in Edits /\ Editing(op.party) # {} => wanted'[op.party] = Unknown
      /\ ~(op \in Edits /\ Editing(op.party) # {}) => wanted' = wanted
      /\ \A p \in Parties \ {op.party} : wanted'[p] = wanted[p]
  <2>1. wanted' = IF op \in Edits /\ Editing(op.party) # {}
                  THEN [wanted EXCEPT ![op.party] = Unknown] ELSE wanted
    BY DEF Submit
  <2> QED
    BY <1>1, <2>1 DEF TypeInv, TypeOK
<1>4. \A q \in Requests \ {r} : \A p : EditOf(q, p)' <=> EditOf(q, p)
  <2>1. \A q \in Requests \ {r} : pc'[q] = pc[q] /\ (pc[q] # "idle" => ctx'[q].op = ctx[q].op)
    BY <1>1, SubmitKeeps
  <2> QED
    BY <2>1 DEF EditOf
<1>5. \A p : EditOf(r, p)' => op \in Edits /\ p = op.party
  BY <1>1, SubmitBrings DEF EditOf
<1>6. ASSUME NEW q \in Requests PROVE Contested(q)' /\ Written(q)'
  <2>1. CASE q = r
    <3>1. /\ pc[r] = "idle" /\ pc'[r] = FirstStep(op) /\ ctx'[r].op = op
          /\ op \in Edits => (ctx'[r].disturbed <=> Editing(op.party) # {})
      BY <1>1, SubmitBrings
    <3>2. Contested(r)'
      BY <1>3, <3>1 DEF Contested, EditOf
    <3>3. ASSUME op \in Edits, Editing(op.party) = {} PROVE Written(r)'
      <4>1. wanted[op.party] # Unknown => AsWanted(op.party)
        BY <1>1, <1>2, <3>3 DEF EditsInv, Settled
      <4>2. wanted' = wanted /\ pc'[r] \in {"absent", "load"}
            /\ (pc'[r] = "absent" <=> op.kind = "create")
        BY <1>3, <3>1, <3>3, Kinds DEF FirstStep
      <4> QED
        BY <1>1, <3>1, <4>1, <4>2 DEF Written, AsWanted
    <3>4. ASSUME ~(op \in Edits /\ Editing(op.party) = {}) PROVE Written(r)'
      BY <3>1, <3>4 DEF Written, EditOf
    <3>5. Written(r)'
      BY <3>3, <3>4
    <3> QED
      BY <2>1, <3>2, <3>5
  <2>2. CASE q # r /\ ~EditOf(q, ctx[q].op.party)
    <3>1. ~EditOf(q, ctx[q].op.party)'
      BY <1>1, <2>2, SubmitKeeps DEF EditOf
    <3> QED
      BY <3>1 DEF Contested, Written
  <2>3. CASE q # r /\ EditOf(q, ctx[q].op.party)
    <3>1. PICK p \in Parties : p = ctx[q].op.party /\ EditOf(q, p)
      BY <2>3, Kinds DEF EditOf
    <3>2. /\ pc'[q] = pc[q] /\ ctx'[q].op = ctx[q].op /\ ctx'[q].copy = ctx[q].copy
          /\ ctx'[q].disturbed <=> ctx[q].disturbed \/ (op \in Edits /\ p = op.party)
      BY <1>1, <2>3, <3>1, SubmitKeeps, SubmitDisturbs DEF EditOf
    <3>3. CASE op \in Edits /\ p = op.party
      <4>1. wanted'[p] = Unknown /\ ctx'[q].disturbed
        BY <1>2, <1>3, <3>1, <3>2, <3>3
      <4> QED
        BY <3>1, <3>2, <4>1 DEF Contested, Written
    <3>4. CASE ~(op \in Edits /\ p = op.party)
      <4>1. wanted'[p] = wanted[p] /\ file'[p] = file[p] /\ (ctx'[q].disturbed <=> ctx[q].disturbed)
        BY <1>1, <1>3, <3>1, <3>2, <3>4
      <4>2. Contested(q) /\ Written(q)
        BY DEF EditsInv
      <4> QED
        BY <3>1, <3>2, <4>1, <4>2 DEF Contested, Written, AsWanted, EditOf
    <3> QED
      BY <3>3, <3>4
  <2> QED
    BY <2>1, <2>2, <2>3
<1>7. ASSUME NEW p \in Parties PROVE Settled(p)'
  <2> SUFFICES ASSUME \A q \in Requests : ~EditOf(q, p)', wanted'[p] # Unknown
               PROVE  AsWanted(p)'
    BY DEF Settled
  <2>1. \A q \in Requests : ~EditOf(q, p)
    <3>1. ~EditOf(r, p)
      BY DEF Submit, EditOf
    <3> QED
      BY <1>4, <3>1
  <2>2. wanted'[p] = wanted[p] /\ file'[p] = file[p]
    BY <1>1, <1>2, <1>3, <2>1
  <2> QED
    BY <2>1, <2>2 DEF EditsInv, Settled, AsWanted
<1> QED
  BY <1>1, <1>6, <1>7 DEF EditsInv

LEMMA EditsCrash ==
    ASSUME EditsInv, Crash
    PROVE  EditsInv'
<1>1. SecretsInv' /\ TypeInv /\ \A r \in Requests : pc'[r] = "idle"
  BY SecretsCrash DEF EditsInv, SecretsInv, Crash
<1>2. ASSUME NEW p \in Parties, wanted'[p] # Unknown PROVE AsWanted(p)'
  <2>1. Editing(p) = {} /\ wanted'[p] = wanted[p]
    BY <1>2 DEF Crash
  <2>2. AsWanted(p)
    <3>1. \A q \in Requests : ~EditOf(q, p)
      BY <2>1 DEF Editing, Active, EditOf, Op, Target
    <3> QED
      BY <1>2, <2>1, <3>1 DEF EditsInv, Settled
  <2>3. file'[p] = file[p]
    <3>1. file'[p] = IF file[p] # None THEN [file[p] EXCEPT !.writer = None] ELSE None
      BY DEF Crash, Exists
    <3> QED
      BY <2>2, <3>1 DEF AsWanted
  <2> QED
    BY <2>1, <2>2, <2>3 DEF AsWanted
<1> QED
  BY <1>1, <1>2 DEF EditsInv, Settled, Contested, Written, EditOf

LEMMA EditsNext == EditsInv /\ [Next]_vars => EditsInv'
<1> SUFFICES ASSUME EditsInv, [Next]_vars PROVE EditsInv'
  OBVIOUS
<1>1. CASE Tick \/ UNCHANGED vars
  <2>1. UNCHANGED <<file, pc, ctx, wanted>> /\ SecretsInv'
    BY <1>1, SecretsOther DEF Tick, vars, history, EditsInv
  <2> QED
    BY <2>1 DEF EditsInv, Settled, Contested, Written, AsWanted, EditOf
<1> QED
  BY <1>1, EditsStep, EditsSubmit, EditsCrash DEF Next

\* The file of a party is what the acknowledged edits ask for whenever none is
\* under way, wherever edits fail and whatever else is read or edited meanwhile,
\* unless two edits of the party overlapped or the process stopped during one.
THEOREM AcknowledgedEditsAreKept == Spec => []EditsAreKept
<1>1. Init => EditsInv
  <2>1. Init => \A p \in Parties : AsWanted(p)
    BY DEF Init, AsWanted
  <2> QED
    BY <2>1, SecretsInit DEF Init, EditsInv, Settled, Contested, Written, EditOf
<1>2. EditsInv => EditsAreKept
  <2>1. \A p \in Parties : Editing(p) = {} => \A q \in Requests : ~EditOf(q, p)
    BY DEF Editing, Active, EditOf, Op, Target
  <2> QED
    BY <2>1 DEF EditsInv, Settled, AsWanted, EditsAreKept
<1> QED
  BY <1>1, <1>2, EditsNext, PTL DEF Spec

-----------------------------------------------------------------------------
\* What a login that is not disturbed reads is what the acknowledged edits ask for.
LEMMA ReadsWanted ==
    ASSUME AnswersInv, NEW r \in Requests, pc[r] \in LoginSteps, ~ctx[r].disturbed,
           NEW p \in Parties, Reads(r, p), wanted[p] # Unknown
    PROVE  /\ Exists(p) <=> wanted[p] # None
           /\ Readable(p) <=> wanted[p] # None
           /\ wanted[p] # None => wanted[p] \in Party /\ file[p].text = wanted[p]
<1>1. \A q \in Requests : ~EditOf(q, p)
  BY DEF AnswersInv, Unhindered
<1>2. TypeInv /\ AsWanted(p)
  BY <1>1 DEF AnswersInv, EditsInv, SecretsInv, Settled
<1> QED
  BY <1>2, KeptIsReadable, NoneAssumption DEF Readable

\* What a login has found stays so while nobody edits what it reads.
LEMMA AnsweredStays ==
    ASSUME AnswersInv, NEW q \in Requests, pc[q] \in LoginSteps, pc'[q] = pc[q],
           ctx'[q].op = ctx[q].op, ctx'[q].copy = ctx[q].copy, ctx'[q].todo = ctx[q].todo,
           ~ctx'[q].disturbed => ~ctx[q].disturbed,
           now \in Int, now' \in Int, now <= now',
           ~ctx'[q].disturbed =>
              \A p \in Parties : Reads(q, p) => file'[p] = file[p] /\ wanted'[p] = wanted[p]
    PROVE  Answered(q)'
<1> SUFFICES ASSUME ~ctx'[q].disturbed, wanted'[ctx[q].op.party] # Unknown
             PROVE  Found(q)'
  BY DEF Answered
<1> DEFINE p == ctx[q].op.party
<1>1. /\ TypeInv /\ p \in Parties /\ Target(q) = p /\ Target(q)' = p
      /\ Presented(q)' = Presented(q)
  BY LoginLocals DEF AnswersInv, EditsInv, SecretsInv, Target, Op, Presented
<1>2. wanted'[p] = wanted[p] /\ wanted[p] # Unknown
  BY <1>1 DEF Reads
<1>3. p \in Apis => \A a \in Apis : a \in Parties /\ file'[a] = file[a] /\ wanted'[a] = wanted[a]
  BY DEF Reads, Parties
<1>4. Found(q)
  BY <1>2 DEF AnswersInv, Answered
<1>5. Enabled(p)' <=> Enabled(p)
  BY <1>2 DEF Enabled
<1>6. wanted[p] # None /\ Has(q)' => Has(q)
  <2> SUFFICES ASSUME wanted[p] # None,
                      NEW s \in wanted[p].secrets,
                      Presented(q) = [type |-> "shared", value |-> s.value],
                      s.type = "shared", s.until = None \/ now' <= s.until
               PROVE  Has(q)
    BY <1>1, <1>2 DEF Has
  <2>1. wanted[p] \in Party
    BY <1>1, <1>2 DEF TypeInv, TypeOK
  <2>2. s.until = None \/ s.until \in Int
    BY <2>1, ClientAuthAssumption DEF Party, Secret, Times
  <2> QED
    BY <1>1, <2>2 DEF Has
<1> QED
  BY <1>1, <1>2, <1>3, <1>4, <1>5, <1>6 DEF Found, Enabled

LEMMA UnhinderedStep ==
    ASSUME AnswersInv, NEW r \in Requests, Step(r), TypeInv', NEW q \in Requests
    PROVE  Unhindered(q)'
<1>1. TypeInv
  BY DEF AnswersInv, EditsInv, SecretsInv
<1>2. \A o \in Requests : pc'[o] # "idle" =>
         pc[o] # "idle" /\ ctx'[o].op = ctx[o].op /\ ctx'[o].disturbed = ctx[o].disturbed
  BY <1>1, StepKeeps
<1>3. \A o \in Requests, p \in Parties : EditOf(o, p)' => EditOf(o, p)
  BY <1>2 DEF EditOf
<1>4. pc'[q] \in LoginSteps => pc[q] \in LoginSteps
  BY <1>1, <1>2 DEF TypeInv, TypeOK, LoginSteps
<1>5. pc'[q] # "idle" => \A p : Reads(q, p)' <=> Reads(q, p)
  BY <1>2 DEF Reads
<1> QED
  BY <1>2, <1>3, <1>4, <1>5 DEF AnswersInv, Unhindered, LoginSteps

\* A step of a login leaves the files and what is asked for alone.
LEMMA LoginReads ==
    ASSUME TypeInv, NEW r \in Requests, Step(r), pc[r] \in LoginSteps
    PROVE  UNCHANGED <<now, file, wanted>>
BY DEF Step, Load, Check, Unlink, Absent, OpenFile, WriteFile, FindClient, ListApis, ReadApi,
   FindApi, Validate, ExistsJti, AddJti, ReadVault, RefuseAll, Answer, Silent, history, LoginSteps

\* The steps that find the party.
LEMMA FindAnswers ==
    ASSUME AnswersInv, NEW r \in Requests, FindClient(r), ~ctx[r].disturbed,
           wanted[Target(r)] # Unknown, UNCHANGED <<now, file, wanted>>
    PROVE  Found(r)' \/ pc'[r] = "idle"
<1> DEFINE p == Target(r)
<1>1. /\ TypeInv /\ pc[r] = "find" /\ p = ctx[r].op.party /\ p \in Parties
      /\ ctx[r] \in Context /\ Reads(r, p) /\ pc[r] \in LoginSteps
  BY LoginLocals DEF AnswersInv, EditsInv, SecretsInv, FindClient, Target, Op, Reads, LoginSteps
<1>2. /\ Readable(p) <=> wanted[p] # None
      /\ wanted[p] # None => file[p].text = wanted[p]
  BY <1>1, ReadsWanted
<1>3. pc \in [Requests -> Steps] /\ ctx \in [Requests -> Context \cup {None}]
  BY <1>1 DEF TypeInv, TypeOK
<1>4. CASE Readable(p) /\ file[p].text.enabled
  <2>1. pc'[r] = "validate" /\ ctx'[r] = [ctx[r] EXCEPT !.copy = file[p].text]
    BY <1>3, <1>4 DEF FindClient, Goto
  <2>2. ctx'[r].copy = wanted[p] /\ ctx'[r].op = ctx[r].op
    BY <1>1, <1>2, <1>4, <2>1 DEF Context
  <2> QED
    BY <1>1, <1>2, <1>4, <2>1, <2>2 DEF Found, Enabled
<1>5. CASE ~(Readable(p) /\ file[p].text.enabled)
  <2>1. pc'[r] = "refused" /\ ctx' = ctx
    BY <1>3, <1>5 DEF FindClient, Refuse, Goto
  <2>2. ~Enabled(p)
    BY <1>2, <1>5 DEF Enabled
  <2> QED
    BY <1>1, <2>1, <2>2 DEF Found, Enabled
<1> QED
  BY <1>4, <1>5

LEMMA ListAnswers ==
    ASSUME AnswersInv, NEW r \in Requests, ListApis(r), ~ctx[r].disturbed,
           wanted[Target(r)] # Unknown, UNCHANGED <<now, file, wanted>>
    PROVE  Found(r)'
<1> DEFINE p == Target(r)
           x == [ctx[r] EXCEPT !.todo = {q \in Apis : Exists(q)}]
<1>1. /\ TypeInv /\ pc[r] = "list" /\ p = ctx[r].op.party /\ p \in Parties
      /\ ctx[r] \in Context /\ Reads(r, p) /\ pc[r] \in LoginSteps
  BY LoginLocals DEF AnswersInv, EditsInv, SecretsInv, ListApis, Target, Op, Reads, LoginSteps
<1>2. Exists(p) <=> wanted[p] # None
  BY <1>1, ReadsWanted
<1>3. pc'[r] = "scan" /\ ctx'[r] = x
  BY <1>1 DEF ListApis, Goto, TypeInv, TypeOK
<1>4. x.op = ctx[r].op /\ x.copy = ctx[r].copy /\ x.todo = {q \in Apis : Exists(q)}
  BY <1>1 DEF Context
<1> HIDE DEF x
<1>5. p \in Apis /\ ctx[r].copy = None
  BY <1>1 DEF AnswersInv, Answered, Found
<1> QED
  BY <1>1, <1>2, <1>3, <1>4, <1>5 DEF Found, Exists

LEMMA ScanAnswers ==
    ASSUME AnswersInv, NEW r \in Requests, ReadApi(r), ~ctx[r].disturbed,
           wanted[Target(r)] # Unknown, UNCHANGED <<now, file, wanted>>
    PROVE  Found(r)'
<1> DEFINE p == Target(r)
<1>1. /\ TypeInv /\ pc[r] = "scan" /\ p = ctx[r].op.party /\ p \in Parties
      /\ ctx[r] \in Context /\ Reads(r, p) /\ pc[r] \in LoginSteps
  BY LoginLocals DEF AnswersInv, EditsInv, SecretsInv, ReadApi, Target, Op, Reads, LoginSteps
<1>2. /\ Readable(p) <=> wanted[p] # None
      /\ wanted[p] # None => file[p].text = wanted[p]
  BY <1>1, ReadsWanted
<1>3. pc \in [Requests -> Steps] /\ ctx \in [Requests -> Context \cup {None}]
  BY <1>1 DEF TypeInv, TypeOK
<1>4. Found(r)
  BY <1>1 DEF AnswersInv, Answered
<1>5. PICK q \in ctx[r].todo :
         IF Readable(q)
         THEN /\ ctx' = [ctx EXCEPT ![r].todo = @ \ {q},
                                    ![r].copy = IF q = p THEN file[q].text ELSE @]
              /\ UNCHANGED pc
         ELSE Refuse(r)
  BY DEF ReadApi
<1>6. CASE Readable(q)
  <2> DEFINE t == ctx[r].todo \ {q}
             c == IF q = p THEN file[q].text ELSE ctx[r].copy
  <2>1. ctx' = [ctx EXCEPT ![r].todo = t, ![r].copy = c]
    BY <1>1, <1>3, <1>5, <1>6 DEF Context
  <2> HIDE DEF t, c
  <2>2. ctx'[r].todo = t /\ ctx'[r].copy = c /\ ctx'[r].op = ctx[r].op
    BY <1>1, <1>3, <2>1 DEF Context
  <2>3. pc'[r] = "scan"
    BY <1>1, <1>5, <1>6
  <2> QED
    BY <1>1, <1>2, <1>4, <1>6, <2>2, <2>3 DEF Found, t, c
<1>7. CASE ~Readable(q)
  <2>1. pc'[r] = "refused" /\ ctx' = ctx
    BY <1>3, <1>5, <1>7 DEF Refuse, Goto
  <2>2. p \in Apis /\ q \in Apis /\ Exists(q) /\ q \in Parties /\ Reads(r, q)
    BY <1>1, <1>4, <1>5 DEF Found, Exists, Reads, Parties
  <2>3. wanted[q] = Unknown
    BY <1>1, <1>7, <2>2, ReadsWanted
  <2> QED
    BY <1>1, <2>1, <2>2, <2>3 DEF Found
<1> QED
  BY <1>6, <1>7

LEMMA FindApiAnswers ==
    ASSUME AnswersInv, NEW r \in Requests, FindApi(r), ~ctx[r].disturbed,
           wanted[Target(r)] # Unknown, UNCHANGED <<now, file, wanted>>
    PROVE  Found(r)'
<1> DEFINE p == Target(r)
<1>1. /\ TypeInv /\ pc[r] = "scan" /\ p = ctx[r].op.party /\ ctx[r].todo = {} /\ ctx' = ctx
      /\ pc[r] \in LoginSteps
  BY DEF AnswersInv, EditsInv, SecretsInv, FindApi, Target, Op, LoginSteps, Refuse
<1>2. pc \in [Requests -> Steps]
  BY <1>1 DEF TypeInv, TypeOK
<1>3. Found(r)
  BY <1>1 DEF AnswersInv, Answered
<1>4. CASE ctx[r].copy # None /\ ctx[r].copy.enabled
  <2>1. pc'[r] = "validate"
    BY <1>2, <1>4 DEF FindApi, Goto
  <2> QED
    BY <1>1, <1>3, <1>4, <2>1 DEF Found, Enabled
<1>5. CASE ~(ctx[r].copy # None /\ ctx[r].copy.enabled)
  <2>1. pc'[r] = "refused"
    BY <1>2, <1>5 DEF FindApi, Refuse, Goto
  <2>2. ~Enabled(p)
    BY <1>1, <1>3, <1>5 DEF Found, Enabled
  <2> QED
    BY <1>1, <2>1, <2>2 DEF Found, Enabled
<1> QED
  BY <1>4, <1>5

\* The steps that look for a secret.
LEMMA ValidateAnswers ==
    ASSUME AnswersInv, NEW r \in Requests, Validate(r), ~ctx[r].disturbed,
           wanted[Target(r)] # Unknown, UNCHANGED <<now, file, wanted>>, ctx'[r].op = ctx[r].op
    PROVE  Found(r)'
<1> DEFINE p == Target(r)
<1>1. /\ TypeInv /\ pc[r] = "validate" /\ p = ctx[r].op.party /\ pc[r] \in LoginSteps
  BY DEF AnswersInv, EditsInv, SecretsInv, Validate, Target, Op, LoginSteps
<1>2. pc \in [Requests -> Steps]
  BY <1>1 DEF TypeInv, TypeOK
<1>3. Enabled(p) /\ ctx[r].copy = wanted[p]
  BY <1>1 DEF AnswersInv, Answered, Found
<1>4. Has(r) => Presented(r).type = "shared" /\ Matching(r, "shared") # {}
  <2> SUFFICES ASSUME NEW s \in wanted[p].secrets,
                      Presented(r) = [type |-> "shared", value |-> s.value],
                      s.type = "shared", s.until = None \/ now <= s.until
               PROVE  Presented(r).type = "shared" /\ s \in Matching(r, "shared")
    BY DEF Has
  <2> QED
    BY <1>3 DEF Matching, Current
<1>5. Has(r)' <=> Has(r)
  BY DEF Has, Presented, Target, Op
<1>6. pc'[r] \in {"accepted", "exists"} \/ (pc'[r] = "vault" /\ ~Has(r))
  <2>1. CASE Presented(r).type = "shared" /\ Matching(r, "shared") # {}
    BY <1>2, <2>1 DEF Validate, Accept, Goto
  <2>2. CASE ~(Presented(r).type = "shared" /\ Matching(r, "shared") # {})
    BY <1>2, <1>4, <2>2 DEF Validate, AskVault, Goto
  <2> QED
    BY <2>1, <2>2
<1> QED
  BY <1>1, <1>3, <1>5, <1>6 DEF Found, Enabled

LEMMA SecretAnswers ==
    ASSUME AnswersInv, NEW r \in Requests,
           ExistsJti(r) \/ AddJti(r) \/ ReadVault(r) \/ RefuseAll(r), ~ctx[r].disturbed,
           wanted[Target(r)] # Unknown, UNCHANGED <<now, file, wanted>>, ctx'[r].op = ctx[r].op
    PROVE  Found(r)'
<1> DEFINE p == Target(r)
<1>1. /\ TypeInv /\ pc[r] \in {"exists", "cache", "vault"} /\ p = ctx[r].op.party
      /\ pc[r] \in LoginSteps
  BY DEF AnswersInv, EditsInv, SecretsInv, ExistsJti, AddJti, ReadVault, RefuseAll, Target, Op,
     LoginSteps
<1>2. pc \in [Requests -> Steps]
  BY <1>1 DEF TypeInv, TypeOK
<1>3. Enabled(p) /\ (pc[r] = "vault" => ~Has(r))
  BY <1>1 DEF AnswersInv, Answered, Found
<1>4. pc[r] = "exists" => ~Has(r)
  <2>1. pc[r] = "exists" => Presented(r).type = "jwt"
    BY <1>1 DEF TypeInv, LocalsOf, Presented, Op
  <2> QED
    BY <2>1 DEF Has
<1>5. Has(r)' <=> Has(r)
  BY DEF Has, Presented, Target, Op
<1>6. \/ pc'[r] \in {"cache", "accepted"}
      \/ pc'[r] \in {"vault", "refused"} /\ ~Has(r)
  <2>1. CASE ExistsJti(r)
    BY <1>2, <1>4, <2>1 DEF ExistsJti, Goto
  <2>2. CASE AddJti(r)
    BY <1>2, <2>2 DEF AddJti, Accept, Goto
  <2>3. CASE ReadVault(r) \/ RefuseAll(r)
    BY <1>1, <1>2, <1>3, <2>3 DEF ReadVault, RefuseAll, Accept, Refuse, Goto
  <2> QED
    BY <2>1, <2>2, <2>3
<1> QED
  BY <1>1, <1>3, <1>5, <1>6 DEF Found, Enabled

LEMMA AnswersStep ==
    ASSUME AnswersInv, NEW r \in Requests, Step(r)
    PROVE  AnswersInv'
<1>1. EditsInv' /\ TypeInv /\ TypeInv'
  BY EditsStep DEF AnswersInv, EditsInv, SecretsInv
<1>2. \A q \in Requests : Unhindered(q)'
  BY <1>1, UnhinderedStep
<1>3. /\ \A q \in Requests \ {r} : pc'[q] = pc[q] /\ ctx'[q] = ctx[q]
      /\ pc[r] # "idle"
      /\ pc'[r] # "idle" => ctx'[r].op = ctx[r].op /\ ctx'[r].disturbed = ctx[r].disturbed
      /\ now' = now
  BY <1>1, StepKeeps
<1>4. ASSUME NEW q \in Requests \ {r} PROVE Answered(q)'
  <2>1. CASE pc[q] \notin LoginSteps
    BY <1>3, <2>1 DEF Answered
  <2>2. CASE pc[q] \in LoginSteps
    <3>1. ASSUME ~ctx[q].disturbed, NEW p \in Parties, Reads(q, p)
          PROVE  file'[p] = file[p] /\ wanted'[p] = wanted[p]
      <4>1. ~EditOf(r, p)
        BY <2>2, <3>1 DEF AnswersInv, Unhindered
      <4> QED
        BY <1>1, <4>1, FileElsewhere, WantedElsewhere
    <3>2. now \in Int /\ now <= now'
      BY <1>1, <1>3 DEF TypeInv, TypeOK, Times
    <3> QED
      BY <1>3, <2>2, <3>1, <3>2, AnsweredStays
  <2> QED
    BY <2>1, <2>2
<1>5. Answered(r)'
  <2> SUFFICES ASSUME pc'[r] \in LoginSteps, ~ctx'[r].disturbed,
                      wanted'[ctx'[r].op.party] # Unknown
               PROVE  Found(r)'
    BY DEF Answered
  <2>1. /\ ctx'[r].op = ctx[r].op /\ ~ctx[r].disturbed /\ pc'[r] # "idle"
        /\ Target(r) = ctx[r].op.party
    BY <1>3 DEF Target, Op, LoginSteps
  <2>2. pc[r] \in LoginSteps
    BY <1>1, <1>3, <2>1 DEF TypeInv, TypeOK
  <2>3. UNCHANGED <<now, file, wanted>> /\ wanted[Target(r)] # Unknown
    BY <1>1, <2>1, <2>2, LoginReads
  <2>4. CASE FindClient(r)
    BY <2>1, <2>3, <2>4, FindAnswers
  <2>5. CASE ListApis(r)
    BY <2>1, <2>3, <2>5, ListAnswers
  <2>6. CASE ReadApi(r)
    BY <2>1, <2>3, <2>6, ScanAnswers
  <2>7. CASE FindApi(r)
    BY <2>1, <2>3, <2>7, FindApiAnswers
  <2>8. CASE Validate(r)
    BY <2>1, <2>3, <2>8, ValidateAnswers
  <2>9. CASE ExistsJti(r) \/ AddJti(r) \/ ReadVault(r) \/ RefuseAll(r)
    BY <2>1, <2>3, <2>9, SecretAnswers
  <2>10. ~Answer(r)
    BY <1>1, <2>1 DEF Answer, Finish, Goto, TypeInv, TypeOK
  <2>11. ~EditStep(r)
    BY <2>2 DEF EditStep, Load, Check, Unlink, Absent, OpenFile, WriteFile, LoginSteps
  <2> QED
    BY <2>4, <2>5, <2>6, <2>7, <2>8, <2>9, <2>10, <2>11 DEF Step, EditStep
<1> QED
  BY <1>1, <1>2, <1>4, <1>5 DEF AnswersInv

\* A request that comes finds whether edits of what it reads are under way, and
\* is told of those that come later.
LEMMA SubmitHinders ==
    ASSUME TypeInv, NEW r \in Requests, NEW op \in Edits \cup Logins, Submit(r, op)
    PROVE  /\ op \in Logins =>
                 (ctx'[r].disturbed <=> \E a \in Active : Op(a) \in Edits /\ Disturbs(Op(a), op))
           /\ \A q \in Requests \ {r} : pc[q] \in LoginSteps =>
                 (ctx'[q].disturbed <=>
                     ctx[q].disturbed \/ (op \in Edits /\ Disturbs(op, Op(q))))
<1>1. op \in Logins => op \notin Edits
  BY Kinds
<1>2. ASSUME op \in Logins
      PROVE  ctx'[r].disturbed <=> \E a \in Active : Op(a) \in Edits /\ Disturbs(Op(a), op)
  BY <1>1, <1>2 DEF Submit
<1>3. ASSUME NEW q \in Requests \ {r}, pc[q] \in LoginSteps
      PROVE  ctx'[q].disturbed <=> ctx[q].disturbed \/ (op \in Edits /\ Disturbs(op, Op(q)))
  <2>1. ctx[q] \in Context /\ q \in Active /\ Op(q) \notin Edits
    BY <1>3, LoginLocals, Kinds DEF Active, LoginSteps
  <2>2. CASE op \notin Edits
    BY <2>1, <2>2 DEF Submit
  <2>3. CASE op \in Edits
    <3>1. PICK a : ctx'[q] = [ctx[q] EXCEPT !.disturbed = @ \/ Disturbs(op, Op(q)), !.allowed = a]
      BY <2>1, <2>3 DEF Submit
    <3> QED
      BY <2>1, <2>3, <3>1 DEF Context
  <2> QED
    BY <2>2, <2>3
<1> QED
  BY <1>2, <1>3

LEMMA AnswersSubmit ==
    ASSUME AnswersInv, NEW r \in Requests, NEW op \in Edits \cup Logins, Submit(r, op)
    PROVE  AnswersInv'
<1>1. EditsInv' /\ TypeInv /\ UNCHANGED <<now, file>> /\ op.party \in Parties
  BY EditsSubmit, Kinds DEF AnswersInv, EditsInv, SecretsInv, Submit
<1>2. \A q \in Requests \ {r} : pc'[q] = pc[q] /\ (pc[q] # "idle" =>
         /\ ctx'[q].op = ctx[q].op /\ ctx'[q].copy = ctx[q].copy /\ ctx'[q].todo = ctx[q].todo)
  BY <1>1, SubmitKeeps
<1>3. /\ pc[r] = "idle" /\ pc'[r] = FirstStep(op)
      /\ pc'[r] \in {"absent", "load", "find", "list"}
      /\ pc'[r] \in {"find", "list"} <=> op \in Logins
      /\ ctx'[r].op = op /\ ctx'[r].copy = None
  BY <1>1, SubmitBrings
<1>4. \A q \in Requests \ {r}, p \in Parties : EditOf(q, p)' <=> EditOf(q, p)
  BY <1>2 DEF EditOf
<1>5. \A p \in Parties : EditOf(r, p)' => op \in Edits /\ p = op.party
  BY <1>3 DEF EditOf
<1>6. \A p \in Parties : wanted'[p] = wanted[p] \/ (op \in Edits /\ p = op.party)
  <2>1. wanted' = wanted \/ (op \in Edits /\ wanted' = [wanted EXCEPT ![op.party] = Unknown])
    BY DEF Submit
  <2> QED
    BY <1>1, <2>1 DEF TypeInv, TypeOK
<1>7. ASSUME NEW q \in Requests \ {r} PROVE Unhindered(q)' /\ Answered(q)'
  <2>1. CASE pc[q] \notin LoginSteps
    BY <1>2, <2>1 DEF Unhindered, Answered
  <2>2. CASE pc[q] \in LoginSteps
    <3>1. /\ ctx'[q].disturbed <=> ctx[q].disturbed \/ (op \in Edits /\ Disturbs(op, Op(q)))
          /\ pc'[q] = pc[q] /\ ctx'[q].op = ctx[q].op
          /\ ctx'[q].copy = ctx[q].copy /\ ctx'[q].todo = ctx[q].todo
      BY <1>1, <1>2, <2>2, SubmitHinders DEF LoginSteps
    <3>2. \A p : (Reads(q, p)' <=> Reads(q, p)) /\ (Reads(q, p) /\ p = op.party => Disturbs(op, Op(q)))
      BY <3>1 DEF Reads, Disturbs, Op
    <3>3. Unhindered(q)'
      BY <1>4, <1>5, <2>2, <3>1, <3>2 DEF AnswersInv, Unhindered
    <3>4. Answered(q)'
      <4>1. now \in Int /\ now' \in Int /\ now <= now'
        BY <1>1 DEF TypeInv, TypeOK, Times
      <4>2. ~ctx'[q].disturbed =>
               \A p \in Parties : Reads(q, p) => file'[p] = file[p] /\ wanted'[p] = wanted[p]
        BY <1>1, <1>6, <3>1, <3>2
      <4> QED
        BY <2>2, <3>1, <4>1, <4>2, AnsweredStays
    <3> QED
      BY <3>3, <3>4
  <2> QED
    BY <2>1, <2>2
<1>8. Unhindered(r)' /\ Answered(r)'
  <2>1. CASE op \notin Logins
    BY <1>3, <2>1 DEF Unhindered, Answered, LoginSteps
  <2>2. CASE op \in Logins
    <3>1. op \notin Edits /\ op.kind = "login"
          /\ (ctx'[r].disturbed <=> \E a \in Active : Op(a) \in Edits /\ Disturbs(Op(a), op))
      BY <1>1, <2>2, Kinds, SubmitHinders
    <3>2. Unhindered(r)'
      <4> SUFFICES ASSUME ~ctx'[r].disturbed, NEW q \in Requests, NEW p \in Parties,
                          EditOf(q, p)', Reads(r, p)'
                   PROVE  FALSE
        BY DEF Unhindered
      <4>1. q # r /\ EditOf(q, p)
        BY <1>4, <1>5, <3>1
      <4>2. q \in Active /\ Op(q) \in Edits /\ Op(q).party = p
        BY <4>1 DEF EditOf, Active, Op
      <4>3. Disturbs(Op(q), op)
        BY <1>3, <4>2 DEF Disturbs, Reads
      <4> QED
        BY <3>1, <4>2, <4>3
    <3>3. pc'[r] = "list" => op.party \in Apis
      BY <1>1, <1>3, <3>1 DEF FirstStep, Parties
    <3>4. pc'[r] \in {"find", "list"}
      BY <1>3, <2>2
    <3> QED
      BY <1>3, <3>2, <3>3, <3>4 DEF Answered, Found
  <2> QED
    BY <2>1, <2>2
<1> QED
  BY <1>1, <1>7, <1>8 DEF AnswersInv

LEMMA AnswersNext == AnswersInv /\ [Next]_vars => AnswersInv'
<1> SUFFICES ASSUME AnswersInv, [Next]_vars PROVE AnswersInv'
  OBVIOUS
<1>1. EditsInv' /\ TypeInv
  BY EditsNext DEF AnswersInv, EditsInv, SecretsInv
<1>2. CASE Tick \/ UNCHANGED vars
  <2>1. UNCHANGED <<file, wanted, pc, ctx>> /\ now \in Int /\ now' \in Int /\ now <= now'
    BY <1>1, <1>2 DEF Tick, vars, history, TypeInv, TypeOK, Times
  <2>2. ASSUME NEW q \in Requests PROVE Unhindered(q)' /\ Answered(q)'
    <3>1. Unhindered(q)'
      BY <2>1 DEF AnswersInv, Unhindered, Reads, EditOf
    <3>2. CASE pc[q] \in LoginSteps
      BY <2>1, <3>1, <3>2, AnsweredStays
    <3>3. CASE pc[q] \notin LoginSteps
      BY <2>1, <3>1, <3>3 DEF Answered
    <3> QED
      BY <3>2, <3>3
  <2> QED
    BY <1>1, <2>2 DEF AnswersInv
<1>3. CASE Crash
  <2>1. \A q \in Requests : pc'[q] = "idle"
    BY <1>3 DEF Crash
  <2> QED
    BY <1>1, <2>1 DEF AnswersInv, Unhindered, Answered, LoginSteps
<1> QED
  BY <1>2, <1>3, AnswersStep, AnswersSubmit DEF Next

\* A login is answered by what the acknowledged edits of its party ask for, when
\* no edit of what it reads is under way: accepted only when the party is there
\* and enabled, and not refused the shared secret it has, unless a file of an API
\* resource is broken, however many other parties are edited meanwhile.
THEOREM LoginsAreAnswered == Spec => []UndisturbedAreAnswered
<1>1. Init => AnswersInv
  <2>1. Init => EditsInv
    <3>1. Init => \A p \in Parties : AsWanted(p)
      BY DEF Init, AsWanted
    <3> QED
      BY <3>1, SecretsInit DEF Init, EditsInv, Settled, Contested, Written, EditOf
  <2> QED
    BY <2>1 DEF Init, AnswersInv, Unhindered, Answered, LoginSteps
<1>2. AnswersInv => UndisturbedAreAnswered
  <2> SUFFICES ASSUME AnswersInv, NEW r \in Requests, pc[r] \in {"accepted", "refused"},
                      ~ctx[r].disturbed, wanted[Target(r)] # Unknown
               PROVE  /\ pc[r] = "accepted" => Enabled(Target(r))
                      /\ pc[r] = "refused" /\ Enabled(Target(r)) /\ Has(r) =>
                            Target(r) \in Apis /\ \E q \in Apis : wanted[q] = Unknown
    BY DEF UndisturbedAreAnswered, Enabled, Has
  <2>1. Found(r)
    BY DEF AnswersInv, Answered, Target, Op, LoginSteps
  <2> QED
    BY <2>1 DEF Found, Target, Op
<1> QED
  BY <1>1, <1>2, AnswersNext, PTL DEF Spec

=============================================================================
