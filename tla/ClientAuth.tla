----------------------------- MODULE ClientAuth -----------------------------
(***************************************************************************)
(* ClientSecretValidator, ApiSecretValidator and their secret validators,  *)
(* over FileBlobClientDb and FileBlobResourceDb, a file per client and per *)
(* API resource, which administrators edit on their pages meanwhile.       *)
(*                                                                         *)
(* An edit loads a client, changes it and has the store delete its file    *)
(* and add it again; the store's calls are apart and nothing is locked.    *)
(* An authentication reads the file and asks one validator after the       *)
(* other.  One action is one call that others can see.                     *)
(***************************************************************************)
EXTENDS Integers, FiniteSets

CONSTANTS
    Clients, Apis,
    Values,          \* what shared secrets, keys and the vault hold
    Secrets,         \* the secrets a client or API may have
    Vault,           \* what the vault answers for the path of a vault secret
    Edits, Logins,   \* the edits and authentications that are asked for
    Jtis, ClockSkew,
    Requests,
    Crashes,         \* whether the process may stop once and start again
    MaxTime,         \* bound on the clock
    None, Broken, Unknown

Parties == Clients \cup Apis
Times == 0..MaxTime

Secret == [type : {"shared", "key", "vault"}, value : Values, until : Times \cup {None}]

\* A password, or an assertion signed with a key.
Credential ==
    [type : {"shared"}, value : Values]
        \cup [type : {"jwt"}, value : Values, jti : Jtis, exp : Times]

Edit ==
    [kind : {"create", "delete", "enable", "disable"}, party : Parties]
        \cup [kind : {"add", "remove"}, party : Parties, secret : Secrets]

Login == [kind : {"login"}, party : Parties, credential : Credential]

ASSUME ClientAuthAssumption ==
    /\ Secrets \subseteq Secret
    /\ Edits \subseteq Edit /\ Logins \subseteq Login
    /\ Vault \in [Values -> Values] /\ ClockSkew \in Nat
    /\ Crashes \in BOOLEAN /\ MaxTime \in Nat
    /\ Clients \cap Apis = {} /\ Unknown # None

VARIABLES
    now,
    file,      \* per party: no file, or what is in it and who writes it
    cache,     \* the replay cache: per jti, when it is forgotten
    pc, ctx,   \* per request: its next step, its locals
    crashed,   \* the process has stopped once
    wanted,    \* history: per party, what acknowledged edits made of it
    possible,  \* history: secrets a party has or may be given
    used       \* history: assertions that were accepted, and answered

history == <<wanted, possible, used>>
vars == <<now, file, cache, pc, ctx, crashed, history>>

\* ClientModel and ApiResourceModel.
Party == [enabled : BOOLEAN, secrets : SUBSET Secrets]

\* A broken file is empty or a mixture of two texts: reading it fails or
\* returns null.
File == [text : Party \cup {Broken}, writer : Requests \cup {None}]

Context ==
    [op : Edits \cup Logins,
     copy : Party \cup {None},          \* the party as it was loaded
     todo : SUBSET (Parties \cup Secrets), \* files to read, vault secrets to ask for
     by : Secrets \cup {None},          \* the secret that was found to match
     disturbed : BOOLEAN,               \* history: overlapped by an edit
     allowed : SUBSET Secrets,          \* history: possible while it ran
     barred : SUBSET Credential]        \* history: used when it came

ASSUME NoneAssumption ==
    /\ None \notin Party \cup File \cup Context \cup Secrets \cup Requests
    /\ None \notin 0..(MaxTime + ClockSkew)
    /\ Broken \notin Party /\ Unknown \notin Party

LoginSteps == {"find", "list", "scan", "validate", "exists", "cache", "vault",
               "accepted", "refused"}

Steps == {"idle", "load", "check", "unlink", "absent", "open", "write"} \cup LoginSteps

TypeOK ==
    /\ now \in Times
    /\ file \in [Parties -> File \cup {None}]
    /\ cache \in [Jtis -> 0..(MaxTime + ClockSkew) \cup {None}]
    /\ pc \in [Requests -> Steps]
    /\ ctx \in [Requests -> Context \cup {None}]
    /\ crashed \in BOOLEAN
    /\ wanted \in [Parties -> Party \cup {None, Unknown}]
    /\ possible \in [Parties -> SUBSET Secrets]
    /\ used \subseteq Credential
    /\ \A r \in Requests : /\ pc[r] = "idle" <=> ctx[r] = None
                           /\ pc[r] # "idle" => (pc[r] \in LoginSteps <=> ctx[r].op \in Logins)
    /\ \A p \in Parties : file[p] # None /\ file[p].writer # None =>
          pc[file[p].writer] = "write" /\ ctx[file[p].writer].op.party = p

Init ==
    /\ now = 0
    /\ file = [p \in Parties |-> None]
    /\ cache = [j \in Jtis |-> None]
    /\ pc = [r \in Requests |-> "idle"]
    /\ ctx = [r \in Requests |-> None]
    /\ crashed = FALSE
    /\ wanted = [p \in Parties |-> None]
    /\ possible = [p \in Parties |-> {}]
    /\ used = {}

-----------------------------------------------------------------------------
Op(r) == ctx[r].op
Target(r) == Op(r).party
Active == {r \in Requests : pc[r] # "idle"}
Editing(p) == {r \in Active : Op(r) \in Edits /\ Target(r) = p}

Exists(p) == file[p] # None
Held(p) == Exists(p) /\ file[p].writer # None
Readable(p) == Exists(p) /\ ~Held(p) /\ file[p].text # Broken

Goto(r, step) == pc' = [pc EXCEPT ![r] = step]
Finish(r) == Goto(r, "idle") /\ ctx' = [ctx EXCEPT ![r] = None]

\* An exception ends the edit.
Fail(r) == Finish(r) /\ UNCHANGED history

\* All files of API resources are read for one: an edit of any is in the way.
Disturbs(edit, op) == edit.party = op.party \/ {edit.party, op.party} \subseteq Apis

FirstStep(op) == CASE op.kind = "create" -> "absent"
                   [] op.kind = "login"  -> IF op.party \in Clients THEN "find" ELSE "list"
                   [] OTHER -> "load"

Submit(r, op) ==
    LET p == op.party
        edit == op \in Edits
        overlap == edit /\ Editing(p) # {}
        added == IF op.kind = "add" THEN {op.secret} ELSE {} IN
    /\ pc[r] = "idle"
    /\ Goto(r, FirstStep(op))
    /\ ctx' = [q \in Requests |->
          IF q = r
          THEN [op |-> op, copy |-> None, todo |-> {}, by |-> None,
                disturbed |-> IF edit THEN overlap
                              ELSE \E a \in Active : Op(a) \in Edits /\ Disturbs(Op(a), op),
                allowed |-> IF edit THEN {} ELSE possible[p],
                barred |-> IF edit THEN {} ELSE used]
          ELSE IF q \notin Active \/ ~edit THEN ctx[q]
          ELSE IF Op(q) \in Edits THEN [ctx[q] EXCEPT !.disturbed = @ \/ Target(q) = p]
          ELSE [ctx[q] EXCEPT !.disturbed = @ \/ Disturbs(op, Op(q)),
                              !.allowed = IF Target(q) = p THEN @ \cup added ELSE @]]
    /\ wanted' = IF overlap THEN [wanted EXCEPT ![p] = Unknown] ELSE wanted
    /\ possible' = [possible EXCEPT ![p] = @ \cup added]
    /\ UNCHANGED <<now, file, cache, crashed, used>>

-----------------------------------------------------------------------------
(***************************************************************************)
(* Edits.                                                                  *)
(***************************************************************************)
New == [enabled |-> TRUE, secrets |-> {}]

\* mutant: the secret to remove is the one that is kept
Changed_Inverted(op, party) ==
    CASE op.kind = "add"     -> [party EXCEPT !.secrets = @ \cup {op.secret}]
      [] op.kind = "remove"  -> [party EXCEPT !.secrets = @ \cap {op.secret}]
      [] op.kind = "enable"  -> [party EXCEPT !.enabled = TRUE]
      [] op.kind = "disable" -> [party EXCEPT !.enabled = FALSE]
      [] OTHER               -> New

\* What an edit makes of the party it loaded.
Changed(op, party) ==
    CASE op.kind = "add"     -> [party EXCEPT !.secrets = @ \cup {op.secret}]
      [] op.kind = "remove"  -> [party EXCEPT !.secrets = @ \ {op.secret}]
      [] op.kind = "enable"  -> [party EXCEPT !.enabled = TRUE]
      [] op.kind = "disable" -> [party EXCEPT !.enabled = FALSE]
      [] OTHER               -> New

\* What acknowledged edits ask for, when they came one after the other.
Acknowledge(r) ==
    LET p == Target(r) IN
    /\ wanted' = IF ctx[r].disturbed THEN wanted
                 ELSE [wanted EXCEPT ![p] =
                    CASE Op(r).kind = "delete" -> None
                      [] Op(r).kind = "create" -> New
                      [] OTHER -> IF @ \in Party THEN Changed(Op(r), @) ELSE @]
    /\ possible' = [possible EXCEPT ![p] =
                       IF ctx[r].disturbed THEN @
                       ELSE IF Op(r).kind = "remove" THEN @ \ {Op(r).secret}
                       ELSE IF Op(r).kind = "delete" THEN {} ELSE @]
    /\ Finish(r)
    /\ UNCHANGED used

\* The page loads the party: null or an exception when it cannot be read.  A
\* vault secret is looked up first.  A secret that is not there is not removed.
Load(r) ==
    LET p == Target(r) IN
    /\ pc[r] = "load"
    /\ \/ /\ Readable(p)
          /\ IF Op(r).kind = "remove" /\ Op(r).secret \notin file[p].text.secrets
             THEN Acknowledge(r)
             ELSE /\ Goto(r, "check")
                  /\ ctx' = [ctx EXCEPT ![r].copy = Changed(Op(r), file[p].text)]
                  /\ UNCHANGED history
       \/ /\ Readable(p) => Op(r).kind = "add" /\ Op(r).secret.type = "vault"
          /\ Fail(r)
    /\ UNCHANGED <<now, file, cache, crashed>>

\* mutant: the file of an API resource is written over when it is there
Check_Kept(r) ==
    /\ pc[r] = "check"
    /\ IF Exists(Target(r)) /\ Target(r) \in Clients
       THEN Goto(r, "unlink") /\ UNCHANGED <<ctx, history>>
       ELSE IF Op(r).kind = "delete" THEN Acknowledge(r)
       ELSE Goto(r, "open") /\ UNCHANGED <<ctx, history>>
    /\ UNCHANGED <<now, file, cache, crashed>>

\* A client that is gone is an error; an API resource is then added, or its
\* removal does nothing.
Check(r) ==
    /\ pc[r] = "check"
    /\ IF Exists(Target(r)) THEN Goto(r, "unlink") /\ UNCHANGED <<ctx, history>>
       ELSE IF Target(r) \in Clients THEN Fail(r)
       ELSE IF Op(r).kind = "delete" THEN Acknowledge(r)
       ELSE Goto(r, "absent") /\ UNCHANGED <<ctx, history>>
    /\ UNCHANGED <<now, file, cache, crashed>>

\* A file somebody writes is removed under its hands (POSIX), or not (Windows).
Unlink(r) ==
    /\ pc[r] = "unlink"
    /\ \/ /\ file' = [file EXCEPT ![Target(r)] = None]
          /\ IF Op(r).kind = "delete" THEN Acknowledge(r)
             ELSE Goto(r, "absent") /\ UNCHANGED <<ctx, history>>
       \/ Held(Target(r)) /\ Fail(r) /\ UNCHANGED file
    /\ UNCHANGED <<now, cache, crashed>>

\* AddClientAsync, AddApiResourceAsync: what is there is not added.
Absent(r) ==
    /\ pc[r] = "absent"
    /\ IF Exists(Target(r)) THEN Fail(r)
       ELSE /\ Goto(r, "open")
            /\ ctx' = IF Op(r).kind = "create" THEN [ctx EXCEPT ![r].copy = New] ELSE ctx
            /\ UNCHANGED history
    /\ UNCHANGED <<now, file, cache, crashed>>

\* FileMode.OpenOrCreate, FileShare.None
OpenFile(r) ==
    LET p == Target(r) IN
    /\ pc[r] = "open"
    /\ IF Held(p) THEN Fail(r) /\ UNCHANGED file
       ELSE /\ file' = [file EXCEPT ![p] = [text |-> IF Exists(p) THEN @.text ELSE Broken,
                                            writer |-> r]]
            /\ Goto(r, "write")
            /\ UNCHANGED <<ctx, history>>
    /\ UNCHANGED <<now, cache, crashed>>

\* mutant: the file is not closed
WriteFile_Open(r) ==
    LET p == Target(r) IN
    /\ pc[r] = "write"
    /\ file' = IF Held(p) /\ file[p].writer = r
               THEN [file EXCEPT ![p].text = ctx[r].copy] ELSE file
    /\ Acknowledge(r)
    /\ UNCHANGED <<now, cache, crashed>>

\* A file removed meanwhile is written nowhere; a text over a longer one leaves
\* the end of that.
WriteFile(r) ==
    LET p == Target(r) IN
    /\ pc[r] = "write"
    /\ IF Held(p) /\ file[p].writer = r
       THEN \E text \in {ctx[r].copy} \cup (IF file[p].text # Broken THEN {Broken} ELSE {}) :
               file' = [file EXCEPT ![p] = [text |-> text, writer |-> None]]
       ELSE UNCHANGED file
    /\ Acknowledge(r)
    /\ UNCHANGED <<now, cache, crashed>>

-----------------------------------------------------------------------------
(***************************************************************************)
(* Authentications.                                                        *)
(***************************************************************************)
Presented(r) == Op(r).credential
Silent == UNCHANGED <<now, file, crashed, history>>

Refuse(r) == Goto(r, "refused") /\ UNCHANGED ctx
Accept(r, s) == Goto(r, "accepted") /\ ctx' = [ctx EXCEPT ![r].by = s, ![r].todo = {}]

\* mutant: a client that is disabled is found
FindClient_Disabled(r) ==
    /\ pc[r] = "find"
    /\ IF Readable(Target(r))
       THEN Goto(r, "validate") /\ ctx' = [ctx EXCEPT ![r].copy = file[Target(r)].text]
       ELSE Refuse(r)
    /\ Silent /\ UNCHANGED cache

\* FindEnabledClientByIdAsync
FindClient(r) ==
    LET p == Target(r) IN
    /\ pc[r] = "find"
    /\ IF Readable(p) /\ file[p].text.enabled
       THEN Goto(r, "validate") /\ ctx' = [ctx EXCEPT ![r].copy = file[p].text]
       ELSE Refuse(r)
    /\ Silent /\ UNCHANGED cache

\* GetAllApiResources: the files are listed, then read one after the other.
ListApis(r) ==
    /\ pc[r] = "list"
    /\ Goto(r, "scan")
    /\ ctx' = [ctx EXCEPT ![r].todo = {p \in Apis : Exists(p)}]
    /\ Silent /\ UNCHANGED cache

ReadApi(r) ==
    /\ pc[r] = "scan"
    /\ \E p \in ctx[r].todo :
          IF Readable(p)
          THEN /\ ctx' = [ctx EXCEPT ![r].todo = @ \ {p},
                                     ![r].copy = IF p = Target(r) THEN file[p].text ELSE @]
               /\ UNCHANGED pc
          ELSE Refuse(r)
    /\ Silent /\ UNCHANGED cache

FindApi(r) ==
    /\ pc[r] = "scan"
    /\ ctx[r].todo = {}
    /\ IF ctx[r].copy # None /\ ctx[r].copy.enabled
       THEN Goto(r, "validate") /\ UNCHANGED ctx ELSE Refuse(r)
    /\ Silent /\ UNCHANGED cache

\* Secrets that have not expired.
Current(r) == {s \in ctx[r].copy.secrets : s.until = None \/ now <= s.until}

Matching(r, type) == {s \in Current(r) : s.type = type /\ s.value = Presented(r).value}

\* The assertion is signed with a key of the client and has not expired.
SignedInTime(r) ==
    /\ Presented(r).type = "jwt"
    /\ Matching(r, "key") # {}
    /\ now <= Presented(r).exp + ClockSkew

AskVault(r) ==
    /\ Goto(r, "vault")
    /\ ctx' = [ctx EXCEPT ![r].todo = {s \in Current(r) : s.type = "vault"}]

\* HashedSharedSecretValidator, and PrivateKeyJwtSecretValidator up to its cache.
Validate(r) ==
    LET shared == Presented(r).type = "shared" /\ Matching(r, "shared") # {} IN
    /\ pc[r] = "validate"
    /\ IF shared THEN \E s \in Matching(r, "shared") : Accept(r, s)
       ELSE IF SignedInTime(r)
            THEN /\ Goto(r, "exists")
                 /\ \E s \in Matching(r, "key") :
                       ctx' = [ctx EXCEPT ![r].by = s,
                                          ![r].todo = {v \in Current(r) : v.type = "vault"}]
       ELSE AskVault(r)
    /\ Silent /\ UNCHANGED cache

Cached(j) == cache[j] # None /\ now < cache[j]

\* ExistsAsync: an assertion seen before goes to the next validator, as one that fails does.
ExistsJti(r) ==
    /\ pc[r] = "exists"
    /\ Goto(r, IF Cached(Presented(r).jti) THEN "vault" ELSE "cache")
    /\ ctx' = IF Cached(Presented(r).jti) THEN [ctx EXCEPT ![r].by = None] ELSE ctx
    /\ Silent /\ UNCHANGED cache

\* mutant: the entry is kept as long as the assertion, without the skew
AddJti_Skewless(r) ==
    /\ pc[r] = "cache"
    /\ cache' = [cache EXCEPT ![Presented(r).jti] = Presented(r).exp]
    /\ Accept(r, ctx[r].by)
    /\ Silent

\* AddAsync
AddJti(r) ==
    /\ pc[r] = "cache"
    /\ cache' = [cache EXCEPT ![Presented(r).jti] = Presented(r).exp + ClockSkew]
    /\ Accept(r, ctx[r].by)
    /\ Silent

\* SecretsVaultSecretValidator: a path the vault cannot answer is an exception,
\* whatever the other secrets are.
ReadVault(r) ==
    /\ pc[r] = "vault"
    /\ \E s \in ctx[r].todo :
          \/ Presented(r).type = "shared" /\ Presented(r).value = Vault[s.value] /\ Accept(r, s)
          \/ /\ Presented(r).type = "jwt" \/ Presented(r).value # Vault[s.value]
             /\ ctx' = [ctx EXCEPT ![r].todo = @ \ {s}]
             /\ UNCHANGED pc
          \/ Refuse(r)
    /\ Silent /\ UNCHANGED cache

RefuseAll(r) ==
    /\ pc[r] = "vault"
    /\ ctx[r].todo = {}
    /\ Refuse(r)
    /\ Silent /\ UNCHANGED cache

Answer(r) ==
    /\ pc[r] \in {"accepted", "refused"}
    /\ used' = IF pc[r] = "accepted" /\ Presented(r).type = "jwt"
               THEN used \cup {Presented(r)} ELSE used
    /\ Finish(r)
    /\ UNCHANGED <<now, file, cache, crashed, wanted, possible>>

-----------------------------------------------------------------------------
\* The process stops and starts again: the cache in its memory is empty.
Crash ==
    /\ Crashes /\ ~crashed
    /\ crashed' = TRUE
    /\ file' = [p \in Parties |-> IF Exists(p) THEN [file[p] EXCEPT !.writer = None] ELSE None]
    /\ cache' = [j \in Jtis |-> None]
    /\ pc' = [r \in Requests |-> "idle"]
    /\ ctx' = [r \in Requests |-> None]
    /\ wanted' = [p \in Parties |-> IF Editing(p) = {} THEN wanted[p] ELSE Unknown]
    /\ used' = {}
    /\ UNCHANGED <<now, possible>>

Tick ==
    /\ now < MaxTime
    /\ now' = now + 1
    /\ UNCHANGED <<file, cache, pc, ctx, crashed, history>>

Step(r) ==
    \/ Load(r) \/ Check(r) \/ Unlink(r) \/ Absent(r) \/ OpenFile(r) \/ WriteFile(r)
    \/ FindClient(r) \/ ListApis(r) \/ ReadApi(r) \/ FindApi(r)
    \/ Validate(r) \/ ExistsJti(r) \/ AddJti(r) \/ ReadVault(r) \/ RefuseAll(r)
    \/ Answer(r)

Next ==
    \/ Tick \/ Crash
    \/ \E r \in Requests : Step(r) \/ \E op \in Edits \cup Logins : Submit(r, op)

Spec == Init /\ [][Next]_vars

-----------------------------------------------------------------------------
\* When no edit of a party is under way its file is what the acknowledged edits
\* ask for, unless two edits of it overlapped or one was cut off by a stop, and
\* the party has not been deleted and made anew since.
EditsAreKept ==
    \A p \in Parties : Editing(p) = {} /\ wanted[p] # Unknown =>
       file[p] = IF wanted[p] = None THEN None ELSE [text |-> wanted[p], writer |-> None]

\* A secret that is not the party's, because it never was or its removal was
\* acknowledged before the request came, is not accepted, however other edits
\* of the party overlap meanwhile.
RemovedIsRefused ==
    \A r \in Requests : pc[r] = "accepted" => ctx[r].by \in ctx[r].allowed

\* An enabled party that presents a shared secret it has is accepted, and one that is
\* disabled or gone is not, unless an edit of it, or of any API resource for an
\* API resource, was under way.  A file of an API resource that a stop has broken
\* is in the way of all of them; a client depends on its own file only, and a
\* vault that does not answer is not asked.
UndisturbedAreAnswered ==
    \A r \in Requests :
       LET p == Target(r)
           has == \E s \in wanted[p].secrets :
                     /\ Presented(r) = [type |-> "shared", value |-> s.value]
                     /\ s.type = "shared" /\ (s.until = None \/ now <= s.until) IN
       pc[r] \in {"accepted", "refused"} /\ ~ctx[r].disturbed /\ wanted[p] # Unknown =>
          /\ pc[r] = "accepted" => wanted[p] # None /\ wanted[p].enabled
          /\ pc[r] = "refused" /\ wanted[p] # None /\ wanted[p].enabled /\ has =>
                p \in Apis /\ \E q \in Apis : wanted[q] = Unknown

\* An assertion whose acceptance was answered is not accepted again before it
\* expires, ClockSkew included, unless the process was started anew.
AssertionOnce ==
    \A r \in Requests :
       /\ pc[r] = "accepted" /\ Presented(r).type = "jwt"
       /\ now < Presented(r).exp + ClockSkew
       => Presented(r) \notin ctx[r].barred

=============================================================================
