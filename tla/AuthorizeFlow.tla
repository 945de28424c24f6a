--------------------------- MODULE AuthorizeFlow ---------------------------
(***************************************************************************)
(* The authorize endpoint, its callback, the login, consent, grants and    *)
(* logout pages and the user's session, seen from one browser with several *)
(* tabs.                                                                   *)
(*                                                                         *)
(* The session and the answers to the consent page are cookies.  A request *)
(* carries the cookies the browser had when it was sent, and a response    *)
(* changes those of the browser when it arrives: requests of two tabs work *)
(* on copies.  One action here is a request sent, one awaited call of the  *)
(* server that reads or writes what others see, or a response that arrives *)
(* together with the redirect it asks for.                                 *)
(***************************************************************************)
EXTENDS Integers, FiniteSets

CONSTANTS
    Tabs, Subjects, Clients, Scopes, Sids, Nonces,
    Asks,                 \* the authorize requests clients send the browser with
    WithNonce,            \* the clients that send a nonce, a new one each time
    RequireConsent,       \* Client.RequireConsent
    AllowRememberConsent, \* Client.AllowRememberConsent
    ConsentLifetime,      \* Client.ConsentLifetime
    UserSsoLifetime,      \* Client.UserSsoLifetime
    AlwaysAsked,          \* offline_access, and scopes with a parameter
    RequiredScopes,       \* scopes a user may not deselect
    MessageThreshold,     \* UserInteractionOptions.CookieMessageThreshold
    Deletable,            \* the users an administrator may delete
    SignOuts,             \* whether the user visits the logout page
    MaxTime, MaxRequests, \* bounds on the clock and on the requests
    None, Keep

Lifetimes == Nat \cup {None}

\* The request's parameters, as the return URL carries them.
Ask == [client : Clients, scopes : SUBSET Scopes, nonce : Nonces \cup {None},
        prompts : SUBSET {"none", "login", "select_account", "consent"},
        maxAge : Lifetimes]

ASSUME AuthorizeAssumption ==
    /\ Asks \subseteq {a \in Ask : a.nonce = None}
    /\ Nonces \subseteq Nat /\ WithNonce \subseteq Clients
    /\ RequireConsent \subseteq Clients /\ AllowRememberConsent \subseteq Clients
    /\ ConsentLifetime \in [Clients -> Lifetimes]
    /\ UserSsoLifetime \in [Clients -> Lifetimes]
    /\ AlwaysAsked \subseteq Scopes /\ RequiredScopes \subseteq Scopes
    /\ Deletable \subseteq Subjects /\ SignOuts \in BOOLEAN
    /\ Sids \subseteq Nat /\ MaxTime \in Nat /\ MaxRequests \in Nat
    /\ MessageThreshold \in Nat \ {0} \* 0 is as 1
    \* the validator refuses prompt=none together with another prompt
    /\ \A a \in Asks : "none" \in a.prompts => a.prompts = {"none"}

VARIABLES
    now,
    users,     \* the users the profile service finds
    consents,  \* remembered consents, in the persisted grant store
    session,   \* browser: the session cookie
    messages,  \* browser: the consent message cookies
    flow,      \* per tab: the page it shows or the request it waits for
    sent,      \* requests sent to the authorize endpoint, up to MaxRequests
    agreed,    \* history: what users agreed to and did not take back
    signedIn,  \* history: the clients that were given a code, per session
    mixed      \* history: sessions of two requests in flight together

history == <<agreed, signedIn, mixed>>
vars == <<now, users, consents, session, messages, flow, sent, history>>

\* AuthenticationProperties with the session id and the client list.
Session == [sub : Subjects, sid : Sids, auth : 0..MaxTime, clients : SUBSET Clients]

\* ConsentRequest.Id
Key == [client : Clients, sub : Subjects \cup {None}, nonce : Nonces \cup {None},
        scopes : SUBSET Scopes]

\* ConsentResponse: no scopes is a refusal, and has an Error.
Message == [key : Key, scopes : SUBSET Scopes, remember : BOOLEAN, created : 0..MaxTime]

Consent == [scopes : SUBSET Scopes, until : Lifetimes]

Reply == [cookie : Session \cup {None, Keep}, write : Message \cup {None},
          clear : SUBSET Key, next : {"idle", "login", "consent", "callback"}]

\* The steps of a request on the server, and its response under way.
InFlight == {"process", "expired", "update", "issue", "logout", "notify", "reply"}

Flow == [at : {"idle", "login", "consent"} \cup InFlight,
         ask : Ask \cup {None}, user : Session \cup {None},
         answer : Message \cup {None}, grant : SUBSET Scopes,
         reply : Reply \cup {None},
         yes : SUBSET Subjects,     \* history: users whose last answer to a page was yes
         notified : SUBSET Clients] \* clients the sign-out was sent to

Idle == [at |-> "idle", ask |-> None, user |-> None, answer |-> None,
         grant |-> {}, reply |-> None, yes |-> {}, notified |-> {}]

ASSUME NoneAssumption ==
    /\ None \notin Session \cup Message \cup Reply \cup Ask \cup Consent
    /\ None \notin Nat
    /\ Keep \notin Session \cup {None}

TypeOK ==
    /\ now \in 0..MaxTime
    /\ sent \in 0..MaxRequests
    /\ users \subseteq Subjects
    /\ consents \in [Subjects \X Clients -> Consent \cup {None}]
    /\ session \in Session \cup {None}
    /\ messages \subseteq Message
    /\ flow \in [Tabs -> Flow]
    /\ agreed \in [Subjects \X Clients -> SUBSET Scopes]
    /\ signedIn \subseteq Sids \X Clients
    /\ mixed \subseteq Sids

Init ==
    /\ now = 0
    /\ sent = 0
    /\ users = Subjects
    /\ consents = [p \in Subjects \X Clients |-> None]
    /\ session = None
    /\ messages = {}
    /\ flow = [t \in Tabs |-> Idle]
    /\ agreed = [p \in Subjects \X Clients |-> {}]
    /\ signedIn = {}
    /\ mixed = {}

-----------------------------------------------------------------------------
SubjectOf(s) == IF s = None THEN None ELSE s.sub

\* mutant: the answer is stored for the request, whoever gave it
KeyOf_AnySubject(ask, s) == [client |-> ask.client, sub |-> None,
                             nonce |-> ask.nonce, scopes |-> ask.scopes]

KeyOf(ask, s) == [client |-> ask.client, sub |-> SubjectOf(s),
                  nonce |-> ask.nonce, scopes |-> ask.scopes]

\* A user who is signed in and the client they came from.
Pair(f) == <<f.user.sub, f.ask.client>>

Moved(t, f) == flow' = [flow EXCEPT ![t] = f]

Replied(f, r) == [f EXCEPT !.at = "reply", !.reply = r, !.answer = None, !.grant = {}]

\* Processing the callback deletes the message it found.
Consumed(f) == IF f.answer = None THEN {} ELSE {f.answer.key}

Redirected(f, page) ==
    Replied(f, [cookie |-> Keep, write |-> None, clear |-> Consumed(f), next |-> page])

\* A page, or an error for the client when the request asked for no page.
Shown(f, page) == Redirected(f, IF "none" \in f.ask.prompts THEN "idle" ELSE page)

\* Two requests of a session that may be signed out are in flight together.
Overlap(t, s) ==
    IF SignOuts /\ s # None /\ \E u \in Tabs \ {t} :
                      /\ flow[u].at \in InFlight /\ flow[u].user # None
                      /\ flow[u].user.sid = s.sid
    THEN mixed \cup {s.sid} ELSE mixed

\* Nonces a request or an answer in the browser still has; drawn ones are others.
UsedNonces ==
    {m.key.nonce : m \in messages} \cup
    {flow[t].ask.nonce : t \in {u \in Tabs : flow[u].ask # None}}

FreshNonce == CHOOSE n \in Nonces \ UsedNonces : \A m \in Nonces \ UsedNonces : n <= m

\* A new tab, or a client's redirect, sends the browser to the authorize endpoint.
SendAuthorize(t, ask) ==
    /\ flow[t].at = "idle"
    /\ sent < MaxRequests
    /\ (ask.client \in WithNonce) => Nonces \ UsedNonces # {}
    /\ Moved(t, [Idle EXCEPT
                    !.at = "process", !.user = session,
                    !.ask = IF ask.client \in WithNonce
                            THEN [ask EXCEPT !.nonce = FreshNonce] ELSE ask])
    /\ mixed' = Overlap(t, session)
    /\ sent' = sent + 1
    /\ UNCHANGED <<now, users, consents, session, messages, agreed, signedIn>>

-----------------------------------------------------------------------------
\* The user cancelled before they were signed in.
AnonymousDenied(f) ==
    f.answer # None /\ f.answer.scopes = {} /\ f.user = None

\* The sign-in is older than max_age or than the client's UserSsoLifetime.
Stale(f) == \E limit \in {f.ask.maxAge, UserSsoLifetime[f.ask.client]} \ {None} :
                now - f.user.auth > limit

LoginNeeded(f) ==
    ~ (/\ f.ask.prompts \cap {"login", "select_account"} = {}
       /\ f.user # None
       /\ f.user.sub \in users
       /\ ~Stale(f))

\* mutant: the return URL still asks for a sign-in
RemovePrompt_Kept(ask) == ask

\* RemovePrompt: all prompts go, so that the callback does not ask again.
RemovePrompt(ask) ==
    IF ask.prompts \cap {"login", "select_account"} = {} THEN ask
    ELSE [ask EXCEPT !.prompts = {}]

DenyAnonymous(t) ==
    /\ flow[t].at = "process"
    /\ AnonymousDenied(flow[t])
    /\ Moved(t, Redirected(flow[t], "idle"))
    /\ UNCHANGED <<now, users, consents, session, messages, sent, history>>

ProcessLogin(t) ==
    LET f == flow[t] IN
    /\ f.at = "process"
    /\ ~AnonymousDenied(f)
    /\ LoginNeeded(f)
    /\ Moved(t, Shown([f EXCEPT !.ask = RemovePrompt(f.ask)], "login"))
    /\ UNCHANGED <<now, users, consents, session, messages, sent, history>>

Expired(consent) == consent.until # None /\ now > consent.until

\* RequiresConsentAsync, but for the consent that has expired.
RequiresConsent(f) ==
    /\ f.ask.client \in RequireConsent
    /\ f.ask.scopes # {}
    /\ \/ f.ask.client \notin AllowRememberConsent
       \/ f.ask.scopes \cap AlwaysAsked # {}
       \/ consents[Pair(f)] = None
       \/ ~(f.ask.scopes \subseteq consents[Pair(f)].scopes)

FindsExpired(f) ==
    /\ f.ask.client \in RequireConsent \cap AllowRememberConsent
    /\ f.ask.scopes # {}
    /\ f.ask.scopes \cap AlwaysAsked = {}
    /\ consents[Pair(f)] # None
    /\ Expired(consents[Pair(f)])

\* The user said yes to what may not be deselected.
Granted(f) ==
    f.answer.scopes # {} /\ RequiredScopes \cap f.ask.scopes \subseteq f.answer.scopes

\* mutant: prompt=consent is ignored when a consent is remembered
Consented_Remembered(f, required) ==
    IF required /\ "none" \in f.ask.prompts THEN Redirected(f, "idle")
    ELSE IF ~required THEN [f EXCEPT !.at = "issue", !.grant = f.ask.scopes]
    ELSE IF f.answer = None THEN Redirected(f, "consent")
    ELSE IF ~Granted(f) THEN Redirected(f, "idle")
    ELSE [f EXCEPT !.at = IF f.ask.client \in AllowRememberConsent
                          THEN "update" ELSE "issue",
                   !.grant = f.ask.scopes \cap f.answer.scopes]

\* ProcessConsentAsync, once it is known whether consent is required.
Consented(f, required) ==
    IF required /\ "none" \in f.ask.prompts THEN Redirected(f, "idle")
    ELSE IF ~required /\ "consent" \notin f.ask.prompts
         THEN [f EXCEPT !.at = "issue", !.grant = f.ask.scopes]
    ELSE IF f.answer = None THEN Redirected(f, "consent")
    ELSE IF ~Granted(f) THEN Redirected(f, "idle")
    ELSE [f EXCEPT !.at = IF f.ask.client \in AllowRememberConsent
                          THEN "update" ELSE "issue",
                   !.grant = f.ask.scopes \cap f.answer.scopes]

ProcessConsent(t) ==
    LET f == flow[t] IN
    /\ f.at = "process"
    /\ ~AnonymousDenied(f)
    /\ ~LoginNeeded(f)
    /\ Moved(t, IF FindsExpired(f) THEN [f EXCEPT !.at = "expired"]
                ELSE Consented(f, RequiresConsent(f)))
    /\ UNCHANGED <<now, users, consents, session, messages, sent, history>>

\* The consent that had expired is removed by its key, whatever is there by now.
RemoveExpired(t) ==
    LET f == flow[t] IN
    /\ f.at = "expired"
    /\ consents' = [consents EXCEPT ![Pair(f)] = None]
    /\ Moved(t, Consented(f, TRUE))
    /\ UNCHANGED <<now, users, session, messages, sent, history>>

UpdateConsent(t) ==
    LET f == flow[t]
        lifetime == ConsentLifetime[f.ask.client] IN
    /\ f.at = "update"
    /\ consents' = [consents EXCEPT ![Pair(f)] =
                       IF f.answer.remember /\ f.grant # {}
                       THEN [scopes |-> f.grant,
                             until |-> IF lifetime = None THEN None ELSE now + lifetime]
                       ELSE None]
    /\ Moved(t, [f EXCEPT !.at = "issue"])
    /\ UNCHANGED <<now, users, session, messages, sent, history>>

\* mutant: the client list holds the last client only
WithClient_Replaces(s, c) ==
    IF c \in s.clients THEN Keep ELSE [s EXCEPT !.clients = {c}]

\* AddClientIdAsync: the session cookie is written again, from the request's copy.
WithClient(s, c) ==
    IF c \in s.clients THEN Keep ELSE [s EXCEPT !.clients = @ \cup {c}]

\* The code is stored and the client added to the session's list.
CreateResponse(t) ==
    LET f == flow[t] IN
    /\ f.at = "issue"
    /\ Moved(t, Replied(f, [cookie |-> WithClient(f.user, f.ask.client), write |-> None,
                            clear |-> Consumed(f), next |-> "idle"]))
    /\ signedIn' = signedIn \cup {<<f.user.sid, f.ask.client>>}
    /\ UNCHANGED <<now, users, consents, session, messages, sent, agreed, mixed>>

-----------------------------------------------------------------------------
\* Session ids somebody still has.
SidsOf(s, fl) ==
    {x.sid : x \in ({s} \cup {fl[t].user : t \in Tabs}
                    \cup {fl[t].reply.cookie : t \in {u \in Tabs : fl[u].reply # None}})
                   \ {None, Keep}}

FreshSid == CHOOSE n \in Sids \ SidsOf(session, flow) :
                \A m \in Sids \ SidsOf(session, flow) : n <= m

\* mutant: the principal has no auth_time
CreateSession_Undated(sub) ==
    [sub |-> sub, sid |-> FreshSid, auth |-> None, clients |-> {}]

\* A sign-in has new properties: a new session id and no clients.
CreateSession(sub) == [sub |-> sub, sid |-> FreshSid, auth |-> now, clients |-> {}]

\* The user signs in on the login page and is sent to the return URL.
PostLogin(t, sub) ==
    /\ flow[t].at = "login"
    /\ sub \in users
    /\ Sids \ SidsOf(session, flow) # {}
    /\ Moved(t, Replied([flow[t] EXCEPT !.user = session],
                        [cookie |-> CreateSession(sub), write |-> None, clear |-> {},
                         next |-> "callback"]))
    /\ mixed' = Overlap(t, session)
    /\ UNCHANGED <<now, users, consents, session, messages, sent, agreed, signedIn>>

\* ClearOverflow: the oldest messages go, to leave room for one.
Overflowing(old) ==
    /\ Cardinality(messages \ old) = IF Cardinality(messages) < MessageThreshold
                                      THEN Cardinality(messages) ELSE MessageThreshold - 1
    /\ \A m \in old, n \in messages \ old : m.created <= n.created

\* GrantConsentAsync writes the answer for the user who is signed in, if any.
GrantConsent(t, scopes, remember) ==
    LET f == flow[t]
        by == {SubjectOf(session)} IN
    /\ \E old \in SUBSET messages :
          /\ Overflowing(old)
          /\ Moved(t, Replied([f EXCEPT !.user = session,
                                        !.yes = IF scopes = {} THEN @ \ by ELSE @ \cup by],
                              [cookie |-> Keep,
                               write |-> [key |-> KeyOf(f.ask, session), scopes |-> scopes,
                                          remember |-> remember, created |-> now],
                               clear |-> {m.key : m \in old}, next |-> "callback"]))
    /\ mixed' = Overlap(t, session)

\* The cancel button of the login page: DenyAuthorizationAsync.
CancelLogin(t) ==
    /\ flow[t].at = "login"
    /\ GrantConsent(t, {}, FALSE)
    /\ UNCHANGED <<now, users, consents, session, messages, sent, agreed, signedIn>>

\* The consent page is for users who are signed in.
PostConsent(t, scopes, remember) ==
    /\ flow[t].at = "consent"
    /\ session # None
    /\ scopes \subseteq flow[t].ask.scopes
    /\ scopes = {} => ~remember
    /\ GrantConsent(t, scopes, remember)
    /\ agreed' = [agreed EXCEPT ![<<session.sub, flow[t].ask.client>>] = @ \cup scopes]
    /\ UNCHANGED <<now, users, consents, session, messages, sent, signedIn>>

\* The user closes the page, or its session is gone.
Leave(t) ==
    /\ flow[t].at \in {"login", "consent"}
    /\ Moved(t, Idle)
    /\ UNCHANGED <<now, users, consents, session, messages, sent, history>>

-----------------------------------------------------------------------------
SendLogout(t) ==
    /\ SignOuts
    /\ flow[t].at = "idle"
    /\ session # None
    /\ Moved(t, [Idle EXCEPT !.at = "logout", !.user = session])
    /\ mixed' = Overlap(t, session)
    /\ UNCHANGED <<now, users, consents, session, messages, sent, agreed, signedIn>>

\* The cookie is deleted and the clients it lists are told.
Logout(t) ==
    LET f == flow[t] IN
    /\ f.at = "logout"
    /\ Moved(t, Replied([f EXCEPT !.notified = f.user.clients],
                        [cookie |-> None, write |-> None, clear |-> {}, next |-> "idle"]))
    /\ UNCHANGED <<now, users, consents, session, messages, sent, history>>

\* The cookies the response deletes or writes over, and those it leaves.
Stored(r) ==
    LET rest == {m \in messages : m.key \notin r.clear} IN
    IF r.write = None THEN rest
    ELSE {m \in rest : m.key # r.write.key} \cup {r.write}

\* The message of a request, looked up in its cookies.
Answer(key, ms) ==
    IF \E m \in ms : m.key = key THEN CHOOSE m \in ms : m.key = key ELSE None

\* The response arrives: the browser stores its cookies and follows its redirect.
Arrive(t) ==
    LET f == flow[t]
        r == f.reply IN
    /\ f.at = "reply"
    /\ session' = IF r.cookie = Keep THEN session ELSE r.cookie
    /\ messages' = Stored(r)
    /\ Moved(t, CASE r.next = "idle" -> Idle
                  [] r.next = "callback" ->
                        [Idle EXCEPT !.at = "process", !.ask = f.ask, !.yes = f.yes,
                                     !.user = session',
                                     !.answer = Answer(KeyOf(f.ask, session'), messages')]
                  [] OTHER -> [Idle EXCEPT !.at = r.next, !.ask = f.ask, !.yes = f.yes])
    /\ LET live == SidsOf(session', flow') IN
       /\ signedIn' = {x \in signedIn : x[1] \in live}
       /\ mixed' = (IF r.next = "callback" THEN Overlap(t, session') ELSE mixed) \cap live
    /\ UNCHANGED <<now, users, consents, sent, agreed>>

-----------------------------------------------------------------------------
\* An answer of the user to the client is on its way to the store, or a code is.
Pending(pair) ==
    \/ \E m \in messages : <<m.key.sub, m.key.client>> = pair
    \/ \E t \in Tabs :
          LET f == flow[t] IN
          \/ /\ f.at \in {"process", "expired"} /\ f.answer # None
             /\ <<f.answer.key.sub, f.answer.key.client>> = pair
          \/ f.at \in {"update", "issue"} /\ Pair(f) = pair
          \/ /\ f.at = "reply" /\ f.reply.write # None
             /\ <<f.reply.write.key.sub, f.reply.write.key.client>> = pair

Withdrawn(P) == [p \in Subjects \X Clients |->
                    IF p \in P /\ ~Pending(p) THEN {} ELSE agreed[p]]

\* The grants page: RemoveAllGrantsAsync for the user and the client.
Revoke(c) ==
    /\ session # None
    /\ consents' = [consents EXCEPT ![<<session.sub, c>>] = None]
    /\ agreed' = Withdrawn({<<session.sub, c>>})
    /\ UNCHANGED <<now, users, session, messages, flow, sent, signedIn, mixed>>

Tick ==
    /\ now < MaxTime
    /\ now' = now + 1
    /\ agreed' = Withdrawn({p \in Subjects \X Clients :
                               consents[p] # None /\ consents[p].until = now})
    /\ UNCHANGED <<users, consents, session, messages, flow, sent, signedIn, mixed>>

DeleteUser(s) ==
    /\ s \in users \cap Deletable
    /\ users' = users \ {s}
    /\ UNCHANGED <<now, consents, session, messages, flow, sent, history>>

Endpoint(t) ==
    \/ DenyAnonymous(t) \/ ProcessLogin(t) \/ ProcessConsent(t)
    \/ RemoveExpired(t) \/ UpdateConsent(t) \/ CreateResponse(t) \/ Logout(t)

Login(t) == \E s \in Subjects : PostLogin(t, s)

AnswerConsent(t) ==
    \E scopes \in SUBSET Scopes, remember \in BOOLEAN : PostConsent(t, scopes, remember)

Next ==
    \/ Tick
    \/ \E c \in Clients : Revoke(c)
    \/ \E s \in Subjects : DeleteUser(s)
    \/ \E t \in Tabs :
          \/ \E a \in Asks : SendAuthorize(t, a)
          \/ Endpoint(t) \/ Arrive(t)
          \/ Login(t) \/ CancelLogin(t) \/ AnswerConsent(t) \/ Leave(t)
          \/ SendLogout(t)

Spec == Init /\ [][Next]_vars

\* Requests are served, responses arrive, and the user does not leave a page
\* unanswered for ever, nor cancel every sign-in.
FairSpec ==
    /\ Spec
    /\ \A t \in Tabs :
          /\ WF_vars(Endpoint(t) \/ Arrive(t))
          /\ SF_vars(Login(t) \/ (users = {} /\ flow[t].at = "login" /\ Leave(t)))
          /\ WF_vars(AnswerConsent(t) \/ (session = None /\ Leave(t)))

-----------------------------------------------------------------------------
\* A code is issued: CreateResponseAsync.
Issues(t) == flow[t].at = "issue" /\ flow'[t].at # "issue"

\* What a code lets a client have that asks for consent is covered by what that
\* user answered that client, through the page now or a consent remembered, and
\* has not revoked or let expire since.  Answers still under way at the
\* revocation count: UpdateConsentAsync stores them again.
ConsentRespected ==
    [][\A t \in Tabs : Issues(t) /\ flow[t].ask.client \in RequireConsent =>
          flow[t].grant \subseteq agreed[Pair(flow[t])]]_vars

\* With prompt=consent that user has said yes on the consent page of this very
\* tab, and not no since, remembered consents and answers of other tabs and users
\* notwithstanding, when the client sent a nonce: the answer is found by client,
\* user, scopes and nonce.
PromptIsHonoured ==
    [][\A t \in Tabs :
          Issues(t) /\ "consent" \in flow[t].ask.prompts /\ flow[t].ask.nonce # None =>
             flow[t].user.sub \in flow[t].yes]_vars

\* Signing out tells every client that was given a code in the session, and no
\* other, unless two requests of the session were in flight together: the later
\* response then replaces the client list of the earlier one.
SignOutReachesClients ==
    \A t \in Tabs :
       LET f == flow[t]
           told == {<<f.user.sid, c>> : c \in f.notified} IN
       f.at = "reply" /\ f.reply.cookie = None =>
          /\ told \subseteq signedIn
          /\ f.user.sid \notin mixed => {x \in signedIn : x[1] = f.user.sid} \subseteq told

\* Every request ends with an answer to its client or a page that is closed: no
\* loop between the endpoint and the login and consent pages, whatever is asked
\* for and whatever other tabs sign in or out.
FlowsEnd == \A t \in Tabs : flow[t].at # "idle" ~> flow[t].at = "idle"

=============================================================================
