------------------------ MODULE AuthorizeFlowProofs ------------------------
(***************************************************************************)
(* Theorems of AuthorizeFlow, for every set of tabs, users, clients and    *)
(* scopes, every request clients make and any bounds.                      *)
(***************************************************************************)
EXTENDS AuthorizeFlow, WellFoundedInduction, TLAPS

Pairs == Subjects \X Clients

\* A tab has what its page or the next step of its request reads.
Sound(f) ==
    /\ f.at \in {"login", "consent", "process", "expired", "update", "issue"} => f.ask # None
    /\ f.at \in {"expired", "update", "issue", "logout"} => f.user # None
    /\ f.at \notin InFlight => f.user = None
    /\ f.at = "update" => f.answer # None
    /\ f.answer # None =>
          /\ f.at \in {"process", "expired", "update", "issue"}
          /\ f.answer.key = KeyOf(f.ask, f.user)
    /\ f.at = "reply" <=> f.reply # None
    /\ f.at = "reply" /\ f.reply.next # "idle" => f.ask # None

TypeInv == TypeOK /\ \A t \in Tabs : Sound(flow[t])

-----------------------------------------------------------------------------
\* The least of a set of numbers.
LEMMA Least ==
    ASSUME NEW S \in SUBSET Nat, S # {}
    PROVE  \E n \in S : \A m \in S : n <= m
<1>1. PICK n \in S : \A m \in S : ~ (<<m, n>> \in OpToRel(<, Nat))
  BY NatLessThanWellFounded, WFMin
<1>2. \A m \in S : ~ (m < n)
  BY <1>1, Zenon DEF OpToRel
<1> QED
  BY <1>2

LEMMA FreshNonceIsFresh ==
    ASSUME Nonces \ UsedNonces # {}
    PROVE  FreshNonce \in Nonces \ UsedNonces
<1>1. Nonces \ UsedNonces \in SUBSET Nat
  BY AuthorizeAssumption
<1>2. \E n \in Nonces \ UsedNonces : \A m \in Nonces \ UsedNonces : n <= m
  BY <1>1, Least
<1> QED
  BY <1>2 DEF FreshNonce

LEMMA FreshSidIsFresh ==
    ASSUME Sids \ SidsOf(session, flow) # {}
    PROVE  FreshSid \in Sids \ SidsOf(session, flow)
<1> DEFINE S == Sids \ SidsOf(session, flow)
<1>1. S \in SUBSET Nat
  BY AuthorizeAssumption
<1>2. \E n \in S : \A m \in S : n <= m
  BY <1>1, Least
<1> QED
  BY <1>2 DEF FreshSid

\* The records a tab goes on with.
LEMMA MovedTo ==
    ASSUME TypeInv, NEW t \in Tabs, NEW g, Moved(t, g)
    PROVE  /\ flow'[t] = g
           /\ \A u \in Tabs \ {t} : flow'[u] = flow[u]
           /\ g \in Flow => flow' \in [Tabs -> Flow]
BY DEF Moved, TypeInv, TypeOK

LEMMA IdleFields ==
    /\ Idle \in Flow /\ Idle.at = "idle" /\ Idle.ask = None /\ Idle.user = None
    /\ Idle.answer = None /\ Idle.grant = {} /\ Idle.reply = None /\ Idle.yes = {}
    /\ Idle.notified = {}
BY DEF Idle, Flow

LEMMA RepliedFields ==
    ASSUME NEW f \in Flow, NEW r \in Reply
    PROVE  LET g == Replied(f, r) IN
           /\ g \in Flow /\ g.at = "reply" /\ g.reply = r /\ g.answer = None /\ g.grant = {}
           /\ g.ask = f.ask /\ g.user = f.user /\ g.yes = f.yes /\ g.notified = f.notified
BY DEF Replied, Flow, InFlight

\* A tab is sent back to its client or to a page, with the cookies as they are,
\* but for the message that was found.
Redirects(f, g) ==
    /\ g \in Flow /\ g.at = "reply" /\ g.answer = None /\ g.grant = {}
    /\ g.user = f.user /\ g.yes = f.yes /\ g.notified = f.notified
    /\ g.ask = f.ask
    /\ g.reply \in Reply /\ g.reply.cookie = Keep /\ g.reply.write = None
    /\ g.reply.next \in {"idle", "login", "consent"}

LEMMA RedirectedFields ==
    ASSUME NEW f \in Flow, NEW page \in {"idle", "login", "consent"}
    PROVE  Redirects(f, Redirected(f, page))
<1> DEFINE r == [cookie |-> Keep, write |-> None, clear |-> Consumed(f), next |-> page]
<1>1. Consumed(f) \subseteq Key
  BY DEF Consumed, Flow, Message
<1>2. r \in Reply /\ r.cookie = Keep /\ r.write = None /\ r.next = page
  BY <1>1 DEF Reply
<1>3. Redirected(f, page) = Replied(f, r)
  BY DEF Redirected
<1> HIDE DEF r
<1> QED
  BY <1>2, <1>3, RepliedFields DEF Redirects

LEMMA ShownFields ==
    ASSUME NEW f \in Flow, NEW page \in {"idle", "login", "consent"}
    PROVE  Redirects(f, Shown(f, page))
BY RedirectedFields DEF Shown

\* What comes of the consent step: an error or a page, the scopes that are asked
\* for, or those of an answer.
Agrees(f, g, required) ==
    \/ Redirects(f, g)
    \/ /\ g \in Flow /\ g.ask = f.ask /\ g.user = f.user /\ g.answer = f.answer /\ g.reply = f.reply
       /\ g.yes = f.yes /\ g.notified = f.notified
       /\ \/ /\ ~required /\ "consent" \notin f.ask.prompts
             /\ g.at = "issue" /\ g.grant = f.ask.scopes
          \/ /\ f.answer # None /\ f.answer.scopes # {}
             /\ g.at \in {"update", "issue"} /\ g.grant = f.ask.scopes \cap f.answer.scopes

LEMMA ConsentedFields ==
    ASSUME NEW f \in Flow, f.ask \in Ask, NEW required \in BOOLEAN
    PROVE  Agrees(f, Consented(f, required), required)
<1>1. CASE \/ required /\ "none" \in f.ask.prompts
           \/ /\ required \/ "consent" \in f.ask.prompts
              /\ f.answer = None \/ ~Granted(f)
  BY <1>1, RedirectedFields DEF Consented, Agrees
<1>2. CASE ~required /\ "consent" \notin f.ask.prompts
  <2> DEFINE g == [f EXCEPT !.at = "issue", !.grant = f.ask.scopes]
  <2>1. Consented(f, required) = g
    BY <1>2 DEF Consented
  <2>2. /\ g \in Flow /\ g.ask = f.ask /\ g.user = f.user /\ g.answer = f.answer
        /\ g.reply = f.reply /\ g.yes = f.yes /\ g.notified = f.notified
        /\ g.at = "issue" /\ g.grant = f.ask.scopes
    BY DEF Flow, InFlight, Ask
  <2> HIDE DEF g
  <2> QED
    BY <1>2, <2>1, <2>2 DEF Agrees
<1>3. CASE /\ ~(required /\ "none" \in f.ask.prompts)
           /\ required \/ "consent" \in f.ask.prompts
           /\ f.answer # None /\ Granted(f)
  <2> DEFINE s == IF f.ask.client \in AllowRememberConsent THEN "update" ELSE "issue"
             g == [f EXCEPT !.at = s, !.grant = f.ask.scopes \cap f.answer.scopes]
  <2>1. Consented(f, required) = g
    BY <1>3 DEF Consented
  <2>2. s \in {"update", "issue"} /\ f.answer.scopes # {}
    BY <1>3 DEF Granted
  <2> HIDE DEF s
  <2>3. /\ g \in Flow /\ g.ask = f.ask /\ g.user = f.user /\ g.answer = f.answer
        /\ g.reply = f.reply /\ g.yes = f.yes /\ g.notified = f.notified
        /\ g.at = s /\ g.grant = f.ask.scopes \cap f.answer.scopes
    BY <2>2 DEF Flow, InFlight, Ask
  <2> HIDE DEF g
  <2> QED
    BY <1>3, <2>1, <2>2, <2>3 DEF Agrees
<1> QED
  BY <1>1, <1>2, <1>3

-----------------------------------------------------------------------------
\* What a step makes of the tab that takes it.
SameKey(a, b) == a.client = b.client /\ a.scopes = b.scopes /\ a.nonce = b.nonce

\* A request goes on with what it has, its response leaves the session and the
\* messages as they are.
GoesOn(f, g) ==
    /\ g \in Flow /\ g.at \in {"expired", "update", "issue", "reply"} /\ Sound(g)
    /\ g.user = f.user /\ g.yes = f.yes /\ g.notified = f.notified
    /\ g.ask \in Ask /\ SameKey(g.ask, f.ask)
    /\ g.answer \in {None, f.answer}
    /\ g.at = "reply" => g.reply.cookie = Keep /\ g.reply.write = None

LEMMA LocalsFields ==
    ASSUME TypeInv, NEW t \in Tabs
    PROVE  LET f == flow[t] IN
           /\ f \in Flow /\ Sound(f)
           /\ f.ask \in Ask \cup {None} /\ f.user \in Session \cup {None}
           /\ f.answer \in Message \cup {None} /\ f.reply \in Reply \cup {None}
           /\ f.grant \subseteq Scopes /\ f.yes \subseteq Subjects /\ f.notified \subseteq Clients
BY DEF TypeInv, TypeOK, Flow

\* The steps that send the browser elsewhere before consent is looked at.
LEMMA RedirectDoes ==
    ASSUME TypeInv, NEW t \in Tabs, DenyAnonymous(t) \/ ProcessLogin(t)
    PROVE  GoesOn(flow[t], flow'[t]) /\ flow'[t].at = "reply" /\ flow[t].at = "process"
<1> DEFINE f == flow[t]
<1>1. /\ f \in Flow /\ Sound(f) /\ f.at = "process" /\ f.ask \in Ask
  BY LocalsFields DEF DenyAnonymous, ProcessLogin, Sound
<1>2. CASE DenyAnonymous(t)
  <2>1. flow'[t] = Redirected(f, "idle")
    BY <1>2, MovedTo DEF DenyAnonymous
  <2>2. Redirects(f, flow'[t])
    BY <1>1, <2>1, RedirectedFields
  <2> QED
    BY <1>1, <2>2, NoneAssumption DEF Redirects, GoesOn, Sound, SameKey, InFlight
<1>3. CASE ProcessLogin(t)
  <2> DEFINE ask == RemovePrompt(f.ask)
             h == [f EXCEPT !.ask = ask]
  <2>1. flow'[t] = Shown(h, "login")
    BY <1>3, MovedTo DEF ProcessLogin
  <2>2. ask \in Ask /\ SameKey(ask, f.ask)
    BY <1>1 DEF RemovePrompt, Ask, SameKey
  <2> HIDE DEF ask
  <2>3. /\ h \in Flow /\ h.ask = ask /\ h.user = f.user /\ h.yes = f.yes
        /\ h.notified = f.notified
    BY <1>1, <2>2 DEF Flow
  <2> HIDE DEF h
  <2>4. Redirects(h, flow'[t])
    BY <2>1, <2>3, ShownFields
  <2> QED
    BY <1>1, <2>2, <2>3, <2>4, NoneAssumption DEF Redirects, GoesOn, Sound, InFlight
<1> QED
  BY <1>2, <1>3

LEMMA AgreesGoesOn ==
    ASSUME NEW f \in Flow, Sound(f), f.at \in {"process", "expired"}, f.user # None,
           NEW g, NEW required, Agrees(f, g, required), g.at = "update" => f.answer # None
    PROVE  GoesOn(f, g)
<1>1. f.ask \in Ask /\ f.reply = None
  BY DEF Sound, Flow
<1>2. CASE Redirects(f, g)
  BY <1>1, <1>2, NoneAssumption DEF Redirects, GoesOn, Sound, SameKey, InFlight
<1>3. CASE ~Redirects(f, g)
  BY <1>1, <1>3, NoneAssumption DEF Agrees, GoesOn, Sound, SameKey, InFlight
<1> QED
  BY <1>2, <1>3

LEMMA ConsentDoes ==
    ASSUME TypeInv, NEW t \in Tabs, ProcessConsent(t)
    PROVE  /\ GoesOn(flow[t], flow'[t]) /\ flow[t].at = "process" /\ flow[t].user # None
           /\ \/ Agrees(flow[t], flow'[t], RequiresConsent(flow[t])) /\ ~FindsExpired(flow[t])
              \/ /\ FindsExpired(flow[t]) /\ flow'[t].at = "expired"
                 /\ flow'[t].ask = flow[t].ask /\ flow'[t].answer = flow[t].answer
<1> DEFINE f == flow[t]
<1>1. f \in Flow /\ Sound(f) /\ f.at = "process" /\ f.ask \in Ask /\ f.user # None
  BY LocalsFields DEF ProcessConsent, LoginNeeded, Sound
<1>2. flow'[t] = IF FindsExpired(f) THEN [f EXCEPT !.at = "expired"]
                 ELSE Consented(f, RequiresConsent(f))
  BY MovedTo DEF ProcessConsent
<1>3. CASE FindsExpired(f)
  <2> DEFINE g == [f EXCEPT !.at = "expired"]
  <2>1. /\ g \in Flow /\ g.at = "expired" /\ g.ask = f.ask /\ g.user = f.user
        /\ g.answer = f.answer /\ g.reply = f.reply /\ g.yes = f.yes /\ g.notified = f.notified
    BY <1>1 DEF Flow, InFlight
  <2>2. flow'[t] = g
    BY <1>2, <1>3
  <2> HIDE DEF g
  <2> QED
    BY <1>1, <1>3, <2>1, <2>2 DEF GoesOn, Sound, SameKey, InFlight
<1>4. CASE ~FindsExpired(f)
  <2>1. RequiresConsent(f) \in BOOLEAN
    BY DEF RequiresConsent
  <2>2. Agrees(f, flow'[t], RequiresConsent(f))
    BY <1>1, <1>2, <1>4, <2>1, ConsentedFields
  <2>3. flow'[t].at = "update" => f.answer # None
    BY <2>2 DEF Agrees, Redirects
  <2>4. GoesOn(f, flow'[t])
    BY <1>1, <2>2, <2>3, AgreesGoesOn
  <2> QED
    BY <1>1, <1>4, <2>2, <2>4
<1> QED
  BY <1>3, <1>4

LEMMA RemoveExpiredDoes ==
    ASSUME TypeInv, NEW t \in Tabs, RemoveExpired(t)
    PROVE  /\ GoesOn(flow[t], flow'[t]) /\ flow[t].at = "expired" /\ flow[t].user # None
           /\ Agrees(flow[t], flow'[t], TRUE)
<1> DEFINE f == flow[t]
<1>1. f \in Flow /\ Sound(f) /\ f.at = "expired" /\ f.ask \in Ask /\ f.user # None
  BY LocalsFields DEF RemoveExpired, Sound
<1>2. flow'[t] = Consented(f, TRUE)
  BY MovedTo DEF RemoveExpired
<1>3. Agrees(f, flow'[t], TRUE)
  BY <1>1, <1>2, ConsentedFields
<1>4. flow'[t].at = "update" => f.answer # None
  BY <1>3 DEF Agrees, Redirects
<1> QED
  BY <1>1, <1>3, <1>4, AgreesGoesOn

LEMMA UpdateDoes ==
    ASSUME TypeInv, NEW t \in Tabs, UpdateConsent(t)
    PROVE  /\ GoesOn(flow[t], flow'[t]) /\ flow[t].at = "update" /\ flow'[t].at = "issue"
           /\ flow'[t].ask = flow[t].ask /\ flow'[t].answer = flow[t].answer
           /\ flow'[t].grant = flow[t].grant /\ flow[t].user # None
<1> DEFINE f == flow[t]
           g == [f EXCEPT !.at = "issue"]
<1>1. /\ f \in Flow /\ Sound(f) /\ f.at = "update" /\ f.ask \in Ask /\ f.user # None
      /\ f.reply = None
  BY LocalsFields DEF UpdateConsent, Sound
<1>2. flow'[t] = g
  BY MovedTo DEF UpdateConsent
<1>3. /\ g \in Flow /\ g.at = "issue" /\ g.ask = f.ask /\ g.user = f.user /\ g.grant = f.grant
      /\ g.answer = f.answer /\ g.reply = f.reply /\ g.yes = f.yes /\ g.notified = f.notified
  BY <1>1 DEF Flow, InFlight
<1> HIDE DEF g
<1> QED
  BY <1>1, <1>2, <1>3 DEF GoesOn, Sound, SameKey, InFlight

LEMMA WithClientCookie ==
    ASSUME NEW s \in Session, NEW c \in Clients
    PROVE  LET k == WithClient(s, c) IN
           \/ c \in s.clients /\ k = Keep
           \/ /\ k \in Session /\ k # Keep /\ k.sub = s.sub /\ k.sid = s.sid
              /\ k.clients = s.clients \cup {c}
<1> DEFINE x == [s EXCEPT !.clients = @ \cup {c}]
<1>1. x \in Session /\ x.sub = s.sub /\ x.sid = s.sid /\ x.clients = s.clients \cup {c}
  BY DEF Session
<1>2. WithClient(s, c) = IF c \in s.clients THEN Keep ELSE x
  BY DEF WithClient
<1> HIDE DEF x
<1> QED
  BY <1>1, <1>2, NoneAssumption

LEMMA CreateDoes ==
    ASSUME TypeInv, NEW t \in Tabs, CreateResponse(t)
    PROVE  LET f == flow[t]
               g == flow'[t] IN
           /\ f.at = "issue" /\ f.user \in Session /\ f.user # None /\ f.ask \in Ask
           /\ g \in Flow /\ g.at = "reply" /\ Sound(g) /\ g.answer = None
           /\ g.ask = f.ask /\ g.user = f.user /\ g.yes = f.yes /\ g.notified = f.notified
           /\ g.reply.write = None /\ g.reply.next = "idle"
           /\ g.reply.cookie = WithClient(f.user, f.ask.client)
           /\ signedIn' = signedIn \cup {<<f.user.sid, f.ask.client>>}
           /\ UNCHANGED <<now, users, consents, session, messages, sent, agreed, mixed>>
<1> DEFINE f == flow[t]
           r == [cookie |-> WithClient(f.user, f.ask.client), write |-> None,
                 clear |-> Consumed(f), next |-> "idle"]
<1>1. /\ f \in Flow /\ Sound(f) /\ f.at = "issue" /\ f.ask \in Ask /\ f.user \in Session
      /\ f.user # None
  BY LocalsFields, NoneAssumption DEF CreateResponse, Sound
<1>2. Consumed(f) \subseteq Key
  BY <1>1 DEF Consumed, Flow, Message
<1>3. f.ask.client \in Clients
  BY <1>1 DEF Ask
<1>4. WithClient(f.user, f.ask.client) \in Session \cup {Keep}
  BY <1>1, <1>3, WithClientCookie
<1>5. r \in Reply /\ r.cookie = WithClient(f.user, f.ask.client) /\ r.write = None
      /\ r.next = "idle"
  BY <1>2, <1>4 DEF Reply
<1>6. flow'[t] = Replied(f, r)
  BY MovedTo DEF CreateResponse
<1> HIDE DEF r
<1> DEFINE g == flow'[t]
<1>7. /\ g \in Flow /\ g.at = "reply" /\ g.reply = r /\ g.answer = None /\ g.grant = {}
      /\ g.ask = f.ask /\ g.user = f.user /\ g.yes = f.yes /\ g.notified = f.notified
  BY <1>1, <1>5, <1>6, RepliedFields
<1>8. Sound(g)
  BY <1>1, <1>5, <1>7, NoneAssumption DEF Sound, InFlight
<1> HIDE DEF g
<1> QED
  BY <1>1, <1>5, <1>7, <1>8 DEF CreateResponse, g

LEMMA LogoutDoes ==
    ASSUME TypeInv, NEW t \in Tabs, Logout(t)
    PROVE  LET f == flow[t]
               g == flow'[t] IN
           /\ f.at = "logout" /\ f.user \in Session /\ f.user # None
           /\ g \in Flow /\ g.at = "reply" /\ Sound(g) /\ g.answer = None
           /\ g.ask = f.ask /\ g.user = f.user /\ g.yes = f.yes /\ g.notified = f.user.clients
           /\ g.reply.write = None /\ g.reply.next = "idle" /\ g.reply.cookie = None
<1> DEFINE f == flow[t]
           h == [f EXCEPT !.notified = f.user.clients]
           r == [cookie |-> None, write |-> None, clear |-> {}, next |-> "idle"]
<1>1. f \in Flow /\ Sound(f) /\ f.at = "logout" /\ f.user \in Session /\ f.user # None
  BY LocalsFields DEF Logout, Sound
<1>2. r \in Reply /\ r.cookie = None /\ r.write = None /\ r.next = "idle"
  BY DEF Reply
<1>3. /\ h \in Flow /\ h.ask = f.ask /\ h.user = f.user /\ h.yes = f.yes
      /\ h.notified = f.user.clients
  BY <1>1 DEF Flow, Session
<1>4. flow'[t] = Replied(h, r)
  BY MovedTo DEF Logout
<1> HIDE DEF r, h
<1> DEFINE g == flow'[t]
<1>5. /\ g \in Flow /\ g.at = "reply" /\ g.reply = r /\ g.answer = None /\ g.grant = {}
      /\ g.ask = h.ask /\ g.user = h.user /\ g.yes = h.yes /\ g.notified = h.notified
  BY <1>2, <1>3, <1>4, RepliedFields
<1>6. Sound(g)
  BY <1>1, <1>2, <1>3, <1>5, NoneAssumption DEF Sound, InFlight
<1> HIDE DEF g
<1> QED
  BY <1>1, <1>2, <1>3, <1>5, <1>6 DEF g

LEMMA LoginDoes ==
    ASSUME TypeInv, NEW t \in Tabs, NEW sub \in Subjects, PostLogin(t, sub)
    PROVE  LET f == flow[t]
               g == flow'[t] IN
           /\ f.at = "login" /\ f.ask \in Ask
           /\ g \in Flow /\ g.at = "reply" /\ Sound(g) /\ g.answer = None
           /\ g.ask = f.ask /\ g.user = session /\ g.yes = f.yes /\ g.notified = f.notified
           /\ g.reply.write = None /\ g.reply.next = "callback"
           /\ g.reply.cookie \in Session /\ g.reply.cookie \notin {None, Keep}
           /\ g.reply.cookie.sid \in Sids \ SidsOf(session, flow)
           /\ g.reply.cookie.clients = {}
<1> DEFINE f == flow[t]
           h == [f EXCEPT !.user = session]
           c == CreateSession(sub)
           r == [cookie |-> c, write |-> None, clear |-> {}, next |-> "callback"]
<1>1. f \in Flow /\ Sound(f) /\ f.at = "login" /\ f.ask \in Ask
  BY LocalsFields DEF PostLogin, Sound
<1>2. FreshSid \in Sids \ SidsOf(session, flow)
  BY FreshSidIsFresh DEF PostLogin
<1>3. c \in Session /\ c.sid = FreshSid /\ c.clients = {}
  BY <1>2 DEF CreateSession, Session, TypeInv, TypeOK
<1>4. c \notin {None, Keep}
  BY <1>3, NoneAssumption
<1> HIDE DEF c
<1>5. r \in Reply /\ r.cookie = c /\ r.write = None /\ r.next = "callback"
  BY <1>3 DEF Reply
<1>6. h \in Flow /\ h.ask = f.ask /\ h.user = session /\ h.yes = f.yes /\ h.notified = f.notified
  BY <1>1 DEF Flow, TypeInv, TypeOK
<1>7. flow'[t] = Replied(h, r)
  BY MovedTo DEF PostLogin, c
<1> HIDE DEF r, h
<1> DEFINE g == flow'[t]
<1>8. /\ g \in Flow /\ g.at = "reply" /\ g.reply = r /\ g.answer = None /\ g.grant = {}
      /\ g.ask = h.ask /\ g.user = h.user /\ g.yes = h.yes /\ g.notified = h.notified
  BY <1>5, <1>6, <1>7, RepliedFields
<1>9. Sound(g)
  BY <1>1, <1>5, <1>6, <1>8, NoneAssumption DEF Sound, InFlight
<1> HIDE DEF g
<1> QED
  BY <1>1, <1>2, <1>3, <1>4, <1>5, <1>6, <1>8, <1>9 DEF g

\* A user answers a page, or cancels.
Answered(t, scopes) ==
    LET f == flow[t]
        g == flow'[t] IN
    /\ f.ask \in Ask
    /\ g \in Flow /\ g.at = "reply" /\ Sound(g) /\ g.answer = None
    /\ g.ask = f.ask /\ g.user = session /\ g.notified = f.notified
    /\ g.yes = IF scopes = {} THEN f.yes \ {SubjectOf(session)}
               ELSE f.yes \cup {SubjectOf(session)}
    /\ g.reply.cookie = Keep /\ g.reply.next = "callback"
    /\ g.reply.write \in Message /\ g.reply.write # None
    /\ g.reply.write.key = KeyOf(f.ask, session) /\ g.reply.write.scopes = scopes

LEMMA GrantDoes ==
    ASSUME TypeInv, NEW t \in Tabs, NEW scopes \in SUBSET Scopes, NEW remember \in BOOLEAN,
           flow[t].at \in {"login", "consent"}, scopes # {} => session # None,
           GrantConsent(t, scopes, remember)
    PROVE  Answered(t, scopes)
<1> DEFINE f == flow[t]
           by == {SubjectOf(session)}
           yes == IF scopes = {} THEN f.yes \ by ELSE f.yes \cup by
           h == [f EXCEPT !.user = session, !.yes = yes]
           m == [key |-> KeyOf(f.ask, session), scopes |-> scopes, remember |-> remember,
                 created |-> now]
<1>1. f \in Flow /\ Sound(f) /\ f.ask \in Ask /\ f.yes \subseteq Subjects
  BY LocalsFields DEF Sound
<1>2. session \in Session \cup {None} /\ messages \subseteq Message /\ now \in 0..MaxTime
  BY DEF TypeInv, TypeOK
<1>3. SubjectOf(session) \in Subjects \cup {None}
      /\ (scopes # {} => SubjectOf(session) \in Subjects)
  BY <1>2 DEF SubjectOf, Session
<1>4. m \in Message /\ m.key = KeyOf(f.ask, session) /\ m.scopes = scopes
  <2>1. KeyOf(f.ask, session) \in Key
    BY <1>1, <1>3 DEF KeyOf, Key, Ask
  <2> QED
    BY <1>2, <2>1 DEF Message
<1>5. m # None
  BY <1>4, NoneAssumption
<1> HIDE DEF m
<1>6. yes \subseteq Subjects
  BY <1>1, <1>3
<1> HIDE DEF yes
<1>7. h \in Flow /\ h.ask = f.ask /\ h.user = session /\ h.yes = yes /\ h.notified = f.notified
  BY <1>1, <1>2, <1>6 DEF Flow
<1> HIDE DEF h
<1>8. PICK old \in SUBSET messages :
         flow'[t] = Replied(h, [cookie |-> Keep, write |-> m, clear |-> {n.key : n \in old},
                                next |-> "callback"])
  BY MovedTo DEF GrantConsent, h, m, yes
<1> DEFINE r == [cookie |-> Keep, write |-> m, clear |-> {n.key : n \in old}, next |-> "callback"]
<1>9. r \in Reply /\ r.cookie = Keep /\ r.write = m /\ r.next = "callback"
  <2>1. {n.key : n \in old} \subseteq Key
    BY <1>2 DEF Message
  <2> QED
    BY <1>4, <2>1 DEF Reply
<1>12. flow'[t] = Replied(h, r)
  BY <1>8 DEF r
<1> HIDE DEF r
<1> DEFINE g == flow'[t]
<1>10. /\ g \in Flow /\ g.at = "reply" /\ g.reply = r /\ g.answer = None /\ g.grant = {}
       /\ g.ask = h.ask /\ g.user = h.user /\ g.yes = h.yes /\ g.notified = h.notified
  BY <1>7, <1>9, <1>12, RepliedFields
<1>11. Sound(g)
  BY <1>1, <1>7, <1>9, <1>10, NoneAssumption DEF Sound, InFlight
<1> HIDE DEF g
<1> QED
  BY <1>1, <1>4, <1>5, <1>7, <1>9, <1>10, <1>11 DEF g, yes, Answered

\* A request is sent with the session of the browser.
LEMMA SendDoes ==
    ASSUME TypeInv, NEW t \in Tabs, SendLogout(t) \/ \E a \in Asks : SendAuthorize(t, a)
    PROVE  LET g == flow'[t] IN
           /\ flow[t].at = "idle"
           /\ g \in Flow /\ g.at \in {"process", "logout"} /\ Sound(g) /\ g.answer = None
           /\ g.user = session /\ g.yes = {} /\ g.reply = None
           /\ g.ask # None => g.ask.nonce = None \/ g.ask.nonce \in Nonces \ UsedNonces
           /\ g.at = "logout" => SignOuts
           /\ mixed' = Overlap(t, session)
           /\ UNCHANGED <<session, messages, agreed, signedIn, consents, users, now>>
           /\ sent' \in 0..MaxRequests
<1>1. session \in Session \cup {None} /\ sent \in 0..MaxRequests /\ MaxRequests \in Nat
  BY AuthorizeAssumption DEF TypeInv, TypeOK
<1>2. CASE SendLogout(t)
  <2> DEFINE g == [Idle EXCEPT !.at = "logout", !.user = session]
  <2>1. flow'[t] = g
    BY <1>2, MovedTo DEF SendLogout
  <2>2. /\ g \in Flow /\ g.at = "logout" /\ g.user = session /\ g.ask = None /\ g.answer = None
        /\ g.reply = None /\ g.yes = {}
    BY <1>1 DEF Idle, Flow, InFlight
  <2> HIDE DEF g
  <2> QED
    BY <1>1, <1>2, <2>1, <2>2, NoneAssumption DEF SendLogout, Sound, InFlight
<1>3. ASSUME NEW a \in Asks, SendAuthorize(t, a)
      PROVE  LET g == flow'[t] IN
             /\ flow[t].at = "idle"
             /\ g \in Flow /\ g.at = "process" /\ Sound(g) /\ g.answer = None
             /\ g.user = session /\ g.yes = {} /\ g.reply = None
             /\ g.ask.nonce = None \/ g.ask.nonce \in Nonces \ UsedNonces
             /\ sent' \in 0..MaxRequests
  <2> DEFINE ask == IF a.client \in WithNonce THEN [a EXCEPT !.nonce = FreshNonce] ELSE a
             g == [Idle EXCEPT !.at = "process", !.user = session, !.ask = ask]
  <2>1. a \in Ask /\ a.nonce = None
    BY AuthorizeAssumption
  <2>2. a.client \in WithNonce => FreshNonce \in Nonces \ UsedNonces
    BY <1>3, FreshNonceIsFresh DEF SendAuthorize
  <2>3. ask \in Ask /\ (ask.nonce = None \/ ask.nonce \in Nonces \ UsedNonces)
    BY <2>1, <2>2 DEF Ask
  <2>4. flow'[t] = g
    BY <1>3, MovedTo DEF SendAuthorize
  <2> HIDE DEF ask
  <2>5. /\ g \in Flow /\ g.at = "process" /\ g.user = session /\ g.ask = ask /\ g.answer = None
        /\ g.reply = None /\ g.yes = {}
    BY <1>1, <2>3 DEF Idle, Flow, InFlight
  <2> HIDE DEF g
  <2>6. Sound(g)
    BY <2>3, <2>5, NoneAssumption DEF Sound, InFlight
  <2>7. sent' \in 0..MaxRequests
    <3>1. sent < MaxRequests /\ sent' = sent + 1
      BY <1>3, Zenon DEF SendAuthorize
    <3> QED
      BY <1>1, <3>1
  <2> QED
    BY <1>3, <2>3, <2>4, <2>5, <2>6, <2>7 DEF SendAuthorize
<1>4. CASE \E a \in Asks : SendAuthorize(t, a)
  <2>1. PICK a \in Asks : SendAuthorize(t, a)
    BY <1>4
  <2> QED
    BY <1>3, <2>1 DEF SendAuthorize
<1> QED
  BY <1>2, <1>4

LEMMA LeaveDoes ==
    ASSUME TypeInv, NEW t \in Tabs, Leave(t)
    PROVE  flow[t].at \in {"login", "consent"} /\ flow[t].user = None /\ flow'[t] = Idle
<1>1. Sound(flow[t])
  BY LocalsFields
<1> QED
  BY <1>1, MovedTo DEF Leave, Sound, InFlight

\* The response arrives.
LEMMA AnswerFields ==
    ASSUME NEW key, NEW ms, ms \subseteq Message
    PROVE  \/ Answer(key, ms) = None
           \/ Answer(key, ms) \in ms /\ Answer(key, ms).key = key
BY DEF Answer

LEMMA ArriveDoes ==
    ASSUME TypeInv, NEW t \in Tabs, Arrive(t)
    PROVE  LET f == flow[t]
               g == flow'[t] IN
           /\ f.at = "reply" /\ f.reply \in Reply /\ f.reply # None
           /\ g \in Flow /\ Sound(g) /\ g.reply = None
           /\ session' = IF f.reply.cookie = Keep THEN session ELSE f.reply.cookie
           /\ session' \in Session \cup {None}
           /\ messages' \subseteq messages \cup ({f.reply.write} \ {None})
           /\ \A m \in messages' : f.reply.write # None /\ m.key = f.reply.write.key
                                      => m = f.reply.write
           /\ messages' \subseteq Message
           /\ \/ f.reply.next = "idle" /\ g = Idle
              \/ /\ f.reply.next = "callback" /\ g.at = "process"
                 /\ g.ask = f.ask /\ g.ask \in Ask /\ g.yes = f.yes /\ g.user = session'
                 /\ g.answer = None \/ (g.answer \in messages' /\ g.answer.key = KeyOf(f.ask, session'))
              \/ /\ f.reply.next \in {"login", "consent"} /\ g.at = f.reply.next
                 /\ g.ask = f.ask /\ g.ask \in Ask /\ g.yes = f.yes /\ g.user = None
                 /\ g.answer = None
<1> DEFINE f == flow[t]
           r == f.reply
           g == flow'[t]
<1>1. /\ f \in Flow /\ Sound(f) /\ f.at = "reply" /\ r \in Reply /\ r # None
      /\ r.next # "idle" => f.ask \in Ask
      /\ f.yes \subseteq Subjects
  BY LocalsFields DEF Arrive, Sound
<1>2. session \in Session \cup {None} /\ messages \subseteq Message
  BY DEF TypeInv, TypeOK
<1>3. session' = (IF r.cookie = Keep THEN session ELSE r.cookie) /\ session' \in Session \cup {None}
  BY <1>1, <1>2 DEF Arrive, Reply
<1>4. /\ messages' \subseteq messages \cup ({r.write} \ {None})
      /\ \A m \in messages' : r.write # None /\ m.key = r.write.key => m = r.write
  BY DEF Arrive, Stored
<1>5. messages' \subseteq Message
  BY <1>1, <1>2, <1>4 DEF Reply
<1>6. CASE r.next = "idle"
  <2>1. g = Idle
    BY <1>6, MovedTo DEF Arrive
  <2> QED
    BY <1>1, <1>3, <1>4, <1>5, <1>6, <2>1, IdleFields, NoneAssumption DEF Sound, InFlight
<1>7. CASE r.next = "callback"
  <2> DEFINE a == Answer(KeyOf(f.ask, session'), messages')
             h == [Idle EXCEPT !.at = "process", !.ask = f.ask, !.yes = f.yes,
                               !.user = session', !.answer = a]
  <2>1. g = h
    BY <1>7, MovedTo DEF Arrive
  <2>2. a = None \/ (a \in messages' /\ a.key = KeyOf(f.ask, session'))
    BY <1>5, AnswerFields
  <2> HIDE DEF a
  <2>3. /\ h \in Flow /\ h.at = "process" /\ h.ask = f.ask /\ h.yes = f.yes
        /\ h.user = session' /\ h.answer = a /\ h.reply = None
    BY <1>1, <1>3, <1>5, <1>7, <2>2 DEF Idle, Flow, InFlight
  <2> HIDE DEF h
  <2>4. Sound(h)
    BY <1>1, <1>7, <2>2, <2>3, NoneAssumption DEF Sound, InFlight
  <2> QED
    BY <1>1, <1>3, <1>4, <1>5, <1>7, <2>1, <2>2, <2>3, <2>4
<1>8. CASE r.next \in {"login", "consent"}
  <2> DEFINE h == [Idle EXCEPT !.at = r.next, !.ask = f.ask, !.yes = f.yes]
  <2>1. g = h
    BY <1>8, MovedTo DEF Arrive
  <2>2. /\ h \in Flow /\ h.at = r.next /\ h.ask = f.ask /\ h.yes = f.yes
        /\ h.user = None /\ h.answer = None /\ h.reply = None
    BY <1>1, <1>8 DEF Idle, Flow, InFlight
  <2> HIDE DEF h
  <2>3. Sound(h)
    BY <1>1, <1>8, <2>2, NoneAssumption DEF Sound, InFlight
  <2> QED
    BY <1>1, <1>3, <1>4, <1>5, <1>8, <2>1, <2>2, <2>3
<1>9. r.next \in {"idle", "login", "consent", "callback"}
  BY <1>1 DEF Reply
<1> QED
  BY <1>6, <1>7, <1>8, <1>9

-----------------------------------------------------------------------------
\* Type correctness.
LEMMA OverlapFields ==
    ASSUME TypeInv, NEW t \in Tabs, NEW s \in Session \cup {None}
    PROVE  Overlap(t, s) \subseteq Sids /\ mixed \subseteq Overlap(t, s)
<1>1. mixed \subseteq Sids /\ (s # None => s.sid \in Sids)
  BY DEF TypeInv, TypeOK, Session
<1> QED
  BY <1>1 DEF Overlap

LEMMA WithdrawnFields ==
    ASSUME TypeInv, NEW P
    PROVE  /\ Withdrawn(P) \in [Pairs -> SUBSET Scopes]
           /\ \A p \in Pairs : Withdrawn(P)[p] = agreed[p] \/ (p \in P /\ ~Pending(p))
<1>1. agreed \in [Pairs -> SUBSET Scopes]
  BY DEF TypeInv, TypeOK, Pairs
<1>2. Withdrawn(P) = [p \in Pairs |-> IF p \in P /\ ~Pending(p) THEN {} ELSE agreed[p]]
  BY DEF Withdrawn, Pairs
<1> QED
  BY <1>1, <1>2

LEMMA PairFields ==
    ASSUME TypeInv, NEW t \in Tabs, flow[t].user # None, flow[t].ask # None
    PROVE  /\ Pair(flow[t]) \in Pairs /\ Pair(flow[t]) = <<flow[t].user.sub, flow[t].ask.client>>
           /\ flow[t].user.sub \in Subjects /\ flow[t].ask.client \in Clients
<1>1. flow[t].user \in Session /\ flow[t].ask \in Ask
  BY LocalsFields
<1> QED
  BY <1>1 DEF Pair, Pairs, Session, Ask

LEMMA TypeFrom ==
    ASSUME TypeInv, NEW t \in Tabs, \E g : Moved(t, g),
           flow'[t] \in Flow, Sound(flow'[t]),
           now' \in 0..MaxTime, sent' \in 0..MaxRequests, users' \subseteq Subjects,
           consents' \in [Pairs -> Consent \cup {None}], session' \in Session \cup {None},
           messages' \subseteq Message, agreed' \in [Pairs -> SUBSET Scopes],
           signedIn' \subseteq Sids \X Clients, mixed' \subseteq Sids
    PROVE  TypeInv'
<1>1. /\ \A u \in Tabs \ {t} : flow'[u] = flow[u]
      /\ flow' \in [Tabs -> Flow]
  BY MovedTo
<1>2. \A u \in Tabs : Sound(flow'[u])
  BY <1>1 DEF TypeInv
<1> QED
  BY <1>1, <1>2, Zenon DEF TypeInv, TypeOK, Pairs

LEMMA TypeInit == Init => TypeInv
<1> SUFFICES ASSUME Init PROVE TypeInv
  OBVIOUS
<1>1. 0 \in 0..MaxTime /\ 0 \in 0..MaxRequests
  BY AuthorizeAssumption
<1>2. \A t \in Tabs : flow[t] = Idle
  BY DEF Init
<1>3. Sound(Idle)
  BY IdleFields DEF Sound, InFlight
<1> QED
  BY <1>1, <1>2, <1>3, IdleFields DEF Init, TypeInv, TypeOK, Pairs

\* The types of what a step leaves alone.
LEMMA TypeRest ==
    ASSUME TypeInv
    PROVE  /\ now \in 0..MaxTime /\ sent \in 0..MaxRequests /\ users \subseteq Subjects
           /\ consents \in [Pairs -> Consent \cup {None}] /\ session \in Session \cup {None}
           /\ messages \subseteq Message /\ flow \in [Tabs -> Flow]
           /\ agreed \in [Pairs -> SUBSET Scopes]
           /\ signedIn \subseteq Sids \X Clients /\ mixed \subseteq Sids
BY Zenon DEF TypeInv, TypeOK, Pairs

LEMMA TypeSend ==
    ASSUME TypeInv, NEW t \in Tabs, SendLogout(t) \/ \E a \in Asks : SendAuthorize(t, a)
    PROVE  TypeInv'
<1>1. \E g : Moved(t, g)
  BY Zenon DEF SendLogout, SendAuthorize
<1>2. mixed' \subseteq Sids
  BY SendDoes, OverlapFields, TypeRest
<1> QED
  BY <1>1, <1>2, SendDoes, TypeRest, TypeFrom

LEMMA ConsentStored ==
    ASSUME TypeInv, NEW t \in Tabs, UpdateConsent(t)
    PROVE  LET f == flow[t]
               p == Pair(f) IN
           /\ consents' \in [Pairs -> Consent \cup {None}]
           /\ \A q \in Pairs \ {p} : consents'[q] = consents[q]
           /\ consents'[p] = None \/ consents'[p].scopes = f.grant
<1> DEFINE f == flow[t]
           lifetime == ConsentLifetime[f.ask.client]
           c == IF f.answer.remember /\ f.grant # {}
                THEN [scopes |-> f.grant,
                      until |-> IF lifetime = None THEN None ELSE now + lifetime]
                ELSE None
<1>1. /\ Pair(f) \in Pairs /\ f.ask.client \in Clients /\ f.grant \subseteq Scopes
  BY UpdateDoes, PairFields, LocalsFields DEF UpdateConsent, Sound
<1>2. lifetime \in Lifetimes /\ now \in Nat
  BY <1>1, AuthorizeAssumption, TypeRest
<1>3. (IF lifetime = None THEN None ELSE now + lifetime) \in Lifetimes
  BY <1>2 DEF Lifetimes
<1>4. c \in Consent \cup {None} /\ (c = None \/ c.scopes = f.grant)
  BY <1>1, <1>3 DEF Consent
<1>5. consents' = [consents EXCEPT ![Pair(f)] = c]
  BY DEF UpdateConsent
<1> HIDE DEF c
<1> QED
  BY <1>1, <1>4, <1>5, TypeRest

LEMMA ConsentRemoved ==
    ASSUME TypeInv, NEW t \in Tabs, RemoveExpired(t)
    PROVE  LET p == Pair(flow[t]) IN
           /\ consents' \in [Pairs -> Consent \cup {None}]
           /\ \A q \in Pairs \ {p} : consents'[q] = consents[q]
           /\ consents'[p] = None
<1>1. Pair(flow[t]) \in Pairs
  BY RemoveExpiredDoes, PairFields, LocalsFields DEF Sound
<1> QED
  BY <1>1, TypeRest DEF RemoveExpired

LEMMA TypeEndpoint ==
    ASSUME TypeInv, NEW t \in Tabs, Endpoint(t)
    PROVE  TypeInv'
<1>0. \E g : Moved(t, g)
  BY Zenon DEF Endpoint, DenyAnonymous, ProcessLogin, ProcessConsent, RemoveExpired, UpdateConsent,
               CreateResponse, Logout
<1>1. CASE DenyAnonymous(t) \/ ProcessLogin(t)
  BY <1>0, <1>1, RedirectDoes, TypeRest, TypeFrom DEF GoesOn, DenyAnonymous, ProcessLogin, history
<1>2. CASE ProcessConsent(t)
  BY <1>0, <1>2, ConsentDoes, TypeRest, TypeFrom DEF GoesOn, ProcessConsent, history
<1>3. CASE RemoveExpired(t)
  BY <1>0, <1>3, RemoveExpiredDoes, ConsentRemoved, TypeRest, TypeFrom
     DEF GoesOn, RemoveExpired, history
<1>4. CASE UpdateConsent(t)
  BY <1>0, <1>4, UpdateDoes, ConsentStored, TypeRest, TypeFrom
     DEF GoesOn, UpdateConsent, history
<1>5. CASE CreateResponse(t)
  <2>1. signedIn' \subseteq Sids \X Clients
    BY <1>5, CreateDoes, TypeRest DEF Session, Ask
  <2> QED
    BY <1>0, <1>5, <2>1, CreateDoes, TypeRest, TypeFrom
<1>6. CASE Logout(t)
  BY <1>0, <1>6, LogoutDoes, TypeRest, TypeFrom DEF Logout, history
<1> QED
  BY <1>1, <1>2, <1>3, <1>4, <1>5, <1>6, Zenon DEF Endpoint

LEMMA TypeLogin ==
    ASSUME TypeInv, NEW t \in Tabs, NEW sub \in Subjects, PostLogin(t, sub)
    PROVE  TypeInv'
<1>1. \E g : Moved(t, g)
  BY Zenon DEF PostLogin
<1>2. mixed' \subseteq Sids
  BY OverlapFields, TypeRest DEF PostLogin
<1> QED
  BY <1>1, <1>2, LoginDoes, TypeRest, TypeFrom DEF PostLogin

LEMMA CancelDoes ==
    ASSUME TypeInv, NEW t \in Tabs, CancelLogin(t)
    PROVE  /\ flow[t].at = "login" /\ GrantConsent(t, {}, FALSE)
           /\ UNCHANGED <<now, users, consents, session, messages, sent, agreed, signedIn>>
           /\ mixed' = Overlap(t, session)
BY Zenon DEF CancelLogin, GrantConsent

LEMMA PostDoes ==
    ASSUME TypeInv, NEW t \in Tabs, NEW scopes, NEW remember, PostConsent(t, scopes, remember)
    PROVE  /\ flow[t].at = "consent" /\ GrantConsent(t, scopes, remember)
           /\ session # None /\ session \in Session /\ session.sub \in Subjects
           /\ flow[t].ask.client \in Clients /\ scopes \in SUBSET flow[t].ask.scopes
           /\ UNCHANGED <<now, users, consents, session, messages, sent, signedIn>>
           /\ mixed' = Overlap(t, session)
           /\ agreed' \in [Pairs -> SUBSET Scopes]
           /\ LET p == <<session.sub, flow[t].ask.client>> IN
              /\ p \in Pairs /\ agreed'[p] = agreed[p] \cup scopes
              /\ \A q \in Pairs \ {p} : agreed'[q] = agreed[q]
<1> DEFINE p == <<session.sub, flow[t].ask.client>>
<1>1. /\ flow[t].at = "consent" /\ GrantConsent(t, scopes, remember)
      /\ session # None /\ scopes \subseteq flow[t].ask.scopes
      /\ agreed' = [agreed EXCEPT ![p] = @ \cup scopes]
      /\ UNCHANGED <<now, users, consents, session, messages, sent, signedIn>>
  BY Zenon DEF PostConsent
<1>2. flow[t].ask \in Ask
  BY <1>1, LocalsFields DEF Sound
<1>3. session \in Session /\ session.sub \in Subjects
  BY <1>1, TypeRest DEF Session
<1>4. flow[t].ask.client \in Clients /\ flow[t].ask.scopes \subseteq Scopes
  BY <1>2 DEF Ask
<1>5. p \in Pairs
  BY <1>3, <1>4 DEF Pairs
<1>6. /\ agreed' \in [Pairs -> SUBSET Scopes]
      /\ agreed'[p] = agreed[p] \cup scopes
      /\ \A q \in Pairs \ {p} : agreed'[q] = agreed[q]
  <2> HIDE DEF p
  <2> QED
    BY <1>1, <1>4, <1>5, TypeRest
<1>7. mixed' = Overlap(t, session)
  BY <1>1, Zenon DEF GrantConsent
<1> QED
  BY <1>1, <1>3, <1>4, <1>5, <1>6, <1>7

LEMMA TypeAnswer ==
    ASSUME TypeInv, NEW t \in Tabs, NEW scopes \in SUBSET Scopes, NEW remember \in BOOLEAN,
           flow[t].at \in {"login", "consent"}, scopes # {} => session # None,
           GrantConsent(t, scopes, remember),
           UNCHANGED <<now, users, consents, session, messages, sent, signedIn>>,
           agreed' \in [Pairs -> SUBSET Scopes]
    PROVE  TypeInv'
<1>1. \E g : Moved(t, g)
  BY Zenon DEF GrantConsent
<1>2. flow'[t] \in Flow /\ Sound(flow'[t])
  <2>1. Answered(t, scopes)
    BY GrantDoes
  <2> QED
    BY <2>1 DEF Answered
<1>3. mixed' = Overlap(t, session)
  BY Zenon DEF GrantConsent
<1>4. mixed' \subseteq Sids
  BY <1>3, OverlapFields, TypeRest
<1> QED
  BY <1>1, <1>2, <1>4, TypeRest, TypeFrom

LEMMA TypeGrant ==
    ASSUME TypeInv, NEW t \in Tabs,
           CancelLogin(t) \/ \E scopes \in SUBSET Scopes, remember \in BOOLEAN :
                                PostConsent(t, scopes, remember)
    PROVE  TypeInv'
<1>1. CASE CancelLogin(t)
  BY <1>1, CancelDoes, TypeRest, TypeAnswer
<1>2. ASSUME NEW scopes \in SUBSET Scopes, NEW remember \in BOOLEAN,
             PostConsent(t, scopes, remember)
      PROVE  TypeInv'
  <2>1. /\ flow[t].at \in {"login", "consent"} /\ (scopes # {} => session # None)
        /\ GrantConsent(t, scopes, remember)
        /\ UNCHANGED <<now, users, consents, session, messages, sent, signedIn>>
    BY <1>2 DEF PostConsent
  <2>2. agreed' \in [Pairs -> SUBSET Scopes]
    BY <1>2, PostDoes
  <2> QED
    BY <2>1, <2>2, TypeAnswer
<1> QED
  BY <1>1, <1>2

LEMMA TypeLeave ==
    ASSUME TypeInv, NEW t \in Tabs, Leave(t)
    PROVE  TypeInv'
<1>1. \E g : Moved(t, g)
  BY Zenon DEF Leave
<1>2. Sound(Idle)
  BY IdleFields DEF Sound, InFlight
<1> QED
  BY <1>1, <1>2, LeaveDoes, IdleFields, TypeRest, TypeFrom DEF Leave, history

\* The rest of what the arrival of a response does.
LEMMA ArriveRest ==
    ASSUME TypeInv, NEW t \in Tabs, Arrive(t)
    PROVE  /\ \E g : Moved(t, g)
           /\ UNCHANGED <<now, users, consents, sent, agreed>>
           /\ signedIn' = {x \in signedIn : x[1] \in SidsOf(session', flow')}
           /\ mixed' = (IF flow[t].reply.next = "callback" THEN Overlap(t, session') ELSE mixed)
                          \cap SidsOf(session', flow')
<1>1. \E g : Moved(t, g)
  BY Zenon DEF Arrive
<1> QED
  BY <1>1 DEF Arrive

LEMMA TypeArrive ==
    ASSUME TypeInv, NEW t \in Tabs, Arrive(t)
    PROVE  TypeInv'
<1>1. mixed' \subseteq Sids
  <2>1. PICK s \in Session \cup {None} : s = session'
    BY ArriveDoes
  <2>2. Overlap(t, s) \subseteq Sids
    BY OverlapFields
  <2>3. Overlap(t, s) = Overlap(t, session')
    BY <2>1
  <2> QED
    BY <2>2, <2>3, ArriveRest, TypeRest
<1>2. signedIn' \subseteq Sids \X Clients
  BY ArriveRest, TypeRest
<1> QED
  BY <1>1, <1>2, ArriveDoes, ArriveRest, TypeRest, TypeFrom

LEMMA TypeOthers ==
    ASSUME TypeInv,
           Tick \/ (\E c \in Clients : Revoke(c)) \/ (\E s \in Subjects : DeleteUser(s))
    PROVE  TypeInv'
<1>1. CASE Tick
  <2>1. now' \in 0..MaxTime
    BY <1>1, AuthorizeAssumption, TypeRest DEF Tick
  <2>2. agreed' \in [Pairs -> SUBSET Scopes]
    BY <1>1, WithdrawnFields DEF Tick
  <2> QED
    BY <1>1, <2>1, <2>2, Zenon DEF Tick, TypeInv, TypeOK, Pairs
<1>2. ASSUME NEW c \in Clients, Revoke(c)
      PROVE  TypeInv'
  <2>1. agreed' \in [Pairs -> SUBSET Scopes]
    BY <1>2, WithdrawnFields DEF Revoke
  <2>2. consents' \in [Pairs -> Consent \cup {None}]
    BY <1>2, TypeRest DEF Revoke
  <2> QED
    BY <1>2, <2>1, <2>2, Zenon DEF Revoke, TypeInv, TypeOK, Pairs
<1>3. ASSUME NEW s \in Subjects, DeleteUser(s)
      PROVE  TypeInv'
  <2>1. users' \subseteq Subjects
    BY <1>3, TypeRest DEF DeleteUser
  <2> QED
    BY <1>3, <2>1, Zenon DEF DeleteUser, history, TypeInv, TypeOK, Pairs
<1> QED
  BY <1>1, <1>2, <1>3

\* The ways a tab moves.
TabStep(t) ==
    \/ \E a \in Asks : SendAuthorize(t, a)
    \/ Endpoint(t) \/ Arrive(t)
    \/ Login(t) \/ CancelLogin(t) \/ AnswerConsent(t) \/ Leave(t)
    \/ SendLogout(t)

OtherStep ==
    Tick \/ (\E c \in Clients : Revoke(c)) \/ (\E s \in Subjects : DeleteUser(s))

LEMMA Steps ==
    ASSUME Next
    PROVE  OtherStep \/ \E t \in Tabs : TabStep(t)
BY Zenon DEF Next, OtherStep, TabStep

LEMMA TypeStep ==
    ASSUME TypeInv, [Next]_vars
    PROVE  TypeInv'
<1>1. CASE OtherStep
  BY <1>1, TypeOthers DEF OtherStep
<1>2. ASSUME NEW t \in Tabs, TabStep(t)
      PROVE  TypeInv'
  BY <1>2, TypeSend, TypeEndpoint, TypeArrive, TypeLogin, TypeGrant, TypeLeave
     DEF TabStep, Login, AnswerConsent
<1>3. CASE UNCHANGED vars
  BY <1>3, Zenon DEF vars, history, TypeInv, TypeOK, Pairs
<1> QED
  BY <1>1, <1>2, <1>3, Steps

LEMMA TypeAlways == Spec => []TypeInv
BY TypeInit, TypeStep, PTL DEF Spec

\* The session, the messages, the requests in flight, the answers and the
\* histories are what the code reads of them, in every tab and at every step.
THEOREM TypeCorrect == Spec => []TypeOK
<1>1. TypeInv => TypeOK
  BY Zenon DEF TypeInv
<1> QED
  BY <1>1, TypeAlways, PTL

-----------------------------------------------------------------------------
\* A code has no more than what was agreed.

\* What an answer says yes to is agreed by its user, with its client.
Backed(m) ==
    m # None /\ m.scopes # {} =>
       /\ <<m.key.sub, m.key.client>> \in Pairs
       /\ m.scopes \subseteq agreed[<<m.key.sub, m.key.client>>]

\* A remembered consent that has not expired is agreed.
Remembered ==
    \A p \in Pairs :
       consents[p] # None /\ ~Expired(consents[p]) => consents[p].scopes \subseteq agreed[p]

FlowAgreed(f) ==
    /\ Backed(f.answer)
    /\ f.reply # None => Backed(f.reply.write)
    /\ f.at = "update" \/ (f.at = "issue" /\ f.ask.client \in RequireConsent) =>
          f.grant \subseteq agreed[Pair(f)]

ConsentInv ==
    /\ TypeInv
    /\ Remembered
    /\ \A m \in messages : Backed(m)
    /\ \A t \in Tabs : FlowAgreed(flow[t])

AgreedGrows == \A p \in Pairs : agreed[p] \subseteq agreed'[p]

LEMMA BackedKept ==
    ASSUME TypeInv, NEW m, Backed(m), AgreedGrows
    PROVE  Backed(m)'
BY DEF Backed, AgreedGrows

LEMMA ConsentInit == Init => ConsentInv
<1> SUFFICES ASSUME Init PROVE ConsentInv
  OBVIOUS
<1>1. \A t \in Tabs : flow[t] = Idle
  BY DEF Init
<1>2. FlowAgreed(Idle)
  BY IdleFields DEF FlowAgreed, Backed
<1> QED
  BY <1>1, <1>2, TypeInit DEF Init, ConsentInv, Remembered, Pairs

\* A tab moves and what was agreed stays agreed.
LEMMA ConsentFrom ==
    ASSUME ConsentInv, TypeInv', NEW t \in Tabs,
           \A u \in Tabs \ {t} : flow'[u] = flow[u],
           AgreedGrows, Remembered', FlowAgreed(flow[t])',
           \A m \in messages' : m \in messages \/ Backed(m)'
    PROVE  ConsentInv'
<1>1. \A m \in messages' : Backed(m)'
  BY BackedKept DEF ConsentInv
<1>2. ASSUME NEW u \in Tabs, u # t
      PROVE  FlowAgreed(flow[u])'
  <2>1. PICK f : f = flow[u] /\ f = flow'[u]
    BY <1>2
  <2>2. f \in Flow /\ Sound(f) /\ FlowAgreed(f)
    BY <2>1, LocalsFields DEF ConsentInv
  <2>3. Backed(f.answer)' /\ (f.reply # None => Backed(f.reply.write)')
    BY <2>2, BackedKept DEF ConsentInv, FlowAgreed
  <2>4. f.at \in {"update", "issue"} => Pair(f) \in Pairs
    BY <2>1, <2>2, PairFields DEF ConsentInv, Sound
  <2>5. f.at = "update" \/ (f.at = "issue" /\ f.ask.client \in RequireConsent) =>
           f.grant \subseteq agreed'[Pair(f)]
    BY <2>2, <2>4 DEF FlowAgreed, AgreedGrows
  <2> QED
    BY <2>1, <2>3, <2>5 DEF FlowAgreed, Backed, Pair
<1> QED
  BY <1>1, <1>2 DEF ConsentInv

LEMMA AgreedSame ==
    ASSUME ConsentInv, UNCHANGED agreed
    PROVE  /\ AgreedGrows
           /\ UNCHANGED <<now, consents>> => Remembered'
<1>1. UNCHANGED <<now, consents>> => Remembered'
  BY DEF ConsentInv, Remembered, Expired
<1> QED
  BY <1>1 DEF AgreedGrows

LEMMA GoesOnAgreed ==
    ASSUME ConsentInv, NEW t \in Tabs, GoesOn(flow[t], flow'[t]), UNCHANGED agreed,
           LET g == flow'[t] IN
           g.at = "update" \/ (g.at = "issue" /\ g.ask.client \in RequireConsent) =>
              g.grant \subseteq agreed[Pair(flow[t])]
    PROVE  FlowAgreed(flow[t])'
<1> DEFINE f == flow[t]
           g == flow'[t]
<1>1. Pair(g) = Pair(f)
  BY DEF GoesOn, SameKey, Pair
<1>2. FlowAgreed(f)
  BY DEF ConsentInv
<1>3. Backed(f.answer) /\ Backed(None)
  BY <1>2 DEF FlowAgreed, Backed
<1>4. g.reply # None => g.reply.write = None
  BY NoneAssumption DEF GoesOn, Sound
<1> QED
  BY <1>1, <1>3, <1>4 DEF FlowAgreed, Backed, GoesOn, Pair

\* The answer a request found says yes for its user and its client.
LEMMA AnswerBacked ==
    ASSUME ConsentInv, NEW t \in Tabs, flow[t].at \in {"process", "expired"},
           flow[t].user # None, flow[t].answer # None, flow[t].answer.scopes # {}
    PROVE  flow[t].answer.scopes \subseteq agreed[Pair(flow[t])]
<1>1. Sound(flow[t]) /\ Backed(flow[t].answer)
  BY LocalsFields DEF ConsentInv, FlowAgreed
<1>2. /\ flow[t].answer.key.sub = flow[t].user.sub
      /\ flow[t].answer.key.client = flow[t].ask.client
  BY <1>1 DEF Sound, KeyOf, SubjectOf
<1> QED
  BY <1>1, <1>2 DEF Backed, Pair

LEMMA ConsentProcessed ==
    ASSUME ConsentInv, TypeInv', NEW t \in Tabs, ProcessConsent(t)
    PROVE  ConsentInv'
<1> DEFINE f == flow[t]
           g == flow'[t]
<1>0. TypeInv /\ \A u \in Tabs \ {t} : flow'[u] = flow[u]
  BY MovedTo DEF ProcessConsent, ConsentInv
<1>1. UNCHANGED <<now, users, consents, session, messages, sent, agreed>>
  BY DEF ProcessConsent, history
<1>2. GoesOn(f, g) /\ f.at = "process" /\ f.user # None
  BY <1>0, ConsentDoes
<1>3. f.ask \in Ask /\ f.ask # None /\ Pair(f) \in Pairs
  BY <1>0, <1>2, LocalsFields, PairFields DEF Sound
<1>4. ASSUME g.at = "update" \/ (g.at = "issue" /\ g.ask.client \in RequireConsent)
      PROVE  g.grant \subseteq agreed[Pair(f)]
  <2>1. Agrees(f, g, RequiresConsent(f)) /\ ~FindsExpired(f) /\ ~Redirects(f, g)
    BY <1>0, <1>4, ConsentDoes DEF Redirects
  <2>2. CASE f.answer # None /\ f.answer.scopes # {} /\ g.grant = f.ask.scopes \cap f.answer.scopes
    BY <1>2, <2>2, AnswerBacked
  <2>3. CASE /\ ~RequiresConsent(f) /\ g.at = "issue" /\ g.grant = f.ask.scopes
             /\ f.ask.client \in RequireConsent
    <3>1. CASE f.ask.scopes = {}
      BY <2>3, <3>1
    <3>2. CASE f.ask.scopes # {}
      <4>1. /\ consents[Pair(f)] # None /\ f.ask.scopes \subseteq consents[Pair(f)].scopes
            /\ ~Expired(consents[Pair(f)])
        BY <2>1, <2>3, <3>2 DEF RequiresConsent, FindsExpired
      <4> QED
        BY <1>3, <2>3, <4>1 DEF ConsentInv, Remembered
    <3> QED
      BY <3>1, <3>2
  <2>4. g.at = "issue" => g.ask.client = f.ask.client
    BY <1>2 DEF GoesOn, SameKey
  <2> QED
    BY <1>4, <2>1, <2>2, <2>3, <2>4 DEF Agrees
<1>5. FlowAgreed(flow[t])'
  BY <1>1, <1>2, <1>4, GoesOnAgreed
<1> QED
  BY <1>0, <1>1, <1>5, AgreedSame, ConsentFrom

LEMMA ConsentExpired ==
    ASSUME ConsentInv, TypeInv', NEW t \in Tabs, RemoveExpired(t)
    PROVE  ConsentInv'
<1> DEFINE f == flow[t]
           g == flow'[t]
<1>0. TypeInv /\ \A u \in Tabs \ {t} : flow'[u] = flow[u]
  BY MovedTo DEF RemoveExpired, ConsentInv
<1>1. UNCHANGED <<now, users, session, messages, sent, agreed>>
  BY DEF RemoveExpired, history
<1>2. GoesOn(f, g) /\ f.at = "expired" /\ f.user # None /\ Agrees(f, g, TRUE)
  BY <1>0, RemoveExpiredDoes
<1>3. ASSUME g.at = "update" \/ (g.at = "issue" /\ g.ask.client \in RequireConsent)
      PROVE  g.grant \subseteq agreed[Pair(f)]
  <2>1. f.answer # None /\ f.answer.scopes # {} /\ g.grant = f.ask.scopes \cap f.answer.scopes
    BY <1>2, <1>3 DEF Agrees, Redirects
  <2> QED
    BY <1>2, <2>1, AnswerBacked
<1>4. FlowAgreed(flow[t])'
  BY <1>1, <1>2, <1>3, GoesOnAgreed
<1>5. Remembered'
  BY <1>0, <1>1, ConsentRemoved DEF ConsentInv, Remembered, Expired
<1> QED
  BY <1>0, <1>1, <1>4, <1>5, AgreedSame, ConsentFrom

LEMMA ConsentUpdated ==
    ASSUME ConsentInv, TypeInv', NEW t \in Tabs, UpdateConsent(t)
    PROVE  ConsentInv'
<1> DEFINE f == flow[t]
           g == flow'[t]
<1>0. TypeInv /\ \A u \in Tabs \ {t} : flow'[u] = flow[u]
  BY MovedTo DEF UpdateConsent, ConsentInv
<1>1. UNCHANGED <<now, users, session, messages, sent, agreed>>
  BY DEF UpdateConsent, history
<1>2. GoesOn(f, g) /\ f.at = "update" /\ g.grant = f.grant
  BY <1>0, UpdateDoes
<1>3. f.grant \subseteq agreed[Pair(f)]
  BY <1>2 DEF ConsentInv, FlowAgreed
<1>4. FlowAgreed(flow[t])'
  BY <1>1, <1>2, <1>3, GoesOnAgreed
<1>5. Remembered'
  <2> SUFFICES ASSUME NEW p \in Pairs, (consents[p] # None /\ ~Expired(consents[p]))'
               PROVE  (consents[p].scopes \subseteq agreed[p])'
    BY DEF Remembered
  <2>1. CASE p = Pair(f)
    BY <1>0, <1>1, <1>3, <2>1, ConsentStored
  <2>2. CASE p # Pair(f)
    <3>1. consents'[p] = consents[p]
      BY <1>0, <2>2, ConsentStored
    <3> QED
      BY <1>1, <3>1 DEF ConsentInv, Remembered, Expired
  <2> QED
    BY <2>1, <2>2
<1> QED
  BY <1>0, <1>1, <1>4, <1>5, AgreedSame, ConsentFrom

\* A tab that is left without an answer or a write has nothing to agree to.
LEMMA NothingAgreed ==
    ASSUME NEW t \in Tabs, flow'[t].answer = None, flow'[t].at \notin {"update", "issue"},
           flow'[t].reply # None => flow'[t].reply.write = None \/ flow'[t].reply.write.scopes = {}
    PROVE  FlowAgreed(flow[t])'
BY DEF FlowAgreed, Backed

\* Steps that leave the consents, the messages and the clock alone.
LEMMA ConsentPlain ==
    ASSUME ConsentInv, TypeInv', NEW t \in Tabs,
           \/ DenyAnonymous(t) \/ ProcessLogin(t) \/ CreateResponse(t) \/ Logout(t)
           \/ SendLogout(t) \/ (\E a \in Asks : SendAuthorize(t, a))
           \/ CancelLogin(t) \/ Leave(t) \/ (\E sub \in Subjects : PostLogin(t, sub))
    PROVE  ConsentInv'
<1>0. TypeInv
  BY DEF ConsentInv
<1>1. \E g : Moved(t, g)
  BY Zenon DEF DenyAnonymous, ProcessLogin, CreateResponse, Logout, SendLogout, SendAuthorize,
               CancelLogin, GrantConsent, Leave, PostLogin
<1>2. \A u \in Tabs \ {t} : flow'[u] = flow[u]
  BY <1>0, <1>1, MovedTo
<1>3. UNCHANGED <<now, consents, agreed, messages>>
  BY DEF DenyAnonymous, ProcessLogin, CreateResponse, Logout, SendLogout, SendAuthorize,
         CancelLogin, Leave, PostLogin, history
<1>4. FlowAgreed(flow[t])'
  <2>1. CASE DenyAnonymous(t) \/ ProcessLogin(t)
    BY <1>0, <1>3, <2>1, RedirectDoes, GoesOnAgreed
  <2>2. CASE CreateResponse(t)
    BY <1>0, <2>2, CreateDoes, NothingAgreed
  <2>3. CASE Logout(t)
    BY <1>0, <2>3, LogoutDoes, NothingAgreed
  <2>4. CASE SendLogout(t) \/ \E a \in Asks : SendAuthorize(t, a)
    BY <1>0, <2>4, SendDoes, NothingAgreed
  <2>5. CASE CancelLogin(t)
    <3>1. flow[t].at = "login" /\ GrantConsent(t, {}, FALSE)
      BY <1>0, <2>5, CancelDoes
    <3>2. /\ flow'[t].answer = None /\ flow'[t].at = "reply"
          /\ flow'[t].reply.write.scopes = {}
      <4>1. PICK scopes \in SUBSET Scopes : scopes = {}
        OBVIOUS
      <4>2. Answered(t, scopes)
        BY <1>0, <3>1, <4>1, GrantDoes
      <4> QED
        BY <4>1, <4>2 DEF Answered
    <3> QED
      BY <3>2, NothingAgreed
  <2>6. CASE Leave(t)
    BY <1>0, <2>6, LeaveDoes, IdleFields, NothingAgreed
  <2>7. ASSUME NEW sub \in Subjects, PostLogin(t, sub)
        PROVE  FlowAgreed(flow[t])'
    BY <1>0, <2>7, LoginDoes, NothingAgreed
  <2> QED
    BY <2>1, <2>2, <2>3, <2>4, <2>5, <2>6, <2>7
<1> QED
  BY <1>2, <1>3, <1>4, AgreedSame, ConsentFrom

LEMMA ConsentPosted ==
    ASSUME ConsentInv, TypeInv', NEW t \in Tabs, NEW scopes \in SUBSET Scopes,
           NEW remember \in BOOLEAN, PostConsent(t, scopes, remember)
    PROVE  ConsentInv'
<1> DEFINE g == flow'[t]
           p == <<session.sub, flow[t].ask.client>>
<1>0. TypeInv
  BY DEF ConsentInv
<1>1. /\ flow[t].at = "consent" /\ GrantConsent(t, scopes, remember) /\ session # None
      /\ UNCHANGED <<now, consents, messages>>
      /\ p \in Pairs /\ agreed'[p] = agreed[p] \cup scopes
      /\ \A q \in Pairs \ {p} : agreed'[q] = agreed[q]
  BY <1>0, PostDoes
<1>2. \A u \in Tabs \ {t} : flow'[u] = flow[u]
  BY <1>0, MovedTo, Zenon DEF PostConsent, GrantConsent
<1>3. /\ g.at = "reply" /\ g.answer = None /\ g.reply.write.scopes = scopes
      /\ g.reply.write.key = KeyOf(flow[t].ask, session)
  <2>1. flow[t].at = "consent" /\ session # None /\ GrantConsent(t, scopes, remember)
    BY <1>1
  <2>2. Answered(t, scopes)
    BY <1>0, <2>1, GrantDoes
  <2> QED
    BY <2>2 DEF Answered
<1>4. <<g.reply.write.key.sub, g.reply.write.key.client>> = p
  BY <1>1, <1>3 DEF KeyOf, SubjectOf
<1> HIDE DEF p
<1>5. AgreedGrows
  BY <1>1 DEF AgreedGrows
<1>6. Remembered'
  BY <1>1, <1>5 DEF ConsentInv, Remembered, Expired, AgreedGrows
<1>7. FlowAgreed(flow[t])'
  BY <1>1, <1>3, <1>4 DEF FlowAgreed, Backed
<1> QED
  BY <1>1, <1>2, <1>5, <1>6, <1>7, ConsentFrom

LEMMA ConsentArrives ==
    ASSUME ConsentInv, TypeInv', NEW t \in Tabs, Arrive(t)
    PROVE  ConsentInv'
<1> DEFINE f == flow[t]
           g == flow'[t]
<1>0. TypeInv
  BY DEF ConsentInv
<1>1. (\E h : Moved(t, h)) /\ UNCHANGED <<now, users, consents, sent, agreed>>
  BY <1>0, ArriveRest
<1>2. \A u \in Tabs \ {t} : flow'[u] = flow[u]
  BY <1>0, <1>1, MovedTo
<1>3. AgreedGrows /\ Remembered'
  BY <1>1, AgreedSame
<1>4. f.reply # None /\ Backed(f.reply.write)
  BY <1>0, ArriveDoes DEF ConsentInv, FlowAgreed
<1>5. messages' \subseteq messages \cup ({f.reply.write} \ {None})
  BY <1>0, ArriveDoes
<1>6. \A m \in messages' : Backed(m)'
  BY <1>0, <1>3, <1>4, <1>5, BackedKept DEF ConsentInv
<1>7. g.at \notin {"update", "issue"} /\ g.reply = None /\ (g.answer = None \/ g.answer \in messages')
  BY <1>0, ArriveDoes, IdleFields
<1>8. FlowAgreed(flow[t])'
  BY <1>6, <1>7 DEF FlowAgreed, Backed
<1> QED
  BY <1>2, <1>3, <1>6, <1>8, ConsentFrom

\* What is pending is not withdrawn.
LEMMA BackedPending ==
    ASSUME NEW m, Backed(m), \A p \in Pairs : Pending(p) => agreed'[p] = agreed[p],
           m # None => Pending(<<m.key.sub, m.key.client>>)
    PROVE  Backed(m)'
BY DEF Backed

LEMMA ConsentWithdrawn ==
    ASSUME ConsentInv, TypeInv', UNCHANGED <<flow, messages>>, Remembered',
           \A p \in Pairs : Pending(p) => agreed'[p] = agreed[p]
    PROVE  ConsentInv'
<1>0. TypeInv
  BY DEF ConsentInv
<1>1. ASSUME NEW m \in messages
      PROVE  Backed(m)'
  <2>1. Pending(<<m.key.sub, m.key.client>>)
    BY DEF Pending
  <2> QED
    BY <2>1, BackedPending DEF ConsentInv
<1>2. ASSUME NEW t \in Tabs
      PROVE  FlowAgreed(flow[t])'
  <2>1. PICK f : f = flow[t] /\ f = flow'[t]
    OBVIOUS
  <2>2. f \in Flow /\ Sound(f) /\ FlowAgreed(f)
    BY <1>0, <2>1, LocalsFields DEF ConsentInv
  <2>3. f.at \in {"update", "issue"} =>
           Pair(f) \in Pairs /\ Pair(f) = <<f.user.sub, f.ask.client>>
    BY <1>0, <2>1, <2>2, PairFields DEF Sound
  <2>4. f.at \in {"update", "issue"} => Pending(Pair(f))
    BY <2>1 DEF Pending
  <2>5. f.answer # None => Pending(<<f.answer.key.sub, f.answer.key.client>>)
    <3>1. CASE f.at \in {"process", "expired"}
      BY <2>1, <3>1 DEF Pending
    <3>2. CASE f.at \in {"update", "issue"} /\ f.answer # None
      <4>1. f.user # None
        BY <2>2, <3>2 DEF Sound
      <4>2. <<f.answer.key.sub, f.answer.key.client>> = Pair(f)
        BY <2>2, <3>2, <4>1 DEF Sound, KeyOf, SubjectOf, Pair
      <4> QED
        BY <2>4, <3>2, <4>2
    <3> QED
      BY <2>2, <3>1, <3>2 DEF Sound
  <2>6. f.reply # None /\ f.reply.write # None =>
           Pending(<<f.reply.write.key.sub, f.reply.write.key.client>>)
    BY <2>1, <2>2 DEF Pending, Sound
  <2>7. Backed(f.answer)'
    BY <2>2, <2>5, BackedPending DEF FlowAgreed
  <2>8. f.reply # None => Backed(f.reply.write)'
    BY <2>2, <2>6, BackedPending DEF FlowAgreed
  <2>9. f.at = "update" \/ (f.at = "issue" /\ f.ask.client \in RequireConsent) =>
           f.grant \subseteq agreed'[Pair(f)]
    BY <2>2, <2>3, <2>4 DEF FlowAgreed
  <2> QED
    BY <2>1, <2>7, <2>8, <2>9 DEF FlowAgreed, Backed, Pair
<1> QED
  BY <1>1, <1>2 DEF ConsentInv

LEMMA ConsentOthers ==
    ASSUME ConsentInv, TypeInv', OtherStep
    PROVE  ConsentInv'
<1>0. TypeInv
  BY DEF ConsentInv
<1>1. CASE Tick
  <2> DEFINE P == {p \in Subjects \X Clients : consents[p] # None /\ consents[p].until = now}
  <2>1. /\ now' = now + 1 /\ agreed' = Withdrawn(P)
        /\ UNCHANGED <<flow, messages, consents>>
    BY <1>1, Zenon DEF Tick
  <2>2. \A p \in Pairs : agreed'[p] = agreed[p] \/ (p \in P /\ ~Pending(p))
    BY <1>0, <2>1, WithdrawnFields
  <2>3. Remembered'
    <3> SUFFICES ASSUME NEW p \in Pairs, (consents[p] # None /\ ~Expired(consents[p]))'
                 PROVE  (consents[p].scopes \subseteq agreed[p])'
      BY DEF Remembered
    <3>1. PICK c : c = consents[p] /\ c = consents'[p]
      BY <2>1
    <3>2. c \in Consent /\ c # None /\ now \in Nat
      <4>1. c \in Consent \cup {None} /\ now \in 0..MaxTime
        BY <1>0, <3>1, TypeRest
      <4> QED
        BY <3>1, <4>1, AuthorizeAssumption
    <3>3. c.until \in Nat \cup {None}
      BY <3>2 DEF Consent, Lifetimes
    <3>4. c.until # None => now + 1 <= c.until
      BY <2>1, <3>1, <3>2, <3>3 DEF Expired
    <3>5. c.until # now
      BY <3>2, <3>3, <3>4, NoneAssumption
    <3>6. agreed'[p] = agreed[p]
      BY <2>2, <3>1, <3>5
    <3>7. ~Expired(c)
      BY <3>2, <3>3, <3>4 DEF Expired
    <3> QED
      BY <3>1, <3>2, <3>6, <3>7 DEF ConsentInv, Remembered
  <2> QED
    BY <2>1, <2>2, <2>3, ConsentWithdrawn
<1>2. ASSUME NEW c \in Clients, Revoke(c)
      PROVE  ConsentInv'
  <2> DEFINE q == <<session.sub, c>>
  <2>1. /\ consents' = [consents EXCEPT ![q] = None] /\ agreed' = Withdrawn({q})
        /\ UNCHANGED <<now, flow, messages>>
    BY <1>2, Zenon DEF Revoke
  <2>2. \A p \in Pairs : agreed'[p] = agreed[p] \/ (p \in {q} /\ ~Pending(p))
    BY <1>0, <2>1, WithdrawnFields
  <2>3. Remembered'
    <3> SUFFICES ASSUME NEW p \in Pairs, (consents[p] # None /\ ~Expired(consents[p]))'
                 PROVE  (consents[p].scopes \subseteq agreed[p])'
      BY DEF Remembered
    <3>1. p # q /\ consents'[p] = consents[p]
      <4> HIDE DEF q
      <4> QED
        BY <1>0, <2>1, TypeRest
    <3>2. agreed'[p] = agreed[p]
      BY <2>2, <3>1
    <3> QED
      BY <2>1, <3>1, <3>2 DEF ConsentInv, Remembered, Expired
  <2> QED
    BY <2>1, <2>2, <2>3, ConsentWithdrawn
<1>3. ASSUME NEW s \in Subjects, DeleteUser(s)
      PROVE  ConsentInv'
  <2>1. UNCHANGED <<now, consents, flow, messages, agreed>>
    BY <1>3, Zenon DEF DeleteUser, history
  <2> QED
    BY <2>1, AgreedSame, ConsentWithdrawn
<1> QED
  BY <1>1, <1>2, <1>3 DEF OtherStep

LEMMA ConsentStep ==
    ASSUME ConsentInv, [Next]_vars
    PROVE  ConsentInv'
<1>0. TypeInv
  BY DEF ConsentInv
<1>1. TypeInv'
  BY <1>0, TypeStep
<1>2. CASE OtherStep
  BY <1>1, <1>2, ConsentOthers
<1>3. ASSUME NEW t \in Tabs, TabStep(t)
      PROVE  ConsentInv'
  BY <1>1, <1>3, ConsentPlain, ConsentProcessed, ConsentExpired, ConsentUpdated, ConsentPosted,
     ConsentArrives, Zenon DEF TabStep, Login, AnswerConsent, Endpoint
<1>4. CASE UNCHANGED vars
  <2>1. UNCHANGED <<now, consents, flow, messages, agreed>>
    BY <1>4, Zenon DEF vars, history
  <2> QED
    BY <1>1, <2>1, AgreedSame, ConsentWithdrawn
<1> QED
  BY <1>2, <1>3, <1>4, Steps

\* A code is issued by CreateResponse.
LEMMA IssuesIs ==
    ASSUME TypeInv, [Next]_vars, NEW t \in Tabs, Issues(t)
    PROVE  flow[t].at = "issue" /\ flow[t].user # None /\ flow[t].ask # None
BY LocalsFields DEF Issues, Sound

LEMMA ConsentAlways == Spec => []ConsentInv
BY ConsentInit, ConsentStep, PTL DEF Spec

\* What a client that asks for consent is given with a code is covered by what
\* that user answered that client, now or remembered, and has not revoked or let
\* expire: for every interleaving of tabs, the clock and the grants page.
THEOREM ConsentIsRespected == Spec => ConsentRespected
<1>1. ConsentInv /\ [Next]_vars =>
         [\A t \in Tabs : Issues(t) /\ flow[t].ask.client \in RequireConsent =>
             flow[t].grant \subseteq agreed[Pair(flow[t])]]_vars
  <2> SUFFICES ASSUME ConsentInv, [Next]_vars, NEW t \in Tabs,
                      Issues(t), flow[t].ask.client \in RequireConsent
               PROVE  flow[t].grant \subseteq agreed[Pair(flow[t])]
    OBVIOUS
  <2> QED
    BY DEF Issues, ConsentInv, FlowAgreed
<1> QED
  BY <1>1, ConsentAlways, PTL DEF Spec, ConsentRespected

-----------------------------------------------------------------------------
\* prompt=consent: the answers a tab finds are those of its own page.

\* No two tabs have one nonce.
NoncesDiffer ==
    \A t, u \in Tabs : t # u /\ flow[t].ask # None /\ flow[u].ask # None =>
       flow[t].ask.nonce = None \/ flow[t].ask.nonce # flow[u].ask.nonce

\* A message with the nonce of a tab is of its client and scopes, and says yes
\* for users who said so there last, or is about to be written over.
Matched(t, m) ==
    flow[t].ask # None /\ flow[t].ask.nonce # None /\ m.key.nonce = flow[t].ask.nonce =>
       /\ m.key.client = flow[t].ask.client
       /\ m.key.scopes = flow[t].ask.scopes
       /\ m.scopes # {} =>
             \/ m.key.sub \in flow[t].yes
             \/ flow[t].reply # None /\ flow[t].reply.write # None
                /\ flow[t].reply.write.key = m.key

WriteMatches(f) ==
    f.reply # None /\ f.reply.write # None =>
       /\ f.ask # None
       /\ f.reply.write.key.client = f.ask.client
       /\ f.reply.write.key.scopes = f.ask.scopes
       /\ f.reply.write.key.nonce = f.ask.nonce
       /\ f.reply.write.scopes # {} => f.reply.write.key.sub \in f.yes

AnswerMatches(f) ==
    f.answer # None /\ f.ask.nonce # None /\ f.answer.scopes # {} => f.answer.key.sub \in f.yes

SaidYes(f) ==
    f.at \in {"update", "issue"} /\ "consent" \in f.ask.prompts /\ f.ask.nonce # None =>
       f.user.sub \in f.yes

PromptInv ==
    /\ TypeInv
    /\ NoncesDiffer
    /\ \A t \in Tabs : \A m \in messages : Matched(t, m)
    /\ \A t \in Tabs : WriteMatches(flow[t]) /\ AnswerMatches(flow[t]) /\ SaidYes(flow[t])

LEMMA PromptInit == Init => PromptInv
<1> SUFFICES ASSUME Init PROVE PromptInv
  OBVIOUS
<1>1. (\A t \in Tabs : flow[t] = Idle) /\ messages = {}
  BY DEF Init
<1>2. WriteMatches(Idle) /\ AnswerMatches(Idle) /\ SaidYes(Idle)
  BY IdleFields DEF WriteMatches, AnswerMatches, SaidYes
<1> QED
  BY <1>1, <1>2, TypeInit, IdleFields DEF PromptInv, NoncesDiffer

\* A tab moves: its nonce is as it was or a new one, and new messages are its own.
LEMMA PromptFrom ==
    ASSUME PromptInv, TypeInv', NEW t \in Tabs,
           \A u \in Tabs \ {t} : flow'[u] = flow[u],
           flow'[t].ask # None =>
              \/ flow[t].ask # None /\ flow'[t].ask.nonce = flow[t].ask.nonce
              \/ flow'[t].ask.nonce = None
              \/ flow'[t].ask.nonce \notin UsedNonces,
           \A m \in messages' :
              m \in messages \/ (flow[t].ask # None /\ m.key.nonce = flow[t].ask.nonce),
           \A m \in messages' : Matched(t, m)',
           WriteMatches(flow[t])', AnswerMatches(flow[t])', SaidYes(flow[t])'
    PROVE  PromptInv'
<1>0. TypeInv
  BY DEF PromptInv
<1>1. ASSUME NEW u \in Tabs, u # t, flow'[t].ask # None, flow'[u].ask # None
      PROVE  flow'[t].ask.nonce = None \/ flow'[t].ask.nonce # flow'[u].ask.nonce
  <2>1. flow'[u] = flow[u] /\ flow[u].ask.nonce \in UsedNonces
    BY <1>1 DEF UsedNonces
  <2> QED
    BY <1>1, <2>1 DEF PromptInv, NoncesDiffer
<1>2. NoncesDiffer'
  BY <1>1 DEF PromptInv, NoncesDiffer
<1>3. ASSUME NEW u \in Tabs, u # t, NEW m \in messages'
      PROVE  Matched(u, m)'
  <2>1. flow'[u] = flow[u]
    BY <1>3
  <2>2. CASE m \in messages
    BY <2>1, <2>2 DEF PromptInv, Matched
  <2>3. CASE flow[t].ask # None /\ m.key.nonce = flow[t].ask.nonce
    <3>1. ~(/\ flow[u].ask # None /\ flow[u].ask.nonce # None
            /\ m.key.nonce = flow[u].ask.nonce)
      BY <1>3, <2>3 DEF PromptInv, NoncesDiffer
    <3> QED
      BY <2>1, <3>1 DEF Matched
  <2> QED
    BY <2>2, <2>3
<1>4. ASSUME NEW u \in Tabs, u # t
      PROVE  (WriteMatches(flow[u]) /\ AnswerMatches(flow[u]) /\ SaidYes(flow[u]))'
  BY <1>4 DEF PromptInv, WriteMatches, AnswerMatches, SaidYes
<1> QED
  BY <1>2, <1>3, <1>4 DEF PromptInv

\* A tab that had no response under way keeps its request and its answers, and
\* writes none.
LEMMA PromptKept ==
    ASSUME PromptInv, TypeInv', NEW t \in Tabs,
           \A u \in Tabs \ {t} : flow'[u] = flow[u], messages' = messages,
           flow[t].reply = None,
           LET f == flow[t]
               g == flow'[t] IN
           /\ g.ask # None => f.ask # None /\ SameKey(g.ask, f.ask) /\ g.yes = f.yes
           /\ g.answer = None \/ (g.answer = f.answer /\ g.ask # None)
           /\ g.reply # None => g.reply.write = None,
           SaidYes(flow[t])'
    PROVE  PromptInv'
<1>1. ASSUME NEW m \in messages'
      PROVE  Matched(t, m)'
  <2>1. Matched(t, m)
    BY DEF PromptInv
  <2> QED
    BY <2>1 DEF Matched, SameKey
<1>2. WriteMatches(flow[t])'
  BY DEF WriteMatches
<1>3. AnswerMatches(flow[t])'
  BY DEF AnswerMatches, PromptInv, SameKey
<1>4. flow'[t].ask # None => flow[t].ask # None /\ flow'[t].ask.nonce = flow[t].ask.nonce
  BY DEF SameKey
<1> QED
  BY <1>1, <1>2, <1>3, <1>4, PromptFrom

\* An answer that says yes, found for the request: its user said so.
LEMMA AnswerYes ==
    ASSUME PromptInv, NEW t \in Tabs, flow[t].at \in {"process", "expired"},
           flow[t].user # None, flow[t].answer # None, flow[t].answer.scopes # {},
           flow[t].ask.nonce # None
    PROVE  flow[t].user.sub \in flow[t].yes
<1>1. Sound(flow[t]) /\ AnswerMatches(flow[t])
  BY LocalsFields DEF PromptInv
<1>2. flow[t].answer.key.sub = flow[t].user.sub
  BY <1>1 DEF Sound, KeyOf, SubjectOf
<1> QED
  BY <1>1, <1>2 DEF AnswerMatches

LEMMA PromptAgrees ==
    ASSUME PromptInv, TypeInv', NEW t \in Tabs,
           \A u \in Tabs \ {t} : flow'[u] = flow[u], messages' = messages,
           flow[t].at \in {"process", "expired", "update"}, GoesOn(flow[t], flow'[t]),
           SaidYes(flow[t])'
    PROVE  PromptInv'
<1>0. TypeInv
  BY DEF PromptInv
<1>1. Sound(flow[t])
  BY <1>0, LocalsFields
<1>2. flow[t].reply = None /\ flow[t].ask # None
  BY <1>1 DEF Sound
<1>3. /\ flow'[t].ask # None /\ SameKey(flow'[t].ask, flow[t].ask) /\ flow'[t].yes = flow[t].yes
      /\ flow'[t].answer = None \/ flow'[t].answer = flow[t].answer
      /\ flow'[t].reply # None => flow'[t].reply.write = None
  BY NoneAssumption DEF GoesOn, Sound
<1> QED
  BY <1>2, <1>3, PromptKept

LEMMA PromptEndpoint ==
    ASSUME PromptInv, TypeInv', NEW t \in Tabs, Endpoint(t)
    PROVE  PromptInv'
<1> DEFINE f == flow[t]
           g == flow'[t]
<1>0. TypeInv
  BY DEF PromptInv
<1>1. \E h : Moved(t, h)
  BY Zenon DEF Endpoint, DenyAnonymous, ProcessLogin, ProcessConsent, RemoveExpired, UpdateConsent,
               CreateResponse, Logout
<1>2. \A u \in Tabs \ {t} : flow'[u] = flow[u]
  BY <1>0, <1>1, MovedTo
<1>3. messages' = messages
  BY DEF Endpoint, DenyAnonymous, ProcessLogin, ProcessConsent, RemoveExpired, UpdateConsent,
         CreateResponse, Logout
<1>4. Sound(f)
  BY <1>0, LocalsFields
<1>5. CASE DenyAnonymous(t) \/ ProcessLogin(t)
  <2>1. GoesOn(f, g) /\ g.at = "reply" /\ f.at = "process"
    BY <1>0, <1>5, RedirectDoes
  <2>2. SaidYes(flow[t])'
    BY <2>1 DEF SaidYes
  <2> QED
    BY <1>2, <1>3, <2>1, <2>2, PromptAgrees
<1>6. CASE ProcessConsent(t)
  <2>1. /\ GoesOn(f, g) /\ f.at = "process" /\ f.user # None
        /\ g.at = "expired" \/ Agrees(f, g, RequiresConsent(f))
    BY <1>0, <1>6, ConsentDoes
  <2>2. SaidYes(flow[t])'
    <3> SUFFICES ASSUME g.at \in {"update", "issue"}, "consent" \in g.ask.prompts,
                        g.ask.nonce # None
                 PROVE  g.user.sub \in g.yes
      BY DEF SaidYes
    <3>1. g.ask = f.ask /\ f.answer # None /\ f.answer.scopes # {}
      BY <2>1 DEF Agrees, Redirects
    <3> QED
      BY <2>1, <3>1, AnswerYes DEF GoesOn
  <2> QED
    BY <1>2, <1>3, <2>1, <2>2, PromptAgrees
<1>7. CASE RemoveExpired(t)
  <2>1. GoesOn(f, g) /\ f.at = "expired" /\ f.user # None /\ Agrees(f, g, TRUE)
    BY <1>0, <1>7, RemoveExpiredDoes
  <2>2. SaidYes(flow[t])'
    <3> SUFFICES ASSUME g.at \in {"update", "issue"}, "consent" \in g.ask.prompts,
                        g.ask.nonce # None
                 PROVE  g.user.sub \in g.yes
      BY DEF SaidYes
    <3>1. g.ask = f.ask /\ f.answer # None /\ f.answer.scopes # {}
      BY <2>1 DEF Agrees, Redirects
    <3> QED
      BY <2>1, <3>1, AnswerYes DEF GoesOn
  <2> QED
    BY <1>2, <1>3, <2>1, <2>2, PromptAgrees
<1>8. CASE UpdateConsent(t)
  <2>1. GoesOn(f, g) /\ f.at = "update" /\ g.at = "issue" /\ g.ask = f.ask
    BY <1>0, <1>8, UpdateDoes
  <2>2. SaidYes(flow[t])'
    BY <2>1 DEF PromptInv, SaidYes, GoesOn
  <2> QED
    BY <1>2, <1>3, <2>1, <2>2, PromptAgrees
<1>9. CASE CreateResponse(t)
  <2>1. /\ f.at = "issue" /\ g.at = "reply" /\ g.answer = None /\ g.ask = f.ask /\ g.yes = f.yes
        /\ g.reply.write = None
    BY <1>0, <1>9, CreateDoes
  <2> QED
    BY <1>2, <1>3, <1>4, <2>1, PromptKept DEF SaidYes, Sound, SameKey
<1>10. CASE Logout(t)
  <2>1. /\ f.at = "logout" /\ g.at = "reply" /\ g.answer = None /\ g.ask = f.ask /\ g.yes = f.yes
        /\ g.reply.write = None
    BY <1>0, <1>10, LogoutDoes
  <2> QED
    BY <1>2, <1>3, <1>4, <2>1, PromptKept DEF SaidYes, Sound, SameKey
<1> QED
  BY <1>5, <1>6, <1>7, <1>8, <1>9, <1>10, Zenon DEF Endpoint

LEMMA PromptSend ==
    ASSUME PromptInv, TypeInv', NEW t \in Tabs,
           SendLogout(t) \/ \E a \in Asks : SendAuthorize(t, a)
    PROVE  PromptInv'
<1> DEFINE g == flow'[t]
<1>0. TypeInv
  BY DEF PromptInv
<1>1. \E h : Moved(t, h)
  BY Zenon DEF SendLogout, SendAuthorize
<1>2. \A u \in Tabs \ {t} : flow'[u] = flow[u]
  BY <1>0, <1>1, MovedTo
<1>3. /\ g.at \in {"process", "logout"} /\ g.answer = None /\ g.reply = None
      /\ g.ask # None => g.ask.nonce = None \/ g.ask.nonce \in Nonces \ UsedNonces
      /\ messages' = messages
  BY <1>0, SendDoes
<1>4. ASSUME NEW m \in messages'
      PROVE  Matched(t, m)'
  <2>1. m.key.nonce \in UsedNonces
    BY <1>3 DEF UsedNonces
  <2> QED
    BY <1>3, <2>1 DEF Matched
<1>5. (WriteMatches(flow[t]) /\ AnswerMatches(flow[t]) /\ SaidYes(flow[t]))'
  BY <1>3 DEF WriteMatches, AnswerMatches, SaidYes
<1> QED
  BY <1>2, <1>3, <1>4, <1>5, PromptFrom

\* Steps on the login page and the end of a page.
LEMMA PromptPage ==
    ASSUME PromptInv, TypeInv', NEW t \in Tabs,
           Leave(t) \/ \E sub \in Subjects : PostLogin(t, sub)
    PROVE  PromptInv'
<1> DEFINE g == flow'[t]
<1>0. TypeInv
  BY DEF PromptInv
<1>1. \E h : Moved(t, h)
  BY Zenon DEF Leave, PostLogin
<1>2. (\A u \in Tabs \ {t} : flow'[u] = flow[u]) /\ messages' = messages
  BY <1>0, <1>1, MovedTo DEF Leave, PostLogin
<1>3. Sound(flow[t])
  BY <1>0, LocalsFields
<1>4. CASE Leave(t)
  BY <1>0, <1>2, <1>3, <1>4, LeaveDoes, IdleFields, PromptKept DEF Sound, SaidYes
<1>5. ASSUME NEW sub \in Subjects, PostLogin(t, sub)
      PROVE  PromptInv'
  <2>1. /\ flow[t].at = "login" /\ g.at = "reply" /\ g.answer = None /\ g.ask = flow[t].ask
        /\ g.ask \in Ask /\ g.yes = flow[t].yes /\ g.reply.write = None
    BY <1>0, <1>5, LoginDoes
  <2> QED
    BY <1>2, <1>3, <2>1, PromptKept, NoneAssumption DEF Sound, SaidYes, SameKey
<1> QED
  BY <1>4, <1>5

LEMMA PromptGrant ==
    ASSUME PromptInv, TypeInv', NEW t \in Tabs, NEW scopes \in SUBSET Scopes,
           NEW remember \in BOOLEAN,
           flow[t].at \in {"login", "consent"}, scopes # {} => session # None,
           GrantConsent(t, scopes, remember), messages' = messages
    PROVE  PromptInv'
<1> DEFINE f == flow[t]
           g == flow'[t]
           w == g.reply.write
<1>0. TypeInv
  BY DEF PromptInv
<1>1. \A u \in Tabs \ {t} : flow'[u] = flow[u]
  BY <1>0, MovedTo, Zenon DEF GrantConsent
<1>2. /\ f.ask \in Ask /\ g.at = "reply" /\ g.answer = None /\ g.ask = f.ask
      /\ g.yes = IF scopes = {} THEN f.yes \ {SubjectOf(session)}
                 ELSE f.yes \cup {SubjectOf(session)}
      /\ w \in Message /\ w # None /\ w.key = KeyOf(f.ask, session) /\ w.scopes = scopes
      /\ Sound(g)
  <2>1. Answered(t, scopes)
    BY <1>0, GrantDoes
  <2> QED
    BY <2>1 DEF Answered
<1>3. f.reply = None /\ f.ask # None /\ g.reply # None
  BY <1>0, <1>2, LocalsFields, NoneAssumption DEF Sound
<1>4. /\ w.key.client = f.ask.client /\ w.key.scopes = f.ask.scopes
      /\ w.key.nonce = f.ask.nonce /\ w.key.sub = SubjectOf(session) /\ w.key \in Key
  BY <1>2 DEF KeyOf, Message
<1>5. ASSUME NEW m \in messages'
      PROVE  Matched(t, m)'
  <2> SUFFICES ASSUME f.ask.nonce # None, m.key.nonce = f.ask.nonce
               PROVE  /\ m.key.client = f.ask.client /\ m.key.scopes = f.ask.scopes
                      /\ m.scopes # {} => m.key.sub \in g.yes \/ w.key = m.key
    BY <1>2, <1>3 DEF Matched
  <2>1. /\ m.key.client = f.ask.client /\ m.key.scopes = f.ask.scopes
        /\ m.scopes # {} => m.key.sub \in f.yes
    BY <1>3 DEF PromptInv, Matched
  <2>2. CASE m.key.sub # SubjectOf(session)
    BY <1>2, <2>1, <2>2
  <2>3. CASE m.key.sub = SubjectOf(session)
    <3>1. m.key \in Key
      BY <1>0, TypeRest DEF Message
    <3>2. m.key = w.key
      BY <1>4, <2>1, <2>3, <3>1 DEF Key
    <3> QED
      BY <2>1, <3>2
  <2> QED
    BY <2>2, <2>3
<1>6. WriteMatches(flow[t])'
  <2>1. w.scopes # {} => w.key.sub \in g.yes
    BY <1>2, <1>4
  <2> QED
    BY <1>2, <1>3, <1>4, <2>1 DEF WriteMatches
<1>7. AnswerMatches(flow[t])' /\ SaidYes(flow[t])'
  BY <1>2 DEF AnswerMatches, SaidYes
<1> QED
  BY <1>1, <1>2, <1>3, <1>5, <1>6, <1>7, PromptFrom

LEMMA PromptArrive ==
    ASSUME PromptInv, TypeInv', NEW t \in Tabs, Arrive(t)
    PROVE  PromptInv'
<1> DEFINE f == flow[t]
           g == flow'[t]
           w == f.reply.write
<1>0. TypeInv
  BY DEF PromptInv
<1>1. \A u \in Tabs \ {t} : flow'[u] = flow[u]
  BY <1>0, ArriveRest, MovedTo
<1>2. /\ f.at = "reply" /\ f.reply # None
      /\ messages' \subseteq messages \cup ({w} \ {None})
      /\ \A m \in messages' : w # None /\ m.key = w.key => m = w
      /\ g.reply = None
      /\ \/ g = Idle
         \/ /\ g.at \in {"process", "login", "consent"}
            /\ g.ask = f.ask /\ g.ask \in Ask /\ g.yes = f.yes
            /\ g.answer = None \/ (g.answer \in messages' /\ g.answer.key = KeyOf(f.ask, session'))
  BY <1>0, ArriveDoes
<1>3. WriteMatches(f)
  BY DEF PromptInv
<1>4. \A m \in messages' : m \in messages \/ (f.ask # None /\ m.key.nonce = f.ask.nonce)
  BY <1>2, <1>3 DEF WriteMatches
<1>5. ASSUME NEW m \in messages'
      PROVE  Matched(t, m)'
  <2> SUFFICES ASSUME g.ask # None, g.ask.nonce # None, m.key.nonce = g.ask.nonce
               PROVE  /\ m.key.client = g.ask.client /\ m.key.scopes = g.ask.scopes
                      /\ m.scopes # {} => m.key.sub \in g.yes
    BY DEF Matched
  <2>1. g.ask = f.ask /\ g.yes = f.yes /\ f.ask # None
    BY <1>2, IdleFields
  <2>2. CASE w # None /\ m = w
    BY <1>2, <1>3, <2>1, <2>2 DEF WriteMatches
  <2>3. CASE ~(w # None /\ m = w)
    <3>1. m \in messages /\ ~(w # None /\ w.key = m.key)
      BY <1>2, <2>3
    <3>2. Matched(t, m)
      BY <3>1 DEF PromptInv
    <3> QED
      BY <2>1, <3>1, <3>2 DEF Matched
  <2> QED
    BY <2>2, <2>3
<1>6. WriteMatches(flow[t])'
  BY <1>2 DEF WriteMatches
<1>7. AnswerMatches(flow[t])'
  <2> SUFFICES ASSUME g.answer # None, g.ask.nonce # None, g.answer.scopes # {}
               PROVE  g.answer.key.sub \in g.yes
    BY DEF AnswerMatches
  <2>1. /\ g.ask \in Ask /\ g.answer \in messages' /\ g.answer.key = KeyOf(g.ask, session')
        /\ g.ask # None
    BY <1>2, IdleFields, NoneAssumption
  <2>2. Matched(t, flow[t].answer)'
    <3>1. PICK m \in messages' : m = g.answer
      BY <2>1
    <3>2. Matched(t, m)'
      BY <1>5
    <3> QED
      BY <3>1, <3>2 DEF Matched
  <2>3. g.answer.key.nonce = g.ask.nonce
    BY <2>1 DEF KeyOf
  <2> QED
    BY <1>2, <2>1, <2>2, <2>3 DEF Matched
<1>8. SaidYes(flow[t])'
  BY <1>2, IdleFields DEF SaidYes
<1>9. g.ask # None => f.ask # None /\ g.ask.nonce = f.ask.nonce
  BY <1>2, IdleFields
<1> QED
  BY <1>1, <1>4, <1>5, <1>6, <1>7, <1>8, <1>9, PromptFrom

LEMMA PromptStep ==
    ASSUME PromptInv, [Next]_vars
    PROVE  PromptInv'
<1>0. TypeInv
  BY DEF PromptInv
<1>1. TypeInv'
  BY <1>0, TypeStep
<1>2. ASSUME UNCHANGED <<flow, messages>>
      PROVE  PromptInv'
  BY <1>1, <1>2 DEF PromptInv, NoncesDiffer, Matched, WriteMatches, AnswerMatches, SaidYes
<1>3. CASE OtherStep
  <2>1. UNCHANGED <<flow, messages>>
    BY <1>3, Zenon DEF OtherStep, Tick, Revoke, DeleteUser
  <2> QED
    BY <1>2, <2>1
<1>4. ASSUME NEW t \in Tabs, TabStep(t)
      PROVE  PromptInv'
  <2>1. CASE CancelLogin(t)
    <3>1. flow[t].at = "login" /\ GrantConsent(t, {}, FALSE) /\ messages' = messages
      BY <1>0, <2>1, CancelDoes
    <3> QED
      BY <1>1, <3>1, PromptGrant
  <2>2. ASSUME NEW scopes \in SUBSET Scopes, NEW remember \in BOOLEAN,
               PostConsent(t, scopes, remember)
        PROVE  PromptInv'
    <3>1. /\ flow[t].at = "consent" /\ GrantConsent(t, scopes, remember) /\ session # None
          /\ messages' = messages
      BY <2>2, Zenon DEF PostConsent
    <3> QED
      BY <1>1, <3>1, PromptGrant
  <2> QED
    BY <1>1, <1>4, <2>1, <2>2, PromptSend, PromptEndpoint, PromptArrive, PromptPage, Zenon
       DEF TabStep, Login, AnswerConsent
<1>5. CASE UNCHANGED vars
  <2>1. UNCHANGED <<flow, messages>>
    BY <1>5, Zenon DEF vars
  <2> QED
    BY <1>2, <2>1
<1> QED
  BY <1>3, <1>4, <1>5, Steps

LEMMA PromptAlways == Spec => []PromptInv
BY PromptInit, PromptStep, PTL DEF Spec

\* With prompt=consent and a nonce, a code is issued only to a user who said yes
\* on the consent page of this very tab, and not no since: other tabs, other
\* users of the browser and messages written over or cleared never stand in.
THEOREM PromptsAreHonoured == Spec => PromptIsHonoured
<1>1. PromptInv /\ [Next]_vars =>
         [\A t \in Tabs :
             Issues(t) /\ "consent" \in flow[t].ask.prompts /\ flow[t].ask.nonce # None =>
                flow[t].user.sub \in flow[t].yes]_vars
  BY DEF Issues, PromptInv, SaidYes
<1> QED
  BY <1>1, PromptAlways, PTL DEF Spec, PromptIsHonoured

-----------------------------------------------------------------------------
\* Signing out: who has which copy of a session.
SignedInto(sid) == {c \in Clients : <<sid, c>> \in signedIn}

Brings(f) == f.reply # None /\ f.reply.cookie \notin {None, Keep}

Uses(f, sid) == f.user # None /\ f.user.sid = sid

\* Copies of the session list clients that were given a code in it.
Listed ==
    /\ session # None => session.clients \subseteq SignedInto(session.sid)
    /\ \A t \in Tabs : flow[t].user # None =>
          flow[t].user.clients \subseteq SignedInto(flow[t].user.sid)
    /\ \A t \in Tabs : Brings(flow[t]) =>
          flow[t].reply.cookie.clients \subseteq SignedInto(flow[t].reply.cookie.sid)

Live == \A x \in signedIn : x[1] \in SidsOf(session, flow)

LogoutSound(f) ==
    /\ f.at = "logout" => SignOuts
    /\ f.reply # None /\ f.reply.cookie = None =>
          SignOuts /\ f.user # None /\ f.notified = f.user.clients /\ f.reply.next = "idle"

\* A new session cookie nobody else has, or the one of the request.
CookieKnown(t) ==
    Brings(flow[t]) =>
       LET f == flow[t]
           sid == f.reply.cookie.sid IN
       \/ f.user # None /\ f.user.sid = sid /\ f.reply.next = "idle"
       \/ /\ f.reply.cookie.clients = {} /\ SignedInto(sid) = {}
          /\ session # None => session.sid # sid
          /\ \A u \in Tabs : ~Uses(flow[u], sid)
          /\ \A u \in Tabs \ {t} : Brings(flow[u]) => flow[u].reply.cookie.sid # sid

\* The copy that will be the browser's lists every client of the session.
Exact(sid) ==
    /\ \A t, u \in Tabs : Uses(flow[t], sid) /\ Uses(flow[u], sid) => t = u
    /\ \A t \in Tabs : Uses(flow[t], sid) /\ ~Brings(flow[t]) =>
          flow[t].user.clients = SignedInto(sid)
    /\ \A t \in Tabs : Brings(flow[t]) /\ flow[t].reply.cookie.sid = sid =>
          flow[t].reply.cookie.clients = SignedInto(sid)
    /\ session # None /\ session.sid = sid
          /\ (\A t \in Tabs : Brings(flow[t]) => flow[t].reply.cookie.sid # sid)
       => session.clients = SignedInto(sid)

SignOutInv ==
    /\ TypeInv
    /\ Listed
    /\ Live
    /\ \A t \in Tabs : LogoutSound(flow[t]) /\ CookieKnown(t)
    /\ SignOuts => \A sid \in Sids \ mixed : Exact(sid)

LEMMA SidsAre ==
    ASSUME NEW s \in Session \cup {None}, NEW fl \in [Tabs -> Flow], NEW sid
    PROVE  sid \in SidsOf(s, fl) <=>
              \/ s # None /\ s.sid = sid
              \/ \E u \in Tabs : Uses(fl[u], sid)
              \/ \E u \in Tabs : Brings(fl[u]) /\ fl[u].reply.cookie.sid = sid
<1> DEFINE S == ({s} \cup {fl[u].user : u \in Tabs}
                 \cup {fl[u].reply.cookie : u \in {v \in Tabs : fl[v].reply # None}})
                \ {None, Keep}
<1>1. sid \in SidsOf(s, fl) <=> \E x \in S : sid = x.sid
  BY DEF SidsOf
<1>2. s # Keep /\ \A u \in Tabs : fl[u].user # Keep
  BY NoneAssumption DEF Flow
<1>3. \A x : x \in S <=> \/ x = s /\ s # None
                         \/ \E u \in Tabs : x = fl[u].user /\ x # None
                         \/ \E u \in Tabs : Brings(fl[u]) /\ x = fl[u].reply.cookie
  BY <1>2 DEF Brings
<1> HIDE DEF S
<1> QED
  BY <1>1, <1>3 DEF Uses

LEMMA SidsNow ==
    ASSUME TypeInv, NEW sid
    PROVE  sid \in SidsOf(session, flow) <=>
              \/ session # None /\ session.sid = sid
              \/ \E u \in Tabs : Uses(flow[u], sid)
              \/ \E u \in Tabs : Brings(flow[u]) /\ flow[u].reply.cookie.sid = sid
BY TypeRest, SidsAre

LEMMA SidsNext ==
    ASSUME TypeInv', NEW sid
    PROVE  sid \in SidsOf(session', flow') <=>
              \/ session' # None /\ session'.sid = sid
              \/ \E u \in Tabs : Uses(flow'[u], sid)
              \/ \E u \in Tabs : Brings(flow'[u]) /\ flow'[u].reply.cookie.sid = sid
<1>1. PICK s \in Session \cup {None}, fl \in [Tabs -> Flow] : s = session' /\ fl = flow'
  BY DEF TypeInv, TypeOK
<1> QED
  BY <1>1, SidsAre

LEMMA SignOutInit == Init => SignOutInv
<1> SUFFICES ASSUME Init PROVE SignOutInv
  OBVIOUS
<1>1. (\A t \in Tabs : flow[t] = Idle) /\ session = None /\ signedIn = {}
  BY DEF Init
<1>2. LogoutSound(Idle) /\ ~Brings(Idle) /\ \A sid : ~Uses(Idle, sid)
  BY IdleFields DEF LogoutSound, Brings, Uses
<1>3. Listed /\ Live
  BY <1>1, <1>2, IdleFields DEF Listed, Live
<1>4. \A t \in Tabs : LogoutSound(flow[t]) /\ CookieKnown(t)
  BY <1>1, <1>2 DEF CookieKnown
<1>5. \A sid : Exact(sid)
  BY <1>1, <1>2 DEF Exact
<1> QED
  BY <1>3, <1>4, <1>5, TypeInit DEF SignOutInv

LEMMA SignOutFields ==
    ASSUME SignOutInv
    PROVE  /\ TypeInv /\ Listed /\ Live
           /\ \A u \in Tabs : LogoutSound(flow[u]) /\ CookieKnown(u) /\ Sound(flow[u])
           /\ SignOuts => \A sid \in Sids \ mixed : Exact(sid)
BY Zenon DEF SignOutInv, TypeInv

\* A tab brings a cookie while its response is under way, and has a session
\* while it is served.
LEMMA SoundUses ==
    ASSUME NEW f, Sound(f)
    PROVE  /\ f.user # None => f.at \in InFlight
           /\ f.at # "reply" => ~Brings(f)
BY DEF Sound, Brings

\* A request or an answer is sent with the session the browser has.
LEMMA SignOutJoin ==
    ASSUME SignOutInv, TypeInv', NEW t \in Tabs,
           \A u \in Tabs \ {t} : flow'[u] = flow[u], UNCHANGED <<session, signedIn>>,
           mixed' = Overlap(t, session),
           flow[t].user = None, ~Brings(flow[t]),
           flow'[t].user = session, LogoutSound(flow'[t]),
           Brings(flow'[t]) =>
              /\ flow'[t].reply.cookie.sid \notin SidsOf(session, flow)
              /\ flow'[t].reply.cookie.clients = {}
    PROVE  SignOutInv'
<1> DEFINE f == flow[t]
           g == flow'[t]
<1>0. /\ TypeInv /\ Listed /\ Live
      /\ \A u \in Tabs : LogoutSound(flow[u]) /\ CookieKnown(u) /\ Sound(flow[u])
  BY SignOutFields
<1>1. \A sid : ~Uses(f, sid)
  BY DEF Uses
<1>2. \A sid : Uses(g, sid) <=> session # None /\ session.sid = sid
  BY DEF Uses
<1>3. ASSUME Brings(g)
      PROVE  LET sid == g.reply.cookie.sid IN
             /\ SignedInto(sid) = {}
             /\ session # None => session.sid # sid
             /\ \A u \in Tabs : ~Uses(flow[u], sid)
             /\ \A u \in Tabs : Brings(flow[u]) => flow[u].reply.cookie.sid # sid
  <2> DEFINE sid == g.reply.cookie.sid
  <2>1. sid \notin SidsOf(session, flow)
    BY <1>3
  <2>2. SignedInto(sid) = {}
    BY <1>0, <2>1 DEF Live, SignedInto
  <2> HIDE DEF sid
  <2>3. /\ session # None => session.sid # sid
        /\ \A u \in Tabs : ~Uses(flow[u], sid)
        /\ \A u \in Tabs : Brings(flow[u]) => flow[u].reply.cookie.sid # sid
    <3>1. PICK n : n = sid
      OBVIOUS
    <3> QED
      BY <1>0, <2>1, <3>1, SidsNow
  <2> QED
    BY <2>2, <2>3 DEF sid
<1>4. \A sid : SignedInto(sid)' = SignedInto(sid)
  BY DEF SignedInto
<1>5. Listed'
  <2>1. ASSUME NEW u \in Tabs, flow'[u].user # None
        PROVE  flow'[u].user.clients \subseteq SignedInto(flow'[u].user.sid)
    BY <1>0, <2>1 DEF Listed
  <2>2. ASSUME NEW u \in Tabs, Brings(flow'[u])
        PROVE  flow'[u].reply.cookie.clients \subseteq SignedInto(flow'[u].reply.cookie.sid)
    BY <1>0, <2>2 DEF Listed
  <2>3. session # None => session.clients \subseteq SignedInto(session.sid)
    BY <1>0 DEF Listed
  <2> QED
    BY <2>1, <2>2, <2>3 DEF Listed, SignedInto
<1>6. Live'
  <2> SUFFICES ASSUME NEW x \in signedIn
               PROVE  x[1] \in SidsOf(session', flow')
    BY DEF Live
  <2>1. PICK n : n = x[1] /\ n \in SidsOf(session, flow)
    BY <1>0 DEF Live
  <2>2. \/ session # None /\ session.sid = n
        \/ \E u \in Tabs : Uses(flow[u], n)
        \/ \E u \in Tabs : Brings(flow[u]) /\ flow[u].reply.cookie.sid = n
    BY <1>0, <2>1, SidsNow
  <2>3. \/ session' # None /\ session'.sid = n
        \/ \E u \in Tabs : Uses(flow'[u], n)
        \/ \E u \in Tabs : Brings(flow'[u]) /\ flow'[u].reply.cookie.sid = n
    BY <1>1, <2>2
  <2> QED
    BY <2>1, <2>3, SidsNext
<1>7. ASSUME NEW u \in Tabs
      PROVE  (LogoutSound(flow[u]) /\ CookieKnown(u))'
  <2>1. LogoutSound(flow[u])'
    BY <1>0 DEF LogoutSound
  <2>2. CASE u = t
    <3>1. CookieKnown(t)'
      BY <1>2, <1>3, <1>4 DEF CookieKnown
    <3> QED
      BY <2>1, <2>2, <3>1
  <2>3. CASE u # t
    <3>1. CookieKnown(u) /\ flow'[u] = flow[u]
      BY <1>0, <2>3
    <3>2. \A v \in Tabs \ {u} : Brings(flow[u]) /\ Brings(flow'[v]) =>
             \/ v # t /\ Brings(flow[v]) /\ flow'[v].reply.cookie.sid = flow[v].reply.cookie.sid
             \/ flow'[v].reply.cookie.sid # flow[u].reply.cookie.sid
      BY <1>3
    <3>3. CookieKnown(u)'
      <4> SUFFICES ASSUME Brings(flow[u])
                   PROVE  CookieKnown(u)'
        BY <3>1 DEF CookieKnown
      <4> DEFINE sid == flow[u].reply.cookie.sid
      <4>1. CASE flow[u].user # None /\ flow[u].user.sid = sid /\ flow[u].reply.next = "idle"
        BY <3>1, <4>1 DEF CookieKnown
      <4>2. CASE /\ flow[u].reply.cookie.clients = {} /\ SignedInto(sid) = {}
                 /\ session # None => session.sid # sid
                 /\ \A v \in Tabs : ~Uses(flow[v], sid)
                 /\ \A v \in Tabs \ {u} : Brings(flow[v]) => flow[v].reply.cookie.sid # sid
        <5>1. \A v \in Tabs : ~Uses(flow'[v], sid)
          BY <1>2, <4>2
        <5>2. \A v \in Tabs \ {u} : Brings(flow'[v]) => flow'[v].reply.cookie.sid # sid
          BY <3>2, <4>2
        <5>3. SignedInto(sid)' = {}
          BY <3>1, <4>2 DEF SignedInto
        <5> QED
          BY <3>1, <4>2, <5>1, <5>2, <5>3 DEF CookieKnown, SignedInto
      <4> QED
        BY <3>1, <4>1, <4>2 DEF CookieKnown
    <3> QED
      BY <2>1, <3>3
  <2> QED
    BY <2>2, <2>3
<1>8. ASSUME SignOuts, NEW sid \in Sids \ mixed'
      PROVE  Exact(sid)'
  <2>1. sid \notin mixed
    BY <1>0, <1>8, OverlapFields, TypeRest
  <2>2. Exact(sid)
    BY <1>8, <2>1, SignOutFields
  <2>3. \A u \in Tabs \ {t} : ~(Uses(g, sid) /\ Uses(flow[u], sid))
    <3> SUFFICES ASSUME NEW u \in Tabs \ {t}, Uses(g, sid), Uses(flow[u], sid)
                 PROVE  sid \in mixed'
      BY <1>8
    <3>1. flow[u].at \in InFlight /\ flow[u].user # None /\ flow[u].user.sid = sid
      BY <1>0, SoundUses DEF Uses
    <3> QED
      BY <1>2, <1>8, <3>1 DEF Overlap
  <2>4. \A u, v \in Tabs : Uses(flow'[u], sid) /\ Uses(flow'[v], sid) => u = v
    BY <2>2, <2>3 DEF Exact
  <2>5. ASSUME NEW u \in Tabs, Uses(flow'[u], sid), ~Brings(flow'[u])
        PROVE  flow'[u].user.clients = SignedInto(sid)
    <3>1. CASE u # t
      BY <2>2, <2>5, <3>1 DEF Exact
    <3>2. CASE u = t
      <4>1. session # None /\ session.sid = sid
        BY <1>2, <2>5, <3>2
      <4>2. ASSUME NEW v \in Tabs, Brings(flow[v])
            PROVE  flow[v].reply.cookie.sid # sid
        BY <1>0, <2>3, <2>5, <3>2, <4>1, <4>2 DEF CookieKnown, Uses
      <4> QED
        BY <2>2, <3>2, <4>1, <4>2 DEF Exact
    <3> QED
      BY <3>1, <3>2
  <2>6. ASSUME NEW u \in Tabs, Brings(flow'[u]), flow'[u].reply.cookie.sid = sid
        PROVE  flow'[u].reply.cookie.clients = SignedInto(sid)
    BY <1>3, <2>2, <2>6 DEF Exact
  <2>7. ASSUME session # None, session.sid = sid,
               \A u \in Tabs : Brings(flow'[u]) => flow'[u].reply.cookie.sid # sid
        PROVE  session.clients = SignedInto(sid)
    BY <2>2, <2>7 DEF Exact
  <2> QED
    BY <1>4, <2>4, <2>5, <2>6, <2>7 DEF Exact
<1> QED
  BY <1>5, <1>6, <1>7, <1>8 DEF SignOutInv

\* A tab goes on with the session it has and brings no cookie.
LEMMA SignOutStay ==
    ASSUME SignOutInv, TypeInv', NEW t \in Tabs,
           \A u \in Tabs \ {t} : flow'[u] = flow[u], UNCHANGED <<session, signedIn, mixed>>,
           ~Brings(flow[t]), ~Brings(flow'[t]),
           flow'[t].user = flow[t].user, LogoutSound(flow'[t])
    PROVE  SignOutInv'
<1>0. /\ TypeInv /\ Listed /\ Live
      /\ \A u \in Tabs : LogoutSound(flow[u]) /\ CookieKnown(u) /\ Sound(flow[u])
  BY SignOutFields
<1>1. \A u \in Tabs : flow'[u].user = flow[u].user /\ \A sid : Uses(flow'[u], sid) <=> Uses(flow[u], sid)
  BY DEF Uses
<1>2. \A u \in Tabs : /\ Brings(flow'[u]) <=> Brings(flow[u])
                      /\ Brings(flow[u]) => flow'[u].reply = flow[u].reply
  OBVIOUS
<1>3. \A sid : SignedInto(sid)' = SignedInto(sid)
  BY DEF SignedInto
<1>4. Listed'
  BY <1>0, <1>1, <1>2 DEF Listed, SignedInto
<1>5. Live'
  <2> SUFFICES ASSUME NEW x \in signedIn
               PROVE  x[1] \in SidsOf(session', flow')
    BY DEF Live
  <2>1. PICK n : n = x[1] /\ n \in SidsOf(session, flow)
    BY <1>0 DEF Live
  <2>2. \/ session # None /\ session.sid = n
        \/ \E u \in Tabs : Uses(flow[u], n)
        \/ \E u \in Tabs : Brings(flow[u]) /\ flow[u].reply.cookie.sid = n
    BY <1>0, <2>1, SidsNow
  <2> QED
    BY <1>1, <1>2, <2>1, <2>2, SidsNext
<1>6. ASSUME NEW u \in Tabs
      PROVE  (LogoutSound(flow[u]) /\ CookieKnown(u))'
  <2>1. LogoutSound(flow[u])'
    BY <1>0 DEF LogoutSound
  <2>2. CookieKnown(u)'
    BY <1>0, <1>1, <1>2 DEF CookieKnown, SignedInto
  <2> QED
    BY <2>1, <2>2
<1>7. ASSUME SignOuts, NEW sid \in Sids \ mixed'
      PROVE  Exact(sid)'
  <2>1. Exact(sid)
    BY <1>7, SignOutFields
  <2> QED
    BY <1>1, <1>2, <1>3, <2>1 DEF Exact
<1> QED
  BY <1>4, <1>5, <1>6, <1>7 DEF SignOutInv

\* A code is issued and the client added to the copy of the session.
LEMMA SignOutCreate ==
    ASSUME SignOutInv, TypeInv', NEW t \in Tabs, CreateResponse(t)
    PROVE  SignOutInv'
<1> DEFINE f == flow[t]
           g == flow'[t]
<1>a. PICK n, c : n = f.user.sid /\ c = f.ask.client
  OBVIOUS
<1>0. /\ TypeInv /\ Listed /\ Live
      /\ \A u \in Tabs : LogoutSound(flow[u]) /\ CookieKnown(u) /\ Sound(flow[u])
  BY SignOutFields
<1>1. \A u \in Tabs \ {t} : flow'[u] = flow[u]
  BY <1>0, MovedTo DEF CreateResponse
<1>2. /\ f.at = "issue" /\ f.user \in Session /\ f.user # None /\ c \in Clients
      /\ g.at = "reply" /\ g.user = f.user /\ g.reply # None /\ g.reply.next = "idle"
      /\ g.reply.cookie = WithClient(f.user, c)
      /\ signedIn' = signedIn \cup {<<n, c>>}
      /\ UNCHANGED <<session, mixed>>
  BY <1>0, <1>a, CreateDoes, NoneAssumption DEF Ask, Sound
<1>3. \/ c \in f.user.clients /\ g.reply.cookie = Keep
      \/ /\ g.reply.cookie \in Session /\ g.reply.cookie # Keep /\ g.reply.cookie.sid = n
         /\ g.reply.cookie.clients = f.user.clients \cup {c}
  BY <1>2, <1>a, WithClientCookie
<1>4. /\ ~Brings(f)
      /\ Brings(g) => g.reply.cookie.sid = n /\ g.reply.cookie.clients = f.user.clients \cup {c}
      /\ ~Brings(g) => c \in f.user.clients
  BY <1>0, <1>2, <1>3, SoundUses, NoneAssumption DEF Brings
<1>5. \A u \in Tabs : flow'[u].user = flow[u].user /\ \A sid : Uses(flow'[u], sid) <=> Uses(flow[u], sid)
  BY <1>1, <1>2 DEF Uses
<1>6. Uses(f, n)
  BY <1>2, <1>a DEF Uses
<1>7. /\ SignedInto(n)' = SignedInto(n) \cup {c}
      /\ \A sid : sid # n => SignedInto(sid)' = SignedInto(sid)
      /\ \A sid : SignedInto(sid) \subseteq SignedInto(sid)'
  BY <1>2 DEF SignedInto
<1>8. Listed'
  <2>1. ASSUME NEW u \in Tabs, flow'[u].user # None
        PROVE  (flow[u].user.clients \subseteq SignedInto(flow[u].user.sid))'
    BY <1>0, <1>2, <1>5, <2>1 DEF Listed, SignedInto
  <2>2. f.user.clients \subseteq SignedInto(n)
    BY <1>0, <1>2, <1>a DEF Listed
  <2>3. ASSUME NEW u \in Tabs, Brings(flow'[u])
        PROVE  (flow[u].reply.cookie.clients \subseteq SignedInto(flow[u].reply.cookie.sid))'
    <3>1. CASE u = t
      BY <1>2, <1>4, <2>2, <2>3, <3>1 DEF SignedInto
    <3>2. CASE u # t
      BY <1>0, <1>1, <1>2, <2>3, <3>2 DEF Listed, SignedInto
    <3> QED
      BY <3>1, <3>2
  <2>4. (session # None => session.clients \subseteq SignedInto(session.sid))'
    BY <1>0, <1>2 DEF Listed, SignedInto
  <2> QED
    BY <2>1, <2>3, <2>4 DEF Listed
<1>9. Live'
  <2> SUFFICES ASSUME NEW x \in signedIn'
               PROVE  x[1] \in SidsOf(session', flow')
    BY DEF Live
  <2>1. PICK k : k = x[1]
    OBVIOUS
  <2>2. CASE x = <<n, c>>
    BY <1>5, <1>6, <2>1, <2>2, SidsNext
  <2>3. CASE x \in signedIn
    <3>1. k \in SidsOf(session, flow)
      BY <1>0, <2>1, <2>3 DEF Live
    <3>2. \/ session # None /\ session.sid = k
          \/ \E u \in Tabs : Uses(flow[u], k)
          \/ \E u \in Tabs : Brings(flow[u]) /\ flow[u].reply.cookie.sid = k
      BY <1>0, <3>1, SidsNow
    <3>3. \/ session' # None /\ session'.sid = k
          \/ \E u \in Tabs : Uses(flow'[u], k)
          \/ \E u \in Tabs : Brings(flow'[u]) /\ flow'[u].reply.cookie.sid = k
      BY <1>1, <1>2, <1>4, <1>5, <3>2
    <3> QED
      BY <2>1, <3>3, SidsNext
  <2> QED
    BY <1>2, <2>2, <2>3
<1>10. ASSUME NEW u \in Tabs
       PROVE  (LogoutSound(flow[u]) /\ CookieKnown(u))'
  <2>1. LogoutSound(flow[u])'
    <3>1. g.reply.cookie # None
      BY <1>2, <1>3, NoneAssumption
    <3> QED
      BY <1>0, <1>1, <1>2, <3>1 DEF LogoutSound
  <2>2. CASE u = t
    <3>1. CookieKnown(t)'
      BY <1>2, <1>4, <1>a DEF CookieKnown
    <3> QED
      BY <2>1, <2>2, <3>1
  <2>3. CASE u # t
    <3>1. CookieKnown(u) /\ flow'[u] = flow[u]
      BY <1>0, <1>1, <2>3
    <3>2. CookieKnown(u)'
      <4> SUFFICES ASSUME Brings(flow[u])
                   PROVE  CookieKnown(u)'
        BY <3>1 DEF CookieKnown
      <4> DEFINE sid == flow[u].reply.cookie.sid
      <4>1. CASE flow[u].user # None /\ flow[u].user.sid = sid /\ flow[u].reply.next = "idle"
        BY <3>1, <4>1 DEF CookieKnown
      <4>2. CASE /\ flow[u].reply.cookie.clients = {} /\ SignedInto(sid) = {}
                 /\ session # None => session.sid # sid
                 /\ \A v \in Tabs : ~Uses(flow[v], sid)
                 /\ \A v \in Tabs \ {u} : Brings(flow[v]) => flow[v].reply.cookie.sid # sid
        <5>0. sid # n
          BY <1>6, <4>2
        <5>1. \A v \in Tabs : ~Uses(flow'[v], sid)
          BY <1>5, <4>2
        <5>2. \A v \in Tabs \ {u} : Brings(flow'[v]) => flow'[v].reply.cookie.sid # sid
          BY <1>1, <1>4, <4>2, <5>0
        <5>3. SignedInto(sid)' = {}
          BY <1>2, <4>2, <5>0, <3>1 DEF SignedInto
        <5> QED
          BY <1>2, <3>1, <4>2, <5>1, <5>2, <5>3 DEF CookieKnown, SignedInto
      <4> QED
        BY <3>1, <4>1, <4>2 DEF CookieKnown
    <3> QED
      BY <2>1, <3>2
  <2> QED
    BY <2>2, <2>3
<1>11. ASSUME SignOuts, NEW sid \in Sids \ mixed'
       PROVE  Exact(sid)'
  <2>1. Exact(sid)
    BY <1>2, <1>11, SignOutFields
  <2>2. CASE sid # n
    <3>1. SignedInto(sid)' = SignedInto(sid)
      BY <1>7, <2>2
    <3>2. \A u \in Tabs : Uses(flow'[u], sid) /\ ~Brings(flow'[u]) => u # t
      BY <1>5, <1>6, <2>2 DEF Uses
    <3>3. \A u \in Tabs : Brings(flow'[u]) /\ flow'[u].reply.cookie.sid = sid => u # t
      BY <1>4, <2>2
    <3>4. ASSUME \A u \in Tabs : Brings(flow'[u]) => flow'[u].reply.cookie.sid # sid
          PROVE  \A u \in Tabs : Brings(flow[u]) => flow[u].reply.cookie.sid # sid
      BY <1>1, <1>4, <3>4
    <3> QED
      BY <1>1, <1>2, <1>5, <2>1, <3>1, <3>2, <3>3, <3>4 DEF Exact
  <2>3. CASE sid = n
    <3>1. f.user.clients = SignedInto(n)
      BY <1>4, <1>6, <2>1, <2>3 DEF Exact
    <3>2. \A u \in Tabs : Uses(flow'[u], n) => u = t
      BY <1>5, <1>6, <2>1, <2>3 DEF Exact
    <3>3. \A u \in Tabs \ {t} : ~(Brings(flow[u]) /\ flow[u].reply.cookie.sid = n)
      <4> SUFFICES ASSUME NEW u \in Tabs \ {t}, Brings(flow[u]), flow[u].reply.cookie.sid = n
                   PROVE  FALSE
        OBVIOUS
      <4>1. CookieKnown(u)
        BY <1>0
      <4>2. Uses(flow[u], n)
        BY <1>6, <4>1 DEF CookieKnown, Uses
      <4> QED
        BY <1>5, <3>2, <4>2
    <3>4. ASSUME NEW u \in Tabs, Uses(flow'[u], n), ~Brings(flow'[u])
          PROVE  flow'[u].user.clients = SignedInto(n)'
      BY <1>2, <1>4, <1>7, <3>1, <3>2, <3>4
    <3>5. ASSUME NEW u \in Tabs, Brings(flow'[u]), flow'[u].reply.cookie.sid = n
          PROVE  flow'[u].reply.cookie.clients = SignedInto(n)'
      BY <1>1, <1>4, <1>7, <3>1, <3>3, <3>5
    <3>6. ASSUME session # None, session.sid = n,
                 \A u \in Tabs : Brings(flow'[u]) => flow'[u].reply.cookie.sid # n
          PROVE  session.clients = SignedInto(n)'
      <4>1. ~Brings(g) /\ c \in SignedInto(n)
        BY <1>4, <3>1, <3>6
      <4>2. \A u \in Tabs : Brings(flow[u]) => flow[u].reply.cookie.sid # n
        BY <1>4, <3>3
      <4>3. session.clients = SignedInto(n)
        BY <2>1, <2>3, <3>6, <4>2 DEF Exact
      <4> QED
        BY <1>7, <4>1, <4>3
    <3> QED
      BY <1>2, <2>3, <3>2, <3>4, <3>5, <3>6 DEF Exact
  <2> QED
    BY <2>2, <2>3
<1> QED
  BY <1>8, <1>9, <1>10, <1>11 DEF SignOutInv

\* A response arrives with the session it brings, if any.
LEMMA SignOutArrive ==
    ASSUME SignOutInv, TypeInv', NEW t \in Tabs, Arrive(t)
    PROVE  SignOutInv'
<1> DEFINE f == flow[t]
           g == flow'[t]
           live == SidsOf(session', flow')
<1>0. /\ TypeInv /\ Listed /\ Live
      /\ \A u \in Tabs : LogoutSound(flow[u]) /\ CookieKnown(u) /\ Sound(flow[u])
  BY SignOutFields
<1>1. \A u \in Tabs \ {t} : flow'[u] = flow[u]
  BY <1>0, ArriveRest, MovedTo
<1>2. /\ signedIn' = {x \in signedIn : x[1] \in live}
      /\ mixed' = (IF f.reply.next = "callback" THEN Overlap(t, session') ELSE mixed) \cap live
  BY <1>0, ArriveRest
<1>3. /\ f.at = "reply" /\ f.reply # None
      /\ session' = IF f.reply.cookie = Keep THEN session ELSE f.reply.cookie
      /\ g.reply = None /\ g.at \in {"idle", "process", "login", "consent"}
      /\ g.user # None => f.reply.next = "callback" /\ g.user = session'
  BY <1>0, ArriveDoes, IdleFields
<1>4. session' # None =>
         \/ ~Brings(f) /\ session' = session
         \/ Brings(f) /\ session' = f.reply.cookie
  BY <1>3 DEF Brings
<1>5. ~Brings(g) /\ LogoutSound(g)
  BY <1>3 DEF Brings, LogoutSound
<1>6. \A sid : Uses(g, sid) =>
         f.reply.next = "callback" /\ session' # None /\ session'.sid = sid
  BY <1>3 DEF Uses
<1>7. \A sid : /\ sid \in live => SignedInto(sid)' = SignedInto(sid)
               /\ SignedInto(sid)' \subseteq SignedInto(sid)
  <2> HIDE DEF live
  <2> QED
    BY <1>2 DEF SignedInto
<1>8. \A sid : sid \in live <=>
         \/ session' # None /\ session'.sid = sid
         \/ \E u \in Tabs : Uses(flow'[u], sid)
         \/ \E u \in Tabs : Brings(flow'[u]) /\ flow'[u].reply.cookie.sid = sid
  <2> TAKE sid
  <2> QED
    BY SidsNext
<1>9. Live'
  BY <1>2 DEF Live
<1> HIDE DEF live
<1>10. session' # None => session'.clients \subseteq SignedInto(session'.sid)
  BY <1>0, <1>4 DEF Listed
<1>11. Listed'
  <2>1. ASSUME NEW k \in live, NEW C, C \subseteq SignedInto(k)
        PROVE  C \subseteq SignedInto(k)'
    BY <1>7, <2>1
  <2>2. ASSUME session' # None
        PROVE  (session.clients \subseteq SignedInto(session.sid))'
    <3>1. PICK k : k = session'.sid
      OBVIOUS
    <3>2. session'.clients \subseteq SignedInto(k)'
      BY <1>8, <1>10, <2>1, <2>2, <3>1
    <3> QED
      BY <3>1, <3>2 DEF SignedInto
  <2>3. ASSUME NEW u \in Tabs, flow'[u].user # None
        PROVE  (flow[u].user.clients \subseteq SignedInto(flow[u].user.sid))'
    <3>1. CASE u = t
      BY <1>3, <2>2, <2>3, <3>1 DEF SignedInto
    <3>2. CASE u # t
      <4>1. PICK k : k = flow[u].user.sid
        OBVIOUS
      <4>2. k \in live
        BY <1>1, <1>8, <2>3, <3>2, <4>1 DEF Uses
      <4>3. flow[u].user.clients \subseteq SignedInto(k)
        BY <1>0, <1>1, <2>3, <3>2, <4>1 DEF Listed
      <4>4. flow[u].user.clients \subseteq SignedInto(k)'
        BY <2>1, <4>2, <4>3
      <4> QED
        BY <1>1, <3>2, <4>1, <4>4 DEF SignedInto
    <3> QED
      BY <3>1, <3>2
  <2>4. ASSUME NEW u \in Tabs, Brings(flow'[u])
        PROVE  (flow[u].reply.cookie.clients \subseteq SignedInto(flow[u].reply.cookie.sid))'
    <3>1. u # t
      BY <1>5, <2>4
    <3>2. PICK k : k = flow[u].reply.cookie.sid
      OBVIOUS
    <3>3. k \in live
      BY <1>1, <1>8, <2>4, <3>1, <3>2
    <3>4. flow[u].reply.cookie.clients \subseteq SignedInto(k)
      BY <1>0, <1>1, <2>4, <3>1, <3>2 DEF Listed
    <3>5. flow[u].reply.cookie.clients \subseteq SignedInto(k)'
      BY <2>1, <3>3, <3>4
    <3> QED
      BY <1>1, <3>1, <3>2, <3>5 DEF SignedInto
  <2> QED
    BY <2>2, <2>3, <2>4 DEF Listed
<1>12. ASSUME NEW u \in Tabs
       PROVE  (LogoutSound(flow[u]) /\ CookieKnown(u))'
  <2>1. LogoutSound(flow[u])'
    BY <1>0, <1>1, <1>5 DEF LogoutSound
  <2>2. CASE u = t
    <3>1. CookieKnown(t)'
      BY <1>5 DEF CookieKnown
    <3> QED
      BY <2>1, <2>2, <3>1
  <2>3. CASE u # t
    <3>1. CookieKnown(u) /\ flow'[u] = flow[u]
      BY <1>0, <1>1, <2>3
    <3>2. CookieKnown(u)'
      <4> SUFFICES ASSUME Brings(flow[u])
                   PROVE  CookieKnown(u)'
        BY <3>1 DEF CookieKnown
      <4>a. PICK sid : sid = flow[u].reply.cookie.sid
        OBVIOUS
      <4>1. CASE flow[u].user # None /\ flow[u].user.sid = sid /\ flow[u].reply.next = "idle"
        BY <3>1, <4>1, <4>a DEF CookieKnown
      <4>2. CASE /\ flow[u].reply.cookie.clients = {} /\ SignedInto(sid) = {}
                 /\ session # None => session.sid # sid
                 /\ \A v \in Tabs : ~Uses(flow[v], sid)
                 /\ \A v \in Tabs \ {u} : Brings(flow[v]) => flow[v].reply.cookie.sid # sid
        <5>1. session' # None => session'.sid # sid
          BY <1>4, <2>3, <4>2
        <5>2. \A v \in Tabs : ~Uses(flow'[v], sid)
          BY <1>1, <1>6, <4>2, <5>1
        <5>3. \A v \in Tabs \ {u} : Brings(flow'[v]) => flow'[v].reply.cookie.sid # sid
          BY <1>1, <1>5, <4>2
        <5>4. SignedInto(sid)' = {}
          BY <1>7, <4>2
        <5> QED
          BY <3>1, <4>2, <4>a, <5>1, <5>2, <5>3, <5>4 DEF CookieKnown, SignedInto
      <4> QED
        BY <3>1, <4>1, <4>2, <4>a DEF CookieKnown
    <3> QED
      BY <2>1, <3>2
  <2> QED
    BY <2>2, <2>3
<1>13. ASSUME SignOuts, NEW sid \in Sids \ mixed'
       PROVE  Exact(sid)'
  <2>1. CASE sid \notin live
    BY <1>8, <2>1 DEF Exact
  <2>2. CASE sid \in live
    <3>1. sid \notin mixed /\ (f.reply.next = "callback" => sid \notin Overlap(t, session'))
      <4>1. mixed \subseteq Overlap(t, session')
        BY DEF Overlap
      <4> QED
        BY <1>2, <1>13, <2>2, <4>1
    <3>2. Exact(sid)
      BY <1>13, <3>1, SignOutFields
    <3>3. \A u \in Tabs \ {t} : ~(Uses(g, sid) /\ Uses(flow[u], sid))
      <4> SUFFICES ASSUME NEW u \in Tabs \ {t}, Uses(g, sid), Uses(flow[u], sid)
                   PROVE  FALSE
        OBVIOUS
      <4>1. flow[u].at \in InFlight /\ flow[u].user # None /\ flow[u].user.sid = sid
        BY <1>0, SoundUses DEF Uses
      <4>2. f.reply.next = "callback" /\ session' # None /\ session'.sid = sid
        BY <1>6
      <4> QED
        BY <1>13, <3>1, <4>1, <4>2 DEF Overlap
    <3>4. \A u, v \in Tabs : Uses(flow'[u], sid) /\ Uses(flow'[v], sid) => u = v
      BY <1>1, <3>2, <3>3 DEF Exact
    <3>5. ASSUME session' # None, session'.sid = sid,
                 \A u \in Tabs : Brings(flow'[u]) => flow'[u].reply.cookie.sid # sid
          PROVE  session'.clients = SignedInto(sid)
      <4>1. CASE ~Brings(f) /\ session' = session
        <5>1. \A u \in Tabs : Brings(flow[u]) => flow[u].reply.cookie.sid # sid
          BY <1>1, <3>5, <4>1
        <5> QED
          BY <3>2, <3>5, <4>1, <5>1 DEF Exact
      <4>2. CASE Brings(f) /\ session' = f.reply.cookie
        BY <3>2, <3>5, <4>2 DEF Exact
      <4> QED
        BY <1>4, <3>5, <4>1, <4>2
    <3>6. ASSUME NEW u \in Tabs, Uses(flow'[u], sid), ~Brings(flow'[u])
          PROVE  flow'[u].user.clients = SignedInto(sid)
      <4>1. CASE u # t
        BY <1>1, <3>2, <3>6, <4>1 DEF Exact
      <4>2. CASE u = t
        <5>1. session' # None /\ session'.sid = sid /\ g.user = session'
          BY <1>3, <1>6, <3>6, <4>2 DEF Uses
        <5>2. ASSUME NEW v \in Tabs, Brings(flow'[v])
              PROVE  flow'[v].reply.cookie.sid # sid
          <6>1. v # t /\ flow'[v] = flow[v] /\ CookieKnown(v) /\ ~Uses(flow[v], sid)
            BY <1>0, <1>1, <1>5, <3>3, <3>6, <4>2, <5>2
          <6> SUFFICES ASSUME flow[v].reply.cookie.sid = sid
                       PROVE  FALSE
            BY <6>1
          <6>2. /\ session # None => session.sid # sid
                /\ Brings(f) => f.reply.cookie.sid # sid
            BY <5>2, <6>1 DEF CookieKnown, Uses
          <6> QED
            BY <1>4, <5>1, <6>2
        <5> QED
          BY <3>5, <4>2, <5>1, <5>2
      <4> QED
        BY <4>1, <4>2
    <3>7. ASSUME NEW u \in Tabs, Brings(flow'[u]), flow'[u].reply.cookie.sid = sid
          PROVE  flow'[u].reply.cookie.clients = SignedInto(sid)
      BY <1>1, <1>5, <3>2, <3>7 DEF Exact
    <3>8. SignedInto(sid)' = SignedInto(sid)
      BY <1>7, <2>2
    <3> QED
      BY <3>4, <3>5, <3>6, <3>7, <3>8 DEF Exact
  <2> QED
    BY <2>1, <2>2
<1>14. \A u \in Tabs : (LogoutSound(flow[u]) /\ CookieKnown(u))'
  BY <1>12
<1> QED
  BY <1>9, <1>11, <1>13, <1>14 DEF SignOutInv

LEMMA SignOutStep ==
    ASSUME SignOutInv, [Next]_vars
    PROVE  SignOutInv'
<1>0. TypeInv
  BY DEF SignOutInv
<1>1. TypeInv'
  BY <1>0, TypeStep
<1>2. ASSUME UNCHANGED <<flow, session, signedIn, mixed>>
      PROVE  SignOutInv'
  BY <1>1, <1>2 DEF SignOutInv, Listed, Live, LogoutSound, CookieKnown, Exact, SignedInto, SidsOf
<1>3. CASE OtherStep
  <2>1. UNCHANGED <<flow, session, signedIn, mixed>>
    BY <1>3, Zenon DEF OtherStep, Tick, Revoke, DeleteUser, history
  <2> QED
    BY <1>2, <2>1
<1>4. ASSUME NEW t \in Tabs, TabStep(t)
      PROVE  SignOutInv'
  <2> DEFINE f == flow[t]
             g == flow'[t]
  <2>0. Sound(f)
    BY <1>0, LocalsFields
  <2>1. CASE SendLogout(t) \/ \E a \in Asks : SendAuthorize(t, a)
    <3>1. \A u \in Tabs \ {t} : flow'[u] = flow[u]
      <4>1. \E h : Moved(t, h)
        BY <2>1, Zenon DEF SendLogout, SendAuthorize
      <4> QED
        BY <1>0, <4>1, MovedTo
    <3>2. /\ f.at = "idle" /\ g.user = session /\ g.reply = None
          /\ g.at = "logout" => SignOuts
          /\ mixed' = Overlap(t, session) /\ UNCHANGED <<session, signedIn>>
      BY <1>0, <2>1, SendDoes
    <3>3. f.user = None /\ ~Brings(f) /\ ~Brings(g) /\ LogoutSound(g)
      BY <2>0, <3>2 DEF Sound, Brings, LogoutSound, InFlight
    <3> QED
      BY <1>1, <3>1, <3>2, <3>3, SignOutJoin
  <2>2. ASSUME NEW sub \in Subjects, PostLogin(t, sub)
        PROVE  SignOutInv'
    <3>1. \A u \in Tabs \ {t} : flow'[u] = flow[u]
      BY <1>0, <2>2, MovedTo DEF PostLogin
    <3>2. /\ f.at = "login" /\ g.at = "reply" /\ g.user = session
          /\ g.reply.cookie # None /\ g.reply.cookie.sid \notin SidsOf(session, flow)
          /\ g.reply.cookie.clients = {}
      BY <1>0, <2>2, LoginDoes
    <3>3. mixed' = Overlap(t, session) /\ UNCHANGED <<session, signedIn>>
      BY <2>2, Zenon DEF PostLogin
    <3>4. f.user = None /\ ~Brings(f) /\ LogoutSound(g)
      BY <2>0, <3>2 DEF Sound, Brings, LogoutSound, InFlight
    <3> QED
      BY <1>1, <3>1, <3>2, <3>3, <3>4, SignOutJoin
  <2>3. ASSUME NEW scopes \in SUBSET Scopes, NEW remember \in BOOLEAN,
               f.at \in {"login", "consent"}, scopes # {} => session # None,
               GrantConsent(t, scopes, remember), UNCHANGED <<session, signedIn>>
        PROVE  SignOutInv'
    <3>1. \A u \in Tabs \ {t} : flow'[u] = flow[u]
      BY <1>0, <2>3, MovedTo, Zenon DEF GrantConsent
    <3>2. g.at = "reply" /\ g.user = session /\ g.reply.cookie = Keep
      <4>1. Answered(t, scopes)
        BY <1>0, <2>3, GrantDoes
      <4> QED
        BY <4>1 DEF Answered
    <3>3. mixed' = Overlap(t, session)
      BY <2>3, Zenon DEF GrantConsent
    <3>4. f.user = None /\ ~Brings(f) /\ ~Brings(g) /\ LogoutSound(g)
      BY <2>0, <2>3, <3>2, NoneAssumption DEF Sound, Brings, LogoutSound, InFlight
    <3> QED
      BY <1>1, <2>3, <3>1, <3>2, <3>3, <3>4, SignOutJoin
  <2>4. CASE CancelLogin(t)
    <3>1. f.at = "login" /\ GrantConsent(t, {}, FALSE) /\ UNCHANGED <<session, signedIn>>
      BY <1>0, <2>4, CancelDoes
    <3> QED
      BY <2>3, <3>1
  <2>5. ASSUME NEW scopes \in SUBSET Scopes, NEW remember \in BOOLEAN,
               PostConsent(t, scopes, remember)
        PROVE  SignOutInv'
    <3>1. /\ f.at = "consent" /\ GrantConsent(t, scopes, remember) /\ session # None
          /\ UNCHANGED <<session, signedIn>>
      BY <2>5, Zenon DEF PostConsent
    <3> QED
      BY <2>3, <3>1
  <2>6. ASSUME \E h : Moved(t, h), UNCHANGED <<session, signedIn, mixed>>,
               f.at # "reply", g.user = f.user, ~Brings(g), LogoutSound(g)
        PROVE  SignOutInv'
    <3>1. (\A u \in Tabs \ {t} : flow'[u] = flow[u]) /\ ~Brings(f)
      BY <1>0, <2>0, <2>6, MovedTo, SoundUses
    <3> QED
      BY <1>1, <2>6, <3>1, SignOutStay
  <2>7. ASSUME GoesOn(f, g)
        PROVE  g.user = f.user /\ ~Brings(g) /\ LogoutSound(g)
    <3>1. /\ g.user = f.user /\ g.at # "logout"
          /\ g.reply # None => g.reply.cookie = Keep
      BY <2>7 DEF GoesOn, Sound
    <3> QED
      BY <3>1, NoneAssumption DEF Brings, LogoutSound
  <2>8. CASE DenyAnonymous(t) \/ ProcessLogin(t) \/ ProcessConsent(t) \/ RemoveExpired(t)
             \/ UpdateConsent(t)
    <3>1. (\E h : Moved(t, h)) /\ UNCHANGED <<session, signedIn, mixed>>
      BY <2>8, Zenon DEF DenyAnonymous, ProcessLogin, ProcessConsent, RemoveExpired,
                         UpdateConsent, history
    <3>2. GoesOn(f, g) /\ f.at # "reply"
      BY <1>0, <2>8, RedirectDoes, ConsentDoes, RemoveExpiredDoes, UpdateDoes
    <3> QED
      BY <2>6, <2>7, <3>1, <3>2
  <2>9. CASE Logout(t)
    <3>1. (\E h : Moved(t, h)) /\ UNCHANGED <<session, signedIn, mixed>>
      BY <2>9, Zenon DEF Logout, history
    <3>2. /\ f.at = "logout" /\ g.at = "reply" /\ g.user = f.user /\ f.user # None
          /\ g.notified = f.user.clients /\ g.reply.cookie = None /\ g.reply.next = "idle"
      BY <1>0, <2>9, LogoutDoes
    <3>3. SignOuts
      BY <3>2 DEF SignOutInv, LogoutSound
    <3> QED
      BY <2>6, <3>1, <3>2, <3>3 DEF Brings, LogoutSound
  <2>10. CASE Leave(t)
    <3>1. (\E h : Moved(t, h)) /\ UNCHANGED <<session, signedIn, mixed>>
      BY <2>10, Zenon DEF Leave, history
    <3> QED
      BY <1>0, <2>6, <2>10, <3>1, LeaveDoes, IdleFields DEF Brings, LogoutSound
  <2> QED
    BY <1>1, <1>4, <2>1, <2>2, <2>4, <2>5, <2>8, <2>9, <2>10, SignOutCreate, SignOutArrive, Zenon
       DEF TabStep, Login, AnswerConsent, Endpoint
<1>5. CASE UNCHANGED vars
  <2>1. UNCHANGED <<flow, session, signedIn, mixed>>
    BY <1>5, Zenon DEF vars, history
  <2> QED
    BY <1>2, <2>1
<1> QED
  BY <1>3, <1>4, <1>5, Steps

LEMMA SignOutAlways == Spec => []SignOutInv
BY SignOutInit, SignOutStep, PTL DEF Spec

\* Signing out tells every client that was given a code in the session, and no
\* other, unless two requests of the session were in flight together: the copies
\* of the session cookie requests and responses carry all keep its client list.
THEOREM EveryClientIsTold == Spec => []SignOutReachesClients
<1>1. SignOutInv => SignOutReachesClients
  <2> SUFFICES ASSUME SignOutInv, NEW t \in Tabs,
                      flow[t].at = "reply", flow[t].reply.cookie = None
               PROVE  LET f == flow[t]
                          told == {<<f.user.sid, c>> : c \in f.notified} IN
                      /\ told \subseteq signedIn
                      /\ f.user.sid \notin mixed => {x \in signedIn : x[1] = f.user.sid} \subseteq told
    BY DEF SignOutReachesClients
  <2> DEFINE f == flow[t]
             n == f.user.sid
  <2>1. TypeInv /\ Listed /\ LogoutSound(f) /\ Sound(f)
    BY SignOutFields
  <2>2. /\ SignOuts /\ f.user # None /\ f.notified = f.user.clients /\ ~Brings(f)
        /\ Uses(f, n) /\ n \in Sids
    <3>1. f.reply # None
      BY <2>1 DEF Sound
    <3>2. SignOuts /\ f.user # None /\ f.notified = f.user.clients
      BY <2>1, <3>1 DEF LogoutSound
    <3>3. f.user \in Session
      BY <2>1, <3>2, LocalsFields
    <3> QED
      BY <3>2, <3>3 DEF Brings, Uses, Session
  <2>3. f.notified \subseteq SignedInto(n)
    BY <2>1, <2>2 DEF Listed
  <2>4. n \notin mixed => f.notified = SignedInto(n)
    BY <2>2, SignOutFields DEF Exact
  <2>5. signedIn \subseteq Sids \X Clients
    BY <2>1, TypeRest
  <2> HIDE DEF n
  <2>6. {<<n, c>> : c \in f.notified} \subseteq signedIn
    BY <2>3 DEF SignedInto
  <2>7. ASSUME n \notin mixed, NEW x \in signedIn, x[1] = n
        PROVE  x \in {<<n, c>> : c \in f.notified}
    <3>1. x = <<n, x[2]>> /\ x[2] \in Clients
      BY <2>5, <2>7
    <3> QED
      BY <2>4, <2>7, <3>1 DEF SignedInto
  <2> QED
    BY <2>6, <2>7 DEF n
<1> QED
  BY <1>1, SignOutAlways, PTL

=============================================================================
