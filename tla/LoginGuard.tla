----------------------------- MODULE LoginGuard -----------------------------
(***************************************************************************)
(* The login form and its bot detection.  Failed attempts are counted in a *)
(* cache; a user name with too many of them is suspicious: its attempts    *)
(* are delayed, one at a time, and need a captcha.                         *)
(*                                                                         *)
(* The cache is read and written in separate calls, and the dictionary of  *)
(* blocked users is shared by all requests: one action is the code between *)
(* two such calls.                                                         *)
(***************************************************************************)
EXTENDS Integers

CONSTANTS
    Users,         \* user names typed into the form
    Requests,      \* attempts the host serves at the same time
    Codes,         \* captcha codes
    MaxFailCount,
    Remember,      \* RembemberSuspiciousUserTotalMinutes, in ticks
    BlockSeconds,  \* BlockSuspiciousUserSeconds, in ticks
    Renderer,      \* an ICaptchaCodeRenderer is registered
    Typing,        \* the captchas that are typed: "none", "shown", "used"
    None

ASSUME LoginGuardAssumption ==
    /\ MaxFailCount \in Nat \ {0} /\ Remember \in Nat \ {0} /\ BlockSeconds \in Nat \ {0}
    /\ Renderer \in BOOLEAN
    /\ Typing \subseteq {"none", "shown", "used"}
    /\ None \notin Codes

VARIABLES
    cache,     \* the suspicious users
    blocks,    \* the blocked users: seconds since they were blocked
    pc, ctx,   \* per attempt: its next step, its locals
    unguarded, \* history: failed checks of a password without a captcha
    solved,    \* history: captcha codes that led to a failed check
    adder      \* history: the attempt that blocked a user

history == <<unguarded, solved, adder>>
vars == <<cache, blocks, pc, ctx, history>>

SuspiciousUser == [fails : Nat, code : Codes \cup {None}, age : 0..Remember]

ASSUME NoneAssumption == None \notin SuspiciousUser

Attempt ==
    [user : Users, captcha : Codes \cup {None},
     right : BOOLEAN,     \* the password is right and the user is not locked out
     guarded : BOOLEAN,   \* the attempt went through the block and the captcha
     waited : 0..BlockSeconds,
     entry : SuspiciousUser \cup {None}]

Steps == {"idle", "check", "forget", "contains", "since", "add", "delay", "captcha",
          "signin", "clear", "fail_get", "fail_set", "recheck", "forget_again"}

TypeOK ==
    /\ cache \in [Users -> SuspiciousUser \cup {None}]
    /\ blocks \in [Users -> 0..BlockSeconds \cup {None}]
    /\ pc \in [Requests -> Steps]
    /\ ctx \in [Requests -> Attempt \cup {None}]
    /\ unguarded \in [Users -> 0..(MaxFailCount + 1)]
    /\ solved \subseteq Codes
    /\ adder \in [Users -> Requests \cup {None}]

Init ==
    /\ cache = [u \in Users |-> None]
    /\ blocks = [u \in Users |-> None]
    /\ pc = [r \in Requests |-> "idle"]
    /\ ctx = [r \in Requests |-> None]
    /\ unguarded = [u \in Users |-> 0]
    /\ solved = {}
    /\ adder = [u \in Users |-> None]

-----------------------------------------------------------------------------
Goto(r, step) == pc' = [pc EXCEPT ![r] = step]
Answer(r) == Goto(r, "idle") /\ ctx' = [ctx EXCEPT ![r] = None]
User(r) == ctx[r].user

Older(a, top) == IF a < top THEN a + 1 ELSE a

Tick ==
    /\ cache' = [u \in Users |-> IF cache[u] = None THEN None
                                 ELSE [cache[u] EXCEPT !.age = Older(@, Remember)]]
    /\ blocks' = [u \in Users |-> IF blocks[u] = None THEN None
                                  ELSE Older(blocks[u], BlockSeconds)]
    /\ ctx' = [r \in Requests |-> IF pc[r] # "delay" THEN ctx[r]
                                  ELSE [ctx[r] EXCEPT !.waited = Older(@, BlockSeconds)]]
    /\ UNCHANGED <<pc, history>>

\* RemoveSuspiciousUserAsync; the counts of the past are forgotten with it.
Remove(u) ==
    /\ cache' = [cache EXCEPT ![u] = None]
    /\ unguarded' = [unguarded EXCEPT ![u] = 0]

\* A password was reset.
ResetPassword(u) ==
    /\ cache[u] # None
    /\ Remove(u)
    /\ UNCHANGED <<blocks, pc, ctx, solved, adder>>

\* The form comes with no code, the one that is shown, or one that was tried.
Submit(r, u, captcha, right) ==
    /\ pc[r] = "idle"
    /\ \/ "none" \in Typing /\ captcha = None
       \/ "shown" \in Typing /\ cache[u] # None /\ captcha = cache[u].code
       \/ "used" \in Typing /\ captcha \in solved
    /\ Goto(r, "check")
    /\ ctx' = [ctx EXCEPT ![r] =
          [user |-> u, captcha |-> captcha, right |-> right, guarded |-> FALSE,
           waited |-> 0, entry |-> None]]
    /\ UNCHANGED <<cache, blocks, history>>

-----------------------------------------------------------------------------
(***************************************************************************)
(* IsSuspiciousUserAsync: an entry that is too old is removed.             *)
(***************************************************************************)
Outdated(u) == cache[u] # None /\ cache[u].age >= Remember

\* Mutant of IsSuspicious: off by one.
IsSuspicious_Late(u) == cache[u] # None /\ cache[u].fails > MaxFailCount

IsSuspicious(u) == cache[u] # None /\ cache[u].fails >= MaxFailCount

Check(r) ==
    /\ pc[r] = "check"
    /\ Goto(r, IF Outdated(User(r)) THEN "forget"
               ELSE IF IsSuspicious(User(r)) THEN "contains" ELSE "signin")
    /\ UNCHANGED <<cache, blocks, ctx, history>>

Forget(r) ==
    /\ pc[r] = "forget"
    /\ Remove(User(r))
    /\ Goto(r, "signin")
    /\ UNCHANGED <<blocks, ctx, solved, adder>>

-----------------------------------------------------------------------------
(***************************************************************************)
(* BlockSuspicousUser: ContainsKey, the indexer and TryAdd, each atomic;   *)
(* then the delay, and TryRemove.                                          *)
(***************************************************************************)
Contains(r) ==
    /\ pc[r] = "contains"
    /\ Goto(r, IF blocks[User(r)] # None THEN "since" ELSE "add")
    /\ UNCHANGED <<cache, blocks, ctx, history>>

\* The indexer throws when the entry is gone, the method when it is young.
Since(r) ==
    /\ pc[r] = "since"
    /\ IF blocks[User(r)] = None \/ blocks[User(r)] < BlockSeconds
       THEN Answer(r)
       ELSE Goto(r, "add") /\ UNCHANGED ctx
    /\ UNCHANGED <<cache, blocks, history>>

Add(r) ==
    /\ pc[r] = "add"
    /\ Goto(r, "delay")
    /\ IF blocks[User(r)] = None
       THEN /\ blocks' = [blocks EXCEPT ![User(r)] = 0]
            /\ adder' = [adder EXCEPT ![User(r)] = r]
       ELSE UNCHANGED <<blocks, adder>>
    /\ UNCHANGED <<cache, ctx, unguarded, solved>>

\* Mutant of Delay: the block is never lifted.
Delay_Kept(r) ==
    /\ pc[r] = "delay"
    /\ ctx[r].waited = BlockSeconds
    /\ ctx' = [ctx EXCEPT ![r].guarded = TRUE]
    /\ Goto(r, IF Renderer THEN "captcha" ELSE "signin")
    /\ UNCHANGED <<cache, blocks, history>>

\* TryRemove removes whatever block the user has by now.
Delay(r) ==
    /\ pc[r] = "delay"
    /\ ctx[r].waited = BlockSeconds
    /\ blocks' = [blocks EXCEPT ![User(r)] = None]
    /\ adder' = [adder EXCEPT ![User(r)] = None]
    /\ ctx' = [ctx EXCEPT ![r].guarded = TRUE]
    /\ Goto(r, IF Renderer THEN "captcha" ELSE "signin")
    /\ UNCHANGED <<cache, unguarded, solved>>

\* VerifyCaptchaCodeAsync: no code is never the right code.
Captcha(r) ==
    /\ pc[r] = "captcha"
    /\ LET code == IF cache[User(r)] = None THEN None ELSE cache[User(r)].code IN
       Goto(r, IF ctx[r].captcha # None /\ ctx[r].captcha = code
               THEN "signin" ELSE "fail_get")
    /\ UNCHANGED <<cache, blocks, ctx, history>>

-----------------------------------------------------------------------------
(***************************************************************************)
(* PasswordSignInAsync, and what the login page makes of its result.       *)
(***************************************************************************)
\* A right password with a second factor to come clears the user as well.
SignIn(r) ==
    /\ pc[r] = "signin"
    /\ IF ctx[r].right
       THEN Goto(r, "clear") /\ UNCHANGED <<unguarded, solved>>
       ELSE /\ Goto(r, "fail_get")
            /\ IF ctx[r].guarded
               THEN /\ solved' = solved \cup ({ctx[r].captcha} \ {None})
                    /\ UNCHANGED unguarded
               ELSE /\ unguarded' = [unguarded EXCEPT ![User(r)] =
                                        Older(@, MaxFailCount + 1)]
                    /\ UNCHANGED solved
    /\ UNCHANGED <<cache, blocks, ctx, adder>>

Clear(r) ==
    /\ pc[r] = "clear"
    /\ Remove(User(r))
    /\ Answer(r)
    /\ UNCHANGED <<blocks, solved, adder>>

\* AddSuspicousUserAndGenerateCaptchaCodeAsync reads the entry ...
FailGet(r) ==
    /\ pc[r] = "fail_get"
    /\ ctx' = [ctx EXCEPT ![r].entry =
          IF cache[User(r)] # None THEN cache[User(r)]
          ELSE [fails |-> 0, code |-> None, age |-> 0]]
    /\ Goto(r, "fail_set")
    /\ UNCHANGED <<cache, blocks, history>>

\* A new code is not one that is in use (codes are random).
NewCode(u, code) ==
    /\ \A v \in Users : cache[v] # None => cache[v].code # code
    /\ \A r \in Requests : ctx[r] # None => ctx[r].captcha # code

\* Counting on after MaxFailCount makes no difference.
Count(n) == IF n < MaxFailCount + 1 THEN n + 1 ELSE n

\* Mutants of FailSet: the code stays; the failures are counted down.
FailSet_OldCode(r, code) ==
    /\ pc[r] = "fail_set"
    /\ LET e == ctx[r].entry
           old == IF e.code = None THEN code ELSE e.code
       IN  /\ NewCode(User(r), code)
           /\ cache' = [cache EXCEPT ![User(r)] =
                           [fails |-> Count(e.fails), code |-> old, age |-> 0]]
    /\ Goto(r, "recheck")
    /\ UNCHANGED <<blocks, ctx, history>>

FailSet_Decrements(r, code) ==
    /\ pc[r] = "fail_set"
    /\ cache' = [cache EXCEPT ![User(r)] =
          [fails |-> ctx[r].entry.fails - 1, code |-> code, age |-> 0]]
    /\ Goto(r, "recheck")
    /\ UNCHANGED <<blocks, ctx, history>>

\* ... and writes it back with one more failure and a new code.
FailSet(r, code) ==
    /\ pc[r] = "fail_set"
    /\ NewCode(User(r), code)
    /\ cache' = [cache EXCEPT ![User(r)] =
          [fails |-> Count(ctx[r].entry.fails), code |-> code, age |-> 0]]
    /\ solved' = solved \ {code}
    /\ Goto(r, "recheck")
    /\ UNCHANGED <<blocks, ctx, unguarded, adder>>

\* The page asks IsSuspiciousUserAsync whether to show the captcha.
Recheck(r) ==
    /\ pc[r] = "recheck"
    /\ IF Outdated(User(r))
       THEN Goto(r, "forget_again") /\ UNCHANGED ctx
       ELSE Answer(r)
    /\ UNCHANGED <<cache, blocks, history>>

ForgetAgain(r) ==
    /\ pc[r] = "forget_again"
    /\ Remove(User(r))
    /\ Answer(r)
    /\ UNCHANGED <<blocks, solved, adder>>

-----------------------------------------------------------------------------
Step(r) ==
    \/ Check(r) \/ Forget(r)
    \/ Contains(r) \/ Since(r) \/ Add(r) \/ Delay(r) \/ Captcha(r)
    \/ SignIn(r) \/ Clear(r)
    \/ FailGet(r) \/ (\E code \in Codes : FailSet(r, code)) \/ Recheck(r) \/ ForgetAgain(r)

Next ==
    \/ Tick
    \/ \E u \in Users : ResetPassword(u)
    \/ \E r \in Requests, u \in Users, captcha \in Codes \cup {None}, right \in BOOLEAN :
          Submit(r, u, captcha, right)
    \/ \E r \in Requests : Step(r)

Spec == Init /\ [][Next]_vars

\* The thread pool runs every attempt on, and time passes.
FairSpec == Spec /\ WF_vars(Tick) /\ \A r \in Requests : WF_vars(Step(r))

-----------------------------------------------------------------------------
(***************************************************************************)
(* Properties.                                                             *)
(***************************************************************************)

\* Attempts made one after the other: a user name gets MaxFailCount wrong
\* passwords at most before an attempt has to wait and to solve a captcha, until
\* a login, a password reset or the passing of time clears it.
UnguardedBounded == \A u \in Users : unguarded[u] <= MaxFailCount

\* Attempts made one after the other: a captcha that was followed by a wrong
\* password is replaced before it can be used again.
CaptchaOnce ==
    \A r \in Requests :
        pc[r] = "signin" /\ ctx[r].guarded => ctx[r].captcha \notin solved

\* A block outlives no attempt: the one that set it is still being delayed,
\* however attempts overtook each other between ContainsKey and TryAdd.
BlocksAreHeld ==
    \A u \in Users : blocks[u] # None =>
        \E r \in Requests : adder[u] = r /\ pc[r] = "delay" /\ User(r) = u

\* A blocked user name is free again some time, and every attempt is answered.
BlocksEnd ==
    /\ \A u \in Users : blocks[u] # None ~> blocks[u] = None
    /\ \A r \in Requests : pc[r] # "idle" ~> pc[r] = "idle"

=============================================================================
