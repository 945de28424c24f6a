-------------------------- MODULE LoginGuardProofs --------------------------
(***************************************************************************)
(* Theorems of LoginGuard, for every set of user names, attempts and       *)
(* captcha codes and all settings of the bot detection.                    *)
(***************************************************************************)
EXTENDS LoginGuard, TLAPS

\* An attempt under way has locals, and the entry it writes back was read.
LocalsOf(r) ==
    /\ pc[r] # "idle" => ctx[r] \in Attempt
    /\ pc[r] = "fail_set" => ctx[r].entry \in SuspiciousUser

TypeInv == TypeOK /\ \A r \in Requests : LocalsOf(r)

BlocksInv == TypeInv /\ BlocksAreHeld

-----------------------------------------------------------------------------
(***************************************************************************)
(* What the strengthened invariants of attempts one after the other say.   *)
(***************************************************************************)
Failures(u) == IF cache[u] = None THEN 0 ELSE cache[u].fails

\* The failure of a password that has been checked is about to be counted.
Owing(r, u) == pc[r] \in {"fail_get", "fail_set"} /\ ctx[r].user = u

\* Every password checked without a captcha is counted, or about to be; the
\* entry an attempt writes back has all the failures that count; and a password
\* is only checked without a captcha before the limit is reached.
Counted ==
    /\ \A u \in Users :
          \/ unguarded[u] <= Failures(u)
          \/ \E r \in Requests : Owing(r, u) /\ unguarded[u] <= Failures(u) + 1
    /\ \A r \in Requests :
          /\ pc[r] = "fail_set" => ctx[r].entry.fails >= Failures(ctx[r].user)
          /\ pc[r] = "signin" /\ ~ctx[r].guarded => Failures(ctx[r].user) < MaxFailCount
          /\ pc[r] \in {"check", "forget"} => ~ctx[r].guarded
          /\ pc[r] = "captcha" => ctx[r].guarded

CountInv == TypeInv /\ UnguardedBounded /\ Counted

\* Codes in the cache belong to one user name each.
CodesDiffer ==
    \A u, v \in Users : u # v /\ cache[u] # None /\ cache[v] # None
                           => cache[u].code # cache[v].code

\* A code in the cache that was tried is about to be replaced, and one that was
\* just verified is nobody else's.
Replaced ==
    /\ \A u \in Users : cache[u] # None /\ cache[u].code \in solved =>
          \E r \in Requests : Owing(r, u)
    /\ \A r \in Requests : pc[r] = "signin" /\ ctx[r].guarded =>
          \A u \in Users \ {ctx[r].user} : cache[u] # None => cache[u].code # ctx[r].captcha
    /\ \A r \in Requests : pc[r] \in {"check", "forget"} => ~ctx[r].guarded

CaptchaInv == TypeInv /\ CodesDiffer /\ Replaced /\ CaptchaOnce

-----------------------------------------------------------------------------
LEMMA TypeInvInit == Init => TypeInv
BY LoginGuardAssumption DEF Init, TypeInv, TypeOK, LocalsOf, Steps

LEMMA TypeInvStep == TypeInv /\ [Next]_vars => TypeInv'
<1> SUFFICES ASSUME TypeInv, [Next]_vars PROVE TypeInv'
  OBVIOUS
<1> USE LoginGuardAssumption
<1>1. CASE Tick
  BY <1>1, SMTT(30) DEF Tick, Older, history, TypeInv, TypeOK, LocalsOf, SuspiciousUser,
                        Attempt
<1>2. ASSUME NEW u \in Users, ResetPassword(u) PROVE TypeInv'
  BY <1>2 DEF ResetPassword, Remove, TypeInv, TypeOK, LocalsOf
<1>3. ASSUME NEW r \in Requests, NEW u \in Users, NEW captcha \in Codes \cup {None},
             NEW right \in BOOLEAN, Submit(r, u, captcha, right)
      PROVE  TypeInv'
  BY <1>3 DEF Submit, Goto, history, TypeInv, TypeOK, LocalsOf, Attempt, Steps
<1>4. ASSUME NEW r \in Requests, Check(r) PROVE TypeInv'
  BY <1>4 DEF Check, Goto, User, Outdated, IsSuspicious, history, TypeInv, TypeOK,
              LocalsOf, Attempt, SuspiciousUser, Steps
<1>5. ASSUME NEW r \in Requests, Forget(r) PROVE TypeInv'
  BY <1>5 DEF Forget, Goto, User, Remove, history, TypeInv, TypeOK, LocalsOf, Attempt,
              SuspiciousUser, Steps
<1>6. ASSUME NEW r \in Requests, Contains(r) PROVE TypeInv'
  BY <1>6 DEF Contains, Goto, User, history, TypeInv, TypeOK, LocalsOf, Attempt,
              SuspiciousUser, Steps
<1>7. ASSUME NEW r \in Requests, Since(r) PROVE TypeInv'
  BY <1>7 DEF Since, Goto, User, Answer, history, TypeInv, TypeOK, LocalsOf, Attempt,
              SuspiciousUser, Steps
<1>8. ASSUME NEW r \in Requests, Add(r) PROVE TypeInv'
  BY <1>8 DEF Add, Goto, User, history, TypeInv, TypeOK, LocalsOf, Attempt,
              SuspiciousUser, Steps
<1>9. ASSUME NEW r \in Requests, Delay(r) PROVE TypeInv'
  <2>1. ctx[r] \in Attempt /\ User(r) \in Users
    BY <1>9 DEF Delay, User, TypeInv, LocalsOf, Attempt
  <2>2. [ctx[r] EXCEPT !.guarded = TRUE] \in Attempt
    BY <2>1 DEF Attempt
  <2>3. ctx' \in [Requests -> Attempt \cup {None}] /\ \A q \in Requests : LocalsOf(q)'
    BY <1>9, <2>2 DEF Delay, Goto, TypeInv, TypeOK, LocalsOf
  <2>4. /\ blocks' \in [Users -> 0..BlockSeconds \cup {None}]
        /\ adder' \in [Users -> Requests \cup {None}]
    BY <1>9, <2>1 DEF Delay, TypeInv, TypeOK
  <2>5. pc' \in [Requests -> Steps]
    BY <1>9 DEF Delay, Goto, TypeInv, TypeOK, Steps
  <2> QED
    BY <1>9, <2>3, <2>4, <2>5 DEF Delay, TypeInv, TypeOK
<1>10. ASSUME NEW r \in Requests, Captcha(r) PROVE TypeInv'
  BY <1>10 DEF Captcha, Goto, User, history, TypeInv, TypeOK, LocalsOf, Attempt,
               SuspiciousUser, Steps
<1>11. ASSUME NEW r \in Requests, SignIn(r) PROVE TypeInv'
  BY <1>11 DEF SignIn, Goto, User, Older, history, TypeInv, TypeOK, LocalsOf, Attempt,
               SuspiciousUser, Steps
<1>12. ASSUME NEW r \in Requests, Clear(r) PROVE TypeInv'
  BY <1>12 DEF Clear, Goto, User, Remove, Answer, history, TypeInv, TypeOK, LocalsOf,
               Attempt, SuspiciousUser, Steps
<1>13. ASSUME NEW r \in Requests, FailGet(r) PROVE TypeInv'
  BY <1>13 DEF FailGet, Goto, User, history, TypeInv, TypeOK, LocalsOf, Attempt,
               SuspiciousUser, Steps
<1>14. ASSUME NEW r \in Requests, Recheck(r) PROVE TypeInv'
  BY <1>14 DEF Recheck, Goto, User, Outdated, Answer, history, TypeInv, TypeOK,
               LocalsOf, Attempt, SuspiciousUser, Steps
<1>15. ASSUME NEW r \in Requests, ForgetAgain(r) PROVE TypeInv'
  BY <1>15 DEF ForgetAgain, Goto, User, Remove, Answer, history, TypeInv, TypeOK,
               LocalsOf, Attempt, SuspiciousUser, Steps
<1>16. ASSUME NEW r \in Requests, NEW code \in Codes, FailSet(r, code) PROVE TypeInv'
  BY <1>16 DEF FailSet, Goto, User, Count, TypeInv, TypeOK, LocalsOf, Attempt,
               SuspiciousUser, Steps
<1>17. CASE UNCHANGED vars
  BY <1>17 DEF vars, history, TypeInv, TypeOK, LocalsOf
<1> QED
  BY <1>1, <1>2, <1>3, <1>4, <1>5, <1>6, <1>7, <1>8, <1>9, <1>10, <1>11, <1>12,
     <1>13, <1>14, <1>15, <1>16, <1>17
  DEF Next, Step

\* All variables have their types.
THEOREM TypeCorrect == Spec => []TypeOK
<1>1. TypeInv => TypeOK
  BY DEF TypeInv
<1> QED
  BY <1>1, TypeInvInit, TypeInvStep, PTL DEF Spec

-----------------------------------------------------------------------------
LEMMA BlocksInvStep == BlocksInv /\ [Next]_vars => BlocksAreHeld'
<1> SUFFICES ASSUME BlocksInv, [Next]_vars PROVE BlocksAreHeld'
  OBVIOUS
<1> USE LoginGuardAssumption
    DEF BlocksInv, TypeInv, TypeOK, LocalsOf, Attempt, BlocksAreHeld
<1>1. CASE Tick
  <2>1. ASSUME NEW r \in Requests, pc[r] = "delay" PROVE User(r)' = User(r)
    BY <1>1, <2>1 DEF Tick, User
  <2> QED
    BY <1>1, <2>1 DEF Tick, history, Older
<1>2. CASE \E u \in Users : ResetPassword(u)
  BY <1>2 DEF ResetPassword, User
<1>3. ASSUME NEW r \in Requests,
             \/ \E u \in Users, captcha \in Codes \cup {None}, right \in BOOLEAN :
                   Submit(r, u, captcha, right)
             \/ Check(r) \/ Forget(r) \/ Contains(r) \/ Since(r) \/ Captcha(r) \/ SignIn(r)
             \/ Clear(r) \/ FailGet(r) \/ Recheck(r) \/ ForgetAgain(r)
             \/ \E code \in Codes : FailSet(r, code)
      PROVE  BlocksAreHeld'
  <2>1. pc[r] # "delay" /\ UNCHANGED <<blocks, adder>>
    BY <1>3 DEF Submit, Check, Forget, Contains, Since, Captcha, SignIn, Clear, FailGet,
                Recheck, ForgetAgain, FailSet, Remove, history
  <2>2. \A q \in Requests \ {r} : pc'[q] = pc[q] /\ ctx'[q] = ctx[q]
    BY <1>3 DEF Submit, Check, Forget, Contains, Since, Captcha, SignIn, Clear, FailGet,
                Recheck, ForgetAgain, FailSet, Goto, Answer
  <2> QED
    BY <2>1, <2>2 DEF User
<1>4. ASSUME NEW r \in Requests, Add(r) PROVE BlocksAreHeld'
  BY <1>4 DEF Add, Goto, User
<1>5. ASSUME NEW r \in Requests, Delay(r) PROVE BlocksAreHeld'
  BY <1>5 DEF Delay, Goto, User
<1>6. CASE UNCHANGED vars
  BY <1>6 DEF vars, history, User
<1> QED
  BY <1>1, <1>2, <1>3, <1>4, <1>5, <1>6 DEF Next, Step

\* However attempts overtake one another between ContainsKey, TryAdd and TryRemove,
\* every entry of the dictionary belongs to an attempt that is still being delayed.
THEOREM EveryBlockIsHeld == Spec => []BlocksAreHeld
<1>1. Init => BlocksInv
  BY TypeInvInit DEF Init, BlocksInv, BlocksAreHeld
<1>2. BlocksInv /\ [Next]_vars => BlocksInv'
  BY TypeInvStep, BlocksInvStep DEF BlocksInv
<1>3. BlocksInv => BlocksAreHeld
  BY DEF BlocksInv
<1> QED
  BY <1>1, <1>2, <1>3, PTL DEF Spec

-----------------------------------------------------------------------------
\* Attempts made one after the other.
OneAtATime == \A r, q \in Requests : r = q

LEMMA CountInvStep ==
    ASSUME OneAtATime, CountInv, [Next]_vars
    PROVE  UnguardedBounded' /\ Counted'
<1> USE LoginGuardAssumption, NoneAssumption
    DEF OneAtATime, CountInv, UnguardedBounded, Counted, Owing, Failures, history,
        TypeInv, TypeOK, LocalsOf, Attempt, SuspiciousUser
<1>1. CASE Tick
  <2>1. \A u \in Users : Failures(u)' = Failures(u) /\ unguarded'[u] = unguarded[u]
    <3>1. \A u \in Users : cache[u] = None => cache'[u] = None
      BY <1>1 DEF Tick, TypeInv, TypeOK
    <3>2. ASSUME NEW u \in Users, cache[u] # None
          PROVE  cache'[u].fails = cache[u].fails /\ cache'[u] # None
      <4>1. cache[u] \in SuspiciousUser /\ cache'[u] = [cache[u] EXCEPT !.age = Older(@, Remember)]
        BY <1>1, <3>2 DEF Tick, TypeInv, TypeOK
      <4>2. Older(cache[u].age, Remember) \in 0..Remember
        BY <4>1 DEF SuspiciousUser, Older
      <4>3. cache'[u] \in SuspiciousUser /\ cache'[u].fails = cache[u].fails
        BY <4>1, <4>2 DEF SuspiciousUser
      <4> QED
        BY <4>3
    <3> QED
      BY <3>1, <3>2, <1>1, SMTT(30) DEF Tick, history
  <2>2. \A r \in Requests : pc[r] # "delay" => ctx'[r] = ctx[r]
    BY <1>1 DEF Tick, TypeInv, TypeOK
  <2>3. pc' = pc
    BY <1>1 DEF Tick
  <2> HIDE DEF Failures
  <2> QED
    BY <2>1, <2>2, <2>3 DEF TypeInv, LocalsOf, Attempt
<1>2. ASSUME NEW u \in Users, ResetPassword(u) PROVE UnguardedBounded' /\ Counted'
  BY <1>2 DEF ResetPassword, Remove
<1>3. ASSUME NEW r \in Requests, NEW u \in Users, NEW captcha \in Codes \cup {None},
             NEW right \in BOOLEAN, Submit(r, u, captcha, right)
      PROVE  UnguardedBounded' /\ Counted'
  BY <1>3 DEF Submit, Goto
<1>4. ASSUME NEW r \in Requests, Check(r) PROVE UnguardedBounded' /\ Counted'
  BY <1>4 DEF Check, Goto, User, Outdated, IsSuspicious
<1>5. ASSUME NEW r \in Requests, Forget(r) PROVE UnguardedBounded' /\ Counted'
  BY <1>5 DEF Forget, Goto, User, Remove
<1>6. ASSUME NEW r \in Requests, Contains(r) PROVE UnguardedBounded' /\ Counted'
  BY <1>6 DEF Contains, Goto, User
<1>7. ASSUME NEW r \in Requests, Since(r) PROVE UnguardedBounded' /\ Counted'
  BY <1>7 DEF Since, Goto, User, Answer
<1>8. ASSUME NEW r \in Requests, Add(r) PROVE UnguardedBounded' /\ Counted'
  BY <1>8 DEF Add, Goto, User
<1>9. ASSUME NEW r \in Requests, Delay(r) PROVE UnguardedBounded' /\ Counted'
  BY <1>9 DEF Delay, Goto, User
<1>10. ASSUME NEW r \in Requests, Captcha(r) PROVE UnguardedBounded' /\ Counted'
  <2>1. cache' = cache /\ ctx' = ctx /\ unguarded' = unguarded
    BY <1>10 DEF Captcha, history
  <2>2. pc[r] = "captcha" /\ pc'[r] \in {"signin", "fail_get"}
    BY <1>10 DEF Captcha, Goto, TypeInv, TypeOK
  <2> QED
    BY <2>1, <2>2
<1>11. ASSUME NEW r \in Requests, SignIn(r) PROVE UnguardedBounded' /\ Counted'
  BY <1>11 DEF SignIn, Goto, User, Older
<1>12. ASSUME NEW r \in Requests, Clear(r) PROVE UnguardedBounded' /\ Counted'
  BY <1>12 DEF Clear, Goto, User, Remove, Answer
<1>13. ASSUME NEW r \in Requests, FailGet(r) PROVE UnguardedBounded' /\ Counted'
  BY <1>13 DEF FailGet, Goto, User
<1>14. ASSUME NEW r \in Requests, Recheck(r) PROVE UnguardedBounded' /\ Counted'
  BY <1>14 DEF Recheck, Goto, User, Outdated, Answer
<1>15. ASSUME NEW r \in Requests, ForgetAgain(r) PROVE UnguardedBounded' /\ Counted'
  BY <1>15 DEF ForgetAgain, Goto, User, Remove, Answer
<1>16. ASSUME NEW r \in Requests, NEW code \in Codes, FailSet(r, code)
       PROVE  UnguardedBounded' /\ Counted'
  BY <1>16 DEF FailSet, NewCode, Goto, User, Count
<1>17. CASE UNCHANGED vars
  BY <1>17 DEF vars, history
<1> QED
  BY <1>1, <1>2, <1>3, <1>4, <1>5, <1>6, <1>7, <1>8, <1>9, <1>10, <1>11, <1>12,
     <1>13, <1>14, <1>15, <1>16, <1>17, SMTT(30)
  DEF Next, Step

LEMMA CaptchaInvStep ==
    ASSUME OneAtATime, Renderer, CaptchaInv, [Next]_vars
    PROVE  CodesDiffer' /\ Replaced' /\ CaptchaOnce'
<1> USE LoginGuardAssumption, NoneAssumption
    DEF OneAtATime, CaptchaInv, CodesDiffer, Replaced, Owing, CaptchaOnce, history,
        TypeInv, TypeOK, LocalsOf, Attempt, SuspiciousUser
<1>1. CASE Tick
  BY <1>1 DEF Tick, Older
<1>2. ASSUME NEW u \in Users, ResetPassword(u)
      PROVE  CodesDiffer' /\ Replaced' /\ CaptchaOnce'
  BY <1>2 DEF ResetPassword, Remove
<1>3. ASSUME NEW r \in Requests, NEW u \in Users, NEW captcha \in Codes \cup {None},
             NEW right \in BOOLEAN, Submit(r, u, captcha, right)
      PROVE  CodesDiffer' /\ Replaced' /\ CaptchaOnce'
  BY <1>3 DEF Submit, Goto
<1>4. ASSUME NEW r \in Requests, Check(r) PROVE CodesDiffer' /\ Replaced' /\ CaptchaOnce'
  BY <1>4 DEF Check, Goto, User, Outdated, IsSuspicious
<1>5. ASSUME NEW r \in Requests, Forget(r) PROVE CodesDiffer' /\ Replaced' /\ CaptchaOnce'
  BY <1>5 DEF Forget, Goto, User, Remove
<1>6. ASSUME NEW r \in Requests, Contains(r)
      PROVE  CodesDiffer' /\ Replaced' /\ CaptchaOnce'
  BY <1>6 DEF Contains, Goto, User
<1>7. ASSUME NEW r \in Requests, Since(r) PROVE CodesDiffer' /\ Replaced' /\ CaptchaOnce'
  BY <1>7 DEF Since, Goto, User, Answer
<1>8. ASSUME NEW r \in Requests, Add(r) PROVE CodesDiffer' /\ Replaced' /\ CaptchaOnce'
  BY <1>8 DEF Add, Goto, User
<1>9. ASSUME NEW r \in Requests, Delay(r) PROVE CodesDiffer' /\ Replaced' /\ CaptchaOnce'
  BY <1>9 DEF Delay, Goto, User
<1>10. ASSUME NEW r \in Requests, Captcha(r)
       PROVE  CodesDiffer' /\ Replaced' /\ CaptchaOnce'
  BY <1>10 DEF Captcha, Goto, User
<1>11. ASSUME NEW r \in Requests, SignIn(r)
       PROVE  CodesDiffer' /\ Replaced' /\ CaptchaOnce'
  BY <1>11 DEF SignIn, Goto, User, Older
<1>12. ASSUME NEW r \in Requests, Clear(r) PROVE CodesDiffer' /\ Replaced' /\ CaptchaOnce'
  BY <1>12 DEF Clear, Goto, User, Remove, Answer
<1>13. ASSUME NEW r \in Requests, FailGet(r)
       PROVE  CodesDiffer' /\ Replaced' /\ CaptchaOnce'
  BY <1>13 DEF FailGet, Goto, User
<1>14. ASSUME NEW r \in Requests, Recheck(r)
       PROVE  CodesDiffer' /\ Replaced' /\ CaptchaOnce'
  BY <1>14 DEF Recheck, Goto, User, Outdated, Answer
<1>15. ASSUME NEW r \in Requests, ForgetAgain(r)
       PROVE  CodesDiffer' /\ Replaced' /\ CaptchaOnce'
  BY <1>15 DEF ForgetAgain, Goto, User, Remove, Answer
<1>16. ASSUME NEW r \in Requests, NEW code \in Codes, FailSet(r, code)
       PROVE  CodesDiffer' /\ Replaced' /\ CaptchaOnce'
  BY <1>16 DEF FailSet, NewCode, Goto, User, Count
<1>17. CASE UNCHANGED vars
  BY <1>17 DEF vars, history
<1> QED
  BY <1>1, <1>2, <1>3, <1>4, <1>5, <1>6, <1>7, <1>8, <1>9, <1>10, <1>11, <1>12,
     <1>13, <1>14, <1>15, <1>16, <1>17
  DEF Next, Step

\* Attempts made one after the other check no more than MaxFailCount wrong passwords
\* of a user name without a delay and a captcha, whatever the limit.
THEOREM WrongPasswordsAreBounded ==
    ASSUME OneAtATime
    PROVE  Spec => []UnguardedBounded
<1>1. Init => CountInv
  BY TypeInvInit, LoginGuardAssumption
  DEF Init, CountInv, UnguardedBounded, Counted, Failures
<1>2. CountInv /\ [Next]_vars => CountInv'
  BY OneAtATime, TypeInvStep, CountInvStep DEF CountInv
<1>3. CountInv => UnguardedBounded
  BY DEF CountInv
<1> QED
  BY <1>1, <1>2, <1>3, PTL DEF Spec

\* Attempts made one after the other: a captcha that was followed by a wrong
\* password is of no use any more, when captchas are asked for at all.
THEOREM CaptchasWorkOnce ==
    ASSUME OneAtATime, Renderer
    PROVE  Spec => []CaptchaOnce
<1>1. Init => CaptchaInv
  BY TypeInvInit DEF Init, CaptchaInv, CodesDiffer, Replaced, CaptchaOnce
<1>2. CaptchaInv /\ [Next]_vars => CaptchaInv'
  BY OneAtATime, Renderer, TypeInvStep, CaptchaInvStep DEF CaptchaInv
<1>3. CaptchaInv => CaptchaOnce
  BY DEF CaptchaInv
<1> QED
  BY <1>1, <1>2, <1>3, PTL DEF Spec

=============================================================================
