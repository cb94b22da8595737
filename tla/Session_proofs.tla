--------------------------- MODULE Session_proofs ---------------------------
(***************************************************************************)
(* The login lockout, proved for every number of allowed failures, every   *)
(* lockout length and every derivation time.                               *)
(***************************************************************************)
EXTENDS Session, Integers, TLAPS

(***************************************************************************)
(* Why LockoutHolds is not inductive by itself: fail_count_ remembers only *)
(* the failures since the last lockout.  LockInv relates it to the whole   *)
(* history.  The last failCount failures form the current batch; whatever  *)
(* lies before the batch is a LOCKOUT older than all of it (or, while the  *)
(* batch is empty, than the present); and a full batch has armed           *)
(* lockout_until_ms_ from its last failure.                                *)
(***************************************************************************)
n == Len(fails)

LockInv ==
  /\ failCount <= n
  /\ holder = "login" => failCount < MAX_FAILS
  /\ \A i \in 1 .. n : fails[i] <= now
  /\ \A i, j \in 1 .. n : i <= j => fails[i] <= fails[j]
  /\ \A i, j \in 1 .. n : i <= n - failCount /\ n - failCount < j
                          => fails[i] + LOCKOUT <= fails[j]
  /\ failCount = 0 => \A i \in 1 .. n : fails[i] + LOCKOUT <= now
  /\ failCount = MAX_FAILS => lockoutUntil = fails[n] + LOCKOUT
  /\ LockoutHolds

LEMMA ClampInRange ==
  ASSUME NEW ms \in Nat PROVE Clamp(ms) \in IDLE_MIN .. IDLE_MAX
  BY SessionConstants DEF Clamp

LEMMA BootWindow ==
  ASSUME NEW w \in {IDLE_DEFAULT} \cup {Clamp(ms) : ms \in IdleInputs}
  PROVE  w \in IDLE_MIN .. IDLE_MAX
<1>1. CASE w = IDLE_DEFAULT
  BY <1>1, SessionConstants
<1>2. CASE \E ms \in IdleInputs : w = Clamp(ms)
  BY <1>2, ClampInRange, SessionConstants
<1> QED BY <1>1, <1>2

LEMMA InitInv == Init => TypeOK /\ LockInv
<1> SUFFICES ASSUME Init PROVE TypeOK /\ LockInv
  OBVIOUS
<1>1. idleMs \in IDLE_MIN .. IDLE_MAX
  BY BootWindow DEF Init
<1>2. TypeOK
  <2>1. active \in BOOLEAN /\ holder \in {"none", "setup", "login", "request"} /\ pollDue \in BOOLEAN
        /\ timer \in BOOLEAN
    BY DEF Init
  <2>2. fails \in Seq(Nat)
    BY DEF Init
  <2> QED BY <1>1, <2>1, <2>2, SessionConstants DEF Init, TypeOK
<1>3. LockInv
  BY SessionConstants DEF Init, LockInv, LockoutHolds, n
<1> QED BY <1>2, <1>3

LEMMA TypeNext == TypeOK /\ LockInv /\ [Next]_vars => TypeOK'
<1> SUFFICES ASSUME TypeOK, LockInv, [Next]_vars PROVE TypeOK'
  OBVIOUS
<1> USE SessionConstants DEF TypeOK
<1>1. CASE LoginStart \/ LoginRejected
  BY <1>1 DEF LoginStart, LoginRejected, login_allowed
<1>2. CASE LoginFail
  <2>1. failCount + 1 \in 0 .. MAX_FAILS
    BY <1>2 DEF LoginFail, LockInv
  <2>2. Append(fails, now) \in Seq(Nat)
    OBVIOUS
  <2>3. holder' \in {"none", "setup", "login", "request"} /\ active' \in BOOLEAN /\ pollDue' \in BOOLEAN
        /\ timer' \in BOOLEAN
    BY <1>2 DEF LoginFail
  <2>4. spent' = 0 /\ 0 \in 0 .. HOLD
    BY <1>2 DEF LoginFail
  <2> QED BY <1>2, <2>1, <2>2, <2>3, <2>4 DEF LoginFail, note_login_result
<1>3. ASSUME NEW t \in Tokens, LoginOk(t) PROVE TypeOK'
  <2>1. holder' \in {"none", "setup", "login", "request"} /\ active' \in BOOLEAN /\ pollDue' \in BOOLEAN
        /\ timer' \in BOOLEAN
    BY <1>3 DEF LoginOk, create
  <2>2. fails' \in Seq(Nat)
    BY <1>3 DEF LoginOk
  <2> QED BY <1>3, <2>1, <2>2 DEF LoginOk, note_login_result, create
<1>4. ASSUME NEW t \in Tokens, Request(t) PROVE TypeOK'
  BY <1>4 DEF Request, validate, destroy
<1>5. ASSUME NEW t \in Tokens, Logout(t) PROVE TypeOK'
  BY <1>5 DEF Logout, destroy
<1>6. ASSUME NEW t \in Tokens, NEW ms \in IdleInputs, SetIdle(t, ms) PROVE TypeOK'
  BY <1>6, ClampInRange DEF SetIdle
<1>7. CASE Poll
  BY <1>7 DEF Poll, destroy
<1>8. CASE Tick
  BY <1>8 DEF Tick, sessionVars
<1>9. CASE Reboot
  <2>1. idleMs' \in IDLE_MIN .. IDLE_MAX
    BY <1>9, BootWindow DEF Reboot
  <2>2. holder' \in {"none", "setup", "login", "request"} /\ active' \in BOOLEAN /\ pollDue' \in BOOLEAN
        /\ timer' \in BOOLEAN
    BY <1>9 DEF Reboot
  <2>3. fails' \in Seq(Nat)
    BY <1>9 DEF Reboot
  <2> QED BY <1>9, <2>1, <2>2, <2>3 DEF Reboot
<1>10. CASE RequestEnd \/ SetupStart
  BY <1>10 DEF RequestEnd, SetupStart, sessionVars
<1>11. ASSUME NEW t \in Tokens, SetupOk(t) PROVE TypeOK'
  BY <1>11 DEF SetupOk, create
<1>12. CASE UNCHANGED vars
  BY <1>12 DEF vars, sessionVars
<1> QED BY <1>1, <1>2, <1>3, <1>4, <1>5, <1>6, <1>7, <1>8, <1>9, <1>10, <1>11, <1>12 DEF Next

LEMMA LockNext == TypeOK /\ LockInv /\ [Next]_vars => LockInv'
<1> SUFFICES ASSUME TypeOK, LockInv, [Next]_vars PROVE LockInv'
  OBVIOUS
<1> USE SessionConstants DEF TypeOK, LockInv, LockoutHolds, n
<1>1. CASE LoginStart \/ LoginRejected
  <2>1. UNCHANGED <<fails, now, lockoutUntil>> /\ ~LockedOut
    BY <1>1 DEF LoginStart, LoginRejected, login_allowed
  <2>2. CASE failCount < MAX_FAILS
    BY <1>1, <2>1, <2>2 DEF LoginStart, LoginRejected, login_allowed
  <2>3. CASE failCount = MAX_FAILS
    <3>1. failCount' = 0 /\ now >= lockoutUntil
      BY <1>1, <2>1, <2>3 DEF LoginStart, LoginRejected, login_allowed, LockedOut
    <3>2. \A i \in 1 .. n : fails[i] \in Nat /\ fails[i] <= fails[n]
      OBVIOUS
    <3>3. \A i \in 1 .. n : fails[i] + LOCKOUT <= now
      BY <2>3, <3>1, <3>2
    <3> QED BY <2>1, <3>1, <3>3
  <2> QED BY <2>2, <2>3
<1>2. CASE LoginFail
  <2> DEFINE f == fails'
  <2>1. /\ f = Append(fails, now) /\ now' = now /\ holder' = "none"
        /\ failCount' = failCount + 1 /\ failCount < MAX_FAILS
        /\ lockoutUntil' = IF failCount + 1 >= MAX_FAILS THEN now + LOCKOUT ELSE lockoutUntil
    BY <1>2 DEF LoginFail, note_login_result
  <2>0. n \in Nat /\ failCount \in Nat /\ failCount <= n /\ now \in Nat /\ LOCKOUT \in Nat
    OBVIOUS
  <2>2. /\ Len(f) = n + 1
        /\ f[n + 1] = now
        /\ \A i \in 1 .. n : f[i] = fails[i] /\ fails[i] \in Nat
    BY <2>1
  <2>s. \A i \in 1 .. n + 1 : i = n + 1 \/ i \in 1 .. n
    BY <2>0
  <2>3. \A i \in 1 .. n + 1 : f[i] <= now
    BY <2>0, <2>2
  <2>4. \A i, j \in 1 .. n + 1 : i <= j => f[i] <= f[j]
    <3> SUFFICES ASSUME NEW i \in 1 .. n + 1, NEW j \in 1 .. n + 1, i <= j
                 PROVE  f[i] <= f[j]
      OBVIOUS
    <3>1. CASE j = n + 1
      BY <2>2, <2>3, <3>1
    <3>2. CASE j \in 1 .. n
      <4>1. i \in 1 .. n
        BY <3>2
      <4> QED BY <2>2, <3>2, <4>1
    <3> QED BY <2>s, <3>1, <3>2
  <2>6. \A i \in 1 .. n : i <= n - failCount => fails[i] + LOCKOUT <= now
    <3>1. CASE failCount = 0
      BY <3>1
    <3>2. CASE failCount # 0
      <4> SUFFICES ASSUME NEW i \in 1 .. n, i <= n - failCount
                   PROVE  fails[i] + LOCKOUT <= now
        OBVIOUS
      <4>1. n \in 1 .. n /\ n - failCount < n
        BY <2>0, <3>2
      <4>2. fails[i] + LOCKOUT <= fails[n]
        BY <4>1
      <4>3. fails[n] <= now /\ fails[n] \in Nat /\ fails[i] \in Nat
        BY <2>2, <4>1
      <4> QED BY <2>0, <4>2, <4>3
    <3> QED BY <3>1, <3>2
  <2>7. \A i, j \in 1 .. n + 1 : i <= n - failCount /\ n - failCount < j
                                => f[i] + LOCKOUT <= f[j]
    <3> SUFFICES ASSUME NEW i \in 1 .. n + 1, NEW j \in 1 .. n + 1,
                        i <= n - failCount, n - failCount < j
                 PROVE  f[i] + LOCKOUT <= f[j]
      OBVIOUS
    <3>1. i \in 1 .. n
      OBVIOUS
    <3>2. CASE j = n + 1
      BY <2>2, <2>6, <3>1, <3>2
    <3>3. CASE j \in 1 .. n
      BY <2>2, <3>1, <3>3
    <3> QED BY <2>s, <3>2, <3>3
  <2>8. \A i \in 1 .. n + 1 : i + MAX_FAILS <= n + 1 => f[i + MAX_FAILS] >= f[i] + LOCKOUT
    <3> SUFFICES ASSUME NEW i \in 1 .. n + 1, i + MAX_FAILS <= n + 1
                 PROVE  f[i + MAX_FAILS] >= f[i] + LOCKOUT
      OBVIOUS
    <3>1. i \in 1 .. n
      OBVIOUS
    <3>2. CASE i + MAX_FAILS = n + 1
      <4>1. i <= n - failCount
        BY <2>1, <3>2
      <4> QED BY <2>2, <2>6, <3>1, <3>2, <4>1
    <3>3. CASE i + MAX_FAILS <= n
      BY <2>2, <3>1, <3>3
    <3>4. i + MAX_FAILS \in 1 .. n + 1
      BY <2>0
    <3> QED BY <2>s, <3>2, <3>3, <3>4, <2>0
  <2>9. failCount' = MAX_FAILS => lockoutUntil' = f[Len(f)] + LOCKOUT
    BY <2>1, <2>2
  <2>10. n' = n + 1
    BY <2>2
  <2>11. failCount' <= n' /\ failCount' # 0
    BY <2>0, <2>1, <2>10
  <2>12. holder' = "login" => failCount' < MAX_FAILS
    BY <2>1
  <2>13. /\ \A i \in 1 .. n' : f[i] <= now'
         /\ \A i, j \in 1 .. n' : i <= j => f[i] <= f[j]
    BY <2>1, <2>3, <2>4, <2>10
  <2>14. \A i, j \in 1 .. n' : i <= n' - failCount' /\ n' - failCount' < j
                              => f[i] + LOCKOUT <= f[j]
    <3> HIDE DEF n, LockoutHolds, TypeOK, LockInv
    <3>1. n' - failCount' = n - failCount
      BY <2>0, <2>1, <2>10
    <3> QED BY <2>7, <2>10, <3>1
  <2>15. failCount' = MAX_FAILS => lockoutUntil' = f[n'] + LOCKOUT
    BY <2>9
  <2>16. LockoutHolds'
    BY <2>8, <2>10
  <2> HIDE DEF n, LockoutHolds, TypeOK
  <2> QED BY <2>11, <2>12, <2>13, <2>14, <2>15, <2>16
<1>3. ASSUME NEW t \in Tokens, LoginOk(t) PROVE LockInv'
  BY <1>3 DEF LoginOk, note_login_result
<1>4. ASSUME NEW t \in Tokens, Request(t) PROVE LockInv'
  <2>1. holder' # "login"
    BY <1>4 DEF Request
  <2> QED BY <1>4, <2>1 DEF Request
<1>5. ASSUME NEW t \in Tokens, Logout(t) PROVE LockInv'
  BY <1>5 DEF Logout
<1>6. ASSUME NEW t \in Tokens, NEW ms \in IdleInputs, SetIdle(t, ms) PROVE LockInv'
  BY <1>6 DEF SetIdle
<1>7. CASE Poll
  BY <1>7 DEF Poll
<1>8. CASE Tick
  BY <1>8 DEF Tick, sessionVars
<1>9. CASE Reboot
  BY <1>9 DEF Reboot
<1>10. CASE RequestEnd \/ SetupStart
  BY <1>10 DEF RequestEnd, SetupStart, sessionVars
<1>11. ASSUME NEW t \in Tokens, SetupOk(t) PROVE LockInv'
  BY <1>11 DEF SetupOk
<1>12. CASE UNCHANGED vars
  BY <1>12 DEF vars, sessionVars
<1> QED BY <1>1, <1>2, <1>3, <1>4, <1>5, <1>6, <1>7, <1>8, <1>9, <1>10, <1>11, <1>12 DEF Next

LEMMA Invariant == Spec => [](TypeOK /\ LockInv)
<1>1. Init => TypeOK /\ LockInv
  BY InitInv
<1>2. TypeOK /\ LockInv /\ [Next]_vars => (TypeOK /\ LockInv)'
  BY TypeNext, LockNext
<1> QED BY <1>1, <1>2, PTL DEF Spec

(***************************************************************************)
(* The session state is well typed; in particular fail_count_ never        *)
(* passes MAX_FAILS and the idle window never leaves its bounds.           *)
(***************************************************************************)
THEOREM SessionTyped == Spec => []TypeOK
  BY Invariant, PTL

(***************************************************************************)
(* Rate limit: among the failed logins since the last success or boot, a   *)
(* failure and the MAX_FAILS-th one after it are at least LOCKOUT apart.   *)
(***************************************************************************)
THEOREM LockoutAlwaysHolds == Spec => []LockoutHolds
<1>1. LockInv => LockoutHolds
  BY DEF LockInv
<1> QED BY <1>1, Invariant, PTL

(***************************************************************************)
(* A locked-out user waits at most LOCKOUT from the last failure: nothing  *)
(* that happens during a lockout pushes its end away.                      *)
(***************************************************************************)
THEOREM LockoutAlwaysEnds == Spec => []LockoutEnds
<1>1. TypeOK /\ LockInv => LockoutEnds
  <2> SUFFICES ASSUME TypeOK, LockInv, LockedOut
               PROVE  fails # <<>> /\ lockoutUntil <= fails[n] + LOCKOUT
    BY DEF LockoutEnds, n
  <2>1. failCount = MAX_FAILS /\ n \in Nat /\ n \in 1 .. n
    BY SessionConstants DEF TypeOK, LockInv, LockedOut, n
  <2>2. lockoutUntil = fails[n] + LOCKOUT /\ fails[n] \in Nat
    BY <2>1 DEF TypeOK, LockInv, n
  <2>3. fails # <<>>
    BY <2>1 DEF n
  <2> QED BY <2>2, <2>3, SessionConstants
<1> QED BY <1>1, Invariant, PTL

-----------------------------------------------------------------------------
(***************************************************************************)
(* The idle lock.  Since the check was last queued, Phase ticks have gone; *)
(* a session whose check has run is over its window by no more than that.  *)
(* A check that waits lets the window be passed by one period more, and by *)
(* HOLD for each login that fails while it waits.  Those are counted by    *)
(* failCount: it can only be set back when a lockout has run out, and none *)
(* runs out while a check waits, for the clock needs a login to move.      *)
(***************************************************************************)
Age == now - lastSeen
Phase == now % POLL

PromptInv ==
  /\ Free => spent = 0
  /\ holder = "setup" => ~active
  /\ holder = "login" => failCount < MAX_FAILS
  /\ lastSeen <= now
  /\ timer /\ active /\ ~pollDue => Age <= idleMs + Phase
  /\ active /\ holder = "request" => Age <= spent
  /\ active /\ pollDue /\ Free =>
       \/ Age <= idleMs + POLL
       \/ /\ failCount < MAX_FAILS \/ now < lockoutUntil
          /\ Age <= idleMs + POLL + failCount * HOLD
  /\ active /\ pollDue /\ holder = "login" =>
       Age <= idleMs + POLL + failCount * HOLD + spent

LEMMA PhaseStep ==
  ASSUME NEW k \in Nat
  PROVE  /\ k % POLL \in Nat /\ k % POLL < POLL
         /\ (k + 1) % POLL # 0 => (k + 1) % POLL = (k % POLL) + 1
<1> DEFINE q == k \div POLL
           r == k % POLL
           s == (k + 1) \div POLL
           u == (k + 1) % POLL
<1>1. /\ q \in Int /\ r \in 0 .. POLL - 1 /\ k = POLL * q + r
      /\ s \in Int /\ u \in 0 .. POLL - 1 /\ k + 1 = POLL * s + u
  BY SessionConstants
<1> HIDE DEF q, r, s, u
<1>2. POLL * (s - q) = POLL * s - POLL * q
  BY <1>1, SessionConstants
<1>3. POLL * (s - q) = r + 1 - u
  BY <1>1, <1>2, SessionConstants
<1>4. CASE s - q = 0
  BY <1>1, <1>3, <1>4, SessionConstants DEF r, u
<1>5. CASE s - q >= 1
  <2>1. POLL * (s - q) >= POLL
    BY <1>1, <1>5, SessionConstants
  <2>2. u = 0
    BY <1>1, <1>3, <2>1, SessionConstants
  <2> QED BY <1>1, <2>2, SessionConstants DEF r, u
<1>6. CASE s - q <= -1
  <2>1. POLL * (s - q) <= -POLL
    BY <1>1, <1>6, SessionConstants
  <2> QED BY <1>1, <1>3, <2>1, SessionConstants
<1> QED BY <1>1, <1>4, <1>5, <1>6

\* A login, in two parts: it starts with room in the batch ...
LEMMA PromptLoginStart ==
  ASSUME TypeOK, PromptInv, LoginStart \/ LoginRejected
  PROVE  PromptInv'
<1> USE SessionConstants DEF TypeOK, PromptInv, Age, Phase, Free
<1>1. UNCHANGED <<active, lastSeen, lockoutUntil, idleMs, now, spent, pollDue, timer>>
  BY DEF LoginStart, LoginRejected
<1>2. holder = "none" /\ holder' \in {"none", "login"} /\ failCount' < MAX_FAILS
  BY DEF LoginStart, LoginRejected, login_allowed
<1>3. active /\ pollDue => Age <= idleMs + POLL + failCount' * HOLD
  <2>1. CASE failCount < MAX_FAILS
    <3>1. failCount' = failCount /\ failCount * HOLD \in Nat
      BY <2>1 DEF LoginStart, LoginRejected, login_allowed
    <3> QED BY <1>2, <3>1
  <2>2. CASE failCount = MAX_FAILS
    <3>1. failCount' = 0 /\ ~(now < lockoutUntil)
      BY <2>2 DEF LoginStart, LoginRejected, login_allowed, LockedOut
    <3>2. active /\ pollDue => Age <= idleMs + POLL
      BY <1>2, <2>2, <3>1
    <3> QED BY <3>1, <3>2
  <2> QED BY <2>1, <2>2
<1>4. timer /\ active /\ ~pollDue => Age' <= idleMs' + Phase'
  BY <1>1, <1>2
<1>5. Age' = Age /\ spent = 0 /\ failCount' * HOLD \in Nat
  BY <1>1, <1>2, <1>3 DEF LoginStart, LoginRejected, login_allowed
<1> HIDE DEF Age, Phase
<1> QED BY <1>1, <1>2, <1>3, <1>4, <1>5

\* ... and ends, when it fails, with one failure more.
LEMMA PromptLoginFail ==
  ASSUME TypeOK, PromptInv, LoginFail
  PROVE  PromptInv'
<1> USE SessionConstants DEF TypeOK, PromptInv, Age, Phase, Free
<1>1. UNCHANGED <<active, lastSeen, idleMs, now, pollDue, timer>> /\ holder' = "none" /\ spent' = 0
  BY DEF LoginFail
<1>2. /\ holder = "login" /\ failCount < MAX_FAILS /\ failCount' = failCount + 1
      /\ lockoutUntil' = IF failCount + 1 >= MAX_FAILS THEN now + LOCKOUT ELSE lockoutUntil
  BY DEF LoginFail, note_login_result
<1>3. failCount' * HOLD = failCount * HOLD + HOLD /\ failCount * HOLD \in Nat
  BY <1>2
<1>4. active /\ pollDue => Age <= idleMs + POLL + failCount' * HOLD
  BY <1>2, <1>3
<1>5. failCount' < MAX_FAILS \/ now < lockoutUntil'
  BY <1>2
<1> QED BY <1>1, <1>4, <1>5

LEMMA PromptTick ==
  ASSUME TypeOK, PromptInv, Tick
  PROVE  PromptInv'
<1> USE SessionConstants DEF TypeOK, PromptInv, Age, Phase, Free
<1>1. UNCHANGED <<active, lastSeen, failCount, lockoutUntil, idleMs, holder, timer>>
  BY DEF Tick, sessionVars
<1>2. /\ now' = now + 1 /\ pollDue' = (pollDue \/ (timer /\ now' % POLL = 0))
      /\ spent' = IF Free THEN 0 ELSE spent + 1
      /\ ~(Free /\ pollDue)
  BY DEF Tick
<1>3. Age' = Age + 1
  BY <1>1, <1>2
<1>4. /\ now % POLL \in Nat /\ now % POLL < POLL
      /\ now' % POLL # 0 => now' % POLL = (now % POLL) + 1
  BY <1>2, PhaseStep
<1>5. timer /\ active /\ ~pollDue' => Age' <= idleMs' + Phase'
  <2>1. timer /\ ~pollDue' => ~pollDue /\ Phase' = Phase + 1
    BY <1>2, <1>4
  <2>2. timer /\ active /\ ~pollDue => Age <= idleMs + Phase
    OBVIOUS
  <2>3. Age \in Int /\ Phase \in Nat
    BY <1>4
  <2> HIDE DEF Age, Phase, PromptInv
  <2> QED BY <1>1, <1>3, <2>1, <2>2, <2>3
<1>6. timer /\ active /\ ~pollDue => Age' <= idleMs + POLL
  BY <1>1, <1>3, <1>4
<1>7. failCount * HOLD \in Nat
  OBVIOUS
<1>8. active /\ pollDue' /\ holder = "login" =>
        Age' <= idleMs + POLL + failCount * HOLD + spent'
  BY <1>1, <1>2, <1>3, <1>6, <1>7
<1> HIDE DEF Age, Phase
<1>9. active /\ holder = "request" => Age' <= spent'
  BY <1>2, <1>3 DEF Age
<1> QED BY <1>1, <1>2, <1>5, <1>6, <1>8, <1>9

LEMMA PromptNext == TypeOK /\ PromptInv /\ [Next]_vars => PromptInv'
<1> SUFFICES ASSUME TypeOK, PromptInv, [Next]_vars PROVE PromptInv'
  OBVIOUS
<1> USE SessionConstants DEF TypeOK, PromptInv, Age, Phase, Free
<1>p. now % POLL \in Nat
  BY PhaseStep
<1>1. CASE LoginStart \/ LoginRejected
  BY <1>1, PromptLoginStart
<1>2. CASE LoginFail
  BY <1>2, PromptLoginFail
<1>3. ASSUME NEW t \in Tokens, LoginOk(t) PROVE PromptInv'
  BY <1>p, <1>3 DEF LoginOk, create
<1>4. ASSUME NEW t \in Tokens, Request(t) PROVE PromptInv'
  <2>1. UNCHANGED <<failCount, lockoutUntil, idleMs, now, spent, pollDue, timer>>
        /\ holder = "none" /\ holder' \in {"none", "request"}
    BY <1>4 DEF Request
  <2>2. CASE active'
    <3>1. lastSeen' = now
      BY <1>4, <2>2 DEF Request, validate, destroy
    <3> QED BY <1>p, <2>1, <2>2, <3>1
  <2>3. CASE ~active'
    <3>1. lastSeen' <= now
      BY <1>4 DEF Request, validate
    <3> QED BY <2>1, <2>3, <3>1
  <2> QED BY <2>2, <2>3
<1>5. ASSUME NEW t \in Tokens, Logout(t) PROVE PromptInv'
  BY <1>5 DEF Logout, destroy
<1>6. ASSUME NEW t \in Tokens, NEW ms \in IdleInputs, SetIdle(t, ms) PROVE PromptInv'
  <2>1. idleMs' \in Nat
    BY <1>6, ClampInRange DEF SetIdle
  <2> QED BY <1>p, <1>6, <2>1 DEF SetIdle
<1>7. CASE Poll
  <2>1. UNCHANGED <<lastSeen, failCount, lockoutUntil, idleMs, now, holder, spent, timer>>
        /\ ~pollDue' /\ holder = "none"
    BY <1>7 DEF Poll
  <2>2. CASE active'
    <3>1. ~Expired
      BY <1>7, <2>2 DEF Poll, destroy
    <3>2. active
      BY <1>7, <2>2, <3>1 DEF Poll
    <3>3. Age <= idleMs
      BY <3>1, <3>2 DEF Expired
    <3> QED BY <1>p, <2>1, <3>3
  <2>3. CASE ~active'
    BY <2>1, <2>3
  <2> QED BY <2>2, <2>3
<1>8. CASE Tick
  BY <1>8, PromptTick
<1>9. CASE Reboot
  <2>1. ~active' /\ lastSeen' = 0 /\ now' = 0 /\ holder' = "none" /\ spent' = 0
    BY <1>9 DEF Reboot
  <2> HIDE DEF Age, Phase, TypeOK
  <2> QED BY <2>1
<1>10. CASE RequestEnd
  BY <1>10 DEF RequestEnd, sessionVars
<1>11. CASE SetupStart
  BY <1>11 DEF SetupStart, sessionVars
<1>12. ASSUME NEW t \in Tokens, SetupOk(t) PROVE PromptInv'
  BY <1>p, <1>12 DEF SetupOk, create
<1>13. CASE UNCHANGED vars
  BY <1>13 DEF vars, sessionVars
<1> QED BY <1>1, <1>2, <1>3, <1>4, <1>5, <1>6, <1>7, <1>8, <1>9, <1>10, <1>11, <1>12,
           <1>13 DEF Next

(***************************************************************************)
(* The idle lock is prompt, for every window, timer period, holding time   *)
(* and number of allowed failures: whoever is at the keyboard can put off  *)
(* the check of an expired session by MAX_FAILS wrong passwords, no more.  *)
(***************************************************************************)
THEOREM IdleLockIsPrompt == Spec => []PromptExpiry
<1>1. Init => PromptInv
  BY SessionConstants DEF Init, PromptInv, Free
<1>2. TypeOK /\ LockInv /\ PromptInv /\ [Next]_vars => PromptInv'
  BY PromptNext
<1>3. TypeOK /\ PromptInv => PromptExpiry
  <2> SUFFICES ASSUME TypeOK, PromptInv, timer, active, Free
               PROVE  Age <= idleMs + POLL + MAX_FAILS * HOLD
    BY DEF PromptExpiry, Age
  <2> USE SessionConstants DEF TypeOK, PromptInv
  <2>1. now % POLL < POLL
    BY PhaseStep
  <2>2. failCount * HOLD <= MAX_FAILS * HOLD /\ MAX_FAILS * HOLD \in Nat
    BY SMTT(30)
  <2> QED BY <2>1, <2>2 DEF Age, Phase
<1> QED BY <1>1, <1>2, <1>3, Invariant, PTL DEF Spec
=============================================================================
