------------------------------ MODULE Session ------------------------------
(***************************************************************************)
(* The login session of components/vault_session, driven the way           *)
(* components/vault_api drives it.  There is one session (a later login    *)
(* replaces the token), an idle window after which it expires, and a       *)
(* lockout after MAX_FAILS wrong passwords.                                *)
(*                                                                         *)
(* Handlers run one at a time on the httpd task.  Those that derive keys   *)
(* with PBKDF2 or write the store hold it for a while: the login, between  *)
(* login_allowed and note_login_result, each of which reads the clock; the *)
(* first-run setup, before it creates a session; and authenticated         *)
(* requests, after validate has read the clock.  The idle timer queues its *)
(* check to the httpd task, so the check waits for them.  Time is          *)
(* esp_timer's, in abstract ticks.                                         *)
(***************************************************************************)
EXTENDS Naturals, Sequences

CONSTANTS
  Tokens, NoToken,                       \* session tokens; an empty token_
  MAX_FAILS, LOCKOUT,                    \* VS_MAX_FAILS, VS_LOCKOUT_MS
  IDLE_MIN, IDLE_DEFAULT, IDLE_MAX,      \* bounds of the idle window
  POLL,                                  \* period of the idle timer
  HOLD,                                  \* the longest a handler holds the task
  IdleInputs,                            \* idle windows found in the store
  MaxTime                                \* bound: the clock stops here

ASSUME SessionConstants ==
  /\ NoToken \notin Tokens
  /\ MAX_FAILS \in Nat \ {0} /\ LOCKOUT \in Nat \ {0}
  /\ IDLE_MIN \in Nat /\ IDLE_DEFAULT \in Nat /\ IDLE_MAX \in Nat
  /\ IDLE_MIN <= IDLE_DEFAULT /\ IDLE_DEFAULT <= IDLE_MAX
  /\ POLL \in Nat \ {0} /\ HOLD \in Nat /\ HOLD <= IDLE_MIN
  /\ IdleInputs \subseteq Nat
  /\ MaxTime \in Nat

VARIABLES
  token, active, lastSeen,      \* token_, active_, last_seen_ms_
  failCount, lockoutUntil,      \* fail_count_, lockout_until_ms_
  idleMs,                       \* idle_ms_
  now,                          \* esp_timer_get_time
  holder,                       \* the handler that holds the task, or "none"
  spent,                        \* ... and for how long it has
  pollDue,                      \* idle_lock_work is queued on the httpd task
  timer,                        \* the idle timer runs: this boot could create it
  fails                         \* history: failed logins since the last success or boot

sessionVars == <<token, active, lastSeen, failCount, lockoutUntil, idleMs>>
vars == <<sessionVars, now, holder, spent, pollDue, timer, fails>>

\* The fail counter stops at the lockout, and the idle window stays in the range
\* of set_idle_ms.
TypeOK ==
  /\ token \in Tokens \cup {NoToken}
  /\ active \in BOOLEAN
  /\ lastSeen \in Nat /\ failCount \in 0 .. MAX_FAILS /\ lockoutUntil \in Nat
  /\ idleMs \in IDLE_MIN .. IDLE_MAX
  /\ now \in Nat
  /\ holder \in {"none", "setup", "login", "request"} /\ spent \in 0 .. HOLD
  /\ pollDue \in BOOLEAN /\ timer \in BOOLEAN
  /\ fails \in Seq(Nat)

(***************************************************************************)
(* The methods of the class.                                               *)
(***************************************************************************)
Clamp(ms) == IF ms < IDLE_MIN THEN IDLE_MIN ELSE IF ms > IDLE_MAX THEN IDLE_MAX ELSE ms

LockedOut == failCount >= MAX_FAILS /\ now < lockoutUntil

\* Mutant (TypeOK): a lockout that has run out leaves fail_count_ as it is.
LoginAllowedNoReset == ~LockedOut /\ UNCHANGED failCount

\* A lockout that has run out is forgotten when the next login asks.
login_allowed ==
  /\ ~LockedOut
  /\ failCount' = IF failCount >= MAX_FAILS THEN 0 ELSE failCount

\* Mutant (LockoutHolds): the lockout runs from the last one's end, not from now.
NoteLoginFromOldEnd(ok) ==
  IF ok THEN failCount' = 0 /\ lockoutUntil' = 0
        ELSE /\ failCount' = failCount + 1
             /\ lockoutUntil' = IF failCount + 1 >= MAX_FAILS THEN lockoutUntil + LOCKOUT
                                                             ELSE lockoutUntil

note_login_result(ok) ==
  IF ok THEN failCount' = 0 /\ lockoutUntil' = 0
        ELSE /\ failCount' = failCount + 1
             /\ lockoutUntil' = IF failCount + 1 >= MAX_FAILS THEN now + LOCKOUT
                                                             ELSE lockoutUntil

create(t) == token' = t /\ active' = TRUE /\ lastSeen' = now

destroy == token' = NoToken /\ active' = FALSE

Free == holder = "none"

Expired == active /\ now - lastSeen > idleMs

Accepts(t) == active /\ ~Expired /\ t = token

\* validate: an expired session is destroyed by whoever asks; a wrong token
\* changes nothing.
validate(t) ==
  \/ /\ Expired
     /\ destroy /\ UNCHANGED lastSeen
  \/ /\ Accepts(t)
     /\ lastSeen' = now /\ UNCHANGED <<token, active>>

(***************************************************************************)
(* The handlers.                                                           *)
(***************************************************************************)
Init ==
  /\ token = NoToken /\ active = FALSE /\ lastSeen = 0
  /\ failCount = 0 /\ lockoutUntil = 0
  /\ idleMs \in {IDLE_DEFAULT} \cup {Clamp(ms) : ms \in IdleInputs}
  /\ now = 0
  /\ holder = "none" /\ spent = 0 /\ pollDue = FALSE /\ timer \in BOOLEAN
  /\ fails = <<>>

\* h_setup.  It goes on only while the vault has not been set up; there is no
\* session then (ApiServer shows why).
SetupStart ==
  /\ Free
  /\ ~active
  /\ holder' = "setup"
  /\ UNCHANGED <<sessionVars, now, spent, pollDue, timer, fails>>

SetupOk(t) ==
  /\ holder = "setup"
  /\ t # token
  /\ create(t)
  /\ holder' = "none" /\ spent' = 0
  /\ UNCHANGED <<failCount, lockoutUntil, idleMs, now, pollDue, timer, fails>>

\* h_login up to the key derivation.  A locked-out client is turned away
\* before anything changes.
LoginStart ==
  /\ Free
  /\ login_allowed
  /\ holder' = "login"
  /\ UNCHANGED <<token, active, lastSeen, lockoutUntil, idleMs, now, spent, pollDue, timer, fails>>

LoginFail ==
  /\ holder = "login"
  /\ note_login_result(FALSE)
  /\ fails' = Append(fails, now)
  /\ holder' = "none" /\ spent' = 0
  /\ UNCHANGED <<token, active, lastSeen, idleMs, now, pollDue, timer>>

LoginOk(t) ==
  /\ holder = "login"
  /\ t # token
  /\ note_login_result(TRUE)
  /\ create(t)
  /\ fails' = <<>>
  /\ holder' = "none" /\ spent' = 0
  /\ UNCHANGED <<idleMs, now, pollDue, timer>>

\* Mutant (LockoutEnds): an attempt during a lockout extends it.
LoginRejectedExtends ==
  /\ Free
  /\ LockedOut
  /\ lockoutUntil' = now + LOCKOUT
  /\ UNCHANGED <<token, active, lastSeen, failCount, idleMs, now, holder, spent, pollDue, timer,
                 fails>>

\* An empty password or an unreadable body is refused before it is counted.  It
\* derives no key, so it is taken to hold the task for no time.
LoginRejected ==
  /\ Free
  /\ login_allowed
  /\ UNCHANGED <<token, active, lastSeen, lockoutUntil, idleMs, now, holder, spent, pollDue, timer,
                 fails>>

\* Any authenticated route with the cookie t; some go on to hold the task.
Request(t) ==
  /\ Free
  /\ validate(t)
  /\ holder' \in IF Accepts(t) THEN {"none", "request"} ELSE {"none"}
  /\ UNCHANGED <<failCount, lockoutUntil, idleMs, now, spent, pollDue, timer, fails>>

\* A request, or a setup that failed, returns without touching the session.
RequestEnd ==
  /\ holder \in {"request", "setup"}
  /\ holder' = "none" /\ spent' = 0
  /\ UNCHANGED <<sessionVars, now, pollDue, timer, fails>>

\* h_idle_set refuses a window out of range before it calls set_idle_ms.
SetIdle(t, ms) ==
  /\ Free
  /\ Accepts(t)
  /\ ms \in IDLE_MIN .. IDLE_MAX
  /\ lastSeen' = now
  /\ idleMs' = Clamp(ms)
  /\ UNCHANGED <<token, active, failCount, lockoutUntil, now, holder, spent, pollDue, timer, fails>>

Logout(t) ==
  /\ Free
  /\ Accepts(t)
  /\ lastSeen' = now
  /\ destroy
  /\ UNCHANGED <<failCount, lockoutUntil, idleMs, now, holder, spent, pollDue, timer, fails>>

\* Mutant (PromptExpiry): the check is left to the next request.
PollLazy ==
  /\ Free /\ pollDue
  /\ pollDue' = FALSE
  /\ UNCHANGED <<sessionVars, now, holder, spent, timer, fails>>

\* idle_lock_work: check_idle on the httpd task.
Poll ==
  /\ Free /\ pollDue
  /\ pollDue' = FALSE
  /\ IF Expired THEN destroy ELSE UNCHANGED <<token, active>>
  /\ UNCHANGED <<lastSeen, failCount, lockoutUntil, idleMs, now, holder, spent, timer, fails>>

\* Queued work runs as soon as the httpd task is free, and no handler
\* holds it longer than HOLD; idle_timer_cb queues the check every POLL ticks,
\* if start() could create its timer.
Tick ==
  /\ now < MaxTime
  /\ ~(Free /\ pollDue)
  /\ ~Free => spent < HOLD
  /\ spent' = IF Free THEN 0 ELSE spent + 1
  /\ now' = now + 1
  /\ pollDue' = (pollDue \/ (timer /\ now' % POLL = 0))
  /\ UNCHANGED <<sessionVars, holder, timer, fails>>

\* All of it is RAM except the idle window, which start() reloads and clamps.
\* esp_timer starts again at zero.
Reboot ==
  /\ token' = NoToken /\ active' = FALSE /\ lastSeen' = 0
  /\ failCount' = 0 /\ lockoutUntil' = 0
  /\ idleMs' \in {IDLE_DEFAULT} \cup {Clamp(ms) : ms \in IdleInputs}
  /\ now' = 0 /\ holder' = "none" /\ spent' = 0 /\ pollDue' = FALSE
  /\ timer' \in BOOLEAN
  /\ fails' = <<>>

Next ==
  \/ SetupStart \/ LoginStart \/ LoginRejected \/ LoginFail \/ RequestEnd
  \/ \E t \in Tokens : SetupOk(t) \/ LoginOk(t) \/ Request(t) \/ Logout(t)
  \/ \E t \in Tokens, ms \in IdleInputs : SetIdle(t, ms)
  \/ Poll \/ Tick \/ Reboot

Spec == Init /\ [][Next]_vars

-----------------------------------------------------------------------------
\* No more than MAX_FAILS wrong passwords are tried in any LOCKOUT ticks: a
\* failure and the MAX_FAILS-th one after it are at least LOCKOUT apart,
\* however logins, derivation times and lockouts interleave.
LockoutHolds ==
  \A i \in 1 .. Len(fails) :
    i + MAX_FAILS <= Len(fails) => fails[i + MAX_FAILS] >= fails[i] + LOCKOUT

\* A lockout lasts LOCKOUT from the failure that caused it: attempts while
\* locked out, even malformed ones, do not extend it.
LockoutEnds == LockedOut => fails # <<>> /\ lockoutUntil <= fails[Len(fails)] + LOCKOUT

\* The idle lock is prompt, where the idle timer runs.  A session outlives its
\* window by at most one timer period plus the logins that can hold the httpd
\* task, and of those the lockout allows only MAX_FAILS in a row.
PromptExpiry ==
  timer /\ active /\ Free => now - lastSeen <= idleMs + POLL + MAX_FAILS * HOLD
=============================================================================
