------------------------------ MODULE StatusLed ------------------------------
(***************************************************************************)
(* The status LED (components/status_led) and the idle lock behind it.     *)
(* The LED's timer callback runs on the esp_timer task and reads the       *)
(* vault, the session and the store with no lock, while the httpd task     *)
(* changes them; its reads are steps of their own here.  The handlers of   *)
(* vault_api are cut down to what the LED can see of them.                 *)
(*                                                                         *)
(* Time goes in periods of the LED timer, and a tick of the clock starts a *)
(* tick of the LED.  The LED compares a 32-bit deadline with the low 32    *)
(* bits of the clock; only their difference, modulo WRAP, matters, and     *)
(* `left' is that difference.  The session's own times are 64 bits wide    *)
(* and are kept as `age', the time since last_seen_ms_.                    *)
(***************************************************************************)
EXTENDS Integers

CONSTANTS
  WRAP,          \* 2^32 milliseconds
  ACT,           \* ACT_MS
  LVL, G_MIN,    \* brightest and darkest green
  Windows,       \* idle windows that may be set
  POLL           \* period of the idle timer

HALF == WRAP \div 2

ASSUME LedConstants ==
  /\ WRAP \in Nat \ {0} /\ WRAP % 2 = 0 /\ ACT \in 1 .. HALF - 1
  /\ LVL \in Nat /\ G_MIN \in 1 .. LVL
  /\ Windows \subseteq Nat \ {0}
  /\ \E w \in Windows : \A v \in Windows : v <= w
  /\ POLL \in Nat \ {0}

Widest == CHOOSE w \in Windows : \A v \in Windows : v <= w

\* How long the deadline stays good: after that the difference changes sign.
QUIET == HALF + ACT

VARIABLES
  initialized, unlocked, deriving,  \* wdek is stored; unlocked_; deriving_
  active, age, idleMs,              \* the session
  handler,                          \* the handler under way and how far it is
  poll, pollDue,                    \* the idle timer, 0 if this boot could not create it;
                                    \* idle_lock_work is queued
  left,                             \* activity_until_ - now, modulo WRAP
  sinceAct,                         \* history: time since the last /api request
  pc, win, raced,                   \* the LED's tick; win; the session moved under it
  last, glevel, blink,              \* last_, glevel_, blink_
  rgb,                              \* what the LED shows
  why                               \* history: what was true during the LED's tick

vaultVars   == <<initialized, unlocked, deriving>>
sessionVars == <<active, age, idleMs>>
ledVars     == <<last, glevel, blink, rgb>>
timeVars    == <<poll, left, sinceAct>>
vars == <<vaultVars, sessionVars, handler, pollDue, timeVars, pc, win, raced, ledVars, why>>

Green(g) == <<"green", g>>
Blue == <<"blue", LVL>>
Red  == <<"red", LVL>>
Off  == <<"off", 0>>

Reasons == {"setup", "locked", "open", "busy", "pulse", "quiet"}

\* The green stays between G_MIN and LVL.
TypeOK ==
  /\ initialized \in BOOLEAN /\ unlocked \in BOOLEAN /\ deriving \in BOOLEAN
  /\ active \in BOOLEAN /\ age \in 0 .. Widest + 1 /\ idleMs \in Windows
  /\ handler \in {"none", "setup", "login", "derived", "opened", "undo", "lock", "request"}
  /\ poll \in 0 .. POLL /\ pollDue \in BOOLEAN
  /\ left \in 0 .. WRAP - 1 /\ sinceAct \in 0 .. QUIET + 1
  /\ pc \in {"rest", "busy", "pulse", "init", "unlocked", "green", "level"}
  /\ win \in Windows \cup {0} /\ raced \in BOOLEAN
  /\ last \in -1 .. 2 /\ glevel \in 0 .. LVL /\ blink \in BOOLEAN
  /\ rgb \in {Blue, Red, Off} \cup {Green(g) : g \in G_MIN .. LVL}
  /\ why \subseteq Reasons

(***************************************************************************)
(* What is true of the device; the LED's task is to show it.               *)
(***************************************************************************)
Reason(r) == CASE r = "setup"  -> ~initialized
               [] r = "locked" -> initialized /\ ~unlocked
               [] r = "open"   -> unlocked
               [] r = "busy"   -> deriving
               [] r = "pulse"  -> sinceAct < ACT
               [] r = "quiet"  -> sinceAct > QUIET

Facts == {r \in Reasons : Reason(r)}

Init ==
  /\ initialized \in BOOLEAN /\ unlocked = FALSE /\ deriving = FALSE
  /\ active = FALSE /\ age = 0 /\ idleMs \in Windows
  /\ handler = "none" /\ poll \in {0, POLL} /\ pollDue = FALSE
  /\ left = 0 /\ sinceAct = ACT
  /\ pc = "rest" /\ win = 0 /\ raced = FALSE
  /\ glevel = 0 /\ blink = FALSE
  \* init() has run one tick before anything is served; a store error in it
  \* is swallowed.
  /\ \/ last = -1 /\ rgb = Off /\ why = Reasons
     \/ /\ last = IF initialized THEN 1 ELSE 0
        /\ rgb  = IF initialized THEN Red ELSE Blue
        /\ why  = Facts

(***************************************************************************)
(* The httpd task.  Whatever matches an /api route stamps the deadline     *)
(* before its handler runs.                                                *)
(***************************************************************************)
Free == handler = "none"

\* Mutant (PulseShown): the deadline is the time of the request.
ActivityNow == left' = 0 /\ sinceAct' = 0 /\ UNCHANGED poll

activity == left' = ACT /\ sinceAct' = 0 /\ UNCHANGED poll

Expired == active /\ age > idleMs

\* The session is changed; if the LED is at its reads of the clock and the
\* session, it may see a part of the change.
Moved == raced' = (raced \/ pc \in {"green", "level"})

\* last_seen_ms_ := now.
Seen == age' = 0 /\ Moved

\* Without a session nothing looks at last_seen_ms_.
destroy == active' = FALSE /\ age' = 0 /\ Moved

\* Requests that change nothing: refused, unauthenticated, no such route.
Ignored ==
  /\ Free
  /\ activity
  /\ UNCHANGED <<vaultVars, sessionVars, handler, pollDue, pc, win, raced, ledVars>>

\* Any authenticated request that finds the session alive.
Request ==
  /\ Free /\ active /\ ~Expired
  /\ activity /\ Seen
  /\ handler' \in {"none", "request"}
  /\ UNCHANGED <<vaultVars, active, idleMs, pollDue, pc, win, ledVars>>

RequestEnd ==
  /\ handler = "request"
  /\ handler' = "none"
  /\ UNCHANGED <<vaultVars, sessionVars, pollDue, timeVars, pc, win, raced, ledVars>>

SetIdle(w) ==
  /\ Free /\ active /\ ~Expired
  /\ activity /\ Seen
  /\ idleMs' = w
  /\ UNCHANGED <<vaultVars, active, handler, pollDue, pc, win, ledVars>>

\* h_logout, and authed() that finds the session expired: the session goes
\* first, the vault is locked next.
SessionOver ==
  /\ Free /\ active
  /\ activity
  /\ destroy
  /\ handler' = "lock"
  /\ UNCHANGED <<vaultVars, idleMs, pollDue, pc, win, ledVars>>

\* Mutant (AutoLocks): the session expires and nothing locks the vault.
LockForgotten ==
  /\ handler = "lock"
  /\ handler' = "none"
  /\ UNCHANGED <<vaultVars, sessionVars, pollDue, timeVars, pc, win, raced, ledVars>>

Lock ==
  /\ handler = "lock"
  /\ unlocked' = FALSE
  /\ handler' = "none"
  /\ UNCHANGED <<initialized, deriving, sessionVars, pollDue, timeVars, pc, win, raced, ledVars>>

\* h_login.  The key derivation is flagged as busy.  A right password opens the
\* vault, then the session is created; tables that do not load close it again.
LoginStart ==
  /\ Free /\ initialized
  /\ activity
  /\ deriving' = TRUE /\ handler' = "login"
  /\ UNCHANGED <<initialized, unlocked, sessionVars, pollDue, pc, win, raced, ledVars>>

LoginDerived ==
  /\ handler = "login"
  /\ deriving' = FALSE /\ handler' = "derived"
  /\ UNCHANGED <<initialized, unlocked, sessionVars, pollDue, timeVars, pc, win, raced, ledVars>>

LoginUnwrap ==
  /\ handler = "derived"
  /\ \/ handler' = "none" /\ UNCHANGED unlocked
     \/ handler' \in {"opened", "lock"} /\ unlocked' = TRUE
  /\ UNCHANGED <<initialized, deriving, sessionVars, pollDue, timeVars, pc, win, raced, ledVars>>

Create ==
  /\ handler = "opened"
  /\ active' = TRUE /\ Seen
  /\ handler' = "none"
  /\ UNCHANGED <<vaultVars, idleMs, pollDue, timeVars, pc, win, ledVars>>

\* h_setup: a key derivation that is not flagged as busy, then the wrapped DEK
\* is stored, the vault opened, and, if the transfer password cannot be stored,
\* the vault reset: locked first, then erased.  A store error before the vault
\* is open ends it early; one after that (setup_open) is left out here.
SetupStart ==
  /\ Free /\ ~initialized
  /\ activity
  /\ handler' = "setup"
  /\ UNCHANGED <<vaultVars, sessionVars, pollDue, pc, win, raced, ledVars>>

SetupWrite ==
  /\ handler = "setup" /\ ~initialized
  /\ \/ initialized' = TRUE /\ handler' \in {"setup", "none"}
     \/ handler' = "none" /\ UNCHANGED initialized
  /\ UNCHANGED <<unlocked, deriving, sessionVars, pollDue, timeVars, pc, win, raced, ledVars>>

SetupOpen ==
  /\ handler = "setup" /\ initialized /\ ~unlocked
  /\ unlocked' = TRUE
  /\ UNCHANGED <<initialized, deriving, sessionVars, handler, pollDue, timeVars, pc, win, raced,
                 ledVars>>

\* Mutant (ColourWasTrue): the reset erases first and locks when it is done.
SetupEraseFirst ==
  /\ handler = "setup" /\ unlocked
  /\ \/ handler' = "opened" /\ UNCHANGED initialized
     \/ handler' = "lock" /\ initialized' = FALSE
  /\ UNCHANGED <<unlocked, deriving, sessionVars, pollDue, timeVars, pc, win, raced, ledVars>>

SetupEnd ==
  /\ handler = "setup" /\ unlocked
  /\ \/ handler' = "opened" /\ UNCHANGED unlocked
     \/ handler' = "undo" /\ unlocked' = FALSE
  /\ UNCHANGED <<initialized, deriving, sessionVars, pollDue, timeVars, pc, win, raced, ledVars>>

SetupErase ==
  /\ handler = "undo"
  /\ initialized' = FALSE
  /\ handler' = "none"
  /\ UNCHANGED <<unlocked, deriving, sessionVars, pollDue, timeVars, pc, win, raced, ledVars>>

\* idle_lock_work, queued to this task by the idle timer.
Poll ==
  /\ Free /\ pollDue
  /\ pollDue' = FALSE
  /\ IF Expired THEN destroy /\ handler' = "lock"
                ELSE UNCHANGED <<active, age, handler, raced>>
  /\ UNCHANGED <<vaultVars, idleMs, timeVars, pc, win, ledVars>>

(***************************************************************************)
(* The esp_timer task: the clock, and the tick of the LED.                 *)
(***************************************************************************)
Clock ==
  /\ pc = "rest"
  /\ left' = (left + WRAP - 1) % WRAP
  /\ sinceAct' = IF sinceAct > QUIET THEN sinceAct ELSE sinceAct + 1
  /\ age' = IF active /\ age <= Widest THEN age + 1 ELSE age
  /\ poll' = IF poll = 0 THEN 0 ELSE IF poll = 1 THEN POLL ELSE poll - 1
  /\ pollDue' = (pollDue \/ poll = 1)
  /\ pc' = "busy"
  /\ UNCHANGED <<vaultVars, active, idleMs, handler, win, raced, ledVars>>

\* A step of the tick touches only the LED's own variables.
Tick(at, next) == /\ pc = at /\ pc' = next
                  /\ UNCHANGED <<vaultVars, sessionVars, handler, pollDue, timeVars>>

\* set_rgb.  That the strip may fail to take the colour is left out.
Show(c) == rgb' = c

\* is_busy: blink, and redraw when it is over.
TickBusy ==
  \/ /\ deriving
     /\ Tick("busy", "rest")
     /\ blink' = ~blink /\ Show(IF blink THEN Off ELSE Red) /\ last' = -1
     /\ UNCHANGED <<glevel, win, raced>>
  \/ /\ ~deriving
     /\ Tick("busy", "pulse")
     /\ UNCHANGED <<ledVars, win, raced>>

\* (int32_t)(activity_until_ - now) > 0
Pulsing == 0 < left /\ left < HALF

TickPulse ==
  \/ /\ Pulsing
     /\ Tick("pulse", "rest")
     /\ Show(Blue) /\ last' = -1
     /\ UNCHANGED <<glevel, blink, win, raced>>
  \/ /\ ~Pulsing
     /\ Tick("pulse", "init")
     /\ UNCHANGED <<ledVars, win, raced>>

\* Mutant (LockShown): the colour is cached before the LED is written.
DrawCached(code) == /\ last' = code
                    /\ IF code = last' THEN UNCHANGED rgb ELSE Show(IF code = 0 THEN Blue ELSE Red)
                    /\ UNCHANGED <<glevel, blink, win, raced>>

\* draw, unless this is what was drawn last.
Draw(code) == /\ last' = code
              /\ IF code = last THEN UNCHANGED rgb ELSE Show(IF code = 0 THEN Blue ELSE Red)
              /\ UNCHANGED <<glevel, blink, win, raced>>

\* is_initialized reads the store; its exception ends the tick.
TickInit ==
  \/ ~initialized /\ Tick("init", "rest") /\ Draw(0)
  \/ initialized /\ Tick("init", "unlocked") /\ UNCHANGED <<ledVars, win, raced>>

TickFault == Tick("init", "rest") /\ UNCHANGED <<ledVars, win, raced>>

TickUnlocked ==
  \/ ~unlocked /\ Tick("unlocked", "rest") /\ Draw(1)
  \/ unlocked /\ Tick("unlocked", "green") /\ UNCHANGED <<ledVars, win, raced>>

\* green_level reads the clock and the window, then the session.
TickWindow ==
  /\ Tick("green", "level")
  /\ win' = idleMs
  /\ UNCHANGED <<ledVars, raced>>

\* idle_remaining_ms reads active_, last_seen_ms_ and twice idle_ms_, with no
\* lock.  If none of them moves its reads are as good as one; if one does, an
\* unsigned difference may wrap and anything come out (Widest + 1 stands for
\* whatever is cut to the window).
Remaining == IF raced THEN 0 .. Widest + 1
             ELSE IF ~active \/ age >= idleMs THEN {0} ELSE {idleMs - age}

\* Mutant (TypeOK): the remaining time is not cut to the window read before.
GreenUncut(rem) == G_MIN + (rem * (LVL - G_MIN)) \div win

GreenLevel(rem) == G_MIN + ((IF rem > win THEN win ELSE rem) * (LVL - G_MIN)) \div win

TickLevel ==
  /\ Tick("level", "rest")
  /\ \E rem \in Remaining :
       LET g == GreenLevel(rem) IN
         IF last = 2 /\ g = glevel
           THEN UNCHANGED <<last, glevel, rgb>>
           ELSE Show(Green(g)) /\ last' = 2 /\ glevel' = g
  /\ win' = 0 /\ raced' = FALSE
  /\ UNCHANGED blink

LedStep == TickBusy \/ TickPulse \/ TickInit \/ TickUnlocked \/ TickWindow \/ TickLevel

HandlerStep == \/ RequestEnd \/ Lock \/ LoginDerived \/ LoginUnwrap \/ Create
               \/ SetupWrite \/ SetupOpen \/ SetupEnd \/ SetupErase

Arrival == \/ Ignored \/ Request \/ SessionOver \/ LoginStart \/ SetupStart
           \/ \E w \in Windows : SetIdle(w)

(***************************************************************************)
(* `why' collects what was true at some moment of the tick that is under   *)
(* way, or of the last one; after a tick that failed nothing is claimed.   *)
(***************************************************************************)
Observe == why' = IF pc # "rest" THEN why \cup Facts' ELSE IF pc' # "rest" THEN Facts' ELSE why

Seeing(A) == A /\ Observe

Next == \/ Seeing(Arrival) \/ Seeing(HandlerStep) \/ Seeing(Poll)
        \/ Seeing(Clock) \/ Seeing(LedStep)
        \/ TickFault /\ why' = Reasons

\* The clock runs and its task finishes a tick it has begun; handlers return;
\* the httpd server looks at its work queue in every round, so queued work is
\* not starved by requests; the store does not fail for ever.
Fairness ==
  /\ WF_vars(Seeing(Clock)) /\ WF_vars(Seeing(LedStep)) /\ WF_vars(Seeing(HandlerStep))
  /\ SF_vars(Seeing(Poll)) /\ SF_vars(Seeing(TickInit))

Spec == Init /\ [][Next]_vars /\ Fairness

-----------------------------------------------------------------------------
(***************************************************************************)
(* Properties.                                                             *)
(***************************************************************************)
Meanings(hue) == CASE hue = "blue"  -> {"setup", "pulse", "quiet"}
                   [] hue = "red"   -> {"locked", "busy"}
                   [] hue = "green" -> {"open"}
                   [] hue = "off"   -> {"busy"}

\* What the LED shows was true at some moment of its last tick, although the
\* tick reads vault, session and store one after the other and skips a redraw
\* when it thinks nothing changed.  Half a turn of the 32-bit clock without an
\* /api request is excepted: then the LED may be blue for no reason.
ColourWasTrue == pc = "rest" => Meanings(rgb[1]) \cap why # {}

\* Blue means there is no vault yet, or a request just now, however long ago the
\* last request was.
BlueIsHonest == pc = "rest" /\ rgb = Blue => {"setup", "pulse"} \cap why # {}

\* The vault locks by itself: where the idle timer runs, an open vault whose
\* user has gone away is eventually locked, whatever else is asked of the
\* server.  (Where it could not be created the code says so, and locks lazily.)
AutoLocks == poll > 0 /\ unlocked ~> ~unlocked \/ (active /\ age = 0)

\* The LED follows without any call from the handlers: a locked vault is
\* eventually shown red unless requests keep coming.
LockShown == initialized /\ ~unlocked ~> \/ rgb = Red \/ unlocked \/ ~initialized
                                         \/ sinceAct = 0

\* Every request is seen on the LED, unless a key is being derived.
PulseShown == sinceAct = 0 ~> rgb = Blue \/ deriving

\* A handler that keeps the server busy cannot suppress the pulse.
PulseAlwaysShown == sinceAct = 0 ~> rgb = Blue
=============================================================================
