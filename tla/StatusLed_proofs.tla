-------------------------- MODULE StatusLed_proofs --------------------------
(***************************************************************************)
(* Safety of the status LED, for every width of its clock, every set of    *)
(* idle windows and every brightness.                                      *)
(***************************************************************************)
EXTENDS StatusLed, TLAPS

LEMMA Constant ==
  /\ WRAP \in Nat /\ HALF \in Nat /\ WRAP = 2 * HALF /\ ACT \in Nat /\ ACT >= 1 /\ ACT < HALF
  /\ QUIET = HALF + ACT
  /\ LVL \in Nat /\ G_MIN \in Nat /\ G_MIN >= 1 /\ G_MIN <= LVL
  /\ POLL \in Nat /\ POLL >= 1
  BY LedConstants DEF HALF, QUIET

LEMMA WidestBounds == Widest \in Windows /\ Widest \in Nat /\ \A v \in Windows : v \in Nat /\ v >= 1 /\ v <= Widest
<1>1. PICK w \in Windows : \A v \in Windows : v <= w
  BY LedConstants
<1>2. Widest \in Windows /\ \A v \in Windows : v <= Widest
  BY <1>1 DEF Widest
<1> QED BY <1>2, LedConstants

\* The green never leaves its range: what remains is cut to the window.
LEMMA GreenInRange ==
  ASSUME NEW w \in Nat, w >= 1, NEW cut \in Nat, cut <= w, NEW d \in Nat
  PROVE  (cut * d) \div w \in 0 .. d
<1>1. cut \in Nat /\ cut <= w
  OBVIOUS
<1>2. cut * d \in Nat /\ cut * d <= w * d
  BY <1>1
<1> DEFINE q == (cut * d) \div w
<1>3. q \in Nat /\ w * q <= cut * d
  BY <1>2
<1>4. w * q <= w * d
  BY <1>2, <1>3
<1>5. q <= d
  BY <1>3, <1>4
<1> QED BY <1>3, <1>5

\* green_level never divides by zero: it has read the window before the session.
WindowRead == pc = "level" => win # 0

LEMMA WindowReadNext == TypeOK /\ WindowRead /\ [Next]_vars => WindowRead'
<1> SUFFICES ASSUME TypeOK, WindowRead, [Next]_vars PROVE WindowRead'
  OBVIOUS
<1> USE DEF WindowRead, ledVars
<1>1. CASE Arrival
  BY <1>1 DEF Arrival, Ignored, Request, SessionOver, LoginStart, SetupStart, SetIdle
<1>2. CASE HandlerStep
  BY <1>2 DEF HandlerStep, RequestEnd, Lock, LoginDerived, LoginUnwrap, Create, SetupWrite, SetupOpen, SetupEnd, SetupErase
<1>3. CASE Poll \/ Clock
  BY <1>3 DEF Poll, Clock
<1>4. CASE TickBusy \/ TickPulse \/ TickInit \/ TickUnlocked \/ TickLevel \/ TickFault
  BY <1>4 DEF TickBusy, TickPulse, TickInit, TickUnlocked, TickLevel, TickFault, Tick
<1>5. CASE TickWindow
  BY <1>5, WidestBounds DEF TickWindow, TypeOK
<1>6. CASE UNCHANGED vars
  BY <1>6 DEF vars
<1> QED BY <1>1, <1>2, <1>3, <1>4, <1>5, <1>6 DEF Next, Seeing, LedStep

LEMMA HeldStep ==
  ASSUME TypeOK, [Next]_vars PROVE why' \subseteq Reasons
<1>1. Facts' \subseteq Reasons
  BY DEF Facts
<1> QED BY <1>1 DEF TypeOK, Next, Seeing, Observe, vars

LEMMA InitTyped == Init => TypeOK
<1> SUFFICES ASSUME Init PROVE TypeOK
  OBVIOUS
<1>1. why \subseteq Reasons
  BY DEF Init, Facts
<1>2. last \in -1 .. 2 /\ rgb \in {Blue, Red, Off}
  BY DEF Init
<1>3. POLL \in 0 .. POLL /\ 0 \in 0 .. POLL /\ 0 \in 0 .. WRAP - 1 /\ ACT \in 0 .. QUIET + 1 /\ 0 \in 0 .. LVL
  BY Constant, LedConstants
<1>4. 0 \in 0 .. Widest + 1
  BY WidestBounds
<1>5. unlocked \in BOOLEAN /\ deriving \in BOOLEAN /\ active \in BOOLEAN /\ pollDue \in BOOLEAN
      /\ raced \in BOOLEAN /\ blink \in BOOLEAN /\ initialized \in BOOLEAN
  BY DEF Init
<1> QED BY <1>1, <1>2, <1>3, <1>4, <1>5 DEF Init, TypeOK

\* The handlers leave the LED alone.
LEMMA LedAlone ==
  ASSUME Arrival \/ HandlerStep \/ Poll PROVE UNCHANGED <<ledVars, pc>>
<1>1. CASE Arrival
  BY <1>1 DEF Arrival, Ignored, Request, SessionOver, LoginStart, SetupStart, SetIdle
<1>2. CASE HandlerStep
  BY <1>2 DEF HandlerStep, RequestEnd, Lock, LoginDerived, LoginUnwrap, Create, SetupWrite, SetupOpen, SetupEnd, SetupErase
<1>3. CASE Poll
  BY <1>3 DEF Poll
<1> QED BY <1>1, <1>2, <1>3

(***************************************************************************)
(* One lemma for each of the two tasks.                                    *)
(***************************************************************************)
\* The part of TypeOK that is the LED's own.
LedTypes ==
  /\ pc \in {"rest", "busy", "pulse", "init", "unlocked", "green", "level"}
  /\ last \in -1 .. 2 /\ glevel \in 0 .. LVL /\ blink \in BOOLEAN
  /\ rgb \in {Blue, Red, Off} \cup {Green(g) : g \in G_MIN .. LVL}
  /\ why \subseteq Reasons

\* And the rest of it, the server's and the clock's.
ServerTypes ==
  /\ initialized \in BOOLEAN /\ unlocked \in BOOLEAN /\ deriving \in BOOLEAN
  /\ active \in BOOLEAN /\ age \in 0 .. Widest + 1 /\ idleMs \in Windows
  /\ handler \in {"none", "setup", "login", "derived", "opened", "undo", "lock", "request"}
  /\ poll \in 0 .. POLL /\ pollDue \in BOOLEAN
  /\ left \in 0 .. WRAP - 1 /\ sinceAct \in 0 .. QUIET + 1
  /\ win \in Windows \cup {0} /\ raced \in BOOLEAN

LEMMA ServerTyped ==
  ASSUME TypeOK, Arrival \/ HandlerStep \/ Poll, why' \subseteq Reasons
  PROVE  TypeOK'
<1>1. ServerTypes /\ LedTypes
  BY DEF TypeOK, ServerTypes, LedTypes
<1>2. LedTypes'
  BY <1>1, LedAlone DEF LedTypes, ledVars, Blue, Red, Off, Green
<1>3. ACT \in 0 .. WRAP - 1 /\ 0 \in 0 .. QUIET + 1 /\ 0 \in 0 .. Widest + 1
  BY Constant, WidestBounds
<1>4. ServerTypes'
  <2> USE <1>1, <1>3 DEF ServerTypes, vaultVars, sessionVars, timeVars
  <2>2. CASE Ignored
    BY <2>2 DEF Ignored, activity
  <2>3. CASE Request
    BY <2>3 DEF Request, activity, Seen, Moved
  <2>4. CASE SessionOver
    BY <2>4 DEF SessionOver, activity, destroy, Moved
  <2>5. CASE LoginStart
    BY <2>5 DEF LoginStart, activity
  <2>6. CASE SetupStart
    BY <2>6 DEF SetupStart, activity
  <2>7. ASSUME NEW w \in Windows, SetIdle(w) PROVE ServerTypes'
    BY <2>7 DEF SetIdle, activity, Seen, Moved
  <2>8. CASE RequestEnd
    BY <2>8 DEF RequestEnd
  <2>9. CASE Lock
    BY <2>9 DEF Lock
  <2>10. CASE LoginDerived
    BY <2>10 DEF LoginDerived
  <2>11. CASE Create
    BY <2>11 DEF Create, Seen, Moved
  <2>12. CASE LoginUnwrap
    BY <2>12 DEF LoginUnwrap
  <2>13. CASE SetupWrite
    BY <2>13 DEF SetupWrite
  <2>14. CASE SetupOpen
    BY <2>14 DEF SetupOpen
  <2>15. CASE SetupEnd
    BY <2>15 DEF SetupEnd
  <2>16. CASE SetupErase
    BY <2>16 DEF SetupErase
  <2>17. CASE Poll
    <3>1. /\ active' \in BOOLEAN /\ handler' \in {"none", "lock"} /\ age' \in 0 .. Widest + 1
          /\ raced' \in BOOLEAN
      BY <2>17 DEF Poll, destroy, Moved, Free
    <3> QED BY <2>17, <3>1 DEF Poll
  <2> QED BY <2>2, <2>3, <2>4, <2>5, <2>6, <2>7, <2>8, <2>9, <2>10, <2>11, <2>12, <2>13, <2>14,
             <2>15, <2>16, <2>17 DEF Arrival, HandlerStep
<1> QED BY <1>2, <1>4 DEF TypeOK, ServerTypes, LedTypes

LEMMA TimerTyped ==
  ASSUME TypeOK, WindowRead, Clock \/ LedStep \/ TickFault, why' \subseteq Reasons
  PROVE  TypeOK'
<1> USE Constant, WidestBounds
        DEF TypeOK, vaultVars, sessionVars, ledVars, timeVars, Tick, Show, Draw
<1>1. CASE Clock
  <2>1. (left + WRAP - 1) % WRAP \in 0 .. WRAP - 1
    OBVIOUS
  <2>2. sinceAct' \in 0 .. QUIET + 1 /\ age' \in 0 .. Widest + 1
    BY <1>1 DEF Clock
  <2>3. poll' \in 0 .. POLL /\ pollDue' \in BOOLEAN
    BY <1>1 DEF Clock
  <2> QED BY <1>1, <2>1, <2>2, <2>3 DEF Clock
<1>2. CASE TickBusy
  <2>1. blink' \in BOOLEAN
    BY <1>2 DEF TickBusy
  <2>2. rgb' \in {Red, Off, rgb} /\ last' \in {-1, last} /\ pc' \in {"rest", "pulse"}
    BY <1>2 DEF TickBusy
  <2>3. UNCHANGED <<vaultVars, sessionVars, handler, pollDue, timeVars, glevel, win, raced>>
    BY <1>2 DEF TickBusy
  <2> QED BY <2>1, <2>2, <2>3
<1>3. CASE TickPulse
  BY <1>3 DEF TickPulse
<1>4. CASE TickInit \/ TickFault
  BY <1>4 DEF TickInit, TickFault
<1>5. CASE TickUnlocked
  BY <1>5 DEF TickUnlocked
<1>6. CASE TickWindow
  BY <1>6 DEF TickWindow
<1>7. CASE TickLevel
  <2>1. PICK rem \in Remaining :
          LET g == GreenLevel(rem) IN
            IF last = 2 /\ g = glevel THEN UNCHANGED <<last, glevel, rgb>>
                                     ELSE Show(Green(g)) /\ last' = 2 /\ glevel' = g
    BY <1>7 DEF TickLevel
  <2>2. rem \in Nat
    BY <2>1 DEF Remaining
  <2>3. GreenLevel(rem) \in G_MIN .. LVL
    <3> DEFINE cut == IF rem > win THEN win ELSE rem
               d   == LVL - G_MIN
    <3>1. win \in Nat /\ win >= 1 /\ cut \in Nat /\ cut <= win /\ d \in Nat
      BY <1>7, <2>2 DEF TickLevel, Tick, WindowRead
    <3>2. GreenLevel(rem) = G_MIN + (cut * d) \div win
      BY DEF GreenLevel
    <3> HIDE DEF cut, d
    <3>3. (cut * d) \div win \in 0 .. d
      BY <3>1, GreenInRange
    <3> QED BY <3>2, <3>3 DEF d
  <2>4. /\ rgb' \in {Blue, Red, Off} \cup {Green(g) : g \in G_MIN .. LVL}
        /\ last' \in -1 .. 2 /\ glevel' \in 0 .. LVL
    <3>1. CASE UNCHANGED <<last, glevel, rgb>>
      BY <3>1
    <3>2. CASE rgb' = Green(GreenLevel(rem)) /\ last' = 2 /\ glevel' = GreenLevel(rem)
      BY <2>3, <3>2
    <3> QED BY <2>1, <3>1, <3>2
  <2>5. /\ UNCHANGED <<vaultVars, sessionVars, handler, pollDue, timeVars, blink>>
        /\ pc' = "rest" /\ win' = 0 /\ raced' = FALSE
    BY <1>7 DEF TickLevel
  <2>6. /\ initialized' \in BOOLEAN /\ unlocked' \in BOOLEAN /\ deriving' \in BOOLEAN
        /\ active' \in BOOLEAN /\ pollDue' \in BOOLEAN /\ raced' \in BOOLEAN /\ blink' \in BOOLEAN
    BY <2>5
  <2> QED BY <2>4, <2>5, <2>6
<1> QED BY <1>1, <1>2, <1>3, <1>4, <1>5, <1>6, <1>7 DEF LedStep

LEMMA NextTyped == TypeOK /\ WindowRead /\ [Next]_vars => TypeOK'
<1> SUFFICES ASSUME TypeOK, WindowRead, [Next]_vars PROVE TypeOK'
  OBVIOUS
<1>1. why' \subseteq Reasons
  BY HeldStep
<1>2. CASE UNCHANGED vars
  BY <1>2 DEF vars, TypeOK, vaultVars, sessionVars, ledVars, timeVars
<1> QED BY <1>1, <1>2, ServerTyped, TimerTyped DEF Next, Seeing

LEMMA LedKeeps == Spec => [](TypeOK /\ WindowRead)
<1>1. Init => TypeOK /\ WindowRead
  BY InitTyped DEF Init, WindowRead
<1>2. TypeOK /\ WindowRead /\ [Next]_vars => (TypeOK /\ WindowRead)'
  BY NextTyped, WindowReadNext
<1> QED BY <1>1, <1>2, PTL DEF Spec

(***************************************************************************)
(* The types, and with them the brightness: however the reads of the tick  *)
(* and the handlers interleave, the green stays within its range.          *)
(***************************************************************************)
THEOREM LedTyped == Spec => []TypeOK
  BY LedKeeps, PTL
-----------------------------------------------------------------------------
(***************************************************************************)
(* The LED's tick reads the vault in several steps, and a handler may move *)
(* between them; what it then shows was nevertheless true during the tick. *)
(* Three things make it so.  The handlers change the vault in an order in  *)
(* which no combination of an old and a new read is a state that never was *)
(* (VaultInv: a reset locks before it erases).  The deadline's sign is     *)
(* that of the time since the last request for half a turn of the clock    *)
(* (DeadlineInv).  And a colour that is not redrawn is still on (CacheInv).*)
(***************************************************************************)
VaultInv ==
  /\ unlocked => initialized
  /\ handler \in {"login", "derived"} => initialized
  /\ handler = "undo" => initialized /\ ~unlocked

DeadlineInv ==
  /\ sinceAct <= ACT => left = ACT - sinceAct
  /\ ACT < sinceAct /\ sinceAct <= QUIET => left = WRAP + ACT - sinceAct

CacheInv ==
  /\ last = 0 => rgb = Blue
  /\ last = 1 => rgb = Red
  /\ last = 2 => rgb[1] = "green"

\* `why' is up to date during a tick, and holds what the tick has read so far.
TickInv ==
  /\ pc # "rest" => Facts \subseteq why
  /\ pc = "unlocked" => initialized \/ "locked" \in why
  /\ pc \in {"green", "level"} => "open" \in why

ColourInv == VaultInv /\ DeadlineInv /\ CacheInv /\ TickInv /\ ColourWasTrue

LEMMA FactsMeaning ==
  /\ "setup"  \in Facts <=> ~initialized
  /\ "locked" \in Facts <=> initialized /\ ~unlocked
  /\ "open"   \in Facts <=> unlocked
  /\ "busy"   \in Facts <=> deriving
  /\ "pulse"  \in Facts <=> sinceAct < ACT
  /\ "quiet"  \in Facts <=> sinceAct > QUIET
  BY DEF Facts, Reason, Reasons

LEMMA FactsMeaningNext ==
  /\ "setup"  \in Facts' <=> ~initialized'
  /\ "locked" \in Facts' <=> initialized' /\ ~unlocked'
  /\ "open"   \in Facts' <=> unlocked'
  /\ "busy"   \in Facts' <=> deriving'
  /\ "pulse"  \in Facts' <=> sinceAct' < ACT
  /\ "quiet"  \in Facts' <=> sinceAct' > QUIET
  BY DEF Facts, Reason, Reasons

LEMMA VaultInvNext == TypeOK /\ VaultInv /\ [Next]_vars => VaultInv'
<1> SUFFICES ASSUME TypeOK, VaultInv, [Next]_vars PROVE VaultInv'
  OBVIOUS
<1> USE DEF VaultInv, vaultVars
<1>1. CASE Arrival
  BY <1>1 DEF Arrival, Ignored, Request, SessionOver, LoginStart, SetupStart, SetIdle, Free
<1>2. CASE HandlerStep
  BY <1>2 DEF HandlerStep, RequestEnd, Lock, LoginDerived, LoginUnwrap, Create, SetupWrite, SetupOpen, SetupEnd, SetupErase
<1>3. CASE Poll \/ Clock
  BY <1>3 DEF Poll, Clock, Free
<1>4. CASE LedStep \/ TickFault
  BY <1>4 DEF LedStep, TickBusy, TickPulse, TickInit, TickUnlocked, TickWindow, TickLevel,
              TickFault, Tick
<1>5. CASE UNCHANGED vars
  BY <1>5 DEF vars
<1> QED BY <1>1, <1>2, <1>3, <1>4, <1>5 DEF Next, Seeing

LEMMA DeadlineInvNext == TypeOK /\ DeadlineInv /\ [Next]_vars => DeadlineInv'
<1> SUFFICES ASSUME TypeOK, DeadlineInv, [Next]_vars PROVE DeadlineInv'
  OBVIOUS
<1> USE Constant DEF DeadlineInv, timeVars, activity
<1>1. CASE Arrival
  BY <1>1 DEF Arrival, Ignored, Request, SessionOver, LoginStart, SetupStart, SetIdle
<1>2. CASE HandlerStep
  BY <1>2 DEF HandlerStep, RequestEnd, Lock, LoginDerived, LoginUnwrap, Create, SetupWrite, SetupOpen, SetupEnd, SetupErase
<1>3. CASE Poll
  BY <1>3 DEF Poll
<1>4. CASE Clock
  <2>1. left \in 0 .. WRAP - 1 /\ sinceAct \in 0 .. QUIET + 1
    BY DEF TypeOK
  <2>2. left' = IF left = 0 THEN WRAP - 1 ELSE left - 1
    BY <1>4, <2>1 DEF Clock
  <2>3. sinceAct' = IF sinceAct > QUIET THEN sinceAct ELSE sinceAct + 1
    BY <1>4 DEF Clock
  <2> QED BY <2>1, <2>2, <2>3
<1>5. CASE LedStep \/ TickFault
  BY <1>5 DEF LedStep, TickBusy, TickPulse, TickInit, TickUnlocked, TickWindow, TickLevel,
              TickFault, Tick
<1>6. CASE UNCHANGED vars
  BY <1>6 DEF vars
<1> QED BY <1>1, <1>2, <1>3, <1>4, <1>5, <1>6 DEF Next, Seeing

\* Half a turn of the clock: a pulse is shown for ACT after a request, and
\* again, wrongly, only when none has come for more than QUIET.
LEMMA PulseMeans == TypeOK /\ DeadlineInv /\ Pulsing => sinceAct < ACT \/ sinceAct > QUIET
  BY Constant DEF TypeOK, DeadlineInv, Pulsing

LEMMA HandlerColour ==
  ASSUME TypeOK, ColourInv, Seeing(Arrival \/ HandlerStep \/ Poll)
  PROVE  CacheInv' /\ TickInv' /\ ColourWasTrue'
<1>1. UNCHANGED <<ledVars, pc>>
  BY LedAlone DEF Seeing
<1>2. why' = IF pc # "rest" THEN why \cup Facts' ELSE why
  BY <1>1 DEF Seeing, Observe
<1>3. CacheInv' /\ ColourWasTrue'
  BY <1>1, <1>2 DEF ColourInv, CacheInv, ColourWasTrue, ledVars, Meanings
<1>4. TickInv'
  <2>1. pc' # "rest" => Facts' \subseteq why' /\ why \subseteq why'
    BY <1>1, <1>2
  <2>2. pc = "unlocked" /\ initialized /\ ~initialized' => "locked" \in why
    <3>1. SUFFICES ASSUME pc = "unlocked", initialized, ~initialized' PROVE "locked" \in why
      OBVIOUS
    <3>2. SetupErase
      BY <3>1 DEF Seeing, Arrival, Ignored, Request, SessionOver, LoginStart, SetupStart, SetIdle,
                  HandlerStep, RequestEnd, Lock, LoginDerived, LoginUnwrap, Create, SetupWrite, SetupOpen, SetupEnd, Poll,
                  vaultVars
    <3>3. initialized /\ ~unlocked
      BY <3>2 DEF SetupErase, ColourInv, VaultInv
    <3> QED BY <3>1, <3>3, FactsMeaning DEF ColourInv, TickInv
  <2> QED BY <1>1, <2>1, <2>2 DEF ColourInv, TickInv
<1> QED BY <1>3, <1>4

LEMMA TickColour ==
  ASSUME TypeOK, ColourInv, Seeing(LedStep)
  PROVE  CacheInv' /\ TickInv' /\ ColourWasTrue'
<1> USE DEF Tick, Show, Draw, ColourInv, CacheInv, TickInv, ColourWasTrue, Meanings, ledVars, vaultVars,
            timeVars, Blue, Red, Off, Green
<1>1. pc # "rest" /\ UNCHANGED <<vaultVars, timeVars>>
  BY DEF Seeing, LedStep, TickBusy, TickPulse, TickInit, TickUnlocked, TickWindow, TickLevel
<1>2. why' = why \cup Facts' /\ Facts' = Facts /\ Facts \subseteq why
  <2>1. Facts' = Facts
    BY <1>1 DEF Facts, Reason
  <2> QED BY <1>1, <2>1 DEF Seeing, Observe
<1>3. CASE TickBusy
  BY <1>2, <1>3, FactsMeaning DEF TickBusy
<1>4. CASE TickPulse
  BY <1>2, <1>4, FactsMeaning, PulseMeans DEF TickPulse
<1>5. CASE TickInit
  BY <1>1, <1>2, <1>5, FactsMeaning DEF TickInit
<1>6. CASE TickUnlocked
  BY <1>1, <1>2, <1>6, FactsMeaning DEF TickUnlocked
<1>7. CASE TickWindow
  BY <1>2, <1>7 DEF TickWindow
<1>8. CASE TickLevel
  BY <1>2, <1>8 DEF TickLevel
<1> QED BY <1>3, <1>4, <1>5, <1>6, <1>7, <1>8 DEF Seeing, LedStep

LEMMA ColourNext == TypeOK /\ ColourInv /\ [Next]_vars => ColourInv'
<1> SUFFICES ASSUME TypeOK, ColourInv, [Next]_vars PROVE ColourInv'
  OBVIOUS
<1>1. VaultInv' /\ DeadlineInv'
  BY VaultInvNext, DeadlineInvNext DEF ColourInv
<1>2. CASE Seeing(Arrival) \/ Seeing(HandlerStep) \/ Seeing(Poll)
  BY <1>1, <1>2, HandlerColour DEF ColourInv, Seeing
<1>3. CASE Seeing(Clock)
  <2>1. UNCHANGED ledVars /\ pc' = "busy" /\ why' = Facts'
    BY <1>3 DEF Seeing, Clock, Observe
  <2> QED BY <1>1, <2>1 DEF ColourInv, CacheInv, TickInv, ColourWasTrue, ledVars
<1>4. CASE Seeing(LedStep)
  BY <1>1, <1>4, TickColour DEF ColourInv
<1>5. CASE TickFault /\ why' = Reasons
  <2>1. UNCHANGED ledVars /\ pc' = "rest"
    BY <1>5 DEF TickFault, Tick
  <2>2. rgb[1] \in {"blue", "red", "off", "green"}
    BY DEF TypeOK, Blue, Red, Off, Green
  <2>3. Meanings(rgb[1]) \cap Reasons # {}
    BY <2>2 DEF Meanings, Reasons
  <2>4. CacheInv' /\ TickInv'
    BY <2>1 DEF ColourInv, CacheInv, TickInv, ledVars
  <2>5. ColourWasTrue'
    BY <1>5, <2>1, <2>3 DEF ColourWasTrue, ledVars, Meanings
  <2> QED BY <1>1, <2>4, <2>5 DEF ColourInv
<1>6. CASE UNCHANGED vars
  BY <1>1, <1>6 DEF vars, ColourInv, CacheInv, TickInv, ColourWasTrue, Meanings, Facts, Reason,
                    ledVars, vaultVars, timeVars
<1> QED BY <1>2, <1>3, <1>4, <1>5, <1>6 DEF Next

LEMMA ColourInit == Init => ColourInv
<1> SUFFICES ASSUME Init PROVE ColourInv
  OBVIOUS
<1>1. VaultInv /\ DeadlineInv
  BY Constant DEF Init, VaultInv, DeadlineInv
<1>2. CacheInv /\ TickInv
  BY DEF Init, CacheInv, TickInv
<1>3. ColourWasTrue
  BY FactsMeaning DEF Init, ColourWasTrue, Meanings, Reasons, Blue, Red, Off
<1> QED BY <1>1, <1>2, <1>3 DEF ColourInv

(***************************************************************************)
(* What the LED shows was true at some moment of its last tick.            *)
(***************************************************************************)
THEOREM ColourAlwaysWasTrue == Spec => []ColourWasTrue
<1>1. TypeOK /\ ColourInv /\ [Next]_vars => ColourInv'
  BY ColourNext
<1>2. ColourInv => ColourWasTrue
  BY DEF ColourInv
<1> QED BY <1>1, <1>2, ColourInit, LedKeeps, PTL DEF Spec
==============================================================================
