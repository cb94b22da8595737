--------------------------- MODULE Settings_proofs ---------------------------
(***************************************************************************)
(* Proofs about Settings: type correctness; that the key and certificate   *)
(* served belong together, as long as no firmware of another schema is     *)
(* booted and no erasure of NVS is cut short; and that the idle window is  *)
(* the one the user was told of.                                           *)
(***************************************************************************)
EXTENDS Settings, TLAPS

\* Absent is none of the values a key can have.
LEMMA AbsentIsNoValue ==
  /\ Absent \notin Names /\ Absent \notin Passwords /\ Absent \notin Nat
  /\ Absent \notin Pairs /\ Absent \notin Schemas
BY SettingsConstants

\* What set_idle_ms keeps lies between the bounds.
LEMMA ClampBounds ==
  ASSUME NEW ms \in Nat
  PROVE  Clamp(ms) \in Windows
BY SettingsConstants DEF Clamp, Windows

LEMMA ClampIdentity ==
  ASSUME NEW ms \in Windows
  PROVE  Clamp(ms) = ms
BY SettingsConstants DEF Clamp, Windows

LEMMA DefaultsTyped == /\ Defaults \in [ssid : Names, pw : Passwords, idle : Windows]
                       /\ Erased \in Flash
BY SettingsConstants DEF Defaults, Windows, Erased, Flash, Or

LEMMA StoredTyped ==
  ASSUME flash \in Flash
  PROVE  StoredWifi \in Wifi /\ StoredWindow \in Windows
<1>1. StoredOr("ssid", DefName) \in Names /\ StoredOr("pw", DefPassword) \in Passwords
  BY SettingsConstants DEF StoredOr, Flash, Or
<1>2. StoredOr("idle", IDLE_DEFAULT) \in Nat
  BY SettingsConstants DEF StoredOr, Flash, Or
<1> QED BY <1>1, <1>2, ClampBounds DEF StoredWifi, StoredWindow, Wifi

-----------------------------------------------------------------------------
(***************************************************************************)
(* Type correctness.                                                       *)
(***************************************************************************)
LEMMA InitTyped == Init => TypeOK
<1> SUFFICES ASSUME Init PROVE TypeOK
  OBVIOUS
<1>1. flash \in Flash
  <2>1. PICK i \in Or(StoredIdle), c \in Or(Wifi), p \in Or(Pairs), v \in Schemas :
          flash = [ssid |-> IF c = Absent THEN Absent ELSE c.ssid,
                   pw   |-> IF c = Absent THEN Absent ELSE c.pw,
                   idle |-> i,
                   key  |-> p, cert |-> p, ver |-> IF p = Absent THEN Absent ELSE v]
    BY DEF Init
  <2>2. i \in Or(Nat)
    BY SettingsConstants DEF Or
  <2>3. c # Absent => c.ssid \in Names /\ c.pw \in Passwords
    BY DEF Or, Wifi
  <2> QED BY <2>1, <2>2, <2>3 DEF Flash, Or
<1>2. StoredWifi.ssid \in Names /\ StoredWifi.pw \in Passwords /\ StoredWindow \in Windows
  BY <1>1, StoredTyped DEF Wifi
<1>3. /\ idle \in Windows /\ ap \in Wifi /\ served \in [key : Or(Pairs), cert : Or(Pairs)]
      /\ saved = Absent /\ asked \in [ssid : Names, pw : Passwords, idle : Windows]
  BY DefaultsTyped, SettingsConstants DEF Init, ColdRam, Windows, Wifi, Or
<1>4. /\ stage \in BootStages /\ schema \in Firmwares /\ handler = "none" /\ armed = FALSE
      /\ faults \in 0 .. MaxFaults /\ doubt = {} /\ fellBack = {}
  BY SettingsConstants DEF Init, BootStages
<1>5. want \in [ssid : Names, pw : Passwords, idle : Windows]
  <2>1. want = [ssid |-> StoredWifi.ssid, pw |-> StoredWifi.pw, idle |-> StoredWindow]
    BY DEF Init
  <2> QED BY <2>1, <1>2
<1> QED BY <1>1, <1>3, <1>4, <1>5 DEF TypeOK, BootStages, Init

LEMMA ColdTyped ==
  ASSUME ap' = ColdRam[1], served' = ColdRam[2], saved' = ColdRam[3],
         idle' = ColdRam[4], asked' = ColdRam[5]
  PROVE  /\ ap' \in Wifi /\ served' \in [key : Or(Pairs), cert : Or(Pairs)]
         /\ saved' = Absent /\ idle' \in Windows
         /\ asked' \in [ssid : Names, pw : Passwords, idle : Windows]
BY DefaultsTyped, SettingsConstants DEF ColdRam, Wifi, Or, Windows

LEMMA FaultTyped ==
  ASSUME TypeOK, Fault
  PROVE  faults' \in 0 .. MaxFaults
BY SettingsConstants DEF TypeOK, Fault

LEMMA BootTyped == TypeOK /\ BootStep => TypeOK'
<1> SUFFICES ASSUME TypeOK, BootStep PROVE TypeOK'
  OBVIOUS
<1>0. StoredWifi \in Wifi /\ StoredWindow \in Windows
  BY StoredTyped DEF TypeOK
<1>1. CASE StoreInit
  <2>1. flash' \in Flash
    <3>1. ASSUME NEW gone \in SUBSET DOMAIN flash,
                 flash' = [k \in DOMAIN flash |-> IF k \in gone THEN Absent ELSE flash[k]]
          PROVE  flash' \in Flash
      <4>1. flash \in Flash
        BY DEF TypeOK
      <4>2. DOMAIN flash = {"ssid", "pw", "idle", "key", "cert", "ver"}
        BY <4>1 DEF Flash
      <4>3. \A k \in DOMAIN flash : flash'[k] \in {flash[k], Absent}
        BY <3>1
      <4>4. flash' = [ssid |-> flash'["ssid"], pw |-> flash'["pw"], idle |-> flash'["idle"],
                      key |-> flash'["key"], cert |-> flash'["cert"], ver |-> flash'["ver"]]
        BY <3>1, <4>2
      <4> QED BY <4>1, <4>2, <4>3, <4>4 DEF Flash, Or
    <3> QED BY <1>1, <3>1, DefaultsTyped DEF StoreInit, TypeOK
  <2>2. want' \in [ssid : Names, pw : Passwords, idle : Windows]
    BY <1>1, DefaultsTyped DEF StoreInit, TypeOK
  <2>3. faults' \in 0 .. MaxFaults
    BY <1>1, FaultTyped DEF StoreInit, TypeOK
  <2> QED BY <1>1, <2>1, <2>2, <2>3 DEF StoreInit, TypeOK, ramVars, BootStages
<1>2. CASE WifiStart
  <2>1. ap' \in Wifi
    BY <1>0, <1>2, SettingsConstants DEF WifiStart, Wifi
  <2>2. want' \in [ssid : Names, pw : Passwords, idle : Windows]
    BY <1>0, <1>2 DEF WifiStart, TypeOK, Wifi
  <2>3. faults' \in 0 .. MaxFaults
    BY <1>2, FaultTyped DEF WifiStart, TypeOK
  <2>4. /\ doubt' \subseteq {"wifi", "idle"} /\ fellBack' \subseteq {"wifi", "idle", "timer"}
        /\ stage' = "cert"
    BY <1>2 DEF WifiStart, TypeOK, Booted
  <2>5. UNCHANGED <<flash, schema, served, saved, idle, asked, handler, armed>>
    BY <1>2 DEF WifiStart, Booted
  <2>6. saved' \in IF stage' = "restore" THEN Nat ELSE {Absent}
    BY <1>2, <2>4, <2>5 DEF WifiStart, Booted, TypeOK
  <2> QED BY <2>1, <2>2, <2>3, <2>4, <2>5, <2>6 DEF TypeOK, BootStages
<1>3. CASE CertGet
  <2>1. served' \in [key : Or(Pairs), cert : Or(Pairs)]
    BY <1>3 DEF CertGet, TypeOK, Flash, NewPair, Or
  <2> QED BY <1>3, <2>1 DEF CertGet, TypeOK, Booted, BootStages, histVars
<1>4. CASE StoreKey \/ StoreCert \/ StoreSchema \/ CertCommit
  <2>1. flash' \in Flash
    <3>1. flash \in Flash /\ served.key \in Or(Pairs) /\ served.cert \in Or(Pairs)
          /\ schema \in Or(Schemas)
      BY SettingsConstants DEF TypeOK, Or
    <3> QED BY <1>4, <3>1 DEF StoreKey, StoreCert, StoreSchema, CertCommit, CertStored, Flash
  <2>2. /\ stage' \in BootStages /\ stage # "restore" /\ stage' # "restore"
        /\ UNCHANGED <<schema, ap, served, saved, idle, asked, handler, armed, faults, want,
                       doubt, fellBack>>
    BY <1>4 DEF StoreKey, StoreCert, StoreSchema, CertCommit, CertStored, Booted, BootStages,
                ramVars, histVars
  <2> QED BY <2>1, <2>2 DEF TypeOK
<1>5. CASE HttpsStart
  BY <1>5 DEF HttpsStart, Booted, TypeOK, BootStages, ramVars, histVars
<1>6. CASE IdleRead
  <2>1. want' \in [ssid : Names, pw : Passwords, idle : Windows]
    BY <1>0, <1>6 DEF IdleRead, TypeOK
  <2>2. faults' \in 0 .. MaxFaults
    BY <1>6, FaultTyped DEF IdleRead, TypeOK
  <2>3. saved' \in IF stage' = "restore" THEN Nat ELSE {Absent}
    <3>1. flash.idle \in Nat \cup {Absent}
      BY DEF TypeOK, Flash, Or
    <3> QED BY <1>6, <3>1 DEF IdleRead, TypeOK
  <2>4. /\ stage' \in BootStages \cup {"up"} /\ doubt' \subseteq {"wifi", "idle"}
        /\ fellBack' \subseteq {"wifi", "idle", "timer"}
    BY <1>6 DEF IdleRead, TypeOK, BootStages
  <2>5. UNCHANGED <<flash, schema, ap, served, idle, asked, handler, armed>>
    BY <1>6 DEF IdleRead
  <2> QED BY <2>1, <2>2, <2>3, <2>4, <2>5 DEF TypeOK
<1>7. CASE IdleRestore
  <2>1. idle' \in Windows
    BY <1>7, SettingsConstants, ClampBounds DEF IdleRestore, Booted, TypeOK
  <2> QED BY <1>7, <2>1 DEF IdleRestore, Booted, TypeOK, histVars, Or
<1> QED BY <1>1, <1>2, <1>3, <1>4, <1>5, <1>6, <1>7 DEF BootStep

LEMMA HandlerTyped == TypeOK /\ (Arrival \/ HandlerStep \/ HandlerFault) => TypeOK'
<1> SUFFICES ASSUME TypeOK, Arrival \/ HandlerStep \/ HandlerFault PROVE TypeOK'
  OBVIOUS
<1>1. ASSUME NEW ms \in Windows, IdleSet(ms) PROVE TypeOK'
  BY <1>1 DEF IdleSet, Handled, TypeOK, histVars
<1>2. ASSUME NEW name \in Names, NEW password \in Passwords, WifiSet(name, password)
      PROVE  TypeOK'
  BY <1>2 DEF WifiSet, Handled, TypeOK, histVars
<1>3. CASE HandlerFault
  <2>1. faults' \in 0 .. MaxFaults
    BY <1>3, FaultTyped DEF HandlerFault
  <2> QED BY <1>3, <2>1, DefaultsTyped DEF HandlerFault, TypeOK, histVars
<1>4. CASE IdleWrite \/ WifiName \/ WifiPassword
  <2>1. flash' \in Flash
    BY <1>4, SettingsConstants
       DEF IdleWrite, WifiName, WifiPassword, HandlerWrite, TypeOK, Flash, Or, Windows
  <2>2. /\ handler' \in {"idleCommit", "pw", "wifiCommit"}
        /\ doubt' \subseteq {"wifi", "idle"}
        /\ UNCHANGED <<stage, schema, ap, served, saved, idle, asked, armed, faults, want, fellBack>>
    BY <1>4 DEF IdleWrite, WifiName, WifiPassword, HandlerWrite, Handled, TypeOK, ramVars
  <2> QED BY <2>1, <2>2 DEF TypeOK
<1>5. CASE IdleCommit
  <2>1. idle' \in Windows
    BY <1>5, SettingsConstants, ClampBounds DEF IdleCommit, TypeOK, Windows
  <2> QED BY <1>5, <2>1, DefaultsTyped DEF IdleCommit, Handled, TypeOK
<1>6. CASE WifiCommit
  BY <1>6 DEF WifiCommit, Handled, TypeOK, ramVars, histVars
<1>7. CASE WifiReply
  <2>1. faults' \in 0 .. MaxFaults
    BY <1>7, FaultTyped DEF WifiReply, TypeOK
  <2>2. want' \in [ssid : Names, pw : Passwords, idle : Windows]
    BY <1>7 DEF WifiReply, TypeOK
  <2>3. /\ armed' \in BOOLEAN /\ doubt' \subseteq {"wifi", "idle"}
        /\ fellBack' \subseteq {"wifi", "idle", "timer"} /\ handler' = "none"
    BY <1>7 DEF WifiReply, Handled, TypeOK
  <2>4. UNCHANGED <<flash, stage, schema, ap, served, saved, idle>> /\ asked' = Defaults
    BY <1>7 DEF WifiReply, Handled
  <2> QED BY <2>1, <2>2, <2>3, <2>4, DefaultsTyped DEF TypeOK
<1> QED BY <1>1, <1>2, <1>3, <1>4, <1>5, <1>6, <1>7 DEF Arrival, HandlerStep

LEMMA DownTyped == TypeOK /\ (PowerLoss \/ Restart) => TypeOK'
<1> SUFFICES ASSUME TypeOK, PowerLoss \/ Restart PROVE TypeOK'
  OBVIOUS
<1>1. GoDown /\ faults' \in 0 .. MaxFaults
  BY FaultTyped DEF PowerLoss, Restart, TypeOK
<1>2. /\ ap' \in Wifi /\ served' \in [key : Or(Pairs), cert : Or(Pairs)]
      /\ saved' = Absent /\ idle' \in Windows
      /\ asked' \in [ssid : Names, pw : Passwords, idle : Windows]
  BY <1>1, ColdTyped DEF GoDown
<1> QED BY <1>1, <1>2 DEF GoDown, TypeOK, BootStages

\* The settings, in NVS and in RAM, stay well typed: above all, the idle window
\* in force stays between its bounds whatever an earlier firmware has stored.
THEOREM SettingsTyped == Spec => []TypeOK
<1>1. TypeOK /\ [Next]_vars => TypeOK'
  <2>1. TypeOK /\ UNCHANGED vars => TypeOK'
    BY DEF TypeOK, vars, ramVars, histVars
  <2> QED BY <2>1, BootTyped, HandlerTyped, DownTyped DEF Next
<1> QED BY InitTyped, <1>1, PTL DEF Spec

-----------------------------------------------------------------------------
(***************************************************************************)
(* Key and certificate.  Between boots it is enough that a pair marked     *)
(* with the schema of the firmware is whole; inside a boot, that the pair  *)
(* is not marked while it is being replaced.                               *)
(***************************************************************************)
PairMarkedIsWhole ==
  flash.ver = schema => flash.key # Absent /\ flash.key = flash.cert

PairBeingStored ==
  /\ stage \in {"key", "crt", "ver", "commit", "https", "read", "restore", "up"} =>
       served.key # Absent /\ served.key = served.cert
  /\ stage \in {"key", "crt", "ver"} => flash.ver # schema
  /\ stage \in {"crt", "ver"} => flash.key = served.key
  /\ stage = "ver" => flash.cert = served.cert

CertInv == TypeOK /\ PairMarkedIsWhole /\ PairBeingStored

LEMMA CertInitially == Init => CertInv
<1> SUFFICES ASSUME Init PROVE PairMarkedIsWhole /\ PairBeingStored
  BY InitTyped DEF CertInv
<1>1. PICK i \in Or(StoredIdle), c \in Or(Wifi), p \in Or(Pairs), v \in Schemas :
        flash = [ssid |-> IF c = Absent THEN Absent ELSE c.ssid,
                 pw   |-> IF c = Absent THEN Absent ELSE c.pw,
                 idle |-> i,
                 key  |-> p, cert |-> p, ver |-> IF p = Absent THEN Absent ELSE v]
  BY DEF Init
<1>2. schema \in Schemas
  BY SettingsConstants DEF Init
<1> QED BY <1>1, <1>2, AbsentIsNoValue DEF Init, PairMarkedIsWhole, PairBeingStored

\* Nothing but boot touches key, certificate and schema.
LEMMA CertElsewhere ==
  ASSUME CertInv, Arrival \/ HandlerStep \/ HandlerFault \/ PowerLoss \/ Restart \/ UNCHANGED vars
  PROVE  PairMarkedIsWhole' /\ PairBeingStored'
<1>1. /\ flash'.key = flash.key /\ flash'.cert = flash.cert /\ flash'.ver = flash.ver
      /\ schema' = schema
      /\ stage' = "off" \/ UNCHANGED <<stage, served>>
  <2>1. CASE IdleWrite \/ WifiName \/ WifiPassword
    BY <2>1 DEF IdleWrite, WifiName, WifiPassword, HandlerWrite, Handled, ramVars, CertInv,
                TypeOK, Flash
  <2>2. CASE Arrival
    BY <2>2 DEF Arrival, IdleSet, WifiSet, Handled
  <2>3. CASE IdleCommit \/ WifiCommit \/ WifiReply \/ HandlerFault
    BY <2>3 DEF IdleCommit, WifiCommit, WifiReply, HandlerFault, Handled, ramVars
  <2>4. CASE PowerLoss \/ Restart
    BY <2>4 DEF PowerLoss, Restart, GoDown
  <2>5. CASE UNCHANGED vars
    BY <2>5 DEF vars, ramVars
  <2> QED BY <2>1, <2>2, <2>3, <2>4, <2>5 DEF HandlerStep
<1> QED BY <1>1 DEF CertInv, PairMarkedIsWhole, PairBeingStored

LEMMA CertInBoot ==
  ASSUME CertInv, BootStep, ~TornErase, NEW f \in Schemas, Firmwares = {f}
  PROVE  PairMarkedIsWhole' /\ PairBeingStored'
<1>1. flash \in Flash /\ served \in [key : Or(Pairs), cert : Or(Pairs)] /\ schema = f
  BY DEF CertInv, TypeOK
<1>2. CASE StoreInit
  <2>1. stage' = "wifi" /\ schema' = schema
    BY <1>1, <1>2 DEF StoreInit
  <2>2. flash' = flash \/ flash' = Erased
    BY <1>2 DEF StoreInit
  <2>3. Erased.ver # schema
    BY <1>1, AbsentIsNoValue DEF Erased
  <2> QED BY <2>1, <2>2, <2>3 DEF CertInv, PairMarkedIsWhole, PairBeingStored
<1>3. CASE CertGet
  <2>1. UNCHANGED <<flash, schema>>
    BY <1>3 DEF CertGet
  <2>2. CASE CertUsable /\ stage' = "https" /\ served' = [key |-> flash.key, cert |-> flash.cert]
    BY <2>1, <2>2 DEF CertInv, PairMarkedIsWhole, PairBeingStored, CertUsable
  <2>3. CASE ~CertUsable /\ stage' = "key"
    <3>1. PICK p \in Pairs : served' = [key |-> p, cert |-> p]
      BY <1>3, <2>3 DEF CertGet, Booted, NewPair
    <3>2. flash.ver # schema
      BY <2>3 DEF CertInv, PairMarkedIsWhole, CertUsable
    <3> QED BY <2>1, <2>3, <3>1, <3>2, AbsentIsNoValue DEF CertInv, PairMarkedIsWhole, PairBeingStored
  <2> QED BY <1>3, <2>2, <2>3 DEF CertGet, Booted
<1>4. CASE StoreKey
  BY <1>1, <1>4 DEF StoreKey, CertStored, Booted, ramVars, CertInv, PairMarkedIsWhole,
                    PairBeingStored, Flash
<1>5. CASE StoreCert
  BY <1>1, <1>5 DEF StoreCert, CertStored, Booted, ramVars, CertInv, PairMarkedIsWhole,
                    PairBeingStored, Flash
<1>6. CASE StoreSchema
  BY <1>1, <1>6 DEF StoreSchema, CertStored, Booted, ramVars, CertInv, PairMarkedIsWhole,
                    PairBeingStored, Flash
<1>7. CASE CertCommit \/ HttpsStart
  BY <1>7 DEF CertCommit, HttpsStart, CertStored, Booted, ramVars, CertInv, PairMarkedIsWhole,
              PairBeingStored
<1>8. CASE WifiStart
  BY <1>8 DEF WifiStart, Booted, CertInv, PairMarkedIsWhole, PairBeingStored
<1>9. CASE IdleRead \/ IdleRestore
  BY <1>9 DEF IdleRead, IdleRestore, Booted, CertInv, PairMarkedIsWhole, PairBeingStored
<1> QED BY <1>2, <1>3, <1>4, <1>5, <1>6, <1>7, <1>8, <1>9 DEF BootStep

\* The server never starts with a key and a certificate that do not belong
\* together, wherever boot or the device is cut short, while firmware of one
\* schema is booted (earlier firmware may have been of another) and no erasure
\* of NVS is cut short.
THEOREM PairAlwaysMatches ==
  ASSUME ~TornErase, NEW f \in Schemas, Firmwares = {f}
  PROVE  Spec => []ServedPairMatches
<1>1. CertInv /\ [Next]_vars => CertInv'
  <2> SUFFICES ASSUME CertInv, [Next]_vars PROVE CertInv'
    OBVIOUS
  <2>1. TypeOK'
    <3>1. TypeOK /\ UNCHANGED vars => TypeOK'
      BY DEF TypeOK, vars, ramVars, histVars
    <3> QED BY <3>1, BootTyped, HandlerTyped, DownTyped DEF Next, CertInv
  <2>2. PairMarkedIsWhole' /\ PairBeingStored'
    BY CertElsewhere, CertInBoot DEF Next
  <2> QED BY <2>1, <2>2 DEF CertInv
<1>2. CertInv => ServedPairMatches
  BY DEF CertInv, PairBeingStored, ServedPairMatches
<1> QED BY CertInitially, <1>1, <1>2, PTL DEF Spec

-----------------------------------------------------------------------------
(***************************************************************************)
(* The idle window.  If no request has left it in doubt, NVS holds what    *)
(* the user was told; a request is under way only when boot is over.       *)
(***************************************************************************)
NvsAsTold == "idle" \notin doubt => StoredWindow = want.idle

IdleUnderWay ==
  /\ handler # "none" => stage = "up"
  /\ handler = "idleCommit" => flash.idle = asked.idle
  /\ stage \in BootStages => idle = IDLE_DEFAULT
  /\ stage = "restore" => saved = flash.idle /\ "idle" \notin doubt

IdleInv == TypeOK /\ NvsAsTold /\ IdleUnderWay /\ IdleAsTold

LEMMA StoredWindowOf ==
  /\ StoredWindow = IF flash.idle = Absent THEN IDLE_DEFAULT ELSE Clamp(flash.idle)
  /\ StoredWindow' = IF flash'.idle = Absent THEN IDLE_DEFAULT ELSE Clamp(flash'.idle)
<1>1. Clamp(IDLE_DEFAULT) = IDLE_DEFAULT
  BY ClampIdentity, SettingsConstants DEF Windows
<1> QED BY <1>1 DEF StoredWindow, StoredOr

LEMMA IdleInitially == Init => IdleInv
<1> SUFFICES ASSUME Init PROVE NvsAsTold /\ IdleUnderWay /\ IdleAsTold
  BY InitTyped DEF IdleInv
<1>1. want.idle = StoredWindow /\ stage = "off" /\ handler = "none"
  BY DEF Init
<1>2. idle = IDLE_DEFAULT
  BY DEF Init, ColdRam
<1> QED BY <1>1, <1>2 DEF NvsAsTold, IdleUnderWay, IdleAsTold, BootStages

LEMMA IdleInBoot ==
  ASSUME IdleInv, BootStep, ~EarlyRequest
  PROVE  NvsAsTold' /\ IdleUnderWay' /\ IdleAsTold'
<1>0. stage \in BootStages => handler = "none" /\ idle = IDLE_DEFAULT
  BY DEF IdleInv, IdleUnderWay, BootStages
<1>1. CASE StoreInit
  <2>1. UNCHANGED <<idle, handler>> /\ stage = "off" /\ stage' \in {"off", "wifi"}
    BY <1>1 DEF StoreInit, ramVars
  <2>2. NvsAsTold'
    <3>1. CASE UNCHANGED <<flash, want, doubt>>
      BY <3>1, StoredWindowOf DEF IdleInv, NvsAsTold
    <3>2. CASE want' = Defaults /\ flash' = Erased
      BY <3>2, StoredWindowOf DEF Defaults, Erased, NvsAsTold
    <3>3. CASE "idle" \in doubt'
      BY <3>3 DEF NvsAsTold
    <3> QED BY <1>1, <3>1, <3>2, <3>3 DEF StoreInit
  <2> QED BY <1>0, <2>1, <2>2 DEF IdleUnderWay, IdleAsTold, BootStages
<1>2. CASE WifiStart
  <2>1. /\ UNCHANGED <<flash, idle, handler>> /\ stage = "wifi" /\ stage' = "cert"
        /\ want'.idle = want.idle /\ ("idle" \in doubt' <=> "idle" \in doubt)
    BY <1>2 DEF WifiStart, Booted, IdleInv, TypeOK
  <2>2. NvsAsTold'
    BY <2>1, StoredWindowOf DEF IdleInv, NvsAsTold
  <2> QED BY <1>0, <2>1, <2>2 DEF IdleUnderWay, IdleAsTold, BootStages
<1>3. CASE CertGet \/ StoreKey \/ StoreCert \/ StoreSchema \/ CertCommit \/ HttpsStart
  <2>1. /\ UNCHANGED <<idle, handler, want, doubt>>
        /\ stage \in BootStages /\ stage' \in BootStages \ {"restore"}
    BY <1>3 DEF CertGet, StoreKey, StoreCert, StoreSchema, CertCommit, HttpsStart, CertStored,
                Booted, ramVars, histVars, BootStages
  <2>2. flash'.idle = flash.idle
    BY <1>3 DEF CertGet, StoreKey, StoreCert, StoreSchema, CertCommit, HttpsStart, CertStored,
                IdleInv, TypeOK, Flash
  <2>3. NvsAsTold'
    BY <2>1, <2>2, StoredWindowOf DEF IdleInv, NvsAsTold
  <2> QED BY <1>0, <2>1, <2>3 DEF IdleUnderWay, IdleAsTold, BootStages
<1>4. CASE IdleRead
  <2>1. UNCHANGED <<flash, idle, handler>> /\ stage = "read" /\ stage' \in {"up", "restore"}
    BY <1>4 DEF IdleRead
  <2>2. "idle" \notin doubt' /\ want'.idle = StoredWindow
    BY <1>4 DEF IdleRead, IdleInv, TypeOK, NvsAsTold
  <2>3. NvsAsTold'
    BY <2>1, <2>2, StoredWindowOf DEF NvsAsTold
  <2>4. stage' = "restore" => saved' = flash'.idle
    BY <1>4 DEF IdleRead
  <2>5. stage' = "up" /\ "idle" \notin fellBack' => idle' = want'.idle
    BY <1>0, <1>4, <2>1, <2>2, StoredWindowOf DEF IdleRead, BootStages
  <2> QED BY <1>0, <2>1, <2>2, <2>3, <2>4, <2>5 DEF IdleUnderWay, IdleAsTold, BootStages
<1>5. CASE IdleRestore
  <2>1. /\ UNCHANGED <<flash, want, doubt, handler>> /\ stage = "restore" /\ stage' = "up"
        /\ idle' = Clamp(saved)
    BY <1>5 DEF IdleRestore, Booted, histVars
  <2>2. NvsAsTold'
    BY <2>1, StoredWindowOf DEF IdleInv, NvsAsTold
  <2>3. saved # Absent
    BY <2>1, AbsentIsNoValue DEF IdleInv, TypeOK
  <2>4. idle' = want'.idle
    BY <2>1, <2>3, StoredWindowOf DEF IdleInv, NvsAsTold, IdleUnderWay
  <2> QED BY <1>0, <2>1, <2>2, <2>4 DEF IdleUnderWay, IdleAsTold, BootStages
<1> QED BY <1>1, <1>2, <1>3, <1>4, <1>5 DEF BootStep

LEMMA IdleInHandlers ==
  ASSUME IdleInv, Arrival \/ HandlerStep \/ HandlerFault, ~EarlyRequest
  PROVE  NvsAsTold' /\ IdleUnderWay' /\ IdleAsTold'
<1>1. stage = "up" /\ stage' = "up"
  BY DEF IdleInv, IdleUnderWay, Arrival, IdleSet, WifiSet, HandlerStep, HandlerFault, Free, Serving,
         IdleWrite, IdleCommit, WifiName, WifiPassword, WifiCommit, WifiReply, HandlerWrite, Handled
<1>2. CASE Arrival
  <2>1. UNCHANGED <<flash, idle, want, doubt, fellBack>> /\ handler' # "idleCommit"
    BY <1>2 DEF Arrival, IdleSet, WifiSet, Handled, histVars
  <2>2. NvsAsTold'
    BY <2>1, StoredWindowOf DEF IdleInv, NvsAsTold
  <2> QED BY <1>1, <2>1, <2>2 DEF IdleInv, IdleUnderWay, IdleAsTold, BootStages
<1>3. CASE HandlerFault
  <2>1. UNCHANGED <<flash, idle, want, doubt, fellBack>> /\ handler' # "idleCommit"
    BY <1>3 DEF HandlerFault, histVars
  <2>2. NvsAsTold'
    BY <2>1, StoredWindowOf DEF IdleInv, NvsAsTold
  <2> QED BY <1>1, <2>1, <2>2 DEF IdleInv, IdleUnderWay, IdleAsTold, BootStages
<1>4. CASE IdleWrite
  <2>1. flash'.idle = asked'.idle /\ "idle" \in doubt' /\ UNCHANGED <<idle, want, fellBack>>
    BY <1>4 DEF IdleWrite, HandlerWrite, ramVars, IdleInv, TypeOK, Flash
  <2> QED BY <1>1, <2>1 DEF IdleInv, NvsAsTold, IdleUnderWay, IdleAsTold, BootStages
<1>5. CASE IdleCommit
  <2>1. /\ flash' = flash /\ flash.idle = asked.idle /\ handler' = "none"
        /\ idle' = Clamp(asked.idle) /\ want'.idle = asked.idle /\ asked.idle \in Windows
    BY <1>5 DEF IdleCommit, Handled, IdleInv, IdleUnderWay, TypeOK
  <2>2. Clamp(asked.idle) = asked.idle /\ asked.idle # Absent
    BY <2>1, ClampIdentity, AbsentIsNoValue, SettingsConstants DEF Windows
  <2>3. NvsAsTold'
    BY <2>1, <2>2, StoredWindowOf DEF NvsAsTold
  <2> QED BY <1>1, <2>1, <2>2, <2>3 DEF IdleUnderWay, IdleAsTold, BootStages
<1>6. CASE WifiName \/ WifiPassword
  <2>1. /\ flash'.idle = flash.idle /\ UNCHANGED <<idle, want, fellBack>>
        /\ handler' # "idleCommit" /\ ("idle" \in doubt' <=> "idle" \in doubt)
    BY <1>6 DEF WifiName, WifiPassword, HandlerWrite, Handled, ramVars, IdleInv, TypeOK, Flash
  <2>2. NvsAsTold'
    BY <2>1, StoredWindowOf DEF IdleInv, NvsAsTold
  <2> QED BY <1>1, <2>1, <2>2 DEF IdleInv, IdleUnderWay, IdleAsTold, BootStages
<1>7. CASE WifiCommit \/ WifiReply
  <2>1. /\ flash' = flash /\ idle' = idle /\ want'.idle = want.idle /\ handler' # "idleCommit"
        /\ ("idle" \in doubt' <=> "idle" \in doubt) /\ ("idle" \in fellBack' <=> "idle" \in fellBack)
    BY <1>7 DEF WifiCommit, WifiReply, Handled, ramVars, histVars, IdleInv, TypeOK
  <2>2. NvsAsTold'
    BY <2>1, StoredWindowOf DEF IdleInv, NvsAsTold
  <2> QED BY <1>1, <2>1, <2>2 DEF IdleInv, IdleUnderWay, IdleAsTold, BootStages
<1> QED BY <1>2, <1>3, <1>4, <1>5, <1>6, <1>7 DEF HandlerStep

LEMMA IdleThroughRestart ==
  ASSUME IdleInv, PowerLoss \/ Restart \/ UNCHANGED vars
  PROVE  NvsAsTold' /\ IdleUnderWay' /\ IdleAsTold'
<1>1. CASE PowerLoss \/ Restart
  <2>1. GoDown
    BY <1>1 DEF PowerLoss, Restart
  <2>2. /\ UNCHANGED <<flash, want, doubt>> /\ stage' = "off" /\ handler' = "none"
        /\ idle' = IDLE_DEFAULT
    BY <2>1 DEF GoDown, ColdRam
  <2>3. NvsAsTold'
    BY <2>2, StoredWindowOf DEF IdleInv, NvsAsTold
  <2> QED BY <2>2, <2>3 DEF IdleUnderWay, IdleAsTold
<1>2. CASE UNCHANGED vars
  <2>1. UNCHANGED <<flash, stage, saved, idle, asked, handler, want, doubt, fellBack>>
    BY <1>2 DEF vars, ramVars, histVars
  <2>2. NvsAsTold'
    BY <2>1, StoredWindowOf DEF IdleInv, NvsAsTold
  <2> QED BY <2>1, <2>2 DEF IdleInv, IdleUnderWay, IdleAsTold
<1> QED BY <1>1, <1>2

\* The idle window in force is the one the user was last told of, across failed
\* requests, losses of power, restarts and erasures of NVS, provided that no
\* session exists before boot has restored the window.
THEOREM IdleWindowAsTold ==
  ASSUME ~EarlyRequest
  PROVE  Spec => []IdleAsTold
<1>1. IdleInv /\ [Next]_vars => IdleInv'
  <2> SUFFICES ASSUME IdleInv, [Next]_vars PROVE IdleInv'
    OBVIOUS
  <2>1. TypeOK'
    <3>1. TypeOK /\ UNCHANGED vars => TypeOK'
      BY DEF TypeOK, vars, ramVars, histVars
    <3> QED BY <3>1, BootTyped, HandlerTyped, DownTyped DEF Next, IdleInv
  <2>2. NvsAsTold' /\ IdleUnderWay' /\ IdleAsTold'
    BY IdleInBoot, IdleInHandlers, IdleThroughRestart DEF Next
  <2> QED BY <2>1, <2>2 DEF IdleInv
<1>2. IdleInv => IdleAsTold
  BY DEF IdleInv
<1> QED BY IdleInitially, <1>1, <1>2, PTL DEF Spec

-----------------------------------------------------------------------------
(***************************************************************************)
(* The access point.  The same argument: NVS holds the pair the user was   *)
(* told, or the setting is in doubt; and a handler that has come to its    *)
(* reply has stored what it was asked.                                     *)
(***************************************************************************)
WifiAsTold == "wifi" \notin doubt => StoredWifi = [ssid |-> want.ssid, pw |-> want.pw]

WifiUnderWay ==
  /\ handler # "none" => stage \in {"read", "restore", "up"}
  /\ handler \in {"pw", "wifiCommit", "reply"} => flash.ssid = asked.ssid
  /\ handler \in {"wifiCommit", "reply"} => flash.pw = asked.pw

WifiInv == TypeOK /\ WifiAsTold /\ WifiUnderWay

LEMMA StoredWifiOf ==
  /\ StoredWifi = [ssid |-> IF flash.ssid = Absent THEN DefName ELSE flash.ssid,
                   pw   |-> IF flash.pw = Absent THEN DefPassword ELSE flash.pw]
  /\ StoredWifi' = [ssid |-> IF flash'.ssid = Absent THEN DefName ELSE flash'.ssid,
                    pw   |-> IF flash'.pw = Absent THEN DefPassword ELSE flash'.pw]
BY DEF StoredWifi, StoredOr

LEMMA WifiInitially == Init => WifiInv
<1> SUFFICES ASSUME Init PROVE WifiAsTold /\ WifiUnderWay
  BY InitTyped DEF WifiInv
<1>1. want.ssid = StoredWifi.ssid /\ want.pw = StoredWifi.pw /\ handler = "none"
  BY DEF Init
<1>2. StoredWifi = [ssid |-> StoredWifi.ssid, pw |-> StoredWifi.pw]
  BY DEF StoredWifi
<1> QED BY <1>1, <1>2 DEF WifiAsTold, WifiUnderWay

LEMMA WifiInBoot ==
  ASSUME WifiInv, BootStep
  PROVE  WifiAsTold' /\ WifiUnderWay'
<1>0. handler # "none" => stage \in {"read", "restore", "up"}
  BY DEF WifiInv, WifiUnderWay
<1>1. CASE StoreInit
  <2>1. UNCHANGED handler /\ handler = "none"
    BY <1>0, <1>1 DEF StoreInit
  <2>2. WifiAsTold'
    <3>1. CASE UNCHANGED <<flash, want, doubt>>
      BY <3>1, StoredWifiOf DEF WifiInv, WifiAsTold
    <3>2. CASE want' = Defaults /\ flash' = Erased
      BY <3>2, StoredWifiOf DEF Defaults, Erased, WifiAsTold
    <3>3. CASE "wifi" \in doubt'
      BY <3>3 DEF WifiAsTold
    <3> QED BY <1>1, <3>1, <3>2, <3>3 DEF StoreInit
  <2> QED BY <2>1, <2>2 DEF WifiUnderWay
<1>2. CASE WifiStart
  <2>1. UNCHANGED <<flash, handler>> /\ handler = "none"
    BY <1>0, <1>2 DEF WifiStart, Booted
  <2>2. StoredWifi = [ssid |-> StoredWifi.ssid, pw |-> StoredWifi.pw]
    BY DEF StoredWifi
  <2>3. want'.ssid = StoredWifi.ssid /\ want'.pw = StoredWifi.pw
    BY <1>2, <2>2 DEF WifiStart, WifiInv, WifiAsTold, TypeOK
  <2> QED BY <2>1, <2>2, <2>3, StoredWifiOf DEF WifiAsTold, WifiUnderWay
<1>3. CASE CertGet \/ StoreKey \/ StoreCert \/ StoreSchema \/ CertCommit \/ HttpsStart
  <2>1. UNCHANGED <<handler, want, doubt, asked>> /\ handler = "none"
    BY <1>0, <1>3 DEF CertGet, StoreKey, StoreCert, StoreSchema, CertCommit, HttpsStart, CertStored,
                Booted, ramVars, histVars
  <2>2. flash'.ssid = flash.ssid /\ flash'.pw = flash.pw
    BY <1>3 DEF CertGet, StoreKey, StoreCert, StoreSchema, CertCommit, HttpsStart, CertStored,
                WifiInv, TypeOK, Flash
  <2> QED BY <2>1, <2>2, StoredWifiOf DEF WifiInv, WifiAsTold, WifiUnderWay
<1>4. CASE IdleRead \/ IdleRestore
  <2>1. /\ UNCHANGED <<flash, handler, asked>> /\ stage' \in {"restore", "up"}
        /\ want'.ssid = want.ssid /\ want'.pw = want.pw
        /\ ("wifi" \in doubt' <=> "wifi" \in doubt)
    BY <1>4 DEF IdleRead, IdleRestore, Booted, histVars, WifiInv, TypeOK
  <2> QED BY <2>1, StoredWifiOf DEF WifiInv, WifiAsTold, WifiUnderWay
<1> QED BY <1>1, <1>2, <1>3, <1>4 DEF BootStep

LEMMA WifiInHandlers ==
  ASSUME WifiInv, Arrival \/ HandlerStep \/ HandlerFault
  PROVE  WifiAsTold' /\ WifiUnderWay'
<1>1. stage \in {"read", "restore", "up"} /\ stage' = stage
  BY DEF WifiInv, WifiUnderWay, Arrival, IdleSet, WifiSet, HandlerStep, HandlerFault, Free, Serving,
         IdleWrite, IdleCommit, WifiName, WifiPassword, WifiCommit, WifiReply, HandlerWrite, Handled
<1>2. CASE Arrival \/ HandlerFault
  <2>1. UNCHANGED <<flash, want, doubt>> /\ handler' \in {"none", "idle", "ssid"}
    BY <1>2 DEF Arrival, IdleSet, WifiSet, HandlerFault, Handled, histVars
  <2> QED BY <1>1, <2>1, StoredWifiOf DEF WifiInv, WifiAsTold, WifiUnderWay
<1>3. CASE IdleWrite \/ IdleCommit
  <2>1. /\ flash'.ssid = flash.ssid /\ flash'.pw = flash.pw
        /\ handler' \in {"none", "idleCommit"}
        /\ want'.ssid = want.ssid /\ want'.pw = want.pw
        /\ ("wifi" \in doubt' <=> "wifi" \in doubt)
    BY <1>3 DEF IdleWrite, IdleCommit, HandlerWrite, Handled, WifiInv, TypeOK, Flash
  <2> QED BY <1>1, <2>1, StoredWifiOf DEF WifiInv, WifiAsTold, WifiUnderWay
<1>4. CASE WifiName
  <2>1. flash'.ssid = asked'.ssid /\ handler' = "pw" /\ "wifi" \in doubt'
    BY <1>4 DEF WifiName, HandlerWrite, Handled, ramVars, WifiInv, TypeOK, Flash
  <2> QED BY <1>1, <2>1 DEF WifiAsTold, WifiUnderWay
<1>5. CASE WifiPassword
  <2>1. /\ flash'.ssid = flash.ssid /\ flash'.pw = asked'.pw /\ asked' = asked
        /\ handler = "pw" /\ handler' = "wifiCommit" /\ "wifi" \in doubt'
    BY <1>5 DEF WifiPassword, HandlerWrite, Handled, ramVars, WifiInv, TypeOK, Flash
  <2> QED BY <1>1, <2>1 DEF WifiInv, WifiAsTold, WifiUnderWay
<1>6. CASE WifiCommit
  <2>1. UNCHANGED <<flash, asked, want, doubt>> /\ handler = "wifiCommit" /\ handler' = "reply"
    BY <1>6 DEF WifiCommit, Handled, ramVars, histVars
  <2> QED BY <1>1, <2>1, StoredWifiOf DEF WifiInv, WifiAsTold, WifiUnderWay
<1>7. CASE WifiReply
  <2>1. /\ flash' = flash /\ handler' = "none"
        /\ flash.ssid = asked.ssid /\ flash.pw = asked.pw
        /\ want'.ssid = asked.ssid /\ want'.pw = asked.pw
    BY <1>7 DEF WifiReply, Handled, WifiInv, WifiUnderWay, TypeOK
  <2>2. asked.ssid # Absent /\ asked.pw # Absent
    BY AbsentIsNoValue DEF WifiInv, TypeOK
  <2> QED BY <2>1, <2>2, StoredWifiOf DEF WifiAsTold, WifiUnderWay
<1> QED BY <1>2, <1>3, <1>4, <1>5, <1>6, <1>7 DEF HandlerStep

LEMMA WifiThroughRestart ==
  ASSUME WifiInv, PowerLoss \/ Restart \/ UNCHANGED vars
  PROVE  WifiAsTold' /\ WifiUnderWay'
<1>1. UNCHANGED <<flash, want, doubt>>
  BY DEF PowerLoss, Restart, GoDown, vars, histVars
<1>2. handler' = "none" \/ UNCHANGED <<handler, stage, asked>>
  BY DEF PowerLoss, Restart, GoDown, vars, ramVars
<1> QED BY <1>1, <1>2, StoredWifiOf DEF WifiInv, WifiAsTold, WifiUnderWay

\* The access point comes up with the name and password last confirmed, through
\* every loss of power, restart, store error and erasure, unless a later request
\* was cut short or the store cannot be read.
THEOREM AccessPointAsAccepted == Spec => ApAsAccepted
<1>1. WifiInv /\ [Next]_vars => WifiInv'
  <2> SUFFICES ASSUME WifiInv, [Next]_vars PROVE WifiInv'
    OBVIOUS
  <2>1. TypeOK'
    <3>1. TypeOK /\ UNCHANGED vars => TypeOK'
      BY DEF TypeOK, vars, ramVars, histVars
    <3> QED BY <3>1, BootTyped, HandlerTyped, DownTyped DEF Next, WifiInv
  <2>2. WifiAsTold' /\ WifiUnderWay'
    BY WifiInBoot, WifiInHandlers, WifiThroughRestart DEF Next
  <2> QED BY <2>1, <2>2 DEF WifiInv
<1>2. WifiInv /\ [Next]_vars =>
        [stage = "wifi" /\ stage' = "cert" /\ "wifi" \notin doubt \cup fellBack'
           => ap' = [ssid |-> want.ssid, pw |-> want.pw]]_vars
  <2> SUFFICES ASSUME WifiInv, Next, stage = "wifi", stage' = "cert",
                      "wifi" \notin doubt \cup fellBack'
               PROVE  ap' = [ssid |-> want.ssid, pw |-> want.pw]
    OBVIOUS
  <2>1. WifiStart
    BY DEF Next, BootStep, StoreInit, CertGet, StoreKey, StoreCert, StoreSchema, CertCommit,
           CertStored, HttpsStart, IdleRead, IdleRestore, Booted, PowerLoss, Restart, GoDown,
           Arrival, IdleSet, WifiSet, Handled, HandlerStep, HandlerFault, IdleWrite, IdleCommit,
           WifiName, WifiPassword, WifiCommit, WifiReply, HandlerWrite
  <2>2. ap' = StoredWifi
    BY <2>1 DEF WifiStart
  <2> QED BY <2>2 DEF WifiInv, WifiAsTold
<1> QED BY WifiInitially, <1>1, <1>2, PTL DEF Spec, ApAsAccepted
=============================================================================
