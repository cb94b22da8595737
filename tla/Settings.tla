------------------------------- MODULE Settings -------------------------------
(***************************************************************************)
(* What the device keeps in NVS beside the vault, and the boot that reads  *)
(* it back: the name and password of the access point (net_wifi_ap), the   *)
(* TLS key and certificate (vault_cert), the idle window (vault_api).      *)
(*                                                                         *)
(* Every store call is a step and may throw; in boot a throw ends in       *)
(* abort(), which is a restart.  Power may go between any two steps.  The  *)
(* restart that follows a change of the access point runs on the timer     *)
(* task and falls on whatever handler is under way.                        *)
(***************************************************************************)
EXTENDS Integers, FiniteSets

CONSTANTS
  Absent,                \* no such key
  Names, Passwords,      \* of the access point
  DefName, DefPassword,  \* the factory defaults
  IDLE_MIN, IDLE_MAX, IDLE_DEFAULT,
  StoredIdle,            \* windows an earlier firmware may have stored
  Pairs,                 \* key pairs, each with the certificate made for it
  Schemas,               \* values of CERT_SCHEMA_VERSION, all firmware ever run
  Firmwares,             \* those of the firmware that may be booted
  TornErase,             \* power may go while NVS is being erased
  EarlyRequest,          \* a session may exist before boot has come to its end
  MaxFaults              \* bound: store errors, losses of power, erasures

ASSUME SettingsConstants ==
  /\ DefName \in Names /\ DefPassword \in Passwords
  /\ IDLE_MIN \in Nat /\ IDLE_MAX \in Nat /\ IDLE_DEFAULT \in IDLE_MIN .. IDLE_MAX
  /\ StoredIdle \subseteq Nat
  /\ Cardinality(Pairs) > 2 /\ IsFiniteSet(Pairs)
  /\ Firmwares \subseteq Schemas /\ Firmwares # {}
  /\ Absent \notin Names \cup Passwords \cup Nat \cup Pairs \cup Schemas
  /\ TornErase \in BOOLEAN /\ EarlyRequest \in BOOLEAN /\ MaxFaults \in Nat

VARIABLES
  flash,     \* the six keys in NVS
  stage,     \* how far app_main has come; "up" when it is done
  schema,    \* CERT_SCHEMA_VERSION of the firmware that runs
  ap,        \* name and password the access point came up with
  served,    \* key and certificate in RAM
  saved,     \* idle window read from NVS, not yet in force
  idle,      \* Session::idle_ms_
  handler,   \* the handler under way and the store call it is at
  asked,     \* what its request asks for
  armed,     \* the one-shot restart timer is running
  faults,    \* faults still allowed
  want,      \* history: settings in force, as the user was told
  doubt,     \* history: settings a request may have changed without a 200
  fellBack   \* history: what this boot could not read or start

ramVars  == <<ap, served, saved, idle, asked>>
histVars == <<want, doubt, fellBack>>
vars == <<flash, stage, schema, ramVars, handler, armed, faults, histVars>>

Or(S) == S \cup {Absent}

Flash == [ssid : Or(Names), pw : Or(Passwords), idle : Or(Nat),
          key : Or(Pairs), cert : Or(Pairs), ver : Or(Schemas)]

Erased == [k \in {"ssid", "pw", "idle", "key", "cert", "ver"} |-> Absent]

Windows == IDLE_MIN .. IDLE_MAX

Wifi == [ssid : Names, pw : Passwords]

BootStages == {"off", "wifi", "cert", "key", "crt", "ver", "commit", "https", "read", "restore"}

\* The idle window is one that set_idle_ms accepts, also when it comes from the
\* store.
TypeOK ==
  /\ flash \in Flash
  /\ stage \in BootStages \cup {"up"} /\ schema \in Firmwares
  /\ ap \in Wifi /\ served \in [key : Or(Pairs), cert : Or(Pairs)]
  /\ saved \in (IF stage = "restore" THEN Nat ELSE {Absent}) /\ idle \in Windows
  /\ handler \in {"none", "idle", "idleCommit", "ssid", "pw", "wifiCommit", "reply"}
  /\ asked \in [ssid : Names, pw : Passwords, idle : Windows]
  /\ armed \in BOOLEAN /\ faults \in 0 .. MaxFaults
  /\ want \in [ssid : Names, pw : Passwords, idle : Windows]
  /\ doubt \subseteq {"wifi", "idle"} /\ fellBack \subseteq {"wifi", "idle", "timer"}

\* Session::set_idle_ms.
Clamp(ms) == IF ms < IDLE_MIN THEN IDLE_MIN ELSE IF ms > IDLE_MAX THEN IDLE_MAX ELSE ms

StoredOr(key, default) == IF flash[key] = Absent THEN default ELSE flash[key]

StoredWifi == [ssid |-> StoredOr("ssid", DefName), pw |-> StoredOr("pw", DefPassword)]

StoredWindow == Clamp(StoredOr("idle", IDLE_DEFAULT))

Defaults == [ssid |-> DefName, pw |-> DefPassword, idle |-> IDLE_DEFAULT]

\* RAM after a restart: ap, served, saved, idle, asked.
ColdRam == << [ssid |-> DefName, pw |-> DefPassword], [key |-> Absent, cert |-> Absent],
              Absent, IDLE_DEFAULT, Defaults >>

\* A new device, or one that an earlier firmware has set up.
Init ==
  /\ \E idleStored \in Or(StoredIdle), c \in Or(Wifi), p \in Or(Pairs), v \in Schemas :
       flash = [ssid |-> IF c = Absent THEN Absent ELSE c.ssid,
                pw   |-> IF c = Absent THEN Absent ELSE c.pw,
                idle |-> idleStored,
                key  |-> p, cert |-> p, ver |-> IF p = Absent THEN Absent ELSE v]
  /\ stage = "off" /\ schema \in Firmwares
  /\ ap = ColdRam[1] /\ served = ColdRam[2] /\ saved = ColdRam[3]
  /\ idle = ColdRam[4] /\ asked = ColdRam[5]
  /\ handler = "none" /\ armed = FALSE /\ faults = MaxFaults
  /\ want = [ssid |-> StoredWifi.ssid, pw |-> StoredWifi.pw, idle |-> StoredWindow]
  /\ doubt = {} /\ fellBack = {}

(***************************************************************************)
(* Faults.                                                                 *)
(***************************************************************************)
Fault == faults > 0 /\ faults' = faults - 1

GoDown == /\ stage' = "off" /\ handler' = "none" /\ armed' = FALSE
          /\ ap' = ColdRam[1] /\ served' = ColdRam[2] /\ saved' = ColdRam[3]
          /\ idle' = ColdRam[4] /\ asked' = ColdRam[5]
          /\ UNCHANGED <<flash, schema, want, doubt>>
          /\ fellBack' = {}

\* Power is lost; or something in boot throws and app_main aborts.
PowerLoss == stage # "off" /\ Fault /\ GoDown

\* reboot_cb, on the timer task.
Restart == armed /\ GoDown /\ UNCHANGED faults

(***************************************************************************)
(* Boot, in the order of app_main.                                         *)
(***************************************************************************)
Booted(at, next) == stage = at /\ stage' = next /\ UNCHANGED <<handler, armed>>

\* The constructor of Store.  nvs_flash_init may find NVS unusable: then all of
\* it is erased.
StoreInit ==
  /\ stage = "off" /\ UNCHANGED <<ramVars, handler, armed, fellBack>>
  /\ schema' \in Firmwares
  /\ \/ /\ stage' = "wifi"
        /\ UNCHANGED <<flash, faults, want, doubt>>
     \/ /\ Fault
        /\ want' = Defaults
        /\ \/ stage' = "wifi" /\ flash' = Erased /\ doubt' = {}
           \/ /\ TornErase
              /\ stage' = "off" /\ doubt' = {"wifi", "idle"}
              /\ \E gone \in SUBSET DOMAIN flash :
                   flash' = [k \in DOMAIN flash |-> IF k \in gone THEN Absent ELSE flash[k]]

\* WifiAp::start.  load_or_default takes the default for a key that is absent
\* and, one key at a time, for a key that cannot be read.
WifiStart ==
  /\ Booted("wifi", "cert")
  /\ want' = IF "wifi" \in doubt
               THEN [want EXCEPT !.ssid = StoredWifi.ssid, !.pw = StoredWifi.pw] ELSE want
  /\ doubt' = doubt \ {"wifi"}
  /\ \/ ap' = StoredWifi /\ UNCHANGED <<faults, fellBack>>
     \/ /\ Fault
        /\ ap' \in [ssid : {StoredWifi.ssid, DefName}, pw : {StoredWifi.pw, DefPassword}]
        /\ fellBack' = fellBack \cup {"wifi"}
  /\ UNCHANGED <<flash, schema, served, saved, idle, asked>>

CertUsable == flash.ver = schema /\ flash.cert # Absent /\ flash.key # Absent

\* A new key pair is one whose parts are not in NVS.
NewPair == Pairs \ {flash.key, flash.cert}

\* Mutant (BootCompletes): a certificate of another schema is refused.
CertGetStrict ==
  /\ stage = "cert" /\ stage' = IF flash.ver \notin {schema, Absent} THEN "off" ELSE "https"
  /\ served' = [key |-> flash.key, cert |-> flash.cert]
  /\ UNCHANGED <<flash, schema, ap, saved, idle, asked, handler, armed, faults, histVars>>

\* Cert::get: the cached pair, or a new one.
CertGet ==
  /\ \/ /\ CertUsable
        /\ Booted("cert", "https")
        /\ served' = [key |-> flash.key, cert |-> flash.cert]
     \/ /\ ~CertUsable
        /\ Booted("cert", "key")
        /\ \E p \in NewPair : served' = [key |-> p, cert |-> p]
  /\ UNCHANGED <<flash, schema, ap, saved, idle, asked, faults, histVars>>

\* The new pair is stored key first, the schema last.
CertStored(at, next, update) ==
  /\ Booted(at, next)
  /\ flash' = update
  /\ UNCHANGED <<schema, ramVars, faults, histVars>>

\* Mutant (ServedPairMatches): the schema is stored with the key.
StoreKeyAndSchema == CertStored("key", "crt", [flash EXCEPT !.key = served.key, !.ver = schema])

StoreKey    == CertStored("key", "crt", [flash EXCEPT !.key = served.key])
StoreCert   == CertStored("crt", "ver", [flash EXCEPT !.cert = served.cert])
StoreSchema == CertStored("ver", "commit", [flash EXCEPT !.ver = schema])
CertCommit  == CertStored("commit", "https", flash)

\* ApiServer::start: the server runs before the idle window is restored.
HttpsStart == /\ Booted("https", "read")
              /\ UNCHANGED <<flash, schema, ramVars, faults, histVars>>

IdleRead ==
  /\ stage = "read" /\ UNCHANGED <<flash, schema, ap, served, idle, asked, handler, armed>>
  /\ want' = IF "idle" \in doubt THEN [want EXCEPT !.idle = StoredWindow] ELSE want
  /\ doubt' = doubt \ {"idle"}
  /\ \/ /\ saved' = flash.idle
        /\ stage' = IF flash.idle = Absent THEN "up" ELSE "restore"
        /\ UNCHANGED <<faults, fellBack>>
     \/ /\ Fault
        /\ stage' = "up" /\ fellBack' = fellBack \cup {"idle"}
        /\ UNCHANGED saved

\* Mutant (TypeOK): the stored window is used as it is.
IdleRestoreAsIs == /\ Booted("restore", "up")
                   /\ idle' = saved /\ saved' = Absent
                   /\ UNCHANGED <<flash, schema, ap, served, asked, faults, histVars>>

IdleRestore == /\ Booted("restore", "up")
               /\ idle' = Clamp(saved) /\ saved' = Absent
               /\ UNCHANGED <<flash, schema, ap, served, asked, faults, histVars>>

BootStep == \/ StoreInit \/ WifiStart
            \/ CertGet \/ StoreKey \/ StoreCert \/ StoreSchema \/ CertCommit
            \/ HttpsStart \/ IdleRead \/ IdleRestore

(***************************************************************************)
(* The handlers of /api/idle and /api/wifi, for requests that carry a      *)
(* session and are in range; the others change nothing.                    *)
(***************************************************************************)
Serving == stage = "up" \/ (EarlyRequest /\ stage \in {"read", "restore"})

Free == Serving /\ handler = "none"

Handled(at, next) == handler = at /\ handler' = next /\ UNCHANGED <<stage, schema>>

IdleSet(ms) ==
  /\ Free /\ Handled("none", "idle")
  /\ asked' = [asked EXCEPT !.idle = ms]
  /\ UNCHANGED <<flash, ap, served, saved, idle, armed, faults, histVars>>

WifiSet(name, password) ==
  /\ Free /\ Handled("none", "ssid")
  /\ asked' = [asked EXCEPT !.ssid = name, !.pw = password]
  /\ UNCHANGED <<flash, ap, served, saved, idle, armed, faults, histVars>>

\* A store call throws: 500.
HandlerFault ==
  /\ handler \in {"idle", "idleCommit", "ssid", "pw", "wifiCommit"}
  /\ Fault
  /\ handler' = "none" /\ asked' = Defaults
  /\ UNCHANGED <<flash, stage, schema, ap, served, saved, idle, armed, histVars>>

\* From here on NVS may hold what no 200 has confirmed.
HandlerWrite(at, next, setting, key) ==
  /\ Handled(at, next)
  /\ flash' = [flash EXCEPT ![key] = asked[key]]
  /\ doubt' = doubt \cup {setting}
  /\ UNCHANGED <<ramVars, armed, faults, want, fellBack>>

\* Mutant (IdleAsTold): the window is in force before it is committed.
IdleWriteLive ==
  /\ Handled("idle", "idleCommit")
  /\ flash' = [flash EXCEPT !.idle = asked.idle] /\ idle' = asked.idle
  /\ doubt' = doubt \cup {"idle"}
  /\ UNCHANGED <<ap, served, saved, asked, armed, faults, want, fellBack>>

IdleWrite == HandlerWrite("idle", "idleCommit", "idle", "idle")

IdleCommit ==
  /\ Handled("idleCommit", "none")
  /\ idle' = Clamp(asked.idle) /\ asked' = Defaults
  /\ want' = [want EXCEPT !.idle = asked.idle]
  /\ doubt' = doubt \ {"idle"} /\ fellBack' = fellBack \ {"idle"}
  /\ UNCHANGED <<flash, ap, served, saved, armed, faults>>

\* Mutant (ApAsAccepted): the password is not stored.
WifiNameOnly == HandlerWrite("ssid", "wifiCommit", "wifi", "ssid")

\* WifiAp::set_credentials.
WifiName     == HandlerWrite("ssid", "pw", "wifi", "ssid")
WifiPassword == HandlerWrite("pw", "wifiCommit", "wifi", "pw")

WifiCommit == /\ Handled("wifiCommit", "reply")
              /\ UNCHANGED <<flash, ramVars, armed, faults, histVars>>

\* Mutant (CredentialsApply): the restart is left to the user.
WifiReplyOnly ==
  /\ Handled("reply", "none")
  /\ want' = [want EXCEPT !.ssid = asked.ssid, !.pw = asked.pw]
  /\ doubt' = doubt \ {"wifi"} /\ asked' = Defaults
  /\ UNCHANGED <<flash, ap, served, saved, idle, armed, faults, fellBack>>

\* The 200, then the restart, unless its timer cannot be had.
WifiReply ==
  /\ Handled("reply", "none")
  /\ want' = [want EXCEPT !.ssid = asked.ssid, !.pw = asked.pw]
  /\ doubt' = doubt \ {"wifi"} /\ asked' = Defaults
  /\ \/ armed' = TRUE /\ UNCHANGED <<faults, fellBack>>
     \/ Fault /\ fellBack' = fellBack \cup {"timer"} /\ UNCHANGED armed
  /\ UNCHANGED <<flash, ap, served, saved, idle>>

HandlerStep == IdleWrite \/ IdleCommit \/ WifiName \/ WifiPassword \/ WifiCommit \/ WifiReply

Arrival == \/ \E ms \in Windows : IdleSet(ms)
           \/ \E name \in Names, password \in Passwords : WifiSet(name, password)

Next == Arrival \/ HandlerStep \/ HandlerFault \/ BootStep \/ PowerLoss \/ Restart

\* app_main and the handlers run on, and an armed timer fires.
Fairness == WF_vars(BootStep) /\ WF_vars(HandlerStep) /\ WF_vars(Restart)

Spec == Init /\ [][Next]_vars /\ Fairness

-----------------------------------------------------------------------------
(***************************************************************************)
(* Properties.                                                             *)
(***************************************************************************)

\* The server is started with a key and the certificate made for that key,
\* wherever earlier boots were cut short.
ServedPairMatches ==
  stage \in {"https", "read", "restore", "up"} =>
    served.key # Absent /\ served.key = served.cert

\* The idle window in force is the one the user was last told of: a request
\* that failed leaves it alone, and a restart brings back what was accepted.
IdleAsTold == stage = "up" /\ "idle" \notin fellBack => idle = want.idle

\* The access point comes up with the name and password of the last request
\* that was answered 200, unless a later one was cut short or the store cannot
\* be read.
ApAsAccepted ==
  [][stage = "wifi" /\ stage' = "cert" /\ "wifi" \notin doubt \cup fellBack'
       => ap' = [ssid |-> want.ssid, pw |-> want.pw]]_vars

\* The same of every boot.  A second request can be cut short by the restart
\* the first one armed, without any fault: then the name is new and the password
\* old.
SavedChangeTakesEffect ==
  [][stage = "wifi" /\ stage' = "cert" /\ "wifi" \notin fellBack'
       => ap' = [ssid |-> want.ssid, pw |-> want.pw]]_vars

\* Boot comes to its end, whatever NVS holds.
BootCompletes == []<>(stage = "up")

\* Name and password that are about to be confirmed take effect: they are not
\* forgotten by the restart, nor by one that comes earlier than planned.
CredentialsApply ==
  \A c \in Wifi :
    handler = "reply" /\ asked.ssid = c.ssid /\ asked.pw = c.pw
      ~> \/ ap = c
         \/ "wifi" \in doubt /\ handler # "reply"
         \/ want.ssid # c.ssid \/ want.pw # c.pw
         \/ {"wifi", "timer"} \cap fellBack # {}
=============================================================================
