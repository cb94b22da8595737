# Verification of the ESP32 key vault

TLA+ models of the firmware in `src/`: a password vault on an ESP32 that serves
a web page over HTTPS, keeps its secrets encrypted in the NVS flash, and locks
itself. TLC checks small instances; TLAPS proves the central results for every
value of the constants. Line numbers refer to the files named beside them.

## 1. The system

### Components

| Component | State it keeps | Operations | Modelled in |
|---|---|---|---|
| `vault` key lifecycle | NVS blobs `salt iter wdek vfmt entries cats tsalt tverif`; RAM `dek_`, `unlocked_` | setup, unlock, lock, change_password, set_transfer_password, verify_transfer, factory_reset, init, the saves of the tables | `Vault`, abstractly `Safe` |
| `vault` tables | `entries_`, `cats_` in RAM, sealed images in NVS, `bulk_` | add, update, remove, clear_entries, category_add, category_delete, bulk_begin, bulk_commit, export_bundle, import_bundle, load | `EntryTable`, abstractly `Catalogue` |
| `vault_session` | `token_ active_ last_seen_ms_ fail_count_ lockout_until_ms_ idle_ms_` | login_allowed, note_login_result, create, validate, check_idle, set_idle_ms, destroy | `Session` |
| `vault_api` | none of its own; a handler's local state | the `/api/...` handlers, the idle timer, the delayed restart | `ApiServer`; `h_import` in `EntryTable`; the settings handlers in `Settings` |
| `status_led` | colour, cached state, a 32-bit activity deadline | a timer callback, note_activity | `StatusLed` |
| `net_wifi_ap` | SSID and password in NVS | start, set_credentials | `Settings` |
| `vault_cert` | key, certificate and schema version in NVS | get: reuse or regenerate | `Settings` |
| `vault_store` | NVS | constructor, set_blob, get_blob, erase_key, commit | the store calls of `Vault` and `Settings` |
| `main` | none | the order of boot, the expiry callback | `Settings`, `ApiServer`, `StatusLed` |
| `vault_crypto` | none | PBKDF2, AES-GCM, DEK wrapping | symbolic, in `Vault` |
| `net_usb`, web page, `vault_error`, tests | | | not modelled, section 8 |

### How they interact

The master password derives a key (KEK) from `salt` and `iter`; the KEK wraps a
random data key (DEK) in `wdek`; the DEK seals the tables `entries` and `cats`.
Changing the password re-wraps the DEK. A second, *transfer* password has its
own salt and verifier, and guards export and deletion.

Every handler runs on the one httpd task. Login checks the lockout, derives the
key (about a second), unlocks the vault and creates the session. Other handlers
ask `Session::validate` first, which refreshes the idle window, or finds the
session expired, destroys it, and calls the callback that locks the vault. An
`esp_timer` queues `idle_lock_work` to the httpd task every 5 s to do the same.

Two things run on the timer task beside the handlers. The LED reads the vault,
the session and the store every 150 ms, one after the other and without a lock.
And 2 s after a change of the Wi-Fi credentials the chip is restarted, whatever
the httpd task is doing. Loss of power does so at any time.

Boot opens the store (and erases all of NVS if it is unusable), starts the
vault and wipes one of another format, starts the LED, the access point, the
certificate and the server, and restores the idle window last. An exception on
the way aborts, which is a restart.

### What is hard

* An operation on the vault writes up to nine things; each is durable at once,
  so an error or loss of power in between leaves a prefix of them. The Wi-Fi
  credentials are two writes, the certificate three.
* `unlock` and `setup` put a key into `dek_` before they know that they succeed.
* The vault and the session are two state machines that must stay in step,
  through expiry, logout, failed reloads, and the multi-call `h_setup`.
* The clock is read before and after a derivation; the idle check waits for the
  handlers ahead of it; the lockout counter survives some events and not others.
* The tables live in RAM and in flash, in two blobs, edited together; ids are
  reused and positions move.
* The LED may see half of a change, and its deadline is 32 bits wide.

The list of hazards, each at its line, is in `PROJECT.json`.

### What makes each component correct

* Key lifecycle: what is stored can be opened again (by some password, under the
  DEK in use), a DEK is never lost while its tables remain, and the DEK is in
  RAM only while the vault is open. In short: it implements `Safe`.
* Tables: ids are unique, entries are in categories that exist, and what is
  reported as saved is what a reboot brings back. An import is all or nothing,
  adds no duplicate, and of the device's own export changes nothing. In short:
  seen by id, they implement `Catalogue`.
* Session: the lockout limits the rate of guesses and always ends; an idle
  session ends promptly.
* Handlers: an open vault always has a session that will close it, and nobody
  touches the vault while a handler is writing it.
* LED: what it shows was true a moment ago, and a locked vault is shown.
* Settings: key and certificate belong together; the access point and the idle
  window are as last confirmed to the user; boot always completes.

## 2. The modules

**`Vault`**. `flash` is the NVS namespace, one field per key; `dek` and
`unlocked` are the members of the class. Cryptography is symbolic: a KEK *is*
`[pw, salt, iter]`, a wrapped DEK the pair of KEK and DEK, a table blob the DEK
it is sealed under, the verifier the pair of password and salt. A *fresh* salt or
DEK is one found nowhere in the state. `gcm_decrypt` releases its output before
it verifies the tag (`vault_crypto.cpp:148`), so after a failed unwrap `dek` is
either unchanged or `Garbage`; the crypto backend decides which.

An operation that writes the store has two parts. Its first action (`Setup`,
`ChangePassword`, `SetTransferPassword`, `Persist`, `FactoryReset`, `Boot`) takes
every early return of the code and, on the way to its first write, records in
`staged` what it will write. Then `StoreWrite` and `StoreCommit` go through
`Script[op]`, the store calls of the operation in program order, and between any
two of them `StoreFault` (the call throws) or `PowerLoss` may come. `Setup`
opens the vault at its first commit (`vault.cpp:178`) and goes on to the tables.
`Init` is a blank device or one with a vault from an earlier firmware.

What is assumed of NVS: `nvs_set_blob` and `nvs_erase_key` are atomic per key and
durable when they return, in order; one that fails keeps the old value;
`nvs_commit` has nothing left to write, but may fail.

**`Safe`** is what the vault promises, without salts, wrapped keys or store
calls: a safe belongs to nobody or to the one password that opens it, guards one
secret, and loses it only by being erased while closed. **`VaultSafe`** is the
refinement mapping. The owner is whoever's password unwraps the stored DEK;
while `change_password` is between its writes the owner is the one of the
`wdek` on flash. So the safe is claimed at the write of `wdek` in `setup`, not
when `setup` returns; a new owner takes over with the third write of a change;
and the safe is gone with the *first* erasure of `factory_reset`, which is `salt`.

**`Session`**. The members of the class, a clock `now`, and `holder`, the handler
that occupies the httpd task. `LoginStart` reads the clock for the lockout and
`LoginFail`/`LoginOk` read it again after the derivation; `SetupStart` and
`SetupOk` likewise, and some requests hold the task after `validate`. `Tick` lets
no handler hold it longer than `HOLD`, and runs queued work before time goes on
(the httpd task is not starved: it has CPU 1, `vault_api.cpp:688`). `timer` says
whether this boot could create the idle timer: without it no check is queued, and
only a request that finds the session expired ends it (`vault_api.cpp:737`).
Reading a body and refusing a request are taken to hold the task for no time
(section 8). `fails` is a
history variable: the times of the failed logins since the last success or boot.
A clock that starts at zero after a reboot forgets the lockout, as in the code;
the history restarts with it.

**`EntryTable`**. The two tables in RAM and their images in flash (`dEntries`,
`dCats`), with ids, positions (deletion moves the last element into the gap) and
capacity as in the code. `title` stands for title and username, `body` for the
fields no decision depends on. The names in `LongTitles` and `LongNames` are
those that `set_field` and `strncpy` cut, all to the same stored text. A save
ends in one of three ways: written; thrown and not written (`FaultOps`); thrown
by the commit, and written (`CommitFaultOps`). `category_delete` saves two tables,
so it takes two steps; an import takes one step for its list, its file or its
bundle, one for each item (`ImportItem`, `BundleItem`) and one for its save. The
file or the bundle may be what the device exports at that moment (`Exported`,
`ExportedBundle`). `stale` and `failed` are history variables, what the client
was told has failed; `own` holds the entries of which the file under way is the
export, if it is one. Power may go between any two items of either import: the
handler edits RAM only, so flash does not see it.

**`Catalogue`** is what the tables promise whoever calls them by id: functions
from ids to records, where an operation touches the record it names and no
other, nothing is filed under a category that is not there, and a table is saved
whole or not at all, and read back as saved. Positions, the handler's list, the search for a
free id and the order of the loops are gone. `ById` in `EntryTable` is the
refinement mapping, and a `FailedAdd` the one step in which flash has what RAM
has not.

**`ApiServer`** composes `V == INSTANCE Vault` and `S == INSTANCE Session`.
`task` is the handler under way. `h_setup` is a chain: `SetupBegin`,
`SetupTransfer`, `SetupEnd`, with the factory reset that undoes it (`undo`). Each
handler after `authed` is an action that calls the vault's action and takes the
task; `Reply` gives it back. Which rows an edit changes is left to `EntryTable`,
what the Wi-Fi and idle handlers store to `Settings`.

**`StatusLed`**. One action per *read* of the LED's timer callback (`TickBusy`,
`TickPulse`, `TickInit`, `TickUnlocked`, `TickWindow`, `TickLevel`), with the
handlers, cut down to what the LED can see of them, between any two. `left` is
the deadline minus the clock, modulo `WRAP`, the only thing the code's signed
comparison depends on. The clock moves when the LED's tick is at rest: a tick
takes far less than the 150 ms to the next. Two steps stand for several reads.
`TickWindow` reads the clock and the window, and `TickLevel` all that
`idle_remaining_ms` reads (`active_`, `last_seen_ms_`, `idle_ms_` twice), but
`raced` says that one of these moved from the first read on, and then an unsigned
difference may wrap and any outcome is allowed. `poll` is the idle timer, 0 in a
boot that could not create it. `h_login` and `h_setup` go in steps, one for each
change of a flag that the LED reads: `deriving_` falls (`LoginDerived`) before
`unlocked_` rises (`LoginUnwrap`), and a key derivation lies between the request
of a setup and its writes (`SetupStart`, `SetupWrite`). `sinceAct` and `why` are history variables:
the time since the last request, and what was true at some moment of the tick.
A store error in the LED's own read ends the tick, and one in a setup may end it
before the vault is open; later errors, and restarts, are `Vault`'s and
`ApiServer`'s subject and are left out, so `AutoLocks` speaks of setups whose
saves of the tables succeed (finding 4 is what happens otherwise).

**`Settings`**. The six NVS keys beside the vault and the boot that reads them,
in the order of `app_main`, one store call per step, any of which may throw;
power may go between any two, and the armed restart may fall on any handler.
`want` is what the user was last told, `doubt` which settings a request may have
changed without a 200, `fellBack` what this boot could not read. `Firmwares`,
`TornErase` and `EarlyRequest` switch on a firmware of another certificate
schema, an erasure of NVS that is itself cut, and a session before boot is over.

**`MC*`** give TLC its instances; **`*_proofs`** hold the theorems. The small
definitions marked `Mutant (P)` are plausible bugs: put in place of the
definition that follows, each must make TLC find a violation of property `P`. No
specification uses them.

## 3. The runs

| Run | Expected | Question |
|---|---|---|
| `vault_faults` | pass | Every operation may fail or lose power at any store call, and logins arrive at an open vault: what survives? `UnlockedIsSetUp`, `DekStable`. |
| `vault_whole` | pass | Only saves, unlocks and setup are cut short: the stored vault opens, reads back, is marked, and implements `Safe`. |
| `change_torn` | violation | `change_password` cut short (finding 1). |
| `second_login` | violation | A wrong password at an open vault (finding 2). |
| `session` | pass | Lockout and idle lock over every interleaving with the clock. |
| `entries` | pass | The tables under edits, imports of files and bundles, locking, failures and power loss; by id they implement `Catalogue`. |
| `catdel_torn` | violation | A category deletion cut short (finding 3). |
| `api_server` | pass | Vault and session in step; each is driven as its own specification allows. |
| `setup_open` | violation | A store error late in `setup` (finding 4). |
| `status_led` | pass | What the LED shows against what it reads without a lock; an idle vault is locked, and seen to be. |
| `led_wrap` | violation | Half a turn of the 32-bit clock (finding 5). |
| `settings` | pass | Certificate, access point and idle window through cuts, errors, erasures and restarts; boot completes. |

`ImplementsSafe`, `ImplementsCatalogue`, `DrivesVault` and `DrivesSession` are
refinements. The last two say that every behaviour of `ApiServer` is one of `Vault` and one of `Session`
(with the other's steps as stutters), so what is checked or proved of the
components holds in the server.

### Configurations beside the runs

These need no run of their own, or show a limit that the code does not claim to
have passed. `tlc -config <name>.cfg MC<Module>.tla` reproduces each.

| Configuration | Shows |
|---|---|
| `MCVault_safe` | passes: `ImplementsSafe` with every operation but a password change cut short, as `VaultImplementsSafe` proves |
| `MCVault_setup_fault` | violates `FormatMarked`: a store error in `setup` after `wdek` and before the marker leaves a working vault that the next boot wipes (`vault.cpp:175`) |
| `MCVault_setup_key` | violates `DekOnlyWhileUnlocked`: a store error in `setup` leaves the fresh DEK in `dek_` of a closed vault (`vault.cpp:169`) |
| `MCVault_reset_torn` | violates `WrappedDekOpens`: a factory reset cut after its first erasure leaves a vault that counts as set up and that no password opens (`vault.cpp:226`) |
| `MCVault_transfer_torn` | violates `TransferVerifiable`: a change of the transfer password cut between its two writes leaves a verifier of another salt (`vault.cpp:465`) |
| `MCApiServer_setup_cut` | violates `TransferPasswordSet`: power lost between `setup` and `set_transfer_password` leaves a vault that opens and has no transfer password (`vault_api.cpp:233`) |
| `MCApiServer_undo_fault` | violates `TransferPasswordSet`: so does a store error in `set_transfer_password`, if the reset that undoes the setup then fails too (`vault_api.cpp:234`) |
| `MCEntryTable_long` | violates `ImportCollapses`: the import's list holds the cut title, the comparison has the whole one (`vault_api.cpp:586`) |
| `MCEntryTable_reimport` | violates `ReimportAlwaysChangesNothing`: two category names that differ only past 31 characters are stored alike, and an export and import files every entry under the first, against `vault_api.cpp:457` "Category is emitted by name so it survives a round-trip" |
| `MCStatusLed_pulse` | violates `PulseAlwaysShown`: a login's key derivation outlasts the 300 ms pulse and blinks red instead, against `status_led.h:27` "a slow/busy request handler can't suppress the pulse" |
| `MCSettings_two_saves` | violates `SavedChangeTakesEffect`: the restart armed by one change of the Wi-Fi settings cuts a second one between its two writes, and the access point comes up with the new name and the old password (`vault_api.cpp:36`) |
| `MCSettings_rollback` | violates `ServedPairMatches`: a firmware of another schema that is cut while it stores its pair, then the first firmware again, serves a key and another key's certificate |
| `MCSettings_torn_erase` | violates `ServedPairMatches`: so does an erasure of NVS that is cut, if it takes pages in any order |
| `MCSettings_early` | violates `IdleAsTold`: a client that logged in and set the window before boot restores the stored one sees its setting undone until the next boot |

### Bounds, and why they are enough

* `Vault`: two passwords (current and next, right and wrong), three salts (the
  live one, the one a torn update left, a fresh one), three DEKs (wrapped, left
  in an old table, fresh), two iteration counts (this firmware's, an older one).
  Nothing else bounds the run: it explores all sequences of operations.
* `Session`: `MAX_FAILS = 2` (a batch has a first and a last failure),
  `LOCKOUT = 4`, poll every 2 ticks, windows of 2 to 3, inputs on both sides of
  them, and 12 ticks, which is time for two lockouts and a third batch. Boots with
  and without the idle timer; 861 thousand states. The code
  has 5 failures, 60 s, 5 s, and 30 s to 3600 s; the theorems take any.
* `EntryTable`: two entries, two categories, ids to 3, two titles, two names, one
  body. Both tables fill; ids are reused; the files and bundles repeat a title,
  name a known or unknown category, lack a title and overflow the table, or are
  the device's own. 654 thousand states. Every edit of the entries but an add may
  fail at its commit; add, update, clear, the category deletion and the import of
  a file may also fail before anything is written (the other two end in the same
  save). `add` is not in `CommitFaultOps`: an add whose *commit* alone fails is
  taken back in RAM but is on flash (see the hazard at `vault.cpp:343`). The
  theorems take any sizes, files, bundles and failing operations.
* `ApiServer`: two passwords, salts, DEKs and tokens, one failure to a lockout,
  3 ticks; 359 thousand states. Store errors are let into `transfer` and
  `unlock`, and loss of power into `change`, `entries` and the wipe at boot: the
  cases in which the handlers must clean up. What the others do is finding 4, in
  the configurations `MCVault_setup_fault`, `MCApiServer_setup_cut` and
  `MCApiServer_undo_fault`, or in `vault_faults`.
* `StatusLed`: a clock of 6 ticks, a pulse of 2, windows of 1 and 2, two greens,
  an idle check every tick, or none. The clock turns over several times within a window's
  worth of requests, the deadline changes sign in both directions, and a window
  can be cut to a smaller one between two reads. 420 thousand states. Ages stop
  counting where nothing compares them any more, so the run is complete.
* `Settings`: two names, two passwords, three key pairs (stored key, stored
  certificate, new), two schemas, a window below, in and above the range, and two
  faults in a behaviour (`MaxFaults`): one to tear an update, one to strike the
  boot or the request that follows. 205 thousand states.

Symmetry is used over passwords, salts, DEKs, tokens and names, which are only
ever compared for equality, and in no run that checks liveness.

### Fairness

`Vault`, `Session`, `EntryTable` and `ApiServer` state safety only: that the idle
lock *happens* is a bound on time there (`PromptExpiry`). It and `AutoLocks` speak
of a boot whose idle timer runs. `StatusLed` and
`Settings` state liveness, under this fairness:

* `StatusLed`: weak fairness of the clock, of a tick's steps and of a handler's
  steps: `esp_timer` fires, tasks are scheduled, and no handler waits for another.
  Strong fairness of `Poll`: requests keep coming, so the httpd task is not always
  free to run queued work, but the server looks at its work queue in every round
  of its loop. Strong fairness of `TickInit`: a store read that may fail does not
  fail for ever. `Arrival` has none: clients owe nothing.
* `Settings`: weak fairness of boot, of handlers and of the armed timer. Loss of
  power and store errors have none; `MaxFaults` makes them finite, without which
  no boot would have to complete.

## 4. What is proved

### The vault

| Theorem | Under | Says |
|---|---|---|
| `TypeCorrect` | nothing | `[]TypeOK` |
| `OpenImpliesSetUp` | nothing | an open vault has a wrapped DEK |
| `DekIsStable` | nothing | the wrapped DEK changes only through its erasure |
| `OpenVaultHoldsItsKey` | no login at an open vault | the DEK in RAM is the wrapped one |
| `TablesStayReadable` | also: no factory reset cut short | stored tables open under the wrapped DEK |
| `VaultStaysOpenable` | no password change or factory reset cut short | some password opens the vault |
| `OpenVaultIsMarked` | no store error in setup | an open vault carries the format marker |
| `NoKeyInClosedVault` | no store error in setup | a DEK is in RAM only while the vault is open or being set up |
| `TransferPasswordVerifies` | no change of the transfer password and no factory reset cut short | a stored transfer password verifies |
| `VaultImplementsSafe` | no login at an open vault, no password change cut short | the vault implements `Safe` |
| `GuardedWhileHeld` (of `Safe`) | `Nobody` is no record | what is in hand is the secret of an owned safe |
| `VaultGuardsItsKey` | as `VaultImplementsSafe` | so is what the vault has in hand: a consequence of the two before it |

The first six are in `Vault_proofs`, the next three in `VaultWhole_proofs`, the
others in `VaultSafe_proofs`. The hypotheses are what the
findings violate and what a torn `factory_reset` does (it erases `salt` first).

None of these is inductive by itself, because an operation decides its writes
long before it makes them. `KeyInv` says what `staged` holds for each operation:
a change re-wraps the DEK that is stored, a wipe stages nothing, a setup starts
from a device without a DEK, and the vault is closed under both wipes. `AgreeInv`
adds that setup stages the DEK that it has in RAM, `TableInv` that every staged
table is sealed under the staged DEK, and `OpenInv` that `salt`, `iter` and
`wdek` on flash agree except where an operation is between its writes. The case
that carries the proofs is `StoreWrite`: `WdekWrite` shows that the only write
of `wdek` over another is the third of a change. The refinement needs one
more fact than the invariants: which write moves the abstract owner.

### The tables

`EntryTable_proofs`, for every size of the tables, every set of titles and names,
every file and bundle, and whatever may fail:

| Theorem | Under | Says |
|---|---|---|
| `TablesTyped` | nothing | `[]TypeOK`: also, the tables are never longer than they may be |
| `IdsAreUnique` | nothing | no two entries and no two categories share an id, in RAM or on flash |
| `TablesImplementCatalogue` | nothing | the tables, seen by id, implement `Catalogue` |
| `ExportsComeBack` | nothing | an unambiguous table taken back from its own export, as file or bundle, is unchanged |
| `SavedExportsComeBack` | names fit their field; the commit of an add does not fail alone | so is any table whose titles differ, while no edit but an add has failed |
| `ImportsAreAllOrNothing` | nothing | an import changes flash once, at its end, to the merged table |
| `OnlyCutTitlesCollide` | nothing | a file brings no title to stand twice but what its too long titles are cut to; a bundle brings none |
| `ImportsCollapse` | titles fit their field | an import brings no title to stand twice |
| `ShownSurvivesReboot` | the commit of an add does not fail alone | what is shown is what a reboot brings back, unless the table's last edit was reported as failed |
| `CategoriesDoExist` | the commit of an add does not fail alone | while no edit but an add has failed, every entry's category exists |

The loops are reasoned about through what they find. `LeastNatural` (a set of
naturals has a least member, by the well-founded order of the library) gives
`FirstFound`; `FreeId` is the pigeonhole principle, as there are more ids than
elements, and with it `LowestFreeIsFree`. `AppendTable`, `ExceptTable` and
`SwapOutTable` say that each edit of a table makes a table, `ByIdAppend`,
`ByIdExcept` and `ByIdSwapOut` what it does by id.

`Inv` holds the four tables and `Mirror`: the handler's own list of an import
agrees with the entries at every item, ids, titles and positions, including the
entries that the import itself has added. Without it nothing can be said of which
entry an item overwrites; with it (`ImportItemPuts`) an item of a file does
what a record of a bundle does (`BundleItemPuts`), and all that follows is proved
once, of `Puts`. `SaveInv` strengthens `SurvivesReboot` to the middle of an
operation: the categories agree with flash at every step. That is what
`FileInv` needs, since an edit of one table must respect what flash holds of the
other; the entries on flash may be behind the categories only inside a deletion.
`BackInv` says that each item still to do of the device's own export is a copy of
an entry, its category found again by its name (`NamedBack`), so that the item
overwrites the entry with what it is (`CopyChangesNothing`).

The hypothesis on add is the one thing left out of the run as well: with it
dropped, `Catalogue`'s `FailedAdd` is what remains true, and `SurvivesReboot` is
not. `LongNames = {}` is what `MCEntryTable_reimport` violates, `LongTitles = {}`
what `MCEntryTable_long` does.

### The session

`Session_proofs`, for every `MAX_FAILS`, `LOCKOUT`, window and holding time:
`SessionTyped`, `LockoutAlwaysHolds` (in any `LOCKOUT` ticks at most `MAX_FAILS`
wrong passwords are tried), `LockoutAlwaysEnds` and `IdleLockIsPrompt` (where the
idle timer runs).

The counter forgets past batches, so `LockInv` relates it to the history: the
last `failCount` failures are the current batch, all that lies before is a
`LOCKOUT` older, and a full batch has armed the lockout from its last failure.
For the prompt lock, `PromptInv` bounds the age of a session past its window by
the phase of the timer and, once a check is due, by the time for which the
logins ahead of it can have held the task, of which `failCount` counts all.

### The server

`ApiServer_proofs` brings the components' theorems over by instantiating their
modules of proofs (`VP`, `SP`).

| Theorem | Under | Says |
|---|---|---|
| `ServerTyped` | nothing | `[]TypeOK`: also, the store is written only under a handler or at boot |
| `ServerDrivesVault` | nothing | every step is the vault's or leaves it alone |
| `ServerDrivesSession` | nothing | every step is the session's or leaves it alone |
| `SessionNeedsSetUp` | nothing | a session exists only on a device that is set up |
| `ServerGuardsLogins` | nothing | the lockout and, where the idle timer runs, the prompt lock, as proved of `Session`, in the server |
| `OpenVaultWillBeLocked` | no store error in `Vault::setup` | between handlers an open vault has a session |
| `SessionHasTransferPassword` | `h_setup` not cut short, nor its undoing in error | who is logged in has a transfer password |

`ServerInv` ties together the handler under way, the running operation of the
vault and the session; it needs `KeyInv` to know that a setup has stored its
`wdek` by the time it returns. `ServerDrivesVault` needs no invariant, since the
vault's own guards are kept by each handler; `ServerDrivesSession` does, at the one
place where `Session` expects no session and `h_setup` does not ask.

### The settings and the LED

| Theorem | Under | Says |
|---|---|---|
| `SettingsTyped` | nothing | `[]TypeOK` |
| `PairAlwaysMatches` | one firmware, no torn erasure | the key and certificate served belong together |
| `IdleWindowAsTold` | no session before boot is over | the idle window is the one last confirmed |
| `AccessPointAsAccepted` | nothing | the access point comes up as last confirmed, unless a later change was cut short or the store cannot be read |
| `LedTyped` | nothing | `[]TypeOK`: also, no brightness leaves its range |
| `ColourAlwaysWasTrue` | nothing | what the LED shows was true at some moment of its last tick |

The pair matches because the schema is written last and, with one firmware, a
stored schema means a complete pair; a second pair is only made over an
incomplete one. The colour was true for three reasons, each an invariant of its
own: a reset locks before it erases, so no mix of old and new reads is a state
that never was (`VaultInv`); the sign of the deadline is that of the time since
the last request, for half a turn of the clock (`DeadlineInv`); and a colour that
is not redrawn is still on (`CacheInv`). `WindowRead` is what keeps the
brightness from being divided by zero.

Constants are assumed to be distinct where the code distinguishes them, and
ordered naturals (`SessionConstants`: a handler holds the task for no longer
than the shortest window; `LedConstants`: the pulse is shorter than half a turn
of the clock; `EntryTableConstants`: there are more ids than places, and what a
long text is cut to is not long). TLC evaluates all of these assumptions.

## 5. Only model-checked

* The liveness of `StatusLed` (`AutoLocks`, `LockShown`, `PulseShown`) and of
  `Settings` (`BootCompletes`, `CredentialsApply`): liveness under fairness is out
  of the prover's reach.
  Every invariant and every action property of the runs has its theorem.
* That the hypotheses of the theorems are needed: the violation runs, and the
  configurations beside the runs, drop them one by one.

## 6. Findings

1. **A torn password change loses the vault** (`vault.cpp:255`). Salt, count and
   wrapped DEK are three writes. Cut after the first, no password opens it.
2. **A wrong password at an open vault changes its key** (`vault.cpp:205`).
   `unlock` unwraps into `dek_` itself. Login needs no closed vault: a second
   browser that mistypes the password gets 401 and leaves the open vault
   with another key; the next save seals a table that no unlock can read.
   Whether it happens depends on the crypto backend: one that leaves the output
   alone on a bad tag is the harmless outcome of the same action.
3. **A torn category deletion leaves entries in no category**, or in the next one
   to be given that id (`vault.cpp:443`).
4. **A failed setup can leave the vault open with no session** (`vault_api.cpp:229`),
   so that nothing locks it until the next login or restart.
5. **The LED turns blue by itself** (`status_led.cpp:80`): 24.9 days after the last
   request the signed 32-bit difference is positive again, and the LED says "no
   vault" or "a request" for as long again, over a locked vault.

Smaller divergences are in the table of configurations beside the runs.

## 7. Correspondence

`PROJECT.json` maps each definition to the lines that it models. Names follow
the code (`load_kek`, `login_allowed`, `validate`, `check_idle` as `Expired` and
`destroy`), and the writing operations are named by their `op`: `setup`,
`change`, `transfer`, `entries`, `cats`, `wipe`, `bootwipe`.

The map covers 62% of the lines of the firmware's own components. As a share
of everything under `src/` it is 17%, since the single header of the vendored
test library, `doctest.h`, holds 7106 of the 9751 lines of code there.

## 8. Not modelled, and why

* The arithmetic of PBKDF2, AES-GCM and the encoding of records: out of reach of
  a model checker; their contract is the symbolic one of section 2. A bundle is
  opened or refused as a whole; its layout is left out.
* Allocation failures of the buffers in PSRAM, the parsing of bodies and URLs: a
  handler that refuses does so before it changes anything.
* Bodies that arrive slowly: `read_body` (`vault_api.cpp:77`) waits for them on the
  one httpd task, and a queued idle check waits with it. `PromptExpiry` counts the
  time of the logins ahead of the check, each at most `HOLD`. The time between two bytes is bounded by a timeout of the HTTP server, which is not
  in the repository, and how many such requests may come before queued work by its
  internal order; a bound in this code's terms does not exist.
* A boot whose first read *of the vault* throws: `app_main` aborts and starts
  over, no state changed. (The boot of the settings has its aborts.)
* How a certificate is built, how the access point and the LED strip are driven:
  one step each, which succeeds, except that the boot may abort in it. An error of
  the LED strip would leave a colour that is believed drawn (`status_led.cpp:88`).
* `Vault` and `Settings` keep their keys in different NVS namespaces and share no
  state, so they are not composed; the erasure of all of NVS, in `Settings`, leaves
  the vault of a new device, which is an initial state of `Vault`.
* The USB network, the web page, `vault_error`, the unit tests and doctest: no
  state that decides anything.

## 9. Plan

Done: all components that keep state; the theorems of section 4. What is left:

1. `VaultSafe` under a torn password change: an abstract safe that can lose its
   owner, so that what survives of finding 1 is stated too.
2. A composition of `StatusLed` with `ApiServer`, to have the LED see the real
   handlers, store errors included.
