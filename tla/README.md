# A TLA+ model of the KETI iBMC core library

This directory holds TLA+ modules that model the management controller's core
library (`src/libs`, `src/include`), TLC configurations that check them on small
instances, and TLAPS proofs about them for every value of the constants. Paths
below are relative to `src/`.

Modelled are the System Event Log (SEL), the sensor monitor that feeds it and the SDR
repository, the users with their accounts, Redfish sessions, virtual media and log
service on top of the number allocator and the store they share, the LAN
configuration with its monitor threads, and the event filter table. Section 6 says
what is not, and why.

## 1. The system

The library answers IPMI commands (over LAN, KCS, IPMB) and REST/Redfish requests,
monitors sensors, and keeps its settings in files, an sqlite table and JSON
documents. The main program, with the RMCP server, the KCS loop and the calls that
start the threads, is not in the repository. Everything runs in the threads of one
process: IPMI handlers, REST handlers, the sensor monitor, a LAN monitor per
channel, one task per Redfish session, an IPMB receiver per bus. `ipmi_handle_app`
holds a mutex (`libs/apps/apps.cpp`); storage, sensor, chassis and transport
commands take no lock, and neither do the monitor threads. How many commands the main
program serves at once is not known here: the modules have one storage, SDR or LAN command at a time, but for
SelSteps, where writers interleave. Web threads and the tasks of Redfish sessions run side by side.

| Component | State | Operations | Talks to | Hard behaviours | What makes it correct |
|---|---|---|---|---|---|
| **System Event Log** `libs/sel/sel.cpp` | `g_sel_hdr`, `g_sel_data`, `sel.bin`, `g_rsv_id` | add, delete, clear, reserve, get, REST list, start-up | sensors, chassis, REST, IPMI handlers | unlocked writers, failing stores, power loss between two stores, a full log, a shared reservation id, walks during changes | capacity, acknowledged records survive, the file mirrors the cache, only a valid reservation clears, walks are complete and end |
| **Sensor monitor** `libs/sdr/sdr.cpp` | `sdr_rec`, thresholds, `host_state`, `t_count` | sweep, check, set threshold (IPMI, REST), clear repository, reserve and read records | SEL, D-Bus readings, Redfish | a counter across sweeps, change detection, clear during a sweep, thresholds changed between visits | every sensor is checked, every change into an alarm is logged, a standing alarm is noted |
| Command dispatch `libs/apps/apps.cpp` | global enables, watchdog bytes, `m_app` | route, start-up (`plat_ipmi_init`) | all handlers | lock for one net function only, codes overwritten after the call | the caller learns what happened |
| LAN configuration `libs/network/network.cpp` | parameters, `lanConfigChanged`, `lockFlag` | set/get LAN parameters, monitor thread | OS network tools, JSON file | settings made while the monitor sleeps or applies, lost wake-ups | an acknowledged setting is applied eventually and only once |
| IPMI sessions, SOL `libs/session`, `libs/sol` | `ipmiSession[5]`, `sol_activate` | set privilege, close, activate/deactivate payload | users, main program | close of an unknown session, counter under-run | counts match the table, only the named session closes |
| Users `libs/user/user.cpp` | `ipmiUser[10]`, `usercount`, sqlite table, Redfish accounts | add, rename, password, delete, load, save | REST, Redfish accounts | compaction on delete, three copies of one table | no gap below the count, the copies agree, a restart changes nothing |
| Redfish sessions `libs/redfish/resource.cpp`, `util.cpp` | session collection, remaining time, number sets | login, renew, logout, expire | web handlers, registry | timer task against requests, numbers running out | a token is valid until expiry or logout, never after; numbers are unique |
| Redfish log service `libs/redfish/resource.cpp` | entries, `record_count` | new entry, clear | sensors, chassis | bound, names reused after a clear | no more entries than the maximum, ids unique |
| Redfish registry `libs/redfish/record.cpp` | `g_record`, JSON files | add, save, delete, load | everything Redfish | files left behind, restart | files and registry agree |
| Event filters and policies `libs/sel/efte.cpp`, `pef_policy.cpp` | filter file, policy table | add, change, delete, match | SEL events | count stored before the entry | count and entries agree |
| Chassis, DCMI `libs/chassis`, `libs/dcmi` | restart policy and cause, power limit | control, policy, limits | GPIO, SEL | policy encoded and decoded differently | what is set is what is read back |
| Channels `libs/channel` | access settings | set/get access | sessions | shifts and masks | what is set is what is read back |
| IPMB `libs/ipmb/ipmb.cpp` | `rx_buf`, `rx_done`, `gseq` | send and wait, receive | I2C | a late answer taken for the next one | an answer belongs to its request |
| FRU `libs/fru/fru.cpp` | `fru_rec`, file | get info, read, write | Redfish | offsets | a read returns what was written |
| Web handlers `libs/web` | none of their own | JSON requests | the components above | no locking | |
| Device access, settings, energy | none or files | read devices, write files | | Newton iteration without a bound | |

`PROJECT.json` lists the hazards of each, line by line; those no property covers
carry a note.

## 2. Modules

```
EventLog        the promise: a bounded sequence of events
   ^  refinement (SelRefines)
SelLog          the log, one step per handler, failing stores, restart
   |-- SelReservation   clients that share the reservation id
   |-- SelReaders       Get SEL Entry walks and the REST listing loop
   |-- SelDurable       what Add SEL Entry owes its caller across failures
   |-- SelSteps         the writers statement by statement, power loss, threads
   '-- Sensors          monitor, thresholds and alarms on top of the log
SensorScan      which sensor a sweep checks; used by Sensors
SdrRepository   clients that reserve and read the sensor data records

RedfishCollection   members, objects, files and numbers, as operators
   |-- Users            users, their table and accounts, commands and web threads
   |-- RedfishSessions  log-in, timer, continuation, log-out
   '-- RedfishStore     virtual media and log entries with their common store
LanMonitor      Set LAN Configuration, monitor threads, the file of eth1
EventFilters    the filter table in memory and on file
```

`MC...` modules give TLC its constants; some put two modules side by side, with a
variable `part` that says which of them a behaviour is about. `...Proofs` modules
hold theorems.

### How state and actions correspond to the code

**SelLog.** `log` is `[end, data]`: `g_sel_hdr.end` and `g_sel_data`; `begin` is only
ever assigned `SEL_INDEX_MIN` and is a constant. `file` is the same two in
`/conf/ipmi/sel.bin`. `rsvId` is `g_rsv_id`, `enabled` bit 3 of `global_enabler`, `cc`
the completion code of the last response. A record is its id and its event; time
stamps and formatting are left out. `AddEntry`, `DeleteEntry` and `EraseAll` give the *set* of
outcomes of `plat_sel_add_entry` (with the marker of `add_to_sel_full`),
`delete_sel_entry` (with `file_store_all_sel_data`) and `plat_sel_erase`; with
`StoreMayFail` it includes every point at which a store can fail, in the two ways the code
has: `fopen` or `fseek` fails and the caller is told, or the buffered bytes are lost at
`fclose`, whose result is ignored, and the caller is told of a success. Nothing keeps a delete
from an empty log: `end` may be negative, as far as `MaxBelow`, and an addition at
`end <= -2` copies its record in front of the array, where none of the modelled state is. Actions are the
storage commands `StorageRsvSel`, `StorageAddSel`, `StorageDelSelEntry`,
`StorageClrSel` with `EraseStatus`, `RefusedCommand` (logging switched off), the sensor command
`PlatformEvent`, the controller's own `InternalEvent`, `SetGlobalEnables` and
`Restart`.

**SelReservation, SelReaders, SelDurable** wrap these actions with what clients
remember: the id a client was given; the position and the records of a walk or
listing; the records a caller was told are stored. Those are history variables,
except a reader's position, which is the id the client asks for next. SelDurable keeps apart
what was acknowledged (`owed`) and which of it has reached the file (`kept`).

**SelSteps** splits the writers where another thread or a power loss can come:
test, measure, number, copy, load and store of `end++`, header store, record
store; shift, cut, the renumbering loop; reset. Its two properties for one writer
say that SelLog's single steps are right; with two threads it shows what the
missing lock costs.

**SensorScan** is the loop of `update_sensor_reading`: `pos` is the iterator, `ticks`
is `t_count`. **Sensors** adds `thresh` (in `sdr_rec`), `alarm` (`host_state`), `filled` (whether
`sdr_rec` has entries) and `saved` (the thresholds in the Redfish files), `VisitSensor` with `CheckEvent` (`check_event_occured`, through
SelLog's `InternalEvent`), `SensorSetThreshold`, `RestSetThresholds`,
`ClearSdrRepository`, `ClearSel` and `SensorsRestart`, after which thresholds are what
`ReadBack` makes of the files: `record_load_json` finds no sensor by its saved name and
loads each file into sensor 0.

**SdrRepository.** `entries` is how many records `sdr_rec` has, `rsvId` is `g_rsv_id`
of `sdr.cpp`, and `walk` what each client does: `ReserveSdr` (`storage_rsv_sdr`) and
`GetSdr` (`storage_get_sdr`, `plat_sdr_get_entry`), with the low byte that Get SDR
takes of the reservation id. A client that is refused reserves again and goes on
or starts over: clients are external.

**RedfishCollection** has no state. A collection is its vector of members, the objects in
`g_record`, their JSON files, `dir_list`, `numset` and `numset_num`; the operators are
`allocate_numset_num`, `delete_numset_num`, the member walk and erase,
`resource_save_json`, `delete_resource`, `record_save_json` and `record_load_json`.

**Users.** `users` is `ipmiUser`, `table` its sqlite table, `col`, `account` and `filed`
the account collection, what each account says and what its file says. Commands
(`SetUserAccess`, `SetUserName`) are single steps under `m_app`; each web thread has its
place in `rest`: Set_User is cut into `BeginSetUser`, `NewAccount`, `NameUser`,
`FinishUser`, and Del_User into `DeleteUser`, `DeleteAccount`. `PlatUserSave` is ten
autocommitted updates of table rows and then the accounts one by one: it happens whole, or
the power goes after any number of these stores (`CutSave`), which includes the gap
between the save of `DeleteAccount` and the removal of the account. After a cut, a write
past the array or through a null pointer `broken` is set and only `Restart` follows.

**RedfishSessions.** `left` is `_remain_expires_time`, a counter of `Width` values. Each
session's task is at the timer's test, its decrement, or in its continuation, which is cut
wherever another thread can come: `Find` (the walk), `Release` (the number), `Destroy`
(`delete *iter`), `Erase`, `RemoveFile`. `place` is the iterator, so `Destroy` and `Erase`
work on whatever is there by then. A task that uses a deleted object, or an iterator into a vector that has moved,
is `"undefined"`: what follows is not modelled, but for a restart. Log-in and log-out
are in the main program and are external; of log-out the source says that it sets the remaining time
(`resource.cpp:681`). The collection's own file, saved last, is not read for members and is left out.

**RedfishStore.** `media` with the uploads under way, ejected and deleted, and
`entries` with `record_count` of the log service, both through the same
`SaveStore` and `RestartStore`.

**LanMonitor.** `config` holds address and mask of each channel, `changed` is
`lanConfigChanged`, `locked` is `lockFlag`; the command is cut into `Flag`, `Lock`, `Notify` and
`PlatNetworkSave`, the monitor into `Test`, `Block`, `Clear` and `Unlock` with spurious
wake-ups. `file` is the file of eth1, `countt` the counter of saves, `SetNetwork`
and `SetDhcp` are the web page. `recent` (the last three saves, of whichever channel) and `web` are history.

**EventFilters.** `filters` is `g_eft_data`, `eft` the file with its number of filters, control
byte and entries; `SetFilter`, `SetPefEnable`, `SetPefCtrl` are the PEF parameters 6, 7 and
1; `InitEntry` and `LoadFilters` are `set_eft_init`; `CutShort` stops the program at any
point within a store. That the main program calls `set_eft_init` before it serves
commands is an assumption, since nothing else loads the file. `sent` and `control` are
history.

Definitions named `...Mutant` are plausible mistakes in the definition after them.
They are part of no specification and show that the properties can fail.

## 3. Runs

| Run | Question | Result |
|---|---|---|
| `sel_log` | one step per handler, stores succeed, the empty log may be deleted from again and again | the end never passes the capacity, file mirrors cache, ids stay in step but for a restart, a delete repairs them and removes the given record only, full marker, only a clear releases a negative end, EventLog is implemented |
| `sel_reservation` | three clients, one counter | live ids differ, the latest holder can clear, only the latest clears |
| `sel_readers` | a walk or a listing among writers, negative ends included | undisturbed walks are complete, undisturbed listings of a log without a negative end are prefixes, all of them end if the end stops being negative |
| `sel_faults` | failing stores (told and silent), power loss and restarts, for whole handlers and for one writer statement by statement | a record whose own stores reached the file survives whatever fails later; every return and every power loss is an outcome of SelLog |
| `sensors` | monitor, thresholds, log, restarts | a change into an alarm is the next record, lasting excess ends in the right alarm |
| `users` | commands beside two web threads, saves cut by power losses, restarts | account numbers stay apart, a delete closes the gap, no cut save loses a user from the table |
| `redfish` | sessions whose continuations interleave with log-ins, saves and restarts; or media; or log entries; or the LAN configuration of two channels | open sessions are members, registered and numbered, they end, and an ended one returns only if its removal was cut; media keep their numbers; the log counts its entries; a save leaves what is registered; the file of eth1 is two saves old at most; while settings are made no channel stays locked |
| `platform` | the sweep beside two SDR clients, or the filter table with crashes | checks fall on the sensors the common divisors allow, again and again; a finished walk has all records; a client alone finishes; filters read back as set |
| `v_two_writers` | two unlocked writers | the log passes its capacity (finding) |
| `v_every_sensor` | is every sensor checked? | half of the 30 never are (finding) |
| `v_fixed_users` | are root and admin safe from a delete? | the web page blanks them (finding) |
| `v_other_session` | does a continuation delete its own session only? | two that overlap delete a third whose time is not over (finding) |

### Bounds, and why they suffice

* `RecordsMax` is 3 or 4 instead of 255. 3 is the least value at which
  "one place left" differs from "empty" and from "full". Nothing in the code
  depends on the capacity but through comparisons with `RecordsMax`,
  `RecordsMax - 1` and `RecordsMax - 2`; the theorems hold for all of them.
* `RsvMax` is 1 to 3 for the log, so that the counter wraps during a run. For the SDR
  it is 5 with bytes of 4, so that it passes a byte and wraps.
* Two events where order matters, one where it does not.
* `MaxBelow`: deletes of the empty log take `end` down one by one. The code has no limit; the model
  stops them at 3 below zero in `sel_log`, 2 in `sel_faults` and `sel_readers`. -1 counts as full, -2 and -3
  accept events, so each kind of negative end and the way back up to -1 are there. (At -15 a record would be
  stored over the header in `sel.bin`; the theorems hold for every `MaxBelow` up to 14.) The runs about
  reservations, sensors and two writers have 0: an end below -1 adds nothing to what they ask.
* `sel_readers` has one event, one reader and a listing of at least two records; `sel_faults` stops after
  six handlers, or four calls of the one writer, restarts not counted: enough to fill a log of three, to delete from
  and clear it, with any of the stores failing.
* `v_every_sensor` runs at the real values, `platform` with four sensors and a period of six
  visits, whose common divisor is 2 as well. `sensors` has two sensors and a period of 3
  visits, so that both are reached and sweeps and checks overlap differently; three alarm levels are
  reachable and the log fills after a few events.
* The repository is cleared only between two sweeps: in the middle of one, or with
  a reading after it, the code has undefined behaviour (a dangling map iterator) with no bounded
  set of outcomes.
* `users`: four places (root, admin, one in the middle, the last one), three account numbers so that the
  allocator wraps, two free names (interchangeable), three requests and two power losses or restarts:
  two additions and a deletion in any interleaving, with a save cut in between and one more after it.
* `redfish`: three numbers, two sessions at a time, a time-out of two seconds on a counter of three values, so that
  the decrement that wraps is reached; a log of one record. `v_other_session` needs three sessions and makes do with
  one second. One address and one mask with a reading of zero for each, channels 1 and 6. The parts of the
  instance share nothing: media and log only the save and the restart, the file of eth1 and the LAN monitors only the
  commands.
* `platform`: two records of which the first has two ids, three filters.

### Fairness

SelReaders assumes weak fairness of each reader's next request: a client that
started a walk goes on asking, the loop of the listing runs in its thread. Writers
get none. SensorScan and Sensors assume weak fairness of the next visit: the
caller's loop runs in a thread that does nothing else. `StandingAlarmIsNoted` states its own
premise (readings stay above the limits and thresholds are left alone from some
time on), so no fairness of clients or the log is needed. RedfishSessions assumes it of each
task, which the thread pool runs on, and of no client; `EverySessionEnds` supposes that
restarts end, since each gives a session its whole time, and ends its claim at an undefined step. LanMonitor assumes it of each
monitor thread, not of the commands: `NextSettingWakes` supposes that settings go on.
SdrRepository assumes that a client which started to read goes on asking;
`SdrWalkEnds` supposes that the others stop, because two clients can starve each other.

## 4. Proofs

tlapm checks the theorems with the constants' named assumptions
(`RecordsMax >= 3`, event sets disjoint from the markers, and so on, all
of them evaluated by TLC in the runs) and, where stated, one more.

| Module | Theorems | Argument |
|---|---|---|
| `SelLogProofs` | `TypeCorrect`, `CapacityIsKept` | `IInv`: log and file lie in `BoundedLogs`, a type with `end <= RecordsMax` and `end >= -MaxBelow`. `TypeOK` is not inductive: a record added at `end` carries it as its id, which is a legal id only because `end` is bounded; and the upper bound is kept because an equality test recognises the full log exactly when `end` was bounded before. Holds with failing stores and restarts, for deletes as far below zero as `MaxBelow` allows; nothing is claimed of additions in front of the array |
| | `NegativeStaysNegative` | with stores that succeed: cache and file agree on a negative end, so that a restart brings it back, and at -1 the count says full; with failing stores a restart may bring back an older, usable log |
| | `MirrorIsKept`, `IdsStayStable`, `DeletesRenumber`, `DeletesRemoveGiven`, `FillingLeavesMark` | with stores that succeed; lemmas per operation (`AddEntry...`, `DeleteEntry...`, `EraseAll...`) over `IInv`; the marker needs `FileMirrorsLog` as well, since a restart may refill the log |
| `SelPromiseProofs` | `Implementation` | every step of SelLog maps to a step of EventLog or a stutter; a log with a negative end is an empty one, and an addition to it, acknowledged or not, a stutter |
| | `HoldersAlwaysDiffer`, `LatestCanAlwaysClear`, `OnlyLatestEverClears` | `RInv` ties a live client's id to the counter: it lies `age` reservations behind it on the ring of ids, so equal ids mean equal ages, and two clients never have the same age |
| | `AckedIsDurable` | `DInv` adds to `IInv` that owed places lie below `end` in the cache and hold what was acknowledged, and that the kept ones do in the file too, as long as the last delete reached it. Silent losses at `fclose` are among the outcomes: such a record is owed, not kept, and gone after a restart |
| `SelThreadsProofs` (calls that do not overlap) | `WritersReturnAsOneStep`, `WritersKeepCapacity` | `TInv`: between any two statements, log and file are what the statements before the program counter make of the log and the file of the call's beginning. With any number of writers the theorems are conditional on `[]OneAtATime`, because the code takes no lock; `v_two_writers` shows that the condition is needed for the capacity. With one writer it always holds: `OneWriterReturns` has no condition |
| | `InterruptedWritersAreOneStep` | also where stores may fail (`StoreMayFail`): a power loss before the store leaves what a failed store leaves, so the one-step outcomes must include it. With one writer: `OneWriterInterrupted` |
| | `WalksAreComplete`, `ListingsArePrefixes` | `RInv`: as long as the log was only appended to, what a reader has seen is the prefix of the log up to its position, and what it has counted is not more than there is. With an end that deletes took below zero a walk only ends after it was disturbed, by the clear that releases it |
| `SensorsProofs` | `ScanReaches` | `ScanInv`: but for the first visit after a start, `pos = ticks + 1` modulo every common divisor of the sensor count and the period |
| | `ChangesAreLogged` | every step that changes an alarm into another is a visit that places its record first; the marker of a filling log goes behind it, and a failing store leaves it in the log |
| | `SensorsTypeCorrect`, `OnlyReachedAlarm` | `SInv` joins `IInv`, `ScanInv` and the alarm table |
| `PlatformProofs` | `WalkIsComplete` | `SdrInv`: a client that asks for record `next` has got exactly those before it; the first record, which has two ids, is a case of its own |
| | `FiltersAreReadBack` | `FilterInv` joins types and the property; the number on file never falls, so that no later store hides a filter |
| | `LanTypeCorrect`, `FileStaysRecent` | `LanInv`: the file's configuration is among the first `countt + 1` of the last saves, and the third save, which would push it out, writes it anew |
| `RedfishCollectionProofs` | lemmas | the least of a set of numbers, a free number, erase, join, save and load of a collection |
| `RedfishProofs` | `SessionsStayOpen`, `EndedStayAway` | `InStep`: as long as no step was undefined, what a continuation has done is what its task says: its number is out from "released" on, its object from "destroyed" on, and a file without an object is that of a task about to remove it. Any number of continuations interleave; a step at a place that has moved leaves an undefined task, and a restart is in step again |
| | `MediaStayNumbered`, `CountAlwaysFollows`, `SavesMatchRegistry` | `MediaInv`: members are objects, objects have numbers, uploads have numbers that no object has; `EntriesInv` bounds the counter also where nothing set it |
| `UsersProofs` | `AccountsStayNumbered`, `CutSavesLoseNobody` | `UInv`: table and users are equal after every step but a cut save, no number belongs to two members. A delete moves users down, so a row that is not written yet holds a user whose new row is |
| | `DeletesCloseGap`, `UsersTypeCorrect` | `DeletedCounted`: what `get_user_cnt` counts after a delete, from the first free place alone, for full tables too; types with the requests under way |

Only model-checked: the six liveness properties (`WalksEnd`, `ReachedAreChecked`,
`StandingAlarmIsNoted`, `EverySessionEnds`, `NextSettingWakes`, `SdrWalkEnds`), which are
beyond the prover because of their fairness, and the properties of the four `v_` runs, which
are false. Every invariant and action property of the passing runs is a theorem.

## 5. Findings and observations

The four findings above are in `PROJECT.json` with the lines they contradict.
Further disagreements seen while modelling, part of the model where it reaches
them but without a run of their own:

Log and sensors

* Deleting a record id that no record has removes the last record.
* A platform event that the full log refuses is answered with success, and so is a
  delete whose store fails.
* Set Sensor Threshold answers success and sets nothing for any sensor but the first.
* `plat_sel_num_entries` is not always `end - begin` as its comment says: after a delete of
  the empty log it counts it as full. After a second one it does not, and events are acknowledged and copied in front
  of `g_sel_data` until they have taken the end up to -1. A listing of such a log shows
  records deleted long ago, and a client that follows the next-record ids reads them over and over until somebody clears
  the log.
* The results of `fwrite` and `fclose` are not looked at together: a header or record that is lost when the
  buffer is written was acknowledged, and is gone after a restart.
* The first record has id 0, which `sel.hpp` rules out.
* A full log that lost one record and fills again has no marker.
* `file_store_all_sel_data` saves the array before it has renumbered it, so a restart
  brings back old ids.
* Get SEL Entry reads the 16-bit record id, and Get SDR the reservation
  id, from their low bytes only: an SDR reservation above 255 is refused whatever the client sends.
* A sensor set to the threshold 0xDF cannot be set by REST any more: that value means "not
  available".
* Clearing the SDR repository leaves the monitor with a dangling iterator, or lets a
  reading use an entry that is not there.
* After a restart the thresholds of every sensor file, scaled as those of sensor 0, end up in sensor 0, the last
  file winning; the other sensors have the compiled-in ones again.

Users and Redfish

* Del_User takes two users: the one behind the account's number, and the one with the
  number; the object it deletes afterwards is that of the next member. With an account
  number past the array it writes past it.
* Set_User takes the place of the first free user when it starts; a full table sends it past the
  array.
* Disabling a user stores the privilege and leaves the user enabled.
* `plat_user_save` copies users to accounts by number, while Set_User gives an account the next free number, which need not be
  that of the place its user has: an account may take the values of another user.
* The ten updates of `make_user_db` are no transaction: a delete cut between two of them leaves a user twice in the table.
  A power loss between the save and `delete_resource` brings the deleted account back.
* `record_count` of a log service is set by ClearLog only, and one record more than the
  maximum is kept.
* Permanently deleted media are back after the next save and restart: objects and
  numbers stay registered.
* A session stays valid between its log-out and the timer's next test, and if the log-out
  falls between test and decrement, for `Width` seconds more. `EverySessionEnds` holds
  all the same, as it does for 2^32 seconds.
* A power loss within a continuation, between the deletion of the object and the removal of its file, brings the session
  back with its whole time.
* A continuation gives its number back before its session has left the collection; a log-in in between makes a second
  session of that number.

LAN and filters

* The web page writes the file of eth1 whichever interface a change is for, and later IPMI saves undo it.
* The counter of saves is one for all channels: the save that comes third writes the configuration of its own channel into the
  file of eth1, and a restart gives eth1 that one. `FileIsRecent` bounds the age of what is there, not whose it is.
* The monitor clears all flags after it has slept: a setting made meanwhile loses its
  flag. Nothing is lost by that as the code stands, since `set_ip` returns at once and
  no setting is applied by the monitor.
* The number of filters on file is meant to be taken back when a store fails, but
  `*size--` moves the pointer.
* A crash between the creation of the file and its first byte leaves one that
  refuses every filter until the control byte is set; commands are answered
  with success all the while.
* Filter 0 overwrites the control byte. The branch that fills a new file with the default filters is
  never taken, and filters 1 and 2 are overwritten at each start. Filters above 6 are
  written outside the array. The setter of alert policies always writes the first one.

## 6. Not modelled

* **IPMI sessions and Serial over LAN.** Their table is filled by the RMCP server of the main
  program, which is not in the repository. Without it no reachable states are known for
  what is here: closing an entry, setting a privilege, decrementing counts.
* **IPMB.** A late answer may be taken for the next one, but the callers are commented out
  or outside the repository, and how the device orders messages is not in the code.
* **Chassis, DCMI, Channels, settings, DDNS, watchdog bytes.** Registers that are set and
  read back by one command after another, and I/O: a unit test shows what a model could.
* **Alert policies.** An array in memory with one setter, see Section 5.
* **FRU inventory.** A layout of areas, read only.
* **Redfish resource classes** other than those above build and read JSON
  documents and keep no state over time.
* **Device access, energy calculation.** Device I/O; regression over floating-point
  numbers, which TLC does not evaluate.
* **Vendored and generated code** (Eigen, CMake files), which is most of the repository's lines.
* Of modelled components: passwords and the remaining flags of a user, copied like the
  privilege; LAN parameters that are only stored and read back; the action global
  control of PEF, stored like the control byte; time stamps and texts of records and
  entries; `sdr.bin`.

What could still be proved: durability of what was acknowledged (`AckedDurable`) over the
split writers of SelSteps, and that SelSteps with one writer implements SelLog, with an
interrupted call as one outcome and a restart together.
