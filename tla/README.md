# Verification of the LwM2M client

TLA+ models, TLC configurations and TLAPS proofs for the LwM2M client in
`src/src/wakaama-client` (file names below are relative to that directory).

The program is one single-threaded process. `main` builds eight LwM2M objects,
hands them to the Wakaama engine (a git submodule that is not in the tree) and
then loops: step the engine, recover or back up, `select`, handle one datagram
or one typed command. What makes it hard is not parallelism but order: SIGINT
interrupts the loop anywhere, the bootstrap server rewrites the accounts while
a backup is kept, a failed session must be undone, and requests of several
resources are applied one by one until one is refused.

## Inventory

| Component (files) | State | Operations | Interacts with | Hard part | What makes it correct |
|---|---|---|---|---|---|
| Main loop and shutdown (`lwm2mclient.cpp` 763-1347) | `g_quit`, `g_reboot`, `previousState`, `result` | loop test, engine step, recover, backup, select, datagram, command, close, clean-up | engine, all objects, SIGINT | SIGINT between any two steps; socket before stdin | quitting ends the process; recovery only with a backup |
| Bootstrap backup (`lwm2mclient.cpp` 644-738) | `backupObjectArray` | backup, restore, close | Security and Server objects | sessions that fail, restart, repeat; shared buffers | a session is a transaction; memory is safe and restore exact while no buffer is shared |
| Security object (`object_security.cpp`) | instance list with owned pointers | read, write, create, delete, copy, clean | backup, connection set-up | who owns a buffer depends on the mode, which a server changes; a URI that is not there | as above |
| Server object (`object_server.cpp`) | instance list, optional resources negative when absent | read, discover, write, create, delete, execute, copy | engine, backup | half-applied requests, conversions, four tables of what exists | fields in range; read, discover and list agree |
| Access Control object (`object_access_control.cpp`) | instances, each with a list of rights | read, write (partial or replacing), create, delete | engine | roll-back in the middle of a list; lists that name an entry twice | writes give what was asked, refusals leave the rights |
| Start-up (`lwm2mclient.cpp` 763-1105, `object_security.cpp` 548-620) | options read so far | read an option, fail, create the account | Security object | options in any order, values that look like options | options mean the same in any order |
| Device object (`object_device.cpp`), timers (`lwm2mclient.cpp` 525-551, 1114-1146), `system_api.cpp` | time offset, UTC offset, error, battery; reboot time | read, write, execute, change | main loop through `g_reboot` | delays, a loop that spins in the last second; a field of text written over and over | the reboot happens on time; what is read is what was last accepted |
| Firmware object (`object_firmware.cpp`) | update state and result | write, execute Update | engine | a state that is never left | the update state machine |
| Connectivity statistics (`object_connectivity_stat.cpp`) | counters, average | reset, count | main loop counts received bytes | order of updates | counters match the traffic; an average is an average |
| Connectivity monitoring (`object_connectivity_moni.cpp`) | two addresses, measured values | read, change | value changes | ranges | values in their ranges |
| Location (`object_location.cpp`) | position, velocity | read | none | none | reads and the list agree |
| Connections (`tools/connection.c`, `tools/mbedtlsconnection.c`, `tools/object_utils.c`, `lwm2mclient.cpp` 208-279) | list of connections, DTLS receive buffer | connect, find, handle, close, free | engine, sockets, mbedTLS, Security object | a field that is not initialised; one datagram read in slices; keys that cannot be used | list, memory and sessions agree; octets are read in order; nothing in the clear |
| Command line (`tools/commandline.c`), value changes (`lwm2mclient.cpp` 129-206) | none | dispatch; read, change, notify | objects, observers | which function accepts a change | observers are told of what changed |
| Platform (`tools/platform.c`) | heap | malloc, free, strdup | everything | strings against binary values | copies equal originals |
| `tools/dtlsconnection.c`, `tools/tinydtlsconnection.c` | - | - | - | not compiled by any build file | - |

## Modules

| Module | Models | Checked by | Proved in |
|---|---|---|---|
| `ObjectTransaction` | abstract: a bootstrap session is a transaction on the account objects | refined by `Lwm2mClient` | `Lwm2mClientProofs` |
| `Lwm2mClient` | main loop, bootstrap recovery, shutdown | `MCLwm2mClient` | `Lwm2mClientProofs` |
| `SecurityBackup` | heap of the Security object and its backup | `MCSecurityBackup` | `SecurityBackupProofs` |
| `ServerObject` | Server object | `MCServerObject` | `ServerObjectProofs` |
| `AccessControl` | Access Control object | `MCAccessControl` | `AccessControlProofs` |
| `Device` | data of the Device and Firmware objects, the operations on them | with `ManagedClient` | `DeviceProofs` |
| `ObjectReads` | the read functions of objects 0 and 3 to 7, and discovering 3 | with `ManagedClient` | `ManagedClientProofs` |
| `ManagedClient` | the clocks at the head of the main loop, composed with `Device` and `ObjectReads` | `MCManagedClient` | `ManagedClientProofs` |
| `Startup` | the option loop, the key and the hardcoded account | with `Connections` | `ConnectionsProofs` |
| `ConnectivityStats` | data of the Connectivity Statistics object | with `Connections` | `ConnectionsProofs` |
| `Connections` | connections from opening to shutdown, composed with `Startup` and `ConnectivityStats` | `MCConnections` | `ConnectionsProofs` |
| `FiniteRecursion` | nothing: facts about induction and recursion over 0..n | - | itself |

`Lwm2mClient` abstracts what `SecurityBackup` and `ServerObject` detail:
`objects.security` and `objects.server` are one value per instance there.

### Lwm2mClient

`pc` is the place in the loop: `loop` (line 1109), `timers` (1114), `step`
(1158), `result` (1184), `info` (1202), `select` (1208), `close` (1315),
`cleanup` (1326); the process ends in `closed`, in `failed` (return -1, line
1196) or in `rebooted` (`exit(1)`). Each action is one stretch of `main` between
two points where SIGINT matters. `Step` takes any result that the engine may
return in its state (`EngineOutcomes`, written from how Wakaama's states are
used in `main`; external): an error can come with any state, and a session that
has finished goes on with registration in the same call. A datagram may write
the accounts (by the bootstrap server while bootstrapping, the Server object by
a management server when registering or ready), ask for a reboot, or change
nothing here. `session`, `good` and `asked` are history variables that no guard
of the loop reads.

The reboot delay is not a clock here: once `g_reboot` is set, each iteration may
find it expired or not. `ManagedClient` has the clock.

### SecurityBackup

A heap of cells, with the live object and the backup pointing into it.
`OwnedPointers` is what `clean_security_object` frees and what
`copy_security_object` duplicates; the other pointers are copied, so both
objects share the cell. Freeing or reading a free cell sets `misuse`. A server may
write any of the pointer resources in any mode and change the mode at any time
(`Write`, `WriteMode`), create an account without a URI (`Create`; the resources of
the request are writes) and have a creation refused half-way (`CreateRefused`).
Copying an account without a URI ends in `crashed`. `Binary` are values with a zero
byte, which `lwm2m_strdup` cuts. The phases idle, session and closing are the order in
which the main loop calls the operations.

Not all of that goes well, and the violation runs say what does not. What holds
is said with `whole`, a history variable: every instance copied so far was
`Duplicable`, that is, had its URI, keys in PSK mode only and no server key when it
was copied. It speaks of the moments of copying only: between them a session may do
what it likes.

### ServerObject and AccessControl

`instances` maps an instance id to its fields. A request is a sequence of
resources; `Written` (`WriteResources`) applies it from left to right up to the
first refusal and keeps what came before, as the loops of `prv_server_write` and
`prv_write_resources` do. Values carry what decoding them gives: a number, a
Boolean, a string or nothing of use. Integer limits of the Server object are
constants with `MaxUint = 2 * MaxInt + 1`, so that the conversion to a signed
int is what the build does at any width. Error codes other than accepted or
refused are left out.

Which optional resources of the Server object exist is said four times in the code,
and so here: the tests of the getter (`ValueTests`), the list of a whole read with
the loops that take resources from it (`ReadList`, `ReadRemovals`), that of a whole
discovery (`DiscoverList`, `DiscoverRemovals`) and the switch of a discovery of
single resources (`DiscoverTests`). Each is transcribed from its own lines as pairs
of a field that is tested and a resource that goes.

In the Access Control object a list is written as the code does it: the old one is
saved, a partial write duplicates it (`Duplicate`), the entries are added or
replaced one by one up to the first that cannot be read (`Build`), and then either
the new or the saved list stays (`AclWrite`). A request may name an entry twice: a
replacing write then keeps both, because `prv_add_ac_val` does not look, and a
partial one the last value. `LWM2M_LIST_ADD` keeps entries sorted; it is not in the
tree, so among entries with equal ids the place is left open (`PlaceFor`).
`ReadInstance` is `prv_read` of the Access Control object, which alone skips what is
missing: the loop moves the rest to the front of the array it walks over
(`CopiedBack`). Which resources are in the answer is modelled, not their encoding.

### Device, ObjectReads and ManagedClient

`ManagedClient` is the same loop seen from its clocks: `loop` is line 1109,
`step` is 1158, `select` is 1217. `now` is `lwm2m_gettime()` in seconds. It
passes freely while `select` waits, but never beyond `wake`, the time at which
its timeout ends, and by at most one second in the rest of an iteration (`slow`).
The engine may shorten the timeout (`Step`). The code takes 0 for "not set", so
the clock starts at 1. `NewBatteryLevel` is `update_battery_level` with whatever
`rand` gives; `next_change_time` is its static variable.

A write to /3/0 applies its resources in order up to the first refusal
(`AppliedItems`). Without recursion, what is left of it is told per field: the
time is that of the last applied item (`TimeAfter`), and character `j` of the
offset comes from the last applied text that reaches as far (`OffsetAfter`),
because `strncpy` with the length of the text leaves what is behind. A value
typed by the user goes to the write function first and to `device_change` if
that answers 4.05 (`ValueChangeCode`). `given`, `set`, `reported`, `asked` and
`changed` are history variables. An offset to UTC that is sent as a number would be
read as a pointer; such requests are left out (`InputsAssumption`).

`ObjectReads` is the loop that all read functions are, parameterised by what an
object's switch knows (`Getter`) and the list for the whole object.

### Startup, ConnectivityStats and Connections

`Startup` reads the command line option by option; an argument is a value of
which only its use as an option, number or key matters. Its references
(`OptionPlaces`, `Asked`, `Given`) say which arguments stand where an option is
read, and what the line asks for, without the loop: the places are the least set
that holds the first one and, with each, the one after it and its value. A key with an odd number of
digits and an identity without a key read or write outside their buffers: such
starts may crash, fail or (odd key) go on.

`Connections` begins with `Startup` and goes on with what its account makes of
the client. Memory is a set of `Cells`; `deinit` of a plain connection is
whatever the memory held. `ReceiveDtls`, `Fetch`, `ReadEnds` are one call of
`dtlsconnection_recv`: the datagram is put into `recvBuffer` (an offset here),
mbedTLS asks for slices, the call comes back when mbedTLS likes. mbedTLS, the
engine and the network are external: the handshake ends at any time or never,
sends fail or not, names resolve or not.

## Runs

| Run | Question | Bounds |
|---|---|---|
| `client` | Are sessions transactions, is the backup good whenever it would be used, does every quit end the process? | one server besides the bootstrap server, two values per instance. Two values tell old from new; one further account is enough for a session that changes either object or both. All counters are finite, so all 234,618 states are reached. |
| `security_backup` | While copies duplicate every buffer: are buffers freed once and used only while allocated, is the backup out of a session's reach, is restored what was there? | one instance, six cells (two for each of live object, backup and a copy in the making; cells are symmetric), any of three resources written in either mode, two texts and a key with a zero byte. Any number of sessions; `CONSTRAINT Duplicated` stops behind a copy that shares a buffer. 112,041 states. |
| `server_object` | Do fields keep their ranges, does the binding stay terminated, does an optional resource stay? Do reading, listing and both discoveries agree on what exists? | one instance (operations touch one), INT_MAX = 3; requests of one resource from each side of every limit, and of two, one of which may be refused. All eight optional resources can be written, so every combination of them is reached. 5,120 states. |
| `access_control` | Is a write of rights what was asked, and nothing if refused? Does a read give all that is there? | one instance (operations touch one); all writes of one or two of 18 resources, among them a list that names an entry twice; all reads of up to three of seven (two missing before one that is there). 174 states, 178,014 steps. |
| `management` | Does a reboot come on time, is the battery level fresh, is what is read what was last accepted, are observers told, do the read lists agree? | delay 2, battery 1 to 2 s with a timeout of 2, idle timeout 5, clock up to 7: the idle timeout is longer than every deadline and the clock runs past all of them, so that missing one shows. Requests with one, two and three resources, refused first, in the middle or not at all, texts of all three lengths over each other. 445,240 states. |
| `connections` | Do options mean the same in any order, do list, memory and sessions agree, is a datagram read in order and counted, does nothing leave in the clear, is all freed? | all command lines of up to three of seven words and fourteen longer ones; three accounts (hardcoded, plain, DTLS) and three symmetric cells: the middle of a list needs three. Datagrams of 1 and 3, slices of 1 and 2: a rest, an exact fit and a slice beyond the end. Two datagrams per reset of the statistics. 586,851 states. |
| `graceful_quit` (violation) | Does a typed quit end without a crash? No: the memory of a plain connection is not cleared, and `connection_free` calls what it finds in `deinitFunc`. | as `connections` |
| `tx_data` (violation) | Does Tx Data grow by sending only? No: received octets are added to it, and sending adds nothing. | as `connections` |
| `user_quit` (violation) | Does a user's quit always de-register? No: SIGINT between the typed quit and line 1315 replaces the 1 by 2. | as `client` |
| `restore_server_key` (violation) | Is a server public key restored? No: the buffer is shared, and freed by the write. | as `security_backup`, keys of the server are written |
| `restore_binary_key` (violation) | Is any key restored? No: a zero byte cuts the copy. | as `security_backup`, with a binary value |
| `restore_changed_mode` (violation) | Is an account restored whose mode was changed? No: with keys kept under a mode that has no use for them, the copy shares them, and they are freed once the mode is PSK again. | as `security_backup`; only URIs and modes are written |

Read off the models rather than asked by a run, since one step shows each: creating
an Access Control instance without an Object ID leaves the 0 that the table of
object_access_control.cpp:27 excludes; `-s` alone selects pre-shared keys, although
the usage says "If not set use none secure mode" of `-i` as well; a backup of an
account created without a URI crashes (`NoUri`); and received octets enter the
average message size twice from the second datagram on, so that it can exceed the
maximum.

`CHECK_DEADLOCK FALSE` is set for `SecurityBackup` only: nothing follows its
clean-up. In `Lwm2mClient`, `ManagedClient` and `Connections` a process that has
ended stutters (`Ended`, `Stopped`), so an unexpected stop is a deadlock.

Two invariants of `management` are about operators alone and are evaluated
once, in the initial states: `ReadListsAgree` and `OffsetCheckSound`. The latter has
two references that owe nothing to the check: the quarters of an hour from -12:00
to +12:00 and, beyond, the four offsets of the Pacific, in all their spellings
(`OffsetsInUse`), none of which may be refused, and
the times of day after a sign (`IsoOffsets`), besides which nothing may pass; it
tries every text of up to three characters of the alphabet, each with every tail of
up to four of three telling characters. In between the check is lax: +12:30,
+14:59 and -12:59 pass, though no clock is set so. The comment above the check calls
the first a bug (object_device.cpp:127), and it is: the limit of the hours does not
depend on the minutes. The property does not say that the check is exact.

A run may pass only because time stops at
`MaxNow`: a reboot is therefore asked for up to `LastReboot` = 2 only, and its
deadline, 2 + 2 + 2, lies before 7.

### Fairness

`WF_vars(Loop)`: the loop runs as long as it can; `select` always has a timeout
(60 s, 5 s or less), and no handler waits for anything. No fairness is put on
SIGINT, packets or typing. `QuitStops` needs no more. `TypedQuitStops` adds
`SF_vars(RunCommand)`: the socket is served before stdin, so a typed quit is read
only if there are, again and again, moments without a waiting packet. A peer
that always has one more packet waiting defeats it.

In `ManagedClient`, `WF_vars(Loop)` and `WF_vars(Tick)`: the loop goes on and
time passes. Events (datagrams, commands, quitting) are under no fairness, so
`RebootHappens` holds also if every wait of `select` is cut short by traffic.

## Proofs

`Lwm2mClientProofs` proves, for any sets of servers and values that satisfy
`ConstantsAssumption`:

* `TypeCorrect`: `Spec => []TypeOK`
* `BackupCorrect`: `Spec => []BackupHoldsGood`
* `NoHalfBootstrapCorrect`: `Spec => []NoHalfBootstrap`
* `TransactionRefined`: `Spec => Transactional`, the refinement of `ObjectTransaction`

None of them is inductive. `IInv` adds what ties the loop together: outside a
session the objects are `good`; a session that `previousState` does not show
yet was opened by the step just taken, so nothing has been written in it; in a
session the engine is bootstrapping or has just failed; and a failed step that
the loop would recover from had a session open. `TypeOK` and `IInv` need each
other: a restore is well typed only because a backup exists. `TypeStep` and
`IInvStep` go through the actions one by one; `RestoreIsBackup`, `WriteType`,
`FactoryType` and `OutcomeType` are the lemmas about operators.
The assumption that matters is on the engine: `EngineOutcomes`.

`ManagedClientProofs` proves, for any delays, timeouts, levels and requests that
satisfy `TimersAssumption` and `InputsAssumption`:

* `TypeCorrect`: `Spec => []TypeOK`
* `RebootInTime`: `Spec => []RebootOnTime`
* `BatteryInTime`: `Spec => []BatteryFresh`
* `OffsetRight`, `TimeRight`, `ObserversRight`: `OffsetReadsBack`, `TimeRunsOn` and
  `ObserversKnow` hold in every state

The deadlines are not inductive, because they say nothing of the timeout select
was given. `RebootKept` bounds, at each place of the loop, when it is left next:
before `lwm2m_step` it is `now + tv` that must not pass `reboot_time`, in
`select` it is `wake`, each with the one second that an iteration may lose
(`Late`); a reboot that the loop has not seen yet was asked for a second ago at
most. `BatteryKept` is the same for the battery, with `next_change_time` bounded
by the longest pause. Most actions leave the clocks alone (`Elsewhere`).

`DataKept` is inductive as it is. Its content is in `DeviceProofs`: of the
positions of a request that touch a resource there is a last one (`LastOfSet`,
by the well-foundedness of the naturals, since a set of positions has no other
induction here), an accepted offset fits its field (`AcceptedFits`), so after a
request the field holds the last accepted text and its terminator
(`LastOffsetHeld`), and what a field holds is what is read (`HeldIsRead`).
`WrittenData` says what a write leaves alone. These hold for requests of any
length, which `management` shows for a handful.

Two invariants of `ManagedClient` say something of operators alone. `OffsetsSound`
is `OffsetCheckSound`; the lemmas behind it, `CheckedIso` and `InUseChecked`, hold for
all texts over digits, signs and colons: hours and minutes are told by their two
digits (`HoursAre`, `MinutesAre`), and each of the three forms is spelt out.
`ListsAgree` is `ReadListsAgree`: a list that names every resource the getter has a
value for, once, and nothing it refuses (`ListFits`) agrees with single reads.

`SecurityBackupProofs` proves, for any sets of instances, cells, resources, modes and
values that satisfy `ConstantsAssumption`:

* `TypeCorrect`: `Spec => []TypeOK`
* `MemoryCorrect`: `Spec => []MemorySafe`
* `BackupCorrect`, `RestoreCorrect`: `Spec => []BackupIntact`, `Spec => []RestoredWhole`

There is no hypothesis on what servers write; the condition is `whole`, in the
properties themselves, and the three violation runs of this module show what happens
without it (without a URI, the copy crashes). The invariant, `IInv`, says, as long as `whole` holds, that every
pointer that is set leads to a cell that is not free, that no two lead to one cell,
and that the live object and the backup share none, whatever the modes are; and that
the instances of the backup are `Duplicable`. A change of mode breaks none of that,
since only the copy of an instance that is not `Duplicable` shares a cell. It holds
between operations, while the cells inside one change: each operation is followed
cell by cell (`CopyOf` says what a copy is). `SessionInv` adds that during a session
the backup reads as the live object did at its start, up to zero bytes.

`ConnectionsProofs` proves every invariant of `connections`, for any accounts,
cells, datagrams, slices and command lines:

* `ListCorrect`, `ClosedCorrect` and `TypeCorrect` (`ListSound`, `ClosedCleanly`,
  `TypeOK`) from one invariant, `IInv`: until the process is over the list is
  without repetition and has exactly the cells that are not free, each the session of
  one server, and a call that uses a connection uses a listed one
* `PskCorrect`: `PskNeverClear`; `PskInv` says that the session of an account with
  a key is a DTLS connection, which needs that accounts do not change after start-up
* `FetchedCorrect`: `FetchedInOrder`
* `StatsCorrect`: `StatsFollowTraffic`; `StatsInv` covers the time between
  hearing a datagram and counting it. Of Tx Data and the average nothing is proved:
  the first is wrong (`tx_data`), the second is taken of both
* `SettingsCorrect`: `SettingsAsGiven`; `OptionsInv` says that the settings are what
  the options before `opt` ask for, and that these are the places that lead there

`ServerObjectProofs` proves `TypeCorrect`, `BindingCorrect`, `OptionalCorrect`,
`FullReadCorrect` and `DiscoverCorrect` (`TypeOK`, `BindingTerminated`,
`OptionalStays`, `FullReadSucceeds`, `DiscoverAgreesWithRead`), for requests of any
length and any integer limits that satisfy `ConstantsAssumption`. Type and binding
are inductive together (`Safe`). That the four tables agree is `ListsTest`: each of
them tests, for each resource, the field that stands for it.

`AccessControlProofs` proves `TypeCorrect`, `OrderCorrect`, `DoubledCorrect`,
`IdentityCorrect`, `RefusedCorrect`, `AclWriteCorrect` and `ReadCorrect` (`TypeOK`,
`EntriesOrdered`, `DoubledByOneList`, `IdentityFixed`, `RefusedKeepsRights`,
`AclWriteAsAsked`, `ReadGivesWhatIsThere`), for requests, lists and reads of any
length, and lists that name an entry more than once. The invariant, `Safe`, says that
every list is sorted and every field fits. The rest follows the loops: a duplicate
is made of the same entries; after `k` entries
of a list the new one says what the entries so far and, in a partial write, the old
list ask for (`BuildMakes`); after `k` turns of `prv_read` what was found is at
the front in its order and what is behind `k` is as it was (`ReadOneSqueezes`).

These loops are recursive functions. The library's induction takes an operator
as a parameter, which the provers cannot instantiate, so `FiniteRecursion` states it
for sets instead: a set of naturals has a least element (`LeastElement`), a set that
holds 0 and with `k - 1` also `k` holds all up to `n` (`SetInduction`), and a function
that takes a step at a time exists (`Recursion`). It is stated for functions of steps
whose values stay in a given set, which every loop here provides.

Every safety property of the passing runs is proved. Only model-checked are
`QuitStops`, `TypedQuitStops` and `RebootHappens`: liveness under fairness, which
needs ENABLED, is beyond the prover. The violations are TLC's counterexamples.

## Not modelled, and why

* The engine (CoAP, registration, observation, TLV) is external: only its
  results are.
* Allocation failure: the client does not survive it in most places.
* Printing, dumping, and the splitting and number parsing of the command line:
  no state.
* mbedTLS: the handshake, records and retransmission. Two application records in
  one datagram are therefore not told apart.
* What nothing calls: `connectivity_moni_change`, the setters of the Location
  object, `conn_s_updateTxStatistic`,
  `connection_new_incoming`, `object_get_str`.
* Values that are only read (manufacturer, voltages, cell id, positions): the
  read functions are modelled by which resources they know.
* The two DTLS files that are not built.

Smaller facts met on the way, which no property states: Reset Error changes the
error code of the Device object without telling observers; an offset to UTC sent as a
number is read as a pointer; an error of `lwm2m_step` outside a bootstrap leaves
`main` without closing anything; the command `^C` of the help has no callback;
`serverUri` has 50 characters whatever the host; the link utilisation starts at 666
of 100.

## Plan

1. Scalar resources of the Security object and the answers of a write of several,
   with their proofs.
2. Splitting and dispatch of the command line against a reference.
3. `SecurityBackup` after a copy that shares a buffer: what still holds of memory there.
