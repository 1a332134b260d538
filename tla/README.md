# Verification of dbus_modbustcp

TLA+ models, TLC runs and TLAPS proofs for the Modbus-TCP to D-Bus gateway of
Venus OS (`src/`).  A Modbus client reads and writes 16-bit registers of a unit
ID; the program maps them (`attributes.csv`) to values of services on D-Bus.

## 1. The system

One process, one Qt event loop, no threads.  All components below live in that
loop and call each other through direct signals; concurrency means that other
events happen between two slots that work on the same request.

| component | state | operations | interacts with |
|---|---|---|---|
| **Server**, **Connection** (`server.cpp`, `connection.cpp`) | per client: socket, bytes of the frame so far, announced length | `newConnection`, `readyRead` cuts the byte stream into frames, `modbusReply` writes a reply, `disconnected` | `modbusRequest(ADU*)` to Backend |
| **ADU**, **PDU** (`adu.cpp`, `pdu.cpp`) | one frame, its (guarded) socket pointer, reply data or exception code | decode, encode | created by Connection, deleted by Server |
| **Backend** (`backend.cpp`) | none; each BackendRequest owns one ADU pointer | `modbusRequest` checks function code and quantity, `requestCompleted` turns a result into a reply and deletes the request | `mappingRequest` to Mappings, `modbusReply` to Server |
| **Mappings** (`mappings.cpp`) | register map, unit ID map, `mPendingRequests`, `mReadWrite` | `handleRequest`, `onItemsInitialized`, `getValues`, `setValues`, `onReadWriteChanged`, the CSV imports | DBusServices (lookup), VeQItems, init monitors, `requestCompleted` to Backend |
| **DataIterator** (`mappings.cpp`) | position in the map and in the request, current service, error | constructor, `next` | used by the three loops of Mappings |
| **Value conversion** (`mappings.cpp`) | none | `getValue`, `convertFromDbus`, `convertToDbus`, the Operations | used by `getValues`, `setValues` |
| **VeQItemInitMonitor** (`ve_qitem_init_monitor.cpp`) | items it waits for, connections to their `stateChanged` | `start`, `checkState`, `onStateChanged`, signal `initialized` | created per waiting request |
| **DBusServices**, **DBusService** (`dbus_services.cpp`, `dbus_service.cpp`) | services by type and by name, their items | `initialScan`, `onServiceAdded`, `getService`, `getConnected` | signal `dbusServiceFound` to Diagnostics |
| **NoStorageQItem** (`nostorage_qitem_producer.h`) | the state of one D-Bus value | `setValue` forces Synchronized | veutil |
| **DiagnosticsService** (`diagnostics_service.cpp`) | published list of services, last error with a one second timer | `onServiceFound`, `onDeviceInstanceChanged`, `onServiceStateChanged`, `setError`, `onLastErrorTimer` | reads DBusServices, Mappings (`getUnitId`) |
| **App**, **main**, **Arguments** | none | wiring, the ReadWrite setting, command line | everything |
| **veutil**, **QsLog** (external) | the VeQItem tree that mirrors D-Bus | | not in the repository; modelled from its use |

What is hard here:

- A request may **wait** for D-Bus.  It is checked when it arrives and executed
  when the last of its items has a value; the services, the items and the
  ReadWrite setting can change in between, and the second pass resolves
  everything again (`mappings.cpp:211-259`).
- **Wakeups**: a monitor connects only to the items that have no value when it
  starts.  Several monitors may be connected to one item, and the slot of one
  may change items that others are connected to.
- A write spans **several services** and can stop in the middle.
- The iterator's **index arithmetic**: start inside an entry, end inside one,
  gaps, neighbouring entries of different services, reserved entries.
- Services are **never forgotten**; a gone one with the wanted instance
  competes with one that is there, and an unknown instance reads as 0.
- **Sockets** disappear while their request waits; frames arrive in pieces;
  replies overtake each other.
- A write of one register of two is a **read, patch and write back** through
  scale, sign, rounding and bounds.
- The **table** is a file that the program trusts; two scripts check it, with
  their own idea of what a column is and how long an entry is.

What makes each component correct:

- DataIterator: word *w* of the data always belongs to register `address + w`;
  success means every register was processed; the service in hand is the one a
  fresh lookup would give.
- Mappings: a waiting request is always woken and completed exactly once;
  nothing is written that is not writable or not of the request; success means
  carried out in full; values used are values.
- Value conversion: a write changes the registers it names and no others, as a
  client reads them; what is read is defined.
- The imports: a file that the scripts accept is imported as they understand it,
  as far as they see to it.
- DBusServices: every service is registered once; one that is there is never
  hidden by one that is not; the unit ID published for a service leads to it.
- Connection: the frames delivered are those of the byte stream, however it is
  cut.  Backend and Server: each request gets one reply, each ADU is deleted
  once.  Diagnostics: an entry tells the state of the service it names.

PROJECT.json lists the hazards with their lines and the properties that cover
them, or where in the plan they are.

## 2. The modules

| module | models | about |
|---|---|---|
| `RegisterMap` | `mDBusModbusMap` and what a pass over it sees | closed forms `Visited`, `PassError` |
| `DataIterator` | the iterator, one loop per behaviour | shown to compute the closed forms |
| `Mappings` | requests, monitors, items, services, the setting | uses the closed forms for its two passes |
| `InitMonitor` | what `VeQItemInitMonitor` promises | abstract specification that `Mappings` implements |
| `RequestService` | what Mappings promises to Backend | abstract specification that `Mappings` implements and `Gateway` uses |
| `Conversion` | values and registers, both ways | pure operators |
| `Import` | `importCSV` and the two scripts that check its file | pure operators, extends `Conversion` |
| `Registers` | one entry of an imported table, read and written | uses `Import` and `Conversion` |
| `DBusServices` | registry, unit ID map, resolution of a unit ID | yields the route tables `Mappings` assumes |
| `Connection` | the bytes of one client | cut into frames |
| `Gateway` | Backend, Server, the sockets | composed with `RequestService` |
| `Diagnostics` | the published list of services | |
| `LastError` | the published error and its timer | |
| `MC...` | instances for TLC | |
| `RegisterMapProofs`, `DataIteratorProofs`, `MappingsProofs`, `ConnectionProofs`, `GatewayProofs`, `DBusServicesProofs`, `DiagnosticsProofs` (with `LastError`), `RegistersProofs` | | theorems |

### RegisterMap and DataIterator

A map entry keeps the fields that decide control flow: device type, paths, size,
reserved, writable.  `MapAssumption` and `NoOverlapAssumption` are what
`test/check_column_validity.py` and `test/check_register_overlaps.py` establish
for `attributes.csv`; that registers of *different* services do not overlap
either is true of the shipped file and of the entries `importCSV` adds.

`for (; !it.atEnd(); it.next())` runs inside one slot, so a behaviour of
`DataIterator` is one loop over one fixed table `routes` of services: `Init` is
the constructor, `Step` is loop body and `next`.  `mCurrent`, `mQuantity`,
`mOffset`, `mRegisterCount`, `mService` and `mError` are the members; `word` is
`j / 2` of `setValues` and `replyData.size() / 2` of `getValues`; `visited` is a
history variable.

`Visited(svc, address, quantity)` and `PassError(...)` say without a loop which
entries are visited and which error is left.  The iterator is the detailed
specification, they are the abstract one, and `ComputesVisited` is the
implementation relation: checked by TLC and proved for every map
(`IteratorComputesClosedForm`).  It justifies that `Mappings` has atomic passes.

### Mappings

`mReadWrite`, `routes` (what `getService` finds per device type for the unit ID
of the requests), `itemState` (VeQItem states), and per request its `phase`,
`input`, `error`, the `mItems` of its monitor and the items it is connected to
(`watched`).  `used` is a history variable, and so is `phase`: the program only
has the request in `mPendingRequests` or not.  `NoneLost`, a part of `TypeOK`,
ties `phase` to what the program has: a request that came in waits or is
completed, and one with an error was reported to Backend.

`getValues` reads every item once.  `setValues` looks at an entry's items after
the earlier entries of the same request were written, which matters where two of
them share an item: `Target` and `Use` take the states after those writes.

| action | code |
|---|---|
| `HandleRequest` | `handleRequest` with `addPendingRequest`, `start`, and, when nothing is missing, the whole execution |
| `OnStateChanged` | the monitor's slot with `updateState`, `onItemsInitialized` and `getValues` or `setValues` |
| `ItemAnswered`, `ItemLost`, `ItemBack`, `ItemReloads` | the library changes an item's state |
| `RoutesChange` | services come, go, or change their instance |
| `OnReadWriteChanged` | the setting changes |

An item's `stateChanged` calls the connected monitors one after the other: the
ones still to be called are in `notified`, and no other event happens before it
is empty.  Approximations, each of which only adds behaviours:
monitors are called in any order (Qt: order of connection), a monitor notified
from inside `getValues` or `setValues` runs after that slot, conversion and
`setValue` may fail at any entry, `routes` may jump between any two tables.
Items are leaves of the item tree.  One unit ID is enough: requests of
different ones meet only in shared items, and all requests here share theirs.

### RequestService

The contract between Backend and Mappings: `handleRequest` completes a request
before it returns or later, once, with one of the errors it can report, and
what waits is completed eventually.  `Mappings!IsRequestService` says that
`Mappings` implements it; `Gateway` has its actions as conjuncts of its own, so
what is shown of the gateway rests on the contract and not on how it is kept.

### InitMonitor

The contract of `ve_qitem_init_monitor.h`: a monitor emits `initialized` once,
in a step that begins with values for all of its items, and does not stay
behind when they all keep them.  It says nothing of connections, of `Requested`
items asked for by somebody else, or of the order of answers: that is what
`Mappings` has to get right.  The refinement mapping takes the requests for
monitors, `mItems` as it is, and a monitor as started when its request is not
new any more; a request that needs no monitor has an empty one.

### DBusServices

The list of children of the producer's root, the registry, and of each service
the state of its root item and state and value of `/DeviceInstance`.  The items
belong to the library, which is not in the repository; they change
independently of each other.  `initialScan` visits one child in each step
(`ScanChild`), and does not return to the event loop before `childAdded` is
connected: while `Scanning`, nothing else happens.  `getService` is written
without its loop: the last place in the list whose instance is the one looked
for and known, or else the last whose instance reads like it.  `UnitIDMap` is what `importUnitIDMapping` makes of
the lines of `unitid2di.csv`, `Resolve` the lookup with it, `GetUnitId` the
reverse one that `Diagnostics` publishes: the set of the results it may have,
since the order of a `QHash` decides.

### Conversion, Import and Registers

`Conversion` has the Operations, `getValue` with `convertFromDbus`, and the
assembly of a value in `setValues` with `convertToDbus`, for registers of
two characters of `CharValues` values each.  D-Bus integers have two
registers' width, as `int` has.  Doubles are exact fractions.  What C++ leaves
undefined is a set of outcomes, so an operator that converts returns a *set* of
words or values:

- a double that does not fit the type it is converted to;
- a shift by the width of the type or more (`mappings.cpp:416`);
- `b[index] << 8` of a negative `char` (`mappings.cpp:295`, where `char` is
  signed and the character above ASCII: `TextWords`);
- `version << 8` of a version that is negative or does not fit
  (`mappings.cpp:835`: `FirmwareOperation`, `ShiftsLeft`).

The last two are undefined before C++20; any word may come of them.  The sign of
`char` is the compiler's choice, a constant of a behaviour.

`Import` applies `importCSV` to lines that are records of columns, and has the
acceptance of `check_column_validity.py` and `check_register_overlaps.py`,
which count registers by their own table and look for overlaps among the lines
with the same first column.  The program takes the third dotted element of that
column for the device type.  It also cuts a line at every comma, while the
scripts' `csv.reader` honours double quotes; so the path and unit columns of a
line are sequences of pieces, and `quoted` says which columns have quotes.  A
path with two alternatives in braces has to be quoted to be accepted; then it
moves the program's columns, and its line is skipped.  Hence `expandPath` only
ever sees one alternative.  Other quoted columns are accepted, and not understood
by the program (`Seen`).

`Registers` composes them: `Import` runs once, then the services of one entry
announce values and clients write words of it.  `Reads` is all that
`getValues` may answer for the entry.  The clock's register has no item and is
not followed.  Which request is answered at all is the subject of `Mappings`,
whose abstract values are these.

### Connection

`mData` and `mLength` are the members, `readable` and `appended` the end of the
`tcpReq` at hand and the loop's place in it, both counted in the whole stream.
`AppendByte` is the body of the `foreach`, `ReadyRead` the `readAll`.  Each ADU
is remembered in `frames` with the place of its first byte, so that "the frames
are those of the stream" can be said without a recursive definition, and proved.

### Gateway

Per client the socket: open, closed and to be deleted (`closing`), deleted.
Per request its ADU, its MappingRequest and the replies sent.  Three pointers
matter: the ADU's to its socket is a QPointer and becomes null, the request's
to its ADU does not, and Backend follows the first without looking when it logs
an error (`backend.cpp:90`): `crashed`.

| action | code |
|---|---|
| `ModbusRequest` | `Connection::readyRead` emits a frame; `Backend::modbusRequest` refuses it, or `handleRequest` completes it at once or lets it wait |
| `WaitingCompleted` | Mappings emits `requestCompleted` for a request that waited; `Backend::requestCompleted`, `Server::modbusReply` |
| `Disconnected`, `SocketDeleted` | `Connection::disconnected`; the event loop carries out `deleteLater` |

Frames are well formed: long enough for the fields Backend reads.  A reply
written to a socket that is closed but not deleted is lost, which is what Qt
documents of `QAbstractSocket::write`.  `sent` is what was written to a socket
that took it: for each reply the request it answers, and the fields a client
matches it by.

### Diagnostics and LastError

`entries` is the list `/Services/<n>`; the two lookups are sets of indices
(`SameUnit`, `SameName`) of which the code takes the least.  Both slots are
whole actions.  The library changes a service's state and its device instance
independently.  `GetUnitId` is any function that returns one of the unit IDs
mapped to an instance, or the instance if there is none.

`LastError` counts time in ticks.  `mLastErrorTimer` is a coarse timer, the
default of Qt, and may be up to 5% early: `MaxEarly`.  The event loop may be late
for it by `MaxDelay`.

## 3. The runs

The longest run takes about two minutes.

| run | shows | bounds |
|---|---|---|
| `iterator` | `TypeOK`, `CursorInRequest`, `DataAligned`, `ComputesVisited` | 6 entries with every kind of neighbourhood; starts 0..13, lengths 0..12, so requests begin before, in and behind the map and span all of it; each of two device types on either of two services or none |
| `registers` | `TypeOK`, `WriteIsOverlay`, `TextWriteIsOverlay`, `ReadsDefined`, `AcceptedFileImported` | registers of 4 bits, both signs of `char`; a table with every pair of types and scales the conversions tell apart, values at and beyond the limits of each type; 400 files of two lines out of 20 that overlap, repeat a register, have a wrong or no size, a number too large for an `int`, quotes, another service of the same device type, or are skipped |
| `mappings_waiting` | `NoLostWakeup`, `UsesLoadedItems`, `IsRequestService`, `MonitorsItems` | 2 requests of 9 kinds, among them a write of two entries that share an item; the second service goes and comes back |
| `mappings_replug` | `TypeOK`, `OnlyWritableWritten`, `AcknowledgedInFull`, `CompletedOnce` | 2 requests of 3 kinds, one of them a write across a reserved entry; the second service is there, replaced or gone; items reload, the setting changes |
| `mappings_assert`, `mappings_partial_write` | one violated property each | 1 request |
| `services` | `TypeOK`, `RegistryComplete`, `LiveNotMasked`, `PublishedUnitReachable` | 2 competing services and the program's own, instances 0 and 5, unit IDs that are instances, mapped, or both; lines that repeat a unit or map it to itself |
| `connection` | `TypeOK`, `FramesPartitionStream`, `NothingWithheld` | up to 3 frames announcing 0, 1 or 3 bytes, and one announcing 256; all pieces |
| `gateway` | `TypeOK`, `OneAnswer`, `RightAnswer`, `RepliesMatch`, `OnlyOrphansLeak`, `CrashNeedsOrphan`, `ConnectedAnswered` | 2 clients, 2 requests, 6 frames at the limits of quantity and byte count |
| `diagnostics` | `TypeOK`, `UnitsListedOnce`, `AllListed`, `ActiveWhileThere`, `EntriesKept` | 3 services of one type that share unit IDs, one of them with two instances, and one of another type |
| `diagnostics_changing` | `DisappearedIsInactive` is violated | 1 service, 2 instances |
| `last_error` | `LastErrorTypeOK`, `LatestPublished`, `RateLimited`, `PublishedInTime` | 2 messages, an interval of 3 ticks, 1 early, 1 late; 10 ticks, three intervals |

Two requests are enough for the interactions of requests: they meet in shared
items only, and a third would meet each of them in the same way; the theorems
below are for any number.  The violated properties end with one request
because one suffices.  Two requests and two clients in `gateway` give every
order of arrival, completion and disconnection on one connection and across
two.  Registers of 4 bits keep every difference of the code's cases: two
characters in a register, two registers in a long integer, a sign bit, a bound
one below the largest value, values too large for either.  Deadlock is not
checked where the behaviours end: a loop ends, a client leaves, all requests of
the bound get handled, a table has no entry to follow.  `last_error` ends with its
time, but errors may always be logged.

Fairness (`Mappings!Fairness`): every monitor that is to be called is called
(WF; Qt calls the slots within the `emit`).  D-Bus answers every question, if
only with a timeout (SF: while the answer is queued other events may be handled
first, again and again, each of which disables the action for a moment).
Nothing makes clients send requests, services return or settings change.
`InitMonitor!Fairness` (WF of a monitor's signal) follows from the first of these.
`Gateway!Fairness` (WF of `WaitingCompleted`) is the fairness of
`RequestService`, which `mappings_waiting` checks to follow from that of `Mappings`.

### Findings

1. A write that waited may be executed on a service nobody waited for
   (`WriteTargetAsserted`, the assertion `mappings.cpp:373`).
2. A write answered with AddressError may have been carried out in part
   (`AddressErrorTouchesNothing`, against `test/mapping_test.h:473-505`).
3. A service that changed its device instance has two entries in the list of
   services; when it disappears only the first becomes inactive
   (`DisappearedIsInactive`, `diagnostics_service.h:23`).

The other properties hold because they say exactly what the code does.  Where
that is less than one might expect, and no text in the repository says more:

- A request that starts inside the last entry of the map is refused
  (`Startable`): registers 5814..5819 of the shipped map (`ComputesVisited`).
- A write that waited is carried out even if ReadWrite became 0 meanwhile
  (`mappings.cpp:216` is not repeated).  The member's comment, "Whether to allow
  writing" (`mappings.h:175`), leaves open which moment counts.
- The largest integer of a register's type reads as the one before it, unless
  the item is a double (`ReadBack`, `mappings.cpp:502`); a part of a text
  written behind the text's end is acknowledged and lost (`UpToNulWords`);
  doubles that do not fit and register 777 without PV voltage read as anything.
  Integers are written back unchanged only at scale 1 (`Represents`).
- Where `char` is signed, nothing is claimed of what characters above ASCII read
  as: one at the beginning of a register is shifted while negative, one in its
  second half sets all bits of the first.  Nor of a firmware version that is
  negative or does not fit an `int` when shifted (`ReadsDefined`, `Plain`).
- The scripts accept files that the program does not import as they understand
  them.  `AcceptedFileImported` is about *regular* files, as the shipped one is
  (`Regular`, each part of which is needed):
  - a first column may go on behind the device type: the scripts look for
    overlaps within equal first columns, the program keys by register and takes
    the third element for the type;
  - register, D-Bus type, register's type, scale or access in quotes are unknown
    to the program;
  - a number that does not fit an `int` reads as 0 (`ToIntOf`), and a range of 0
    registers is no entry anybody can address;
  - a plain `reserved`, which the scripts count as one register, is imported with
    size 0;
  - a file may do without placeholders for the entries the program adds.

  Also of a regular file, a line is missing if a quoted path or unit has a comma,
  and of two services with the same register the later line wins.
- The unit ID published for a service is guaranteed to lead to it only if it is
  not an instance of another service that is there, and the line of
  `unitid2di.csv` that maps a unit to itself does not undo an earlier line of
  that unit (`PublishedUnitReachable`).
- An error may be published a little earlier than a second after the last one,
  since a coarse timer may be 5% early.  `diagnostics_service.h:54` says "not more
  than once per second"; `RateLimited` says what is left of it.
- The liveness of `IsRequestService` and `MonitorsItems`, and `NoLostWakeup`,
  fail if the library asks again for an item that had a value (`Reloads`): it is
  not watched then, and its answer wakes nobody.  Whether the library does so
  cannot be seen in the repository.

`gateway` also says what the program needs to use a null pointer
(`CrashNeedsOrphan`: a request waited, failed, and its client's socket was
deleted meanwhile) and to leave an ADU behind (`OnlyOrphansLeak`).  Both are
implications: no other request does either.

## 4. The proofs

Assumptions: those named in the modules, on constants only.  Each component has
an inductive invariant `IInv`, from which its properties follow; its parts were
checked by TLC on the instances of section 3 before they were proved, but for
the type of `sent` in `GatewayProofs`, a set that TLC cannot evaluate.

- **DataIterator.** The inductive invariant `IInv` says that the cursor is in
  the request and at a register the entry covers, that the registers before it
  are exactly those of the segments visited, and that all entries visited are
  those of the closed form below the cursor.  `CursorInRequest` alone is not
  inductive: it says nothing of the entries behind it, which `ComputesVisited`
  is about.  The closed forms are characterised in `RegisterMapProofs`, where
  `UniqueCover` (from the absence of overlaps) carries most of the argument.
- **Mappings, writes.** `OnlyWritableWritten` is not inductive: that a waiting
  write was checked must be remembered.  `Checked` says that *every* entry
  that overlaps a waiting write is writable, not only those visited at its
  arrival; it follows from a first pass without error (`CompletePass`), and
  holds whatever services are found later.  `MonitorsOfPending` says that only
  waiting requests have monitors, hence `CompletedOnce`.
- **Mappings, wakeups.** `NoLostWakeup`, assuming `~ Reloads`, from `Waiting`:
  each item of a waiting monitor is loaded, or asked for and watched; and the
  monitor is about to be called or some item is not loaded.  `Progress` says
  what every step does to items, `Notifies` what it does to the signals.  What
  `setValues` does, entry by entry, is put once, in `WritePass`.
- **Mappings, what requests are worth.** `AcknowledgedInFull` and
  `UsesLoadedItems` are about the pass that executes.  The first follows from
  that pass alone (`PassInFull`, `ExecuteInFull`) and from completed requests
  being final.  The second needs a link to the pass at arrival: `Awaited` says
  that every item a later pass may come across is among those waited for.  It
  needs `SameServices`, that no service takes over from another; without it
  `WriteTargetAsserted` is a counterexample.
- **Mappings, what it implements.** The initial states are those of
  `RequestService` and of `InitMonitor`, and each step is one of theirs or a
  stutter (`ServiceStep`, `MonitoringStep`), from `MonitorsOfPending` and
  `Checked`.  Neither needs `~ Reloads`: it is the liveness of a monitor, not
  its safety, that an item asked for again breaks.
- **Connection.** The inductive invariant adds to `FramesPartitionStream` that
  the incomplete frame is exactly what was appended since the last one ended
  (`Position`), and that a known length is the announced one and not reached
  yet (`LengthKnown`).  `SubSeqAppend` extends a piece of the stream by a byte.

- **Gateway.** `RepliesMatch` says what a client can conclude; by itself it
  is not inductive, as it is silent about clients that do not number their
  requests *yet*.  `AllAnswer` holds for every client: each reply on a socket
  is that of one of its requests, which has it as its only answer.
  `NumbersDiffer` follows when a reply is added: an earlier one with the same
  number would answer another request of that number.  That no request is
  answered twice needs the other half of `OneAnswer`: who waits has an ADU and
  no answer.  `Accepted` remembers that Backend refused nothing Mappings knows
  of, on which `RightAnswer` and the quantity in a reply (`QuantityFacts`)
  rest; `Received`, that an ADU without a frame has no history.  A step either
  concludes a request (`ConcludedIInv`), lets it wait (`WaitsIInv`) or follows
  the null pointer (`CrashIInv`); `Forwarded` and `WaitingCompleted` share them.
- **DBusServices.** `RegistryComplete` is inductive with the types, since a
  child is shown to `onServiceAdded` after all that came before it
  (`AddIInv`, used by the scan and by `ServiceAppears` alike).  The lookups
  need `KnownInstances`, that an item which is up to date has an instance:
  otherwise one without a value would read as instance 0.  `LookupFacts` says
  what `getService` yields; `LiveResolved` holds of every unit ID, so that
  `LiveNotMasked` and `PublishedUnitReachable` both follow from it.  Nothing
  is used of how `UnitIDMap` was computed.
- **Diagnostics.** `ActiveWhileThere` needs `UnitOfName`: the unit ID of an
  entry is one of the service it names.  For a service that keeps its instance
  there is then just one entry that may name it, by `UnitsListedOnce`, and
  the step that changes the service's state updates that one.  `Lists` says
  what a step does to the list, whether it shows a service or marks one gone;
  all properties, and `EntriesKept`, follow from it (`ListsIInv`).
- **LastError.** The timer was started by the first error that waits, and not
  before the last publication: the former gives `PublishedInTime`, the latter
  `RateLimited`, with any earliness below the interval.
- **Registers.** `IInv` is `TypeOK` and: the table is empty or `ImportCSV` of
  the file.  `TypeOK` alone does not bound the entries of the table, on whose
  sizes, types and scales every conversion depends (`EntryOK`).  Everything
  holds for every even number of characters (`CharAssumption`), every file of
  lines of the right types, every scale but 0 and both signs of `char`.
  - *Loops.* The operators that model a loop are recursive functions.  A closed
    form is given as a witness (`Table` for `importCSV`, `WordSequences` for
    `getValues`); that the recursion has no other solution follows from the
    least index where the two would differ (`FirstFailure`), which replaces
    induction.
  - *Writes.* `WriteIsOverlay` is about the words read before and after.  A
    write is shown to assemble the number of the overlay of the words
    (`ValuesOfOverlay`), whether it starts from 0 or from what was read; the
    cast to the register's type keeps the words (`CastFacts`); and the number
    comes back from a double of any scale (`DoubleRoundTrip`), because rounding
    a multiple of the denominator is exact, and from an integer
    (`WholeRoundTrip`), the largest one too low.  `NumberWriteRead` puts them
    together.  Texts go through the buffer of `setValues` (`Bytes`) and come
    back as pairs of characters (`TextWriteRead`).
  - *Reads.* `SingleValue`: for every value but a double, and a text whose
    characters are not negative where they are shifted, `getValue` has one
    outcome; so has every operation but the firmware's of a version that cannot
    be shifted.
  - *Import.* `TableEntries`: an entry is a built-in one or that of the last
    line at its register.  `EntriesHaveLines` then leads every entry of a
    regular, accepted file back to a line of its device type, register and size;
    two lines of one device type have equal first columns in such a file
    (`SameService`), so that what the scripts found of the lines holds of the
    entries.

All invariants and action properties of section 3 are theorems.

Only model-checked: liveness, which is the fairness of `IsRequestService` and
`MonitorsItems`, and `ConnectedAnswered`.  The violated properties of the
findings have counterexamples, which need no proof.

## 5. The plan

Done: all modules of section 2, and the safety of all of them proved.  Next, in
this order:

1. `DBusServices` composed with `Mappings`: its lookups as `routes`, which are
   now any of a set of tables.
2. `Connection` composed with `Gateway`: frames that are cut and pipelined.

### Not modelled

`Arguments` (parses the command line once), logging, the listening socket and
the objects `App` and `newConnection` create, the XLSX register list, the
Python clients in `test/` and `examples/`.  Of the conversions: numbers longer
than an `int` on D-Bus, numbers that a service sends as text, and the clock.
Of the files: quotes around a first column or across lines.
Of `expandPath`: several alternatives, which cannot get through the import.
Protocol identifier and unit ID of a reply are copied as its transaction ID is.
veutil and QsLog are not in the repository; items are modelled from their use.
