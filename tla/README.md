# A verification development for Barry

Barry talks to BlackBerry handhelds over USB. This directory holds TLA+ models
of the parts of the library (`src/src/`), of the programs (`src/desktop/`,
`src/gui/`) and of the sync plugins (`src/opensync-plugin*/`) in which threads,
processes, packets, failures and data that is written back meet; the TLC
configurations that check them on small instances; and proofs that TLAPS checks
for every instance. `PROJECT.json` is the machine-readable index: components,
runs, the source lines of every definition, hazards, theorems.

Contents: [the system](#the-system), [inventory](#inventory),
[modules](#modules-and-how-they-correspond-to-the-code),
[runs and bounds](#runs-and-bounds), [fairness](#fairness),
[proofs](#proofs), [observations](#observations),
[not modelled](#what-is-not-modelled), [plan](#plan).

## The system

A handheld offers one USB bulk endpoint pair, over which numbered *sockets* are
multiplexed. Socket 0 carries commands (select a mode, open or close a socket,
answer a password challenge); a *mode* (Desktop, JavaLoader, IpModem, ...) is a
service of the device with a socket of its own.

```
  backup program      Barry Desktop                         OpenSync engine
  (gui/)              (desktop/)                            (external)
   BackupWindow        MigrateDlg      SyncStatusDlg --(two     |
   Thread,DeviceIface  + its thread    ConflictDlg   sockets)   |
   worker per device        |          ExecHelper --- fork -> bsyncjail
        |                   |                                   |
        |              Connector                        0.2x / 0.4x plugin
        |                   |                                   |
        +---------+---------+-----------------+-----------------+
                  |                           |
      Backup, Restore, Pipe          record classes (r_*.cc)
                  |                  ParseField / BuildFields
      Mode::Desktop: DBLoader, DeviceBuilder, DeviceParser, RecordStateTable
                  |
 application thread(s)                                USB read thread
     Mode::Open / RetryPassword / ~Mode                 SimpleReadThread
       Controller::SelectMode, OpenSocket                 DoRead: BulkRead,
         SocketZero::Open / Close      registers            route to a socket's
           Socket::Packet, Receive  ---------------->       queue, a handler or
                      ^                SocketRoutingQueue   the default queue
                      +------ DataQueue (one per socket, -------+
                              default queue, free list)
```

With a routing queue, packets are read by one thread and handed over in
`DataQueue`s; without one, `SocketZero` reads from the device itself. The
application's calls on one controller come one at a time; the read thread, the
application threads and the thread that destroys the controller run
concurrently. The programs add threads of their own beside the GUI thread (a
worker per device in the backup program, the migration thread), child processes
(one sync jail after the other) and the wait threads that reap them.

## Inventory

| component | state it keeps | operations | what is hard | what makes it correct |
|---|---|---|---|---|
| `DataQueue` | list of `Data*`, access mutex, wait mutex, condition | `push`, `pop`, `wait_pop`, `append_from` | two mutexes; the wait is not under the mutex that guards the list; allocation failure | first in first out, one instant per operation, sleepers are woken, timed calls return |
| `SocketRoutingQueue` | map socket -> `QueueEntry`, `m_interest`, `m_free`, `m_default`, device pointer, error flag, read thread | `RegisterInterest...`, `UnregisterInterest`, `ChangeInterest`, `SocketRead`, `DefaultRead`, `DoRead`, `SetUsbDevice`, `ClearUsbDevice`, destructor | unlocked reads, callbacks after unlock, entries that die while in use, detaching a device that is being read | no buffer lost or owned twice, order, right queue, device not closed under the reader |
| `SocketZero`, `Socket`, `Controller`, `Mode` | sequence byte, half-open flag, challenge seed, tries left, pushback slot; per socket: number, close flag, registration | `Open`, `SendOpen`, `SendPasswordHash`, `Close`, `RetryPassword`, `~Mode` | exceptions at a dozen places, packets out of turn, late answers, a device that erases itself after the last wrong password | tries respected, no orphan sockets, registrations owned, calls end |
| fragmentation (`SocketBase::Packet`, `MakeNextFragment`, `AppendFragment`) | offset, blank count, the buffer being put together | `Packet`, `PacketData`, `PacketJVM`, `DBFragSend`, `SyncSend` | exact fits, sequence packets and blanks in between | requests and answers arrive whole |
| `Restore`, `Backup`, `Pipe` | retrieval state, current database, record buffer | `GetNextMeta`, `Retrieve`, `FetchRecord`, `BuildRecord`, `SkipCurrentDB`, `PumpFile` | calls in any order at the boundary between databases; a torn archive | every selected record once, whole, one end per series |
| `Desktop`, `DBLoader`, `DeviceBuilder`, `DeviceParser`, `RecordStateTable` | database table, loader position, state table read once, next record id | load, save, add, set, delete, clear, four write modes | a state table that is stale after the first write | nothing overwritten in the modes that promise it, no id given twice |
| `Connector` | password, connect count, reconnect flag | `Connect`, `Disconnect`, `Reconnect` | retries that use up password tries | tries respected across retries |
| migration dialog (`MigrateDlg`, `EasyCondition`) | abort and running flags, events, source and target, write mode | handlers of the GUI thread, `MigrateThread` | cancel, close and questions at any time; a refused database; restart | complete or reported, target kept, thread and join end |
| backup program (`BackupWindow`, `Thread`, `DeviceInterface`) | selected device, one `Thread` object per device, dispatcher pipe, `m_AppComm` | scan, select, disconnect, backup, restore, the dispatcher handlers, the worker | worker and GUI thread share objects; signals handled late | objects live while in use, progress of the right run, whole backups, every end reported |
| OpenSync plugins 0.2x and 0.4x | id map and cache with their files; hash tables; the device's dirty flags | initialize, connect, get changes, commit, sync done, disconnect, finalize | edits during a sync, failed calls, a crash between two saves, ids that are invented | nothing missed, no echo, commits hit the record meant |
| record classes (`r_*.cc`, `record.cc`, `time.cc`, `iconv.cc`) | the members of a record | `ParseField`, `BuildFields`, `ParseDBData`, `SetDBData` | a record goes back with fields that were not understood, dates that wrap, order of fields | nothing lost, no drift |
| sync dialog and jail (`SyncStatusDlg`, `ConflictDlg`, `ExecHelper`, `bsyncjail`) | roster, current device, kill state, connections, open boxes, child pid | sync next, conflict question, slow sync question, kill, close; the jail's requests and pokes; wait threads | events handled inside an open box, messages of dead children, reaping against signalling | a stop stops, answers reach the conflict they were given for, nobody waits for ever |
| `RawChannel` | pending error, socket-zero registration | `Send`, `Receive`, callbacks | callbacks of the read thread, unlocked | one unregistration, errors reported once |
| `IpModem`, `Serial`, `PppFilter` | session key, read thread flag; PPP mode and last byte | `Open`, `Write`, `Close`, `Filter` | second and third password request; a read thread that outlives a failed `Close` | tries respected, thread joined |
| JVM debug, JDWP server, Java loader | request/answer pairs, one debugger connection | many | layout | as the packet exchange |
| vCard/LDIF/MIME, tar, configuration files, ALX/COD, USB wrappers, other windows, tools | none that outlives a call, or I/O | | | |

`PROJECT.json` lists, under `hazards`, the places where one of these can go
wrong in a way that a test would hardly meet, and the property aimed at each;
further ones, which no run checks, are under [observations](#observations).

## Modules and how they correspond to the code

Definitions keep the names of the functions they model; `map` in
`PROJECT.json` gives their lines. A critical section, and any run of code that
touches only the caller's own data, is one step: other threads cannot see its
inside. Modules named `MC...` only name instances and symmetries;
modules named `...Proofs` hold the theorems about the module they extend. Every
module with variables has a type invariant `TypeOK`, which documents its state.

Operators whose name is that of another definition with a suffix
(`raw_push_front`, `EnoughTries_offByOne`, ...) are plausible mistakes, one for
each property: with the mistake in place of the definition, TLC reports the
property violated.

### The library below the modes

**`AbstractQueue`** - what `dataqueue.h` promises: contents per queue, and for
each thread the pointer its last call returned; `Put`, `Take`, `TakeNothing`,
`Move`, each atomic.

**`DataQueue`** (`dataqueue.cc`) - threads with program counters. `push` is two
steps (add under the access mutex, then broadcast under the wait mutex),
`wait_pop` up to four (look, wait, wake up or time out, look again),
`append_from` two (it holds one access mutex while it asks for the other).
`push_back` may throw. `arrived`, `taken` and `unseen` are histories for the
properties. The access mutex is a variable because it can be held across a
step; the wait mutex never is. `Linearizable` is `AbstractQueue`'s
specification under the mapping contents = `queue`, results = `ret`.

**`Router`** (`router.cc`, `router.h`, `controllerpriv.h`) - the read thread's
`DoRead` cycle in the steps between its locks: fetch a buffer, `BulkRead`, the
unlocked test of `m_interest`, look-up under `m_mutex`, handler call after the
unlock, default queue, `~ReadWaitSignal`. Application threads register,
unregister, change and read; a controller attaches, detaches (with the
condition wait of `ClearUsbDevice`) and closes the device. The queues are used
as `AbstractQueue` specifies them, which the theorem `QueueIsLinearizable`
licenses. Buffers are numbered so that ownership can be followed from the free
list through `DataHandle`s and back.

**`SocketZero`** (`socket.cc`, `controller.cc`, `m_mode_base.cc`) - one call at
a time, one action per block between two reads from the device, with the Socket
object's life (`obj`, `sock`), its registration (`reg`) and every way out of
`Open` and `Close`. `OpenThrows` is the exception with the destructor of
`Socket` that it runs. The device is external: it answers in order, sends the
mode's sequence packet when it likes, may be late, and may ask for a password
or not. `AsDocumented` restricts the application to `RetryPassword` after
`BadPassword` and `Open` on a mode whose last `Open` succeeded or that was never
opened; without it the model includes the null-pointer call described under
observations (state `crashed`).

**`SocketPacket`** (`socket.cc`) - a request cut into fragments, acknowledged
by sequence packets, and the answer put together again, for the `Packet`,
`PacketData` and `PacketJVM` loops. Payload bytes are numbered so that lost,
repeated and swapped ones show. After an exception the socket is given up.

### Databases, archives, connections and the programs on them

**`Restore`** (`restore.cc`; `DbName` is the blank name it shares with
`Desktop`) - the object that reads an archive, its `RetrievalState` machine and
the record buffer that is kept to avoid a copy, as operators from object to
object. An archive is a sequence of entries, some with paths that
`SplitTarPath` refuses, and may be torn. **`RestoreClient`** lets an application
set a filter and then call `GetNextMeta`, `BuildRecord`, `FetchRecord` and
`SkipCurrentDB` in any order. **`SeriesReader`** is the abstract specification:
the selected records, once, in order, series by series, without look-ahead or
buffer; `RestoreClient` implements it under a mapping that gives, for each state
of the object, the records still to come.

**`Desktop`** (`m_desktop.cc`, `r_recordstate.cc`) - the databases of a device
as functions from state table indexes to records, the `RecordStateTable` that
is read once per database, `MakeNewRecordId`, the four write modes of
`DeviceParser` and the walk of `DeviceBuilder`.

**`Connector`** (`connector.cc`) - the password loop of `Connect`, the retries
of `Reconnect` and the device's counter of tries.

**`Migrate`** (`MigrateDlg.cc`, `EasyCondition.h`, `backup.cc`, `pipe.cc`;
EXTENDS `Desktop`, `Restore`, `Connector`) - the GUI thread's handlers, including
`DoSafeClose` with its join, and the migration thread with its questions to the
user through `EasyCondition`, composed of the three modules above: backup of the
source into an archive, restore of that archive to the target.

**`BackupGui`** (`gui/src/BackupWindow.cc`, `Thread.cc`, `DeviceIface.cc`;
EXTENDS `Desktop`, `Restore`) - the GUI thread's handlers, the dispatcher pipe
in which signals wait, and the worker that a `DeviceInterface` starts. A
handler that shows a modal box is one step. A restore reads its file twice, to
count (`OnRestore`'s `a`) and to restore (`b`); a torn file that is met at the
count ends the program (`RestoreThrows`: `restore.cc:221`, `BackupWindow.cc:352`).

### The sync

**`IdMap`**, **`SyncPeer`**, **`Plugin02`**, **`Plugin04`**, **`OpenSync`**
(`opensync-plugin/src`, `opensync-plugin-0.4x/src`; `IdMap` EXTENDS `Desktop`,
`SyncPeer` `IdMap`, each plugin `SyncPeer`, `OpenSync` both plugins) - `SyncPeer` is
the environment: the device with its
user, and the engine (external: it asks for a slow sync first and after a sync
that failed, and calls `sync_done` only after success). `Plugin02` works with
dirty flags, a cache and an id map in files that are saved one after the other;
`Plugin04` with hash tables that the engine saves. Calls may fail at any point
and the program may die between any two saves.

**`ExecHelper`**, **`SyncJail`**, **`SyncStatus`** (`exechelper.cc`,
`bsyncjail.cc`, `os22.cc`, `os40.cc`, `SyncStatusDlg.cc`, `ConflictDlg.cc`;
each EXTENDS the one before) - children and their wait threads, which change
the members of the `ExecHelper` without a lock; the jail with its two
connections, on which a poke is written and not waited for and a request blocks;
and the dialog, whose boxes run the event loop again inside the handler that
shows them. What a jail wrote before its end is still read after it.

### The records

**`FieldCodec`**, **`RecordTypes`**, **`Records`** (`record.cc`, `time.cc`,
`iconv.cc`, `r_*.cc`, `parser.h`, `builder.h`; each EXTENDS the one before) -
character conversion as a count of conversions, minutes since 1900 modulo the
word, lists of categories, the NULs that end a string; for each class the table of its
codes with the way each is handled, `ParseField`, and `BuildFields` for the five
classes that have it; and a record on its way: read, perhaps changed, built,
read again. The classes without `BuildFields` are read in the run as well, but no
property speaks of them.

## Runs and bounds

| run | checks | instance and why it is enough |
|---|---|---|
| `DataQueueCalls` | `TypeOK`, `FIFO`, `SleeperWillBeWoken`, `Linearizable`, `TimedCallsReturn` | 2 threads, each doing any call; 2 queues with `append_from` between them; 2 objects; `bad_alloc` and spurious wakeups. Each hazard involves two threads and at most one object that overtakes another; the safety part is proved for every instance. |
| `RouterBuffers` | `OwnedOnce`, `RetiredQueueEmpty`, `QueuesInOrder`, `DeviceOpenWhileUsed` | 2 application threads (one reads while the other unregisters), 1 socket, 3 entries (one registered, one retired and still in use, one fresh), 2 packets, 3 buffers. |
| `RouterLive` | `DefaultOnlyIfUnclaimed`, `DetachAndJoinReturn` | 2 sockets, so that one stays registered while the other goes, and spurious wakeups. |
| `SocketPassword` | `HashWithinTries`, `NoOrphanSocket` | 1 mode without a routing queue, 6 calls in any order (`AsDocumented` false), 0 to 5 tries on the device against the minimum of 3, a sequence byte that wraps at 2, one lost command or late answer and one packet out of turn, so that a hash whose answer was not waited for, and an `Open` that reads an earlier challenge, both lead to further attempts. |
| `SocketFailures` | `RegistrationsOwned`, `CallReturns` | 2 modes with a routing queue, 3 calls, one lost command or late answer at any point. |
| `SocketPacketFragments` | `RequestIntact`, `AnswerIntact`, `CallEnds` | fragments of 2 bytes, requests of 1 to 5 (two lengths fit exactly), answers of up to 4 cut anywhere, 2 calls so that packets left over from the first meet the second. |
| `RestoreAnyOrder` | `RecordsWhole`, `MetaIsNext`, `ReadsSeries` (refinement) | every archive of up to 4 entries over 2 database names, with bad paths and a torn end, every filter, every order of calls. 4 entries give two series with two records each, the smallest in which a record read too far meets every call. |
| `MigrateDialog` | `MigrationComplete`, `TriesLeft`, `KeepsExisting`, `WorkStopsFirst`, `ThreadEnds` | two migrations from one dialog, 2 faults (timeouts, USB errors, refused commands), three passwords typed (right, wrong, none), 4 tries against a minimum of 3, the four write modes, databases with clashing ids, an empty one and one that only one device has. |
| `BackupProgram` | `DesktopWhileWorking`, `ProgressExact`, `BackupWhole`, `RestoredOrReported`, `EndReported` | 1 device, scanned for, selected and disconnected at will, 2 operations so that signals of the first meet the second, 2 scans, 1 fault, a database table that claims one record too many, an archive that is torn before the count or after it. |
| `OpenSyncPlugins` | `NothingMissed`, `NoEcho`, `CommitsLand` | each plugin through 2 syncs, 1 edit of the user at any point, 2 commits, 1 failing call or crash. The engine's uids begin with 1, the number of the record on the device, and 2, that of the first id which the plugin invents; so ids are found taken, in the table read before the commits and not in the device (`vevent.cc:157`), also by a record that has been deleted in the same sync. |
| `RecordsRewritten` | `RewriteKeeps`, `BuildSettles` | records of every class with up to 3 fields of the values at which a parser turns, with and without a converter; a word of 64 minutes with the epoch at 20 so that both ends of the range occur; up to 3 changes by a program, among them the first minute of 1970, the last time that fits, an interval of 0 and category names that are blank; strings that end in 0 to 2 NULs. Members do not interact except those with one code, in pairs. |
| `SyncSession` | `StampedOwnRun`, `ResolvedAsAnswered`, `NothingHangs`, `RosterStopped` | a roster of 3 devices (0.22 engine, not configured, 0.40 engine with a favoured plugin), 2 jails, 2 conflicts of 3 kinds, 1 jail that crashes, 2 dialogs, 1 click on a button of the dialog at any point besides those in the boxes. |

What they show, beyond the names:

- *Library.* Contents keep their order through every call; a push reaches
  everyone who slept before it; no buffer is lost or doubled on its way through
  five owners; a hash is sent while the device grants less than the minimum of tries only
  by one try for each command or answer that was lost, late or mistaken for
  another; an open socket on the device has an owner as long as nothing was lost or late;
  whatever a failed `Open` or `Close` leaves, the registrations are those of the
  live sockets; every call ends, also when the device sends nothing but blanks.
- *Archives.* However the four calls are mixed, what comes out is the abstract
  reader's sequence; the saved buffer never shows another entry's data.
- *Migration.* A migration that reports success has moved what the write mode
  says, new ids are distinct although the state table is not read again, the
  adding modes change nothing at no step, and prompts, timeouts and repeated
  connections together leave `MinTries - 1` tries. The dialog does not end before
  the work does, except in the two gaps that `WorkStopsFirst` names, and the thread
  ends unless the user closes the dialog over an open question.
- *Backup.* The worker's `Desktop` lives while it works unless the user
  insisted; the progress is that of the current run; a backup that ends without
  an error is whole; every started operation ends, and reports it.
- *Plugins.* With what the next sync will report, the engine's view is what the
  device holds, through edits, failures and crashes, with the two exceptions
  that the comment of `NothingMissed` names; a commit hits the record it means,
  except that one whose uid begins with the number of a record deleted in the same
  sync goes astray (see [observations](#observations)).
- *Records.* A record that goes back unchanged keeps every field that meant
  something, with the exceptions that `Regenerated`, `NoMeaning`, `LosesTime`
  and `Garbled` name. What a program has put into it and was built is read again
  and built again without a change, but for what the reader takes for nothing: a
  time in the first minute of 1970, with its flags, and a list of categories
  without a name. That is claimed for times from 1970 to the last that fits, names
  without commas and outer blanks, and enumerations that hold one of their
  values.
- *Sync dialog.* A device is stamped for its own jail's end; a conflict is
  resolved as it was answered, though answers of a dead jail's conflict and
  those of the next one share the dialog; after a stop no further device is
  started; and no quiet state has a jail in `Request` or a stop without its end.
  The answers are those of jails whose dialog is still there; pokes are read one
  per step, so that ends, kills and clicks come between two of them.

Deadlock checking is off throughout: the bounds on calls, packets and clicks
make every behaviour stop, and an application is free to stop calling. That
nobody is stuck *inside* a call is what the liveness properties, and
`NothingHangs`, say.

Bounds are constants named `Max...` and appear in guards of the application,
the user, the device or the faults, with one exception: `MaxBuffers` in `Router`
is one more than the packets that can wait, so it never stops `DoRead`.

## Fairness

Only steps that the scheduler, the clock or a mutex will bring about are fair;
no thread is made to start a call and no user to click.

- `DataQueue`: weak fairness for a thread's own steps inside a call and for the
  timeout; strong fairness for steps that need a mutex which others take and
  release again and again (a mutex that is free infinitely often is obtained).
- `Router`: weak fairness for the read thread, which never blocks for ever
  (`BulkRead` has a timeout), and for the detaching thread once signalled.
- `SocketZero`, `SocketPacket`: weak fairness for the library's steps (each read
  has a timeout) and for the device's pending answers. `CallReturns` and
  `CallEnds` hold because of the timeouts and of the limit on empty reads, also
  when a command is lost or the device sends nothing but blanks.
- `Migrate`: weak fairness for the event loop and for the thread. The box that
  asks for the target comes back as long as the source is chosen, so a user who
  chooses for ever the source would hold it: strong fairness says that some day
  another device, or Cancel, is chosen.
- `BackupGui`: weak fairness for the handling of dispatcher signals and for each
  worker.
- `SyncStatus` states no fairness: each step of `Progress` uses up a message, a
  box, an answer or a process, so progress stops only where `Progress` is
  disabled, and `NothingHangs` is an invariant about those states.
- `RestoreClient`, `OpenSync`, `Records`: safety only.

## Proofs

Each theorem holds for every value of the constants that the named assumptions
allow: any number of threads, devices, entries, bytes, calls and faults, where a
run has two or three. A proof module EXTENDS the module it is about, states the
inductive invariant `IInv`, proves that it holds at first and that each action
keeps it, and draws the theorems from it. Each `IInv` was model-checked on the
runs' instances before it was proved.

| module | theorem | statement |
|---|---|---|
| `DataQueueProofs` | `TypeCorrect` | `Spec => []TypeOK` |
| | `FifoOrder` | `Spec => []FIFO` |
| | `PushWakesSleepers` | `Spec => []SleeperWillBeWoken` |
| | `LockDiscipline` | `Spec => []AccessHeldByAppend` |
| | `QueueIsLinearizable` | `Spec => Linearizable` (refinement of `AbstractQueue`) |
| `RouterProofs` | `TypeCorrect` | `Spec => []TypeOK` |
| | `BuffersOwnedOnce` | `Spec => []OwnedOnce` |
| | `RetiredEntriesEmpty` | `Spec => []RetiredQueueEmpty` |
| | `PacketsInOrder` | `Spec => []QueuesInOrder` |
| | `DefaultUnclaimed` | `Spec => []DefaultOnlyIfUnclaimed` |
| | `DeviceOutlivesReads` | `Spec => []DeviceOpenWhileUsed`, if `~Spurious` |
| `SocketZeroProofs` | `TypeCorrect` | `Spec => []TypeOK` |
| | `RegistrationsFollowSockets` | `Spec => []RegistrationsOwned` |
| | `OpenedIsRegistered` | an `Open` in progress has a registered socket: the `logic_error` of `Socket::Opened` is never thrown |
| `SocketPacketProofs` | `TypeCorrect` | `Spec => []TypeOK` |
| | `RequestsArriveWhole` | `Spec => []RequestIntact` |
| | `AnswersArriveWhole` | `Spec => []AnswerIntact` |
| `RestoreProofs` | `TypeCorrect` | `Spec => []TypeOK` |
| | `DeliveredWhole` | `Spec => []RecordsWhole` |
| | `MetaKept` | `Spec => []MetaIsNext` |
| | `RestoreRefines` | `Spec => ReadsSeries` (refinement of `SeriesReader`) |
| `MigrateProofs` | `TypeCorrect` | `Spec => []TypeOK` |
| | `TriesAreLeft` | `Spec => []TriesLeft` |
| | `AddingKeepsExisting` | `Spec => KeepsExisting` (an action property) |
| | `MigrationsComplete` | `Spec => []MigrationComplete` |
| | `WorkIsStoppedFirst` | `Spec => []WorkStopsFirst` |
| `BackupGuiProofs` | `ObjectsOutliveWorkers` | `Spec => []DesktopWhileWorking` |
| | `ProgressIsExact` | `Spec => []ProgressExact` |
| | `BackupsAreWhole` | `Spec => []BackupWhole` |
| | `RestoresAreWhole` | `Spec => []RestoredOrReported` |
| `SyncStatusProofs` | `TypeCorrect` | `Spec => []TypeOK` |
| | `StampsAreOwn` | `Spec => []StampedOwnRun` |
| | `NothingStartsAfterStop` | `Spec => RosterStopped` (an action property) |
| | `AnswersAreKept` | `Spec => []ResolvedAsAnswered` |
| | `NobodyIsForgotten` | `Spec => []ComesToAnEnd`: what the dialog or a jail waits for is on its way |

### Assumptions

Bounds are natural numbers and names that stand for different things differ;
beyond that:

- `QueueAssumption`: `append_from` is never called on the queue itself.
- `RouterAssumption`: the buffers allocated at the start fit into the bound.
  `DeviceOutlivesReads` also assumes that no wait ends unprovoked, since the code
  waits without a predicate (see [observations](#observations)).
- `SocketPacketAssumption`: a packet has room for a byte of payload, and at least
  one blank is tolerated.
- `MigrateAssumption`: `Socket` asks for at least one try, a device grants at
  first at least the minimum, and a source has the databases its database table
  lists.
- `DevicesAssumption` of `Migrate`: a device's database table names a database
  once, and a record has a place, counted from 1, in the state table of its
  database, which is finite.
- `DatabasesAssumption`, `ArchivesAssumption` of `BackupGui`: the list of databases
  in the configuration, which comes from such a table, names each once; and an
  archive keeps the records of a database together, as `Backup` writes them
  (`backup.cc` goes from database to database). An archive put together by hand
  that has a database in two places is two series to the reader, and the second
  would clear what the first restored.
- `SyncAssumption`, `JailAssumption`: a device of the old engine is a configured
  one, a dialog is opened on a roster that is not empty, and what the engine
  reports of a conflict is a list of changes.
- `SocketZeroAssumption`, `NullAssumption`: the least number of tries and the
  range of the sequence byte are positive; a null pointer is no object.

### Arguments

**`DataQueueProofs`.** `IInv == TypeOK /\ AccessHeldByAppend /\ FIFO /\
SleeperWillBeWoken`. `append_move` concatenates `queue[them[t]]`, so its typing and
its part of `FIFO` need that `them[t]` is the partner of an `AppendPairs` member,
which `AccessHeldByAppend` says. The refinement maps `raw_push` to `Put`, `raw_pop`
to `Take` or `TakeNothing`, `append_move` to `Move` and the rest to a stutter.

**`RouterProofs`.** `OwnedOnce` counts holders; the invariant behind it,
`Ownership`, says that every allocated buffer has a holder, that no two share one
and that no queue repeats one. `MoveBuffers` says that buffers which go from one
holder to another keep it, and serves every action that moves some (`TakeIntoHandle`,
`PutFromHandle`, the emptying of a queue that is unregistered). `ReaderHolds` and
`AppHolds` say which handle is full at which place, so that a handle is never
overwritten; `RegInjective` keeps two sockets from sharing an entry.
`QueuesInOrder` needs that what is queued is older than the packet in the
reader's hand (`PacketInHand`, `QueuedBefore`). `DefaultOnlyIfUnclaimed` needs that
the unlocked `m_interest` tells exactly whether the map has an entry
(`InterestExact`), and that a packet which nobody accepts now was unclaimed at
some instant since it was read (`Claims`). `DeviceLent` adds the controller: it
clears the pointer before it waits, and a wait that ended was ended by the end
of a `DoRead` after that.

**`SocketZeroProofs`.** `RegistrationsOwned` is kept by an action only if it is
known what the call has in its hands at that place: no `Socket` before `Open`
makes one, a registered one while it opens, an unregistered one while it closes
(`Hands`). `Selected` and `Wire` say that the number under which it is registered
came from the device's answer to a selection, and is not 0. `Owned` is
`RegistrationsOwned` without the set of objects, which the provers handle better;
`OwnedMeans` goes back.

**`SocketPacketProofs`.** The request: what the device has, and what is on its
way, is the part of it that has left the caller (`Sending`, `Heard`). The answer:
there is a sequence of cuts, one per packet on the wire, such that each packet
carries what lies between two cuts and what the caller has put together is what
lies below the first (`Reading`, with `Parts`); `Wire` keeps apart the packets that
end an answer and those in between.

**`RestoreProofs`.** `Sound` relates the object's state to the archive: a loaded
record is a selected entry with its own data and ids, the current database is
one the filter allows. The rest of `IInv` relates `state` to the series the client
is in. What a call finds is the least entry that is still wanted: the proof
follows the set of those (`Left`), and for a skipped database that of the ones
after it (`Later`), through every call. In the refinement `AddDB` and `AddSkipDB` are `Choose`, a call that
delivers is `Next1`, a call that reports the end of a series is `EndOfSeries`,
`SkipCurrentDB` is `Skip`, and `GetNextMeta` as well as every call that fails or
finds nothing more is a stutter.

**`MigrateProofs`.** `Locks`: no device is left with fewer than `MinTries - 1`
tries, through `Attempt` and `TimedOut` of the connector. `Turns`: at most one event
is on its way and it is what the thread did last, a handler that is in the middle
of a question has a thread that waits for it, and the controls are enabled only
while no thread works; therefore the write mode cannot change under the thread,
and the parser that writes has the mode the dialog shows (`Writing`), on which
`KeepsExisting` rests. That proof goes on to the four write modes of `Desktop`: an
adding mode passes a record by or adds it, under an index that the device picks
and that was not in use, and no other step of the model touches the target.
`MigrationComplete` is a second invariant, `Copies`, in two parts. While the source
is read (`CopiesBackup`), the places of the state tables that the builder has
passed are the entries of the archive, one for one; so at its end the archive is
the source (`Copied`). While the target is written (`CopiesLook`, `CopiesPump`),
each of its databases is wholly before the reader, and then as the write mode
says, or wholly after it, and then as it was (`Level`); only the one that is
being written may be in between, and of it the records given so far were
written (`Partly`, with one clause per write mode). That a database cannot be in
two places of the archive makes "wholly" true, and a refusal moves the reader
over the rest of one. `WorkStopsFirst` follows from `Flags`: whoever works has
`m_thread_running` set, and its id was kept, so that `DoSafeClose` joins; the only
places of the thread without the flag are those of `Resting` (`GuiFlags` for the
handlers, `ThreadFlags` for the thread).

**`BackupGuiProofs`.** For each device that the user has not given up (`Well`): a
worker has its `Desktop`, its `Thread` object is marked working, and its `done` is
not in the pipe (`Working`); a device that does not work has neither progress nor
`done` in the pipe, and `done` is the last of an operation's signals (`Orderly`), so
that a signal handled late never belongs to the next operation; and what was
counted, with the places of the pipe that hold progress, is the length of the
archive (`Counted`). The cardinality of those places is followed through
`Append` and `Tail` by the theorems on finite sets. A second invariant, `Stories`,
says for each device what its operation has done so far: during a backup the
archive lists, each once, the records that the builder has passed; during a
restore the databases before the reader are on the device or reported, the one
being written has the records given so far, and those after it are untouched.
A backup without an error ended because the builder had passed every database.

**`SyncStatusProofs`.** `OneChild`: the dialog waits for the end of one child at
most, and for none where it offers to close, although the wait thread, the
posted event and the callback object say so in three places. `OwnChild`: that
child is the current device's jail and nobody told it to die, unless the roster
was stopped; hence `StampedOwnRun`. `StoppedAtEnd`: a stop moves `m_next_device` to
the end, and only run-again or a new dialog starts over; hence
`RosterStopped`.

`ResolvedAsAnswered` needs a second invariant, `Serving`, about a jail that lives and
that the dialog waits for. `Attends`: the roster is not past its end unless that
jail was signalled, and a kill that is under way is one that found it running.
`Talk`: where its conflict is - nowhere, being read, being asked about, answered by
a kill, or answered - and in each place what the connection knows: of the N + 2
messages of a conflict, `Rest` says that those unread are the last ones, and
`Knows` that what was read is what the first ones said. The number of known
changes is a cardinality, and their places in the engine's list are counted by
it (`Place`), so that no induction over the list is needed: `NthExists` is proved
over the finite set. At the request the connection therefore knows the whole
conflict, what the dialog offers is `Fair`, and what the jail makes of the reply
is what was chosen (`ReplyResolves`).

`NobodyIsForgotten` is what `NothingHangs` says without `ENABLED`. `Expected`: while
the dialog shows that a sync runs, the end of a child is posted, or its wait
thread is attached and will post it; after a stop that child was signalled,
because a stop that found nothing running found no child to wait for. `AllHeard`:
a jail in `Request` is connected, and has unread messages, a question on the
screen, or a kill under way that answers it; the destructor and a kill answer
those that are left. That each of these steps is then taken is the part for TLC.

### Only model-checked

- Liveness (`TimedCallsReturn`, `DetachAndJoinReturn`, `CallReturns`, `CallEnds`,
  `ThreadEnds`, `EndReported`) and `NothingHangs`, which speaks of `ENABLED`: outside
  what the proof system handles.
- `HashWithinTries` and `NoOrphanSocket`: once an answer is lost or a packet comes out
  of turn, each later call may read what belongs to an earlier one, and an
  invariant would have to say which challenge each packet on the wire carries
  and how old it is. The claim, one try for each such event however many there
  are, is checked for one of each kind, and not proved for more.
- `RewriteKeeps`, `BuildSettles` of the records: what the codecs
  compute for every list of fields is an induction over that list.
- `NothingMissed`, `NoEcho`, `CommitsLand` of the plugins compare an engine's view with
  what the next sync would report, computed by folds; likewise.
- The totals of the backup program (`GetRecordTotal`), which are sums over an
  archive; likewise. `BackupsAreWhole` does not rest on them.

## Observations

Made while modelling; each is plain from the code at the place named. Where a
property would fail because of one, its statement or its run excludes the case,
and says so.

*Queue and router*

- `wait_pop(-1)` tests the list under one mutex and waits under another without
  testing again, so a push in between is missed (`dataqueue.cc:137`); callers in
  the library pass a timeout. A timed `wait_pop` that is woken for an item
  somebody else took returns null early (`:155`). When `push_back` throws inside
  `append_from`, the object that stays in the other queue has been deleted
  (`:183`).
- The handler is called after the unlock through a reference into an entry that
  another thread may erase (`router.cc:174`).
- `ClearUsbDevice` waits once, without a predicate (`router.cc:257`): POSIX
  allows the wait to end unprovoked, and the device is then closed under the
  reader. `DeviceOpenWhileUsed` is therefore checked with `Spurious = FALSE`.
- `ClearUsbError()` is declared (`router.h:183`) and documented as the way to
  recover from a USB error, but defined nowhere.

*Sockets and connections*

- After a hash whose answer came too late, the next attempt relies on the old
  count of tries and can go below the minimum (`socket.cc:513`).
- An answer carries nothing that ties it to its command, apart from the flag that
  `Open` and `Close` compare. A packet that a device sends before the sequence packet
  is taken for the answer to `SendOpen` (`socket.cc:215`), and every later call then
  reads the answer to an earlier command. The challenge of a former `Open`, with its
  count of tries, can so be read for that of the present one. A mode's own
  sequence packet that is taken for the answer to `SelectMode` has the same effect,
  so even a device that sends nothing stray is no help once enough calls to `Open`
  have failed. `HashWithinTries` therefore allows one try for each such packet, and
  for each command or answer that was lost or late.
- The `Close` that cleans up after a rejected password may swallow the mode's
  sequence packet, for which the retry then waits in vain (`socket.cc:629`).
- `m_halfOpen` and `m_challengeSeed` belong to `SocketZero`, not to a socket
  (`socket.cc:478`); `Close` puts the saved close flag into its packet and `Send`
  overwrites it (`socket.cc:371`); `Mode::Open` after one that threw calls
  through a null `m_socket` (`m_mode_base.cc:71`).
- `Connector` sends the hash of an empty password: the string is never a null
  pointer (`connector.cc:109`, `socket.cc:505`).
- `RawChannel`'s callback and destructor both test `m_zero_registered`, unlocked
  (`m_raw_channel.cc:226`). The second and third password request of
  `IpModem::Open` are answered without looking at the tries left
  (`m_ipmodem.cc:298`), and a `BulkWrite` that throws in `Close` leaves the read
  thread running (`:403`).

*Archives, migration, backup program*

- `GetRecordTotal` does not look at the skip list (`restore.h:134`). With
  `DECIDE_BY_CALLBACK` the first record of a database is decided twice
  (`m_desktop.cc:709`). `ERASE_ALL_WRITE_ALL` leaves alone a database that is
  empty at the source.
- `DoSafeClose` joins only if the thread itself has set `m_thread_running`
  (`MigrateDlg.cc:272`), against the comment above it. That leaves two gaps in which the
  dialog goes while the thread is there: before its first statement (`:542`), and
  between the end of its work and its last event, which then goes to a dialog that
  is no more (`:565`). `WorkStopsFirst` excepts exactly these. A close while the thread
  waits for an answer blocks in `pthread_join` for ever (`:279`, `Embraced`). After
  an error `m_abort_flag` is false and `OnThreadFinished` reports success
  (`:424`). `EasyCondition` has no predicate.
- Backup program: a wrong password ends `Connect` as a low level error
  (`BackupWindow.cc:209`); `last_thread_error` is overwritten by the next one;
  `m_active` and `m_finished_marker` are not initialised; a reload between the
  done signal and `Invalidate` frees the object under the worker, and a new
  operation started there loses its `m_AppComm` (`DeviceIface.cc:98`);
  `CompareTotals` uses a `Desktop` that `on_thread_done` may have disconnected
  (`BackupWindow.cc:415`); `QuitThread` has no caller. A
  torn archive that is chosen for a restore throws out of `on_restore`
  (`Thread.cc:191`), for which the program has no better answer than to end
  (`RestoreThrows`, `crashed`). `EndReported` excepts a program that has ended so,
  and with it the use of the disconnected `Desktop`. The warning that a database had
  fewer records than it claimed (`DeviceIface.cc:261`) is no part of a property.

*Plugins*

- A record modified after it was read and before its dirty flag is cleared is
  lost to the sync (`barry_sync.cc:237`); a deletion in that time, in the 0.2x
  plugin, is reported under a uid that the engine does not know
  (`environment.cc:109`). The 0.2x plugin decides by a table read before the
  commits whether an id is free (`vevent.cc:157`). After a record has been deleted, a record added in the
  same sync whose uid begins with the number of the deleted one gets an invented
  id instead; the map keeps the other, `CleanupMap` takes the entry out, and the
  next sync reports the record as new while the engine keeps a uid without a
  record (`astray`). And a uid that begins with the number that the device has just
  given to a record of its user would give two records one id; the run's uids leave
  that out. A blank uid makes
  `GetMappedRecordId` loop for ever (`environment.cc:165`). `CleanupMap`
  increments an iterator it has erased (modelled as a free choice). The result
  of `Reconnect` is ignored.

*Records*

- `Task` writes its due time as its start time and its recurrence drifts by one
  write (`r_task.cc:306`); times before 1970 wrap and 1970-01-01 00:00 is "unset"
  (`time.cc:125`); a recurrence with end 0 becomes perpetual; attendees are
  written without conversion (`r_calendar.cc:348`); an SMS body in two fields is
  converted twice (`r_sms.cc:164`); a leading comma in categories makes a blank
  one, and a comma alone a list that is written and read as none
  (`record.cc:531`); a string that ends in several NULs comes back with one
  (`record.cc:230`); `Bookmark::ParseField` may return a pointer behind its
  field (`r_bookmark.cc:266`); a stored file of size 0 cannot be built again;
  several numbers are read without a check of the size.

*Sync dialog*

- `KillApp` reads `m_app_pid` again after the test; when the wait thread has set
  it to -1 in between, `kill(-1, SIGTERM)` goes to every process of the user
  (`exechelper.cc:204`; reachable in the model as `stray`). `OnTerminate` uses
  `m_container` while the destructor clears it (`exechelper.h:113`; `broken`).
- A kill question answered after its device has finished kills the next
  device's jail. A dead jail's buffered messages affect the next device, and a
  closed dialog's jail may connect to the next dialog, which listens on the same
  address. Kill, pressed between the end of a jail and its event, closes the
  dialog and drops the rest of the roster. A remembered "always" may be a
  command that the next conflict does not support (`ConflictDlg.cc:473`);
  `ResolvedAsAnswered` compares what the user or the favoured plugin chose, and not
  what a remembered answer chose.
  `m_asking_user` stays set when no device is current (`SyncStatusDlg.cc:206`): for
  a jail that outlived its dialog and is connected to the next one, the pokes of
  the next conflict are then ignored, and after "sync again" its request is
  answered with the earlier conflict's sequence number, which the jail refuses.
  That takes two clicks and two dialogs. `ResolvedAsAnswered` therefore speaks of
  jails whose dialog is still there (`attached`).
  The time of the last sync is stamped also for a sync that failed, because the
  jail's exit code is always 0.

## What is not modelled

In the modelled components: `DumpAll`, logging, texts and layout of windows; the
sequence ids of `CheckSequence` (it is only called for socket 0, which accepts
any); `SetRoutingQueue`/`UnlinkRoutingQueue` while sockets are open (the constant
`HasQueue`); the length of timeouts (a timeout may strike whenever nothing has
come); destruction of a `DataQueue` that others still use (no caller does);
`DECIDE_BY_CALLBACK`, which nothing uses; the headers of messages, packed
structures of bookmarks, and the failure of a conversion in `iconv.cc`; the
conversion between records and vCards in the plugins; Run App and the details
window of the sync dialog. After an exception from the packet exchange the
socket is not used again.

The other components are listed with reasons in `PROJECT.json`. `RawChannel`,
`IpModem`/`Serial` and the JDWP server have state and threads and could be
modelled as the other modes are; they have no module yet. The rest, which is the
greater part of the repository's lines, has no control that a model would keep:
packet layouts and tables (`protostructs.h`, `packet.cc`, the Java loader and
debugger), the libusb wrappers, text formats (vCard, LDIF, MIME, the third-party
`vformat.c`), tar and configuration files, ALX/COD readers, the command-line
tools that call the library once and print, the desktop's browser and record
editors, and the classes that load the OpenSync libraries function by function
(`os22.cc`, `os40.cc`). The map therefore covers about a tenth of the
repository, the tenth in which its concurrency, protocols and data safety lie.

## Plan

In this order, most important first.

1. **`OpenedIsRegistered`** has a counterpart for `Close`: a socket is unregistered
   once and before its number is given back.
2. **`RawChannel`** over the registrations of `Router`, and **`IpModem`** with the
   life of its read thread and the tries of its three password requests.
3. **The plugins**: which of `NothingMissed`, `NoEcho` and `CommitsLand` can be stated
   without folds, as a relation between the id map and the device, so that they
   can be proved as `MigrationComplete` was.
