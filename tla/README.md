# carwatch in TLA+

carwatch is a recorder that lives in a car. Capture processes push samples into rings in
shared memory; `storaged` drains the rings into a write-ahead log on an SD card and frees a
slot only when its batch is durable; `statusd` serves a status page; until the capture
daemon exists, `tools/obdlog.py` records drives from a laptop through an ELM327 adapter.
The power goes whenever the ignition does, every process may be killed at any instant, and
the promise of the repository is that no sample is lost, repeated or hidden by any of this.
These modules state that promise, and the smaller ones it rests on, and check them.

Paths below are relative to `src/`.

## 1. Inventory

| part | state | operations | talks to |
|---|---|---|---|
| ring, `src/ipc/ring.c` | two 64-bit indices, two counters, 4096 slots, shared by processes | `ring_push`, `ring_peek`, `ring_release`, `ring_pop`, `ring_depth` | producer, storaged, any observer, through memory only |
| ring segments, `src/ipc/shm.c` | a POSIX shared memory object per ring, its generation | `ring_create`, `ring_attach`, `ring_detach`, `ring_destroy` | supervisor creates, the others attach |
| record format, `src/store/record.c` | none | encode, decode, CRC | wal |
| write-ahead log, `src/store/wal.c` | segments on the card; `wal_t`: the open batch, next numbers, what was recovered | `wal_open`, `wal_add`, `wal_due`, `wal_commit`, `wal_close`, `wal_scan` | the file system |
| storaged, `src/store/main.c` | per ring: slots taken, last seq, what to skip; stop flag | the drain loop | rings, wal, signals, supervisor |
| server, `src/interface/server.c` | a few connection slots with deadlines, three counters, the accept pause | `server_open`, `server_step`, `server_close` | clients over TCP, the route handler |
| statusd, `src/interface/statusd_main.c` | stop flag | its loop, signals | server |
| HTTP, `src/interface/http.c` | none | parse a request, write a head, decode a query | server, routes |
| routes, `src/interface/route.c` | none | `route_handle` | kv, json, source |
| kv, `src/interface/kv.c` | none | parse a line, walk a reply | routes |
| json, `src/interface/json.c` | a bounded buffer, a stack, a sticky error | one call per value, `json_finish` | routes |
| synthetic source, `src/interface/synth_source.c` | its clock | answer a request line with made-up readings | routes |
| status page, `src/interface/page.c` | none | one constant | routes |
| obdd, supervisor, analyzed, obdctl | none yet | heartbeat stubs | – |
| adapter session, `tools/elm.py` | the port, `stale` | `command`, `init`, resync | adapter over Bluetooth |
| drive logger, `tools/obdlog.py` | schedule, counts per PID, errors, session file | connect, poll, reset, reopen, footer | adapter, signals |
| other tools | none between steps | surveys, plots, replay, board | finished files |

Where it is hard: the ring has no lock and either end may die inside a call; the log is
written by calls that may fail, tear or be undone, and what a restart reads depends on how
far each got; rings outlive storaged but not a reboot, the log outlives both; the server is
one thread that must neither wait for a slow client nor cut off a good one; a late reply of
the adapter looks like an answer to the next request; a signal may come anywhere.

What makes each part correct:

* ring – a bounded FIFO queue; a full ring refuses and counts; no slot is touched by both
  ends at once; an observer's depth is sane; all of it whichever end dies, across the wrap.
* log – recovery finds exactly the committed batches, and finding them twice changes
  nothing; numbers go on without a gap; the next boot reports how the last one ended.
* storaged – a freed slot is in the log, durable if power is the concern; nothing is logged
  twice or out of order; a failed batch leaves no trace; every ring is drained in the end.
* server – a slot comes free in bounded time, an answer goes to the client that asked and
  is sent in full or counted otherwise, nobody times out early, a stop is prompt.
* ring segments – nobody maps half a ring or resets one in use; after any crash everybody
  ends up attached.
* HTTP, kv, json, routes, source – a request is judged the same however it arrives; a path
  stays inside; a line has one reading; the source hears exactly what the URL said; the
  writer fails exactly when it must; a browser gets a whole reply or an error.
* adapter and logger – no reply answers another request; every PID is asked again; a
  session ends with its footer; events in the file pair up; what is written is soon synced.

## 2. Modules

```
RingQueue  <--implements--  Ring  <-- RingProofs                     MCRing
RingShm <-- RingShmProofs                                            MCRingShm
WalScan <-- WalPrefix <-- WalScanCheck                               MCWalScan
            WalPrefix <-- WalScanProofs
            WalScanCheck, WalScanProofs <-- WalScanCheckProofs
Recorder  <--implements--  Storaged --> Wal --> WalScan              MCStoraged
            Storaged, WalScanProofs <-- StoragedProofs <-- OneSegmentProofs
Server <-- ServerProofs                                              MCServer
Text <-- Http <-- HttpCheck                                          MCRoute
Json, Text <-- Kv <-- KvCheck, Synth        Json <-- JsonCheck       MCRoute
Kv, Http <-- Route;  Route, Synth, KvCheck, HttpCheck <-- RouteCheck MCRoute
Elm <-- ObdLog <-- ObdLogProofs                                      MCObdLog
```
(`A <-- B`, `B --> A`: B extends A.)

**Ring** (`src/ipc/ring.c`, `include/ipc/ring.h`). One step per access to shared memory, so
a producer, a consumer and an observer interleave between a load and the store that follows
it. `ppc`, `cpc` and `opc` say where each is; the local copies (`phead`, `ctail`, ...) are
variables, since a stale one is the hazard. Indices are numbers modulo `Word` (2^64 in the
code) and `At` is the mask. `ring_push` is `PushCall`, then `PushReject` or `PushLoadHead`,
`PushLoadTail`, `PushOverrun` or `PushCopy`, `PushNumber`, `PushPublish`: the copy of the slot
and the numbering of it are two steps. `ProducerDies` and `ConsumerDies` may come at any step;
a successor starts from what is in memory. Interleaving is sequentially consistent: the code
publishes with release and reads the other side's index with acquire, and the model does
not ask whether weaker orders would do.

**RingQueue** is what a ring promises: a bounded FIFO sequence of numbered samples
(`Push`, `Peek`, `Release`). `Ring!IsQueue` is the refinement, with the queue defined as the
unread slots.

**RingShm** (`src/ipc/shm.c`, `ring_init`) is the life of a ring under its name, one step per
system call of `ring_create` and `ring_attach`. An object has or has not its size, a valid
header, and indices in use; the name points to at most one, and an object outlives its name.
Any call may fail, the supervisor may be killed at any step and starts again, children attach
whenever they like. The supervisor itself is a stub in the repository: that it calls
`ring_create` once at its start, as `ring.h` says, and is restarted is the assumption.

**WalScan** (`wal_scan`) is the recovery scan over the records of a file; a record that
does not decode is `Torn`. `ScanStates` is the loop: a recursive function from the number of
records read to where the scan is then, so that it can be both run and reasoned about.
**WalPrefix** says what the scan should find, with no loop: the longest prefix of whole
batches, and what those batches say. **WalScanCheck** grows every file of a small alphabet and
compares the two.

**Wal** (`src/store/wal.c`). `disk` is a sequence of segments, each with what a read returns,
how much of it an fsync has covered, and whether its directory entry is durable. `wal_t` is `w`.
`wop` and `wpc` say which call is in progress and which system call is next: `Write` (any
whole number of records and perhaps half of one), `Fsync`, `Undo`, `Create`, `DirSync`,
`CutTail`, `CutSync`, each with a failing twin. Failing calls, kills and power cuts are
`Accidents`; a run says which may happen and how many of them together.
`WalKilled` keeps the disk, `WalPowerCut` keeps of the newest segment its synced part and any
prefix of the rest, perhaps torn, and may lose a segment whose entry was not synced (only
the newest one ever holds unsynced records).

**Storaged** (`src/store/main.c`) composes the log with one or two rings. `pc` follows
main: `Start`, `OpenDone`, `NoteGeneration`, `Drain`, `Flush`, `FlushDone`, `Release`, `Stop`, ...
A ring here is its generation and its two indices: that it hands out what was pushed is what
Ring shows. `Kill` leaves rings and disk; `PowerCut` makes new rings, as `ring_create` does
at the next boot; `Start` is the supervisor restarting storaged.

**Recorder** is what storaged promises, without batches, segments or restarts: what is recorded
of a ring is its first samples, in order, each once; a slot is freed only when its sample
is recorded; a batch may leave the log again only while none of its slots is freed.
`Storaged!IsRecorder` is the refinement: `recorded` is what a scan of the disk would keep.

**Server** (`src/interface/server.c`, the loop of `statusd_main.c`, `http_parse_request`). One step of
the thread per decision: accept, one connection's read or write, reap, poll. `todo` holds
the revents that poll returned and that are still to be handled, the state that may be stale. Time passes
only inside poll, in ticks. Clients connect, send, read, stall and hang up at will.

**Json** (`src/interface/json.c`) is the writer, with one operator per function of the code
and an action per group of calls. **JsonCheck** defines, from the history of calls alone,
which calls are in order and what they should have written, and the grammar of a document.

The texts of statusd are sequences of units (**Text**): a class of characters, a word that
some code compares with, or an escape of a URL. On them **Kv** is every function of `kv.c`,
**Http** the decoder, the path check, the request parser and the query search of `http.c`, and
**Synth** the synthetic source, which answers a line with lines as a function of the clock;
its readings are one digit. **Route** is `route_handle` over all of them, with the reply of the
source as a parameter. **KvCheck**, **HttpCheck** and **RouteCheck** say what each should do, from the
other direction: lines written from records, a request cut at every unit, the page for a reply,
the record for a URL. These are functions, not processes; they share a run with Json,
whose calls are its steps, and are evaluated in its first state.

**Elm** (`tools/elm.py`, the parsing of `obdlib.py`) is one adapter session: the adapter's job,
replies on their way, the input buffer, and `stale`. The adapter is external: it behaves as
`elm.py`'s comments and the fake port of `tests/tools/test_elm.py` say. Opening the port
flushes what has arrived; what is still on its way arrives later, in the new session. What an
answer says is chosen when it is read. **ObdLog**
(`tools/obdlog.py`) is the logger on top: connect with its retries, init with a command for ATZ
and for each setting, the schedule, each `except` branch of the loop as an action, reset, reopen,
footer, signals. An open may succeed (`Opens`), fail as connect expects (`OpenFails`) or raise
what connect does not catch (`OpenRaises`). `blocked` counts the opens and the commands since the
LogWriter last looked at its clock.

## 3. Runs

| run | question | bounds |
|---|---|---|
| ring | Is the ring a queue, free of races and of hidden drops, whoever dies? | capacity 2, indices modulo 4, two payloads and an unlabelled one, 5 pushes |
| wal_scan | Does the scan find exactly the committed batches? | files of up to 6 records, 2 transactions, 2 namespaces |
| shm | Does everybody end up in a whole ring, whoever fails or dies? | 2 children, 3 accidents |
| storaged_kill | Does storaged implement Recorder, and tell the truth about its sessions? | two rings, 2 samples, 2 accidents (kill, write, creation of a segment, sync of the directory), 1 SIGTERM, no roll |
| storaged_power | Is what was released durable, and is everything recorded in the end? | one ring, 3 samples, 2 accidents (power, write, fsync, recovery), segments of 10 records |
| server | Do slots come free, and answers arrive? | 3 clients, 2 slots, deadlines of 2 ticks, 2 units sent, 1 accident |
| route | Is a request read, asked, answered and written without a mistake? | 6 calls of the writer, 5 buffer sizes; 31 000 lines and 400 records; 4 700 requests and all their prefixes; 5 000 queries; windows of up to 360 s with 5 samples; replies of 3 lines |
| obdlog | Late replies, a sleeping bus, a dropping link, opens that fail, signals | 3 PIDs, two of them fast, 1 setting, 1 reply on its way when the port is opened or written to |
| stale_skip, roll_repeats, roll_stops_draining, dir_unsynced | see section 6 | one ring |

Why the bounds are enough for what they ask:

* ring: capacity 2 gives empty, half full and full; with indices modulo 4 and 5 pushes both
  indices wrap; a consumer can be a whole lap behind the producer's stale copy. The theorems
  of section 5 hold without these bounds.
* wal_scan: six records hold two batches and the beginning of a third, with any of them
  damaged, out of place or repeated, and one more than a batch of two needs.
* shm: three accidents are one more than it takes to leave an object half made, fail to
  remove it and be killed; two children can be in two different objects.
* storaged: batches of two leave a batch open, full and split between two rings, and with
  three samples one over. Two accidents let the second one fall into the recovery from the
  first. `SegmentRecords = 10` rolls after the boot batch, the generation and one batch of
  samples; 100 never rolls.
* server: two slots for three clients let two connections be served side by side with deadlines
  of their own, while the third competes for a busy or just freed slot. A deadline of two
  ticks and a wait of two tell "just before", "at" and "after" apart. A request of two units
  and an answer of two make partial reads and writes happen. The theorems of section 5 hold
  for any number of each.
* route: six calls reach an object in an array in an object; the five sizes are none, one, and
  three that cut documents at a comma, a string and a closing brace. Every limit of `kv.h`,
  `http.h` and `route.c` is small, and met, passed and just not met by some input, but for
  three that never decide: a line is refused for its length before it has too many fields
  (`MaxFields`), and a request for its size before its path or query is too long (`PathMax`,
  `QueryMax`). Paths of
  five units hold `..` in every mixture of plain and escaped characters. The windows
  have every length up to 44, with up to nine times as many seconds as samples, and some
  at the longest one allowed.
* obdlog: two fast PIDs take turns, each with the other set aside or not, and the slow one
  waits behind them; `FastEvery = 2` alternates the groups; `ErrorLimit = 2` lets an error pass
  before the reset; `NoDataLimit = 1` sets a PID aside at once, which is where the retry logic
  starts. Link losses, failed opens and signals are not bounded. With one setting an init is
  three commands, ATZ, the setting and 0100; the code has five settings, and the theorem of section 5
  holds for any number. `MaxFlight` bounds what the adapter has sent and the port not yet
  got.

What the passing runs show, property by property:

* `RingInv`, `NoDataRace`, `DepthNotWrapped`, `NoHiddenDrop`, `IsQueue` – the ring is the
  queue it promises, at every step of three processes.
* `AttachedIsWhole`, `UsedIsNeverReset`, `EveryoneAttaches` – a ring under its name.
* `ScanIsCommittedPrefix`, `RecoveryIsIdempotent` – the scan keeps the longest sequence of
  whole batches, wherever a cut falls, and a crash in recovery finds the same log.
* `IsRecorder`, `ReleasedIsDurable`, `SeqContiguous` – the promise of storaged, for kills,
  failing calls and power cuts.
* `BootCountsUp`, `CleanIsEarned`, `CleanStopIsReported`, `CleanStopIsWhole` – the boot
  records tell the truth about earlier runs, and a stop logs all of the open batch or
  leaves all of it in the rings.
* `FailedBatchIsCutBack`, `EveryRingDrains` – a failed commit leaves nothing behind and is
  made up for.
* `SlotIsBounded`, `TimeoutIsEarned`, `ServedInFull`, `OneSlotEach`, `StopIsPrompt`,
  `EveryConnectionEnds` – the server.
* `WriterIsExact`, `FinishedIsJson` – the JSON writer; `LineIsExact` – a line is read as the
  one record, refusal or end it can have been written from; `VerdictIsFinal`,
  `PathStaysInside` – requests; `UrlIsAsked` – what reaches the source; `SeriesIsAligned`,
  `NoInternalError` – what the synthetic source answers; `WholeReplyOrError` – what is sent.
* `AnswerIsOwn`, `EventsAlternate`, `EndsWithFooter`, `SyncIsNeverFar`, `EveryPidIsAsked`,
  `SignalEnds` – the logger. `SyncIsNeverFar` says that at most one open of the port and one
  init (ATZ, five settings and 0100 in the code) pass between two chances to sync, so that
  lines stay unsynced for `--fsync-sec` and the time of these at most. Of the commands that time
  is 5 s, five times 2 s and 15 s, and a resync where one is needed; of the open the code
  bounds it nowhere.

`IsRecorder` also holds under the accidents of storaged_power, which is not kept as a run of
its own for its length. No passing run combines kills with rolling, because samples are then
repeated (roll_repeats), nor kills with power cuts (dir_unsynced).

Deadlock is checked where the system never stops (storaged: the supervisor starts it again).
It is off in `server`, `shm` and `obdlog`, which end or come to rest, and in `wal_scan` and `route`, whose inputs
are bounded.

## 4. Fairness

* Storaged: the process is scheduled and its system calls return (`WF(MainStep \/ LogStep)`:
  one thread), the supervisor starts it again (part of `MainStep`), and the clock reaches
  the age limit of a batch (`WF(Tick)`). Accidents are finite, which is what "if the card
  recovers" means. Nothing is assumed of producers, signals or power.
* RingShm: the supervisor goes on with `ring_create`, or starts again (`WF(Create)`), and so
  does each child with `ring_attach` (`WF(Attaching(c))`); accidents are finite. No
  system call is assumed to succeed beyond that.
* Server: `WF(ServerStep \/ Tick)`: the thread runs, and when poll sleeps the time passes
  that poll was given. Nothing is assumed of the clients, which is the point.
* ObdLog: the logger runs and its bounded waits end (`WF(LoggerStep)`), bytes on their way
  arrive or the wait runs out (`WF(LinkStep)`), the retry time of a PID passes
  (`WF(RetryDue(p))`). Nothing is assumed of adapter, car or link, but that an open of the
  port returns, one way or the other, is part of the first: `tools/obdlog.py:147-149` says
  that an open may block and that it takes a second signal to end it, so for the first
  signal `SignalEnds` holds only if the operating system lets the open return.

## 5. Proofs

Eight modules hold theorems, each extending the module it is about. The constants keep the
assumptions that the module itself states, and the bounds of the runs do not appear.

**RingProofs**, about `Ring`, for every capacity, word size and payload set, and every
bound on the number of pushes:

* `RingCorrect` – `Spec => []RingInv`; `TypeCorrect` follows;
* `RaceFree`, `DropsCounted`, `DepthSane` – `NoDataRace`, `NoHiddenDrop` and `DepthNotWrapped`;
* `RingIsQueue` – `Spec => Queue!Spec`: the ring implements the queue.

The assumptions are those of module Ring: a positive capacity, and a word that is a multiple
of it and at least twice as large (2^64 and 4096 are: `CapacityAssumption`, `WordAssumption`).
`RingInv` is inductive. `TypeOK` alone does not say that the producer's copy of `head` is
current or that the tail it saw still leaves room, so the invariant adds `RoomInv`
(at most `Capacity` slots are unread; a push that found room still has it, and `phead` is
`head`), `SlotInv`
(every unread slot carries its number, and the half-written slot is none of them) and
`ConsumerInv` (`ctail` is `tail`, and what the consumer is about to copy or release is
unread). `RoomInv` is what makes `SlotInv` stable under a push, and `SlotInv` is what the
refinement needs: a publish appends exactly the numbered slot. One lemma per action keeps the
invariant; the arithmetic modulo `Word` is in lemmas of its own (`Sizes`, `SubCases`, `AddZero`,
`IndexTypes`), since the provers do not reason about `%` beyond linear facts. `DepthSane` needs
one more inductive fact, `DepthInv`: the distance from the tail an observer has loaded to
the head is never more than what was ever pushed.

**RingShmProofs**, for any number of children, restarts and failing calls:
`AttachedIsWholeHolds` and `UsedIsNeverResetHolds`. That an attached ring is whole is not
inductive; what is, says who may be holding an object that is not: the supervisor that is
still making it has it to itself (`SupHoldsIt`), an object it has not sized or initialised is
blank (`UnmadeIsBlank`), and a child between `shm_open` and its last check holds an object
whose state is at least what it has already tested (`ChildHoldsIt`).

**ServerProofs**, for any number of slots and clients, any deadlines and answer sizes:
`SlotIsBoundedHolds`, `StopIsPromptHolds`, `ServedInFullHolds`, `OneSlotEachHolds`,
`TimeoutIsEarnedHolds`. The invariant has two halves. `ConnInv`: every busy slot is the slot of
exactly the client it names (`SlotsHold`, `SlotsDiffer`, `OpenIsHeld`), a client in the backlog
holds none (`QueueWaits`), and the counters are the numbers of clients that were refused and
reaped (`Counted`; `ExpiredCounts` says that reap, which counts slots, counts clients). `LoopInv`: after a reap no deadline has passed, and poll
sleeps no longer than the nearest one (`NoneOverdue`) nor, counted from a signal, longer than
one wait (`StopIsNear`), and nobody is cut off before statusd is down (`CutOffLast`). Both are needed for `SlotIsBounded`: the bound is a
fact about the loop, the slot it bounds a fact about the table.

**ObdLogProofs**, for any PIDs, limits, numbers of settings and numbers of signals: `SyncIsNeverFarHolds`,
`EventsAlternateHolds`, `EndsWithFooterHolds`, `AnswerIsOwnHolds`. The invariant says how many
opens and commands have passed at each place of the logger, in an init together with the
settings still to send (`ClockIsNear`), that the last event written of
each kind is what the flags `asleep` and `absent` say (`EventsPair`), which ways out still owe
the footer, and that a reason for it is there (`FooterIsDue`), and that a session with the port
that is neither stale nor astray has at most one reply on its way, to the command in
progress (`OneAnswer`).

**WalScanProofs, WalScanCheckProofs.** The induction theorems of the library take an
operator as a parameter, which these provers cannot instantiate. Induction over a *set* of
numbers needs no such parameter: `LeastNat` gives every nonempty set of naturals a
least element, and `SetInduction` follows; each use names the set of numbers at which its claim
holds. With it `WalScanProofs` proves what the loop of `wal_scan` computes for every file of
records, of any length and damage: `EveryScanFindsPrefix` (the scan keeps the longest prefix
of whole batches and reports the last txn, boot, end, generations and ring seqs those batches
say) and `EveryRecoverySettles` (what recovery leaves scans to the same report, and nothing
more is cut). The invariant of the loop relates the state after k records to `WalPrefix`'s
definition for the first k of them. `WalScanCheckProofs` carries both over to the run:
`FileIsRecords`, `ScanIsCommittedPrefixHolds`, `RecoveryIsIdempotentHolds`.

**StoragedProofs**, for one or two rings, every batch and segment size (rolls included), and
any number of samples, stops, restarts and accidents. The theorems differ in the accidents they
exclude, and each exclusion is one that makes the statement false:

| theorem | says | excluded | because |
|---|---|---|---|
| `SeqIsContiguous`, `CleanEndIsEarned` | `SeqContiguous`, `CleanIsEarned` | a failing ftruncate; a power cut together with kills or failing directory syncs (`OrderAssumption`) | a batch that was written, failed its fsync and could not be cut back is followed by one with the same numbers; a power cut may take a segment whose entry is not durable from the middle of the log (dir_unsynced) |
| `ReleasedSampleIsLogged` | every freed sample is in the log, however often storaged is killed | a failing ftruncate; power cuts | a torn batch left behind hides what follows; stale_skip |
| `ReleasedSampleIsDurable` | `ReleasedIsDurable`, until the first power cut | a failing ftruncate, kills, failing directory syncs (`DurableAssumption`) | dir_unsynced; after the first power cut, stale_skip |
| `PowerCutLosesNothing` | the first power cut leaves every freed sample where recovery finds it | the same | the same |

They rest on one invariant in three layers.

* `OrderInv` is about the card and the calls. `DiskOK`: segments but the newest are whole,
  each is named after the end of the one before, and what is committed in each is numbered and
  its boots are honest. `WalOK` says, for each system call that may be next, how the newest
  segment, the buffer and the counters of `wal_t` fit together: `Ready` between calls, `Sealed`
  while a batch is on its way, `Fresh` for a segment about to be made, and for the recovery
  calls that what is cut is what the scan did not keep. `MainInv` says that main leaves the log alone
  while a call is in progress and takes no more than was pushed. `EntryInv`: only the segment
  whose directory is about to be synced lacks its entry. What the scan reports is used through
  `EveryScanFindsPrefix`, so the whole of it rests on the induction above.
* `LoggedInv` is about samples. `AckedNow` is what the card holds of whole batches the process
  counts on, `HeldNow` what is in the buffer. For each ring (`SlotInv`): everything in front
  of the tail is acknowledged, what is taken is acknowledged or held, what would be skipped is
  acknowledged. `MarkInv`: a ring seq record is only ever about samples that are. Each system
  call either acknowledges the batch, gives it up and fails, or changes neither (`Moves`); one
  lemma per action of main does the rest. `MarkInv` is what a restart needs, and is what power
  cuts break: the ring seq of an old generation says nothing about the new one.
* `SyncInv` adds that everything but a batch on its way is synced; with `EntryInv` and
  `LoggedInv` (together `BootInv`) a freed sample is in the synced part of a durable segment.

**OneSegmentProofs**, about storaged from its first start until its first segment is full, again
for every number of samples, stops, restarts and accidents, under the assumption of
`SeqIsContiguous` (`OrderAssumption`): kills or power cuts, and failing calls.

| theorem | says | a roll breaks it because |
|---|---|---|
| `EveryBootCountsUp` | `BootCountsUp` | the new segment has no BOOT record for the scan to find |
| `EveryCleanStopIsReported` | `CleanStopIsReported`, also when the power goes after the stop | a SHUTDOWN batch that fills its segment is not in the one that is scanned |
| `EveryFailedBatchIsCutBack` | `FailedBatchIsCutBack` | wal_commit returns -1 for a durable batch when the next segment cannot be made |
| `EverySampleIsLoggedOnce` | the samples of a ring stand in the log in order, none twice (`LoggedOnce`) | the ring seq is in the segment that is not scanned: roll_repeats |
| `EveryCleanStopIsWhole` | `CleanStopIsWhole` | no counterexample is known; the proof rests on `SkipInv`, which a roll breaks |
| `StoragedIsRecorder` | `IsRecorder`: storaged implements Recorder, while the power stays on | as for `EverySampleIsLoggedOnce` |

Every one has the form `Spec /\ []Unrolled => []P` (the last one `=> Recorder!Spec`), where
`Unrolled` says that the segment create_segment is about to make is the first. That is a
hypothesis on the behaviour, not on the constants: the theorems hold for every segment size
and, since a behaviour may stutter from any state on, for every state that comes before the
first roll. Every behaviour of run storaged_kill satisfies it.

To `OrderInv` they add what one segment makes true (`OneSegment`):

* `OneInv`: there is at most one segment, and a system call in progress belongs to the call main
  waits for. `SureNow` is the sequence of records the process counts on; the lemmas up to
  `WalStepSeq` and `MainSure` say, for each step, that it stays, that it takes in
  the batch whole (`Accepts`), or that the batch is given up (`GivesUp`), and that what recovery
  would find is `SureNow` with or without a batch on its way (`CardNow`).
* `CountInv` and `ShutInv` follow boot ids and the SHUTDOWN batch through this. `CountInv` has to
  speak of log and batch together, since `boot_id` is counted before its BOOT record is durable.
  `SyncedInv` is what makes the end survive a power cut.
* `SkipInv` is the converse of `LoggedInv`: what is in the log of a ring will not be taken again
  (`PassInv`), and the open batch holds exactly what is taken and not skipped (`HeldInv`). After a kill
  that is known only through the scan, so the last GEN and ring seq in the log must cover every
  sample of the ring (`CoverInv`, `FoundInv`, `KnownInv`), and no sample is of a generation that
  is still to come (`AgeInv`), or a ring made after a power cut would inherit a log.
* `FreedInv` and `OwedInv`: between the last flush and the exit, what the stop owes is all in the
  batch, then all in the log, or all still in the rings.
* `UpInv`: the samples of a ring go up through the log and on through the batch. What is drained
  is above all that is logged, by `SkipInv`.
* `DenseInv`: a sample is in the log only with all before it. It meets `LoggedInv` here: what
  main has passed is logged and what it has reached is logged or in the batch (`PassedLogs`,
  `ReachedLogs`), so a batch goes on where the log ends. That is false after a power cut
  (stale_skip), which is why the refinement excludes them.

The refinement maps `recorded` to the samples of each ring in the log. With `UpInv`, `DenseInv`
and `LoggedInv` these are the first c of the ring for some c between its tail and its head
(`AllRecorded`; `RecordedIs` counts positions by a bijection). A step that leaves the rings
alone is then a `Record`, a push is a `Push`, and a release is a `Free`, since the log of the state
after it still reaches the new tail.

Only model-checked, and why:

* Liveness (`EveryRingDrains`, `EveryConnectionEnds`, `EveryoneAttaches`, `EveryPidIsAsked`,
  `SignalEnds`): fairness and ENABLED are out of the prover's reach.
* `WriterIsExact`, `FinishedIsJson`, `LineIsExact`, `VerdictIsFinal`, `PathStaysInside`,
  `UrlIsAsked`, `WholeReplyOrError`, `SeriesIsAligned`, `NoInternalError`: the parsers and the
  writer are RECURSIVE operators, in whose modules tlapm has no SMT backend.

## 6. Findings

Four runs are kept that show the code and the repository's own statements to disagree.

* **stale_skip** (`src/store/main.c:160`). After a power cut the new ring has a new
  generation. Once that generation is noted in the log, a restart pairs it with the ring seq
  of the *old* ring, which the scan kept, and skips as many samples of the new ring as if
  they were durable. Steps: log samples of the old ring, power cut, boot, SIGTERM after the new
  generation is noted and before a sample of the new ring is logged, restart: samples of
  the new ring are released and are nowhere.
* **roll_repeats** (`src/store/wal.c:212`). Recovery reads only the newest segment. A kill
  after the roll and before `ring_release` leaves the ring seq in the segment before, and the
  restart logs the batch again.
* **roll_stops_draining** (`src/store/wal.c:324`). When the next segment cannot be created
  `fd` stays -1, every later commit fails, and storaged neither recovers nor exits.
* **dir_unsynced** (`src/store/wal.c:168`). A kill between the `open` of `create_segment` and
  its `sync_dir`: the restart finds the segment, and neither `recover_segment` nor any
  commit syncs the directory. Batches are committed to it and their slots freed while a
  power cut can still take the whole file, which `wal.c:145` itself says.

The models show more of the same kind, for which no run is kept. To see one, set the constants
as given and check the property:

| where | what | how |
|---|---|---|
| `include/store/record.h:50` | boot ids start at 1 again after a roll and a crash: the new segment has no BOOT record | one ring, `SegmentRecords = 6`, one kill: `BootCountsUp` |
| `include/store/wal.h:6-7` | a SHUTDOWN batch that fills its segment is reported as a crash | `SegmentRecords = 8`, `MaxStops = 1`: `CleanStopIsReported` |
| `include/store/wal.h:77-79` | commit returns -1 for a batch that is durable when the next segment fails | `Accidents = {"create"}`, `SegmentRecords = 10`: `FailedBatchIsCutBack` |
| `include/store/wal.h:78` | a torn batch whose undo fails too hides every later batch from recovery | `Accidents = {"write", "undo", "kill"}`, `MaxAccidents = 3`: `ReleasedIsLogged` |
| `src/store/main.c:214` | a stop whose last commit fails exits with 0 and ends the log clean, without the batch | the second case of `CleanStopIsWhole`; drop it |
| `tools/elm.py:72-75` | a late reply that leaves just before the bare CR makes the CR repeat the last command, and that reply is read as the next answer; so may be a reply that was on its way, or being worked on, when the port was opened | `AnswerIsOwn` excuses both through `astray`; drop that |
| `tools/obdlog.py:147-149` | a second interrupt before the `try`, or in the `finally`, loses the footer | `EndsWithFooter` excuses it through `cut`; drop that |
| `tools/obdlog.py:43` | "consecutive" errors: NO DATA between two errors does not reset the count | read off `OnNoData` |
| `tools/obdlog.py:21-23` | the fsync bound in seconds is exceeded by the time of up to one open of the port and one init of seven commands | `SyncIsNeverFar` with a smaller bound |
| `tools/obdlog.py:23-24` | "the logger only stops on Ctrl-C, SIGTERM or --max-seconds": `elm.py:46` does not catch the `termios.error` that `elm.py:17-19` expects of a flush, and pyserial flushes when it opens; a link that vanishes there in a reopen ends the session, with a footer "error: ..." as in `tests/tools/test_obdlog.py:370-379` | `EndsWithFooter` without its last line |
| `src/interface/route.c:165-167` | a time with a leading zero is sent bare and makes the line malformed: the answer is 400, as for any bad time | `UrlIsAsked` says so through `LeadingZero` |
| `src/interface/synth_source.c:87` | uptimes wrap when the wall clock is set back by more than an hour after the start | readings are abstract here |
| `tools/obdlog.py:320` | the source of the data is not asked again after a reopen | not modelled |

## 7. What the models leave out

* Ring: weak memory orders (above).
* RingShm: what a generation is worth (the wall clock and the pid make two of them differ).
  `ring_init` makes the header valid before it clears the indices, so a child that is started
  before `ring_create` returns could see its first pushes wiped out; `ring.h` calls the ring
  unshared until then, and it is the supervisor, not yet written, that has to keep to it. A
  child that outlives its supervisor stays in the unlinked ring: `EveryoneAttaches` says
  that each is in some ring, not that all are in the same.
* Wal: bytes and CRC – a damaged record is one that does not decode. A truncation is
  durable at once: the ftruncate of a failed batch (`wal.c:331`) is followed by no fsync, so in
  the code a power cut may bring part of the batch back, as it may before the truncation.
  Failing calls other than write, fsync, ftruncate and the creation of a segment: `open`, `fstat`,
  `malloc`, `pread`, `mkdir` and `opendir` in `wal_open`, which make it return -1 and storaged
  exit, and `close` in `wal_close`, which makes it return -1 for a log that is closed. After a failed fsync the kernel may or may not have
  written the data: both happen. `wal_add` on a full batch buffer is unreachable from storaged,
  which flushes at `WAL_BATCH_SAMPLES`.
* Storaged: a failing `ring_attach` at the start, after which it exits and is started again.
* Server: a client that has closed only its sending side and lets its window fill up, for which
  conn_write would stay in WRITING (a client that stalls without hanging up does, and is
  reaped); a failing listener with nobody in the backlog; time outside poll; EINTR on calls that do not block, and poll errors other than
  EINTR; a handler's answer and the fixed 500 are one; a read with no room left cannot
  happen, since the parser answers a full buffer; heartbeat lines.
* Texts: characters are classes, words are units, and limits count units; an escape of a
  byte above 0x7f is left out. The request line cannot overflow, since three values of at
  most 24 bytes fit. The readings of the synthetic source; the wording of a head and of an
  error; the page.
* Elm: time – a wait may end whenever nothing has arrived; a reply with its prompt is one
  unit.
* ObdLog: the LogWriter's line count (`--fsync-lines`), location, status line, `multi_ecu`, `--connect-tries`; how
  long a wait or a command is; the port once the session is over. `--max-seconds` may pass only
  where the logger looks at the clock next, and before a signal, after which nothing looks at it. Of
  the exceptions that nobody catches the model has the one of an open and KeyboardInterrupt; a disk
  error in `LogWriter.write` takes the same way to the footer, whose own write may then fail too.
* Components that are stubs, constants, or offline tools: see `components` in PROJECT.json.

## 8. Plan

Modelled so far: every part with state or logic of its own. What is left, in order:

1. Theorems about storaged with rolls: `CleanStopIsWhole`, whose proof uses `SkipInv` for more
   than it needs; the others once recovery reads the segment before an empty one, which is the
   repair the findings ask for.
2. `read_log` of `obdlog.py` on a torn file, and `replay.py` on top of it, once the daemons
   read recordings.
3. The supervisor, obdd and analyzed, when they are more than heartbeats: the order in which
   rings are made and children started decides the two open hazards of RingShm.
