# Formal models of the SDHCAL data acquisition

TLA+ models of the data acquisition of the SDHCAL prototype, the TLC
configurations that check them on small instances, and theorems about them
proved with TLAPS for every value of the constants.

Contents: 1 inventory, 2 how to read a model, 3 the event builder `ShmProxy`,
4 the DIF server `LDIFServer`, 5 the TDC boards `TdcFpga`, 6 their server
`TdcManager`, 7 the run control `LDaq`, 8 the run controls `FullDaq` and
`WebDaq`, 9 the run control `RpcDaq` and its servers, 10 the runs, 11 the proofs,
12 findings and observations, 13 what is not modelled, 14 plan.

## 1. Inventory

### Parts

The detector is read by DIF cards on USB, in groups of one host each, by TDC
boards on TCP, and is clocked and triggered by the CCC and MDCC cards. Three
generations of software drive them: the DIM and RPC servers (`DimCtrl`,
`DimDaq`), the YAMI servers (`YDAQ`) and the state machines on levbdim
(`levbdim_daq`). All share the event builder on shared memory
(`SDHCAL_common`) or a library's version of it.

| part | state | operations | interacts with |
|---|---|---|---|
| `ShmProxy` (SDHCAL_common) | `theBufferMap_`, `theRunIsStopped_`, `theNumberOfDIF_`, `theEventNumber_`, one thread per Start, files in /dev/shm | Initialise, Start, Stop, svc (performReadFiles, performWrite), purgeShm, transferToFile | data sources in other threads or processes, through files; the run control, through Start and Stop; the writer |
| `LDIFServer`, `LDIF` (levbdim_daq) | state machine, `theDIFMap_`, the thread group `g_d`, per card `_rd`, `_readoutStarted`, `_readoutCompleted`, `_running` | SCAN, INITIALISE, REGISTERDB, CONFIGURE, START, STOP, DESTROY, web commands, the thread `LDIF::readout` | USB driver, DIM services, database records through `infoHandler` |
| `RpcDIFServer`, `DimDIF` (DimDaq) | `theDIFMap_`, per card `_rd`, the services, `_readoutStarted`, `_running`, the readout threads; no state machine | SCAN, INITIALISE, REGISTERDB, CONFIGURE, START, STOP, DESTROY, the thread `DimDIF::readout` | the run control by RPC, USB driver, DIM services |
| `DimDIFServer`, `difserver` | the same of other transports | the same | the same |
| `TdcFpga` (TdcReadout) | per board `_channels`, `_startIdx`, `_gtc`, `_lastGtc`, `_event` | clear, addChannels, processEventTdc | the listener thread and the command thread of its server, the event builder by a levbdim data source |
| `TdcManager`, `TdcMessageHandler` (TdcReadout) | state machine, `_msh`, `_group`, `_sCtrl` and the sockets of the boards, the header buffer of each socket, the listener thread | INITIALISE, CONFIGURE, START, STOP, DESTROY, web commands, dolisten, processMessage, parseTdcData, parseSlowControl, OnClientDisconnect | the boards and the slow control by TCP, the library netLink, `TdcFpga` |
| `LBuilder` | state machine, list of sources, levbdim event builder | INITIALISE, CONFIGURE, START, STOP, HALT, DESTROY | run control, levbdim |
| `LCccServer`, `LMdccServer` | state machine, register file of the card | OPEN, INITIALISE, CONFIGURE, START, STOP, PAUSE, RESUME | run control, cards |
| `LDbServer` | state machine, record of the run | DOWNLOAD, NEWRUN, DELETE | Oracle, DIM |
| `LDaq`, `FullDaq`, `WebDaq`, `RpcDaq`, `DimDaqControl` | state machine, one client per server, `_run` | DISCOVER, PREPARE, INITIALISE, CONFIGURE, START, STOP, DESTROY; FORCESTATE (FullDaq, WebDaq) | every server, by posts whose answers nobody looks at |
| slow control, databases, analysis, clients, vendored libraries | see `components` of PROJECT.json | | |

### What is hard

* threads that nobody joins (`ShmProxy::Start` creates one per run) or that are
  steered by flags without a lock (`LDIF`, `TdcFpga::clear`);
* data handed between processes by the existence of two files;
* commands that are refused without anybody noticing, and transitions that
  complete whatever failed inside them;
* what one run leaves to the next: files, map entries, channels, threads,
  lists of sources;
* servers that die and come back in their first state under a run control that
  thinks otherwise, and a run control that comes back under servers that run;
* a state that an operator may force, and clients that a second DISCOVER doubles;
* servers without a state machine, which only the run control's tests protect;
* one thread that reads frames from three TCP streams, which deliver any part of
  them at a time, and pointers that outlive what they point to.

### What makes each part correct

* event builder: an event holds one whole fragment of each DIF of one trigger;
  no fragment is used twice or disappears; what is complete is written.
* DIF server: a deleted card or service is never used; one reader per card,
  in every run; a stopped server falls silent; DESTROY ends.
* TDC: a trigger is one event, numbered and announced correctly; no hit is
  lost or doubled, even when a run begins while frames are on the way.
* TDC server: whatever the network cuts, frames reach their board whole and in
  order; the process dies of nothing that a run does.
* run control: nothing is left running after STOP; clock only while the readers
  run; a full cycle repairs whatever a fault has left; servers that execute
  whatever arrives are sent nothing that they do not survive.

## 2. How to read a model

A component has one module. Its comment names the code it stands for; its
actions have the names of the handlers or of their steps. A handler is one
action unless another thread can observe a state in the middle of it. Small
operators split out of an action mark places where a slip is plausible; the
variant with the slip stands before the definition it would replace (sections
"Variants"), is used by no action, and PROJECT.json pairs it with the property
that notices it (`mutants`).

`MC*.tla` and `*.cfg` are the instances for TLC. `*Proofs.tla` hold theorems.
`map` in PROJECT.json leads from every definition to its source lines.

Three abstract specifications say what a part promises the others:
`EventBuilder` an event builder its sources, `DifHost` a host of cards its run
control, `Acquisition` a run control its operator. Each is implemented by a
detailed model (`KeepsPromise`, `KeepsContract`), which TLC checks and TLAPS proves.

| module | models | extends |
|---|---|---|
| `EventBuilder` | what any event builder promises | |
| `Acquisition` | what any run control promises | |
| `DifHost` | what the server of a host of cards promises | `ServerTables` |
| `ShmProxy` | the event builder on shared memory | |
| `ShmProxyRefinement` | `ShmProxy` implements `EventBuilder` | `ShmProxy` |
| `LDIFServer` | the server of a host of DIF cards and its readers; implements `DifHost` | |
| `TdcFpga` | grouping of the frames of a TDC board | |
| `TdcManager` | the server of the TDC boards, from its commands to the byte streams | |
| `ServerTables` | the state machines of the servers, as the run controls meet them | |
| `LDaq` | the run control `LDaq` with its servers; implements `Acquisition` | `ServerTables` |
| `FullDaq` | the run controls `FullDaq` and `WebDaq` with their servers; implements `Acquisition` | `ServerTables` |
| `RpcDaq` | the run control `RpcDaq` with its servers, their cards and readers | `ServerTables` |
| `ShmProxyProofs`, `LDIFServerProofs`, `TdcFpgaProofs`, `TdcManagerProofs`, `LDaqProofs`, `FullDaqProofs`, `RpcDaqProofs` | theorems | the component, `TLAPS` |
| `ContractProofs` | theorems about `Acquisition` and `DifHost` | `TLAPS` |

## 3. The event builder: `ShmProxy`

State and code: `fs` is the set of paths in /dev/shm, `full` the fragments whose
Event_ file has all its bytes; `src`, `next` the sources inside
`transferToFile`; `stopped`, `run`, `nDif`, `bufferMap`, `lock`, `eventNumber`
the members of the class; `file` the writer's file; `pc`, `list`, `hand`,
`cursor` the builder loops, one per Start. `output`, `delivered` and `dropped`
are history variables for the properties.

* Sources: `OpenEvent`, `WriteData`, `CreateMarker` are the three file system
  effects of `transferToFile`, `TransferFails` its error exits, `LoseReadout` a
  readout that never gets there. A source numbers its triggers from one in each
  run and begins a transfer only while the run is on, but may end it later.
* Run control: `StopFlag` and `StopClose` are the two ends of the `sleep(1)` of
  `Stop`; `StartClear`, `StartFlag`, `StartOpen`, `StartSpawn` the steps of
  `Start` that a surviving loop can tell apart. `StartCrash` is the undefined
  behaviour of clearing the map without the lock while a loop is using it.
* Loop: from `Loop` to `ReadDone` is one pass of `performReadFiles`: the test of
  the flag, scandir before the lock, the lock, for each file the read, the two
  unlinks and the push, the early return. `WriteCheck` to `EraseComplete` is
  `performWrite`.

A fragment is (run, trigger, DIF, valid). The run stands for the bunch crossing
count in the file name, which tells the files of two runs apart; the order of
the listing is the order of these counts, so any order is allowed. `valid`
abstracts the two counters the reader compares.

`EventBuilder` is the abstract specification: fragments are offered; an event is
made of unused fragments of one trigger, one of each of `size` DIFs, and is
numbered next. `KeepsPromise` maps delivered fragments to offered ones and the
writer's calls to events.

Bounds: two sources and two triggers in one run give every relation of batches
to triggers (both fragments in one listing, in two, across a write); two runs
with one trigger give two loops alive at once, which is what the properties of
several runs are about: a third loop adds no new kind of neighbour, and the
theorems below hold for any number. `SleepCovers` separates what depends on the
`sleep(1)` of Stop (only `FileComplete`) from what does not.

Fairness (`FairSpec`): each builder thread is scheduled; a transfer and a Start
that have begun go on. Nothing obliges anybody to trigger, to stop or to start.
In `CompleteIsWritten` one loop runs, so weak fairness of the thread is enough:
the lock is free whenever it wants it.

Deadlock is not checked: the bounds of triggers and runs, or an aborted
process, end the behaviours.

## 4. The DIF server: `LDIFServer`

State and code: `fsm` and `Transitions` are the state machine, `cmd` the command
in progress with the cards it has still to handle, `known` is `theDIFMap_`,
`dif[d]` the members of the `LDIF` object, `thread` the readout threads,
`registered` the subscriptions of `theDBDimInfo_`, `late` counts the events
published since `stop()` for a property, `up` is FALSE after undefined behaviour
(a call through a deleted or NULL pointer), which ends the behaviour.

* One action per card and handler: `Initialise`, `RegisterDB`, `Configure`,
  `StartThread` and `Start` (`startDIFThread`, then `LDIF::start`), `Stop`;
  DESTROY is `ClearFlags`, `JoinThreads`, then for each card `DestroyFlag`,
  `DestroyWait`, `DestroyDrop`. Each fails in every way its code can, which only
  changes the published state. `Reply` completes the transition all the same.
* `Begin`, `Loop`, `Read`, `PublishEvent`, `Failed` are `LDIF::readout` cut at
  every place where another thread can come between: the test of
  `_readoutStarted` and `_running`, the call on the card, the publication.
* `InfoHandler` is the DIM callback that brings the configuration record.

Choices: commands run one at a time, as on the one thread of the state machine's
server. SCAN is one step, and `InfoHandler` does not fall inside it. `Configure`
is one step per card. STATUS and JOBLOG only read. The constructor leaves
`_running` uninitialised: `NewLDIF` takes any value. `LDIF::start` publishes
STARTED and sets `_running` in one step (LDIF.cc:80-83). A callback that still
uses a `DimInfo` or the `_dbdif` of a card that SCAN has deleted
(LDIFServer.cc:648, 666) is left out with it.

`Targets` are the card identifiers a command may carry, `WebStates` the states
in which a web command arrives. The run controls of the repository send `difid`
0 only: that is `Targets = {0}`.

`DifHost` is the contract of the server with a run control, without commands'
steps, threads or flags: the table, the cards that are open, those that have a
reader (`serving`), whose reader is inside a call (`calling`) and whose reader is
to call (`polled`). `KeepsContract` maps the four sets to `OpenCards` (a driver),
`ServedCards` (a thread), `CalledCards` (a thread inside a read
or a publication) and `PolledCards` (`_running`). That a card has
one reader and not two is OneReader, which a set of cards cannot say. `RegisterDB` and `Configure` change nothing in it. Its actions say when: a
reader begins a call only in RUNNING or in a START, a card is closed only when
no reader is left, a START is over when each open card has its reader, a STOP
when nothing is to be read, a DESTROY when nothing is left. `DifTable` of
`ServerTables` is its table, the one that the run controls of sections 7 and 8
post to: that they and `LDIFServer` mean the same server is a consequence and
no longer a claim of this text.

Bounds: two cards give a failed one beside a working one and the order in which
handlers take them; two threads are as many as can exist while a card has at
most one. `late` stops at 2.

Fairness: weak for the command in progress and for each reader, that is, for
the server's thread and the readout threads. No command is ever obliged to come,
and InfoHandler neither.

`LDIFServerSingle` lets commands name a card. Those lead to crashes (section 12),
after which the process does nothing: deadlock is not checked there. In all the
other runs it is.

## 5. The TDC boards: `TdcFpga`

`addChannels` runs on the thread of `TdcManager::dolisten`, `clear()` on the
command thread of `TdcManager::start`, without a lock. The listener's actions
are the steps of `addChannels` and its recursive call: `ReadFrame`, `TestGtc`,
`AppendHits` or `LoadEvent`, `StoreEvent` (`_event++` is a load and a store),
`ProcessEventTdc`, `ResetChannels` and back to the test. `ClearGtc`,
`ClearEvent`, `ClearLast` are the three assignments of `clear()`.
`BoardSends` is the board: more frames of the trigger, or the first of one with
another count; a frame is whole. `channels` holds the indices of the frames
whose hits are in `_channels`, `startIdx` counts frames where the code counts
bytes. `ProcessEventTdc` is one step: that a `clear()` falls between its reads of
`_event` (TdcFpga.cxx:75) and of `_gtc` (77, 125), and the bounds of its
temporary buffer, are left out.

`drained` is a history variable: every STOP so far was followed by a START only
when the frames on the way had been handled, which is what the `sleep(2)` of
STOP hopes for. `Conserved` and `Uniform` need no such hope (nor does
`BufferIsTrigger`, which section 11 proves and no run repeats);
`Numbered` does, and `Grouped`, `Announced` and `FollowedIsPublished` are about
regular behaviours (`Regular`), in which no run begins with trigger count 0
either: the count is reset before the first trigger, which raises it. If a run
did begin with 0, `_lastGtc` of zero would take its first frames into what is
held from the run before.

`OnlyLastHeld` is the half of FollowedIsPublished that is safety: in regular runs
the listener, back at its socket, holds only the trigger of the last frame it
has read, so that whatever is followed by another trigger has gone out. The rest
is that the listener goes on reading.

Bounds: counts 0, 1, 2 contain the wrap through zero; 2 runs with 4 frames of
any counts give a trigger cut by a restart at each of its steps, with a trigger
before and after it, drained or not. Deadlock is not checked: the bounds of runs
and frames end the model.

Fairness: weak for the listener, which loops for ever. `FollowedIsPublished` is
what it buys: a trigger that is followed by another one is published. The last
one is not, until the next run.

## 6. The TDC server: `TdcManager`

The commands of `TdcManager.cxx` run on the command thread, the web commands on
the web server's, and `dolisten` on a thread of its own that nobody joins. Each
pointer of the class is a variable that says what it points to: nothing, an
object, or one that is gone (`msh`, `group`, `ctrl`); the constructor leaves
`_msh` unset, so that it begins as "null" or "garbage". A use of a pointer that
is not good is `Crash`, after which there is no process; the variables keep the
values it died with.

* Commands: `Initialise` opens the sockets one after the other and may fail at
  each (`failed`), which ends the handler early but completes the transition.
  `Acquisition` is `startAcquisition` from CONFIGURE, START and STOP with the
  registers it writes through the slow control socket. START walks through the
  map of readouts without a lock (TdcManager.cxx:911) while the listener may
  insert a socket at its first message (`EntersReadout`): `StartRaces` is the
  outcome in which the walk does not survive that. `Destroy` deletes and
  clears nothing, the listener goes on: `ListenDestroyed`, `InitialiseAgain`.
* Listener: `ReadHeader` is one read of the header by `processMessage`, which
  takes what has come: eight bytes, or a part, and then the other half of the
  header buffer is that of the message before (`split`). `TdcHeader` and
  `SlowHeader` follow the magic number, `DropHeader` everything else.
  `ReadPayload` is a turn of the loop in `parseTdcData`, `AddChannels` its end,
  `ReadSlow` the one read of `parseSlowControl`.
* Network (external): `SendFrame`, `PeerCloses`. A connection that ends in the
  middle of a message is `MessageEnds`, between two `Disconnect`; a reset in the
  read of `parseSlowControl`, which has no `try`, is `SlowThrows`.

A stream is a sequence of frames, cut into cells of four bytes, the finest cut
that the two fields of a header tell apart. `header` holds which cells stand in
the buffer of a socket, so that a parse that has fallen out of step reads the
lines of one frame as the header of another; `Garbage` is what a payload cell may
mean as a number of lines. A cut inside a field, completed by stale bytes to
another magic number or length, is left out: it leads where a cut between the
cells does, out of step, and the properties say of both only what holds under an
unbroken header. Answers of the slow control have something behind their header:
one of eight bytes would hold the listener, with all the boards, in the read of
`parseSlowControl` until the next answer. The handler chooses the board by the
parity of the last byte of the address (TdcMessageHandler.cxx:36-40), the model
by the socket: the two boards are taken to differ there, as the handler needs
them to.

`Frame(b, k)` is what the board's `addChannels` should be given. `TdcFpga` takes
whole frames for granted: `InOrder` is that assumption, up to the first header
that arrives in pieces, and `WholeIsIntact` what is left of it afterwards.

`NoCrash` is a list of five causes: a peer that closes, a DESTROY, a slow control
that could not be opened, a `_msh` that was never set, a START beside a first
message. It does not say that the code is safe from any of them. It says that
nothing else ends the process: not a TDC socket that INITIALISE could not open,
not CONFIGURE, START and STOP after it, not what the network makes of headers
and payloads.

`NeverStalls` is the half of SentIsHanded that is safety: as long as the headers
of a board come whole, the loop of `parseTdcData` waits for no byte but those of
its own frame, and a socket with nothing to read has no frame left behind.

Bounds: two frames on one board (one to fall out of step with, one to be caught
in again), one on the other and one answer of the slow control beside them; one
connection that ends. `Garbage` of 0 and 2 is less and more than the one line of
a frame. The theorems hold for any of these.

Fairness: weak for the listener, which loops for ever over `listen(2000)`; data
that was sent arrives. No command, no frame and no failure has to come.
Deadlock is not checked: a dead process and the bounds of the frames end the
model.

## 7. The run control: `LDaq`

`ldaq` is the state machine of `LDaq`, `state[s]` that of each server, with the
tables of `LDIFServer.cc`, `LCccServer.cc`, `LMdccServer.cc`, `LBuilder.cc` and
`LDbServer.cc` (in `ServerTables`; the rows that a run control can post). A command is a `Plan` of stages:
the posts of the handler in its order, those of a stage in any order, as threads
joined by `join_all`. `PostDif`, `PostDb`, `PostBuilder`, `PostCard` is one
answer; a server without a transition for the post, or one that is down, changes
nothing. `Done` completes the command whatever was refused. `Crash` and
`Restart` may happen anywhere: a server comes back in CREATED, the builder with
no sources. A post to a server that is down returns, as a call that found no
link; that it might block is not modelled.

`clean` is a history variable: how far an uninterrupted cycle PREPARE,
INITIALISE, CONFIGURE has gone since the last fault.

Bounds: two hosts, two runs, one crash. One crash already puts each server in
the wrong state before, in and after each stage of each command; all the
properties say what holds after it, for each server by itself; section 11 has
QuietWhenStopped and ReadyToScan for any number of hosts and crashes. No fairness is
needed, the properties are invariants. Deadlock is checked.

`LDIFServer` and `LDaq` are two views of one server: `DifTable` is
`Transitions`, and `LDaq` abstracts the command to one step. `DifHost` (section 4)
is what they have in common.

`Acquisition` is the contract of a run control with its operator. A START or a
STOP may be in progress (`phase`); a START that no completed STOP followed makes a
STOP due (`due`); `running` are the servers that acquire. A server begins only in
a START and ends only in a STOP, by a fault, or outside the promise; a STOP
is complete when nothing runs. While the run is `orderly`, that is, no fault came
since the servers were configured, START is over only when all members run, the
clock card begins after the last reader and ends before the first. A fault ends
`orderly` and never `due`. `KeepsPromise` reads these off `cmd`, `ldaq`, `state` and
`clean`: `RunPhase`, `Due`, `Acquiring`.

## 8. The run controls `FullDaq` and `WebDaq`

One module for both: `kind` chooses. They have the same table and the same
order of posts; FullDaq talks to its servers by web queries, has TDC servers and
sends CREATE to a server it finds in VOID, WebDaq finds servers by their DIM
services and has no TDC server. What sets them apart from `LDaq`:

* DISCOVER may be repeated (`CommandDiscover`, `Find`, `DiscoverDone`): the DIF
  clients are cleared first, the others replaced one by one, those of TDC
  servers only added. A client is a pair <<server, n>>, n telling the copies of
  a TDC client apart. A server that is down gets a client without an address
  (FullDaq), whose posts have no effect and no answer (`Nameless`), or none.
* DESTROY is allowed from INITIALISED, CONFIGURE from CONFIGURED.
* FORCESTATE (`ForceState`) sets the state machine to any state, between two
  commands.
* `Crash` and `Restart` of servers, as in `LDaq`, but a server of FullDaq comes
  back in VOID; `DiesSpent` is a TDC server that dies of its DESTROY, as
  `TdcManager` shows; `RunControlRestarts` loses the clients, the command in
  progress and the state.

`Find` sends CREATE to every server of FullDaq that it finds in VOID; the code
does so only with the configuration that `userCreate` has read from its URL or
file (FullDaq.cc:253), which the model takes to be there. The posts of CONFIGURE to
the TDC servers stand inside `if (_builderClient)` (FullDaq.cc:584-626); the plan
does not nest them, since DISCOVER always makes a client of the builder. Of the
tables of the servers, `ServerTables` leaves out HALT and DESTROY of `LBuilder`,
DESTROY of `LCcc` and DELETE of the database, which no run control here posts.

The posts are `Plan`, stage by stage, as in `LDaq`. `started`, `lost` and `clean`
are history variables of the properties.

`QuietUnlessStarted`: acquisition needs a START since the last STOP that a run
control with its clients has completed. The exemption of `lost` is the code's: a
run control that has come back posts to nobody until it has discovered, and STOP
completes all the same. `RunsTogether` is what a cycle is for: whatever states
the servers were in, after DISCOVER, PREPARE, INITIALISE, CONFIGURE without a
fault and with nothing running before it, the clock card runs only while all the
readers do, and the builder has the run number that the run control reports.

`KeepsPromise`: both implement `Acquisition` as `LDaq` does (section 7), with
`started` for `due`. Here the members change, since a TDC server that DESTROY spent is
out of the promise. FORCESTATE to another state is a Fault, the death of the run
control one that gives up the command in progress; a STOP by a run control without
clients is one, too: it ends nothing, and leaves `due` as it is.

Bounds: one host, one TDC server; two STARTs, one fault, one FORCESTATE to
another state, two DISCOVERs, five of these together (`MaxInAll`), which leaves
every four of the kinds: a cycle, a fault in each stage of each command, a forced
state at each rest and the cycle after it. No fairness: the properties are
invariants. Deadlock is checked; the run control always has a command it can
take.

## 9. The run control `RpcDaq` and its servers

The servers of this generation have no state machine: `RpcDIFServer` executes
whatever it is sent, and START leaves threads on cards that SCAN deletes. What
keeps the two apart are the string comparisons in the methods of `RpcDaq` and the
flags of the cards. So the model holds all of it: the run control with `Plan` and
`Allowed` (the comparisons), the servers with their `DimDIF` cards, and one
reader per card.

* Run control: `Discover`, `Command`, `NextStage`, `Done`; a command is a `Plan`
  of stages as in `LDaq`, and completes whatever was answered. `PrepareAllowed` is
  what the test of PREPARE accepts (its third comparison lacks `== 0`),
  `Preparable` the states it names. `ForceState` is `forceState` of
  `webrpcdaq.py`.
* DIF server: `Scan`, `Initialise`, `Register` (REGISTERDB and CONFIGURE),
  `StartThreads` and `StartCards`, `Stop`, `DestroyFlags` and `DestroyCards` take
  the cards of a host together: a card's handler touches its own card only, so
  that the cards in between are seen by nobody but their own reader, for which the
  step is atomic wherever it comes. START and DESTROY are two steps, because the
  reader of a card can move between the two things they do to it: the thread and
  `start()`, the flags and the deletion after the join (`Joined`).
* `Reader` is `DimDIF::readout`: the test for a driver, which takes the flag down
  when it fails, the loop on `_readoutStarted`, the read and the publication of an
  event while `_running`.
* Clock card and builder: `CallCcc`, `CallShm`; `expects` is the number of DIFs
  of START, counted over the clients' lists. The database always answers.

`up` falls at a call through a deleted card or a NULL service, and the model ends
there; `misled` is a history variable: PREPARE was taken where its test was not
meant to let it, or the state was forced. `DiesOnlyMisled` says that nothing else
kills a server, `TriggersAreBuilt` that the clock card gives triggers only into a
run that waits for the cards there are, each with its reader.

Choices: commands come one at a time, as through the single-threaded server of
`webrpcdaq.py`. Commands carry card 0, that is all cards, as those of `RpcDaq`
do. One thread per card: START tests the flag, and section 4 has the model and the
proof that this is enough. The calls of STOP, made one after the other, are taken
in any order.

Bounds: two hosts, one with two cards, so that a card that fails, one that works
and a server that was not found meet; scans and failures are unbounded. The two
cards of one host are interchangeable (symmetry). No fairness: the properties are
invariants. Deadlock is not checked: the end of a server ends the model.

## 10. The runs

| run | instance | properties | shows |
|---|---|---|---|
| shm_one_run | 2 DIFs, 2 triggers, 1 run, fair | TypeOK, FileComplete, ListedIsPresent, KeepsPromise, CompleteIsWritten | in one run the builder implements EventBuilder, its events go to the open file from number zero, its loop never misses a listed file, a complete trigger is written or the run stops |
| shm_two_runs | 2 DIFs, 1 trigger, 2 runs, Stop waits for nobody | HandOver, NoFragmentTwice, Accounted | the hand-over and the conservation of fragments survive two loops |
| shm_purge | 1 DIF, 2 runs | StartsClean (violated) | finding 1 |
| ldif_all | 2 cards, web commands between INITIALISE and DESTROY, fair | NoCrash, StartedIsRead, DestroyClean, LateOnce, KeepsContract, DestroyEnds, StopQuiets, StartedIsPolled | driven as the run controls do, with every failure: no crash, the contract DifHost, an end to every DESTROY |
| ldif_single | 2 cards, commands for one card | OneReader | one reader per card even so |
| ldif_early | 2 cards | ReadAfterStart (violated) | finding 2 |
| tdc_fpga | 2 runs, 4 frames, fair | Conserved, Uniform, Grouped, Numbered, Announced, OnlyLastHeld, FollowedIsPublished | what START may do in the middle of addChannels; one trigger, one event where STOP has drained the socket |
| tdc_manager | 2 boards and the slow control, 4 frames, 1 closed connection, fair | InOrder, WholeIsIntact, NoCrash, NeverStalls, SentIsHanded | frames against a stream cut anywhere; what the process can die of; nobody holds the listener up for good |
| ldaq_faults | 2 hosts, 2 runs, 1 crash | QuietWhenStopped, ReadyToScan, TriggersIntoReaders, CycleRecovers, KeepsPromise | the run control against refused posts and restarts; it implements Acquisition |
| ldaq_sources | 2 hosts, no crash | BuilderHasSources (violated) | finding 3 |
| full_daq | 1 host, 1 TDC server, 2 STARTs, 1 fault, 1 FORCESTATE, 2 DISCOVERs | QuietUnlessStarted, RunsTogether, KeepsPromise | FullDaq and WebDaq against forced states, repeated DISCOVERs and restarts; they implement Acquisition |
| rpc_daq | 2 hosts, 3 cards | TypeOK, DiesOnlyMisled, TriggersAreBuilt | the state tests of RpcDaq and the flags of the cards keep servers without a state machine alive, and triggers out of runs that are not ready |

The type invariants are theorems (`TypeCorrect` of each component); TLC
checks `TypeOK` where the table says so.

## 11. The proofs

The theorems hold for every value of the constants that the `ASSUME`s of the
modules allow: any number of DIFs, triggers, runs and loops; any cards and
threads; any trigger counts, runs and frames; any streams, cuts and closed
connections; any servers, hosts, faults and forced states.

`ShmProxyProofs`:
* `TypeCorrect`, `MutualExclusion` (LockOK, which is needed here and in no run), `HandOverSound` (HandOver) from
  `IInv`. LockOK and HandOver are not inductive: a marker implies whole data
  only if no source can rewrite or re-create the files of a fragment that was
  consumed (`SourceOK`, `DeliveredOK`: what is in a source's hands is newer than
  everything delivered, because `next` only grows within a run and `run` only
  grows), if the loop inside the critical section holds a delivered fragment
  (`HandOK`), and if a loop of a later run does not exist yet (`ControlOK`).
  `PathFacts` carries the observation that the purge names no existing path.
* `NothingLost` (Accounted) from `AInv`: what the map iterator has gone past is
  written (`WrittenBehind`), so that erasing the complete entries loses nothing,
  and a loop holds a fragment only while it moves it (`HandFree`).
* `OneLoopReads`: if `MaxRun = 1`, ListedIsPresent, from `LInv`. Without that
  assumption it is false (section 12).
* `NeverTwice` (NoFragmentTwice) from `UInv`, for any number of loops. A fragment
  enters the map only in the hand of the loop that holds the lock, out of a file
  that it unlinks in the same step and that its source never makes again: what is
  in the map or the output has no marker left, and none comes again (`Consumed`).
  Only while the loop with the lock writes is something in both, behind its
  iterator (`ToErase`).
* `EventsInFile`: if `MaxRun = 1` and the sleeps of `Stop` cover a turn of the
  loop (`SleepCovers`), FileComplete: the counter of the loop is the number of
  events (`NInv`), and the file is open as long as a loop is past a test of its
  flag (`FileOK`).
* `ImplementsPromise`: if `MaxRun = 1`, `Spec => KeepsPromise`, the refinement of
  `EventBuilder` by `ShmProxy`. `Events` is the mapped list of events; the step in
  which a loop writes an entry is `Build` (`WriteIsBuild`: the fragments are
  offered and unused by `UInv`, of one trigger and one run, and different DIFs
  because a DIF marks a trigger once in a run); a source's marker is `Offer`, the
  initialisation `Agree`, everything else a stutter (`PromiseStep`).

`LDIFServerProofs`:
* `TypeCorrect`, `NeverTwoReaders` (OneReader) from `RInv`. The key is `FlagOK`:
  a thread exists only while the flag of its card is up, but on the way to
  CREATED, from where START can only come after a SCAN that makes new objects;
  so `startDIFThread`, which tests the flag, never adds a second one.
* `ServerNeverCrashes` (NoCrash), `ReadersAreSafe` (ReaderSafe) under
  `RunControlDriven`: commands name all the cards, web commands come neither in
  CREATED nor in SCANNED. `SInv` relates the phase of the machine to what
  exists: services from INITIALISE to the card's own destroy, threads from START
  to the join, a card under every thread that has passed its first test.
* `OneLateEvent` (LateOnce), whatever cards the commands name: a thread that is
  past its test of `_running` when `stop()` clears it can publish once; after that
  no thread of the card reads or publishes before the next `start()` (`LateOK`).
* `DestroyLeavesNothing` (DestroyClean) and `StartedHasReader` (StartedIsRead)
  under `RunControlDriven`, from `KInv`: to `SInv` it adds which command can be in
  progress in which state of the machine (`RunPhase`), that the cards a DESTROY has
  already dropped are clean (`CleanOK`), and that a started card has its flag, its
  driver and its thread (`StartedOK`).

* `ImplementsContract`: under `RunControlDriven`, `Spec => KeepsContract`, the
  refinement of `DifHost` by `LDIFServer`, from `HInv`. To `KInv` it adds that what
  SCAN does not know is neither open nor polled (`CardsOK`), what START and STOP
  have done with the cards they have handled (`ServedOK`, the first half of
  `PolledOK`), that a card which has a thread is polled only in RUNNING or in a
  START (its second half, without which the call of a reader would have no
  counterpart after STOP), and that a command in progress leads where the table
  says (`LeadsOK`). Each thread has a card of its own, so that a step of one
  reader moves one card in or out of `calling` or `serving` (`ThreadsSeen`,
  `CardsSeen`). `HostServer` maps the steps of the server, `HostHandler` those of a
  handler on one card, `HostReader` those of `LDIF::readout`.
* `ReadersDrain`: while DESTROY waits for the threads, no reader comes to be and
  each step of one brings it nearer to its end (`Rank` falls): a reader takes three
  more steps at most, whatever its reads return. It rests on `JoinOK`, that no
  reader that DESTROY waits for has its flag up. What DestroyEnds needs besides is
  only that the readers are scheduled.

`TdcFpgaProofs`:
* `TypeCorrect` (`TInv`), `OneCountPerEvent` (Uniform) from `UInv`: what is held
  has count `_lastGtc` and count `_gtc`, each unless zero (`HeldLast`,
  `HeldGtc`); `Passed` covers a `clear()` between the test and the append.
* `NoHitLost` (Conserved) from `CInv`, `BufferBounded` (BufferIsTrigger) from
  `BInv`.
* `OneTriggerPerEvent` (Grouped) and `RightCount` (Announced) from `GInv`. `QInv`
  orders what the listener has still to read (`Stream`): the frames of a trigger
  are neighbours with one count, the next trigger has another, a run begins with
  trigger one. `Listening` says what the listener holds at each of its places: all
  the frames of one trigger that came before, so that the fields compare as the
  triggers do and every event published is whole.
* `NumbersHaveNoGap` (Numbered) from `NInv`: the counter is the number of events
  of the run, at every place of the listener and of START, if STOP drained.
* `OnlyLastIsHeld` (OnlyLastHeld) from `CInv` and `GInv`: what was read is held or
  published, and what is held at the socket is of one trigger.

`TdcManagerProofs`: `TypeCorrect`, `FramesInOrder` (InOrder), `WholeStaysIntact`
(WholeIsIntact) and `DiesOfNothingElse` (NoCrash, its five causes) from one
invariant `IInv`.
* `Pointers` ties the objects to each other: a listener exists only if the last
  INITIALISE opened everything, a group that is live has its members.
* `Stream(b)` follows one board through its stream. `HeaderIsPast`: what stands
  in the header buffer has been read. `HandedSoFar`: what was handed over is
  behind the place where the reader is, in order, and whole where the header is
  one frame's. `Reading`: in the middle of a payload the magic number names a
  frame of which nothing was handed over yet, and under an unbroken header the
  place of the reader is what `need` says, so that the payload ends with its
  frame and not before or after. `InStep`: until a header is cut, the frames
  handed over are the first ones without a gap, and the reader is at the next.
  Neither of the two properties is inductive without the place of the reader.
* `ListenerNeverStalls` (NeverStalls) is a consequence of the same invariant:
  `InStep` and `Reading` put the reader at a place of its frame, and a frame that
  was sent has all its cells in the socket or behind the reader.

`LDaqProofs`:
* `TypeCorrect` from `TInv`: a command in progress is one that the table allows
  (`Allowed`), and what DISCOVER has not found was never posted to (`Strangers`).
* `QuietAfterStop` (QuietWhenStopped) and `AlwaysReadyToScan` (ReadyToScan) from
  `IInv`. Both speak of a run control at rest; the strengthening says what holds
  inside a command. `Path` gives, for each command and stage, the states of a DIF
  server that has gone along so far; `Lockstep` says that every server that runs
  is there, before the stage if it still has to answer and past it if not, or is
  fresh in CREATED after a restart. It is inductive because in these tables a
  server that refuses a post of its path is always in a state that the next
  stage allows as well (`DifStep`, one case per stage). `Quiet` is the same for
  the clock card and the builder, of which only RUNNING matters.
  The number of hosts, of runs and of crashes is arbitrary.
* `OnlyIntoReaders` (TriggersIntoReaders) and `CyclesRecover` (CycleRecovers) from
  `WInv`. `Lockstep` allows a fresh server at every place; in a cycle without a
  fault the states are tighter (`DifTight`, `CccTight`, `BuilderTight`), and `Placed`
  says that everybody is found and is there. That an answer leads from each stage
  into the next (`Follows`) and each command from where the one before it ended
  (`Fits`) is one lemma per kind of server; that PREPARE may begin a cycle follows
  from `Lockstep` and `Quiet`: whatever faults left behind, nothing runs and the
  DIF servers are fresh (`PrepareBegins`). `Reported` carries the run number.
* `ImplementsPromise` (`Spec => KeepsPromise`): the refinement of `Acquisition`. An
  answer is a Begin, an End or a stutter (`PromiseAnswered`): which, the stage and
  the state of the server tell, and in a clean run that everybody before the clock
  card has answered is what TriggersIntoReaders says after the step. `Done` of
  START and STOP may be Started and Stopped because of CycleRecovers and
  QuietWhenStopped, the invariants proved before.

`FullDaqProofs`: `TypeCorrect` and `AlwaysQuietUnlessStarted` (QuietUnlessStarted)
from `IInv`. To know that STOP reaches what runs, one has to know that whatever
runs has a client: `RunningIsKnown` says so unless the run control came back and
has not begun to discover, and during DISCOVER counts the servers still to be
looked for. `StopReaches`: in a STOP every server that runs is in a stage still
to come or among the clients of the present one, in whatever state the others
are. `StartCounts` is START in progress, `NoTdcInWebDaq` that the TDC servers
stay out of WebDaq's way. FORCESTATE disturbs none of these, which is why the
property survives it. `AlwaysTogether` (RunsTogether) from `CInv`, which is built
like `WInv` of `LDaqProofs`. A cycle here begins with whatever states DISCOVER
finds, as long as nothing runs, so that the paths are sets that shrink on the way
(`DifPath` begins with every calm state); a TDC server may get a post twice, so
that each stage must also map the states behind it into themselves; and a TDC
server that DESTROY spent is no longer a member of the cycle.
`ImplementsPromise` (KeepsPromise) from `PInv`: `CInv`, and that a run control which lost its
clients is in no clean cycle (`LostUnclean`). In a clean cycle no
member runs where START begins (`CalmAtRest`) and where a DESTROY spends a TDC
server (`CalmInDestroy`, a Dissolve); a STOP reaches whatever runs (`StopReaches`
again), so that its end may be Stopped. FORCESTATE, a second DISCOVER, crashes,
the death of the run control and a STOP without clients are a Fault
(`PromiseFault`), which asks that what runs keeps its STOP due: QuietUnlessStarted.

`RpcDaqProofs`: `TypeCorrect`; `ServersLive` (DiesOnlyMisled) from `SInv`,
`RunsHaveReaders` (TriggersAreBuilt) from `BInv`.
* `SInv` is `Safe` while nobody has been misled. A reader may exist only between
  START and the join of DESTROY, so that every command that can meet SCAN has to
  be shown to come after a DESTROY; in between, services and drivers are there for
  every card that has a reader. It has to say where a handler is half done
  (`half`), and what each command in progress has already done at each host
  (`cmd.todo`), because the hosts are commanded in any order.
* `BInv` adds `Runs`: a clock card that acquires was started by a START whose
  earlier stages are over (`AcquiresInRun`), a run of the builder needs its proxy
  (`ProxyFirst`), and a card that has a driver keeps the flag that START raised
  (`DriversAreFlagged`), since only a reader without a driver takes it down.

`ContractProofs` shows what the two contracts come to, for any program that keeps
them: under `Acquisition`, nothing acquires between a completed STOP and the next
START (`NothingAfterStop`) and, in an orderly run, a clock card that runs has all
the readers with it (`CardRunsAmongReaders`); under `DifHost`, a card in a call is
open and has its reader (`CallsStaySafe`), and a host back in CREATED holds
neither cards nor readers (`EmptyWhenCreated`).

Only model-checked: everything temporal under fairness (CompleteIsWritten,
DestroyEnds, StopQuiets, StartedIsPolled, FollowedIsPublished, SentIsHanded), which
the prover does not handle. Of three of these the half that is safety is proved
(`ReadersDrain`, `OnlyLastIsHeld`, `ListenerNeverStalls`); of StopQuiets, that no
reader begins a call outside RUNNING and START, is in the contract. Every
invariant that a passing run checks, and every refinement, is a theorem;
ListedIsPresent, FileComplete and KeepsPromise of `ShmProxy` for one run, NoCrash,
DestroyClean, StartedIsRead and KeepsContract of `LDIFServer` for a server that the
run controls drive.

## 12. Findings and observations

Findings, each with a violated run:
1. `purgeShm` lists `closed/` but unlinks names that no file has
   (ShmProxy.cc:269-290): the purge before a Start, made to "remove old data not
   written" (DimShmProxy.cc:259), removes nothing.
2. `LDIF` does not initialise `_running`: a thread may read and publish a card
   before its `start()`, or one whose `start()` failed.
3. `LBuilder` accepts CONFIGURE only from INITIALISED, `LDaq` posts it at every
   CONFIGURE: after DESTROY and a SCAN that finds other cards, the builder waits
   for the old ones.

Observations made by the models, about which the repository claims nothing:
* `Stop` does not join: after Start, Stop, Start two loops run. Each may end the
  other ("Cannot open shm file" on a listing that is stale), and events of the
  second run may be numbered by the counter of the first; lock, hand-over and
  conservation hold.
* After a Stop with incomplete triggers, fragments of two runs with the same
  trigger count can meet in one entry: the abstract EventBuilder is implemented
  only within one run.
* Events that have more than `theNumberOfDIF_` fragments stay in the map for
  ever.
* DESTROY of a single card takes the whole server to CREATED; the next SCAN
  deletes cards under running readers. The run controls never send it.
* SETTHRESHOLD and SETGAIN before INITIALISE or after DESTROY: the code that
  should report "is not initialised" publishes through a NULL service
  (LDIFServer.cc:557-566, LDIF.cc:71).
* A card in INIT_FAILED is configured and started like any other.
* The last trigger of a TDC run is published at the first frame of the next one,
  under count zero and event number one; the very first event of a board is
  empty.
* A database that fails gives run number 0, and START goes on with it.
* START of `TdcManager` resets the readouts in a map into which the listener may
  be inserting a socket (TdcManager.cxx:911, TdcMessageHandler.cxx:241-247): with no
  lock, the outcome is undefined.
* A frame of a TDC board whose header arrives in two TCP segments is lost, with
  whatever follows until the reader falls back on a header: the loop that should
  complete the header ends after its first read (TdcMessageHandler.cxx:311). What
  is handed over in between may be lines of one frame under the length of
  another; `TdcFpga` does not notice.
* A peer that closes its connection kills the TDC server (a write through a
  reference that `listen(2000)` leaves NULL), and so does a second INITIALISE
  after DESTROY, or the listener that DESTROY leaves behind. In FullDaq that is
  every DESTROY of a cycle; the server has to be started again, and is then found
  only by a DISCOVER, for which the run control must be forced back.
* A server of FullDaq that dies comes back in VOID and refuses everything: the
  run control's table leads back to DISCOVER from CREATED and DISCOVERED only.
* PREPARE of `RpcDaq` is accepted in every state but PREPARED, STARTED included
  (RpcDaq.cc:336); the INITIALISE that follows deletes the cards under their
  readers. The same PREPARE from PREPARED, which the test names, is refused.
* DESTROY of `RpcDaq` before DISCOVER leads to DESTROYED, from where DISCOVER is
  never accepted. It leads past PREPARE, too: INITIALISE is accepted in DESTROYED,
  although PREPARE is "compulsary before first initialise" (rcn.py:25). And
  `--daq-destroy` goes to DESTROYED, not "back to the PREPARED state" (rcn.py:40).
* After a second DISCOVER each TDC server gets every post twice. The second one
  is refused or repeats the first; no state depends on it.

Hazards of PROJECT.json without a property. Some the models reach but the
repository promises nothing about, so that the properties name or exempt them
instead of catching them: two loops that end each other (ListedIsPresent is for
one loop), an event written to a closed file or with a number of the run before
(FileComplete needs one Start and a Stop that waits long enough; Accounted does
not look at files), web commands before INITIALISE, DESTROY of one card, DESTROY
and closed connections of the TDC server, START beside a first message (NoCrash
lists these), PREPARE of `RpcDaq` in any state (DiesOnlyMisled exempts it). Others
are decided outside the models: numbers of runs that a database failed to give,
bytes on the USB link, the delay of a DIM service, the calibration scans.

## 13. What is not modelled

* bytes: headers and conversions of DIF buffers, TDC words, sizes of buffers;
  `save2DevShm`, `run2DevShm`, the roll-over of the writer's file at 500 MB;
* registers of cards, the contents of the configuration, CMD posts, the power
  supply, parameters of commands other than the card they name;
* the calibration scans of TDC START types 1 and 2 (START never returns from
  them, see the hazards) and the contents of the slow control;
* commands that overlap on one server; redelivery of DIM values; a second
  Initialise of `ShmProxy`;
* `DimDaqControl`, `DimDIFServer` and the YAMI servers: other transports of what
  `RpcDaq` models, without answers and without state tests on the server;
* the parts listed as `not_modelled` in PROJECT.json.

Most of the lines of the repository belong to those parts: the analysis of
recorded data (SDHCAL_Analysis, SDHCAL_EventReader: numerical code on one thread,
most of the C++ lines), generated and vendored code (YDAQ, netLink, the pages of
WtWizard), register access (SDHCAL_Readout, SlowControl) and database access.
They keep no state that several actors share; a model of them would repeat their
arithmetic. The part that the modules cover is small in lines and holds the
threads, the state machines and the hand-overs.

## 14. Plan

Done: the models of sections 3 to 9 and the proofs of section 11. Next, in this
order:

1. `TdcFpga` fed by `TdcManager`: the frames of `TdcManager` as the input of
   `TdcFpga`, whose `BoardSends` they implement while `InOrder` is unbroken.
2. `LDaq` composed with `DifHost` for its hosts: the commands of the run control
   only reach `Targets = {0}`, the assumption of `ServerNeverCrashes` and
   `ImplementsContract`. With it, `CardAmongReaders` would speak of cards.
3. Redelivery of DIM values in the sources of `ShmProxy`; the framing of a DIF
   readout (`DIFReadout`, `FtdiDIFDriver`); commands to `RpcDIFServer` that overlap.
