----------------------------- MODULE LDIFServer -----------------------------
(***************************************************************************)
(* The server of one host of DIF cards (LDIFServer.cc) and its readout     *)
(* threads (LDIF.cc).  Commands run one at a time on the server's thread:  *)
(* a transition of its state machine or the web commands SETTHRESHOLD and  *)
(* SETGAIN.  START gives every card a thread that runs LDIF::readout until *)
(* its flag _readoutStarted is cleared; the threads share the LDIF objects *)
(* with the commands and nothing protects them but the order of the steps. *)
(*                                                                         *)
(* A call through a deleted pointer, or one that is NULL, is undefined     *)
(* behaviour: the model ends there with up = FALSE.                        *)
(***************************************************************************)
EXTENDS Integers, FiniteSets

CONSTANTS Difs,        \* identifiers of the cards, the keys of theDIFMap_
          Threads,     \* bound: readout threads that exist at one time
          Targets,     \* the "difid" a command carries, 0 for all the cards
          WebStates,   \* states of the server in which web commands arrive
          WaitExpires  \* a reader may stay in a call longer than destroy waits

ASSUME DifsAssumption == IsFiniteSet(Difs) /\ Difs \subseteq Nat \ {0}
ASSUME TargetsAssumption == 0 \in Targets /\ Targets \subseteq Difs \cup {0}

VARIABLES fsm,         \* state of the server's state machine
          cmd,         \* the command in progress and what is left of it
          known,       \* theDIFMap_: the cards the last SCAN found
          dif,         \* the LDIF object of each card
          registered,  \* cards with a subscription in theDBDimInfo_
          thread,      \* the readout threads
          late,        \* events published since stop(), -1 before it
          up           \* the process has not crashed

vars == <<fsm, cmd, known, dif, registered, thread, late, up>>

FsmStates == {"CREATED", "SCANNED", "INITIALISED", "DBREGISTERED",
              "CONFIGURED", "RUNNING", "STOPPED"}

Ops == {"SCAN", "INITIALISE", "REGISTERDB", "CONFIGURE", "START", "STOP",
        "DESTROY", "SET"}

Transitions ==
  { <<"SCAN", "CREATED", "SCANNED">>,
    <<"INITIALISE", "SCANNED", "INITIALISED">>,
    <<"REGISTERDB", "INITIALISED", "DBREGISTERED">>,
    <<"REGISTERDB", "DBREGISTERED", "DBREGISTERED">>,
    <<"REGISTERDB", "CONFIGURED", "DBREGISTERED">>,
    <<"CONFIGURE", "DBREGISTERED", "CONFIGURED">>,
    <<"CONFIGURE", "CONFIGURED", "CONFIGURED">>,
    <<"CONFIGURE", "STOPPED", "CONFIGURED">>,
    <<"START", "CONFIGURED", "RUNNING">>,
    <<"START", "STOPPED", "RUNNING">>,
    <<"STOP", "RUNNING", "STOPPED">>,
    <<"DESTROY", "STOPPED", "CREATED">>,
    <<"DESTROY", "CONFIGURED", "CREATED">> }

CardStates ==
  {"CREATED", "INIT_RD_FAILED", "INIT_FAILED", "INITIALISED",
   "DB_REGISTERED", "DIF_CONFIGURE_FAILED", "CHIP_CONFIGURE_FAILED",
   "CONFIGURED", "START_FAILED", "STARTED", "READOUT_FAILED",
   "STOP_FAILED", "STOPPED"}

\* rd: _rd is not NULL; services: the DIM services exist; db: the record of
\* the configuration database has arrived; state: the published text.
LDIF == [rd : BOOLEAN, services : BOOLEAN, db : BOOLEAN, started : BOOLEAN,
         completed : BOOLEAN, running : BOOLEAN, state : CardStates]

\* The constructor of LDIF: _running is left with whatever was in memory.
NewLDIF(garbage) ==
  [rd |-> FALSE, services |-> FALSE, db |-> FALSE, started |-> FALSE,
   completed |-> TRUE, running |-> garbage, state |-> "CREATED"]

Idle == [op |-> "none", to |-> "none", step |-> "none", todo |-> {}]
NoThread == [pc |-> "none", dif |-> 0]

ThreadOf(d) == {t \in Threads : thread[t].pc # "none" /\ thread[t].dif = d}
\* the readers that are inside a call on the card or on its data service
Inside(d) == {t \in ThreadOf(d) : thread[t].pc \in {"read", "publish"}}

Init ==
  /\ fsm = "CREATED"
  /\ cmd = Idle
  /\ known = {}
  /\ dif = [d \in Difs |-> NewLDIF(FALSE)]
  /\ registered = {}
  /\ thread = [t \in Threads |-> NoThread]
  /\ late = [d \in Difs |-> -1]
  /\ up = TRUE

-----------------------------------------------------------------------------
(* Variants of small definitions below, each with a slip the code could    *)
(* have made; the specification does not use them.                         *)

KeepFlag(o) == o
JoinedAtOnce == TRUE
NeedsThreadAlways(d) == TRUE
LeavesWhenStopped(d) == ~dif[d].started \/ ~dif[d].running
StoppedOnSuccess(o, s) == [o EXCEPT !.running = @ /\ s # "STOPPED"]
DroppedNotNull(o) == [o EXCEPT !.services = FALSE]

-----------------------------------------------------------------------------
(* The pieces of the handlers that the variants concern.                   *)

\* destroy: one of the cards has a reader.
AnyReader == \E d \in known : dif[d].started
\* destroy: setReadoutStarted(false)
ClearFlag(o) == [o EXCEPT !.started = FALSE]
\* g_d.join_all(): every thread has returned.
Joined == \A t \in Threads : thread[t] = NoThread
\* startDIFThread: return when the card already has its thread.
NeedsThread(d) == ~dif[d].started
\* readout: the condition on which the loop is left.
Leaves(d) == ~dif[d].started
\* stop: _running is cleared before anything can fail.
Stopped(o, s) == [o EXCEPT !.running = FALSE]
\* LDIF::destroy: the DIFReadout and the services are deleted.
Dropped(o) == [o EXCEPT !.rd = FALSE, !.services = FALSE,
                        !.state = IF o.rd THEN "CREATED" ELSE o.state]

-----------------------------------------------------------------------------
(* The commands.  A handler walks the map in the order of the keys.        *)

Turn(d) == d \in cmd.todo /\ \A e \in cmd.todo : d <= e

\* The first step of the handler of a command.
FirstStep(op, target) ==
  CASE op = "START" -> "thread"
    [] op = "DESTROY" /\ target = 0 -> "flags"
    [] op = "DESTROY" /\ target # 0 -> "flag"
    [] OTHER -> "do"

\* A state machine accepts a command only from the states of its table; a
\* "difid" the map does not have makes the handler return at once.
Accept(op, to, target) ==
  /\ cmd = Idle
  /\ cmd' = [op |-> op, to |-> to, step |-> FirstStep(op, target),
             todo |-> IF target = 0 THEN known ELSE {target} \cap known]
  /\ UNCHANGED <<fsm, known, dif, registered, thread, late, up>>

Command ==
  \E x \in Transitions, target \in Targets :
     /\ x[1] # "SCAN"
     /\ x[1] = "REGISTERDB" => target = 0
     /\ x[2] = fsm
     /\ Accept(x[1], x[3], target)

\* SETTHRESHOLD and SETGAIN: the state machine has no say in them.
WebCommand ==
  \E target \in Targets : fsm \in WebStates /\ Accept("SET", fsm, target)

\* The handler is over; whatever failed, the state machine moves on.
Reply ==
  /\ cmd.op # "none"
  /\ cmd.todo = {}
  /\ cmd.step \notin {"flags", "join"}
  /\ fsm' = cmd.to
  /\ cmd' = Idle
  /\ UNCHANGED <<known, dif, registered, thread, late, up>>

DoneWith(d) == cmd' = [cmd EXCEPT !.todo = @ \ {d}]

\* publishState on a card whose other members become o.
Publish(d, o, s) ==
  /\ dif' = [dif EXCEPT ![d] = [o EXCEPT !.state = s]]
  /\ up' = (up /\ o.services)

\* scan: every LDIF of the map is deleted and the devices on the bus get new
\* ones; what a thread did with a deleted object is undefined.
Scan ==
  /\ cmd = Idle
  /\ fsm = "CREATED"
  /\ fsm' = "SCANNED"
  /\ \E found \in SUBSET Difs, garbage \in [Difs -> BOOLEAN] :
       /\ \A d \in Difs \ found : ~garbage[d]
       /\ known' = found
       /\ dif' = [d \in Difs |-> NewLDIF(garbage[d])]
  /\ late' = [d \in Difs |-> -1]
  /\ up' = \A d \in known : ThreadOf(d) = {}
  /\ UNCHANGED <<cmd, registered, thread>>

\* LDIF::initialise: new services, a new DIFReadout, two checks of it.
Initialise(d) ==
  /\ cmd.op = "INITIALISE" /\ Turn(d)
  /\ \E s \in {"INIT_RD_FAILED", "INIT_FAILED", "INITIALISED"} :
       Publish(d, [dif[d] EXCEPT !.services = TRUE,
                                 !.rd = s # "INIT_RD_FAILED"], s)
  /\ DoneWith(d)
  /\ UNCHANGED <<fsm, known, registered, thread, late>>

\* registerDB: (re)subscribe to the record of the card.
RegisterDB(d) ==
  /\ cmd.op = "REGISTERDB" /\ Turn(d)
  /\ registered' = registered \cup {d}
  /\ Publish(d, dif[d], "DB_REGISTERED")
  /\ DoneWith(d)
  /\ UNCHANGED <<fsm, known, thread, late>>

\* infoHandler: DIM delivers the record of a card, at its own time.
InfoHandler(d) ==
  /\ d \in registered \cap known
  /\ ~dif[d].db
  /\ dif' = [dif EXCEPT ![d].db = TRUE]
  /\ UNCHANGED <<fsm, cmd, known, registered, thread, late, up>>

\* LDIF::configure, from CONFIGURE and from the web commands: first the
\* registers of the card, then its chips, which need the record.
Configure(d) ==
  /\ cmd.op \in {"CONFIGURE", "SET"} /\ Turn(d)
  /\ \E s \in {"DIF_CONFIGURE_FAILED", "CHIP_CONFIGURE_FAILED", "CONFIGURED"} :
       /\ ~dif[d].rd => s = "DIF_CONFIGURE_FAILED"
       /\ s = "CONFIGURED" => dif[d].db
       /\ Publish(d, dif[d], s)
  /\ DoneWith(d)
  /\ UNCHANGED <<fsm, known, registered, thread, late>>

\* startDIFThread.  Bound: no thread is created when Threads are all in use.
StartThread(d) ==
  /\ cmd.op = "START" /\ cmd.step = "thread" /\ Turn(d)
  /\ cmd' = [cmd EXCEPT !.step = "start"]
  /\ \/ ~NeedsThread(d) /\ UNCHANGED <<dif, thread>>
     \/ /\ NeedsThread(d)
        /\ dif' = [dif EXCEPT ![d].started = TRUE]
        /\ \E t \in Threads :
             /\ thread[t] = NoThread
             /\ thread' = [thread EXCEPT ![t] = [pc |-> "begin", dif |-> d]]
  /\ UNCHANGED <<fsm, known, registered, late, up>>

\* LDIF::start
Start(d) ==
  /\ cmd.op = "START" /\ cmd.step = "start" /\ Turn(d)
  /\ \/ Publish(d, dif[d], "START_FAILED") /\ UNCHANGED late
     \/ /\ dif[d].rd
        /\ Publish(d, [dif[d] EXCEPT !.running = TRUE], "STARTED")
        /\ late' = [late EXCEPT ![d] = -1]
  /\ cmd' = [cmd EXCEPT !.step = "thread", !.todo = @ \ {d}]
  /\ UNCHANGED <<fsm, known, registered, thread>>

\* LDIF::stop
Stop(d) ==
  /\ cmd.op = "STOP" /\ Turn(d)
  /\ \E s \in {"STOP_FAILED", "STOPPED"} :
       /\ s = "STOPPED" => dif[d].rd
       /\ Publish(d, Stopped(dif[d], s), s)
  /\ late' = [late EXCEPT ![d] = 0]
  /\ DoneWith(d)
  /\ UNCHANGED <<fsm, known, registered, thread>>

-----------------------------------------------------------------------------
(* DESTROY                                                                 *)

\* destroy of all the cards: when one of them has a reader, clear every flag
\* and wait for the threads.
ClearFlags ==
  /\ cmd.op = "DESTROY" /\ cmd.step = "flags"
  /\ IF AnyReader
     THEN /\ dif' = [d \in Difs |->
                       IF d \in known THEN ClearFlag(dif[d]) ELSE dif[d]]
          /\ cmd' = [cmd EXCEPT !.step = "join"]
     ELSE UNCHANGED dif /\ cmd' = [cmd EXCEPT !.step = "flag"]
  /\ UNCHANGED <<fsm, known, registered, thread, late, up>>

JoinThreads ==
  /\ cmd.op = "DESTROY" /\ cmd.step = "join"
  /\ Joined
  /\ cmd' = [cmd EXCEPT !.step = "flag"]
  /\ UNCHANGED <<fsm, known, dif, registered, thread, late, up>>

\* LDIF::destroy, first part: a card whose flag is still up is given time to
\* complete.
DestroyFlag(d) ==
  /\ cmd.op = "DESTROY" /\ cmd.step = "flag" /\ Turn(d)
  /\ dif' = [dif EXCEPT ![d] = ClearFlag(@)]
  /\ cmd' = [cmd EXCEPT !.step = IF dif[d].started THEN "wait" ELSE "drop"]
  /\ UNCHANGED <<fsm, known, registered, thread, late, up>>

\* The wait ends with _readoutCompleted, or after a hundred tries without it.
DestroyWait(d) ==
  /\ cmd.op = "DESTROY" /\ cmd.step = "wait" /\ Turn(d)
  /\ dif[d].completed \/ WaitExpires
  /\ cmd' = [cmd EXCEPT !.step = "drop"]
  /\ UNCHANGED <<fsm, known, dif, registered, thread, late, up>>

\* LDIF::destroy, second part: the card and then its services are deleted.
DestroyDrop(d) ==
  /\ cmd.op = "DESTROY" /\ cmd.step = "drop" /\ Turn(d)
  /\ dif' = [dif EXCEPT ![d] = Dropped(@)]
  /\ up' = (up /\ (dif[d].rd => dif[d].services))
  /\ cmd' = [cmd EXCEPT !.step = "flag", !.todo = @ \ {d}]
  /\ UNCHANGED <<fsm, known, registered, thread, late>>

-----------------------------------------------------------------------------
(* LDIF::readout, the readout thread                                       *)

At(t, pc) == thread[t].pc = pc
GoTo(t, pc) == thread' = [thread EXCEPT ![t].pc = pc]
Exit(t) == thread' = [thread EXCEPT ![t] = NoThread]

Begin(t) ==
  LET d == thread[t].dif IN
  /\ At(t, "begin")
  /\ IF dif[d].rd
     THEN /\ dif' = [dif EXCEPT ![d].completed = FALSE]
          /\ GoTo(t, "loop")
          /\ UNCHANGED up
     ELSE Publish(d, dif[d], "READOUT_FAILED") /\ GoTo(t, "failed")
  /\ UNCHANGED <<fsm, cmd, known, registered, late>>

Failed(t) ==
  /\ At(t, "failed")
  /\ dif' = [dif EXCEPT ![thread[t].dif].started = FALSE]
  /\ Exit(t)
  /\ UNCHANGED <<fsm, cmd, known, registered, late, up>>

\* The head of the loop.  While _running is FALSE the thread sleeps there.
Loop(t) ==
  LET d == thread[t].dif IN
  /\ At(t, "loop")
  /\ \/ /\ Leaves(d)
        /\ dif' = [dif EXCEPT ![d].completed = TRUE]
        /\ Exit(t)
     \/ /\ ~Leaves(d) /\ dif[d].running
        /\ GoTo(t, "read")
        /\ UNCHANGED dif
  /\ UNCHANGED <<fsm, cmd, known, registered, late, up>>

\* The card gives an event, or nothing, or throws.
Read(t) ==
  /\ At(t, "read")
  /\ \E pc \in {"loop", "publish"} : GoTo(t, pc)
  /\ up' = (up /\ dif[thread[t].dif].rd)
  /\ UNCHANGED <<fsm, cmd, known, dif, registered, late>>

\* Bound: late counts to 2.
PublishEvent(t) ==
  LET d == thread[t].dif IN
  /\ At(t, "publish")
  /\ late' = [late EXCEPT ![d] = IF @ \in {0, 1} THEN @ + 1 ELSE @]
  /\ up' = (up /\ dif[d].services)
  /\ GoTo(t, "loop")
  /\ UNCHANGED <<fsm, cmd, known, dif, registered>>

-----------------------------------------------------------------------------
CommandStep(d) ==
  \/ Initialise(d) \/ RegisterDB(d) \/ Configure(d) \/ StartThread(d)
  \/ Start(d) \/ Stop(d) \/ DestroyFlag(d) \/ DestroyWait(d) \/ DestroyDrop(d)

Handler == Reply \/ ClearFlags \/ JoinThreads \/ \E d \in Difs : CommandStep(d)

Reader(t) ==
  Begin(t) \/ Failed(t) \/ Loop(t) \/ Read(t) \/ PublishEvent(t)

Next ==
  /\ up
  /\ \/ Scan \/ Command \/ WebCommand \/ Handler
     \/ \E d \in Difs : InfoHandler(d)
     \/ \E t \in Threads : Reader(t)

Spec == Init /\ [][Next]_vars

\* The server's thread and every readout thread are scheduled.
Fairness ==
  /\ WF_vars(up /\ Handler)
  /\ \A t \in Threads : WF_vars(up /\ Reader(t))

FairSpec == Spec /\ Fairness

-----------------------------------------------------------------------------
(* Properties                                                              *)

TypeOK ==
  /\ fsm \in FsmStates
  /\ cmd \in {Idle} \cup
       [op : Ops, to : FsmStates, todo : SUBSET Difs,
        step : {"do", "thread", "start", "flags", "join", "flag", "wait", "drop"}]
  /\ known \subseteq Difs
  /\ dif \in [Difs -> LDIF]
  /\ registered \subseteq Difs
  /\ thread \in [Threads -> [pc : {"none", "begin", "failed", "loop", "read",
                                  "publish"},
                             dif : Difs \cup {0}]]
  /\ late \in [Difs -> -1 .. 2]
  /\ up \in BOOLEAN

\* No command and no reader calls through a DIFReadout, a DIM service or an
\* LDIF that was deleted or never made (publishState, readout, scan).
NoCrash == up

\* While a reader is inside DoHardrocV2ReadoutDigitalData or is publishing,
\* the card and its data service exist: DESTROY deletes neither under it.
ReaderSafe ==
  \A d \in Difs : Inside(d) # {} => dif[d].rd /\ dif[d].services

\* A card has one thread at most: two would split its events between them.
\* START may be repeated, and the flag that keeps the second START from
\* creating a thread is also written by the thread itself and by DESTROY.
OneReader == \A d \in Difs : \A s, t \in ThreadOf(d) : s = t

\* A card whose published state is STARTED has a reader, in every run and not
\* only in the first: the thread of the first START serves the later ones.
StartedIsRead ==
  \A d \in known : dif[d].state = "STARTED" =>
     dif[d].started /\ dif[d].running /\ ThreadOf(d) # {}

\* A server that went back to CREATED with a command for all its cards holds
\* none of them, and no thread of an earlier run survives to meet a new one.
DestroyClean ==
  fsm = "CREATED" /\ cmd = Idle =>
     /\ \A d \in known : ~dif[d].rd /\ ~dif[d].services /\ ~dif[d].started
     /\ \A d \in known : ThreadOf(d) = {}

\* After stop() of a card at most the one event its reader was fetching is
\* still published, whether stop() itself succeeds or not.
LateOnce == \A d \in Difs : late[d] <= 1

\* What a run control sees of the cards (DifHost), of which no flag, no thread
\* and no step of a handler are part.
OpenCards == {d \in Difs : dif[d].rd}
ServedCards == {d \in Difs : ThreadOf(d) # {}}
CalledCards == {d \in Difs : Inside(d) # {}}
PolledCards == {d \in Difs : dif[d].running}

Host == INSTANCE DifHost WITH
  Cards <- Difs, state <- fsm, busy <- cmd.op, cards <- OpenCards,
  serving <- ServedCards, calling <- CalledCards, polled <- PolledCards

\* LDIFServer keeps it when it is driven as the run controls do: whatever a
\* START left half done, a reader calls only an open card, within a run, and
\* STOP and DESTROY end what they say they end (LDIFServer::destroy, start).
KeepsContract == Host!Spec

\* DESTROY does not wait for ever on the threads it joins.
DestroyEnds == cmd.op = "DESTROY" ~> cmd = Idle

\* A server left in STOPPED becomes quiet: no reader enters a call again.
StopQuiets ==
  <>[](fsm = "STOPPED" /\ cmd = Idle) => <>[](\A d \in Difs : Inside(d) = {})

\* A card that stays STARTED is polled again and again.
StartedIsPolled ==
  \A d \in Difs :
     <>[](fsm = "RUNNING" /\ dif[d].state = "STARTED") => []<>(Inside(d) # {})

\* What the log says at LDIF.cc:81 and LDIF.cc:88: a card is "started" by
\* start(), and a card whose start failed is not.  A card is read only after
\* its start() succeeded.
ReadAfterStart ==
  \A d \in Difs : Inside(d) # {} =>
     dif[d].state \notin {"CONFIGURED", "START_FAILED"}
=============================================================================
