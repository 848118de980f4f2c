------------------------------ MODULE LDaq ------------------------------
(* The run control LDaq.cc and the state machines of the servers it        *)
(* commands: the DIF servers (LDIFServer), the clock card (LCccServer), the *)
(* trigger card (LMdccServer), the database (LDbServer) and the event       *)
(* builder (LBuilder).  A command of the run control is a sequence of posts *)
(* to its clients; a server that has no transition for a post refuses it,   *)
(* and nobody looks at the answer.                                         *)
EXTENDS ServerTables, Naturals, Sequences, FiniteSets

CONSTANTS
    DifServers,   \* the hosts of DIF cards
    Db, Ccc, Mdcc, Builder,
    MaxStarts,    \* bound of the model: runs
    MaxFaults     \* bound of the model: servers that crash

Others == {Db, Ccc, Mdcc, Builder}
Servers == DifServers \cup Others

ASSUME ServersAssumption ==
    /\ DifServers \cap Others = {}
    /\ Db \notin {Ccc, Mdcc, Builder}
    /\ Ccc \notin {Mdcc, Builder}
    /\ Mdcc # Builder
ASSUME BoundsAssumption == MaxStarts \in Nat /\ MaxFaults \in Nat

VARIABLES
    ldaq,      \* state of the run control's own state machine
    cmd,       \* its command in progress: the stage and who is left in it
    clients,   \* the servers DISCOVER has found
    state,     \* the state of each server's state machine
    up,        \* the servers that run
    found,     \* the DIF servers whose last SCAN found cards
    listed,    \* the DIF servers with cards in the last difstatus
    sources,   \* the DIF servers whose cards the builder waits for
    dbRun,     \* last run number the database gave
    run,       \* _run
    runs,      \* run numbers the builder was started with, in order
    starts, faults,   \* counters for the bounds
    clean      \* last command of a cycle from PREPARE without a fault

data == <<found, listed, sources, dbRun, run, runs>>
bounds == <<starts, faults>>
vars == <<ldaq, cmd, clients, state, up, data, bounds, clean>>

-----------------------------------------------------------------------------
Table(s) ==
    CASE s \in DifServers -> DifTable
      [] s = Ccc -> CccTable
      [] s = Mdcc -> MdccTable
      [] s = Builder -> BuilderTable
      [] s = Db -> DbTable

(* The table of the run control; DISCOVER is an action of its own.          *)
(* Slip: DESTROY is open before the cards are configured.                   *)
DestroysEarly == { <<"DESTROY", "INITIALISED", "PREPARED">>,
                   <<"DESTROY", "CONFIGURED", "PREPARED">> }
Destroys == {<<"DESTROY", "CONFIGURED", "PREPARED">>}

LDaqTable == Destroys \cup
    { <<"PREPARE", "DISCOVERED", "PREPARED">>,
      <<"PREPARE", "PREPARED", "PREPARED">>,
      <<"INITIALISE", "PREPARED", "INITIALISED">>,
      <<"CONFIGURE", "INITIALISED", "CONFIGURED">>,
      <<"CONFIGURE", "CONFIGURED", "CONFIGURED">>,
      <<"START", "CONFIGURED", "RUNNING">>,
      <<"STOP", "RUNNING", "CONFIGURED">> }

(* What each command posts, stage by stage.  The servers of a stage get it  *)
(* from threads of their own, joined before the next stage; of STATUS and   *)
(* DESTROY, posted one after the other, any order is allowed too.           *)
PreparePlan ==
    << Stage({Db}, "DOWNLOAD"), Stage({Ccc}, "OPEN"), Stage({Ccc}, "INITIALISE"),
       Stage({Mdcc}, "OPEN"), Stage({Builder}, "INITIALISE") >>

InitialisePlan ==
    << Stage({Ccc}, "CONFIGURE"), Stage({Ccc}, "STOP"), Stage(DifServers, "SCAN"),
       Stage(DifServers, "INITIALISE"), Stage(DifServers, "STATUS") >>

ConfigurePlan ==
    << Stage(DifServers, "REGISTERDB"), Stage(DifServers, "CONFIGURE"),
       Stage(DifServers, "STATUS"), Stage({Builder}, "CONFIGURE") >>

(* Slip: the clock card opens before anybody reads. *)
CccFirst ==
    << Stage({Db}, "NEWRUN"), Stage({Ccc}, "START"), Stage(DifServers, "START"),
       Stage({Builder}, "START"), Stage(DifServers, "STATUS") >>
StartPlan ==
    << Stage({Db}, "NEWRUN"), Stage(DifServers, "START"), Stage({Builder}, "START"),
       Stage({Ccc}, "START"), Stage(DifServers, "STATUS") >>

(* Slip: the builder is left running. *)
BuilderLeft ==
    << Stage({Mdcc}, "PAUSE"), Stage({Ccc}, "STOP"), Stage(DifServers, "STOP"),
       Stage(DifServers, "STATUS") >>
StopPlan ==
    << Stage({Mdcc}, "PAUSE"), Stage({Ccc}, "STOP"), Stage(DifServers, "STOP"),
       Stage({Builder}, "STOP"), Stage(DifServers, "STATUS") >>

DestroyPlan == << Stage(DifServers, "DESTROY") >>

Plan ==
    [PREPARE |-> PreparePlan, INITIALISE |-> InitialisePlan,
     CONFIGURE |-> ConfigurePlan, START |-> StartPlan, STOP |-> StopPlan,
     DESTROY |-> DestroyPlan]

(* A client that DISCOVER did not find is NULL and gets no post.            *)
Asked(servers) == servers \cap clients

Idle == [op |-> "none", stage |-> 1, todo |-> {}]

Init ==
    /\ ldaq = "CREATED" /\ cmd = Idle /\ clients = {}
    /\ state = [s \in Servers |-> "CREATED"]
    /\ up = Servers
    /\ found = {} /\ listed = {} /\ sources = {}
    /\ dbRun = 0 /\ run \in {0, 1} /\ runs = <<>>
    /\ starts = 0 /\ faults = 0
    /\ clean = "none"

-----------------------------------------------------------------------------
(* The operator. *)

Discover ==
    /\ cmd = Idle /\ ldaq = "CREATED"
    /\ clients' = up
    /\ ldaq' = "DISCOVERED"
    /\ UNCHANGED <<cmd, state, up, data, bounds, clean>>

Command(op) ==
    /\ cmd = Idle
    /\ \E x \in LDaqTable : x[1] = op /\ x[2] = ldaq
    /\ op = "START" => starts < MaxStarts
    /\ starts' = IF op = "START" THEN starts + 1 ELSE starts
    /\ cmd' = [op |-> op, stage |-> 1, todo |-> Asked(Plan[op][1].to)]
    /\ clean' = IF op = "PREPARE"
                THEN IF clients = Servers /\ up = Servers THEN "begun" ELSE "none"
                ELSE clean
    /\ UNCHANGED <<ldaq, clients, state, up, data, faults>>

(* resumeTrigger, pauseTrigger *)
Trigger(post) ==
    /\ cmd = Idle
    /\ Mdcc \in clients \cap up
    /\ \E x \in MdccTable :
         /\ x[1] = post /\ x[2] = state[Mdcc]
         /\ state' = [state EXCEPT ![Mdcc] = x[3]]
    /\ UNCHANGED <<ldaq, cmd, clients, up, data, bounds, clean>>

-----------------------------------------------------------------------------
(* One post. *)

Now == Plan[cmd.op][cmd.stage]

Accepts(s, post) == s \in up /\ \E x \in Table(s) : x[1] = post /\ x[2] = state[s]

After(s, post) ==
    IF Accepts(s, post)
    THEN (CHOOSE x \in Table(s) : x[1] = post /\ x[2] = state[s])[3]
    ELSE state[s]

Answered(s) ==
    /\ s \in cmd.todo
    /\ cmd' = [cmd EXCEPT !.todo = @ \ {s}]
    /\ state' = [state EXCEPT ![s] = After(s, Now.post)]
    /\ UNCHANGED <<ldaq, clients, up, bounds, clean>>

(* SCAN finds cards or none; STATUS is answered by a server that has a list. *)
PostDif(s) ==
    /\ s \in DifServers
    /\ Answered(s)
    /\ \/ /\ Now.post = "SCAN" /\ Accepts(s, "SCAN")
          /\ \E f \in {{}, {s}} : found' = (found \ {s}) \cup f
          /\ UNCHANGED listed
       \/ /\ Now.post = "STATUS" /\ s \in up \cap found /\ state[s] # "CREATED"
          /\ listed' = listed \cup {s}
          /\ UNCHANGED found
       \/ /\ Now.post = "SCAN" => ~Accepts(s, "SCAN")
          /\ Now.post = "STATUS" => ~(s \in up \cap found /\ state[s] # "CREATED")
          /\ UNCHANGED <<found, listed>>
    /\ UNCHANGED <<sources, dbRun, run, runs>>

(* getRunFromDb returns 0 when the database fails; reply() of a post that   *)
(* was refused holds no "run", which reads as 0.                            *)
PostDb ==
    /\ Answered(Db)
    /\ \/ Now.post # "NEWRUN" /\ UNCHANGED <<dbRun, run>>
       \/ Now.post = "NEWRUN" /\ run' = 0 /\ UNCHANGED dbRun
       \/ /\ Now.post = "NEWRUN" /\ Accepts(Db, "NEWRUN")
          /\ dbRun' = dbRun + 1
          /\ run' = dbRun'
    /\ UNCHANGED <<found, listed, sources, runs>>

PostBuilder ==
    /\ Answered(Builder)
    /\ sources' = IF Now.post = "CONFIGURE" /\ Accepts(Builder, "CONFIGURE")
                  THEN listed ELSE sources
    /\ runs' = IF Now.post = "START" /\ Accepts(Builder, "START")
               THEN Append(runs, run) ELSE runs
    /\ UNCHANGED <<found, listed, dbRun, run>>

PostCard ==
    /\ Answered(Ccc) \/ Answered(Mdcc)
    /\ UNCHANGED data

(* Every thread of the stage is joined: the next one begins, with a list of *)
(* devices built anew before each STATUS.                                   *)
NextStage ==
    /\ cmd.op # "none" /\ cmd.todo = {}
    /\ cmd.stage < Len(Plan[cmd.op])
    /\ LET next == Plan[cmd.op][cmd.stage + 1] IN
         /\ cmd' = [cmd EXCEPT !.stage = @ + 1, !.todo = Asked(next.to)]
         /\ listed' = IF next.post = "STATUS" THEN {} ELSE listed
    /\ UNCHANGED <<ldaq, clients, state, up, found, sources, dbRun, run, runs,
                   bounds, clean>>

(* The last answer is in: the transition completes whatever was refused.    *)
Done ==
    /\ cmd.op # "none" /\ cmd.todo = {}
    /\ cmd.stage = Len(Plan[cmd.op])
    /\ \E x \in LDaqTable : x[1] = cmd.op /\ x[2] = ldaq /\ ldaq' = x[3]
    /\ cmd' = Idle
    /\ clean' = CASE cmd.op = "PREPARE" /\ clean = "begun" -> "PREPARE"
                  [] cmd.op = "INITIALISE" /\ clean = "PREPARE" -> "INITIALISE"
                  [] cmd.op = "CONFIGURE" /\ clean \in {"INITIALISE", "CONFIGURE"}
                       -> "CONFIGURE"
                  [] cmd.op \in {"START", "STOP"} -> clean
                  [] cmd.op = "DESTROY" /\ clean = "CONFIGURE" -> "PREPARE"
                  [] OTHER -> "none"
    /\ UNCHANGED <<clients, state, up, data, bounds>>

-----------------------------------------------------------------------------
(* A server process dies and is started again, at any time. *)

Crash(s) ==
    /\ s \in up
    /\ faults < MaxFaults
    /\ up' = up \ {s}
    /\ faults' = faults + 1
    /\ clean' = "none"
    /\ UNCHANGED <<ldaq, cmd, clients, state, data, starts>>

Restart(s) ==
    /\ s \in Servers \ up
    /\ up' = up \cup {s}
    /\ state' = [state EXCEPT ![s] = "CREATED"]
    /\ found' = found \ {s}
    /\ sources' = IF s = Builder THEN {} ELSE sources
    /\ clean' = "none"
    /\ UNCHANGED <<ldaq, cmd, clients, listed, dbRun, run, runs, bounds>>

Next ==
    \/ Discover
    \/ \E op \in DOMAIN Plan : Command(op)
    \/ \E post \in {"PAUSE", "RESUME"} : Trigger(post)
    \/ \E s \in DifServers : PostDif(s)
    \/ PostDb \/ PostBuilder \/ PostCard
    \/ NextStage \/ Done
    \/ \E s \in Servers : Crash(s) \/ Restart(s)

Spec == Init /\ [][Next]_vars

-----------------------------------------------------------------------------
LDaqStates == {"CREATED", "DISCOVERED", "PREPARED", "INITIALISED", "CONFIGURED",
               "RUNNING"}
ServerStates == LDaqStates \cup {"SCANNED", "DBREGISTERED", "STOPPED", "OPENED",
                                 "PAUSED", "DOWNLOAD"}

(* Every variable has its type. *)
TypeOK ==
    /\ ldaq \in LDaqStates
    /\ cmd = Idle \/ /\ cmd.op \in DOMAIN Plan
                     /\ cmd.stage \in 1 .. Len(Plan[cmd.op])
                     /\ cmd = [op |-> cmd.op, stage |-> cmd.stage,
                               todo |-> cmd.todo]
                     /\ cmd.todo \subseteq clients \cap Now.to
    /\ clients \subseteq Servers /\ up \subseteq Servers
    /\ state \in [Servers -> ServerStates]
    /\ found \subseteq DifServers /\ listed \subseteq DifServers
    /\ sources \subseteq DifServers
    /\ dbRun \in Nat /\ run \in Nat /\ runs \in Seq(Nat)
    /\ starts \in Nat /\ faults \in Nat
    /\ clean \in {"none", "begun", "PREPARE", "INITIALISE", "CONFIGURE"}

Running(s) == s \in up /\ state[s] = "RUNNING"

(* When the run control is at rest and not RUNNING, no DIF server, builder   *)
(* or clock card is left running, whatever crashed and came back: a refused   *)
(* STOP is always that of a server which is not running (LDaq::stop).        *)
QuietWhenStopped ==
    cmd = Idle /\ ldaq # "RUNNING" =>
        \A s \in (DifServers \cup {Ccc, Builder}) : ~Running(s)

(* In PREPARED every DIF server is back in CREATED, the only state from     *)
(* which it accepts the SCAN of the next INITIALISE (LDaq::destroy).        *)
ReadyToScan ==
    cmd = Idle /\ ldaq \in {"DISCOVERED", "PREPARED"} =>
        \A s \in DifServers \cap up : state[s] = "CREATED"

(* After a cycle PREPARE, INITIALISE, CONFIGURE without a fault, the clock   *)
(* card lets acquisitions start only while every DIF server and the builder *)
(* are running: last in START, first in STOP.                               *)
TriggersIntoReaders ==
    clean = "CONFIGURE" /\ Running(Ccc) =>
        \A s \in DifServers \cup {Builder} : Running(s)

(* Such a cycle followed by START has every server running, the builder with *)
(* the run number that LDaq reports, whatever states faults had left the     *)
(* servers in before the cycle.                                             *)
CycleRecovers ==
    clean = "CONFIGURE" /\ cmd = Idle /\ ldaq = "RUNNING" =>
        /\ \A s \in DifServers \cup {Ccc, Builder} : Running(s)
        /\ runs[Len(runs)] = run

(* What a run control promises (Acquisition): a START or STOP in progress, a *)
(* run that is due, and who acquires are read off the state of LDaq.        *)
RunPhase ==
    CASE cmd.op = "START" -> "starting"
      [] cmd.op = "STOP" -> "stopping"
      [] OTHER -> "rest"
Due == ldaq = "RUNNING" \/ cmd.op = "START"
Acquiring == DifServers \cup {Ccc, Builder}

Promise == INSTANCE Acquisition WITH
    Servers <- Acquiring, Card <- Ccc,
    phase <- RunPhase, due <- Due, members <- Acquiring,
    running <- {s \in Acquiring : Running(s)}, orderly <- clean = "CONFIGURE"

(* LDaq implements it, whatever the servers refuse and however they crash:   *)
(* only a START makes a server acquire, the one completed STOP leaves none,  *)
(* and without a fault the clock card is the last to start and the first to  *)
(* stop (LDaq::start, LDaq::stop).                                          *)
KeepsPromise == Promise!Spec

(* LDaq.cc:326-346: CONFIGURE builds the "complete list of data sources" and *)
(* sends it to "Configure the builder"; the builder then waits for these.   *)
BuilderHasSources ==
    clean = "CONFIGURE" /\ cmd = Idle => sources = listed
=============================================================================
