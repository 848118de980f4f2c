----------------------------- MODULE FullDaq -----------------------------
(* The run controls FullDaq.cc (web clients, with TDC servers) and WebDaq.cc *)
(* (DIM clients, without), which differ from LDaq in what they let an       *)
(* operator do: DISCOVER again, DESTROY before CONFIGURE, and FORCESTATE,   *)
(* which sets the run control's state to any of its states whatever the     *)
(* servers are in.  Servers crash and come back, and so does the run        *)
(* control, with nothing but its tables.                                    *)
EXTENDS ServerTables, Naturals, Sequences, FiniteSets

CONSTANTS
    DifServers, TdcServers,
    Db, Ccc, Mdcc, Builder,
    MaxStarts, MaxFaults, MaxForces, MaxDiscovers,  \* bounds of the model,
    MaxInAll                                        \* and on their sum

Others == {Db, Ccc, Mdcc, Builder}
Servers == DifServers \cup TdcServers \cup Others

ASSUME ServersAssumption ==
    /\ DifServers \cap TdcServers = {}
    /\ (DifServers \cup TdcServers) \cap Others = {}
    /\ Db \notin {Ccc, Mdcc, Builder}
    /\ Ccc \notin {Mdcc, Builder}
    /\ Mdcc # Builder
ASSUME BoundsAssumption ==
    /\ MaxStarts \in Nat /\ MaxFaults \in Nat
    /\ MaxForces \in Nat /\ MaxDiscovers \in Nat /\ MaxInAll \in Nat

VARIABLES
    kind,       \* which of the two run controls this is
    daq,        \* state of its own state machine
    cmd,        \* its command in progress: the stage and the clients left in it
    clients,    \* its working clients, <<server, n>>
    state,      \* the state of each server's state machine, DOWN when it is dead
    run,        \* _run
    dbRun,      \* last run number the database gave
    builderRun, \* the run number of the builder's last START
    spent,      \* the TDC servers that were destroyed since they came up
    starts, faults, forces, discovers,   \* counters for the bounds
    started,    \* a START since the last STOP that reached the servers
    lost,       \* the run control came back and has not yet discovered
    clean       \* last command of a cycle from DISCOVER without a fault

numbers == <<run, dbRun, builderRun>>
bounds == <<starts, faults, forces, discovers>>
history == <<started, lost, clean>>
vars == <<kind, daq, cmd, clients, state, numbers, spent, bounds, history>>

-----------------------------------------------------------------------------
Table(s) ==
    CASE s \in DifServers -> DifTable
      [] s \in TdcServers -> TdcTable
      [] s = Ccc -> CccTable
      [] s = Mdcc -> MdccTable
      [] s = Builder -> BuilderTable
      [] s = Db -> DbTable

(* The table of the run control; DISCOVER is an action of its own. *)
DaqTable ==
    { <<"PREPARE", "DISCOVERED", "PREPARED">>,
      <<"PREPARE", "PREPARED", "PREPARED">>,
      <<"INITIALISE", "PREPARED", "INITIALISED">>,
      <<"CONFIGURE", "INITIALISED", "CONFIGURED">>,
      <<"CONFIGURE", "CONFIGURED", "CONFIGURED">>,
      <<"START", "CONFIGURED", "RUNNING">>,
      <<"STOP", "RUNNING", "CONFIGURED">>,
      <<"DESTROY", "CONFIGURED", "PREPARED">>,
      <<"DESTROY", "INITIALISED", "PREPARED">> }

DaqStates == {"CREATED", "DISCOVERED", "PREPARED", "INITIALISED", "CONFIGURED",
              "RUNNING"}

(* The posts that move a server, stage by stage, each stage done before the *)
(* next.  WebDaq has no TDC client: its TDC stages are empty.               *)
PreparePlan ==
    << Stage({Db}, "DOWNLOAD"), Stage({Ccc}, "OPEN"), Stage({Ccc}, "INITIALISE"),
       Stage({Mdcc}, "OPEN"), Stage({Builder}, "INITIALISE") >>

InitialisePlan ==
    << Stage({Ccc}, "CONFIGURE"), Stage({Ccc}, "STOP"), Stage(DifServers, "SCAN"),
       Stage(DifServers, "INITIALISE"), Stage(TdcServers, "INITIALISE") >>

ConfigurePlan ==
    << Stage(DifServers, "REGISTERDB"), Stage(DifServers, "CONFIGURE"),
       Stage(TdcServers, "CONFIGURE"), Stage({Builder}, "CONFIGURE") >>

(* Slip: the TDC servers start after the clock card. *)
TdcLast ==
    << Stage({Db}, "NEWRUN"), Stage(DifServers, "START"), Stage({Builder}, "START"),
       Stage({Ccc}, "START"), Stage(TdcServers, "START") >>
StartPlan ==
    << Stage({Db}, "NEWRUN"), Stage(DifServers, "START"), Stage({Builder}, "START"),
       Stage(TdcServers, "START"), Stage({Ccc}, "START") >>

(* Slip: the TDC servers are left running. *)
TdcLeft ==
    << Stage({Mdcc}, "PAUSE"), Stage({Ccc}, "STOP"), Stage(DifServers, "STOP"),
       Stage({Builder}, "STOP") >>
StopPlan ==
    << Stage({Mdcc}, "PAUSE"), Stage({Ccc}, "STOP"), Stage(DifServers, "STOP"),
       Stage(TdcServers, "STOP"), Stage({Builder}, "STOP") >>

DestroyPlan == << Stage(DifServers, "DESTROY"), Stage(TdcServers, "DESTROY") >>

Plan ==
    [PREPARE |-> PreparePlan, INITIALISE |-> InitialisePlan,
     CONFIGURE |-> ConfigurePlan, START |-> StartPlan, STOP |-> StopPlan,
     DESTROY |-> DestroyPlan]

Asked(servers) == {c \in clients : c[1] \in servers}

Idle == [op |-> "none", stage |-> 1, todo |-> {}]

(* A fresh server waits for the CREATE of FullDaq's DISCOVER; the servers of *)
(* WebDaq have no such step.                                                *)
Fresh == IF kind = "FullDaq" THEN "VOID" ELSE "CREATED"

Up(s) == state[s] # "DOWN"
Running(s) == state[s] = "RUNNING"
Acquiring == DifServers \cup TdcServers \cup {Ccc, Builder}

MoreAllowed == starts + faults + forces + discovers < MaxInAll

Init ==
    /\ kind \in {"FullDaq", "WebDaq"}
    /\ daq = "CREATED" /\ cmd = Idle /\ clients = {}
    /\ state = [s \in Servers |-> Fresh]
    /\ run \in {0, 1} /\ dbRun = 0 /\ builderRun = 0
    /\ spent = {}
    /\ starts = 0 /\ faults = 0 /\ forces = 0 /\ discovers = 0
    /\ started = FALSE /\ lost = FALSE /\ clean = "none"

-----------------------------------------------------------------------------
(* DISCOVER: the clients of the DIF servers are dropped, then those of every *)
(* server are made anew, one by one.  Those of the TDC servers are never     *)
(* removed: after a second DISCOVER a TDC server gets every post twice.      *)

CommandDiscover ==
    /\ cmd = Idle /\ daq \in {"CREATED", "DISCOVERED"}
    /\ discovers < MaxDiscovers /\ MoreAllowed
    /\ discovers' = discovers + 1
    /\ cmd' = [op |-> "DISCOVER", stage |-> 1,
               todo |-> {<<s, IF s \in TdcServers THEN discovers ELSE 0>> :
                         s \in IF kind = "FullDaq" THEN Servers
                               ELSE Servers \ TdcServers}]
    /\ clients' = {c \in clients : c[1] \notin DifServers}
    /\ clean' = IF \A s \in Servers : Up(s) /\ (s \in Acquiring => ~Running(s))
                THEN "begun" ELSE "none"
    /\ UNCHANGED <<kind, daq, state, numbers, spent, starts, faults, forces,
                   started, lost>>

(* A server that does not answer gets a client without an address (FullDaq) *)
(* or none (WebDaq).                                                        *)
Find(c) ==
    /\ cmd.op = "DISCOVER" /\ c \in cmd.todo
    /\ cmd' = [cmd EXCEPT !.todo = @ \ {c}]
    /\ clients' = {d \in clients : d[1] # c[1] \/ d[1] \in TdcServers}
                  \cup (IF Up(c[1]) THEN {c} ELSE {})
    /\ state' = [state EXCEPT ![c[1]] = IF @ = "VOID" THEN "CREATED" ELSE @]
    /\ UNCHANGED <<kind, daq, numbers, spent, bounds, history>>

DiscoverDone ==
    /\ cmd.op = "DISCOVER" /\ cmd.todo = {}
    /\ cmd' = Idle
    /\ daq' = "DISCOVERED"
    /\ lost' = FALSE
    /\ clean' = IF clean = "begun" THEN "DISCOVER" ELSE "none"
    /\ UNCHANGED <<kind, clients, state, numbers, spent, bounds, started>>

-----------------------------------------------------------------------------
(* The other commands of the operator. *)

(* FullDaq has no client of a server that it has not looked for, but one     *)
(* without an address of a server that did not answer: what it posts there   *)
(* has no answer, and a NEWRUN without an answer gives run 0.                *)
Nameless(s) == kind = "FullDaq" /\ Asked({s}) = {}

Command(op) ==
    /\ cmd = Idle
    /\ \E x \in DaqTable : x[1] = op /\ x[2] = daq
    /\ op = "START" => starts < MaxStarts /\ MoreAllowed
    /\ starts' = IF op = "START" THEN starts + 1 ELSE starts
    /\ started' = (started \/ op = "START")
    /\ cmd' = [op |-> op, stage |-> 1, todo |-> Asked(Plan[op][1].to)]
    /\ \/ run' = run
       \/ op = "START" /\ Nameless(Db) /\ run' = 0
    /\ UNCHANGED <<kind, daq, clients, state, dbRun, builderRun, spent,
                   faults, forces, discovers, lost, clean>>

(* The web command, taken between two transitions; without a state it sets  *)
(* the one that is.                                                         *)
ForceState(to) ==
    /\ cmd = Idle
    /\ daq' = to
    /\ \/ to = daq /\ UNCHANGED <<forces, clean>>
       \/ /\ to # daq
          /\ forces < MaxForces /\ MoreAllowed
          /\ forces' = forces + 1
          /\ clean' = "none"
    /\ UNCHANGED <<kind, cmd, clients, state, numbers, spent,
                   starts, faults, discovers, started, lost>>

(* pauseTrigger and resumeTrigger, on the web thread *)
Trigger(post) ==
    /\ \E c \in clients : c[1] = Mdcc
    /\ \E x \in MdccTable :
         /\ x[1] = post /\ x[2] = state[Mdcc]
         /\ state' = [state EXCEPT ![Mdcc] = x[3]]
    /\ UNCHANGED <<kind, daq, cmd, clients, numbers, spent, bounds, history>>

-----------------------------------------------------------------------------
(* One post. *)

Now == Plan[cmd.op][cmd.stage]

(* DISCOVER posts nothing: the run controls' other commands do. *)
Posting == cmd.op \in DOMAIN Plan

Accepts(s, post) == \E x \in Table(s) : x[1] = post /\ x[2] = state[s]

After(s, post) ==
    IF Accepts(s, post)
    THEN (CHOOSE x \in Table(s) : x[1] = post /\ x[2] = state[s])[3]
    ELSE state[s]

Answered(c) ==
    /\ Posting
    /\ c \in cmd.todo
    /\ cmd' = [cmd EXCEPT !.todo = @ \ {c}]
    /\ state' = [state EXCEPT ![c[1]] = After(c[1], Now.post)]
    /\ UNCHANGED <<kind, daq, clients, bounds, history>>

PostDif(c) ==
    /\ c[1] \in DifServers
    /\ Answered(c)
    /\ UNCHANGED <<numbers, spent>>

(* DESTROY leaves its pointers behind: the process may die of it from then   *)
(* on (see TdcManager).                                                     *)
PostTdc(c) ==
    /\ c[1] \in TdcServers
    /\ Answered(c)
    /\ spent' = IF Now.post = "DESTROY" /\ Accepts(c[1], "DESTROY")
                THEN spent \cup {c[1]} ELSE spent
    /\ UNCHANGED numbers

(* A NEWRUN that is refused, or fails, has no "run", which reads as 0.       *)
PostDb(c) ==
    /\ c[1] = Db
    /\ Answered(c)
    /\ \/ Now.post # "NEWRUN" /\ UNCHANGED <<dbRun, run>>
       \/ Now.post = "NEWRUN" /\ run' = 0 /\ UNCHANGED dbRun
       \/ /\ Now.post = "NEWRUN" /\ Accepts(Db, "NEWRUN")
          /\ dbRun' = dbRun + 1
          /\ run' = dbRun'
    /\ UNCHANGED <<builderRun, spent>>

PostBuilder(c) ==
    /\ c[1] = Builder
    /\ Answered(c)
    /\ builderRun' = IF Now.post = "START" /\ Accepts(Builder, "START")
                     THEN run ELSE builderRun
    /\ UNCHANGED <<dbRun, run, spent>>

PostCard(c) ==
    /\ c[1] \in {Ccc, Mdcc}
    /\ Answered(c)
    /\ UNCHANGED <<numbers, spent>>

NextStage ==
    /\ Posting /\ cmd.todo = {}
    /\ cmd.stage < Len(Plan[cmd.op])
    /\ cmd' = [cmd EXCEPT !.stage = @ + 1,
                          !.todo = Asked(Plan[cmd.op][cmd.stage + 1].to)]
    /\ UNCHANGED <<kind, daq, clients, state, numbers, spent, bounds, history>>

(* The transition completes whatever was refused. *)
Done ==
    /\ Posting /\ cmd.todo = {}
    /\ cmd.stage = Len(Plan[cmd.op])
    /\ \E x \in DaqTable : x[1] = cmd.op /\ x[2] = daq /\ daq' = x[3]
    /\ cmd' = Idle
    /\ started' = IF cmd.op = "STOP" THEN lost /\ started ELSE started
    /\ clean' = CASE cmd.op = "PREPARE" /\ clean \in {"DISCOVER", "PREPARE"} -> "PREPARE"
                  [] cmd.op = "INITIALISE" /\ clean = "PREPARE" -> "INITIALISE"
                  [] cmd.op = "CONFIGURE" /\ clean \in {"INITIALISE", "CONFIGURE"}
                       -> "CONFIGURE"
                  [] cmd.op \in {"START", "STOP"} -> clean
                  [] cmd.op = "DESTROY" /\ clean \in {"INITIALISE", "CONFIGURE"}
                       -> "PREPARE"
                  [] OTHER -> "none"
    /\ UNCHANGED <<kind, clients, state, numbers, spent, bounds, lost>>

-----------------------------------------------------------------------------
(* Processes that die and are started again. *)

Crash(s) ==
    /\ Up(s)
    /\ faults < MaxFaults /\ MoreAllowed
    /\ faults' = faults + 1
    /\ state' = [state EXCEPT ![s] = "DOWN"]
    /\ clean' = "none"
    /\ UNCHANGED <<kind, daq, cmd, clients, numbers, spent, starts, forces,
                   discovers, started, lost>>

(* A TDC server that was destroyed dies of it, if it does. *)
DiesSpent(s) ==
    /\ s \in spent /\ Up(s)
    /\ state' = [state EXCEPT ![s] = "DOWN"]
    /\ UNCHANGED <<kind, daq, cmd, clients, numbers, spent, bounds, history>>

Restart(s) ==
    /\ ~Up(s)
    /\ state' = [state EXCEPT ![s] = Fresh]
    /\ spent' = spent \ {s}
    /\ clean' = "none"
    /\ UNCHANGED <<kind, daq, cmd, clients, numbers, bounds, started, lost>>

(* The run control dies, in the middle of a command or not, and comes back.  *)
RunControlRestarts ==
    /\ faults < MaxFaults /\ MoreAllowed
    /\ faults' = faults + 1
    /\ daq' = "CREATED" /\ cmd' = Idle /\ clients' = {}
    /\ run' \in {0, 1}
    /\ lost' = TRUE
    /\ clean' = "none"
    /\ UNCHANGED <<kind, state, dbRun, builderRun, spent, starts, forces,
                   discovers, started>>

Next ==
    \/ CommandDiscover \/ DiscoverDone
    \/ \E c \in cmd.todo :
         Find(c) \/ PostDif(c) \/ PostTdc(c) \/ PostDb(c) \/ PostBuilder(c) \/ PostCard(c)
    \/ \E op \in DOMAIN Plan : Command(op)
    \/ \E to \in DaqStates : ForceState(to)
    \/ \E post \in {"PAUSE", "RESUME"} : Trigger(post)
    \/ NextStage \/ Done
    \/ \E s \in Servers : Crash(s) \/ DiesSpent(s) \/ Restart(s)
    \/ RunControlRestarts

Spec == Init /\ [][Next]_vars

-----------------------------------------------------------------------------
ServerStates == DaqStates \cup {"VOID", "DOWN", "SCANNED", "DBREGISTERED", "STOPPED",
                                "OPENED", "PAUSED", "DOWNLOAD"}

(* Every variable has its type. *)
TypeOK ==
    /\ kind \in {"FullDaq", "WebDaq"}
    /\ daq \in DaqStates
    /\ clients \subseteq Servers \X Nat
    /\ \/ cmd = Idle
       \/ /\ cmd.op = "DISCOVER"
          /\ cmd = [op |-> "DISCOVER", stage |-> 1, todo |-> cmd.todo]
          /\ cmd.todo \subseteq Servers \X Nat
       \/ /\ cmd.op \in DOMAIN Plan
          /\ cmd.stage \in 1 .. Len(Plan[cmd.op])
          /\ cmd = [op |-> cmd.op, stage |-> cmd.stage, todo |-> cmd.todo]
          /\ cmd.todo \subseteq {c \in clients : c[1] \in Now.to}
    /\ state \in [Servers -> ServerStates]
    /\ run \in Nat /\ dbRun \in Nat /\ builderRun \in Nat
    /\ spent \subseteq TdcServers
    /\ starts \in Nat /\ faults \in Nat /\ forces \in Nat /\ discovers \in Nat
    /\ started \in BOOLEAN /\ lost \in BOOLEAN
    /\ clean \in {"none", "begun", "DISCOVER", "PREPARE", "INITIALISE", "CONFIGURE"}

(* Unless a START has been given since the last STOP that a run control with *)
(* its clients completed, nothing acquires: no FORCESTATE, second DISCOVER,  *)
(* crash or restart leaves a server running that STOP does not reach.        *)
QuietUnlessStarted == ~started => \A s \in Acquiring : ~Running(s)

Readers == DifServers \cup {Builder}
           \cup IF kind = "FullDaq" THEN TdcServers \ spent ELSE {}

(* After a cycle DISCOVER, PREPARE, INITIALISE, CONFIGURE without a fault,   *)
(* whatever states the servers were in before it, provided none was running, *)
(* the clock card runs only while every reader does, and at rest in RUNNING   *)
(* all of them do, the builder with the run number that the run control      *)
(* reports.  A TDC server that was destroyed is exempt: it may be dead.      *)
RunsTogether ==
    clean = "CONFIGURE" =>
        /\ Running(Ccc) => \A s \in Readers : Running(s)
        /\ cmd = Idle /\ daq = "RUNNING" => Running(Ccc) /\ builderRun = run

(* What a run control promises (Acquisition): members are the servers that   *)
(* take part in its runs.                                                   *)
RunPhase ==
    CASE cmd.op = "START" -> "starting"
      [] cmd.op = "STOP" -> "stopping"
      [] OTHER -> "rest"

Promise == INSTANCE Acquisition WITH
    Servers <- Acquiring, Card <- Ccc,
    phase <- RunPhase, due <- started, members <- Readers \cup {Ccc},
    running <- {s \in Acquiring : Running(s)}, orderly <- clean = "CONFIGURE"

(* FullDaq and WebDaq implement it: FORCESTATE, a second DISCOVER and their  *)
(* own crashes are faults it allows for, but even then a server acquires     *)
(* only from a START on and until a STOP that reached the servers.          *)
KeepsPromise == Promise!Spec
=============================================================================
