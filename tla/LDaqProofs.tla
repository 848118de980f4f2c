--------------------------- MODULE LDaqProofs ---------------------------
(* Theorems about LDaq: for any number of hosts, runs and crashes.          *)
EXTENDS LDaq, TLAPS

(* The states of a DIF server that goes along with the run control: at rest *)
(* in state l, and before each stage of a command and after its last one.   *)
Set == {"CONFIGURED", "STOPPED"}

AtRest(l) ==
    IF l = "INITIALISED" THEN {"INITIALISED"}
    ELSE IF l = "CONFIGURED" THEN Set
    ELSE IF l = "RUNNING" THEN {"RUNNING"} ELSE {}

Path ==
    [PREPARE |-> << {}, {}, {}, {}, {}, {} >>,
     INITIALISE |-> << {}, {}, {}, {"SCANNED"}, {"INITIALISED"}, {"INITIALISED"} >>,
     CONFIGURE |-> << Set \cup {"INITIALISED"}, {"DBREGISTERED", "STOPPED"},
                      {"CONFIGURED"}, {"CONFIGURED"}, {"CONFIGURED"} >>,
     START |-> << Set, Set, {"RUNNING"}, {"RUNNING"}, {"RUNNING"}, {"RUNNING"} >>,
     STOP |-> << {"RUNNING"}, {"RUNNING"}, {"RUNNING"}, {"STOPPED"}, {"STOPPED"},
                 {"STOPPED"} >>,
     DESTROY |-> << Set, {} >>]

(* A DIF server that has not answered the stage is before it, any other is  *)
(* past it.                                                                 *)
Along(s) ==
    IF cmd = Idle THEN AtRest(ldaq)
    ELSE IF s \in cmd.todo THEN Path[cmd.op][cmd.stage] ELSE Path[cmd.op][cmd.stage + 1]

(* A server that runs is either along with the run control or fresh.        *)
Lockstep == \A s \in DifServers \cap up : state[s] \in Along(s) \cup {"CREATED"}

(* The same for the clock card and the builder, of which it matters only    *)
(* when they may be running.                                                *)
No == << FALSE, FALSE, FALSE, FALSE, FALSE, FALSE >>
CccPath ==
    [PREPARE |-> No, INITIALISE |-> No, CONFIGURE |-> No, DESTROY |-> No,
     START |-> << FALSE, FALSE, FALSE, FALSE, TRUE, TRUE >>,
     STOP |-> << TRUE, TRUE, FALSE, FALSE, FALSE, FALSE >>]
BuilderPath ==
    [PREPARE |-> No, INITIALISE |-> No, CONFIGURE |-> No, DESTROY |-> No,
     START |-> << FALSE, FALSE, FALSE, TRUE, TRUE, TRUE >>,
     STOP |-> << TRUE, TRUE, TRUE, TRUE, FALSE, FALSE >>]

MayRun(s, path) ==
    IF cmd = Idle THEN ldaq = "RUNNING"
    ELSE IF s \in cmd.todo THEN path[cmd.op][cmd.stage] ELSE path[cmd.op][cmd.stage + 1]

Quiet ==
    /\ Running(Ccc) => MayRun(Ccc, CccPath)
    /\ Running(Builder) => MayRun(Builder, BuilderPath)

(* A command in progress is one that the table of the run control allows.   *)
Allowed == cmd # Idle => \E x \in LDaqTable : x[1] = cmd.op /\ x[2] = ldaq

(* What DISCOVER has not found is never posted to.                          *)
Strangers ==
    /\ ldaq = "CREATED" => clients = {}
    /\ \A s \in Servers \ clients : state[s] = "CREATED"

Ops == {"PREPARE", "INITIALISE", "CONFIGURE", "START", "STOP", "DESTROY"}

TInv == TypeOK /\ Allowed /\ Strangers
IInv == TInv /\ Lockstep /\ Quiet

-----------------------------------------------------------------------------
(* The plans and the tables, spelled out once. *)

LEMMA Commands == DOMAIN Plan = Ops
  BY DEF Plan, Ops

LEMMA Lengths ==
    /\ Len(Plan["PREPARE"]) = 5 /\ Len(Plan["INITIALISE"]) = 5
    /\ Len(Plan["CONFIGURE"]) = 4 /\ Len(Plan["START"]) = 5
    /\ Len(Plan["STOP"]) = 5 /\ Len(Plan["DESTROY"]) = 1
  BY DEF Plan, PreparePlan, InitialisePlan, ConfigurePlan, StartPlan, StopPlan,
         DestroyPlan

(* The posts of each stage.                                                 *)
LEMMA PrepareStages ==
    /\ Plan["PREPARE"][1] = Stage({Db}, "DOWNLOAD")
    /\ Plan["PREPARE"][2] = Stage({Ccc}, "OPEN")
    /\ Plan["PREPARE"][3] = Stage({Ccc}, "INITIALISE")
    /\ Plan["PREPARE"][4] = Stage({Mdcc}, "OPEN")
    /\ Plan["PREPARE"][5] = Stage({Builder}, "INITIALISE")
  BY DEF Plan, PreparePlan

LEMMA InitialiseStages ==
    /\ Plan["INITIALISE"][1] = Stage({Ccc}, "CONFIGURE")
    /\ Plan["INITIALISE"][2] = Stage({Ccc}, "STOP")
    /\ Plan["INITIALISE"][3] = Stage(DifServers, "SCAN")
    /\ Plan["INITIALISE"][4] = Stage(DifServers, "INITIALISE")
    /\ Plan["INITIALISE"][5] = Stage(DifServers, "STATUS")
  BY DEF Plan, InitialisePlan

LEMMA ConfigureStages ==
    /\ Plan["CONFIGURE"][1] = Stage(DifServers, "REGISTERDB")
    /\ Plan["CONFIGURE"][2] = Stage(DifServers, "CONFIGURE")
    /\ Plan["CONFIGURE"][3] = Stage(DifServers, "STATUS")
    /\ Plan["CONFIGURE"][4] = Stage({Builder}, "CONFIGURE")
  BY DEF Plan, ConfigurePlan

LEMMA StartStages ==
    /\ Plan["START"][1] = Stage({Db}, "NEWRUN")
    /\ Plan["START"][2] = Stage(DifServers, "START")
    /\ Plan["START"][3] = Stage({Builder}, "START")
    /\ Plan["START"][4] = Stage({Ccc}, "START")
    /\ Plan["START"][5] = Stage(DifServers, "STATUS")
  BY DEF Plan, StartPlan

LEMMA StopStages ==
    /\ Plan["STOP"][1] = Stage({Mdcc}, "PAUSE")
    /\ Plan["STOP"][2] = Stage({Ccc}, "STOP")
    /\ Plan["STOP"][3] = Stage(DifServers, "STOP")
    /\ Plan["STOP"][4] = Stage({Builder}, "STOP")
    /\ Plan["STOP"][5] = Stage(DifServers, "STATUS")
  BY DEF Plan, StopPlan

LEMMA DestroyStages ==
    /\ Plan["DESTROY"][1] = Stage(DifServers, "DESTROY")
  BY DEF Plan, DestroyPlan

LEMMA LengthIsNat == ASSUME NEW op \in Ops PROVE Len(Plan[op]) \in 1 .. 5
  BY Lengths DEF Ops

LEMMA Distinct ==
    /\ Ccc \notin DifServers /\ Builder \notin DifServers
    /\ Db \notin DifServers /\ Mdcc \notin DifServers
    /\ Ccc # Builder /\ Ccc # Mdcc /\ Ccc # Db /\ Builder # Mdcc /\ Builder # Db
    /\ Mdcc # Db
  BY ServersAssumption DEF Others

(* Who gets the posts of a stage, and what is left of Path after it.        *)
Effect(op, k) ==
    /\ Plan[op][k].to \subseteq Servers
    /\ \/ Plan[op][k].to = DifServers
       \/ /\ Plan[op][k].to \cap DifServers = {}
          /\ Path[op][k + 1] = Path[op][k]
    /\ Ccc \in Plan[op][k].to \/ CccPath[op][k + 1] = CccPath[op][k]
    /\ Builder \in Plan[op][k].to \/ BuilderPath[op][k + 1] = BuilderPath[op][k]

LEMMA StageEffect == ASSUME NEW op \in Ops, NEW k \in 1 .. Len(Plan[op])
                     PROVE  Effect(op, k)
<1>1. CASE op = "PREPARE"
  <2>0. k \in 1 .. 5
    BY <1>1, Lengths
  <2>1. CASE k = 1
    BY <1>1, <2>1, PrepareStages, Distinct
       DEF Effect, Stage, Servers, Others, Path, CccPath, BuilderPath, No
  <2>2. CASE k = 2
    BY <1>1, <2>2, PrepareStages, Distinct
       DEF Effect, Stage, Servers, Others, Path, CccPath, BuilderPath, No
  <2>3. CASE k = 3
    BY <1>1, <2>3, PrepareStages, Distinct
       DEF Effect, Stage, Servers, Others, Path, CccPath, BuilderPath, No
  <2>4. CASE k = 4
    BY <1>1, <2>4, PrepareStages, Distinct
       DEF Effect, Stage, Servers, Others, Path, CccPath, BuilderPath, No
  <2>5. CASE k = 5
    BY <1>1, <2>5, PrepareStages, Distinct
       DEF Effect, Stage, Servers, Others, Path, CccPath, BuilderPath, No
  <2> QED BY <2>0, <2>1, <2>2, <2>3, <2>4, <2>5
<1>2. CASE op = "INITIALISE"
  <2>0. k \in 1 .. 5
    BY <1>2, Lengths
  <2>1. CASE k = 1
    BY <1>2, <2>1, InitialiseStages, Distinct
       DEF Effect, Stage, Servers, Others, Path, CccPath, BuilderPath, No
  <2>2. CASE k = 2
    BY <1>2, <2>2, InitialiseStages, Distinct
       DEF Effect, Stage, Servers, Others, Path, CccPath, BuilderPath, No
  <2>3. CASE k = 3
    BY <1>2, <2>3, InitialiseStages, Distinct
       DEF Effect, Stage, Servers, Others, Path, CccPath, BuilderPath, No
  <2>4. CASE k = 4
    BY <1>2, <2>4, InitialiseStages, Distinct
       DEF Effect, Stage, Servers, Others, Path, CccPath, BuilderPath, No
  <2>5. CASE k = 5
    BY <1>2, <2>5, InitialiseStages, Distinct
       DEF Effect, Stage, Servers, Others, Path, CccPath, BuilderPath, No
  <2> QED BY <2>0, <2>1, <2>2, <2>3, <2>4, <2>5
<1>3. CASE op = "CONFIGURE"
  <2>0. k \in 1 .. 4
    BY <1>3, Lengths
  <2>1. CASE k = 1
    BY <1>3, <2>1, ConfigureStages, Distinct
       DEF Effect, Stage, Servers, Others, Path, CccPath, BuilderPath, No
  <2>2. CASE k = 2
    BY <1>3, <2>2, ConfigureStages, Distinct
       DEF Effect, Stage, Servers, Others, Path, CccPath, BuilderPath, No
  <2>3. CASE k = 3
    BY <1>3, <2>3, ConfigureStages, Distinct
       DEF Effect, Stage, Servers, Others, Path, CccPath, BuilderPath, No
  <2>4. CASE k = 4
    BY <1>3, <2>4, ConfigureStages, Distinct
       DEF Effect, Stage, Servers, Others, Path, CccPath, BuilderPath, No
  <2> QED BY <2>0, <2>1, <2>2, <2>3, <2>4
<1>4. CASE op = "START"
  <2>0. k \in 1 .. 5
    BY <1>4, Lengths
  <2>1. CASE k = 1
    BY <1>4, <2>1, StartStages, Distinct
       DEF Effect, Stage, Servers, Others, Path, CccPath, BuilderPath, No
  <2>2. CASE k = 2
    BY <1>4, <2>2, StartStages, Distinct
       DEF Effect, Stage, Servers, Others, Path, CccPath, BuilderPath, No
  <2>3. CASE k = 3
    BY <1>4, <2>3, StartStages, Distinct
       DEF Effect, Stage, Servers, Others, Path, CccPath, BuilderPath, No
  <2>4. CASE k = 4
    BY <1>4, <2>4, StartStages, Distinct
       DEF Effect, Stage, Servers, Others, Path, CccPath, BuilderPath, No
  <2>5. CASE k = 5
    BY <1>4, <2>5, StartStages, Distinct
       DEF Effect, Stage, Servers, Others, Path, CccPath, BuilderPath, No
  <2> QED BY <2>0, <2>1, <2>2, <2>3, <2>4, <2>5
<1>5. CASE op = "STOP"
  <2>0. k \in 1 .. 5
    BY <1>5, Lengths
  <2>1. CASE k = 1
    BY <1>5, <2>1, StopStages, Distinct
       DEF Effect, Stage, Servers, Others, Path, CccPath, BuilderPath, No
  <2>2. CASE k = 2
    BY <1>5, <2>2, StopStages, Distinct
       DEF Effect, Stage, Servers, Others, Path, CccPath, BuilderPath, No
  <2>3. CASE k = 3
    BY <1>5, <2>3, StopStages, Distinct
       DEF Effect, Stage, Servers, Others, Path, CccPath, BuilderPath, No
  <2>4. CASE k = 4
    BY <1>5, <2>4, StopStages, Distinct
       DEF Effect, Stage, Servers, Others, Path, CccPath, BuilderPath, No
  <2>5. CASE k = 5
    BY <1>5, <2>5, StopStages, Distinct
       DEF Effect, Stage, Servers, Others, Path, CccPath, BuilderPath, No
  <2> QED BY <2>0, <2>1, <2>2, <2>3, <2>4, <2>5
<1>6. CASE op = "DESTROY"
  <2>0. k \in 1 .. 1
    BY <1>6, Lengths
  <2>1. CASE k = 1
    BY <1>6, <2>1, DestroyStages, Distinct
       DEF Effect, Stage, Servers, Others, Path, CccPath, BuilderPath, No
  <2> QED BY <2>0, <2>1
<1> QED BY <1>1, <1>2, <1>3, <1>4, <1>5, <1>6 DEF Ops

(* What an answer does to a DIF server, to the clock card, to the builder:  *)
(* taken or refused, it leaves the server past the stage.                   *)
Past(table, post, v, w) ==
    \/ \E x \in table : x[1] = post /\ x[2] = v /\ x[3] = w
    \/ v = w /\ ~\E x \in table : x[1] = post /\ x[2] = v

DifStep(op, k) ==
    Plan[op][k].to = DifServers =>
        \A v \in Path[op][k] \cup {"CREATED"}, w \in ServerStates :
            Past(DifTable, Plan[op][k].post, v, w) => w \in Path[op][k + 1] \cup {"CREATED"}

CardStep(s, table, path, op, k) ==
    s \in Plan[op][k].to =>
        \A v, w \in ServerStates :
            /\ Past(table, Plan[op][k].post, v, w)
            /\ v = "RUNNING" => path[op][k]
            /\ w = "RUNNING"
            => path[op][k + 1]

LEMMA DifStepHolds == ASSUME NEW op \in Ops, NEW k \in 1 .. Len(Plan[op])
                      PROVE  DifStep(op, k)
<1>1. CASE op = "PREPARE"
  <2>0. k \in 1 .. 5
    BY <1>1, Lengths
  <2>1. CASE k = 1
    BY <1>1, <2>1, PrepareStages, Distinct
       DEF DifStep, Stage, Servers, Others, Path, Past, DifTable, DifStarts, Set
  <2>2. CASE k = 2
    BY <1>1, <2>2, PrepareStages, Distinct
       DEF DifStep, Stage, Servers, Others, Path, Past, DifTable, DifStarts, Set
  <2>3. CASE k = 3
    BY <1>1, <2>3, PrepareStages, Distinct
       DEF DifStep, Stage, Servers, Others, Path, Past, DifTable, DifStarts, Set
  <2>4. CASE k = 4
    BY <1>1, <2>4, PrepareStages, Distinct
       DEF DifStep, Stage, Servers, Others, Path, Past, DifTable, DifStarts, Set
  <2>5. CASE k = 5
    BY <1>1, <2>5, PrepareStages, Distinct
       DEF DifStep, Stage, Servers, Others, Path, Past, DifTable, DifStarts, Set
  <2> QED BY <2>0, <2>1, <2>2, <2>3, <2>4, <2>5
<1>2. CASE op = "INITIALISE"
  <2>0. k \in 1 .. 5
    BY <1>2, Lengths
  <2>1. CASE k = 1
    BY <1>2, <2>1, InitialiseStages, Distinct
       DEF DifStep, Stage, Servers, Others, Path, Past, DifTable, DifStarts, Set
  <2>2. CASE k = 2
    BY <1>2, <2>2, InitialiseStages, Distinct
       DEF DifStep, Stage, Servers, Others, Path, Past, DifTable, DifStarts, Set
  <2>3. CASE k = 3
    BY <1>2, <2>3, InitialiseStages, Distinct
       DEF DifStep, Stage, Servers, Others, Path, Past, DifTable, DifStarts, Set
  <2>4. CASE k = 4
    BY <1>2, <2>4, InitialiseStages, Distinct
       DEF DifStep, Stage, Servers, Others, Path, Past, DifTable, DifStarts, Set
  <2>5. CASE k = 5
    BY <1>2, <2>5, InitialiseStages, Distinct
       DEF DifStep, Stage, Servers, Others, Path, Past, DifTable, DifStarts, Set
  <2> QED BY <2>0, <2>1, <2>2, <2>3, <2>4, <2>5
<1>3. CASE op = "CONFIGURE"
  <2>0. k \in 1 .. 4
    BY <1>3, Lengths
  <2>1. CASE k = 1
    BY <1>3, <2>1, ConfigureStages, Distinct
       DEF DifStep, Stage, Servers, Others, Path, Past, DifTable, DifStarts, Set
  <2>2. CASE k = 2
    BY <1>3, <2>2, ConfigureStages, Distinct
       DEF DifStep, Stage, Servers, Others, Path, Past, DifTable, DifStarts, Set
  <2>3. CASE k = 3
    BY <1>3, <2>3, ConfigureStages, Distinct
       DEF DifStep, Stage, Servers, Others, Path, Past, DifTable, DifStarts, Set
  <2>4. CASE k = 4
    BY <1>3, <2>4, ConfigureStages, Distinct
       DEF DifStep, Stage, Servers, Others, Path, Past, DifTable, DifStarts, Set
  <2> QED BY <2>0, <2>1, <2>2, <2>3, <2>4
<1>4. CASE op = "START"
  <2>0. k \in 1 .. 5
    BY <1>4, Lengths
  <2>1. CASE k = 1
    BY <1>4, <2>1, StartStages, Distinct
       DEF DifStep, Stage, Servers, Others, Path, Past, DifTable, DifStarts, Set
  <2>2. CASE k = 2
    BY <1>4, <2>2, StartStages, Distinct
       DEF DifStep, Stage, Servers, Others, Path, Past, DifTable, DifStarts, Set
  <2>3. CASE k = 3
    BY <1>4, <2>3, StartStages, Distinct
       DEF DifStep, Stage, Servers, Others, Path, Past, DifTable, DifStarts, Set
  <2>4. CASE k = 4
    BY <1>4, <2>4, StartStages, Distinct
       DEF DifStep, Stage, Servers, Others, Path, Past, DifTable, DifStarts, Set
  <2>5. CASE k = 5
    BY <1>4, <2>5, StartStages, Distinct
       DEF DifStep, Stage, Servers, Others, Path, Past, DifTable, DifStarts, Set
  <2> QED BY <2>0, <2>1, <2>2, <2>3, <2>4, <2>5
<1>5. CASE op = "STOP"
  <2>0. k \in 1 .. 5
    BY <1>5, Lengths
  <2>1. CASE k = 1
    BY <1>5, <2>1, StopStages, Distinct
       DEF DifStep, Stage, Servers, Others, Path, Past, DifTable, DifStarts, Set
  <2>2. CASE k = 2
    BY <1>5, <2>2, StopStages, Distinct
       DEF DifStep, Stage, Servers, Others, Path, Past, DifTable, DifStarts, Set
  <2>3. CASE k = 3
    BY <1>5, <2>3, StopStages, Distinct
       DEF DifStep, Stage, Servers, Others, Path, Past, DifTable, DifStarts, Set
  <2>4. CASE k = 4
    BY <1>5, <2>4, StopStages, Distinct
       DEF DifStep, Stage, Servers, Others, Path, Past, DifTable, DifStarts, Set
  <2>5. CASE k = 5
    BY <1>5, <2>5, StopStages, Distinct
       DEF DifStep, Stage, Servers, Others, Path, Past, DifTable, DifStarts, Set
  <2> QED BY <2>0, <2>1, <2>2, <2>3, <2>4, <2>5
<1>6. CASE op = "DESTROY"
  <2>0. k \in 1 .. 1
    BY <1>6, Lengths
  <2>1. CASE k = 1
    BY <1>6, <2>1, DestroyStages, Distinct
       DEF DifStep, Stage, Servers, Others, Path, Past, DifTable, DifStarts, Set
  <2> QED BY <2>0, <2>1
<1> QED BY <1>1, <1>2, <1>3, <1>4, <1>5, <1>6 DEF Ops

LEMMA CardStepHolds ==
    ASSUME NEW op \in Ops, NEW k \in 1 .. Len(Plan[op])
    PROVE  /\ CardStep(Ccc, CccTable, CccPath, op, k)
           /\ CardStep(Builder, BuilderTable, BuilderPath, op, k)
<1>1. CASE op = "PREPARE"
  <2>0. k \in 1 .. 5
    BY <1>1, Lengths
  <2>1. CASE k = 1
    BY <1>1, <2>1, PrepareStages, Distinct
       DEF CardStep, Stage, Servers, Others, CccPath, BuilderPath, No, Past,
           CccTable, BuilderTable
  <2>2. CASE k = 2
    BY <1>1, <2>2, PrepareStages, Distinct
       DEF CardStep, Stage, Servers, Others, CccPath, BuilderPath, No, Past,
           CccTable, BuilderTable
  <2>3. CASE k = 3
    BY <1>1, <2>3, PrepareStages, Distinct
       DEF CardStep, Stage, Servers, Others, CccPath, BuilderPath, No, Past,
           CccTable, BuilderTable
  <2>4. CASE k = 4
    BY <1>1, <2>4, PrepareStages, Distinct
       DEF CardStep, Stage, Servers, Others, CccPath, BuilderPath, No, Past,
           CccTable, BuilderTable
  <2>5. CASE k = 5
    BY <1>1, <2>5, PrepareStages, Distinct
       DEF CardStep, Stage, Servers, Others, CccPath, BuilderPath, No, Past,
           CccTable, BuilderTable
  <2> QED BY <2>0, <2>1, <2>2, <2>3, <2>4, <2>5
<1>2. CASE op = "INITIALISE"
  <2>0. k \in 1 .. 5
    BY <1>2, Lengths
  <2>1. CASE k = 1
    BY <1>2, <2>1, InitialiseStages, Distinct
       DEF CardStep, Stage, Servers, Others, CccPath, BuilderPath, No, Past,
           CccTable, BuilderTable
  <2>2. CASE k = 2
    BY <1>2, <2>2, InitialiseStages, Distinct
       DEF CardStep, Stage, Servers, Others, CccPath, BuilderPath, No, Past,
           CccTable, BuilderTable
  <2>3. CASE k = 3
    BY <1>2, <2>3, InitialiseStages, Distinct
       DEF CardStep, Stage, Servers, Others, CccPath, BuilderPath, No, Past,
           CccTable, BuilderTable
  <2>4. CASE k = 4
    BY <1>2, <2>4, InitialiseStages, Distinct
       DEF CardStep, Stage, Servers, Others, CccPath, BuilderPath, No, Past,
           CccTable, BuilderTable
  <2>5. CASE k = 5
    BY <1>2, <2>5, InitialiseStages, Distinct
       DEF CardStep, Stage, Servers, Others, CccPath, BuilderPath, No, Past,
           CccTable, BuilderTable
  <2> QED BY <2>0, <2>1, <2>2, <2>3, <2>4, <2>5
<1>3. CASE op = "CONFIGURE"
  <2>0. k \in 1 .. 4
    BY <1>3, Lengths
  <2>1. CASE k = 1
    BY <1>3, <2>1, ConfigureStages, Distinct
       DEF CardStep, Stage, Servers, Others, CccPath, BuilderPath, No, Past,
           CccTable, BuilderTable
  <2>2. CASE k = 2
    BY <1>3, <2>2, ConfigureStages, Distinct
       DEF CardStep, Stage, Servers, Others, CccPath, BuilderPath, No, Past,
           CccTable, BuilderTable
  <2>3. CASE k = 3
    BY <1>3, <2>3, ConfigureStages, Distinct
       DEF CardStep, Stage, Servers, Others, CccPath, BuilderPath, No, Past,
           CccTable, BuilderTable
  <2>4. CASE k = 4
    BY <1>3, <2>4, ConfigureStages, Distinct
       DEF CardStep, Stage, Servers, Others, CccPath, BuilderPath, No, Past,
           CccTable, BuilderTable
  <2> QED BY <2>0, <2>1, <2>2, <2>3, <2>4
<1>4. CASE op = "START"
  <2>0. k \in 1 .. 5
    BY <1>4, Lengths
  <2>1. CASE k = 1
    BY <1>4, <2>1, StartStages, Distinct
       DEF CardStep, Stage, Servers, Others, CccPath, BuilderPath, No, Past,
           CccTable, BuilderTable
  <2>2. CASE k = 2
    BY <1>4, <2>2, StartStages, Distinct
       DEF CardStep, Stage, Servers, Others, CccPath, BuilderPath, No, Past,
           CccTable, BuilderTable
  <2>3. CASE k = 3
    BY <1>4, <2>3, StartStages, Distinct
       DEF CardStep, Stage, Servers, Others, CccPath, BuilderPath, No, Past,
           CccTable, BuilderTable
  <2>4. CASE k = 4
    BY <1>4, <2>4, StartStages, Distinct
       DEF CardStep, Stage, Servers, Others, CccPath, BuilderPath, No, Past,
           CccTable, BuilderTable
  <2>5. CASE k = 5
    BY <1>4, <2>5, StartStages, Distinct
       DEF CardStep, Stage, Servers, Others, CccPath, BuilderPath, No, Past,
           CccTable, BuilderTable
  <2> QED BY <2>0, <2>1, <2>2, <2>3, <2>4, <2>5
<1>5. CASE op = "STOP"
  <2>0. k \in 1 .. 5
    BY <1>5, Lengths
  <2>1. CASE k = 1
    BY <1>5, <2>1, StopStages, Distinct
       DEF CardStep, Stage, Servers, Others, CccPath, BuilderPath, No, Past,
           CccTable, BuilderTable
  <2>2. CASE k = 2
    BY <1>5, <2>2, StopStages, Distinct
       DEF CardStep, Stage, Servers, Others, CccPath, BuilderPath, No, Past,
           CccTable, BuilderTable
  <2>3. CASE k = 3
    BY <1>5, <2>3, StopStages, Distinct
       DEF CardStep, Stage, Servers, Others, CccPath, BuilderPath, No, Past,
           CccTable, BuilderTable
  <2>4. CASE k = 4
    BY <1>5, <2>4, StopStages, Distinct
       DEF CardStep, Stage, Servers, Others, CccPath, BuilderPath, No, Past,
           CccTable, BuilderTable
  <2>5. CASE k = 5
    BY <1>5, <2>5, StopStages, Distinct
       DEF CardStep, Stage, Servers, Others, CccPath, BuilderPath, No, Past,
           CccTable, BuilderTable
  <2> QED BY <2>0, <2>1, <2>2, <2>3, <2>4, <2>5
<1>6. CASE op = "DESTROY"
  <2>0. k \in 1 .. 1
    BY <1>6, Lengths
  <2>1. CASE k = 1
    BY <1>6, <2>1, DestroyStages, Distinct
       DEF CardStep, Stage, Servers, Others, CccPath, BuilderPath, No, Past,
           CccTable, BuilderTable
  <2> QED BY <2>0, <2>1
<1> QED BY <1>1, <1>2, <1>3, <1>4, <1>5, <1>6 DEF Ops

(* How a command of the run control begins and ends. *)
LEMMA Ends ==
    ASSUME NEW x \in LDaqTable
    PROVE  /\ x[1] \in Ops /\ x[2] # "CREATED" /\ x[3] \in LDaqStates \ {"CREATED"}
           /\ AtRest(x[2]) \subseteq Path[x[1]][1]
           /\ Path[x[1]][Len(Plan[x[1]]) + 1] \subseteq AtRest(x[3])
           /\ x[2] = "RUNNING" => CccPath[x[1]][1] /\ BuilderPath[x[1]][1]
           /\ CccPath[x[1]][Len(Plan[x[1]]) + 1] => x[3] = "RUNNING"
           /\ BuilderPath[x[1]][Len(Plan[x[1]]) + 1] => x[3] = "RUNNING"
<1>1. /\ x[1] \in Ops /\ x[2] # "CREATED" /\ x[3] \in LDaqStates \ {"CREATED"}
  BY DEF LDaqTable, Destroys, Ops, LDaqStates
<1>2. CASE x = <<"PREPARE", "DISCOVERED", "PREPARED">>
  <2>1. /\ x[1] = "PREPARE" /\ x[2] = "DISCOVERED" /\ x[3] = "PREPARED"
        /\ Len(Plan["PREPARE"]) + 1 = 6
    BY <1>2, Lengths
  <2>2. /\ AtRest("DISCOVERED") \subseteq Path["PREPARE"][1]
        /\ Path["PREPARE"][6] \subseteq AtRest("PREPARED")
    BY DEF AtRest, Path, Set
  <2>3. /\ "DISCOVERED" = "RUNNING" => CccPath["PREPARE"][1] /\ BuilderPath["PREPARE"][1]
        /\ CccPath["PREPARE"][6] => "PREPARED" = "RUNNING"
        /\ BuilderPath["PREPARE"][6] => "PREPARED" = "RUNNING"
    BY DEF CccPath, BuilderPath, No
  <2> QED BY <1>1, <2>1, <2>2, <2>3
<1>3. CASE x = <<"PREPARE", "PREPARED", "PREPARED">>
  <2>1. /\ x[1] = "PREPARE" /\ x[2] = "PREPARED" /\ x[3] = "PREPARED"
        /\ Len(Plan["PREPARE"]) + 1 = 6
    BY <1>3, Lengths
  <2>2. /\ AtRest("PREPARED") \subseteq Path["PREPARE"][1]
        /\ Path["PREPARE"][6] \subseteq AtRest("PREPARED")
    BY DEF AtRest, Path, Set
  <2>3. /\ "PREPARED" = "RUNNING" => CccPath["PREPARE"][1] /\ BuilderPath["PREPARE"][1]
        /\ CccPath["PREPARE"][6] => "PREPARED" = "RUNNING"
        /\ BuilderPath["PREPARE"][6] => "PREPARED" = "RUNNING"
    BY DEF CccPath, BuilderPath, No
  <2> QED BY <1>1, <2>1, <2>2, <2>3
<1>4. CASE x = <<"INITIALISE", "PREPARED", "INITIALISED">>
  <2>1. /\ x[1] = "INITIALISE" /\ x[2] = "PREPARED" /\ x[3] = "INITIALISED"
        /\ Len(Plan["INITIALISE"]) + 1 = 6
    BY <1>4, Lengths
  <2>2. /\ AtRest("PREPARED") \subseteq Path["INITIALISE"][1]
        /\ Path["INITIALISE"][6] \subseteq AtRest("INITIALISED")
    BY DEF AtRest, Path, Set
  <2>3. /\ "PREPARED" = "RUNNING" => CccPath["INITIALISE"][1] /\ BuilderPath["INITIALISE"][1]
        /\ CccPath["INITIALISE"][6] => "INITIALISED" = "RUNNING"
        /\ BuilderPath["INITIALISE"][6] => "INITIALISED" = "RUNNING"
    BY DEF CccPath, BuilderPath, No
  <2> QED BY <1>1, <2>1, <2>2, <2>3
<1>5. CASE x = <<"CONFIGURE", "INITIALISED", "CONFIGURED">>
  <2>1. /\ x[1] = "CONFIGURE" /\ x[2] = "INITIALISED" /\ x[3] = "CONFIGURED"
        /\ Len(Plan["CONFIGURE"]) + 1 = 5
    BY <1>5, Lengths
  <2>2. /\ AtRest("INITIALISED") \subseteq Path["CONFIGURE"][1]
        /\ Path["CONFIGURE"][5] \subseteq AtRest("CONFIGURED")
    BY DEF AtRest, Path, Set
  <2>3. /\ "INITIALISED" = "RUNNING" => CccPath["CONFIGURE"][1] /\ BuilderPath["CONFIGURE"][1]
        /\ CccPath["CONFIGURE"][5] => "CONFIGURED" = "RUNNING"
        /\ BuilderPath["CONFIGURE"][5] => "CONFIGURED" = "RUNNING"
    BY DEF CccPath, BuilderPath, No
  <2> QED BY <1>1, <2>1, <2>2, <2>3
<1>6. CASE x = <<"CONFIGURE", "CONFIGURED", "CONFIGURED">>
  <2>1. /\ x[1] = "CONFIGURE" /\ x[2] = "CONFIGURED" /\ x[3] = "CONFIGURED"
        /\ Len(Plan["CONFIGURE"]) + 1 = 5
    BY <1>6, Lengths
  <2>2. /\ AtRest("CONFIGURED") \subseteq Path["CONFIGURE"][1]
        /\ Path["CONFIGURE"][5] \subseteq AtRest("CONFIGURED")
    BY DEF AtRest, Path, Set
  <2>3. /\ "CONFIGURED" = "RUNNING" => CccPath["CONFIGURE"][1] /\ BuilderPath["CONFIGURE"][1]
        /\ CccPath["CONFIGURE"][5] => "CONFIGURED" = "RUNNING"
        /\ BuilderPath["CONFIGURE"][5] => "CONFIGURED" = "RUNNING"
    BY DEF CccPath, BuilderPath, No
  <2> QED BY <1>1, <2>1, <2>2, <2>3
<1>7. CASE x = <<"START", "CONFIGURED", "RUNNING">>
  <2>1. /\ x[1] = "START" /\ x[2] = "CONFIGURED" /\ x[3] = "RUNNING"
        /\ Len(Plan["START"]) + 1 = 6
    BY <1>7, Lengths
  <2>2. /\ AtRest("CONFIGURED") \subseteq Path["START"][1]
        /\ Path["START"][6] \subseteq AtRest("RUNNING")
    BY DEF AtRest, Path, Set
  <2>3. /\ "CONFIGURED" = "RUNNING" => CccPath["START"][1] /\ BuilderPath["START"][1]
        /\ CccPath["START"][6] => "RUNNING" = "RUNNING"
        /\ BuilderPath["START"][6] => "RUNNING" = "RUNNING"
    BY DEF CccPath, BuilderPath, No
  <2> QED BY <1>1, <2>1, <2>2, <2>3
<1>8. CASE x = <<"STOP", "RUNNING", "CONFIGURED">>
  <2>1. /\ x[1] = "STOP" /\ x[2] = "RUNNING" /\ x[3] = "CONFIGURED"
        /\ Len(Plan["STOP"]) + 1 = 6
    BY <1>8, Lengths
  <2>2. /\ AtRest("RUNNING") \subseteq Path["STOP"][1]
        /\ Path["STOP"][6] \subseteq AtRest("CONFIGURED")
    BY DEF AtRest, Path, Set
  <2>3. /\ "RUNNING" = "RUNNING" => CccPath["STOP"][1] /\ BuilderPath["STOP"][1]
        /\ CccPath["STOP"][6] => "CONFIGURED" = "RUNNING"
        /\ BuilderPath["STOP"][6] => "CONFIGURED" = "RUNNING"
    BY DEF CccPath, BuilderPath, No
  <2> QED BY <1>1, <2>1, <2>2, <2>3
<1>9. CASE x = <<"DESTROY", "CONFIGURED", "PREPARED">>
  <2>1. /\ x[1] = "DESTROY" /\ x[2] = "CONFIGURED" /\ x[3] = "PREPARED"
        /\ Len(Plan["DESTROY"]) + 1 = 2
    BY <1>9, Lengths
  <2>2. /\ AtRest("CONFIGURED") \subseteq Path["DESTROY"][1]
        /\ Path["DESTROY"][2] \subseteq AtRest("PREPARED")
    BY DEF AtRest, Path, Set
  <2>3. /\ "CONFIGURED" = "RUNNING" => CccPath["DESTROY"][1] /\ BuilderPath["DESTROY"][1]
        /\ CccPath["DESTROY"][2] => "PREPARED" = "RUNNING"
        /\ BuilderPath["DESTROY"][2] => "PREPARED" = "RUNNING"
    BY DEF CccPath, BuilderPath, No
  <2> QED BY <1>1, <2>1, <2>2, <2>3
<1> QED BY <1>2, <1>3, <1>4, <1>5, <1>6, <1>7, <1>8, <1>9 DEF LDaqTable, Destroys

-----------------------------------------------------------------------------
(* One answer. *)

LEMMA TableTypes ==
    /\ \A s \in Servers : \A x \in Table(s) : x[3] \in ServerStates
    /\ \A s \in DifServers : Table(s) = DifTable
    /\ Table(Ccc) = CccTable /\ Table(Builder) = BuilderTable
<1>1. \A x \in DifTable \cup CccTable \cup MdccTable \cup BuilderTable \cup DbTable :
        x[3] \in ServerStates
  BY DEF DifTable, DifStarts, CccTable, MdccTable, BuilderTable, DbTable, ServerStates,
         LDaqStates
<1>2. /\ \A s \in DifServers : Table(s) = DifTable
      /\ Table(Ccc) = CccTable /\ Table(Builder) = BuilderTable
      /\ Table(Mdcc) = MdccTable /\ Table(Db) = DbTable
  BY Distinct DEF Table
<1> QED BY <1>1, <1>2 DEF Servers, Others

LEMMA AfterIs ==
    ASSUME NEW s \in Servers, NEW post, state[s] \in ServerStates
    PROVE  /\ After(s, post) \in ServerStates
           /\ s \in up => Past(Table(s), post, state[s], After(s, post))
<1>1. CASE Accepts(s, post)
  <2> DEFINE y == CHOOSE x \in Table(s) : x[1] = post /\ x[2] = state[s]
  <2>1. y \in Table(s) /\ y[1] = post /\ y[2] = state[s]
    BY <1>1 DEF Accepts
  <2>2. After(s, post) = y[3]
    BY <1>1 DEF After
  <2> QED BY <2>1, <2>2, TableTypes DEF Past
<1>2. CASE ~Accepts(s, post)
  BY <1>2 DEF After, Past, Accepts
<1> QED BY <1>1, <1>2

(* What a command in progress looks like. *)
LEMMA InProgress ==
    ASSUME TypeOK, cmd # Idle
    PROVE  /\ cmd.op \in Ops /\ cmd.op # "none"
           /\ cmd.stage \in 1 .. Len(Plan[cmd.op])
           /\ cmd = [op |-> cmd.op, stage |-> cmd.stage, todo |-> cmd.todo]
           /\ cmd.todo \subseteq clients \cap Now.to
  BY Commands DEF TypeOK, Ops

LEMMA Answering ==
    ASSUME TInv, NEW s \in Servers, Answered(s)
    PROVE  /\ cmd # Idle /\ cmd' # Idle
           /\ cmd'.op = cmd.op /\ cmd'.stage = cmd.stage /\ cmd'.todo = cmd.todo \ {s}
           /\ s \in clients /\ s \in Now.to
           /\ state' = [state EXCEPT ![s] = After(s, Now.post)]
           /\ state' \in [Servers -> ServerStates]
           /\ Allowed' /\ Strangers'
           /\ cmd'.op \in DOMAIN Plan /\ cmd'.stage \in 1 .. Len(Plan[cmd'.op])
           /\ cmd' = [op |-> cmd'.op, stage |-> cmd'.stage, todo |-> cmd'.todo]
           /\ cmd'.todo \subseteq clients' \cap Now'.to
<1>1. TypeOK /\ s \in cmd.todo
  BY DEF TInv, Answered
<1>2. cmd # Idle
  BY <1>1 DEF Idle
<1>3. /\ cmd.op \in Ops /\ cmd.op # "none" /\ cmd.stage \in 1 .. Len(Plan[cmd.op])
      /\ cmd = [op |-> cmd.op, stage |-> cmd.stage, todo |-> cmd.todo]
      /\ cmd.todo \subseteq clients \cap Now.to
  BY <1>1, <1>2, InProgress
<1>4. cmd' = [op |-> cmd.op, stage |-> cmd.stage, todo |-> cmd.todo \ {s}]
  BY <1>3 DEF Answered
<1>5. cmd'.op = cmd.op /\ cmd'.stage = cmd.stage /\ cmd'.todo = cmd.todo \ {s}
  BY <1>4
<1>6. cmd' # Idle /\ cmd' = [op |-> cmd'.op, stage |-> cmd'.stage, todo |-> cmd'.todo]
  BY <1>3, <1>4, <1>5 DEF Idle
<1>7. /\ state' = [state EXCEPT ![s] = After(s, Now.post)]
      /\ UNCHANGED <<ldaq, clients, up>>
  BY DEF Answered
<1>8. state' \in [Servers -> ServerStates]
  BY <1>1, <1>7, AfterIs DEF TypeOK
<1>9. Allowed' /\ Strangers'
  BY <1>1, <1>2, <1>3, <1>5, <1>7 DEF TInv, Allowed, Strangers, TypeOK
<1>10. Now' = Now
  BY <1>5 DEF Now
<1>11. cmd'.todo \subseteq clients' \cap Now'.to
  BY <1>3, <1>5, <1>7, <1>10
<1> QED BY <1>1, <1>2, <1>3, <1>5, <1>6, <1>7, <1>8, <1>9, <1>11, Commands

-----------------------------------------------------------------------------
(* Types. *)

LEMMA TypesInitially == Init => TInv
<1> SUFFICES ASSUME Init PROVE TInv
  OBVIOUS
<1>1. runs \in Seq(Nat)
  BY DEF Init
<1> QED BY <1>1 DEF Init, TInv, TypeOK, Allowed, Strangers, LDaqStates, ServerStates

LEMMA PostTypes ==
    ASSUME TInv,
           (\E s \in DifServers : PostDif(s)) \/ PostDb \/ PostBuilder \/ PostCard
    PROVE  TInv'
<1>0. TypeOK
  BY DEF TInv
<1>1. ASSUME NEW s \in DifServers, PostDif(s) PROVE TInv'
  <2>1. Answered(s) /\ s \in Servers
    BY <1>1 DEF PostDif, Servers
  <2>2. found' \subseteq DifServers /\ listed' \subseteq DifServers
    BY <1>0, <1>1 DEF PostDif, TypeOK
  <2>3. UNCHANGED <<sources, dbRun, run, runs, ldaq, clients, up, bounds, clean>>
    BY <1>1, <2>1 DEF PostDif, Answered
  <2> QED BY <1>0, <2>1, <2>2, <2>3, Answering DEF TypeOK, TInv, bounds
<1>2. CASE PostDb
  <2>1. Answered(Db) /\ Db \in Servers
    BY <1>2 DEF PostDb, Servers, Others
  <2>2. dbRun' \in Nat /\ run' \in Nat
    BY <1>0, <1>2 DEF PostDb, TypeOK
  <2>3. UNCHANGED <<found, listed, sources, runs, ldaq, clients, up, bounds, clean>>
    BY <1>2, <2>1 DEF PostDb, Answered
  <2> QED BY <1>0, <2>1, <2>2, <2>3, Answering DEF TypeOK, TInv, bounds
<1>3. CASE PostBuilder
  <2>1. Answered(Builder) /\ Builder \in Servers
    BY <1>3 DEF PostBuilder, Servers, Others
  <2>2. sources' \subseteq DifServers /\ runs' \in Seq(Nat)
    BY <1>0, <1>3 DEF PostBuilder, TypeOK
  <2>3. UNCHANGED <<found, listed, dbRun, run, ldaq, clients, up, bounds, clean>>
    BY <1>3, <2>1 DEF PostBuilder, Answered
  <2> QED BY <1>0, <2>1, <2>2, <2>3, Answering DEF TypeOK, TInv, bounds
<1>4. CASE PostCard
  <2>1. PICK s \in {Ccc, Mdcc} : Answered(s)
    BY <1>4 DEF PostCard
  <2>2. s \in Servers
    BY DEF Servers, Others
  <2>3. UNCHANGED <<data, ldaq, clients, up, bounds, clean>>
    BY <1>4, <2>1 DEF PostCard, Answered
  <2> QED BY <1>0, <2>1, <2>2, <2>3, Answering DEF TypeOK, TInv, bounds, data
<1> QED BY <1>1, <1>2, <1>3, <1>4

LEMMA OperatorTypes ==
    ASSUME TInv,
           \/ Discover \/ (\E op \in DOMAIN Plan : Command(op))
           \/ \E post \in {"PAUSE", "RESUME"} : Trigger(post)
    PROVE  TInv'
<1>0. TypeOK
  BY DEF TInv
<1>1. CASE Discover
  BY <1>0, <1>1 DEF Discover, TInv, TypeOK, Allowed, Strangers, LDaqStates, bounds, data
<1>2. ASSUME NEW op \in DOMAIN Plan, Command(op) PROVE TInv'
  <2>1. /\ cmd' = [op |-> op, stage |-> 1, todo |-> Asked(Plan[op][1].to)]
        /\ UNCHANGED <<ldaq, clients, state, up, data, faults>>
    BY <1>2 DEF Command
  <2>2. cmd'.op = op /\ cmd'.stage = 1 /\ cmd'.todo = Plan[op][1].to \cap clients
    BY <2>1 DEF Asked
  <2>3. 1 \in 1 .. Len(Plan[op])
    <3>1. op \in Ops
      BY Commands
    <3>2. Len(Plan[op]) \in 1 .. 5
      BY <3>1, LengthIsNat
    <3> QED BY <3>2
  <2>4. cmd'.todo \subseteq clients' \cap Now'.to
    BY <2>1, <2>2 DEF Now
  <2>5. starts' \in Nat
    BY <1>0, <1>2 DEF Command, TypeOK
  <2>6. clean' \in {"none", "begun", "PREPARE", "INITIALISE", "CONFIGURE"}
    BY <1>0, <1>2 DEF Command, TypeOK
  <2>7. Allowed' /\ Strangers'
    BY <1>2, <2>1, <2>2 DEF TInv, Allowed, Strangers, Command
  <2> QED BY <1>0, <2>1, <2>2, <2>3, <2>4, <2>5, <2>6, <2>7 DEF TInv, TypeOK, data
<1>3. ASSUME NEW post \in {"PAUSE", "RESUME"}, Trigger(post) PROVE TInv'
  <2>1. PICK x \in MdccTable : state' = [state EXCEPT ![Mdcc] = x[3]]
    BY <1>3 DEF Trigger
  <2>2. x[3] \in ServerStates
    BY DEF MdccTable, ServerStates, LDaqStates
  <2>3. /\ UNCHANGED <<ldaq, cmd, clients, up, data, bounds, clean>>
        /\ Mdcc \in clients
    BY <1>3 DEF Trigger
  <2>4. Now' = Now
    BY <2>3 DEF Now
  <2> QED BY <1>0, <2>1, <2>2, <2>3, <2>4
          DEF TInv, TypeOK, Allowed, Strangers, data, bounds
<1> QED BY <1>1, <1>2, <1>3

LEMMA StageTypes ==
    ASSUME TInv,
           NextStage \/ Done \/ (\E s \in Servers : Crash(s) \/ Restart(s))
    PROVE  TInv'
<1>0. TypeOK
  BY DEF TInv
<1>1. CASE NextStage
  <2> DEFINE to == Plan[cmd.op][cmd.stage + 1].to
  <2>1. cmd # Idle
    BY <1>1 DEF NextStage, Idle
  <2>2. /\ cmd.op \in Ops /\ cmd.op # "none" /\ cmd.stage \in 1 .. Len(Plan[cmd.op])
        /\ cmd = [op |-> cmd.op, stage |-> cmd.stage, todo |-> cmd.todo]
    BY <1>0, <2>1, InProgress
  <2>3. cmd' = [op |-> cmd.op, stage |-> cmd.stage + 1, todo |-> to \cap clients]
    BY <1>1, <2>2 DEF NextStage, Asked
  <2>4. cmd'.op = cmd.op /\ cmd'.stage = cmd.stage + 1 /\ cmd'.todo = to \cap clients
    BY <2>3
  <2>5. cmd'.stage \in 1 .. Len(Plan[cmd'.op])
    BY <1>1, <2>2, <2>4, LengthIsNat DEF NextStage
  <2>6. /\ UNCHANGED <<ldaq, clients, state, up, found, sources, dbRun, run, runs,
                       bounds, clean>>
        /\ listed' \subseteq DifServers
    BY <1>0, <1>1 DEF NextStage, TypeOK
  <2>7. cmd'.todo \subseteq clients' \cap Now'.to
    BY <2>4, <2>6 DEF Now
  <2>8. Allowed' /\ Strangers'
    BY <2>1, <2>4, <2>6 DEF TInv, Allowed, Strangers
  <2> QED BY <1>0, <2>2, <2>3, <2>4, <2>5, <2>6, <2>7, <2>8, Commands
          DEF TInv, TypeOK, bounds
<1>2. CASE Done
  <2>1. PICK x \in LDaqTable : x[1] = cmd.op /\ x[2] = ldaq /\ ldaq' = x[3]
    BY <1>2 DEF Done
  <2>2. ldaq' \in LDaqStates \ {"CREATED"}
    BY <2>1, Ends
  <2>3. clean' \in {"none", "begun", "PREPARE", "INITIALISE", "CONFIGURE"}
    BY <1>0, <1>2 DEF Done, TypeOK
  <2>4. cmd' = Idle /\ UNCHANGED <<clients, state, up, data, bounds>>
    BY <1>2 DEF Done
  <2> QED BY <1>0, <2>2, <2>3, <2>4 DEF TInv, TypeOK, Allowed, Strangers, data, bounds
<1>3. ASSUME NEW s \in Servers, Crash(s) \/ Restart(s) PROVE TInv'
  <2>1. UNCHANGED <<ldaq, cmd, clients>> /\ Now' = Now
    BY <1>3 DEF Crash, Restart, Now
  <2>2. CASE Crash(s)
    BY <1>0, <2>1, <2>2 DEF Crash, TInv, TypeOK, Allowed, Strangers, data
  <2>3. CASE Restart(s)
    <3>1. state' \in [Servers -> ServerStates]
      BY <1>0, <2>3 DEF Restart, TypeOK, ServerStates, LDaqStates
    <3>2. Strangers' /\ Allowed'
      BY <1>0, <2>1, <2>3 DEF Restart, TInv, TypeOK, Strangers, Allowed
    <3> QED BY <1>0, <2>1, <2>3, <3>1, <3>2 DEF Restart, TInv, TypeOK, bounds
  <2> QED BY <1>3, <2>2, <2>3
<1> QED BY <1>1, <1>2, <1>3

LEMMA TypesKept == TInv /\ [Next]_vars => TInv'
<1> SUFFICES ASSUME TInv, [Next]_vars PROVE TInv'
  OBVIOUS
<1>1. CASE UNCHANGED vars
  <2>1. Now' = Now
    BY <1>1 DEF vars, Now
  <2> QED BY <1>1, <2>1 DEF vars, TInv, TypeOK, Allowed, Strangers, data, bounds
<1>2. CASE Next
  BY <1>2, PostTypes, OperatorTypes, StageTypes DEF Next
<1> QED BY <1>1, <1>2

(* Every variable keeps its type, the command in progress that of a plan.   *)
THEOREM TypeCorrect == Spec => []TypeOK
<1>1. TInv => TypeOK
  BY DEF TInv
<1> QED BY <1>1, TypesInitially, TypesKept, PTL DEF Spec

-----------------------------------------------------------------------------
(* The servers and the run control. *)

Phase == Lockstep /\ Quiet

LEMMA PhaseAnswered ==
    ASSUME TInv, Phase, NEW s \in Servers, Answered(s)
    PROVE  Phase'
<1> DEFINE op == cmd.op
           k == cmd.stage
           post == Plan[op][k].post
<1>1. /\ cmd # Idle /\ cmd' # Idle
      /\ cmd'.op = op /\ cmd'.stage = k /\ cmd'.todo = cmd.todo \ {s}
      /\ s \in Plan[op][k].to
      /\ state' = [state EXCEPT ![s] = After(s, post)]
  BY Answering DEF Now
<1>2. op \in Ops /\ k \in 1 .. Len(Plan[op]) /\ s \in cmd.todo
  BY <1>1, InProgress DEF TInv, Answered
<1>3. up' = up /\ state \in [Servers -> ServerStates] /\ Ccc \in Servers /\ Builder \in Servers
  BY DEF Answered, TInv, TypeOK, Servers, Others
<1>4. Effect(op, k) /\ DifStep(op, k)
  BY <1>2, StageEffect, DifStepHolds
<1>5. /\ CardStep(Ccc, CccTable, CccPath, op, k)
      /\ CardStep(Builder, BuilderTable, BuilderPath, op, k)
  BY <1>2, CardStepHolds
<1>6. /\ After(s, post) \in ServerStates
      /\ s \in up => Past(Table(s), post, state[s], After(s, post))
  BY <1>3, AfterIs
<1>7. state'[s] = After(s, post) /\ \A e \in Servers \ {s} : state'[e] = state[e]
  BY <1>1, <1>3
<1>8. Lockstep'
  <2> SUFFICES ASSUME NEW e \in DifServers, e \in up
               PROVE  state'[e] \in Along(e)' \cup {"CREATED"}
    BY <1>3 DEF Lockstep
  <2>1. state[e] \in Along(e) \cup {"CREATED"} /\ e \in Servers
    BY DEF Phase, Lockstep, Servers
  <2>2. CASE e = s
    <3>1. Along(e) = Path[op][k] /\ Along(e)' = Path[op][k + 1]
      BY <1>1, <1>2, <2>2 DEF Along
    <3>2. Plan[op][k].to = DifServers
      BY <1>1, <1>4, <2>2 DEF Effect
    <3>3. Past(DifTable, post, state[e], state'[e]) /\ state'[e] \in ServerStates
      BY <1>6, <1>7, <2>2, TableTypes
    <3> QED BY <1>4, <2>1, <3>1, <3>2, <3>3 DEF DifStep
  <2>3. CASE e # s
    <3>1. Along(e)' = Along(e)
      BY <1>1, <2>3 DEF Along
    <3> QED BY <1>7, <2>1, <2>3, <3>1
  <2> QED BY <2>2, <2>3
<1>9. ASSUME NEW e \in {Ccc, Builder}, NEW table, NEW path, Table(e) = table,
             CardStep(e, table, path, op, k), Running(e) => MayRun(e, path),
             Running(e)'
      PROVE  MayRun(e, path)'
  <2>1. e \in up /\ state'[e] = "RUNNING" /\ e \in Servers
    BY <1>3, <1>9 DEF Running
  <2>2. CASE e = s
    <3>1. /\ Running(e) => path[op][k]
          /\ MayRun(e, path)' <=> path[op][k + 1]
      BY <1>1, <1>2, <1>9, <2>2 DEF MayRun
    <3>2. Past(table, post, state[e], state'[e])
      BY <1>6, <1>7, <1>9, <2>1, <2>2
    <3>3. state[e] \in ServerStates /\ state'[e] \in ServerStates
      BY <1>3, <1>6, <1>7, <2>1, <2>2
    <3> QED BY <1>1, <1>9, <2>1, <2>2, <3>1, <3>2, <3>3 DEF CardStep, Running
  <2>3. CASE e # s
    <3>1. MayRun(e, path)' <=> MayRun(e, path)
      BY <1>1, <2>3 DEF MayRun
    <3> QED BY <1>7, <1>9, <2>1, <2>3, <3>1 DEF Running
  <2> QED BY <2>2, <2>3
<1>10. Quiet'
  BY <1>5, <1>9, TableTypes DEF Phase, Quiet
<1> QED BY <1>8, <1>10 DEF Phase

(* A step that moves neither the run control nor its command leaves every    *)
(* server that matters where it was, or fresh.                              *)
LEMMA PhaseSame ==
    ASSUME TInv, Phase, UNCHANGED <<ldaq, cmd>>,
           \A s \in up' \cap (DifServers \cup {Ccc, Builder}) :
               (s \in up /\ state'[s] = state[s]) \/ state'[s] = "CREATED"
    PROVE  Phase'
<1>1. \A s : Along(s)' = Along(s)
  BY DEF Along
<1>2. \A s, path : MayRun(s, path)' <=> MayRun(s, path)
  BY DEF MayRun
<1>3. Lockstep'
  BY <1>1 DEF Phase, Lockstep
<1>4. Quiet'
  BY <1>2 DEF Phase, Quiet, Running
<1> QED BY <1>3, <1>4 DEF Phase

LEMMA PhaseCommand ==
    ASSUME TInv, Phase, NEW op \in DOMAIN Plan, Command(op)
    PROVE  Phase'
<1>1. PICK x \in LDaqTable : x[1] = op /\ x[2] = ldaq
  BY DEF Command
<1>2. /\ cmd = Idle /\ UNCHANGED <<ldaq, clients, state, up>>
      /\ cmd' = [op |-> op, stage |-> 1, todo |-> Plan[op][1].to \cap clients]
  BY DEF Command, Asked
<1>3. cmd'.op = op /\ cmd'.stage = 1 /\ cmd'.todo = Plan[op][1].to \cap clients
  BY <1>2
<1>4. op \in Ops /\ op # "none" /\ 1 \in 1 .. Len(Plan[op])
  <2>1. op \in Ops /\ op # "none"
    BY Commands DEF Ops
  <2>2. Len(Plan[op]) \in 1 .. 5
    BY <2>1, LengthIsNat
  <2> QED BY <2>1, <2>2
<1>5. cmd' # Idle
  BY <1>3, <1>4 DEF Idle
<1>6. Effect(op, 1)
  BY <1>4, StageEffect
<1>7. /\ AtRest(ldaq) \subseteq Path[op][1]
      /\ ldaq = "RUNNING" => CccPath[op][1] /\ BuilderPath[op][1]
  BY <1>1, Ends
<1>8. /\ \A s \in Servers \ clients : state[s] = "CREATED"
      /\ up \subseteq Servers
  BY DEF TInv, Strangers, TypeOK
<1>9. \A s \in DifServers \cap clients : Along(s) \subseteq Along(s)'
  <2> TAKE s \in DifServers \cap clients
  <2>1. Along(s) = AtRest(ldaq)
    BY <1>2 DEF Along
  <2>2. Along(s)' = Path[op][1] \/ (s \notin Plan[op][1].to /\ Along(s)' = Path[op][1 + 1])
    BY <1>3, <1>5 DEF Along
  <2> QED BY <1>6, <1>7, <2>1, <2>2 DEF Effect
<1>10. Lockstep'
  BY <1>2, <1>8, <1>9 DEF Phase, Lockstep, Servers
<1>11. ASSUME NEW e \in {Ccc, Builder}, NEW path, e \in Plan[op][1].to \/ path[op][1 + 1] = path[op][1],
              ldaq = "RUNNING" => path[op][1],
              Running(e) => MayRun(e, path), Running(e)'
       PROVE  MayRun(e, path)'
  <2>1. state[e] = "RUNNING" /\ e \in up
    BY <1>2, <1>11 DEF Running
  <2>2. e \in clients /\ Running(e)
    BY <1>8, <2>1 DEF Running
  <2>3. path[op][1]
    BY <1>2, <1>11, <2>2 DEF MayRun
  <2>4. \/ MayRun(e, path)' <=> path[op][1]
        \/ e \notin Plan[op][1].to /\ (MayRun(e, path)' <=> path[op][1 + 1])
    BY <1>3, <1>5, <2>2 DEF MayRun
  <2> QED BY <1>11, <2>3, <2>4
<1>12. Quiet'
  BY <1>6, <1>7, <1>11 DEF Phase, Quiet, Effect
<1> QED BY <1>10, <1>12 DEF Phase

LEMMA PhaseNextStage ==
    ASSUME TInv, Phase, NextStage
    PROVE  Phase'
<1> DEFINE op == cmd.op
           k == cmd.stage
           to == Plan[op][k + 1].to
<1>1. cmd # Idle
  BY DEF NextStage, Idle
<1>2. /\ op \in Ops /\ op # "none" /\ k \in 1 .. Len(Plan[op])
      /\ cmd = [op |-> op, stage |-> k, todo |-> cmd.todo]
  BY <1>1, InProgress DEF TInv
<1>3. /\ cmd' = [op |-> op, stage |-> k + 1, todo |-> to \cap clients]
      /\ UNCHANGED <<ldaq, clients, state, up>>
      /\ cmd.todo = {}
  BY <1>2 DEF NextStage, Asked
<1>4. cmd'.op = op /\ cmd'.stage = k + 1 /\ cmd'.todo = to \cap clients
  BY <1>3
<1>5. cmd' # Idle
  BY <1>2, <1>4 DEF Idle
<1>6. k + 1 \in 1 .. Len(Plan[op])
  BY <1>2, LengthIsNat DEF NextStage
<1>7. Effect(op, k + 1)
  BY <1>2, <1>6, StageEffect
<1>8. /\ \A s \in Servers \ clients : state[s] = "CREATED"
      /\ up \subseteq Servers
  BY DEF TInv, Strangers, TypeOK
<1>9. ASSUME NEW s \in DifServers \cap clients
      PROVE  Along(s) \subseteq Along(s)'
  <2>1. Along(s) = Path[op][k + 1]
    BY <1>1, <1>3 DEF Along
  <2>2. CASE s \in to
    BY <1>4, <1>5, <1>9, <2>1, <2>2 DEF Along
  <2>3. CASE s \notin to
    <3>1. Along(s)' = Path[op][(k + 1) + 1]
      BY <1>4, <1>5, <2>3 DEF Along
    <3> QED BY <1>7, <2>1, <2>3, <3>1 DEF Effect
  <2> QED BY <2>2, <2>3
<1>10. Lockstep'
  BY <1>3, <1>8, <1>9 DEF Phase, Lockstep, Servers
<1>11. ASSUME NEW e \in {Ccc, Builder}, NEW path,
              e \in to \/ path[op][(k + 1) + 1] = path[op][k + 1],
              Running(e) => MayRun(e, path), Running(e)'
       PROVE  MayRun(e, path)'
  <2>1. state[e] = "RUNNING" /\ e \in up
    BY <1>3, <1>11 DEF Running
  <2>2. e \in clients /\ Running(e)
    BY <1>8, <2>1 DEF Running
  <2>3. path[op][k + 1]
    BY <1>1, <1>3, <1>11, <2>2 DEF MayRun
  <2>4. \/ MayRun(e, path)' <=> path[op][k + 1]
        \/ e \notin to /\ (MayRun(e, path)' <=> path[op][(k + 1) + 1])
    BY <1>4, <1>5, <2>2 DEF MayRun
  <2> QED BY <1>11, <2>3, <2>4
<1>12. Quiet'
  BY <1>7, <1>11 DEF Phase, Quiet, Effect
<1> QED BY <1>10, <1>12 DEF Phase

LEMMA PhaseDone ==
    ASSUME TInv, Phase, Done
    PROVE  Phase'
<1> DEFINE op == cmd.op
<1>1. cmd # Idle /\ cmd.todo = {} /\ cmd.stage = Len(Plan[op])
  BY DEF Done, Idle
<1>2. PICK x \in LDaqTable : x[1] = op /\ x[2] = ldaq /\ ldaq' = x[3]
  BY DEF Done
<1>3. cmd' = Idle /\ UNCHANGED <<state, up>>
  BY DEF Done
<1>4. /\ Path[op][Len(Plan[op]) + 1] \subseteq AtRest(ldaq')
      /\ CccPath[op][Len(Plan[op]) + 1] => ldaq' = "RUNNING"
      /\ BuilderPath[op][Len(Plan[op]) + 1] => ldaq' = "RUNNING"
  BY <1>2, Ends
<1>5. ASSUME NEW s PROVE Along(s) \subseteq Along(s)'
  <2>1. Along(s) = Path[op][Len(Plan[op]) + 1]
    BY <1>1 DEF Along
  <2>2. Along(s)' = AtRest(ldaq')
    BY <1>3 DEF Along, AtRest
  <2> QED BY <1>4, <2>1, <2>2
<1>6. Lockstep'
  BY <1>3, <1>5 DEF Phase, Lockstep
<1>7. ASSUME NEW e, NEW path, path[op][Len(Plan[op]) + 1] => ldaq' = "RUNNING",
             MayRun(e, path)
      PROVE  MayRun(e, path)'
  BY <1>1, <1>3, <1>7 DEF MayRun
<1>8. Quiet'
  BY <1>3, <1>4, <1>7 DEF Phase, Quiet, Running
<1> QED BY <1>6, <1>8 DEF Phase

LEMMA PhaseDiscover ==
    ASSUME Phase, Discover
    PROVE  Phase'
<1>1. /\ cmd = Idle /\ cmd' = Idle /\ ldaq = "CREATED" /\ ldaq' = "DISCOVERED"
      /\ UNCHANGED <<state, up>>
  BY DEF Discover
<1>2. \A s : Along(s) = {} /\ Along(s)' = {}
  BY <1>1 DEF Along, AtRest
<1>3. \A s, path : ~MayRun(s, path)
  BY <1>1 DEF MayRun
<1>4. Lockstep'
  BY <1>1, <1>2 DEF Phase, Lockstep
<1>5. Quiet'
  BY <1>1, <1>3 DEF Phase, Quiet, Running
<1> QED BY <1>4, <1>5 DEF Phase

(* Pauses, crashes and restarts.                                            *)
LEMMA PhaseElsewhere ==
    ASSUME TInv, Phase,
           \/ \E post \in {"PAUSE", "RESUME"} : Trigger(post)
           \/ \E s \in Servers : Crash(s) \/ Restart(s)
           \/ UNCHANGED vars
    PROVE  Phase'
<1>0. state \in [Servers -> ServerStates] /\ up \subseteq Servers
  BY DEF TInv, TypeOK
<1>1. ASSUME NEW post \in {"PAUSE", "RESUME"}, Trigger(post) PROVE Phase'
  <2>1. PICK v : state' = [state EXCEPT ![Mdcc] = v]
    BY <1>1 DEF Trigger
  <2>2. UNCHANGED <<ldaq, cmd, up>>
    BY <1>1 DEF Trigger
  <2>3. \A s \in up \cap (DifServers \cup {Ccc, Builder}) : state'[s] = state[s]
    BY <1>0, <2>1, Distinct
  <2> QED BY <2>2, <2>3, PhaseSame
<1>2. ASSUME NEW s \in Servers, Crash(s) PROVE Phase'
  <2>1. UNCHANGED <<ldaq, cmd, state>> /\ up' \subseteq up
    BY <1>2 DEF Crash
  <2> QED BY <2>1, PhaseSame
<1>3. ASSUME NEW s \in Servers, Restart(s) PROVE Phase'
  <2>1. /\ UNCHANGED <<ldaq, cmd>>
        /\ up' = up \cup {s} /\ state' = [state EXCEPT ![s] = "CREATED"]
    BY <1>3 DEF Restart
  <2>2. \A e \in up' : (e \in up /\ state'[e] = state[e]) \/ state'[e] = "CREATED"
    BY <1>0, <2>1
  <2> QED BY <2>1, <2>2, PhaseSame
<1>4. CASE UNCHANGED vars
  <2>1. UNCHANGED <<ldaq, cmd, state, up>>
    BY <1>4 DEF vars
  <2> QED BY <2>1, PhaseSame
<1> QED BY <1>1, <1>2, <1>3, <1>4

-----------------------------------------------------------------------------
(* The theorems. *)

LEMMA PhaseInitially == Init => Phase
<1> SUFFICES ASSUME Init PROVE Phase
  OBVIOUS
<1>1. \A s \in Servers : state[s] = "CREATED"
  BY DEF Init
<1> QED BY <1>1 DEF Phase, Lockstep, Quiet, Running, Servers, Others

LEMMA PhaseKept == TInv /\ Phase /\ [Next]_vars => Phase'
<1> SUFFICES ASSUME TInv, Phase, [Next]_vars PROVE Phase'
  OBVIOUS
<1>1. ASSUME NEW s \in DifServers, PostDif(s) PROVE Phase'
  BY <1>1, PhaseAnswered DEF PostDif, Servers
<1>2. CASE PostDb
  BY <1>2, PhaseAnswered DEF PostDb, Servers, Others
<1>3. CASE PostBuilder
  BY <1>3, PhaseAnswered DEF PostBuilder, Servers, Others
<1>4. CASE PostCard
  BY <1>4, PhaseAnswered DEF PostCard, Servers, Others
<1> QED BY <1>1, <1>2, <1>3, <1>4, PhaseDiscover, PhaseCommand, PhaseNextStage,
           PhaseDone, PhaseElsewhere DEF Next

LEMMA IInvHolds == Spec => []IInv
<1>1. Init => IInv
  BY TypesInitially, PhaseInitially DEF IInv, Phase
<1>2. IInv /\ [Next]_vars => IInv'
  BY TypesKept, PhaseKept DEF IInv, Phase
<1> QED BY <1>1, <1>2, PTL DEF Spec

LEMMA StopQuiets == IInv => QuietWhenStopped
<1> SUFFICES ASSUME IInv, cmd = Idle, ldaq # "RUNNING",
                    NEW s \in DifServers \cup {Ccc, Builder}, Running(s)
             PROVE  FALSE
  BY DEF QuietWhenStopped
<1>1. CASE s \in DifServers
  <2>1. state[s] \in AtRest(ldaq) \cup {"CREATED"} /\ state[s] = "RUNNING"
    BY <1>1 DEF IInv, Lockstep, Along, Running
  <2> QED BY <2>1 DEF AtRest, Set
<1>2. CASE s \in {Ccc, Builder}
  BY <1>2 DEF IInv, Quiet, MayRun
<1> QED BY <1>1, <1>2

(* When the run control is at rest and not RUNNING, nothing that it started *)
(* runs, whatever crashed, came back or refused a post on the way (LDaq::stop *)
(* and the stages of every other command).                                  *)
THEOREM QuietAfterStop == Spec => []QuietWhenStopped
  BY StopQuiets, IInvHolds, PTL

(* Whenever the run control is ready for INITIALISE every DIF server is in  *)
(* CREATED, the state from which it accepts SCAN (LDaq::destroy).           *)
THEOREM AlwaysReadyToScan == Spec => []ReadyToScan
<1>1. IInv => ReadyToScan
  <2> SUFFICES ASSUME IInv, cmd = Idle, ldaq \in {"DISCOVERED", "PREPARED"},
                      NEW s \in DifServers \cap up
               PROVE  state[s] = "CREATED"
    BY DEF ReadyToScan
  <2>1. state[s] \in AtRest(ldaq) \cup {"CREATED"}
    BY DEF IInv, Lockstep, Along
  <2> QED BY <2>1 DEF AtRest
<1> QED BY <1>1, IInvHolds, PTL
-----------------------------------------------------------------------------
(* A cycle from PREPARE without a fault.  Everybody is up and found, and    *)
(* then every answer puts its server exactly where the plan wants it: the   *)
(* states before each stage of a command and after its last one.            *)
Fresh == {"CREATED"}
DifTight ==
    [PREPARE |-> << Fresh, Fresh, Fresh, Fresh, Fresh, Fresh >>,
     INITIALISE |-> << Fresh, Fresh, Fresh, {"SCANNED"}, {"INITIALISED"}, {"INITIALISED"} >>,
     CONFIGURE |-> << Set \cup {"INITIALISED"}, {"DBREGISTERED", "STOPPED"},
                      {"CONFIGURED"}, {"CONFIGURED"}, {"CONFIGURED"} >>,
     START |-> << Set, Set, {"RUNNING"}, {"RUNNING"}, {"RUNNING"}, {"RUNNING"} >>,
     STOP |-> << {"RUNNING"}, {"RUNNING"}, {"RUNNING"}, {"STOPPED"}, {"STOPPED"},
                 {"STOPPED"} >>,
     DESTROY |-> << Set, Fresh >>]
DifRest ==
    [CREATED |-> ServerStates, DISCOVERED |-> ServerStates, PREPARED |-> Fresh,
     INITIALISED |-> {"INITIALISED"}, CONFIGURED |-> Set, RUNNING |-> {"RUNNING"}]

(* Whatever a cycle without a fault finds, PREPARE opens the clock card and *)
(* initialises it and the builder, unless they are past that.               *)
Opened == {"OPENED", "INITIALISED", "CONFIGURED"}
Ready == {"INITIALISED", "CONFIGURED"}
Conf == {"CONFIGURED"}
Runs == {"RUNNING"}
CccTight ==
    [PREPARE |-> << Opened \cup Fresh, Opened \cup Fresh, Opened, Ready, Ready, Ready >>,
     INITIALISE |-> << Ready, Conf, Conf, Conf, Conf, Conf >>,
     CONFIGURE |-> << Conf, Conf, Conf, Conf, Conf >>,
     START |-> << Conf, Conf, Conf, Conf, Runs, Runs >>,
     STOP |-> << Runs, Runs, Conf, Conf, Conf, Conf >>,
     DESTROY |-> << Conf, Conf >>]
CccRest ==
    [CREATED |-> ServerStates, DISCOVERED |-> ServerStates, PREPARED |-> Ready,
     INITIALISED |-> Conf, CONFIGURED |-> Conf, RUNNING |-> Runs]
BuilderTight ==
    [PREPARE |-> << Ready \cup Fresh, Ready \cup Fresh, Ready \cup Fresh, Ready \cup Fresh,
                    Ready \cup Fresh, Ready >>,
     INITIALISE |-> << Ready, Ready, Ready, Ready, Ready, Ready >>,
     CONFIGURE |-> << Ready, Ready, Ready, Ready, Conf >>,
     START |-> << Conf, Conf, Conf, Runs, Runs, Runs >>,
     STOP |-> << Runs, Runs, Runs, Runs, Conf, Conf >>,
     DESTROY |-> << Conf, Conf >>]
BuilderRest ==
    [CREATED |-> ServerStates, DISCOVERED |-> ServerStates, PREPARED |-> Ready,
     INITIALISED |-> Ready, CONFIGURED |-> Conf, RUNNING |-> Runs]

InPlace(S, path, rest) ==
    \A s \in S :
        state[s] \in IF cmd = Idle THEN rest[ldaq]
                     ELSE IF s \in cmd.todo THEN path[cmd.op][cmd.stage]
                     ELSE path[cmd.op][cmd.stage + 1]

Placed ==
    /\ up = Servers /\ clients = Servers
    /\ InPlace(DifServers, DifTight, DifRest)
    /\ InPlace({Ccc}, CccTight, CccRest)
    /\ InPlace({Builder}, BuilderTight, BuilderRest)

Whole == clean # "none" => Placed

(* The states that the clock card and the builder have at all.              *)
Ranges ==
    /\ state[Ccc] \in Opened \cup Fresh \cup Runs
    /\ state[Builder] \in Ready \cup Fresh \cup Runs

(* The builder has been started with the run number that LDaq reports.      *)
BuilderStarted ==
    \/ ldaq = "RUNNING"
    \/ cmd.op = "START" /\ (cmd.stage > 3 \/ (cmd.stage = 3 /\ Builder \notin cmd.todo))
Reported ==
    clean # "none" /\ BuilderStarted => runs # << >> /\ runs[Len(runs)] = run

(* An answer that is in place before a stage is in place after it; a class  *)
(* of servers gets the post of a stage as a whole or not at all.            *)
Follows(S, table, path, op, k) ==
    \/ Plan[op][k].to \cap S = {} /\ path[op][k + 1] = path[op][k]
    \/ /\ S \subseteq Plan[op][k].to
       /\ \A v \in path[op][k], w \in ServerStates :
            Past(table, Plan[op][k].post, v, w) => w \in path[op][k + 1]

LEMMA DifFollows ==
    ASSUME NEW op \in Ops, NEW k \in 1 .. Len(Plan[op])
    PROVE  Follows(DifServers, DifTable, DifTight, op, k)
<1>1. CASE op = "PREPARE"
  <2>0. k \in 1 .. 5
    BY <1>1, Lengths
  <2>1. CASE k = 1
    BY <1>1, <2>1, PrepareStages, Distinct
       DEF Follows, Stage, Past, DifTight, DifTable, DifStarts, Set, Fresh
  <2>2. CASE k = 2
    BY <1>1, <2>2, PrepareStages, Distinct
       DEF Follows, Stage, Past, DifTight, DifTable, DifStarts, Set, Fresh
  <2>3. CASE k = 3
    BY <1>1, <2>3, PrepareStages, Distinct
       DEF Follows, Stage, Past, DifTight, DifTable, DifStarts, Set, Fresh
  <2>4. CASE k = 4
    BY <1>1, <2>4, PrepareStages, Distinct
       DEF Follows, Stage, Past, DifTight, DifTable, DifStarts, Set, Fresh
  <2>5. CASE k = 5
    BY <1>1, <2>5, PrepareStages, Distinct
       DEF Follows, Stage, Past, DifTight, DifTable, DifStarts, Set, Fresh
  <2> QED BY <2>0, <2>1, <2>2, <2>3, <2>4, <2>5
<1>2. CASE op = "INITIALISE"
  <2>0. k \in 1 .. 5
    BY <1>2, Lengths
  <2>1. CASE k = 1
    BY <1>2, <2>1, InitialiseStages, Distinct
       DEF Follows, Stage, Past, DifTight, DifTable, DifStarts, Set, Fresh
  <2>2. CASE k = 2
    BY <1>2, <2>2, InitialiseStages, Distinct
       DEF Follows, Stage, Past, DifTight, DifTable, DifStarts, Set, Fresh
  <2>3. CASE k = 3
    BY <1>2, <2>3, InitialiseStages, Distinct
       DEF Follows, Stage, Past, DifTight, DifTable, DifStarts, Set, Fresh
  <2>4. CASE k = 4
    BY <1>2, <2>4, InitialiseStages, Distinct
       DEF Follows, Stage, Past, DifTight, DifTable, DifStarts, Set, Fresh
  <2>5. CASE k = 5
    BY <1>2, <2>5, InitialiseStages, Distinct
       DEF Follows, Stage, Past, DifTight, DifTable, DifStarts, Set, Fresh
  <2> QED BY <2>0, <2>1, <2>2, <2>3, <2>4, <2>5
<1>3. CASE op = "CONFIGURE"
  <2>0. k \in 1 .. 4
    BY <1>3, Lengths
  <2>1. CASE k = 1
    BY <1>3, <2>1, ConfigureStages, Distinct
       DEF Follows, Stage, Past, DifTight, DifTable, DifStarts, Set, Fresh
  <2>2. CASE k = 2
    BY <1>3, <2>2, ConfigureStages, Distinct
       DEF Follows, Stage, Past, DifTight, DifTable, DifStarts, Set, Fresh
  <2>3. CASE k = 3
    BY <1>3, <2>3, ConfigureStages, Distinct
       DEF Follows, Stage, Past, DifTight, DifTable, DifStarts, Set, Fresh
  <2>4. CASE k = 4
    BY <1>3, <2>4, ConfigureStages, Distinct
       DEF Follows, Stage, Past, DifTight, DifTable, DifStarts, Set, Fresh
  <2> QED BY <2>0, <2>1, <2>2, <2>3, <2>4
<1>4. CASE op = "START"
  <2>0. k \in 1 .. 5
    BY <1>4, Lengths
  <2>1. CASE k = 1
    BY <1>4, <2>1, StartStages, Distinct
       DEF Follows, Stage, Past, DifTight, DifTable, DifStarts, Set, Fresh
  <2>2. CASE k = 2
    BY <1>4, <2>2, StartStages, Distinct
       DEF Follows, Stage, Past, DifTight, DifTable, DifStarts, Set, Fresh
  <2>3. CASE k = 3
    BY <1>4, <2>3, StartStages, Distinct
       DEF Follows, Stage, Past, DifTight, DifTable, DifStarts, Set, Fresh
  <2>4. CASE k = 4
    BY <1>4, <2>4, StartStages, Distinct
       DEF Follows, Stage, Past, DifTight, DifTable, DifStarts, Set, Fresh
  <2>5. CASE k = 5
    BY <1>4, <2>5, StartStages, Distinct
       DEF Follows, Stage, Past, DifTight, DifTable, DifStarts, Set, Fresh
  <2> QED BY <2>0, <2>1, <2>2, <2>3, <2>4, <2>5
<1>5. CASE op = "STOP"
  <2>0. k \in 1 .. 5
    BY <1>5, Lengths
  <2>1. CASE k = 1
    BY <1>5, <2>1, StopStages, Distinct
       DEF Follows, Stage, Past, DifTight, DifTable, DifStarts, Set, Fresh
  <2>2. CASE k = 2
    BY <1>5, <2>2, StopStages, Distinct
       DEF Follows, Stage, Past, DifTight, DifTable, DifStarts, Set, Fresh
  <2>3. CASE k = 3
    BY <1>5, <2>3, StopStages, Distinct
       DEF Follows, Stage, Past, DifTight, DifTable, DifStarts, Set, Fresh
  <2>4. CASE k = 4
    BY <1>5, <2>4, StopStages, Distinct
       DEF Follows, Stage, Past, DifTight, DifTable, DifStarts, Set, Fresh
  <2>5. CASE k = 5
    BY <1>5, <2>5, StopStages, Distinct
       DEF Follows, Stage, Past, DifTight, DifTable, DifStarts, Set, Fresh
  <2> QED BY <2>0, <2>1, <2>2, <2>3, <2>4, <2>5
<1>6. CASE op = "DESTROY"
  <2>0. k \in 1 .. 1
    BY <1>6, Lengths
  <2>1. CASE k = 1
    BY <1>6, <2>1, DestroyStages, Distinct
       DEF Follows, Stage, Past, DifTight, DifTable, DifStarts, Set, Fresh
  <2> QED BY <2>0, <2>1
<1> QED BY <1>1, <1>2, <1>3, <1>4, <1>5, <1>6 DEF Ops

LEMMA CccFollows ==
    ASSUME NEW op \in Ops, NEW k \in 1 .. Len(Plan[op])
    PROVE  Follows({Ccc}, CccTable, CccTight, op, k)
<1>1. CASE op = "PREPARE"
  <2>0. k \in 1 .. 5
    BY <1>1, Lengths
  <2>1. CASE k = 1
    BY <1>1, <2>1, PrepareStages, Distinct
       DEF Follows, Stage, Past, CccTight, CccTable, Opened, Ready, Conf, Runs, Fresh
  <2>2. CASE k = 2
    BY <1>1, <2>2, PrepareStages, Distinct
       DEF Follows, Stage, Past, CccTight, CccTable, Opened, Ready, Conf, Runs, Fresh
  <2>3. CASE k = 3
    BY <1>1, <2>3, PrepareStages, Distinct
       DEF Follows, Stage, Past, CccTight, CccTable, Opened, Ready, Conf, Runs, Fresh
  <2>4. CASE k = 4
    BY <1>1, <2>4, PrepareStages, Distinct
       DEF Follows, Stage, Past, CccTight, CccTable, Opened, Ready, Conf, Runs, Fresh
  <2>5. CASE k = 5
    BY <1>1, <2>5, PrepareStages, Distinct
       DEF Follows, Stage, Past, CccTight, CccTable, Opened, Ready, Conf, Runs, Fresh
  <2> QED BY <2>0, <2>1, <2>2, <2>3, <2>4, <2>5
<1>2. CASE op = "INITIALISE"
  <2>0. k \in 1 .. 5
    BY <1>2, Lengths
  <2>1. CASE k = 1
    BY <1>2, <2>1, InitialiseStages, Distinct
       DEF Follows, Stage, Past, CccTight, CccTable, Opened, Ready, Conf, Runs, Fresh
  <2>2. CASE k = 2
    BY <1>2, <2>2, InitialiseStages, Distinct
       DEF Follows, Stage, Past, CccTight, CccTable, Opened, Ready, Conf, Runs, Fresh
  <2>3. CASE k = 3
    BY <1>2, <2>3, InitialiseStages, Distinct
       DEF Follows, Stage, Past, CccTight, CccTable, Opened, Ready, Conf, Runs, Fresh
  <2>4. CASE k = 4
    BY <1>2, <2>4, InitialiseStages, Distinct
       DEF Follows, Stage, Past, CccTight, CccTable, Opened, Ready, Conf, Runs, Fresh
  <2>5. CASE k = 5
    BY <1>2, <2>5, InitialiseStages, Distinct
       DEF Follows, Stage, Past, CccTight, CccTable, Opened, Ready, Conf, Runs, Fresh
  <2> QED BY <2>0, <2>1, <2>2, <2>3, <2>4, <2>5
<1>3. CASE op = "CONFIGURE"
  <2>0. k \in 1 .. 4
    BY <1>3, Lengths
  <2>1. CASE k = 1
    BY <1>3, <2>1, ConfigureStages, Distinct
       DEF Follows, Stage, Past, CccTight, CccTable, Opened, Ready, Conf, Runs, Fresh
  <2>2. CASE k = 2
    BY <1>3, <2>2, ConfigureStages, Distinct
       DEF Follows, Stage, Past, CccTight, CccTable, Opened, Ready, Conf, Runs, Fresh
  <2>3. CASE k = 3
    BY <1>3, <2>3, ConfigureStages, Distinct
       DEF Follows, Stage, Past, CccTight, CccTable, Opened, Ready, Conf, Runs, Fresh
  <2>4. CASE k = 4
    BY <1>3, <2>4, ConfigureStages, Distinct
       DEF Follows, Stage, Past, CccTight, CccTable, Opened, Ready, Conf, Runs, Fresh
  <2> QED BY <2>0, <2>1, <2>2, <2>3, <2>4
<1>4. CASE op = "START"
  <2>0. k \in 1 .. 5
    BY <1>4, Lengths
  <2>1. CASE k = 1
    BY <1>4, <2>1, StartStages, Distinct
       DEF Follows, Stage, Past, CccTight, CccTable, Opened, Ready, Conf, Runs, Fresh
  <2>2. CASE k = 2
    BY <1>4, <2>2, StartStages, Distinct
       DEF Follows, Stage, Past, CccTight, CccTable, Opened, Ready, Conf, Runs, Fresh
  <2>3. CASE k = 3
    BY <1>4, <2>3, StartStages, Distinct
       DEF Follows, Stage, Past, CccTight, CccTable, Opened, Ready, Conf, Runs, Fresh
  <2>4. CASE k = 4
    BY <1>4, <2>4, StartStages, Distinct
       DEF Follows, Stage, Past, CccTight, CccTable, Opened, Ready, Conf, Runs, Fresh
  <2>5. CASE k = 5
    BY <1>4, <2>5, StartStages, Distinct
       DEF Follows, Stage, Past, CccTight, CccTable, Opened, Ready, Conf, Runs, Fresh
  <2> QED BY <2>0, <2>1, <2>2, <2>3, <2>4, <2>5
<1>5. CASE op = "STOP"
  <2>0. k \in 1 .. 5
    BY <1>5, Lengths
  <2>1. CASE k = 1
    BY <1>5, <2>1, StopStages, Distinct
       DEF Follows, Stage, Past, CccTight, CccTable, Opened, Ready, Conf, Runs, Fresh
  <2>2. CASE k = 2
    BY <1>5, <2>2, StopStages, Distinct
       DEF Follows, Stage, Past, CccTight, CccTable, Opened, Ready, Conf, Runs, Fresh
  <2>3. CASE k = 3
    BY <1>5, <2>3, StopStages, Distinct
       DEF Follows, Stage, Past, CccTight, CccTable, Opened, Ready, Conf, Runs, Fresh
  <2>4. CASE k = 4
    BY <1>5, <2>4, StopStages, Distinct
       DEF Follows, Stage, Past, CccTight, CccTable, Opened, Ready, Conf, Runs, Fresh
  <2>5. CASE k = 5
    BY <1>5, <2>5, StopStages, Distinct
       DEF Follows, Stage, Past, CccTight, CccTable, Opened, Ready, Conf, Runs, Fresh
  <2> QED BY <2>0, <2>1, <2>2, <2>3, <2>4, <2>5
<1>6. CASE op = "DESTROY"
  <2>0. k \in 1 .. 1
    BY <1>6, Lengths
  <2>1. CASE k = 1
    BY <1>6, <2>1, DestroyStages, Distinct
       DEF Follows, Stage, Past, CccTight, CccTable, Opened, Ready, Conf, Runs, Fresh
  <2> QED BY <2>0, <2>1
<1> QED BY <1>1, <1>2, <1>3, <1>4, <1>5, <1>6 DEF Ops

LEMMA BuilderFollows ==
    ASSUME NEW op \in Ops, NEW k \in 1 .. Len(Plan[op])
    PROVE  Follows({Builder}, BuilderTable, BuilderTight, op, k)
<1>1. CASE op = "PREPARE"
  <2>0. k \in 1 .. 5
    BY <1>1, Lengths
  <2>1. CASE k = 1
    BY <1>1, <2>1, PrepareStages, Distinct
       DEF Follows, Stage, Past, BuilderTight, BuilderTable, Ready, Conf, Runs, Fresh
  <2>2. CASE k = 2
    BY <1>1, <2>2, PrepareStages, Distinct
       DEF Follows, Stage, Past, BuilderTight, BuilderTable, Ready, Conf, Runs, Fresh
  <2>3. CASE k = 3
    BY <1>1, <2>3, PrepareStages, Distinct
       DEF Follows, Stage, Past, BuilderTight, BuilderTable, Ready, Conf, Runs, Fresh
  <2>4. CASE k = 4
    BY <1>1, <2>4, PrepareStages, Distinct
       DEF Follows, Stage, Past, BuilderTight, BuilderTable, Ready, Conf, Runs, Fresh
  <2>5. CASE k = 5
    BY <1>1, <2>5, PrepareStages, Distinct
       DEF Follows, Stage, Past, BuilderTight, BuilderTable, Ready, Conf, Runs, Fresh
  <2> QED BY <2>0, <2>1, <2>2, <2>3, <2>4, <2>5
<1>2. CASE op = "INITIALISE"
  <2>0. k \in 1 .. 5
    BY <1>2, Lengths
  <2>1. CASE k = 1
    BY <1>2, <2>1, InitialiseStages, Distinct
       DEF Follows, Stage, Past, BuilderTight, BuilderTable, Ready, Conf, Runs, Fresh
  <2>2. CASE k = 2
    BY <1>2, <2>2, InitialiseStages, Distinct
       DEF Follows, Stage, Past, BuilderTight, BuilderTable, Ready, Conf, Runs, Fresh
  <2>3. CASE k = 3
    BY <1>2, <2>3, InitialiseStages, Distinct
       DEF Follows, Stage, Past, BuilderTight, BuilderTable, Ready, Conf, Runs, Fresh
  <2>4. CASE k = 4
    BY <1>2, <2>4, InitialiseStages, Distinct
       DEF Follows, Stage, Past, BuilderTight, BuilderTable, Ready, Conf, Runs, Fresh
  <2>5. CASE k = 5
    BY <1>2, <2>5, InitialiseStages, Distinct
       DEF Follows, Stage, Past, BuilderTight, BuilderTable, Ready, Conf, Runs, Fresh
  <2> QED BY <2>0, <2>1, <2>2, <2>3, <2>4, <2>5
<1>3. CASE op = "CONFIGURE"
  <2>0. k \in 1 .. 4
    BY <1>3, Lengths
  <2>1. CASE k = 1
    BY <1>3, <2>1, ConfigureStages, Distinct
       DEF Follows, Stage, Past, BuilderTight, BuilderTable, Ready, Conf, Runs, Fresh
  <2>2. CASE k = 2
    BY <1>3, <2>2, ConfigureStages, Distinct
       DEF Follows, Stage, Past, BuilderTight, BuilderTable, Ready, Conf, Runs, Fresh
  <2>3. CASE k = 3
    BY <1>3, <2>3, ConfigureStages, Distinct
       DEF Follows, Stage, Past, BuilderTight, BuilderTable, Ready, Conf, Runs, Fresh
  <2>4. CASE k = 4
    BY <1>3, <2>4, ConfigureStages, Distinct
       DEF Follows, Stage, Past, BuilderTight, BuilderTable, Ready, Conf, Runs, Fresh
  <2> QED BY <2>0, <2>1, <2>2, <2>3, <2>4
<1>4. CASE op = "START"
  <2>0. k \in 1 .. 5
    BY <1>4, Lengths
  <2>1. CASE k = 1
    BY <1>4, <2>1, StartStages, Distinct
       DEF Follows, Stage, Past, BuilderTight, BuilderTable, Ready, Conf, Runs, Fresh
  <2>2. CASE k = 2
    BY <1>4, <2>2, StartStages, Distinct
       DEF Follows, Stage, Past, BuilderTight, BuilderTable, Ready, Conf, Runs, Fresh
  <2>3. CASE k = 3
    BY <1>4, <2>3, StartStages, Distinct
       DEF Follows, Stage, Past, BuilderTight, BuilderTable, Ready, Conf, Runs, Fresh
  <2>4. CASE k = 4
    BY <1>4, <2>4, StartStages, Distinct
       DEF Follows, Stage, Past, BuilderTight, BuilderTable, Ready, Conf, Runs, Fresh
  <2>5. CASE k = 5
    BY <1>4, <2>5, StartStages, Distinct
       DEF Follows, Stage, Past, BuilderTight, BuilderTable, Ready, Conf, Runs, Fresh
  <2> QED BY <2>0, <2>1, <2>2, <2>3, <2>4, <2>5
<1>5. CASE op = "STOP"
  <2>0. k \in 1 .. 5
    BY <1>5, Lengths
  <2>1. CASE k = 1
    BY <1>5, <2>1, StopStages, Distinct
       DEF Follows, Stage, Past, BuilderTight, BuilderTable, Ready, Conf, Runs, Fresh
  <2>2. CASE k = 2
    BY <1>5, <2>2, StopStages, Distinct
       DEF Follows, Stage, Past, BuilderTight, BuilderTable, Ready, Conf, Runs, Fresh
  <2>3. CASE k = 3
    BY <1>5, <2>3, StopStages, Distinct
       DEF Follows, Stage, Past, BuilderTight, BuilderTable, Ready, Conf, Runs, Fresh
  <2>4. CASE k = 4
    BY <1>5, <2>4, StopStages, Distinct
       DEF Follows, Stage, Past, BuilderTight, BuilderTable, Ready, Conf, Runs, Fresh
  <2>5. CASE k = 5
    BY <1>5, <2>5, StopStages, Distinct
       DEF Follows, Stage, Past, BuilderTight, BuilderTable, Ready, Conf, Runs, Fresh
  <2> QED BY <2>0, <2>1, <2>2, <2>3, <2>4, <2>5
<1>6. CASE op = "DESTROY"
  <2>0. k \in 1 .. 1
    BY <1>6, Lengths
  <2>1. CASE k = 1
    BY <1>6, <2>1, DestroyStages, Distinct
       DEF Follows, Stage, Past, BuilderTight, BuilderTable, Ready, Conf, Runs, Fresh
  <2> QED BY <2>0, <2>1
<1> QED BY <1>1, <1>2, <1>3, <1>4, <1>5, <1>6 DEF Ops

(* Where a command begins and ends. *)
Fits(path, rest, x) ==
    /\ x[1] # "PREPARE" => rest[x[2]] \subseteq path[x[1]][1]
    /\ path[x[1]][Len(Plan[x[1]]) + 1] \subseteq rest[x[3]]

LEMMA AllFit ==
    ASSUME NEW x \in LDaqTable
    PROVE  /\ Fits(DifTight, DifRest, x)
           /\ Fits(CccTight, CccRest, x)
           /\ Fits(BuilderTight, BuilderRest, x)
<1>1. CASE x = <<"PREPARE", "DISCOVERED", "PREPARED">>
  <2>1. /\ x[1] = "PREPARE" /\ x[2] = "DISCOVERED" /\ x[3] = "PREPARED"
        /\ Len(Plan["PREPARE"]) + 1 = 6
    BY <1>1, Lengths
  <2> QED BY <2>1 DEF Fits, DifTight, DifRest, CccTight, CccRest, BuilderTight, BuilderRest,
                     Set, Fresh, Opened, Ready, Conf, Runs
<1>2. CASE x = <<"PREPARE", "PREPARED", "PREPARED">>
  <2>1. /\ x[1] = "PREPARE" /\ x[2] = "PREPARED" /\ x[3] = "PREPARED"
        /\ Len(Plan["PREPARE"]) + 1 = 6
    BY <1>2, Lengths
  <2> QED BY <2>1 DEF Fits, DifTight, DifRest, CccTight, CccRest, BuilderTight, BuilderRest,
                     Set, Fresh, Opened, Ready, Conf, Runs
<1>3. CASE x = <<"INITIALISE", "PREPARED", "INITIALISED">>
  <2>1. /\ x[1] = "INITIALISE" /\ x[2] = "PREPARED" /\ x[3] = "INITIALISED"
        /\ Len(Plan["INITIALISE"]) + 1 = 6
    BY <1>3, Lengths
  <2> QED BY <2>1 DEF Fits, DifTight, DifRest, CccTight, CccRest, BuilderTight, BuilderRest,
                     Set, Fresh, Opened, Ready, Conf, Runs
<1>4. CASE x = <<"CONFIGURE", "INITIALISED", "CONFIGURED">>
  <2>1. /\ x[1] = "CONFIGURE" /\ x[2] = "INITIALISED" /\ x[3] = "CONFIGURED"
        /\ Len(Plan["CONFIGURE"]) + 1 = 5
    BY <1>4, Lengths
  <2> QED BY <2>1 DEF Fits, DifTight, DifRest, CccTight, CccRest, BuilderTight, BuilderRest,
                     Set, Fresh, Opened, Ready, Conf, Runs
<1>5. CASE x = <<"CONFIGURE", "CONFIGURED", "CONFIGURED">>
  <2>1. /\ x[1] = "CONFIGURE" /\ x[2] = "CONFIGURED" /\ x[3] = "CONFIGURED"
        /\ Len(Plan["CONFIGURE"]) + 1 = 5
    BY <1>5, Lengths
  <2> QED BY <2>1 DEF Fits, DifTight, DifRest, CccTight, CccRest, BuilderTight, BuilderRest,
                     Set, Fresh, Opened, Ready, Conf, Runs
<1>6. CASE x = <<"START", "CONFIGURED", "RUNNING">>
  <2>1. /\ x[1] = "START" /\ x[2] = "CONFIGURED" /\ x[3] = "RUNNING"
        /\ Len(Plan["START"]) + 1 = 6
    BY <1>6, Lengths
  <2> QED BY <2>1 DEF Fits, DifTight, DifRest, CccTight, CccRest, BuilderTight, BuilderRest,
                     Set, Fresh, Opened, Ready, Conf, Runs
<1>7. CASE x = <<"STOP", "RUNNING", "CONFIGURED">>
  <2>1. /\ x[1] = "STOP" /\ x[2] = "RUNNING" /\ x[3] = "CONFIGURED"
        /\ Len(Plan["STOP"]) + 1 = 6
    BY <1>7, Lengths
  <2> QED BY <2>1 DEF Fits, DifTight, DifRest, CccTight, CccRest, BuilderTight, BuilderRest,
                     Set, Fresh, Opened, Ready, Conf, Runs
<1>8. CASE x = <<"DESTROY", "CONFIGURED", "PREPARED">>
  <2>1. /\ x[1] = "DESTROY" /\ x[2] = "CONFIGURED" /\ x[3] = "PREPARED"
        /\ Len(Plan["DESTROY"]) + 1 = 2
    BY <1>8, Lengths
  <2> QED BY <2>1 DEF Fits, DifTight, DifRest, CccTight, CccRest, BuilderTight, BuilderRest,
                     Set, Fresh, Opened, Ready, Conf, Runs
<1> QED BY <1>1, <1>2, <1>3, <1>4, <1>5, <1>6, <1>7, <1>8 DEF LDaqTable, Destroys

LEMMA Shares ==
    ASSUME NEW S, S = DifServers \/ S = {Ccc} \/ S = {Builder}
    PROVE  S \subseteq Servers /\ S \subseteq DifServers \cup {Ccc, Builder}
  BY DEF Servers, Others

LEMMA InPlaceAnswered ==
    ASSUME TInv, up = Servers, NEW s \in Servers, Answered(s),
           NEW S \in SUBSET Servers, NEW table, NEW path, NEW rest,
           \A e \in S : Table(e) = table,
           \A op \in Ops : \A k \in 1 .. Len(Plan[op]) : Follows(S, table, path, op, k),
           InPlace(S, path, rest)
    PROVE  InPlace(S, path, rest)'
<1> DEFINE op == cmd.op
           k == cmd.stage
           post == Plan[op][k].post
<1>1. /\ cmd # Idle /\ cmd' # Idle
      /\ cmd'.op = op /\ cmd'.stage = k /\ cmd'.todo = cmd.todo \ {s}
      /\ s \in Plan[op][k].to
      /\ state' = [state EXCEPT ![s] = After(s, post)]
  BY Answering DEF Now
<1>2. /\ op \in Ops /\ k \in 1 .. Len(Plan[op]) /\ s \in cmd.todo
      /\ cmd.todo \subseteq Plan[op][k].to
  BY <1>1, InProgress DEF TInv, Answered, Now
<1>3. state \in [Servers -> ServerStates]
  BY DEF TInv, TypeOK
<1>4. /\ After(s, post) \in ServerStates
      /\ Past(Table(s), post, state[s], After(s, post))
  BY <1>3, AfterIs
<1>5. state'[s] = After(s, post) /\ \A e \in Servers \ {s} : state'[e] = state[e]
  BY <1>1, <1>3
<1>6. Follows(S, table, path, op, k)
  BY <1>2
<1>7. ASSUME NEW e \in S
      PROVE  state'[e] \in IF e \in cmd'.todo THEN path[op][k] ELSE path[op][k + 1]
  <2>1. state[e] \in IF e \in cmd.todo THEN path[op][k] ELSE path[op][k + 1]
    BY <1>1 DEF InPlace
  <2>2. CASE e = s
    <3>1. e \in cmd.todo /\ e \notin cmd'.todo /\ e \in Plan[op][k].to \cap S
      BY <1>1, <1>2, <2>2
    <3>2. Past(table, post, state[e], state'[e]) /\ state'[e] \in ServerStates
      BY <1>4, <1>5, <2>2
    <3>3. \A v \in path[op][k], w \in ServerStates :
            Past(table, post, v, w) => w \in path[op][k + 1]
      BY <1>6, <3>1 DEF Follows
    <3> QED BY <2>1, <3>1, <3>2, <3>3
  <2>3. CASE e # s
    BY <1>1, <1>5, <2>1, <2>3
  <2> QED BY <2>2, <2>3
<1> QED BY <1>1, <1>7 DEF InPlace

(* The first stage of a command, or the next one.                           *)
LEMMA InPlaceStage ==
    ASSUME clients = Servers, NEW op \in Ops, NEW k \in 1 .. Len(Plan[op]),
           cmd' = [op |-> op, stage |-> k, todo |-> Plan[op][k].to \cap clients],
           state' = state, op # "none",
           NEW S \in SUBSET Servers, NEW table, NEW path, NEW rest,
           Follows(S, table, path, op, k),
           \A e \in S : state[e] \in path[op][k]
    PROVE  InPlace(S, path, rest)'
<1>1. /\ cmd'.op = op /\ cmd'.stage = k /\ cmd'.todo = Plan[op][k].to \cap clients
  OBVIOUS
<1>2. cmd' # Idle
  BY <1>1 DEF Idle
<1>3. ASSUME NEW e \in S
      PROVE  state[e] \in IF e \in cmd'.todo THEN path[op][k] ELSE path[op][k + 1]
  BY <1>1 DEF Follows
<1> QED BY <1>1, <1>2, <1>3 DEF InPlace

LEMMA InPlaceCommand ==
    ASSUME clients = Servers, NEW op \in Ops, Command(op), op # "PREPARE",
           NEW S \in SUBSET Servers, NEW table, NEW path, NEW rest,
           \A k \in 1 .. Len(Plan[op]) : Follows(S, table, path, op, k),
           \A x \in LDaqTable : Fits(path, rest, x),
           InPlace(S, path, rest)
    PROVE  InPlace(S, path, rest)'
<1>1. PICK x \in LDaqTable : x[1] = op /\ x[2] = ldaq
  BY DEF Command
<1>2. /\ cmd = Idle /\ state' = state
      /\ cmd' = [op |-> op, stage |-> 1, todo |-> Plan[op][1].to \cap clients]
  BY DEF Command, Asked
<1>3. \A e \in S : state[e] \in path[op][1]
  BY <1>1, <1>2 DEF InPlace, Fits
<1>4. 1 \in 1 .. Len(Plan[op]) /\ op # "none"
  <2>1. Len(Plan[op]) \in 1 .. 5
    BY LengthIsNat
  <2>2. op # "none"
    BY DEF Ops
  <2> QED BY <2>1, <2>2
<1> QED BY <1>2, <1>3, <1>4, InPlaceStage

LEMMA InPlaceNextStage ==
    ASSUME TInv, clients = Servers, NextStage,
           NEW S \in SUBSET Servers, NEW table, NEW path, NEW rest,
           \A op \in Ops : \A k \in 1 .. Len(Plan[op]) : Follows(S, table, path, op, k),
           InPlace(S, path, rest)
    PROVE  InPlace(S, path, rest)'
<1> DEFINE op == cmd.op
           k == cmd.stage
<1>1. cmd # Idle /\ cmd.todo = {}
  BY DEF NextStage, Idle
<1>2. /\ op \in Ops /\ op # "none" /\ k \in 1 .. Len(Plan[op])
      /\ cmd = [op |-> op, stage |-> k, todo |-> cmd.todo]
  BY <1>1, InProgress DEF TInv
<1>3. /\ cmd' = [op |-> op, stage |-> k + 1, todo |-> Plan[op][k + 1].to \cap clients]
      /\ state' = state
  BY <1>2 DEF NextStage, Asked
<1>4. k + 1 \in 1 .. Len(Plan[op])
  BY <1>2, LengthIsNat DEF NextStage
<1>5. \A e \in S : state[e] \in path[op][k + 1]
  BY <1>1 DEF InPlace
<1>6. Follows(S, table, path, op, k + 1)
  BY <1>2, <1>4
<1> QED BY <1>2, <1>3, <1>4, <1>5, <1>6, InPlaceStage

LEMMA InPlaceDone ==
    ASSUME Done, NEW S, NEW path, NEW rest,
           \A x \in LDaqTable : Fits(path, rest, x),
           InPlace(S, path, rest)
    PROVE  InPlace(S, path, rest)'
<1>1. cmd # Idle /\ cmd.todo = {} /\ cmd.stage = Len(Plan[cmd.op])
  BY DEF Done, Idle
<1>2. PICK x \in LDaqTable : x[1] = cmd.op /\ x[2] = ldaq /\ ldaq' = x[3]
  BY DEF Done
<1>3. cmd' = Idle /\ state' = state
  BY DEF Done
<1>4. \A e \in S : state[e] \in path[cmd.op][Len(Plan[cmd.op]) + 1]
  BY <1>1 DEF InPlace
<1>5. path[cmd.op][Len(Plan[cmd.op]) + 1] \subseteq rest[ldaq']
  BY <1>2 DEF Fits
<1> QED BY <1>3, <1>4, <1>5 DEF InPlace

(* A cycle begins: the servers of the cards are fresh, the others not       *)
(* running.                                                                 *)
LEMMA PrepareBegins ==
    ASSUME IInv, Ranges, Command("PREPARE"), clients = Servers, up = Servers
    PROVE  Placed'
<1>1. /\ cmd = Idle /\ UNCHANGED <<state, up, clients>>
      /\ cmd' = [op |-> "PREPARE", stage |-> 1, todo |-> Plan["PREPARE"][1].to \cap clients]
  BY DEF Command, Asked
<1>2. ldaq \in {"DISCOVERED", "PREPARED"}
  BY DEF Command, LDaqTable, Destroys
<1>3. \A s \in DifServers : state[s] \in Fresh
  <2>1. \A s \in DifServers : state[s] \in AtRest(ldaq) \cup {"CREATED"}
    BY <1>1 DEF IInv, Lockstep, Along, Servers
  <2> QED BY <1>2, <2>1 DEF AtRest, Fresh
<1>4. state[Ccc] # "RUNNING" /\ state[Builder] # "RUNNING"
  BY <1>1, <1>2 DEF IInv, Quiet, MayRun, Running, Servers, Others
<1>5. state[Ccc] \in Opened \cup Fresh /\ state[Builder] \in Ready \cup Fresh
  BY <1>4 DEF Ranges, Runs
<1>6. "PREPARE" \in Ops /\ 1 \in 1 .. Len(Plan["PREPARE"])
  BY Lengths DEF Ops
<1>7. /\ DifTight["PREPARE"][1] = Fresh
      /\ CccTight["PREPARE"][1] = Opened \cup Fresh
      /\ BuilderTight["PREPARE"][1] = Ready \cup Fresh
  BY DEF DifTight, CccTight, BuilderTight
<1>8. InPlace(DifServers, DifTight, DifRest)'
  BY <1>1, <1>3, <1>6, <1>7, DifFollows, InPlaceStage, Shares
<1>9. InPlace({Ccc}, CccTight, CccRest)'
  BY <1>1, <1>5, <1>6, <1>7, CccFollows, InPlaceStage, Shares
<1>10. InPlace({Builder}, BuilderTight, BuilderRest)'
  BY <1>1, <1>5, <1>6, <1>7, BuilderFollows, InPlaceStage, Shares
<1> QED BY <1>1, <1>8, <1>9, <1>10 DEF Placed

LEMMA InPlaceSame ==
    ASSUME NEW S, NEW path, NEW rest, InPlace(S, path, rest), UNCHANGED <<ldaq, cmd>>,
           \A e \in S : state'[e] = state[e]
    PROVE  InPlace(S, path, rest)'
  BY DEF InPlace

LEMMA WholeKept == IInv /\ Ranges /\ Whole /\ [Next]_vars => Whole'
<1> SUFFICES ASSUME IInv, Ranges, Whole, [Next]_vars, clean' # "none"
             PROVE  Placed'
  BY DEF Whole
<1>1. TInv /\ TypeOK /\ state \in [Servers -> ServerStates]
  BY DEF IInv, TInv, TypeOK
<1>2. /\ \A x \in LDaqTable : Fits(DifTight, DifRest, x)
      /\ \A x \in LDaqTable : Fits(CccTight, CccRest, x)
      /\ \A x \in LDaqTable : Fits(BuilderTight, BuilderRest, x)
  BY AllFit
<1>3. ASSUME NEW s \in Servers, Answered(s) PROVE Placed'
  <2>1. Placed /\ up' = up /\ clients' = clients
    BY <1>3 DEF Answered, Whole
  <2>2. InPlace(DifServers, DifTight, DifRest)'
    BY <1>1, <1>3, <2>1, TableTypes, DifFollows, InPlaceAnswered, Shares DEF Placed
  <2>3. InPlace({Ccc}, CccTight, CccRest)'
    BY <1>1, <1>3, <2>1, TableTypes, CccFollows, InPlaceAnswered, Shares DEF Placed
  <2>4. InPlace({Builder}, BuilderTight, BuilderRest)'
    BY <1>1, <1>3, <2>1, TableTypes, BuilderFollows, InPlaceAnswered, Shares DEF Placed
  <2> QED BY <2>1, <2>2, <2>3, <2>4 DEF Placed
<1>4. CASE (\E s \in DifServers : PostDif(s)) \/ PostDb \/ PostBuilder \/ PostCard
  BY <1>3, <1>4 DEF PostDif, PostDb, PostBuilder, PostCard, Servers, Others
<1>5. ASSUME NEW op \in DOMAIN Plan, Command(op) PROVE Placed'
  <2>1. CASE op = "PREPARE"
    <3>1. clients = Servers /\ up = Servers
      BY <1>5, <2>1 DEF Command
    <3> QED BY <1>5, <2>1, <3>1, PrepareBegins
  <2>2. CASE op # "PREPARE"
    <3>1. Placed /\ up' = up /\ clients' = clients /\ op \in Ops
      BY <1>5, <2>2, Commands DEF Command, Whole
    <3>2. InPlace(DifServers, DifTight, DifRest)'
      BY <1>2, <1>5, <2>2, <3>1, DifFollows, InPlaceCommand, Shares DEF Placed
    <3>3. InPlace({Ccc}, CccTight, CccRest)'
      BY <1>2, <1>5, <2>2, <3>1, CccFollows, InPlaceCommand, Shares DEF Placed
    <3>4. InPlace({Builder}, BuilderTight, BuilderRest)'
      BY <1>2, <1>5, <2>2, <3>1, BuilderFollows, InPlaceCommand, Shares DEF Placed
    <3> QED BY <3>1, <3>2, <3>3, <3>4 DEF Placed
  <2> QED BY <2>1, <2>2
<1>6. CASE NextStage
  <2>1. Placed /\ up' = up /\ clients' = clients
    BY <1>6 DEF NextStage, Whole
  <2>2. InPlace(DifServers, DifTight, DifRest)'
    BY <1>1, <1>6, <2>1, DifFollows, InPlaceNextStage, Shares DEF Placed
  <2>3. InPlace({Ccc}, CccTight, CccRest)'
    BY <1>1, <1>6, <2>1, CccFollows, InPlaceNextStage, Shares DEF Placed
  <2>4. InPlace({Builder}, BuilderTight, BuilderRest)'
    BY <1>1, <1>6, <2>1, BuilderFollows, InPlaceNextStage, Shares DEF Placed
  <2> QED BY <2>1, <2>2, <2>3, <2>4 DEF Placed
<1>7. CASE Done
  <2>1. clean # "none"
    BY <1>7 DEF Done
  <2>2. Placed /\ up' = up /\ clients' = clients
    BY <1>7, <2>1 DEF Done, Whole
  <2> QED BY <1>2, <1>7, <2>2, InPlaceDone DEF Placed
<1>8. CASE Discover
  <2>1. Placed /\ clients' = up /\ up' = up /\ state' = state /\ cmd' = Idle
        /\ ldaq' = "DISCOVERED"
    BY <1>8 DEF Discover, Whole
  <2>2. /\ DifRest["DISCOVERED"] = ServerStates /\ CccRest["DISCOVERED"] = ServerStates
        /\ BuilderRest["DISCOVERED"] = ServerStates
    BY DEF DifRest, CccRest, BuilderRest
  <2> QED BY <1>1, <2>1, <2>2 DEF Placed, InPlace, Servers, Others
<1>9. ASSUME NEW post \in {"PAUSE", "RESUME"}, Trigger(post) PROVE Placed'
  <2>1. /\ Placed /\ UNCHANGED <<ldaq, cmd, clients, up>>
        /\ \E v : state' = [state EXCEPT ![Mdcc] = v]
    BY <1>9 DEF Trigger, Whole
  <2>2. \A s \in DifServers \cup {Ccc, Builder} : state'[s] = state[s]
    BY <1>1, <2>1, Distinct DEF Servers, Others
  <2> QED BY <2>1, <2>2, InPlaceSame DEF Placed
<1>10. ASSUME NEW s \in Servers, Crash(s) \/ Restart(s) PROVE FALSE
  BY <1>10 DEF Crash, Restart
<1>11. CASE UNCHANGED vars
  BY <1>11, InPlaceSame DEF vars, Whole, Placed
<1> QED BY <1>4, <1>5, <1>6, <1>7, <1>8, <1>9, <1>10, <1>11 DEF Next


(* The clock card and the builder move along their own tables only.         *)
LEMMA RangesKept == IInv /\ Ranges /\ [Next]_vars => Ranges'
<1> SUFFICES ASSUME IInv, Ranges, [Next]_vars PROVE Ranges'
  OBVIOUS
<1>1. TInv /\ state \in [Servers -> ServerStates] /\ {Ccc, Builder} \subseteq Servers
  BY DEF IInv, TInv, TypeOK, Servers, Others
<1>2. ASSUME state'[Ccc] \in {state[Ccc], "CREATED"} \cup {x[3] : x \in CccTable},
             state'[Builder] \in {state[Builder], "CREATED"} \cup {x[3] : x \in BuilderTable}
      PROVE  Ranges'
  <2>1. {x[3] : x \in CccTable} \subseteq Opened \cup Runs
    BY DEF CccTable, Opened, Runs
  <2>2. {x[3] : x \in BuilderTable} \subseteq Ready \cup Runs
    BY DEF BuilderTable, Ready, Runs
  <2> QED BY <1>2, <2>1, <2>2 DEF Ranges, Fresh
<1>3. ASSUME NEW s \in Servers, Answered(s) PROVE Ranges'
  <2>1. state' = [state EXCEPT ![s] = After(s, Now.post)]
    BY <1>3 DEF Answered
  <2>2. After(s, Now.post) = state[s] \/ \E x \in Table(s) : After(s, Now.post) = x[3]
    BY DEF After, Accepts
  <2>3. Table(Ccc) = CccTable /\ Table(Builder) = BuilderTable
    BY TableTypes
  <2> QED BY <1>1, <1>2, <2>1, <2>2, <2>3
<1>4. CASE (\E s \in DifServers : PostDif(s)) \/ PostDb \/ PostBuilder \/ PostCard
  BY <1>3, <1>4 DEF PostDif, PostDb, PostBuilder, PostCard, Servers, Others
<1>5. ASSUME NEW post, Trigger(post) PROVE Ranges'
  <2>1. PICK v : state' = [state EXCEPT ![Mdcc] = v]
    BY <1>5 DEF Trigger
  <2> QED BY <1>1, <1>2, <2>1, Distinct
<1>6. ASSUME NEW s \in Servers, Crash(s) \/ Restart(s) PROVE Ranges'
  BY <1>1, <1>2, <1>6 DEF Crash, Restart
<1>7. CASE \/ Discover \/ NextStage \/ Done \/ (\E op \in DOMAIN Plan : Command(op))
           \/ UNCHANGED vars
  BY <1>2, <1>7 DEF Discover, NextStage, Done, Command, vars
<1> QED BY <1>4, <1>5, <1>6, <1>7 DEF Next

(* The builder counts as started only in START, once it has answered, in    *)
(* RUNNING and in STOP; the run number is asked for before.                 *)
LEMMA StartedWhen ==
    ASSUME TInv
    PROVE  /\ cmd.op = "START" /\ cmd # Idle => ldaq = "CONFIGURED" /\ cmd.stage \in 1 .. 5
           /\ cmd # Idle /\ ldaq = "RUNNING" => cmd.op = "STOP" /\ cmd.stage \in 1 .. 5
<1>1. TypeOK
  BY DEF TInv
<1>2. ASSUME cmd # Idle, NEW x \in LDaqTable, x[1] = cmd.op, x[2] = ldaq
      PROVE  /\ cmd.op = "START" => ldaq = "CONFIGURED"
             /\ ldaq = "RUNNING" => cmd.op = "STOP"
  BY <1>2 DEF LDaqTable, Destroys
<1>3. cmd.op \in {"START", "STOP"} => Len(Plan[cmd.op]) = 5
  BY Lengths
<1>4. cmd # Idle => cmd.stage \in 1 .. Len(Plan[cmd.op])
  BY <1>1, InProgress
<1> QED BY <1>2, <1>3, <1>4 DEF TInv, Allowed

Counted == runs # << >> /\ runs[Len(runs)] = run

LEMMA ReportedAnswers ==
    ASSUME IInv, Whole, Reported, clean # "none", BuilderStarted',
           NEW s \in Servers, Answered(s),
           s = Db => PostDb, s = Builder => PostBuilder,
           s \notin {Db, Builder} => UNCHANGED <<run, runs>>
    PROVE  Counted'
<1> DEFINE op == cmd.op
           k == cmd.stage
<1>1. TInv /\ Placed
  BY DEF IInv, Whole
<1>2. /\ cmd # Idle /\ ldaq' = ldaq /\ s \in Plan[op][k].to
      /\ cmd'.op = op /\ cmd'.stage = k /\ cmd'.todo = cmd.todo \ {s} /\ s \in cmd.todo
  BY <1>1, Answering DEF Answered, Now
<1>3. \/ ldaq = "RUNNING" /\ op = "STOP" /\ k \in 1 .. 5
      \/ ldaq = "CONFIGURED" /\ op = "START" /\ k \in 3 .. 5
         /\ (k = 3 => Builder \notin cmd.todo \ {s})
  BY <1>1, <1>2, StartedWhen DEF BuilderStarted
<1>4. ASSUME UNCHANGED <<run, runs>>, BuilderStarted PROVE Counted'
  BY <1>4 DEF Reported, Counted
<1>5. CASE s \notin {Db, Builder}
  <2>1. BuilderStarted
    BY <1>2, <1>3, <1>5 DEF BuilderStarted
  <2> QED BY <1>4, <1>5, <2>1
<1>6. CASE s = Db
  <2>1. Plan[op][k].post # "NEWRUN" /\ s # Builder
    BY <1>2, <1>3, <1>6, StartStages, StopStages, Distinct DEF Stage
  <2>2. UNCHANGED <<run, runs>>
    BY <1>6, <2>1 DEF PostDb, Now
  <2>3. BuilderStarted
    BY <1>2, <1>3, <2>1 DEF BuilderStarted
  <2> QED BY <1>4, <2>2, <2>3
<1>7. CASE s = Builder /\ op = "STOP"
  <2>1. Plan[op][k].post # "START"
    BY <1>3, <1>7, StopStages DEF Stage
  <2>2. UNCHANGED <<run, runs>> /\ BuilderStarted
    BY <1>3, <1>7, <2>1 DEF PostBuilder, Now, BuilderStarted
  <2> QED BY <1>4, <2>2
<1>8. CASE s = Builder /\ op = "START"
  <2>1. k = 3
    BY <1>2, <1>3, <1>8, StartStages, Distinct DEF Stage
  <2>2. Now.post = "START"
    BY <1>8, <2>1, StartStages DEF Stage, Now
  <2>3. state[Builder] = "CONFIGURED" /\ Builder \in up
    <3>1. state[Builder] \in BuilderTight["START"][3]
      BY <1>1, <1>2, <1>8, <2>1 DEF Placed, InPlace
    <3>2. BuilderTight["START"][3] = Conf
      BY DEF BuilderTight
    <3> QED BY <1>1, <1>8, <3>1, <3>2 DEF Placed, Conf
  <2>4. Accepts(Builder, "START")
    <3>1. <<"START", "CONFIGURED", "RUNNING">> \in Table(Builder)
      BY TableTypes DEF BuilderTable
    <3> QED BY <2>3, <3>1 DEF Accepts
  <2>5. runs' = Append(runs, run) /\ run' = run
    BY <1>8, <2>2, <2>4 DEF PostBuilder
  <2>6. runs \in Seq(Nat) /\ run \in Nat
    BY <1>1 DEF TInv, TypeOK
  <2> QED BY <2>5, <2>6 DEF Counted
<1> QED BY <1>3, <1>5, <1>6, <1>7, <1>8

LEMMA ReportedKept == IInv /\ Whole /\ Reported /\ [Next]_vars => Reported'
<1> SUFFICES ASSUME IInv, Whole, Reported, [Next]_vars, clean' # "none", BuilderStarted'
             PROVE  Counted'
  BY DEF Reported, Counted
<1>1. TInv
  BY DEF IInv
<1>2. ASSUME UNCHANGED <<run, runs>>, clean # "none", BuilderStarted PROVE Counted'
  BY <1>2 DEF Reported, Counted
<1>3. CASE \/ \E s \in DifServers : PostDif(s)
           \/ PostDb \/ PostBuilder \/ PostCard
  <2>1. ASSUME NEW s \in DifServers, PostDif(s) PROVE Counted'
    <3>1. /\ Answered(s) /\ UNCHANGED <<run, runs>> /\ clean # "none"
          /\ s \in Servers /\ s \notin {Db, Builder}
      BY <2>1, Distinct DEF PostDif, Answered, Servers
    <3> QED BY <3>1, ReportedAnswers
  <2>2. CASE PostDb
    <3>1. Answered(Db) /\ clean # "none" /\ Db \in Servers /\ Db # Builder
      BY <2>2, Distinct DEF PostDb, Answered, Servers, Others
    <3> QED BY <2>2, <3>1, ReportedAnswers
  <2>3. CASE PostBuilder
    <3>1. Answered(Builder) /\ clean # "none" /\ Builder \in Servers /\ Db # Builder
      BY <2>3, Distinct DEF PostBuilder, Answered, Servers, Others
    <3> QED BY <2>3, <3>1, ReportedAnswers
  <2>4. ASSUME NEW s \in {Ccc, Mdcc}, Answered(s), PostCard PROVE Counted'
    <3>1. /\ UNCHANGED <<run, runs>> /\ clean # "none"
          /\ s \in Servers /\ s \notin {Db, Builder}
      BY <2>4, Distinct DEF PostCard, data, Answered, Servers, Others
    <3> QED BY <2>4, <3>1, ReportedAnswers
  <2>5. CASE PostCard
    BY <2>4, <2>5 DEF PostCard
  <2> QED BY <1>3, <2>1, <2>2, <2>3, <2>5
<1>4. ASSUME NEW op \in DOMAIN Plan, Command(op) PROVE Counted'
  <2>1. /\ cmd = Idle /\ ldaq' = ldaq /\ UNCHANGED <<run, runs>> /\ cmd'.stage = 1
        /\ \E x \in LDaqTable : x[1] = op /\ x[2] = ldaq
        /\ op = "PREPARE" \/ clean' = clean
    BY <1>4 DEF Command, data
  <2>2. ldaq = "RUNNING"
    BY <2>1 DEF BuilderStarted
  <2>3. op # "PREPARE"
    BY <2>1, <2>2 DEF LDaqTable, Destroys
  <2> QED BY <1>2, <2>1, <2>2, <2>3 DEF BuilderStarted
<1>5. CASE NextStage
  <2>1. /\ cmd # Idle /\ cmd.todo = {}
        /\ UNCHANGED <<ldaq, clients, run, runs, clean>>
    BY <1>5 DEF NextStage, Idle
  <2>2. /\ cmd.stage \in Nat
        /\ cmd = [op |-> cmd.op, stage |-> cmd.stage, todo |-> cmd.todo]
    BY <1>1, <2>1, InProgress DEF TInv
  <2>3. /\ cmd'.op = cmd.op /\ cmd'.stage = cmd.stage + 1
        /\ cmd'.todo = Plan[cmd.op][cmd.stage + 1].to \cap clients
    BY <1>5, <2>2 DEF NextStage, Asked
  <2>4. clients = Servers /\ Builder \in Servers
    BY <2>1 DEF Whole, Placed, Servers, Others
  <2>5. cmd.op = "START" /\ cmd.stage + 1 = 3 => Builder \in cmd'.todo
    BY <2>3, <2>4, StartStages DEF Stage
  <2>6. BuilderStarted
    BY <2>1, <2>2, <2>3, <2>5 DEF BuilderStarted
  <2> QED BY <1>2, <2>1, <2>6
<1>6. CASE Done
  <2>1. /\ cmd # Idle /\ cmd' = Idle /\ cmd.stage = Len(Plan[cmd.op])
        /\ UNCHANGED <<run, runs>>
    BY <1>6 DEF Done, Idle, data
  <2>2. clean # "none"
    BY <1>6 DEF Done
  <2>3. PICK x \in LDaqTable : x[1] = cmd.op /\ x[2] = ldaq /\ ldaq' = x[3]
    BY <1>6 DEF Done
  <2>4. ldaq' = "RUNNING"
    BY <2>1 DEF BuilderStarted, Idle
  <2>5. cmd.op = "START"
    <3>1. \A y \in LDaqTable : y[3] = "RUNNING" => y[1] = "START"
      BY DEF LDaqTable, Destroys
    <3> QED BY <2>3, <2>4, <3>1
  <2>6. BuilderStarted
    BY <2>1, <2>5, Lengths DEF BuilderStarted
  <2> QED BY <1>2, <2>1, <2>2, <2>6
<1>7. CASE Discover
  BY <1>7 DEF Discover, BuilderStarted, Idle
<1>8. ASSUME NEW post, Trigger(post) PROVE Counted'
  BY <1>2, <1>8 DEF Trigger, BuilderStarted, data
<1>9. ASSUME NEW s, Crash(s) \/ Restart(s) PROVE FALSE
  BY <1>9 DEF Crash, Restart
<1>10. CASE UNCHANGED vars
  BY <1>2, <1>10 DEF vars, BuilderStarted, data
<1> QED BY <1>3, <1>4, <1>5, <1>6, <1>7, <1>8, <1>9, <1>10 DEF Next

WInv == IInv /\ Whole /\ Ranges /\ Reported

LEMMA WInvHolds == Spec => []WInv
<1>1. Init => WInv
  <2> SUFFICES ASSUME Init PROVE WInv
    OBVIOUS
  <2>1. IInv
    BY TypesInitially, PhaseInitially DEF IInv, Phase
  <2>2. Whole /\ Reported
    BY DEF Init, Whole, Reported
  <2>3. Ranges
    BY DEF Init, Ranges, Fresh, Servers, Others
  <2> QED BY <2>1, <2>2, <2>3 DEF WInv
<1>2. WInv /\ [Next]_vars => WInv'
  BY TypesKept, PhaseKept, WholeKept, RangesKept, ReportedKept DEF WInv, IInv, Phase
<1> QED BY <1>1, <1>2, PTL DEF Spec

LEMMA CardRuns ==
    ASSUME NEW op \in Ops, NEW k \in 1 .. 6, CccPath[op][k]
    PROVE  (op = "START" /\ k \in 5 .. 6) \/ (op = "STOP" /\ k \in 1 .. 2)
<1>1. op \in {"START", "STOP"} \/ CccPath[op] = No
  BY DEF Ops, CccPath
<1>2. k = 1 \/ k = 2 \/ k = 3 \/ k = 4 \/ k = 5 \/ k = 6
  OBVIOUS
<1>3. ~No[1] /\ ~No[2] /\ ~No[3] /\ ~No[4] /\ ~No[5] /\ ~No[6]
  BY DEF No
<1>4. ~CccPath["START"][1] /\ ~CccPath["START"][2] /\ ~CccPath["START"][3]
      /\ ~CccPath["START"][4]
  BY DEF CccPath
<1>5. ~CccPath["STOP"][3] /\ ~CccPath["STOP"][4] /\ ~CccPath["STOP"][5]
      /\ ~CccPath["STOP"][6]
  BY DEF CccPath
<1> QED BY <1>1, <1>2, <1>3, <1>4, <1>5

(* Where the clock card runs, everybody reads.                              *)
LEMMA CardIsLast ==
    ASSUME IInv, Placed, state[Ccc] = "RUNNING", NEW s \in DifServers \cup {Builder}
    PROVE  state[s] = "RUNNING"
<1> DEFINE op == cmd.op
           k == cmd.stage
           after == IF Ccc \in cmd.todo THEN k ELSE k + 1
<1>1. TInv /\ state[Ccc] \notin Opened \cup Fresh
  BY DEF IInv, Opened, Fresh
<1>2. CASE cmd = Idle
  <2>1. state[Ccc] \in CccRest[ldaq] /\ ldaq \in LDaqStates
    BY <1>1, <1>2 DEF Placed, InPlace, TInv, TypeOK
  <2>2. MayRun(Ccc, CccPath) /\ ldaq = "RUNNING"
    BY <1>2 DEF IInv, Quiet, Running, MayRun, Placed, Servers, Others
  <2> QED BY <1>2, <2>2 DEF Placed, InPlace, DifRest, BuilderRest, Runs
<1>3. CASE cmd # Idle
  <2>1. /\ op \in Ops /\ k \in 1 .. Len(Plan[op])
        /\ cmd.todo \subseteq Plan[op][k].to
    BY <1>1, <1>3, InProgress DEF TInv, Now
  <2>2. CccPath[op][after]
    BY <1>3 DEF IInv, Quiet, Running, MayRun, Placed, Servers, Others
  <2>3. k \in 1 .. 5
    <3>1. Len(Plan[op]) \in 1 .. 5
      BY <2>1, LengthIsNat
    <3>2. \A n \in 1 .. 5 : \A j \in 1 .. n : j \in 1 .. 5
      OBVIOUS
    <3> QED BY <2>1, <3>1, <3>2
  <2>4. \/ op = "START" /\ after \in 5 .. 6
        \/ op = "STOP" /\ after \in 1 .. 2
    <3>1. after \in 1 .. 6
      BY <2>3
    <3> HIDE DEF after, op
    <3> QED BY <2>1, <2>2, <3>1, CardRuns
  <2>5. CASE op = "START"
    <3>1. k \in 4 .. 5
      BY <2>3, <2>4, <2>5
    <3>2. /\ DifTight["START"][4] = Runs /\ DifTight["START"][5] = Runs
          /\ DifTight["START"][6] = Runs
          /\ BuilderTight["START"][4] = Runs /\ BuilderTight["START"][5] = Runs
          /\ BuilderTight["START"][6] = Runs
      BY DEF DifTight, BuilderTight, Runs
    <3> QED BY <1>3, <2>5, <3>1, <3>2 DEF Placed, InPlace, Runs
  <2>6. CASE op = "STOP"
    <3>1. k = 1 \/ (k = 2 /\ Ccc \in cmd.todo)
      BY <2>3, <2>4, <2>6
    <3>2. k = 2 => s \notin Plan["STOP"][2].to
      BY StopStages, Distinct DEF Stage
    <3>3. /\ DifTight["STOP"][1] = Runs /\ DifTight["STOP"][2] = Runs
          /\ DifTight["STOP"][3] = Runs
          /\ BuilderTight["STOP"][1] = Runs /\ BuilderTight["STOP"][2] = Runs
          /\ BuilderTight["STOP"][3] = Runs
      BY DEF DifTight, BuilderTight, Runs
    <3> QED BY <1>3, <2>6, <3>1, <3>3 DEF Placed, InPlace, Runs
  <2> QED BY <2>4, <2>5, <2>6
<1> QED BY <1>2, <1>3

LEMMA TriggersLast == WInv => TriggersIntoReaders
<1> SUFFICES ASSUME WInv, clean = "CONFIGURE", Running(Ccc),
                    NEW s \in DifServers \cup {Builder}
             PROVE  Running(s)
  BY DEF TriggersIntoReaders
<1>1. IInv /\ Placed /\ state[Ccc] = "RUNNING"
  BY DEF WInv, Whole, Running
<1> QED BY <1>1, CardIsLast DEF Placed, Running, Servers, Others

(* After a cycle without a fault the clock card lets acquisitions start only *)
(* while every DIF server and the builder are running (LDaq::start and stop, *)
(* the places of the clock card in their sequences of posts).               *)
THEOREM OnlyIntoReaders == Spec => []TriggersIntoReaders
  BY TriggersLast, WInvHolds, PTL

LEMMA CyclesRecoverHere == WInv => CycleRecovers
<1> SUFFICES ASSUME WInv, clean = "CONFIGURE", cmd = Idle, ldaq = "RUNNING"
             PROVE  /\ \A s \in DifServers \cup {Ccc, Builder} : Running(s)
                    /\ runs[Len(runs)] = run
  BY DEF CycleRecovers
<1>1. Placed /\ runs[Len(runs)] = run
  BY DEF WInv, Whole, Reported, BuilderStarted
<1>2. /\ DifRest["RUNNING"] = Runs /\ CccRest["RUNNING"] = Runs
      /\ BuilderRest["RUNNING"] = Runs
  BY DEF DifRest, CccRest, BuilderRest, Runs
<1>3. \A s \in DifServers \cup {Ccc, Builder} : state[s] = "RUNNING"
  BY <1>1, <1>2 DEF Placed, InPlace, Runs
<1> QED BY <1>1, <1>3 DEF Placed, Running, Servers, Others

(* After such a cycle and a START every server runs, the builder with the   *)
(* run number that LDaq reports, whatever crashed before (LDaq::start).     *)
THEOREM CyclesRecover == Spec => []CycleRecovers
  BY CyclesRecoverHere, WInvHolds, PTL

-----------------------------------------------------------------------------
(* LDaq implements the promise of a run control: each of its steps is one of *)
(* the abstract one, or stutters.                                           *)
(* The servers that acquire.                                                *)
Going == {s \in Acquiring : Running(s)}

LEMMA Rest == cmd = Idle => RunPhase = "rest"
  BY DEF RunPhase, Idle

LEMMA PostsOfRuns ==
    ASSUME NEW op \in Ops, NEW k \in 1 .. Len(Plan[op])
    PROVE  /\ Plan[op][k].post = "START" => op = "START"
           /\ Plan[op][k].post = "STOP" =>
                \/ op = "STOP" /\ k > 2
                \/ op = "STOP" /\ k = 2 /\ Plan[op][k].to = {Ccc}
                \/ op = "INITIALISE" /\ k = 2 /\ Plan[op][k].to = {Ccc}
<1>1. CASE op = "PREPARE"
  BY <1>1, Lengths, PrepareStages DEF Stage
<1>2. CASE op = "INITIALISE"
  BY <1>2, Lengths, InitialiseStages DEF Stage
<1>3. CASE op = "CONFIGURE"
  BY <1>3, Lengths, ConfigureStages DEF Stage
<1>4. CASE op = "START"
  BY <1>4, Lengths, StartStages DEF Stage
<1>5. CASE op = "STOP"
  BY <1>5, Lengths, StopStages DEF Stage
<1>6. CASE op = "DESTROY"
  BY <1>6, Lengths, DestroyStages DEF Stage
<1> QED BY <1>1, <1>2, <1>3, <1>4, <1>5, <1>6 DEF Ops

LEMMA RunsOfTables ==
    ASSUME NEW s \in Acquiring, NEW x \in Table(s)
    PROVE  /\ x[3] = "RUNNING" => x[1] = "START"
           /\ x[2] = "RUNNING" => x[1] = "STOP"
<1>1. \A y \in DifTable \cup CccTable \cup BuilderTable :
        /\ y[3] = "RUNNING" => y[1] = "START"
        /\ y[2] = "RUNNING" => y[1] = "STOP"
  BY DEF DifTable, DifStarts, CccTable, BuilderTable
<1> QED BY <1>1, TableTypes DEF Acquiring

LEMMA PromiseAnswered ==
    ASSUME WInv, TriggersIntoReaders', NEW s \in Servers, Answered(s)
    PROVE  [Promise!Next]_(Promise!vars)
<1> DEFINE op == cmd.op
           k == cmd.stage
           w == After(s, Now.post)
<1>1. TInv /\ state \in [Servers -> ServerStates] /\ Acquiring \subseteq Servers
  BY DEF WInv, IInv, TInv, TypeOK, Acquiring, Servers, Others
<1>2. /\ cmd # Idle /\ s \in Plan[op][k].to /\ s \in cmd.todo
      /\ cmd'.op = op /\ cmd'.todo = cmd.todo \ {s} /\ cmd'.stage = k
      /\ state' = [state EXCEPT ![s] = w]
  BY <1>1, Answering DEF Answered, Now
<1>3. op \in Ops /\ k \in 1 .. Len(Plan[op]) /\ cmd.todo \subseteq Plan[op][k].to
  BY <1>1, <1>2, InProgress DEF TInv, Now
<1>4. UNCHANGED <<ldaq, up, clean>>
  BY DEF Answered
<1>5. /\ UNCHANGED <<RunPhase, Due, clean>>
      /\ \A e \in Acquiring \ {s} : Running(e)' <=> Running(e)
  BY <1>1, <1>2, <1>4 DEF RunPhase, Due, Running
<1>6. CASE s \notin Acquiring \/ (Running(s)' <=> Running(s))
  <2>1. Going' = Going
    BY <1>5, <1>6 DEF Going
  <2> QED BY <1>5, <2>1 DEF Promise!vars, Going
<1>7. ASSUME s \in Acquiring, ~Running(s), Running(s)' PROVE Promise!Begin(s)
  <2>1. s \in up /\ state[s] # "RUNNING" /\ w = "RUNNING"
    BY <1>1, <1>2, <1>4, <1>7 DEF Running
  <2>2. PICK x \in Table(s) : x[1] = Now.post /\ x[3] = "RUNNING"
    BY <1>1, <2>1, AfterIs DEF Past
  <2>3. op = "START"
    BY <1>3, <1>7, <2>2, RunsOfTables, PostsOfRuns DEF Now
  <2>4. RunPhase = "starting"
    BY <2>3 DEF RunPhase
  <2>5. Going' = Going \cup {s}
    BY <1>5, <1>7 DEF Going
  <2>6. clean = "CONFIGURE" /\ s = Ccc => Acquiring \ {Ccc} \subseteq Going
    BY <1>4, <1>5, <1>7 DEF TriggersIntoReaders, Acquiring, Going
  <2> QED BY <1>5, <1>7, <2>4, <2>5, <2>6 DEF Promise!Begin, Promise!Readers, Going
<1>8. ASSUME s \in Acquiring, Running(s), ~Running(s)' PROVE Promise!End(s)
  <2>1. s \in up /\ state[s] = "RUNNING" /\ w # "RUNNING"
    BY <1>1, <1>2, <1>4, <1>8 DEF Running
  <2>2. PICK x \in Table(s) : x[1] = Now.post /\ x[2] = "RUNNING"
    BY <1>1, <2>1, AfterIs DEF Past
  <2>3. Plan[op][k].post = "STOP"
    BY <1>8, <2>2, RunsOfTables DEF Now
  <2>4. Running(Ccc) => IF Ccc \in cmd.todo THEN CccPath[op][k] ELSE CccPath[op][k + 1]
    BY <1>2 DEF WInv, IInv, Quiet, MayRun
  <2>5. op = "STOP" /\ k \in 2 .. 5 /\ (s # Ccc => k > 2)
    <3>1. ~CccPath["INITIALISE"][2]
      BY DEF CccPath, No
    <3>2. op = "INITIALISE" => k = 2 /\ s = Ccc
      BY <1>2, <1>3, <2>3, PostsOfRuns
    <3>3. op # "INITIALISE"
      BY <1>2, <1>8, <2>4, <3>1, <3>2
    <3> QED BY <1>2, <1>3, <2>3, <3>3, Lengths, PostsOfRuns
  <2>6. RunPhase = "stopping"
    BY <2>5 DEF RunPhase
  <2>7. Going' = Going \ {s}
    BY <1>5, <1>8 DEF Going
  <2>8. s # Ccc => ~Running(Ccc)
    <3>1. SUFFICES ASSUME s # Ccc PROVE ~Running(Ccc)
      OBVIOUS
    <3>2. k \in 3 .. 5
      BY <2>5, <3>1
    <3>3. ~CccPath["STOP"][3] /\ ~CccPath["STOP"][4] /\ ~CccPath["STOP"][5]
          /\ ~CccPath["STOP"][6]
      BY DEF CccPath
    <3> QED BY <2>4, <2>5, <3>2, <3>3
  <2> QED BY <1>5, <1>8, <2>6, <2>7, <2>8 DEF Promise!End, Going
<1> QED BY <1>6, <1>7, <1>8 DEF Promise!Next

LEMMA PromiseCommand ==
    ASSUME WInv, QuietWhenStopped, CycleRecovers, NEW op \in DOMAIN Plan, Command(op)
    PROVE  [Promise!Next]_(Promise!vars)
<1>1. /\ cmd = Idle /\ cmd'.op = op /\ RunPhase = "rest"
      /\ UNCHANGED <<ldaq, state, up>>
      /\ op # "PREPARE" => clean' = clean
      /\ op = "PREPARE" => clean' # "CONFIGURE"
  BY Rest DEF Command
<1>2. /\ op = "START" => ldaq = "CONFIGURED"
      /\ op = "STOP" <=> ldaq = "RUNNING"
  <2>1. \A x \in LDaqTable : /\ x[1] = "START" => x[2] = "CONFIGURED"
                             /\ x[1] = "STOP" <=> x[2] = "RUNNING"
    BY DEF LDaqTable, Destroys
  <2> QED BY <2>1 DEF Command
<1>3. Going' = Going
  BY <1>1 DEF Going, Running
<1>4. CASE op = "START"
  <2>1. RunPhase' = "starting" /\ Due' /\ clean' = clean
    BY <1>1, <1>4 DEF RunPhase, Due
  <2>2. Going = {}
    BY <1>1, <1>2, <1>4 DEF QuietWhenStopped, Going, Acquiring
  <2>3. Promise!Start
    BY <1>1, <1>3, <2>1, <2>2 DEF Promise!Start, Going
  <2> QED BY <2>3 DEF Promise!Next
<1>5. CASE op = "STOP"
  <2>1. RunPhase' = "stopping" /\ Due' = Due /\ clean' = clean
    BY <1>1, <1>2, <1>5 DEF RunPhase, Due, Idle
  <2>2. clean = "CONFIGURE" => Acquiring \subseteq Going
    BY <1>1, <1>2, <1>5 DEF CycleRecovers, Going, Acquiring
  <2>3. Promise!Stop
    BY <1>1, <1>3, <2>1, <2>2 DEF Promise!Stop, Going
  <2> QED BY <2>3 DEF Promise!Next
<1>6. CASE op \notin {"START", "STOP"}
  <2>1. RunPhase' = RunPhase /\ Due' = Due
    BY <1>1, <1>6 DEF RunPhase, Due, Idle
  <2>2. CASE op = "PREPARE"
    <3>1. Promise!Fault
      BY <1>1, <1>3, <2>1, <2>2 DEF Promise!Fault, Going
    <3> QED BY <3>1 DEF Promise!Next
  <2>3. CASE op # "PREPARE"
    BY <1>1, <1>3, <2>1, <2>3 DEF Promise!vars, Going
  <2> QED BY <2>2, <2>3
<1> QED BY <1>4, <1>5, <1>6

LEMMA PromiseDone ==
    ASSUME WInv, QuietWhenStopped', CycleRecovers', Done
    PROVE  [Promise!Next]_(Promise!vars)
<1> DEFINE op == cmd.op
<1>1. /\ cmd # Idle /\ cmd' = Idle /\ UNCHANGED <<state, up>>
      /\ RunPhase' = "rest"
  BY DEF Done, Idle, RunPhase
<1>2. PICK x \in LDaqTable : x[1] = op /\ x[2] = ldaq /\ ldaq' = x[3]
  BY DEF Done
<1>3. /\ op \in Ops
      /\ op = "START" <=> ldaq' = "RUNNING"
      /\ op = "STOP" <=> ldaq = "RUNNING"
  <2>1. /\ x[1] \in Ops
        /\ x[1] = "START" <=> x[3] = "RUNNING"
        /\ x[1] = "STOP" <=> x[2] = "RUNNING"
    BY DEF LDaqTable, Destroys, Ops
  <2> QED BY <1>2, <2>1
<1>4. /\ Due = (op \in {"START", "STOP"})
      /\ Due' = (op = "START")
  BY <1>1, <1>3 DEF Due, Idle
<1>5. Going' = Going
  BY <1>1 DEF Going, Running
<1>6. op # "START" => Going = {}
  BY <1>1, <1>3, <1>5 DEF QuietWhenStopped, Going, Acquiring
<1>7. CASE op = "START"
  <2>1. RunPhase = "starting" /\ clean' = clean
    BY <1>7 DEF RunPhase, Done
  <2>2. clean = "CONFIGURE" => Acquiring \subseteq Going
    BY <1>1, <1>3, <1>5, <1>7, <2>1 DEF CycleRecovers, Going, Acquiring
  <2>3. Promise!Started
    BY <1>1, <1>4, <1>5, <1>7, <2>1, <2>2 DEF Promise!Started, Going
  <2> QED BY <2>3 DEF Promise!Next
<1>8. CASE op = "STOP"
  <2>1. RunPhase = "stopping" /\ clean' = clean
    BY <1>8 DEF RunPhase, Done
  <2>2. Promise!Stopped
    BY <1>1, <1>4, <1>5, <1>6, <1>8, <2>1 DEF Promise!Stopped, Going
  <2> QED BY <2>2 DEF Promise!Next
<1>9. CASE op = "CONFIGURE"
  <2>1. RunPhase = "rest" /\ Due' = Due /\ Going = {}
    BY <1>4, <1>6, <1>9 DEF RunPhase
  <2>2. CASE clean' = "CONFIGURE"
    <3>1. Promise!Configured
      BY <1>1, <1>5, <2>1, <2>2 DEF Promise!Configured, Going
    <3> QED BY <3>1 DEF Promise!Next
  <2>3. CASE clean' # "CONFIGURE"
    <3>1. Promise!Fault
      BY <1>1, <1>5, <2>1, <2>3 DEF Promise!Fault, Going
    <3> QED BY <3>1 DEF Promise!Next
  <2> QED BY <2>2, <2>3
<1>10. CASE op \in {"PREPARE", "INITIALISE", "DESTROY"}
  <2>1. RunPhase = "rest" /\ Due' = Due /\ Going = {}
    BY <1>4, <1>6, <1>10 DEF RunPhase
  <2>2. clean' # "CONFIGURE"
    BY <1>10 DEF Done
  <2>3. CASE op = "DESTROY"
    <3>1. Promise!Dissolve
      BY <1>1, <1>5, <2>1, <2>2, <2>3 DEF Promise!Dissolve, Going
    <3> QED BY <3>1 DEF Promise!Next
  <2>4. CASE op # "DESTROY"
    <3>1. Promise!Fault
      BY <1>1, <1>5, <2>1, <2>2 DEF Promise!Fault, Going
    <3> QED BY <3>1 DEF Promise!Next
  <2> QED BY <2>3, <2>4
<1> QED BY <1>3, <1>7, <1>8, <1>9, <1>10 DEF Ops

(* The steps that the promise does not see, and those that break it off.    *)
LEMMA PromiseElsewhere ==
    ASSUME WInv,
           \/ Discover \/ NextStage \/ UNCHANGED vars
           \/ \E post \in {"PAUSE", "RESUME"} : Trigger(post)
           \/ \E s \in Servers : Crash(s) \/ Restart(s)
    PROVE  [Promise!Next]_(Promise!vars)
<1>1. TypeOK /\ state \in [Servers -> ServerStates]
  BY DEF WInv, IInv, TInv, TypeOK
<1>2. ASSUME UNCHANGED <<clean, up>>, cmd'.op = cmd.op, Due' = Due,
             \A e \in Acquiring : state'[e] = state[e]
      PROVE  [Promise!Next]_(Promise!vars)
  <2>1. Going' = Going /\ RunPhase' = RunPhase
    BY <1>2 DEF Going, RunPhase, Running
  <2> QED BY <1>2, <2>1 DEF Promise!vars, Going
<1>3. CASE Discover \/ UNCHANGED vars
  BY <1>2, <1>3 DEF Discover, vars, Due, Idle
<1>4. CASE NextStage
  <2>1. cmd # Idle
    BY <1>4 DEF NextStage, Idle
  <2>2. cmd = [op |-> cmd.op, stage |-> cmd.stage, todo |-> cmd.todo]
    BY <1>1, <2>1, InProgress
  <2>3. cmd'.op = cmd.op /\ UNCHANGED <<clean, up, ldaq, state>>
    BY <1>4, <2>2 DEF NextStage
  <2> QED BY <1>2, <2>3 DEF Due
<1>5. ASSUME NEW post, Trigger(post) PROVE [Promise!Next]_(Promise!vars)
  <2>1. PICK v : state' = [state EXCEPT ![Mdcc] = v]
    BY <1>5 DEF Trigger
  <2>2. UNCHANGED <<clean, up, ldaq, cmd>> /\ Mdcc \notin Acquiring
    BY <1>5, Distinct DEF Trigger, Acquiring
  <2> QED BY <1>1, <1>2, <2>1, <2>2 DEF Due
<1>6. ASSUME NEW s \in Servers, Crash(s) \/ Restart(s)
      PROVE  [Promise!Next]_(Promise!vars)
  <2>1. UNCHANGED <<cmd, ldaq>> /\ clean' = "none"
    BY <1>6 DEF Crash, Restart
  <2>2. Going' \subseteq Going
    <3>1. ASSUME NEW e \in Acquiring, Running(e)' PROVE Running(e)
      BY <1>1, <1>6, <3>1 DEF Crash, Restart, Running, Acquiring, Servers, Others
    <3> QED BY <3>1 DEF Going
  <2>3. Promise!Fault
    BY <2>1, <2>2 DEF Promise!Fault, RunPhase, Due, Going
  <2> QED BY <2>3 DEF Promise!Next
<1> QED BY <1>3, <1>4, <1>5, <1>6

(* LDaq implements the abstract run control: however servers crash, come     *)
(* back and refuse, acquisition begins only in a START, ends before a STOP   *)
(* completes, and in a clean cycle the clock card starts last and stops      *)
(* first (LDaq::start, LDaq::stop).                                         *)
THEOREM ImplementsPromise == Spec => KeepsPromise
<1>1. Init => Promise!Init
  <2> SUFFICES ASSUME Init PROVE Promise!Init
    OBVIOUS
  <2>1. RunPhase = "rest" /\ ~Due /\ clean # "CONFIGURE"
    BY DEF Init, RunPhase, Due, Idle
  <2>2. Going = {}
    BY DEF Init, Going, Running, Acquiring, Servers, Others
  <2> QED BY <2>1, <2>2 DEF Promise!Init, Going
<1>2. WInv /\ WInv' /\ [Next]_vars => [Promise!Next]_(Promise!vars)
  <2> SUFFICES ASSUME WInv, WInv', [Next]_vars PROVE [Promise!Next]_(Promise!vars)
    OBVIOUS
  <2>1. /\ QuietWhenStopped /\ QuietWhenStopped' /\ CycleRecovers /\ CycleRecovers'
        /\ TriggersIntoReaders'
    BY StopQuiets, CyclesRecoverHere, TriggersLast, PTL DEF WInv
  <2>2. ASSUME NEW s \in DifServers, PostDif(s) PROVE [Promise!Next]_(Promise!vars)
    BY <2>1, <2>2, PromiseAnswered DEF PostDif, Servers
  <2>3. CASE PostDb \/ PostBuilder \/ PostCard
    BY <2>1, <2>3, PromiseAnswered DEF PostDb, PostBuilder, PostCard, Servers, Others
  <2> QED BY <2>1, <2>2, <2>3, PromiseCommand, PromiseDone, PromiseElsewhere DEF Next
<1> QED BY <1>1, <1>2, WInvHolds, PTL DEF Spec, KeepsPromise, Promise!Spec
============================================================================
