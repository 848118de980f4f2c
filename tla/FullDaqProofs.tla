-------------------------- MODULE FullDaqProofs --------------------------
(* Theorems about FullDaq and WebDaq: for any servers, and any number of     *)
(* runs, crashes, forced states and discoveries.                            *)
EXTENDS FullDaq, TLAPS

Ops == {"PREPARE", "INITIALISE", "CONFIGURE", "START", "STOP", "DESTROY"}

(* The stage of STOP that stops a server.                                   *)
Rank(s) == IF s = Ccc THEN 2
           ELSE IF s \in DifServers THEN 3
           ELSE IF s \in TdcServers THEN 4 ELSE 5

(* A server that the run control posts to, or that the DISCOVER in progress  *)
(* has still to look for.                                                   *)
Known(s) == \/ \E c \in clients : c[1] = s
            \/ cmd.op = "DISCOVER" /\ \E c \in cmd.todo : c[1] = s

(* A server that the STOP in progress has still to stop.                    *)
Waiting(s) == \/ Rank(s) > cmd.stage
              \/ Rank(s) = cmd.stage /\ \E c \in cmd.todo : c[1] = s

(* Every server that runs is known, unless the run control has come back and *)
(* not yet begun to discover.                                               *)
RunningIsKnown ==
    ~lost \/ cmd.op = "DISCOVER" => \A s \in Acquiring : Running(s) => Known(s)

(* Only FullDaq starts TDC servers.                                         *)
NoTdcInWebDaq ==
    kind = "WebDaq" => /\ \A c \in clients \cup cmd.todo : c[1] \notin TdcServers
                       /\ \A s \in TdcServers : ~Running(s)

StartCounts == cmd.op = "START" => started

StopReaches ==
    cmd.op = "STOP" /\ ~lost => \A s \in Acquiring : Running(s) => Waiting(s)

IInv == /\ TypeOK
        /\ RunningIsKnown /\ NoTdcInWebDaq
        /\ StartCounts /\ StopReaches /\ QuietUnlessStarted

-----------------------------------------------------------------------------
(* The plans and the tables, spelled out once. *)

LEMMA Commands == DOMAIN Plan = Ops
  BY DEF Plan, Ops

LEMMA Lengths ==
    /\ Len(Plan["PREPARE"]) = 5 /\ Len(Plan["INITIALISE"]) = 5
    /\ Len(Plan["CONFIGURE"]) = 4 /\ Len(Plan["START"]) = 5
    /\ Len(Plan["STOP"]) = 5 /\ Len(Plan["DESTROY"]) = 2
  BY DEF Plan, PreparePlan, InitialisePlan, ConfigurePlan, StartPlan, StopPlan,
         DestroyPlan

LEMMA LengthIsNat == ASSUME NEW op \in Ops PROVE Len(Plan[op]) \in 1 .. 5
  BY Lengths DEF Ops

LEMMA Distinct ==
    /\ Ccc \notin DifServers /\ Builder \notin DifServers
    /\ Db \notin DifServers /\ Mdcc \notin DifServers
    /\ Ccc \notin TdcServers /\ Builder \notin TdcServers
    /\ Db \notin TdcServers /\ Mdcc \notin TdcServers
    /\ DifServers \cap TdcServers = {}
    /\ Ccc # Builder /\ Ccc # Mdcc /\ Ccc # Db /\ Builder # Mdcc /\ Builder # Db
    /\ Mdcc # Db
  BY ServersAssumption DEF Others

LEMMA AcquiringAreServers ==
    /\ Acquiring \subseteq Servers
    /\ Mdcc \notin Acquiring
    /\ \A s \in Acquiring : Rank(s) \in 2 .. 5
  BY Distinct DEF Acquiring, Servers, Others, Rank

(* START is posted by the command START alone.                              *)
LEMMA OnlyStartPostsStart ==
    ASSUME NEW op \in Ops, op # "START", NEW k \in 1 .. Len(Plan[op])
    PROVE  Plan[op][k].post # "START"
<1>1. CASE op = "PREPARE"
  <2>1. k \in 1 .. 5
    BY <1>1, Lengths
  <2>2. \A j \in 1 .. 5 : PreparePlan[j].post \in {"DOWNLOAD", "OPEN", "INITIALISE"}
    BY DEF PreparePlan, Stage
  <2> QED BY <1>1, <2>1, <2>2 DEF Plan
<1>2. CASE op = "INITIALISE"
  <2>1. k \in 1 .. 5
    BY <1>2, Lengths
  <2>2. \A j \in 1 .. 5 : InitialisePlan[j].post \in {"CONFIGURE", "STOP", "SCAN", "INITIALISE"}
    BY DEF InitialisePlan, Stage
  <2> QED BY <1>2, <2>1, <2>2 DEF Plan
<1>3. CASE op = "CONFIGURE"
  <2>1. k \in 1 .. 4
    BY <1>3, Lengths
  <2>2. \A j \in 1 .. 4 : ConfigurePlan[j].post \in {"REGISTERDB", "CONFIGURE"}
    BY DEF ConfigurePlan, Stage
  <2> QED BY <1>3, <2>1, <2>2 DEF Plan
<1>4. CASE op = "STOP"
  <2>1. k \in 1 .. 5
    BY <1>4, Lengths
  <2>2. \A j \in 1 .. 5 : StopPlan[j].post \in {"PAUSE", "STOP"}
    BY DEF StopPlan, Stage
  <2> QED BY <1>4, <2>1, <2>2 DEF Plan
<1>5. CASE op = "DESTROY"
  <2>1. k \in 1 .. 2
    BY <1>5, Lengths
  <2>2. \A j \in 1 .. 2 : DestroyPlan[j].post = "DESTROY"
    BY DEF DestroyPlan, Stage
  <2> QED BY <1>5, <2>1, <2>2 DEF Plan
<1> QED BY <1>1, <1>2, <1>3, <1>4, <1>5 DEF Ops

(* Stage k of STOP posts STOP to the servers of rank k, and to no others     *)
(* that acquire.                                                            *)
LEMMA StopStages ==
    ASSUME NEW k \in 1 .. 5, NEW s \in Acquiring
    PROVE  /\ s \in Plan["STOP"][k].to <=> Rank(s) = k
           /\ s \in Plan["STOP"][k].to => Plan["STOP"][k].post = "STOP"
<1>0. Plan["STOP"] = StopPlan
  BY DEF Plan
<1>1. CASE k = 1
  BY <1>0, <1>1, Distinct DEF StopPlan, Stage, Rank, Acquiring
<1>2. CASE k = 2
  BY <1>0, <1>2, Distinct DEF StopPlan, Stage, Rank, Acquiring
<1>3. CASE k = 3
  BY <1>0, <1>3, Distinct DEF StopPlan, Stage, Rank, Acquiring
<1>4. CASE k = 4
  BY <1>0, <1>4, Distinct DEF StopPlan, Stage, Rank, Acquiring
<1>5. CASE k = 5
  BY <1>0, <1>5, Distinct DEF StopPlan, Stage, Rank, Acquiring
<1> QED BY <1>1, <1>2, <1>3, <1>4, <1>5

LEMMA Tables ==
    /\ \A s \in DifServers : Table(s) = DifTable
    /\ \A s \in TdcServers : Table(s) = TdcTable
    /\ Table(Ccc) = CccTable /\ Table(Builder) = BuilderTable
    /\ Table(Mdcc) = MdccTable /\ Table(Db) = DbTable
  BY Distinct DEF Table

(* What a server answers to a post: it stays in its types, it runs only by   *)
(* START, and no server that acquires runs after STOP.                      *)
LEMMA AfterIs ==
    ASSUME NEW s \in Servers, NEW post, state[s] \in ServerStates
    PROVE  /\ After(s, post) \in ServerStates
           /\ s \in Acquiring /\ After(s, post) = "RUNNING" /\ state[s] # "RUNNING"
                => post = "START"
           /\ s \in Acquiring /\ post = "STOP" => After(s, post) # "RUNNING"
<1>1. \A x \in DifTable \cup TdcTable \cup CccTable \cup BuilderTable :
        /\ x[3] \in ServerStates
        /\ x[3] = "RUNNING" => x[1] = "START"
  BY DEF DifTable, DifStarts, TdcTable, CccTable, BuilderTable, ServerStates, DaqStates
<1>2. \A x \in MdccTable \cup DbTable : x[3] \in ServerStates
  BY DEF MdccTable, DbTable, ServerStates, DaqStates
<1>3. /\ <<"STOP", "RUNNING", "STOPPED">> \in DifTable
      /\ <<"STOP", "RUNNING", "CONFIGURED">> \in TdcTable
      /\ <<"STOP", "RUNNING", "CONFIGURED">> \in CccTable
      /\ <<"STOP", "RUNNING", "CONFIGURED">> \in BuilderTable
  BY DEF DifTable, TdcTable, CccTable, BuilderTable
<1>4. s \in Acquiring => Table(s) \in {DifTable, TdcTable, CccTable, BuilderTable}
  BY Tables DEF Acquiring
<1>5. \A x \in Table(s) : x[3] \in ServerStates
  BY <1>1, <1>2, Tables DEF Servers, Others
<1>6. s \in Acquiring => \A x \in Table(s) : x[3] = "RUNNING" => x[1] = "START"
  BY <1>1, <1>4
<1>7. s \in Acquiring /\ state[s] = "RUNNING" => Accepts(s, "STOP")
  <2> SUFFICES ASSUME s \in Acquiring, state[s] = "RUNNING" PROVE Accepts(s, "STOP")
    OBVIOUS
  <2>1. <<"STOP", "RUNNING", "STOPPED">> \in Table(s)
        \/ <<"STOP", "RUNNING", "CONFIGURED">> \in Table(s)
    BY <1>3, <1>4
  <2> QED BY <2>1 DEF Accepts
<1>8. CASE Accepts(s, post)
  <2> DEFINE y == CHOOSE x \in Table(s) : x[1] = post /\ x[2] = state[s]
  <2>1. y \in Table(s) /\ y[1] = post /\ y[2] = state[s]
    BY <1>8 DEF Accepts
  <2>2. After(s, post) = y[3]
    BY <1>8 DEF After
  <2> HIDE DEF y
  <2> QED BY <2>1, <2>2, <1>5, <1>6
<1>9. CASE ~Accepts(s, post)
  <2>1. After(s, post) = state[s]
    BY <1>9 DEF After
  <2> QED BY <1>9, <2>1, <1>7
<1> QED BY <1>8, <1>9

(* What a command in progress looks like. *)
LEMMA InProgress ==
    ASSUME TypeOK, Posting
    PROVE  /\ cmd.op \in Ops /\ cmd.op # "DISCOVER" /\ cmd.op # "none"
           /\ cmd.stage \in 1 .. Len(Plan[cmd.op])
           /\ cmd = [op |-> cmd.op, stage |-> cmd.stage, todo |-> cmd.todo]
           /\ cmd.todo \subseteq {c \in clients : c[1] \in Now.to}
<1>1. cmd.op \in Ops
  BY Commands DEF Posting
<1>2. cmd.op # "DISCOVER" /\ cmd.op # "none"
  BY <1>1 DEF Ops
<1>3. cmd # Idle
  BY <1>2 DEF Idle
<1> QED BY <1>1, <1>2, <1>3 DEF TypeOK

LEMMA IdleIs ==
    /\ Idle.op = "none" /\ Idle.stage = 1 /\ Idle.todo = {}
    /\ Idle.op # "DISCOVER" /\ Idle.op # "START" /\ Idle.op # "STOP"
  BY DEF Idle

-----------------------------------------------------------------------------
(* One answer, whoever gives it. *)

LEMMA Answering ==
    ASSUME IInv, NEW c \in cmd.todo, Answered(c)
    PROVE  /\ UNCHANGED <<kind, daq, clients, bounds, history>>
           /\ state' \in [Servers -> ServerStates]
           /\ cmd'.op \in DOMAIN Plan
           /\ cmd'.stage \in 1 .. Len(Plan[cmd'.op])
           /\ cmd' = [op |-> cmd'.op, stage |-> cmd'.stage, todo |-> cmd'.todo]
           /\ cmd'.todo \subseteq {x \in clients' : x[1] \in Now'.to}
           /\ RunningIsKnown' /\ NoTdcInWebDaq' /\ StartCounts' /\ StopReaches'
           /\ QuietUnlessStarted'
<1>0. TypeOK /\ Posting
  BY DEF IInv, Answered
<1>1. /\ cmd.op \in Ops /\ cmd.op # "DISCOVER" /\ cmd.op # "none"
      /\ cmd.stage \in 1 .. Len(Plan[cmd.op])
      /\ cmd = [op |-> cmd.op, stage |-> cmd.stage, todo |-> cmd.todo]
      /\ cmd.todo \subseteq {x \in clients : x[1] \in Now.to}
  BY <1>0, InProgress
<1>2. cmd' = [op |-> cmd.op, stage |-> cmd.stage, todo |-> cmd.todo \ {c}]
  BY <1>1 DEF Answered
<1>3. cmd'.op = cmd.op /\ cmd'.stage = cmd.stage /\ cmd'.todo = cmd.todo \ {c}
  BY <1>2
<1>4. /\ state' = [state EXCEPT ![c[1]] = After(c[1], Now.post)]
      /\ UNCHANGED <<kind, daq, clients, bounds, history>>
  BY DEF Answered
<1>5. c \in clients /\ c[1] \in Servers /\ c[1] \in Now.to
  BY <1>0, <1>1 DEF TypeOK
<1>6. state \in [Servers -> ServerStates]
  BY <1>0 DEF TypeOK
<1>7. state' \in [Servers -> ServerStates]
  BY <1>4, <1>5, <1>6, AfterIs
<1>8. Now' = Now
  BY <1>3 DEF Now
<1>9. UNCHANGED <<started, lost, clean>>
  BY <1>4 DEF history
(* Whoever runs now and did not before is the one that answered START. *)
<1>10. ASSUME NEW s \in Acquiring, Running(s)', ~Running(s)
       PROVE  s = c[1] /\ cmd.op = "START"
  <2>1. s \in Servers
    BY AcquiringAreServers
  <2>2. s = c[1] /\ After(s, Now.post) = "RUNNING" /\ state[s] # "RUNNING"
    BY <1>4, <1>6, <1>10, <2>1 DEF Running
  <2>3. Now.post = "START"
    BY <1>6, <2>1, <2>2, AfterIs
  <2> QED BY <1>1, <2>2, <2>3, OnlyStartPostsStart DEF Now
<1>11. RunningIsKnown'
  <2> SUFFICES ASSUME ~lost, NEW s \in Acquiring, Running(s)' PROVE Known(s)'
    BY <1>1, <1>3, <1>9 DEF RunningIsKnown
  <2>1. \E x \in clients : x[1] = s
    <3>1. CASE Running(s)
      BY <1>1, <3>1 DEF IInv, RunningIsKnown, Known
    <3>2. CASE ~Running(s)
      BY <3>2, <1>5, <1>10
    <3> QED BY <3>1, <3>2
  <2> QED BY <2>1, <1>4 DEF Known
<1>12. NoTdcInWebDaq'
  <2> SUFFICES ASSUME kind = "WebDaq" PROVE NoTdcInWebDaq'
    BY <1>4 DEF NoTdcInWebDaq
  <2>1. \A x \in clients \cup cmd.todo : x[1] \notin TdcServers
    BY DEF IInv, NoTdcInWebDaq
  <2>2. \A s \in TdcServers : ~Running(s)'
    BY <2>1, <1>4, <1>6, <1>5 DEF IInv, NoTdcInWebDaq, Running, Servers
  <2> QED BY <2>1, <2>2, <1>3, <1>4 DEF NoTdcInWebDaq
<1>13. StartCounts'
  BY <1>3, <1>9 DEF IInv, StartCounts
<1>14. StopReaches'
  <2> SUFFICES ASSUME cmd.op = "STOP", ~lost, NEW s \in Acquiring, Running(s)'
               PROVE  Waiting(s)'
    BY <1>3, <1>9 DEF StopReaches
  <2>1. Running(s)
    BY <1>10
  <2>2. Waiting(s)
    BY <2>1 DEF IInv, StopReaches
  <2>3. s # c[1]
    <3> SUFFICES ASSUME s = c[1] PROVE FALSE
      OBVIOUS
    <3>1. cmd.stage \in 1 .. 5
      BY <1>1, Lengths
    <3>2. Now.post = "STOP"
      BY <1>5, <3>1, StopStages DEF Now
    <3>3. state'[s] = After(s, "STOP")
      BY <1>4, <1>5, <1>6, <3>2
    <3> QED BY <1>5, <1>6, <3>3, AfterIs DEF Running
  <2> QED BY <1>3, <2>2, <2>3 DEF Waiting, Rank
<1>15. QuietUnlessStarted'
  <2> SUFFICES ASSUME ~started, NEW s \in Acquiring, Running(s)' PROVE FALSE
    BY <1>9 DEF QuietUnlessStarted
  <2> QED BY <1>10 DEF IInv, QuietUnlessStarted, StartCounts
<1> QED BY <1>1, <1>2, <1>3, <1>4, <1>7, <1>8, <1>11, <1>12, <1>13, <1>14, <1>15,
           Commands

LEMMA AnswerKeeps ==
    ASSUME IInv, NEW c \in cmd.todo,
           PostDif(c) \/ PostTdc(c) \/ PostDb(c) \/ PostBuilder(c) \/ PostCard(c)
    PROVE  IInv'
<1>1. Answered(c)
  BY DEF PostDif, PostTdc, PostDb, PostBuilder, PostCard
<1>2. /\ run \in Nat /\ dbRun \in Nat /\ builderRun \in Nat /\ spent \subseteq TdcServers
  BY DEF IInv, TypeOK
<1>3. run' \in Nat /\ dbRun' \in Nat /\ builderRun' \in Nat
  BY <1>2 DEF PostDif, PostTdc, PostDb, PostBuilder, PostCard, numbers
<1>4. spent' \subseteq TdcServers
  BY <1>2 DEF PostDif, PostTdc, PostDb, PostBuilder, PostCard
<1>5. TypeOK'
  BY <1>1, <1>3, <1>4, Answering DEF IInv, TypeOK, bounds, history
<1> QED BY <1>1, <1>5, Answering DEF IInv

-----------------------------------------------------------------------------
(* DISCOVER. *)

LEMMA DiscoverKeeps == ASSUME IInv, CommandDiscover PROVE IInv'
<1>0. TypeOK
  BY DEF IInv
<1> DEFINE T == {<<s, IF s \in TdcServers THEN discovers ELSE 0>> :
                 s \in IF kind = "FullDaq" THEN Servers ELSE Servers \ TdcServers}
<1>1. /\ cmd' = [op |-> "DISCOVER", stage |-> 1, todo |-> T]
      /\ clients' = {c \in clients : c[1] \notin DifServers}
      /\ discovers' = discovers + 1
      /\ clean' \in {"begun", "none"}
      /\ UNCHANGED <<kind, daq, state, numbers, spent, starts, faults, forces,
                     started, lost>>
  BY DEF CommandDiscover
<1>2. cmd'.op = "DISCOVER" /\ cmd'.todo = T
  BY <1>1
<1>3. T \subseteq Servers \X Nat
  BY <1>0 DEF TypeOK
<1>4. \A s \in Servers : kind = "FullDaq" \/ s \notin TdcServers => \E c \in T : c[1] = s
  <2> TAKE s \in Servers
  <2> HAVE kind = "FullDaq" \/ s \notin TdcServers
  <2>1. <<s, IF s \in TdcServers THEN discovers ELSE 0>> \in T
    OBVIOUS
  <2> QED BY <2>1
<1>5. kind = "WebDaq" => \A c \in T : c[1] \notin TdcServers
  OBVIOUS
<1> HIDE DEF T
<1>6. TypeOK'
  BY <1>0, <1>1, <1>2, <1>3 DEF TypeOK, numbers
<1>7. RunningIsKnown'
  <2> SUFFICES ASSUME NEW s \in Acquiring, Running(s) PROVE \E c \in T : c[1] = s
    BY <1>1, <1>2 DEF RunningIsKnown, Known, Running
  <2>1. kind = "FullDaq" \/ s \notin TdcServers
    BY <1>0 DEF IInv, NoTdcInWebDaq, TypeOK
  <2> QED BY <1>4, <2>1, AcquiringAreServers
<1>8. NoTdcInWebDaq'
  BY <1>1, <1>2, <1>5 DEF IInv, NoTdcInWebDaq, Running
<1>9. StartCounts' /\ StopReaches' /\ QuietUnlessStarted'
  BY <1>1, <1>2 DEF IInv, StartCounts, StopReaches, QuietUnlessStarted, Running
<1> QED BY <1>6, <1>7, <1>8, <1>9 DEF IInv

LEMMA FindKeeps == ASSUME IInv, NEW c \in cmd.todo, Find(c) PROVE IInv'
<1>0. TypeOK /\ cmd.op = "DISCOVER"
  BY DEF IInv, Find
<1>1. /\ cmd = [op |-> "DISCOVER", stage |-> 1, todo |-> cmd.todo]
      /\ cmd.todo \subseteq Servers \X Nat
  <2>1. cmd # Idle
    BY <1>0, IdleIs
  <2>2. cmd.op \notin DOMAIN Plan
    BY <1>0, Commands DEF Ops
  <2> QED BY <1>0, <2>1, <2>2 DEF TypeOK
<1>2. cmd' = [op |-> "DISCOVER", stage |-> 1, todo |-> cmd.todo \ {c}]
  <2>1. cmd' = [cmd EXCEPT !.todo = cmd.todo \ {c}]
    BY DEF Find
  <2>2. \A o, n, t, u : [[op |-> o, stage |-> n, todo |-> t] EXCEPT !.todo = u]
                         = [op |-> o, stage |-> n, todo |-> u]
    OBVIOUS
  <2> QED BY <1>1, <2>1, <2>2
<1>3. cmd'.op = "DISCOVER" /\ cmd'.todo = cmd.todo \ {c}
  BY <1>2
<1>4. /\ clients' = {d \in clients : d[1] # c[1] \/ d[1] \in TdcServers}
                    \cup (IF Up(c[1]) THEN {c} ELSE {})
      /\ state' = [state EXCEPT ![c[1]] = IF @ = "VOID" THEN "CREATED" ELSE @]
      /\ UNCHANGED <<kind, daq, numbers, spent, bounds, history>>
  BY DEF Find
<1>5. /\ state \in [Servers -> ServerStates] /\ c \in Servers \X Nat
      /\ c[1] \in Servers
  BY <1>0, <1>1 DEF TypeOK
<1>6. /\ state' \in [Servers -> ServerStates]
      /\ \A s \in Servers : Running(s)' <=> Running(s)
  BY <1>4, <1>5 DEF ServerStates, DaqStates, Running
<1>7. TypeOK'
  <2>1. clients' \subseteq Servers \X Nat
    BY <1>0, <1>4, <1>5 DEF TypeOK
  <2> QED BY <1>0, <1>1, <1>2, <1>3, <1>4, <1>6, <2>1 DEF TypeOK, numbers, bounds, history
<1>8. RunningIsKnown'
  <2> SUFFICES ASSUME NEW s \in Acquiring, Running(s) PROVE Known(s)'
    BY <1>6, AcquiringAreServers DEF RunningIsKnown
  <2>1. Known(s)
    BY <1>0 DEF IInv, RunningIsKnown
  <2>2. CASE s = c[1]
    <3>1. Up(s)
      BY DEF Running, Up
    <3> QED BY <1>4, <2>2, <3>1 DEF Known
  <2>3. CASE s # c[1]
    BY <1>3, <1>4, <2>1, <2>3 DEF Known
  <2> QED BY <2>2, <2>3
<1>9. NoTdcInWebDaq'
  <2>1. \A s \in TdcServers : Running(s)' <=> Running(s)
    BY <1>6 DEF Servers
  <2>2. clients' \cup cmd'.todo \subseteq clients \cup cmd.todo
    BY <1>3, <1>4
  <2> QED BY <1>4, <2>1, <2>2 DEF IInv, NoTdcInWebDaq
<1>10. StartCounts' /\ StopReaches' /\ QuietUnlessStarted'
  BY <1>3, <1>4, <1>6, AcquiringAreServers
     DEF IInv, StartCounts, StopReaches, QuietUnlessStarted, history
<1> QED BY <1>7, <1>8, <1>9, <1>10 DEF IInv

LEMMA DiscoverDoneKeeps == ASSUME IInv, DiscoverDone PROVE IInv'
<1>1. /\ cmd.op = "DISCOVER" /\ cmd.todo = {} /\ cmd' = Idle
      /\ daq' = "DISCOVERED" /\ lost' = FALSE
      /\ clean' \in {"DISCOVER", "none"}
      /\ UNCHANGED <<kind, clients, state, numbers, spent, bounds, started>>
  BY DEF DiscoverDone
<1>2. cmd'.op # "DISCOVER" /\ cmd'.op # "START" /\ cmd'.op # "STOP" /\ cmd'.todo = {}
  BY <1>1, IdleIs
<1>3. TypeOK'
  BY <1>1 DEF IInv, TypeOK, numbers, bounds, DaqStates
<1>4. RunningIsKnown'
  BY <1>1 DEF IInv, RunningIsKnown, Known, Running
<1>5. NoTdcInWebDaq'
  BY <1>1, <1>2 DEF IInv, NoTdcInWebDaq, Running
<1>6. StartCounts' /\ StopReaches' /\ QuietUnlessStarted'
  BY <1>1, <1>2 DEF IInv, StartCounts, StopReaches, QuietUnlessStarted, Running
<1> QED BY <1>3, <1>4, <1>5, <1>6 DEF IInv

-----------------------------------------------------------------------------
(* The other commands. *)

LEMMA CommandKeeps == ASSUME IInv, NEW op \in DOMAIN Plan, Command(op) PROVE IInv'
<1>0. TypeOK /\ cmd = Idle /\ op \in Ops
  BY Commands DEF IInv, Command
<1>1. /\ cmd' = [op |-> op, stage |-> 1, todo |-> Asked(Plan[op][1].to)]
      /\ started' = (started \/ op = "START")
      /\ starts' \in Nat /\ run' \in Nat
      /\ UNCHANGED <<kind, daq, clients, state, dbRun, builderRun, spent,
                     faults, forces, discovers, lost, clean>>
  BY <1>0 DEF Command, TypeOK
<1>2. /\ cmd'.op = op /\ cmd'.stage = 1
      /\ cmd'.todo = {c \in clients : c[1] \in Plan[op][1].to}
  BY <1>1 DEF Asked
<1>3. op # "DISCOVER"
  BY <1>0 DEF Ops
<1>4. TypeOK'
  <2>1. 1 \in 1 .. Len(Plan[op])
    <3>1. op \in Ops
      BY <1>0
    <3>2. Len(Plan[op]) \in 1 .. 5
      BY <3>1, LengthIsNat
    <3>3. \A n \in 1 .. 5 : 1 \in 1 .. n
      OBVIOUS
    <3> QED BY <3>2, <3>3
  <2>2. Now' = Plan[op][1]
    BY <1>2 DEF Now
  <2> QED BY <1>0, <1>1, <1>2, <2>1, <2>2 DEF TypeOK
<1>5. RunningIsKnown'
  BY <1>0, <1>1, <1>2, <1>3, IdleIs DEF IInv, RunningIsKnown, Known, Running
<1>6. NoTdcInWebDaq'
  BY <1>1, <1>2 DEF IInv, NoTdcInWebDaq, Running
<1>7. StartCounts'
  BY <1>1, <1>2 DEF StartCounts
<1>8. StopReaches'
  <2> SUFFICES ASSUME NEW s \in Acquiring PROVE Rank(s) > cmd'.stage
    BY DEF StopReaches, Waiting, Rank
  <2> QED BY <1>2, AcquiringAreServers
<1>9. QuietUnlessStarted'
  BY <1>1 DEF IInv, QuietUnlessStarted, Running
<1> QED BY <1>4, <1>5, <1>6, <1>7, <1>8, <1>9 DEF IInv

LEMMA ForceKeeps == ASSUME IInv, NEW to \in DaqStates, ForceState(to) PROVE IInv'
<1>1. /\ daq' = to /\ clean' \in {clean, "none"} /\ forces' \in {forces, forces + 1}
      /\ UNCHANGED <<kind, cmd, clients, state, numbers, spent,
                     starts, faults, discovers, started, lost>>
  BY DEF ForceState
<1>2. TypeOK'
  BY <1>1 DEF IInv, TypeOK, numbers, Now
<1>3. RunningIsKnown' /\ NoTdcInWebDaq'
  BY <1>1 DEF IInv, RunningIsKnown, NoTdcInWebDaq, Known, Running
<1>4. StartCounts' /\ StopReaches' /\ QuietUnlessStarted'
  BY <1>1 DEF IInv, StartCounts, StopReaches, QuietUnlessStarted, Waiting, Running
<1> QED BY <1>2, <1>3, <1>4 DEF IInv

(* Steps that leave the command and the clients alone and make no server     *)
(* run.                                                                     *)
LEMMA NobodyStarts ==
    ASSUME IInv, state' \in [Servers -> ServerStates],
           \A s \in Acquiring : Running(s)' => Running(s),
           UNCHANGED <<kind, daq, cmd, clients, numbers, starts, forces,
                       discovers, started, lost>>,
           spent' \subseteq TdcServers, faults' \in Nat,
           clean' \in {clean, "none"}
    PROVE  IInv'
<1>1. TypeOK'
  BY DEF IInv, TypeOK, numbers, Now
<1>2. RunningIsKnown'
  BY DEF IInv, RunningIsKnown, Known
<1>3. NoTdcInWebDaq'
  <2>1. TdcServers \subseteq Acquiring
    BY DEF Acquiring
  <2> QED BY <2>1 DEF IInv, NoTdcInWebDaq
<1>4. StartCounts' /\ StopReaches' /\ QuietUnlessStarted'
  BY DEF IInv, StartCounts, StopReaches, QuietUnlessStarted, Waiting
<1> QED BY <1>1, <1>2, <1>3, <1>4 DEF IInv

LEMMA TriggerKeeps ==
    ASSUME IInv, NEW post, Trigger(post) PROVE IInv'
<1>0. TypeOK
  BY DEF IInv
<1>1. PICK x \in MdccTable : state' = [state EXCEPT ![Mdcc] = x[3]]
  BY DEF Trigger
<1>2. x[3] \in ServerStates
  BY <1>1 DEF MdccTable, ServerStates, DaqStates
<1>3. state' \in [Servers -> ServerStates]
  BY <1>0, <1>1, <1>2 DEF TypeOK
<1>4. \A s \in Acquiring : Running(s)' => Running(s)
  BY <1>0, <1>1, AcquiringAreServers DEF TypeOK, Running
<1> QED BY <1>0, <1>3, <1>4, NobodyStarts DEF Trigger, TypeOK, numbers, bounds, history

LEMMA NextStageKeeps == ASSUME IInv, NextStage PROVE IInv'
<1>0. TypeOK /\ Posting /\ cmd.todo = {}
  BY DEF IInv, NextStage
<1>1. /\ cmd.op \in Ops /\ cmd.op # "DISCOVER"
      /\ cmd.stage \in 1 .. Len(Plan[cmd.op])
      /\ cmd = [op |-> cmd.op, stage |-> cmd.stage, todo |-> cmd.todo]
  BY <1>0, InProgress
<1>2. /\ cmd' = [op |-> cmd.op, stage |-> cmd.stage + 1,
                 todo |-> Asked(Plan[cmd.op][cmd.stage + 1].to)]
      /\ cmd.stage < Len(Plan[cmd.op])
      /\ UNCHANGED <<kind, daq, clients, state, numbers, spent, bounds, history>>
  BY <1>1 DEF NextStage
<1>3. /\ cmd'.op = cmd.op /\ cmd'.stage = cmd.stage + 1
      /\ cmd'.todo = {c \in clients : c[1] \in Plan[cmd.op][cmd.stage + 1].to}
  BY <1>2 DEF Asked
<1>4. cmd.stage + 1 \in 1 .. Len(Plan[cmd.op])
  BY <1>1, <1>2, LengthIsNat
<1>5. TypeOK'
  <2>1. Now' = Plan[cmd.op][cmd.stage + 1]
    BY <1>3 DEF Now
  <2> QED BY <1>0, <1>1, <1>2, <1>3, <1>4, <2>1, Commands
          DEF TypeOK, numbers, bounds, history
<1>6. RunningIsKnown'
  BY <1>1, <1>2, <1>3 DEF IInv, RunningIsKnown, Known, Running, history
<1>7. NoTdcInWebDaq'
  BY <1>2, <1>3 DEF IInv, NoTdcInWebDaq, Running
<1>8. StopReaches'
  <2> SUFFICES ASSUME cmd.op = "STOP", ~lost, NEW s \in Acquiring, Running(s)
               PROVE  Waiting(s)'
    BY <1>2, <1>3 DEF StopReaches, Running, history
  <2>1. Rank(s) > cmd.stage
    BY <1>0 DEF IInv, StopReaches, Waiting
  <2>2. CASE Rank(s) = cmd.stage + 1
    <3>1. s \in Plan["STOP"][cmd.stage + 1].to
      BY <1>4, <2>2, StopStages, Lengths
    <3>2. \E c \in clients : c[1] = s
      BY <1>1 DEF IInv, RunningIsKnown, Known
    <3> QED BY <1>3, <2>2, <3>1, <3>2 DEF Waiting, Rank
  <2>3. CASE Rank(s) > cmd.stage + 1
    BY <1>3, <2>3 DEF Waiting, Rank
  <2>4. Rank(s) \in Nat /\ cmd.stage \in Nat
    BY <1>1, AcquiringAreServers
  <2> QED BY <2>1, <2>2, <2>3, <2>4
<1>9. StartCounts' /\ QuietUnlessStarted'
  BY <1>2, <1>3 DEF IInv, StartCounts, QuietUnlessStarted, Running, history
<1> QED BY <1>5, <1>6, <1>7, <1>8, <1>9 DEF IInv

LEMMA DoneKeeps == ASSUME IInv, Done PROVE IInv'
<1>0. TypeOK /\ Posting /\ cmd.todo = {} /\ cmd.stage = Len(Plan[cmd.op])
  BY DEF IInv, Done
<1>1. cmd.op \in Ops /\ cmd.op # "DISCOVER"
  BY <1>0, InProgress
<1>2. /\ cmd' = Idle
      /\ started' = IF cmd.op = "STOP" THEN lost /\ started ELSE started
      /\ UNCHANGED <<kind, clients, state, numbers, spent, bounds, lost>>
  BY DEF Done
<1>3. cmd'.op # "DISCOVER" /\ cmd'.op # "START" /\ cmd'.op # "STOP" /\ cmd'.todo = {}
  BY <1>2, IdleIs
<1>4. daq' \in DaqStates
  <2>1. \A x \in DaqTable : x[3] \in DaqStates
    BY DEF DaqTable, DaqStates
  <2> QED BY <2>1 DEF Done
<1>5. clean' \in {"none", "begun", "DISCOVER", "PREPARE", "INITIALISE", "CONFIGURE"}
  BY <1>0 DEF Done, TypeOK
<1>6. TypeOK'
  BY <1>0, <1>2, <1>4, <1>5 DEF TypeOK, numbers, bounds
<1>7. RunningIsKnown' /\ NoTdcInWebDaq'
  BY <1>1, <1>2, <1>3 DEF IInv, RunningIsKnown, NoTdcInWebDaq, Known, Running
<1>8. QuietUnlessStarted'
  <2> SUFFICES ASSUME ~started', NEW s \in Acquiring, Running(s) PROVE FALSE
    BY <1>2 DEF QuietUnlessStarted, Running
  <2>1. started
    BY DEF IInv, QuietUnlessStarted
  <2>2. cmd.op = "STOP" /\ ~lost
    BY <1>2, <2>1
  <2>3. Rank(s) > cmd.stage
    BY <1>0, <2>2 DEF IInv, StopReaches, Waiting
  <2> QED BY <1>0, <2>2, <2>3, Lengths, AcquiringAreServers
<1>9. StartCounts' /\ StopReaches'
  BY <1>3 DEF StartCounts, StopReaches
<1> QED BY <1>6, <1>7, <1>8, <1>9 DEF IInv

LEMMA ProcessesKeep ==
    ASSUME IInv, NEW s \in Servers, Crash(s) \/ DiesSpent(s) \/ Restart(s)
    PROVE  IInv'
<1>0. TypeOK
  BY DEF IInv
<1>1. /\ UNCHANGED <<kind, daq, cmd, clients, numbers, starts, forces, discovers,
                     started, lost>>
      /\ spent' \subseteq TdcServers /\ faults' \in Nat /\ clean' \in {clean, "none"}
  BY <1>0 DEF Crash, DiesSpent, Restart, TypeOK, bounds, history, numbers
<1>2. state' = [state EXCEPT ![s] = "DOWN"] \/ state' = [state EXCEPT ![s] = Fresh]
  BY DEF Crash, DiesSpent, Restart
<1>3. Fresh \in {"VOID", "CREATED"}
  BY DEF Fresh
<1>4. PICK v \in {"DOWN", "VOID", "CREATED"} : state' = [state EXCEPT ![s] = v]
  BY <1>2, <1>3
<1>5. v \in ServerStates /\ v # "RUNNING"
  BY DEF ServerStates, DaqStates
<1>6. /\ state' \in [Servers -> ServerStates]
      /\ \A z \in Acquiring : Running(z)' => Running(z)
  BY <1>0, <1>4, <1>5, AcquiringAreServers DEF TypeOK, Running
<1> QED BY <1>1, <1>6, NobodyStarts

LEMMA RunControlKeeps == ASSUME IInv, RunControlRestarts PROVE IInv'
<1>1. /\ daq' = "CREATED" /\ cmd' = Idle /\ clients' = {} /\ run' \in {0, 1}
      /\ lost' = TRUE /\ clean' = "none" /\ faults' = faults + 1
      /\ UNCHANGED <<kind, state, dbRun, builderRun, spent, starts, forces,
                     discovers, started>>
  BY DEF RunControlRestarts
<1>2. cmd'.op # "DISCOVER" /\ cmd'.op # "START" /\ cmd'.op # "STOP" /\ cmd'.todo = {}
  BY <1>1, IdleIs
<1>3. TypeOK'
  BY <1>1 DEF IInv, TypeOK, DaqStates
<1>4. RunningIsKnown' /\ NoTdcInWebDaq'
  BY <1>1, <1>2 DEF IInv, RunningIsKnown, NoTdcInWebDaq, Running
<1>5. StartCounts' /\ StopReaches' /\ QuietUnlessStarted'
  BY <1>1, <1>2 DEF IInv, StartCounts, StopReaches, QuietUnlessStarted, Running
<1> QED BY <1>3, <1>4, <1>5 DEF IInv

-----------------------------------------------------------------------------
LEMMA InvInitially == Init => IInv
<1> SUFFICES ASSUME Init PROVE IInv
  OBVIOUS
<1>1. Fresh \in ServerStates /\ Fresh # "RUNNING"
  BY DEF Fresh, ServerStates, DaqStates
<1>2. \A s \in Servers : ~Running(s)
  BY <1>1 DEF Init, Running
<1>3. cmd.op # "DISCOVER" /\ cmd.op # "START" /\ cmd.op # "STOP" /\ cmd.todo = {}
  BY IdleIs DEF Init
<1>4. TypeOK
  <2>1. state \in [Servers -> ServerStates]
    BY <1>1 DEF Init
  <2>2. /\ cmd = Idle /\ clients \subseteq Servers \X Nat /\ spent \subseteq TdcServers
        /\ run \in Nat /\ dbRun \in Nat /\ builderRun \in Nat
    BY DEF Init
  <2> QED BY <2>1, <2>2 DEF Init, TypeOK, DaqStates
<1>5. \A s \in Acquiring : ~Running(s)
  BY <1>2, AcquiringAreServers
<1>6. \A s \in TdcServers : ~Running(s)
  BY <1>2 DEF Servers
<1>7. clients = {}
  BY DEF Init
<1> QED BY <1>3, <1>4, <1>5, <1>6, <1>7
        DEF IInv, RunningIsKnown, NoTdcInWebDaq, StartCounts, StopReaches,
            QuietUnlessStarted

LEMMA InvKept == IInv /\ [Next]_vars => IInv'
<1> SUFFICES ASSUME IInv, [Next]_vars PROVE IInv'
  OBVIOUS
<1>1. CASE CommandDiscover
  BY <1>1, DiscoverKeeps
<1>2. CASE DiscoverDone
  BY <1>2, DiscoverDoneKeeps
<1>3. ASSUME NEW c \in cmd.todo, Find(c) PROVE IInv'
  BY <1>3, FindKeeps
<1>4. ASSUME NEW c \in cmd.todo,
             PostDif(c) \/ PostTdc(c) \/ PostDb(c) \/ PostBuilder(c) \/ PostCard(c)
      PROVE  IInv'
  BY <1>4, AnswerKeeps
<1>5. ASSUME NEW op \in DOMAIN Plan, Command(op) PROVE IInv'
  BY <1>5, CommandKeeps
<1>6. ASSUME NEW to \in DaqStates, ForceState(to) PROVE IInv'
  BY <1>6, ForceKeeps
<1>7. ASSUME NEW post \in {"PAUSE", "RESUME"}, Trigger(post) PROVE IInv'
  BY <1>7, TriggerKeeps
<1>8. CASE NextStage
  BY <1>8, NextStageKeeps
<1>9. CASE Done
  BY <1>9, DoneKeeps
<1>10. ASSUME NEW s \in Servers, Crash(s) \/ DiesSpent(s) \/ Restart(s) PROVE IInv'
  BY <1>10, ProcessesKeep
<1>11. CASE RunControlRestarts
  BY <1>11, RunControlKeeps
<1>12. CASE UNCHANGED vars
  <2>1. UNCHANGED <<kind, daq, cmd, clients, state, numbers, starts, faults, forces,
                    discovers, started, lost, spent, clean>>
    BY <1>12 DEF vars, bounds, history
  <2>2. state' \in [Servers -> ServerStates] /\ faults' \in Nat /\ spent' \subseteq TdcServers
    BY <2>1 DEF IInv, TypeOK
  <2> QED BY <2>1, <2>2, NobodyStarts DEF Running
<1> QED BY <1>1, <1>2, <1>3, <1>4, <1>5, <1>6, <1>7, <1>8, <1>9, <1>10, <1>11, <1>12
        DEF Next

LEMMA InvAlways == Spec => []IInv
  BY InvInitially, InvKept, PTL DEF Spec

(* FullDaq and WebDaq keep their types, a command in progress stays within   *)
(* its plan and posts only to clients, for any servers.                     *)
THEOREM TypeCorrect == Spec => []TypeOK
<1>1. IInv => TypeOK
  BY DEF IInv
<1> QED BY <1>1, InvAlways, PTL

(* Whatever is forced, discovered again, dead or back, STOP reaches every    *)
(* server that acquires (FullDaq::stop, FullDaq::discover).                 *)
THEOREM AlwaysQuietUnlessStarted == Spec => []QuietUnlessStarted
<1>1. IInv => QuietUnlessStarted
  BY DEF IInv
<1> QED BY <1>1, InvAlways, PTL

-----------------------------------------------------------------------------
(* A cycle from DISCOVER without a fault.  Everybody who counts is found,    *)
(* and then every answer, and every answer to a post that comes twice, puts  *)
(* its server where the plan wants it: the states before each stage of a     *)
(* command and after its last one, whatever state the cycle found it in.     *)
Conf == {"CONFIGURED"}
Runs == {"RUNNING"}
Ready == {"INITIALISED", "CONFIGURED"}
Opened == {"OPENED", "INITIALISED", "CONFIGURED"}

DifCalm == {"CREATED", "SCANNED", "INITIALISED", "DBREGISTERED", "CONFIGURED", "STOPPED"}
DifReady == {"INITIALISED", "DBREGISTERED", "CONFIGURED", "STOPPED"}
DifSet == {"CONFIGURED", "STOPPED"}
DifLeft == {"CREATED", "INITIALISED", "DBREGISTERED"}
DifPath ==
    [PREPARE |-> << DifCalm, DifCalm, DifCalm, DifCalm, DifCalm, DifCalm >>,
     INITIALISE |-> << DifCalm, DifCalm, DifCalm, DifReady \cup {"SCANNED"}, DifReady,
                       DifReady >>,
     CONFIGURE |-> << DifReady, {"DBREGISTERED", "STOPPED"}, Conf, Conf, Conf >>,
     START |-> << DifSet, DifSet, Runs, Runs, Runs, Runs >>,
     STOP |-> << Runs, Runs, Runs, {"STOPPED"}, {"STOPPED"}, {"STOPPED"} >>,
     DESTROY |-> << DifReady, DifLeft, DifLeft >>]
DifRest ==
    [CREATED |-> DifCalm, DISCOVERED |-> DifCalm, PREPARED |-> DifCalm,
     INITIALISED |-> DifReady, CONFIGURED |-> DifSet, RUNNING |-> Runs]

TdcCalm == {"CREATED", "INITIALISED", "CONFIGURED"}
TdcPath ==
    [PREPARE |-> << TdcCalm, TdcCalm, TdcCalm, TdcCalm, TdcCalm, TdcCalm >>,
     INITIALISE |-> << TdcCalm, TdcCalm, TdcCalm, TdcCalm, TdcCalm, Ready >>,
     CONFIGURE |-> << Ready, Ready, Ready, Conf, Conf >>,
     START |-> << Conf, Conf, Conf, Conf, Runs, Runs >>,
     STOP |-> << Runs, Runs, Runs, Runs, Conf, Conf >>,
     DESTROY |-> << Ready, Ready, {"CREATED"} >>]
TdcRest ==
    [CREATED |-> TdcCalm, DISCOVERED |-> TdcCalm, PREPARED |-> TdcCalm,
     INITIALISED |-> Ready, CONFIGURED |-> Conf, RUNNING |-> Runs]

CccCalm == {"CREATED"} \cup Opened
CccPath ==
    [PREPARE |-> << CccCalm, CccCalm, Opened, Ready, Ready, Ready >>,
     INITIALISE |-> << Ready, Conf, Conf, Conf, Conf, Conf >>,
     CONFIGURE |-> << Conf, Conf, Conf, Conf, Conf >>,
     START |-> << Conf, Conf, Conf, Conf, Conf, Runs >>,
     STOP |-> << Runs, Runs, Conf, Conf, Conf, Conf >>,
     DESTROY |-> << Conf, Conf, Conf >>]
CccRest ==
    [CREATED |-> CccCalm, DISCOVERED |-> CccCalm, PREPARED |-> Ready,
     INITIALISED |-> Conf, CONFIGURED |-> Conf, RUNNING |-> Runs]

BuilderPath ==
    [PREPARE |-> << TdcCalm, TdcCalm, TdcCalm, TdcCalm, TdcCalm, Ready >>,
     INITIALISE |-> << Ready, Ready, Ready, Ready, Ready, Ready >>,
     CONFIGURE |-> << Ready, Ready, Ready, Ready, Conf >>,
     START |-> << Conf, Conf, Conf, Runs, Runs, Runs >>,
     STOP |-> << Runs, Runs, Runs, Runs, Runs, Conf >>,
     DESTROY |-> << Ready, Ready, Ready >>]
BuilderRest ==
    [CREATED |-> TdcCalm, DISCOVERED |-> TdcCalm, PREPARED |-> Ready,
     INITIALISED |-> Ready, CONFIGURED |-> Conf, RUNNING |-> Runs]

Path(s) == IF s \in DifServers THEN DifPath
           ELSE IF s \in TdcServers THEN TdcPath
           ELSE IF s = Ccc THEN CccPath ELSE BuilderPath
Rest(s) == IF s \in DifServers THEN DifRest
           ELSE IF s \in TdcServers THEN TdcRest
           ELSE IF s = Ccc THEN CccRest ELSE BuilderRest
Calm(s) == IF s \in DifServers THEN DifCalm
           ELSE IF s = Ccc THEN CccCalm ELSE TdcCalm

Pending(s) == \E c \in cmd.todo : c[1] = s

InPlace(s) ==
    state[s] \in IF cmd = Idle THEN Rest(s)[daq]
                 ELSE IF Pending(s)
                 THEN Path(s)[cmd.op][cmd.stage] \cup Path(s)[cmd.op][cmd.stage + 1]
                 ELSE Path(s)[cmd.op][cmd.stage + 1]

(* The servers that a cycle is about.                                       *)
Members == Readers \cup {Ccc}

Placed ==
    /\ cmd.op # "DISCOVER"
    /\ \A s \in Members : InPlace(s) /\ \E c \in clients : c[1] = s

Beginning ==
    /\ cmd.op = "DISCOVER"
    /\ \A s \in Members :
         /\ Known(s)
         /\ state[s] \in Calm(s) \/ (state[s] = "VOID" /\ Pending(s))

Whole == /\ clean = "begun" => Beginning
         /\ clean \notin {"begun", "none"} => Placed

(* The states that a server has at all.                                     *)
Ranges == \A s \in Acquiring : state[s] \in Calm(s) \cup {"VOID", "DOWN", "RUNNING"}

(* The builder runs with the number that the run control reports.           *)
Reported == clean # "none" /\ Running(Builder) => builderRun = run

LEMMA Stages ==
    /\ Plan["PREPARE"][1] = Stage({Db}, "DOWNLOAD")
    /\ Plan["PREPARE"][2] = Stage({Ccc}, "OPEN")
    /\ Plan["PREPARE"][3] = Stage({Ccc}, "INITIALISE")
    /\ Plan["PREPARE"][4] = Stage({Mdcc}, "OPEN")
    /\ Plan["PREPARE"][5] = Stage({Builder}, "INITIALISE")
    /\ Plan["INITIALISE"][1] = Stage({Ccc}, "CONFIGURE")
    /\ Plan["INITIALISE"][2] = Stage({Ccc}, "STOP")
    /\ Plan["INITIALISE"][3] = Stage(DifServers, "SCAN")
    /\ Plan["INITIALISE"][4] = Stage(DifServers, "INITIALISE")
    /\ Plan["INITIALISE"][5] = Stage(TdcServers, "INITIALISE")
    /\ Plan["CONFIGURE"][1] = Stage(DifServers, "REGISTERDB")
    /\ Plan["CONFIGURE"][2] = Stage(DifServers, "CONFIGURE")
    /\ Plan["CONFIGURE"][3] = Stage(TdcServers, "CONFIGURE")
    /\ Plan["CONFIGURE"][4] = Stage({Builder}, "CONFIGURE")
    /\ Plan["START"][1] = Stage({Db}, "NEWRUN")
    /\ Plan["START"][2] = Stage(DifServers, "START")
    /\ Plan["START"][3] = Stage({Builder}, "START")
    /\ Plan["START"][4] = Stage(TdcServers, "START")
    /\ Plan["START"][5] = Stage({Ccc}, "START")
    /\ Plan["STOP"][1] = Stage({Mdcc}, "PAUSE")
    /\ Plan["STOP"][2] = Stage({Ccc}, "STOP")
    /\ Plan["STOP"][3] = Stage(DifServers, "STOP")
    /\ Plan["STOP"][4] = Stage(TdcServers, "STOP")
    /\ Plan["STOP"][5] = Stage({Builder}, "STOP")
    /\ Plan["DESTROY"][1] = Stage(DifServers, "DESTROY")
    /\ Plan["DESTROY"][2] = Stage(TdcServers, "DESTROY")
  BY DEF Plan, PreparePlan, InitialisePlan, ConfigurePlan, StartPlan, StopPlan,
         DestroyPlan

(* What an answer does: taken or refused, it leaves the server past the      *)
(* stage, and the same post once more leaves it there.                      *)
Past(table, post, v, w) ==
    \/ \E x \in table : x[1] = post /\ x[2] = v /\ x[3] = w
    \/ v = w /\ ~\E x \in table : x[1] = post /\ x[2] = v

Follows(S, table, path, op, k) ==
    \/ Plan[op][k].to \cap S = {} /\ path[op][k + 1] = path[op][k]
    \/ /\ S \subseteq Plan[op][k].to
       /\ \A v \in path[op][k] \cup path[op][k + 1], w \in ServerStates :
            Past(table, Plan[op][k].post, v, w) => w \in path[op][k + 1]

LEMMA DifFollows ==
    ASSUME NEW op \in Ops, NEW k \in 1 .. Len(Plan[op])
    PROVE  Follows(DifServers, DifTable, DifPath, op, k)
<1>1. CASE op = "PREPARE"
  <2>0. k \in 1 .. 5
    BY <1>1, Lengths
  <2>1. CASE k = 1
    BY <1>1, <2>1, Stages, Distinct
       DEF Follows, Stage, Past, DifPath, DifTable, DifStarts, DifCalm, DifReady, DifSet, DifLeft, Conf, Runs
  <2>2. CASE k = 2
    BY <1>1, <2>2, Stages, Distinct
       DEF Follows, Stage, Past, DifPath, DifTable, DifStarts, DifCalm, DifReady, DifSet, DifLeft, Conf, Runs
  <2>3. CASE k = 3
    BY <1>1, <2>3, Stages, Distinct
       DEF Follows, Stage, Past, DifPath, DifTable, DifStarts, DifCalm, DifReady, DifSet, DifLeft, Conf, Runs
  <2>4. CASE k = 4
    BY <1>1, <2>4, Stages, Distinct
       DEF Follows, Stage, Past, DifPath, DifTable, DifStarts, DifCalm, DifReady, DifSet, DifLeft, Conf, Runs
  <2>5. CASE k = 5
    BY <1>1, <2>5, Stages, Distinct
       DEF Follows, Stage, Past, DifPath, DifTable, DifStarts, DifCalm, DifReady, DifSet, DifLeft, Conf, Runs
  <2> QED BY <2>0, <2>1, <2>2, <2>3, <2>4, <2>5
<1>2. CASE op = "INITIALISE"
  <2>0. k \in 1 .. 5
    BY <1>2, Lengths
  <2>1. CASE k = 1
    BY <1>2, <2>1, Stages, Distinct
       DEF Follows, Stage, Past, DifPath, DifTable, DifStarts, DifCalm, DifReady, DifSet, DifLeft, Conf, Runs
  <2>2. CASE k = 2
    BY <1>2, <2>2, Stages, Distinct
       DEF Follows, Stage, Past, DifPath, DifTable, DifStarts, DifCalm, DifReady, DifSet, DifLeft, Conf, Runs
  <2>3. CASE k = 3
    BY <1>2, <2>3, Stages, Distinct
       DEF Follows, Stage, Past, DifPath, DifTable, DifStarts, DifCalm, DifReady, DifSet, DifLeft, Conf, Runs
  <2>4. CASE k = 4
    BY <1>2, <2>4, Stages, Distinct
       DEF Follows, Stage, Past, DifPath, DifTable, DifStarts, DifCalm, DifReady, DifSet, DifLeft, Conf, Runs
  <2>5. CASE k = 5
    BY <1>2, <2>5, Stages, Distinct
       DEF Follows, Stage, Past, DifPath, DifTable, DifStarts, DifCalm, DifReady, DifSet, DifLeft, Conf, Runs
  <2> QED BY <2>0, <2>1, <2>2, <2>3, <2>4, <2>5
<1>3. CASE op = "CONFIGURE"
  <2>0. k \in 1 .. 4
    BY <1>3, Lengths
  <2>1. CASE k = 1
    BY <1>3, <2>1, Stages, Distinct
       DEF Follows, Stage, Past, DifPath, DifTable, DifStarts, DifCalm, DifReady, DifSet, DifLeft, Conf, Runs
  <2>2. CASE k = 2
    BY <1>3, <2>2, Stages, Distinct
       DEF Follows, Stage, Past, DifPath, DifTable, DifStarts, DifCalm, DifReady, DifSet, DifLeft, Conf, Runs
  <2>3. CASE k = 3
    BY <1>3, <2>3, Stages, Distinct
       DEF Follows, Stage, Past, DifPath, DifTable, DifStarts, DifCalm, DifReady, DifSet, DifLeft, Conf, Runs
  <2>4. CASE k = 4
    BY <1>3, <2>4, Stages, Distinct
       DEF Follows, Stage, Past, DifPath, DifTable, DifStarts, DifCalm, DifReady, DifSet, DifLeft, Conf, Runs
  <2> QED BY <2>0, <2>1, <2>2, <2>3, <2>4
<1>4. CASE op = "START"
  <2>0. k \in 1 .. 5
    BY <1>4, Lengths
  <2>1. CASE k = 1
    BY <1>4, <2>1, Stages, Distinct
       DEF Follows, Stage, Past, DifPath, DifTable, DifStarts, DifCalm, DifReady, DifSet, DifLeft, Conf, Runs
  <2>2. CASE k = 2
    BY <1>4, <2>2, Stages, Distinct
       DEF Follows, Stage, Past, DifPath, DifTable, DifStarts, DifCalm, DifReady, DifSet, DifLeft, Conf, Runs
  <2>3. CASE k = 3
    BY <1>4, <2>3, Stages, Distinct
       DEF Follows, Stage, Past, DifPath, DifTable, DifStarts, DifCalm, DifReady, DifSet, DifLeft, Conf, Runs
  <2>4. CASE k = 4
    BY <1>4, <2>4, Stages, Distinct
       DEF Follows, Stage, Past, DifPath, DifTable, DifStarts, DifCalm, DifReady, DifSet, DifLeft, Conf, Runs
  <2>5. CASE k = 5
    BY <1>4, <2>5, Stages, Distinct
       DEF Follows, Stage, Past, DifPath, DifTable, DifStarts, DifCalm, DifReady, DifSet, DifLeft, Conf, Runs
  <2> QED BY <2>0, <2>1, <2>2, <2>3, <2>4, <2>5
<1>5. CASE op = "STOP"
  <2>0. k \in 1 .. 5
    BY <1>5, Lengths
  <2>1. CASE k = 1
    BY <1>5, <2>1, Stages, Distinct
       DEF Follows, Stage, Past, DifPath, DifTable, DifStarts, DifCalm, DifReady, DifSet, DifLeft, Conf, Runs
  <2>2. CASE k = 2
    BY <1>5, <2>2, Stages, Distinct
       DEF Follows, Stage, Past, DifPath, DifTable, DifStarts, DifCalm, DifReady, DifSet, DifLeft, Conf, Runs
  <2>3. CASE k = 3
    BY <1>5, <2>3, Stages, Distinct
       DEF Follows, Stage, Past, DifPath, DifTable, DifStarts, DifCalm, DifReady, DifSet, DifLeft, Conf, Runs
  <2>4. CASE k = 4
    BY <1>5, <2>4, Stages, Distinct
       DEF Follows, Stage, Past, DifPath, DifTable, DifStarts, DifCalm, DifReady, DifSet, DifLeft, Conf, Runs
  <2>5. CASE k = 5
    BY <1>5, <2>5, Stages, Distinct
       DEF Follows, Stage, Past, DifPath, DifTable, DifStarts, DifCalm, DifReady, DifSet, DifLeft, Conf, Runs
  <2> QED BY <2>0, <2>1, <2>2, <2>3, <2>4, <2>5
<1>6. CASE op = "DESTROY"
  <2>0. k \in 1 .. 2
    BY <1>6, Lengths
  <2>1. CASE k = 1
    BY <1>6, <2>1, Stages, Distinct
       DEF Follows, Stage, Past, DifPath, DifTable, DifStarts, DifCalm, DifReady, DifSet, DifLeft, Conf, Runs
  <2>2. CASE k = 2
    BY <1>6, <2>2, Stages, Distinct
       DEF Follows, Stage, Past, DifPath, DifTable, DifStarts, DifCalm, DifReady, DifSet, DifLeft, Conf, Runs
  <2> QED BY <2>0, <2>1, <2>2
<1> QED BY <1>1, <1>2, <1>3, <1>4, <1>5, <1>6 DEF Ops

LEMMA TdcFollows ==
    ASSUME NEW op \in Ops, NEW k \in 1 .. Len(Plan[op])
    PROVE  Follows(TdcServers, TdcTable, TdcPath, op, k)
<1>1. CASE op = "PREPARE"
  <2>0. k \in 1 .. 5
    BY <1>1, Lengths
  <2>1. CASE k = 1
    BY <1>1, <2>1, Stages, Distinct
       DEF Follows, Stage, Past, TdcPath, TdcTable, TdcCalm, Ready, Conf, Runs
  <2>2. CASE k = 2
    BY <1>1, <2>2, Stages, Distinct
       DEF Follows, Stage, Past, TdcPath, TdcTable, TdcCalm, Ready, Conf, Runs
  <2>3. CASE k = 3
    BY <1>1, <2>3, Stages, Distinct
       DEF Follows, Stage, Past, TdcPath, TdcTable, TdcCalm, Ready, Conf, Runs
  <2>4. CASE k = 4
    BY <1>1, <2>4, Stages, Distinct
       DEF Follows, Stage, Past, TdcPath, TdcTable, TdcCalm, Ready, Conf, Runs
  <2>5. CASE k = 5
    BY <1>1, <2>5, Stages, Distinct
       DEF Follows, Stage, Past, TdcPath, TdcTable, TdcCalm, Ready, Conf, Runs
  <2> QED BY <2>0, <2>1, <2>2, <2>3, <2>4, <2>5
<1>2. CASE op = "INITIALISE"
  <2>0. k \in 1 .. 5
    BY <1>2, Lengths
  <2>1. CASE k = 1
    BY <1>2, <2>1, Stages, Distinct
       DEF Follows, Stage, Past, TdcPath, TdcTable, TdcCalm, Ready, Conf, Runs
  <2>2. CASE k = 2
    BY <1>2, <2>2, Stages, Distinct
       DEF Follows, Stage, Past, TdcPath, TdcTable, TdcCalm, Ready, Conf, Runs
  <2>3. CASE k = 3
    BY <1>2, <2>3, Stages, Distinct
       DEF Follows, Stage, Past, TdcPath, TdcTable, TdcCalm, Ready, Conf, Runs
  <2>4. CASE k = 4
    BY <1>2, <2>4, Stages, Distinct
       DEF Follows, Stage, Past, TdcPath, TdcTable, TdcCalm, Ready, Conf, Runs
  <2>5. CASE k = 5
    BY <1>2, <2>5, Stages, Distinct
       DEF Follows, Stage, Past, TdcPath, TdcTable, TdcCalm, Ready, Conf, Runs
  <2> QED BY <2>0, <2>1, <2>2, <2>3, <2>4, <2>5
<1>3. CASE op = "CONFIGURE"
  <2>0. k \in 1 .. 4
    BY <1>3, Lengths
  <2>1. CASE k = 1
    BY <1>3, <2>1, Stages, Distinct
       DEF Follows, Stage, Past, TdcPath, TdcTable, TdcCalm, Ready, Conf, Runs
  <2>2. CASE k = 2
    BY <1>3, <2>2, Stages, Distinct
       DEF Follows, Stage, Past, TdcPath, TdcTable, TdcCalm, Ready, Conf, Runs
  <2>3. CASE k = 3
    BY <1>3, <2>3, Stages, Distinct
       DEF Follows, Stage, Past, TdcPath, TdcTable, TdcCalm, Ready, Conf, Runs
  <2>4. CASE k = 4
    BY <1>3, <2>4, Stages, Distinct
       DEF Follows, Stage, Past, TdcPath, TdcTable, TdcCalm, Ready, Conf, Runs
  <2> QED BY <2>0, <2>1, <2>2, <2>3, <2>4
<1>4. CASE op = "START"
  <2>0. k \in 1 .. 5
    BY <1>4, Lengths
  <2>1. CASE k = 1
    BY <1>4, <2>1, Stages, Distinct
       DEF Follows, Stage, Past, TdcPath, TdcTable, TdcCalm, Ready, Conf, Runs
  <2>2. CASE k = 2
    BY <1>4, <2>2, Stages, Distinct
       DEF Follows, Stage, Past, TdcPath, TdcTable, TdcCalm, Ready, Conf, Runs
  <2>3. CASE k = 3
    BY <1>4, <2>3, Stages, Distinct
       DEF Follows, Stage, Past, TdcPath, TdcTable, TdcCalm, Ready, Conf, Runs
  <2>4. CASE k = 4
    BY <1>4, <2>4, Stages, Distinct
       DEF Follows, Stage, Past, TdcPath, TdcTable, TdcCalm, Ready, Conf, Runs
  <2>5. CASE k = 5
    BY <1>4, <2>5, Stages, Distinct
       DEF Follows, Stage, Past, TdcPath, TdcTable, TdcCalm, Ready, Conf, Runs
  <2> QED BY <2>0, <2>1, <2>2, <2>3, <2>4, <2>5
<1>5. CASE op = "STOP"
  <2>0. k \in 1 .. 5
    BY <1>5, Lengths
  <2>1. CASE k = 1
    BY <1>5, <2>1, Stages, Distinct
       DEF Follows, Stage, Past, TdcPath, TdcTable, TdcCalm, Ready, Conf, Runs
  <2>2. CASE k = 2
    BY <1>5, <2>2, Stages, Distinct
       DEF Follows, Stage, Past, TdcPath, TdcTable, TdcCalm, Ready, Conf, Runs
  <2>3. CASE k = 3
    BY <1>5, <2>3, Stages, Distinct
       DEF Follows, Stage, Past, TdcPath, TdcTable, TdcCalm, Ready, Conf, Runs
  <2>4. CASE k = 4
    BY <1>5, <2>4, Stages, Distinct
       DEF Follows, Stage, Past, TdcPath, TdcTable, TdcCalm, Ready, Conf, Runs
  <2>5. CASE k = 5
    BY <1>5, <2>5, Stages, Distinct
       DEF Follows, Stage, Past, TdcPath, TdcTable, TdcCalm, Ready, Conf, Runs
  <2> QED BY <2>0, <2>1, <2>2, <2>3, <2>4, <2>5
<1>6. CASE op = "DESTROY"
  <2>0. k \in 1 .. 2
    BY <1>6, Lengths
  <2>1. CASE k = 1
    BY <1>6, <2>1, Stages, Distinct
       DEF Follows, Stage, Past, TdcPath, TdcTable, TdcCalm, Ready, Conf, Runs
  <2>2. CASE k = 2
    BY <1>6, <2>2, Stages, Distinct
       DEF Follows, Stage, Past, TdcPath, TdcTable, TdcCalm, Ready, Conf, Runs
  <2> QED BY <2>0, <2>1, <2>2
<1> QED BY <1>1, <1>2, <1>3, <1>4, <1>5, <1>6 DEF Ops

LEMMA CccFollows ==
    ASSUME NEW op \in Ops, NEW k \in 1 .. Len(Plan[op])
    PROVE  Follows({Ccc}, CccTable, CccPath, op, k)
<1>1. CASE op = "PREPARE"
  <2>0. k \in 1 .. 5
    BY <1>1, Lengths
  <2>1. CASE k = 1
    BY <1>1, <2>1, Stages, Distinct
       DEF Follows, Stage, Past, CccPath, CccTable, CccCalm, Opened, Ready, Conf, Runs
  <2>2. CASE k = 2
    BY <1>1, <2>2, Stages, Distinct
       DEF Follows, Stage, Past, CccPath, CccTable, CccCalm, Opened, Ready, Conf, Runs
  <2>3. CASE k = 3
    BY <1>1, <2>3, Stages, Distinct
       DEF Follows, Stage, Past, CccPath, CccTable, CccCalm, Opened, Ready, Conf, Runs
  <2>4. CASE k = 4
    BY <1>1, <2>4, Stages, Distinct
       DEF Follows, Stage, Past, CccPath, CccTable, CccCalm, Opened, Ready, Conf, Runs
  <2>5. CASE k = 5
    BY <1>1, <2>5, Stages, Distinct
       DEF Follows, Stage, Past, CccPath, CccTable, CccCalm, Opened, Ready, Conf, Runs
  <2> QED BY <2>0, <2>1, <2>2, <2>3, <2>4, <2>5
<1>2. CASE op = "INITIALISE"
  <2>0. k \in 1 .. 5
    BY <1>2, Lengths
  <2>1. CASE k = 1
    BY <1>2, <2>1, Stages, Distinct
       DEF Follows, Stage, Past, CccPath, CccTable, CccCalm, Opened, Ready, Conf, Runs
  <2>2. CASE k = 2
    BY <1>2, <2>2, Stages, Distinct
       DEF Follows, Stage, Past, CccPath, CccTable, CccCalm, Opened, Ready, Conf, Runs
  <2>3. CASE k = 3
    BY <1>2, <2>3, Stages, Distinct
       DEF Follows, Stage, Past, CccPath, CccTable, CccCalm, Opened, Ready, Conf, Runs
  <2>4. CASE k = 4
    BY <1>2, <2>4, Stages, Distinct
       DEF Follows, Stage, Past, CccPath, CccTable, CccCalm, Opened, Ready, Conf, Runs
  <2>5. CASE k = 5
    BY <1>2, <2>5, Stages, Distinct
       DEF Follows, Stage, Past, CccPath, CccTable, CccCalm, Opened, Ready, Conf, Runs
  <2> QED BY <2>0, <2>1, <2>2, <2>3, <2>4, <2>5
<1>3. CASE op = "CONFIGURE"
  <2>0. k \in 1 .. 4
    BY <1>3, Lengths
  <2>1. CASE k = 1
    BY <1>3, <2>1, Stages, Distinct
       DEF Follows, Stage, Past, CccPath, CccTable, CccCalm, Opened, Ready, Conf, Runs
  <2>2. CASE k = 2
    BY <1>3, <2>2, Stages, Distinct
       DEF Follows, Stage, Past, CccPath, CccTable, CccCalm, Opened, Ready, Conf, Runs
  <2>3. CASE k = 3
    BY <1>3, <2>3, Stages, Distinct
       DEF Follows, Stage, Past, CccPath, CccTable, CccCalm, Opened, Ready, Conf, Runs
  <2>4. CASE k = 4
    BY <1>3, <2>4, Stages, Distinct
       DEF Follows, Stage, Past, CccPath, CccTable, CccCalm, Opened, Ready, Conf, Runs
  <2> QED BY <2>0, <2>1, <2>2, <2>3, <2>4
<1>4. CASE op = "START"
  <2>0. k \in 1 .. 5
    BY <1>4, Lengths
  <2>1. CASE k = 1
    BY <1>4, <2>1, Stages, Distinct
       DEF Follows, Stage, Past, CccPath, CccTable, CccCalm, Opened, Ready, Conf, Runs
  <2>2. CASE k = 2
    BY <1>4, <2>2, Stages, Distinct
       DEF Follows, Stage, Past, CccPath, CccTable, CccCalm, Opened, Ready, Conf, Runs
  <2>3. CASE k = 3
    BY <1>4, <2>3, Stages, Distinct
       DEF Follows, Stage, Past, CccPath, CccTable, CccCalm, Opened, Ready, Conf, Runs
  <2>4. CASE k = 4
    BY <1>4, <2>4, Stages, Distinct
       DEF Follows, Stage, Past, CccPath, CccTable, CccCalm, Opened, Ready, Conf, Runs
  <2>5. CASE k = 5
    BY <1>4, <2>5, Stages, Distinct
       DEF Follows, Stage, Past, CccPath, CccTable, CccCalm, Opened, Ready, Conf, Runs
  <2> QED BY <2>0, <2>1, <2>2, <2>3, <2>4, <2>5
<1>5. CASE op = "STOP"
  <2>0. k \in 1 .. 5
    BY <1>5, Lengths
  <2>1. CASE k = 1
    BY <1>5, <2>1, Stages, Distinct
       DEF Follows, Stage, Past, CccPath, CccTable, CccCalm, Opened, Ready, Conf, Runs
  <2>2. CASE k = 2
    BY <1>5, <2>2, Stages, Distinct
       DEF Follows, Stage, Past, CccPath, CccTable, CccCalm, Opened, Ready, Conf, Runs
  <2>3. CASE k = 3
    BY <1>5, <2>3, Stages, Distinct
       DEF Follows, Stage, Past, CccPath, CccTable, CccCalm, Opened, Ready, Conf, Runs
  <2>4. CASE k = 4
    BY <1>5, <2>4, Stages, Distinct
       DEF Follows, Stage, Past, CccPath, CccTable, CccCalm, Opened, Ready, Conf, Runs
  <2>5. CASE k = 5
    BY <1>5, <2>5, Stages, Distinct
       DEF Follows, Stage, Past, CccPath, CccTable, CccCalm, Opened, Ready, Conf, Runs
  <2> QED BY <2>0, <2>1, <2>2, <2>3, <2>4, <2>5
<1>6. CASE op = "DESTROY"
  <2>0. k \in 1 .. 2
    BY <1>6, Lengths
  <2>1. CASE k = 1
    BY <1>6, <2>1, Stages, Distinct
       DEF Follows, Stage, Past, CccPath, CccTable, CccCalm, Opened, Ready, Conf, Runs
  <2>2. CASE k = 2
    BY <1>6, <2>2, Stages, Distinct
       DEF Follows, Stage, Past, CccPath, CccTable, CccCalm, Opened, Ready, Conf, Runs
  <2> QED BY <2>0, <2>1, <2>2
<1> QED BY <1>1, <1>2, <1>3, <1>4, <1>5, <1>6 DEF Ops

LEMMA BuilderFollows ==
    ASSUME NEW op \in Ops, NEW k \in 1 .. Len(Plan[op])
    PROVE  Follows({Builder}, BuilderTable, BuilderPath, op, k)
<1>1. CASE op = "PREPARE"
  <2>0. k \in 1 .. 5
    BY <1>1, Lengths
  <2>1. CASE k = 1
    BY <1>1, <2>1, Stages, Distinct
       DEF Follows, Stage, Past, BuilderPath, BuilderTable, TdcCalm, Ready, Conf, Runs
  <2>2. CASE k = 2
    BY <1>1, <2>2, Stages, Distinct
       DEF Follows, Stage, Past, BuilderPath, BuilderTable, TdcCalm, Ready, Conf, Runs
  <2>3. CASE k = 3
    BY <1>1, <2>3, Stages, Distinct
       DEF Follows, Stage, Past, BuilderPath, BuilderTable, TdcCalm, Ready, Conf, Runs
  <2>4. CASE k = 4
    BY <1>1, <2>4, Stages, Distinct
       DEF Follows, Stage, Past, BuilderPath, BuilderTable, TdcCalm, Ready, Conf, Runs
  <2>5. CASE k = 5
    BY <1>1, <2>5, Stages, Distinct
       DEF Follows, Stage, Past, BuilderPath, BuilderTable, TdcCalm, Ready, Conf, Runs
  <2> QED BY <2>0, <2>1, <2>2, <2>3, <2>4, <2>5
<1>2. CASE op = "INITIALISE"
  <2>0. k \in 1 .. 5
    BY <1>2, Lengths
  <2>1. CASE k = 1
    BY <1>2, <2>1, Stages, Distinct
       DEF Follows, Stage, Past, BuilderPath, BuilderTable, TdcCalm, Ready, Conf, Runs
  <2>2. CASE k = 2
    BY <1>2, <2>2, Stages, Distinct
       DEF Follows, Stage, Past, BuilderPath, BuilderTable, TdcCalm, Ready, Conf, Runs
  <2>3. CASE k = 3
    BY <1>2, <2>3, Stages, Distinct
       DEF Follows, Stage, Past, BuilderPath, BuilderTable, TdcCalm, Ready, Conf, Runs
  <2>4. CASE k = 4
    BY <1>2, <2>4, Stages, Distinct
       DEF Follows, Stage, Past, BuilderPath, BuilderTable, TdcCalm, Ready, Conf, Runs
  <2>5. CASE k = 5
    BY <1>2, <2>5, Stages, Distinct
       DEF Follows, Stage, Past, BuilderPath, BuilderTable, TdcCalm, Ready, Conf, Runs
  <2> QED BY <2>0, <2>1, <2>2, <2>3, <2>4, <2>5
<1>3. CASE op = "CONFIGURE"
  <2>0. k \in 1 .. 4
    BY <1>3, Lengths
  <2>1. CASE k = 1
    BY <1>3, <2>1, Stages, Distinct
       DEF Follows, Stage, Past, BuilderPath, BuilderTable, TdcCalm, Ready, Conf, Runs
  <2>2. CASE k = 2
    BY <1>3, <2>2, Stages, Distinct
       DEF Follows, Stage, Past, BuilderPath, BuilderTable, TdcCalm, Ready, Conf, Runs
  <2>3. CASE k = 3
    BY <1>3, <2>3, Stages, Distinct
       DEF Follows, Stage, Past, BuilderPath, BuilderTable, TdcCalm, Ready, Conf, Runs
  <2>4. CASE k = 4
    BY <1>3, <2>4, Stages, Distinct
       DEF Follows, Stage, Past, BuilderPath, BuilderTable, TdcCalm, Ready, Conf, Runs
  <2> QED BY <2>0, <2>1, <2>2, <2>3, <2>4
<1>4. CASE op = "START"
  <2>0. k \in 1 .. 5
    BY <1>4, Lengths
  <2>1. CASE k = 1
    BY <1>4, <2>1, Stages, Distinct
       DEF Follows, Stage, Past, BuilderPath, BuilderTable, TdcCalm, Ready, Conf, Runs
  <2>2. CASE k = 2
    BY <1>4, <2>2, Stages, Distinct
       DEF Follows, Stage, Past, BuilderPath, BuilderTable, TdcCalm, Ready, Conf, Runs
  <2>3. CASE k = 3
    BY <1>4, <2>3, Stages, Distinct
       DEF Follows, Stage, Past, BuilderPath, BuilderTable, TdcCalm, Ready, Conf, Runs
  <2>4. CASE k = 4
    BY <1>4, <2>4, Stages, Distinct
       DEF Follows, Stage, Past, BuilderPath, BuilderTable, TdcCalm, Ready, Conf, Runs
  <2>5. CASE k = 5
    BY <1>4, <2>5, Stages, Distinct
       DEF Follows, Stage, Past, BuilderPath, BuilderTable, TdcCalm, Ready, Conf, Runs
  <2> QED BY <2>0, <2>1, <2>2, <2>3, <2>4, <2>5
<1>5. CASE op = "STOP"
  <2>0. k \in 1 .. 5
    BY <1>5, Lengths
  <2>1. CASE k = 1
    BY <1>5, <2>1, Stages, Distinct
       DEF Follows, Stage, Past, BuilderPath, BuilderTable, TdcCalm, Ready, Conf, Runs
  <2>2. CASE k = 2
    BY <1>5, <2>2, Stages, Distinct
       DEF Follows, Stage, Past, BuilderPath, BuilderTable, TdcCalm, Ready, Conf, Runs
  <2>3. CASE k = 3
    BY <1>5, <2>3, Stages, Distinct
       DEF Follows, Stage, Past, BuilderPath, BuilderTable, TdcCalm, Ready, Conf, Runs
  <2>4. CASE k = 4
    BY <1>5, <2>4, Stages, Distinct
       DEF Follows, Stage, Past, BuilderPath, BuilderTable, TdcCalm, Ready, Conf, Runs
  <2>5. CASE k = 5
    BY <1>5, <2>5, Stages, Distinct
       DEF Follows, Stage, Past, BuilderPath, BuilderTable, TdcCalm, Ready, Conf, Runs
  <2> QED BY <2>0, <2>1, <2>2, <2>3, <2>4, <2>5
<1>6. CASE op = "DESTROY"
  <2>0. k \in 1 .. 2
    BY <1>6, Lengths
  <2>1. CASE k = 1
    BY <1>6, <2>1, Stages, Distinct
       DEF Follows, Stage, Past, BuilderPath, BuilderTable, TdcCalm, Ready, Conf, Runs
  <2>2. CASE k = 2
    BY <1>6, <2>2, Stages, Distinct
       DEF Follows, Stage, Past, BuilderPath, BuilderTable, TdcCalm, Ready, Conf, Runs
  <2> QED BY <2>0, <2>1, <2>2
<1> QED BY <1>1, <1>2, <1>3, <1>4, <1>5, <1>6 DEF Ops

(* Where a command begins and ends. *)
Fits(path, rest, x) ==
    /\ rest[x[2]] \subseteq path[x[1]][1]
    /\ path[x[1]][Len(Plan[x[1]]) + 1] \subseteq rest[x[3]]

LEMMA AllFit ==
    ASSUME NEW x \in DaqTable
    PROVE  /\ Fits(DifPath, DifRest, x) /\ Fits(TdcPath, TdcRest, x)
           /\ Fits(CccPath, CccRest, x) /\ Fits(BuilderPath, BuilderRest, x)
<1>1. CASE x = <<"PREPARE", "DISCOVERED", "PREPARED">>
  <2>1. /\ x[1] = "PREPARE" /\ x[2] = "DISCOVERED" /\ x[3] = "PREPARED"
        /\ Len(Plan["PREPARE"]) + 1 = 6
    BY <1>1, Lengths
  <2> QED BY <2>1 DEF Fits, DifPath, DifRest, TdcPath, TdcRest, CccPath, CccRest,
                     BuilderPath, BuilderRest, DifCalm, DifReady, DifSet, DifLeft,
                     TdcCalm, CccCalm, Opened, Ready, Conf, Runs
<1>2. CASE x = <<"PREPARE", "PREPARED", "PREPARED">>
  <2>1. /\ x[1] = "PREPARE" /\ x[2] = "PREPARED" /\ x[3] = "PREPARED"
        /\ Len(Plan["PREPARE"]) + 1 = 6
    BY <1>2, Lengths
  <2> QED BY <2>1 DEF Fits, DifPath, DifRest, TdcPath, TdcRest, CccPath, CccRest,
                     BuilderPath, BuilderRest, DifCalm, DifReady, DifSet, DifLeft,
                     TdcCalm, CccCalm, Opened, Ready, Conf, Runs
<1>3. CASE x = <<"INITIALISE", "PREPARED", "INITIALISED">>
  <2>1. /\ x[1] = "INITIALISE" /\ x[2] = "PREPARED" /\ x[3] = "INITIALISED"
        /\ Len(Plan["INITIALISE"]) + 1 = 6
    BY <1>3, Lengths
  <2> QED BY <2>1 DEF Fits, DifPath, DifRest, TdcPath, TdcRest, CccPath, CccRest,
                     BuilderPath, BuilderRest, DifCalm, DifReady, DifSet, DifLeft,
                     TdcCalm, CccCalm, Opened, Ready, Conf, Runs
<1>4. CASE x = <<"CONFIGURE", "INITIALISED", "CONFIGURED">>
  <2>1. /\ x[1] = "CONFIGURE" /\ x[2] = "INITIALISED" /\ x[3] = "CONFIGURED"
        /\ Len(Plan["CONFIGURE"]) + 1 = 5
    BY <1>4, Lengths
  <2> QED BY <2>1 DEF Fits, DifPath, DifRest, TdcPath, TdcRest, CccPath, CccRest,
                     BuilderPath, BuilderRest, DifCalm, DifReady, DifSet, DifLeft,
                     TdcCalm, CccCalm, Opened, Ready, Conf, Runs
<1>5. CASE x = <<"CONFIGURE", "CONFIGURED", "CONFIGURED">>
  <2>1. /\ x[1] = "CONFIGURE" /\ x[2] = "CONFIGURED" /\ x[3] = "CONFIGURED"
        /\ Len(Plan["CONFIGURE"]) + 1 = 5
    BY <1>5, Lengths
  <2> QED BY <2>1 DEF Fits, DifPath, DifRest, TdcPath, TdcRest, CccPath, CccRest,
                     BuilderPath, BuilderRest, DifCalm, DifReady, DifSet, DifLeft,
                     TdcCalm, CccCalm, Opened, Ready, Conf, Runs
<1>6. CASE x = <<"START", "CONFIGURED", "RUNNING">>
  <2>1. /\ x[1] = "START" /\ x[2] = "CONFIGURED" /\ x[3] = "RUNNING"
        /\ Len(Plan["START"]) + 1 = 6
    BY <1>6, Lengths
  <2> QED BY <2>1 DEF Fits, DifPath, DifRest, TdcPath, TdcRest, CccPath, CccRest,
                     BuilderPath, BuilderRest, DifCalm, DifReady, DifSet, DifLeft,
                     TdcCalm, CccCalm, Opened, Ready, Conf, Runs
<1>7. CASE x = <<"STOP", "RUNNING", "CONFIGURED">>
  <2>1. /\ x[1] = "STOP" /\ x[2] = "RUNNING" /\ x[3] = "CONFIGURED"
        /\ Len(Plan["STOP"]) + 1 = 6
    BY <1>7, Lengths
  <2> QED BY <2>1 DEF Fits, DifPath, DifRest, TdcPath, TdcRest, CccPath, CccRest,
                     BuilderPath, BuilderRest, DifCalm, DifReady, DifSet, DifLeft,
                     TdcCalm, CccCalm, Opened, Ready, Conf, Runs
<1>8. CASE x = <<"DESTROY", "CONFIGURED", "PREPARED">>
  <2>1. /\ x[1] = "DESTROY" /\ x[2] = "CONFIGURED" /\ x[3] = "PREPARED"
        /\ Len(Plan["DESTROY"]) + 1 = 3
    BY <1>8, Lengths
  <2> QED BY <2>1 DEF Fits, DifPath, DifRest, TdcPath, TdcRest, CccPath, CccRest,
                     BuilderPath, BuilderRest, DifCalm, DifReady, DifSet, DifLeft,
                     TdcCalm, CccCalm, Opened, Ready, Conf, Runs
<1>9. CASE x = <<"DESTROY", "INITIALISED", "PREPARED">>
  <2>1. /\ x[1] = "DESTROY" /\ x[2] = "INITIALISED" /\ x[3] = "PREPARED"
        /\ Len(Plan["DESTROY"]) + 1 = 3
    BY <1>9, Lengths
  <2> QED BY <2>1 DEF Fits, DifPath, DifRest, TdcPath, TdcRest, CccPath, CccRest,
                     BuilderPath, BuilderRest, DifCalm, DifReady, DifSet, DifLeft,
                     TdcCalm, CccCalm, Opened, Ready, Conf, Runs
<1> QED BY <1>1, <1>2, <1>3, <1>4, <1>5, <1>6, <1>7, <1>8, <1>9 DEF DaqTable

LEMMA MembersAcquire ==
    /\ Members \subseteq Acquiring /\ Members \subseteq Servers
    /\ Ccc \in Members /\ Builder \in Members
  BY AcquiringAreServers DEF Members, Readers, Acquiring

(* The same, for one server that acquires.                                  *)
LEMMA ServerFollows ==
    ASSUME NEW s \in Acquiring, NEW op \in Ops, NEW k \in 1 .. Len(Plan[op])
    PROVE  \/ s \notin Plan[op][k].to /\ Path(s)[op][k + 1] = Path(s)[op][k]
           \/ /\ s \in Plan[op][k].to
              /\ \A v \in Path(s)[op][k] \cup Path(s)[op][k + 1], w \in ServerStates :
                   Past(Table(s), Plan[op][k].post, v, w) => w \in Path(s)[op][k + 1]
<1>1. CASE s \in DifServers
  <2>1. Path(s) = DifPath /\ Table(s) = DifTable
    BY <1>1, Tables DEF Path
  <2> QED BY <1>1, <2>1, DifFollows DEF Follows
<1>2. CASE s \in TdcServers
  <2>1. Path(s) = TdcPath /\ Table(s) = TdcTable
    BY <1>2, Tables, Distinct DEF Path
  <2> QED BY <1>2, <2>1, TdcFollows DEF Follows
<1>3. CASE s = Ccc
  <2>1. Path(s) = CccPath /\ Table(s) = CccTable
    BY <1>3, Tables, Distinct DEF Path
  <2> QED BY <1>3, <2>1, CccFollows DEF Follows
<1>4. CASE s = Builder
  <2>1. Path(s) = BuilderPath /\ Table(s) = BuilderTable
    BY <1>4, Tables, Distinct DEF Path
  <2> QED BY <1>4, <2>1, BuilderFollows DEF Follows
<1> QED BY <1>1, <1>2, <1>3, <1>4 DEF Acquiring

LEMMA ServerFits ==
    ASSUME NEW s \in Acquiring, NEW x \in DaqTable
    PROVE  /\ Rest(s)[x[2]] \subseteq Path(s)[x[1]][1]
           /\ Path(s)[x[1]][Len(Plan[x[1]]) + 1] \subseteq Rest(s)[x[3]]
<1>1. CASE s \in DifServers
  BY <1>1, AllFit DEF Path, Rest, Fits
<1>2. CASE s \in TdcServers
  BY <1>2, AllFit, Distinct DEF Path, Rest, Fits
<1>3. CASE s = Ccc
  BY <1>3, AllFit, Distinct DEF Path, Rest, Fits
<1>4. CASE s = Builder
  BY <1>4, AllFit, Distinct DEF Path, Rest, Fits
<1> QED BY <1>1, <1>2, <1>3, <1>4 DEF Acquiring

LEMMA AfterIsPast ==
    ASSUME NEW s \in Servers, NEW post
    PROVE  Past(Table(s), post, state[s], After(s, post))
<1>1. CASE Accepts(s, post)
  <2> DEFINE y == CHOOSE x \in Table(s) : x[1] = post /\ x[2] = state[s]
  <2>1. y \in Table(s) /\ y[1] = post /\ y[2] = state[s]
    BY <1>1 DEF Accepts
  <2>2. After(s, post) = y[3]
    BY <1>1 DEF After
  <2> HIDE DEF y
  <2> QED BY <2>1, <2>2 DEF Past
<1>2. CASE ~Accepts(s, post)
  BY <1>2 DEF After, Past, Accepts
<1> QED BY <1>1, <1>2

-----------------------------------------------------------------------------
(* The ranges of the states.                                                *)

LEMMA RangesKept == IInv /\ Ranges /\ [Next]_vars => Ranges'
<1> SUFFICES ASSUME IInv, Ranges, [Next]_vars, NEW s \in Acquiring
             PROVE  state'[s] \in Calm(s) \cup {"VOID", "DOWN", "RUNNING"}
  BY DEF Ranges, Calm
<1>0. state \in [Servers -> ServerStates] /\ s \in Servers
  BY AcquiringAreServers DEF IInv, TypeOK
<1>1. /\ \A x \in Table(s) : x[3] \in Calm(s) \cup {"RUNNING"}
      /\ "CREATED" \in Calm(s)
  <2>1. CASE s \in DifServers
    BY <2>1, Tables DEF DifTable, DifStarts, Calm, DifCalm
  <2>2. CASE s \in TdcServers
    BY <2>2, Tables, Distinct DEF TdcTable, Calm, TdcCalm
  <2>3. CASE s = Ccc
    BY <2>3, Tables, Distinct DEF CccTable, Calm, CccCalm, Opened
  <2>4. CASE s = Builder
    BY <2>4, Tables, Distinct DEF BuilderTable, Calm, TdcCalm
  <2> QED BY <2>1, <2>2, <2>3, <2>4 DEF Acquiring
<1>2. ASSUME state'[s] \in {state[s], "CREATED", "VOID", "DOWN"} \cup {x[3] : x \in Table(s)}
      PROVE  state'[s] \in Calm(s) \cup {"VOID", "DOWN", "RUNNING"}
  BY <1>1, <1>2 DEF Ranges
<1>3. ASSUME NEW c \in cmd.todo, Answered(c)
      PROVE  state'[s] \in {state[s]} \cup {x[3] : x \in Table(s)}
  <2>1. state' = [state EXCEPT ![c[1]] = After(c[1], Now.post)]
    BY <1>3 DEF Answered
  <2>2. After(s, Now.post) = state[s] \/ \E x \in Table(s) : After(s, Now.post) = x[3]
    BY <1>0, AfterIsPast DEF Past
  <2> QED BY <1>0, <2>1, <2>2
<1>4. ASSUME NEW c \in cmd.todo,
             PostDif(c) \/ PostTdc(c) \/ PostDb(c) \/ PostBuilder(c) \/ PostCard(c)
      PROVE  state'[s] \in {state[s]} \cup {x[3] : x \in Table(s)}
  BY <1>3, <1>4 DEF PostDif, PostTdc, PostDb, PostBuilder, PostCard
<1>5. ASSUME NEW c \in cmd.todo, Find(c) PROVE state'[s] \in {state[s], "CREATED"}
  BY <1>0, <1>5 DEF Find
<1>6. ASSUME NEW post, Trigger(post) PROVE state'[s] = state[s]
  BY <1>0, <1>6, AcquiringAreServers DEF Trigger
<1>7. ASSUME NEW z \in Servers, Crash(z) \/ DiesSpent(z) \/ Restart(z)
      PROVE  state'[s] \in {state[s], "CREATED", "VOID", "DOWN"}
  BY <1>0, <1>7 DEF Crash, DiesSpent, Restart, Fresh
<1>8. CASE \/ CommandDiscover \/ DiscoverDone \/ NextStage \/ Done \/ RunControlRestarts
           \/ (\E op \in DOMAIN Plan : Command(op))
           \/ (\E to \in DaqStates : ForceState(to)) \/ UNCHANGED vars
  <2>1. state' = state
    BY <1>8 DEF CommandDiscover, DiscoverDone, NextStage, Done, RunControlRestarts,
                Command, ForceState, vars
  <2> QED BY <1>2, <2>1
<1> QED BY <1>2, <1>4, <1>5, <1>6, <1>7, <1>8 DEF Next

-----------------------------------------------------------------------------
(* The cycle. *)

(* Steps that change neither the run control nor a server of the cycle.     *)
LEMMA WholeSame ==
    ASSUME Whole, UNCHANGED <<kind, daq, cmd, clients>>, clean' \in {clean, "none"},
           clean' # "none" => spent \subseteq spent' /\ \A s \in Members' : state'[s] = state[s]
    PROVE  Whole'
<1> SUFFICES ASSUME clean' = clean, clean # "none" PROVE Whole'
  BY DEF Whole
<1>1. Members' \subseteq Members
  BY DEF Members, Readers
<1>2. ASSUME Beginning PROVE Beginning'
  BY <1>1, <1>2 DEF Beginning, Known, Pending, Calm
<1>3. ASSUME Placed PROVE Placed'
  BY <1>1, <1>3 DEF Placed, InPlace, Pending, Path, Rest
<1> QED BY <1>2, <1>3 DEF Whole

LEMMA DiscoverBegins == ASSUME IInv, Ranges, CommandDiscover PROVE Whole'
<1> DEFINE T == {<<s, IF s \in TdcServers THEN discovers ELSE 0>> :
                 s \in IF kind = "FullDaq" THEN Servers ELSE Servers \ TdcServers}
<1> SUFFICES ASSUME clean' = "begun" PROVE Beginning'
  BY DEF Whole, CommandDiscover
<1>1. /\ cmd' = [op |-> "DISCOVER", stage |-> 1, todo |-> T]
      /\ UNCHANGED <<kind, state, spent>>
      /\ \A s \in Servers : Up(s) /\ (s \in Acquiring => ~Running(s))
  BY DEF CommandDiscover
<1>2. cmd'.op = "DISCOVER" /\ cmd'.todo = T
  BY <1>1
<1>3. Members' = Members
  BY <1>1 DEF Members, Readers
<1>4. ASSUME NEW s \in Members PROVE \E c \in T : c[1] = s
  <2>1. s \in IF kind = "FullDaq" THEN Servers ELSE Servers \ TdcServers
    BY MembersAcquire, Distinct DEF Members, Readers
  <2>2. <<s, IF s \in TdcServers THEN discovers ELSE 0>> \in T
    BY <2>1
  <2> QED BY <2>2
<1> HIDE DEF T
<1>5. ASSUME NEW s \in Members PROVE state[s] \in Calm(s) \cup {"VOID"}
  <2>1. s \in Acquiring /\ s \in Servers
    BY MembersAcquire
  <2> QED BY <1>1, <2>1 DEF Ranges, Up, Running
<1> QED BY <1>1, <1>2, <1>3, <1>4, <1>5 DEF Beginning, Known, Pending, Calm

LEMMA FindWhole == ASSUME IInv, Whole, NEW c \in cmd.todo, Find(c) PROVE Whole'
<1>1. /\ cmd.op = "DISCOVER" /\ clean' = clean /\ UNCHANGED <<kind, spent>>
      /\ clients' = {d \in clients : d[1] # c[1] \/ d[1] \in TdcServers}
                    \cup (IF Up(c[1]) THEN {c} ELSE {})
      /\ state' = [state EXCEPT ![c[1]] = IF @ = "VOID" THEN "CREATED" ELSE @]
  BY DEF Find, history
<1>2. cmd'.op = "DISCOVER" /\ cmd'.todo = cmd.todo \ {c}
  <2>1. /\ cmd = [op |-> "DISCOVER", stage |-> 1, todo |-> cmd.todo]
        /\ cmd' = [cmd EXCEPT !.todo = cmd.todo \ {c}]
    <3>1. cmd # Idle /\ cmd.op \notin DOMAIN Plan
      BY <1>1, IdleIs, Commands DEF Ops
    <3>2. cmd' = [cmd EXCEPT !.todo = cmd.todo \ {c}]
      BY DEF Find
    <3> QED BY <1>1, <3>1, <3>2 DEF IInv, TypeOK
  <2> QED BY <2>1
<1> SUFFICES ASSUME clean = "begun", NEW s \in Members
             PROVE  /\ Known(s)'
                    /\ state'[s] \in Calm(s) \/ (state'[s] = "VOID" /\ Pending(s)')
  BY <1>1, <1>2 DEF Whole, Placed, Beginning, Members, Readers, Calm
<1>3. /\ Known(s)
      /\ state[s] \in Calm(s) \/ (state[s] = "VOID" /\ Pending(s))
  BY DEF Whole, Beginning
<1>4. "CREATED" \in Calm(s) /\ "DOWN" \notin Calm(s) /\ s \in Servers
  BY MembersAcquire DEF Calm, DifCalm, CccCalm, TdcCalm, Opened
<1>5. state \in [Servers -> ServerStates]
  BY DEF IInv, TypeOK
<1>6. Known(s)'
  <2>1. Up(s)
    BY <1>3, <1>4 DEF Up
  <2> QED BY <1>1, <1>2, <1>3, <2>1 DEF Known
<1>7. CASE s = c[1]
  BY <1>1, <1>3, <1>4, <1>5, <1>6, <1>7
<1>8. CASE s # c[1]
  <2>1. state'[s] = state[s] /\ (Pending(s) => Pending(s)')
    BY <1>1, <1>2, <1>4, <1>5, <1>8 DEF Pending
  <2> QED BY <1>3, <1>6, <2>1
<1> QED BY <1>7, <1>8

LEMMA DiscoveredWhole == ASSUME Whole, DiscoverDone PROVE Whole'
<1>1. /\ cmd.op = "DISCOVER" /\ cmd.todo = {} /\ cmd' = Idle /\ daq' = "DISCOVERED"
      /\ clean' = IF clean = "begun" THEN "DISCOVER" ELSE "none"
      /\ UNCHANGED <<kind, clients, state, spent>>
  BY DEF DiscoverDone
<1> SUFFICES ASSUME clean = "begun" PROVE Placed'
  BY <1>1 DEF Whole
<1>2. Members' = Members
  BY <1>1 DEF Members, Readers
<1>3. ASSUME NEW s \in Members PROVE Rest(s)["DISCOVERED"] = Calm(s)
  <2>1. s \in Acquiring
    BY MembersAcquire
  <2>2. CASE s \in DifServers
    BY <2>2 DEF Rest, Calm, DifRest
  <2>3. CASE s \in TdcServers
    BY <2>3, Distinct DEF Rest, Calm, TdcRest
  <2>4. CASE s = Ccc
    BY <2>4, Distinct DEF Rest, Calm, CccRest
  <2>5. CASE s = Builder
    BY <2>5, Distinct DEF Rest, Calm, BuilderRest
  <2> QED BY <2>1, <2>2, <2>3, <2>4, <2>5 DEF Acquiring
<1>4. ASSUME NEW s \in Members PROVE state[s] \in Calm(s) /\ \E c \in clients : c[1] = s
  BY <1>1 DEF Whole, Beginning, Known, Pending
<1>5. ASSUME NEW s \in Members PROVE InPlace(s)'
  BY <1>1, <1>3, <1>4 DEF InPlace, Rest
<1> QED BY <1>1, <1>2, <1>4, <1>5, IdleIs DEF Placed

(* The first stage of a command, or the next one.                           *)
LEMMA StageBegins ==
    ASSUME Placed, NEW op \in Ops, NEW k \in 1 .. Len(Plan[op]),
           cmd' = [op |-> op, stage |-> k, todo |-> Asked(Plan[op][k].to)],
           UNCHANGED <<kind, clients, state, spent>>,
           \A s \in Members : state[s] \in Path(s)[op][k]
    PROVE  Placed'
<1>1. cmd'.op = op /\ cmd'.stage = k /\ cmd'.todo = {c \in clients : c[1] \in Plan[op][k].to}
  BY DEF Asked
<1>2. op # "DISCOVER" /\ cmd' # Idle
  BY <1>1, IdleIs DEF Ops
<1>3. Members' = Members
  BY DEF Members, Readers
<1>4. ASSUME NEW s \in Members PROVE InPlace(s)'
  <2>1. s \in Acquiring /\ \E c \in clients : c[1] = s
    BY MembersAcquire DEF Placed
  <2>2. CASE s \in Plan[op][k].to
    <3>1. Pending(s)'
      BY <1>1, <2>1, <2>2 DEF Pending
    <3>2. InPlace(s)' <=> state'[s] \in Path(s)[op][k] \cup Path(s)[op][k + 1]
      BY <1>1, <1>2, <3>1 DEF InPlace, Path
    <3> QED BY <3>2
  <2>3. CASE s \notin Plan[op][k].to
    <3>1. ~Pending(s)'
      BY <1>1, <2>3 DEF Pending
    <3>2. InPlace(s)' <=> state'[s] \in Path(s)[op][k + 1]
      BY <1>1, <1>2, <3>1 DEF InPlace, Path
    <3>3. Path(s)[op][k + 1] = Path(s)[op][k]
      BY <2>1, <2>3, ServerFollows
    <3> QED BY <3>2, <3>3
  <2> QED BY <2>2, <2>3
<1> QED BY <1>1, <1>2, <1>3, <1>4 DEF Placed

LEMMA CommandWhole == ASSUME Whole, NEW op \in DOMAIN Plan, Command(op) PROVE Whole'
<1>1. /\ cmd = Idle /\ clean' = clean /\ UNCHANGED <<kind, daq, clients, state, spent>>
      /\ cmd' = [op |-> op, stage |-> 1, todo |-> Asked(Plan[op][1].to)]
      /\ \E x \in DaqTable : x[1] = op /\ x[2] = daq
  BY DEF Command
<1>2. clean # "begun"
  BY <1>1, IdleIs DEF Whole, Beginning
<1> SUFFICES ASSUME Placed PROVE Placed'
  BY <1>1, <1>2 DEF Whole
<1>3. op \in Ops
  BY Commands
<1>4. 1 \in 1 .. Len(Plan[op])
  <2>1. Len(Plan[op]) \in 1 .. 5
    BY <1>3, LengthIsNat
  <2>2. \A n \in 1 .. 5 : 1 \in 1 .. n
    OBVIOUS
  <2> QED BY <2>1, <2>2
<1>5. ASSUME NEW s \in Members PROVE state[s] \in Path(s)[op][1]
  <2>1. s \in Acquiring /\ state[s] \in Rest(s)[daq]
    BY <1>1, MembersAcquire DEF Placed, InPlace
  <2> QED BY <1>1, <2>1, ServerFits
<1> QED BY <1>1, <1>3, <1>4, <1>5, StageBegins

LEMMA NextStageWhole == ASSUME IInv, Whole, NextStage PROVE Whole'
<1> DEFINE op == cmd.op
           k == cmd.stage
<1>0. TypeOK /\ Posting /\ cmd.todo = {}
  BY DEF IInv, NextStage
<1>1. /\ op \in Ops /\ op # "DISCOVER" /\ op # "none" /\ k \in 1 .. Len(Plan[op])
      /\ cmd = [op |-> op, stage |-> k, todo |-> cmd.todo]
  BY <1>0, InProgress
<1>2. /\ cmd' = [op |-> op, stage |-> k + 1, todo |-> Asked(Plan[op][k + 1].to)]
      /\ UNCHANGED <<kind, clients, state, spent>> /\ clean' = clean
  BY <1>1 DEF NextStage, history
<1>3. k + 1 \in 1 .. Len(Plan[op])
  BY <1>1, LengthIsNat DEF NextStage
<1> SUFFICES ASSUME Placed PROVE Placed'
  BY <1>1, <1>2 DEF Whole, Beginning
<1>4. ASSUME NEW s \in Members PROVE state[s] \in Path(s)[op][k + 1]
  <2>1. cmd # Idle /\ ~Pending(s)
    BY <1>0, <1>1, IdleIs DEF Pending
  <2> QED BY <2>1 DEF Placed, InPlace
<1> QED BY <1>1, <1>2, <1>3, <1>4, StageBegins

LEMMA DoneWhole == ASSUME IInv, Whole, Done PROVE Whole'
<1> DEFINE op == cmd.op
<1>0. TypeOK /\ Posting /\ cmd.todo = {} /\ cmd.stage = Len(Plan[op])
  BY DEF IInv, Done
<1>1. op \in Ops /\ op # "DISCOVER" /\ op # "none"
  BY <1>0, InProgress
<1>2. cmd' = Idle /\ UNCHANGED <<kind, clients, state, spent>>
  BY DEF Done
<1>3. PICK x \in DaqTable : x[1] = op /\ x[2] = daq /\ daq' = x[3]
  BY DEF Done
<1>4. clean' # "none" => clean \notin {"none", "begun"} /\ clean' # "begun"
  BY <1>1 DEF Done, Whole, Beginning
<1> SUFFICES ASSUME Placed PROVE Placed'
  BY <1>4 DEF Whole
<1>5. ASSUME NEW s \in Members PROVE InPlace(s)'
  <2>1. cmd # Idle /\ ~Pending(s) /\ s \in Acquiring
    BY <1>0, <1>1, IdleIs, MembersAcquire DEF Pending
  <2>2. state[s] \in Path(s)[op][Len(Plan[op]) + 1]
    BY <1>0, <2>1 DEF Placed, InPlace
  <2>3. Path(s)[op][Len(Plan[op]) + 1] \subseteq Rest(s)[daq']
    BY <1>3, <2>1, ServerFits
  <2>4. InPlace(s)' <=> state'[s] \in Rest(s)[daq']
    BY <1>2 DEF InPlace, Rest
  <2> QED BY <1>2, <2>2, <2>3, <2>4
<1>6. Members' = Members
  BY <1>2 DEF Members, Readers
<1> QED BY <1>2, <1>5, <1>6, IdleIs DEF Placed

LEMMA AnsweredWhole ==
    ASSUME IInv, Whole, NEW c \in cmd.todo, Answered(c), spent \subseteq spent'
    PROVE  Whole'
<1> DEFINE op == cmd.op
           k == cmd.stage
           post == Plan[op][k].post
<1>0. TypeOK /\ Posting
  BY DEF IInv, Answered
<1>1. /\ op \in Ops /\ op # "DISCOVER" /\ op # "none" /\ k \in 1 .. Len(Plan[op])
      /\ cmd = [op |-> op, stage |-> k, todo |-> cmd.todo]
      /\ cmd.todo \subseteq {x \in clients : x[1] \in Plan[op][k].to}
  BY <1>0, InProgress DEF Now
<1>2. /\ cmd' = [op |-> op, stage |-> k, todo |-> cmd.todo \ {c}]
      /\ state' = [state EXCEPT ![c[1]] = After(c[1], post)]
      /\ UNCHANGED <<kind, clients>> /\ clean' = clean
  BY <1>1 DEF Answered, Now, history
<1>3. cmd'.op = op /\ cmd'.stage = k /\ cmd'.todo = cmd.todo \ {c}
  BY <1>2
<1>4. cmd # Idle /\ cmd' # Idle
  BY <1>1, <1>3, IdleIs
<1> SUFFICES ASSUME Placed PROVE Placed'
  BY <1>1, <1>2 DEF Whole, Beginning
<1>5. Members' \subseteq Members
  BY <1>2 DEF Members, Readers
<1>6. state \in [Servers -> ServerStates]
  BY <1>0 DEF TypeOK
<1>7. ASSUME NEW s \in Members PROVE InPlace(s)'
  <2>1. /\ s \in Acquiring /\ s \in Servers
        /\ state[s] \in Path(s)[op][k] \cup Path(s)[op][k + 1]
        /\ Pending(s) \/ state[s] \in Path(s)[op][k + 1]
    BY <1>4, MembersAcquire DEF Placed, InPlace
  <2>2. InPlace(s)' <=>
          state'[s] \in IF Pending(s)' THEN Path(s)[op][k] \cup Path(s)[op][k + 1]
                        ELSE Path(s)[op][k + 1]
    BY <1>3, <1>4 DEF InPlace, Path
  <2>3. CASE s = c[1]
    <3>1. s \in Plan[op][k].to
      BY <1>1, <2>3
    <3>2. /\ state'[s] = After(s, post) /\ After(s, post) \in ServerStates
          /\ Past(Table(s), post, state[s], After(s, post))
      BY <1>2, <1>6, <2>1, <2>3, AfterIs, AfterIsPast
    <3>3. \A v \in Path(s)[op][k] \cup Path(s)[op][k + 1], w \in ServerStates :
            Past(Table(s), post, v, w) => w \in Path(s)[op][k + 1]
      BY <1>1, <2>1, <3>1, ServerFollows
    <3>4. state'[s] \in Path(s)[op][k + 1]
      BY <2>1, <3>2, <3>3
    <3> QED BY <2>2, <3>4
  <2>4. CASE s # c[1]
    <3>1. state'[s] = state[s] /\ (Pending(s)' <=> Pending(s))
      BY <1>2, <1>3, <1>6, <2>4 DEF Pending
    <3> QED BY <2>1, <2>2, <3>1
  <2> QED BY <2>3, <2>4
<1> QED BY <1>1, <1>2, <1>3, <1>5, <1>7 DEF Placed

LEMMA WholeKept == IInv /\ Ranges /\ Whole /\ [Next]_vars => Whole'
<1> SUFFICES ASSUME IInv, Ranges, Whole, [Next]_vars PROVE Whole'
  OBVIOUS
<1>0. state \in [Servers -> ServerStates] /\ Members \subseteq Acquiring
  BY MembersAcquire DEF IInv, TypeOK
<1>1. CASE CommandDiscover
  BY <1>1, DiscoverBegins
<1>2. CASE DiscoverDone
  BY <1>2, DiscoveredWhole
<1>3. ASSUME NEW c \in cmd.todo, Find(c) PROVE Whole'
  BY <1>3, FindWhole
<1>4. ASSUME NEW c \in cmd.todo,
             PostDif(c) \/ PostTdc(c) \/ PostDb(c) \/ PostBuilder(c) \/ PostCard(c)
      PROVE  Whole'
  <2>1. Answered(c) /\ spent \subseteq spent'
    BY <1>4 DEF PostDif, PostTdc, PostDb, PostBuilder, PostCard
  <2> QED BY <2>1, AnsweredWhole
<1>5. ASSUME NEW op \in DOMAIN Plan, Command(op) PROVE Whole'
  BY <1>5, CommandWhole
<1>6. ASSUME NEW to \in DaqStates, ForceState(to) PROVE Whole'
  <2>1. /\ UNCHANGED <<kind, cmd, clients, state, spent>>
        /\ (daq' = daq /\ clean' = clean) \/ clean' = "none"
    BY <1>6 DEF ForceState
  <2>2. clean' # "none" => Whole'
    BY <2>1, WholeSame
  <2> QED BY <2>2 DEF Whole
<1>7. ASSUME NEW post, Trigger(post) PROVE Whole'
  <2>1. \A s \in Acquiring : state'[s] = state[s]
    BY <1>0, <1>7, AcquiringAreServers DEF Trigger
  <2>2. UNCHANGED <<kind, daq, cmd, clients, spent, clean>>
    BY <1>7 DEF Trigger, history
  <2>3. Members' = Members
    BY <2>2 DEF Members, Readers
  <2> QED BY <1>0, <2>1, <2>2, <2>3, WholeSame
<1>8. CASE NextStage
  BY <1>8, NextStageWhole
<1>9. CASE Done
  BY <1>9, DoneWhole
<1>10. ASSUME NEW s \in Servers, Crash(s) \/ Restart(s) PROVE Whole'
  BY <1>10 DEF Crash, Restart, Whole
<1>11. ASSUME NEW s \in Servers, DiesSpent(s) PROVE Whole'
  <2>1. /\ UNCHANGED <<kind, daq, cmd, clients, spent, clean>> /\ s \in spent
        /\ state' = [state EXCEPT ![s] = "DOWN"]
    BY <1>11 DEF DiesSpent, history
  <2>2. s \notin Members /\ Members' = Members /\ Members \subseteq Servers
    BY <2>1, Distinct, MembersAcquire DEF IInv, TypeOK, Members, Readers
  <2>3. \A z \in Members : state'[z] = state[z]
    BY <1>0, <2>1, <2>2
  <2> QED BY <2>1, <2>2, <2>3, WholeSame
<1>12. CASE RunControlRestarts
  BY <1>12 DEF RunControlRestarts, Whole
<1>13. CASE UNCHANGED vars
  <2>1. UNCHANGED <<kind, daq, cmd, clients, state, spent, clean>>
    BY <1>13 DEF vars, history
  <2> QED BY <2>1, WholeSame
<1> QED BY <1>1, <1>2, <1>3, <1>4, <1>5, <1>6, <1>7, <1>8, <1>9, <1>10, <1>11, <1>12,
           <1>13 DEF Next

-----------------------------------------------------------------------------
(* The number of the run.                                                   *)

LEMMA OnlyStartAsksNumber ==
    ASSUME NEW op \in Ops, NEW k \in 1 .. Len(Plan[op]), Plan[op][k].post = "NEWRUN"
    PROVE  op = "START" /\ k = 1
<1>1. CASE op = "PREPARE"
  <2>1. k \in 1 .. 5
    BY <1>1, Lengths
  <2> QED BY <1>1, <2>1, Stages DEF Stage
<1>2. CASE op = "INITIALISE"
  <2>1. k \in 1 .. 5
    BY <1>2, Lengths
  <2> QED BY <1>2, <2>1, Stages DEF Stage
<1>3. CASE op = "CONFIGURE"
  <2>1. k \in 1 .. 4
    BY <1>3, Lengths
  <2> QED BY <1>3, <2>1, Stages DEF Stage
<1>4. CASE op = "START"
  <2>1. k \in 1 .. 5
    BY <1>4, Lengths
  <2> QED BY <1>4, <2>1, Stages DEF Stage
<1>5. CASE op = "STOP"
  <2>1. k \in 1 .. 5
    BY <1>5, Lengths
  <2> QED BY <1>5, <2>1, Stages DEF Stage
<1>6. CASE op = "DESTROY"
  <2>1. k \in 1 .. 2
    BY <1>6, Lengths
  <2> QED BY <1>6, <2>1, Stages DEF Stage
<1> QED BY <1>1, <1>2, <1>3, <1>4, <1>5, <1>6 DEF Ops

LEMMA ReportedAnswers ==
    ASSUME IInv, Whole, Reported, clean # "none", Running(Builder)',
           NEW c \in cmd.todo,
           PostDif(c) \/ PostTdc(c) \/ PostDb(c) \/ PostBuilder(c) \/ PostCard(c)
    PROVE  builderRun' = run'
<1> DEFINE op == cmd.op
           k == cmd.stage
<1>1. Answered(c) /\ TypeOK /\ Posting
  BY DEF IInv, PostDif, PostTdc, PostDb, PostBuilder, PostCard, Answered
<1>2. /\ op \in Ops /\ op # "DISCOVER" /\ op # "none" /\ k \in 1 .. Len(Plan[op])
      /\ cmd.todo \subseteq {x \in clients : x[1] \in Plan[op][k].to}
  BY <1>1, InProgress DEF Now
<1>3. cmd # Idle /\ Placed
  BY <1>2, IdleIs DEF Whole, Beginning
<1>4. /\ state \in [Servers -> ServerStates] /\ Builder \in Servers /\ Builder \in Acquiring
      /\ state' = [state EXCEPT ![c[1]] = After(c[1], Now.post)]
  BY <1>1 DEF TypeOK, Servers, Others, Acquiring, Answered
<1>5. ASSUME UNCHANGED <<run, builderRun>>, Running(Builder) PROVE builderRun' = run'
  BY <1>5 DEF Reported
<1>6. CASE PostDb(c) /\ Now.post = "NEWRUN"
  <2>1. op = "START" /\ k = 1
    BY <1>2, <1>6, OnlyStartAsksNumber DEF Now
  <2>2. state[Builder] \in Path(Builder)["START"][1] \cup Path(Builder)["START"][2]
    <3>1. state[Builder] \in Path(Builder)[op][k] \cup Path(Builder)[op][k + 1]
      BY <1>3, MembersAcquire DEF Placed, InPlace
    <3>2. k + 1 = 2
      BY <2>1
    <3> QED BY <2>1, <3>1, <3>2
  <2>3. Path(Builder)["START"][1] = Conf /\ Path(Builder)["START"][2] = Conf
    BY Distinct DEF Path, BuilderPath
  <2>4. state'[Builder] = state[Builder]
    BY <1>4, <1>6, Distinct DEF PostDb
  <2> QED BY <2>2, <2>3, <2>4 DEF Conf, Running
<1>7. CASE PostBuilder(c)
  <2>1. state'[Builder] = After(Builder, Now.post) /\ run' = run
    BY <1>4, <1>7 DEF PostBuilder
  <2>2. CASE Now.post = "START" /\ Accepts(Builder, "START")
    BY <1>7, <2>1, <2>2 DEF PostBuilder
  <2>3. CASE ~(Now.post = "START" /\ Accepts(Builder, "START"))
    <3>1. Running(Builder)
      BY <1>4, <2>1, <2>3, AfterIs DEF Running, After
    <3>2. builderRun' = builderRun
      BY <1>7, <2>3 DEF PostBuilder
    <3> QED BY <1>5, <2>1, <3>1, <3>2
  <2> QED BY <2>2, <2>3
<1>8. CASE ~PostBuilder(c) /\ ~(PostDb(c) /\ Now.post = "NEWRUN")
  <2>1. UNCHANGED <<run, builderRun>> /\ c[1] # Builder
    BY <1>8, Distinct DEF PostDif, PostTdc, PostDb, PostCard, numbers
  <2>2. Running(Builder)
    BY <1>4, <2>1 DEF Running
  <2> QED BY <1>5, <2>1, <2>2
<1> QED BY <1>6, <1>7, <1>8

LEMMA ReportedKept == IInv /\ Whole /\ Reported /\ [Next]_vars => Reported'
<1> SUFFICES ASSUME IInv, Whole, Reported, [Next]_vars, clean' # "none", Running(Builder)'
             PROVE  builderRun' = run'
  BY DEF Reported
<1>0. /\ state \in [Servers -> ServerStates] /\ Builder \in Servers
      /\ Builder \in Acquiring /\ Builder \in Members /\ Builder # Mdcc
  BY MembersAcquire, Distinct DEF IInv, TypeOK, Acquiring
<1>1. ASSUME UNCHANGED numbers, clean # "none", Running(Builder) PROVE builderRun' = run'
  BY <1>1 DEF Reported, numbers
<1>2. CASE CommandDiscover
  <2>1. ~Running(Builder) /\ state' = state
    BY <1>0, <1>2 DEF CommandDiscover
  <2> QED BY <2>1 DEF Running
<1>3. CASE DiscoverDone
  BY <1>1, <1>3 DEF DiscoverDone, Running
<1>4. ASSUME NEW c \in cmd.todo, Find(c) PROVE builderRun' = run'
  <2>1. Running(Builder)
    BY <1>0, <1>4 DEF Find, Running
  <2> QED BY <1>1, <1>4, <2>1 DEF Find, history
<1>5. ASSUME NEW c \in cmd.todo,
             PostDif(c) \/ PostTdc(c) \/ PostDb(c) \/ PostBuilder(c) \/ PostCard(c)
      PROVE  builderRun' = run'
  <2>1. clean' = clean
    BY <1>5 DEF PostDif, PostTdc, PostDb, PostBuilder, PostCard, Answered, history
  <2> QED BY <1>5, <2>1, ReportedAnswers
<1>6. ASSUME NEW op \in DOMAIN Plan, Command(op) PROVE builderRun' = run'
  <2>1. /\ cmd = Idle /\ clean' = clean /\ UNCHANGED <<state, builderRun>>
        /\ run' = run \/ op = "START"
        /\ \E x \in DaqTable : x[1] = op /\ x[2] = daq
    BY <1>6 DEF Command
  <2>2. CASE run' = run
    BY <1>1, <2>1, <2>2 DEF Running, Reported
  <2>3. CASE op = "START"
    <3>1. daq = "CONFIGURED"
      BY <2>1, <2>3 DEF DaqTable
    <3>2. Placed
      BY <2>1, IdleIs DEF Whole, Beginning
    <3>3. state[Builder] \in Rest(Builder)["CONFIGURED"]
      BY <1>0, <2>1, <3>1, <3>2 DEF Placed, InPlace
    <3>4. Rest(Builder)["CONFIGURED"] = Conf
      BY Distinct DEF Rest, BuilderRest
    <3> QED BY <2>1, <3>3, <3>4 DEF Conf, Running
  <2> QED BY <2>1, <2>2, <2>3
<1>7. ASSUME NEW to \in DaqStates, ForceState(to) PROVE builderRun' = run'
  BY <1>1, <1>7 DEF ForceState, Running
<1>8. ASSUME NEW post, Trigger(post) PROVE builderRun' = run'
  <2>1. Running(Builder)
    BY <1>0, <1>8 DEF Trigger, Running
  <2> QED BY <1>1, <1>8, <2>1 DEF Trigger, history
<1>9. CASE NextStage
  BY <1>1, <1>9 DEF NextStage, Running, history
<1>10. CASE Done
  BY <1>1, <1>10 DEF Done, Running
<1>11. ASSUME NEW s \in Servers, Crash(s) \/ Restart(s) PROVE FALSE
  BY <1>11 DEF Crash, Restart
<1>12. ASSUME NEW s \in Servers, DiesSpent(s) PROVE builderRun' = run'
  <2>1. Running(Builder)
    BY <1>0, <1>12 DEF DiesSpent, Running
  <2> QED BY <1>1, <1>12, <2>1 DEF DiesSpent, history
<1>13. CASE RunControlRestarts
  BY <1>13 DEF RunControlRestarts
<1>14. CASE UNCHANGED vars
  BY <1>1, <1>14 DEF vars, Running, history
<1> QED BY <1>2, <1>3, <1>4, <1>5, <1>6, <1>7, <1>8, <1>9, <1>10, <1>11, <1>12, <1>13,
           <1>14 DEF Next

-----------------------------------------------------------------------------
CInv == IInv /\ Ranges /\ Whole /\ Reported

LEMMA CycleAlways == Spec => []CInv
<1>1. Init => CInv
  <2> SUFFICES ASSUME Init PROVE Ranges /\ Whole /\ Reported
    BY InvInitially DEF CInv
  <2>1. Whole /\ Reported
    BY DEF Init, Whole, Reported
  <2>2. \A s \in Acquiring : state[s] \in {"VOID", "CREATED"}
    BY AcquiringAreServers DEF Init, Fresh
  <2>3. \A s : "CREATED" \in Calm(s)
    BY DEF Calm, DifCalm, CccCalm, TdcCalm
  <2>4. Ranges
    BY <2>2, <2>3 DEF Ranges
  <2> QED BY <2>1, <2>4
<1>2. CInv /\ [Next]_vars => CInv'
  BY InvKept, RangesKept, WholeKept, ReportedKept DEF CInv
<1> QED BY <1>1, <1>2, PTL DEF Spec

(* Where the plans let the clock card run, they have every reader running.   *)
LEMMA CardRuns ==
    ASSUME NEW op \in Ops, NEW k \in 1 .. Len(Plan[op]),
           "RUNNING" \in CccPath[op][k] \cup CccPath[op][k + 1]
    PROVE  \/ op = "START" /\ k = 5
           \/ op = "STOP" /\ k \in 1 .. 2
<1>1. CASE op = "PREPARE"
  <2>1. k \in 1 .. 5
    BY <1>1, Lengths
  <2> QED BY <1>1, <2>1 DEF CccPath, CccCalm, Opened, Ready
<1>2. CASE op = "INITIALISE"
  <2>1. k \in 1 .. 5
    BY <1>2, Lengths
  <2> QED BY <1>2, <2>1 DEF CccPath, Ready, Conf
<1>3. CASE op = "CONFIGURE"
  <2>1. k \in 1 .. 4
    BY <1>3, Lengths
  <2> QED BY <1>3, <2>1 DEF CccPath, Conf
<1>4. CASE op = "START"
  <2>1. k \in 1 .. 5
    BY <1>4, Lengths
  <2> QED BY <1>4, <2>1 DEF CccPath, Conf
<1>5. CASE op = "STOP"
  <2>1. k \in 1 .. 5
    BY <1>5, Lengths
  <2> QED BY <1>5, <2>1 DEF CccPath, Conf
<1>6. CASE op = "DESTROY"
  <2>1. k \in 1 .. 2
    BY <1>6, Lengths
  <2> QED BY <1>6, <2>1 DEF CccPath, Conf
<1> QED BY <1>1, <1>2, <1>3, <1>4, <1>5, <1>6 DEF Ops

LEMMA ReadersRun ==
    ASSUME TypeOK, Placed, Running(Ccc), NEW s \in Readers
    PROVE  Running(s)
<1>1. /\ InPlace(Ccc) /\ InPlace(s) /\ s \in Members /\ s \in Acquiring /\ s # Ccc
      /\ Path(Ccc) = CccPath /\ Rest(Ccc) = CccRest
  BY MembersAcquire, Distinct DEF Placed, Path, Rest, Members, Readers
<1>2. CASE cmd = Idle
  <2>1. "RUNNING" \in CccRest[daq] /\ daq \in DaqStates
    BY <1>1, <1>2 DEF InPlace, Running, TypeOK
  <2>2. daq = "RUNNING"
    BY <2>1 DEF DaqStates, CccRest, CccCalm, Opened, Ready, Conf
  <2>3. Rest(s)["RUNNING"] = Runs
    BY <1>1, Distinct DEF Rest, DifRest, TdcRest, BuilderRest, Acquiring
  <2> QED BY <1>1, <1>2, <2>2, <2>3 DEF InPlace, Running, Runs
<1>3. CASE cmd # Idle
  <2> DEFINE op == cmd.op
             k == cmd.stage
  <2>1. Posting
    BY <1>3 DEF TypeOK, Placed, Posting
  <2>2. /\ op \in Ops /\ k \in 1 .. Len(Plan[op])
        /\ cmd.todo \subseteq {x \in clients : x[1] \in Plan[op][k].to}
    BY <2>1, InProgress DEF Now
  <2>3. "RUNNING" \in CccPath[op][k] \cup CccPath[op][k + 1]
    BY <1>1, <1>3 DEF InPlace, Running
  <2>4. \/ op = "START" /\ k = 5
        \/ op = "STOP" /\ k \in 1 .. 2
    BY <2>2, <2>3, CardRuns
  <2>5. /\ Path(s)["START"][6] = Runs
        /\ Path(s)["STOP"][2] = Runs /\ Path(s)["STOP"][3] = Runs
    BY <1>1, Distinct DEF Path, DifPath, TdcPath, BuilderPath, Acquiring
  <2>6. ~Pending(s)
    <3>1. /\ s \notin Plan["START"][5].to /\ s \notin Plan["STOP"][1].to
          /\ s \notin Plan["STOP"][2].to
      BY <1>1, Stages, Distinct DEF Stage, Acquiring
    <3> QED BY <2>2, <2>4, <3>1 DEF Pending
  <2>7. state[s] \in Path(s)[op][k + 1]
    BY <1>1, <1>3, <2>6 DEF InPlace
  <2> QED BY <2>4, <2>5, <2>7 DEF Running, Runs
<1> QED BY <1>2, <1>3

LEMMA RunsTogetherHere == CInv => RunsTogether
<1> SUFFICES ASSUME CInv, clean = "CONFIGURE"
             PROVE  /\ Running(Ccc) => \A s \in Readers : Running(s)
                    /\ cmd = Idle /\ daq = "RUNNING" => Running(Ccc) /\ builderRun = run
  BY DEF RunsTogether
<1>1. Placed /\ TypeOK
  BY DEF CInv, Whole, IInv
<1>2. ASSUME cmd = Idle, daq = "RUNNING"
      PROVE  Running(Ccc) /\ Running(Builder)
  <2>1. Rest(Ccc)["RUNNING"] = Runs /\ Rest(Builder)["RUNNING"] = Runs
    BY Distinct DEF Rest, CccRest, BuilderRest
  <2> QED BY <1>1, <1>2, <2>1, MembersAcquire DEF Placed, InPlace, Runs, Running
<1> QED BY <1>1, <1>2, ReadersRun DEF CInv, Reported

(* After a cycle without a fault, whatever it found the servers in, the clock *)
(* card runs only while every reader does, and RUNNING means that all do, the *)
(* builder with the number reported (FullDaq::start, WebDaq::start).          *)
THEOREM AlwaysTogether == Spec => []RunsTogether
  BY RunsTogetherHere, CycleAlways, PTL

-----------------------------------------------------------------------------
(* The run control implements the promise: each of its steps is one of the   *)
(* abstract one, or stutters.                                                *)
(* The servers that acquire.                                                *)
Going == {s \in Acquiring : Running(s)}

(* A run control that has lost its clients is in no clean cycle.            *)
LostUnclean == lost => clean \in {"none", "begun"}

LEMMA LostUncleanKept == LostUnclean /\ [Next]_vars => LostUnclean'
<1> SUFFICES ASSUME LostUnclean, [Next]_vars PROVE LostUnclean'
  OBVIOUS
<1>1. ASSUME UNCHANGED <<lost, clean>> PROVE LostUnclean'
  BY <1>1 DEF LostUnclean
<1>2. CASE CommandDiscover \/ DiscoverDone \/ RunControlRestarts
  BY <1>2 DEF LostUnclean, CommandDiscover, DiscoverDone, RunControlRestarts
<1>3. CASE \E c \in cmd.todo :
             Find(c) \/ PostDif(c) \/ PostTdc(c) \/ PostDb(c) \/ PostBuilder(c) \/ PostCard(c)
  BY <1>1, <1>3 DEF Find, PostDif, PostTdc, PostDb, PostBuilder, PostCard, Answered,
                    history
<1>4. CASE \E op \in DOMAIN Plan : Command(op)
  BY <1>1, <1>4 DEF Command
<1>5. CASE \E to \in DaqStates : ForceState(to)
  BY <1>1, <1>5 DEF ForceState, LostUnclean
<1>6. CASE \E post \in {"PAUSE", "RESUME"} : Trigger(post)
  BY <1>1, <1>6 DEF Trigger, history
<1>7. CASE NextStage
  BY <1>1, <1>7 DEF NextStage, history
<1>8. CASE Done
  BY <1>8 DEF Done, LostUnclean
<1>9. CASE \E s \in Servers : Crash(s) \/ DiesSpent(s) \/ Restart(s)
  BY <1>1, <1>9 DEF Crash, DiesSpent, Restart, LostUnclean, history
<1>10. CASE UNCHANGED vars
  BY <1>1, <1>10 DEF vars, history
<1> QED BY <1>2, <1>3, <1>4, <1>5, <1>6, <1>7, <1>8, <1>9, <1>10 DEF Next

PInv == CInv /\ LostUnclean

LEMMA PInvAlways == Spec => []PInv
<1>1. Init => LostUnclean
  BY DEF Init, LostUnclean
<1>2. Spec => []LostUnclean
  BY <1>1, LostUncleanKept, PTL DEF Spec
<1> QED BY <1>2, CycleAlways, PTL DEF PInv

(* STOP is posted by STOP, a stage for each class of servers after the clock *)
(* card, and to the clock card by INITIALISE.                               *)
LEMMA PostsOfStop ==
    ASSUME NEW op \in Ops, NEW k \in 1 .. Len(Plan[op]), Plan[op][k].post = "STOP"
    PROVE  \/ op = "STOP" /\ k \in 3 .. 5
           \/ op = "STOP" /\ k = 2 /\ Plan[op][k].to = {Ccc}
           \/ op = "INITIALISE" /\ k = 2 /\ Plan[op][k].to = {Ccc}
<1>1. CASE op = "PREPARE"
  <2>1. k \in 1 .. 5
    BY <1>1, Lengths
  <2> QED BY <1>1, <2>1, Stages DEF Stage
<1>2. CASE op = "INITIALISE"
  <2>1. k \in 1 .. 5
    BY <1>2, Lengths
  <2> QED BY <1>2, <2>1, Stages DEF Stage
<1>3. CASE op = "CONFIGURE"
  <2>1. k \in 1 .. 4
    BY <1>3, Lengths
  <2> QED BY <1>3, <2>1, Stages DEF Stage
<1>4. CASE op = "START"
  <2>1. k \in 1 .. 5
    BY <1>4, Lengths
  <2> QED BY <1>4, <2>1, Stages DEF Stage
<1>5. CASE op = "STOP"
  <2>1. k \in 1 .. 5
    BY <1>5, Lengths
  <2> QED BY <1>5, <2>1, Stages DEF Stage
<1>6. CASE op = "DESTROY"
  <2>1. k \in 1 .. 2
    BY <1>6, Lengths
  <2> QED BY <1>6, <2>1, Stages DEF Stage
<1> QED BY <1>1, <1>2, <1>3, <1>4, <1>5, <1>6 DEF Ops

(* DESTROY is posted by the command DESTROY alone.                          *)
LEMMA OnlyDestroyDestroys ==
    ASSUME NEW op \in Ops, NEW k \in 1 .. Len(Plan[op]), Plan[op][k].post = "DESTROY"
    PROVE  op = "DESTROY"
<1>1. CASE op = "PREPARE"
  <2>1. k \in 1 .. 5
    BY <1>1, Lengths
  <2> QED BY <1>1, <2>1, Stages DEF Stage
<1>2. CASE op = "INITIALISE"
  <2>1. k \in 1 .. 5
    BY <1>2, Lengths
  <2> QED BY <1>2, <2>1, Stages DEF Stage
<1>3. CASE op = "CONFIGURE"
  <2>1. k \in 1 .. 4
    BY <1>3, Lengths
  <2> QED BY <1>3, <2>1, Stages DEF Stage
<1>4. CASE op = "START"
  <2>1. k \in 1 .. 5
    BY <1>4, Lengths
  <2> QED BY <1>4, <2>1, Stages DEF Stage
<1>5. CASE op = "STOP"
  <2>1. k \in 1 .. 5
    BY <1>5, Lengths
  <2> QED BY <1>5, <2>1, Stages DEF Stage
<1> QED BY <1>1, <1>2, <1>3, <1>4, <1>5 DEF Ops

(* Only STOP stops a server.                                               *)
LEMMA OnlyStopStops ==
    ASSUME NEW s \in Acquiring, NEW post, state[s] = "RUNNING", After(s, post) # "RUNNING"
    PROVE  post = "STOP"
<1>1. PICK x \in Table(s) : x[1] = post /\ x[2] = "RUNNING"
  BY AfterIsPast, AcquiringAreServers DEF Past
<1>2. \A y \in DifTable \cup TdcTable \cup CccTable \cup BuilderTable :
        y[2] = "RUNNING" => y[1] = "STOP"
  BY DEF DifTable, DifStarts, TdcTable, CccTable, BuilderTable
<1> QED BY <1>1, <1>2, Tables DEF Acquiring

(* In a clean cycle nobody runs between CONFIGURE and START, nor in DESTROY. *)
LEMMA CalmAtRest ==
    ASSUME Placed, cmd = Idle, daq = "CONFIGURED", NEW s \in Members
    PROVE  ~Running(s)
<1>1. state[s] \in Rest(s)["CONFIGURED"] /\ s \in Acquiring
  BY MembersAcquire DEF Placed, InPlace
<1>2. Rest(s)["CONFIGURED"] \subseteq {"CONFIGURED", "STOPPED"}
  BY <1>1 DEF Rest, DifRest, TdcRest, CccRest, BuilderRest, DifSet, Conf
<1> QED BY <1>1, <1>2 DEF Running

LEMMA CalmInDestroy ==
    ASSUME Placed, cmd.op = "DESTROY", cmd.stage \in 1 .. 2, NEW s \in Members
    PROVE  ~Running(s)
<1>1. cmd # Idle
  BY DEF Idle
<1>2. \/ state[s] \in Path(s)["DESTROY"][cmd.stage]
      \/ state[s] \in Path(s)["DESTROY"][cmd.stage + 1]
  BY <1>1 DEF Placed, InPlace
<1>3. \A k \in 1 .. 3 : "RUNNING" \notin Path(s)["DESTROY"][k]
  BY DEF Path, DifPath, TdcPath, CccPath, BuilderPath, DifReady, DifLeft, Conf, Ready
<1> QED BY <1>2, <1>3 DEF Running

(* A fault, as the run control sees it.                                     *)
LEMMA PromiseFault ==
    ASSUME clean' # "CONFIGURE", started' = started, Going' \subseteq Going,
           QuietUnlessStarted, RunPhase' \in {RunPhase, "rest"}
    PROVE  [Promise!Next]_(Promise!vars)
<1>1. Members' \subseteq Acquiring
  BY DEF Members, Readers, Acquiring
<1>2. started \/ Going' = {}
  BY DEF QuietUnlessStarted, Going
<1>3. Promise!Fault
  BY <1>1, <1>2 DEF Promise!Fault, Members, Going
<1> QED BY <1>3 DEF Promise!Next

(* A step that the promise does not see.                                    *)
LEMMA PromiseStutters ==
    ASSUME UNCHANGED <<kind, started, clean, spent>>, cmd'.op = cmd.op, Going' = Going
    PROVE  [Promise!Next]_(Promise!vars)
<1>1. RunPhase' = RunPhase /\ Readers' = Readers
  BY DEF RunPhase, Readers
<1> QED BY <1>1 DEF Promise!vars, Going

LEMMA PromiseAnswered ==
    ASSUME PInv, RunsTogether', NEW c \in cmd.todo, Answered(c),
           \/ spent' = spent
           \/ c[1] \in TdcServers /\ Now.post = "DESTROY" /\ spent' = spent \cup {c[1]}
    PROVE  [Promise!Next]_(Promise!vars)
<1> DEFINE op == cmd.op
           k == cmd.stage
           s == c[1]
<1>1. /\ IInv /\ TypeOK /\ Posting /\ state \in [Servers -> ServerStates]
      /\ Acquiring \subseteq Servers
  BY AcquiringAreServers DEF PInv, CInv, IInv, TypeOK, Answered
<1>2. /\ op \in Ops /\ k \in 1 .. Len(Plan[op])
      /\ cmd = [op |-> cmd.op, stage |-> cmd.stage, todo |-> cmd.todo]
      /\ s \in Plan[op][k].to /\ s \in Servers
  BY <1>1, InProgress DEF Now, TypeOK
<1>3. /\ cmd'.op = op
      /\ state' = [state EXCEPT ![s] = After(s, Now.post)]
      /\ UNCHANGED <<kind, started, lost, clean>>
  BY <1>2 DEF Answered, history
<1>4. /\ RunPhase' = RunPhase
      /\ \A e \in Acquiring \ {s} : Running(e)' <=> Running(e)
  BY <1>1, <1>2, <1>3 DEF RunPhase, Running
<1>5. clean = "CONFIGURE" => Placed /\ cmd # Idle
  BY <1>2 DEF PInv, CInv, Whole, Idle, Ops
<1>6. CASE spent' # spent
  <2>1. s \in TdcServers /\ Now.post = "DESTROY" /\ spent' = spent \cup {s}
    BY <1>6
  <2>2. op = "DESTROY" /\ RunPhase = "rest"
    BY <1>2, <2>1, OnlyDestroyDestroys DEF Now, RunPhase
  <2>3. Going' = Going
    <3>1. s \in Acquiring
      BY <2>1 DEF Acquiring
    <3>2. Running(s)' <=> Running(s)
      BY <1>1, <1>2, <1>3, <2>1, <3>1, AfterIs, OnlyStopStops DEF Running
    <3> QED BY <1>4, <3>2 DEF Going
  <2>4. CASE clean = "CONFIGURE"
    <3>1. Going \cap Members = {}
      <4>1. k \in 1 .. 2
        BY <1>2, <2>2, Lengths
      <4> QED BY <1>5, <2>2, <2>4, <4>1, CalmInDestroy DEF Going
    <3>2. Members' \subseteq Members
      BY <1>3, <2>1 DEF Members, Readers
    <3>3. Promise!Dissolve
      BY <1>3, <1>4, <2>2, <2>3, <3>1, <3>2 DEF Promise!Dissolve, Members, Going
    <3> QED BY <3>3 DEF Promise!Next
  <2>5. CASE clean # "CONFIGURE"
    BY <1>1, <1>3, <1>4, <2>3, <2>5, PromiseFault DEF IInv
  <2> QED BY <2>4, <2>5
<1>7. CASE spent' = spent /\ (s \notin Acquiring \/ (Running(s)' <=> Running(s)))
  <2>1. Going' = Going
    BY <1>4, <1>7 DEF Going
  <2> QED BY <1>3, <1>7, <2>1, PromiseStutters
<1>8. ASSUME spent' = spent, s \in Acquiring, ~Running(s), Running(s)'
      PROVE  Promise!Begin(s)
  <2>1. op = "START"
    <3>1. Now.post = "START"
      BY <1>1, <1>2, <1>3, <1>8, AfterIs DEF Running
    <3> QED BY <1>2, <3>1, OnlyStartPostsStart DEF Now
  <2>2. RunPhase = "starting" /\ Readers' = Readers
    BY <1>3, <1>8, <2>1 DEF RunPhase, Readers
  <2>3. Going' = Going \cup {s}
    BY <1>4, <1>8 DEF Going
  <2>4. clean = "CONFIGURE" /\ s = Ccc => Readers \subseteq Going'
    BY <1>3, <1>8, <2>2, MembersAcquire DEF RunsTogether, Going, Members
  <2>5. clean = "CONFIGURE" /\ s = Ccc => (Readers \cup {Ccc}) \ {Ccc} \subseteq Going
    BY <2>3, <2>4
  <2> QED BY <1>3, <1>4, <1>8, <2>2, <2>3, <2>5
          DEF Promise!Begin, Promise!Readers, Going
<1>9. ASSUME spent' = spent, s \in Acquiring, Running(s), ~Running(s)'
      PROVE  [Promise!Next]_(Promise!vars)
  <2>1. Plan[op][k].post = "STOP"
    BY <1>1, <1>2, <1>3, <1>9, OnlyStopStops DEF Running, Now
  <2>2. Going' = Going \ {s} /\ Readers' = Readers
    BY <1>3, <1>4, <1>9 DEF Going, Readers
  <2>3. CASE clean # "CONFIGURE"
    BY <1>1, <1>3, <1>4, <2>2, <2>3, PromiseFault DEF IInv
  <2>4. CASE clean = "CONFIGURE"
    <3>1. InPlace(Ccc) /\ Path(Ccc) = CccPath
      BY <1>5, <2>4, Distinct DEF Placed, Members, Path
    <3>2. state[Ccc] \in CccPath[op][k] \cup CccPath[op][k + 1]
      BY <1>5, <2>4, <3>1 DEF InPlace
    <3>3. op = "STOP" /\ k \in 2 .. 5 /\ (s # Ccc => k \in 3 .. 5)
      <4>1. "RUNNING" \notin CccPath["INITIALISE"][2] \cup CccPath["INITIALISE"][3]
        BY DEF CccPath, Ready, Conf
      <4> QED BY <1>2, <1>9, <2>1, <3>2, <4>1, PostsOfStop DEF Running
    <3>4. s # Ccc => ~Running(Ccc)
      <4>1. \A j \in 3 .. 6 : CccPath["STOP"][j] = Conf
        BY DEF CccPath
      <4> QED BY <3>2, <3>3, <4>1 DEF Running, Conf
    <3>5. RunPhase = "stopping"
      BY <3>3 DEF RunPhase
    <3>6. Promise!End(s)
      BY <1>3, <1>4, <1>9, <2>2, <3>4, <3>5 DEF Promise!End, Going
    <3> QED BY <1>9, <3>6 DEF Promise!Next
  <2> QED BY <2>3, <2>4
<1> QED BY <1>6, <1>7, <1>8, <1>9 DEF Promise!Next

LEMMA PromiseCommand ==
    ASSUME PInv, RunsTogether, NEW op \in DOMAIN Plan, Command(op)
    PROVE  [Promise!Next]_(Promise!vars)
<1>1. /\ cmd = Idle /\ cmd'.op = op /\ RunPhase = "rest"
      /\ UNCHANGED <<kind, daq, state, spent, clean>>
      /\ started' = (started \/ op = "START")
  BY DEF Command, Idle, RunPhase
<1>0. op # "START" => started' = started
  <2>1. started \in BOOLEAN
    BY DEF PInv, CInv, IInv, TypeOK
  <2> QED BY <1>1, <2>1
<1>2. /\ op = "START" => daq = "CONFIGURED"
      /\ op = "STOP" => daq = "RUNNING"
  <2>1. \A x \in DaqTable : /\ x[1] = "START" => x[2] = "CONFIGURED"
                            /\ x[1] = "STOP" => x[2] = "RUNNING"
    BY DEF DaqTable
  <2> QED BY <2>1 DEF Command
<1>3. Going' = Going /\ Readers' = Readers /\ Members' = Members
  BY <1>1 DEF Going, Running, Readers, Members
<1>4. clean = "CONFIGURE" => Placed
  BY DEF PInv, CInv, Whole
<1>5. CASE op = "START"
  <2>1. RunPhase' = "starting" /\ started' = TRUE
    BY <1>1, <1>5 DEF RunPhase
  <2>2. clean = "CONFIGURE" => Going \cap Members = {}
    BY <1>1, <1>2, <1>4, <1>5, CalmAtRest DEF Going
  <2>3. Promise!Start
    BY <1>1, <1>3, <2>1, <2>2 DEF Promise!Start, Going, Members
  <2> QED BY <2>3 DEF Promise!Next
<1>6. CASE op = "STOP"
  <2>1. RunPhase' = "stopping" /\ started' = started
    BY <1>0, <1>1, <1>6 DEF RunPhase
  <2>2. clean = "CONFIGURE" => Members \subseteq Going
    BY <1>1, <1>2, <1>6, MembersAcquire DEF RunsTogether, Going, Members
  <2>3. Promise!Stop
    BY <1>1, <1>3, <2>1, <2>2 DEF Promise!Stop, Going, Members
  <2> QED BY <2>3 DEF Promise!Next
<1>7. CASE op \notin {"START", "STOP"}
  <2>1. RunPhase' = RunPhase /\ started' = started
    BY <1>0, <1>1, <1>7 DEF RunPhase
  <2> QED BY <1>1, <1>3, <2>1 DEF Promise!vars, Going
<1> QED BY <1>5, <1>6, <1>7

LEMMA PromiseDone ==
    ASSUME PInv, PInv', RunsTogether', Done
    PROVE  [Promise!Next]_(Promise!vars)
<1> DEFINE op == cmd.op
           k == cmd.stage
<1>1. /\ Posting /\ cmd' = Idle /\ cmd.todo = {} /\ k = Len(Plan[op])
      /\ UNCHANGED <<kind, state, spent, lost>>
      /\ started' = IF op = "STOP" THEN lost /\ started ELSE started
      /\ RunPhase' = "rest"
  BY DEF Done, Idle, RunPhase
<1>2. /\ IInv /\ TypeOK /\ op \in Ops /\ LostUnclean /\ started \in BOOLEAN
      /\ QuietUnlessStarted
  BY <1>1, InProgress DEF PInv, CInv, IInv, TypeOK
<1>3. /\ op = "START" => daq' = "RUNNING"
      /\ op = "CONFIGURE" => daq' = "CONFIGURED"
  <2>1. \A x \in DaqTable : /\ x[1] = "START" => x[3] = "RUNNING"
                            /\ x[1] = "CONFIGURE" => x[3] = "CONFIGURED"
    BY DEF DaqTable
  <2> QED BY <2>1 DEF Done
<1>4. Going' = Going /\ Readers' = Readers /\ Members' = Members
  BY <1>1 DEF Going, Running, Readers, Members
<1>5. CASE op = "START"
  <2>1. RunPhase = "starting" /\ clean' = clean /\ started' = started
    BY <1>1, <1>5 DEF RunPhase, Done
  <2>2. clean = "CONFIGURE" => Members \subseteq Going'
    BY <1>1, <1>3, <1>4, <1>5, <2>1, MembersAcquire DEF RunsTogether, Going, Members
  <2>3. Promise!Started
    BY <1>1, <1>4, <2>1, <2>2 DEF Promise!Started, Going, Members
  <2> QED BY <2>3 DEF Promise!Next
<1>6. CASE op = "STOP" /\ ~lost
  <2>1. RunPhase = "stopping" /\ clean' = clean /\ started' = FALSE
    BY <1>1, <1>6 DEF RunPhase, Done
  <2>2. Going = {}
    <3> SUFFICES ASSUME NEW s \in Acquiring, Running(s) PROVE FALSE
      BY DEF Going
    <3>1. Waiting(s) /\ Rank(s) \in 2 .. 5 /\ k = 5
      BY <1>1, <1>2, <1>6, Lengths, AcquiringAreServers DEF IInv, StopReaches
    <3> QED BY <1>1, <3>1 DEF Waiting
  <2>3. Promise!Stopped
    BY <1>1, <1>4, <2>1, <2>2 DEF Promise!Stopped, Going, Members
  <2> QED BY <2>3 DEF Promise!Next
<1>7. CASE op = "STOP" /\ lost
  <2>1. clean' # "CONFIGURE" /\ started' = started
    BY <1>1, <1>2, <1>7 DEF Done, LostUnclean
  <2> QED BY <1>1, <1>2, <1>4, <2>1, PromiseFault
<1>8. CASE op = "CONFIGURE" /\ clean' = "CONFIGURE"
  <2>1. RunPhase = "rest" /\ started' = started
    BY <1>1, <1>8 DEF RunPhase
  <2>2. Placed'
    BY <1>8 DEF PInv, CInv, Whole
  <2>3. Going \cap Members = {}
    <3> SUFFICES ASSUME NEW s \in Members, Running(s) PROVE FALSE
      BY DEF Going
    <3>1. InPlace(s)' /\ s \in Acquiring
      BY <1>4, <2>2, MembersAcquire DEF Placed
    <3>2. state[s] \in Rest(s)["CONFIGURED"]
      BY <1>1, <1>3, <1>8, <3>1 DEF InPlace, Rest
    <3>3. Rest(s)["CONFIGURED"] \subseteq {"CONFIGURED", "STOPPED"}
      BY <3>1 DEF Rest, DifRest, TdcRest, CccRest, BuilderRest, DifSet, Conf
    <3> QED BY <3>2, <3>3 DEF Running
  <2>4. Promise!Configured
    BY <1>1, <1>4, <1>8, <2>1, <2>3 DEF Promise!Configured, Going, Members
  <2> QED BY <2>4 DEF Promise!Next
<1>9. CASE op \in {"PREPARE", "INITIALISE", "CONFIGURE", "DESTROY"} /\ clean' # "CONFIGURE"
  BY <1>1, <1>2, <1>4, <1>9, PromiseFault
<1>10. CASE op \in {"PREPARE", "INITIALISE", "DESTROY"}
  <2>1. clean' # "CONFIGURE"
    BY <1>10 DEF Done
  <2> QED BY <1>9, <1>10, <2>1
<1> QED BY <1>2, <1>5, <1>6, <1>7, <1>8, <1>9, <1>10 DEF Ops

(* DISCOVER, forced states, and processes that die and come back.           *)
LEMMA PromiseElsewhere ==
    ASSUME PInv,
           \/ CommandDiscover \/ DiscoverDone \/ NextStage \/ RunControlRestarts
           \/ UNCHANGED vars
           \/ \E c \in cmd.todo : Find(c)
           \/ \E to \in DaqStates : ForceState(to)
           \/ \E post \in {"PAUSE", "RESUME"} : Trigger(post)
           \/ \E s \in Servers : Crash(s) \/ DiesSpent(s) \/ Restart(s)
    PROVE  [Promise!Next]_(Promise!vars)
<1>1. /\ TypeOK /\ state \in [Servers -> ServerStates] /\ QuietUnlessStarted
      /\ spent \subseteq TdcServers /\ Acquiring \subseteq Servers /\ Mdcc \notin Acquiring
  BY AcquiringAreServers DEF PInv, CInv, IInv, TypeOK
<1>2. CASE CommandDiscover
  <2>1. /\ clean' # "CONFIGURE" /\ UNCHANGED <<state, started>>
        /\ cmd'.op = "DISCOVER"
    BY <1>2 DEF CommandDiscover
  <2>2. Going' = Going /\ RunPhase' = "rest"
    BY <2>1 DEF Going, Running, RunPhase
  <2> QED BY <1>1, <2>1, <2>2, PromiseFault
<1>3. CASE DiscoverDone
  <2>1. /\ clean' # "CONFIGURE" /\ UNCHANGED <<state, started>> /\ cmd'.op = "none"
    BY <1>3 DEF DiscoverDone, Idle
  <2>2. Going' = Going /\ RunPhase' = "rest"
    BY <2>1 DEF Going, Running, RunPhase
  <2> QED BY <1>1, <2>1, <2>2, PromiseFault
<1>4. CASE NextStage
  <2>1. cmd = [op |-> cmd.op, stage |-> cmd.stage, todo |-> cmd.todo]
    BY <1>1, <1>4, InProgress DEF NextStage
  <2>2. cmd'.op = cmd.op /\ UNCHANGED <<kind, state, spent, history>>
    BY <1>4, <2>1 DEF NextStage
  <2>3. Going' = Going
    BY <2>2 DEF Going, Running
  <2> QED BY <2>2, <2>3, PromiseStutters DEF history
<1>5. CASE RunControlRestarts
  <2>1. /\ clean' # "CONFIGURE" /\ UNCHANGED <<state, started>> /\ cmd'.op = "none"
    BY <1>5 DEF RunControlRestarts, Idle
  <2>2. Going' = Going /\ RunPhase' = "rest"
    BY <2>1 DEF Going, Running, RunPhase
  <2> QED BY <1>1, <2>1, <2>2, PromiseFault
<1>6. CASE UNCHANGED vars
  <2>1. Going' = Going
    BY <1>6 DEF vars, Going, Running
  <2> QED BY <1>6, <2>1, PromiseStutters DEF vars, history
<1>7. ASSUME NEW c \in cmd.todo, Find(c) PROVE [Promise!Next]_(Promise!vars)
  <2>1. cmd.op = "DISCOVER" /\ cmd # Idle
    BY <1>7 DEF Find, Idle
  <2>2. /\ cmd = [op |-> "DISCOVER", stage |-> 1, todo |-> cmd.todo]
        /\ c[1] \in Servers
    <3>1. "DISCOVER" \notin DOMAIN Plan
      BY Commands DEF Ops
    <3> QED BY <1>1, <1>7, <2>1, <3>1 DEF TypeOK
  <2>3. cmd'.op = cmd.op
    BY <1>7, <2>2 DEF Find
  <2>4. \A e \in Acquiring : Running(e)' <=> Running(e)
    BY <1>1, <1>7, <2>2 DEF Find, Running
  <2>5. Going' = Going
    BY <2>4 DEF Going
  <2> QED BY <1>7, <2>3, <2>5, PromiseStutters DEF Find, history
<1>8. ASSUME NEW to \in DaqStates, ForceState(to) PROVE [Promise!Next]_(Promise!vars)
  <2>1. /\ UNCHANGED <<kind, cmd, state, spent, started>>
        /\ clean' = clean \/ clean' = "none"
    BY <1>8 DEF ForceState
  <2>2. Going' = Going /\ RunPhase' = RunPhase
    BY <2>1 DEF Going, Running, RunPhase
  <2>3. CASE clean' = clean
    BY <2>1, <2>2, <2>3, PromiseStutters
  <2>4. CASE clean' = "none"
    BY <1>1, <2>1, <2>2, <2>4, PromiseFault
  <2> QED BY <2>1, <2>3, <2>4
<1>9. ASSUME NEW post, Trigger(post) PROVE [Promise!Next]_(Promise!vars)
  <2>1. PICK v : state' = [state EXCEPT ![Mdcc] = v]
    BY <1>9 DEF Trigger
  <2>2. \A e \in Acquiring : Running(e)' <=> Running(e)
    BY <1>1, <2>1 DEF Running
  <2>3. Going' = Going
    BY <2>2 DEF Going
  <2> QED BY <1>9, <2>3, PromiseStutters DEF Trigger, history
<1>10. ASSUME NEW s \in Servers, Crash(s) \/ Restart(s)
       PROVE  [Promise!Next]_(Promise!vars)
  <2>1. UNCHANGED <<cmd, started>> /\ clean' = "none"
    BY <1>10 DEF Crash, Restart
  <2>2. \A e \in Acquiring : Running(e)' => Running(e)
    BY <1>1, <1>10 DEF Crash, Restart, Running, Fresh
  <2>3. Going' \subseteq Going /\ RunPhase' = RunPhase
    BY <2>1, <2>2 DEF Going, RunPhase
  <2> QED BY <1>1, <2>1, <2>3, PromiseFault
<1>11. ASSUME NEW s \in Servers, DiesSpent(s) PROVE [Promise!Next]_(Promise!vars)
  <2>1. /\ UNCHANGED <<kind, cmd, spent, started, clean>> /\ s \in spent
        /\ state' = [state EXCEPT ![s] = "DOWN"]
    BY <1>11 DEF DiesSpent, history
  <2>2. Going' = Going \ {s}
    BY <1>1, <2>1 DEF Going, Running
  <2>3. CASE s \in Going
    <3>1. s \in Acquiring /\ s \notin Members
      BY <1>1, <2>1, <2>3, Distinct DEF Going, Members, Readers
    <3>2. RunPhase' = RunPhase /\ Readers' = Readers
      BY <2>1 DEF RunPhase, Readers
    <3>3. Promise!Drop(s)
      BY <2>1, <2>2, <2>3, <3>1, <3>2 DEF Promise!Drop, Going, Members
    <3> QED BY <3>1, <3>3 DEF Promise!Next
  <2>4. CASE s \notin Going
    BY <2>1, <2>2, <2>4, PromiseStutters
  <2> QED BY <2>3, <2>4
<1> QED BY <1>2, <1>3, <1>4, <1>5, <1>6, <1>7, <1>8, <1>9, <1>10, <1>11

(* FullDaq and WebDaq implement the abstract run control: FORCESTATE, second *)
(* discoveries, their own death and that of servers are faults it allows,    *)
(* and even then a server begins to acquire only in a START, and the STOP    *)
(* that a run control with its clients completes leaves none acquiring       *)
(* (FullDaq::start and stop, WebDaq::start and stop).                       *)
THEOREM ImplementsPromise == Spec => KeepsPromise
<1>1. Init => Promise!Init
  <2> SUFFICES ASSUME Init PROVE Promise!Init
    OBVIOUS
  <2>1. RunPhase = "rest" /\ started = FALSE /\ clean # "CONFIGURE"
    BY DEF Init, RunPhase, Idle
  <2>2. Going = {}
    BY AcquiringAreServers DEF Init, Going, Running, Fresh
  <2>3. Members \subseteq Acquiring
    BY MembersAcquire
  <2> QED BY <2>1, <2>2, <2>3 DEF Promise!Init, Going, Members
<1>2. PInv /\ PInv' /\ [Next]_vars => [Promise!Next]_(Promise!vars)
  <2> SUFFICES ASSUME PInv, PInv', [Next]_vars PROVE [Promise!Next]_(Promise!vars)
    OBVIOUS
  <2>1. RunsTogether /\ RunsTogether'
    BY RunsTogetherHere, PTL DEF PInv
  <2>2. ASSUME NEW c \in cmd.todo,
               PostDif(c) \/ PostTdc(c) \/ PostDb(c) \/ PostBuilder(c) \/ PostCard(c)
        PROVE  [Promise!Next]_(Promise!vars)
    <3>1. Answered(c)
      BY <2>2 DEF PostDif, PostTdc, PostDb, PostBuilder, PostCard
    <3>2. \/ spent' = spent
          \/ c[1] \in TdcServers /\ Now.post = "DESTROY" /\ spent' = spent \cup {c[1]}
      BY <2>2 DEF PostDif, PostTdc, PostDb, PostBuilder, PostCard
    <3> QED BY <2>1, <3>1, <3>2, PromiseAnswered
  <2> QED BY <2>1, <2>2, PromiseCommand, PromiseDone, PromiseElsewhere DEF Next
<1> QED BY <1>1, <1>2, PInvAlways, PTL DEF Spec, KeepsPromise, Promise!Spec
============================================================================
