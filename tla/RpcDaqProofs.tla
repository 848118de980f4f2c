--------------------------- MODULE RpcDaqProofs ---------------------------
(* Theorems about RpcDaq and its servers: for any hosts, cards and scans.    *)
EXTENDS RpcDaq, TLAPS, FiniteSetTheorems

Ops == {"PREPARE", "INITIALISE", "CONFIGURE", "START", "STOP", "DESTROY"}

(* No START since the last scan or destroy.                                  *)
Before == {"CREATED", "DISCOVERED", "PREPARED", "DESTROYED", "INITIALISED"}
(* The cards have been initialised.                                          *)
Ready == {"INITIALISED", "CONFIGURED", "STARTED", "STOPPED"}

In(op) == cmd.op = op
Waits(c) == HostOf[c] \in cmd.todo

(* The command in progress was accepted in the state that still stands.      *)
Accepted ==
    cmd # Idle => /\ daq \in Allowed[cmd.op] /\ Needs[cmd.op] \subseteq clients
                  /\ In("PREPARE") => daq \in Preparable

(* The maps of the servers are what the run control has listed.              *)
MapIsListed ==
    /\ listed = known
    /\ \A c \in known : HostOf[c] \in clients
    /\ daq = "CREATED" => known = {}
    /\ flag \subseteq known /\ rd \subseteq known \cap services
    /\ half \subseteq cmd.todo
    /\ half # {} => In("START") \/ In("DESTROY")

(* A thread has a card under it; it is seen by the flag, or being joined.    *)
ThreadHasCard ==
    \A c \in Cards :
        /\ thread[c] # "none" =>
             /\ c \in known \cap services
             /\ c \in flag \/ (In("DESTROY") /\ HostOf[c] \in half)
        /\ thread[c] \in {"loop", "inside"} => c \in rd
        /\ thread[c] = "failed" => c \notin rd
        /\ c \in flag \cap rd => thread[c] # "none"

(* Where there are no readers, and where DESTROY has left none.              *)
NoneBefore ==
    /\ daq \in Before => flag = {}
    /\ In("DESTROY") => \A c \in flag : Waits(c) /\ HostOf[c] \notin half

(* The cards have services for all that is published.                        *)
ServedWhenReady ==
    /\ daq \in Ready => \A c \in known : c \in services \/ (In("DESTROY") /\ ~Waits(c))
    /\ In("INITIALISE") /\ cmd.stage = 3 => \A c \in known : c \in services \/ Waits(c)

Safe == up /\ Accepted /\ MapIsListed /\ ThreadHasCard /\ NoneBefore
        /\ ServedWhenReady

SInv == TypeOK /\ (~misled => Safe)

(* The builder gets its proxy before the clock card its manager.             *)
ProxyFirst ==
    /\ daq = "CREATED" => ~opened
    /\ Shm \in clients => /\ opened => proxy
                          /\ In("PREPARE") /\ Shm \notin cmd.todo => proxy

Built == building /\ expects = Cardinality(listed)

(* Acquisition is in a run, and inside the steps of START and STOP that      *)
(* surround those of the builder.                                            *)
AcquiresInRun ==
    /\ acquiring =>
         /\ opened /\ Built
         /\ \/ daq = "STARTED" /\ cmd = Idle
            \/ In("STOP") /\ Ccc \in cmd.todo
            \/ In("START") /\ cmd.stage = 4 /\ cmd.todo = {}
    /\ In("START") /\ proxy /\ (cmd.stage = 4 \/ (cmd.stage = 3 /\ cmd.todo = {})) => Built

(* START has raised the flag of every card with a driver.                    *)
DriversAreFlagged ==
    /\ daq = "STARTED" => rd \subseteq flag
    /\ In("START") /\ cmd.stage >= 3 => rd \subseteq flag
    /\ In("START") /\ cmd.stage = 2 =>
         \A c \in rd : (Waits(c) /\ HostOf[c] \notin half) \/ c \in flag

Runs == ProxyFirst /\ AcquiresInRun /\ DriversAreFlagged

BInv == SInv /\ (~misled => Runs)

-----------------------------------------------------------------------------
(* The plans, spelled out once. *)

At(op, k) == cmd.op = op /\ cmd.stage = k

LEMMA Commands == DOMAIN Plan = Ops
  BY DEF Plan, Ops

LEMMA Lengths ==
    /\ Len(Plan["PREPARE"]) = 2 /\ Len(Plan["INITIALISE"]) = 3
    /\ Len(Plan["CONFIGURE"]) = 2 /\ Len(Plan["START"]) = 4
    /\ Len(Plan["STOP"]) = 3 /\ Len(Plan["DESTROY"]) = 1
  BY DEF Plan, StartPlan

LEMMA LengthIsNat == ASSUME NEW op \in Ops PROVE Len(Plan[op]) \in 1 .. 4
  BY Lengths DEF Ops

LEMMA Stages ==
    /\ Plan["PREPARE"][1] = Stage({Shm}, "INITIALISE")
    /\ Plan["PREPARE"][2] = Stage({Ccc}, "OPEN")
    /\ Plan["INITIALISE"][1] = Stage({Ccc}, "STOP")
    /\ Plan["INITIALISE"][2] = Stage(Hosts, "SCAN")
    /\ Plan["INITIALISE"][3] = Stage(Hosts, "INITIALISE")
    /\ Plan["CONFIGURE"][1] = Stage(Hosts, "REGISTERDB")
    /\ Plan["CONFIGURE"][2] = Stage(Hosts, "CONFIGURE")
    /\ Plan["START"][1] = Stage({Db}, "NEWRUN")
    /\ Plan["START"][2] = Stage(Hosts, "START")
    /\ Plan["START"][3] = Stage({Shm}, "START")
    /\ Plan["START"][4] = Stage({Ccc}, "START")
    /\ Plan["STOP"][1] = Stage({Ccc}, "STOP")
    /\ Plan["STOP"][2] = Stage(Hosts, "STOP")
    /\ Plan["STOP"][3] = Stage({Shm}, "STOP")
    /\ Plan["DESTROY"][1] = Stage(Hosts, "DESTROY")
  BY DEF Plan, StartPlan

LEMMA Distinct ==
    /\ Db \notin Hosts /\ Ccc \notin Hosts /\ Shm \notin Hosts
    /\ Db # Ccc /\ Db # Shm /\ Ccc # Shm
  BY ServersAssumption

LEMMA IdleIs == Idle.op = "none" /\ Idle.stage = 1 /\ Idle.todo = {}
  BY DEF Idle

(* What a call in progress says of the command.                             *)
LEMMA InProgress ==
    ASSUME TypeOK, cmd # Idle
    PROVE  /\ cmd.op \in Ops
           /\ cmd.stage \in Nat /\ cmd.stage \in 1 .. Len(Plan[cmd.op])
           /\ cmd = [op |-> cmd.op, stage |-> cmd.stage, todo |-> cmd.todo]
           /\ cmd.todo \subseteq clients \cap Plan[cmd.op][cmd.stage].to
<1>1. cmd.op \in Ops
  BY Commands DEF TypeOK
<1>2. Len(Plan[cmd.op]) \in 1 .. 4
  BY <1>1, LengthIsNat
<1> QED BY <1>1, <1>2 DEF TypeOK

(* Which stage of which command a call is of.                               *)
LEMMA Calls ==
    ASSUME TypeOK, NEW s, NEW post, Called(s, post)
    PROVE  /\ s \in cmd.todo /\ s \in clients /\ cmd # Idle
           /\ \/ At("PREPARE", 1) /\ s = Shm /\ post = "INITIALISE"
              \/ At("PREPARE", 2) /\ s = Ccc /\ post = "OPEN"
              \/ At("INITIALISE", 1) /\ s = Ccc /\ post = "STOP"
              \/ At("INITIALISE", 2) /\ s \in Hosts /\ post = "SCAN"
              \/ At("INITIALISE", 3) /\ s \in Hosts /\ post = "INITIALISE"
              \/ At("CONFIGURE", 1) /\ s \in Hosts /\ post = "REGISTERDB"
              \/ At("CONFIGURE", 2) /\ s \in Hosts /\ post = "CONFIGURE"
              \/ At("START", 1) /\ s = Db /\ post = "NEWRUN"
              \/ At("START", 2) /\ s \in Hosts /\ post = "START"
              \/ At("START", 3) /\ s = Shm /\ post = "START"
              \/ At("START", 4) /\ s = Ccc /\ post = "START"
              \/ At("STOP", 1) /\ s = Ccc /\ post = "STOP"
              \/ At("STOP", 2) /\ s \in Hosts /\ post = "STOP"
              \/ At("STOP", 3) /\ s = Shm /\ post = "STOP"
              \/ At("DESTROY", 1) /\ s \in Hosts /\ post = "DESTROY"
<1>1. /\ cmd # Idle /\ s \in cmd.todo
      /\ Plan[cmd.op][cmd.stage].post = post
  BY DEF Called
<1>2. /\ cmd.op \in Ops
      /\ cmd.stage \in Nat /\ cmd.stage \in 1 .. Len(Plan[cmd.op])
      /\ s \in clients /\ s \in Plan[cmd.op][cmd.stage].to
  BY <1>1, InProgress
<1>3. CASE cmd.op = "PREPARE"
  BY <1>1, <1>2, <1>3, Lengths, Stages DEF Stage, At
<1>4. CASE cmd.op = "INITIALISE"
  BY <1>1, <1>2, <1>4, Lengths, Stages DEF Stage, At
<1>5. CASE cmd.op = "CONFIGURE"
  BY <1>1, <1>2, <1>5, Lengths, Stages DEF Stage, At
<1>6. CASE cmd.op = "START"
  BY <1>1, <1>2, <1>6, Lengths, Stages DEF Stage, At
<1>7. CASE cmd.op = "STOP"
  BY <1>1, <1>2, <1>7, Lengths, Stages DEF Stage, At
<1>8. CASE cmd.op = "DESTROY"
  BY <1>1, <1>2, <1>8, Lengths, Stages DEF Stage, At
<1> QED BY <1>1, <1>2, <1>3, <1>4, <1>5, <1>6, <1>7, <1>8 DEF Ops

(* What an answer does to the command.                                      *)
LEMMA Answering ==
    ASSUME TypeOK, NEW s, NEW post, Called(s, post), Answers(s)
    PROVE  /\ cmd'.op = cmd.op /\ cmd'.stage = cmd.stage
           /\ cmd'.todo = cmd.todo \ {s}
           /\ cmd' = [op |-> cmd'.op, stage |-> cmd'.stage, todo |-> cmd'.todo]
           /\ cmd # Idle /\ cmd' # Idle
<1>1. cmd # Idle
  BY DEF Called
<1>2. /\ cmd.op \in Ops
      /\ cmd = [op |-> cmd.op, stage |-> cmd.stage, todo |-> cmd.todo]
  BY <1>1, InProgress
<1>3. cmd' = [op |-> cmd.op, stage |-> cmd.stage, todo |-> cmd.todo \ {s}]
  BY <1>2 DEF Answers
<1>4. cmd'.op # "none"
  BY <1>2, <1>3 DEF Ops
<1> QED BY <1>1, <1>3, <1>4, IdleIs

-----------------------------------------------------------------------------
(* The command keeps its type.                                              *)
CmdOK == \/ cmd = Idle
         \/ /\ cmd.op \in DOMAIN Plan
            /\ cmd.stage \in 1 .. Len(Plan[cmd.op])
            /\ cmd = [op |-> cmd.op, stage |-> cmd.stage, todo |-> cmd.todo]
            /\ cmd.todo \subseteq clients \cap Plan[cmd.op][cmd.stage].to

LEMMA CmdAnswered ==
    ASSUME TypeOK, NEW s, NEW post, Called(s, post), Answers(s),
           clients' = clients
    PROVE  CmdOK'
<1>1. /\ cmd'.op = cmd.op /\ cmd'.stage = cmd.stage
      /\ cmd'.todo = cmd.todo \ {s}
      /\ cmd' = [op |-> cmd'.op, stage |-> cmd'.stage, todo |-> cmd'.todo]
      /\ cmd # Idle
  BY Answering
<1>2. /\ cmd.op \in Ops /\ cmd.stage \in 1 .. Len(Plan[cmd.op])
      /\ cmd.todo \subseteq clients \cap Plan[cmd.op][cmd.stage].to
  BY <1>1, InProgress
<1> QED BY <1>1, <1>2, Commands DEF CmdOK

LEMMA CmdBegun ==
    ASSUME TypeOK, NEW op \in Ops, Command(op)
    PROVE  /\ CmdOK'
           /\ cmd'.op = op /\ cmd'.stage = 1 /\ cmd' # Idle
           /\ cmd'.todo = Plan[op][1].to \cap clients
<1>1. cmd' = [op |-> op, stage |-> 1, todo |-> Plan[op][1].to \cap clients]
  BY DEF Command, Asked
<1>2. clients' = clients /\ Len(Plan[op]) \in 1 .. 4
  BY LengthIsNat DEF Command
<1>3. op # "none"
  BY DEF Ops
<1>4. /\ cmd'.op = op /\ cmd'.stage = 1
      /\ cmd'.todo = Plan[op][1].to \cap clients
      /\ cmd' = [op |-> cmd'.op, stage |-> cmd'.stage, todo |-> cmd'.todo]
  BY <1>1
<1>5. cmd' # Idle
  BY <1>3, <1>4, IdleIs
<1>6. 1 \in 1 .. Len(Plan[op])
  <2>1. \A n \in 1 .. 4 : 1 \in 1 .. n
    OBVIOUS
  <2> QED BY <1>2, <2>1
<1> QED BY <1>2, <1>4, <1>5, <1>6, Commands DEF CmdOK

LEMMA CmdStaged ==
    ASSUME TypeOK, NextStage
    PROVE  /\ CmdOK'
           /\ cmd'.op = cmd.op /\ cmd'.stage = cmd.stage + 1
           /\ cmd # Idle /\ cmd' # Idle /\ cmd.todo = {}
           /\ cmd.stage < Len(Plan[cmd.op])
           /\ cmd'.todo = Plan[cmd.op][cmd.stage + 1].to \cap clients
<1>1. /\ cmd # Idle /\ clients' = clients /\ cmd.todo = {}
      /\ cmd.stage < Len(Plan[cmd.op])
  BY DEF NextStage, control
<1>2. /\ cmd.op \in Ops /\ cmd.stage \in 1 .. Len(Plan[cmd.op])
      /\ cmd.stage \in Nat
      /\ cmd = [op |-> cmd.op, stage |-> cmd.stage, todo |-> cmd.todo]
  BY <1>1, InProgress
<1>3. cmd' = [op |-> cmd.op, stage |-> cmd.stage + 1,
              todo |-> Plan[cmd.op][cmd.stage + 1].to \cap clients]
  BY <1>1, <1>2 DEF NextStage, Asked
<1>4. Len(Plan[cmd.op]) \in 1 .. 4 /\ cmd.op # "none"
  BY <1>2, LengthIsNat DEF Ops
<1>5. cmd.stage + 1 \in 1 .. Len(Plan[cmd.op])
  BY <1>1, <1>2, <1>4
<1> QED BY <1>1, <1>2, <1>3, <1>4, <1>5, IdleIs, Commands DEF CmdOK

-----------------------------------------------------------------------------
LEMMA ScannedIs ==
    ASSUME known \subseteq Cards, NEW h, NEW found \in SUBSET CardsOf(h)
    PROVE  /\ Scanned(h, found) \subseteq Cards
           /\ \A c \in Cards :
                c \in Scanned(h, found) <=>
                  IF HostOf[c] = h THEN c \in found ELSE c \in known
  BY DEF Scanned, CardsOf

(* The cards of the other hosts are not in the handlers of this one.        *)
LEMMA MineIs ==
    ASSUME known \subseteq Cards, NEW h
    PROVE  /\ Mine(h) \subseteq Cards /\ Mine(h) \subseteq known
           /\ \A c \in Cards : c \in Mine(h) <=> c \in known /\ HostOf[c] = h
  BY DEF Mine, CardsOf

LEMMA TypeInit == Init => TypeOK
<1> SUFFICES ASSUME Init PROVE TypeOK
  OBVIOUS
<1>1. /\ daq \in DaqStates /\ clients \subseteq Servers /\ misled \in BOOLEAN
      /\ cmd = Idle
  BY DEF Init, DaqStates
<1>2. thread \in [Cards -> {"none", "begin", "loop", "inside", "failed"}]
  BY DEF Init
<1>3. /\ opened \in BOOLEAN /\ acquiring \in BOOLEAN /\ proxy \in BOOLEAN
      /\ building \in BOOLEAN /\ up \in BOOLEAN /\ expects \in Nat
  BY DEF Init
<1> QED BY <1>1, <1>2, <1>3 DEF Init, TypeOK

LEMMA TypeStep == TypeOK /\ [Next]_vars => TypeOK'
<1> SUFFICES ASSUME TypeOK, [Next]_vars PROVE TypeOK'
  OBVIOUS
<1>0. known \subseteq Cards
  BY DEF TypeOK
<1>1. CASE Discover
  <2>1. clients' \subseteq Servers
    BY <1>1 DEF Discover, TypeOK
  <2>2. cmd' = Idle /\ daq' \in DaqStates /\ listed' = {}
    BY <1>1 DEF Discover, DaqStates
  <2> QED BY <1>1, <2>1, <2>2 DEF Discover, TypeOK, cards, ccc, builder
<1>2. CASE NextStage
  <2>1. CmdOK'
    BY <1>2, CmdStaged
  <2> QED BY <1>2, <2>1 DEF NextStage, TypeOK, CmdOK, control, cards, ccc, builder
<1>3. CASE Done
  <2>1. cmd # Idle
    BY <1>3 DEF Done
  <2>2. cmd.op \in Ops
    BY <2>1, InProgress
  <2>3. daq' \in DaqStates
    BY <1>3, <2>2 DEF Done, Target, Ops, DaqStates
  <2> QED BY <1>3, <2>3 DEF Done, TypeOK, cards, ccc, builder
<1>4. ASSUME NEW op \in DOMAIN Plan, Command(op) PROVE TypeOK'
  <2>1. CmdOK'
    BY <1>4, CmdBegun, Commands
  <2>2. misled' \in BOOLEAN
    BY <1>4 DEF Command, TypeOK
  <2> QED BY <1>4, <2>1, <2>2 DEF Command, TypeOK, CmdOK, cards, ccc, builder
<1>5. ASSUME NEW to \in DaqStates, ForceState(to) PROVE TypeOK'
  BY <1>5 DEF ForceState, TypeOK, cards, ccc, builder
<1>6. CASE CallCcc
  <2>1. CmdOK'
    BY <1>6, CmdAnswered DEF CallCcc, control
  <2>2. opened' \in BOOLEAN /\ acquiring' \in BOOLEAN
    BY <1>6 DEF CallCcc, TypeOK
  <2> QED BY <1>6, <2>1, <2>2 DEF CallCcc, TypeOK, CmdOK, control, cards, builder
<1>7. CASE CallShm
  <2>1. CmdOK'
    BY <1>7, CmdAnswered DEF CallShm, control
  <2>2. Cardinality(listed) \in Nat
    BY FS_Subset, FS_CardinalityType, CardsAssumption DEF TypeOK
  <2>3. proxy' \in BOOLEAN /\ building' \in BOOLEAN /\ expects' \in Nat
    BY <1>7, <2>2 DEF CallShm, TypeOK
  <2> QED BY <1>7, <2>1, <2>3 DEF CallShm, TypeOK, CmdOK, control, cards, ccc
<1>8. CASE CallDb
  <2>1. CmdOK'
    BY <1>8, CmdAnswered DEF CallDb, control
  <2> QED BY <1>8, <2>1 DEF CallDb, TypeOK, CmdOK, control, cards, ccc, builder
<1>9. ASSUME NEW h \in Hosts, Scan(h) PROVE TypeOK'
  <2>1. CmdOK'
    BY <1>9, CmdAnswered DEF Scan, control
  <2>2. /\ known' \subseteq Cards /\ polling' \subseteq Cards
        /\ listed' \subseteq Cards
    BY <1>9, <1>0, ScannedIs DEF Scan, TypeOK, CardsOf
  <2>3. up' \in BOOLEAN /\ rd' \subseteq Cards /\ services' \subseteq Cards /\ flag' \subseteq Cards
    BY <1>9 DEF Scan, TypeOK
  <2> QED BY <1>9, <2>1, <2>2, <2>3 DEF Scan, TypeOK, CmdOK, control, ccc, builder
<1>10. ASSUME NEW h \in Hosts, Initialise(h) PROVE TypeOK'
  <2>1. CmdOK'
    BY <1>10, CmdAnswered DEF Initialise, control
  <2>2. rd' \subseteq Cards /\ services' \subseteq Cards
    BY <1>10, <1>0, MineIs DEF Initialise, TypeOK
  <2> QED BY <1>10, <2>1, <2>2 DEF Initialise, TypeOK, CmdOK, control, ccc, builder
<1>11. ASSUME NEW h \in Hosts, Register(h) PROVE TypeOK'
  <2>1. CmdOK'
    BY <1>11, CmdAnswered DEF Register, control
  <2> QED BY <1>11, <2>1 DEF Register, TypeOK, CmdOK, control, cards, ccc, builder
<1>12. ASSUME NEW h \in Hosts, StartThreads(h) PROVE TypeOK'
  <2>1. thread' \in [Cards -> {"none", "begin", "loop", "inside", "failed"}]
    BY <1>12 DEF StartThreads, TypeOK
  <2>2. flag' \subseteq Cards /\ half' \subseteq Hosts
    BY <1>12, <1>0, MineIs DEF StartThreads, TypeOK
  <2> QED BY <1>12, <2>1, <2>2 DEF StartThreads, TypeOK, control, ccc, builder
<1>13. ASSUME NEW h \in Hosts, StartCards(h) PROVE TypeOK'
  <2>1. CmdOK'
    BY <1>13, CmdAnswered DEF StartCards, control
  <2>2. polling' \subseteq Cards /\ half' \subseteq Hosts /\ up' \in BOOLEAN
    BY <1>13, <1>0, MineIs DEF StartCards, TypeOK
  <2> QED BY <1>13, <2>1, <2>2 DEF StartCards, TypeOK, CmdOK, control, ccc, builder
<1>14. ASSUME NEW h \in Hosts, Stop(h) PROVE TypeOK'
  <2>1. CmdOK'
    BY <1>14, CmdAnswered DEF Stop, control
  <2>2. polling' \subseteq Cards /\ up' \in BOOLEAN
    BY <1>14 DEF Stop, TypeOK
  <2> QED BY <1>14, <2>1, <2>2 DEF Stop, TypeOK, CmdOK, control, ccc, builder
<1>15. ASSUME NEW h \in Hosts, DestroyFlags(h) PROVE TypeOK'
  <2>1. flag' \subseteq Cards /\ half' \subseteq Hosts
    BY <1>15 DEF DestroyFlags, TypeOK
  <2> QED BY <1>15, <2>1 DEF DestroyFlags, TypeOK, control, ccc, builder
<1>16. ASSUME NEW h \in Hosts, DestroyCards(h) PROVE TypeOK'
  <2>1. CmdOK'
    BY <1>16, CmdAnswered DEF DestroyCards, control
  <2>2. /\ rd' \subseteq Cards /\ services' \subseteq Cards
        /\ half' \subseteq Hosts /\ up' \in BOOLEAN
    BY <1>16 DEF DestroyCards, TypeOK
  <2> QED BY <1>16, <2>1, <2>2 DEF DestroyCards, TypeOK, CmdOK, control, ccc, builder
<1>17. ASSUME NEW c \in Cards, Reader(c) PROVE TypeOK'
  <2>1. thread' \in [Cards -> {"none", "begin", "loop", "inside", "failed"}]
    BY <1>17 DEF Reader, Moves, TypeOK
  <2>2. flag' \subseteq Cards
    BY <1>17 DEF Reader, TypeOK
  <2>3. up' \in BOOLEAN
    <3>1. \/ up' = (c \in rd \cup services)
          \/ up' = up
          \/ up' = (c \in rd \cap services)
      BY <1>17, Zenon DEF Reader
    <3>2. up \in BOOLEAN
      BY DEF TypeOK
    <3>3. (c \in rd \cup services) \in BOOLEAN /\ (c \in rd \cap services) \in BOOLEAN
      OBVIOUS
    <3> QED BY <3>1, <3>2, <3>3
  <2> QED BY <1>17, <2>1, <2>2, <2>3 DEF Reader, TypeOK, control, ccc, builder
<1>18. CASE UNCHANGED vars
  BY <1>18 DEF vars, TypeOK, control, cards, ccc, builder
<1> QED BY <1>1, <1>2, <1>3, <1>4, <1>5, <1>6, <1>7, <1>8, <1>9, <1>10, <1>11,
           <1>12, <1>13, <1>14, <1>15, <1>16, <1>17, <1>18 DEF Next, Handler

(* Every variable keeps its type. *)
THEOREM TypeCorrect == Spec => []TypeOK
  BY TypeInit, TypeStep, PTL DEF Spec


-----------------------------------------------------------------------------
(* Safe, action by action. *)

(* A card on the bus of a host that answers, or not.                        *)
LEMMA WaitsAfter ==
    ASSUME TypeOK, NEW s, NEW post, Called(s, post), Answers(s)
    PROVE  /\ \A op : In(op)' <=> In(op)
           /\ \A c : Waits(c)' <=> Waits(c) /\ HostOf[c] # s
           /\ cmd'.stage = cmd.stage /\ cmd'.todo = cmd.todo \ {s}
           /\ cmd # Idle /\ cmd' # Idle
  BY Answering DEF In, Waits

LEMMA AcceptedStays ==
    ASSUME TypeOK, Accepted, NEW s, NEW post, Called(s, post), Answers(s),
           UNCHANGED <<daq, clients>>
    PROVE  Accepted'
<1>1. cmd # Idle /\ cmd'.op = cmd.op
  BY Answering
<1> QED BY <1>1 DEF Accepted, In

(* Before START there are no threads at all.                                *)
LEMMA NoThreads ==
    ASSUME TypeOK, Safe, In("INITIALISE")
    PROVE  /\ daq \in {"PREPARED", "DESTROYED"} /\ flag = {}
           /\ \A c \in Cards : thread[c] = "none"
<1>1. cmd # Idle
  BY IdleIs DEF In
<1>2. daq \in {"PREPARED", "DESTROYED"}
  BY <1>1 DEF Safe, Accepted, In, Allowed
<1>3. flag = {}
  BY <1>2 DEF Safe, NoneBefore, Before
<1> QED BY <1>2, <1>3 DEF Safe, ThreadHasCard, In

LEMMA SafeDiscover == ASSUME TypeOK, Safe, Discover PROVE Safe'
<1>1. /\ cmd = Idle /\ cmd' = Idle /\ daq = "CREATED" /\ daq' = "DISCOVERED"
      /\ listed' = {}
      /\ UNCHANGED <<half, known, rd, services, flag, polling, thread, up>>
  BY DEF Discover, cards
<1>2. known = {} /\ flag = {} /\ rd = {}
  BY <1>1 DEF Safe, MapIsListed
<1>3. \A op : In(op) <=> op = "none"
  BY <1>1, IdleIs DEF In
<1>4. \A op : In(op)' <=> op = "none"
  BY <1>1, IdleIs DEF In
<1>5. half = {}
  BY <1>1, IdleIs DEF Safe, MapIsListed
<1>6. up' /\ Accepted'
  BY <1>1 DEF Safe, Accepted
<1>7. MapIsListed'
  BY <1>1, <1>2, <1>5 DEF Safe, MapIsListed
<1>8. ThreadHasCard'
  BY <1>1, <1>2, <1>3 DEF Safe, ThreadHasCard
<1>9. NoneBefore' /\ ServedWhenReady'
  BY <1>1, <1>2, <1>4 DEF Safe, NoneBefore, ServedWhenReady
<1> QED BY <1>6, <1>7, <1>8, <1>9 DEF Safe

LEMMA SafeNextStage == ASSUME TypeOK, Safe, NextStage PROVE Safe'
<1>1. /\ cmd'.op = cmd.op /\ cmd'.stage = cmd.stage + 1
      /\ cmd # Idle /\ cmd' # Idle /\ cmd.todo = {}
      /\ cmd.stage < Len(Plan[cmd.op])
      /\ cmd'.todo = Plan[cmd.op][cmd.stage + 1].to \cap clients
  BY CmdStaged
<1>2. UNCHANGED <<daq, clients, listed, half, known, rd, services, flag, polling, thread, up>>
  BY DEF NextStage, control, cards
<1>3. half = {}
  BY <1>1 DEF Safe, MapIsListed
<1>4. \A op : In(op)' <=> In(op)
  BY <1>1 DEF In
<1>5. ~In("DESTROY")
  <2>1. cmd.stage \in Nat /\ cmd.stage >= 1
    BY <1>1, InProgress
  <2>2. cmd.op = "DESTROY" => cmd.stage < 1
    BY <1>1, Lengths
  <2> QED BY <2>1, <2>2 DEF In
<1>6. up' /\ Accepted'
  BY <1>1, <1>2 DEF Safe, Accepted, In
<1>7. MapIsListed'
  BY <1>1, <1>2, <1>3 DEF Safe, MapIsListed
<1>8. ThreadHasCard'
  BY <1>2, <1>4, <1>5 DEF Safe, ThreadHasCard
<1>9. NoneBefore'
  BY <1>2, <1>4, <1>5 DEF Safe, NoneBefore
<1>10. ServedWhenReady'
  <2>1. In("INITIALISE") /\ cmd'.stage = 3 => \A c \in known : Waits(c)'
    <3>1. SUFFICES ASSUME In("INITIALISE"), cmd'.stage = 3, NEW c \in known
                   PROVE  Waits(c)'
      OBVIOUS
    <3>2. cmd'.todo = Hosts \cap clients
      BY <1>1, <3>1, Stages DEF In, Stage
    <3>3. HostOf[c] \in Hosts /\ HostOf[c] \in clients
      BY CardsAssumption DEF TypeOK, Safe, MapIsListed
    <3> QED BY <3>2, <3>3 DEF Waits
  <2> QED BY <1>2, <1>4, <1>5, <2>1 DEF Safe, ServedWhenReady
<1> QED BY <1>6, <1>7, <1>8, <1>9, <1>10 DEF Safe

LEMMA SafeDone == ASSUME TypeOK, Safe, Done PROVE Safe'
<1>1. /\ cmd # Idle /\ cmd' = Idle /\ cmd.todo = {}
      /\ cmd.stage = Len(Plan[cmd.op]) /\ daq' = Target[cmd.op]
      /\ UNCHANGED <<clients, listed, half, known, rd, services, flag, polling, thread, up>>
  BY DEF Done, cards
<1>2. cmd.op \in Ops
  BY <1>1, InProgress
<1>3. half = {}
  BY <1>1 DEF Safe, MapIsListed
<1>4. \A op : In(op)' <=> op = "none"
  BY <1>1, IdleIs DEF In
<1>5. /\ daq' # "CREATED"
      /\ daq' \in Before <=> cmd.op \in {"PREPARE", "INITIALISE", "DESTROY"}
      /\ daq' \in Ready <=> cmd.op \in {"INITIALISE", "CONFIGURE", "START", "STOP"}
  BY <1>1, <1>2 DEF Target, Ops, Before, Ready
<1>6. daq \in Allowed[cmd.op] /\ (cmd.op = "PREPARE" => daq \in Preparable)
  BY <1>1 DEF Safe, Accepted, In
<1>7. up' /\ Accepted' /\ MapIsListed'
  BY <1>1, <1>3, <1>5 DEF Safe, MapIsListed, Accepted
<1>8. ThreadHasCard'
  BY <1>1, <1>3 DEF Safe, ThreadHasCard
<1>9. NoneBefore'
  <2>1. cmd.op = "DESTROY" => flag = {}
    BY <1>1 DEF Safe, NoneBefore, In, Waits
  <2>2. cmd.op \in {"PREPARE", "INITIALISE"} => daq \in Before
    BY <1>6 DEF Allowed, Preparable, Before
  <2>3. daq' \in Before => flag = {}
    BY <1>5, <2>1, <2>2 DEF Safe, NoneBefore
  <2> QED BY <1>1, <1>4, <2>3 DEF NoneBefore
<1>10. ServedWhenReady'
  <2>1. cmd.op = "INITIALISE" => \A c \in known : c \in services
    BY <1>1, Lengths DEF Safe, ServedWhenReady, In, Waits
  <2>2. cmd.op \in {"CONFIGURE", "START", "STOP"} => daq \in Ready
    BY <1>6 DEF Allowed, Ready
  <2>3. daq' \in Ready => \A c \in known : c \in services
    BY <1>5, <2>1, <2>2 DEF Safe, ServedWhenReady, In
  <2> QED BY <1>1, <1>4, <2>3 DEF ServedWhenReady
<1> QED BY <1>7, <1>8, <1>9, <1>10 DEF Safe

LEMMA SafeCommand ==
    ASSUME TypeOK, Safe, NEW op \in Ops, Command(op), ~misled'
    PROVE  Safe'
<1>1. /\ cmd'.op = op /\ cmd'.stage = 1 /\ cmd' # Idle
      /\ cmd'.todo = Plan[op][1].to \cap clients
  BY CmdBegun
<1>2. /\ cmd = Idle /\ daq \in Allowed[op] /\ Needs[op] \subseteq clients
      /\ op = "PREPARE" => daq \in Preparable
      /\ UNCHANGED <<daq, clients, listed, half, known, rd, services, flag, polling, thread, up>>
  BY DEF Command, cards
<1>3. half = {}
  BY <1>2, IdleIs DEF Safe, MapIsListed
<1>4. \A o : In(o) <=> o = "none"
  BY <1>2, IdleIs DEF In
<1>5. \A o : In(o)' <=> o = op
  BY <1>1 DEF In
<1>6. up' /\ Accepted'
  BY <1>1, <1>2 DEF Safe, Accepted, In
<1>7. MapIsListed'
  BY <1>2, <1>3 DEF Safe, MapIsListed
<1>8. ThreadHasCard'
  BY <1>2, <1>4 DEF Safe, ThreadHasCard
<1>9. NoneBefore'
  <2>1. op = "DESTROY" => \A c \in flag : Waits(c)'
    <3>1. SUFFICES ASSUME op = "DESTROY", NEW c \in flag PROVE Waits(c)'
      OBVIOUS
    <3>2. cmd'.todo = Hosts \cap clients
      BY <1>1, <3>1, Stages DEF Stage
    <3>3. HostOf[c] \in Hosts /\ HostOf[c] \in clients
      BY CardsAssumption DEF TypeOK, Safe, MapIsListed
    <3> QED BY <3>2, <3>3 DEF Waits
  <2> QED BY <1>2, <1>3, <1>5, <2>1 DEF Safe, NoneBefore
<1>10. ServedWhenReady'
  BY <1>1, <1>2, <1>4, <1>5 DEF Safe, ServedWhenReady
<1> QED BY <1>6, <1>7, <1>8, <1>9, <1>10 DEF Safe

(* A call to another server than those of the cards.                        *)
LEMMA SafeElsewhere ==
    ASSUME TypeOK, Safe, NEW s, NEW post, Called(s, post), Answers(s), s \notin Hosts,
           UNCHANGED <<daq, clients, listed, half, cards, up>>
    PROVE  Safe'
<1>1. /\ \A op : In(op)' <=> In(op)
      /\ \A c : Waits(c)' <=> Waits(c) /\ HostOf[c] # s
      /\ cmd'.stage = cmd.stage /\ cmd'.todo = cmd.todo \ {s}
  BY WaitsAfter
<1>2. UNCHANGED <<daq, clients, listed, half, known, rd, services, flag, polling, thread, up>>
  BY DEF cards
<1>3. \A c \in Cards : Waits(c)' <=> Waits(c)
  BY <1>1, CardsAssumption
<1>4. known \subseteq Cards /\ flag \subseteq Cards /\ half \subseteq Hosts
  BY DEF TypeOK
<1>5. up' /\ Accepted'
  BY <1>2, AcceptedStays DEF Safe
<1>6. MapIsListed'
  BY <1>1, <1>2, <1>4 DEF Safe, MapIsListed
<1>7. ThreadHasCard'
  BY <1>1, <1>2 DEF Safe, ThreadHasCard
<1>8. NoneBefore' /\ ServedWhenReady'
  BY <1>1, <1>2, <1>3, <1>4 DEF Safe, NoneBefore, ServedWhenReady
<1> QED BY <1>5, <1>6, <1>7, <1>8 DEF Safe

(* SCAN deletes cards that have no thread.                                  *)
LEMMA SafeScan == ASSUME TypeOK, Safe, NEW h \in Hosts, Scan(h) PROVE Safe'
<1>1. Called(h, "SCAN") /\ Answers(h)
  BY DEF Scan
<1>2. /\ At("INITIALISE", 2) /\ h \in cmd.todo /\ h \in clients
  BY <1>1, Calls, Distinct
<1>3. /\ \A op : In(op)' <=> In(op)
      /\ \A c : Waits(c)' <=> Waits(c) /\ HostOf[c] # h
      /\ cmd'.stage = cmd.stage /\ cmd'.todo = cmd.todo \ {h}
  BY <1>1, WaitsAfter
<1>4. In("INITIALISE") /\ \A op : In(op) <=> op = "INITIALISE"
  BY <1>2 DEF At, In
<1>5. /\ daq \in {"PREPARED", "DESTROYED"} /\ flag = {}
      /\ \A c \in Cards : thread[c] = "none"
  BY <1>4, NoThreads
<1>6. /\ known \subseteq Cards /\ rd \subseteq known \cap services
      /\ listed = known /\ half = {}
      /\ \A c \in known : HostOf[c] \in clients
  BY <1>4 DEF TypeOK, Safe, MapIsListed
<1>7. PICK found \in SUBSET CardsOf(h) :
         /\ known' = Scanned(h, found)
         /\ listed' = (listed \ CardsOf(h)) \cup found
  BY DEF Scan
<1>8. /\ rd' = rd \ CardsOf(h) /\ services' = services \ CardsOf(h)
      /\ flag' = flag \ CardsOf(h) /\ UNCHANGED <<daq, clients, half, thread>>
  BY DEF Scan, control
<1>9. \A c \in Cards : c \in known' <=> IF HostOf[c] = h THEN c \in found ELSE c \in known
  BY <1>6, <1>7, ScannedIs
<1>10. known' \subseteq Cards /\ listed' = known'
  BY <1>6, <1>7 DEF Scanned, CardsOf
<1>11. up'
  BY <1>5, <1>6, MineIs DEF Scan
<1>12. Accepted'
  BY <1>1, <1>8, AcceptedStays DEF Safe
<1>13. MapIsListed'
  <2>1. \A c \in known' : HostOf[c] \in clients
    BY <1>2, <1>6, <1>9, <1>10
  <2>2. rd' \subseteq known' \cap services'
    BY <1>6, <1>8, <1>9 DEF CardsOf
  <2> QED BY <1>3, <1>4, <1>5, <1>6, <1>8, <1>10, <2>1, <2>2 DEF MapIsListed
<1>14. ThreadHasCard'
  BY <1>5, <1>8 DEF ThreadHasCard
<1>15. NoneBefore'
  BY <1>3, <1>4, <1>5, <1>8 DEF NoneBefore
<1>16. ServedWhenReady'
  BY <1>2, <1>3, <1>5, <1>8 DEF ServedWhenReady, Ready, At
<1> QED BY <1>11, <1>12, <1>13, <1>14, <1>15, <1>16 DEF Safe

LEMMA SafeInitialise ==
    ASSUME TypeOK, Safe, NEW h \in Hosts, Initialise(h) PROVE Safe'
<1>1. Called(h, "INITIALISE") /\ Answers(h)
  BY DEF Initialise
<1>2. At("INITIALISE", 3) /\ h \in cmd.todo
  BY <1>1, Calls, Distinct
<1>3. /\ \A op : In(op)' <=> In(op)
      /\ \A c : Waits(c)' <=> Waits(c) /\ HostOf[c] # h
      /\ cmd'.stage = cmd.stage /\ cmd'.todo = cmd.todo \ {h}
  BY <1>1, WaitsAfter
<1>4. In("INITIALISE") /\ \A op : In(op) <=> op = "INITIALISE"
  BY <1>2 DEF At, In
<1>5. /\ daq \in {"PREPARED", "DESTROYED"} /\ flag = {}
      /\ \A c \in Cards : thread[c] = "none"
  BY <1>4, NoThreads
<1>6. /\ known \subseteq Cards /\ rd \subseteq known \cap services /\ half = {}
  BY <1>4 DEF TypeOK, Safe, MapIsListed
<1>7. PICK made \in SUBSET Mine(h) : rd' = (rd \ Mine(h)) \cup made
  BY DEF Initialise
<1>8. /\ services' = services \cup Mine(h)
      /\ UNCHANGED <<daq, clients, listed, half, known, flag, thread, up>>
  BY DEF Initialise, control
<1>9. rd' \subseteq known \cap services'
  BY <1>6, <1>7, <1>8, MineIs
<1>10. up' /\ Accepted'
  BY <1>1, <1>8, AcceptedStays DEF Safe
<1>11. MapIsListed'
  BY <1>3, <1>6, <1>8, <1>9 DEF Safe, MapIsListed
<1>12. ThreadHasCard'
  BY <1>5, <1>8 DEF ThreadHasCard
<1>13. NoneBefore'
  BY <1>3, <1>4, <1>5, <1>8 DEF NoneBefore
<1>14. ServedWhenReady'
  <2>1. \A c \in known : c \in services' \/ Waits(c)'
    <3>1. SUFFICES ASSUME NEW c \in known PROVE c \in services' \/ Waits(c)'
      OBVIOUS
    <3>2. c \in services \/ Waits(c)
      BY <1>2 DEF Safe, ServedWhenReady, At, In
    <3>3. HostOf[c] = h => c \in Mine(h)
      BY <1>6, MineIs
    <3> QED BY <1>3, <1>8, <3>2, <3>3
  <2> QED BY <1>5, <1>8, <2>1 DEF ServedWhenReady, Ready
<1> QED BY <1>10, <1>11, <1>12, <1>13, <1>14 DEF Safe

(* Once they are initialised, all the cards of a server have services,       *)
(* unless DESTROY has come to it.                                           *)
LEMMA MineServed ==
    ASSUME TypeOK, Safe, NEW h, daq \in Ready, ~In("DESTROY")
    PROVE  Mine(h) \subseteq services
  BY MineIs DEF TypeOK, Safe, ServedWhenReady

(* A handler that publishes the states of its cards, and no more.           *)
LEMMA SafePublished ==
    ASSUME TypeOK, Safe, NEW h \in Hosts, NEW post, Called(h, post), Answers(h),
           daq \in Ready, ~In("DESTROY"), half' = half \ {h},
           up' = (Mine(h) \subseteq services),
           UNCHANGED <<daq, clients, listed, known, rd, services, flag, thread>>
    PROVE  Safe'
<1>1. /\ \A op : In(op)' <=> In(op)
      /\ \A c : Waits(c)' <=> Waits(c) /\ HostOf[c] # h
      /\ cmd'.stage = cmd.stage /\ cmd'.todo = cmd.todo \ {h}
  BY WaitsAfter
<1>2. up'
  BY MineServed
<1>3. Accepted'
  BY AcceptedStays DEF Safe
<1>4. MapIsListed'
  BY <1>1 DEF Safe, MapIsListed
<1>5. ThreadHasCard'
  BY <1>1 DEF Safe, ThreadHasCard
<1>6. NoneBefore'
  BY <1>1 DEF Safe, NoneBefore, Ready, Before
<1>7. ServedWhenReady'
  <2>1. daq' \in Ready => \A c \in known' : c \in services'
    BY DEF Safe, ServedWhenReady
  <2>2. ~In("INITIALISE")
    BY NoThreads DEF Ready
  <2> QED BY <1>1, <2>1, <2>2 DEF ServedWhenReady
<1> QED BY <1>2, <1>3, <1>4, <1>5, <1>6, <1>7 DEF Safe

LEMMA SafeRegister ==
    ASSUME TypeOK, Safe, NEW h \in Hosts, Register(h) PROVE Safe'
<1>1. PICK post \in {"REGISTERDB", "CONFIGURE"} : Called(h, post)
  BY DEF Register
<1>2. cmd # Idle /\ In("CONFIGURE")
  BY <1>1, Calls, Distinct DEF At, In
<1>3. daq \in Ready /\ ~In("DESTROY") /\ ~In("START")
  BY <1>2 DEF Safe, Accepted, Allowed, Ready, In
<1>4. half = {}
  BY <1>3 DEF Safe, MapIsListed
<1>5. /\ Answers(h) /\ up' = (Mine(h) \subseteq services) /\ half' = half \ {h}
      /\ UNCHANGED <<daq, clients, listed, known, rd, services, flag, thread>>
  BY <1>4 DEF Register, control, cards
<1> QED BY <1>1, <1>3, <1>5, SafePublished

LEMMA SafeStop == ASSUME TypeOK, Safe, NEW h \in Hosts, Stop(h) PROVE Safe'
<1>1. Called(h, "STOP")
  BY DEF Stop
<1>2. cmd # Idle /\ In("STOP")
  BY <1>1, Calls, Distinct DEF At, In
<1>3. daq \in Ready /\ ~In("DESTROY") /\ ~In("START")
  BY <1>2 DEF Safe, Accepted, Allowed, Ready, In
<1>4. half = {}
  BY <1>3 DEF Safe, MapIsListed
<1>5. /\ Answers(h) /\ up' = (Mine(h) \subseteq services) /\ half' = half \ {h}
      /\ UNCHANGED <<daq, clients, listed, known, rd, services, flag, thread>>
  BY <1>4 DEF Stop, control
<1> QED BY <1>1, <1>3, <1>5, SafePublished

LEMMA SafeStartCards ==
    ASSUME TypeOK, Safe, NEW h \in Hosts, StartCards(h) PROVE Safe'
<1>1. Called(h, "START")
  BY DEF StartCards
<1>2. cmd # Idle /\ In("START")
  BY <1>1, Calls, Distinct DEF At, In
<1>3. daq \in Ready /\ ~In("DESTROY")
  BY <1>2 DEF Safe, Accepted, Allowed, Ready, In
<1>4. /\ Answers(h) /\ up' = (Mine(h) \subseteq services) /\ half' = half \ {h}
      /\ UNCHANGED <<daq, clients, listed, known, rd, services, flag, thread>>
  BY DEF StartCards, control
<1> QED BY <1>1, <1>3, <1>4, SafePublished

LEMMA SafeStartThreads ==
    ASSUME TypeOK, Safe, NEW h \in Hosts, StartThreads(h) PROVE Safe'
<1>1. Called(h, "START")
  BY DEF StartThreads
<1>2. cmd # Idle /\ In("START") /\ h \in cmd.todo
  BY <1>1, Calls, Distinct DEF At, In
<1>3. daq \in Ready /\ daq \notin Before /\ ~In("DESTROY")
  BY <1>2 DEF Safe, Accepted, Allowed, Ready, Before, In
<1>4. /\ half' = half \cup {h} /\ flag' = flag \cup Mine(h)
      /\ thread' = [c \in Cards |-> IF c \in Mine(h) \ flag THEN "begin" ELSE thread[c]]
      /\ UNCHANGED <<daq, clients, cmd, listed, known, rd, services, up>>
  BY DEF StartThreads, control
<1>5. Mine(h) \subseteq services /\ Mine(h) \subseteq known /\ Mine(h) \subseteq Cards
  BY <1>3, MineServed, MineIs DEF TypeOK
<1>6. up' /\ Accepted'
  BY <1>4 DEF Safe, Accepted, In
<1>7. MapIsListed'
  BY <1>2, <1>4, <1>5 DEF Safe, MapIsListed, In
<1>8. ThreadHasCard'
  <2> SUFFICES ASSUME NEW c \in Cards
               PROVE  /\ thread'[c] # "none" =>
                           /\ c \in known \cap services
                           /\ c \in flag'
                      /\ thread'[c] \in {"loop", "inside"} => c \in rd
                      /\ thread'[c] = "failed" => c \notin rd
                      /\ c \in flag' \cap rd => thread'[c] # "none"
    BY <1>4 DEF ThreadHasCard
  <2>1. CASE c \in Mine(h) \ flag
    BY <1>4, <1>5, <2>1
  <2>2. CASE c \notin Mine(h) \ flag
    BY <1>3, <1>4, <2>2 DEF Safe, ThreadHasCard
  <2> QED BY <2>1, <2>2
<1>9. NoneBefore' /\ ServedWhenReady'
  BY <1>3, <1>4 DEF Safe, NoneBefore, ServedWhenReady, In, Waits
<1> QED BY <1>6, <1>7, <1>8, <1>9 DEF Safe

LEMMA SafeDestroyFlags ==
    ASSUME TypeOK, Safe, NEW h \in Hosts, DestroyFlags(h) PROVE Safe'
<1>1. Called(h, "DESTROY")
  BY DEF DestroyFlags
<1>2. cmd # Idle /\ In("DESTROY") /\ h \in cmd.todo
  BY <1>1, Calls, Distinct DEF At, In
<1>4. /\ half' = half \cup {h} /\ flag' = flag \ Mine(h)
      /\ UNCHANGED <<daq, clients, cmd, listed, known, rd, services, thread, up>>
  BY DEF DestroyFlags, control
<1>5. known \subseteq Cards /\ flag \subseteq known
  BY DEF TypeOK, Safe, MapIsListed
<1>6. up' /\ Accepted'
  BY <1>4 DEF Safe, Accepted, In
<1>7. MapIsListed'
  BY <1>2, <1>4 DEF Safe, MapIsListed, In
<1>8. ThreadHasCard'
  <2> SUFFICES ASSUME NEW c \in Cards
               PROVE  /\ thread[c] # "none" =>
                           /\ c \in known \cap services
                           /\ c \in flag' \/ HostOf[c] \in half'
                      /\ thread[c] \in {"loop", "inside"} => c \in rd
                      /\ thread[c] = "failed" => c \notin rd
                      /\ c \in flag' \cap rd => thread[c] # "none"
    BY <1>2, <1>4 DEF ThreadHasCard, In
  <2>1. c \in flag => c \in flag' \/ HostOf[c] = h
    BY <1>4, <1>5, MineIs
  <2> QED BY <1>4, <2>1 DEF Safe, ThreadHasCard
<1>9. NoneBefore'
  <2>1. \A c \in flag' : HostOf[c] # h
    BY <1>4, <1>5, MineIs
  <2> QED BY <1>2, <1>4, <2>1 DEF Safe, NoneBefore, In, Waits
<1>10. ServedWhenReady'
  BY <1>4 DEF Safe, ServedWhenReady, In, Waits
<1> QED BY <1>6, <1>7, <1>8, <1>9, <1>10 DEF Safe

(* DESTROY has joined the threads of the cards it deletes.                  *)
LEMMA SafeDestroyCards ==
    ASSUME TypeOK, Safe, NEW h \in Hosts, DestroyCards(h) PROVE Safe'
<1>1. Called(h, "DESTROY") /\ Answers(h)
  BY DEF DestroyCards
<1>2. cmd # Idle /\ In("DESTROY") /\ h \in cmd.todo
  BY <1>1, Calls, Distinct DEF At, In
<1>3. /\ \A op : In(op)' <=> In(op)
      /\ \A c : Waits(c)' <=> Waits(c) /\ HostOf[c] # h
      /\ cmd'.stage = cmd.stage /\ cmd'.todo = cmd.todo \ {h}
  BY <1>1, WaitsAfter
<1>4. /\ rd' = rd \ Mine(h) /\ services' = services \ Mine(h) /\ half' = half \ {h}
      /\ up' = (Mine(h) \cap rd \subseteq services)
      /\ UNCHANGED <<daq, clients, listed, known, flag, thread>>
  BY DEF DestroyCards, control
<1>5. known \subseteq Cards /\ flag \subseteq known /\ rd \subseteq known \cap services
  BY DEF TypeOK, Safe, MapIsListed
<1>6. \A c \in Cards : HostOf[c] = h => thread[c] = "none"
  <2>1. SUFFICES ASSUME NEW c \in Cards, HostOf[c] = h, thread[c] # "none" PROVE FALSE
    OBVIOUS
  <2>2. c \in known /\ (c \in flag \/ h \in half)
    BY <2>1 DEF Safe, ThreadHasCard
  <2>3. c \in Mine(h)
    BY <1>5, <2>1, <2>2, MineIs
  <2>4. h \in half => thread[c] = "none"
    BY <2>1 DEF DestroyCards, Joined, CardsOf
  <2>5. h \notin half => Mine(h) \cap flag = {}
    BY DEF DestroyCards
  <2> QED BY <2>1, <2>2, <2>3, <2>4, <2>5
<1>7. \A c \in flag : HostOf[c] # h
  <2>1. SUFFICES ASSUME NEW c \in flag, HostOf[c] = h PROVE FALSE
    OBVIOUS
  <2>2. h \notin half
    BY <1>2, <2>1 DEF Safe, NoneBefore
  <2>3. c \in Mine(h)
    BY <1>5, <2>1, MineIs
  <2> QED BY <2>2, <2>3 DEF DestroyCards
<1>8. up'
  BY <1>4, <1>5
<1>9. Accepted'
  BY <1>1, <1>4, AcceptedStays DEF Safe
<1>10. MapIsListed'
  BY <1>3, <1>4, <1>5 DEF Safe, MapIsListed
<1>11. ThreadHasCard'
  <2> SUFFICES ASSUME NEW c \in Cards
               PROVE  /\ thread[c] # "none" =>
                           /\ c \in known \cap services'
                           /\ c \in flag \/ HostOf[c] \in half'
                      /\ thread[c] \in {"loop", "inside"} => c \in rd'
                      /\ thread[c] = "failed" => c \notin rd'
                      /\ c \in flag \cap rd' => thread[c] # "none"
    BY <1>2, <1>3, <1>4 DEF ThreadHasCard
  <2>1. thread[c] # "none" => HostOf[c] # h /\ c \notin Mine(h)
    BY <1>5, <1>6, MineIs
  <2> QED BY <1>4, <2>1 DEF Safe, ThreadHasCard
<1>12. NoneBefore'
  BY <1>2, <1>3, <1>4, <1>7 DEF Safe, NoneBefore
<1>13. ServedWhenReady'
  <2>1. \A c \in known : c \notin services' => c \notin services \/ HostOf[c] = h
    BY <1>4, <1>5, MineIs
  <2>2. ~In("INITIALISE")
    BY <1>2 DEF In
  <2> QED BY <1>2, <1>3, <1>4, <2>1, <2>2 DEF Safe, ServedWhenReady
<1> QED BY <1>8, <1>9, <1>10, <1>11, <1>12, <1>13 DEF Safe

LEMMA SafeReader == ASSUME TypeOK, Safe, NEW c \in Cards, Reader(c) PROVE Safe'
<1>1. UNCHANGED <<daq, clients, cmd, listed, half, known, rd, services>>
  BY DEF Reader, control
<1>2. \/ thread[c] = "begin" /\ thread' = [thread EXCEPT ![c] = IF c \in rd THEN "loop" ELSE "failed"]
         /\ flag' = flag
      \/ thread[c] = "failed" /\ thread' = [thread EXCEPT ![c] = "none"] /\ flag' = flag \ {c}
      \/ thread[c] = "loop" /\ thread' = [thread EXCEPT ![c] = "none"] /\ c \notin flag /\ flag' = flag
      \/ thread[c] = "loop" /\ thread' = [thread EXCEPT ![c] = "inside"] /\ flag' = flag
      \/ thread[c] = "inside" /\ thread' = [thread EXCEPT ![c] = "loop"] /\ flag' = flag
  BY DEF Reader, Moves
<1>3. /\ thread \in [Cards -> {"none", "begin", "loop", "inside", "failed"}]
      /\ rd \subseteq known \cap services
      /\ flag' \subseteq flag /\ flag \subseteq known
  BY <1>2 DEF TypeOK, Safe, MapIsListed
<1>4. thread[c] # "none" /\ c \in services
  BY <1>2 DEF Safe, ThreadHasCard
<1>5. up'
  <2>1. thread[c] = "inside" => c \in rd \cap services
    BY <1>3 DEF Safe, ThreadHasCard
  <2> QED BY <1>4, <2>1 DEF Reader, Moves, Safe
<1>6. Accepted' /\ MapIsListed' /\ ServedWhenReady'
  BY <1>1, <1>3 DEF Safe, Accepted, MapIsListed, ServedWhenReady, In, Waits
<1>7. NoneBefore'
  BY <1>1, <1>3 DEF Safe, NoneBefore, In, Waits
<1>8. ThreadHasCard'
  <2> SUFFICES ASSUME NEW d \in Cards
               PROVE  /\ thread'[d] # "none" =>
                           /\ d \in known \cap services
                           /\ d \in flag' \/ (In("DESTROY") /\ HostOf[d] \in half)
                      /\ thread'[d] \in {"loop", "inside"} => d \in rd
                      /\ thread'[d] = "failed" => d \notin rd
                      /\ d \in flag' \cap rd => thread'[d] # "none"
    BY <1>1 DEF ThreadHasCard, In
  <2>1. CASE d # c
    BY <1>2, <1>3, <2>1 DEF Safe, ThreadHasCard
  <2>2. CASE d = c
    BY <1>2, <1>3, <2>2 DEF Safe, ThreadHasCard
  <2> QED BY <2>1, <2>2
<1> QED BY <1>5, <1>6, <1>7, <1>8 DEF Safe

-----------------------------------------------------------------------------
LEMMA SafeInit == Init => Safe
<1> SUFFICES ASSUME Init PROVE Safe
  OBVIOUS
<1>1. \A op : In(op) <=> op = "none"
  BY IdleIs DEF Init, In
<1>2. up /\ Accepted /\ MapIsListed
  BY DEF Init, Accepted, MapIsListed
<1>3. ThreadHasCard /\ NoneBefore
  BY <1>1 DEF Init, ThreadHasCard, NoneBefore
<1>4. ServedWhenReady
  BY <1>1 DEF Init, ServedWhenReady
<1> QED BY <1>2, <1>3, <1>4 DEF Safe

LEMMA SafeStutter == ASSUME Safe, UNCHANGED vars PROVE Safe'
<1>1. UNCHANGED <<daq, clients, cmd, listed, half, known, rd, services, flag, thread, up>>
  BY DEF vars, control, cards
<1>2. up' /\ Accepted' /\ MapIsListed'
  BY <1>1 DEF Safe, Accepted, MapIsListed, In
<1>3. ThreadHasCard'
  BY <1>1 DEF Safe, ThreadHasCard, In
<1>4. NoneBefore' /\ ServedWhenReady'
  BY <1>1 DEF Safe, NoneBefore, ServedWhenReady, In, Waits
<1> QED BY <1>2, <1>3, <1>4 DEF Safe

LEMMA SafeStep ==
    ASSUME TypeOK, ~misled => Safe, [Next]_vars, ~misled'
    PROVE  ~misled /\ Safe /\ Safe'
<1>1. ~misled
  BY Zenon DEF Next, Handler, Discover, ForceState, Command, NextStage, Done, CallCcc, CallShm,
     CallDb, Scan, Initialise, Register, StartThreads, StartCards, Stop,
     DestroyFlags, DestroyCards, Reader, control, vars
<1>2. Safe
  BY <1>1
<1>3. ASSUME Discover PROVE Safe'
  BY <1>2, <1>3, SafeDiscover
<1>4. ASSUME NextStage PROVE Safe'
  BY <1>2, <1>4, SafeNextStage
<1>5. ASSUME Done PROVE Safe'
  BY <1>2, <1>5, SafeDone
<1>6. ASSUME NEW op \in DOMAIN Plan, Command(op) PROVE Safe'
  BY <1>2, <1>6, SafeCommand, Commands
<1>7. ASSUME NEW to \in DaqStates, ForceState(to) PROVE Safe'
  BY <1>7 DEF ForceState
<1>8. CASE CallCcc
  BY <1>2, <1>8, SafeElsewhere, Distinct DEF CallCcc, control
<1>9. CASE CallShm
  BY <1>2, <1>9, SafeElsewhere, Distinct DEF CallShm, control
<1>10. CASE CallDb
  BY <1>2, <1>10, SafeElsewhere, Distinct DEF CallDb, control
<1>11. ASSUME NEW h \in Hosts, Handler(h) PROVE Safe'
  BY <1>2, <1>11, SafeScan, SafeInitialise, SafeRegister, SafeStartThreads,
     SafeStartCards, SafeStop, SafeDestroyFlags, SafeDestroyCards DEF Handler
<1>12. ASSUME NEW c \in Cards, Reader(c) PROVE Safe'
  BY <1>2, <1>12, SafeReader
<1>13. ASSUME UNCHANGED vars PROVE Safe'
  BY <1>2, <1>13, SafeStutter
<1> QED BY <1>1, <1>2, <1>3, <1>4, <1>5, <1>6, <1>7, <1>8, <1>9, <1>10, <1>11, <1>12,
           <1>13 DEF Next

(* As long as PREPARE is taken in the states that its test names, no server  *)
(* of the DIF cards dies of a card that is gone under its reader.            *)
THEOREM ServersLive == Spec => []DiesOnlyMisled
<1>1. Init => SInv
  <2>1. Init => TypeOK
    BY TypeInit
  <2> QED BY <2>1, SafeInit DEF SInv
<1>2. SInv /\ [Next]_vars => SInv'
  BY TypeStep, SafeStep DEF SInv
<1>3. SInv => DiesOnlyMisled
  BY DEF SInv, Safe, DiesOnlyMisled
<1> QED BY <1>1, <1>2, <1>3, PTL DEF Spec

-----------------------------------------------------------------------------
(* Runs, conjunct by conjunct. *)

(* What the handlers of the DIF servers leave alone.                        *)
LEMMA HandlerIs ==
    ASSUME TypeOK, NEW h \in Hosts, Handler(h)
    PROVE  /\ UNCHANGED <<daq, clients, opened, acquiring, proxy, building, expects>>
           /\ h \in cmd.todo /\ cmd # Idle
           /\ cmd'.op = cmd.op /\ cmd'.stage = cmd.stage
           /\ cmd'.todo = cmd.todo \/ cmd'.todo = cmd.todo \ {h}
           /\ In("START") => cmd.stage = 2
<1>1. UNCHANGED <<daq, clients, opened, acquiring, proxy, building, expects>>
  BY DEF Handler, Scan, Initialise, Register, StartThreads, StartCards, Stop,
         DestroyFlags, DestroyCards, control, ccc, builder
<1>2. PICK post \in {"SCAN", "INITIALISE", "REGISTERDB", "CONFIGURE", "START", "STOP", "DESTROY"} :
         Called(h, post) /\ (cmd' = cmd \/ Answers(h))
  BY DEF Handler, Scan, Initialise, Register, StartThreads, StartCards, Stop,
         DestroyFlags, DestroyCards
<1>3. h \in cmd.todo /\ cmd # Idle /\ (In("START") => cmd.stage = 2)
  BY <1>2, Calls, Distinct DEF At, In
<1>4. CASE cmd' = cmd
  BY <1>1, <1>3, <1>4
<1>5. CASE Answers(h)
  BY <1>1, <1>2, <1>3, <1>5, Answering
<1> QED BY <1>2, <1>4, <1>5

(* The commands in progress, by the state that accepted them.               *)
LEMMA Progress ==
    ASSUME TypeOK, Safe
    PROVE  /\ In("PREPARE") => daq \in Preparable
           /\ In("INITIALISE") => daq \in {"PREPARED", "DESTROYED"}
           /\ In("START") => daq \in {"CONFIGURED", "STOPPED"} /\ {Ccc, Shm, Db} \subseteq clients
           /\ In("STOP") => daq = "STARTED" /\ {Ccc, Shm} \subseteq clients
           /\ In("DESTROY") => daq # "STARTED"
           /\ \A op : In(op) => cmd # Idle \/ op = "none"
<1>1. \A op : In(op) => cmd # Idle \/ op = "none"
  BY IdleIs DEF In
<1>2. cmd # Idle => daq \in Allowed[cmd.op] /\ Needs[cmd.op] \subseteq clients
  BY DEF Safe, Accepted
<1>3. In("PREPARE") => daq \in Preparable
  BY <1>1 DEF Safe, Accepted
<1>4. In("INITIALISE") => daq \in {"PREPARED", "DESTROYED"}
  BY NoThreads
<1>5. In("START") => daq \in {"CONFIGURED", "STOPPED"} /\ {Ccc, Shm, Db} \subseteq clients
  BY <1>1, <1>2 DEF In, Allowed, Needs
<1>6. In("STOP") => daq = "STARTED" /\ {Ccc, Shm} \subseteq clients
  BY <1>1, <1>2 DEF In, Allowed, Needs
<1>7. In("DESTROY") => daq # "STARTED"
  BY <1>1, <1>2 DEF In, Allowed
<1> QED BY <1>1, <1>3, <1>4, <1>5, <1>6, <1>7

(* A stage for one server waits for it, or for nobody.                      *)
LEMMA LoneStage ==
    ASSUME TypeOK, NEW op, NEW k, NEW s, NEW post, At(op, k), cmd # Idle,
           Plan[op][k] = Stage({s}, post)
    PROVE  cmd.todo \subseteq {s}
  BY InProgress DEF At, Stage

LEMMA OfInitialise ==
    ASSUME TypeOK, NEW h \in Hosts, Called(h, "SCAN") \/ Called(h, "INITIALISE")
    PROVE  In("INITIALISE")
<1>1. CASE Called(h, "SCAN")
  BY <1>1, Calls, Distinct DEF In, At
<1>2. CASE Called(h, "INITIALISE")
  BY <1>2, Calls, Distinct DEF In, At
<1> QED BY <1>1, <1>2

LEMMA ProxyFirstKept ==
    ASSUME TypeOK, Safe, Safe', ProxyFirst, [Next]_vars, ~misled' PROVE ProxyFirst'
<1>0. known \subseteq Cards
  BY DEF TypeOK
<1>1. ASSUME Discover PROVE ProxyFirst'
  <2>1. /\ daq = "CREATED" /\ daq' = "DISCOVERED" /\ cmd' = Idle /\ opened' = opened
    BY <1>1 DEF Discover, ccc
  <2> QED BY <2>1, IdleIs DEF ProxyFirst, In
<1>2. ASSUME NextStage PROVE ProxyFirst'
  <2>1. /\ cmd'.op = cmd.op /\ cmd # Idle /\ cmd.todo = {}
        /\ UNCHANGED <<daq, clients, opened, proxy>>
    BY <1>2, CmdStaged DEF NextStage, control, ccc, builder
  <2> QED BY <2>1 DEF ProxyFirst, In
<1>3. ASSUME Done PROVE ProxyFirst'
  <2>1. /\ cmd # Idle /\ cmd' = Idle /\ daq' = Target[cmd.op]
        /\ UNCHANGED <<clients, opened, proxy>>
    BY <1>3 DEF Done, ccc, builder
  <2>2. daq' # "CREATED"
    BY <2>1, InProgress DEF Target, Ops
  <2> QED BY <2>1, <2>2, IdleIs DEF ProxyFirst, In
<1>4. ASSUME NEW op \in Ops, Command(op) PROVE ProxyFirst'
  <2>1. /\ cmd'.op = op /\ cmd'.todo = Plan[op][1].to \cap clients
        /\ UNCHANGED <<daq, clients, opened, proxy>>
    BY <1>4, CmdBegun DEF Command, ccc, builder
  <2>2. op = "PREPARE" /\ Shm \in clients => Shm \in cmd'.todo
    BY <2>1, Stages DEF Stage
  <2> QED BY <2>1, <2>2 DEF ProxyFirst, In
<1>5. ASSUME CallCcc PROVE ProxyFirst'
  <2>1. PICK post : Called(Ccc, post) /\ (opened' # opened => post = "OPEN")
    BY <1>5 DEF CallCcc
  <2>2. /\ Answers(Ccc) /\ UNCHANGED <<daq, clients, proxy>>
    BY <1>5 DEF CallCcc, control, builder
  <2>3. cmd'.op = cmd.op /\ cmd'.todo = cmd.todo \ {Ccc} /\ cmd # Idle
    BY <2>1, <2>2, Answering
  <2>4. post = "OPEN" => At("PREPARE", 2)
    BY <2>1, Calls, Distinct
  <2>5. Shm \in cmd.todo => ~At("PREPARE", 2)
    BY <2>3, LoneStage, Stages, Distinct
  <2>6. daq = "CREATED" => ~In("PREPARE")
    BY Progress DEF Preparable
  <2> QED BY <2>1, <2>2, <2>3, <2>4, <2>5, <2>6, Distinct DEF ProxyFirst, In, At
<1>6. ASSUME CallShm PROVE ProxyFirst'
  <2>1. PICK post : Called(Shm, post) /\ (proxy' = TRUE \/ (proxy' = proxy /\ post # "INITIALISE"))
    BY <1>6 DEF CallShm
  <2>2. /\ Answers(Shm) /\ UNCHANGED <<daq, clients, opened>>
    BY <1>6 DEF CallShm, control, ccc
  <2>3. cmd'.op = cmd.op
    BY <2>1, <2>2, Answering
  <2>4. post # "INITIALISE" => ~In("PREPARE")
    BY <2>1, Calls, Distinct DEF At, In
  <2> QED BY <2>1, <2>2, <2>3, <2>4 DEF ProxyFirst, In
<1>7. ASSUME CallDb PROVE ProxyFirst'
  <2>1. Called(Db, "NEWRUN") /\ Answers(Db) /\ UNCHANGED <<daq, clients, opened, proxy>>
    BY <1>7 DEF CallDb, control, ccc, builder
  <2>2. cmd'.op = cmd.op /\ cmd'.todo = cmd.todo \ {Db}
    BY <2>1, Answering
  <2> QED BY <2>1, <2>2, Distinct DEF ProxyFirst, In
<1>8. ASSUME NEW h \in Hosts, Handler(h) PROVE ProxyFirst'
  BY <1>8, HandlerIs, Distinct DEF ProxyFirst, In
<1>9. ASSUME NEW c \in Cards, Reader(c) PROVE ProxyFirst'
  <2>1. UNCHANGED <<daq, clients, cmd, opened, proxy>>
    BY <1>9 DEF Reader, control, ccc, builder
  <2> QED BY <2>1 DEF ProxyFirst, In
<1>10. ASSUME UNCHANGED vars PROVE ProxyFirst'
  <2>1. UNCHANGED <<daq, clients, cmd, opened, proxy>>
    BY <1>10 DEF vars, control, ccc, builder
  <2> QED BY <2>1 DEF ProxyFirst, In
<1>11. ASSUME NEW to \in DaqStates, ForceState(to) PROVE ProxyFirst'
  BY <1>11 DEF ForceState
<1> QED BY <1>1, <1>2, <1>3, <1>4, <1>5, <1>6, <1>7, <1>8, <1>9, <1>10, <1>11, Commands
        DEF Next

(* What a run needs, apart from the cards.                                  *)
LEMMA AcquiresKept ==
    ASSUME TypeOK, Safe, ProxyFirst, AcquiresInRun, [Next]_vars, ~misled'
    PROVE  AcquiresInRun'
<1>0. /\ In("STOP") => daq = "STARTED"
      /\ In("START") => daq # "STARTED" /\ {Ccc, Shm, Db} \subseteq clients
  BY Progress
<1>1. ASSUME Discover PROVE AcquiresInRun'
  <2>1. /\ cmd = Idle /\ cmd' = Idle /\ daq = "CREATED" /\ acquiring' = acquiring
    BY <1>1 DEF Discover, ccc
  <2>2. ~acquiring
    BY <2>1, IdleIs DEF AcquiresInRun, In
  <2> QED BY <2>1, <2>2, IdleIs DEF AcquiresInRun, In
<1>2. ASSUME NextStage PROVE AcquiresInRun'
  <2>1. /\ cmd'.op = cmd.op /\ cmd'.stage = cmd.stage + 1 /\ cmd # Idle /\ cmd.todo = {}
        /\ cmd.stage < Len(Plan[cmd.op])
        /\ cmd'.todo = Plan[cmd.op][cmd.stage + 1].to \cap clients
        /\ UNCHANGED <<daq, listed, opened, acquiring, proxy, building, expects>>
    BY <1>2, CmdStaged DEF NextStage, control, ccc, builder
  <2>2. cmd.stage \in Nat
    BY <2>1, InProgress
  <2>3. ~At("START", 4)
    <3>1. At("START", 4) => 4 < Len(Plan["START"])
      BY <2>1 DEF At
    <3> QED BY <3>1, Lengths
  <2>4. ~acquiring
    BY <2>1, <2>3 DEF AcquiresInRun, In, At
  <2>5. At("START", 2) => Shm \in cmd'.todo
    <3>1. SUFFICES ASSUME At("START", 2) PROVE Shm \in cmd'.todo
      OBVIOUS
    <3>2. cmd'.todo = Plan["START"][3].to \cap clients
      BY <2>1, <3>1 DEF At
    <3> QED BY <1>0, <3>1, <3>2, Stages DEF Stage, At, In
  <2>6. In("START") /\ proxy /\ cmd'.stage = 4 => Built
    BY <2>1, <2>2 DEF AcquiresInRun
  <2>7. In("START") /\ cmd'.stage = 3 => cmd'.todo # {}
    BY <2>1, <2>2, <2>5 DEF In, At
  <2> QED BY <2>1, <2>4, <2>6, <2>7 DEF AcquiresInRun, Built, In
<1>3. ASSUME Done PROVE AcquiresInRun'
  <2>1. /\ cmd # Idle /\ cmd.todo = {} /\ cmd' = Idle /\ daq' = Target[cmd.op]
        /\ UNCHANGED <<listed, opened, acquiring, proxy, building, expects>>
    BY <1>3 DEF Done, ccc, builder
  <2>2. acquiring => cmd.op = "START" /\ opened /\ Built
    BY <2>1 DEF AcquiresInRun, In
  <2>3. cmd.op = "START" => daq' = "STARTED"
    BY <2>1 DEF Target
  <2> QED BY <2>1, <2>2, <2>3, IdleIs DEF AcquiresInRun, Built, In
<1>4. ASSUME NEW op \in Ops, Command(op) PROVE AcquiresInRun'
  <2>1. /\ cmd = Idle /\ cmd'.op = op /\ cmd'.stage = 1
        /\ cmd'.todo = Plan[op][1].to \cap clients
        /\ UNCHANGED <<daq, listed, opened, acquiring, proxy, building, expects>>
    BY <1>4, CmdBegun DEF Command, ccc, builder
  <2>2. daq \in Allowed[op] /\ Needs[op] \subseteq clients /\ (op = "PREPARE" => daq \in Preparable)
    BY <1>4 DEF Command
  <2>3. acquiring => daq = "STARTED" /\ opened /\ Built
    BY <2>1, IdleIs DEF AcquiresInRun, In
  <2>4. acquiring => op = "STOP"
    BY <2>2, <2>3 DEF Allowed, Preparable, Ops
  <2>5. op = "STOP" => Ccc \in cmd'.todo
    BY <2>1, <2>2, Stages DEF Stage, Needs
  <2> QED BY <2>1, <2>3, <2>4, <2>5 DEF AcquiresInRun, Built, In
<1>5. ASSUME CallCcc PROVE AcquiresInRun'
  <2>0. Answers(Ccc) /\ UNCHANGED <<daq, listed, proxy, building, expects>>
    BY <1>5 DEF CallCcc, control, builder
  <2>1. CASE Called(Ccc, "OPEN") /\ opened' = TRUE /\ acquiring' = acquiring
    <3>1. At("PREPARE", 2) /\ cmd # Idle /\ cmd'.op = cmd.op
      BY <2>0, <2>1, Calls, Distinct, Answering
    <3>2. ~acquiring
      BY <3>1 DEF AcquiresInRun, In, At
    <3> QED BY <2>1, <3>1, <3>2 DEF AcquiresInRun, In, At
  <2>2. CASE Called(Ccc, "START") /\ acquiring' = (acquiring \/ opened) /\ opened' = opened
    <3>1. At("START", 4) /\ cmd # Idle /\ cmd'.op = cmd.op /\ cmd'.stage = cmd.stage
          /\ cmd'.todo = cmd.todo \ {Ccc}
      BY <2>0, <2>2, Calls, Distinct, Answering
    <3>2. cmd'.todo = {}
      BY <3>1, LoneStage, Stages
    <3>3. acquiring' => opened
      BY <2>2 DEF AcquiresInRun
    <3>4. opened => proxy
      BY <1>0, <3>1 DEF ProxyFirst, In, At
    <3>5. proxy => Built
      BY <3>1 DEF AcquiresInRun, In, At
    <3> QED BY <2>0, <2>2, <3>1, <3>2, <3>3, <3>4, <3>5 DEF AcquiresInRun, Built, In, At
  <2>3. CASE Called(Ccc, "STOP") /\ acquiring' = (acquiring /\ ~opened) /\ opened' = opened
    <3>1. cmd # Idle /\ cmd'.op = cmd.op /\ ~In("START")
      BY <2>0, <2>3, Calls, Distinct, Answering DEF In, At
    <3>2. ~acquiring'
      BY <2>3 DEF AcquiresInRun
    <3> QED BY <3>1, <3>2 DEF AcquiresInRun, In
  <2> QED BY <1>5, <2>1, <2>2, <2>3 DEF CallCcc
<1>6. ASSUME CallShm PROVE AcquiresInRun'
  <2>0. Answers(Shm) /\ UNCHANGED <<daq, listed, opened, acquiring>>
    BY <1>6 DEF CallShm, control, ccc
  <2>1. PICK post : Called(Shm, post) /\ post \in {"INITIALISE", "START", "STOP"}
    BY <1>6 DEF CallShm
  <2>2. /\ cmd'.op = cmd.op /\ cmd'.stage = cmd.stage /\ cmd'.todo = cmd.todo \ {Shm}
        /\ cmd # Idle
    BY <2>0, <2>1, Answering
  <2>3. /\ Shm \in cmd.todo
        /\ At("PREPARE", 1) \/ At("START", 3) \/ At("STOP", 3)
    BY <2>1, Calls, Distinct
  <2>4. ~acquiring
    <3>1. At("STOP", 3) => Ccc \notin cmd.todo
      <4>1. At("STOP", 3) => cmd.todo \subseteq {Shm}
        BY <2>2, LoneStage, Stages
      <4> QED BY <4>1, Distinct
    <3> QED BY <2>2, <2>3, <3>1 DEF AcquiresInRun, In, At
  <2>5. At("START", 3) /\ proxy' => Built'
    <3>1. SUFFICES ASSUME At("START", 3), proxy' PROVE Built'
      OBVIOUS
    <3>2. post = "START"
      BY <2>1, <3>1, Calls, Distinct DEF At
    <3>3. ~Called(Shm, "INITIALISE") /\ ~Called(Shm, "STOP")
      BY <3>1, Calls, Distinct DEF At
    <3>4. /\ building' = (building \/ proxy) /\ proxy' = proxy
          /\ expects' = IF proxy THEN Cardinality(listed) ELSE expects
      BY <1>6, <3>3 DEF CallShm
    <3> QED BY <2>0, <3>1, <3>4 DEF Built
  <2> QED BY <2>0, <2>2, <2>3, <2>4, <2>5 DEF AcquiresInRun, In, At
<1>7. ASSUME CallDb PROVE AcquiresInRun'
  <2>1. /\ Called(Db, "NEWRUN") /\ Answers(Db)
        /\ UNCHANGED <<daq, listed, opened, acquiring, proxy, building, expects>>
    BY <1>7 DEF CallDb, control, ccc, builder
  <2>2. cmd'.op = cmd.op /\ cmd'.stage = cmd.stage /\ At("START", 1) /\ cmd # Idle
    BY <2>1, Answering, Calls, Distinct
  <2>3. ~acquiring
    BY <2>2 DEF AcquiresInRun, In, At
  <2> QED BY <2>1, <2>2, <2>3 DEF AcquiresInRun, In, At
<1>8. ASSUME NEW h \in Hosts, Handler(h) PROVE AcquiresInRun'
  <2>1. /\ UNCHANGED <<daq, clients, opened, acquiring, proxy, building, expects>>
        /\ h \in cmd.todo /\ cmd # Idle /\ h # Ccc
        /\ cmd'.op = cmd.op /\ cmd'.stage = cmd.stage
        /\ cmd'.todo = cmd.todo \/ cmd'.todo = cmd.todo \ {h}
        /\ In("START") => cmd.stage = 2
    BY <1>8, HandlerIs, Distinct
  <2>2. ~In("INITIALISE") => listed' = listed
    <3>1. SUFFICES ASSUME ~In("INITIALISE") PROVE listed' = listed
      OBVIOUS
    <3>2. ~Scan(h)
      BY <3>1, OfInitialise DEF Scan
    <3> QED BY <1>8, <3>2 DEF Handler, Initialise, Register, StartThreads, StartCards, Stop,
               DestroyFlags, DestroyCards
  <2>3. acquiring => opened /\ Built /\ In("STOP") /\ Ccc \in cmd.todo
    BY <2>1 DEF AcquiresInRun
  <2>4. acquiring => listed' = listed
    BY <2>2, <2>3 DEF In
  <2> QED BY <2>1, <2>3, <2>4 DEF AcquiresInRun, Built, In
<1>9. ASSUME NEW c \in Cards, Reader(c) PROVE AcquiresInRun'
  <2>1. UNCHANGED <<daq, cmd, listed, opened, acquiring, proxy, building, expects>>
    BY <1>9 DEF Reader, control, ccc, builder
  <2> QED BY <2>1 DEF AcquiresInRun, Built, In
<1>10. ASSUME UNCHANGED vars PROVE AcquiresInRun'
  <2>1. UNCHANGED <<daq, cmd, listed, opened, acquiring, proxy, building, expects>>
    BY <1>10 DEF vars, control, ccc, builder
  <2> QED BY <2>1 DEF AcquiresInRun, Built, In
<1>11. ASSUME NEW to \in DaqStates, ForceState(to) PROVE AcquiresInRun'
  BY <1>11 DEF ForceState
<1> QED BY <1>1, <1>2, <1>3, <1>4, <1>5, <1>6, <1>7, <1>8, <1>9, <1>10, <1>11, Commands
        DEF Next

LEMMA FlaggedKept ==
    ASSUME TypeOK, Safe, DriversAreFlagged, [Next]_vars, ~misled'
    PROVE  DriversAreFlagged'
<1>0. /\ In("STOP") => daq = "STARTED"
      /\ In("INITIALISE") => daq # "STARTED"
      /\ In("DESTROY") => daq # "STARTED"
  BY Progress
<1>a. known \subseteq Cards /\ rd \subseteq known
  BY DEF TypeOK, Safe, MapIsListed
<1>1. ASSUME Discover PROVE DriversAreFlagged'
  <2>1. daq' = "DISCOVERED" /\ cmd' = Idle
    BY <1>1 DEF Discover
  <2> QED BY <2>1, IdleIs DEF DriversAreFlagged, In
<1>2. ASSUME NextStage PROVE DriversAreFlagged'
  <2>1. /\ cmd'.op = cmd.op /\ cmd'.stage = cmd.stage + 1 /\ cmd # Idle /\ cmd.todo = {}
        /\ cmd'.todo = Plan[cmd.op][cmd.stage + 1].to \cap clients
        /\ UNCHANGED <<daq, half, rd, flag>>
    BY <1>2, CmdStaged DEF NextStage, control, cards
  <2>2. cmd.stage \in Nat /\ half = {}
    BY <2>1, InProgress DEF Safe, MapIsListed
  <2>3. At("START", 1) => \A c \in rd : Waits(c)'
    <3>1. SUFFICES ASSUME At("START", 1), NEW c \in rd PROVE HostOf[c] \in cmd'.todo
      BY DEF Waits
    <3>2. cmd'.todo = Plan["START"][2].to \cap clients
      BY <2>1, <3>1 DEF At
    <3>3. c \in known /\ HostOf[c] \in clients /\ HostOf[c] \in Hosts
      BY <1>a, CardsAssumption DEF Safe, MapIsListed
    <3> QED BY <3>2, <3>3, Stages DEF Stage
  <2>4. At("START", 2) => rd \subseteq flag
    BY <2>1 DEF DriversAreFlagged, Waits, At, In
  <2>5. In("START") /\ cmd'.stage = 2 => \A c \in rd : Waits(c)'
    BY <2>1, <2>2, <2>3 DEF In, At
  <2>6. In("START") /\ cmd'.stage >= 3 => rd \subseteq flag
    <3>1. cmd'.stage >= 3 => cmd.stage = 2 \/ cmd.stage >= 3
      BY <2>1, <2>2
    <3> QED BY <2>4, <3>1 DEF DriversAreFlagged, In, At
  <2> QED BY <2>1, <2>2, <2>5, <2>6 DEF DriversAreFlagged, In
<1>3. ASSUME Done PROVE DriversAreFlagged'
  <2>1. /\ cmd # Idle /\ cmd' = Idle /\ daq' = Target[cmd.op]
        /\ cmd.stage = Len(Plan[cmd.op])
        /\ UNCHANGED <<rd, flag>>
    BY <1>3 DEF Done, cards
  <2>2. cmd.op \in Ops
    BY <2>1, InProgress
  <2>3. daq' = "STARTED" => In("START")
    BY <2>1, <2>2 DEF Target, Ops, In
  <2>4. In("START") => rd \subseteq flag
    <3>1. In("START") => cmd.stage = 4
      BY <2>1, Lengths DEF In
    <3> QED BY <3>1 DEF DriversAreFlagged
  <2> QED BY <2>1, <2>3, <2>4, IdleIs DEF DriversAreFlagged, In
<1>4. ASSUME NEW op \in Ops, Command(op) PROVE DriversAreFlagged'
  <2>1. /\ cmd'.stage = 1 /\ UNCHANGED <<daq, rd, flag>>
    BY <1>4, CmdBegun DEF Command, cards
  <2> QED BY <2>1 DEF DriversAreFlagged
<1>5. ASSUME NEW s \in {Ccc, Shm, Db}, NEW post, Called(s, post), Answers(s),
             UNCHANGED <<daq, half, cards>>
      PROVE  DriversAreFlagged'
  <2>1. /\ cmd'.op = cmd.op /\ cmd'.stage = cmd.stage /\ ~At("START", 2)
        /\ UNCHANGED <<daq, rd, flag>>
    BY <1>5, Answering, Calls, Distinct DEF cards, At
  <2> QED BY <2>1 DEF DriversAreFlagged, In, At
<1>6. ASSUME CallCcc PROVE DriversAreFlagged'
  BY <1>5, <1>6 DEF CallCcc, control
<1>7. ASSUME CallShm PROVE DriversAreFlagged'
  BY <1>5, <1>7 DEF CallShm, control
<1>8. ASSUME CallDb PROVE DriversAreFlagged'
  BY <1>5, <1>8 DEF CallDb, control
<1>9. ASSUME NEW h \in Hosts, Handler(h) PROVE DriversAreFlagged'
  <2>0. UNCHANGED daq /\ cmd'.op = cmd.op /\ cmd'.stage = cmd.stage
        /\ (In("START") => cmd.stage = 2)
    BY <1>9, HandlerIs
  <2>1. CASE Scan(h) \/ Initialise(h)
    <3>1. In("INITIALISE")
      BY <2>1, OfInitialise DEF Scan, Initialise
    <3> QED BY <1>0, <2>0, <3>1 DEF DriversAreFlagged, In
  <2>2. CASE Register(h) \/ Stop(h)
    <3>1. ~In("START") /\ UNCHANGED <<rd, flag>>
      BY <2>2, Calls, Distinct DEF Register, Stop, cards, In, At
    <3> QED BY <2>0, <3>1 DEF DriversAreFlagged, In
  <2>3. CASE DestroyFlags(h) \/ DestroyCards(h)
    <3>1. In("DESTROY")
      BY <2>3, Calls, Distinct DEF DestroyFlags, DestroyCards, In, At
    <3> QED BY <1>0, <2>0, <3>1 DEF DriversAreFlagged, In
  <2>4. CASE StartThreads(h)
    <3>1. In("START") /\ cmd.stage = 2
      BY <2>4, Calls, Distinct DEF StartThreads, In, At
    <3>2. /\ flag' = flag \cup Mine(h) /\ half' = half \cup {h} /\ UNCHANGED <<cmd, rd>>
      BY <2>4 DEF StartThreads
    <3>3. \A c \in rd : HostOf[c] = h => c \in flag'
      BY <1>a, <3>2, MineIs
    <3>4. daq' # "STARTED"
      BY <2>0, <3>1, Progress
    <3> QED BY <3>1, <3>2, <3>3, <3>4 DEF DriversAreFlagged, In, Waits
  <2>5. CASE StartCards(h)
    <3>1. In("START") /\ cmd.stage = 2
      BY <2>5, Calls, Distinct DEF StartCards, In, At
    <3>2. /\ h \in half /\ half' = half \ {h} /\ UNCHANGED <<rd, flag>>
          /\ Called(h, "START") /\ Answers(h)
      BY <2>5 DEF StartCards
    <3>3. \A c : Waits(c)' <=> Waits(c) /\ HostOf[c] # h
      BY <3>2, WaitsAfter
    <3>4. daq' # "STARTED"
      BY <2>0, <3>1, Progress
    <3> QED BY <2>0, <3>1, <3>2, <3>3, <3>4 DEF DriversAreFlagged, In
  <2> QED BY <1>9, <2>1, <2>2, <2>3, <2>4, <2>5 DEF Handler
<1>10. ASSUME NEW c \in Cards, Reader(c) PROVE DriversAreFlagged'
  <2>1. UNCHANGED <<daq, cmd, half, rd>>
    BY <1>10 DEF Reader, control
  <2>2. flag' = flag \/ (flag' = flag \ {c} /\ thread[c] = "failed")
    BY <1>10 DEF Reader, Moves
  <2>3. \A d \in rd : d \in flag => d \in flag'
    BY <1>a, <2>2 DEF Safe, ThreadHasCard
  <2> QED BY <2>1, <2>3 DEF DriversAreFlagged, In, Waits
<1>11. ASSUME UNCHANGED vars PROVE DriversAreFlagged'
  <2>1. UNCHANGED <<daq, cmd, half, rd, flag>>
    BY <1>11 DEF vars, control, cards
  <2> QED BY <2>1 DEF DriversAreFlagged, In, Waits
<1>12. ASSUME NEW to \in DaqStates, ForceState(to) PROVE DriversAreFlagged'
  BY <1>12 DEF ForceState
<1> QED BY <1>1, <1>2, <1>3, <1>4, <1>6, <1>7, <1>8, <1>9, <1>10, <1>11, <1>12, Commands
        DEF Next

LEMMA RunsAreBuilt == BInv => TriggersAreBuilt
<1> SUFFICES ASSUME BInv, acquiring, ~misled
             PROVE  /\ building
                    /\ expects = Cardinality({c \in known : HostOf[c] \in clients})
                    /\ \A c \in known : HostOf[c] \in clients /\ c \in rd =>
                         c \in flag /\ thread[c] \in {"begin", "loop", "inside"}
  BY DEF TriggersAreBuilt
<1>1. TypeOK /\ Safe /\ Runs
  BY DEF BInv, SInv
<1>2. building /\ expects = Cardinality(listed)
  BY <1>1 DEF Runs, AcquiresInRun, Built
<1>3. {c \in known : HostOf[c] \in clients} = listed
  BY <1>1 DEF Safe, MapIsListed
<1>4. rd \subseteq flag
  <2>1. In("STOP") => daq = "STARTED"
    BY <1>1, Progress
  <2> QED BY <1>1, <2>1 DEF Runs, AcquiresInRun, DriversAreFlagged
<1>5. ASSUME NEW c \in rd PROVE c \in flag /\ thread[c] \in {"begin", "loop", "inside"}
  <2>1. c \in Cards /\ c \in flag
    BY <1>1, <1>4 DEF TypeOK
  <2>2. thread[c] \in {"none", "begin", "loop", "inside", "failed"}
    BY <1>1, <2>1 DEF TypeOK
  <2> QED BY <1>1, <2>1, <2>2 DEF Safe, ThreadHasCard
<1> QED BY <1>2, <1>3, <1>5

(* While the clock card gives triggers, the builder is in a run that waits   *)
(* for the cards there are, and every one with a driver has its reader.      *)
THEOREM RunsHaveReaders == Spec => []TriggersAreBuilt
<1>1. Init => BInv
  <2>1. Init => SInv
    BY TypeInit, SafeInit DEF SInv
  <2>2. Init => Runs
    BY IdleIs DEF Init, Runs, ProxyFirst, AcquiresInRun, DriversAreFlagged, In
  <2> QED BY <2>1, <2>2 DEF BInv
<1>2. BInv /\ [Next]_vars => BInv'
  <2> SUFFICES ASSUME BInv, [Next]_vars PROVE BInv'
    OBVIOUS
  <2>1. TypeOK /\ TypeOK' /\ (~misled => Safe) /\ (~misled => Runs)
    BY TypeStep DEF BInv, SInv
  <2>2. ASSUME ~misled' PROVE Safe' /\ Runs'
    <3>1. ~misled /\ Safe /\ Safe'
      BY <2>1, <2>2, SafeStep
    <3>2. ProxyFirst /\ AcquiresInRun /\ DriversAreFlagged
      BY <2>1, <3>1 DEF Runs
    <3>3. ProxyFirst'
      BY <2>1, <2>2, <3>1, <3>2, ProxyFirstKept
    <3>4. AcquiresInRun'
      BY <2>1, <2>2, <3>1, <3>2, AcquiresKept
    <3>5. DriversAreFlagged'
      BY <2>1, <2>2, <3>1, <3>2, FlaggedKept
    <3> QED BY <3>1, <3>3, <3>4, <3>5 DEF Runs
  <2> QED BY <2>1, <2>2 DEF BInv, SInv
<1> QED BY <1>1, <1>2, RunsAreBuilt, PTL DEF Spec
=============================================================================
