-------------------------- MODULE LDIFServerProofs --------------------------
(***************************************************************************)
(* Proofs about LDIFServer for every set of cards and of threads.          *)
(* First, a card never has two readout threads, whichever cards the        *)
(* commands name.  Second, when every command is for all the cards and     *)
(* the web commands come after INITIALISE, which is how the run controls   *)
(* drive the server, nothing deleted is ever used, DESTROY leaves nothing  *)
(* behind and a card that says STARTED has its reader: the server is a     *)
(* DifHost, which is what a run control may count on.                      *)
(***************************************************************************)
EXTENDS LDIFServer, TLAPS

\* How the command in progress and the state of the machine go together.
CommandOK ==
  /\ cmd.op \notin {"none", "SET"} => fsm # "CREATED"
  /\ cmd.op = "SET" => cmd.to = fsm
  /\ cmd.op = "DESTROY" => cmd.to = "CREATED"

\* Every thread works on a card of the map.
OwnedOK ==
  up => \A t \in Threads : thread[t].pc # "none" => thread[t].dif \in known

\* A card has a thread only while its flag is up, but for the server that is
\* on its way to CREATED or there: START comes only after another SCAN.
FlagOK ==
  up => \A t \in Threads : thread[t].pc # "none" =>
          \/ dif[thread[t].dif].started
          \/ cmd.op = "DESTROY" \/ fsm = "CREATED"

\* OneReader without the sets.
SingleOK ==
  \A s, t \in Threads :
     /\ thread[s].pc # "none" /\ thread[t].pc # "none"
     /\ thread[s].dif = thread[t].dif
     => s = t

\* A handler takes the cards of the map.
TodoOK == cmd.todo \subseteq known

RInv == TypeOK /\ CommandOK /\ TodoOK /\ OwnedOK /\ FlagOK /\ SingleOK

\* What the table of transitions says, once for all the proofs.
LEMMA Table ==
  ASSUME NEW x \in Transitions
  PROVE  /\ x[1] \in Ops \ {"SET"} /\ x[3] \in FsmStates
         /\ x[2] = "CREATED" <=> x[1] = "SCAN"
         /\ x[2] = "SCANNED" <=> x[1] = "INITIALISE"
         /\ x[1] = "DESTROY" => x[3] = "CREATED"
         /\ x[1] \notin {"DESTROY", "SCAN"} => x[3] \notin {"CREATED", "SCANNED"}
  BY DEF Transitions, Ops, FsmStates

\* publishState keeps the types.
LEMMA PublishType ==
  ASSUME NEW d \in Difs, NEW o \in LDIF, NEW s \in CardStates,
         dif \in [Difs -> LDIF], up \in BOOLEAN, Publish(d, o, s)
  PROVE  dif' \in [Difs -> LDIF] /\ up' \in BOOLEAN
  <1>1. [o EXCEPT !.state = s] \in LDIF
    BY DEF LDIF
  <1>2. o.services \in BOOLEAN
    BY DEF LDIF
  <1> QED
    BY <1>1, <1>2 DEF Publish

\* The types are kept by the steps of the server's thread.
LEMMA CommandType ==
  ASSUME TypeOK, Command \/ WebCommand \/ Reply
  PROVE  TypeOK'
  <1>1. ASSUME NEW op \in Ops, NEW to \in FsmStates, NEW target \in Targets,
               Accept(op, to, target)
        PROVE  TypeOK'
    <2>1. FirstStep(op, target) \in {"do", "thread", "flags", "flag"}
      BY <1>1 DEF FirstStep
    <2> QED
      BY <1>1, <2>1, TargetsAssumption DEF TypeOK, Accept
  <1>2. CASE Command
    BY <1>1, <1>2, Table DEF Command
  <1>3. CASE WebCommand
    BY <1>1, <1>3 DEF WebCommand, TypeOK, Ops
  <1>4. CASE Reply
    <2>1. cmd.to \in FsmStates
      BY <1>4 DEF Reply, TypeOK, Idle
    <2> QED
      BY <1>4, <2>1 DEF Reply, TypeOK, Idle
  <1> QED
    BY <1>2, <1>3, <1>4

\* The steps of a handler on one card keep the types.
LEMMA StepType ==
  ASSUME TypeOK, NEW d \in Difs, CommandStep(d) \/ InfoHandler(d)
  PROVE  TypeOK'
  <1> DEFINE Steps == {"do", "thread", "start", "flags", "join", "flag", "wait",
                       "drop"}
  <1>0. /\ dif \in [Difs -> LDIF] /\ up \in BOOLEAN /\ dif[d] \in LDIF
        /\ \A s \in CardStates : [dif[d] EXCEPT !.state = s] \in LDIF
    BY DEF TypeOK, LDIF
  <1>1. ASSUME cmd.op # "none"
        PROVE  /\ \A s \in Steps : [cmd EXCEPT !.step = s] \in
                    [op : Ops, to : FsmStates, todo : SUBSET Difs, step : Steps]
               /\ [cmd EXCEPT !.todo = @ \ {d}] \in
                    [op : Ops, to : FsmStates, todo : SUBSET Difs, step : Steps]
               /\ \A s \in Steps : [cmd EXCEPT !.step = s, !.todo = @ \ {d}] \in
                    [op : Ops, to : FsmStates, todo : SUBSET Difs, step : Steps]
    <2>1. cmd \in [op : Ops, to : FsmStates, todo : SUBSET Difs, step : Steps]
      BY <1>1 DEF TypeOK, Idle
    <2> HIDE DEF Steps
    <2>2. \A s \in Steps : [cmd EXCEPT !.step = s] \in
                    [op : Ops, to : FsmStates, todo : SUBSET Difs, step : Steps]
      BY <2>1
    <2>3. cmd.todo \ {d} \in SUBSET Difs
      BY <2>1
    <2>4. [cmd EXCEPT !.todo = @ \ {d}] \in
                    [op : Ops, to : FsmStates, todo : SUBSET Difs, step : Steps]
      BY <2>1, <2>3
    <2>5. \A s \in Steps : [cmd EXCEPT !.step = s, !.todo = @ \ {d}] \in
                    [op : Ops, to : FsmStates, todo : SUBSET Difs, step : Steps]
      BY <2>1, <2>3
    <2> QED
      BY <2>2, <2>4, <2>5
  <1>2. CASE Initialise(d)
    <2>1. PICK s \in {"INIT_RD_FAILED", "INIT_FAILED", "INITIALISED"} :
            Publish(d, [dif[d] EXCEPT !.services = TRUE,
                                      !.rd = s # "INIT_RD_FAILED"], s)
      BY <1>2 DEF Initialise
    <2>2. [dif[d] EXCEPT !.services = TRUE, !.rd = s # "INIT_RD_FAILED"] \in LDIF
      BY <1>0 DEF LDIF
    <2>3. dif' \in [Difs -> LDIF] /\ up' \in BOOLEAN
      BY <1>0, <2>1, <2>2, PublishType DEF CardStates
    <2> QED
      BY <1>1, <1>2, <2>3 DEF TypeOK, Initialise, DoneWith
  <1>3. CASE RegisterDB(d)
    <2>1. dif' \in [Difs -> LDIF] /\ up' \in BOOLEAN
      BY <1>0, <1>3, PublishType DEF CardStates, RegisterDB
    <2> QED
      BY <1>1, <1>3, <2>1 DEF TypeOK, RegisterDB, DoneWith
  <1>4. CASE Configure(d)
    <2>1. dif' \in [Difs -> LDIF] /\ up' \in BOOLEAN
      BY <1>0, <1>4, PublishType DEF CardStates, Configure
    <2>2. cmd.op # "none"
      BY <1>4 DEF Configure
    <2> QED
      BY <1>1, <1>4, <2>1, <2>2 DEF TypeOK, Configure, DoneWith
  <1>5. CASE StartThread(d)
    <2>1. [dif[d] EXCEPT !.started = TRUE] \in LDIF
      BY <1>0 DEF LDIF
    <2>2. dif' \in [Difs -> LDIF]
      BY <1>0, <1>5, <2>1 DEF StartThread
    <2>3. thread' \in [Threads -> [pc : {"none", "begin", "failed", "loop",
                                        "read", "publish"}, dif : Difs \cup {0}]]
      BY <1>5 DEF StartThread, TypeOK
    <2> QED
      BY <1>1, <1>5, <2>2, <2>3 DEF TypeOK, StartThread
  <1>6. CASE Start(d)
    <2>1. [dif[d] EXCEPT !.running = TRUE] \in LDIF
      BY <1>0 DEF LDIF
    <2>2. dif' \in [Difs -> LDIF] /\ up' \in BOOLEAN
      BY <1>0, <1>6, <2>1, PublishType DEF CardStates, Start
    <2>3. late' \in [Difs -> -1 .. 2]
      BY <1>6 DEF Start, TypeOK
    <2> QED
      BY <1>1, <1>6, <2>2, <2>3 DEF TypeOK, Start
  <1>7. CASE Stop(d)
    <2>1. \A s : Stopped(dif[d], s) \in LDIF
      BY <1>0 DEF LDIF, Stopped
    <2>2. dif' \in [Difs -> LDIF] /\ up' \in BOOLEAN
      BY <1>0, <1>7, <2>1, PublishType DEF CardStates, Stop
    <2>3. late' \in [Difs -> -1 .. 2]
      BY <1>7 DEF Stop, TypeOK
    <2> QED
      BY <1>1, <1>7, <2>2, <2>3 DEF TypeOK, Stop, DoneWith
  <1>8. CASE DestroyFlag(d)
    <2>1. ClearFlag(dif[d]) \in LDIF
      BY <1>0 DEF LDIF, ClearFlag
    <2>2. dif' \in [Difs -> LDIF]
      BY <1>0, <1>8, <2>1 DEF DestroyFlag
    <2> QED
      BY <1>1, <1>8, <2>2 DEF TypeOK, DestroyFlag
  <1>9. CASE DestroyWait(d)
    BY <1>1, <1>9 DEF TypeOK, DestroyWait
  <1>10. CASE DestroyDrop(d)
    <2>1. Dropped(dif[d]) \in LDIF
      BY <1>0 DEF LDIF, Dropped, CardStates
    <2>2. dif' \in [Difs -> LDIF]
      BY <1>0, <1>10, <2>1 DEF DestroyDrop
    <2>3. up' \in BOOLEAN
      BY <1>10 DEF DestroyDrop
    <2> QED
      BY <1>1, <1>10, <2>2, <2>3 DEF TypeOK, DestroyDrop
  <1>11. CASE InfoHandler(d)
    <2>1. [dif[d] EXCEPT !.db = TRUE] \in LDIF
      BY <1>0 DEF LDIF
    <2>2. dif' \in [Difs -> LDIF]
      BY <1>0, <1>11, <2>1 DEF InfoHandler
    <2> QED
      BY <1>11, <2>2 DEF TypeOK, InfoHandler
  <1> QED
    BY <1>2, <1>3, <1>4, <1>5, <1>6, <1>7, <1>8, <1>9, <1>10, <1>11
    DEF CommandStep

\* The steps of DESTROY on all the cards and SCAN keep the types.
LEMMA WholeType ==
  ASSUME TypeOK, ClearFlags \/ JoinThreads \/ Scan
  PROVE  TypeOK'
  <1>1. CASE ClearFlags
    <2>1. cmd \in [op : Ops, to : FsmStates, todo : SUBSET Difs,
                   step : {"do", "thread", "start", "flags", "join", "flag",
                           "wait", "drop"}]
      BY <1>1 DEF ClearFlags, TypeOK, Idle
    <2>2. \A o \in LDIF : ClearFlag(o) \in LDIF
      BY DEF LDIF, ClearFlag
    <2>3. dif' \in [Difs -> LDIF]
      BY <1>1, <2>2 DEF ClearFlags, TypeOK
    <2> QED
      BY <1>1, <2>1, <2>3 DEF ClearFlags, TypeOK
  <1>2. CASE JoinThreads
    BY <1>2 DEF JoinThreads, TypeOK, Idle
  <1>3. CASE Scan
    <2>1. \A g \in BOOLEAN : NewLDIF(g) \in LDIF
      BY DEF LDIF, NewLDIF, CardStates
    <2>2. dif' \in [Difs -> LDIF] /\ known' \subseteq Difs
      BY <1>3, <2>1 DEF Scan
    <2>3. late' \in [Difs -> -1 .. 2]
      BY <1>3 DEF Scan
    <2> QED
      BY <1>3, <2>2, <2>3 DEF Scan, TypeOK, FsmStates
  <1> QED
    BY <1>1, <1>2, <1>3

\* A readout thread that is not "none" has a card, and its steps keep the
\* types.
LEMMA ReaderDif ==
  ASSUME TypeOK, OwnedOK, up, NEW t \in Threads, thread[t].pc # "none"
  PROVE  thread[t].dif \in Difs /\ dif[thread[t].dif] \in LDIF
  BY DEF TypeOK, OwnedOK

LEMMA ReaderType ==
  ASSUME TypeOK, OwnedOK, up, NEW t \in Threads, Reader(t)
  PROVE  TypeOK'
  <1> DEFINE d == thread[t].dif
             Pcs == {"none", "begin", "failed", "loop", "read", "publish"}
  <1>1. thread[t].pc # "none"
    BY DEF Reader, Begin, Failed, Loop, Read, PublishEvent, At
  <1>2. d \in Difs /\ dif[d] \in LDIF
    BY <1>1, ReaderDif
  <1>3. /\ thread \in [Threads -> [pc : Pcs, dif : Difs \cup {0}]]
        /\ dif \in [Difs -> LDIF] /\ up \in BOOLEAN
    BY DEF TypeOK
  <1>4. \A pc \in Pcs : GoTo(t, pc) =>
          thread' \in [Threads -> [pc : Pcs, dif : Difs \cup {0}]]
    BY <1>3 DEF GoTo
  <1>5. Exit(t) => thread' \in [Threads -> [pc : Pcs, dif : Difs \cup {0}]]
    BY <1>3 DEF Exit, NoThread
  <1>6. \A b \in BOOLEAN : /\ [dif[d] EXCEPT !.completed = b] \in LDIF
                          /\ [dif[d] EXCEPT !.started = b] \in LDIF
    BY <1>2 DEF LDIF
  <1>7. CASE Begin(t)
    <2>1. dif' \in [Difs -> LDIF] /\ up' \in BOOLEAN
      <3>1. CASE dif[d].rd
        BY <1>3, <1>6, <1>7, <3>1 DEF Begin
      <3>2. CASE ~dif[d].rd
        <4>1. Publish(d, dif[d], "READOUT_FAILED")
          BY <1>7, <3>2 DEF Begin
        <4> QED
          BY <1>2, <1>3, <4>1, PublishType DEF CardStates
      <3> QED
        BY <3>1, <3>2
    <2>2. thread' \in [Threads -> [pc : Pcs, dif : Difs \cup {0}]]
      BY <1>4, <1>7 DEF Begin
    <2> QED
      BY <1>7, <2>1, <2>2 DEF Begin, TypeOK
  <1>8. CASE Failed(t)
    <2>1. dif' \in [Difs -> LDIF]
      BY <1>2, <1>3, <1>6, <1>8 DEF Failed
    <2> QED
      BY <1>5, <1>8, <2>1 DEF Failed, TypeOK
  <1>9. CASE Loop(t)
    <2>1. dif' \in [Difs -> LDIF]
      BY <1>2, <1>3, <1>6, <1>9 DEF Loop
    <2>2. thread' \in [Threads -> [pc : Pcs, dif : Difs \cup {0}]]
      BY <1>4, <1>5, <1>9 DEF Loop
    <2> QED
      BY <1>9, <2>1, <2>2 DEF Loop, TypeOK
  <1>10. CASE Read(t)
    <2>1. thread' \in [Threads -> [pc : Pcs, dif : Difs \cup {0}]]
      BY <1>4, <1>10 DEF Read
    <2>2. up' \in BOOLEAN
      BY <1>10 DEF Read
    <2> QED
      BY <1>10, <2>1, <2>2 DEF Read, TypeOK
  <1>11. CASE PublishEvent(t)
    <2>1. thread' \in [Threads -> [pc : Pcs, dif : Difs \cup {0}]]
      BY <1>4, <1>11 DEF PublishEvent
    <2>2. late' \in [Difs -> -1 .. 2]
      <3>1. late[d] \in -1 .. 2 /\ late \in [Difs -> -1 .. 2]
        BY <1>2 DEF TypeOK
      <3>2. (IF late[d] \in {0, 1} THEN late[d] + 1 ELSE late[d]) \in -1 .. 2
        BY <3>1
      <3> QED
        BY <1>11, <3>1, <3>2 DEF PublishEvent
    <2>3. up' \in BOOLEAN
      BY <1>11 DEF PublishEvent
    <2> QED
      BY <1>11, <2>1, <2>2, <2>3 DEF PublishEvent, TypeOK
  <1> QED
    BY <1>7, <1>8, <1>9, <1>10, <1>11 DEF Reader

-----------------------------------------------------------------------------
(* The invariant behind OneReader                                          *)

\* Steps of the command that leave the threads, their flags and the map.
LEMMA AcceptRInv ==
  ASSUME RInv, up, Command \/ WebCommand \/ Reply
  PROVE  RInv'
  <1>1. TypeOK'
    BY CommandType DEF RInv
  <1>2. UNCHANGED <<known, dif, thread, up>>
    BY DEF Command, WebCommand, Reply, Accept
  <1>3. OwnedOK' /\ SingleOK'
    BY <1>2 DEF RInv, OwnedOK, SingleOK
  <1>5. TodoOK'
    <2>1. ASSUME NEW op, NEW to, NEW target, Accept(op, to, target)
          PROVE  TodoOK'
      BY <2>1 DEF Accept, TodoOK
    <2>2. Reply => TodoOK'
      BY DEF Reply, Idle, TodoOK
    <2> QED
      BY <2>1, <2>2 DEF Command, WebCommand
  <1>4. CommandOK' /\ FlagOK'
    <2>1. CASE Command
      <3>1. PICK x \in Transitions, target \in Targets :
              x[1] # "SCAN" /\ x[2] = fsm /\ Accept(x[1], x[3], target)
        BY <2>1 DEF Command
      <3>2. fsm' = fsm /\ fsm # "CREATED" /\ cmd'.op = x[1] /\ cmd'.to = x[3]
            /\ cmd.op = "none"
        BY <3>1, Table DEF Accept, Idle
      <3>3. cmd'.op # "SET" /\ (cmd'.op = "DESTROY" => cmd'.to = "CREATED")
        BY <3>2, Table
      <3> QED
        BY <1>2, <3>2, <3>3 DEF RInv, CommandOK, FlagOK
    <2>2. CASE WebCommand
      <3>1. fsm' = fsm /\ cmd'.op = "SET" /\ cmd'.to = fsm /\ cmd.op = "none"
        BY <2>2 DEF WebCommand, Accept, Idle
      <3> QED
        BY <1>2, <3>1 DEF RInv, CommandOK, FlagOK
    <2>3. CASE Reply
      <3>1. cmd'.op = "none" /\ cmd.op # "none" /\ fsm' = cmd.to
        BY <2>3 DEF Reply, Idle
      <3>2. cmd.op = "SET" => fsm' = fsm
        BY <3>1 DEF RInv, CommandOK
      <3>3. cmd.op = "DESTROY" => fsm' = "CREATED"
        BY <3>1 DEF RInv, CommandOK
      <3>4. cmd.op \notin {"none", "SET"} => fsm # "CREATED"
        BY DEF RInv, CommandOK
      <3> QED
        BY <1>2, <3>1, <3>2, <3>3, <3>4 DEF RInv, CommandOK, FlagOK
    <2> QED
      BY <2>1, <2>2, <2>3
  <1> QED
    BY <1>1, <1>3, <1>4, <1>5 DEF RInv

\* A step of the server's thread that creates no thread and lowers no flag
\* outside DESTROY.
LEMMA QuietStep ==
  ASSUME RInv, up, TypeOK',
         UNCHANGED <<fsm, known, thread>>,
         cmd'.op = cmd.op, cmd'.to = cmd.to, cmd'.todo \subseteq cmd.todo,
         cmd.op # "DESTROY" =>
           \A e \in Difs : dif'[e].started = dif[e].started
  PROVE  RInv'
  <1>1. \A t \in Threads : thread[t].pc # "none" => thread[t].dif \in Difs
    BY DEF RInv, TypeOK, OwnedOK
  <1>2. CommandOK' /\ TodoOK' /\ OwnedOK' /\ SingleOK'
    BY DEF RInv, CommandOK, TodoOK, OwnedOK, SingleOK
  <1>3. FlagOK'
    BY <1>1 DEF RInv, FlagOK
  <1> QED
    BY <1>2, <1>3 DEF RInv

\* publishState leaves the flag as it is in the record it stores.
LEMMA PublishFlag ==
  ASSUME NEW d \in Difs, NEW o \in LDIF, NEW s, TypeOK, Publish(d, o, s),
         o.started = dif[d].started
  PROVE  \A e \in Difs : dif'[e].started = dif[e].started
  <1>1. [o EXCEPT !.state = s].started = o.started
    BY DEF LDIF
  <1> QED
    BY <1>1 DEF Publish, TypeOK

LEMMA StepRInv ==
  ASSUME RInv, up, NEW d \in Difs, CommandStep(d) \/ InfoHandler(d)
  PROVE  RInv'
  <1>0. TypeOK' /\ TypeOK
    BY StepType DEF RInv
  <1>1. /\ dif \in [Difs -> LDIF] /\ dif[d] \in LDIF
    BY <1>0 DEF TypeOK
  <1>2. CASE Initialise(d)
    <2>1. PICK s : Publish(d, [dif[d] EXCEPT !.services = TRUE,
                                        !.rd = s # "INIT_RD_FAILED"], s)
      BY <1>2 DEF Initialise
    <2>2. /\ [dif[d] EXCEPT !.services = TRUE, !.rd = s # "INIT_RD_FAILED"] \in LDIF
          /\ [dif[d] EXCEPT !.services = TRUE,
                            !.rd = s # "INIT_RD_FAILED"].started = dif[d].started
      BY <1>1 DEF LDIF
    <2>3. \A e \in Difs : dif'[e].started = dif[e].started
      BY <1>0, <2>1, <2>2, PublishFlag
    <2> QED
      BY <1>0, <1>2, <2>3, QuietStep DEF Initialise, DoneWith
  <1>3. CASE RegisterDB(d)
    BY <1>0, <1>1, <1>3, PublishFlag, QuietStep DEF RegisterDB, DoneWith
  <1>4. CASE Configure(d)
    BY <1>0, <1>1, <1>4, PublishFlag, QuietStep DEF Configure, DoneWith
  <1>5. CASE StartThread(d)
    <2>1. CASE ~NeedsThread(d)
      BY <1>0, <1>5, <2>1, QuietStep DEF StartThread
    <2>2. CASE NeedsThread(d)
      <3>1. PICK t \in Threads :
              /\ thread[t] = NoThread
              /\ thread' = [thread EXCEPT ![t] = [pc |-> "begin", dif |-> d]]
        BY <1>5, <2>2 DEF StartThread
      <3>2. /\ cmd.op = "START" /\ fsm # "CREATED" /\ fsm' = fsm
            /\ cmd'.op = cmd.op /\ cmd'.to = cmd.to /\ d \in cmd.todo
            /\ dif' = [dif EXCEPT ![d].started = TRUE]
            /\ known' = known /\ up' = up
        BY <1>5, <2>2 DEF StartThread, Turn, RInv, CommandOK
      <3>3. \A s \in Threads : thread[s].pc # "none" => thread[s].dif # d
        BY <2>2, <3>2 DEF RInv, FlagOK, NeedsThread
      <3>4. /\ thread'[t] = [pc |-> "begin", dif |-> d]
            /\ \A s \in Threads \ {t} : thread'[s] = thread[s]
        BY <3>1, <1>0 DEF TypeOK
      <3>5. \A e \in Difs : dif[e].started => dif'[e].started
        BY <1>1, <3>2 DEF LDIF
      <3>6. dif'[d].started
        BY <1>1, <3>2 DEF LDIF
      <3>7. CommandOK' /\ TodoOK'
        BY <1>5, <3>2 DEF RInv, CommandOK, TodoOK, StartThread, TypeOK
      <3>8. SingleOK'
        BY <3>3, <3>4 DEF RInv, SingleOK
      <3>9. FlagOK'
        BY <1>0, <3>2, <3>4, <3>5, <3>6 DEF RInv, FlagOK, OwnedOK, TypeOK
      <3>10. OwnedOK'
        BY <3>2, <3>4 DEF RInv, OwnedOK, TodoOK
      <3> QED
        BY <1>0, <3>7, <3>8, <3>9, <3>10 DEF RInv
    <2> QED
      BY <2>1, <2>2
  <1>6. CASE Start(d)
    <2>1. /\ [dif[d] EXCEPT !.running = TRUE] \in LDIF
          /\ [dif[d] EXCEPT !.running = TRUE].started = dif[d].started
      BY <1>1 DEF LDIF
    <2>2. \A e \in Difs : dif'[e].started = dif[e].started
      BY <1>0, <1>1, <1>6, <2>1, PublishFlag DEF Start
    <2> QED
      BY <1>0, <1>6, <2>2, QuietStep DEF Start
  <1>7. CASE Stop(d)
    <2>1. \A s : Stopped(dif[d], s) \in LDIF
                /\ Stopped(dif[d], s).started = dif[d].started
      BY <1>1 DEF LDIF, Stopped
    <2>2. \A e \in Difs : dif'[e].started = dif[e].started
      BY <1>0, <1>7, <2>1, PublishFlag DEF Stop
    <2> QED
      BY <1>0, <1>7, <2>2, QuietStep DEF Stop, DoneWith
  <1>8. CASE DestroyFlag(d)
    BY <1>0, <1>8, QuietStep DEF DestroyFlag
  <1>9. CASE DestroyWait(d)
    BY <1>0, <1>9, QuietStep DEF DestroyWait
  <1>10. CASE DestroyDrop(d)
    BY <1>0, <1>10, QuietStep DEF DestroyDrop
  <1>11. CASE InfoHandler(d)
    <2>1. \A e \in Difs : dif'[e].started = dif[e].started
      BY <1>1, <1>11 DEF InfoHandler, LDIF
    <2> QED
      BY <1>0, <1>11, <2>1, QuietStep DEF InfoHandler
  <1> QED
    BY <1>2, <1>3, <1>4, <1>5, <1>6, <1>7, <1>8, <1>9, <1>10, <1>11
    DEF CommandStep

LEMMA WholeRInv ==
  ASSUME RInv, up, ClearFlags \/ JoinThreads \/ Scan
  PROVE  RInv'
  <1>0. TypeOK' /\ TypeOK
    BY WholeType DEF RInv
  <1>1. CASE ClearFlags
    <2>1. cmd'.op = cmd.op /\ cmd'.to = cmd.to /\ cmd'.todo = cmd.todo
      <3>1. cmd \in [op : Ops, to : FsmStates, todo : SUBSET Difs,
                     step : {"do", "thread", "start", "flags", "join", "flag",
                             "wait", "drop"}]
        BY <1>0, <1>1 DEF ClearFlags, TypeOK, Idle
      <3>2. \E s \in {"join", "flag"} : cmd' = [cmd EXCEPT !.step = s]
        BY <1>1 DEF ClearFlags
      <3> QED
        BY <3>1, <3>2
    <2>2. cmd.op = "DESTROY" /\ UNCHANGED <<fsm, known, thread>>
      BY <1>1 DEF ClearFlags
    <2> QED
      BY <1>0, <2>1, <2>2, QuietStep
  <1>2. CASE JoinThreads
    BY <1>0, <1>2, QuietStep DEF JoinThreads
  <1>3. CASE Scan
    <2>1. /\ UNCHANGED <<cmd, thread>> /\ cmd = Idle
          /\ up' = \A e \in known : ThreadOf(e) = {}
      BY <1>3 DEF Scan
    <2>2. CommandOK' /\ TodoOK' /\ SingleOK'
      BY <2>1 DEF Idle, RInv, CommandOK, TodoOK, SingleOK
    <2>3. up' => \A t \in Threads : thread[t].pc = "none"
      BY <2>1 DEF RInv, OwnedOK, ThreadOf
    <2>4. OwnedOK' /\ FlagOK'
      BY <2>1, <2>3 DEF OwnedOK, FlagOK
    <2> QED
      BY <1>0, <2>2, <2>4 DEF RInv
  <1> QED
    BY <1>1, <1>2, <1>3

LEMMA ReaderRInv ==
  ASSUME RInv, up, NEW t \in Threads, Reader(t)
  PROVE  RInv'
  <1> DEFINE d == thread[t].dif
  <1>0. TypeOK' /\ TypeOK /\ OwnedOK
    BY ReaderType DEF RInv
  <1>1. thread[t].pc # "none"
    BY DEF Reader, Begin, Failed, Loop, Read, PublishEvent, At
  <1>2. d \in Difs /\ d \in known /\ dif[d] \in LDIF /\ dif \in [Difs -> LDIF]
    BY <1>0, <1>1, ReaderDif DEF OwnedOK, TypeOK
  <1>3. UNCHANGED <<fsm, cmd, known>>
    BY DEF Reader, Begin, Failed, Loop, Read, PublishEvent
  <1>4. /\ \A s \in Threads \ {t} : thread'[s] = thread[s]
        /\ thread'[t].pc # "none" => thread'[t].dif = d
    <2>1. ASSUME NEW pc, GoTo(t, pc)
          PROVE  /\ \A s \in Threads \ {t} : thread'[s] = thread[s]
                 /\ thread'[t].dif = d
      BY <1>0, <2>1 DEF GoTo, TypeOK
    <2>2. ASSUME Exit(t)
          PROVE  /\ \A s \in Threads \ {t} : thread'[s] = thread[s]
                 /\ thread'[t].pc = "none"
      BY <1>0, <2>2 DEF Exit, TypeOK, NoThread
    <2> QED
      BY <2>1, <2>2 DEF Reader, Begin, Failed, Loop, Read, PublishEvent
  <1>5. CommandOK' /\ TodoOK' /\ SingleOK' /\ OwnedOK'
    BY <1>1, <1>2, <1>3, <1>4
    DEF RInv, CommandOK, TodoOK, SingleOK, OwnedOK
  <1>6. FlagOK'
    <2>1. CASE Failed(t)
      <3>1. thread'[t].pc = "none"
        BY <1>0, <2>1 DEF Failed, Exit, NoThread, TypeOK
      <3>2. \A s \in Threads \ {t} : thread[s].pc # "none" => thread[s].dif # d
        BY <1>1 DEF RInv, SingleOK
      <3>3. \A e \in Difs \ {d} : dif'[e] = dif[e]
        BY <1>2, <2>1 DEF Failed
      <3> QED
        BY <1>0, <1>3, <1>4, <3>1, <3>2, <3>3, ReaderDif, <2>1
        DEF RInv, FlagOK, OwnedOK, TypeOK, Failed
    <2>2. CASE ~Failed(t)
      <3>1. \A e \in Difs : dif'[e].started = dif[e].started
        <4>1. CASE Begin(t)
          <5>1. CASE dif[d].rd
            BY <1>2, <4>1, <5>1 DEF Begin, LDIF
          <5>2. CASE ~dif[d].rd
            BY <1>0, <1>2, <4>1, <5>2, PublishFlag DEF Begin
          <5> QED
            BY <5>1, <5>2
        <4>2. CASE Loop(t)
          BY <1>2, <4>2 DEF Loop, LDIF
        <4>3. CASE Read(t) \/ PublishEvent(t)
          BY <4>3 DEF Read, PublishEvent
        <4> QED
          BY <2>2, <4>1, <4>2, <4>3 DEF Reader
      <3>2. up' => up
        BY DEF Reader, Begin, Failed, Loop, Read, PublishEvent, Publish
      <3> QED
        BY <1>0, <1>1, <1>2, <1>3, <1>4, <3>1, <3>2
        DEF RInv, FlagOK, OwnedOK, TypeOK
    <2> QED
      BY <2>1, <2>2
  <1> QED
    BY <1>0, <1>5, <1>6 DEF RInv

LEMMA RInvInit == Init => RInv
  <1> SUFFICES ASSUME Init PROVE RInv
    OBVIOUS
  <1>1. NewLDIF(FALSE) \in LDIF
    BY DEF NewLDIF, LDIF, CardStates
  <1>2. TypeOK
    <2>1. thread \in [Threads -> [pc : {"none", "begin", "failed", "loop", "read",
                                      "publish"}, dif : Difs \cup {0}]]
      BY DEF Init, NoThread
    <2>2. late \in [Difs -> -1 .. 2]
      BY DEF Init
    <2>3. dif \in [Difs -> LDIF]
      BY <1>1 DEF Init
    <2> QED
      BY <2>1, <2>2, <2>3 DEF Init, TypeOK, FsmStates
  <1> QED
    BY <1>2 DEF Init, RInv, CommandOK, TodoOK, OwnedOK, FlagOK, SingleOK,
                Idle, NoThread

LEMMA RInvNext == RInv /\ [Next]_vars => RInv'
  <1> SUFFICES ASSUME RInv, [Next]_vars PROVE RInv'
    OBVIOUS
  <1>1. CASE UNCHANGED vars
    BY <1>1 DEF vars, RInv, TypeOK, CommandOK, TodoOK, OwnedOK, FlagOK, SingleOK
  <1>2. CASE Next
    BY <1>2, AcceptRInv, WholeRInv, StepRInv, ReaderRInv DEF Next, Handler
  <1> QED
    BY <1>1, <1>2

\* Every reachable state of the server has the types of TypeOK: the handlers
\* and readout threads leave nothing half made (LDIF.cc, LDIFServer.cc).
THEOREM TypeCorrect == Spec => []TypeOK
  <1>1. RInv => TypeOK
    BY DEF RInv
  <1> QED
    BY <1>1, RInvInit, RInvNext, PTL DEF Spec

\* A card never has two readout threads, for any number of cards and threads,
\* whatever cards the commands name and whenever web commands come
\* (startDIFThread, readout, destroy).
THEOREM NeverTwoReaders == Spec => []OneReader
  <1>1. RInv => OneReader
    BY DEF RInv, SingleOK, OneReader, ThreadOf
  <1> QED
    BY <1>1, RInvInit, RInvNext, PTL DEF Spec

-----------------------------------------------------------------------------
(* The invariant behind NoCrash and ReaderSafe, for a server driven as the *)
(* run controls do: every command is for all the cards, and no web command *)
(* comes before INITIALISE or after DESTROY.                               *)

Busy == fsm \notin {"CREATED", "SCANNED"}

\* In which states of the machine a command can be in progress.
PhaseOK ==
  /\ cmd.op = "INITIALISE" => fsm = "SCANNED"
  /\ cmd.op \notin {"none", "INITIALISE"} => Busy
  /\ cmd.op \notin {"none", "DESTROY"} => cmd.to \notin {"CREATED", "SCANNED"}
  /\ cmd.op = "DESTROY" =>
       /\ cmd.step \in {"flags", "join", "flag", "wait", "drop"}
       /\ cmd.step \in {"flags", "join"} => cmd.todo = known

\* The services exist from INITIALISE of the card to its own destroy.
ServicesOK ==
  \A d \in known :
     /\ Busy /\ (cmd.op = "DESTROY" => d \in cmd.todo) => dif[d].services
     /\ cmd.op = "INITIALISE" /\ d \notin cmd.todo => dif[d].services

\* A thread lives while the machine is between START and the join, its flag
\* is up until the join, and past its first test it has a card to read.
ThreadsOK ==
  \A t \in Threads : thread[t].pc # "none" =>
     /\ Busy
     /\ cmd.op = "DESTROY" => cmd.step \in {"flags", "join"}
     /\ dif[thread[t].dif].started \/ (cmd.op = "DESTROY" /\ cmd.step = "join")
     /\ thread[t].pc \in {"loop", "read", "publish"} => dif[thread[t].dif].rd

SInv == RInv /\ up /\ PhaseOK /\ ServicesOK /\ ThreadsOK

RunControlDriven ==
  Targets = {0} /\ WebStates \cap {"CREATED", "SCANNED"} = {}

\* The run controls start commands in the order of the table, and no
\* transition of it but SCAN and DESTROY is left without services.
LEMMA AcceptSInv ==
  ASSUME RunControlDriven, SInv, Command \/ WebCommand \/ Reply
  PROVE  SInv'
  <1>1. RInv' /\ UNCHANGED <<known, dif, thread, up>>
    BY AcceptRInv DEF SInv, Command, WebCommand, Reply, Accept
  <1>2. ASSUME NEW op, NEW to, Accept(op, to, 0),
               op = "INITIALISE" => fsm = "SCANNED",
               op # "INITIALISE" => Busy,
               op # "DESTROY" => to \notin {"CREATED", "SCANNED"}
        PROVE  SInv'
    <2>1. /\ cmd'.op = op /\ cmd'.to = to /\ cmd'.todo = known
          /\ op = "DESTROY" => cmd'.step = "flags"
          /\ fsm' = fsm /\ cmd.op = "none"
      BY <1>2 DEF Accept, Idle, FirstStep
    <2>2. PhaseOK'
      BY <1>1, <1>2, <2>1 DEF PhaseOK, Busy
    <2>3. ServicesOK'
      BY <1>1, <2>1 DEF SInv, ServicesOK, Busy
    <2>4. ThreadsOK'
      BY <1>1, <2>1 DEF SInv, ThreadsOK, Busy
    <2> QED
      BY <1>1, <2>2, <2>3, <2>4 DEF SInv
  <1>3. CASE Command
    <2>1. PICK x \in Transitions :
            x[1] # "SCAN" /\ x[2] = fsm /\ Accept(x[1], x[3], 0)
      BY <1>3 DEF Command, RunControlDriven
    <2> QED
      BY <1>2, <2>1, Table DEF Busy
  <1>4. CASE WebCommand
    <2>1. fsm \in WebStates /\ Accept("SET", fsm, 0)
      BY <1>4 DEF WebCommand, RunControlDriven
    <2>2. Busy
      BY <2>1 DEF Busy, RunControlDriven
    <2> QED
      BY <1>2, <2>1, <2>2 DEF Busy
  <1>5. CASE Reply
    <2>1. /\ cmd' = Idle /\ cmd'.op = "none" /\ cmd.op # "none" /\ cmd.todo = {}
          /\ cmd.step \notin {"flags", "join"} /\ fsm' = cmd.to
      BY <1>5 DEF Reply, Idle
    <2>2. PhaseOK'
      BY <2>1 DEF PhaseOK
    <2>3. CASE cmd.op = "DESTROY"
      <3>1. fsm' = "CREATED"
        BY <2>1, <2>3 DEF SInv, RInv, CommandOK
      <3>2. \A t \in Threads : thread[t].pc = "none"
        BY <2>1, <2>3 DEF SInv, ThreadsOK
      <3> QED
        BY <1>1, <2>1, <2>2, <3>1, <3>2 DEF SInv, ServicesOK, ThreadsOK, Busy
    <2>4. CASE cmd.op # "DESTROY"
      <3>1. Busy' /\ (Busy \/ cmd.op = "INITIALISE")
        BY <2>1, <2>4 DEF SInv, PhaseOK, Busy
      <3>2. \A e \in known : dif[e].services
        BY <2>1, <2>4, <3>1 DEF SInv, ServicesOK
      <3> QED
        BY <1>1, <2>1, <2>2, <2>4, <3>1, <3>2 DEF SInv, ServicesOK, ThreadsOK
    <2> QED
      BY <2>3, <2>4
  <1> QED
    BY <1>3, <1>4, <1>5

\* A step that leaves the cards, the services and the flags as they are.
LEMMA SameCards ==
  ASSUME SInv, RInv', up', UNCHANGED <<fsm, known, thread>>,
         cmd'.op = cmd.op, cmd'.to = cmd.to,
         cmd' = cmd \/ cmd.op \notin {"INITIALISE", "DESTROY"},
         \A e \in Difs : /\ dif'[e].services = dif[e].services
                         /\ dif'[e].rd = dif[e].rd
                         /\ dif'[e].started = dif[e].started
  PROVE  SInv'
  <1>1. known \subseteq Difs
    BY DEF SInv, RInv, TypeOK
  <1>2. \A t \in Threads : thread[t].pc # "none" => thread[t].dif \in Difs
    BY <1>1 DEF SInv, RInv, OwnedOK
  <1>3. PhaseOK'
    BY DEF SInv, PhaseOK, Busy
  <1>4. ServicesOK'
    BY <1>1 DEF SInv, ServicesOK, Busy
  <1>5. ThreadsOK'
    BY <1>2 DEF SInv, ThreadsOK, Busy
  <1> QED
    BY <1>3, <1>4, <1>5 DEF SInv

\* publishState on a card that has its services does not crash and keeps what
\* SameCards asks for.
LEMMA PublishCards ==
  ASSUME NEW d \in Difs, NEW o \in LDIF, NEW s, TypeOK, up, Publish(d, o, s),
         o.services
  PROVE  /\ up'
         /\ \A e \in Difs \ {d} : dif'[e] = dif[e]
         /\ dif'[d].services
         /\ dif'[d].rd = o.rd /\ dif'[d].started = o.started
  <1>1. LET n == [o EXCEPT !.state = s]
        IN  n.services = o.services /\ n.rd = o.rd /\ n.started = o.started
    BY DEF LDIF
  <1> QED
    BY <1>1 DEF Publish, TypeOK

LEMMA PublishSame ==
  ASSUME NEW d \in Difs, NEW o \in LDIF, NEW s, TypeOK, up, Publish(d, o, s),
         dif[d].services, o.services = dif[d].services,
         o.rd = dif[d].rd, o.started = dif[d].started
  PROVE  up' /\ \A e \in Difs : /\ dif'[e].services = dif[e].services
                                /\ dif'[e].rd = dif[e].rd
                                /\ dif'[e].started = dif[e].started
  <1>1. LET n == [o EXCEPT !.state = s]
        IN  n.services = o.services /\ n.rd = o.rd /\ n.started = o.started
    BY DEF LDIF
  <1> QED
    BY <1>1 DEF Publish, TypeOK

\* RegisterDB, Configure, Start and Stop find the services of the card.
LEMMA ServedCommand ==
  ASSUME SInv, NEW d, Turn(d), cmd.op \in {"REGISTERDB", "CONFIGURE", "SET",
                                          "START", "STOP"}
  PROVE  d \in known /\ d \in Difs /\ dif[d] \in LDIF /\ dif[d].services
  <1>1. d \in known /\ d \in Difs /\ dif[d] \in LDIF
    BY DEF Turn, SInv, RInv, TodoOK, TypeOK
  <1>2. Busy
    BY DEF SInv, PhaseOK
  <1> QED
    BY <1>1, <1>2 DEF SInv, ServicesOK

LEMMA StepSInv ==
  ASSUME SInv, NEW d \in Difs, CommandStep(d) \/ InfoHandler(d)
  PROVE  SInv'
  <1>0. RInv' /\ TypeOK /\ up /\ dif \in [Difs -> LDIF] /\ dif[d] \in LDIF
        /\ known \subseteq Difs
    BY StepRInv DEF SInv, RInv, TypeOK
  <1>2. CASE Initialise(d)
    <2>1. PICK s : Publish(d, [dif[d] EXCEPT !.services = TRUE,
                                        !.rd = s # "INIT_RD_FAILED"], s)
      BY <1>2 DEF Initialise
    <2>2. /\ [dif[d] EXCEPT !.services = TRUE, !.rd = s # "INIT_RD_FAILED"] \in LDIF
          /\ [dif[d] EXCEPT !.services = TRUE,
                            !.rd = s # "INIT_RD_FAILED"].services
      BY <1>0 DEF LDIF
    <2>3. /\ up' /\ dif'[d].services
          /\ \A e \in Difs \ {d} : dif'[e] = dif[e]
      BY <1>0, <2>1, <2>2, PublishCards
    <2>4. /\ cmd.op = "INITIALISE" /\ cmd'.op = cmd.op /\ cmd'.to = cmd.to
          /\ cmd'.todo = cmd.todo \ {d}
          /\ UNCHANGED <<fsm, known, thread>> /\ fsm = "SCANNED"
      BY <1>0, <1>2 DEF Initialise, DoneWith, SInv, PhaseOK, TypeOK, Idle
    <2>5. PhaseOK'
      BY <2>4 DEF SInv, PhaseOK, Busy
    <2>6. ServicesOK'
      BY <1>0, <2>3, <2>4 DEF SInv, ServicesOK, Busy
    <2>7. ThreadsOK'
      BY <2>4 DEF SInv, ThreadsOK, Busy
    <2> QED
      BY <1>0, <2>3, <2>5, <2>6, <2>7 DEF SInv
  <1>3. CASE RegisterDB(d)
    <2>1. dif[d].services
      BY <1>3, ServedCommand DEF RegisterDB
    <2>2. up' /\ \A e \in Difs : /\ dif'[e].services = dif[e].services
                                 /\ dif'[e].rd = dif[e].rd
                                 /\ dif'[e].started = dif[e].started
      BY <1>0, <1>3, <2>1, PublishSame DEF RegisterDB
    <2> QED
      BY <1>0, <1>3, <2>2, SameCards DEF RegisterDB, DoneWith
  <1>4. CASE Configure(d)
    <2>1. dif[d].services
      BY <1>4, ServedCommand DEF Configure
    <2>2. up' /\ \A e \in Difs : /\ dif'[e].services = dif[e].services
                                 /\ dif'[e].rd = dif[e].rd
                                 /\ dif'[e].started = dif[e].started
      BY <1>0, <1>4, <2>1, PublishSame DEF Configure
    <2> QED
      BY <1>0, <1>4, <2>2, SameCards DEF Configure, DoneWith
  <1>5. CASE StartThread(d)
    <2>0. /\ cmd.op = "START" /\ UNCHANGED <<fsm, known, up>> /\ up'
          /\ cmd'.op = cmd.op /\ cmd'.to = cmd.to /\ cmd'.todo = cmd.todo
      BY <1>0, <1>5 DEF StartThread, TypeOK, Idle
    <2>1. CASE ~NeedsThread(d)
      BY <1>0, <1>5, <2>0, <2>1, SameCards DEF StartThread
    <2>2. CASE NeedsThread(d)
      <3>1. PICK t \in Threads :
              /\ thread[t] = NoThread
              /\ thread' = [thread EXCEPT ![t] = [pc |-> "begin", dif |-> d]]
        BY <1>5, <2>2 DEF StartThread
      <3>2. /\ thread'[t] = [pc |-> "begin", dif |-> d]
            /\ \A s \in Threads \ {t} : thread'[s] = thread[s]
        BY <1>0, <3>1 DEF TypeOK
      <3>3. dif' = [dif EXCEPT ![d].started = TRUE]
        BY <1>5, <2>2 DEF StartThread
      <3>4. /\ \A e \in Difs : /\ dif'[e].services = dif[e].services
                               /\ dif'[e].rd = dif[e].rd
                               /\ dif[e].started => dif'[e].started
            /\ dif'[d].started
        BY <1>0, <3>3 DEF LDIF
      <3>5. Busy
        BY <2>0 DEF SInv, PhaseOK
      <3>6. PhaseOK'
        BY <2>0 DEF SInv, PhaseOK, Busy
      <3>7. ServicesOK'
        <4>1. \A e \in known : dif[e].services
          BY <2>0, <3>5 DEF SInv, ServicesOK
        <4> QED
          BY <1>0, <2>0, <3>4, <4>1 DEF ServicesOK
      <3>8. ASSUME NEW s \in Threads, thread'[s].pc # "none"
            PROVE  /\ dif'[thread'[s].dif].started
                   /\ thread'[s].pc \in {"loop", "read", "publish"} =>
                        dif'[thread'[s].dif].rd
        <4>1. CASE s = t
          BY <3>2, <3>4, <4>1
        <4>2. CASE s # t
          <5>1. thread[s].pc # "none" /\ thread'[s] = thread[s]
            BY <3>2, <3>8, <4>2
          <5>2. thread[s].dif \in Difs
            BY <1>0, <5>1 DEF SInv, RInv, OwnedOK
          <5>3. /\ dif[thread[s].dif].started
                /\ thread[s].pc \in {"loop", "read", "publish"} =>
                     dif[thread[s].dif].rd
            BY <2>0, <5>1 DEF SInv, ThreadsOK
          <5> QED
            BY <3>4, <5>1, <5>2, <5>3
        <4> QED
          BY <4>1, <4>2
      <3>9. ThreadsOK'
        BY <2>0, <3>5, <3>8 DEF ThreadsOK, Busy
      <3> QED
        BY <1>0, <2>0, <3>6, <3>7, <3>9 DEF SInv
    <2> QED
      BY <2>1, <2>2
  <1>6. CASE Start(d)
    <2>1. dif[d].services
      BY <1>6, ServedCommand DEF Start
    <2>2. /\ [dif[d] EXCEPT !.running = TRUE] \in LDIF
          /\ [dif[d] EXCEPT !.running = TRUE].services = dif[d].services
          /\ [dif[d] EXCEPT !.running = TRUE].rd = dif[d].rd
          /\ [dif[d] EXCEPT !.running = TRUE].started = dif[d].started
      BY <1>0 DEF LDIF
    <2>3. up' /\ \A e \in Difs : /\ dif'[e].services = dif[e].services
                                 /\ dif'[e].rd = dif[e].rd
                                 /\ dif'[e].started = dif[e].started
      BY <1>0, <1>6, <2>1, <2>2, PublishSame DEF Start
    <2> QED
      BY <1>0, <1>6, <2>3, SameCards DEF Start
  <1>7. CASE Stop(d)
    <2>1. dif[d].services
      BY <1>7, ServedCommand DEF Stop
    <2>2. \A s : /\ Stopped(dif[d], s) \in LDIF
                 /\ Stopped(dif[d], s).services = dif[d].services
                 /\ Stopped(dif[d], s).rd = dif[d].rd
                 /\ Stopped(dif[d], s).started = dif[d].started
      BY <1>0 DEF LDIF, Stopped
    <2>3. up' /\ \A e \in Difs : /\ dif'[e].services = dif[e].services
                                 /\ dif'[e].rd = dif[e].rd
                                 /\ dif'[e].started = dif[e].started
      BY <1>0, <1>7, <2>1, <2>2, PublishSame DEF Stop
    <2> QED
      BY <1>0, <1>7, <2>3, SameCards DEF Stop, DoneWith
  <1>8. ASSUME DestroyFlag(d) \/ DestroyWait(d) \/ DestroyDrop(d)
        PROVE  SInv'
    <2>1. /\ cmd.op = "DESTROY" /\ cmd.step \notin {"flags", "join"}
          /\ d \in cmd.todo /\ d \in known /\ Busy
          /\ \A t \in Threads : thread[t].pc = "none"
          /\ UNCHANGED <<fsm, known, thread>>
      BY <1>8 DEF DestroyFlag, DestroyWait, DestroyDrop, Turn, SInv, RInv,
                  TodoOK, PhaseOK, ThreadsOK
    <2>2. /\ cmd'.op = "DESTROY" /\ cmd'.to = cmd.to
          /\ cmd'.step \in {"flag", "wait", "drop"}
          /\ cmd'.todo \subseteq cmd.todo
          /\ d \in cmd'.todo => ~DestroyDrop(d)
      <3>1. cmd \in [op : Ops, to : FsmStates, todo : SUBSET Difs,
                     step : {"do", "thread", "start", "flags", "join", "flag",
                             "wait", "drop"}]
        BY <1>0, <2>1 DEF TypeOK, Idle
      <3>2. CASE DestroyFlag(d)
        <4>1. \E s \in {"wait", "drop"} : cmd' = [cmd EXCEPT !.step = s]
          BY <3>2 DEF DestroyFlag
        <4>2. ~DestroyDrop(d)
          BY <3>2 DEF DestroyFlag, DestroyDrop
        <4> QED
          BY <2>1, <3>1, <4>1, <4>2
      <3>3. CASE DestroyWait(d)
        <4>2. ~DestroyDrop(d)
          BY <3>3 DEF DestroyWait, DestroyDrop
        <4> QED
          BY <2>1, <3>1, <3>3, <4>2 DEF DestroyWait
      <3>4. CASE DestroyDrop(d)
        BY <2>1, <3>1, <3>4 DEF DestroyDrop
      <3> QED
        BY <1>8, <3>2, <3>3, <3>4
    <2>3. /\ \A e \in Difs \ {d} : dif'[e] = dif[e]
          /\ ~DestroyDrop(d) => dif'[d].services = dif[d].services
      BY <1>0, <1>8 DEF DestroyFlag, DestroyWait, DestroyDrop, ClearFlag, LDIF
    <2>4. dif[d].services
      BY <2>1 DEF SInv, ServicesOK
    <2>5. up'
      BY <1>0, <1>8, <2>4 DEF DestroyFlag, DestroyWait, DestroyDrop
    <2>6. PhaseOK'
      BY <2>1, <2>2 DEF SInv, PhaseOK, Busy
    <2>7. ServicesOK'
      BY <1>0, <2>1, <2>2, <2>3, <2>4 DEF SInv, ServicesOK, Busy
    <2>8. ThreadsOK'
      BY <2>1 DEF ThreadsOK
    <2> QED
      BY <1>0, <2>5, <2>6, <2>7, <2>8 DEF SInv
  <1>9. CASE InfoHandler(d)
    <2>1. \A e \in Difs : /\ dif'[e].services = dif[e].services
                          /\ dif'[e].rd = dif[e].rd
                          /\ dif'[e].started = dif[e].started
      BY <1>0, <1>9 DEF InfoHandler, LDIF
    <2> QED
      BY <1>0, <1>9, <2>1, SameCards DEF InfoHandler
  <1> QED
    BY <1>2, <1>3, <1>4, <1>5, <1>6, <1>7, <1>8, <1>9 DEF CommandStep

LEMMA WholeSInv ==
  ASSUME SInv, ClearFlags \/ JoinThreads \/ Scan
  PROVE  SInv'
  <1>0. RInv' /\ TypeOK /\ dif \in [Difs -> LDIF] /\ known \subseteq Difs /\ up
    BY WholeRInv DEF SInv, RInv, TypeOK
  <1>1. CASE ClearFlags
    <2>1. /\ cmd.op = "DESTROY" /\ cmd.step = "flags"
          /\ UNCHANGED <<fsm, known, thread, up>>
      BY <1>1 DEF ClearFlags
    <2>2. PICK s \in {"join", "flag"} :
            /\ cmd' = [cmd EXCEPT !.step = s]
            /\ s = "flag" => ~AnyReader /\ dif' = dif
            /\ s = "join" => dif' = [e \in Difs |->
                                 IF e \in known THEN ClearFlag(dif[e]) ELSE dif[e]]
      BY <1>1 DEF ClearFlags
    <2>3. /\ cmd'.op = "DESTROY" /\ cmd'.step = s /\ cmd'.to = cmd.to
          /\ cmd'.todo = cmd.todo
      BY <1>0, <2>1, <2>2 DEF TypeOK, Idle
    <2>4. \A e \in Difs : dif'[e].services = dif[e].services
                         /\ dif'[e].rd = dif[e].rd
      BY <1>0, <2>2 DEF ClearFlag, LDIF
    <2>5. PhaseOK'
      BY <2>1, <2>3 DEF SInv, PhaseOK, Busy
    <2>6. ServicesOK'
      BY <1>0, <2>1, <2>3, <2>4 DEF SInv, ServicesOK, Busy
    <2>7. s = "flag" => \A t \in Threads : thread[t].pc = "none"
      BY <2>1, <2>2 DEF SInv, RInv, OwnedOK, ThreadsOK, AnyReader
    <2>8. \A t \in Threads : thread[t].pc # "none" => thread[t].dif \in Difs
      BY <1>0 DEF SInv, RInv, OwnedOK
    <2>9. ThreadsOK'
      BY <2>1, <2>3, <2>4, <2>7, <2>8 DEF SInv, ThreadsOK, Busy
    <2> QED
      BY <1>0, <2>1, <2>5, <2>6, <2>9 DEF SInv
  <1>2. CASE JoinThreads
    <2>1. /\ cmd.op = "DESTROY" /\ cmd'.op = "DESTROY" /\ cmd'.step = "flag"
          /\ cmd'.to = cmd.to /\ cmd'.todo = cmd.todo
          /\ UNCHANGED <<fsm, known, dif, thread, up>>
      BY <1>0, <1>2 DEF JoinThreads, TypeOK, Idle
    <2>2. \A t \in Threads : thread[t].pc = "none"
      BY <1>2 DEF JoinThreads, Joined, NoThread
    <2> QED
      BY <1>0, <2>1, <2>2 DEF SInv, PhaseOK, ServicesOK, ThreadsOK, Busy
  <1>3. CASE Scan
    <2>1. /\ fsm = "CREATED" /\ fsm' = "SCANNED" /\ cmd.op = "none" /\ cmd' = cmd
          /\ thread' = thread /\ up' = \A e \in known : ThreadOf(e) = {}
      BY <1>3 DEF Scan, Idle
    <2>2. \A t \in Threads : thread[t].pc = "none"
      BY <2>1 DEF SInv, ThreadsOK, Busy
    <2>3. up'
      BY <2>1, <2>2 DEF ThreadOf
    <2> QED
      BY <1>0, <2>1, <2>2, <2>3 DEF SInv, PhaseOK, ServicesOK, ThreadsOK, Busy
  <1> QED
    BY <1>1, <1>2, <1>3

LEMMA ReaderSInv ==
  ASSUME SInv, NEW t \in Threads, Reader(t)
  PROVE  SInv'
  <1> DEFINE d == thread[t].dif
  <1>0. RInv' /\ TypeOK /\ OwnedOK /\ up
    BY ReaderRInv DEF SInv, RInv
  <1>1. thread[t].pc # "none"
    BY DEF Reader, Begin, Failed, Loop, Read, PublishEvent, At
  <1>2. d \in Difs /\ d \in known /\ dif[d] \in LDIF /\ dif \in [Difs -> LDIF]
    BY <1>0, <1>1, ReaderDif DEF OwnedOK, TypeOK
  <1>3. UNCHANGED <<fsm, cmd, known>>
    BY DEF Reader, Begin, Failed, Loop, Read, PublishEvent
  <1>4. Busy /\ dif[d].services
    <2>1. Busy /\ (cmd.op = "DESTROY" => d \in cmd.todo)
      BY <1>1, <1>2 DEF SInv, ThreadsOK, PhaseOK
    <2> QED
      BY <1>2, <2>1 DEF SInv, ServicesOK
  <1>5. /\ up'
        /\ \A e \in Difs : dif'[e].services = dif[e].services
                         /\ dif'[e].rd = dif[e].rd
        /\ \A e \in Difs : dif[e].started /\ ~dif'[e].started
                         => Failed(t) /\ e = d
    <2>1. CASE Begin(t)
      <3>1. CASE dif[d].rd
        <4>1. dif' = [dif EXCEPT ![d].completed = FALSE] /\ up' = up
          BY <2>1, <3>1 DEF Begin
        <4> QED
          BY <1>0, <1>2, <4>1 DEF LDIF
      <3>2. CASE ~dif[d].rd
        <4>1. Publish(d, dif[d], "READOUT_FAILED")
          BY <2>1, <3>2 DEF Begin
        <4> QED
          BY <1>0, <1>2, <1>4, <4>1, PublishSame
      <3> QED
        BY <3>1, <3>2
    <2>2. CASE Failed(t)
      <3>1. dif' = [dif EXCEPT ![d].started = FALSE] /\ up' = up
        BY <2>2 DEF Failed
      <3> QED
        BY <1>0, <1>2, <2>2, <3>1 DEF LDIF
    <2>3. CASE Loop(t)
      <3>1. up' = up /\ (dif' = dif \/ dif' = [dif EXCEPT ![d].completed = TRUE])
        BY <2>3 DEF Loop
      <3> QED
        BY <1>0, <1>2, <3>1 DEF LDIF
    <2>4. CASE Read(t)
      <3>1. dif[d].rd
        BY <1>1, <2>4 DEF Read, At, SInv, ThreadsOK
      <3> QED
        BY <1>0, <2>4, <3>1 DEF Read
    <2>5. CASE PublishEvent(t)
      BY <1>0, <1>4, <2>5 DEF PublishEvent
    <2> QED
      BY <2>1, <2>2, <2>3, <2>4, <2>5 DEF Reader
  <1>6. /\ \A s \in Threads \ {t} : thread'[s] = thread[s]
        /\ thread'[t].pc # "none" => thread'[t].dif = d /\ ~Failed(t)
        /\ thread'[t].pc \in {"loop", "read", "publish"} => dif[d].rd
    <2>1. ASSUME NEW pc, GoTo(t, pc)
          PROVE  /\ \A s \in Threads \ {t} : thread'[s] = thread[s]
                 /\ thread'[t].dif = d /\ thread'[t].pc = pc
      BY <1>0, <2>1 DEF GoTo, TypeOK
    <2>2. ASSUME Exit(t)
          PROVE  /\ \A s \in Threads \ {t} : thread'[s] = thread[s]
                 /\ thread'[t].pc = "none"
      BY <1>0, <2>2 DEF Exit, TypeOK, NoThread
    <2>3. thread[t].pc \in {"loop", "read", "publish"} => dif[d].rd
      BY DEF SInv, ThreadsOK
    <2>4. CASE Begin(t)
      BY <2>1, <2>4 DEF Begin, Failed, At
    <2>5. CASE Failed(t)
      BY <2>2, <2>5 DEF Failed
    <2>6. CASE Loop(t)
      BY <2>1, <2>2, <2>3, <2>6 DEF Loop, Failed, At
    <2>7. CASE Read(t) \/ PublishEvent(t)
      BY <2>1, <2>3, <2>7 DEF Read, PublishEvent, Failed, At
    <2> QED
      BY <2>4, <2>5, <2>6, <2>7 DEF Reader
  <1>7. PhaseOK'
    BY <1>3 DEF SInv, PhaseOK, Busy
  <1>8. ServicesOK'
    BY <1>0, <1>3, <1>5 DEF SInv, ServicesOK, Busy, TypeOK
  <1>9. ASSUME NEW s \in Threads, thread'[s].pc # "none"
        PROVE  /\ Busy
               /\ cmd.op = "DESTROY" => cmd.step \in {"flags", "join"}
               /\ \/ dif'[thread'[s].dif].started
                  \/ cmd.op = "DESTROY" /\ cmd.step = "join"
               /\ thread'[s].pc \in {"loop", "read", "publish"} =>
                    dif'[thread'[s].dif].rd
    <2>1. thread[s].pc # "none" /\ thread'[s].dif = thread[s].dif
          /\ (s = t => ~Failed(t))
      BY <1>1, <1>6, <1>9
    <2>2. thread[s].dif \in Difs
      BY <1>0, <2>1, ReaderDif
    <2>3. s # t => thread[s].dif # d
      BY <1>1, <2>1 DEF SInv, RInv, SingleOK
    <2>4. dif[thread[s].dif].started => dif'[thread[s].dif].started
      BY <1>5, <2>1, <2>2, <2>3
    <2>5. /\ Busy
          /\ cmd.op = "DESTROY" => cmd.step \in {"flags", "join"}
          /\ \/ dif[thread[s].dif].started
             \/ cmd.op = "DESTROY" /\ cmd.step = "join"
      BY <2>1 DEF SInv, ThreadsOK
    <2>6. thread'[s].pc \in {"loop", "read", "publish"} => dif[thread[s].dif].rd
      BY <1>6, <2>1 DEF SInv, ThreadsOK
    <2> QED
      BY <1>5, <2>1, <2>2, <2>4, <2>5, <2>6
  <1>10. ThreadsOK'
    BY <1>3, <1>9 DEF ThreadsOK, Busy
  <1> QED
    BY <1>0, <1>5, <1>7, <1>8, <1>10 DEF SInv

LEMMA SInvInit == Init => SInv
  <1> SUFFICES ASSUME Init PROVE SInv
    OBVIOUS
  <1>1. RInv
    BY RInvInit
  <1>2. \A t \in Threads : thread[t].pc = "none"
    BY DEF Init, NoThread
  <1> QED
    BY <1>1, <1>2 DEF Init, Idle, SInv, PhaseOK, ServicesOK, ThreadsOK

LEMMA SInvNext == ASSUME RunControlDriven, SInv, [Next]_vars PROVE SInv'
  <1>1. CASE UNCHANGED vars
    BY <1>1 DEF vars, SInv, RInv, TypeOK, CommandOK, TodoOK, OwnedOK, FlagOK,
                SingleOK, PhaseOK, ServicesOK, ThreadsOK, Busy
  <1>2. CASE Next
    BY <1>2, AcceptSInv, WholeSInv, StepSInv, ReaderSInv DEF Next, Handler
  <1> QED
    BY <1>1, <1>2

\* Driven as the run controls drive it, with any number of cards and threads,
\* the server never calls through a pointer it deleted (LDIF::destroy, scan)
\* or never made (publishState before LDIF::registration).
THEOREM ServerNeverCrashes == ASSUME RunControlDriven PROVE Spec => []NoCrash
  <1>1. SInv => NoCrash
    BY DEF SInv, NoCrash
  <1>2. SInv /\ [Next]_vars => SInv'
    BY SInvNext
  <1> QED
    BY <1>1, <1>2, SInvInit, PTL DEF Spec

\* Driven as the run controls drive it, DESTROY deletes a card and its data
\* service only when no reader is inside them: the flags and the join are
\* enough, whatever the reader was doing (LDIFServer::destroy).
THEOREM ReadersAreSafe == ASSUME RunControlDriven PROVE Spec => []ReaderSafe
  <1>1. SInv => ReaderSafe
    <2> SUFFICES ASSUME SInv, NEW d \in Difs, NEW t \in Inside(d)
                 PROVE  dif[d].rd /\ dif[d].services
      BY DEF ReaderSafe
    <2>1. /\ t \in Threads /\ thread[t].dif = d
          /\ thread[t].pc \in {"read", "publish"} /\ d \in known
      BY DEF Inside, ThreadOf, SInv, RInv, OwnedOK
    <2>2. dif[d].rd /\ Busy /\ (cmd.op = "DESTROY" => d \in cmd.todo)
      BY <2>1 DEF SInv, ThreadsOK, PhaseOK
    <2> QED
      BY <2>1, <2>2 DEF SInv, ServicesOK
  <1>2. SInv /\ [Next]_vars => SInv'
    BY SInvNext
  <1> QED
    BY <1>1, <1>2, SInvInit, PTL DEF Spec

-----------------------------------------------------------------------------
(* After stop() of a card: its flag _running is down, so that the reader   *)
(* that publishes once more does not enter another read.                   *)

LateOK ==
  \A d \in Difs :
     /\ late[d] # -1 => ~dif[d].running
     /\ late[d] <= 1
     /\ late[d] = 1 => \A t \in Threads : thread[t].dif = d =>
                           thread[t].pc \notin {"read", "publish"}

\* A step that only lowers _running, or leaves it.
LEMMA LateFrame ==
  ASSUME LateOK, RInv, late' = late,
         \A d \in Difs : dif'[d].running => dif[d].running,
         \A t \in Threads : thread'[t].pc \in {"read", "publish"} =>
            thread[t].pc \in {"read", "publish"} /\ thread'[t].dif = thread[t].dif
  PROVE  LateOK'
  BY DEF LateOK

LEMMA StepLate ==
  ASSUME LateOK, RInv, NEW d \in Difs, CommandStep(d) \/ InfoHandler(d)
  PROVE  LateOK'
  <1>1. dif \in [Difs -> LDIF] /\ late \in [Difs -> -1..2]
    BY DEF RInv, TypeOK
  <1>2. ASSUME NEW o \in LDIF, NEW s, Publish(d, o, s)
        PROVE  /\ \A e \in Difs \ {d} : dif'[e] = dif[e]
               /\ dif'[d].running = o.running
    BY <1>1, <1>2 DEF Publish, LDIF
  <1>3. CASE Initialise(d)
    <2>1. PICK s : Publish(d, [dif[d] EXCEPT !.services = TRUE,
                                             !.rd = s # "INIT_RD_FAILED"], s)
      BY <1>3 DEF Initialise
    <2> DEFINE o == [dif[d] EXCEPT !.services = TRUE, !.rd = s # "INIT_RD_FAILED"]
    <2>2. o \in LDIF /\ o.running = dif[d].running
      BY <1>1 DEF LDIF
    <2> HIDE DEF o
    <2>3. \A e \in Difs : dif'[e].running = dif[e].running
      BY <1>2, <2>1, <2>2 DEF o
    <2> QED
      BY <1>3, <2>3, LateFrame DEF Initialise
  <1>4. CASE RegisterDB(d) \/ Configure(d)
    <2>1. PICK s : Publish(d, dif[d], s)
      BY <1>4 DEF RegisterDB, Configure
    <2>2. \A e \in Difs : dif'[e].running = dif[e].running
      BY <1>1, <1>2, <2>1
    <2> QED
      BY <1>4, <2>2, LateFrame DEF RegisterDB, Configure
  <1>5. CASE StartThread(d)
    <2>1. \A e \in Difs : dif'[e].running = dif[e].running
      BY <1>1, <1>5 DEF StartThread, LDIF
    <2>2. \A t \in Threads : thread'[t].pc \in {"read", "publish"} => thread'[t] = thread[t]
      BY <1>5 DEF StartThread, RInv, TypeOK
    <2> QED
      BY <1>5, <2>1, <2>2, LateFrame DEF StartThread
  <1>6. CASE Start(d)
    <2>1. CASE Publish(d, dif[d], "START_FAILED") /\ UNCHANGED late
      <3>1. \A e \in Difs : dif'[e].running = dif[e].running
        BY <1>1, <1>2, <2>1
      <3> QED
        BY <1>6, <2>1, <3>1, LateFrame DEF Start
    <2>2. CASE /\ Publish(d, [dif[d] EXCEPT !.running = TRUE], "STARTED")
               /\ late' = [late EXCEPT ![d] = -1]
      <3>1. [dif[d] EXCEPT !.running = TRUE] \in LDIF
        BY <1>1 DEF LDIF
      <3>2. \A e \in Difs \ {d} : dif'[e] = dif[e] /\ late'[e] = late[e]
        BY <1>1, <1>2, <2>2, <3>1
      <3>3. late'[d] = -1 /\ thread' = thread
        BY <1>1, <1>6, <2>2 DEF Start
      <3> QED
        BY <3>2, <3>3 DEF LateOK
    <2> QED
      BY <1>6, <2>1, <2>2 DEF Start
  <1>7. CASE Stop(d)
    <2>1. PICK s : Publish(d, Stopped(dif[d], s), s)
      BY <1>7 DEF Stop
    <2>2. Stopped(dif[d], s) \in LDIF /\ ~Stopped(dif[d], s).running
      BY <1>1 DEF LDIF, Stopped
    <2>3. ~dif'[d].running /\ \A e \in Difs \ {d} : dif'[e] = dif[e]
      BY <1>2, <2>1, <2>2
    <2>4. /\ late' = [late EXCEPT ![d] = 0] /\ thread' = thread
      BY <1>7 DEF Stop
    <2> QED
      BY <1>1, <2>3, <2>4 DEF LateOK
  <1>8. CASE DestroyFlag(d) \/ DestroyWait(d) \/ DestroyDrop(d) \/ InfoHandler(d)
    <2>1. \A e \in Difs : dif'[e].running = dif[e].running
      <3>1. CASE DestroyFlag(d) \/ DestroyWait(d)
        BY <1>1, <3>1 DEF DestroyFlag, DestroyWait, ClearFlag, LDIF
      <3>2. CASE DestroyDrop(d)
        <4>1. dif' = [dif EXCEPT ![d] = Dropped(dif[d])] /\ dif[d] \in LDIF
          BY <1>1, <3>2 DEF DestroyDrop
        <4>2. Dropped(dif[d]).running = dif[d].running
          BY <4>1 DEF Dropped, LDIF
        <4> QED
          BY <1>1, <4>1, <4>2
      <3>3. CASE InfoHandler(d)
        <4>1. dif' = [dif EXCEPT ![d].db = TRUE]
          BY <3>3 DEF InfoHandler
        <4> QED
          BY <1>1, <4>1 DEF LDIF
      <3> QED
        BY <1>8, <3>1, <3>2, <3>3
    <2> QED
      BY <1>8, <2>1, LateFrame DEF DestroyFlag, DestroyWait, DestroyDrop, InfoHandler
  <1> QED
    BY <1>3, <1>4, <1>5, <1>6, <1>7, <1>8 DEF CommandStep

LEMMA ReaderLate ==
  ASSUME LateOK, RInv, NEW t \in Threads, Reader(t)
  PROVE  LateOK'
  <1> DEFINE d == thread[t].dif
  <1>1. /\ dif \in [Difs -> LDIF] /\ late \in [Difs -> -1..2]
        /\ thread \in [Threads -> [pc : {"none", "begin", "failed", "loop", "read",
                                         "publish"},
                                   dif : Difs \cup {0}]]
    BY DEF RInv, TypeOK
  <1>2. thread[t].pc # "none" /\ (d \in Difs => dif[d] \in LDIF)
    BY <1>1 DEF Reader, Begin, Failed, Loop, Read, PublishEvent, At
  <1>3. ASSUME Begin(t) \/ Failed(t) \/ (Loop(t) /\ ~GoTo(t, "read")) \/ Read(t)
        PROVE  LateOK'
    <2>1. \A e \in Difs : dif'[e].running => dif[e].running
      BY <1>1, <1>2, <1>3 DEF Begin, Failed, Loop, Read, Publish, LDIF
    <2>2. \A s \in Threads : thread'[s].pc \in {"read", "publish"} =>
             thread[s].pc \in {"read", "publish"} /\ thread'[s].dif = thread[s].dif
      BY <1>1, <1>3 DEF Begin, Failed, Loop, Read, GoTo, Exit, NoThread, At
    <2> QED
      BY <1>3, <2>1, <2>2, LateFrame DEF Begin, Failed, Loop, Read
  <1>4. CASE Loop(t) /\ GoTo(t, "read")
    <2>1. CASE dif[d].running /\ dif' = dif
      <3>1. d \in Difs => late[d] = -1
        BY <2>1 DEF LateOK
      <3>2. \A s \in Threads \ {t} : thread'[s] = thread[s]
        BY <1>1, <1>4 DEF GoTo
      <3>3. thread'[t].dif = d /\ late' = late
        BY <1>1, <1>4 DEF GoTo, Loop
      <3> QED
        BY <2>1, <3>1, <3>2, <3>3 DEF LateOK
    <2>2. CASE Exit(t)
      <3>1. FALSE
        BY <1>1, <1>4, <2>2 DEF Exit, GoTo, NoThread
      <3> QED
        BY <3>1
    <2> QED
      BY <1>4, <2>1, <2>2 DEF Loop
  <1>5. CASE PublishEvent(t)
    <2>1. /\ thread[t].pc = "publish" /\ dif' = dif
          /\ late' = [late EXCEPT ![d] = IF @ \in {0, 1} THEN @ + 1 ELSE @]
      BY <1>5 DEF PublishEvent, At
    <2>2. \A s \in Threads \ {t} : thread'[s] = thread[s]
      BY <1>1, <1>5 DEF PublishEvent, GoTo
    <2>3. thread'[t].pc = "loop" /\ thread'[t].dif = d
      BY <1>1, <1>5 DEF PublishEvent, GoTo
    <2>4. \A s \in Threads : s # t /\ thread[s].pc # "none" => thread[s].dif # d
      BY <1>2 DEF RInv, SingleOK
    <2>5. d \in Difs => late[d] \in {-1, 0}
      BY <1>1, <2>1 DEF LateOK
    <2>6. ASSUME NEW e \in Difs
          PROVE  /\ late'[e] # -1 => ~dif'[e].running
                 /\ late'[e] <= 1
                 /\ late'[e] = 1 => \A s \in Threads : thread'[s].dif = e =>
                                      thread'[s].pc \notin {"read", "publish"}
      <3>1. CASE e = d
        <4>1. late'[e] = IF late[e] \in {0, 1} THEN late[e] + 1 ELSE late[e]
          BY <1>1, <2>1, <3>1
        <4>3. late[e] \in {-1, 0}
          BY <2>5, <3>1
        <4>2. \A s \in Threads : thread'[s].dif = e =>
                 thread'[s].pc \notin {"read", "publish"}
          BY <2>2, <2>3, <2>4, <3>1
        <4> QED
          BY <2>1, <4>1, <4>2, <4>3 DEF LateOK
      <3>2. CASE e # d
        <4>1. late'[e] = late[e]
          BY <1>1, <2>1, <3>2
        <4> QED
          BY <2>1, <2>2, <2>3, <3>2, <4>1 DEF LateOK
      <3> QED
        BY <3>1, <3>2
    <2> QED
      BY <2>6 DEF LateOK
  <1> QED
    BY <1>3, <1>4, <1>5 DEF Reader

LEMMA LateStep == LateOK /\ RInv /\ [Next]_vars => LateOK'
  <1> SUFFICES ASSUME LateOK, RInv, [Next]_vars PROVE LateOK'
    OBVIOUS
  <1>1. CASE Scan
    <2>1. late' = [d \in Difs |-> -1]
      BY <1>1 DEF Scan
    <2> QED
      BY <2>1 DEF LateOK
  <1>2. CASE Command \/ WebCommand \/ Reply \/ JoinThreads \/ UNCHANGED vars
    BY <1>2, LateFrame DEF Command, WebCommand, Accept, Reply, JoinThreads, vars
  <1>3. CASE ClearFlags
    <2>1. \A d \in Difs : dif'[d].running = dif[d].running
      BY <1>3 DEF ClearFlags, ClearFlag, RInv, TypeOK, LDIF
    <2> QED
      BY <1>3, <2>1, LateFrame DEF ClearFlags
  <1> QED
    BY <1>1, <1>2, <1>3, StepLate, ReaderLate DEF Next, Handler

\* A stop() lets at most one more event of the card be published, for any
\* number of cards and threads and whatever the commands name: the one its
\* reader was fetching (LDIF::stop, LDIF::readout).
THEOREM OneLateEvent == Spec => []LateOnce
  <1>1. Init => LateOK
    BY DEF Init, LateOK
  <1>2. LateOK => LateOnce
    BY DEF LateOK, LateOnce
  <1> QED
    BY <1>1, <1>2, RInvInit, RInvNext, LateStep, PTL DEF Spec

-----------------------------------------------------------------------------
(* What DESTROY has done with the cards it has already dropped.            *)

Clean(d) == ~dif[d].rd /\ ~dif[d].services /\ ~dif[d].started

CleanOK ==
  /\ \A d \in known : fsm = "CREATED" \/ (cmd.op = "DESTROY" /\ d \notin cmd.todo)
                        => Clean(d)
  /\ cmd.op = "DESTROY" /\ cmd.step \in {"wait", "drop"} =>
       \A d \in known : Turn(d) => ~dif[d].started

-----------------------------------------------------------------------------
(* Why a STARTED card has its reader: START makes one unless the flag says *)
(* there is one, the flag falls only with the reader or for DESTROY, and   *)
(* no card is STARTED any more when DESTROY comes.                         *)

RunPhase ==
  /\ cmd.op = "START" => cmd.to = "RUNNING" /\ fsm # "RUNNING"
  /\ cmd.op = "STOP" => fsm = "RUNNING"
  /\ cmd.op \notin {"none", "SET", "START", "STOP"} => fsm # "RUNNING"
  /\ cmd.to = "RUNNING" => cmd.op \in {"START", "SET"}

StartedOK ==
  /\ \A d \in known :
       /\ dif[d].started => \E t \in Threads : thread[t].pc # "none" /\ thread[t].dif = d
       /\ cmd.op = "START" /\ cmd.step = "start" /\ Turn(d) /\ dif[d].rd => dif[d].started
       /\ dif[d].state = "STARTED" =>
            /\ dif[d].started /\ dif[d].running /\ dif[d].rd
            /\ cmd.op = "START" \/ (fsm = "RUNNING" /\ (cmd.op = "STOP" => d \in cmd.todo))
  /\ \A t \in Threads : thread[t].pc = "failed" => ~dif[thread[t].dif].rd


\* The handlers of the machine: what is in progress, and where it leads.
LEMMA RunPhaseStep == RunPhase /\ RInv /\ [Next]_vars => RunPhase'
  <1> SUFFICES ASSUME RunPhase, RInv, [Next]_vars PROVE RunPhase'
    OBVIOUS
  <1>1. CASE fsm' = fsm /\ cmd'.op = cmd.op /\ cmd'.to = cmd.to
    BY <1>1 DEF RunPhase
  <1>2. CASE Command
    <2>1. PICK x \in Transitions : /\ x[1] # "SCAN" /\ x[2] = fsm
                                   /\ cmd'.op = x[1] /\ cmd'.to = x[3] /\ fsm' = fsm
      BY <1>2 DEF Command, Accept
    <2>2. /\ x[1] = "START" => x[3] = "RUNNING" /\ x[2] # "RUNNING"
          /\ x[1] = "STOP" => x[2] = "RUNNING"
          /\ x[1] \notin {"START", "STOP"} => x[2] # "RUNNING" /\ x[3] # "RUNNING"
          /\ x[1] = "STOP" => x[3] # "RUNNING"
          /\ x[1] \notin {"none", "SET"}
      BY DEF Transitions
    <2> QED
      BY <2>1, <2>2 DEF RunPhase
  <1>3. CASE WebCommand
    <2>1. cmd'.op = "SET" /\ cmd'.to = fsm /\ fsm' = fsm
      BY <1>3 DEF WebCommand, Accept
    <2> QED
      BY <2>1 DEF RunPhase
  <1>4. CASE Reply \/ Scan
    <2>1. cmd' = Idle
      BY <1>4 DEF Reply, Scan, Idle
    <2> QED
      BY <2>1 DEF RunPhase, Idle
  <1>5. ASSUME Next, ~Command, ~WebCommand, ~Reply, ~Scan
        PROVE  fsm' = fsm /\ cmd'.op = cmd.op /\ cmd'.to = cmd.to
    <2>1. cmd.op # "none" =>
            cmd \in [op : Ops, to : FsmStates, todo : SUBSET Difs,
                     step : {"do", "thread", "start", "flags", "join", "flag",
                             "wait", "drop"}]
      BY DEF RInv, TypeOK, Idle
    <2>2. ASSUME NEW d \in Difs, CommandStep(d)
          PROVE  fsm' = fsm /\ cmd'.op = cmd.op /\ cmd'.to = cmd.to
      BY <2>1, <2>2 DEF CommandStep, Initialise, RegisterDB, Configure, StartThread, Start,
         Stop, DestroyFlag, DestroyWait, DestroyDrop, DoneWith
    <2>3. ASSUME ClearFlags \/ JoinThreads
          PROVE  fsm' = fsm /\ cmd'.op = cmd.op /\ cmd'.to = cmd.to
      BY <2>1, <2>3 DEF ClearFlags, JoinThreads
    <2>4. ASSUME NEW d \in Difs, InfoHandler(d) PROVE fsm' = fsm /\ cmd' = cmd
      BY <2>4 DEF InfoHandler
    <2>5. ASSUME NEW t \in Threads, Reader(t) PROVE fsm' = fsm /\ cmd' = cmd
      BY <2>5 DEF Reader, Begin, Failed, Loop, Read, PublishEvent
    <2> QED
      BY <1>5, <2>2, <2>3, <2>4, <2>5 DEF Next, Handler
  <1>6. CASE UNCHANGED vars
    BY <1>6 DEF vars, RunPhase
  <1> QED
    BY <1>1, <1>2, <1>3, <1>4, <1>5, <1>6

LEMMA TurnUnique ==
  ASSUME RInv, NEW d, NEW e, Turn(d), Turn(e) PROVE d = e
  <1>1. d \in Nat /\ e \in Nat
    BY DifsAssumption DEF RInv, TodoOK, TypeOK, Turn
  <1> QED
    BY <1>1 DEF Turn

\* Steps of the handler of DESTROY on one card.
LEMMA DropClean ==
  ASSUME SInv, CleanOK, NEW d \in Difs,
         DestroyFlag(d) \/ DestroyWait(d) \/ DestroyDrop(d)
  PROVE  CleanOK'
  <1>1. RInv /\ dif \in [Difs -> LDIF] /\ known \subseteq Difs /\ dif[d] \in LDIF
    BY DEF SInv, RInv, TypeOK
  <1>2. cmd \in [op : Ops, to : FsmStates, todo : SUBSET Difs,
                 step : {"do", "thread", "start", "flags", "join", "flag",
                         "wait", "drop"}]
    BY <1>1 DEF RInv, TypeOK, Idle, DestroyFlag, DestroyWait, DestroyDrop
  <1>3. cmd.op = "DESTROY" /\ cmd'.op = "DESTROY" /\ fsm' = fsm /\ known' = known
        /\ fsm # "CREATED" /\ Turn(d) /\ d \in cmd.todo
    BY <1>1, <1>2 DEF RInv, CommandOK, DestroyFlag, DestroyWait, DestroyDrop, Turn
  <1>4. CASE DestroyFlag(d)
    <2>1. dif' = [dif EXCEPT ![d] = ClearFlag(dif[d])] /\ cmd'.todo = cmd.todo
      BY <1>2, <1>4 DEF DestroyFlag
    <2>2. /\ \A e \in Difs \ {d} : dif'[e] = dif[e]
          /\ ~dif'[d].started
      BY <1>1, <2>1 DEF ClearFlag, LDIF
    <2>3. \A e : Turn(e)' => e = d
      BY <1>1, <1>3, <2>1, TurnUnique DEF Turn
    <2> QED
      BY <1>1, <1>3, <2>1, <2>2, <2>3 DEF CleanOK, Clean
  <1>5. CASE DestroyWait(d)
    <2>1. dif' = dif /\ cmd'.todo = cmd.todo /\ cmd.step = "wait"
      BY <1>2, <1>5 DEF DestroyWait
    <2>2. \A e : Turn(e)' => Turn(e)
      BY <2>1 DEF Turn
    <2> QED
      BY <1>1, <1>3, <2>1, <2>2 DEF CleanOK, Clean
  <1>6. CASE DestroyDrop(d)
    <2>1. dif' = [dif EXCEPT ![d] = Dropped(dif[d])] /\ cmd'.todo = cmd.todo \ {d}
          /\ cmd.step = "drop" /\ cmd'.step = "flag"
      BY <1>2, <1>6 DEF DestroyDrop
    <2>2. d \in known
      BY <1>1, <1>3 DEF RInv, TodoOK
    <2>3. ~dif[d].started
      BY <1>3, <2>1, <2>2 DEF CleanOK
    <2>4. LET n == Dropped(dif[d]) IN ~n.rd /\ ~n.services /\ ~n.started
      BY <1>1, <2>3 DEF Dropped, LDIF
    <2>5. \A e \in Difs \ {d} : dif'[e] = dif[e]
      BY <1>1, <2>1
    <2>6. Clean(d)'
      BY <1>1, <2>1, <2>4 DEF Clean
    <2> QED
      BY <1>1, <1>3, <2>1, <2>5, <2>6 DEF CleanOK, Clean
  <1> QED
    BY <1>4, <1>5, <1>6

LEMMA CleanStep == ASSUME RunControlDriven, SInv, CleanOK, [Next]_vars PROVE CleanOK'
  <1>1. RInv /\ TypeOK /\ known \subseteq Difs
    BY DEF SInv, RInv, TypeOK
  <1>2. CASE Command
    <2>1. PICK x \in Transitions : x[1] # "SCAN" /\ x[2] = fsm /\ Accept(x[1], x[3], 0)
      BY <1>2 DEF Command, RunControlDriven
    <2>2. fsm # "CREATED" /\ cmd'.todo = known /\ fsm' = fsm /\ known' = known
      BY <2>1, Table DEF Accept
    <2>3. cmd'.op = "DESTROY" => cmd'.step = "flags"
      BY <2>1 DEF Accept, FirstStep
    <2> QED
      BY <2>2, <2>3 DEF CleanOK
  <1>3. CASE WebCommand
    <2>1. cmd'.op = "SET" /\ fsm' = fsm /\ known' = known /\ fsm # "CREATED"
      BY <1>3 DEF WebCommand, Accept, RunControlDriven
    <2> QED
      BY <2>1 DEF CleanOK
  <1>4. CASE Reply
    <2>1. /\ cmd'.op = "none" /\ cmd.op # "none" /\ cmd.todo = {} /\ fsm' = cmd.to
          /\ known' = known /\ dif' = dif
      BY <1>4 DEF Reply, Idle
    <2>2. CASE cmd.op = "DESTROY"
      BY <2>1, <2>2 DEF CleanOK, Clean
    <2>3. CASE cmd.op # "DESTROY"
      BY <2>1, <2>3 DEF SInv, PhaseOK, CleanOK
    <2> QED
      BY <2>2, <2>3
  <1>5. CASE Scan
    BY <1>5 DEF Scan, Idle, CleanOK
  <1>6. CASE ClearFlags \/ JoinThreads
    <2>1. /\ cmd.op = "DESTROY" /\ cmd.step \in {"flags", "join"} /\ fsm # "CREATED"
          /\ cmd.todo = known
      BY <1>1, <1>6 DEF ClearFlags, JoinThreads, SInv, PhaseOK, RInv, CommandOK
    <2>2. cmd'.todo = cmd.todo /\ cmd'.step \in {"join", "flag"} /\ fsm' = fsm /\ known' = known
      BY <1>1, <1>6, <2>1 DEF ClearFlags, JoinThreads, TypeOK, Idle
    <2> QED
      BY <2>1, <2>2 DEF CleanOK
  <1>7. ASSUME NEW d \in Difs,
               \/ Initialise(d) \/ RegisterDB(d) \/ Configure(d) \/ StartThread(d)
               \/ Start(d) \/ Stop(d)
        PROVE  CleanOK'
    <2>1. cmd.op \notin {"none", "DESTROY"} /\ fsm # "CREATED"
      BY <1>1, <1>7 DEF Initialise, RegisterDB, Configure, StartThread, Start, Stop,
         RInv, CommandOK, SInv, PhaseOK, Busy
    <2>2. cmd'.op = cmd.op /\ fsm' = fsm
      BY <1>1, <1>7, <2>1 DEF Initialise, RegisterDB, Configure, StartThread, Start, Stop,
         DoneWith, TypeOK, Idle
    <2> QED
      BY <2>1, <2>2 DEF CleanOK
  <1>8. ASSUME NEW d \in Difs, InfoHandler(d) PROVE CleanOK'
    <2>1. \A e \in known : Clean(e)' <=> Clean(e)
      BY <1>1, <1>8 DEF InfoHandler, Clean, TypeOK, LDIF
    <2>2. \A e \in known : dif'[e].started = dif[e].started
      BY <1>1, <1>8 DEF InfoHandler, TypeOK, LDIF
    <2>3. UNCHANGED <<fsm, cmd, known>>
      BY <1>8 DEF InfoHandler
    <2> QED
      BY <2>1, <2>2, <2>3 DEF CleanOK, Turn
  <1>9. ASSUME NEW t \in Threads, Reader(t) PROVE CleanOK'
    <2>1. thread[t].pc # "none" /\ UNCHANGED <<fsm, cmd, known>>
      BY <1>9 DEF Reader, Begin, Failed, Loop, Read, PublishEvent, At
    <2>2. /\ fsm # "CREATED"
          /\ cmd.op = "DESTROY" => cmd.step \in {"flags", "join"} /\ cmd.todo = known
      BY <2>1 DEF SInv, ThreadsOK, PhaseOK, Busy
    <2> QED
      BY <2>1, <2>2 DEF CleanOK
  <1>10. CASE UNCHANGED vars
    BY <1>10 DEF vars, CleanOK, Clean, Turn
  <1> QED
    BY <1>2, <1>3, <1>4, <1>5, <1>6, <1>7, <1>8, <1>9, <1>10, DropClean
       DEF Next, Handler, CommandStep

-----------------------------------------------------------------------------
(* Both follow, for a server driven as the run controls do.                *)

KInv == SInv /\ RunPhase /\ CleanOK /\ StartedOK

LEMMA PublishFields ==
  ASSUME NEW d \in Difs, NEW o \in LDIF, NEW s, TypeOK, Publish(d, o, s)
  PROVE  /\ \A e \in Difs \ {d} : dif'[e] = dif[e]
         /\ dif'[d].state = s /\ dif'[d].rd = o.rd /\ dif'[d].started = o.started
         /\ dif'[d].running = o.running
  <1>1. LET n == [o EXCEPT !.state = s]
        IN  n.state = s /\ n.rd = o.rd /\ n.started = o.started /\ n.running = o.running
    BY DEF LDIF
  <1> QED
    BY <1>1 DEF Publish, TypeOK

\* DESTROY and INITIALISE find no card STARTED, and no thread.
LEMMA NoneStarted ==
  ASSUME StartedOK, RunPhase, cmd.op \notin {"none", "SET", "START", "STOP"}
  PROVE  \A e \in known : dif[e].state # "STARTED"
  BY DEF StartedOK, RunPhase

LEMMA StepStarted ==
  ASSUME KInv, NEW d \in Difs, CommandStep(d) \/ InfoHandler(d)
  PROVE  StartedOK'
  <1>1. /\ RInv /\ TypeOK /\ dif \in [Difs -> LDIF] /\ known \subseteq Difs
        /\ dif[d] \in LDIF /\ StartedOK /\ RunPhase /\ SInv
    BY DEF KInv, SInv, RInv, TypeOK
  <1>2. cmd.op # "none" =>
          cmd \in [op : Ops, to : FsmStates, todo : SUBSET Difs,
                   step : {"do", "thread", "start", "flags", "join", "flag",
                           "wait", "drop"}]
    BY <1>1 DEF TypeOK, Idle
  <1>3. \A t \in Threads : /\ thread[t].pc = "failed" => ~dif[thread[t].dif].rd
                           /\ thread[t].pc # "none" => thread[t].dif \in known
    BY <1>1 DEF StartedOK, SInv, RInv, OwnedOK
  <1>4. CASE Initialise(d)
    <2>1. PICK s \in {"INIT_RD_FAILED", "INIT_FAILED", "INITIALISED"} :
            Publish(d, [dif[d] EXCEPT !.services = TRUE,
                                      !.rd = s # "INIT_RD_FAILED"], s)
      BY <1>4 DEF Initialise
    <2> DEFINE o == [dif[d] EXCEPT !.services = TRUE, !.rd = s # "INIT_RD_FAILED"]
    <2>2. o \in LDIF /\ o.started = dif[d].started /\ Publish(d, o, s)
      BY <1>1, <2>1 DEF LDIF
    <2> HIDE DEF o
    <2>3. /\ \A e \in Difs \ {d} : dif'[e] = dif[e]
          /\ dif'[d].state = s /\ dif'[d].started = dif[d].started
      BY <1>1, <2>2, PublishFields
    <2>4. \A e \in known : dif'[e].state # "STARTED"
      BY <1>1, <1>4, <2>3, NoneStarted DEF Initialise
    <2>5. \A t \in Threads : thread[t].pc = "none"
      BY <1>1, <1>4 DEF Initialise, SInv, PhaseOK, ThreadsOK, Busy
    <2>6. UNCHANGED <<fsm, known, thread>> /\ cmd'.op = "INITIALISE"
      BY <1>2, <1>4 DEF Initialise, DoneWith
    <2>7. \A e \in known : dif'[e].started = dif[e].started
      BY <1>1, <2>3
    <2> QED
      BY <1>1, <2>4, <2>5, <2>6, <2>7 DEF StartedOK
  <1>5. CASE RegisterDB(d) \/ Configure(d)
    <2>1. PICK s : s # "STARTED" /\ Publish(d, dif[d], s)
      BY <1>5 DEF RegisterDB, Configure
    <2>2. /\ \A e \in Difs \ {d} : dif'[e] = dif[e]
          /\ dif'[d].state = s /\ dif'[d].started = dif[d].started
          /\ dif'[d].rd = dif[d].rd
      BY <1>1, <2>1, PublishFields
    <2>3. cmd'.op = cmd.op /\ cmd'.step = cmd.step /\ cmd'.todo = cmd.todo \ {d}
      BY <1>2, <1>5 DEF RegisterDB, Configure, DoneWith
    <2>4. UNCHANGED <<fsm, known, thread>> /\ cmd.op # "START"
      BY <1>5 DEF RegisterDB, Configure
    <2>5. \A e \in known : /\ dif'[e].started = dif[e].started
                           /\ dif'[e].rd = dif[e].rd
                           /\ dif'[e].state = "STARTED" => e # d /\ dif'[e] = dif[e]
      BY <1>1, <2>1, <2>2
    <2> QED
      BY <1>1, <1>3, <2>3, <2>4, <2>5 DEF StartedOK
  <1>6. CASE StartThread(d)
    <2>1. /\ cmd.op = "START" /\ cmd.step = "thread" /\ Turn(d) /\ cmd'.op = "START"
          /\ cmd'.todo = cmd.todo /\ UNCHANGED <<fsm, known>>
      BY <1>2, <1>6 DEF StartThread
    <2>2. \A e : Turn(e)' => e = d
      BY <1>1, <2>1, TurnUnique DEF Turn
    <2>3. CASE ~NeedsThread(d) /\ UNCHANGED <<dif, thread>>
      BY <1>1, <2>1, <2>2, <2>3 DEF NeedsThread, StartedOK
    <2>4. CASE /\ dif' = [dif EXCEPT ![d].started = TRUE]
               /\ \E t \in Threads :
                    /\ thread[t] = NoThread
                    /\ thread' = [thread EXCEPT ![t] = [pc |-> "begin", dif |-> d]]
      <3>1. PICK t \in Threads :
              /\ thread[t] = NoThread
              /\ thread' = [thread EXCEPT ![t] = [pc |-> "begin", dif |-> d]]
        BY <2>4
      <3>2. /\ thread'[t].pc = "begin" /\ thread'[t].dif = d
            /\ \A s \in Threads \ {t} : thread'[s] = thread[s]
            /\ thread[t].pc = "none"
        BY <1>1, <3>1 DEF TypeOK, NoThread
      <3>3. /\ dif'[d].started /\ dif'[d].rd = dif[d].rd /\ dif'[d].state = dif[d].state
            /\ dif'[d].running = dif[d].running
            /\ \A e \in Difs \ {d} : dif'[e] = dif[e]
        BY <1>1, <2>4 DEF LDIF
      <3>4. \A e \in known : dif'[e].started =>
              \E s \in Threads : thread'[s].pc # "none" /\ thread'[s].dif = e
        <4> SUFFICES ASSUME NEW e \in known, dif'[e].started
                     PROVE  \E s \in Threads : thread'[s].pc # "none" /\ thread'[s].dif = e
          OBVIOUS
        <4>1. CASE e = d
          BY <3>2, <4>1
        <4>2. CASE e # d
          BY <1>1, <3>2, <3>3, <4>2 DEF StartedOK
        <4> QED
          BY <4>1, <4>2
      <3>5. \A e \in known : dif'[e].state = "STARTED" =>
              dif'[e].started /\ dif'[e].running /\ dif'[e].rd
        BY <1>1, <3>3 DEF StartedOK
      <3>6. \A s \in Threads : thread'[s].pc = "failed" => ~dif'[thread'[s].dif].rd
        BY <1>1, <1>3, <3>2, <3>3
      <3> QED
        BY <2>1, <2>2, <3>3, <3>4, <3>5, <3>6 DEF StartedOK
    <2> QED
      BY <1>6, <2>3, <2>4 DEF StartThread
  <1>7. CASE Start(d)
    <2>1. /\ cmd.op = "START" /\ cmd.step = "start" /\ Turn(d) /\ cmd'.op = "START"
          /\ cmd'.step = "thread" /\ UNCHANGED <<fsm, known, thread>>
      BY <1>2, <1>7 DEF Start
    <2>2. d \in known
      BY <1>1, <2>1 DEF RInv, TodoOK, Turn
    <2>3. CASE Publish(d, dif[d], "START_FAILED")
      <3>1. /\ \A e \in Difs \ {d} : dif'[e] = dif[e]
            /\ dif'[d].state = "START_FAILED" /\ dif'[d].started = dif[d].started
            /\ dif'[d].rd = dif[d].rd
        BY <1>1, <2>3, PublishFields
      <3>2. \A e \in known : /\ dif'[e].started = dif[e].started
                             /\ dif'[e].rd = dif[e].rd
                             /\ dif'[e].state = "STARTED" => dif'[e] = dif[e]
        BY <1>1, <3>1
      <3> QED
        BY <1>1, <1>3, <2>1, <3>2 DEF StartedOK
    <2>4. CASE dif[d].rd /\ Publish(d, [dif[d] EXCEPT !.running = TRUE], "STARTED")
      <3> DEFINE o == [dif[d] EXCEPT !.running = TRUE]
      <3>1. o \in LDIF /\ o.running /\ o.rd = dif[d].rd /\ o.started = dif[d].started
        BY <1>1 DEF LDIF
      <3> HIDE DEF o
      <3>2. /\ \A e \in Difs \ {d} : dif'[e] = dif[e]
            /\ dif'[d].started = dif[d].started /\ dif'[d].running
            /\ dif'[d].rd = dif[d].rd
        BY <1>1, <2>4, <3>1, PublishFields DEF o
      <3>3. dif[d].started
        BY <1>1, <2>1, <2>2, <2>4 DEF StartedOK
      <3>4. \A e \in known : /\ dif'[e].started = dif[e].started
                             /\ dif'[e].rd = dif[e].rd
                             /\ e # d => dif'[e] = dif[e]
        BY <1>1, <3>2
      <3>5. \A e \in known : dif'[e].state = "STARTED" =>
              dif'[e].started /\ dif'[e].running /\ dif'[e].rd
        BY <1>1, <2>4, <3>2, <3>3, <3>4 DEF StartedOK
      <3> QED
        BY <1>1, <1>3, <2>1, <3>4, <3>5 DEF StartedOK
    <2> QED
      BY <1>7, <2>3, <2>4 DEF Start
  <1>8. CASE Stop(d)
    <2>1. PICK s \in {"STOP_FAILED", "STOPPED"} : Publish(d, Stopped(dif[d], s), s)
      BY <1>8 DEF Stop
    <2>2. /\ Stopped(dif[d], s) \in LDIF /\ Stopped(dif[d], s).rd = dif[d].rd
          /\ Stopped(dif[d], s).started = dif[d].started
      BY <1>1 DEF Stopped, LDIF
    <2>3. /\ \A e \in Difs \ {d} : dif'[e] = dif[e]
          /\ dif'[d].state = s /\ dif'[d].started = dif[d].started
          /\ dif'[d].rd = dif[d].rd
      BY <1>1, <2>1, <2>2, PublishFields
    <2>4. /\ cmd.op = "STOP" /\ cmd'.op = "STOP" /\ cmd'.todo = cmd.todo \ {d}
          /\ UNCHANGED <<fsm, known, thread>>
      BY <1>2, <1>8 DEF Stop, DoneWith
    <2>5. \A e \in known : /\ dif'[e].started = dif[e].started
                           /\ dif'[e].rd = dif[e].rd
                           /\ dif'[e].state = "STARTED" => e # d /\ dif'[e] = dif[e]
      BY <1>1, <2>1, <2>3
    <2> QED
      BY <1>1, <1>3, <2>4, <2>5 DEF StartedOK
  <1>9. CASE DestroyFlag(d) \/ DestroyWait(d) \/ DestroyDrop(d)
    <2>1. /\ cmd.op = "DESTROY" /\ cmd'.op = "DESTROY" /\ cmd.step \notin {"flags", "join"}
          /\ UNCHANGED <<fsm, known, thread>>
      BY <1>2, <1>9 DEF DestroyFlag, DestroyWait, DestroyDrop
    <2>2. \A t \in Threads : thread[t].pc = "none"
      BY <1>1, <2>1 DEF SInv, ThreadsOK
    <2>3. \A e \in known : dif[e].state # "STARTED" /\ ~dif[e].started
      BY <1>1, <2>1, <2>2, NoneStarted DEF StartedOK
    <2>4. \A e \in known : dif'[e].state # "STARTED" /\ ~dif'[e].started
      <3>1. CASE DestroyFlag(d)
        BY <1>1, <2>3, <3>1 DEF DestroyFlag, ClearFlag, LDIF
      <3>2. CASE DestroyWait(d)
        BY <2>3, <3>2 DEF DestroyWait
      <3>3. CASE DestroyDrop(d)
        <4>1. dif' = [dif EXCEPT ![d] = Dropped(dif[d])]
          BY <3>3 DEF DestroyDrop
        <4>2. LET n == Dropped(dif[d])
              IN  n.started = dif[d].started /\ n.state \in {"CREATED", dif[d].state}
          BY <1>1 DEF Dropped, LDIF
        <4> QED
          BY <1>1, <2>3, <4>1, <4>2
      <3> QED
        BY <1>9, <3>1, <3>2, <3>3
    <2> QED
      BY <2>1, <2>2, <2>4 DEF StartedOK
  <1>10. CASE InfoHandler(d)
    <2>1. dif' = [dif EXCEPT ![d].db = TRUE] /\ UNCHANGED <<fsm, known, thread, cmd>>
      BY <1>10 DEF InfoHandler
    <2>2. \A e \in known : /\ dif'[e].started = dif[e].started
                           /\ dif'[e].rd = dif[e].rd
                           /\ dif'[e].state = dif[e].state
                           /\ dif'[e].running = dif[e].running
      BY <1>1, <2>1 DEF LDIF
    <2> QED
      BY <1>1, <1>3, <2>1, <2>2 DEF StartedOK, Turn
  <1> QED
    BY <1>4, <1>5, <1>6, <1>7, <1>8, <1>9, <1>10 DEF CommandStep

LEMMA ReaderStarted ==
  ASSUME KInv, NEW t \in Threads, Reader(t)
  PROVE  StartedOK'
  <1> DEFINE d == thread[t].dif
  <1>1. /\ RInv /\ TypeOK /\ dif \in [Difs -> LDIF] /\ known \subseteq Difs
        /\ StartedOK /\ SInv
    BY DEF KInv, SInv, RInv, TypeOK
  <1>2. thread[t].pc # "none" /\ UNCHANGED <<fsm, cmd, known>>
    BY DEF Reader, Begin, Failed, Loop, Read, PublishEvent, At
  <1>3. d \in known /\ d \in Difs /\ dif[d] \in LDIF
    BY <1>1, <1>2 DEF SInv, RInv, OwnedOK
  <1>4. \A s \in Threads : /\ thread[s].pc = "failed" => ~dif[thread[s].dif].rd
                           /\ thread[s].pc # "none" => thread[s].dif \in known
                           /\ s # t /\ thread[s].pc # "none" => thread[s].dif # d
    BY <1>1, <1>2 DEF StartedOK, SInv, RInv, OwnedOK, SingleOK
  <1>5. ASSUME NEW pc, pc # "none", GoTo(t, pc), pc = "failed" => ~dif[d].rd,
               \A e \in known : /\ dif'[e].started = dif[e].started
                                /\ dif'[e].rd = dif[e].rd
                                /\ dif'[e].state = "STARTED" =>
                                     dif[e].state = "STARTED" /\ dif'[e].running = dif[e].running
        PROVE  StartedOK'
    <2>1. /\ \A s \in Threads \ {t} : thread'[s] = thread[s]
          /\ thread'[t].pc = pc /\ thread'[t].dif = d
      BY <1>1, <1>5 DEF GoTo, TypeOK
    <2>2. \A e \in known : dif'[e].started =>
            \E s \in Threads : thread'[s].pc # "none" /\ thread'[s].dif = e
      <3> SUFFICES ASSUME NEW e \in known, dif'[e].started
                   PROVE  \E s \in Threads : thread'[s].pc # "none" /\ thread'[s].dif = e
        OBVIOUS
      <3>1. PICK s \in Threads : thread[s].pc # "none" /\ thread[s].dif = e
        BY <1>1, <1>5 DEF StartedOK
      <3> QED
        BY <1>5, <2>1, <3>1
    <2>3. \A s \in Threads : thread'[s].pc = "failed" => ~dif'[thread'[s].dif].rd
      BY <1>3, <1>4, <1>5, <2>1
    <2> QED
      BY <1>1, <1>2, <1>5, <2>2, <2>3 DEF StartedOK, Turn
  <1>6. ASSUME Exit(t), ~dif'[d].started, dif'[d].state # "STARTED",
               \A e \in Difs \ {d} : dif'[e] = dif[e], dif'[d].rd = dif[d].rd,
               ~dif[d].started \/ ~dif[d].rd
        PROVE  StartedOK'
    <2>1. /\ \A s \in Threads \ {t} : thread'[s] = thread[s]
          /\ thread'[t].pc = "none"
      BY <1>1, <1>6 DEF Exit, TypeOK, NoThread
    <2>2. \A e \in known : dif'[e].started =>
            \E s \in Threads : thread'[s].pc # "none" /\ thread'[s].dif = e
      <3> SUFFICES ASSUME NEW e \in known, dif'[e].started
                   PROVE  \E s \in Threads : thread'[s].pc # "none" /\ thread'[s].dif = e
        OBVIOUS
      <3>1. e # d /\ dif[e].started
        BY <1>1, <1>6
      <3>2. PICK s \in Threads : thread[s].pc # "none" /\ thread[s].dif = e
        BY <1>1, <3>1 DEF StartedOK
      <3> QED
        BY <2>1, <3>1, <3>2
    <2>3. \A s \in Threads : thread'[s].pc = "failed" => ~dif'[thread'[s].dif].rd
      BY <1>1, <1>4, <1>6, <2>1
    <2>4. \A e \in known : /\ dif'[e].rd = dif[e].rd
                           /\ dif'[e].state = "STARTED" => e # d /\ dif'[e] = dif[e]
                           /\ e # d => dif'[e] = dif[e]
      BY <1>1, <1>6
    <2>5. \A e \in known : cmd.op = "START" /\ cmd.step = "start" /\ Turn(e)' /\ dif'[e].rd
            => dif'[e].started
      <3> SUFFICES ASSUME NEW e \in known, cmd.op = "START", cmd.step = "start", Turn(e),
                          dif'[e].rd
                   PROVE  dif'[e].started
        BY <1>2 DEF Turn
      <3>1. dif[e].started /\ dif[e].rd
        BY <1>1, <2>4 DEF StartedOK
      <3> QED
        BY <1>6, <2>4, <3>1
    <2> QED
      BY <1>1, <1>2, <2>2, <2>3, <2>4, <2>5 DEF StartedOK
  <1>7. CASE Begin(t)
    <2>1. CASE dif[d].rd
      <3>1. dif' = [dif EXCEPT ![d].completed = FALSE] /\ GoTo(t, "loop")
        BY <1>7, <2>1 DEF Begin
      <3>2. \A e \in known : /\ dif'[e].started = dif[e].started
                             /\ dif'[e].rd = dif[e].rd
                             /\ dif'[e].state = dif[e].state
                             /\ dif'[e].running = dif[e].running
        BY <1>1, <1>3, <3>1 DEF LDIF
      <3> QED
        BY <1>5, <3>1, <3>2
    <2>2. CASE ~dif[d].rd
      <3>1. Publish(d, dif[d], "READOUT_FAILED") /\ GoTo(t, "failed")
        BY <1>7, <2>2 DEF Begin
      <3>2. \A e \in known : /\ dif'[e].started = dif[e].started
                             /\ dif'[e].rd = dif[e].rd
                             /\ dif'[e].running = dif[e].running
                             /\ dif'[e].state = "STARTED" => dif[e].state = "STARTED"
        BY <1>1, <1>3, <3>1, PublishFields
      <3> QED
        BY <1>5, <2>2, <3>1, <3>2
    <2> QED
      BY <2>1, <2>2
  <1>8. CASE Failed(t)
    <2>1. /\ dif' = [dif EXCEPT ![d].started = FALSE] /\ Exit(t) /\ thread[t].pc = "failed"
      BY <1>8 DEF Failed, At
    <2>2. ~dif[d].rd /\ dif[d].state # "STARTED"
      BY <1>1, <1>3, <2>1 DEF StartedOK
    <2>3. /\ ~dif'[d].started /\ dif'[d].state = dif[d].state /\ dif'[d].rd = dif[d].rd
          /\ \A e \in Difs \ {d} : dif'[e] = dif[e]
      BY <1>1, <1>3, <2>1 DEF LDIF
    <2> QED
      BY <1>6, <2>1, <2>2, <2>3
  <1>9. CASE Loop(t)
    <2>1. CASE /\ Leaves(d) /\ dif' = [dif EXCEPT ![d].completed = TRUE] /\ Exit(t)
      <3>1. ~dif[d].started /\ dif[d].state # "STARTED"
        BY <1>1, <1>3, <2>1 DEF StartedOK, Leaves
      <3>2. /\ ~dif'[d].started /\ dif'[d].state = dif[d].state /\ dif'[d].rd = dif[d].rd
            /\ \A e \in Difs \ {d} : dif'[e] = dif[e]
        BY <1>1, <1>3, <2>1, <3>1 DEF LDIF
      <3> QED
        BY <1>6, <2>1, <3>1, <3>2
    <2>2. CASE GoTo(t, "read") /\ UNCHANGED dif
      BY <1>5, <2>2
    <2> QED
      BY <1>9, <2>1, <2>2 DEF Loop
  <1>10. CASE Read(t)
    <2>1. PICK pc \in {"loop", "publish"} : GoTo(t, pc)
      BY <1>10 DEF Read
    <2>2. dif' = dif
      BY <1>10 DEF Read
    <2> QED
      BY <1>5, <2>1, <2>2
  <1>11. CASE PublishEvent(t)
    <2>1. GoTo(t, "loop") /\ dif' = dif
      BY <1>11 DEF PublishEvent
    <2> QED
      BY <1>5, <2>1
  <1> QED
    BY <1>7, <1>8, <1>9, <1>10, <1>11 DEF Reader

LEMMA KInvNext == ASSUME RunControlDriven, KInv, [Next]_vars PROVE KInv'
  <1>1. SInv' /\ RunPhase' /\ CleanOK'
    BY SInvNext, RunPhaseStep, CleanStep DEF KInv, SInv
  <1>2. RInv /\ TypeOK /\ StartedOK /\ RunPhase
    BY DEF KInv, SInv, RInv
  <1>3. CASE Command \/ WebCommand
    <2>1. PICK op, to : Accept(op, to, 0)
      BY <1>3 DEF Command, WebCommand, RunControlDriven
    <2>2. /\ cmd.op = "none" /\ cmd'.step # "start" /\ cmd'.todo = known
          /\ UNCHANGED <<fsm, known, dif, thread>>
      BY <2>1 DEF Accept, Idle, FirstStep
    <2> QED
      BY <1>1, <1>2, <2>2 DEF KInv, StartedOK
  <1>4. CASE Reply
    <2>1. /\ cmd' = Idle /\ cmd.op # "none" /\ cmd.todo = {} /\ fsm' = cmd.to
          /\ UNCHANGED <<known, dif, thread>>
      BY <1>4 DEF Reply
    <2>2. \A e \in known : dif[e].state = "STARTED" => fsm' = "RUNNING"
      BY <1>2, <2>1 DEF StartedOK, RunPhase, RInv, CommandOK
    <2> QED
      BY <1>1, <1>2, <2>1, <2>2 DEF KInv, StartedOK, Idle
  <1>5. CASE Scan
    <2>1. fsm = "CREATED" /\ cmd' = Idle /\ thread' = thread /\ known' \subseteq Difs
      BY <1>5 DEF Scan, Idle
    <2>2. \A t \in Threads : thread[t].pc = "none"
      BY <2>1 DEF KInv, SInv, ThreadsOK, Busy
    <2>3. PICK garbage \in [Difs -> BOOLEAN] : dif' = [d \in Difs |-> NewLDIF(garbage[d])]
      BY <1>5 DEF Scan
    <2>4. \A e \in known' : ~dif'[e].started /\ dif'[e].state # "STARTED"
      BY <2>1, <2>3 DEF NewLDIF
    <2> QED
      BY <1>1, <2>1, <2>2, <2>4 DEF KInv, StartedOK, Idle
  <1>6. CASE ClearFlags \/ JoinThreads
    <2>1. cmd.op = "DESTROY" /\ UNCHANGED <<fsm, known, thread>>
      BY <1>6 DEF ClearFlags, JoinThreads
    <2>2. cmd'.op = "DESTROY"
      BY <1>2, <1>6 DEF ClearFlags, JoinThreads, TypeOK, Idle
    <2>3. \A e \in known : dif[e].state # "STARTED"
      BY <1>2, <2>1, NoneStarted
    <2>4. \A e \in Difs : /\ dif'[e].rd = dif[e].rd /\ dif'[e].state = dif[e].state
                          /\ dif'[e].started => dif[e].started
      BY <1>2, <1>6 DEF ClearFlags, JoinThreads, ClearFlag, TypeOK, LDIF
    <2>5. \A t \in Threads : thread[t].pc # "none" => thread[t].dif \in Difs
      BY <1>2 DEF KInv, SInv, RInv, OwnedOK, TypeOK
    <2> QED
      BY <1>1, <1>2, <2>1, <2>2, <2>3, <2>4, <2>5 DEF KInv, StartedOK, TypeOK
  <1>7. CASE UNCHANGED vars
    BY <1>1, <1>2, <1>7 DEF vars, KInv, StartedOK, Turn
  <1> QED
    BY <1>1, <1>3, <1>4, <1>5, <1>6, <1>7, StepStarted, ReaderStarted DEF KInv, Next, Handler

LEMMA KInvInit == Init => KInv
  <1> SUFFICES ASSUME Init PROVE KInv
    OBVIOUS
  <1>1. \A t \in Threads : thread[t].pc = "none"
    BY DEF Init, NoThread
  <1>2. known = {} /\ cmd.op = "none" /\ cmd.to = "none"
    BY DEF Init, Idle
  <1> QED
    BY <1>1, <1>2, SInvInit DEF KInv, RunPhase, CleanOK, StartedOK

\* Driven as the run controls drive it, a DESTROY leaves no card, no service,
\* no raised flag and no thread behind, whatever had failed before, so that
\* the next SCAN deletes nothing in use (LDIFServer::destroy, LDIF::destroy).
THEOREM DestroyLeavesNothing == ASSUME RunControlDriven PROVE Spec => []DestroyClean
  <1>1. KInv => DestroyClean
    <2> SUFFICES ASSUME KInv, fsm = "CREATED" PROVE
                   /\ \A d \in known : Clean(d)
                   /\ \A t \in Threads : thread[t].pc = "none"
      BY DEF DestroyClean, Clean, ThreadOf
    <2> QED
      BY DEF KInv, CleanOK, SInv, ThreadsOK, Busy
  <1>2. KInv /\ [Next]_vars => KInv'
    BY KInvNext
  <1> QED
    BY <1>1, <1>2, KInvInit, PTL DEF Spec

\* Driven as the run controls drive it, a card that says STARTED is read by a
\* thread, in the tenth run as in the first (startDIFThread, LDIF::start).
THEOREM StartedHasReader == ASSUME RunControlDriven PROVE Spec => []StartedIsRead
  <1>1. KInv => StartedIsRead
    BY DEF KInv, StartedOK, StartedIsRead, ThreadOf
  <1>2. KInv /\ [Next]_vars => KInv'
    BY KInvNext
  <1> QED
    BY <1>1, <1>2, KInvInit, PTL DEF Spec

-----------------------------------------------------------------------------
(* What more the contract with the run controls (DifHost) rests on.        *)

\* What is open and read at all, and what START and STOP have done with the
\* cards they have already handled.
CardsOK == \A d \in Difs \ known : ~dif[d].rd /\ ~dif[d].running

ServedOK ==
  cmd.op = "START" => \A d \in known \ cmd.todo : dif[d].rd => dif[d].started

PolledOK ==
  /\ cmd.op = "STOP" => \A d \in known \ cmd.todo : ~dif[d].running
  /\ \A t \in Threads : thread[t].pc # "none" /\ dif[thread[t].dif].running =>
       fsm = "RUNNING" \/ cmd.op = "START"

\* A command in progress leads where the table says.
LeadsOK == cmd.op \notin {"none", "SET"} => <<cmd.op, fsm, cmd.to>> \in Transitions

HInv == KInv /\ CardsOK /\ ServedOK /\ PolledOK /\ LeadsOK

\* What a step of a handler changes of its card, as far as a reader sees it.
LEMMA StepFields ==
  ASSUME TypeOK, NEW d \in Difs, CommandStep(d) \/ InfoHandler(d)
  PROVE  /\ \A e \in Difs \ {d} : dif'[e] = dif[e]
         /\ UNCHANGED <<fsm, known>> /\ cmd'.op = cmd.op /\ cmd'.to = cmd.to
         /\ ~StartThread(d) => thread' = thread
         /\ cmd'.todo \in {cmd.todo, cmd.todo \ {d}}
         /\ ~(Start(d) \/ Stop(d)) => dif'[d].running = dif[d].running
         /\ ~(Initialise(d) \/ DestroyDrop(d)) => dif'[d].rd = dif[d].rd
         /\ ~(StartThread(d) \/ DestroyFlag(d)) => dif'[d].started = dif[d].started
         /\ Start(d) => dif'[d].running = dif[d].running \/ (dif[d].rd /\ dif'[d].running)
         /\ Start(d) \/ Stop(d) => cmd'.todo = cmd.todo \ {d}
         /\ StartThread(d) => cmd'.todo = cmd.todo /\ dif'[d].started
         /\ Stop(d) => ~dif'[d].running
         /\ DestroyDrop(d) => ~dif'[d].rd
  <1>1. dif \in [Difs -> LDIF] /\ dif[d] \in LDIF
    BY DEF TypeOK
  <1>2. cmd.op # "none" =>
          cmd \in [op : Ops, to : FsmStates, todo : SUBSET Difs,
                   step : {"do", "thread", "start", "flags", "join", "flag",
                           "wait", "drop"}]
    BY DEF TypeOK, Idle
  <1>3. CASE Initialise(d)
    <2>1. PICK s \in {"INIT_RD_FAILED", "INIT_FAILED", "INITIALISED"} :
            Publish(d, [dif[d] EXCEPT !.services = TRUE,
                                      !.rd = s # "INIT_RD_FAILED"], s)
      BY <1>3 DEF Initialise
    <2> DEFINE o == [dif[d] EXCEPT !.services = TRUE, !.rd = s # "INIT_RD_FAILED"]
    <2>2. /\ o \in LDIF /\ o.started = dif[d].started /\ o.running = dif[d].running
          /\ Publish(d, o, s)
      BY <1>1, <2>1 DEF LDIF
    <2> HIDE DEF o
    <2>3. /\ cmd.op = "INITIALISE" /\ UNCHANGED <<fsm, known, thread>>
          /\ cmd'.op = cmd.op /\ cmd'.to = cmd.to /\ cmd'.todo = cmd.todo \ {d}
      BY <1>2, <1>3 DEF Initialise, DoneWith
    <2> QED
      BY <1>3, <2>2, <2>3, PublishFields DEF Start, Stop, StartThread, DestroyDrop
  <1>4. CASE RegisterDB(d) \/ Configure(d)
    <2>1. PICK s : Publish(d, dif[d], s)
      BY <1>4 DEF RegisterDB, Configure
    <2>2. /\ cmd.op \in {"REGISTERDB", "CONFIGURE", "SET"} /\ UNCHANGED <<fsm, known, thread>>
          /\ cmd'.op = cmd.op /\ cmd'.to = cmd.to /\ cmd'.todo = cmd.todo \ {d}
      BY <1>2, <1>4 DEF RegisterDB, Configure, DoneWith
    <2> QED
      BY <1>1, <2>1, <2>2, PublishFields DEF Start, Stop, StartThread, DestroyDrop
  <1>5. CASE StartThread(d)
    <2>1. /\ cmd.op = "START" /\ cmd.step = "thread" /\ UNCHANGED <<fsm, known>>
          /\ cmd'.op = cmd.op /\ cmd'.to = cmd.to /\ cmd'.todo = cmd.todo
      BY <1>2, <1>5 DEF StartThread
    <2>2. \/ dif' = dif /\ dif[d].started
          \/ dif' = [dif EXCEPT ![d].started = TRUE]
      BY <1>5 DEF StartThread, NeedsThread
    <2>3. /\ \A e \in Difs \ {d} : dif'[e] = dif[e]
          /\ dif'[d].started /\ dif'[d].rd = dif[d].rd /\ dif'[d].running = dif[d].running
      BY <1>1, <2>2 DEF LDIF
    <2> QED
      BY <1>5, <2>1, <2>3 DEF Start, Stop, DestroyDrop
  <1>6. CASE Start(d)
    <2>1. /\ cmd.op = "START" /\ cmd.step = "start" /\ UNCHANGED <<fsm, known, thread>>
          /\ cmd'.op = cmd.op /\ cmd'.to = cmd.to /\ cmd'.todo = cmd.todo \ {d}
      BY <1>2, <1>6 DEF Start
    <2>2. CASE Publish(d, dif[d], "START_FAILED")
      BY <1>1, <1>6, <2>1, <2>2, PublishFields DEF Stop, StartThread, DestroyDrop
    <2>3. CASE dif[d].rd /\ Publish(d, [dif[d] EXCEPT !.running = TRUE], "STARTED")
      <3> DEFINE o == [dif[d] EXCEPT !.running = TRUE]
      <3>1. /\ o \in LDIF /\ o.running /\ o.rd = dif[d].rd /\ o.started = dif[d].started
            /\ Publish(d, o, "STARTED")
        BY <1>1, <2>3 DEF LDIF
      <3> HIDE DEF o
      <3> QED
        BY <1>1, <1>6, <2>1, <2>3, <3>1, PublishFields DEF Stop, StartThread, DestroyDrop
    <2> QED
      BY <1>6, <2>2, <2>3 DEF Start
  <1>7. CASE Stop(d)
    <2>1. PICK s \in {"STOP_FAILED", "STOPPED"} : Publish(d, Stopped(dif[d], s), s)
      BY <1>7 DEF Stop
    <2>2. /\ Stopped(dif[d], s) \in LDIF /\ Stopped(dif[d], s).rd = dif[d].rd
          /\ Stopped(dif[d], s).started = dif[d].started /\ ~Stopped(dif[d], s).running
      BY <1>1 DEF Stopped, LDIF
    <2>3. /\ cmd.op = "STOP" /\ UNCHANGED <<fsm, known, thread>>
          /\ cmd'.op = cmd.op /\ cmd'.to = cmd.to /\ cmd'.todo = cmd.todo \ {d}
      BY <1>2, <1>7 DEF Stop, DoneWith
    <2> QED
      BY <1>1, <1>7, <2>1, <2>2, <2>3, PublishFields DEF Start, StartThread, DestroyDrop
  <1>8. CASE DestroyFlag(d) \/ DestroyWait(d) \/ DestroyDrop(d)
    <2>1. /\ cmd.op = "DESTROY" /\ UNCHANGED <<fsm, known, thread>>
          /\ cmd'.op = cmd.op /\ cmd'.to = cmd.to
          /\ cmd'.todo \in {cmd.todo, cmd.todo \ {d}}
      BY <1>2, <1>8 DEF DestroyFlag, DestroyWait, DestroyDrop
    <2>2. CASE DestroyFlag(d)
      <3>1. dif' = [dif EXCEPT ![d] = ClearFlag(dif[d])]
        BY <2>2 DEF DestroyFlag
      <3>2. ClearFlag(dif[d]).rd = dif[d].rd /\ ClearFlag(dif[d]).running = dif[d].running
        BY <1>1 DEF ClearFlag, LDIF
      <3>3. ~DestroyDrop(d)
        BY <2>2 DEF DestroyFlag, DestroyDrop
      <3> QED
        BY <1>1, <2>1, <2>2, <3>1, <3>2, <3>3 DEF Start, Stop, StartThread, Initialise
    <2>3. CASE DestroyWait(d)
      BY <1>1, <2>1, <2>3 DEF DestroyWait, Start, Stop, StartThread, DestroyDrop
    <2>4. CASE DestroyDrop(d)
      <3>1. dif' = [dif EXCEPT ![d] = Dropped(dif[d])]
        BY <2>4 DEF DestroyDrop
      <3>2. /\ ~Dropped(dif[d]).rd /\ Dropped(dif[d]).running = dif[d].running
            /\ Dropped(dif[d]).started = dif[d].started
        BY <1>1 DEF Dropped, LDIF
      <3> QED
        BY <1>1, <2>1, <2>4, <3>1, <3>2 DEF Start, Stop, StartThread
    <2> QED
      BY <1>8, <2>2, <2>3, <2>4
  <1>9. CASE InfoHandler(d) /\ ~CommandStep(d)
    <2>1. dif' = [dif EXCEPT ![d].db = TRUE] /\ UNCHANGED <<fsm, known, thread, cmd>>
      BY <1>9 DEF InfoHandler
    <2>2. /\ \A e \in Difs \ {d} : dif'[e] = dif[e]
          /\ dif'[d].started = dif[d].started /\ dif'[d].rd = dif[d].rd
          /\ dif'[d].running = dif[d].running
      BY <1>1, <2>1 DEF LDIF
    <2> QED
      BY <1>9, <2>1, <2>2 DEF CommandStep
  <1> QED
    BY <1>3, <1>4, <1>5, <1>6, <1>7, <1>8, <1>9 DEF CommandStep

\* What a step of a reader changes, as far as the commands see it.
LEMMA ReaderFields ==
  ASSUME RInv, up, NEW t \in Threads, Reader(t)
  PROVE  /\ UNCHANGED <<fsm, cmd, known>>
         /\ thread[t].pc # "none" /\ thread[t].dif \in known /\ thread[t].dif \in Difs
         /\ \A e \in Difs : dif'[e].rd = dif[e].rd /\ dif'[e].running = dif[e].running
         /\ \A e \in Difs : dif'[e].started = dif[e].started
                            \/ (e = thread[t].dif /\ thread[t].pc = "failed")
         /\ \A s \in Threads \ {t} : thread'[s] = thread[s]
         /\ \/ Exit(t) /\ thread[t].pc \in {"failed", "loop"}
            \/ /\ thread'[t].dif = thread[t].dif
               /\ \/ thread[t].pc = "begin" /\ thread'[t].pc \in {"loop", "failed"}
                  \/ /\ thread[t].pc = "loop" /\ thread'[t].pc = "read"
                     /\ dif[thread[t].dif].running
                  \/ thread[t].pc = "read" /\ thread'[t].pc \in {"loop", "publish"}
                  \/ thread[t].pc = "publish" /\ thread'[t].pc = "loop"
         /\ Exit(t) /\ thread[t].pc = "loop" => ~dif[thread[t].dif].started
  <1> DEFINE d == thread[t].dif
  <1>1. /\ dif \in [Difs -> LDIF] /\ known \subseteq Difs
        /\ thread \in [Threads -> [pc : {"none", "begin", "failed", "loop", "read",
                                         "publish"},
                                   dif : Difs \cup {0}]]
    BY DEF RInv, TypeOK
  <1>2. thread[t].pc # "none"
    BY DEF Reader, Begin, Failed, Loop, Read, PublishEvent, At
  <1>3. d \in known /\ d \in Difs /\ dif[d] \in LDIF
    BY <1>1, <1>2 DEF RInv, OwnedOK
  <1>4. UNCHANGED <<fsm, cmd, known>>
    BY DEF Reader, Begin, Failed, Loop, Read, PublishEvent
  <1>5. ASSUME NEW pc \in {"loop", "failed", "read", "publish"}, GoTo(t, pc)
        PROVE  /\ \A s \in Threads \ {t} : thread'[s] = thread[s]
               /\ thread'[t].dif = d /\ thread'[t].pc = pc
    BY <1>1, <1>5 DEF GoTo
  <1>6. ASSUME Exit(t)
        PROVE  \A s \in Threads \ {t} : thread'[s] = thread[s]
    BY <1>1, <1>6 DEF Exit
  <1>7. ASSUME NEW pc \in {"loop", "failed", "read", "publish"}, GoTo(t, pc), Exit(t)
        PROVE  FALSE
    BY <1>1, <1>7 DEF GoTo, Exit, NoThread
  <1>8. CASE Begin(t)
    <2>1. thread[t].pc = "begin"
      BY <1>8 DEF Begin, At
    <2>2. CASE dif' = [dif EXCEPT ![d].completed = FALSE] /\ GoTo(t, "loop")
      <3>1. \A e \in Difs : dif'[e].rd = dif[e].rd /\ dif'[e].running = dif[e].running
                            /\ dif'[e].started = dif[e].started
        BY <1>1, <1>3, <2>2 DEF LDIF
      <3> QED
        BY <1>3, <1>4, <1>5, <1>7, <2>1, <2>2, <3>1
    <2>3. CASE Publish(d, dif[d], "READOUT_FAILED") /\ GoTo(t, "failed")
      <3>1. \A e \in Difs : dif'[e].rd = dif[e].rd /\ dif'[e].running = dif[e].running
                            /\ dif'[e].started = dif[e].started
        BY <1>3, <2>3, PublishFields DEF RInv
      <3> QED
        BY <1>3, <1>4, <1>5, <1>7, <2>1, <2>3, <3>1
    <2> QED
      BY <1>8, <2>2, <2>3 DEF Begin
  <1>9. CASE Failed(t)
    <2>1. thread[t].pc = "failed" /\ dif' = [dif EXCEPT ![d].started = FALSE] /\ Exit(t)
      BY <1>9 DEF Failed, At
    <2>2. /\ \A e \in Difs : dif'[e].rd = dif[e].rd /\ dif'[e].running = dif[e].running
          /\ \A e \in Difs \ {d} : dif'[e].started = dif[e].started
      BY <1>1, <1>3, <2>1 DEF LDIF
    <2> QED
      BY <1>3, <1>4, <1>6, <2>1, <2>2
  <1>10. CASE Loop(t)
    <2>1. thread[t].pc = "loop"
      BY <1>10 DEF Loop, At
    <2>2. CASE Leaves(d) /\ dif' = [dif EXCEPT ![d].completed = TRUE] /\ Exit(t)
      <3>1. \A e \in Difs : dif'[e].rd = dif[e].rd /\ dif'[e].running = dif[e].running
                            /\ dif'[e].started = dif[e].started
        BY <1>1, <1>3, <2>2 DEF LDIF
      <3> QED
        BY <1>3, <1>4, <1>6, <2>1, <2>2, <3>1 DEF Leaves
    <2>3. CASE dif[d].running /\ GoTo(t, "read") /\ UNCHANGED dif
      BY <1>3, <1>4, <1>5, <1>7, <2>1, <2>3
    <2> QED
      BY <1>10, <2>2, <2>3 DEF Loop
  <1>11. CASE Read(t)
    <2>1. thread[t].pc = "read" /\ dif' = dif
      BY <1>11 DEF Read, At
    <2>2. PICK pc \in {"loop", "publish"} : GoTo(t, pc)
      BY <1>11 DEF Read
    <2> QED
      BY <1>3, <1>4, <1>5, <1>7, <2>1, <2>2
  <1>12. CASE PublishEvent(t)
    <2>1. thread[t].pc = "publish" /\ dif' = dif /\ GoTo(t, "loop")
      BY <1>12 DEF PublishEvent, At
    <2> QED
      BY <1>3, <1>4, <1>5, <1>7, <2>1
  <1> QED
    BY <1>8, <1>9, <1>10, <1>11, <1>12 DEF Reader

LEMMA HInvInit == Init => HInv
  <1> SUFFICES ASSUME Init PROVE HInv
    OBVIOUS
  <1>1. /\ \A d \in Difs : ~dif[d].rd /\ ~dif[d].running
        /\ \A t \in Threads : thread[t].pc = "none" /\ cmd.op = "none"
        /\ cmd.op = "none"
    BY DEF Init, NoThread, NewLDIF, Idle
  <1> QED
    BY <1>1, KInvInit DEF HInv, CardsOK, ServedOK, PolledOK, LeadsOK

\* The steps of a handler on one card and the arrival of a record.
LEMMA StepHInv ==
  ASSUME HInv, KInv', NEW d \in Difs, CommandStep(d) \/ InfoHandler(d)
  PROVE  HInv'
  <1>1. /\ TypeOK /\ RInv /\ StartedOK /\ known \subseteq Difs /\ TypeOK'
        /\ CardsOK /\ ServedOK /\ PolledOK /\ LeadsOK
    BY DEF HInv, KInv, SInv, RInv, TypeOK
  <1>2. /\ \A e \in Difs \ {d} : dif'[e] = dif[e]
        /\ UNCHANGED <<fsm, known>> /\ cmd'.op = cmd.op /\ cmd'.to = cmd.to
        /\ ~StartThread(d) => thread' = thread
        /\ cmd'.todo \in {cmd.todo, cmd.todo \ {d}}
        /\ ~(Start(d) \/ Stop(d)) => dif'[d].running = dif[d].running
        /\ ~(Initialise(d) \/ DestroyDrop(d)) => dif'[d].rd = dif[d].rd
        /\ ~(StartThread(d) \/ DestroyFlag(d)) => dif'[d].started = dif[d].started
        /\ Start(d) => dif'[d].running = dif[d].running \/ (dif[d].rd /\ dif'[d].running)
        /\ Start(d) \/ Stop(d) => cmd'.todo = cmd.todo \ {d}
        /\ StartThread(d) => cmd'.todo = cmd.todo /\ dif'[d].started
        /\ Stop(d) => ~dif'[d].running
        /\ DestroyDrop(d) => ~dif'[d].rd
    BY <1>1, StepFields
  <1>3. CommandStep(d) => d \in known /\ d \in cmd.todo
    BY <1>1 DEF RInv, TodoOK, Turn, CommandStep, Initialise, RegisterDB, Configure,
         StartThread, Start, Stop, DestroyFlag, DestroyWait, DestroyDrop
  <1>4. /\ Start(d) => cmd.op = "START" /\ cmd.step = "start" /\ Turn(d)
        /\ StartThread(d) => cmd.op = "START"
        /\ Stop(d) => cmd.op = "STOP"
        /\ Initialise(d) => cmd.op = "INITIALISE"
        /\ DestroyDrop(d) \/ DestroyFlag(d) => cmd.op = "DESTROY"
        /\ cmd.op = "START" /\ CommandStep(d) => StartThread(d) \/ Start(d)
        /\ cmd.op = "STOP" /\ CommandStep(d) => Stop(d)
    BY DEF CommandStep, Initialise, RegisterDB, Configure, StartThread, Start, Stop,
         DestroyFlag, DestroyWait, DestroyDrop
  <1>5. ~CommandStep(d) => cmd' = cmd
    BY DEF InfoHandler
  <1>6. CardsOK'
    <2> SUFFICES ASSUME NEW e \in Difs \ known PROVE ~dif'[e].rd /\ ~dif'[e].running
      BY <1>2 DEF CardsOK
    <2>1. ~dif[e].rd /\ ~dif[e].running
      BY <1>1 DEF CardsOK
    <2>2. CASE e # d
      BY <1>2, <2>1, <2>2
    <2>3. CASE e = d
      BY <1>2, <1>3, <2>1, <2>3 DEF CommandStep
    <2> QED
      BY <2>2, <2>3
  <1>7. ServedOK'
    <2> SUFFICES ASSUME cmd.op = "START", NEW e \in known, e \notin cmd'.todo, dif'[e].rd
                 PROVE  dif'[e].started
      BY <1>2 DEF ServedOK
    <2>1. e \in Difs
      BY <1>1
    <2>2. CASE e # d
      BY <1>1, <1>2, <2>1, <2>2 DEF ServedOK
    <2>3. CASE e = d
      <3>1. dif'[d].rd = dif[d].rd /\ (dif[d].started => dif'[d].started)
        BY <1>2, <1>4
      <3>2. CASE Start(d)
        BY <1>1, <1>4, <2>3, <3>1, <3>2 DEF StartedOK
      <3>3. CASE StartThread(d)
        BY <1>2, <2>3, <3>3
      <3>4. CASE ~CommandStep(d)
        BY <1>1, <1>5, <2>3, <3>1, <3>4 DEF ServedOK
      <3> QED
        BY <1>4, <3>2, <3>3, <3>4
    <2> QED
      BY <2>2, <2>3
  <1>8. PolledOK'
    <2>1. ASSUME cmd.op = "STOP", NEW e \in known, e \notin cmd'.todo
          PROVE  ~dif'[e].running
      <3>1. e \in Difs
        BY <1>1
      <3>2. CASE e # d
        BY <1>1, <1>2, <2>1, <3>1, <3>2 DEF PolledOK
      <3>3. CASE e = d /\ CommandStep(d)
        BY <1>2, <1>4, <2>1, <3>3
      <3>4. CASE e = d /\ ~CommandStep(d)
        <4>1. dif'[d].running = dif[d].running
          BY <1>2, <3>4 DEF CommandStep
        <4> QED
          BY <1>1, <1>5, <2>1, <3>4, <4>1 DEF PolledOK
      <3> QED
        BY <3>2, <3>3, <3>4
    <2>2. ASSUME NEW t \in Threads, thread'[t].pc # "none", dif'[thread'[t].dif].running,
                 cmd.op # "START"
          PROVE  fsm = "RUNNING"
      <3>1. thread' = thread /\ ~Start(d)
        BY <1>2, <1>4, <2>2
      <3>2. thread[t].dif \in Difs
        BY <1>1, <2>2, <3>1 DEF HInv, KInv, SInv, RInv, OwnedOK
      <3>3. dif[thread[t].dif].running
        BY <1>2, <2>2, <3>1, <3>2
      <3> QED
        BY <1>1, <2>2, <3>1, <3>3 DEF PolledOK
    <2> QED
      BY <1>2, <2>1, <2>2 DEF PolledOK
  <1>9. LeadsOK'
    BY <1>1, <1>2 DEF LeadsOK
  <1> QED
    BY <1>6, <1>7, <1>8, <1>9 DEF HInv

LEMMA ReaderHInv ==
  ASSUME HInv, KInv', NEW t \in Threads, Reader(t)
  PROVE  HInv'
  <1>1. /\ RInv /\ up /\ known \subseteq Difs /\ StartedOK
        /\ CardsOK /\ ServedOK /\ PolledOK /\ LeadsOK
        /\ thread \in [Threads -> [pc : {"none", "begin", "failed", "loop", "read",
                                         "publish"}, dif : Difs \cup {0}]]
    BY DEF HInv, KInv, SInv, RInv, TypeOK
  <1>2. /\ UNCHANGED <<fsm, cmd, known>>
        /\ thread[t].pc # "none" /\ thread[t].dif \in known /\ thread[t].dif \in Difs
        /\ \A e \in Difs : dif'[e].rd = dif[e].rd /\ dif'[e].running = dif[e].running
        /\ \A e \in Difs : dif'[e].started = dif[e].started
                           \/ (e = thread[t].dif /\ thread[t].pc = "failed")
        /\ \A s \in Threads \ {t} : thread'[s] = thread[s]
        /\ Exit(t) \/ thread'[t].dif = thread[t].dif
    BY <1>1, ReaderFields
  <1>3. CardsOK' /\ LeadsOK'
    BY <1>1, <1>2 DEF CardsOK, LeadsOK
  <1>4. ServedOK'
    <2> SUFFICES ASSUME cmd.op = "START", NEW e \in known \ cmd.todo, dif'[e].rd
                 PROVE  dif'[e].started
      BY <1>2 DEF ServedOK
    <2>1. e \in Difs /\ dif[e].rd /\ dif[e].started
      BY <1>1, <1>2 DEF ServedOK
    <2>2. ~(e = thread[t].dif /\ thread[t].pc = "failed")
      BY <1>1, <2>1 DEF StartedOK
    <2> QED
      BY <1>2, <2>1, <2>2
  <1>5. PolledOK'
    <2>1. cmd.op = "STOP" => \A e \in known \ cmd.todo : ~dif'[e].running
      BY <1>1, <1>2 DEF PolledOK
    <2>2. ASSUME NEW s \in Threads, thread'[s].pc # "none", dif'[thread'[s].dif].running
          PROVE  fsm = "RUNNING" \/ cmd.op = "START"
      <3>1. CASE s # t
        <4>1. thread'[s] = thread[s] /\ thread[s].dif \in Difs
          BY <1>1, <1>2, <2>2, <3>1 DEF RInv, OwnedOK
        <4> QED
          BY <1>1, <1>2, <2>2, <4>1 DEF PolledOK
      <3>2. CASE s = t
        <4>1. ~Exit(t)
          BY <1>1, <2>2, <3>2 DEF Exit, NoThread
        <4> QED
          BY <1>1, <1>2, <2>2, <3>2, <4>1 DEF PolledOK
      <3> QED
        BY <3>1, <3>2
    <2> QED
      BY <1>2, <2>1, <2>2 DEF PolledOK
  <1> QED
    BY <1>3, <1>4, <1>5 DEF HInv

LEMMA HInvNext == ASSUME RunControlDriven, HInv, [Next]_vars PROVE HInv'
  <1>1. KInv'
    BY KInvNext DEF HInv
  <1>2. /\ RInv /\ TypeOK /\ RunPhase /\ known \subseteq Difs /\ dif \in [Difs -> LDIF]
        /\ CardsOK /\ ServedOK /\ PolledOK /\ LeadsOK
    BY DEF HInv, KInv, SInv, RInv, TypeOK
  <1>3. CASE Command \/ WebCommand
    <2>1. PICK op, to : /\ Accept(op, to, 0)
                        /\ op = "SET" \/ <<op, fsm, to>> \in Transitions
      <3>1. CASE Command
        <4>1. PICK x \in Transitions : x[2] = fsm /\ Accept(x[1], x[3], 0)
          BY <3>1 DEF Command, RunControlDriven
        <4>2. x = <<x[1], fsm, x[3]>>
          BY <4>1 DEF Transitions
        <4> QED
          BY <4>1, <4>2
      <3>2. CASE WebCommand
        BY <3>2 DEF WebCommand, RunControlDriven
      <3> QED
        BY <1>3, <3>1, <3>2
    <2>2. /\ cmd.op = "none" /\ cmd'.op = op /\ cmd'.to = to /\ cmd'.todo = known
          /\ UNCHANGED <<fsm, known, dif, thread>>
      BY <2>1 DEF Accept, Idle
    <2> QED
      BY <1>1, <1>2, <2>1, <2>2 DEF HInv, CardsOK, ServedOK, PolledOK, LeadsOK
  <1>4. CASE Reply
    <2>1. /\ cmd'.op = "none" /\ cmd.op # "none" /\ cmd.todo = {} /\ fsm' = cmd.to
          /\ UNCHANGED <<known, dif, thread>>
      BY <1>4 DEF Reply, Idle
    <2>2. ASSUME NEW t \in Threads, thread[t].pc # "none", dif[thread[t].dif].running
          PROVE  fsm' = "RUNNING"
      <3>1. thread[t].dif \in known
        BY <2>2 DEF HInv, KInv, SInv, RInv, OwnedOK
      <3>2. cmd.op # "STOP"
        BY <1>2, <2>1, <2>2, <3>1 DEF PolledOK
      <3>3. cmd.op = "START" => fsm' = "RUNNING"
        BY <1>2, <2>1 DEF RunPhase
      <3>4. cmd.op # "START" => cmd.op = "SET"
        BY <1>2, <2>1, <2>2, <3>2 DEF PolledOK, RunPhase
      <3> QED
        BY <1>2, <2>1, <2>2, <3>3, <3>4 DEF PolledOK, RInv, CommandOK
    <2> QED
      BY <1>1, <1>2, <2>1, <2>2 DEF HInv, CardsOK, ServedOK, PolledOK, LeadsOK
  <1>5. CASE Scan
    <2>1. fsm = "CREATED" /\ cmd'.op = "none" /\ thread' = thread
      BY <1>5 DEF Scan, Idle
    <2>2. \A t \in Threads : thread'[t].pc = "none"
      BY <2>1 DEF HInv, KInv, SInv, ThreadsOK, Busy
    <2>3. PICK found \in SUBSET Difs, garbage \in [Difs -> BOOLEAN] :
            /\ \A d \in Difs \ found : ~garbage[d]
            /\ known' = found
            /\ dif' = [d \in Difs |-> NewLDIF(garbage[d])]
      BY <1>5 DEF Scan
    <2>4. CardsOK'
      BY <2>3 DEF CardsOK, NewLDIF
    <2> QED
      BY <1>1, <2>1, <2>2, <2>4 DEF HInv, ServedOK, PolledOK, LeadsOK
  <1>6. CASE ClearFlags \/ JoinThreads
    <2>1. /\ cmd.op = "DESTROY" /\ cmd'.op = "DESTROY" /\ cmd'.to = cmd.to
          /\ UNCHANGED <<fsm, known, thread>>
      BY <1>2, <1>6 DEF ClearFlags, JoinThreads, TypeOK, Idle
    <2>2. \A e \in Difs : dif'[e].rd = dif[e].rd /\ dif'[e].running = dif[e].running
      BY <1>2, <1>6 DEF ClearFlags, JoinThreads, ClearFlag, LDIF
    <2>3. \A t \in Threads : thread[t].pc # "none" => thread[t].dif \in Difs
      BY <1>2 DEF HInv, KInv, SInv, RInv, OwnedOK
    <2> QED
      BY <1>1, <1>2, <2>1, <2>2, <2>3 DEF HInv, CardsOK, ServedOK, PolledOK, LeadsOK
  <1>7. CASE UNCHANGED vars
    BY <1>1, <1>2, <1>7 DEF vars, HInv, CardsOK, ServedOK, PolledOK, LeadsOK
  <1> QED
    BY <1>1, <1>3, <1>4, <1>5, <1>6, <1>7, StepHInv, ReaderHInv DEF Next, Handler

-----------------------------------------------------------------------------
(* Each step of the server is a step of DifHost, or one it does not see.   *)

LEMMA SameTable == Host!DifTable = Transitions
  BY DEF Host!DifTable, Host!DifStarts, Transitions

\* The cards as a run control sees them, in terms of the flags and threads.
LEMMA Seen ==
  ASSUME NEW d \in Difs
  PROVE  /\ d \in OpenCards <=> dif[d].rd
         /\ d \in PolledCards <=> dif[d].running
         /\ d \in ServedCards <=>
              \E t \in Threads : thread[t].pc # "none" /\ thread[t].dif = d
         /\ d \in CalledCards <=>
              \E t \in Threads : thread[t].pc \in {"read", "publish"} /\ thread[t].dif = d
  BY DEF OpenCards, PolledCards, ServedCards, CalledCards, ThreadOf, Inside

LEMMA SeenNext ==
  ASSUME NEW d \in Difs
  PROVE  /\ d \in OpenCards' <=> dif'[d].rd
         /\ d \in PolledCards' <=> dif'[d].running
         /\ d \in ServedCards' <=>
              \E t \in Threads : thread'[t].pc # "none" /\ thread'[t].dif = d
         /\ d \in CalledCards' <=>
              \E t \in Threads : thread'[t].pc \in {"read", "publish"} /\ thread'[t].dif = d
  BY DEF OpenCards, PolledCards, ServedCards, CalledCards, ThreadOf, Inside

LEMMA OfCards ==
  /\ OpenCards \subseteq Difs /\ PolledCards \subseteq Difs
  /\ ServedCards \subseteq Difs /\ CalledCards \subseteq Difs
  /\ OpenCards' \subseteq Difs /\ PolledCards' \subseteq Difs
  /\ ServedCards' \subseteq Difs /\ CalledCards' \subseteq Difs
  BY DEF OpenCards, PolledCards, ServedCards, CalledCards

\* What a step that leaves the threads, or these members of a card, leaves.
LEMMA ThreadsSeen ==
  ASSUME thread' = thread
  PROVE  ServedCards' = ServedCards /\ CalledCards' = CalledCards
  BY DEF ServedCards, CalledCards, ThreadOf, Inside

LEMMA CardsSeen ==
  /\ (\A e \in Difs : dif'[e].rd = dif[e].rd) => OpenCards' = OpenCards
  /\ (\A e \in Difs : dif'[e].running = dif[e].running) => PolledCards' = PolledCards
  BY DEF OpenCards, PolledCards

\* The steps of the state machine and those of DESTROY on all the cards.
LEMMA HostServer ==
  ASSUME RunControlDriven, HInv,
         Scan \/ Command \/ WebCommand \/ Reply \/ ClearFlags \/ JoinThreads
  PROVE  [Host!Next]_(Host!vars)
  <1>1. /\ RInv /\ TypeOK /\ known \subseteq Difs /\ dif \in [Difs -> LDIF]
        /\ CardsOK /\ ServedOK /\ PolledOK /\ LeadsOK /\ ThreadsOK /\ CommandOK
        /\ CleanOK /\ StartedOK /\ PhaseOK
    BY DEF HInv, KInv, SInv, RInv, TypeOK
  <1>2. CASE Command \/ WebCommand
    <2>1. /\ cmd.op = "none" /\ UNCHANGED <<fsm, dif, thread>>
          /\ cmd'.op = "SET" \/ \E x \in Transitions : x[1] = cmd'.op /\ x[2] = fsm
          /\ cmd'.op # "SCAN"
      BY <1>2 DEF Command, WebCommand, Accept, Idle
    <2>2. UNCHANGED <<OpenCards, PolledCards, ServedCards, CalledCards>>
      BY <2>1, CardsSeen, ThreadsSeen
    <2>3. Host!Take(cmd'.op)
      BY <2>1, <2>2, SameTable DEF Host!Take
    <2>4. cmd'.op \in {x[1] : x \in Host!DifTable} \cup {"SET"}
      BY <2>1, SameTable
    <2> QED
      BY <2>3, <2>4 DEF Host!Next
  <1>3. CASE Scan
    <2>1. fsm = "CREATED" /\ fsm' = "SCANNED" /\ cmd.op = "none" /\ cmd' = cmd
          /\ thread' = thread
      BY <1>3 DEF Scan, Idle
    <2>2. ServedCards = {}
      BY <1>1, <2>1, Seen, OfCards DEF ThreadsOK, Busy
    <2>3. OpenCards' = {}
      BY <1>3 DEF Scan, NewLDIF, OpenCards
    <2>4. <<"SCAN", fsm, "SCANNED">> \in Host!DifTable
      BY <2>1, SameTable DEF Transitions
    <2>5. Host!Scan
      BY <2>1, <2>2, <2>3, <2>4, ThreadsSeen, OfCards DEF Host!Scan
    <2> QED
      BY <2>5 DEF Host!Next
  <1>4. CASE Reply
    <2>1. /\ cmd.op # "none" /\ cmd.todo = {} /\ cmd.step \notin {"flags", "join"}
          /\ fsm' = cmd.to /\ cmd'.op = "none" /\ UNCHANGED <<dif, thread>>
      BY <1>4 DEF Reply, Idle
    <2>2. UNCHANGED <<OpenCards, PolledCards, ServedCards, CalledCards>>
      BY <2>1, CardsSeen, ThreadsSeen
    <2>3. \/ cmd.op = "SET" /\ fsm' = fsm
          \/ <<cmd.op, fsm, fsm'>> \in Host!DifTable
      BY <1>1, <2>1, SameTable DEF CommandOK, LeadsOK
    <2>4. ASSUME cmd.op = "START" PROVE OpenCards \subseteq ServedCards
      <3> SUFFICES ASSUME NEW d \in Difs, dif[d].rd PROVE d \in ServedCards
        BY Seen, OfCards
      <3>1. d \in known
        BY <1>1 DEF CardsOK
      <3>2. dif[d].started
        BY <1>1, <2>1, <2>4, <3>1 DEF ServedOK
      <3> QED
        BY <1>1, <3>1, <3>2, Seen DEF StartedOK
    <2>5. ASSUME cmd.op = "STOP" PROVE PolledCards = {}
      <3> SUFFICES ASSUME NEW d \in Difs PROVE ~dif[d].running
        BY Seen, OfCards
      <3> QED
        BY <1>1, <2>1, <2>5 DEF CardsOK, PolledOK
    <2>6. ASSUME cmd.op = "DESTROY" PROVE OpenCards = {} /\ ServedCards = {}
      <3>1. ASSUME NEW d \in Difs PROVE ~dif[d].rd
        BY <1>1, <2>1, <2>6 DEF CardsOK, CleanOK, Clean
      <3>2. \A t \in Threads : thread[t].pc = "none"
        BY <1>1, <2>1, <2>6 DEF ThreadsOK
      <3> QED
        BY <3>1, <3>2, Seen, OfCards
    <2>7. Host!Finish
      BY <2>1, <2>2, <2>3, <2>4, <2>5, <2>6 DEF Host!Finish
    <2> QED
      BY <2>7 DEF Host!Next
  <1>5. CASE ClearFlags \/ JoinThreads
    <2>1. /\ cmd'.op = cmd.op /\ UNCHANGED <<fsm, thread>>
      BY <1>1, <1>5 DEF ClearFlags, JoinThreads, TypeOK, Idle
    <2>2. \A e \in Difs : dif'[e].rd = dif[e].rd /\ dif'[e].running = dif[e].running
      BY <1>1, <1>5 DEF ClearFlags, JoinThreads, ClearFlag, LDIF
    <2> QED
      BY <2>1, <2>2, CardsSeen, ThreadsSeen DEF Host!vars
  <1> QED
    BY <1>2, <1>3, <1>4, <1>5

\* The steps of a handler on one card and the arrival of a record.
LEMMA HostHandler ==
  ASSUME HInv, NEW d \in Difs, CommandStep(d) \/ InfoHandler(d)
  PROVE  [Host!Next]_(Host!vars)
  <1>1. /\ RInv /\ TypeOK /\ known \subseteq Difs /\ dif \in [Difs -> LDIF]
        /\ ThreadsOK /\ StartedOK /\ PhaseOK
        /\ thread \in [Threads -> [pc : {"none", "begin", "failed", "loop", "read",
                                         "publish"}, dif : Difs \cup {0}]]
    BY DEF HInv, KInv, SInv, RInv, TypeOK
  <1>2. /\ \A e \in Difs \ {d} : dif'[e] = dif[e]
        /\ UNCHANGED <<fsm, known>> /\ cmd'.op = cmd.op
        /\ ~StartThread(d) => thread' = thread
        /\ ~(Start(d) \/ Stop(d)) => dif'[d].running = dif[d].running
        /\ ~(Initialise(d) \/ DestroyDrop(d)) => dif'[d].rd = dif[d].rd
        /\ Start(d) => dif'[d].running = dif[d].running \/ (dif[d].rd /\ dif'[d].running)
        /\ Stop(d) => ~dif'[d].running
        /\ DestroyDrop(d) => ~dif'[d].rd
    BY <1>1, StepFields
  <1>3. /\ ~(Initialise(d) \/ DestroyDrop(d)) => OpenCards' = OpenCards
        /\ ~(Start(d) \/ Stop(d)) => PolledCards' = PolledCards
        /\ ~StartThread(d) => ServedCards' = ServedCards /\ CalledCards' = CalledCards
    <2>1. ASSUME ~(Initialise(d) \/ DestroyDrop(d)) PROVE OpenCards' = OpenCards
      <3>1. \A e \in Difs : dif'[e].rd = dif[e].rd
        BY <1>2, <2>1
      <3> QED
        BY <3>1, CardsSeen
    <2>2. ASSUME ~(Start(d) \/ Stop(d)) PROVE PolledCards' = PolledCards
      <3>1. \A e \in Difs : dif'[e].running = dif[e].running
        BY <1>2, <2>2
      <3> QED
        BY <3>1, CardsSeen
    <2> QED
      BY <1>2, <2>1, <2>2, ThreadsSeen
  <1>4. CASE Initialise(d)
    <2>1. cmd.op = "INITIALISE"
      BY <1>4 DEF Initialise
    <2>2. ServedCards = {}
      BY <1>1, <2>1, Seen, OfCards DEF ThreadsOK, PhaseOK, Busy
    <2>3. OpenCards' \in {OpenCards \cup {d}, OpenCards \ {d}}
      BY <1>2, Seen, SeenNext, OfCards
    <2>4. ~Start(d) /\ ~Stop(d) /\ ~StartThread(d)
      BY <2>1 DEF Start, Stop, StartThread
    <2>5. Host!Open(d)
      BY <1>2, <1>3, <2>1, <2>2, <2>3, <2>4 DEF Host!Open
    <2> QED
      BY <2>5 DEF Host!Next
  <1>5. CASE StartThread(d)
    <2>1. /\ cmd.op = "START" /\ ~Start(d) /\ ~Stop(d) /\ ~Initialise(d)
          /\ ~DestroyDrop(d)
      BY <1>5 DEF StartThread, Start, Stop, Initialise, DestroyDrop
    <2>2. CASE UNCHANGED thread
      BY <1>2, <1>3, <2>1, <2>2, ThreadsSeen DEF Host!vars
    <2>3. CASE /\ ~dif[d].started
               /\ \E t \in Threads :
                    /\ thread[t] = NoThread
                    /\ thread' = [thread EXCEPT ![t] = [pc |-> "begin", dif |-> d]]
      <3>1. PICK t \in Threads :
              /\ thread[t] = NoThread
              /\ thread' = [thread EXCEPT ![t] = [pc |-> "begin", dif |-> d]]
        BY <2>3
      <3>2. /\ thread[t].pc = "none" /\ thread'[t].pc = "begin" /\ thread'[t].dif = d
            /\ \A s \in Threads \ {t} : thread'[s] = thread[s]
        BY <1>1, <3>1 DEF NoThread
      <3>3. d \notin ServedCards
        BY <1>1, <2>1, <2>3, Seen DEF ThreadsOK
      <3>4. ServedCards' = ServedCards \cup {d}
        <4>1. ASSUME NEW e \in Difs
              PROVE  e \in ServedCards' <=> e \in ServedCards \/ e = d
          <5>1. CASE e = d
            BY <3>2, <5>1, SeenNext
          <5>2. CASE e # d
            BY <3>2, <5>2, Seen, SeenNext
          <5> QED
            BY <5>1, <5>2
        <4> QED
          BY <4>1, OfCards
      <3>5. CalledCards' = CalledCards
        <4>1. ASSUME NEW e \in Difs PROVE e \in CalledCards' <=> e \in CalledCards
          BY <3>2, Seen, SeenNext
        <4> QED
          BY <4>1, OfCards
      <3>6. Host!Serve(d)
        BY <1>2, <1>3, <2>1, <3>3, <3>4, <3>5 DEF Host!Serve
      <3> QED
        BY <3>6 DEF Host!Next
    <2> QED
      BY <1>5, <2>2, <2>3 DEF StartThread, NeedsThread
  <1>6. CASE Start(d)
    <2>1. /\ cmd.op = "START" /\ cmd.step = "start" /\ Turn(d) /\ ~StartThread(d)
          /\ ~Initialise(d) /\ ~DestroyDrop(d)
      BY <1>6 DEF StartThread, Start, Initialise, DestroyDrop
    <2>2. CASE dif'[d].running = dif[d].running
      <3>1. \A e \in Difs : dif'[e].running = dif[e].running
        BY <1>2, <2>2
      <3>2. PolledCards' = PolledCards
        BY <3>1, CardsSeen
      <3> QED
        BY <1>2, <1>3, <2>1, <3>2 DEF Host!vars
    <2>3. CASE dif[d].rd /\ dif'[d].running
      <3>1. d \in known
        BY <1>1, <2>1 DEF RInv, TodoOK, Turn
      <3>2. d \in OpenCards \cap ServedCards
        BY <1>1, <2>1, <2>3, <3>1, Seen DEF StartedOK
      <3>3. PolledCards' = PolledCards \cup {d}
        BY <1>2, <2>3, Seen, SeenNext, OfCards
      <3>4. Host!Enable(d)
        BY <1>2, <1>3, <2>1, <3>2, <3>3 DEF Host!Enable
      <3> QED
        BY <3>4 DEF Host!Next
    <2> QED
      BY <1>2, <1>6, <2>2, <2>3
  <1>7. CASE Stop(d)
    <2>1. /\ cmd.op = "STOP" /\ ~StartThread(d) /\ ~Initialise(d) /\ ~DestroyDrop(d)
      BY <1>7 DEF StartThread, Stop, Initialise, DestroyDrop
    <2>2. PolledCards' = PolledCards \ {d}
      BY <1>2, <1>7, Seen, SeenNext, OfCards
    <2>3. Host!Disable(d)
      BY <1>2, <1>3, <2>1, <2>2 DEF Host!Disable
    <2> QED
      BY <2>3 DEF Host!Next
  <1>8. CASE DestroyDrop(d)
    <2>1. /\ cmd.op = "DESTROY" /\ cmd.step = "drop"
          /\ ~StartThread(d) /\ ~Start(d) /\ ~Stop(d)
      BY <1>8 DEF StartThread, Start, Stop, DestroyDrop
    <2>2. ServedCards = {}
      BY <1>1, <2>1, Seen, OfCards DEF ThreadsOK
    <2>3. OpenCards' = OpenCards \ {d}
      BY <1>2, <1>8, Seen, SeenNext, OfCards
    <2>4. Host!Close(d)
      BY <1>2, <1>3, <2>1, <2>2, <2>3 DEF Host!Close
    <2> QED
      BY <2>4 DEF Host!Next
  <1>9. CASE ~(Initialise(d) \/ StartThread(d) \/ Start(d) \/ Stop(d) \/ DestroyDrop(d))
    BY <1>2, <1>3, <1>9 DEF Host!vars
  <1> QED
    BY <1>4, <1>5, <1>6, <1>7, <1>8, <1>9

\* The steps of a reader: it calls its card, comes back, and leaves.
LEMMA HostReader ==
  ASSUME HInv, NEW t \in Threads, Reader(t)
  PROVE  [Host!Next]_(Host!vars)
  <1> DEFINE d == thread[t].dif
  <1>1. /\ RInv /\ up /\ SingleOK /\ StartedOK /\ ThreadsOK /\ PolledOK
        /\ thread \in [Threads -> [pc : {"none", "begin", "failed", "loop", "read",
                                         "publish"}, dif : Difs \cup {0}]]
    BY DEF HInv, KInv, SInv, RInv, TypeOK
  <1>2. /\ UNCHANGED <<fsm, cmd, known>>
        /\ thread[t].pc # "none" /\ d \in known /\ d \in Difs
        /\ \A e \in Difs : dif'[e].rd = dif[e].rd /\ dif'[e].running = dif[e].running
        /\ \A s \in Threads \ {t} : thread'[s] = thread[s]
        /\ \/ Exit(t) /\ thread[t].pc \in {"failed", "loop"}
           \/ /\ thread'[t].dif = thread[t].dif
              /\ \/ thread[t].pc = "begin" /\ thread'[t].pc \in {"loop", "failed"}
                 \/ thread[t].pc = "loop" /\ thread'[t].pc = "read" /\ dif[d].running
                 \/ thread[t].pc = "read" /\ thread'[t].pc \in {"loop", "publish"}
                 \/ thread[t].pc = "publish" /\ thread'[t].pc = "loop"
        /\ Exit(t) /\ thread[t].pc = "loop" => ~dif[d].started
    BY <1>1, ReaderFields
  <1>3. OpenCards' = OpenCards /\ PolledCards' = PolledCards
    BY <1>2, CardsSeen
  <1>4. \A s \in Threads \ {t} : thread[s].pc # "none" => thread[s].dif # d
    BY <1>1, <1>2 DEF SingleOK
  <1>5. /\ d \in ServedCards
        /\ d \in CalledCards <=> thread[t].pc \in {"read", "publish"}
    BY <1>2, <1>4, Seen
  <1>6. ASSUME NEW e \in Difs \ {d}, Exit(t) \/ thread'[t].dif = d
        PROVE  /\ e \in ServedCards' <=> e \in ServedCards
               /\ e \in CalledCards' <=> e \in CalledCards
    <2>1. thread'[t].pc = "none" \/ thread'[t].dif # e
      BY <1>1, <1>6 DEF Exit, NoThread
    <2> QED
      BY <1>2, <2>1, Seen, SeenNext
  <1>7. CASE Exit(t) /\ thread[t].pc \in {"failed", "loop"}
    <2>1. thread'[t].pc = "none"
      BY <1>1, <1>7 DEF Exit, NoThread
    <2>2. d \notin ServedCards' /\ d \notin CalledCards'
      BY <1>2, <1>4, <2>1, SeenNext
    <2>3. ServedCards' = ServedCards \ {d} /\ CalledCards' = CalledCards
      BY <1>5, <1>6, <1>7, <2>2, OfCards
    <2>4. cmd.op = "DESTROY" \/ d \notin OpenCards
      <3>1. CASE thread[t].pc = "failed"
        BY <1>1, <1>2, <3>1, Seen DEF StartedOK
      <3>2. CASE thread[t].pc = "loop"
        BY <1>1, <1>2, <1>7, <3>2 DEF ThreadsOK
      <3> QED
        BY <1>7, <3>1, <3>2
    <2>5. Host!Leave(d)
      BY <1>2, <1>3, <1>5, <1>7, <2>3, <2>4 DEF Host!Leave
    <2> QED
      BY <1>2, <2>5 DEF Host!Next
  <1>8. CASE thread'[t].dif = d /\ thread'[t].pc # "none"
    <2>1. /\ d \in ServedCards'
          /\ d \in CalledCards' <=> thread'[t].pc \in {"read", "publish"}
      BY <1>2, <1>4, <1>8, SeenNext
    <2>2. ServedCards' = ServedCards
      BY <1>5, <1>6, <1>8, <2>1, OfCards
    <2>3. CASE thread[t].pc = "loop" /\ thread'[t].pc = "read" /\ dif[d].running
      <3>1. CalledCards' = CalledCards \cup {d} /\ d \notin CalledCards
        BY <1>5, <1>6, <1>8, <2>1, <2>3, OfCards
      <3>2. fsm = "RUNNING" \/ cmd.op = "START"
        BY <1>1, <2>3 DEF PolledOK
      <3>3. d \in OpenCards \cap ServedCards \cap PolledCards
        BY <1>1, <1>2, <1>5, <2>3, Seen DEF ThreadsOK
      <3>4. Host!Call(d)
        BY <1>2, <1>3, <2>2, <3>1, <3>2, <3>3 DEF Host!Call
      <3> QED
        BY <1>2, <3>4 DEF Host!Next
    <2>4. CASE thread[t].pc \in {"read", "publish"} /\ thread'[t].pc = "loop"
      <3>1. CalledCards' = CalledCards \ {d} /\ d \in CalledCards
        BY <1>5, <1>6, <1>8, <2>1, <2>4, OfCards
      <3>2. Host!Return(d)
        BY <1>2, <1>3, <2>2, <3>1 DEF Host!Return
      <3> QED
        BY <1>2, <3>2 DEF Host!Next
    <2>5. CASE \/ thread[t].pc = "begin" /\ thread'[t].pc \in {"loop", "failed"}
               \/ thread[t].pc = "read" /\ thread'[t].pc = "publish"
      <3>1. CalledCards' = CalledCards
        BY <1>5, <1>6, <1>8, <2>1, <2>5, OfCards
      <3> QED
        BY <1>2, <1>3, <2>2, <3>1 DEF Host!vars
    <2> QED
      BY <1>1, <1>2, <1>8, <2>3, <2>4, <2>5 DEF Exit, NoThread
  <1> QED
    BY <1>2, <1>7, <1>8

LEMMA HostNext == ASSUME RunControlDriven, HInv, [Next]_vars PROVE [Host!Next]_(Host!vars)
  <1>1. CASE Next
    BY <1>1, HostServer, HostHandler, HostReader DEF Next, Handler
  <1>2. CASE UNCHANGED vars
    <2>1. UNCHANGED <<fsm, cmd, dif, thread>>
      BY <1>2 DEF vars
    <2> QED
      BY <2>1, CardsSeen, ThreadsSeen DEF Host!vars
  <1> QED
    BY <1>1, <1>2

\* Driven as the run controls drive it, the server keeps its contract: each
\* open card of a run has a reader of its own, a reader calls its card only
\* within a run and never once the card is closed, STOP and DESTROY end what
\* they say they end, whatever a START before them left half done
\* (LDIFServer.cc, LDIF.cc: start, stop, destroy, readout).
THEOREM ImplementsContract == ASSUME RunControlDriven PROVE Spec => KeepsContract
  <1>1. Init => Host!Init
    <2> SUFFICES ASSUME Init PROVE Host!Init
      OBVIOUS
    <2>1. /\ fsm = "CREATED" /\ cmd.op = "none"
          /\ \A d \in Difs : ~dif[d].rd /\ ~dif[d].running
          /\ \A t \in Threads : thread[t].pc = "none"
      BY DEF Init, Idle, NoThread, NewLDIF
    <2> QED
      BY <2>1, Seen, OfCards DEF Host!Init
  <1>2. HInv /\ [Next]_vars => HInv'
    BY HInvNext
  <1>3. HInv /\ [Next]_vars => [Host!Next]_(Host!vars)
    BY HostNext
  <1> QED
    BY <1>1, <1>2, <1>3, HInvInit, PTL DEF Spec, KeepsContract, Host!Spec

-----------------------------------------------------------------------------
(* Why DESTROY comes to its end, the half of it that is safety: while it   *)
(* waits for the threads, each step of a reader brings it nearer to its    *)
(* own end, so that only a reader that stays in a call holds it up.        *)

Joining == cmd.op = "DESTROY" /\ cmd.step = "join"

\* How many steps a reader whose flag is down takes at most.
Rank(t) ==
  CASE thread[t].pc = "none" -> 0
    [] thread[t].pc \in {"loop", "failed"} -> 1
    [] thread[t].pc \in {"begin", "publish"} -> 2
    [] OTHER -> 3

\* No reader that DESTROY waits for has its flag up.
JoinOK ==
  Joining => \A t \in Threads : thread[t].pc # "none" => ~dif[thread[t].dif].started

JInv == RInv /\ (up => JoinOK)

LEMMA JInvNext == JInv /\ [Next]_vars => JInv'
  <1> SUFFICES ASSUME JInv, [Next]_vars PROVE JInv'
    OBVIOUS
  <1>1. RInv' /\ RInv /\ known \subseteq Difs /\ dif \in [Difs -> LDIF]
    BY RInvNext DEF JInv, RInv, TypeOK
  <1>2. CASE UNCHANGED vars
    BY <1>1, <1>2 DEF vars, JInv, JoinOK, Joining
  <1>3. CASE Next
    <2>0. up /\ JoinOK /\ TypeOK
      BY <1>1, <1>3 DEF Next, JInv, RInv
    <2>1. CASE Scan \/ Command \/ WebCommand \/ Reply
      <3>1. ASSUME NEW op, NEW to, NEW target, Accept(op, to, target)
            PROVE  cmd'.step # "join"
        <4>1. FirstStep(op, target) # "join"
          BY DEF FirstStep
        <4> QED
          BY <3>1, <4>1 DEF Accept
      <3>2. cmd'.step # "join"
        <4>1. CASE Scan \/ Reply
          <5>1. cmd' = Idle
            BY <4>1 DEF Scan, Reply
          <5> QED
            BY <5>1 DEF Idle
        <4>2. CASE Command \/ WebCommand
          BY <3>1, <4>2 DEF Command, WebCommand
        <4> QED
          BY <2>1, <4>1, <4>2
      <3> QED
        BY <1>1, <3>2 DEF JInv, JoinOK, Joining
    <2>2. CASE ClearFlags
      <3>1. ASSUME NEW t \in Threads, thread[t].pc # "none"
            PROVE  thread[t].dif \in known
        BY <1>1, <2>0, <3>1 DEF RInv, OwnedOK
      <3>2. ASSUME cmd'.step = "join"
            PROVE  \A e \in known : ~dif'[e].started
        <4>1. AnyReader
          BY <2>0, <2>2, <3>2 DEF ClearFlags, TypeOK, Idle
        <4> QED
          BY <1>1, <2>2, <4>1 DEF ClearFlags, ClearFlag, LDIF
      <3> QED
        BY <1>1, <2>2, <3>1, <3>2 DEF ClearFlags, JInv, JoinOK, Joining
    <2>3. CASE JoinThreads
      <3>1. cmd'.step # "join"
        BY <2>0, <2>3 DEF JoinThreads, TypeOK, Idle
      <3> QED
        BY <1>1, <3>1 DEF JInv, JoinOK, Joining
    <2>4. ASSUME NEW d \in Difs, CommandStep(d) PROVE JInv'
      <3>1. cmd'.op = "DESTROY" => cmd'.step # "join"
        BY <2>0, <2>4 DEF CommandStep, Initialise, RegisterDB, Configure, StartThread,
             Start, Stop, DestroyFlag, DestroyWait, DestroyDrop, DoneWith, TypeOK, Idle
      <3> QED
        BY <1>1, <3>1 DEF JInv, JoinOK, Joining
    <2>5. ASSUME NEW d \in Difs, InfoHandler(d) PROVE JInv'
      <3>1. \A e \in Difs : dif'[e].started = dif[e].started
        BY <1>1, <2>5 DEF InfoHandler, LDIF
      <3>2. \A t \in Threads : thread[t].pc # "none" => thread[t].dif \in Difs
        BY <1>1, <2>0 DEF RInv, OwnedOK
      <3> QED
        BY <1>1, <2>0, <2>5, <3>1, <3>2 DEF InfoHandler, JInv, JoinOK, Joining
    <2>6. ASSUME NEW t \in Threads, Reader(t) PROVE JInv'
      <3> SUFFICES ASSUME Joining, NEW s \in Threads, thread'[s].pc # "none"
                   PROVE  ~dif'[thread'[s].dif].started
        <4>1. cmd' = cmd
          BY <1>1, <2>0, <2>6, ReaderFields
        <4> QED
          BY <1>1, <4>1 DEF JInv, JoinOK, Joining
      <3>1. /\ \A r \in Threads \ {t} : thread'[r] = thread[r]
            /\ thread[t].pc # "none"
            /\ Exit(t) \/ thread'[t].dif = thread[t].dif
            /\ \A e \in Difs : dif'[e].started = dif[e].started
                               \/ (e = thread[t].dif /\ thread[t].pc = "failed")
        BY <1>1, <2>0, <2>6, ReaderFields
      <3>2. s = t => ~Exit(t)
        BY <2>0 DEF Exit, NoThread, TypeOK
      <3>3. thread[s].pc # "none" /\ thread'[s].dif = thread[s].dif
        BY <3>1, <3>2
      <3>4. thread[s].dif \in Difs /\ ~dif[thread[s].dif].started
        BY <1>1, <2>0, <3>3 DEF JoinOK, RInv, OwnedOK
      <3>5. thread[t].dif \in Difs /\ ~dif[thread[t].dif].started
        BY <1>1, <2>0, <3>1 DEF JoinOK, RInv, OwnedOK
      <3>6. CASE thread[s].dif = thread[t].dif
        <4>1. s = t
          BY <1>1, <3>1, <3>3, <3>6 DEF RInv, SingleOK
        <4>2. thread[t].pc # "failed"
          BY <2>0, <2>6, <3>2, <4>1 DEF Reader, Begin, Failed, Loop, Read, PublishEvent, At
        <4> QED
          BY <3>1, <3>3, <3>4, <4>2
      <3> QED
        BY <3>1, <3>3, <3>4, <3>6
    <2> QED
      BY <1>3, <2>1, <2>2, <2>3, <2>4, <2>5, <2>6 DEF Next, Handler
  <1> QED
    BY <1>2, <1>3

\* While DESTROY waits, no reader is given more to do and every step that one
\* takes is one of the few that lead it out of LDIF::readout: two calls on
\* the card or its data service at most (LDIFServer::destroy, join_all).
THEOREM ReadersDrain ==
  Spec => [][Joining => \A t \in Threads : /\ Rank(t)' <= Rank(t)
                                           /\ Reader(t) => Rank(t)' < Rank(t)]_vars
  <1>1. ASSUME JInv, Next, Joining, NEW t \in Threads
        PROVE  Rank(t)' <= Rank(t) /\ (Reader(t) => Rank(t)' < Rank(t))
    <2>1. RInv /\ up /\ JoinOK /\ TypeOK
      BY <1>1 DEF Next, JInv, RInv
    <2>2. ASSUME thread' = thread
          PROVE  Rank(t)' <= Rank(t)
      BY <2>2 DEF Rank
    <2>3. ASSUME NEW s \in Threads, Reader(s)
          PROVE  /\ s # t => Rank(t)' <= Rank(t)
                 /\ s = t => Rank(t)' < Rank(t) /\ Rank(t)' <= Rank(t)
      <3>1. /\ \A r \in Threads \ {s} : thread'[r] = thread[r]
            /\ thread[s].pc # "none"
            /\ \/ Exit(s) /\ thread[s].pc \in {"failed", "loop"}
               \/ thread[s].pc = "begin" /\ thread'[s].pc \in {"loop", "failed"}
               \/ thread[s].pc = "loop" /\ thread'[s].pc = "read"
               \/ thread[s].pc = "read" /\ thread'[s].pc \in {"loop", "publish"}
               \/ thread[s].pc = "publish" /\ thread'[s].pc = "loop"
        BY <2>1, <2>3, ReaderFields
      <3>2. s # t => Rank(t)' <= Rank(t)
        BY <3>1 DEF Rank
      <3>3. Exit(s) => thread'[s].pc = "none"
        BY <2>1 DEF Exit, NoThread, TypeOK
      <3>4. ~(thread[s].pc = "loop" /\ thread'[s].pc = "read")
        <4> SUFFICES ASSUME thread[s].pc = "loop", thread'[s].pc = "read" PROVE FALSE
          OBVIOUS
        <4>1. ~dif[thread[s].dif].started
          BY <1>1, <2>1, <3>1 DEF JoinOK
        <4>2. Loop(s)
          BY <2>3 DEF Reader, Begin, Failed, Read, PublishEvent, At
        <4> QED
          BY <3>3, <4>1, <4>2 DEF Loop, Leaves
      <3>5. s = t => Rank(t)' < Rank(t) /\ Rank(t)' <= Rank(t)
        BY <3>1, <3>3, <3>4 DEF Rank
      <3> QED
        BY <3>2, <3>5
    <2>4. ASSUME ~\E s \in Threads : Reader(s) PROVE thread' = thread
      <3>1. ~Scan /\ ~Command /\ ~WebCommand
        <4>1. cmd # Idle
          BY <1>1 DEF Joining, Idle
        <4> QED
          BY <4>1 DEF Scan, Command, WebCommand, Accept
      <3>2. \A d \in Difs : ~StartThread(d)
        BY <1>1 DEF Joining, StartThread
      <3>3. \A d \in Difs : CommandStep(d) \/ InfoHandler(d) => thread' = thread
        BY <2>1, <3>2, StepFields
      <3> QED
        BY <1>1, <2>4, <3>1, <3>3 DEF Next, Handler, Reply, ClearFlags, JoinThreads
    <2>5. CASE \E s \in Threads : Reader(s)
      <3>1. Rank(t)' <= Rank(t)
        BY <2>3, <2>5
      <3> QED
        BY <2>3, <3>1
    <2>6. CASE ~\E s \in Threads : Reader(s)
      BY <2>2, <2>4, <2>6
    <2> QED
      BY <2>5, <2>6
  <1>2. JInv /\ [Next]_vars =>
          [Joining => \A t \in Threads : /\ Rank(t)' <= Rank(t)
                                         /\ Reader(t) => Rank(t)' < Rank(t)]_vars
    BY <1>1
  <1>3. Init => JInv
    BY RInvInit DEF Init, Idle, JInv, JoinOK, Joining
  <1> QED
    BY <1>2, <1>3, JInvNext, PTL DEF Spec
=============================================================================
