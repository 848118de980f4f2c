--------------------------- MODULE ContractProofs ---------------------------
(***************************************************************************)
(* What the two contracts of the system, the one of a run control with its *)
(* servers (Acquisition) and the one of a host of cards with its run       *)
(* control (DifHost), come to.  LDaqProofs, FullDaqProofs and              *)
(* LDIFServerProofs show that the programs keep them.                      *)
(***************************************************************************)
EXTENDS FiniteSets, TLAPS

CONSTANTS Servers, Card, Cards

VARIABLES phase, due, members, running, orderly,
          state, busy, cards, serving, calling, polled

Run == INSTANCE Acquisition
Host == INSTANCE DifHost

-----------------------------------------------------------------------------
(* The run control                                                         *)

\* A START or a STOP in progress makes the next STOP due, and what runs waits
\* for that STOP.
DueOK ==
  /\ phase \in {"rest", "starting", "stopping"}
  /\ phase = "starting" => due
  /\ Run!QuietUntilStart

\* No server of a run control that keeps the promise acquires between the STOP
\* that was completed last and the next START, whichever servers died or
\* commands were given up before (LDaqServer, FullDaq: startRun, stopRun).
THEOREM NothingAfterStop == Run!Spec => []Run!QuietUntilStart
  <1>1. Run!Init => DueOK
    BY DEF Run!Init, DueOK, Run!QuietUntilStart
  <1>2. DueOK /\ [Run!Next]_(Run!vars) => DueOK'
    <2> SUFFICES ASSUME DueOK, [Run!Next]_(Run!vars) PROVE DueOK'
      OBVIOUS
    <2>1. CASE Run!Configured \/ Run!Start \/ Run!Started \/ Run!Stop
      BY <2>1 DEF DueOK, Run!QuietUntilStart, Run!Configured, Run!Start, Run!Started,
           Run!Stop
    <2>2. CASE Run!Stopped \/ Run!Dissolve
      BY <2>2 DEF DueOK, Run!QuietUntilStart, Run!Stopped, Run!Dissolve
    <2>3. CASE Run!Fault
      BY <2>3 DEF DueOK, Run!QuietUntilStart, Run!Fault
    <2>4. ASSUME NEW s \in Servers, Run!Begin(s) \/ Run!End(s) \/ Run!Drop(s)
          PROVE  DueOK'
      <3>1. phase' = phase /\ due' = due
        BY <2>4 DEF Run!Begin, Run!End, Run!Drop
      <3>2. running # {} \/ phase = "starting"
        BY <2>4 DEF Run!Begin, Run!End, Run!Drop
      <3> QED
        BY <3>1, <3>2 DEF DueOK, Run!QuietUntilStart
    <2>5. CASE UNCHANGED Run!vars
      BY <2>5 DEF DueOK, Run!QuietUntilStart, Run!vars
    <2> QED
      BY <2>1, <2>2, <2>3, <2>4, <2>5 DEF Run!Next
  <1>3. DueOK => Run!QuietUntilStart
    BY DEF DueOK
  <1> QED
    BY <1>1, <1>2, <1>3, PTL DEF Run!Spec

\* In an orderly run the clock card triggers only readers that all read, from
\* its own start to its own stop (LDaqServer, FullDaq: the order of the posts).
THEOREM CardRunsAmongReaders == Run!Spec => []Run!CardAmongReaders
  <1>1. Run!Init => Run!CardAmongReaders
    BY DEF Run!Init, Run!CardAmongReaders
  <1>2. Run!CardAmongReaders /\ [Run!Next]_(Run!vars) => Run!CardAmongReaders'
    <2> SUFFICES ASSUME Run!CardAmongReaders, [Run!Next]_(Run!vars)
                 PROVE  Run!CardAmongReaders'
      OBVIOUS
    <2> USE DEF Run!CardAmongReaders, Run!Readers
    <2>1. CASE Run!Configured \/ Run!Start \/ Run!Started \/ Run!Stop \/ Run!Stopped
      BY <2>1 DEF Run!Configured, Run!Start, Run!Started, Run!Stop, Run!Stopped
    <2>2. CASE Run!Dissolve
      BY <2>2 DEF Run!Dissolve
    <2>3. CASE Run!Fault
      BY <2>3 DEF Run!Fault
    <2>4. ASSUME NEW s \in Servers, Run!Begin(s) PROVE Run!CardAmongReaders'
      BY <2>4 DEF Run!Begin
    <2>5. ASSUME NEW s \in Servers, Run!End(s) PROVE Run!CardAmongReaders'
      BY <2>5 DEF Run!End
    <2>6. ASSUME NEW s \in Servers, Run!Drop(s) PROVE Run!CardAmongReaders'
      BY <2>6 DEF Run!Drop
    <2>7. CASE UNCHANGED Run!vars
      BY <2>7 DEF Run!vars
    <2> QED
      BY <2>1, <2>2, <2>3, <2>4, <2>5, <2>6, <2>7 DEF Run!Next
  <1> QED
    BY <1>1, <1>2, PTL DEF Run!Spec

-----------------------------------------------------------------------------
(* The host of cards                                                       *)

\* A command in progress is one that the table allows where the host is.
BusyOK ==
  busy \notin {"none", "SET"} =>
    busy # "SCAN" /\ \E x \in Host!DifTable : x[1] = busy /\ x[2] = state

HostInv == BusyOK /\ Host!CallsAreSafe /\ Host!HoldsNothing

\* What the table says of the commands that open cards and give them readers.
LEMMA HostTable ==
  ASSUME NEW x \in Host!DifTable
  PROVE  /\ x[2] = "CREATED" => x[1] = "SCAN"
         /\ x[3] = "CREATED" => x[1] = "DESTROY"
  BY DEF Host!DifTable, Host!DifStarts

LEMMA HostKeeps == HostInv /\ [Host!Next]_(Host!vars) => HostInv'
  <1> SUFFICES ASSUME HostInv, [Host!Next]_(Host!vars) PROVE HostInv'
    OBVIOUS
  <1> USE DEF HostInv, Host!CallsAreSafe, Host!HoldsNothing
  <1>1. state = "CREATED" => busy \in {"none", "SET"}
    BY HostTable DEF BusyOK
  <1>2. ASSUME NEW op, Host!Take(op) PROVE HostInv'
    BY <1>2 DEF Host!Take, BusyOK
  <1>3. CASE Host!Scan
    BY <1>3 DEF Host!Scan, BusyOK
  <1>4. CASE Host!Finish
    <2>1. state' = "CREATED" => cards = {} /\ serving = {}
      <3>1. CASE busy = "SET" /\ state' = state
        BY <3>1
      <3>2. CASE <<busy, state, state'>> \in Host!DifTable
        BY <1>4, <3>2, HostTable DEF Host!Finish
      <3> QED
        BY <1>4, <3>1, <3>2 DEF Host!Finish
    <2> QED
      BY <1>4, <2>1 DEF Host!Finish, BusyOK
  <1>5. ASSUME NEW d \in Cards, Host!Open(d) \/ Host!Close(d) PROVE HostInv'
    BY <1>1, <1>5 DEF Host!Open, Host!Close, BusyOK
  <1>6. ASSUME NEW d \in Cards, Host!Serve(d) \/ Host!Leave(d) PROVE HostInv'
    BY <1>1, <1>6 DEF Host!Serve, Host!Leave, BusyOK
  <1>7. ASSUME NEW d \in Cards, Host!Call(d) \/ Host!Return(d) PROVE HostInv'
    BY <1>7 DEF Host!Call, Host!Return, BusyOK
  <1>8. ASSUME NEW d \in Cards, Host!Enable(d) \/ Host!Disable(d) PROVE HostInv'
    BY <1>8 DEF Host!Enable, Host!Disable, BusyOK
  <1>9. CASE UNCHANGED Host!vars
    BY <1>9 DEF Host!vars, BusyOK
  <1> QED
    BY <1>2, <1>3, <1>4, <1>5, <1>6, <1>7, <1>8, <1>9 DEF Host!Next

\* A host that keeps the contract deletes no card under a call of its reader
\* (LDIF::destroy, LDIF::readout).
THEOREM CallsStaySafe == Host!Spec => []Host!CallsAreSafe
  <1>1. Host!Init => HostInv
    BY DEF Host!Init, HostInv, BusyOK, Host!CallsAreSafe, Host!HoldsNothing
  <1>2. HostInv => Host!CallsAreSafe
    BY DEF HostInv
  <1> QED
    BY <1>1, <1>2, HostKeeps, PTL DEF Host!Spec

\* A host that keeps the contract is empty whenever it is back in CREATED, and
\* SCAN may make its map anew (LDIFServer::destroy, LDIFServer::scan).
THEOREM EmptyWhenCreated == Host!Spec => []Host!HoldsNothing
  <1>1. Host!Init => HostInv
    BY DEF Host!Init, HostInv, BusyOK, Host!CallsAreSafe, Host!HoldsNothing
  <1>2. HostInv => Host!HoldsNothing
    BY DEF HostInv
  <1> QED
    BY <1>1, <1>2, HostKeeps, PTL DEF Host!Spec
=============================================================================
