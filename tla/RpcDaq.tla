------------------------------ MODULE RpcDaq ------------------------------
(* The run control RpcDaq.cc and the RPC servers it commands: RpcDIFServer   *)
(* with its DimDIF cards and their readout threads, RpcCccServer and         *)
(* RpcShmServer.  These servers have no state machine of their own: they     *)
(* execute whatever arrives, and only the state tests of the run control     *)
(* keep a handler from working on cards that a readout thread is using.      *)
(*                                                                           *)
(* A command of the run control is a sequence of calls, as in LDaq; the      *)
(* caller waits for every answer.  A call through a deleted object or a NULL *)
(* service is undefined: the model ends there with up = FALSE.               *)
EXTENDS ServerTables, Naturals, Sequences, FiniteSets

CONSTANTS Hosts,       \* the hosts of DIF cards, one RpcDIFServer each
          Cards,       \* the cards
          HostOf,      \* the host whose bus a card is on
          Db, Ccc, Shm

ASSUME ServersAssumption ==
    /\ Hosts \cap {Db, Ccc, Shm} = {}
    /\ Db # Ccc /\ Db # Shm /\ Ccc # Shm
ASSUME CardsAssumption == IsFiniteSet(Cards) /\ HostOf \in [Cards -> Hosts]

Servers == Hosts \cup {Db, Ccc, Shm}
CardsOf(h) == {c \in Cards : HostOf[c] = h}

VARIABLES
    daq,         \* _state of the run control
    cmd,         \* its command in progress: the stage and who is left in it
    clients,     \* the servers DISCOVER has made a client of
    listed,      \* the cards in the clients' "difs", from their last scan
    half,        \* the hosts in the middle of a handler of several steps
    known,       \* theDIFMap_: the cards with a DimDIF
    rd,          \* the cards whose _rd is not NULL
    services,    \* the cards with DIM services
    flag,        \* the cards with _readoutStarted
    polling,     \* the cards with _running
    thread,      \* the readout thread of each card
    opened, acquiring,         \* the clock card: its manager, its acquisition
    proxy, building, expects,  \* the builder: its ShmProxy, its run, its DIFs
    up,          \* no server has died
    misled       \* PREPARE was taken outside the states its test names,
                 \* or the state was forced

cards == <<known, rd, services, flag, polling, thread>>
ccc == <<opened, acquiring>>
builder == <<proxy, building, expects>>
control == <<daq, clients, misled>>
vars == <<control, cmd, listed, half, cards, ccc, builder, up>>

-----------------------------------------------------------------------------
(* The run control *)

DaqStates == {"CREATED", "DISCOVERED", "PREPARED", "INITIALISED", "CONFIGURED",
              "STARTED", "STOPPED", "DESTROYED"}

(* The states that the test of prepareServices names; its last comparison    *)
(* lacks the "== 0", so that it holds in every state but PREPARED.           *)
Preparable == {"DISCOVERED", "DESTROYED", "PREPARED"}
PrepareAllowed == DaqStates \ {"PREPARED"}

Allowed ==
    [PREPARE |-> PrepareAllowed,
     INITIALISE |-> {"PREPARED", "DESTROYED"},
     CONFIGURE |-> {"INITIALISED", "STOPPED", "CONFIGURED"},
     START |-> {"CONFIGURED", "STOPPED"},
     STOP |-> {"STARTED"},
     DESTROY |-> DaqStates \ {"STARTED"}]

(* A client that is NULL makes these commands return at once. *)
Needs ==
    [PREPARE |-> {}, INITIALISE |-> {}, CONFIGURE |-> {Ccc},
     START |-> {Ccc, Shm, Db}, STOP |-> {Ccc, Shm}, DESTROY |-> {}]

Target ==
    [PREPARE |-> "PREPARED", INITIALISE |-> "INITIALISED",
     CONFIGURE |-> "CONFIGURED", START |-> "STARTED", STOP |-> "STOPPED",
     DESTROY |-> "DESTROYED"]

(* Slip: the clock card starts before the builder. *)
CccFirst == << Stage({Db}, "NEWRUN"), Stage(Hosts, "START"),
               Stage({Ccc}, "START"), Stage({Shm}, "START") >>
StartPlan == << Stage({Db}, "NEWRUN"), Stage(Hosts, "START"),
                Stage({Shm}, "START"), Stage({Ccc}, "START") >>

Plan ==
    [PREPARE |-> << Stage({Shm}, "INITIALISE"), Stage({Ccc}, "OPEN") >>,
     INITIALISE |-> << Stage({Ccc}, "STOP"), Stage(Hosts, "SCAN"),
                       Stage(Hosts, "INITIALISE") >>,
     CONFIGURE |-> << Stage(Hosts, "REGISTERDB"), Stage(Hosts, "CONFIGURE") >>,
     START |-> StartPlan,
     STOP |-> << Stage({Ccc}, "STOP"), Stage(Hosts, "STOP"), Stage({Shm}, "STOP") >>,
     DESTROY |-> << Stage(Hosts, "DESTROY") >>]

(* A client that DISCOVER did not make gets no call.                         *)
(* Slip: the test is missing.                                                *)
AskedAll(servers) == servers
Asked(servers) == servers \cap clients

Idle == [op |-> "none", stage |-> 1, todo |-> {}]

Init ==
    /\ daq = "CREATED" /\ cmd = Idle /\ clients = {} /\ misled = FALSE
    /\ listed = {} /\ half = {}
    /\ known = {} /\ rd = {} /\ services = {} /\ flag = {} /\ polling = {}
    /\ thread = [c \in Cards |-> "none"]
    /\ opened = FALSE /\ acquiring = FALSE
    /\ proxy = FALSE /\ building = FALSE /\ expects = 0
    /\ up = TRUE

(* scandns: a server that is not in the name server gets no client; the      *)
(* clients of the DIF servers are made anew, with no card.                   *)
Discover ==
    /\ cmd = Idle /\ daq = "CREATED"
    /\ \E found \in SUBSET Servers : clients' = (clients \ Hosts) \cup found
    /\ listed' = {}
    /\ daq' = "DISCOVERED"
    /\ UNCHANGED <<cmd, misled, half, cards, ccc, builder, up>>

(* forceState of the web service: publishState with any state.  Bound: once, *)
(* and not after PREPARE has misled the servers already.                     *)
ForceState(to) ==
    /\ cmd = Idle /\ to # daq /\ ~misled
    /\ daq' = to
    /\ misled' = TRUE
    /\ UNCHANGED <<cmd, clients, listed, half, cards, ccc, builder, up>>

Command(op) ==
    /\ cmd = Idle
    /\ daq \in Allowed[op] /\ Needs[op] \subseteq clients
    /\ cmd' = [op |-> op, stage |-> 1, todo |-> Asked(Plan[op][1].to)]
    /\ misled' = (misled \/ (op = "PREPARE" /\ daq \notin Preparable))
    /\ UNCHANGED <<daq, clients, listed, half, cards, ccc, builder, up>>

NextStage ==
    /\ cmd # Idle /\ cmd.todo = {}
    /\ cmd.stage < Len(Plan[cmd.op])
    /\ cmd' = [cmd EXCEPT !.stage = @ + 1,
                          !.todo = Asked(Plan[cmd.op][cmd.stage + 1].to)]
    /\ UNCHANGED <<control, listed, half, cards, ccc, builder, up>>

Done ==
    /\ cmd # Idle /\ cmd.todo = {}
    /\ cmd.stage = Len(Plan[cmd.op])
    /\ daq' = Target[cmd.op]
    /\ cmd' = Idle
    /\ UNCHANGED <<clients, misled, listed, half, cards, ccc, builder, up>>

Called(s, post) ==
    /\ cmd # Idle /\ s \in cmd.todo
    /\ Plan[cmd.op][cmd.stage].post = post
Answers(s) == cmd' = [cmd EXCEPT !.todo = @ \ {s}]

-----------------------------------------------------------------------------
(* The clock card, the builder and the database *)

CallCcc ==
    /\ \/ Called(Ccc, "OPEN") /\ opened' = TRUE /\ UNCHANGED acquiring
       \/ Called(Ccc, "START") /\ acquiring' = (acquiring \/ opened) /\ UNCHANGED opened
       \/ Called(Ccc, "STOP") /\ acquiring' = (acquiring /\ ~opened) /\ UNCHANGED opened
    /\ Answers(Ccc)
    /\ UNCHANGED <<control, listed, half, cards, builder, up>>

(* Without a proxy the answer of START and STOP is an error, which nobody    *)
(* looks at.  A DIF counts for the builder when it is in its client's list.  *)
CallShm ==
    /\ \/ Called(Shm, "INITIALISE") /\ proxy' = TRUE /\ UNCHANGED <<building, expects>>
       \/ /\ Called(Shm, "START")
          /\ building' = (building \/ proxy)
          /\ expects' = IF proxy THEN Cardinality(listed) ELSE expects
          /\ UNCHANGED proxy
       \/ Called(Shm, "STOP") /\ building' = FALSE /\ UNCHANGED <<proxy, expects>>
    /\ Answers(Shm)
    /\ UNCHANGED <<control, listed, half, cards, ccc, up>>

CallDb ==
    /\ Called(Db, "NEWRUN") /\ Answers(Db)
    /\ UNCHANGED <<control, listed, half, cards, ccc, builder, up>>

-----------------------------------------------------------------------------
(* RpcDIFServer: its handlers take all the cards of their host.              *)

Mine(h) == known \cap CardsOf(h)

(* Slip: the map keeps the cards of the scan before. *)
ScannedOnTop(h, found) == known \cup found
Scanned(h, found) == (known \ CardsOf(h)) \cup found

(* Every DimDIF of the map is deleted; the devices on the bus get new ones,  *)
(* whose _running is what was in memory.                                     *)
Scan(h) ==
    /\ Called(h, "SCAN")
    /\ \E found \in SUBSET CardsOf(h), garbage \in SUBSET CardsOf(h) :
         /\ garbage \subseteq found
         /\ known' = Scanned(h, found)
         /\ polling' = (polling \ CardsOf(h)) \cup garbage
         /\ listed' = (listed \ CardsOf(h)) \cup found
    /\ rd' = rd \ CardsOf(h)
    /\ services' = services \ CardsOf(h)
    /\ flag' = flag \ CardsOf(h)
    /\ up' = \A c \in Mine(h) : thread[c] = "none"
    /\ Answers(h)
    /\ UNCHANGED <<control, half, thread, ccc, builder>>

(* DimDIF::initialise; a card without a DIFReadout has failed.               *)
Initialise(h) ==
    /\ Called(h, "INITIALISE")
    /\ services' = services \cup Mine(h)
    /\ \E made \in SUBSET Mine(h) : rd' = (rd \ Mine(h)) \cup made
    /\ Answers(h)
    /\ UNCHANGED <<control, listed, half, known, flag, polling, thread, ccc, builder, up>>

(* REGISTERDB and CONFIGURE publish a state for each card, good or bad.      *)
Register(h) ==
    /\ Called(h, "REGISTERDB") \/ Called(h, "CONFIGURE")
    /\ up' = (Mine(h) \subseteq services)
    /\ Answers(h)
    /\ UNCHANGED <<control, listed, half, cards, ccc, builder>>

(* START, card by card: the thread, when the card has none, and start().     *)
StartThreads(h) ==
    /\ Called(h, "START") /\ h \notin half
    /\ flag' = flag \cup Mine(h)
    /\ thread' = [c \in Cards |->
                    IF c \in Mine(h) \ flag THEN "begin" ELSE thread[c]]
    /\ half' = half \cup {h}
    /\ UNCHANGED <<control, cmd, listed, known, rd, services, polling, ccc, builder, up>>

StartCards(h) ==
    /\ Called(h, "START") /\ h \in half
    /\ \E good \in SUBSET (Mine(h) \cap rd) : polling' = polling \cup good
    /\ up' = (Mine(h) \subseteq services)
    /\ half' = half \ {h}
    /\ Answers(h)
    /\ UNCHANGED <<control, listed, known, rd, services, flag, thread, ccc, builder>>

Stop(h) ==
    /\ Called(h, "STOP")
    /\ polling' = polling \ Mine(h)
    /\ up' = (Mine(h) \subseteq services)
    /\ Answers(h)
    /\ UNCHANGED <<control, listed, half, known, rd, services, flag, thread, ccc, builder>>

(* joinThreads                                                               *)
(* Slip: it does not wait.                                                   *)
JoinedAtOnce(h) == TRUE
Joined(h) == \A c \in CardsOf(h) : thread[c] = "none"

(* DESTROY: when a card has its flag up, all are cleared and the threads     *)
(* joined; then every card and its services are deleted.                     *)
DestroyFlags(h) ==
    /\ Called(h, "DESTROY") /\ h \notin half
    /\ Mine(h) \cap flag # {}
    /\ flag' = flag \ Mine(h)
    /\ half' = half \cup {h}
    /\ UNCHANGED <<control, cmd, listed, known, rd, services, polling, thread,
                   ccc, builder, up>>

DestroyCards(h) ==
    /\ Called(h, "DESTROY")
    /\ \/ h \in half /\ Joined(h)
       \/ h \notin half /\ Mine(h) \cap flag = {}
    /\ up' = (Mine(h) \cap rd \subseteq services)
    /\ rd' = rd \ Mine(h)
    /\ services' = services \ Mine(h)
    /\ half' = half \ {h}
    /\ Answers(h)
    /\ UNCHANGED <<control, listed, known, flag, polling, thread, ccc, builder>>

-----------------------------------------------------------------------------
(* DimDIF::readout; inside: in the read and the publication of an event.     *)

Moves(c, from, to) == thread[c] = from /\ thread' = [thread EXCEPT ![c] = to]

Reader(c) ==
    /\ \/ /\ Moves(c, "begin", IF c \in rd THEN "loop" ELSE "failed")
          /\ up' = (c \in rd \cup services)
          /\ UNCHANGED flag
       \/ Moves(c, "failed", "none") /\ flag' = flag \ {c} /\ UNCHANGED up
       \/ Moves(c, "loop", "none") /\ c \notin flag /\ UNCHANGED <<flag, up>>
       \/ Moves(c, "loop", "inside") /\ c \in flag \cap polling /\ UNCHANGED <<flag, up>>
       \/ Moves(c, "inside", "loop") /\ up' = (c \in rd \cap services) /\ UNCHANGED flag
    /\ UNCHANGED <<control, cmd, listed, half, known, rd, services, polling, ccc, builder>>

Handler(h) ==
    \/ Scan(h) \/ Initialise(h) \/ Register(h) \/ StartThreads(h) \/ StartCards(h)
    \/ Stop(h) \/ DestroyFlags(h) \/ DestroyCards(h)

Next ==
    /\ up
    /\ \/ Discover \/ NextStage \/ Done
       \/ \E op \in DOMAIN Plan : Command(op)
       \/ \E to \in DaqStates : ForceState(to)
       \/ CallCcc \/ CallShm \/ CallDb
       \/ \E h \in Hosts : Handler(h)
       \/ \E c \in Cards : Reader(c)

Spec == Init /\ [][Next]_vars

-----------------------------------------------------------------------------
(* Every variable has its type. *)
TypeOK ==
    /\ daq \in DaqStates /\ clients \subseteq Servers /\ misled \in BOOLEAN
    /\ \/ cmd = Idle
       \/ /\ cmd.op \in DOMAIN Plan
          /\ cmd.stage \in 1 .. Len(Plan[cmd.op])
          /\ cmd = [op |-> cmd.op, stage |-> cmd.stage, todo |-> cmd.todo]
          /\ cmd.todo \subseteq clients \cap Plan[cmd.op][cmd.stage].to
    /\ listed \subseteq Cards /\ half \subseteq Hosts
    /\ known \subseteq Cards /\ rd \subseteq Cards /\ services \subseteq Cards
    /\ flag \subseteq Cards /\ polling \subseteq Cards
    /\ thread \in [Cards -> {"none", "begin", "loop", "inside", "failed"}]
    /\ opened \in BOOLEAN /\ acquiring \in BOOLEAN
    /\ proxy \in BOOLEAN /\ building \in BOOLEAN /\ expects \in Nat
    /\ up \in BOOLEAN

(* A DIF server calls through a deleted card or a service that is NULL only  *)
(* if PREPARE was taken in a state its test does not name, or the state was  *)
(* forced: the state tests of the run control are what keeps SCAN, which     *)
(* deletes the cards, away from the threads that START leaves running across *)
(* STOP and CONFIGURE.                                                       *)
DiesOnlyMisled == up \/ misled

(* While the clock card gives triggers, the builder is in a run, waits for   *)
(* as many fragments as there are cards in the servers' maps, and each of    *)
(* them that has a driver has its reader.                                    *)
TriggersAreBuilt ==
    acquiring /\ ~misled =>
        /\ building
        /\ expects = Cardinality({c \in known : HostOf[c] \in clients})
        /\ \A c \in known : HostOf[c] \in clients /\ c \in rd =>
             c \in flag /\ thread[c] \in {"begin", "loop", "inside"}
=============================================================================
