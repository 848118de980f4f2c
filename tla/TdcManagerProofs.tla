------------------------- MODULE TdcManagerProofs -------------------------
(* Theorems about TdcManager: for any frames, any way to cut them, and any   *)
(* number of connections that end.                                          *)
EXTENDS TdcManager, TLAPS

(* Where the pointers stand.                                                *)
Pointers ==
    /\ fsm # "CREATED" => group = "live"
    /\ group = "live" /\ ctrl # "live" => failed = Slc
    /\ msh = "live" => group = "live"
    /\ msh = "dead" => group = "dead"
    /\ group = "null" => \A s \in Sockets : peer[s] = "none"

(* The frame under whose header a payload was handed over.                  *)
Of(h) == h.header[1][1]

(* What is in a header buffer has been read, and nothing is read twice.      *)
HeaderIsPast(b) ==
    \A j \in 1 .. 2 : /\ Beyond(next[b], header[b][j])
                      /\ header[b][j][1] <= Len(sent[b])

(* What was handed over.                                                    *)
HandedSoFar(b) ==
    \A k \in 1 .. Len(handed[b]) :
        LET i == Of(handed[b][k]) IN
        /\ i \in 1 .. Len(sent[b])
        /\ handed[b][k].header[2] = <<i, 1>> => handed[b][k] = Frame(b, i)
        /\ \A j \in 1 .. k - 1 : Of(handed[b][j]) < i
        /\ Beyond(next[b], <<i, 0>>)

(* What is being read: a new frame, and if its header is its own the place   *)
(* in the stream and what is left to read agree.                            *)
Reading(b) ==
    InPayload(b) =>
        LET i == header[b][1][1] IN
        /\ header[b][1] = <<i, 0>> /\ i \in 1 .. Len(sent[b])
        /\ \A k \in 1 .. Len(handed[b]) : Of(handed[b][k]) < i
        /\ message.need <= message.cells
        /\ header[b][2] = <<i, 1>> =>
              /\ message.from = <<i, 2>> /\ message.cells = Cells(sent[b][i])
              /\ next[b] = IF message.need > 0
                           THEN <<i, 2 + message.cells - message.need>>
                           ELSE <<i + 1, 0>>

(* While every header of the board came whole the listener is in step.      *)
InStep(b) ==
    LET n == Len(handed[b]) IN
    b \notin split =>
        /\ \A k \in 1 .. n : handed[b][k].header = <<<<k, 0>>, <<k, 1>>>>
        /\ InPayload(b) => header[b] = <<<<n + 1, 0>>, <<n + 1, 1>>>>
        /\ ~InPayload(b) => \/ next[b] = <<n + 1, 0>>
                            \/ peer[b] = "closed" /\ next[b][1] > Len(sent[b])

Stream(b) == HeaderIsPast(b) /\ HandedSoFar(b) /\ Reading(b) /\ InStep(b)

IInv == TypeOK /\ Pointers /\ NoCrash /\ \A b \in Boards : Stream(b)

-----------------------------------------------------------------------------
(* The cells. *)

LEMMA AfterIsCell ==
    ASSUME NEW s, NEW c \in Cell
    PROVE  After(s, c) \in Cell /\ Beyond(After(s, c), c)
  BY DEF After, Cell, Beyond, Cells

LEMMA AfterIn ==
    ASSUME TypeOK, NEW s \in Sockets, NEW i \in 1 .. Len(sent[s]), NEW j \in Nat
    PROVE  After(s, <<i, j>>) = IF j < 2 * sent[s][i] + 1 THEN <<i, j + 1>>
                                ELSE <<i + 1, 0>>
  BY DEF After, Cells

LEMMA HeaderCells ==
    ASSUME TypeOK, NEW s \in Sockets, NEW i \in 1 .. Len(sent[s])
    PROVE  After(s, <<i, 0>>) = <<i, 1>> /\ After(s, <<i, 1>>) = <<i, 2>>
<1>1. sent[s] \in Seq(Lines)
  BY DEF TypeOK
<1>2. sent[s][i] \in Lines
  BY <1>1
<1>3. sent[s][i] \in Nat /\ sent[s][i] > 0
  <2>1. \A n \in Lines : n \in Nat \ {0}
    BY LinesAssumption
  <2> QED BY <1>2, <2>1
<1>4. 0 < 2 * sent[s][i] + 1 /\ 1 < 2 * sent[s][i] + 1
  BY <1>3
<1>5. After(s, <<i, 0>>) = IF 0 < 2 * sent[s][i] + 1 THEN <<i, 0 + 1>> ELSE <<i + 1, 0>>
  BY AfterIn
<1>6. After(s, <<i, 1>>) = IF 1 < 2 * sent[s][i] + 1 THEN <<i, 1 + 1>> ELSE <<i + 1, 0>>
  BY AfterIn
<1> QED BY <1>4, <1>5, <1>6

LEMMA Frames ==
    ASSUME TypeOK, NEW s \in Sockets
    PROVE  /\ sent[s] \in Seq(Lines) /\ Len(sent[s]) \in Nat
           /\ \A i \in 1 .. Len(sent[s]) : sent[s][i] \in Nat \ {0}
<1>1. sent[s] \in Seq(Lines)
  BY DEF TypeOK
<1>2. \A i \in 1 .. Len(sent[s]) : sent[s][i] \in Lines
  BY <1>1
<1>3. \A n \in Lines : n \in Nat \ {0}
  BY LinesAssumption
<1>4. Len(sent[s]) \in Nat
  BY <1>1
<1> QED BY <1>1, <1>2, <1>3, <1>4

LEMMA NoneIs == /\ None.step = "select"
                /\ None \in [step : {"select", "payload", "slow"}, of : Sockets,
                             from : Cell, cells : Nat, need : Nat]
  BY DEF None, Message, NoCell, Sockets, Cell

LEMMA BoardsAreSockets == Boards \subseteq Sockets /\ Slc \in Sockets /\ Slc \notin Boards
  BY SocketsAssumption DEF Sockets

-----------------------------------------------------------------------------
(* Types. *)

LEMMA CrashTypes == ASSUME TypeOK, Crash PROVE TypeOK'
  BY DEF Crash, TypeOK, manager, wire, reader

LEMMA ManagerTypes == ASSUME TypeOK, Manager PROVE TypeOK'
<1>1. CASE Initialise
  <2>1. \A x \in Transitions : x[3] \in {"CREATED", "INITIALISED", "CONFIGURED", "RUNNING"}
    BY DEF Transitions, Configures
  <2>2. fsm' \in {"CREATED", "INITIALISED", "CONFIGURED", "RUNNING"}
    BY <1>1, <2>1 DEF Initialise, Completes
  <2>3. members' \subseteq Sockets
    BY <1>1 DEF Initialise, Before, Sockets, Boards
  <2> QED BY <1>1, <2>2, <2>3 DEF Initialise, TypeOK, reader
<1>2. CASE Destroy
  BY <1>2 DEF Destroy, Completes, Transitions, Configures, TypeOK, wire, reader
<1>3. ASSUME NEW op \in {"CONFIGURE", "START", "STOP"}, Acquisition(op) PROVE TypeOK'
  <2>1. CASE Crash
    BY <2>1, CrashTypes
  <2>2. CASE ~Crash
    <3>1. /\ Completes(op) /\ acquire' = (op = "START")
          /\ UNCHANGED <<msh, group, ctrl, members, failed, listening, crashed, wire,
                         reader>>
      BY <1>3, <2>2 DEF Acquisition
    <3>2. fsm' \in {"CREATED", "INITIALISED", "CONFIGURED", "RUNNING"}
      BY <3>1 DEF Completes, Transitions, Configures
    <3>3. acquire' \in BOOLEAN
      BY <3>1
    <3> QED BY <3>1, <3>2, <3>3 DEF TypeOK, wire, reader
  <2> QED BY <2>1, <2>2
<1>4. CASE InitialiseAgain \/ StartRaces \/ WebStatus \/ WebSet
  BY <1>4, CrashTypes DEF InitialiseAgain, StartRaces, WebStatus, WebSet
<1> QED BY <1>1, <1>2, <1>3, <1>4 DEF Manager

LEMMA NetworkTypes == ASSUME TypeOK, Network PROVE TypeOK'
<1>1. ASSUME NEW s \in Sockets, SendFrame(s) PROVE TypeOK'
  <2>1. PICK n \in Lines : sent' = [sent EXCEPT ![s] = Append(@, n)]
    BY <1>1 DEF SendFrame
  <2>2. sent' \in [Sockets -> Seq(Lines)]
    BY <2>1 DEF TypeOK
  <2> QED BY <1>1, <2>2 DEF SendFrame, TypeOK, manager, reader
<1>2. ASSUME NEW s \in Sockets, PeerCloses(s) PROVE TypeOK'
  BY <1>2 DEF PeerCloses, TypeOK, manager, reader
<1> QED BY <1>1, <1>2 DEF Network

(* What a read of a header leaves. *)
LEMMA HeaderRead ==
    ASSUME TypeOK, NEW s \in Sockets, ReadHeader(s)
    PROVE  LET second == After(s, next[s]) IN
           /\ next[s] \in Cell /\ second \in Cell /\ message = None
           /\ next[s][1] <= Len(sent[s])
           /\ UNCHANGED <<manager, crashed, wire, handed>>
           /\ \A z \in Sockets \ {s} : /\ next'[z] = next[z] /\ header'[z] = header[z]
                                       /\ z \in split' <=> z \in split
           /\ next' \in [Sockets -> Cell] /\ header' \in [Sockets -> Cell \X Cell]
           /\ split' \subseteq Sockets
           /\ \/ /\ second[1] <= Len(sent[s])
                 /\ header'[s] = <<next[s], second>>
                 /\ next'[s] = After(s, second)
                 /\ split' = split
              \/ /\ header'[s] = <<next[s], header[s][2]>>
                 /\ next'[s] = second
                 /\ s \in split'
<1> DEFINE second == After(s, next[s])
<1>1. next[s] \in Cell /\ header[s] \in Cell \X Cell
  BY DEF TypeOK
<1>2. second \in Cell /\ After(s, second) \in Cell
  BY <1>1, AfterIsCell
<1>3. /\ UNCHANGED <<manager, crashed, wire, handed>> /\ message = None
      /\ next[s][1] <= Len(sent[s])
  BY DEF ReadHeader, HasCell
<1>4. \/ /\ second[1] <= Len(sent[s])
         /\ header' = [header EXCEPT ![s] = <<next[s], second>>]
         /\ next' = [next EXCEPT ![s] = After(s, second)]
         /\ split' = split
      \/ /\ header' = [header EXCEPT ![s] = <<next[s], @[2]>>]
         /\ next' = [next EXCEPT ![s] = second]
         /\ split' = split \cup {s}
  BY DEF ReadHeader
<1> HIDE DEF second
<1>5. header[s][2] \in Cell
  BY <1>1
<1>6. next \in [Sockets -> Cell] /\ header \in [Sockets -> Cell \X Cell]
      /\ split \subseteq Sockets
  BY DEF TypeOK
<1>7. next' \in [Sockets -> Cell] /\ header' \in [Sockets -> Cell \X Cell]
      /\ split' \subseteq Sockets
  BY <1>1, <1>2, <1>4, <1>5, <1>6
<1>8. \/ /\ second[1] <= Len(sent[s])
         /\ header'[s] = <<next[s], second>>
         /\ next'[s] = After(s, second)
         /\ split' = split
      \/ /\ header'[s] = <<next[s], header[s][2]>>
         /\ next'[s] = second
         /\ s \in split'
  BY <1>4, <1>6
<1>9. \A z \in Sockets \ {s} : /\ next'[z] = next[z] /\ header'[z] = header[z]
                               /\ z \in split' <=> z \in split
  BY <1>4, <1>6
<1> QED BY <1>1, <1>2, <1>3, <1>7, <1>8, <1>9 DEF second

LEMMA ListenerTypes == ASSUME TypeOK, Listener PROVE TypeOK'
<1>1. ASSUME NEW s \in Sockets, ReadHeader(s),
             message' \in [step : {"select", "payload", "slow"}, of : Sockets,
                           from : Cell, cells : Nat, need : Nat]
      PROVE  TypeOK'
  <2>1. /\ next' \in [Sockets -> Cell] /\ header' \in [Sockets -> Cell \X Cell]
        /\ split' \subseteq Sockets
        /\ UNCHANGED <<manager, crashed, wire, handed>>
    BY <1>1, HeaderRead
  <2> QED BY <1>1, <2>1 DEF TypeOK, manager, wire
<1>2. ASSUME NEW s \in Sockets, DropHeader(s) PROVE TypeOK'
  BY <1>1, <1>2 DEF DropHeader, TypeOK
<1>3. ASSUME NEW s \in Sockets, Disconnect(s) PROVE TypeOK'
  BY <1>3, CrashTypes DEF Disconnect
<1>4. ASSUME NEW b \in Boards, TdcHeader(b) PROVE TypeOK'
  <2>1. b \in Sockets /\ ReadHeader(b)
    BY <1>4, BoardsAreSockets DEF TdcHeader
  <2>2. next'[b] \in Cell
    BY <2>1, HeaderRead
  <2>3. PICK n \in LinesIn(b, header'[b][2]) :
            message' = Message("payload", b, next'[b], PayloadCells(n))
    BY <1>4 DEF TdcHeader
  <2>4. n \in Nat
    BY <2>1, Frames, LinesAssumption DEF LinesIn
  <2>5. PayloadCells(n) \in Nat
    BY <2>4 DEF PayloadCells
  <2> QED BY <1>1, <2>1, <2>2, <2>3, <2>5 DEF Message
<1>5. CASE SlowHeader
  <2>1. Slc \in Sockets
    BY BoardsAreSockets
  <2>2. NoCell \in Cell
    BY DEF NoCell, Cell
  <2> QED BY <1>1, <1>5, <2>1, <2>2 DEF SlowHeader, Message
<1>6. CASE ReadPayload
  <2>1. /\ message.of \in Sockets /\ message.need \in Nat /\ message.need > 0
        /\ next[message.of] \in Cell
    BY <1>6 DEF ReadPayload, MoreToRead, TypeOK
  <2>2. next' \in [Sockets -> Cell]
    BY <1>6, <2>1, AfterIsCell DEF ReadPayload, TypeOK
  <2>3. message' \in [step : {"select", "payload", "slow"}, of : Sockets, from : Cell,
                      cells : Nat, need : Nat]
    <3>1. message' = [message EXCEPT !.need = message.need - 1]
      BY <1>6 DEF ReadPayload
    <3>2. message.need - 1 \in Nat
      BY <2>1
    <3>3. message \in [step : {"select", "payload", "slow"}, of : Sockets, from : Cell,
                       cells : Nat, need : Nat]
      BY DEF TypeOK
    <3> QED BY <3>1, <3>2, <3>3
  <2> QED BY <1>6, <2>2, <2>3 DEF ReadPayload, TypeOK, manager, wire
<1>7. CASE AddChannels
  <2> DEFINE h == [header |-> header[message.of], from |-> message.from,
                   cells |-> message.cells - message.need]
  <2>1. /\ message.of \in Sockets /\ message.need = 0 /\ message.cells \in Nat
        /\ message.from \in Cell /\ header[message.of] \in Cell \X Cell
    BY <1>7 DEF AddChannels, PayloadRead, TypeOK
  <2>2. h \in Handed
    BY <2>1 DEF Handed
  <2>3. handed' = [handed EXCEPT ![message.of] = Append(@, h)]
    BY <1>7 DEF AddChannels
  <2> HIDE DEF h
  <2>4. handed' \in [Boards -> Seq(Handed)]
    <3>1. handed \in [Boards -> Seq(Handed)]
      BY DEF TypeOK
    <3>2. CASE message.of \in Boards
      <4>1. Append(handed[message.of], h) \in Seq(Handed)
        BY <2>2, <3>1, <3>2
      <4> QED BY <2>3, <3>1, <4>1
    <3>3. CASE message.of \notin Boards
      BY <2>3, <3>1, <3>3
    <3> QED BY <3>2, <3>3
  <2> QED BY <1>7, <2>4, NoneIs DEF AddChannels, TypeOK, manager, wire
<1>8. CASE ReadSlow
  <2>1. PICK c \in CellsOf(Slc) : next' = [next EXCEPT ![Slc] = c]
    BY <1>8 DEF ReadSlow
  <2>2. c \in Cell
    <3>1. CASE c = <<Len(sent[Slc]) + 1, 0>>
      BY <3>1, Frames, BoardsAreSockets DEF Cell
    <3>2. ASSUME NEW i \in 1 .. Len(sent[Slc]), NEW j \in 0 .. Cells(sent[Slc][i]) + 1,
                 c = <<i, j>>
          PROVE  c \in Cell
      BY <3>2 DEF Cell
    <3>3. CASE c # <<Len(sent[Slc]) + 1, 0>>
      <4> DEFINE F(i) == {<<i, j>> : j \in 0 .. Cells(sent[Slc][i]) + 1}
                 A == {F(i) : i \in 1 .. Len(sent[Slc])}
                 last == <<Len(sent[Slc]) + 1, 0>>
      <4>0. CellsOf(Slc) = {last} \cup UNION A
        BY DEF CellsOf
      <4> HIDE DEF A, F, last
      <4>1. c \in UNION A
        BY <2>1, <3>3, <4>0 DEF last
      <4>2. PICK i \in 1 .. Len(sent[Slc]) : c \in F(i)
        BY <4>1 DEF A
      <4>3. PICK j \in 0 .. Cells(sent[Slc][i]) + 1 : c = <<i, j>>
        BY <4>2 DEF F
      <4> QED BY <3>2, <4>2, <4>3
    <3> QED BY <3>1, <3>3
  <2> QED BY <1>8, <2>1, <2>2, NoneIs DEF ReadSlow, TypeOK, manager, wire
<1>9. CASE MessageEnds
  <2>1. message.of \in Sockets
    BY DEF TypeOK
  <2>2. <<Len(sent[message.of]) + 1, 0>> \in Cell
    BY <2>1, Frames DEF Cell
  <2> QED BY <1>9, <2>1, <2>2, NoneIs DEF MessageEnds, TypeOK, manager, wire
<1>10. CASE SlowThrows \/ ListenDestroyed
  BY <1>10, CrashTypes DEF SlowThrows, ListenDestroyed
<1> QED BY <1>2, <1>3, <1>4, <1>5, <1>6, <1>7, <1>8, <1>9, <1>10 DEF Listener

LEMMA TypesInitially == Init => TypeOK
<1>1. /\ FirstCells \in [Sockets -> Cell] /\ NoHeaders \in [Sockets -> Cell \X Cell]
      /\ NothingHanded \in [Boards -> Seq(Handed)]
  BY DEF FirstCells, NoHeaders, NothingHanded, Cell, NoCell
<1>2. [s \in Sockets |-> <<>>] \in [Sockets -> Seq(Lines)]
  OBVIOUS
<1>3. [s \in Sockets |-> "none"] \in [Sockets -> {"none", "open", "closed"}]
  OBVIOUS
<1> QED BY <1>1, <1>2, <1>3, NoneIs DEF Init, TypeOK

LEMMA TypesKept == TypeOK /\ [Next]_vars => TypeOK'
<1>1. CASE UNCHANGED vars
  BY <1>1 DEF TypeOK, vars, manager, wire, reader
<1> QED BY <1>1, ManagerTypes, NetworkTypes, ListenerTypes DEF Next

-----------------------------------------------------------------------------
(* The pointers, and what the process dies of. *)

LEMMA Moves ==
    \A x \in Transitions :
        /\ x[1] \in {"CONFIGURE", "START", "STOP", "DESTROY"} => x[2] # "CREATED"
        /\ x[1] \in {"CONFIGURE", "START", "STOP"} => x[3] # "CREATED"
        /\ x[1] = "DESTROY" => x[3] = "CREATED"
        /\ x[1] = "INITIALISE" => x[2] = "CREATED"
  BY DEF Transitions, Configures

LEMMA PointersKept ==
    ASSUME TypeOK, Pointers, NoCrash, ~crashed, Manager \/ Network \/ Listener
    PROVE  Pointers' /\ NoCrash'
(* A crash changes nothing else: only its cause is in question. *)
<1>1. ASSUME Crash, \/ \E s \in Sockets : peer[s] = "closed"
                    \/ group = "dead" \/ failed = Slc \/ msh = "garbage"
                    \/ fsm = "CONFIGURED" /\ EntersReadout
      PROVE  Pointers' /\ NoCrash'
  BY <1>1 DEF Crash, Pointers, NoCrash, EntersReadout, HasCell, manager, wire, reader
<1>2. SendKills /\ group # "null" =>
        \/ \E s \in Sockets : peer[s] = "closed"
        \/ group = "dead" \/ failed = Slc
  BY BoardsAreSockets DEF SendKills, Pointers, TypeOK
<1>3. CASE Initialise
  <2>1. /\ group' = "live" /\ msh' = "live" /\ members' = Before(failed')
        /\ ctrl' = IF Slc \in members' THEN "live" ELSE "null"
        /\ failed' \in {"none"} \cup Sockets
        /\ ~crashed'
    BY <1>3 DEF Initialise
  <2>2. failed' # Slc => Slc \in members'
    BY <2>1, SocketsAssumption DEF Before, Sockets, Boards
  <2> QED BY <2>1, <2>2 DEF Pointers, NoCrash
<1>4. CASE Destroy
  <2>1. group' = "dead" /\ msh' = "dead" /\ ~crashed' /\ fsm' = "CREATED"
    BY <1>4, Moves DEF Destroy, Completes
  <2> QED BY <2>1 DEF Pointers, NoCrash
<1>5. ASSUME NEW op \in {"CONFIGURE", "START", "STOP"}, Acquisition(op)
      PROVE  Pointers' /\ NoCrash'
  <2>1. CASE Accepts(op) /\ SendKills /\ Crash
    <3>1. fsm # "CREATED"
      BY <2>1, Moves DEF Accepts
    <3>2. group # "null"
      BY <3>1 DEF Pointers
    <3> QED BY <1>1, <1>2, <2>1, <3>2
  <2>2. CASE Completes(op) /\ UNCHANGED <<msh, group, ctrl, members, failed, listening,
                                          crashed, wire, reader>>
    <3>1. fsm # "CREATED"
      BY <2>2, Moves DEF Completes
    <3> QED BY <2>2, <3>1 DEF Pointers, NoCrash, wire
  <2> QED BY <1>5, <2>1, <2>2 DEF Acquisition
<1>6. CASE InitialiseAgain
  BY <1>1, <1>6 DEF InitialiseAgain
<1>7. CASE WebStatus
  BY <1>1, <1>7 DEF WebStatus, Pointers
<1>8. CASE WebSet
  <2>1. msh = "garbage" \/ group # "null"
    BY <1>8 DEF WebSet, Pointers, TypeOK
  <2> QED BY <1>1, <1>2, <1>8, <2>1 DEF WebSet
<1>9. CASE StartRaces
  <2>1. fsm = "CONFIGURED"
    BY <1>9 DEF StartRaces, Accepts, Transitions, Configures
  <2> QED BY <1>1, <1>9, <2>1 DEF StartRaces
<1>10. CASE SlowThrows
  BY <1>1, <1>10, BoardsAreSockets DEF SlowThrows
<1>11. ASSUME NEW s \in Sockets, SendFrame(s) PROVE Pointers' /\ NoCrash'
  BY <1>11 DEF SendFrame, Pointers, NoCrash, manager
<1>12. ASSUME NEW s \in Sockets, PeerCloses(s) PROVE Pointers' /\ NoCrash'
  <2>1. peer[s] = "open" /\ ~crashed' /\ UNCHANGED manager
    BY <1>12 DEF PeerCloses
  <2>2. group # "null"
    BY <2>1 DEF Pointers
  <2> QED BY <2>1, <2>2 DEF Pointers, NoCrash, manager
<1>13. ASSUME NEW s \in Sockets, Disconnect(s) PROVE Pointers' /\ NoCrash'
  BY <1>1, <1>13 DEF Disconnect
<1>14. CASE ListenDestroyed
  BY <1>1, <1>14 DEF ListenDestroyed
<1>15. ASSUME UNCHANGED <<manager, crashed, wire>> PROVE Pointers' /\ NoCrash'
  BY <1>15 DEF Pointers, NoCrash, manager, wire
<1>16. ASSUME NEW s \in Sockets, ReadHeader(s) PROVE Pointers' /\ NoCrash'
  BY <1>15, <1>16 DEF ReadHeader
<1>17. CASE ReadPayload \/ AddChannels \/ ReadSlow \/ MessageEnds
  BY <1>15, <1>17 DEF ReadPayload, AddChannels, ReadSlow, MessageEnds
<1>18. CASE Manager
  BY <1>3, <1>4, <1>5, <1>6, <1>7, <1>8, <1>18, <1>9 DEF Manager
<1>19. CASE Listener
  BY <1>13, <1>14, <1>16, <1>17, <1>19, <1>10, BoardsAreSockets
     DEF Listener, DropHeader, TdcHeader, SlowHeader
<1> QED BY <1>11, <1>12, <1>18, <1>19 DEF Network

-----------------------------------------------------------------------------
(* The streams. *)

(* A step that leaves the stream of a board and its reading alone.          *)
LEMMA StreamUntouched ==
    ASSUME NEW b \in Boards, Stream(b), TypeOK,
           UNCHANGED <<next[b], header[b], sent[b], handed[b]>>,
           b \in split' <=> b \in split,
           peer[b] = "closed" => peer'[b] = "closed",
           message' = message \/ (~InPayload(b) /\ ~InPayload(b)')
    PROVE  Stream(b)'
<1>1. HeaderIsPast(b)'
  BY DEF Stream, HeaderIsPast
<1>2. HandedSoFar(b)'
  BY DEF Stream, HandedSoFar, Frame, Of
<1>3. Reading(b)'
  BY DEF Stream, Reading, InPayload, Of
<1>4. InStep(b)'
  BY DEF Stream, InStep, InPayload
<1> QED BY <1>1, <1>2, <1>3, <1>4 DEF Stream

LEMMA CrashStream == ASSUME NEW b \in Boards, TypeOK, Stream(b), Crash PROVE Stream(b)'
  BY StreamUntouched DEF Crash, wire, reader

LEMMA InitStream == ASSUME NEW b \in Boards, Init PROVE Stream(b)
<1>1. /\ next[b] = <<1, 0>> /\ header[b] = <<<<0, 0>>, <<0, 0>>>>
      /\ handed[b] = <<>> /\ message.step = "select" /\ split = {}
      /\ sent[b] = <<>>
  BY NoneIs, BoardsAreSockets DEF Init, FirstCells, NoHeaders, NothingHanded, NoCell
<1>2. HeaderIsPast(b)
  BY <1>1 DEF HeaderIsPast, Beyond
<1>3. HandedSoFar(b) /\ Reading(b) /\ InStep(b)
  BY <1>1 DEF HandedSoFar, Reading, InStep, InPayload
<1> QED BY <1>2, <1>3 DEF Stream

(* The board sends: the frames that are there keep their places.            *)
LEMMA SendStream ==
    ASSUME NEW b \in Boards, TypeOK, Stream(b), SendFrame(b)
    PROVE  Stream(b)'
<1>0. b \in Sockets
  BY BoardsAreSockets
<1>1. PICK n \in Lines : sent' = [sent EXCEPT ![b] = Append(@, n)]
  BY DEF SendFrame
<1>2. /\ peer[b] = "open" /\ UNCHANGED <<peer, next, header, split, message, handed>>
  BY DEF SendFrame, reader
<1>3. sent[b] \in Seq(Lines) /\ sent'[b] = Append(sent[b], n)
  BY <1>0, <1>1, Frames DEF TypeOK
<1>4. /\ Len(sent'[b]) = Len(sent[b]) + 1 /\ Len(sent[b]) \in Nat
      /\ \A i \in 1 .. Len(sent[b]) : sent'[b][i] = sent[b][i]
  BY <1>3
<1>5. HeaderIsPast(b)'
  <2>0. header[b] \in Cell \X Cell
    BY <1>0 DEF TypeOK
  <2>1. \A j \in 1 .. 2 : header[b][j][1] \in Nat
    BY <2>0 DEF Cell
  <2> QED BY <1>2, <1>4, <2>1 DEF Stream, HeaderIsPast
<1>6. HandedSoFar(b)'
  <2> SUFFICES ASSUME NEW k \in 1 .. Len(handed[b])
               PROVE  LET i == Of(handed[b][k]) IN
                      /\ i \in 1 .. Len(sent'[b])
                      /\ handed[b][k].header[2] = <<i, 1>> =>
                           handed[b][k] = [header |-> <<<<i, 0>>, <<i, 1>>>>,
                                           from |-> <<i, 2>>, cells |-> Cells(sent'[b][i])]
                      /\ \A j \in 1 .. k - 1 : Of(handed[b][j]) < i
                      /\ Beyond(next[b], <<i, 0>>)
    BY <1>2 DEF HandedSoFar, Of, Frame
  <2> DEFINE i == Of(handed[b][k])
  <2>1. /\ i \in 1 .. Len(sent[b])
        /\ handed[b][k].header[2] = <<i, 1>> =>
             handed[b][k] = [header |-> <<<<i, 0>>, <<i, 1>>>>,
                             from |-> <<i, 2>>, cells |-> Cells(sent[b][i])]
        /\ \A j \in 1 .. k - 1 : Of(handed[b][j]) < i
        /\ Beyond(next[b], <<i, 0>>)
    BY DEF Stream, HandedSoFar, Frame
  <2>2. i \in 1 .. Len(sent'[b]) /\ sent'[b][i] = sent[b][i]
    BY <1>4, <2>1
  <2> QED BY <2>1, <2>2
<1>7. Reading(b)'
  BY <1>2, <1>4 DEF Stream, Reading, InPayload, Of
<1>8. InStep(b)'
  BY <1>2 DEF Stream, InStep, InPayload
<1> QED BY <1>5, <1>6, <1>7, <1>8 DEF Stream

(* The read of a header of the board, as far as both kinds of message share. *)
LEMMA HeaderStream ==
    ASSUME NEW b \in Boards, TypeOK, Stream(b), ReadHeader(b)
    PROVE  /\ ~InPayload(b) /\ UNCHANGED <<sent, handed, peer>>
           /\ HeaderIsPast(b)' /\ HandedSoFar(b)'
           /\ next[b] \in Cell /\ header'[b][1] = next[b]
           /\ next[b][1] <= Len(sent[b])
           /\ \A k \in 1 .. Len(handed[b]) : Beyond(next[b], <<Of(handed[b][k]), 0>>)
           /\ header'[b][2] = <<next[b][1], 1>> /\ Magic(next[b]) =>
                next'[b] = <<next[b][1], 2>>
           /\ b \notin split' => /\ b \notin split
                                 /\ header'[b][2] = After(b, next[b])
<1>0. b \in Sockets
  BY BoardsAreSockets
<1> DEFINE first == next[b]
           second == After(b, next[b])
<1>1. /\ first \in Cell /\ second \in Cell /\ message = None
      /\ first[1] <= Len(sent[b])
      /\ UNCHANGED <<sent, handed, peer>>
      /\ next' \in [Sockets -> Cell] /\ header' \in [Sockets -> Cell \X Cell]
      /\ \/ /\ second[1] <= Len(sent[b])
            /\ header'[b] = <<first, second>>
            /\ next'[b] = After(b, second)
            /\ split' = split
         \/ /\ header'[b] = <<first, header[b][2]>>
            /\ next'[b] = second
            /\ b \in split'
  BY <1>0, HeaderRead DEF wire
<1>2. ~InPayload(b)
  BY <1>1, NoneIs DEF InPayload
<1>3. Beyond(second, first) /\ Beyond(After(b, second), second)
  BY <1>1, AfterIsCell
<1>4. /\ next'[b] \in Cell /\ After(b, second) \in Cell
      /\ header[b][1] \in Cell /\ header[b][2] \in Cell /\ Len(sent[b]) \in Nat
  BY <1>0, <1>1, AfterIsCell, Frames DEF TypeOK
(* Beyond is an order of the cells. *)
<1>5. \A c, d, e \in Cell : Beyond(c, d) /\ Beyond(d, e) => Beyond(c, e)
  BY DEF Beyond, Cell
<1>6. Beyond(next'[b], first)
  BY <1>1, <1>3, <1>4, <1>5
<1>7. /\ Beyond(first, header[b][2]) /\ header[b][2][1] <= Len(sent[b])
  BY DEF Stream, HeaderIsPast
<1>8. HeaderIsPast(b)'
  <2>1. Beyond(next'[b], header'[b][1]) /\ header'[b][1][1] <= Len(sent[b])
    BY <1>1, <1>6
  <2>2. Beyond(next'[b], header'[b][2]) /\ header'[b][2][1] <= Len(sent[b])
    <3>1. CASE header'[b] = <<first, second>> /\ next'[b] = After(b, second)
               /\ second[1] <= Len(sent[b])
      BY <1>3, <3>1
    <3>2. CASE header'[b] = <<first, header[b][2]>> /\ next'[b] = second
      <4>1. Beyond(second, header[b][2])
        BY <1>1, <1>3, <1>4, <1>5, <1>7
      <4> QED BY <1>7, <3>2, <4>1
    <3> QED BY <1>1, <3>1, <3>2
  <2>3. \A j \in 1 .. 2 : j = 1 \/ j = 2
    OBVIOUS
  <2> QED BY <1>1, <2>1, <2>2, <2>3 DEF HeaderIsPast
<1>9. \A k \in 1 .. Len(handed[b]) : /\ Beyond(first, <<Of(handed[b][k]), 0>>)
                                     /\ Of(handed[b][k]) \in 1 .. Len(sent[b])
  BY DEF Stream, HandedSoFar
<1>10. HandedSoFar(b)'
  <2>1. \A k \in 1 .. Len(handed[b]) : Beyond(next'[b], <<Of(handed[b][k]), 0>>)
    <3> TAKE k \in 1 .. Len(handed[b])
    <3>1. <<Of(handed[b][k]), 0>> \in Cell
      BY <1>9 DEF Cell
    <3> QED BY <1>1, <1>4, <1>5, <1>6, <1>9, <3>1
  <2> QED BY <1>1, <2>1 DEF Stream, HandedSoFar, Of, Frame
<1>11. header'[b][2] = <<first[1], 1>> /\ Magic(first) => next'[b] = <<first[1], 2>>
  <2> SUFFICES ASSUME header'[b][2] = <<first[1], 1>>, Magic(first)
               PROVE  next'[b] = <<first[1], 2>>
    OBVIOUS
  <2>1. first = <<first[1], 0>> /\ first[1] \in 1 .. Len(sent[b])
    BY <1>1, <1>4 DEF Magic, Cell
  <2>2. second = <<first[1], 1>> /\ After(b, <<first[1], 1>>) = <<first[1], 2>>
    BY <1>0, <2>1, HeaderCells
  <2>4. CASE header'[b] = <<first, header[b][2]>>
    <3>1. header[b][2] = <<first[1], 1>>
      BY <2>4
    <3> QED BY <1>7, <2>1, <3>1 DEF Beyond
  <2> QED BY <1>1, <2>2, <2>4
<1>12. b \notin split' => b \notin split /\ header'[b][2] = second
  BY <1>1
<1> QED BY <1>1, <1>2, <1>8, <1>9, <1>10, <1>11, <1>12

(* Where the first cell of the header is, when the listener is in step.     *)
LEMMA InStepAtHeader ==
    ASSUME NEW b \in Boards, TypeOK, Stream(b), ReadHeader(b), b \notin split'
    PROVE  LET n == Len(handed[b]) IN
           /\ next[b] = <<n + 1, 0>> /\ Magic(next[b])
           /\ header'[b] = <<<<n + 1, 0>>, <<n + 1, 1>>>>
<1>0. b \in Sockets
  BY BoardsAreSockets
<1>1. /\ b \notin split /\ ~InPayload(b) /\ header'[b][1] = next[b]
      /\ header'[b][2] = After(b, next[b])
      /\ next[b] \in Cell /\ next[b][1] <= Len(sent[b])
  BY HeaderStream
<1>2. Len(sent[b]) \in Nat /\ Len(handed[b]) \in Nat
  BY <1>0, Frames DEF TypeOK
<1>3. next[b] = <<Len(handed[b]) + 1, 0>>
  BY <1>1, <1>2 DEF Stream, InStep, Cell
<1>4. Magic(next[b]) /\ Len(handed[b]) + 1 \in 1 .. Len(sent[b])
  BY <1>1, <1>2, <1>3 DEF Magic
<1>5. After(b, next[b]) = <<Len(handed[b]) + 1, 1>>
  BY <1>0, <1>3, <1>4, HeaderCells
<1>6. header'[b] \in Cell \X Cell
  BY <1>0, HeaderRead
<1>7. header'[b] = <<header'[b][1], header'[b][2]>>
  BY <1>6
<1> QED BY <1>1, <1>3, <1>4, <1>5, <1>7

LEMMA DropStream ==
    ASSUME NEW b \in Boards, TypeOK, Stream(b), DropHeader(b)
    PROVE  Stream(b)'
<1>1. ReadHeader(b) /\ ~Magic(header'[b][1]) /\ UNCHANGED message
  BY DEF DropHeader
<1>2. /\ ~InPayload(b) /\ HeaderIsPast(b)' /\ HandedSoFar(b)' /\ header'[b][1] = next[b]
  BY <1>1, HeaderStream
<1>3. ~InPayload(b)'
  BY <1>1, <1>2 DEF InPayload
<1>4. b \in split'
  BY <1>1, <1>2, InStepAtHeader
<1> QED BY <1>2, <1>3, <1>4 DEF Stream, Reading, InStep

LEMMA TdcStream ==
    ASSUME NEW b \in Boards, TypeOK, Stream(b), TdcHeader(b)
    PROVE  Stream(b)'
<1>0. b \in Sockets
  BY BoardsAreSockets
<1>1. ReadHeader(b) /\ Magic(header'[b][1])
  BY DEF TdcHeader
<1>2. PICK n \in LinesIn(b, header'[b][2]) :
        message' = Message("payload", b, next'[b], PayloadCells(n))
  BY DEF TdcHeader
<1>3. /\ UNCHANGED <<sent, handed, peer>>
      /\ HeaderIsPast(b)' /\ HandedSoFar(b)'
      /\ next[b] \in Cell /\ header'[b][1] = next[b]
      /\ next[b][1] <= Len(sent[b])
      /\ \A k \in 1 .. Len(handed[b]) : Beyond(next[b], <<Of(handed[b][k]), 0>>)
      /\ header'[b][2] = <<next[b][1], 1>> /\ Magic(next[b]) =>
           next'[b] = <<next[b][1], 2>>
  BY <1>1, HeaderStream
<1>4. /\ message'.step = "payload" /\ message'.of = b /\ message'.from = next'[b]
      /\ message'.cells = PayloadCells(n) /\ message'.need = PayloadCells(n)
  BY <1>2 DEF Message
<1> DEFINE i == next[b][1]
<1>5. next[b] = <<i, 0>> /\ i \in 1 .. Len(sent[b])
  BY <1>1, <1>3 DEF Magic, Cell
<1>6. \A k \in 1 .. Len(handed[b]) : Of(handed[b][k]) \in Nat /\ Of(handed[b][k]) < i
  <2>1. \A k \in 1 .. Len(handed[b]) : Of(handed[b][k]) \in 1 .. Len(sent[b])
    BY DEF Stream, HandedSoFar
  <2> SUFFICES ASSUME NEW k \in 1 .. Len(handed[b])
               PROVE  Of(handed[b][k]) \in Nat /\ Of(handed[b][k]) < i
    OBVIOUS
  <2>2. Of(handed[b][k]) \in Nat /\ i \in Nat
    BY <1>5, <2>1
  <2>3. Beyond(<<i, 0>>, <<Of(handed[b][k]), 0>>)
    BY <1>3, <1>5
  <2> HIDE DEF i
  <2> QED BY <2>2, <2>3 DEF Beyond
<1>7. header'[b][2] = <<i, 1>> =>
        /\ next'[b] = <<i, 2>> /\ message'.cells = Cells(sent[b][i])
        /\ message'.need > 0
  <2> SUFFICES ASSUME header'[b][2] = <<i, 1>>
               PROVE  /\ next'[b] = <<i, 2>> /\ message'.cells = Cells(sent[b][i])
                      /\ message'.need > 0
    OBVIOUS
  <2>1. n = sent[b][i]
    BY <1>2, <1>5 DEF LinesIn
  <2>2. sent[b][i] \in Nat \ {0}
    BY <1>0, <1>5, Frames
  <2> QED BY <1>1, <1>3, <1>4, <2>1, <2>2 DEF PayloadCells, Cells
<1>8. PayloadCells(n) \in Nat
  <2>1. n \in Nat
    BY <1>0, Frames, LinesAssumption DEF LinesIn
  <2> QED BY <2>1 DEF PayloadCells
<1>9. Reading(b)'
  <2>1. message'.need <= message'.cells
    BY <1>4, <1>8
  <2>2. header'[b][2] = <<i, 1>> =>
          /\ message'.from = <<i, 2>> /\ message'.cells = Cells(sent'[b][i])
          /\ next'[b] = IF message'.need > 0
                        THEN <<i, 2 + message'.cells - message'.need>> ELSE <<i + 1, 0>>
    BY <1>3, <1>4, <1>7, <1>8
  <2> QED BY <1>3, <1>4, <1>5, <1>6, <2>1, <2>2 DEF Reading, Of
<1>10. InStep(b)'
  <2>1. InPayload(b)'
    BY <1>4 DEF InPayload
  <2> SUFFICES ASSUME b \notin split' PROVE InStep(b)'
    BY DEF InStep
  <2>2. header'[b] = <<<<Len(handed[b]) + 1, 0>>, <<Len(handed[b]) + 1, 1>>>>
    BY <1>1, InStepAtHeader
  <2>3. b \notin split
    BY <1>1, HeaderStream
  <2> QED BY <1>3, <2>1, <2>2, <2>3 DEF Stream, InStep
<1> QED BY <1>3, <1>9, <1>10 DEF Stream

(* A cell of the payload. *)
LEMMA PayloadStream ==
    ASSUME TypeOK, ReadPayload, NEW b \in Boards, b = message.of, Stream(b)
    PROVE  Stream(b)'
<1> DEFINE i == header[b][1][1]
<1>0. b \in Sockets
  BY BoardsAreSockets
<1>1. /\ InPayload(b) /\ message.need > 0
      /\ next' = [next EXCEPT ![b] = After(b, next[b])]
      /\ message' = [message EXCEPT !.need = message.need - 1]
      /\ UNCHANGED <<header, split, handed, sent, peer>>
  BY DEF ReadPayload, MoreToRead, InPayload, wire
<1>2. /\ message.need \in Nat /\ message.cells \in Nat /\ next[b] \in Cell
      /\ header[b][1] \in Cell /\ header[b][2] \in Cell
      /\ message \in [step : {"select", "payload", "slow"}, of : Sockets, from : Cell,
                      cells : Nat, need : Nat]
  <2>1. header[b] \in Cell \X Cell
    BY <1>0 DEF TypeOK
  <2> QED BY <1>0, <2>1 DEF TypeOK
<1>3. /\ message'.of = b /\ message'.step = "payload" /\ message'.from = message.from
      /\ message'.cells = message.cells /\ message'.need = message.need - 1
  BY <1>1, <1>2 DEF InPayload
<1>4. /\ next'[b] = After(b, next[b]) /\ next'[b] \in Cell
      /\ Beyond(next'[b], next[b])
  BY <1>0, <1>1, <1>2, AfterIsCell DEF TypeOK
<1>5. \A c, d, e \in Cell : Beyond(c, d) /\ Beyond(d, e) => Beyond(c, e)
  BY DEF Beyond, Cell
<1>6. /\ header[b][1] = <<i, 0>> /\ i \in 1 .. Len(sent[b])
      /\ \A k \in 1 .. Len(handed[b]) : Of(handed[b][k]) < i
      /\ message.need <= message.cells
      /\ header[b][2] = <<i, 1>> =>
            /\ message.from = <<i, 2>> /\ message.cells = Cells(sent[b][i])
            /\ next[b] = <<i, 2 + message.cells - message.need>>
  BY <1>1 DEF Stream, Reading
<1>7. HeaderIsPast(b)'
  <2>1. \A j \in 1 .. 2 : header[b][j] \in Cell
    BY <1>2
  <2>2. \A j \in 1 .. 2 : Beyond(next[b], header[b][j]) /\ header[b][j][1] <= Len(sent[b])
    BY DEF Stream, HeaderIsPast
  <2>3. \A j \in 1 .. 2 : Beyond(next'[b], header[b][j])
    BY <1>2, <1>4, <1>5, <2>1, <2>2
  <2> QED BY <1>1, <1>3, <2>2, <2>3 DEF HeaderIsPast
<1>8. HandedSoFar(b)'
  <2>1. \A k \in 1 .. Len(handed[b]) : Beyond(next'[b], <<Of(handed[b][k]), 0>>)
    <3> TAKE k \in 1 .. Len(handed[b])
    <3>1. /\ Of(handed[b][k]) \in 1 .. Len(sent[b])
          /\ Beyond(next[b], <<Of(handed[b][k]), 0>>)
      BY DEF Stream, HandedSoFar
    <3>2. <<Of(handed[b][k]), 0>> \in Cell
      BY <3>1 DEF Cell
    <3> QED BY <1>2, <1>4, <1>5, <3>1, <3>2
  <2> QED BY <1>1, <1>3, <2>1 DEF Stream, HandedSoFar, Of, Frame
<1>9. Reading(b)'
  <2>1. header[b][2] = <<i, 1>> =>
          next'[b] = IF message'.need > 0
                     THEN <<i, 2 + message'.cells - message'.need>> ELSE <<i + 1, 0>>
    <3> SUFFICES ASSUME header[b][2] = <<i, 1>>
                 PROVE  next'[b] = IF message'.need > 0
                                   THEN <<i, 2 + message'.cells - message'.need>>
                                   ELSE <<i + 1, 0>>
      OBVIOUS
    <3> DEFINE j == 2 + message.cells - message.need
    <3>1. next[b] = <<i, j>> /\ message.cells = 2 * sent[b][i]
      BY <1>6 DEF Cells
    <3>2. j \in Nat
      BY <1>2, <1>6
    <3> HIDE DEF j
    <3>3. After(b, <<i, j>>) = IF j < 2 * sent[b][i] + 1 THEN <<i, j + 1>> ELSE <<i + 1, 0>>
      BY <1>0, <1>6, <3>2, AfterIn
    <3>4. j < 2 * sent[b][i] + 1 <=> message.need - 1 > 0
      BY <1>2, <3>1 DEF j
    <3>5. j + 1 = 2 + message.cells - (message.need - 1)
      BY <1>2 DEF j
    <3> QED BY <1>3, <1>4, <3>1, <3>3, <3>4, <3>5
  <2>2. message'.need <= message'.cells
    BY <1>2, <1>3, <1>6
  <2> QED BY <1>1, <1>3, <1>6, <2>1, <2>2 DEF Reading, Of
<1>10. InStep(b)'
  <2>1. InPayload(b)'
    BY <1>3 DEF InPayload
  <2> QED BY <1>1, <1>3, <2>1 DEF Stream, InStep
<1> QED BY <1>7, <1>8, <1>9, <1>10 DEF Stream

(* The payload is complete. *)
LEMMA AddStream ==
    ASSUME TypeOK, AddChannels, NEW b \in Boards, b = message.of, Stream(b)
    PROVE  Stream(b)'
<1> DEFINE i == header[b][1][1]
           n == Len(handed[b])
           h == [header |-> header[b], from |-> message.from,
                 cells |-> message.cells - message.need]
<1>0. b \in Sockets
  BY BoardsAreSockets
<1>1. /\ InPayload(b) /\ message.need = 0 /\ message' = None
      /\ handed' = [handed EXCEPT ![b] = Append(@, h)]
      /\ UNCHANGED <<next, header, split, sent, peer>>
  BY DEF AddChannels, PayloadRead, InPayload, wire
<1>2. /\ handed[b] \in Seq(Handed) /\ header[b] \in Cell \X Cell
      /\ message.cells \in Nat /\ message.from \in Cell
  BY <1>0 DEF TypeOK
<1>3. h \in Handed
  BY <1>1, <1>2 DEF Handed
<1>4. h.header = header[b] /\ h.from = message.from /\ h.cells = message.cells
  BY <1>1, <1>2
<1> HIDE DEF h
<1>5. handed'[b] = Append(handed[b], h)
  BY <1>1 DEF TypeOK
<1>6. /\ n \in Nat /\ Len(handed'[b]) = n + 1 /\ handed'[b][n + 1] = h
      /\ \A k \in 1 .. n : handed'[b][k] = handed[b][k]
  BY <1>2, <1>3, <1>5
<1>7. ~InPayload(b)'
  BY <1>1, NoneIs DEF InPayload
<1>8. /\ header[b][1] = <<i, 0>> /\ i \in 1 .. Len(sent[b])
      /\ \A k \in 1 .. n : Of(handed[b][k]) < i
      /\ header[b][2] = <<i, 1>> =>
            /\ message.from = <<i, 2>> /\ message.cells = Cells(sent[b][i])
            /\ next[b] = <<i + 1, 0>>
  BY <1>1 DEF Stream, Reading
<1>9. HeaderIsPast(b)'
  BY <1>1 DEF Stream, HeaderIsPast
<1>10. Of(h) = i
  BY <1>4 DEF Of
<1>11. HandedSoFar(b)'
  <2> SUFFICES ASSUME NEW k \in 1 .. n + 1
               PROVE  LET m == Of(handed'[b][k]) IN
                      /\ m \in 1 .. Len(sent[b])
                      /\ handed'[b][k].header[2] = <<m, 1>> =>
                           handed'[b][k] = [header |-> <<<<m, 0>>, <<m, 1>>>>,
                                            from |-> <<m, 2>>, cells |-> Cells(sent[b][m])]
                      /\ \A j \in 1 .. k - 1 : Of(handed'[b][j]) < m
                      /\ Beyond(next[b], <<m, 0>>)
    BY <1>1, <1>6 DEF HandedSoFar, Of, Frame
  <2>1. CASE k \in 1 .. n
    <3>1. handed'[b][k] = handed[b][k] /\ \A j \in 1 .. k - 1 : handed'[b][j] = handed[b][j]
      BY <1>6, <2>1
    <3> QED BY <2>1, <3>1 DEF Stream, HandedSoFar, Frame
  <2>2. CASE k = n + 1
    <3>1. handed'[b][k] = h /\ \A j \in 1 .. k - 1 : handed'[b][j] = handed[b][j]
      BY <1>6, <2>2
    <3>2. \A j \in 1 .. k - 1 : Of(handed'[b][j]) < i
      BY <1>6, <1>8, <2>2, <3>1
    <3>3. Beyond(next[b], <<i, 0>>)
      BY <1>8 DEF Stream, HeaderIsPast
    <3>4. h.header[2] = <<i, 1>> =>
            h = [header |-> <<<<i, 0>>, <<i, 1>>>>, from |-> <<i, 2>>,
                 cells |-> Cells(sent[b][i])]
      <4> SUFFICES ASSUME header[b][2] = <<i, 1>>
                   PROVE  h = [header |-> <<<<i, 0>>, <<i, 1>>>>, from |-> <<i, 2>>,
                               cells |-> Cells(sent[b][i])]
        BY <1>4
      <4>1. header[b] = <<header[b][1], header[b][2]>>
        BY <1>2
      <4>2. header[b] = <<<<i, 0>>, <<i, 1>>>>
        BY <1>8, <4>1
      <4> QED BY <1>3, <1>4, <1>8, <4>2 DEF Handed
    <3> QED BY <1>8, <1>10, <3>1, <3>2, <3>3, <3>4
  <2> QED BY <1>6, <2>1, <2>2
<1>12. Reading(b)'
  BY <1>7 DEF Reading
<1>13. InStep(b)'
  <2> SUFFICES ASSUME b \notin split PROVE InStep(b)'
    BY <1>1 DEF InStep
  <2>1. /\ \A k \in 1 .. n : handed[b][k].header = <<<<k, 0>>, <<k, 1>>>>
        /\ header[b] = <<<<n + 1, 0>>, <<n + 1, 1>>>>
    BY <1>1 DEF Stream, InStep
  <2>2. i = n + 1 /\ header[b][2] = <<i, 1>>
    BY <2>1
  <2>3. next[b] = <<n + 1 + 1, 0>>
    BY <1>8, <2>2
  <2>4. \A k \in 1 .. n : handed'[b][k].header = <<<<k, 0>>, <<k, 1>>>>
    BY <1>6, <2>1
  <2>5. handed'[b][n + 1].header = <<<<n + 1, 0>>, <<n + 1, 1>>>>
    BY <1>4, <1>6, <2>1
  <2>6. \A k \in 1 .. n + 1 : handed'[b][k].header = <<<<k, 0>>, <<k, 1>>>>
    <3> TAKE k \in 1 .. n + 1
    <3>1. CASE k \in 1 .. n
      BY <2>4, <3>1
    <3>2. CASE k = n + 1
      BY <2>5, <3>2
    <3>3. k \in 1 .. n \/ k = n + 1
      BY <1>6
    <3> QED BY <3>1, <3>2, <3>3
  <2> QED BY <1>1, <1>6, <1>7, <2>3, <2>6 DEF InStep
<1> QED BY <1>9, <1>11, <1>12, <1>13 DEF Stream

(* The connection ends in the middle of a payload. *)
LEMMA EndStream ==
    ASSUME TypeOK, MessageEnds, NEW b \in Boards, b = message.of, Stream(b)
    PROVE  Stream(b)'
<1>0. b \in Sockets /\ b # Slc
  BY BoardsAreSockets
<1>1. /\ peer[b] = "closed" /\ message' = None
      /\ next' = [next EXCEPT ![b] = <<Len(sent[b]) + 1, 0>>]
      /\ UNCHANGED <<header, split, handed, sent, peer>>
  BY DEF MessageEnds, wire
<1>2. next'[b] = <<Len(sent[b]) + 1, 0>> /\ Len(sent[b]) \in Nat
  BY <1>0, <1>1, Frames DEF TypeOK
<1>3. ~InPayload(b)'
  BY <1>1, NoneIs DEF InPayload
<1>4. HeaderIsPast(b)'
  <2>1. \A j \in 1 .. 2 : header[b][j][1] \in Nat
    <3>1. header[b] \in Cell \X Cell
      BY <1>0 DEF TypeOK
    <3> QED BY <3>1 DEF Cell
  <2> QED BY <1>1, <1>2, <2>1 DEF Stream, HeaderIsPast, Beyond
<1>5. HandedSoFar(b)'
  <2>1. \A k \in 1 .. Len(handed[b]) : Beyond(next'[b], <<Of(handed[b][k]), 0>>)
    BY <1>2 DEF Stream, HandedSoFar, Beyond
  <2> QED BY <1>1, <2>1 DEF Stream, HandedSoFar, Of, Frame
<1>6. Reading(b)'
  BY <1>3 DEF Reading
<1>7. InStep(b)'
  <2>1. next'[b][1] > Len(sent[b])
    BY <1>2
  <2> SUFFICES ASSUME b \notin split PROVE InStep(b)'
    BY <1>1 DEF InStep
  <2> QED BY <1>1, <1>3, <2>1 DEF Stream, InStep
<1> QED BY <1>4, <1>5, <1>6, <1>7 DEF Stream

LEMMA StreamKept ==
    ASSUME TypeOK, Pointers, Manager \/ Network \/ Listener,
           NEW b \in Boards, Stream(b)
    PROVE  Stream(b)'
<1>0. b \in Sockets /\ b # Slc
  BY BoardsAreSockets
<1>1. CASE Crash
  BY <1>1, CrashStream
<1>2. ASSUME UNCHANGED <<sent, reader>>, peer[b] = "closed" => peer'[b] = "closed"
      PROVE  Stream(b)'
  BY <1>2, StreamUntouched DEF reader
<1>3. CASE Manager /\ ~Crash
  <2>1. CASE Initialise
    BY <1>0, <1>2, <2>1 DEF Initialise, Pointers
  <2>2. CASE ~Initialise
    BY <1>2, <1>3, <2>2
       DEF Manager, Destroy, Acquisition, InitialiseAgain, StartRaces, WebStatus, WebSet,
           wire
  <2> QED BY <2>1, <2>2
<1>4. ASSUME NEW s \in Sockets, SendFrame(s) PROVE Stream(b)'
  <2>1. CASE s = b
    BY <1>4, <2>1, SendStream
  <2>2. CASE s # b
    <3>1. sent'[b] = sent[b]
      BY <1>0, <1>4, <2>2 DEF SendFrame, TypeOK
    <3> QED BY <1>4, <3>1, StreamUntouched DEF SendFrame, reader
  <2> QED BY <2>1, <2>2
<1>5. ASSUME NEW s \in Sockets, PeerCloses(s) PROVE Stream(b)'
  <2>1. peer[b] = "closed" => peer'[b] = "closed"
    BY <1>0, <1>5 DEF PeerCloses, TypeOK
  <2> QED BY <1>2, <1>5, <2>1 DEF PeerCloses
<1>6. ASSUME NEW s \in Sockets \ {b}, ReadHeader(s), ~InPayload(b)'
      PROVE  Stream(b)'
  <2>1. /\ next'[b] = next[b] /\ header'[b] = header[b] /\ (b \in split' <=> b \in split)
        /\ UNCHANGED <<wire, handed>> /\ message = None
    BY <1>0, <1>6, HeaderRead
  <2>2. ~InPayload(b)
    BY <2>1, NoneIs DEF InPayload
  <2> QED BY <1>6, <2>1, <2>2, StreamUntouched DEF wire
<1>7. ASSUME NEW s \in Sockets, DropHeader(s) PROVE Stream(b)'
  <2>1. CASE s = b
    BY <1>7, <2>1, DropStream
  <2>2. CASE s # b
    <3>1. message' = None
      BY <1>7, HeaderRead DEF DropHeader
    <3> QED BY <1>6, <1>7, <2>2, <3>1, NoneIs DEF DropHeader, InPayload
  <2> QED BY <2>1, <2>2
<1>8. ASSUME NEW s \in Boards, TdcHeader(s) PROVE Stream(b)'
  <2>1. CASE s = b
    BY <1>8, <2>1, TdcStream
  <2>2. CASE s # b
    <3>1. message'.of = s
      BY <1>8 DEF TdcHeader, Message
    <3> QED BY <1>6, <1>8, <2>2, <3>1, BoardsAreSockets DEF TdcHeader, InPayload
  <2> QED BY <2>1, <2>2
<1>9. CASE SlowHeader
  <2>1. message'.step = "slow"
    BY <1>9 DEF SlowHeader, Message
  <2> QED BY <1>0, <1>6, <1>9, <2>1, BoardsAreSockets DEF SlowHeader, InPayload
<1>10. CASE ReadPayload
  <2>1. CASE message.of = b
    BY <1>10, <2>1, PayloadStream
  <2>2. CASE message.of # b
    <3>1. next'[b] = next[b] /\ message'.of = message.of
      BY <1>0, <1>10, <2>2 DEF ReadPayload, TypeOK
    <3> QED BY <1>10, <2>2, <3>1, StreamUntouched DEF ReadPayload, InPayload, wire
  <2> QED BY <2>1, <2>2
<1>11. CASE AddChannels
  <2>1. CASE message.of = b
    BY <1>11, <2>1, AddStream
  <2>2. CASE message.of # b
    <3>1. handed'[b] = handed[b]
      BY <1>11, <2>2 DEF AddChannels, TypeOK
    <3> QED BY <1>11, <2>2, <3>1, StreamUntouched, NoneIs DEF AddChannels, InPayload, wire
  <2> QED BY <2>1, <2>2
<1>12. CASE ReadSlow
  <2>1. next'[b] = next[b]
    BY <1>0, <1>12 DEF ReadSlow, TypeOK
  <2> QED BY <1>12, <2>1, StreamUntouched, NoneIs DEF ReadSlow, InPayload, wire
<1>13. CASE MessageEnds
  <2>1. CASE message.of = b
    BY <1>13, <2>1, EndStream
  <2>2. CASE message.of # b
    <3>1. next'[b] = next[b]
      BY <1>0, <1>13, <2>2 DEF MessageEnds, TypeOK
    <3> QED BY <1>13, <2>2, <3>1, StreamUntouched, NoneIs DEF MessageEnds, InPayload, wire
  <2> QED BY <2>1, <2>2
<1>14. CASE SlowThrows \/ ListenDestroyed
  BY <1>1, <1>14 DEF SlowThrows, ListenDestroyed
<1>15. ASSUME NEW s \in Sockets, Disconnect(s) PROVE Stream(b)'
  BY <1>1, <1>15 DEF Disconnect
<1>16. CASE Network
  BY <1>4, <1>5, <1>16 DEF Network
<1>17. CASE Listener
  BY <1>7, <1>8, <1>9, <1>10, <1>11, <1>12, <1>13, <1>14, <1>15, <1>17 DEF Listener
<1> QED BY <1>1, <1>3, <1>16, <1>17

-----------------------------------------------------------------------------
LEMMA InvInitially == Init => IInv
<1> SUFFICES ASSUME Init PROVE IInv
  OBVIOUS
<1>1. Pointers /\ NoCrash
  BY DEF Init, Pointers, NoCrash
<1> QED BY <1>1, TypesInitially, InitStream DEF IInv

LEMMA InvKept == IInv /\ [Next]_vars => IInv'
<1> SUFFICES ASSUME IInv, [Next]_vars PROVE IInv'
  OBVIOUS
<1>1. TypeOK'
  BY TypesKept DEF IInv
<1>2. CASE Next
  BY <1>1, <1>2, PointersKept, StreamKept DEF IInv, Next
<1>3. CASE UNCHANGED vars
  <2>1. Pointers' /\ NoCrash'
    BY <1>3 DEF IInv, Pointers, NoCrash, EntersReadout, HasCell, vars, manager, wire, reader
  <2>2. \A b \in Boards : Stream(b)'
    BY <1>3, StreamUntouched DEF IInv, vars, wire, reader
  <2> QED BY <1>1, <2>1, <2>2 DEF IInv
<1> QED BY <1>2, <1>3

LEMMA InvAlways == Spec => []IInv
  BY InvInitially, InvKept, PTL DEF Spec

(* The manager, the sockets and the listener keep their types, however the   *)
(* stream is cut and whatever stands where a number of lines should.         *)
THEOREM TypeCorrect == Spec => []TypeOK
<1>1. IInv => TypeOK
  BY DEF IInv
<1> QED BY <1>1, InvAlways, PTL

(* While no header of a board was read in two pieces addChannels gets its    *)
(* frames whole and in order (TdcMessageHandler::processMessage).            *)
THEOREM FramesInOrder == Spec => []InOrder
<1>1. IInv => InOrder
  <2> SUFFICES ASSUME IInv, NEW b \in Boards \ split, NEW k \in 1 .. Len(handed[b])
               PROVE  handed[b][k] = Frame(b, k)
    BY DEF InOrder
  <2>1. handed[b][k].header = <<<<k, 0>>, <<k, 1>>>>
    BY DEF IInv, Stream, InStep
  <2>2. Of(handed[b][k]) = k /\ handed[b][k].header[2] = <<k, 1>>
    BY <2>1 DEF Of
  <2> QED BY <2>2 DEF IInv, Stream, HandedSoFar
<1> QED BY <1>1, InvAlways, PTL

(* What is handed over under a whole header is one frame as it was sent, and *)
(* never a frame twice or out of order, after any damage.                   *)
THEOREM WholeStaysIntact == Spec => []WholeIsIntact
<1>1. IInv => WholeIsIntact
  <2> SUFFICES ASSUME IInv, NEW b \in Boards, NEW k \in 1 .. Len(handed[b])
               PROVE  LET h == handed[b][k].header
                          i == h[1][1] IN
                      /\ i \in 1 .. Len(sent[b])
                      /\ h[2] = <<i, 1>> => handed[b][k] = Frame(b, i)
                      /\ \A j \in 1 .. k - 1 : handed[b][j].header[1][1] < i
    BY DEF WholeIsIntact
  <2> QED BY DEF IInv, Stream, HandedSoFar, Of
<1> QED BY <1>1, InvAlways, PTL

(* The process dies of nothing but the five causes that NoCrash names.       *)
THEOREM DiesOfNothingElse == Spec => []NoCrash
<1>1. IInv => NoCrash
  BY DEF IInv
<1> QED BY <1>1, InvAlways, PTL

-----------------------------------------------------------------------------
(* The safe half of SentIsHanded. *)

(* While the headers of a board come whole, the loop of parseTdcData never   *)
(* waits for bytes that are not part of its frame, and a socket with nothing *)
(* more to read has no frame left that addChannels was not given: one board *)
(* cannot stall the only listener, and none is left behind.                 *)
THEOREM ListenerNeverStalls == Spec => []NeverStalls
<1>1. IInv => NeverStalls
  <2> SUFFICES ASSUME IInv, NEW b \in Boards, b \notin split
               PROVE  /\ InPayload(b) /\ MoreToRead => HasCell(b)
                      /\ peer[b] # "closed" /\ ~InPayload(b) /\ ~HasCell(b) =>
                           Len(handed[b]) = Len(sent[b])
    BY DEF NeverStalls
  <2> DEFINE n == Len(handed[b])
  <2>1. Stream(b) /\ n \in Nat /\ Len(sent[b]) \in Nat
    BY DEF IInv, TypeOK, Sockets
  <2>2. ASSUME InPayload(b), MoreToRead PROVE HasCell(b)
    <3>1. header[b] = <<<<n + 1, 0>>, <<n + 1, 1>>>>
      BY <2>1, <2>2 DEF Stream, InStep
    <3>2. /\ n + 1 \in 1 .. Len(sent[b])
          /\ next[b] = <<n + 1, 2 + message.cells - message.need>>
      BY <2>1, <2>2, <3>1 DEF Stream, Reading, MoreToRead
    <3> QED BY <2>1, <3>2 DEF HasCell
  <2>3. ASSUME peer[b] # "closed", ~InPayload(b), ~HasCell(b)
        PROVE  n = Len(sent[b])
    <3>1. next[b] = <<n + 1, 0>>
      BY <2>1, <2>3 DEF Stream, InStep
    <3>2. n >= Len(sent[b])
      BY <2>1, <2>3, <3>1 DEF HasCell
    <3>3. n > 0 => n <= Len(sent[b])
      <4> SUFFICES ASSUME n > 0 PROVE n <= Len(sent[b])
        OBVIOUS
      <4>1. n \in 1 .. n
        BY <2>1
      <4>2. handed[b][n].header = <<<<n, 0>>, <<n, 1>>>>
        BY <2>1, <4>1 DEF Stream, InStep
      <4>3. Of(handed[b][n]) = n
        BY <4>2 DEF Of
      <4>4. \A k \in 1 .. n : Of(handed[b][k]) \in 1 .. Len(sent[b])
        BY <2>1 DEF Stream, HandedSoFar
      <4> QED BY <2>1, <4>1, <4>3, <4>4
    <3> QED BY <2>1, <3>2, <3>3
  <2> QED BY <2>2, <2>3
<1> QED BY <1>1, InvAlways, PTL
=============================================================================
