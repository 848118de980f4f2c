---------------------------- MODULE TdcManager ----------------------------
(* The server of the TDC boards: the state machine of TdcManager.cxx and the *)
(* thread dolisten, which takes what the boards send from their TCP sockets *)
(* with TdcMessageHandler::processMessage.  One thread serves all the       *)
(* sockets, one message at a time, and blocks in the middle of one until    *)
(* the rest of it comes.                                                    *)
(*                                                                          *)
(* A socket is a stream of cells, each half of a line of 8 bytes.  A frame   *)
(* has a header of two cells, the magic number and the number of lines, and  *)
(* two cells for each line; cell <<i, j>> is the j-th of the i-th frame      *)
(* sent on the socket.  What happens after a use of a deleted, NULL or       *)
(* uninitialised pointer is a crash.                                        *)
EXTENDS Naturals, Sequences, FiniteSets

CONSTANTS
    Slc,         \* the socket of the slow control
    Tdc1, Tdc2,  \* the sockets of the two mezzanines
    Lines,       \* numbers of lines that a frame may have
    Garbage,     \* numbers that may stand where no number of lines does
    MaxFrames,   \* bound of the model: frames on each socket
    MaxCloses    \* bound of the model: connections that a peer closes

Boards == {Tdc1, Tdc2}
Sockets == Boards \cup {Slc}

ASSUME SocketsAssumption == Slc \notin Boards /\ Tdc1 # Tdc2 /\ "none" \notin Sockets
ASSUME LinesAssumption == Lines \subseteq Nat \ {0} /\ Garbage \subseteq Nat
ASSUME BoundsAssumption == MaxFrames \in [Sockets -> Nat] /\ MaxCloses \in Nat

VARIABLES
    fsm,        \* state of the manager's state machine
    msh,        \* the pointer _msh
    group,      \* the pointer _group
    ctrl,       \* the pointer _sCtrl
    members,    \* sockets added to the group
    failed,     \* the socket that INITIALISE could not open
    listening,  \* the thread dolisten exists
    acquire,    \* the boards are told to send
    crashed,    \* the process is dead
    peer,       \* the other end of each connection
    sent,       \* numbers of lines of the frames sent on each socket
    next,       \* the first cell that has not been read
    header,     \* the two header cells in the buffer of each socket
    split,      \* sockets of which a header was read in two pieces
    message,    \* the message the listener is in the middle of
    handed      \* what addChannels of each board was given, in order

manager == <<fsm, msh, group, ctrl, members, failed, listening, acquire>>
wire == <<peer, sent>>
reader == <<next, header, split, message, handed>>
vars == <<manager, crashed, wire, reader>>

-----------------------------------------------------------------------------
(* The cells of a socket. *)

NoCell == <<0, 0>>
\* the cells of n lines
Cells(n) == 2 * n
\* the cell after c in the stream of s
After(s, c) ==
    IF c[1] \in 1 .. Len(sent[s]) /\ c[2] < Cells(sent[s][c[1]]) + 1
    THEN <<c[1], c[2] + 1>>
    ELSE <<c[1] + 1, 0>>
HasCell(s) == next[s][1] <= Len(sent[s])
\* the places where a read may stop
CellsOf(s) ==
    {<<Len(sent[s]) + 1, 0>>} \cup
        UNION {{<<i, j>> : j \in 0 .. Cells(sent[s][i]) + 1} : i \in 1 .. Len(sent[s])}
Beyond(c, d) == c[1] > d[1] \/ (c[1] = d[1] /\ c[2] > d[2])
(* A message being read: of a payload, where it begins, how many cells it    *)
(* has and how many are still to be read.                                   *)
Message(step, s, from, cells) ==
    [step |-> step, of |-> s, from |-> from, cells |-> cells, need |-> cells]
None == Message("select", Slc, NoCell, 0)

Magic(c) == c[1] > 0 /\ c[2] = 0

LinesIn(s, c) ==
    IF c[2] = 1 /\ c[1] \in 1 .. Len(sent[s]) THEN {sent[s][c[1]]} ELSE Garbage

FirstCells == [s \in Sockets |-> <<1, 0>>]
NoHeaders == [s \in Sockets |-> <<NoCell, NoCell>>]
NothingHanded == [b \in Boards |-> <<>>]

Init ==
    /\ fsm = "CREATED" /\ msh \in {"null", "garbage"}
    /\ group = "null" /\ ctrl = "null"
    /\ members = {} /\ failed = "none" /\ listening = FALSE /\ acquire = FALSE
    /\ crashed = FALSE
    /\ peer = [s \in Sockets |-> "none"]
    /\ sent = [s \in Sockets |-> <<>>]
    /\ next = FirstCells /\ header = NoHeaders /\ split = {}
    /\ message = None /\ handed = NothingHanded

-----------------------------------------------------------------------------
(* Variants of the definitions below, each with a slip the code could have  *)
(* made; the specification does not use them.                               *)

ConfigureAnyTime ==
    {<<"CONFIGURE", s, "CONFIGURED">> : s \in {"CREATED", "INITIALISED", "CONFIGURED"}}
CountsHeader(n) == 2 * n + 2
OneTooMany == message.need >= 0
AfterOneRead == message.need < message.cells
FullBuffer == Len(sent[Slc]) > MaxFrames[Slc]

-----------------------------------------------------------------------------
(* The pieces of the handlers that the variants concern. *)

Configures ==
    {<<"CONFIGURE", s, "CONFIGURED">> : s \in {"INITIALISED", "CONFIGURED"}}
\* parseTdcData: elen=length*byteslen
PayloadCells(n) == 2 * n
\* parseTdcData: while (size_remain>0)
MoreToRead == message.need > 0
PayloadRead == message.need = 0
\* parseSlowControl: one read, whatever it brings.
SlowRead == HasCell(Slc)

-----------------------------------------------------------------------------
(* The commands.  A handler that fails answers ERROR; the transition        *)
(* completes all the same.                                                  *)

Transitions == Configures \cup
    { <<"INITIALISE", "CREATED", "INITIALISED">>,
      <<"START", "CONFIGURED", "RUNNING">>,
      <<"STOP", "RUNNING", "CONFIGURED">>,
      <<"DESTROY", "CONFIGURED", "CREATED">>,
      <<"DESTROY", "INITIALISED", "CREATED">> }

Accepts(op) == \E x \in Transitions : x[1] = op /\ x[2] = fsm
Completes(op) == \E x \in Transitions : x[1] = op /\ x[2] = fsm /\ fsm' = x[3]

(* The process is dead; the variables say what it died in.                  *)
Crash == crashed' = TRUE /\ UNCHANGED <<manager, wire, reader>>

(* startAcquisition and writeRamAvm send through _sCtrl; after the peer has  *)
(* closed its end a first send still succeeds, another raises SIGPIPE.      *)
CanSend == ctrl = "live"
SendKills == ctrl # "live" \/ peer[Slc] = "closed"

(* The sockets are opened one after the other; the first that cannot be     *)
(* ends the handler, before the listener is created.                        *)
Before(f) ==
    CASE f = Slc -> {}
      [] f = Tdc1 -> {Slc}
      [] f = Tdc2 -> {Slc, Tdc1}
      [] OTHER -> Sockets

Initialise ==
    /\ Completes("INITIALISE")
    /\ group = "null"
    /\ group' = "live" /\ msh' = "live"
    /\ failed' \in {"none"} \cup Sockets
    /\ members' = Before(failed')
    /\ ctrl' = IF Slc \in members' THEN "live" ELSE "null"
    /\ peer' = [s \in Sockets |-> IF s \in members' THEN "open" ELSE "none"]
    /\ listening' = (failed' = "none")
    /\ acquire' = FALSE
    /\ UNCHANGED <<crashed, sent, reader>>

(* The second INITIALISE deletes the group that DESTROY has deleted.        *)
InitialiseAgain == Accepts("INITIALISE") /\ group = "dead" /\ Crash

(* CONFIGURE and STOP call startAcquisition(false), START (true).           *)
Acquisition(op) ==
    \/ /\ Completes(op)
       /\ CanSend
       /\ acquire' = (op = "START")
       /\ UNCHANGED <<msh, group, ctrl, members, failed, listening, crashed, wire,
                      reader>>
    \/ /\ Accepts(op) /\ SendKills
       /\ Crash

(* The listener enters a socket in the map of readouts at its first message. *)
EntersReadout == \E s \in members : HasCell(s) /\ next[s] = FirstCells[s]

(* START walks through that map without a lock.  Undefined, beside the entry *)
(* of a socket: the walk may go well (Acquisition) or never end well.       *)
StartRaces ==
    /\ Accepts("START")
    /\ listening /\ message = None /\ EntersReadout
    /\ Crash

Destroy ==
    /\ Completes("DESTROY")
    /\ group' = "dead" /\ msh' = "dead"
    /\ ctrl' = IF ctrl = "live" THEN "dead" ELSE ctrl
    /\ UNCHANGED <<members, failed, listening, acquire, crashed, wire, reader>>

(* The web commands, on a thread of their own in every state: STATUS and    *)
(* DIFLIST go through _msh unless it is NULL, the three SET commands test   *)
(* it and then send.                                                        *)
WebStatus == msh \in {"garbage", "dead"} /\ Crash
WebSet == msh # "null" /\ SendKills /\ Crash

-----------------------------------------------------------------------------
(* The boards and the network (external). *)

SendFrame(s) ==
    /\ peer[s] = "open"
    /\ s \in Boards => acquire
    /\ Len(sent[s]) < MaxFrames[s]
    /\ \E n \in Lines : sent' = [sent EXCEPT ![s] = Append(@, n)]
    /\ UNCHANGED <<manager, crashed, peer, reader>>

PeerCloses(s) ==
    /\ peer[s] = "open"
    /\ Cardinality({q \in Sockets : peer[q] = "closed"}) < MaxCloses
    /\ peer' = [peer EXCEPT ![s] = "closed"]
    /\ UNCHANGED <<manager, crashed, sent, reader>>

-----------------------------------------------------------------------------
(* The listener. *)

Listening == listening /\ group = "live"

(* One read for the header, of what has arrived; where that is less than    *)
(* the eight bytes the rest of the header is that of the message before.    *)
ReadHeader(s) ==
    LET first == next[s]
        second == After(s, first)
    IN  /\ Listening /\ message = None /\ s \in members /\ HasCell(s)
        /\ \/ /\ second[1] <= Len(sent[s])
              /\ header' = [header EXCEPT ![s] = <<first, second>>]
              /\ next' = [next EXCEPT ![s] = After(s, second)]
              /\ UNCHANGED split
           \/ /\ header' = [header EXCEPT ![s] = <<first, @[2]>>]
              /\ next' = [next EXCEPT ![s] = second]
              /\ split' = split \cup {s}
        /\ UNCHANGED <<manager, crashed, wire, handed>>

\* processMessage: neither magic number
DropHeader(s) ==
    /\ ReadHeader(s)
    /\ ~Magic(header'[s][1])
    /\ UNCHANGED message

TdcHeader(b) ==
    /\ ReadHeader(b)
    /\ Magic(header'[b][1])
    /\ \E n \in LinesIn(b, header'[b][2]) :
         message' = Message("payload", b, next'[b], PayloadCells(n))

SlowHeader ==
    /\ ReadHeader(Slc)
    /\ Magic(header'[Slc][1])
    /\ message' = Message("slow", Slc, NoCell, 0)

ReadPayload ==
    /\ Listening /\ message.step = "payload"
    /\ MoreToRead
    /\ HasCell(message.of)
    /\ next' = [next EXCEPT ![message.of] = After(message.of, @)]
    /\ message' = [message EXCEPT !.need = @ - 1]
    /\ UNCHANGED <<manager, crashed, wire, header, split, handed>>

AddChannels ==
    /\ Listening /\ message.step = "payload"
    /\ PayloadRead
    /\ handed' = [handed EXCEPT ![message.of] =
                    Append(@, [header |-> header[message.of], from |-> message.from,
                               cells |-> message.cells - message.need])]
    /\ message' = None
    /\ UNCHANGED <<manager, crashed, wire, next, header, split>>

ReadSlow ==
    /\ Listening /\ message.step = "slow"
    /\ SlowRead
    /\ \E c \in CellsOf(Slc) :
         Beyond(c, next[Slc]) /\ next' = [next EXCEPT ![Slc] = c]
    /\ message' = None
    /\ UNCHANGED <<manager, crashed, wire, header, split, handed>>

(* The connection ends in the middle of a message and what was on its way   *)
(* is lost.  Reset, the read of a payload throws; closed, it returns 0,     *)
(* which ends the slow control and which the payload loop takes for ever    *)
(* (no step).                                                               *)
MessageEnds ==
    /\ Listening
    /\ message.step = "slow" \/ (message.step = "payload" /\ MoreToRead)
    /\ peer[message.of] = "closed"
    /\ next' = [next EXCEPT ![message.of] = <<Len(sent[message.of]) + 1, 0>>]
    /\ message' = None
    /\ UNCHANGED <<manager, crashed, wire, header, split, handed>>

(* Reset, the read of the slow control throws past dolisten.                *)
SlowThrows ==
    /\ Listening /\ message.step = "slow"
    /\ peer[Slc] = "closed"
    /\ Crash

(* OnClientDisconnect writes through the reference, which listen(2000)      *)
(* leaves NULL.                                                             *)
Disconnect(s) ==
    /\ Listening /\ message = None /\ s \in members
    /\ peer[s] = "closed"
    /\ Crash

(* The thread goes on with the group and the sockets that DESTROY deleted.  *)
ListenDestroyed == listening /\ group = "dead" /\ Crash

Manager ==
    \/ Initialise \/ InitialiseAgain \/ Destroy
    \/ \E op \in {"CONFIGURE", "START", "STOP"} : Acquisition(op)
    \/ StartRaces \/ WebStatus \/ WebSet

Listener ==
    \/ \E s \in Sockets : DropHeader(s) \/ Disconnect(s)
    \/ \E b \in Boards : TdcHeader(b)
    \/ SlowHeader \/ ReadPayload \/ AddChannels \/ ReadSlow \/ MessageEnds
    \/ SlowThrows \/ ListenDestroyed

Network == \E s \in Sockets : SendFrame(s) \/ PeerCloses(s)

Next == ~crashed /\ (Manager \/ Network \/ Listener)

Spec == Init /\ [][Next]_vars

(* dolisten loops for ever, and what has been sent arrives.                 *)
FairSpec == Spec /\ WF_vars(~crashed /\ Listener)

-----------------------------------------------------------------------------
Cell == Nat \X Nat
Handed == [header : Cell \X Cell, from : Cell, cells : Nat]

(* Every variable has its type. *)
TypeOK ==
    /\ fsm \in {"CREATED", "INITIALISED", "CONFIGURED", "RUNNING"}
    /\ msh \in {"null", "garbage", "live", "dead"}
    /\ group \in {"null", "live", "dead"} /\ ctrl \in {"null", "live", "dead"}
    /\ members \subseteq Sockets /\ failed \in {"none"} \cup Sockets
    /\ listening \in BOOLEAN /\ acquire \in BOOLEAN /\ crashed \in BOOLEAN
    /\ peer \in [Sockets -> {"none", "open", "closed"}]
    /\ sent \in [Sockets -> Seq(Lines)]
    /\ next \in [Sockets -> Cell]
    /\ header \in [Sockets -> Cell \X Cell]
    /\ split \subseteq Sockets
    /\ message \in [step : {"select", "payload", "slow"}, of : Sockets, from : Cell,
                    cells : Nat, need : Nat]
    /\ handed \in [Boards -> Seq(Handed)]

(* The k-th frame of a board as addChannels should be given it. *)
Frame(b, k) ==
    [header |-> <<<<k, 0>>, <<k, 1>>>>, from |-> <<k, 2>>, cells |-> Cells(sent[b][k])]

(* While no header of a board has arrived in two pieces, addChannels gets    *)
(* its frames whole, in the order sent and without a gap, however the       *)
(* payloads are cut and the sockets interleaved: what TdcFpga takes for     *)
(* granted (processMessage, parseTdcData).                                  *)
InOrder ==
    \A b \in Boards \ split : \A k \in 1 .. Len(handed[b]) : handed[b][k] = Frame(b, k)

(* Even after that: what is handed over under a header read in one piece is *)
(* one frame as it was sent, and no frame is handed over twice or before an  *)
(* earlier one, so that the loss ends when the listener falls back into step *)
(* with the frames.                                                         *)
WholeIsIntact ==
    \A b \in Boards : \A k \in 1 .. Len(handed[b]) :
        LET h == handed[b][k].header
            i == h[1][1] IN
        /\ i \in 1 .. Len(sent[b])
        /\ h[2] = <<i, 1>> => handed[b][k] = Frame(b, i)
        /\ \A j \in 1 .. k - 1 : handed[b][j].header[1][1] < i

(* The process dies of a peer that closes its connection, of a DESTROY, of  *)
(* a failure to open the slow control, of a web command before _msh, which  *)
(* the constructor leaves as it is, is set, or of a START beside the first  *)
(* message of a socket; of nothing else.  A TDC socket that cannot be       *)
(* opened is survived, and so is whatever the network makes of the frames.  *)
NoCrash ==
    crashed => \/ \E s \in Sockets : peer[s] = "closed"
               \/ group = "dead"
               \/ failed = Slc
               \/ msh = "garbage"
               \/ fsm = "CONFIGURED" /\ EntersReadout

Healthy ==
    /\ ~crashed /\ group = "live" /\ failed = "none"
    /\ split \cap Boards = {}
    /\ \A s \in Sockets : peer[s] = "open"

(* A frame that a board has sent is given to addChannels: neither   *)
(* the other board nor a slow control answer holds the only listener up for *)
(* good, as long as the connections live and headers arrive whole.          *)
SentIsHanded ==
    \A b \in Boards : \A k \in 1 .. MaxFrames[b] :
        (Len(sent[b]) >= k) ~> (Len(handed[b]) >= k \/ ~Healthy)

InPayload(b) == message.step = "payload" /\ message.of = b

(* Its half that is safety: while the headers of a board come whole, the     *)
(* loop of parseTdcData waits for no byte that is not of its frame, and a    *)
(* socket with nothing more to read has no frame that was not handed over.  *)
NeverStalls ==
    \A b \in Boards \ split :
        /\ InPayload(b) /\ MoreToRead => HasCell(b)
        /\ peer[b] # "closed" /\ ~InPayload(b) /\ ~HasCell(b) =>
             Len(handed[b]) = Len(sent[b])
=============================================================================
