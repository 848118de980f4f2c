------------------------- MODULE TdcFpgaProofs -------------------------
(* Proofs about TdcFpga, for any trigger counts, runs and frames, whether  *)
(* or not STOP drains the socket.                                          *)
EXTENDS TdcFpga, FiniteSetTheorems, TLAPS

-----------------------------------------------------------------------------
(* Types. *)

(* Past "read" the listener has a frame in hand. *)
InHand == pc # "read" => nread \in 1 .. Len(sent)

TInv == TypeOK /\ InHand

LEMMA Initially == Init => TInv
  BY ConstantsAssumption DEF Init, TInv, TypeOK, InHand, Frame, Event

(* The frame in hand is one that the board sent. *)
LEMMA InHandIsFrame ==
    ASSUME TInv, pc # "read"
    PROVE  rgtc \in Gtcs
<1>1. sent \in Seq(Frame) /\ nread \in 1 .. Len(sent)
  BY DEF TInv, TypeOK, InHand
<1>2. sent[nread] \in Frame
  BY <1>1
<1> QED BY <1>2 DEF rgtc, Frame

LEMMA TypesKept == TInv /\ [Next]_vars => TInv'
<1> SUFFICES ASSUME TInv, [Next]_vars PROVE TInv'
  OBVIOUS
<1> USE ConstantsAssumption
<1>1. CASE ClearGtc
  BY <1>1 DEF ClearGtc, ClearedGtc, TInv, TypeOK, InHand
<1>2. CASE ClearEvent
  BY <1>2 DEF ClearEvent, ClearedEvent, TInv, TypeOK, InHand
<1>3. CASE ClearLast
  BY <1>3 DEF ClearLast, ClearedLast, TInv, TypeOK, InHand
<1>4. CASE StartAcquisition \/ Stop \/ Stopped
  BY <1>4 DEF StartAcquisition, Stop, Stopped, fields, TInv, TypeOK, InHand
<1>5. CASE BoardSends
  <2>1. sent \in Seq(Frame) /\ Len(sent) \in Nat /\ nread \in 0 .. Len(sent)
    BY DEF TInv, TypeOK
  <2>2. sent' \in Seq(Frame) /\ Len(sent') = Len(sent) + 1
    <3>1. InRun => sent[Len(sent)] \in Frame
      BY <2>1 DEF InRun
    <3>2. CASE MoreOfTrigger
      BY <2>1, <3>1, <3>2 DEF MoreOfTrigger
    <3>3. CASE NextTrigger
      <4>1. PICK g \in Gtcs :
              sent' = Append(sent, [run |-> run, gtc |-> g,
                        trigger |-> IF InRun THEN sent[Len(sent)].trigger + 1
                                             ELSE 1])
        BY <3>3 DEF NextTrigger
      <4>2. [run |-> run, gtc |-> g,
             trigger |-> IF InRun THEN sent[Len(sent)].trigger + 1 ELSE 1]
              \in Frame
        BY <3>1 DEF Frame, TInv, TypeOK
      <4> QED BY <4>1, <4>2, <2>1
    <3> QED BY <1>5, <3>2, <3>3 DEF BoardSends
  <2> QED BY <1>5, <2>1, <2>2 DEF BoardSends, fields, TInv, TypeOK, InHand
<1>6. CASE ReadFrame
  BY <1>6 DEF ReadFrame, DataOnSocket, board, fields, TInv, TypeOK, InHand
<1>7. CASE TestGtc \/ LoadEvent \/ StoreEvent
  <2>1. /\ UNCHANGED <<sent, nread, mgr, run, drained, gtc, lastGtc, channels, startIdx,
                        published>>
        /\ pc # "read" /\ pc' \in {"append", "load", "store", "publish"}
        /\ num' \in Nat /\ event' \in Nat
    BY <1>7 DEF TestGtc, LoadEvent, StoreEvent, board, fields, TInv, TypeOK
  <2> QED BY <2>1 DEF TInv, TypeOK, InHand
<1>8. CASE AppendHits
  <2>1. rgtc \in Gtcs
    BY <1>8, InHandIsFrame DEF AppendHits
  <2> QED BY <1>8, <2>1 DEF AppendHits, board, TInv, TypeOK, InHand
<1>9. CASE ProcessEventTdc
  <2>1. [event |-> event, gtc |-> gtc, run |-> run, frames |-> channels] \in Event
    BY DEF Event, TInv, TypeOK
  <2>2. published' \in Seq(Event)
    BY <1>9, <2>1 DEF ProcessEventTdc, TInv, TypeOK
  <2> QED BY <1>9, <2>2 DEF ProcessEventTdc, board, fields, TInv, TypeOK, InHand
<1>10. CASE ResetChannels
  <2>1. rgtc \in Gtcs
    BY <1>10, InHandIsFrame DEF ResetChannels
  <2> QED BY <1>10, <2>1 DEF ResetChannels, NoChannels, ResetIdx, board, TInv,
                             TypeOK, InHand
<1>11. CASE UNCHANGED vars
  BY <1>11 DEF vars, TInv, TypeOK, InHand
<1> QED BY <1>1, <1>2, <1>3, <1>4, <1>5, <1>6, <1>7, <1>8, <1>9, <1>10, <1>11
        DEF Next, Manager, Listener

(* Every variable keeps its type; the buffer index and the frames in        *)
(* _channels stay those of frames that were read.                           *)
THEOREM TypeCorrect == Spec => []TypeOK
<1>1. TInv => TypeOK
  BY DEF TInv
<1> QED BY Initially, TypesKept, <1>1, PTL DEF Spec

-----------------------------------------------------------------------------
(* The frames already sent never change. *)
LEMMA SentKept ==
    ASSUME TInv, [Next]_vars
    PROVE  /\ nread <= nread' /\ Len(sent) <= Len(sent')
           /\ \A i \in 1 .. Len(sent) : sent'[i] = sent[i]
<1>1. sent \in Seq(Frame) /\ nread \in 0 .. Len(sent)
  BY DEF TInv, TypeOK
<1>2. CASE BoardSends
  <2>1. CASE MoreOfTrigger
    BY <1>1, <1>2, <2>1 DEF BoardSends, MoreOfTrigger
  <2>2. CASE NextTrigger
    BY <1>1, <1>2, <2>2 DEF BoardSends, NextTrigger
  <2> QED BY <1>2, <2>1, <2>2 DEF BoardSends
<1>3. CASE ReadFrame
  BY <1>1, <1>3 DEF ReadFrame, board
<1>4. CASE ~BoardSends /\ ~ReadFrame
  <2>1. UNCHANGED <<sent, nread>>
    BY <1>4 DEF Next, Manager, Listener, ClearGtc, ClearEvent, ClearLast,
                StartAcquisition, Stop, Stopped, TestGtc, LoadEvent, StoreEvent,
                AppendHits, ProcessEventTdc, ResetChannels, board, vars
  <2> QED BY <1>1, <2>1
<1> QED BY <1>2, <1>3, <1>4

-----------------------------------------------------------------------------
(* One count per event. *)

(* What _channels holds, told by _lastGtc, by _gtc and by the frame that    *)
(* has passed the test.                                                     *)
HeldLast == lastGtc # 0 => \A i \in channels : sent[i].gtc = lastGtc
HeldGtc == gtc # 0 => \A i \in channels : sent[i].gtc = gtc
Passed ==
    pc = "append" => /\ lastGtc \in {0, rgtc}
                     /\ rgtc # 0 => \A i \in channels : sent[i].gtc = rgtc
FramesRead ==
    \A k \in 1 .. Len(published) : published[k].frames \subseteq 1 .. nread

UInv == TInv /\ HeldLast /\ HeldGtc /\ Passed /\ FramesRead /\ Uniform

LEMMA UniformInitially == Init => UInv
<1> SUFFICES ASSUME Init PROVE UInv
  OBVIOUS
<1>1. TInv
  BY Initially
<1> QED BY <1>1 DEF Init, UInv, HeldLast, HeldGtc, Passed, FramesRead, Uniform

LEMMA UniformKept == UInv /\ [Next]_vars => UInv'
<1> SUFFICES ASSUME UInv, [Next]_vars PROVE UInv'
  OBVIOUS
<1>1. TInv /\ TInv'
  BY TypesKept DEF UInv
<1>2. /\ nread \in 0 .. Len(sent) /\ nread' \in 0 .. Len(sent')
      /\ channels \subseteq 1 .. nread
      /\ nread <= nread' /\ Len(sent) <= Len(sent')
      /\ \A i \in 1 .. Len(sent) : sent'[i] = sent[i]
  BY <1>1, SentKept DEF TInv, TypeOK
<1>3. pc # "read" => nread \in 1 .. Len(sent)
  BY <1>1 DEF TInv, InHand
<1>4. \A i \in channels : sent'[i] = sent[i]
  BY <1>2
<1>5. HeldLast' /\ HeldGtc' /\ Passed'
  <2> USE DEF UInv, HeldLast, HeldGtc, Passed, rgtc
  <2>1. CASE Manager
    BY <2>1, <1>2, <1>3, <1>4 DEF Manager, ClearGtc, ClearEvent, ClearLast,
       ClearedGtc, ClearedEvent, ClearedLast, StartAcquisition, Stop, Stopped,
       fields
  <2>2. CASE BoardSends
    BY <2>2, <1>2, <1>3, <1>4 DEF BoardSends, fields
  <2>3. CASE ReadFrame
    BY <2>3, <1>4 DEF ReadFrame, board, fields
  <2>4. CASE TestGtc
    BY <2>4 DEF TestGtc, SameTrigger, board, fields
  <2>5. CASE AppendHits
    BY <2>5 DEF AppendHits, board
  <2>6. CASE LoadEvent \/ StoreEvent \/ ProcessEventTdc
    BY <2>6 DEF LoadEvent, StoreEvent, ProcessEventTdc, board, fields
  <2>7. CASE ResetChannels
    BY <2>7 DEF ResetChannels, NoChannels, board
  <2>8. CASE UNCHANGED vars
    BY <2>8 DEF vars
  <2> QED BY <2>1, <2>2, <2>3, <2>4, <2>5, <2>6, <2>7, <2>8 DEF Next, Listener
<1>6. FramesRead' /\ Uniform'
  <2>0. published \in Seq(Event)
    BY <1>1 DEF TInv, TypeOK
  <2>1. CASE ProcessEventTdc
    <3> DEFINE e == [event |-> event, gtc |-> gtc, run |-> run,
                     frames |-> channels]
    <3>1. published' = Append(published, e) /\ UNCHANGED <<sent, nread>>
      BY <2>1 DEF ProcessEventTdc, board
    <3>2. \A k \in 1 .. Len(published') :
             \/ k \in 1 .. Len(published) /\ published'[k] = published[k]
             \/ published'[k] = e
      BY <2>0, <3>1
    <3>3. e.frames \subseteq 1 .. nread
      BY <1>2
    <3>4. e.gtc # 0 => \A i \in e.frames : sent[i].gtc = e.gtc
      BY DEF UInv, HeldGtc
    <3> HIDE DEF e
    <3> QED BY <3>1, <3>2, <3>3, <3>4 DEF UInv, FramesRead, Uniform
  <2>2. CASE ~ProcessEventTdc
    <3>1. UNCHANGED published
      BY <2>2 DEF Next, Manager, Listener, ClearGtc, ClearEvent, ClearLast,
         StartAcquisition, Stop, Stopped, BoardSends, ReadFrame, TestGtc,
         LoadEvent, StoreEvent, AppendHits, ResetChannels, vars
    <3>2. FramesRead'
      BY <1>2, <3>1 DEF UInv, FramesRead
    <3>3. \A k \in 1 .. Len(published) : \A i \in published[k].frames :
             sent'[i] = sent[i]
      BY <1>2 DEF UInv, FramesRead
    <3> QED BY <3>1, <3>2, <3>3 DEF UInv, Uniform
  <2> QED BY <2>1, <2>2
<1> QED BY <1>1, <1>5, <1>6 DEF UInv

(* An event published under a count other than zero holds hits of that      *)
(* count only, wherever START's clear() falls in addChannels and whatever   *)
(* was left of the run before.                                              *)
THEOREM OneCountPerEvent == Spec => []Uniform
<1>1. UInv => Uniform
  BY DEF UInv
<1> QED BY UniformInitially, UniformKept, <1>1, PTL DEF Spec

-----------------------------------------------------------------------------
(* No hit lost, none published twice. *)

Out(p) == UNION {p[k].frames : k \in 1 .. Len(p)}
Held == IF pc = "reset" THEN {} ELSE channels
Done == IF pc = "read" THEN nread ELSE nread - 1
Apart(p) ==
    \A j, k \in 1 .. Len(p) : j # k => p[j].frames \cap p[k].frames = {}

CInv == TInv /\ Out(published) \cup Held = 1 .. Done
             /\ Out(published) \cap Held = {} /\ Apart(published)

LEMMA CInvConserved == CInv => Conserved
  BY Zenon DEF CInv, Conserved, Out, Held, Done, Apart

(* What one more event adds. *)
LEMMA OutAppend ==
    ASSUME NEW p \in Seq(Event), NEW e \in Event,
           Apart(p), Out(p) \cap e.frames = {}
    PROVE  Out(Append(p, e)) = Out(p) \cup e.frames /\ Apart(Append(p, e))
<1> DEFINE q == Append(p, e)
<1>1. /\ Len(p) \in Nat /\ Len(q) = Len(p) + 1 /\ q[Len(p) + 1] = e
      /\ \A k \in 1 .. Len(p) : q[k] = p[k]
  OBVIOUS
<1> HIDE DEF q
<1>2. \A k \in 1 .. Len(q) : q[k] = e \/ (k \in 1 .. Len(p) /\ q[k] = p[k])
  BY <1>1
<1>3. Len(p) + 1 \in 1 .. Len(q) /\ 1 .. Len(p) \subseteq 1 .. Len(q)
  BY <1>1
<1>4. \A i : i \in Out(q) <=> i \in Out(p) \cup e.frames
  BY <1>1, <1>2, <1>3 DEF Out
<1>5. \A k \in 1 .. Len(p) : p[k].frames \cap e.frames = {}
  BY DEF Out
<1>6. ASSUME NEW j \in 1 .. Len(q), NEW k \in 1 .. Len(q), j # k
      PROVE  q[j].frames \cap q[k].frames = {}
  <2>1. CASE j \in 1 .. Len(p) /\ k \in 1 .. Len(p)
    BY <1>1, <1>6, <2>1 DEF Apart
  <2>2. CASE j = Len(p) + 1
    <3>1. q[j] = e /\ k \in 1 .. Len(p)
      BY <1>1, <1>6, <2>2
    <3> QED BY <3>1, <1>1, <1>5
  <2>3. CASE k = Len(p) + 1
    <3>1. q[k] = e /\ j \in 1 .. Len(p)
      BY <1>1, <1>6, <2>3
    <3> QED BY <3>1, <1>1, <1>5
  <2> QED BY <1>1, <2>1, <2>2, <2>3
<1>7. Out(q) = Out(p) \cup e.frames /\ Apart(q)
  BY <1>4, <1>6 DEF Apart
<1> QED BY <1>7 DEF q

LEMMA ConservedInitially == Init => CInv
<1> SUFFICES ASSUME Init PROVE CInv
  OBVIOUS
<1>1. TInv
  BY Initially
<1>2. Out(published) = {} /\ Apart(published) /\ Held = {} /\ Done = 0
  BY DEF Init, Out, Apart, Held, Done
<1> QED BY <1>1, <1>2 DEF CInv

LEMMA ConservedKept == CInv /\ [Next]_vars => CInv'
<1> SUFFICES ASSUME CInv, [Next]_vars PROVE CInv'
  OBVIOUS
<1>1. TInv /\ TInv'
  BY TypesKept DEF CInv
<1>2. /\ published \in Seq(Event) /\ nread \in Nat
      /\ channels \subseteq 1 .. nread
      /\ pc # "read" => nread \in 1 .. Len(sent)
  BY <1>1 DEF TInv, TypeOK, InHand
<1>3. CASE ProcessEventTdc
  <2> DEFINE e == [event |-> event, gtc |-> gtc, run |-> run,
                   frames |-> channels]
  <2>1. e \in Event
    BY <1>1 DEF Event, TInv, TypeOK
  <2>2. Held = channels /\ Held' = {} /\ Done' = Done
    BY <1>3 DEF ProcessEventTdc, Held, Done
  <2>3. published' = Append(published, e) /\ e.frames = channels
    BY <1>3 DEF ProcessEventTdc
  <2> HIDE DEF e
  <2>4. Out(published') = Out(published) \cup channels /\ Apart(published')
    BY <1>2, <2>1, <2>2, <2>3, OutAppend DEF CInv
  <2> QED BY <1>1, <2>2, <2>4 DEF CInv
<1>4. CASE AppendHits
  <2>1. /\ Held = channels /\ Held' = channels \cup {nread}
        /\ Done = nread - 1 /\ Done' = nread
        /\ published' = published
    BY <1>4 DEF AppendHits, Held, Done, board
  <2>2. nread \in 1 .. Len(sent)
    BY <1>2, <1>4 DEF AppendHits
  <2>3. (1 .. Done) \cup {nread} = 1 .. nread /\ nread \notin 1 .. Done
    BY <1>2, <2>1, <2>2
  <2>4. nread \notin Out(published)
    BY <2>3 DEF CInv
  <2>5. Out(published) \cup Held' = 1 .. Done' /\ Out(published) \cap Held' = {}
    BY <2>1, <2>3, <2>4 DEF CInv
  <2>6. Out(published') = Out(published) /\ (Apart(published) => Apart(published'))
    BY <2>1
  <2> QED BY <1>1, <2>5, <2>6 DEF CInv
<1>5. CASE ~ProcessEventTdc /\ ~AppendHits
  <2>1. published' = published
    BY <1>5 DEF Next, Manager, Listener, ClearGtc, ClearEvent, ClearLast,
       StartAcquisition, Stop, Stopped, BoardSends, ReadFrame, TestGtc,
       LoadEvent, StoreEvent, ResetChannels, vars
  <2>2. Held' = Held
    BY <1>5 DEF Next, Manager, Listener, ClearGtc, ClearEvent, ClearLast,
       StartAcquisition, Stop, Stopped, BoardSends, ReadFrame, TestGtc,
       LoadEvent, StoreEvent, ResetChannels, NoChannels, board, fields, vars, Held
  <2>3. Done' = Done
    BY <1>2, <1>5 DEF Next, Manager, Listener, ClearGtc, ClearEvent, ClearLast,
       StartAcquisition, Stop, Stopped, BoardSends, ReadFrame, TestGtc,
       LoadEvent, StoreEvent, ResetChannels, board, fields, vars, Done
  <2>4. Out(published') = Out(published) /\ (Apart(published) => Apart(published'))
    BY <2>1
  <2> QED BY <1>1, <2>2, <2>3, <2>4 DEF CInv
<1> QED BY <1>3, <1>4, <1>5

(* Every frame handled by the listener is in exactly one published event or *)
(* still in _channels, wherever START's clear() falls in addChannels.       *)
THEOREM NoHitLost == Spec => []Conserved
<1> QED BY ConservedInitially, ConservedKept, CInvConserved, PTL DEF Spec

-----------------------------------------------------------------------------
(* The buffer. *)

BInv == CInv /\ BufferIsTrigger

LEMMA BufferInitially == Init => BInv
<1>1. Cardinality({}) = 0
  BY FS_EmptySet
<1> QED BY ConservedInitially, <1>1 DEF Init, BInv, BufferIsTrigger

LEMMA BufferKept == BInv /\ [Next]_vars => BInv'
<1> SUFFICES ASSUME BInv, [Next]_vars PROVE BInv'
  OBVIOUS
<1>1. CInv /\ CInv'
  BY ConservedKept DEF BInv
<1>2. nread \in Nat /\ channels \subseteq 1 .. nread /\ startIdx \in Nat
  BY <1>1 DEF CInv, TInv, TypeOK
<1>3. IsFiniteSet(channels)
  <2>1. 1 \in Int /\ nread \in Int
    BY <1>2
  <2>2. IsFiniteSet(1 .. nread)
    BY <2>1, FS_Interval, Zenon
  <2> QED BY <1>2, <2>2, FS_Subset, Zenon
<1>4. CASE AppendHits
  <2>1. /\ pc = "append" /\ pc' = "read"
        /\ channels' = channels \cup {nread} /\ startIdx' = startIdx + 1
    BY <1>4 DEF AppendHits
  <2>2. channels \subseteq 1 .. nread - 1
    BY <1>1, <2>1 DEF CInv, Held, Done
  <2>3. nread \notin channels
    BY <1>2, <2>2
  <2>4. Cardinality(channels') = Cardinality(channels) + 1
    BY <1>3, <2>1, <2>3, FS_AddElement
  <2> QED BY <1>1, <2>1, <2>4 DEF BInv, BufferIsTrigger
<1>5. CASE ResetChannels
  <2>1. Cardinality({}) = 0
    BY FS_EmptySet
  <2> QED BY <1>1, <1>5, <2>1 DEF ResetChannels, NoChannels, ResetIdx, BInv,
                                  BufferIsTrigger
<1>6. CASE ~AppendHits /\ ~ResetChannels
  <2>1. channels' = channels /\ startIdx' = startIdx /\ (pc = "reset" => pc' = "reset")
    BY <1>6 DEF Next, Manager, Listener, ClearGtc, ClearEvent, ClearLast,
       StartAcquisition, Stop, Stopped, BoardSends, ReadFrame, TestGtc,
       LoadEvent, StoreEvent, ProcessEventTdc, board, fields, vars
  <2> QED BY <1>1, <2>1 DEF BInv, BufferIsTrigger
<1> QED BY <1>4, <1>5, <1>6

(* _startIdx counts the frames in _channels: the buffer fills with one       *)
(* trigger, however long the run and whatever START clears.                 *)
THEOREM BufferBounded == Spec => []BufferIsTrigger
<1>1. BInv => BufferIsTrigger
  BY DEF BInv
<1> QED BY BufferInitially, BufferKept, <1>1, PTL DEF Spec

-----------------------------------------------------------------------------
(* What the board sends. *)

(* The runs of the frames, and the last trigger of the present one. *)
RunsSent ==
    /\ \A i \in 1 .. Len(sent) : sent[i].run <= run
    /\ \A i \in 1 .. Len(sent) : sent[i].run = run =>
         /\ sent[Len(sent)].run = run
         /\ sent[i].trigger <= sent[Len(sent)].trigger

(* The frames of a trigger are neighbours and have one count; the next      *)
(* trigger of the run has another; a run begins with trigger one.           *)
Together ==
    \A i, j, k \in 1 .. Len(sent) : i <= j /\ j <= k /\ Same(i, k) => Same(i, j)
OneCount ==
    \A i, j \in 1 .. Len(sent) : Same(i, j) => sent[i].gtc = sent[j].gtc
NewCount ==
    \A i \in 1 .. Len(sent) - 1 :
        sent[i].run = sent[i + 1].run /\ sent[i].gtc = sent[i + 1].gtc => Same(i, i + 1)
FirstIsOne ==
    \A i \in 1 .. Len(sent) :
        i = 1 \/ sent[i - 1].run # sent[i].run => sent[i].trigger = 1

(* Between clear() and the start of the acquisition.                        *)
NotBegun ==
    mgr \in {"event", "last", "acquire"} => \A i \in 1 .. Len(sent) : sent[i].run # run

Stream == RunsSent /\ Together /\ OneCount /\ NewCount /\ FirstIsOne /\ NotBegun

(* Where every STOP drained the socket, nothing is on the way between runs, *)
(* and what is on the way is of this run.                                   *)
RestIsQuiet == mgr \notin {"running", "sleeping"} => Quiet
UnreadIsNew ==
    /\ \A i \in nread + 1 .. Len(sent) : sent[i].run = run
    /\ pc # "read" => sent[nread].run = run

QInv == TInv /\ Stream /\ (drained => RestIsQuiet /\ UnreadIsNew)

LEMMA QuietInitially == Init => QInv
<1> SUFFICES ASSUME Init PROVE QInv
  OBVIOUS
<1>1. TInv
  BY Initially
<1> QED BY <1>1 DEF Init, QInv, Stream, RunsSent, Together, OneCount, NewCount,
                    FirstIsOne, NotBegun, RestIsQuiet, UnreadIsNew, Quiet

LEMMA StreamKept == ASSUME QInv, [Next]_vars PROVE Stream'
<1>1. TInv /\ TInv' /\ Stream
  BY TypesKept DEF QInv
<1>2. sent \in Seq(Frame) /\ Len(sent) \in Nat /\ run \in Nat
  BY <1>1 DEF TInv, TypeOK
<1>3. \A i \in 1 .. Len(sent) : sent[i].run \in Nat /\ sent[i].trigger \in Nat
  <2>1. \A i \in 1 .. Len(sent) : sent[i] \in Frame
    BY <1>2
  <2> QED BY <2>1 DEF Frame
<1>4. CASE BoardSends
  <2> DEFINE l == Len(sent)
  <2>1. PICK f \in Frame : /\ sent' = Append(sent, f) /\ run' = run
                           /\ f.run = run
                           /\ \/ InRun /\ f = sent[l]
                              \/ InRun /\ f.trigger = sent[l].trigger + 1 /\ f.gtc # sent[l].gtc
                              \/ ~InRun /\ f.trigger = 1
    <3>1. InRun => l >= 1 /\ sent[l] \in Frame /\ sent[l].run = run
      BY <1>1, <1>2 DEF InRun, Stream, RunsSent
    <3>2. CASE MoreOfTrigger
      BY <1>4, <3>1, <3>2 DEF MoreOfTrigger, BoardSends, fields
    <3>3. CASE NextTrigger
      <4>1. PICK g \in Gtcs :
              /\ InRun => g # sent[l].gtc
              /\ sent' = Append(sent, [run |-> run, gtc |-> g,
                        trigger |-> IF InRun THEN sent[l].trigger + 1 ELSE 1])
        BY <3>3 DEF NextTrigger
      <4> DEFINE f == [run |-> run, gtc |-> g,
                       trigger |-> IF InRun THEN sent[l].trigger + 1 ELSE 1]
      <4>2. f \in Frame
        BY <3>1, <1>2 DEF Frame
      <4>3. run' = run
        BY <1>4 DEF BoardSends
      <4> QED BY <4>1, <4>2, <4>3
    <3> QED BY <1>4, <3>2, <3>3 DEF BoardSends
  <2>2. /\ l \in Nat /\ Len(sent') = l + 1 /\ sent'[l + 1] = f
        /\ \A i \in 1 .. l : sent'[i] = sent[i]
    BY <1>2, <2>1
  <2>3. InRun <=> \E i \in 1 .. l : sent[i].run = run
    BY DEF InRun
  <2> HIDE DEF l
  <2>4. f.run \in Nat /\ f.trigger \in Nat
    BY <2>1 DEF Frame
  <2>5. \A i \in 1 .. Len(sent') : i \in 1 .. l \/ i = l + 1
    BY <2>2
  <2>6. l \in 1 .. l \/ l = 0
    BY <2>2
  <2>7. /\ \A i \in 1 .. l : sent[i].run <= run
        /\ \A i \in 1 .. l : sent[i].run = run =>
             sent[l].run = run /\ sent[i].trigger <= sent[l].trigger
    BY <1>1 DEF Stream, RunsSent, l
  <2>8. InRun => l \in 1 .. l /\ sent[l].run = run
    BY <2>3, <2>6, <2>7
  <2>9. RunsSent'
    BY <1>3, <2>1, <2>2, <2>3, <2>4, <2>5, <2>7, <2>8 DEF RunsSent, l
  (* A frame before that is of the trigger of the new one is of that of the *)
  (* last.                                                                  *)
  <2>10. \A i \in 1 .. l :
           sent[i].run = f.run /\ sent[i].trigger = f.trigger =>
             InRun /\ f = sent[l] /\ Same(i, l)
    BY <1>3, <2>1, <2>2, <2>3, <2>7, <2>8 DEF Same
  <2>11. Together'
    <3> SUFFICES ASSUME NEW i \in 1 .. Len(sent'), NEW j \in 1 .. Len(sent'),
                        NEW k \in 1 .. Len(sent'), i <= j, j <= k, Same(i, k)'
                 PROVE  Same(i, j)'
      BY DEF Together
    <3>1. CASE k \in 1 .. l
      <4>1. i \in 1 .. l /\ j \in 1 .. l
        BY <2>2, <3>1
      <4>2. Same(i, k)
        BY <2>2, <3>1, <4>1 DEF Same
      <4> QED BY <1>1, <2>2, <3>1, <4>1, <4>2 DEF Stream, Together, Same, l
    <3>2. CASE k = l + 1 /\ i \in 1 .. l /\ j \in 1 .. l
      <4>1. InRun /\ f = sent[l] /\ Same(i, l) /\ l \in 1 .. l
        BY <2>2, <2>8, <2>10, <3>2 DEF Same
      <4>2. Same(i, j)
        BY <1>1, <2>2, <3>2, <4>1 DEF Stream, Together, l
      <4> QED BY <2>2, <3>2, <4>2 DEF Same
    <3>3. CASE k = l + 1 /\ j = l + 1
      BY <3>3
    <3>4. CASE i = l + 1
      <4>1. j = i
        BY <2>2, <2>5, <3>4
      <4> QED BY <4>1 DEF Same
    <3> QED BY <2>5, <3>1, <3>2, <3>3, <3>4
  <2>12. OneCount'
    <3> SUFFICES ASSUME NEW i \in 1 .. Len(sent'), NEW j \in 1 .. Len(sent'), Same(i, j)'
                 PROVE  sent'[i].gtc = sent'[j].gtc
      BY DEF OneCount
    <3>1. CASE i \in 1 .. l /\ j \in 1 .. l
      BY <1>1, <2>2, <3>1 DEF Stream, OneCount, Same, l
    <3>2. CASE i \in 1 .. l /\ j = l + 1
      <4>1. InRun /\ f = sent[l] /\ Same(i, l) /\ l \in 1 .. l
        BY <2>2, <2>8, <2>10, <3>2 DEF Same
      <4> QED BY <1>1, <2>2, <3>2, <4>1 DEF Stream, OneCount, l
    <3>3. CASE j \in 1 .. l /\ i = l + 1
      <4>1. InRun /\ f = sent[l] /\ Same(j, l) /\ l \in 1 .. l
        BY <2>2, <2>8, <2>10, <3>3 DEF Same
      <4> QED BY <1>1, <2>2, <3>3, <4>1 DEF Stream, OneCount, l
    <3> QED BY <2>5, <3>1, <3>2, <3>3
  <2>13. NewCount'
    <3> SUFFICES ASSUME NEW i \in 1 .. Len(sent') - 1, sent'[i].run = sent'[i + 1].run,
                        sent'[i].gtc = sent'[i + 1].gtc
                 PROVE  Same(i, i + 1)'
      BY DEF NewCount
    <3>1. CASE i \in 1 .. l - 1
      <4>1. i \in 1 .. l /\ i + 1 \in 1 .. l
        BY <2>2, <3>1
      <4> QED BY <1>1, <2>2, <3>1, <4>1 DEF Stream, NewCount, Same, l
    <3>2. CASE i = l
      <4>1. i \in 1 .. l /\ sent'[i] = sent[l] /\ sent'[i + 1] = f
        BY <2>2, <3>2
      <4>2. InRun
        BY <2>1, <2>3, <3>2, <4>1
      <4> QED BY <2>1, <4>1, <4>2 DEF Same
    <3> QED BY <2>2, <3>1, <3>2
  <2>14. FirstIsOne'
    <3> SUFFICES ASSUME NEW i \in 1 .. Len(sent'), i = 1 \/ sent'[i - 1].run # sent'[i].run
                 PROVE  sent'[i].trigger = 1
      BY DEF FirstIsOne
    <3>1. CASE i \in 1 .. l
      <4>1. i # 1 => i - 1 \in 1 .. l
        BY <2>2, <3>1
      <4> QED BY <1>1, <2>2, <3>1, <4>1 DEF Stream, FirstIsOne, l
    <3>2. CASE i = l + 1
      <4>1. ~InRun
        BY <2>1, <2>2, <2>8, <3>2
      <4> QED BY <2>1, <2>2, <3>2, <4>1
    <3> QED BY <2>5, <3>1, <3>2
  <2>15. NotBegun'
    BY <1>4 DEF BoardSends, NotBegun
  <2> QED BY <2>9, <2>11, <2>12, <2>13, <2>14, <2>15 DEF Stream
<1>5. CASE ClearGtc
  <2>1. sent' = sent /\ run' = run + 1
    BY <1>5 DEF ClearGtc
  <2>2. \A i \in 1 .. Len(sent) : sent[i].run <= run
    BY <1>1 DEF Stream, RunsSent
  <2>3. RunsSent'
    BY <1>2, <1>3, <2>1, <2>2 DEF RunsSent
  <2>4. NotBegun'
    BY <1>2, <1>3, <2>1, <2>2 DEF NotBegun
  <2> QED BY <1>1, <2>1, <2>3, <2>4 DEF Stream, Together, OneCount, NewCount, FirstIsOne,
                                        Same
<1>6. CASE ~BoardSends /\ ~ClearGtc
  <2>1. sent' = sent /\ run' = run
    BY <1>6 DEF Next, Manager, Listener, ClearEvent, ClearLast, StartAcquisition, Stop,
       Stopped, ReadFrame, TestGtc, AppendHits, LoadEvent, StoreEvent,
       ProcessEventTdc, ResetChannels, board, fields, vars
  <2>2. mgr' \in {"event", "last", "acquire"} => mgr \in {"event", "last", "acquire"}
    BY <1>6 DEF Next, Manager, Listener, ClearEvent, ClearLast, StartAcquisition, Stop,
       Stopped, ReadFrame, TestGtc, AppendHits, LoadEvent, StoreEvent,
       ProcessEventTdc, ResetChannels, board, fields, vars
  <2> QED BY <1>1, <2>1, <2>2 DEF Stream, RunsSent, Together, OneCount, NewCount,
                                  FirstIsOne, NotBegun, Same
<1> QED BY <1>4, <1>5, <1>6

LEMMA QuietKept == QInv /\ [Next]_vars => QInv'
<1> SUFFICES ASSUME QInv, [Next]_vars PROVE QInv'
  OBVIOUS
<1>1. TInv /\ TInv' /\ Stream'
  BY TypesKept, StreamKept DEF QInv
<1>2. SUFFICES ASSUME drained' PROVE RestIsQuiet' /\ UnreadIsNew'
  BY <1>1 DEF QInv
<1>3. drained
  BY <1>2 DEF Next, Manager, Listener, ClearGtc, ClearEvent, ClearLast,
     StartAcquisition, Stop, Stopped, BoardSends, ReadFrame, TestGtc, AppendHits,
     LoadEvent, StoreEvent, ProcessEventTdc, ResetChannels, board, vars
<1>4. RestIsQuiet /\ UnreadIsNew
  BY <1>3 DEF QInv
<1>5. /\ sent \in Seq(Frame) /\ Len(sent) \in Nat /\ nread \in 0 .. Len(sent)
      /\ pc # "read" => nread \in 1 .. Len(sent)
  BY <1>1 DEF TInv, TypeOK, InHand
<1>6. CASE BoardSends
  <2>1. /\ Len(sent') = Len(sent) + 1 /\ sent'[Len(sent) + 1].run = run
        /\ \A i \in 1 .. Len(sent) : sent'[i] = sent[i]
    <3>1. CASE MoreOfTrigger
      <4>1. sent[Len(sent)].run = run
        BY <3>1 DEF QInv, Stream, RunsSent, InRun, MoreOfTrigger
      <4> QED BY <1>5, <3>1, <4>1 DEF MoreOfTrigger
    <3>2. CASE NextTrigger
      BY <1>5, <3>2 DEF NextTrigger
    <3> QED BY <1>6, <3>1, <3>2 DEF BoardSends
  <2>2. UNCHANGED <<nread, mgr, run, pc>> /\ mgr = "running"
    BY <1>6 DEF BoardSends
  <2> QED BY <1>4, <1>5, <2>1, <2>2 DEF RestIsQuiet, UnreadIsNew
<1>7. CASE ClearGtc \/ ClearEvent \/ ClearLast \/ StartAcquisition
  <2>1. UNCHANGED <<sent, nread, pc>> /\ mgr \notin {"running", "sleeping"}
    BY <1>7 DEF ClearGtc, ClearEvent, ClearLast, StartAcquisition
  <2>2. nread = Len(sent) /\ pc = "read"
    BY <1>4, <2>1 DEF RestIsQuiet, Quiet
  <2> QED BY <1>5, <2>1, <2>2 DEF RestIsQuiet, UnreadIsNew, Quiet
<1>8. CASE Stop \/ Stopped
  BY <1>4, <1>2, <1>8 DEF Stop, Stopped, RestIsQuiet, UnreadIsNew, Quiet
<1>9. CASE ReadFrame
  BY <1>4, <1>5, <1>9 DEF ReadFrame, DataOnSocket, board, RestIsQuiet, UnreadIsNew, Quiet
<1>10. CASE TestGtc \/ AppendHits \/ LoadEvent \/ StoreEvent \/ ProcessEventTdc
            \/ ResetChannels
  BY <1>4, <1>10 DEF TestGtc, AppendHits, LoadEvent, StoreEvent, ProcessEventTdc,
     ResetChannels, board, RestIsQuiet, UnreadIsNew, Quiet
<1>11. CASE UNCHANGED vars
  BY <1>4, <1>11 DEF vars, RestIsQuiet, UnreadIsNew, Quiet
<1> QED BY <1>6, <1>7, <1>8, <1>9, <1>10, <1>11 DEF Next, Manager, Listener

-----------------------------------------------------------------------------
(* The numbers. *)

CountOf(p, k, r) == Cardinality({j \in 1 .. k : p[j].run = r})
NumberedBy(p) == \A k \in 1 .. Len(p) : p[k].event = CountOf(p, k, p[k].run)

(* _event is the number of events of the run, plus the one being published. *)
EventCounts ==
    LET n == CountOf(published, Len(published), run)
    IN  /\ mgr \in {"event", "last", "acquire"} => n = 0
        /\ mgr \in {"last", "acquire"} => event = 0
        /\ mgr \in {"running", "sleeping"} =>
             event = IF pc = "publish" THEN n + 1 ELSE n
        /\ pc = "store" => num = n
        /\ \A k \in 1 .. Len(published) : published[k].run <= run

NInv == QInv /\ (drained => EventCounts /\ NumberedBy(published))

LEMMA CountIsNat ==
    ASSUME NEW p \in Seq(Event), NEW k \in 0 .. Len(p), NEW r
    PROVE  CountOf(p, k, r) \in Nat
<1> DEFINE S == {j \in 1 .. k : p[j].run = r}
<1>1. 1 \in Int /\ k \in Int /\ S \subseteq 1 .. k
  OBVIOUS
<1>2. IsFiniteSet(S)
  BY <1>1, FS_Interval, FS_Subset, Zenon
<1> QED BY <1>2, FS_CardinalityType DEF CountOf

(* One more event counts in its own run only.                               *)
LEMMA CountAppend ==
    ASSUME NEW p \in Seq(Event), NEW e \in Event
    PROVE  /\ \A k \in 0 .. Len(p), r \in Nat :
                CountOf(Append(p, e), k, r) = CountOf(p, k, r)
           /\ \A r \in Nat : CountOf(Append(p, e), Len(p) + 1, r)
                = IF e.run = r THEN CountOf(p, Len(p), r) + 1
                               ELSE CountOf(p, Len(p), r)
<1> DEFINE q == Append(p, e)
           S(s, k, r) == {j \in 1 .. k : s[j].run = r}
<1>1. /\ Len(p) \in Nat /\ q[Len(p) + 1] = e
      /\ \A k \in 1 .. Len(p) : q[k] = p[k]
  OBVIOUS
<1> HIDE DEF q
<1>2. ASSUME NEW k \in 0 .. Len(p), NEW r \in Nat PROVE S(q, k, r) = S(p, k, r)
  BY <1>1
<1>3. ASSUME NEW r \in Nat
      PROVE  CountOf(q, Len(p) + 1, r)
               = IF e.run = r THEN CountOf(p, Len(p), r) + 1 ELSE CountOf(p, Len(p), r)
  <2> DEFINE A == S(p, Len(p), r)  B == S(q, Len(p) + 1, r)  n == Len(p) + 1
  <2>1. 1 \in Int /\ Len(p) \in Int /\ A \subseteq 1 .. Len(p) /\ n \notin A
    BY <1>1
  <2>2. IsFiniteSet(A)
    BY <2>1, FS_Interval, FS_Subset, Zenon
  <2>3. B = IF e.run = r THEN A \cup {n} ELSE A
    BY <1>1
  <2>4. Cardinality(A \cup {n}) = Cardinality(A) + 1
    BY <2>1, <2>2, FS_AddElement
  <2> QED BY <2>3, <2>4 DEF CountOf
<1>4. \A k \in 0 .. Len(p), r \in Nat : CountOf(q, k, r) = CountOf(p, k, r)
  BY <1>2 DEF CountOf
<1> QED BY <1>3, <1>4 DEF q

LEMMA NumberedInitially == Init => NInv
<1> SUFFICES ASSUME Init PROVE NInv
  OBVIOUS
<1>1. CountOf(published, Len(published), run) = 0
  <2>1. {j \in 1 .. Len(published) : published[j].run = run} = {}
    BY DEF Init
  <2> QED BY <2>1, FS_EmptySet DEF CountOf
<1>2. NumberedBy(published) /\ \A k \in 1 .. Len(published) : published[k].run <= run
  BY DEF Init, NumberedBy
<1> QED BY QuietInitially, <1>1, <1>2 DEF Init, NInv, EventCounts

LEMMA NumberedKept == NInv /\ [Next]_vars => NInv'
<1> SUFFICES ASSUME NInv, [Next]_vars PROVE NInv'
  OBVIOUS
<1>1. QInv /\ QInv' /\ TInv /\ TInv'
  BY QuietKept DEF NInv, QInv
<1>2. SUFFICES ASSUME drained' PROVE EventCounts' /\ NumberedBy(published)'
  BY <1>1 DEF NInv
<1>3. drained
  BY <1>2 DEF Next, Manager, Listener, ClearGtc, ClearEvent, ClearLast,
     StartAcquisition, Stop, Stopped, BoardSends, ReadFrame, TestGtc, AppendHits,
     LoadEvent, StoreEvent, ProcessEventTdc, ResetChannels, board, vars
<1>4. /\ RestIsQuiet /\ EventCounts /\ NumberedBy(published)
      /\ published \in Seq(Event) /\ Len(published) \in Nat /\ run \in Nat
  BY <1>1, <1>3 DEF QInv, NInv, TInv, TypeOK
<1> DEFINE n == CountOf(published, Len(published), run)
<1>5. n \in Nat
  BY <1>4, CountIsNat
<1>6. \A k \in 1 .. Len(published) :
        published[k].run \in Nat /\ published[k].run <= run
  <2>1. \A k \in 1 .. Len(published) : published[k] \in Event
    BY <1>4
  <2> QED BY <1>4, <2>1 DEF Event, EventCounts
<1>7. CASE ProcessEventTdc
  <2> DEFINE e == [event |-> event, gtc |-> gtc, run |-> run, frames |-> channels]
             p == published
  <2>1. /\ published' = Append(p, e) /\ pc = "publish" /\ pc' = "reset"
        /\ UNCHANGED <<mgr, run, event, num>>
    BY <1>7 DEF ProcessEventTdc, board, fields
  <2>2. e \in Event /\ e.run = run /\ e.event = event
    BY <1>1 DEF Event, TInv, TypeOK
  <2>3. event = n + 1 /\ mgr \in {"running", "sleeping"}
    BY <1>4, <2>1 DEF RestIsQuiet, Quiet, EventCounts
  <2> HIDE DEF e
  <2>4. /\ Len(published') = Len(p) + 1 /\ published'[Len(p) + 1] = e
        /\ \A k \in 1 .. Len(p) : published'[k] = p[k]
    BY <1>4, <2>1, <2>2
  <2>5. /\ \A k \in 1 .. Len(p), r \in Nat : CountOf(published', k, r) = CountOf(p, k, r)
        /\ CountOf(published', Len(p) + 1, run) = n + 1
    BY <1>4, <2>1, <2>2, CountAppend
  <2>6. EventCounts'
    <3>1. CountOf(published, Len(published), run)' = n + 1
      BY <2>1, <2>4, <2>5
    <3>2. \A k \in 1 .. Len(published') : published'[k].run <= run'
      BY <1>4, <1>6, <2>1, <2>2, <2>4
    <3> QED BY <2>1, <2>3, <3>1, <3>2 DEF EventCounts
  <2>7. NumberedBy(published')
    <3>1. ASSUME NEW k \in 1 .. Len(p)
          PROVE  published'[k].event = CountOf(published', k, published'[k].run)
      BY <1>4, <1>6, <2>4, <2>5 DEF NumberedBy
    <3>2. published'[Len(p) + 1].event = CountOf(published', Len(p) + 1, run)
      BY <2>2, <2>3, <2>4, <2>5
    <3> QED BY <1>4, <2>2, <2>4, <3>1, <3>2 DEF NumberedBy
  <2> QED BY <2>6, <2>7
<1>8. CASE ClearGtc
  <2>1. /\ UNCHANGED <<published, pc, num, event>> /\ run' = run + 1 /\ mgr' = "event"
        /\ mgr = "configured"
    BY <1>8 DEF ClearGtc
  <2>2. pc = "read"
    BY <1>4, <2>1 DEF RestIsQuiet, Quiet
  <2>3. {j \in 1 .. Len(published) : published[j].run = run + 1} = {}
    BY <1>4, <1>6
  <2>4. CountOf(published, Len(published), run)' = 0
    BY <2>1, <2>3, FS_EmptySet DEF CountOf
  <2> QED BY <1>4, <1>6, <2>1, <2>2, <2>4 DEF EventCounts, NumberedBy
<1>9. CASE ~ProcessEventTdc /\ ~ClearGtc
  <2>1. UNCHANGED <<published, run>>
    BY <1>9 DEF Next, Manager, Listener, ClearEvent, ClearLast, StartAcquisition,
       Stop, Stopped, BoardSends, ReadFrame, TestGtc, LoadEvent, StoreEvent,
       AppendHits, ResetChannels, board, vars
  <2>2. CountOf(published, Len(published), run)' = n
    BY <2>1
  <2>3. pc # "read" => mgr \in {"running", "sleeping"}
    BY <1>1, <1>4 DEF RestIsQuiet, Quiet, TInv, TypeOK
  <2> HIDE DEF n
  <2> USE DEF EventCounts
  <2>4. /\ mgr \in {"event", "last", "acquire"} => n = 0
        /\ mgr \in {"last", "acquire"} => event = 0
        /\ mgr \in {"running", "sleeping"} => event = IF pc = "publish" THEN n + 1 ELSE n
        /\ pc = "store" => num = n
        /\ pc = "read" \/ mgr \in {"running", "sleeping"}
    BY <1>4, <2>3 DEF n
  <2>5. /\ mgr' \in {"event", "last", "acquire"} => n = 0
        /\ mgr' \in {"last", "acquire"} => event' = 0
        /\ mgr' \in {"running", "sleeping"} => event' = IF pc' = "publish" THEN n + 1 ELSE n
        /\ pc' = "store" => num' = n
    <3>1. CASE Manager
      BY <1>9, <2>4, <3>1 DEF Manager, ClearEvent, ClearedEvent, ClearLast,
         StartAcquisition, Stop, Stopped, fields
    <3>2. CASE BoardSends
      BY <2>4, <3>2 DEF BoardSends, fields
    <3>3. CASE ReadFrame \/ TestGtc \/ AppendHits \/ ResetChannels
      BY <2>4, <3>3 DEF ReadFrame, TestGtc, AppendHits, ResetChannels, board, fields
    <3>4. CASE LoadEvent \/ StoreEvent
      BY <2>4, <3>4 DEF LoadEvent, StoreEvent, board, fields
    <3>5. CASE UNCHANGED vars
      BY <2>4, <3>5 DEF vars
    <3> QED BY <1>9, <3>1, <3>2, <3>3, <3>4, <3>5 DEF Next, Listener
  <2> QED BY <1>4, <2>1, <2>2, <2>5 DEF n, NumberedBy
<1> QED BY <1>7, <1>8, <1>9

(* Where every STOP drained the socket, the events of a run are numbered     *)
(* from one without a gap: the reset of clear() is never lost between the    *)
(* load and the store of _event++.                                          *)
THEOREM NumbersHaveNoGap == Spec => []Numbered
<1>1. NInv => Numbered
  BY DEF NInv, Numbered, NumberedBy, CountOf
<1> QED BY NumberedInitially, NumberedKept, <1>1, PTL DEF Spec

-----------------------------------------------------------------------------
(* The groups. *)

GroupOf(n) == {j \in 1 .. n : Same(j, n)}
OfRun(n) == n >= 1 /\ sent[n].run = run
(* After frame n and, in a new run, after clear().                          *)
CountAfter(n) == IF OfRun(n) THEN sent[n].gtc ELSE 0
(* Frame n is the last of its trigger.                                      *)
Ends(n) == n = 0 \/ ~Same(n, n + 1)

Listening ==
    /\ pc = "read" => /\ channels = GroupOf(nread) /\ gtc = CountAfter(nread)
                      /\ mgr \notin {"event", "last"} => lastGtc = CountAfter(nread)
    /\ pc = "test" =>
         \/ /\ channels = GroupOf(nread - 1)
            /\ gtc = CountAfter(nread - 1) /\ lastGtc = CountAfter(nread - 1)
         \/ channels = {} /\ lastGtc = rgtc /\ Ends(nread - 1)
    /\ pc = "append" => channels = GroupOf(nread) \ {nread} /\ lastGtc = rgtc
    /\ pc \in {"load", "store", "publish"} =>
         channels = GroupOf(nread - 1) /\ gtc = CountAfter(nread - 1) /\ Ends(nread - 1)
    /\ pc = "reset" => Ends(nread - 1)

(* A published event is a whole trigger of the frames s, and it is over.    *)
SameIn(s, i, j) == s[i].run = s[j].run /\ s[i].trigger = s[j].trigger
Whole(s, e) ==
    /\ e.frames \subseteq 1 .. Len(s)
    /\ \A i \in e.frames :
         /\ e.frames = {j \in 1 .. Len(s) : SameIn(s, j, i)}
         /\ ~SameIn(s, i, Len(s))
         /\ e.gtc = IF s[i].run = e.run THEN s[i].gtc ELSE 0

GInv ==
    /\ QInv
    /\ Regular => /\ Listening
                  /\ \A k \in 1 .. Len(published) : Whole(sent, published[k])

LEMMA GroupsInitially == Init => GInv
<1> SUFFICES ASSUME Init PROVE GInv
  OBVIOUS
<1>1. GroupOf(0) = {} /\ CountAfter(0) = 0
  BY DEF GroupOf, CountAfter, OfRun
<1> QED BY QuietInitially, <1>1 DEF Init, GInv, Listening

(* A behaviour that is not regular does not become so.                      *)
LEMMA RegularBefore ==
    ASSUME QInv, [Next]_vars, Regular'
    PROVE  Regular
<1>1. drained
  BY DEF Regular, Next, Manager, Listener, ClearGtc, ClearEvent, ClearLast,
     StartAcquisition, Stop, Stopped, BoardSends, ReadFrame, TestGtc, AppendHits,
     LoadEvent, StoreEvent, ProcessEventTdc, ResetChannels, board, vars
<1>2. TInv /\ TInv'
  BY TypesKept DEF QInv
<1>3. /\ Len(sent) \in Nat /\ Len(sent') \in Nat /\ Len(sent) <= Len(sent')
      /\ \A i \in 1 .. Len(sent) : sent'[i] = sent[i]
  BY <1>2, SentKept DEF TInv, TypeOK
<1> QED BY <1>1, <1>3 DEF Regular

(* Frames sent later leave the groups of earlier ones as they are.          *)
LEMMA GroupsStay ==
    ASSUME QInv, [Next]_vars, run' = run
    PROVE  \A n \in 0 .. Len(sent) :
             /\ GroupOf(n)' = GroupOf(n) /\ CountAfter(n)' = CountAfter(n)
             /\ n < Len(sent) => (Ends(n)' <=> Ends(n))
<1>1. /\ Len(sent) \in Nat /\ Len(sent') \in Nat /\ Len(sent) <= Len(sent')
      /\ \A i \in 1 .. Len(sent) : sent'[i] = sent[i]
  BY SentKept, QuietKept DEF QInv, TInv, TypeOK
<1> TAKE n \in 0 .. Len(sent)
<1>2. n \in Int /\ (n = 0 \/ n \in 1 .. Len(sent))
  BY <1>1
<1>3. \A j \in 1 .. n : sent'[j] = sent[j]
  BY <1>1
<1>4. GroupOf(n)' = GroupOf(n)
  <2>1. CASE n = 0
    BY <2>1 DEF GroupOf
  <2>2. CASE n \in 1 .. Len(sent)
    BY <1>1, <1>3, <2>2 DEF GroupOf, Same
  <2> QED BY <1>2, <2>1, <2>2
<1>5. CountAfter(n)' = CountAfter(n)
  BY <1>1, <1>2 DEF CountAfter, OfRun
<1>6. ASSUME n < Len(sent) PROVE Ends(n)' <=> Ends(n)
  <2>1. n + 1 \in 1 .. Len(sent)
    BY <1>1, <1>2, <1>6
  <2> QED BY <1>1, <1>2, <2>1 DEF Ends, Same
<1> QED BY <1>4, <1>5, <1>6

(* The frame in hand, when it does not continue what is held.               *)
LEMMA NewTriggerEnds ==
    ASSUME QInv, Regular, pc = "test", lastGtc = CountAfter(nread - 1)
    PROVE  /\ rgtc # lastGtc => Ends(nread - 1)
           /\ rgtc = lastGtc => nread > 1 /\ Same(nread - 1, nread)
<1>1. /\ nread \in 1 .. Len(sent) /\ Len(sent) \in Nat /\ sent[nread].run = run
      /\ rgtc = sent[nread].gtc
      /\ nread = 1 \/ nread - 1 \in 1 .. Len(sent)
  BY DEF QInv, TInv, TypeOK, InHand, Regular, UnreadIsNew, rgtc
<1>2. ASSUME nread > 1, Same(nread - 1, nread) PROVE rgtc = lastGtc
  <2>1. sent[nread - 1].gtc = sent[nread].gtc
    BY <1>1, <1>2 DEF QInv, Stream, OneCount
  <2> QED BY <1>1, <1>2, <2>1 DEF CountAfter, OfRun, Same
<1>3. ASSUME rgtc = lastGtc PROVE nread > 1 /\ Same(nread - 1, nread)
  <2>1. CASE OfRun(nread - 1)
    <3>1. nread - 1 \in 1 .. Len(sent) - 1 /\ (nread - 1) + 1 = nread
      BY <1>1, <2>1 DEF OfRun
    <3>2. /\ sent[nread - 1].run = sent[nread].run
          /\ sent[nread - 1].gtc = sent[nread].gtc
      BY <1>1, <1>3, <2>1 DEF OfRun, CountAfter
    <3>3. Same(nread - 1, (nread - 1) + 1)
      BY <3>1, <3>2 DEF QInv, Stream, NewCount
    <3> QED BY <1>1, <3>1, <3>3
  <2>2. CASE ~OfRun(nread - 1)
    <3>1. nread = 1 \/ sent[nread - 1].run # sent[nread].run
      BY <1>1, <2>2 DEF OfRun
    <3>2. sent[nread].trigger = 1
      BY <1>1, <3>1 DEF QInv, Stream, FirstIsOne
    <3>3. sent[nread].gtc # 0
      BY <1>1, <3>2 DEF Regular
    <3> QED BY <1>1, <1>3, <2>2, <3>3 DEF CountAfter
  <2> QED BY <2>1, <2>2
<1>4. (nread - 1) + 1 = nread
  BY <1>1
<1> QED BY <1>1, <1>2, <1>3, <1>4 DEF Ends, Same

(* What is held when a frame of another trigger comes is a whole trigger.   *)
LEMMA EndedIsWhole ==
    ASSUME QInv, pc # "read", Ends(nread - 1), channels = GroupOf(nread - 1),
           gtc = CountAfter(nread - 1)
    PROVE  Whole(sent, [event |-> event, gtc |-> gtc, run |-> run, frames |-> channels])
<1> DEFINE n == nread - 1  l == Len(sent)
<1>1. /\ nread \in 1 .. l /\ l \in Nat /\ n + 1 = nread /\ n \in 0 .. l
      /\ n = 0 \/ n \in 1 .. l
  BY DEF QInv, TInv, TypeOK, InHand
<1>2. channels = {j \in 1 .. n : Same(j, n)}
  BY DEF GroupOf
<1>3. channels \subseteq 1 .. l
  BY <1>1, <1>2
<1>4. ASSUME NEW i \in channels
      PROVE  /\ channels = {j \in 1 .. l : Same(j, i)}
             /\ ~Same(i, l)
             /\ gtc = IF sent[i].run = run THEN sent[i].gtc ELSE 0
  <2>1. i \in 1 .. n /\ Same(i, n) /\ n \in 1 .. l /\ ~Same(n, nread)
    BY <1>1, <1>2, <1>4 DEF Ends
  <2>2. \A j \in 1 .. l : nread <= j => ~Same(n, j)
    BY <1>1, <2>1 DEF QInv, Stream, Together
  <2>3. \A j \in 1 .. l : Same(j, i) <=> (j \in 1 .. n /\ Same(j, n))
    BY <1>1, <2>1, <2>2 DEF Same
  <2>4. ~Same(i, l)
    BY <1>1, <2>1, <2>2 DEF Same
  <2>5. sent[i].gtc = sent[n].gtc /\ sent[i].run = sent[n].run
    BY <1>1, <2>1 DEF QInv, Stream, OneCount, Same
  <2>6. gtc = IF sent[i].run = run THEN sent[i].gtc ELSE 0
    BY <1>1, <2>1, <2>5 DEF CountAfter, OfRun
  <2> QED BY <1>1, <1>2, <2>3, <2>4, <2>6
<1> QED BY <1>3, <1>4 DEF Whole, Same, SameIn

LEMMA ListeningKept ==
    ASSUME GInv, [Next]_vars, Regular'
    PROVE  Listening'
<1>1. QInv /\ QInv' /\ Regular /\ Listening
  BY QuietKept, RegularBefore DEF GInv
<1>2. /\ nread \in 0 .. Len(sent) /\ Len(sent) \in Nat
      /\ pc # "read" => nread \in 1 .. Len(sent) /\ sent[nread].run = run
      /\ RestIsQuiet
      /\ pc \in {"read", "test", "append", "load", "store", "publish", "reset"}
  BY <1>1 DEF QInv, TInv, TypeOK, InHand, Regular, UnreadIsNew
<1>3. pc # "read" => /\ nread - 1 \in 0 .. Len(sent) /\ nread - 1 < Len(sent)
                     /\ (nread - 1) + 1 = nread
  BY <1>2
<1>4. CASE BoardSends
  <2>1. UNCHANGED <<run, nread, pc, gtc, lastGtc, channels>> /\ mgr' = mgr
    BY <1>4 DEF BoardSends, fields
  <2>2. pc = "test" => rgtc' = rgtc
    BY <1>1, <1>2, <2>1, SentKept DEF rgtc, QInv
  <2>3. pc = "append" => rgtc' = rgtc
    BY <1>1, <1>2, <2>1, SentKept DEF rgtc, QInv
  <2>4. \A n \in 0 .. Len(sent) :
             /\ GroupOf(n)' = GroupOf(n) /\ CountAfter(n)' = CountAfter(n)
             /\ n < Len(sent) => (Ends(n)' <=> Ends(n))
    BY <1>1, <2>1, GroupsStay
  <2>5. /\ GroupOf(nread)' = GroupOf(nread) /\ CountAfter(nread)' = CountAfter(nread)
        /\ pc # "read" => /\ GroupOf(nread - 1)' = GroupOf(nread - 1)
                          /\ CountAfter(nread - 1)' = CountAfter(nread - 1)
                          /\ Ends(nread - 1)' <=> Ends(nread - 1)
    BY <1>2, <1>3, <2>1, <2>4 DEF GroupOf, CountAfter, Ends, OfRun, Same
  <2> QED BY <1>1, <2>1, <2>2, <2>3, <2>5 DEF Listening
<1>5. CASE Manager
  <2>1. UNCHANGED <<sent, nread, pc, channels>>
    BY <1>5 DEF Manager, ClearGtc, ClearEvent, ClearLast, StartAcquisition, Stop,
       Stopped, fields
  <2>2. CASE StartAcquisition \/ Stop \/ Stopped
    <3>1. UNCHANGED <<run, gtc, lastGtc>> /\ mgr \notin {"event", "last"}
      BY <2>2 DEF StartAcquisition, Stop, Stopped, fields
    <3> QED BY <1>1, <2>1, <3>1 DEF Listening, GroupOf, CountAfter, Ends, OfRun, Same,
                                   rgtc
  <2>3. CASE ClearGtc \/ ClearEvent \/ ClearLast
    <3>1. pc = "read"
      BY <1>2, <2>3 DEF ClearGtc, ClearEvent, ClearLast, RestIsQuiet, Quiet
    <3>2. CASE ClearGtc
      <4>1. run' = run + 1 /\ gtc' = 0 /\ mgr' = "event" /\ run \in Nat
        BY <1>1, <3>2 DEF ClearGtc, ClearedGtc, QInv, TInv, TypeOK
      <4>2. nread >= 1 => sent[nread].run <= run /\ sent[nread].run \in Nat
        <5>1. nread >= 1 => nread \in 1 .. Len(sent)
          BY <1>2
        <5>2. nread >= 1 => sent[nread] \in Frame
          BY <1>1, <5>1 DEF QInv, TInv, TypeOK
        <5> QED BY <1>1, <5>1, <5>2 DEF QInv, Stream, RunsSent, Frame
      <4>3. CountAfter(nread)' = 0
        BY <2>1, <4>1, <4>2 DEF CountAfter, OfRun
      <4> QED BY <1>1, <2>1, <3>1, <4>1, <4>3 DEF Listening, GroupOf, Same
    <3>3. CASE ClearEvent
      BY <1>1, <2>1, <3>1, <3>3 DEF ClearEvent, Listening, GroupOf, CountAfter, OfRun,
                                    Same
    <3>4. CASE ClearLast
      <4>1. lastGtc' = 0 /\ gtc' = gtc /\ run' = run
        BY <3>4 DEF ClearLast, ClearedLast
      <4>2. nread >= 1 => nread \in 1 .. Len(sent) /\ sent[nread].run # run
        BY <1>1, <1>2, <3>4 DEF ClearLast, QInv, Stream, NotBegun
      <4>3. CountAfter(nread) = 0
        BY <4>2 DEF CountAfter, OfRun
      <4> QED BY <1>1, <2>1, <3>1, <4>1, <4>3 DEF Listening, GroupOf, CountAfter,
                                                 OfRun, Same
    <3> QED BY <2>3, <3>2, <3>3, <3>4
  <2> QED BY <1>5, <2>2, <2>3 DEF Manager
<1>6. CASE ReadFrame
  <2>1. /\ pc = "read" /\ pc' = "test" /\ nread' = nread + 1
        /\ UNCHANGED <<sent, run, mgr, gtc, lastGtc, channels>>
        /\ mgr \in {"running", "sleeping"}
    BY <1>2, <1>6 DEF ReadFrame, DataOnSocket, board, fields, RestIsQuiet, Quiet
  <2>2. nread' - 1 = nread
    BY <1>2, <2>1
  <2>3. /\ channels = GroupOf(nread)
        /\ gtc = CountAfter(nread) /\ lastGtc = CountAfter(nread)
    BY <1>1, <2>1 DEF Listening
  <2> QED BY <2>1, <2>2, <2>3 DEF Listening, GroupOf, CountAfter, OfRun, Same
<1>7. CASE TestGtc
  <2>1. /\ pc = "test" /\ pc' = IF rgtc = lastGtc THEN "append" ELSE "load"
        /\ UNCHANGED <<sent, run, mgr, nread, gtc, lastGtc, channels>>
    BY <1>7 DEF TestGtc, SameTrigger, board, fields
  <2> DEFINE n == nread - 1
  <2>2. CASE /\ channels = GroupOf(n)
             /\ gtc = CountAfter(n) /\ lastGtc = CountAfter(n)
    <3>1. /\ rgtc # lastGtc => Ends(n)
          /\ rgtc = lastGtc => nread > 1 /\ Same(n, nread)
      BY <1>1, <2>1, <2>2, NewTriggerEnds
    <3>2. rgtc = lastGtc => GroupOf(n) = GroupOf(nread) \ {nread}
      BY <1>2, <2>1, <3>1 DEF GroupOf, Same
    <3> QED BY <2>1, <2>2, <3>1, <3>2
            DEF Listening, GroupOf, CountAfter, Ends, OfRun, Same, rgtc
  <2>3. CASE channels = {} /\ lastGtc = rgtc /\ Ends(n)
    <3>1. \A j \in 1 .. n : ~Same(j, nread)
      <4>1. ASSUME NEW j \in 1 .. n, Same(j, nread) PROVE FALSE
        <5>1. n \in 1 .. Len(sent) /\ j \in 1 .. Len(sent) /\ j <= n /\ n <= nread
              /\ nread \in 1 .. Len(sent) /\ ~Same(n, nread)
          BY <1>2, <1>3, <2>1, <2>3, <4>1 DEF Ends
        <5>2. Same(j, n)
          BY <1>1, <4>1, <5>1 DEF QInv, Stream, Together
        <5> QED BY <4>1, <5>1, <5>2 DEF Same
      <4> QED BY <4>1
    <3>2. GroupOf(nread) \ {nread} = {}
      BY <1>2, <2>1, <3>1 DEF GroupOf
    <3> QED BY <2>1, <2>3, <3>2 DEF Listening, GroupOf, Same, rgtc
  <2> QED BY <1>1, <2>1, <2>2, <2>3 DEF Listening
<1>8. CASE AppendHits
  <2>1. /\ pc = "append" /\ pc' = "read" /\ gtc' = rgtc
        /\ channels' = channels \cup {nread}
        /\ UNCHANGED <<sent, run, mgr, nread, lastGtc>>
    BY <1>8 DEF AppendHits, board
  <2>2. nread \in GroupOf(nread)
    BY <1>2, <2>1 DEF GroupOf, Same
  <2>3. rgtc = CountAfter(nread)
    BY <1>2, <2>1 DEF rgtc, CountAfter, OfRun
  <2> QED BY <1>1, <2>1, <2>2, <2>3 DEF Listening, GroupOf, CountAfter, OfRun, Same
<1>9. CASE LoadEvent \/ StoreEvent \/ ProcessEventTdc
  <2>1. /\ pc \in {"load", "store", "publish"} /\ pc' \in {"store", "publish", "reset"}
        /\ UNCHANGED <<sent, run, nread, gtc, channels>>
    BY <1>9 DEF LoadEvent, StoreEvent, ProcessEventTdc, board, fields
  <2> QED BY <1>1, <2>1 DEF Listening, GroupOf, CountAfter, Ends, OfRun, Same
<1>10. CASE ResetChannels
  BY <1>1, <1>10 DEF ResetChannels, NoChannels, board, Listening, Ends, Same, rgtc
<1>11. CASE UNCHANGED vars
  BY <1>1, <1>11 DEF vars, Listening, GroupOf, CountAfter, Ends, OfRun, Same, rgtc
<1> QED BY <1>4, <1>5, <1>6, <1>7, <1>8, <1>9, <1>10, <1>11 DEF Next, Listener

LEMMA WholeKept ==
    ASSUME GInv, [Next]_vars, Regular'
    PROVE  \A k \in 1 .. Len(published') : Whole(sent', published'[k])
<1>1. QInv /\ QInv' /\ Regular /\ Listening
  BY QuietKept, RegularBefore DEF GInv
<1>2. /\ Len(sent) \in Nat /\ Len(sent') \in Nat /\ Len(sent) <= Len(sent')
      /\ \A i \in 1 .. Len(sent) : sent'[i] = sent[i]
  <2>1. TInv /\ TInv'
    BY <1>1 DEF QInv
  <2> QED BY <2>1, SentKept DEF TInv, TypeOK
(* A trigger that is over gets no more frames.                              *)
<1>3. ASSUME NEW e, Whole(sent, e) PROVE Whole(sent', e)
  <2>1. /\ e.frames \subseteq 1 .. Len(sent)
        /\ \A i \in e.frames :
             /\ e.frames = {j \in 1 .. Len(sent) : SameIn(sent, j, i)}
             /\ ~SameIn(sent, i, Len(sent))
             /\ e.gtc = IF sent[i].run = e.run THEN sent[i].gtc ELSE 0
    BY <1>3 DEF Whole
  <2>2. ASSUME NEW i \in e.frames
        PROVE  /\ e.frames = {j \in 1 .. Len(sent') : SameIn(sent', j, i)}
               /\ ~SameIn(sent', i, Len(sent'))
               /\ e.gtc = IF sent'[i].run = e.run THEN sent'[i].gtc ELSE 0
    <3>1. i \in 1 .. Len(sent) /\ Len(sent) \in 1 .. Len(sent') /\ ~SameIn(sent, i, Len(sent))
      BY <1>2, <2>1
    <3>2. \A j \in 1 .. Len(sent) : SameIn(sent', j, i) <=> SameIn(sent, j, i)
      BY <1>2, <3>1 DEF SameIn
    <3>3. ~(sent'[i].run = sent'[Len(sent)].run /\ sent'[i].trigger = sent'[Len(sent)].trigger)
      BY <1>2, <3>1 DEF SameIn
    <3>4. \A j \in 1 .. Len(sent') : Len(sent) <= j =>
            ~(sent'[i].run = sent'[j].run /\ sent'[i].trigger = sent'[j].trigger)
      <4>1. Together'
        BY <1>1 DEF QInv, Stream
      <4> QED BY <1>2, <3>1, <3>3, <4>1 DEF Together, Same
    <3>5. \A j \in 1 .. Len(sent') : ~SameIn(sent', j, i) \/ j \in 1 .. Len(sent)
      BY <1>2, <3>4 DEF SameIn
    <3>6. ~SameIn(sent', i, Len(sent'))
      BY <1>2, <3>1, <3>4 DEF SameIn
    <3> QED BY <1>2, <2>1, <3>1, <3>2, <3>5, <3>6
  <2>3. e.frames \subseteq 1 .. Len(sent')
    BY <1>2, <2>1
  <2> QED BY <2>2, <2>3 DEF Whole
<1>4. CASE ProcessEventTdc
  <2> DEFINE e == [event |-> event, gtc |-> gtc, run |-> run, frames |-> channels]
  <2>1. published' = Append(published, e) /\ pc = "publish"
    BY <1>4 DEF ProcessEventTdc
  <2>2. Whole(sent, e)
    BY <1>1, <2>1, EndedIsWhole DEF Listening
  <2>3. published \in Seq(Event)
    BY <1>1 DEF QInv, TInv, TypeOK
  <2> HIDE DEF e
  <2>4. \A k \in 1 .. Len(published') :
          \/ k \in 1 .. Len(published) /\ published'[k] = published[k]
          \/ published'[k] = e
    BY <2>1, <2>3
  <2>5. \A k \in 1 .. Len(published') : Whole(sent, published'[k])
    BY <1>1, <2>2, <2>4 DEF GInv
  <2> QED BY <1>3, <2>5
<1>5. CASE ~ProcessEventTdc
  <2>1. published' = published
    BY <1>5 DEF Next, Manager, Listener, ClearGtc, ClearEvent, ClearLast,
       StartAcquisition, Stop, Stopped, BoardSends, ReadFrame, TestGtc,
       LoadEvent, StoreEvent, AppendHits, ResetChannels, vars
  <2>2. \A k \in 1 .. Len(published) : Whole(sent, published[k])
    BY <1>1 DEF GInv
  <2> QED BY <1>3, <2>1, <2>2
<1> QED BY <1>4, <1>5

LEMMA GroupsKept == GInv /\ [Next]_vars => GInv'
  BY QuietKept, ListeningKept, WholeKept DEF GInv

(* In regular runs an event that holds hits holds the frames of one trigger  *)
(* and all of them, over restarts and the wrap of the count.                *)
THEOREM OneTriggerPerEvent == Spec => []Grouped
<1>1. GInv => Grouped
  BY DEF GInv, Grouped, Whole, SameIn
<1> QED BY GroupsInitially, GroupsKept, <1>1, PTL DEF Spec

(* In regular runs an event goes to the builder under the count of its       *)
(* trigger, or under zero when it is what the run before has left.          *)
THEOREM RightCount == Spec => []Announced
<1>1. GInv => Announced
  BY DEF GInv, Announced, Whole
<1> QED BY GroupsInitially, GroupsKept, <1>1, PTL DEF Spec

-----------------------------------------------------------------------------
(* The safe half of FollowedIsPublished. *)

(* In regular runs, whenever the listener comes back to its socket, all it   *)
(* still holds is the trigger of the last frame it has read: every other    *)
(* frame has been published, so FollowedIsPublished asks no more of the     *)
(* listener than to go on reading (addChannels, processEventTdc).           *)
THEOREM OnlyLastIsHeld == Spec => []OnlyLastHeld
<1>1. CInv /\ GInv => OnlyLastHeld
  <2> SUFFICES ASSUME CInv, GInv, Regular, pc = "read", NEW i \in 1 .. nread,
                      ~Same(i, nread)
               PROVE  \E k \in 1 .. Len(published) : i \in published[k].frames
    BY DEF OnlyLastHeld
  <2>1. i \in Out(published) \cup channels
    BY DEF CInv, Held, Done
  <2>2. i \notin channels
    BY DEF GInv, Listening, GroupOf
  <2> QED BY <2>1, <2>2 DEF Out
<1> QED BY ConservedInitially, ConservedKept, GroupsInitially, GroupsKept, <1>1, PTL
        DEF Spec
=============================================================================
