---------------------------- MODULE TdcFpga ----------------------------
(* The grouping of TDC frames into events: TdcFpga::addChannels on the    *)
(* thread that listens to the sockets (TdcManager::dolisten,              *)
(* TdcMessageHandler::parseTdcData) against TdcFpga::clear on the command *)
(* thread of TdcManager::start.  One board; every frame that a trigger    *)
(* sends holds hits and the trigger count of 16 bits.                     *)
EXTENDS Naturals, Sequences, FiniteSets

CONSTANTS
    Gtcs,       \* values of the trigger count, a part of 0 .. 2^16-1
    MaxRuns,    \* bound of the model: runs
    MaxFrames   \* bound of the model: frames in all

ASSUME ConstantsAssumption ==
    /\ Gtcs \subseteq Nat
    /\ 0 \in Gtcs
    /\ MaxRuns \in Nat
    /\ MaxFrames \in Nat

VARIABLES
    sent,       \* every frame the board sent, in the order of the socket
    nread,      \* how many of them the listener has taken
    mgr,        \* where the command thread is
    run,        \* number of START accepted
    drained,    \* the sleep(2) of every STOP outlasted the frames on the way
    pc,         \* where the listener is in addChannels
    num,        \* the value of _event that _event++ has loaded
    gtc, lastGtc, event,   \* _gtc, _lastGtc, _event
    channels,   \* the frames (indices of sent) whose hits are in _channels
    startIdx,   \* _startIdx, in frames
    published   \* what _dsData->publish gave to the event builder, in order

board == <<sent, mgr, run, drained>>
fields == <<gtc, lastGtc, event>>
vars == <<sent, nread, mgr, run, drained, pc, num, gtc, lastGtc, event, channels,
          startIdx, published>>

Frame == [run : Nat, trigger : Nat, gtc : Gtcs]
Event == [event : Nat, gtc : Gtcs, run : Nat, frames : SUBSET Nat]

(* All frames sent have been handled. *)
Quiet == nread = Len(sent) /\ pc = "read"

Init ==
    /\ sent = <<>> /\ nread = 0 /\ published = <<>>
    /\ mgr = "configured" /\ run = 0 /\ drained = TRUE
    /\ pc = "read" /\ num = 0
    /\ gtc = 0 /\ lastGtc = 0 /\ event = 0
    /\ channels = {} /\ startIdx = 0

-----------------------------------------------------------------------------
(* Variants of the definitions below, each with a slip the code could have *)
(* made; the specification does not use them.                              *)

KeepValue(v) == v
NewerGtc(a, b) == a <= b
KeepChannels == channels

-----------------------------------------------------------------------------
(* The pieces of the handlers that the variants concern. *)

\* clear: _gtc, _event and _lastGtc are set to zero.
ClearedGtc(v) == 0
ClearedEvent(v) == 0
ClearedLast(v) == 0
\* addChannels: rgtc==_lastGtc
SameTrigger(rg, last) == rg = last
\* the listener is woken by data on the socket.
DataOnSocket == nread < Len(sent)
\* addChannels: _channels.clear(), _startIdx=0
NoChannels == {}
ResetIdx(v) == 0

-----------------------------------------------------------------------------
(* The command thread: START clears the three fields, without a lock, and  *)
(* then lets the board send; STOP stops it and sleeps two seconds.         *)

ClearGtc ==
    /\ mgr = "configured" /\ run < MaxRuns
    /\ run' = run + 1
    /\ gtc' = ClearedGtc(gtc)
    /\ mgr' = "event"
    /\ UNCHANGED <<sent, drained, nread, pc, num, lastGtc, event, channels, startIdx,
                   published>>

ClearEvent ==
    /\ mgr = "event"
    /\ event' = ClearedEvent(event)
    /\ mgr' = "last"
    /\ UNCHANGED <<sent, drained, nread, run, pc, num, gtc, lastGtc, channels, startIdx,
                   published>>

ClearLast ==
    /\ mgr = "last"
    /\ lastGtc' = ClearedLast(lastGtc)
    /\ mgr' = "acquire"
    /\ UNCHANGED <<sent, drained, nread, run, pc, num, gtc, event, channels, startIdx,
                   published>>

StartAcquisition ==
    /\ mgr = "acquire"
    /\ mgr' = "running"
    /\ UNCHANGED <<sent, run, drained, nread, pc, num, fields, channels, startIdx,
                   published>>

Stop ==
    /\ mgr = "running"
    /\ mgr' = "sleeping"
    /\ UNCHANGED <<sent, run, drained, nread, pc, num, fields, channels, startIdx,
                   published>>

Stopped ==
    /\ mgr = "sleeping"
    /\ mgr' = "configured"
    /\ drained' = (drained /\ Quiet)
    /\ UNCHANGED <<sent, run, nread, pc, num, fields, channels, startIdx,
                   published>>

-----------------------------------------------------------------------------
(* The board (external): one more frame of the trigger it is sending, or   *)
(* the first one of a trigger with another count.                          *)

InRun == \E i \in 1 .. Len(sent) : sent[i].run = run

MoreOfTrigger ==
    /\ InRun
    /\ sent' = Append(sent, sent[Len(sent)])

NextTrigger ==
    \E g \in Gtcs :
        LET last == sent[Len(sent)] IN
        /\ InRun => g # last.gtc
        /\ sent' = Append(sent, [run |-> run, gtc |-> g,
                                 trigger |-> IF InRun THEN last.trigger + 1
                                                      ELSE 1])

BoardSends ==
    /\ mgr = "running"
    /\ Len(sent) < MaxFrames
    /\ MoreOfTrigger \/ NextTrigger
    /\ UNCHANGED <<nread, mgr, run, drained, pc, num, fields, channels, startIdx,
                   published>>

-----------------------------------------------------------------------------
(* The listener: one frame at a time. *)

(* The frame addChannels works on. *)
rgtc == sent[nread].gtc

ReadFrame ==
    /\ pc = "read"
    /\ DataOnSocket
    /\ nread' = nread + 1
    /\ pc' = "test"
    /\ UNCHANGED <<board, num, fields, channels, startIdx,
                   published>>

TestGtc ==
    /\ pc = "test"
    /\ pc' = IF SameTrigger(rgtc, lastGtc) THEN "append" ELSE "load"
    /\ UNCHANGED <<board, nread, num, fields, channels, startIdx,
                   published>>

AppendHits ==
    /\ pc = "append"
    /\ gtc' = rgtc
    /\ channels' = channels \cup {nread}
    /\ startIdx' = startIdx + 1
    /\ pc' = "read"
    /\ UNCHANGED <<board, nread, num, lastGtc, event, published>>

(* _event++ is a load and a store, with the clear of the command thread    *)
(* before, between or after them.                                          *)
LoadEvent ==
    /\ pc = "load"
    /\ num' = event
    /\ pc' = "store"
    /\ UNCHANGED <<board, nread, fields, channels, startIdx,
                   published>>

StoreEvent ==
    /\ pc = "store"
    /\ event' = num + 1
    /\ pc' = "publish"
    /\ UNCHANGED <<board, nread, num, gtc, lastGtc, channels, startIdx, published>>

ProcessEventTdc ==
    /\ pc = "publish"
    /\ published' = Append(published, [event |-> event, gtc |-> gtc, run |-> run,
                                       frames |-> channels])
    /\ pc' = "reset"
    /\ UNCHANGED <<board, nread, num, fields, channels, startIdx>>

ResetChannels ==
    /\ pc = "reset"
    /\ channels' = NoChannels
    /\ startIdx' = ResetIdx(startIdx)
    /\ lastGtc' = rgtc
    /\ pc' = "test"
    /\ UNCHANGED <<board, nread, num, gtc, event, published>>

Manager ==
    ClearGtc \/ ClearEvent \/ ClearLast \/ StartAcquisition \/ Stop \/ Stopped

Listener ==
    \/ ReadFrame \/ TestGtc \/ AppendHits \/ LoadEvent \/ StoreEvent
    \/ ProcessEventTdc \/ ResetChannels

Next == Manager \/ BoardSends \/ Listener

Spec == Init /\ [][Next]_vars

(* dolisten loops for ever: the thread that listens is scheduled. *)
FairSpec == Spec /\ WF_vars(Listener)

-----------------------------------------------------------------------------
(* Every variable has its type. *)
TypeOK ==
    /\ sent \in Seq(Frame)
    /\ nread \in 0 .. Len(sent)
    /\ mgr \in {"configured", "event", "last", "acquire", "running", "sleeping"}
    /\ run \in 0 .. MaxRuns /\ drained \in BOOLEAN
    /\ pc \in {"read", "test", "append", "load", "store", "publish", "reset"}
    /\ num \in Nat /\ event \in Nat /\ startIdx \in Nat
    /\ gtc \in Gtcs /\ lastGtc \in Gtcs
    /\ channels \subseteq 1 .. nread
    /\ published \in Seq(Event)

(* The bytes of _buf in use are those of the frames in _channels: the      *)
(* buffer of one megabyte is filled by one trigger, never by a whole run,   *)
(* and no frame is copied over one whose hits _channels still points to     *)
(* (addChannels, _startIdx).                                               *)
BufferIsTrigger == pc # "reset" => startIdx = Cardinality(channels)

(* Every frame the listener has handled is in exactly one published event   *)
(* or still in _channels, even when START clears the fields in the middle   *)
(* of addChannels.                                                         *)
Conserved ==
    LET out == UNION {published[k].frames : k \in 1 .. Len(published)}
        held == IF pc = "reset" THEN {} ELSE channels
        done == IF pc = "read" THEN nread ELSE nread - 1
    IN  /\ out \cup held = 1 .. done
        /\ out \cap held = {}
        /\ \A j, k \in 1 .. Len(published) :
             j # k => published[j].frames \cap published[k].frames = {}

(* The hits of an event published with a trigger count other than zero all  *)
(* have that count: START may cut a trigger in two or leave it under count  *)
(* zero, but never mixes two triggers under the count of one.              *)
Uniform ==
    \A k \in 1 .. Len(published) :
        published[k].gtc # 0 =>
            \A i \in published[k].frames : sent[i].gtc = published[k].gtc

(* The two seconds of every STOP outlasted the frames on the way, and no    *)
(* run began with the trigger count that clear() leaves in _lastGtc.        *)
Regular == drained /\ \A i \in 1 .. Len(sent) : sent[i].trigger = 1 => sent[i].gtc # 0

(* An event with hits then holds all the frames of one trigger and nothing  *)
(* else, over stops, restarts of the trigger count and its wrap through     *)
(* zero.                                                                    *)
Grouped ==
    Regular => \A k \in 1 .. Len(published) :
        published[k].frames # {} =>
            \E i \in published[k].frames :
                published[k].frames =
                    {j \in 1 .. Len(sent) : sent[j].run = sent[i].run
                                         /\ sent[j].trigger = sent[i].trigger}

(* Where every STOP has drained the socket the events published in a run    *)
(* are numbered from one without a gap: the reset by clear() is not lost    *)
(* ("Clear evnt number", TdcManager::start).                                *)
Numbered ==
    drained => \A k \in 1 .. Len(published) :
        published[k].event =
            Cardinality({j \in 1 .. k : published[j].run = published[k].run})

(* In regular runs an event with hits is announced to the builder with the  *)
(* count of its trigger when it is published in its own run, and with zero  *)
(* when it is the last trigger of the run before.                           *)
Announced ==
    Regular => \A k \in 1 .. Len(published) : \A i \in published[k].frames :
        published[k].gtc = IF sent[i].run = published[k].run THEN sent[i].gtc
                                                              ELSE 0

(* A frame followed by a frame of another trigger reaches the event builder *)
(* in regular runs.                                                         *)
FollowedIsPublished ==
    \A i \in 1 .. MaxFrames :
        (/\ i < Len(sent)
         /\ <<sent[i].run, sent[i].trigger>>
              # <<sent[Len(sent)].run, sent[Len(sent)].trigger>>)
        ~> (~Regular \/ \E k \in 1 .. Len(published) : i \in published[k].frames)

(* Its half that is safety: in regular runs, whenever the listener comes     *)
(* back to the socket all it still holds is the trigger of the last frame;  *)
(* it forgets nothing for a later frame to flush (addChannels).             *)
Same(i, j) == sent[i].run = sent[j].run /\ sent[i].trigger = sent[j].trigger
OnlyLastHeld ==
    Regular /\ pc = "read" =>
        \A i \in 1 .. nread :
            ~Same(i, nread) => \E k \in 1 .. Len(published) : i \in published[k].frames
=============================================================================
