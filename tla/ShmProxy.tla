------------------------------ MODULE ShmProxy ------------------------------
(***************************************************************************)
(* The event builder on shared memory: SDHCAL_common/src/ShmProxy.cc and   *)
(* BasicWritterInterface.cc, as driven by DimShmProxy, RpcShmServer and    *)
(* evbserver.                                                              *)
(*                                                                         *)
(* A data source (one per DIF) hands every fragment over through two files *)
(* in /dev/shm: an Event_ file with the data, then an empty marker of the  *)
(* same name in closed/ (transferToFile).  A builder loop (svc, one thread *)
(* per Start) lists the markers, moves the fragments into theBufferMap_    *)
(* under theSync_ (performReadFiles), and writes and erases the entries    *)
(* that hold theNumberOfDIF_ fragments (performWrite).  Start and Stop are *)
(* called by the run control; they set theRunIsStopped_, and neither joins *)
(* a thread nor takes the lock.                                            *)
(***************************************************************************)
EXTENDS Naturals, Sequences, FiniteSets

CONSTANTS
  DIFs,        \* the data sources
  MaxGTC,      \* bound: last trigger a source delivers in a run
  MaxRun,      \* bound: number of Starts
  NbDifs,      \* values theNumberOfDIF_ is set to before a Start
  Validity,    \* which counter pairs the DIFs produce: TRUE stands for
               \* gtc = dtc > 0, FALSE for every pair the reader skips
  SleepCovers, \* does the sleep(1) of Stop outlast what the loops are doing
  Save         \* theSave_: is there a writer

ASSUME ShmAssumption ==
  /\ MaxGTC \in Nat
  /\ MaxRun \in Nat
  /\ NbDifs \subseteq Nat
  /\ Validity \subseteq BOOLEAN
  /\ SleepCovers \in BOOLEAN
  /\ Save \in BOOLEAN

Runs == 1..MaxRun
GTCs == 1..MaxGTC

(* What a file name carries.  The bunch crossing count in it tells runs    *)
(* apart, so a run number stands for it.                                   *)
Frag == [run : Runs, gtc : GTCs, dif : DIFs, valid : Validity]

(* One builder loop per Start, numbered like the Starts.                   *)
Threads == Runs
NoThread == 0

VARIABLES
  fs,          \* paths that exist in /dev/shm
  full,        \* fragments whose Event_ file holds all its bytes
  src,         \* progress of each source inside transferToFile
  next,        \* next trigger count of each source
  stopped,     \* theRunIsStopped_
  run,         \* theRunNumber_
  nDif,        \* theNumberOfDIF_
  ctl,         \* progress of the Start or Stop being executed
  bufferMap,   \* theBufferMap_: trigger count -> fragments, <<>> if no entry
  lock,        \* holder of theSync_
  eventNumber, \* theEventNumber_
  file,        \* run of the file the writer has open, 0 if closed
  pc, list, hand, cursor,  \* each builder loop: control point, listing of
                           \* scandir, fragment being moved, map iterator
  output,      \* history: events handed to the writer
  delivered,   \* history: fragments whose marker has been created
  dropped      \* history: fragments erased from theBufferMap_ unwritten

shmVars    == <<fs, full>>
srcVars    == <<src, next, delivered>>
ctlVars    == <<stopped, run, nDif, ctl>>
mapVars    == <<bufferMap, dropped>>
outVars    == <<eventNumber, file, output>>
threadVars == <<pc, list, hand, cursor>>
vars == <<shmVars, srcVars, ctlVars, mapVars, outVars, lock, threadVars>>

EventPath(f)  == <<"Event", f>>
MarkerPath(f) == <<"closed", f>>
Markers == {f \in Frag : MarkerPath(f) \in fs}

(* The two names purgeShm unlinks for each marker it lists: it prefixes    *)
(* both with memory_dir/closed/, where neither kind of file is created.    *)
PurgeTargets == {<<"closed/Event", f>> : f \in Markers}
           \cup {<<"closed/closed", f>> : f \in Markers}

NoFrag == [run |-> 0, gtc |-> 0, dif |-> 0, valid |-> FALSE]
Idle == [step |-> "idle", frag |-> NoFrag]

(* The fragments an entry, or the whole of theBufferMap_, holds.           *)
Entry(g) == {bufferMap[g][i] : i \in 1..Len(bufferMap[g])}
InMap == UNION {Entry(g) : g \in GTCs}

(* Variants of a definition, each with a slip the code could have made,    *)
(* stand before it; no action uses them.                                   *)
CompleteWhenFewer(g) == bufferMap[g] # <<>> /\ Len(bufferMap[g]) <= nDif
CompleteWhenMore(g) == bufferMap[g] # <<>> /\ Len(bufferMap[g]) > nDif

Complete(g) == bufferMap[g] # <<>> /\ Len(bufferMap[g]) = nDif

Init ==
  /\ fs = {} /\ full = {}
  /\ src = [d \in DIFs |-> Idle]
  /\ next = [d \in DIFs |-> 1]
  /\ delivered = {}
  /\ stopped = TRUE /\ run = 0 /\ nDif = 0 /\ ctl = "idle"
  /\ bufferMap = [g \in GTCs |-> <<>>]
  /\ lock = NoThread
  /\ dropped = {}
  /\ eventNumber = 0 /\ file = 0 /\ output = <<>>
  /\ pc = [t \in Threads |-> "none"]
  /\ list = [t \in Threads |-> {}]
  /\ hand = [t \in Threads |-> NoFrag]
  /\ cursor = [t \in Threads |-> 0]

-----------------------------------------------------------------------------
(* Data sources: transferToFile.  The run control starts the triggers when *)
(* Start has returned and stops them before it calls Stop; a transfer that *)
(* has begun may end later.                                                *)

Triggering == ~stopped /\ ctl = "idle"

OpenEvent(d) ==
  /\ Triggering /\ src[d] = Idle /\ next[d] <= MaxGTC
  /\ \E v \in Validity :
       LET f == [run |-> run, gtc |-> next[d], dif |-> d, valid |-> v] IN
         /\ fs' = fs \cup {EventPath(f)}
         /\ src' = [src EXCEPT ![d] = [step |-> "opened", frag |-> f]]
  /\ next' = [next EXCEPT ![d] = @ + 1]
  /\ UNCHANGED <<full, delivered, ctlVars, mapVars, outVars, lock, threadVars>>

WriteData(d) ==
  /\ src[d].step = "opened"
  /\ full' = full \cup {src[d].frag}
  /\ src' = [src EXCEPT ![d].step = "written"]
  /\ UNCHANGED <<fs, next, delivered, ctlVars, mapVars, outVars, lock, threadVars>>

(* A short write, or a marker that cannot be opened: the Event_ file stays,*)
(* without a marker.                                                       *)
TransferFails(d) ==
  /\ src[d].step # "idle"
  /\ src' = [src EXCEPT ![d] = Idle]
  /\ UNCHANGED <<shmVars, next, delivered, ctlVars, mapVars, outVars, lock, threadVars>>

CreateMarkerEarly(d) ==
  /\ src[d].step \in {"opened", "written"}
  /\ fs' = fs \cup {MarkerPath(src[d].frag)}
  /\ delivered' = delivered \cup {src[d].frag}
  /\ src' = [src EXCEPT ![d] = Idle]
  /\ UNCHANGED <<full, next, ctlVars, mapVars, outVars, lock, threadVars>>

CreateMarker(d) ==
  /\ src[d].step = "written"
  /\ fs' = fs \cup {MarkerPath(src[d].frag)}
  /\ delivered' = delivered \cup {src[d].frag}
  /\ src' = [src EXCEPT ![d] = Idle]
  /\ UNCHANGED <<full, next, ctlVars, mapVars, outVars, lock, threadVars>>

(* A readout lost before transferToFile, or whose file cannot be opened.   *)
LoseReadout(d) ==
  /\ Triggering /\ src[d] = Idle /\ next[d] <= MaxGTC
  /\ next' = [next EXCEPT ![d] = @ + 1]
  /\ UNCHANGED <<shmVars, src, delivered, ctlVars, mapVars, outVars, lock, threadVars>>

Source(d) == OpenEvent(d) \/ WriteData(d) \/ TransferFails(d)
             \/ CreateMarker(d) \/ LoseReadout(d)

-----------------------------------------------------------------------------
(* Run control: Stop and Start, one action per step another thread can     *)
(* tell apart.  The state machine that calls them alternates the two.      *)

StopFlag ==
  /\ ctl = "idle" /\ ~stopped
  /\ stopped' = TRUE /\ ctl' = "stopping"
  /\ UNCHANGED <<shmVars, srcVars, run, nDif, mapVars, outVars, lock, threadVars>>

SettledAlways == TRUE

(* No loop is past a test of theRunIsStopped_ and before the next one.     *)
Settled == \A t \in Threads : pc[t] \in {"none", "loop", "readCheck", "writeCheck", "dead"}

StopClose ==
  /\ ctl = "stopping"
  /\ SleepCovers => Settled
  /\ file' = 0 /\ ctl' = "idle"
  /\ UNCHANGED <<shmVars, srcVars, stopped, run, nDif, mapVars, eventNumber, output, lock, threadVars>>

(* The command handlers set theNumberOfDIF_, purge, and call Start, which  *)
(* purges again and clears the map twice.                                  *)
StartClear ==
  /\ ctl = "idle" /\ stopped /\ run < MaxRun
  /\ nDif' \in NbDifs
  /\ fs' = fs \ PurgeTargets
  /\ bufferMap' = [g \in GTCs |-> <<>>]
  /\ dropped' = dropped \cup InMap
  /\ ctl' = "cleared"
  /\ UNCHANGED <<full, srcVars, stopped, run, outVars, lock, threadVars>>

(* The clear does not take theSync_: when a loop is inside its critical    *)
(* section the map is changed by two threads at once, and the process may  *)
(* also abort.                                                             *)
StartCrash ==
  /\ ctl = "idle" /\ stopped /\ run < MaxRun /\ lock # NoThread
  /\ ctl' = "crashed"
  /\ pc' = [t \in Threads |-> "dead"]
  /\ lock' = NoThread
  /\ bufferMap' = [g \in GTCs |-> <<>>]
  /\ hand' = [t \in Threads |-> NoFrag]
  /\ dropped' = dropped \cup InMap \cup ({hand[t] : t \in Threads} \ {NoFrag})
  /\ UNCHANGED <<shmVars, srcVars, stopped, run, nDif, outVars, list, cursor>>

(* theRunIsStopped_ falls before the file is opened and the event number   *)
(* is reset.  The readouts of the new run count their triggers from one.   *)
StartFlag ==
  /\ ctl = "cleared"
  /\ run' = run + 1 /\ stopped' = FALSE /\ ctl' = "flagged"
  /\ next' = [d \in DIFs |-> 1]
  /\ UNCHANGED <<shmVars, src, delivered, nDif, mapVars, outVars, lock, threadVars>>

StartOpenNextRun ==
  /\ ctl = "flagged"
  /\ file' = IF Save THEN run + 1 ELSE 0
  /\ ctl' = "opened"
  /\ UNCHANGED <<shmVars, srcVars, stopped, run, nDif, mapVars, eventNumber, output, lock, threadVars>>

StartOpen ==
  /\ ctl = "flagged"
  /\ file' = IF Save THEN run ELSE 0
  /\ ctl' = "opened"
  /\ UNCHANGED <<shmVars, srcVars, stopped, run, nDif, mapVars, eventNumber, output, lock, threadVars>>

StartSpawn ==
  /\ ctl = "opened"
  /\ eventNumber' = 0
  /\ pc' = [pc EXCEPT ![run] = "loop"]
  /\ ctl' = "idle"
  /\ UNCHANGED <<shmVars, srcVars, stopped, run, nDif, mapVars, file, output, lock, list, hand, cursor>>

Control == StopFlag \/ StopClose \/ StartClear \/ StartCrash
           \/ StartFlag \/ StartOpen \/ StartSpawn

-----------------------------------------------------------------------------
(* A builder loop.                                                         *)

Goto(t, from, to) == pc[t] = from /\ pc' = [pc EXCEPT ![t] = to]

(* svc: while stopped it sleeps and tests again, which changes nothing.    *)
Loop(t) ==
  /\ ~stopped /\ Goto(t, "loop", "readCheck")
  /\ UNCHANGED <<shmVars, srcVars, ctlVars, mapVars, outVars, lock, list, hand, cursor>>

(* performReadFiles and performWrite return false when the run is stopped, *)
(* and svc then leaves its loop.                                           *)
ReadCheck(t) ==
  /\ Goto(t, "readCheck", IF stopped THEN "dead" ELSE "scan")
  /\ UNCHANGED <<shmVars, srcVars, ctlVars, mapVars, outVars, lock, list, hand, cursor>>

(* scandir, before the lock is taken.                                      *)
Scan(t) ==
  /\ list' = [list EXCEPT ![t] = Markers]
  /\ Goto(t, "scan", IF Markers = {} THEN "writeCheck" ELSE "wantRead")
  /\ UNCHANGED <<shmVars, srcVars, ctlVars, mapVars, outVars, lock, hand, cursor>>

LockReadUnlocked(t) ==
  /\ Goto(t, "wantRead", "reading")
  /\ lock' = t
  /\ UNCHANGED <<shmVars, srcVars, ctlVars, mapVars, outVars, list, hand, cursor>>

LockRead(t) ==
  /\ Goto(t, "wantRead", "reading") /\ lock = NoThread
  /\ lock' = t
  /\ UNCHANGED <<shmVars, srcVars, ctlVars, mapVars, outVars, list, hand, cursor>>

(* The order of the listing is that of bunch crossing counts: any order.   *)
Skip(t) == \E f \in list[t] :
  /\ pc[t] = "reading" /\ ~f.valid
  /\ list' = [list EXCEPT ![t] = @ \ {f}]
  /\ UNCHANGED <<shmVars, srcVars, ctlVars, mapVars, outVars, lock, pc, hand, cursor>>

ReadEvent(t) == \E f \in list[t] :
  /\ f.valid /\ EventPath(f) \in fs
  /\ Goto(t, "reading", "read")
  /\ hand' = [hand EXCEPT ![t] = f]
  /\ UNCHANGED <<shmVars, srcVars, ctlVars, mapVars, outVars, lock, list, cursor>>

(* "Cannot open shm file": the reader gives up, and the loop ends.         *)
OpenFails(t) == \E f \in list[t] :
  /\ f.valid /\ EventPath(f) \notin fs
  /\ Goto(t, "reading", "dead")
  /\ lock' = NoThread
  /\ UNCHANGED <<shmVars, srcVars, ctlVars, mapVars, outVars, list, hand, cursor>>

UnlinkEvent(t) ==
  /\ Goto(t, "read", "unlinked")
  /\ fs' = fs \ {EventPath(hand[t])}
  /\ full' = full \ {hand[t]}
  /\ UNCHANGED <<srcVars, ctlVars, mapVars, outVars, lock, list, hand, cursor>>

UnlinkMarkerForgotten(t) == LET f == hand[t] IN
  /\ Goto(t, "unlinked", "reading")
  /\ bufferMap' = [bufferMap EXCEPT ![f.gtc] = Append(@, f)]
  /\ list' = [list EXCEPT ![t] = @ \ {f}]
  /\ hand' = [hand EXCEPT ![t] = NoFrag]
  /\ UNCHANGED <<fs, full, srcVars, ctlVars, dropped, outVars, lock, cursor>>

UnlinkMarkerReplaces(t) == LET f == hand[t] IN
  /\ Goto(t, "unlinked", "reading")
  /\ fs' = fs \ {MarkerPath(f)}
  /\ bufferMap' = [bufferMap EXCEPT ![f.gtc] = <<f>>]
  /\ list' = [list EXCEPT ![t] = @ \ {f}]
  /\ hand' = [hand EXCEPT ![t] = NoFrag]
  /\ UNCHANGED <<full, srcVars, ctlVars, dropped, outVars, lock, cursor>>

(* The marker is unlinked and the packed fragment pushed on its entry.     *)
UnlinkMarker(t) == LET f == hand[t] IN
  /\ Goto(t, "unlinked", "reading")
  /\ fs' = fs \ {MarkerPath(f)}
  /\ bufferMap' = [bufferMap EXCEPT ![f.gtc] = Append(@, f)]
  /\ list' = [list EXCEPT ![t] = @ \ {f}]
  /\ hand' = [hand EXCEPT ![t] = NoFrag]
  /\ UNCHANGED <<full, srcVars, ctlVars, dropped, outVars, lock, cursor>>

ReadDone(t) ==
  /\ list[t] = {} /\ Goto(t, "reading", "writeCheck")
  /\ lock' = NoThread
  /\ UNCHANGED <<shmVars, srcVars, ctlVars, mapVars, outVars, list, hand, cursor>>

WriteCheck(t) ==
  /\ Goto(t, "writeCheck", IF stopped THEN "dead" ELSE "wantWrite")
  /\ UNCHANGED <<shmVars, srcVars, ctlVars, mapVars, outVars, lock, list, hand, cursor>>

LockWrite(t) ==
  /\ Goto(t, "wantWrite", "writing") /\ lock = NoThread
  /\ lock' = t
  /\ cursor' = [cursor EXCEPT ![t] = 0]
  /\ UNCHANGED <<shmVars, srcVars, ctlVars, mapVars, outVars, list, hand>>

(* The entries the iterator has yet to write.                              *)
ToWrite(t) == {g \in GTCs : g > cursor[t] /\ Complete(g)}

(* writeEvent; the writer drops the event when its file is closed.         *)
WriteEvent(t) == \E g \in ToWrite(t) :
  /\ pc[t] = "writing" /\ Save
  /\ \A h \in ToWrite(t) : g <= h
  /\ output' = Append(output, [file |-> file, num |-> eventNumber,
                               gtc |-> g, frags |-> bufferMap[g]])
  /\ eventNumber' = eventNumber + 1
  /\ cursor' = [cursor EXCEPT ![t] = g]
  /\ UNCHANGED <<shmVars, srcVars, ctlVars, mapVars, file, lock, pc, list, hand>>

(* The complete entries are erased, written or not.                        *)
EraseComplete(t) ==
  /\ Save => ToWrite(t) = {}
  /\ Goto(t, "writing", "loop")
  /\ bufferMap' = [g \in GTCs |-> IF Complete(g) THEN <<>> ELSE bufferMap[g]]
  /\ dropped' = IF Save THEN dropped
                ELSE dropped \cup UNION {Entry(g) : g \in {h \in GTCs : Complete(h)}}
  /\ lock' = NoThread
  /\ UNCHANGED <<shmVars, srcVars, ctlVars, outVars, list, hand, cursor>>

Builder(t) ==
  \/ Loop(t) \/ ReadCheck(t) \/ Scan(t) \/ LockRead(t) \/ Skip(t) \/ ReadEvent(t)
  \/ OpenFails(t) \/ UnlinkEvent(t) \/ UnlinkMarker(t) \/ ReadDone(t)
  \/ WriteCheck(t) \/ LockWrite(t) \/ WriteEvent(t) \/ EraseComplete(t)

-----------------------------------------------------------------------------
Next ==
  \/ \E d \in DIFs : Source(d)
  \/ Control
  \/ \E t \in Threads : Builder(t)

Spec == Init /\ [][Next]_vars

(* Fairness: the operating system runs every builder thread again and      *)
(* again, and a Start or a transfer that has begun goes on; nobody has to  *)
(* trigger, to stop or to start.                                           *)
Fairness ==
  /\ \A t \in Threads : WF_vars(Builder(t))
  /\ \A d \in DIFs : WF_vars(WriteData(d) \/ CreateMarker(d))
  /\ WF_vars(StartFlag \/ StartOpen \/ StartSpawn)

FairSpec == Spec /\ Fairness

-----------------------------------------------------------------------------
(* The types of the variables.                                             *)
PCs == {"none", "loop", "readCheck", "scan", "wantRead", "reading", "read",
        "unlinked", "writeCheck", "wantWrite", "writing", "dead"}
Paths == {"Event", "closed"} \X Frag

TypeOK ==
  /\ fs \subseteq Paths
  /\ full \subseteq Frag
  /\ src \in [DIFs -> [step : {"idle", "opened", "written"}, frag : Frag \cup {NoFrag}]]
  /\ next \in [DIFs -> 1..MaxGTC + 1]
  /\ delivered \subseteq Frag
  /\ stopped \in BOOLEAN
  /\ run \in 0..MaxRun
  /\ nDif \in Nat
  /\ ctl \in {"idle", "stopping", "cleared", "flagged", "opened", "crashed"}
  /\ bufferMap \in [GTCs -> Seq(Frag)]
  /\ dropped \subseteq Frag
  /\ lock \in Threads \cup {NoThread}
  /\ eventNumber \in Nat
  /\ file \in 0..MaxRun
  /\ output \in Seq([file : 0..MaxRun, num : Nat, gtc : GTCs, frags : Seq(Frag)])
  /\ pc \in [Threads -> PCs]
  /\ list \in [Threads -> SUBSET Frag]
  /\ hand \in [Threads -> Frag \cup {NoFrag}]
  /\ cursor \in [Threads -> Nat]

(* theSync_ is held by a loop exactly while it moves fragments or writes   *)
(* events: every way out of performReadFiles and performWrite, the early   *)
(* return of a file that cannot be opened included, gives it back.         *)
Critical == {"reading", "read", "unlinked", "writing"}
LockOK == \A t \in Threads : pc[t] \in Critical <=> lock = t

(* The hand-over between the processes: a marker exists only while all the *)
(* bytes of its Event_ file are there, but for the instant between the two *)
(* unlinks of the loop that consumes both; so a loop reads whole fragments *)
(* whatever the interleaving of sources, loops, Start and Stop.  A process *)
(* that aborts between the unlinks leaves a marker without data behind.    *)
HandOver == ctl # "crashed" =>
  /\ \A f \in Markers :
       \/ f \in full /\ EventPath(f) \in fs
       \/ \E t \in Threads : lock = t /\ pc[t] = "unlinked" /\ hand[t] = f
  /\ \A t \in Threads : pc[t] = "read" => hand[t] \in full

Written == UNION {{output[i].frags[j] : j \in 1..Len(output[i].frags)} : i \in 1..Len(output)}

(* Two loops may list the same marker; still no fragment is packed twice   *)
(* in theBufferMap_ or written in two events.  It is in the map and in the *)
(* output at once only between its writing and its erasure.                *)
NoFragmentTwice ==
  /\ \A g \in GTCs : Cardinality(Entry(g)) = Len(bufferMap[g])
  /\ \A i \in 1..Len(output) : LET e == output[i].frags IN
       /\ \A j, k \in 1..Len(e) : j # k => e[j] # e[k]
       /\ \A m \in 1..Len(output) : i # m =>
            \A j \in 1..Len(e), k \in 1..Len(output[m].frags) : e[j] # output[m].frags[k]
  /\ \A f \in InMap \cap Written :
       \E t \in Threads : lock = t /\ pc[t] = "writing" /\ f.gtc <= cursor[t]

(* No fragment is lost in silence: once its marker exists it is in shared  *)
(* memory, in the hands of a loop, in the map, in the output, or among the *)
(* fragments a Start or an unsaved event has erased.                       *)
Accounted == \A f \in delivered :
  \/ f \in Markers \/ f \in InMap \/ f \in Written \/ f \in dropped
  \/ \E t \in Threads : hand[t] = f

(* With one run, and a Stop that waits long enough: every event goes to    *)
(* the open file of the run, numbered from zero without a gap.             *)
FileComplete == \A i \in 1..Len(output) : output[i].file = 1 /\ output[i].num = i - 1

(* With one run: what the only loop has listed is still there when it      *)
(* opens it, so "Cannot open shm file", which ends the loop, never comes.  *)
(* With two loops it does: the listing is older than the lock.             *)
ListedIsPresent == \A t \in Threads : pc[t] \in {"wantRead", "reading"} =>
  \A f \in list[t] : f.valid => EventPath(f) \in fs

(* performWrite and performReadFiles: a trigger all DIFs have delivered in *)
(* a run that expects a fragment of each is written, or the run stops.     *)
Delivered(g) == {f \in delivered : f.gtc = g /\ f.valid}
CompleteIsWritten == \A g \in GTCs :
  (/\ Cardinality(Delivered(g)) = nDif /\ nDif = Cardinality(DIFs)
   /\ ~stopped /\ Save)
    ~> stopped \/ \E i \in 1..Len(output) : output[i].gtc = g

(* DimShmProxy.cc:259 and RpcShmServer.cc: purgeShm is called before Start *)
(* to "remove old data not written".                                       *)
StartsClean == ctl = "cleared" => Markers = {}

=============================================================================
