--------------------------- MODULE ShmProxyProofs ---------------------------
(***************************************************************************)
(* Proofs about ShmProxy for every set of sources, every number of Starts, *)
(* triggers and fragments per event, with or without a writer and whatever *)
(* the sleep in Stop covers.                                               *)
(***************************************************************************)
EXTENDS ShmProxyRefinement, FiniteSetTheorems, TLAPS

(* A trigger the source of f has already gone past.                        *)
Past(f) == f.run < run \/ (f.run = run /\ f.gtc < next[f.dif])

ControlOK ==
  /\ ~stopped => run \in Runs
  /\ ctl = "cleared" => run < MaxRun
  /\ \A t \in Threads :
       t > run \/ (t = run /\ ctl \in {"flagged", "opened"}) => pc[t] \in {"none", "dead"}

(* A source works on a fragment of its own that nobody has seen yet.       *)
SourceOK == \A d \in DIFs : src[d].step # "idle" =>
  /\ src[d].frag \in Frag
  /\ \A f \in Frag : src[d].frag = f =>
       /\ f.dif = d /\ f \notin delivered /\ Past(f)
       /\ EventPath(f) \in fs
       /\ src[d].step = "written" => f \in full

(* What has been delivered is never delivered again, and its Event_ file   *)
(* goes no later than its marker.                                          *)
DeliveredOK ==
  /\ Markers \subseteq delivered
  /\ \A t \in Threads : list[t] \subseteq delivered
  /\ \A f \in delivered : Past(f)
  /\ \A f \in delivered : EventPath(f) \in fs => MarkerPath(f) \in fs

(* The fragment in the hands of the loop that holds the lock.              *)
HandOK == \A t \in Threads :
  /\ pc[t] \in {"read", "unlinked"} => hand[t] \in delivered /\ MarkerPath(hand[t]) \in fs
  /\ pc[t] = "unlinked" => EventPath(hand[t]) \notin fs

IInv == TypeOK /\ LockOK /\ HandOver /\ ControlOK /\ SourceOK /\ DeliveredOK /\ HandOK

(* The two names of a fragment are two paths, no other fragment has them,  *)
(* and the purge removes neither.                                          *)
LEMMA PathFacts ==
  /\ \A f \in Frag : EventPath(f) \in Paths /\ MarkerPath(f) \in Paths
  /\ \A f, g : EventPath(f) # MarkerPath(g)
  /\ \A f, g : EventPath(f) = EventPath(g) => f = g
  /\ \A f, g : MarkerPath(f) = MarkerPath(g) => f = g
  /\ \A f : EventPath(f) \notin PurgeTargets /\ MarkerPath(f) \notin PurgeTargets
BY DEF EventPath, MarkerPath, Paths, PurgeTargets

LEMMA NoFragNotFrag == NoFrag \notin Frag
BY DEF NoFrag, Frag, Runs

LEMMA InitInv == Init => IInv
<1> SUFFICES ASSUME Init PROVE IInv
  OBVIOUS
<1>1. TypeOK
  BY ShmAssumption DEF Init, TypeOK, Idle, PCs, Runs, GTCs, Threads, NoThread
<1>2. LockOK /\ HandOver /\ ControlOK /\ SourceOK /\ DeliveredOK /\ HandOK
  BY ShmAssumption DEF Init, LockOK, HandOver, ControlOK, SourceOK, DeliveredOK, HandOK,
     Markers, Critical, Idle, Threads, NoThread, Runs
<1>3. QED
  BY <1>1, <1>2 DEF IInv

USE DEF shmVars, srcVars, ctlVars, mapVars, outVars, threadVars

LEMMA NoThreadFact == NoThread \notin Threads
BY ShmAssumption DEF NoThread, Threads, Runs

LEMMA EntryType == ASSUME TypeOK, NEW g \in GTCs PROVE Entry(g) \subseteq Frag
BY DEF TypeOK, Entry

LEMMA InMapType == ASSUME TypeOK PROVE InMap \subseteq Frag
BY EntryType DEF InMap

(* What has gone past stays past while the trigger counts grow.            *)
LEMMA PastStays ==
  ASSUME TypeOK, NEW f \in Frag, Past(f), run' = run,
         \/ next' = next
         \/ \E d \in DIFs : next' = [next EXCEPT ![d] = @ + 1]
  PROVE  Past(f)'
<1>1. f.dif \in DIFs /\ next[f.dif] \in Nat /\ f.gtc \in Nat
  BY DEF Frag, TypeOK, GTCs
<1>2. next'[f.dif] = next[f.dif] \/ next'[f.dif] = next[f.dif] + 1
  BY <1>1 DEF TypeOK
<1>3. QED
  BY <1>1, <1>2 DEF Past

(* Steps that touch neither the shared memory nor the sources.             *)
LEMMA SourceFrame == ASSUME SourceOK, UNCHANGED <<shmVars, srcVars, run>> PROVE SourceOK'
BY DEF SourceOK, Past

LEMMA OpenEventInv == ASSUME IInv, NEW d \in DIFs, OpenEvent(d) PROVE IInv'
<1> USE DEF IInv
<1>1. next' = [next EXCEPT ![d] = @ + 1] /\ next[d] \in GTCs /\ run \in Runs
  BY ShmAssumption DEF OpenEvent, Triggering, ControlOK, TypeOK, GTCs
<1>2. PICK f \in Frag :
        /\ f.run = run /\ f.gtc = next[d] /\ f.dif = d
        /\ fs' = fs \cup {EventPath(f)}
        /\ src' = [src EXCEPT ![d] = [step |-> "opened", frag |-> f]]
  BY <1>1 DEF OpenEvent, Frag
<1>3. f \notin delivered
  BY <1>1, <1>2, ShmAssumption DEF DeliveredOK, Past, Runs, GTCs
<1>4. \A g \in Frag : Past(g) => Past(g)'
  BY <1>1, PastStays DEF OpenEvent, TypeOK
<1>5. Past(f)'
  BY <1>1, <1>2 DEF Past, OpenEvent, GTCs, TypeOK
<1>6. TypeOK'
  <2>1. fs' \subseteq Paths
    BY <1>2, PathFacts DEF TypeOK
  <2>2. src' \in [DIFs -> [step : {"idle", "opened", "written"}, frag : Frag \cup {NoFrag}]]
    BY <1>2 DEF TypeOK
  <2>3. next' \in [DIFs -> 1..MaxGTC + 1]
    BY <1>1, ShmAssumption DEF GTCs, TypeOK
  <2>4. QED
    BY <2>1, <2>2, <2>3 DEF OpenEvent, TypeOK
<1>7. SourceOK'
  <2> SUFFICES ASSUME NEW e \in DIFs, src'[e].step # "idle"
               PROVE  /\ src'[e].frag \in Frag
                      /\ \A g \in Frag : src'[e].frag = g =>
                           /\ g.dif = e /\ g \notin delivered' /\ Past(g)'
                           /\ EventPath(g) \in fs'
                           /\ src'[e].step = "written" => g \in full'
    BY DEF SourceOK
  <2>1. CASE e = d
    BY <1>2, <1>3, <1>5, <2>1 DEF OpenEvent, TypeOK
  <2>2. CASE e # d
    <3>1. src'[e] = src[e]
      BY <1>2, <2>2 DEF TypeOK
    <3>2. QED
      BY <1>2, <1>4, <3>1 DEF SourceOK, OpenEvent
  <2>3. QED
    BY <2>1, <2>2
<1>8. \A g \in delivered : EventPath(g) \in fs' <=> EventPath(g) \in fs
  BY <1>2, <1>3, PathFacts
<1>9. \A g : MarkerPath(g) \in fs' <=> MarkerPath(g) \in fs
  BY <1>2, PathFacts
<1>10. DeliveredOK'
  BY <1>4, <1>8, <1>9 DEF DeliveredOK, OpenEvent, Markers, TypeOK
<1>11. HandOver' /\ HandOK'
  BY <1>2, <1>8, <1>9 DEF DeliveredOK, HandOver, HandOK, OpenEvent, Markers
<1>12. LockOK' /\ ControlOK'
  BY DEF OpenEvent, LockOK, ControlOK
<1>13. QED
  BY <1>6, <1>7, <1>10, <1>11, <1>12

LEMMA WriteDataInv == ASSUME IInv, NEW d \in DIFs, WriteData(d) PROVE IInv'
<1> USE DEF IInv
<1>1. src[d].frag \in Frag
  BY DEF WriteData, SourceOK
<1>2. src' \in [DIFs -> [step : {"idle", "opened", "written"}, frag : Frag \cup {NoFrag}]]
  BY <1>1 DEF WriteData, TypeOK
<1>3. TypeOK'
  BY <1>1, <1>2 DEF WriteData, TypeOK
<1>4. SourceOK'
  BY <1>1 DEF WriteData, SourceOK, TypeOK, Past
<1>5. LockOK' /\ HandOver' /\ ControlOK' /\ DeliveredOK' /\ HandOK'
  BY DEF WriteData, LockOK, HandOver, ControlOK, DeliveredOK, HandOK, Markers, Past
<1>6. QED
  BY <1>3, <1>4, <1>5

LEMMA TransferFailsInv == ASSUME IInv, NEW d \in DIFs, TransferFails(d) PROVE IInv'
<1> USE DEF IInv
<1>1. TypeOK'
  BY DEF TransferFails, TypeOK, Idle
<1>2. SourceOK'
  BY DEF TransferFails, SourceOK, TypeOK, Past, Idle
<1>3. LockOK' /\ HandOver' /\ ControlOK' /\ DeliveredOK' /\ HandOK'
  BY DEF TransferFails, LockOK, HandOver, ControlOK, DeliveredOK, HandOK, Markers, Past
<1>4. QED
  BY <1>1, <1>2, <1>3

LEMMA CreateMarkerInv == ASSUME IInv, NEW d \in DIFs, CreateMarker(d) PROVE IInv'
<1> USE DEF IInv
<1>1. PICK f \in Frag : src[d].frag = f
  BY DEF CreateMarker, SourceOK
<1>2. /\ fs' = fs \cup {MarkerPath(f)} /\ delivered' = delivered \cup {f}
      /\ src' = [src EXCEPT ![d] = Idle]
  BY <1>1 DEF CreateMarker
<1>3. /\ f.dif = d /\ f \notin delivered /\ Past(f)
      /\ EventPath(f) \in fs /\ f \in full
  BY <1>1 DEF CreateMarker, SourceOK
<1>4. TypeOK'
  <2>1. fs' \subseteq Paths /\ delivered' \subseteq Frag
    BY <1>2, PathFacts DEF TypeOK
  <2>2. src' \in [DIFs -> [step : {"idle", "opened", "written"}, frag : Frag \cup {NoFrag}]]
    BY <1>2 DEF TypeOK, Idle
  <2>3. QED
    BY <2>1, <2>2 DEF CreateMarker, TypeOK
<1>5. SourceOK'
  <2> SUFFICES ASSUME NEW e \in DIFs, src'[e].step # "idle"
               PROVE  /\ src'[e].frag \in Frag
                      /\ \A g \in Frag : src'[e].frag = g =>
                           /\ g.dif = e /\ g \notin delivered' /\ Past(g)'
                           /\ EventPath(g) \in fs'
                           /\ src'[e].step = "written" => g \in full'
    BY DEF SourceOK
  <2>1. e # d /\ src'[e] = src[e]
    BY <1>2 DEF TypeOK, Idle
  <2>2. QED
    BY <1>2, <1>3, <2>1 DEF SourceOK, CreateMarker, Past
<1>6. Markers' = Markers \cup {f}
  BY <1>2, PathFacts DEF Markers
<1>7. \A g : EventPath(g) \in fs' <=> EventPath(g) \in fs
  BY <1>2, PathFacts
<1>8. DeliveredOK'
  BY <1>2, <1>3, <1>6, <1>7 DEF DeliveredOK, CreateMarker, Past
<1>9. HandOver' /\ HandOK'
  BY <1>2, <1>3, <1>6, <1>7 DEF HandOver, HandOK, CreateMarker
<1>10. LockOK' /\ ControlOK'
  BY DEF CreateMarker, LockOK, ControlOK
<1>11. QED
  BY <1>4, <1>5, <1>8, <1>9, <1>10

LEMMA LoseReadoutInv == ASSUME IInv, NEW d \in DIFs, LoseReadout(d) PROVE IInv'
<1> USE DEF IInv
<1>1. \A g \in Frag : Past(g) => Past(g)'
  BY PastStays DEF LoseReadout
<1>2. next' \in [DIFs -> 1..MaxGTC + 1]
  BY ShmAssumption DEF LoseReadout, TypeOK
<1>3. TypeOK'
  BY <1>2 DEF LoseReadout, TypeOK
<1>4. SourceOK' /\ DeliveredOK'
  BY <1>1 DEF LoseReadout, SourceOK, DeliveredOK, TypeOK, Markers
<1>5. LockOK' /\ HandOver' /\ ControlOK' /\ HandOK'
  BY DEF LoseReadout, LockOK, HandOver, ControlOK, HandOK, Markers
<1>6. QED
  BY <1>3, <1>4, <1>5

LEMMA StopFlagInv == ASSUME IInv, StopFlag PROVE IInv'
<1> USE DEF IInv
<1>1. TypeOK' /\ LockOK' /\ HandOver' /\ ControlOK' /\ DeliveredOK' /\ HandOK'
  BY DEF StopFlag, TypeOK, LockOK, HandOver, ControlOK, DeliveredOK, HandOK, Markers, Past
<1>2. QED
  BY <1>1, SourceFrame DEF StopFlag

LEMMA StopCloseInv == ASSUME IInv, StopClose PROVE IInv'
<1> USE DEF IInv
<1>1. TypeOK'
  BY ShmAssumption DEF StopClose, TypeOK
<1>2. LockOK' /\ HandOver' /\ ControlOK' /\ DeliveredOK' /\ HandOK'
  BY DEF StopClose, LockOK, HandOver, ControlOK, DeliveredOK, HandOK, Markers, Past
<1>3. QED
  BY <1>1, <1>2, SourceFrame DEF StopClose

LEMMA StartClearInv == ASSUME IInv, StartClear PROVE IInv'
<1> USE DEF IInv
<1>1. \A f : /\ EventPath(f) \in fs' <=> EventPath(f) \in fs
             /\ MarkerPath(f) \in fs' <=> MarkerPath(f) \in fs
  BY PathFacts DEF StartClear
<1>2. TypeOK'
  <2>1. bufferMap' \in [GTCs -> Seq(Frag)] /\ nDif' \in Nat
    BY ShmAssumption DEF StartClear
  <2>2. fs' \subseteq Paths /\ dropped' \subseteq Frag
    BY InMapType DEF StartClear, TypeOK
  <2>3. QED
    BY <2>1, <2>2 DEF StartClear, TypeOK
<1>3. SourceOK' /\ DeliveredOK' /\ HandOver' /\ HandOK'
  BY <1>1 DEF StartClear, SourceOK, DeliveredOK, HandOver, HandOK, Markers, Past
<1>4. LockOK' /\ ControlOK'
  BY DEF StartClear, LockOK, ControlOK
<1>5. QED
  BY <1>2, <1>3, <1>4

LEMMA StartCrashInv == ASSUME IInv, StartCrash PROVE IInv'
<1> USE DEF IInv
<1>1. TypeOK'
  <2>1. bufferMap' \in [GTCs -> Seq(Frag)]
    BY DEF StartCrash
  <2>2. {hand[t] : t \in Threads} \ {NoFrag} \subseteq Frag
    BY DEF TypeOK
  <2>3. dropped' \subseteq Frag
    BY <2>2, InMapType DEF StartCrash, TypeOK
  <2>4. hand' \in [Threads -> Frag \cup {NoFrag}] /\ pc' \in [Threads -> PCs]
    BY DEF StartCrash, PCs
  <2>5. QED
    BY <2>1, <2>3, <2>4 DEF StartCrash, TypeOK
<1>2. LockOK' /\ HandOver' /\ ControlOK' /\ DeliveredOK' /\ HandOK'
  BY NoThreadFact DEF StartCrash, LockOK, Critical, HandOver, ControlOK, DeliveredOK, HandOK,
     Markers, Past
<1>3. QED
  BY <1>1, <1>2, SourceFrame DEF StartCrash

LEMMA StartFlagInv == ASSUME IInv, StartFlag PROVE IInv'
<1> USE DEF IInv
<1>1. run' = run + 1 /\ run \in 0..MaxRun /\ run < MaxRun
  BY DEF StartFlag, TypeOK, ControlOK
<1>2. \A f \in Frag : Past(f) => Past(f)'
  BY <1>1, ShmAssumption DEF Past, Frag, Runs
<1>3. TypeOK'
  <2>1. run' \in 0..MaxRun
    BY <1>1, ShmAssumption
  <2>2. next' \in [DIFs -> 1..MaxGTC + 1]
    BY ShmAssumption DEF StartFlag
  <2>3. QED
    BY <2>1, <2>2 DEF StartFlag, TypeOK
<1>4. SourceOK' /\ DeliveredOK'
  BY <1>2 DEF StartFlag, SourceOK, DeliveredOK, Markers, TypeOK
<1>5. ControlOK'
  BY <1>1, ShmAssumption DEF StartFlag, ControlOK, Threads, Runs
<1>6. LockOK' /\ HandOver' /\ HandOK'
  BY DEF StartFlag, LockOK, HandOver, HandOK, Markers
<1>7. QED
  BY <1>3, <1>4, <1>5, <1>6

LEMMA StartOpenInv == ASSUME IInv, StartOpen PROVE IInv'
<1> USE DEF IInv
<1>1. TypeOK'
  BY ShmAssumption DEF StartOpen, TypeOK
<1>2. LockOK' /\ HandOver' /\ ControlOK' /\ DeliveredOK' /\ HandOK'
  BY DEF StartOpen, LockOK, HandOver, ControlOK, DeliveredOK, HandOK, Markers, Past
<1>3. QED
  BY <1>1, <1>2, SourceFrame DEF StartOpen

LEMMA StartSpawnInv == ASSUME IInv, StartSpawn PROVE IInv'
<1> USE DEF IInv
<1>1. \A t \in Threads : pc'[t] = pc[t] \/ (pc[t] \notin Critical /\ pc'[t] = "loop")
  <2> SUFFICES ASSUME NEW t \in Threads
               PROVE  pc'[t] = pc[t] \/ (pc[t] \notin Critical /\ pc'[t] = "loop")
    OBVIOUS
  <2>1. CASE t = run
    <3>1. pc[t] \in {"none", "dead"}
      BY <2>1 DEF StartSpawn, ControlOK
    <3>2. QED
      BY <2>1, <3>1 DEF StartSpawn, TypeOK, Critical
  <2>2. CASE t # run
    <3>1. pc \in [Threads -> PCs] /\ pc' = [pc EXCEPT ![run] = "loop"]
      BY DEF StartSpawn, TypeOK
    <3>2. QED
      BY <2>2, <3>1
  <2>3. QED
    BY <2>1, <2>2
<1>2. TypeOK'
  BY DEF StartSpawn, TypeOK, PCs
<1>3. LockOK'
  BY <1>1 DEF StartSpawn, LockOK, Critical
<1>4. HandOver' /\ HandOK'
  BY <1>1 DEF StartSpawn, HandOver, HandOK, Markers, Critical
<1>5. ControlOK'
  BY ShmAssumption DEF StartSpawn, ControlOK, TypeOK, Threads, Runs
<1>6. DeliveredOK'
  BY DEF StartSpawn, DeliveredOK, Markers, Past
<1>7. QED
  BY <1>2, <1>3, <1>4, <1>5, <1>6, SourceFrame DEF StartSpawn

(* Steps of a loop outside its critical section, or inside it but without  *)
(* an effect on the shared memory, that only move its control point.       *)
LEMMA LoopInv == ASSUME IInv, NEW t \in Threads, Loop(t) PROVE IInv'
<1> USE DEF IInv
<1>1. TypeOK' /\ LockOK' /\ ControlOK'
  BY DEF Loop, Goto, TypeOK, PCs, LockOK, Critical, ControlOK
<1>2. HandOver' /\ DeliveredOK' /\ HandOK'
  BY DEF Loop, Goto, TypeOK, HandOver, DeliveredOK, HandOK, Markers, Past
<1>3. QED
  BY <1>1, <1>2, SourceFrame DEF Loop

LEMMA ReadCheckInv == ASSUME IInv, NEW t \in Threads, ReadCheck(t) PROVE IInv'
<1> USE DEF IInv
<1>1. TypeOK' /\ LockOK' /\ ControlOK'
  BY DEF ReadCheck, Goto, TypeOK, PCs, LockOK, Critical, ControlOK
<1>2. HandOver' /\ DeliveredOK' /\ HandOK'
  BY DEF ReadCheck, Goto, TypeOK, HandOver, DeliveredOK, HandOK, Markers, Past
<1>3. QED
  BY <1>1, <1>2, SourceFrame DEF ReadCheck

LEMMA WriteCheckInv == ASSUME IInv, NEW t \in Threads, WriteCheck(t) PROVE IInv'
<1> USE DEF IInv
<1>1. TypeOK' /\ LockOK' /\ ControlOK'
  BY DEF WriteCheck, Goto, TypeOK, PCs, LockOK, Critical, ControlOK
<1>2. HandOver' /\ DeliveredOK' /\ HandOK'
  BY DEF WriteCheck, Goto, TypeOK, HandOver, DeliveredOK, HandOK, Markers, Past
<1>3. QED
  BY <1>1, <1>2, SourceFrame DEF WriteCheck

LEMMA ScanInv == ASSUME IInv, NEW t \in Threads, Scan(t) PROVE IInv'
<1> USE DEF IInv
<1>1. Markers \subseteq Frag /\ Markers \subseteq delivered
  BY DEF Markers, DeliveredOK
<1>2. TypeOK' /\ LockOK' /\ ControlOK'
  BY <1>1 DEF Scan, Goto, TypeOK, PCs, LockOK, Critical, ControlOK
<1>3. Markers' = Markers
  BY DEF Scan, Markers
<1>4. DeliveredOK'
  BY <1>1, <1>3 DEF Scan, DeliveredOK, TypeOK, Past
<1>5. HandOver' /\ HandOK'
  BY <1>3 DEF Scan, Goto, TypeOK, HandOver, HandOK
<1>6. QED
  BY <1>2, <1>4, <1>5, SourceFrame DEF Scan

LEMMA SkipInv == ASSUME IInv, NEW t \in Threads, Skip(t) PROVE IInv'
<1> USE DEF IInv
<1>1. PICK f \in list[t] : list' = [list EXCEPT ![t] = @ \ {f}]
  BY DEF Skip
<1>2. TypeOK' /\ LockOK' /\ ControlOK'
  BY <1>1 DEF Skip, TypeOK, LockOK, ControlOK
<1>3. HandOver' /\ DeliveredOK' /\ HandOK'
  BY <1>1 DEF Skip, TypeOK, HandOver, DeliveredOK, HandOK, Markers, Past
<1>4. QED
  BY <1>2, <1>3, SourceFrame DEF Skip

(* Taking and giving back the lock.                                        *)
LEMMA LockReadInv == ASSUME IInv, NEW t \in Threads, LockRead(t) PROVE IInv'
<1> USE NoThreadFact DEF IInv
<1>1. TypeOK' /\ ControlOK'
  BY DEF LockRead, Goto, TypeOK, PCs, ControlOK
<1>2. LockOK'
  BY DEF LockRead, Goto, TypeOK, LockOK, Critical
<1>3. HandOver' /\ DeliveredOK' /\ HandOK'
  BY DEF LockRead, Goto, TypeOK, HandOver, DeliveredOK, HandOK, Markers, Past
<1>4. QED
  BY <1>1, <1>2, <1>3, SourceFrame DEF LockRead

LEMMA LockWriteInv == ASSUME IInv, NEW t \in Threads, LockWrite(t) PROVE IInv'
<1> USE NoThreadFact DEF IInv
<1>1. TypeOK' /\ ControlOK'
  BY DEF LockWrite, Goto, TypeOK, PCs, ControlOK
<1>2. LockOK'
  BY DEF LockWrite, Goto, TypeOK, LockOK, Critical
<1>3. HandOver' /\ DeliveredOK' /\ HandOK'
  BY DEF LockWrite, Goto, TypeOK, HandOver, DeliveredOK, HandOK, Markers, Past
<1>4. QED
  BY <1>1, <1>2, <1>3, SourceFrame DEF LockWrite

LEMMA OpenFailsInv == ASSUME IInv, NEW t \in Threads, OpenFails(t) PROVE IInv'
<1> USE NoThreadFact DEF IInv
<1>1. TypeOK' /\ ControlOK'
  BY DEF OpenFails, Goto, TypeOK, PCs, ControlOK
<1>2. LockOK'
  BY DEF OpenFails, Goto, TypeOK, LockOK, Critical
<1>3. HandOver' /\ DeliveredOK' /\ HandOK'
  BY DEF OpenFails, Goto, TypeOK, HandOver, DeliveredOK, HandOK, Markers, Past, LockOK, Critical
<1>4. QED
  BY <1>1, <1>2, <1>3, SourceFrame DEF OpenFails

LEMMA ReadDoneInv == ASSUME IInv, NEW t \in Threads, ReadDone(t) PROVE IInv'
<1> USE NoThreadFact DEF IInv
<1>1. TypeOK' /\ ControlOK'
  BY DEF ReadDone, Goto, TypeOK, PCs, ControlOK
<1>2. LockOK'
  BY DEF ReadDone, Goto, TypeOK, LockOK, Critical
<1>3. HandOver' /\ DeliveredOK' /\ HandOK'
  BY DEF ReadDone, Goto, TypeOK, HandOver, DeliveredOK, HandOK, Markers, Past, LockOK, Critical
<1>4. QED
  BY <1>1, <1>2, <1>3, SourceFrame DEF ReadDone

(* Moving a fragment.                                                      *)
LEMMA ReadEventInv == ASSUME IInv, NEW t \in Threads, ReadEvent(t) PROVE IInv'
<1> USE DEF IInv
<1>1. PICK f \in list[t] : /\ EventPath(f) \in fs
                           /\ pc[t] = "reading" /\ pc' = [pc EXCEPT ![t] = "read"]
                           /\ hand' = [hand EXCEPT ![t] = f]
  BY DEF ReadEvent, Goto
<1>2. f \in Frag /\ f \in delivered /\ MarkerPath(f) \in fs
  BY <1>1 DEF DeliveredOK, TypeOK
<1>3. lock = t /\ \A u \in Threads : u # t => pc[u] \notin Critical
  BY <1>1 DEF LockOK, Critical
<1>4. ctl # "crashed" => f \in full
  BY <1>1, <1>2, <1>3 DEF HandOver, Markers, Critical
<1>5. TypeOK' /\ ControlOK'
  BY <1>1, <1>2 DEF ReadEvent, TypeOK, PCs, ControlOK
<1>6. LockOK'
  BY <1>1 DEF ReadEvent, TypeOK, LockOK, Critical
<1>7. HandOver' /\ HandOK'
  BY <1>1, <1>2, <1>3, <1>4 DEF ReadEvent, TypeOK, HandOver, HandOK, Markers, Critical
<1>8. DeliveredOK'
  BY DEF ReadEvent, DeliveredOK, Markers, Past
<1>9. QED
  BY <1>5, <1>6, <1>7, <1>8, SourceFrame DEF ReadEvent

LEMMA UnlinkEventInv == ASSUME IInv, NEW t \in Threads, UnlinkEvent(t) PROVE IInv'
<1> USE DEF IInv
<1>1. PICK f \in Frag : /\ hand[t] = f /\ f \in delivered /\ MarkerPath(f) \in fs
                        /\ fs' = fs \ {EventPath(f)} /\ full' = full \ {f}
                        /\ pc[t] = "read" /\ pc' = [pc EXCEPT ![t] = "unlinked"]
  BY DEF UnlinkEvent, Goto, HandOK, TypeOK
<1>2. lock = t /\ \A u \in Threads : u # t => pc[u] \notin Critical
  BY <1>1 DEF LockOK, Critical
<1>3. \A g : /\ MarkerPath(g) \in fs' <=> MarkerPath(g) \in fs
             /\ g # f => (EventPath(g) \in fs' <=> EventPath(g) \in fs)
  BY <1>1, PathFacts
<1>4. EventPath(f) \notin fs'
  BY <1>1
<1>5. TypeOK' /\ ControlOK'
  BY <1>1 DEF UnlinkEvent, TypeOK, PCs, ControlOK
<1>6. LockOK'
  BY <1>1 DEF UnlinkEvent, TypeOK, LockOK, Critical
<1>7. HandOver' /\ HandOK'
  BY <1>1, <1>2, <1>3, <1>4 DEF UnlinkEvent, TypeOK, HandOver, HandOK, Markers, Critical
<1>8. DeliveredOK'
  BY <1>1, <1>3, <1>4 DEF UnlinkEvent, DeliveredOK, Markers, Past
<1>9. SourceOK'
  BY <1>1, <1>3 DEF UnlinkEvent, SourceOK, Past
<1>10. QED
  BY <1>5, <1>6, <1>7, <1>8, <1>9

LEMMA UnlinkMarkerInv == ASSUME IInv, NEW t \in Threads, UnlinkMarker(t) PROVE IInv'
<1> USE DEF IInv
<1>1. PICK f \in Frag : /\ hand[t] = f /\ f \in delivered /\ EventPath(f) \notin fs
                        /\ fs' = fs \ {MarkerPath(f)}
                        /\ bufferMap' = [bufferMap EXCEPT ![f.gtc] = Append(@, f)]
                        /\ list' = [list EXCEPT ![t] = @ \ {f}]
                        /\ hand' = [hand EXCEPT ![t] = NoFrag]
                        /\ pc[t] = "unlinked" /\ pc' = [pc EXCEPT ![t] = "reading"]
  BY DEF UnlinkMarker, Goto, HandOK, TypeOK
<1>2. lock = t /\ \A u \in Threads : u # t => pc[u] \notin Critical
  BY <1>1 DEF LockOK, Critical
<1>3. \A g : /\ EventPath(g) \in fs' <=> EventPath(g) \in fs
             /\ g # f => (MarkerPath(g) \in fs' <=> MarkerPath(g) \in fs)
  BY <1>1, PathFacts
<1>4. MarkerPath(f) \notin fs'
  BY <1>1
<1>5. TypeOK'
  <2>1. bufferMap' \in [GTCs -> Seq(Frag)]
    <3>1. f.gtc \in GTCs
      BY DEF Frag
    <3>2. Append(bufferMap[f.gtc], f) \in Seq(Frag)
      BY <3>1 DEF TypeOK
    <3>3. QED
      BY <1>1, <3>1, <3>2 DEF TypeOK
  <2>2. list' \in [Threads -> SUBSET Frag] /\ hand' \in [Threads -> Frag \cup {NoFrag}]
    BY <1>1 DEF TypeOK
  <2>3. QED
    BY <1>1, <2>1, <2>2 DEF UnlinkMarker, TypeOK, PCs
<1>6. LockOK' /\ ControlOK'
  BY <1>1 DEF UnlinkMarker, TypeOK, LockOK, Critical, ControlOK
<1>7. HandOver' /\ HandOK'
  BY <1>1, <1>2, <1>3, <1>4 DEF UnlinkMarker, TypeOK, HandOver, HandOK, Markers, Critical
<1>8. DeliveredOK'
  BY <1>1, <1>3, <1>4 DEF UnlinkMarker, DeliveredOK, Markers, Past, TypeOK
<1>9. SourceOK'
  BY <1>3 DEF UnlinkMarker, SourceOK, Past
<1>10. QED
  BY <1>5, <1>6, <1>7, <1>8, <1>9

(* Writing and erasing.                                                    *)
LEMMA WriteEventInv == ASSUME IInv, NEW t \in Threads, WriteEvent(t) PROVE IInv'
<1> USE DEF IInv
<1>1. PICK g \in GTCs :
        /\ output' = Append(output, [file |-> file, num |-> eventNumber,
                                     gtc |-> g, frags |-> bufferMap[g]])
        /\ eventNumber' = eventNumber + 1
        /\ cursor' = [cursor EXCEPT ![t] = g]
  BY DEF WriteEvent, ToWrite
<1>2. TypeOK'
  <2>1. [file |-> file, num |-> eventNumber, gtc |-> g, frags |-> bufferMap[g]]
          \in [file : 0..MaxRun, num : Nat, gtc : GTCs, frags : Seq(Frag)]
    BY DEF TypeOK
  <2>2. output' \in Seq([file : 0..MaxRun, num : Nat, gtc : GTCs, frags : Seq(Frag)])
    BY <1>1, <2>1 DEF TypeOK
  <2>3. cursor' \in [Threads -> Nat]
    BY <1>1, ShmAssumption DEF TypeOK, GTCs
  <2>4. QED
    BY <1>1, <2>2, <2>3 DEF WriteEvent, TypeOK
<1>3. LockOK' /\ ControlOK' /\ HandOver' /\ DeliveredOK' /\ HandOK'
  BY DEF WriteEvent, LockOK, ControlOK, HandOver, DeliveredOK, HandOK, Markers, Past
<1>4. QED
  BY <1>2, <1>3, SourceFrame DEF WriteEvent

LEMMA EraseCompleteInv == ASSUME IInv, NEW t \in Threads, EraseComplete(t) PROVE IInv'
<1> USE NoThreadFact DEF IInv
<1>1. TypeOK'
  <2>1. bufferMap' \in [GTCs -> Seq(Frag)]
    BY DEF EraseComplete, TypeOK
  <2>2. dropped' \subseteq Frag
    BY EntryType DEF EraseComplete, TypeOK
  <2>3. pc' \in [Threads -> PCs] /\ lock' \in Threads \cup {NoThread}
    BY DEF EraseComplete, Goto, TypeOK, PCs
  <2>4. QED
    BY <2>1, <2>2, <2>3 DEF EraseComplete, TypeOK
<1>2. LockOK' /\ ControlOK'
  BY DEF EraseComplete, Goto, TypeOK, LockOK, Critical, ControlOK
<1>3. HandOver' /\ DeliveredOK' /\ HandOK'
  BY DEF EraseComplete, Goto, TypeOK, HandOver, DeliveredOK, HandOK, Markers, Past, LockOK, Critical
<1>4. QED
  BY <1>1, <1>2, <1>3, SourceFrame DEF EraseComplete

-----------------------------------------------------------------------------
LEMMA StepInv == IInv /\ [Next]_vars => IInv'
<1> SUFFICES ASSUME IInv, [Next]_vars PROVE IInv'
  OBVIOUS
<1>1. ASSUME NEW d \in DIFs, Source(d) PROVE IInv'
  BY <1>1, OpenEventInv, WriteDataInv, TransferFailsInv, CreateMarkerInv, LoseReadoutInv DEF Source
<1>2. CASE Control
  BY <1>2, StopFlagInv, StopCloseInv, StartClearInv, StartCrashInv, StartFlagInv, StartOpenInv,
     StartSpawnInv DEF Control
<1>3. ASSUME NEW t \in Threads, Builder(t) PROVE IInv'
  BY <1>3, LoopInv, ReadCheckInv, ScanInv, LockReadInv, SkipInv, ReadEventInv, OpenFailsInv,
     UnlinkEventInv, UnlinkMarkerInv, ReadDoneInv, WriteCheckInv, LockWriteInv, WriteEventInv,
     EraseCompleteInv DEF Builder
<1>4. CASE UNCHANGED vars
  BY <1>4 DEF vars, IInv, TypeOK, LockOK, HandOver, ControlOK, SourceOK, DeliveredOK, HandOK,
     Markers, Past
<1>5. QED
  BY <1>1, <1>2, <1>3, <1>4 DEF Next

LEMMA Invariance == Spec => []IInv
BY InitInv, StepInv, PTL DEF Spec

(* Every variable keeps its type.                                          *)
THEOREM TypeCorrect == Spec => []TypeOK
BY Invariance, PTL DEF IInv

(* theSync_ is held exactly inside the critical sections, so two loops are *)
(* never in theirs at once.                                                *)
THEOREM MutualExclusion == Spec => []LockOK
BY Invariance, PTL DEF IInv

(* The two-file hand-over of transferToFile and performReadFiles is sound  *)
(* for any number of sources and of builder loops that outlived their run. *)
THEOREM HandOverSound == Spec => []HandOver
<1>1. IInv => HandOver
  BY DEF IInv
<1>2. QED
  BY <1>1, Invariance, PTL
-----------------------------------------------------------------------------
(* A loop holds a fragment only while it moves it.                         *)
HandFree == \A t \in Threads : pc[t] \notin {"read", "unlinked"} => hand[t] = NoFrag

(* What the iterator of a writing loop has gone past is written.           *)
WrittenBehind == Save => \A t \in Threads : pc[t] = "writing" =>
  \A g \in GTCs : g <= cursor[t] /\ Complete(g) => Entry(g) \subseteq Written

AInv == IInv /\ Accounted /\ HandFree /\ WrittenBehind

(* Steps that move no fragment.                                            *)
LEMMA AccountedFrame ==
  ASSUME AInv, IInv', \A f : MarkerPath(f) \in fs => MarkerPath(f) \in fs',
         UNCHANGED <<bufferMap, output, nDif, cursor, hand, delivered, dropped>>,
         \A t \in Threads :
            /\ pc'[t] = "writing" => pc[t] = "writing"
            /\ pc[t] \in {"read", "unlinked"} => pc'[t] \in {"read", "unlinked"}
  PROVE  AInv'
<1> USE DEF AInv
<1>1. Written' = Written /\ InMap' = InMap
  BY DEF Written, InMap, Entry
<1>2. Accounted'
  BY <1>1 DEF Accounted, Markers
<1>3. HandFree' /\ WrittenBehind'
  BY <1>1 DEF HandFree, WrittenBehind, Complete, Entry
<1>4. QED
  BY <1>2, <1>3

LEMMA WrittenGrows ==
  ASSUME TypeOK, NEW e, output' = Append(output, e)
  PROVE  Written' = Written \cup {e.frags[j] : j \in 1..Len(e.frags)}
<1>1. Len(output') = Len(output) + 1 /\ output'[Len(output) + 1] = e
  BY DEF TypeOK
<1>2. \A i \in 1..Len(output) : output'[i] = output[i]
  BY DEF TypeOK
<1>3. 1..Len(output') = (1..Len(output)) \cup {Len(output) + 1} /\ Len(output) \in Nat
  BY <1>1 DEF TypeOK
<1>4. QED
  BY <1>1, <1>2, <1>3 DEF Written

LEMMA EntryGrows ==
  ASSUME TypeOK, NEW f \in Frag, bufferMap' = [bufferMap EXCEPT ![f.gtc] = Append(@, f)]
  PROVE  InMap' = InMap \cup {f}
<1>1. f.gtc \in GTCs
  BY DEF Frag
<1>2. Entry(f.gtc)' = Entry(f.gtc) \cup {f}
  <2> DEFINE s == bufferMap[f.gtc]
  <2>1. s \in Seq(Frag) /\ bufferMap'[f.gtc] = Append(s, f)
    BY <1>1 DEF TypeOK
  <2>2. Len(Append(s, f)) = Len(s) + 1 /\ Append(s, f)[Len(s) + 1] = f
    BY <2>1
  <2>3. \A i \in 1..Len(s) : Append(s, f)[i] = s[i]
    BY <2>1
  <2>4. 1..(Len(s) + 1) = (1..Len(s)) \cup {Len(s) + 1}
    BY <2>1
  <2>5. QED
    BY <2>1, <2>2, <2>3, <2>4 DEF Entry
<1>3. \A g \in GTCs : g # f.gtc => Entry(g)' = Entry(g)
  BY DEF Entry, TypeOK
<1>4. QED
  BY <1>1, <1>2, <1>3 DEF InMap

(* The steps that move fragments, one lemma each.                          *)
LEMMA CreateMarkerAcc == ASSUME AInv, NEW d \in DIFs, CreateMarker(d) PROVE AInv'
<1> USE DEF AInv
<1>1. IInv'
  BY CreateMarkerInv
<1>2. src[d].frag \in Frag /\ src[d].frag \in Markers'
  BY DEF CreateMarker, IInv, SourceOK, Markers
<1>3. Written' = Written /\ InMap' = InMap /\ Markers \subseteq Markers'
  BY DEF CreateMarker, Written, InMap, Entry, Markers
<1>4. Accounted'
  BY <1>2, <1>3 DEF Accounted, CreateMarker
<1>5. HandFree' /\ WrittenBehind'
  BY <1>3 DEF CreateMarker, HandFree, WrittenBehind, Complete, Entry
<1>6. QED
  BY <1>1, <1>4, <1>5

LEMMA StartClearAcc == ASSUME AInv, StartClear PROVE AInv'
<1> USE DEF AInv
<1>1. IInv'
  BY StartClearInv
<1>2. Written' = Written /\ Markers' = Markers
  BY PathFacts DEF StartClear, Written, Markers
<1>3. Accounted'
  BY <1>2 DEF Accounted, StartClear
<1>4. \A g \in GTCs : ~Complete(g)'
  BY DEF StartClear, Complete
<1>5. HandFree' /\ WrittenBehind'
  BY <1>4 DEF StartClear, HandFree, WrittenBehind
<1>6. QED
  BY <1>1, <1>3, <1>5

LEMMA StartCrashAcc == ASSUME AInv, StartCrash PROVE AInv'
<1> USE DEF AInv
<1>1. IInv'
  BY StartCrashInv
<1>2. Written' = Written /\ Markers' = Markers
  BY DEF StartCrash, Written, Markers
<1>3. delivered \subseteq Frag
  BY DEF IInv, TypeOK
<1>4. Accounted'
  BY <1>2, <1>3, NoFragNotFrag DEF Accounted, StartCrash
<1>5. HandFree' /\ WrittenBehind'
  BY DEF StartCrash, HandFree, WrittenBehind
<1>6. QED
  BY <1>1, <1>4, <1>5

LEMMA LockWriteAcc == ASSUME AInv, NEW t \in Threads, LockWrite(t) PROVE AInv'
<1> USE DEF AInv
<1>1. IInv'
  BY LockWriteInv
<1>2. Written' = Written /\ InMap' = InMap /\ Markers' = Markers
  BY DEF LockWrite, Written, InMap, Entry, Markers
<1>3. Accounted'
  BY <1>2 DEF Accounted, LockWrite
<1>4. HandFree'
  BY DEF LockWrite, Goto, HandFree, IInv, TypeOK
<1>5. WrittenBehind'
  <2>1. \A u \in Threads : pc'[u] = "writing" => cursor'[u] = 0
    BY NoThreadFact DEF LockWrite, Goto, IInv, TypeOK, LockOK, Critical
  <2>2. \A g \in GTCs : ~(g <= 0)
    BY ShmAssumption DEF GTCs
  <2>3. QED
    BY <2>1, <2>2 DEF WrittenBehind
<1>6. QED
  BY <1>1, <1>3, <1>4, <1>5

LEMMA ReadEventAcc == ASSUME AInv, NEW t \in Threads, ReadEvent(t) PROVE AInv'
<1> USE DEF AInv
<1>1. IInv'
  BY ReadEventInv
<1>2. PICK f \in list[t] : hand' = [hand EXCEPT ![t] = f]
  BY DEF ReadEvent
<1>3. hand[t] = NoFrag
  BY DEF ReadEvent, Goto, HandFree
<1>4. Written' = Written /\ InMap' = InMap /\ Markers' = Markers
  BY DEF ReadEvent, Written, InMap, Entry, Markers
<1>5. Accounted'
  BY <1>2, <1>3, <1>4, NoFragNotFrag DEF Accounted, ReadEvent, IInv, TypeOK
<1>6. HandFree' /\ WrittenBehind'
  BY <1>2, <1>4 DEF ReadEvent, Goto, HandFree, WrittenBehind, IInv, TypeOK, Complete, Entry
<1>7. QED
  BY <1>1, <1>5, <1>6

LEMMA UnlinkMarkerAcc == ASSUME AInv, NEW t \in Threads, UnlinkMarker(t) PROVE AInv'
<1> USE DEF AInv
<1>1. IInv'
  BY UnlinkMarkerInv
<1>2. PICK f \in Frag : /\ hand[t] = f /\ fs' = fs \ {MarkerPath(f)}
                        /\ bufferMap' = [bufferMap EXCEPT ![f.gtc] = Append(@, f)]
                        /\ hand' = [hand EXCEPT ![t] = NoFrag]
  BY DEF UnlinkMarker, Goto, IInv, HandOK, TypeOK
<1>3. InMap' = InMap \cup {f}
  BY <1>2, EntryGrows DEF IInv
<1>4. Written' = Written /\ Markers' = Markers \ {f}
  BY <1>2, PathFacts DEF UnlinkMarker, Written, Markers
<1>5. Accounted'
  BY <1>2, <1>3, <1>4 DEF Accounted, UnlinkMarker, IInv, TypeOK
<1>6. HandFree'
  BY <1>2 DEF UnlinkMarker, Goto, HandFree, IInv, TypeOK
<1>7. \A u \in Threads : pc'[u] # "writing"
  BY DEF UnlinkMarker, Goto, IInv, LockOK, Critical, TypeOK
<1>8. QED
  BY <1>1, <1>5, <1>6, <1>7 DEF WrittenBehind

LEMMA WriteEventAcc == ASSUME AInv, NEW t \in Threads, WriteEvent(t) PROVE AInv'
<1> USE DEF AInv
<1>1. IInv'
  BY WriteEventInv
<1>2. PICK g \in ToWrite(t) :
        /\ \A h \in ToWrite(t) : g <= h
        /\ output' = Append(output, [file |-> file, num |-> eventNumber,
                                     gtc |-> g, frags |-> bufferMap[g]])
        /\ cursor' = [cursor EXCEPT ![t] = g]
  BY DEF WriteEvent
<1>3. Written' = Written \cup Entry(g)
  BY <1>2, WrittenGrows DEF IInv, Entry
<1>4. InMap' = InMap /\ Markers' = Markers
  BY DEF WriteEvent, InMap, Entry, Markers
<1>5. Accounted'
  BY <1>3, <1>4 DEF Accounted, WriteEvent
<1>6. HandFree'
  BY DEF WriteEvent, HandFree
<1>7. WrittenBehind'
  <2> SUFFICES ASSUME Save, NEW u \in Threads, pc'[u] = "writing", NEW h \in GTCs,
                      h <= cursor'[u], Complete(h)'
               PROVE  Entry(h)' \subseteq Written'
    BY DEF WrittenBehind
  <2>1. u = t /\ Complete(h) /\ Entry(h)' = Entry(h)
    BY DEF WriteEvent, IInv, LockOK, Critical, Complete, Entry
  <2>2. h <= g /\ g \in GTCs /\ cursor[t] \in Nat
    BY <1>2, <2>1 DEF IInv, TypeOK, ToWrite
  <2>3. CASE h <= cursor[t]
    BY <1>3, <2>1, <2>3 DEF WrittenBehind, WriteEvent
  <2>4. CASE ~(h <= cursor[t])
    <3>1. h \in ToWrite(t)
      BY <2>1, <2>2, <2>4, ShmAssumption DEF ToWrite, GTCs
    <3>2. h = g
      BY <1>2, <2>2, <3>1, ShmAssumption DEF GTCs
    <3>3. QED
      BY <1>3, <2>1, <3>2
  <2>5. QED
    BY <2>3, <2>4
<1>8. QED
  BY <1>1, <1>5, <1>6, <1>7

LEMMA EraseCompleteAcc == ASSUME AInv, NEW t \in Threads, EraseComplete(t) PROVE AInv'
<1> USE DEF AInv
<1>1. IInv'
  BY EraseCompleteInv
<1>2. Written' = Written /\ Markers' = Markers
  BY DEF EraseComplete, Written, Markers
<1>3. \A g \in GTCs : ~Complete(g) => Entry(g)' = Entry(g)
  BY DEF EraseComplete, Entry, IInv, TypeOK
<1>4. \A g \in GTCs : Complete(g) => Entry(g) \subseteq Written \cup dropped'
  <2>1. CASE Save
    <3>1. ASSUME NEW g \in GTCs, Complete(g) PROVE g <= cursor[t]
      <4>1. g \in Nat /\ cursor[t] \in Nat
        BY ShmAssumption DEF IInv, TypeOK, GTCs
      <4>2. g \notin ToWrite(t)
        BY <2>1 DEF EraseComplete
      <4>3. QED
        BY <3>1, <4>1, <4>2 DEF ToWrite
    <3>2. QED
      BY <2>1, <3>1 DEF EraseComplete, Goto, WrittenBehind
  <2>2. CASE ~Save
    BY <2>2 DEF EraseComplete
  <2>3. QED
    BY <2>1, <2>2
<1>5. dropped \subseteq dropped'
  BY DEF EraseComplete
<1>6. InMap \subseteq InMap' \cup Written \cup dropped'
  BY <1>3, <1>4 DEF InMap
<1>7. Accounted'
  BY <1>2, <1>5, <1>6 DEF Accounted, EraseComplete
<1>8. HandFree'
  BY DEF EraseComplete, Goto, HandFree, IInv, TypeOK
<1>9. \A u \in Threads : pc'[u] # "writing"
  BY DEF EraseComplete, Goto, IInv, LockOK, Critical, TypeOK
<1>10. QED
  BY <1>1, <1>7, <1>8, <1>9 DEF WrittenBehind

LEMMA AccountedStep == AInv /\ [Next]_vars => AInv'
<1> SUFFICES ASSUME AInv, [Next]_vars PROVE AInv'
  OBVIOUS
<1>1. IInv' /\ TypeOK
  BY StepInv DEF AInv, IInv
<1>2. ASSUME NEW d \in DIFs, Source(d), ~CreateMarker(d) PROVE AInv'
  <2>1. /\ fs \subseteq fs'
        /\ UNCHANGED <<bufferMap, output, nDif, cursor, hand, delivered, dropped, pc>>
    BY <1>2 DEF Source, OpenEvent, WriteData, TransferFails, LoseReadout
  <2>2. QED
    BY <1>1, <2>1, AccountedFrame
<1>3. ASSUME NEW d \in DIFs, CreateMarker(d) PROVE AInv'
  BY <1>3, CreateMarkerAcc
<1>4. CASE StopFlag \/ StopClose \/ StartFlag \/ StartOpen
  <2>1. UNCHANGED <<fs, bufferMap, output, nDif, cursor, hand, delivered, dropped, pc>>
    BY <1>4 DEF StopFlag, StopClose, StartFlag, StartOpen
  <2>2. QED
    BY <1>1, <2>1, AccountedFrame
<1>5. CASE StartSpawn
  <2>1. UNCHANGED <<fs, bufferMap, output, nDif, cursor, hand, delivered, dropped>>
    BY <1>5 DEF StartSpawn
  <2>2. run \in Threads => pc[run] \in {"none", "dead"}
    BY <1>5 DEF StartSpawn, AInv, IInv, ControlOK
  <2>3. \A t \in Threads : pc'[t] = pc[t] \/ (pc[t] \in {"none", "dead"} /\ pc'[t] = "loop")
    BY <1>1, <1>5, <2>2 DEF StartSpawn, TypeOK
  <2>4. QED
    BY <1>1, <2>1, <2>3, AccountedFrame
<1>6. CASE StartClear \/ StartCrash
  BY <1>6, StartClearAcc, StartCrashAcc
<1>7. ASSUME NEW t \in Threads,
             \/ Loop(t) \/ ReadCheck(t) \/ Scan(t) \/ LockRead(t) \/ OpenFails(t)
             \/ ReadDone(t) \/ WriteCheck(t)
      PROVE  AInv'
  <2>1. UNCHANGED <<fs, bufferMap, output, nDif, cursor, hand, delivered, dropped>>
    BY <1>7 DEF Loop, ReadCheck, Scan, LockRead, OpenFails, ReadDone, WriteCheck
  <2>2. \A u \in Threads : pc'[u] = pc[u]
           \/ (pc[u] \notin {"read", "unlinked"} /\ pc'[u] \notin {"read", "unlinked", "writing"})
    BY <1>1, <1>7 DEF Loop, ReadCheck, Scan, LockRead, OpenFails, ReadDone, WriteCheck, Goto, TypeOK
  <2>3. QED
    BY <1>1, <2>1, <2>2, AccountedFrame
<1>8. ASSUME NEW t \in Threads, Skip(t) PROVE AInv'
  <2>1. UNCHANGED <<fs, bufferMap, output, nDif, cursor, hand, delivered, dropped, pc>>
    BY <1>8 DEF Skip
  <2>2. QED
    BY <1>1, <2>1, AccountedFrame
<1>9. ASSUME NEW t \in Threads, UnlinkEvent(t) PROVE AInv'
  <2>1. UNCHANGED <<bufferMap, output, nDif, cursor, hand, delivered, dropped>>
    BY <1>9 DEF UnlinkEvent
  <2>2. \A f : MarkerPath(f) \in fs => MarkerPath(f) \in fs'
    BY <1>9, PathFacts DEF UnlinkEvent
  <2>3. \A u \in Threads : pc'[u] = pc[u] \/ (pc[u] = "read" /\ pc'[u] = "unlinked")
    BY <1>1, <1>9 DEF UnlinkEvent, Goto, TypeOK
  <2>4. QED
    BY <1>1, <2>1, <2>2, <2>3, AccountedFrame
<1>10. ASSUME NEW t \in Threads,
              \/ LockWrite(t) \/ ReadEvent(t) \/ UnlinkMarker(t)
              \/ WriteEvent(t) \/ EraseComplete(t)
       PROVE  AInv'
  BY <1>10, LockWriteAcc, ReadEventAcc, UnlinkMarkerAcc, WriteEventAcc, EraseCompleteAcc
<1>11. CASE UNCHANGED vars
  <2>1. UNCHANGED <<fs, bufferMap, output, nDif, cursor, hand, delivered, dropped, pc>>
    BY <1>11 DEF vars
  <2>2. QED
    BY <1>1, <2>1, AccountedFrame
<1>12. QED
  BY <1>2, <1>3, <1>4, <1>5, <1>6, <1>7, <1>8, <1>9, <1>10, <1>11
     DEF Next, Source, Control, Builder

(* No fragment whose marker was created disappears in silence, for any     *)
(* number of sources, runs, surviving loops and values of theNumberOfDIF_. *)
THEOREM NothingLost == Spec => []Accounted
<1>1. Init => AInv
  BY InitInv DEF AInv, Init, Accounted, HandFree, WrittenBehind
<1>2. AInv => Accounted
  BY DEF AInv
<1>3. QED
  BY <1>1, <1>2, AccountedStep, PTL DEF Spec

-----------------------------------------------------------------------------
(* No fragment twice.  What is in the map or in the output has no marker   *)
(* any more, and gets none again, so that no loop reads it again.          *)
Once(s) == \A j, k \in 1..Len(s) : j # k => s[j] # s[k]
MapOnce == \A g \in GTCs :
  /\ Once(bufferMap[g])
  /\ IsFiniteSet(Entry(g)) /\ Cardinality(Entry(g)) = Len(bufferMap[g])
  /\ \A f \in Entry(g) : f.gtc = g /\ f.valid
OutputOnce == \A i \in 1..Len(output) :
  /\ Once(output[i].frags)
  /\ \A m \in 1..Len(output) : i # m =>
       \A j \in 1..Len(output[i].frags), k \in 1..Len(output[m].frags) :
          output[i].frags[j] # output[m].frags[k]
Consumed == \A f \in InMap \cup Written : f \in delivered /\ MarkerPath(f) \notin fs
(* Written and not yet erased: the loop that writes still holds the lock.  *)
ToErase == \A f \in InMap \cap Written :
  /\ Complete(f.gtc)
  /\ \E t \in Threads : lock = t /\ pc[t] = "writing" /\ f.gtc <= cursor[t]
(* A loop reads and moves what the counters of its file do not refuse.     *)
HandValid == \A t \in Threads : pc[t] \in {"read", "unlinked"} => hand[t].valid

UInv == IInv /\ MapOnce /\ OutputOnce /\ Consumed /\ ToErase /\ HandValid

LEMMA UniqueFrame ==
  ASSUME UInv, IInv', UNCHANGED <<bufferMap, output, nDif>>,
         delivered \subseteq delivered',
         \A f \in delivered : MarkerPath(f) \in fs' => MarkerPath(f) \in fs,
         \A t \in Threads : lock = t /\ pc[t] = "writing" =>
            lock' = t /\ pc'[t] = "writing" /\ cursor'[t] = cursor[t],
         HandValid'
  PROVE  UInv'
<1> USE DEF UInv
<1>1. Written' = Written /\ InMap' = InMap /\ \A g \in GTCs : Entry(g)' = Entry(g)
  BY DEF Written, InMap, Entry
<1>2. MapOnce' /\ OutputOnce'
  BY <1>1 DEF MapOnce, OutputOnce, Once
<1>3. Consumed'
  BY <1>1 DEF Consumed
<1>4. ToErase'
  BY <1>1 DEF ToErase, Complete
<1>5. QED
  BY <1>2, <1>3, <1>4

LEMMA NothingOnce ==
  Once(<<>>) /\ IsFiniteSet({}) /\ Cardinality({}) = Len(<<>>)
<1>1. Len(<<>>) = 0 /\ Cardinality({}) = 0 /\ IsFiniteSet({})
  BY FS_EmptySet
<1>2. QED
  BY <1>1 DEF Once

LEMMA EntryInMap == ASSUME NEW g \in GTCs PROVE Entry(g) \subseteq InMap
BY DEF InMap

(* A Start empties the map.                                                *)
LEMMA EmptiedUnique ==
  ASSUME UInv, IInv', bufferMap' = [g \in GTCs |-> <<>>], UNCHANGED <<output, delivered>>,
         \A f : MarkerPath(f) \in fs' => MarkerPath(f) \in fs, HandValid'
  PROVE  UInv'
<1> USE DEF UInv
<1>1. \A g \in GTCs : bufferMap'[g] = <<>> /\ Entry(g)' = {}
  BY DEF Entry
<1>2. InMap' = {} /\ Written' = Written
  BY <1>1 DEF InMap, Written
<1>3. MapOnce'
  BY <1>1, NothingOnce DEF MapOnce
<1>4. OutputOnce' /\ Consumed' /\ ToErase'
  BY <1>2 DEF OutputOnce, Consumed, ToErase
<1>5. QED
  BY <1>3, <1>4

LEMMA UnlinkMarkerUnique == ASSUME UInv, NEW t \in Threads, UnlinkMarker(t) PROVE UInv'
<1> USE DEF UInv
<1>1. IInv'
  BY UnlinkMarkerInv
<1>2. PICK f \in Frag : /\ hand[t] = f /\ fs' = fs \ {MarkerPath(f)}
                        /\ bufferMap' = [bufferMap EXCEPT ![f.gtc] = Append(@, f)]
                        /\ f \in delivered /\ MarkerPath(f) \in fs
                        /\ f.gtc \in GTCs /\ f.valid
  BY DEF UnlinkMarker, Goto, IInv, HandOK, TypeOK, HandValid, Frag
<1>3. InMap' = InMap \cup {f} /\ Written' = Written
  <2>1. TypeOK /\ bufferMap' = [bufferMap EXCEPT ![f.gtc] = Append(@, f)]
    BY <1>2 DEF IInv
  <2>2. InMap' = InMap \cup {f}
    BY <2>1, EntryGrows
  <2>3. QED
    BY <2>2 DEF UnlinkMarker, Written
<1>4. f \notin InMap /\ f \notin Written
  BY <1>2 DEF Consumed
<1>5. InMap \cap Written = {}
  BY DEF ToErase, UnlinkMarker, Goto, IInv, LockOK, Critical
<1>6. ToErase'
  BY <1>3, <1>4, <1>5 DEF ToErase
<1>7. Consumed'
  BY <1>2, <1>3, PathFacts DEF Consumed, UnlinkMarker
<1>8. MapOnce'
  <2> SUFFICES ASSUME NEW g \in GTCs
               PROVE  /\ Once(bufferMap'[g])
                      /\ IsFiniteSet(Entry(g)') /\ Cardinality(Entry(g)') = Len(bufferMap'[g])
                      /\ \A e \in Entry(g)' : e.gtc = g /\ e.valid
    BY DEF MapOnce
  <2>1. CASE g # f.gtc
    <3>1. bufferMap'[g] = bufferMap[g] /\ Entry(g)' = Entry(g)
      BY <1>2, <2>1 DEF IInv, TypeOK, Entry
    <3>2. QED
      BY <3>1 DEF MapOnce
  <2>2. CASE g = f.gtc
    <3> DEFINE s == bufferMap[g]
    <3>1. /\ s \in Seq(Frag) /\ bufferMap'[g] = Append(s, f) /\ Len(s) \in Nat
          /\ Len(Append(s, f)) = Len(s) + 1 /\ Append(s, f)[Len(s) + 1] = f
          /\ \A i \in 1..Len(s) : Append(s, f)[i] = s[i]
      BY <1>2, <2>2 DEF IInv, TypeOK
    <3>2. f \notin Entry(g)
      BY <1>4, EntryInMap
    <3>3. \A i \in 1..Len(s) : s[i] # f
      BY <3>2 DEF Entry
    <3>4. Entry(g) = {s[i] : i \in 1..Len(s)} /\ Once(s)
      BY DEF Entry, MapOnce
    <3> HIDE DEF s
    <3>5. 1..(Len(s) + 1) = (1..Len(s)) \cup {Len(s) + 1}
      BY <3>1
    <3>6. Entry(g)' = Entry(g) \cup {f}
      BY <3>1, <3>4, <3>5 DEF Entry
    <3>7. Once(bufferMap'[g])
      BY <3>1, <3>3, <3>4 DEF Once
    <3>8. IsFiniteSet(Entry(g)) /\ Cardinality(Entry(g)) = Len(s)
      BY DEF MapOnce, s
    <3>9. IsFiniteSet(Entry(g)') /\ Cardinality(Entry(g)') = Len(s) + 1
      BY <3>2, <3>6, <3>8, FS_AddElement
    <3>10. \A e \in Entry(g)' : e.gtc = g /\ e.valid
      BY <1>2, <2>2, <3>6 DEF MapOnce
    <3>11. QED
      BY <3>1, <3>7, <3>9, <3>10
  <2>3. QED
    BY <2>1, <2>2
<1>9. OutputOnce' /\ HandValid'
  BY <1>2 DEF OutputOnce, UnlinkMarker, Goto, HandValid, IInv, TypeOK
<1>10. QED
  BY <1>1, <1>6, <1>7, <1>8, <1>9

LEMMA WriteEventUnique == ASSUME UInv, NEW t \in Threads, WriteEvent(t) PROVE UInv'
<1> USE DEF UInv
<1>1. IInv'
  BY WriteEventInv
<1> DEFINE e(g) == [file |-> file, num |-> eventNumber, gtc |-> g, frags |-> bufferMap[g]]
<1>2. PICK g \in ToWrite(t) :
        /\ \A h \in ToWrite(t) : g <= h
        /\ output' = Append(output, e(g))
        /\ cursor' = [cursor EXCEPT ![t] = g]
  BY DEF WriteEvent
<1>3. g \in GTCs /\ Complete(g) /\ g > cursor[t] /\ g \in Nat /\ cursor[t] \in Nat
  BY <1>2, ShmAssumption DEF ToWrite, GTCs, IInv, TypeOK
<1>4. Written' = Written \cup Entry(g) /\ InMap' = InMap
  BY <1>2, WrittenGrows DEF IInv, Entry, WriteEvent, InMap
<1>5. \A f \in InMap \cap Written : f.gtc <= cursor[t] /\ Complete(f.gtc)
  BY DEF ToErase, WriteEvent, IInv, LockOK, Critical
<1>6. lock = t /\ pc[t] = "writing" /\ lock' = t /\ pc'[t] = "writing"
  BY DEF WriteEvent, IInv, LockOK, Critical
<1>7. \A f \in Entry(g) : f.gtc = g
  BY <1>3 DEF MapOnce
<1>8. Entry(g) \cap Written = {}
  BY <1>3, <1>5, <1>7, EntryInMap
<1>9. ToErase'
  <2>1. cursor'[t] = g /\ \A h \in GTCs : Complete(h)' <=> Complete(h)
    BY <1>2 DEF WriteEvent, Complete, IInv, TypeOK
  <2>2. ASSUME NEW f \in InMap' \cap Written' PROVE f.gtc <= g /\ Complete(f.gtc)'
    <3>1. CASE f \in Entry(g)
      BY <1>3, <1>7, <2>1, <3>1
    <3>2. CASE f \in InMap \cap Written
      <4>1. f.gtc <= cursor[t] /\ Complete(f.gtc)
        BY <1>5, <3>2
      <4>2. f.gtc \in GTCs /\ f.gtc \in Nat
        BY <3>2, InMapType, ShmAssumption DEF IInv, Frag, GTCs
      <4>3. QED
        BY <1>3, <2>1, <4>1, <4>2
    <3>3. QED
      BY <1>4, <3>1, <3>2
  <2>3. QED
    BY <1>6, <2>1, <2>2 DEF ToErase
<1>10. Consumed'
  BY <1>3, <1>4, EntryInMap DEF Consumed, WriteEvent
<1>11. MapOnce' /\ HandValid'
  BY DEF WriteEvent, MapOnce, Entry, HandValid
<1>12. OutputOnce'
  <2>1. /\ Len(output) \in Nat /\ Len(output') = Len(output) + 1
        /\ output'[Len(output) + 1] = e(g)
        /\ \A i \in 1..Len(output) : output'[i] = output[i]
    BY <1>2 DEF IInv, TypeOK
  <2>2. e(g).frags = bufferMap[g]
    OBVIOUS
  <2> HIDE DEF e
  <2>3. \A i \in 1..Len(output) : \A j \in 1..Len(output[i].frags) :
           output[i].frags[j] \in Written
    BY DEF Written
  <2>4. Once(bufferMap[g]) /\ \A j \in 1..Len(bufferMap[g]) : bufferMap[g][j] \notin Written
    BY <1>3, <1>8 DEF MapOnce, Entry
  <2>5. ASSUME NEW i \in 1..Len(output') PROVE Once(output'[i].frags)
    <3>1. i \in 1..Len(output) \/ i = Len(output) + 1
      BY <2>1
    <3>2. QED
      BY <2>1, <2>2, <2>4, <3>1 DEF OutputOnce
  <2>6. ASSUME NEW i \in 1..Len(output'), NEW m \in 1..Len(output'), i # m,
               NEW j \in 1..Len(output'[i].frags), NEW k \in 1..Len(output'[m].frags)
        PROVE  output'[i].frags[j] # output'[m].frags[k]
    <3>1. CASE i \in 1..Len(output) /\ m \in 1..Len(output)
      BY <2>1, <2>6, <3>1 DEF OutputOnce
    <3>2. CASE i = Len(output) + 1 /\ m \in 1..Len(output)
      <4>1. output'[m].frags[k] \in Written
        BY <2>1, <2>3, <3>2
      <4>2. QED
        BY <2>1, <2>2, <2>4, <3>2, <4>1
    <3>3. CASE m = Len(output) + 1 /\ i \in 1..Len(output)
      <4>1. output'[i].frags[j] \in Written
        BY <2>1, <2>3, <3>3
      <4>2. QED
        BY <2>1, <2>2, <2>4, <3>3, <4>1
    <3>4. QED
      BY <2>1, <2>6, <3>1, <3>2, <3>3
  <2>7. QED
    BY <2>5, <2>6 DEF OutputOnce
<1>13. QED
  BY <1>1, <1>9, <1>10, <1>11, <1>12

LEMMA EraseCompleteUnique == ASSUME UInv, NEW t \in Threads, EraseComplete(t) PROVE UInv'
<1> USE DEF UInv
<1>1. IInv'
  BY EraseCompleteInv
<1>2. \A g \in GTCs : /\ Complete(g) => bufferMap'[g] = <<>> /\ Entry(g)' = {}
                      /\ ~Complete(g) => bufferMap'[g] = bufferMap[g] /\ Entry(g)' = Entry(g)
  BY DEF EraseComplete, Entry
<1>3. Written' = Written
  BY DEF EraseComplete, Written
<1>4. \A f \in InMap' : f \in InMap /\ ~Complete(f.gtc)
  BY <1>2 DEF InMap, MapOnce
<1>5. InMap' \cap Written' = {}
  BY <1>3, <1>4 DEF ToErase
<1>6. ToErase' /\ Consumed'
  BY <1>3, <1>4, <1>5 DEF ToErase, Consumed, EraseComplete
<1>7. MapOnce'
  BY <1>2, NothingOnce DEF MapOnce
<1>8. OutputOnce' /\ HandValid'
  BY DEF EraseComplete, Goto, OutputOnce, HandValid, IInv, TypeOK
<1>9. QED
  BY <1>1, <1>6, <1>7, <1>8

LEMMA UniqueStep == UInv /\ [Next]_vars => UInv'
<1> SUFFICES ASSUME UInv, [Next]_vars PROVE UInv'
  OBVIOUS
<1>1. IInv' /\ IInv /\ TypeOK /\ LockOK
  BY StepInv DEF UInv, IInv
<1>2. HandValid
  BY DEF UInv
<1>3. ASSUME NEW d \in DIFs, Source(d) PROVE UInv'
  <2>1. UNCHANGED <<bufferMap, output, nDif, lock, pc, cursor, hand>>
    BY <1>3 DEF Source, OpenEvent, WriteData, TransferFails, CreateMarker, LoseReadout
  <2>2. /\ delivered \subseteq delivered'
        /\ \A f \in delivered : MarkerPath(f) \in fs' => MarkerPath(f) \in fs
    <3>1. CASE CreateMarker(d)
      <4>1. src[d].frag \in Frag /\ src[d].frag \notin delivered
        BY <1>1, <3>1 DEF CreateMarker, IInv, SourceOK
      <4>2. QED
        BY <3>1, <4>1, PathFacts DEF CreateMarker
    <3>2. CASE ~CreateMarker(d)
      BY <1>3, <3>2, PathFacts DEF Source, OpenEvent, WriteData, TransferFails, LoseReadout
    <3>3. QED
      BY <3>1, <3>2
  <2>3. HandValid'
    BY <1>2, <2>1 DEF HandValid
  <2>4. QED
    BY <1>1, <2>1, <2>2, <2>3, UniqueFrame
<1>4. CASE StopFlag \/ StopClose \/ StartFlag \/ StartOpen
  <2>1. UNCHANGED <<fs, delivered, bufferMap, output, nDif, lock, pc, cursor, hand>>
    BY <1>4 DEF StopFlag, StopClose, StartFlag, StartOpen
  <2>2. HandValid'
    BY <1>2, <2>1 DEF HandValid
  <2>3. QED
    BY <1>1, <2>1, <2>2, UniqueFrame
<1>5. CASE StartSpawn
  <2>1. UNCHANGED <<fs, delivered, bufferMap, output, nDif, lock, cursor, hand>>
    BY <1>5 DEF StartSpawn
  <2>2. run \in Threads => pc[run] \in {"none", "dead"}
    BY <1>5 DEF StartSpawn, UInv, IInv, ControlOK
  <2>3. \A t \in Threads : pc'[t] = pc[t] \/ (pc[t] \in {"none", "dead"} /\ pc'[t] = "loop")
    BY <1>1, <1>5, <2>2 DEF StartSpawn, TypeOK
  <2>4. HandValid'
    BY <1>2, <2>1, <2>3 DEF HandValid
  <2>5. QED
    BY <1>1, <2>1, <2>3, <2>4, UniqueFrame
<1>6. CASE StartClear \/ StartCrash
  <2>1. /\ bufferMap' = [g \in GTCs |-> <<>>] /\ UNCHANGED <<output, delivered>>
        /\ \A f : MarkerPath(f) \in fs' => MarkerPath(f) \in fs
    BY <1>6 DEF StartClear, StartCrash
  <2>2. HandValid'
    BY <1>2, <1>6 DEF StartClear, StartCrash, HandValid
  <2>3. QED
    BY <1>1, <2>1, <2>2, EmptiedUnique
<1>7. ASSUME NEW t \in Threads,
             \/ Loop(t) \/ ReadCheck(t) \/ Scan(t) \/ LockRead(t) \/ OpenFails(t)
             \/ ReadDone(t) \/ WriteCheck(t) \/ Skip(t) \/ ReadEvent(t)
             \/ UnlinkEvent(t) \/ LockWrite(t)
      PROVE  UInv'
  <2>1. /\ UNCHANGED <<bufferMap, output, nDif, delivered>>
        /\ \A f : MarkerPath(f) \in fs' => MarkerPath(f) \in fs
    BY <1>7 DEF Loop, ReadCheck, Scan, LockRead, OpenFails, ReadDone, WriteCheck, Skip,
       ReadEvent, UnlinkEvent, LockWrite
  <2>2. \A u \in Threads : lock = u /\ pc[u] = "writing" =>
            lock' = u /\ pc'[u] = "writing" /\ cursor'[u] = cursor[u]
    BY <1>1, <1>7, NoThreadFact DEF Loop, ReadCheck, Scan, LockRead, OpenFails, ReadDone,
       WriteCheck, Skip, ReadEvent, UnlinkEvent, LockWrite, Goto, TypeOK, LockOK, Critical
  <2>3. HandValid'
    BY <1>1, <1>2, <1>7 DEF Loop, ReadCheck, Scan, LockRead, OpenFails, ReadDone,
       WriteCheck, Skip, ReadEvent, UnlinkEvent, LockWrite, Goto, TypeOK, HandValid
  <2>4. QED
    BY <1>1, <2>1, <2>2, <2>3, UniqueFrame
<1>8. ASSUME NEW t \in Threads, UnlinkMarker(t) \/ WriteEvent(t) \/ EraseComplete(t)
      PROVE  UInv'
  BY <1>8, UnlinkMarkerUnique, WriteEventUnique, EraseCompleteUnique
<1>9. CASE UNCHANGED vars
  <2>1. UNCHANGED <<fs, delivered, bufferMap, output, nDif, lock, pc, cursor, hand>>
    BY <1>9 DEF vars
  <2>2. HandValid'
    BY <1>2, <2>1 DEF HandValid
  <2>3. QED
    BY <1>1, <2>1, <2>2, UniqueFrame
<1>10. QED
  BY <1>3, <1>4, <1>5, <1>6, <1>7, <1>8, <1>9 DEF Next, Control, Builder

LEMMA UniqueInitially == Init => UInv
<1> SUFFICES ASSUME Init PROVE UInv
  OBVIOUS
<1>1. \A g \in GTCs : bufferMap[g] = <<>> /\ Entry(g) = {}
  BY DEF Init, Entry
<1>2. InMap = {} /\ Written = {}
  BY <1>1 DEF InMap, Written, Init
<1>3. MapOnce
  BY <1>1, NothingOnce DEF MapOnce
<1>4. QED
  BY <1>2, <1>3, InitInv DEF UInv, OutputOnce, Consumed, ToErase, HandValid, Init

(* However many loops list the same marker, a fragment is packed in one    *)
(* entry, once, and written in one event, once.                            *)
THEOREM NeverTwice == Spec => []NoFragmentTwice
<1>1. UInv => NoFragmentTwice
  BY DEF UInv, MapOnce, OutputOnce, Once, ToErase, NoFragmentTwice
<1>2. QED
  BY <1>1, UniqueInitially, UniqueStep, PTL DEF Spec

-----------------------------------------------------------------------------
(* With one Start there is one loop, and nobody else consumes what it has  *)
(* listed.                                                                 *)
Listing == {"wantRead", "reading", "read", "unlinked"}
ListedOK == \A t \in Threads : pc[t] \in Listing => list[t] \subseteq Markers
CrashedOK == ctl = "crashed" => \A t \in Threads : pc[t] = "dead"

LInv == IInv /\ ListedOK /\ CrashedOK

LEMMA ListedStep == ASSUME MaxRun = 1, LInv, [Next]_vars PROVE LInv'
<1> USE DEF LInv
<1>1. IInv' /\ TypeOK
  BY StepInv DEF IInv
<1>2. \A t, u \in Threads : t = u
  BY DEF Threads, Runs
<1>3. ASSUME NEW d \in DIFs, Source(d) PROVE LInv'
  <2>1. Markers \subseteq Markers' /\ UNCHANGED <<pc, list, ctl>>
    BY <1>3 DEF Source, OpenEvent, WriteData, TransferFails, CreateMarker, LoseReadout, Markers
  <2>2. QED
    BY <1>1, <2>1 DEF ListedOK, CrashedOK
<1>4. CASE Control
  <2>1. Markers' = Markers /\ list' = list
    BY <1>4, PathFacts DEF Control, StopFlag, StopClose, StartClear, StartCrash, StartFlag,
       StartOpen, StartSpawn, Markers
  <2>2. \A t \in Threads : pc'[t] \in Listing => pc[t] \in Listing
    BY <1>1, <1>4 DEF Control, StopFlag, StopClose, StartClear, StartCrash, StartFlag,
       StartOpen, StartSpawn, Listing, TypeOK
  <2>3. CrashedOK'
    BY <1>4 DEF Control, StopFlag, StopClose, StartClear, StartCrash, StartFlag,
       StartOpen, StartSpawn, CrashedOK
  <2>4. QED
    BY <1>1, <2>1, <2>2, <2>3 DEF ListedOK
<1>5. ASSUME NEW t \in Threads, Builder(t) PROVE LInv'
  <2>1. pc[t] # "dead" /\ ctl' = ctl
    BY <1>5 DEF Builder, Loop, ReadCheck, Scan, LockRead, Skip, ReadEvent, OpenFails, UnlinkEvent,
       UnlinkMarker, ReadDone, WriteCheck, LockWrite, WriteEvent, EraseComplete, Goto
  <2>2. CrashedOK'
    BY <2>1 DEF CrashedOK
  <2>3. CASE Scan(t)
    BY <1>1, <1>2, <2>2, <2>3 DEF Scan, ListedOK, TypeOK, Markers
  <2>4. CASE UnlinkMarker(t)
    <3>1. Markers' = Markers \ {hand[t]} /\ list'[t] = list[t] \ {hand[t]}
      BY <1>1, <2>4, PathFacts DEF UnlinkMarker, Markers, TypeOK
    <3>2. list[t] \subseteq Markers
      BY <2>4 DEF UnlinkMarker, Goto, ListedOK, Listing
    <3>3. QED
      BY <1>1, <1>2, <2>2, <3>1, <3>2 DEF ListedOK
  <2>5. CASE ~Scan(t) /\ ~UnlinkMarker(t)
    <3>1. Markers' = Markers
      BY <1>5, <2>5, PathFacts DEF Builder, Loop, ReadCheck, LockRead, Skip, ReadEvent, OpenFails,
         UnlinkEvent, ReadDone, WriteCheck, LockWrite, WriteEvent, EraseComplete, Markers
    <3>2. list'[t] \subseteq list[t]
      BY <1>1, <1>5, <2>5 DEF Builder, Loop, ReadCheck, LockRead, Skip, ReadEvent, OpenFails,
         UnlinkEvent, ReadDone, WriteCheck, LockWrite, WriteEvent, EraseComplete, TypeOK
    <3>3. pc'[t] \in Listing => pc[t] \in Listing
      BY <1>1, <1>5, <2>5 DEF Builder, Loop, ReadCheck, LockRead, Skip, ReadEvent, OpenFails,
         UnlinkEvent, ReadDone, WriteCheck, LockWrite, WriteEvent, EraseComplete, Goto, Listing, TypeOK
    <3>4. QED
      BY <1>1, <1>2, <2>2, <3>1, <3>2, <3>3 DEF ListedOK
  <2>6. QED
    BY <2>3, <2>4, <2>5
<1>6. CASE UNCHANGED vars
  BY <1>1, <1>6 DEF vars, threadVars, shmVars, ctlVars, ListedOK, CrashedOK, Markers
<1>7. QED
  BY <1>3, <1>4, <1>5, <1>6 DEF Next

(* With one run "Cannot open shm file" never ends a builder loop, whatever *)
(* the sources do and whenever the run is stopped.                         *)
THEOREM OneLoopReads == ASSUME MaxRun = 1 PROVE Spec => []ListedIsPresent
<1>1. Init => LInv
  BY InitInv DEF LInv, Init, ListedOK, CrashedOK, Listing
<1>2. LInv /\ [Next]_vars => LInv'
  BY ListedStep
<1>3. LInv => ListedIsPresent
  BY DEF LInv, IInv, LockOK, HandOver, HandOK, ListedOK, CrashedOK, Listing, Critical,
     ListedIsPresent, Threads, Runs
<1>4. QED
  BY <1>1, <1>2, <1>3, PTL DEF Spec

-----------------------------------------------------------------------------
(* With one Start: the number of an event and the file it goes to.         *)
NumberOK ==
  /\ eventNumber = Len(output)
  /\ \A i \in 1..Len(output) : output[i].num = i - 1
  /\ run = 0 \/ ctl \in {"flagged", "opened"} => output = <<>>
ControlPhase ==
  /\ ctl \in {"flagged", "opened"} => ~stopped
  /\ ctl \in {"stopping", "cleared"} => stopped

NInv == IInv /\ NumberOK /\ ControlPhase

(* A loop that writes is one that a Start has spawned.                     *)
LEMMA OnlyLoop ==
  ASSUME MaxRun = 1, IInv, NEW t \in Threads, pc[t] \notin {"none", "dead"}
  PROVE  t = 1 /\ run = 1 /\ ctl \notin {"flagged", "opened"}
BY DEF Threads, Runs, IInv, ControlOK, TypeOK

LEMMA NumberStep == ASSUME MaxRun = 1, NInv, [Next]_vars PROVE NInv'
<1> USE DEF NInv
<1>1. IInv' /\ IInv /\ TypeOK
  BY StepInv DEF IInv
<1>2. ASSUME NEW t \in Threads, WriteEvent(t) PROVE NInv'
  <2>1. run = 1 /\ ctl \notin {"flagged", "opened"}
    BY <1>1, <1>2, OnlyLoop DEF WriteEvent
  <2>2. PICK e : /\ output' = Append(output, e) /\ e.num = eventNumber
                 /\ eventNumber' = eventNumber + 1
    BY <1>2 DEF WriteEvent
  <2>3. /\ Len(output) \in Nat /\ Len(output') = Len(output) + 1
        /\ output'[Len(output) + 1] = e
        /\ \A i \in 1..Len(output) : output'[i] = output[i]
    BY <1>1, <2>2 DEF TypeOK
  <2>4. \A i \in 1..Len(output') : output'[i].num = i - 1
    BY <2>2, <2>3 DEF NumberOK
  <2>5. UNCHANGED <<run, ctl, stopped>>
    BY <1>2 DEF WriteEvent
  <2>6. QED
    BY <1>1, <2>1, <2>2, <2>3, <2>4, <2>5 DEF NumberOK, ControlPhase
<1>3. CASE Control
  <2>1. output' = output
    BY <1>3 DEF Control, StopFlag, StopClose, StartClear, StartCrash, StartFlag,
       StartOpen, StartSpawn
  <2>2. CASE StartSpawn
    BY <1>1, <2>1, <2>2 DEF StartSpawn, NumberOK, ControlPhase, ControlOK, IInv, Runs
  <2>3. CASE StartFlag
    <3>1. run = 0
      BY <1>1, <2>3 DEF StartFlag, IInv, ControlOK, TypeOK
    <3>2. QED
      BY <1>1, <2>1, <2>3, <3>1 DEF StartFlag, NumberOK, ControlPhase
  <2>4. CASE StopFlag \/ StopClose \/ StartClear \/ StartCrash \/ StartOpen
    BY <1>1, <2>1, <2>4 DEF StopFlag, StopClose, StartClear, StartCrash, StartOpen,
       NumberOK, ControlPhase
  <2>5. QED
    BY <1>3, <2>2, <2>3, <2>4 DEF Control
<1>4. CASE UNCHANGED <<output, eventNumber, run, ctl, stopped>>
  BY <1>1, <1>4 DEF NumberOK, ControlPhase
<1>5. ASSUME NEW t \in Threads, Builder(t), ~WriteEvent(t)
      PROVE  UNCHANGED <<output, eventNumber, run, ctl, stopped>>
  BY <1>5 DEF Builder, Loop, ReadCheck, Scan, LockRead, Skip, ReadEvent, OpenFails,
     UnlinkEvent, UnlinkMarker, ReadDone, WriteCheck, LockWrite, EraseComplete
<1>6. ASSUME NEW d \in DIFs, Source(d)
      PROVE  UNCHANGED <<output, eventNumber, run, ctl, stopped>>
  BY <1>6 DEF Source, OpenEvent, WriteData, TransferFails, CreateMarker, LoseReadout
<1>7. QED
  BY <1>2, <1>3, <1>4, <1>5, <1>6 DEF Next, vars

LEMMA NumberInitially == Init => NInv
  BY InitInv DEF Init, NInv, NumberOK, ControlPhase

(* The writer's file is open while a loop is past a test of the flag, if   *)
(* the sleep of Stop outlasts it.                                          *)
Tests == {"none", "loop", "readCheck", "writeCheck", "dead"}
FileOK ==
  /\ \A i \in 1..Len(output) : output[i].file = 1
  /\ Save /\ ~stopped /\ ctl # "flagged" => file = 1
  /\ Save => \A t \in Threads : pc[t] \notin Tests => file = 1

LEMMA FileStep == ASSUME MaxRun = 1, SleepCovers, NInv, FileOK, [Next]_vars PROVE FileOK'
<1>1. IInv /\ TypeOK /\ NInv'
  BY NumberStep DEF NInv, IInv
<1> DEFINE Kept == /\ output' = output /\ file' = file
                   /\ ~stopped' => ~stopped /\ (ctl = "flagged" => ctl' = "flagged")
                   /\ \A t \in Threads : pc'[t] \notin Tests => pc[t] \notin Tests
<1>2. Kept => FileOK'
  BY DEF FileOK
<1>3. ASSUME NEW d \in DIFs, Source(d) PROVE Kept
  BY <1>3 DEF Source, OpenEvent, WriteData, TransferFails, CreateMarker, LoseReadout
<1>4. CASE UNCHANGED vars
  <2>1. Kept
    BY <1>4 DEF vars
  <2>2. QED
    BY <1>2, <2>1
<1>5. CASE Control
  <2>1. CASE StopFlag \/ StartClear \/ StartCrash
    <3>1. Kept
      BY <2>1 DEF StopFlag, StartClear, StartCrash, Tests
    <3>2. QED
      BY <1>2, <3>1
  <2>2. CASE StartSpawn
    <3>1. ctl = "opened" /\ ~stopped /\ file' = file /\ output' = output
      BY <2>2 DEF StartSpawn, NInv, ControlPhase
    <3>2. \A t \in Threads : pc'[t] \notin Tests => pc[t] \notin Tests
      BY <1>1, <2>2 DEF StartSpawn, TypeOK, Tests
    <3>3. QED
      BY <3>1, <3>2 DEF FileOK
  <2>3. CASE StopClose
    <3>1. \A t \in Threads : pc'[t] \in Tests
      BY <2>3 DEF StopClose, Settled, Tests
    <3>2. stopped' /\ output' = output
      BY <2>3 DEF StopClose, NInv, ControlPhase
    <3>3. QED
      BY <3>1, <3>2 DEF FileOK
  <2>4. CASE StartFlag \/ StartOpen
    <3>1. output' = output /\ pc' = pc
      BY <2>4 DEF StartFlag, StartOpen
    <3>2. \A t \in Threads : pc[t] \in Tests
      BY <1>1, <2>4, OnlyLoop DEF StartFlag, StartOpen, IInv, ControlOK, TypeOK, Tests
    <3>3. StartOpen => run = 1
      BY <1>1 DEF StartOpen, NInv, ControlPhase, IInv, ControlOK, Runs
    <3>4. QED
      BY <2>4, <3>1, <3>2, <3>3 DEF StartFlag, StartOpen, FileOK
  <2>5. QED
    BY <1>5, <2>1, <2>2, <2>3, <2>4 DEF Control
<1>6. ASSUME NEW t \in Threads, Builder(t) PROVE FileOK'
  <2>1. pc[t] \notin {"none", "dead"} /\ UNCHANGED <<file, stopped, ctl>>
    BY <1>6 DEF Builder, Loop, ReadCheck, Scan, LockRead, Skip, ReadEvent, OpenFails, UnlinkEvent,
       UnlinkMarker, ReadDone, WriteCheck, LockWrite, WriteEvent, EraseComplete, Goto
  <2>2. ctl \notin {"flagged", "opened"}
    BY <1>1, <2>1, OnlyLoop
  <2>3. \A u \in Threads : pc'[u] \notin Tests => pc[u] \notin Tests \/ ~stopped
    BY <1>1, <1>6 DEF Builder, Loop, ReadCheck, Scan, LockRead, Skip, ReadEvent, OpenFails,
       UnlinkEvent, UnlinkMarker, ReadDone, WriteCheck, LockWrite, WriteEvent,
       EraseComplete, Goto, TypeOK, Tests
  <2>4. Save => \A u \in Threads : pc'[u] \notin Tests => file' = 1
    BY <2>1, <2>2, <2>3 DEF FileOK
  <2>5. \A i \in 1..Len(output') : output'[i].file = 1
    <3>1. CASE WriteEvent(t)
      <4>1. PICK e : output' = Append(output, e) /\ e.file = file
        BY <3>1 DEF WriteEvent
      <4>2. /\ Len(output) \in Nat /\ Len(output') = Len(output) + 1
            /\ output'[Len(output) + 1] = e
            /\ \A i \in 1..Len(output) : output'[i] = output[i]
        BY <1>1, <4>1 DEF TypeOK
      <4>3. file = 1
        BY <3>1 DEF WriteEvent, FileOK, Tests
      <4>4. QED
        BY <4>1, <4>2, <4>3 DEF FileOK
    <3>2. CASE ~WriteEvent(t)
      <4>1. output' = output
        BY <1>6, <3>2 DEF Builder, Loop, ReadCheck, Scan, LockRead, Skip, ReadEvent,
           OpenFails, UnlinkEvent, UnlinkMarker, ReadDone, WriteCheck, LockWrite,
           EraseComplete
      <4>2. QED
        BY <4>1 DEF FileOK
    <3>3. QED
      BY <3>1, <3>2
  <2>6. QED
    BY <2>1, <2>4, <2>5 DEF FileOK
<1>7. QED
  BY <1>2, <1>3, <1>4, <1>5, <1>6 DEF Next

(* In one run, with a Stop that waits long enough, every event goes to the *)
(* run's file, numbered from zero without a gap.                           *)
THEOREM EventsInFile ==
  ASSUME MaxRun = 1, SleepCovers PROVE Spec => []FileComplete
<1>1. Init => FileOK
  BY DEF Init, FileOK, Tests
<1>2. NInv /\ FileOK /\ [Next]_vars => NInv' /\ FileOK'
  BY NumberStep, FileStep
<1>3. NInv /\ FileOK => FileComplete
  BY DEF NInv, NumberOK, FileOK, FileComplete
<1>4. QED
  BY <1>1, <1>2, <1>3, NumberInitially, PTL DEF Spec

-----------------------------------------------------------------------------
(* The promise of EventBuilder, in one run.                                *)
Events == [i \in 1..Len(output) |-> EventOf(output[i])]

LEMMA EventsFacts ==
  ASSUME TypeOK
  PROVE  /\ Len(Events) = Len(output)
         /\ output = <<>> => Events = <<>>
         /\ \A i \in 1..Len(output) :
              Events[i].frags = {output[i].frags[j] : j \in 1..Len(output[i].frags)}
<1>1. Len(output) \in Nat
  BY DEF TypeOK
<1>2. Len(Events) = Len(output)
  BY <1>1 DEF Events
<1>3. output = <<>> => Events = <<>>
  BY <1>1 DEF Events
<1>4. QED
  BY <1>2, <1>3 DEF Events, EventOf

LEMMA UsedIsWritten == ASSUME TypeOK PROVE Promise!Used = Written
<1>1. Promise!Used = UNION {Events[i].frags : i \in 1..Len(Events)}
  BY DEF Promise!Used, Events
<1>2. \A i \in 1..Len(output) :
        Events[i].frags = {output[i].frags[j] : j \in 1..Len(output[i].frags)}
  BY EventsFacts
<1>3. QED
  BY <1>1, <1>2, EventsFacts DEF Written

(* What a loop hands to the writer is a set of fragments nobody has used,  *)
(* one of each of nDif DIFs, all of the trigger of the entry.              *)
LEMMA WriteIsBuild ==
  ASSUME MaxRun = 1, UInv, NInv, NEW t \in Threads, WriteEvent(t)
  PROVE  Promise!Build
<1>1. TypeOK /\ Len(output) \in Nat
  BY DEF UInv, IInv, TypeOK
<1>2. PICK g \in ToWrite(t) :
        output' = Append(output, [file |-> file, num |-> eventNumber,
                                  gtc |-> g, frags |-> bufferMap[g]])
  BY DEF WriteEvent
<1>3. g \in GTCs /\ Complete(g) /\ g > cursor[t]
  BY <1>2 DEF ToWrite
<1>4. /\ Cardinality(Entry(g)) = nDif
      /\ \A f \in Entry(g) : f.gtc = g /\ f.valid /\ f \in Frag /\ f \in delivered
  BY <1>1, <1>3, EntryType, EntryInMap DEF UInv, MapOnce, Complete, Consumed
<1>5. Entry(g) # {}
  <2>1. bufferMap[g] \in Seq(Frag) /\ bufferMap[g] # <<>>
    BY <1>1, <1>3 DEF TypeOK, Complete
  <2>2. Len(bufferMap[g]) \in Nat /\ 1 \in 1..Len(bufferMap[g])
    BY <2>1
  <2>3. QED
    BY <2>2 DEF Entry
<1>6. Entry(g) \cap Written = {}
  <2>1. lock = t
    BY DEF UInv, IInv, LockOK, Critical, WriteEvent
  <2>2. ASSUME NEW f \in Entry(g), f \in Written PROVE FALSE
    <3>1. g <= cursor[t]
      BY <1>3, <1>4, <2>1, <2>2, EntryInMap DEF UInv, ToErase
    <3>2. g \in Nat /\ cursor[t] \in Nat
      BY <1>1, <1>3, ShmAssumption DEF GTCs, TypeOK
    <3>3. QED
      BY <1>3, <3>1, <3>2
  <2>3. QED
    BY <2>2
<1>7. Promise!OneTrigger(Entry(g))
  <2>1. \A f \in Entry(g) : f.run = 1 /\ f = [run |-> 1, gtc |-> g, dif |-> f.dif, valid |-> TRUE]
    BY <1>4 DEF Frag, Runs
  <2>2. QED
    BY <1>4, <2>1 DEF Promise!OneTrigger
<1>8. Events' = Append(Events, [num |-> Len(Events), frags |-> Entry(g)])
  <2> DEFINE e == [file |-> file, num |-> eventNumber, gtc |-> g, frags |-> bufferMap[g]]
  <2>1. /\ Len(output') = Len(output) + 1 /\ output'[Len(output) + 1] = e
        /\ \A i \in 1..Len(output) : output'[i] = output[i]
    BY <1>1, <1>2 DEF TypeOK
  <2>2. EventOf(e) = [num |-> Len(Events), frags |-> Entry(g)]
    BY <1>1, EventsFacts DEF EventOf, Entry, NInv, NumberOK
  <2>3. Events' = [i \in 1..Len(output) + 1 |-> EventOf(output'[i])]
    BY <2>1 DEF Events, EventOf
  <2> HIDE DEF e
  <2>4. \A i \in 1..Len(output) + 1 :
          EventOf(output'[i]) = IF i <= Len(output) THEN EventOf(output[i]) ELSE EventOf(e)
    BY <1>1, <2>1
  <2>5. QED
    BY <1>1, <2>2, <2>3, <2>4 DEF Events
<1>9. Entry(g) \in SUBSET (delivered \ Promise!Used)
  BY <1>1, <1>4, <1>6, UsedIsWritten
<1>10. UNCHANGED <<delivered, nDif>>
  BY DEF WriteEvent
<1>11. \E S \in SUBSET (delivered \ Promise!Used) :
         /\ S # {} /\ Cardinality(S) = nDif /\ Promise!OneTrigger(S)
         /\ Events' = Append(Events, [num |-> Len(Events), frags |-> S])
  BY <1>4, <1>5, <1>7, <1>8, <1>9
<1>12. \A S : Promise!Cardinality(S) = Cardinality(S)
  BY Zenon DEF Promise!Cardinality, Cardinality, Promise!IsFiniteSet, IsFiniteSet
<1>13. QED
  BY <1>10, <1>11, <1>12, Zenon DEF Promise!Build, Events

LEMMA PromiseStep ==
  ASSUME MaxRun = 1, UInv, NInv, [Next]_vars
  PROVE  Promise!Next \/ UNCHANGED <<delivered, Events, nDif>>
<1>1. TypeOK
  BY DEF UInv, IInv
<1>2. output' = output => Events' = Events
  BY DEF Events, EventOf
<1>3. ASSUME NEW d \in DIFs, CreateMarker(d) PROVE Promise!Offer
  <2>1. src[d].frag \in Frag \ delivered
    BY <1>3 DEF CreateMarker, UInv, IInv, SourceOK
  <2>2. UNCHANGED <<Events, nDif>>
    BY <1>2, <1>3 DEF CreateMarker
  <2>3. QED
    BY <1>3, <2>1, <2>2 DEF CreateMarker, Promise!Offer, Events
<1>4. ASSUME NEW d \in DIFs, Source(d), ~CreateMarker(d)
      PROVE  UNCHANGED <<delivered, Events, nDif>>
  BY <1>2, <1>4 DEF Source, OpenEvent, WriteData, TransferFails, LoseReadout
<1>5. CASE StartClear
  <2>1. run = 0 /\ output = <<>>
    BY <1>1, <1>5 DEF StartClear, NInv, NumberOK, TypeOK
  <2>2. Events = <<>> /\ Events' = Events
    BY <1>1, <1>2, <1>5, <2>1, EventsFacts DEF StartClear
  <2>3. nDif' \in Nat /\ delivered' = delivered
    BY <1>5, ShmAssumption DEF StartClear
  <2>4. Promise!Agree
    BY <2>2, <2>3 DEF Promise!Agree, Events
  <2>5. QED
    BY <2>4 DEF Promise!Next
<1>6. ASSUME Control, ~StartClear PROVE UNCHANGED <<delivered, Events, nDif>>
  BY <1>2, <1>6 DEF Control, StopFlag, StopClose, StartCrash, StartFlag, StartOpen, StartSpawn
<1>7. ASSUME NEW t \in Threads, Builder(t), ~WriteEvent(t)
      PROVE  UNCHANGED <<delivered, Events, nDif>>
  BY <1>2, <1>7 DEF Builder, Loop, ReadCheck, Scan, LockRead, Skip, ReadEvent, OpenFails,
     UnlinkEvent, UnlinkMarker, ReadDone, WriteCheck, LockWrite, EraseComplete
<1>8. CASE UNCHANGED vars
  BY <1>2, <1>8 DEF vars
<1>9. QED
  BY <1>3, <1>4, <1>5, <1>6, <1>7, <1>8, WriteIsBuild DEF Next, Promise!Next

(* In one run the event builder on shared memory implements the abstract   *)
(* one: it builds events of fragments its sources have marked, of one      *)
(* trigger, one of each of the DIFs it expects, and uses none twice.       *)
THEOREM ImplementsPromise == ASSUME MaxRun = 1 PROVE Spec => KeepsPromise
<1>1. Init => Promise!Init
  <2> SUFFICES ASSUME Init PROVE Promise!Init
    OBVIOUS
  <2>1. Events = <<>>
    BY InitInv, EventsFacts DEF Init, IInv
  <2>2. QED
    BY <2>1 DEF Init, Promise!Init, Events
<1>2. UInv /\ NInv /\ [Next]_vars =>
        [Promise!Next]_<<delivered, Events, nDif>>
  BY PromiseStep
<1>3. UInv /\ NInv /\ [Next]_vars =>
        [Promise!Next]_<<delivered, [i \in 1..Len(output) |-> EventOf(output[i])], nDif>>
  BY <1>2 DEF Events
<1>4. NInv /\ [Next]_vars => NInv'
  BY NumberStep
<1>5. QED
  BY <1>1, <1>3, <1>4, UniqueInitially, UniqueStep, NumberInitially, PTL
     DEF Spec, KeepsPromise, Promise!Spec
=============================================================================
