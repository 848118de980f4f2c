------------------------- MODULE ShmProxyRefinement -------------------------
(* The event builder on shared memory keeps, in one run, the promise of    *)
(* EventBuilder: what the sources have marked is offered, what it hands to *)
(* the writer is built.                                                    *)
EXTENDS ShmProxy

EventOf(e) == [num |-> e.num, frags |-> {e.frags[j] : j \in 1..Len(e.frags)}]

Promise == INSTANCE EventBuilder WITH
  offered <- delivered,
  events  <- [i \in 1..Len(output) |-> EventOf(output[i])],
  size    <- nDif

(* Every step of the sources, the run control and the loop of a run is a   *)
(* step the abstract builder allows, or changes nothing it can see.        *)
KeepsPromise == Promise!Spec
=============================================================================
