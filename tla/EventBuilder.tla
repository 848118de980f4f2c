---------------------------- MODULE EventBuilder ----------------------------
(***************************************************************************)
(* What an event builder promises, whatever carries the fragments: it only *)
(* puts together fragments that were offered to it, of one trigger, one of *)
(* each of `size' different DIFs; it uses no fragment twice and numbers    *)
(* its events from zero.                                                   *)
(***************************************************************************)
EXTENDS Naturals, Sequences, FiniteSets

CONSTANT Frag   \* records with at least the fields run, gtc, dif and valid

VARIABLES
  offered,      \* fragments handed to the builder
  events,       \* the events it has built, in order
  size          \* fragments that make an event

Init == offered = {} /\ events = <<>> /\ size = 0

(* The size is agreed before the first event.                              *)
Agree ==
  /\ events = <<>>
  /\ size' \in Nat
  /\ UNCHANGED <<offered, events>>

Offer ==
  /\ \E f \in Frag \ offered : offered' = offered \cup {f}
  /\ UNCHANGED <<events, size>>

Used == UNION {events[i].frags : i \in 1..Len(events)}

OneTrigger(S) ==
  /\ \A f \in S : f.valid
  /\ \A f, g \in S : f.run = g.run /\ f.gtc = g.gtc
  /\ \A f, g \in S : f # g => f.dif # g.dif

Build ==
  /\ \E S \in SUBSET (offered \ Used) :
       /\ S # {} /\ Cardinality(S) = size /\ OneTrigger(S)
       /\ events' = Append(events, [num |-> Len(events), frags |-> S])
  /\ UNCHANGED <<offered, size>>

Next == Agree \/ Offer \/ Build

Spec == Init /\ [][Next]_<<offered, events, size>>
=============================================================================
