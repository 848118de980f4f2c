------------------------------ MODULE DifHost ------------------------------
(* What the server of a host of DIF cards promises a run control: its table *)
(* of transitions and, behind it, that each open card of a run has a reader *)
(* of its own, that a reader calls its card only within a run and never     *)
(* after the card is closed, and that a stopped host calls no card and a    *)
(* destroyed one has neither cards nor readers.                             *)
EXTENDS ServerTables

CONSTANT Cards

VARIABLES state,    \* the state of the server's state machine
          busy,     \* the command in progress
          cards,    \* the cards that are open
          serving,  \* the cards that have a reader
          calling,  \* the cards whose reader is inside a call
          polled    \* the cards whose reader is to call

vars == <<state, busy, cards, serving, calling, polled>>

Init ==
    /\ state = "CREATED" /\ busy = "none"
    /\ cards = {} /\ serving = {} /\ calling = {} /\ polled = {}

(* A command that the table allows, or a setting between two of them.       *)
Take(op) ==
    /\ busy = "none" /\ op # "SCAN"
    /\ op = "SET" \/ \E x \in DifTable : x[1] = op /\ x[2] = state
    /\ busy' = op
    /\ UNCHANGED <<state, cards, serving, calling, polled>>

(* The map of the cards is made anew: nobody may hold a card of the old one. *)
Scan ==
    /\ busy = "none"
    /\ <<"SCAN", state, "SCANNED">> \in DifTable /\ state' = "SCANNED"
    /\ serving = {}
    /\ cards' = {}
    /\ polled' \subseteq Cards
    /\ UNCHANGED <<busy, serving, calling>>

Open(d) ==
    /\ busy = "INITIALISE" /\ serving = {}
    /\ cards' \in {cards \cup {d}, cards \ {d}}
    /\ UNCHANGED <<state, busy, serving, calling, polled>>

(* START gives a card a reader, and then, if it starts, something to read.  *)
Serve(d) ==
    /\ busy = "START"
    /\ d \notin serving
    /\ serving' = serving \cup {d}
    /\ UNCHANGED <<state, busy, cards, calling, polled>>

Enable(d) ==
    /\ busy = "START"
    /\ d \in cards \cap serving
    /\ polled' = polled \cup {d}
    /\ UNCHANGED <<state, busy, cards, serving, calling>>

Call(d) ==
    /\ state = "RUNNING" \/ busy = "START"
    /\ d \in (cards \cap serving \cap polled) \ calling
    /\ calling' = calling \cup {d}
    /\ UNCHANGED <<state, busy, cards, serving, polled>>

Return(d) ==
    /\ d \in calling
    /\ calling' = calling \ {d}
    /\ UNCHANGED <<state, busy, cards, serving, polled>>

(* The reader keeps the card, and the call it is in, beyond STOP.           *)
Disable(d) ==
    /\ busy = "STOP"
    /\ polled' = polled \ {d}
    /\ UNCHANGED <<state, busy, cards, serving, calling>>

Leave(d) ==
    /\ busy = "DESTROY" \/ d \notin cards
    /\ d \in serving \ calling
    /\ serving' = serving \ {d}
    /\ UNCHANGED <<state, busy, cards, calling, polled>>

Close(d) ==
    /\ busy = "DESTROY"
    /\ serving = {}
    /\ cards' = cards \ {d}
    /\ UNCHANGED <<state, busy, serving, calling, polled>>

Finish ==
    /\ \/ busy = "SET" /\ state' = state
       \/ <<busy, state, state'>> \in DifTable
    /\ busy = "START" => cards \subseteq serving
    /\ busy = "STOP" => polled = {}
    /\ busy = "DESTROY" => cards = {} /\ serving = {}
    /\ busy' = "none"
    /\ UNCHANGED <<cards, serving, calling, polled>>

Next ==
    \/ \E op \in {x[1] : x \in DifTable} \cup {"SET"} : Take(op)
    \/ Scan \/ Finish
    \/ \E d \in Cards :
         \/ Open(d) \/ Serve(d) \/ Enable(d) \/ Call(d) \/ Return(d)
         \/ Disable(d) \/ Leave(d) \/ Close(d)

Spec == Init /\ [][Next]_vars

(* What the contract comes to.  A card in a call is open and has a reader:   *)
(* nothing closes it, or drops its reader, under the call.                  *)
CallsAreSafe == calling \subseteq cards \cap serving

(* A host that is back where it began holds no card and no reader, so that   *)
(* a reader of an earlier run never meets the cards of the next one.        *)
HoldsNothing == state = "CREATED" => cards = {} /\ serving = {}
=============================================================================
