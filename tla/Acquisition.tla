---------------------------- MODULE Acquisition ----------------------------
(* What a run control promises of the servers that acquire data, whatever   *)
(* it commands them with: they begin to run only while a START is in        *)
(* progress, none runs after a STOP until the next START, and in an orderly  *)
(* run, one without a fault since the servers were configured, the clock     *)
(* card runs only between the last reader's start and the first one's stop.  *)
EXTENDS FiniteSets

CONSTANTS Servers,   \* the servers that acquire
          Card       \* the clock card, one of them

VARIABLES phase,     \* a START or a STOP is in progress, or neither
          due,       \* a START was given since the last STOP that was completed
          members,   \* the servers the promise is about
          running,   \* the servers that acquire now
          orderly    \* nothing has gone wrong since the last configuration

vars == <<phase, due, members, running, orderly>>

Readers == members \ {Card}

Init ==
    /\ phase = "rest" /\ ~due /\ ~orderly
    /\ members \subseteq Servers
    /\ running = {}

(* The servers have been configured, without a fault on the way.            *)
Configured ==
    /\ phase = "rest"
    /\ running \cap members = {}
    /\ orderly' = TRUE
    /\ UNCHANGED <<phase, due, members, running>>

Start ==
    /\ phase = "rest"
    /\ orderly => running \cap members = {}
    /\ phase' = "starting" /\ due' = TRUE
    /\ UNCHANGED <<members, running, orderly>>

Begin(s) ==
    /\ phase = "starting"
    /\ s \notin running
    /\ orderly /\ s = Card => Readers \subseteq running
    /\ running' = running \cup {s}
    /\ UNCHANGED <<phase, due, members, orderly>>

Started ==
    /\ phase = "starting"
    /\ orderly => members \subseteq running
    /\ phase' = "rest"
    /\ UNCHANGED <<due, members, running, orderly>>

Stop ==
    /\ phase = "rest"
    /\ orderly => members \subseteq running
    /\ phase' = "stopping"
    /\ UNCHANGED <<due, members, running, orderly>>

End(s) ==
    /\ phase = "stopping"
    /\ s \in running
    /\ orderly /\ s # Card => Card \notin running
    /\ running' = running \ {s}
    /\ UNCHANGED <<phase, due, members, orderly>>

Stopped ==
    /\ phase = "stopping"
    /\ running = {}
    /\ phase' = "rest" /\ due' = FALSE
    /\ UNCHANGED <<members, running, orderly>>

(* Between two runs the operator may dissolve the configuration, and with it *)
(* the promise to some of the servers.                                      *)
Dissolve ==
    /\ phase = "rest"
    /\ orderly => running \cap members = {}
    /\ members' \subseteq members
    /\ orderly' \in {orderly, FALSE}
    /\ UNCHANGED <<phase, due, running>>

(* A fault: servers die, or the command in progress is given up.  The        *)
(* promise that is left is that what runs will be stopped.                   *)
Fault ==
    /\ orderly' = FALSE
    /\ running' \subseteq running
    /\ members' \subseteq Servers
    /\ \/ UNCHANGED <<phase, due>>
       \/ /\ phase' = "rest" /\ UNCHANGED due
          /\ due \/ running' = {}

(* A server outside the promise may die at any time.                        *)
Drop(s) ==
    /\ s \in running \ members
    /\ running' = running \ {s}
    /\ UNCHANGED <<phase, due, members, orderly>>

Next ==
    \/ Configured \/ Start \/ Started \/ Stop \/ Stopped \/ Dissolve \/ Fault
    \/ \E s \in Servers : Begin(s) \/ End(s) \/ Drop(s)

Spec == Init /\ [][Next]_vars

(* What the promise comes to.  Whatever went wrong in between, nothing       *)
(* acquires once a STOP is complete, until the next START.                  *)
QuietUntilStart == running # {} => due

(* In an orderly run, no trigger before the last reader, in between or after *)
(* the first that stops: a clock card that runs has all the readers with it. *)
CardAmongReaders ==
    orderly /\ Card \in members \cap running => Readers \subseteq running
=============================================================================
