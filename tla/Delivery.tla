------------------------------ MODULE Delivery ------------------------------
(***************************************************************************)
(* What the agent and the hub together promise for each sample that has    *)
(* been written to the queue: the hub records it at most once and keeps    *)
(* it, or it is given up for good.  Nothing else happens to a sample.      *)
(***************************************************************************)
CONSTANT Sample

VARIABLES
    held,       \* written, neither recorded nor given up
    recorded,   \* stored by the hub
    lost        \* given up

vars == <<held, recorded, lost>>

Init == held = {} /\ recorded = {} /\ lost = {}

Queue(s) ==
    /\ s \notin held \cup recorded \cup lost
    /\ held' = held \cup {s}
    /\ UNCHANGED <<recorded, lost>>

Record(s) ==
    /\ s \in held
    /\ held' = held \ {s}
    /\ recorded' = recorded \cup {s}
    /\ UNCHANGED lost

GiveUp(s) ==
    /\ s \in held
    /\ held' = held \ {s}
    /\ lost' = lost \cup {s}
    /\ UNCHANGED recorded

Next == \E s \in Sample : Queue(s) \/ Record(s) \/ GiveUp(s)

Spec == Init /\ [][Next]_vars
=============================================================================
