-------------------------------- MODULE Tab --------------------------------
(***************************************************************************)
(* One tab of the web client: the page App shows, and the requests its     *)
(* panels have on their way.  A panel asks when it is mounted, when what   *)
(* it asks for changes, and on timers; answers come in any order.  An      *)
(* effect that is cleaned up no longer listens to what it asked for.       *)
(*                                                                         *)
(* What the hub would answer is known by a version that grows with time.   *)
(* Effects run in the same step as the change they follow: React flushes   *)
(* them before the next event of the user.                                 *)
(***************************************************************************)
EXTENDS Integers, FiniteSets

CONSTANTS
    Slot,        \* bound: requests on their way
    MaxVersion,  \* bound: times the hub's answers change
    None

ASSUME TabAssumption == MaxVersion \in Nat /\ None \notin Int

VARIABLES
    page,     \* App
    version,  \* of what the hub would answer, and the time
    flight    \* requests on their way

tab == <<page, version, flight>>

-----------------------------------------------------------------------------
Version == 0 .. MaxVersion
Part == {"all", "history", "events"}

\* What was asked for, the parts not yet answered, and what the others brought.
Asked(panel, for, parts) ==
    [panel |-> panel, for |-> for, failed |-> FALSE,
     left |-> parts, got |-> [p \in Part |-> None]]

Free == [panel |-> "none"]

\* A GET that is on its way although no one listens: active is false.
Late == [panel |-> "late"]

Of(panel) == {s \in Slot : flight[s].panel = panel}
Settled(s) == flight[s].failed \/ flight[s].left = {}

\* Fault: nothing is cleaned up.
Cleaned_never(panel) == flight

\* The cleanup of the effect of a panel.
Cleaned(panel) == [s \in Slot |-> IF s \in Of(panel) THEN Late ELSE flight[s]]

\* A request goes out on a free slot.
Ask(before, s, panel, for, parts) ==
    /\ flight[s] = Free
    /\ flight' = [before EXCEPT ![s] = Asked(panel, for, parts)]

Leave(s) == flight' = [flight EXCEPT ![s] = Free]

-----------------------------------------------------------------------------
\* Samples are recorded, time passes.
Pass ==
    /\ version < MaxVersion
    /\ version' = version + 1
    /\ UNCHANGED <<page, flight>>

\* A GET is answered with what there is now.
Read(s, p) ==
    /\ flight[s].panel \in {"trend", "stats", "card"}
    /\ ~ flight[s].failed /\ p \in flight[s].left
    /\ flight' = [flight EXCEPT ![s].left = @ \ {p}, ![s].got[p] = version]
    /\ UNCHANGED <<page, version>>

\* The network fails, or the hub; with Promise.all the first failure counts.
Fail(s) ==
    /\ flight[s].panel \notin {"none", "late"} /\ ~ Settled(s)
    /\ flight' = [flight EXCEPT ![s].failed = TRUE]
    /\ UNCHANGED <<page, version>>

Ignored(s) ==
    /\ flight[s] = Late
    /\ Leave(s)
    /\ UNCHANGED <<page, version>>
=============================================================================
