----------------------------- MODULE GPUDetail -----------------------------
(***************************************************************************)
(* The dialog of a card (features/gpu/GPUDetail.tsx).  History and events  *)
(* are asked for together when the dialog opens, when another range is     *)
(* chosen, and with every new sample of the node; what is shown stays      *)
(* until both are there.                                                   *)
(***************************************************************************)
EXTENDS Tab

CONSTANT Hours    \* the ranges

ASSUME DetailAssumption == Hours # {}

VARIABLE card

\* first: the range of a dialog just opened.
Day == CHOOSE h \in Hours : TRUE

Closed == [open |-> FALSE, hours |-> None, history |-> None, events |-> None,
           range |-> None, error |-> FALSE]

AskBoth(before, s, hours) == Ask(before, s, "card", hours, {"history", "events"})

\* A card of the list is chosen.
CardOpen(s) ==
    /\ page = "overview" /\ ~ card.open
    /\ AskBoth(flight, s, Day)
    /\ card' = [Closed EXCEPT !.open = TRUE, !.hours = Day]
    /\ UNCHANGED <<page, version>>

\* The dialog is closed, or its card is not in the list any more.
CardClose ==
    /\ card.open
    /\ flight' = Cleaned("card")
    /\ card' = Closed
    /\ UNCHANGED <<page, version>>

ChooseHours(s, h) ==
    /\ card.open /\ h # card.hours
    /\ AskBoth(Cleaned("card"), s, h)
    /\ card' = [card EXCEPT !.hours = h]
    /\ UNCHANGED <<page, version>>

\* The node has a new sample_at.
Sampled(s) ==
    /\ card.open
    /\ AskBoth(Cleaned("card"), s, card.hours)
    /\ UNCHANGED <<page, version, card>>

CardAnswered(s) ==
    /\ s \in Of("card") /\ Settled(s)
    /\ Leave(s)
    /\ card' = IF flight[s].failed
                 THEN [card EXCEPT !.error = TRUE]
                 ELSE [card EXCEPT !.history = flight[s].got["history"], !.error = FALSE,
                                   !.events = flight[s].got["events"], !.range = flight[s].for]
    /\ UNCHANGED <<page, version>>
=============================================================================
