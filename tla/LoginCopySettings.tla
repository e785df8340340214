------------------------- MODULE LoginCopySettings -------------------------
(***************************************************************************)
(* The text of the login page as an administrator edits it                 *)
(* (features/settings/LoginCopySettings.tsx): loaded when the panel        *)
(* appears, edited at any time, also while it is saved.                    *)
(***************************************************************************)
EXTENDS Tab

CONSTANT Texts

ASSUME CopyAssumption == None \notin Texts

VARIABLES
    stored,   \* the text the hub has
    copy,     \* LoginCopySettings: copy, saved, busy, error
    edit      \* history: the text the hub took from this visit, and whether a save was typed over

NoCopy == [text |-> None, saved |-> FALSE, busy |-> FALSE, error |-> FALSE]
NoEdit == [taken |-> None, over |-> FALSE]

\* The panel ends: what it saves is saved, but nobody hears of it.
CopyLeft(before) ==
    [s \in Slot |-> IF s \in Of("save") THEN [flight[s] EXCEPT !.panel = "left save"]
                                        ELSE before[s]]

\* The panel appears.
CopyMount(before, s) ==
    /\ Ask(before, s, "load", None, {"all"})
    /\ copy' = NoCopy /\ edit' = NoEdit

\* Fault: that something was typed is not noticed.
Type_saved(text) ==
    /\ copy.text # None /\ text # copy.text
    /\ copy' = [copy EXCEPT !.text = text]
    /\ edit' = [edit EXCEPT !.over = copy.busy]
    /\ UNCHANGED <<tab, stored>>

Type(text) ==
    /\ copy.text # None /\ text # copy.text
    /\ copy' = [copy EXCEPT !.text = text, !.saved = FALSE]
    /\ edit' = [edit EXCEPT !.over = copy.busy]
    /\ UNCHANGED <<tab, stored>>

Save(s) ==
    /\ copy.text # None /\ ~ copy.busy
    /\ Ask(flight, s, "save", copy.text, {"all"})
    /\ copy' = [copy EXCEPT !.busy = TRUE, !.saved = FALSE, !.error = FALSE]
    /\ edit' = [edit EXCEPT !.over = FALSE]
    /\ UNCHANGED <<page, version, stored>>

\* The hub: a GET, and a PUT whose answer may be lost.
CopyRead(s) ==
    /\ s \in Of("load") /\ ~ Settled(s)
    /\ flight' = [flight EXCEPT ![s].left = {}, ![s].got["all"] = stored]
    /\ UNCHANGED <<page, version, stored, copy, edit>>

CopyTaken(s) ==
    /\ s \in Of("save") \cup Of("left save") /\ ~ Settled(s)
    /\ stored' = flight[s].for
    /\ edit' = IF s \in Of("save") THEN [edit EXCEPT !.taken = flight[s].for] ELSE edit
    /\ \E lost \in BOOLEAN :
          flight' = [flight EXCEPT ![s].left = {}, ![s].failed = lost]
    /\ UNCHANGED <<page, version, copy>>

CopyLoaded(s) ==
    /\ s \in Of("load") /\ Settled(s)
    /\ Leave(s)
    /\ copy' = IF flight[s].failed THEN [copy EXCEPT !.error = TRUE]
                                   ELSE [copy EXCEPT !.text = flight[s].got["all"]]
    /\ UNCHANGED <<page, version, stored, edit>>

CopySaved(s) ==
    /\ s \in Of("save") \cup Of("left save") /\ Settled(s)
    /\ Leave(s)
    /\ copy' = IF s \in Of("save")
                 THEN [copy EXCEPT !.busy = FALSE, !.saved = ~ flight[s].failed,
                                   !.error = flight[s].failed]
                 ELSE copy
    /\ UNCHANGED <<page, version, stored, edit>>
=============================================================================
