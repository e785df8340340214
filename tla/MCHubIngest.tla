---------------------------- MODULE MCHubIngest ----------------------------
(***************************************************************************)
(* Instances of HubIngest for TLC.                                         *)
(***************************************************************************)
EXTENDS HubIngest, TLC

CONSTANTS g1, g2, u1, u2

Reading(status, process, owners, util) ==
    [status |-> status, process |-> process, owners |-> owners, util |-> util]

Busy      == Reading("ok", "ok", {u1}, 3)
Unowned   == Reading("ok", "ok", {u1, NoUser}, 1)
Hidden    == Reading("ok", "ok", {NoUser}, 2)
Idle      == Reading("ok", "ok", {}, 0)
Failed    == Reading("query_failed", "unknown", {}, NoUtil)

\* Who is charged and who is not.
ChargeReadings == {Busy, Unowned, Failed}

StatusReadings == {Idle, Failed}

OkOnly  == {"ok"}
OkOrNot == {"ok", "inventory_failed"}

CardSymmetry == Permutations({g1, g2})

QueryReadings == {Busy, Hidden}

IdleReadings == {Idle}
=============================================================================
