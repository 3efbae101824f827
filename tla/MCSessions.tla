----------------------------- MODULE MCSessions -----------------------------
(***************************************************************************)
(* Sessions on a small instance: c1 and c2 own the same descriptor, one    *)
(* after the other; c3 has its own.                                        *)
(***************************************************************************)
EXTENDS Sessions, TLC

CONSTANTS c1, c2, c3

MCClients == {c1, c2, c3}
SharedFds == (c1 :> 5) @@ (c2 :> 5) @@ (c3 :> 6)
MCBlockers == {c1, c3}
MCImpatient == {c1}
=============================================================================
