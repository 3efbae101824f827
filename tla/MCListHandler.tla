--------------------------- MODULE MCListHandler ---------------------------
(***************************************************************************)
(* ListHandler on small instances.  Two clients block, a third pushes and  *)
(* pops; in the reconnect instance c1 and c2 own the same descriptor, one  *)
(* after the other.                                                        *)
(***************************************************************************)
EXTENDS ListHandler

CONSTANTS c1, c2, c3, k1, k2

MCClients == {c1, c2, c3}
MCKeys == {k1, k2}

\* A descriptor for each client.
DistinctFds == (c1 :> 5) @@ (c2 :> 6) @@ (c3 :> 7)
\* c2 gets c1's descriptor once c1 has closed.
SharedFds == (c1 :> 5) @@ (c2 :> 5) @@ (c3 :> 6)

\* c1 and c2 compete for k1; c1 names two lists.
CompetingKeys == (c1 :> {<<k1, k2>>}) @@ (c2 :> {<<k1>>}) @@ (c3 :> {})
\* Everybody blocks on the one list.
SameKey == (c1 :> {<<k1>>}) @@ (c2 :> {<<k1>>}) @@ (c3 :> {})

\* The whole list, and all but its first element with an end beyond the list.
MCRanges == {<<0, -1>>, <<1, 5>>}
NoRanges == {}

OneKey == {k1}
Nobody == {}
OnlyC1 == {c1}
=============================================================================
