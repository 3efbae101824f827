--------------------------- MODULE ReplicatedLog ---------------------------
(***************************************************************************)
(* What replication promises: one log that only grows, and readers that    *)
(* each see it from some point on, entry by entry, without a gap.  A       *)
(* reader's point may move only while it has seen nothing.  Readers that   *)
(* are told so beforehand may see the last entry again.                    *)
(***************************************************************************)
EXTENDS Naturals, Sequences, SequencesExt

CONSTANTS
    Entries,    \* what the log is made of
    Readers     \* who reads it

VARIABLES
    log,        \* the log
    base,       \* how many entries were there before a reader joined
    copy,       \* what a reader has seen
    again       \* readers that may see an entry several times

vars == <<log, base, copy, again>>

Init ==
    /\ log = <<>>
    /\ base = [r \in Readers |-> 0]
    /\ copy = [r \in Readers |-> <<>>]
    /\ again = {}

\* An entry is in the log once.
Extend(e) ==
    /\ e \notin ToSet(log)
    /\ log' = Append(log, e)
    /\ UNCHANGED <<base, copy, again>>

Join(r) ==
    /\ copy[r] = <<>>
    /\ base' = [base EXCEPT ![r] = Len(log)]
    /\ UNCHANGED <<log, copy, again>>

Warn(r) ==
    /\ copy[r] = <<>>
    /\ again' = again \cup {r}
    /\ UNCHANGED <<log, base, copy>>

\* The entry at i comes next for a reader.
Due(r, i) == IF copy[r] = <<>> THEN i = base[r] + 1
             ELSE i > base[r] + 1 /\ log[i - 1] = Last(copy[r])

Deliver(r) ==
    /\ \E i \in DOMAIN log : Due(r, i) /\ copy' = [copy EXCEPT ![r] = Append(@, log[i])]
    /\ UNCHANGED <<log, base, again>>

Repeat(r) ==
    /\ r \in again /\ copy[r] # <<>>
    /\ copy' = [copy EXCEPT ![r] = Append(@, Last(@))]
    /\ UNCHANGED <<log, base, again>>

Next ==
    \/ \E e \in Entries : Extend(e)
    \/ \E r \in Readers : Join(r) \/ Warn(r) \/ Deliver(r) \/ Repeat(r)

Spec == Init /\ [][Next]_vars
=============================================================================
