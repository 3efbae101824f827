--------------------------- MODULE StreamService ---------------------------
(***************************************************************************)
(* What the stream commands promise, with no threads and no waiters: logs  *)
(* that grow at their end only, and reads that return what follows a start *)
(* identifier without a gap.                                               *)
(*                                                                         *)
(* StreamHandler is shown to implement this specification.                 *)
(***************************************************************************)
EXTENDS Integers, Sequences

CONSTANTS
    Readers,    \* connections that read
    Streams,    \* stream names
    NameLists,  \* the sequences of stream names that reads name
    Ids         \* identifiers, pairs of numbers

VARIABLES
    log,        \* the identifiers in each stream
    asked,      \* what a blocked reader asked for; <<>> if it is not blocked
    message     \* the last reply: {} or {<<reader, what it asked for, identifiers>>}

ssVars == <<log, asked, message>>

Zero == <<0, 0>>
Before(x, y) == x[1] < y[1] \/ (x[1] = y[1] /\ x[2] < y[2])
Following(s, from) == {x \in log[s] : Before(from, x)}

\* A read asks for streams with a start identifier each.
Questions ==
    UNION {{[i \in DOMAIN names |-> [stream |-> names[i], from |-> froms[i]]] :
              froms \in [DOMAIN names -> Ids]} : names \in NameLists}

ServiceInit ==
    /\ log = [s \in Streams |-> {}]
    /\ asked = [r \in Readers |-> <<>>]
    /\ message = {}

Quiet == message' = {} /\ UNCHANGED <<log, asked>>

Grow(s) ==
    /\ message' = {} /\ UNCHANGED asked
    /\ \E id \in Ids \ {Zero} :
        /\ \A x \in log[s] : Before(x, id)
        /\ log' = [log EXCEPT ![s] = @ \cup {id}]

\* A read that does not block has everything that follows.
Read(r) ==
    /\ asked[r] = <<>>
    /\ UNCHANGED <<log, asked>>
    /\ \E question \in Questions :
        message' = {<<r, question,
                      [i \in DOMAIN question |->
                         Following(question[i].stream, question[i].from)]>>}

\* A read blocks only if nothing follows in any of its streams.
BlockOn(r) ==
    /\ asked[r] = <<>>
    /\ message' = {} /\ UNCHANGED log
    /\ \E question \in Questions :
        /\ asked' = [asked EXCEPT ![r] = question]
        /\ \A i \in DOMAIN question : Following(question[i].stream, question[i].from) = {}

\* What a blocked read is answered reaches from its start identifiers up to some
\* identifiers, and skips nothing.
Reply(r) ==
    /\ asked[r] # <<>>
    /\ asked' = [asked EXCEPT ![r] = <<>>] /\ UNCHANGED log
    /\ \E upto \in [DOMAIN asked[r] -> Ids] :
        message' = {<<r, asked[r],
                      [i \in DOMAIN asked[r] |->
                         {x \in Following(asked[r][i].stream, asked[r][i].from) :
                            ~Before(upto[i], x)}]>>}

ServiceNext ==
    \/ Quiet
    \/ \E s \in Streams : Grow(s)
    \/ \E r \in Readers : Read(r) \/ BlockOn(r) \/ Reply(r)

ServiceSpec == ServiceInit /\ [][ServiceNext]_ssVars
=============================================================================
