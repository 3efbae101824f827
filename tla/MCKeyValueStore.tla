-------------------------- MODULE MCKeyValueStore --------------------------
(***************************************************************************)
(* KeyValueStore on a small instance: two microseconds in a millisecond,   *)
(* two milliseconds in a second, ints of four bits.                        *)
(***************************************************************************)
EXTENDS KeyValueStore, TLC

CONSTANTS k1, k2, word, digits, empty

MCKeys == {k1, k2}
MCTexts == {word, digits, empty}

\* One of each form of a length: 6 bits, 14 bits, 32 bits.
MCLengths == (k1 :> 3) @@ (k2 :> 300) @@ (word :> 70000) @@ (digits :> 64) @@ (empty :> 0)
\* digits is a text like "6 pm".
MCLeading == (word :> NoValue) @@ (digits :> 6) @@ (empty :> NoValue)
MCMatches == ("*" :> {k1, k2}) @@ ("k1?" :> {k1})

\* 7 is the largest int; 9 does not fit one.
MCValues == {digits, 7}
\* 1 and 3 fit, 3 carries; 4 overflows, and wraps to a negative number.
MCPx == {1, 3, 4, -1}
ShortPx == {1}

Entry(k, v, unit, at) == [key |-> k, val |-> v, unit |-> unit, at |-> at]
File(kind, entries) == [kind |-> kind, entries |-> entries]
MCFiles ==
    {File("absent", <<>>), File("nodb", <<>>),
     File("whole", <<Entry(k1, word, "ms", 1), Entry(k2, -300, "none", 0)>>),
     File("whole", <<Entry(k2, 70000, "s", 1), Entry(k1, -5, "ms", 3)>>),
     File("cut", <<Entry(k1, digits, "none", 0)>>)}
=============================================================================
