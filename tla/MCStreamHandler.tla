-------------------------- MODULE MCStreamHandler --------------------------
(***************************************************************************)
(* StreamHandler on small instances: two readers, two streams, numbers of  *)
(* four values.                                                            *)
(***************************************************************************)
EXTENDS StreamHandler, TLC

CONSTANTS r1, r2, a, b

MCReaders == {r1, r2}
MCStreams == {a, b}
MCTimes == {2, 3}

Written(f, s) == Arg("written", <<f, s>>)

\* On a every identifier is written, on b there are stars.
MCAddArgs ==
    (a :> {Written(1, 1), Written(1, 2)}) @@
    (b :> {Arg("timed", Zero), Arg("numbered", <<2, 0>>), Written(2, 3)})

Q(s, from) == [stream |-> s, from |-> from]

MCAsks ==
    (r1 :> {<<Q(a, Dollar)>>}) @@
    (r2 :> {<<Q(b, <<2, 0>>), Q(a, <<1, 1>>)>>})

\* Bounds within a block, across blocks, and crossed.
MCRanges ==
    {<<b, <<2, 0>>, <<2, 1>>>>, <<b, <<2, 1>>, <<3, 0>>>>, <<b, <<3, 0>>, <<1, 0>>>>}
=============================================================================
