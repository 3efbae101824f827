------------------------- MODULE ReplicationProofs -------------------------
(***************************************************************************)
(* What holds of Replication for every set of clients and of replicas and  *)
(* any number of writes, whatever clients, replicas and kills do: no       *)
(* theorem excludes a behaviour of the model.                              *)
(*                                                                         *)
(* Base is the inductive invariant the others build on: types and numbers  *)
(* of writes (TypesInv), who has which number (DescriptorInv), a replica   *)
(* registers once (AskInv), and what it has executed and what is on the    *)
(* way to it go through the stream (FollowInv).  From it follow that the   *)
(* replicas are in step and implement ReplicatedLog.  Beside it CleanInv   *)
(* says what is on the way in an undisturbed exchange, NumberInv and       *)
(* WaitingInv which acknowledgement answers which WAIT, and StreamInv what *)
(* became of each write command.                                           *)
(***************************************************************************)
EXTENDS Replication, SequenceLemmas

-----------------------------------------------------------------------------
(* Writes on the way: what WriteIds makes of messages.                     *)

Copies(m, n) == [i \in 1 .. n |-> m]
OfKinds(msgs, kinds) == \A i \in 1 .. Len(msgs) : msgs[i].kind \in kinds
Others == {"pong", "ok", "fullresync", "rdb", "getack"}

LEMMA CopiesType ==
  ASSUME NEW M, NEW m \in M, NEW n \in Nat
  PROVE  /\ Copies(m, n) \in Seq(M) /\ Len(Copies(m, n)) = n
         /\ \A i \in 1 .. n : Copies(m, n)[i] = m
         /\ ToSet(Copies(m, n)) \subseteq {m}
<1>1. Copies(m, n) \in [1 .. n -> M] /\ DOMAIN Copies(m, n) = 1 .. n
  BY DEF Copies
<1>2. \A i \in 1 .. n : Copies(m, n)[i] = m
  BY DEF Copies
<1>3. QED
  BY <1>1, <1>2 DEF ToSet

LEMMA OneCopy ==
  ASSUME NEW M, NEW m \in M
  PROVE  Copies(m, 1) = <<m>>
<1>1. 1 \in Nat /\ 1 \in 1 .. 1
  OBVIOUS
<1>2. Copies(m, 1) \in Seq(M) /\ Len(Copies(m, 1)) = 1
  BY <1>1, CopiesType
<1>3. Copies(m, 1)[1] = m
  BY <1>1 DEF Copies
<1>4. QED
  BY <1>2, <1>3

LEMMA NoCopy ==
  ASSUME NEW M, NEW s \in Seq(M), NEW m
  PROVE  s \o Copies(m, 0) = s
<1>1. Copies(m, 0) = <<>>
  BY DEF Copies
<1>2. QED
  BY <1>1

IdsOf(s) == [i \in DOMAIN s |-> s[i].id]
WriteMsgs == [kind : {"write"}, id : Writes]

LEMMA IdsType ==
  ASSUME NEW s \in Seq(WriteMsgs)
  PROVE  IdsOf(s) \in Seq(Writes) /\ Len(IdsOf(s)) = Len(s) /\ \A i \in 1 .. Len(s) : IdsOf(s)[i] = s[i].id
<1>0. \A m \in WriteMsgs : m.id \in Writes
  BY DEF WriteMsgs
<1>1. DOMAIN s = 1 .. Len(s) /\ Len(s) \in Nat /\ \A i \in 1 .. Len(s) : s[i].id \in Writes
  BY <1>0
<1>2. IdsOf(s) \in [1 .. Len(s) -> Writes]
  BY <1>1 DEF IdsOf
<1>3. QED
  BY <1>1, <1>2 DEF IdsOf

LEMMA IdsConcat ==
  ASSUME NEW s \in Seq(WriteMsgs), NEW t \in Seq(WriteMsgs)
  PROVE  IdsOf(s \o t) = IdsOf(s) \o IdsOf(t)
<1>1. /\ s \o t \in Seq(WriteMsgs) /\ Len(s \o t) = Len(s) + Len(t) /\ Len(s) \in Nat /\ Len(t) \in Nat
      /\ \A i \in 1 .. Len(s) + Len(t) : (s \o t)[i] = IF i <= Len(s) THEN s[i] ELSE t[i - Len(s)]
  BY ConcatElements
<1> DEFINE u == IdsOf(s)
           v == IdsOf(t)
           w == IdsOf(s \o t)
<1>2. u \in Seq(Writes) /\ Len(u) = Len(s) /\ \A i \in 1 .. Len(s) : u[i] = s[i].id
  BY IdsType
<1>3. v \in Seq(Writes) /\ Len(v) = Len(t) /\ \A i \in 1 .. Len(t) : v[i] = t[i].id
  BY IdsType
<1>4. w \in Seq(Writes) /\ Len(w) = Len(s) + Len(t) /\ \A i \in 1 .. Len(s) + Len(t) : w[i] = (s \o t)[i].id
  BY <1>1, IdsType
<1> HIDE DEF u, v, w
<1>5. /\ u \o v \in Seq(Writes) /\ Len(u \o v) = Len(s) + Len(t)
      /\ \A i \in 1 .. Len(s) + Len(t) : (u \o v)[i] = IF i <= Len(s) THEN u[i] ELSE v[i - Len(s)]
  <2>1. u \in Seq(Writes) /\ v \in Seq(Writes)
    BY <1>2, <1>3
  <2>2. /\ u \o v \in Seq(Writes) /\ Len(u \o v) = Len(u) + Len(v)
        /\ \A i \in 1 .. Len(u) + Len(v) : (u \o v)[i] = IF i <= Len(u) THEN u[i] ELSE v[i - Len(u)]
    BY <2>1, ConcatElements
  <2>3. Len(u) = Len(s) /\ Len(v) = Len(t)
    BY <1>2, <1>3
  <2>4. QED
    BY <2>2, <2>3
<1>6. ASSUME NEW i \in 1 .. Len(s) + Len(t) PROVE w[i] = (u \o v)[i]
  <2>2. CASE i <= Len(s)
    <3>1. i \in 1 .. Len(s) /\ (s \o t)[i] = s[i] /\ (u \o v)[i] = u[i]
      BY <1>1, <1>5, <2>2
    <3>2. QED
      BY <1>2, <1>4, <3>1
  <2>3. CASE ~(i <= Len(s))
    <3>1. i - Len(s) \in 1 .. Len(t) /\ (s \o t)[i] = t[i - Len(s)] /\ (u \o v)[i] = v[i - Len(s)]
      BY <1>1, <1>5, <2>3
    <3>2. QED
      BY <1>3, <1>4, <3>1
  <2>4. QED
    BY <2>2, <2>3
<1>7. Len(s) + Len(t) \in Nat
  BY <1>1
<1>8. w = u \o v
  BY <1>4, <1>5, <1>6, <1>7, SameElements
<1>9. QED
  BY <1>8 DEF u, v, w

LEMMA WritesAmong ==
  ASSUME NEW msgs \in Seq(ToReplicaMsgs)
  PROVE  /\ Filtered(msgs, WriteMsgs) \in Seq(WriteMsgs)
         /\ WriteIds(msgs) = IdsOf(Filtered(msgs, WriteMsgs))
         /\ WriteIds(msgs) \in Seq(Writes)
<1> DEFINE f == Filtered(msgs, WriteMsgs)
<1>1. f \in Seq(ToReplicaMsgs) /\ ToSet(f) = ToSet(msgs) \cap WriteMsgs
  BY FilteredType, FilteredElements
<1>2. WriteIds(msgs) = IdsOf(f)
  BY DEF WriteIds, IdsOf, WriteMsgs
<1> HIDE DEF f
<1>3. \A i \in 1 .. Len(f) : f[i] \in WriteMsgs
  BY <1>1 DEF ToSet
<1>4. f \in Seq(WriteMsgs)
  BY <1>1, <1>3
<1>5. QED
  BY <1>2, <1>4, IdsType DEF f

LEMMA WriteIdsConcat ==
  ASSUME NEW s \in Seq(ToReplicaMsgs), NEW t \in Seq(ToReplicaMsgs)
  PROVE  WriteIds(s \o t) = WriteIds(s) \o WriteIds(t)
<1>1. s \o t \in Seq(ToReplicaMsgs)
  OBVIOUS
<1>2. Filtered(s \o t, WriteMsgs) = Filtered(s, WriteMsgs) \o Filtered(t, WriteMsgs)
  BY FilteredConcat
<1>3. QED
  BY <1>1, <1>2, WritesAmong, IdsConcat

LEMMA NoWriteIds ==
  ASSUME NEW msgs \in Seq(ToReplicaMsgs), OfKinds(msgs, Others)
  PROVE  WriteIds(msgs) = <<>>
<1>1. ToSet(msgs) \cap WriteMsgs = {}
  BY DEF ToSet, OfKinds, WriteMsgs, Others
<1>2. Filtered(msgs, WriteMsgs) = <<>>
  BY <1>1, FilteredNone
<1>3. <<>> \in Seq(WriteMsgs) /\ Len(<<>>) = 0
  OBVIOUS
<1>4. IdsOf(<<>>) \in Seq(Writes) /\ Len(IdsOf(<<>>)) = 0
  BY <1>3, IdsType
<1>5. IdsOf(<<>>) = <<>>
  BY <1>4, EmptyLength
<1>6. QED
  BY <1>2, <1>5, WritesAmong

LEMMA CopiedWrites ==
  ASSUME NEW id \in Writes, NEW n \in Nat
  PROVE  /\ Copies(Numbered("write", id), n) \in Seq(ToReplicaMsgs)
         /\ WriteIds(Copies(Numbered("write", id), n)) = Copies(id, n)
<1> DEFINE m == Numbered("write", id)
           s == Copies(m, n)
<1>1. m \in WriteMsgs /\ m \in ToReplicaMsgs /\ m.id = id
  BY DEF Numbered, WriteMsgs, ToReplicaMsgs
<1> HIDE DEF m
<1>2. s \in Seq(WriteMsgs) /\ s \in Seq(ToReplicaMsgs) /\ Len(s) = n /\ ToSet(s) \subseteq WriteMsgs
      /\ \A i \in 1 .. n : s[i] = m
  BY <1>1, CopiesType
<1> HIDE DEF s
<1>3. Filtered(s, WriteMsgs) = s
  BY <1>2, FilteredAll
<1>4. IdsOf(s) \in Seq(Writes) /\ Len(IdsOf(s)) = n /\ \A i \in 1 .. n : IdsOf(s)[i] = id
  BY <1>1, <1>2, IdsType
<1>5. Copies(id, n) \in Seq(Writes) /\ Len(Copies(id, n)) = n /\ \A i \in 1 .. n : Copies(id, n)[i] = id
  BY CopiesType
<1>6. IdsOf(s) = Copies(id, n)
  BY <1>4, <1>5, SameElements
<1>7. WriteIds(s) = Copies(id, n)
  BY <1>2, <1>3, <1>6, WritesAmong
<1>8. QED
  BY <1>2, <1>7 DEF s, m

\* What a replica has executed, and after it what is on the way.
Known(done, msgs) == done \o WriteIds(msgs)

LEMMA KnownType ==
  ASSUME NEW done \in Seq(Writes), NEW msgs \in Seq(ToReplicaMsgs)
  PROVE  /\ Known(done, msgs) \in Seq(Writes) /\ Len(done) <= Len(Known(done, msgs))
         /\ Len(done) \in Nat /\ Len(Known(done, msgs)) \in Nat
         /\ \A i \in 1 .. Len(done) : Known(done, msgs)[i] = done[i]
         /\ OfKinds(msgs, Others) => Known(done, msgs) = done
<1>1. WriteIds(msgs) \in Seq(Writes)
  BY WritesAmong
<1>2. /\ done \o WriteIds(msgs) \in Seq(Writes)
      /\ Len(done \o WriteIds(msgs)) = Len(done) + Len(WriteIds(msgs))
      /\ \A i \in 1 .. Len(done) + Len(WriteIds(msgs)) :
           (done \o WriteIds(msgs))[i] = IF i <= Len(done) THEN done[i] ELSE WriteIds(msgs)[i - Len(done)]
  BY <1>1, ConcatElements
<1>3. Len(done) \in Nat /\ Len(WriteIds(msgs)) \in Nat
  BY <1>1
<1>4. \A i \in 1 .. Len(done) : i \in 1 .. Len(done) + Len(WriteIds(msgs)) /\ i <= Len(done)
  BY <1>3
<1>5. \A i \in 1 .. Len(done) : Known(done, msgs)[i] = done[i]
  BY <1>2, <1>4 DEF Known
<1>6. OfKinds(msgs, Others) => Known(done, msgs) = done
  <2>1. done \o <<>> = done
    OBVIOUS
  <2>2. QED
    BY <2>1, NoWriteIds DEF Known
<1>7. QED
  BY <1>2, <1>3, <1>5, <1>6 DEF Known

LEMMA ConcatAssoc ==
  ASSUME NEW E, NEW s \in Seq(E), NEW t \in Seq(E), NEW u \in Seq(E)
  PROVE  (s \o t) \o u = s \o (t \o u)
OBVIOUS

LEMMA KnownMore ==
  ASSUME NEW done \in Seq(Writes), NEW msgs \in Seq(ToReplicaMsgs), NEW id \in Writes, NEW n \in Nat
  PROVE  Known(done, msgs \o Copies(Numbered("write", id), n)) = Known(done, msgs) \o Copies(id, n)
<1>1. WriteIds(msgs) \in Seq(Writes) /\ Copies(id, n) \in Seq(Writes)
  BY WritesAmong, CopiesType
<1>2. WriteIds(msgs \o Copies(Numbered("write", id), n)) = WriteIds(msgs) \o Copies(id, n)
  BY CopiedWrites, WriteIdsConcat
<1> DEFINE u == WriteIds(msgs)
           v == Copies(id, n)
<1>3. u \in Seq(Writes) /\ v \in Seq(Writes)
  BY <1>1
<1> HIDE DEF u, v
<1>4. done \o (u \o v) = (done \o u) \o v
  BY <1>3, ConcatAssoc
<1>5. QED
  BY <1>2, <1>4 DEF Known, u, v

LEMMA KnownSame ==
  ASSUME NEW done \in Seq(Writes), NEW msgs \in Seq(ToReplicaMsgs), NEW t \in Seq(ToReplicaMsgs),
         OfKinds(t, Others)
  PROVE  Known(done, msgs \o t) = Known(done, msgs)
<1>1. WriteIds(msgs) \in Seq(Writes) /\ WriteIds(t) = <<>>
  BY WritesAmong, NoWriteIds
<1>2. WriteIds(msgs \o t) = WriteIds(msgs) \o <<>>
  BY <1>1, WriteIdsConcat
<1>3. WriteIds(msgs) \o <<>> = WriteIds(msgs)
  BY <1>1
<1>4. QED
  BY <1>2, <1>3 DEF Known

LEMMA KnownTail ==
  ASSUME NEW done \in Seq(Writes), NEW msgs \in Seq(ToReplicaMsgs), msgs # <<>>
  PROVE  /\ Head(msgs).kind = "write" =>
              /\ Head(msgs).id \in Writes
              /\ Known(Append(done, Head(msgs).id), Tail(msgs)) = Known(done, msgs)
              /\ Len(done) < Len(Known(done, msgs))
              /\ Known(done, msgs)[Len(done) + 1] = Head(msgs).id
         /\ Head(msgs).kind # "write" => Known(done, Tail(msgs)) = Known(done, msgs)
<1>1. /\ Head(msgs) \in ToReplicaMsgs /\ Tail(msgs) \in Seq(ToReplicaMsgs)
      /\ <<Head(msgs)>> \in Seq(ToReplicaMsgs) /\ msgs = <<Head(msgs)>> \o Tail(msgs)
  OBVIOUS
<1>2. WriteIds(msgs) = WriteIds(<<Head(msgs)>>) \o WriteIds(Tail(msgs))
  BY <1>1, WriteIdsConcat
<1>3. WriteIds(Tail(msgs)) \in Seq(Writes)
  BY <1>1, WritesAmong
<1>4. CASE Head(msgs).kind = "write"
  <2>1. Head(msgs).id \in Writes /\ Head(msgs) = Numbered("write", Head(msgs).id)
    BY <1>1, <1>4 DEF ToReplicaMsgs, Numbered
  <2>2. <<Head(msgs)>> = Copies(Head(msgs), 1) /\ <<Head(msgs).id>> = Copies(Head(msgs).id, 1)
    BY <1>1, <2>1, OneCopy
  <2>3. WriteIds(<<Head(msgs)>>) = <<Head(msgs).id>>
    <3>1. WriteIds(Copies(Numbered("write", Head(msgs).id), 1)) = Copies(Head(msgs).id, 1)
      BY <2>1, CopiedWrites
    <3>2. QED
      BY <2>1, <2>2, <3>1
  <2>4. Append(done, Head(msgs).id) \in Seq(Writes)
        /\ Append(done, Head(msgs).id) = done \o <<Head(msgs).id>> /\ <<Head(msgs).id>> \in Seq(Writes)
    BY <2>1
  <2>5. Known(Append(done, Head(msgs).id), Tail(msgs)) = Known(done, msgs)
    <3> DEFINE u == <<Head(msgs).id>>
               v == WriteIds(Tail(msgs))
    <3>1. u \in Seq(Writes) /\ v \in Seq(Writes)
      BY <1>3, <2>4
    <3> HIDE DEF u, v
    <3>2. done \o (u \o v) = (done \o u) \o v
      BY <3>1, ConcatAssoc
    <3>3. QED
      BY <1>2, <2>3, <2>4, <3>2 DEF Known, u, v
  <2>6. Len(Append(done, Head(msgs).id)) = Len(done) + 1 /\ Append(done, Head(msgs).id)[Len(done) + 1] = Head(msgs).id
        /\ Len(done) \in Nat
    BY <2>1
  <2>7. QED
    <3> DEFINE next == Append(done, Head(msgs).id)
               known == Known(next, Tail(msgs))
    <3>1. Len(next) <= Len(known) /\ Len(known) \in Nat /\ \A i \in 1 .. Len(next) : known[i] = next[i]
      BY <1>1, <2>4, KnownType
    <3>2. Len(done) + 1 \in 1 .. Len(next)
      BY <2>6
    <3> HIDE DEF known, next
    <3>3. known[Len(done) + 1] = next[Len(done) + 1] /\ Len(done) < Len(known)
      BY <2>6, <3>1, <3>2 DEF next
    <3>4. known = Known(done, msgs)
      BY <2>5 DEF known, next
    <3>5. QED
      BY <1>4, <2>1, <2>5, <2>6, <3>3, <3>4 DEF known, next
<1>5. CASE Head(msgs).kind # "write"
  <2>1. OfKinds(<<Head(msgs)>>, Others)
    BY <1>1, <1>5 DEF OfKinds, Others, ToReplicaMsgs
  <2>2. WriteIds(<<Head(msgs)>>) = <<>>
    BY <1>1, <2>1, NoWriteIds
  <2>3. WriteIds(msgs) = WriteIds(Tail(msgs))
    BY <1>2, <1>3, <2>2
  <2>4. QED
    BY <1>5, <2>3 DEF Known
<1>6. QED
  BY <1>4, <1>5

-----------------------------------------------------------------------------
(* Repetition.                                                             *)

\* A sequence goes through a log, from a place on, and has each entry k times.
Along(s, log, from, k) ==
    /\ Len(s) <= k * (Len(log) - from)
    /\ \A i \in 1 .. Len(s) : s[i] = log[from + (i - 1) \div k + 1]

LEMMA Quotient ==
  ASSUME NEW k \in Nat \ {0}, NEW q \in Nat, NEW t \in 0 .. k - 1
  PROVE  (k * q + t) \div k = q
BY SMTT(30)

LEMMA QuotientBounds ==
  ASSUME NEW k \in Nat \ {0}, NEW a \in Nat
  PROVE  a \div k \in Nat /\ k * (a \div k) <= a /\ a < k * (a \div k) + k
BY SMTT(30)

LEMMA NextQuotient ==
  ASSUME NEW k \in Nat \ {0}, NEW a \in Nat \ {0}
  PROVE  a \div k = (a - 1) \div k \/ a \div k = (a - 1) \div k + 1
BY SMTT(30)

LEMMA QuotientBelow ==
  ASSUME NEW k \in Nat \ {0}, NEW a \in Nat, NEW n \in Nat, a < k * n
  PROVE  a \div k \in 0 .. n - 1
<1>1. a \div k \in Nat /\ k * (a \div k) <= a
  BY QuotientBounds
<1>2. ASSUME a \div k >= n PROVE FALSE
  <2>1. \E d \in Nat : a \div k = n + d
    BY <1>1, <1>2
  <2>2. PICK d \in Nat : a \div k = n + d
    BY <2>1
  <2>3. k * (n + d) = k * n + k * d /\ k * d \in Nat
    BY SMTT(30)
  <2>4. QED
    BY <1>1, <2>2, <2>3, SMTT(30)
<1>3. QED
  BY <1>1, <1>2

\* Where the elements of such a sequence are in the log.
LEMMA AlongPlaces ==
  ASSUME NEW s \in Seq(Writes), NEW log \in Seq(Writes), NEW from \in 0 .. Len(log),
         NEW k \in Nat \ {0}, Along(s, log, from, k), NEW i \in 1 .. Len(s)
  PROVE  (i - 1) \div k \in 0 .. Len(log) - from - 1
<1>1. Len(log) - from \in Nat /\ Len(s) \in Nat /\ i - 1 \in Nat /\ k * (Len(log) - from) \in Nat
  BY SMTT(30)
<1>2. i - 1 < k * (Len(log) - from)
  BY <1>1 DEF Along
<1>3. QED
  BY <1>1, <1>2, QuotientBelow

\* The log grows by an entry, and the sequence, when it has reached the end, by
\* some copies of it.
LEMMA AlongGrows ==
  ASSUME NEW s \in Seq(Writes), NEW log \in Seq(Writes), NEW from \in 0 .. Len(log),
         NEW k \in Nat \ {0}, Along(s, log, from, k), NEW id \in Writes, NEW n \in 0 .. k,
         Len(s) = k * (Len(log) - from)
  PROVE  /\ Along(s \o Copies(id, n), Append(log, id), from, k)
         /\ n = k => Len(s \o Copies(id, n)) = k * (Len(Append(log, id)) - from)
<1> DEFINE t == Copies(id, n)
           l == Len(log) - from
<1>1. t \in Seq(Writes) /\ Len(t) = n /\ \A i \in 1 .. n : t[i] = id
  <2>1. n \in Nat
    OBVIOUS
  <2>2. QED
    BY <2>1, CopiesType
<1>2. /\ s \o t \in Seq(Writes) /\ Len(s \o t) = Len(s) + n
      /\ \A i \in 1 .. Len(s) + n : (s \o t)[i] = IF i <= Len(s) THEN s[i] ELSE t[i - Len(s)]
  BY <1>1, ConcatElements
<1>3. /\ Append(log, id) \in Seq(Writes) /\ Len(Append(log, id)) = Len(log) + 1
      /\ \A i \in 1 .. Len(log) : Append(log, id)[i] = log[i]
      /\ Append(log, id)[Len(log) + 1] = id
      /\ Len(log) \in Nat /\ Len(s) \in Nat /\ l \in Nat /\ from \in Nat
  OBVIOUS
<1>4. k * (l + 1) = k * l + k /\ k * l \in Nat
  BY <1>3, SMTT(30)
<1>5. Len(Append(log, id)) - from = l + 1
  BY <1>3
<1>6. Len(s \o t) <= k * (Len(Append(log, id)) - from)
      /\ (n = k => Len(s \o t) = k * (Len(Append(log, id)) - from))
  <2>1. Len(s) = k * l /\ n \in Nat /\ n <= k
    OBVIOUS
  <2> DEFINE p == k * l
             g == Len(Append(log, id)) - from
  <2>2. k * g = p + k /\ p \in Nat /\ Len(s \o t) = p + n
    BY <1>2, <1>4, <1>5, <2>1
  <2> HIDE DEF l, p, t
  <2>3. Len(s \o t) <= k * g /\ (n = k => Len(s \o t) = k * g)
    BY <2>1, <2>2
  <2>4. QED
    BY <2>3
<1>7. ASSUME NEW i \in 1 .. Len(s) + n
      PROVE  (s \o t)[i] = Append(log, id)[from + (i - 1) \div k + 1]
  <2>1. CASE i <= Len(s)
    <3>1. i \in 1 .. Len(s)
      BY <2>1
    <3>2. (i - 1) \div k \in 0 .. Len(log) - from - 1
      BY <3>1, AlongPlaces
    <3>3. from + (i - 1) \div k + 1 \in 1 .. Len(log)
      BY <1>3, <3>2
    <3>4. s[i] = log[from + (i - 1) \div k + 1]
      BY <3>1 DEF Along
    <3>5. (s \o t)[i] = s[i]
      BY <1>2, <2>1
    <3>6. QED
      BY <1>3, <3>3, <3>4, <3>5
  <2>2. CASE ~(i <= Len(s))
    <3>1. i - Len(s) \in 1 .. n /\ i - 1 - Len(s) \in 0 .. k - 1 /\ i - 1 = Len(s) + (i - 1 - Len(s))
      BY <1>3, <2>2
    <3>2. (k * l + (i - 1 - Len(s))) \div k = l
      BY <1>3, <3>1, Quotient
    <3>3. (i - 1) \div k = l
      BY <3>1, <3>2
    <3>4. from + l + 1 = Len(log) + 1
      BY <1>3
    <3>5. (s \o t)[i] = id
      BY <1>1, <1>2, <2>2, <3>1
    <3>6. QED
      BY <1>3, <3>3, <3>4, <3>5
  <2>3. QED
    BY <2>1, <2>2
<1>8. QED
  BY <1>2, <1>6, <1>7 DEF Along

\* The log grows without it.
LEMMA AlongLonger ==
  ASSUME NEW s \in Seq(Writes), NEW log \in Seq(Writes), NEW from \in 0 .. Len(log),
         NEW k \in Nat \ {0}, Along(s, log, from, k)
  PROVE  from = Len(log) => s = <<>>
<1>1. ASSUME from = Len(log) PROVE s = <<>>
  <2>1. Len(s) \in Nat /\ Len(log) - from = 0 /\ k * 0 = 0
    BY <1>1
  <2>2. Len(s) <= k * (Len(log) - from)
    BY DEF Along
  <2>3. Len(s) = 0
    BY <2>1, <2>2
  <2>4. QED
    BY <2>3, EmptyLength
<1>2. QED
  BY <1>1

LEMMA AlongNothing ==
  ASSUME NEW log \in Seq(Writes), NEW k \in Nat
  PROVE  /\ Along(<<>>, log, Len(log), k)
         /\ Len(<<>>) = k * (Len(log) - Len(log))
<1>1. Len(log) - Len(log) = 0 /\ k * 0 = 0 /\ Len(<<>>) = 0
  OBVIOUS
<1>2. QED
  BY <1>1 DEF Along

\* Times: the sequence that has reached the end.
LEMMA AlongIsTimes ==
  ASSUME NEW s \in Seq(Writes), NEW log \in Seq(Writes), NEW from \in 0 .. Len(log),
         NEW k \in Nat \ {0}, Along(s, log, from, k), Len(s) = k * (Len(log) - from)
  PROVE  /\ s = Times(k, SubSeq(log, from + 1, Len(log)))
         /\ ToSet(s) = {log[i] : i \in from + 1 .. Len(log)}
<1> DEFINE w == SubSeq(log, from + 1, Len(log))
           l == Len(log) - from
<1>1. w \in Seq(Writes) /\ Len(w) = l /\ \A j \in 1 .. l : w[j] = log[from + j]
  OBVIOUS
<1>2. Len(log) \in Nat /\ from \in Nat /\ l \in Nat /\ k * l \in Nat /\ Len(s) = k * l
      /\ DOMAIN s = 1 .. Len(s)
  BY SMTT(30)
<1>3. ASSUME NEW i \in 1 .. k * l
      PROVE  s[i] = w[(i - 1) \div k + 1] /\ (i - 1) \div k + 1 \in 1 .. l
  <2>1. (i - 1) \div k \in 0 .. l - 1
    BY <1>2, AlongPlaces
  <2>2. (i - 1) \div k + 1 \in 1 .. l /\ from + ((i - 1) \div k + 1) = from + (i - 1) \div k + 1
    BY <1>2, <2>1
  <2>3. s[i] = log[from + (i - 1) \div k + 1]
    BY <1>2 DEF Along
  <2>4. QED
    BY <1>1, <2>2, <2>3
<1> HIDE DEF w
<1>4. Times(k, w) = [i \in 1 .. k * l |-> w[(i - 1) \div k + 1]]
  BY <1>1 DEF Times
<1>5. Times(k, w) = s
  <2>1. s = [i \in 1 .. k * l |-> s[i]]
    BY <1>2
  <2>2. QED
    BY <1>3, <1>4, <2>1
<1>6. ToSet(s) \subseteq {log[i] : i \in from + 1 .. Len(log)}
  <2>1. ASSUME NEW i \in 1 .. Len(s) PROVE s[i] \in {log[j] : j \in from + 1 .. Len(log)}
    <3>1. (i - 1) \div k \in 0 .. l - 1
      BY <1>2, <2>1, AlongPlaces
    <3>2. from + (i - 1) \div k + 1 \in from + 1 .. Len(log)
      BY <1>2, <3>1
    <3>3. s[i] = log[from + (i - 1) \div k + 1]
      BY <2>1 DEF Along
    <3>4. QED
      BY <3>2, <3>3
  <2>2. QED
    BY <1>2, <2>1 DEF ToSet
<1>7. ASSUME NEW j \in from + 1 .. Len(log) PROVE log[j] \in ToSet(s)
  <2> DEFINE q == j - from - 1
             i == k * q + 1
  <2>1. q \in Nat /\ q + 1 <= l /\ j = from + q + 1
    BY <1>2
  <2>2. k * q \in Nat /\ k * q + k <= k * l
    <3>1. PICK d \in Nat : l = q + 1 + d
      BY <1>2, <2>1
    <3>2. k * (q + 1 + d) = k * q + k + k * d /\ k * d \in Nat /\ k * q \in Nat
      BY <2>1, SMTT(30)
    <3> HIDE DEF l, q
    <3>3. QED
      BY <3>1, <3>2
  <2>3. i \in 1 .. Len(s) /\ i - 1 = k * q
    <3> HIDE DEF l, q
    <3>1. QED
      BY <1>2, <2>2
  <2>4. (i - 1) \div k = q
    <3>1. (k * q + 0) \div k = q
      BY <2>1, Quotient
    <3>2. QED
      BY <2>2, <2>3, <3>1
  <2>5. s[i] = log[from + q + 1]
    <3> HIDE DEF q, i, l
    <3>1. QED
      BY <2>3, <2>4 DEF Along
  <2>6. QED
    BY <1>2, <2>1, <2>3, <2>5 DEF ToSet
<1>8. QED
  BY <1>5, <1>6, <1>7 DEF w

-----------------------------------------------------------------------------
(* Types, and the numbers of the writes.                                   *)

\* Strictly increasing.
Rising(s) == \A i, j \in 1 .. Len(s) : i < j => s[i] < s[j]

DataTypes ==
    /\ issued \in 0 .. MaxWrites
    /\ applied \in Seq(Writes) /\ stream \in Seq(Writes)
    /\ queue \in [Clients -> [open : BOOLEAN, cmds : Seq(Writes)]]
    /\ dropped \in SUBSET Writes /\ local \in SUBSET Writes
    /\ Rising(stream) /\ Len(stream) <= issued
    /\ \A i \in 1 .. Len(stream) : stream[i] <= issued

MemberTypes ==
    /\ fd \in [Peers -> {0} \cup Fds]
    /\ sockets \in SUBSET Peers
    /\ registered \in SUBSET Replicas
    /\ \A p \in sockets \cup registered : fd[p] \in Fds
    /\ joined \in [Replicas -> 0 .. MaxWrites]
    /\ \A r \in Replicas : joined[r] <= Len(stream)
    /\ inherited \in SUBSET Replicas

WaitRecords ==
    [on : BOOLEAN, acks : Nat, at : 0 .. MaxWrites, watch : SUBSET Fds,
     heard : SUBSET Replicas, strays : Nat]
WaitTypes == wait \in WaitRecords /\ waits \in 0 .. MaxWaits

LinkTypes ==
    /\ master \in {"up", "down"}
    /\ toReplica \in [Replicas -> Seq(ToReplicaMsgs)]
    /\ toMaster \in [Replicas -> Seq(ToMasterMsgs)]
    /\ phase \in [Replicas -> Phases]
    /\ copy \in [Replicas -> Seq(Writes)]
    /\ disturbed \in SUBSET Replicas

TypesInv == DataTypes /\ MemberTypes /\ WaitTypes /\ LinkTypes

LEMMA WriteNumbers ==
  ASSUME NEW s \in Seq(Writes)
  PROVE  \A i \in 1 .. Len(s) : s[i] \in Writes /\ s[i] \in Nat
<1>1. \A i \in 1 .. Len(s) : s[i] \in Writes
  OBVIOUS
<1>2. \A w \in Writes : w \in Nat
  BY DEF Writes
<1>3. QED
  BY <1>1, <1>2

LEMMA TypesAreTypeOK ==
  ASSUME TypesInv
  PROVE  TypeOK
BY DEF TypesInv, DataTypes, MemberTypes, WaitTypes, WaitRecords, LinkTypes, TypeOK

LEMMA TypesInit ==
  ASSUME Init
  PROVE  TypesInv
<1>1. MaxWrites \in Nat /\ MaxWaits \in Nat
  BY BoundsAssumption
<1>2. <<>> \in Seq(Writes) /\ Len(<<>>) = 0 /\ <<>> \in Seq(ToReplicaMsgs) /\ <<>> \in Seq(ToMasterMsgs)
      /\ stream = <<>>
  BY DEF Init
<1>3. DataTypes
  <2>1. NoTx \in [open : BOOLEAN, cmds : Seq(Writes)]
    BY DEF NoTx
  <2>2. queue \in [Clients -> [open : BOOLEAN, cmds : Seq(Writes)]]
    BY <2>1 DEF Init
  <2>3. issued = 0 /\ applied = <<>> /\ dropped = {} /\ local = {}
    BY DEF Init
  <2>4. Rising(stream) /\ Len(stream) <= issued /\ \A i \in 1 .. Len(stream) : stream[i] <= issued
    BY <1>2, <2>3 DEF Rising
  <2>5. QED
    BY <1>1, <1>2, <2>2, <2>3, <2>4 DEF DataTypes
<1>4. MemberTypes
  <2>1. fd \in [Peers -> {0} \cup Fds] /\ joined \in [Replicas -> 0 .. MaxWrites]
        /\ \A r \in Replicas : joined[r] = 0
    BY <1>1 DEF Init
  <2>2. sockets = {} /\ registered = {} /\ inherited = {}
    BY DEF Init
  <2>3. QED
    BY <1>2, <2>1, <2>2 DEF MemberTypes
<1>5. WaitTypes
  <2>1. NoWait \in WaitRecords
    BY <1>1 DEF NoWait, WaitRecords
  <2>2. QED
    BY <1>1, <2>1 DEF Init, WaitTypes
<1>6. LinkTypes
  BY <1>2 DEF Init, LinkTypes, Phases
<1>7. QED
  BY <1>3, <1>4, <1>5, <1>6 DEF TypesInv

-----------------------------------------------------------------------------
(* What each action does.                                                  *)

\* A step of a replica or of its connection.
ReplicaActs(r) ==
    \/ WaitRead(r) \/ HandleReplica(r) \/ ReplicaEof(r) \/ ReplicaReset(r)
    \/ Start(r) \/ HandshakeRead(r) \/ LoopRead(r) \/ LosesMaster(r) \/ Kill(r)

LEMMA NextCases ==
  ASSUME [Next]_vars
  PROVE  \/ \E c \in Clients, cmd \in Cmds : WriteCmd(c, cmd) \/ QueueCmd(c, cmd)
         \/ \E c \in Clients : Multi(c) \/ Exec(c) \/ Discard(c)
         \/ \E c \in Clients : Connect(c) \/ WaitCmd(c) \/ WaitSwallows(c)
         \/ WaitTimeout
         \/ \E r \in Replicas : ReplicaActs(r)
         \/ UNCHANGED vars
BY DEF Next, ClientStep, ReplicaStep, ReplicaActs

LEMMA EntriesFinite ==
  ASSUME NEW r \in Replicas, NEW ports \in SUBSET Replicas
  PROVE  /\ EntriesOf(r, ports) \subseteq ports
         /\ Cardinality(EntriesOf(r, ports)) \in Nat
         /\ EntriesOf(r, ports) = {} <=> Cardinality(EntriesOf(r, ports)) = 0
<1>1. EntriesOf(r, ports) \subseteq ports
  BY DEF EntriesOf
<1>2. IsFiniteSet(EntriesOf(r, ports))
  BY <1>1, FiniteAssumption, FS_Subset
<1>3. QED
  BY <1>1, <1>2, FS_CardinalityType, FS_EmptySet

LEMMA SendToEffect ==
  ASSUME TypesInv, NEW ports \in SUBSET Replicas, NEW m \in ToReplicaMsgs, SendTo(ports, m)
  PROVE  /\ toReplica' \in [Replicas -> Seq(ToReplicaMsgs)]
         /\ disturbed' \in SUBSET Replicas
         /\ \A r \in Replicas :
              /\ toReplica'[r] = toReplica[r] \o Copies(m, Cardinality(EntriesOf(r, ports)))
              /\ r \in disturbed' <=> r \in disturbed \/ (Joining(r) /\ EntriesOf(r, ports) # {})
<1>1. toReplica \in [Replicas -> Seq(ToReplicaMsgs)] /\ disturbed \in SUBSET Replicas
  BY DEF TypesInv, LinkTypes
<1>2. toReplica' = [r \in Replicas |-> toReplica[r] \o Copies(m, Cardinality(EntriesOf(r, ports)))]
  BY DEF SendTo, Copies
<1>3. ASSUME NEW r \in Replicas
      PROVE  toReplica[r] \o Copies(m, Cardinality(EntriesOf(r, ports))) \in Seq(ToReplicaMsgs)
  <2>1. Copies(m, Cardinality(EntriesOf(r, ports))) \in Seq(ToReplicaMsgs)
    BY EntriesFinite, CopiesType
  <2>2. QED
    BY <1>1, <2>1
<1>4. QED
  BY <1>1, <1>2, <1>3 DEF SendTo

LEMMA ToAllEffect ==
  ASSUME master = "up", NEW m, ToAll(m)
  PROVE  /\ master' \in {"up", "down"}
         /\ \E ports \in SUBSET registered : SendTo(ports, m) /\ (master' = "up" => ports = registered)
<1>1. CASE SendTo(registered, m) /\ UNCHANGED master
  BY <1>1
<1>2. CASE \E failing \in {p \in registered : MustFail(p) \/ MayFail(p)} :
           \E reached \in SUBSET {p \in registered \ {failing} : ~MustFail(p)} :
              SendTo(reached, m) /\ master' = "down"
  <2>1. PICK failing \in registered :
               \E reached \in SUBSET {p \in registered \ {failing} : ~MustFail(p)} :
                  SendTo(reached, m) /\ master' = "down"
    BY <1>2
  <2>2. PICK reached \in SUBSET {p \in registered \ {failing} : ~MustFail(p)} :
               SendTo(reached, m) /\ master' = "down"
    BY <2>1
  <2>3. reached \in SUBSET registered
    BY <2>2
  <2>4. QED
    BY <2>2, <2>3
<1>3. QED
  BY <1>1, <1>2 DEF ToAll

LEMMA MessageTypes ==
         /\ \A id \in Writes : Numbered("write", id) \in ToReplicaMsgs
         /\ \A id \in 0 .. MaxWaits : Numbered("getack", id) \in ToReplicaMsgs
         /\ \A id \in 0 .. MaxWaits : Numbered("ack", id) \in ToMasterMsgs
         /\ \A kind \in {"pong", "ok", "fullresync", "rdb"} : Msg(kind) \in ToReplicaMsgs
         /\ \A kind \in {"ping", "port", "capa", "psync"} : Msg(kind) \in ToMasterMsgs
<1>1. 0 \in 0 .. MaxWaits
  BY BoundsAssumption
<1>2. QED
  BY <1>1 DEF Numbered, Msg, ToReplicaMsgs, ToMasterMsgs

LEMMA MessageFields ==
         /\ \A m \in ToReplicaMsgs : m.kind \in Others \cup {"write"}
         /\ \A m \in ToReplicaMsgs : m.kind = "write" => m.id \in Writes
         /\ \A m \in ToReplicaMsgs : m.kind # "write" => m.id \in 0 .. MaxWaits
         /\ \A m \in ToMasterMsgs : m.kind \in {"ping", "port", "capa", "psync", "ack"}
         /\ \A m \in ToMasterMsgs : m.id \in 0 .. MaxWaits
BY DEF ToReplicaMsgs, ToMasterMsgs, Others

\* A write command.
LEMMA NewWrite ==
  ASSUME DataTypes, NEW c \in Clients, NEW cmd \in Cmds, WriteCmd(c, cmd) \/ QueueCmd(c, cmd)
  PROVE  /\ issued' = issued + 1 /\ issued' \in Writes
         /\ LoopFree /\ UNCHANGED <<memberVars, waitVars, toMaster, phase, copy>>
         /\ \/ cmd = "set" /\ stream' = Append(stream, issued') /\ local' = local
               /\ ToAll(Numbered("write", issued'))
            \/ cmd = "incr" /\ stream' = stream /\ local' = local \cup {issued'}
               /\ UNCHANGED <<toReplica, master, disturbed>>
<1>1. issued \in 0 .. MaxWrites /\ MaxWrites \in Nat
  BY BoundsAssumption DEF DataTypes
<1>2. issued' = NextWrite /\ NextWrite <= MaxWrites /\ Propagate(cmd, NextWrite)
      /\ LoopFree /\ UNCHANGED <<memberVars, waitVars, toMaster, replicaVars>>
  BY DEF WriteCmd, QueueCmd, Serves
<1>3. issued' = issued + 1 /\ issued' \in Writes /\ NextWrite = issued'
  BY <1>1, <1>2 DEF NextWrite, Writes
<1>4. cmd \in {"set", "incr"}
  BY CmdsAssumption
<1>5. QED
  BY <1>2, <1>3, <1>4 DEF Propagate, replicaVars

LEMMA StreamGrows ==
  ASSUME DataTypes, NEW id, id = issued + 1, id \in Writes
  PROVE  /\ Append(stream, id) \in Seq(Writes) /\ Len(Append(stream, id)) = Len(stream) + 1
         /\ Rising(Append(stream, id)) /\ Len(stream) + 1 <= id
         /\ \A i \in 1 .. Len(stream) + 1 : Append(stream, id)[i] <= id
         /\ id \notin ToSet(stream)
<1>1. /\ stream \in Seq(Writes) /\ issued \in Nat /\ Len(stream) \in Nat /\ Len(stream) <= issued
      /\ \A i \in 1 .. Len(stream) : stream[i] <= issued /\ stream[i] \in Nat
      /\ \A i, j \in 1 .. Len(stream) : i < j => stream[i] < stream[j]
  <2>1. stream \in Seq(Writes) /\ \A i \in 1 .. Len(stream) : stream[i] <= issued
    BY DEF DataTypes
  <2>2. issued \in Nat /\ Len(stream) \in Nat /\ Len(stream) <= issued
    BY DEF DataTypes
  <2>3. \A i \in 1 .. Len(stream) : stream[i] \in Nat
    BY <2>1, WriteNumbers
  <2>4. \A i, j \in 1 .. Len(stream) : i < j => stream[i] < stream[j]
    BY DEF DataTypes, Rising
  <2>5. QED
    BY <2>1, <2>2, <2>3, <2>4
<1> DEFINE s == Append(stream, id)
<1>2. /\ s \in Seq(Writes) /\ Len(s) = Len(stream) + 1 /\ s[Len(stream) + 1] = id
      /\ \A i \in 1 .. Len(stream) : s[i] = stream[i]
  BY <1>1
<1> HIDE DEF s
<1>3. \A i \in 1 .. Len(stream) : s[i] < id
  BY <1>1, <1>2
<1>4. \A i \in 1 .. Len(stream) + 1 : i \in 1 .. Len(stream) \/ i = Len(stream) + 1
  BY <1>1
<1>5. \A i \in 1 .. Len(stream) + 1 : s[i] <= id
  BY <1>1, <1>2, <1>3, <1>4
<1>6. ASSUME NEW i \in 1 .. Len(s), NEW j \in 1 .. Len(s), i < j PROVE s[i] < s[j]
  <2>1. i \in 1 .. Len(stream)
    BY <1>1, <1>2, <1>6
  <2>2. CASE j = Len(stream) + 1
    BY <1>2, <1>3, <2>1, <2>2
  <2>3. CASE j # Len(stream) + 1
    <3>1. j \in 1 .. Len(stream)
      BY <1>2, <1>4, <2>3
    <3>2. QED
      BY <1>1, <1>2, <1>6, <2>1, <3>1
  <2>4. QED
    BY <2>2, <2>3
<1>7. id \notin ToSet(stream)
  BY <1>1 DEF ToSet
<1>8. QED
  BY <1>1, <1>2, <1>5, <1>6, <1>7 DEF Rising, s

LEMMA DataNext ==
  ASSUME TypesInv, [Next]_vars
  PROVE  /\ DataTypes'
         /\ \/ stream' = stream
            \/ \E id \in Writes : stream' = Append(stream, id) /\ id \notin ToSet(stream)
<1>0. DataTypes /\ MaxWrites \in Nat
  BY BoundsAssumption DEF TypesInv
<1>1. ASSUME NEW c \in Clients, NEW cmd \in Cmds, WriteCmd(c, cmd) \/ QueueCmd(c, cmd)
      PROVE  /\ DataTypes'
             /\ \/ stream' = stream
                \/ \E id \in Writes : stream' = Append(stream, id) /\ id \notin ToSet(stream)
  <2>1. /\ issued' = issued + 1 /\ issued' \in Writes /\ issued' \in 0 .. MaxWrites
        /\ \/ stream' = Append(stream, issued') /\ local' = local
           \/ stream' = stream /\ local' = local \cup {issued'}
    BY <1>0, <1>1, NewWrite DEF DataTypes, Writes
  <2>2. /\ stream' \in Seq(Writes) /\ Rising(stream') /\ Len(stream') <= issued'
        /\ \A i \in 1 .. Len(stream') : stream'[i] <= issued'
        /\ stream' = stream \/ issued' \notin ToSet(stream)
    <3>1. CASE stream' = Append(stream, issued')
      BY <1>0, <2>1, <3>1, StreamGrows
    <3>2. CASE stream' = stream
      <4>1. issued \in Nat /\ Len(stream) \in Nat /\ \A i \in 1 .. Len(stream) : stream[i] \in Nat
        BY <1>0 DEF DataTypes, Writes
      <4>2. QED
        BY <1>0, <2>1, <3>2, <4>1 DEF DataTypes
    <3>3. QED
      BY <2>1, <3>1, <3>2
  <2>3. /\ applied' \in Seq(Writes) /\ dropped' \in SUBSET Writes
        /\ queue' \in [Clients -> [open : BOOLEAN, cmds : Seq(Writes)]]
    <3>1. CASE WriteCmd(c, cmd)
      <4>1. /\ queue' = queue
            /\ applied' = applied \/ applied' = Append(applied, issued')
            /\ dropped' = dropped \/ dropped' = dropped \cup {issued'}
        BY <1>0, <2>1, <3>1 DEF WriteCmd, NextWrite, DataTypes
      <4>2. applied \in Seq(Writes) /\ Append(applied, issued') \in Seq(Writes)
        BY <1>0, <2>1 DEF DataTypes
      <4>3. dropped \in SUBSET Writes /\ dropped \cup {issued'} \in SUBSET Writes
        BY <1>0, <2>1 DEF DataTypes
      <4>4. queue' \in [Clients -> [open : BOOLEAN, cmds : Seq(Writes)]]
        BY <1>0, <4>1 DEF DataTypes
      <4>5. QED
        BY <4>1, <4>2, <4>3, <4>4
    <3>2. CASE QueueCmd(c, cmd)
      <4>1. applied' = applied /\ dropped' = dropped /\ queue' = [queue EXCEPT ![c].cmds = Append(@, issued')]
        BY <3>2 DEF QueueCmd
      <4>2. queue[c].cmds \in Seq(Writes) /\ Append(queue[c].cmds, issued') \in Seq(Writes)
        BY <1>0, <2>1 DEF DataTypes
      <4>3. [queue[c] EXCEPT !.cmds = Append(queue[c].cmds, issued')] \in [open : BOOLEAN, cmds : Seq(Writes)]
        BY <1>0, <4>2 DEF DataTypes
      <4>4. QED
        BY <1>0, <4>1, <4>3 DEF DataTypes
    <3>3. QED
      BY <1>1, <3>1, <3>2
  <2>4. QED
    BY <1>0, <2>1, <2>2, <2>3 DEF DataTypes
<1>2. ASSUME NEW c \in Clients, Multi(c) \/ Exec(c) \/ Discard(c)
      PROVE  DataTypes' /\ stream' = stream
  <2>1. UNCHANGED <<issued, stream, local>>
    BY <1>2 DEF Multi, Exec, Discard
  <2>2. queue' \in [Clients -> [open : BOOLEAN, cmds : Seq(Writes)]]
    <3>1. {NoTx, [open |-> TRUE, cmds |-> <<>>]} \subseteq [open : BOOLEAN, cmds : Seq(Writes)]
      BY DEF NoTx
    <3>2. \E q \in {NoTx, [open |-> TRUE, cmds |-> <<>>]} : queue' = [queue EXCEPT ![c] = q]
      BY <1>2 DEF Multi, Exec, Discard
    <3>3. QED
      BY <1>0, <3>1, <3>2 DEF DataTypes
  <2>3. queue[c].cmds \in Seq(Writes) /\ ToSet(queue[c].cmds) \subseteq Writes
    <3>1. queue[c].cmds \in Seq(Writes)
      BY <1>0 DEF DataTypes
    <3>2. QED
      BY <3>1 DEF ToSet
  <2>4. applied' \in Seq(Writes) /\ dropped' \in SUBSET Writes
    <3>1. CASE Multi(c)
      BY <1>0, <3>1 DEF Multi, DataTypes
    <3>2. CASE Discard(c)
      BY <1>0, <2>3, <3>2 DEF Discard, DataTypes
    <3>3. CASE Exec(c)
      <4>1. PICK refused \in SUBSET ToSet(queue[c].cmds) :
               /\ applied' = applied \o Filtered(queue[c].cmds, Writes \ refused)
               /\ dropped' = dropped \cup refused
        BY <3>3 DEF Exec
      <4>2. Filtered(queue[c].cmds, Writes \ refused) \in Seq(Writes)
        BY <2>3, FilteredType
      <4>3. QED
        BY <1>0, <2>3, <4>1, <4>2 DEF DataTypes
    <3>4. QED
      BY <1>2, <3>1, <3>2, <3>3
  <2>5. QED
    BY <1>0, <2>1, <2>2, <2>4 DEF DataTypes
<1>3. ASSUME NEW c \in Clients, WaitSwallows(c)
      PROVE  DataTypes' /\ stream' = stream
  <2>1. UNCHANGED <<applied, stream, queue, dropped, local>> /\ issued' = issued + 1 /\ issued' \in 0 .. MaxWrites
    BY <1>0, <1>3 DEF WaitSwallows, NextWrite, DataTypes
  <2>2. issued \in Nat /\ Len(stream) \in Nat /\ \A i \in 1 .. Len(stream) : stream[i] \in Nat
    BY <1>0 DEF DataTypes, Writes
  <2>3. Len(stream') <= issued' /\ \A i \in 1 .. Len(stream') : stream'[i] <= issued'
    BY <1>0, <2>1, <2>2 DEF DataTypes
  <2>4. QED
    BY <1>0, <2>1, <2>3 DEF DataTypes
<1>4. ASSUME UNCHANGED dataVars
      PROVE  DataTypes' /\ stream' = stream
  BY <1>0, <1>4 DEF dataVars, DataTypes
<1>5. ASSUME NEW c \in Clients, Connect(c) \/ WaitCmd(c) PROVE UNCHANGED dataVars
  BY <1>5 DEF Connect, WaitCmd
<1>6. ASSUME NEW r \in Replicas, ReplicaActs(r) PROVE UNCHANGED dataVars
  BY <1>6 DEF ReplicaActs, WaitRead, HandleReplica, ReplicaEof, ReplicaReset, Start,
              HandshakeRead, LoopRead, LosesMaster, Kill
<1>7. WaitTimeout \/ UNCHANGED vars => UNCHANGED dataVars
  BY DEF WaitTimeout, vars
<1>8. QED
  BY <1>1, <1>2, <1>3, <1>4, <1>5, <1>6, <1>7, NextCases

LEMMA MemberNext ==
  ASSUME TypesInv, DataTypes', Len(stream) <= Len(stream'), [Next]_vars
  PROVE  MemberTypes'
<1>0. MemberTypes /\ DataTypes /\ Len(stream) \in Nat /\ Len(stream') \in Nat
      /\ Len(stream) \in 0 .. MaxWrites
  BY BoundsAssumption DEF TypesInv, DataTypes
<1>1. ASSUME UNCHANGED memberVars PROVE MemberTypes'
  <2>1. UNCHANGED <<fd, sockets, registered, joined, inherited>>
    BY <1>1 DEF memberVars
  <2>2. \A r \in Replicas : joined[r] \in Nat /\ joined[r] <= Len(stream')
    BY <1>0 DEF MemberTypes
  <2>3. QED
    BY <1>0, <2>1, <2>2 DEF MemberTypes
<1>2. ASSUME NEW p \in Peers, Accept(p), UNCHANGED <<registered, joined, stream>> PROVE MemberTypes'
  <2>1. PICK n \in Fds : /\ fd' = [fd EXCEPT ![p] = n] /\ sockets' = sockets \cup {p}
                         /\ inherited' \in {inherited, inherited \cup ({p} \cap Replicas)}
    BY <1>2 DEF Accept
  <2>2. fd' \in [Peers -> {0} \cup Fds] /\ sockets' \in SUBSET Peers /\ inherited' \in SUBSET Replicas
    BY <1>0, <2>1 DEF MemberTypes
  <2>3. \A q \in sockets' \cup registered' : fd'[q] \in Fds
    BY <1>0, <1>2, <2>1 DEF MemberTypes
  <2>4. QED
    BY <1>0, <1>2, <2>2, <2>3 DEF MemberTypes
<1>3. ASSUME NEW r \in Replicas, HandleReplica(r) PROVE MemberTypes'
  <2>1. /\ UNCHANGED <<fd, sockets, inherited, stream>>
        /\ \/ registered' = registered \cup {r} /\ joined' = [joined EXCEPT ![r] = Len(stream)]
           \/ UNCHANGED <<registered, joined>>
    BY <1>3 DEF HandleReplica, dataVars
  <2>2. CASE registered' = registered \cup {r} /\ joined' = [joined EXCEPT ![r] = Len(stream)]
    <3>1. joined' \in [Replicas -> 0 .. MaxWrites] /\ \A q \in Replicas : joined'[q] <= Len(stream)
      BY <1>0, <2>2 DEF MemberTypes
    <3>2. r \in sockets
      BY <1>3 DEF HandleReplica
    <3>3. QED
      BY <1>0, <2>1, <2>2, <3>1, <3>2 DEF MemberTypes
  <2>3. CASE UNCHANGED <<registered, joined>>
    BY <1>0, <2>1, <2>3 DEF MemberTypes
  <2>4. QED
    BY <2>1, <2>2, <2>3
<1>4. ASSUME NEW r \in Replicas, ReplicaEof(r) PROVE MemberTypes'
  <2>1. sockets' = sockets \ {r} /\ UNCHANGED <<fd, registered, joined, inherited, stream>>
    BY <1>4 DEF ReplicaEof, dataVars
  <2>2. QED
    BY <1>0, <2>1 DEF MemberTypes
<1>5. ASSUME NEW c \in Clients, Connect(c) PROVE MemberTypes'
  <2>1. c \in Peers /\ Accept(c) /\ UNCHANGED <<registered, joined, stream>>
    BY <1>5 DEF Connect, dataVars, Peers
  <2>2. QED
    BY <1>2, <2>1
<1>6. ASSUME NEW r \in Replicas, Start(r) PROVE MemberTypes'
  <2>1. r \in Peers /\ Accept(r) /\ UNCHANGED <<registered, joined, stream>>
    BY <1>6 DEF Start, dataVars, Peers
  <2>2. QED
    BY <1>2, <2>1
<1>7. ASSUME NEW c \in Clients, NEW cmd \in Cmds, WriteCmd(c, cmd) \/ QueueCmd(c, cmd)
      PROVE  UNCHANGED memberVars
  BY <1>7 DEF WriteCmd, QueueCmd
<1>8. ASSUME NEW c \in Clients, Multi(c) \/ Exec(c) \/ Discard(c) \/ WaitCmd(c) \/ WaitSwallows(c)
      PROVE  UNCHANGED memberVars
  BY <1>8 DEF Multi, Exec, Discard, WaitCmd, WaitSwallows
<1>9. ASSUME NEW r \in Replicas, WaitRead(r) \/ ReplicaReset(r) \/ HandshakeRead(r) \/ LoopRead(r)
                                 \/ LosesMaster(r) \/ Kill(r)
      PROVE  UNCHANGED memberVars
  BY <1>9 DEF WaitRead, ReplicaReset, HandshakeRead, LoopRead, LosesMaster, Kill
<1>10. WaitTimeout \/ UNCHANGED vars => UNCHANGED memberVars
  BY DEF WaitTimeout, vars
<1>11. QED
  BY <1>1, <1>3, <1>4, <1>5, <1>6, <1>7, <1>8, <1>9, <1>10, NextCases DEF ReplicaActs

\* A WAIT begins.
LEMMA WaitBegins ==
  ASSUME TypesInv, NEW c \in Clients, WaitCmd(c)
  PROVE  /\ LoopFree /\ waits' = waits + 1 /\ waits' \in 0 .. MaxWaits
         /\ UNCHANGED <<dataVars, memberVars, toMaster, phase, copy>>
         /\ \/ UNCHANGED <<master, wait, toReplica, disturbed>>
            \/ ToAll(Numbered("getack", waits')) /\ master' = "down" /\ wait' = wait
            \/ /\ ToAll(Numbered("getack", waits')) /\ master' = "up"
               /\ wait' \in WaitRecords
               /\ wait'.on = TRUE /\ wait'.acks = 0 /\ wait'.at = Len(stream)
               /\ wait'.heard = {} /\ wait'.strays = 0
<1>0. waits \in 0 .. MaxWaits /\ MaxWaits \in Nat /\ MemberTypes /\ Len(stream) \in 0 .. MaxWrites
  BY BoundsAssumption DEF TypesInv, WaitTypes, DataTypes
<1>1. LoopFree /\ waits' = waits + 1 /\ waits' \in 0 .. MaxWaits
      /\ UNCHANGED <<dataVars, memberVars, toMaster, phase, copy>>
  BY <1>0 DEF WaitCmd, Serves, replicaVars
<1>2. CASE NothingWritten
  <2>1. UNCHANGED <<master, wait, toReplica, disturbed>>
    BY <1>2 DEF WaitCmd
  <2>2. QED
    BY <1>1, <2>1
<1>3. CASE ~NothingWritten
  <2>1. ToAll(Numbered("getack", waits'))
        /\ wait' = IF master' = "down" THEN wait
                   ELSE [NoWait EXCEPT !.on = TRUE, !.at = Len(stream),
                                       !.watch = {fd[p] : p \in registered}]
    BY <1>3 DEF WaitCmd
  <2>2. master' \in {"up", "down"}
    BY <1>1, <2>1, ToAllEffect DEF LoopFree
  <2>3. CASE master' = "down"
    BY <1>1, <2>1, <2>3
  <2>4. CASE master' = "up"
    <3> DEFINE watches == {fd[p] : p \in registered}
    <3>1. wait' = [on |-> TRUE, acks |-> 0, at |-> Len(stream), watch |-> watches, heard |-> {}, strays |-> 0]
      BY <2>1, <2>4 DEF NoWait
    <3>2. wait'.on = TRUE /\ wait'.acks = 0 /\ wait'.at = Len(stream) /\ wait'.heard = {} /\ wait'.strays = 0
      BY <3>1
    <3>3. watches \in SUBSET Fds
      BY <1>0 DEF MemberTypes
    <3> HIDE DEF watches
    <3>4. wait' \in WaitRecords
      BY <1>0, <3>1, <3>3 DEF WaitRecords
    <3>5. QED
      BY <1>1, <2>1, <2>4, <3>2, <3>4
  <2>5. QED
    BY <2>2, <2>3, <2>4
<1>4. QED
  BY <1>2, <1>3

LEMMA WaitNext ==
  ASSUME TypesInv, [Next]_vars
  PROVE  WaitTypes'
<1>0. wait \in WaitRecords /\ waits \in 0 .. MaxWaits
  BY DEF TypesInv, WaitTypes
<1>1. ASSUME UNCHANGED waitVars PROVE WaitTypes'
  BY <1>0, <1>1 DEF waitVars, WaitTypes, WaitRecords
<1>2. ASSUME NEW c \in Clients, WaitCmd(c) PROVE WaitTypes'
  <2>1. waits' \in 0 .. MaxWaits /\ (wait' = wait \/ wait' \in WaitRecords)
    BY <1>2, WaitBegins
  <2>2. QED
    BY <1>0, <2>1 DEF WaitTypes, WaitRecords
<1>3. CASE WaitTimeout
  <2>1. NoWait \in WaitRecords
    BY BoundsAssumption DEF NoWait, WaitRecords
  <2>2. QED
    BY <1>0, <1>3, <2>1 DEF WaitTimeout, WaitTypes, WaitRecords
<1>4. ASSUME NEW p \in Peers, Unwatched(p) PROVE wait' \in WaitRecords
  <2>1. wait.watch \ {fd[p]} \in SUBSET Fds
    BY <1>0 DEF WaitRecords
  <2>2. QED
    BY <1>0, <1>4, <2>1 DEF Unwatched, WaitRecords
<1>5. ASSUME NEW heard \in SUBSET Replicas, Counted(heard) PROVE wait' \in WaitRecords
  <2>1. wait.acks + 1 \in Nat /\ wait.strays + 1 \in Nat /\ wait.heard \cup heard \in SUBSET Replicas
    BY <1>0 DEF WaitRecords
  <2>2. (IF heard = {} THEN wait.strays + 1 ELSE wait.strays) \in Nat
    BY <1>0, <2>1 DEF WaitRecords
  <2>3. QED
    BY <1>0, <1>5, <2>1, <2>2 DEF Counted, WaitRecords
<1>6. ASSUME NEW c \in Clients, WaitSwallows(c) PROVE WaitTypes'
  <2>1. waits' = waits /\ (Counted({}) \/ Unwatched(c) \/ wait' = wait) /\ c \in Peers
    BY <1>6 DEF WaitSwallows, Peers
  <2>2. wait' \in WaitRecords
    BY <1>0, <1>4, <1>5, <2>1
  <2>3. QED
    BY <1>0, <2>1, <2>2 DEF WaitTypes, WaitRecords
<1>7. ASSUME NEW r \in Replicas, WaitRead(r) PROVE WaitTypes'
  <2>1. waits' = waits /\ r \in Peers
        /\ (Counted({r}) \/ Counted({}) \/ Unwatched(r) \/ wait' = wait)
    <3>1. waits' = waits /\ r \in Peers
      BY <1>7 DEF WaitRead, Peers
    <3>2. \/ Head(toMaster[r]).kind = "capa" /\ Unwatched(r)
          \/ Head(toMaster[r]).kind = "ping" /\ wait' = wait
          \/ Counted(IF Answers(r, Head(toMaster[r])) THEN {r} ELSE {})
      BY <1>7 DEF WaitRead
    <3>3. QED
      BY <3>1, <3>2
  <2>2. wait' \in WaitRecords
    BY <1>0, <1>4, <1>5, <2>1
  <2>3. QED
    BY <1>0, <2>1, <2>2 DEF WaitTypes, WaitRecords
<1>8. ASSUME NEW c \in Clients, NEW cmd \in Cmds, WriteCmd(c, cmd) \/ QueueCmd(c, cmd)
      PROVE  UNCHANGED waitVars
  BY <1>8 DEF WriteCmd, QueueCmd
<1>9. ASSUME NEW c \in Clients, Multi(c) \/ Exec(c) \/ Discard(c) \/ Connect(c)
      PROVE  UNCHANGED waitVars
  BY <1>9 DEF Multi, Exec, Discard, Connect
<1>10. ASSUME NEW r \in Replicas,
              HandleReplica(r) \/ ReplicaEof(r) \/ ReplicaReset(r) \/ Start(r)
              \/ HandshakeRead(r) \/ LoopRead(r) \/ LosesMaster(r) \/ Kill(r)
       PROVE  UNCHANGED waitVars
  BY <1>10 DEF HandleReplica, ReplicaEof, ReplicaReset, Start, HandshakeRead, LoopRead, LosesMaster, Kill
<1>11. UNCHANGED vars => UNCHANGED waitVars
  BY DEF vars
<1>12. QED
  BY <1>1, <1>2, <1>3, <1>6, <1>7, <1>8, <1>9, <1>10, <1>11, NextCases DEF ReplicaActs

\* What the master answers.
Answering == {"pong", "ok", "fullresync", "rdb"}

LEMMA ReplyFacts ==
  ASSUME NEW m
  PROVE  /\ Reply(m) \in Seq(ToReplicaMsgs) /\ OfKinds(Reply(m), Answering)
         /\ m.kind = "ping" => Reply(m) = <<Msg("pong")>>
         /\ m.kind = "psync" => Reply(m) = <<Msg("fullresync"), Msg("rdb")>>
         /\ m.kind \notin {"ping", "psync"} => Reply(m) = <<Msg("ok")>>
<1>1. ASSUME NEW x \in ToReplicaMsgs, NEW y \in ToReplicaMsgs, x.kind \in Answering, y.kind \in Answering
      PROVE  /\ <<x>> \in Seq(ToReplicaMsgs) /\ OfKinds(<<x>>, Answering)
             /\ <<x, y>> \in Seq(ToReplicaMsgs) /\ OfKinds(<<x, y>>, Answering)
  BY <1>1 DEF OfKinds
<1>2. \A kind \in Answering : Msg(kind) \in ToReplicaMsgs /\ Msg(kind).kind = kind
  BY MessageTypes DEF Msg, Answering
<1>3. /\ m.kind = "ping" => Reply(m) = <<Msg("pong")>>
      /\ m.kind = "psync" => Reply(m) = <<Msg("fullresync"), Msg("rdb")>>
      /\ m.kind \notin {"ping", "psync"} => Reply(m) = <<Msg("ok")>>
  BY DEF Reply
<1>4. <<Msg("pong")>> \in Seq(ToReplicaMsgs) /\ OfKinds(<<Msg("pong")>>, Answering)
  BY <1>1, <1>2 DEF Answering
<1>5. <<Msg("ok")>> \in Seq(ToReplicaMsgs) /\ OfKinds(<<Msg("ok")>>, Answering)
  BY <1>1, <1>2 DEF Answering
<1>6. <<Msg("fullresync"), Msg("rdb")>> \in Seq(ToReplicaMsgs)
      /\ OfKinds(<<Msg("fullresync"), Msg("rdb")>>, Answering)
  BY <1>1, <1>2 DEF Answering
<1>7. QED
  BY <1>3, <1>4, <1>5, <1>6

\* What a replica does in its handshake.
LEMMA HandshakeFacts ==
  ASSUME NEW p \in Handshake
  PROVE  /\ NextPhase[p] \in {"port", "capa", "psync", "rdb", "online"}
         /\ Expected[p] \in Answering
         /\ Sent[p] \in Seq(ToMasterMsgs)
         /\ Sent[p] \in {<<>>, <<Msg("port")>>, <<Msg("capa")>>, <<Msg("psync")>>}
         /\ p # "ping" => Sent[p] \in {<<>>, <<Msg("capa")>>, <<Msg("psync")>>}
<1>1. /\ NextPhase[p] \in {"port", "capa", "psync", "rdb", "online"}
      /\ Expected[p] \in Answering
      /\ Sent[p] \in {<<>>, <<Msg("port")>>, <<Msg("capa")>>, <<Msg("psync")>>}
      /\ p # "ping" => Sent[p] \in {<<>>, <<Msg("capa")>>, <<Msg("psync")>>}
  BY DEF Handshake, NextPhase, Expected, Sent, Answering
<1>2. /\ Msg("port") \in ToMasterMsgs /\ Msg("capa") \in ToMasterMsgs /\ Msg("psync") \in ToMasterMsgs
  BY MessageTypes
<1>3. /\ <<>> \in Seq(ToMasterMsgs) /\ <<Msg("port")>> \in Seq(ToMasterMsgs)
      /\ <<Msg("capa")>> \in Seq(ToMasterMsgs) /\ <<Msg("psync")>> \in Seq(ToMasterMsgs)
  BY <1>2
<1>4. QED
  BY <1>1, <1>3

LEMMA HandshakeEffect ==
  ASSUME TypesInv, NEW r \in Replicas, HandshakeRead(r)
  PROVE  /\ phase[r] \in Handshake /\ toReplica[r] # <<>>
         /\ \/ /\ Head(toReplica[r]).kind = Expected[phase[r]]
               /\ phase' = [phase EXCEPT ![r] = NextPhase[phase[r]]]
               /\ toMaster' = [toMaster EXCEPT ![r] = toMaster[r] \o Sent[phase[r]]]
            \/ /\ Head(toReplica[r]).kind # Expected[phase[r]]
               /\ phase' = [phase EXCEPT ![r] = "aborted_handshake"]
               /\ toMaster' = toMaster
            \/ /\ Head(toReplica[r]).kind # Expected[phase[r]]
               /\ phase' = [phase EXCEPT ![r] = "gone"]
               /\ toMaster' = toMaster
         /\ toReplica' = [toReplica EXCEPT ![r] = Tail(toReplica[r])]
         /\ copy' = copy
<1>1. phase \in [Replicas -> Phases]
  BY DEF TypesInv, LinkTypes
<1>2. /\ phase[r] \in Handshake /\ toReplica[r] # <<>>
      /\ toReplica' = [toReplica EXCEPT ![r] = Tail(toReplica[r])] /\ copy' = copy
      /\ phase' = [phase EXCEPT ![r] =
                     IF Head(toReplica[r]).kind = Expected[phase[r]] THEN NextPhase[phase[r]]
                     ELSE IF FirstByte(Head(toReplica[r]).kind) # FirstByte(Expected[phase[r]])
                          THEN "aborted_handshake" ELSE "gone"]
      /\ toMaster' = IF phase'[r] \in Dead THEN toMaster
                     ELSE [toMaster EXCEPT ![r] = toMaster[r] \o Sent[phase[r]]]
  BY DEF HandshakeRead
<1>3. NextPhase[phase[r]] \notin Dead
  BY <1>2, HandshakeFacts DEF Dead, Aborted
<1>4. CASE Head(toReplica[r]).kind = Expected[phase[r]]
  <2>1. phase' = [phase EXCEPT ![r] = NextPhase[phase[r]]] /\ phase'[r] = NextPhase[phase[r]]
    BY <1>1, <1>2, <1>4
  <2>2. QED
    BY <1>2, <1>3, <1>4, <2>1
<1>5. CASE Head(toReplica[r]).kind # Expected[phase[r]]
  <2>1. \/ phase' = [phase EXCEPT ![r] = "aborted_handshake"] /\ phase'[r] = "aborted_handshake"
        \/ phase' = [phase EXCEPT ![r] = "gone"] /\ phase'[r] = "gone"
    BY <1>1, <1>2, <1>5
  <2>2. QED
    BY <1>2, <1>5, <2>1 DEF Dead, Aborted
<1>6. QED
  BY <1>4, <1>5

LEMMA LinkNext ==
  ASSUME TypesInv, [Next]_vars
  PROVE  LinkTypes'
<1>0. LinkTypes /\ DataTypes /\ MemberTypes
  BY DEF TypesInv
<1> DEFINE Same == UNCHANGED <<master, toReplica, toMaster, phase, copy, disturbed>>
<1>1. ASSUME Same PROVE LinkTypes'
  BY <1>0, <1>1 DEF LinkTypes
<1>2. ASSUME NEW m \in ToReplicaMsgs, LoopFree, ToAll(m), UNCHANGED <<toMaster, phase, copy>>
      PROVE  LinkTypes'
  <2>1. PICK ports \in SUBSET registered : SendTo(ports, m) /\ master' \in {"up", "down"}
    BY <1>2, ToAllEffect DEF LoopFree
  <2>2. ports \in SUBSET Replicas
    BY <1>0 DEF MemberTypes
  <2>3. toReplica' \in [Replicas -> Seq(ToReplicaMsgs)] /\ disturbed' \in SUBSET Replicas
    BY <2>1, <2>2, SendToEffect
  <2>4. QED
    BY <1>0, <1>2, <2>1, <2>3 DEF LinkTypes
<1>3. ASSUME NEW c \in Clients, NEW cmd \in Cmds, WriteCmd(c, cmd) \/ QueueCmd(c, cmd) PROVE LinkTypes'
  <2>1. issued' \in Writes /\ LoopFree /\ UNCHANGED <<toMaster, phase, copy>>
        /\ (ToAll(Numbered("write", issued')) \/ UNCHANGED <<toReplica, master, disturbed>>)
    BY <1>0, <1>3, NewWrite
  <2>2. Numbered("write", issued') \in ToReplicaMsgs
    BY <2>1, MessageTypes
  <2>3. QED
    BY <1>1, <1>2, <2>1, <2>2
<1>4. ASSUME NEW c \in Clients, WaitCmd(c) PROVE LinkTypes'
  <2>1. waits' \in 0 .. MaxWaits /\ LoopFree /\ UNCHANGED <<toMaster, phase, copy>>
        /\ (ToAll(Numbered("getack", waits')) \/ UNCHANGED <<toReplica, master, disturbed>>)
    BY <1>4, WaitBegins
  <2>2. Numbered("getack", waits') \in ToReplicaMsgs
    BY <2>1, MessageTypes
  <2>3. QED
    BY <1>1, <1>2, <2>1, <2>2
<1>5. ASSUME NEW c \in Clients, Multi(c) \/ Exec(c) \/ Discard(c) \/ Connect(c) \/ WaitSwallows(c)
      PROVE  Same
  BY <1>5 DEF Multi, Exec, Discard, Connect, WaitSwallows, replicaVars
<1>6. WaitTimeout \/ UNCHANGED vars => Same
  BY DEF WaitTimeout, vars, replicaVars
<1>7. ASSUME NEW r \in Replicas, ReplicaActs(r) PROVE LinkTypes'
  <2>0. /\ toMaster[r] \in Seq(ToMasterMsgs) /\ toReplica[r] \in Seq(ToReplicaMsgs) /\ copy[r] \in Seq(Writes)
    BY <1>0 DEF LinkTypes
  <2>1. CASE WaitRead(r)
    <3>1. toMaster[r] # <<>> /\ toMaster' = [toMaster EXCEPT ![r] = Tail(toMaster[r])]
          /\ UNCHANGED <<master, toReplica, phase, copy>> /\ disturbed' \in {disturbed, disturbed \cup {r}}
      BY <2>1 DEF WaitRead, replicaVars
    <3>2. Tail(toMaster[r]) \in Seq(ToMasterMsgs)
      BY <2>0, <3>1
    <3>3. QED
      BY <1>0, <3>1, <3>2 DEF LinkTypes
  <2>2. CASE HandleReplica(r)
    <3>1. toMaster[r] # <<>> /\ toMaster' = [toMaster EXCEPT ![r] = Tail(toMaster[r])]
          /\ toReplica' = [toReplica EXCEPT ![r] = toReplica[r] \o Reply(Head(toMaster[r]))]
          /\ UNCHANGED <<master, phase, copy>> /\ disturbed' \in {disturbed, disturbed \cup {r}}
      BY <2>2 DEF HandleReplica, replicaVars
    <3>2. Tail(toMaster[r]) \in Seq(ToMasterMsgs)
      BY <2>0, <3>1
    <3>3. toReplica[r] \o Reply(Head(toMaster[r])) \in Seq(ToReplicaMsgs)
      BY <2>0, ReplyFacts
    <3>4. QED
      BY <1>0, <3>1, <3>2, <3>3 DEF LinkTypes
  <2>3. CASE Start(r)
    <3>1. /\ phase' = [phase EXCEPT ![r] = "ping"] /\ toMaster' = [toMaster EXCEPT ![r] = <<Msg("ping")>>]
          /\ UNCHANGED <<master, toReplica, copy, disturbed>>
      BY <2>3 DEF Start
    <3>2. <<Msg("ping")>> \in Seq(ToMasterMsgs) /\ "ping" \in Phases
      BY MessageTypes DEF Phases, Handshake
    <3>3. QED
      BY <1>0, <3>1, <3>2 DEF LinkTypes
  <2>4. CASE HandshakeRead(r)
    <3>1. phase[r] \in Handshake /\ toReplica[r] # <<>> /\ UNCHANGED <<master, copy, disturbed>>
      BY <2>4 DEF HandshakeRead
    <3>2. toReplica' = [toReplica EXCEPT ![r] = Tail(toReplica[r])] /\ Tail(toReplica[r]) \in Seq(ToReplicaMsgs)
      BY <2>0, <2>4, <3>1 DEF HandshakeRead
    <3>3. \E p \in Phases : phase' = [phase EXCEPT ![r] = p]
      <4>1. NextPhase[phase[r]] \in Phases /\ "aborted_handshake" \in Phases /\ "gone" \in Phases
        BY <3>1, HandshakeFacts DEF Phases, Handshake, Dead, Aborted
      <4>2. QED
        BY <2>4, <4>1, HandshakeEffect
    <3>4. toMaster' = toMaster \/ toMaster' = [toMaster EXCEPT ![r] = toMaster[r] \o Sent[phase[r]]]
      BY <2>4, HandshakeEffect
    <3>5. toMaster[r] \o Sent[phase[r]] \in Seq(ToMasterMsgs)
      BY <2>0, <3>1, HandshakeFacts
    <3>6. QED
      BY <1>0, <3>1, <3>2, <3>3, <3>4, <3>5 DEF LinkTypes
  <2>5. CASE LoopRead(r)
    <3> DEFINE m == Head(toReplica[r])
               c == IF m.kind = "write" THEN Append(copy[r], m.id) ELSE copy[r]
               t == IF m.kind = "getack" THEN Append(toMaster[r], Numbered("ack", m.id)) ELSE toMaster[r]
    <3>1. toReplica[r] # <<>> /\ UNCHANGED <<master, disturbed>>
          /\ copy' = [copy EXCEPT ![r] = c] /\ toMaster' = [toMaster EXCEPT ![r] = t]
          /\ toReplica' = [toReplica EXCEPT ![r] = Tail(toReplica[r])]
          /\ \E p \in {phase[r], "aborted_loop"} : phase' = [phase EXCEPT ![r] = p]
      BY <2>5 DEF LoopRead
    <3>2. m \in ToReplicaMsgs /\ Tail(toReplica[r]) \in Seq(ToReplicaMsgs)
      BY <2>0, <3>1
    <3> HIDE DEF m
    <3>3. c \in Seq(Writes)
      <4>1. CASE m.kind = "write"
        BY <2>0, <3>2, <4>1, MessageFields
      <4>2. CASE m.kind # "write"
        BY <2>0, <4>2
      <4>3. QED
        BY <4>1, <4>2
    <3>4. t \in Seq(ToMasterMsgs)
      <4>1. CASE m.kind = "getack"
        <5>1. Numbered("ack", m.id) \in ToMasterMsgs
          BY <3>2, <4>1, MessageFields, MessageTypes
        <5>2. QED
          BY <2>0, <4>1, <5>1
      <4>2. CASE m.kind # "getack"
        BY <2>0, <4>2
      <4>3. QED
        BY <4>1, <4>2
    <3>5. phase[r] \in Phases /\ "aborted_loop" \in Phases
      BY <1>0 DEF LinkTypes, Phases, Dead, Aborted
    <3> HIDE DEF c, t
    <3>6. QED
      BY <1>0, <3>1, <3>2, <3>3, <3>4, <3>5 DEF LinkTypes
  <2>6. CASE LosesMaster(r) \/ Kill(r)
    <3>1. UNCHANGED <<master, toReplica, toMaster, copy, disturbed>>
          /\ \E p \in {"orphan", "gone"} : phase' = [phase EXCEPT ![r] = p]
      BY <2>6 DEF LosesMaster, Kill
    <3>2. "orphan" \in Phases /\ "gone" \in Phases
      BY DEF Phases, Dead
    <3>3. QED
      BY <1>0, <3>1, <3>2 DEF LinkTypes
  <2>7. CASE ReplicaEof(r) \/ ReplicaReset(r)
    <3>1. UNCHANGED <<toReplica, toMaster, phase, copy, disturbed>> /\ master' \in {master, "down"}
      BY <2>7 DEF ReplicaEof, ReplicaReset, replicaVars
    <3>2. QED
      BY <1>0, <3>1 DEF LinkTypes
  <2>8. QED
    BY <1>7, <2>1, <2>2, <2>3, <2>4, <2>5, <2>6, <2>7 DEF ReplicaActs
<1>8. QED
  BY <1>1, <1>3, <1>4, <1>5, <1>6, <1>7, NextCases

LEMMA TypesNext ==
  ASSUME TypesInv, [Next]_vars
  PROVE  TypesInv'
<1>1. DataTypes' /\ (stream' = stream \/ \E id \in Writes : stream' = Append(stream, id))
  BY DataNext
<1>2. Len(stream) <= Len(stream')
  <2>1. stream \in Seq(Writes) /\ Len(stream) \in Nat
    BY DEF TypesInv, DataTypes
  <2>2. QED
    BY <1>1, <2>1
<1>3. QED
  BY <1>1, <1>2, MemberNext, WaitNext, LinkNext DEF TypesInv

-----------------------------------------------------------------------------
(* The numbers of the connections.                                         *)

DescriptorInv ==
    /\ \A p, q \in sockets : fd[p] = fd[q] => p = q
    /\ \A r \in Replicas : phase[r] = "off" => r \notin sockets /\ r \notin registered
    /\ \A r \in Replicas : phase[r] \notin {"off"} \cup Dead => r \in sockets
    /\ \A r \in Replicas \ inherited : r \in sockets => \A p \in registered : fd[p] = fd[r] => p = r

LEMMA DescriptorInit ==
  ASSUME Init
  PROVE  DescriptorInv
BY DEF Init, DescriptorInv

LEMMA AcceptNumber ==
  ASSUME TypesInv, NEW p \in Peers, p \notin sockets, Accept(p)
  PROVE  \E n \in Fds : /\ fd' = [fd EXCEPT ![p] = n] /\ sockets' = sockets \cup {p}
                        /\ \A q \in sockets : fd[q] # n
                        /\ inherited' = IF p \in Replicas /\ n \in {fd[q] : q \in registered}
                                        THEN inherited \cup {p} ELSE inherited
BY DEF Accept, Lowest, Holders

LEMMA DescriptorNext ==
  ASSUME TypesInv, DescriptorInv, [Next]_vars
  PROVE  DescriptorInv'
<1>0. /\ fd \in [Peers -> {0} \cup Fds] /\ sockets \in SUBSET Peers /\ registered \in SUBSET Replicas
      /\ phase \in [Replicas -> Phases] /\ Clients \cap Replicas = {} /\ Peers = Clients \cup Replicas
  BY MembersAssumption DEF TypesInv, MemberTypes, LinkTypes, Peers
<1>1. ASSUME UNCHANGED memberVars,
             \A r \in Replicas : /\ phase'[r] = "off" => phase[r] = "off"
                                 /\ phase'[r] \notin {"off"} \cup Dead => phase[r] \notin {"off"} \cup Dead
      PROVE  DescriptorInv'
  BY <1>1 DEF memberVars, DescriptorInv
<1>2. ASSUME NEW c \in Clients, Connect(c) PROVE DescriptorInv'
  <2>1. c \in Peers /\ c \notin sockets /\ Accept(c) /\ UNCHANGED <<registered, phase>> /\ c \notin Replicas
    BY <1>0, <1>2 DEF Connect, replicaVars
  <2>2. PICK n \in Fds : /\ fd' = [fd EXCEPT ![c] = n] /\ sockets' = sockets \cup {c}
                         /\ \A q \in sockets : fd[q] # n
                         /\ inherited' = inherited
    BY <2>1, AcceptNumber
  <2>3. fd'[c] = n /\ \A q \in Peers \ {c} : fd'[q] = fd[q]
    BY <1>0, <2>1, <2>2
  <2>4. \A q \in sockets : fd'[q] = fd[q] /\ q # c
    BY <1>0, <2>1, <2>3
  <2>5. \A p, q \in sockets' : fd'[p] = fd'[q] => p = q
    BY <2>2, <2>3, <2>4 DEF DescriptorInv
  <2>6. \A r \in Replicas : fd'[r] = fd[r] /\ (r \in sockets' <=> r \in sockets)
    BY <1>0, <2>1, <2>2, <2>3
  <2>7. \A r \in Replicas \ inherited : r \in sockets => \A p \in registered : fd'[p] = fd'[r] => p = r
    BY <1>0, <2>6 DEF DescriptorInv
  <2>8. QED
    BY <2>1, <2>2, <2>5, <2>6, <2>7 DEF DescriptorInv
<1>3. ASSUME NEW s \in Replicas, Start(s) PROVE DescriptorInv'
  <2>1. /\ s \in Peers /\ phase[s] = "off" /\ Accept(s) /\ registered' = registered
        /\ phase' = [phase EXCEPT ![s] = "ping"]
    BY <1>0, <1>3 DEF Start
  <2>2. s \notin sockets /\ s \notin registered
    BY <2>1 DEF DescriptorInv
  <2>3. PICK n \in Fds : /\ fd' = [fd EXCEPT ![s] = n] /\ sockets' = sockets \cup {s}
                         /\ \A q \in sockets : fd[q] # n
                         /\ inherited' = IF n \in {fd[q] : q \in registered}
                                         THEN inherited \cup {s} ELSE inherited
    BY <2>1, <2>2, AcceptNumber
  <2>4. fd'[s] = n /\ \A q \in Peers \ {s} : fd'[q] = fd[q]
    BY <1>0, <2>1, <2>3
  <2>5. /\ \A q \in sockets : fd'[q] = fd[q] /\ q # s
        /\ \A q \in registered : fd'[q] = fd[q] /\ q # s
    BY <1>0, <2>2, <2>4
  <2>6. \A p, q \in sockets' : fd'[p] = fd'[q] => p = q
    BY <2>3, <2>4, <2>5 DEF DescriptorInv
  <2>7. \A r \in Replicas \ inherited' : r \in sockets' => \A p \in registered : fd'[p] = fd'[r] => p = r
    <3>1. ASSUME NEW r \in Replicas \ inherited', r \in sockets', NEW p \in registered, fd'[p] = fd'[r]
          PROVE  p = r
      <4>1. CASE r = s
        <5>1. n \notin {fd[q] : q \in registered}
          BY <2>3, <3>1, <4>1
        <5>2. QED
          BY <2>4, <2>5, <3>1, <4>1, <5>1
      <4>2. CASE r # s
        <5>1. r \in sockets /\ r \notin inherited /\ fd[p] = fd[r]
          BY <2>3, <2>5, <3>1, <4>2
        <5>2. QED
          BY <3>1, <5>1 DEF DescriptorInv
      <4>3. QED
        BY <4>1, <4>2
    <3>2. QED
      BY <3>1
  <2>8. phase'[s] = "ping" /\ \A r \in Replicas \ {s} : phase'[r] = phase[r] /\ (r \in sockets' <=> r \in sockets)
    BY <1>0, <2>1, <2>3
  <2>9. s \in sockets'
    BY <2>3
  <2>10. QED
    BY <2>1, <2>6, <2>7, <2>8, <2>9 DEF DescriptorInv
<1>4. ASSUME NEW s \in Replicas, HandleReplica(s) PROVE DescriptorInv'
  <2>1. /\ s \in sockets /\ UNCHANGED <<fd, sockets, inherited, phase>>
        /\ registered' \in {registered, registered \cup {s}}
    BY <1>4 DEF HandleReplica, replicaVars
  <2>2. phase[s] # "off"
    BY <2>1 DEF DescriptorInv
  <2>3. QED
    BY <1>0, <2>1, <2>2 DEF DescriptorInv
<1>5. ASSUME NEW s \in Replicas, ReplicaEof(s) PROVE DescriptorInv'
  <2>1. /\ sockets' = sockets \ {s} /\ UNCHANGED <<fd, registered, inherited, phase>> /\ phase[s] \in Dead
    BY <1>5 DEF ReplicaEof, replicaVars
  <2>2. QED
    BY <1>0, <2>1 DEF DescriptorInv
<1>6. ASSUME NEW s \in Replicas, HandshakeRead(s) \/ LoopRead(s) \/ LosesMaster(s) \/ Kill(s)
      PROVE  DescriptorInv'
  <2>1. UNCHANGED memberVars
    BY <1>6 DEF HandshakeRead, LoopRead, LosesMaster, Kill
  <2>2. \E p \in Phases \ {"off"} : phase' = [phase EXCEPT ![s] = p] /\ (p \in Dead \/ phase[s] \notin {"off"} \cup Dead)
    <3>1. CASE HandshakeRead(s)
      <4>1. phase[s] \in Handshake
        BY <3>1 DEF HandshakeRead
      <4>2. /\ NextPhase[phase[s]] \in Phases \ {"off"} /\ "aborted_handshake" \in Phases \ {"off"}
            /\ "gone" \in Phases \ {"off"} /\ phase[s] \notin {"off"} \cup Dead
        BY <4>1, HandshakeFacts DEF Phases, Handshake, Dead, Aborted
      <4>3. QED
        BY <3>1, <4>2, HandshakeEffect
    <3>2. CASE LoopRead(s)
      <4>1. phase[s] = "online" /\ \E p \in {"online", "aborted_loop"} : phase' = [phase EXCEPT ![s] = p]
        BY <3>2 DEF LoopRead
      <4>2. "online" \in Phases \ {"off"} /\ "aborted_loop" \in Phases \ {"off"} /\ "online" \notin {"off"} \cup Dead
        BY DEF Phases, Dead, Aborted
      <4>3. QED
        BY <4>1, <4>2
    <3>3. CASE LosesMaster(s) \/ Kill(s)
      <4>1. phase[s] \notin {"off"} \cup Dead /\ \E p \in {"orphan", "gone"} : phase' = [phase EXCEPT ![s] = p]
        BY <3>3 DEF LosesMaster, Kill, Handshake, Dead, Aborted
      <4>2. "orphan" \in Phases \ {"off"} /\ "gone" \in Phases \ {"off"}
        BY DEF Phases, Dead
      <4>3. QED
        BY <4>1, <4>2
    <3>4. QED
      BY <1>6, <3>1, <3>2, <3>3
  <2>3. QED
    BY <1>0, <1>1, <2>1, <2>2
<1>7. ASSUME NEW c \in Clients, NEW cmd \in Cmds, WriteCmd(c, cmd) \/ QueueCmd(c, cmd)
      PROVE  UNCHANGED memberVars /\ phase' = phase
  BY <1>7 DEF WriteCmd, QueueCmd, replicaVars
<1>8. ASSUME NEW c \in Clients, Multi(c) \/ Exec(c) \/ Discard(c) \/ WaitCmd(c) \/ WaitSwallows(c)
      PROVE  UNCHANGED memberVars /\ phase' = phase
  BY <1>8 DEF Multi, Exec, Discard, WaitCmd, WaitSwallows, replicaVars
<1>9. ASSUME NEW s \in Replicas, WaitRead(s) \/ ReplicaReset(s) PROVE UNCHANGED memberVars /\ phase' = phase
  BY <1>9 DEF WaitRead, ReplicaReset, replicaVars
<1>10. WaitTimeout \/ UNCHANGED vars => UNCHANGED memberVars /\ phase' = phase
  BY DEF WaitTimeout, vars, replicaVars
<1>11. QED
  BY <1>1, <1>2, <1>3, <1>4, <1>5, <1>6, <1>7, <1>8, <1>9, <1>10, NextCases DEF ReplicaActs

\* How often a replica gets what is sent to every entry.
Share(r) == Cardinality(EntriesOf(r, registered))

LEMMA EntriesByNumber ==
  ASSUME NEW r \in Replicas, NEW ports
  PROVE  EntriesOf(r, ports) = {p \in ports : r \in sockets /\ fd[r] = fd[p]}
BY DEF EntriesOf, Holders

LEMMA ShareFacts ==
  ASSUME TypesInv, DescriptorInv, NEW r \in Replicas
  PROVE  /\ Share(r) \in Nat
         /\ r \in registered /\ r \in sockets => Share(r) \in Nat \ {0}
         /\ r \in registered /\ r \in sockets /\ r \notin inherited => Share(r) = 1
<1>1. registered \in SUBSET Replicas
  BY DEF TypesInv, MemberTypes
<1>2. Share(r) \in Nat /\ (EntriesOf(r, registered) = {} <=> Share(r) = 0)
  BY <1>1, EntriesFinite DEF Share
<1>3. r \in registered /\ r \in sockets => r \in EntriesOf(r, registered)
  BY EntriesByNumber
<1>4. r \in registered /\ r \in sockets /\ r \notin inherited => EntriesOf(r, registered) = {r}
  BY EntriesByNumber DEF DescriptorInv
<1>5. Cardinality({r}) = 1
  BY FS_Singleton
<1>6. QED
  BY <1>2, <1>3, <1>4, <1>5 DEF Share

-----------------------------------------------------------------------------
(* What a step does to one replica.                                        *)

\* Nothing.
Idle(r) ==
    /\ phase'[r] = phase[r] /\ copy'[r] = copy[r] /\ joined'[r] = joined[r]
    /\ toReplica'[r] = toReplica[r] /\ toMaster'[r] = toMaster[r]
    /\ r \in registered' <=> r \in registered
    /\ r \in sockets' <=> r \in sockets
    /\ r \in inherited' <=> r \in inherited
    /\ r \in disturbed' <=> r \in disturbed
    /\ Share(r)' = Share(r)
    /\ stream' = stream
    /\ master' = master \/ master' = "down"
    /\ waits' \in Nat /\ waits <= waits'
    /\ wait'.on => wait.on /\ waits' = waits /\ (r \in wait'.heard => r \in wait.heard)

\* The master has written, to every entry or to those before the write that failed.
MasterSent(r) ==
    /\ LoopFree
    /\ phase'[r] = phase[r] /\ copy'[r] = copy[r] /\ toMaster'[r] = toMaster[r]
    /\ UNCHANGED memberVars
    /\ master' \in {"up", "down"}
    /\ \E m \in ToReplicaMsgs, n \in 0 .. Share(r) :
          /\ toReplica'[r] = toReplica[r] \o Copies(m, n)
          /\ master' = "up" => n = Share(r)
          /\ n > 0 => r \in sockets
          /\ r \in disturbed' <=> r \in disturbed \/ (Joining(r) /\ n > 0)
          /\ \/ /\ \E id \in Writes : m = Numbered("write", id) /\ stream' = Append(stream, id)
                /\ UNCHANGED waitVars
             \/ /\ m = Numbered("getack", waits') /\ waits' = waits + 1 /\ stream' = stream
                /\ wait'.on => wait'.heard = {}

OwnAct(r) ==
    \/ WaitRead(r) \/ HandleReplica(r) \/ ReplicaEof(r) \/ Start(r)
    \/ HandshakeRead(r) \/ LoopRead(r) \/ LosesMaster(r) \/ Kill(r)

LEMMA ShareSame ==
  ASSUME NEW r \in Replicas, UNCHANGED memberVars
  PROVE  Share(r)' = Share(r)
<1>1. EntriesOf(r, registered)' = EntriesOf(r, registered)
  BY DEF EntriesOf, Holders, memberVars
<1>2. QED
  BY <1>1 DEF Share

LEMMA IsSent ==
  ASSUME TypesInv, NEW r \in Replicas, LoopFree, NEW m \in ToReplicaMsgs, ToAll(m),
         UNCHANGED <<toMaster, phase, copy, memberVars>>,
         \/ /\ \E id \in Writes : m = Numbered("write", id) /\ stream' = Append(stream, id)
            /\ UNCHANGED waitVars
         \/ /\ m = Numbered("getack", waits') /\ waits' = waits + 1 /\ stream' = stream
            /\ wait'.on => wait'.heard = {}
  PROVE  MasterSent(r)
<1>1. master' \in {"up", "down"}
      /\ \E ports \in SUBSET registered : SendTo(ports, m) /\ (master' = "up" => ports = registered)
  BY ToAllEffect DEF LoopFree
<1>2. PICK ports \in SUBSET registered : SendTo(ports, m) /\ (master' = "up" => ports = registered)
  BY <1>1
<1>3. registered \in SUBSET Replicas /\ ports \in SUBSET Replicas
  BY DEF TypesInv, MemberTypes
<1> DEFINE n == Cardinality(EntriesOf(r, ports))
<1>4. /\ toReplica'[r] = toReplica[r] \o Copies(m, n)
      /\ r \in disturbed' <=> r \in disturbed \/ (Joining(r) /\ EntriesOf(r, ports) # {})
  BY <1>2, <1>3, SendToEffect
<1>5. n \in Nat /\ (EntriesOf(r, ports) = {} <=> n = 0) /\ Share(r) \in Nat
  BY <1>3, EntriesFinite DEF Share
<1>6. n <= Share(r)
  <2>1. EntriesOf(r, ports) \subseteq EntriesOf(r, registered)
    BY <1>2 DEF EntriesOf
  <2>2. IsFiniteSet(EntriesOf(r, registered))
    BY <1>3, EntriesFinite, FiniteAssumption, FS_Subset
  <2>3. QED
    BY <2>1, <2>2, FS_Subset DEF Share
<1>7. EntriesOf(r, ports) # {} => r \in sockets
  BY DEF EntriesOf, Holders
<1>8. master' = "up" => n = Share(r)
  BY <1>2 DEF Share
<1> HIDE DEF n
<1>9. n \in 0 .. Share(r) /\ (n > 0 => r \in sockets)
      /\ (r \in disturbed' <=> r \in disturbed \/ (Joining(r) /\ n > 0))
  BY <1>4, <1>5, <1>6, <1>7
<1>10. phase'[r] = phase[r] /\ copy'[r] = copy[r] /\ toMaster'[r] = toMaster[r] /\ UNCHANGED memberVars
  OBVIOUS
<1>11. QED
  BY <1>1, <1>4, <1>8, <1>9, <1>10 DEF MasterSent

LEMMA LocalStep ==
  ASSUME TypesInv, DescriptorInv, [Next]_vars, NEW r \in Replicas
  PROVE  Idle(r) \/ MasterSent(r) \/ OwnAct(r)
<1>0. /\ fd \in [Peers -> {0} \cup Fds] /\ sockets \in SUBSET Peers /\ registered \in SUBSET Replicas
      /\ Clients \cap Replicas = {} /\ Peers = Clients \cup Replicas
      /\ waits \in Nat /\ waits <= waits
      /\ joined \in [Replicas -> 0 .. MaxWrites]
      /\ LinkTypes /\ wait \in WaitRecords
  BY MembersAssumption, BoundsAssumption DEF TypesInv, MemberTypes, WaitTypes, Peers
<1> DEFINE Kept == /\ phase'[r] = phase[r] /\ copy'[r] = copy[r] /\ joined'[r] = joined[r]
                   /\ toReplica'[r] = toReplica[r] /\ toMaster'[r] = toMaster[r]
                   /\ r \in disturbed' <=> r \in disturbed
                   /\ stream' = stream
                   /\ master' = master \/ master' = "down"
           Calls == wait'.on => wait.on /\ waits' = waits /\ (r \in wait'.heard => r \in wait.heard)
<1>1. ASSUME UNCHANGED memberVars, Kept, Calls, waits' \in Nat, waits <= waits' PROVE Idle(r)
  <2>1. Share(r)' = Share(r)
    BY <1>1, ShareSame
  <2>2. UNCHANGED <<sockets, registered, inherited>>
    BY <1>1 DEF memberVars
  <2>3. QED
    BY <1>1, <2>1, <2>2 DEF Idle
<1>2. UNCHANGED waitVars => Calls /\ waits' \in Nat /\ waits <= waits'
  BY <1>0 DEF waitVars
<1>3. ASSUME NEW c \in Clients, NEW cmd \in Cmds, WriteCmd(c, cmd) \/ QueueCmd(c, cmd)
      PROVE  Idle(r) \/ MasterSent(r)
  <2>1. /\ issued' \in Writes /\ LoopFree /\ UNCHANGED <<memberVars, waitVars, toMaster, phase, copy>>
        /\ \/ stream' = Append(stream, issued') /\ ToAll(Numbered("write", issued'))
           \/ stream' = stream /\ UNCHANGED <<toReplica, master, disturbed>>
    BY <1>3, NewWrite DEF TypesInv
  <2>2. CASE stream' = Append(stream, issued') /\ ToAll(Numbered("write", issued'))
    <3>1. Numbered("write", issued') \in ToReplicaMsgs
      BY <2>1, MessageTypes
    <3>2. QED
      BY <2>1, <2>2, <3>1, IsSent
  <2>3. CASE stream' = stream /\ UNCHANGED <<toReplica, master, disturbed>>
    <3>1. Kept
      BY <2>1, <2>3 DEF memberVars
    <3>2. QED
      BY <1>1, <1>2, <2>1, <3>1
  <2>4. QED
    BY <2>1, <2>2, <2>3
<1>4. ASSUME NEW c \in Clients, WaitCmd(c) PROVE Idle(r) \/ MasterSent(r)
  <2>1. /\ LoopFree /\ waits' = waits + 1 /\ waits' \in 0 .. MaxWaits
        /\ UNCHANGED <<dataVars, memberVars, toMaster, phase, copy>>
        /\ \/ UNCHANGED <<master, wait, toReplica, disturbed>>
           \/ /\ ToAll(Numbered("getack", waits'))
              /\ wait' = wait \/ wait'.heard = {}
    BY <1>4, WaitBegins
  <2>2. stream' = stream /\ wait.on # TRUE
    BY <2>1 DEF dataVars, LoopFree
  <2>3. CASE UNCHANGED <<master, wait, toReplica, disturbed>>
    <3>1. Kept /\ Calls
      BY <1>0, <2>1, <2>2, <2>3 DEF memberVars, LoopFree
    <3>2. QED
      BY <1>0, <1>1, <2>1, <3>1
  <2>4. CASE ToAll(Numbered("getack", waits')) /\ (wait' = wait \/ wait'.heard = {})
    <3>1. Numbered("getack", waits') \in ToReplicaMsgs
      BY <2>1, MessageTypes
    <3>2. wait'.on => wait'.heard = {}
      BY <2>1, <2>4 DEF LoopFree
    <3>3. QED
      BY <2>1, <2>2, <2>4, <3>1, <3>2, IsSent
  <2>5. QED
    BY <2>1, <2>3, <2>4
<1>5. ASSUME NEW c \in Clients, Multi(c) \/ Exec(c) \/ Discard(c) PROVE Idle(r)
  <2>1. UNCHANGED <<master, stream, memberVars, waitVars, toReplica, toMaster, replicaVars, disturbed>>
    BY <1>5 DEF Multi, Exec, Discard
  <2>2. Kept
    BY <2>1 DEF memberVars, replicaVars
  <2>3. QED
    BY <1>1, <1>2, <2>1, <2>2
<1>6. ASSUME NEW c \in Clients, WaitSwallows(c) PROVE Idle(r)
  <2>1. UNCHANGED <<master, stream, memberVars, waits, toReplica, toMaster, replicaVars, disturbed>>
        /\ wait.on /\ (Counted({}) \/ Unwatched(c) \/ UNCHANGED wait)
    BY <1>6 DEF WaitSwallows, Watches
  <2>2. Kept
    BY <2>1 DEF memberVars, replicaVars
  <2>3. wait'.heard = wait.heard
    BY <1>0, <2>1 DEF Counted, Unwatched, WaitRecords
  <2>4. QED
    BY <1>0, <1>1, <2>1, <2>2, <2>3
<1>7. CASE WaitTimeout
  <2>1. UNCHANGED <<master, stream, memberVars, waits, toReplica, toMaster, replicaVars, disturbed>>
        /\ wait'.on = FALSE
    BY <1>7 DEF WaitTimeout, NoWait, dataVars
  <2>2. Kept
    BY <2>1 DEF memberVars, replicaVars
  <2>3. QED
    BY <1>0, <1>1, <2>1, <2>2
<1>8. CASE UNCHANGED vars
  <2>1. UNCHANGED <<master, stream, memberVars, waitVars, toReplica, toMaster, replicaVars, disturbed>>
    BY <1>8 DEF vars, dataVars
  <2>2. Kept
    BY <2>1 DEF memberVars, replicaVars
  <2>3. QED
    BY <1>1, <1>2, <2>1, <2>2
\* Connections of others.
<1>9. ASSUME NEW p \in Peers, p # r, p \notin sockets, p \notin registered, Accept(p),
             Kept, UNCHANGED <<registered, waitVars>>
      PROVE  Idle(r)
  <2>1. PICK n \in Fds : /\ fd' = [fd EXCEPT ![p] = n] /\ sockets' = sockets \cup {p}
                         /\ inherited' \in {inherited, inherited \cup {p}}
    BY <1>9, AcceptNumber
  <2>2. \A q \in Peers \ {p} : fd'[q] = fd[q]
    BY <1>0, <2>1
  <2>3. fd'[r] = fd[r] /\ \A q \in registered : fd'[q] = fd[q]
    BY <1>0, <1>9, <2>2
  <2>4. (r \in sockets' <=> r \in sockets) /\ (r \in inherited' <=> r \in inherited)
    BY <1>9, <2>1
  <2>5. EntriesOf(r, registered)' = EntriesOf(r, registered)
    BY <1>9, <2>3, <2>4 DEF EntriesOf, Holders
  <2>6. Share(r)' = Share(r)
    BY <2>5 DEF Share
  <2>7. QED
    BY <1>2, <1>9, <2>4, <2>6 DEF Idle
<1>10. ASSUME NEW c \in Clients, Connect(c) PROVE Idle(r)
  <2>1. c \in Peers /\ c # r /\ c \notin sockets /\ c \notin registered /\ Accept(c)
        /\ UNCHANGED <<registered, waitVars>>
    BY <1>0, <1>10 DEF Connect
  <2>2. Kept
    BY <1>10 DEF Connect, dataVars, replicaVars
  <2>3. QED
    BY <1>9, <2>1, <2>2
<1>11. ASSUME NEW s \in Replicas, s # r, Start(s) PROVE Idle(r)
  <2>1. s \in Peers /\ s \notin sockets /\ s \notin registered /\ Accept(s)
        /\ UNCHANGED <<registered, waitVars>>
    BY <1>0, <1>11 DEF Start, DescriptorInv
  <2>2. Kept
    BY <1>0, <1>11 DEF Start, dataVars, LinkTypes
  <2>3. QED
    BY <1>9, <1>11, <2>1, <2>2
<1>12. ASSUME NEW s \in Replicas, s # r, ReplicaEof(s) PROVE Idle(r)
  <2>1. sockets' = sockets \ {s} /\ UNCHANGED <<fd, registered, inherited, waitVars>>
    BY <1>12 DEF ReplicaEof
  <2>2. Kept
    BY <1>12 DEF ReplicaEof, dataVars, replicaVars
  <2>3. r \in sockets' <=> r \in sockets
    BY <1>12, <2>1
  <2>4. EntriesOf(r, registered)' = EntriesOf(r, registered)
    BY <2>1, <2>3 DEF EntriesOf, Holders
  <2>5. Share(r)' = Share(r)
    BY <2>4 DEF Share
  <2>6. QED
    BY <1>2, <2>1, <2>2, <2>3, <2>5 DEF Idle
<1>13. ASSUME NEW s \in Replicas, s # r, HandleReplica(s) PROVE Idle(r)
  <2>1. /\ s \in sockets /\ UNCHANGED <<fd, sockets, inherited, waitVars>>
        /\ registered' \in {registered, registered \cup {s}}
    BY <1>13 DEF HandleReplica
  <2>2. Kept
    BY <1>0, <1>13 DEF HandleReplica, dataVars, replicaVars, LinkTypes
  <2>3. r \in registered' <=> r \in registered
    BY <1>13, <2>1
  <2>4. EntriesOf(r, registered)' = EntriesOf(r, registered)
    <3>1. r \in sockets => fd[r] # fd[s]
      BY <1>13, <2>1 DEF DescriptorInv
    <3>2. QED
      BY <2>1, <3>1 DEF EntriesOf, Holders
  <2>5. Share(r)' = Share(r)
    BY <2>4 DEF Share
  <2>6. QED
    BY <1>2, <2>1, <2>2, <2>3, <2>5 DEF Idle
<1>14. ASSUME NEW s \in Replicas, s # r, WaitRead(s) PROVE Idle(r)
  <2>1. /\ UNCHANGED <<stream, memberVars, waits>> /\ wait.on
        /\ wait'.heard \in {wait.heard, wait.heard \cup {s}}
    <3>1. UNCHANGED <<stream, memberVars, waits>> /\ wait.on
      BY <1>14 DEF WaitRead, Watches, dataVars
    <3>2. \/ Unwatched(s) \/ wait' = wait \/ Counted({s}) \/ Counted({})
      <4>1. \/ Head(toMaster[s]).kind = "capa" /\ Unwatched(s)
            \/ Head(toMaster[s]).kind = "ping" /\ wait' = wait
            \/ Counted(IF Answers(s, Head(toMaster[s])) THEN {s} ELSE {})
        BY <1>14 DEF WaitRead
      <4>2. QED
        BY <4>1
    <3>3. QED
      BY <1>0, <3>1, <3>2 DEF Counted, Unwatched, WaitRecords
  <2>2. Kept
    BY <1>0, <1>14 DEF WaitRead, dataVars, memberVars, replicaVars, LinkTypes
  <2>3. QED
    BY <1>0, <1>1, <1>14, <2>1, <2>2
<1>15. ASSUME NEW s \in Replicas, s # r, HandshakeRead(s) \/ LoopRead(s) \/ LosesMaster(s) \/ Kill(s)
       PROVE  Idle(r)
  <2>1. UNCHANGED <<stream, memberVars, waitVars>>
    BY <1>15 DEF HandshakeRead, LoopRead, LosesMaster, Kill, dataVars
  <2>2. Kept
    <3>1. CASE HandshakeRead(s)
      <4>1. UNCHANGED <<joined, stream, master, disturbed>>
        BY <3>1 DEF HandshakeRead, dataVars, memberVars
      <4>2. /\ \E p : phase' = [phase EXCEPT ![s] = p]
            /\ toMaster' = toMaster \/ toMaster' = [toMaster EXCEPT ![s] = toMaster[s] \o Sent[phase[s]]]
            /\ toReplica' = [toReplica EXCEPT ![s] = Tail(toReplica[s])] /\ copy' = copy
        BY <3>1, HandshakeEffect
      <4>3. QED
        BY <1>0, <1>15, <4>1, <4>2 DEF LinkTypes
    <3>2. CASE LoopRead(s)
      BY <1>0, <1>15, <3>2 DEF LoopRead, dataVars, memberVars, LinkTypes
    <3>3. CASE LosesMaster(s) \/ Kill(s)
      BY <1>0, <1>15, <3>3 DEF LosesMaster, Kill, dataVars, memberVars, LinkTypes
    <3>4. QED
      BY <1>15, <3>1, <3>2, <3>3
  <2>3. QED
    BY <1>1, <1>2, <2>1, <2>2
<1>16. ASSUME NEW s \in Replicas, ReplicaReset(s) PROVE Idle(r)
  <2>1. UNCHANGED <<stream, memberVars, waitVars, toReplica, toMaster, replicaVars, disturbed>> /\ master' = "down"
    BY <1>16 DEF ReplicaReset, dataVars
  <2>2. Kept
    BY <2>1 DEF memberVars, replicaVars
  <2>3. QED
    BY <1>1, <1>2, <2>1, <2>2
<1> HIDE DEF Kept, Calls
<1>17. ASSUME NEW s \in Replicas, ReplicaActs(s) PROVE Idle(r) \/ OwnAct(r)
  <2>1. CASE s = r
    BY <1>16, <1>17, <2>1 DEF ReplicaActs, OwnAct
  <2>2. CASE s # r
    BY <1>11, <1>12, <1>13, <1>14, <1>15, <1>16, <1>17, <2>2 DEF ReplicaActs
  <2>3. QED
    BY <2>1, <2>2
<1>18. QED
  BY <1>3, <1>4, <1>5, <1>6, <1>7, <1>8, <1>10, <1>17, NextCases

-----------------------------------------------------------------------------
(* A replica registers once, and has executed nothing before.              *)

NoPort(msgs) == \A i \in 1 .. Len(msgs) : msgs[i].kind # "port"
OnePort(msgs) ==
    \A i, j \in 1 .. Len(msgs) : msgs[i].kind = "port" /\ msgs[j].kind = "port" => i = j

Asking(r) ==
    /\ phase[r] \in {"off"} \cup Handshake => copy[r] = <<>>
    /\ phase[r] = "off" => toMaster[r] = <<>> /\ toReplica[r] = <<>>
    /\ phase[r] \in {"off", "ping"} => r \notin registered /\ NoPort(toMaster[r])
    /\ r \in registered => NoPort(toMaster[r])
    /\ OnePort(toMaster[r])
    /\ r \notin registered =>
         /\ copy[r] = <<>> /\ phase[r] \in {"off", "ping", "port"} \cup Dead
         /\ OfKinds(toMaster[r], {"ping", "port"})
         /\ OfKinds(toReplica[r], {"pong", "write", "getack"})

AskInv == \A r \in Replicas : Asking(r)

LEMMA KindsConcat ==
  ASSUME NEW M, NEW s \in Seq(M), NEW t \in Seq(M), NEW kinds
  PROVE  OfKinds(s \o t, kinds) <=> OfKinds(s, kinds) /\ OfKinds(t, kinds)
<1>1. /\ Len(s \o t) = Len(s) + Len(t) /\ Len(s) \in Nat /\ Len(t) \in Nat
      /\ \A i \in 1 .. Len(s) + Len(t) : (s \o t)[i] = IF i <= Len(s) THEN s[i] ELSE t[i - Len(s)]
  BY ConcatElements
<1>2. ASSUME OfKinds(s \o t, kinds) PROVE OfKinds(s, kinds) /\ OfKinds(t, kinds)
  <2>1. ASSUME NEW i \in 1 .. Len(s) PROVE s[i].kind \in kinds
    <3>1. i \in 1 .. Len(s) + Len(t) /\ (s \o t)[i] = s[i]
      BY <1>1
    <3>2. QED
      BY <1>1, <1>2, <3>1 DEF OfKinds
  <2>2. ASSUME NEW i \in 1 .. Len(t) PROVE t[i].kind \in kinds
    <3>1. i + Len(s) \in 1 .. Len(s) + Len(t) /\ (s \o t)[i + Len(s)] = t[i]
      BY <1>1
    <3>2. QED
      BY <1>1, <1>2, <3>1 DEF OfKinds
  <2>3. QED
    BY <2>1, <2>2 DEF OfKinds
<1>3. ASSUME OfKinds(s, kinds), OfKinds(t, kinds) PROVE OfKinds(s \o t, kinds)
  <2>1. ASSUME NEW i \in 1 .. Len(s) + Len(t) PROVE (s \o t)[i].kind \in kinds
    <3>1. CASE i <= Len(s)
      BY <1>1, <1>3, <3>1 DEF OfKinds
    <3>2. CASE ~(i <= Len(s))
      <4>1. i - Len(s) \in 1 .. Len(t)
        BY <1>1, <3>2
      <4>2. QED
        BY <1>1, <1>3, <3>2, <4>1 DEF OfKinds
    <3>3. QED
      BY <3>1, <3>2
  <2>2. QED
    BY <1>1, <2>1 DEF OfKinds
<1>4. QED
  BY <1>2, <1>3

LEMMA KindsTail ==
  ASSUME NEW M, NEW msgs \in Seq(M), msgs # <<>>, NEW kinds, OfKinds(msgs, kinds)
  PROVE  OfKinds(Tail(msgs), kinds) /\ Head(msgs).kind \in kinds
BY DEF OfKinds

LEMMA KindsCopies ==
  ASSUME NEW m, NEW n \in Nat, NEW kinds, m.kind \in kinds
  PROVE  OfKinds(Copies(m, n), kinds)
<1>1. m \in {m}
  OBVIOUS
<1>2. Len(Copies(m, n)) = n /\ \A i \in 1 .. n : Copies(m, n)[i] = m
  BY <1>1, CopiesType
<1>3. QED
  BY <1>2 DEF OfKinds

LEMMA KindsMore ==
  ASSUME NEW msgs, NEW kinds, NEW more, kinds \subseteq more, OfKinds(msgs, kinds)
  PROVE  OfKinds(msgs, more)
BY DEF OfKinds

LEMMA PortTail ==
  ASSUME NEW M, NEW msgs \in Seq(M), msgs # <<>>
  PROVE  /\ NoPort(msgs) => NoPort(Tail(msgs)) /\ Head(msgs).kind # "port"
         /\ OnePort(msgs) => OnePort(Tail(msgs))
         /\ OnePort(msgs) /\ Head(msgs).kind = "port" => NoPort(Tail(msgs))
BY DEF NoPort, OnePort

LEMMA PortAppend ==
  ASSUME NEW M, NEW msgs \in Seq(M), NEW m \in M
  PROVE  /\ NoPort(msgs) => OnePort(Append(msgs, m)) /\ OnePort(msgs)
         /\ m.kind # "port" /\ NoPort(msgs) => NoPort(Append(msgs, m))
         /\ m.kind # "port" /\ OnePort(msgs) => OnePort(Append(msgs, m))
<1> DEFINE s == Append(msgs, m)
<1>1. /\ Len(s) = Len(msgs) + 1 /\ Len(msgs) \in Nat /\ s[Len(msgs) + 1] = m
      /\ \A i \in 1 .. Len(msgs) : s[i] = msgs[i]
      /\ \A i \in 1 .. Len(msgs) + 1 : i \in 1 .. Len(msgs) \/ i = Len(msgs) + 1
  OBVIOUS
<1> HIDE DEF s
<1>2. NoPort(msgs) => OnePort(s) /\ OnePort(msgs)
  BY <1>1 DEF NoPort, OnePort
<1>3. m.kind # "port" /\ NoPort(msgs) => NoPort(s)
  BY <1>1 DEF NoPort
<1>4. m.kind # "port" /\ OnePort(msgs) => OnePort(s)
  <2>1. ASSUME m.kind # "port", OnePort(msgs), NEW i \in 1 .. Len(s), NEW j \in 1 .. Len(s),
               s[i].kind = "port", s[j].kind = "port"
        PROVE  i = j
    <3>1. i \in 1 .. Len(msgs) /\ j \in 1 .. Len(msgs)
      BY <1>1, <2>1
    <3>2. QED
      BY <1>1, <2>1, <3>1 DEF OnePort
  <2>2. QED
    BY <2>1 DEF OnePort
<1>5. QED
  BY <1>2, <1>3, <1>4 DEF s

LEMMA AskInit ==
  ASSUME Init
  PROVE  AskInv
BY DEF Init, AskInv, Asking, NoPort, OnePort, OfKinds

LEMMA AskNext ==
  ASSUME TypesInv, DescriptorInv, AskInv, [Next]_vars
  PROVE  AskInv'
<1> SUFFICES ASSUME NEW r \in Replicas PROVE Asking(r)'
  BY DEF AskInv
<1>0. /\ Asking(r) /\ LinkTypes /\ registered \in SUBSET Replicas
      /\ toMaster[r] \in Seq(ToMasterMsgs) /\ toReplica[r] \in Seq(ToReplicaMsgs)
      /\ phase[r] \in Phases
  BY DEF AskInv, TypesInv, LinkTypes, MemberTypes
<1>1. CASE Idle(r)
  BY <1>0, <1>1 DEF Idle, Asking
<1>2. CASE MasterSent(r)
  <2>1. PICK m \in ToReplicaMsgs, n \in 0 .. Share(r) :
          /\ toReplica'[r] = toReplica[r] \o Copies(m, n) /\ (n > 0 => r \in sockets)
          /\ m.kind \in {"write", "getack"}
    <3>1. \A id : Numbered("write", id).kind = "write" /\ Numbered("getack", id).kind = "getack"
      BY DEF Numbered
    <3>2. QED
      BY <1>2, <3>1 DEF MasterSent
  <2>2. phase'[r] = phase[r] /\ copy'[r] = copy[r] /\ toMaster'[r] = toMaster[r] /\ registered' = registered
    BY <1>2 DEF MasterSent, memberVars
  <2>3. Share(r) \in Nat
    BY ShareFacts
  <2>4. n \in Nat
    BY <2>3
  <2>5. phase[r] = "off" => toReplica'[r] = <<>>
    <3>1. ASSUME phase[r] = "off" PROVE toReplica'[r] = <<>>
      <4>1. n = 0
        BY <2>1, <2>4, <3>1 DEF DescriptorInv
      <4>2. toReplica'[r] = toReplica[r]
        BY <1>0, <2>1, <4>1, NoCopy
      <4>3. QED
        BY <1>0, <3>1, <4>2 DEF Asking
    <3>2. QED
      BY <3>1
  <2>6. OfKinds(toReplica[r], {"pong", "write", "getack"}) => OfKinds(toReplica'[r], {"pong", "write", "getack"})
    <3>1. OfKinds(Copies(m, n), {"pong", "write", "getack"})
      BY <2>1, <2>4, KindsCopies
    <3>2. Copies(m, n) \in Seq(ToReplicaMsgs)
      BY <2>4, CopiesType
    <3>3. QED
      BY <1>0, <2>1, <3>1, <3>2, KindsConcat
  <2>7. QED
    BY <1>0, <2>2, <2>5, <2>6 DEF Asking
<1>3. CASE WaitRead(r)
  <2>1. /\ toMaster[r] # <<>> /\ toMaster'[r] = Tail(toMaster[r])
        /\ UNCHANGED <<phase, copy, toReplica, registered>>
    BY <1>0, <1>3 DEF WaitRead, replicaVars, memberVars, LinkTypes
  <2>2. phase[r] # "off"
    BY <1>0, <2>1 DEF Asking
  <2>3. QED
    BY <1>0, <2>1, <2>2, PortTail, KindsTail DEF Asking
<1>4. CASE HandleReplica(r)
  <2> DEFINE m == Head(toMaster[r])
  <2>1. /\ toMaster[r] # <<>> /\ toMaster'[r] = Tail(toMaster[r]) /\ UNCHANGED <<phase, copy>>
        /\ toReplica'[r] = toReplica[r] \o Reply(m)
        /\ registered' = IF m.kind = "port" THEN registered \cup {r} ELSE registered
    BY <1>0, <1>4 DEF HandleReplica, replicaVars, LinkTypes
  <2>2. phase[r] # "off"
    BY <1>0, <2>1 DEF Asking
  <2>3. CASE m.kind = "port"
    <3>1. phase[r] # "ping"
      BY <1>0, <2>1, <2>3, PortTail DEF Asking
    <3>2. NoPort(toMaster'[r]) /\ OnePort(toMaster'[r])
      BY <1>0, <2>1, <2>3, PortTail DEF Asking
    <3>3. r \in registered'
      BY <2>1, <2>3
    <3>4. QED
      BY <1>0, <2>1, <2>2, <3>1, <3>2, <3>3 DEF Asking
  <2>4. CASE m.kind # "port"
    <3>1. registered' = registered
      BY <2>1, <2>4
    <3>2. r \notin registered => OfKinds(toReplica'[r], {"pong", "write", "getack"})
      <4>1. ASSUME r \notin registered PROVE OfKinds(toReplica'[r], {"pong", "write", "getack"})
        <5>1. m.kind = "ping"
          BY <1>0, <2>1, <2>4, <4>1, KindsTail DEF Asking
        <5>2. Reply(m) = <<Msg("pong")>> /\ Reply(m) \in Seq(ToReplicaMsgs)
          BY <5>1, ReplyFacts
        <5>3. OfKinds(<<Msg("pong")>>, {"pong", "write", "getack"})
          BY DEF OfKinds, Msg
        <5>4. QED
          BY <1>0, <2>1, <4>1, <5>2, <5>3, KindsConcat DEF Asking
      <4>2. QED
        BY <4>1
    <3> HIDE DEF m
    <3>3. QED
      BY <1>0, <2>1, <2>2, <3>1, <3>2, PortTail, KindsTail DEF Asking
  <2>5. QED
    BY <2>3, <2>4
<1>5. CASE ReplicaEof(r)
  BY <1>0, <1>5 DEF ReplicaEof, replicaVars, Asking
<1>6. CASE Start(r)
  <2>1. /\ phase[r] = "off" /\ phase'[r] = "ping" /\ toMaster'[r] = <<Msg("ping")>>
        /\ UNCHANGED <<registered, toReplica, copy>>
    BY <1>0, <1>6 DEF Start, LinkTypes
  <2>2. NoPort(<<Msg("ping")>>) /\ OnePort(<<Msg("ping")>>) /\ OfKinds(<<Msg("ping")>>, {"ping", "port"})
    BY DEF NoPort, OnePort, OfKinds, Msg
  <2>3. QED
    BY <1>0, <2>1, <2>2 DEF Asking
<1>7. CASE HandshakeRead(r)
  <2>1. /\ phase[r] \in Handshake /\ toReplica[r] # <<>> /\ toReplica'[r] = Tail(toReplica[r])
        /\ UNCHANGED <<registered, copy>>
    BY <1>0, <1>7 DEF HandshakeRead, memberVars, LinkTypes
  <2>2. phase[r] # "off"
    BY <2>1 DEF Handshake
  <2>3. OfKinds(toReplica[r], {"pong", "write", "getack"})
          => OfKinds(toReplica'[r], {"pong", "write", "getack"})
             /\ Head(toReplica[r]).kind \in {"pong", "write", "getack"}
    BY <1>0, <2>1, KindsTail
  <2>4. CASE /\ Head(toReplica[r]).kind = Expected[phase[r]]
             /\ phase'[r] = NextPhase[phase[r]]
             /\ toMaster'[r] = toMaster[r] \o Sent[phase[r]]
    <3>1. phase'[r] \notin {"off", "ping"} \cup Dead
      BY <2>1, <2>4, HandshakeFacts DEF Dead, Aborted
    <3>2. CASE phase[r] = "ping"
      <4>1. phase'[r] = "port" /\ toMaster'[r] = toMaster[r] \o <<Msg("port")>>
        BY <2>4, <3>2 DEF NextPhase, Sent
      <4>2. toMaster'[r] = Append(toMaster[r], Msg("port")) /\ Msg("port") \in ToMasterMsgs
        BY <1>0, <4>1, MessageTypes
      <4>3. r \notin registered /\ NoPort(toMaster[r])
        BY <1>0, <3>2 DEF Asking
      <4>4. OnePort(toMaster'[r])
        BY <1>0, <4>2, <4>3, PortAppend
      <4>5. OfKinds(<<Msg("port")>>, {"ping", "port"}) /\ <<Msg("port")>> \in Seq(ToMasterMsgs)
        BY <4>2 DEF OfKinds, Msg
      <4>6. OfKinds(toMaster'[r], {"ping", "port"})
        <5>1. OfKinds(toMaster[r], {"ping", "port"})
          BY <1>0, <4>3 DEF Asking
        <5>2. QED
          BY <1>0, <4>1, <4>5, <5>1, KindsConcat
      <4>7. QED
        BY <1>0, <2>1, <2>3, <4>1, <4>3, <4>4, <4>6 DEF Asking
    <3>3. CASE phase[r] # "ping"
      <4>1. r \in registered
        <5>1. ASSUME r \notin registered PROVE FALSE
          <6>1. phase[r] = "port"
            BY <1>0, <2>1, <3>3, <5>1 DEF Asking, Handshake, Dead, Aborted
          <6>2. Expected[phase[r]] = "ok"
            BY <6>1 DEF Expected
          <6>3. QED
            BY <1>0, <2>3, <2>4, <5>1, <6>2 DEF Asking
        <5>2. QED
          BY <5>1
      <4>2. NoPort(toMaster[r]) /\ Sent[phase[r]] \in {<<>>, <<Msg("capa")>>, <<Msg("psync")>>}
        BY <1>0, <2>1, <3>3, <4>1, HandshakeFacts DEF Asking
      <4>3. \/ toMaster'[r] = toMaster[r]
            \/ \E k \in {"capa", "psync"} : toMaster'[r] = Append(toMaster[r], Msg(k))
        <5>1. toMaster'[r] = toMaster[r] \o Sent[phase[r]]
          BY <2>4
        <5>2. toMaster[r] \o <<>> = toMaster[r]
          BY <1>0
        <5>3. \A k \in {"capa", "psync"} : toMaster[r] \o <<Msg(k)>> = Append(toMaster[r], Msg(k))
          BY <1>0, MessageTypes
        <5>4. QED
          BY <4>2, <5>1, <5>2, <5>3
      <4>4. \A k \in {"capa", "psync"} : Msg(k) \in ToMasterMsgs /\ Msg(k).kind # "port"
        BY MessageTypes DEF Msg
      <4>5. NoPort(toMaster'[r])
        BY <1>0, <4>2, <4>3, <4>4, PortAppend
      <4>6. OnePort(toMaster'[r])
        BY <4>5 DEF NoPort, OnePort
      <4>7. QED
        BY <1>0, <2>1, <3>1, <4>1, <4>5, <4>6 DEF Asking
    <3>4. QED
      BY <3>2, <3>3
  <2>5. CASE phase'[r] \in Dead /\ toMaster' = toMaster
    <3>1. phase'[r] \notin {"off", "ping", "port"} /\ phase'[r] \notin Handshake
      BY <2>5 DEF Dead, Aborted, Handshake
    <3>2. QED
      BY <1>0, <2>1, <2>3, <2>5, <3>1 DEF Asking
  <2>6. QED
    <3>1. phase \in [Replicas -> Phases] /\ toMaster \in [Replicas -> Seq(ToMasterMsgs)]
      BY <1>0 DEF LinkTypes
    <3>2. {"aborted_handshake", "gone"} \subseteq Dead
      BY DEF Dead, Aborted
    <3>3. \/ /\ Head(toReplica[r]).kind = Expected[phase[r]]
             /\ phase' = [phase EXCEPT ![r] = NextPhase[phase[r]]]
             /\ toMaster' = [toMaster EXCEPT ![r] = toMaster[r] \o Sent[phase[r]]]
          \/ phase' = [phase EXCEPT ![r] = "aborted_handshake"] /\ toMaster' = toMaster
          \/ phase' = [phase EXCEPT ![r] = "gone"] /\ toMaster' = toMaster
      BY <1>7, HandshakeEffect
    <3>4. \/ /\ Head(toReplica[r]).kind = Expected[phase[r]]
             /\ phase'[r] = NextPhase[phase[r]]
             /\ toMaster'[r] = toMaster[r] \o Sent[phase[r]]
          \/ phase'[r] = "aborted_handshake" /\ toMaster' = toMaster
          \/ phase'[r] = "gone" /\ toMaster' = toMaster
      BY <3>1, <3>3
    <3>5. QED
      BY <2>4, <2>5, <3>2, <3>4
<1>8. CASE LoopRead(r)
  <2>1. phase[r] = "online" /\ phase'[r] \in {"online", "aborted_loop"} /\ registered' = registered
        /\ (toMaster'[r] = toMaster[r] \/ toMaster'[r] = Append(toMaster[r], Numbered("ack", Head(toReplica[r]).id)))
        /\ (toMaster'[r] = toMaster[r] \/ Head(toReplica[r]).kind = "getack") /\ toReplica[r] # <<>>
    BY <1>0, <1>8 DEF LoopRead, memberVars, LinkTypes
  <2>2. r \in registered
    BY <1>0, <2>1 DEF Asking, Dead, Aborted
  <2>3. Head(toReplica[r]) \in ToReplicaMsgs
    BY <1>0, <2>1
  <2>4. NoPort(toMaster'[r])
    <3>1. CASE toMaster'[r] = toMaster[r]
      BY <1>0, <2>2, <3>1 DEF Asking
    <3>2. CASE toMaster'[r] # toMaster[r]
      <4>1. Numbered("ack", Head(toReplica[r]).id) \in ToMasterMsgs
        BY <2>1, <2>3, <3>2, MessageFields, MessageTypes
      <4>2. Numbered("ack", Head(toReplica[r]).id).kind # "port"
        BY DEF Numbered
      <4>3. QED
        BY <1>0, <2>1, <2>2, <3>2, <4>1, <4>2, PortAppend DEF Asking
    <3>3. QED
      BY <3>1, <3>2
  <2>5. OnePort(toMaster'[r])
    BY <2>4 DEF NoPort, OnePort
  <2>6. phase'[r] \notin {"off", "ping"} \cup Handshake
    BY <2>1 DEF Handshake
  <2>7. QED
    BY <2>1, <2>2, <2>4, <2>5, <2>6 DEF Asking
<1>9. CASE LosesMaster(r) \/ Kill(r)
  <2>1. /\ UNCHANGED <<registered, toReplica, toMaster, copy>>
        /\ \/ phase'[r] = "gone"
           \/ phase[r] = "online" /\ phase'[r] = "orphan"
    BY <1>0, <1>9 DEF LosesMaster, Kill, memberVars, LinkTypes
  <2>2. "gone" \in Dead /\ {"gone", "orphan"} \cap ({"off", "ping"} \cup Handshake) = {}
        /\ "online" \notin {"off", "ping", "port"} \cup Dead
    BY DEF Dead, Aborted, Handshake
  <2>3. QED
    BY <1>0, <2>1, <2>2 DEF Asking
<1>10. QED
  BY <1>1, <1>2, <1>3, <1>4, <1>5, <1>6, <1>7, <1>8, <1>9, LocalStep DEF OwnAct

-----------------------------------------------------------------------------
(* A replica follows the stream.                                           *)

\* A write comes ahead of the file: the handshake takes it for a reply, and fails.
Spoiled(msgs) ==
    \E i \in 1 .. Len(msgs) :
        msgs[i].kind = "write" /\ \A j \in 1 .. i : msgs[j].kind # "rdb"

\* What a registered replica has executed and what is on the way to it go through the
\* stream from where it was registered, as many times over as entries lead to it, up to
\* the end of the stream as long as the master is up.
KnownTo(r) == Known(copy[r], toReplica[r])
Following(r) ==
    r \in registered /\ phase[r] \in Handshake \cup {"online"} =>
       \/ phase[r] \in Handshake /\ Spoiled(toReplica[r])
       \/ /\ Along(KnownTo(r), stream, joined[r], Share(r))
          /\ master = "up" => Len(KnownTo(r)) = Share(r) * (Len(stream) - joined[r])

FollowInv == \A r \in Replicas : Following(r)

LEMMA SpoiledConcat ==
  ASSUME NEW M, NEW s \in Seq(M), NEW t \in Seq(M), Spoiled(s)
  PROVE  Spoiled(s \o t)
<1>1. /\ Len(s \o t) = Len(s) + Len(t) /\ Len(s) \in Nat /\ Len(t) \in Nat
      /\ \A i \in 1 .. Len(s) + Len(t) : (s \o t)[i] = IF i <= Len(s) THEN s[i] ELSE t[i - Len(s)]
  BY ConcatElements
<1>2. PICK i \in 1 .. Len(s) : s[i].kind = "write" /\ \A j \in 1 .. i : s[j].kind # "rdb"
  BY DEF Spoiled
<1>3. i \in 1 .. Len(s \o t) /\ (s \o t)[i] = s[i]
  BY <1>1
<1>4. \A j \in 1 .. i : (s \o t)[j] = s[j]
  BY <1>1
<1>5. QED
  BY <1>2, <1>3, <1>4 DEF Spoiled

LEMMA SpoiledTail ==
  ASSUME NEW M, NEW msgs \in Seq(M), msgs # <<>>, Spoiled(msgs)
  PROVE  /\ Head(msgs).kind # "rdb"
         /\ Head(msgs).kind # "write" => Spoiled(Tail(msgs))
<1>1. PICK i \in 1 .. Len(msgs) : msgs[i].kind = "write" /\ \A j \in 1 .. i : msgs[j].kind # "rdb"
  BY DEF Spoiled
<1>2. Head(msgs) = msgs[1] /\ Len(Tail(msgs)) = Len(msgs) - 1 /\ Len(msgs) \in Nat
      /\ \A j \in 1 .. Len(msgs) - 1 : Tail(msgs)[j] = msgs[j + 1]
  OBVIOUS
<1>3. Head(msgs).kind # "rdb"
  BY <1>1, <1>2
<1>4. ASSUME Head(msgs).kind # "write" PROVE Spoiled(Tail(msgs))
  <2>1. i - 1 \in 1 .. Len(Tail(msgs)) /\ Tail(msgs)[i - 1] = msgs[i]
    BY <1>1, <1>2, <1>4
  <2>2. \A j \in 1 .. i - 1 : j + 1 \in 1 .. i /\ Tail(msgs)[j] = msgs[j + 1]
    BY <1>2
  <2>3. \A j \in 1 .. i - 1 : Tail(msgs)[j].kind # "rdb"
    BY <1>1, <2>2
  <2>4. QED
    BY <1>1, <2>1, <2>3 DEF Spoiled
<1>5. QED
  BY <1>3, <1>4

LEMMA FollowInit ==
  ASSUME Init
  PROVE  FollowInv
BY DEF Init, FollowInv, Following

LEMMA FollowNext ==
  ASSUME TypesInv, DescriptorInv, AskInv, FollowInv, TypesInv', DescriptorInv', [Next]_vars
  PROVE  FollowInv'
<1> SUFFICES ASSUME NEW r \in Replicas, r \in registered', phase'[r] \in Handshake \cup {"online"}
             PROVE  \/ phase'[r] \in Handshake /\ Spoiled(toReplica'[r])
                    \/ /\ Along(KnownTo(r)', stream', joined'[r], Share(r)')
                       /\ master' = "up" => Len(KnownTo(r)') = Share(r)' * (Len(stream') - joined'[r])
  BY DEF FollowInv, Following
<1>0. /\ Asking(r) /\ Following(r) /\ registered \in SUBSET Replicas
      /\ toMaster[r] \in Seq(ToMasterMsgs) /\ toReplica[r] \in Seq(ToReplicaMsgs)
      /\ phase[r] \in Phases /\ copy[r] \in Seq(Writes) /\ stream \in Seq(Writes)
      /\ joined[r] \in 0 .. Len(stream) /\ LinkTypes /\ MemberTypes
  BY DEF AskInv, FollowInv, TypesInv, LinkTypes, MemberTypes, DataTypes
<1>00. Handshake \cap Dead = {} /\ "off" \notin Handshake /\ "online" \notin {"off", "ping", "port"} \cup Dead
       /\ "online" \notin Handshake
  BY DEF Handshake, Dead, Aborted
<1>1. CASE Idle(r)
  <2>1. KnownTo(r)' = KnownTo(r)
    BY <1>1 DEF KnownTo, Idle
  <2>2. QED
    BY <1>0, <1>1, <2>1 DEF Idle, Following
<1>2. CASE MasterSent(r)
  <2>1. PICK m \in ToReplicaMsgs, n \in 0 .. Share(r) :
          /\ toReplica'[r] = toReplica[r] \o Copies(m, n)
          /\ master' = "up" => n = Share(r)
          /\ \/ \E id \in Writes : m = Numbered("write", id) /\ stream' = Append(stream, id)
             \/ m = Numbered("getack", waits') /\ stream' = stream
    BY <1>2 DEF MasterSent
  <2>2. phase'[r] = phase[r] /\ copy'[r] = copy[r] /\ registered' = registered /\ joined' = joined
        /\ Share(r)' = Share(r) /\ master = "up"
    BY <1>2, ShareSame DEF MasterSent, memberVars, LoopFree
  <2>3. r \in registered /\ r \in sockets /\ phase[r] \in Handshake \cup {"online"}
    BY <1>00, <2>2 DEF DescriptorInv
  <2>4. Share(r) \in Nat \ {0} /\ n \in Nat
    BY <2>3, ShareFacts
  <2>5. Copies(m, n) \in Seq(ToReplicaMsgs)
    BY <2>4, CopiesType
  <2>6. CASE phase[r] \in Handshake /\ Spoiled(toReplica[r])
    BY <1>0, <2>1, <2>2, <2>5, <2>6, SpoiledConcat
  <2>7. CASE ~(phase[r] \in Handshake /\ Spoiled(toReplica[r]))
    <3>1. Along(KnownTo(r), stream, joined[r], Share(r))
          /\ Len(KnownTo(r)) = Share(r) * (Len(stream) - joined[r])
      BY <1>0, <2>2, <2>3, <2>7 DEF Following
    <3>2. KnownTo(r) \in Seq(Writes)
      BY <1>0, KnownType DEF KnownTo
    <3>3. CASE \E id \in Writes : m = Numbered("write", id) /\ stream' = Append(stream, id)
      <4>1. PICK id \in Writes : m = Numbered("write", id) /\ stream' = Append(stream, id)
        BY <3>3
      <4>2. KnownTo(r)' = KnownTo(r) \o Copies(id, n)
        <5> DEFINE done == copy[r]
                   msgs == toReplica[r]
        <5>1. done \in Seq(Writes) /\ msgs \in Seq(ToReplicaMsgs) /\ n \in Nat
          BY <1>0, <2>4
        <5>2. KnownTo(r)' = Known(done, msgs \o Copies(Numbered("write", id), n)) /\ KnownTo(r) = Known(done, msgs)
          BY <2>1, <2>2, <4>1 DEF KnownTo
        <5> HIDE DEF done, msgs
        <5>3. QED
          BY <5>1, <5>2, KnownMore
      <4>3. /\ Along(KnownTo(r) \o Copies(id, n), Append(stream, id), joined[r], Share(r))
            /\ n = Share(r) => Len(KnownTo(r) \o Copies(id, n)) = Share(r) * (Len(Append(stream, id)) - joined[r])
        <5> DEFINE s == KnownTo(r)
                   log == stream
                   from == joined[r]
                   k == Share(r)
        <5>1. /\ s \in Seq(Writes) /\ log \in Seq(Writes) /\ from \in 0 .. Len(log)
              /\ k \in Nat \ {0} /\ n \in 0 .. k /\ Along(s, log, from, k)
              /\ Len(s) = k * (Len(log) - from)
          BY <1>0, <2>4, <3>1, <3>2
        <5> HIDE DEF s, log, from, k
        <5>2. /\ Along(s \o Copies(id, n), Append(log, id), from, k)
              /\ n = k => Len(s \o Copies(id, n)) = k * (Len(Append(log, id)) - from)
          BY <5>1, AlongGrows
        <5>3. QED
          BY <5>2 DEF s, log, from, k
      <4>4. QED
        BY <2>1, <2>2, <4>1, <4>2, <4>3
    <3>4. CASE m = Numbered("getack", waits') /\ stream' = stream
      <4>1. OfKinds(Copies(m, n), Others)
        <5>1. m.kind \in Others
          BY <3>4 DEF Numbered, Others
        <5>2. QED
          BY <2>4, <5>1, KindsCopies
      <4>2. KnownTo(r)' = KnownTo(r)
        BY <1>0, <2>1, <2>2, <2>5, <4>1, KnownSame DEF KnownTo
      <4>3. QED
        BY <2>2, <3>1, <3>4, <4>2
    <3>5. QED
      BY <2>1, <3>3, <3>4
  <2>8. QED
    BY <2>6, <2>7
<1>3. CASE WaitRead(r)
  <2>1. UNCHANGED <<master, stream, memberVars, toReplica, phase, copy>>
    BY <1>3 DEF WaitRead, dataVars, replicaVars
  <2>2. KnownTo(r)' = KnownTo(r) /\ Share(r)' = Share(r)
    BY <2>1, ShareSame DEF KnownTo
  <2>3. QED
    BY <1>0, <2>1, <2>2 DEF Following, memberVars
<1>4. CASE HandleReplica(r)
  <2> DEFINE m == Head(toMaster[r])
  <2>1. /\ toMaster[r] # <<>> /\ UNCHANGED <<phase, copy, stream, master, fd, sockets>>
        /\ toReplica'[r] = toReplica[r] \o Reply(m)
        /\ m.kind = "port" => joined'[r] = Len(stream)
        /\ m.kind # "port" => registered' = registered /\ joined' = joined
    BY <1>0, <1>4 DEF HandleReplica, replicaVars, dataVars, LinkTypes, MemberTypes
  <2>2. Reply(m) \in Seq(ToReplicaMsgs) /\ OfKinds(Reply(m), Others)
    <3>1. Answering \subseteq Others
      BY DEF Answering, Others
    <3>2. QED
      BY <3>1, ReplyFacts, KindsMore
  <2> HIDE DEF m
  <2>3. KnownTo(r)' = KnownTo(r)
    BY <1>0, <2>1, <2>2, KnownSame DEF KnownTo
  <2>4. CASE m.kind = "port"
    <3>1. r \notin registered
      BY <1>0, <2>1, <2>4, PortTail DEF Asking, m
    <3>2. phase'[r] \in Handshake /\ copy[r] = <<>>
      <4>1. phase[r] \in {"off", "ping", "port"} \cup Dead /\ copy[r] = <<>>
        BY <1>0, <3>1 DEF Asking
      <4>2. QED
        BY <1>00, <2>1, <4>1
    <3>3. OfKinds(toReplica[r], {"pong", "write", "getack"})
      BY <1>0, <3>1 DEF Asking
    <3>4. CASE \E i \in 1 .. Len(toReplica[r]) : toReplica[r][i].kind = "write"
      <4>1. \A j \in 1 .. Len(toReplica[r]) : toReplica[r][j].kind # "rdb"
        BY <3>3 DEF OfKinds
      <4>2. Spoiled(toReplica[r])
        <5>1. PICK i \in 1 .. Len(toReplica[r]) : toReplica[r][i].kind = "write"
          BY <3>4
        <5>2. \A j \in 1 .. i : j \in 1 .. Len(toReplica[r])
          BY <1>0
        <5>3. QED
          BY <4>1, <5>1, <5>2 DEF Spoiled
      <4>3. QED
        BY <1>0, <2>1, <2>2, <3>2, <4>2, SpoiledConcat
    <3>5. CASE ~\E i \in 1 .. Len(toReplica[r]) : toReplica[r][i].kind = "write"
      <4>1. OfKinds(toReplica[r], Others)
        BY <3>3, <3>5 DEF OfKinds, Others
      <4>2. KnownTo(r)' = <<>>
        BY <1>0, <2>3, <3>2, <4>1, KnownType DEF KnownTo
      <4>3. Share(r)' \in Nat
        <5>1. EntriesOf(r, registered)' \subseteq registered'
          BY DEF EntriesOf
        <5>2. registered' \subseteq Replicas
          BY DEF TypesInv, MemberTypes
        <5>3. IsFiniteSet(EntriesOf(r, registered)')
          BY <5>1, <5>2, FiniteAssumption, FS_Subset
        <5>4. QED
          BY <5>3, FS_CardinalityType DEF Share
      <4>4. QED
        BY <1>0, <2>1, <2>4, <4>2, <4>3, AlongNothing
    <3>6. QED
      BY <3>4, <3>5
  <2>5. CASE m.kind # "port"
    <3>1. Share(r)' = Share(r)
      BY <2>1, <2>5 DEF Share, EntriesOf, Holders
    <3>2. Spoiled(toReplica[r]) => Spoiled(toReplica'[r])
      BY <1>0, <2>1, <2>2, SpoiledConcat
    <3>3. QED
      BY <1>0, <2>1, <2>3, <2>5, <3>1, <3>2 DEF Following
  <2>6. QED
    BY <2>4, <2>5
<1>5. CASE ReplicaEof(r)
  <2>1. phase[r] \in Dead /\ phase' = phase
    BY <1>5 DEF ReplicaEof, replicaVars
  <2>2. QED
    BY <1>00, <2>1
<1>6. CASE Start(r)
  <2>1. phase[r] = "off" /\ registered' = registered
    BY <1>6 DEF Start
  <2>2. QED
    BY <2>1 DEF DescriptorInv
<1>7. CASE HandshakeRead(r)
  <2> DEFINE m == Head(toReplica[r])
  <2>1. /\ phase[r] \in Handshake /\ toReplica[r] # <<>> /\ toReplica'[r] = Tail(toReplica[r])
        /\ UNCHANGED <<memberVars, copy, stream, master>>
    BY <1>0, <1>7 DEF HandshakeRead, dataVars, LinkTypes
  <2>2. m.kind = Expected[phase[r]] /\ phase'[r] = NextPhase[phase[r]]
    <3>1. phase \in [Replicas -> Phases]
      BY <1>0 DEF LinkTypes
    <3>2. phase'[r] \notin {"aborted_handshake", "gone"}
      BY <1>00 DEF Dead, Aborted
    <3>3. \/ /\ m.kind = Expected[phase[r]] /\ phase' = [phase EXCEPT ![r] = NextPhase[phase[r]]]
          \/ phase' = [phase EXCEPT ![r] = "aborted_handshake"]
          \/ phase' = [phase EXCEPT ![r] = "gone"]
      BY <1>7, HandshakeEffect
    <3>4. QED
      BY <3>1, <3>2, <3>3
  <2>3. m.kind # "write"
    BY <2>1, <2>2, HandshakeFacts DEF Answering
  <2> HIDE DEF m
  <2>4. KnownTo(r)' = KnownTo(r) /\ Share(r)' = Share(r) /\ registered' = registered /\ joined' = joined
    BY <1>0, <2>1, <2>3, KnownTail, ShareSame DEF KnownTo, m, memberVars
  <2>5. CASE Spoiled(toReplica[r])
    <3>1. Spoiled(toReplica'[r]) /\ m.kind # "rdb"
      BY <1>0, <2>1, <2>3, <2>5, SpoiledTail DEF m
    <3>2. phase[r] # "rdb"
      BY <2>2, <3>1 DEF Expected
    <3>3. phase'[r] \in Handshake
      BY <2>1, <2>2, <3>2 DEF Handshake, NextPhase
    <3>4. QED
      BY <3>1, <3>3
  <2>6. CASE ~Spoiled(toReplica[r])
    BY <1>0, <2>1, <2>4, <2>6 DEF Following
  <2>7. QED
    BY <2>5, <2>6
<1>8. CASE LoopRead(r)
  <2> DEFINE m == Head(toReplica[r])
  <2>1. /\ phase[r] = "online" /\ toReplica[r] # <<>> /\ toReplica'[r] = Tail(toReplica[r])
        /\ copy'[r] = IF m.kind = "write" THEN Append(copy[r], m.id) ELSE copy[r]
        /\ UNCHANGED <<memberVars, stream, master>>
    BY <1>0, <1>8 DEF LoopRead, dataVars, LinkTypes
  <2>2. KnownTo(r)' = KnownTo(r)
    BY <1>0, <2>1, KnownTail DEF KnownTo
  <2>3. Share(r)' = Share(r) /\ registered' = registered /\ joined' = joined
    BY <2>1, ShareSame DEF memberVars
  <2>4. Along(KnownTo(r), stream, joined[r], Share(r))
        /\ (master = "up" => Len(KnownTo(r)) = Share(r) * (Len(stream) - joined[r]))
    BY <1>0, <1>00, <2>1, <2>3 DEF Following
  <2>5. QED
    BY <2>1, <2>2, <2>3, <2>4
<1>9. CASE LosesMaster(r) \/ Kill(r)
  <2>1. phase'[r] \in {"orphan", "gone"}
    BY <1>0, <1>9 DEF LosesMaster, Kill, LinkTypes
  <2>2. QED
    BY <2>1 DEF Handshake
<1>10. QED
  BY <1>1, <1>2, <1>3, <1>4, <1>5, <1>6, <1>7, <1>8, <1>9, LocalStep DEF OwnAct

-----------------------------------------------------------------------------
(* The invariant of every run, and what it says of a replica in its loop.  *)

Base == TypesInv /\ DescriptorInv /\ AskInv /\ FollowInv

LEMMA BaseInvariant == Spec => []Base
<1>1. Init => Base
  BY TypesInit, DescriptorInit, AskInit, FollowInit DEF Base
<1>2. Base /\ [Next]_vars => Base'
  <2> SUFFICES ASSUME Base, [Next]_vars PROVE Base'
    OBVIOUS
  <2>1. TypesInv /\ DescriptorInv /\ AskInv /\ FollowInv
    BY DEF Base
  <2>2. TypesInv'
    BY <2>1, TypesNext
  <2>3. DescriptorInv'
    BY <2>1, DescriptorNext
  <2>4. AskInv'
    BY <2>1, AskNext
  <2>5. FollowInv'
    BY <2>1, <2>2, <2>3, FollowNext
  <2>6. QED
    BY <2>2, <2>3, <2>4, <2>5 DEF Base
<1>3. QED
  BY <1>1, <1>2, PTL DEF Spec

\* What holds of a replica in its event loop.
LEMMA OnlineFacts ==
  ASSUME Base, NEW r \in Replicas, phase[r] = "online"
  PROVE  /\ r \in registered /\ r \in sockets
         /\ Share(r) \in Nat \ {0} /\ (r \notin inherited => Share(r) = 1)
         /\ KnownTo(r) \in Seq(Writes) /\ joined[r] \in 0 .. Len(stream) /\ stream \in Seq(Writes)
         /\ Along(KnownTo(r), stream, joined[r], Share(r))
         /\ master = "up" => Len(KnownTo(r)) = Share(r) * (Len(stream) - joined[r])
<1>0. /\ Asking(r) /\ Following(r) /\ TypesInv /\ DescriptorInv
      /\ toReplica[r] \in Seq(ToReplicaMsgs) /\ copy[r] \in Seq(Writes) /\ stream \in Seq(Writes)
      /\ joined[r] \in 0 .. Len(stream)
  BY DEF Base, AskInv, FollowInv, TypesInv, LinkTypes, MemberTypes, DataTypes
<1>1. "online" \notin {"off", "ping", "port"} \cup Dead /\ "online" \notin Handshake
  BY DEF Handshake, Dead, Aborted
<1>2. r \in registered
  BY <1>0, <1>1 DEF Asking
<1>3. r \in sockets
  BY <1>0, <1>1 DEF DescriptorInv
<1>4. Share(r) \in Nat \ {0} /\ (r \notin inherited => Share(r) = 1)
  BY <1>0, <1>2, <1>3, ShareFacts
<1>5. KnownTo(r) \in Seq(Writes)
  BY <1>0, KnownType DEF KnownTo
<1>6. QED
  BY <1>0, <1>1, <1>2, <1>3, <1>4, <1>5 DEF Following

LEMMA InStep ==
  ASSUME Base, NEW r \in Replicas, phase[r] = "online", master = "up"
  PROVE  /\ KnownTo(r) = Times(Share(r), Since(r))
         /\ ToSet(KnownTo(r)) = {stream[i] : i \in joined[r] + 1 .. Len(stream)}
<1> DEFINE s == KnownTo(r)
           log == stream
           from == joined[r]
           k == Share(r)
<1>1. /\ s \in Seq(Writes) /\ log \in Seq(Writes) /\ from \in 0 .. Len(log)
      /\ k \in Nat \ {0} /\ Along(s, log, from, k) /\ Len(s) = k * (Len(log) - from)
  BY OnlineFacts
<1> HIDE DEF s, log, from, k
<1>2. s = Times(k, SubSeq(log, from + 1, Len(log))) /\ ToSet(s) = {log[i] : i \in from + 1 .. Len(log)}
  BY <1>1, AlongIsTimes
<1>3. QED
  BY <1>2 DEF s, log, from, k, Since

\* Every replica in its loop has executed, and has on the way to it, exactly the writes
\* propagated since its REPLCONF listening-port, in their order: once each, or once for
\* each entry of m_mapReplicaPortSocket that holds its number, when accept gave it the
\* number of a replica that has gone (PropogateCommandToReplicas, runEventLoop).
THEOREM ReplicasInStep == Spec => []ReplicaInv
<1>1. Base => ReplicaInv
  <2> SUFFICES ASSUME Base PROVE TypeOK /\ InSync
    BY DEF ReplicaInv
  <2>1. TypeOK
    BY TypesAreTypeOK DEF Base
  <2>2. ASSUME NEW r \in Replicas, phase[r] = "online", master = "up"
        PROVE  /\ copy[r] \o WriteIds(toReplica[r]) = Times(Cardinality(EntriesOf(r, registered)), Since(r))
               /\ r \notin inherited => Cardinality(EntriesOf(r, registered)) = 1
    BY <2>2, InStep, OnlineFacts DEF KnownTo, Known, Share
  <2>3. QED
    BY <2>1, <2>2 DEF InSync
<1>2. QED
  BY <1>1, BaseInvariant, PTL

\* The replicas follow the stream at all times, also once the master has ended: what one
\* has executed and has yet to read goes through the propagated writes in their order from
\* its registration on, with none left out in between; in a handshake, unless a write is
\* ahead of the file and the handshake bound to fail (PropogateCommandToReplicas writes to
\* every entry of the map, whatever its replica is doing).
THEOREM ReplicasFollow == Spec => []FollowInv
BY BaseInvariant, PTL DEF Base

-----------------------------------------------------------------------------
(* Replication implements the log.                                         *)

LEMMA UnitQuotient ==
  ASSUME NEW a \in Nat
  PROVE  a \div 1 = a
BY SMTT(30)

\* The next entry of a sequence that goes through a log is the one after its last, or,
\* if it has each of them several times, the last once more.
LEMMA AlongNext ==
  ASSUME NEW s \in Seq(Writes), NEW log \in Seq(Writes), NEW from \in 0 .. Len(log),
         NEW k \in Nat \ {0}, Along(s, log, from, k), NEW n \in Nat, n < Len(s)
  PROVE  \/ n = 0 /\ from + 1 \in 1 .. Len(log) /\ s[n + 1] = log[from + 1]
         \/ n > 0 /\ k # 1 /\ s[n + 1] = s[n]
         \/ n > 0 /\ \E i \in 1 .. Len(log) : i > from + 1 /\ log[i - 1] = s[n] /\ s[n + 1] = log[i]
<1>1. /\ Len(log) \in Nat /\ from \in Nat /\ Len(s) \in Nat /\ n + 1 \in 1 .. Len(s) /\ (n + 1) - 1 = n
  OBVIOUS
<1>2. n \div k \in 0 .. Len(log) - from - 1 /\ s[n + 1] = log[from + n \div k + 1]
  <2>1. ((n + 1) - 1) \div k \in 0 .. Len(log) - from - 1
    BY <1>1, AlongPlaces
  <2>2. s[n + 1] = log[from + ((n + 1) - 1) \div k + 1]
    BY <1>1 DEF Along
  <2>3. QED
    BY <1>1, <2>1, <2>2
<1>3. CASE n = 0
  <2>1. 0 \div k = 0
    BY SMTT(30)
  <2>2. QED
    BY <1>1, <1>2, <1>3, <2>1
<1>4. CASE n # 0
  <2>1. n \in 1 .. Len(s) /\ n \in Nat \ {0} /\ n - 1 \in Nat
    BY <1>1, <1>4
  <2>2. (n - 1) \div k \in 0 .. Len(log) - from - 1 /\ s[n] = log[from + (n - 1) \div k + 1]
    BY <2>1, AlongPlaces DEF Along
  <2>3. n \div k = (n - 1) \div k \/ n \div k = (n - 1) \div k + 1
    BY <2>1, NextQuotient
  <2>4. CASE n \div k = (n - 1) \div k
    <3>1. k # 1
      <4>1. n \div 1 = n /\ (n - 1) \div 1 = n - 1
        BY <2>1, UnitQuotient
      <4>2. QED
        BY <2>1, <2>4, <4>1
    <3>2. QED
      BY <1>2, <2>1, <2>2, <2>4, <3>1
  <2>5. CASE n \div k = (n - 1) \div k + 1
    <3> DEFINE q == (n - 1) \div k
               p == n \div k
    <3>1. q \in 0 .. Len(log) - from - 1 /\ p \in 0 .. Len(log) - from - 1 /\ p = q + 1
          /\ s[n] = log[from + q + 1] /\ s[n + 1] = log[from + p + 1]
      BY <1>2, <2>2, <2>5
    <3> HIDE DEF q, p
    <3>2. /\ from + p + 1 \in 1 .. Len(log) /\ from + p + 1 > from + 1
          /\ (from + p + 1) - 1 = from + q + 1
      BY <1>1, <3>1
    <3>3. QED
      BY <2>1, <3>1, <3>2
  <2>6. QED
    BY <2>3, <2>4, <2>5
<1>5. QED
  BY <1>3, <1>4

LEMMA ReadsTheLog ==
  ASSUME Base, NEW r \in Replicas, LoopRead(r), Head(toReplica[r]).kind = "write"
  PROVE  /\ UNCHANGED <<stream, joined, inherited>>
         /\ \/ /\ \E i \in DOMAIN stream :
                    /\ IF copy[r] = <<>> THEN i = joined[r] + 1
                       ELSE i > joined[r] + 1 /\ stream[i - 1] = copy[r][Len(copy[r])]
                    /\ copy' = [copy EXCEPT ![r] = Append(copy[r], stream[i])]
            \/ /\ r \in inherited /\ copy[r] # <<>>
               /\ copy' = [copy EXCEPT ![r] = Append(copy[r], copy[r][Len(copy[r])])]
<1>1. /\ phase[r] = "online" /\ toReplica[r] # <<>> /\ UNCHANGED <<dataVars, memberVars>>
      /\ copy' = [copy EXCEPT ![r] = Append(copy[r], Head(toReplica[r]).id)]
  BY DEF LoopRead
<1>2. toReplica[r] \in Seq(ToReplicaMsgs) /\ copy[r] \in Seq(Writes)
  BY DEF Base, TypesInv, LinkTypes
<1> DEFINE s == KnownTo(r)
           done == copy[r]
           msgs == toReplica[r]
           log == stream
           from == joined[r]
           k == Share(r)
           n == Len(copy[r])
           id == Head(toReplica[r]).id
<1>3. /\ s \in Seq(Writes) /\ log \in Seq(Writes) /\ from \in 0 .. Len(log)
      /\ k \in Nat \ {0} /\ Along(s, log, from, k) /\ (k # 1 => r \in inherited)
  BY <1>1, OnlineFacts
<1>4. /\ done \in Seq(Writes) /\ msgs \in Seq(ToReplicaMsgs) /\ msgs # <<>> /\ n \in Nat /\ n = Len(done)
      /\ s = Known(done, msgs) /\ Head(msgs).kind = "write" /\ id = Head(msgs).id
      /\ (done = <<>> <=> n = 0)
  BY <1>1, <1>2 DEF KnownTo
<1> HIDE DEF s, done, msgs, log, from, k, n, id
<1>5. n < Len(s) /\ s[n + 1] = id
  BY <1>4, KnownTail
<1>6. n > 0 => s[n] = done[n]
  <2>1. \A i \in 1 .. Len(done) : Known(done, msgs)[i] = done[i]
    BY <1>4, KnownType
  <2>2. QED
    BY <1>4, <2>1
<1>7. \/ n = 0 /\ from + 1 \in 1 .. Len(log) /\ s[n + 1] = log[from + 1]
      \/ n > 0 /\ k # 1 /\ s[n + 1] = s[n]
      \/ n > 0 /\ \E i \in 1 .. Len(log) : i > from + 1 /\ log[i - 1] = s[n] /\ s[n + 1] = log[i]
  BY <1>3, <1>4, <1>5, AlongNext
<1>8. DOMAIN log = 1 .. Len(log)
  BY <1>3
<1>9. \/ \E i \in DOMAIN log : /\ IF done = <<>> THEN i = from + 1 ELSE i > from + 1 /\ log[i - 1] = done[n]
                               /\ id = log[i]
      \/ r \in inherited /\ done # <<>> /\ id = done[n]
  <2>1. CASE n = 0 /\ from + 1 \in 1 .. Len(log) /\ s[n + 1] = log[from + 1]
    BY <1>4, <1>5, <1>8, <2>1
  <2>2. CASE n > 0 /\ k # 1 /\ s[n + 1] = s[n]
    BY <1>3, <1>4, <1>5, <1>6, <2>2
  <2>3. CASE n > 0 /\ \E i \in 1 .. Len(log) : i > from + 1 /\ log[i - 1] = s[n] /\ s[n + 1] = log[i]
    <3>1. done # <<>>
      BY <1>4, <2>3
    <3>2. QED
      BY <1>5, <1>6, <1>8, <2>3, <3>1
  <2>4. QED
    BY <1>7, <2>1, <2>2, <2>3
<1>10. UNCHANGED <<stream, joined, inherited>>
  BY <1>1 DEF dataVars, memberVars
<1>11. QED
  BY <1>1, <1>9, <1>10 DEF done, log, from, n, id

LEMMA LogInit ==
  ASSUME Init
  PROVE  Log!Init
BY DEF Init, Log!Init

LEMMA LogStep ==
  ASSUME Base, [Next]_vars
  PROVE  [Log!Next]_(Log!vars)
<1>0. TypesInv /\ AskInv /\ MemberTypes /\ LinkTypes /\ Clients \cap Replicas = {}
  BY MembersAssumption DEF Base, TypesInv
<1>1. UNCHANGED <<stream, joined, copy, inherited>> => UNCHANGED Log!vars
  BY DEF Log!vars
<1>2. ASSUME NEW c \in Clients, NEW cmd \in Cmds, WriteCmd(c, cmd) \/ QueueCmd(c, cmd)
      PROVE  [Log!Next]_(Log!vars)
  <2>1. UNCHANGED <<joined, copy, inherited>>
    BY <1>2 DEF WriteCmd, QueueCmd, memberVars, replicaVars
  <2>2. stream' = stream \/ \E id \in Writes : stream' = Append(stream, id) /\ id \notin ToSet(stream)
    BY <1>0, DataNext
  <2>3. ASSUME NEW id \in Writes, stream' = Append(stream, id), id \notin ToSet(stream)
        PROVE  Log!Next
    BY <2>1, <2>3 DEF Log!Next, Log!Extend, Log!ToSet, ToSet
  <2>4. QED
    BY <1>1, <2>1, <2>2, <2>3
<1>3. ASSUME NEW c \in Clients, Multi(c) \/ Exec(c) \/ Discard(c)
      PROVE  UNCHANGED <<stream, joined, copy, inherited>>
  BY <1>3 DEF Multi, Exec, Discard, memberVars, replicaVars
<1>4. ASSUME NEW c \in Clients, WaitCmd(c) \/ WaitSwallows(c)
      PROVE  UNCHANGED <<stream, joined, copy, inherited>>
  BY <1>4 DEF WaitCmd, WaitSwallows, memberVars, replicaVars, dataVars
<1>5. ASSUME NEW c \in Clients, Connect(c) PROVE UNCHANGED <<stream, joined, copy, inherited>>
  <2>1. c \notin Replicas
    BY <1>0
  <2>2. QED
    BY <1>5, <2>1 DEF Connect, Accept, replicaVars, dataVars
<1>6. WaitTimeout \/ UNCHANGED vars => UNCHANGED <<stream, joined, copy, inherited>>
  BY DEF WaitTimeout, vars, memberVars, replicaVars, dataVars
<1>7. ASSUME NEW r \in Replicas, Start(r) PROVE [Log!Next]_(Log!vars)
  <2>1. /\ UNCHANGED <<stream, joined, copy>> /\ phase[r] = "off"
        /\ inherited' = inherited \/ inherited' = inherited \cup {r}
    BY <1>7 DEF Start, Accept, dataVars
  <2>2. copy[r] = <<>>
    BY <1>0, <2>1 DEF AskInv, Asking
  <2>3. inherited' = inherited \cup {r} => Log!Next
    BY <2>1, <2>2 DEF Log!Next, Log!Warn
  <2>4. QED
    BY <1>1, <2>1, <2>3
<1>8. ASSUME NEW r \in Replicas, HandleReplica(r) PROVE [Log!Next]_(Log!vars)
  <2>1. /\ UNCHANGED <<stream, copy, inherited>> /\ toMaster[r] # <<>>
        /\ \/ joined' = joined
           \/ Head(toMaster[r]).kind = "port" /\ joined' = [joined EXCEPT ![r] = Len(stream)]
    BY <1>8 DEF HandleReplica, dataVars, replicaVars
  <2>2. ASSUME Head(toMaster[r]).kind = "port", joined' = [joined EXCEPT ![r] = Len(stream)]
        PROVE  Log!Next
    <3>1. toMaster[r] \in Seq(ToMasterMsgs)
      BY <1>0 DEF LinkTypes
    <3>2. r \notin registered
      BY <1>0, <2>1, <2>2, <3>1, PortTail DEF AskInv, Asking
    <3>3. copy[r] = <<>>
      BY <1>0, <3>2 DEF AskInv, Asking
    <3>4. QED
      BY <2>1, <2>2, <3>3 DEF Log!Next, Log!Join
  <2>3. QED
    BY <1>1, <2>1, <2>2
<1>9. ASSUME NEW r \in Replicas, LoopRead(r) PROVE [Log!Next]_(Log!vars)
  <2>1. CASE Head(toReplica[r]).kind = "write"
    <3>1. /\ UNCHANGED <<stream, joined, inherited>>
          /\ \/ /\ \E i \in DOMAIN stream :
                    /\ IF copy[r] = <<>> THEN i = joined[r] + 1
                       ELSE i > joined[r] + 1 /\ stream[i - 1] = copy[r][Len(copy[r])]
                    /\ copy' = [copy EXCEPT ![r] = Append(copy[r], stream[i])]
             \/ /\ r \in inherited /\ copy[r] # <<>>
                /\ copy' = [copy EXCEPT ![r] = Append(copy[r], copy[r][Len(copy[r])])]
      BY <1>0, <1>9, <2>1, ReadsTheLog
    <3>2. Log!Deliver(r) \/ Log!Repeat(r)
      BY <3>1 DEF Log!Deliver, Log!Due, Log!Repeat, Log!Last
    <3>3. QED
      BY <3>2 DEF Log!Next
  <2>2. CASE Head(toReplica[r]).kind # "write"
    <3>1. UNCHANGED <<stream, joined, inherited>> /\ copy' = [copy EXCEPT ![r] = copy[r]]
      BY <1>9, <2>2 DEF LoopRead, dataVars, memberVars
    <3>2. copy' = copy
      BY <1>0, <3>1 DEF LinkTypes
    <3>3. QED
      BY <1>1, <3>1, <3>2
  <2>3. QED
    BY <2>1, <2>2
<1>10. ASSUME NEW r \in Replicas,
              WaitRead(r) \/ ReplicaEof(r) \/ ReplicaReset(r) \/ HandshakeRead(r) \/ LosesMaster(r) \/ Kill(r)
       PROVE  UNCHANGED <<stream, joined, copy, inherited>>
  BY <1>10 DEF WaitRead, ReplicaEof, ReplicaReset, HandshakeRead, LosesMaster, Kill,
               dataVars, memberVars, replicaVars
<1>11. QED
  BY <1>1, <1>2, <1>3, <1>4, <1>5, <1>6, <1>7, <1>8, <1>9, <1>10, NextCases DEF ReplicaActs

\* The copies of the replicas are windows on one log that only grows, whatever clients,
\* replicas and the environment do: the propagation of Server.cpp implements
\* ReplicatedLog, where only a replica with an inherited number gets an entry again.
THEOREM ImplementsReplicatedLog == Spec => ImplementsLog
<1>1. Spec => []Base
  BY BaseInvariant
<1>2. Spec => Log!Spec
  BY <1>1, LogInit, LogStep, PTL DEF Spec, Log!Spec
<1>3. QED
  BY <1>2 DEF ImplementsLog

-----------------------------------------------------------------------------
(* The exchange with a replica that nothing has disturbed.                 *)

Commands == {"write", "getack"}
Single(msgs, kind) == Len(msgs) = 1 /\ msgs[1].kind = kind
FileFirst(msgs) ==
    /\ Len(msgs) >= 1 /\ msgs[1].kind = "rdb"
    /\ \A i \in 2 .. Len(msgs) : msgs[i].kind \in Commands
Announced(msgs) ==
    /\ Len(msgs) >= 2 /\ msgs[1].kind = "fullresync" /\ msgs[2] = Msg("rdb")
    /\ \A i \in 3 .. Len(msgs) : msgs[i].kind \in Commands

\* Request and reply in turn, then the file, then commands one way and
\* acknowledgements the other.
Clean(r) ==
    /\ phase[r] \notin Aborted
    /\ phase[r] \in {"ping", "port", "capa"} =>
         \/ Single(toMaster[r], phase[r]) /\ toReplica[r] = <<>>
         \/ toMaster[r] = <<>> /\ Single(toReplica[r], Expected[phase[r]])
    /\ phase[r] = "psync" =>
         \/ Single(toMaster[r], "psync") /\ toReplica[r] = <<>>
         \/ toMaster[r] = <<>> /\ Announced(toReplica[r])
    /\ phase[r] = "rdb" => toMaster[r] = <<>> /\ FileFirst(toReplica[r])
    /\ phase[r] = "online" => OfKinds(toMaster[r], {"ack"}) /\ OfKinds(toReplica[r], Commands)

CleanInv == \A r \in Replicas : r \notin disturbed => Clean(r)

LEMMA CleanInit ==
  ASSUME Init
  PROVE  CleanInv
BY DEF Init, CleanInv, Clean, Aborted

LEMMA SingleFacts ==
  ASSUME NEW M, NEW msgs \in Seq(M), NEW kind, Single(msgs, kind)
  PROVE  msgs # <<>> /\ Head(msgs) = msgs[1] /\ Head(msgs).kind = kind /\ Tail(msgs) = <<>>
<1>1. msgs # <<>> /\ Len(Tail(msgs)) = 0 /\ Tail(msgs) \in Seq(M) /\ Head(msgs) = msgs[1]
  BY DEF Single
<1>2. QED
  BY <1>1, EmptyLength DEF Single

LEMMA SingleOne ==
  ASSUME NEW m
  PROVE  Single(<<m>>, m.kind) /\ <<>> \o <<m>> = <<m>>
BY DEF Single

LEMMA AnnouncedTail ==
  ASSUME NEW M, NEW msgs \in Seq(M), msgs # <<>>
  PROVE  /\ Announced(msgs) => Head(msgs).kind = "fullresync" /\ FileFirst(Tail(msgs))
         /\ FileFirst(msgs) => Head(msgs).kind = "rdb" /\ OfKinds(Tail(msgs), Commands)
<1>1. /\ Head(msgs) = msgs[1] /\ Len(msgs) \in Nat /\ Len(Tail(msgs)) = Len(msgs) - 1
      /\ \A i \in 1 .. Len(msgs) - 1 : Tail(msgs)[i] = msgs[i + 1]
  OBVIOUS
<1>2. ASSUME Announced(msgs) PROVE Head(msgs).kind = "fullresync" /\ FileFirst(Tail(msgs))
  <2>1. 1 \in 1 .. Len(msgs) - 1 /\ Len(Tail(msgs)) >= 1
    BY <1>1, <1>2 DEF Announced
  <2>2. Tail(msgs)[1].kind = "rdb"
    BY <1>1, <1>2, <2>1 DEF Announced, Msg
  <2>3. ASSUME NEW i \in 2 .. Len(Tail(msgs)) PROVE Tail(msgs)[i].kind \in Commands
    <3>1. i \in 1 .. Len(msgs) - 1 /\ i + 1 \in 3 .. Len(msgs)
      BY <1>1, <2>3
    <3>2. QED
      BY <1>1, <1>2, <3>1 DEF Announced
  <2>4. QED
    BY <1>1, <1>2, <2>1, <2>2, <2>3 DEF FileFirst, Announced
<1>3. ASSUME FileFirst(msgs) PROVE Head(msgs).kind = "rdb" /\ OfKinds(Tail(msgs), Commands)
  <2>1. ASSUME NEW i \in 1 .. Len(Tail(msgs)) PROVE Tail(msgs)[i].kind \in Commands
    <3>1. i \in 1 .. Len(msgs) - 1 /\ i + 1 \in 2 .. Len(msgs)
      BY <1>1, <2>1
    <3>2. QED
      BY <1>1, <1>3, <3>1 DEF FileFirst
  <2>2. QED
    BY <1>1, <1>3, <2>1 DEF FileFirst, OfKinds
<1>4. QED
  BY <1>2, <1>3

LEMMA MoreCommands ==
  ASSUME NEW M, NEW s \in Seq(M), NEW t \in Seq(M), OfKinds(t, Commands)
  PROVE  /\ Announced(s) => Announced(s \o t)
         /\ FileFirst(s) => FileFirst(s \o t)
         /\ OfKinds(s, Commands) => OfKinds(s \o t, Commands)
<1>1. /\ Len(s \o t) = Len(s) + Len(t) /\ Len(s) \in Nat /\ Len(t) \in Nat
      /\ \A i \in 1 .. Len(s) + Len(t) : (s \o t)[i] = IF i <= Len(s) THEN s[i] ELSE t[i - Len(s)]
  BY ConcatElements
<1>2. ASSUME NEW n \in Nat, \A i \in n .. Len(s) : s[i].kind \in Commands, n >= 1
      PROVE  \A i \in n .. Len(s \o t) : (s \o t)[i].kind \in Commands
  <2>1. ASSUME NEW i \in n .. Len(s \o t) PROVE (s \o t)[i].kind \in Commands
    <3>1. i \in 1 .. Len(s) + Len(t) /\ i \in Nat
      BY <1>1, <1>2, <2>1
    <3>2. CASE i <= Len(s)
      <4>1. i \in n .. Len(s)
        BY <1>1, <2>1, <3>2
      <4>2. QED
        BY <1>1, <1>2, <3>1, <3>2, <4>1
    <3>3. CASE ~(i <= Len(s))
      <4>1. i - Len(s) \in 1 .. Len(t)
        BY <1>1, <3>1, <3>3
      <4>2. QED
        BY <1>1, <3>1, <3>3, <4>1 DEF OfKinds
    <3>4. QED
      BY <3>2, <3>3
  <2>2. QED
    BY <2>1
<1>3. Announced(s) => Announced(s \o t)
  <2>1. SUFFICES ASSUME Announced(s) PROVE Announced(s \o t)
    OBVIOUS
  <2>2. \A i \in 3 .. Len(s \o t) : (s \o t)[i].kind \in Commands
    BY <1>2, <2>1 DEF Announced
  <2>3. 1 \in 1 .. Len(s) + Len(t) /\ 2 \in 1 .. Len(s) + Len(t) /\ 1 <= Len(s) /\ 2 <= Len(s)
    BY <1>1, <2>1 DEF Announced
  <2>4. (s \o t)[1] = s[1] /\ (s \o t)[2] = s[2] /\ Len(s \o t) >= 2
    BY <1>1, <2>3
  <2>5. QED
    BY <2>1, <2>2, <2>4 DEF Announced
<1>4. FileFirst(s) => FileFirst(s \o t)
  <2>1. SUFFICES ASSUME FileFirst(s) PROVE FileFirst(s \o t)
    OBVIOUS
  <2>2. \A i \in 2 .. Len(s \o t) : (s \o t)[i].kind \in Commands
    BY <1>2, <2>1 DEF FileFirst
  <2>3. 1 \in 1 .. Len(s) + Len(t) /\ 1 <= Len(s)
    BY <1>1, <2>1 DEF FileFirst
  <2>4. (s \o t)[1] = s[1] /\ Len(s \o t) >= 1
    BY <1>1, <2>3
  <2>5. QED
    BY <2>1, <2>2, <2>4 DEF FileFirst
<1>5. OfKinds(s, Commands) => OfKinds(s \o t, Commands)
  BY KindsConcat
<1>6. QED
  BY <1>3, <1>4, <1>5

LEMMA CleanNext ==
  ASSUME TypesInv, DescriptorInv, AskInv, CleanInv, [Next]_vars
  PROVE  CleanInv'
<1> SUFFICES ASSUME NEW r \in Replicas, r \notin disturbed' PROVE Clean(r)'
  BY DEF CleanInv
<1>0. /\ Asking(r) /\ LinkTypes
      /\ toMaster[r] \in Seq(ToMasterMsgs) /\ toReplica[r] \in Seq(ToReplicaMsgs)
      /\ phase[r] \in Phases /\ (r \notin disturbed => Clean(r))
  BY DEF AskInv, CleanInv, TypesInv, LinkTypes
<1>1. CASE Idle(r)
  BY <1>0, <1>1 DEF Idle, Clean
<1>2. CASE MasterSent(r)
  <2>1. phase'[r] = phase[r] /\ toMaster'[r] = toMaster[r]
    BY <1>2 DEF MasterSent
  <2>2. PICK m \in ToReplicaMsgs, n \in 0 .. Share(r) :
              /\ toReplica'[r] = toReplica[r] \o Copies(m, n)
              /\ n > 0 => r \in sockets
              /\ r \in disturbed' <=> r \in disturbed \/ (Joining(r) /\ n > 0)
              /\ (\E id \in Writes : m = Numbered("write", id)) \/ m = Numbered("getack", waits')
    BY <1>2 DEF MasterSent
  <2>0. m.kind \in Commands
    BY <2>2 DEF Numbered, Commands
  <2>3. n \in Nat /\ Clean(r)
    BY <1>0, <2>2
  <2>4. Copies(m, n) \in Seq(ToReplicaMsgs) /\ OfKinds(Copies(m, n), Commands)
    BY <2>0, <2>2, <2>3, CopiesType, KindsCopies
  <2>5. CASE n = 0
    <3>1. toReplica'[r] = toReplica[r]
      BY <1>0, <2>2, <2>5, NoCopy
    <3>2. QED
      BY <2>1, <2>3, <3>1 DEF Clean
  <2>6. CASE n > 0
    <3>1. ~Joining(r)
      BY <2>2, <2>6
    <3>2. phase[r] \in {"ping", "port", "capa"} => FALSE
      <4>1. SUFFICES ASSUME phase[r] \in {"ping", "port", "capa"} PROVE FALSE
        OBVIOUS
      <4>2. Msg("rdb") \in ToSet(toReplica[r])
        BY <3>1, <4>1 DEF Joining, Handshake
      <4>3. toReplica[r] # <<>>
        BY <4>2 DEF ToSet
      <4>4. Single(toReplica[r], Expected[phase[r]])
        BY <2>3, <4>1, <4>3 DEF Clean
      <4>5. Expected[phase[r]] \in {"pong", "ok"}
        BY <4>1 DEF Expected
      <4>6. QED
        BY <4>2, <4>4, <4>5 DEF Single, Msg, ToSet
    <3>3. phase[r] = "psync" => toMaster[r] = <<>> /\ Announced(toReplica[r])
      <4>1. SUFFICES ASSUME phase[r] = "psync" PROVE toMaster[r] = <<>> /\ Announced(toReplica[r])
        OBVIOUS
      <4>2. Msg("rdb") \in ToSet(toReplica[r])
        BY <3>1, <4>1 DEF Joining, Handshake
      <4>3. toReplica[r] # <<>>
        BY <4>2 DEF ToSet
      <4>4. QED
        BY <2>3, <4>1, <4>3 DEF Clean
    <3>4. QED
      BY <1>0, <2>1, <2>2, <2>3, <2>4, <3>2, <3>3, MoreCommands DEF Clean
  <2>7. QED
    BY <2>3, <2>5, <2>6
<1>3. CASE WaitRead(r)
  <2>1. /\ toMaster[r] # <<>> /\ toMaster'[r] = Tail(toMaster[r])
        /\ phase' = phase /\ toReplica' = toReplica
        /\ Head(toMaster[r]).kind = "ack" /\ r \notin disturbed
    BY <1>0, <1>3 DEF WaitRead, replicaVars, LinkTypes
  <2>2. Clean(r)
    BY <1>0, <2>1
  <2>3. phase[r] \notin {"ping", "port", "capa", "psync", "rdb"}
    BY <1>0, <2>1, <2>2, SingleFacts DEF Clean
  <2>4. phase[r] = "online" => OfKinds(Tail(toMaster[r]), {"ack"})
    BY <1>0, <2>1, <2>2, KindsTail DEF Clean
  <2>5. QED
    BY <2>1, <2>2, <2>3, <2>4 DEF Clean
<1>4. CASE HandleReplica(r)
  <2> DEFINE m == Head(toMaster[r])
  <2>1. /\ toMaster[r] # <<>> /\ toMaster'[r] = Tail(toMaster[r]) /\ phase' = phase
        /\ toReplica'[r] = toReplica[r] \o Reply(m) /\ m.kind # "ack" /\ r \notin disturbed
    BY <1>0, <1>4 DEF HandleReplica, replicaVars, LinkTypes
  <2>2. Clean(r)
    BY <1>0, <2>1
  <2> HIDE DEF m
  <2>3. phase[r] # "online"
    BY <1>0, <2>1, <2>2, KindsTail DEF Clean, m
  <2>4. phase[r] # "rdb"
    BY <2>1, <2>2 DEF Clean
  <2>5. phase[r] \in {"ping", "port", "capa", "psync"} =>
           toReplica[r] = <<>> /\ m.kind = phase[r] /\ toMaster'[r] = <<>>
    BY <1>0, <2>1, <2>2, SingleFacts DEF Clean, m
  <2>6. Single(<<Msg("pong")>>, "pong") /\ Single(<<Msg("ok")>>, "ok")
        /\ Announced(<<Msg("fullresync"), Msg("rdb")>>)
    BY DEF Single, Announced, Msg
  <2>7. <<>> \o Reply(m) = Reply(m)
    BY ReplyFacts
  <2>8. Expected["ping"] = "pong" /\ Expected["port"] = "ok" /\ Expected["capa"] = "ok"
    BY DEF Expected
  <2>9. phase[r] = "ping" => Single(toReplica'[r], Expected[phase[r]])
    BY <2>1, <2>5, <2>6, <2>7, <2>8, ReplyFacts
  <2>10. phase[r] \in {"port", "capa"} => Single(toReplica'[r], Expected[phase[r]])
    BY <2>1, <2>5, <2>6, <2>7, <2>8, ReplyFacts
  <2>11. phase[r] = "psync" => Announced(toReplica'[r])
    BY <2>1, <2>5, <2>6, <2>7, ReplyFacts
  <2>12. QED
    BY <2>1, <2>2, <2>3, <2>4, <2>5, <2>9, <2>10, <2>11 DEF Clean
<1>5. CASE ReplicaEof(r)
  BY <1>0, <1>5 DEF ReplicaEof, replicaVars, Clean
<1>6. CASE Start(r)
  <2>1. phase'[r] = "ping" /\ toMaster'[r] = <<Msg("ping")>> /\ toReplica'[r] = <<>>
    BY <1>0, <1>6 DEF Start, LinkTypes, Asking
  <2>2. Single(<<Msg("ping")>>, "ping")
    BY DEF Single, Msg
  <2>3. QED
    BY <2>1, <2>2 DEF Clean, Aborted
<1>7. CASE HandshakeRead(r)
  <2>1. /\ phase[r] \in Handshake /\ toReplica[r] # <<>> /\ toReplica'[r] = Tail(toReplica[r])
        /\ r \notin disturbed
    BY <1>0, <1>7 DEF HandshakeRead, LinkTypes
  <2>2. Clean(r)
    BY <1>0, <2>1
  <2>3. phase[r] \in {"ping", "port", "capa"} =>
          toMaster[r] = <<>> /\ Head(toReplica[r]).kind = Expected[phase[r]] /\ Tail(toReplica[r]) = <<>>
    BY <1>0, <2>1, <2>2, SingleFacts DEF Clean
  <2>4. phase[r] = "psync" =>
          toMaster[r] = <<>> /\ Head(toReplica[r]).kind = "fullresync" /\ FileFirst(Tail(toReplica[r]))
    BY <1>0, <2>1, <2>2, AnnouncedTail DEF Clean
  <2>5. phase[r] = "rdb" =>
          toMaster[r] = <<>> /\ Head(toReplica[r]).kind = "rdb" /\ OfKinds(Tail(toReplica[r]), Commands)
    BY <1>0, <2>1, <2>2, AnnouncedTail DEF Clean
  <2>6. Expected["psync"] = "fullresync" /\ Expected["rdb"] = "rdb"
    BY DEF Expected
  <2>7. phase[r] \in {"ping", "port", "capa", "psync", "rdb"}
    BY <2>1 DEF Handshake
  <2>8. Head(toReplica[r]).kind = Expected[phase[r]] /\ toMaster[r] = <<>>
    BY <2>3, <2>4, <2>5, <2>6, <2>7
  <2>9. phase'[r] = NextPhase[phase[r]] /\ toMaster'[r] = <<>> \o Sent[phase[r]]
    <3>1. /\ phase' = [phase EXCEPT ![r] = NextPhase[phase[r]]]
          /\ toMaster' = [toMaster EXCEPT ![r] = toMaster[r] \o Sent[phase[r]]]
      BY <1>0, <1>7, <2>8, HandshakeEffect DEF TypesInv
    <3>2. QED
      BY <1>0, <2>8, <3>1 DEF LinkTypes
  <2>10. /\ NextPhase["ping"] = "port" /\ Sent["ping"] = <<Msg("port")>>
         /\ NextPhase["port"] = "capa" /\ Sent["port"] = <<Msg("capa")>>
         /\ NextPhase["capa"] = "psync" /\ Sent["capa"] = <<Msg("psync")>>
         /\ NextPhase["psync"] = "rdb" /\ Sent["psync"] = <<>>
         /\ NextPhase["rdb"] = "online" /\ Sent["rdb"] = <<>>
    BY DEF NextPhase, Sent
  <2>11. /\ Single(<<Msg("port")>>, "port") /\ Single(<<Msg("capa")>>, "capa")
         /\ Single(<<Msg("psync")>>, "psync")
         /\ <<>> \o <<Msg("port")>> = <<Msg("port")>> /\ <<>> \o <<Msg("capa")>> = <<Msg("capa")>>
         /\ <<>> \o <<Msg("psync")>> = <<Msg("psync")>> /\ <<>> \o <<>> = <<>>
    BY DEF Single, Msg
  <2>12. OfKinds(<<>>, {"ack"}) /\ {"port", "capa", "psync", "rdb", "online"} \cap Aborted = {}
    BY DEF OfKinds, Aborted
  <2>13. CASE phase[r] \in {"ping", "port", "capa"}
    <3>1. toReplica'[r] = <<>>
      BY <2>1, <2>3, <2>13
    <3>2. CASE phase[r] = "ping"
      BY <2>9, <2>10, <2>11, <2>12, <3>1, <3>2 DEF Clean
    <3>3. CASE phase[r] = "port"
      BY <2>9, <2>10, <2>11, <2>12, <3>1, <3>3 DEF Clean
    <3>4. CASE phase[r] = "capa"
      BY <2>9, <2>10, <2>11, <2>12, <3>1, <3>4 DEF Clean
    <3>5. QED
      BY <2>13, <3>2, <3>3, <3>4
  <2>14. CASE phase[r] = "psync"
    BY <2>1, <2>4, <2>9, <2>10, <2>11, <2>12, <2>14 DEF Clean
  <2>15. CASE phase[r] = "rdb"
    BY <2>1, <2>5, <2>9, <2>10, <2>11, <2>12, <2>15 DEF Clean
  <2>16. QED
    BY <2>7, <2>13, <2>14, <2>15
<1>8. CASE LoopRead(r)
  <2> DEFINE m == Head(toReplica[r])
  <2>1. /\ phase[r] = "online" /\ toReplica[r] # <<>> /\ toReplica'[r] = Tail(toReplica[r])
        /\ toMaster'[r] = IF m.kind = "getack" THEN Append(toMaster[r], Numbered("ack", m.id)) ELSE toMaster[r]
        /\ phase'[r] = IF FirstByte(m.kind) = "*" THEN "online" ELSE "aborted_loop"
        /\ r \notin disturbed
    BY <1>0, <1>8 DEF LoopRead, LinkTypes
  <2>2. OfKinds(toMaster[r], {"ack"}) /\ OfKinds(toReplica[r], Commands)
    BY <1>0, <2>1 DEF Clean
  <2>3. OfKinds(Tail(toReplica[r]), Commands) /\ m.kind \in Commands
    BY <1>0, <2>1, <2>2, KindsTail
  <2>4. FirstByte(m.kind) = "*"
    BY <2>3 DEF FirstByte, Commands
  <2>5. OfKinds(toMaster'[r], {"ack"})
    <3>1. CASE m.kind = "getack"
      <4> DEFINE a == Numbered("ack", m.id)
      <4>1. m \in ToReplicaMsgs
        BY <1>0, <2>1
      <4>2. a \in ToMasterMsgs
        BY <3>1, <4>1, MessageFields, MessageTypes
      <4>3. OfKinds(<<a>>, {"ack"}) /\ Append(toMaster[r], a) = toMaster[r] \o <<a>>
            /\ <<a>> \in Seq(ToMasterMsgs)
        BY <1>0, <4>2 DEF OfKinds, Numbered
      <4>4. toMaster'[r] = toMaster[r] \o <<a>>
        BY <2>1, <3>1, <4>3
      <4> DEFINE t == <<a>>
                 s == toMaster[r]
      <4>5. OfKinds(s, {"ack"}) /\ OfKinds(t, {"ack"}) /\ s \in Seq(ToMasterMsgs) /\ t \in Seq(ToMasterMsgs)
        BY <1>0, <2>2, <4>3
      <4> HIDE DEF a, s, t
      <4>6. OfKinds(s \o t, {"ack"})
        BY <4>5, KindsConcat
      <4>7. QED
        BY <4>4, <4>6 DEF s, t
    <3>2. CASE m.kind # "getack"
      BY <2>1, <2>2, <3>2
    <3>3. QED
      BY <3>1, <3>2
  <2>6. QED
    BY <2>1, <2>3, <2>4, <2>5 DEF Clean, Aborted
<1>9. CASE LosesMaster(r) \/ Kill(r)
  <2>1. phase'[r] \in {"orphan", "gone"}
    BY <1>0, <1>9 DEF LosesMaster, Kill, LinkTypes
  <2>2. QED
    BY <2>1 DEF Clean, Aborted
<1>10. QED
  BY <1>1, <1>2, <1>3, <1>4, <1>5, <1>6, <1>7, <1>8, <1>9, LocalStep DEF OwnAct

LEMMA CleanInvariant == Spec => []CleanInv
<1>1. Base /\ CleanInv /\ [Next]_vars => CleanInv'
  BY CleanNext DEF Base
<1>2. QED
  BY <1>1, CleanInit, BaseInvariant, PTL DEF Spec

\* An assertion of readSimpleString, readRDBFile or ReadArray ends a replica only after
\* its exchange was disturbed: as long as the master neither writes to its number before
\* answering PSYNC, nor takes a message of its handshake for an acknowledgement, nor
\* answers a late acknowledgement, no replica reads a reply it does not expect.
THEOREM ReplicasSurvive == Spec => []OnlyDisturbedAbort
<1>1. CleanInv => OnlyDisturbedAbort
  BY DEF CleanInv, Clean, OnlyDisturbedAbort
<1>2. QED
  BY <1>1, CleanInvariant, PTL

-----------------------------------------------------------------------------
(* The requests of WAIT and their answers are those of a WAIT so far.      *)

Recent(msgs, kind, n) == \A m \in ToSet(msgs) : m.kind = kind => m.id <= n

Numbering(r) == Recent(toReplica[r], "getack", waits) /\ Recent(toMaster[r], "ack", waits)
NumberInv == \A r \in Replicas : Numbering(r)

LEMMA NumberInit ==
  ASSUME Init
  PROVE  NumberInv
BY DEF Init, NumberInv, Numbering, Recent, ToSet

LEMMA RecentMore ==
  ASSUME NEW M, NEW s \in Seq(M), NEW t \in Seq(M), NEW kind, NEW n \in Nat,
         Recent(s, kind, n), Recent(t, kind, n)
  PROVE  Recent(s \o t, kind, n)
BY ToSetConcat DEF Recent

LEMMA RecentTail ==
  ASSUME NEW M, NEW s \in Seq(M), s # <<>>, NEW kind, NEW n \in Nat, Recent(s, kind, n)
  PROVE  Recent(Tail(s), kind, n) /\ (Head(s).kind = kind => Head(s).id <= n)
BY HeadAndTail DEF Recent

LEMMA RecentOthers ==
  ASSUME NEW M, NEW msgs \in Seq(M), NEW kinds, OfKinds(msgs, kinds), NEW kind, kind \notin kinds, NEW n
  PROVE  Recent(msgs, kind, n)
BY DEF Recent, OfKinds, ToSet

LEMMA NumberNext ==
  ASSUME TypesInv, DescriptorInv, NumberInv, [Next]_vars
  PROVE  NumberInv'
<1> SUFFICES ASSUME NEW r \in Replicas PROVE Numbering(r)'
  BY DEF NumberInv
<1>0. /\ Numbering(r) /\ LinkTypes /\ waits \in Nat
      /\ toMaster[r] \in Seq(ToMasterMsgs) /\ toReplica[r] \in Seq(ToReplicaMsgs)
  BY BoundsAssumption DEF NumberInv, TypesInv, LinkTypes, WaitTypes
<1>00. /\ \A m \in ToMasterMsgs : m.id \in Nat
       /\ \A m \in ToReplicaMsgs : m.kind = "getack" => m.id \in Nat
  BY BoundsAssumption, MessageFields
<1>1. CASE Idle(r)
  <2>1. toReplica'[r] = toReplica[r] /\ toMaster'[r] = toMaster[r] /\ waits <= waits' /\ waits' \in Nat
    BY <1>1 DEF Idle
  <2>2. ASSUME NEW m \in ToSet(toReplica[r]), m.kind = "getack" PROVE m.id <= waits'
    <3>1. m \in ToReplicaMsgs /\ m.id <= waits
      BY <1>0, <2>2 DEF ToSet, Numbering, Recent
    <3>2. m.id \in Nat
      BY <1>00, <2>2, <3>1
    <3>3. QED
      BY <1>0, <2>1, <3>1, <3>2
  <2>3. ASSUME NEW m \in ToSet(toMaster[r]), m.kind = "ack" PROVE m.id <= waits'
    <3>1. m \in ToMasterMsgs /\ m.id <= waits
      BY <1>0, <2>3 DEF ToSet, Numbering, Recent
    <3>2. m.id \in Nat
      BY <1>00, <3>1
    <3>3. QED
      BY <1>0, <2>1, <3>1, <3>2
  <2>4. QED
    BY <2>1, <2>2, <2>3 DEF Numbering, Recent
<1>2. CASE MasterSent(r)
  <2>1. PICK m \in ToReplicaMsgs, n \in 0 .. Share(r) :
              /\ toReplica'[r] = toReplica[r] \o Copies(m, n)
              /\ \/ (\E id \in Writes : m = Numbered("write", id)) /\ UNCHANGED waitVars
                 \/ m = Numbered("getack", waits') /\ waits' = waits + 1
    BY <1>2 DEF MasterSent
  <2>2. toMaster'[r] = toMaster[r]
    BY <1>2 DEF MasterSent
  <2>3. n \in Nat /\ waits' \in Nat /\ waits <= waits'
    BY <1>0, <2>1 DEF waitVars
  <2>4. m.kind = "getack" => m.id <= waits'
    BY <2>1, <2>3 DEF Numbered
  <2>5. Copies(m, n) \in Seq(ToReplicaMsgs) /\ ToSet(Copies(m, n)) \subseteq {m}
    BY <2>3, CopiesType
  <2>6. Recent(Copies(m, n), "getack", waits')
    BY <2>4, <2>5 DEF Recent
  <2>7. Recent(toReplica[r], "getack", waits')
    <3>1. ASSUME NEW x \in ToSet(toReplica[r]), x.kind = "getack" PROVE x.id <= waits'
      <4>1. x \in ToReplicaMsgs /\ x.id <= waits
        BY <1>0, <3>1 DEF ToSet, Numbering, Recent
      <4>2. x.id \in Nat
        BY <1>00, <3>1, <4>1
      <4>3. QED
        BY <1>0, <2>3, <4>1, <4>2
    <3>2. QED
      BY <3>1 DEF Recent
  <2>8. Recent(toMaster[r], "ack", waits')
    <3>1. ASSUME NEW x \in ToSet(toMaster[r]), x.kind = "ack" PROVE x.id <= waits'
      <4>1. x \in ToMasterMsgs /\ x.id <= waits
        BY <1>0, <3>1 DEF ToSet, Numbering, Recent
      <4>2. x.id \in Nat
        BY <1>00, <4>1
      <4>3. QED
        BY <1>0, <2>3, <4>1, <4>2
    <3>2. QED
      BY <3>1 DEF Recent
  <2>9. QED
    BY <1>0, <2>1, <2>2, <2>3, <2>5, <2>6, <2>7, <2>8, RecentMore DEF Numbering
<1>3. CASE WaitRead(r)
  <2>1. toMaster[r] # <<>> /\ toMaster'[r] = Tail(toMaster[r]) /\ UNCHANGED <<toReplica, waits>>
    BY <1>0, <1>3 DEF WaitRead, LinkTypes
  <2>2. QED
    BY <1>0, <2>1, RecentTail DEF Numbering
<1>4. CASE HandleReplica(r)
  <2>1. /\ toMaster[r] # <<>> /\ toMaster'[r] = Tail(toMaster[r]) /\ waits' = waits
        /\ toReplica'[r] = toReplica[r] \o Reply(Head(toMaster[r]))
    BY <1>0, <1>4 DEF HandleReplica, LinkTypes, waitVars
  <2> DEFINE t == Reply(Head(toMaster[r]))
  <2>2. t \in Seq(ToReplicaMsgs) /\ OfKinds(t, Answering)
    BY ReplyFacts
  <2> HIDE DEF t
  <2>3. Recent(t, "getack", waits)
    <3>1. "getack" \notin Answering
      BY DEF Answering
    <3>2. QED
      BY <2>2, <3>1, RecentOthers
  <2>4. Recent(toReplica[r] \o t, "getack", waits)
    BY <1>0, <2>2, <2>3, RecentMore DEF Numbering
  <2>5. QED
    BY <1>0, <2>1, <2>4, RecentTail DEF Numbering, t
<1>5. CASE ReplicaEof(r)
  BY <1>0, <1>5 DEF ReplicaEof, waitVars, Numbering
<1>6. CASE Start(r)
  <2>1. UNCHANGED <<toReplica, waits>> /\ toMaster'[r] = <<Msg("ping")>>
    BY <1>0, <1>6 DEF Start, LinkTypes, waitVars
  <2>2. Recent(<<Msg("ping")>>, "ack", waits)
    BY DEF Recent, ToSet, Msg
  <2>3. QED
    BY <1>0, <2>1, <2>2 DEF Numbering
<1>7. CASE HandshakeRead(r)
  <2>1. /\ phase[r] \in Handshake /\ toReplica[r] # <<>> /\ toReplica'[r] = Tail(toReplica[r]) /\ waits' = waits
        /\ toMaster'[r] = toMaster[r] \/ toMaster'[r] = toMaster[r] \o Sent[phase[r]]
    BY <1>0, <1>7 DEF HandshakeRead, LinkTypes, waitVars
  <2> DEFINE t == Sent[phase[r]]
  <2>2. t \in Seq(ToMasterMsgs) /\ OfKinds(t, {"port", "capa", "psync"})
    <3>1. t \in Seq(ToMasterMsgs) /\ t \in {<<>>, <<Msg("port")>>, <<Msg("capa")>>, <<Msg("psync")>>}
      BY <2>1, HandshakeFacts
    <3> HIDE DEF t
    <3>2. QED
      BY <3>1 DEF OfKinds, Msg
  <2>3. toMaster'[r] = toMaster[r] \/ toMaster'[r] = toMaster[r] \o t
    BY <2>1
  <2> HIDE DEF t
  <2>4. Recent(t, "ack", waits)
    BY <2>2 DEF OfKinds, Recent, ToSet
  <2>5. Recent(toMaster[r] \o t, "ack", waits)
    BY <1>0, <2>2, <2>4, RecentMore DEF Numbering
  <2>6. QED
    BY <1>0, <2>1, <2>3, <2>5, RecentTail DEF Numbering
<1>8. CASE LoopRead(r)
  <2> DEFINE m == Head(toReplica[r])
             a == Numbered("ack", m.id)
  <2>1. /\ toReplica[r] # <<>> /\ toReplica'[r] = Tail(toReplica[r]) /\ waits' = waits
        /\ toMaster'[r] = IF m.kind = "getack" THEN Append(toMaster[r], a) ELSE toMaster[r]
    BY <1>0, <1>8 DEF LoopRead, LinkTypes, waitVars
  <2>2. Recent(toReplica'[r], "getack", waits) /\ (m.kind = "getack" => m.id <= waits)
    BY <1>0, <2>1, RecentTail DEF Numbering
  <2>3. Recent(toMaster'[r], "ack", waits)
    <3>1. CASE m.kind = "getack"
      <4>1. m \in ToReplicaMsgs
        BY <1>0, <2>1
      <4>2. a \in ToMasterMsgs /\ a.id = m.id
        BY <3>1, <4>1, MessageFields, MessageTypes DEF Numbered
      <4>3. a.id <= waits
        BY <2>2, <3>1, <4>2
      <4> HIDE DEF a, m
      <4>4. ToSet(Append(toMaster[r], a)) = ToSet(toMaster[r]) \cup {a}
        BY <1>0, <4>2, ToSetAppend
      <4>5. QED
        BY <1>0, <2>1, <3>1, <4>3, <4>4 DEF Numbering, Recent
    <3>2. CASE m.kind # "getack"
      BY <1>0, <2>1, <3>2 DEF Numbering
    <3>3. QED
      BY <3>1, <3>2
  <2>4. QED
    BY <2>1, <2>2, <2>3 DEF Numbering
<1>9. CASE LosesMaster(r) \/ Kill(r)
  BY <1>0, <1>9 DEF LosesMaster, Kill, waitVars, Numbering
<1>10. QED
  BY <1>1, <1>2, <1>3, <1>4, <1>5, <1>6, <1>7, <1>8, <1>9, LocalStep DEF OwnAct

-----------------------------------------------------------------------------
(* What an acknowledgement stands for while WAIT waits for it.             *)

UpTo(r) == r \in registered /\ \A i \in joined[r] + 1 .. Len(stream) : stream[i] \in ToSet(copy[r])

\* No write follows the request of the present WAIT.
Settled(msgs, n) ==
    \A i, j \in 1 .. Len(msgs) :
        i < j /\ msgs[i].kind = "getack" /\ msgs[i].id = n => msgs[j].kind # "write"

Acked(msgs, n) == \E m \in ToSet(msgs) : m.kind = "ack" /\ m.id = n

Waiting(r) ==
    wait.on => /\ Settled(toReplica[r], waits)
               /\ Acked(toMaster[r], waits) \/ r \in wait.heard => UpTo(r)

Counting ==
    wait.on => /\ master = "up" /\ wait.at = Len(stream)
               /\ wait.acks = Cardinality(wait.heard) + wait.strays

LEMMA SettledTail ==
  ASSUME NEW M, NEW msgs \in Seq(M), msgs # <<>>, NEW n, Settled(msgs, n)
  PROVE  /\ Settled(Tail(msgs), n)
         /\ Head(msgs).kind = "getack" /\ Head(msgs).id = n =>
              \A i \in 1 .. Len(Tail(msgs)) : Tail(msgs)[i].kind # "write"
<1>1. /\ Head(msgs) = msgs[1] /\ Len(msgs) \in Nat /\ Len(Tail(msgs)) = Len(msgs) - 1 /\ Len(msgs) >= 1
      /\ \A i \in 1 .. Len(msgs) - 1 : Tail(msgs)[i] = msgs[i + 1]
  OBVIOUS
<1>2. ASSUME NEW i \in 1 .. Len(Tail(msgs)), NEW j \in 1 .. Len(Tail(msgs)), i < j,
             Tail(msgs)[i].kind = "getack", Tail(msgs)[i].id = n
      PROVE  Tail(msgs)[j].kind # "write"
  <2>1. i + 1 \in 1 .. Len(msgs) /\ j + 1 \in 1 .. Len(msgs) /\ i + 1 < j + 1
        /\ Tail(msgs)[i] = msgs[i + 1] /\ Tail(msgs)[j] = msgs[j + 1]
    BY <1>1, <1>2
  <2>2. QED
    BY <1>2, <2>1 DEF Settled
<1>3. ASSUME Head(msgs).kind = "getack", Head(msgs).id = n, NEW i \in 1 .. Len(Tail(msgs))
      PROVE  Tail(msgs)[i].kind # "write"
  <2>1. 1 \in 1 .. Len(msgs) /\ i + 1 \in 1 .. Len(msgs) /\ 1 < i + 1 /\ Tail(msgs)[i] = msgs[i + 1]
    BY <1>1, <1>3
  <2>2. QED
    BY <1>1, <1>3, <2>1 DEF Settled
<1>4. QED
  BY <1>2, <1>3 DEF Settled

\* The first requests of a WAIT.
LEMMA SettledFirst ==
  ASSUME NEW s \in Seq(ToReplicaMsgs), NEW t \in Seq(ToReplicaMsgs), NEW n \in Nat,
         Recent(s, "getack", n - 1), \A i \in 1 .. Len(t) : t[i].kind # "write"
  PROVE  Settled(s \o t, n)
<1>1. /\ Len(s \o t) = Len(s) + Len(t) /\ Len(s) \in Nat /\ Len(t) \in Nat
      /\ \A i \in 1 .. Len(s) + Len(t) : (s \o t)[i] = IF i <= Len(s) THEN s[i] ELSE t[i - Len(s)]
  BY ConcatElements
<1>2. ASSUME NEW i \in 1 .. Len(s) + Len(t), NEW j \in 1 .. Len(s) + Len(t), i < j,
             (s \o t)[i].kind = "getack", (s \o t)[i].id = n, (s \o t)[j].kind = "write"
      PROVE  FALSE
  <2>1. j <= Len(s)
    <3>1. ASSUME ~(j <= Len(s)) PROVE FALSE
      <4>1. j - Len(s) \in 1 .. Len(t) /\ (s \o t)[j] = t[j - Len(s)]
        BY <1>1, <3>1
      <4>2. QED
        BY <1>2, <4>1
    <3>2. QED
      BY <3>1
  <2>2. i \in 1 .. Len(s) /\ (s \o t)[i] = s[i]
    BY <1>1, <1>2, <2>1
  <2>3. s[i] \in ToSet(s) /\ s[i].kind = "getack" /\ s[i].id = n
    BY <1>2, <2>2 DEF ToSet
  <2>4. n <= n - 1
    BY <2>3 DEF Recent
  <2>5. QED
    BY <2>4
<1>3. QED
  BY <1>1, <1>2 DEF Settled

\* A replica that answers the present WAIT has executed everything.
LEMMA AnswersWhenUpToDate ==
  ASSUME Base, NEW r \in Replicas, phase[r] = "online", master = "up", toReplica[r] # <<>>,
         Head(toReplica[r]).kind = "getack", Head(toReplica[r]).id = waits,
         Settled(toReplica[r], waits)
  PROVE  UpTo(r)
<1>1. toReplica[r] \in Seq(ToReplicaMsgs) /\ copy[r] \in Seq(Writes)
  BY DEF Base, TypesInv, LinkTypes
<1> DEFINE msgs == toReplica[r]
           done == copy[r]
           rest == Tail(msgs)
<1>2. msgs \in Seq(ToReplicaMsgs) /\ done \in Seq(Writes) /\ msgs # <<>> /\ rest \in Seq(ToReplicaMsgs)
  BY <1>1
<1>3. \A i \in 1 .. Len(rest) : rest[i].kind # "write"
  BY <1>2, SettledTail
<1>4. OfKinds(rest, Others)
  <2>1. \A i \in 1 .. Len(rest) : rest[i] \in ToReplicaMsgs
    BY <1>2
  <2>2. QED
    BY <1>3, <2>1, MessageFields DEF OfKinds
<1> HIDE DEF done, rest
<1>5. Known(done, rest) = done
  BY <1>2, <1>4, KnownType
<1>6. Known(done, msgs) = Known(done, rest)
  <2>1. Head(msgs).kind # "write"
    OBVIOUS
  <2> HIDE DEF msgs
  <2>2. QED
    BY <1>2, <2>1, KnownTail DEF rest
<1>7. KnownTo(r) = copy[r]
  BY <1>5, <1>6 DEF KnownTo, done
<1>8. ToSet(copy[r]) = {stream[i] : i \in joined[r] + 1 .. Len(stream)} /\ r \in registered
  BY <1>7, InStep, OnlineFacts
<1>9. QED
  BY <1>8 DEF UpTo

LEMMA CountingNext ==
  ASSUME TypesInv, Counting, [Next]_vars
  PROVE  Counting'
<1> SUFFICES ASSUME wait'.on
             PROVE  /\ master' = "up" /\ wait'.at = Len(stream')
                    /\ wait'.acks = Cardinality(wait'.heard) + wait'.strays
  BY DEF Counting
<1>0. /\ wait \in WaitRecords /\ wait.heard \in SUBSET Replicas /\ wait.strays \in Nat /\ wait.acks \in Nat
      /\ IsFiniteSet(wait.heard) /\ Cardinality(wait.heard) \in Nat
  <2>1. wait \in WaitRecords /\ wait.heard \in SUBSET Replicas /\ wait.strays \in Nat /\ wait.acks \in Nat
    BY DEF TypesInv, WaitTypes, WaitRecords
  <2>2. IsFiniteSet(wait.heard)
    BY <2>1, FiniteAssumption, FS_Subset
  <2>3. QED
    BY <2>1, <2>2, FS_CardinalityType
<1>1. ASSUME LoopFree, UNCHANGED wait PROVE FALSE
  BY <1>1 DEF LoopFree
<1>2. ASSUME UNCHANGED <<master, wait, stream>>
      PROVE  /\ master' = "up" /\ wait'.at = Len(stream')
             /\ wait'.acks = Cardinality(wait'.heard) + wait'.strays
  BY <1>2 DEF Counting
<1>3. ASSUME UNCHANGED <<master, stream>>, NEW heard \in SUBSET Replicas, Counted(heard), wait.on,
             \/ heard = {}
             \/ \E r \in Replicas : heard = {r} /\ r \notin wait.heard
      PROVE  /\ master' = "up" /\ wait'.at = Len(stream')
             /\ wait'.acks = Cardinality(wait'.heard) + wait'.strays
  <2>1. /\ master = "up" /\ wait.at = Len(stream)
        /\ wait.acks = Cardinality(wait.heard) + wait.strays
    BY <1>3 DEF Counting
  <2>2. /\ wait'.at = wait.at /\ wait'.acks = wait.acks + 1 /\ wait'.heard = wait.heard \cup heard
        /\ wait'.strays = IF heard = {} THEN wait.strays + 1 ELSE wait.strays
    BY <1>0, <1>3 DEF Counted, WaitRecords
  <2>0. master' = "up" /\ wait'.at = Len(stream')
    BY <1>3, <2>1, <2>2
  <2>3. CASE heard = {}
    <3>1. wait'.heard = wait.heard /\ wait'.strays = wait.strays + 1
      BY <2>2, <2>3
    <3>2. wait'.acks = Cardinality(wait'.heard) + wait'.strays
      <4> DEFINE n == Cardinality(wait.heard)
                 strays == wait.strays
                 acks == wait.acks
      <4>1. acks = n + strays /\ n \in Nat /\ strays \in Nat
        BY <1>0, <2>1
      <4>2. wait'.acks = acks + 1 /\ Cardinality(wait'.heard) = n /\ wait'.strays = strays + 1
        BY <2>2, <3>1
      <4> HIDE DEF n, strays, acks
      <4>3. QED
        BY <4>1, <4>2
    <3>3. QED
      BY <2>0, <3>2
  <2>4. CASE \E r \in Replicas : heard = {r} /\ r \notin wait.heard
    <3>1. PICK r \in Replicas : heard = {r} /\ r \notin wait.heard
      BY <2>4
    <3>2. Cardinality(wait.heard \cup {r}) = Cardinality(wait.heard) + 1
      BY <1>0, <3>1, FS_AddElement
    <3>3. wait'.strays = wait.strays /\ wait'.heard = wait.heard \cup {r}
      BY <2>2, <3>1
    <3>4. wait'.acks = Cardinality(wait'.heard) + wait'.strays
      <4> DEFINE n == Cardinality(wait.heard)
                 strays == wait.strays
                 acks == wait.acks
      <4>1. acks = n + strays /\ n \in Nat /\ strays \in Nat
        BY <1>0, <2>1
      <4>2. wait'.acks = acks + 1 /\ Cardinality(wait'.heard) = n + 1 /\ wait'.strays = strays
        BY <2>2, <3>2, <3>3
      <4> HIDE DEF n, strays, acks
      <4>3. QED
        BY <4>1, <4>2
    <3>5. QED
      BY <2>0, <3>4
  <2>5. QED
    BY <1>3, <2>3, <2>4
<1>4. ASSUME UNCHANGED <<master, stream>>, NEW p \in Peers, Unwatched(p)
      PROVE  /\ master' = "up" /\ wait'.at = Len(stream')
             /\ wait'.acks = Cardinality(wait'.heard) + wait'.strays
  <2>1. wait'.on = wait.on /\ wait'.at = wait.at /\ wait'.acks = wait.acks /\ wait'.heard = wait.heard
        /\ wait'.strays = wait.strays
    BY <1>0, <1>4 DEF Unwatched, WaitRecords
  <2>2. QED
    BY <1>4, <2>1 DEF Counting
<1>5. ASSUME NEW c \in Clients, NEW cmd \in Cmds, WriteCmd(c, cmd) \/ QueueCmd(c, cmd)
      PROVE  LoopFree /\ UNCHANGED wait
  BY <1>5 DEF WriteCmd, QueueCmd, Serves, waitVars
<1>6. ASSUME NEW c \in Clients, Multi(c) \/ Exec(c) \/ Discard(c) \/ Connect(c)
      PROVE  LoopFree /\ UNCHANGED wait
  BY <1>6 DEF Multi, Exec, Discard, Connect, Serves, waitVars
<1>7. ASSUME NEW c \in Clients, WaitCmd(c)
      PROVE  /\ master' = "up" /\ wait'.at = Len(stream')
             /\ wait'.acks = Cardinality(wait'.heard) + wait'.strays
  <2>1. stream' = stream /\ wait' # wait
    BY <1>1, <1>7, WaitBegins DEF dataVars
  <2>2. /\ master' = "up" /\ wait'.acks = 0 /\ wait'.at = Len(stream) /\ wait'.heard = {} /\ wait'.strays = 0
    BY <1>7, <2>1, WaitBegins
  <2>3. Cardinality({}) = 0
    BY FS_EmptySet
  <2>4. QED
    BY <2>1, <2>2, <2>3
<1>8. ASSUME NEW c \in Clients, WaitSwallows(c)
      PROVE  /\ master' = "up" /\ wait'.at = Len(stream')
             /\ wait'.acks = Cardinality(wait'.heard) + wait'.strays
  <2>1. UNCHANGED <<master, stream>> /\ (Counted({}) \/ Unwatched(c) \/ UNCHANGED wait) /\ c \in Peers /\ wait.on
    BY <1>8 DEF WaitSwallows, Watches, Peers
  <2>2. {} \in SUBSET Replicas
    OBVIOUS
  <2>3. QED
    BY <1>2, <1>3, <1>4, <2>1, <2>2
<1>9. ASSUME NEW r \in Replicas, WaitRead(r)
      PROVE  /\ master' = "up" /\ wait'.at = Len(stream')
             /\ wait'.acks = Cardinality(wait'.heard) + wait'.strays
  <2>1. UNCHANGED <<master, stream>> /\ r \in Peers /\ wait.on
    BY <1>9 DEF WaitRead, Watches, dataVars, Peers
  <2>2. \/ Unwatched(r) \/ UNCHANGED wait \/ Counted({})
        \/ Counted({r}) /\ r \notin wait.heard
    <3>1. \/ Unwatched(r) \/ UNCHANGED wait
          \/ Counted(IF Answers(r, Head(toMaster[r])) THEN {r} ELSE {})
      BY <1>9 DEF WaitRead
    <3>2. Answers(r, Head(toMaster[r])) => r \notin wait.heard
      BY DEF Answers
    <3>3. QED
      BY <3>1, <3>2
  <2>3. {} \in SUBSET Replicas /\ {r} \in SUBSET Replicas
    OBVIOUS
  <2>4. QED
    BY <1>2, <1>3, <1>4, <2>1, <2>2, <2>3
<1>10. ASSUME NEW r \in Replicas, HandleReplica(r) \/ ReplicaEof(r) \/ ReplicaReset(r) \/ Start(r)
       PROVE  LoopFree /\ UNCHANGED wait
  BY <1>10 DEF HandleReplica, ReplicaEof, ReplicaReset, Start, waitVars
<1>11. ASSUME NEW r \in Replicas, HandshakeRead(r) \/ LoopRead(r) \/ LosesMaster(r) \/ Kill(r)
       PROVE  UNCHANGED <<master, wait, stream>>
  BY <1>11 DEF HandshakeRead, LoopRead, LosesMaster, Kill, waitVars, dataVars
<1>12. WaitTimeout => FALSE
  BY DEF WaitTimeout, NoWait
<1>13. UNCHANGED vars => UNCHANGED <<master, wait, stream>>
  BY DEF vars, waitVars, dataVars
<1>14. QED
  BY <1>1, <1>2, <1>5, <1>6, <1>7, <1>8, <1>9, <1>10, <1>11, <1>12, <1>13, NextCases DEF ReplicaActs

WaitingInv == Counting /\ \A r \in Replicas : Waiting(r)

LEMMA WaitingNext ==
  ASSUME Base, NumberInv, WaitingInv, [Next]_vars, NEW r \in Replicas
  PROVE  Waiting(r)'
<1> SUFFICES ASSUME wait'.on
             PROVE  /\ Settled(toReplica'[r], waits')
                    /\ Acked(toMaster'[r], waits') \/ r \in wait'.heard => UpTo(r)'
  BY DEF Waiting
<1>0. /\ Waiting(r) /\ Counting /\ Numbering(r) /\ TypesInv /\ DescriptorInv /\ LinkTypes
      /\ wait \in WaitRecords /\ waits \in Nat
      /\ toMaster[r] \in Seq(ToMasterMsgs) /\ toReplica[r] \in Seq(ToReplicaMsgs) /\ copy[r] \in Seq(Writes)
  BY BoundsAssumption DEF Base, WaitingInv, NumberInv, TypesInv, LinkTypes, WaitTypes
<1>1. CASE Idle(r)
  <2>1. /\ wait.on /\ waits' = waits /\ (r \in wait'.heard => r \in wait.heard)
        /\ toReplica'[r] = toReplica[r] /\ toMaster'[r] = toMaster[r]
        /\ copy'[r] = copy[r] /\ joined'[r] = joined[r] /\ stream' = stream
        /\ (r \in registered' <=> r \in registered)
    BY <1>1 DEF Idle
  <2>2. QED
    BY <1>0, <2>1 DEF Waiting, UpTo
<1>2. CASE MasterSent(r)
  <2>1. PICK m \in ToReplicaMsgs, n \in 0 .. Share(r) :
              /\ toReplica'[r] = toReplica[r] \o Copies(m, n)
              /\ \/ UNCHANGED waitVars
                 \/ m = Numbered("getack", waits') /\ waits' = waits + 1 /\ (wait'.on => wait'.heard = {})
    BY <1>2 DEF MasterSent
  <2>2. toMaster'[r] = toMaster[r] /\ ~wait.on
    BY <1>2 DEF MasterSent, LoopFree
  <2>3. m = Numbered("getack", waits') /\ waits' = waits + 1 /\ wait'.heard = {}
    BY <2>1, <2>2 DEF waitVars
  <2>4. n \in Nat /\ waits' \in Nat /\ waits' - 1 = waits /\ m.kind # "write"
    BY <1>0, <2>3 DEF Numbered
  <2>5. Copies(m, n) \in Seq(ToReplicaMsgs) /\ Len(Copies(m, n)) = n /\ \A i \in 1 .. n : Copies(m, n)[i] = m
    BY <2>4, CopiesType
  <2> DEFINE t == Copies(m, n)
  <2>6. t \in Seq(ToReplicaMsgs) /\ \A i \in 1 .. Len(t) : t[i].kind # "write"
    BY <2>4, <2>5
  <2> HIDE DEF t
  <2>7. Settled(toReplica[r] \o t, waits')
    BY <1>0, <2>4, <2>6, SettledFirst DEF Numbering
  <2>8. ~Acked(toMaster[r], waits')
    BY <1>0, <2>4 DEF Acked, Numbering, Recent
  <2>9. QED
    BY <2>1, <2>2, <2>3, <2>7, <2>8 DEF t
<1>3. CASE WaitRead(r)
  <2>1. /\ toMaster[r] # <<>> /\ toMaster'[r] = Tail(toMaster[r]) /\ waits' = waits /\ wait.on
        /\ UNCHANGED <<toReplica, copy, joined, registered, stream>>
    BY <1>0, <1>3 DEF WaitRead, Watches, LinkTypes, replicaVars, memberVars, dataVars
  <2> DEFINE m == Head(toMaster[r])
  <2>2. \/ wait'.heard = wait.heard
        \/ wait'.heard = wait.heard \cup {r} /\ m.kind = "ack" /\ m.id = waits
    <3>1. \/ Unwatched(r) \/ UNCHANGED wait
          \/ Counted(IF Answers(r, m) THEN {r} ELSE {})
      BY <1>3 DEF WaitRead
    <3>2. Unwatched(r) => wait'.heard = wait.heard
      BY <1>0 DEF Unwatched, WaitRecords
    <3>3. \A h \in SUBSET Replicas : Counted(h) => wait'.heard = wait.heard \cup h
      BY <1>0 DEF Counted, WaitRecords
    <3>4. {r} \in SUBSET Replicas /\ {} \in SUBSET Replicas
      OBVIOUS
    <3>5. Answers(r, m) => m.kind = "ack" /\ m.id = waits
      BY DEF Answers
    <3> HIDE DEF m
    <3>6. QED
      BY <3>1, <3>2, <3>3, <3>4, <3>5
  <2>3. m \in ToSet(toMaster[r]) /\ ToSet(Tail(toMaster[r])) \subseteq ToSet(toMaster[r])
    BY <1>0, <2>1, HeadAndTail
  <2>4. Acked(toMaster'[r], waits') \/ r \in wait'.heard => Acked(toMaster[r], waits) \/ r \in wait.heard
    BY <2>1, <2>2, <2>3 DEF Acked
  <2>5. UpTo(r)' <=> UpTo(r)
    BY <2>1 DEF UpTo
  <2>6. QED
    BY <1>0, <2>1, <2>4, <2>5 DEF Waiting
<1>4. CASE HandleReplica(r) \/ ReplicaEof(r) \/ Start(r)
  BY <1>4 DEF HandleReplica, ReplicaEof, Start, LoopFree, waitVars
<1>5. CASE HandshakeRead(r)
  <2>1. /\ phase[r] \in Handshake /\ toReplica[r] # <<>> /\ toReplica'[r] = Tail(toReplica[r])
        /\ UNCHANGED <<wait, waits, copy, joined, registered, stream>>
        /\ toMaster'[r] = toMaster[r] \/ toMaster'[r] = toMaster[r] \o Sent[phase[r]]
    BY <1>0, <1>5 DEF HandshakeRead, LinkTypes, waitVars, memberVars, dataVars
  <2> DEFINE t == Sent[phase[r]]
  <2>2. t \in Seq(ToMasterMsgs) /\ \A x \in ToSet(t) : x.kind # "ack"
    <3>1. t \in Seq(ToMasterMsgs) /\ t \in {<<>>, <<Msg("port")>>, <<Msg("capa")>>, <<Msg("psync")>>}
      BY <2>1, HandshakeFacts
    <3> HIDE DEF t
    <3>2. QED
      BY <3>1 DEF ToSet, Msg
  <2> HIDE DEF t
  <2>3. toMaster'[r] = toMaster[r] \/ toMaster'[r] = toMaster[r] \o t
    BY <2>1 DEF t
  <2>4. ToSet(toMaster[r] \o t) = ToSet(toMaster[r]) \cup ToSet(t)
    BY <1>0, <2>2, ToSetConcat
  <2>5. Acked(toMaster'[r], waits) => Acked(toMaster[r], waits)
    BY <2>2, <2>3, <2>4 DEF Acked
  <2>6. UpTo(r)' <=> UpTo(r)
    BY <2>1 DEF UpTo
  <2>7. Settled(toReplica[r], waits) /\ (Acked(toMaster[r], waits) \/ r \in wait.heard => UpTo(r))
    BY <1>0, <2>1 DEF Waiting
  <2>8. Settled(toReplica'[r], waits)
    BY <1>0, <2>1, <2>7, SettledTail
  <2>9. QED
    BY <2>1, <2>5, <2>6, <2>7, <2>8
<1>6. CASE LoopRead(r)
  <2> DEFINE m == Head(toReplica[r])
             a == Numbered("ack", m.id)
  <2>1. /\ phase[r] = "online" /\ toReplica[r] # <<>> /\ toReplica'[r] = Tail(toReplica[r])
        /\ UNCHANGED <<wait, waits, joined, registered, stream>>
        /\ toMaster'[r] = IF m.kind = "getack" THEN Append(toMaster[r], a) ELSE toMaster[r]
        /\ copy'[r] = IF m.kind = "write" THEN Append(copy[r], m.id) ELSE copy[r]
    BY <1>0, <1>6 DEF LoopRead, LinkTypes, waitVars, memberVars, dataVars
  <2>2. wait.on /\ master = "up"
    BY <1>0, <2>1 DEF Counting
  <2>3. Settled(toReplica[r], waits) /\ (Acked(toMaster[r], waits) \/ r \in wait.heard => UpTo(r))
    BY <1>0, <2>2 DEF Waiting
  <2>4. m \in ToReplicaMsgs
    BY <1>0, <2>1
  <2>5. m.kind = "getack" /\ m.id = waits => UpTo(r)
    BY <2>1, <2>2, <2>3, AnswersWhenUpToDate
  <2>6. Settled(toReplica'[r], waits)
    BY <1>0, <2>1, <2>3, SettledTail
  <2>7. m.kind = "getack" => a \in ToMasterMsgs /\ a.id = m.id
    BY <2>4, MessageFields, MessageTypes DEF Numbered
  <2>8. m.kind = "write" => m.id \in Writes
    BY <2>4, MessageFields
  <2> HIDE DEF m, a
  <2>9. Acked(toMaster'[r], waits) => Acked(toMaster[r], waits) \/ (m.kind = "getack" /\ m.id = waits)
    <3>1. m.kind = "getack" => ToSet(Append(toMaster[r], a)) = ToSet(toMaster[r]) \cup {a}
      BY <1>0, <2>7, ToSetAppend
    <3>2. QED
      BY <2>1, <2>7, <3>1 DEF Acked
  <2>10. ToSet(copy[r]) \subseteq ToSet(copy'[r])
    <3>1. m.kind = "write" => ToSet(Append(copy[r], m.id)) = ToSet(copy[r]) \cup {m.id}
      BY <1>0, <2>8, ToSetAppend
    <3>2. QED
      BY <2>1, <3>1
  <2>11. UpTo(r) => UpTo(r)'
    BY <2>1, <2>10 DEF UpTo
  <2>12. QED
    BY <2>1, <2>3, <2>5, <2>6, <2>9, <2>11
<1>7. CASE LosesMaster(r)
  BY <1>0, <1>7 DEF LosesMaster, Counting, waitVars
<1>8. CASE Kill(r)
  <2>1. UNCHANGED <<wait, waits, joined, registered, stream, toReplica, toMaster, copy>>
    BY <1>8 DEF Kill, waitVars, memberVars, dataVars
  <2>2. QED
    BY <1>0, <2>1 DEF Waiting, UpTo
<1>9. QED
  BY <1>0, <1>1, <1>2, <1>3, <1>4, <1>5, <1>6, <1>7, <1>8, LocalStep DEF OwnAct

\* WAIT never returns more than the number of replicas that have executed every write
\* propagated before it, and the arrays it counted without their being the first answer
\* of a replica to its own request (WAIT_cmdHandler counts any of three elements).
THEOREM WaitIsSound == Spec => []WaitCountSound
<1>1. Init => NumberInv /\ WaitingInv
  BY NumberInit DEF Init, NoWait, WaitingInv, Counting, Waiting
<1>2. Base /\ NumberInv /\ WaitingInv /\ [Next]_vars => NumberInv' /\ WaitingInv'
  <2> SUFFICES ASSUME Base, NumberInv, WaitingInv, [Next]_vars PROVE NumberInv' /\ WaitingInv'
    OBVIOUS
  <2>1. TypesInv /\ DescriptorInv /\ Counting
    BY DEF Base, WaitingInv
  <2>2. NumberInv' /\ Counting'
    BY <2>1, NumberNext, CountingNext
  <2>3. \A r \in Replicas : Waiting(r)'
    BY WaitingNext
  <2>4. QED
    BY <2>2, <2>3 DEF WaitingInv
<1>3. Base /\ WaitingInv => WaitCountSound
  <2> SUFFICES ASSUME Base, WaitingInv, wait.on
               PROVE  wait.acks <= Cardinality(UpToDate(wait.at)) + wait.strays
    BY DEF WaitCountSound
  <2>1. wait.at = Len(stream) /\ wait.acks = Cardinality(wait.heard) + wait.strays
    BY DEF WaitingInv, Counting
  <2>2. wait.heard \in SUBSET Replicas /\ wait.strays \in Nat /\ registered \in SUBSET Replicas
    BY DEF Base, TypesInv, WaitTypes, WaitRecords, MemberTypes
  <2>3. wait.heard \subseteq UpToDate(wait.at)
    BY <2>1, <2>2 DEF WaitingInv, Waiting, UpTo, UpToDate
  <2>4. UpToDate(wait.at) \subseteq Replicas
    BY <2>2 DEF UpToDate
  <2>5. IsFiniteSet(UpToDate(wait.at))
    BY <2>4, FiniteAssumption, FS_Subset
  <2>6. Cardinality(wait.heard) <= Cardinality(UpToDate(wait.at)) /\ IsFiniteSet(wait.heard)
    BY <2>3, <2>5, FS_Subset
  <2>7. Cardinality(wait.heard) \in Nat /\ Cardinality(UpToDate(wait.at)) \in Nat
    BY <2>5, <2>6, FS_CardinalityType
  <2>8. QED
    BY <2>1, <2>2, <2>6, <2>7
<1>4. QED
  BY <1>1, <1>2, <1>3, BaseInvariant, PTL DEF Spec

-----------------------------------------------------------------------------
(* Increasing sequences.                                                   *)

LEMMA RisingConcat ==
  ASSUME NEW s \in Seq(Writes), NEW t \in Seq(Writes), Rising(s), Rising(t),
         \A x \in ToSet(s), y \in ToSet(t) : x < y
  PROVE  Rising(s \o t)
<1>1. /\ Len(s \o t) = Len(s) + Len(t) /\ Len(s) \in Nat /\ Len(t) \in Nat
      /\ \A i \in 1 .. Len(s) + Len(t) : (s \o t)[i] = IF i <= Len(s) THEN s[i] ELSE t[i - Len(s)]
  BY ConcatElements
<1>2. ASSUME NEW i \in 1 .. Len(s) + Len(t), NEW j \in 1 .. Len(s) + Len(t), i < j
      PROVE  (s \o t)[i] < (s \o t)[j]
  <2>1. CASE j <= Len(s)
    <3>1. i \in 1 .. Len(s) /\ j \in 1 .. Len(s) /\ (s \o t)[i] = s[i] /\ (s \o t)[j] = s[j]
      BY <1>1, <1>2, <2>1
    <3>2. QED
      BY <1>2, <3>1 DEF Rising
  <2>2. CASE ~(i <= Len(s))
    <3>1. /\ i - Len(s) \in 1 .. Len(t) /\ j - Len(s) \in 1 .. Len(t) /\ i - Len(s) < j - Len(s)
          /\ (s \o t)[i] = t[i - Len(s)] /\ (s \o t)[j] = t[j - Len(s)]
      BY <1>1, <1>2, <2>2
    <3>2. QED
      BY <3>1 DEF Rising
  <2>3. CASE i <= Len(s) /\ ~(j <= Len(s))
    <3>1. /\ i \in 1 .. Len(s) /\ j - Len(s) \in 1 .. Len(t)
          /\ (s \o t)[i] = s[i] /\ (s \o t)[j] = t[j - Len(s)]
      BY <1>1, <1>2, <2>3
    <3>2. s[i] \in ToSet(s) /\ t[j - Len(s)] \in ToSet(t)
      BY <3>1 DEF ToSet
    <3>3. QED
      BY <3>1, <3>2
  <2>4. QED
    BY <2>1, <2>2, <2>3
<1>3. QED
  BY <1>1, <1>2 DEF Rising

LEMMA RisingAppend ==
  ASSUME NEW s \in Seq(Writes), Rising(s), NEW id \in Writes, \A x \in ToSet(s) : x < id
  PROVE  Rising(Append(s, id))
<1>1. <<id>> \in Seq(Writes) /\ ToSet(<<id>>) = {id} /\ Rising(<<id>>) /\ Append(s, id) = s \o <<id>>
  BY DEF ToSet, Rising
<1>2. QED
  BY <1>1, RisingConcat

LEMMA RisingFront ==
  ASSUME NEW s \in Seq(Writes), NEW e \in Writes, Rising(Append(s, e))
  PROVE  Rising(s) /\ \A x \in ToSet(s) : x < e
<1> DEFINE t == Append(s, e)
<1>1. /\ Len(t) = Len(s) + 1 /\ Len(s) \in Nat /\ t[Len(s) + 1] = e
      /\ \A i \in 1 .. Len(s) : t[i] = s[i]
  OBVIOUS
<1>2. Rising(t)
  OBVIOUS
<1> HIDE DEF t
<1>3. Rising(s)
  BY <1>1, <1>2 DEF Rising
<1>4. \A i \in 1 .. Len(s) : s[i] < e
  <2>1. ASSUME NEW i \in 1 .. Len(s) PROVE s[i] < e
    <3>1. i \in 1 .. Len(t) /\ Len(s) + 1 \in 1 .. Len(t) /\ i < Len(s) + 1
      BY <1>1
    <3>2. t[i] < t[Len(s) + 1]
      BY <1>2, <3>1 DEF Rising
    <3>3. QED
      BY <1>1, <3>2
  <2>2. QED
    BY <2>1
<1>5. QED
  BY <1>3, <1>4 DEF ToSet

LEMMA RisingFiltered ==
  ASSUME NEW S
  PROVE  \A s \in Seq(Writes) : Rising(s) => Rising(Filtered(s, S))
<1> DEFINE P == {s \in Seq(Writes) : Rising(s) => Rising(Filtered(s, S))}
<1>1. <<>> \in P
  <2>1. <<>> \in Seq(Writes) /\ Rising(<<>>)
    BY DEF Rising
  <2>2. QED
    BY <2>1, FilteredEmpty
<1>2. ASSUME NEW s \in Seq(Writes), NEW e \in Writes, s \in P PROVE Append(s, e) \in P
  <2>0. Append(s, e) \in Seq(Writes)
    OBVIOUS
  <2>1. SUFFICES ASSUME Rising(Append(s, e)) PROVE Rising(Filtered(Append(s, e), S))
    BY <2>0
  <2>2. Rising(s) /\ \A x \in ToSet(s) : x < e
    BY <2>1, RisingFront
  <2>3. Rising(Filtered(s, S))
    BY <1>2, <2>2
  <2>4. Filtered(s, S) \in Seq(Writes) /\ ToSet(Filtered(s, S)) \subseteq ToSet(s)
    BY FilteredType, FilteredElements
  <2>5. Rising(Append(Filtered(s, S), e))
    BY <2>2, <2>3, <2>4, RisingAppend
  <2>6. QED
    BY <2>3, <2>5, FilteredAppend
<1> HIDE DEF P
<1>3. Seq(Writes) \subseteq P
  BY <1>1, <1>2, SequenceInduction
<1>4. QED
  BY <1>3 DEF P

\* The element at a place is the least of those that are not at an earlier one.
LEMMA RisingPlace ==
  ASSUME NEW s \in Seq(Writes), NEW t \in Seq(Writes), Rising(s), Rising(t),
         NEW i \in 1 .. Len(s), \A j \in 1 .. i - 1 : j <= Len(t) /\ s[j] = t[j],
         s[i] \in ToSet(t)
  PROVE  i <= Len(t) /\ t[i] <= s[i]
<1>1. PICK k \in 1 .. Len(t) : t[k] = s[i]
  BY DEF ToSet
<1>2. \A j \in 1 .. Len(s) : s[j] \in Nat
  BY WriteNumbers
<1>22. \A j \in 1 .. Len(t) : t[j] \in Nat
  BY WriteNumbers
<1>3. k >= i
  <2>1. ASSUME k < i PROVE FALSE
    <3>1. k \in 1 .. i - 1 /\ k \in 1 .. Len(s)
      BY <2>1
    <3>2. s[k] = s[i] /\ s[k] < s[i]
      BY <1>1, <2>1, <3>1 DEF Rising
    <3>3. QED
      BY <1>2, <3>1, <3>2
  <2>2. QED
    BY <2>1
<1>4. i \in 1 .. Len(t) /\ (i = k \/ i < k)
  BY <1>3
<1>5. CASE i = k
  BY <1>1, <1>2, <1>4, <1>5
<1>6. CASE i < k
  <2>1. t[i] < t[k]
    BY <1>4, <1>6 DEF Rising
  <2>2. QED
    BY <1>1, <1>22, <1>4, <2>1
<1>7. QED
  BY <1>4, <1>5, <1>6

\* An increasing sequence is determined by its elements.
LEMMA RisingSame ==
  ASSUME NEW s \in Seq(Writes), NEW t \in Seq(Writes), Rising(s), Rising(t), ToSet(s) = ToSet(t)
  PROVE  s = t
<1> DEFINE T == {n \in Nat : \A i \in 1 .. n : (i <= Len(s) <=> i <= Len(t)) /\ (i <= Len(s) => s[i] = t[i])}
<1>0. /\ Len(s) \in Nat /\ Len(t) \in Nat
      /\ \A j \in 1 .. Len(s) : s[j] \in Nat /\ s[j] \in ToSet(s)
      /\ \A j \in 1 .. Len(t) : t[j] \in Nat /\ t[j] \in ToSet(t)
  BY WriteNumbers DEF ToSet
<1>1. 0 \in T
  OBVIOUS
<1>2. ASSUME NEW n \in Nat, n \in T PROVE n + 1 \in T
  <2> DEFINE i == n + 1
  <2>1. \A j \in 1 .. n : (j <= Len(s) <=> j <= Len(t)) /\ (j <= Len(s) => s[j] = t[j])
    BY <1>2
  <2>2. i \in Nat /\ i - 1 = n /\ i >= 1
    OBVIOUS
  <2> HIDE DEF i
  <2>3. ASSUME i <= Len(s) PROVE i <= Len(t) /\ t[i] <= s[i]
    <3>1. i \in 1 .. Len(s) /\ \A j \in 1 .. i - 1 : j <= Len(t) /\ s[j] = t[j]
      BY <1>0, <2>1, <2>2, <2>3
    <3>2. s[i] \in ToSet(t)
      BY <1>0, <3>1
    <3>3. QED
      BY <3>1, <3>2, RisingPlace
  <2>4. ASSUME i <= Len(t) PROVE i <= Len(s) /\ s[i] <= t[i]
    <3>1. i \in 1 .. Len(t) /\ \A j \in 1 .. i - 1 : j <= Len(s) /\ t[j] = s[j]
      BY <1>0, <2>1, <2>2, <2>4
    <3>2. t[i] \in ToSet(s)
      BY <1>0, <3>1
    <3>3. QED
      BY <3>1, <3>2, RisingPlace
  <2>5. (i <= Len(s) <=> i <= Len(t)) /\ (i <= Len(s) => s[i] = t[i])
    <3>1. (i <= Len(s) <=> i <= Len(t))
      BY <2>3, <2>4
    <3>2. ASSUME i <= Len(s) PROVE s[i] = t[i]
      <4>1. s[i] \in Nat /\ t[i] \in Nat /\ s[i] <= t[i] /\ t[i] <= s[i]
        BY <1>0, <2>2, <2>3, <2>4, <3>2
      <4>2. QED
        BY <4>1
    <3>3. QED
      BY <3>1, <3>2
  <2>6. \A j \in 1 .. n + 1 : j \in 1 .. n \/ j = i
    BY <2>2 DEF i
  <2>7. QED
    BY <2>1, <2>5, <2>6
<1> HIDE DEF T
<1>3. Nat \subseteq T
  BY <1>1, <1>2, Induction
<1>4. \A i \in Nat \ {0} : (i <= Len(s) <=> i <= Len(t)) /\ (i <= Len(s) => s[i] = t[i])
  BY <1>3 DEF T
<1>5. Len(s) = Len(t)
  <2>1. Len(s) + 1 \in Nat \ {0} /\ Len(t) + 1 \in Nat \ {0}
    BY <1>0
  <2>2. ~(Len(s) + 1 <= Len(s)) /\ ~(Len(t) + 1 <= Len(t))
    BY <1>0
  <2>3. ~(Len(s) + 1 <= Len(t)) /\ ~(Len(t) + 1 <= Len(s))
    BY <1>4, <2>1, <2>2
  <2>4. QED
    BY <1>0, <2>3
<1>6. \A i \in 1 .. Len(s) : s[i] = t[i]
  BY <1>0, <1>4
<1>7. QED
  BY <1>0, <1>5, <1>6, SameElements

-----------------------------------------------------------------------------
(* What became of the write commands: executed or dropped or in an open    *)
(* transaction, and either propagated or kept to the master.               *)

Queued == UNION {ToSet(queue[c].cmds) : c \in Clients}

\* With one client, they were executed in the order of their numbers.
InOrder(c) ==
    /\ Rising(applied) /\ Rising(queue[c].cmds)
    /\ \A x \in ToSet(applied), y \in ToSet(queue[c].cmds) : x < y
    /\ ToSet(applied) \cap dropped = {} /\ ToSet(queue[c].cmds) \cap dropped = {}

StreamInv ==
    /\ \A c \in Clients : ~queue[c].open => queue[c] = NoTx
    /\ ToSet(stream) \cup local = ToSet(applied) \cup dropped \cup Queued
    /\ ToSet(stream) \cap local = {}
    /\ \A id \in ToSet(stream) \cup local : id <= issued
    /\ \A c \in Clients : Clients = {c} => InOrder(c)

LEMMA StreamInvInit ==
  ASSUME Init
  PROVE  StreamInv
<1>1. /\ stream = <<>> /\ applied = <<>> /\ dropped = {} /\ local = {} /\ \A c \in Clients : queue[c] = NoTx
  BY DEF Init
<1>2. NoTx.cmds = <<>> /\ ToSet(<<>>) = {} /\ Rising(<<>>)
  BY DEF NoTx, ToSet, Rising
<1>3. Queued = {}
  BY <1>1, <1>2 DEF Queued
<1>4. \A c \in Clients : InOrder(c)
  BY <1>1, <1>2 DEF InOrder
<1>5. QED
  BY <1>1, <1>2, <1>3, <1>4 DEF StreamInv

\* The types the following lemmas need.
StreamTypes ==
    /\ issued \in Nat /\ stream \in Seq(Writes) /\ applied \in Seq(Writes)
    /\ dropped \in SUBSET Writes /\ local \in SUBSET Writes
    /\ queue \in [Clients -> [open : BOOLEAN, cmds : Seq(Writes)]]
    /\ \A c \in Clients : queue[c].cmds \in Seq(Writes)

LEMMA StreamTyped ==
  ASSUME TypesInv
  PROVE  StreamTypes
BY DEF TypesInv, DataTypes, StreamTypes

\* What is queued, when the transaction of one client changes.
LEMMA QueuedChange ==
  ASSUME StreamTypes, NEW c \in Clients, NEW q, queue' = [queue EXCEPT ![c] = q]
  PROVE  /\ queue'[c] = q /\ \A d \in Clients \ {c} : queue'[d] = queue[d]
         /\ Queued \cup ToSet(q.cmds) = Queued' \cup ToSet(queue[c].cmds)
         /\ ToSet(queue[c].cmds) \subseteq Queued
<1>1. queue'[c] = q /\ \A d \in Clients \ {c} : queue'[d] = queue[d]
  BY DEF StreamTypes
<1>2. ToSet(queue[c].cmds) \subseteq Queued /\ ToSet(q.cmds) \subseteq Queued'
  BY <1>1 DEF Queued
<1>3. Queued \subseteq Queued' \cup ToSet(queue[c].cmds)
  <2>1. ASSUME NEW d \in Clients, NEW x \in ToSet(queue[d].cmds)
        PROVE  x \in Queued' \cup ToSet(queue[c].cmds)
    BY <1>1 DEF Queued
  <2>2. QED
    BY <2>1 DEF Queued
<1>4. Queued' \subseteq Queued \cup ToSet(q.cmds)
  <2>1. ASSUME NEW d \in Clients, NEW x \in ToSet(queue'[d].cmds)
        PROVE  x \in Queued \cup ToSet(q.cmds)
    BY <1>1 DEF Queued
  <2>2. QED
    BY <2>1 DEF Queued
<1>5. QED
  BY <1>1, <1>2, <1>3, <1>4

\* A write command: its number is new, and it is propagated or kept.
LEMMA NewNumber ==
  ASSUME StreamTypes, StreamInv, issued' = issued + 1, issued' \in Writes,
         \/ stream' = Append(stream, issued') /\ local' = local
         \/ stream' = stream /\ local' = local \cup {issued'}
  PROVE  /\ \A id \in ToSet(applied) \cup dropped \cup Queued : id < issued'
         /\ issued' \notin dropped
         /\ ToSet(stream') \cup local' = ToSet(stream) \cup local \cup {issued'}
         /\ ToSet(stream') \cap local' = {}
         /\ \A id \in ToSet(stream') \cup local' : id <= issued'
<1>1. \A id \in ToSet(stream) \cup local : id \in Nat /\ id < issued'
  <2>1. ToSet(stream) \cup local \subseteq Writes
    <3>1. stream \in Seq(Writes) /\ local \subseteq Writes
      BY DEF StreamTypes
    <3>2. ToSet(stream) \subseteq Writes
      BY <3>1 DEF ToSet
    <3>3. QED
      BY <3>1, <3>2
  <2>2. \A id \in Writes : id \in Nat
    BY DEF Writes
  <2>3. issued \in Nat /\ \A id \in ToSet(stream) \cup local : id <= issued
    BY DEF StreamTypes, StreamInv
  <2>4. ASSUME NEW id \in ToSet(stream) \cup local PROVE id \in Nat /\ id < issued'
    <3>1. id \in Nat /\ issued \in Nat /\ id <= issued
      BY <2>1, <2>2, <2>3
    <3>2. issued' = issued + 1
      OBVIOUS
    <3>3. QED
      BY <3>1, <3>2
  <2>5. QED
    BY <2>4
<1>2. issued' \in Nat
  BY DEF StreamTypes
<1>3. issued' \notin ToSet(stream) \cup local
  BY <1>1, <1>2
<1>4. stream' = Append(stream, issued') => ToSet(stream') = ToSet(stream) \cup {issued'}
  BY ToSetAppend DEF StreamTypes
<1>5. ToSet(stream') \cup local' = ToSet(stream) \cup local \cup {issued'} /\ ToSet(stream') \cap local' = {}
  BY <1>3, <1>4 DEF StreamInv
<1>6. \A id \in ToSet(applied) \cup dropped \cup Queued : id < issued'
  BY <1>1 DEF StreamInv
<1>7. issued' \notin dropped
  BY <1>3 DEF StreamInv
<1>8. \A id \in ToSet(stream') \cup local' : id <= issued'
  BY <1>1, <1>2, <1>5
<1>9. QED
  BY <1>5, <1>6, <1>7, <1>8

LEMMA WriteStream ==
  ASSUME StreamTypes, StreamInv, NEW c \in Clients, ~queue[c].open,
         issued' = issued + 1, issued' \in Writes,
         \/ stream' = Append(stream, issued') /\ local' = local
         \/ stream' = stream /\ local' = local \cup {issued'},
         \/ applied' = Append(applied, issued') /\ dropped' = dropped
         \/ dropped' = dropped \cup {issued'} /\ applied' = applied,
         queue' = queue
  PROVE  StreamInv'
<1>1. /\ \A id \in ToSet(applied) \cup dropped \cup Queued : id < issued'
      /\ issued' \notin dropped
      /\ ToSet(stream') \cup local' = ToSet(stream) \cup local \cup {issued'}
      /\ ToSet(stream') \cap local' = {}
      /\ \A id \in ToSet(stream') \cup local' : id <= issued'
  BY NewNumber
<1>2. applied' = Append(applied, issued') => ToSet(applied') = ToSet(applied) \cup {issued'}
  BY ToSetAppend DEF StreamTypes
<1>3. Queued' = Queued
  BY DEF Queued
<1>4. ToSet(stream') \cup local' = ToSet(applied') \cup dropped' \cup Queued'
  BY <1>1, <1>2, <1>3 DEF StreamInv
<1>5. ASSUME Clients = {c} PROVE InOrder(c)'
  <2>1. InOrder(c) /\ queue[c].cmds = <<>> /\ ToSet(<<>>) = {} /\ applied \in Seq(Writes)
    BY <1>5 DEF StreamInv, NoTx, ToSet, StreamTypes
  <2>2. Rising(applied')
    BY <1>1, <2>1, RisingAppend DEF InOrder
  <2>3. issued' \notin ToSet(applied)
    <3>1. \A id \in Nat : ~(id < id)
      OBVIOUS
    <3>2. issued' \in Nat
      BY DEF StreamTypes
    <3>3. QED
      BY <1>1, <3>1, <3>2
  <2>4. ToSet(applied') \cap dropped' = {}
    BY <1>1, <1>2, <2>1, <2>3 DEF InOrder
  <2>5. QED
    BY <2>1, <2>2, <2>4 DEF InOrder
<1>6. \A d \in Clients : Clients = {d} => d = c
  OBVIOUS
<1>7. QED
  BY <1>1, <1>4, <1>5, <1>6 DEF StreamInv

LEMMA QueueStream ==
  ASSUME StreamTypes, StreamInv, NEW c \in Clients, queue[c].open,
         issued' = issued + 1, issued' \in Writes,
         \/ stream' = Append(stream, issued') /\ local' = local
         \/ stream' = stream /\ local' = local \cup {issued'},
         queue' = [queue EXCEPT ![c].cmds = Append(@, issued')],
         UNCHANGED <<applied, dropped>>
  PROVE  StreamInv'
<1> DEFINE q == [queue[c] EXCEPT !.cmds = Append(@, issued')]
           cmds == queue[c].cmds
<1>1. /\ \A id \in ToSet(applied) \cup dropped \cup Queued : id < issued'
      /\ issued' \notin dropped
      /\ ToSet(stream') \cup local' = ToSet(stream) \cup local \cup {issued'}
      /\ ToSet(stream') \cap local' = {}
      /\ \A id \in ToSet(stream') \cup local' : id <= issued'
  BY NewNumber
<1>2. cmds \in Seq(Writes) /\ queue[c] \in [open : BOOLEAN, cmds : Seq(Writes)]
  BY DEF StreamTypes
<1>3. q.cmds = Append(cmds, issued') /\ q.open /\ queue' = [queue EXCEPT ![c] = q]
  BY <1>2
<1>4. ToSet(q.cmds) = ToSet(cmds) \cup {issued'}
  BY <1>2, <1>3, ToSetAppend
<1> HIDE DEF q
<1>5. /\ queue'[c] = q /\ \A d \in Clients \ {c} : queue'[d] = queue[d]
      /\ Queued \cup ToSet(q.cmds) = Queued' \cup ToSet(queue[c].cmds)
      /\ ToSet(queue[c].cmds) \subseteq Queued
  BY <1>3, QueuedChange
<1>6. Queued' = Queued \cup {issued'}
  <2>1. ToSet(q.cmds) \subseteq Queued'
    BY <1>5 DEF Queued
  <2>2. QED
    BY <1>4, <1>5, <2>1
<1>7. ToSet(stream') \cup local' = ToSet(applied') \cup dropped' \cup Queued'
  BY <1>1, <1>6 DEF StreamInv
<1>8. \A d \in Clients : ~queue'[d].open => queue'[d] = NoTx
  BY <1>3, <1>5 DEF StreamInv
<1>9. ASSUME Clients = {c} PROVE InOrder(c)'
  <2>1. InOrder(c)
    BY <1>9 DEF StreamInv
  <2>2. \A x \in ToSet(cmds) : x < issued'
    BY <1>1, <1>5
  <2>3. Rising(q.cmds)
    BY <1>2, <1>3, <2>1, <2>2, RisingAppend DEF InOrder
  <2>4. \A x \in ToSet(applied), y \in ToSet(q.cmds) : x < y
    BY <1>1, <1>4, <2>1 DEF InOrder
  <2>5. ToSet(q.cmds) \cap dropped = {}
    BY <1>1, <1>4, <2>1 DEF InOrder
  <2>6. QED
    BY <1>5, <2>1, <2>3, <2>4, <2>5 DEF InOrder
<1>10. \A d \in Clients : Clients = {d} => d = c
  OBVIOUS
<1>11. QED
  BY <1>1, <1>7, <1>8, <1>9, <1>10 DEF StreamInv

\* The end of a transaction: some of its commands are executed, the others dropped.
LEMMA EndStream ==
  ASSUME StreamTypes, StreamInv, NEW c \in Clients, queue' = [queue EXCEPT ![c] = NoTx],
         NEW refused \in SUBSET ToSet(queue[c].cmds),
         applied' = applied \o Filtered(queue[c].cmds, Writes \ refused),
         dropped' = dropped \cup refused, UNCHANGED <<issued, stream, local>>
  PROVE  StreamInv'
<1> DEFINE cmds == queue[c].cmds
           done == Filtered(cmds, Writes \ refused)
<1>1. cmds \in Seq(Writes) /\ applied \in Seq(Writes) /\ stream \in Seq(Writes)
  BY DEF StreamTypes
<1>2. NoTx.cmds = <<>> /\ ToSet(<<>>) = {} /\ Rising(<<>>)
  BY DEF NoTx, ToSet, Rising
<1>3. /\ queue'[c] = NoTx /\ \A d \in Clients \ {c} : queue'[d] = queue[d]
      /\ Queued \cup ToSet(NoTx.cmds) = Queued' \cup ToSet(cmds)
  BY QueuedChange
<1>4. done \in Seq(Writes) /\ ToSet(done) = ToSet(cmds) \ refused
  <2>1. done \in Seq(Writes) /\ ToSet(done) = ToSet(cmds) \cap (Writes \ refused)
    BY <1>1, FilteredType, FilteredElements
  <2>2. ToSet(cmds) \subseteq Writes
    BY <1>1 DEF ToSet
  <2> HIDE DEF done
  <2>3. QED
    BY <2>1, <2>2
<1>5. Rising(cmds) => Rising(done)
  BY <1>1, RisingFiltered
<1> HIDE DEF done
<1>6. applied' = applied \o done /\ ToSet(applied') = ToSet(applied) \cup ToSet(done)
  BY <1>1, <1>4, ToSetConcat DEF done
<1>7. ToSet(stream') \cup local' = ToSet(applied') \cup dropped' \cup Queued'
  <2>1. refused \subseteq ToSet(cmds)
    OBVIOUS
  <2> HIDE DEF cmds
  <2>2. QED
    BY <1>2, <1>3, <1>4, <1>6, <2>1 DEF StreamInv
<1>8. \A d \in Clients : ~queue'[d].open => queue'[d] = NoTx
  BY <1>3 DEF StreamInv
<1>9. ASSUME Clients = {c} PROVE InOrder(c)'
  <2>1. InOrder(c)
    BY <1>9 DEF StreamInv
  <2>2. /\ Rising(applied) /\ Rising(done) /\ \A x \in ToSet(applied), y \in ToSet(done) : x < y
    BY <1>4, <1>5, <2>1 DEF InOrder
  <2>3. Rising(applied')
    BY <1>1, <1>4, <1>6, <2>2, RisingConcat
  <2>4. ToSet(applied) \cap ToSet(cmds) = {}
    <3>1. \A x \in ToSet(applied) : x \in Nat
      BY <1>1, WriteNumbers DEF ToSet
    <3>2. \A x \in Nat : ~(x < x)
      OBVIOUS
    <3>3. QED
      BY <2>1, <3>1, <3>2 DEF InOrder
  <2>5. ToSet(applied') \cap dropped' = {}
    <3>1. ToSet(cmds) \cap dropped = {} /\ ToSet(applied) \cap dropped = {} /\ refused \subseteq ToSet(cmds)
      BY <2>1 DEF InOrder
    <3> HIDE DEF cmds
    <3>2. QED
      BY <1>4, <1>6, <2>4, <3>1
  <2>6. QED
    BY <1>2, <1>3, <2>3, <2>5 DEF InOrder
<1>10. \A d \in Clients : Clients = {d} => d = c
  OBVIOUS
<1>11. QED
  BY <1>7, <1>8, <1>9, <1>10 DEF StreamInv

LEMMA MultiStream ==
  ASSUME StreamTypes, StreamInv, NEW c \in Clients, ~queue[c].open,
         queue' = [queue EXCEPT ![c] = [open |-> TRUE, cmds |-> <<>>]],
         UNCHANGED <<issued, stream, applied, dropped, local>>
  PROVE  StreamInv'
<1> DEFINE q == [open |-> TRUE, cmds |-> <<>>]
<1>1. queue[c] = NoTx /\ NoTx.cmds = <<>> /\ q.cmds = <<>> /\ q.open
  BY DEF StreamInv, NoTx
<1> HIDE DEF q
<1>2. queue' = [queue EXCEPT ![c] = q]
  BY DEF q
<1>3. /\ queue'[c] = q /\ \A d \in Clients \ {c} : queue'[d] = queue[d]
      /\ Queued \cup ToSet(q.cmds) = Queued' \cup ToSet(queue[c].cmds)
  BY <1>2, QueuedChange
<1>4. \A d \in Clients : queue'[d].cmds = queue[d].cmds
  BY <1>1, <1>3
<1>5. Queued' = Queued
  BY <1>4 DEF Queued
<1>6. \A d \in Clients : InOrder(d) => InOrder(d)'
  BY <1>4 DEF InOrder
<1>7. QED
  BY <1>1, <1>3, <1>5, <1>6 DEF StreamInv

LEMMA StreamInvNext ==
  ASSUME TypesInv, StreamInv, [Next]_vars
  PROVE  StreamInv'
<1>0. StreamTypes /\ DataTypes
  BY StreamTyped DEF TypesInv
<1>1. ASSUME NEW c \in Clients, NEW cmd \in Cmds, WriteCmd(c, cmd) \/ QueueCmd(c, cmd)
      PROVE  StreamInv'
  <2>1. /\ issued' = issued + 1 /\ issued' \in Writes
        /\ \/ stream' = Append(stream, issued') /\ local' = local
           \/ stream' = stream /\ local' = local \cup {issued'}
    BY <1>0, <1>1, NewWrite
  <2>2. issued' = NextWrite
    BY <2>1 DEF NextWrite
  <2>3. CASE WriteCmd(c, cmd)
    <3>1. /\ ~queue[c].open /\ queue' = queue
          /\ \/ applied' = Append(applied, issued') /\ dropped' = dropped
             \/ dropped' = dropped \cup {issued'} /\ applied' = applied
      BY <2>2, <2>3 DEF WriteCmd
    <3>2. QED
      BY <1>0, <2>1, <3>1, WriteStream
  <2>4. CASE QueueCmd(c, cmd)
    <3>1. /\ queue[c].open /\ queue' = [queue EXCEPT ![c].cmds = Append(@, issued')]
          /\ UNCHANGED <<applied, dropped>>
      BY <2>2, <2>4 DEF QueueCmd
    <3>2. QED
      BY <1>0, <2>1, <3>1, QueueStream
  <2>5. QED
    BY <1>1, <2>3, <2>4
<1>2. ASSUME NEW c \in Clients, Multi(c) PROVE StreamInv'
  <2>1. /\ ~queue[c].open /\ queue' = [queue EXCEPT ![c] = [open |-> TRUE, cmds |-> <<>>]]
        /\ UNCHANGED <<issued, stream, applied, dropped, local>>
    BY <1>2 DEF Multi
  <2>2. QED
    BY <1>0, <2>1, MultiStream
<1>3. ASSUME NEW c \in Clients, Exec(c) PROVE StreamInv'
  <2>1. PICK refused \in SUBSET ToSet(queue[c].cmds) :
             /\ applied' = applied \o Filtered(queue[c].cmds, Writes \ refused)
             /\ dropped' = dropped \cup refused
    BY <1>3 DEF Exec
  <2>2. queue' = [queue EXCEPT ![c] = NoTx] /\ UNCHANGED <<issued, stream, local>>
    BY <1>3 DEF Exec
  <2>3. QED
    BY <1>0, <2>1, <2>2, EndStream
<1>4. ASSUME NEW c \in Clients, Discard(c) PROVE StreamInv'
  <2> DEFINE cmds == queue[c].cmds
  <2>1. /\ queue' = [queue EXCEPT ![c] = NoTx] /\ dropped' = dropped \cup ToSet(cmds)
        /\ UNCHANGED <<issued, stream, applied, local>>
    BY <1>4 DEF Discard
  <2>2. cmds \in Seq(Writes) /\ applied \in Seq(Writes)
    BY <1>0 DEF StreamTypes
  <2>3. Filtered(cmds, Writes \ ToSet(cmds)) = <<>>
    BY <2>2, FilteredNone
  <2>4. applied' = applied \o Filtered(cmds, Writes \ ToSet(cmds))
    <3>1. applied \o <<>> = applied
      BY <2>2
    <3>2. QED
      BY <2>1, <2>3, <3>1
  <2>5. QED
    BY <1>0, <2>1, <2>4, EndStream
<1>5. ASSUME NEW c \in Clients, WaitSwallows(c) PROVE StreamInv'
  <2>1. issued' = issued + 1 /\ UNCHANGED <<stream, applied, dropped, local, queue>>
    BY <1>5 DEF WaitSwallows, NextWrite
  <2>2. Queued' = Queued /\ \A d \in Clients : InOrder(d)' <=> InOrder(d)
    BY <2>1 DEF Queued, InOrder
  <2>3. ASSUME NEW id \in ToSet(stream) \cup local PROVE id <= issued'
    <3>1. stream \in Seq(Writes) /\ local \subseteq Writes
      BY <1>0 DEF StreamTypes
    <3>2. ToSet(stream) \subseteq Writes
      BY <3>1 DEF ToSet
    <3>3. \A w \in Writes : w \in Nat
      BY DEF Writes
    <3>4. id \in Nat /\ issued \in Nat /\ id <= issued
      BY <1>0, <3>1, <3>2, <3>3 DEF StreamTypes, StreamInv
    <3>5. QED
      BY <2>1, <3>4
  <2>4. QED
    BY <2>1, <2>2, <2>3 DEF StreamInv
<1>6. ASSUME UNCHANGED dataVars PROVE StreamInv'
  BY <1>6 DEF dataVars, StreamInv, Queued, InOrder
<1>7. ASSUME NEW c \in Clients, Connect(c) \/ WaitCmd(c) PROVE UNCHANGED dataVars
  BY <1>7 DEF Connect, WaitCmd
<1>8. ASSUME NEW r \in Replicas, ReplicaActs(r) PROVE UNCHANGED dataVars
  BY <1>8 DEF ReplicaActs, WaitRead, HandleReplica, ReplicaEof, ReplicaReset, Start,
              HandshakeRead, LoopRead, LosesMaster, Kill
<1>9. WaitTimeout \/ UNCHANGED vars => UNCHANGED dataVars
  BY DEF WaitTimeout, vars
<1>10. QED
  BY <1>1, <1>2, <1>3, <1>4, <1>5, <1>6, <1>7, <1>8, <1>9, NextCases

\* With no transaction open, what was propagated was executed or dropped.
LEMMA NothingQueued ==
  ASSUME StreamInv, \A c \in Clients : ~queue[c].open
  PROVE  ToSet(stream) = (ToSet(applied) \cup dropped) \ local
<1>1. \A c \in Clients : queue[c].cmds = <<>>
  BY DEF StreamInv, NoTx
<1>2. Queued = {}
  BY <1>1 DEF Queued, ToSet
<1>3. QED
  BY <1>2 DEF StreamInv

\* A replica that was there from the beginning, has read everything and has a number of
\* its own has the stream.
LEMMA HasTheStream ==
  ASSUME Base, NEW r \in Replicas, phase[r] = "online", master = "up", joined[r] = 0,
         toReplica[r] = <<>>
  PROVE  /\ ToSet(copy[r]) = ToSet(stream)
         /\ r \notin inherited => copy[r] = stream
<1>1. copy[r] \in Seq(Writes) /\ stream \in Seq(Writes) /\ <<>> \in Seq(ToReplicaMsgs)
  BY DEF Base, TypesInv, LinkTypes, DataTypes
<1>2. OfKinds(<<>>, Others)
  BY DEF OfKinds
<1>3. KnownTo(r) = copy[r]
  BY <1>1, <1>2, KnownType DEF KnownTo
<1>4. ToSet(copy[r]) = {stream[i] : i \in 1 .. Len(stream)}
  <2>1. ToSet(KnownTo(r)) = {stream[i] : i \in joined[r] + 1 .. Len(stream)}
    BY InStep
  <2>2. QED
    BY <1>3, <2>1
<1>5. ToSet(stream) = {stream[i] : i \in 1 .. Len(stream)}
  BY <1>1 DEF ToSet
<1>6. ASSUME r \notin inherited PROVE copy[r] = stream
  <2> DEFINE s == copy[r]
             log == stream
             n == Len(stream)
  <2>1. Along(s, log, 0, 1) /\ Len(s) = 1 * (n - 0) /\ n \in Nat
    <3>1. Share(r) = 1
      BY <1>6, OnlineFacts
    <3>2. Along(KnownTo(r), log, joined[r], Share(r)) /\ Len(KnownTo(r)) = Share(r) * (n - joined[r])
      BY OnlineFacts
    <3>3. QED
      BY <1>1, <1>3, <3>1, <3>2
  <2>2. s \in Seq(Writes) /\ log \in Seq(Writes) /\ Len(log) = n
    BY <1>1
  <2> HIDE DEF s, log, n
  <2>3. Len(s) = n
    BY <2>1
  <2>4. ASSUME NEW i \in 1 .. n PROVE s[i] = log[i]
    <3>1. i - 1 \in Nat /\ i \in 1 .. Len(s)
      BY <2>1, <2>3
    <3>2. (i - 1) \div 1 = i - 1
      BY <3>1, UnitQuotient
    <3>3. s[i] = log[0 + (i - 1) \div 1 + 1]
      BY <2>1, <3>1 DEF Along
    <3>4. 0 + (i - 1) + 1 = i
      BY <3>1
    <3>5. QED
      BY <3>2, <3>3, <3>4
  <2>5. s = log
    BY <2>1, <2>2, <2>3, <2>4, SameElements
  <2>6. QED
    BY <2>5 DEF s, log
<1>7. QED
  BY <1>4, <1>5, <1>6

\* A replica that was there from the beginning and has read everything has executed what
\* the master has, save INCR, and beyond it only what DISCARD, or a refusal in subscribed
\* mode, dropped; with one client in the same order (HandleConnection propagates a command
\* whatever HandleCommand did with it).
THEOREM ReplicasConverge == Spec => []Converges
<1>1. Init => StreamInv
  BY StreamInvInit
<1>2. Base /\ StreamInv /\ [Next]_vars => StreamInv'
  BY StreamInvNext DEF Base
<1>3. Base /\ StreamInv => Converges
  <2> SUFFICES ASSUME Base, StreamInv, NEW r \in Replicas, phase[r] = "online", master = "up",
                      joined[r] = 0, toReplica[r] = <<>>, \A c \in Clients : ~queue[c].open
               PROVE  /\ ToSet(copy[r]) = (ToSet(applied) \cup dropped) \ local
                      /\ Cardinality(Clients) = 1 /\ r \notin inherited =>
                           Filtered(copy[r], Writes \ dropped) = Filtered(applied, Writes \ local)
    BY DEF Converges
  <2>1. ToSet(stream) = (ToSet(applied) \cup dropped) \ local
    BY NothingQueued
  <2>2. ToSet(copy[r]) = ToSet(stream) /\ (r \notin inherited => copy[r] = stream)
    BY HasTheStream
  <2>3. ASSUME Cardinality(Clients) = 1
        PROVE  Filtered(stream, Writes \ dropped) = Filtered(applied, Writes \ local)
    <3>1. PICK c : Clients = {c}
      BY <2>3, FiniteAssumption, FS_Singleton
    <3>2. Rising(applied) /\ ToSet(applied) \cap dropped = {}
      BY <3>1 DEF StreamInv, InOrder
    <3>3. stream \in Seq(Writes) /\ applied \in Seq(Writes) /\ Rising(stream)
      BY DEF Base, TypesInv, DataTypes
    <3> DEFINE s == Filtered(stream, Writes \ dropped)
               t == Filtered(applied, Writes \ local)
    <3>4. /\ s \in Seq(Writes) /\ t \in Seq(Writes) /\ Rising(s) /\ Rising(t)
          /\ ToSet(s) = ToSet(stream) \cap (Writes \ dropped)
          /\ ToSet(t) = ToSet(applied) \cap (Writes \ local)
      BY <3>2, <3>3, FilteredType, FilteredElements, RisingFiltered
    <3> HIDE DEF s, t
    <3>5. ToSet(s) = ToSet(t)
      BY <2>1, <3>2, <3>4
    <3>6. s = t
      BY <3>4, <3>5, RisingSame
    <3>7. QED
      BY <3>6 DEF s, t
  <2>4. QED
    BY <2>1, <2>2, <2>3
<1>4. QED
  BY <1>1, <1>2, <1>3, BaseInvariant, PTL DEF Spec
=============================================================================
