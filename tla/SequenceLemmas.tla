--------------------------- MODULE SequenceLemmas ---------------------------
(***************************************************************************)
(* Induction over the naturals and recursion along 1 .. n, stated for sets *)
(* and functions, which the provers can instantiate where the library's    *)
(* theorems take an operator; and from them what the operators on          *)
(* sequences compute for every input.                                      *)
(***************************************************************************)
EXTENDS SequenceFilter, FiniteSets, SequencesExt, FiniteSetTheorems, WellFoundedInduction, TLAPS

-----------------------------------------------------------------------------
(* Induction and recursion.                                                *)

\* A set of naturals that is not empty has a least element: the initial segments
\* below its elements, up to one of them, are well-founded under inclusion.
LEMMA LeastNumber ==
  ASSUME NEW T \in SUBSET Nat, T # {}
  PROVE  \E m \in T : \A k \in T : m <= k
<1>1. PICK n \in T : TRUE
  OBVIOUS
<1> DEFINE Below(k) == {j \in 0 .. n : j <= k}
           Segments == {Below(k) : k \in T \cap (0 .. n)}
<1>2. Segments # {} /\ Segments \subseteq FiniteSubsetsOf(0 .. n)
  <2>1. n \in T \cap (0 .. n)
    BY <1>1
  <2>2. IsFiniteSet(0 .. n)
    BY <1>1, FS_Interval
  <2>3. ASSUME NEW k \in T \cap (0 .. n) PROVE Below(k) \in FiniteSubsetsOf(0 .. n)
    BY <2>2, FS_Subset DEF FiniteSubsetsOf
  <2>4. QED
    BY <2>1, <2>3
<1>3. PICK m \in T \cap (0 .. n) :
        \A t \in Segments : ~ (<<t, Below(m)>> \in StrictSubsetOrdering(0 .. n))
  <2>1. IsWellFoundedOn(StrictSubsetOrdering(0 .. n), FiniteSubsetsOf(0 .. n))
    BY <1>1, FS_Interval, FS_StrictSubsetOrderingWellFounded, FS_FiniteSubsetsOfFinite
  <2> HIDE DEF Segments
  <2>2. \E u \in Segments : \A t \in Segments : ~ (<<t, u>> \in StrictSubsetOrdering(0 .. n))
    BY <2>1, <1>2, WFMin
  <2> USE DEF Segments
  <2>3. QED
    BY <2>2
<1>4. ASSUME NEW k \in T, k < m PROVE FALSE
  <2>1. k \in T \cap (0 .. n) /\ m \in Below(m) /\ m \notin Below(k) /\ Below(k) \subseteq Below(m)
    BY <1>4
  <2>2. <<Below(k), Below(m)>> \in StrictSubsetOrdering(0 .. n)
    BY <2>1 DEF StrictSubsetOrdering
  <2>3. QED
    BY <1>3, <2>1, <2>2
<1>5. \A k \in T : m <= k
  BY <1>4
<1>6. QED
  BY <1>5

\* Induction, for a set in the place of a predicate.
LEMMA Induction ==
  ASSUME NEW S, 0 \in S, \A n \in Nat : n \in S => n + 1 \in S
  PROVE  Nat \subseteq S
<1> SUFFICES ASSUME NEW x \in Nat, x \notin S PROVE FALSE
  OBVIOUS
<1> DEFINE T == {k \in Nat : k \notin S}
<1>1. PICK m \in T : \A k \in T : m <= k
  BY LeastNumber
<1>2. m # 0 /\ m - 1 \in Nat
  BY <1>1
<1>3. m - 1 \in S
  BY <1>1, <1>2
<1>4. (m - 1) + 1 \in S
  BY <1>2, <1>3
<1>5. QED
  BY <1>1, <1>4

\* Induction up to a bound.
LEMMA InductionTo ==
  ASSUME NEW N \in Nat, NEW S, 0 \in S, \A n \in 0 .. N : n < N /\ n \in S => n + 1 \in S
  PROVE  0 .. N \subseteq S
<1> DEFINE T == {n \in Nat : n <= N => n \in S}
<1>1. 0 \in T
  OBVIOUS
<1>2. \A n \in Nat : n \in T => n + 1 \in T
  OBVIOUS
<1> HIDE DEF T
<1>3. Nat \subseteq T
  BY <1>1, <1>2, Induction
<1>4. QED
  BY <1>3 DEF T

\* A step function determines a function on 0 .. N.
Steps(N, V) == [V \X (1 .. N) -> V]
Follows(f, N, V, base, step) ==
    f \in [0 .. N -> V] /\ f[0] = base /\ \A i \in 1 .. N : f[i] = step[<<f[i - 1], i>>]

LEMMA RecursionTo ==
  ASSUME NEW N \in Nat, NEW V, NEW base \in V, NEW step \in Steps(N, V)
  PROVE  \E f : Follows(f, N, V, base, step)
<1> USE DEF Steps
<1> DEFINE Upto(n) == \E f \in [0 .. n -> V] :
                        f[0] = base /\ \A i \in 1 .. n : f[i] = step[<<f[i - 1], i>>]
           S == {n \in 0 .. N : Upto(n)}
<1>1. 0 \in S
  <2> DEFINE f == [i \in 0 .. 0 |-> base]
  <2>1. f \in [0 .. 0 -> V] /\ f[0] = base
    OBVIOUS
  <2>2. \A i \in 1 .. 0 : FALSE
    OBVIOUS
  <2> HIDE DEF f
  <2>3. Upto(0)
    BY <2>1, <2>2
  <2>4. QED
    BY <2>3
<1>2. ASSUME NEW n \in 0 .. N, n < N, n \in S PROVE n + 1 \in S
  <2>1. PICK f \in [0 .. n -> V] : f[0] = base /\ \A i \in 1 .. n : f[i] = step[<<f[i - 1], i>>]
    BY <1>2
  <2> DEFINE g == [i \in 0 .. n + 1 |-> IF i = n + 1 THEN step[<<f[n], n + 1>>] ELSE f[i]]
  <2>2. step[<<f[n], n + 1>>] \in V
    <3>1. <<f[n], n + 1>> \in V \X (1 .. N)
      BY <2>1, <1>2
    <3>2. QED
      BY <3>1
  <2>3. g \in [0 .. n + 1 -> V] /\ g[0] = base
    BY <2>1, <2>2
  <2>4. ASSUME NEW i \in 1 .. n + 1 PROVE g[i] = step[<<g[i - 1], i>>]
    <3>1. CASE i = n + 1
      <4>1. g[i] = step[<<f[n], n + 1>>] /\ g[i - 1] = f[n]
        BY <3>1, <1>2
      <4>2. QED
        BY <3>1, <4>1
    <3>2. CASE i # n + 1
      <4>1. i \in 1 .. n /\ g[i] = f[i] /\ g[i - 1] = f[i - 1]
        BY <3>2
      <4>2. QED
        BY <2>1, <4>1
    <3>3. QED
      BY <3>1, <3>2
  <2> HIDE DEF g
  <2>5. Upto(n + 1)
    BY <2>3, <2>4
  <2>6. QED
    BY <2>5, <1>2
<1> HIDE DEF S
<1>3. 0 .. N \subseteq S
  BY <1>1, <1>2, InductionTo
<1>4. Upto(N)
  BY SMTT(30), <1>3 DEF S
<1>5. QED
  BY <1>4 DEF Follows

-----------------------------------------------------------------------------
(* Filtered.                                                               *)

\* The elements kept of the first i.
KeptDef(s, S) ==
    CHOOSE kept : kept = [i \in 0 .. Len(s) |->
        IF i = 0 THEN <<>>
        ELSE IF s[i] \in S THEN Append(kept[i - 1], s[i]) ELSE kept[i - 1]]

\* The function that Filtered is the last value of.
Keeps(kept, s, S) ==
    /\ kept[0] = <<>>
    /\ \A i \in 1 .. Len(s) :
         kept[i] = IF s[i] \in S THEN Append(kept[i - 1], s[i]) ELSE kept[i - 1]

LEMMA FilteredKeeps ==
  ASSUME NEW E, NEW s \in Seq(E), NEW S
  PROVE  \E kept \in [0 .. Len(s) -> Seq(E)] : Keeps(kept, s, S) /\ Filtered(s, S) = kept[Len(s)]
<1> DEFINE N == Len(s)
           V == Seq(E)
           none == <<>>
           Step(k, i) == IF s[i] \in S THEN Append(k, s[i]) ELSE k
           step == [p \in V \X (1 .. N) |-> Step(p[1], p[2])]
           kept == KeptDef(s, S)
<1>1. N \in Nat /\ none \in V
  OBVIOUS
<1>2. \A k \in V, i \in 1 .. N : Step(k, i) \in V
  OBVIOUS
<1>3. Filtered(s, S) = kept[N]
  BY DEF Filtered, KeptDef
<1>4. kept = CHOOSE k : k = [i \in 0 .. N |-> IF i = 0 THEN none ELSE Step(k[i - 1], i)]
  BY DEF KeptDef
<1> HIDE DEF N, V, none, Step, kept
<1>5. step \in [V \X (1 .. N) -> V]
  BY <1>2
<1>6. \A k \in V, i \in 1 .. N : step[<<k, i>>] = Step(k, i)
  OBVIOUS
<1> HIDE DEF step
<1>7. PICK f \in [0 .. N -> V] : f[0] = none /\ \A i \in 1 .. N : f[i] = step[<<f[i - 1], i>>]
  <2>1. step \in Steps(N, V)
    BY <1>5 DEF Steps
  <2>2. \E f : Follows(f, N, V, none, step)
    BY <1>1, <2>1, RecursionTo
  <2>3. QED
    BY <2>2 DEF Follows
<1>8. \A i \in 1 .. N : f[i] = Step(f[i - 1], i)
  <2>1. ASSUME NEW i \in 1 .. N PROVE f[i] = Step(f[i - 1], i)
    <3>1. i - 1 \in 0 .. N
      BY <1>1
    <3>2. f[i - 1] \in V
      BY <3>1
    <3>3. QED
      BY <1>6, <1>7, <3>2
  <2>2. QED
    BY <2>1
<1>9. f = [i \in 0 .. N |-> IF i = 0 THEN none ELSE Step(f[i - 1], i)]
  <2>1. ASSUME NEW i \in 0 .. N PROVE f[i] = IF i = 0 THEN none ELSE Step(f[i - 1], i)
    <3>1. i = 0 \/ i \in 1 .. N
      BY <1>1
    <3>2. QED
      BY <1>7, <1>8, <3>1
  <2>2. QED
    BY <2>1
<1>10. kept = [i \in 0 .. N |-> IF i = 0 THEN none ELSE Step(kept[i - 1], i)]
  BY <1>4, <1>9
<1>11. DOMAIN kept = 0 .. N /\ kept[0] = none /\ \A i \in 1 .. N : kept[i] = Step(kept[i - 1], i)
  <2>1. 0 \in 0 .. N /\ \A i \in 1 .. N : i \in 0 .. N /\ i # 0
    BY <1>1
  <2>2. QED
    BY <1>10, <2>1
<1>12. 0 .. N \subseteq {i \in 0 .. N : kept[i] \in V}
  <2> DEFINE T == {i \in 0 .. N : kept[i] \in V}
  <2>1. 0 \in T
    BY <1>1, <1>11
  <2>2. ASSUME NEW n \in 0 .. N, n < N, n \in T PROVE n + 1 \in T
    <3>1. n + 1 \in 1 .. N /\ n + 1 \in 0 .. N /\ (n + 1) - 1 = n
      BY <2>2, <1>1
    <3>2. kept[n + 1] = Step(kept[n], n + 1) /\ kept[n] \in V
      BY <3>1, <1>11, <2>2
    <3>3. QED
      BY <3>1, <3>2, <1>2
  <2> HIDE DEF T
  <2>3. 0 .. N \subseteq T
    BY <1>1, <2>1, <2>2, InductionTo
  <2>4. QED
    BY <2>3 DEF T
<1>13. kept \in [0 .. N -> V]
  <2>1. kept = [i \in 0 .. N |-> kept[i]]
    BY <1>10
  <2>2. QED
    BY <1>12, <2>1
<1>14. Keeps(kept, s, S)
  BY <1>11 DEF N, none, Step, Keeps
<1>15. QED
  BY <1>3, <1>13, <1>14 DEF N, V

LEMMA FilteredType ==
  ASSUME NEW E, NEW s \in Seq(E), NEW S
  PROVE  Filtered(s, S) \in Seq(E)
<1>1. PICK kept \in [0 .. Len(s) -> Seq(E)] : Filtered(s, S) = kept[Len(s)]
  BY FilteredKeeps
<1>2. Len(s) \in 0 .. Len(s)
  OBVIOUS
<1>3. QED
  BY <1>1, <1>2

Agree(n, s, S, t, T) == \A i \in 1 .. n : s[i] = t[i] /\ (s[i] \in S <=> t[i] \in T)

\* What is kept of one sequence is kept of another one that begins with the same elements.
LEMMA KeepsSame ==
  ASSUME NEW E, NEW s \in Seq(E), NEW t \in Seq(E), NEW S, NEW T, NEW k, NEW l,
         Keeps(k, s, S), Keeps(l, t, T), NEW n \in 0 .. Len(s), n <= Len(t),
         Agree(n, s, S, t, T)
  PROVE  k[n] = l[n]
<1> USE DEF Agree
<1> DEFINE Same == {i \in 0 .. n : k[i] = l[i]}
<1>1. 0 \in Same
  BY DEF Keeps
<1>2. ASSUME NEW i \in 0 .. n, i < n, i \in Same PROVE i + 1 \in Same
  <2>1. i + 1 \in 1 .. n /\ i + 1 \in 1 .. Len(s) /\ i + 1 \in 1 .. Len(t) /\ (i + 1) - 1 = i
    BY <1>2
  <2>2. /\ k[i + 1] = IF s[i + 1] \in S THEN Append(k[i], s[i + 1]) ELSE k[i]
        /\ l[i + 1] = IF t[i + 1] \in T THEN Append(l[i], t[i + 1]) ELSE l[i]
    BY <2>1 DEF Keeps
  <2>3. QED
    BY <1>2, <2>1, <2>2
<1> HIDE DEF Same
<1>3. n \in Nat
  OBVIOUS
<1>4. 0 .. n \subseteq Same
  BY <1>1, <1>2, <1>3, InductionTo
<1>5. QED
  BY <1>3, <1>4 DEF Same

LEMMA FilteredAppend ==
  ASSUME NEW E, NEW s \in Seq(E), NEW e \in E, NEW S
  PROVE  Filtered(Append(s, e), S) = IF e \in S THEN Append(Filtered(s, S), e) ELSE Filtered(s, S)
<1> DEFINE t == Append(s, e)
<1>1. t \in Seq(E) /\ Len(t) = Len(s) + 1 /\ t[Len(t)] = e /\ \A i \in 1 .. Len(s) : s[i] = t[i]
  OBVIOUS
<1>2. Len(s) \in Nat /\ Len(s) \in 0 .. Len(s) /\ Len(t) \in 1 .. Len(t) /\ Len(t) - 1 = Len(s)
      /\ Len(s) <= Len(t)
  BY <1>1
<1> HIDE DEF t
<1>3. PICK k \in [0 .. Len(s) -> Seq(E)] : Keeps(k, s, S) /\ Filtered(s, S) = k[Len(s)]
  BY FilteredKeeps
<1>4. PICK l \in [0 .. Len(t) -> Seq(E)] : Keeps(l, t, S) /\ Filtered(t, S) = l[Len(t)]
  BY <1>1, FilteredKeeps
<1>5. k[Len(s)] = l[Len(s)]
  <2>1. Agree(Len(s), s, S, t, S)
    BY <1>1 DEF Agree
  <2>2. s \in Seq(E) /\ Keeps(k, s, S) /\ Keeps(l, t, S)
    BY <1>3, <1>4
  <2>3. QED
    BY <1>1, <1>2, <2>1, <2>2, KeepsSame
<1>6. l[Len(t)] = IF e \in S THEN Append(l[Len(s)], e) ELSE l[Len(s)]
  BY <1>1, <1>2, <1>4 DEF Keeps
<1>7. QED
  BY <1>3, <1>4, <1>5, <1>6 DEF t

LEMMA FilteredEmpty ==
  ASSUME NEW S
  PROVE  Filtered(<<>>, S) = <<>>
<1>1. <<>> \in Seq({}) /\ Len(<<>>) = 0
  OBVIOUS
<1>2. PICK k : Keeps(k, <<>>, S) /\ Filtered(<<>>, S) = k[0]
  BY <1>1, FilteredKeeps
<1>3. QED
  BY <1>2 DEF Keeps

\* Only membership in the set counts.
LEMMA FilteredSame ==
  ASSUME NEW E, NEW s \in Seq(E), NEW S, NEW T, \A i \in 1 .. Len(s) : s[i] \in S <=> s[i] \in T
  PROVE  Filtered(s, S) = Filtered(s, T)
<1>1. PICK k : Keeps(k, s, S) /\ Filtered(s, S) = k[Len(s)]
  BY FilteredKeeps
<1>2. PICK l : Keeps(l, s, T) /\ Filtered(s, T) = l[Len(s)]
  BY FilteredKeeps
<1>3. Len(s) \in 0 .. Len(s) /\ Len(s) <= Len(s) /\ Agree(Len(s), s, S, s, T)
  BY DEF Agree
<1>4. k[Len(s)] = l[Len(s)]
  BY <1>1, <1>2, <1>3, KeepsSame
<1>5. QED
  BY <1>1, <1>2, <1>4

-----------------------------------------------------------------------------
(* Induction over sequences, from their last element.                      *)

LEMMA SequenceInduction ==
  ASSUME NEW E, NEW P, <<>> \in P,
         \A s \in Seq(E), e \in E : s \in P => Append(s, e) \in P
  PROVE  Seq(E) \subseteq P
<1> DEFINE T == {n \in Nat : \A s \in Seq(E) : Len(s) = n => s \in P}
<1>1. 0 \in T
  <2>1. \A s \in Seq(E) : Len(s) = 0 => s = <<>>
    OBVIOUS
  <2>2. QED
    BY <2>1
<1>2. ASSUME NEW n \in Nat, n \in T PROVE n + 1 \in T
  <2>1. ASSUME NEW s \in Seq(E), Len(s) = n + 1 PROVE s \in P
    <3> DEFINE front == SubSeq(s, 1, n)
    <3>1. front \in Seq(E) /\ Len(front) = n /\ s[n + 1] \in E
      BY <2>1
    <3>2. s = Append(front, s[n + 1])
      BY <2>1
    <3> HIDE DEF front
    <3>3. QED
      BY <1>2, <3>1, <3>2
  <2>2. QED
    BY <2>1
<1> HIDE DEF T
<1>3. Nat \subseteq T
  BY <1>1, <1>2, Induction
<1>4. QED
  BY <1>3 DEF T

LEMMA ToSetAppend ==
  ASSUME NEW E, NEW s \in Seq(E), NEW e \in E
  PROVE  ToSet(Append(s, e)) = ToSet(s) \cup {e}
<1> DEFINE t == Append(s, e)
<1>1. /\ DOMAIN s = 1 .. Len(s) /\ DOMAIN t = 1 .. Len(s) + 1 /\ Len(s) \in Nat
      /\ t[Len(s) + 1] = e /\ \A i \in 1 .. Len(s) : t[i] = s[i]
  OBVIOUS
<1> HIDE DEF t
<1>2. \A i \in DOMAIN t : i \in DOMAIN s \/ i = Len(s) + 1
  BY <1>1
<1>3. \A i \in DOMAIN s : i \in DOMAIN t /\ t[i] = s[i]
  BY <1>1
<1>4. Len(s) + 1 \in DOMAIN t /\ t[Len(s) + 1] = e
  BY <1>1
<1>5. ToSet(t) \subseteq ToSet(s) \cup {e}
  BY <1>2, <1>3, <1>4 DEF ToSet
<1>6. ToSet(s) \cup {e} \subseteq ToSet(t)
  BY <1>3, <1>4 DEF ToSet
<1>7. QED
  BY <1>5, <1>6 DEF t

LEMMA EmptyLength ==
  ASSUME NEW E, NEW s \in Seq(E)
  PROVE  s = <<>> <=> Len(s) = 0
OBVIOUS

LEMMA ConcatElements ==
  ASSUME NEW E, NEW u \in Seq(E), NEW v \in Seq(E)
  PROVE  /\ u \o v \in Seq(E) /\ Len(u \o v) = Len(u) + Len(v)
         /\ \A i \in 1 .. Len(u) + Len(v) :
              (u \o v)[i] = IF i <= Len(u) THEN u[i] ELSE v[i - Len(u)]
OBVIOUS

\* What a concatenation holds, and where.
ConcatenationOf(t, u, v) ==
    /\ Len(t) = Len(u) + Len(v)
    /\ \A i \in 1 .. Len(u) : t[i] = u[i]
    /\ \A i \in 1 .. Len(v) : t[Len(u) + i] = v[i]

LEMMA ConcatPlaces ==
  ASSUME NEW E, NEW u \in Seq(E), NEW v \in Seq(E)
  PROVE  u \o v \in Seq(E) /\ ConcatenationOf(u \o v, u, v)
BY DEF ConcatenationOf

LEMMA SameElements ==
  ASSUME NEW E, NEW s \in Seq(E), NEW t \in Seq(E), NEW n \in Nat, Len(s) = n, Len(t) = n,
         \A i \in 1 .. n : s[i] = t[i]
  PROVE  s = t
OBVIOUS

LEMMA ToSetConcat ==
  ASSUME NEW E, NEW s \in Seq(E), NEW t \in Seq(E)
  PROVE  ToSet(s \o t) = ToSet(s) \cup ToSet(t)
<1>1. /\ Len(s \o t) = Len(s) + Len(t) /\ Len(s) \in Nat /\ Len(t) \in Nat
      /\ \A i \in 1 .. Len(s) + Len(t) : (s \o t)[i] = IF i <= Len(s) THEN s[i] ELSE t[i - Len(s)]
      /\ DOMAIN s = 1 .. Len(s) /\ DOMAIN t = 1 .. Len(t) /\ DOMAIN (s \o t) = 1 .. Len(s) + Len(t)
  OBVIOUS
<1>2. ToSet(s \o t) \subseteq ToSet(s) \cup ToSet(t)
  <2>1. ASSUME NEW i \in DOMAIN (s \o t) PROVE (s \o t)[i] \in ToSet(s) \cup ToSet(t)
    <3>1. i <= Len(s) => i \in DOMAIN s
      BY <1>1
    <3>2. ~(i <= Len(s)) => i - Len(s) \in DOMAIN t
      BY <1>1
    <3>3. (s \o t)[i] = IF i <= Len(s) THEN s[i] ELSE t[i - Len(s)]
      BY <1>1
    <3>4. QED
      BY <3>1, <3>2, <3>3 DEF ToSet
  <2>2. QED
    BY <2>1 DEF ToSet
<1>3. ToSet(s) \cup ToSet(t) \subseteq ToSet(s \o t)
  <2>1. ASSUME NEW i \in DOMAIN s PROVE s[i] \in ToSet(s \o t)
    <3>1. i \in DOMAIN (s \o t) /\ (s \o t)[i] = s[i]
      BY <1>1
    <3>2. QED
      BY <3>1 DEF ToSet
  <2>2. ASSUME NEW i \in DOMAIN t PROVE t[i] \in ToSet(s \o t)
    <3>1. i + Len(s) \in DOMAIN (s \o t) /\ ~(i + Len(s) <= Len(s)) /\ (i + Len(s)) - Len(s) = i
      BY <1>1
    <3>2. (s \o t)[i + Len(s)] = t[i]
      BY <1>1, <3>1
    <3>3. QED
      BY <3>1, <3>2 DEF ToSet
  <2>3. QED
    BY <2>1, <2>2 DEF ToSet
<1>4. QED
  BY <1>2, <1>3

LEMMA HeadAndTail ==
  ASSUME NEW E, NEW s \in Seq(E), s # <<>>
  PROVE  /\ Head(s) \in E /\ Head(s) \in ToSet(s) /\ Tail(s) \in Seq(E)
         /\ ToSet(s) = {Head(s)} \cup ToSet(Tail(s))
         /\ Len(s) > 1 <=> Tail(s) # <<>>
<1>1. /\ Len(s) \in Nat \ {0} /\ Head(s) = s[1] /\ s[1] \in E /\ Tail(s) \in Seq(E)
      /\ Len(Tail(s)) = Len(s) - 1 /\ \A i \in 1 .. Len(s) - 1 : Tail(s)[i] = s[i + 1]
      /\ DOMAIN s = 1 .. Len(s) /\ DOMAIN Tail(s) = 1 .. Len(s) - 1
  OBVIOUS
<1>2. Len(s) > 1 <=> Tail(s) # <<>>
  <2>1. Tail(s) \in Seq(E)
    BY <1>1
  <2>2. Tail(s) = <<>> <=> Len(Tail(s)) = 0
    BY <2>1, EmptyLength
  <2>3. QED
    BY <1>1, <2>2
<1>3. ToSet(s) \subseteq {Head(s)} \cup ToSet(Tail(s))
  <2>1. ASSUME NEW i \in DOMAIN s PROVE s[i] \in {Head(s)} \cup ToSet(Tail(s))
    <3>1. CASE i = 1
      BY <1>1, <3>1
    <3>2. CASE i # 1
      <4>1. i - 1 \in DOMAIN Tail(s) /\ Tail(s)[i - 1] = s[(i - 1) + 1] /\ (i - 1) + 1 = i
        BY <1>1, <3>2
      <4>2. QED
        BY <4>1 DEF ToSet
    <3>3. QED
      BY <3>1, <3>2
  <2>2. QED
    BY <2>1 DEF ToSet
<1>4. {Head(s)} \cup ToSet(Tail(s)) \subseteq ToSet(s)
  <2>1. 1 \in DOMAIN s /\ \A i \in DOMAIN Tail(s) : i + 1 \in DOMAIN s /\ Tail(s)[i] = s[i + 1]
    BY <1>1
  <2>2. QED
    BY <1>1, <2>1 DEF ToSet
<1>5. QED
  BY <1>1, <1>2, <1>3, <1>4

LEMMA RemoveAtFacts ==
  ASSUME NEW E, NEW s \in Seq(E), NEW m \in 1 .. Len(s)
  PROVE  /\ RemoveAt(s, m) \in Seq(E) /\ Len(RemoveAt(s, m)) = Len(s) - 1
         /\ \A i \in 1 .. Len(RemoveAt(s, m)) :
              RemoveAt(s, m)[i] = IF i < m THEN s[i] ELSE s[i + 1]
<1> DEFINE u == SubSeq(s, 1, m - 1)
           v == SubSeq(s, m + 1, Len(s))
<1>1. /\ u \in Seq(E) /\ Len(u) = m - 1 /\ \A i \in 1 .. m - 1 : u[i] = s[i]
      /\ v \in Seq(E) /\ Len(v) = Len(s) - m /\ \A i \in 1 .. Len(s) - m : v[i] = s[i + m]
      /\ Len(s) \in Nat
  OBVIOUS
<1> HIDE DEF u, v
<1>2. /\ u \o v \in Seq(E) /\ Len(u \o v) = Len(s) - 1
      /\ \A i \in 1 .. Len(s) - 1 : (u \o v)[i] = IF i <= m - 1 THEN u[i] ELSE v[i - (m - 1)]
  <2>1. /\ u \o v \in Seq(E) /\ Len(u \o v) = Len(u) + Len(v)
        /\ \A i \in 1 .. Len(u) + Len(v) : (u \o v)[i] = IF i <= Len(u) THEN u[i] ELSE v[i - Len(u)]
    <3>1. u \in Seq(E) /\ v \in Seq(E)
      BY <1>1
    <3>2. QED
      BY <3>1, ConcatElements
  <2>2. Len(u) + Len(v) = Len(s) - 1
    BY <1>1
  <2>3. QED
    BY <1>1, <2>1, <2>2
<1>3. ASSUME NEW i \in 1 .. Len(s) - 1 PROVE (u \o v)[i] = IF i < m THEN s[i] ELSE s[i + 1]
  <2>1. CASE i < m
    BY <1>1, <1>2, <2>1
  <2>2. CASE ~(i < m)
    <3>1. i - (m - 1) \in 1 .. Len(s) - m /\ (i - (m - 1)) + m = i + 1
      BY <1>1, <2>2
    <3>2. v[i - (m - 1)] = s[(i - (m - 1)) + m]
      BY <1>1, <3>1
    <3>3. QED
      BY <1>2, <2>2, <3>1, <3>2
  <2>3. QED
    BY <2>1, <2>2
<1>4. QED
  BY <1>2, <1>3 DEF RemoveAt, u, v

\* What is kept are the elements that are in the set.
LEMMA FilteredElements ==
  ASSUME NEW E, NEW S
  PROVE  \A s \in Seq(E) : ToSet(Filtered(s, S)) = ToSet(s) \cap S
<1> DEFINE P == {s \in Seq(E) : ToSet(Filtered(s, S)) = ToSet(s) \cap S}
<1>1. <<>> \in P
  <2>1. <<>> \in Seq(E) /\ ToSet(<<>>) = {}
    BY DEF ToSet
  <2>2. QED
    BY <2>1, FilteredEmpty
<1>2. ASSUME NEW s \in Seq(E), NEW e \in E, s \in P PROVE Append(s, e) \in P
  <2>1. Append(s, e) \in Seq(E) /\ ToSet(Append(s, e)) = ToSet(s) \cup {e}
    BY ToSetAppend
  <2>2. Filtered(s, S) \in Seq(E)
    BY FilteredType
  <2>3. ToSet(Append(Filtered(s, S), e)) = ToSet(Filtered(s, S)) \cup {e}
    BY <2>2, ToSetAppend
  <2>4. Filtered(Append(s, e), S) = IF e \in S THEN Append(Filtered(s, S), e) ELSE Filtered(s, S)
    BY FilteredAppend
  <2>5. QED
    BY <1>2, <2>1, <2>3, <2>4
<1> HIDE DEF P
<1>3. Seq(E) \subseteq P
  BY <1>1, <1>2, SequenceInduction
<1>4. QED
  BY <1>3 DEF P

LEMMA FilteredConcat ==
  ASSUME NEW E, NEW S, NEW s \in Seq(E)
  PROVE  \A t \in Seq(E) : Filtered(s \o t, S) = Filtered(s, S) \o Filtered(t, S)
<1> DEFINE P == {t \in Seq(E) : Filtered(s \o t, S) = Filtered(s, S) \o Filtered(t, S)}
<1>0. Filtered(s, S) \in Seq(E)
  BY FilteredType
<1>1. <<>> \in P
  <2>1. <<>> \in Seq(E) /\ s \o <<>> = s /\ Filtered(s, S) \o <<>> = Filtered(s, S)
    BY <1>0
  <2>2. QED
    BY <2>1, FilteredEmpty
<1>2. ASSUME NEW t \in Seq(E), NEW e \in E, t \in P PROVE Append(t, e) \in P
  <2>1. Append(t, e) \in Seq(E) /\ s \o Append(t, e) = Append(s \o t, e) /\ s \o t \in Seq(E)
    OBVIOUS
  <2>2. Filtered(t, S) \in Seq(E)
    BY FilteredType
  <2>3. /\ Filtered(Append(t, e), S) = IF e \in S THEN Append(Filtered(t, S), e) ELSE Filtered(t, S)
        /\ Filtered(Append(s \o t, e), S)
             = IF e \in S THEN Append(Filtered(s \o t, S), e) ELSE Filtered(s \o t, S)
    BY <2>1, FilteredAppend
  <2>4. Filtered(s, S) \o Append(Filtered(t, S), e) = Append(Filtered(s, S) \o Filtered(t, S), e)
    BY <1>0, <2>2
  <2>5. QED
    BY <1>2, <2>1, <2>3, <2>4
<1> HIDE DEF P
<1>3. Seq(E) \subseteq P
  BY <1>1, <1>2, SequenceInduction
<1>4. QED
  BY <1>3 DEF P

\* A set that holds every element keeps the sequence, one that holds none empties it.
LEMMA FilteredAll ==
  ASSUME NEW E, NEW S
  PROVE  \A s \in Seq(E) : ToSet(s) \subseteq S => Filtered(s, S) = s
<1> DEFINE P == {s \in Seq(E) : ToSet(s) \subseteq S => Filtered(s, S) = s}
<1>1. <<>> \in P
  BY FilteredEmpty
<1>2. ASSUME NEW s \in Seq(E), NEW e \in E, s \in P PROVE Append(s, e) \in P
  <2>1. ToSet(Append(s, e)) = ToSet(s) \cup {e}
    BY ToSetAppend
  <2>2. Filtered(Append(s, e), S) = IF e \in S THEN Append(Filtered(s, S), e) ELSE Filtered(s, S)
    BY FilteredAppend
  <2>3. QED
    BY <1>2, <2>1, <2>2
<1> HIDE DEF P
<1>3. Seq(E) \subseteq P
  BY <1>1, <1>2, SequenceInduction
<1>4. QED
  BY <1>3 DEF P

LEMMA EmptyFromSet ==
  ASSUME NEW E, NEW s \in Seq(E)
  PROVE  s = <<>> <=> ToSet(s) = {}
BY DEF ToSet

LEMMA FilteredNone ==
  ASSUME NEW E, NEW S, NEW s \in Seq(E), ToSet(s) \cap S = {}
  PROVE  Filtered(s, S) = <<>>
BY FilteredElements, FilteredType, EmptyFromSet

-----------------------------------------------------------------------------
(* FlattenSeq.                                                             *)

FirstOf(seqs, k) == [i \in 1 .. k |-> seqs[i]]

\* The function that FlattenSeq is the last value of.
JoinDef(seqs) ==
    CHOOSE join : join = [i \in 1 .. Len(seqs) |->
        IF i = 1 THEN seqs[i] ELSE join[i - 1] \o seqs[i]]

\* The concatenations of the first k sequences, for every k.
Joins(joined, seqs) ==
    /\ joined[0] = <<>>
    /\ \A k \in 1 .. Len(seqs) : joined[k] = joined[k - 1] \o seqs[k]

LEMMA JoinsExist ==
  ASSUME NEW E, NEW seqs \in Seq(Seq(E))
  PROVE  \E joined \in [0 .. Len(seqs) -> Seq(E)] : Joins(joined, seqs)
<1> DEFINE N == Len(seqs)
           V == Seq(E)
           none == <<>>
           step == [p \in V \X (1 .. N) |-> p[1] \o seqs[p[2]]]
<1>1. N \in Nat /\ none \in V /\ \A i \in 1 .. N : seqs[i] \in V
  OBVIOUS
<1>2. step \in Steps(N, V)
  <2>1. ASSUME NEW s \in V, NEW i \in 1 .. N PROVE s \o seqs[i] \in V
    BY <1>1
  <2>2. QED
    BY <2>1 DEF Steps
<1>3. \A s \in V, i \in 1 .. N : step[<<s, i>>] = s \o seqs[i]
  OBVIOUS
<1> HIDE DEF step, none
<1>4. PICK f : Follows(f, N, V, none, step)
  BY <1>1, <1>2, RecursionTo
<1>5. ASSUME NEW i \in 1 .. N PROVE f[i] = f[i - 1] \o seqs[i]
  <2>1. i - 1 \in 0 .. N
    BY <1>1
  <2>2. f[i - 1] \in V
    BY <2>1, <1>4 DEF Follows
  <2>3. QED
    BY <1>3, <1>4, <2>2 DEF Follows
<1>6. f \in [0 .. N -> V] /\ f[0] = none
  BY <1>4 DEF Follows
<1>7. QED
  BY <1>5, <1>6 DEF Joins, none

LEMMA FlattenIsJoin ==
  ASSUME NEW E, NEW seqs \in Seq(Seq(E)), NEW joined \in [0 .. Len(seqs) -> Seq(E)],
         Joins(joined, seqs), NEW k \in 0 .. Len(seqs)
  PROVE  FlattenSeq(FirstOf(seqs, k)) = joined[k]
<1>1. Len(seqs) \in Nat /\ \A i \in 1 .. Len(seqs) : seqs[i] \in Seq(E)
  OBVIOUS
<1>2. CASE k = 0
  <2>1. FirstOf(seqs, k) = <<>>
    BY <1>2 DEF FirstOf
  <2>2. QED
    BY <1>2, <2>1 DEF FlattenSeq, Joins
<1>3. CASE k # 0
  <2> DEFINE first == FirstOf(seqs, k)
             join == JoinDef(first)
  <2>1. k \in Nat /\ k \in 1 .. Len(seqs)
    BY <1>1, <1>3
  <2>2. Len(first) = k /\ \A i \in 1 .. k : first[i] = seqs[i]
    BY <2>1, <1>1 DEF FirstOf
  <2>3. FlattenSeq(first) = join[k]
    BY <2>2, <1>3 DEF FlattenSeq, JoinDef
  <2>4. join = CHOOSE j : j = [i \in 1 .. k |-> IF i = 1 THEN first[i] ELSE j[i - 1] \o first[i]]
    BY <2>2 DEF JoinDef
  <2> HIDE DEF first, join
  <2> DEFINE g == [i \in 1 .. k |-> joined[i]]
  <2>5. g = [i \in 1 .. k |-> IF i = 1 THEN first[i] ELSE g[i - 1] \o first[i]]
    <3>1. ASSUME NEW i \in 1 .. k
          PROVE  joined[i] = IF i = 1 THEN first[i] ELSE g[i - 1] \o first[i]
      <4>1. i \in 1 .. Len(seqs) /\ first[i] = seqs[i]
        BY <2>1, <2>2
      <4>2. joined[i] = joined[i - 1] \o seqs[i]
        BY <4>1 DEF Joins
      <4>3. CASE i = 1
        <5>1. joined[0] = <<>> /\ seqs[1] \in Seq(E) /\ i - 1 = 0
          BY <4>1, <4>3, <1>1 DEF Joins
        <5>2. <<>> \o seqs[1] = seqs[1]
          BY <5>1
        <5>3. QED
          BY <4>1, <4>2, <4>3, <5>1, <5>2
      <4>4. CASE i # 1
        <5>1. i - 1 \in 1 .. k
          BY <4>4, <2>1
        <5>2. g[i - 1] = joined[i - 1]
          BY <5>1
        <5>3. QED
          BY <4>1, <4>2, <4>4, <5>2
      <4>5. QED
        BY <4>3, <4>4
    <3>2. QED
      BY <3>1
  <2> HIDE DEF g
  <2>6. join = [i \in 1 .. k |-> IF i = 1 THEN first[i] ELSE join[i - 1] \o first[i]]
    BY <2>4, <2>5
  <2> DEFINE T == {i \in 0 .. k : i = 0 \/ join[i] = joined[i]}
  <2>7. 0 \in T
    BY <2>1
  <2>8. ASSUME NEW i \in 0 .. k, i < k, i \in T PROVE i + 1 \in T
    <3>1. i + 1 \in 1 .. k /\ i + 1 \in 1 .. Len(seqs) /\ (i + 1) - 1 = i
      BY <2>1, <2>8
    <3>2. joined[i + 1] = joined[i] \o seqs[i + 1]
      BY <3>1 DEF Joins
    <3>3. join[i + 1] = IF i + 1 = 1 THEN seqs[i + 1] ELSE join[i] \o seqs[i + 1]
      BY <2>6, <2>2, <3>1
    <3>4. CASE i = 0
      <4>1. joined[0] = <<>> /\ seqs[1] \in Seq(E)
        BY <3>4, <3>1, <1>1 DEF Joins
      <4>2. <<>> \o seqs[1] = seqs[1]
        BY <4>1
      <4>3. join[1] = joined[1]
        BY <3>2, <3>3, <3>4, <4>1, <4>2
      <4>4. QED
        BY <3>1, <3>4, <4>3
    <3>5. CASE i # 0
      <4>1. join[i] = joined[i] /\ i + 1 # 1
        BY <3>1, <3>5, <2>8
      <4>2. join[i + 1] = joined[i + 1]
        BY <3>2, <3>3, <4>1
      <4>3. QED
        BY <3>1, <4>2
    <3>6. QED
      BY <3>4, <3>5
  <2> HIDE DEF T
  <2>9. 0 .. k \subseteq T
    BY <2>1, <2>7, <2>8, InductionTo
  <2>10. k \in T
    BY <2>9, <2>1
  <2>11. join[k] = joined[k]
    BY <2>10, <1>3 DEF T
  <2>12. QED
    BY <2>3, <2>11 DEF first
<1>4. QED
  BY <1>2, <1>3

\* The concatenation of the first sequences has each of them at its place, and goes on
\* in the concatenation of all.
LEMMA FlattenSteps ==
  ASSUME NEW E, NEW seqs \in Seq(Seq(E))
  PROVE  /\ FlattenSeq(FirstOf(seqs, 0)) = <<>>
         /\ FlattenSeq(FirstOf(seqs, Len(seqs))) = FlattenSeq(seqs)
         /\ \A k \in 0 .. Len(seqs) : FlattenSeq(FirstOf(seqs, k)) \in Seq(E)
         /\ \A k \in 1 .. Len(seqs) :
              FlattenSeq(FirstOf(seqs, k)) = FlattenSeq(FirstOf(seqs, k - 1)) \o seqs[k]
<1>1. PICK joined \in [0 .. Len(seqs) -> Seq(E)] : Joins(joined, seqs)
  BY JoinsExist
<1>2. \A k \in 0 .. Len(seqs) : FlattenSeq(FirstOf(seqs, k)) = joined[k]
  BY <1>1, FlattenIsJoin
<1>3. Len(seqs) \in Nat
  OBVIOUS
<1>4. FirstOf(seqs, Len(seqs)) = seqs
  BY DEF FirstOf
<1>5. \A k \in 1 .. Len(seqs) : k \in 0 .. Len(seqs) /\ k - 1 \in 0 .. Len(seqs)
  BY <1>3
<1>6. 0 \in 0 .. Len(seqs)
  BY <1>3
<1>7. QED
  BY <1>1, <1>2, <1>4, <1>5, <1>6 DEF Joins

\* A prefix of what is flattened.
LengthTo(seqs, k) == Len(FlattenSeq(FirstOf(seqs, k)))

LEMMA FlattenPlaces ==
  ASSUME NEW E, NEW seqs \in Seq(Seq(E)), NEW k \in 1 .. Len(seqs)
  PROVE  /\ LengthTo(seqs, k) = LengthTo(seqs, k - 1) + Len(seqs[k])
         /\ LengthTo(seqs, k - 1) \in Nat
         /\ LengthTo(seqs, k) <= Len(FlattenSeq(seqs))
         /\ \A j \in 1 .. Len(seqs[k]) :
              FlattenSeq(seqs)[LengthTo(seqs, k - 1) + j] = seqs[k][j]
<1> DEFINE N == Len(seqs)
           F(i) == FlattenSeq(FirstOf(seqs, i))
           L(i) == Len(F(i))
<1>1. /\ \A i \in 0 .. N : F(i) \in Seq(E)
      /\ \A i \in 1 .. N : F(i) = F(i - 1) \o seqs[i]
      /\ F(N) = FlattenSeq(seqs)
  BY FlattenSteps
<1>2. N \in Nat /\ k \in Nat /\ k - 1 \in 0 .. N /\ k \in 0 .. N
  OBVIOUS
<1>3. \A i \in 1 .. N : seqs[i] \in Seq(E)
  OBVIOUS
<1> HIDE DEF N, F
<1>3a. k \in 1 .. N
  BY DEF N
<1>4. \A i \in 0 .. N : L(i) \in Nat
  BY <1>1
<1>5. ASSUME NEW i \in 1 .. N
      PROVE  /\ L(i) = L(i - 1) + Len(seqs[i])
             /\ \A j \in 1 .. L(i - 1) : F(i)[j] = F(i - 1)[j]
             /\ \A j \in 1 .. Len(seqs[i]) : F(i)[L(i - 1) + j] = seqs[i][j]
  <2>1. i - 1 \in 0 .. N
    BY <1>2
  <2>2. F(i - 1) \in Seq(E) /\ seqs[i] \in Seq(E) /\ F(i) = F(i - 1) \o seqs[i]
    BY <2>1, <1>1, <1>3
  <2>3. QED
    BY <2>2
<1>6. L(k) \in Nat /\ L(k - 1) \in Nat
  BY <1>2, <1>4
<1> DEFINE Goes(i) == L(k) <= L(i) /\ \A j \in 1 .. L(k) : F(i)[j] = F(k)[j]
           S == {i \in 0 .. N : i >= k => Goes(i)}
<1>7. 0 \in S
  BY <1>2, <1>3a
<1>8. ASSUME NEW i \in 0 .. N, i < N, i \in S PROVE i + 1 \in S
  <2>1. i + 1 \in 1 .. N /\ i + 1 \in 0 .. N /\ (i + 1) - 1 = i /\ i \in Nat
    BY <1>8, <1>2
  <2>2. CASE i + 1 <= k
    <3>1. i + 1 < k \/ i + 1 = k
      BY <2>1, <2>2, <1>2
    <3>2. QED
      BY <3>1, <2>1, <1>2, <1>6
  <2>3. CASE ~(i + 1 <= k)
    <3>1. i >= k
      BY <2>1, <2>3, <1>2
    <3>2. Goes(i)
      BY <3>1, <1>8
    <3>3. /\ L(i + 1) = L(i) + Len(seqs[i + 1])
          /\ \A j \in 1 .. L(i) : F(i + 1)[j] = F(i)[j]
      BY <1>5, <2>1
    <3>4. L(i) \in Nat /\ Len(seqs[i + 1]) \in Nat
      BY <1>3, <1>4, <2>1
    <3>5. \A j \in 1 .. L(k) : j \in 1 .. L(i)
      BY <3>2, <3>4, <1>6
    <3>6. Goes(i + 1)
      BY <3>2, <3>3, <3>4, <3>5, <1>6
    <3>7. QED
      BY <3>6, <2>1
  <2>4. QED
    BY <2>2, <2>3
<1> HIDE DEF S
<1>9. 0 .. N \subseteq S
  BY <1>2, <1>7, <1>8, InductionTo
<1>10. N \in S /\ N >= k
  BY <1>9, <1>2, <1>3a
<1>11. Goes(N)
  BY <1>10 DEF S
<1>12. /\ L(k) = L(k - 1) + Len(seqs[k])
       /\ \A j \in 1 .. Len(seqs[k]) : F(k)[L(k - 1) + j] = seqs[k][j]
  BY <1>5, <1>3a
<1>13. Len(seqs[k]) \in Nat
  BY <1>3, <1>3a
<1>14. ASSUME NEW j \in 1 .. Len(seqs[k])
       PROVE  FlattenSeq(seqs)[L(k - 1) + j] = seqs[k][j]
  <2>1. L(k - 1) + j \in 1 .. L(k)
    BY <1>6, <1>12, <1>13
  <2>2. F(N)[L(k - 1) + j] = F(k)[L(k - 1) + j]
    BY <2>1, <1>11
  <2>3. QED
    BY <2>2, <1>1, <1>12
<1>15. L(k) <= Len(FlattenSeq(seqs))
  BY <1>11, <1>1
<1>16. QED
  BY <1>6, <1>12, <1>14, <1>15 DEF LengthTo, F
=============================================================================
