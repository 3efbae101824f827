------------------------ MODULE StreamHandlerProofs ------------------------
(***************************************************************************)
(* Theorems about StreamHandler, for every set of readers, streams and     *)
(* requests, every width of a number and every clock.                      *)
(***************************************************************************)
EXTENDS StreamHandler, FiniteSetTheorems, TLAPS

-----------------------------------------------------------------------------
(* Numbers and identifiers.                                                *)

LEMMA MaxOfNumbers ==
  ASSUME NEW S \in SUBSET Numbers, S # {}
  PROVE  Max(S) \in S
<1> DEFINE Above(x) == {y \in S : x < y}
           T == {Above(x) : x \in S}
<1>1. IsFiniteSet(S)
  <2>1. 0 \in Int /\ Word - 1 \in Int
    BY WordAssumption
  <2>2. IsFiniteSet(0 .. Word - 1)
    BY <2>1, FS_Interval
  <2>3. QED
    BY <2>2, FS_Subset DEF Numbers
<1>2. \A x, y \in S : x \in Int /\ y \in Int
  BY DEF Numbers
<1>3. T \subseteq FiniteSubsetsOf(S) /\ T # {}
  <2>1. FiniteSubsetsOf(S) = SUBSET S
    BY <1>1, FS_FiniteSubsetsOfFinite
  <2>2. \A x \in S : Above(x) \in SUBSET S
    OBVIOUS
  <2>3. T \subseteq SUBSET S
    BY <2>2
  <2>4. T # {}
    OBVIOUS
  <2>5. QED
    BY <2>1, <2>3, <2>4
<1>4. PICK x \in S : \A t \in T : ~ (<<t, Above(x)>> \in StrictSubsetOrdering(S))
  <2>1. IsWellFoundedOn(StrictSubsetOrdering(S), FiniteSubsetsOf(S))
    BY <1>1, FS_StrictSubsetOrderingWellFounded, FS_FiniteSubsetsOfFinite
  <2> HIDE DEF T
  <2>2. \E u \in T : \A t \in T : ~ (<<t, u>> \in StrictSubsetOrdering(S))
    BY <2>1, <1>3, WFMin
  <2> USE DEF T
  <2>3. QED
    BY <2>2
<1>5. ASSUME NEW y \in S, x < y PROVE FALSE
  <2>1. Above(y) \subseteq Above(x) /\ y \in Above(x) /\ y \notin Above(y)
    BY <1>2, <1>5
  <2>2. <<Above(y), Above(x)>> \in StrictSubsetOrdering(S)
    BY <2>1 DEF StrictSubsetOrdering
  <2>3. QED
    BY <1>4, <2>2
<1>6. \A y \in S : x >= y
  BY <1>2, <1>5
<1>7. QED
  BY <1>6 DEF Max

LEMMA IdParts ==
  ASSUME NEW x \in Ids
  PROVE  /\ x = <<x[1], x[2]>>
         /\ x[1] \in Numbers /\ x[2] \in Numbers
         /\ x[1] \in Int /\ x[2] \in Int /\ x[1] >= 0 /\ x[2] >= 0
BY WordAssumption DEF Ids, Numbers

LEMMA ZeroType == Zero \in Ids
BY WordAssumption DEF Zero, Ids, Numbers

LEMMA LessTransitive ==
  ASSUME NEW x \in Ids, NEW y \in Ids, NEW z \in Ids, Less(x, y), Less(y, z)
  PROVE  Less(x, z)
BY IdParts DEF Less

LEMMA NextSecondType ==
  ASSUME NEW log \in SUBSET Ids, NEW first \in Numbers
  PROVE  NextSecond(log, first) \in Numbers
<1> DEFINE seconds == {x[2] : x \in {y \in log : y[1] = first}}
<1>1. seconds \in SUBSET Numbers
  BY IdParts
<1>2. NextSecond(log, first) =
        IF seconds # {} THEN Increment(Max(seconds)) ELSE IF first = 0 THEN 1 ELSE 0
  BY DEF NextSecond
<1> HIDE DEF seconds
<1>3. ASSUME seconds # {} PROVE Increment(Max(seconds)) \in Numbers
  <2>1. Max(seconds) \in Numbers
    BY <1>1, <1>3, MaxOfNumbers
  <2>2. QED
    BY <2>1, WordAssumption DEF Increment, Numbers
<1>4. 0 \in Numbers /\ 1 \in Numbers
  BY WordAssumption DEF Numbers
<1>5. QED
  BY <1>2, <1>3, <1>4

StreamStates == [made : BOOLEAN, log : SUBSET Ids, latest : Ids, first : BOOLEAN, second : BOOLEAN]

LEMMA IdOfType ==
  ASSUME NEW st \in StreamStates, NEW parsed \in Ids, NEW now \in Times
  PROVE  IdOf(st, parsed, now) \in Ids
<1>1. NextSecond(st.log, parsed[1]) \in Numbers /\ parsed[1] \in Numbers
  BY NextSecondType, IdParts DEF StreamStates
<1>2. now \in Numbers /\ 0 \in Numbers
  BY TimesAssumption, WordAssumption DEF Numbers
<1>3. QED
  BY <1>1, <1>2 DEF IdOf, Ids

LEMMA FlaggedType ==
  ASSUME NEW st \in StreamStates, NEW form \in ArgForms
  PROVE  /\ Flagged(st, form) \in StreamStates
         /\ Flagged(st, form).log = st.log /\ Flagged(st, form).latest = st.latest
BY DEF Flagged, StreamStates

LEMMA AddEntryType ==
  ASSUME NEW st \in StreamStates, NEW id \in Ids
  PROVE  /\ AddEntry(st, id) \in StreamStates
         /\ Refuses(st, id) => AddEntry(st, id) = st
         /\ ~Refuses(st, id) =>
              /\ AddEntry(st, id).log = st.log \cup {id} /\ AddEntry(st, id).latest = id
              /\ ~AddEntry(st, id).first /\ ~AddEntry(st, id).second
BY DEF AddEntry, StreamStates

\* The branches of GetEntriesInRange on the four numbers.
LEMMA BranchesAgree ==
  ASSUME NEW x1 \in Nat, NEW x2 \in Nat, NEW f1 \in Nat, NEW f2 \in Nat
  PROVE  (/\ f1 = 0 \/ x1 >= f1
          /\ IF x1 = f1 /\ f2 # 0 THEN x2 >= f2 /\ ~(x1 = f1 /\ x2 = f2)
             ELSE ~(x1 = f1 /\ x2 = f2))
         <=> (f1 < x1 \/ (f1 = x1 /\ f2 < x2))
OBVIOUS

\* GetEntriesInRange, as XREAD calls it, returns what follows the start: every one of
\* its branches agrees with the order of identifiers.
LEMMA RangeAfter ==
  ASSUME NEW log \in SUBSET Ids, NEW from \in Ids
  PROVE  EntriesInRange(log, from, Zero, TRUE) = {x \in log : Less(from, x)}
<1>1. ASSUME NEW x \in log
      PROVE  x \in EntriesInRange(log, from, Zero, TRUE) <=> Less(from, x)
  <2>1. x \in Ids
    OBVIOUS
  <2>2. Skips(TRUE, x, from) <=> x[1] = from[1] /\ x[2] = from[2]
    BY <2>1, IdParts DEF Skips
  <2>3. Zero[1] = 0 /\ Zero[2] = 0
    BY DEF Zero
  <2>4. x \in EntriesInRange(log, from, Zero, TRUE) <=>
          /\ from[1] = 0 \/ x[1] >= from[1]
          /\ IF x[1] = from[1] /\ from[2] # 0
             THEN x[2] >= from[2] /\ ~(x[1] = from[1] /\ x[2] = from[2])
             ELSE ~(x[1] = from[1] /\ x[2] = from[2])
    BY <2>2, <2>3 DEF EntriesInRange
  <2>5. /\ x[1] \in Nat /\ x[2] \in Nat
        /\ from[1] \in Nat /\ from[2] \in Nat
    BY <2>1, IdParts, WordAssumption DEF Numbers
  <2>6. (/\ from[1] = 0 \/ x[1] >= from[1]
         /\ IF x[1] = from[1] /\ from[2] # 0
            THEN x[2] >= from[2] /\ ~(x[1] = from[1] /\ x[2] = from[2])
            ELSE ~(x[1] = from[1] /\ x[2] = from[2]))
        <=> (from[1] < x[1] \/ (from[1] = x[1] /\ from[2] < x[2]))
    BY <2>5, BranchesAgree
  <2>7. QED
    BY <2>4, <2>6, Zenon DEF Less
<1>2. QED
  BY <1>1 DEF EntriesInRange

-----------------------------------------------------------------------------
(* Sequences.                                                              *)

LEMMA ElementType ==
  ASSUME NEW S, NEW s \in Seq(S)
  PROVE  /\ DOMAIN s = 1 .. Len(s) /\ Len(s) \in Nat
         /\ \A i \in DOMAIN s : s[i] \in S
OBVIOUS

LEMMA FunctionIsSequence ==
  ASSUME NEW S, NEW n \in Nat, NEW f \in [1 .. n -> S]
  PROVE  f \in Seq(S)
OBVIOUS

-----------------------------------------------------------------------------
(* Type correctness.                                                       *)

Questions == Seq([stream : Streams, from : Ids])
LoopStates ==
  [pc : {"idle", "notify", "register"}, stream : Streams, parsed : Ids,
   added : SUBSET Ids, reader : Readers \cup {NoReader}, i : Nat]
CallStates ==
  [pc : {"none", "register", "waiting", "read", "clear", "send"}, eventSet : BOOLEAN,
   ask : Questions, found : Seq(SUBSET Ids)]
Places == [reader : Readers \cup {NoReader}, wait : Ids]

LEMMA TypeParts ==
  TypeOK <=> /\ stream \in [Streams -> StreamStates]
             /\ place \in [Streams -> Places]
             /\ loop \in LoopStates
             /\ call \in [Readers -> CallStates]
             /\ alive \in BOOLEAN
BY DEF TypeOK, StreamStates, Places, LoopStates, CallStates, Questions

LEMMA BlankTypes ==
  /\ NoStream \in StreamStates
  /\ NoPlace \in Places
  /\ IdleLoop \in LoopStates /\ IdleLoop.pc = "idle"
  /\ NoCall \in CallStates /\ NoCall.pc = "none" /\ NoCall.ask = <<>>
<1>1. SomeStream \in Streams
  BY StreamsAssumption DEF SomeStream
<1>2. QED
  BY <1>1, ZeroType DEF NoStream, StreamStates, NoPlace, Places, IdleLoop, LoopAt, LoopStates,
     NoCall, CallAt, CallStates, Questions

LEMMA EntriesType ==
  ASSUME stream \in [Streams -> StreamStates], NEW s \in Streams, NEW from \in Ids
  PROVE  EntriesAfter(s, from) = {x \in stream[s].log : Less(from, x)}
<1>1. stream[s].log \in SUBSET Ids
  BY DEF StreamStates
<1>2. QED
  BY <1>1, RangeAfter DEF EntriesAfter

LEMMA ResolvedType ==
  ASSUME stream \in [Streams -> StreamStates], NEW r \in Readers, NEW ask \in Asks[r]
  PROVE  /\ Resolved(ask) \in Questions /\ Resolved(ask) # <<>>
         /\ Nothing(Resolved(ask)) \in Seq(SUBSET Ids)
<1>1. ask \in Seq([stream : Streams, from : Ids \cup {Dollar}]) /\ ask # <<>>
  BY AsksAssumption
<1>2. \A i \in DOMAIN ask : ask[i] \in [stream : Streams, from : Ids \cup {Dollar}]
  BY <1>1, ElementType
<1>3. ASSUME NEW i \in DOMAIN ask
      PROVE  Resolved(ask)[i] \in [stream : Streams, from : Ids]
  <2>1. ask[i].stream \in Streams /\ ask[i].from \in Ids \cup {Dollar}
    BY <1>2
  <2>2. stream[ask[i].stream].latest \in Ids
    BY <2>1 DEF StreamStates
  <2>3. QED
    BY <2>1, <2>2 DEF Resolved
<1>4. DOMAIN Resolved(ask) = 1 .. Len(ask) /\ Len(ask) \in Nat \ {0}
  BY <1>1 DEF Resolved
<1>5. Resolved(ask) \in Questions
  <2>1. Resolved(ask) \in [1 .. Len(ask) -> [stream : Streams, from : Ids]]
    BY <1>1, <1>3, <1>4 DEF Resolved
  <2>2. QED
    BY <1>4, <2>1, FunctionIsSequence DEF Questions
<1>6. Resolved(ask) # <<>>
  BY <1>4
<1>7. Nothing(Resolved(ask)) \in Seq(SUBSET Ids)
  <2>1. Nothing(Resolved(ask)) \in [1 .. Len(ask) -> SUBSET Ids]
    BY <1>4 DEF Nothing
  <2>2. QED
    BY <1>4, <2>1, FunctionIsSequence
<1>8. QED
  BY <1>5, <1>6, <1>7

LEMMA TypeInit == Init => TypeInv
<1> SUFFICES ASSUME Init PROVE TypeInv
  OBVIOUS
<1>1. TypeOK
  BY TypeParts, BlankTypes DEF Init
<1>2. CallsInStep
  BY BlankTypes DEF Init, CallsInStep
<1>3. QED
  BY <1>1, <1>2 DEF TypeInv

LEMMA TypeXAdd ==
  ASSUME TypeInv, NEW s \in Streams, NEW arg \in AddArgs[s], XAdd(s, arg)
  PROVE  /\ TypeInv'
         /\ \E now \in Times :
              LET st == Flagged(stream[s], arg.form)
                  id == IdOf(st, arg.id, now)
              IN /\ st \in StreamStates /\ id \in Ids
                 /\ stream' = [stream EXCEPT ![s] = AddEntry(st, id)]
                 /\ loop'.added = (IF Refuses(st, id) THEN {} ELSE {id})
                 /\ loop'.parsed = arg.id /\ loop'.stream = s /\ loop'.pc = "notify"
<1>1. PICK now \in Times :
        LET st == Flagged(stream[s], arg.form)
            id == IdOf(st, arg.id, now)
        IN /\ stream' = [stream EXCEPT ![s] = AddEntry(st, id)]
           /\ loop' = LoopAt("notify", s, arg.id, IF Refuses(st, id) THEN {} ELSE {id}, NoReader, 0)
  BY DEF XAdd
<1> DEFINE st == Flagged(stream[s], arg.form)
           id == IdOf(st, arg.id, now)
<1>2. arg.form \in ArgForms /\ arg.id \in Ids
  BY AddArgsAssumption
<1>3. st \in StreamStates
  BY <1>2, TypeParts, FlaggedType DEF TypeInv
<1>4. id \in Ids
  BY <1>2, <1>3, IdOfType
<1>5. AddEntry(st, id) \in StreamStates
  BY <1>3, <1>4, AddEntryType
<1>6. stream' \in [Streams -> StreamStates]
  BY <1>1, <1>5, TypeParts DEF TypeInv
<1>7. loop' \in LoopStates /\ loop'.pc = "notify"
  <2>1. (IF Refuses(st, id) THEN {} ELSE {id}) \in SUBSET Ids
    BY <1>4
  <2> HIDE DEF st, id
  <2>2. QED
    BY <1>1, <1>2, <2>1 DEF LoopAt, LoopStates, st, id
<1>8. TypeOK'
  BY <1>6, <1>7, TypeParts DEF TypeInv, TypeOK, XAdd, StreamStates, LoopStates
<1>9. CallsInStep'
  BY <1>7 DEF TypeInv, CallsInStep, XAdd, LoopIdle
<1>10. QED
  BY <1>1, <1>3, <1>4, <1>8, <1>9 DEF TypeInv, LoopAt

\* The steps that reply, or end the process, and change nothing else.
Answers ==
  \/ \E s \in Streams : XAddRaces(s)
  \/ \E q \in Ranges : XRange(q[1], q[2], q[3]) \/ XRangeRunsPast(q[1], q[2], q[3])
  \/ \E r \in Readers : \E ask \in Asks[r] : XReadAbsent(r, ask) \/ XRead(r, ask)

LEMMA AnswersKeep ==
  ASSUME Answers
  PROVE  UNCHANGED <<stream, place, loop, call>> /\ (alive' = FALSE \/ alive' = alive)
BY DEF Answers, XAddRaces, XRange, XRangeRunsPast, XReadAbsent, XRead

\* The call of a reader while the loop serves it or its thread runs.
LEMMA CallParts ==
  ASSUME TypeInv, NEW r \in Readers
  PROVE  /\ call[r] \in CallStates
         /\ call[r].ask \in Questions /\ call[r].found \in Seq(SUBSET Ids)
         /\ call[r].eventSet \in BOOLEAN
         /\ \A i \in DOMAIN call[r].ask :
              call[r].ask[i].stream \in Streams /\ call[r].ask[i].from \in Ids
<1>1. call[r] \in CallStates
  BY TypeParts DEF TypeInv
<1>2. call[r].ask \in Questions /\ call[r].found \in Seq(SUBSET Ids) /\ call[r].eventSet \in BOOLEAN
  BY <1>1 DEF CallStates
<1>3. \A i \in DOMAIN call[r].ask : call[r].ask[i] \in [stream : Streams, from : Ids]
  BY <1>2, ElementType DEF Questions
<1>4. QED
  BY <1>1, <1>2, <1>3

LEMMA TypeRegisters ==
  ASSUME TypeInv, Register
  PROVE  TypeInv'
<1> DEFINE r == loop.reader
           q == call[r].ask[loop.i]
<1>1. /\ r \in Readers /\ call[r].pc = "register" /\ loop.i \in DOMAIN call[r].ask
      /\ call[r].ask # <<>> /\ call[r].found = <<>>
  BY DEF TypeInv, CallsInStep, Register
<1>2. q.stream \in Streams /\ q.from \in Ids
  BY <1>1, CallParts
<1>3. place' \in [Streams -> Places]
  BY <1>1, <1>2, TypeParts DEF Register, Places, TypeInv
<1>4. call[r].ask \in Questions /\ DOMAIN call[r].ask = 1 .. Len(call[r].ask) /\ Len(call[r].ask) \in Nat
  <2>1. call[r].ask \in Questions
    BY <1>1, CallParts
  <2>2. QED
    BY <2>1, ElementType DEF Questions
<1>5. CASE loop.i = Len(call[r].ask)
  <2>1. loop' = IdleLoop /\ call' = [call EXCEPT ![r].pc = "waiting"]
    BY <1>5 DEF Register
  <2>2. call' \in [Readers -> CallStates] /\ loop' \in LoopStates
    BY <2>1, <1>1, TypeParts, BlankTypes DEF TypeInv, CallStates
  <2>3. TypeOK'
    BY <1>3, <2>2, TypeParts DEF TypeInv, Register, TypeOK, StreamStates, LoopStates, CallStates, Questions, Places
  <2>4. CallsInStep'
    BY <2>1, <1>1, BlankTypes, TypeParts DEF TypeInv, CallsInStep, CallStates
  <2>5. QED
    BY <2>3, <2>4 DEF TypeInv
<1>6. CASE loop.i # Len(call[r].ask)
  <2>1. loop' = [loop EXCEPT !.i = @ + 1] /\ call' = call
    BY <1>6 DEF Register
  <2>2. loop \in LoopStates
    BY TypeParts DEF TypeInv
  <2>3. loop' \in LoopStates /\ loop'.reader = loop.reader /\ loop'.pc = loop.pc
    BY <2>1, <2>2 DEF LoopStates
  <2>4. loop'.i = loop.i + 1
    BY <2>1, <2>2 DEF LoopStates
  <2>5. loop'.i \in DOMAIN call[r].ask
    BY <2>4, <1>1, <1>4, <1>6
  <2>6. TypeOK'
    BY <1>3, <2>1, <2>3, TypeParts DEF TypeInv, Register, TypeOK, StreamStates, LoopStates, CallStates, Questions, Places
  <2>7. CallsInStep'
    BY <2>1, <2>3, <2>5 DEF TypeInv, CallsInStep
  <2>8. QED
    BY <2>6, <2>7 DEF TypeInv
<1>7. QED
  BY <1>5, <1>6

\* A step that leaves stream, place and loop alone and gives one call a new state.
LEMMA TypeCallStep ==
  ASSUME TypeInv, NEW r \in Readers, NEW new \in CallStates,
         stream' = stream, loop' = loop, alive' = alive,
         place' \in [Streams -> Places],
         call' = [call EXCEPT ![r] = new],
         call[r].pc # "register", new.pc # "register",
         new.pc # "none" => new.ask # <<>>,
         new.pc = "waiting" => new.found = <<>>,
         new.pc = "read" => new.eventSet /\ Len(new.found) < Len(new.ask)
  PROVE  TypeInv'
<1>1. call' \in [Readers -> CallStates]
  BY TypeParts DEF TypeInv
<1>2. TypeOK'
  BY <1>1, TypeParts DEF TypeInv, TypeOK, StreamStates, LoopStates, CallStates, Questions, Places
<1>3. \A x \in Readers : call'[x] = IF x = r THEN new ELSE call[x]
  BY TypeParts DEF TypeInv
<1>4. CallsInStep'
  BY <1>3 DEF TypeInv, CallsInStep
<1>5. QED
  BY <1>2, <1>4 DEF TypeInv

LEMMA TypeThread ==
  ASSUME TypeInv, NEW r \in Readers, ThreadStep(r)
  PROVE  TypeInv'
<1> DEFINE ask == call[r].ask
           found == call[r].found
<1>1. /\ ask \in Questions /\ found \in Seq(SUBSET Ids) /\ call[r] \in CallStates
      /\ DOMAIN ask = 1 .. Len(ask) /\ Len(ask) \in Nat
  <2>1. ask \in Questions /\ found \in Seq(SUBSET Ids) /\ call[r] \in CallStates
    BY CallParts
  <2>2. QED
    BY <2>1, ElementType DEF Questions
<1>2. stream' = stream /\ loop' = loop /\ alive' = alive
  BY DEF ThreadStep, Wake, Timeout, ReadNext, Clear, Send
<1>3. CASE Wake(r)
  <2> DEFINE new == [call[r] EXCEPT !.pc = "read"]
  <2>1. new \in CallStates /\ new.pc = "read" /\ new.ask = ask /\ new.found = found
        /\ new.eventSet = call[r].eventSet
    BY <1>1 DEF CallStates
  <2>2. call[r].pc = "waiting" /\ call[r].eventSet /\ found = <<>> /\ ask # <<>>
    BY <1>3 DEF Wake, ThreadAt, TypeInv, CallsInStep
  <2>3. Len(found) < Len(ask)
    BY <2>2, <1>1 DEF Questions
  <2>4. call' = [call EXCEPT ![r] = new] /\ place' = place
    BY <1>3 DEF Wake
  <2> HIDE DEF new
  <2>5. place' \in [Streams -> Places]
    BY <2>4, TypeParts DEF TypeInv
  <2>6. QED
    BY <1>2, <2>1, <2>2, <2>3, <2>4, <2>5, TypeCallStep
<1>4. CASE Timeout(r)
  <2> DEFINE new == CallAt("clear", FALSE, ask, Nothing(ask))
  <2>1. Nothing(ask) \in Seq(SUBSET Ids)
    <3>1. Nothing(ask) \in [1 .. Len(ask) -> SUBSET Ids]
      BY <1>1 DEF Nothing
    <3>2. QED
      BY <1>1, <3>1, FunctionIsSequence
  <2>2. new \in CallStates /\ new.pc = "clear" /\ new.ask = ask
    BY <1>1, <2>1 DEF CallAt, CallStates
  <2>3. call[r].pc = "waiting" /\ ask # <<>>
    BY <1>4 DEF Timeout, ThreadAt, TypeInv, CallsInStep
  <2>4. call' = [call EXCEPT ![r] = new] /\ place' = place
    BY <1>4 DEF Timeout
  <2> HIDE DEF new
  <2>5. place' \in [Streams -> Places]
    BY <2>4, TypeParts DEF TypeInv
  <2>6. QED
    BY <1>2, <2>2, <2>3, <2>4, <2>5, TypeCallStep
<1>5. CASE ReadNext(r)
  <2> DEFINE q == ask[Len(found) + 1]
             more == Append(found, EntriesAfter(q.stream, q.from))
             new == CallAt(IF Len(more) = Len(ask) THEN "clear" ELSE "read", TRUE, ask, more)
  <2>1. call[r].pc = "read" /\ ask # <<>> /\ Len(found) < Len(ask) /\ Len(found) \in Nat
    BY <1>1, <1>5, ElementType DEF ReadNext, ThreadAt, TypeInv, CallsInStep
  <2>2. q.stream \in Streams /\ q.from \in Ids
    BY <1>1, <2>1, CallParts
  <2>3. stream[q.stream].log \in SUBSET Ids /\ stream \in [Streams -> StreamStates]
    BY <2>2, TypeParts DEF TypeInv, StreamStates
  <2>4. EntriesAfter(q.stream, q.from) \in SUBSET Ids
    BY <2>2, <2>3, EntriesType
  <2>5. more \in Seq(SUBSET Ids) /\ Len(more) = Len(found) + 1
    BY <1>1, <2>4
  <2>6. call' = [call EXCEPT ![r] = new] /\ place' = place
    BY <1>5 DEF ReadNext
  <2> HIDE DEF more
  <2>7. /\ new \in CallStates /\ new.ask = ask /\ new.found = more /\ new.eventSet
        /\ new.pc = IF Len(more) = Len(ask) THEN "clear" ELSE "read"
    BY <1>1, <2>5 DEF CallAt, CallStates
  <2> HIDE DEF new
  <2>8. Len(more) # Len(ask) => Len(more) < Len(ask)
    BY <1>1, <2>1, <2>5
  <2>9. new.pc = "read" => Len(new.found) < Len(new.ask)
    BY <2>7, <2>8
  <2>10. place' \in [Streams -> Places]
    BY <2>6, TypeParts DEF TypeInv
  <2>11. new.pc # "register" /\ new.pc # "waiting"
    BY <2>7
  <2>12. QED
    BY <1>2, <2>1, <2>6, <2>7, <2>9, <2>10, <2>11, TypeCallStep
<1>6. CASE Clear(r)
  <2> DEFINE new == [call[r] EXCEPT !.pc = "send"]
  <2>1. new \in CallStates /\ new.pc = "send" /\ new.ask = ask
    BY <1>1 DEF CallStates
  <2>2. call[r].pc = "clear" /\ ask # <<>>
    BY <1>6 DEF Clear, ThreadAt, TypeInv, CallsInStep
  <2>3. call' = [call EXCEPT ![r] = new] /\ place' = [s \in Streams |-> NoPlace]
    BY <1>6 DEF Clear, Cleared
  <2> HIDE DEF new
  <2>4. place' \in [Streams -> Places]
    BY <2>3, BlankTypes
  <2>5. QED
    BY <1>2, <2>1, <2>2, <2>3, <2>4, TypeCallStep
<1>7. CASE Send(r)
  <2>1. call[r].pc = "send" /\ call' = [call EXCEPT ![r] = NoCall] /\ place' = place
    BY <1>7 DEF Send, ThreadAt
  <2>2. place' \in [Streams -> Places]
    BY <2>1, TypeParts DEF TypeInv
  <2>3. QED
    BY <1>2, <2>1, <2>2, BlankTypes, TypeCallStep
<1>8. QED
  BY <1>3, <1>4, <1>5, <1>6, <1>7 DEF ThreadStep

LEMMA TypeXReadBlocks ==
  ASSUME TypeInv, NEW r \in Readers, NEW ask \in Asks[r], XReadBlocks(r, ask)
  PROVE  TypeInv'
<1> DEFINE new == CallAt("register", FALSE, Resolved(ask), <<>>)
           l == LoopAt("register", SomeStream, Zero, {}, r, 1)
<1>1. Resolved(ask) \in Questions /\ Resolved(ask) # <<>>
  BY ResolvedType, TypeParts DEF TypeInv
<1>2. 1 \in DOMAIN Resolved(ask)
  BY <1>1, ElementType DEF Questions
<1>3. new \in CallStates /\ new.pc = "register" /\ new.ask = Resolved(ask) /\ new.found = <<>>
  BY <1>1 DEF CallAt, CallStates
<1>4. l \in LoopStates /\ l.pc = "register" /\ l.reader = r /\ l.i = 1
  BY StreamsAssumption, ZeroType DEF LoopAt, LoopStates, SomeStream
<1>5. /\ call' = [call EXCEPT ![r] = new] /\ loop' = l
      /\ stream' = stream /\ place' = place /\ alive' = alive
      /\ loop.pc = "idle"
  BY DEF XReadBlocks, CanAsk, LoopIdle
<1> HIDE DEF new, l
<1>6. call' \in [Readers -> CallStates] /\ \A x \in Readers : call'[x] = IF x = r THEN new ELSE call[x]
  BY <1>3, <1>5, TypeParts DEF TypeInv
<1>7. TypeOK'
  BY <1>4, <1>5, <1>6, TypeParts DEF TypeInv, TypeOK, StreamStates, LoopStates, CallStates, Questions, Places
<1>8. CallsInStep'
  BY <1>1, <1>2, <1>3, <1>4, <1>5, <1>6 DEF TypeInv, CallsInStep
<1>9. QED
  BY <1>7, <1>8 DEF TypeInv

\* What Notify does to the calls: it sets at most one flag.
LEMMA NotifySets ==
  ASSUME TypeInv, Notify
  PROVE  /\ TypeInv'
         /\ stream' = stream /\ place' = place /\ loop' = IdleLoop
         /\ loop.pc = "notify" /\ loop.stream \in Streams
         /\ \A x \in Readers :
              /\ call'[x].pc = call[x].pc /\ call'[x].ask = call[x].ask
              /\ call'[x].found = call[x].found
              /\ call[x].eventSet => call'[x].eventSet
              /\ x = place[loop.stream].reader /\ Exceeds(loop.parsed, place[loop.stream].wait)
                   => call'[x].eventSet
<1> DEFINE p == place[loop.stream]
<1>1. /\ stream' = stream /\ place' = place /\ loop' = IdleLoop /\ alive' = alive
      /\ loop.pc = "notify"
  BY DEF Notify
<1>2. loop.stream \in Streams /\ p \in Places /\ call \in [Readers -> CallStates]
  BY TypeParts DEF TypeInv, LoopStates
<1>3. call' = IF p.reader # NoReader /\ Exceeds(loop.parsed, p.wait)
              THEN [call EXCEPT ![p.reader].eventSet = TRUE] ELSE call
  BY DEF Notify
<1>4. /\ call' \in [Readers -> CallStates]
      /\ \A x \in Readers :
           /\ call'[x].pc = call[x].pc /\ call'[x].ask = call[x].ask
           /\ call'[x].found = call[x].found
           /\ call[x].eventSet => call'[x].eventSet
           /\ x = p.reader /\ Exceeds(loop.parsed, p.wait) => call'[x].eventSet
  <2>1. CASE p.reader # NoReader /\ Exceeds(loop.parsed, p.wait)
    <3>1. p.reader \in Readers
      BY <1>2, <2>1 DEF Places
    <3>2. call' = [call EXCEPT ![p.reader].eventSet = TRUE]
      BY <1>3, <2>1
    <3> HIDE DEF p
    <3>3. QED
      BY <1>2, <3>1, <3>2 DEF CallStates
  <2>2. CASE ~(p.reader # NoReader /\ Exceeds(loop.parsed, p.wait))
    BY <1>2, <1>3, <2>2, NoReaderAssumption
  <2>3. QED
    BY <2>1, <2>2
<1>5. TypeOK'
  BY <1>1, <1>4, TypeParts, BlankTypes DEF TypeInv, TypeOK, StreamStates, LoopStates, CallStates, Questions, Places
<1>6. CallsInStep'
  BY <1>1, <1>4, BlankTypes DEF TypeInv, CallsInStep
<1>7. QED
  BY <1>1, <1>2, <1>4, <1>5, <1>6 DEF TypeInv

LEMMA TypeKept ==
  ASSUME TypeInv, stream' = stream, place' = place, loop' = loop, call' = call,
         alive' = FALSE \/ alive' = alive
  PROVE  TypeInv'
<1>1. alive' \in BOOLEAN
  BY Zenon DEF TypeInv, TypeOK
<1>2. TypeOK'
  BY <1>1 DEF TypeInv, TypeOK
<1>3. CallsInStep'
  BY DEF TypeInv, CallsInStep
<1>4. QED
  BY <1>2, <1>3 DEF TypeInv

LEMMA TypeNext == TypeInv /\ [Next]_vars => TypeInv'
<1> SUFFICES ASSUME TypeInv, [Next]_vars PROVE TypeInv'
  OBVIOUS
<1>1. CASE Answers
  <2>1. stream' = stream /\ place' = place /\ loop' = loop /\ call' = call
        /\ (alive' = FALSE \/ alive' = alive)
    BY <1>1, AnswersKeep
  <2>2. QED
    BY <2>1, TypeKept
<1>2. ASSUME NEW s \in Streams, NEW arg \in AddArgs[s], XAdd(s, arg) PROVE TypeInv'
  BY <1>2, TypeXAdd
<1>3. ASSUME NEW r \in Readers, NEW ask \in Asks[r], XReadBlocks(r, ask) PROVE TypeInv'
  BY <1>3, TypeXReadBlocks
<1>4. CASE Notify
  BY <1>4, NotifySets
<1>5. CASE Register
  BY <1>5, TypeRegisters
<1>6. ASSUME NEW r \in Readers, ThreadStep(r) PROVE TypeInv'
  BY <1>6, TypeThread
<1>7. CASE UNCHANGED vars
  <2>1. stream' = stream /\ place' = place /\ loop' = loop /\ call' = call /\ alive' = alive
    BY <1>7 DEF vars
  <2>2. QED
    BY <2>1, TypeKept
<1>8. QED
  BY <1>1, <1>2, <1>3, <1>4, <1>5, <1>6, <1>7 DEF Next, LoopStep, Answers

\* Every state has its type, whatever the width of a number, so that a sequence
\* number that wraps stays one (Stream.cpp:28).
THEOREM TypeCorrect == Spec => []TypeOK
<1>1. TypeInv => TypeOK
  BY DEF TypeInv
<1>2. QED
  BY <1>1, TypeInit, TypeNext, PTL DEF Spec

-----------------------------------------------------------------------------
(* The order of identifiers.                                               *)

TopInv == TypeInv /\ LatestIsTop

\* What XADD adds is above the latest identifier, and so above the others.
LEMMA AddedIsAbove ==
  ASSUME TopInv, NEW s \in Streams, NEW id \in Ids,
         ~Refuses(stream[s], id)
  PROVE  \A x \in stream[s].log : Less(x, id)
<1>1. stream[s].log \in SUBSET Ids /\ stream[s].latest \in Ids
  BY TypeParts DEF TopInv, TypeInv, StreamStates
<1>2. Less(stream[s].latest, id)
  BY DEF Refuses
<1>3. \A x \in stream[s].log : x = stream[s].latest \/ Less(x, stream[s].latest)
  BY DEF TopInv, LatestIsTop
<1>4. ASSUME NEW x \in stream[s].log PROVE Less(x, id)
  <2>1. CASE x = stream[s].latest
    BY <1>2, <2>1
  <2>2. CASE Less(x, stream[s].latest)
    BY <1>1, <1>2, <2>2, LessTransitive
  <2>3. QED
    BY <1>3, <2>1, <2>2
<1>5. QED
  BY <1>4

\* What XADD does to a stream: it refuses, or adds an identifier above all others.
LEMMA XAddEffect ==
  ASSUME TopInv, NEW s \in Streams, NEW arg \in AddArgs[s], XAdd(s, arg)
  PROVE  /\ loop'.stream = s
         /\ \A t \in Streams \ {s} : stream'[t] = stream[t]
         /\ \/ /\ loop'.added = {}
               /\ stream'[s].log = stream[s].log /\ stream'[s].latest = stream[s].latest
            \/ \E id \in Ids :
                 /\ loop'.added = {id}
                 /\ \A x \in stream[s].log : Less(x, id)
                 /\ id # Zero /\ Less(stream[s].latest, id)
                 /\ stream'[s].log = stream[s].log \cup {id} /\ stream'[s].latest = id
<1> DEFINE st == Flagged(stream[s], arg.form)
           id(now) == IdOf(st, arg.id, now)
<1>1. PICK now \in Times :
        /\ st \in StreamStates /\ id(now) \in Ids
        /\ stream' = [stream EXCEPT ![s] = AddEntry(st, id(now))]
        /\ loop'.added = (IF Refuses(st, id(now)) THEN {} ELSE {id(now)})
        /\ loop'.stream = s
  BY TypeXAdd DEF TopInv
<1>2. stream \in [Streams -> StreamStates] /\ arg.form \in ArgForms
  BY TypeParts, AddArgsAssumption DEF TopInv, TypeInv
<1>3. st.log = stream[s].log /\ st.latest = stream[s].latest
  BY <1>2, FlaggedType
<1>4. stream'[s] = AddEntry(st, id(now)) /\ \A t \in Streams \ {s} : stream'[t] = stream[t]
  BY <1>1, <1>2
<1>5. Refuses(st, id(now)) <=> Refuses(stream[s], id(now))
  BY <1>3 DEF Refuses
<1>6. CASE Refuses(st, id(now))
  BY <1>1, <1>3, <1>4, <1>6, AddEntryType
<1>7. CASE ~Refuses(st, id(now))
  <2>1. \A x \in stream[s].log : Less(x, id(now))
    BY <1>1, <1>5, <1>7, AddedIsAbove
  <2>2. stream'[s].log = st.log \cup {id(now)} /\ stream'[s].latest = id(now)
    BY <1>1, <1>4, <1>7, AddEntryType
  <2>3. id(now) # Zero /\ Less(stream[s].latest, id(now))
    BY <1>5, <1>7 DEF Refuses
  <2>4. QED
    BY <1>1, <1>3, <1>4, <1>7, <2>1, <2>2, <2>3
<1>8. QED
  BY <1>6, <1>7

\* The streams change by XADD only.
LEMMA StreamsKept ==
  ASSUME [Next]_vars, ~(\E s \in Streams : \E arg \in AddArgs[s] : XAdd(s, arg))
  PROVE  stream' = stream
<1>1. CASE Answers
  BY <1>1, AnswersKeep
<1>2. ASSUME NEW r \in Readers, ThreadStep(r) PROVE stream' = stream
  BY <1>2 DEF ThreadStep, Wake, Timeout, ReadNext, Clear, Send
<1>3. ASSUME NEW r \in Readers, NEW ask \in Asks[r], XReadBlocks(r, ask) PROVE stream' = stream
  BY <1>3 DEF XReadBlocks
<1>4. CASE LoopStep
  BY <1>4 DEF LoopStep, Notify, Register
<1>5. CASE UNCHANGED vars
  BY <1>5 DEF vars
<1>6. QED
  BY <1>1, <1>2, <1>3, <1>4, <1>5 DEF Next, Answers

LEMMA TopNext == TopInv /\ [Next]_vars => TopInv'
<1> SUFFICES ASSUME TopInv, [Next]_vars PROVE TopInv'
  OBVIOUS
<1>1. TypeInv'
  BY TypeNext DEF TopInv
<1>2. ASSUME NEW s \in Streams, NEW arg \in AddArgs[s], XAdd(s, arg) PROVE LatestIsTop'
  <2>1. /\ \A t \in Streams \ {s} : stream'[t] = stream[t]
        /\ \/ stream'[s].log = stream[s].log /\ stream'[s].latest = stream[s].latest
           \/ \E id \in Ids : /\ \A x \in stream[s].log : Less(x, id)
                              /\ stream'[s].log = stream[s].log \cup {id}
                              /\ stream'[s].latest = id
    BY <1>2, XAddEffect
  <2>2. QED
    BY <2>1 DEF TopInv, LatestIsTop
<1>3. ASSUME stream' = stream PROVE LatestIsTop'
  BY <1>3 DEF TopInv, LatestIsTop
<1>4. LatestIsTop'
  BY <1>2, <1>3, StreamsKept
<1>5. QED
  BY <1>1, <1>4 DEF TopInv

LEMMA TopInit == Init => TopInv
<1>1. Init => LatestIsTop
  BY DEF Init, LatestIsTop, NoStream
<1>2. QED
  BY <1>1, TypeInit DEF TopInv

\* A stream knows its highest identifier, whatever adds were refused and whatever
\* flags they left (Stream.cpp:43-51).
THEOREM LatestStaysTop == Spec => []LatestIsTop
<1>1. TopInv => LatestIsTop
  BY DEF TopInv
<1>2. QED
  BY <1>1, TopInit, TopNext, PTL DEF Spec

LEMMA StepIncreases ==
  ASSUME TopInv, [Next]_vars, loop.pc = "idle", loop'.pc = "notify"
  PROVE  \A id \in loop'.added : \A x \in stream[loop'.stream].log : Less(x, id)
<1>1. ASSUME NEW s \in Streams, NEW arg \in AddArgs[s], XAdd(s, arg)
      PROVE  \A id \in loop'.added : \A x \in stream[loop'.stream].log : Less(x, id)
  <2>1. /\ loop'.stream = s
        /\ \/ loop'.added = {}
           \/ \E id \in Ids : loop'.added = {id} /\ \A x \in stream[s].log : Less(x, id)
    BY <1>1, XAddEffect
  <2>2. QED
    BY <2>1
<1>2. ASSUME Answers PROVE FALSE
  BY <1>2, AnswersKeep
<1>3. ASSUME NEW r \in Readers, ThreadStep(r) PROVE FALSE
  BY <1>3 DEF ThreadStep, Wake, Timeout, ReadNext, Clear, Send
<1>4. ASSUME NEW r \in Readers, NEW ask \in Asks[r], XReadBlocks(r, ask) PROVE FALSE
  BY <1>4 DEF XReadBlocks, LoopAt
<1>5. ASSUME LoopStep PROVE FALSE
  BY <1>5 DEF LoopStep, Notify, Register
<1>6. ASSUME UNCHANGED vars PROVE FALSE
  BY <1>6 DEF vars
<1>7. QED
  BY <1>1, <1>2, <1>3, <1>4, <1>5, <1>6 DEF Next, Answers

\* Every identifier XADD gives out is above all of its stream: written or generated,
\* by any clock, also if the sequence number wraps (Stream.cpp:14-47).
THEOREM IdentifiersIncrease == Spec => IdsIncrease
<1>1. TopInv /\ [Next]_vars =>
        [loop.pc = "idle" /\ loop'.pc = "notify" =>
           \A id \in loop'.added : \A x \in stream[loop'.stream].log : Less(x, id)]_vars
  BY StepIncreases
<1>2. QED
  BY <1>1, TopInit, TopNext, PTL DEF Spec, IdsIncrease

-----------------------------------------------------------------------------
(* Places.                                                                 *)

Held == {"register", "waiting", "read", "clear"}

\* What a thread does to its call and to the places.
LEMMA ThreadEffect ==
  ASSUME TypeInv, NEW r \in Readers, ThreadStep(r)
  PROVE  /\ stream' = stream /\ loop' = loop
         /\ \A x \in Readers \ {r} : call'[x] = call[x]
         /\ \/ place' = [s \in Streams |-> NoPlace]
            \/ place' = place /\ call[r].pc = "send"
            \/ /\ place' = place
               /\ call'[r].pc \in Held /\ call'[r].ask = call[r].ask
               /\ call[r].eventSet => call'[r].eventSet
<1>1. stream' = stream /\ loop' = loop
  BY DEF ThreadStep, Wake, Timeout, ReadNext, Clear, Send
<1>2. call \in [Readers -> CallStates] /\ call[r] \in CallStates
  BY TypeParts DEF TypeInv
<1>3. CASE Wake(r)
  <2>1. call' = [call EXCEPT ![r].pc = "read"] /\ place' = place
    BY <1>3 DEF Wake
  <2>2. QED
    BY <1>1, <1>2, <2>1 DEF CallStates, Held
<1>4. CASE Timeout(r)
  <2>1. /\ call' = [call EXCEPT ![r] = CallAt("clear", FALSE, @.ask, Nothing(@.ask))]
        /\ place' = place /\ ~call[r].eventSet
    BY <1>4 DEF Timeout, TimedOut
  <2>2. QED
    BY <1>1, <1>2, <2>1 DEF CallAt, Held
<1>5. CASE ReadNext(r)
  <2> DEFINE q == call[r].ask[Len(call[r].found) + 1]
             more == Append(call[r].found, EntriesAfter(q.stream, q.from))
             pc == IF Len(more) = Len(call[r].ask) THEN "clear" ELSE "read"
  <2>1. call' = [call EXCEPT ![r] = CallAt(pc, TRUE, @.ask, more)] /\ place' = place
    BY <1>5 DEF ReadNext
  <2>2. pc \in Held
    BY DEF Held
  <2> HIDE DEF more, pc
  <2>3. QED
    BY <1>1, <1>2, <2>1, <2>2 DEF CallAt
<1>6. CASE Clear(r)
  BY <1>1, <1>2, <1>6 DEF Clear, Cleared
<1>7. CASE Send(r)
  BY <1>1, <1>2, <1>7 DEF Send, ThreadAt
<1>8. QED
  BY <1>3, <1>4, <1>5, <1>6, <1>7 DEF ThreadStep

\* The places that are not taken anew keep their reader, if it keeps its call.
LEMMA PlaceKept ==
  ASSUME PlaceInv, place' = place,
         \A r \in Readers : call[r].pc \in Held =>
             call'[r].pc \in Held /\ call'[r].ask = call[r].ask
  PROVE  NoStalePlace'
<1>1. place \in [Streams -> Places]
  BY TypeParts DEF PlaceInv, TypeInv
<1>2. ASSUME NEW s \in Streams, place[s].reader # NoReader
      PROVE  /\ call'[place[s].reader].pc \in Held
             /\ call'[place[s].reader].ask = call[place[s].reader].ask
             /\ \E i \in DOMAIN call[place[s].reader].ask :
                  call[place[s].reader].ask[i] = [stream |-> s, from |-> place[s].wait]
  <2>1. place[s].reader \in Readers
    BY <1>1, <1>2 DEF Places
  <2>2. call[place[s].reader].pc \in Held
    BY <1>2 DEF PlaceInv, NoStalePlace, Held
  <2>3. QED
    BY <1>2, <2>1, <2>2 DEF PlaceInv, NoStalePlace
<1>3. QED
  BY <1>2 DEF NoStalePlace, Held

\* What Register does: one place more, and the call goes on as it was.
LEMMA RegisterEffect ==
  ASSUME TypeInv, Register
  PROVE  /\ loop.pc = "register" /\ loop.reader \in Readers
         /\ call[loop.reader].pc = "register" /\ loop.i \in DOMAIN call[loop.reader].ask
         /\ stream' = stream
         /\ loop'.pc # "notify"
         /\ loop'.pc = "register" => loop'.reader = loop.reader
         /\ \A r \in Readers :
              /\ call'[r].ask = call[r].ask /\ call'[r].eventSet = call[r].eventSet
              /\ call[r].pc \in Held => call'[r].pc \in Held
         /\ \E s \in Streams, from \in Ids :
              /\ call[loop.reader].ask[loop.i] = [stream |-> s, from |-> from]
              /\ place' = [place EXCEPT ![s] = [reader |-> loop.reader, wait |-> from]]
<1> DEFINE r == loop.reader
           q == call[r].ask[loop.i]
<1>1. /\ loop.pc = "register" /\ r \in Readers /\ call[r].pc = "register"
      /\ loop.i \in DOMAIN call[r].ask /\ stream' = stream
  BY DEF TypeInv, CallsInStep, Register
<1>2. call \in [Readers -> CallStates] /\ loop \in LoopStates
  BY TypeParts DEF TypeInv
<1>3. q \in [stream : Streams, from : Ids]
  <2>1. call[r].ask \in Questions
    BY <1>1, CallParts
  <2>2. QED
    BY <1>1, <2>1, ElementType DEF Questions
<1>4. place' = [place EXCEPT ![q.stream] = [reader |-> r, wait |-> q.from]]
  BY DEF Register
<1>5. loop' = IdleLoop \/ loop' = [loop EXCEPT !.i = @ + 1]
  BY DEF Register
<1>6. loop'.pc # "notify" /\ (loop'.pc = "register" => loop'.reader = r)
  BY <1>1, <1>2, <1>5, BlankTypes DEF LoopStates
<1>7. call' = [call EXCEPT ![r].pc = "waiting"] \/ call' = call
  BY DEF Register
<1>8. ASSUME NEW x \in Readers
      PROVE  /\ call'[x].ask = call[x].ask /\ call'[x].eventSet = call[x].eventSet
             /\ call[x].pc \in Held => call'[x].pc \in Held
  BY SMTT(30), <1>1, <1>2, <1>7 DEF CallStates, Held
<1>9. QED
  BY <1>1, <1>3, <1>4, <1>6, <1>8

\* What XREAD does when it blocks: the call of a reader that had none.
LEMMA XReadBlocksEffect ==
  ASSUME TypeInv, NEW r \in Readers, NEW ask \in Asks[r], XReadBlocks(r, ask)
  PROVE  /\ stream' = stream /\ place' = place
         /\ loop.pc = "idle" /\ loop'.pc = "register" /\ loop'.reader = r
         /\ call[r].pc = "none" /\ call'[r].ask = Resolved(ask)
         /\ \A x \in Readers \ {r} : call'[x] = call[x]
<1>1. call \in [Readers -> CallStates]
  BY TypeParts DEF TypeInv
<1>2. QED
  BY <1>1 DEF XReadBlocks, CanAsk, LoopIdle, LoopAt, CallAt

LEMMA PlaceNext == PlaceInv /\ [Next]_vars => PlaceInv'
<1> SUFFICES ASSUME PlaceInv, [Next]_vars PROVE NoStalePlace'
  BY TypeNext DEF PlaceInv
<1> TypeInv
  BY DEF PlaceInv
<1>1. ASSUME place' = place, call' = call PROVE NoStalePlace'
  BY <1>1 DEF PlaceInv, NoStalePlace
<1>2. CASE Answers
  BY <1>1, <1>2, AnswersKeep
<1>3. ASSUME NEW s \in Streams, NEW arg \in AddArgs[s], XAdd(s, arg) PROVE NoStalePlace'
  BY <1>1, <1>3 DEF XAdd
<1>4. ASSUME NEW r \in Readers, NEW ask \in Asks[r], XReadBlocks(r, ask) PROVE NoStalePlace'
  <2>1. \A x \in Readers : call[x].pc \in Held => call'[x] = call[x]
    BY <1>4, XReadBlocksEffect DEF Held
  <2>2. place' = place
    BY <1>4, XReadBlocksEffect
  <2>3. QED
    BY <2>1, <2>2, PlaceKept
<1>5. CASE Notify
  BY <1>5, NotifySets, PlaceKept
<1>6. CASE Register
  <2>1. PICK s \in Streams, from \in Ids :
          /\ call[loop.reader].ask[loop.i] = [stream |-> s, from |-> from]
          /\ place' = [place EXCEPT ![s] = [reader |-> loop.reader, wait |-> from]]
    BY <1>6, RegisterEffect
  <2>2. /\ loop.reader \in Readers /\ call'[loop.reader].pc \in Held
        /\ call'[loop.reader].ask = call[loop.reader].ask
        /\ loop.i \in DOMAIN call[loop.reader].ask
    BY <1>6, RegisterEffect DEF Held
  <2>3. place \in [Streams -> Places]
    BY TypeParts DEF TypeInv
  <2>4. ASSUME NEW t \in Streams, place'[t].reader # NoReader
        PROVE  /\ call'[place'[t].reader].pc \in Held
               /\ \E i \in DOMAIN call'[place'[t].reader].ask :
                    call'[place'[t].reader].ask[i] = [stream |-> t, from |-> place'[t].wait]
    <3>1. CASE t = s
      <4>1. place'[t].reader = loop.reader /\ place'[t].wait = from
        BY <2>1, <2>3, <3>1
      <4>2. QED
        BY <2>1, <2>2, <3>1, <4>1
    <3>2. CASE t # s
      <4>1. place'[t] = place[t] /\ place[t].reader \in Readers
        BY <2>1, <2>3, <2>4, <3>2 DEF Places
      <4>2. /\ call[place[t].reader].pc \in Held
            /\ \E i \in DOMAIN call[place[t].reader].ask :
                 call[place[t].reader].ask[i] = [stream |-> t, from |-> place[t].wait]
        BY <2>4, <4>1 DEF PlaceInv, NoStalePlace, Held
      <4>3. /\ call'[place[t].reader].ask = call[place[t].reader].ask
            /\ call'[place[t].reader].pc \in Held
        BY <1>6, <4>1, <4>2, RegisterEffect
      <4>4. QED
        BY <4>1, <4>2, <4>3
    <3>3. QED
      BY <3>1, <3>2
  <2>5. QED
    BY <2>4 DEF NoStalePlace, Held
<1>7. ASSUME NEW r \in Readers, ThreadStep(r) PROVE NoStalePlace'
  <2>1. CASE place' = [s \in Streams |-> NoPlace]
    BY <2>1 DEF NoStalePlace, NoPlace
  <2>2. CASE place' # [s \in Streams |-> NoPlace]
    <3>1. place' = place
      BY <1>7, <2>2, ThreadEffect
    <3>2. \A x \in Readers : call[x].pc \in Held =>
            call'[x].pc \in Held /\ call'[x].ask = call[x].ask
      BY <1>7, <2>2, ThreadEffect DEF Held
    <3>3. QED
      BY <3>1, <3>2, PlaceKept
  <2>3. QED
    BY <2>1, <2>2
<1>8. CASE UNCHANGED vars
  BY <1>1, <1>8 DEF vars
<1>9. QED
  BY <1>2, <1>3, <1>4, <1>5, <1>6, <1>7, <1>8 DEF Next, LoopStep, Answers

LEMMA PlaceInit == Init => PlaceInv
<1>1. Init => NoStalePlace
  BY DEF Init, NoStalePlace, NoPlace
<1>2. QED
  BY <1>1, TypeInit DEF PlaceInv

\* No waiter outlives its read, however reads of several streams are registered,
\* displaced, timed out and cleared (StreamHandler.cpp:284-334).
THEOREM PlacesAreFresh == Spec => []NoStalePlace
<1>1. PlaceInv => NoStalePlace
  BY DEF PlaceInv
<1>2. QED
  BY <1>1, PlaceInit, PlaceNext, PTL DEF Spec

-----------------------------------------------------------------------------
(* Signals.                                                                *)

\* On a stream whose identifiers are all written, XADD leaves the flags as they were
\* and adds the identifier that was parsed, or nothing.
LEMMA XAddWritten ==
  ASSUME SignalInv, NEW s \in Streams, NEW arg \in AddArgs[s], XAdd(s, arg), WrittenOnly(s)
  PROVE  /\ ~stream'[s].first /\ ~stream'[s].second
         /\ stream'[s].log \subseteq stream[s].log \cup {loop'.parsed}
<1>1. PICK now \in Times :
        LET st == Flagged(stream[s], arg.form)
            id == IdOf(st, arg.id, now)
        IN /\ st \in StreamStates /\ id \in Ids
           /\ stream' = [stream EXCEPT ![s] = AddEntry(st, id)]
           /\ loop'.parsed = arg.id
  BY TypeXAdd DEF SignalInv, PlaceInv
<1>2. stream[s] \in StreamStates /\ stream \in [Streams -> StreamStates]
  BY TypeParts DEF SignalInv, PlaceInv, TypeInv
<1>3. arg.form = "written" /\ ~stream[s].first /\ ~stream[s].second
  BY DEF WrittenOnly, SignalInv, NoFlagSet
<1> DEFINE st == Flagged(stream[s], arg.form)
<1>4. ~st.first /\ ~st.second /\ st.log = stream[s].log
  BY <1>2, <1>3 DEF Flagged, StreamStates
<1>5. IdOf(st, arg.id, now) = arg.id
  BY <1>4 DEF IdOf
<1>6. st \in StreamStates /\ arg.id \in Ids /\ stream'[s] = AddEntry(st, arg.id)
  BY <1>1, <1>2, <1>5
<1> HIDE DEF st
<1>7. /\ ~AddEntry(st, arg.id).first /\ ~AddEntry(st, arg.id).second
      /\ AddEntry(st, arg.id).log \subseteq st.log \cup {arg.id}
  <2>1. CASE Refuses(st, arg.id)
    BY <1>4, <1>6, <2>1, AddEntryType
  <2>2. CASE ~Refuses(st, arg.id)
    BY <1>6, <2>2, AddEntryType
  <2>3. QED
    BY <2>1, <2>2
<1>8. QED
  BY <1>1, <1>4, <1>6, <1>7

\* A call keeps its signal for as long as it holds a place.
LEMMA SignalKept ==
  ASSUME SignalInv, loop.pc # "notify", stream' = stream,
         \A s \in Streams : place'[s] = place[s] \/ place'[s].reader = NoReader,
         \A r \in Readers : call[r].pc \in Held /\ call[r].eventSet => call'[r].eventSet
  PROVE  SignalDue'
<1>1. place \in [Streams -> Places]
  BY TypeParts DEF SignalInv, PlaceInv, TypeInv
<1>2. ASSUME NEW s \in Streams, WrittenOnly(s), place'[s].reader # NoReader,
             NEW x \in stream[s].log, Less(place'[s].wait, x)
      PROVE  call'[place'[s].reader].eventSet
  <2>1. place'[s] = place[s] /\ place[s].reader \in Readers
    BY <1>1, <1>2 DEF Places
  <2>2. call[place[s].reader].eventSet
    BY <1>2, <2>1 DEF SignalInv, SignalDue
  <2>3. call[place[s].reader].pc \in Held
    BY <1>2, <2>1 DEF SignalInv, PlaceInv, NoStalePlace, Held
  <2>4. QED
    BY <2>1, <2>2, <2>3
<1>3. QED
  BY <1>2 DEF SignalDue

\* The step of XADD.
LEMMA SignalXAdd ==
  ASSUME SignalInv, NEW s \in Streams, NEW arg \in AddArgs[s], XAdd(s, arg)
  PROVE  NoFlagSet' /\ NothingWhileRegistering' /\ SignalDue'
<1>1. /\ loop'.pc = "notify" /\ loop'.stream = s /\ loop.pc = "idle"
      /\ place' = place /\ call' = call
  BY TypeXAdd DEF SignalInv, PlaceInv, XAdd, LoopIdle
<1>2. \A t \in Streams \ {s} : stream'[t] = stream[t]
  BY TypeParts DEF SignalInv, PlaceInv, TypeInv, XAdd
<1>3. WrittenOnly(s) =>
        /\ ~stream'[s].first /\ ~stream'[s].second
        /\ stream'[s].log \subseteq stream[s].log \cup {loop'.parsed}
  BY XAddWritten
<1>4. NoFlagSet'
  BY <1>2, <1>3 DEF SignalInv, NoFlagSet, WrittenOnly
<1>5. NothingWhileRegistering'
  BY <1>1 DEF NothingWhileRegistering
<1>6. ASSUME NEW t \in Streams, WrittenOnly(t), place[t].reader # NoReader,
             NEW x \in stream'[t].log, Less(place[t].wait, x)
      PROVE  call[place[t].reader].eventSet \/ (t = s /\ loop'.parsed = x)
  <2>1. x \in stream[t].log \/ (t = s /\ x = loop'.parsed)
    BY <1>2, <1>3, <1>6
  <2>2. QED
    BY <1>1, <1>6, <2>1 DEF SignalInv, SignalDue
<1>7. SignalDue'
  BY <1>1, <1>6 DEF SignalDue, WrittenOnly
<1>8. QED
  BY <1>4, <1>5, <1>7

\* The step that signals.
LEMMA SignalNotify ==
  ASSUME SignalInv, Notify
  PROVE  NothingWhileRegistering' /\ SignalDue'
<1>1. /\ stream' = stream /\ place' = place /\ loop'.pc = "idle"
      /\ \A x \in Readers :
           /\ call[x].eventSet => call'[x].eventSet
           /\ x = place[loop.stream].reader /\ Exceeds(loop.parsed, place[loop.stream].wait)
                => call'[x].eventSet
  BY NotifySets, BlankTypes DEF SignalInv, PlaceInv
<1>2. NothingWhileRegistering'
  BY <1>1 DEF NothingWhileRegistering
<1>3. place \in [Streams -> Places]
  BY TypeParts DEF SignalInv, PlaceInv, TypeInv
<1>4. ASSUME NEW s \in Streams, WrittenOnly(s), place[s].reader # NoReader,
             NEW x \in stream[s].log, Less(place[s].wait, x)
      PROVE  call'[place[s].reader].eventSet
  <2>1. \/ call[place[s].reader].eventSet
        \/ loop.stream = s /\ loop.parsed = x
    BY <1>4 DEF SignalInv, SignalDue
  <2>2. place[s].reader \in Readers
    BY <1>3, <1>4 DEF Places
  <2>3. loop.stream = s /\ loop.parsed = x => Exceeds(loop.parsed, place[loop.stream].wait)
    BY <1>4 DEF Exceeds
  <2>4. QED
    BY <1>1, <2>1, <2>2, <2>3
<1>5. SignalDue'
  BY <1>1, <1>4 DEF SignalDue, WrittenOnly
<1>6. QED
  BY <1>2, <1>5

\* The step that gives a place.
LEMMA SignalRegister ==
  ASSUME SignalInv, Register
  PROVE  NothingWhileRegistering' /\ SignalDue'
<1> TypeInv
  BY DEF SignalInv, PlaceInv
<1> DEFINE r == loop.reader
<1>1. /\ loop.pc = "register" /\ r \in Readers /\ loop.i \in DOMAIN call[r].ask
      /\ stream' = stream
      /\ loop'.pc = "register" => loop'.reader = r
      /\ \A x \in Readers : call'[x].ask = call[x].ask /\ call'[x].eventSet = call[x].eventSet
  BY RegisterEffect
<1>2. NothingWhileRegistering'
  BY <1>1 DEF SignalInv, NothingWhileRegistering, EntriesAfter
<1>3. PICK s \in Streams, from \in Ids :
        /\ call[r].ask[loop.i] = [stream |-> s, from |-> from]
        /\ place' = [place EXCEPT ![s] = [reader |-> r, wait |-> from]]
  BY RegisterEffect
<1>4. stream \in [Streams -> StreamStates] /\ place \in [Streams -> Places]
  BY TypeParts DEF TypeInv
<1>5. {x \in stream[s].log : Less(from, x)} = {}
  <2>1. EntriesAfter(s, from) = {}
    BY <1>1, <1>3 DEF SignalInv, NothingWhileRegistering
  <2>2. QED
    BY <1>4, <2>1, EntriesType
<1>6. ASSUME NEW t \in Streams, WrittenOnly(t), place'[t].reader # NoReader,
             NEW x \in stream[t].log, Less(place'[t].wait, x)
      PROVE  call'[place'[t].reader].eventSet
  <2>1. t # s
    BY <1>3, <1>4, <1>5, <1>6
  <2>2. place'[t] = place[t] /\ place[t].reader \in Readers
    BY <1>3, <1>4, <1>6, <2>1 DEF Places
  <2>3. call[place[t].reader].eventSet
    BY <1>1, <1>6, <2>2 DEF SignalInv, SignalDue
  <2>4. QED
    BY <1>1, <2>2, <2>3
<1>7. SignalDue'
  BY <1>1, <1>6 DEF SignalDue, WrittenOnly
<1>8. QED
  BY <1>2, <1>7

\* The step that finds nothing and blocks.
LEMMA SignalBlocks ==
  ASSUME SignalInv, NEW r \in Readers, NEW ask \in Asks[r], XReadBlocks(r, ask)
  PROVE  NothingWhileRegistering' /\ SignalDue'
<1>1. /\ stream' = stream /\ place' = place /\ loop.pc = "idle" /\ loop'.reader = r
      /\ call[r].pc = "none" /\ call'[r].ask = Resolved(ask)
      /\ \A x \in Readers \ {r} : call'[x] = call[x]
  BY XReadBlocksEffect DEF SignalInv, PlaceInv
<1>2. ASSUME NEW i \in DOMAIN Resolved(ask)
      PROVE  EntriesAfter(Resolved(ask)[i].stream, Resolved(ask)[i].from) = {}
  <2>1. FoundNow(Resolved(ask)) = Nothing(ask) /\ i \in DOMAIN ask
    BY DEF XReadBlocks, Resolved
  <2>2. Nothing(ask)[i] = {}
    BY <2>1 DEF Nothing
  <2>3. FoundNow(Resolved(ask))[i] = {}
    BY <2>1, <2>2
  <2>4. QED
    BY <2>3 DEF FoundNow
<1>3. NothingWhileRegistering'
  BY <1>1, <1>2 DEF NothingWhileRegistering, EntriesAfter
<1>4. \A x \in Readers : call[x].pc \in Held /\ call[x].eventSet => call'[x].eventSet
  BY <1>1 DEF Held
<1>5. SignalDue'
  BY <1>1, <1>4, SignalKept
<1>6. QED
  BY <1>3, <1>5

\* The step of a thread: not of the one that is being set up.
LEMMA SignalThread ==
  ASSUME SignalInv, NEW r \in Readers, ThreadStep(r)
  PROVE  NothingWhileRegistering' /\ SignalDue'
<1> TypeInv
  BY DEF SignalInv, PlaceInv
<1>1. stream' = stream /\ loop' = loop /\ \A x \in Readers \ {r} : call'[x] = call[x]
  BY ThreadEffect
<1>2. call[r].pc # "register"
  BY DEF ThreadStep, Wake, Timeout, ReadNext, Clear, Send, ThreadAt
<1>3. NothingWhileRegistering'
  <2>1. loop.pc = "register" => loop.reader \in Readers \ {r}
    BY <1>2 DEF TypeInv, CallsInStep
  <2>2. QED
    BY <1>1, <2>1 DEF SignalInv, NothingWhileRegistering, EntriesAfter
<1>4. SignalDue'
  <2>1. ASSUME NEW s \in Streams, WrittenOnly(s), place'[s].reader # NoReader,
               NEW x \in stream[s].log, Less(place'[s].wait, x)
        PROVE  \/ call'[place'[s].reader].eventSet
               \/ loop.pc = "notify" /\ loop.stream = s /\ loop.parsed = x
    <3>1. place' = place /\ (call[r].pc \in Held /\ call[r].eventSet => call'[r].eventSet)
      BY <2>1, ThreadEffect DEF NoPlace, Held
    <3>2. \/ call[place[s].reader].eventSet
          \/ loop.pc = "notify" /\ loop.stream = s /\ loop.parsed = x
      BY <2>1, <3>1 DEF SignalInv, SignalDue
    <3>3. place[s].reader \in Readers /\ call[place[s].reader].pc \in Held
      BY <2>1, <3>1, TypeParts DEF SignalInv, PlaceInv, TypeInv, NoStalePlace, Places, Held
    <3>4. QED
      BY <1>1, <3>1, <3>2, <3>3
  <2>2. QED
    BY <1>1, <2>1 DEF SignalDue, WrittenOnly
<1>5. QED
  BY <1>3, <1>4

LEMMA SignalNext == SignalInv /\ [Next]_vars => SignalInv'
<1> SUFFICES ASSUME SignalInv, [Next]_vars
             PROVE  NoFlagSet' /\ NothingWhileRegistering' /\ SignalDue'
  BY PlaceNext DEF SignalInv
<1>1. ASSUME stream' = stream PROVE NoFlagSet'
  BY <1>1 DEF SignalInv, NoFlagSet, WrittenOnly
<1>2. ASSUME stream' = stream, place' = place, loop' = loop, call' = call
      PROVE  NothingWhileRegistering' /\ SignalDue'
  BY <1>2 DEF SignalInv, NothingWhileRegistering, SignalDue, EntriesAfter, WrittenOnly
<1>3. CASE \E s \in Streams : \E arg \in AddArgs[s] : XAdd(s, arg)
  BY <1>3, SignalXAdd
<1>4. CASE ~(\E s \in Streams : \E arg \in AddArgs[s] : XAdd(s, arg))
  <2>1. NoFlagSet'
    BY <1>1, <1>4, StreamsKept
  <2>2. CASE Answers
    BY <1>2, <2>1, <2>2, AnswersKeep
  <2>3. ASSUME NEW r \in Readers, NEW ask \in Asks[r], XReadBlocks(r, ask)
        PROVE  NothingWhileRegistering' /\ SignalDue'
    BY <2>3, SignalBlocks
  <2>4. CASE LoopStep
    BY <2>1, <2>4, SignalNotify, SignalRegister DEF LoopStep
  <2>5. ASSUME NEW r \in Readers, ThreadStep(r)
        PROVE  NothingWhileRegistering' /\ SignalDue'
    BY <2>5, SignalThread
  <2>6. CASE UNCHANGED vars
    BY <1>2, <2>1, <2>6 DEF vars
  <2>7. QED
    BY <1>4, <2>1, <2>2, <2>3, <2>4, <2>5, <2>6 DEF Next, Answers
<1>5. QED
  BY <1>3, <1>4

LEMMA SignalInit == Init => SignalInv
<1>1. Init => NoFlagSet /\ NothingWhileRegistering /\ SignalDue
  BY BlankTypes DEF Init, NoFlagSet, NothingWhileRegistering, SignalDue, NoStream, NoPlace
<1>2. QED
  BY <1>1, PlaceInit DEF SignalInv

\* No entry slips between the check for entries and the registration of the waiter:
\* on a stream of written identifiers, the holder of the place is signalled as soon
\* as XADD returns, for all readers and requests (StreamHandler.cpp:98-122, 284-299).
THEOREM HoldersAreSignalled == Spec => []HolderIsSignalled
<1>1. SignalInv => HolderIsSignalled
  BY DEF SignalInv, SignalDue, HolderIsSignalled
<1>2. QED
  BY <1>1, SignalInit, SignalNext, PTL DEF Spec

-----------------------------------------------------------------------------
(* XRANGE.                                                                 *)

\* The branches of GetEntriesInRange between two bounds.
LEMMA BranchesOmitNothing ==
  ASSUME NEW x1 \in Nat, NEW x2 \in Nat, NEW f1 \in Nat, NEW f2 \in Nat, NEW t1 \in Nat, NEW t2 \in Nat,
         ~(x1 < f1 \/ (x1 = f1 /\ x2 < f2)),
         (t1 = 0 /\ t2 = 0) \/ ~(t1 < x1 \/ (t1 = x1 /\ t2 < x2))
  PROVE  /\ f1 = 0 \/ x1 >= f1
         /\ t1 = 0 \/ x1 <= t1
         /\ x1 = f1 => x2 >= f2
         /\ x1 = t1 /\ t2 # 0 => x2 <= t2
OBVIOUS

LEMMA RangeHasAll ==
  ASSUME NEW log \in SUBSET Ids, NEW from \in Ids, NEW to \in Ids, NEW x \in log,
         ~Less(x, from), to = Zero \/ ~Less(to, x)
  PROVE  x \in EntriesInRange(log, from, to, FALSE)
<1>1. /\ x[1] \in Nat /\ x[2] \in Nat /\ from[1] \in Nat /\ from[2] \in Nat
      /\ to[1] \in Nat /\ to[2] \in Nat
  BY IdParts, WordAssumption DEF Numbers
<1>2. /\ ~(x[1] < from[1] \/ (x[1] = from[1] /\ x[2] < from[2]))
      /\ (to[1] = 0 /\ to[2] = 0) \/ ~(to[1] < x[1] \/ (to[1] = x[1] /\ to[2] < x[2]))
  BY DEF Less, Zero
<1>3. /\ from[1] = 0 \/ x[1] >= from[1]
      /\ to[1] = 0 \/ x[1] <= to[1]
      /\ x[1] = from[1] => x[2] >= from[2]
      /\ x[1] = to[1] /\ to[2] # 0 => x[2] <= to[2]
  BY <1>1, <1>2, BranchesOmitNothing
<1>4. QED
  BY <1>3 DEF EntriesInRange, UpTo, Skips

LEMMA OutParts ==
  /\ NoOut.kind = "none"
  /\ \A r, ask, found : /\ ReadReply(r, ask, found).kind = "read"
                        /\ ReadReply(r, ask, found).of = <<r, ask>>
                        /\ ReadReply(r, ask, found).found = found
BY DEF NoOut, ReadReply, Out

\* XRANGE leaves out no entry between its bounds, whatever the stream and the bounds.
THEOREM RangesAreWhole == Spec => []RangeOmitsNothing
<1> DEFINE RangeInv == TypeInv /\ RangeOmitsNothing
<1>1. Init => RangeInv
  BY TypeInit DEF Init, RangeOmitsNothing, NoOut, Out
<1>2. RangeInv /\ [Next]_vars => RangeInv'
  <2> SUFFICES ASSUME TypeInv, RangeOmitsNothing, [Next]_vars PROVE RangeOmitsNothing'
    BY TypeNext
  <2>1. ASSUME NEW q \in Ranges, XRange(q[1], q[2], q[3]) PROVE RangeOmitsNothing'
    <3>1. PICK s \in Streams, from \in Ids, to \in Ids : s = q[1] /\ from = q[2] /\ to = q[3]
      BY RangesAssumption
    <3> DEFINE found == EntriesInRange(stream[s].log, from, to, FALSE)
    <3>2. stream[s].log \in SUBSET Ids
      BY TypeParts DEF TypeInv, StreamStates
    <3>3. out' = Out("range", <<s, from, to>>, <<found>>) /\ stream' = stream
      BY <2>1, <3>1 DEF XRange
    <3>4. \A x \in stream[s].log : ~Less(x, from) /\ (to = Zero \/ ~Less(to, x)) => x \in found
      BY <3>2, RangeHasAll
    <3> HIDE DEF found
    <3>5. QED
      BY <3>3, <3>4 DEF RangeOmitsNothing, Out
  <2>2. CASE UNCHANGED vars
    BY <2>2 DEF vars, RangeOmitsNothing
  <2>3. ASSUME out'.kind # "range" PROVE RangeOmitsNothing'
    BY <2>3 DEF RangeOmitsNothing
  <2>4. ASSUME NEW s \in Streams, XAddRaces(s) \/ \E arg \in AddArgs[s] : XAdd(s, arg)
        PROVE  out'.kind # "range"
    BY <2>4 DEF XAddRaces, XAdd, NoOut, Out
  <2>5. ASSUME NEW q \in Ranges, XRangeRunsPast(q[1], q[2], q[3]) PROVE out'.kind # "range"
    BY <2>5 DEF XRangeRunsPast, NoOut, Out
  <2>6. ASSUME NEW r \in Readers, NEW ask \in Asks[r],
               XReadAbsent(r, ask) \/ XRead(r, ask) \/ XReadBlocks(r, ask)
        PROVE  out'.kind # "range"
    BY <2>6, OutParts DEF XReadAbsent, XRead, XReadBlocks
  <2>7. ASSUME LoopStep PROVE out'.kind # "range"
    BY <2>7 DEF LoopStep, Notify, Register, NoOut, Out
  <2>8. ASSUME NEW r \in Readers, ThreadStep(r) PROVE out'.kind # "range"
    <3>1. CASE Send(r)
      BY <3>1, OutParts DEF Send
    <3>2. CASE Wake(r) \/ Timeout(r) \/ ReadNext(r) \/ Clear(r)
      <4>1. out' = NoOut
        BY <3>2 DEF Wake, Timeout, ReadNext, Clear
      <4>2. QED
        BY <4>1, OutParts
    <3>3. QED
      BY <2>8, <3>1, <3>2 DEF ThreadStep
  <2>9. QED
    BY <2>1, <2>2, <2>3, <2>4, <2>5, <2>6, <2>7, <2>8 DEF Next
<1>3. RangeInv => RangeOmitsNothing
  OBVIOUS
<1>4. QED
  BY <1>1, <1>2, <1>3, PTL DEF Spec

-----------------------------------------------------------------------------
(* What a thread finds, stream by stream.                                  *)

LEMMA LessTotal ==
  ASSUME NEW x \in Ids, NEW y \in Ids
  PROVE  /\ ~Less(x, y) <=> x = y \/ Less(y, x)
         /\ ~Less(x, x)
         /\ ~Less(x, Zero)
<1>1. x = y <=> x[1] = y[1] /\ x[2] = y[2]
  BY IdParts
<1>2. QED
  BY <1>1, IdParts DEF Less, Zero

\* An entry that is added lies above whatever a thread has read up to.
LEMMA GapFreeStays ==
  ASSUME NEW st \in StreamStates, NEW new \in StreamStates, NEW from \in Ids, NEW found,
         GapFree(st, from, found),
         \/ new.log = st.log /\ new.latest = st.latest
         \/ \E id \in Ids : Less(st.latest, id) /\ new.log = st.log \cup {id} /\ new.latest = id
  PROVE  GapFree(new, from, found)
<1>1. PICK upto \in Ids : ~Less(st.latest, upto) /\ found = Between(st.log, from, upto)
  BY DEF GapFree
<1>2. CASE new.log = st.log /\ new.latest = st.latest
  BY <1>1, <1>2 DEF GapFree
<1>3. ASSUME NEW id \in Ids, Less(st.latest, id), new.log = st.log \cup {id}, new.latest = id
      PROVE  GapFree(new, from, found)
  <2>1. st.latest \in Ids
    BY DEF StreamStates
  <2>2. upto = st.latest \/ Less(upto, st.latest)
    BY <1>1, <2>1, LessTotal
  <2>3. Less(upto, id)
    BY <1>3, <2>1, <2>2, LessTransitive
  <2>4. ~Less(id, upto)
    BY <2>3, LessTotal
  <2>5. Between(new.log, from, upto) = Between(st.log, from, upto)
    BY <1>3, <2>3 DEF Between
  <2>6. QED
    BY <1>1, <1>3, <2>4, <2>5 DEF GapFree
<1>4. QED
  BY <1>2, <1>3

\* Everything after the start, read now.
LEMMA GapFreeNow ==
  ASSUME NEW st \in StreamStates, NEW from \in Ids, NEW found, found = {x \in st.log : Less(from, x)},
         \A x \in st.log : x = st.latest \/ Less(x, st.latest)
  PROVE  GapFree(st, from, found)
<1>1. st.latest \in Ids /\ st.log \in SUBSET Ids
  BY DEF StreamStates
<1>2. \A x \in st.log : ~Less(st.latest, x)
  BY <1>1, LessTotal
<1>3. ~Less(st.latest, st.latest)
  BY <1>1, LessTotal
<1>4. QED
  BY <1>1, <1>2, <1>3 DEF GapFree, Between

\* Nothing at all, when the wait has ended by its timeout.
LEMMA GapFreeNothing ==
  ASSUME NEW st \in StreamStates, NEW from \in Ids
  PROVE  GapFree(st, from, {})
<1>1. st.latest \in Ids /\ st.log \in SUBSET Ids
  BY DEF StreamStates
<1>2. ASSUME NEW x \in st.log, Less(from, x) PROVE Less(Zero, x)
  <2>1. from = Zero \/ Less(Zero, from)
    BY ZeroType, LessTotal
  <2>2. QED
    BY <1>1, <1>2, <2>1, ZeroType, LessTransitive
<1>3. ~Less(st.latest, Zero)
  BY <1>1, LessTotal
<1>4. Between(st.log, from, Zero) = {}
  BY <1>2 DEF Between
<1>5. QED
  BY <1>3, <1>4, ZeroType DEF GapFree

LEMMA FoundParts ==
  ASSUME ServiceInv, NEW r \in Readers
  PROVE  /\ DOMAIN call[r].ask = 1 .. Len(call[r].ask) /\ Len(call[r].ask) \in Nat
         /\ DOMAIN call[r].found = 1 .. Len(call[r].found) /\ Len(call[r].found) \in Nat
         /\ Len(call[r].found) <= Len(call[r].ask)
         /\ \A i \in DOMAIN call[r].found :
              /\ i \in DOMAIN call[r].ask
              /\ stream[call[r].ask[i].stream] \in StreamStates
              /\ call[r].ask[i].from \in Ids
<1>1. /\ call[r].ask \in Questions /\ call[r].found \in Seq(SUBSET Ids) /\ call[r] \in CallStates
      /\ \A i \in DOMAIN call[r].ask :
              call[r].ask[i].stream \in Streams /\ call[r].ask[i].from \in Ids
  BY CallParts DEF ServiceInv
<1>2. /\ DOMAIN call[r].ask = 1 .. Len(call[r].ask) /\ Len(call[r].ask) \in Nat
      /\ DOMAIN call[r].found = 1 .. Len(call[r].found) /\ Len(call[r].found) \in Nat
  BY <1>1, ElementType DEF Questions
<1>3. Len(call[r].found) <= Len(call[r].ask)
  <2>1. CASE call[r].pc \in {"none", "register", "waiting"}
    <3>1. call[r].found = <<>>
      BY <2>1 DEF ServiceInv, TypeInv, CallsInStep, CallsComplete
    <3>2. Len(call[r].found) = 0
      BY <3>1
    <3>3. QED
      BY <1>2, <3>2
  <2>2. CASE call[r].pc \in {"read", "clear", "send"}
    BY <1>2, <2>2 DEF ServiceInv, TypeInv, CallsInStep, CallsComplete
  <2>3. QED
    BY <1>1, <2>1, <2>2 DEF CallStates
<1>4. \A s \in Streams : stream[s] \in StreamStates
  BY TypeParts DEF ServiceInv, TypeInv
<1>5. QED
  BY <1>1, <1>2, <1>3, <1>4

\* A step that leaves the calls' questions and findings alone.
LEMMA FindingsKept ==
  ASSUME ServiceInv, TypeInv', LatestIsTop', stream' = stream,
         \A x \in Readers : /\ call'[x].pc = call[x].pc \/ (call[x].pc = "register" /\ call'[x].pc = "waiting")
                            /\ call'[x].ask = call[x].ask /\ call'[x].found = call[x].found
  PROVE  ServiceInv'
<1>1. CallsComplete'
  BY DEF ServiceInv, CallsComplete
<1>2. FoundWithoutGap'
  BY DEF ServiceInv, FoundWithoutGap
<1>3. QED
  BY <1>1, <1>2 DEF ServiceInv

\* A step of one call.
LEMMA FindingsOfOne ==
  ASSUME ServiceInv, TypeInv', LatestIsTop', stream' = stream, NEW r \in Readers,
         NEW new, call' = [call EXCEPT ![r] = new],
         new.pc = "none" => new.ask = <<>> /\ new.found = <<>>,
         new.pc \in {"clear", "send"} => Len(new.found) = Len(new.ask),
         \A i \in DOMAIN new.found : GapFree(stream[new.ask[i].stream], new.ask[i].from, new.found[i])
  PROVE  ServiceInv'
<1>1. call'[r] = new /\ \A x \in Readers : x # r => call'[x] = call[x]
  BY TypeParts DEF ServiceInv, TypeInv
<1>2. CallsComplete'
  BY <1>1 DEF ServiceInv, CallsComplete
<1>3. FoundWithoutGap'
  BY <1>1 DEF ServiceInv, FoundWithoutGap
<1>4. QED
  BY <1>2, <1>3 DEF ServiceInv

LEMMA ServiceThread ==
  ASSUME ServiceInv, TypeInv', LatestIsTop', NEW r \in Readers, ThreadStep(r)
  PROVE  ServiceInv'
<1> DEFINE ask == call[r].ask
           found == call[r].found
           Kept(new) == /\ new.pc # "none" /\ new.ask = ask /\ new.found = found
                        /\ new.pc \in {"clear", "send"} => Len(found) = Len(ask)
<1>1. /\ stream' = stream /\ call[r] \in CallStates /\ ask \in Questions
      /\ DOMAIN ask = 1 .. Len(ask) /\ Len(ask) \in Nat
      /\ DOMAIN found = 1 .. Len(found) /\ Len(found) \in Nat /\ Len(found) <= Len(ask)
      /\ \A i \in DOMAIN ask : /\ stream[ask[i].stream] \in StreamStates /\ ask[i].from \in Ids
                               /\ ask[i].stream \in Streams
  <2>1. stream' = stream
    BY DEF ThreadStep, Wake, Timeout, ReadNext, Clear, Send
  <2>2. call[r] \in CallStates /\ ask \in Questions
        /\ \A i \in DOMAIN ask : ask[i].stream \in Streams /\ ask[i].from \in Ids
    BY CallParts DEF ServiceInv
  <2>3. \A s \in Streams : stream[s] \in StreamStates
    BY TypeParts DEF ServiceInv, TypeInv
  <2>4. QED
    BY <2>1, <2>2, <2>3, FoundParts
<1>2. \A i \in DOMAIN found : GapFree(stream[ask[i].stream], ask[i].from, found[i])
  BY DEF ServiceInv, FoundWithoutGap
<1>3. ASSUME NEW new, call' = [call EXCEPT ![r] = new], Kept(new) PROVE ServiceInv'
  BY <1>1, <1>2, <1>3, FindingsOfOne
<1>4. CASE Wake(r)
  <2> DEFINE new == [call[r] EXCEPT !.pc = "read"]
  <2>1. call' = [call EXCEPT ![r] = new]
    BY <1>4 DEF Wake
  <2>2. new.pc = "read" /\ new.ask = ask /\ new.found = found
    BY <1>1 DEF CallStates
  <2> HIDE DEF new
  <2>3. QED
    BY <1>3, <2>1, <2>2
<1>5. CASE Timeout(r)
  <2> DEFINE new == CallAt("clear", FALSE, ask, Nothing(ask))
  <2>1. call' = [call EXCEPT ![r] = new]
    BY <1>5 DEF Timeout
  <2>2. new.pc = "clear" /\ new.ask = ask /\ new.found = Nothing(ask)
    BY DEF CallAt
  <2>3. /\ Nothing(ask) = [i \in 1 .. Len(ask) |-> {}] /\ DOMAIN Nothing(ask) = DOMAIN ask
        /\ \A i \in DOMAIN ask : Nothing(ask)[i] = {}
    BY <1>1 DEF Nothing
  <2>4. Len(Nothing(ask)) = Len(ask)
    BY <1>1, <2>3
  <2>5. \A i \in DOMAIN ask : GapFree(stream[ask[i].stream], ask[i].from, {})
    BY <1>1, GapFreeNothing
  <2> HIDE DEF new
  <2>6. QED
    BY <1>1, <2>1, <2>2, <2>3, <2>4, <2>5, FindingsOfOne
<1>6. CASE ReadNext(r)
  <2> DEFINE n == Len(found) + 1
             f == EntriesAfter(ask[n].stream, ask[n].from)
             all == Append(found, f)
             new == CallAt(IF Len(all) = Len(ask) THEN "clear" ELSE "read", TRUE, ask, all)
  <2>1. call' = [call EXCEPT ![r] = new] /\ call[r].pc = "read"
    BY <1>6 DEF ReadNext, ThreadAt
  <2>2. new.pc \in {"read", "clear"} /\ (new.pc = "clear" => Len(all) = Len(ask))
        /\ new.ask = ask /\ new.found = all
    BY DEF CallAt
  <2>3. n \in DOMAIN ask
    <3>1. Len(found) < Len(ask)
      BY <2>1 DEF ServiceInv, TypeInv, CallsInStep
    <3>2. QED
      BY <1>1, <3>1
  <2>4. GapFree(stream[ask[n].stream], ask[n].from, f)
    <3>1. f = {x \in stream[ask[n].stream].log : Less(ask[n].from, x)}
      BY <1>1, <2>3, EntriesType, TypeParts DEF ServiceInv, TypeInv
    <3>2. \A x \in stream[ask[n].stream].log :
            x = stream[ask[n].stream].latest \/ Less(x, stream[ask[n].stream].latest)
      BY <1>1, <2>3 DEF ServiceInv, LatestIsTop
    <3>3. QED
      BY <1>1, <2>3, <3>1, <3>2, GapFreeNow
  <2>5. found \in Seq(SUBSET Ids)
    BY CallParts DEF ServiceInv
  <2> HIDE DEF f, new
  <2>6. /\ DOMAIN all = 1 .. n /\ all[n] = f
        /\ \A i \in 1 .. Len(found) : all[i] = found[i]
    BY <2>5
  <2>7. \A i \in DOMAIN all : GapFree(stream[ask[i].stream], ask[i].from, all[i])
    BY <1>1, <1>2, <2>4, <2>6
  <2> HIDE DEF all
  <2>8. QED
    BY <1>1, <2>1, <2>2, <2>7, FindingsOfOne
<1>7. CASE Clear(r)
  <2> DEFINE new == [call[r] EXCEPT !.pc = "send"]
  <2>1. call' = [call EXCEPT ![r] = new] /\ call[r].pc = "clear"
    BY <1>7 DEF Clear, ThreadAt
  <2>2. new.pc = "send" /\ new.ask = ask /\ new.found = found
    BY <1>1 DEF CallStates
  <2>3. Len(found) = Len(ask)
    BY <2>1 DEF ServiceInv, CallsComplete
  <2> HIDE DEF new
  <2>4. QED
    BY <1>3, <2>1, <2>2, <2>3
<1>8. CASE Send(r)
  <2>1. NoCall.pc = "none" /\ NoCall.ask = <<>> /\ NoCall.found = <<>>
    BY DEF NoCall, CallAt
  <2>2. DOMAIN NoCall.found = {}
    BY <2>1
  <2>3. call' = [call EXCEPT ![r] = NoCall]
    BY <1>8 DEF Send
  <2>4. QED
    BY <1>1, <2>1, <2>2, <2>3, FindingsOfOne
<1>9. QED
  BY <1>4, <1>5, <1>6, <1>7, <1>8 DEF ThreadStep

LEMMA ServiceInvNext == ServiceInv /\ [Next]_vars => ServiceInv'
<1> SUFFICES ASSUME ServiceInv, [Next]_vars PROVE ServiceInv'
  OBVIOUS
<1>1. TypeInv' /\ LatestIsTop' /\ TopInv
  BY TopNext DEF TopInv, ServiceInv
<1>2. ASSUME UNCHANGED <<stream, call>> PROVE ServiceInv'
  BY <1>1, <1>2, FindingsKept
<1>3. CASE Answers
  BY <1>2, <1>3, AnswersKeep
<1>4. ASSUME NEW s \in Streams, NEW arg \in AddArgs[s], XAdd(s, arg) PROVE ServiceInv'
  <2>1. call' = call
    BY <1>4 DEF XAdd
  <2>2. \A t \in Streams :
          \/ stream'[t].log = stream[t].log /\ stream'[t].latest = stream[t].latest
          \/ \E id \in Ids : /\ Less(stream[t].latest, id)
                             /\ stream'[t].log = stream[t].log \cup {id} /\ stream'[t].latest = id
    BY <1>1, <1>4, XAddEffect
  <2>3. \A t \in Streams : stream[t] \in StreamStates /\ stream'[t] \in StreamStates
    BY <1>1, TypeParts DEF TypeInv, TopInv, TypeOK, StreamStates
  <2>4. ASSUME NEW r \in Readers, NEW i \in DOMAIN call[r].found
        PROVE  GapFree(stream'[call[r].ask[i].stream], call[r].ask[i].from, call[r].found[i])
    <3>1. call[r].ask[i].stream \in Streams /\ call[r].ask[i].from \in Ids
      BY FoundParts, CallParts DEF ServiceInv
    <3>2. GapFree(stream[call[r].ask[i].stream], call[r].ask[i].from, call[r].found[i])
      BY DEF ServiceInv, FoundWithoutGap
    <3>3. QED
      BY <2>2, <2>3, <3>1, <3>2, GapFreeStays
  <2>5. FoundWithoutGap'
    BY <2>1, <2>4 DEF FoundWithoutGap
  <2>6. CallsComplete'
    BY <2>1 DEF ServiceInv, CallsComplete
  <2>7. QED
    BY <1>1, <2>5, <2>6 DEF ServiceInv
<1>5. ASSUME NEW r \in Readers, NEW ask \in Asks[r], XReadBlocks(r, ask) PROVE ServiceInv'
  <2> DEFINE new == CallAt("register", FALSE, Resolved(ask), <<>>)
  <2>1. new.pc = "register" /\ new.found = <<>>
    BY DEF CallAt
  <2>2. call' = [call EXCEPT ![r] = new] /\ stream' = stream
    BY <1>5 DEF XReadBlocks
  <2> HIDE DEF new
  <2>3. DOMAIN new.found = {}
    BY <2>1
  <2>4. QED
    BY <1>1, <2>1, <2>2, <2>3, FindingsOfOne
<1>6. CASE Notify
  BY <1>1, <1>6, NotifySets, FindingsKept DEF ServiceInv
<1>7. CASE Register
  <2>1. stream' = stream /\ loop.reader \in Readers /\ call[loop.reader].pc = "register"
        /\ (call' = [call EXCEPT ![loop.reader].pc = "waiting"] \/ call' = call)
    BY <1>7 DEF Register, ServiceInv, TypeInv, CallsInStep
  <2>2. call \in [Readers -> CallStates]
    BY TypeParts DEF ServiceInv, TypeInv
  <2>3. CASE call' = [call EXCEPT ![loop.reader].pc = "waiting"]
    <3>1. \A x \in Readers :
            /\ call'[x].pc = call[x].pc \/ (call[x].pc = "register" /\ call'[x].pc = "waiting")
            /\ call'[x].ask = call[x].ask /\ call'[x].found = call[x].found
      BY <2>1, <2>2, <2>3 DEF CallStates
    <3>2. QED
      BY <1>1, <2>1, <3>1, FindingsKept
  <2>4. QED
    BY <1>2, <2>1, <2>3
<1>8. ASSUME NEW r \in Readers, ThreadStep(r) PROVE ServiceInv'
  BY <1>1, <1>8, ServiceThread
<1>9. CASE UNCHANGED vars
  BY <1>2, <1>9 DEF vars
<1>10. QED
  BY <1>3, <1>4, <1>5, <1>6, <1>7, <1>8, <1>9 DEF Next, LoopStep, Answers

LEMMA ServiceInvInit == Init => ServiceInv
<1>1. NoCall.ask = <<>> /\ NoCall.found = <<>> /\ NoCall.pc = "none" /\ DOMAIN NoCall.found = {}
  BY DEF NoCall, CallAt
<1>2. QED
  BY <1>1, TopInit DEF TopInv, Init, ServiceInv, CallsComplete, FoundWithoutGap

-----------------------------------------------------------------------------
(* The stream service.                                                     *)

\* What the service sees.
LEMMA ServiceView ==
  /\ DOMAIN Logs = Streams /\ \A s \in Streams : Logs[s] = stream[s].log
  /\ DOMAIN Asked = Readers /\ \A r \in Readers : Asked[r] = call[r].ask
  /\ \A s \in Streams : \A from : Service!Following(s, from) = {x \in stream[s].log : Less(from, x)}
  /\ out = NoOut => Message = {}
  /\ \A r, ask, found : out = ReadReply(r, ask, found) => Message = {<<r, ask, found>>}
  /\ out.kind # "read" => Message = {}
<1>1. \A s \in Streams : \A from : Service!Following(s, from) = {x \in stream[s].log : Less(from, x)}
  BY DEF Service!Following, Service!Before, Less, Logs
<1>2. QED
  BY <1>1, OutParts DEF Logs, Asked, Message

LEMMA ServiceViewNext ==
  /\ out' = NoOut => Message' = {}
  /\ \A r, ask, found : out' = ReadReply(r, ask, found) => Message' = {<<r, ask, found>>}
  /\ out'.kind # "read" => Message' = {}
  /\ stream' = stream => Logs' = Logs
BY OutParts DEF Logs, Message

\* A step that shows nothing to the service but the end of the last reply.
LEMMA QuietStep ==
  ASSUME stream' = stream, \A r \in Readers : call'[r].ask = call[r].ask, out'.kind # "read"
  PROVE  Service!Quiet
BY ServiceViewNext DEF Service!Quiet, Asked

\* What a read asks for is a question of the service.
LEMMA ResolvedAsks ==
  ASSUME stream \in [Streams -> StreamStates], NEW r \in Readers, NEW ask \in Asks[r]
  PROVE  /\ Resolved(ask) \in Service!Questions
         /\ \A i \in DOMAIN Resolved(ask) :
              Resolved(ask)[i].stream \in Streams /\ Resolved(ask)[i].from \in Ids
<1> DEFINE names == [i \in DOMAIN ask |-> ask[i].stream]
           froms == [i \in DOMAIN ask |-> Resolved(ask)[i].from]
<1>1. \A i \in DOMAIN Resolved(ask) : Resolved(ask)[i] \in [stream : Streams, from : Ids]
  BY ResolvedType, ElementType DEF Questions
<1>2. DOMAIN Resolved(ask) = DOMAIN ask
  BY DEF Resolved
<1>3. names \in NamesAsked
  BY DEF NamesAsked
<1>4. froms \in [DOMAIN names -> Ids]
  BY <1>1, <1>2
<1>5. Resolved(ask) = [i \in DOMAIN names |-> [stream |-> names[i], from |-> froms[i]]]
  BY DEF Resolved
<1> HIDE DEF names, froms
<1>6. Resolved(ask) \in Service!Questions
  <2>1. Resolved(ask) \in {[i \in DOMAIN names |-> [stream |-> names[i], from |-> fs[i]]] :
                              fs \in [DOMAIN names -> Ids]}
    BY <1>4, <1>5
  <2>2. QED
    BY <1>3, <2>1 DEF Service!Questions
<1>7. QED
  BY <1>1, <1>6

\* What the loop finds is what follows.
LEMMA FoundFollows ==
  ASSUME stream \in [Streams -> StreamStates], NEW q,
         \A i \in DOMAIN q : q[i].stream \in Streams /\ q[i].from \in Ids
  PROVE  FoundNow(q) = [i \in DOMAIN q |-> Service!Following(q[i].stream, q[i].from)]
<1>1. ASSUME NEW i \in DOMAIN q
      PROVE  EntriesAfter(q[i].stream, q[i].from) = Service!Following(q[i].stream, q[i].from)
  <2>1. PICK s \in Streams, from \in Ids : s = q[i].stream /\ from = q[i].from
    OBVIOUS
  <2>2. EntriesAfter(s, from) = Service!Following(s, from)
    BY EntriesType, ServiceView
  <2>3. QED
    BY <2>1, <2>2
<1>2. QED
  BY <1>1 DEF FoundNow

LEMMA GrowStep ==
  ASSUME ServiceInv, NEW s \in Streams, NEW arg \in AddArgs[s], XAdd(s, arg)
  PROVE  Service!Quiet \/ Service!Grow(s)
<1>1. call' = call /\ Asked' = Asked /\ Message' = {}
  BY ServiceViewNext DEF XAdd, Asked
<1>2. TopInv
  BY DEF ServiceInv, TopInv
<1>3. \A t \in Streams \ {s} : stream'[t] = stream[t]
  BY <1>2, XAddEffect
<1>4. CASE stream'[s].log = stream[s].log
  <2>1. Logs' = Logs
    BY <1>3, <1>4 DEF Logs
  <2>2. QED
    BY <1>1, <2>1 DEF Service!Quiet
<1>5. ASSUME NEW id \in Ids, \A x \in stream[s].log : Less(x, id), id # Zero,
             stream'[s].log = stream[s].log \cup {id}
      PROVE  Service!Grow(s)
  <2>1. Logs' = [Logs EXCEPT ![s] = Logs[s] \cup {id}]
    BY <1>3, <1>5 DEF Logs
  <2>2. \A x \in Logs[s] : Service!Before(x, id)
    BY <1>5, ServiceView DEF Service!Before, Less
  <2>3. id \in Ids \ {Service!Zero}
    BY <1>5 DEF Zero, Service!Zero
  <2>4. QED
    BY <1>1, <2>1, <2>2, <2>3 DEF Service!Grow
<1>6. QED
  BY <1>2, <1>4, <1>5, XAddEffect

LEMMA ReadStep ==
  ASSUME ServiceInv, NEW r \in Readers, NEW ask \in Asks[r], XRead(r, ask)
  PROVE  Service!Read(r)
<1> DEFINE q == Resolved(ask)
<1>1. stream \in [Streams -> StreamStates]
  BY TypeParts DEF ServiceInv, TypeInv
<1>2. q \in Service!Questions /\ \A i \in DOMAIN q : q[i].stream \in Streams /\ q[i].from \in Ids
  BY <1>1, ResolvedAsks
<1>3. Asked[r] = <<>>
  BY ServiceView DEF XRead, CanAsk, ServiceInv, CallsComplete
<1>4. UNCHANGED <<Logs, Asked>>
  BY DEF XRead, Logs, Asked
<1>5. Message' = {<<r, q, FoundNow(q)>>}
  BY ServiceViewNext DEF XRead
<1> HIDE DEF q
<1>6. FoundNow(q) = [i \in DOMAIN q |-> Service!Following(q[i].stream, q[i].from)]
  BY <1>1, <1>2, FoundFollows
<1>7. QED
  BY <1>2, <1>3, <1>4, <1>5, <1>6 DEF Service!Read

LEMMA BlockStep ==
  ASSUME ServiceInv, NEW r \in Readers, NEW ask \in Asks[r], XReadBlocks(r, ask)
  PROVE  Service!BlockOn(r)
<1> DEFINE q == Resolved(ask)
           new == CallAt("register", FALSE, q, <<>>)
<1>1. stream \in [Streams -> StreamStates] /\ call \in [Readers -> CallStates]
  BY TypeParts DEF ServiceInv, TypeInv
<1>2. q \in Service!Questions /\ \A i \in DOMAIN q : q[i].stream \in Streams /\ q[i].from \in Ids
  BY <1>1, ResolvedAsks
<1>3. Asked[r] = <<>>
  BY ServiceView DEF XReadBlocks, CanAsk, ServiceInv, CallsComplete
<1>4. Logs' = Logs /\ Message' = {}
  BY ServiceViewNext DEF XReadBlocks
<1>5. DOMAIN q = DOMAIN ask /\ FoundNow(q) = Nothing(ask) /\ call' = [call EXCEPT ![r] = new]
  BY DEF XReadBlocks, Resolved
<1>6. new.ask = q
  BY DEF CallAt
<1> HIDE DEF q, new
<1>7. FoundNow(q) = [i \in DOMAIN q |-> Service!Following(q[i].stream, q[i].from)]
  BY <1>1, <1>2, FoundFollows
<1>8. \A i \in DOMAIN q : Service!Following(q[i].stream, q[i].from) = {}
  BY <1>5, <1>7 DEF Nothing
<1>9. Asked' = [Asked EXCEPT ![r] = q]
  BY <1>1, <1>5, <1>6 DEF Asked
<1>10. QED
  BY <1>2, <1>3, <1>4, <1>8, <1>9 DEF Service!BlockOn

LEMMA ReplyStep ==
  ASSUME ServiceInv, NEW r \in Readers, Send(r)
  PROVE  Service!Reply(r)
<1> DEFINE q == call[r].ask
           found == call[r].found
           In(i, u) == {x \in Service!Following(q[i].stream, q[i].from) : ~Service!Before(u, x)}
           upto == [i \in DOMAIN q |-> CHOOSE u \in Ids : found[i] = In(i, u)]
<1>1. call[r].pc = "send" /\ stream' = stream /\ call' = [call EXCEPT ![r] = NoCall]
      /\ out' = ReadReply(r, q, found)
  BY DEF Send, ThreadAt
<1>2. call \in [Readers -> CallStates] /\ NoCall.ask = <<>>
      /\ \A i \in DOMAIN q : q[i].stream \in Streams /\ q[i].from \in Ids
  BY TypeParts, BlankTypes, CallParts DEF ServiceInv, TypeInv
<1>3. Asked[r] = q /\ q # <<>> /\ Asked' = [Asked EXCEPT ![r] = <<>>] /\ Logs' = Logs
  BY <1>1, <1>2, ServiceView, ServiceViewNext DEF ServiceInv, TypeInv, CallsInStep, Asked
<1>4. DOMAIN found = DOMAIN q /\ found \in Seq(SUBSET Ids)
  BY <1>1, FoundParts, CallParts DEF ServiceInv, CallsComplete
<1>5. ASSUME NEW i \in DOMAIN q PROVE \E u \in Ids : found[i] = In(i, u)
  <2>1. GapFree(stream[q[i].stream], q[i].from, found[i])
    BY <1>4 DEF ServiceInv, FoundWithoutGap
  <2>2. PICK u \in Ids : found[i] = Between(stream[q[i].stream].log, q[i].from, u)
    BY <2>1 DEF GapFree
  <2>3. Service!Following(q[i].stream, q[i].from) = {x \in stream[q[i].stream].log : Less(q[i].from, x)}
    BY <1>2, ServiceView
  <2>4. found[i] = In(i, u)
    BY <2>2, <2>3 DEF Between, Service!Before, Less
  <2>5. QED
    BY <2>4
<1> HIDE DEF In
<1>6. upto \in [DOMAIN q -> Ids] /\ \A i \in DOMAIN q : found[i] = In(i, upto[i])
  BY <1>5
<1>7. found = [i \in DOMAIN q |-> In(i, upto[i])]
  <2>1. found = [i \in DOMAIN found |-> found[i]]
    BY <1>4
  <2> HIDE DEF upto, found, q
  <2>2. QED
    BY <1>4, <1>6, <2>1
<1>8. Message' = {<<r, q, found>>}
  BY <1>1, ServiceViewNext
<1> HIDE DEF q, found, upto
<1>9. Message' = {<<r, Asked[r], [i \in DOMAIN Asked[r] |->
                    {x \in Service!Following(Asked[r][i].stream, Asked[r][i].from) :
                       ~Service!Before(upto[i], x)}]>>}
  BY <1>3, <1>7, <1>8 DEF In
<1>10. QED
  BY <1>3, <1>6, <1>9 DEF Service!Reply

LEMMA ServiceNextStep == ServiceInv /\ [Next]_vars => [Service!ServiceNext]_(Service!ssVars)
<1> SUFFICES ASSUME ServiceInv, [Next]_vars PROVE [Service!ServiceNext]_(Service!ssVars)
  OBVIOUS
<1>1. TypeInv
  BY DEF ServiceInv
<1>2. Service!Quiet => Service!ServiceNext
  BY DEF Service!ServiceNext
<1>3. ASSUME NEW s \in Streams, XAddRaces(s) PROVE Service!Quiet
  BY <1>3, QuietStep, OutParts DEF XAddRaces
<1>4. ASSUME NEW s \in Streams, NEW arg \in AddArgs[s], XAdd(s, arg) PROVE Service!ServiceNext
  BY <1>2, <1>4, GrowStep DEF Service!ServiceNext
<1>5. ASSUME NEW q \in Ranges, XRange(q[1], q[2], q[3]) PROVE Service!Quiet
  <2>1. out'.kind = "range"
    BY <1>5 DEF XRange, Out
  <2>2. QED
    BY <1>5, <2>1, QuietStep DEF XRange
<1>6. ASSUME NEW q \in Ranges, XRangeRunsPast(q[1], q[2], q[3]) PROVE Service!Quiet
  BY <1>6, QuietStep, OutParts DEF XRangeRunsPast
<1>7. ASSUME NEW r \in Readers, NEW ask \in Asks[r], XReadAbsent(r, ask) PROVE Service!Quiet
  BY <1>7, QuietStep, OutParts DEF XReadAbsent
<1>8. ASSUME NEW r \in Readers, NEW ask \in Asks[r], XRead(r, ask) \/ XReadBlocks(r, ask)
      PROVE  Service!ServiceNext
  BY <1>8, ReadStep, BlockStep DEF Service!ServiceNext
<1>9. CASE Notify
  <2>1. out' = NoOut
    BY <1>9 DEF Notify
  <2>2. QED
    BY <1>1, <1>9, <2>1, <1>2, NotifySets, QuietStep, OutParts
<1>10. CASE Register
  <2>1. stream' = stream /\ out' = NoOut /\ loop.reader \in Readers
        /\ (call' = [call EXCEPT ![loop.reader].pc = "waiting"] \/ call' = call)
    BY <1>1, <1>10 DEF Register, TypeInv, CallsInStep
  <2>2. call \in [Readers -> CallStates]
    BY <1>1, TypeParts DEF TypeInv
  <2>3. \A x \in Readers : call'[x].ask = call[x].ask
    BY <2>1, <2>2 DEF CallStates
  <2>4. QED
    BY <1>2, <2>1, <2>3, QuietStep, OutParts
<1>11. ASSUME NEW r \in Readers, Send(r) PROVE Service!ServiceNext
  BY <1>11, ReplyStep DEF Service!ServiceNext
<1>12. ASSUME NEW r \in Readers, Wake(r) \/ Timeout(r) \/ ReadNext(r) \/ Clear(r) PROVE Service!Quiet
  <2>1. stream' = stream /\ out' = NoOut
    BY <1>12 DEF Wake, Timeout, ReadNext, Clear
  <2>2. call \in [Readers -> CallStates] /\ call[r] \in CallStates
    BY <1>1, TypeParts DEF TypeInv
  <2>3. ASSUME NEW new, call' = [call EXCEPT ![r] = new], new.ask = call[r].ask
        PROVE  \A x \in Readers : call'[x].ask = call[x].ask
    BY <2>2, <2>3
  <2>4. CASE Wake(r) \/ Clear(r)
    <3>1. PICK pc \in {"read", "send"} : call' = [call EXCEPT ![r].pc = pc]
      BY <2>4 DEF Wake, Clear
    <3>2. \A x \in Readers : call'[x].ask = call[x].ask
      BY <2>2, <3>1 DEF CallStates
    <3>3. QED
      BY <2>1, <3>2, QuietStep, OutParts
  <2>5. CASE Timeout(r)
    <3> DEFINE new == CallAt("clear", FALSE, call[r].ask, Nothing(call[r].ask))
    <3>1. call' = [call EXCEPT ![r] = new]
      BY <2>5 DEF Timeout
    <3>2. new.ask = call[r].ask
      BY DEF CallAt
    <3> HIDE DEF new
    <3>3. QED
      BY <2>1, <2>3, <3>1, <3>2, QuietStep, OutParts
  <2>6. CASE ReadNext(r)
    <3> DEFINE q == call[r].ask[Len(call[r].found) + 1]
               all == Append(call[r].found, EntriesAfter(q.stream, q.from))
               new == CallAt(IF Len(all) = Len(call[r].ask) THEN "clear" ELSE "read", TRUE, call[r].ask, all)
    <3>1. call' = [call EXCEPT ![r] = new]
      BY <2>6 DEF ReadNext
    <3>2. new.ask = call[r].ask
      BY DEF CallAt
    <3> HIDE DEF new
    <3>3. QED
      BY <2>1, <2>3, <3>1, <3>2, QuietStep, OutParts
  <2>7. QED
    BY <1>12, <2>4, <2>5, <2>6
<1>13. CASE UNCHANGED vars
  <2>1. UNCHANGED <<Logs, Asked, Message>>
    BY <1>13 DEF vars, Logs, Asked, Message
  <2>2. QED
    BY <2>1 DEF Service!ssVars
<1>14. ASSUME NEW r \in Readers, ThreadStep(r) PROVE Service!ServiceNext
  BY <1>2, <1>11, <1>12, <1>14 DEF ThreadStep
<1>15. QED
  BY <1>2, <1>3, <1>4, <1>5, <1>6, <1>7, <1>8, <1>9, <1>10, <1>13, <1>14 DEF Next, LoopStep

\* The loop and the threads implement the stream service, for all streams, readers,
\* identifiers and clocks: a blocked read's reply has no gap, although its thread
\* gathers it one stream at a time while XADD goes on.
THEOREM StreamsImplementService == Spec => ImplementsStreams
<1>1. Init => Service!ServiceInit
  <2>1. \A r \in Readers : NoCall.ask = <<>>
    BY BlankTypes
  <2>2. QED
    BY <2>1, OutParts DEF Init, Service!ServiceInit, Logs, Asked, Message, NoStream
<1>2. QED
  BY <1>1, ServiceInvInit, ServiceInvNext, ServiceNextStep, PTL
     DEF Spec, ImplementsStreams, Service!ServiceSpec
=============================================================================
