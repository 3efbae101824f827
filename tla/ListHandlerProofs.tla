------------------------- MODULE ListHandlerProofs -------------------------
(***************************************************************************)
(* Theorems about ListHandler, for every set of clients, lists and bounds. *)
(***************************************************************************)
EXTENDS ListHandler, SequenceLemmas, FiniteSetTheorems, TLAPS

-----------------------------------------------------------------------------
(* Facts about the operators on sequences.                                 *)

LEMMA SubSeqType ==
  ASSUME NEW S, NEW s \in Seq(S), NEW n \in Nat
  PROVE  /\ Taken(s, n) \in Seq(S)
         /\ Left(s, n) \in Seq(S)
BY DEF Taken, Left

LEMMA ReverseType ==
  ASSUME NEW S, NEW s \in Seq(S)
  PROVE  Reverse(s) \in Seq(S)
BY DEF Reverse

LEMMA ToSetType ==
  ASSUME NEW S, NEW s \in Seq(S)
  PROVE  ToSet(s) \in SUBSET S
BY DEF ToSet

LEMMA NewElemsType ==
  ASSUME TypeOK, NEW n \in 1 .. MaxPush, next + n <= MaxElems + 1
  PROVE  NewElems(n) \in Seq(Elems)
BY BoundsAssumption DEF NewElems, TypeOK, Elems

LEMMA TailType ==
  ASSUME NEW S, NEW s \in Seq(S), s # <<>>
  PROVE  /\ Head(s) \in S
         /\ Tail(s) \in Seq(S)
         /\ <<Head(s)>> \in Seq(S)
OBVIOUS

\* The indexes that LRANGE reads are in the list.
LEMMA IndexType ==
  ASSUME NEW i \in Int, NEW n \in Nat \ {0}
  PROVE  IndexOf0(i, n) \in 0 .. n - 1
<1>1. Clamped(i, n) \in -n .. n - 1
  BY DEF Clamped
<1> DEFINE m == Clamped(i, n) + n
<1>2. m \in Nat /\ m % n \in 0 .. n - 1
  BY <1>1
<1>3. QED
  BY <1>2 DEF IndexOf0

LEMMA RangedType ==
  ASSUME NEW S, NEW s \in Seq(S), NEW r, r[1] \in Int, r[2] \in Int
  PROVE  Ranged(s, r) \in Seq(S)
<1>1. CASE s = <<>>
  BY <1>1 DEF Ranged
<1>2. CASE s # <<>>
  <2> DEFINE a == IndexOf0(r[1], Len(s))
             b == IndexOf0(r[2], Len(s))
  <2>1. Len(s) \in Nat \ {0}
    BY <1>2
  <2>2. a \in 0 .. Len(s) - 1 /\ b \in 0 .. Len(s) - 1
    BY <2>1, IndexType
  <2> HIDE DEF a, b
  <2>3. SubSeq(s, a + 1, b + 1) \in Seq(S)
    BY <2>1, <2>2
  <2>4. QED
    BY <1>2, <2>3 DEF Ranged, a, b
<1>3. QED
  BY <1>1, <1>2

LEMMA ReplyType ==
  ASSUME NEW kind \in Kinds, NEW elems \in Seq(Elems)
  PROVE  Reply(kind, elems) \in Replies
BY DEF Reply, Replies

LEMMA HandedType ==
  ASSUME NEW resp \in Replies
  PROVE  ToSet(Handed(resp)) \in SUBSET Elems
<1>1. Handed(resp) \in Seq(Elems)
  BY DEF Handed, Replies
<1>2. QED
  BY <1>1, ToSetType

LEMMA BlankType ==
  /\ NoReply \in Replies
  /\ IdleLoop \in LoopStates /\ IdleLoop.pc = "idle" /\ IdleLoop.client = NoClient
  /\ NoThread \in ThreadStates /\ NoThread.pc = "none"
  /\ NoEntry \in Entries
<1>1. NoReply \in Replies
  BY DEF NoReply, Reply, Replies, Kinds
<1>2. <<>> \in Seq(Keys)
  OBVIOUS
<1>3. IdleLoop \in LoopStates /\ IdleLoop.pc = "idle" /\ IdleLoop.client = NoClient
  BY <1>1, <1>2 DEF IdleLoop, LoopAt, LoopStates, LoopPcs
<1>4. NoThread \in ThreadStates /\ NoThread.pc = "none"
  BY <1>1, <1>2 DEF NoThread, ThreadAt, ThreadStates, ThreadPcs
<1>5. QED
  BY <1>1, <1>2, <1>3, <1>4 DEF NoEntry, Entries

-----------------------------------------------------------------------------
(* Type correctness, and what a scan knows of the lists it has passed.     *)

LEMMA ScanInit == Init => ScanInv
<1> SUFFICES ASSUME Init PROVE ScanInv
  OBVIOUS
<1>1. TypeOK
  BY BlankType, BoundsAssumption DEF Init, TypeOK, Elems
<1>2. ScannedEmpty /\ ThreadIndexed
  BY BlankType DEF Init, ScannedEmpty, ThreadIndexed
<1>3. QED
  BY <1>1, <1>2 DEF ScanInv

\* A command changes neither the threads nor, before it is taken, a scan.
LEMMA CommandScan ==
  ASSUME ScanInv, NEW c \in Clients, Command(c)
  PROVE  ScanInv'
<1> USE DEF ScanInv
<1>1. ASSUME NEW l \in LoopStates, Serve(c, l)
      PROVE  /\ conn' \in [Clients -> {"closed", "idle", "waiting"}]
             /\ loop' \in LoopStates
  BY <1>1 DEF Serve, TypeOK
<1>2. ASSUME NEW k \in Keys, NEW n \in 1 .. MaxPush, LPush(c, k, n) \/ RPush(c, k, n)
      PROVE  ScanInv'
  <2> DEFINE l == LoopAt("notify", c, <<k>>, n, NoReply)
  <2>1. l \in LoopStates /\ l.pc = "notify"
    BY BlankType, BoundsAssumption DEF LoopAt, LoopStates, LoopPcs
  <2>2. NewElems(n) \in Seq(Elems) /\ lists[k] \in Seq(Elems)
    BY <1>2, NewElemsType DEF LPush, RPush, Push, TypeOK
  <2>3. /\ Reverse(NewElems(n)) \o lists[k] \in Seq(Elems)
        /\ lists[k] \o NewElems(n) \in Seq(Elems)
    BY <2>2, ReverseType
  <2>4. PICK newList \in Seq(Elems) : Push(c, k, n, newList)
    BY <1>2, <2>3 DEF LPush, RPush
  <2> HIDE DEF l
  <2>5. Serve(c, l)
    BY <2>4 DEF Push, l
  <2>6. TypeOK'
    BY <1>1, <2>1, <2>4, <2>5, BoundsAssumption DEF Push, TypeOK
  <2>7. ScannedEmpty' /\ ThreadIndexed'
    BY <2>1, <2>4, <2>5 DEF Push, Serve, ScannedEmpty, ThreadIndexed
  <2>8. QED
    BY <2>6, <2>7
<1>3. ASSUME NEW resp \in Replies, Serve(c, Answer(c, resp))
      PROVE  /\ conn' \in [Clients -> {"closed", "idle", "waiting"}]
             /\ loop' \in LoopStates /\ loop'.pc = "reply"
  <2>1. Answer(c, resp) \in LoopStates /\ Answer(c, resp).pc = "reply"
    BY DEF Answer, LoopAt, LoopStates, LoopPcs
  <2>2. QED
    BY <1>1, <1>3, <2>1 DEF Serve
<1>4. ASSUME NEW k \in Keys, NEW n \in 1 .. MaxPush, LPop(c, k, n)
      PROVE  ScanInv'
  <2>1. lists[k] \in Seq(Elems) /\ n \in Nat
    BY BoundsAssumption DEF TypeOK
  <2>2. LPopReply(lists[k], n) \in Replies
    BY <2>1, SubSeqType, ReplyType DEF LPopReply, Kinds
  <2>3. Left(lists[k], n) \in Seq(Elems)
    BY <2>1, SubSeqType
  <2>4. TypeOK'
    BY <1>3, <1>4, <2>2, <2>3 DEF LPop, TypeOK
  <2>5. ScannedEmpty' /\ ThreadIndexed'
    BY <1>3, <1>4, <2>2 DEF LPop, ScannedEmpty, ThreadIndexed
  <2>6. QED
    BY <2>4, <2>5
<1>5. ASSUME NEW k \in Keys, RPop(c, k) \/ LLen(c, k)
      PROVE  ScanInv'
  <2>1. Reply("placeholder", <<>>) \in Replies /\ Reply("int", <<>>) \in Replies
    BY DEF Reply, Replies, Kinds
  <2>2. QED
    BY <1>3, <1>5, <2>1 DEF RPop, LLen, TypeOK, ScannedEmpty, ThreadIndexed
<1>6. ASSUME NEW k \in Keys, NEW r \in Ranges, LRange(c, k, r)
      PROVE  ScanInv'
  <2>1. lists[k] \in Seq(Elems) /\ r[1] \in Int /\ r[2] \in Int
    BY RangesAssumption DEF TypeOK
  <2>2. Reply("range", Ranged(lists[k], r)) \in Replies
    BY <2>1, RangedType, ReplyType DEF Kinds
  <2>3. QED
    BY <1>3, <1>6, <2>2 DEF LRange, TypeOK, ScannedEmpty, ThreadIndexed
<1>7. ASSUME NEW ks \in BlockKeys[c], Blpop(c, ks)
      PROVE  ScanInv'
  <2> DEFINE l == LoopAt("scan", c, ks, 0, NoReply)
  <2>1. ks \in Seq(Keys) /\ ks # <<>>
    BY BlockKeysAssumption
  <2>2. l \in LoopStates /\ l.pc = "scan" /\ l.keys = ks /\ l.i = 1
    BY <2>1, BlankType DEF LoopAt, LoopStates, LoopPcs
  <2> HIDE DEF l
  <2>3. Serve(c, l)
    BY <1>7 DEF Blpop, l
  <2>4. TypeOK'
    BY <1>1, <1>7, <2>2, <2>3 DEF Blpop, TypeOK
  <2>5. 1 \in DOMAIN ks
    BY <2>1
  <2>6. ScannedEmpty' /\ ThreadIndexed'
    BY <1>7, <2>2, <2>3, <2>5 DEF Blpop, Serve, ScannedEmpty, ThreadIndexed
  <2>7. QED
    BY <2>4, <2>6
<1>8. QED
  BY <1>2, <1>4, <1>5, <1>6, <1>7 DEF Command

LEMMA LoopScan ==
  ASSUME ScanInv, LoopStep
  PROVE  ScanInv'
<1> USE DEF ScanInv
<1>1. loop.client \in Clients \cup {NoClient} /\ loop.resp \in Replies
  BY DEF TypeOK, LoopStates
<1>2. ASSUME NEW resp \in Replies
      PROVE  Answer(loop.client, resp) \in LoopStates /\ Answer(loop.client, resp).pc = "reply"
  BY <1>1 DEF Answer, LoopAt, LoopStates, LoopPcs
<1>3. CASE Notify
  <2>1. Reply("int", <<>>) \in Replies
    BY DEF Reply, Replies, Kinds
  <2>2. QED
    BY <1>2, <1>3, <2>1 DEF Notify, TypeOK, ScannedEmpty, ThreadIndexed
<1>4. CASE Respond
  <2>1. ToSet(Handed(loop.resp)) \in SUBSET Elems
    BY <1>1, HandedType
  <2>2. QED
    BY <1>4, <2>1, BlankType DEF Respond, TypeOK, ScannedEmpty, ThreadIndexed
<1>5. CASE BlpopFound
  <2>1. ScanKey \in Keys /\ lists[ScanKey] \in Seq(Elems)
    BY <1>5 DEF BlpopFound, Scanning, ScannedEmpty, ScanKey, TypeOK, LoopStates
  <2>2. /\ Reply("pair", <<Head(lists[ScanKey])>>) \in Replies
        /\ Tail(lists[ScanKey]) \in Seq(Elems)
    BY <1>5, <2>1, TailType DEF BlpopFound, Reply, Replies, Kinds
  <2>3. QED
    BY <1>2, <1>5, <2>2 DEF BlpopFound, PopFirst, TypeOK, ScannedEmpty, ThreadIndexed
<1>6. CASE BlpopNext
  <2>1. loop' \in LoopStates /\ loop'.i = loop.i + 1 /\ loop'.keys = loop.keys
    <3>1. loop \in LoopStates /\ loop' = [loop EXCEPT !.i = loop.i + 1] /\ loop.i + 1 \in Nat
      BY <1>6 DEF BlpopNext, TypeOK, LoopStates
    <3>2. QED
      BY <3>1 DEF LoopStates
  <2>2. /\ loop.i \in DOMAIN loop.keys /\ loop.keys \in Seq(Keys)
        /\ loop.i + 1 \in DOMAIN loop.keys
    BY <1>6 DEF BlpopNext, Scanning, ScannedEmpty, TypeOK, LoopStates, MoreKeys
  <2>3. ScannedEmpty'
    BY <1>6, <2>1, <2>2 DEF BlpopNext, Scanning, ScanKey, ScannedEmpty
  <2>4. QED
    BY <1>6, <2>1, <2>3 DEF BlpopNext, TypeOK, ThreadIndexed
<1>7. CASE BlpopBlock
  <2> DEFINE e == [keys |-> loop.keys, waiter |-> loop.client]
             t == ThreadAt("start", <<>>, NoClient, NoReply)
  <2>1. e \in Entries
    BY <1>1 DEF Entries, TypeOK, LoopStates
  <2>2. t \in ThreadStates /\ t.pc = "start"
    BY <1>1, BlankType DEF ThreadAt, ThreadStates, ThreadPcs
  <2> HIDE DEF e, t
  <2>3. /\ blockingLists' = [blockingLists EXCEPT ![FdOf[loop.client]] = e]
        /\ thread' = [thread EXCEPT ![loop.client] = t]
    BY <1>7 DEF BlpopBlock, Registering, e, t
  <2>4. TypeOK'
    <3>1. /\ blockingLists' \in [Fds -> Entries]
          /\ thread' \in [Clients -> ThreadStates]
      BY <2>1, <2>2, <2>3 DEF TypeOK
    <3>2. eventSet' \in [Clients -> BOOLEAN] /\ loop' \in LoopStates
      BY <1>7, BlankType DEF BlpopBlock, Registering, LoopAfterBlock, TypeOK
    <3>3. QED
      BY <1>7, <3>1, <3>2 DEF BlpopBlock, Registering, TypeOK
  <2>5. ScannedEmpty'
    BY <1>7, BlankType DEF BlpopBlock, Registering, LoopAfterBlock, ScannedEmpty
  <2>6. ThreadIndexed'
    BY <2>2, <2>3 DEF ThreadIndexed, TypeOK
  <2>7. QED
    BY <2>4, <2>5, <2>6
<1>8. QED
  BY <1>3, <1>4, <1>5, <1>6, <1>7 DEF LoopStep

LEMMA ThreadScan ==
  ASSUME ScanInv, NEW c \in Clients, ThreadStep(c)
  PROVE  ScanInv'
<1> USE DEF ScanInv
<1>1. /\ FdOf[c] \in Fds
      /\ Entry(c) \in Entries
      /\ thread[c] \in ThreadStates
  BY FdOfAssumption DEF Fds, Entry, TypeOK
<1>2. ASSUME UNCHANGED <<loop, lists>>
      PROVE  ScannedEmpty'
  BY <1>2 DEF ScannedEmpty
<1>3. CASE ThreadStart(c)
  <2>1. CASE Entry(c).waiter = NoClient
    BY <1>2, <1>3, <2>1 DEF ThreadStart, TypeOK, ThreadIndexed
  <2>2. CASE Entry(c).waiter # NoClient
    <3> DEFINE t == [thread[c] EXCEPT !.pc = "waiting", !.waiter = Entry(c).waiter]
    <3>1. Entry(c).waiter \in Clients \cup {NoClient}
      BY <1>1 DEF Entries
    <3>2. t \in ThreadStates /\ t.pc = "waiting"
      BY <1>1, <3>1 DEF ThreadStates, ThreadPcs
    <3>3. thread' = [thread EXCEPT ![c] = t]
      BY <1>3, <2>2 DEF ThreadStart, TypeOK
    <3> HIDE DEF t
    <3>4. QED
      BY <1>2, <1>3, <2>2, <3>2, <3>3 DEF ThreadStart, TypeOK, ThreadIndexed
  <2>3. QED
    BY <2>1, <2>2
<1>4. CASE ThreadWake(c)
  <2> DEFINE t == IF Entry(c).keys = <<>>
                  THEN ThreadAt("erase", <<>>, thread[c].waiter,
                                Reply("nilarray", <<>>))
                  ELSE ThreadAt("scan", Entry(c).keys, thread[c].waiter,
                                NoReply)
  <2>1. Reply("nilarray", <<>>) \in Replies
    BY DEF Reply, Replies, Kinds
  <2>2. t \in ThreadStates /\ (t.pc = "scan" => t.i \in DOMAIN t.keys)
    <3>1. CASE Entry(c).keys = <<>>
      BY <1>1, <2>1, <3>1 DEF ThreadAt, ThreadStates, ThreadPcs
    <3>2. CASE Entry(c).keys # <<>>
      <4>1. Entry(c).keys \in Seq(Keys) /\ 1 \in DOMAIN Entry(c).keys
        BY <1>1, <3>2 DEF Entries
      <4>2. QED
        BY <1>1, <3>2, <4>1, BlankType DEF ThreadAt, ThreadStates, ThreadPcs
    <3>3. QED
      BY <3>1, <3>2
  <2>3. thread' = [thread EXCEPT ![c] = t]
    BY <1>4 DEF ThreadWake, Woken
  <2> HIDE DEF t
  <2>4. QED
    BY <1>2, <1>4, <2>2, <2>3 DEF ThreadWake, Woken, TypeOK, ThreadIndexed
<1>5. CASE ThreadTimeout(c)
  <2>1. Reply("nilarray", <<>>) \in Replies
    BY DEF Reply, Replies, Kinds
  <2>2. QED
    BY <1>1, <1>2, <1>5, <2>1 DEF ThreadTimeout, TypeOK, ThreadIndexed, ThreadStates, ThreadPcs
<1>6. CASE ThreadDangling(c)
  BY <1>2, <1>6 DEF ThreadDangling, TypeOK, ThreadIndexed
<1>7. CASE ThreadFound(c)
  <2>1. ThreadKey(c) \in Keys /\ lists[ThreadKey(c)] \in Seq(Elems)
    BY <1>1, <1>7 DEF ThreadFound, Running, ThreadKey, ThreadIndexed, TypeOK, ThreadStates
  <2>2. /\ Reply("pair", <<Head(lists[ThreadKey(c)])>>) \in Replies
        /\ Tail(lists[ThreadKey(c)]) \in Seq(Elems)
    BY <1>7, <2>1, TailType DEF ThreadFound, Reply, Replies, Kinds
  <2>3. TypeOK'
    BY <1>1, <1>7, <2>1, <2>2 DEF ThreadFound, PopFirst, TypeOK, ThreadStates, ThreadPcs
  <2>4. ScannedEmpty'
    BY <1>7, <2>1 DEF ThreadFound, PopFirst, ScannedEmpty, TypeOK, LoopStates
  <2>5. ThreadIndexed'
    BY <1>1, <1>7 DEF ThreadFound, ThreadIndexed, TypeOK, ThreadStates
  <2>6. QED
    BY <2>3, <2>4, <2>5
<1>8. CASE ThreadNext(c)
  <2>1. Reply("nil", <<>>) \in Replies
    BY DEF Reply, Replies, Kinds
  <2>2. thread[c].i \in DOMAIN thread[c].keys /\ thread[c].keys \in Seq(Keys)
    BY <1>1, <1>8 DEF ThreadNext, Running, ThreadIndexed, ThreadStates
  <2>3. CASE thread[c].i < Len(thread[c].keys)
    <3> DEFINE t == [thread[c] EXCEPT !.i = thread[c].i + 1]
    <3>1. thread' = [thread EXCEPT ![c] = t]
      BY <1>8, <2>3 DEF ThreadNext, TypeOK
    <3>2. thread[c].i + 1 \in DOMAIN thread[c].keys
      BY <2>2, <2>3
    <3>3. t \in ThreadStates /\ t.i \in DOMAIN t.keys
      BY <1>1, <2>2, <3>2 DEF ThreadStates
    <3> HIDE DEF t
    <3>4. QED
      BY <1>2, <1>8, <3>1, <3>3 DEF ThreadNext, TypeOK, ThreadIndexed
  <2>4. CASE ~(thread[c].i < Len(thread[c].keys))
    <3> DEFINE t == [thread[c] EXCEPT !.pc = "erase", !.resp = Reply("nil", <<>>)]
    <3>1. thread' = [thread EXCEPT ![c] = t]
      BY <1>8, <2>4 DEF ThreadNext, TypeOK
    <3>2. t \in ThreadStates /\ t.pc = "erase"
      BY <1>1, <2>1 DEF ThreadStates, ThreadPcs
    <3> HIDE DEF t
    <3>3. QED
      BY <1>2, <1>8, <3>1, <3>2 DEF ThreadNext, TypeOK, ThreadIndexed
  <2>5. QED
    BY <2>3, <2>4
<1>9. CASE ThreadErase(c)
  BY <1>1, <1>2, <1>9, BlankType
     DEF ThreadErase, ErasedFor, TypeOK, ThreadIndexed, ThreadStates, ThreadPcs
<1>10. CASE ThreadSend(c)
  <2>1. ToSet(Handed(thread[c].resp)) \in SUBSET Elems
    BY <1>1, HandedType DEF ThreadStates
  <2>2. QED
    BY <1>2, <1>10, <2>1, BlankType DEF ThreadSend, TypeOK, ThreadIndexed
<1>11. QED
  BY <1>3, <1>4, <1>5, <1>6, <1>7, <1>8, <1>9, <1>10 DEF ThreadStep

LEMMA ScanStep ==
  ASSUME ScanInv, [Next]_vars
  PROVE  ScanInv'
<1>1. ASSUME NEW c \in Clients, Connect(c) \/ Disconnect(c)
      PROVE  ScanInv'
  BY <1>1 DEF Connect, Disconnect, ScanInv, TypeOK, ScannedEmpty, ThreadIndexed
<1>2. CASE UNCHANGED vars
  BY <1>2 DEF vars, ScanInv, TypeOK, ScannedEmpty, ThreadIndexed
<1>3. CASE MapRace
  BY <1>3 DEF MapRace, ScanInv, TypeOK, ScannedEmpty, ThreadIndexed
<1>4. QED
  BY <1>1, <1>2, <1>3, CommandScan, LoopScan, ThreadScan DEF Next, Crashed

\* Every variable keeps its type, whatever clients, lists and bounds there are, and
\* whether or not clients disconnect while blocked.
THEOREM TypeCorrect == Spec => []TypeOK
<1>1. ScanInv => TypeOK
  BY DEF ScanInv
<1>2. QED
  BY <1>1, ScanInit, ScanStep, PTL DEF Spec

\* A BLPOP that blocks has just seen all its lists empty, for every number of lists
\* and of threads that pop from them in between: the scan reads one list at a time.
THEOREM BlpopBlocksOnlyOnEmpty == Spec => BlocksOnlyOnEmpty
<1> DEFINE Blocks == \A c \in Clients : thread[c].pc = "none" /\ thread'[c].pc = "start" =>
                       \A k \in ToSet(blockingLists'[FdOf[c]].keys) : lists[k] = <<>>
<1>1. ASSUME ScanInv, [Next]_vars
      PROVE  [Blocks]_vars
  <2> SUFFICES ASSUME NEW c \in Clients, thread[c].pc = "none", thread'[c].pc = "start",
                      NEW k \in ToSet(blockingLists'[FdOf[c]].keys)
               PROVE  lists[k] = <<>>
    OBVIOUS
  <2> USE <1>1 DEF ScanInv
  <2>1. thread' # thread
    OBVIOUS
  <2>2. CASE BlpopBlock
    <3>1. c = loop.client
      BY <2>2 DEF BlpopBlock, Registering, TypeOK
    <3>2. FdOf[c] \in Fds
      BY FdOfAssumption DEF Fds
    <3>3. blockingLists'[FdOf[c]].keys = loop.keys
      BY <2>2, <3>1, <3>2 DEF BlpopBlock, Registering, TypeOK
    <3>4. PICK j \in DOMAIN loop.keys : k = loop.keys[j]
      BY <3>3 DEF ToSet
    <3>5. loop.keys \in Seq(Keys) /\ loop.i = Len(loop.keys) /\ loop.i \in Nat
      BY <2>2 DEF BlpopBlock, Registering, TypeOK, LoopStates, ScannedEmpty, MoreKeys, Scanning
    <3>6. j = loop.i \/ j \in 1 .. loop.i - 1
      BY <3>4, <3>5
    <3>7. QED
      BY <2>2, <3>4, <3>6 DEF BlpopBlock, Registering, Scanning, ScanKey, ScannedEmpty
  <2>3. CASE LoopStep /\ ~BlpopBlock
    BY <2>1, <2>3 DEF LoopStep, Notify, Respond, BlpopFound, BlpopNext
  <2>4. ASSUME NEW d \in Clients, ThreadStep(d)
        PROVE  FALSE
    <3>1. thread[d].pc # "none"
      BY <2>4 DEF ThreadStep, ThreadStart, ThreadWake, Woken, ThreadTimeout, ThreadDangling,
                  ThreadFound, ThreadNext, ThreadErase, ThreadSend, Running
    <3>2. thread'[c] = thread[c]
      BY <2>4, <3>1 DEF ThreadStep, ThreadStart, ThreadWake, Woken, ThreadTimeout, ThreadDangling,
                        ThreadFound, ThreadNext, ThreadErase, ThreadSend, TypeOK
    <3>3. QED
      BY <3>2
  <2>5. ASSUME NEW d \in Clients, Connect(d) \/ Disconnect(d) \/ Command(d)
        PROVE  FALSE
    BY <2>1, <2>5 DEF Connect, Disconnect, Command, LPush, RPush, Push, LPop, RPop, LLen, LRange, Blpop
  <2>6. CASE UNCHANGED vars
    BY <2>1, <2>6 DEF vars
  <2>7. QED
    BY <2>2, <2>3, <2>4, <2>5, <2>6 DEF Next, Crashed, MapRace
<1>2. QED
  BY <1>1, ScanInit, ScanStep, PTL DEF Spec, BlocksOnlyOnEmpty

-----------------------------------------------------------------------------
(* Who answers, and on which waiter: clients that wait for their replies.  *)

LEMMA PatientInit == Init => PatientInv
BY ScanInit, BlankType DEF Init, PatientInv, OneResponder, LoopServes,
   ThreadServes, OpenFdsDistinct, WaiterRegistered

LEMMA PatientCommand ==
  ASSUME PatientInv, NEW c \in Clients, Command(c), ScanInv'
  PROVE  PatientInv'
<1>1. /\ conn[c] = "idle" /\ loop.pc = "idle" /\ conn' = [conn EXCEPT ![c] = "waiting"]
      /\ UNCHANGED <<thread, blockingLists, alive>>
  BY DEF Command, LPush, RPush, Push, LPop, RPop, LLen, LRange, Blpop, Serve, LoopIdle
<1>2. loop'.pc # "idle" /\ loop'.client = c
  BY DEF Command, LPush, RPush, Push, LPop, RPop, LLen, LRange, Blpop, Serve, Answer, LoopAt
<1>3. OneResponder'
  BY <1>1, <1>2 DEF PatientInv, ScanInv, TypeOK, OneResponder, LoopServes, ThreadServes
<1>4. OpenFdsDistinct'
  BY <1>1 DEF PatientInv, ScanInv, TypeOK, OpenFdsDistinct
<1>5. WaiterRegistered'
  BY <1>1 DEF PatientInv, WaiterRegistered, Entry
<1>6. QED
  BY <1>1, <1>2, <1>3, <1>4, <1>5 DEF PatientInv

LEMMA PatientConnection ==
  ASSUME Impatient = {}, PatientInv, NEW c \in Clients, Connect(c) \/ Disconnect(c), ScanInv'
  PROVE  PatientInv'
<1>1. UNCHANGED <<thread, blockingLists, loop, alive>> /\ loop.pc = "idle"
  BY DEF Connect, Disconnect, LoopIdle
<1>2. conn[c] # "waiting" /\ \E st \in {"idle", "closed"} : conn' = [conn EXCEPT ![c] = st]
  BY DEF Connect, Disconnect
<1>3. OneResponder'
  BY <1>1, <1>2 DEF PatientInv, ScanInv, TypeOK, OneResponder, LoopServes, ThreadServes
<1>4. OpenFdsDistinct'
  BY DEF PatientInv, ScanInv, TypeOK, OpenFdsDistinct, Connect, Disconnect
<1>5. QED
  BY <1>1, <1>3, <1>4 DEF PatientInv, WaiterRegistered, Entry

LEMMA PatientLoop ==
  ASSUME PatientInv, LoopStep, ScanInv'
  PROVE  PatientInv'
<1> USE DEF PatientInv
<1>1. loop.pc # "idle" /\ loop.client \in Clients /\ alive' = alive
  BY DEF LoopStep, Notify, Respond, BlpopFound, BlpopNext, BlpopBlock, Registering, Scanning
<1>2. CASE Notify \/ BlpopFound \/ BlpopNext
  <2>1. /\ UNCHANGED <<conn, thread, blockingLists>>
        /\ loop'.pc # "idle" /\ loop'.client = loop.client
    BY <1>1, <1>2 DEF Notify, BlpopFound, BlpopNext, Scanning, Answer, LoopAt,
                      ScanInv, TypeOK, LoopStates
  <2>2. QED
    BY <1>1, <2>1 DEF OneResponder, LoopServes, ThreadServes, OpenFdsDistinct,
                      WaiterRegistered, Entry
<1>3. CASE Respond
  <2>1. /\ conn' = [conn EXCEPT ![loop.client] = "idle"] /\ loop'.pc = "idle"
        /\ UNCHANGED <<thread, blockingLists>>
    BY <1>3, BlankType DEF Respond
  <2>2. OneResponder' /\ OpenFdsDistinct'
    BY <1>1, <2>1 DEF OneResponder, LoopServes, ThreadServes, OpenFdsDistinct, ScanInv, TypeOK
  <2>3. QED
    BY <1>1, <2>1, <2>2 DEF WaiterRegistered, Entry
<1>4. CASE BlpopBlock
  <2> PICK c \in Clients : c = loop.client
    BY <1>1
  <2> DEFINE e == [keys |-> loop.keys, waiter |-> c]
             t == ThreadAt("start", <<>>, NoClient, NoReply)
  <2>1. /\ conn' = conn /\ loop'.pc = "idle"
        /\ blockingLists' = [blockingLists EXCEPT ![FdOf[c]] = e]
        /\ thread' = [thread EXCEPT ![c] = t]
    BY <1>4, BlankType DEF BlpopBlock, Registering, LoopAfterBlock
  <2>2. t.pc = "start" /\ e.waiter = c
    BY DEF ThreadAt
  <2> HIDE DEF t, e
  <2>3. OneResponder'
    BY <1>1, <2>1, <2>2 DEF OneResponder, LoopServes, ThreadServes, ScanInv, TypeOK
  <2>4. OpenFdsDistinct'
    BY <2>1 DEF OpenFdsDistinct
  <2>5. \A d \in Clients : d # c /\ thread[d].pc # "none" => FdOf[d] # FdOf[c]
    BY <1>1 DEF OneResponder, LoopServes, ThreadServes, OpenFdsDistinct
  <2>6. WaiterRegistered'
    <3>1. Entry(c)' = e
      BY <1>1, <2>1, FdOfAssumption DEF Entry, Fds, ScanInv, TypeOK
    <3>2. \A d \in Clients : d # c /\ thread[d].pc # "none" => Entry(d)' = Entry(d)
      BY <2>1, <2>5 DEF Entry, ScanInv, TypeOK
    <3>3. QED
      BY <1>1, <2>1, <2>2, <3>1, <3>2 DEF WaiterRegistered, ScanInv, TypeOK
  <2>7. QED
    BY <1>1, <2>1, <2>3, <2>4, <2>6
<1>5. QED
  BY <1>2, <1>3, <1>4 DEF LoopStep

LEMMA PatientThread ==
  ASSUME PatientInv, NEW c \in Clients, ThreadStep(c), ScanInv'
  PROVE  PatientInv'
<1> USE DEF PatientInv
<1>1. /\ thread[c].pc # "none" /\ conn[c] = "waiting"
      /\ \A d \in Clients : d # c /\ thread[d].pc # "none" => FdOf[d] # FdOf[c]
  <2>1. thread[c].pc # "none"
    BY DEF ThreadStep, ThreadStart, ThreadWake, Woken, ThreadTimeout, ThreadDangling, ThreadFound,
           ThreadNext, ThreadErase, ThreadSend, Running
  <2>2. QED
    BY <2>1 DEF OneResponder, LoopServes, ThreadServes, OpenFdsDistinct
<1>2. ASSUME thread'[c].pc \in {"waiting", "scan", "erase"}, thread'[c].waiter = c,
             Entry(c).waiter = c, \A d \in Clients : d # c => thread'[d] = thread[d],
             UNCHANGED <<conn, blockingLists, loop, alive>>
      PROVE  PatientInv'
  <2>1. OneResponder' /\ OpenFdsDistinct'
    BY <1>1, <1>2 DEF OneResponder, LoopServes, ThreadServes, OpenFdsDistinct
  <2>2. WaiterRegistered'
    BY <1>2 DEF WaiterRegistered, Entry
  <2>3. QED
    BY <1>2, <2>1, <2>2
<1>3. thread[c] \in ThreadStates /\ DOMAIN thread = Clients
  BY DEF ScanInv, TypeOK
<1>4. CASE ThreadStart(c)
  <2>1. Entry(c).waiter = c /\ c # NoClient
    BY <1>4, NoClientAssumption DEF ThreadStart, Running, WaiterRegistered
  <2>2. /\ thread'[c].pc = "waiting" /\ thread'[c].waiter = c
        /\ \A d \in Clients : d # c => thread'[d] = thread[d]
    BY <1>3, <1>4, <2>1 DEF ThreadStart, ThreadStates, ScanInv, TypeOK
  <2>3. QED
    BY <1>2, <1>4, <2>1, <2>2 DEF ThreadStart
<1>5. ASSUME thread[c].pc \in {"waiting", "scan", "erase"}
      PROVE  Entry(c).waiter = c /\ thread[c].waiter = c
  BY <1>5 DEF WaiterRegistered
<1>6. CASE ThreadWake(c) \/ ThreadTimeout(c)
  <2>1. Entry(c).waiter = c /\ thread[c].waiter = c
    BY <1>5, <1>6 DEF ThreadWake, Woken, ThreadTimeout, Running
  <2>2. /\ thread'[c].pc \in {"scan", "erase"} /\ thread'[c].waiter = c
        /\ \A d \in Clients : d # c => thread'[d] = thread[d]
    <3>1. CASE ThreadTimeout(c)
      BY <1>3, <2>1, <3>1 DEF ThreadTimeout, ThreadStates, ScanInv, TypeOK
    <3>2. CASE ThreadWake(c) /\ Entry(c).keys = <<>>
      BY <1>3, <2>1, <3>2 DEF ThreadWake, Woken, ThreadAt, ScanInv, TypeOK
    <3>3. CASE ThreadWake(c) /\ Entry(c).keys # <<>>
      BY <1>3, <2>1, <3>3 DEF ThreadWake, Woken, ThreadAt, ScanInv, TypeOK
    <3>4. QED
      BY <1>6, <3>1, <3>2, <3>3
  <2>3. QED
    BY <1>2, <1>6, <2>1, <2>2 DEF ThreadWake, Woken, ThreadTimeout
<1>7. CASE ThreadDangling(c)
  BY <1>5, <1>7 DEF ThreadDangling, Dangling, Running
<1>8. CASE ThreadFound(c) \/ ThreadNext(c)
  <2>1. Entry(c).waiter = c /\ thread[c].waiter = c /\ thread[c].pc = "scan"
    BY <1>5, <1>8 DEF ThreadFound, ThreadNext, Running
  <2>2. /\ thread'[c].pc \in {"scan", "erase"} /\ thread'[c].waiter = c
        /\ \A d \in Clients : d # c => thread'[d] = thread[d]
    <3>1. CASE ThreadFound(c)
      BY <1>3, <2>1, <3>1 DEF ThreadFound, ThreadStates, ScanInv, TypeOK
    <3>2. CASE ThreadNext(c) /\ thread[c].i < Len(thread[c].keys)
      BY <1>3, <2>1, <3>2 DEF ThreadNext, ThreadStates, ScanInv, TypeOK
    <3>3. CASE ThreadNext(c) /\ ~(thread[c].i < Len(thread[c].keys))
      BY <1>3, <2>1, <3>3 DEF ThreadNext, ThreadStates, ScanInv, TypeOK
    <3>4. QED
      BY <1>8, <3>1, <3>2, <3>3
  <2>3. QED
    BY <1>2, <1>8, <2>1, <2>2 DEF ThreadFound, ThreadNext
<1>9. CASE ThreadErase(c)
  <2>1. /\ UNCHANGED <<conn, loop, alive>>
        /\ blockingLists' = [blockingLists EXCEPT ![FdOf[c]] = NoEntry]
        /\ thread' = [thread EXCEPT ![c].pc = "send"]
    BY <1>9 DEF ThreadErase, ErasedFor
  <2>2. OneResponder' /\ OpenFdsDistinct'
    BY <1>1, <1>3, <2>1 DEF OneResponder, LoopServes, ThreadServes, OpenFdsDistinct,
                            ScanInv, TypeOK, ThreadStates
  <2>3. \A d \in Clients : d # c /\ thread[d].pc # "none" => Entry(d)' = Entry(d)
    BY <1>1, <2>1 DEF Entry, ScanInv, TypeOK
  <2>4. thread'[c].pc = "send" /\ \A d \in Clients : d # c => thread'[d] = thread[d]
    BY <1>3, <2>1 DEF ScanInv, TypeOK, ThreadStates
  <2>5. WaiterRegistered'
    BY <2>3, <2>4 DEF WaiterRegistered
  <2>6. QED
    BY <2>1, <2>2, <2>5
<1>10. CASE ThreadSend(c)
  <2>1. /\ UNCHANGED <<loop, blockingLists, alive>>
        /\ thread' = [thread EXCEPT ![c] = NoThread]
    BY <1>10 DEF ThreadSend
  <2>2. conn' = [conn EXCEPT ![c] = "idle"]
    <3>1. \A d \in Clients : FdOf[d] = FdOf[c] /\ conn[d] = "waiting" <=> d = c
      BY <1>1 DEF OpenFdsDistinct
    <3>2. QED
      BY <1>10, <3>1 DEF ThreadSend, ScanInv, TypeOK
  <2>3. OneResponder' /\ OpenFdsDistinct'
    BY <1>1, <2>1, <2>2, BlankType DEF OneResponder, LoopServes, ThreadServes,
                                       OpenFdsDistinct, ScanInv, TypeOK
  <2>4. WaiterRegistered'
    BY <2>1, BlankType DEF WaiterRegistered, Entry, ScanInv, TypeOK
  <2>5. QED
    BY <2>1, <2>3, <2>4
<1>11. QED
  BY <1>4, <1>6, <1>7, <1>8, <1>9, <1>10 DEF ThreadStep

LEMMA PatientStep ==
  ASSUME Impatient = {}, PatientInv, [Next]_vars
  PROVE  PatientInv'
<1>1. ScanInv'
  BY ScanStep DEF PatientInv
<1>2. CASE UNCHANGED vars
  BY <1>1, <1>2 DEF vars, PatientInv, OneResponder, LoopServes, ThreadServes,
                    OpenFdsDistinct, WaiterRegistered, Entry
<1>3. CASE MapRace
  BY <1>1, <1>3 DEF MapRace, PatientInv, OneResponder, LoopServes, ThreadServes,
                    OpenFdsDistinct, WaiterRegistered, Entry
<1>4. QED
  BY <1>1, <1>2, <1>3, PatientCommand, PatientConnection, PatientLoop, PatientThread
     DEF Next, Crashed

LEMMA PatientInvariant == ASSUME Impatient = {} PROVE Spec => []PatientInv
BY PatientInit, PatientStep, PTL DEF Spec

\* If clients wait for their replies, each command has exactly one of the loop and
\* the command's thread to answer it: no reply is doubled and none is forgotten.
THEOREM RepliesHaveOneSender == ASSUME Impatient = {} PROVE Spec => []OneResponder
<1>1. PatientInv => OneResponder
  BY DEF PatientInv
<1>2. QED
  BY <1>1, PatientInvariant, PTL

\* If clients wait for their replies, the map has for each blocked thread the entry and
\* the waiter that its own BLPOP assigned, up to its own erase: no order in which other
\* threads complete an assignment or an erase takes it away.
THEOREM WaitersStayRegistered == ASSUME Impatient = {} PROVE Spec => []WaiterRegistered
<1>1. PatientInv => WaiterRegistered
  BY DEF PatientInv
<1>2. QED
  BY <1>1, PatientInvariant, PTL

\* If clients wait for their replies, a null or freed waiter is never dereferenced, and
\* the process ends only at a moment when two threads use one map and one changes it.
THEOREM CrashNeedsARace == ASSUME Impatient = {} PROVE Spec => OnlyRacesCrash
<1>1. ASSUME PatientInv, [Next]_vars, alive, ~alive'
      PROVE  WaitersRace \/ ListsRace
  <2>1. ASSUME NEW c \in Clients
        PROVE  ~(Connect(c) \/ Disconnect(c) \/ Command(c))
    BY <1>1 DEF Connect, Disconnect, Command, LPush, RPush, Push, LPop, RPop, LLen, LRange, Blpop
  <2>2. ASSUME NEW c \in Clients
        PROVE  ~ThreadStep(c)
    <3>1. thread[c].pc = "start" => Entry(c).waiter # NoClient
      BY <1>1, NoClientAssumption DEF PatientInv, WaiterRegistered
    <3>2. ~ThreadStart(c)
      BY <1>1, <3>1 DEF ThreadStart, Running
    <3>3. ~ThreadDangling(c)
      BY <1>1 DEF ThreadDangling, Running, Dangling, PatientInv, WaiterRegistered
    <3>4. QED
      BY <1>1, <3>2, <3>3 DEF ThreadStep, ThreadWake, Woken, ThreadTimeout, ThreadFound, ThreadNext,
                              ThreadErase, ThreadSend
  <2>3. ~LoopStep
    BY <1>1 DEF LoopStep, Notify, Respond, BlpopFound, BlpopNext, BlpopBlock, Registering
  <2>4. MapRace
    BY <1>1, <2>1, <2>2, <2>3 DEF Next, Crashed, MapRace, vars
  <2>5. QED
    BY <2>4 DEF MapRace
<1>2. QED
  BY <1>1, PatientInvariant, PTL DEF Spec, OnlyRacesCrash

-----------------------------------------------------------------------------
(* LRANGE, for lists of every length and every pair of indexes.            *)

LEMMA RemainderFacts ==
  ASSUME NEW n \in Nat \ {0}, NEW x \in 0 .. n - 1
  PROVE  x % n = x /\ (x + n) % n = x
OBVIOUS

\* The clamps and the remainder give the first index of the documented range.
LEMMA FirstIndex ==
  ASSUME NEW n \in Nat \ {0}, NEW a \in Int, a < n
  PROVE  IndexOf0(a, n) = IF Position(a, n) < 0 THEN 0 ELSE Position(a, n)
<1>1. CASE a < -n
  <2>1. Clamped(a, n) + n = 0 + n /\ Position(a, n) < 0
    BY <1>1 DEF Clamped, Position
  <2>2. (0 + n) % n = 0
    BY RemainderFacts
  <2>3. QED
    BY <2>1, <2>2 DEF IndexOf0
<1>2. CASE a >= -n /\ a < 0
  <2>1. Clamped(a, n) + n = a + n /\ a + n \in 0 .. n - 1 /\ Position(a, n) = a + n
    BY <1>2 DEF Clamped, Position
  <2> DEFINE x == a + n
  <2>2. x % n = x
    <3>1. x \in 0 .. n - 1
      BY <2>1
    <3> HIDE DEF x
    <3>2. QED
      BY <3>1, RemainderFacts
  <2>3. QED
    BY <2>1, <2>2 DEF IndexOf0
<1>3. CASE a >= 0
  <2>1. Clamped(a, n) = a /\ Position(a, n) = a
    BY <1>3 DEF Clamped, Position
  <2>2. (a + n) % n = a
    BY <1>3, RemainderFacts
  <2>3. QED
    BY <1>3, <2>1, <2>2 DEF IndexOf0
<1>4. QED
  BY <1>1, <1>2, <1>3

\* And its last index.
LEMMA LastIndex ==
  ASSUME NEW n \in Nat \ {0}, NEW b \in Int, b >= -n
  PROVE  IndexOf0(b, n) = IF Position(b, n) >= n THEN n - 1 ELSE Position(b, n)
<1>1. CASE b >= n
  <2>1. Clamped(b, n) = n - 1 /\ Position(b, n) >= n
    BY <1>1 DEF Clamped, Position
  <2> DEFINE x == n - 1
  <2>2. (x + n) % n = x
    <3>1. x \in 0 .. n - 1
      OBVIOUS
    <3> HIDE DEF x
    <3>2. QED
      BY <3>1, RemainderFacts
  <2>3. QED
    BY <2>1, <2>2 DEF IndexOf0
<1>2. CASE b < n
  <2>1. Position(b, n) \in 0 .. n - 1
    BY <1>2 DEF Position
  <2>2. IndexOf0(b, n) = Position(b, n)
    BY <1>2, FirstIndex DEF Position
  <2>3. QED
    BY <2>1, <2>2
<1>3. QED
  BY <1>1, <1>2

LEMMA RangedExact ==
  ASSUME NEW S, NEW s \in Seq(S), NEW a \in Int, NEW b \in Int,
         a < Len(s), b >= -Len(s)
  PROVE  Ranged(s, <<a, b>>) = Documented(s, a, b)
<1> DEFINE n == Len(s)
           from == IF Position(a, n) < 0 THEN 0 ELSE Position(a, n)
           upto == IF Position(b, n) >= n THEN n - 1 ELSE Position(b, n)
<1>1. n \in Nat
  OBVIOUS
<1>2. Documented(s, a, b) = SubSeq(s, from + 1, upto + 1)
  BY DEF Documented
<1>3. CASE s = <<>>
  <2>1. from = 0 /\ upto = -1
    BY <1>3 DEF Position
  <2>2. QED
    BY <1>2, <1>3, <2>1 DEF Ranged
<1>4. CASE s # <<>>
  <2>1. n \in Nat \ {0}
    BY <1>4
  <2>2. IndexOf0(a, n) = from /\ IndexOf0(b, n) = upto
    BY <2>1, FirstIndex, LastIndex
  <2>3. Ranged(s, <<a, b>>) = SubSeq(s, IndexOf0(a, n) + 1, IndexOf0(b, n) + 1)
    BY <1>4 DEF Ranged
  <2>4. QED
    BY <1>2, <2>2, <2>3
<1>5. QED
  BY <1>3, <1>4

\* LRANGE answers what it documents, whatever the list and the indexes, unless the
\* range starts behind the list or ends before it.
THEOREM LRangeIsExact == Spec => []LRangeExact
<1>1. TypeOK => LRangeExact
  <2> SUFFICES ASSUME TypeOK, NEW k \in Keys,
                      NEW a \in -(MaxElems + 2) .. MaxElems + 2,
                      NEW b \in -(MaxElems + 2) .. MaxElems + 2,
                      a < Len(lists[k]), b >= -Len(lists[k])
               PROVE  Ranged(lists[k], <<a, b>>) = Documented(lists[k], a, b)
    BY DEF LRangeExact
  <2>1. lists[k] \in Seq(Elems) /\ a \in Int /\ b \in Int
    BY BoundsAssumption DEF TypeOK
  <2>2. QED
    BY <2>1, RangedExact
<1>2. QED
  BY <1>1, TypeCorrect, PTL

-----------------------------------------------------------------------------
(* Sequences in which no element stands twice.                             *)

LEMMA ToSetIs ==
  ASSUME NEW E, NEW s \in Seq(E)
  PROVE  ToSet(s) = {s[i] : i \in 1 .. Len(s)}
BY DEF ToSet

LEMMA NoTwiceConcat ==
  ASSUME NEW E, NEW s \in Seq(E), NEW a \in Seq(E), NEW b \in Seq(E), ConcatenationOf(s, a, b)
  PROVE  /\ ToSet(s) = ToSet(a) \cup ToSet(b)
         /\ NoTwice(s) <=> NoTwice(a) /\ NoTwice(b) /\ ToSet(a) \cap ToSet(b) = {}
<1> DEFINE m == Len(a)
           n == Len(b)
<1>1. m \in Nat /\ n \in Nat /\ Len(s) = m + n
  BY DEF ConcatenationOf
<1>2. /\ ToSet(a) = {a[i] : i \in 1 .. m} /\ ToSet(b) = {b[i] : i \in 1 .. n}
      /\ ToSet(s) = {s[i] : i \in 1 .. m + n}
  <2>1. ToSet(s) = {s[i] : i \in 1 .. m + n}
    BY <1>1, ToSetIs
  <2>2. QED
    BY <2>1, ToSetIs
<1>3. /\ \A i \in 1 .. m : i \in 1 .. m + n /\ s[i] = a[i]
      /\ \A i \in 1 .. n : m + i \in 1 .. m + n /\ s[m + i] = b[i]
  BY <1>1 DEF ConcatenationOf
<1>4. NoTwice(s) <=> \A i, j \in 1 .. m + n : s[i] = s[j] => i = j
  BY <1>1 DEF NoTwice
<1>5. /\ NoTwice(a) <=> \A i, j \in 1 .. m : a[i] = a[j] => i = j
      /\ NoTwice(b) <=> \A i, j \in 1 .. n : b[i] = b[j] => i = j
  BY DEF NoTwice
<1> HIDE DEF m, n
<1>6. ASSUME NEW i \in 1 .. m + n
      PROVE  i \in 1 .. m \/ \E j \in 1 .. n : i = m + j
  <2>1. CASE i > m
    <3>1. i - m \in 1 .. n /\ i = m + (i - m)
      BY <1>1, <2>1
    <3>2. QED
      BY <3>1
  <2>2. QED
    BY <1>1, <2>1
<1>7. ToSet(s) = ToSet(a) \cup ToSet(b)
  <2>1. ToSet(a) \cup ToSet(b) \subseteq ToSet(s)
    BY <1>2, <1>3
  <2>2. ASSUME NEW i \in 1 .. m + n PROVE s[i] \in ToSet(a) \cup ToSet(b)
    BY <1>2, <1>3, <1>6
  <2>3. QED
    BY <1>2, <2>1, <2>2
<1>8. ASSUME NoTwice(s)
      PROVE  NoTwice(a) /\ NoTwice(b) /\ ToSet(a) \cap ToSet(b) = {}
  <2>1. NoTwice(a)
    BY <1>3, <1>4, <1>5, <1>8
  <2>2. NoTwice(b)
    <3>1. ASSUME NEW i \in 1 .. n, NEW j \in 1 .. n, b[i] = b[j] PROVE i = j
      <4>1. m + i = m + j
        BY <1>3, <1>4, <1>8, <3>1
      <4>2. QED
        BY <1>1, <4>1
    <3>2. QED
      BY <1>5, <3>1
  <2>3. ASSUME NEW i \in 1 .. m, NEW j \in 1 .. n, a[i] = b[j] PROVE FALSE
    <3>1. i = m + j
      BY <1>3, <1>4, <1>8, <2>3
    <3>2. QED
      BY <1>1, <3>1
  <2>4. QED
    BY <1>2, <2>1, <2>2, <2>3
<1>9. ASSUME NoTwice(a), NoTwice(b), ToSet(a) \cap ToSet(b) = {}
      PROVE  NoTwice(s)
  <2>1. \A i \in 1 .. m, j \in 1 .. n : a[i] # b[j]
    BY <1>2, <1>9
  <2>2. ASSUME NEW i \in 1 .. m + n, NEW j \in 1 .. m + n, s[i] = s[j] PROVE i = j
    <3>1. CASE i \in 1 .. m /\ j \in 1 .. m
      BY <1>3, <1>5, <1>9, <2>2, <3>1
    <3>2. CASE \E k, l \in 1 .. n : i = m + k /\ j = m + l
      BY <1>3, <1>5, <1>9, <2>2, <3>2
    <3>3. CASE i \in 1 .. m /\ \E l \in 1 .. n : j = m + l
      BY <1>3, <2>1, <2>2, <3>3
    <3>4. CASE j \in 1 .. m /\ \E l \in 1 .. n : i = m + l
      BY <1>3, <2>1, <2>2, <3>4
    <3>5. QED
      BY <1>6, <3>1, <3>2, <3>3, <3>4
  <2>3. QED
    BY <1>4, <2>2
<1>10. QED
  BY <1>7, <1>8, <1>9

LEMMA ReverseNoTwice ==
  ASSUME NEW E, NEW s \in Seq(E)
  PROVE  /\ Reverse(s) \in Seq(E) /\ ToSet(Reverse(s)) = ToSet(s)
         /\ NoTwice(s) => NoTwice(Reverse(s))
<1> DEFINE n == Len(s)
           r == Reverse(s)
<1>1. n \in Nat /\ r \in Seq(E) /\ Len(r) = n /\ \A i \in 1 .. n : r[i] = s[(n - i) + 1]
  BY DEF Reverse
<1>2. ToSet(s) = {s[i] : i \in 1 .. n} /\ ToSet(r) = {r[i] : i \in 1 .. n}
  <2>1. ToSet(r) = {r[i] : i \in 1 .. Len(r)}
    <3> HIDE DEF r
    <3>1. QED
      BY <1>1, ToSetIs
  <2>2. QED
    BY <1>1, <2>1, ToSetIs
<1>3. NoTwice(s) <=> \A i, j \in 1 .. n : s[i] = s[j] => i = j
  BY DEF NoTwice
<1>4. NoTwice(r) <=> \A i, j \in 1 .. n : r[i] = r[j] => i = j
  BY <1>1 DEF NoTwice
<1>5. \A i \in 1 .. n : (n - i) + 1 \in 1 .. n /\ (n - ((n - i) + 1)) + 1 = i
  BY <1>1
<1> HIDE DEF n, r
<1>6. ToSet(r) = ToSet(s)
  <2>1. \A i \in 1 .. n : r[i] \in ToSet(s)
    BY <1>1, <1>2, <1>5
  <2>2. \A i \in 1 .. n : s[i] = r[(n - i) + 1]
    BY <1>1, <1>5
  <2>3. QED
    BY <1>2, <1>5, <2>1, <2>2
<1>7. ASSUME NoTwice(s) PROVE NoTwice(r)
  <2>1. ASSUME NEW i \in 1 .. n, NEW j \in 1 .. n, r[i] = r[j] PROVE i = j
    <3>1. (n - i) + 1 = (n - j) + 1
      BY <1>1, <1>3, <1>5, <1>7, <2>1
    <3>2. QED
      BY <1>1, <3>1
  <2>2. QED
    BY <1>4, <2>1
<1>8. QED
  BY <1>1, <1>6, <1>7 DEF r

\* A pop splits the list.
LEMMA TakenAndLeft ==
  ASSUME NEW E, NEW s \in Seq(E), NEW n \in Nat
  PROVE  /\ Taken(s, n) \in Seq(E) /\ Left(s, n) \in Seq(E)
         /\ ConcatenationOf(s, Taken(s, n), Left(s, n))
<1> DEFINE m == IF n < Len(s) THEN n ELSE Len(s)
<1>1. m \in Nat /\ m <= Len(s) /\ Len(s) \in Nat
  OBVIOUS
<1>2. Taken(s, n) = SubSeq(s, 1, m)
  BY DEF Taken
<1>3. /\ Taken(s, n) \in Seq(E) /\ Len(Taken(s, n)) = m
      /\ \A i \in 1 .. m : Taken(s, n)[i] = s[i]
  BY <1>1, <1>2
<1>4. /\ Left(s, n) \in Seq(E) /\ Len(Left(s, n)) = Len(s) - m
      /\ \A i \in 1 .. Len(s) - m : Left(s, n)[i] = s[m + i]
  <2>1. CASE n < Len(s)
    BY <2>1 DEF Left
  <2>2. CASE ~(n < Len(s))
    <3>1. Left(s, n) = <<>>
      BY <2>2 DEF Left
    <3>2. QED
      BY <1>1, <2>2, <3>1
  <2>3. QED
    BY <2>1, <2>2
<1> HIDE DEF m
<1>5. Len(s) = m + (Len(s) - m)
  BY <1>1
<1>6. QED
  BY <1>3, <1>4, <1>5 DEF ConcatenationOf

LEMMA HeadApart ==
  ASSUME NEW E, NEW s \in Seq(E), s # <<>>
  PROVE  /\ <<Head(s)>> \in Seq(E) /\ Tail(s) \in Seq(E)
         /\ ConcatenationOf(s, <<Head(s)>>, Tail(s))
<1>1. <<Head(s)>> \in Seq(E) /\ Tail(s) \in Seq(E) /\ Len(s) \in Nat \ {0}
  OBVIOUS
<1>2. Len(Tail(s)) = Len(s) - 1 /\ \A i \in 1 .. Len(s) - 1 : Tail(s)[i] = s[1 + i]
  BY <1>1
<1>3. Len(<<Head(s)>>) = 1 /\ <<Head(s)>>[1] = s[1]
  OBVIOUS
<1>4. QED
  BY <1>1, <1>2, <1>3 DEF ConcatenationOf

LEMMA NewElemsFacts ==
  ASSUME next \in Nat, NEW n \in Nat
  PROVE  /\ NewElems(n) \in Seq(next .. (next + n) - 1) /\ NoTwice(NewElems(n))
         /\ ToSet(NewElems(n)) = next .. (next + n) - 1
<1> DEFINE w == NewElems(n)
<1>1. Len(w) = n /\ \A i \in 1 .. n : w[i] = (next + i) - 1
  BY DEF NewElems
<1>2. w \in Seq(next .. (next + n) - 1)
  BY DEF NewElems
<1>3. NoTwice(w)
  BY <1>1 DEF NoTwice, NewElems
<1> HIDE DEF w
<1>4. ToSet(w) = {w[i] : i \in 1 .. n}
  BY <1>1, <1>2, ToSetIs
<1>5. ASSUME NEW e \in next .. (next + n) - 1 PROVE e \in ToSet(w)
  <2>1. (e - next) + 1 \in 1 .. n /\ (next + ((e - next) + 1)) - 1 = e
    OBVIOUS
  <2>2. QED
    BY <1>1, <1>4, <2>1
<1>6. \A i \in 1 .. n : w[i] \in next .. (next + n) - 1
  BY <1>1
<1>7. QED
  BY <1>2, <1>3, <1>4, <1>5, <1>6 DEF w

-----------------------------------------------------------------------------
(* What moves elements, and what becomes of Shared.                        *)

\* Those at the head of what x holds go to y, who held nothing.
LEMMA SharedMove ==
  ASSUME NEW D, NEW E, NEW H, NEW G, NEW gone, NEW n, Shared(D, H, gone, n),
         NEW x \in D, NEW y \in D, x # y, H[x] \in Seq(E), H[y] = <<>>,
         NEW a \in Seq(E), NEW b \in Seq(E), ConcatenationOf(H[x], a, b),
         G[x] = b, G[y] = a, \A h \in D \ {x, y} : G[h] = H[h]
  PROVE  Shared(D, G, gone, n)
<1>1. /\ ToSet(H[x]) = ToSet(G[y]) \cup ToSet(G[x])
      /\ NoTwice(G[x]) /\ NoTwice(G[y]) /\ ToSet(G[y]) \cap ToSet(G[x]) = {}
  BY NoTwiceConcat DEF Shared
<1>2. ToSet(H[y]) = {}
  BY DEF ToSet
<1>3. \A h \in D : NoTwice(G[h]) /\ ToSet(G[h]) \cap gone = {}
  BY <1>1 DEF Shared
<1>4. ASSUME NEW h \in D, NEW g \in D, h # g
      PROVE  ToSet(G[h]) \cap ToSet(G[g]) = {}
  <2>1. CASE h \notin {x, y} /\ g \notin {x, y}
    BY <1>4, <2>1 DEF Shared
  <2>2. CASE h \in {x, y} /\ g \notin {x, y}
    BY <1>1, <2>2 DEF Shared
  <2>3. CASE h \notin {x, y} /\ g \in {x, y}
    BY <1>1, <2>3 DEF Shared
  <2>4. CASE h \in {x, y} /\ g \in {x, y}
    BY <1>1, <1>4, <2>4
  <2>5. QED
    BY <2>1, <2>2, <2>3, <2>4
<1>5. UNION {ToSet(G[h]) : h \in D} = UNION {ToSet(H[h]) : h \in D}
  <2>1. ASSUME NEW e, NEW h \in D, e \in ToSet(G[h]) PROVE \E g \in D : e \in ToSet(H[g])
    BY <1>1, <2>1
  <2>2. ASSUME NEW e, NEW h \in D, e \in ToSet(H[h]) PROVE \E g \in D : e \in ToSet(G[g])
    BY <1>1, <1>2, <2>2
  <2>3. QED
    BY <2>1, <2>2
<1>6. QED
  BY <1>3, <1>4, <1>5 DEF Shared

\* What y holds is gone.
LEMMA SharedSend ==
  ASSUME NEW D, NEW H, NEW G, NEW gone, NEW n, Shared(D, H, gone, n),
         NEW y \in D, G[y] = <<>>, \A h \in D \ {y} : G[h] = H[h]
  PROVE  Shared(D, G, gone \cup ToSet(H[y]), n)
<1>1. ToSet(G[y]) = {} /\ NoTwice(G[y])
  BY DEF ToSet, NoTwice
<1>2. ASSUME NEW h \in D
      PROVE  NoTwice(G[h]) /\ ToSet(G[h]) \cap (gone \cup ToSet(H[y])) = {}
  BY <1>1 DEF Shared
<1>3. \A h, g \in D : h # g => ToSet(G[h]) \cap ToSet(G[g]) = {}
  BY <1>1 DEF Shared
<1>4. gone \cup ToSet(H[y]) \cup UNION {ToSet(G[h]) : h \in D} = gone \cup UNION {ToSet(H[h]) : h \in D}
  <2>1. UNION {ToSet(G[h]) : h \in D} \subseteq UNION {ToSet(H[h]) : h \in D}
    BY <1>1
  <2>2. UNION {ToSet(H[h]) : h \in D} \subseteq ToSet(H[y]) \cup UNION {ToSet(G[h]) : h \in D}
    OBVIOUS
  <2>3. QED
    BY <2>1, <2>2
<1>5. QED
  BY <1>2, <1>3, <1>4 DEF Shared

\* The next elements enter what x holds, on either side.
LEMMA SharedAdd ==
  ASSUME NEW D, NEW H, NEW G, NEW gone, NEW n \in Nat \ {0}, NEW m \in Nat, Shared(D, H, gone, n),
         NEW x \in D, NEW E, NEW w \in Seq(E), H[x] \in Seq(E), NoTwice(w),
         ToSet(w) = n .. (n + m) - 1, G[x] \in Seq(E),
         ConcatenationOf(G[x], w, H[x]) \/ ConcatenationOf(G[x], H[x], w),
         \A h \in D \ {x} : G[h] = H[h]
  PROVE  Shared(D, G, gone, n + m)
<1> DEFINE new == n .. (n + m) - 1
           old == 1 .. n - 1
<1>1. new \cap old = {} /\ new \cup old = 1 .. (n + m) - 1
  OBVIOUS
<1> HIDE DEF new, old
<1>2. gone \subseteq old /\ \A h \in D : ToSet(H[h]) \subseteq old
  BY DEF Shared, old
<1>3. ToSet(w) = new
  BY DEF new
<1>4. NoTwice(G[x]) /\ ToSet(G[x]) = new \cup ToSet(H[x])
  <2>1. NoTwice(H[x]) /\ ToSet(w) \cap ToSet(H[x]) = {}
    BY <1>1, <1>2, <1>3 DEF Shared
  <2>2. QED
    BY <1>3, <2>1, NoTwiceConcat
<1>5. \A h \in D : NoTwice(G[h]) /\ ToSet(G[h]) \cap gone = {}
  BY <1>1, <1>2, <1>4 DEF Shared
<1>6. ASSUME NEW h \in D, NEW g \in D, h # g
      PROVE  ToSet(G[h]) \cap ToSet(G[g]) = {}
  <2>1. ToSet(H[h]) \cap ToSet(H[g]) = {}
    BY <1>6 DEF Shared
  <2>2. QED
    BY <1>1, <1>2, <1>4, <1>6, <2>1
<1>7. gone \cup UNION {ToSet(G[h]) : h \in D} = new \cup old
  <2>1. UNION {ToSet(G[h]) : h \in D} = new \cup UNION {ToSet(H[h]) : h \in D}
    <3>1. ASSUME NEW h \in D PROVE ToSet(G[h]) \subseteq new \cup ToSet(H[h])
      BY <1>4
    <3>2. \A h \in D : ToSet(H[h]) \subseteq ToSet(G[h])
      BY <1>4
    <3>3. new \subseteq ToSet(G[x])
      BY <1>4
    <3>4. QED
      BY <3>1, <3>2, <3>3
  <2>2. gone \cup UNION {ToSet(H[h]) : h \in D} = old
    BY DEF Shared, old
  <2>3. QED
    BY <2>1, <2>2
<1>8. QED
  BY <1>1, <1>5, <1>6, <1>7 DEF Shared

LEMMA SharedSame ==
  ASSUME NEW D, NEW H, NEW G, NEW gone, NEW n, Shared(D, H, gone, n), \A h \in D : G[h] = H[h]
  PROVE  Shared(D, G, gone, n)
<1>1. {ToSet(G[h]) : h \in D} = {ToSet(H[h]) : h \in D}
  OBVIOUS
<1>2. QED
  BY <1>1 DEF Shared

-----------------------------------------------------------------------------
(* Who holds what, before and after a step.                                *)

LEMMA HoldersAre ==
  /\ \A k \in Keys : ListOf(k) \in Holders
  /\ \A c \in Clients \cup {NoClient} : ReplyOf(c) \in Holders
  /\ \A h \in Holders : \/ \E k \in Keys : h = ListOf(k)
                        \/ \E c \in Clients : h = ReplyOf(c)
                        \/ h = ReplyOf(NoClient)
  /\ \A x, y : ListOf(x) # ReplyOf(y)
  /\ \A x, y : ListOf(x) = ListOf(y) => x = y
  /\ \A x, y : ReplyOf(x) = ReplyOf(y) => x = y
BY DEF Holders, ListOf, ReplyOf

LEMMA HeldAre ==
  /\ \A k \in Keys : Held[ListOf(k)] = lists[k] /\ Held'[ListOf(k)] = lists'[k]
  /\ \A c \in Clients : /\ Held[ReplyOf(c)] = Handed(thread[c].resp)
                        /\ Held'[ReplyOf(c)] = Handed(thread'[c].resp)
  /\ Held[ReplyOf(NoClient)] = Handed(loop.resp)
  /\ Held'[ReplyOf(NoClient)] = Handed(loop'.resp)
<1>1. /\ \A h \in Holders : Held[h] = Holding(h)
      /\ \A h \in Holders : Held'[h] = Holding(h)'
  BY DEF Held, Holders
<1>2. ASSUME NEW k \in Keys PROVE Holding(ListOf(k)) = lists[k] /\ Holding(ListOf(k))' = lists'[k]
  BY DEF Holding, ListOf
<1>3. ASSUME NEW c \in Clients
      PROVE  /\ Holding(ReplyOf(c)) = Handed(thread[c].resp)
             /\ Holding(ReplyOf(c))' = Handed(thread'[c].resp)
  BY NoClientAssumption DEF Holding, ReplyOf, Handed
<1>4. /\ Holding(ReplyOf(NoClient)) = Handed(loop.resp)
      /\ Holding(ReplyOf(NoClient))' = Handed(loop'.resp)
  BY DEF Holding, ReplyOf, Handed
<1>5. QED
  BY <1>1, <1>2, <1>3, <1>4, HoldersAre

LEMMA ElementTypes ==
  ASSUME TypeOK
  PROVE  /\ \A k \in Keys : lists[k] \in Seq(Elems)
         /\ \A c \in Clients : thread[c] \in ThreadStates /\ Handed(thread[c].resp) \in Seq(Elems)
         /\ Handed(loop.resp) \in Seq(Elems)
         /\ next \in Nat \ {0} /\ next <= MaxElems + 1
BY BoundsAssumption DEF TypeOK, ThreadStates, LoopStates, Handed, Replies

\* Neither a list nor a reply changes.
LEMMA SharedStays ==
  ASSUME Shared(Holders, Held, sent, next), UNCHANGED <<lists, sent, next>>,
         Handed(loop'.resp) = Handed(loop.resp),
         \A c \in Clients : Handed(thread'[c].resp) = Handed(thread[c].resp)
  PROVE  Shared(Holders, Held', sent', next')
<1>1. \A h \in Holders : Held'[h] = Held[h]
  BY HoldersAre, HeldAre
<1>2. Shared(Holders, Held', sent, next)
  BY <1>1, SharedSame
<1>3. QED
  BY <1>2

\* The head of a list becomes the reply of the loop or of a thread.
LEMMA SharedTaken ==
  ASSUME TypeOK, Shared(Holders, Held, sent, next), UNCHANGED <<sent, next>>,
         NEW k \in Keys, NEW a \in Seq(Elems), NEW b \in Seq(Elems),
         ConcatenationOf(lists[k], a, b), lists' = [lists EXCEPT ![k] = b],
         NEW w \in Clients \cup {NoClient}, Held[ReplyOf(w)] = <<>>, Held'[ReplyOf(w)] = a,
         w # NoClient => Handed(loop'.resp) = Handed(loop.resp),
         \A c \in Clients : c # w => Handed(thread'[c].resp) = Handed(thread[c].resp)
  PROVE  Shared(Holders, Held', sent', next')
<1>1. /\ ListOf(k) \in Holders /\ ReplyOf(w) \in Holders /\ ListOf(k) # ReplyOf(w)
      /\ Held[ListOf(k)] = lists[k] /\ lists[k] \in Seq(Elems)
  BY HoldersAre, HeldAre, ElementTypes
<1>2. Held'[ListOf(k)] = b
  BY HeldAre DEF TypeOK
<1>3. \A l \in Keys : l # k => lists'[l] = lists[l]
  BY DEF TypeOK
<1>4. \A h \in Holders \ {ListOf(k), ReplyOf(w)} : Held'[h] = Held[h]
  <2>1. ASSUME NEW l \in Keys, ListOf(l) # ListOf(k) PROVE Held'[ListOf(l)] = Held[ListOf(l)]
    BY <1>3, <2>1, HeldAre
  <2>2. ASSUME NEW c \in Clients, ReplyOf(c) # ReplyOf(w) PROVE Held'[ReplyOf(c)] = Held[ReplyOf(c)]
    BY <2>2, HeldAre
  <2>3. ASSUME ReplyOf(NoClient) # ReplyOf(w)
        PROVE  Held'[ReplyOf(NoClient)] = Held[ReplyOf(NoClient)]
    BY <2>3, HeldAre
  <2>4. QED
    BY <2>1, <2>2, <2>3, HoldersAre
<1>5. Shared(Holders, Held', sent, next)
  BY <1>1, <1>2, <1>4, SharedMove
<1>6. QED
  BY <1>5

\* The reply of the loop or of a thread is sent.
LEMMA SharedSent ==
  ASSUME Shared(Holders, Held, sent, next), UNCHANGED <<lists, next>>,
         NEW w \in Clients \cup {NoClient}, Held'[ReplyOf(w)] = <<>>,
         sent' = sent \cup ToSet(Held[ReplyOf(w)]),
         w # NoClient => Handed(loop'.resp) = Handed(loop.resp),
         \A c \in Clients : c # w => Handed(thread'[c].resp) = Handed(thread[c].resp)
  PROVE  Shared(Holders, Held', sent', next')
<1>1. ReplyOf(w) \in Holders
  BY HoldersAre
<1>2. \A h \in Holders \ {ReplyOf(w)} : Held'[h] = Held[h]
  <2>1. ASSUME NEW c \in Clients, ReplyOf(c) # ReplyOf(w) PROVE Held'[ReplyOf(c)] = Held[ReplyOf(c)]
    BY <2>1, HeldAre
  <2>2. ASSUME ReplyOf(NoClient) # ReplyOf(w)
        PROVE  Held'[ReplyOf(NoClient)] = Held[ReplyOf(NoClient)]
    BY <2>2, HeldAre
  <2>3. QED
    BY <2>1, <2>2, HoldersAre, HeldAre
<1>3. Shared(Holders, Held', sent \cup ToSet(Held[ReplyOf(w)]), next)
  BY <1>1, <1>2, SharedSend
<1>4. QED
  BY <1>3

-----------------------------------------------------------------------------
(* The steps.                                                              *)

LEMMA BlankHolds ==
  /\ Handed(NoReply) = <<>> /\ Handed(IdleLoop.resp) = <<>> /\ Handed(NoThread.resp) = <<>>
  /\ \A kind \in Kinds : Handed(Reply(kind, <<>>)) = <<>>
  /\ \A elems : Handed(Reply("range", elems)) = <<>>
  /\ \A elems : /\ Handed(Reply("pop", elems)) = elems
                /\ Handed(Reply("pair", elems)) = elems
  /\ \A c, resp : Answer(c, resp).pc = "reply" /\ Answer(c, resp).resp = resp
                  /\ Answer(c, resp).client = c
BY DEF NoReply, Reply, Handed, IdleLoop, LoopAt, NoThread, ThreadAt, Answer

LEMMA ElementsInit == Init => ElementsInv
<1> SUFFICES ASSUME Init PROVE ElementsInv
  OBVIOUS
<1>1. ScanInv
  BY ScanInit
<1>2. RepliesBuilt
  BY BlankHolds, BlankType DEF Init, RepliesBuilt
<1>3. \A h \in Holders : Held[h] = <<>>
  BY HoldersAre, HeldAre, BlankHolds DEF Init
<1>4. \A h \in Holders : NoTwice(Held[h]) /\ ToSet(Held[h]) = {}
  BY <1>3 DEF NoTwice, ToSet
<1>5. sent = {} /\ 1 .. next - 1 = {}
  BY DEF Init
<1>6. Shared(Holders, Held, sent, next)
  BY <1>4, <1>5 DEF Shared
<1>7. QED
  BY <1>1, <1>2, <1>6 DEF ElementsInv

LEMMA ServeKeeps ==
  ASSUME ElementsInv, ScanInv', NEW c \in Clients, NEW l, Serve(c, l), UNCHANGED thread,
         Shared(Holders, Held', sent', next'),
         l.pc \in {"notify", "scan"} => Handed(l.resp) = <<>>,
         l.pc # "idle", l.pc = "scan" => l.client = c /\ thread[c].pc = "none"
  PROVE  ElementsInv'
<1>1. loop' = l
  BY DEF Serve
<1>2. RepliesBuilt'
  BY <1>1 DEF ElementsInv, RepliesBuilt
<1>3. QED
  BY <1>2 DEF ElementsInv

LEMMA ElementsCommand ==
  ASSUME ElementsInv, ScanInv', NEW c \in Clients, Command(c)
  PROVE  ElementsInv'
<1>1. Handed(loop.resp) = <<>> /\ TypeOK /\ Shared(Holders, Held, sent, next)
  BY DEF ElementsInv, ScanInv, RepliesBuilt, Command, LPush, RPush, Push, LPop, RPop, LLen, LRange,
         Blpop, Serve, LoopIdle
<1>2. ASSUME NEW resp, Handed(resp) = <<>>, Serve(c, Answer(c, resp)),
             UNCHANGED <<lists, thread, sent, next>>
      PROVE  ElementsInv'
  <2>1. Handed(loop'.resp) = <<>>
    BY <1>2, BlankHolds DEF Serve
  <2>2. Shared(Holders, Held', sent', next')
    BY <1>1, <1>2, <2>1, SharedStays
  <2>3. QED
    BY <1>2, <2>2, BlankHolds, ServeKeeps
<1>3. ASSUME NEW k \in Keys, NEW n \in 1 .. MaxPush, LPush(c, k, n) \/ RPush(c, k, n)
      PROVE  ElementsInv'
  <2> DEFINE w == NewElems(n)
             l == LoopAt("notify", c, <<k>>, n, NoReply)
  <2>1. n \in Nat /\ next \in Nat \ {0} /\ next + n <= MaxElems + 1 /\ MaxElems \in Nat
    BY <1>1, <1>3, ElementTypes, BoundsAssumption DEF LPush, RPush, Push
  <2>2. w \in Seq(next .. (next + n) - 1) /\ NoTwice(w) /\ ToSet(w) = next .. (next + n) - 1
    BY <2>1, NewElemsFacts
  <2>3. w \in Seq(Elems) /\ lists[k] \in Seq(Elems)
    BY <1>1, <1>3, NewElemsType, ElementTypes DEF LPush, RPush, Push
  <2> HIDE DEF w
  <2>4. /\ Reverse(w) \in Seq(Elems) /\ NoTwice(Reverse(w))
        /\ ToSet(Reverse(w)) = next .. (next + n) - 1
    BY <2>2, <2>3, ReverseNoTwice
  <2>5. PICK t \in Seq(Elems), u \in Seq(Elems) :
          /\ ConcatenationOf(t, u, lists[k]) \/ ConcatenationOf(t, lists[k], u)
          /\ NoTwice(u) /\ ToSet(u) = next .. (next + n) - 1
          /\ Push(c, k, n, t)
    <3>1. CASE LPush(c, k, n)
      BY <2>3, <2>4, <3>1, ConcatPlaces DEF LPush, w
    <3>2. CASE RPush(c, k, n)
      BY <2>2, <2>3, <3>2, ConcatPlaces DEF RPush, w
    <3>3. QED
      BY <1>3, <3>1, <3>2
  <2>6. lists' = [lists EXCEPT ![k] = t] /\ next' = next + n /\ UNCHANGED <<thread, sent>> /\ Serve(c, l)
    BY <2>5 DEF Push
  <2>7. l.pc = "notify" /\ Handed(l.resp) = <<>>
    BY BlankHolds DEF LoopAt
  <2> HIDE DEF l
  <2>8. Handed(loop'.resp) = <<>>
    BY <2>6, <2>7 DEF Serve
  <2>9. /\ ListOf(k) \in Holders /\ Held[ListOf(k)] = lists[k] /\ Held'[ListOf(k)] = t
        /\ \A h \in Holders \ {ListOf(k)} : Held'[h] = Held[h]
    <3>1. lists'[k] = t /\ \A j \in Keys : j # k => lists'[j] = lists[j]
      BY <1>1, <2>6 DEF TypeOK
    <3>2. QED
      BY <1>1, <2>6, <2>8, <3>1, HoldersAre, HeldAre
  <2>10. Shared(Holders, Held', sent, next + n)
    BY <1>1, <2>1, <2>3, <2>5, <2>9, SharedAdd
  <2>11. Shared(Holders, Held', sent', next')
    BY <2>6, <2>10
  <2>12. QED
    BY <2>6, <2>7, <2>11, ServeKeeps
<1>4. ASSUME NEW k \in Keys, NEW n \in 1 .. MaxPush, LPop(c, k, n)
      PROVE  ElementsInv'
  <2> DEFINE s == lists[k]
             resp == LPopReply(s, n)
  <2>1. s \in Seq(Elems) /\ n \in Nat
    BY <1>1, ElementTypes, BoundsAssumption
  <2>2. /\ Taken(s, n) \in Seq(Elems) /\ Left(s, n) \in Seq(Elems)
        /\ ConcatenationOf(s, Taken(s, n), Left(s, n))
    BY <2>1, TakenAndLeft
  <2>3. Handed(resp) = Taken(s, n)
    <3>1. CASE s = <<>>
      <4>1. Taken(s, n) = <<>>
        BY <2>1, <3>1 DEF Taken
      <4>2. QED
        BY <3>1, <4>1, BlankHolds DEF LPopReply, Kinds
    <3>2. CASE s # <<>>
      BY <3>2, BlankHolds DEF LPopReply
    <3>3. QED
      BY <3>1, <3>2
  <2>4. Serve(c, Answer(c, resp)) /\ UNCHANGED <<thread, sent, next>>
    BY <1>4 DEF LPop
  <2>5. lists' = [lists EXCEPT ![k] = Left(s, n)]
    BY <1>4 DEF LPop
  <2>6. Held[ReplyOf(NoClient)] = <<>> /\ Held'[ReplyOf(NoClient)] = Taken(s, n)
    BY <1>1, <2>3, <2>4, HeldAre, BlankHolds DEF Serve
  <2> HIDE DEF s, resp
  <2>7. Shared(Holders, Held', sent', next')
    BY <1>1, <2>2, <2>4, <2>5, <2>6, SharedTaken DEF s
  <2>8. QED
    BY <2>4, <2>7, BlankHolds, ServeKeeps
<1>5. ASSUME NEW k \in Keys, RPop(c, k) \/ LLen(c, k)
      PROVE  ElementsInv'
  BY <1>2, <1>5, BlankHolds DEF RPop, LLen, Kinds
<1>6. ASSUME NEW k \in Keys, NEW r \in Ranges, LRange(c, k, r)
      PROVE  ElementsInv'
  BY <1>2, <1>6, BlankHolds DEF LRange
<1>7. ASSUME NEW ks \in BlockKeys[c], Blpop(c, ks)
      PROVE  ElementsInv'
  <2> DEFINE l == LoopAt("scan", c, ks, 0, NoReply)
  <2>1. l.pc = "scan" /\ l.client = c /\ Handed(l.resp) = <<>>
    BY BlankHolds DEF LoopAt
  <2> HIDE DEF l
  <2>2. Serve(c, l) /\ thread[c].pc = "none" /\ UNCHANGED <<lists, thread, sent, next>>
    BY <1>7 DEF Blpop, l
  <2>3. Handed(loop'.resp) = Handed(loop.resp)
    BY <1>1, <2>1, <2>2 DEF Serve
  <2>4. Shared(Holders, Held', sent', next')
    BY <1>1, <2>2, <2>3, SharedStays
  <2>5. QED
    BY <2>1, <2>2, <2>4, ServeKeeps
<1>8. QED
  BY <1>3, <1>4, <1>5, <1>6, <1>7 DEF Command

LEMMA ElementsLoop ==
  ASSUME ElementsInv, ScanInv', LoopStep
  PROVE  ElementsInv'
<1>1. TypeOK /\ ScanInv /\ RepliesBuilt /\ Shared(Holders, Held, sent, next) /\ NoClient \notin Clients
  BY NoClientAssumption DEF ElementsInv, ScanInv
<1>2. CASE Notify
  <2>1. Handed(loop.resp) = <<>> /\ Handed(loop'.resp) = <<>> /\ loop'.pc = "reply"
    BY <1>1, <1>2, BlankHolds DEF Notify, RepliesBuilt, Kinds
  <2>2. Shared(Holders, Held', sent', next')
    BY <1>1, <1>2, <2>1, SharedStays DEF Notify
  <2>3. RepliesBuilt'
    BY <1>1, <1>2, <2>1 DEF Notify, RepliesBuilt
  <2>4. QED
    BY <2>2, <2>3 DEF ElementsInv
<1>3. CASE Respond
  <2>1. Held[ReplyOf(NoClient)] = Handed(loop.resp) /\ Held'[ReplyOf(NoClient)] = <<>>
    BY <1>3, HeldAre, BlankHolds DEF Respond
  <2>2. sent' = sent \cup ToSet(Held[ReplyOf(NoClient)])
    BY <1>3, <2>1 DEF Respond
  <2>3. Shared(Holders, Held', sent', next')
    BY <1>1, <1>3, <2>1, <2>2, SharedSent DEF Respond
  <2>4. RepliesBuilt'
    BY <1>1, <1>3, BlankHolds, BlankType DEF Respond, RepliesBuilt
  <2>5. QED
    BY <2>3, <2>4 DEF ElementsInv
<1>4. CASE BlpopFound
  <2>1. PICK k \in Keys : k = ScanKey
    <3>1. ScanKey \in Keys
      <4>1. loop.keys \in Seq(Keys)
        BY <1>1 DEF TypeOK, LoopStates
      <4>2. loop.i \in DOMAIN loop.keys
        BY <1>1, <1>4 DEF BlpopFound, Scanning, ScanInv, ScannedEmpty
      <4>3. QED
        BY <4>1, <4>2 DEF ScanKey
    <3>2. QED
      BY <3>1
  <2>2. lists[k] \in Seq(Elems) /\ lists[k] # <<>>
    BY <1>1, <1>4, <2>1, ElementTypes DEF BlpopFound
  <2> DEFINE a == <<Head(lists[k])>>
             b == Tail(lists[k])
  <2>3. a \in Seq(Elems) /\ b \in Seq(Elems) /\ ConcatenationOf(lists[k], a, b)
    BY <2>2, HeadApart
  <2>4. lists' = [lists EXCEPT ![k] = b] /\ UNCHANGED <<thread, sent, next>>
    BY <1>4, <2>1 DEF BlpopFound, PopFirst
  <2>5. Held[ReplyOf(NoClient)] = <<>> /\ Held'[ReplyOf(NoClient)] = a /\ loop'.pc = "reply"
    BY <1>1, <1>4, <2>1, HeldAre, BlankHolds DEF BlpopFound, Scanning, RepliesBuilt
  <2> HIDE DEF a, b
  <2>6. Shared(Holders, Held', sent', next')
    BY <1>1, <2>3, <2>4, <2>5, SharedTaken
  <2>7. RepliesBuilt'
    BY <1>1, <2>4, <2>5 DEF RepliesBuilt
  <2>8. QED
    BY <2>6, <2>7 DEF ElementsInv
<1>5. CASE BlpopNext
  <2>1. /\ loop'.pc = "scan" /\ loop'.client = loop.client /\ loop'.resp = loop.resp /\ loop.pc = "scan"
        /\ UNCHANGED <<thread, lists, sent, next>>
    BY <1>1, <1>5 DEF BlpopNext, Scanning, TypeOK, LoopStates
  <2>2. Shared(Holders, Held', sent', next')
    BY <1>1, <2>1, SharedStays
  <2>3. RepliesBuilt'
    BY <1>1, <2>1 DEF RepliesBuilt
  <2>4. QED
    BY <2>2, <2>3 DEF ElementsInv
<1>6. CASE BlpopBlock
  <2> DEFINE t == ThreadAt("start", <<>>, NoClient, NoReply)
  <2>1. PICK c \in Clients : c = loop.client /\ thread[c].pc = "none"
    BY <1>1, <1>6 DEF BlpopBlock, Registering, Scanning, RepliesBuilt
  <2>2. t.pc = "start" /\ Handed(t.resp) = <<>>
    BY BlankHolds DEF ThreadAt
  <2> HIDE DEF t
  <2>3. /\ thread'[c] = t /\ \A d \in Clients : d # c => thread'[d] = thread[d]
        /\ loop' = IdleLoop /\ UNCHANGED <<lists, sent, next>> /\ loop.pc = "scan"
    BY <1>1, <1>6, <2>1 DEF BlpopBlock, Registering, Scanning, LoopAfterBlock, TypeOK, t
  <2>4. Handed(thread[c].resp) = <<>> /\ Handed(loop.resp) = <<>>
    BY <1>1, <2>1, <2>3 DEF RepliesBuilt
  <2>5. Shared(Holders, Held', sent', next')
    BY <1>1, <2>2, <2>3, <2>4, BlankHolds, SharedStays
  <2>6. RepliesBuilt'
    BY <1>1, <2>2, <2>3, BlankHolds, BlankType DEF RepliesBuilt
  <2>7. QED
    BY <2>5, <2>6 DEF ElementsInv
<1>7. QED
  BY <1>2, <1>3, <1>4, <1>5, <1>6 DEF LoopStep

LEMMA ElementsThread ==
  ASSUME ElementsInv, ScanInv', NEW c \in Clients, ThreadStep(c)
  PROVE  ElementsInv'
<1>1. /\ TypeOK /\ ScanInv /\ RepliesBuilt /\ Shared(Holders, Held, sent, next)
      /\ NoClient \notin Clients /\ thread[c] \in ThreadStates
  BY NoClientAssumption, ElementTypes DEF ElementsInv, ScanInv
<1>2. thread[c].pc # "none" /\ UNCHANGED loop
  BY DEF ThreadStep, ThreadStart, ThreadWake, Woken, ThreadTimeout, ThreadDangling, ThreadFound,
         ThreadNext, ThreadErase, ThreadSend, Running
<1>3. ASSUME \A d \in Clients : d # c => thread'[d] = thread[d],
             thread'[c].pc \in {"none", "start", "waiting", "scan"} => Handed(thread'[c].resp) = <<>>,
             Shared(Holders, Held', sent', next')
      PROVE  ElementsInv'
  <2>1. RepliesBuilt'
    BY <1>1, <1>2, <1>3 DEF RepliesBuilt
  <2>2. QED
    BY <1>3, <2>1 DEF ElementsInv
<1>4. ASSUME NEW t, thread' = [thread EXCEPT ![c] = t], Handed(t.resp) = Handed(thread[c].resp),
             t.pc \in {"none", "start", "waiting", "scan"} => Handed(t.resp) = <<>>,
             UNCHANGED <<lists, sent, next>>
      PROVE  ElementsInv'
  <2>1. thread'[c] = t /\ \A d \in Clients : d # c => thread'[d] = thread[d]
    BY <1>1, <1>4 DEF TypeOK
  <2>2. Shared(Holders, Held', sent', next')
    BY <1>1, <1>2, <1>4, <2>1, SharedStays
  <2>3. QED
    BY <1>3, <1>4, <2>1, <2>2
<1>5. thread[c].pc \in {"start", "waiting", "scan"} => Handed(thread[c].resp) = <<>>
  BY <1>1 DEF RepliesBuilt
<1>6. CASE ThreadStart(c)
  <2>1. CASE thread' = thread
    BY <1>1, <1>2, <1>3, <1>5, <1>6, <2>1, SharedStays DEF ThreadStart, Running
  <2>2. CASE thread' = [thread EXCEPT ![c].pc = "waiting", ![c].waiter = Entry(c).waiter]
    <3> DEFINE t == [thread[c] EXCEPT !.pc = "waiting", !.waiter = Entry(c).waiter]
    <3>1. thread' = [thread EXCEPT ![c] = t]
      BY <1>1, <2>2 DEF TypeOK
    <3>2. t.resp = thread[c].resp
      BY <1>1 DEF ThreadStates
    <3> HIDE DEF t
    <3>3. QED
      BY <1>4, <1>5, <1>6, <3>1, <3>2 DEF ThreadStart, Running
  <2>3. QED
    BY <1>6, <2>1, <2>2 DEF ThreadStart
<1>7. CASE ThreadWake(c)
  <2> DEFINE t == IF Entry(c).keys = <<>>
                  THEN ThreadAt("erase", <<>>, thread[c].waiter, Reply("nilarray", <<>>))
                  ELSE ThreadAt("scan", Entry(c).keys, thread[c].waiter, NoReply)
  <2>1. Handed(t.resp) = <<>>
    BY BlankHolds DEF ThreadAt, Kinds
  <2>2. thread' = [thread EXCEPT ![c] = t]
    BY <1>7 DEF ThreadWake, Woken
  <2> HIDE DEF t
  <2>3. QED
    BY <1>4, <1>5, <1>7, <2>1, <2>2 DEF ThreadWake, Woken, Running
<1>8. CASE ThreadTimeout(c)
  <2> DEFINE t == [thread[c] EXCEPT !.pc = "erase", !.resp = Reply("nilarray", <<>>)]
  <2>1. Handed(t.resp) = <<>> /\ t.pc = "erase"
    BY <1>1, BlankHolds DEF ThreadStates, Kinds
  <2>2. thread' = [thread EXCEPT ![c] = t]
    BY <1>1, <1>8 DEF ThreadTimeout, TypeOK
  <2> HIDE DEF t
  <2>3. QED
    BY <1>4, <1>5, <1>8, <2>1, <2>2 DEF ThreadTimeout, Running
<1>9. CASE ThreadDangling(c)
  BY <1>1, <1>3, <1>5, <1>9, <1>2, SharedStays DEF ThreadDangling, Running
<1>10. CASE ThreadFound(c)
  <2>1. PICK k \in Keys : k = ThreadKey(c)
    BY <1>1, <1>10 DEF ThreadFound, Running, ThreadKey, ScanInv, ThreadIndexed, TypeOK, ThreadStates
  <2>2. lists[k] \in Seq(Elems) /\ lists[k] # <<>>
    BY <1>1, <1>10, <2>1, ElementTypes DEF ThreadFound
  <2> DEFINE a == <<Head(lists[k])>>
             b == Tail(lists[k])
             t == [thread[c] EXCEPT !.pc = "erase", !.resp = Reply("pair", a)]
  <2>3. a \in Seq(Elems) /\ b \in Seq(Elems) /\ ConcatenationOf(lists[k], a, b)
    BY <2>2, HeadApart
  <2>4. lists' = [lists EXCEPT ![k] = b] /\ UNCHANGED <<sent, next>>
    BY <1>10, <2>1 DEF ThreadFound, PopFirst
  <2>5. thread' = [thread EXCEPT ![c] = t]
    BY <1>1, <1>10, <2>1 DEF ThreadFound, TypeOK
  <2> HIDE DEF a, b
  <2>6. Handed(t.resp) = a /\ t.pc = "erase"
    BY <1>1, BlankHolds DEF ThreadStates
  <2> HIDE DEF t
  <2>7. thread'[c] = t /\ \A d \in Clients : d # c => thread'[d] = thread[d]
    BY <1>1, <2>5 DEF TypeOK
  <2>8. Held[ReplyOf(c)] = <<>> /\ Held'[ReplyOf(c)] = a
    BY <1>1, <1>5, <1>10, <2>6, <2>7, HeldAre DEF ThreadFound, Running
  <2>9. Shared(Holders, Held', sent', next')
    BY <1>1, <1>2, <2>3, <2>4, <2>7, <2>8, SharedTaken
  <2>10. QED
    BY <1>3, <2>6, <2>7, <2>9
<1>11. CASE ThreadNext(c)
  <2> DEFINE i == thread[c].i + 1
             t == [thread[c] EXCEPT !.i = i]
             u == [thread[c] EXCEPT !.pc = "erase", !.resp = Reply("nil", <<>>)]
  <2>1. thread' = [thread EXCEPT ![c] = t] \/ thread' = [thread EXCEPT ![c] = u]
    BY <1>1, <1>11 DEF ThreadNext, TypeOK
  <2>2. t.resp = thread[c].resp /\ u.pc = "erase" /\ Handed(u.resp) = <<>>
    BY <1>1, BlankHolds DEF ThreadStates, Kinds
  <2> HIDE DEF t, u
  <2>3. QED
    BY <1>4, <1>5, <1>11, <2>1, <2>2 DEF ThreadNext, Running
<1>12. CASE ThreadErase(c)
  <2> DEFINE t == [thread[c] EXCEPT !.pc = "send"]
  <2>1. t.pc = "send" /\ t.resp = thread[c].resp
    BY <1>1 DEF ThreadStates
  <2>2. thread' = [thread EXCEPT ![c] = t]
    BY <1>1, <1>12 DEF ThreadErase, TypeOK
  <2> HIDE DEF t
  <2>3. QED
    BY <1>4, <1>12, <2>1, <2>2 DEF ThreadErase
<1>13. CASE ThreadSend(c)
  <2>1. thread'[c] = NoThread /\ \A d \in Clients : d # c => thread'[d] = thread[d]
    BY <1>1, <1>13 DEF ThreadSend, TypeOK
  <2>2. Held[ReplyOf(c)] = Handed(thread[c].resp) /\ Held'[ReplyOf(c)] = <<>>
    BY <2>1, HeldAre, BlankHolds
  <2>3. sent' = sent \cup ToSet(Held[ReplyOf(c)]) /\ UNCHANGED <<lists, next>>
    BY <1>13, <2>2 DEF ThreadSend
  <2>4. Shared(Holders, Held', sent', next')
    BY <1>1, <1>2, <2>1, <2>2, <2>3, SharedSent
  <2>5. QED
    BY <1>3, <2>1, <2>4, BlankHolds
<1>14. QED
  BY <1>6, <1>7, <1>8, <1>9, <1>10, <1>11, <1>12, <1>13 DEF ThreadStep

LEMMA ElementsStep ==
  ASSUME ElementsInv, [Next]_vars
  PROVE  ElementsInv'
<1>1. ScanInv'
  BY ScanStep DEF ElementsInv
<1>2. ASSUME UNCHANGED <<lists, loop, thread, sent, next>>
      PROVE  ElementsInv'
  <2>1. Shared(Holders, Held', sent', next')
    BY <1>2, SharedStays DEF ElementsInv
  <2>2. RepliesBuilt'
    BY <1>2 DEF ElementsInv, RepliesBuilt
  <2>3. QED
    BY <1>1, <2>1, <2>2 DEF ElementsInv
<1>3. ASSUME NEW c \in Clients, Connect(c) \/ Disconnect(c)
      PROVE  ElementsInv'
  BY <1>2, <1>3 DEF Connect, Disconnect
<1>4. CASE UNCHANGED vars
  BY <1>2, <1>4 DEF vars
<1>5. CASE MapRace
  BY <1>2, <1>5 DEF MapRace
<1>6. QED
  BY <1>1, <1>3, <1>4, <1>5, ElementsCommand, ElementsLoop, ElementsThread DEF Next, Crashed

\* No element is lost and none is handed out twice, for all lists, clients and bounds,
\* also when clients close while they are blocked and their descriptors are used again.
THEOREM NoElementLostOrDoubled == Spec => []ElementsConserved
<1>1. ElementsInv => ElementsConserved
  <2> SUFFICES ASSUME ElementsInv, NEW e \in 1 .. next - 1 PROVE Cardinality(Places(e)) = 1
    BY DEF ElementsConserved
  <2>1. /\ Shared(Holders, Held, sent, next)
        /\ \A h \in Holders : Held[h] \in Seq(Elems)
    BY HoldersAre, HeldAre, ElementTypes DEF ElementsInv, ScanInv
  <2>2. CASE e \in sent
    <3>1. \A h \in Holders : e \notin ToSet(Held[h])
      BY <2>1, <2>2 DEF Shared
    <3>2. Places(e) = {<<<<"sent", NoClient>>, e>>}
      BY <2>2, <3>1 DEF Places, ToSet
    <3>3. QED
      BY <3>2, FS_Singleton
  <2>3. CASE e \notin sent
    <3>1. PICK h \in Holders : e \in ToSet(Held[h])
      BY <2>1, <2>3 DEF Shared
    <3>2. PICK i \in DOMAIN Held[h] : Held[h][i] = e
      BY <3>1 DEF ToSet
    <3>3. DOMAIN Held[h] = 1 .. Len(Held[h])
      BY <2>1
    <3>4. \A j \in DOMAIN Held[h] : Held[h][j] = e => j = i
      BY <2>1, <3>2, <3>3 DEF Shared, NoTwice
    <3>5. \A g \in Holders : g # h => ~\E j \in DOMAIN Held[g] : Held[g][j] = e
      BY <2>1, <3>1 DEF Shared, ToSet
    <3>6. Places(e) = {<<h, i>>}
      BY <2>3, <3>2, <3>4, <3>5 DEF Places
    <3>7. QED
      BY <3>6, FS_Singleton
  <2>4. QED
    BY <2>2, <2>3
<1>2. QED
  BY <1>1, ElementsInit, ElementsStep, PTL DEF Spec

-----------------------------------------------------------------------------
(* The list service: each step is a step of ListService or changes nothing *)
(* of it.                                                                  *)

LEMMA AskedInit == Init => RequestInv
BY PatientInit, ElementsInit, BlankType DEF Init, RequestInv, ScansAsked

\* Who is being served, and where its thread is.
LEMMA ServedFacts ==
  ASSUME PatientInv
  PROVE  /\ loop.pc # "idle" => /\ loop.client \in Clients /\ conn[loop.client] = "waiting"
                                /\ thread[loop.client].pc = "none"
         /\ \A c \in Clients : thread[c].pc # "none" => conn[c] = "waiting" /\ ~LoopServes(c)
         /\ \A c, d \in Clients :
              conn[c] = "waiting" /\ conn[d] = "waiting" /\ FdOf[c] = FdOf[d] => c = d
         /\ \A c \in Clients : /\ Entry(c) \in Entries /\ thread[c] \in ThreadStates
                               /\ FdOf[c] \in Fds /\ conn[c] \in {"closed", "idle", "waiting"}
         /\ loop \in LoopStates
         /\ DOMAIN lists = Keys /\ DOMAIN thread = Clients /\ DOMAIN conn = Clients
         /\ DOMAIN blockingLists = Fds
BY DEF PatientInv, OneResponder, LoopServes, ThreadServes, OpenFdsDistinct,
       ScanInv, TypeOK, Entry, Fds

LEMMA NotDangling ==
  ASSUME PatientInv, NEW c \in Clients, thread[c].pc \in {"waiting", "scan", "erase"}
  PROVE  ~Dangling(c)
BY DEF PatientInv, WaiterRegistered, Dangling

LEMMA AskedStep ==
  ASSUME PatientInv, ScansAsked, [Next]_vars
  PROVE  ScansAsked'
<1> USE DEF ScansAsked
<1>1. ASSUME UNCHANGED <<blockingLists, thread>> PROVE ScansAsked'
  BY <1>1 DEF Entry
<1>2. ASSUME NEW c \in Clients, Connect(c) \/ Disconnect(c) \/ Command(c) PROVE ScansAsked'
  BY <1>1, <1>2 DEF Connect, Disconnect, Command, LPush, RPush, Push, LPop, RPop, LLen, LRange, Blpop
<1>3. CASE Notify \/ Respond \/ BlpopFound \/ BlpopNext
  BY <1>1, <1>3 DEF Notify, Respond, BlpopFound, BlpopNext
<1>4. CASE BlpopBlock
  <2>1. PICK c \in Clients : c = loop.client /\ conn[c] = "waiting"
    BY <1>4, ServedFacts DEF BlpopBlock, Registering, Scanning
  <2>2. /\ blockingLists' = [blockingLists EXCEPT ![FdOf[c]] = [keys |-> loop.keys, waiter |-> c]]
        /\ thread' = [thread EXCEPT ![c] = ThreadAt("start", <<>>, NoClient, NoReply)]
    BY <1>4, <2>1 DEF BlpopBlock, Registering
  <2>3. thread'[c].pc = "start" /\ \A d \in Clients : d # c => thread'[d] = thread[d]
    BY <2>2, ServedFacts DEF ThreadAt
  <2>4. ASSUME NEW d \in Clients, d # c, thread[d].pc = "scan" PROVE Entry(d)' = Entry(d)
    <3>1. FdOf[d] # FdOf[c]
      BY <2>1, <2>4, ServedFacts
    <3>2. QED
      BY <2>2, <3>1, ServedFacts DEF Entry
  <2>5. QED
    BY <2>3, <2>4
<1>5. ASSUME NEW c \in Clients, ThreadStep(c) PROVE ScansAsked'
  <2>1. ASSUME NEW t, thread' = [thread EXCEPT ![c] = t], UNCHANGED blockingLists,
               t.pc = "scan" => t.keys = Entry(c).keys
        PROVE  ScansAsked'
    <3>1. thread'[c] = t /\ \A d \in Clients : d # c => thread'[d] = thread[d]
      BY <2>1, ServedFacts
    <3>2. \A d \in Clients : Entry(d)' = Entry(d)
      BY <2>1 DEF Entry
    <3>3. QED
      BY <2>1, <3>1, <3>2
  <2>2. CASE ThreadStart(c)
    <3>1. CASE thread' = [thread EXCEPT ![c].pc = "waiting", ![c].waiter = Entry(c).waiter]
      <4> DEFINE t == [thread[c] EXCEPT !.pc = "waiting", !.waiter = Entry(c).waiter]
      <4>1. thread' = [thread EXCEPT ![c] = t]
        BY <3>1, ServedFacts
      <4>2. t.pc = "waiting"
        BY ServedFacts DEF ThreadStates
      <4> HIDE DEF t
      <4>3. QED
        BY <2>1, <2>2, <4>1, <4>2 DEF ThreadStart
    <3>2. QED
      BY <1>1, <2>2, <3>1 DEF ThreadStart
  <2>3. CASE ThreadWake(c)
    <3> DEFINE t == IF Entry(c).keys = <<>>
                    THEN ThreadAt("erase", <<>>, thread[c].waiter, Reply("nilarray", <<>>))
                    ELSE ThreadAt("scan", Entry(c).keys, thread[c].waiter, NoReply)
    <3>1. thread' = [thread EXCEPT ![c] = t] /\ UNCHANGED blockingLists
      BY <2>3 DEF ThreadWake, Woken
    <3>2. t.pc = "scan" => t.keys = Entry(c).keys
      BY DEF ThreadAt
    <3> HIDE DEF t
    <3>3. QED
      BY <2>1, <3>1, <3>2
  <2>4. CASE ThreadTimeout(c) \/ ThreadFound(c)
    <3>1. PICK r : thread' = [thread EXCEPT ![c].pc = "erase", ![c].resp = r]
      BY <2>4 DEF ThreadTimeout, ThreadFound
    <3> DEFINE t == [thread[c] EXCEPT !.pc = "erase", !.resp = r]
    <3>2. thread' = [thread EXCEPT ![c] = t]
      BY <3>1, ServedFacts
    <3>3. t.pc = "erase"
      BY ServedFacts DEF ThreadStates
    <3> HIDE DEF t
    <3>4. QED
      BY <2>1, <2>4, <3>2, <3>3 DEF ThreadTimeout, ThreadFound
  <2>5. CASE ThreadDangling(c)
    BY <1>1, <2>5 DEF ThreadDangling
  <2>6. CASE ThreadNext(c)
    <3> DEFINE i == thread[c].i + 1
               t == [thread[c] EXCEPT !.i = i]
               u == [thread[c] EXCEPT !.pc = "erase", !.resp = Reply("nil", <<>>)]
    <3>1. thread' = [thread EXCEPT ![c] = t] \/ thread' = [thread EXCEPT ![c] = u]
      BY <2>6, ServedFacts DEF ThreadNext
    <3>2. u.pc = "erase" /\ t.pc = thread[c].pc /\ t.keys = thread[c].keys
      BY ServedFacts DEF ThreadStates
    <3> HIDE DEF t, u
    <3>3. QED
      BY <2>1, <2>6, <3>1, <3>2 DEF ThreadNext
  <2>7. CASE ThreadErase(c)
    <3>1. /\ thread' = [thread EXCEPT ![c].pc = "send"] /\ thread[c].pc = "erase"
          /\ blockingLists' = [blockingLists EXCEPT ![FdOf[c]] = NoEntry]
      BY <2>7 DEF ThreadErase, ErasedFor, Running
    <3>2. thread'[c].pc = "send" /\ \A d \in Clients : d # c => thread'[d] = thread[d]
      BY <3>1, ServedFacts DEF ThreadStates
    <3>3. ASSUME NEW d \in Clients, d # c, thread[d].pc = "scan" PROVE Entry(d)' = Entry(d)
      <4>1. FdOf[d] # FdOf[c]
        BY <3>1, <3>3, ServedFacts
      <4>2. QED
        BY <3>1, <4>1, ServedFacts DEF Entry
    <3>4. QED
      BY <3>2, <3>3
  <2>8. CASE ThreadSend(c)
    <3>1. NoThread.pc # "scan"
      BY DEF NoThread, ThreadAt
    <3>2. QED
      BY <2>1, <2>8, <3>1 DEF ThreadSend
  <2>9. QED
    BY <1>5, <2>2, <2>3, <2>4, <2>5, <2>6, <2>7, <2>8 DEF ThreadStep
<1>6. CASE UNCHANGED vars
  BY <1>1, <1>6 DEF vars
<1>7. CASE MapRace
  BY <1>1, <1>7 DEF MapRace
<1>8. QED
  BY <1>2, <1>3, <1>4, <1>5, <1>6, <1>7 DEF Next, Crashed, LoopStep, vars

LEMMA RequestStep ==
  ASSUME Impatient = {}, RequestInv, [Next]_vars
  PROVE  RequestInv'
BY PatientStep, ElementsStep, AskedStep DEF RequestInv

\* The request of a client depends on what serves it alone.
LEMMA RequestSame ==
  ASSUME PatientInv, PatientInv', NEW c \in Clients, UNCHANGED <<conn[c], thread[c]>>,
         conn[c] = "waiting" =>
           \/ ~LoopServes(c) /\ ~LoopServes(c)'
           \/ UNCHANGED loop
           \/ LoopServes(c) /\ LoopServes(c)' /\ loop.pc # "scan" /\ loop'.pc # "scan"
              /\ Handed(loop'.resp) = Handed(loop.resp)
           \/ LoopServes(c) /\ LoopServes(c)' /\ loop.pc = "scan" /\ loop'.pc = "scan"
              /\ loop'.keys = loop.keys,
         conn[c] = "waiting" /\ thread[c].pc \in {"start", "waiting", "scan"} =>
           Entry(c)' = Entry(c)
  PROVE  ServiceRequest(c)' = ServiceRequest(c)
BY DEF ServiceRequest, LoopServes

LEMMA RequestsAre ==
  /\ DOMAIN Requests = Clients
  /\ \A c \in Clients : Requests[c] = ServiceRequest(c)
  /\ DOMAIN Requests' = Clients
  /\ \A c \in Clients : Requests'[c] = ServiceRequest(c)'
BY DEF Requests

\* The clients that the step does not serve keep their requests.
LEMMA Becomes ==
  ASSUME NEW c \in Clients, NEW st, NEW r, ServiceRequest(c).st = st, ServiceRequest(c)' = r,
         \A d \in Clients : d # c => ServiceRequest(d)' = ServiceRequest(d),
         alive, UNCHANGED alive
  PROVE  Service!Become(c, st, r)
<1>1. Requests' = [Requests EXCEPT ![c] = r]
  BY RequestsAre DEF Requests
<1>2. QED
  BY <1>1, RequestsAre DEF Service!Become

LEMMA NothingBecomes ==
  ASSUME \A d \in Clients : ServiceRequest(d)' = ServiceRequest(d), UNCHANGED <<lists, sent, next, alive>>
  PROVE  UNCHANGED Service!sVars
BY DEF Service!sVars, Requests

\* A command is taken.
LEMMA ServeBecomes ==
  ASSUME PatientInv, PatientInv', NEW c \in Clients, NEW l, Serve(c, l), l.pc # "idle",
         l.client = c, UNCHANGED <<thread, blockingLists, alive>>
  PROVE  Service!Become(c, "idle", IF l.pc = "scan" THEN Request("asked", l.keys, <<>>)
                                   ELSE Request("answered", <<>>, Handed(l.resp)))
<1>1. loop' = l /\ conn[c] = "idle" /\ loop.pc = "idle" /\ conn'[c] = "waiting"
      /\ \A d \in Clients : d # c => conn'[d] = conn[d]
  BY ServedFacts DEF Serve, LoopIdle
<1>2. ServiceRequest(c).st = "idle"
  BY <1>1 DEF ServiceRequest, Request
<1>3. LoopServes(c)'
  BY <1>1 DEF LoopServes
<1>4. ServiceRequest(c)' = IF l.pc = "scan" THEN Request("asked", l.keys, <<>>)
                           ELSE Request("answered", <<>>, Handed(l.resp))
  BY <1>1, <1>3 DEF ServiceRequest
<1>5. ASSUME NEW d \in Clients, d # c PROVE ServiceRequest(d)' = ServiceRequest(d)
  <2>1. ~LoopServes(d) /\ ~LoopServes(d)' /\ Entry(d)' = Entry(d)
    BY <1>1, <1>5 DEF LoopServes, Entry
  <2>2. QED
    BY <1>1, <1>5, <2>1, RequestSame
<1>6. alive
  BY DEF Serve, LoopIdle
<1>7. QED
  BY <1>2, <1>4, <1>5, <1>6, Becomes

\* The loop goes on with the command it serves, or has done with it.
LEMMA LoopBecomes ==
  ASSUME PatientInv, PatientInv', NEW c \in Clients, loop.pc # "idle", c = loop.client,
         alive, UNCHANGED alive,
         NEW r, ServiceRequest(c)' = r,
         \A d \in Clients : d # c => UNCHANGED <<conn[d], thread[d]>>,
         \A d \in Clients : FdOf[d] # FdOf[c] => UNCHANGED blockingLists[FdOf[d]],
         loop'.pc # "idle" => loop'.client = c
  PROVE  Service!Become(c, ServiceRequest(c).st, r)
<1>1. conn[c] = "waiting"
  BY ServedFacts
<1>2. ASSUME NEW d \in Clients, d # c PROVE ServiceRequest(d)' = ServiceRequest(d)
  <2>1. ~LoopServes(d) /\ ~LoopServes(d)'
    BY <1>2 DEF LoopServes
  <2>2. conn[d] = "waiting" => Entry(d)' = Entry(d)
    BY <1>1, <1>2, ServedFacts DEF Entry
  <2>3. QED
    BY <1>2, <2>1, <2>2, RequestSame
<1>3. QED
  BY <1>2, Becomes

\* The thread of c goes on, or has done.
LEMMA ThreadBecomes ==
  ASSUME PatientInv, PatientInv', NEW c \in Clients, thread[c].pc # "none", UNCHANGED loop,
         alive, UNCHANGED alive,
         NEW r, ServiceRequest(c)' = r,
         \A d \in Clients : d # c => UNCHANGED <<conn[d], thread[d]>>,
         \A d \in Clients : FdOf[d] # FdOf[c] => UNCHANGED blockingLists[FdOf[d]]
  PROVE  Service!Become(c, ServiceRequest(c).st, r)
<1>1. conn[c] = "waiting"
  BY ServedFacts
<1>2. ASSUME NEW d \in Clients, d # c PROVE ServiceRequest(d)' = ServiceRequest(d)
  <2>1. conn[d] = "waiting" => Entry(d)' = Entry(d)
    BY <1>1, <1>2, ServedFacts DEF Entry
  <2>2. QED
    BY <1>2, <2>1, RequestSame
<1>3. QED
  BY <1>2, Becomes

\* What a thread is worth to the service, by where it is.
LEMMA ThreadRequest ==
  ASSUME PatientInv, NEW c \in Clients, thread[c].pc # "none"
  PROVE  ServiceRequest(c) =
           IF thread[c].pc \in {"start", "waiting", "scan"} THEN Request("blocked", Entry(c).keys, <<>>)
           ELSE Request("answered", <<>>, Handed(thread[c].resp))
BY ServedFacts DEF ServiceRequest

LEMMA LoopRequest ==
  ASSUME PatientInv, NEW c \in Clients, loop.pc # "idle", c = loop.client
  PROVE  ServiceRequest(c) =
           IF loop.pc = "scan" THEN Request("asked", loop.keys, <<>>)
           ELSE Request("answered", <<>>, Handed(loop.resp))
BY ServedFacts DEF ServiceRequest, LoopServes

LEMMA CommandRefined ==
  ASSUME RequestInv, RequestInv', NEW c \in Clients, Command(c)
  PROVE  Service!ServiceNext
<1> DEFINE r(resp) == Request("answered", <<>>, Handed(resp))
<1>1. PatientInv /\ PatientInv' /\ TypeOK
  BY DEF RequestInv, PatientInv, ScanInv
<1>2. ASSUME NEW resp, Serve(c, Answer(c, resp)), UNCHANGED <<thread, blockingLists, alive>>
      PROVE  Service!Become(c, "idle", r(resp))
  <2> DEFINE l == Answer(c, resp)
  <2>1. l.pc = "reply" /\ l.client = c /\ l.resp = resp
    BY BlankHolds
  <2>2. Serve(c, l)
    BY <1>2
  <2> HIDE DEF l
  <2>3. QED
    BY <1>1, <1>2, <2>1, <2>2, ServeBecomes
<1>3. ASSUME NEW k \in Keys, NEW n \in 1 .. MaxPush, LPush(c, k, n) \/ RPush(c, k, n)
      PROVE  Service!AddElements(c, k, n)
  <2> DEFINE l == LoopAt("notify", c, <<k>>, n, NoReply)
  <2>1. Serve(c, l) /\ next + n <= MaxElems + 1 /\ next' = next + n /\ UNCHANGED <<thread, blockingLists, sent, alive>>
    BY <1>3 DEF LPush, RPush, Push
  <2>2. l.pc = "notify" /\ l.client = c /\ Handed(l.resp) = <<>>
    BY BlankHolds DEF LoopAt
  <2> HIDE DEF l
  <2>3. Service!Become(c, "idle", Request("answered", <<>>, <<>>))
    BY <1>1, <2>1, <2>2, ServeBecomes
  <2>4. \/ lists' = [lists EXCEPT ![k] = Reverse(NewElems(n)) \o lists[k]]
        \/ lists' = [lists EXCEPT ![k] = lists[k] \o NewElems(n)]
    BY <1>3 DEF LPush, RPush, Push
  <2>5. QED
    BY <2>1, <2>3, <2>4 DEF Service!AddElements, Service!Answered, Service!Request, Request, NewElems,
                            Reverse, Service!Reverse
<1>4. ASSUME NEW k \in Keys, NEW n \in 1 .. MaxPush, LPop(c, k, n)
      PROVE  Service!TakeElements(c, k, n)
  <2> DEFINE s == lists[k]
             resp == LPopReply(s, n)
             m == IF n < Len(s) THEN n ELSE Len(s)
  <2>1. Serve(c, Answer(c, resp)) /\ UNCHANGED <<thread, blockingLists, sent, next, alive>>
        /\ lists' = [lists EXCEPT ![k] = Left(s, n)] /\ s \in Seq(Elems) /\ n \in Nat
    BY <1>1, <1>4, ElementTypes, BoundsAssumption DEF LPop
  <2>2. Handed(resp) = SubSeq(s, 1, m)
    <3>1. CASE s = <<>>
      <4>1. Taken(s, n) = <<>>
        BY <2>1, <3>1 DEF Taken
      <4>2. QED
        BY <3>1, <4>1, BlankHolds DEF LPopReply, Kinds, Taken
    <3>2. CASE s # <<>>
      BY <3>2, BlankHolds DEF LPopReply, Taken
    <3>3. QED
      BY <3>1, <3>2
  <2>3. Left(s, n) = SubSeq(s, m + 1, Len(s))
    <3>1. CASE n < Len(s)
      BY <3>1 DEF Left
    <3>2. CASE ~(n < Len(s))
      <4>1. SubSeq(s, n + 1, Len(s)) = <<>> /\ SubSeq(s, Len(s) + 1, Len(s)) = <<>>
        BY <2>1, <3>2
      <4>2. QED
        BY <3>2, <4>1 DEF Left
    <3>3. QED
      BY <3>1, <3>2
  <2> HIDE DEF resp
  <2>4. Service!Become(c, "idle", Request("answered", <<>>, SubSeq(s, 1, m)))
    BY <1>2, <2>1, <2>2
  <2>5. m \in 0 .. n /\ (m = n \/ m = Len(s)) /\ m <= Len(s)
    BY <2>1
  <2>6. QED
    BY <2>1, <2>3, <2>4, <2>5 DEF Service!TakeElements, Service!Answered, Service!Request, Request
<1>5. ASSUME NEW resp, Handed(resp) = <<>>, Serve(c, Answer(c, resp)),
             UNCHANGED <<lists, thread, blockingLists, sent, next, alive>>
      PROVE  Service!Observe(c)
  BY <1>2, <1>5 DEF Service!Observe, Service!Answered, Service!Request, Request
<1>6. ASSUME NEW k \in Keys, RPop(c, k) \/ LLen(c, k)
      PROVE  Service!Observe(c)
  BY <1>5, <1>6, BlankHolds DEF RPop, LLen, Kinds
<1>7. ASSUME NEW k \in Keys, NEW x \in Ranges, LRange(c, k, x)
      PROVE  Service!Observe(c)
  BY <1>5, <1>7, BlankHolds DEF LRange
<1>8. ASSUME NEW ks \in BlockKeys[c], Blpop(c, ks)
      PROVE  Service!Ask(c, ks)
  <2> DEFINE l == LoopAt("scan", c, ks, 0, NoReply)
  <2>1. l.pc = "scan" /\ l.client = c /\ l.keys = ks
    BY DEF LoopAt
  <2> HIDE DEF l
  <2>2. Serve(c, l) /\ UNCHANGED <<thread, blockingLists, lists, sent, next, alive>>
    BY <1>8 DEF Blpop, l
  <2>3. Service!Become(c, "idle", Request("asked", ks, <<>>))
    BY <1>1, <2>1, <2>2, ServeBecomes
  <2>4. QED
    BY <2>2, <2>3 DEF Service!Ask, Service!Request, Request
<1>9. QED
  BY <1>3, <1>4, <1>6, <1>7, <1>8 DEF Command, Service!ServiceNext

LEMMA LoopRefined ==
  ASSUME RequestInv, RequestInv', LoopStep
  PROVE  [Service!ServiceNext]_(Service!sVars)
<1>1. /\ PatientInv /\ PatientInv' /\ TypeOK /\ RepliesBuilt /\ RepliesBuilt' /\ loop.pc # "idle"
      /\ alive /\ UNCHANGED alive
      /\ loop.pc = "scan" => loop.i \in DOMAIN loop.keys /\ \A j \in 1 .. loop.i - 1 : lists[loop.keys[j]] = <<>>
  BY DEF RequestInv, PatientInv, ElementsInv, ScanInv, ScannedEmpty, LoopStep, Notify, Respond,
         BlpopFound, BlpopNext, BlpopBlock, Registering, Scanning
<1>2. PICK c \in Clients : c = loop.client /\ conn[c] = "waiting" /\ thread[c].pc = "none"
  BY <1>1, ServedFacts
<1>3. ServiceRequest(c) = IF loop.pc = "scan" THEN Request("asked", loop.keys, <<>>)
                          ELSE Request("answered", <<>>, Handed(loop.resp))
  BY <1>1, <1>2, LoopRequest
<1>4. ASSUME NEW r, NEW st, ServiceRequest(c)' = r, ServiceRequest(c).st = st,
             \A d \in Clients : d # c => UNCHANGED <<conn[d], thread[d]>>,
             \A d \in Clients : FdOf[d] # FdOf[c] => UNCHANGED blockingLists[FdOf[d]],
             loop'.pc # "idle" => loop'.client = c
      PROVE  Service!Become(c, st, r)
  BY <1>1, <1>2, <1>4, LoopBecomes
<1>5. ASSUME ServiceRequest(c)' = ServiceRequest(c), loop'.pc # "idle", loop'.client = c,
             UNCHANGED <<conn, thread, blockingLists, lists, sent, next, alive>>
      PROVE  UNCHANGED Service!sVars
  <2>1. ASSUME NEW d \in Clients, d # c PROVE ServiceRequest(d)' = ServiceRequest(d)
    <3>1. ~LoopServes(d) /\ ~LoopServes(d)' /\ Entry(d)' = Entry(d)
      BY <1>2, <1>5, <2>1 DEF LoopServes, Entry
    <3>2. QED
      BY <1>1, <1>5, <3>1, RequestSame
  <2>2. QED
    BY <1>5, <2>1, NothingBecomes
<1>6. CASE Notify
  <2>1. loop' = Answer(c, Reply("int", <<>>)) /\ UNCHANGED <<conn, thread, blockingLists, lists, sent, next, alive>>
        /\ loop.pc = "notify"
    BY <1>2, <1>6 DEF Notify
  <2>2. loop'.pc = "reply" /\ loop'.client = c /\ Handed(loop'.resp) = <<>> /\ Handed(loop.resp) = <<>>
    BY <1>1, <2>1, BlankHolds DEF RepliesBuilt, Kinds
  <2>3. ServiceRequest(c)' = ServiceRequest(c)
    BY <1>1, <1>2, <2>1, <2>2, RequestSame DEF LoopServes
  <2>4. QED
    BY <1>5, <2>1, <2>2, <2>3
<1>7. CASE Respond
  <2>1. /\ loop.pc = "reply" /\ conn' = [conn EXCEPT ![c] = "idle"] /\ loop'.pc = "idle"
        /\ sent' = sent \cup ToSet(Handed(loop.resp)) /\ UNCHANGED <<lists, blockingLists, thread, next, alive>>
    BY <1>2, <1>7, BlankType DEF Respond
  <2>2. conn'[c] = "idle" /\ \A d \in Clients : d # c => conn'[d] = conn[d]
    BY <2>1, <1>1, ServedFacts
  <2>3. ServiceRequest(c)' = Request("idle", <<>>, <<>>)
    BY <2>2 DEF ServiceRequest
  <2>4. ServiceRequest(c).st = "answered" /\ Requests[c].elems = Handed(loop.resp)
    BY <1>3, <2>1, RequestsAre DEF Request
  <2>5. Service!Become(c, "answered", Request("idle", <<>>, <<>>))
    BY <1>4, <2>1, <2>2, <2>3, <2>4
  <2>6. Service!Deliver(c)
    BY <2>1, <2>4, <2>5 DEF Service!Deliver, Service!Idle, Service!Request, Request, ToSet, Service!ToSet
  <2>7. QED
    BY <2>6 DEF Service!ServiceNext
<1>8. CASE BlpopFound
  <2> DEFINE i == loop.i
             k == loop.keys[i]
  <2>1. /\ loop.pc = "scan" /\ lists[k] # <<>> /\ lists' = [lists EXCEPT ![k] = Tail(lists[k])]
        /\ loop' = Answer(c, Reply("pair", <<Head(lists[k])>>))
        /\ UNCHANGED <<conn, thread, blockingLists, sent, next, alive>>
    BY <1>2, <1>8 DEF BlpopFound, Scanning, PopFirst, ScanKey
  <2>2. loop'.pc = "reply" /\ loop'.client = c /\ Handed(loop'.resp) = <<Head(lists[k])>>
    BY <2>1, BlankHolds
  <2>3. LoopServes(c)' /\ conn'[c] = "waiting"
    BY <1>2, <2>1, <2>2 DEF LoopServes
  <2>4. ServiceRequest(c)' = Request("answered", <<>>, <<Head(lists[k])>>)
    BY <2>2, <2>3 DEF ServiceRequest
  <2>5. ServiceRequest(c).st = "asked" /\ Requests[c].keys = loop.keys
    BY <1>3, <2>1, RequestsAre DEF Request
  <2>6. Service!Become(c, "asked", Request("answered", <<>>, <<Head(lists[k])>>))
    BY <1>4, <2>1, <2>2, <2>4, <2>5
  <2>7. Service!TakeHead(c, "asked", k)
    BY <2>1, <2>6 DEF Service!TakeHead, Service!Answered, Service!Request, Request
  <2>8. Service!TakeFirst(c)
    BY <1>1, <2>1, <2>5, <2>7 DEF Service!TakeFirst
  <2>9. QED
    BY <2>8 DEF Service!ServiceNext
<1>9. CASE BlpopNext
  <2>1. /\ loop.pc = "scan" /\ loop'.pc = "scan" /\ loop'.client = c /\ loop'.keys = loop.keys
        /\ UNCHANGED <<conn, thread, blockingLists, lists, sent, next, alive>>
    BY <1>1, <1>2, <1>9, ServedFacts DEF BlpopNext, Scanning, LoopStates
  <2>2. ServiceRequest(c)' = ServiceRequest(c)
    BY <1>1, <1>2, <2>1, RequestSame DEF LoopServes
  <2>3. QED
    BY <1>5, <2>1, <2>2
<1>10. CASE BlpopBlock
  <2>1. /\ loop.pc = "scan" /\ lists[loop.keys[loop.i]] = <<>> /\ ~(loop.i < Len(loop.keys))
        /\ blockingLists' = [blockingLists EXCEPT ![FdOf[c]] = [keys |-> loop.keys, waiter |-> c]]
        /\ thread' = [thread EXCEPT ![c] = ThreadAt("start", <<>>, NoClient, NoReply)]
        /\ loop' = IdleLoop /\ UNCHANGED <<conn, lists, sent, next, alive>>
    BY <1>2, <1>10 DEF BlpopBlock, Registering, Scanning, ScanKey, MoreKeys, LoopAfterBlock
  <2>2. loop'.pc = "idle"
    BY <2>1, BlankType
  <2>3. /\ thread'[c].pc = "start" /\ Entry(c)'.keys = loop.keys
        /\ \A d \in Clients : d # c => thread'[d] = thread[d]
        /\ \A d \in Clients : FdOf[d] # FdOf[c] => blockingLists'[FdOf[d]] = blockingLists[FdOf[d]]
    BY <1>1, <2>1, ServedFacts DEF ThreadAt, Entry
  <2>4. ServiceRequest(c)' = Request("blocked", loop.keys, <<>>)
    BY <1>2, <2>1, <2>2, <2>3 DEF ServiceRequest, LoopServes
  <2>5. ServiceRequest(c).st = "asked" /\ Requests[c] = Request("asked", loop.keys, <<>>)
    BY <1>3, <2>1, RequestsAre DEF Request
  <2>6. Service!Become(c, "asked", [Requests[c] EXCEPT !.st = "blocked"])
    <3>1. [Requests[c] EXCEPT !.st = "blocked"] = Request("blocked", loop.keys, <<>>)
      BY <2>5 DEF Request
    <3>2. QED
      BY <1>4, <2>1, <2>2, <2>3, <2>4, <2>5, <3>1
  <2>7. \A j \in DOMAIN Requests[c].keys : lists[Requests[c].keys[j]] = <<>>
    <3>1. loop.keys \in Seq(Keys) /\ loop.i \in Nat /\ Requests[c].keys = loop.keys
      BY <1>1, <2>5, ServedFacts DEF LoopStates, Request
    <3>2. loop.i = Len(loop.keys)
      BY <1>1, <2>1, <3>1
    <3>3. QED
      BY <1>1, <2>1, <3>1, <3>2
  <2>8. Service!Block(c)
    BY <2>1, <2>6, <2>7 DEF Service!Block
  <2>9. QED
    BY <2>8 DEF Service!ServiceNext
<1>11. QED
  BY <1>6, <1>7, <1>8, <1>9, <1>10 DEF LoopStep

LEMMA ThreadRefined ==
  ASSUME RequestInv, RequestInv', NEW c \in Clients, ThreadStep(c)
  PROVE  [Service!ServiceNext]_(Service!sVars)
<1>1. /\ PatientInv /\ PatientInv' /\ TypeOK /\ RepliesBuilt /\ ScansAsked
      /\ thread[c].pc = "scan" => thread[c].i \in DOMAIN thread[c].keys
      /\ thread[c].pc # "none" /\ UNCHANGED loop /\ alive
  BY DEF RequestInv, PatientInv, ElementsInv, ScanInv, ThreadIndexed, ThreadStep, ThreadStart, ThreadWake, Woken,
         ThreadTimeout, ThreadDangling, ThreadFound, ThreadNext, ThreadErase, ThreadSend, Running
<1>2. conn[c] = "waiting" /\ ~LoopServes(c) /\ thread[c] \in ThreadStates
  BY <1>1, ServedFacts
<1>3. ServiceRequest(c) =
        IF thread[c].pc \in {"start", "waiting", "scan"} THEN Request("blocked", Entry(c).keys, <<>>)
        ELSE Request("answered", <<>>, Handed(thread[c].resp))
  BY <1>1, ThreadRequest
<1>4. ASSUME NEW t, thread' = [thread EXCEPT ![c] = t], t.pc # "none",
             \A d \in Clients : FdOf[d] # FdOf[c] => UNCHANGED blockingLists[FdOf[d]],
             UNCHANGED <<conn, alive>>
      PROVE  /\ thread'[c] = t
             /\ ServiceRequest(c)' =
                  IF t.pc \in {"start", "waiting", "scan"} THEN Request("blocked", Entry(c)'.keys, <<>>)
                  ELSE Request("answered", <<>>, Handed(t.resp))
             /\ Service!Become(c, ServiceRequest(c).st, ServiceRequest(c)')
             /\ ServiceRequest(c)' = ServiceRequest(c) => UNCHANGED Requests
  <2>1. thread'[c] = t /\ \A d \in Clients : d # c => thread'[d] = thread[d]
    BY <1>1, <1>4, ServedFacts
  <2>2. ServiceRequest(c)' =
          IF t.pc \in {"start", "waiting", "scan"} THEN Request("blocked", Entry(c)'.keys, <<>>)
          ELSE Request("answered", <<>>, Handed(t.resp))
    BY <1>1, <1>2, <1>4, <2>1 DEF ServiceRequest, LoopServes
  <2>3. Service!Become(c, ServiceRequest(c).st, ServiceRequest(c)')
    BY <1>1, <1>4, <2>1, ThreadBecomes
  <2>4. ASSUME ServiceRequest(c)' = ServiceRequest(c) PROVE UNCHANGED Requests
    <3>1. Requests' = [Requests EXCEPT ![c] = Requests[c]]
      BY <2>3, <2>4, RequestsAre DEF Service!Become
    <3>2. QED
      BY <3>1 DEF Requests
  <2>5. QED
    BY <2>1, <2>2, <2>3, <2>4
<1>5. ASSUME Service!Become(c, "blocked", Request("answered", <<>>, <<>>)), UNCHANGED <<lists, sent, next>>
      PROVE  Service!ServiceNext
  BY <1>5 DEF Service!ServiceNext, Service!GiveUp, Service!Answered, Service!Request, Request
<1>6. thread[c].pc \in {"start", "waiting", "scan"} => ServiceRequest(c).st = "blocked"
  BY <1>3 DEF Request
<1>7. CASE ThreadStart(c)
  <2> DEFINE t == [thread[c] EXCEPT !.pc = "waiting", !.waiter = Entry(c).waiter]
  <2>1. Entry(c).waiter # NoClient
    BY <1>1, <1>7, NoClientAssumption DEF ThreadStart, Running, PatientInv, WaiterRegistered
  <2>2. thread' = [thread EXCEPT ![c] = t] /\ UNCHANGED <<conn, blockingLists, lists, sent, next, alive>>
        /\ thread[c].pc = "start"
    BY <1>1, <1>7, <2>1, ServedFacts DEF ThreadStart, Running
  <2>3. t.pc = "waiting"
    BY <1>2 DEF ThreadStates
  <2> HIDE DEF t
  <2>4. Entry(c)' = Entry(c)
    BY <2>2 DEF Entry
  <2>5. ServiceRequest(c)' = ServiceRequest(c) /\ UNCHANGED Requests
    BY <1>3, <1>4, <2>2, <2>3, <2>4
  <2>6. QED
    BY <2>2, <2>5 DEF Service!sVars
<1>8. CASE ThreadWake(c)
  <2>1. thread[c].pc = "waiting" /\ UNCHANGED <<conn, blockingLists, lists, sent, next, alive>> /\ Entry(c)' = Entry(c)
    BY <1>8 DEF ThreadWake, Woken, Running, Entry
  <2>2. CASE Entry(c).keys = <<>>
    <3> DEFINE t == ThreadAt("erase", <<>>, thread[c].waiter, Reply("nilarray", <<>>))
    <3>1. thread' = [thread EXCEPT ![c] = t]
      BY <1>8, <2>2 DEF ThreadWake, Woken
    <3>2. t.pc = "erase" /\ Handed(t.resp) = <<>>
      BY BlankHolds DEF ThreadAt, Kinds
    <3> HIDE DEF t
    <3>3. Service!Become(c, "blocked", Request("answered", <<>>, <<>>))
      BY <1>4, <1>6, <2>1, <3>1, <3>2
    <3>4. QED
      BY <1>5, <2>1, <3>3
  <2>3. CASE Entry(c).keys # <<>>
    <3> DEFINE t == ThreadAt("scan", Entry(c).keys, thread[c].waiter, NoReply)
    <3>1. thread' = [thread EXCEPT ![c] = t]
      BY <1>8, <2>3 DEF ThreadWake, Woken
    <3>2. t.pc = "scan"
      BY DEF ThreadAt
    <3> HIDE DEF t
    <3>3. ServiceRequest(c)' = ServiceRequest(c) /\ UNCHANGED Requests
      BY <1>3, <1>4, <2>1, <3>1, <3>2
    <3>4. QED
      BY <2>1, <3>3 DEF Service!sVars
  <2>4. QED
    BY <2>2, <2>3
<1>9. CASE ThreadTimeout(c)
  <2> DEFINE t == [thread[c] EXCEPT !.pc = "erase", !.resp = Reply("nilarray", <<>>)]
  <2>1. thread' = [thread EXCEPT ![c] = t] /\ thread[c].pc = "waiting"
        /\ UNCHANGED <<conn, blockingLists, lists, sent, next, alive>>
    BY <1>9, ServedFacts, <1>1 DEF ThreadTimeout, Running
  <2>2. t.pc = "erase" /\ Handed(t.resp) = <<>>
    BY <1>2, BlankHolds DEF ThreadStates, Kinds
  <2> HIDE DEF t
  <2>3. Service!Become(c, "blocked", Request("answered", <<>>, <<>>))
    BY <1>4, <1>6, <2>1, <2>2
  <2>4. QED
    BY <1>5, <2>1, <2>3
<1>10. CASE ThreadDangling(c)
  BY <1>1, <1>10, NotDangling DEF ThreadDangling, Running
<1>11. CASE ThreadFound(c)
  <2> DEFINE i == thread[c].i
             k == thread[c].keys[i]
             t == [thread[c] EXCEPT !.pc = "erase", !.resp = Reply("pair", <<Head(lists[k])>>)]
  <2>1. /\ thread[c].pc = "scan" /\ lists[k] # <<>> /\ lists' = [lists EXCEPT ![k] = Tail(lists[k])]
        /\ UNCHANGED <<conn, blockingLists, sent, next, alive>>
    BY <1>11 DEF ThreadFound, Running, ThreadKey, PopFirst
  <2>2. thread' = [thread EXCEPT ![c] = t]
    BY <1>1, <1>11, ServedFacts DEF ThreadFound, ThreadKey
  <2>3. t.pc = "erase" /\ Handed(t.resp) = <<Head(lists[k])>>
    BY <1>2, BlankHolds DEF ThreadStates
  <2> HIDE DEF t
  <2>4. Service!Become(c, "blocked", Request("answered", <<>>, <<Head(lists[k])>>))
    BY <1>4, <1>6, <2>1, <2>2, <2>3
  <2>5. Requests[c].keys = thread[c].keys
    BY <1>1, <1>3, <2>1, RequestsAre DEF Request, ScansAsked
  <2>6. Service!TakeHead(c, "blocked", k)
    BY <2>1, <2>4 DEF Service!TakeHead, Service!Answered, Service!Request, Request
  <2>7. Service!Grant(c)
    BY <1>1, <2>1, <2>5, <2>6 DEF Service!Grant
  <2>8. QED
    BY <2>7 DEF Service!ServiceNext
<1>12. CASE ThreadNext(c)
  <2> DEFINE i == thread[c].i + 1
             t == [thread[c] EXCEPT !.i = i]
             u == [thread[c] EXCEPT !.pc = "erase", !.resp = Reply("nil", <<>>)]
  <2>1. thread[c].pc = "scan" /\ UNCHANGED <<conn, blockingLists, lists, sent, next, alive>> /\ Entry(c)' = Entry(c)
    BY <1>12 DEF ThreadNext, Running, Entry
  <2>2. thread' = [thread EXCEPT ![c] = t] \/ thread' = [thread EXCEPT ![c] = u]
    BY <1>1, <1>12, ServedFacts DEF ThreadNext
  <2>3. t.pc = "scan" /\ u.pc = "erase" /\ Handed(u.resp) = <<>>
    BY <1>2, <2>1, BlankHolds DEF ThreadStates, Kinds
  <2> HIDE DEF t, u
  <2>4. CASE thread' = [thread EXCEPT ![c] = t]
    <3>1. ServiceRequest(c)' = ServiceRequest(c) /\ UNCHANGED Requests
      BY <1>3, <1>4, <2>1, <2>3, <2>4
    <3>2. QED
      BY <2>1, <3>1 DEF Service!sVars
  <2>5. CASE thread' = [thread EXCEPT ![c] = u]
    <3>1. Service!Become(c, "blocked", Request("answered", <<>>, <<>>))
      BY <1>4, <1>6, <2>1, <2>3, <2>5
    <3>2. QED
      BY <1>5, <2>1, <3>1
  <2>6. QED
    BY <2>2, <2>4, <2>5
<1>13. CASE ThreadErase(c)
  <2> DEFINE t == [thread[c] EXCEPT !.pc = "send"]
  <2>1. thread[c].pc = "erase" /\ blockingLists' = [blockingLists EXCEPT ![FdOf[c]] = NoEntry]
        /\ thread' = [thread EXCEPT ![c] = t] /\ UNCHANGED <<conn, lists, sent, next, alive>>
    BY <1>1, <1>13, ServedFacts DEF ThreadErase, ErasedFor, Running
  <2>2. t.pc = "send" /\ t.resp = thread[c].resp
    BY <1>2 DEF ThreadStates
  <2> HIDE DEF t
  <2>3. \A d \in Clients : FdOf[d] # FdOf[c] => blockingLists'[FdOf[d]] = blockingLists[FdOf[d]]
    BY <1>1, <2>1, ServedFacts
  <2>4. ServiceRequest(c)' = ServiceRequest(c) /\ UNCHANGED Requests
    BY <1>3, <1>4, <2>1, <2>2, <2>3
  <2>5. QED
    BY <2>1, <2>4 DEF Service!sVars
<1>14. CASE ThreadSend(c)
  <2>1. /\ thread[c].pc = "send" /\ sent' = sent \cup ToSet(Handed(thread[c].resp))
        /\ thread' = [thread EXCEPT ![c] = NoThread] /\ UNCHANGED <<lists, blockingLists, next, alive>>
    BY <1>14 DEF ThreadSend, Running
  <2>2. conn'[c] = "idle" /\ \A d \in Clients : d # c => conn'[d] = conn[d]
    <3>1. \A d \in Clients : FdOf[d] = FdOf[c] /\ conn[d] = "waiting" => d = c
      BY <1>1, <1>2, ServedFacts
    <3>2. QED
      BY <1>2, <1>14, <3>1 DEF ThreadSend
  <2>3. \A d \in Clients : d # c => thread'[d] = thread[d]
    BY <1>1, <2>1, ServedFacts
  <2>4. ServiceRequest(c)' = Request("idle", <<>>, <<>>)
    BY <2>2 DEF ServiceRequest
  <2>5. ServiceRequest(c).st = "answered" /\ Requests[c].elems = Handed(thread[c].resp)
    BY <1>3, <2>1, RequestsAre DEF Request
  <2>6. Service!Become(c, "answered", Request("idle", <<>>, <<>>))
    BY <1>1, <2>1, <2>2, <2>3, <2>4, <2>5, ThreadBecomes
  <2>7. Service!Deliver(c)
    BY <2>1, <2>5, <2>6 DEF Service!Deliver, Service!Idle, Service!Request, Request, ToSet, Service!ToSet
  <2>8. QED
    BY <2>7 DEF Service!ServiceNext
<1>15. QED
  BY <1>7, <1>8, <1>9, <1>10, <1>11, <1>12, <1>13, <1>14 DEF ThreadStep

LEMMA ServiceStep ==
  ASSUME Impatient = {}, RequestInv, RequestInv', [Next]_vars
  PROVE  [Service!ServiceNext]_(Service!sVars)
<1>1. PatientInv /\ PatientInv'
  BY DEF RequestInv
<1>2. ASSUME UNCHANGED <<loop, thread, blockingLists, lists, sent, next, alive>>,
             \A c \in Clients : conn[c] = "waiting" <=> conn'[c] = "waiting"
      PROVE  UNCHANGED Service!sVars
  <2>1. ASSUME NEW c \in Clients PROVE ServiceRequest(c)' = ServiceRequest(c)
    BY <1>2, <2>1 DEF ServiceRequest, LoopServes, Entry
  <2>2. QED
    BY <1>2, <2>1, NothingBecomes
<1>3. ASSUME NEW c \in Clients, Connect(c)
      PROVE  UNCHANGED Service!sVars
  <2>1. conn[c] = "closed" /\ conn' = [conn EXCEPT ![c] = "idle"]
        /\ UNCHANGED <<loop, thread, blockingLists, lists, sent, next, alive>>
    BY <1>3 DEF Connect
  <2>2. QED
    BY <1>1, <1>2, <2>1, ServedFacts
<1>4. ASSUME NEW c \in Clients, Disconnect(c)
      PROVE  UNCHANGED Service!sVars
  <2>1. conn[c] = "idle" /\ conn' = [conn EXCEPT ![c] = "closed"]
        /\ UNCHANGED <<loop, thread, blockingLists, lists, sent, next, alive>>
    BY <1>4 DEF Disconnect
  <2>2. QED
    BY <1>1, <1>2, <2>1, ServedFacts
<1>5. CASE UNCHANGED vars
  BY <1>2, <1>5 DEF vars
<1>6. CASE MapRace
  <2>1. ASSUME NEW c \in Clients PROVE ServiceRequest(c)' = ServiceRequest(c)
    BY <1>6, <2>1 DEF MapRace, ServiceRequest, LoopServes, Entry
  <2>2. UNCHANGED Requests
    BY <2>1 DEF Requests
  <2>3. alive = TRUE
    BY <1>1, <1>6 DEF MapRace, PatientInv, ScanInv, TypeOK
  <2>4. Service!End
    BY <1>6, <2>2, <2>3 DEF MapRace, Service!End
  <2>5. QED
    BY <2>4 DEF Service!ServiceNext
<1>7. QED
  BY <1>3, <1>4, <1>5, <1>6, CommandRefined, LoopRefined, ThreadRefined DEF Next, Crashed

\* If clients wait for their replies, the loop, the detached threads and the map of
\* waiters implement the list service, for all lists, clients and bounds: a step of the
\* code is one step of the service or none.
THEOREM ListServiceSteps ==
  ASSUME Impatient = {}
  PROVE  Spec => Service!ServiceInit /\ [][Service!ServiceNext]_(Service!sVars)
<1>1. Init => Service!ServiceInit
  BY RequestsAre DEF Init, Service!ServiceInit, Requests, ServiceRequest, Service!Idle, Service!Request,
                     Request
<1>2. Init => RequestInv
  BY AskedInit
<1>3. RequestInv /\ [Next]_vars => RequestInv'
  BY RequestStep
<1>4. RequestInv /\ RequestInv' /\ [Next]_vars => [Service!ServiceNext]_(Service!sVars)
  BY ServiceStep
<1>5. QED
  BY <1>1, <1>2, <1>3, <1>4, PTL DEF Spec
=============================================================================
