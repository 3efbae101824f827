---------------------------- MODULE ListHandler ----------------------------
(***************************************************************************)
(* The list store with its blocking pop (src/src/ListHandler.cpp), driven  *)
(* by the event-loop thread of src/src/Server.cpp and by the detached      *)
(* threads that BLPOP spawns, one for each call that finds nothing.        *)
(*                                                                         *)
(* A step of a thread is what it does under one acquisition of a lock:     *)
(* lpopHandler under m_listsMutex, setEventForBlockingLists and the erase  *)
(* under m_blockingListsMutex, EventWaiter under its own mutex.  A list    *)
(* element is the number of its push, so every element is told apart.      *)
(*                                                                         *)
(* A client is a connection.  Several clients may own the same descriptor  *)
(* number, at different times: m_blockingLists is keyed by descriptor.     *)
(*                                                                         *)
(* A definition marked "Fault" is a mutated form of the one after it: with *)
(* it in place, a property named in PROJECT.json fails.                    *)
(***************************************************************************)
EXTENDS Integers, Sequences, FiniteSets, SequencesExt

CONSTANTS
    Clients,    \* connections
    NoClient,   \* a value that is no client: the null EventWaiter pointer
    FdOf,       \* the descriptor number the server's accept returns for a client
    Impatient,  \* clients that may close while a command of theirs is unanswered
    Keys,       \* list names
    BlockKeys,  \* for each client, the sequences of keys it passes to BLPOP
    Ranges,     \* the index pairs clients pass to LRANGE
    MaxElems,   \* bound: elements pushed in a behaviour
    MaxPush     \* bound: elements in one push, and the count of one LPOP

ASSUME NoClientAssumption == NoClient \notin Clients
ASSUME FdOfAssumption == FdOf \in [Clients -> Nat]
ASSUME ImpatientAssumption == Impatient \subseteq Clients
ASSUME BlockKeysAssumption ==
    BlockKeys \in [Clients -> SUBSET (Seq(Keys) \ {<<>>})]
ASSUME RangesAssumption == Ranges \subseteq Int \X Int
ASSUME BoundsAssumption == MaxElems \in Nat /\ MaxPush \in Nat \ {0}

VARIABLES
    conn,           \* the client's view: closed, idle, or waiting for a reply
    lists,          \* m_lists; an absent list and an empty one answer alike
    known,          \* the names m_lists has an entry for; none is ever removed
    blockingLists,  \* m_blockingLists: the keys and the waiter of a descriptor
    eventSet,       \* EventWaiter::eventSet of the waiter a client's last BLPOP made
    loop,           \* the event-loop thread and the command it is serving
    thread,         \* the detached thread of a client's blocking BLPOP
    next,           \* the next element to be pushed
    sent,           \* elements handed to send()
    alive           \* FALSE once the process has ended or its behaviour is undefined

vars == <<conn, lists, known, blockingLists, eventSet, loop, thread, next, sent, alive>>

-----------------------------------------------------------------------------
Elems == 1 .. MaxElems
Fds == {FdOf[c] : c \in Clients}

\* The replies the handlers build.  "pop" and "pair" carry the elements taken,
\* "range" those read and left in the list; "nil" is "$-1", "nilarray" is "*-1",
\* "placeholder" is RPOP's "$value".
Reply(kind, elems) == [kind |-> kind, elems |-> elems]
NoReply == Reply("none", <<>>)
Kinds == {"none", "int", "nil", "nilarray", "pop", "pair", "range", "placeholder"}
Replies == [kind : Kinds, elems : Seq(Elems)]
\* The elements that a reply takes out of the store.
Handed(resp) == IF resp.kind = "range" THEN <<>> ELSE resp.elems

\* An absent map entry reads as the pair operator[] default-constructs.
NoEntry == [keys |-> <<>>, waiter |-> NoClient]

LoopPcs == {"idle", "notify", "scan", "reply"}
LoopAt(pc, c, ks, n, resp) ==
    [pc |-> pc, client |-> c, keys |-> ks, i |-> 1, n |-> n, resp |-> resp]
IdleLoop == LoopAt("idle", NoClient, <<>>, 0, NoReply)

ThreadPcs == {"none", "start", "waiting", "scan", "erase", "send"}
ThreadAt(pc, ks, w, resp) ==
    [pc |-> pc, keys |-> ks, i |-> 1, waiter |-> w, resp |-> resp]
NoThread == ThreadAt("none", <<>>, NoClient, NoReply)

Entries == [keys : Seq(Keys), waiter : Clients \cup {NoClient}]
LoopStates ==
    [pc : LoopPcs, client : Clients \cup {NoClient}, keys : Seq(Keys), i : Nat,
     n : Nat, resp : Replies]
ThreadStates ==
    [pc : ThreadPcs, keys : Seq(Keys), i : Nat, waiter : Clients \cup {NoClient},
     resp : Replies]

TypeOK ==
    /\ conn \in [Clients -> {"closed", "idle", "waiting"}]
    /\ lists \in [Keys -> Seq(Elems)]
    /\ known \in SUBSET Keys
    /\ blockingLists \in [Fds -> Entries]
    /\ eventSet \in [Clients -> BOOLEAN]
    /\ loop \in LoopStates
    /\ thread \in [Clients -> ThreadStates]
    /\ next \in 1 .. MaxElems + 1
    /\ sent \in SUBSET Elems
    /\ alive \in BOOLEAN

Init ==
    /\ conn = [c \in Clients |-> "closed"]
    /\ lists = [k \in Keys |-> <<>>]
    /\ known = {}
    /\ blockingLists = [f \in Fds |-> NoEntry]
    /\ eventSet = [c \in Clients |-> FALSE]
    /\ loop = IdleLoop
    /\ thread = [c \in Clients |-> NoThread]
    /\ next = 1
    /\ sent = {}
    /\ alive = TRUE

-----------------------------------------------------------------------------
(* Connections: accept and close, both in the event loop.                  *)

LoopIdle == alive /\ loop.pc = "idle"

\* accept returns a free descriptor.  A connection's name is used again only
\* when its last thread has ended; another one of the same number is not so held.
Connect(c) ==
    /\ LoopIdle
    /\ conn[c] = "closed" /\ thread[c].pc = "none"
    /\ \A d \in Clients : FdOf[d] = FdOf[c] => conn[d] = "closed"
    /\ conn' = [conn EXCEPT ![c] = "idle"]
    /\ UNCHANGED <<lists, blockingLists, eventSet, loop, thread, next, sent, alive, known>>

\* HandleConnection reads end-of-file: subscriptions are dropped, the blocking
\* entry and its thread are left as they are, the descriptor is closed.
Disconnect(c) ==
    /\ LoopIdle
    /\ \/ conn[c] = "idle"
       \/ conn[c] = "waiting" /\ c \in Impatient
    /\ conn' = [conn EXCEPT ![c] = "closed"]
    /\ UNCHANGED <<lists, blockingLists, eventSet, loop, thread, next, sent, alive, known>>

-----------------------------------------------------------------------------
(* Commands that answer at once.                                           *)

\* The loop takes a command of c, and goes on in state l.
Serve(c, l) ==
    /\ LoopIdle
    /\ conn[c] = "idle"
    /\ conn' = [conn EXCEPT ![c] = "waiting"]
    /\ loop' = l

Answer(c, resp) == LoopAt("reply", c, <<>>, 0, resp)

\* Fault: numbers one too high.
NewElemsShifted(n) == [i \in 1 .. n |-> next + i]
NewElems(n) == [i \in 1 .. n |-> next + i - 1]

\* setEventForBlockingLists is called after the store is unlocked.
Push(c, k, n, newList) ==
    /\ Serve(c, LoopAt("notify", c, <<k>>, n, NoReply))
    /\ next + n <= MaxElems + 1
    /\ lists' = [lists EXCEPT ![k] = newList]
    /\ known' = known \cup {k}
    /\ next' = next + n
    /\ UNCHANGED <<blockingLists, eventSet, thread, sent, alive>>

\* Fault: the elements enter at the head in one piece.
LPushInOrder(c, k, n) == Push(c, k, n, NewElems(n) \o lists[k])
LPush(c, k, n) == Push(c, k, n, Reverse(NewElems(n)) \o lists[k])
RPush(c, k, n) == Push(c, k, n, lists[k] \o NewElems(n))

\* The first n elements of a list, and what is left.
Taken(s, n) == SubSeq(s, 1, IF n < Len(s) THEN n ELSE Len(s))
\* Fault: the last element taken is left in the list too.
LeftOverlap(s, n) == SubSeq(s, n, Len(s))
Left(s, n) == SubSeq(s, n + 1, Len(s))

LPopReply(s, n) == IF s = <<>> THEN Reply("nil", <<>>) ELSE Reply("pop", Taken(s, n))

LPop(c, k, n) ==
    /\ Serve(c, Answer(c, LPopReply(lists[k], n)))
    /\ lists' = [lists EXCEPT ![k] = Left(@, n)]
    /\ UNCHANGED <<blockingLists, eventSet, thread, next, sent, alive, known>>

\* The dispatcher answers RPOP itself; rpopHandler is never called.
RPop(c, k) ==
    /\ Serve(c, Answer(c, Reply("placeholder", <<>>)))
    /\ UNCHANGED <<lists, blockingLists, eventSet, thread, next, sent, alive, known>>

LLen(c, k) ==
    /\ Serve(c, Answer(c, Reply("int", <<>>)))
    /\ UNCHANGED <<lists, blockingLists, eventSet, thread, next, sent, alive, known>>

\* An index below the list is taken as 0 and one above it as the last, then a
\* negative one counts from the end.
\* Fault: the last index is one past the end.
ClampedPastEnd(i, n) == IF i < -n THEN 0 ELSE IF i >= n THEN n ELSE i
Clamped(i, n) == IF i < -n THEN 0 ELSE IF i >= n THEN n - 1 ELSE i
IndexOf0(i, n) == (Clamped(i, n) + n) % n

Ranged(s, r) ==
    IF s = <<>> THEN <<>>
    ELSE SubSeq(s, IndexOf0(r[1], Len(s)) + 1, IndexOf0(r[2], Len(s)) + 1)

LRange(c, k, r) ==
    /\ Serve(c, Answer(c, Reply("range", Ranged(lists[k], r))))
    /\ UNCHANGED <<lists, blockingLists, eventSet, thread, next, sent, alive, known>>

-----------------------------------------------------------------------------
(* setEventForBlockingLists, and the reply.                                *)

\* The descriptors that block on k, in the map's order: the n lowest.
BlockedOn(k) == {f \in Fds : k \in ToSet(blockingLists[f].keys)}
FirstBlocked(k, n) ==
    {f \in BlockedOn(k) : Cardinality({g \in BlockedOn(k) : g < f}) < n}
Notified(k, n) == {blockingLists[f].waiter : f \in FirstBlocked(k, n)}

Notify ==
    /\ alive /\ loop.pc = "notify"
    /\ eventSet' = [c \in Clients |->
                      eventSet[c] \/ c \in Notified(loop.keys[1], loop.n)]
    /\ loop' = Answer(loop.client, Reply("int", <<>>))
    /\ UNCHANGED <<conn, lists, blockingLists, thread, next, sent, alive, known>>

Respond ==
    /\ alive /\ loop.pc = "reply"
    /\ conn' = [conn EXCEPT ![loop.client] = "idle"]
    /\ sent' = sent \cup ToSet(Handed(loop.resp))
    /\ loop' = IdleLoop
    /\ UNCHANGED <<lists, blockingLists, eventSet, thread, next, alive, known>>

-----------------------------------------------------------------------------
(* BLPOP in the event loop: pop from the first list that has an element,   *)
(* else register a waiter and leave the reply to a new thread.             *)

\* Bound: the name of a connection has one thread at a time.  Only a connection that
\* got another one's reply could have a second.
Blpop(c, ks) ==
    /\ thread[c].pc = "none"
    /\ Serve(c, LoopAt("scan", c, ks, 0, NoReply))
    /\ UNCHANGED <<lists, blockingLists, eventSet, thread, next, sent, alive, known>>

ScanKey == loop.keys[loop.i]

\* Fault: the last list is not looked at.
MoreKeysButOne == loop.i < Len(loop.keys) - 1
MoreKeys == loop.i < Len(loop.keys)
Scanning == alive /\ loop.pc = "scan"

\* A list that has an element gives up its first one.
PopFirst(k) == lists' = [lists EXCEPT ![k] = Tail(@)]

BlpopFound ==
    /\ Scanning /\ lists[ScanKey] # <<>>
    /\ PopFirst(ScanKey)
    /\ loop' = Answer(loop.client, Reply("pair", <<Head(lists[ScanKey])>>))
    /\ UNCHANGED <<conn, blockingLists, eventSet, thread, next, sent, alive, known>>

BlpopNext ==
    /\ Scanning /\ lists[ScanKey] = <<>> /\ MoreKeys
    /\ loop' = [loop EXCEPT !.i = @ + 1]
    /\ UNCHANGED <<conn, lists, blockingLists, eventSet, thread, next, sent, alive, known>>

\* Fault: the loop answers nil although a thread will answer.
NilInsteadOfNoReply == Answer(loop.client, Reply("nil", <<>>))
\* NO_REPLY: the loop sends nothing.
LoopAfterBlock == IdleLoop

Registering == Scanning /\ lists[ScanKey] = <<>> /\ ~MoreKeys

\* The entry of the descriptor is assigned: an older waiter is destroyed.
BlpopBlock ==
    /\ Registering
    /\ blockingLists' = [blockingLists EXCEPT ![FdOf[loop.client]] =
                           [keys |-> loop.keys, waiter |-> loop.client]]
    /\ eventSet' = [eventSet EXCEPT ![loop.client] = FALSE]
    /\ thread' = [thread EXCEPT ![loop.client] =
                    ThreadAt("start", <<>>, NoClient, NoReply)]
    /\ loop' = LoopAfterBlock
    /\ UNCHANGED <<conn, lists, next, sent, alive, known>>

-----------------------------------------------------------------------------
(* The detached thread of client c.                                        *)

Entry(c) == blockingLists[FdOf[c]]
Running(c, pc) == alive /\ thread[c].pc = pc

\* Its waiter is no longer held by the map, and so is freed.
Dangling(c) == Entry(c).waiter # thread[c].waiter

\* m_blockingLists[clientFd].second->waitForEvent(...) enters the wait.
ThreadStart(c) ==
    /\ Running(c, "start")
    /\ IF Entry(c).waiter = NoClient
       THEN /\ alive' = FALSE
            /\ UNCHANGED thread
       ELSE /\ thread' = [thread EXCEPT ![c].pc = "waiting",
                                        ![c].waiter = Entry(c).waiter]
            /\ UNCHANGED alive
    /\ UNCHANGED <<conn, lists, blockingLists, eventSet, loop, next, sent, known>>

Woken(c) == Running(c, "waiting") /\ (eventSet[thread[c].waiter] \/ Dangling(c))

\* The event is set: the keys are read again from the map.
ThreadWake(c) ==
    /\ Woken(c)
    /\ thread' = [thread EXCEPT ![c] =
         IF Entry(c).keys = <<>>
         THEN ThreadAt("erase", <<>>, @.waiter, Reply("nilarray", <<>>))
         ELSE ThreadAt("scan", Entry(c).keys, @.waiter, NoReply)]
    /\ UNCHANGED <<conn, lists, blockingLists, eventSet, loop, next, sent, alive, known>>

\* Fault: EventWaiter's other waitForEvent, which has no timeout.
WaitIndefinitely(c) == FALSE
\* The wait ends unset.  A timeout of 0 was replaced by ten minutes.
ThreadTimeout(c) ==
    /\ Running(c, "waiting")
    /\ ~eventSet[thread[c].waiter] \/ Dangling(c)
    /\ thread' = [thread EXCEPT ![c].pc = "erase",
                                ![c].resp = Reply("nilarray", <<>>)]
    /\ UNCHANGED <<conn, lists, blockingLists, eventSet, loop, next, sent, alive, known>>

\* A wait on, or a walk through, an entry that was assigned in the meantime
\* may also end the process.
ThreadDangling(c) ==
    /\ Running(c, "waiting") \/ Running(c, "scan")
    /\ Dangling(c)
    /\ alive' = FALSE
    /\ UNCHANGED <<conn, lists, blockingLists, eventSet, loop, thread, next, sent, known>>

ThreadKey(c) == thread[c].keys[thread[c].i]

ThreadFound(c) ==
    /\ Running(c, "scan") /\ lists[ThreadKey(c)] # <<>>
    /\ PopFirst(ThreadKey(c))
    /\ thread' = [thread EXCEPT ![c].pc = "erase",
                    ![c].resp = Reply("pair", <<Head(lists[ThreadKey(c)])>>)]
    /\ UNCHANGED <<conn, blockingLists, eventSet, loop, next, sent, alive, known>>

\* After the last key the response is lpopHandler's "$-1", which is not empty.
ThreadNext(c) ==
    /\ Running(c, "scan") /\ lists[ThreadKey(c)] = <<>>
    /\ thread' = IF thread[c].i < Len(thread[c].keys)
                 THEN [thread EXCEPT ![c].i = @ + 1]
                 ELSE [thread EXCEPT ![c].pc = "erase", ![c].resp = Reply("nil", <<>>)]
    /\ UNCHANGED <<conn, lists, blockingLists, eventSet, loop, next, sent, alive, known>>

\* Fault: the whole map is cleared.
ClearedFor(c) == [f \in Fds |-> NoEntry]
ErasedFor(c) == [blockingLists EXCEPT ![FdOf[c]] = NoEntry]

ThreadErase(c) ==
    /\ Running(c, "erase")
    /\ blockingLists' = ErasedFor(c)
    /\ thread' = [thread EXCEPT ![c].pc = "send"]
    /\ UNCHANGED <<conn, lists, eventSet, loop, next, sent, alive, known>>

\* The reply goes to the connection that has the descriptor now, if any.
ThreadSend(c) ==
    /\ Running(c, "send")
    /\ conn' = [d \in Clients |->
                  IF FdOf[d] = FdOf[c] /\ conn[d] = "waiting" THEN "idle" ELSE conn[d]]
    /\ sent' = sent \cup ToSet(Handed(thread[c].resp))
    /\ thread' = [thread EXCEPT ![c] = NoThread]
    /\ UNCHANGED <<lists, blockingLists, eventSet, loop, next, alive, known>>

-----------------------------------------------------------------------------
(* The two maps, where they are used without their locks.                  *)

\* m_blockingLists: a thread looks its entry up, when it starts and when it wakes, and
\* the loop assigns an entry.  Only the erase of another thread holds the lock.
LookingUp(c) == Running(c, "start") \/ Woken(c)
WaitersRace ==
    LET erasing == \E d \in Clients : Running(d, "erase")
    IN \/ Registering /\ erasing
       \/ \E c \in Clients : LookingUp(c) /\ (Registering \/ erasing)

\* m_lists: a push adds a list without the lock that a thread looks one up under.
ListsRace ==
    /\ LoopIdle /\ next <= MaxElems /\ known # Keys
    /\ \E c \in Clients : conn[c] = "idle"
    /\ \E c \in Clients : Running(c, "scan")

\* Two threads are in one std::map at once and one of them changes it.  They may get
\* by, as in the steps above; else the lookup misses its node and makes a null waiter,
\* or the tree is torn, and nothing is claimed of what follows.
MapRace ==
    /\ alive
    /\ WaitersRace \/ ListsRace
    /\ alive' = FALSE
    /\ UNCHANGED <<conn, lists, blockingLists, eventSet, loop, thread, next, sent, known>>

-----------------------------------------------------------------------------
Command(c) ==
    \/ \E k \in Keys, n \in 1 .. MaxPush : LPush(c, k, n) \/ RPush(c, k, n) \/ LPop(c, k, n)
    \/ \E k \in Keys : RPop(c, k) \/ LLen(c, k)
    \/ \E k \in Keys, r \in Ranges : LRange(c, k, r)
    \/ \E ks \in BlockKeys[c] : Blpop(c, ks)

LoopStep == Notify \/ Respond \/ BlpopFound \/ BlpopNext \/ BlpopBlock

ThreadStep(c) ==
    \/ ThreadStart(c)
    \/ ThreadWake(c) \/ ThreadTimeout(c) \/ ThreadDangling(c)
    \/ ThreadFound(c) \/ ThreadNext(c)
    \/ ThreadErase(c) \/ ThreadSend(c)

\* The process is gone.
Crashed == ~alive /\ UNCHANGED vars

Next ==
    \/ \E c \in Clients : Connect(c) \/ Disconnect(c) \/ Command(c) \/ ThreadStep(c)
    \/ LoopStep
    \/ MapRace
    \/ Crashed

\* The loop finishes the command it serves and every thread runs: its wait ends
\* by the event or by its timeout, which is finite for every BLPOP.
Fairness ==
    /\ WF_vars(LoopStep)
    /\ \A c \in Clients : WF_vars(ThreadStep(c))

Spec == Init /\ [][Next]_vars
FairSpec == Spec /\ Fairness

-----------------------------------------------------------------------------
(* Properties.                                                             *)

\* Who may hold elements: a list, the reply that a thread builds, and the loop's.
ListOf(k) == <<"list", k>>
ReplyOf(c) == <<"reply", c>>
Holders == {ListOf(k) : k \in Keys} \cup {ReplyOf(c) : c \in Clients \cup {NoClient}}
Holding(h) ==
    IF h[1] = "list" THEN lists[h[2]]
    ELSE IF h[2] = NoClient THEN Handed(loop.resp) ELSE Handed(thread[h[2]].resp)

Held == [h \in Holders |-> Holding(h)]

\* The places an element is in: a position in what somebody holds, or sent.
Places(e) ==
    {<<<<"sent", NoClient>>, x>> : x \in sent \cap {e}}
    \cup UNION {{<<h, i>> : i \in {j \in DOMAIN Held[h] : Held[h][j] = e}} : h \in Holders}

\* No element that was pushed is lost, and none is handed out twice, however
\* LPOP, BLPOP and the blocked threads that pop from the same lists interleave.
ElementsConserved == \A e \in 1 .. next - 1 : Cardinality(Places(e)) = 1

\* A client that waits is answered by exactly one of the loop and its thread: the
\* NO_REPLY of blpopHandler hands the duty over, and neither sends twice.
LoopServes(c) == loop.pc # "idle" /\ loop.client = c
ThreadServes(c) == thread[c].pc # "none"
OneResponder ==
    \A c \in Clients :
        /\ conn[c] = "waiting" <=> LoopServes(c) \/ ThreadServes(c)
        /\ ~(LoopServes(c) /\ ThreadServes(c))

\* Up to its erase, the map has for a blocked thread the entry that its own BLPOP
\* assigned, and the thread waits on the waiter in it: erases and assignments that
\* have come to their end leave it there, what a race does to a lookup apart.
WaiterRegistered ==
    \A c \in Clients :
        /\ thread[c].pc \in {"start", "waiting", "scan", "erase"} => Entry(c).waiter = c
        /\ thread[c].pc \in {"waiting", "scan", "erase"} => thread[c].waiter = c

\* No thread dereferences a null or a freed waiter, whatever the order in which threads
\* register, wake and erase: only two of them in one map at once can end the process.
OnlyRacesCrash == [][alive /\ ~alive' => WaitersRace \/ ListsRace]_vars

\* A BLPOP blocks only if every one of its lists is empty at the moment it
\* registers, although the lists were read one by one before that.
BlocksOnlyOnEmpty ==
    [][\A c \in Clients : thread[c].pc = "none" /\ thread'[c].pc = "start" =>
         \A k \in ToSet(blockingLists'[FdOf[c]].keys) : lists[k] = <<>>]_vars

\* What LRANGE documents: the elements from the first index to the last, inclusive,
\* numbered from 0, a negative index counted back from the end.
Position(i, n) == IF i < 0 THEN n + i ELSE i
Documented(s, a, b) ==
    LET n == Len(s)
        from == IF Position(a, n) < 0 THEN 0 ELSE Position(a, n)
        upto == IF Position(b, n) >= n THEN n - 1 ELSE Position(b, n)
    IN SubSeq(s, from + 1, upto + 1)

\* LRANGE of any list the store can hold reads what it documents, if the range
\* starts before the end of the list and does not end before its start: only
\* there do the clamps answer with an element that is not in the range.
LRangeExact ==
    \A k \in Keys : \A a, b \in -(MaxElems + 2) .. MaxElems + 2 :
        a < Len(lists[k]) /\ b >= -Len(lists[k]) =>
            Ranged(lists[k], <<a, b>>) = Documented(lists[k], a, b)

\* The lists that a BLPOP has passed are still empty: only the loop adds elements.
ScannedEmpty ==
    loop.pc = "scan" =>
        /\ loop.i \in DOMAIN loop.keys
        /\ \A j \in 1 .. loop.i - 1 : lists[loop.keys[j]] = <<>>

\* A thread that scans has a list to look at.
ThreadIndexed ==
    \A c \in Clients : thread[c].pc = "scan" => thread[c].i \in DOMAIN thread[c].keys

\* The inductive invariant of every behaviour.
ScanInv == TypeOK /\ ScannedEmpty /\ ThreadIndexed

\* No element stands twice in s.
NoTwice(s) == \A i, j \in 1 .. Len(s) : s[i] = s[j] => i = j

\* A reply holds no element before it is complete, and a BLPOP that scans has no
\* older thread whose reply its own would replace.
RepliesBuilt ==
    /\ loop.pc \in {"idle", "notify", "scan"} => Handed(loop.resp) = <<>>
    /\ \A c \in Clients :
         thread[c].pc \in {"none", "start", "waiting", "scan"} => Handed(thread[c].resp) = <<>>
    /\ loop.pc = "scan" => loop.client \in Clients /\ thread[loop.client].pc = "none"

\* held is the sequence of elements of each of D: together with those that are gone
\* they are the elements below n, each once.
Shared(D, held, gone, n) ==
    /\ \A h \in D : NoTwice(held[h]) /\ ToSet(held[h]) \cap gone = {}
    /\ \A h, g \in D : h # g => ToSet(held[h]) \cap ToSet(held[g]) = {}
    /\ gone \cup (UNION {ToSet(held[h]) : h \in D}) = 1 .. n - 1

\* The inductive invariant behind ElementsConserved.
ElementsInv ==
    ScanInv /\ RepliesBuilt /\ Shared(Holders, Held, sent, next)

\* A descriptor number belongs to one open connection.
OpenFdsDistinct ==
    \A c, d \in Clients :
        conn[c] # "closed" /\ conn[d] # "closed" /\ FdOf[c] = FdOf[d] => c = d

\* The inductive invariant when no client closes with a command unanswered.
PatientInv ==
    /\ ScanInv
    /\ loop.pc # "idle" => loop.client \in Clients
    /\ OneResponder
    /\ OpenFdsDistinct
    /\ WaiterRegistered

\* The inductive invariant behind the refinement: a thread that scans still looks at
\* the lists that its client has asked for.
ScansAsked == \A c \in Clients : thread[c].pc = "scan" => thread[c].keys = Entry(c).keys
RequestInv == PatientInv /\ ElementsInv /\ ScansAsked

\* A thread with nothing left to do but wait.
Asleep(c) == thread[c].pc = "waiting" /\ ~eventSet[thread[c].waiter]
Quiet ==
    /\ loop.pc = "idle"
    /\ \A c \in Clients : thread[c].pc # "none" => Asleep(c)

\* When all activity has ceased, a client is blocked only on empty lists: a push
\* wakes a client for every element it adds.
SleepsOnlyOnEmpty ==
    alive /\ Quiet =>
        \A c \in Clients : Asleep(c) => \A k \in ToSet(Entry(c).keys) : lists[k] = <<>>

\* Every command is answered, unless a race ends the process: the loop never waits for
\* a thread, and each blocked thread ends by an event or a timeout.
EveryCommandAnswered ==
    \A c \in Clients : (conn[c] = "waiting") ~> (conn[c] # "waiting" \/ ~alive)

Request(st, keys, elems) == [st |-> st, keys |-> keys, elems |-> elems]

\* The request of c as the service sees it: asked while the loop scans for it,
\* blocked until its thread has a reply, answered until the reply is sent.
ServiceRequest(c) ==
    IF conn[c] # "waiting" THEN Request("idle", <<>>, <<>>)
    ELSE IF LoopServes(c)
    THEN IF loop.pc = "scan" THEN Request("asked", loop.keys, <<>>)
         ELSE Request("answered", <<>>, Handed(loop.resp))
    ELSE IF thread[c].pc \in {"start", "waiting", "scan"} THEN Request("blocked", Entry(c).keys, <<>>)
    ELSE Request("answered", <<>>, Handed(thread[c].resp))

Requests == [c \in Clients |-> ServiceRequest(c)]

Service == INSTANCE ListService WITH req <- Requests, given <- sent, up <- alive

\* The event loop, the detached threads and the map of waiters together implement
\* the list service: whatever the interleaving, each command takes effect at once
\* and every request moves on.
ImplementsService == Service!ServiceSpec
=============================================================================
