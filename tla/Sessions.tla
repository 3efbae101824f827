------------------------------ MODULE Sessions ------------------------------
(***************************************************************************)
(* The modes of a connection and their composition in                      *)
(* Server::HandleCommand (src/src/Server.cpp): transactions                *)
(* (src/src/TransactionHandler.cpp), subscribed mode, plain commands, and  *)
(* the detached threads of BLPOP that answer later.                        *)
(*                                                                         *)
(* The data is one list, of which only the length is kept.  A command that *)
(* answers at once is one step of the event loop; EXEC is one step for     *)
(* each queued command, since a detached thread may run between two.       *)
(*                                                                         *)
(* A client is a connection; several clients may own the same descriptor   *)
(* number, one after the other.  A definition marked "Fault" is a mutated  *)
(* form of the one after it.                                               *)
(***************************************************************************)
EXTENDS Integers, Sequences, SequencesExt

CONSTANTS
    Clients,    \* connections
    NoClient,   \* a value that is no client
    FdOf,       \* the descriptor number of a connection
    Impatient,  \* clients that may close while a command of theirs is unanswered
    Blockers,   \* clients that send BLPOP
    MaxAsked    \* bound: commands in a behaviour

ASSUME ClientsAssumption == NoClient \notin Clients
ASSUME FdOfAssumption == FdOf \in [Clients -> Nat]
ASSUME SubsetsAssumption == Impatient \subseteq Clients /\ Blockers \subseteq Clients
ASSUME BoundAssumption == MaxAsked \in Nat

VARIABLES
    open,       \* the clients that are connected
    tx,         \* m_mapClientTransactions
    subs,       \* the descriptors in subscribed mode
    items,      \* the length of the list
    thread,     \* the BLPOP thread of a descriptor
    loop,       \* the event loop: idle, or inside EXEC, and the last command it ran
    owed,       \* commands of a descriptor's owner minus replies it got; SUBSCRIBE and
                \* UNSUBSCRIBE, which have confirmations and no reply, do not count
    begun,      \* history: clients that began the transaction they are in
    left,       \* history: descriptors whose owner closed inside a transaction
    strays,     \* history: replies of threads, sent or to come, that the descriptor's
                \* owner did not ask for
    asked       \* commands so far

vars == <<open, tx, subs, items, thread, loop, owed, begun, left, strays, asked>>

-----------------------------------------------------------------------------
Fds == {FdOf[c] : c \in Clients}
OpenFds == {FdOf[c] : c \in open}

Control == {"multi", "exec", "discard"}
Subscription == {"subscribe", "unsubscribe", "publish"}
Data == {"push", "pop", "blpop"}
Commands == Control \cup Subscription \cup Data

\* Replies: an error, QUEUED, NO_REPLY, an array, or what the command answers.
Replies == {"error", "queued", "noreply", "array", "ok", "value", "nil"}

NoTx == [on |-> FALSE, queue |-> <<>>]
NewTx == [on |-> TRUE, queue |-> <<>>]

\* A thread waits until a push signals it.
ThreadPcs == {"none", "waiting", "signalled"}

Ran(c, cmd, reply) == [client |-> c, cmd |-> cmd, reply |-> reply]
LoopAt(pc, c, queue, results, ran) ==
    [pc |-> pc, client |-> c, queue |-> queue, results |-> results, ran |-> ran]
Idle(ran) == LoopAt("idle", NoClient, <<>>, <<>>, ran)

One(b) == IF b THEN 1 ELSE 0

TypeOK ==
    /\ open \subseteq Clients
    /\ tx \in [Fds -> [on : BOOLEAN, queue : Seq(Commands \ Control)]]
    /\ subs \subseteq Fds
    /\ items \in Nat
    /\ thread \in [Fds -> ThreadPcs]
    /\ loop \in [pc : {"idle", "exec"}, client : Clients \cup {NoClient},
                 queue : Seq(Commands \ Control), results : Seq(Replies),
                 ran : [client : Clients \cup {NoClient}, cmd : Commands \cup {"none"},
                        reply : Replies]]
    /\ owed \in [Fds -> Int]
    /\ begun \subseteq Clients
    /\ left \subseteq Fds
    /\ strays \in [Fds -> Nat]
    /\ asked \in 0 .. MaxAsked

Init ==
    /\ open = {}
    /\ tx = [f \in Fds |-> NoTx]
    /\ subs = {}
    /\ items = 0
    /\ thread = [f \in Fds |-> "none"]
    /\ loop = Idle(Ran(NoClient, "none", "noreply"))
    /\ owed = [f \in Fds |-> 0]
    /\ begun = {} /\ left = {}
    /\ strays = [f \in Fds |-> 0]
    /\ asked = 0

-----------------------------------------------------------------------------
(* Connections.                                                            *)

LoopIdle == loop.pc = "idle"

Connect(c) ==
    /\ LoopIdle
    /\ FdOf[c] \notin OpenFds
    /\ open' = open \cup {c}
    /\ owed' = [owed EXCEPT ![FdOf[c]] = 0]
    /\ strays' = [strays EXCEPT ![FdOf[c]] = One(thread[FdOf[c]] # "none")]
    /\ UNCHANGED <<tx, subs, items, thread, loop, begun, left, asked>>

\* HandleConnection reads end-of-file: the subscriptions of the descriptor go, its
\* transaction and its blocked thread stay.
Disconnect(c) ==
    /\ LoopIdle
    /\ c \in open
    /\ owed[FdOf[c]] > 0 => c \in Impatient
    /\ open' = open \ {c}
    /\ subs' = subs \ {FdOf[c]}
    /\ begun' = begun \ {c}
    /\ left' = IF tx[FdOf[c]].on THEN left \cup {FdOf[c]} ELSE left
    /\ UNCHANGED <<tx, items, thread, loop, owed, strays, asked>>

-----------------------------------------------------------------------------
(* HandleCommand for every command but an EXEC that has a transaction: the *)
(* transaction is looked for first, then the subscriptions.                *)

InTransaction(c) == tx[FdOf[c]].on
IsClientInSubscribedMode(c) == FdOf[c] \in subs

Multi(c, reply) ==
    /\ IF InTransaction(c)
       THEN reply = "error" /\ UNCHANGED tx
       ELSE reply = "ok" /\ tx' = [tx EXCEPT ![FdOf[c]] = NewTx]
    /\ UNCHANGED <<subs, items, thread>>

Discard(c, reply) ==
    /\ IF InTransaction(c)
       THEN reply = "ok" /\ tx' = [tx EXCEPT ![FdOf[c]] = NoTx]
       ELSE reply = "error" /\ UNCHANGED tx
    /\ UNCHANGED <<subs, items, thread>>

ExecWithoutMulti(c, reply) ==
    /\ ~InTransaction(c)
    /\ reply = "error"
    /\ UNCHANGED <<tx, subs, items, thread>>

AddCommandToTransaction(c, cmd, reply) ==
    /\ InTransaction(c)
    /\ reply = "queued"
    /\ tx' = [tx EXCEPT ![FdOf[c]].queue = Append(@, cmd)]
    /\ UNCHANGED <<subs, items, thread>>

\* The handlers of SUBSCRIBE and UNSUBSCRIBE send their confirmations themselves, one for
\* each channel and so maybe none, and return NO_REPLY; which channels there are, and
\* whether the last one has gone, is told in SubscriptionHandler.
SubscriptionCommand(c, cmd, reply) ==
    /\ \/ cmd = "subscribe" /\ reply = "noreply" /\ subs' \in {subs, subs \cup {FdOf[c]}}
       \/ cmd = "unsubscribe" /\ reply = "noreply" /\ subs' \in {subs, subs \ {FdOf[c]}}
       \/ cmd = "publish" /\ reply = "value" /\ UNCHANGED subs
       \/ cmd \in Data /\ reply = "error" /\ UNCHANGED subs
    /\ UNCHANGED <<tx, items, thread>>

\* RPUSH of one element: the blocked descriptor that comes first is signalled.
FirstBlocked == {f \in Fds : thread[f] # "none" /\ \A g \in Fds : g < f => thread[g] = "none"}
Push(reply) ==
    /\ items' = items + 1
    /\ thread' = [f \in Fds |-> IF f \in FirstBlocked THEN "signalled" ELSE thread[f]]
    /\ reply = "value"

Pop(reply) ==
    /\ IF items > 0 THEN reply = "value" /\ items' = items - 1
                    ELSE reply = "nil" /\ UNCHANGED items
    /\ UNCHANGED thread

\* Bound: a descriptor has one blocked thread at a time.
Blpop(f, reply) ==
    IF items > 0
    THEN reply = "value" /\ items' = items - 1 /\ UNCHANGED thread
    ELSE /\ thread[f] = "none"
         /\ reply = "noreply"
         /\ thread' = [thread EXCEPT ![f] = "waiting"]
         /\ UNCHANGED items

DataCommand(c, cmd, reply) ==
    /\ \/ cmd = "push" /\ Push(reply)
       \/ cmd = "pop" /\ Pop(reply)
       \/ cmd = "blpop" /\ Blpop(FdOf[c], reply)
    /\ UNCHANGED <<tx, subs>>

\* Fault: a queued command is run without a look at the subscriptions.
RefusedOutside(c) == IsClientInSubscribedMode(c) /\ LoopIdle
Refused(c) == IsClientInSubscribedMode(c)

HandleCommand(c, cmd, reply) ==
    \/ cmd = "multi" /\ Multi(c, reply)
    \/ cmd = "discard" /\ Discard(c, reply)
    \/ cmd = "exec" /\ ExecWithoutMulti(c, reply)
    \/ cmd \notin Control /\ AddCommandToTransaction(c, cmd, reply)
    \/ /\ cmd \notin Control /\ ~InTransaction(c)
       /\ IF cmd \in Subscription \/ Refused(c)
          THEN SubscriptionCommand(c, cmd, reply)
          ELSE DataCommand(c, cmd, reply)

-----------------------------------------------------------------------------
(* The event loop.                                                         *)

\* A client may send a command while it waits for a reply to an earlier one.
Asks(c, cmd) ==
    /\ LoopIdle
    /\ c \in open
    /\ asked < MaxAsked /\ asked' = asked + 1
    /\ cmd = "blpop" =>
         /\ c \in Blockers /\ thread[FdOf[c]] = "none"
         /\ "blpop" \notin ToSet(tx[FdOf[c]].queue)

\* NO_REPLY is not sent.  After a BLPOP a thread will answer.
Blocks(cmd, reply) == cmd = "blpop" /\ reply = "noreply"

Serve(c, cmd) ==
    /\ Asks(c, cmd)
    /\ \E reply \in Replies :
         /\ HandleCommand(c, cmd, reply)
         /\ loop' = Idle(Ran(c, cmd, reply))
         /\ owed' = IF Blocks(cmd, reply) THEN [owed EXCEPT ![FdOf[c]] = @ + 1] ELSE owed
         /\ begun' = CASE cmd = "multi" /\ reply = "ok" -> begun \cup {c}
                       [] cmd = "discard" -> begun \ {c}
                       [] OTHER -> begun
         /\ left' = IF cmd = "discard" THEN left \ {FdOf[c]} ELSE left
    /\ UNCHANGED <<open, strays>>

\* Fault: the transaction is erased after its commands, not before.
KeptTx(c) == tx[FdOf[c]]
ErasedTx(c) == NoTx

\* The transaction is erased "before execution so they are not queued again".
ExecuteTransaction(c) ==
    /\ Asks(c, "exec")
    /\ InTransaction(c)
    /\ loop' = LoopAt("exec", c, tx[FdOf[c]].queue, <<>>, loop.ran)
    /\ tx' = [tx EXCEPT ![FdOf[c]] = ErasedTx(c)]
    /\ owed' = [owed EXCEPT ![FdOf[c]] = @ + 1]
    /\ begun' = begun \ {c}
    /\ left' = left \ {FdOf[c]}
    /\ UNCHANGED <<open, subs, items, thread, strays>>

\* The next queued command; what it returns, NO_REPLY too, goes into the array, behind
\* the confirmations that it has sent.
ExecStep ==
    /\ loop.pc = "exec" /\ Len(loop.results) < Len(loop.queue)
    /\ LET c == loop.client
           cmd == loop.queue[Len(loop.results) + 1]
       IN \E reply \in Replies :
            /\ HandleCommand(c, cmd, reply)
            /\ loop' = [loop EXCEPT !.results = Append(@, reply), !.ran = Ran(c, cmd, reply)]
            /\ strays' = IF Blocks(cmd, reply) THEN [strays EXCEPT ![FdOf[c]] = @ + 1] ELSE strays
    /\ UNCHANGED <<open, owed, begun, left, asked>>

ExecEnd ==
    /\ loop.pc = "exec" /\ Len(loop.results) = Len(loop.queue)
    /\ loop' = Idle(Ran(loop.client, "exec", "array"))
    /\ owed' = [owed EXCEPT ![FdOf[loop.client]] = @ - 1]
    /\ UNCHANGED <<open, tx, subs, items, thread, begun, left, strays, asked>>

-----------------------------------------------------------------------------
(* The BLPOP thread of a descriptor: it ends by its event, and pops if     *)
(* there still is an element, or by its timeout.  It sends to whoever owns *)
(* the descriptor now.                                                     *)

\* Fault: a woken thread takes an element without a look whether there is one.
TakenBlindly == items - 1
Taken == IF items > 0 THEN items - 1 ELSE items

\* Fault: the thread does not send.
OwedStill(f) == owed
OwedAfterSend(f) == IF f \in OpenFds THEN [owed EXCEPT ![f] = @ - 1] ELSE owed

ThreadEnd(f) ==
    /\ thread[f] # "none"
    /\ items' = IF thread[f] = "signalled" THEN Taken ELSE items
    /\ thread' = [thread EXCEPT ![f] = "none"]
    /\ owed' = OwedAfterSend(f)
    /\ UNCHANGED <<open, tx, subs, loop, begun, left, strays, asked>>

-----------------------------------------------------------------------------
Next ==
    \/ \E c \in Clients :
         \/ Connect(c) \/ Disconnect(c)
         \/ \E cmd \in Commands : Serve(c, cmd)
         \/ ExecuteTransaction(c)
    \/ ExecStep \/ ExecEnd
    \/ \E f \in Fds : ThreadEnd(f)

Spec == Init /\ [][Next]_vars

-----------------------------------------------------------------------------
(* Properties.                                                             *)

Executing(f) == loop.pc = "exec" /\ FdOf[loop.client] = f

\* Each command that has a reply has one, sent or still to be sent by the loop or by a
\* thread, also through EXEC.  What a client gets beyond that is counted: one reply for
\* each BLPOP that blocked inside of an EXEC, whose array has answered for it already,
\* and one of a thread that the descriptor's former owner left.
OneReplyEach ==
    \A f \in OpenFds :
        owed[f] = One(Executing(f)) + One(thread[f] # "none") - strays[f]

\* A descriptor is in a transaction because its owner began one and has neither run
\* nor discarded it, or because an earlier owner closed inside one: an accept never
\* clears it, and while EXEC runs its queue nothing can be queued again.
TransactionsAccountedFor ==
    \A f \in Fds :
        tx[f].on <=> f \in left \/ \E c \in open \cap begun : FdOf[c] = f

\* A connection in subscribed mode changes and reads no data, by a plain command or by
\* one that was queued before the SUBSCRIBE that EXEC ran ahead of it.
SubscribedRunsNoData ==
    [][loop'.ran # loop.ran /\ loop'.ran.cmd \in Data /\ FdOf[loop'.ran.client] \in subs =>
         loop'.ran.reply \in {"error", "queued"}]_vars

\* "No other commands from other clients can interfere" (src/ui/redis_commands.py:578):
\* between two commands of an EXEC no thread but the client's own changes the data.
BetweenCommands == loop.pc = "exec" /\ Len(loop.results) \in 1 .. Len(loop.queue) - 1
NothingInterferes ==
    [][LET own == FdOf[loop.client]
       IN BetweenCommands /\ loop' = loop /\ thread'[own] = thread[own] => items' = items]_vars
=============================================================================
