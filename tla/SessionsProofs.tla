--------------------------- MODULE SessionsProofs ---------------------------
(***************************************************************************)
(* Theorems about Sessions, for every set of clients, every assignment of  *)
(* descriptors and any number of commands.                                 *)
(***************************************************************************)
EXTENDS Sessions, TLAPS

-----------------------------------------------------------------------------
(* What HandleCommand does, whoever calls it.                              *)

\* The state it works on keeps its type.
LEMMA HandleType ==
  ASSUME TypeOK, NEW c \in Clients, NEW cmd \in Commands, NEW reply \in Replies,
         HandleCommand(c, cmd, reply)
  PROVE  /\ tx' \in [Fds -> [on : BOOLEAN, queue : Seq(Commands \ Control)]]
         /\ subs' \subseteq Fds
         /\ items' \in Nat
         /\ thread' \in [Fds -> ThreadPcs]
<1>1. FdOf[c] \in Fds
  BY DEF Fds
<1> DEFINE Entries == [on : BOOLEAN, queue : Seq(Commands \ Control)]
<1>2. NoTx \in Entries /\ NewTx \in Entries
  BY DEF NoTx, NewTx
<1>3. tx \in [Fds -> Entries] /\ subs \subseteq Fds /\ items \in Nat /\ thread \in [Fds -> ThreadPcs]
  BY DEF TypeOK
<1>4. ASSUME NEW t \in Entries PROVE [tx EXCEPT ![FdOf[c]] = t] \in [Fds -> Entries]
  <2> HIDE DEF Entries
  <2>1. QED
    BY <1>1, <1>3
<1>5. CASE Multi(c, reply)
  <2> HIDE DEF Entries
  <2>1. tx' \in [Fds -> Entries]
    BY <1>2, <1>5, <1>3, <1>4 DEF Multi
  <2>2. QED
    BY <1>5, <1>3, <2>1 DEF Multi, Entries
<1>6. CASE Discard(c, reply)
  <2> HIDE DEF Entries
  <2>1. tx' \in [Fds -> Entries]
    BY <1>2, <1>6, <1>3, <1>4 DEF Discard
  <2>2. QED
    BY <1>6, <1>3, <2>1 DEF Discard, Entries
<1>7. CASE ExecWithoutMulti(c, reply)
  BY <1>7 DEF ExecWithoutMulti, TypeOK
<1>8. CASE cmd \notin Control /\ AddCommandToTransaction(c, cmd, reply)
  <2>1. Append(tx[FdOf[c]].queue, cmd) \in Seq(Commands \ Control)
    BY <1>1, <1>8 DEF TypeOK
  <2>2. QED
    BY <1>1, <1>8, <2>1 DEF AddCommandToTransaction, TypeOK
<1>9. CASE SubscriptionCommand(c, cmd, reply)
  BY <1>1, <1>9 DEF SubscriptionCommand, TypeOK
<1>10. CASE DataCommand(c, cmd, reply)
  <2>1. thread \in [Fds -> ThreadPcs] /\ items \in Nat
    BY DEF TypeOK
  <2>2. ASSUME Push(reply) PROVE items' \in Nat /\ thread' \in [Fds -> ThreadPcs]
    BY <2>1, <2>2 DEF Push, ThreadPcs
  <2>3. ASSUME Pop(reply) PROVE items' \in Nat /\ thread' \in [Fds -> ThreadPcs]
    BY <2>1, <2>3 DEF Pop
  <2>4. ASSUME Blpop(FdOf[c], reply) PROVE items' \in Nat /\ thread' \in [Fds -> ThreadPcs]
    BY <1>1, <2>1, <2>4 DEF Blpop, ThreadPcs
  <2>5. items' \in Nat /\ thread' \in [Fds -> ThreadPcs]
    BY <1>10, <2>2, <2>3, <2>4 DEF DataCommand
  <2>6. QED
    BY <1>10, <2>5 DEF DataCommand, TypeOK
<1>11. QED
  BY <1>5, <1>6, <1>7, <1>8, <1>9, <1>10 DEF HandleCommand

\* A thread is made exactly where a BLPOP returns NO_REPLY, and none ends.
LEMMA HandleThreads ==
  ASSUME TypeOK, NEW c \in Clients, NEW cmd \in Commands, NEW reply \in Replies,
         HandleCommand(c, cmd, reply)
  PROVE  /\ Blocks(cmd, reply) =>
              thread[FdOf[c]] = "none" /\ thread' = [thread EXCEPT ![FdOf[c]] = "waiting"]
         /\ ~Blocks(cmd, reply) => \A f \in Fds : thread'[f] = "none" <=> thread[f] = "none"
<1>1. FdOf[c] \in Fds /\ thread \in [Fds -> ThreadPcs]
  BY DEF Fds, TypeOK
<1>2. CASE UNCHANGED thread /\ ~Blocks(cmd, reply)
  BY <1>2
<1>3. CASE Push(reply)
  BY <1>1, <1>3 DEF Push, FirstBlocked, Blocks
<1>4. CASE Pop(reply)
  BY <1>4 DEF Pop, Blocks
<1>5. CASE cmd = "blpop" /\ Blpop(FdOf[c], reply)
  BY <1>1, <1>5 DEF Blpop, Blocks
<1>6. QED
  BY <1>2, <1>3, <1>4, <1>5
     DEF HandleCommand, Multi, Discard, ExecWithoutMulti, AddCommandToTransaction,
         SubscriptionCommand, DataCommand, Blocks, Data

\* A command that EXEC may run neither begins nor ends a transaction.
LEMMA HandleKeepsMode ==
  ASSUME TypeOK, NEW c \in Clients, NEW cmd \in Commands \ Control, NEW reply \in Replies,
         HandleCommand(c, cmd, reply)
  PROVE  \A f \in Fds : tx'[f].on = tx[f].on
<1>1. FdOf[c] \in Fds /\ tx \in [Fds -> [on : BOOLEAN, queue : Seq(Commands \ Control)]]
  BY DEF Fds, TypeOK
<1>2. CASE AddCommandToTransaction(c, cmd, reply)
  BY <1>1, <1>2 DEF AddCommandToTransaction
<1>3. CASE UNCHANGED tx
  BY <1>3
<1>4. QED
  BY <1>2, <1>3 DEF HandleCommand, SubscriptionCommand, DataCommand, Control

\* In subscribed mode a data command is refused, or queued.
LEMMA HandleRefuses ==
  ASSUME NEW c \in Clients, NEW cmd \in Data, NEW reply \in Replies,
         HandleCommand(c, cmd, reply), FdOf[c] \in subs
  PROVE  reply \in {"error", "queued"}
BY DEF HandleCommand, AddCommandToTransaction, SubscriptionCommand, Refused,
       IsClientInSubscribedMode, Data, Control, Subscription

-----------------------------------------------------------------------------
(* Types.  EXEC runs for a client that is connected: the loop, which is     *)
(* busy, reads no end of file.                                              *)

LoopStates ==
    [pc : {"idle", "exec"}, client : Clients \cup {NoClient},
     queue : Seq(Commands \ Control), results : Seq(Replies),
     ran : [client : Clients \cup {NoClient}, cmd : Commands \cup {"none"}, reply : Replies]]

ExecutesForSomeone == loop.pc = "exec" => loop.client \in open

TypeInv == TypeOK /\ ExecutesForSomeone

LEMMA TypeInvInit == Init => TypeInv
<1> SUFFICES ASSUME Init PROVE TypeInv
  OBVIOUS
<1>1. loop \in LoopStates /\ loop.pc = "idle"
  BY DEF Init, LoopStates, Idle, LoopAt, Ran, Replies
<1>2. QED
  BY <1>1, BoundAssumption
     DEF Init, TypeInv, TypeOK, ExecutesForSomeone, LoopStates, NoTx, ThreadPcs

\* The command that EXEC runs next.
LEMMA NextQueued ==
  ASSUME TypeInv, ExecStep
  PROVE  /\ loop.client \in Clients /\ loop.client \in open
         /\ loop.queue[Len(loop.results) + 1] \in Commands \ Control
<1>1. loop.queue \in Seq(Commands \ Control) /\ loop.results \in Seq(Replies)
  BY DEF TypeInv, TypeOK
<1>2. Len(loop.results) + 1 \in 1 .. Len(loop.queue)
  BY <1>1 DEF ExecStep
<1>3. QED
  BY <1>1, <1>2 DEF TypeInv, TypeOK, ExecutesForSomeone, ExecStep

LEMMA TypeInvStep == TypeInv /\ [Next]_vars => TypeInv'
<1> SUFFICES ASSUME TypeInv, [Next]_vars PROVE TypeInv'
  OBVIOUS
<1> USE BoundAssumption
<1>0. TypeOK /\ ExecutesForSomeone /\ loop \in LoopStates
  BY DEF TypeInv, TypeOK, LoopStates
<1>1. ASSUME NEW c \in Clients, Connect(c) PROVE TypeInv'
  <2>1. One(thread[FdOf[c]] # "none") \in Nat
    BY DEF One
  <2>2. strays' \in [Fds -> Nat]
    BY <1>0, <1>1, <2>1 DEF Connect, TypeOK
  <2>3. QED
    BY <1>0, <1>1, <2>2 DEF Connect, LoopIdle, TypeInv, TypeOK, ExecutesForSomeone, OpenFds, Fds
<1>2. ASSUME NEW c \in Clients, Disconnect(c) PROVE TypeInv'
  BY <1>0, <1>2 DEF Disconnect, LoopIdle, TypeInv, TypeOK, ExecutesForSomeone, Fds
<1>3. ASSUME NEW c \in Clients, NEW cmd \in Commands, Serve(c, cmd) PROVE TypeInv'
  <2>1. PICK reply \in Replies :
          /\ HandleCommand(c, cmd, reply)
          /\ loop' = Idle(Ran(c, cmd, reply))
          /\ owed' = IF Blocks(cmd, reply) THEN [owed EXCEPT ![FdOf[c]] = @ + 1] ELSE owed
          /\ begun' = CASE cmd = "multi" /\ reply = "ok" -> begun \cup {c}
                        [] cmd = "discard" -> begun \ {c}
                        [] OTHER -> begun
          /\ left' = IF cmd = "discard" THEN left \ {FdOf[c]} ELSE left
    BY <1>3 DEF Serve
  <2>2. begun' \subseteq Clients /\ left' \subseteq Fds
    BY <1>0, <2>1 DEF TypeOK
  <2>3. owed' \in [Fds -> Int]
    BY <1>0, <2>1 DEF TypeOK, Fds
  <2>4. loop' \in LoopStates /\ loop'.pc = "idle"
    BY <2>1 DEF Idle, LoopAt, Ran, LoopStates
  <2>5. asked' \in 0 .. MaxAsked /\ open' = open /\ strays' = strays
    BY <1>0, <1>3 DEF Serve, Asks, TypeOK
  <2>6. QED
    BY <1>0, <2>1, <2>2, <2>3, <2>4, <2>5, HandleType
       DEF TypeInv, TypeOK, ExecutesForSomeone, LoopStates
<1>4. ASSUME NEW c \in Clients, ExecuteTransaction(c) PROVE TypeInv'
  <2>1. FdOf[c] \in Fds
    BY DEF Fds
  <2>2. tx[FdOf[c]].queue \in Seq(Commands \ Control)
    BY <1>0, <2>1 DEF TypeOK
  <2>3. loop' \in LoopStates /\ loop'.client = c
    BY <1>0, <1>4, <2>2 DEF ExecuteTransaction, LoopAt, LoopStates
  <2>4. tx' \in [Fds -> [on : BOOLEAN, queue : Seq(Commands \ Control)]]
    BY <1>0, <1>4, <2>1 DEF ExecuteTransaction, ErasedTx, NoTx, TypeOK
  <2>5. QED
    BY <1>0, <1>4, <2>1, <2>3, <2>4
       DEF ExecuteTransaction, Asks, TypeInv, TypeOK, ExecutesForSomeone, LoopStates
<1>5. CASE ExecStep
  <2> DEFINE c == loop.client
             cmd == loop.queue[Len(loop.results) + 1]
  <2>1. c \in Clients /\ c \in open /\ cmd \in Commands /\ FdOf[c] \in Fds
    BY <1>5, NextQueued DEF Fds
  <2>2. PICK reply \in Replies :
          /\ HandleCommand(c, cmd, reply)
          /\ loop' = [loop EXCEPT !.results = Append(@, reply), !.ran = Ran(c, cmd, reply)]
          /\ strays' = IF Blocks(cmd, reply) THEN [strays EXCEPT ![FdOf[c]] = @ + 1] ELSE strays
    BY <1>5 DEF ExecStep
  <2>3. loop' \in LoopStates /\ loop'.client = c
    <3>1. Append(loop.results, reply) \in Seq(Replies)
      BY <1>0 DEF LoopStates
    <3>2. Ran(c, cmd, reply) \in [client : Clients \cup {NoClient},
                                  cmd : Commands \cup {"none"}, reply : Replies]
      BY <2>1 DEF Ran
    <3> HIDE DEF c, cmd
    <3>3. QED
      BY <1>0, <2>2, <3>1, <3>2 DEF LoopStates, c
  <2>4. strays' \in [Fds -> Nat]
    BY <1>0, <2>1, <2>2 DEF TypeOK
  <2>5. QED
    BY <1>0, <1>5, <2>1, <2>2, <2>3, <2>4, HandleType
       DEF ExecStep, TypeInv, TypeOK, ExecutesForSomeone, LoopStates
<1>6. CASE ExecEnd
  <2>1. loop.client \in Clients /\ FdOf[loop.client] \in Fds
    BY <1>0, <1>6 DEF ExecEnd, ExecutesForSomeone, TypeOK, Fds
  <2>2. loop' \in LoopStates /\ loop'.pc = "idle"
    BY <1>6, <2>1 DEF ExecEnd, Idle, LoopAt, Ran, LoopStates, Replies, Commands, Control
  <2>3. QED
    BY <1>0, <1>6, <2>1, <2>2 DEF ExecEnd, TypeInv, TypeOK, ExecutesForSomeone, LoopStates
<1>7. ASSUME NEW f \in Fds, ThreadEnd(f) PROVE TypeInv'
  BY <1>0, <1>7
     DEF ThreadEnd, OwedAfterSend, Taken, TypeInv, TypeOK, ExecutesForSomeone, ThreadPcs
<1>8. CASE UNCHANGED vars
  BY <1>0, <1>8 DEF vars, TypeInv, TypeOK, ExecutesForSomeone
<1>9. QED
  BY <1>1, <1>2, <1>3, <1>4, <1>5, <1>6, <1>7, <1>8 DEF Next

LEMMA TypeInvAlways == Spec => []TypeInv
BY TypeInvInit, TypeInvStep, PTL DEF Spec

\* Every state has its type.
THEOREM TypeCorrect == Spec => []TypeOK
<1>1. TypeInv => TypeOK
  BY DEF TypeInv
<1>2. QED
  BY <1>1, TypeInvAlways, PTL

-----------------------------------------------------------------------------
(* Replies.                                                                *)

ReplyInv == TypeInv /\ OneReplyEach

LEMMA ReplyInvInit == Init => ReplyInv
<1>1. Init => OneReplyEach
  BY DEF Init, OneReplyEach, OpenFds
<1>2. QED
  BY <1>1, TypeInvInit DEF ReplyInv

LEMMA ReplyInvStep == ReplyInv /\ [Next]_vars => ReplyInv'
<1> SUFFICES ASSUME ReplyInv, [Next]_vars PROVE OneReplyEach'
  BY TypeInvStep DEF ReplyInv
<1>0. /\ TypeOK /\ ExecutesForSomeone /\ OneReplyEach
      /\ thread \in [Fds -> ThreadPcs] /\ owed \in [Fds -> Int] /\ strays \in [Fds -> Nat] /\ OpenFds \subseteq Fds
  BY DEF ReplyInv, TypeInv, TypeOK, OpenFds, Fds
<1>1. ASSUME NEW c \in Clients, Connect(c) PROVE OneReplyEach'
  <2>1. FdOf[c] \in Fds /\ OpenFds' = OpenFds \cup {FdOf[c]} /\ UNCHANGED <<thread, loop>>
    BY <1>1 DEF Connect, OpenFds, Fds
  <2>2. ASSUME NEW f \in OpenFds'
        PROVE  owed'[f] = One(Executing(f)') + One(thread'[f] # "none") - strays'[f]
    <3>1. CASE f = FdOf[c]
      <4>1. /\ owed'[f] = 0 /\ ~Executing(f)' /\ thread' = thread
            /\ strays'[f] = One(thread[f] # "none")
        BY <1>0, <1>1, <2>1, <3>1 DEF Connect, Executing, LoopIdle
      <4>2. QED
        BY <4>1 DEF One
    <3>2. CASE f # FdOf[c]
      BY <1>0, <1>1, <2>1, <2>2, <3>2 DEF Connect, OneReplyEach, Executing
    <3>3. QED
      BY <3>1, <3>2
  <2>3. QED
    BY <2>2 DEF OneReplyEach
<1>2. ASSUME NEW c \in Clients, Disconnect(c) PROVE OneReplyEach'
  BY <1>0, <1>2 DEF Disconnect, OneReplyEach, OpenFds, Executing
<1>3. ASSUME NEW c \in Clients, NEW cmd \in Commands, Serve(c, cmd)
      PROVE  OneReplyEach'
  <2>1. PICK reply \in Replies :
          /\ HandleCommand(c, cmd, reply)
          /\ loop' = Idle(Ran(c, cmd, reply))
          /\ owed' = IF Blocks(cmd, reply) THEN [owed EXCEPT ![FdOf[c]] = @ + 1] ELSE owed
    BY <1>3 DEF Serve
  <2>2. /\ FdOf[c] \in OpenFds /\ FdOf[c] \in Fds
        /\ UNCHANGED <<open, strays>> /\ OpenFds' = OpenFds
        /\ \A f \in Fds : ~Executing(f) /\ ~Executing(f)'
    BY <1>3, <2>1 DEF Serve, Asks, OpenFds, Fds, Executing, LoopIdle, Idle, LoopAt
  <2>3. CASE Blocks(cmd, reply)
    <3>1. /\ thread[FdOf[c]] = "none" /\ thread' = [thread EXCEPT ![FdOf[c]] = "waiting"]
          /\ owed' = [owed EXCEPT ![FdOf[c]] = @ + 1]
      BY <1>0, <2>1, <2>3, HandleThreads
    <3>2. QED
      BY <1>0, <2>2, <3>1 DEF OneReplyEach, One
  <2>4. CASE ~Blocks(cmd, reply)
    <3>1. owed' = owed /\ \A f \in Fds : thread'[f] = "none" <=> thread[f] = "none"
      BY <1>0, <2>1, <2>4, HandleThreads
    <3>2. QED
      BY <1>0, <2>2, <3>1 DEF OneReplyEach, One
  <2>5. QED
    BY <2>3, <2>4
<1>4. ASSUME NEW c \in Clients, ExecuteTransaction(c)
      PROVE  OneReplyEach'
  <2>1. /\ UNCHANGED <<open, strays, thread>> /\ OpenFds' = OpenFds
        /\ owed' = [owed EXCEPT ![FdOf[c]] = @ + 1]
        /\ \A f \in Fds : ~Executing(f) /\ (Executing(f)' <=> f = FdOf[c])
    BY <1>4 DEF ExecuteTransaction, Asks, OpenFds, Executing, LoopIdle, LoopAt
  <2>2. QED
    BY <1>0, <2>1 DEF OneReplyEach, One
<1>5. CASE ExecStep
  <2> DEFINE c == loop.client
             cmd == loop.queue[Len(loop.results) + 1]
  <2>1. c \in Clients /\ c \in open /\ cmd \in Commands /\ FdOf[c] \in Fds
    BY <1>5, NextQueued DEF ReplyInv, Fds
  <2>2. PICK reply \in Replies :
          /\ HandleCommand(c, cmd, reply)
          /\ loop' = [loop EXCEPT !.results = Append(@, reply), !.ran = Ran(c, cmd, reply)]
          /\ strays' = IF Blocks(cmd, reply) THEN [strays EXCEPT ![FdOf[c]] = @ + 1] ELSE strays
    BY <1>5 DEF ExecStep
  <2>3. /\ UNCHANGED <<open, owed>> /\ OpenFds' = OpenFds
        /\ \A f \in Fds : Executing(f)' <=> Executing(f)
    BY <1>0, <1>5, <2>2 DEF ExecStep, OpenFds, Executing, TypeOK
  <2>4. CASE Blocks(cmd, reply)
    <3>1. /\ thread[FdOf[c]] = "none" /\ thread' = [thread EXCEPT ![FdOf[c]] = "waiting"]
          /\ strays' = [strays EXCEPT ![FdOf[c]] = @ + 1]
      BY <1>0, <2>1, <2>2, <2>4, HandleThreads
    <3>2. QED
      BY <1>0, <2>1, <2>3, <3>1 DEF OneReplyEach, One
  <2>5. CASE ~Blocks(cmd, reply)
    <3>1. strays' = strays /\ \A f \in Fds : thread'[f] = "none" <=> thread[f] = "none"
      BY <1>0, <2>1, <2>2, <2>5, HandleThreads
    <3>2. QED
      BY <1>0, <2>3, <3>1 DEF OneReplyEach, One
  <2>6. QED
    BY <2>4, <2>5
<1>6. CASE ExecEnd
  <2>1. /\ UNCHANGED <<open, strays, thread>> /\ OpenFds' = OpenFds
        /\ owed' = [owed EXCEPT ![FdOf[loop.client]] = @ - 1]
        /\ \A f \in Fds : ~Executing(f)' /\ (Executing(f) <=> f = FdOf[loop.client])
    BY <1>6 DEF ExecEnd, OpenFds, Executing, Idle, LoopAt
  <2>2. QED
    BY <1>0, <2>1 DEF OneReplyEach, One
<1>7. ASSUME NEW f \in Fds, ThreadEnd(f) PROVE OneReplyEach'
  <2>1. /\ UNCHANGED <<open, strays, loop>> /\ OpenFds' = OpenFds
        /\ thread[f] # "none" /\ thread' = [thread EXCEPT ![f] = "none"]
        /\ owed' = IF f \in OpenFds THEN [owed EXCEPT ![f] = @ - 1] ELSE owed
        /\ \A g \in Fds : Executing(g)' <=> Executing(g)
    BY <1>7 DEF ThreadEnd, OwedAfterSend, OpenFds, Executing
  <2>2. QED
    BY <1>0, <2>1 DEF OneReplyEach, One
<1>8. CASE UNCHANGED vars
  BY <1>0, <1>8 DEF vars, OneReplyEach, OpenFds, Executing
<1>9. QED
  BY <1>1, <1>2, <1>3, <1>4, <1>5, <1>6, <1>7, <1>8 DEF Next

\* Each command that has a reply has one, sent or to be sent: a BLPOP that blocks is
\* answered later and once, and the commands of an EXEC by its array.  What a connection
\* gets beyond its commands is counted to the last reply: one for each BLPOP that blocked
\* inside of an EXEC, and one of a thread that a former owner of the descriptor left.
THEOREM RepliesMatchCommands == Spec => []OneReplyEach
<1>1. ReplyInv => OneReplyEach
  BY DEF ReplyInv
<1>2. QED
  BY <1>1, ReplyInvInit, ReplyInvStep, PTL DEF Spec

-----------------------------------------------------------------------------
(* Transactions.                                                           *)

\* Two connections do not have one descriptor at a time, and who began a transaction
\* is connected.
OwnersAreUnique == \A c, d \in open : FdOf[c] = FdOf[d] => c = d
BeginnersAreOpen == begun \subseteq open

TxInv == TypeInv /\ OwnersAreUnique /\ BeginnersAreOpen /\ TransactionsAccountedFor
TxParts == OwnersAreUnique /\ BeginnersAreOpen /\ TransactionsAccountedFor

LEMMA TxInvInit == Init => TxInv
<1>1. Init => TxParts
  BY DEF Init, TxParts, OwnersAreUnique, BeginnersAreOpen, TransactionsAccountedFor, NoTx
<1>2. QED
  BY <1>1, TypeInvInit DEF TxInv, TxParts

LEMMA TxInvStep == TxInv /\ [Next]_vars => TxInv'
<1> SUFFICES ASSUME TxInv, [Next]_vars PROVE TxParts'
  BY TypeInvStep DEF TxInv, TxParts
<1>0. /\ TypeOK /\ ExecutesForSomeone
      /\ OwnersAreUnique /\ BeginnersAreOpen /\ TransactionsAccountedFor
      /\ tx \in [Fds -> [on : BOOLEAN, queue : Seq(Commands \ Control)]] /\ open \subseteq Clients
  BY DEF TxInv, TypeInv, TypeOK
<1> USE DEF TxParts
<1>1. ASSUME NEW c \in Clients, Connect(c) PROVE TxParts'
  BY <1>0, <1>1
     DEF Connect, OpenFds, OwnersAreUnique, BeginnersAreOpen, TransactionsAccountedFor
<1>2. ASSUME NEW c \in Clients, Disconnect(c) PROVE TxParts'
  <2>1. OwnersAreUnique' /\ BeginnersAreOpen'
    BY <1>0, <1>2 DEF Disconnect, OwnersAreUnique, BeginnersAreOpen
  <2>2. ASSUME NEW f \in Fds
        PROVE  tx'[f].on <=> f \in left' \/ \E d \in open' \cap begun' : FdOf[d] = f
    BY <1>0, <1>2 DEF Disconnect, TransactionsAccountedFor
  <2>3. QED
    BY <2>1, <2>2 DEF TransactionsAccountedFor
<1>3. ASSUME NEW c \in Clients, NEW cmd \in Commands, Serve(c, cmd) PROVE TxParts'
  <2>1. PICK reply \in Replies :
          /\ HandleCommand(c, cmd, reply)
          /\ begun' = CASE cmd = "multi" /\ reply = "ok" -> begun \cup {c}
                        [] cmd = "discard" -> begun \ {c}
                        [] OTHER -> begun
          /\ left' = IF cmd = "discard" THEN left \ {FdOf[c]} ELSE left
    BY <1>3 DEF Serve
  <2>2. c \in open /\ open' = open /\ FdOf[c] \in Fds
    BY <1>3 DEF Serve, Asks, Fds
  <2>3. OwnersAreUnique' /\ BeginnersAreOpen'
    BY <1>0, <2>1, <2>2 DEF OwnersAreUnique, BeginnersAreOpen
  <2>4. CASE cmd = "multi"
    <3>1. Multi(c, reply) /\ left' = left
          /\ begun' = IF reply = "ok" THEN begun \cup {c} ELSE begun
      BY <2>1, <2>4 DEF HandleCommand, Control, Subscription, Data
    <3>2. CASE InTransaction(c)
      BY <1>0, <2>2, <2>3, <3>1, <3>2 DEF Multi, TransactionsAccountedFor
    <3>3. CASE ~InTransaction(c)
      <4>1. reply = "ok" /\ tx' = [tx EXCEPT ![FdOf[c]] = NewTx]
        BY <3>1, <3>3 DEF Multi
      <4>2. TransactionsAccountedFor'
        BY <1>0, <2>2, <3>1, <4>1 DEF TransactionsAccountedFor, NewTx
      <4>3. QED
        BY <2>3, <4>2
    <3>4. QED
      BY <2>3, <3>2, <3>3
  <2>5. CASE cmd = "discard"
    <3>1. Discard(c, reply) /\ left' = left \ {FdOf[c]} /\ begun' = begun \ {c}
      BY <2>1, <2>5 DEF HandleCommand, Control, Subscription, Data
    <3>2. ~tx'[FdOf[c]].on /\ \A f \in Fds \ {FdOf[c]} : tx'[f] = tx[f]
      BY <1>0, <2>2, <3>1 DEF Discard, InTransaction, NoTx
    <3>3. TransactionsAccountedFor'
      BY <1>0, <2>2, <3>1, <3>2 DEF TransactionsAccountedFor, OwnersAreUnique
    <3>4. QED
      BY <2>3, <3>3
  <2>6. CASE cmd \notin {"multi", "discard"}
    <3>1. begun' = begun /\ left' = left
      BY <2>1, <2>6
    <3>2. \A f \in Fds : tx'[f].on = tx[f].on
      <4>1. CASE cmd \in Control
        BY <2>1, <2>6, <4>1 DEF HandleCommand, ExecWithoutMulti, Control, Subscription, Data
      <4>2. CASE cmd \notin Control
        BY <1>0, <2>1, <4>2, HandleKeepsMode
      <4>3. QED
        BY <4>1, <4>2
    <3>3. QED
      BY <1>0, <2>2, <2>3, <3>1, <3>2 DEF TransactionsAccountedFor
  <2>7. QED
    BY <2>4, <2>5, <2>6
<1>4. ASSUME NEW c \in Clients, ExecuteTransaction(c) PROVE TxParts'
  <2>1. c \in open /\ open' = open /\ FdOf[c] \in Fds
        /\ begun' = begun \ {c} /\ left' = left \ {FdOf[c]}
        /\ ~tx'[FdOf[c]].on /\ \A f \in Fds \ {FdOf[c]} : tx'[f] = tx[f]
    BY <1>0, <1>4 DEF ExecuteTransaction, Asks, ErasedTx, NoTx, Fds
  <2>2. OwnersAreUnique' /\ BeginnersAreOpen'
    BY <1>0, <2>1 DEF OwnersAreUnique, BeginnersAreOpen
  <2>3. TransactionsAccountedFor'
    BY <1>0, <2>1 DEF TransactionsAccountedFor, OwnersAreUnique
  <2>4. QED
    BY <2>2, <2>3
<1>5. CASE ExecStep
  <2> DEFINE c == loop.client
             cmd == loop.queue[Len(loop.results) + 1]
  <2>1. c \in Clients /\ cmd \in Commands \ Control
    BY <1>5, NextQueued DEF TxInv
  <2>2. PICK reply \in Replies : HandleCommand(c, cmd, reply)
    BY <1>5 DEF ExecStep
  <2>3. \A f \in Fds : tx'[f].on = tx[f].on
    BY <1>0, <2>1, <2>2, HandleKeepsMode
  <2>4. UNCHANGED <<open, begun, left>>
    BY <1>5 DEF ExecStep
  <2>5. QED
    BY <1>0, <2>3, <2>4 DEF OwnersAreUnique, BeginnersAreOpen, TransactionsAccountedFor
<1>6. CASE ExecEnd
  BY <1>0, <1>6 DEF ExecEnd, OwnersAreUnique, BeginnersAreOpen, TransactionsAccountedFor
<1>7. ASSUME NEW f \in Fds, ThreadEnd(f) PROVE TxParts'
  BY <1>0, <1>7 DEF ThreadEnd, OwnersAreUnique, BeginnersAreOpen, TransactionsAccountedFor
<1>8. CASE UNCHANGED vars
  BY <1>0, <1>8 DEF vars, OwnersAreUnique, BeginnersAreOpen, TransactionsAccountedFor
<1>9. QED
  BY <1>1, <1>2, <1>3, <1>4, <1>5, <1>6, <1>7, <1>8 DEF Next

\* A descriptor is inside of a transaction because its owner began it, or because a
\* former owner left it there: no other sequence of commands, EXECs and reconnections
\* leads into one.
THEOREM TransactionsHaveReasons == Spec => []TransactionsAccountedFor
<1>1. TxInv => TransactionsAccountedFor
  BY DEF TxInv
<1>2. QED
  BY <1>1, TxInvInit, TxInvStep, PTL DEF Spec

-----------------------------------------------------------------------------
(* Subscribed mode.                                                        *)

\* No data command runs on a descriptor in subscribed mode, be it sent plainly or
\* queued before the SUBSCRIBE of the same transaction.
THEOREM SubscribedTouchNoData == Spec => SubscribedRunsNoData
<1> DEFINE Refusal ==
      loop'.ran # loop.ran /\ loop'.ran.cmd \in Data /\ FdOf[loop'.ran.client] \in subs =>
        loop'.ran.reply \in {"error", "queued"}
<1>1. TypeInv /\ [Next]_vars => [Refusal]_vars
  <2> SUFFICES ASSUME TypeInv, Next PROVE Refusal
    BY DEF vars
  <2>1. ASSUME NEW c \in Clients, NEW cmd \in Commands, Serve(c, cmd) PROVE Refusal
    <3>1. PICK reply \in Replies : HandleCommand(c, cmd, reply) /\ loop' = Idle(Ran(c, cmd, reply))
      BY <2>1 DEF Serve
    <3>2. loop'.ran.client = c /\ loop'.ran.cmd = cmd /\ loop'.ran.reply = reply
      BY <3>1 DEF Idle, LoopAt, Ran
    <3>3. QED
      BY <3>1, <3>2, HandleRefuses
  <2>2. CASE ExecStep
    <3> DEFINE c == loop.client
               cmd == loop.queue[Len(loop.results) + 1]
    <3>1. c \in Clients /\ cmd \in Commands
      BY <2>2, NextQueued
    <3>2. PICK reply \in Replies :
            /\ HandleCommand(c, cmd, reply)
            /\ loop' = [loop EXCEPT !.results = Append(@, reply), !.ran = Ran(c, cmd, reply)]
      BY <2>2 DEF ExecStep
    <3>3. loop'.ran.client = c /\ loop'.ran.cmd = cmd /\ loop'.ran.reply = reply
      BY <3>2 DEF Ran, TypeInv, TypeOK
    <3>4. QED
      BY <3>1, <3>2, <3>3, HandleRefuses
  <2>3. CASE ExecEnd
    BY <2>3 DEF ExecEnd, Idle, LoopAt, Ran, Data
  <2>4. ASSUME NEW c \in Clients, ExecuteTransaction(c) PROVE Refusal
    BY <2>4 DEF ExecuteTransaction, LoopAt
  <2>5. CASE UNCHANGED loop
    BY <2>5
  <2>6. QED
    BY <2>1, <2>2, <2>3, <2>4, <2>5 DEF Next, Connect, Disconnect, ThreadEnd
<1>2. QED
  BY <1>1, TypeInvAlways, PTL DEF Spec, SubscribedRunsNoData
=============================================================================
