---------------------------- MODULE Replication ----------------------------
(***************************************************************************)
(* A master and its replicas (src/src/Server.cpp, CommandHandler.cpp,      *)
(* TransactionHandler.cpp, SocketReader.cpp): the handshake of a replica,  *)
(* the propagation of write commands, WAIT and the acknowledgements, and   *)
(* what MULTI, EXEC and DISCARD change about propagation.                  *)
(*                                                                         *)
(* The event loop of the master serves one command at a time; WAIT keeps   *)
(* it busy until its timeout.  A replica reads its master connection in    *)
(* the order of the bytes, and asserts the type of what it reads.  A write *)
(* command is a number; its key, value and length are left out.  Clients   *)
(* stay; a replica starts once and one with the same port is another one.  *)
(*                                                                         *)
(* local, inherited, disturbed, the ids of getack and ack, and the heard   *)
(* and strays of a WAIT are history: no step depends on them, they record  *)
(* what the properties speak of.                                           *)
(*                                                                         *)
(* A definition marked "Fault" is a mutated form of the one after it: with *)
(* it in place, a property named in PROJECT.json fails.                    *)
(***************************************************************************)
EXTENDS Integers, Sequences, FiniteSets, SequencesExt, SequenceFilter

CONSTANTS
    Clients,    \* clients of the master
    Replicas,   \* replicas, each with a listening port of its own
    TxClients,  \* clients that use MULTI
    SubClients, \* clients that subscribe to channels, and may be in subscribed mode
    Mortal,     \* replicas that may be killed
    Cmds,       \* the write commands in use: "set" is propagated, "incr" is not
    MaxFds,     \* bound: connections at a time
    MaxWrites,  \* bound: write commands in a behaviour
    MaxWaits    \* bound: WAIT commands in a behaviour

ASSUME MembersAssumption ==
    /\ TxClients \subseteq Clients /\ SubClients \subseteq Clients
    /\ Mortal \subseteq Replicas /\ Clients \cap Replicas = {}
ASSUME FiniteAssumption == IsFiniteSet(Clients) /\ IsFiniteSet(Replicas)
ASSUME CmdsAssumption == Cmds \subseteq {"set", "incr"}
ASSUME BoundsAssumption == MaxFds \in Nat /\ MaxWrites \in Nat /\ MaxWaits \in Nat

VARIABLES
    master,     \* "up", or "down" once an exception has ended the server
    issued,     \* write commands received, which number them
    applied,    \* write commands executed by the master
    stream,     \* write commands propagated; waitcmd_offset is its length
    queue,      \* m_mapClientTransactions; NoTx without an entry
    dropped,    \* write commands received and never executed by the master
    local,      \* write commands received and not propagated: INCR
    fd,         \* the number accept gave a connection; 0 before
    sockets,    \* who has a connection the master has not closed
    registered, \* m_mapReplicaPortSocket: the ports in it, with the numbers in fd
    wait,       \* the WAIT that occupies the event loop, or NoWait
    waits,      \* WAIT commands so far
    toReplica,  \* bytes to a replica, as messages
    toMaster,   \* bytes from a replica, as messages
    phase,      \* what a replica does
    copy,       \* write commands a replica has executed
    joined,     \* writes propagated before the replica was registered
    inherited,  \* replicas that got a number which the map held for another port
    disturbed   \* replicas whose exchange with the master was disturbed

dataVars == <<issued, applied, stream, queue, dropped, local>>
memberVars == <<fd, sockets, registered, joined, inherited>>
waitVars == <<wait, waits>>
replicaVars == <<phase, copy>>
vars == <<master, dataVars, memberVars, waitVars, toReplica, toMaster, replicaVars,
          disturbed>>

-----------------------------------------------------------------------------
NoTx == [open |-> FALSE, cmds |-> <<>>]
NoWait == [on |-> FALSE, acks |-> 0, at |-> 0, watch |-> {}, heard |-> {}, strays |-> 0]

Peers == Clients \cup Replicas
Fds == 1 .. MaxFds
Writes == 1 .. MaxWrites
\* A message: the id of a write is its number, that of "getack" and "ack" the WAIT
\* which asked.  "port" and "capa" are REPLCONF listening-port and REPLCONF capa.
Msg(kind) == [kind |-> kind, id |-> 0]
Numbered(kind, id) == [kind |-> kind, id |-> id]
ToReplicaMsgs ==
    [kind : {"write"}, id : Writes]
    \cup [kind : {"pong", "ok", "fullresync", "rdb", "getack"}, id : 0 .. MaxWaits]
ToMasterMsgs == [kind : {"ping", "port", "capa", "psync", "ack"}, id : 0 .. MaxWaits]

\* In the handshake a replica waits for the reply to what it sent last, then for
\* the file.  "aborted_handshake" and "aborted_loop": an assertion ended it there.
Handshake == {"ping", "port", "capa", "psync", "rdb"}
Aborted == {"aborted_handshake", "aborted_loop"}
Dead == Aborted \cup {"gone"}
Phases == {"off", "online", "orphan"} \cup Handshake \cup Dead

TypeOK ==
    /\ master \in {"up", "down"}
    /\ issued \in 0 .. MaxWrites
    /\ applied \in Seq(Writes)
    /\ stream \in Seq(Writes)
    /\ queue \in [Clients -> [open : BOOLEAN, cmds : Seq(Writes)]]
    /\ dropped \in SUBSET Writes /\ local \in SUBSET Writes
    /\ fd \in [Peers -> {0} \cup Fds]
    /\ sockets \in SUBSET Peers
    /\ registered \in SUBSET Replicas
    /\ wait \in [on : BOOLEAN, acks : Nat, at : 0 .. MaxWrites, watch : SUBSET Fds,
                 heard : SUBSET Replicas, strays : Nat]
    /\ waits \in 0 .. MaxWaits
    /\ toReplica \in [Replicas -> Seq(ToReplicaMsgs)]
    /\ toMaster \in [Replicas -> Seq(ToMasterMsgs)]
    /\ phase \in [Replicas -> Phases]
    /\ copy \in [Replicas -> Seq(Writes)]
    /\ joined \in [Replicas -> 0 .. MaxWrites]
    /\ inherited \in SUBSET Replicas
    /\ disturbed \in SUBSET Replicas

Init ==
    /\ master = "up"
    /\ issued = 0 /\ applied = <<>> /\ stream = <<>> /\ dropped = {} /\ local = {}
    /\ queue = [c \in Clients |-> NoTx]
    /\ fd = [p \in Peers |-> 0]
    /\ sockets = {} /\ registered = {} /\ inherited = {} /\ disturbed = {}
    /\ joined = [r \in Replicas |-> 0]
    /\ wait = NoWait /\ waits = 0
    /\ toReplica = [r \in Replicas |-> <<>>]
    /\ toMaster = [r \in Replicas |-> <<>>]
    /\ phase = [r \in Replicas |-> "off"]
    /\ copy = [r \in Replicas |-> <<>>]

-----------------------------------------------------------------------------
(* The master: writing to the replicas.                                    *)

\* The event loop is at select().
LoopFree == master = "up" /\ ~wait.on

\* A replica has a connection and the master has not answered its PSYNC.
Joining(r) == phase[r] \in Handshake /\ Msg("rdb") \notin ToSet(toReplica[r])

\* Who has the number n now.
Holders(n) == {p \in sockets : fd[p] = n}

\* write() to the number of a port fails: the number was closed and nobody has it, or
\* a reset ended the connection, the replica is gone and bytes it never read are on
\* the way.
MustFail(p) == Holders(fd[p]) = {}
MayFail(p) ==
    \E r \in Holders(fd[p]) \cap Replicas : phase[r] \in Dead /\ toReplica[r] # <<>>

\* The entries of the map, of those given, that lead to a replica's connection.
EntriesOf(r, ports) == {p \in ports : r \in Holders(fd[p])}

\* Fault: a write that would have to wait is dropped.
SendToIdle(ports, m) ==
    /\ toReplica' = [r \in Replicas |->
                       IF EntriesOf(r, ports) # {} /\ toReplica[r] = <<>>
                       THEN <<m>> ELSE toReplica[r]]
    /\ disturbed' = disturbed \cup {r \in Replicas : Joining(r) /\ EntriesOf(r, ports) # {}}

\* One write for each entry of the map: a connection takes as many as lead to it.
SendTo(ports, m) ==
    /\ toReplica' = [r \in Replicas |->
                       toReplica[r] \o [i \in 1 .. Cardinality(EntriesOf(r, ports)) |-> m]]
    /\ disturbed' = disturbed \cup {r \in Replicas : Joining(r) /\ EntriesOf(r, ports) # {}}

\* A message to every entry, in the order of the map.  The first write that fails
\* ends the server: the exception leaves runEventLoop.
ToAll(m) ==
    \/ /\ \A p \in registered : ~MustFail(p)
       /\ SendTo(registered, m)
       /\ UNCHANGED master
    \/ \E failing \in {p \in registered : MustFail(p) \/ MayFail(p)} :
       \E reached \in SUBSET {p \in registered \ {failing} : ~MustFail(p)} :
         /\ SendTo(reached, m)
         /\ master' = "down"

-----------------------------------------------------------------------------
(* The master: connections.                                                *)

\* accept returns the lowest number that is free.
Lowest(n) == Holders(n) = {} /\ \A m \in 1 .. n - 1 : Holders(m) # {}

Accept(p) ==
    \E n \in Fds :
       /\ Lowest(n)
       /\ fd' = [fd EXCEPT ![p] = n]
       /\ sockets' = sockets \cup {p}
       /\ inherited' = IF p \in Replicas /\ n \in {fd[q] : q \in registered}
                       THEN inherited \cup {p} ELSE inherited

Connect(c) ==
    /\ LoopFree /\ c \notin sockets
    /\ Accept(c)
    /\ UNCHANGED <<master, dataVars, registered, joined, waitVars, toReplica, toMaster,
                   replicaVars, disturbed>>

\* initializeSlave connects and sends PING.
Start(r) ==
    /\ LoopFree /\ phase[r] = "off"
    /\ Accept(r)
    /\ phase' = [phase EXCEPT ![r] = "ping"]
    /\ toMaster' = [toMaster EXCEPT ![r] = <<Msg("ping")>>]
    /\ UNCHANGED <<master, dataVars, registered, joined, waitVars, toReplica, copy, disturbed>>

-----------------------------------------------------------------------------
(* The master: commands of its clients.                                    *)

\* A command of a client is served.
Serves(c) == LoopFree /\ c \in sockets

\* HandleConnection propagates SET once HandleCommand has returned, whatever that
\* did with it.
Propagate(cmd, id) ==
    IF cmd = "set"
    THEN stream' = Append(stream, id) /\ ToAll(Numbered("write", id)) /\ UNCHANGED local
    ELSE local' = local \cup {id} /\ UNCHANGED <<stream, toReplica, master, disturbed>>

NextWrite == issued + 1

\* A write command outside of a transaction: executed, or refused in subscribed mode.
WriteCmd(c, cmd) ==
    /\ Serves(c) /\ ~queue[c].open /\ NextWrite <= MaxWrites
    /\ issued' = NextWrite
    /\ \/ applied' = Append(applied, NextWrite) /\ UNCHANGED dropped
       \/ c \in SubClients /\ dropped' = dropped \cup {NextWrite} /\ UNCHANGED applied
    /\ Propagate(cmd, NextWrite)
    /\ UNCHANGED <<queue, memberVars, waitVars, toMaster, replicaVars>>

Multi(c) ==
    /\ Serves(c) /\ ~queue[c].open
    /\ queue' = [queue EXCEPT ![c] = [open |-> TRUE, cmds |-> <<>>]]
    /\ UNCHANGED <<master, issued, applied, stream, dropped, local, memberVars, waitVars,
                   toReplica, toMaster, replicaVars, disturbed>>

\* A write command inside of a transaction, answered QUEUED.
QueueCmd(c, cmd) ==
    /\ Serves(c) /\ queue[c].open /\ NextWrite <= MaxWrites
    /\ issued' = NextWrite
    /\ queue' = [queue EXCEPT ![c].cmds = Append(@, NextWrite)]
    /\ Propagate(cmd, NextWrite)
    /\ UNCHANGED <<applied, dropped, memberVars, waitVars, toMaster, replicaVars>>

\* The queued commands go through HandleCommand, which propagates nothing and refuses
\* those that subscribed mode does not allow.
Exec(c) ==
    /\ Serves(c) /\ queue[c].open
    /\ \E refused \in SUBSET ToSet(queue[c].cmds) :
         /\ c \notin SubClients => refused = {}
         /\ applied' = applied \o Filtered(queue[c].cmds, Writes \ refused)
         /\ dropped' = dropped \cup refused
    /\ queue' = [queue EXCEPT ![c] = NoTx]
    /\ UNCHANGED <<master, issued, stream, local, memberVars, waitVars,
                   toReplica, toMaster, replicaVars, disturbed>>

Discard(c) ==
    /\ Serves(c) /\ queue[c].open
    /\ dropped' = dropped \cup ToSet(queue[c].cmds)
    /\ queue' = [queue EXCEPT ![c] = NoTx]
    /\ UNCHANGED <<master, issued, applied, stream, local, memberVars, waitVars,
                   toReplica, toMaster, replicaVars, disturbed>>

-----------------------------------------------------------------------------
(* The master: WAIT.                                                       *)

\* WAIT answers at once: waitcmd_offset is 0.
NothingWritten == stream = <<>>

\* The command: every entry of the map is asked for an acknowledgement, and its number
\* is watched.
WaitCmd(c) ==
    /\ Serves(c) /\ waits < MaxWaits
    /\ waits' = waits + 1
    /\ \/ /\ NothingWritten
          /\ UNCHANGED <<master, wait, toReplica, disturbed>>
       \/ /\ ~NothingWritten
          /\ ToAll(Numbered("getack", waits'))
          /\ wait' = IF master' = "down" THEN wait
                     ELSE [NoWait EXCEPT !.on = TRUE, !.at = Len(stream),
                                         !.watch = {fd[p] : p \in registered}]
    /\ UNCHANGED <<dataVars, memberVars, toMaster, replicaVars>>

\* What an array does to WAIT.  Any one of three elements counts as an acknowledgement
\* once stoi() has read its last element; if that is no number, the exception takes the
\* connection off the watch.
Counted(heard) ==
    wait' = [wait EXCEPT !.acks = @ + 1, !.heard = @ \cup heard,
                         !.strays = IF heard = {} THEN @ + 1 ELSE @]
Unwatched(p) == wait' = [wait EXCEPT !.watch = @ \ {fd[p]}]

\* The first answer of a replica to the request of this WAIT.
Answers(r, m) == m.kind = "ack" /\ m.id = waits /\ r \notin wait.heard

Watches(p) == master = "up" /\ wait.on /\ p \in sockets /\ fd[p] \in wait.watch

\* One array of a replica: the last element of "psync" is -1, that of "capa" is no
\* number, that of "port" is the port, and "ping" has one element.
WaitRead(r) ==
    /\ Watches(r) /\ toMaster[r] # <<>>
    /\ LET m == Head(toMaster[r]) IN
         /\ CASE m.kind = "capa" -> Unwatched(r)
              [] m.kind = "ping" -> UNCHANGED wait
              [] OTHER -> Counted(IF Answers(r, m) THEN {r} ELSE {})
         /\ disturbed' = IF m.kind = "ack" THEN disturbed ELSE disturbed \cup {r}
    /\ toMaster' = [toMaster EXCEPT ![r] = Tail(@)]
    /\ UNCHANGED <<master, dataVars, memberVars, waits, toReplica, replicaVars>>

\* One command of a client whose number the map holds for a replica that has gone, a
\* write: swallowed, and counted when it has three elements and ends in a number.
WaitSwallows(c) ==
    /\ Watches(c) /\ NextWrite <= MaxWrites
    /\ issued' = NextWrite
    /\ Counted({}) \/ Unwatched(c) \/ UNCHANGED wait
    /\ UNCHANGED <<master, applied, stream, queue, dropped, local, memberVars, waits,
                   toReplica, toMaster, replicaVars, disturbed>>

WaitTimeout ==
    /\ master = "up" /\ wait.on
    /\ wait' = NoWait
    /\ UNCHANGED <<master, dataVars, memberVars, waits, toReplica, toMaster, replicaVars,
                   disturbed>>

-----------------------------------------------------------------------------
(* The master: messages of replicas and the end of a connection.           *)

\* Fault: the file is sent ahead of the line that announces it.
ReplyFileFirst(m) ==
    CASE m.kind = "ping"  -> <<Msg("pong")>>
      [] m.kind = "psync" -> <<Msg("rdb"), Msg("fullresync")>>
      [] OTHER       -> <<Msg("ok")>>
\* Fault: REPLCONF answers an option it does not know with NO_REPLY.
ReplyKnownOnly(m) ==
    CASE m.kind = "ping"  -> <<Msg("pong")>>
      [] m.kind = "psync" -> <<Msg("fullresync"), Msg("rdb")>>
      [] m.kind = "port"  -> <<Msg("ok")>>
      [] OTHER       -> <<>>
\* What the event loop answers a replica.  REPLCONF says OK to every option,
\* so also to an acknowledgement that no WAIT has read.
Reply(m) ==
    CASE m.kind = "ping"  -> <<Msg("pong")>>
      [] m.kind = "psync" -> <<Msg("fullresync"), Msg("rdb")>>
      [] OTHER       -> <<Msg("ok")>>

HandleReplica(r) ==
    /\ LoopFree /\ r \in sockets /\ toMaster[r] # <<>>
    /\ LET m == Head(toMaster[r]) IN
         /\ toReplica' = [toReplica EXCEPT ![r] = @ \o Reply(m)]
         /\ IF m.kind = "port"
            THEN /\ registered' = registered \cup {r}
                 /\ joined' = [joined EXCEPT ![r] = Len(stream)]
            ELSE UNCHANGED <<registered, joined>>
         /\ disturbed' = IF m.kind = "ack" THEN disturbed \cup {r} ELSE disturbed
    /\ toMaster' = [toMaster EXCEPT ![r] = Tail(@)]
    /\ UNCHANGED <<master, dataVars, fd, sockets, inherited, waitVars, replicaVars>>

\* The connection has ended.  The entry of m_mapReplicaPortSocket stays.
ReplicaEof(r) ==
    /\ LoopFree /\ r \in sockets /\ toMaster[r] = <<>> /\ phase[r] \in Dead
    /\ sockets' = sockets \ {r}
    /\ UNCHANGED <<master, dataVars, fd, registered, joined, inherited, waitVars, toReplica,
                   toMaster, replicaVars, disturbed>>

\* The connection was reset: read() fails, and readByte's exception ends the server.
ReplicaReset(r) ==
    /\ LoopFree /\ r \in sockets /\ toMaster[r] = <<>>
    /\ phase[r] \in Dead /\ toReplica[r] # <<>>
    /\ master' = "down"
    /\ UNCHANGED <<dataVars, memberVars, waitVars, toReplica, toMaster, replicaVars, disturbed>>

-----------------------------------------------------------------------------
(* A replica.                                                              *)

\* Phase by phase: the reply expected, what is sent next, and the phase after it.
Expected == [ping |-> "pong", port |-> "ok", capa |-> "ok", psync |-> "fullresync",
             rdb |-> "rdb"]
Sent == [ping |-> <<Msg("port")>>, port |-> <<Msg("capa")>>, capa |-> <<Msg("psync")>>,
         psync |-> <<>>, rdb |-> <<>>]
NextPhase == [ping |-> "port", port |-> "capa", capa |-> "psync", psync |-> "rdb",
              rdb |-> "online"]

\* The first byte that readSimpleString and readRDBFile assert.
FirstByte(kind) ==
    CASE kind \in {"pong", "ok", "fullresync"} -> "+"
      [] kind = "rdb" -> "$"
      [] OTHER -> "*"

\* initializeSlave reads one reply: an assertion fails on a reply of another type,
\* an exception is thrown on another text.
HandshakeRead(r) ==
    /\ phase[r] \in Handshake /\ toReplica[r] # <<>>
    /\ LET got == Head(toReplica[r]).kind
           expected == Expected[phase[r]]
       IN phase' = [phase EXCEPT ![r] =
                      IF got = expected THEN NextPhase[@]
                      ELSE IF FirstByte(got) # FirstByte(expected) THEN "aborted_handshake"
                      ELSE "gone"]
    /\ toMaster' = IF phase'[r] \in Dead THEN toMaster
                   ELSE [toMaster EXCEPT ![r] = @ \o Sent[phase[r]]]
    /\ toReplica' = [toReplica EXCEPT ![r] = Tail(@)]
    /\ UNCHANGED <<master, dataVars, memberVars, waitVars, copy, disturbed>>

\* The event loop of a replica reads its master: a write is executed and not
\* answered, GETACK is answered, and anything but an array fails the assertion.
LoopRead(r) ==
    /\ phase[r] = "online" /\ toReplica[r] # <<>>
    /\ LET m == Head(toReplica[r]) IN
         /\ copy' = [copy EXCEPT ![r] = IF m.kind = "write" THEN Append(@, m.id) ELSE @]
         /\ toMaster' = [toMaster EXCEPT ![r] = IF m.kind = "getack" THEN Append(@, Numbered("ack", m.id)) ELSE @]
         /\ phase' = [phase EXCEPT ![r] = IF FirstByte(m.kind) = "*" THEN @ ELSE "aborted_loop"]
    /\ toReplica' = [toReplica EXCEPT ![r] = Tail(@)]
    /\ UNCHANGED <<master, dataVars, memberVars, waitVars, disturbed>>

\* The master has gone: a replica that has joined keeps serving, one that has not
\* takes the missing reply for a wrong one.
LosesMaster(r) ==
    /\ master = "down" /\ toReplica[r] = <<>>
    /\ \/ phase[r] = "online" /\ phase' = [phase EXCEPT ![r] = "orphan"]
       \/ phase[r] \in Handshake /\ phase' = [phase EXCEPT ![r] = "gone"]
    /\ UNCHANGED <<master, dataVars, memberVars, waitVars, toReplica, toMaster, copy,
                   disturbed>>

\* A replica is killed.
Kill(r) ==
    /\ r \in Mortal /\ phase[r] \notin Dead \cup {"off"}
    /\ phase' = [phase EXCEPT ![r] = "gone"]
    /\ UNCHANGED <<master, dataVars, memberVars, waitVars, toReplica, toMaster, copy,
                   disturbed>>

-----------------------------------------------------------------------------
ClientStep(c) ==
    \/ \E cmd \in Cmds : WriteCmd(c, cmd) \/ QueueCmd(c, cmd)
    \/ c \in TxClients /\ Multi(c)
    \/ Exec(c) \/ Discard(c)
    \/ Connect(c) \/ WaitCmd(c) \/ WaitSwallows(c)

ReplicaStep(r) == HandshakeRead(r) \/ LoopRead(r) \/ LosesMaster(r)

Next ==
    \/ \E c \in Clients : ClientStep(c)
    \/ WaitTimeout
    \/ \E r \in Replicas : \/ WaitRead(r) \/ HandleReplica(r)
                           \/ ReplicaEof(r) \/ ReplicaReset(r)
                           \/ Start(r) \/ ReplicaStep(r) \/ Kill(r)

Spec == Init /\ [][Next]_vars

\* select() reports every connection that has bytes and the scan serves each of
\* them; WAIT polls until its timeout; a replica keeps reading.  Clients, kills and
\* the start of a replica owe nothing.
Fairness ==
    /\ WF_vars(WaitTimeout)
    /\ \A r \in Replicas :
         /\ WF_vars(HandleReplica(r) \/ WaitRead(r))
         /\ WF_vars(ReplicaStep(r))

FairSpec == Spec /\ Fairness

-----------------------------------------------------------------------------
(* Properties.                                                             *)

\* The numbers of the writes among messages.
WriteIds(msgs) ==
    LET writes == Filtered(msgs, [kind : {"write"}, id : Writes])
    IN [i \in DOMAIN writes |-> writes[i].id]

\* The writes propagated since a replica was registered.
Since(r) == SubSeq(stream, joined[r] + 1, Len(stream))

\* A sequence with each of its elements k times over.
Times(k, s) == [i \in 1 .. k * Len(s) |-> s[(i - 1) \div k + 1]]

\* What a replica in the event loop has executed, then what is on the way to it, are
\* the writes propagated since REPLCONF listening-port registered it, in that order and
\* with none missing: each once, or, for a replica that inherited the number of one that
\* has gone, once for each entry that holds the number (PropogateCommandToReplicas
\* against the handshake, which registers a replica three messages before it reads
\* commands, and against close() and accept()).
InSync ==
    \A r \in Replicas : phase[r] = "online" /\ master = "up" =>
       /\ copy[r] \o WriteIds(toReplica[r]) =
            Times(Cardinality(EntriesOf(r, registered)), Since(r))
       /\ r \notin inherited => Cardinality(EntriesOf(r, registered)) = 1

\* Types, and every replica in step with the stream.
ReplicaInv == TypeOK /\ InSync

\* The copies of the replicas are windows on one log that only grows: a step appends to
\* the log, moves the start of a window that is still empty, gives one replica the next
\* entry or, if that replica has inherited its number, the last one again.
Log == INSTANCE ReplicatedLog WITH
         Entries <- Writes, Readers <- Replicas, log <- stream, base <- joined,
         again <- inherited
ImplementsLog == Log!Spec

\* A replica that was there from the beginning and has read everything has executed
\* what the master has executed, save INCR, and beyond that only what the master dropped: a
\* write is propagated when MULTI queues it, and when subscribed mode refuses it.  With one
\* client and a number of its own the order is the same too, each write once.
Converges ==
    \A r \in Replicas :
       /\ phase[r] = "online" /\ master = "up"
       /\ joined[r] = 0 /\ toReplica[r] = <<>>
       /\ \A c \in Clients : ~queue[c].open
       => /\ ToSet(copy[r]) = (ToSet(applied) \cup dropped) \ local
          /\ Cardinality(Clients) = 1 /\ r \notin inherited =>
               Filtered(copy[r], Writes \ dropped) = Filtered(applied, Writes \ local)

\* The replicas that have executed every write of the stream up to a position.
UpToDate(at) ==
    {r \in registered : \A i \in joined[r] + 1 .. at : stream[i] \in ToSet(copy[r])}

\* What WAIT would return now is at no time more than the number of replicas that have
\* executed every write propagated before it, and the arrays it took for acknowledgements:
\* of a handshake, of a client, answers to an earlier WAIT, second answers of a replica.
WaitCountSound == wait.on => wait.acks <= Cardinality(UpToDate(wait.at)) + wait.strays

\* An assertion of SocketReader ends a replica only after its exchange with the master was
\* disturbed: the master wrote to its number before it had answered PSYNC, WAIT took a
\* message of its handshake, or the loop answered an acknowledgement that came too late.
OnlyDisturbedAbort == \A r \in Replicas : phase[r] \in Aborted => r \in disturbed

\* A replica that connects completes the handshake, unless it is disturbed.
JoinsEventually ==
    \A r \in Replicas : phase[r] = "ping" ~> (phase[r] \in {"online"} \cup Dead \/ r \in disturbed)

\* A write propagated to a replica is executed there, unless one of the two ends.
WritesArrive ==
    \A r \in Replicas, id \in Writes :
       (phase[r] = "online" /\ id \in ToSet(Since(r)))
       ~> (id \in ToSet(copy[r]) \/ phase[r] \in Dead \/ master = "down")
=============================================================================
