----------------------------- MODULE EventLoop -----------------------------
(***************************************************************************)
(* Server::runEventLoop (src/src/Server.cpp) and the blocking reads of     *)
(* SocketReader (src/src/SocketReader.cpp): select, the scan of what it    *)
(* reported, the parse of a command from a socket, its execution, WAIT,    *)
(* which reads the sockets of replicas itself, and the end of the loop by  *)
(* a signal, an exception, a failed assertion or SIGPIPE.                  *)
(*                                                                         *)
(* What a client sends is a sequence of tokens: the header of an array, an *)
(* argument that arrives in one piece, or one that does not: its header,   *)
(* its bytes and its CR and LF.  A header arrives whole: in pieces it      *)
(* would block the loop as the token after it does.  Once an argument has  *)
(* been cut, the parser is out of step with what was sent and takes the    *)
(* rest of a payload for headers: from then on anything may be parsed from *)
(* that connection.  What a command does is left out, but for the writes   *)
(* it makes to connections and for how it may end the server.              *)
(*                                                                         *)
(* A connection is its descriptor, and no descriptor is used twice (in     *)
(* Replication it is).  An accept comes before every read of a scan, so    *)
(* its descriptor is in no scan under way, whatever its number.            *)
(*                                                                         *)
(* A definition marked "Fault" is a mutated form of the one after it.      *)
(***************************************************************************)
EXTENDS Integers, Sequences, FiniteSetsExt, SequencesExt

CONSTANTS
    ServerFd,   \* the listening socket
    PipeFd,     \* the read end of the pipe of signals
    Clients,    \* the descriptors of connections
    Replicas,   \* the connections that have registered as replicas
    Commands,   \* what a client sends: a kind and, per argument, its length if it
                \* may arrive in pieces, else 0
    Slow,       \* clients whose commands arrive token by token, not whole
    Closers,    \* clients that may close their end
    Resetters,  \* clients whose connection may be reset
    MaxCount    \* bound: the count of an array header found in a payload

ASSUME DescriptorsAssumption ==
    /\ ServerFd \in Nat /\ PipeFd \in Nat /\ Clients \subseteq Nat
    /\ ServerFd < PipeFd /\ \A c \in Clients : PipeFd < c
\* A "write" is propagated to the replicas, a "wait" asks them for their offsets.
Kinds == {"plain", "write", "wait", "ack"}
ASSUME CommandsAssumption ==
    Commands \in [Clients -> Seq([kind : Kinds, args : Seq(Nat)])]
ASSUME SubsetsAssumption ==
    /\ Replicas \subseteq Clients /\ Slow \subseteq Clients
    /\ Closers \subseteq Clients /\ Resetters \subseteq Clients
\* A replica answers REPLCONF GETACK with REPLCONF, ACK and its offset.
ASSUME AcksAssumption ==
    \A r \in Replicas : \A k \in DOMAIN Commands[r] :
        Commands[r][k].kind = "ack" /\ Commands[r][k].args # <<>>

ASSUME BoundAssumption == MaxCount \in Nat

VARIABLES
    conn,   \* a connection: out, in the backlog, watched (in currentSockets) or closed
    peer,   \* the other end of a connection: open, shut by the client, reset, or gone
            \* (the kernel knows, and a write raises SIGPIPE)
    wr,     \* tokens a client has sent
    rd,     \* tokens of them the server has read
    pipe,   \* a signal has written to the pipe
    loop,   \* the event loop
    astray, \* connections of which an argument was cut
    done,   \* the arrays parsed from a connection: who read it, its arguments
    waits   \* WAIT commands so far

vars == <<conn, peer, wr, rd, pipe, loop, astray, done, waits>>

-----------------------------------------------------------------------------
Token(kind, n) == [kind |-> kind, n |-> n]
ArgTokens(n) ==
    IF n = 0 THEN <<Token("bulk", 0)>>
    ELSE <<Token("dollar", n)>> \o [i \in 1 .. n |-> Token("byte", 0)]
           \o <<Token("cr", 0), Token("lf", 0)>>
CommandTokens(cmd) ==
    <<Token("array", Len(cmd.args))>>
      \o FlattenSeq([i \in DOMAIN cmd.args |-> ArgTokens(cmd.args[i])])
Upto(c, k) == FlattenSeq([i \in 1 .. k |-> CommandTokens(Commands[c][i])])

Stream == [c \in Clients |-> Upto(c, Len(Commands[c]))]
\* Where the commands of a client end in its stream.
EndOf == [c \in Clients |-> [k \in 0 .. Len(Commands[c]) |-> Len(Upto(c, k))]]

\* "whole", "missing" (the empty string), or "broken": cut, or read after a cut.
ArgValues == {"whole", "broken", "missing"}
Stages == {"array", "bulk", "content", "cr", "lf"}

\* In WAIT, waiter is the client that sent it and watch the replicas it polls.
\* robbed are the replicas WAIT has read since select.
Nobody == -1
StartLoop ==
    [pc |-> "select", ready |-> {}, robbed |-> {}, signal |-> FALSE,
     waiter |-> Nobody, watch |-> {}, fd |-> Nobody, stage |-> "array",
     left |-> 0, args |-> <<>>, arg |-> "whole", size |-> 0]
Peers == {"open", "shut", "reset", "gone"}
Ends == {"returned", "thrown", "aborted", "killed"}

TypeOK ==
    /\ conn \in [Clients -> {"out", "backlog", "watched", "closed"}]
    /\ peer \in [Clients -> Peers]
    /\ wr \in [Clients -> Nat] /\ rd \in [Clients -> Nat]
    /\ \A c \in Clients : rd[c] <= wr[c] /\ wr[c] <= Len(Stream[c])
    /\ pipe \in BOOLEAN
    /\ loop \in [pc : {"select", "scan", "reading", "waiting"} \cup Ends,
                 ready : SUBSET (Clients \cup {ServerFd, PipeFd}), robbed : SUBSET Replicas,
                 signal : BOOLEAN, waiter : Clients \cup {Nobody}, watch : SUBSET Replicas,
                 fd : Clients \cup {Nobody}, stage : Stages, left : Nat, args : Seq(ArgValues),
                 arg : ArgValues, size : Nat]
    /\ astray \subseteq Clients
    /\ done \in [Clients -> Seq([by : {"loop", "wait"}, args : Seq(ArgValues)])]
    /\ waits \in Nat

\* Replicas have made their handshake, and a write has been made, so that WAIT does not
\* answer at once.
Init ==
    /\ conn = [c \in Clients |-> IF c \in Replicas THEN "watched" ELSE "out"]
    /\ peer = [c \in Clients |-> "open"]
    /\ wr = [c \in Clients |-> 0] /\ rd = [c \in Clients |-> 0]
    /\ pipe = FALSE
    /\ loop = StartLoop
    /\ astray = {}
    /\ done = [c \in Clients |-> <<>>]
    /\ waits = 0

-----------------------------------------------------------------------------
(* The environment.                                                        *)

Ended == loop.pc \in Ends

Connect(c) ==
    /\ ~Ended /\ conn[c] = "out"
    /\ \A b \in Clients : b < c => conn[b] # "out"
    /\ conn' = [conn EXCEPT ![c] = "backlog"]
    /\ UNCHANGED <<peer, wr, rd, pipe, loop, done, waits, astray>>

\* A replica sends an acknowledgement for each WAIT that asked for one.
Send(c) ==
    /\ ~Ended /\ conn[c] # "out" /\ peer[c] = "open" /\ wr[c] < Len(Stream[c])
    /\ c \in Replicas => \E k \in DOMAIN EndOf[c] : k <= waits /\ wr[c] < EndOf[c][k]
    /\ wr' = [wr EXCEPT ![c] =
                IF c \in Slow THEN @ + 1 ELSE Min({n \in Range(EndOf[c]) : n > @})]
    /\ UNCHANGED <<conn, peer, rd, pipe, loop, done, waits, astray>>

\* The client closes its end, or the connection is reset.
Leave(c, how) ==
    /\ ~Ended /\ conn[c] # "out" /\ peer[c] = "open"
    /\ c \in (IF how = "shut" THEN Closers ELSE Resetters)
    /\ peer' = [peer EXCEPT ![c] = how]
    /\ UNCHANGED <<conn, wr, rd, pipe, loop, done, waits, astray>>

\* SIGINT or SIGTERM: signalHandler writes a byte to the pipe; a read() under way
\* goes on.
Signal ==
    /\ ~Ended /\ ~pipe
    /\ pipe' = TRUE
    /\ UNCHANGED <<conn, peer, wr, rd, loop, done, waits, astray>>

-----------------------------------------------------------------------------
(* Select and the scan.                                                    *)

Unread(c) == wr[c] - rd[c]
AtEof(c) == Unread(c) = 0 /\ peer[c] \in {"shut", "gone"}
AtError(c) == Unread(c) = 0 /\ peer[c] = "reset"

\* Fault: a descriptor is scanned whether select reported it or not.
ReadyAlways(c) == conn[c] = "watched"
Ready(c) == conn[c] = "watched" /\ (Unread(c) > 0 \/ peer[c] # "open")

\* Fault: the pipe is not among the descriptors of select.
PipeIgnored == {}
PipeReady == IF pipe THEN {PipeFd} ELSE {}

Backlog == {c \in Clients : conn[c] = "backlog"}
ReadyFds ==
    {c \in Clients : Ready(c)} \cup PipeReady \cup (IF Backlog = {} THEN {} ELSE {ServerFd})

Select ==
    /\ loop.pc = "select" /\ ReadyFds # {}
    /\ loop' = [StartLoop EXCEPT !.pc = "scan", !.ready = ReadyFds, !.signal = pipe]
    /\ UNCHANGED <<conn, peer, wr, rd, pipe, done, waits, astray>>

\* Fault: the scan goes down.
ScanDown == Max(loop.ready)
Scanned == Min(loop.ready)

\* The loop goes on with what is left of the ready set.
Rescan(l) == [StartLoop EXCEPT !.pc = "scan", !.ready = l.ready, !.robbed = l.robbed,
                               !.signal = l.signal]

ScanEnd ==
    /\ loop.pc = "scan" /\ loop.ready = {}
    /\ loop' = StartLoop
    /\ UNCHANGED <<conn, peer, wr, rd, pipe, done, waits, astray>>

\* Fault: the new connection is not added to currentSockets.
Unwatched == "unwatched"
Watched == "watched"

AcceptNewConnection ==
    /\ loop.pc = "scan" /\ loop.ready # {} /\ Scanned = ServerFd
    /\ conn' = [conn EXCEPT ![Min(Backlog)] = Watched]
    /\ loop' = [loop EXCEPT !.ready = @ \ {ServerFd}]
    /\ UNCHANGED <<peer, wr, rd, pipe, done, waits, astray>>

SeeSignal ==
    /\ loop.pc = "scan" /\ loop.ready # {} /\ Scanned = PipeFd
    /\ loop' = [loop EXCEPT !.pc = "returned"]
    /\ UNCHANGED <<conn, peer, wr, rd, pipe, done, waits, astray>>

HandleConnection ==
    /\ loop.pc = "scan" /\ loop.ready # {} /\ Scanned \in Clients
    /\ loop' = [loop EXCEPT !.pc = "reading", !.fd = Scanned, !.stage = "array",
                            !.ready = @ \ {Scanned}]
    /\ UNCHANGED <<conn, peer, wr, rd, pipe, done, waits, astray>>

-----------------------------------------------------------------------------
(* SocketReader::ReadArray, for HandleConnection or for WAIT.  A read of   *)
(* an empty socket waits; the end of file is an exception that ReadArray   *)
(* turns into no arguments and readBulkString into the empty string.       *)

InWait == loop.waiter # Nobody
Fd == loop.fd
Next1 == Stream[Fd][rd[Fd] + 1]

Reading(stage) == loop.pc = "reading" /\ loop.stage = stage
Take(n) == rd' = [rd EXCEPT ![Fd] = @ + n]
Fail(end) == loop' = [loop EXCEPT !.pc = end]

\* Fault: the count of the header includes the header.
CountLess(n) == IF n > 1 THEN n - 1 ELSE n
Count(n) == n

\* Fault: a client that has closed its end is not read any more.
HungUp == peer[Fd] # "open"
NoMore == AtEof(Fd)

\* An empty array: HandleConnection takes it for a disconnection and unsubscribes the
\* client, and the loop closes the descriptor; WAIT counts no acknowledgement.
NoArguments ==
    IF InWait
    THEN loop' = [loop EXCEPT !.pc = "waiting"] /\ UNCHANGED conn
    ELSE loop' = Rescan(loop) /\ conn' = [conn EXCEPT ![Fd] = "closed"]

Begin(n) ==
    loop' = [loop EXCEPT !.stage = "bulk", !.left = Count(n), !.args = <<>>, !.arg = "whole"]

InStep == Fd \notin astray

ReadHeader ==
    /\ Reading("array")
    /\ \/ /\ NoMore
          /\ NoArguments /\ UNCHANGED rd
       \/ /\ InStep /\ ~NoMore /\ Unread(Fd) > 0
          /\ Take(1)
          /\ CASE Next1.kind # "array" -> Fail("aborted") /\ UNCHANGED conn
               [] Next1.kind = "array" /\ Next1.n = 0 -> NoArguments
               [] OTHER -> Begin(Next1.n) /\ UNCHANGED conn
    /\ UNCHANGED <<peer, wr, pipe, astray, done, waits>>

AddArg(a) ==
    loop' = [loop EXCEPT !.args = Append(@, a), !.left = @ - 1, !.stage = "bulk", !.arg = "whole"]

ReadBulk ==
    /\ Reading("bulk") /\ InStep /\ loop.left > 0 /\ Unread(Fd) > 0
    /\ Take(1)
    /\ CASE Next1.kind = "bulk" -> AddArg("whole")
         [] Next1.kind = "dollar" ->
              loop' = [loop EXCEPT !.stage = "content", !.size = Next1.n]
         [] OTHER -> Fail("aborted")
    /\ UNCHANGED <<conn, peer, wr, pipe, astray, done, waits>>

\* Fault: as many bytes are taken as were asked for.
AllBytes == loop.size
\* One read() takes what is there.
BytesRead == Min({loop.size, Unread(Fd)})

\* The result is not looked at: the bytes that are not there stay what they were.
ReadContent ==
    /\ Reading("content") /\ InStep /\ Unread(Fd) > 0
    /\ Take(BytesRead)
    /\ loop' = [loop EXCEPT !.stage = "cr",
                            !.arg = IF BytesRead < loop.size THEN "broken" ELSE "whole"]
    /\ astray' = IF BytesRead < loop.size THEN astray \cup {Fd} ELSE astray
    /\ UNCHANGED <<conn, peer, wr, pipe, done, waits>>

\* Fault: readSlashRN reads one byte.
AfterCrSkipped == "bulk"
AfterCr == "lf"

\* readSlashRN looks at neither of its two bytes.
ReadSlashRN ==
    /\ Reading("cr") \/ Reading("lf")
    /\ InStep /\ Unread(Fd) > 0
    /\ Take(1)
    /\ \/ /\ Reading("cr")
          /\ IF AfterCr = "lf" THEN loop' = [loop EXCEPT !.stage = "lf"] ELSE AddArg(loop.arg)
       \/ Reading("lf") /\ AddArg(loop.arg)
    /\ UNCHANGED <<conn, peer, wr, pipe, astray, done, waits>>

\* An exception of the reader ends the loop; WAIT catches it and gives the replica up.
Throw ==
    IF InWait THEN loop' = [loop EXCEPT !.pc = "waiting", !.watch = @ \ {Fd}] ELSE Fail("thrown")

\* Behind a cut argument the parser reads what is left of the payload, in pieces that
\* are no longer the tokens sent: a byte that is no '*' or '$' fails an assertion, a
\* length that is no number throws, and else a header is found or an argument is read.
\* It may also stop inside of one, for want of bytes.
ReadAstray ==
    /\ loop.pc = "reading" /\ ~InStep /\ Unread(Fd) > 0
    /\ loop.stage # "array" => loop.left > 0
    /\ \E n \in 1 .. Unread(Fd) : Take(n)
    /\ \/ UNCHANGED <<loop, conn>>
       \/ Fail("aborted") /\ UNCHANGED conn
       \/ Throw /\ UNCHANGED conn
       \/ loop.stage = "array" /\ NoArguments
       \/ loop.stage = "array" /\ (\E n \in 1 .. MaxCount : Begin(n)) /\ UNCHANGED conn
       \/ loop.stage # "array" /\ AddArg("broken") /\ UNCHANGED conn
    /\ UNCHANGED <<peer, wr, pipe, astray, done, waits>>

\* The client closed its end inside of a command: each argument that is not there is
\* the empty string.
ReadMissing ==
    /\ loop.pc = "reading" /\ loop.stage # "array" /\ loop.left > 0 /\ AtEof(Fd)
    /\ AddArg(IF InStep THEN "missing" ELSE "broken")
    /\ UNCHANGED <<conn, peer, wr, rd, pipe, astray, done, waits>>

\* read() fails, once.  Nobody looks at the read() of the content; the next one reports
\* the end of file.
ReadError ==
    /\ loop.pc = "reading" /\ AtError(Fd) /\ (loop.stage # "array" => loop.left > 0)
    /\ peer' = [peer EXCEPT ![Fd] = "gone"]
    /\ \/ Throw
       \/ (loop.stage = "content" \/ ~InStep) /\ UNCHANGED loop
    /\ UNCHANGED <<conn, wr, rd, pipe, astray, done, waits>>

-----------------------------------------------------------------------------
(* A command is complete.                                                  *)

Parsed == loop.pc = "reading" /\ loop.stage = "bulk" /\ loop.left = 0
AllWhole(args) == ToSet(args) \subseteq {"whole"}
Records(by) == done' = [done EXCEPT ![Fd] = Append(@, [by |-> by, args |-> loop.args])]

\* A write to a connection that its client has shut is answered by a reset, unless only
\* one direction was shut; the write after a reset fails, and the next raises SIGPIPE.
AfterWrite(p) == IF p = "shut" THEN {"shut", "gone"} ELSE IF p = "reset" THEN {"gone"} ELSE {p}
Written(cs) ==
    peer' \in {q \in [Clients -> Peers] :
                 \A c \in Clients : q[c] \in IF c \in cs THEN AfterWrite(peer[c]) ELSE {peer[c]}}
Fatal(c) == conn[c] # "closed" /\ peer[c] = "gone"

\* sendData and PropogateCommandToReplicas throw if the write fails, as it does on a
\* descriptor that the loop has closed: the map of replicas keeps it.
Refuses(r) == conn[r] = "closed" \/ peer[r] = "reset"
Refusing == {r \in Replicas : Refuses(r)}

\* Writes to the clients cs, whose result nobody looks at, and then to the replicas rs.
WriteTo(cs, rs, l) ==
    \/ \E c \in cs \cup rs : Fatal(c) /\ Fail("killed") /\ UNCHANGED peer
    \/ (\E c \in rs : c \in Refusing) /\ Fail("thrown") /\ UNCHANGED peer
    \/ /\ \A c \in cs \cup rs : ~Fatal(c)
       /\ rs \cap Refusing = {}
       /\ Written(cs \cup rs) /\ loop' = l

\* What a command is whose arguments are not all as sent is left open; it may throw,
\* where it reads a number.
KindsOf(k) == IF AllWhole(loop.args) THEN {Commands[Fd][k].kind} ELSE Kinds \ {"ack"}

Execute ==
    /\ Parsed /\ ~InWait
    /\ Records("loop")
    /\ \/ \E kind \in KindsOf(Len(done[Fd]) + 1) :
             \/ /\ kind = "wait"
                /\ waits' = waits + 1
                /\ WriteTo({}, Replicas, [loop EXCEPT !.pc = "waiting", !.waiter = Fd,
                                                      !.watch = Replicas])
             \/ /\ kind # "wait"
                /\ WriteTo({Fd}, IF kind = "write" THEN Replicas ELSE {}, Rescan(loop))
                /\ UNCHANGED waits
       \/ ~AllWhole(loop.args) /\ Fail("thrown") /\ UNCHANGED <<peer, waits>>
    /\ UNCHANGED <<conn, wr, rd, pipe, astray>>

\* WAIT polls; it reads an array from a replica that sent something.  An end of file
\* is read again and again, and changes nothing.
WaitReads(r) ==
    /\ loop.pc = "waiting" /\ r \in loop.watch
    /\ Unread(r) > 0 \/ AtError(r)
    /\ loop' = [loop EXCEPT !.pc = "reading", !.fd = r, !.stage = "array",
                            !.robbed = @ \cup {r}]
    /\ UNCHANGED <<conn, peer, wr, rd, pipe, done, waits, astray>>

\* stoi throws on an offset that is the empty string, and maybe on one that is broken.
WaitHeard ==
    /\ Parsed /\ InWait
    /\ Records("wait")
    /\ \/ loop' = [loop EXCEPT !.pc = "waiting", !.watch = @ \ {Fd}] /\ ~AllWhole(loop.args)
       \/ loop' = [loop EXCEPT !.pc = "waiting"] /\ Last(loop.args) # "missing"
    /\ UNCHANGED <<conn, peer, wr, rd, pipe, waits, astray>>

WaitTimeout ==
    /\ loop.pc = "waiting"
    /\ WriteTo({loop.waiter}, {}, Rescan(loop))
    /\ UNCHANGED <<conn, wr, rd, pipe, astray, done, waits>>

-----------------------------------------------------------------------------
LoopStep ==
    \/ Select \/ ScanEnd \/ AcceptNewConnection \/ SeeSignal \/ HandleConnection
    \/ ReadHeader \/ ReadBulk \/ ReadContent \/ ReadSlashRN \/ ReadAstray
    \/ ReadMissing \/ ReadError
    \/ Execute \/ WaitHeard \/ WaitTimeout
    \/ \E r \in Replicas : WaitReads(r)

Next ==
    \/ LoopStep
    \/ \E c \in Clients :
         Connect(c) \/ Send(c) \/ \E how \in {"shut", "reset"} : Leave(c, how)
    \/ Signal

\* A client that has begun a command sends the rest of it.
Finish(c) == Send(c) /\ wr[c] \notin Range(EndOf[c])

Fairness ==
    /\ WF_vars(LoopStep)
    /\ \A c \in Clients : WF_vars(Finish(c))

Spec == Init /\ [][Next]_vars
FairSpec == Spec /\ Fairness

-----------------------------------------------------------------------------
(* Properties.                                                             *)

\* The commands of a client are parsed in the order and with the arguments it sent, by
\* the loop or by WAIT.  Arguments are missing only from the last one, and only if the
\* client closed inside of it; and if an argument is cut, it is one of more than one
\* byte: the commands before it were parsed as sent, and all arrays from it on are broken.
SameLength(c, k) ==
    k \in DOMAIN Commands[c] /\ Len(done[c][k].args) = Len(Commands[c][k].args)
Whole(c, k) == SameLength(c, k) /\ AllWhole(done[c][k].args)
Incomplete(c, k) ==
    /\ SameLength(c, k) /\ "broken" \notin ToSet(done[c][k].args)
    /\ k = Len(done[c]) /\ peer[c] # "open" /\ wr[c] < EndOf[c][k]
CutAt(c, n) ==
    /\ \E i \in DOMAIN Commands[c][n].args : Commands[c][n].args[i] > 1
    /\ n <= Len(done[c]) + 1
    /\ \A k \in DOMAIN done[c] : IF k < n THEN Whole(c, k) ELSE "broken" \in ToSet(done[c][k].args)
ParsedFrom(c) ==
    IF c \in astray THEN \E n \in DOMAIN Commands[c] : CutAt(c, n)
    ELSE \A k \in DOMAIN done[c] : Whole(c, k) \/ Incomplete(c, k)
ParsedAsSent == \A c \in Clients : ParsedFrom(c)

\* A connection is closed when all its client sent was read, unless it sent an empty
\* array, or one was found behind an argument that was cut.
NothingUnreadAtClose ==
    \A c \in Clients \ astray :
        conn[c] = "closed" =>
            Unread(c) = 0 \/ (Len(done[c]) < Len(Commands[c])
                              /\ Commands[c][Len(done[c]) + 1].args = <<>>)

\* The loop waits for the start of a command, with all its clients, only if a WAIT has
\* read what select had seen there, or behind an argument that was cut.
StalledAtStart == Reading("array") /\ Unread(Fd) = 0 /\ peer[Fd] = "open"
StallsOnlyAfterWait == StalledAtStart /\ InStep => ~InWait /\ Fd \in loop.robbed

\* Whatever clients do, the loop ends by a signal; by a failed assertion behind an
\* argument that was cut; by an exception, after a reset, a cut, a command that its
\* client did not complete, or a replica whose connection was closed; or by SIGPIPE,
\* where a client is gone.
Args == {done[c][Len(done[c])].args : c \in {d \in Clients : done[d] # <<>>}} \cup {loop.args}
EndHasACause ==
    /\ loop.pc = "returned" => pipe
    /\ loop.pc = "aborted" => astray # {}
    /\ loop.pc = "thrown" =>
         \/ astray # {}
         \/ \E args \in Args : "missing" \in ToSet(args)
         \/ \E c \in Clients : peer[c] \in {"reset", "gone"}
         \/ \E r \in Replicas : conn[r] = "closed"
    /\ loop.pc = "killed" => \E c \in Clients : peer[c] = "gone"

\* Once select has reported the signal no command is parsed or executed.
NothingAfterSignal == [][loop.signal => UNCHANGED <<done, rd>>]_vars

\* The loop waits for what may never come: the start of a command, or the rest of what
\* it takes for one behind an argument that was cut.
Stalled ==
    /\ loop.pc = "reading" /\ Unread(Fd) = 0 /\ peer[Fd] = "open"
    /\ loop.stage = "array" \/ ~InStep

\* A command that was sent whole is read, by the loop or by WAIT, by clients that finish
\* what they begin; otherwise the server has ended, an empty array has closed the
\* connection, one of its arguments was cut, or the loop is stalled.
Behind(c) == conn[c] # "out" /\ \E k \in DOMAIN EndOf[c] : Len(done[c]) < k /\ EndOf[c][k] <= wr[c]
WholeCommandsAreRead ==
    \A c \in Clients :
        Behind(c) ~> (~Behind(c) \/ Ended \/ conn[c] = "closed" \/ c \in astray \/ Stalled)

\* "Initiating graceful shutdown" (src/src/Server.cpp:496): a signal ends the loop,
\* unless it is stalled.
SignalEndsLoop == pipe ~> (Ended \/ Stalled)
=============================================================================
