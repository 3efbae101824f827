-------------------------- MODULE EventLoopProofs --------------------------
(***************************************************************************)
(* Theorems about EventLoop, for every set of clients and whatever they    *)
(* send.                                                                   *)
(***************************************************************************)
EXTENDS EventLoop, SequenceLemmas, TLAPS

-----------------------------------------------------------------------------
(* The scan visits the pipe before every client.                           *)

LEMMA PipeFirst ==
  ASSUME NEW ready \in SUBSET (Clients \cup {ServerFd, PipeFd}), PipeFd \in ready
  PROVE  Min(ready) \in {ServerFd, PipeFd}
<1> DEFINE first == IF ServerFd \in ready THEN ServerFd ELSE PipeFd
<1>1. /\ ServerFd \in Nat /\ PipeFd \in Nat /\ ServerFd < PipeFd
      /\ \A c \in Clients : c \in Nat /\ PipeFd < c
  BY DescriptorsAssumption
<1>2. first \in ready /\ \A y \in ready : y \in Nat /\ first <= y
  BY <1>1
<1>3. Min(ready) \in ready /\ \A y \in ready : Min(ready) <= y
  BY <1>2 DEF Min
<1>4. Min(ready) <= first /\ first <= PipeFd /\ Min(ready) \in Nat /\ first \in Nat
  BY <1>1, <1>2, <1>3
<1> HIDE DEF first
<1>5. Min(ready) \notin Clients
  BY <1>1, <1>4
<1>6. QED
  BY <1>3, <1>5

\* The descriptors the loop scans, and a signal that select has reported: the pipe is
\* still to be visited, or was.
ReadyTypes == loop.ready \in SUBSET (Clients \cup {ServerFd, PipeFd})
SignalAhead ==
    loop.signal => \/ loop.pc = "scan" /\ PipeFd \in loop.ready
                   \/ loop.pc = "returned"
LoopFields == {"pc", "ready", "robbed", "signal", "waiter", "watch", "fd", "stage", "left",
               "args", "arg", "size"}
LoopShape == DOMAIN loop = LoopFields /\ loop = [f \in LoopFields |-> loop[f]]
ScanInv == LoopShape /\ ReadyTypes /\ SignalAhead

LEMMA ScanInvInit == Init => ScanInv
<1> SUFFICES ASSUME Init PROVE ScanInv
  OBVIOUS
<1>1. loop = StartLoop
  BY DEF Init
<1>2. LoopShape
  BY <1>1 DEF StartLoop, LoopShape, LoopFields
<1>3. loop.ready = {} /\ loop.signal = FALSE
  BY <1>1 DEF StartLoop
<1>4. QED
  BY <1>2, <1>3 DEF ScanInv, ReadyTypes, SignalAhead

\* A step of the loop that starts or goes on with a scan.
LEMMA RescanShape ==
  ASSUME ScanInv
  PROVE  /\ DOMAIN Rescan(loop) = LoopFields
         /\ Rescan(loop) = [f \in LoopFields |-> Rescan(loop)[f]]
         /\ Rescan(loop).pc = "scan" /\ Rescan(loop).ready = loop.ready
         /\ Rescan(loop).signal = loop.signal
BY DEF ScanInv, LoopShape, LoopFields, Rescan, StartLoop

\* A step that sets fields, with no signal pending and none reported.
Harmless == LoopShape' /\ loop'.signal = FALSE /\ loop'.ready \subseteq loop.ready

LEMMA HarmlessKeeps ==
  ASSUME ScanInv, Harmless
  PROVE  ScanInv'
BY DEF Harmless, ScanInv, ReadyTypes, SignalAhead

\* While a signal that select has seen is pending, only the scan goes on.
LEMMA Pending ==
  ASSUME ScanInv, LoopStep, loop.signal
  PROVE  AcceptNewConnection \/ SeeSignal
<1>1. loop.pc \in {"scan", "returned"} /\ (loop.pc = "scan" => PipeFd \in loop.ready)
  BY DEF ScanInv, SignalAhead
<1>2. PipeFd \in loop.ready => Scanned \notin Clients
  <2>1. PipeFd \in loop.ready => Scanned \in {ServerFd, PipeFd}
    BY PipeFirst DEF ScanInv, ReadyTypes, Scanned
  <2>2. \A c \in Clients : c # ServerFd /\ c # PipeFd
    BY DescriptorsAssumption
  <2>3. QED
    BY <2>1, <2>2
<1>3. QED
  BY <1>1, <1>2
     DEF LoopStep, Select, ScanEnd, HandleConnection, ReadHeader, ReadBulk, ReadContent,
         ReadSlashRN, ReadAstray, ReadMissing, ReadError, Execute, WaitHeard, WaitTimeout,
         WaitReads, Reading, Parsed

LEMMA ScanInvLoop ==
  ASSUME ScanInv, LoopStep
  PROVE  ScanInv'
<1>1. CASE loop.signal
  <2>1. CASE AcceptNewConnection
    BY <1>1, <2>1, DescriptorsAssumption
       DEF AcceptNewConnection, ScanInv, LoopShape, LoopFields, ReadyTypes, SignalAhead
  <2>2. CASE SeeSignal
    BY <1>1, <2>2 DEF SeeSignal, ScanInv, LoopShape, LoopFields, ReadyTypes, SignalAhead
  <2>3. QED
    BY <1>1, <2>1, <2>2, Pending
<1>2. CASE ~loop.signal
  <2> USE <1>2
  <2>0. LoopShape /\ loop.signal = FALSE
    BY DEF ScanInv
  <2>1. CASE Select
    BY <2>1 DEF Select, StartLoop, ReadyFds, PipeReady, ScanInv, LoopShape, LoopFields,
               ReadyTypes, SignalAhead
  <2>2. CASE ScanEnd
    BY <2>2, HarmlessKeeps DEF ScanEnd, StartLoop, Harmless, LoopShape, LoopFields
  <2>3. CASE AcceptNewConnection
    BY <2>0, <2>3, HarmlessKeeps DEF AcceptNewConnection, Harmless, LoopShape, LoopFields
  <2>4. CASE SeeSignal
    BY <2>0, <2>4, HarmlessKeeps DEF SeeSignal, Harmless, LoopShape, LoopFields
  <2>5. CASE HandleConnection
    BY <2>0, <2>5, HarmlessKeeps DEF HandleConnection, Harmless, LoopShape, LoopFields
  <2>6. ASSUME NEW a, AddArg(a)
        PROVE  ScanInv'
    BY <2>0, <2>6, HarmlessKeeps DEF AddArg, Harmless, LoopShape, LoopFields
  <2>7. ASSUME NEW n, Begin(n)
        PROVE  ScanInv'
    BY <2>0, <2>7, HarmlessKeeps DEF Begin, Harmless, LoopShape, LoopFields
  <2>8. ASSUME NEW end, Fail(end)
        PROVE  ScanInv'
    BY <2>0, <2>8, HarmlessKeeps DEF Fail, Harmless, LoopShape, LoopFields
  <2>9. CASE loop' = Rescan(loop)
    BY <2>0, <2>9, RescanShape, HarmlessKeeps DEF Harmless, LoopShape
  <2>10. CASE NoArguments
    <3>1. loop' = [loop EXCEPT !.pc = "waiting"] \/ loop' = Rescan(loop)
      BY <2>10 DEF NoArguments
    <3>2. QED
      BY <2>0, <2>9, <3>1, HarmlessKeeps DEF Harmless, LoopShape, LoopFields
  <2>11. CASE Throw
    <3>1. loop' = [loop EXCEPT !.pc = "waiting", !.watch = @ \ {Fd}] \/ Fail("thrown")
      BY <2>11 DEF Throw
    <3>2. QED
      BY <2>0, <2>8, <3>1, HarmlessKeeps DEF Harmless, LoopShape, LoopFields
  <2>12. CASE UNCHANGED loop
    BY <2>12 DEF ScanInv, LoopShape, ReadyTypes, SignalAhead
  <2>13. CASE ReadHeader \/ ReadAstray
    <3>1. NoArguments \/ Fail("aborted") \/ Throw \/ UNCHANGED loop
          \/ (\E n : Begin(n)) \/ (\E a : AddArg(a))
      BY <2>13 DEF ReadHeader, ReadAstray
    <3>2. QED
      BY <2>6, <2>7, <2>8, <2>10, <2>11, <2>12, <3>1
  <2>14. CASE ReadBulk \/ ReadContent \/ ReadSlashRN
    <3>1. \/ AddArg("whole") \/ AddArg(loop.arg) \/ Fail("aborted")
          \/ loop' = [loop EXCEPT !.stage = "content", !.size = Next1.n]
          \/ loop' = [loop EXCEPT !.stage = "cr",
                                  !.arg = IF BytesRead < loop.size THEN "broken" ELSE "whole"]
          \/ loop' = [loop EXCEPT !.stage = "lf"]
      BY <2>14 DEF ReadBulk, ReadContent, ReadSlashRN
    <3>2. QED
      BY <2>0, <2>6, <2>8, <3>1, HarmlessKeeps DEF Harmless, LoopShape, LoopFields
  <2>15. CASE ReadMissing \/ ReadError
    BY <2>6, <2>11, <2>12, <2>15 DEF ReadMissing, ReadError
  <2>17. CASE Execute
    <3>1. \/ loop' = [loop EXCEPT !.pc = "waiting", !.waiter = Fd, !.watch = Replicas]
          \/ loop' = Rescan(loop) \/ Fail("thrown") \/ Fail("killed")
      BY <2>17 DEF Execute, WriteTo
    <3>2. QED
      BY <2>0, <2>8, <2>9, <3>1, HarmlessKeeps DEF Harmless, LoopShape, LoopFields
  <2>18. CASE WaitHeard
    BY <2>0, <2>18, HarmlessKeeps DEF WaitHeard, Harmless, LoopShape, LoopFields
  <2>19. CASE WaitTimeout
    <3>1. loop' = Rescan(loop) \/ Fail("killed") \/ Fail("thrown")
      BY <2>19 DEF WaitTimeout, WriteTo
    <3>2. QED
      BY <2>8, <2>9, <3>1
  <2>16. ASSUME NEW r \in Replicas, WaitReads(r)
         PROVE  ScanInv'
    BY <2>0, <2>16, HarmlessKeeps DEF WaitReads, Harmless, LoopShape, LoopFields
  <2>20. QED
    BY <2>1, <2>2, <2>3, <2>4, <2>5, <2>13, <2>14, <2>15, <2>16, <2>17, <2>18, <2>19
       DEF LoopStep
<1>3. QED
  BY <1>1, <1>2

LEMMA ScanInvNext ==
  ASSUME ScanInv, [Next]_vars
  PROVE  ScanInv'
<1>1. CASE UNCHANGED loop
  BY <1>1 DEF ScanInv, LoopShape, ReadyTypes, SignalAhead
<1>2. CASE LoopStep
  BY <1>2, ScanInvLoop
<1>3. QED
  BY <1>1, <1>2 DEF Next, vars, Connect, Send, Leave, Signal

\* A signal that select has seen is obeyed before any client is read or served, whatever
\* is in the same ready set: runEventLoop scans the descriptors upwards.
THEOREM SignalComesFirst == Spec => NothingAfterSignal
<1>1. Init => ScanInv
  BY ScanInvInit
<1>2. ScanInv /\ [Next]_vars => ScanInv'
  BY ScanInvNext
<1>3. ScanInv /\ [Next]_vars => [loop.signal => UNCHANGED <<done, rd>>]_vars
  <2> SUFFICES ASSUME ScanInv, [Next]_vars, loop.signal PROVE UNCHANGED <<done, rd>>
    OBVIOUS
  <2>1. CASE LoopStep
    BY <2>1, Pending DEF AcceptNewConnection, SeeSignal
  <2>2. QED
    BY <2>1 DEF Next, vars, Connect, Send, Leave, Signal
<1>4. QED
  BY <1>1, <1>2, <1>3, PTL DEF Spec, NothingAfterSignal

-----------------------------------------------------------------------------
(* What is where in the stream of a client.                                *)

TokenType == [kind : {"array", "bulk", "dollar", "byte", "cr", "lf"}, n : Nat]
CommandType == [kind : Kinds, args : Seq(Nat)]

ArgSeq(cmd) == [i \in DOMAIN cmd.args |-> ArgTokens(cmd.args[i])]
CommandSeq(c) == [i \in 1 .. Len(Commands[c]) |-> CommandTokens(Commands[c][i])]

LEMMA CommandsTypes ==
  ASSUME NEW c \in Clients
  PROVE  /\ Commands[c] \in Seq(CommandType) /\ Len(Commands[c]) \in Nat
         /\ \A k \in 1 .. Len(Commands[c]) :
              /\ Commands[c][k] \in CommandType
              /\ Commands[c][k].args \in Seq(Nat) /\ Len(Commands[c][k].args) \in Nat
<1> DEFINE C == [kind : Kinds, args : Seq(Nat)]
           s == Commands[c]
<1>1. s \in Seq(C)
  BY CommandsAssumption
<1> HIDE DEF s, C
<1>2. Len(s) \in Nat /\ \A k \in 1 .. Len(s) : s[k] \in C
  BY <1>1
<1>3. ASSUME NEW cmd \in C PROVE cmd.args \in Seq(Nat) /\ Len(cmd.args) \in Nat
  BY DEF C
<1>4. QED
  BY <1>1, <1>2, <1>3 DEF s, C, CommandType

ArgLength(n) == IF n = 0 THEN 1 ELSE n + 3

LEMMA ArgTokensFacts ==
  ASSUME NEW n \in Nat
  PROVE  /\ ArgTokens(n) \in Seq(TokenType) /\ Len(ArgTokens(n)) = ArgLength(n)
         /\ n = 0 => ArgTokens(n)[1] = Token("bulk", 0)
         /\ n # 0 => /\ ArgTokens(n)[1] = Token("dollar", n)
                     /\ \A j \in 2 .. n + 3 : ArgTokens(n)[j].kind \in {"byte", "cr", "lf"}
<1>1. CASE n = 0
  <2> DEFINE t == Token("bulk", 0)
  <2>1. ArgTokens(n) = <<t>> /\ t \in TokenType
    BY <1>1 DEF ArgTokens, Token, TokenType
  <2> HIDE DEF t
  <2>2. <<t>> \in Seq(TokenType) /\ Len(<<t>>) = 1 /\ <<t>>[1] = t
    BY <2>1
  <2>3. QED
    BY <1>1, <2>1, <2>2 DEF ArgLength, t
<1>2. CASE n # 0
  <2> DEFINE dollar == <<Token("dollar", n)>>
             bytes == [i \in 1 .. n |-> Token("byte", 0)]
             crlf == <<Token("cr", 0), Token("lf", 0)>>
  <2>1. dollar \in Seq(TokenType) /\ Len(dollar) = 1 /\ dollar[1] = Token("dollar", n)
    BY DEF Token, TokenType
  <2>2. bytes \in Seq(TokenType) /\ Len(bytes) = n /\ \A i \in 1 .. n : bytes[i] = Token("byte", 0)
    BY DEF Token, TokenType
  <2>3. crlf \in Seq(TokenType) /\ Len(crlf) = 2 /\ crlf[1] = Token("cr", 0) /\ crlf[2] = Token("lf", 0)
    BY DEF Token, TokenType
  <2>4. ArgTokens(n) = (dollar \o bytes) \o crlf
    BY <1>2 DEF ArgTokens
  <2> HIDE DEF dollar, bytes, crlf
  <2> DEFINE front == dollar \o bytes
  <2>5. /\ front \in Seq(TokenType) /\ Len(front) = 1 + n /\ front[1] = Token("dollar", n)
        /\ \A j \in 2 .. n + 1 : front[j] = Token("byte", 0)
    <3>1. /\ front \in Seq(TokenType) /\ Len(front) = 1 + n
          /\ \A j \in 1 .. 1 : front[j] = dollar[j]
          /\ \A j \in 1 .. n : front[1 + j] = bytes[j]
      <4>1. front \in Seq(TokenType) /\ ConcatenationOf(front, dollar, bytes)
        BY <2>1, <2>2, ConcatPlaces
      <4>2. QED
        BY <2>1, <2>2, <4>1 DEF ConcatenationOf
    <3>2. ASSUME NEW j \in 2 .. n + 1 PROVE front[j] = Token("byte", 0)
      <4>1. j - 1 \in 1 .. n /\ 1 + (j - 1) = j
        OBVIOUS
      <4>2. front[1 + (j - 1)] = bytes[j - 1]
        BY <3>1, <4>1
      <4>3. QED
        BY <2>2, <4>1, <4>2
    <3>3. QED
      BY <3>1, <3>2, <2>1
  <2>6. \A k : Token("byte", k).kind = "byte" /\ Token("cr", k).kind = "cr"
               /\ Token("lf", k).kind = "lf"
    BY DEF Token
  <2> HIDE DEF front
  <2>7. ArgTokens(n) = front \o crlf
    BY <2>4 DEF front
  <2>8. /\ ArgTokens(n) \in Seq(TokenType) /\ Len(ArgTokens(n)) = (1 + n) + 2
        /\ \A j \in 1 .. 1 + n : ArgTokens(n)[j] = front[j]
        /\ \A j \in 1 .. 2 : ArgTokens(n)[(1 + n) + j] = crlf[j]
    <3>1. front \o crlf \in Seq(TokenType) /\ ConcatenationOf(front \o crlf, front, crlf)
      BY <2>3, <2>5, ConcatPlaces
    <3>2. QED
      BY <2>3, <2>5, <2>7, <3>1 DEF ConcatenationOf
  <2>9. ArgTokens(n)[1] = front[1]
    BY <2>8
  <2>10. ASSUME NEW j \in 2 .. n + 3 PROVE ArgTokens(n)[j].kind \in {"byte", "cr", "lf"}
    <3>1. CASE j <= n + 1
      BY <2>5, <2>6, <2>8, <3>1
    <3>2. CASE j > n + 1
      <4>1. j = (1 + n) + 1 \/ j = (1 + n) + 2
        BY <3>2
      <4>2. ArgTokens(n)[(1 + n) + 1] = crlf[1] /\ ArgTokens(n)[(1 + n) + 2] = crlf[2]
        BY <2>8
      <4>3. QED
        BY <4>1, <4>2, <2>3, <2>6
    <3>3. QED
      BY <3>1, <3>2
  <2>11. QED
    BY <1>2, <2>5, <2>8, <2>9, <2>10 DEF ArgLength
<1>3. QED
  BY <1>1, <1>2

LEMMA ArgSeqType ==
  ASSUME NEW cmd \in CommandType
  PROVE  /\ ArgSeq(cmd) \in Seq(Seq(TokenType)) /\ Len(ArgSeq(cmd)) = Len(cmd.args)
         /\ Len(cmd.args) \in Nat
         /\ \A i \in 1 .. Len(cmd.args) :
              ArgSeq(cmd)[i] = ArgTokens(cmd.args[i]) /\ cmd.args[i] \in Nat
<1>1. cmd.args \in Seq(Nat)
  BY DEF CommandType
<1>2. Len(cmd.args) \in Nat /\ DOMAIN cmd.args = 1 .. Len(cmd.args)
      /\ \A i \in 1 .. Len(cmd.args) : cmd.args[i] \in Nat
  BY <1>1
<1>3. ArgSeq(cmd) \in [1 .. Len(cmd.args) -> Seq(TokenType)]
  BY <1>2, ArgTokensFacts DEF ArgSeq
<1>4. QED
  BY <1>2, <1>3 DEF ArgSeq

ArgPlace(cmd, i) == LengthTo(ArgSeq(cmd), i)

LEMMA CommandTokensFacts ==
  ASSUME NEW cmd \in CommandType
  PROVE  /\ CommandTokens(cmd) \in Seq(TokenType)
         /\ Len(CommandTokens(cmd)) = 1 + ArgPlace(cmd, Len(cmd.args))
         /\ CommandTokens(cmd)[1] = Token("array", Len(cmd.args))
         /\ ArgPlace(cmd, 0) = 0
         /\ \A i \in 0 .. Len(cmd.args) :
              ArgPlace(cmd, i) \in Nat /\ ArgPlace(cmd, i) <= ArgPlace(cmd, Len(cmd.args))
         /\ \A i \in 1 .. Len(cmd.args) :
              /\ ArgPlace(cmd, i) = ArgPlace(cmd, i - 1) + ArgLength(cmd.args[i])
              /\ \A j \in 1 .. ArgLength(cmd.args[i]) :
                   CommandTokens(cmd)[1 + ArgPlace(cmd, i - 1) + j] = ArgTokens(cmd.args[i])[j]
<1> DEFINE n == Len(cmd.args)
           head == <<Token("array", n)>>
           seqs == ArgSeq(cmd)
           flat == FlattenSeq(seqs)
<1>1. /\ seqs \in Seq(Seq(TokenType)) /\ Len(seqs) = n /\ n \in Nat
      /\ \A i \in 1 .. n : seqs[i] = ArgTokens(cmd.args[i]) /\ cmd.args[i] \in Nat
  BY ArgSeqType
<1>2. head \in Seq(TokenType) /\ Len(head) = 1 /\ head[1] = Token("array", n)
  BY <1>1 DEF Token, TokenType
<1>3. CommandTokens(cmd) = head \o flat
  BY DEF CommandTokens, ArgSeq
<1> HIDE DEF head, seqs, n
<1>4. /\ FlattenSeq(FirstOf(seqs, 0)) = <<>>
      /\ FlattenSeq(FirstOf(seqs, n)) = flat
      /\ \A k \in 0 .. n : FlattenSeq(FirstOf(seqs, k)) \in Seq(TokenType)
  BY <1>1, FlattenSteps
<1>5. n \in 0 .. n /\ 0 \in 0 .. n
  BY <1>1
<1>6. flat \in Seq(TokenType)
  BY <1>4, <1>5
<1> HIDE DEF flat
<1>7. /\ CommandTokens(cmd) \in Seq(TokenType) /\ Len(CommandTokens(cmd)) = 1 + Len(flat)
      /\ CommandTokens(cmd)[1] = head[1]
      /\ \A j \in 1 .. Len(flat) : CommandTokens(cmd)[1 + j] = flat[j]
  <2>1. Len(flat) \in Nat
    BY <1>6
  <2>2. head \o flat \in Seq(TokenType) /\ ConcatenationOf(head \o flat, head, flat)
    BY <1>2, <1>6, ConcatPlaces
  <2>3. /\ Len(head \o flat) = 1 + Len(flat)
        /\ \A j \in 1 .. 1 : (head \o flat)[j] = head[j]
        /\ \A j \in 1 .. Len(flat) : (head \o flat)[1 + j] = flat[j]
    BY <1>2, <2>2 DEF ConcatenationOf
  <2>4. (head \o flat)[1] = head[1]
    BY <2>3
  <2>5. QED
    BY <1>3, <2>2, <2>3, <2>4
<1>8. LengthTo(seqs, n) = Len(flat) /\ LengthTo(seqs, 0) = 0 /\ Len(flat) \in Nat
  BY <1>4, <1>6 DEF LengthTo
<1>9. ASSUME NEW i \in 1 .. n
      PROVE  /\ LengthTo(seqs, i) = LengthTo(seqs, i - 1) + ArgLength(cmd.args[i])
             /\ LengthTo(seqs, i - 1) \in Nat /\ ArgLength(cmd.args[i]) \in Nat
             /\ LengthTo(seqs, i) \in Nat
             /\ LengthTo(seqs, i) <= Len(flat)
             /\ \A j \in 1 .. ArgLength(cmd.args[i]) :
                  CommandTokens(cmd)[1 + LengthTo(seqs, i - 1) + j] = ArgTokens(cmd.args[i])[j]
  <2>1. seqs[i] = ArgTokens(cmd.args[i]) /\ cmd.args[i] \in Nat /\ i \in 1 .. Len(seqs)
    BY <1>1
  <2>2. Len(seqs[i]) = ArgLength(cmd.args[i]) /\ ArgLength(cmd.args[i]) \in Nat
    <3>1. Len(ArgTokens(cmd.args[i])) = ArgLength(cmd.args[i])
      BY <2>1, ArgTokensFacts
    <3>2. QED
      BY <2>1, <3>1 DEF ArgLength
  <2>3. /\ LengthTo(seqs, i) = LengthTo(seqs, i - 1) + Len(seqs[i])
        /\ LengthTo(seqs, i - 1) \in Nat
        /\ LengthTo(seqs, i) <= Len(FlattenSeq(seqs))
        /\ \A j \in 1 .. Len(seqs[i]) :
             FlattenSeq(seqs)[LengthTo(seqs, i - 1) + j] = seqs[i][j]
    BY <2>1, <1>1, FlattenPlaces
  <2>4. ASSUME NEW j \in 1 .. ArgLength(cmd.args[i])
        PROVE  CommandTokens(cmd)[1 + LengthTo(seqs, i - 1) + j] = ArgTokens(cmd.args[i])[j]
    <3>1. LengthTo(seqs, i - 1) + j \in 1 .. Len(flat)
      BY <2>2, <2>3, <1>8 DEF flat
    <3>2. CommandTokens(cmd)[1 + (LengthTo(seqs, i - 1) + j)] = flat[LengthTo(seqs, i - 1) + j]
      BY <3>1, <1>7
    <3>3. flat[LengthTo(seqs, i - 1) + j] = ArgTokens(cmd.args[i])[j]
      BY <2>1, <2>2, <2>3 DEF flat
    <3>4. 1 + LengthTo(seqs, i - 1) + j = 1 + (LengthTo(seqs, i - 1) + j)
      BY <2>2, <2>3
    <3>5. QED
      BY <3>2, <3>3, <3>4
  <2>5. QED
    BY <2>2, <2>3, <2>4 DEF flat
<1>10. ASSUME NEW i \in 0 .. n PROVE LengthTo(seqs, i) \in Nat /\ LengthTo(seqs, i) <= Len(flat)
  <2>1. i = 0 \/ i \in 1 .. n
    BY <1>1
  <2>2. QED
    BY <2>1, <1>8, <1>9
<1>11. QED
  BY <1>2, <1>7, <1>8, <1>9, <1>10 DEF ArgPlace, seqs, n

LEMMA CommandSeqType ==
  ASSUME NEW c \in Clients
  PROVE  /\ CommandSeq(c) \in Seq(Seq(TokenType)) /\ Len(CommandSeq(c)) = Len(Commands[c])
         /\ \A k \in 1 .. Len(Commands[c]) : CommandSeq(c)[k] = CommandTokens(Commands[c][k])
         /\ \A k \in 0 .. Len(Commands[c]) : Upto(c, k) = FlattenSeq(FirstOf(CommandSeq(c), k))
         /\ Upto(c, Len(Commands[c])) = FlattenSeq(CommandSeq(c))
<1>1. Len(Commands[c]) \in Nat
      /\ \A k \in 1 .. Len(Commands[c]) : Commands[c][k] \in CommandType
  BY CommandsTypes
<1>2. \A k \in 1 .. Len(Commands[c]) : CommandTokens(Commands[c][k]) \in Seq(TokenType)
  BY <1>1, CommandTokensFacts
<1>3. CommandSeq(c) \in [1 .. Len(Commands[c]) -> Seq(TokenType)]
  BY <1>2 DEF CommandSeq
<1>4. CommandSeq(c) \in Seq(Seq(TokenType)) /\ Len(CommandSeq(c)) = Len(Commands[c])
  BY <1>1, <1>3 DEF CommandSeq
<1>5. ASSUME NEW k \in 0 .. Len(Commands[c])
      PROVE  [i \in 1 .. k |-> CommandTokens(Commands[c][i])] = FirstOf(CommandSeq(c), k)
  <2>1. \A i \in 1 .. k : i \in 1 .. Len(Commands[c])
    BY <1>1
  <2>2. QED
    BY <2>1 DEF FirstOf, CommandSeq
<1>6. QED
  BY <1>4, <1>5 DEF Upto, CommandSeq

\* Where argument i + 1 of command k starts in the stream.
ArgStart(c, k, i) == EndOf[c][k - 1] + 1 + ArgPlace(Commands[c][k], i)

\* The command of which EndOf[c][k] is the end.
LEMMA StreamCommands ==
  ASSUME NEW c \in Clients
  PROVE  /\ Stream[c] \in Seq(TokenType) /\ Len(Stream[c]) \in Nat
         /\ EndOf[c][0] = 0 /\ EndOf[c][Len(Commands[c])] = Len(Stream[c])
         /\ DOMAIN EndOf[c] = 0 .. Len(Commands[c])
         /\ \A k \in 0 .. Len(Commands[c]) : EndOf[c][k] \in Nat /\ EndOf[c][k] <= Len(Stream[c])
         /\ \A k \in 1 .. Len(Commands[c]) :
              LET cmd == Commands[c][k]
              IN /\ EndOf[c][k] = EndOf[c][k - 1] + Len(CommandTokens(cmd))
                 /\ \A j \in 1 .. Len(CommandTokens(cmd)) :
                      Stream[c][EndOf[c][k - 1] + j] = CommandTokens(cmd)[j]
<1> DEFINE L == Len(Commands[c])
           seqs == CommandSeq(c)
<1>1. /\ seqs \in Seq(Seq(TokenType)) /\ Len(seqs) = L
      /\ \A k \in 1 .. L : seqs[k] = CommandTokens(Commands[c][k])
      /\ \A k \in 0 .. L : Upto(c, k) = FlattenSeq(FirstOf(seqs, k))
      /\ Upto(c, L) = FlattenSeq(seqs)
  BY CommandSeqType
<1>2. L \in Nat
  BY CommandsTypes
<1>3. Stream[c] = FlattenSeq(seqs)
  BY <1>1 DEF Stream
<1>4. DOMAIN EndOf[c] = 0 .. L /\ \A k \in 0 .. L : EndOf[c][k] = LengthTo(seqs, k)
  BY <1>1 DEF EndOf, LengthTo
<1> HIDE DEF L, seqs
<1>5. /\ FlattenSeq(FirstOf(seqs, 0)) = <<>>
      /\ FlattenSeq(FirstOf(seqs, L)) = FlattenSeq(seqs)
      /\ \A k \in 0 .. L : FlattenSeq(FirstOf(seqs, k)) \in Seq(TokenType)
  BY <1>1, FlattenSteps
<1>6. 0 \in 0 .. L /\ L \in 0 .. L
  BY <1>2
<1>7. Stream[c] \in Seq(TokenType) /\ Len(Stream[c]) \in Nat
  BY <1>3, <1>5, <1>6
<1>8. EndOf[c][0] = 0 /\ EndOf[c][L] = Len(Stream[c])
  BY <1>3, <1>4, <1>5, <1>6 DEF LengthTo
<1>9. ASSUME NEW k \in 0 .. L PROVE EndOf[c][k] \in Nat
  BY <1>4, <1>5 DEF LengthTo
<1>10. ASSUME NEW k \in 1 .. L
       PROVE  /\ EndOf[c][k] = EndOf[c][k - 1] + Len(CommandTokens(Commands[c][k]))
              /\ EndOf[c][k] <= Len(Stream[c])
              /\ \A j \in 1 .. Len(CommandTokens(Commands[c][k])) :
                   Stream[c][EndOf[c][k - 1] + j] = CommandTokens(Commands[c][k])[j]
  <2>1. k \in 1 .. Len(seqs) /\ k \in 0 .. L /\ k - 1 \in 0 .. L
    BY <1>1, <1>2
  <2>2. /\ LengthTo(seqs, k) = LengthTo(seqs, k - 1) + Len(seqs[k])
        /\ LengthTo(seqs, k) <= Len(FlattenSeq(seqs))
        /\ \A j \in 1 .. Len(seqs[k]) :
             FlattenSeq(seqs)[LengthTo(seqs, k - 1) + j] = seqs[k][j]
    BY <2>1, <1>1, FlattenPlaces
  <2>3. QED
    BY <2>1, <2>2, <1>1, <1>3, <1>4
<1>11. ASSUME NEW k \in 0 .. L PROVE EndOf[c][k] <= Len(Stream[c])
  <2>1. k = 0 \/ k \in 1 .. L
    BY <1>2
  <2>2. QED
    BY <2>1, <1>7, <1>8, <1>10
<1>12. QED
  BY <1>4, <1>7, <1>8, <1>9, <1>10, <1>11 DEF L

\* What the reader meets at the start of a command and of an argument.
LEMMA StreamPlaces ==
  ASSUME NEW c \in Clients, NEW k \in 1 .. Len(Commands[c])
  PROVE  LET sent == Commands[c][k].args
         IN /\ EndOf[c][k - 1] \in Nat /\ EndOf[c][k - 1] < EndOf[c][k]
            /\ EndOf[c][k] <= Len(Stream[c]) /\ EndOf[c][k] \in Nat
            /\ Stream[c][EndOf[c][k - 1] + 1] = Token("array", Len(sent))
            /\ ArgStart(c, k, 0) = EndOf[c][k - 1] + 1
            /\ ArgStart(c, k, Len(sent)) = EndOf[c][k]
            /\ \A i \in 0 .. Len(sent) : ArgStart(c, k, i) \in Nat
            /\ \A i \in 0 .. Len(sent) - 1 :
                 /\ ArgStart(c, k, i + 1) = ArgStart(c, k, i) + ArgLength(sent[i + 1])
                 /\ ArgStart(c, k, i + 1) <= EndOf[c][k]
                 /\ sent[i + 1] = 0 => Stream[c][ArgStart(c, k, i) + 1] = Token("bulk", 0)
                 /\ sent[i + 1] # 0 =>
                      /\ Stream[c][ArgStart(c, k, i) + 1] = Token("dollar", sent[i + 1])
                      /\ \A j \in 2 .. sent[i + 1] + 3 :
                           Stream[c][ArgStart(c, k, i) + j].kind \in {"byte", "cr", "lf"}
<1> DEFINE cmd == Commands[c][k]
           sent == cmd.args
           n == Len(sent)
           E(i) == EndOf[c][i]
           A(i) == ArgStart(c, k, i)
           P(i) == ArgPlace(cmd, i)
           T == CommandTokens(cmd)
<1>1. cmd \in CommandType /\ n \in Nat /\ sent \in Seq(Nat) /\ Len(Commands[c]) \in Nat
  BY CommandsTypes
<1>2. /\ T \in Seq(TokenType) /\ Len(T) = 1 + P(n) /\ T[1] = Token("array", n)
      /\ P(0) = 0
      /\ \A i \in 0 .. n : P(i) \in Nat /\ P(i) <= P(n)
      /\ \A i \in 1 .. n :
           /\ P(i) = P(i - 1) + ArgLength(sent[i])
           /\ \A j \in 1 .. ArgLength(sent[i]) : T[1 + P(i - 1) + j] = ArgTokens(sent[i])[j]
  BY <1>1, CommandTokensFacts
<1>3. /\ E(k) = E(k - 1) + Len(T) /\ E(k - 1) \in Nat /\ E(k) \in Nat /\ E(k) <= Len(Stream[c])
      /\ \A j \in 1 .. Len(T) : Stream[c][E(k - 1) + j] = T[j]
  <2>1. k - 1 \in 0 .. Len(Commands[c]) /\ k \in 0 .. Len(Commands[c])
    BY <1>1
  <2>2. QED
    BY <2>1, StreamCommands
<1>4. \A i : A(i) = E(k - 1) + 1 + P(i)
  BY DEF ArgStart
<1>5. \A i \in 1 .. n : sent[i] \in Nat
  BY <1>1
<1> HIDE DEF cmd, sent, n, E, A, P, T
<1>6. P(n) \in Nat /\ n \in 0 .. n /\ 0 \in 0 .. n
  BY <1>1, <1>2
<1>7. E(k - 1) < E(k) /\ Stream[c][E(k - 1) + 1] = Token("array", n)
  <2>1. 1 \in 1 .. Len(T)
    BY <1>2, <1>6
  <2>2. QED
    BY <2>1, <1>2, <1>3, <1>6
<1>8. A(0) = E(k - 1) + 1 /\ A(n) = E(k) /\ \A i \in 0 .. n : A(i) \in Nat
  BY SMTT(30), <1>2, <1>3, <1>4, <1>6
<1>9. ASSUME NEW i \in 0 .. n - 1
      PROVE  /\ A(i + 1) = A(i) + ArgLength(sent[i + 1])
             /\ A(i + 1) <= E(k)
             /\ \A j \in 1 .. ArgLength(sent[i + 1]) :
                  Stream[c][A(i) + j] = ArgTokens(sent[i + 1])[j]
  <2>1. i \in 0 .. n /\ i + 1 \in 1 .. n /\ i + 1 \in 0 .. n /\ (i + 1) - 1 = i
    BY <1>1
  <2>2. sent[i + 1] \in Nat /\ ArgLength(sent[i + 1]) \in Nat
    BY <2>1, <1>5 DEF ArgLength
  <2>3. P(i) \in Nat /\ P(i + 1) \in Nat /\ P(i + 1) <= P(n)
    BY <1>2, <2>1
  <2>4. P(i + 1) = P(i) + ArgLength(sent[i + 1])
    BY <1>2, <2>1
  <2>5. A(i + 1) = A(i) + ArgLength(sent[i + 1]) /\ A(i + 1) <= E(k)
    <3>1. A(i + 1) = E(k - 1) + 1 + P(i + 1) /\ A(i) = E(k - 1) + 1 + P(i)
      BY <1>4
    <3>2. E(k) = E(k - 1) + (1 + P(n))
      BY <1>2, <1>3
    <3> DEFINE b == ArgLength(sent[i + 1])
    <3>3. b \in Nat /\ P(i + 1) = P(i) + b
      BY <2>2, <2>4
    <3> HIDE DEF b
    <3>4. A(i + 1) = A(i) + b
      BY <3>1, <3>3, <1>3, <2>3
    <3>5. A(i + 1) <= E(k)
      BY <3>1, <3>2, <1>3, <1>6, <2>3
    <3>6. QED
      BY <3>4, <3>5 DEF b
  <2>6. ASSUME NEW j \in 1 .. ArgLength(sent[i + 1])
        PROVE  Stream[c][A(i) + j] = ArgTokens(sent[i + 1])[j]
    <3>1. T[1 + P(i) + j] = ArgTokens(sent[i + 1])[j]
      BY <1>2, <2>1
    <3>2. 1 + P(i) + j \in 1 .. Len(T)
      BY SMTT(30), <1>2, <1>6, <2>2, <2>3, <2>4
    <3>3. Stream[c][E(k - 1) + (1 + P(i) + j)] = T[1 + P(i) + j]
      BY <1>3, <3>2
    <3>4. E(k - 1) + (1 + P(i) + j) = A(i) + j
      BY <1>3, <1>4, <2>2, <2>3
    <3>5. QED
      BY <3>1, <3>3, <3>4
  <2>7. QED
    BY <2>5, <2>6
<1>10. ASSUME NEW i \in 0 .. n - 1
       PROVE  /\ sent[i + 1] = 0 => Stream[c][A(i) + 1] = Token("bulk", 0)
              /\ sent[i + 1] # 0 =>
                   /\ Stream[c][A(i) + 1] = Token("dollar", sent[i + 1])
                   /\ \A j \in 2 .. sent[i + 1] + 3 :
                        Stream[c][A(i) + j].kind \in {"byte", "cr", "lf"}
  <2>1. i + 1 \in 1 .. n
    BY <1>1
  <2> DEFINE a == sent[i + 1]
  <2>2. a \in Nat
    BY <2>1, <1>5
  <2>3. \A j \in 1 .. ArgLength(a) : Stream[c][A(i) + j] = ArgTokens(a)[j]
    BY <1>9
  <2> HIDE DEF a
  <2>4. 1 \in 1 .. ArgLength(a) /\ (a # 0 => \A j \in 2 .. a + 3 : j \in 1 .. ArgLength(a))
    BY <2>2 DEF ArgLength
  <2>5. /\ a = 0 => Stream[c][A(i) + 1] = Token("bulk", 0)
        /\ a # 0 => /\ Stream[c][A(i) + 1] = Token("dollar", a)
                    /\ \A j \in 2 .. a + 3 : Stream[c][A(i) + j].kind \in {"byte", "cr", "lf"}
    BY <2>2, <2>3, <2>4, ArgTokensFacts
  <2>6. QED
    BY <2>5 DEF a
<1>11. QED
  BY <1>3, <1>7, <1>8, <1>9, <1>10 DEF cmd, sent, n, E, A

-----------------------------------------------------------------------------
(* Where the reader is in what a client sent.                              *)

\* Whether the last command parsed from c, if any, has all its arguments.
Finished(c) == done[c] # <<>> => AllWhole(done[c][Len(done[c])].args)
\* The arguments of the command after those parsed, and where they start.
Behindhand(c) == Len(done[c]) < Len(Commands[c])
Sent(c) == Commands[c][Len(done[c]) + 1].args
Starts(c, i) == ArgStart(c, Len(done[c]) + 1, i)
Ending(c) == EndOf[c][Len(done[c]) + 1]
EmptyNext(c) == Behindhand(c) /\ Sent(c) = <<>>

\* A connection no command is being parsed from: an argument of it was cut, or nothing
\* will come from it, or the next token starts a command (but an empty array closes it).
Dead(c) == peer[c] # "open" /\ Unread(c) = 0
Clean(c) ==
    /\ Finished(c) /\ Len(done[c]) <= Len(Commands[c])
    /\ rd[c] = EndOf[c][Len(done[c])] \/ (conn[c] = "closed" /\ EmptyNext(c))
Idle(c) == c \in astray \/ Dead(c) \/ Clean(c)

\* The place of a stage of an argument that starts after p.
AtStage(p) ==
    /\ loop.stage = "bulk" => rd[Fd] = p
    /\ loop.stage = "content" => rd[Fd] = p + 1
    /\ loop.stage = "cr" => rd[Fd] = p + 1 + loop.size
    /\ loop.stage = "lf" => rd[Fd] = p + 2 + loop.size
\* The arguments so far are whole; or some are missing, and no more will come.
ReadsWhole == AllWhole(loop.args) /\ AtStage(Starts(Fd, Len(loop.args)))
ReadsNothing ==
    loop.stage = "bulk" /\ "broken" \notin ToSet(loop.args) /\ Dead(Fd) /\ wr[Fd] < Ending(Fd)
\* The argument after those so far, in pieces.
InPieces ==
    /\ loop.left > 0 /\ AllWhole(loop.args)
    /\ loop.size = Sent(Fd)[Len(loop.args) + 1] /\ loop.size > 0
    /\ loop.stage # "content" => loop.arg = "whole"
InCommand ==
    /\ Finished(Fd) /\ Behindhand(Fd)
    /\ Len(loop.args) + loop.left = Len(Sent(Fd))
    /\ loop.stage # "bulk" => InPieces
    /\ ReadsWhole \/ ReadsNothing
\* An array parsed behind a cut is broken once it is complete.
Lost == loop.left > 0 \/ "broken" \in ToSet(loop.args)

Parsing == loop.pc = "reading" /\ loop.stage # "array"
Places ==
    /\ \A c \in Clients : Idle(c) \/ (Parsing /\ c = Fd)
    /\ Parsing => IF InStep THEN InCommand ELSE Lost

\* What select reported and why, while a scan or a WAIT is under way.
Worth(c) == c \in loop.robbed \/ Unread(c) > 0 \/ peer[c] # "open"
Watching ==
    /\ ServerFd \in loop.ready => Backlog # {}
    /\ PipeFd \in loop.ready => pipe
    /\ \A c \in loop.ready \cap Clients : conn[c] = "watched" /\ Worth(c)
    /\ \A r \in Replicas : conn[r] \in {"watched", "closed"}
Reader ==
    /\ loop.pc \in {"select", "scan"} => ~InWait
    /\ loop.pc = "waiting" => InWait
    /\ InWait => \A r \in loop.watch : conn[r] = "watched"
    /\ loop.pc = "reading" =>
         /\ Fd \in Clients /\ conn[Fd] = "watched"
         /\ ~InWait => /\ Fd \notin loop.ready
                       /\ loop.stage = "array" /\ InStep => Worth(Fd)
         /\ InWait => /\ Fd \in loop.robbed
                      /\ loop.stage = "array" /\ InStep => Unread(Fd) > 0 \/ AtError(Fd)
Left(c) == Unread(c) = 0 /\ peer[c] \in {"shut", "gone"}
ClosedWell ==
    \A c \in Clients : conn[c] = "closed" => c \in astray \/ Left(c) \/ EmptyNext(c)

LoopInv ==
    /\ TypeOK /\ ParsedAsSent /\ ClosedWell /\ EndHasACause
    /\ ~Ended => Watching /\ Reader /\ Places

LoopType ==
    [pc : {"select", "scan", "reading", "waiting"} \cup Ends,
     ready : SUBSET (Clients \cup {ServerFd, PipeFd}), robbed : SUBSET Replicas,
     signal : BOOLEAN, waiter : Clients \cup {Nobody}, watch : SUBSET Replicas,
     fd : Clients \cup {Nobody}, stage : Stages, left : Nat, args : Seq(ArgValues),
     arg : ArgValues, size : Nat]
DoneType == [Clients -> Seq([by : {"loop", "wait"}, args : Seq(ArgValues)])]

LEMMA Descriptors ==
  /\ Nobody \notin Clients /\ ServerFd \notin Clients /\ PipeFd \notin Clients
  /\ ServerFd # PipeFd /\ Replicas \subseteq Clients /\ Clients \subseteq Nat
<1>1. /\ ServerFd \in Nat /\ PipeFd \in Nat /\ ServerFd < PipeFd /\ Clients \subseteq Nat
      /\ \A c \in Clients : c \in Nat /\ PipeFd < c
  BY DescriptorsAssumption
<1>2. Nobody \notin Nat
  BY DEF Nobody
<1>3. Nobody \notin Clients
  BY <1>1, <1>2
<1>4. ServerFd \notin Clients /\ PipeFd \notin Clients /\ ServerFd # PipeFd
  BY <1>1
<1>5. QED
  BY <1>1, <1>3, <1>4, SubsetsAssumption

LEMMA TypesOf ==
  TypeOK <=>
    /\ conn \in [Clients -> {"out", "backlog", "watched", "closed"}]
    /\ peer \in [Clients -> Peers]
    /\ wr \in [Clients -> Nat] /\ rd \in [Clients -> Nat]
    /\ \A c \in Clients : rd[c] <= wr[c] /\ wr[c] <= Len(Stream[c])
    /\ pipe \in BOOLEAN /\ loop \in LoopType /\ done \in DoneType /\ waits \in Nat
    /\ astray \subseteq Clients
BY DEF TypeOK, LoopType, DoneType

LEMMA ClientTypes ==
  ASSUME TypeOK, NEW c \in Clients
  PROVE  /\ conn[c] \in {"out", "backlog", "watched", "closed"}
         /\ peer[c] \in Peers
         /\ wr[c] \in Nat /\ rd[c] \in Nat /\ rd[c] <= wr[c] /\ wr[c] <= Len(Stream[c])
         /\ Unread(c) \in Nat
         /\ done[c] \in Seq([by : {"loop", "wait"}, args : Seq(ArgValues)])
         /\ Len(done[c]) \in Nat /\ Len(Stream[c]) \in Nat
<1>1. wr[c] \in Nat /\ rd[c] \in Nat /\ rd[c] <= wr[c] /\ wr[c] <= Len(Stream[c])
  BY TypesOf
<1>2. Unread(c) \in Nat
  BY <1>1 DEF Unread
<1>3. done[c] \in Seq([by : {"loop", "wait"}, args : Seq(ArgValues)])
  BY TypesOf DEF DoneType
<1>4. Len(done[c]) \in Nat
  BY <1>3
<1>5. QED
  BY <1>1, <1>2, <1>3, <1>4, TypesOf, StreamCommands

-----------------------------------------------------------------------------
(* Steps that leave a connection as it is.                                 *)

\* What the other end of c does in a step: it may leave, and does not come back.
GoesOn(c) ==
    /\ peer[c] # "open" => peer'[c] # "open" /\ wr'[c] = wr[c]
    /\ peer[c] \in {"shut", "gone"} => peer'[c] \in {"shut", "gone"}
\* What happens to c while nothing is parsed from it.
Undisturbed(c) ==
    /\ done'[c] = done[c] /\ rd'[c] = rd[c] /\ (c \in astray' <=> c \in astray)
    /\ GoesOn(c)
    /\ conn[c] = "closed" => conn'[c] = "closed"

LEMMA IdleKept ==
  ASSUME NEW c \in Clients, Idle(c), Undisturbed(c)
  PROVE  Idle(c)'
<1>1. CASE c \in astray
  BY <1>1 DEF Undisturbed, Idle
<1>2. CASE Dead(c)
  BY <1>2 DEF Undisturbed, GoesOn, Dead, Unread, Idle
<1>3. CASE Clean(c)
  BY <1>3 DEF Undisturbed, Clean, Finished, EmptyNext, Behindhand, Sent, Idle
<1>4. QED
  BY <1>1, <1>2, <1>3 DEF Idle

LEMMA ClosedKept ==
  ASSUME NEW c \in Clients, Undisturbed(c), conn'[c] = "closed" => conn[c] = "closed",
         conn[c] = "closed" => c \in astray \/ Left(c) \/ EmptyNext(c)
  PROVE  conn'[c] = "closed" => (c \in astray \/ Left(c) \/ EmptyNext(c))'
<1>1. Left(c) => Left(c)'
  BY DEF Undisturbed, GoesOn, Left, Unread
<1>2. EmptyNext(c) => EmptyNext(c)'
  BY DEF Undisturbed, EmptyNext, Behindhand, Sent
<1>3. QED
  BY <1>1, <1>2 DEF Undisturbed

\* The arrays parsed stay as they are.
LEMMA ArraysKept ==
  ASSUME NEW c \in Clients, GoesOn(c), done'[c] = done[c], ParsedFrom(c)
  PROVE  /\ \A k : Whole(c, k) => Whole(c, k)'
         /\ \A k : Incomplete(c, k) => Incomplete(c, k)'
         /\ \A n \in DOMAIN Commands[c] : CutAt(c, n) => CutAt(c, n)'
<1>1. \A k : Whole(c, k) => Whole(c, k)'
  BY DEF Whole, SameLength
<1>2. \A k : Incomplete(c, k) => Incomplete(c, k)'
  BY DEF Incomplete, SameLength, GoesOn
<1>3. \A n \in DOMAIN Commands[c] : CutAt(c, n) => CutAt(c, n)'
  BY <1>1 DEF CutAt
<1>4. QED
  BY <1>1, <1>2, <1>3

LEMMA ParsedKept ==
  ASSUME NEW c \in Clients, GoesOn(c), done'[c] = done[c], c \in astray' <=> c \in astray,
         ParsedFrom(c)
  PROVE  ParsedFrom(c)'
BY ArraysKept DEF ParsedFrom

\* A step of the environment.
Environment ==
    /\ UNCHANGED <<loop, done, rd, astray>> /\ ~Ended
    /\ pipe => pipe'
    /\ \A c \in Clients :
         /\ Undisturbed(c)
         /\ conn'[c] = conn[c] \/ (conn[c] = "out" /\ conn'[c] = "backlog")
         /\ peer[c] = "reset" => peer'[c] = "reset"
         /\ wr'[c] \in Nat /\ wr[c] <= wr'[c]

LEMMA EnvironmentKeeps ==
  ASSUME LoopInv, TypeOK', Environment
  PROVE  LoopInv'
<1> USE DEF Environment
<1>1. UNCHANGED loop /\ ~Ended /\ Watching /\ Reader /\ Places /\ ~Ended'
  BY DEF LoopInv, Ended
<1>2. ParsedAsSent'
  <2>1. \A c \in Clients : ParsedFrom(c) /\ GoesOn(c) /\ done'[c] = done[c]
    BY DEF LoopInv, ParsedAsSent, Undisturbed
  <2>2. QED
    BY <2>1, ParsedKept DEF ParsedAsSent
<1>3. ClosedWell'
  <2>1. \A c \in Clients : Undisturbed(c) /\ (conn'[c] = "closed" => conn[c] = "closed")
    OBVIOUS
  <2>2. QED
    BY <2>1, ClosedKept DEF LoopInv, ClosedWell
<1>4. EndHasACause'
  BY <1>1 DEF Ended, Ends, EndHasACause
<1>5. \A c \in Clients : (Unread(c) > 0 => Unread(c)' > 0) /\ (Worth(c) => Worth(c)')
  <2> SUFFICES ASSUME NEW c \in Clients
               PROVE  (Unread(c) > 0 => Unread(c)' > 0) /\ (Worth(c) => Worth(c)')
    OBVIOUS
  <2>1. wr[c] \in Nat /\ rd[c] \in Nat /\ wr'[c] \in Nat /\ wr[c] <= wr'[c] /\ rd'[c] = rd[c]
    BY ClientTypes DEF LoopInv
  <2>2. Unread(c) > 0 => Unread(c)' > 0
    BY <2>1 DEF Unread
  <2>3. peer[c] # "open" => peer'[c] # "open"
    BY DEF Undisturbed, GoesOn
  <2>4. QED
    BY <2>2, <2>3 DEF Worth
<1>6. Watching'
  <2>1. ServerFd \in loop'.ready => Backlog' # {}
    BY <1>1 DEF Watching, Backlog
  <2>2. PipeFd \in loop'.ready => pipe'
    BY <1>1 DEF Watching
  <2>3. \A c \in loop'.ready \cap Clients : conn'[c] = "watched" /\ Worth(c)'
    BY <1>1, <1>5 DEF Watching
  <2>4. \A r \in Replicas : conn'[r] \in {"watched", "closed"}
    BY <1>1, Descriptors DEF Watching
  <2>5. QED
    BY <2>1, <2>2, <2>3, <2>4 DEF Watching
<1>7. Reader'
  <2>1. AtError(Fd) /\ Fd \in Clients => Unread(Fd)' > 0 \/ AtError(Fd)'
    BY <1>1 DEF AtError, Undisturbed, GoesOn, Unread, Fd
  <2>2. Fd' = Fd /\ InWait' = InWait /\ InStep' = InStep
    BY <1>1 DEF Fd, InWait, InStep
  <2>3. InWait' => \A r \in loop'.watch : conn'[r] = "watched"
    <3>1. loop.watch \in SUBSET Clients
      BY Descriptors, TypesOf DEF LoopInv, LoopType
    <3>2. QED
      BY <1>1, <2>2, <3>1 DEF Reader
  <2>4. QED
    BY <1>1, <1>5, <2>1, <2>2, <2>3 DEF Reader
<1>8. Places'
  <2>1. \A c \in Clients : Idle(c) => Idle(c)'
    BY IdleKept
  <2>2. ASSUME Parsing, InStep PROVE InCommand'
    <3>1. Fd \in Clients /\ InCommand
      BY <1>1, <2>2 DEF Reader, Parsing, Places
    <3>2. Undisturbed(Fd) /\ Fd' = Fd /\ loop' = loop
      BY <1>1, <3>1 DEF Fd
    <3>3. Finished(Fd)' /\ Behindhand(Fd)' /\ Sent(Fd)' = Sent(Fd) /\ Ending(Fd)' = Ending(Fd)
      BY <3>1, <3>2 DEF InCommand, Finished, Behindhand, Sent, Ending, Undisturbed
    <3>4. ReadsWhole => ReadsWhole'
      BY <3>2 DEF ReadsWhole, AtStage, Starts, Undisturbed
    <3>5. ReadsNothing => ReadsNothing'
      BY <3>2, <3>3 DEF ReadsNothing, Dead, Unread, Undisturbed, GoesOn
    <3>6. InPieces => InPieces'
      BY <3>2, <3>3 DEF InPieces
    <3>7. QED
      BY <3>1, <3>2, <3>3, <3>4, <3>5, <3>6 DEF InCommand
  <2>3. Parsing' = Parsing /\ Fd' = Fd /\ InStep' = InStep /\ Lost' = Lost
    BY <1>1 DEF Parsing, Fd, InStep, Lost
  <2>4. QED
    BY <1>1, <2>1, <2>2, <2>3 DEF Places
<1>9. QED
  BY <1>2, <1>3, <1>4, <1>6, <1>7, <1>8 DEF LoopInv

LEMMA LeastOf ==
  ASSUME NEW S \in SUBSET Nat, S # {}
  PROVE  Min(S) \in S /\ \A n \in S : Min(S) <= n
<1>1. \E m \in S : \A n \in S : m <= n
  BY LeastNumber
<1>2. QED
  BY <1>1 DEF Min

LEMMA ConnectKeeps ==
  ASSUME LoopInv, NEW c \in Clients, Connect(c)
  PROVE  LoopInv'
<1>1. TypeOK
  BY DEF LoopInv
<1>2. conn' = [conn EXCEPT ![c] = "backlog"] /\ conn[c] = "out" /\ ~Ended
      /\ UNCHANGED <<peer, wr, rd, pipe, loop, done, waits, astray>>
  BY DEF Connect
<1>3. TypeOK'
  BY <1>1, <1>2 DEF TypeOK
<1>4. \A d \in Clients : conn'[d] = IF d = c THEN "backlog" ELSE conn[d]
  BY <1>1, <1>2, TypesOf
<1>5. ASSUME NEW d \in Clients
      PROVE  /\ Undisturbed(d)
             /\ conn'[d] = conn[d] \/ (conn[d] = "out" /\ conn'[d] = "backlog")
             /\ peer'[d] = peer[d] /\ wr'[d] \in Nat /\ wr[d] <= wr'[d]
  <2>1. wr[d] \in Nat
    BY <1>1, ClientTypes
  <2>2. QED
    BY <2>1, <1>2, <1>4 DEF Undisturbed, GoesOn
<1>6. Environment
  BY <1>2, <1>5 DEF Environment
<1>7. QED
  BY <1>3, <1>6, EnvironmentKeeps

LEMMA SendKeeps ==
  ASSUME LoopInv, NEW c \in Clients, Send(c)
  PROVE  LoopInv'
<1>1. TypeOK
  BY DEF LoopInv
<1> DEFINE after == {n \in Range(EndOf[c]) : n > wr[c]}
           n == IF c \in Slow THEN wr[c] + 1 ELSE Min(after)
<1>2. /\ peer[c] = "open" /\ wr[c] < Len(Stream[c]) /\ ~Ended
      /\ UNCHANGED <<conn, peer, rd, pipe, loop, done, waits, astray>>
  BY DEF Send
<1>3. wr' = [wr EXCEPT ![c] = n]
  BY DEF Send
<1>4. wr[c] \in Nat /\ rd[c] \in Nat /\ rd[c] <= wr[c] /\ Len(Stream[c]) \in Nat
  BY <1>1, ClientTypes
<1>5. n \in Nat /\ wr[c] < n /\ n <= Len(Stream[c])
  <2>1. CASE c \in Slow
    BY <2>1, <1>2, <1>4
  <2>2. CASE c \notin Slow
    <3>1. /\ EndOf[c][Len(Commands[c])] = Len(Stream[c])
          /\ DOMAIN EndOf[c] = 0 .. Len(Commands[c])
          /\ \A k \in 0 .. Len(Commands[c]) : EndOf[c][k] \in Nat
      BY StreamCommands
    <3>2. Len(Commands[c]) \in Nat
      BY CommandsTypes
    <3>3. Len(Stream[c]) \in after
      BY <3>1, <3>2, <1>2, <1>4 DEF Range
    <3>4. after \in SUBSET Nat
      BY <3>1 DEF Range
    <3>5. Min(after) \in after /\ \A m \in after : Min(after) <= m
      BY <3>3, <3>4, LeastOf
    <3> HIDE DEF after
    <3>6. Min(after) \in Nat /\ Min(after) <= Len(Stream[c]) /\ Min(after) > wr[c]
      BY <3>3, <3>4, <3>5 DEF after
    <3>7. QED
      BY <2>2, <3>6
  <2>3. QED
    BY <2>1, <2>2
<1> HIDE DEF n
<1>6. /\ wr' \in [Clients -> Nat]
      /\ \A d \in Clients : wr'[d] = IF d = c THEN n ELSE wr[d]
  BY <1>1, <1>3, <1>5, TypesOf
<1>7. ASSUME NEW d \in Clients
      PROVE  rd'[d] <= wr'[d] /\ wr'[d] <= Len(Stream[d]) /\ wr'[d] \in Nat /\ wr[d] <= wr'[d]
  <2>1. wr[d] \in Nat /\ rd[d] \in Nat /\ rd[d] <= wr[d] /\ wr[d] <= Len(Stream[d]) /\ rd'[d] = rd[d]
    BY <1>1, <1>2, ClientTypes
  <2>2. CASE d = c
    BY <2>1, <2>2, <1>4, <1>5, <1>6
  <2>3. CASE d # c
    BY <2>1, <2>3, <1>6
  <2>4. QED
    BY <2>2, <2>3
<1>8. TypeOK'
  BY <1>1, <1>2, <1>6, <1>7 DEF TypeOK
<1>9. Environment
  BY <1>2, <1>6, <1>7 DEF Environment, Undisturbed, GoesOn
<1>10. QED
  BY <1>8, <1>9, EnvironmentKeeps

LEMMA LeaveKeeps ==
  ASSUME LoopInv, NEW c \in Clients, NEW how \in {"shut", "reset"}, Leave(c, how)
  PROVE  LoopInv'
<1>1. TypeOK
  BY DEF LoopInv
<1>2. /\ peer' = [peer EXCEPT ![c] = how] /\ peer[c] = "open" /\ ~Ended
      /\ UNCHANGED <<conn, wr, rd, pipe, loop, done, waits, astray>>
  BY DEF Leave
<1>3. TypeOK'
  BY <1>1, <1>2 DEF TypeOK, Peers
<1>4. \A d \in Clients : peer'[d] = IF d = c THEN how ELSE peer[d]
  BY <1>1, <1>2, TypesOf
<1>5. ASSUME NEW d \in Clients
      PROVE  /\ Undisturbed(d) /\ wr'[d] \in Nat /\ wr[d] <= wr'[d]
             /\ peer[d] = "reset" => peer'[d] = "reset"
  <2>1. wr[d] \in Nat
    BY <1>1, ClientTypes
  <2>2. QED
    BY <2>1, <1>2, <1>4 DEF Undisturbed, GoesOn
<1>6. Environment
  BY <1>2, <1>5 DEF Environment
<1>7. QED
  BY <1>3, <1>6, EnvironmentKeeps

LEMMA SignalKeeps ==
  ASSUME LoopInv, Signal
  PROVE  LoopInv'
<1>1. TypeOK
  BY DEF LoopInv
<1>2. pipe' = TRUE /\ ~Ended /\ UNCHANGED <<conn, peer, wr, rd, loop, done, waits, astray>>
  BY DEF Signal
<1>3. TypeOK'
  BY <1>1, <1>2 DEF TypeOK
<1>4. \A d \in Clients :
         Undisturbed(d) /\ peer'[d] = peer[d] /\ wr'[d] \in Nat /\ wr[d] <= wr'[d]
  <2>1. \A d \in Clients : wr[d] \in Nat
    BY <1>1, ClientTypes
  <2>2. QED
    BY <2>1, <1>2 DEF Undisturbed, GoesOn
<1>5. Environment
  BY <1>2, <1>4 DEF Environment
<1>6. QED
  BY <1>3, <1>5, EnvironmentKeeps

LEMMA StutterKeeps ==
  ASSUME LoopInv, UNCHANGED vars
  PROVE  LoopInv'
<1> USE DEF vars
<1>1. TypeOK'
  BY DEF LoopInv, TypeOK
<1>2. CASE ~Ended
  <2>1. \A d \in Clients :
           Undisturbed(d) /\ peer'[d] = peer[d] /\ wr'[d] \in Nat /\ wr[d] <= wr'[d]
    <3>1. \A d \in Clients : wr[d] \in Nat
      BY ClientTypes DEF LoopInv
    <3>2. QED
      BY <3>1 DEF Undisturbed, GoesOn
  <2>2. Environment
    BY <1>2, <2>1 DEF Environment
  <2>3. QED
    BY <1>1, <2>2, EnvironmentKeeps
<1>3. CASE Ended
  <2>1. ParsedAsSent'
    BY DEF LoopInv, ParsedAsSent, ParsedFrom, CutAt, Whole, Incomplete, SameLength
  <2>2. ClosedWell'
    BY DEF LoopInv, ClosedWell, Left, Unread, EmptyNext, Behindhand, Sent
  <2>3. EndHasACause'
    BY DEF LoopInv, EndHasACause, Args
  <2>4. QED
    BY <1>1, <1>3, <2>1, <2>2, <2>3 DEF LoopInv, Ended
<1>4. QED
  BY <1>2, <1>3

-----------------------------------------------------------------------------
(* Steps of the loop that read nothing.                                    *)

LEMMA StartType == StartLoop \in LoopType
BY EmptyFromSet DEF StartLoop, LoopType, Stages, ArgValues

LEMMA RescanType ==
  ASSUME loop \in LoopType
  PROVE  Rescan(loop) \in LoopType
BY StartType DEF Rescan, StartLoop, LoopType

LEMMA RescanFields ==
  /\ Rescan(loop).pc = "scan" /\ Rescan(loop).ready = loop.ready
  /\ Rescan(loop).robbed = loop.robbed /\ Rescan(loop).waiter = Nobody
BY DEF Rescan, StartLoop

\* A step that reads from no connection and parses nothing.
NoRead ==
    /\ UNCHANGED <<wr, rd, done, astray>> /\ ~Ended
    /\ ~Parsing /\ ~Parsing'
    /\ \A c \in Clients : GoesOn(c) /\ (conn'[c] = "closed" <=> conn[c] = "closed")

LEMMA NoReadKeeps ==
  ASSUME LoopInv, NoRead, TypeOK', EndHasACause', ~Ended' => Watching' /\ Reader'
  PROVE  LoopInv'
<1> USE DEF NoRead
<1>1. \A c \in Clients : Undisturbed(c)
  BY DEF Undisturbed
<1>2. ParsedAsSent'
  <2>1. \A c \in Clients : ParsedFrom(c) /\ GoesOn(c) /\ done'[c] = done[c]
    BY DEF LoopInv, ParsedAsSent
  <2>2. QED
    BY <2>1, ParsedKept DEF ParsedAsSent
<1>3. ClosedWell'
  BY <1>1, ClosedKept DEF LoopInv, ClosedWell
<1>4. Places'
  <2>1. \A c \in Clients : Idle(c)
    BY DEF LoopInv, Places
  <2>2. \A c \in Clients : Idle(c)'
    BY <1>1, <2>1, IdleKept
  <2>3. QED
    BY <2>2 DEF Places
<1>5. QED
  BY <1>2, <1>3, <1>4 DEF LoopInv

\* Nobody's other end changes in a step that writes to nobody.
LEMMA AllGoOn ==
  ASSUME UNCHANGED <<peer, wr>>
  PROVE  \A c : GoesOn(c)
BY DEF GoesOn

\* A write changes the other ends of those written to, none of which is open then.
LEMMA WritesGoOn ==
  ASSUME TypeOK, NEW cs, Written(cs), UNCHANGED wr
  PROVE  peer' \in [Clients -> Peers] /\ \A c \in Clients : GoesOn(c)
<1>1. peer' \in [Clients -> Peers]
      /\ \A c \in Clients : peer'[c] \in IF c \in cs THEN AfterWrite(peer[c]) ELSE {peer[c]}
  BY DEF Written
<1>2. ASSUME NEW c \in Clients PROVE GoesOn(c)
  BY <1>1 DEF GoesOn, AfterWrite
<1>3. QED
  BY <1>1, <1>2

\* Among others, that the loop has not ended.
LEMMA Loops ==
  ASSUME LoopInv, loop.pc \in {"select", "scan", "reading", "waiting"}
  PROVE  TypeOK /\ loop \in LoopType /\ ~Ended /\ Watching /\ Reader /\ Places
<1>1. ~Ended
  BY DEF Ended, Ends
<1>2. QED
  BY <1>1, TypesOf DEF LoopInv

LEMMA NotEnded ==
  ASSUME loop'.pc \in {"select", "scan", "reading", "waiting"}
  PROVE  EndHasACause'
BY DEF EndHasACause

LEMMA SelectKeeps ==
  ASSUME LoopInv, Select
  PROVE  LoopInv'
<1>1. loop.pc = "select" /\ UNCHANGED <<conn, peer, wr, rd, pipe, done, waits, astray>>
      /\ loop' = [StartLoop EXCEPT !.pc = "scan", !.ready = ReadyFds, !.signal = pipe]
  BY DEF Select
<1>2. TypeOK /\ loop \in LoopType /\ ~Ended /\ Watching /\ Reader /\ Places
  BY <1>1, Loops
<1>3. ReadyFds \in SUBSET (Clients \cup {ServerFd, PipeFd}) /\ pipe \in BOOLEAN
  BY <1>2, TypesOf DEF ReadyFds, PipeReady
<1>4. loop' \in LoopType
  BY <1>1, <1>3, StartType DEF LoopType
<1>5. /\ loop'.pc = "scan" /\ loop'.ready = ReadyFds /\ loop'.waiter = Nobody
  BY <1>1 DEF StartLoop
<1>6. TypeOK'
  BY <1>1, <1>2, <1>4, TypesOf DEF TypeOK, LoopType
<1>7. NoRead
  BY <1>1, <1>2, <1>5, AllGoOn DEF NoRead, Parsing
<1>8. Watching'
  <2>1. ServerFd \in ReadyFds => Backlog # {}
    BY Descriptors DEF ReadyFds, PipeReady
  <2>2. PipeFd \in ReadyFds => pipe
    BY Descriptors DEF ReadyFds, PipeReady
  <2>3. \A c \in ReadyFds \cap Clients : Ready(c)
    BY Descriptors DEF ReadyFds, PipeReady
  <2>4. \A c \in ReadyFds \cap Clients : conn[c] = "watched" /\ (Unread(c) > 0 \/ peer[c] # "open")
    BY <2>3 DEF Ready
  <2>5. \A c : Unread(c)' = Unread(c)
    BY <1>1 DEF Unread
  <2>6. Backlog' = Backlog
    BY <1>1 DEF Backlog
  <2>7. QED
    BY <1>1, <1>2, <1>5, <2>1, <2>2, <2>4, <2>5, <2>6 DEF Watching, Worth
<1>9. Reader'
  BY <1>5 DEF Reader, InWait
<1>10. EndHasACause'
  BY <1>5, NotEnded
<1>11. QED
  BY <1>6, <1>7, <1>8, <1>9, <1>10, NoReadKeeps

LEMMA ScanEndKeeps ==
  ASSUME LoopInv, ScanEnd
  PROVE  LoopInv'
<1>1. loop.pc = "scan" /\ UNCHANGED <<conn, peer, wr, rd, pipe, done, waits, astray>> /\ loop' = StartLoop
  BY DEF ScanEnd
<1>2. TypeOK /\ loop \in LoopType /\ ~Ended /\ Watching /\ Reader /\ Places
  BY <1>1, Loops
<1>3. loop' \in LoopType /\ loop'.pc = "select" /\ loop'.ready = {} /\ loop'.waiter = Nobody
  BY <1>1, StartType DEF StartLoop
<1>4. TypeOK'
  BY <1>1, <1>2, <1>3, TypesOf DEF TypeOK, LoopType
<1>5. NoRead
  BY <1>1, <1>2, <1>3, AllGoOn DEF NoRead, Parsing
<1>6. Watching' /\ Reader'
  BY <1>1, <1>2, <1>3 DEF Watching, Reader, InWait
<1>7. EndHasACause'
  BY <1>3, NotEnded
<1>8. QED
  BY <1>4, <1>5, <1>6, <1>7, NoReadKeeps

\* While descriptors are scanned and the ready set does not grow.
LEMMA StillWatching ==
  ASSUME Watching, UNCHANGED <<conn, wr, rd, pipe>>, \A c \in Clients : GoesOn(c),
         loop'.ready \subseteq loop.ready, loop.robbed \subseteq loop'.robbed
  PROVE  Watching'
<1>1. \A c : Unread(c)' = Unread(c)
  BY DEF Unread
<1>2. Backlog' = Backlog
  BY DEF Backlog
<1>3. \A c \in Clients : Worth(c) => Worth(c)'
  BY <1>1 DEF Worth, GoesOn
<1>4. QED
  BY <1>1, <1>2, <1>3 DEF Watching

LEMMA AcceptKeeps ==
  ASSUME LoopInv, AcceptNewConnection
  PROVE  LoopInv'
<1> DEFINE b == Min(Backlog)
<1>1. /\ loop.pc = "scan" /\ loop.ready # {} /\ Scanned = ServerFd
      /\ UNCHANGED <<peer, wr, rd, pipe, done, waits, astray>>
      /\ conn' = [conn EXCEPT ![b] = "watched"]
      /\ loop' = [loop EXCEPT !.ready = @ \ {ServerFd}]
  BY DEF AcceptNewConnection, Watched
<1>2. TypeOK /\ loop \in LoopType /\ ~Ended /\ Watching /\ Reader /\ Places
  BY <1>1, Loops
<1>3. loop.ready \in SUBSET (Clients \cup {ServerFd, PipeFd})
  BY <1>2 DEF LoopType
<1>4. ServerFd \in loop.ready
  <2>1. loop.ready \in SUBSET Nat
    BY <1>3, DescriptorsAssumption
  <2>2. Scanned \in loop.ready
    BY <1>1, <2>1, LeastOf DEF Scanned
  <2>3. QED
    BY <1>1, <2>2
<1>5. b \in Clients /\ conn[b] = "backlog"
  <2>1. Backlog \in SUBSET Nat /\ Backlog # {}
    BY <1>2, <1>4, Descriptors DEF Watching, Backlog
  <2>2. b \in Backlog
    BY <2>1, LeastOf
  <2>3. QED
    BY <2>2 DEF Backlog
<1> HIDE DEF b
<1>6. \A c \in Clients : conn'[c] = IF c = b THEN "watched" ELSE conn[c]
  BY <1>1, <1>2, <1>5, TypesOf
<1>7. loop' \in LoopType /\ loop'.pc = "scan" /\ loop'.ready = loop.ready \ {ServerFd}
      /\ loop'.waiter = loop.waiter /\ loop'.robbed = loop.robbed
  <2>1. loop.ready \ {ServerFd} \in SUBSET (Clients \cup {ServerFd, PipeFd})
    BY <1>3
  <2>2. QED
    BY <1>1, <1>2, <2>1 DEF LoopType
<1>8. TypeOK'
  <2>1. conn' \in [Clients -> {"out", "backlog", "watched", "closed"}]
    BY <1>1, <1>2, TypesOf
  <2>2. QED
    BY <1>1, <1>2, <1>7, <2>1, TypesOf DEF TypeOK, LoopType
<1>9. NoRead
  BY <1>1, <1>2, <1>5, <1>6, <1>7, AllGoOn DEF NoRead, Parsing
<1>10. Watching'
  <2>1. \A c : Unread(c)' = Unread(c)
    BY <1>1 DEF Unread
  <2>2. \A c \in loop'.ready \cap Clients : conn'[c] = "watched" /\ Worth(c)'
    BY <1>1, <1>2, <1>6, <1>7, <2>1 DEF Watching, Worth
  <2>3. \A r \in Replicas : conn'[r] \in {"watched", "closed"}
    BY <1>2, <1>6, Descriptors DEF Watching
  <2>4. ServerFd \notin loop'.ready /\ (PipeFd \in loop'.ready => pipe')
    BY <1>1, <1>2, <1>7 DEF Watching
  <2>5. QED
    BY <2>2, <2>3, <2>4 DEF Watching
<1>11. Reader'
  BY <1>1, <1>2, <1>7 DEF Reader, InWait
<1>12. EndHasACause'
  BY <1>7, NotEnded
<1>13. QED
  BY <1>8, <1>9, <1>10, <1>11, <1>12, NoReadKeeps

LEMMA SeeSignalKeeps ==
  ASSUME LoopInv, SeeSignal
  PROVE  LoopInv'
<1>1. /\ loop.pc = "scan" /\ loop.ready # {} /\ Scanned = PipeFd
      /\ UNCHANGED <<conn, peer, wr, rd, pipe, done, waits, astray>>
      /\ loop' = [loop EXCEPT !.pc = "returned"]
  BY DEF SeeSignal
<1>2. TypeOK /\ loop \in LoopType /\ ~Ended /\ Watching /\ Reader /\ Places
  BY <1>1, Loops
<1>3. loop' \in LoopType /\ loop'.pc = "returned"
  BY <1>1, <1>2 DEF LoopType, Ends
<1>4. TypeOK'
  BY <1>1, <1>2, <1>3, TypesOf DEF TypeOK, LoopType
<1>5. NoRead
  BY <1>1, <1>2, <1>3, AllGoOn DEF NoRead, Parsing
<1>6. Ended'
  BY <1>3 DEF Ended, Ends
<1>7. pipe'
  <2>1. loop.ready \in SUBSET Nat
    BY <1>2, DescriptorsAssumption DEF LoopType
  <2>2. Scanned \in loop.ready
    BY <1>1, <2>1, LeastOf DEF Scanned
  <2>3. QED
    BY <1>1, <1>2, <2>2 DEF Watching
<1>8. EndHasACause'
  BY <1>3, <1>7 DEF EndHasACause
<1>9. QED
  BY <1>4, <1>5, <1>6, <1>8, NoReadKeeps

LEMMA HandleKeeps ==
  ASSUME LoopInv, HandleConnection
  PROVE  LoopInv'
<1>0. PICK c \in Clients : c = Scanned
  BY DEF HandleConnection
<1>1. /\ loop.pc = "scan" /\ loop.ready # {}
      /\ UNCHANGED <<conn, peer, wr, rd, pipe, done, waits, astray>>
      /\ loop' = [loop EXCEPT !.pc = "reading", !.fd = c, !.stage = "array",
                              !.ready = @ \ {c}]
  BY <1>0 DEF HandleConnection
<1>2. TypeOK /\ loop \in LoopType /\ ~Ended /\ Watching /\ Reader /\ Places
  BY <1>1, Loops
<1>3. c \in loop.ready
  <2>1. loop.ready \in SUBSET Nat
    BY <1>2, DescriptorsAssumption DEF LoopType
  <2>2. QED
    BY <1>0, <1>1, <2>1, LeastOf DEF Scanned
<1>4. /\ loop' \in LoopType /\ loop'.pc = "reading" /\ loop'.fd = c /\ loop'.stage = "array"
      /\ loop'.ready = loop.ready \ {c} /\ loop'.waiter = loop.waiter
      /\ loop'.robbed = loop.robbed
  <2>1. loop.ready \in SUBSET (Clients \cup {ServerFd, PipeFd})
    BY <1>2 DEF LoopType
  <2>2. QED
    BY <1>1, <1>2, <2>1 DEF LoopType, Stages
<1>5. TypeOK'
  BY <1>1, <1>2, <1>4, TypesOf DEF TypeOK, LoopType
<1>6. NoRead
  BY <1>1, <1>2, <1>4, AllGoOn DEF NoRead, Parsing
<1>7. Watching'
  BY <1>1, <1>2, <1>4, AllGoOn, StillWatching
<1>8. Reader'
  <2>1. conn[c] = "watched" /\ Worth(c) /\ ~InWait
    BY <1>0, <1>1, <1>2, <1>3 DEF Watching, Reader
  <2>2. Worth(c)' /\ ~InWait' /\ Fd' = c
    BY <1>1, <1>4, <2>1 DEF Worth, Unread, InWait, Fd
  <2>3. QED
    BY <1>1, <1>4, <2>1, <2>2 DEF Reader
<1>9. EndHasACause'
  BY <1>4, NotEnded
<1>10. QED
  BY <1>5, <1>6, <1>7, <1>8, <1>9, NoReadKeeps

LEMMA WaitReadsKeeps ==
  ASSUME LoopInv, NEW r \in Replicas, WaitReads(r)
  PROVE  LoopInv'
<1>1. /\ loop.pc = "waiting" /\ r \in loop.watch /\ (Unread(r) > 0 \/ AtError(r))
      /\ UNCHANGED <<conn, peer, wr, rd, pipe, done, waits, astray>>
      /\ loop' = [loop EXCEPT !.pc = "reading", !.fd = r, !.stage = "array",
                              !.robbed = @ \cup {r}]
  BY DEF WaitReads
<1>2. TypeOK /\ loop \in LoopType /\ ~Ended /\ Watching /\ Reader /\ Places
  BY <1>1, Loops
<1>3. r \in Clients
  BY Descriptors
<1>4. /\ loop' \in LoopType /\ loop'.pc = "reading" /\ loop'.fd = r /\ loop'.stage = "array"
      /\ loop'.ready = loop.ready /\ loop'.waiter = loop.waiter
      /\ loop'.robbed = loop.robbed \cup {r}
  <2>1. loop.robbed \in SUBSET Replicas
    BY <1>2 DEF LoopType
  <2>2. QED
    BY <1>1, <1>2, <1>3, <2>1 DEF LoopType, Stages
<1>5. TypeOK'
  BY <1>1, <1>2, <1>4, TypesOf DEF TypeOK, LoopType
<1>6. NoRead
  BY <1>1, <1>2, <1>4, AllGoOn DEF NoRead, Parsing
<1>7. Watching'
  BY <1>1, <1>2, <1>4, AllGoOn, StillWatching
<1>8. conn[r] = "watched"
  BY <1>1, <1>2 DEF Reader
<1>9. Reader'
  <2>1. InWait /\ InWait' /\ Fd' = r /\ loop'.watch = loop.watch
    BY <1>1, <1>2, <1>4 DEF Reader, InWait, Fd, LoopType
  <2>2. Unread(r)' > 0 \/ AtError(r)'
    BY <1>1 DEF AtError, Unread
  <2>3. QED
    BY <1>1, <1>2, <1>3, <1>4, <1>8, <2>1, <2>2 DEF Reader
<1>10. EndHasACause'
  BY <1>4, NotEnded
<1>11. QED
  BY <1>5, <1>6, <1>7, <1>9, <1>10, NoReadKeeps

\* How a write to the clients cs and to the replicas rs may end the loop.
LEMMA WriteEnds ==
  ASSUME TypeOK, NEW cs \in SUBSET Clients, NEW rs \in SUBSET Replicas, NEW l, WriteTo(cs, rs, l)
  PROVE  \/ /\ Fail("killed") /\ UNCHANGED peer
            /\ \E c \in Clients : peer[c] = "gone"
         \/ /\ Fail("thrown") /\ UNCHANGED peer
            /\ \/ \E c \in Clients : peer[c] \in {"reset", "gone"}
               \/ \E r \in Replicas : conn[r] = "closed"
         \/ /\ Written(cs \cup rs) /\ loop' = l
            /\ \A r \in rs : conn[r] # "closed"
<1>1. Replicas \subseteq Clients
  BY Descriptors
<1>2. CASE (\E c \in cs \cup rs : Fatal(c)) /\ Fail("killed") /\ UNCHANGED peer
  BY <1>1, <1>2 DEF Fatal
<1>3. CASE (\E c \in rs : c \in Refusing) /\ Fail("thrown") /\ UNCHANGED peer
  <2>1. PICK r \in rs : Refuses(r)
    BY <1>3 DEF Refusing
  <2>2. r \in Clients /\ r \in Replicas
    BY <1>1
  <2>3. QED
    BY <1>3, <2>1, <2>2 DEF Refuses
<1>4. CASE rs \cap Refusing = {} /\ Written(cs \cup rs) /\ loop' = l
  BY <1>4 DEF Refusing, Refuses
<1>5. QED
  BY <1>2, <1>3, <1>4 DEF WriteTo

LEMMA WaitTimeoutKeeps ==
  ASSUME LoopInv, WaitTimeout
  PROVE  LoopInv'
<1>1. /\ loop.pc = "waiting" /\ UNCHANGED <<conn, wr, rd, pipe, done, waits, astray>>
      /\ WriteTo({loop.waiter}, {}, Rescan(loop))
  BY DEF WaitTimeout
<1>2. TypeOK /\ loop \in LoopType /\ ~Ended /\ Watching /\ Reader /\ Places
  BY <1>1, Loops
<1>3. loop.waiter \in Clients
  BY <1>1, <1>2 DEF Reader, InWait, LoopType
<1>4. CASE UNCHANGED peer /\ \/ Fail("killed") /\ \E c \in Clients : peer[c] = "gone"
                             \/ /\ Fail("thrown")
                                /\ \/ \E c \in Clients : peer[c] \in {"reset", "gone"}
                                   \/ \E r \in Replicas : conn[r] = "closed"
  <2>1. loop' \in LoopType /\ loop'.pc \in {"killed", "thrown"}
    BY <1>2, <1>4 DEF Fail, LoopType, Ends
  <2>2. TypeOK'
    BY <1>1, <1>2, <1>4, <2>1, TypesOf DEF TypeOK, LoopType
  <2>3. NoRead
    BY <1>1, <1>2, <1>4, <2>1, AllGoOn DEF NoRead, Parsing
  <2>4. EndHasACause'
    BY <1>1, <1>2, <1>4, <2>1 DEF EndHasACause, Fail, LoopType
  <2>5. Ended'
    BY <2>1 DEF Ended, Ends
  <2>6. QED
    BY <2>2, <2>3, <2>4, <2>5, NoReadKeeps
<1>5. CASE Written({loop.waiter} \cup {}) /\ loop' = Rescan(loop)
  <2>1. loop' \in LoopType
    BY <1>2, <1>5, RescanType
  <2>2. /\ loop'.pc = "scan" /\ loop'.ready = loop.ready /\ loop'.robbed = loop.robbed
        /\ loop'.waiter = Nobody
    BY <1>5, RescanFields
  <2>3. peer' \in [Clients -> Peers] /\ \A c \in Clients : GoesOn(c)
    BY <1>1, <1>2, <1>5, WritesGoOn
  <2>4. TypeOK'
    BY <1>1, <1>2, <2>1, <2>3, TypesOf DEF TypeOK, LoopType
  <2>5. NoRead
    BY <1>1, <1>2, <2>2, <2>3 DEF NoRead, Parsing
  <2>6. Watching'
    BY <1>1, <1>2, <2>2, <2>3, StillWatching
  <2>7. Reader'
    BY <2>2 DEF Reader, InWait
  <2>8. EndHasACause'
    BY <2>2, NotEnded
  <2>9. QED
    BY <2>4, <2>5, <2>6, <2>7, <2>8, NoReadKeeps
<1>6. QED
  BY <1>1, <1>2, <1>3, <1>4, <1>5, WriteEnds

-----------------------------------------------------------------------------
(* Steps of the reader.                                                    *)

LEMMA ArgsAppended ==
  ASSUME NEW args \in Seq(ArgValues), NEW a \in ArgValues
  PROVE  /\ Append(args, a) \in Seq(ArgValues) /\ Len(Append(args, a)) = Len(args) + 1
         /\ Len(args) \in Nat
         /\ ToSet(Append(args, a)) = ToSet(args) \cup {a}
         /\ AllWhole(Append(args, a)) <=> (AllWhole(args) /\ a = "whole")
<1>1. ToSet(Append(args, a)) = ToSet(args) \cup {a}
  BY ToSetAppend
<1>2. AllWhole(Append(args, a)) <=> (AllWhole(args) /\ a = "whole")
  BY <1>1 DEF AllWhole
<1>3. QED
  BY <1>1, <1>2

\* A step of the reader of c: the other connections stay as they are, but for writes.
ReaderStep(c) ==
    /\ loop.pc = "reading" /\ Fd = c /\ UNCHANGED <<wr, pipe>>
    /\ \A d \in Clients : GoesOn(d)
    /\ \A d \in Clients \ {c} : /\ rd'[d] = rd[d] /\ done'[d] = done[d] /\ conn'[d] = conn[d]
                                /\ d \in astray' <=> d \in astray
    /\ conn'[c] \in {conn[c], "closed"}
    /\ \/ loop'.pc \in Ends /\ conn'[c] = conn[c]
       \/ /\ loop'.ready = loop.ready /\ loop'.robbed = loop.robbed
          /\ \/ /\ loop'.pc = "reading" /\ loop'.fd = c /\ (loop'.stage # "array" \/ c \in astray')
                /\ loop'.waiter = loop.waiter /\ loop'.watch = loop.watch /\ conn'[c] = conn[c]
             \/ /\ loop'.pc = "waiting" /\ loop'.waiter # Nobody /\ conn'[c] = conn[c]
                /\ \A r \in loop'.watch : conn[r] = "watched"
             \/ loop'.pc = "scan" /\ loop'.waiter = Nobody /\ ~InWait

LEMMA ReaderKeeps ==
  ASSUME LoopInv, NEW c \in Clients, ReaderStep(c), TypeOK', ParsedFrom(c)', EndHasACause',
         conn'[c] = "closed" => (c \in astray \/ Left(c) \/ EmptyNext(c))',
         Parsing' => IF InStep' THEN InCommand' ELSE Lost',
         Ended' \/ Parsing' \/ Idle(c)'
  PROVE  LoopInv'
<1> USE DEF ReaderStep
<1>1. TypeOK /\ loop \in LoopType /\ ~Ended /\ Watching /\ Reader /\ Places
  BY Loops
<1>2. conn[c] = "watched" /\ (~InWait => c \notin loop.ready) /\ (InWait => c \in loop.robbed)
  BY <1>1 DEF Reader
<1>3. \A d \in Clients \ {c} : Undisturbed(d) /\ Unread(d)' = Unread(d)
  BY DEF Undisturbed, Unread
<1>4. ClosedWell'
  BY <1>3, ClosedKept DEF LoopInv, ClosedWell
<1>5. ParsedAsSent'
  <2>1. ASSUME NEW d \in Clients \ {c} PROVE ParsedFrom(d)'
    <3>1. ParsedFrom(d) /\ GoesOn(d) /\ done'[d] = done[d] /\ (d \in astray' <=> d \in astray)
      BY DEF LoopInv, ParsedAsSent
    <3>2. QED
      BY <3>1, ParsedKept
  <2>2. QED
    BY <2>1 DEF ParsedAsSent
<1>6. ASSUME ~Ended' PROVE Places'
  <2>1. \A d \in Clients \ {c} : Idle(d)
    BY <1>1 DEF Places
  <2>2. \A d \in Clients \ {c} : Idle(d)'
    BY <1>3, <2>1, IdleKept
  <2>3. Parsing' => Fd' = c
    BY <1>6 DEF Parsing, Fd, Ended, Ends
  <2>4. QED
    BY <1>6, <2>2, <2>3 DEF Places
<1>7. ASSUME ~Ended' PROVE Watching'
  <2>1. loop'.ready = loop.ready /\ loop'.robbed = loop.robbed
    BY <1>7 DEF Ended
  <2>2. Backlog' = Backlog
    BY <1>2 DEF Backlog
  <2>3. ASSUME NEW d \in loop.ready \cap Clients PROVE conn'[d] = "watched" /\ Worth(d)'
    <3>1. conn[d] = "watched" /\ Worth(d)
      BY <1>1 DEF Watching
    <3>2. CASE d # c
      BY <1>3, <2>1, <3>1, <3>2 DEF Worth, GoesOn
    <3>3. CASE d = c
      <4>1. InWait /\ c \in loop.robbed
        BY <1>2, <3>3
      <4>2. conn'[c] = conn[c]
        BY <1>7, <4>1 DEF Ended
      <4>3. QED
        BY <2>1, <3>1, <3>3, <4>1, <4>2 DEF Worth
    <3>4. QED
      BY <3>2, <3>3
  <2>4. \A r \in Replicas : conn'[r] \in {"watched", "closed"}
    BY <1>1, Descriptors DEF Watching
  <2>5. (ServerFd \in loop.ready => Backlog # {}) /\ (PipeFd \in loop.ready => pipe)
    BY <1>1 DEF Watching
  <2>6. QED
    BY <2>1, <2>2, <2>3, <2>4, <2>5 DEF Watching
<1>8. ASSUME ~Ended' PROVE Reader'
  <2>1. CASE /\ loop'.pc = "reading" /\ loop'.fd = c /\ (loop'.stage # "array" \/ c \in astray')
             /\ loop'.waiter = loop.waiter /\ loop'.watch = loop.watch /\ conn'[c] = conn[c]
    <3>1. loop'.ready = loop.ready /\ loop'.robbed = loop.robbed
      BY <1>8, <2>1 DEF Ended
    <3>2. Fd' = c /\ InWait' = InWait /\ (loop'.stage = "array" => ~InStep')
      BY <2>1 DEF Fd, InWait, InStep
    <3>3. InWait => \A r \in loop.watch : conn'[r] = "watched"
      <4>1. loop.watch \in SUBSET Clients
        BY <1>1, Descriptors DEF LoopType
      <4>2. QED
        BY <1>1, <2>1, <4>1 DEF Reader
    <3>4. QED
      BY <1>2, <2>1, <3>1, <3>2, <3>3 DEF Reader
  <2>2. CASE /\ loop'.pc = "waiting" /\ loop'.waiter # Nobody /\ conn'[c] = conn[c]
             /\ \A r \in loop'.watch : conn[r] = "watched"
    <3>1. loop'.watch \in SUBSET Clients
      BY Descriptors, TypesOf DEF TypeOK
    <3>2. \A r \in loop'.watch : conn'[r] = "watched"
      BY <2>2, <3>1
    <3>3. QED
      BY <2>2, <3>2 DEF Reader, InWait
  <2>3. CASE loop'.pc = "scan" /\ loop'.waiter = Nobody
    BY <2>3 DEF Reader, InWait
  <2>4. QED
    BY <1>8, <2>1, <2>2, <2>3 DEF Ended
<1>9. QED
  BY <1>4, <1>5, <1>6, <1>7, <1>8 DEF LoopInv

\* The reader inside of a command: what it goes by.
LEMMA ReaderFacts ==
  ASSUME LoopInv, loop.pc = "reading", NEW c \in Clients, Fd = c
  PROVE  /\ TypeOK /\ loop \in LoopType /\ ~Ended /\ conn[c] = "watched"
         /\ Watching /\ Reader /\ Places
         /\ loop.args \in Seq(ArgValues) /\ Len(loop.args) \in Nat
         /\ loop.left \in Nat /\ loop.size \in Nat /\ loop.arg \in ArgValues
         /\ loop.stage \in Stages /\ DOMAIN loop.args = 1 .. Len(loop.args)
         /\ loop.stage # "array" => IF c \in astray THEN Lost ELSE InCommand
         /\ InWait => \A r \in loop.watch : conn[r] = "watched"
         /\ ParsedFrom(c)
<1>1. TypeOK /\ loop \in LoopType /\ ~Ended /\ Watching /\ Reader /\ Places
  BY Loops
<1>2. /\ loop.args \in Seq(ArgValues) /\ loop.left \in Nat /\ loop.size \in Nat
      /\ loop.arg \in ArgValues /\ loop.stage \in Stages
  BY <1>1 DEF LoopType
<1>3. Len(loop.args) \in Nat /\ DOMAIN loop.args = 1 .. Len(loop.args)
  BY <1>2
<1>4. /\ conn[c] = "watched" /\ (InWait => \A r \in loop.watch : conn[r] = "watched")
      /\ loop.stage # "array" => IF c \in astray THEN Lost ELSE InCommand
  BY <1>1 DEF Reader, Places, Parsing, InStep
<1>5. ParsedFrom(c)
  BY DEF LoopInv, ParsedAsSent
<1>6. QED
  BY <1>1, <1>2, <1>3, <1>4, <1>5

\* The arrays that were parsed from c are the same after a step that parses none.
LEMMA SameArrays ==
  ASSUME NEW c \in Clients, GoesOn(c), done'[c] = done[c], c \in astray' <=> c \in astray,
         LoopInv
  PROVE  ParsedFrom(c)'
<1>1. ParsedFrom(c)
  BY DEF LoopInv, ParsedAsSent
<1>2. QED
  BY <1>1, ParsedKept

\* A step of the reader behind a cut argument.
LEMMA AstrayKeeps ==
  ASSUME LoopInv, NEW c \in Clients, ReaderStep(c), TypeOK', EndHasACause', c \in astray,
         UNCHANGED <<done, astray>>, loop'.pc = "reading" /\ loop'.stage # "array" => Lost'
  PROVE  LoopInv'
<1>1. ParsedFrom(c)'
  BY SameArrays DEF ReaderStep
<1>2. c \in astray' /\ Idle(c)'
  BY DEF Idle
<1>3. Parsing' => ~InStep' /\ Lost'
  <2> SUFFICES ASSUME Parsing' PROVE ~InStep' /\ Lost'
    OBVIOUS
  <2>1. loop'.pc = "reading" /\ loop'.stage # "array"
    BY DEF Parsing
  <2>2. Fd' = c
    BY <2>1 DEF ReaderStep, Fd, Ends
  <2>3. QED
    BY <1>2, <2>1, <2>2 DEF InStep
<1>4. QED
  BY <1>1, <1>2, <1>3, ReaderKeeps

\* Where the command under way is in the stream.
LEMMA SentPlaces ==
  ASSUME TypeOK, NEW c \in Clients, Behindhand(c)
  PROVE  /\ Len(done[c]) + 1 \in DOMAIN Commands[c]
         /\ Sent(c) \in Seq(Nat) /\ Len(Sent(c)) \in Nat
         /\ Ending(c) \in Nat /\ Ending(c) <= Len(Stream[c])
         /\ EndOf[c][Len(done[c])] \in Nat /\ EndOf[c][Len(done[c])] < Ending(c)
         /\ Stream[c][EndOf[c][Len(done[c])] + 1] = Token("array", Len(Sent(c)))
         /\ Starts(c, 0) = EndOf[c][Len(done[c])] + 1
         /\ Starts(c, Len(Sent(c))) = Ending(c)
         /\ \A i \in 0 .. Len(Sent(c)) : Starts(c, i) \in Nat
         /\ \A i \in 0 .. Len(Sent(c)) - 1 :
              /\ Sent(c)[i + 1] \in Nat
              /\ Starts(c, i + 1) = Starts(c, i) + ArgLength(Sent(c)[i + 1])
              /\ Starts(c, i + 1) <= Ending(c)
              /\ Sent(c)[i + 1] = 0 => Stream[c][Starts(c, i) + 1] = Token("bulk", 0)
              /\ Sent(c)[i + 1] # 0 =>
                   Stream[c][Starts(c, i) + 1] = Token("dollar", Sent(c)[i + 1])
<1>1. PICK k : k = Len(done[c]) + 1
  OBVIOUS
<1>2. Len(done[c]) \in Nat
  BY ClientTypes
<1>3. k \in 1 .. Len(Commands[c]) /\ k - 1 = Len(done[c]) /\ k \in DOMAIN Commands[c]
  BY <1>1, <1>2, CommandsTypes DEF Behindhand
<1>4. Sent(c) = Commands[c][k].args /\ Ending(c) = EndOf[c][k]
  BY <1>1 DEF Sent, Ending
<1>5. \A i : Starts(c, i) = ArgStart(c, k, i)
  BY <1>1 DEF Starts
<1>6. Sent(c) \in Seq(Nat) /\ Len(Sent(c)) \in Nat
  BY <1>3, <1>4, CommandsTypes
<1>7. \A i \in 0 .. Len(Sent(c)) - 1 : i + 1 \in 1 .. Len(Sent(c)) /\ Sent(c)[i + 1] \in Nat
  BY <1>6
<1>8. LET sent == Commands[c][k].args
      IN /\ EndOf[c][k - 1] \in Nat /\ EndOf[c][k - 1] < EndOf[c][k]
         /\ EndOf[c][k] <= Len(Stream[c]) /\ EndOf[c][k] \in Nat
         /\ Stream[c][EndOf[c][k - 1] + 1] = Token("array", Len(sent))
         /\ ArgStart(c, k, 0) = EndOf[c][k - 1] + 1
         /\ ArgStart(c, k, Len(sent)) = EndOf[c][k]
         /\ \A i \in 0 .. Len(sent) : ArgStart(c, k, i) \in Nat
         /\ \A i \in 0 .. Len(sent) - 1 :
              /\ ArgStart(c, k, i + 1) = ArgStart(c, k, i) + ArgLength(sent[i + 1])
              /\ ArgStart(c, k, i + 1) <= EndOf[c][k]
              /\ sent[i + 1] = 0 => Stream[c][ArgStart(c, k, i) + 1] = Token("bulk", 0)
              /\ sent[i + 1] # 0 =>
                   Stream[c][ArgStart(c, k, i) + 1] = Token("dollar", sent[i + 1])
  BY <1>3, StreamPlaces
<1>9. Len(done[c]) + 1 \in DOMAIN Commands[c]
  BY <1>1, <1>3
<1>10. QED
  BY <1>3, <1>4, <1>5, <1>6, <1>7, <1>8, <1>9

LEMMA AddArgFields ==
  ASSUME loop \in LoopType, loop.pc = "reading", loop.left > 0, NEW a \in ArgValues, AddArg(a)
  PROVE  /\ loop' \in LoopType /\ loop'.pc = "reading" /\ loop'.fd = loop.fd
         /\ loop'.stage = "bulk" /\ loop'.waiter = loop.waiter /\ loop'.watch = loop.watch
         /\ loop'.ready = loop.ready /\ loop'.robbed = loop.robbed
         /\ loop'.args = Append(loop.args, a) /\ loop'.left = loop.left - 1
<1>1. loop' = [loop EXCEPT !.args = Append(@, a), !.left = @ - 1, !.stage = "bulk", !.arg = "whole"]
  BY DEF AddArg
<1>2. loop.args \in Seq(ArgValues) /\ loop.left \in Nat
  BY DEF LoopType
<1>3. Append(loop.args, a) \in Seq(ArgValues) /\ loop.left - 1 \in Nat
  BY <1>2, ArgsAppended
<1>4. QED
  BY <1>1, <1>3 DEF LoopType, Stages, ArgValues

LEMMA AddArgKeeps ==
  ASSUME LoopInv, NEW c \in Clients, Fd = c, Parsing, loop.left > 0, c \notin astray,
         NEW a \in ArgValues,
         AddArg(a), UNCHANGED <<conn, peer, wr, pipe, done, waits, astray>>,
         rd' \in [Clients -> Nat], rd'[c] <= wr[c], \A d \in Clients \ {c} : rd'[d] = rd[d],
         \/ a = "whole" /\ AllWhole(loop.args) /\ rd'[c] = Starts(c, Len(loop.args) + 1)
         \/ a = "missing" /\ rd'[c] = rd[c] /\ Dead(c) /\ wr[c] < Ending(c)
  PROVE  LoopInv'
<1>1. loop.pc = "reading" /\ loop.stage # "array"
  BY DEF Parsing
<1>2. /\ TypeOK /\ loop \in LoopType /\ InCommand /\ Reader
      /\ loop.args \in Seq(ArgValues) /\ Len(loop.args) \in Nat /\ loop.left \in Nat
  BY <1>1, ReaderFacts
<1>3. /\ Append(loop.args, a) \in Seq(ArgValues) /\ Len(Append(loop.args, a)) = Len(loop.args) + 1
      /\ ToSet(Append(loop.args, a)) = ToSet(loop.args) \cup {a}
      /\ AllWhole(Append(loop.args, a)) <=> (AllWhole(loop.args) /\ a = "whole")
  BY <1>2, ArgsAppended
<1>4. /\ loop' \in LoopType /\ loop'.pc = "reading" /\ loop'.fd = c
      /\ loop'.stage = "bulk" /\ loop'.waiter = loop.waiter /\ loop'.watch = loop.watch
      /\ loop'.ready = loop.ready /\ loop'.robbed = loop.robbed
      /\ loop'.args = Append(loop.args, a) /\ loop'.left = loop.left - 1
  BY <1>1, <1>2, AddArgFields DEF Fd
<1>5. TypeOK'
  <2>1. \A d \in Clients : rd'[d] <= wr[d]
    BY <1>2, TypesOf
  <2>2. QED
    BY <1>2, <1>4, <2>1, TypesOf DEF TypeOK, LoopType
<1>6. ReaderStep(c)
  BY <1>1, <1>4, AllGoOn DEF ReaderStep
<1>7. ParsedFrom(c)'
  BY AllGoOn, SameArrays
<1>8. EndHasACause'
  BY <1>4, NotEnded
<1>9. conn'[c] # "closed"
  BY <1>1, <1>2 DEF Reader
<1>10. InCommand'
  <2>1. Fd' = c /\ Finished(c)' /\ Behindhand(c)' /\ Sent(c)' = Sent(c) /\ Ending(c)' = Ending(c)
    BY <1>2, <1>4 DEF InCommand, Fd, Finished, Behindhand, Sent, Ending
  <2>2. \A i : Starts(c, i)' = Starts(c, i)
    BY DEF Starts
  <2>3. Len(loop.args) + loop.left = Len(Sent(c))
    BY <1>2 DEF InCommand
  <2>4. Len(loop'.args) + loop'.left = Len(Sent(c))
    BY <1>2, <1>3, <1>4, <2>3
  <2>5. CASE a = "whole" /\ AllWhole(loop.args) /\ rd'[c] = Starts(c, Len(loop.args) + 1)
    <3>1. ReadsWhole'
      BY <1>3, <1>4, <2>1, <2>2, <2>5 DEF ReadsWhole, AtStage
    <3>2. QED
      BY <1>4, <2>1, <2>4, <3>1 DEF InCommand
  <2>6. CASE a = "missing" /\ rd'[c] = rd[c] /\ Dead(c) /\ wr[c] < Ending(c)
    <3>1. "broken" \notin ToSet(loop.args)
      BY <1>2 DEF InCommand, ReadsWhole, ReadsNothing, AllWhole
    <3>2. ReadsNothing'
      BY <1>3, <1>4, <2>1, <2>6, <3>1 DEF ReadsNothing, Dead, Unread
    <3>3. QED
      BY <1>4, <2>1, <2>4, <3>2 DEF InCommand
  <2>7. QED
    BY <2>5, <2>6
<1>11. Parsing' /\ InStep'
  BY <1>4 DEF Parsing, InStep, Fd
<1>12. QED
  BY <1>5, <1>6, <1>7, <1>8, <1>9, <1>10, <1>11, ReaderKeeps

\* The loop goes on from a connection that it closes.
LEMMA ClosingKeeps ==
  ASSUME LoopInv, loop.pc = "reading", NEW c \in Clients, Fd = c, ~InWait,
         loop' = Rescan(loop), conn' = [conn EXCEPT ![c] = "closed"],
         UNCHANGED <<peer, wr, pipe, done, waits, astray>>,
         rd' \in [Clients -> Nat], rd'[c] <= wr[c], \A d \in Clients \ {c} : rd'[d] = rd[d],
         c \in astray \/ Left(c)' \/ (EmptyNext(c) /\ Finished(c))
  PROVE  LoopInv'
<1>1. TypeOK /\ loop \in LoopType
  BY ReaderFacts
<1>2. /\ loop'.pc = "scan" /\ loop'.ready = loop.ready /\ loop'.robbed = loop.robbed
      /\ loop'.waiter = Nobody /\ loop' \in LoopType
  BY <1>1, RescanFields, RescanType
<1>3. \A d \in Clients : conn'[d] = IF d = c THEN "closed" ELSE conn[d]
  BY <1>1, TypesOf
<1>4. TypeOK'
  <2>1. \A d \in Clients : rd'[d] <= wr[d]
    BY <1>1, TypesOf
  <2>2. conn' \in [Clients -> {"out", "backlog", "watched", "closed"}]
    BY <1>1, TypesOf
  <2>3. QED
    BY <1>1, <1>2, <2>1, <2>2, TypesOf DEF TypeOK, LoopType
<1>5. ReaderStep(c)
  BY <1>2, <1>3, AllGoOn DEF ReaderStep
<1>6. ParsedFrom(c)'
  BY AllGoOn, SameArrays
<1>7. EndHasACause'
  BY <1>2, NotEnded
<1>8. ~Parsing'
  BY <1>2 DEF Parsing
<1>9. EmptyNext(c) <=> EmptyNext(c)'
  BY DEF EmptyNext, Behindhand, Sent
<1>10. Idle(c)'
  <2>1. CASE Left(c)'
    BY <2>1 DEF Idle, Dead, Left
  <2>2. CASE EmptyNext(c) /\ Finished(c)
    <3>1. Len(done[c]) <= Len(Commands[c])
      BY <1>1, <2>2, ClientTypes, CommandsTypes DEF EmptyNext, Behindhand
    <3>2. QED
      BY <1>3, <1>9, <2>2, <3>1 DEF Idle, Clean, Finished
  <2>3. CASE c \in astray
    BY <2>3 DEF Idle
  <2>4. QED
    BY <2>1, <2>2, <2>3
<1>11. conn'[c] = "closed" => (c \in astray \/ Left(c) \/ EmptyNext(c))'
  BY <1>9
<1>12. QED
  BY <1>4, <1>5, <1>6, <1>7, <1>8, <1>10, <1>11, ReaderKeeps

\* The reader gives up: the loop ends.
LEMMA FailKeeps ==
  ASSUME LoopInv, loop.pc = "reading", NEW c \in Clients, Fd = c, NEW end \in Ends, Fail(end),
         UNCHANGED <<conn, wr, pipe, astray>>, waits' \in Nat, done' \in DoneType,
         peer' \in [Clients -> Peers], \A d \in Clients : GoesOn(d),
         rd' \in [Clients -> Nat], rd'[c] <= wr[c],
         \A d \in Clients \ {c} : rd'[d] = rd[d] /\ done'[d] = done[d],
         ParsedFrom(c)', EndHasACause'
  PROVE  LoopInv'
<1>1. TypeOK /\ loop \in LoopType /\ conn[c] = "watched"
  BY ReaderFacts
<1>2. loop' \in LoopType /\ loop'.pc = end
  BY <1>1 DEF Fail, LoopType
<1>3. TypeOK'
  <2>1. \A d \in Clients : rd'[d] <= wr[d]
    BY <1>1, TypesOf
  <2>2. QED
    BY <1>1, <1>2, <2>1, TypesOf DEF TypeOK, LoopType, DoneType
<1>4. ReaderStep(c)
  BY <1>2 DEF ReaderStep
<1>5. Ended' /\ ~Parsing'
  BY <1>2 DEF Ended, Parsing, Ends
<1>6. QED
  BY <1>1, <1>3, <1>4, <1>5, ReaderKeeps

\* The reader throws: the loop ends, or WAIT gives the replica up.
LEMMA ThrowKeeps ==
  ASSUME LoopInv, loop.pc = "reading", NEW c \in Clients, Fd = c, Throw,
         UNCHANGED <<conn, wr, pipe, astray, done, waits>>,
         peer' \in [Clients -> Peers], \A d \in Clients : GoesOn(d),
         rd' \in [Clients -> Nat], rd'[c] <= wr[c], \A d \in Clients \ {c} : rd'[d] = rd[d],
         astray # {} \/ peer'[c] \in {"reset", "gone"}, Idle(c)'
  PROVE  LoopInv'
<1>1. /\ TypeOK /\ loop \in LoopType /\ conn[c] = "watched"
      /\ InWait => \A r \in loop.watch : conn[r] = "watched"
  BY ReaderFacts
<1>2. ParsedFrom(c)'
  BY SameArrays
<1>3. CASE ~InWait
  <2>1. Fail("thrown") /\ "thrown" \in Ends
    BY <1>3 DEF Throw, Ends
  <2>2. loop'.pc = "thrown"
    BY <1>1, <2>1 DEF Fail, LoopType
  <2>3. EndHasACause'
    BY <2>2 DEF EndHasACause
  <2>4. waits' \in Nat /\ done' \in DoneType
    BY <1>1, TypesOf
  <2>5. QED
    BY <1>2, <2>1, <2>3, <2>4, FailKeeps
<1>4. CASE InWait
  <2>1. loop' = [loop EXCEPT !.pc = "waiting", !.watch = @ \ {Fd}]
    BY <1>4 DEF Throw
  <2>2. /\ loop' \in LoopType /\ loop'.pc = "waiting" /\ loop'.ready = loop.ready
        /\ loop'.robbed = loop.robbed /\ loop'.waiter = loop.waiter
        /\ loop'.watch \subseteq loop.watch
    <3>1. loop.watch \ {Fd} \in SUBSET Replicas
      BY <1>1 DEF LoopType
    <3>2. QED
      BY <1>1, <2>1, <3>1 DEF LoopType
  <2>3. TypeOK'
    <3>1. \A d \in Clients : rd'[d] <= wr[d]
      BY <1>1, TypesOf
    <3>2. QED
      BY <1>1, <2>2, <3>1, TypesOf DEF TypeOK, LoopType
  <2>4. ReaderStep(c)
    BY <1>1, <1>4, <2>2 DEF ReaderStep, InWait
  <2>5. EndHasACause'
    BY <2>2, NotEnded
  <2>6. ~Parsing' /\ conn'[c] # "closed"
    BY <1>1, <2>2 DEF Parsing
  <2>7. QED
    BY <1>2, <2>3, <2>4, <2>5, <2>6, ReaderKeeps
<1>5. QED
  BY <1>3, <1>4

\* WAIT goes on from an array without arguments, behind a cut argument.
LEMMA GivesUpKeeps ==
  ASSUME LoopInv, loop.pc = "reading", NEW c \in Clients, Fd = c, InWait,
         loop' = [loop EXCEPT !.pc = "waiting"], UNCHANGED <<conn, peer, wr, pipe, done, waits, astray>>,
         rd' \in [Clients -> Nat], rd'[c] <= wr[c], \A d \in Clients \ {c} : rd'[d] = rd[d],
         c \in astray
  PROVE  LoopInv'
<1>1. /\ TypeOK /\ loop \in LoopType /\ \A r \in loop.watch : conn[r] = "watched"
  BY ReaderFacts
<1>2. /\ loop' \in LoopType /\ loop'.pc = "waiting" /\ loop'.ready = loop.ready
      /\ loop'.robbed = loop.robbed /\ loop'.waiter = loop.waiter /\ loop'.watch = loop.watch
  BY <1>1 DEF LoopType
<1>3. TypeOK'
  <2>1. \A d \in Clients : rd'[d] <= wr[d]
    BY <1>1, TypesOf
  <2>2. QED
    BY <1>1, <1>2, <2>1, TypesOf DEF TypeOK, LoopType
<1>4. ReaderStep(c)
  BY <1>1, <1>2, AllGoOn DEF ReaderStep, InWait
<1>5. EndHasACause'
  BY <1>2, NotEnded
<1>6. QED
  BY <1>2, <1>3, <1>4, <1>5, AstrayKeeps

LEMMA Taken ==
  ASSUME TypeOK, NEW c \in Clients, NEW n \in Nat, n <= Unread(c), rd' = [rd EXCEPT ![c] = @ + n]
  PROVE  /\ rd' \in [Clients -> Nat] /\ rd'[c] = rd[c] + n /\ rd'[c] <= wr[c]
         /\ \A d \in Clients \ {c} : rd'[d] = rd[d]
<1>1. rd \in [Clients -> Nat] /\ wr[c] \in Nat /\ rd[c] \in Nat
  BY TypesOf, ClientTypes
<1>2. rd[c] + n \in Nat /\ rd[c] + n <= wr[c]
  BY <1>1 DEF Unread
<1>3. QED
  BY <1>1, <1>2

\* The next token of an idle connection that has one.
LEMMA IdleNext ==
  ASSUME LoopInv, loop.pc = "reading", loop.stage = "array", NEW c \in Clients, Fd = c, Unread(c) > 0,
         c \notin astray
  PROVE  /\ Finished(c) /\ Behindhand(c) /\ rd[c] = EndOf[c][Len(done[c])]
         /\ Next1 = Token("array", Len(Sent(c))) /\ (c \in Replicas => Sent(c) # <<>>)
<1>1. TypeOK /\ Places /\ conn[c] = "watched"
  BY ReaderFacts
<1>2. Clean(c)
  <2>1. Unread(c) # 0
    BY <1>1, ClientTypes
  <2>2. QED
    BY <1>1, <2>1 DEF Places, Parsing, Dead, Idle
<1>3. Finished(c) /\ Len(done[c]) <= Len(Commands[c]) /\ rd[c] = EndOf[c][Len(done[c])]
  BY <1>1, <1>2 DEF Clean
<1>4. Behindhand(c)
  <2>1. Len(done[c]) \in Nat /\ Len(Commands[c]) \in Nat
    BY <1>1, ClientTypes, CommandsTypes
  <2>2. rd[c] < Len(Stream[c])
    BY <1>1, ClientTypes DEF Unread
  <2>3. EndOf[c][Len(Commands[c])] = Len(Stream[c]) /\ Len(Stream[c]) \in Nat
    BY StreamCommands
  <2>4. Len(done[c]) # Len(Commands[c])
    BY <1>3, <2>2, <2>3
  <2>5. QED
    BY <1>3, <2>1, <2>4 DEF Behindhand
<1>5. Next1 = Token("array", Len(Sent(c)))
  BY <1>1, <1>3, <1>4, SentPlaces DEF Next1
<1>6. c \in Replicas => Sent(c) # <<>>
  <2>1. Len(done[c]) + 1 \in DOMAIN Commands[c]
    BY <1>1, <1>4, SentPlaces
  <2>2. QED
    BY <2>1, AcksAssumption DEF Sent
<1>7. QED
  BY <1>3, <1>4, <1>5, <1>6

LEMMA TokenFields ==
  ASSUME NEW kind, NEW n
  PROVE  Token(kind, n).kind = kind /\ Token(kind, n).n = n
BY DEF Token

LEMMA BeginFields ==
  ASSUME loop \in LoopType, loop.pc = "reading", NEW n \in Nat, Begin(n)
  PROVE  /\ loop' \in LoopType /\ loop'.pc = "reading" /\ loop'.fd = loop.fd
         /\ loop'.stage = "bulk" /\ loop'.waiter = loop.waiter /\ loop'.watch = loop.watch
         /\ loop'.ready = loop.ready /\ loop'.robbed = loop.robbed
         /\ loop'.args = <<>> /\ loop'.left = n
<1>1. <<>> \in Seq(ArgValues)
  OBVIOUS
<1>2. loop' = [loop EXCEPT !.stage = "bulk", !.left = n, !.args = <<>>, !.arg = "whole"]
  BY DEF Begin, Count
<1>3. QED
  BY <1>1, <1>2 DEF LoopType, Stages, ArgValues

\* The header of a command that has arguments.
LEMMA BeginsKeeps ==
  ASSUME LoopInv, loop.pc = "reading", loop.stage = "array", NEW c \in Clients, Fd = c,
         UNCHANGED <<conn, peer, wr, pipe, done, waits, astray>>, c \notin astray,
         rd' = [rd EXCEPT ![c] = @ + 1], Unread(c) > 0,
         Finished(c), Behindhand(c), rd[c] = EndOf[c][Len(done[c])], Begin(Len(Sent(c)))
  PROVE  LoopInv'
<1>1. TypeOK /\ loop \in LoopType /\ conn[c] = "watched"
  BY ReaderFacts
<1>2. Len(Sent(c)) \in Nat /\ Starts(c, 0) = rd[c] + 1
  BY <1>1, SentPlaces
<1>3. Len(<<>>) = 0 /\ ToSet(<<>>) = {}
  BY DEF ToSet
<1>4. /\ loop' \in LoopType /\ loop'.pc = "reading" /\ loop'.fd = c
      /\ loop'.stage = "bulk" /\ loop'.waiter = loop.waiter /\ loop'.watch = loop.watch
      /\ loop'.ready = loop.ready /\ loop'.robbed = loop.robbed
      /\ loop'.args = <<>> /\ loop'.left = Len(Sent(c))
  BY <1>1, <1>2, BeginFields DEF Fd
<1>5. /\ rd' \in [Clients -> Nat] /\ rd'[c] = rd[c] + 1 /\ rd'[c] <= wr[c]
      /\ \A d \in Clients \ {c} : rd'[d] = rd[d]
  <2>1. 1 \in Nat /\ 1 <= Unread(c)
    BY <1>1, ClientTypes
  <2>2. QED
    BY <1>1, <2>1, Taken
<1>6. TypeOK'
  <2>1. \A d \in Clients : rd'[d] <= wr[d]
    BY <1>1, <1>5, TypesOf
  <2>2. QED
    BY <1>1, <1>4, <1>5, <2>1, TypesOf DEF TypeOK, LoopType
<1>7. ReaderStep(c)
  BY <1>4, <1>5, AllGoOn DEF ReaderStep
<1>8. ParsedFrom(c)'
  BY AllGoOn, SameArrays
<1>9. EndHasACause'
  BY <1>4, NotEnded
<1>10. InCommand'
  <2>1. Fd' = c /\ Finished(c)' /\ Behindhand(c)' /\ Sent(c)' = Sent(c)
    BY <1>4 DEF Fd, Finished, Behindhand, Sent
  <2>2. Starts(c, 0)' = Starts(c, 0)
    BY DEF Starts
  <2>3. AllWhole(loop'.args)
    BY <1>3, <1>4 DEF AllWhole
  <2>4. Len(loop'.args) + loop'.left = Len(Sent(c)) /\ Len(loop'.args) = 0
    BY <1>2, <1>3, <1>4
  <2>5. ReadsWhole'
    BY <1>2, <1>4, <1>5, <2>1, <2>2, <2>3, <2>4 DEF ReadsWhole, AtStage
  <2>6. QED
    BY <1>4, <2>1, <2>4, <2>5 DEF InCommand
<1>11. Parsing' /\ InStep' /\ conn'[c] # "closed"
  BY <1>1, <1>4 DEF Parsing, InStep, Fd
<1>12. QED
  BY <1>6, <1>7, <1>8, <1>9, <1>10, <1>11, ReaderKeeps

LEMMA ReadHeaderKeeps ==
  ASSUME LoopInv, ReadHeader
  PROVE  LoopInv'
<1>1. loop.pc = "reading" /\ loop.stage = "array" /\ UNCHANGED <<peer, wr, pipe, done, waits, astray>>
  BY DEF ReadHeader, Reading
<1>2. TypeOK /\ loop \in LoopType /\ Reader
  BY <1>1, Loops
<1>3. PICK c \in Clients : Fd = c
  BY <1>1, <1>2 DEF Reader
<1>4. /\ conn[c] = "watched"
      /\ InWait => c \in Replicas /\ (c \notin astray => Unread(c) > 0 \/ AtError(c))
  BY <1>1, <1>2, <1>3 DEF Reader, InStep, LoopType
<1>5. CASE AtEof(c) /\ NoArguments /\ UNCHANGED rd
  <2>1. rd' \in [Clients -> Nat] /\ rd'[c] <= wr[c] /\ \A d \in Clients \ {c} : rd'[d] = rd[d]
    BY <1>2, <1>5, TypesOf
  <2>2. Left(c)'
    BY <1>1, <1>5 DEF AtEof, Left, Unread
  <2>3. CASE ~InWait
    <3>1. loop' = Rescan(loop) /\ conn' = [conn EXCEPT ![c] = "closed"]
      BY <1>3, <1>5, <2>3 DEF NoArguments
    <3>2. QED
      BY <1>1, <1>3, <2>1, <2>2, <2>3, <3>1, ClosingKeeps
  <2>4. CASE InWait
    <3>1. loop' = [loop EXCEPT !.pc = "waiting"] /\ UNCHANGED conn
      BY <1>5, <2>4 DEF NoArguments
    <3>2. c \in astray
      BY <1>4, <1>5, <2>4 DEF AtEof, AtError
    <3>3. QED
      BY <1>1, <1>3, <2>1, <2>4, <3>1, <3>2, GivesUpKeeps
  <2>5. QED
    BY <2>3, <2>4
<1>6. CASE /\ c \notin astray /\ Unread(c) > 0 /\ Take(1)
           /\ CASE Next1.kind # "array" -> Fail("aborted") /\ UNCHANGED conn
                [] Next1.kind = "array" /\ Next1.n = 0 -> NoArguments
                [] OTHER -> Begin(Next1.n) /\ UNCHANGED conn
  <2>1. rd' = [rd EXCEPT ![c] = @ + 1]
    BY <1>3, <1>6 DEF Take
  <2>2. /\ rd' \in [Clients -> Nat] /\ rd'[c] = rd[c] + 1 /\ rd'[c] <= wr[c]
        /\ \A d \in Clients \ {c} : rd'[d] = rd[d]
    <3>1. 1 \in Nat /\ 1 <= Unread(c)
      BY <1>2, <1>6, ClientTypes
    <3>2. QED
      BY <1>2, <2>1, <3>1, Taken
  <2>3. /\ Finished(c) /\ Behindhand(c) /\ rd[c] = EndOf[c][Len(done[c])]
        /\ Next1 = Token("array", Len(Sent(c))) /\ (c \in Replicas => Sent(c) # <<>>)
    BY <1>1, <1>3, <1>6, IdleNext
  <2>4. Next1.kind = "array" /\ Next1.n = Len(Sent(c))
    BY <2>3, TokenFields
  <2>5. Sent(c) \in Seq(Nat)
    BY <1>2, <2>3, SentPlaces
  <2>6. CASE Sent(c) = <<>>
    <3>1. NoArguments /\ ~InWait
      BY <1>4, <1>6, <2>3, <2>4, <2>6
    <3>2. loop' = Rescan(loop) /\ conn' = [conn EXCEPT ![c] = "closed"]
      BY <1>3, <3>1 DEF NoArguments
    <3>3. EmptyNext(c)
      BY <2>3, <2>6 DEF EmptyNext
    <3>4. QED
      BY <1>1, <1>3, <2>2, <2>3, <3>1, <3>2, <3>3, ClosingKeeps
  <2>7. CASE Sent(c) # <<>>
    <3>1. Len(Sent(c)) # 0
      BY <2>5, <2>7
    <3>2. Begin(Len(Sent(c))) /\ UNCHANGED conn
      BY <1>6, <2>4, <3>1
    <3>3. QED
      BY <1>1, <1>3, <1>6, <2>1, <2>3, <3>2, BeginsKeeps
  <2>8. QED
    BY <2>6, <2>7
<1>7. QED
  BY <1>3, <1>5, <1>6 DEF ReadHeader, NoMore, InStep

\* The argument that is next, of a command under way.
LEMMA NextArg ==
  ASSUME LoopInv, Parsing, NEW c \in Clients, Fd = c, loop.left > 0, c \notin astray,
         NEW p, p = Starts(c, Len(loop.args)), NEW a, a = Sent(c)[Len(loop.args) + 1]
  PROVE  /\ p \in Nat /\ a \in Nat /\ Ending(c) \in Nat
         /\ Len(loop.args) + 1 \in DOMAIN Sent(c)
         /\ Starts(c, Len(loop.args) + 1) = p + ArgLength(a)
         /\ p + ArgLength(a) <= Ending(c) /\ Ending(c) <= Len(Stream[c]) /\ Len(Stream[c]) \in Nat
         /\ a = 0 => Stream[c][p + 1] = Token("bulk", 0)
         /\ a # 0 => Stream[c][p + 1] = Token("dollar", a)
<1>1. /\ TypeOK /\ InCommand /\ loop.left \in Nat /\ Len(loop.args) \in Nat
  BY ReaderFacts DEF Parsing
<1>2. Behindhand(c) /\ Len(loop.args) + loop.left = Len(Sent(c))
  BY <1>1 DEF InCommand
<1>3. Len(Sent(c)) \in Nat /\ Sent(c) \in Seq(Nat)
  BY <1>1, <1>2, SentPlaces
<1>4. /\ Len(loop.args) \in 0 .. Len(Sent(c)) - 1 /\ Len(loop.args) \in 0 .. Len(Sent(c))
      /\ Len(loop.args) + 1 \in 1 .. Len(Sent(c))
  BY <1>1, <1>2, <1>3
<1>5. /\ Ending(c) \in Nat /\ Ending(c) <= Len(Stream[c])
      /\ \A i \in 0 .. Len(Sent(c)) : Starts(c, i) \in Nat
      /\ \A i \in 0 .. Len(Sent(c)) - 1 :
              /\ Sent(c)[i + 1] \in Nat
              /\ Starts(c, i + 1) = Starts(c, i) + ArgLength(Sent(c)[i + 1])
              /\ Starts(c, i + 1) <= Ending(c)
              /\ Sent(c)[i + 1] = 0 => Stream[c][Starts(c, i) + 1] = Token("bulk", 0)
              /\ Sent(c)[i + 1] # 0 =>
                   Stream[c][Starts(c, i) + 1] = Token("dollar", Sent(c)[i + 1])
  BY <1>1, <1>2, SentPlaces
<1>6. Len(Stream[c]) \in Nat /\ DOMAIN Sent(c) = 1 .. Len(Sent(c))
  BY <1>3, StreamCommands
<1>7. QED
  BY <1>4, <1>5, <1>6

\* A step inside of an argument that arrives in pieces.
LEMMA PieceKeeps ==
  ASSUME LoopInv, Parsing, NEW c \in Clients, Fd = c, loop.left > 0, AllWhole(loop.args),
         c \notin astray, UNCHANGED <<conn, peer, wr, pipe, done, waits, astray>>,
         rd' \in [Clients -> Nat], rd'[c] <= wr[c], \A d \in Clients \ {c} : rd'[d] = rd[d],
         loop' \in LoopType, loop'.pc = "reading", loop'.fd = c, loop'.waiter = loop.waiter,
         loop'.watch = loop.watch, loop'.ready = loop.ready, loop'.robbed = loop.robbed,
         loop'.args = loop.args, loop'.left = loop.left, loop'.stage \in {"content", "cr", "lf"},
         loop'.size = Sent(c)[Len(loop.args) + 1], loop'.size > 0,
         loop'.stage # "content" => loop'.arg = "whole",
         NEW p, p = Starts(c, Len(loop.args)),
         loop'.stage = "content" => rd'[c] = p + 1,
         loop'.stage = "cr" => rd'[c] = p + 1 + loop'.size,
         loop'.stage = "lf" => rd'[c] = p + 2 + loop'.size
  PROVE  LoopInv'
<1>1. TypeOK /\ InCommand /\ conn[c] = "watched" /\ loop.pc = "reading"
  BY ReaderFacts DEF Parsing
<1>2. TypeOK'
  <2>1. \A d \in Clients : rd'[d] <= wr[d]
    BY <1>1, TypesOf
  <2>2. QED
    BY <1>1, <2>1, TypesOf DEF TypeOK, LoopType
<1>3. ReaderStep(c)
  BY <1>1, AllGoOn DEF ReaderStep
<1>4. ParsedFrom(c)'
  BY AllGoOn, SameArrays
<1>5. EndHasACause'
  BY NotEnded
<1>6. InCommand'
  <2>1. Fd' = c /\ Finished(c)' /\ Behindhand(c)' /\ Sent(c)' = Sent(c)
    BY <1>1 DEF InCommand, Fd, Finished, Behindhand, Sent
  <2>2. Starts(c, Len(loop.args))' = p
    BY DEF Starts
  <2>3. Len(loop'.args) + loop'.left = Len(Sent(c))
    BY <1>1 DEF InCommand
  <2>4. InPieces'
    BY <2>1 DEF InPieces
  <2>5. AtStage(p)'
    BY <2>1 DEF AtStage
  <2>6. ReadsWhole'
    <3>1. Starts(Fd, Len(loop.args))' = p
      BY <2>1, <2>2 DEF Starts
    <3>2. AllWhole(loop'.args)
      OBVIOUS
    <3>3. QED
      BY <2>1, <3>1, <3>2 DEF ReadsWhole, AtStage
  <2>7. QED
    BY <2>1, <2>3, <2>4, <2>6 DEF InCommand
<1>7. Parsing' /\ InStep' /\ conn'[c] # "closed"
  BY <1>1 DEF Parsing, InStep, Fd
<1>8. QED
  BY <1>2, <1>3, <1>4, <1>5, <1>6, <1>7, ReaderKeeps

LEMMA ReadBulkKeeps ==
  ASSUME LoopInv, ReadBulk
  PROVE  LoopInv'
<1>1. /\ loop.pc = "reading" /\ loop.stage = "bulk" /\ loop.left > 0 /\ Unread(Fd) > 0 /\ Take(1)
      /\ UNCHANGED <<conn, peer, wr, pipe, done, waits, astray>> /\ Fd \notin astray
      /\ CASE Next1.kind = "bulk" -> AddArg("whole")
           [] Next1.kind = "dollar" ->
                loop' = [loop EXCEPT !.stage = "content", !.size = Next1.n]
           [] OTHER -> Fail("aborted")
  BY DEF ReadBulk, Reading, InStep
<1>2. TypeOK /\ loop \in LoopType /\ Reader /\ Parsing
  BY <1>1, Loops DEF Parsing
<1>3. PICK c \in Clients : Fd = c
  BY <1>1, <1>2 DEF Reader
<1>4. /\ InCommand /\ loop.args \in Seq(ArgValues) /\ Len(loop.args) \in Nat /\ loop.left \in Nat
      /\ loop.size \in Nat
  BY <1>1, <1>3, ReaderFacts
<1>5. /\ rd' \in [Clients -> Nat] /\ rd'[c] = rd[c] + 1 /\ rd'[c] <= wr[c]
      /\ \A d \in Clients \ {c} : rd'[d] = rd[d]
  <2>1. 1 \in Nat /\ 1 <= Unread(c)
    BY <1>1, <1>2, <1>3, ClientTypes
  <2>2. rd' = [rd EXCEPT ![c] = @ + 1]
    BY <1>1, <1>3 DEF Take
  <2>3. QED
    BY <1>2, <2>1, <2>2, Taken
<1>6. ReadsWhole
  <2>1. Unread(Fd) # 0
    BY <1>1
  <2>2. QED
    BY <1>4, <2>1 DEF InCommand, ReadsNothing, Dead
<1>7. PICK p : p = Starts(c, Len(loop.args))
  OBVIOUS
<1>8. PICK a : a = Sent(c)[Len(loop.args) + 1]
  OBVIOUS
<1>9. rd[c] = p /\ AllWhole(loop.args)
  BY <1>1, <1>3, <1>6, <1>7 DEF ReadsWhole, AtStage
<1>10. /\ p \in Nat /\ a \in Nat
       /\ Starts(c, Len(loop.args) + 1) = p + ArgLength(a)
       /\ a = 0 => Stream[c][p + 1] = Token("bulk", 0)
       /\ a # 0 => Stream[c][p + 1] = Token("dollar", a)
  BY <1>1, <1>2, <1>3, <1>7, <1>8, NextArg
<1>11. CASE a = 0
  <2>1. Next1.kind = "bulk"
    BY <1>3, <1>9, <1>10, <1>11, TokenFields DEF Next1
  <2>2. AddArg("whole") /\ "whole" \in ArgValues
    BY <1>1, <2>1 DEF ArgValues
  <2>3. rd'[c] = Starts(c, Len(loop.args) + 1)
    BY <1>5, <1>9, <1>10, <1>11 DEF ArgLength
  <2>4. QED
    BY <1>1, <1>2, <1>3, <1>5, <1>9, <2>2, <2>3, AddArgKeeps
<1>12. CASE a # 0
  <2>1. Next1.kind = "dollar" /\ Next1.n = a
    BY <1>3, <1>9, <1>10, <1>12, TokenFields DEF Next1
  <2>2. loop' = [loop EXCEPT !.stage = "content", !.size = a]
    BY <1>1, <2>1
  <2>3. /\ loop' \in LoopType /\ loop'.pc = "reading" /\ loop'.fd = c
        /\ loop'.waiter = loop.waiter /\ loop'.ready = loop.ready /\ loop'.robbed = loop.robbed
        /\ loop'.watch = loop.watch
        /\ loop'.args = loop.args /\ loop'.left = loop.left /\ loop'.stage = "content"
        /\ loop'.size = a
    BY <1>1, <1>2, <1>3, <1>10, <2>2 DEF LoopType, Stages, Fd
  <2>4. a > 0 /\ rd'[c] = p + 1
    BY <1>5, <1>9, <1>10, <1>12
  <2>5. QED
    BY <1>1, <1>2, <1>3, <1>5, <1>7, <1>8, <1>9, <2>3, <2>4, PieceKeeps
<1>13. QED
  BY <1>11, <1>12

\* A payload that is not there in one piece: from here on the parser is out of step.
LEMMA CutKeeps ==
  ASSUME LoopInv, Parsing, NEW c \in Clients, Fd = c, loop.stage = "content", Unread(c) > 0,
         c \notin astray, astray' = astray \cup {c},
         UNCHANGED <<conn, peer, wr, pipe, done, waits>>,
         rd' \in [Clients -> Nat], rd'[c] <= wr[c], \A d \in Clients \ {c} : rd'[d] = rd[d],
         loop' = [loop EXCEPT !.stage = "cr", !.arg = "broken"], loop.size > 1
  PROVE  LoopInv'
<1>1. TypeOK /\ InCommand /\ conn[c] = "watched" /\ loop.pc = "reading" /\ loop \in LoopType
      /\ ParsedFrom(c) /\ loop.args \in Seq(ArgValues) /\ Len(loop.args) \in Nat
  BY ReaderFacts DEF Parsing
<1>2. /\ Finished(c) /\ Behindhand(c) /\ loop.left > 0
      /\ loop.size = Sent(c)[Len(loop.args) + 1]
  BY <1>1 DEF InCommand, InPieces
<1>3. Len(loop.args) + 1 \in DOMAIN Sent(c) /\ Sent(c)[Len(loop.args) + 1] > 1
  BY <1>2, NextArg
<1>4. "broken" \in ArgValues
  BY DEF ArgValues
<1>5. /\ loop' \in LoopType /\ loop'.pc = "reading" /\ loop'.fd = c /\ loop'.stage = "cr"
      /\ loop'.waiter = loop.waiter /\ loop'.watch = loop.watch
      /\ loop'.ready = loop.ready /\ loop'.robbed = loop.robbed /\ loop'.left = loop.left
  BY <1>1, <1>4 DEF LoopType, Stages, Fd
<1>6. TypeOK'
  <2>1. \A d \in Clients : rd'[d] <= wr[d]
    BY <1>1, TypesOf
  <2>2. QED
    BY <1>1, <1>5, <2>1, TypesOf DEF TypeOK, LoopType
<1>7. ReaderStep(c)
  BY <1>1, <1>5, AllGoOn DEF ReaderStep
<1>8. PICK n : n = Len(done[c]) + 1
  OBVIOUS
<1>9. n \in DOMAIN Commands[c] /\ Sent(c) = Commands[c][n].args
  BY <1>1, <1>2, <1>8, SentPlaces DEF Sent
<1>10. ASSUME NEW k \in DOMAIN done[c] PROVE k < n /\ Whole(c, k)
  <2>1. done[c] # <<>> /\ Len(done[c]) \in Nat /\ k \in 1 .. Len(done[c])
    BY <1>1, ClientTypes
  <2>2. Whole(c, k) \/ Incomplete(c, k)
    BY <1>1 DEF ParsedFrom
  <2>3. Incomplete(c, k) => Whole(c, k)
    BY <1>2, <2>1 DEF Incomplete, Finished, Whole
  <2>4. QED
    BY <1>8, <2>1, <2>2, <2>3
<1>11. CutAt(c, n)'
  <2>1. \A k : Whole(c, k) => Whole(c, k)'
    BY DEF Whole, SameLength
  <2>2. \A k \in DOMAIN done'[c] : k < n /\ Whole(c, k)'
    BY <1>10, <2>1
  <2>3. \E i \in DOMAIN Commands[c][n].args : Commands[c][n].args[i] > 1
    BY <1>3, <1>9
  <2>4. n <= Len(done'[c]) + 1
    <3>1. Len(done[c]) \in Nat
      BY <1>1, ClientTypes
    <3>2. QED
      BY <1>8, <3>1
  <2>5. QED
    BY <2>2, <2>3, <2>4 DEF CutAt
<1>12. ParsedFrom(c)'
  BY <1>9, <1>11 DEF ParsedFrom
<1>13. EndHasACause'
  BY <1>5, NotEnded
<1>14. Parsing' /\ ~InStep' /\ Lost' /\ Idle(c)' /\ conn'[c] # "closed"
  BY <1>1, <1>2, <1>5 DEF Parsing, InStep, Fd, Lost, Idle
<1>15. QED
  BY <1>6, <1>7, <1>12, <1>13, <1>14, ReaderKeeps

LEMMA ReadContentKeeps ==
  ASSUME LoopInv, ReadContent
  PROVE  LoopInv'
<1>1. /\ loop.pc = "reading" /\ loop.stage = "content" /\ Unread(Fd) > 0
      /\ Take(BytesRead) /\ UNCHANGED <<conn, peer, wr, pipe, done, waits>> /\ Fd \notin astray
      /\ loop' = [loop EXCEPT !.stage = "cr",
                              !.arg = IF BytesRead < loop.size THEN "broken" ELSE "whole"]
      /\ astray' = IF BytesRead < loop.size THEN astray \cup {Fd} ELSE astray
  BY DEF ReadContent, Reading, InStep
<1>2. TypeOK /\ loop \in LoopType /\ Reader /\ Parsing
  BY <1>1, Loops DEF Parsing
<1>3. PICK c \in Clients : Fd = c
  BY <1>1, <1>2 DEF Reader
<1>4. InCommand /\ loop.left \in Nat /\ loop.size \in Nat
  BY <1>1, <1>3, ReaderFacts
<1>5. InPieces /\ ReadsWhole
  BY <1>1, <1>4 DEF InCommand, ReadsNothing
<1>6. PICK b : b = BytesRead
  OBVIOUS
<1>7. b \in Nat /\ b >= 1 /\ b <= loop.size /\ b <= Unread(c) /\ Unread(c) \in Nat
  <2>1. Unread(c) \in Nat /\ Unread(c) > 0 /\ loop.size > 0
    BY <1>1, <1>2, <1>3, <1>5, ClientTypes DEF InPieces
  <2>2. b = Min({loop.size, Unread(c)})
    BY <1>3, <1>6 DEF BytesRead
  <2>3. b \in {loop.size, Unread(c)} /\ \A n \in {loop.size, Unread(c)} : b <= n
    BY <1>4, <2>1, <2>2, LeastOf
  <2>4. QED
    BY <1>4, <2>1, <2>3
<1>8. /\ rd' \in [Clients -> Nat] /\ rd'[c] = rd[c] + b /\ rd'[c] <= wr[c]
      /\ \A d \in Clients \ {c} : rd'[d] = rd[d]
  <2>1. rd' = [rd EXCEPT ![c] = @ + b]
    BY <1>1, <1>3, <1>6 DEF Take
  <2>2. QED
    BY <1>2, <1>7, <2>1, Taken
<1>9. CASE b < loop.size
  <2>1. loop.size > 1
    BY <1>4, <1>7, <1>9
  <2>2. loop' = [loop EXCEPT !.stage = "cr", !.arg = "broken"] /\ astray' = astray \cup {c}
    BY <1>1, <1>3, <1>6, <1>9
  <2>3. QED
    BY <1>1, <1>2, <1>3, <1>8, <2>1, <2>2, CutKeeps
<1>10. CASE ~(b < loop.size)
  <2>1. loop' = [loop EXCEPT !.stage = "cr", !.arg = "whole"] /\ UNCHANGED astray
    BY <1>1, <1>6, <1>10
  <2>2. PICK p : p = Starts(c, Len(loop.args))
    OBVIOUS
  <2>3. rd[c] = p + 1 /\ AllWhole(loop.args) /\ loop.left > 0 /\ loop.size > 0
        /\ loop.size = Sent(c)[Len(loop.args) + 1]
    BY <1>1, <1>3, <1>5, <2>2 DEF ReadsWhole, AtStage, InPieces
  <2>4. p \in Nat
    BY <1>1, <1>2, <1>3, <2>2, <2>3, NextArg
  <2>5. /\ loop' \in LoopType /\ loop'.pc = "reading" /\ loop'.fd = c
        /\ loop'.waiter = loop.waiter /\ loop'.ready = loop.ready /\ loop'.robbed = loop.robbed
        /\ loop'.watch = loop.watch
        /\ loop'.args = loop.args /\ loop'.left = loop.left /\ loop'.stage = "cr"
        /\ loop'.size = loop.size /\ loop'.arg = "whole"
    <3>1. "whole" \in ArgValues
      BY DEF ArgValues
    <3>2. QED
      BY <1>1, <1>2, <1>3, <2>1, <3>1 DEF LoopType, Stages, Fd
  <2>6. rd'[c] = p + 1 + loop'.size
    BY <1>4, <1>7, <1>8, <1>10, <2>3, <2>4, <2>5
  <2>7. QED
    BY <1>1, <1>2, <1>3, <1>8, <2>1, <2>2, <2>3, <2>5, <2>6, PieceKeeps
<1>11. QED
  BY <1>9, <1>10

LEMMA ReadSlashRNKeeps ==
  ASSUME LoopInv, ReadSlashRN
  PROVE  LoopInv'
<1>1. /\ loop.pc = "reading" /\ Unread(Fd) > 0 /\ Take(1) /\ Fd \notin astray
      /\ UNCHANGED <<conn, peer, wr, pipe, done, waits, astray>>
      /\ \/ loop.stage = "cr" /\ loop' = [loop EXCEPT !.stage = "lf"]
         \/ loop.stage = "lf" /\ AddArg(loop.arg)
  BY DEF ReadSlashRN, Reading, AfterCr, InStep
<1>2. TypeOK /\ loop \in LoopType /\ Reader /\ Parsing
  BY <1>1, Loops DEF Parsing
<1>3. PICK c \in Clients : Fd = c
  BY <1>1, <1>2 DEF Reader
<1>4. InCommand /\ loop.left \in Nat /\ loop.size \in Nat /\ loop.arg \in ArgValues
  BY <1>1, <1>3, ReaderFacts
<1>5. InPieces /\ ReadsWhole
  BY <1>1, <1>4 DEF InCommand, ReadsNothing
<1>6. /\ rd' \in [Clients -> Nat] /\ rd'[c] = rd[c] + 1 /\ rd'[c] <= wr[c]
      /\ \A d \in Clients \ {c} : rd'[d] = rd[d]
  <2>1. 1 \in Nat /\ 1 <= Unread(c)
    BY <1>1, <1>2, <1>3, ClientTypes
  <2>2. rd' = [rd EXCEPT ![c] = @ + 1]
    BY <1>1, <1>3 DEF Take
  <2>3. QED
    BY <1>2, <2>1, <2>2, Taken
<1>7. PICK p : p = Starts(c, Len(loop.args))
  OBVIOUS
<1>8. PICK a : a = Sent(c)[Len(loop.args) + 1]
  OBVIOUS
<1>9. /\ AllWhole(loop.args) /\ loop.left > 0 /\ loop.size > 0 /\ loop.size = a
      /\ loop.arg = "whole"
  BY <1>1, <1>3, <1>5, <1>8 DEF ReadsWhole, InPieces
<1>10. /\ p \in Nat /\ a \in Nat /\ Starts(c, Len(loop.args) + 1) = p + ArgLength(a)
  BY <1>1, <1>2, <1>3, <1>7, <1>8, <1>9, NextArg
<1>11. CASE loop.stage = "cr" /\ loop' = [loop EXCEPT !.stage = "lf"]
  <2>1. /\ loop' \in LoopType /\ loop'.pc = "reading" /\ loop'.fd = c
        /\ loop'.waiter = loop.waiter /\ loop'.ready = loop.ready /\ loop'.robbed = loop.robbed
        /\ loop'.watch = loop.watch
        /\ loop'.args = loop.args /\ loop'.left = loop.left /\ loop'.stage = "lf"
        /\ loop'.size = a /\ loop'.arg = loop.arg
    BY <1>1, <1>2, <1>3, <1>9, <1>11 DEF LoopType, Stages, Fd
  <2>2. rd[c] = p + 1 + a
    BY <1>3, <1>5, <1>7, <1>9, <1>11 DEF ReadsWhole, AtStage
  <2>3. rd'[c] = p + 2 + a
    BY <1>6, <1>10, <2>2
  <2>4. QED
    BY <1>1, <1>2, <1>3, <1>6, <1>7, <1>8, <1>9, <2>1, <2>3, PieceKeeps
<1>12. CASE loop.stage = "lf" /\ AddArg(loop.arg)
  <2>1. rd[c] = p + 2 + a
    BY <1>3, <1>5, <1>7, <1>9, <1>12 DEF ReadsWhole, AtStage
  <2>2. ArgLength(a) = a + 3
    BY <1>9, <1>10 DEF ArgLength
  <2>3. rd'[c] = Starts(c, Len(loop.args) + 1)
    BY <1>6, <1>10, <2>1, <2>2
  <2>4. QED
    BY <1>1, <1>2, <1>3, <1>4, <1>6, <1>9, <1>12, <2>3, AddArgKeeps
<1>13. QED
  BY <1>1, <1>11, <1>12

\* An argument read behind a cut argument.
LEMMA BrokenKeeps ==
  ASSUME LoopInv, NEW c \in Clients, Fd = c, Parsing, loop.left > 0, c \in astray,
         AddArg("broken"), UNCHANGED <<conn, peer, wr, pipe, done, waits, astray>>,
         rd' \in [Clients -> Nat], rd'[c] <= wr[c], \A d \in Clients \ {c} : rd'[d] = rd[d]
  PROVE  LoopInv'
<1>1. loop.pc = "reading" /\ loop.stage # "array" /\ "broken" \in ArgValues
  BY DEF Parsing, ArgValues
<1>2. TypeOK /\ loop \in LoopType /\ loop.args \in Seq(ArgValues)
  BY <1>1, ReaderFacts
<1>3. /\ loop' \in LoopType /\ loop'.pc = "reading" /\ loop'.fd = c
      /\ loop'.stage = "bulk" /\ loop'.waiter = loop.waiter /\ loop'.watch = loop.watch
      /\ loop'.ready = loop.ready /\ loop'.robbed = loop.robbed
      /\ loop'.args = Append(loop.args, "broken")
  BY <1>1, <1>2, AddArgFields DEF Fd
<1>4. TypeOK'
  <2>1. \A d \in Clients : rd'[d] <= wr[d]
    BY <1>2, TypesOf
  <2>2. QED
    BY <1>2, <1>3, <2>1, TypesOf DEF TypeOK, LoopType
<1>5. ReaderStep(c)
  BY <1>1, <1>3, AllGoOn DEF ReaderStep
<1>6. EndHasACause'
  BY <1>3, NotEnded
<1>7. Lost'
  <2>1. ToSet(loop'.args) = ToSet(loop.args) \cup {"broken"}
    BY <1>1, <1>2, <1>3, ArgsAppended
  <2>2. QED
    BY <2>1 DEF Lost
<1>8. QED
  BY <1>4, <1>5, <1>6, <1>7, AstrayKeeps

\* A header found behind a cut argument.
LEMMA FoundKeeps ==
  ASSUME LoopInv, loop.pc = "reading", NEW c \in Clients, Fd = c, c \in astray,
         NEW n \in 1 .. MaxCount, Begin(n), UNCHANGED <<conn, peer, wr, pipe, done, waits, astray>>,
         rd' \in [Clients -> Nat], rd'[c] <= wr[c], \A d \in Clients \ {c} : rd'[d] = rd[d]
  PROVE  LoopInv'
<1>1. TypeOK /\ loop \in LoopType /\ n \in Nat /\ n > 0
  BY ReaderFacts, BoundAssumption
<1>2. /\ loop' \in LoopType /\ loop'.pc = "reading" /\ loop'.fd = c
      /\ loop'.stage = "bulk" /\ loop'.waiter = loop.waiter /\ loop'.watch = loop.watch
      /\ loop'.ready = loop.ready /\ loop'.robbed = loop.robbed /\ loop'.left = n
  BY <1>1, BeginFields DEF Fd
<1>3. TypeOK'
  <2>1. \A d \in Clients : rd'[d] <= wr[d]
    BY <1>1, TypesOf
  <2>2. QED
    BY <1>1, <1>2, <2>1, TypesOf DEF TypeOK, LoopType
<1>4. ReaderStep(c)
  BY <1>2, AllGoOn DEF ReaderStep
<1>5. EndHasACause'
  BY <1>2, NotEnded
<1>6. Lost'
  BY <1>1, <1>2 DEF Lost
<1>7. QED
  BY <1>3, <1>4, <1>5, <1>6, AstrayKeeps

\* Bytes read behind a cut argument that are no whole piece yet.
LEMMA PiecesKeep ==
  ASSUME LoopInv, loop.pc = "reading", NEW c \in Clients, Fd = c, c \in astray,
         UNCHANGED <<loop, conn, wr, pipe, done, waits, astray>>,
         peer' \in [Clients -> Peers], \A d \in Clients : GoesOn(d),
         rd' \in [Clients -> Nat], rd'[c] <= wr[c], \A d \in Clients \ {c} : rd'[d] = rd[d]
  PROVE  LoopInv'
<1>1. TypeOK /\ loop \in LoopType /\ (loop.stage # "array" => Lost)
  BY ReaderFacts
<1>2. TypeOK'
  <2>1. \A d \in Clients : rd'[d] <= wr[d]
    BY <1>1, TypesOf
  <2>2. QED
    BY <1>1, <2>1, TypesOf DEF TypeOK, LoopType
<1>3. ReaderStep(c)
  BY DEF ReaderStep, Fd
<1>4. EndHasACause'
  BY NotEnded
<1>5. loop'.stage # "array" => Lost'
  BY <1>1 DEF Lost
<1>6. QED
  BY <1>2, <1>3, <1>4, <1>5, AstrayKeeps

LEMMA ReadAstrayKeeps ==
  ASSUME LoopInv, ReadAstray
  PROVE  LoopInv'
<1>1. /\ loop.pc = "reading" /\ Fd \in astray /\ UNCHANGED <<peer, wr, pipe, astray, done, waits>>
      /\ loop.stage # "array" => loop.left > 0
      /\ \/ UNCHANGED <<loop, conn>>
         \/ Fail("aborted") /\ UNCHANGED conn
         \/ Throw /\ UNCHANGED conn
         \/ NoArguments
         \/ (\E n \in 1 .. MaxCount : Begin(n)) /\ UNCHANGED conn
         \/ loop.stage # "array" /\ AddArg("broken") /\ UNCHANGED conn
  BY DEF ReadAstray, InStep
<1>2. TypeOK /\ loop \in LoopType /\ Reader
  BY <1>1, Loops
<1>3. PICK c \in Clients : Fd = c
  BY <1>1, <1>2 DEF Reader
<1>4. PICK k \in 1 .. Unread(c) : Take(k)
  BY <1>3 DEF ReadAstray
<1>5. /\ rd' \in [Clients -> Nat] /\ rd'[c] <= wr[c] /\ \A d \in Clients \ {c} : rd'[d] = rd[d]
  <2>1. k \in Nat /\ k <= Unread(c)
    BY <1>2, ClientTypes
  <2>2. rd' = [rd EXCEPT ![c] = @ + k]
    BY <1>3, <1>4 DEF Take
  <2>3. QED
    BY <1>2, <2>1, <2>2, Taken
<1>6. c \in astray /\ astray # {} /\ Idle(c)'
  BY <1>1, <1>3 DEF Idle
<1>7. peer' \in [Clients -> Peers] /\ (\A d \in Clients : GoesOn(d)) /\ waits' \in Nat
      /\ done' \in DoneType
  BY <1>1, <1>2, AllGoOn, TypesOf
<1>8. CASE UNCHANGED <<loop, conn>>
  BY <1>1, <1>3, <1>5, <1>6, <1>7, <1>8, PiecesKeep
<1>9. CASE Fail("aborted") /\ UNCHANGED conn
  <2>1. loop'.pc = "aborted" /\ "aborted" \in Ends
    BY <1>2, <1>9 DEF Fail, LoopType, Ends
  <2>2. EndHasACause'
    BY <1>1, <1>6, <2>1 DEF EndHasACause
  <2>3. ParsedFrom(c)'
    BY <1>1, <1>7, SameArrays
  <2>4. QED
    BY <1>1, <1>3, <1>5, <1>7, <1>9, <2>1, <2>2, <2>3, FailKeeps
<1>10. CASE Throw /\ UNCHANGED conn
  BY <1>1, <1>3, <1>5, <1>6, <1>7, <1>10, ThrowKeeps
<1>11. CASE NoArguments
  <2>1. CASE InWait
    <3>1. loop' = [loop EXCEPT !.pc = "waiting"] /\ UNCHANGED conn
      BY <1>11, <2>1 DEF NoArguments
    <3>2. QED
      BY <1>1, <1>3, <1>5, <1>6, <2>1, <3>1, GivesUpKeeps
  <2>2. CASE ~InWait
    <3>1. loop' = Rescan(loop) /\ conn' = [conn EXCEPT ![c] = "closed"]
      BY <1>3, <1>11, <2>2 DEF NoArguments
    <3>2. QED
      BY <1>1, <1>3, <1>5, <1>6, <2>2, <3>1, ClosingKeeps
  <2>3. QED
    BY <2>1, <2>2
<1>12. ASSUME NEW n \in 1 .. MaxCount, Begin(n), UNCHANGED conn
       PROVE  LoopInv'
  BY <1>1, <1>3, <1>5, <1>6, <1>12, FoundKeeps
<1>13. CASE loop.stage # "array" /\ AddArg("broken") /\ UNCHANGED conn
  BY <1>1, <1>3, <1>5, <1>6, <1>13, BrokenKeeps DEF Parsing
<1>14. QED
  BY <1>1, <1>8, <1>9, <1>10, <1>11, <1>12, <1>13

\* A connection from which nothing will come, in the middle of a command.
LEMMA MissingKeeps ==
  ASSUME LoopInv, Parsing, NEW c \in Clients, Fd = c, loop.left > 0, Dead(c), c \notin astray,
         AddArg("missing"), UNCHANGED <<conn, peer, wr, rd, pipe, done, waits, astray>>
  PROVE  LoopInv'
<1>1. loop.pc = "reading" /\ loop.stage # "array"
  BY DEF Parsing
<1>2. /\ TypeOK /\ InCommand /\ loop.left \in Nat /\ loop.size \in Nat /\ loop.stage \in Stages
  BY <1>1, ReaderFacts
<1>3. wr[c] = rd[c] /\ wr[c] \in Nat /\ rd \in [Clients -> Nat]
  BY <1>2, ClientTypes, TypesOf DEF Dead, Unread
<1>4. wr[c] < Ending(c)
  <2>1. CASE ReadsNothing
    BY <2>1 DEF ReadsNothing
  <2>2. CASE ReadsWhole
    <3>1. PICK p : p = Starts(c, Len(loop.args))
      OBVIOUS
    <3>2. PICK a : a = Sent(c)[Len(loop.args) + 1]
      OBVIOUS
    <3>3. /\ p \in Nat /\ a \in Nat /\ Ending(c) \in Nat /\ p + ArgLength(a) <= Ending(c)
      BY <3>1, <3>2, NextArg
    <3>4. CASE loop.stage = "bulk"
      <4>1. rd[c] = p
        BY <2>2, <3>1, <3>4 DEF ReadsWhole, AtStage
      <4>2. ArgLength(a) \in Nat /\ ArgLength(a) >= 1
        BY <3>3 DEF ArgLength
      <4>3. QED
        BY <1>3, <3>3, <4>1, <4>2
    <3>5. CASE loop.stage # "bulk"
      <4>1. loop.size = a /\ a > 0
        BY <1>2, <3>2, <3>5 DEF InCommand, InPieces
      <4>2. ArgLength(a) = a + 3
        BY <3>3, <4>1 DEF ArgLength
      <4>3. loop.stage \in {"content", "cr", "lf"}
        BY <1>1, <1>2, <3>5 DEF Stages
      <4>4. rd[c] <= p + 2 + a
        <5>1. CASE loop.stage = "content"
          BY <2>2, <3>1, <3>3, <4>1, <5>1 DEF ReadsWhole, AtStage
        <5>2. CASE loop.stage = "cr"
          BY <2>2, <3>1, <3>3, <4>1, <5>2 DEF ReadsWhole, AtStage
        <5>3. CASE loop.stage = "lf"
          BY <2>2, <3>1, <3>3, <4>1, <5>3 DEF ReadsWhole, AtStage
        <5>4. QED
          BY <4>3, <5>1, <5>2, <5>3
      <4>5. QED
        BY <1>3, <3>3, <4>2, <4>4
    <3>6. QED
      BY <3>4, <3>5
  <2>3. QED
    BY <1>2, <2>1, <2>2 DEF InCommand
<1>5. rd' \in [Clients -> Nat] /\ rd'[c] <= wr[c] /\ rd'[c] = rd[c]
      /\ \A d \in Clients \ {c} : rd'[d] = rd[d]
  BY <1>3
<1>6. "missing" \in ArgValues
  BY DEF ArgValues
<1>7. QED
  BY <1>4, <1>5, <1>6, AddArgKeeps

LEMMA ReadMissingKeeps ==
  ASSUME LoopInv, ReadMissing
  PROVE  LoopInv'
<1>1. /\ loop.pc = "reading" /\ loop.stage # "array" /\ loop.left > 0 /\ AtEof(Fd)
      /\ AddArg(IF Fd \notin astray THEN "missing" ELSE "broken")
      /\ UNCHANGED <<conn, peer, wr, rd, pipe, done, waits, astray>>
  BY DEF ReadMissing, InStep
<1>2. TypeOK /\ Fd \in Clients /\ Parsing
  BY <1>1, Loops DEF Reader, Parsing
<1>3. PICK c \in Clients : Fd = c
  BY <1>2
<1>4. Dead(c)
  BY <1>1, <1>3 DEF AtEof, Dead
<1>5. CASE c \notin astray
  <2>1. AddArg("missing")
    BY <1>1, <1>3, <1>5
  <2>2. QED
    BY <1>1, <1>2, <1>3, <1>4, <1>5, <2>1, MissingKeeps
<1>6. CASE c \in astray
  <2>1. AddArg("broken")
    BY <1>1, <1>3, <1>6
  <2>2. rd' \in [Clients -> Nat] /\ rd'[c] <= wr[c] /\ \A d \in Clients \ {c} : rd'[d] = rd[d]
    BY <1>1, <1>2, TypesOf
  <2>3. QED
    BY <1>1, <1>2, <1>3, <1>6, <2>1, <2>2, BrokenKeeps
<1>7. QED
  BY <1>5, <1>6

\* A read of the content that fails: what was to come does not, and nobody looks.
LEMMA UnseenKeeps ==
  ASSUME LoopInv, Parsing, NEW c \in Clients, Fd = c, c \notin astray,
         UNCHANGED <<loop, conn, wr, rd, pipe, done, waits, astray>>,
         peer' \in [Clients -> Peers], \A d \in Clients : GoesOn(d)
  PROVE  LoopInv'
<1>1. TypeOK /\ loop \in LoopType /\ InCommand /\ loop.pc = "reading" /\ conn[c] = "watched"
  BY ReaderFacts DEF Parsing
<1>2. TypeOK'
  BY <1>1, TypesOf DEF TypeOK, LoopType
<1>3. ReaderStep(c)
  BY <1>1 DEF ReaderStep, Parsing, Fd
<1>4. ParsedFrom(c)'
  BY SameArrays
<1>5. EndHasACause'
  BY <1>1, NotEnded
<1>6. InCommand'
  <2>1. Fd' = c /\ Finished(c)' /\ Behindhand(c)' /\ Sent(c)' = Sent(c) /\ Ending(c)' = Ending(c)
    BY <1>1 DEF InCommand, Fd, Finished, Behindhand, Sent, Ending
  <2>2. ReadsWhole => ReadsWhole'
    BY <2>1 DEF ReadsWhole, AtStage, Starts
  <2>3. ReadsNothing => ReadsNothing'
    BY <2>1 DEF ReadsNothing, Dead, Unread, GoesOn
  <2>4. InPieces => InPieces'
    BY <2>1 DEF InPieces
  <2>5. QED
    BY <1>1, <2>1, <2>2, <2>3, <2>4 DEF InCommand
<1>7. Parsing' /\ InStep' /\ conn'[c] # "closed"
  BY <1>1 DEF Parsing, InStep, Fd
<1>8. QED
  BY <1>2, <1>3, <1>4, <1>5, <1>6, <1>7, ReaderKeeps

LEMMA ReadErrorKeeps ==
  ASSUME LoopInv, ReadError
  PROVE  LoopInv'
<1>1. /\ loop.pc = "reading" /\ AtError(Fd) /\ (loop.stage # "array" => loop.left > 0)
      /\ peer' = [peer EXCEPT ![Fd] = "gone"]
      /\ UNCHANGED <<conn, wr, rd, pipe, astray, done, waits>>
      /\ \/ Throw
         \/ (loop.stage = "content" \/ Fd \in astray) /\ UNCHANGED loop
  BY DEF ReadError, InStep
<1>2. TypeOK /\ loop \in LoopType /\ Reader
  BY <1>1, Loops
<1>3. PICK c \in Clients : Fd = c
  BY <1>1, <1>2 DEF Reader
<1>4. peer[c] = "reset" /\ Unread(c) = 0
  BY <1>1, <1>3 DEF AtError
<1>5. /\ rd' \in [Clients -> Nat] /\ rd'[c] <= wr[c] /\ \A d \in Clients \ {c} : rd'[d] = rd[d]
  BY <1>1, <1>2, TypesOf
<1>6. /\ peer' \in [Clients -> Peers] /\ peer'[c] = "gone"
      /\ \A d \in Clients \ {c} : peer'[d] = peer[d]
  BY <1>1, <1>2, <1>3, TypesOf DEF Peers
<1>7. \A d \in Clients : GoesOn(d)
  BY <1>1, <1>4, <1>6 DEF GoesOn
<1>8. Idle(c)'
  BY <1>1, <1>4, <1>6 DEF Idle, Dead, Unread
<1>9. CASE Throw
  BY <1>1, <1>3, <1>5, <1>6, <1>7, <1>8, <1>9, ThrowKeeps
<1>10. CASE c \in astray /\ UNCHANGED loop
  BY <1>1, <1>3, <1>5, <1>6, <1>7, <1>10, PiecesKeep
<1>11. CASE loop.stage = "content" /\ c \notin astray /\ UNCHANGED loop
  BY <1>1, <1>3, <1>6, <1>7, <1>11, UnseenKeeps DEF Parsing
<1>12. QED
  BY <1>1, <1>3, <1>9, <1>10, <1>11


\* An array is recorded as parsed from c: as sent, or broken behind a cut argument; and
\* c is idle again.
LEMMA RecordsKeeps ==
  ASSUME LoopInv, Parsed, NEW c \in Clients, Fd = c, NEW by \in {"loop", "wait"}, Records(by),
         UNCHANGED <<conn, wr, rd, astray>>, \A d \in Clients : GoesOn(d)
  PROVE  /\ done' \in DoneType /\ \A d \in Clients \ {c} : done'[d] = done[d]
         /\ done'[c] # <<>> /\ done'[c][Len(done'[c])].args = loop.args
         /\ ParsedFrom(c)' /\ Idle(c)'
<1>1. loop.pc = "reading" /\ loop.stage = "bulk" /\ loop.left = 0
  BY DEF Parsed
<1>2. /\ TypeOK /\ loop.args \in Seq(ArgValues) /\ Len(loop.args) \in Nat
      /\ (IF c \in astray THEN Lost ELSE InCommand) /\ ParsedFrom(c)
  BY <1>1, ReaderFacts
<1>3. done \in DoneType
  BY <1>2, TypesOf
<1> DEFINE rec == [by |-> by, args |-> loop.args]
           T == [by : {"loop", "wait"}, args : Seq(ArgValues)]
<1>4. rec \in T /\ rec.args = loop.args
  BY <1>2
<1>5. done[c] \in Seq(T) /\ Len(done[c]) \in Nat
  BY <1>2, ClientTypes
<1>6. done' = [done EXCEPT ![c] = Append(done[c], rec)]
  BY DEF Records
<1> HIDE DEF rec, T
<1>7. PICK n : n = Len(done[c])
  OBVIOUS
<1>8. /\ Append(done[c], rec) \in Seq(T) /\ Len(Append(done[c], rec)) = n + 1
      /\ Append(done[c], rec)[n + 1] = rec /\ DOMAIN Append(done[c], rec) = 1 .. n + 1
      /\ \A k \in 1 .. n : Append(done[c], rec)[k] = done[c][k]
      /\ Append(done[c], rec) # <<>>
  BY <1>4, <1>5, <1>7
<1>9. /\ done' \in DoneType /\ done'[c] = Append(done[c], rec)
      /\ \A d \in Clients \ {c} : done'[d] = done[d]
  BY <1>3, <1>6, <1>8 DEF DoneType, T
<1>10. /\ n \in Nat /\ Len(done'[c]) = n + 1 /\ DOMAIN done'[c] = 1 .. n + 1
       /\ done'[c][n + 1].args = loop.args /\ DOMAIN done[c] = 1 .. n
       /\ \A k \in 1 .. n : done'[c][k] = done[c][k]
  BY <1>4, <1>5, <1>7, <1>8, <1>9
<1>11. \A k \in 1 .. n : Whole(c, k) => Whole(c, k)'
  BY <1>10 DEF Whole, SameLength
<1>12. CASE c \in astray
  <2>1. PICK m \in DOMAIN Commands[c] : CutAt(c, m)
    BY <1>2, <1>12 DEF ParsedFrom
  <2>2. m \in Nat /\ m <= n + 1
    BY <1>7, <2>1, CommandsTypes DEF CutAt
  <2>3. \A k \in 1 .. n : IF k < m THEN Whole(c, k) ELSE "broken" \in ToSet(done[c][k].args)
    BY <1>10, <2>1 DEF CutAt
  <2>4. "broken" \in ToSet(loop.args)
    BY <1>1, <1>2, <1>12 DEF Lost
  <2>5. ASSUME NEW k \in 1 .. n + 1
        PROVE  IF k < m THEN Whole(c, k)' ELSE "broken" \in ToSet(done'[c][k].args)
    <3>1. CASE k \in 1 .. n
      BY <1>10, <1>11, <2>3, <3>1
    <3>2. CASE k = n + 1
      BY <1>10, <2>2, <2>4, <3>2
    <3>3. QED
      BY <1>10, <3>1, <3>2
  <2>6. CutAt(c, m)'
    <3>1. \E i \in DOMAIN Commands[c][m].args : Commands[c][m].args[i] > 1
      BY <2>1 DEF CutAt
    <3>2. m <= Len(done'[c]) + 1
      BY <1>10, <2>2
    <3>3. QED
      BY <1>10, <2>5, <3>1, <3>2 DEF CutAt
  <2>7. ParsedFrom(c)'
    BY <1>12, <2>6 DEF ParsedFrom
  <2>8. Idle(c)'
    BY <1>12 DEF Idle
  <2>9. QED
    BY <1>8, <1>9, <1>10, <2>7, <2>8
<1>13. CASE c \notin astray
  <2>1. InCommand
    BY <1>2, <1>13
  <2>2. Sent(c) = Commands[c][n + 1].args /\ Ending(c) = EndOf[c][n + 1]
    BY <1>7 DEF Sent, Ending
  <2>3. Finished(c) /\ Behindhand(c) /\ Len(loop.args) = Len(Sent(c)) /\ n + 1 \in DOMAIN Commands[c]
    <3>1. Len(loop.args) + 0 = Len(loop.args)
      BY <1>2
    <3>2. Finished(c) /\ Behindhand(c) /\ Len(loop.args) = Len(Sent(c))
      BY <1>1, <2>1, <3>1 DEF InCommand
    <3>3. QED
      BY <1>2, <1>7, <3>2, SentPlaces
  <2>4. ASSUME NEW k \in 1 .. n PROVE Whole(c, k)
    <3>1. Whole(c, k) \/ Incomplete(c, k)
      BY <1>2, <1>10, <1>13 DEF ParsedFrom
    <3>2. done[c] # <<>>
      BY <1>5, <1>7, <1>10
    <3>3. Incomplete(c, k) => Whole(c, k)
      BY <2>3, <3>2 DEF Incomplete, Finished, Whole
    <3>4. QED
      BY <3>1, <3>3
  <2>5. SameLength(c, n + 1)'
    BY <1>10, <2>2, <2>3 DEF SameLength
  <2>6. CASE ReadsNothing
    <3>1. "broken" \notin ToSet(loop.args) /\ Dead(c) /\ wr[c] < EndOf[c][n + 1]
      BY <2>2, <2>6 DEF ReadsNothing
    <3>2. peer'[c] # "open" /\ Dead(c)'
      BY <3>1 DEF Dead, GoesOn, Unread
    <3>3. Incomplete(c, n + 1)'
      BY <1>10, <2>5, <3>1, <3>2 DEF Incomplete
    <3>4. \A k \in 1 .. n + 1 : k \in 1 .. n \/ k = n + 1
      BY <1>10
    <3>5. ParsedFrom(c)'
      BY <1>10, <1>11, <1>13, <2>4, <3>3, <3>4 DEF ParsedFrom
    <3>6. QED
      BY <1>8, <1>9, <1>10, <3>2, <3>5 DEF Idle
  <2>7. CASE ReadsWhole
    <3>1. AllWhole(loop.args) /\ rd[c] = Starts(c, Len(loop.args))
      BY <1>1, <2>7 DEF ReadsWhole, AtStage
    <3>2. rd[c] = EndOf[c][n + 1]
      BY <1>2, <2>2, <2>3, <3>1, SentPlaces
    <3>3. Whole(c, n + 1)'
      BY <1>10, <2>5, <3>1 DEF Whole
    <3>4. \A k \in 1 .. n + 1 : k \in 1 .. n \/ k = n + 1
      BY <1>10
    <3>5. ParsedFrom(c)'
      BY <1>10, <1>11, <1>13, <2>4, <3>3, <3>4 DEF ParsedFrom
    <3>6. Finished(c)'
      BY <1>10, <3>1 DEF Finished
    <3>7. Len(done'[c]) <= Len(Commands[c])
      <4>1. Len(Commands[c]) \in Nat
        BY CommandsTypes
      <4>2. QED
        BY <1>7, <1>10, <2>3, <4>1 DEF Behindhand
    <3>8. rd'[c] = EndOf[c][Len(done'[c])]
      BY <1>10, <3>2
    <3>9. Idle(c)'
      BY <3>6, <3>7, <3>8 DEF Idle, Clean
    <3>10. QED
      BY <1>8, <1>9, <1>10, <3>5, <3>9
  <2>8. QED
    BY <2>1, <2>6, <2>7 DEF InCommand
<1>14. QED
  BY <1>12, <1>13

\* What the record of the last array says of the end of the loop.
LEMMA LastArgs ==
  ASSUME NEW c \in Clients, done'[c] # <<>>, done'[c][Len(done'[c])].args = loop.args
  PROVE  loop.args \in Args'
BY DEF Args

\* The loop ends after it has executed a command of c.
LEMMA EndsAfter ==
  ASSUME LoopInv, Parsed, NEW c \in Clients, Fd = c, NEW end \in {"thrown", "killed"}, Fail(end),
         NEW by \in {"loop", "wait"}, Records(by),
         UNCHANGED <<conn, peer, wr, rd, pipe, astray>>, waits' \in Nat,
         \/ end = "killed" /\ \E d \in Clients : peer[d] = "gone"
         \/ end = "thrown" /\ \/ \E d \in Clients : peer[d] \in {"reset", "gone"}
                              \/ \E r \in Replicas : conn[r] = "closed"
                              \/ ~AllWhole(loop.args)
  PROVE  LoopInv'
<1>1. loop.pc = "reading" /\ loop.stage = "bulk" /\ loop.left = 0
  BY DEF Parsed
<1>2. /\ TypeOK /\ loop \in LoopType /\ loop.args \in Seq(ArgValues)
      /\ c \notin astray => InCommand
  BY <1>1, ReaderFacts
<1>3. \A d \in Clients : GoesOn(d)
  BY AllGoOn
<1>4. /\ done' \in DoneType /\ \A d \in Clients \ {c} : done'[d] = done[d]
      /\ done'[c] # <<>> /\ done'[c][Len(done'[c])].args = loop.args
      /\ ParsedFrom(c)'
  BY <1>3, RecordsKeeps
<1>5. loop'.pc = end /\ end \in Ends
  BY <1>2 DEF Fail, LoopType, Ends
<1>6. ~AllWhole(loop.args) => astray # {} \/ "missing" \in ToSet(loop.args)
  <2>1. ToSet(loop.args) \subseteq ArgValues
    BY <1>2 DEF ToSet
  <2>2. ~AllWhole(loop.args) => "missing" \in ToSet(loop.args) \/ "broken" \in ToSet(loop.args)
    BY <2>1 DEF AllWhole, ArgValues
  <2>3. InCommand => AllWhole(loop.args) \/ "broken" \notin ToSet(loop.args)
    BY DEF InCommand, ReadsWhole, ReadsNothing
  <2>4. QED
    BY <1>2, <2>2, <2>3
<1>7. EndHasACause'
  <2>1. CASE end = "killed"
    BY <1>5, <2>1 DEF EndHasACause
  <2>2. CASE end = "thrown" /\ ~AllWhole(loop.args)
    <3>1. loop.args \in Args'
      BY <1>4, LastArgs
    <3>2. QED
      BY <1>5, <1>6, <2>2, <3>1 DEF EndHasACause
  <2>3. CASE end = "thrown" /\ \/ \E d \in Clients : peer[d] \in {"reset", "gone"}
                               \/ \E r \in Replicas : conn[r] = "closed"
    BY <1>5, <2>3 DEF EndHasACause
  <2>4. QED
    BY <2>1, <2>2, <2>3
<1>8. /\ rd' \in [Clients -> Nat] /\ rd'[c] <= wr[c] /\ \A d \in Clients \ {c} : rd'[d] = rd[d]
      /\ peer' \in [Clients -> Peers]
  BY <1>2, TypesOf
<1>9. QED
  BY <1>1, <1>3, <1>4, <1>5, <1>7, <1>8, FailKeeps

\* The loop goes on after a command of c: with the scan, or with the WAIT it is.
LEMMA GoesOnAfter ==
  ASSUME LoopInv, Parsed, NEW c \in Clients, Fd = c, NEW by \in {"loop", "wait"}, Records(by),
         UNCHANGED <<conn, wr, rd, pipe, astray>>, waits' \in Nat,
         peer' \in [Clients -> Peers], \A d \in Clients : GoesOn(d),
         loop' \in LoopType, loop'.ready = loop.ready, loop'.robbed = loop.robbed,
         \/ loop'.pc = "scan" /\ loop'.waiter = Nobody /\ ~InWait
         \/ /\ loop'.pc = "waiting" /\ loop'.waiter # Nobody
            /\ \A r \in loop'.watch : conn[r] = "watched"
  PROVE  LoopInv'
<1>1. loop.pc = "reading" /\ loop.stage = "bulk" /\ loop.left = 0
  BY DEF Parsed
<1>2. TypeOK /\ loop \in LoopType /\ conn[c] = "watched"
  BY <1>1, ReaderFacts
<1>3. /\ done' \in DoneType /\ \A d \in Clients \ {c} : done'[d] = done[d]
      /\ ParsedFrom(c)' /\ Idle(c)'
  BY RecordsKeeps
<1>4. TypeOK'
  BY <1>2, <1>3, TypesOf DEF TypeOK, LoopType, DoneType
<1>5. ReaderStep(c)
  BY <1>1, <1>3 DEF ReaderStep
<1>6. EndHasACause'
  BY NotEnded
<1>7. ~Parsing' /\ conn'[c] # "closed"
  BY <1>2 DEF Parsing
<1>8. QED
  BY <1>3, <1>4, <1>5, <1>6, <1>7, ReaderKeeps

LEMMA ExecuteKeeps ==
  ASSUME LoopInv, Execute
  PROVE  LoopInv'
<1>1. /\ Parsed /\ ~InWait /\ Records("loop") /\ UNCHANGED <<conn, wr, rd, pipe, astray>>
      /\ \/ /\ waits' = waits + 1
            /\ WriteTo({}, Replicas, [loop EXCEPT !.pc = "waiting", !.waiter = Fd,
                                                  !.watch = Replicas])
         \/ /\ \E rs \in SUBSET Replicas : WriteTo({Fd}, rs, Rescan(loop))
            /\ UNCHANGED waits
         \/ ~AllWhole(loop.args) /\ Fail("thrown") /\ UNCHANGED <<peer, waits>>
  BY DEF Execute
<1>2. loop.pc = "reading" /\ loop.stage = "bulk" /\ loop.left = 0
  BY <1>1 DEF Parsed
<1>3. TypeOK /\ loop \in LoopType /\ Reader /\ Watching
  BY <1>2, Loops
<1>4. PICK c \in Clients : Fd = c
  BY <1>2, <1>3 DEF Reader
<1>5. waits' \in Nat
  BY <1>1, <1>3, TypesOf
<1>6. ASSUME UNCHANGED peer,
             \/ Fail("killed") /\ \E d \in Clients : peer[d] = "gone"
             \/ Fail("thrown") /\ \/ \E d \in Clients : peer[d] \in {"reset", "gone"}
                                  \/ \E r \in Replicas : conn[r] = "closed"
                                  \/ ~AllWhole(loop.args)
      PROVE  LoopInv'
  BY <1>1, <1>4, <1>5, <1>6, EndsAfter
<1>7. ASSUME WriteTo({}, Replicas, [loop EXCEPT !.pc = "waiting", !.waiter = Fd,
                                                !.watch = Replicas])
      PROVE  LoopInv'
  <2> DEFINE l == [loop EXCEPT !.pc = "waiting", !.waiter = Fd, !.watch = Replicas]
  <2>1. /\ l \in LoopType /\ l.pc = "waiting" /\ l.waiter = c /\ l.watch = Replicas
        /\ l.ready = loop.ready /\ l.robbed = loop.robbed
    BY <1>3, <1>4 DEF LoopType
  <2>2. WriteTo({}, Replicas, l)
    BY <1>7
  <2> HIDE DEF l
  <2>3. {} \in SUBSET Clients /\ Replicas \in SUBSET Replicas
    OBVIOUS
  <2>4. \/ /\ Fail("killed") /\ UNCHANGED peer
           /\ \E d \in Clients : peer[d] = "gone"
        \/ /\ Fail("thrown") /\ UNCHANGED peer
           /\ \/ \E d \in Clients : peer[d] \in {"reset", "gone"}
              \/ \E r \in Replicas : conn[r] = "closed"
        \/ /\ Written({} \cup Replicas) /\ loop' = l
           /\ \A r \in Replicas : conn[r] # "closed"
    BY <1>3, <2>2, <2>3, WriteEnds
  <2>5. CASE /\ Written({} \cup Replicas) /\ loop' = l
             /\ \A r \in Replicas : conn[r] # "closed"
    <3>1. peer' \in [Clients -> Peers] /\ \A d \in Clients : GoesOn(d)
      BY <1>1, <1>3, <2>5, WritesGoOn
    <3>2. \A r \in loop'.watch : conn[r] = "watched"
      BY <1>3, <2>1, <2>5 DEF Watching
    <3>3. loop'.waiter # Nobody
      BY <2>1, <2>5, Descriptors
    <3>4. QED
      BY <1>1, <1>4, <1>5, <2>1, <2>5, <3>1, <3>2, <3>3, GoesOnAfter
  <2>6. QED
    BY <1>6, <2>4, <2>5
<1>8. ASSUME NEW rs \in SUBSET Replicas, WriteTo({Fd}, rs, Rescan(loop))
      PROVE  LoopInv'
  <2>1. /\ Rescan(loop) \in LoopType /\ Rescan(loop).pc = "scan" /\ Rescan(loop).waiter = Nobody
        /\ Rescan(loop).ready = loop.ready /\ Rescan(loop).robbed = loop.robbed
    BY <1>3, RescanType, RescanFields
  <2>2. {Fd} \in SUBSET Clients
    BY <1>4
  <2>3. \/ /\ Fail("killed") /\ UNCHANGED peer
           /\ \E d \in Clients : peer[d] = "gone"
        \/ /\ Fail("thrown") /\ UNCHANGED peer
           /\ \/ \E d \in Clients : peer[d] \in {"reset", "gone"}
              \/ \E r \in Replicas : conn[r] = "closed"
        \/ Written({Fd} \cup rs) /\ loop' = Rescan(loop)
    BY <1>3, <1>8, <2>2, WriteEnds
  <2>4. CASE Written({Fd} \cup rs) /\ loop' = Rescan(loop)
    <3>1. peer' \in [Clients -> Peers] /\ \A d \in Clients : GoesOn(d)
      BY <1>1, <1>3, <2>4, WritesGoOn
    <3>2. QED
      BY <1>1, <1>4, <1>5, <2>1, <2>4, <3>1, GoesOnAfter
  <2>5. QED
    BY <1>6, <2>3, <2>4
<1>9. QED
  BY <1>1, <1>6, <1>7, <1>8

LEMMA WaitHeardKeeps ==
  ASSUME LoopInv, WaitHeard
  PROVE  LoopInv'
<1>1. /\ Parsed /\ InWait /\ Records("wait") /\ UNCHANGED <<conn, peer, wr, rd, pipe, waits, astray>>
      /\ \/ loop' = [loop EXCEPT !.pc = "waiting", !.watch = @ \ {Fd}]
         \/ loop' = [loop EXCEPT !.pc = "waiting"]
  BY DEF WaitHeard
<1>2. loop.pc = "reading" /\ loop.stage = "bulk" /\ loop.left = 0
  BY <1>1 DEF Parsed
<1>3. TypeOK /\ loop \in LoopType /\ Reader
  BY <1>2, Loops
<1>4. PICK c \in Clients : Fd = c
  BY <1>2, <1>3 DEF Reader
<1>5. PICK w \in SUBSET loop.watch : loop' = [loop EXCEPT !.pc = "waiting", !.watch = w]
  <2>1. loop = [loop EXCEPT !.watch = loop.watch]
    BY <1>3 DEF LoopType
  <2>2. loop.watch \ {Fd} \in SUBSET loop.watch /\ loop.watch \in SUBSET loop.watch
    OBVIOUS
  <2>3. [loop EXCEPT !.pc = "waiting"] = [loop EXCEPT !.pc = "waiting", !.watch = loop.watch]
    BY <1>3 DEF LoopType
  <2>4. QED
    BY <1>1, <2>2, <2>3
<1>6. /\ loop' \in LoopType /\ loop'.pc = "waiting" /\ loop'.ready = loop.ready
      /\ loop'.robbed = loop.robbed /\ loop'.waiter = loop.waiter /\ loop'.watch = w
  <2>1. w \in SUBSET Replicas
    BY <1>3, <1>5 DEF LoopType
  <2>2. QED
    BY <1>3, <1>5, <2>1 DEF LoopType
<1>7. \A r \in loop'.watch : conn[r] = "watched"
  BY <1>1, <1>2, <1>3, <1>5, <1>6 DEF Reader
<1>8. loop'.waiter # Nobody
  BY <1>1, <1>6 DEF InWait
<1>9. (\A d \in Clients : GoesOn(d)) /\ peer' \in [Clients -> Peers] /\ waits' \in Nat
  BY <1>1, <1>3, AllGoOn, TypesOf
<1>10. QED
  BY <1>1, <1>4, <1>6, <1>7, <1>8, <1>9, GoesOnAfter

-----------------------------------------------------------------------------
(* The invariant and what follows.                                         *)

LEMMA LoopInvInit == Init => LoopInv
<1> SUFFICES ASSUME Init PROVE LoopInv
  OBVIOUS
<1>1. /\ conn = [c \in Clients |-> IF c \in Replicas THEN "watched" ELSE "out"]
      /\ peer = [c \in Clients |-> "open"] /\ wr = [c \in Clients |-> 0]
      /\ rd = [c \in Clients |-> 0] /\ pipe = FALSE /\ loop = StartLoop
      /\ done = [c \in Clients |-> <<>>] /\ waits = 0 /\ astray = {}
  BY DEF Init
<1>2. TypeOK
  <2>1. loop \in LoopType
    BY <1>1, StartType
  <2>2. \A c \in Clients : rd[c] <= wr[c] /\ wr[c] <= Len(Stream[c])
    BY <1>1, StreamCommands
  <2>3. done \in DoneType
    BY <1>1 DEF DoneType
  <2>4. QED
    BY <1>1, <2>1, <2>2, <2>3, TypesOf DEF Peers
<1>3. ParsedAsSent
  BY <1>1 DEF ParsedAsSent, ParsedFrom
<1>4. loop.pc = "select" /\ loop.ready = {} /\ ~InWait
  BY <1>1 DEF StartLoop, InWait
<1>5. ClosedWell
  BY <1>1 DEF ClosedWell
<1>6. EndHasACause
  BY <1>4 DEF EndHasACause
<1>7. Watching
  BY <1>1, <1>4, Descriptors DEF Watching
<1>8. Reader
  BY <1>4 DEF Reader
<1>9. Places
  <2>1. ASSUME NEW c \in Clients PROVE Clean(c)
    <3>1. done[c] = <<>> /\ rd[c] = 0
      BY <1>1
    <3>2. Len(done[c]) = 0 /\ EndOf[c][0] = 0 /\ 0 <= Len(Commands[c])
      BY <3>1, StreamCommands, CommandsTypes
    <3>3. QED
      BY <3>1, <3>2 DEF Clean, Finished
  <2>2. QED
    BY <1>4, <2>1 DEF Places, Idle, Parsing
<1>10. QED
  BY <1>2, <1>3, <1>5, <1>6, <1>7, <1>8, <1>9 DEF LoopInv

LEMMA LoopInvNext ==
  ASSUME LoopInv, [Next]_vars
  PROVE  LoopInv'
<1>1. CASE LoopStep
  <2>1. CASE ReadHeader \/ ReadBulk \/ ReadContent \/ ReadSlashRN \/ ReadAstray
             \/ ReadMissing \/ ReadError \/ Execute \/ WaitHeard
    BY <2>1, ReadHeaderKeeps, ReadBulkKeeps, ReadContentKeeps, ReadSlashRNKeeps,
       ReadAstrayKeeps, ReadMissingKeeps, ReadErrorKeeps, ExecuteKeeps, WaitHeardKeeps
  <2>2. CASE \/ Select \/ ScanEnd \/ AcceptNewConnection \/ SeeSignal \/ HandleConnection
             \/ WaitTimeout \/ \E r \in Replicas : WaitReads(r)
    BY <2>2, SelectKeeps, ScanEndKeeps, AcceptKeeps, SeeSignalKeeps, HandleKeeps,
       WaitTimeoutKeeps, WaitReadsKeeps
  <2>3. QED
    BY <1>1, <2>1, <2>2 DEF LoopStep
<1>2. ASSUME NEW c \in Clients,
             Connect(c) \/ Send(c) \/ \E how \in {"shut", "reset"} : Leave(c, how)
      PROVE  LoopInv'
  BY <1>2, ConnectKeeps, SendKeeps, LeaveKeeps
<1>3. QED
  BY <1>1, <1>2, SignalKeeps, StutterKeeps DEF Next

\* Everything the loop keeps, in every state it reaches.
THEOREM TypeCorrect == Spec => []TypeOK
<1>1. LoopInv => TypeOK
  BY DEF LoopInv
<1>2. QED
  BY <1>1, LoopInvInit, LoopInvNext, PTL DEF Spec

\* Commands are parsed in the order and with the arguments they were sent with, by the
\* loop or by WAIT, whatever the readers interleave with; arguments are missing only
\* from the last one, of a client that left inside of it.  Only a payload of more than
\* one byte that is not there in one read breaks this, for the command it belongs to and
\* for everything parsed from that connection afterwards (SocketReader::readBulkString).
THEOREM CommandsParsedAsSent == Spec => []ParsedAsSent
<1>1. LoopInv => ParsedAsSent
  BY DEF LoopInv
<1>2. QED
  BY <1>1, LoopInvInit, LoopInvNext, PTL DEF Spec

\* A connection of which no argument was cut is closed by the loop only when all of it
\* was read or at an empty array (HandleConnection, runEventLoop).
THEOREM ClosedWhenRead == Spec => []NothingUnreadAtClose
<1>1. LoopInv => NothingUnreadAtClose
  BY DEF LoopInv, ClosedWell, NothingUnreadAtClose, Left, EmptyNext, Behindhand, Sent
<1>2. QED
  BY <1>1, LoopInvInit, LoopInvNext, PTL DEF Spec

\* A loop that waits for a command which has not begun, of a connection of which no
\* argument was cut, has had its bytes read by WAIT after select (CommandHandler WAIT,
\* runEventLoop).
THEOREM OnlyWaitStalls == Spec => []StallsOnlyAfterWait
<1>1. LoopInv => StallsOnlyAfterWait
  <2> SUFFICES ASSUME LoopInv, StalledAtStart, InStep PROVE ~InWait /\ Fd \in loop.robbed
    BY DEF StallsOnlyAfterWait
  <2>1. loop.pc = "reading" /\ loop.stage = "array" /\ Unread(Fd) = 0 /\ peer[Fd] = "open"
    BY DEF StalledAtStart, Reading
  <2>2. Reader
    BY <2>1, Loops
  <2>3. ~(Unread(Fd) > 0) /\ ~AtError(Fd)
    BY <2>1 DEF AtError
  <2>4. QED
    BY <2>1, <2>2, <2>3 DEF Reader, Worth
<1>2. QED
  BY <1>1, LoopInvInit, LoopInvNext, PTL DEF Spec

\* The loop ends by a signal; by an assertion only where an argument was cut; by an
\* exception only after a cut, a command that its client did not complete, a reset, or
\* where a replica's connection has been closed and is written to all the same; and by
\* SIGPIPE only where a client is gone (runEventLoop, sendData, CommandHandler WAIT).
THEOREM LoopEndsForACause == Spec => []EndHasACause
<1>1. LoopInv => EndHasACause
  BY DEF LoopInv
<1>2. QED
  BY <1>1, LoopInvInit, LoopInvNext, PTL DEF Spec

=============================================================================
