--------------------------- MODULE StreamHandler ---------------------------
(***************************************************************************)
(* The streams with their blocking read (src/src/StreamHandler.cpp and     *)
(* src/src/Stream.cpp), driven by the event-loop thread and by the         *)
(* detached threads that XREAD BLOCK spawns when it finds nothing.         *)
(*                                                                         *)
(* A step of a thread is what it does under one acquisition of a lock:     *)
(* AddEntry and GetEntriesInRange under m_streamStoreMutex, the uses of    *)
(* m_blockingStreams under m_blockingStreamsMutex, EventWaiter under its   *)
(* own mutex.  The loop's reads of a store are one step: it alone writes.  *)
(*                                                                         *)
(* An entry is its identifier.  "-", "+" and a missing sequence number     *)
(* parse to zeros, and are written so.  A connection is served when its    *)
(* last read was answered, and stays open.                                 *)
(*                                                                         *)
(* A definition marked "Fault" is a mutated form of the one after it: with *)
(* it in place, a property named in PROJECT.json fails.                    *)
(***************************************************************************)
EXTENDS Integers, Sequences, FiniteSets, FiniteSetsExt

CONSTANTS
    Readers,    \* connections that call XREAD
    NoReader,   \* a value that is no reader
    Streams,    \* stream names
    Dollar,     \* "$": the identifier of the last entry
    Word,       \* the numbers of an unsigned long are 0 .. Word - 1
    Times,      \* what the system clock may read; it need not advance
    AddArgs,    \* for each stream, the identifiers XADD is given
    Asks,       \* for each reader, what its XREADs ask for
    Ranges      \* what XRANGE is given: a stream and two bounds

Numbers == 0 .. Word - 1
Ids == Numbers \X Numbers
Zero == <<0, 0>>

\* The identifier of an XADD: "5-7" is written, "5-*" is numbered, "*" is timed.
\* What parseEntryId makes of a star is 0.
Arg(form, id) == [form |-> form, id |-> id]
ArgForms == {"written", "numbered", "timed"}

ASSUME NoReaderAssumption == NoReader \notin Readers
ASSUME DollarAssumption == Dollar \notin Ids
ASSUME StreamsAssumption == Streams # {}
ASSUME WordAssumption == Word \in Nat /\ Word > 1
ASSUME TimesAssumption == Times \subseteq Numbers
ASSUME AddArgsAssumption == AddArgs \in [Streams -> SUBSET [form : ArgForms, id : Ids]]
ASSUME AsksAssumption ==
    Asks \in [Readers -> SUBSET (Seq([stream : Streams, from : Ids \cup {Dollar}]) \ {<<>>})]
ASSUME RangesAssumption == Ranges \subseteq Streams \X Ids \X Ids

VARIABLES
    stream,     \* m_streams: each Stream with its log, latest identifier and flags
    place,      \* m_blockingStreams: the one waiter of a stream
    loop,       \* the event-loop thread
    call,       \* the blocking XREAD of a reader: its EventWaiter and detached thread
    out,        \* the reply to XREAD or XRANGE sent by the last step, if it sent one
    alive       \* FALSE once the process has run into undefined behaviour

vars == <<stream, place, loop, call, out, alive>>

NoStream == [made |-> FALSE, log |-> {}, latest |-> Zero, first |-> FALSE, second |-> FALSE]
NoPlace == [reader |-> NoReader, wait |-> Zero]

LoopAt(pc, s, parsed, added, r, i) ==
    [pc |-> pc, stream |-> s, parsed |-> parsed, added |-> added, reader |-> r, i |-> i]
SomeStream == CHOOSE s \in Streams : TRUE
IdleLoop == LoopAt("idle", SomeStream, Zero, {}, NoReader, 0)

CallAt(pc, event, ask, found) ==
    [pc |-> pc, eventSet |-> event, ask |-> ask, found |-> found]
NoCall == CallAt("none", FALSE, <<>>, <<>>)

\* A reply: to XREAD one set of entries for each stream, all empty if it is nil.
Out(kind, of, found) == [kind |-> kind, of |-> of, found |-> found]
NoOut == Out("none", <<>>, <<>>)
ReadReply(r, ask, found) == Out("read", <<r, ask>>, found)

TypeOK ==
    /\ stream \in [Streams -> [made : BOOLEAN, log : SUBSET Ids, latest : Ids,
                               first : BOOLEAN, second : BOOLEAN]]
    /\ place \in [Streams -> [reader : Readers \cup {NoReader}, wait : Ids]]
    /\ loop \in [pc : {"idle", "notify", "register"}, stream : Streams, parsed : Ids,
                 added : SUBSET Ids, reader : Readers \cup {NoReader}, i : Nat]
    /\ call \in [Readers -> [pc : {"none", "register", "waiting", "read", "clear", "send"},
                             eventSet : BOOLEAN,
                             ask : Seq([stream : Streams, from : Ids]),
                             found : Seq(SUBSET Ids)]]
    /\ alive \in BOOLEAN

Init ==
    /\ stream = [s \in Streams |-> NoStream]
    /\ place = [s \in Streams |-> NoPlace]
    /\ loop = IdleLoop
    /\ call = [r \in Readers |-> NoCall]
    /\ out = NoOut
    /\ alive = TRUE

LoopIdle == alive /\ loop.pc = "idle"

-----------------------------------------------------------------------------
(* XADD.                                                                   *)

Less(x, y) == x[1] < y[1] \/ (x[1] = y[1] /\ x[2] < y[2])

\* The highest sequence number and one, as an unsigned long.
\* Fault: the sum does not wrap.
IncrementWide(n) == n + 1
Increment(n) == (n + 1) % Word

NextSecond(log, first) ==
    LET seconds == {x[2] : x \in {y \in log : y[1] = first}}
    IN IF seconds # {} THEN Increment(Max(seconds))
       ELSE IF first = 0 THEN 1 ELSE 0

\* parseEntryId leaves a flag in the stream for AddEntry.
Flagged(st, form) ==
    [st EXCEPT !.made = TRUE, !.first = @ \/ form = "timed", !.second = @ \/ form = "numbered"]

\* The flags decide, whichever command set them.
IdOf(st, parsed, now) ==
    IF st.first THEN <<now, 0>>
    ELSE IF st.second THEN <<parsed[1], NextSecond(st.log, parsed[1])>>
    ELSE parsed

\* Fault: an equal sequence number passes.
RefusesLess(st, id) == id = Zero \/ Less(id, st.latest)
Refuses(st, id) == id = Zero \/ ~Less(st.latest, id)

\* A refusal leaves the flags set.
AddEntry(st, id) ==
    IF Refuses(st, id) THEN st
    ELSE [st EXCEPT !.log = @ \cup {id}, !.latest = id, !.first = FALSE, !.second = FALSE]

XAdd(s, arg) ==
    /\ LoopIdle
    /\ \E now \in Times :
        LET st == Flagged(stream[s], arg.form)
            id == IdOf(st, arg.id, now)
        IN /\ stream' = [stream EXCEPT ![s] = AddEntry(st, id)]
           /\ loop' = LoopAt("notify", s, arg.id, IF Refuses(st, id) THEN {} ELSE {id}, NoReader, 0)
    /\ out' = NoOut
    /\ UNCHANGED <<place, call, alive>>

\* A stream is added to m_streams while a thread looks one up in it.
XAddRaces(s) ==
    /\ LoopIdle
    /\ ~stream[s].made /\ \E r \in Readers : call[r].pc = "read"
    /\ alive' = FALSE
    /\ out' = NoOut
    /\ UNCHANGED <<stream, place, loop, call>>

\* Fault: the sequence numbers are not compared.
ExceedsFirst(parsed, wait) == parsed[1] > wait[1]
Exceeds(parsed, wait) == Less(wait, parsed)

\* The identifier as it was parsed, not as it was generated, and even if AddEntry
\* refused, is compared with the waiter's.
Notify ==
    /\ alive /\ loop.pc = "notify"
    /\ LET p == place[loop.stream]
       IN call' = IF p.reader # NoReader /\ Exceeds(loop.parsed, p.wait)
                  THEN [call EXCEPT ![p.reader].eventSet = TRUE] ELSE call
    /\ out' = NoOut
    /\ loop' = IdleLoop
    /\ UNCHANGED <<stream, place, alive>>

-----------------------------------------------------------------------------
(* Ranges.                                                                 *)

\* Fault: the last sequence number is left out.
UpToBelow(x, to) == x[2] < to[2]
UpTo(x, to) == x[2] <= to[2]

\* Fault: the start itself is returned.
SkipsNothing(exclusive, x, from) == FALSE
Skips(exclusive, x, from) == exclusive /\ x = from

\* GetEntriesInRange: a bound whose first number is 0 is open; in the block of the
\* start the end is not looked at, unless the start's sequence number is 0.
EntriesInRange(log, from, to, exclusive) ==
    {x \in log :
       /\ from[1] = 0 \/ x[1] >= from[1]
       /\ to[1] = 0 \/ x[1] <= to[1]
       /\ IF x[1] = from[1] /\ from[2] # 0
          THEN x[2] >= from[2] /\ ~Skips(exclusive, x, from)
          ELSE IF x[1] = to[1] /\ to[2] # 0 THEN UpTo(x, to)
          ELSE ~Skips(exclusive, x, from)}

EntriesAfter(s, from) == EntriesInRange(stream[s].log, from, Zero, TRUE)

\* The first block lies behind the last one: the iterators never meet.
RunsPastTheEnd(log, from, to) ==
    /\ to[1] # 0
    /\ \E x \in log : x[1] >= from[1]
    /\ \E x \in log : to[1] < x[1] /\ x[1] < from[1]

XRange(s, from, to) ==
    /\ LoopIdle
    /\ ~RunsPastTheEnd(stream[s].log, from, to)
    /\ out' = Out("range", <<s, from, to>>, <<EntriesInRange(stream[s].log, from, to, FALSE)>>)
    /\ UNCHANGED <<stream, place, loop, call, alive>>

XRangeRunsPast(s, from, to) ==
    /\ LoopIdle
    /\ RunsPastTheEnd(stream[s].log, from, to)
    /\ alive' = FALSE
    /\ out' = NoOut
    /\ UNCHANGED <<stream, place, loop, call>>

-----------------------------------------------------------------------------
(* XREAD, in the event loop.                                               *)

CanAsk(r, ask) == LoopIdle /\ call[r].pc = "none" /\ ask \in Asks[r]
AllMade(ask) == \A i \in DOMAIN ask : stream[ask[i].stream].made

\* "$" is replaced when its stream is read.
Resolved(ask) ==
    [i \in DOMAIN ask |->
       [stream |-> ask[i].stream,
        from |-> IF ask[i].from = Dollar THEN stream[ask[i].stream].latest ELSE ask[i].from]]

FoundNow(ask) == [i \in DOMAIN ask |-> EntriesAfter(ask[i].stream, ask[i].from)]
Nothing(ask) == [i \in DOMAIN ask |-> {}]

\* operator[] inserts a null Stream, which is dereferenced.
XReadAbsent(r, ask) ==
    /\ CanAsk(r, ask) /\ ~AllMade(ask)
    /\ alive' = FALSE
    /\ out' = NoOut
    /\ UNCHANGED <<stream, place, loop, call>>

\* There is something, or XREAD came without BLOCK.
XRead(r, ask) ==
    /\ CanAsk(r, ask) /\ AllMade(ask)
    /\ out' = ReadReply(r, Resolved(ask), FoundNow(Resolved(ask)))
    /\ UNCHANGED <<stream, place, loop, call, alive>>

\* A new EventWaiter, and a thread to come.
XReadBlocks(r, ask) ==
    /\ CanAsk(r, ask) /\ AllMade(ask)
    /\ FoundNow(Resolved(ask)) = Nothing(ask)
    /\ call' = [call EXCEPT ![r] = CallAt("register", FALSE, Resolved(ask), <<>>)]
    /\ loop' = LoopAt("register", SomeStream, Zero, {}, r, 1)
    /\ out' = NoOut
    /\ UNCHANGED <<stream, place, alive>>

\* Whoever had the place loses it.
Register ==
    /\ alive /\ loop.pc = "register"
    /\ LET r == loop.reader
           q == call[r].ask[loop.i]
           last == loop.i = Len(call[r].ask)
       IN /\ place' = [place EXCEPT ![q.stream] = [reader |-> r, wait |-> q.from]]
          /\ loop' = IF last THEN IdleLoop ELSE [loop EXCEPT !.i = @ + 1]
          /\ call' = IF last THEN [call EXCEPT ![r].pc = "waiting"] ELSE call
    /\ out' = NoOut
    /\ UNCHANGED <<stream, alive>>

-----------------------------------------------------------------------------
(* XREAD, in its thread.                                                   *)

ThreadAt(r, pc) == alive /\ call[r].pc = pc

Wake(r) ==
    /\ ThreadAt(r, "waiting") /\ call[r].eventSet
    /\ call' = [call EXCEPT ![r].pc = "read"]
    /\ out' = NoOut
    /\ UNCHANGED <<stream, place, loop, alive>>

\* Fault: BLOCK 0 waits without a limit.
Unlimited(r) == FALSE
\* BLOCK 0 is ten minutes: every wait ends.
TimedOut(r) == ~call[r].eventSet

Timeout(r) ==
    /\ ThreadAt(r, "waiting") /\ TimedOut(r)
    /\ call' = [call EXCEPT ![r] = CallAt("clear", FALSE, @.ask, Nothing(@.ask))]
    /\ out' = NoOut
    /\ UNCHANGED <<stream, place, loop, alive>>

\* One stream after the other; the loop may add entries in between.
ReadNext(r) ==
    /\ ThreadAt(r, "read")
    /\ LET q == call[r].ask[Len(call[r].found) + 1]
           found == Append(call[r].found, EntriesAfter(q.stream, q.from))
       IN call' = [call EXCEPT ![r] = CallAt(IF Len(found) = Len(@.ask) THEN "clear" ELSE "read",
                                             TRUE, @.ask, found)]
    /\ out' = NoOut
    /\ UNCHANGED <<stream, place, loop, alive>>

\* Fault: the place in one stream is given up.
ClearedOne(ask) == [place EXCEPT ![ask[1].stream] = NoPlace]
\* m_blockingStreams.clear(): everybody's place is given up.
Cleared(ask) == [s \in Streams |-> NoPlace]

Clear(r) ==
    /\ ThreadAt(r, "clear")
    /\ place' = Cleared(call[r].ask)
    /\ call' = [call EXCEPT ![r].pc = "send"]
    /\ out' = NoOut
    /\ UNCHANGED <<stream, loop, alive>>

Send(r) ==
    /\ ThreadAt(r, "send")
    /\ out' = ReadReply(r, call[r].ask, call[r].found)
    /\ call' = [call EXCEPT ![r] = NoCall]
    /\ UNCHANGED <<stream, place, loop, alive>>

-----------------------------------------------------------------------------
LoopStep == Notify \/ Register
ThreadStep(r) == Wake(r) \/ Timeout(r) \/ ReadNext(r) \/ Clear(r) \/ Send(r)

Next ==
    \/ \E s \in Streams : XAddRaces(s) \/ \E arg \in AddArgs[s] : XAdd(s, arg)
    \/ \E q \in Ranges : XRange(q[1], q[2], q[3]) \/ XRangeRunsPast(q[1], q[2], q[3])
    \/ \E r \in Readers : \E ask \in Asks[r] :
         XReadAbsent(r, ask) \/ XRead(r, ask) \/ XReadBlocks(r, ask)
    \/ LoopStep
    \/ \E r \in Readers : ThreadStep(r)

Spec == Init /\ [][Next]_vars

\* The threads are scheduled: each goes on, the loop with the command it has begun.
FairSpec == Spec /\ WF_vars(LoopStep) /\ \A r \in Readers : WF_vars(ThreadStep(r))

-----------------------------------------------------------------------------
(* Properties.                                                             *)

\* What a stream believes to be its last identifier is the highest in its store,
\* whatever adds were refused: "$" and the check of XADD rest on it.
LatestIsTop ==
    \A s \in Streams :
        /\ stream[s].log = {} => stream[s].latest = Zero
        /\ stream[s].log # {} => stream[s].latest \in stream[s].log
        /\ \A x \in stream[s].log : x = stream[s].latest \/ Less(x, stream[s].latest)

\* An XADD that succeeds adds an identifier above every one in the stream, written
\* or generated, by a clock that stands still or a number that wraps.
IdsIncrease ==
    [][loop.pc = "idle" /\ loop'.pc = "notify" =>
         \A id \in loop'.added : \A x \in stream[loop'.stream].log : Less(x, id)]_vars

\* No waiter outlives its read: a place in the map belongs to a thread that has yet
\* to clear it, or to one being set up.
NoStalePlace ==
    \A s \in Streams : place[s].reader # NoReader =>
        /\ call[place[s].reader].pc \in {"register", "waiting", "read", "clear"}
        /\ \E i \in DOMAIN call[place[s].reader].ask :
             call[place[s].reader].ask[i] = [stream |-> s, from |-> place[s].wait]

WrittenOnly(s) == \A arg \in AddArgs[s] : arg.form = "written"

\* On a stream whose identifiers are all written, whoever holds the place is
\* signalled by the time XADD has returned: no entry slips between the check for
\* entries and the registration, in whatever order reads come and end.
HolderIsSignalled ==
    \A s \in Streams :
        /\ WrittenOnly(s) /\ place[s].reader # NoReader
        /\ \E x \in stream[s].log : Less(place[s].wait, x)
        /\ ~(loop.pc = "notify" /\ loop.stream = s)
        => call[place[s].reader].eventSet

\* XRANGE leaves out no entry between its bounds, in any of its three branches.
RangeOmitsNothing ==
    out.kind = "range" =>
        LET from == out.of[2]
            to == out.of[3]
        IN \A x \in stream[out.of[1]].log :
             ~Less(x, from) /\ (to = Zero \/ ~Less(to, x)) => x \in out.found[1]

\* A read that blocks is answered in the end, though its place may be taken or
\* cleared by another, unless the server ends.
EveryReadAnswered ==
    \A r \in Readers : call[r].pc # "none" ~> call[r].pc = "none" \/ ~alive

NamesAsked == {[i \in DOMAIN ask |-> ask[i].stream] : ask \in UNION {Asks[r] : r \in Readers}}
Logs == [s \in Streams |-> stream[s].log]
Asked == [r \in Readers |-> call[r].ask]
Message == IF out.kind = "read" THEN {<<out.of[1], out.of[2], out.found>>} ELSE {}

Service == INSTANCE StreamService WITH
    NameLists <- NamesAsked, log <- Logs, asked <- Asked, message <- Message

\* Logs only grow at the end, a read blocks only if nothing follows its start
\* identifiers, and its reply, gathered stream by stream while entries are added,
\* skips and repeats nothing.
ImplementsStreams == Service!ServiceSpec

-----------------------------------------------------------------------------
(* What the inductive invariants of StreamHandlerProofs add.               *)

\* The loop registers the call it is at, and a thread reads while streams are left.
CallsInStep ==
    /\ loop.pc = "register" =>
         /\ loop.reader \in Readers /\ call[loop.reader].pc = "register"
         /\ loop.i \in DOMAIN call[loop.reader].ask
    /\ \A r \in Readers :
         /\ call[r].pc = "register" => loop.pc = "register" /\ loop.reader = r
         /\ call[r].pc # "none" => call[r].ask # <<>>
         /\ call[r].pc \in {"register", "waiting"} => call[r].found = <<>>
         /\ call[r].pc = "read" => call[r].eventSet /\ Len(call[r].found) < Len(call[r].ask)

NoFlagSet == \A s \in Streams : WrittenOnly(s) => ~stream[s].first /\ ~stream[s].second

\* Nothing follows the start identifiers until all waiters are registered.
NothingWhileRegistering ==
    loop.pc = "register" =>
        \A i \in DOMAIN call[loop.reader].ask :
            EntriesAfter(call[loop.reader].ask[i].stream, call[loop.reader].ask[i].from) = {}

\* The one entry that was not signalled yet is the one the loop is at.
SignalDue ==
    \A s \in Streams : WrittenOnly(s) /\ place[s].reader # NoReader =>
        \A x \in stream[s].log : Less(place[s].wait, x) =>
            \/ call[place[s].reader].eventSet
            \/ loop.pc = "notify" /\ loop.stream = s /\ loop.parsed = x

TypeInv == TypeOK /\ CallsInStep
PlaceInv == TypeInv /\ NoStalePlace
SignalInv == PlaceInv /\ NoFlagSet /\ NothingWhileRegistering /\ SignalDue

\* A connection that is not blocked asks for nothing; a thread that is done has been
\* through all its streams.
CallsComplete ==
    \A r \in Readers :
        /\ call[r].pc = "none" => call[r].ask = <<>> /\ call[r].found = <<>>
        /\ call[r].pc \in {"clear", "send"} => Len(call[r].found) = Len(call[r].ask)

\* What a thread has found in a stream reaches from its start up to an identifier
\* that the stream had passed already, so that no entry added since belongs there.
Between(log, from, upto) == {x \in log : Less(from, x) /\ ~Less(upto, x)}
GapFree(st, from, found) ==
    \E upto \in Ids : ~Less(st.latest, upto) /\ found = Between(st.log, from, upto)
FoundWithoutGap ==
    \A r \in Readers : \A i \in DOMAIN call[r].found :
        GapFree(stream[call[r].ask[i].stream], call[r].ask[i].from, call[r].found[i])

ServiceInv == TypeInv /\ LatestIsTop /\ CallsComplete /\ FoundWithoutGap
=============================================================================
