--------------------------- MODULE KeyValueStore ---------------------------
(***************************************************************************)
(* The key-value store (src/src/KeyValueStore.cpp) and the commands that   *)
(* use it (src/src/CommandHandler.cpp: SET, GET, INCR, TYPE, KEYS), from   *)
(* the load of the RDB file at startup on.  Only the event loop touches    *)
(* the store, so a command is one step.                                    *)
(*                                                                         *)
(* A value is a number, for a text of decimal digits, or an opaque text.   *)
(* Time is the number of microseconds since an epoch; how many of them are *)
(* in a millisecond and in a second, and how wide an int is, are           *)
(* constants.  A file is a sequence of tokens: bytes, texts, time stamps.  *)
(*                                                                         *)
(* A definition marked "Fault" is a mutated form of the one after it.      *)
(***************************************************************************)
EXTENDS Integers, Sequences

CONSTANTS
    Keys,       \* the names
    NoValue,    \* what a name without a value has
    Texts,      \* values that are not decimal numbers
    Empty,      \* the empty text
    LengthOf,   \* the length of a key or a text
    Leading,    \* the number stoi reads at the start of a text, or NoValue
    Matches,    \* for each pattern of KEYS, the keys it matches
    SetValues,  \* the values clients set
    Px,         \* the expiries clients set, in milliseconds
    MaxInt,     \* the largest int
    UsecPerMs,  \* microseconds in a millisecond
    MsPerSec,   \* milliseconds in a second
    Files,      \* the RDB files the server may start with
    MaxTime,    \* bound: the clock stops here
    MaxWrites   \* bound: SET and INCR commands

ASSUME ValuesAssumption ==
    /\ Empty \in Texts
    /\ NoValue \notin Keys \cup Texts \cup Int
    /\ Texts \cap Int = {}
    /\ Leading \in [Texts -> Int \cup {NoValue}]
    /\ SetValues \subseteq Texts \cup Int
\* The length of a string is an int of the program.
MaxInt32 == 2147483647
ASSUME LengthAssumption == LengthOf \in [Keys \cup Texts -> 0 .. MaxInt32]
ASSUME PatternAssumption == \A p \in DOMAIN Matches : Matches[p] \subseteq Keys
ASSUME PxAssumption == Px \subseteq Int \ {0}
ASSUME UnitsAssumption ==
    /\ MaxInt \in Nat \ {0} /\ UsecPerMs \in Nat \ {0} /\ MsPerSec \in Nat \ {0}
\* A number in a file has at most 32 bits, a stamp in milliseconds is not zero, and a
\* key has one entry; a server without keys saves no database.
Int32 == -MaxInt32 - 1 .. MaxInt32
ASSUME FilesAssumption ==
    \A f \in Files :
        /\ f \in [kind : {"absent", "nodb", "cut", "whole"},
                  entries : Seq([key : Keys, val : Texts \cup Int,
                                 unit : {"none", "s", "ms"}, at : Nat])]
        /\ f.kind \in {"absent", "nodb"} => f.entries = <<>>
        /\ \A i \in DOMAIN f.entries :
             /\ f.entries[i].val \in Texts \/ f.entries[i].val \in Int32
             /\ f.entries[i].unit = "ms" => f.entries[i].at > 0
        /\ \A i, j \in DOMAIN f.entries : f.entries[i].key = f.entries[j].key => i = j
ASSUME BoundsAssumption == MaxTime \in Nat /\ MaxWrites \in Nat

VARIABLES
    file,       \* the file the server was started with
    rdb,        \* the tokens of it that are still to be read
    phase,      \* how far the start of the server is
    values,     \* m_mapKeyValues
    timeouts,   \* m_mapKeyTimeouts
    now,        \* the system clock
    writes,     \* SET and INCR commands so far
    last        \* the last command and its reply

vars == <<file, rdb, phase, values, timeouts, now, writes, last>>

-----------------------------------------------------------------------------
Vals == Texts \cup Int
NoTimeout == [on |-> FALSE, sec |-> 0, usec |-> 0]
Timeval(s, u) == [on |-> TRUE, sec |-> s, usec |-> u]

UsecPerSec == UsecPerMs * MsPerSec

\* gettimeofday
Sec == now \div UsecPerSec
Usec == now % UsecPerSec

\* What 32 bits keep of a number: in the model, a number in -MaxInt-1 .. MaxInt.
AsInt(n) == ((n + MaxInt + 1) % (2 * MaxInt + 2)) - (MaxInt + 1)
FitsInt(n) == n \in -MaxInt - 1 .. MaxInt

\* timeout * 1000 is an int product added to a long: a build may wrap it or widen it.
Products(px) == {px * UsecPerMs, AsInt(px * UsecPerMs)}

\* Fault: a negative sum is carried too.
CarryNegative(s, u) == Timeval(s + u \div UsecPerSec, u % UsecPerSec)
\* Fault: the microseconds are not reduced.
CarryTwice(s, u) == IF u > UsecPerSec THEN Timeval(s + u \div UsecPerSec, u) ELSE Timeval(s, u)
\* A whole second is not carried, nor is a negative sum.
Carry(s, u) ==
    IF u > UsecPerSec THEN Timeval(s + u \div UsecPerSec, u % UsecPerSec) ELSE Timeval(s, u)

\* Fault: the microseconds count in every second.
PassedByUsec(t) == t.on /\ (t.sec < Sec \/ t.usec < Usec)
Passed(t) == t.on /\ (t.sec < Sec \/ (t.sec = Sec /\ t.usec < Usec))

\* KeyValueStore::get: an expired key is not removed.
Readable(k) == values[k] # NoValue /\ ~Passed(timeouts[k])

-----------------------------------------------------------------------------
(* The RDB file.  An entry has a key, a value and an expiry: none, in      *)
(* seconds or in milliseconds since the epoch.                             *)

Token(kind, n, v) == [kind |-> kind, n |-> n, val |-> v]
Byte(n) == Token("byte", n, NoValue)
Bytes(s) == [i \in DOMAIN s |-> Byte(s[i])]

Drop(s, n) == SubSeq(s, n + 1, Len(s))

\* get_str_bytes_len: a length, or the width of an integer, and the bytes read.
Sized(n, used) == [known |-> TRUE, n |-> n, used |-> used]
Integer(width) == [known |-> FALSE, n |-> width, used |-> 1]
B(s, i) == s[i].n
DecodeLength(s) ==
    CASE B(s, 1) \div 64 = 0 -> Sized(B(s, 1) % 64, 1)
      [] B(s, 1) \div 64 = 1 -> Sized((B(s, 1) % 64) * 256 + B(s, 2), 2)
      [] B(s, 1) \div 64 = 2 ->
           Sized(((B(s, 2) * 256 + B(s, 3)) * 256 + B(s, 4)) * 256 + B(s, 5), 5)
      [] B(s, 1) = 192 -> Integer(8)
      [] B(s, 1) = 193 -> Integer(16)
      [] B(s, 1) = 194 -> Integer(32)
      [] B(s, 1) = 253 -> Sized(253, 1)
      [] OTHER -> Integer(0)

\* A signed machine integer of that width, the low byte first.
SignedByte(b) == IF b < 128 THEN b ELSE b - 256
Signed(s, width) ==
    CASE width = 8  -> SignedByte(B(s, 1))
      [] width = 16 -> B(s, 1) + 256 * SignedByte(B(s, 2))
      [] width = 32 -> B(s, 1) + 256 * (B(s, 2) + 256 * (B(s, 3) + 256 * SignedByte(B(s, 4))))

\* read_byte_to_string: the string and the tokens after it.  A size that is not the
\* length of the text in its place would split the file elsewhere: the result is Empty.
ReadString(s) ==
    LET size == DecodeLength(s)
        body == Drop(s, size.used)
    IN CASE size.known ->
              [val |-> IF body[1].kind = "text" /\ body[1].n = size.n THEN body[1].val ELSE Empty,
               rest |-> Tail(body)]
         [] ~size.known /\ size.n = 0 -> [val |-> Empty, rest |-> body]
         [] OTHER -> [val |-> Signed(body, size.n),
                      rest |-> Drop(body, size.n \div 8)]

\* What Redis writes: the shortest form of a length and of a number.
High(n) == n \div 256
Low(n) == n % 256
EncodeLength(n) ==
    CASE n < 64 -> Bytes(<<n>>)
      [] n >= 64 /\ High(n) < 64 -> Bytes(<<64 + High(n), Low(n)>>)
      [] OTHER -> Bytes(<<128, High(High(High(n))), Low(High(High(n))), Low(High(n)), Low(n)>>)
EncodeText(v) == EncodeLength(LengthOf[v]) \o <<Token("text", LengthOf[v], v)>>
EncodeNumber(n) ==
    CASE n >= -128 /\ n < 128 -> Bytes(<<192, Low(n)>>)
      [] ~(n >= -128 /\ n < 128) /\ High(n) >= -128 /\ High(n) < 128 ->
           Bytes(<<193, Low(n), Low(High(n))>>)
      [] OTHER -> Bytes(<<194, Low(n), Low(High(n)), Low(High(High(n))), Low(High(High(High(n))))>>)
EncodeEntry(e) ==
    (CASE e.unit = "none" -> <<>>
       [] e.unit = "s"  -> <<Byte(253), Token("stamp", e.at, NoValue)>>
       [] e.unit = "ms" -> <<Byte(252), Token("stamp", e.at, NoValue)>>)
    \o Bytes(<<0>>) \o EncodeText(e.key)
    \o (IF e.val \in Texts THEN EncodeText(e.val) ELSE EncodeNumber(e.val))

\* A file has some metadata, then, unless the server that saved it was empty, a
\* database with its sizes and entries; the mark of its end may be missing.
Metadata == <<Byte(250)>> \o EncodeText(Empty) \o EncodeNumber(64)
EndMark == <<Byte(255), Token("stamp", 0, NoValue)>>
\* The last m entries of a file and what follows them.
LastEntries(f) ==
    LET left[m \in 0 .. Len(f.entries)] ==
          IF m = 0 THEN IF f.kind = "whole" THEN EndMark ELSE <<>>
          ELSE EncodeEntry(f.entries[Len(f.entries) - m + 1]) \o left[m - 1]
    IN left
Database(f) ==
    Bytes(<<254, 0, 251>>) \o EncodeLength(Len(f.entries)) \o Bytes(<<0>>)
    \o LastEntries(f)[Len(f.entries)]
FileTokens(f) ==
    CASE f.kind = "absent" -> <<>>
      [] f.kind = "nodb" -> Metadata \o EndMark
      [] f.kind \in {"cut", "whole"} -> Metadata \o Database(f)

-----------------------------------------------------------------------------
Did(kind, k, v, px, found) == [kind |-> kind, key |-> k, val |-> v, px |-> px, found |-> found]
Said(kind, k, v) == Did(kind, k, v, 0, {})
NothingYet == Said("none", NoValue, NoValue)

Timeouts == [on : BOOLEAN, sec : Nat, usec : Int]
TypeOK ==
    /\ file \in Files
    /\ phase \in {"metadata", "entries", "ready", "failed"}
    /\ values \in [Keys -> Vals \cup {NoValue}]
    /\ timeouts \in [Keys -> Timeouts]
    /\ now \in 0 .. MaxTime
    /\ writes \in 0 .. MaxWrites
    /\ last \in [kind : {"none", "ok", "bulk", "nil", "int", "error", "string", "notstring", "keys"},
                 key : Keys \cup {NoValue}, val : Vals \cup {NoValue}, px : Px \cup {0},
                 found : SUBSET Keys]

Init ==
    /\ file \in Files
    /\ rdb = FileTokens(file)
    /\ phase = IF file.kind = "absent" THEN "ready" ELSE "metadata"
    /\ values = [k \in Keys |-> NoValue]
    /\ timeouts = [k \in Keys |-> NoTimeout]
    /\ now = 0
    /\ writes = 0
    /\ last = NothingYet

-----------------------------------------------------------------------------
(* initializeKeyValues: one opcode of the file at a time.  The nine bytes  *)
(* of the header and the checksum after the end mark are read and ignored. *)

\* After SELECTDB and the number of the database the next opcode is read at once.
AfterDb(s) == Drop(s, DecodeLength(s).used)

\* A file that ends before its database begins makes startServer throw.
LoadMetadata ==
    /\ phase = "metadata"
    /\ IF rdb = <<>>
       THEN phase' = "failed" /\ UNCHANGED rdb
       ELSE LET op == B(rdb, 1)
                args == Tail(rdb)
                s == IF op = 254 THEN AfterDb(args) ELSE rdb
                size == DecodeLength(Tail(s))
                sizes == Drop(Tail(s), size.used)
            IN CASE op = 250 ->
                      rdb' = ReadString(ReadString(args).rest).rest /\ UNCHANGED phase
                 [] op # 250 /\ B(s, 1) = 251 ->
                      rdb' = Drop(sizes, DecodeLength(sizes).used) /\ phase' = "entries"
                 [] OTHER -> rdb' = Tail(s) /\ UNCHANGED phase
    /\ UNCHANGED <<file, values, timeouts, now, writes, last>>

\* The stamp after 0xFD is read and never used; the one after 0xFC becomes the timeout.
StampTimeout(ms) == Timeval(ms \div MsPerSec, (ms % MsPerSec) * UsecPerMs)

LoadEntry ==
    /\ phase = "entries"
    /\ IF rdb = <<>> \/ B(rdb, 1) = 255
       THEN phase' = "ready" /\ rdb' = <<>> /\ UNCHANGED <<values, timeouts>>
       ELSE LET s == IF B(rdb, 1) = 253 THEN Drop(rdb, 2) ELSE rdb
                ms == IF B(s, 1) = 252 THEN B(s, 2) ELSE 0
                pair == IF B(s, 1) = 252 THEN Drop(s, 3) ELSE Tail(s)
                key == ReadString(pair)
                val == ReadString(key.rest)
            IN /\ rdb' = val.rest
               /\ values' = [values EXCEPT ![key.val] = val.val]
               /\ timeouts' = IF ms = 0 THEN timeouts
                              ELSE [timeouts EXCEPT ![key.val] = StampTimeout(ms)]
               /\ UNCHANGED phase
    /\ UNCHANGED <<file, now, writes, last>>

-----------------------------------------------------------------------------
(* The commands.                                                           *)

Tick ==
    /\ phase = "ready" /\ now < MaxTime
    /\ now' = now + 1
    /\ UNCHANGED <<file, rdb, phase, values, timeouts, writes, last>>

Reads(reply) ==
    /\ phase = "ready"
    /\ last' = reply
    /\ UNCHANGED <<file, rdb, phase, values, timeouts, now, writes>>

Writes(k, v, reply) ==
    /\ phase = "ready" /\ writes < MaxWrites
    /\ values' = [values EXCEPT ![k] = v]
    /\ writes' = writes + 1
    /\ last' = reply
    /\ UNCHANGED <<file, rdb, phase, now>>

\* SET without PX, or with PX 0: the timeout of the key is left as it is.
Set(k, v) == Writes(k, v, Did("ok", k, v, 0, {})) /\ UNCHANGED timeouts

SetPx(k, v, px) ==
    /\ Writes(k, v, Did("ok", k, v, px, {}))
    /\ \E p \in Products(px) : timeouts' = [timeouts EXCEPT ![k] = Carry(Sec, Usec + p)]

Get(k) == Reads(IF Readable(k) THEN Said("bulk", k, values[k]) ELSE Said("nil", k, NoValue))

\* std::stoi: the number a value is, or starts with, if it is an int.
Stoi(v) == IF v \in Texts THEN Leading[v] ELSE v
IsInt(v) == Stoi(v) # NoValue /\ FitsInt(Stoi(v))

Incr(k) ==
    LET v == IF Readable(k) THEN AsInt(Stoi(values[k]) + 1) ELSE 1
    IN /\ Readable(k) => IsInt(values[k])
       /\ Writes(k, v, Said("int", k, v)) /\ UNCHANGED timeouts

IncrError(k) ==
    /\ Readable(k) /\ ~IsInt(values[k])
    /\ Reads(Said("error", k, NoValue))

Type(k) == Reads(Said(IF Readable(k) THEN "string" ELSE "notstring", k, NoValue))

\* getAllKeys looks at no timeout.
KeysLike(p) ==
    Reads(Did("keys", NoValue, NoValue, 0, {k \in Matches[p] : values[k] # NoValue}))

\* The server did not start.
Stopped == phase = "failed" /\ UNCHANGED vars

Next ==
    \/ LoadMetadata \/ LoadEntry
    \/ Tick
    \/ \E k \in Keys :
         \/ \E v \in SetValues : Set(k, v) \/ \E px \in Px : SetPx(k, v, px)
         \/ Get(k) \/ Incr(k) \/ IncrError(k) \/ Type(k)
    \/ \E p \in DOMAIN Matches : KeysLike(p)
    \/ Stopped

Spec == Init /\ [][Next]_vars

-----------------------------------------------------------------------------
(* Properties.                                                             *)

\* The instant at which a timeout passes.
Instant(t) == t.sec * UsecPerSec + t.usec

\* However long an expiry is, and however its product overflows, the key it is set
\* for does not outlive it.
NeverOutlives ==
    [][last' # last /\ last'.kind = "ok" /\ last'.px > 0 =>
         Instant(timeouts'[last'.key]) <= now + last'.px * UsecPerMs]_vars

\* The entry of a file for a key, if there is one: a file has a key at most once.
EntryOf(k) == {e \in {file.entries[i] : i \in DOMAIN file.entries} : e.key = k}
FileValue(k) ==
    IF EntryOf(k) = {} THEN NoValue ELSE (CHOOSE e \in EntryOf(k) : TRUE).val
\* An expiry in seconds is dropped.
FileDeadline(k) ==
    LET stamped == {e \in EntryOf(k) : e.unit = "ms"}
    IN IF stamped = {} THEN [on |-> FALSE, at |-> 0]
       ELSE [on |-> TRUE, at |-> (CHOOSE e \in stamped : TRUE).at * UsecPerMs]

Loading == phase \in {"metadata", "entries"}
Dict == [k \in Keys |-> IF Loading THEN FileValue(k) ELSE values[k]]
Deadline ==
    [k \in Keys |-> IF Loading THEN FileDeadline(k)
                    ELSE [on |-> timeouts[k].on, at |-> Instant(timeouts[k])]]

Store == INSTANCE ExpiringStore WITH dict <- Dict, deadline <- Deadline

\* The two maps, the timevals with their carries and the loaded file implement a store
\* of values with deadlines: a key is read neither after its deadline nor, unless the
\* product overflowed, missed before it, and the store starts as it was saved: only a
\* file without keys may keep the server from starting.
ImplementsStore == Store!StoreSpec

\* "Overwrites any existing value" (src/ui/redis_commands.py:58) and "Returns (nil) if key
\* doesn't exist or expired" (:81): a SET without an expiry that was acknowledged is
\* read until the key is written again.
AcknowledgedIsReadable ==
    last.kind = "ok" /\ last.px = 0 => Readable(last.key)
=============================================================================
