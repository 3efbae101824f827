--------------------------- MODULE ExpiringStore ---------------------------
(***************************************************************************)
(* What the key-value commands promise: a dictionary whose keys may have   *)
(* a deadline, one number on one clock, up to which the key is read and    *)
(* after which it is not.  At the very instant of the deadline either may  *)
(* happen.  An expiry too long for the server's int promises nothing.      *)
(*                                                                         *)
(* KeyValueStore is shown to implement this specification.                 *)
(***************************************************************************)
EXTENDS Integers

CONSTANTS
    Keys,       \* the names
    NoValue,    \* what a name without a value has
    Texts,      \* values that are not decimal numbers
    Leading,    \* the number a text starts with, or NoValue
    Matches,    \* for each pattern, the keys it matches
    MaxInt,     \* the largest int
    UsecPerMs   \* microseconds in a millisecond

VARIABLES
    dict,       \* the value of each key
    deadline,   \* the last instant at which a key is read
    now,        \* the time, in microseconds
    last        \* the last command and its reply

sVars == <<dict, deadline, now, last>>

\* A key without a deadline, and one with a deadline at t.
Never == [on |-> FALSE, at |-> 0]
Until(t) == [on |-> TRUE, at |-> t]

Did(kind, k, v, px, found) == [kind |-> kind, key |-> k, val |-> v, px |-> px, found |-> found]
Said(kind, k, v) == Did(kind, k, v, 0, {})
NothingYet == Said("none", NoValue, NoValue)

FitsInt(n) == n \in -MaxInt - 1 .. MaxInt

MayRead(k) == dict[k] # NoValue /\ (deadline[k].on => now <= deadline[k].at)
MayMiss(k) == dict[k] = NoValue \/ (deadline[k].on /\ now >= deadline[k].at)

\* A write without an expiry keeps the deadline the key has.
Put(k, v, px) ==
    /\ dict' = [dict EXCEPT ![k] = v]
    /\ \A j \in Keys :
         IF j = k /\ px # 0
         THEN /\ deadline'[k].on
              /\ FitsInt(px * UsecPerMs) => deadline'[k] = Until(now + px * UsecPerMs)
         ELSE deadline'[j] = deadline[j]
    /\ last' = Did("ok", k, v, px, {})
    /\ UNCHANGED now

Get(k) ==
    /\ \/ MayRead(k) /\ last' = Said("bulk", k, dict[k])
       \/ MayMiss(k) /\ last' = Said("nil", k, NoValue)
    /\ UNCHANGED <<dict, deadline, now>>

\* The number in a value, or NoValue.
Number(v) == IF v \in Texts THEN Leading[v] ELSE v

\* A number counts up; the largest one may become any.
Count(k) ==
    LET n == Number(dict[k])
    IN /\ \/ MayRead(k) /\ n # NoValue /\ FitsInt(n) /\ (n < MaxInt => dict'[k] = n + 1)
          \/ MayMiss(k) /\ dict'[k] = 1
       /\ \A j \in Keys \ {k} : dict'[j] = dict[j]
       /\ last' = Said("int", k, dict'[k])
       /\ UNCHANGED <<deadline, now>>

Refuse(k) ==
    /\ MayRead(k) /\ (Number(dict[k]) = NoValue \/ ~FitsInt(Number(dict[k])))
    /\ last' = Said("error", k, NoValue)
    /\ UNCHANGED <<dict, deadline, now>>

TypeOf(k) ==
    /\ \/ MayRead(k) /\ last' = Said("string", k, NoValue)
       \/ MayMiss(k) /\ last' = Said("notstring", k, NoValue)
    /\ UNCHANGED <<dict, deadline, now>>

\* Every matching key that was ever written, its deadline passed or not.
List(p) ==
    /\ last' = Did("keys", NoValue, NoValue, 0, {k \in Matches[p] : dict[k] # NoValue})
    /\ UNCHANGED <<dict, deadline, now>>

Pass == now' > now /\ UNCHANGED <<dict, deadline, last>>

\* The store starts with whatever it was saved with.
StoreInit ==
    /\ now = 0
    /\ last = NothingYet

StoreNext ==
    \/ \E k \in Keys : Put(k, last'.val, last'.px) \/ Get(k) \/ Count(k) \/ Refuse(k) \/ TypeOf(k)
    \/ \E p \in DOMAIN Matches : List(p)
    \/ Pass

StoreSpec == StoreInit /\ [][StoreNext]_sVars
=============================================================================
