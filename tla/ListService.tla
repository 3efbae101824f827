---------------------------- MODULE ListService ----------------------------
(***************************************************************************)
(* What the list commands promise, with no threads, no map of waiters and  *)
(* no descriptors: a push and a pop take effect at one moment, and a BLPOP *)
(* either takes the first element of its first list that has one, or finds *)
(* all of them empty and blocks; later it is granted the first element of  *)
(* one of its lists, or gives up.                                          *)
(*                                                                         *)
(* ListHandler is shown to implement this specification.                   *)
(***************************************************************************)
EXTENDS Integers, Sequences, SequencesExt

CONSTANTS
    Clients,    \* connections
    Keys,       \* list names
    BlockKeys,  \* for each client, the sequences of keys it passes to BLPOP
    MaxElems,   \* bound: elements pushed in a behaviour
    MaxPush     \* bound: elements in one push, and the count of one LPOP

VARIABLES
    lists,      \* the elements of each list
    req,        \* the request of each client, and the elements it is to receive
    given,      \* elements that were handed out
    next,       \* the next element to be pushed
    up          \* FALSE once the server has ended

sVars == <<lists, req, given, next, up>>

Request(st, keys, elems) == [st |-> st, keys |-> keys, elems |-> elems]
Idle == Request("idle", <<>>, <<>>)
Answered(elems) == Request("answered", <<>>, elems)

ServiceInit ==
    /\ lists = [k \in Keys |-> <<>>]
    /\ req = [c \in Clients |-> Idle]
    /\ given = {}
    /\ next = 1
    /\ up = TRUE

Become(c, st, r) ==
    /\ up /\ UNCHANGED up
    /\ req[c].st = st
    /\ req' = [req EXCEPT ![c] = r]

\* n new elements enter at the head, the last of them first, or at the tail.
AddElements(c, k, n) ==
    LET new == [i \in 1 .. n |-> next + i - 1]
    IN /\ Become(c, "idle", Answered(<<>>))
       /\ next + n <= MaxElems + 1 /\ next' = next + n
       /\ \/ lists' = [lists EXCEPT ![k] = Reverse(new) \o @]
          \/ lists' = [lists EXCEPT ![k] = @ \o new]
       /\ UNCHANGED given

\* Up to n elements leave from the head.
TakeElements(c, k, n) ==
    \E m \in 0 .. n :
        /\ m = n \/ m = Len(lists[k])
        /\ m <= Len(lists[k])
        /\ Become(c, "idle", Answered(SubSeq(lists[k], 1, m)))
        /\ lists' = [lists EXCEPT ![k] = SubSeq(@, m + 1, Len(@))]
        /\ UNCHANGED <<given, next>>

\* A command that changes nothing.
Observe(c) == Become(c, "idle", Answered(<<>>)) /\ UNCHANGED <<lists, given, next>>

Ask(c, ks) == Become(c, "idle", Request("asked", ks, <<>>)) /\ UNCHANGED <<lists, given, next>>

TakeHead(c, st, k) ==
    /\ lists[k] # <<>>
    /\ Become(c, st, Answered(<<Head(lists[k])>>))
    /\ lists' = [lists EXCEPT ![k] = Tail(@)]
    /\ UNCHANGED <<given, next>>

\* The first list that has an element, at the moment it is taken.
TakeFirst(c) ==
    \E i \in DOMAIN req[c].keys :
        /\ \A j \in 1 .. i - 1 : lists[req[c].keys[j]] = <<>>
        /\ TakeHead(c, "asked", req[c].keys[i])

Block(c) ==
    /\ \A i \in DOMAIN req[c].keys : lists[req[c].keys[i]] = <<>>
    /\ Become(c, "asked", [req[c] EXCEPT !.st = "blocked"])
    /\ UNCHANGED <<lists, given, next>>

Grant(c) == \E i \in DOMAIN req[c].keys : TakeHead(c, "blocked", req[c].keys[i])

GiveUp(c) == Become(c, "blocked", Answered(<<>>)) /\ UNCHANGED <<lists, given, next>>

Deliver(c) ==
    /\ Become(c, "answered", Idle)
    /\ given' = given \cup ToSet(req[c].elems)
    /\ UNCHANGED <<lists, next>>

\* The server may end; what it has answered so far stays as it is.
End == up /\ up' = FALSE /\ UNCHANGED <<lists, req, given, next>>

ServiceNext ==
    \/ End
    \/ \E c \in Clients :
        \/ \E k \in Keys, n \in 1 .. MaxPush : AddElements(c, k, n) \/ TakeElements(c, k, n)
        \/ Observe(c)
        \/ \E ks \in BlockKeys[c] : Ask(c, ks)
        \/ TakeFirst(c) \/ Block(c) \/ Grant(c) \/ GiveUp(c)
        \/ Deliver(c)

\* While the server is up every request moves on: none stays asked, blocked or answered.
ServiceFairness ==
    \A c \in Clients :
        /\ WF_sVars(TakeFirst(c) \/ Block(c))
        /\ WF_sVars(Grant(c) \/ GiveUp(c))
        /\ WF_sVars(Deliver(c))

ServiceSpec == ServiceInit /\ [][ServiceNext]_sVars /\ ServiceFairness
=============================================================================
