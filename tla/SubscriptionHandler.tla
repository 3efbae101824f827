------------------------ MODULE SubscriptionHandler ------------------------
(***************************************************************************)
(* Publish/subscribe (src/src/SubscriptionHandler.cpp and .h).  Two maps   *)
(* point at shared Subscription objects: from channel names, and from the  *)
(* descriptors of the clients; an object also lists its clients.  The      *)
(* three must agree although each command updates them piece by piece, one *)
(* channel after the other.  A step is one iteration of a command's loop,  *)
(* with the confirmation it sends.                                         *)
(*                                                                         *)
(* A definition marked "Fault" is a mutated form of the one after it: with *)
(* it in place, a property named in PROJECT.json fails.                    *)
(***************************************************************************)
EXTENDS Integers, Sequences, FiniteSets, SequencesExt, SequenceFilter

CONSTANTS
    Fds,        \* descriptors of connections
    Channels,   \* channel names
    Objects,    \* Subscription objects; their storage is used again
    NoObject,   \* no object: the channel is not in the map
    ChannelArgs,\* the argument lists of SUBSCRIBE and UNSUBSCRIBE
    MaxHeld     \* bound: subscriptions a client holds

ASSUME NoObjectAssumption == NoObject \notin Objects
ASSUME ChannelArgsAssumption == ChannelArgs \subseteq (Seq(Channels) \ {<<>>})
ASSUME MaxHeldAssumption == MaxHeld \in Nat

VARIABLES
    open,           \* descriptors in the event loop's set
    channels,       \* m_channelSubscriptions: the object of a channel
    name,           \* Subscription::m_channelName
    subscribers,    \* Subscription::m_subscribedClients
    held,           \* m_clientSubscriptions; no entry is written as <<>>
    cmd,            \* the command in progress and what it has still to do
    out             \* the last message sent

vars == <<open, channels, name, subscribers, held, cmd, out>>

NoCmd == [op |-> "none", fd |-> 0, todo |-> <<>>]
NoOut == [kind |-> "none", to |-> {}, ch |-> {}, n |-> 0]
Out(kind, to, ch, n) == [kind |-> kind, to |-> to, ch |-> {ch}, n |-> n]

Ops == {"none", "subscribe", "unsubscribe", "leave", "close"}

TypeOK ==
    /\ open \in SUBSET Fds
    /\ channels \in [Channels -> Objects \cup {NoObject}]
    /\ name \in [Objects -> Channels]
    /\ subscribers \in [Objects -> Seq(Fds)]
    /\ held \in [Fds -> Seq(Objects)]
    /\ cmd \in [op : Ops, fd : Fds \cup {0}, todo : Seq(Channels) \cup Seq(Objects)]
    /\ out \in [kind : {"none", "subscribe", "unsubscribe", "message"},
                to : SUBSET Fds, ch : SUBSET Channels, n : Nat]

Init ==
    /\ open = {}
    /\ channels = [ch \in Channels |-> NoObject]
    /\ name \in [Objects -> Channels]
    /\ subscribers = [o \in Objects |-> <<>>]
    /\ held = [f \in Fds |-> <<>>]
    /\ cmd = NoCmd
    /\ out = NoOut

InSubscribedMode(f) == held[f] # <<>>

\* Storage that neither map points at.
Free == {o \in Objects : o \notin {channels[ch] : ch \in Channels}
                         /\ \A f \in Fds : o \notin ToSet(held[f])}

-----------------------------------------------------------------------------
(* Connections, and the commands as the event loop takes them.             *)

CmdIdle == cmd.op = "none"

Accept(f) ==
    /\ CmdIdle /\ f \notin open
    /\ open' = open \cup {f}
    /\ out' = NoOut
    /\ UNCHANGED <<channels, name, subscribers, held, cmd>>

\* A command of f enters its loop over todo.
Begin(op, f, todo) ==
    /\ CmdIdle /\ f \in open
    /\ cmd' = [op |-> op, fd |-> f, todo |-> todo]
    /\ out' = NoOut
    /\ UNCHANGED <<open, channels, name, subscribers, held>>

Subscribe(f, chs) ==
    /\ Len(held[f]) + Len(chs) <= MaxHeld
    /\ Begin("subscribe", f, chs)

Unsubscribe(f, chs) == Begin("unsubscribe", f, chs)

\* UNSUBSCRIBE without arguments returns at once if nothing is held.
UnsubscribeAll(f) == held[f] # <<>> /\ Begin("leave", f, held[f])

\* Fault: the subscriptions stay when the connection goes.
DisconnectOnly(f) == Begin("close", f, <<>>)
\* The descriptor is closed after the loop, which sends no confirmations then.
Disconnect(f) == Begin("close", f, held[f])

\* PUBLISH is dispatched in subscribed mode too.
Publish(f, ch) ==
    /\ CmdIdle /\ f \in open
    /\ out' = IF channels[ch] = NoObject THEN NoOut
              ELSE Out("message", ToSet(subscribers[channels[ch]]), ch,
                       Len(subscribers[channels[ch]]))
    /\ UNCHANGED <<open, channels, name, subscribers, held, cmd>>

-----------------------------------------------------------------------------
(* The iterations.                                                         *)

\* The element of the loop, and the command after this iteration.
This == Head(cmd.todo)
Advance == IF Len(cmd.todo) > 1 THEN [cmd EXCEPT !.todo = Tail(@)] ELSE NoCmd

\* Fault: a client is listed again.
AddClientTwice(s, f) == Append(s, f)
AddClient(s, f) == IF f \in ToSet(s) THEN s ELSE Append(s, f)
RemoveClient(s, f) == RemoveFirst(s, f)

SubscribeNext ==
    /\ cmd.op = "subscribe"
    /\ \E o \in IF channels[This] = NoObject THEN Free ELSE {channels[This]} :
        LET clients == IF channels[This] = NoObject THEN <<>> ELSE subscribers[o]
        IN /\ channels' = [channels EXCEPT ![This] = o]
           /\ name' = [name EXCEPT ![o] = This]
           /\ subscribers' = [subscribers EXCEPT ![o] = AddClient(clients, cmd.fd)]
           /\ held' = [held EXCEPT ![cmd.fd] = Append(@, o)]
    /\ out' = Out("subscribe", {cmd.fd}, This, Len(held'[cmd.fd]))
    /\ cmd' = Advance
    /\ UNCHANGED open

\* The map entry of a channel that lost its last client is erased.
DropIfEmpty(ch, clients) == IF clients = <<>> THEN [channels EXCEPT ![ch] = NoObject] ELSE channels

\* What a client still holds after it leaves ch: remove_if drops every copy.
StillHeld(f, ch) ==
    Filtered(held[f], {o \in Objects : subscribers'[o] # <<>> /\ name[o] # ch})

UnsubscribeNext ==
    /\ cmd.op = "unsubscribe"
    /\ IF channels[This] = NoObject
       THEN UNCHANGED <<subscribers, channels>>
       ELSE LET clients == RemoveClient(subscribers[channels[This]], cmd.fd)
            IN /\ subscribers' = [subscribers EXCEPT ![channels[This]] = clients]
               /\ channels' = DropIfEmpty(This, clients)
    /\ held' = [held EXCEPT ![cmd.fd] = StillHeld(cmd.fd, This)]
    /\ out' = Out("unsubscribe", {cmd.fd}, This, Len(held'[cmd.fd]))
    /\ cmd' = Advance
    /\ UNCHANGED <<open, name>>

\* Fault: the count is sent, then decremented.
RemainingBefore == Len(cmd.todo)
\* The count in a confirmation of UNSUBSCRIBE without arguments.
Remaining == Len(cmd.todo) - 1

\* unsubscribeClientFromAllChannels: the entry of the client is erased after the
\* last object; the descriptor is closed then if the connection is gone.
LeaveNext ==
    /\ cmd.op \in {"leave", "close"} /\ cmd.todo # <<>>
    /\ LET clients == RemoveClient(subscribers[This], cmd.fd)
       IN /\ subscribers' = [subscribers EXCEPT ![This] = clients]
          /\ channels' = DropIfEmpty(name[This], clients)
    /\ held' = [held EXCEPT ![cmd.fd] = IF Len(cmd.todo) > 1 THEN @ ELSE <<>>]
    /\ out' = IF cmd.op = "close" THEN NoOut
              ELSE Out("unsubscribe", {cmd.fd}, name[This], Remaining)
    /\ cmd' = IF cmd.op = "leave" THEN Advance ELSE [cmd EXCEPT !.todo = Tail(@)]
    /\ UNCHANGED <<open, name>>

CloseFd ==
    /\ cmd.op = "close" /\ cmd.todo = <<>>
    /\ open' = open \ {cmd.fd}
    /\ cmd' = NoCmd
    /\ out' = NoOut
    /\ UNCHANGED <<channels, name, subscribers, held>>

Next ==
    \/ \E f \in Fds : Accept(f) \/ UnsubscribeAll(f) \/ Disconnect(f)
    \/ \E f \in Fds, chs \in ChannelArgs : Subscribe(f, chs) \/ Unsubscribe(f, chs)
    \/ \E f \in Fds, ch \in Channels : Publish(f, ch)
    \/ SubscribeNext \/ UnsubscribeNext \/ LeaveNext \/ CloseFd

Spec == Init /\ [][Next]_vars

-----------------------------------------------------------------------------
(* Properties.                                                             *)

\* Between commands, an object lists a client exactly if the client holds it, and
\* lists it once: the two indexes, updated in turn, never part.
IndexesAgree ==
    CmdIdle =>
        \A f \in Fds, ch \in Channels : channels[ch] # NoObject =>
            /\ f \in ToSet(subscribers[channels[ch]]) <=> channels[ch] \in ToSet(held[f])
            /\ Cardinality({i \in DOMAIN subscribers[channels[ch]] :
                              subscribers[channels[ch]][i] = f}) <= 1

\* No client holds an object that its channel's map entry no longer points at: the
\* channel is erased and made again only when nobody holds the old object.
NoStaleObject ==
    CmdIdle => \A f \in Fds : \A o \in ToSet(held[f]) : channels[name[o]] = o

\* A channel stays in the map only while it has a client: no entry leaks, however
\* its clients leave, by UNSUBSCRIBE or by closing.
NoEmptyChannel ==
    CmdIdle => \A ch \in Channels : channels[ch] # NoObject => subscribers[channels[ch]] # <<>>

\* The maps and the objects they share, updated piece by piece, are whole again when a
\* command ends.
MapsInv == TypeOK /\ IndexesAgree /\ NoStaleObject /\ NoEmptyChannel

\* The confirmation that ends an UNSUBSCRIBE says 0 exactly when the client has left
\* subscribed mode, so that client and server agree on the mode.
CountTellsTheMode ==
    CmdIdle /\ out.kind = "unsubscribe" =>
        \A f \in out.to : (out.n = 0) <=> ~InSubscribedMode(f)

\* The relation the three structures stand for: who a message would reach.  A client
\* that leaves all channels is out of one as soon as its object forgets it.
Subscribed ==
    {s \in Fds \X Channels :
       channels[s[2]] # NoObject /\ s[1] \in ToSet(subscribers[channels[s[2]]])}

Service == INSTANCE PubSub WITH subs <- Subscribed,
    message <- IF out.kind = "message"
               THEN {<<CHOOSE ch \in Channels : ch \in out.ch, out.to>>} ELSE {}

\* The maps implement the relation: each message goes to exactly the connections
\* that are subscribed, and a descriptor that is used again starts with none.
ImplementsPubSub == Service!PubSubSpec
=============================================================================
