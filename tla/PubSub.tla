------------------------------- MODULE PubSub -------------------------------
(***************************************************************************)
(* What publish/subscribe promises: a relation between connections and     *)
(* channels, changed one channel at a time, and messages that go to        *)
(* exactly the connections related to their channel.                       *)
(*                                                                         *)
(* SubscriptionHandler is shown to implement this specification.           *)
(***************************************************************************)
CONSTANTS
    Fds,        \* descriptors of connections
    Channels    \* channel names

VARIABLES
    open,       \* descriptors that are connected
    subs,       \* which descriptor is subscribed to which channel
    message     \* the last message published and its receivers

pVars == <<open, subs, message>>

Message(ch, to) == {<<ch, to>>}
NoMessage == {}

PubSubInit == open = {} /\ subs = {} /\ message = NoMessage

Receivers(ch) == {f \in Fds : <<f, ch>> \in subs}

\* A new connection is subscribed to nothing, whoever had its descriptor before.
Open(f) ==
    /\ f \notin open /\ open' = open \cup {f}
    /\ \A ch \in Channels : <<f, ch>> \notin subs
    /\ UNCHANGED subs /\ message' = NoMessage

Close(f) ==
    /\ f \in open /\ open' = open \ {f}
    /\ subs' = {s \in subs : s[1] # f}
    /\ message' = NoMessage

Join(f, ch) == f \in open /\ subs' = subs \cup {<<f, ch>>} /\ UNCHANGED open /\ message' = NoMessage
Leave(f, ch) == f \in open /\ subs' = subs \ {<<f, ch>>} /\ UNCHANGED open /\ message' = NoMessage

Tell(ch) == message' = Message(ch, Receivers(ch)) /\ UNCHANGED <<open, subs>>

\* A command begins: no message is under way.
Begin == message' = NoMessage /\ UNCHANGED <<open, subs>>

PubSubNext ==
    \/ \E f \in Fds : Open(f) \/ Close(f)
    \/ \E f \in Fds, ch \in Channels : Join(f, ch) \/ Leave(f, ch)
    \/ \E ch \in Channels : Tell(ch)
    \/ Begin

PubSubSpec == PubSubInit /\ [][PubSubNext]_pVars
=============================================================================
