---------------------- MODULE SubscriptionHandlerProofs ----------------------
(***************************************************************************)
(* The maps of SubscriptionHandler agree between commands, and implement   *)
(* PubSub, for every set of connections, channels and objects and every    *)
(* list of arguments.                                                      *)
(***************************************************************************)
EXTENDS SubscriptionHandler, SequenceLemmas

-----------------------------------------------------------------------------
(* The inductive invariant.  IndexesAgree and NoStaleObject are about the  *)
(* states between commands; in the middle of one, the client it serves may *)
(* hold objects that have forgotten it, and everybody else may not.        *)

\* What a command has still to do has the type of the command.
CmdTypes ==
    /\ cmd.op = "none" => cmd = NoCmd
    /\ cmd.op # "none" => cmd.fd \in open
    /\ cmd.op \in {"subscribe", "unsubscribe"} => cmd.todo \in Seq(Channels) \ {<<>>}
    /\ cmd.op \in {"leave", "close"} => cmd.todo \in Seq(Objects)
    /\ cmd.op = "leave" => cmd.todo # <<>>

NoTwice(s) == \A i, j \in 1 .. Len(s) : s[i] = s[j] => i = j

\* An object in the map is there under its name, and has a client.
Mapped ==
    \A ch \in Channels : channels[ch] # NoObject =>
        name[channels[ch]] = ch /\ subscribers[channels[ch]] # <<>>

\* Who is listed by an object in the map holds it.
ListedHolds ==
    \A ch \in Channels, f \in Fds :
        channels[ch] # NoObject /\ f \in ToSet(subscribers[channels[ch]])
            => channels[ch] \in ToSet(held[f])

\* The loop over what a client holds is under way.
Leaves(f) == cmd.op \in {"leave", "close"} /\ cmd.fd = f

\* Who holds an object is listed by it, and the object is in the map.
HolderListed ==
    \A f \in Fds : ~Leaves(f) =>
        \A o \in ToSet(held[f]) : channels[name[o]] = o /\ f \in ToSet(subscribers[o])

\* A client that leaves is still listed by objects the loop will come to, and holds
\* none that has lost its place in the map to another.
LeaverListed ==
    \A f \in Fds : Leaves(f) =>
        /\ ToSet(cmd.todo) \subseteq ToSet(held[f])
        /\ cmd.todo = <<>> => held[f] = <<>>
        /\ \A o \in ToSet(held[f]) :
             /\ channels[name[o]] \in {o, NoObject}
             /\ f \in ToSet(subscribers[o]) => channels[name[o]] = o /\ o \in ToSet(cmd.todo)

\* A descriptor that is closed holds nothing.
ClosedHoldsNothing == \A f \in Fds \ open : held[f] = <<>>

MapsIInv ==
    /\ TypeOK /\ CmdTypes
    /\ \A o \in Objects : NoTwice(subscribers[o])
    /\ Mapped /\ ListedHolds /\ HolderListed /\ LeaverListed /\ ClosedHoldsNothing
    /\ CountTellsTheMode

-----------------------------------------------------------------------------
(* Sequences.                                                              *)

LEMMA RemoveClientFacts ==
  ASSUME NEW E, NEW s \in Seq(E), NEW f, NoTwice(s)
  PROVE  /\ RemoveClient(s, f) \in Seq(E) /\ NoTwice(RemoveClient(s, f))
         /\ ToSet(RemoveClient(s, f)) = ToSet(s) \ {f}
<1>1. CASE ~\E i \in 1 .. Len(s) : s[i] = f
  <2>1. RemoveClient(s, f) = s
    BY <1>1 DEF RemoveClient, RemoveFirst
  <2>2. f \notin ToSet(s)
    BY <1>1 DEF ToSet
  <2>3. QED
    BY <2>1, <2>2
<1>2. CASE \E i \in 1 .. Len(s) : s[i] = f
  <2> DEFINE At == {i \in 1 .. Len(s) : s[i] = f}
  <2>0. At \in SUBSET Nat /\ At # {}
    BY <1>2
  <2>1. \E m \in At : \A k \in At : m <= k
    <3> HIDE DEF At
    <3>1. QED
      BY <2>0, LeastNumber
  <2>2. PICK m \in At : RemoveClient(s, f) = RemoveAt(s, m)
    BY <1>2, <2>1 DEF RemoveClient, RemoveFirst, SelectInSeq, Min
  <2> DEFINE t == RemoveAt(s, m)
  <2>3. /\ t \in Seq(E) /\ Len(t) = Len(s) - 1
        /\ \A i \in 1 .. Len(t) : t[i] = IF i < m THEN s[i] ELSE s[i + 1]
    <3>1. m \in 1 .. Len(s)
      OBVIOUS
    <3> HIDE DEF At, t
    <3>2. t \in Seq(E) /\ Len(t) = Len(s) - 1
          /\ \A i \in 1 .. Len(t) : t[i] = IF i < m THEN s[i] ELSE s[i + 1]
      BY <3>1, RemoveAtFacts DEF t
    <3>3. QED
      BY <3>2
  <2>4. m \in 1 .. Len(s) /\ s[m] = f /\ Len(s) \in Nat
    OBVIOUS
  <2> HIDE DEF t, At
  <2>5. \A i \in 1 .. Len(t) : \E j \in 1 .. Len(s) : j # m /\ t[i] = s[j] /\ j = (IF i < m THEN i ELSE i + 1)
    BY <2>3, <2>4
  <2>6. NoTwice(t)
    BY SMTT(30), <2>3, <2>4, <2>5 DEF NoTwice
  <2>7. \A j \in 1 .. Len(s) : j # m => \E i \in 1 .. Len(t) : t[i] = s[j]
    <3>1. ASSUME NEW j \in 1 .. Len(s), j # m PROVE \E i \in 1 .. Len(t) : t[i] = s[j]
      <4>1. CASE j < m
        <5>1. j \in 1 .. Len(t) /\ t[j] = s[j]
          BY <2>3, <2>4, <4>1
        <5>2. QED
          BY <5>1
      <4>2. CASE j > m
        <5>1. j - 1 \in 1 .. Len(t) /\ t[j - 1] = s[(j - 1) + 1]
          BY <2>3, <2>4, <4>2
        <5>2. QED
          BY <5>1
      <4>3. QED
        BY <2>4, <3>1, <4>1, <4>2
    <3>2. QED
      BY <3>1
  <2>8. ToSet(t) = ToSet(s) \ {f}
    <3>1. DOMAIN t = 1 .. Len(t) /\ DOMAIN s = 1 .. Len(s)
      BY <2>3
    <3>2. \A j \in 1 .. Len(s) : j # m => s[j] # f
      BY <2>4 DEF NoTwice
    <3>3. ToSet(t) \subseteq ToSet(s) \ {f}
      BY <2>5, <3>1, <3>2 DEF ToSet
    <3>4. ToSet(s) \ {f} \subseteq ToSet(t)
      BY <2>4, <2>7, <3>1 DEF ToSet
    <3>5. QED
      BY <3>3, <3>4
  <2>9. QED
    BY <2>2, <2>3, <2>6, <2>8 DEF t
<1>3. QED
  BY <1>1, <1>2

LEMMA AddClientFacts ==
  ASSUME NEW E, NEW s \in Seq(E), NEW f \in E, NoTwice(s)
  PROVE  /\ AddClient(s, f) \in Seq(E) /\ NoTwice(AddClient(s, f))
         /\ ToSet(AddClient(s, f)) = ToSet(s) \cup {f} /\ AddClient(s, f) # <<>>
<1>1. CASE f \in ToSet(s)
  <2>1. s # <<>>
    BY <1>1 DEF ToSet
  <2>2. QED
    BY <1>1, <2>1 DEF AddClient
<1>2. CASE f \notin ToSet(s)
  <2> DEFINE t == Append(s, f)
  <2>1. AddClient(s, f) = t /\ t # <<>> /\ t \in Seq(E)
    BY <1>2 DEF AddClient
  <2>2. ToSet(t) = ToSet(s) \cup {f}
    BY ToSetAppend
  <2>3. \A i \in 1 .. Len(s) : s[i] # f
    BY <1>2 DEF ToSet
  <2>4. NoTwice(t)
    BY <2>3 DEF NoTwice
  <2>5. QED
    BY <2>1, <2>2, <2>4
<1>3. QED
  BY <1>1, <1>2

LEMMA NoTwiceEmpty == NoTwice(<<>>) /\ ToSet(<<>>) = {}
BY DEF NoTwice, ToSet


-----------------------------------------------------------------------------
(* Between commands, and the beginning of one.                             *)

LEMMA MapsIInvInit == Init => MapsIInv
<1> SUFFICES ASSUME Init PROVE MapsIInv
  OBVIOUS
<1>1. TypeOK
  BY DEF Init, TypeOK, NoCmd, NoOut, Ops
<1>2. CmdTypes /\ CountTellsTheMode
  BY DEF Init, CmdTypes, NoCmd, NoOut, CountTellsTheMode
<1>3. \A o \in Objects : NoTwice(subscribers[o])
  BY NoTwiceEmpty DEF Init
<1>4. Mapped /\ ListedHolds /\ HolderListed /\ LeaverListed /\ ClosedHoldsNothing
  BY NoTwiceEmpty DEF Init, Mapped, ListedHolds, HolderListed, LeaverListed, ClosedHoldsNothing,
     Leaves, NoCmd
<1>5. QED
  BY <1>1, <1>2, <1>3, <1>4 DEF MapsIInv

LEMMA AcceptKeeps ==
  ASSUME MapsIInv, NEW f \in Fds, Accept(f)
  PROVE  MapsIInv'
<1> USE DEF MapsIInv, Accept
<1>1. TypeOK' /\ CmdTypes' /\ CountTellsTheMode'
  BY DEF TypeOK, CmdTypes, CountTellsTheMode, CmdIdle, NoOut, NoCmd
<1>2. Mapped' /\ ListedHolds' /\ HolderListed' /\ LeaverListed' /\ ClosedHoldsNothing'
  BY DEF Mapped, ListedHolds, HolderListed, LeaverListed, ClosedHoldsNothing, Leaves, CmdIdle
<1>3. QED
  BY <1>1, <1>2

LEMMA PublishKeeps ==
  ASSUME MapsIInv, NEW f \in Fds, NEW ch \in Channels, Publish(f, ch)
  PROVE  MapsIInv'
<1> USE DEF MapsIInv
<1>1. UNCHANGED <<open, channels, name, subscribers, held, cmd>>
  BY DEF Publish
<1>2. out' = NoOut \/ (channels[ch] \in Objects
                       /\ out' = Out("message", ToSet(subscribers[channels[ch]]), ch,
                                     Len(subscribers[channels[ch]])))
  BY DEF Publish, TypeOK
<1>3. out' \in [kind : {"none", "message"}, to : SUBSET Fds, ch : SUBSET Channels, n : Nat]
  <2>1. CASE out' = NoOut
    BY <2>1 DEF NoOut
  <2>2. CASE out' # NoOut
    <3>1. subscribers[channels[ch]] \in Seq(Fds)
      BY <1>2, <2>2 DEF TypeOK
    <3>2. ToSet(subscribers[channels[ch]]) \subseteq Fds /\ Len(subscribers[channels[ch]]) \in Nat
      BY <3>1 DEF ToSet
    <3>3. QED
      BY <1>2, <2>2, <3>2 DEF Out
  <2>3. QED
    BY <2>1, <2>2
<1>4. TypeOK' /\ CmdTypes' /\ CountTellsTheMode'
  BY <1>1, <1>3 DEF TypeOK, CmdTypes, CountTellsTheMode
<1>5. Mapped' /\ ListedHolds' /\ HolderListed' /\ LeaverListed' /\ ClosedHoldsNothing'
  BY <1>1 DEF Mapped, ListedHolds, HolderListed, LeaverListed, ClosedHoldsNothing, Leaves
<1>6. QED
  BY <1>1, <1>4, <1>5

LEMMA BeginKeeps ==
  ASSUME MapsIInv, NEW f \in Fds, NEW op \in Ops \ {"none"}, NEW todo, Begin(op, f, todo),
         op \in {"subscribe", "unsubscribe"} => todo \in Seq(Channels) \ {<<>>},
         op \in {"leave", "close"} => todo = held[f],
         op = "leave" => todo # <<>>
  PROVE  MapsIInv'
<1> USE DEF MapsIInv, Begin
<1>1. /\ cmd.op = "none" /\ f \in open /\ cmd'.op = op /\ cmd'.fd = f /\ cmd'.todo = todo
      /\ UNCHANGED <<open, channels, name, subscribers, held>>
  BY DEF CmdIdle
<1>2. held[f] \in Seq(Objects)
  BY DEF TypeOK
<1>3. TypeOK' /\ CmdTypes' /\ CountTellsTheMode'
  <2>1. todo \in Seq(Channels) \cup Seq(Objects)
    BY <1>2 DEF Ops
  <2>2. cmd' \in [op : Ops, fd : Fds \cup {0}, todo : Seq(Channels) \cup Seq(Objects)]
    BY <2>1
  <2>3. TypeOK'
    BY <1>1, <2>2 DEF TypeOK, NoOut
  <2>4. CmdTypes'
    BY <1>1, <1>2 DEF CmdTypes
  <2>5. CountTellsTheMode'
    BY <1>1 DEF CountTellsTheMode, CmdIdle
  <2>6. QED
    BY <2>3, <2>4, <2>5
<1>4. Mapped' /\ ListedHolds' /\ ClosedHoldsNothing'
  BY <1>1 DEF Mapped, ListedHolds, ClosedHoldsNothing
<1>5. \A g \in Fds : ~Leaves(g)
  BY <1>1 DEF Leaves
<1>6. \A g \in Fds : \A o \in ToSet(held[g]) : channels[name[o]] = o /\ g \in ToSet(subscribers[o])
  BY <1>5 DEF HolderListed
<1>7. HolderListed'
  BY <1>1, <1>6 DEF HolderListed
<1>8. LeaverListed'
  <2>1. \A g \in Fds : Leaves(g)' => g = f /\ todo = held[f]
    BY <1>1 DEF Leaves
  <2>2. QED
    BY <1>1, <1>6, <2>1 DEF LeaverListed
<1>9. QED
  BY <1>1, <1>3, <1>4, <1>7, <1>8

LEMMA CloseKeeps ==
  ASSUME MapsIInv, CloseFd
  PROVE  MapsIInv'
<1> USE DEF MapsIInv, CloseFd
<1>1. /\ cmd.op = "close" /\ cmd.todo = <<>> /\ open' = open \ {cmd.fd} /\ cmd' = NoCmd
      /\ UNCHANGED <<channels, name, subscribers, held>> /\ cmd.fd \in Fds
  BY DEF TypeOK, CmdTypes
<1>2. held[cmd.fd] = <<>>
  BY <1>1 DEF LeaverListed, Leaves
<1>3. TypeOK' /\ CmdTypes' /\ CountTellsTheMode'
  BY <1>1 DEF TypeOK, CmdTypes, CountTellsTheMode, NoCmd, NoOut, Ops
<1>4. Mapped' /\ ListedHolds' /\ ClosedHoldsNothing'
  BY <1>1, <1>2 DEF Mapped, ListedHolds, ClosedHoldsNothing
<1>5. HolderListed' /\ LeaverListed'
  BY <1>1, <1>2, NoTwiceEmpty DEF HolderListed, LeaverListed, Leaves, NoCmd
<1>6. QED
  BY <1>1, <1>3, <1>4, <1>5

-----------------------------------------------------------------------------
(* The iterations.                                                         *)

LEMMA AdvanceFacts ==
  ASSUME TypeOK, CmdTypes, cmd.op \in {"subscribe", "unsubscribe", "leave"},
         cmd' = Advance, open' = open
  PROVE  /\ cmd.fd \in open /\ cmd.fd \in Fds
         /\ cmd.op # "leave" => This \in Channels
         /\ cmd.op = "leave" => This \in Objects
         /\ cmd' \in [op : Ops, fd : Fds \cup {0}, todo : Seq(Channels) \cup Seq(Objects)]
         /\ CmdTypes' /\ cmd'.op \in {cmd.op, "none"}
         /\ cmd'.op = "none" <=> Tail(cmd.todo) = <<>>
         /\ cmd'.op # "none" => cmd'.fd = cmd.fd /\ cmd'.todo = Tail(cmd.todo)
<1>1. cmd \in [op : Ops, fd : Fds \cup {0}, todo : Seq(Channels) \cup Seq(Objects)]
      /\ open \in SUBSET Fds
  BY DEF TypeOK
<1>2. cmd.fd \in open /\ cmd.fd \in Fds
  BY <1>1 DEF CmdTypes
<1>3. NoCmd \in [op : Ops, fd : Fds \cup {0}, todo : Seq(Channels) \cup Seq(Objects)]
  BY DEF NoCmd, Ops
<1>4. CASE cmd.op = "leave"
  <2>1. cmd.todo \in Seq(Objects) /\ cmd.todo # <<>>
    BY <1>4 DEF CmdTypes
  <2>2. /\ This \in Objects /\ Tail(cmd.todo) \in Seq(Objects)
        /\ Len(cmd.todo) > 1 <=> Tail(cmd.todo) # <<>>
    BY <2>1, HeadAndTail DEF This
  <2>3. CASE Len(cmd.todo) > 1
    BY <1>1, <1>2, <1>4, <2>2, <2>3 DEF Advance, CmdTypes, NoCmd
  <2>4. CASE ~(Len(cmd.todo) > 1)
    BY <1>2, <1>3, <1>4, <2>2, <2>4 DEF Advance, CmdTypes, NoCmd
  <2>5. QED
    BY <2>3, <2>4
<1>5. CASE cmd.op # "leave"
  <2>1. cmd.todo \in Seq(Channels) /\ cmd.todo # <<>>
    BY <1>5 DEF CmdTypes
  <2>2. /\ This \in Channels /\ Tail(cmd.todo) \in Seq(Channels)
        /\ Len(cmd.todo) > 1 <=> Tail(cmd.todo) # <<>>
    BY <2>1, HeadAndTail DEF This
  <2>3. CASE Len(cmd.todo) > 1
    BY <1>1, <1>2, <1>5, <2>2, <2>3 DEF Advance, CmdTypes, NoCmd
  <2>4. CASE ~(Len(cmd.todo) > 1)
    BY <1>2, <1>3, <1>5, <2>2, <2>4 DEF Advance, CmdTypes, NoCmd
  <2>5. QED
    BY <2>3, <2>4
<1>6. QED
  BY <1>4, <1>5

\* What SUBSCRIBE to one channel does to the maps.
LEMMA SubscribeFacts ==
  ASSUME MapsIInv, SubscribeNext
  PROVE  \E o \in Objects :
           /\ This \in Channels /\ cmd.fd \in Fds /\ cmd.fd \in open
           /\ channels' = [channels EXCEPT ![This] = o]
           /\ name' = [name EXCEPT ![o] = This]
           /\ held' = [held EXCEPT ![cmd.fd] = Append(@, o)]
           /\ subscribers'[o] \in Seq(Fds) /\ NoTwice(subscribers'[o]) /\ subscribers'[o] # <<>>
           /\ subscribers' = [subscribers EXCEPT ![o] = subscribers'[o]]
           /\ ToSet(subscribers'[o]) =
                {cmd.fd} \cup IF channels[This] = NoObject THEN {} ELSE ToSet(subscribers[o])
           /\ channels[This] \in {o, NoObject}
           /\ \A ch \in Channels : ch # This => channels[ch] # o
           /\ channels[This] = NoObject => \A f \in Fds : o \notin ToSet(held[f])
<1> USE DEF MapsIInv
<1>1. This \in Channels /\ cmd.fd \in Fds /\ cmd.fd \in open
  BY AdvanceFacts DEF SubscribeNext
<1>2. PICK o \in IF channels[This] = NoObject THEN Free ELSE {channels[This]} :
        LET clients == IF channels[This] = NoObject THEN <<>> ELSE subscribers[o]
        IN /\ channels' = [channels EXCEPT ![This] = o]
           /\ name' = [name EXCEPT ![o] = This]
           /\ subscribers' = [subscribers EXCEPT ![o] = AddClient(clients, cmd.fd)]
           /\ held' = [held EXCEPT ![cmd.fd] = Append(@, o)]
  BY DEF SubscribeNext
<1> DEFINE clients == IF channels[This] = NoObject THEN <<>> ELSE subscribers[o]
<1>3. o \in Objects
  BY <1>1, <1>2 DEF TypeOK, Free
<1>4. clients \in Seq(Fds) /\ NoTwice(clients)
  BY <1>3, NoTwiceEmpty DEF TypeOK
<1>5. subscribers'[o] = AddClient(clients, cmd.fd)
  BY <1>2, <1>3 DEF TypeOK
<1>6. /\ subscribers'[o] \in Seq(Fds) /\ NoTwice(subscribers'[o]) /\ subscribers'[o] # <<>>
      /\ ToSet(subscribers'[o]) = ToSet(clients) \cup {cmd.fd}
  <2> HIDE DEF clients
  <2>1. /\ AddClient(clients, cmd.fd) \in Seq(Fds) /\ NoTwice(AddClient(clients, cmd.fd))
        /\ ToSet(AddClient(clients, cmd.fd)) = ToSet(clients) \cup {cmd.fd}
        /\ AddClient(clients, cmd.fd) # <<>>
    BY <1>1, <1>4, AddClientFacts
  <2>2. QED
    BY <1>5, <2>1
<1>7. channels[This] \in {o, NoObject} /\ \A ch \in Channels : ch # This => channels[ch] # o
  <2>1. CASE channels[This] = NoObject
    BY <1>2, <2>1 DEF Free
  <2>2. CASE channels[This] # NoObject
    BY <1>1, <1>2, <1>3, <2>2, NoObjectAssumption DEF Mapped
  <2>3. QED
    BY <2>1, <2>2
<1>8. channels[This] = NoObject => \A f \in Fds : o \notin ToSet(held[f])
  BY <1>2 DEF Free
<1>9. ToSet(clients) = IF channels[This] = NoObject THEN {} ELSE ToSet(subscribers[o])
  BY NoTwiceEmpty
<1>10. subscribers' = [subscribers EXCEPT ![o] = subscribers'[o]]
  BY <1>2, <1>5
<1> HIDE DEF clients
<1>11. QED
  BY <1>1, <1>2, <1>3, <1>6, <1>7, <1>8, <1>9, <1>10

LEMMA SubscribeKeeps ==
  ASSUME MapsIInv, SubscribeNext
  PROVE  MapsIInv'
<1>1. PICK o \in Objects :
           /\ This \in Channels /\ cmd.fd \in Fds /\ cmd.fd \in open
           /\ channels' = [channels EXCEPT ![This] = o]
           /\ name' = [name EXCEPT ![o] = This]
           /\ held' = [held EXCEPT ![cmd.fd] = Append(@, o)]
           /\ subscribers'[o] \in Seq(Fds) /\ NoTwice(subscribers'[o]) /\ subscribers'[o] # <<>>
           /\ subscribers' = [subscribers EXCEPT ![o] = subscribers'[o]]
           /\ ToSet(subscribers'[o]) =
                {cmd.fd} \cup IF channels[This] = NoObject THEN {} ELSE ToSet(subscribers[o])
           /\ channels[This] \in {o, NoObject}
           /\ \A ch \in Channels : ch # This => channels[ch] # o
           /\ channels[This] = NoObject => \A f \in Fds : o \notin ToSet(held[f])
  BY SubscribeFacts
<1> USE DEF MapsIInv
<1>2. /\ channels \in [Channels -> Objects \cup {NoObject}] /\ name \in [Objects -> Channels]
      /\ subscribers \in [Objects -> Seq(Fds)] /\ held \in [Fds -> Seq(Objects)]
      /\ open \in SUBSET Fds /\ open' = open
  BY DEF TypeOK, SubscribeNext
<1>3. /\ cmd' \in [op : Ops, fd : Fds \cup {0}, todo : Seq(Channels) \cup Seq(Objects)]
      /\ CmdTypes' /\ cmd.op = "subscribe" /\ cmd'.op \in {"subscribe", "none"}
  BY <1>2, AdvanceFacts DEF SubscribeNext
<1>4. /\ channels' \in [Channels -> Objects \cup {NoObject}] /\ name' \in [Objects -> Channels]
      /\ subscribers' \in [Objects -> Seq(Fds)] /\ held' \in [Fds -> Seq(Objects)]
  <2>1. Append(held[cmd.fd], o) \in Seq(Objects)
    BY <1>1, <1>2
  <2>2. held' \in [Fds -> Seq(Objects)]
    BY <1>1, <1>2, <2>1
  <2>3. /\ channels' \in [Channels -> Objects \cup {NoObject}] /\ name' \in [Objects -> Channels]
        /\ subscribers' \in [Objects -> Seq(Fds)]
    BY <1>1, <1>2
  <2>4. QED
    BY <2>2, <2>3
<1>5. out' \in [kind : {"subscribe"}, to : SUBSET Fds, ch : SUBSET Channels, n : Nat]
  <2>1. out' = Out("subscribe", {cmd.fd}, This, Len(held'[cmd.fd]))
    BY DEF SubscribeNext
  <2>2. Len(held'[cmd.fd]) \in Nat
    BY <1>1, <1>4
  <2>3. QED
    BY <1>1, <2>1, <2>2 DEF Out
<1>6. TypeOK' /\ CountTellsTheMode'
  BY <1>2, <1>3, <1>4, <1>5 DEF TypeOK, CountTellsTheMode
<1>7. \A p \in Objects : NoTwice(subscribers'[p])
  BY <1>1, <1>2
<1>8. \A f \in Fds : ToSet(held'[f]) = ToSet(held[f]) \cup (IF f = cmd.fd THEN {o} ELSE {})
  <2>1. ASSUME NEW f \in Fds
        PROVE  ToSet(held'[f]) = ToSet(held[f]) \cup (IF f = cmd.fd THEN {o} ELSE {})
    <3>1. CASE f = cmd.fd
      <4>1. held'[f] = Append(held[f], o) /\ held[f] \in Seq(Objects)
        BY <1>1, <1>2, <3>1
      <4>2. ToSet(held'[f]) = ToSet(held[f]) \cup {o}
        BY <4>1, ToSetAppend
      <4>3. QED
        BY <3>1, <4>2
    <3>2. CASE f # cmd.fd
      BY <1>1, <1>2, <3>2
    <3>3. QED
      BY <3>1, <3>2
  <2>2. QED
    BY <2>1
<1>9. Mapped'
  BY <1>1, <1>2 DEF Mapped
<1>10. ListedHolds'
  BY <1>1, <1>2, <1>8 DEF ListedHolds
<1>11. \A f \in Fds : ~Leaves(f) /\ ~Leaves(f)'
  BY <1>3 DEF Leaves
<1>12. HolderListed'
  <2>1. ASSUME NEW f \in Fds, NEW p \in ToSet(held'[f])
        PROVE  channels'[name'[p]] = p /\ f \in ToSet(subscribers'[p])
    <3>0. p \in Objects
      BY <1>4, <2>1 DEF ToSet
    <3>1. CASE p = o
      <4>1. channels'[name'[p]] = p
        BY <1>1, <1>2, <3>1
      <4>2. CASE f = cmd.fd
        BY <1>1, <3>1, <4>1, <4>2
      <4>3. CASE f # cmd.fd
        <5>1. o \in ToSet(held[f])
          BY <1>8, <2>1, <3>1, <4>3
        <5>2. channels[This] # NoObject /\ f \in ToSet(subscribers[o])
          BY <1>1, <1>11, <5>1 DEF HolderListed
        <5>3. QED
          BY <1>1, <3>1, <4>1, <5>2
      <4>4. QED
        BY <4>2, <4>3
    <3>2. CASE p # o
      <4>1. p \in ToSet(held[f])
        BY <1>8, <2>1, <3>2
      <4>2. channels[name[p]] = p /\ f \in ToSet(subscribers[p])
        BY <1>11, <4>1 DEF HolderListed
      <4>3. name[p] # This
        BY <1>1, <3>0, <3>2, <4>2, NoObjectAssumption
      <4>4. QED
        BY <1>1, <1>2, <3>0, <3>2, <4>2, <4>3
    <3>3. QED
      BY <3>1, <3>2
  <2>2. QED
    BY <2>1 DEF HolderListed
<1>13. LeaverListed'
  BY <1>11 DEF LeaverListed
<1>14. ClosedHoldsNothing'
  BY <1>1, <1>2 DEF ClosedHoldsNothing
<1>15. QED
  BY <1>3, <1>6, <1>7, <1>9, <1>10, <1>12, <1>13, <1>14

\* What UNSUBSCRIBE from one channel does to the maps.
LEMMA UnsubscribeFacts ==
  ASSUME MapsIInv, UnsubscribeNext
  PROVE  /\ This \in Channels /\ cmd.fd \in Fds /\ cmd.fd \in open
         /\ held' = [held EXCEPT ![cmd.fd] = held'[cmd.fd]] /\ held'[cmd.fd] \in Seq(Objects)
         /\ ToSet(held'[cmd.fd]) = ToSet(held[cmd.fd]) \ {channels[This]}
         /\ channels[This] = NoObject => UNCHANGED <<subscribers, channels>>
         /\ channels[This] # NoObject =>
              /\ channels[This] \in Objects /\ subscribers'[channels[This]] \in Seq(Fds)
              /\ NoTwice(subscribers'[channels[This]])
              /\ ToSet(subscribers'[channels[This]])
                   = ToSet(subscribers[channels[This]]) \ {cmd.fd}
              /\ subscribers' = [subscribers EXCEPT ![channels[This]] = subscribers'[channels[This]]]
              /\ channels' = DropIfEmpty(This, subscribers'[channels[This]])
<1> USE DEF MapsIInv
<1>1. This \in Channels /\ cmd.fd \in Fds /\ cmd.fd \in open
  BY AdvanceFacts DEF UnsubscribeNext
<1>2. /\ channels \in [Channels -> Objects \cup {NoObject}] /\ name \in [Objects -> Channels]
      /\ subscribers \in [Objects -> Seq(Fds)] /\ held \in [Fds -> Seq(Objects)]
  BY DEF TypeOK
<1> DEFINE o == channels[This]
           clients == RemoveClient(subscribers[o], cmd.fd)
<1>3. ASSUME o # NoObject
      PROVE  /\ o \in Objects /\ clients \in Seq(Fds) /\ NoTwice(clients)
             /\ ToSet(clients) = ToSet(subscribers[o]) \ {cmd.fd}
             /\ subscribers' = [subscribers EXCEPT ![o] = clients] /\ subscribers'[o] = clients
             /\ channels' = DropIfEmpty(This, clients)
  <2>1. o \in Objects /\ subscribers[o] \in Seq(Fds) /\ NoTwice(subscribers[o])
    BY <1>1, <1>2, <1>3
  <2>2. clients \in Seq(Fds) /\ NoTwice(clients) /\ ToSet(clients) = ToSet(subscribers[o]) \ {cmd.fd}
    BY <2>1, RemoveClientFacts
  <2>3. subscribers' = [subscribers EXCEPT ![o] = clients] /\ channels' = DropIfEmpty(This, clients)
    BY <1>3 DEF UnsubscribeNext
  <2>4. subscribers'[o] = clients
    BY <1>2, <2>1, <2>3
  <2>5. QED
    BY <2>1, <2>2, <2>3, <2>4
<1>4. o = NoObject => UNCHANGED <<subscribers, channels>>
  BY DEF UnsubscribeNext
<1> DEFINE S == {p \in Objects : subscribers'[p] # <<>> /\ name[p] # This}
<1>5. held' = [held EXCEPT ![cmd.fd] = Filtered(held[cmd.fd], S)]
  BY DEF UnsubscribeNext, StillHeld
<1>6. held[cmd.fd] \in Seq(Objects) /\ held'[cmd.fd] = Filtered(held[cmd.fd], S)
  BY <1>1, <1>2, <1>5
<1>7. ASSUME NEW p \in ToSet(held[cmd.fd])
      PROVE  p \in S <=> p # o
  <2>1. p \in Objects
    BY <1>6, <1>7 DEF ToSet
  <2>2. ~Leaves(cmd.fd)
    BY DEF Leaves, UnsubscribeNext
  <2>3. channels[name[p]] = p /\ cmd.fd \in ToSet(subscribers[p])
    BY <1>1, <1>7, <2>2 DEF HolderListed
  <2>4. subscribers[p] # <<>>
    BY <2>3, NoTwiceEmpty
  <2>5. CASE p = o
    BY <1>1, <1>3, <2>1, <2>5, NoObjectAssumption DEF Mapped
  <2>6. CASE p # o
    <3>1. name[p] # This
      BY <2>3, <2>6
    <3>2. subscribers'[p] = subscribers[p]
      BY <1>2, <1>3, <1>4, <2>1, <2>6
    <3>3. QED
      BY <2>1, <2>4, <2>6, <3>1, <3>2
  <2>7. QED
    BY <2>5, <2>6
<1> HIDE DEF S
<1>8. held'[cmd.fd] \in Seq(Objects) /\ ToSet(held'[cmd.fd]) = ToSet(held[cmd.fd]) \cap S
  BY <1>6, FilteredType, FilteredElements
<1>9. ToSet(held'[cmd.fd]) = ToSet(held[cmd.fd]) \ {o}
  BY <1>7, <1>8
<1>10. held' = [held EXCEPT ![cmd.fd] = held'[cmd.fd]]
  BY <1>5, <1>6
<1>11. QED
  BY <1>1, <1>3, <1>4, <1>8, <1>9, <1>10

LEMMA UnsubscribeKeeps ==
  ASSUME MapsIInv, UnsubscribeNext
  PROVE  MapsIInv'
<1> USE DEF MapsIInv
<1> DEFINE o == channels[This]
           fd == cmd.fd
<1>1. /\ This \in Channels /\ fd \in Fds /\ fd \in open
      /\ held' = [held EXCEPT ![fd] = held'[fd]] /\ held'[fd] \in Seq(Objects)
      /\ ToSet(held'[fd]) = ToSet(held[fd]) \ {o}
  BY UnsubscribeFacts
<1>2. o = NoObject => UNCHANGED <<subscribers, channels>>
  BY UnsubscribeFacts
<1>3. o # NoObject =>
              /\ o \in Objects /\ subscribers'[o] \in Seq(Fds) /\ NoTwice(subscribers'[o])
              /\ ToSet(subscribers'[o]) = ToSet(subscribers[o]) \ {fd}
              /\ subscribers' = [subscribers EXCEPT ![o] = subscribers'[o]]
              /\ channels' = DropIfEmpty(This, subscribers'[o])
  BY UnsubscribeFacts
<1>4. /\ channels \in [Channels -> Objects \cup {NoObject}] /\ name \in [Objects -> Channels]
      /\ subscribers \in [Objects -> Seq(Fds)] /\ held \in [Fds -> Seq(Objects)]
      /\ open \in SUBSET Fds /\ open' = open /\ name' = name
  BY DEF TypeOK, UnsubscribeNext
<1>5. /\ cmd' \in [op : Ops, fd : Fds \cup {0}, todo : Seq(Channels) \cup Seq(Objects)]
      /\ CmdTypes' /\ cmd.op = "unsubscribe" /\ cmd'.op \in {"unsubscribe", "none"}
  BY <1>4, AdvanceFacts DEF UnsubscribeNext
<1>6. out' = Out("unsubscribe", {fd}, This, Len(held'[fd]))
  BY DEF UnsubscribeNext
<1> HIDE DEF fd, o
<1>7. held' \in [Fds -> Seq(Objects)] /\ subscribers' \in [Objects -> Seq(Fds)]
      /\ channels' \in [Channels -> Objects \cup {NoObject}]
  BY <1>1, <1>2, <1>3, <1>4 DEF DropIfEmpty
<1>8. out' \in [kind : {"unsubscribe"}, to : SUBSET Fds, ch : SUBSET Channels, n : Nat]
  <2>1. Len(held'[fd]) \in Nat
    BY <1>1
  <2>2. QED
    BY <1>1, <1>6, <2>1 DEF Out
<1>9. CountTellsTheMode'
  <2>1. Len(held'[fd]) = 0 <=> held'[fd] = <<>>
    BY <1>1, EmptyLength
  <2>2. QED
    BY <1>6, <2>1 DEF CountTellsTheMode, InSubscribedMode, Out
<1>10. TypeOK'
  BY <1>4, <1>5, <1>7, <1>8 DEF TypeOK
<1>11. \A p \in Objects : NoTwice(subscribers'[p])
  BY <1>2, <1>3, <1>4
<1>12. \A ch \in Channels : ch # This => channels'[ch] = channels[ch]
  BY <1>2, <1>3, <1>4 DEF DropIfEmpty
<1>13. \A ch \in Channels : ch # This /\ channels[ch] # NoObject => channels[ch] # o
  BY <1>1 DEF Mapped, o
<1>14. \A p \in Objects : p # o => subscribers'[p] = subscribers[p]
  BY <1>2, <1>3, <1>4
<1>15. o # NoObject =>
         channels'[This] = IF subscribers'[o] = <<>> THEN NoObject ELSE o
  BY <1>1, <1>3, <1>4 DEF DropIfEmpty, o
<1>16. \A f \in Fds : f # fd => held'[f] = held[f]
  BY <1>1, <1>4
<1>17. Mapped'
  <2>1. ASSUME NEW ch \in Channels, channels'[ch] # NoObject
        PROVE  name[channels'[ch]] = ch /\ subscribers'[channels'[ch]] # <<>>
    <3>1. CASE ch = This
      BY <1>1, <1>2, <1>3, <1>15, <2>1, <3>1 DEF Mapped, o
    <3>2. CASE ch # This
      <4>1. channels'[ch] = channels[ch] /\ channels[ch] # o /\ channels[ch] \in Objects
        BY <1>4, <1>12, <1>13, <2>1, <3>2
      <4>2. QED
        BY <1>14, <2>1, <4>1 DEF Mapped
    <3>3. QED
      BY <3>1, <3>2
  <2>2. QED
    BY <1>4, <2>1 DEF Mapped
<1>18. ListedHolds'
  <2>1. ASSUME NEW ch \in Channels, NEW f \in Fds, channels'[ch] # NoObject,
               f \in ToSet(subscribers'[channels'[ch]])
        PROVE  channels'[ch] \in ToSet(held'[f])
    <3>1. CASE ch = This
      <4>1. o # NoObject /\ channels'[ch] = o
        BY <1>2, <1>15, <2>1, <3>1 DEF o
      <4>2. f # fd /\ f \in ToSet(subscribers[o])
        BY <1>3, <2>1, <4>1
      <4>3. o \in ToSet(held[f])
        BY <1>1, <4>1, <4>2 DEF ListedHolds, o
      <4>4. QED
        BY <1>16, <4>1, <4>2, <4>3
    <3>2. CASE ch # This
      <4>1. channels'[ch] = channels[ch] /\ channels[ch] # o /\ channels[ch] \in Objects
        BY <1>4, <1>12, <1>13, <2>1, <3>2
      <4>2. channels[ch] \in ToSet(held[f])
        BY <1>14, <2>1, <4>1 DEF ListedHolds
      <4>3. QED
        BY <1>1, <1>16, <4>1, <4>2
    <3>3. QED
      BY <3>1, <3>2
  <2>2. QED
    BY <2>1 DEF ListedHolds
<1>19. \A f \in Fds : ~Leaves(f) /\ ~Leaves(f)'
  BY <1>5 DEF Leaves
<1>20. HolderListed'
  <2>1. ASSUME NEW f \in Fds, NEW p \in ToSet(held'[f])
        PROVE  channels'[name[p]] = p /\ f \in ToSet(subscribers'[p])
    <3>1. p \in ToSet(held[f]) /\ (f = fd => p # o)
      BY <1>1, <1>16, <2>1
    <3>2. p \in Objects
      BY <1>7, <2>1 DEF ToSet
    <3>3. channels[name[p]] = p /\ f \in ToSet(subscribers[p])
      BY <1>19, <3>1 DEF HolderListed
    <3>4. CASE p = o
      <4>1. o # NoObject /\ name[o] = This /\ f # fd
        BY <1>1, <3>1, <3>2, <3>4, NoObjectAssumption DEF Mapped, o
      <4>2. f \in ToSet(subscribers'[o])
        BY <1>3, <3>3, <3>4, <4>1
      <4>3. subscribers'[o] # <<>>
        BY <4>2, NoTwiceEmpty
      <4>4. QED
        BY <1>15, <3>4, <4>1, <4>2, <4>3
    <3>5. CASE p # o
      BY <1>4, <1>12, <1>14, <3>2, <3>3, <3>5 DEF o
    <3>6. QED
      BY <3>4, <3>5
  <2>2. QED
    BY <1>4, <2>1 DEF HolderListed
<1>21. LeaverListed' /\ ClosedHoldsNothing'
  BY <1>1, <1>4, <1>16, <1>19 DEF LeaverListed, ClosedHoldsNothing
<1>22. QED
  BY <1>5, <1>9, <1>10, <1>11, <1>17, <1>18, <1>20, <1>21

\* What one iteration of the loop over a client's objects does to the maps.
LEMMA LeaveFacts ==
  ASSUME MapsIInv, LeaveNext
  PROVE  /\ This \in Objects /\ cmd.fd \in Fds /\ cmd.fd \in open
         /\ ToSet(cmd.todo) = {This} \cup ToSet(Tail(cmd.todo))
         /\ Tail(cmd.todo) \in Seq(Objects)
         /\ subscribers'[This] \in Seq(Fds) /\ NoTwice(subscribers'[This])
         /\ ToSet(subscribers'[This]) = ToSet(subscribers[This]) \ {cmd.fd}
         /\ subscribers' = [subscribers EXCEPT ![This] = subscribers'[This]]
         /\ channels' = DropIfEmpty(name[This], subscribers'[This])
         /\ channels[name[This]] \in {This, NoObject}
         /\ held' = [held EXCEPT ![cmd.fd] = IF Tail(cmd.todo) = <<>> THEN <<>> ELSE @]
<1> USE DEF MapsIInv, LeaveNext
<1>1. cmd.todo \in Seq(Objects) /\ cmd.fd \in open /\ open \in SUBSET Fds
  BY DEF TypeOK, CmdTypes
<1>2. /\ This \in Objects /\ This \in ToSet(cmd.todo) /\ Tail(cmd.todo) \in Seq(Objects)
      /\ ToSet(cmd.todo) = {This} \cup ToSet(Tail(cmd.todo))
      /\ Len(cmd.todo) > 1 <=> Tail(cmd.todo) # <<>>
  BY <1>1, HeadAndTail DEF This
<1>3. subscribers \in [Objects -> Seq(Fds)] /\ NoTwice(subscribers[This])
  BY <1>2 DEF TypeOK
<1> DEFINE clients == RemoveClient(subscribers[This], cmd.fd)
<1>4. clients \in Seq(Fds) /\ NoTwice(clients) /\ ToSet(clients) = ToSet(subscribers[This]) \ {cmd.fd}
  BY <1>2, <1>3, RemoveClientFacts
<1>5. /\ subscribers' = [subscribers EXCEPT ![This] = clients]
      /\ channels' = DropIfEmpty(name[This], clients)
  OBVIOUS
<1>6. subscribers'[This] = clients
  BY <1>2, <1>3, <1>5
<1>7. This \in ToSet(held[cmd.fd])
  BY <1>1, <1>2 DEF LeaverListed, Leaves
<1>8. channels[name[This]] \in {This, NoObject}
  BY <1>1, <1>7 DEF LeaverListed, Leaves
<1>9. held' = [held EXCEPT ![cmd.fd] = IF Tail(cmd.todo) = <<>> THEN <<>> ELSE @]
  BY <1>2
<1> HIDE DEF clients
<1>10. QED
  BY <1>1, <1>2, <1>4, <1>5, <1>6, <1>8, <1>9

LEMMA LeaveCmd ==
  ASSUME MapsIInv, LeaveNext
  PROVE  /\ cmd' \in [op : Ops, fd : Fds \cup {0}, todo : Seq(Channels) \cup Seq(Objects)]
         /\ CmdTypes' /\ cmd'.op \in {cmd.op, "none"}
         /\ cmd.op = "leave" => (cmd'.op = "none" <=> Tail(cmd.todo) = <<>>)
         /\ cmd'.op # "none" => cmd'.fd = cmd.fd /\ cmd'.todo = Tail(cmd.todo)
<1> USE DEF MapsIInv
<1>1. CASE cmd.op = "leave"
  BY <1>1, AdvanceFacts DEF LeaveNext
<1>2. CASE cmd.op = "close"
  <2>1. Tail(cmd.todo) \in Seq(Objects) /\ cmd.fd \in open /\ cmd.fd \in Fds
    BY LeaveFacts
  <2>2. cmd \in [op : Ops, fd : Fds \cup {0}, todo : Seq(Channels) \cup Seq(Objects)]
    BY DEF TypeOK
  <2>3. cmd' = [cmd EXCEPT !.todo = Tail(@)] /\ open' = open
    BY <1>2 DEF LeaveNext
  <2>4. QED
    BY <1>2, <2>1, <2>2, <2>3 DEF CmdTypes
<1>3. QED
  BY <1>1, <1>2 DEF LeaveNext

LEMMA LeaveKeeps ==
  ASSUME MapsIInv, LeaveNext
  PROVE  MapsIInv'
<1> USE DEF MapsIInv
<1> DEFINE o == This
           fd == cmd.fd
           ch0 == name[This]
           rest == Tail(cmd.todo)
<1>1. /\ o \in Objects /\ fd \in Fds /\ fd \in open /\ rest \in Seq(Objects)
      /\ ToSet(cmd.todo) = {o} \cup ToSet(rest)
      /\ subscribers'[o] \in Seq(Fds) /\ NoTwice(subscribers'[o])
      /\ ToSet(subscribers'[o]) = ToSet(subscribers[o]) \ {fd}
      /\ subscribers' = [subscribers EXCEPT ![o] = subscribers'[o]]
      /\ channels' = DropIfEmpty(ch0, subscribers'[o])
      /\ channels[ch0] \in {o, NoObject}
      /\ held' = [held EXCEPT ![fd] = IF rest = <<>> THEN <<>> ELSE @]
  BY LeaveFacts
<1>2. /\ cmd' \in [op : Ops, fd : Fds \cup {0}, todo : Seq(Channels) \cup Seq(Objects)]
      /\ CmdTypes' /\ cmd.op \in {"leave", "close"} /\ cmd'.op \in {cmd.op, "none"}
      /\ cmd.op = "leave" => (cmd'.op = "none" <=> rest = <<>>)
      /\ cmd'.op # "none" => cmd'.fd = fd /\ cmd'.todo = rest
  BY LeaveCmd DEF LeaveNext
<1>3. out' = IF cmd.op = "close" THEN NoOut ELSE Out("unsubscribe", {fd}, ch0, Remaining)
  BY DEF LeaveNext
<1>4. /\ channels \in [Channels -> Objects \cup {NoObject}] /\ name \in [Objects -> Channels]
      /\ subscribers \in [Objects -> Seq(Fds)] /\ held \in [Fds -> Seq(Objects)]
      /\ open \in SUBSET Fds /\ open' = open /\ name' = name /\ ch0 \in Channels
  BY <1>1 DEF TypeOK, LeaveNext
<1>5. Remaining \in Nat /\ (rest = <<>> <=> Remaining = 0)
  <2>1. cmd.todo \in Seq(Objects) /\ cmd.todo # <<>>
    BY DEF LeaveNext, CmdTypes
  <2>2. Len(cmd.todo) \in Nat \ {0} /\ Len(rest) = Len(cmd.todo) - 1
    BY <2>1
  <2>3. rest = <<>> <=> Len(rest) = 0
    BY <1>1, EmptyLength
  <2>4. QED
    BY <2>2, <2>3 DEF Remaining
<1>6. Leaves(fd)
  BY <1>2 DEF Leaves
<1> HIDE DEF fd, o, ch0, rest
<1>7. held' \in [Fds -> Seq(Objects)] /\ subscribers' \in [Objects -> Seq(Fds)]
      /\ channels' \in [Channels -> Objects \cup {NoObject}]
  BY <1>1, <1>4 DEF DropIfEmpty
<1>8. out' \in [kind : {"none", "unsubscribe"}, to : SUBSET Fds, ch : SUBSET Channels, n : Nat]
  BY <1>1, <1>3, <1>4, <1>5 DEF Out, NoOut
<1>9. TypeOK'
  BY <1>2, <1>4, <1>7, <1>8 DEF TypeOK
<1>10. CountTellsTheMode'
  <2>1. ASSUME cmd'.op = "none", out'.kind = "unsubscribe"
        PROVE  \A f \in out'.to : (out'.n = 0) <=> ~(held'[f] # <<>>)
    <3>1. cmd.op = "leave"
      BY <1>2, <1>3, <2>1 DEF NoOut
    <3>2. rest = <<>> /\ out'.n = 0 /\ out'.to = {fd}
      BY <1>2, <1>3, <1>5, <2>1, <3>1 DEF Out
    <3>3. held'[fd] = <<>>
      BY <1>1, <1>4, <3>2
    <3>4. QED
      BY <3>2, <3>3
  <2>2. QED
    BY <2>1 DEF CountTellsTheMode, InSubscribedMode, CmdIdle
<1>11. \A p \in Objects : NoTwice(subscribers'[p])
  BY <1>1, <1>4
<1>12. \A ch \in Channels : ch # ch0 => channels'[ch] = channels[ch]
  BY <1>1, <1>4 DEF DropIfEmpty
<1>13. channels'[ch0] = IF subscribers'[o] = <<>> THEN NoObject ELSE channels[ch0]
  BY <1>1, <1>4 DEF DropIfEmpty
<1>14. \A p \in Objects : p # o => subscribers'[p] = subscribers[p]
  BY <1>1, <1>4
<1>15. \A f \in Fds : f # fd => held'[f] = held[f]
  BY <1>1, <1>4
<1>16. held'[fd] = IF rest = <<>> THEN <<>> ELSE held[fd]
  BY <1>1, <1>4
<1>17. \A ch \in Channels : ch # ch0 => channels[ch] # o
  BY <1>1, NoObjectAssumption DEF Mapped, ch0, o
<1>18. ASSUME NEW p \in Objects, p # o, channels[name[p]] = p
       PROVE  channels'[name[p]] = p
  <2>1. name[p] # ch0
    BY <1>1, <1>18, NoObjectAssumption
  <2>2. QED
    BY <1>4, <1>12, <1>18, <2>1
<1>19. Mapped'
  <2>1. ASSUME NEW ch \in Channels, channels'[ch] # NoObject
        PROVE  name[channels'[ch]] = ch /\ subscribers'[channels'[ch]] # <<>>
    <3>1. channels'[ch] = channels[ch] /\ channels[ch] \in Objects
      BY <1>4, <1>12, <1>13, <2>1
    <3>2. name[channels[ch]] = ch /\ subscribers[channels[ch]] # <<>>
      BY <2>1, <3>1 DEF Mapped
    <3>3. CASE channels[ch] = o
      <4>1. subscribers'[o] # <<>>
        BY <1>13, <1>17, <2>1, <3>3
      <4>2. QED
        BY <3>1, <3>2, <3>3, <4>1
    <3>4. CASE channels[ch] # o
      BY <1>14, <3>1, <3>2, <3>4
    <3>5. QED
      BY <3>3, <3>4
  <2>2. QED
    BY <1>4, <2>1 DEF Mapped
<1>20. ListedHolds'
  <2>1. ASSUME NEW ch \in Channels, NEW f \in Fds, channels'[ch] # NoObject,
               f \in ToSet(subscribers'[channels'[ch]])
        PROVE  channels'[ch] \in ToSet(held'[f])
    <3> DEFINE p == channels[ch]
    <3>1. channels'[ch] = p /\ p \in Objects
      BY <1>4, <1>12, <1>13, <2>1
    <3>2. f \in ToSet(subscribers[p]) /\ (p = o => f # fd)
      BY <1>1, <1>14, <2>1, <3>1
    <3>3. p \in ToSet(held[f])
      BY <2>1, <3>1, <3>2 DEF ListedHolds
    <3>4. CASE f # fd
      BY <1>15, <3>1, <3>3, <3>4
    <3>5. CASE f = fd
      <4>1. p \in ToSet(cmd.todo) /\ p # o
        BY <1>6, <3>2, <3>3, <3>5 DEF LeaverListed
      <4>2. rest # <<>>
        BY <1>1, <4>1, NoTwiceEmpty
      <4>3. QED
        BY <1>16, <3>1, <3>3, <3>5, <4>2
    <3>6. QED
      BY <3>4, <3>5
  <2>2. QED
    BY <2>1 DEF ListedHolds
<1>21. HolderListed'
  <2>1. ASSUME NEW f \in Fds, ~Leaves(f)', NEW p \in ToSet(held'[f])
        PROVE  channels'[name[p]] = p /\ f \in ToSet(subscribers'[p])
    <3>1. f # fd
      <4>1. SUFFICES ASSUME f = fd PROVE FALSE
        OBVIOUS
      <4>2. cmd'.op = "none"
        BY <1>2, <2>1, <4>1 DEF Leaves
      <4>3. cmd.op = "leave"
        <5>1. cmd.op = "close" => cmd'.op = "close"
          BY <1>4 DEF LeaveNext, TypeOK
        <5>2. QED
          BY <1>2, <4>2, <5>1
      <4>4. held'[f] = <<>>
        BY <1>2, <1>16, <4>1, <4>2, <4>3
      <4>5. QED
        BY <2>1, <4>4, NoTwiceEmpty
    <3>2. p \in ToSet(held[f]) /\ p \in Objects
      <4>1. held'[f] = held[f] /\ held'[f] \in Seq(Objects)
        BY <1>7, <1>15, <3>1
      <4>2. QED
        BY <2>1, <4>1 DEF ToSet
    <3>3. channels[name[p]] = p /\ f \in ToSet(subscribers[p])
      BY <3>1, <3>2 DEF HolderListed, Leaves, fd
    <3>4. CASE p = o
      <4>1. f \in ToSet(subscribers'[o])
        BY <1>1, <3>1, <3>3, <3>4
      <4>2. subscribers'[o] # <<>>
        BY <4>1, NoTwiceEmpty
      <4>3. QED
        BY <1>13, <3>3, <3>4, <4>1, <4>2 DEF ch0, o
    <3>5. CASE p # o
      BY <1>14, <1>18, <3>2, <3>3, <3>5
    <3>6. QED
      BY <3>4, <3>5
  <2>2. QED
    BY <1>4, <2>1 DEF HolderListed
<1>22. LeaverListed'
  <2>1. ASSUME NEW f \in Fds, Leaves(f)'
        PROVE  /\ ToSet(cmd'.todo) \subseteq ToSet(held'[f])
               /\ cmd'.todo = <<>> => held'[f] = <<>>
               /\ \A p \in ToSet(held'[f]) :
                    /\ channels'[name[p]] \in {p, NoObject}
                    /\ f \in ToSet(subscribers'[p]) =>
                         channels'[name[p]] = p /\ p \in ToSet(cmd'.todo)
    <3>1. f = fd /\ cmd'.todo = rest
      BY <1>2, <2>1 DEF Leaves
    <3>2. ToSet(rest) \subseteq ToSet(held'[fd]) /\ (rest = <<>> => held'[fd] = <<>>)
      <4>1. ToSet(cmd.todo) \subseteq ToSet(held[fd])
        BY <1>1, <1>6 DEF LeaverListed
      <4>2. QED
        BY <1>1, <1>16, <4>1, NoTwiceEmpty
    <3>3. ASSUME NEW p \in ToSet(held'[fd])
          PROVE  /\ channels'[name[p]] \in {p, NoObject}
                 /\ fd \in ToSet(subscribers'[p]) => channels'[name[p]] = p /\ p \in ToSet(rest)
      <4>1. p \in ToSet(held[fd]) /\ p \in Objects
        BY <1>1, <1>7, <1>16, <3>3, NoTwiceEmpty DEF ToSet
      <4>2. /\ channels[name[p]] \in {p, NoObject}
            /\ fd \in ToSet(subscribers[p]) => channels[name[p]] = p /\ p \in ToSet(cmd.todo)
        BY <1>1, <1>6, <4>1 DEF LeaverListed
      <4>3. channels'[name[p]] \in {channels[name[p]], NoObject}
        BY <1>4, <1>12, <1>13, <4>1
      <4>4. ASSUME fd \in ToSet(subscribers'[p])
            PROVE  channels'[name[p]] = p /\ p \in ToSet(rest)
        <5>1. p # o
          BY <1>1, <4>4
        <5>2. fd \in ToSet(subscribers[p])
          BY <1>14, <4>1, <4>4, <5>1
        <5>3. QED
          BY <1>1, <1>18, <4>1, <4>2, <5>1, <5>2
      <4>5. QED
        BY <4>2, <4>3, <4>4
    <3>4. QED
      BY <3>1, <3>2, <3>3
  <2>2. QED
    BY <1>4, <2>1 DEF LeaverListed
<1>23. ClosedHoldsNothing'
  BY <1>1, <1>4, <1>15 DEF ClosedHoldsNothing
<1>24. QED
  BY <1>2, <1>9, <1>10, <1>11, <1>19, <1>20, <1>21, <1>22, <1>23

-----------------------------------------------------------------------------
(* The theorems.                                                           *)

\* The arguments a command begins with.
LEMMA BeginsWell ==
  ASSUME MapsIInv, NEW f \in Fds,
         UnsubscribeAll(f) \/ Disconnect(f)
           \/ \E chs \in ChannelArgs : Subscribe(f, chs) \/ Unsubscribe(f, chs)
  PROVE  \E op \in Ops \ {"none"} : \E todo :
           /\ Begin(op, f, todo)
           /\ op \in {"subscribe", "unsubscribe"} => todo \in Seq(Channels) \ {<<>>}
           /\ op \in {"leave", "close"} => todo = held[f]
           /\ op = "leave" => todo # <<>>
<1>1. CASE UnsubscribeAll(f)
  BY <1>1 DEF UnsubscribeAll, Ops
<1>2. CASE Disconnect(f)
  BY <1>2 DEF Disconnect, Ops
<1>3. ASSUME NEW chs \in ChannelArgs, Subscribe(f, chs) \/ Unsubscribe(f, chs)
      PROVE  \E op \in {"subscribe", "unsubscribe"} : Begin(op, f, chs) /\ op \in Ops
  BY <1>3 DEF Subscribe, Unsubscribe, Ops
<1>4. QED
  BY <1>1, <1>2, <1>3, ChannelArgsAssumption

LEMMA MapsIInvNext == MapsIInv /\ [Next]_vars => MapsIInv'
<1> SUFFICES ASSUME MapsIInv, [Next]_vars PROVE MapsIInv'
  OBVIOUS
<1>1. CASE UNCHANGED vars
  <2>1. UNCHANGED <<open, channels, name, subscribers, held, cmd, out>>
    BY <1>1 DEF vars
  <2>2. TypeOK' /\ CmdTypes' /\ CountTellsTheMode'
    BY <2>1 DEF MapsIInv, TypeOK, CmdTypes, CountTellsTheMode, CmdIdle, InSubscribedMode
  <2>3. Mapped' /\ ListedHolds' /\ HolderListed' /\ LeaverListed' /\ ClosedHoldsNothing'
    BY <2>1 DEF MapsIInv, Mapped, ListedHolds, HolderListed, LeaverListed, ClosedHoldsNothing, Leaves
  <2>4. QED
    BY <2>1, <2>2, <2>3 DEF MapsIInv
<1>2. ASSUME NEW f \in Fds,
             UnsubscribeAll(f) \/ Disconnect(f)
               \/ \E chs \in ChannelArgs : Subscribe(f, chs) \/ Unsubscribe(f, chs)
      PROVE  MapsIInv'
  BY <1>2, BeginsWell, BeginKeeps
<1>3. QED
  BY <1>1, <1>2, AcceptKeeps, PublishKeeps, SubscribeKeeps, UnsubscribeKeeps, LeaveKeeps, CloseKeeps
     DEF Next

LEMMA MapsIInvHolds == Spec => []MapsIInv
<1>1. QED
  BY MapsIInvInit, MapsIInvNext, PTL DEF Spec

\* Between commands the two maps and the objects they share agree: who is listed holds
\* the object, once, every object that is held is in the map, and no channel is empty.
THEOREM MapsAgree == Spec => []MapsInv
<1>1. ASSUME MapsIInv PROVE MapsInv
  <2> USE <1>1 DEF MapsIInv
  <2>1. CmdIdle => \A f \in Fds : ~Leaves(f)
    BY DEF CmdIdle, Leaves
  <2>2. ASSUME CmdIdle, NEW f \in Fds, NEW ch \in Channels, channels[ch] # NoObject
        PROVE  /\ f \in ToSet(subscribers[channels[ch]]) <=> channels[ch] \in ToSet(held[f])
               /\ Cardinality({i \in DOMAIN subscribers[channels[ch]] :
                                 subscribers[channels[ch]][i] = f}) <= 1
    <3> DEFINE s == subscribers[channels[ch]]
               I == {i \in DOMAIN s : s[i] = f}
    <3>1. channels[ch] \in Objects
      BY <2>2 DEF TypeOK
    <3>2. s \in Seq(Fds) /\ NoTwice(s) /\ DOMAIN s = 1 .. Len(s)
      BY <3>1 DEF TypeOK
    <3>3. f \in ToSet(s) <=> channels[ch] \in ToSet(held[f])
      BY <2>1, <2>2 DEF ListedHolds, HolderListed
    <3>4. \A i, j \in I : i = j
      BY <3>2 DEF NoTwice
    <3> HIDE DEF I, s
    <3>5. Cardinality(I) <= 1
      <4>1. CASE I = {}
        BY <4>1, FS_EmptySet
      <4>2. CASE I # {}
        <5>1. PICK i : I = {i}
          BY <3>4, <4>2
        <5>2. QED
          BY <5>1, FS_Singleton
      <4>3. QED
        BY <4>1, <4>2
    <3>6. QED
      BY <3>3, <3>5 DEF I, s
  <2>3. IndexesAgree
    BY <2>2 DEF IndexesAgree
  <2>4. NoStaleObject
    BY <2>1 DEF NoStaleObject, HolderListed
  <2>5. NoEmptyChannel
    BY DEF NoEmptyChannel, Mapped
  <2>6. QED
    BY <2>3, <2>4, <2>5 DEF MapsInv
<1>2. QED
  BY <1>1, MapsIInvHolds, PTL

\* The last confirmation of an UNSUBSCRIBE says 0 exactly when the client has left
\* subscribed mode.
THEOREM CountIsRight == Spec => []CountTellsTheMode
<1>1. MapsIInv => CountTellsTheMode
  BY DEF MapsIInv
<1>2. QED
  BY <1>1, MapsIInvHolds, PTL

-----------------------------------------------------------------------------
(* The refinement.                                                         *)

LEMMA PubSubStep == MapsIInv /\ [Next]_vars => [Service!PubSubNext]_Service!pVars
<1> SUFFICES ASSUME MapsIInv, [Next]_vars PROVE [Service!PubSubNext]_Service!pVars
  OBVIOUS
<1> USE DEF MapsIInv, Service!NoMessage
<1>0. MapsIInv'
  BY MapsIInvNext
<1>1. CASE UNCHANGED vars
  BY <1>1 DEF vars, Service!pVars, Subscribed
<1>2. ASSUME UNCHANGED <<channels, subscribers>> PROVE Subscribed' = Subscribed
  BY <1>2 DEF Subscribed
<1>3. ASSUME NEW f \in Fds, held[f] = <<>>, NEW ch \in Channels PROVE <<f, ch>> \notin Subscribed
  BY <1>3, NoTwiceEmpty DEF Subscribed, ListedHolds
<1>4. ASSUME NEW f \in Fds, Accept(f) PROVE Service!Open(f)
  BY <1>2, <1>3, <1>4 DEF Accept, Service!Open, NoOut, ClosedHoldsNothing
<1>5. ASSUME NEW op, NEW f, NEW todo, Begin(op, f, todo) PROVE Service!Begin
  BY <1>2, <1>5 DEF Begin, Service!Begin, NoOut
<1>6. ASSUME NEW f \in Fds, NEW ch \in Channels, Publish(f, ch)
      PROVE  Service!Tell(ch) \/ Service!Begin
  <2>1. Subscribed' = Subscribed /\ open' = open
    BY <1>2, <1>6 DEF Publish
  <2>2. CASE channels[ch] = NoObject
    BY <1>6, <2>1, <2>2 DEF Publish, Service!Begin, NoOut
  <2>3. CASE channels[ch] # NoObject
    <3>1. out'.kind = "message" /\ out'.ch = {ch} /\ out'.to = ToSet(subscribers[channels[ch]])
      BY <1>6, <2>3 DEF Publish, Out
    <3>2. (CHOOSE c \in Channels : c \in {ch}) = ch
      OBVIOUS
    <3>3. subscribers[channels[ch]] \in Seq(Fds)
      BY <2>3 DEF TypeOK
    <3>4. ToSet(subscribers[channels[ch]]) \subseteq Fds
      BY <3>3 DEF ToSet
    <3>5. Service!Receivers(ch) = ToSet(subscribers[channels[ch]])
      BY <2>3, <3>4 DEF Service!Receivers, Subscribed
    <3>6. QED
      BY <2>1, <3>1, <3>2, <3>5 DEF Service!Tell, Service!Message
  <2>4. QED
    BY <2>2, <2>3
<1>7. ASSUME SubscribeNext
      PROVE  \E f \in Fds, ch \in Channels : Service!Join(f, ch)
  <2>1. PICK o \in Objects :
           /\ This \in Channels /\ cmd.fd \in Fds /\ cmd.fd \in open
           /\ channels' = [channels EXCEPT ![This] = o]
           /\ subscribers'[o] \in Seq(Fds)
           /\ subscribers' = [subscribers EXCEPT ![o] = subscribers'[o]]
           /\ ToSet(subscribers'[o]) =
                {cmd.fd} \cup IF channels[This] = NoObject THEN {} ELSE ToSet(subscribers[o])
           /\ channels[This] \in {o, NoObject}
           /\ \A ch \in Channels : ch # This => channels[ch] # o
    BY <1>7, SubscribeFacts
  <2>2. /\ channels \in [Channels -> Objects \cup {NoObject}]
        /\ subscribers \in [Objects -> Seq(Fds)]
    BY DEF TypeOK
  <2>3. ASSUME NEW f \in Fds, NEW ch \in Channels
        PROVE  <<f, ch>> \in Subscribed' <=> <<f, ch>> \in Subscribed \/ (f = cmd.fd /\ ch = This)
    <3>1. CASE ch = This
      BY <2>1, <2>2, <3>1, NoObjectAssumption DEF Subscribed
    <3>2. CASE ch # This
      BY <2>1, <2>2, <3>2 DEF Subscribed
    <3>3. QED
      BY <3>1, <3>2
  <2>4. Subscribed \subseteq Fds \X Channels /\ Subscribed' \subseteq Fds \X Channels
    BY DEF Subscribed
  <2>5. Subscribed' = Subscribed \cup {<<cmd.fd, This>>}
    BY <2>1, <2>3, <2>4
  <2>6. out'.kind = "subscribe" /\ open' = open
    BY <1>7 DEF SubscribeNext, Out
  <2>7. PICK f \in Fds, ch \in Channels : f = cmd.fd /\ ch = This
    BY <2>1
  <2>8. Service!Join(f, ch)
    BY <2>1, <2>5, <2>6, <2>7 DEF Service!Join
  <2>9. QED
    BY <2>8
<1>8. ASSUME UnsubscribeNext
      PROVE  \E f \in Fds, ch \in Channels : Service!Leave(f, ch)
  <2> DEFINE o == channels[This]
  <2>1. /\ This \in Channels /\ cmd.fd \in Fds /\ cmd.fd \in open
        /\ o = NoObject => UNCHANGED <<subscribers, channels>>
        /\ o # NoObject =>
              /\ o \in Objects /\ ToSet(subscribers'[o]) = ToSet(subscribers[o]) \ {cmd.fd}
              /\ subscribers' = [subscribers EXCEPT ![o] = subscribers'[o]]
              /\ channels' = DropIfEmpty(This, subscribers'[o])
    BY <1>8, UnsubscribeFacts
  <2>2. /\ channels \in [Channels -> Objects \cup {NoObject}]
        /\ subscribers \in [Objects -> Seq(Fds)]
    BY DEF TypeOK
  <2>3. \A ch \in Channels : ch # This /\ channels[ch] # NoObject => channels[ch] # o
    BY <2>1 DEF Mapped
  <2>4. ASSUME NEW f \in Fds, NEW ch \in Channels
        PROVE  <<f, ch>> \in Subscribed' <=> <<f, ch>> \in Subscribed /\ ~(f = cmd.fd /\ ch = This)
    <3>1. CASE o = NoObject
      BY <2>1, <3>1 DEF Subscribed
    <3>2. CASE o # NoObject /\ ch = This
      <4>1. channels'[This] = IF subscribers'[o] = <<>> THEN NoObject ELSE o
        BY <2>1, <2>2, <3>2 DEF DropIfEmpty
      <4>2. f \in ToSet(subscribers'[o]) => channels'[This] = o
        BY <4>1, NoTwiceEmpty
      <4>3. QED
        BY <2>1, <3>2, <4>1, <4>2 DEF Subscribed
    <3>3. CASE o # NoObject /\ ch # This
      <4>1. channels'[ch] = channels[ch]
        BY <2>1, <2>2, <3>3 DEF DropIfEmpty
      <4>2. channels[ch] # NoObject => subscribers'[channels[ch]] = subscribers[channels[ch]]
        BY <2>1, <2>2, <2>3, <3>3
      <4>3. QED
        BY <3>3, <4>1, <4>2 DEF Subscribed
    <3>4. QED
      BY <3>1, <3>2, <3>3
  <2>5. Subscribed \subseteq Fds \X Channels /\ Subscribed' \subseteq Fds \X Channels
    BY DEF Subscribed
  <2>6. Subscribed' = Subscribed \ {<<cmd.fd, This>>}
    BY <2>1, <2>4, <2>5
  <2>7. out'.kind = "unsubscribe" /\ open' = open
    BY <1>8 DEF UnsubscribeNext, Out
  <2>8. PICK f \in Fds, ch \in Channels : f = cmd.fd /\ ch = This
    BY <2>1
  <2>9. Service!Leave(f, ch)
    BY <2>1, <2>6, <2>7, <2>8 DEF Service!Leave
  <2>10. QED
    BY <2>9
<1>9. ASSUME LeaveNext
      PROVE  \E f \in Fds, ch \in Channels : Service!Leave(f, ch)
  <2> DEFINE o == This
             ch0 == name[This]
  <2>1. /\ o \in Objects /\ cmd.fd \in Fds /\ cmd.fd \in open
        /\ ToSet(subscribers'[o]) = ToSet(subscribers[o]) \ {cmd.fd}
        /\ subscribers' = [subscribers EXCEPT ![o] = subscribers'[o]]
        /\ channels' = DropIfEmpty(ch0, subscribers'[o])
        /\ channels[ch0] \in {o, NoObject}
    BY <1>9, LeaveFacts
  <2>2. /\ channels \in [Channels -> Objects \cup {NoObject}]
        /\ subscribers \in [Objects -> Seq(Fds)] /\ ch0 \in Channels
    BY <2>1 DEF TypeOK
  <2>3. \A ch \in Channels : ch # ch0 => channels[ch] # o
    BY <2>1, NoObjectAssumption DEF Mapped
  <2> HIDE DEF o, ch0
  <2>4. ASSUME NEW f \in Fds, NEW ch \in Channels
        PROVE  <<f, ch>> \in Subscribed' <=> <<f, ch>> \in Subscribed /\ ~(f = cmd.fd /\ ch = ch0)
    <3>1. CASE ch = ch0
      <4>1. channels'[ch0] = IF subscribers'[o] = <<>> THEN NoObject ELSE channels[ch0]
        BY <2>1, <2>2 DEF DropIfEmpty
      <4>2. CASE channels[ch0] = NoObject
        BY <3>1, <4>1, <4>2 DEF Subscribed
      <4>3. CASE channels[ch0] = o
        <5>1. f \in ToSet(subscribers'[o]) => channels'[ch0] = o
          BY <4>1, <4>3, NoTwiceEmpty
        <5>2. o # NoObject
          BY <2>1, NoObjectAssumption
        <5>3. QED
          BY <2>1, <3>1, <4>1, <4>3, <5>1, <5>2 DEF Subscribed
      <4>4. QED
        BY <2>1, <4>2, <4>3
    <3>2. CASE ch # ch0
      <4>1. channels'[ch] = channels[ch] /\ channels[ch] # o
        BY <2>1, <2>2, <2>3, <3>2 DEF DropIfEmpty
      <4>2. channels[ch] # NoObject => subscribers'[channels[ch]] = subscribers[channels[ch]]
        BY <2>1, <2>2, <4>1
      <4>3. QED
        BY <3>2, <4>1, <4>2 DEF Subscribed
    <3>3. QED
      BY <3>1, <3>2
  <2>5. Subscribed \subseteq Fds \X Channels /\ Subscribed' \subseteq Fds \X Channels
    BY DEF Subscribed
  <2>6. Subscribed' = Subscribed \ {<<cmd.fd, ch0>>}
    BY <2>1, <2>2, <2>4, <2>5
  <2>7. out'.kind # "message" /\ open' = open
    BY <1>9 DEF LeaveNext, Out, NoOut
  <2>8. PICK f \in Fds, ch \in Channels : f = cmd.fd /\ ch = ch0
    BY <2>1, <2>2
  <2>9. Service!Leave(f, ch)
    BY <2>1, <2>6, <2>7, <2>8 DEF Service!Leave
  <2>10. QED
    BY <2>9
<1>10. ASSUME CloseFd
       PROVE  \E f \in Fds : Service!Close(f)
  <2>1. cmd.fd \in open /\ cmd.fd \in Fds /\ cmd.op = "close" /\ cmd.todo = <<>>
    BY <1>10 DEF CloseFd, CmdTypes, TypeOK
  <2>2. held[cmd.fd] = <<>>
    BY <2>1 DEF LeaverListed, Leaves
  <2>3. \A ch \in Channels : <<cmd.fd, ch>> \notin Subscribed
    BY <1>3, <2>1, <2>2
  <2>4. Subscribed = {s \in Subscribed : s[1] # cmd.fd}
    BY <2>3 DEF Subscribed
  <2>5. Subscribed' = Subscribed
    BY <1>2, <1>10 DEF CloseFd
  <2>6. out'.kind # "message" /\ open' = open \ {cmd.fd}
    BY <1>10 DEF CloseFd, NoOut
  <2>7. PICK f \in Fds : f = cmd.fd
    BY <2>1
  <2>8. Service!Close(f)
    BY <2>1, <2>4, <2>5, <2>6, <2>7 DEF Service!Close
  <2>9. QED
    BY <2>8
<1>11. ASSUME NEW f \in Fds,
             UnsubscribeAll(f) \/ Disconnect(f)
               \/ \E chs \in ChannelArgs : Subscribe(f, chs) \/ Unsubscribe(f, chs)
       PROVE  Service!Begin
  BY <1>5, <1>11, BeginsWell
<1>12. CASE Next
  <2> USE DEF Service!PubSubNext
  <2>1. ASSUME NEW f \in Fds, Accept(f) PROVE Service!PubSubNext
    BY <1>4, <2>1
  <2>2. ASSUME NEW f \in Fds, NEW ch \in Channels, Publish(f, ch) PROVE Service!PubSubNext
    BY <1>6, <2>2
  <2>3. SubscribeNext => Service!PubSubNext
    BY <1>7
  <2>4. UnsubscribeNext \/ LeaveNext => Service!PubSubNext
    BY <1>8, <1>9
  <2>5. CloseFd => Service!PubSubNext
    BY <1>10
  <2> HIDE DEF Service!PubSubNext
  <2>6. Service!Begin => Service!PubSubNext
    BY DEF Service!PubSubNext
  <2>7. Service!PubSubNext
    BY <1>11, <1>12, <2>1, <2>2, <2>3, <2>4, <2>5, <2>6 DEF Next
  <2>8. QED
    BY <2>7
<1>13. QED
  BY <1>1, <1>12

\* The maps implement the relation, for every set of connections, channels and objects:
\* a message goes to exactly the connections that are subscribed, and a descriptor that
\* is used again starts with no subscription.
THEOREM ImplementsPubSubHolds == Spec => ImplementsPubSub
<1>1. Init => Service!PubSubInit
  BY NoTwiceEmpty DEF Init, NoOut, Service!PubSubInit, Service!NoMessage, Subscribed
<1>2. MapsIInv /\ [Next]_vars => [Service!PubSubNext]_Service!pVars
  BY PubSubStep
<1>3. QED
  BY <1>1, <1>2, MapsIInvHolds, PTL DEF Spec, ImplementsPubSub, Service!PubSubSpec
=============================================================================
