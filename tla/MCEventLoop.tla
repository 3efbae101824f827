---------------------------- MODULE MCEventLoop ----------------------------
(***************************************************************************)
(* EventLoop on a small instance: 6 sends a WAIT whose last argument may   *)
(* be cut, and an empty array; 7 sends WAIT; 8 is a replica, whose         *)
(* acknowledgements are of their offset only.                              *)
(***************************************************************************)
EXTENDS EventLoop, TLC

Command(kind, args) == [kind |-> kind, args |-> args]
Wait == Command("wait", <<0, 0, 0>>)
Ack == Command("ack", <<0>>)

MCClients == {6, 7, 8}
MCReplicas == {8}
MCCommands ==
    (6 :> <<Command("wait", <<0, 0, 2>>), Command("plain", <<>>)>>)
    @@ (7 :> <<Wait>>)
    @@ (8 :> <<Ack, Ack>>)
MCSlow == {6, 8}
MCClosers == {8}
MCResetters == {6}
=============================================================================
