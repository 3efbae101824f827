----------------------- MODULE MCSubscriptionHandler -----------------------
(***************************************************************************)
(* SubscriptionHandler with three connections and two channels.            *)
(***************************************************************************)
EXTENDS SubscriptionHandler

CONSTANTS a, b

MCFds == {5, 6, 7}
MCChannels == {a, b}
MCObjects == {1, 2, 3}
\* One channel, two channels in both orders, and one channel named twice.
MCArgs == {<<a>>, <<b>>, <<a, b>>, <<b, a>>, <<a, a>>}
=============================================================================
