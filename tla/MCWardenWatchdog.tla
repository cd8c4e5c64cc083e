------------------------- MODULE MCWardenWatchdog ---------------------------
(* WardenWatchdog on a small view. *)
EXTENDS WardenWatchdog

\* One peer is a voter at all times, the other leaves the electorate and returns.
OneMayLeave == {Peer, {CHOOSE p \in Peer : TRUE}}
=============================================================================
