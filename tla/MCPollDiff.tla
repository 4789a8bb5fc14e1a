----------------------------- MODULE MCPollDiff -----------------------------
(* One flat leaf and one container of two leaves.                           *)
EXTENDS PollDiff, TLC

CONSTANTS f, x, y, c

MCGroupOf == f :> Flat @@ x :> c @@ y :> c
=============================================================================
