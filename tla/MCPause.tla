------------------------------ MODULE MCPause ------------------------------
(* Instances of Pause for TLC. *)
EXTENDS Pause, TLC

CONSTANTS c1, c2, c3

\* Two and three connections on both shards with a shutdown; more calls on one shard.
Anywhere == [c \in Conns |-> Shards]
PauseConfs ==
  {[calls |-> c1 :> 2 @@ c2 :> 1 @@ c3 :> 0, keys |-> Anywhere, closes |-> TRUE],
   [calls |-> [c \in Conns |-> 1], keys |-> Anywhere, closes |-> TRUE],
   [calls |-> c1 :> 2 @@ c2 :> 1 @@ c3 :> 1, keys |-> [c \in Conns |-> {1}], closes |-> FALSE]}
=============================================================================
