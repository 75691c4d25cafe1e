----------------------------- MODULE TaskBoard -----------------------------
(***************************************************************************)
(* What the shard engine promises its callers: every shard runs the tasks  *)
(* submitted to it one at a time, in submission order, each exactly once;  *)
(* and while a connection owns the engine (PauseAll to resume) only that   *)
(* connection's tasks run.  The promise ends when the engine is closed.    *)
(* A connection waits for its call, so it has at most one task at a shard: *)
(* tasks are named by their submitter.                                     *)
(* Module Pause implements it; module Keyspace relies on it.               *)
(***************************************************************************)
CONSTANTS Conns, Shards, NoConn

VARIABLES
  pend,    \* connections with a task submitted to each shard and not run yet
  older,   \* the order of submission: <<c, d>> when c's pending task is older than d's
  owner,   \* the connection that owns the engine
  closed   \* the engine is shut down

Init ==
  /\ pend = [s \in Shards |-> {}] /\ older = [s \in Shards |-> {}]
  /\ owner = NoConn /\ closed = FALSE

Submit(c, s) ==
  /\ c \notin pend[s]
  /\ pend' = [pend EXCEPT ![s] = @ \cup {c}]
  /\ older' = [older EXCEPT ![s] = @ \cup (pend[s] \X {c})]
  /\ UNCHANGED owner

\* Without an owner the oldest task runs, with one the owner's.
Run(s) ==
  /\ \E c \in pend[s] :
       /\ IF owner = NoConn THEN \A d \in pend[s] : <<d, c>> \notin older[s]
          ELSE c = owner
       /\ pend' = [pend EXCEPT ![s] = @ \ {c}]
       /\ older' = [older EXCEPT ![s] = {p \in @ : c # p[1] /\ c # p[2]}]
  /\ UNCHANGED owner

\* The owner starts with no task of its own anywhere, and leaves with none.
Acquire(c) ==
  /\ owner = NoConn
  /\ \A s \in Shards : c \notin pend[s]
  /\ owner' = c
  /\ UNCHANGED <<pend, older>>

Release ==
  /\ owner # NoConn
  /\ \A s \in Shards : owner \notin pend[s]
  /\ owner' = NoConn
  /\ UNCHANGED <<pend, older>>

Step ==
  \/ \E s \in Shards : Run(s) \/ \E c \in Conns : Submit(c, s)
  \/ \E c \in Conns : Acquire(c)
  \/ Release

Close == closed' = TRUE

Next ==
  \/ closed \/ Close
  \/ closed' = closed /\ Step

Spec == Init /\ [][Next]_<<pend, older, owner, closed>>
=============================================================================
