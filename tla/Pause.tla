------------------------------- MODULE Pause -------------------------------
(***************************************************************************)
(* The task queues of the shard goroutines and the PauseAll protocol of    *)
(* lib/shard/shard.go: buffered queues, park and unpark messages, the      *)
(* stash of a parked shard, the txMu lock, and shutdown.                   *)
(*                                                                         *)
(* A connection submits a task to one shard (DoTok) or, from one goroutine *)
(* per shard, to several (DoMultiTok), and waits for all of them; or it    *)
(* pauses the engine, submits tasks with its token, and resumes.           *)
(***************************************************************************)
EXTENDS Naturals, Sequences, SequencesExt

CONSTANTS
  Conns,      \* connection goroutines
  NShards,    \* shards, visited in id order by PauseAll, resume and Close
  QCap,       \* capacity of a shard's queue
  NoConn,     \* txMu is free
  Confs       \* bound: the workloads

Shards == 1..NShards

\* A queued task: work of a connection, or a control message of PauseAll.
Fn(c, k)  == [kind |-> "fn", conn |-> c, tok |-> k]
Park(c, k) == [kind |-> "park", conn |-> c, tok |-> k]
Unpark    == [kind |-> "unpark", conn |-> NoConn, tok |-> 0]

Task == [kind: {"fn"}, conn: Conns, tok: Nat]
          \cup [kind: {"park"}, conn: Conns, tok: Nat \ {0}] \cup {Unpark}

\* A workload: the calls each connection makes, the shards its keys are on, and
\* whether Engine.Close may be called.
Conf == [calls: [Conns -> Nat], keys: [Conns -> SUBSET Shards], closes: BOOLEAN]

ASSUME PauseAssumption ==
  /\ NShards \in Nat \ {0} /\ QCap \in Nat \ {0}
  /\ NoConn \notin Conns
  /\ Confs \subseteq Conf

VARIABLES
  conf,    \* the workload, fixed at the start
  queue,   \* Shard.queue
  at,      \* what the shard goroutine is doing: "run", "parked", "drain", "gone", "panic"
  ptok,    \* the token a parked shard serves
  stash,   \* tasks a parked shard has put aside
  txMu,    \* holder of Engine.txMu
  ctr,     \* Engine.txTokCounter
  pc,      \* "idle", "call", "pausing", "acking", "held", "heldcall", "resuming"
  tok,     \* the connection's token, 0 without a pause
  next,    \* next shard PauseAll or resume visits
  send,    \* shards a task of the current call is still to be sent to
  wait,    \* shards whose task is submitted and not done
  calls,   \* calls the connection has made
  closing  \* 0: open; s: Close is stopping shard s; NShards + 1: closed

shardVars == <<queue, at, ptok, stash>>
connVars == <<txMu, ctr, pc, tok, next, send, wait, calls>>
vars == <<queue, at, ptok, stash, txMu, ctr, pc, tok, next, send, wait, calls, closing>>

-----------------------------------------------------------------------------
(* The connections.                                                        *)

Room(s) == Len(queue[s]) < QCap

\* A command: one task to each shard of T, from a goroutine each.
Call(c, T) ==
  /\ pc[c] \in {"idle", "held"}
  /\ calls[c] < conf.calls[c] /\ closing = 0
  /\ pc' = [pc EXCEPT ![c] = IF @ = "idle" THEN "call" ELSE "heldcall"]
  /\ send' = [send EXCEPT ![c] = T]
  /\ calls' = [calls EXCEPT ![c] = @ + 1]
  /\ UNCHANGED <<queue, at, ptok, stash, txMu, ctr, tok, next, wait, closing>>

Enqueue(c, s) ==
  /\ s \in send[c] /\ Room(s)
  /\ queue' = [queue EXCEPT ![s] = Append(@, Fn(c, tok[c]))]
  /\ send' = [send EXCEPT ![c] = @ \ {s}]
  /\ wait' = [wait EXCEPT ![c] = @ \cup {s}]
  /\ UNCHANGED <<at, ptok, stash, txMu, ctr, pc, tok, next, calls, closing>>

Return(c) ==
  /\ pc[c] \in {"call", "heldcall"} /\ send[c] = {} /\ wait[c] = {}
  /\ pc' = [pc EXCEPT ![c] = IF @ = "call" THEN "idle" ELSE "held"]
  /\ UNCHANGED <<queue, at, ptok, stash, txMu, ctr, tok, next, send, wait, calls, closing>>

\* PauseAll: lock, then park the shards one after the other.
Lock(c) ==
  /\ pc[c] = "idle" /\ txMu = NoConn
  /\ calls[c] < conf.calls[c] /\ closing = 0
  /\ calls' = [calls EXCEPT ![c] = @ + 1]
  /\ txMu' = c
  /\ ctr' = ctr + 1
  /\ tok' = [tok EXCEPT ![c] = ctr + 1]
  /\ pc' = [pc EXCEPT ![c] = "pausing"]
  /\ next' = [next EXCEPT ![c] = 1]
  /\ UNCHANGED <<queue, at, ptok, stash, send, wait, closing>>

\* Mutant: the capacity of the queue is not respected.
SendParkNoRoom(c) ==
  /\ pc[c] = "pausing"
  /\ queue' = [queue EXCEPT ![next[c]] = Append(@, Park(c, tok[c]))]
  /\ pc' = [pc EXCEPT ![c] = "acking"]
  /\ UNCHANGED <<at, ptok, stash, txMu, ctr, tok, next, send, wait, calls, closing>>

SendPark(c) ==
  /\ pc[c] = "pausing" /\ Room(next[c])
  /\ queue' = [queue EXCEPT ![next[c]] = Append(@, Park(c, tok[c]))]
  /\ pc' = [pc EXCEPT ![c] = "acking"]
  /\ UNCHANGED <<at, ptok, stash, txMu, ctr, tok, next, send, wait, calls, closing>>

\* Mutant: txMu is released before the unpark messages are sent.
ResumeUnlockFirst(c) ==
  /\ pc[c] = "held"
  /\ pc' = [pc EXCEPT ![c] = "resuming"]
  /\ next' = [next EXCEPT ![c] = 1]
  /\ txMu' = NoConn
  /\ UNCHANGED <<queue, at, ptok, stash, ctr, tok, send, wait, calls, closing>>

\* resume: unpark the shards, then unlock.
Resume(c) ==
  /\ pc[c] = "held"
  /\ pc' = [pc EXCEPT ![c] = "resuming"]
  /\ next' = [next EXCEPT ![c] = 1]
  /\ UNCHANGED <<queue, at, ptok, stash, txMu, ctr, tok, send, wait, calls, closing>>

SendUnpark(c) ==
  /\ pc[c] = "resuming" /\ next[c] <= NShards /\ Room(next[c])
  /\ queue' = [queue EXCEPT ![next[c]] = Append(@, Unpark)]
  /\ next' = [next EXCEPT ![c] = @ + 1]
  /\ UNCHANGED <<at, ptok, stash, txMu, ctr, pc, tok, send, wait, calls, closing>>

Unlock(c) ==
  /\ pc[c] = "resuming" /\ next[c] > NShards
  /\ txMu' = NoConn
  /\ tok' = [tok EXCEPT ![c] = 0]
  /\ pc' = [pc EXCEPT ![c] = "idle"]
  /\ UNCHANGED <<queue, at, ptok, stash, ctr, next, send, wait, calls, closing>>

-----------------------------------------------------------------------------
(* The shard goroutines.                                                   *)

Head1(s) == Head(queue[s])

Dequeue(s) == queue' = [queue EXCEPT ![s] = Tail(@)]

\* The task runs and its submitter is told.
Execute(s, t) == wait' = [wait EXCEPT ![t.conn] = @ \ {s}]

\* run: a task from the queue.
RunTask(s) ==
  /\ at[s] = "run" /\ queue[s] # <<>> /\ Head1(s).kind = "fn"
  /\ Execute(s, Head1(s))
  /\ Dequeue(s)
  /\ UNCHANGED <<at, ptok, stash, txMu, ctr, pc, tok, next, send, calls, closing>>

\* run: a control message parks the shard and acknowledges PauseAll, which
\* goes on to the next shard or, after the last, returns its token.
RunPark(s) ==
  /\ at[s] = "run" /\ queue[s] # <<>> /\ Head1(s).kind = "park"
  /\ LET c == Head1(s).conn IN
     /\ at' = [at EXCEPT ![s] = "parked"]
     /\ ptok' = [ptok EXCEPT ![s] = Head1(s).tok]
     /\ pc' = [pc EXCEPT ![c] = IF s = NShards THEN "held" ELSE "pausing"]
     /\ next' = [next EXCEPT ![c] = s + 1]
  /\ Dequeue(s)
  /\ UNCHANGED <<stash, txMu, ctr, tok, send, wait, calls, closing>>

\* run takes an unpark message for a park message and closes its nil done
\* channel: the process panics.
RunPanic(s) ==
  /\ at[s] = "run" /\ queue[s] # <<>> /\ Head1(s).kind = "unpark"
  /\ at' = [x \in Shards |-> "panic"]
  /\ UNCHANGED <<queue, ptok, stash, connVars, closing>>

\* Mutant: a task that is not the holder's is dropped.
ParkedTaskDropped(s) ==
  /\ at[s] = "parked" /\ queue[s] # <<>> /\ Head1(s).kind = "fn"
  /\ IF Head1(s).tok = ptok[s] THEN Execute(s, Head1(s)) ELSE UNCHANGED wait
  /\ Dequeue(s)
  /\ UNCHANGED <<at, ptok, stash, txMu, ctr, pc, tok, next, send, calls, closing>>

\* park: the holder's task runs, another's is stashed.
ParkedTask(s) ==
  /\ at[s] = "parked" /\ queue[s] # <<>> /\ Head1(s).kind = "fn"
  /\ IF Head1(s).tok = ptok[s]
     THEN Execute(s, Head1(s)) /\ UNCHANGED stash
     ELSE stash' = [stash EXCEPT ![s] = Append(@, Head1(s))] /\ UNCHANGED wait
  /\ Dequeue(s)
  /\ UNCHANGED <<at, ptok, txMu, ctr, pc, tok, next, send, calls, closing>>

\* park: any control message starts the drain.
ParkedControl(s) ==
  /\ at[s] = "parked" /\ queue[s] # <<>> /\ Head1(s).kind # "fn"
  /\ at' = [at EXCEPT ![s] = "drain"]
  /\ Dequeue(s)
  /\ UNCHANGED <<ptok, stash, connVars, closing>>

\* Mutant: the stash is replayed from its end.
DrainLast(s) ==
  /\ at[s] = "drain" /\ stash[s] # <<>>
  /\ Execute(s, Last(stash[s]))
  /\ stash' = [stash EXCEPT ![s] = Front(@)]
  /\ UNCHANGED <<queue, at, ptok, txMu, ctr, pc, tok, next, send, calls, closing>>

Drain(s) ==
  /\ at[s] = "drain" /\ stash[s] # <<>>
  /\ Execute(s, Head(stash[s]))
  /\ stash' = [stash EXCEPT ![s] = Tail(@)]
  /\ UNCHANGED <<queue, at, ptok, txMu, ctr, pc, tok, next, send, calls, closing>>

DrainEnd(s) ==
  /\ at[s] = "drain" /\ stash[s] = <<>>
  /\ at' = [at EXCEPT ![s] = "run"]
  /\ UNCHANGED <<queue, ptok, stash, connVars, closing>>

-----------------------------------------------------------------------------
(* Shutdown.                                                               *)

\* Close; it stops the shards one after the other and waits for each.
Close ==
  /\ conf.closes /\ closing = 0
  /\ closing' = 1
  /\ UNCHANGED <<shardVars, connVars>>

\* Mutant: a parked shard quits without draining its stash.
QuitNoDrain(s) ==
  /\ closing = s /\ at[s] \in {"run", "parked"}
  /\ at' = [at EXCEPT ![s] = "gone"]
  /\ closing' = s + 1
  /\ UNCHANGED <<queue, ptok, stash, connVars>>

\* The quit case of a shard's select: a parked shard drains its stash first.
Quit(s) ==
  /\ closing = s
  /\ \/ /\ at[s] = "parked"
        /\ at' = [at EXCEPT ![s] = "drain"]
        /\ UNCHANGED closing
     \/ /\ at[s] = "run"
        /\ at' = [at EXCEPT ![s] = "gone"]
        /\ closing' = s + 1
  /\ UNCHANGED <<queue, ptok, stash, connVars>>

-----------------------------------------------------------------------------
Init ==
  /\ conf \in Confs
  /\ queue = [s \in Shards |-> <<>>]
  /\ at = [s \in Shards |-> "run"]
  /\ ptok = [s \in Shards |-> 0]
  /\ stash = [s \in Shards |-> <<>>]
  /\ txMu = NoConn /\ ctr = 0
  /\ pc = [c \in Conns |-> "idle"]
  /\ tok = [c \in Conns |-> 0]
  /\ next = [c \in Conns |-> 1]
  /\ send = [c \in Conns |-> {}]
  /\ wait = [c \in Conns |-> {}]
  /\ calls = [c \in Conns |-> 0]
  /\ closing = 0

Conn(c) ==
  \/ \E T \in SUBSET conf.keys[c] \ {{}} : Call(c, T)
  \/ Return(c) \/ Lock(c) \/ SendPark(c)
  \/ Resume(c) \/ SendUnpark(c) \/ Unlock(c)

Shard(s) ==
  \/ RunTask(s) \/ RunPark(s) \/ RunPanic(s)
  \/ ParkedTask(s) \/ ParkedControl(s) \/ Drain(s) \/ DrainEnd(s)
  \/ Quit(s)

Next ==
  /\ \/ \E c \in Conns : Conn(c) \/ \E s \in Shards : Enqueue(c, s)
     \/ \E s \in Shards : Shard(s)
     \/ Close
  /\ UNCHANGED conf

\* A goroutine that can run does: the scheduler is preemptive, a send to a
\* channel waits in FIFO order, and a command under a pause comes to its end.
Fairness ==
  /\ \A c \in Conns :
       /\ WF_vars(Return(c) \/ Resume(c) \/ Unlock(c))
       /\ SF_vars(SendPark(c) \/ SendUnpark(c) \/ \E s \in Shards : Enqueue(c, s))
  /\ \A s \in Shards : WF_vars(Shard(s))

Spec == Init /\ [][Next]_<<vars, conf>>

FairSpec == Spec /\ Fairness

-----------------------------------------------------------------------------
(* Properties.                                                             *)

ShardTypes ==
  /\ queue \in [Shards -> Seq(Task)]
  /\ at \in [Shards -> {"run", "parked", "drain", "gone", "panic"}]
  /\ ptok \in [Shards -> Nat]
  /\ stash \in [Shards -> Seq(Task)]
  /\ closing \in 0..(NShards + 1)

ConnTypes ==
  /\ txMu \in Conns \cup {NoConn} /\ ctr \in Nat
  /\ pc \in [Conns -> {"idle", "call", "pausing", "acking", "held", "heldcall",
                       "resuming"}]
  /\ tok \in [Conns -> Nat] /\ next \in [Conns -> 1..(NShards + 1)]
  /\ send \in [Conns -> SUBSET Shards] /\ wait \in [Conns -> SUBSET Shards]
  /\ calls \in [Conns -> Nat]

\* Every variable has its type; no queue is over its capacity and no connection
\* makes more calls than its workload has.
TypeOK ==
  /\ ShardTypes /\ ConnTypes
  /\ \A s \in Shards : Len(queue[s]) <= QCap
  /\ \A c \in Conns : calls[c] <= conf.calls[c]

\* A control message always finds its shard in the state it is meant for: run
\* never meets an unpark message (its nil done channel would panic) and park
\* never takes the next pause's park message for its own unpark, which would
\* leave that PauseAll waiting for an acknowledgement.
ControlMatched ==
  \A s \in Shards : queue[s] # <<>> =>
    /\ at[s] = "run" => Head1(s).kind # "unpark"
    /\ at[s] = "parked" => Head1(s).kind # "park"

\* PauseSound: types, and control messages that match until the engine is closed (a
\* shard that drains on shutdown leaves its parked state and may panic on an unpark).
PauseSound == TypeOK /\ (closing = 0 => ControlMatched)

\* The tasks of a shard, a parked one's stash first.
Line(s) == stash[s] \o queue[s]

\* The pairs of connections with tasks in q, the first one's before the second's.
Before(q) ==
  {p \in Conns \X Conns : \E i, j \in DOMAIN q :
     /\ i < j
     /\ q[i].kind = "fn" /\ q[i].conn = p[1]
     /\ q[j].kind = "fn" /\ q[j].conn = p[2]}

\* A task is pending until its submitter is told.
Board == INSTANCE TaskBoard WITH
  pend  <- [s \in Shards |-> {c \in Conns : s \in wait[c]}],
  older <- [s \in Shards |-> Before(Line(s))],
  owner <- IF txMu # NoConn /\ pc[txMu] \in {"held", "heldcall"} THEN txMu
           ELSE NoConn,
  closed <- closing # 0

\* The promise of the comments on PauseAll and park: tasks run once, in
\* submission order on each shard, and only the owner's while a connection is
\* between PauseAll and resume, until the engine is closed.
ImplementsBoard == Board!Spec

\* Every call of a connection returns unless the engine is closed: commands,
\* PauseAll and resume; in particular concurrent pauses, full queues and
\* stashed tasks end in no deadlock.
EveryCallReturns == \A c \in Conns : pc[c] # "idle" ~> (pc[c] = "idle" \/ closing # 0)

\* The tasks that a parked shard has put aside are run in the end, by the unpark
\* message or by the drain on shutdown: their submitters are not left hanging.
StashedIsServed == \A s \in Shards : stash[s] # <<>> ~> (stash[s] = <<>> \/ at[s] = "panic")
=============================================================================
