------------------------------- MODULE Block -------------------------------
(***************************************************************************)
(* The blocking commands of lib/commands/block.go (BLPOP, BRPOP, BLMPOP,   *)
(* BZPOPMIN, BZMPOP as one form; BLMOVE, BRPOPLPUSH as another), the       *)
(* waiter registry of lib/shard/shard.go and the commands that feed it:    *)
(* pushes, pops, LMOVE, DEL and the ZUNIONSTORE family.                    *)
(*                                                                         *)
(* One action is one shard task, or one select of a parked connection.  A  *)
(* key is its type and its number of elements: which ones they are decides *)
(* nothing.                                                                *)
(***************************************************************************)
EXTENDS Naturals, Sequences, FiniteSets, SequencesExt

CONSTANTS
  Clients,    \* connections
  Keys,       \* keys
  Confs       \* the configurations and workloads

\* The types of collections that are popped.
Types == {"list", "zset"}

\* A configuration: the types in use, the key arguments a blocking pop may have,
\* the pairs of source and destination of LMOVE and BLMOVE, whether a blocking
\* command has a finite timeout and is inside EXEC, whether the ZUNIONSTORE
\* family, DEL and Engine.Close occur, and the bounds on the elements pushed and
\* on each client's commands.
Conf == [types: SUBSET Types, keySeqs: SUBSET Seq(Keys), moves: SUBSET (Keys \X Keys),
         timeouts: SUBSET BOOLEAN, inExec: SUBSET BOOLEAN, stores: BOOLEAN,
         deletes: BOOLEAN, mayClose: BOOLEAN, maxElems: Nat, maxCmds: [Clients -> Nat]]

ASSUME BlockAssumption ==
  \A f \in Confs : f \in Conf /\ <<>> \notin f.keySeqs

\* The command a connection is executing.
NoCmd == [kind |-> "none", type |-> "none", keys |-> <<>>, dst |-> <<>>, tmo |-> FALSE, exec |-> FALSE]

VARIABLES
  conf,     \* the configuration, fixed at the start
  size,     \* the number of elements of each key, 0 for a missing key
  type,     \* the type of each key, "none" for a missing key
  pushed,   \* number of elements pushed so far
  waiters,  \* Shard.waiters: the FIFO of each key
  sig,      \* a signal is pending in the connection's Waiter.Ch
  pc,       \* "idle", "try", "undo", "park", "dereg", "peek", "put", "cut"
  cmd,      \* the command under way
  idx,      \* next key the step loops over
  late,     \* the deregistration follows a timeout
  cmds,     \* commands issued
  closing   \* Engine.closing is closed

envVars == <<closing, conf>>
vars == <<conf, size, type, pushed, waiters, sig, pc, cmd, idx, late, cmds, closing>>

Key(c) == cmd[c].keys[idx[c]]

\* getColl: key k holds a collection of type t, or one of another type.
Holds(k, t) == size[k] > 0 /\ type[k] = t
Wrong(k, t) == size[k] > 0 /\ type[k] # t

\* n elements of key k go, and the key with its last one.
Take(k, n) ==
  /\ size' = [size EXCEPT ![k] = @ - n]
  /\ type' = [type EXCEPT ![k] = IF size[k] = n THEN "none" ELSE @]

\* Key k holds n elements of type t.
Fill(k, n, t) ==
  /\ size' = [size EXCEPT ![k] = n]
  /\ type' = [type EXCEPT ![k] = t]

-----------------------------------------------------------------------------
(* The waiter registry.                                                    *)

AddWaiter(k, c) == [waiters EXCEPT ![k] = Append(@, c)]

\* The loop of Shard.RemoveWaiter: every occurrence of c goes.
Without(q, c) ==
  LET out[n \in 0..Len(q)] ==
        IF n = 0 THEN <<>> ELSE IF q[n] = c THEN out[n - 1] ELSE Append(out[n - 1], q[n])
  IN out[Len(q)]

RemoveWaiter(k, c) == [waiters EXCEPT ![k] = Without(@, c)]

\* Mutant: nobody is signalled.
WakeNobody(k) == sig

\* Signal the first waiter; a signal already pending absorbs this one.
WakeWaiter(k) ==
  IF waiters[k] = <<>> THEN sig ELSE [sig EXCEPT ![Head(waiters[k])] = TRUE]

-----------------------------------------------------------------------------
(* Commands that do not block.  One of the wrong type replies WRONGTYPE,   *)
(* changes nothing and is left out.                                        *)

Issue(c) ==
  /\ pc[c] = "idle" /\ cmds[c] < conf.maxCmds[c]
  /\ cmds' = [cmds EXCEPT ![c] = @ + 1]

\* RPUSH and its kin, ZADD.
Push(c, k, t) ==
  /\ Issue(c) /\ pushed < conf.maxElems /\ ~ Wrong(k, t)
  /\ pushed' = pushed + 1
  /\ Fill(k, size[k] + 1, t)
  /\ sig' = WakeWaiter(k)
  /\ UNCHANGED <<waiters, pc, cmd, idx, late, envVars>>

\* LPOP and ZPOPMIN wake nobody.
Pop(c, k) ==
  /\ Issue(c) /\ size[k] > 0
  /\ Take(k, 1)
  /\ UNCHANGED <<pushed, waiters, sig, pc, cmd, idx, late, envVars>>

Del(c, k) ==
  /\ Issue(c) /\ conf.deletes /\ size[k] > 0
  /\ Take(k, size[k])
  /\ UNCHANGED <<pushed, waiters, sig, pc, cmd, idx, late, envVars>>

\* ZUNIONSTORE, ZINTERSTORE, ZDIFFSTORE into k: stores over what is there,
\* whatever its type, and wakes nobody.
StoreInto(c, k) ==
  /\ Issue(c) /\ conf.stores /\ pushed < conf.maxElems
  /\ pushed' = pushed + 1
  /\ Fill(k, 1, "zset")
  /\ UNCHANGED <<waiters, sig, pc, cmd, idx, late, envVars>>

-----------------------------------------------------------------------------
(* The blocking loop.                                                      *)

Begin(c, k, first) ==
  /\ Issue(c)
  /\ cmd' = [cmd EXCEPT ![c] = k]
  /\ pc' = [pc EXCEPT ![c] = first]
  /\ idx' = [idx EXCEPT ![c] = 1]
  /\ sig' = [sig EXCEPT ![c] = FALSE]    \* a new Waiter
  /\ late' = [late EXCEPT ![c] = FALSE]
  /\ UNCHANGED <<size, type, pushed, waiters, envVars>>

BPop(c, ty, ks, t, x) ==
  Begin(c, [kind |-> "bpop", type |-> ty, keys |-> ks, dst |-> <<>>, tmo |-> t,
            exec |-> x], "try")

BMove(c, m, t, x) ==
  Begin(c, [kind |-> "bmove", type |-> "list", keys |-> <<m[1]>>, dst |-> <<m[2]>>,
            tmo |-> t, exec |-> x], "try")

Move(c, m) ==
  Begin(c, [kind |-> "move", type |-> "list", keys |-> <<m[1]>>, dst |-> <<m[2]>>,
            tmo |-> FALSE, exec |-> FALSE], "peek")

\* What block does when the attempt finds nothing: null inside EXEC, else park.
NotDone(c) ==
  pc' = [pc EXCEPT ![c] = IF cmd[c].exec \/ cmd[c].kind = "move" THEN "idle" ELSE "park"]

\* A hit: earlier keys of the pass are deregistered first, if there are any.
Hit(c) == pc' = [pc EXCEPT ![c] = IF idx[c] > 1 /\ ~ cmd[c].exec THEN "undo" ELSE "idle"]

\* One key of blockTry, popping n elements (COUNT of BLMPOP and BZMPOP).
TryPop(c) ==
  /\ pc[c] = "try" /\ cmd[c].kind = "bpop" /\ Holds(Key(c), cmd[c].type)
  /\ \E n \in 1..size[Key(c)] :
       /\ Take(Key(c), n)
       /\ sig' = IF size[Key(c)] > n THEN WakeWaiter(Key(c)) ELSE sig
  /\ Hit(c)
  /\ UNCHANGED <<pushed, waiters, cmd, idx, late, cmds, envVars>>

\* A key of another type ends the command with WRONGTYPE, a woken one too:
\* the signal it took is passed on to nobody.
TryWrong(c) ==
  /\ pc[c] = "try" /\ Wrong(Key(c), cmd[c].type)
  /\ Hit(c)
  /\ UNCHANGED <<size, type, pushed, waiters, sig, cmd, idx, late, cmds, envVars>>

\* BLMOVE's check of its source: a candidate, nothing is popped yet.
TryMove(c) ==
  /\ pc[c] = "try" /\ cmd[c].kind = "bmove" /\ Holds(Key(c), "list")
  /\ pc' = [pc EXCEPT ![c] = "peek"]
  /\ UNCHANGED <<size, type, pushed, waiters, sig, cmd, idx, late, cmds, envVars>>

\* Mutant: an empty key is passed without registering the waiter on it.
TryEmptyUnregistered(c) ==
  /\ pc[c] = "try" /\ size[Key(c)] = 0
  /\ IF idx[c] = Len(cmd[c].keys) THEN NotDone(c) /\ UNCHANGED idx
     ELSE idx' = [idx EXCEPT ![c] = @ + 1] /\ UNCHANGED pc
  /\ UNCHANGED <<size, type, pushed, waiters, sig, cmd, late, cmds, envVars>>

\* An empty key: the waiter is registered in the same task.
TryEmpty(c) ==
  /\ pc[c] = "try" /\ size[Key(c)] = 0
  /\ waiters' = IF cmd[c].exec THEN waiters ELSE AddWaiter(Key(c), c)
  /\ IF idx[c] = Len(cmd[c].keys) THEN NotDone(c) /\ UNCHANGED idx
     ELSE idx' = [idx EXCEPT ![c] = @ + 1] /\ UNCHANGED pc
  /\ UNCHANGED <<size, type, pushed, sig, cmd, late, cmds, envVars>>

\* Mutant: a hit on a later key leaves the waiter on the earlier ones.
UndoNothing(c) ==
  /\ pc[c] = "undo"
  /\ pc' = [pc EXCEPT ![c] = "idle"]
  /\ UNCHANGED <<size, type, pushed, waiters, sig, cmd, idx, late, cmds, envVars>>

\* After a hit on key idx, the waiter leaves the keys before it, one by one.
Undo(c) ==
  /\ pc[c] = "undo"
  /\ waiters' = RemoveWaiter(cmd[c].keys[idx[c] - 1], c)
  /\ IF idx[c] = 2 THEN pc' = [pc EXCEPT ![c] = "idle"] /\ UNCHANGED idx
     ELSE idx' = [idx EXCEPT ![c] = @ - 1] /\ UNCHANGED pc
  /\ UNCHANGED <<size, type, pushed, sig, cmd, late, cmds, envVars>>

\* Mutant: a command without a timer does not look at its signal.
ParkSignalTimed(c) ==
  /\ pc[c] = "park" /\ sig[c] /\ cmd[c].tmo
  /\ sig' = [sig EXCEPT ![c] = FALSE]
  /\ pc' = [pc EXCEPT ![c] = "dereg"]
  /\ idx' = [idx EXCEPT ![c] = 1]
  /\ UNCHANGED <<size, type, pushed, waiters, cmd, late, cmds, envVars>>

\* The three cases of the select: a signal, the timer, shutdown.
ParkSignal(c) ==
  /\ pc[c] = "park" /\ sig[c]
  /\ sig' = [sig EXCEPT ![c] = FALSE]
  /\ pc' = [pc EXCEPT ![c] = "dereg"]
  /\ idx' = [idx EXCEPT ![c] = 1]
  /\ UNCHANGED <<size, type, pushed, waiters, cmd, late, cmds, envVars>>

ParkTimeout(c) ==
  /\ pc[c] = "park" /\ cmd[c].tmo
  /\ late' = [late EXCEPT ![c] = TRUE]
  /\ pc' = [pc EXCEPT ![c] = "dereg"]
  /\ idx' = [idx EXCEPT ![c] = 1]
  /\ UNCHANGED <<size, type, pushed, waiters, sig, cmd, cmds, envVars>>

ParkClosing(c) ==
  /\ pc[c] = "park" /\ closing
  /\ pc' = [pc EXCEPT ![c] = "idle"]
  /\ UNCHANGED <<size, type, pushed, waiters, sig, cmd, idx, late, cmds, envVars>>

\* Mutant: the loop of blockDeregister runs past the last key.
DeregPastEnd(c) ==
  /\ pc[c] = "dereg"
  /\ waiters' = RemoveWaiter(Key(c), c)
  /\ IF idx[c] <= Len(cmd[c].keys) THEN idx' = [idx EXCEPT ![c] = @ + 1] /\ UNCHANGED pc
     ELSE /\ idx' = [idx EXCEPT ![c] = 1]
          /\ pc' = [pc EXCEPT ![c] = IF late[c] THEN "idle" ELSE "try"]
  /\ UNCHANGED <<size, type, pushed, sig, cmd, late, cmds, envVars>>

\* blockDeregister, one key per step; then the reply, or the next attempt.
Dereg(c) ==
  /\ pc[c] = "dereg"
  /\ waiters' = RemoveWaiter(Key(c), c)
  /\ IF idx[c] < Len(cmd[c].keys) THEN idx' = [idx EXCEPT ![c] = @ + 1] /\ UNCHANGED pc
     ELSE /\ idx' = [idx EXCEPT ![c] = 1]
          /\ pc' = [pc EXCEPT ![c] = IF late[c] THEN "idle" ELSE "try"]
  /\ UNCHANGED <<size, type, pushed, sig, cmd, late, cmds, envVars>>

-----------------------------------------------------------------------------
(* LMOVE: one task on a single key, else peek, push and pop as three.      *)

Rotate(c) ==
  LET k == Key(c) IN
  /\ pc[c] = "peek" /\ cmd[c].dst = <<k>> /\ Holds(k, "list")
  /\ sig' = WakeWaiter(k)
  /\ pc' = [pc EXCEPT ![c] = "idle"]
  /\ UNCHANGED <<size, type, pushed, waiters, cmd, idx, late, cmds, envVars>>

\* Source and destination are looked at by two tasks of one doMulti, here in
\* one step.
Peek(c) ==
  /\ pc[c] = "peek" /\ cmd[c].dst # <<Key(c)>>
  /\ Holds(Key(c), "list") /\ ~ Wrong(cmd[c].dst[1], "list")
  /\ pc' = [pc EXCEPT ![c] = "put"]
  /\ UNCHANGED <<size, type, pushed, waiters, sig, cmd, idx, late, cmds, envVars>>

\* The source is gone: LMOVE replies null, BLMOVE "re-blocks".
PeekMissing(c) ==
  /\ pc[c] = "peek" /\ size[Key(c)] = 0
  /\ NotDone(c)
  /\ UNCHANGED <<size, type, pushed, waiters, sig, cmd, idx, late, cmds, envVars>>

\* WRONGTYPE: of the source, or of the destination of a source that is there.
PeekWrong(c) ==
  /\ pc[c] = "peek" /\ size[Key(c)] > 0
  /\ Wrong(Key(c), "list") \/ Wrong(cmd[c].dst[1], "list")
  /\ pc' = [pc EXCEPT ![c] = "idle"]
  /\ UNCHANGED <<size, type, pushed, waiters, sig, cmd, idx, late, cmds, envVars>>

\* A destination that has got another type since is replaced by a new list.
PutDst(c) ==
  LET k == cmd[c].dst[1] IN
  /\ pc[c] = "put"
  /\ Fill(k, IF Holds(k, "list") THEN size[k] + 1 ELSE 1, "list")
  /\ sig' = WakeWaiter(k)
  /\ pc' = [pc EXCEPT ![c] = "cut"]
  /\ UNCHANGED <<pushed, waiters, cmd, idx, late, cmds, envVars>>

\* The source may be gone, or of another type.
CutSrc(c) ==
  LET k == Key(c) IN
  /\ pc[c] = "cut"
  /\ IF Holds(k, "list") THEN Take(k, 1) ELSE UNCHANGED <<size, type>>
  /\ sig' = IF Holds(k, "list") /\ size[k] > 1 THEN WakeWaiter(k) ELSE sig
  /\ pc' = [pc EXCEPT ![c] = "idle"]
  /\ UNCHANGED <<pushed, waiters, cmd, idx, late, cmds, envVars>>

Close ==
  /\ conf.mayClose /\ ~ closing
  /\ closing' = TRUE
  /\ UNCHANGED <<conf, size, type, pushed, waiters, sig, pc, cmd, idx, late, cmds>>

-----------------------------------------------------------------------------
Init ==
  /\ conf \in Confs
  /\ size = [k \in Keys |-> 0]
  /\ type = [k \in Keys |-> "none"]
  /\ pushed = 0
  /\ waiters = [k \in Keys |-> <<>>]
  /\ sig = [c \in Clients |-> FALSE]
  /\ pc = [c \in Clients |-> "idle"]
  /\ cmd = [c \in Clients |-> NoCmd]
  /\ idx = [c \in Clients |-> 1]
  /\ late = [c \in Clients |-> FALSE]
  /\ cmds = [c \in Clients |-> 0]
  /\ closing = FALSE

Request(c) ==
  \/ \E k \in Keys, ty \in conf.types : Push(c, k, ty)
  \/ \E k \in Keys : Pop(c, k) \/ Del(c, k) \/ StoreInto(c, k)
  \/ \E ty \in conf.types, ks \in conf.keySeqs, t \in conf.timeouts, x \in conf.inExec :
       BPop(c, ty, ks, t, x)
  \/ \E m \in conf.moves : Move(c, m) \/ \E t \in conf.timeouts, x \in conf.inExec : BMove(c, m, t, x)

Step(c) ==
  \/ TryPop(c) \/ TryWrong(c) \/ TryMove(c) \/ TryEmpty(c) \/ Undo(c)
  \/ ParkSignal(c) \/ ParkClosing(c) \/ Dereg(c)
  \/ Rotate(c) \/ Peek(c) \/ PeekMissing(c) \/ PeekWrong(c) \/ PutDst(c) \/ CutSrc(c)

Next ==
  \/ \E c \in Clients : Request(c) \/ Step(c) \/ ParkTimeout(c)
  \/ Close

Spec == Init /\ [][Next]_vars

\* A command under way takes its next step; clients need not send another.
FairSpec == Spec /\ \A c \in Clients : WF_vars(Step(c))

-----------------------------------------------------------------------------
(* Properties.                                                             *)

\* Every variable has its type, and the key loops of blockTry, its undo and
\* blockDeregister stay within the command's keys.
TypeOK ==
  /\ conf \in Confs
  /\ size \in [Keys -> Nat] /\ pushed \in 0..conf.maxElems
  /\ \A k \in Keys : type[k] \in IF size[k] = 0 THEN {"none"} ELSE Types
  /\ waiters \in [Keys -> Seq(Clients)]
  /\ sig \in [Clients -> BOOLEAN]
  /\ pc \in [Clients -> {"idle", "try", "undo", "park", "dereg", "peek", "put", "cut"}]
  /\ \A c \in Clients : pc[c] # "idle" => idx[c] \in DOMAIN cmd[c].keys
  /\ late \in [Clients -> BOOLEAN]
  /\ \A c \in Clients : cmds[c] \in 0..conf.maxCmds[c]
  /\ closing \in BOOLEAN

\* No waiter outlives its command: a connection that is between commands is in
\* no waiter FIFO, so that no later signal is spent on it (shutdown excepted,
\* where block returns without deregistering).
NoGhostWaiter ==
  ~ closing => \A c \in Clients : pc[c] = "idle" =>
                 \A k \in Keys : c \notin ToSet(waiters[k])

\* A parked command is registered on every key it waits for, as the comment on
\* block has it of an attempt that found nothing.  BLMOVE is excepted: when its
\* source is emptied between the check and the move it parks unregistered.
ParkedIsRegistered ==
  \A c \in Clients : (pc[c] = "park" /\ cmd[c].kind = "bpop") =>
    \A k \in ToSet(cmd[c].keys) : c \in ToSet(waiters[k])

AtRest(c) == pc[c] = "idle" \/ (pc[c] = "park" /\ ~ sig[c])

\* No wake is missed: it never happens that every connection is idle, or
\* parked with no signal pending, while one of them waits for a key that has
\* elements of its type (the comment of block.go: so no wake can be missed).
NoMissedWake ==
  (\A c \in Clients : AtRest(c)) =>
    \A c \in Clients : pc[c] = "park" =>
      \A k \in ToSet(cmd[c].keys) : ~ Holds(k, cmd[c].type)

\* Pops of one type on one key, without timeouts, fed by pushes.
Plain ==
  /\ \E t \in Types : conf.types = {t}
  /\ \A ks \in conf.keySeqs : Len(ks) = 1
  /\ conf.moves = {} /\ conf.timeouts = {FALSE} /\ ~ conf.stores /\ ~ conf.mayClose

\* No wake is missed where blocking pops are of one type, wait on one key each,
\* have no timeout and are fed by pushes: a waiter that takes a signal and pops
\* passes it on as long as the key has elements.  With waiters of both types on
\* a key one can be missed: TryWrong takes a signal and passes it on to nobody.
PlainWakes == Plain => NoMissedWake

\* There, a parked command gets away from a key that has elements: it wakes up,
\* or others empty the key.
ParkedIsServed ==
  \A c \in Clients, k \in Keys :
    (Plain /\ pc[c] = "park" /\ k \in ToSet(cmd[c].keys) /\ size[k] > 0)
      ~> (pc[c] # "park" \/ size[k] = 0)

\* The waiter FIFOs and the parked commands agree: the state is well formed, no
\* waiter outlives its command and a parked pop waits on all its keys (block).
WaitersSound == TypeOK /\ NoGhostWaiter /\ ParkedIsRegistered
=============================================================================
