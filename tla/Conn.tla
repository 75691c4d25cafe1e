-------------------------------- MODULE Conn --------------------------------
(***************************************************************************)
(* Connections of the command engine: the gates of Engine.Execute, MULTI   *)
(* and EXEC, EVAL on a pooled VM, SCRIPT KILL and FLUSH, subscribe mode,   *)
(* AUTH, HELLO, RESET and CONFIG SET (lib/commands engine.go, tx.go,      *)
(* eval.go, script.go, server.go; lib/scripting).                          *)
(*                                                                         *)
(* A command line is [name, ok, arg]: ok is FALSE for a wrong number of    *)
(* arguments, arg selects the subcommand or the script.  Commands on keys  *)
(* are one step here: Keyspace, Data and Block model what they do, Pause   *)
(* how PauseAll excludes them.                                             *)
(***************************************************************************)
EXTENDS VmPool

CONSTANTS
  Conns,     \* connections
  NoConn,    \* nobody holds the pause
  Mixes,     \* what the clients send: records [top, inMulti] of Conns -> SUBSET Lines
  MaxQueue,  \* bound: commands in one transaction
  MaxFlush   \* bound: SCRIPT FLUSHes

VARIABLES
  mix,       \* the mix of this behaviour
  cs,        \* ConnState
  holder,    \* the connection that holds Engine.txMu and the pause
  requirePass, \* a password is configured
  mem,       \* "nolimit", "under" or "over" maxmemory
  cache,     \* Manager.cache
  run        \* Manager.runs: at most one script runs, under the pause

vars == <<mix, cs, holder, requirePass, mem, cache, run, poolVars>>
globals == <<requirePass, mem, cache>>

\* The command table: the flags the gates look at.
table ==
  [get |-> {}, set |-> {"write", "denyoom"}, blpop |-> {"write", "blocking"}, ping |-> {},
   eval |-> {"noscript"}, evalsha |-> {"noscript"}, script |-> {"noscript"},
   multi |-> {"noscript"}, exec |-> {"write", "noscript"}, discard |-> {"noscript"},
   watch |-> {"noscript"}, unwatch |-> {"noscript"}, auth |-> {"noscript"},
   hello |-> {"noscript"}, quit |-> {"noscript"}, reset |-> {"noscript"},
   subscribe |-> {"noscript"}, unsubscribe |-> {"noscript"}, config |-> {"noscript"},
   save |-> {"noscript"}]

Names == DOMAIN table \cup {"nosuch"}
Args == {"", "bad", "2", "3", "kill", "flush", "pass", "nopass", "limit", "nolimit"}
          \cup Scripts
Lines == [name: Names, ok: BOOLEAN, arg: Args]

\* Where a connection's goroutine is.  do: past the gates, before the handler;
\* lease: script found, VM not yet checked out; drain: SCRIPT FLUSH between the
\* cache and the pool; pause, evalpause: in PauseAll; release: script over, VM out.
Places == {"idle", "do", "parked", "pause", "exec", "lease", "drain", "evalpause",
           "script", "release"}

NoVm == 0
NoRun == [conn |-> NoConn, slow |-> FALSE, wrote |-> FALSE, killed |-> FALSE]

ASSUME ConnAssumption ==
  /\ NoConn \notin Conns /\ MaxQueue \in Nat /\ MaxFlush \in Nat
  /\ Mixes \subseteq [top: [Conns -> SUBSET Lines], inMulti: [Conns -> SUBSET Lines]]
  /\ \A f \in Mixes, c \in Conns : \A m \in f.top[c] \cup f.inMulti[c] :
       m.ok /\ m.name \in {"eval", "evalsha"} => m.arg \in Scripts

\* NewConnState.
Fresh ==
  [proto |-> 2, authed |-> FALSE, multi |-> FALSE, queue |-> <<>>, qerr |-> FALSE,
   watch |-> FALSE, subs |-> FALSE, tok |-> FALSE, inExec |-> FALSE,
   at |-> "idle", line |-> [name |-> "ping", ok |-> TRUE, arg |-> ""], pos |-> 0, vm |-> NoVm,
   fatal |-> FALSE, refused |-> FALSE]

\* One type invariant: the connections, the pool and the running script.
TypeOK ==
  /\ mix \in Mixes
  /\ \A c \in Conns :
       /\ cs[c].proto \in {2, 3} /\ cs[c].at \in Places
       /\ cs[c].queue \in Seq(Lines) /\ Len(cs[c].queue) <= MaxQueue
       /\ cs[c].line \in Lines /\ cs[c].pos \in 0..(MaxQueue + 1) /\ cs[c].vm \in {NoVm} \cup Vms
       /\ {cs[c].authed, cs[c].multi, cs[c].qerr, cs[c].watch, cs[c].subs,
           cs[c].tok, cs[c].inExec, cs[c].fatal, cs[c].refused} \subseteq BOOLEAN
  /\ holder \in Conns \cup {NoConn}
  /\ requirePass \in BOOLEAN /\ mem \in {"nolimit", "under", "over"} /\ cache \subseteq Scripts
  /\ run \in [conn: Conns \cup {NoConn}, slow: BOOLEAN, wrote: BOOLEAN, killed: BOOLEAN]
  /\ PoolTypeOK

Init ==
  /\ mix \in Mixes
  /\ cs = [c \in Conns |-> Fresh]
  /\ holder = NoConn /\ requirePass = FALSE /\ mem = "nolimit" /\ cache = {}
  /\ run = NoRun
  /\ PoolInit

clearTx(s) == [s EXCEPT !.multi = FALSE, !.queue = <<>>, !.qerr = FALSE, !.watch = FALSE,
                        !.pos = 0, !.refused = FALSE]

-----------------------------------------------------------------------------
(* The gates of Execute, in their order.                                   *)

queueable(s, m) ==
  s.multi /\ m.name \notin {"exec", "discard", "multi", "watch", "quit", "reset"}

queueHasDenyOOM(s) ==
  \E i \in DOMAIN s.queue : "denyoom" \in table[s.queue[i].name]

NoAuth(s, m) ==
  requirePass /\ ~s.authed /\ m.name \notin {"auth", "hello", "quit", "reset"}

\* Mutant: MULTI is let through in subscribe mode.
SubscribeModeMulti(s, m) ==
  /\ s.proto = 2 /\ s.subs
  /\ m.name \notin {"subscribe", "unsubscribe", "ping", "quit", "reset", "multi"}

\* A container command with an unknown subcommand is not held back.
SubscribeMode(s, m) ==
  /\ s.proto = 2 /\ s.subs
  /\ m.name \notin {"subscribe", "unsubscribe", "ping", "quit", "reset"}
  /\ ~(m.name \in {"config", "script"} /\ m.arg = "bad")

BusyTimeout == run.conn # NoConn /\ run.slow

Busy(m) ==
  /\ BusyTimeout
  /\ ~(m.name = "script" /\ m.arg = "kill")
  /\ m.name \notin {"multi", "discard", "watch", "unwatch", "auth", "hello", "quit", "reset"}

\* The answer of the gates; oom: over maxmemory and eviction did not help.
Gate(s, m, oom) ==
  IF m.name \notin DOMAIN table THEN "unknown"
  ELSE IF NoAuth(s, m) THEN "NOAUTH"
  ELSE IF ~m.ok THEN "arity"
  ELSE IF SubscribeMode(s, m) THEN "submode"
  ELSE IF Busy(m) THEN "BUSY"
  ELSE IF oom /\ m.name = "exec" /\ queueHasDenyOOM(s) THEN "EXECABORT"
  ELSE IF oom /\ (queueable(s, m) \/ "denyoom" \in table[m.name]) THEN "OOM"
  ELSE IF queueable(s, m) THEN "QUEUED"
  ELSE "run"

\* Mutant: a wrong number of arguments does not spoil the transaction.
GatedArityFree(s, m, g) ==
  CASE g \in {"unknown", "OOM"} /\ queueable(s, m) ->
         [s EXCEPT !.qerr = TRUE, !.refused = TRUE]
    [] g = "arity" /\ queueable(s, m) -> [s EXCEPT !.refused = TRUE]
    [] g = "EXECABORT" -> clearTx(s)
    [] g = "QUEUED" -> [s EXCEPT !.queue = Append(@, m)]
    [] OTHER -> s

\* What the gates do to the connection.  (refused is not kept by the code:
\* a command of this transaction was answered with one of these errors.)
Gated(s, m, g) ==
  CASE g \in {"unknown", "arity", "OOM"} /\ queueable(s, m) ->
         [s EXCEPT !.qerr = TRUE, !.refused = TRUE]
    [] g = "EXECABORT" -> clearTx(s)
    [] g = "QUEUED" -> [s EXCEPT !.queue = Append(@, m)]
    [] OTHER -> s

-----------------------------------------------------------------------------
(* Handlers that touch only the connection.                                *)

cmdReset(s) == [clearTx(s) EXCEPT !.subs = FALSE, !.authed = FALSE, !.proto = 2]

\* AUTH <password> without a configured password is an error, AUTH default
\* <password> ("pass") is not; a wrong password changes nothing.
cmdAuth(s, m) ==
  IF m.arg = "pass" \/ (m.arg = "" /\ requirePass) THEN [s EXCEPT !.authed = TRUE] ELSE s

cmdHello(s, m) ==
  CASE m.arg \in {"2", "3"} -> [s EXCEPT !.proto = IF m.arg = "2" THEN 2 ELSE 3]
    [] m.arg = "pass" -> [s EXCEPT !.authed = TRUE]
    [] OTHER -> s

\* cmdMulti, cmdDiscard, cmdUnwatch, cmdWatch, cmdSubscribe, cmdUnsubscribe.
Local(s, m) ==
  CASE m.name = "multi" -> IF s.multi THEN s ELSE [s EXCEPT !.multi = TRUE]
    [] m.name = "discard" -> IF s.multi THEN clearTx(s) ELSE s
    [] m.name = "watch" -> IF s.multi THEN s ELSE [s EXCEPT !.watch = TRUE]
    [] m.name = "unwatch" -> [s EXCEPT !.watch = FALSE]
    [] m.name = "auth" -> cmdAuth(s, m)
    [] m.name = "hello" -> cmdHello(s, m)
    [] m.name = "reset" -> cmdReset(s)
    [] m.name = "subscribe" -> [s EXCEPT !.subs = TRUE]
    [] m.name = "unsubscribe" -> [s EXCEPT !.subs = FALSE]
    [] OTHER -> s

\* CONFIG SET requirepass and maxmemory.
cmdConfig(m) ==
  /\ requirePass' = IF m.arg \in {"pass", "nopass"} THEN m.arg = "pass" ELSE requirePass
  /\ mem' = CASE m.arg = "limit" -> (IF mem = "nolimit" THEN "under" ELSE mem)
              [] m.arg = "nolimit" -> "nolimit"
              [] OTHER -> mem
  /\ UNCHANGED cache

\* SCRIPT KILL: NOTBUSY, UNKILLABLE, or the deadline flag is tripped.
Kill ==
  run' = IF run.conn = NoConn \/ run.wrote THEN run ELSE [run EXCEPT !.killed = TRUE]

Put(c, s) == cs' = [cs EXCEPT ![c] = s]

\* A handler that ends in this step; s: the connection when it returns.
Handle(c, s, m) ==
  CASE m.name = "config" ->
         Put(c, s) /\ cmdConfig(m) /\ UNCHANGED <<run, poolVars>>
    [] m.name = "script" /\ m.arg = "kill" ->
         Put(c, s) /\ Kill /\ UNCHANGED <<globals, poolVars>>
    [] m.name = "script" /\ m.arg \in Scripts ->  \* SCRIPT LOAD
         Put(c, s) /\ cache' = cache \cup {m.arg}
         /\ UNCHANGED <<requirePass, mem, run, poolVars>>
    [] OTHER ->
         Put(c, Local(s, m)) /\ UNCHANGED <<run, globals, poolVars>>

IsEval(m) == m.name \in {"eval", "evalsha"}

\* Compile adds the source to the cache; Lookup of an unknown SHA is NOSCRIPT.
Find(c, s, m, miss) ==
  /\ IF m.name = "evalsha" /\ m.arg \notin cache
       THEN Put(c, miss) /\ UNCHANGED cache
       ELSE Put(c, [s EXCEPT !.at = "lease", !.line = m]) /\ cache' = cache \cup {m.arg}
  /\ UNCHANGED <<requirePass, mem, run, poolVars>>

\* The cache half of SCRIPT FLUSH.
FlushCache(c, s) ==
  /\ Put(c, [s EXCEPT !.at = "drain"])
  /\ cache' = {}
  /\ UNCHANGED <<requirePass, mem, run, poolVars>>

IsFlush(m) == m.name = "script" /\ m.arg = "flush"
NeedsShards(m) == m.name \in {"get", "set", "blpop", "watch", "save"}

-----------------------------------------------------------------------------
(* One command from the client: the gates, then its handler up to the      *)
(* first point where it waits.                                             *)

cmdExec(c, s, m) ==
  /\ Put(c, CASE m.arg = "bad" -> clearTx(s)
              [] m.arg # "bad" /\ ~s.multi -> s
              [] m.arg # "bad" /\ s.multi /\ s.qerr -> clearTx(s)
              [] OTHER -> [s EXCEPT !.at = "pause"])
  /\ UNCHANGED <<run, globals, poolVars>>

Dispatch(c, m, oom) ==
  LET s == cs[c]
      g == Gate(s, m, oom)
      t == Gated(s, m, g)
  IN CASE g # "run" -> Put(c, t) /\ UNCHANGED <<run, globals, poolVars>>
       [] g = "run" /\ m.name = "exec" -> cmdExec(c, t, m)
       [] g = "run" /\ IsEval(m) -> Find(c, t, m, t)
       [] g = "run" /\ IsFlush(m) -> FlushCache(c, t)
       [] g = "run" /\ NeedsShards(m) ->
            Put(c, [t EXCEPT !.at = "do", !.line = m]) /\ UNCHANGED <<run, globals, poolVars>>
       [] g = "run" /\ m.name = "quit" ->  \* the front-end closes: CloseConn
            Put(c, Fresh) /\ UNCHANGED <<run, globals, poolVars>>
       [] OTHER -> Handle(c, t, m)

\* SCRIPT FLUSHes that are queued or under way.
Flushing ==
  Cardinality({c \in Conns : cs[c].at = "drain" /\ cs[c].pos = 0})
    + Cardinality({p \in Conns \X (1..MaxQueue) :
                     LET s == cs[p[1]] IN p[2] \in s.pos..Len(s.queue) /\ IsFlush(s.queue[p[2]])})

\* The OOM gate runs EvictNow, which needs the shards, unless noeviction is set.
Execute(c) ==
  /\ cs[c].at = "idle"
  /\ \E m \in IF cs[c].multi THEN mix.inMulti[c] ELSE mix.top[c], oom \in BOOLEAN :
       /\ oom => mem = "over"
       /\ (mem = "over" /\ ~oom) => holder = NoConn
       /\ queueable(cs[c], m) => Len(cs[c].queue) < MaxQueue
       /\ IsFlush(m) => poolEpoch + Flushing < MaxFlush
       /\ Dispatch(c, m, oom)
  /\ UNCHANGED <<mix, holder>>

\* Back from a nested handler to the queue, or from a command to the client.
Back(s) ==
  LET t == [s EXCEPT !.line = Fresh.line]
  IN IF s.pos > 0 THEN [t EXCEPT !.at = "exec", !.pos = @ + 1] ELSE [t EXCEPT !.at = "idle"]

\* A blocking command outside EXEC may park; everything else runs to its end.
Do(c) ==
  /\ cs[c].at = "do" /\ holder = NoConn
  /\ \/ Put(c, Local(Back(cs[c]), cs[c].line))
     \/ /\ "blocking" \in table[cs[c].line.name] /\ ~cs[c].inExec
        /\ Put(c, [cs[c] EXCEPT !.at = "parked"])
  /\ UNCHANGED <<mix, holder, globals, run, poolVars>>

\* A push ends the wait, or the timeout does, which needs no other connection.
Wake(c) ==
  /\ cs[c].at = "parked" /\ holder \in {NoConn, c}
  /\ Put(c, Back(cs[c]))
  /\ UNCHANGED <<mix, holder, globals, run, poolVars>>

\* CloseConn, when the client hangs up between commands; another one may connect.
CloseConn(c) ==
  /\ cs[c].at = "idle" /\ cs[c] # Fresh
  /\ Put(c, Fresh)
  /\ UNCHANGED <<mix, holder, globals, run, poolVars>>

-----------------------------------------------------------------------------
(* EXEC.                                                                   *)

\* Mutant: the commands of the queue are not told that EXEC runs them.
ExecPauseBlind(c) ==
  /\ cs[c].at = "pause" /\ holder = NoConn
  /\ holder' = c
  /\ Put(c, [cs[c] EXCEPT !.at = "exec", !.pos = 1, !.tok = TRUE])
  /\ UNCHANGED <<mix, globals, run, poolVars>>

\* PauseAll, then the dirty check: a watched key was touched, or the queue runs.
ExecPause(c) ==
  /\ cs[c].at = "pause" /\ holder = NoConn
  /\ \/ /\ cs[c].watch
        /\ Put(c, [clearTx(cs[c]) EXCEPT !.at = "idle"])
        /\ UNCHANGED holder
     \/ /\ holder' = c
        /\ Put(c, [cs[c] EXCEPT !.at = "exec", !.pos = 1, !.tok = TRUE, !.inExec = TRUE])
  /\ UNCHANGED <<mix, globals, run, poolVars>>

\* One queued command.  SAVE pauses the engine itself: with the pause held it waits.
ExecStep(c) ==
  LET s == cs[c]
      m == s.queue[s.pos]
      next == [s EXCEPT !.pos = @ + 1]
  IN /\ s.at = "exec" /\ s.pos <= Len(s.queue)
     /\ m.name = "save" => holder = NoConn
     /\ CASE IsEval(m) -> Find(c, s, m, next)
          [] IsFlush(m) -> FlushCache(c, s)
          [] "blocking" \in table[m.name] /\ ~s.inExec ->
               Put(c, [s EXCEPT !.at = "parked"]) /\ UNCHANGED <<run, globals, poolVars>>
          [] OTHER -> Handle(c, next, m)
     /\ UNCHANGED <<mix, holder>>

ExecEnd(c) ==
  /\ cs[c].at = "exec" /\ cs[c].pos > Len(cs[c].queue)
  /\ Put(c, [clearTx(cs[c]) EXCEPT !.at = "idle", !.tok = FALSE, !.inExec = FALSE])
  /\ holder' = NoConn
  /\ UNCHANGED <<mix, globals, run, poolVars>>

-----------------------------------------------------------------------------
(* EVAL and SCRIPT FLUSH.                                                  *)

Drain(c) ==
  /\ cs[c].at = "drain"
  /\ DrainPool
  /\ Put(c, Back(cs[c]))
  /\ UNCHANGED <<mix, holder, globals, run>>

\* RunOnVM marks the run; under EXEC the pause is held already.
Enter(c, s) ==
  /\ run' = [NoRun EXCEPT !.conn = c]
  /\ Put(c, [s EXCEPT !.at = "script", !.tok = TRUE, !.inExec = TRUE])

\* Mutant: EVAL takes the pause even when EXEC holds it.
LeaseRepauses(c) ==
  /\ cs[c].at = "lease"
  /\ \E vm \in Vms :
       /\ CheckoutVM(cs[c].line.arg, vm)
       /\ Put(c, [cs[c] EXCEPT !.vm = vm, !.fatal = FALSE, !.at = "evalpause"])
  /\ UNCHANGED <<mix, holder, globals, run>>

Lease(c) ==
  /\ cs[c].at = "lease"
  /\ \E vm \in Vms :
       LET s == [cs[c] EXCEPT !.vm = vm, !.fatal = FALSE]
       IN /\ CheckoutVM(s.line.arg, vm)
          /\ IF s.tok THEN Enter(c, s)
                      ELSE Put(c, [s EXCEPT !.at = "evalpause"]) /\ UNCHANGED run
  /\ UNCHANGED <<mix, holder, globals>>

EvalPause(c) ==
  /\ cs[c].at = "evalpause" /\ holder = NoConn
  /\ holder' = c
  /\ Enter(c, cs[c])
  /\ UNCHANGED <<mix, globals, poolVars>>

\* redis.call of a command that writes; wrote is stored after it returned, so the
\* write and the flag are two steps (at "script" with line "set" in between).
Call(c) ==
  /\ cs[c].at = "script" /\ IsEval(cs[c].line) /\ mem # "over"
  /\ Put(c, [cs[c] EXCEPT !.line = [name |-> "set", ok |-> TRUE, arg |-> @.arg]])
  /\ UNCHANGED <<mix, holder, globals, run, poolVars>>

NoteWrote(c) ==
  /\ cs[c].at = "script" /\ cs[c].line.name = "set"
  /\ Put(c, [cs[c] EXCEPT !.line.name = "eval"])
  /\ run' = [run EXCEPT !.wrote = TRUE]
  /\ UNCHANGED <<mix, holder, globals, poolVars>>

\* The run passes lua-time-limit.
PassTimeLimit(c) ==
  /\ run.conn = c /\ ~run.slow
  /\ run' = [run EXCEPT !.slow = TRUE]
  /\ UNCHANGED <<mix, cs, holder, globals, poolVars>>

\* Mutant: a nested EVAL resumes the engine as well.
EndScriptResumes(c) ==
  LET s == cs[c]
  IN /\ s.at = "script" /\ IsEval(s.line)
     /\ run' = NoRun
     /\ \E fatal \in BOOLEAN :
          /\ fatal => run.killed \/ run.slow
          /\ Put(c, [s EXCEPT !.at = "release", !.inExec = FALSE, !.tok = FALSE, !.fatal = fatal])
     /\ holder' = NoConn
     /\ UNCHANGED <<mix, globals, poolVars>>

\* The script returns, fails, sees the kill at a back-edge or meets the hard
\* deadline (fatal).  The pause is given back only by the EVAL that took it.
EndScript(c) ==
  LET s == cs[c]
      paused == s.pos = 0
  IN /\ s.at = "script" /\ IsEval(s.line)
     /\ run' = NoRun
     /\ \E fatal \in BOOLEAN :
          /\ fatal => run.killed \/ run.slow
          /\ Put(c, [s EXCEPT !.at = "release", !.inExec = FALSE,
                              !.tok = @ /\ ~paused, !.fatal = fatal])
     /\ holder' = IF paused THEN NoConn ELSE holder
     /\ UNCHANGED <<mix, globals, poolVars>>

Release(c) ==
  /\ cs[c].at = "release"
  /\ \E heavy \in BOOLEAN : ReleaseVM(cs[c].vm, cs[c].line.arg, cs[c].fatal, heavy)
  /\ Put(c, Back([cs[c] EXCEPT !.vm = NoVm, !.fatal = FALSE]))
  /\ UNCHANGED <<mix, holder, globals, run>>

\* Memory use crosses maxmemory, either way: writes, deletes, expiry, eviction.
Usage ==
  /\ mem # "nolimit"
  /\ mem' = IF mem = "over" THEN "under" ELSE "over"
  /\ UNCHANGED <<mix, cs, holder, requirePass, cache, run, poolVars>>

\* What the server does for a connection without waiting for its client.
Serve(c) ==
  \/ Do(c) \/ ExecPause(c) \/ ExecStep(c) \/ ExecEnd(c) \/ Drain(c) \/ Lease(c)
  \/ EvalPause(c) \/ NoteWrote(c) \/ EndScript(c) \/ Release(c)

Next ==
  \/ \E c \in Conns :
       \/ Execute(c) \/ Wake(c) \/ CloseConn(c) \/ Serve(c) \/ Call(c) \/ PassTimeLimit(c)
  \/ Usage

Spec == Init /\ [][Next]_vars

(* A connection's goroutine goes on; a script ends by itself or by the hard *)
(* deadline; txMu is a Go mutex, which no waiter is starved of.            *)
FairSpec ==
  /\ Spec
  /\ \A c \in Conns : SF_vars(Do(c) \/ ExecPause(c) \/ EvalPause(c))
  /\ \A c \in Conns : WF_vars(ExecStep(c) \/ ExecEnd(c) \/ Drain(c) \/ Lease(c) \/ NoteWrote(c)
                                \/ Release(c))
  /\ \A c \in Conns : SF_vars(EndScript(c))
-----------------------------------------------------------------------------
(* Properties.                                                             *)

\* RefusedAborts: a transaction one of whose commands was answered with an
\* unknown-command, arity or OOM error never gets to run its queue (the
\* QueueErr flag of Execute, read by cmdExec after the pause-free checks).
RefusedAborts == \A c \in Conns : cs[c].pos > 0 => ~cs[c].refused

\* PauseOwned: the engine is paused by a connection exactly while its EXEC runs
\* the queue or its script runs, and its tasks carry the token exactly then; a
\* script inside EXEC neither takes the pause again nor gives it back early.
PauseOwned ==
  \A c \in Conns :
    /\ holder = c <=> cs[c].pos > 0 \/ cs[c].at = "script"
    /\ cs[c].tok <=> holder = c

\* NoParkUnderPause: no connection waits for a push while it holds the pause,
\* when no push can happen (the inExec fast path of the blocking commands).
NoParkUnderPause == \A c \in Conns : cs[c].at = "parked" => holder # c

\* NoTxInSubscribeMode: a RESP2 connection with subscriptions is never inside
\* MULTI, so the EXEC that the subscribe-mode gate refuses without clearTx has
\* no transaction to leave behind.
NoTxInSubscribeMode ==
  \A c \in Conns : cs[c].at = "idle" /\ cs[c].proto = 2 /\ cs[c].subs => ~cs[c].multi

\* VmExclusive: a VM is idle in one place or checked out by one connection.
VmExclusive ==
  /\ IsInjective(idle)
  /\ leased \cap ToSet(idle) = {}
  /\ leased = {cs[c].vm : c \in Conns} \ {NoVm}
  /\ \A c, d \in Conns : c # d /\ cs[c].vm = cs[d].vm => cs[c].vm = NoVm

\* PoolBounded: idle VMs stay within script_vm_pool_size per script and
\* script_vm_pool_max in all, and none has served its runs.
PoolBounded ==
  /\ Len(idle) <= VMPoolMax
  /\ \A s \in Scripts : Cardinality(Queue(s)) <= VMPoolSize
  /\ \A v \in ToSet(idle) : VMRecycleRuns > 0 => vmMeta[v].runs < VMRecycleRuns

\* FlushedGone: no idle VM was pooled before the last SCRIPT FLUSH, whether it
\* was idle or checked out when the flush came.
FlushedGone == \A v \in ToSet(idle) : vmMeta[v].epoch = poolEpoch

\* FlushRecycles: "a SCRIPT FLUSH landed while it was leased" recycles a VM: no
\* idle VM is older than the last flush (rule 4 of pool.go).
FlushRecycles == \A v \in ToSet(idle) : born[v] = poolEpoch

\* CommandEnds: every command is answered or parks in a blocking wait, so every
\* pause ends, whatever the other connections do.
CommandEnds ==
  \A c \in Conns : cs[c].at # "idle" ~> cs[c].at \in {"idle", "parked"}

\* TxSound: the connection's state is well formed, a transaction with a refused
\* command never runs, and a connection in subscribe mode is not inside MULTI.
TxSound == TypeOK /\ RefusedAborts /\ NoTxInSubscribeMode

\* PauseHeld: a pause belongs to the EXEC or the script that took it, for as long
\* as it runs, and its owner never waits for another connection under it.
PauseHeld == PauseOwned /\ NoParkUnderPause

\* PoolSound: VMs are never shared, and the idle ones stay within the pool's
\* limits, their number of runs and the last SCRIPT FLUSH.
PoolSound == VmExclusive /\ PoolBounded /\ FlushedGone
=============================================================================
