-------------------------------- MODULE Aof --------------------------------
(***************************************************************************)
(* The append-only file: capture of write commands (lib/commands/aof.go    *)
(* and engine.go), the per-shard logs and BGREWRITEAOF (lib/persist/aof.go,*)
(* manager.go), crashes, and the merge of the logs at startup (replay.go). *)
(*                                                                         *)
(* A key holds a counter, 0 for a missing key; the commands INCR, SET, DEL *)
(* and FLUSHDB stand for the non-idempotent, the idempotent, the multi-key *)
(* and the broadcast ones.  Pauses are taken at the level of TaskBoard,    *)
(* which module Pause implements.                                          *)
(***************************************************************************)
EXTENDS Naturals, Sequences, FiniteSets, SequencesExt, FiniteSetsExt

CONSTANTS
  Conns,       \* connection goroutines
  Keys,        \* keys
  NLogs,       \* shards, each with a log
  ShardOf,     \* the shard of each key
  Confs        \* the configurations and workloads

Logs == 1..NLogs

\* A write command; FLUSHDB has no key argument.
Cmd == [kind: {"incr", "set", "del"}, keys: Seq(Keys) \ {<<>>}]
         \cup [kind: {"flush"}, keys: {<<>>}]

\* A configuration: the write commands of each connection; appendfsync, TRUE
\* for "always" and FALSE for "everysec" and "no"; whether eviction and expiry
\* take keys; how a crash may tear the record it interrupts; and the bounds on
\* the commands of a connection, on BGREWRITEAOF calls and on crashes.
Conf == [cmds: [Conns -> SUBSET Cmd], always: BOOLEAN, evicts: BOOLEAN,
         tears: SUBSET {"mid", "edge"}, maxCmds: Nat, maxRewrites: Nat,
         maxCrashes: Nat]

ASSUME AofAssumption ==
  /\ NLogs \in Nat \ {0} /\ ShardOf \in [Keys -> Logs]
  /\ \A f \in Confs : f \in Conf

\* A record of a log: a command, or the SET k v of a rewrite, with its seq.
\* A torn record has no seq; it is cut inside a bulk or between two bulks.
Rec(n, kind, ks, v) == [seq |-> n, kind |-> kind, keys |-> ks, val |-> v]
TornRec(t) == Rec(0, t, <<>>, 0)

VARIABLES
  conf,     \* the configuration, fixed at the start
  up,       \* "up", "down", "refused": startup failed on a corrupt log
  mem,      \* the keyspace
  acked,    \* the keyspace by the commands that were answered
  logs,     \* aofSet.logs
  synced,   \* length of each log that is on disk for certain
  seq,      \* aofSet.seq
  pc,       \* "idle", "begun", "task", "flush", "done", "append"
  cmd,      \* the command under way
  todo,     \* shards whose task of the command has not run
  rec,      \* the stamped record
  out,      \* logs the record is still to be written to
  issued,   \* commands issued
  rw,       \* BGREWRITEAOF: "off", "pause", "s1", "d1", "s2", "d2", "dump", "swap"
  loads,    \* the counters PersistQuiesced has read
  rwlog,    \* next log the rewrite replaces
  dump,     \* its new records, once the shard has been dumped
  rewrites, \* rewrites started
  crashes   \* crashes so far

connVars == <<pc, cmd, todo, rec, out, issued>>
rwVars == <<rw, loads, rwlog, dump, rewrites>>
envVars == <<crashes, conf>>
vars == <<conf, up, mem, acked, logs, synced, seq, pc, cmd, todo, rec, out, issued,
          rw, loads, rwlog, dump, rewrites, crashes>>

-----------------------------------------------------------------------------
(* Effects of commands and the merge of the logs.                          *)

Missing == [k \in Keys |-> 0]

\* The effect of a command on the keys in K.
Effect(st, kind, ks, v, K) ==
  [k \in Keys |->
     IF kind = "flush" THEN 0
     ELSE IF k \notin ToSet(ks) \cap K THEN st[k]
     ELSE CASE kind = "incr" -> st[k] + 1
            [] kind = "set"  -> v
            [] kind = "del"  -> 0]

Apply(st, r) == Effect(st, r.kind, r.keys, r.val, Keys)

IsTorn(r) == r.kind \in {"mid", "edge"}

\* The records collectAOFRecords gets out of a log: those before a tear.
Parsed(l) ==
  LET t == SelectInSeq(l, IsTorn)
  IN IF t = 0 THEN l ELSE SubSeq(l, 1, t - 1)

Records(ls) == UNION {ToSet(Parsed(ls[i])) : i \in Logs}

MaxSeq(ls) == Max({r.seq : r \in Records(ls)} \cup {0})

\* Mutant: the logs are replayed one file after the other.
ReplayByFile(ls) ==
  LET all == FlattenSeq([i \in Logs |-> Parsed(ls[i])])
      st[i \in 0..Len(all)] == IF i = 0 THEN Missing ELSE Apply(st[i - 1], all[i])
  IN st[Len(all)]

\* replayAOF: all records in the order of their seq, each seq once.
Replay(ls) ==
  LET R == Records(ls)
      st[n \in 0..MaxSeq(ls)] ==
        IF n = 0 THEN Missing
        ELSE IF \E r \in R : r.seq = n
             THEN Apply(st[n - 1], CHOOSE r \in R : r.seq = n)
             ELSE st[n - 1]
  IN st[MaxSeq(ls)]

\* The first tear of a log, if any.
Tear(l) == SelectInSeq(l, IsTorn)

\* Replay stops quietly at a tear inside a bulk that ends the file.  A tear
\* between two bulks is an error; so is, in general, a tear with records behind
\* it, whose bytes the torn bulk swallows, unless it swallows them all.
MayRefuse(l) == Tear(l) > 0 /\ (l[Tear(l)].kind = "edge" \/ Tear(l) < Len(l))
MayStart(l) == Tear(l) > 0 => l[Tear(l)].kind = "mid"

\* Mutant: the record sequence starts over.
BaseSeqZero(ls) == 0

\* openAOF continues the sequence above the records that were replayed.
BaseSeq(ls) == MaxSeq(ls)

-----------------------------------------------------------------------------
(* A write command: Execute, the handler's shard tasks, capturePersist.    *)

Paused == rw \in {"s1", "d1", "s2", "d2", "dump", "swap"}

\* Execute counts the command in persistInFlight.
Begin(c, m) ==
  /\ up = "up" /\ pc[c] = "idle" /\ issued[c] < conf.maxCmds /\ m \in conf.cmds[c]
  /\ issued' = [issued EXCEPT ![c] = @ + 1]
  /\ cmd' = [cmd EXCEPT ![c] = m]
  /\ pc' = [pc EXCEPT ![c] = "begun"]
  /\ UNCHANGED <<up, mem, acked, logs, synced, seq, todo, rec, out, rwVars, envVars>>

\* do and doMulti count the command in persistShardTasks and fan out.
Submit(c) ==
  /\ up = "up" /\ pc[c] = "begun" /\ cmd[c].kind # "flush"
  /\ pc' = [pc EXCEPT ![c] = "task"]
  /\ todo' = [todo EXCEPT ![c] = {ShardOf[k] : k \in ToSet(cmd[c].keys)}]
  /\ UNCHANGED <<up, mem, acked, logs, synced, seq, cmd, rec, out, issued, rwVars, envVars>>

\* The task on one shard; it waits while the shards are paused.
RunTask(c, s) ==
  /\ up = "up" /\ pc[c] \in {"task", "flush"} /\ s \in todo[c] /\ ~ Paused
  /\ mem' = IF pc[c] = "flush" THEN mem
            ELSE Effect(mem, cmd[c].kind, cmd[c].keys, 1, {k \in Keys : ShardOf[k] = s})
  /\ todo' = [todo EXCEPT ![c] = @ \ {s}]
  /\ UNCHANGED <<up, acked, logs, synced, seq, pc, cmd, rec, out, issued, rwVars, envVars>>

\* FLUSHDB swaps the keyspace, then visits every shard, outside do.
Flush(c) ==
  /\ up = "up" /\ pc[c] = "begun" /\ cmd[c].kind = "flush"
  /\ mem' = Missing
  /\ pc' = [pc EXCEPT ![c] = "flush"]
  /\ todo' = [todo EXCEPT ![c] = Logs]
  /\ UNCHANGED <<up, acked, logs, synced, seq, cmd, rec, out, issued, rwVars, envVars>>

\* The handler returns: persistShardTasks goes down again.
HandlerEnd(c) ==
  /\ up = "up" /\ pc[c] \in {"task", "flush"} /\ todo[c] = {}
  /\ pc' = [pc EXCEPT ![c] = "done"]
  /\ UNCHANGED <<up, mem, acked, logs, synced, seq, cmd, todo, rec, out, issued, rwVars, envVars>>

\* capturePersist and LogCommand: a fresh seq; the log of the first key, or all.
Stamp(c) ==
  /\ up = "up" /\ pc[c] = "done"
  /\ seq' = seq + 1
  /\ rec' = [rec EXCEPT ![c] = Rec(seq + 1, cmd[c].kind, cmd[c].keys, 1)]
  /\ out' = [out EXCEPT ![c] = IF cmd[c].kind = "flush" THEN Logs
                               ELSE {ShardOf[cmd[c].keys[1]]}]
  /\ pc' = [pc EXCEPT ![c] = "append"]
  /\ UNCHANGED <<up, mem, acked, logs, synced, cmd, todo, issued, rwVars, envVars>>

\* appendSeq, log by log.
Append1(c) ==
  /\ up = "up" /\ pc[c] = "append" /\ out[c] # {}
  /\ LET i == Min(out[c]) IN
     /\ logs' = [logs EXCEPT ![i] = Append(@, rec[c])]
     /\ out' = [out EXCEPT ![c] = @ \ {i}]
  /\ UNCHANGED <<up, mem, acked, synced, seq, pc, cmd, todo, rec, issued, rwVars, envVars>>

\* Mutant: the reply is sent without the fsync of appendfsync always.
ReplyUnsynced(c) ==
  /\ up = "up" /\ pc[c] = "append" /\ out[c] = {}
  /\ acked' = Apply(acked, rec[c])
  /\ pc' = [pc EXCEPT ![c] = "idle"]
  /\ UNCHANGED <<up, mem, logs, synced, seq, cmd, todo, rec, out, issued, rwVars, envVars>>

\* The fsync of appendfsync always, then the reply.
Reply(c) ==
  /\ up = "up" /\ pc[c] = "append" /\ out[c] = {}
  /\ synced' = IF conf.always
               THEN [i \in Logs |-> IF rec[c].kind = "flush" \/ i = ShardOf[rec[c].keys[1]]
                                    THEN Len(logs[i]) ELSE synced[i]]
               ELSE synced
  /\ acked' = Apply(acked, rec[c])
  /\ pc' = [pc EXCEPT ![c] = "idle"]
  /\ UNCHANGED <<up, mem, logs, seq, cmd, todo, rec, out, issued, rwVars, envVars>>

\* The rewrite's task has run on the parked shard s.
Dumped(s) == rw \in {"dump", "swap"} /\ (s < rwlog \/ (s = rwlog /\ rw = "swap"))

\* Expiry or eviction in the shard goroutine: LogKeyGone logs a DEL.  A parked shard
\* still evicts after a task of the pause's holder.
KeyGone(k) ==
  /\ up = "up" /\ conf.evicts /\ mem[k] > 0
  /\ ~ Paused \/ Dumped(ShardOf[k])
  /\ mem' = [mem EXCEPT ![k] = 0]
  /\ acked' = [acked EXCEPT ![k] = 0]
  /\ seq' = seq + 1
  /\ logs' = [logs EXCEPT ![ShardOf[k]] = Append(@, Rec(seq + 1, "del", <<k>>, 1))]
  /\ synced' = IF conf.always THEN [synced EXCEPT ![ShardOf[k]] = Len(logs[ShardOf[k]]) + 1]
               ELSE synced
  /\ UNCHANGED <<up, connVars, rwVars, envVars>>

\* The everysec ticker; the kernel may write back at any time as well.
Fsync ==
  /\ up = "up" /\ ~ conf.always /\ \E i \in Logs : synced[i] < Len(logs[i])
  /\ synced' = [i \in Logs |-> Len(logs[i])]
  /\ UNCHANGED <<up, mem, acked, logs, seq, connVars, rwVars, envVars>>

-----------------------------------------------------------------------------
(* BGREWRITEAOF.                                                           *)

InFlight == Cardinality({c \in Conns : pc[c] # "idle"})

\* Mutant: do does not count its tasks.
ShardTasksNone == 0

ShardTasks == Cardinality({c \in Conns : pc[c] = "task"})

RwStart ==
  /\ up = "up" /\ rw = "off" /\ rewrites < conf.maxRewrites
  /\ rewrites' = rewrites + 1
  /\ rw' = "pause"
  /\ UNCHANGED <<up, mem, acked, logs, synced, seq, connVars, loads, rwlog, dump, envVars>>

RwPause ==
  /\ up = "up" /\ rw = "pause"
  /\ rw' = "s1" /\ loads' = <<>>
  /\ UNCHANGED <<up, mem, acked, logs, synced, seq, connVars, rwlog, dump, rewrites, envVars>>

\* PersistQuiesced: four loads, then the comparison.
RwLoad ==
  /\ up = "up"
  /\ \/ /\ rw \in {"s1", "s2"}
        /\ loads' = Append(loads, InFlight)
        /\ rw' = IF rw = "s1" THEN "d1" ELSE "d2"
     \/ /\ rw = "d1" /\ loads' = Append(loads, ShardTasks) /\ rw' = "s2"
     \/ /\ rw = "d2" /\ loads' = <<>>
        /\ rw' = IF loads[1] = loads[3] /\ loads[2] = ShardTasks /\ loads[1] = loads[2]
                 THEN "dump" ELSE "s1"
  /\ UNCHANGED <<up, mem, acked, logs, synced, seq, connVars, rwlog, dump, rewrites, envVars>>

\* One log: dump the shard ...
Dump(s) ==
  LET ks == SetToSeq({k \in Keys : ShardOf[k] = s /\ mem[k] > 0})
  IN [i \in DOMAIN ks |-> Rec(seq + i, "set", <<ks[i]>>, mem[ks[i]])]

RwDump ==
  /\ up = "up" /\ rw = "dump" /\ rwlog <= NLogs
  /\ rw' = "swap" /\ dump' = Dump(rwlog) /\ seq' = seq + Len(Dump(rwlog))
  /\ UNCHANGED <<up, mem, acked, logs, synced, connVars, loads, rwlog, rewrites, envVars>>

\* Mutant: the length of the old file is kept.
RwSwapOldLength ==
  /\ up = "up" /\ rw = "swap"
  /\ logs' = [logs EXCEPT ![rwlog] = dump]
  /\ rw' = "dump" /\ dump' = <<>> /\ rwlog' = rwlog + 1
  /\ UNCHANGED <<up, mem, acked, synced, seq, connVars, loads, rewrites, envVars>>

\* ... then write and sync the new file, and rename it.
RwSwap ==
  /\ up = "up" /\ rw = "swap"
  /\ logs' = [logs EXCEPT ![rwlog] = dump]
  /\ synced' = [synced EXCEPT ![rwlog] = Len(dump)]
  /\ rw' = "dump" /\ dump' = <<>> /\ rwlog' = rwlog + 1
  /\ UNCHANGED <<up, mem, acked, seq, connVars, loads, rewrites, envVars>>

RwEnd ==
  /\ up = "up" /\ rw = "dump" /\ rwlog > NLogs
  /\ rw' = "off" /\ rwlog' = 1
  /\ UNCHANGED <<up, mem, acked, logs, synced, seq, connVars, loads, dump, rewrites, envVars>>

-----------------------------------------------------------------------------
(* Crash and restart.                                                      *)

\* What a crash leaves of a log: at least what is synced; the record it cut
\* may be torn.
Remains(i) ==
  {SubSeq(logs[i], 1, n) : n \in synced[i]..Len(logs[i])}
    \cup {Append(SubSeq(logs[i], 1, n), TornRec(t)) :
            n \in synced[i]..(Len(logs[i]) - 1), t \in conf.tears}

\* mem, acked and the commands under way stay as they were, for Restart to be
\* compared with.
Crash ==
  /\ up = "up" /\ crashes < conf.maxCrashes
  /\ crashes' = crashes + 1
  /\ up' = "down"
  /\ \E f \in [Logs -> UNION {Remains(i) : i \in Logs}] :
       /\ \A i \in Logs : f[i] \in Remains(i)
       /\ logs' = f
       /\ synced' = [i \in Logs |-> Len(f[i])]
  /\ UNCHANGED <<conf, mem, acked, seq, connVars, rwVars>>

\* Manager.Start: replay, then openAOF goes on at the end of the same files.
Restart ==
  /\ up = "down"
  /\ \/ /\ \E i \in Logs : MayRefuse(logs[i])
        /\ up' = "refused"
        /\ UNCHANGED <<mem, acked, seq, connVars, rwVars>>
     \/ /\ \A i \in Logs : MayStart(logs[i])
        /\ up' = "up"
        /\ mem' = Replay(logs) /\ acked' = Replay(logs)
        /\ seq' = BaseSeq(logs)
        /\ pc' = [c \in Conns |-> "idle"]
        /\ todo' = [c \in Conns |-> {}] /\ out' = [c \in Conns |-> {}]
        /\ rw' = "off" /\ loads' = <<>> /\ rwlog' = 1 /\ dump' = <<>>
        /\ UNCHANGED <<cmd, rec, issued, rewrites>>
  /\ UNCHANGED <<logs, synced, envVars>>

-----------------------------------------------------------------------------
NoCmd == [kind |-> "flush", keys |-> <<>>]

Init ==
  /\ conf \in Confs
  /\ up = "up" /\ mem = Missing /\ acked = Missing
  /\ logs = [i \in Logs |-> <<>>] /\ synced = [i \in Logs |-> 0] /\ seq = 0
  /\ pc = [c \in Conns |-> "idle"] /\ cmd = [c \in Conns |-> NoCmd]
  /\ todo = [c \in Conns |-> {}]
  /\ rec = [c \in Conns |-> Rec(0, "flush", <<>>, 1)]
  /\ out = [c \in Conns |-> {}] /\ issued = [c \in Conns |-> 0]
  /\ rw = "off" /\ loads = <<>> /\ rwlog = 1 /\ dump = <<>> /\ rewrites = 0
  /\ crashes = 0

Conn(c) ==
  \/ Submit(c) \/ Flush(c) \/ HandlerEnd(c) \/ Stamp(c) \/ Append1(c) \/ Reply(c)
  \/ \E s \in Logs : RunTask(c, s)

Rewriter == RwPause \/ RwLoad \/ RwDump \/ RwSwap \/ RwEnd

Next ==
  \/ \E c \in Conns : Conn(c) \/ \E m \in conf.cmds[c] : Begin(c, m)
  \/ \E k \in Keys : KeyGone(k)
  \/ Fsync \/ RwStart \/ Rewriter
  \/ Crash \/ Restart

Spec == Init /\ [][Next]_vars

\* A command under way and a rewrite under way take their next step.
FairSpec == Spec /\ WF_vars(Rewriter) /\ \A c \in Conns : WF_vars(Conn(c))

-----------------------------------------------------------------------------
(* Properties.                                                             *)

AnyRec == [seq: Nat, kind: {"incr", "set", "del", "flush", "mid", "edge"},
           keys: Seq(Keys), val: Nat]

\* Every variable has its type; a log is synced at most to its end; the logs a
\* stamped record is still to reach are logs of the set.
TypeOK ==
  /\ conf \in Confs
  /\ up \in {"up", "down", "refused"}
  /\ mem \in [Keys -> Nat] /\ acked \in [Keys -> Nat]
  /\ logs \in [Logs -> Seq(AnyRec)] /\ synced \in [Logs -> Nat] /\ seq \in Nat
  /\ \A i \in Logs : synced[i] <= Len(logs[i])
  /\ pc \in [Conns -> {"idle", "begun", "task", "flush", "done", "append"}]
  /\ cmd \in [Conns -> Cmd] /\ rec \in [Conns -> AnyRec]
  /\ todo \in [Conns -> SUBSET Logs] /\ out \in [Conns -> SUBSET Logs]
  /\ issued \in [Conns -> 0..conf.maxCmds]
  /\ rw \in {"off", "pause", "s1", "d1", "s2", "d2", "dump", "swap"} /\ dump \in Seq(AnyRec)
  /\ loads \in Seq(Nat) /\ Len(loads) <= 3 /\ rwlog \in 1..(NLogs + 1)
  /\ rewrites \in 0..conf.maxRewrites /\ crashes \in 0..conf.maxCrashes

Quiet == up = "up" /\ rw = "off" /\ \A c \in Conns : pc[c] = "idle"

\* No log has records behind a torn one.
NoneBuried == \A i \in Logs : Tear(logs[i]) \in {0, Len(logs[i])}

\* The log reproduces the keyspace: with no command and no rewrite under way,
\* replaying the logs gives the memory, none of it twice and none of it missing
\* (the comment on aofSet.rewrite: a record can never be both reflected in the
\* dump and appended).  Excepted are eviction, which logs its DEL at once, ahead
\* of the record of a write that it may follow, and a log that has gone on
\* behind a torn record, which openAOF leaves in place.
LogMatchesMemory == Quiet /\ ~ conf.evicts /\ NoneBuried => Replay(logs) = mem

\* One seq, one record: two records with the same seq are the copies of one
\* broadcast, across any number of crashes and rewrites; replayAOF drops the
\* second of them on that ground.
SeqUnique ==
  \A r1, r2 \in Records(logs) : r1.seq = r2.seq => r1 = r2

\* The answered commands and those of the connections in S, executed.
WithPending(S) ==
  FoldSet(LAMBDA c, st : Effect(st, cmd[c].kind, cmd[c].keys, 1, Keys), acked, S)

\* With appendfsync always a restart after a crash succeeds and has the effect
\* of every command that was answered, each once, and of the others all of it
\* or nothing, with the exception of records behind a torn one.
RecoversAcked ==
  [][up = "down" /\ conf.always /\ NoneBuried =>
       /\ up' = "up"
       /\ \E S \in SUBSET {c \in Conns : pc[c] # "idle"} : mem' = WithPending(S)]_vars

\* A rewrite comes to its end, unless the process ends first: PersistQuiesced
\* finds the drained state, whatever commands the pause has caught.  FLUSHDB is
\* excepted: its shard tasks are not counted in persistShardTasks.
RewriteEnds ==
  (rw # "off" /\ \A c \in Conns : NoCmd \notin conf.cmds[c]) ~> (rw = "off" \/ up # "up")

\* The log is sound: well formed, its record numbers unique across crashes and
\* rewrites, and when no write is under way it replays to the memory (replayAOF).
LogSound == TypeOK /\ SeqUnique /\ LogMatchesMemory
=============================================================================
