# Ultima: a TLA+ model

Ultima is a Redis-compatible in-memory server in Go. One process keeps a
sharded keyspace; RESP, WebSocket, gRPC and REST front-ends feed commands to
one command engine. This directory models what is hard to test in it: the shard
goroutines and the pause behind transactions, blocking commands, persistence,
the gates a command passes, scripts and their VM pool, the data commands,
pub/sub over the push queue, resumable WebSocket sessions, and the account
store. Modules are checked with TLC on small instances, and the safety of eight of
them is proved with TLAPS for instances of every size.

Files: the component modules of section 2, an `MC*` module with instances for TLC,
`MC*_<run>.cfg` for each run (and for some counterexamples of section 5), a
`*Proofs` module beside each component that is proved (`Keyspace`, `Pause`, `Block`,
`Save`, `Conn`, `Auth`, `Resume`, `Push`), and `PROJECT.json`, which maps every
definition to the source lines it models.

## 1. Inventory

Paths are under `src/`.

### Shard keyspace: `lib/shard/shard.go`, `evict.go`, `dump.go`

*State.* Per shard: an entry per (database, key) with value, version, TTL,
generation and size; tombstones, a bounded table of versions of deleted keys;
an invalidation epoch per database; an expiry heap; a memory estimate.
*Operations.* Store, Touch, Delete, Lookup (with passive expiry), PushExpire,
sweep, evict, flushDB. All but FLUSHDB's keyspace swap run in tasks on the
shard's goroutine. *Hard.* A key may go and come back at any version; heap items
outlive the TTL that made them; the estimate is adjusted at a dozen places;
FLUSHDB works outside the queues. *Correct when* a WATCH notices every change,
the sweep takes only keys that are due, every TTL can be found by the sweep, and
the estimate is the sum of what the live entries were booked at.

### Scheduler and pause protocol: `lib/shard/shard.go`

*State.* A bounded queue and a stash per shard, the lock txMu, pause tokens.
*Operations.* DoTok (one shard), DoMultiTok (a goroutine per shard), PauseAll
and resume, Close. *Hard.* Pauses, full queues, fan-outs and shutdown wait for
each other. *Correct when* tasks run once, in order, only the owner's during a
pause, and every caller gets an answer.

### Dispatch, transactions and scripts: `lib/commands/engine.go`, `table.go`, `tx.go`, `eval.go`, `script.go`, `server.go`, `lib/scripting`

*State.* Per connection: protocol, authentication, subscriptions, the MULTI
queue with its error flags, WATCH references, `inExec`, the pause token. Global:
the script cache, the one running script, the pool of idle VMs with its epoch,
the password, maxmemory. *Operations.* Execute with its gates in a fixed order
(command table, authentication, arity, subscribe mode, BUSY, OOM, MULTI queue), EXEC
under the pause, EVAL inside or outside EXEC, redis.call, SCRIPT LOAD, FLUSH and
KILL, HELLO, AUTH, RESET, QUIT, CONFIG SET. *Hard.* Nesting: commands under a
pause must not wait for it, and what ends inside EXEC must not end EXEC's pause;
VMs are checked out across SCRIPT FLUSH; a kill races the script's first write.
*Correct when* EXEC runs only over unchanged watched keys and never after a
refused command, the pause has exactly one owner and always ends, and a VM is
never shared or kept past its limits.

### Blocking commands: `lib/commands/block.go`, `list.go`, `zset.go`

*State.* A FIFO of waiters per key, a one-slot signal channel per waiter.
*Operations.* Attempt-and-register key by key, park in a select over signal,
timer and shutdown, deregister, try again; pushes signal the first waiter.
*Hard.* A signal meets a waiter that is leaving, is signalled twice, or waits on
another key. Waiters for lists and for sorted sets share the FIFO. *Correct when* nobody stays
parked beside an element it waits for.

### Collections and their commands: `lib/types`, `lib/commands/strings.go`, `keys.go`, `list.go`, `hash.go`, `set.go`, `zset.go`

*State.* Values in two encodings each (indexed hash, intset and map set,
dictionary with skip list, quicklist window), types, TTLs.
*Operations.* Some 110 handlers, of which LMOVE, SMOVE and the scans take
several tasks or calls. *Hard.* Two structures per value that must agree; the
int64 limits of counters and deadlines; what the append-only file records of a
random or relative command; other commands between the tasks of one. *Correct
when* reads agree with contents in every encoding, no empty collection stays,
every change is announced and its record replays to it, and a move moves once.

### Append-only file: `lib/persist/aof.go`, `replay.go`, `manager.go`, `lib/commands/aof.go`

*State.* A log per shard, one record counter, counters of commands in flight.
*Operations.* A command is captured after its handler, numbered, appended, maybe
synced, answered; BGREWRITEAOF pauses the engine, waits for the drained state,
replaces log after log; start merges the logs by record number. *Hard.* The
capture happens after the mutation on another goroutine; a crash may come
between any two steps. *Correct when* replay gives the memory and recovery has
what was answered, once.

### Snapshots and save rules: `lib/persist/snapshot.go`, `manager.go`

*State.* The snapshot and one temporary file, a count of unsaved writes, the
time of the last save. *Operations.* SAVE (under a pause), BGSAVE (shard by
shard), save rules on a ticker, a last save at Close, load at start. *Hard.*
Savers share one file name; writes go on during BGSAVE. *Correct when* the file
always loads, never goes back, rules fire and a clean shutdown loses nothing.

### Pub/sub, MONITOR, notifications: `lib/pubsub`, `lib/pushq`, `lib/respserver`, `lib/commands/pubsub.go`, `monitor.go`, `notify.go`, `clients.go`

*State.* Registries of channels and patterns; per connection a push queue (ring,
byte ceiling, overflow latch, wake signal), a writer goroutine that takes over
the output at the first subscription, the MONITOR set. *Operations.* Argument by
argument (un)subscription, PUBLISH as a snapshot of the recipients under the
lock and deliveries after it, RESET, QUIT, slow-consumer disconnect, CLIENT
KILL. *Hard.* Deliveries of several publishers interleave with replies,
acknowledgements and closes; a writer is stuck in a write; a wake is lost.
*Correct when* a client reads what was issued to it, in that order, an
acknowledged subscriber gets every message, and nobody waits for a slow reader.

### WebSocket sessions: `lib/wssession`, `lib/wssrv`, `clients/go/ultima/ws.go`

*State.* Per session: push counter, bounded replay buffer, the attached
connection, retention timer, aborted sequence numbers; on the client the last
push seen, the pending calls and the supervision flag. *Operations.* Resume with
replay or gap, takeover, detach, expiry; the client's dial, resume,
resubscription and Close. *Hard.* A connection dies in the middle of its
handshake, replies die in its queue, and a timer fires beside a resume. *Correct
when* the application is handed the session's stream without loss or is told of
the gap, and sessions and connections end.

### Accounts and tokens: `lib/auth/accounts.go`, `service.go`

*State.* Accounts with class, password, TOTP state; families of single-use
refresh tokens; one file written after each change. *Operations.* Login, Refresh,
Logout, ChangePassword, TOTP enrolment, administration. *Hard.* A request is
several calls of the store with bcrypt in between; a write fails after the
memory changed; restarts bring the file's state back. *Correct when* an
administrator remains, a token is exchanged once, and a revocation is final.

### Everything else

Bursts (`burst.go`), the slowlog, the snapshot and RESP codecs, the gRPC and REST
front-ends, configuration and startup, other clients and tools, generated and
third-party code: see section 6. `PROJECT.json` lists all components with their
status and, under `hazards`, what can go wrong and where.

Connections call the engine; the engine submits tasks to shards and waits;
shards call back into persistence for keys that expire or are evicted; the
persistence manager pauses the engine through the shards; handlers publish
events to the broker, whose deliveries end in the connections' queues.

## 2. Modules

**Keyspace.** `ks` is the state of all shards; `watch`, `phase`, `chk` and
`flush` belong to the connections; `holder` is whoever is between PauseAll and
resume. The shard operations are operators from state to state under their names
in the code (`Store`, `Touch`, `Remove`, `tombstone`, `PushExpire`, `FlushDB`);
an action is one shard task or one step of a connection. EXEC checks one
reference per action. FLUSHDB is `FlushSwap`, then one `FlushShard` per shard.
Values have a kind. An entry is booked at the size of its value, or, while it is
`fresh`, at the size of an empty collection: RPUSH, SADD, HSET and the destinations of
LMOVE and SMOVE store a new collection empty and fill it without a Touch (`Fill`).
`touched` in a reference is history, not code: the content changed between WATCH
and the pause. Scripts and transactions issue the same commands under `holder`.

**TaskBoard** is the promise of the scheduler: per shard the submitters of pending
tasks, which of them is older than which, and an owner; a task runs when no older
one is left among those that may run; while a connection owns the engine, only its
tasks may; the promise ends when the engine is closed. **Pause** is the
protocol: queues with a capacity, park and unpark messages, stashes, txMu and its
token, Close. `Board` is the refinement mapping: a task is pending while its
submitter waits for it, and older than another when it comes before it in the
shard's stash followed by its queue (`Line`, `Before`). The other modules use pauses at the level
of `TaskBoard`.

**Block** has the waiter FIFOs, signals, and a program counter per connection
through the attempt, the park, the deregistration and LMOVE's three tasks. A key
is its type, list or sorted set, and its number of elements; an attempt on a key of the
other type ends with WRONGTYPE. Strings over such keys are left out.

**Aof** has one action per step of a command between its start and its answer
(`Begin`, `Submit`, `RunTask`, `HandlerEnd`, `Stamp`, `Append1`, `Reply`), of a
rewrite (`RwStart` to `RwEnd`, with the four counter loads of PersistQuiesced as
four steps, and a shard's dump and the swap of its file as two), and `Crash` and `Restart`. A key is a counter; INCR stands for
commands that must not be repeated, SET for those that may, DEL for multi-key
ones, FLUSHDB for broadcasts. What a crash leaves of a file is external: at least
what was synced, maybe a torn record.

**Save** has three savers (BGSAVE's goroutine, a SAVE, Close) in one sequence of
file operations with descriptors, so that a file renamed under a writer is
followed. A shard is the number of its writes.

**Objects, Db, Strings, Lists, Hashes, SetsCmd, ZSets, Commands, Data.**
`Objects` has the representations: a string is an integer of a scaled-down int64
(`IntMax`), an infinity or a `Word`; a hash its insertion-ordered pairs with the
field index of the large encoding; a set its members and encoding; a sorted set
dictionary and skip list (a sequence: the order of its elements), with the binary
searches that read it. `Db` has
entries and the shard calls a handler makes. The command modules translate each
handler into an operator from a database and arguments to the reply, the new
database and the events posted. `Commands` is the command table and the rewriting
of an executed write into its record. `Data` runs them: clients, expiry, `silent`
(keys that changed without an event), `rep` (the database that a restart at the
clock `BootAt`, later than any command, rebuilds from the records), `lapsed` (keys that
had a deadline which is past by then), and LMOVE, SMOVE and the scans task by task between other commands.

**Conn** is Execute with its gates, the transaction queue, EXEC's loop, scripts
with their calls, kill and deadlines, and connection modes; commands on keys are
one step in it. It extends **VmPool**, the pool of idle VMs in `lastIdle` order
with checkout, release and flush. A script's own queue is the set of its idle VMs,
and the one a checkout takes is the hottest, the last of them in `lastIdle` order.
A new VM is built while fewer than `NVms` are in use, a bound. The gates are one
chain of conditions in the order of the code, since the first that applies answers.

**Broker** has the registries and **PushQ** the ring as a value with head, count
and doubling capacity; **Push** composes them with the connections: a command is
run in steps between which others publish, frames go directly or through the
writer's batches, and a close is hard (slow consumer, kill) or graceful (QUIT).
`issued` and `must` are history: the frames a client was sent in the order of
issue, and the subscribers a publish owes.

**Session** is one session as a value under its lock; **Resume** composes
sessions, the server's connection goroutines, a network that may cut a
connection, and the Go client with its supervisor. **Stream** is the promise to
the application; `StreamOf` in `Resume` maps the session's pushes and what the
client was handed onto it.

**Accounts** is the store's methods as functions of its value; **Auth** runs
requests of concurrent callers call by call, with the file, failing writes,
crashes and reboots. `handed`, `uses`, `ended` and `dropped` are history: the tokens
that were answered, how often each was exchanged, and the families that were revoked or
went with their account.

`Pause`, `Block`, `Aof`, `Save`, `Data`, `Conn` and `Push` take their workload and
settings from a variable fixed in `Init` among the members of a CONSTANT, so that
one run covers several configurations.

## 3. Runs

| Run | Instance | Properties |
|---|---|---|
| `watch` | 2 connections, 2 keys on one shard, one tombstone slot, every command, EXEC, EVAL, plain FLUSHDB | `TypeOK`, `WatchSound`, `ExecSound` |
| `expiry` | 1 connection, 2 keys, 2 sizes, clock to 3, eviction on, FLUSHDB inside EXEC or EVAL | `IndexesAgree`, `SweepTakesOnlyDue` |
| `pause` | 3 connections, 2 shards, queues of 1; two workloads with Close at any time, one without | `PauseSound`, `ImplementsBoard`, `EveryCallReturns`, `StashedIsServed` |
| `wakes` | three configurations of `Block` | `WaitersSound`, `PlainWakes`, `ParkedIsServed` |
| `log` | three configurations of `Aof` | `LogSound`, `RecoversAcked`, `RewriteEnds` |
| `dup` | one INCR, one rewrite | violation of `LogMatchesMemory` |
| `snapshot` | four configurations of `Save` | `SaveSound`, `SavedStays`, `RuleFires`, `EverySaveEnds` |
| `data` | thirteen configurations of `Data`, one or more per family of commands | `StoreSound`, `ChangesAnnounced`, `ReplicaFollows`, `MovesOnce`, `ScanComplete` |
| `conn` | 2 clients, 2 scripts, 3 VMs, a pool of 1; four mixes: transactions, the pool, scripts in EXEC, connection modes | `TxSound`, `PauseHeld`, `PoolSound`, `CommandEnds` |
| `push` | 2 clients, rings of 2, a ceiling of 5 bytes, batches of 2; seven cases from a joining subscriber to a killed one | `StreamSound`, `AckedReceives`, `RegistryAgrees`, `PublishEnds`, `Drained` |
| `session` | 2 connections, 2 sessions, 3 pushes, a replay buffer and a queue of 2 | `SessionsSound`, `ImplementsStream`, `SessionEnds`, `DeadDetaches` |
| `auth` | 2 accounts, 2 families of 3 tokens, 2 callers, 3 requests, 1 failed write or crash | `AdminRemains`, `SingleUse`, `RevokedStays` |

What each one shows is said in `PROJECT.json`. Several properties are
conjunctions of named parts that answer one question (`StreamSound` is
`TypeOK /\ QueuesOk /\ IssueOrder /\ SelfAfterReply /\ QuitAnswered`); a part can
be given to TLC by itself when one fails. Each property has a mutant in
`PROJECT.json`: a change a bug in the code would make (a version that starts
over, a missing fsync, a signal nobody gets, a refresh that does not retire its
token) under which TLC finds the property violated. The modules define further
such mutants, next to the definition they change, that reach the other conjuncts.

**Bounds.** *Keyspace*: versions to 3, epochs to 2 and one tombstone slot for two
keys are the least with which a key is deleted, its tombstone lost to the other
key's, and the key created again at the version a WATCH holds. Bounds cut
behaviours off (`InBounds`); no property mentions them. *Pause*: queues of one
slot with two shards make every send wait somewhere; three connections are a
pause holder, a waiting pauser and a bystander. *Block*: three waiters and three
elements let a wake be passed on twice; lists and sorted sets meet on the same keys in
the two configurations with two keys; two clients and two keys suffice for the
undo of a partial registration and for LMOVE's races. *Aof*: two logs and two
crashes, so that a log written after a recovery is recovered again; three commands
before and between. *Save*: two shards, so that a write falls between the dumps of
one BGSAVE; one failing operation and one crash at every point.

*Data*: integers from -8 to 7 put every overflow of INCR, HINCRBY and the
deadline arithmetic within reach; encodings change at the third element
(`HashCap`, `IntsetCap` 2), so that both and the conversion occur with the three
and four elements of the configurations; two keys are what commands of several
keys need; the handlers' clock stops at 3 and the restart's stands at 4, so that there
are deadlines on both sides of it; two connections what their tasks need to interleave. *Conn*: a
transaction of two queued commands can have one refused and one not, or a script
and what follows it; three VMs and a pool of one let one be idle, one leased and
one evicted. *Push*: the ring of two grows and wraps, five bytes overflow under
three publications, batches of two split a queue of three. *Resume*: the first
connection is cut anywhere, the last one is not, so that the outcome is read off
it; a buffer of two loses a push of three, which is the gap. *Auth*: an
administrator and another account, three tokens for two exchanges and a reuse,
and one fault between any two calls.

Where a run is symmetric in connections or keys, symmetry is used for safety
only. `push` checks deadlock: only when every program is over may nothing happen
(`Over`). Elsewhere `CHECK_DEADLOCK FALSE`: clients may stop, and the bounds stop
them.

**Fairness.** *Pause*: goroutines that can run do (weak fairness: the scheduler is
preemptive); senders that wait for room in a channel are strongly fair since Go
queues them FIFO; a command under a pause ends and its holder resumes (`defer
resume()`). *Block*: a command under way takes its next step; neither timers nor
clients are fair. *Aof*: commands and the rewrite take their steps; crashes and
restarts are not fair. *Save*: savers, Close, captures and the ticker go on; a dump
kept waiting by pauses is strongly fair because it lies in the shard's stash, which
is drained before the shard parks again (`Pause`, `StashedIsServed`). *Conn*: a
command under way goes on; those that take txMu are strongly fair, since Go's mutex
hands itself to a waiter that has starved for a millisecond, and a script ends by
itself or by the hard deadline. *Push*: handlers and writers go on, a writer whose
client does not read excepted. *Resume*: the goroutines of server and client go on,
a broken socket is noticed, timers run out, frames on an intact connection arrive;
the network's cuts, publishers and the application are not fair. `Data` and `Auth`
are checked for safety only: a command and a request are bounded sequences of steps.

**Exceptions in properties.** Some properties hold only where the code's own
exceptions do not apply; each names its exception. `WatchSound` and `ExecSound`
except FLUSHDB's window. `ImplementsBoard`, `EveryCallReturns` and the control
messages in `PauseSound` end at Close. `LogMatchesMemory` excepts eviction and
records behind a torn one, and its configurations with a rewrite and no eviction use
commands that may be repeated (`dup` is the other case); `RecoversAcked` assumes appendfsync always; `RewriteEnds`
excepts FLUSHDB. `PlainWakes` and `ParkedIsServed` are about pops of one type
on one key without timeouts. `SnapshotLoads` and `SavedStays` assume that saves do not overlap: only
BGSAVE, or SAVE and Close without it; `CleanMeansSaved` and `FinalCovers` that there is no BGSAVE. `IndexesAgree` compares the memory estimate with
what the entries were booked at, not with their sizes. `ReplicaFollows` is about the
configurations with `aof`, which leave out BLMPOP and BZMPOP and the deadlines past the
int64 range, and excepts the keys in `lapsed`; a record is rewritten at the clock
reading of its handler. `SingleUse` excepts the families in `dropped`; `QueueOrder` is about one mover, `MembersKept` about
moves in one direction and `ScanComplete` about encodings with a fixed order.
`RefusedAborts` is about the errors the code counts as refusals (unknown command,
arity, OOM), not about BUSY or NOAUTH. Section 5 says what happens otherwise.

## 4. Proofs

Every theorem below is about `Spec`, for every number of connections, shards, keys
and so on, for every bound, and for every configuration the constants allow.

| Module | Theorem | What it states | From |
|---|---|---|---|
| `KeyspaceProofs` | `TypeCorrect`, `WatchIsSound`, `ExecIsSound` | `[]TypeOK`, `[]WatchSound`, `[]ExecSound` | `ConstAssumption` |
| | `SweepIsDue` | `SweepTakesOnlyDue` | |
| | `IndexesAreSound` | `[]IndexesAgree` | `~ PlainFlush` |
| `PauseProofs` | `ControlMessagesMatch` | `[]PauseSound` | `PauseAssumption` |
| | `PauseImplementsBoard` | `ImplementsBoard`: `Pause` refines `TaskBoard` | |
| `BlockProofs` | `WaitersAgree`, `PlainPopsWake` | `[]WaitersSound`, `[]PlainWakes` | `BlockAssumption` |
| `SaveProofs` | `SavingIsSound`, `SnapshotsGoForward` | `[]SaveSound`, `SavedStays` | `SaveAssumption` |
| `ConnProofs` | `TransactionsAreSound`, `PoolIsSound` | `[]TxSound`, `[]PoolSound` | `ConnAssumption`, |
| | `PauseIsOwned` | `[]PauseOwned` | `PoolAssumption` |
| | `PauseIsHeld` | `[](Unmixed => PauseHeld)` | |
| `AuthProofs` | `AdminIsKept`, `TokensAreSingleUse` | `[]AdminRemains`, `[]SingleUse` | `AuthAssumption`, |
| | `RevocationIsFinal` | `RevokedStays` | `AccountsAssumption` |
| `ResumeProofs` | `SessionsAreSound` | `[]SessionsSound` | `ResumeAssumption`, |
| | `ClientStream` | `ImplementsStream`: `Resume` refines `Stream` | `SessionAssumption` |
| `PushProofs` | `Streams`, `Registry` | `[]StreamSound`, `[]RegistryAgrees` | `PushAssumption`, |
| | `Acknowledged` | `[]AckedReceives` | `PushQAssumption`, `BrokerAssumption` |

The assumptions type the constants and say no more of the code than this: there is
a shard and a queue has a slot, no connection is `NoConn`, a blocking command has a
key, an EVAL line names one of the scripts, the accounts are finitely many and the
administrator is one of them. A configuration is any record of the right type; what
a property promises only of some configurations is in the property (section 3).

None of the properties is inductive. Each proof has an invariant of named parts, one
step per action with one step per part the action can disturb, and ends with the
temporal rule. The invariants were given to TLC on the instances of section 3 first.

**Keyspace.** A watched key has an epoch and a current version (its entry's, or
its tombstone's, or 0). Every shard operation takes the state from `st` to `st2`
with `Adv(st, st2)`: epochs never fall; and while a key's epoch stays the same its
version never falls and rises whenever its content changes. `Adv` is reflexive and
transitive and is proved once per operation (`RemoveGood`, `StoreGood`,
`TouchGood`, ...). The tombstone overflow is where it is delicate: the table is
cleared, so versions fall, and every epoch of the shard rises in the same task.
`WatchSound` speaks only of touched references; the invariant is `RefInv`: every
reference is at or behind the present (epoch, version), and strictly behind if it is
touched and no FLUSHDB is pending on its key. `StepForward` lifts `Adv` to steps,
with FLUSHDB as the only step that breaks it, and pending in exactly that window.
`ExecSound` needs two more: `HoldInv`, a connection inside EXEC or EVAL holds the
pause, and `ExecInv`, references that EXEC has already checked stay clean, or are
under the pending FLUSHDB of another connection, while others wait.

The two indexes of a shard rest on `Books`: every live entry is booked at its weight (the
size of its value, or of an empty collection until its first Touch); every heap item has a deadline; a key with a TTL has the item of its present
generation on the heap; and, save for the shards and databases of a set `X`, the
estimate is the sum over the live entries, which are finitely many (proved, not
assumed: the slots may be infinitely many). Each operation is shown to leave the
estimate behind by exactly what one slot gained or lost (`StoreBooks`, `TouchBooks`,
`RemoveBooks`, ...). `X` is `Unbooked`: the shards a FLUSHDB inside EXEC or EVAL has yet
to reach, whose tables are already empty. Under the pause nobody writes to them
(`FlushInv`, `HoldInv`), so that the shard task, which sets the estimate to 0, is right.
A FLUSHDB outside EXEC and EVAL has no pause to rely on, whence the hypothesis
`~ PlainFlush`, which is the configuration of the run `expiry`; `SweepIsDue` needs
nothing of the kind, since a sweep compares generations and looks at no sum.

**Pause** (`PauseInv`). `HolderInv`: between lock and unlock is one connection, with
a token. `PhaseInv`: how far that connection's loop over the shards has come decides
what each shard does: parked with a queue of tasks only (`Kept`); a park message on
its way, behind an unpark message if one is still queued (`Called`); or free, with at
most an unpark message (`Free`). So an unpark message never meets a running shard and
a pause never a foreign park. `LineInv`: stash and queue of a shard hold exactly one
task of each connection that waits there. The refinement takes every step to a step
or a stutter of `TaskBoard`: a submission is a send, a run is `run`, `drain` or the
holder's task under the pause, and the owner changes when the last shard is parked
and when its holder begins to resume. The promise ends with Close, which is where the code's
ends.

**Block** (`BlockInv`). Where each connection is in its command (`PlaceInv`), which
FIFOs it must be in (`MustInv`: all keys while it is parked, those before the present
one while it tries) and, until shutdown, may be in (`MayInv`). `PlainInv` carries the
wake: as long as a key has elements and a parked waiter, some client is on its way to
that key, because it holds the signal, is about to try, or is about to leave and will
pass the signal on. `KindInv` adds the types: a key has one exactly while it has elements,
and in a configuration of one type every key and every command has that type, so that
the WRONGTYPE exit, which passes nothing on, is not taken.

**Save** (`SaveInv`). `FileInv` says what a saver knows at each stage (a descriptor
only while it writes, then its own complete and synced file under the temporary name)
and that a saver's segments lie between the snapshot's and the data's. It holds
in the configurations with one save at a time (`OneAtATime`: only BGSAVE, or SAVE and
Close without it), which is what `SnapshotsGoForward` is about too, and needs `Turns`: SAVE
and Close exclude each other by the pause, and a shutdown save that finds a SAVE under
way has dumped nothing yet. `DumpInv` and
`CleanInv` add what SAVE and the shutdown save have dumped, for the two clauses about
lost writes. A clean shutdown saves only when there is a save rule, as in `Close`.

**Conn** (`ConnInv`). Per connection: the queue and its error flags (`QueueOk`), the
program counter against `multi`, `inExec`, token and VM (`PlaceOk`, `TxOk`), and that
it holds the engine exactly while it has a token; for the pool, that idle and leased
VMs are disjoint and the leased ones are the connections' (`Lent`), with the bounds of
`PoolSound`. `PauseOwned` holds for every mix. `PauseHeld` does not when a client
queues both a script and a blocking command in one MULTI (section 5, `MCConn_nested`);
`Unmixed` is the complement of exactly that, and `PauseIsHeld` covers all other mixes.

**Auth** (`AuthInv`). `AdminInv`: an enabled administrator in memory and in the file;
`AdminCount` relates the count of the code's guard to there being another. `SessionInv`
relates families, tokens and requests in flight, in memory and in the file: a token
that was exchanged is behind its family's current one or its family is revoked, a
family that ended is revoked in both, and every token a request carries was handed out.
`Kept` is what makes `SingleUse` say that the file knows every token that was answered: in
memory and in the file each such token has its family, unless the family went with its
account; a login or a rotation that answers has saved, and one whose save failed does not
answer.

**Resume** (`IInv`). `Buffers`: a live session's replay buffer is the end of its stream,
numbered up to its counter. `Owned`: a session's connection and a connection's session
name each other, unless the connection's socket is down (a takeover, an expiry and the
end of a teardown all close it first). `Hellos`: a hello is the only frame on the way
into a connection that has no session yet.

The stream rests on `Streams`. `Way` is what the client has yet to receive from a
connection: the frames in the network and, while the socket is up, those in the queue
behind them. In the client's connection the pushes of `Way` are the next ones of its
session after `cl.last`, without a gap (`Run`), and while the socket is up and the
connection has a session they reach the end of its stream (`Full`): that is what makes
the next publish fit, and why a queue that refuses a frame must close the socket. An
accepted resume appends its answer and the replay to a `Way` without pushes; the buffer
and the gap check make that the pushes after `cl.last` (`ReplayIs`, `RunReplay`).

What the client believes is the rest. During a handshake (`Handshake`) the client's hello
or its answer is under way, and says the truth: an accepted session is the client's own,
or, when it has none, a fresh one with an empty stream (`Offered`), so that taking it is no
step of `Stream`. A session offered so stays empty since nobody has subscribed it
(`NeverSub`) and attached since nobody else can name it (`Young`); a SUBSCRIBE under way is
the supervisor's own call on the session the client has (`Subscribing`). These are the facts
that connect the server's sessions to a client that follows them over lossy connections;
without them neither the refinement nor `expired => ~subs` is inductive.

The steps fall into three kinds. Most of the server's, and a cut, only take frames
from a way or add frames to its end (`Quiet`, `Calm`), which keeps the invariant by one
argument; `Read` and the client's steps have a lemma each. For the refinement a publish
to the client's session is `Push`, a push handed to the application is `Receive`,
`Expired` is `Gap`, and every other step leaves the mapped state alone (`StepInv`).

**Push** (`IInv`). Most of it is `Local`, what is true of one connection whatever the
others do: where its handler is in its program (`Place`), whose the frames are that a
command has to say (`Said`), and `Stream`: while the socket is up, the frames issued to a
client are those on the wire, those of the handler's own write, those in the writer's
batch and those in the ring, in this order, and a queue that refuses a frame belongs to a
socket that is down. `OwnOk` and `QuitOk` order a publisher's own message behind its
reply and a close mark behind the answer to QUIT, also while they are still being said.
`AckOk` says that a subscription whose ack is the last word on it is registered, unless
its end is already among the frames being said. Of two parties at a time there are
`Registered` (the broker's registry is what the connections hold), `Pushing` (whoever is
about to be given a message has a push writer) and `Entitling`: whoever was entitled to a
message when its PUBLISH began has it, is among the recipients the publisher still has to
serve, or is lost (`Owed`). `AckedReceives` needs all of these: the ack read off the wire
puts the client into the registry (`AckOk`, `Registered`), the registry into the copied
recipients (`SnapshotIs`), and these into the stream.

The ring is the data structure below. `PutRing`, `GrowRing`, `PopRing` and `EnqueueRing`
say what `Contents` is after each operation, wherever the head stands: it is longer by the
frame at its end, the same, or shorter by its head, and a new array starts at slot 0. The
bytes are the sum of the sizes in the ring, whose splitting at either end (`SizeStep`,
`SizeShift`) is proved from the recursive function that defines it.

A step is one of three kinds. One connection moves and the registry stays (`Apart`,
`StepInv`): then `Local` for that one, and that nothing said is forgotten (`Held`), is
all there is to show. A step registers or unregisters (`RegisterInv`). Or a publisher
delivers to another connection's queue, the only steps in which two connections move
(`AllInv`, `TurnInv`, with `OwedStill` for the promise).

*Lemmas.* Induction over a set of naturals (`SetInduction`) comes from the well-founded
induction of the library for a fixed relation; with `Loop`, in `BlockProofs` and
`ResumeProofs`, an invariant is carried through a fold whose rounds are given as a
function. Each module keeps the lemmas about its operators beside the proofs that use them (sums in `KeyspaceProofs`, queues and stashes in `PauseProofs`, sequences of
distinct VMs in `ConnProofs`, segments in `SaveProofs`, ways and streams in `ResumeProofs`, rings in `PushProofs`).

That a sum over a set of keys splits at one key (`SumsSplit`, and `TallyChange` on it) is
proved from the definition of `MapThenFoldSet` by a least set on which it would fail.

*Only model-checked.* What the folds of the command modules compute for every input
(`Data`): the induction theorems of the library take an operator, which the provers
cannot instantiate, and these folds have no fixed relation to argue by instead. `Aof`:
`LogMatchesMemory` and `RecoversAcked` do not hold of every workload (section 5: run
`dup`), and where they hold they rest on what `Replay` computes, which is again
induction over data; that record numbers are unique is still to be proved (section 7).
Everything about liveness, in every module: the proof system has no rules for fairness
and ENABLED within its reach.

## 5. Where code and comments disagree

The run `dup` shows one: a rewrite can dump a command's effect and have its record
appended after the dump, since the command looks drained once its task has run;
`PROJECT.json` quotes the lines. The same modules give the others. These are run by
hand, with the one property TLC then violates:

| Instance | Property | What the code does | What is said of it |
|---|---|---|---|
| `MCKeyspace_flushwatch` | `ExecAbortsOnTouched` | FLUSHDB swaps the keyspace before the shards bump their epochs; a key created in between can have the version a WATCH holds, and EXEC commits | tx.go:86 "a watched key touched since WATCH aborts EXEC" |
| `MCBlock_mixed` | `NoMissedWake` | list and sorted-set waiters share a key's FIFO: a woken one of the other type replies WRONGTYPE and passes the wake on to nobody, and the next stays parked beside its element | docs/implementation-history.md:121 "so no missed wakeups" |
| `MCBlock_timeout` | `NoMissedWake` | a waiter that is signalled and takes its timer branch drops the wake | docs/implementation-history.md:121 "so no missed wakeups" |
| `MCSave_overlap` | `SnapshotAtomic` | SAVE or Close during BGSAVE share the temporary file; one renames what the other has just truncated | snapshot.go:31 "(atomically, via a temp file + rename)" |
| `MCSave_boot` | `RuleFires` | without a save, elapsed time is measured from now, so no rule fires before a first SAVE or BGSAVE | manager.go:393 "no save yet: measure from boot" |
| `MCConn_nested` | `NoParkUnderPause` | EVAL inside EXEC clears `inExec` when it ends; a blocking command queued behind it parks under EXEC's own pause | eval.go:115 "blocking commands take their non-blocking fast path" |
| `MCConn_flush` | `FlushRecycles` | a VM built before SCRIPT FLUSH and first released after it is given the new epoch | pool.go:30 "a SCRIPT FLUSH landed while it was leased (stale epoch)" |
| `MCPush_kill` | `KillEnds` | a connection whose writer is stuck in a write is closed only when that write ends | clients.go:100 "KillClient closes the connection with the given id" |
| `MCResume_expiry` | `AttachedStays` | a retention timer that has fired expires the session that a resume has just attached | session.go:257 "if no attachment happens within the window, the session expires" |
| `MCResume_reconnect` | `Reconnects` | a drop during the resubscription, or before the supervision flag is reset, starts no new supervision | ws.go:113 "reconnects automatically until Close" |
| `MCAuth_totp` | `ProvenSecrets` | a confirmation promotes whatever secret is pending when it gets the lock, also one staged after the code was checked | accounts.go:33 "only after a valid code confirms it" |

`MCKeyspace_flushwatch`, `MCConn_nested` and `MCPush_kill` are configuration files. For the others, change a copy of a run's file and leave it only the
property named: `MCBlock_timeout` is `MCBlock_wakes.cfg` with `SPECIFICATION Spec` and
`Confs <- TimedConfs`, `MCBlock_mixed` the same with `Confs <- MixedConfs`;
`MCSave_overlap` is `MCSave_snapshot.cfg` with `SPECIFICATION Spec` and `Confs <- OverlapConfs`; `MCSave_boot` is `MCSave_snapshot.cfg` with `Confs <- BootConfs`;
`MCConn_flush` is `MCConn_conn.cfg` with `SPECIFICATION Spec` and `Mixes <- FlushMixes`;
`MCResume_expiry` is `MCResume_session.cfg` with `SPECIFICATION Spec`;
`MCResume_reconnect` is `MCResume_session.cfg` with `NConns = 3`, `MaxPush = 1` and `MaxSeq = 2`;
`MCAuth_totp` is `MCAuth_auth.cfg` with `NSecrets = 3` and `MaxFaults = 0`.

Further ones met while modelling, which the modules' exceptions name or leave out:

*Keyspace and scheduler.* A FLUSHDB of another connection empties the keyspace while
EXEC holds the pause; a write between its swap and its shard task stays out of the
memory estimate and, if it set a TTL, out of the expiry heap. Close during a pause
leaves tasks in a queue unanswered, and the holder's unpark message then meets
`run`, which closes a nil channel.

*Blocking.* A waiter on two keys absorbs two signals and serves one; ZUNIONSTORE and
its kin wake nobody; BLMOVE whose source is emptied under it parks unregistered; a
pop between LMOVE's peek and its cut delivers one element twice.

*Persistence.* An eviction's DEL can be numbered before the write it follows; a shard
still evicts after the rewrite's own dump task, and that DEL goes into the file about to be
replaced, so that the key is back after a replay; a crash
between two renames of a rewrite loses a multi-key DEL; records behind a torn one are
lost; a record torn between two bulks keeps the server from starting; a FLUSHDB
caught by a rewrite's pause keeps both waiting for ever. SAVE during BGSAVE can rename
a truncated file over the snapshot; BGSAVE clears the count of writes made during it,
and a shutdown then skips its snapshot. SAVE inside MULTI waits for the txMu that its
own EXEC holds (persist.go:24).

*Data commands.* BLMPOP and BZMPOP are logged as LMPOP and ZMPOP, which the table does
not have, so that what they popped is back after a replay (aof.go:12-17). The record
of EXPIRE with very many seconds wraps where the handler clamps; `SET ... PX` and
PEXPIRE wrap in the handler. A late replay of `SET ... PXAT` followed by INCR creates
the key without its TTL. `expireAbsMs` reads the clock again after the handler, so the
deadline in the record can be later than the key's by the time between. BLMOVE and BRPOPLPUSH are logged after a timeout, and a SET
that NX or XX refused is. `ZRANGE i j REV` takes its ranks from the other end than
ZREVRANGE. RPUSH, SADD, HSET and the destinations of LMOVE and SMOVE store a new
collection empty and fill it without a Touch, so that the memory estimate misses the
content until the next command touches the key. MSETNX overwrites a key created between its check and its write
phase. SSCAN over the map encoding draws a new order at each call, and offset cursors
skip elements after removals. Two movers of LMOVE lose or repeat elements.

*Connections and scripts.* BUSY, NOAUTH and the subscribe-mode refusal leave a MULTI
clean. A connection inside MULTI when requirepass is set can neither authenticate nor
run nor discard. SCRIPT KILL ends a script that writes between the test and its next
interruption. RESET leaves MONITOR on. CONFIG SET with several parameters applies some
before it fails. A burst checks maxmemory once, so that an eviction can be asked for
inside a shard's own task and waits for itself (burst.go:61); group tasks of one burst
race on `cs.trackPersist`. `notifyFlagsToString` drops `n` when `A` is set.

*Push.* A message can be enqueued before the acknowledgement of its subscription, in
spite of "exact issue order" (respserver.go:10-13); the protocol version is read when a
frame is rendered, not when it is issued; a connection's own keyspace notification
comes before the reply to its command.

*Sessions.* ABORTED frames are lost when the queue refuses them in the handshake or when
the drop comes before the hook is set; replies that were in the kernel's buffers are
never reported; what a takeover records late is reported at the resume after.

*Accounts.* A logout or a revocation whose save fails is answered with success and
undone by a restart; a save that fails in Rotate makes the client's retry look like
theft. A login in flight across a deletion leaves a family without account, and one
that races a password change keeps its family.

## 6. Not modelled

**Optimisations and codecs.** Pipelined bursts run the same handlers in group tasks;
the model of them worth having is a refinement of `Conn` command by command, and it is
left out because it needs the keys that `Conn` abstracts from. The snapshot's byte
layout, RESP parsing and encoding (a vendored derivative of redcon) and the gRPC
envelopes are codecs without state of their own; conversions that matter to a property
(numbers, deadlines, records) are modelled in `Objects` and `Commands`.

**Reports and pure text.** INFO, COMMAND, CONFIG GET, the slowlog, the client list,
glob matching, and the rendering of replies. SCAN over the keyspace and KEYS. Arguments
that a parser refuses change nothing and are left out of the data commands.

**Stateless parts.** Access tokens are signatures checked by middleware; JWT encoding,
key files and bcrypt are external. The REST handlers other than the accounts' wrap one
Execute each. Configuration and startup run once before the first connection. The
sandbox of scripts and the conversion of Lua values.

**Choices.** Which key eviction takes (LRU, LFU and TTL samples): `Keyspace` lets it
take any. Refresh families that are never purged are counted by no property.

**Races the repository documents or leaves open.** Two writers of one key may be
captured in the other order; `Aof` gives two writers keys of their own. With
appendfsync everysec the loss across logs has no specified order; recovery is checked
with always. BGSAVE and BGREWRITEAOF look at each other's flag before setting their
own. `LoadSnapshot` into another number of shards.

**Steps left out of modelled parts.** `Aof`: errors of a log's write or fsync, which are
logged and dropped (manager.go:170), and a rewrite that fails after some of its files.
`Push`: the last flush of buffered replies when a connection is killed, so that the wire
may be cut a little earlier than in the code. `Resume`: a client command looks at
readiness and at the connection in one step, where ws.go:463-478 fetches the connection
later, so that a command can also go out on a connection still in its handshake; only
the command's own reply depends on it.

## 7. Plan

What is left:

1. `Aof`: type correctness and `SeqUnique`, that a record number is used once.
2. Models: bursts over a `Conn` with keys; the snapshot codec as operators with a round
   trip.
