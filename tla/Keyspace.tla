------------------------------ MODULE Keyspace ------------------------------
(***************************************************************************)
(* The sharded keyspace of lib/shard, as the tasks of the shard goroutines *)
(* see it: entries with their WATCH version, tombstones, invalidation      *)
(* epochs, the expiry heap, the memory estimate; and the commands of       *)
(* lib/commands that drive it: SET, in-place writes, DEL, EXPIRE, PERSIST, *)
(* WATCH, MULTI/EXEC, EVAL and FLUSHDB.                                    *)
(*                                                                         *)
(* One action is one shard task (a shard goroutine runs its tasks one at a *)
(* time) or one step a connection goroutine takes by itself.  The pause    *)
(* protocol behind EXEC and EVAL is the subject of module Pause; here its  *)
(* effect is the variable holder: while a connection holds the pause, the  *)
(* shard tasks of every other connection wait.                             *)
(***************************************************************************)
EXTENDS Integers, Sequences, FiniteSets, FiniteSetsExt

CONSTANTS
  Conns,       \* client connections
  NShards,     \* number of shards; shards are visited in id order
  DBs,         \* logical databases
  Slots,       \* the (db, key) pairs, type tombKey of the code
  ShardOf,     \* Engine.ShardIndex of the slot's key
  DBOf,        \* the slot's database
  Values,      \* values a key may hold
  KindOf,      \* Entry.Type of the value: "string", or a kind of collection
  SizeOf,      \* entryMem: the memory estimate of a key holding the value
  EmptySize,   \* entryMem of a key holding an empty collection
  TombCap,     \* Shard.TombCap
  Quota,       \* maxmemory / shard count; 0 when maxmemory is unset
  Volatile,    \* TRUE for the volatile-* policies, FALSE for allkeys-*
  PlainFlush,  \* FALSE: FLUSHDB is only issued inside EXEC or EVAL
  NoConn,      \* nobody holds the pause
  Absent,      \* a slot without an entry
  MaxNow, MaxVer, MaxEpoch, MaxGen, MaxWatch   \* bounds of the instance

Shards == 1..NShards

\* mem is memBytes.  fresh is not in the code: the handler filled the collection
\* after it had stored it, and nothing has touched the entry since.
Entry == [val: Values, ver: Nat \ {0}, exp: Nat, gen: Nat, mem: Nat,
          fresh: BOOLEAN]

ExpItem == [slot: Slots, at: Nat, gen: Nat]

\* A WatchRef of the connection.  touched is not in the code: it records that
\* the slot's content changed after WATCH and before EXEC paused the engine.
Ref == [slot: Slots, epoch: Nat, ver: Nat, touched: BOOLEAN]

\* The state of the shards: the entries, the tombstone versions (0: none), the
\* epoch of each shard and database, the expiry heap, the memory estimate.
KS == [tab: [Slots -> Entry \cup {Absent}], tomb: [Slots -> Nat],
       epoch: [Shards -> [DBs -> Nat]], heap: SUBSET ExpItem,
       used: [Shards -> [DBs -> Int]]]

NoFlush == [db |-> NoConn, next |-> 0]

ASSUME ConstAssumption ==
  /\ NShards \in Nat \ {0}
  /\ ShardOf \in [Slots -> Shards]
  /\ DBOf \in [Slots -> DBs]
  /\ KindOf \in [Values -> STRING]
  /\ SizeOf \in [Values -> Nat \ {0}] /\ EmptySize \in Nat \ {0}
  /\ TombCap \in Nat \ {0}
  /\ Quota \in Nat
  /\ Volatile \in BOOLEAN /\ PlainFlush \in BOOLEAN
  /\ NoConn \notin Conns /\ NoConn \notin DBs
  /\ Absent \notin Entry
  /\ {MaxNow, MaxVer, MaxEpoch, MaxGen, MaxWatch} \subseteq Nat

VARIABLES
  ks,      \* the shards' state: tab, tomb, epoch, heap, used
  now,     \* Engine.NowMs
  watch,   \* ConnState.Watch of each connection
  phase,   \* where each connection is: "idle", "check", "run" or "eval"
  chk,     \* index of the next WatchRef EXEC checks
  flush,   \* the FLUSHDB a connection is executing: database, next shard
  holder   \* who holds the PauseAll pause

vars == <<ks, now, watch, phase, chk, flush, holder>>

-----------------------------------------------------------------------------
(* The operations of a shard, on a state st of the keyspace.               *)

Live(st, k) == st.tab[k] # Absent

Due(e, t) == e.exp > 0 /\ e.exp <= t

\* The version WatchVersion reports: the entry's, else the tombstone's.
Cur(st, k) == IF Live(st, k) THEN st.tab[k].ver ELSE st.tomb[k]

EpochOf(st, k) == st.epoch[ShardOf[k]][DBOf[k]]

TombFull(st, s) ==
  Cardinality({j \in Slots : ShardOf[j] = s /\ st.tomb[j] # 0}) >= TombCap

tombstone(st, k, ver) ==
  LET s == ShardOf[k] IN
  IF TombFull(st, s)
  THEN [st EXCEPT !.tomb = [j \in Slots |-> IF j = k THEN ver + 1
                                            ELSE IF ShardOf[j] = s THEN 0
                                            ELSE st.tomb[j]],
                  !.epoch[s] = [d \in DBs |-> st.epoch[s][d] + 1]]
  ELSE [st EXCEPT !.tomb[k] = ver + 1]

addMem(st, k, delta) ==
  [st EXCEPT !.used[ShardOf[k]][DBOf[k]] = @ + delta]

\* Tombstone, drop the entry, give its memory back: what Delete, the passive
\* expiry of Lookup, sweep, evictEntry and expireEntry do to a live entry.
Remove(st, k) ==
  LET e == st.tab[k] IN
  [addMem(tombstone(st, k, e.ver), k, -e.mem) EXCEPT !.tab[k] = Absent]

Lookup(st, k, t) ==
  IF Live(st, k) /\ Due(st.tab[k], t) THEN Remove(st, k) ELSE st

Delete(st, k, t) ==
  LET st1 == Lookup(st, k, t) IN
  IF Live(st1, k) THEN Remove(st1, k) ELSE st1

\* Mutants: the version is not bumped; it restarts with every fresh entry.
VersionUnbumped(st, k) == 0
VersionRestarted(st, k) == 1

\* The version Store gives an entry: above the old entry's and the tombstone's.
NextVersion(st, k) ==
  LET old == IF Live(st, k) THEN st.tab[k].ver ELSE 0
  IN 1 + (IF old > st.tomb[k] THEN old ELSE st.tomb[k])

\* A new entry of value v, stored whole or (fresh) empty and filled afterwards;
\* ExpGen is carried over by SET ... KEEPTTL only.
StoreAs(st, k, v, exp, gen, fresh) ==
  LET was == IF Live(st, k) THEN st.tab[k].mem ELSE 0
      mem == IF fresh THEN EmptySize ELSE SizeOf[v]
  IN [addMem(st, k, mem - was) EXCEPT
        !.tomb[k] = 0,
        !.tab[k] = [val |-> v, ver |-> NextVersion(st, k), exp |-> exp,
                    gen |-> gen, mem |-> mem, fresh |-> fresh]]

Store(st, k, v, exp, gen) == StoreAs(st, k, v, exp, gen, FALSE)

\* Mutant: the memory estimate is not refreshed after the mutation.
TouchStaleMem(st, k, v, exp) ==
  [st EXCEPT !.tab[k] = [st.tab[k] EXCEPT !.val = v, !.ver = @ + 1, !.exp = exp,
                                          !.fresh = FALSE]]

\* In-place mutation of a live entry to value v and expiry exp.
Touch(st, k, v, exp) ==
  LET e == st.tab[k] IN
  [addMem(st, k, SizeOf[v] - e.mem) EXCEPT
     !.tab[k] = [val |-> v, ver |-> e.ver + 1, exp |-> exp, gen |-> e.gen,
                 mem |-> SizeOf[v], fresh |-> FALSE]]

\* The heap is a set: a duplicate of an item could only be popped as stale.
PushExpire(st, k) ==
  LET e == st.tab[k] IN
  [st EXCEPT !.tab[k].gen = e.gen + 1,
             !.heap = @ \cup {[slot |-> k, at |-> e.exp, gen |-> e.gen + 1]}]

\* The task FLUSHDB runs on every shard after the keyspace swap.
flushDB(st, s, d) ==
  LET mine(j) == ShardOf[j] = s /\ DBOf[j] = d IN
  [st EXCEPT !.tomb  = [j \in Slots |-> IF mine(j) THEN 0 ELSE st.tomb[j]],
             !.used[s][d] = 0,
             !.heap  = {it \in st.heap : ~ mine(it.slot)},
             !.epoch[s][d] = @ + 1]

\* FlushDBTok's first step: the database's keyspace pointer is replaced.
swapKeyspace(st, d) ==
  [st EXCEPT !.tab = [j \in Slots |-> IF DBOf[j] = d THEN Absent
                                      ELSE st.tab[j]]]

WatchDirty(st, r, t) ==
  \/ r.epoch # EpochOf(st, r.slot)
  \/ Cur(Lookup(st, r.slot, t), r.slot) # r.ver

-----------------------------------------------------------------------------
(* Helpers of the actions.                                                 *)

Content(st, k) ==
  IF Live(st, k) THEN <<st.tab[k].val, st.tab[k].exp>> ELSE <<>>

\* Every reference whose slot changes content in this step, and whose
\* connection has not reached EXEC, is marked.
Marked(st, r, c) ==
  [r EXCEPT !.touched = @ \/ /\ phase[c] \in {"idle", "eval"}
                             /\ Content(st, r.slot) # Content(ks, r.slot)]

MarkAll(st) ==
  [c \in Conns |-> [i \in DOMAIN watch[c] |-> Marked(st, watch[c][i], c)]]

\* The keyspace moves to st.
Apply(st) == ks' = st /\ watch' = MarkAll(st)

InBounds(st) ==
  /\ \A k \in Slots : Cur(st, k) <= MaxVer
  /\ \A s \in Shards, d \in DBs : st.epoch[s][d] <= MaxEpoch
  /\ \A it \in st.heap : it.gen <= MaxGen

\* A task of connection c may run on a shard: the engine is not paused, or c
\* submitted the task with the token of the pause it holds.
Free(c) == holder \in {NoConn, c}

\* Connection c is between commands and may issue the next one.
Ready(c) == phase[c] \in {"idle", "run", "eval"} /\ flush[c] = NoFlush

Task(c, st) ==
  /\ Ready(c) /\ Free(c)
  /\ InBounds(st)
  /\ Apply(st)
  /\ UNCHANGED <<now, phase, chk, flush, holder>>

-----------------------------------------------------------------------------
(* Commands: one shard task each.                                          *)

\* GET, EXISTS, TYPE, TTL ...; also a SET stopped by NX or XX.
Get(c, k) == Task(c, Lookup(ks, k, now))

\* SET, with expiry at (0: none; in the past: store-then-expire deletes).
Set(c, k, v, at) ==
  LET st == Lookup(ks, k, now) IN
  /\ KindOf[v] = "string"
  /\ Task(c, IF at = 0 THEN Store(st, k, v, 0, 0)
             ELSE IF at <= now THEN Delete(st, k, now)
             ELSE PushExpire(Store(st, k, v, at, 0), k))

\* Mutant: KEEPTTL copies the deadline and forgets the generation.
SetKeepTTLNoGen(c, k, v) ==
  LET st == Lookup(ks, k, now) IN
  /\ KindOf[v] = "string"
  /\ Task(c, Store(st, k, v, IF Live(st, k) THEN st.tab[k].exp ELSE 0, 0))

\* SET ... KEEPTTL: the expiry and its generation move to the new entry.
SetKeepTTL(c, k, v) ==
  LET st == Lookup(ks, k, now) IN
  /\ KindOf[v] = "string"
  /\ Task(c, IF Live(st, k) THEN Store(st, k, v, st.tab[k].exp, st.tab[k].gen)
             ELSE Store(st, k, v, 0, 0))

\* MSET, MSETNX and the STORE forms of the set commands (with a whole
\* collection) store without looking the key up first.
MSetOne(c, k, v) == Task(c, Store(ks, k, v, 0, 0))

\* INCR, APPEND, ZADD, HSETNX ...: touch the live entry, or store a whole one; a
\* live entry of another kind is WRONGTYPE.
Mutate(c, k, v) ==
  LET st == Lookup(ks, k, now) IN
  Task(c, IF ~ Live(st, k) THEN Store(st, k, v, 0, 0)
          ELSE IF KindOf[st.tab[k].val] = KindOf[v]
               THEN Touch(st, k, v, st.tab[k].exp) ELSE st)

\* RPUSH, SADD, HSET, and the destination of LMOVE and SMOVE, on a missing key:
\* the collection is stored empty, filled, and not touched.  (On a live entry
\* they are Mutate.)
Fill(c, k, v) ==
  LET st == Lookup(ks, k, now) IN
  /\ KindOf[v] # "string" /\ ~ Live(st, k)
  /\ Task(c, StoreAs(st, k, v, 0, 0, TRUE))

Del(c, k) == Task(c, Delete(ks, k, now))

\* EXPIRE and GETEX: a past time deletes, otherwise touch and push.
Expire(c, k, at) ==
  LET st == Lookup(ks, k, now) IN
  Task(c, IF ~ Live(st, k) THEN st
          ELSE IF at <= now THEN Delete(st, k, now)
          ELSE PushExpire(Touch(st, k, st.tab[k].val, at), k))

Persist(c, k) ==
  LET st == Lookup(ks, k, now) IN
  Task(c, IF Live(st, k) /\ st.tab[k].exp # 0
          THEN Touch(st, k, st.tab[k].val, 0) ELSE st)

-----------------------------------------------------------------------------
(* Transactions and scripts.                                               *)

Watch(c, k) ==
  LET st == Lookup(ks, k, now)
      r  == [slot |-> k, epoch |-> EpochOf(st, k), ver |-> Cur(st, k),
             touched |-> FALSE]
  IN /\ phase[c] = "idle" /\ flush[c] = NoFlush /\ Free(c)
     /\ Len(watch[c]) < MaxWatch
     /\ InBounds(st)
     /\ ks' = st
     /\ watch' = [MarkAll(st) EXCEPT ![c] = Append(@, r)]
     /\ UNCHANGED <<now, phase, chk, flush, holder>>

\* UNWATCH, DISCARD, and an EXEC that a queueing error aborts.
Unwatch(c) ==
  /\ phase[c] = "idle" /\ flush[c] = NoFlush
  /\ watch[c] # <<>>
  /\ watch' = [watch EXCEPT ![c] = <<>>]
  /\ UNCHANGED <<ks, now, phase, chk, flush, holder>>

\* EXEC pauses the engine and starts checking the watched keys.
ExecPause(c) ==
  /\ phase[c] = "idle" /\ flush[c] = NoFlush
  /\ holder = NoConn
  /\ holder' = c
  /\ phase' = [phase EXCEPT ![c] = "check"]
  /\ chk' = [chk EXCEPT ![c] = 1]
  /\ UNCHANGED <<ks, now, watch, flush>>

\* Leaving EXEC, whatever the outcome: clearTx, then resume.
ExecLeave(c) ==
  /\ phase' = [phase EXCEPT ![c] = "idle"]
  /\ chk' = [chk EXCEPT ![c] = 0]
  /\ holder' = NoConn

\* One dirty check; a dirty key makes EXEC reply null.
ExecCheck(c) ==
  /\ phase[c] = "check" /\ chk[c] <= Len(watch[c])
  /\ LET r  == watch[c][chk[c]]
         st == IF r.epoch # EpochOf(ks, r.slot) THEN ks
               ELSE Lookup(ks, r.slot, now)
     IN /\ InBounds(st)
        /\ ks' = st
        /\ IF WatchDirty(ks, r, now)
           THEN /\ ExecLeave(c)
                /\ watch' = [MarkAll(st) EXCEPT ![c] = <<>>]
           ELSE /\ chk' = [chk EXCEPT ![c] = @ + 1]
                /\ watch' = MarkAll(st)
                /\ UNCHANGED <<phase, holder>>
  /\ UNCHANGED <<now, flush>>

\* Mutant: the last watched key is not checked.
ExecCommitEarly(c) ==
  /\ phase[c] = "check" /\ chk[c] >= Len(watch[c])
  /\ phase' = [phase EXCEPT ![c] = "run"]
  /\ UNCHANGED <<ks, now, watch, chk, flush, holder>>

\* Every key is clean: the queued commands run under the pause token.
ExecCommit(c) ==
  /\ phase[c] = "check" /\ chk[c] > Len(watch[c])
  /\ phase' = [phase EXCEPT ![c] = "run"]
  /\ UNCHANGED <<ks, now, watch, chk, flush, holder>>

ExecEnd(c) ==
  /\ phase[c] = "run" /\ flush[c] = NoFlush
  /\ ExecLeave(c)
  /\ watch' = [watch EXCEPT ![c] = <<>>]
  /\ UNCHANGED <<ks, now, flush>>

\* EVAL outside EXEC pauses the engine for the script; WATCH state stays.
Eval(c) ==
  /\ phase[c] = "idle" /\ flush[c] = NoFlush
  /\ holder = NoConn
  /\ holder' = c
  /\ phase' = [phase EXCEPT ![c] = "eval"]
  /\ UNCHANGED <<ks, now, watch, chk, flush>>

EvalEnd(c) ==
  /\ phase[c] = "eval" /\ flush[c] = NoFlush
  /\ holder' = NoConn
  /\ phase' = [phase EXCEPT ![c] = "idle"]
  /\ UNCHANGED <<ks, now, watch, chk, flush>>

-----------------------------------------------------------------------------
(* FLUSHDB: the connection goroutine swaps the keyspace pointer itself,    *)
(* whoever holds the pause, and then notifies the shards one by one.       *)
(* FLUSHALL does the same for each database in turn.                       *)

FlushSwap(c, d) ==
  /\ Ready(c)
  /\ PlainFlush \/ phase[c] \in {"run", "eval"}
  /\ Apply(swapKeyspace(ks, d))
  /\ flush' = [flush EXCEPT ![c] = [db |-> d, next |-> 1]]
  /\ UNCHANGED <<now, phase, chk, holder>>

FlushShard(c) ==
  LET s == flush[c].next
      d == flush[c].db
      st == flushDB(ks, s, d)
  IN /\ flush[c] # NoFlush /\ Free(c)
     /\ InBounds(st)
     /\ Apply(st)
     /\ flush' = [flush EXCEPT ![c] =
                    IF s = NShards THEN NoFlush ELSE [db |-> d, next |-> s + 1]]
     /\ UNCHANGED <<now, phase, chk, holder>>

-----------------------------------------------------------------------------
(* What a shard does by itself.                                            *)

\* Mutant: any live key is taken for the item's.
FreshItemAny(st, it) == Live(st, it.slot)

\* The popped item is the entry's own, not one an earlier TTL left behind.
FreshItem(st, it) ==
  /\ Live(st, it.slot)
  /\ st.tab[it.slot].exp = it.at
  /\ st.tab[it.slot].gen = it.gen

\* One pop of the expiry sweep.  The periodic sweep is off while the shard is
\* parked; DBSIZE sweeps inside EXEC and EVAL too.
Sweep(s) ==
  /\ \A c \in Conns : holder = c => phase[c] \in {"run", "eval"}
  /\ \E it \in ks.heap :
       /\ ShardOf[it.slot] = s
       /\ it.at <= now
       /\ \A x \in ks.heap : ShardOf[x.slot] = s => it.at <= x.at
       /\ LET st  == [ks EXCEPT !.heap = @ \ {it}]
              st1 == IF FreshItem(ks, it) THEN Remove(st, it.slot) ELSE st
          IN InBounds(st1) /\ Apply(st1)
  /\ UNCHANGED <<now, phase, chk, flush, holder>>

UsedTotal(st, s) == MapThenSumSet(LAMBDA d : st.used[s][d], DBs)

\* One victim of maybeEvict, which follows every task; an overdue victim is
\* expired instead, with the same effect here.  Parked shards evict too.
Evict(k) ==
  /\ Quota > 0 /\ UsedTotal(ks, ShardOf[k]) > Quota
  /\ Live(ks, k)
  /\ Volatile => ks.tab[k].exp > 0
  /\ InBounds(Remove(ks, k))
  /\ Apply(Remove(ks, k))
  /\ UNCHANGED <<now, phase, chk, flush, holder>>

Tick ==
  /\ now < MaxNow
  /\ now' = now + 1
  /\ UNCHANGED <<ks, watch, phase, chk, flush, holder>>

-----------------------------------------------------------------------------
Init ==
  /\ ks = [tab   |-> [k \in Slots |-> Absent],
           tomb  |-> [k \in Slots |-> 0],
           epoch |-> [s \in Shards |-> [d \in DBs |-> 0]],
           heap  |-> {},
           used  |-> [s \in Shards |-> [d \in DBs |-> 0]]]
  /\ now = 1
  /\ watch = [c \in Conns |-> <<>>]
  /\ phase = [c \in Conns |-> "idle"]
  /\ chk = [c \in Conns |-> 0]
  /\ flush = [c \in Conns |-> NoFlush]
  /\ holder = NoConn

Command(c) ==
  \E k \in Slots :
    \/ Get(c, k)
    \/ Del(c, k)
    \/ Persist(c, k)
    \/ Watch(c, k)
    \/ \E v \in Values : \/ SetKeepTTL(c, k, v) \/ MSetOne(c, k, v)
                        \/ Mutate(c, k, v) \/ Fill(c, k, v)
    \/ \E v \in Values, at \in 0..MaxNow : Set(c, k, v, at)
    \/ \E at \in 1..MaxNow : Expire(c, k, at)

Transaction(c) ==
  \/ Unwatch(c) \/ ExecPause(c) \/ ExecCheck(c) \/ ExecCommit(c) \/ ExecEnd(c)
  \/ Eval(c) \/ EvalEnd(c)

Flush(c) == FlushShard(c) \/ \E d \in DBs : FlushSwap(c, d)

Next ==
  \/ \E c \in Conns : Command(c) \/ Transaction(c) \/ Flush(c)
  \/ \E s \in Shards : Sweep(s)
  \/ \E k \in Slots : Evict(k)
  \/ Tick

Spec == Init /\ [][Next]_vars

-----------------------------------------------------------------------------
(* Properties.                                                             *)

\* Every variable stays in its type: versions of entries are positive, epochs
\* natural, a FLUSHDB under way names a shard still to be notified, and EXEC's
\* check loop is at one of the watched keys or just past the last.
TypeOK ==
  /\ ks \in KS
  /\ now \in Nat
  /\ watch \in [Conns -> Seq(Ref)]
  /\ phase \in [Conns -> {"idle", "check", "run", "eval"}]
  /\ chk \in [Conns -> Nat]
  /\ flush \in [Conns -> {NoFlush} \cup [db: DBs, next: Shards]]
  /\ holder \in Conns \cup {NoConn}
  /\ \A c \in Conns : phase[c] = "check" => chk[c] \in 1..(Len(watch[c]) + 1)

\* The FLUSHDB of c has swapped the slot's keyspace and its task on the slot's
\* shard has not run yet.
PendingBy(c, k) ==
  /\ flush[c] # NoFlush
  /\ flush[c].db = DBOf[k]
  /\ flush[c].next <= ShardOf[k]

FlushPending(k) == \E c \in Conns : PendingBy(c, k)

\* WATCH misses no change: a reference whose key changed since WATCH (by any
\* command, expiry or eviction, delete-and-recreate included) is dirty for
\* EXEC, except inside the window FLUSHDB leaves between the keyspace swap and
\* the epoch bump on the key's shard (Store, tombstone, flushDB, WatchDirty).
WatchSound ==
  \A c \in Conns : \A i \in DOMAIN watch[c] :
    LET r == watch[c][i] IN
    r.touched /\ ~ FlushPending(r.slot) => WatchDirty(ks, r, now)

\* EXEC never runs its queue over a change: once cmdExec has passed its checks
\* no watched key had changed before the pause, save under a FLUSHDB that is
\* still waiting behind the pause for the key's shard.
ExecSound ==
  \A c \in Conns : phase[c] = "run" =>
    \A i \in DOMAIN watch[c] :
      watch[c][i].touched => FlushPending(watch[c][i].slot)

\* The same without the exception, as the comment on the dirty check has it: a
\* watched key touched since WATCH aborts EXEC.
ExecAbortsOnTouched ==
  \A c \in Conns : phase[c] = "run" =>
    \A i \in DOMAIN watch[c] : ~ watch[c][i].touched

\* What an entry is booked at: its value's size, or an empty collection's while
\* it has not been touched since the handler filled it.
Weight(e) == IF e.fresh THEN EmptySize ELSE SizeOf[e.val]

\* The memory estimate maxmemory is enforced against is the sum of the live
\* entries' weights whenever no FLUSHDB is under way: no path (overwrite,
\* in-place mutation, expiry, eviction, flush) leaks or double-counts, and an
\* entry counts for less than its value only from its creation by a push, SADD
\* or HSET to the first Touch.
MemAccounted ==
  (\A c \in Conns : flush[c] = NoFlush) =>
    \A s \in Shards, d \in DBs :
      ks.used[s][d] =
        MapThenSumSet(LAMBDA k : Weight(ks.tab[k]),
                      {k \in Slots : /\ ShardOf[k] = s /\ DBOf[k] = d
                                     /\ Live(ks, k)})

\* Active expiry can find every key that has a TTL: the heap holds an item of
\* the entry's deadline and generation, through SET, KEEPTTL, EXPIRE, PERSIST
\* and flushes (PushExpire, sweep's stale check, purgeTrackers).
ExpiryIndexed ==
  (\A c \in Conns : flush[c] = NoFlush) =>
    \A k \in Slots :
      Live(ks, k) /\ ks.tab[k].exp > 0 =>
        [slot |-> k, at |-> ks.tab[k].exp, gen |-> ks.tab[k].gen] \in ks.heap

\* The sweep only takes keys whose own deadline has passed: an item left by an
\* earlier TTL of a key that was overwritten, persisted or re-armed is
\* discarded (sweep).
SweepTakesOnlyDue ==
  [][\A s \in Shards, k \in Slots :
       Sweep(s) /\ Live(ks, k) /\ ks'.tab[k] = Absent => Due(ks.tab[k], now)]_vars

\* The two indexes of a shard agree with its table: the memory estimate is the sum
\* of the live entries' weights and the expiry heap has every deadline.
IndexesAgree == MemAccounted /\ ExpiryIndexed
=============================================================================
