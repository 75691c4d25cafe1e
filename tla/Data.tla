-------------------------------- MODULE Data --------------------------------
(***************************************************************************)
(* The data commands at work on one database: clients that run them, keys  *)
(* that expire, the keyspace events, and the append-only file, kept as the *)
(* database that a restart at a later time rebuilds from its records.      *)
(*                                                                         *)
(* A command of one key is one shard task.  A command of several keys is   *)
(* one task when nothing else runs meanwhile (Do); LMOVE, SMOVE and the    *)
(* scans are also run as the tasks and calls they consist of, between      *)
(* which other connections run.  A configuration selects the commands at   *)
(* work and their arguments.                                               *)
(***************************************************************************)
EXTENDS Commands

CONSTANTS
  Conns,     \* connections that run commands of several tasks
  Confs,     \* configurations: fam, keys, elems, ints, times, size, aof
  MaxNow,    \* bound of the clock
  BootAt,    \* the clock of the restart that replays the file
  MaxItems   \* how many elements the queue configuration pushes

Families == {"string", "time", "list", "hash", "set", "zset", "zstore",
             "queue", "move", "scan"}

ASSUME DataAssumption ==
  /\ \A c \in Confs :
       /\ c.fam \in Families /\ c.keys \in Seq(Keys) /\ c.elems \subseteq Str
       /\ c.ints \subseteq Int /\ c.times \subseteq IntMin..IntMax
       /\ c.size \in Nat /\ c.aof \in BOOLEAN
  /\ MaxNow \in 0..IntMax /\ BootAt \in MaxNow..IntMax /\ MaxItems \in 0..IntMax

VARIABLES
  conf,   \* the configuration, chosen at the start
  db,     \* the entries
  now,    \* Engine.NowMs
  rep,    \* the database that replaying the append-only file at BootAt rebuilds
  lapsed, \* keys that had, since they were created, a deadline the replay finds past
  silent, \* keys a command changed without an event, ever
  job,    \* each connection's command of several tasks
  hist    \* what the queue took out, what was added, what a scan returned

vars == <<conf, db, now, rep, lapsed, silent, job, hist>>

Idle == [op |-> "none"]

\* Same content and expiry; the recorded size may differ.
Same(e, f) ==
  IF None \in {e, f} THEN e = f
  ELSE e.t = f.t /\ e.v = f.v /\ e.exp = f.exp

Init ==
  /\ conf \in Confs
  /\ db = [k \in Keys |-> None]
  /\ now = 0
  /\ rep = db
  /\ lapsed = {}
  /\ silent = {}
  /\ job = [c \in Conns |-> Idle]
  /\ hist = [pushed |-> 0, taken |-> <<>>, must |-> {}, seen |-> {}]

KS == ToSet(conf.keys)

-----------------------------------------------------------------------------
(* One command run alone.                                                  *)

Small(d) == \A k \in Keys : Has(d, k) => Weigh(d[k].t, d[k].v) <= conf.size

\* The keys that change from d to e without an event in ev.
Unannounced(d, e, ev) ==
  {k \in Keys : ~Same(d[k], e[k]) /\ \A i \in DOMAIN ev : ev[i][2] # k}

\* The keys with a deadline that the replay finds past, until the key is gone
\* from the database d and from the rebuilt one, r.
Lapsing(old, d, r) ==
  {k \in Keys : \/ k \in old /\ (Has(d, k) \/ Has(r, k))
               \/ (Has(d, k) /\ d[k].exp \in 1..BootAt)}

\* What a record can do to the database r when the file is replayed: the
\* clock is the restart's, and a command that draws at random draws anew.
Replays(r, rec) ==
  LET d == Lookup(r, KS, BootAt)
      again == IF rec[1] = "spop"
               THEN {<<"spop", rec[2], rec[3], p>> : p \in SPopPicks(d, rec[2], rec[3])}
               ELSE {rec}
  IN {Exec(d, BootAt, a).d : a \in again}

\* The handler's result x and its record rec reach the database, the events
\* and the log, where a key that expired is a DEL.
Finish(ks, d, x, rec) ==
  LET gone == {k \in ks : Due(db, k, now)}
      r == [k \in Keys |-> IF k \in gone THEN None ELSE rep[k]]
  IN /\ Small(x.d)
     /\ db' = x.d
     /\ silent' = silent \cup Unannounced(d, x.d, x.ev)
     /\ IF conf.aof /\ rec # None THEN rep' \in Replays(r, rec) ELSE rep' = r
     /\ lapsed' = Lapsing(lapsed \ gone, x.d, rep')
     /\ Small([k \in Keys |-> IF k \in lapsed' THEN rep'[k] ELSE None])
     /\ UNCHANGED <<conf, now, job, hist>>

\* The handler sees the keys ks without those that expired.
Run(ks, d, a, x) == Finish(ks, d, x, Record(a, x.r, now))
Do(ks, a) == LET d == Lookup(db, ks, now) IN Run(ks, d, a, Exec(d, now, a))

Tick == /\ conf.fam = "time" /\ now < MaxNow
        /\ now' = now + 1
        /\ UNCHANGED <<conf, db, rep, lapsed, silent, job, hist>>

\* Shard.sweep: active expiry, logged as a DEL.
Sweep(k) == /\ Due(db, k, now)
            /\ db' = Drop(db, k) /\ rep' = Drop(rep, k) /\ lapsed' = lapsed \ {k}
            /\ UNCHANGED <<conf, now, silent, job, hist>>

-----------------------------------------------------------------------------
(* The commands of each family on key k, with the configuration's arguments. *)

Plain == [cond |-> "none", get |-> FALSE, keep |-> FALSE, exp |-> NoExp]

\* Part of every family: another type may take the key's place.
CommonCommands(k) == {<<"set", k, Word, Plain>>, <<"del", <<k>>>>}

StringCommands(k) ==
  {<<"set", k, x, o>> : x \in conf.elems, o \in SetOptions({NoExp})}
  \cup {<<op, k, n>> : op \in {"incrby", "decrby", "incrbyfloat"}, n \in conf.ints}
  \cup {<<op, k, x>> : op \in {"getset", "append"}, x \in conf.elems}
  \cup {<<"getdel", k>>, <<"push", k, TRUE, FALSE, <<Word>>>>}

Units == {"ex", "px", "exat", "pxat"}

TimeCommands(k) ==
  {<<"set", k, 1, o>> : o \in SetOptions({NoExp} \cup (Units \X conf.times))}
  \cup {<<"getset", k, Word>>}
  \cup {<<"getex", k, <<u, n>>>> : u \in Units, n \in conf.times}
  \cup {<<"getex", k, <<"persist", 1>>>>, <<"getex", k, NoExp>>}
  \cup {<<op, k, n, f>> : op \in ExpireOps, n \in conf.times,
                          f \in ExpireFlags}
  \cup {<<"incrby", k, 0>>, <<"persist", k>>, <<"get", k>>, <<"push", k, TRUE, FALSE, <<Word>>>>}

ListCommands(k) ==
  {<<"push", k, h, m, xs>> : h \in BOOLEAN, m \in BOOLEAN,
       xs \in {<<x>> : x \in conf.elems} \cup {<<x, y>> : x \in conf.elems, y \in conf.elems}}
  \cup {<<op, k, h, n>> : op \in {"pop"}, h \in BOOLEAN, n \in {-1, 0, 1, 2}}
  \cup {<<"blpop", k, h>> : h \in BOOLEAN}
  \cup {<<"lset", k, i, x>> : i \in conf.ints, x \in conf.elems}
  \cup {<<"linsert", k, b, p, x>> : b \in BOOLEAN, p \in conf.elems, x \in conf.elems}
  \cup {<<"lrem", k, n, x>> : n \in conf.ints, x \in conf.elems}
  \cup {<<"ltrim", k, i, j>> : i \in conf.ints, j \in conf.ints}
  \cup (IF conf.aof THEN {} ELSE {<<"blmpop", k, h, 2>> : h \in BOOLEAN})

MoveCommands(k) == {<<op, k, j, f, t>> : op \in {"lmove", "blmove"}, j \in KS,
                                         f \in BOOLEAN, t \in BOOLEAN}

HashCommands(k) ==
  {<<"hset", k, <<<<f, v>>>>>> : f \in conf.elems, v \in conf.elems}
  \cup {<<"hset", k, <<<<f, Word>>, <<g, f>>>>>> : f \in conf.elems, g \in conf.elems}
  \cup {<<"hsetnx", k, f, f>> : f \in conf.elems}
  \cup {<<op, k, f, n>> : op \in {"hincrby", "hincrbyfloat"}, f \in conf.elems, n \in conf.ints}
  \cup {<<"hdel", k, fs>> : fs \in {<<f>> : f \in conf.elems}
                                  \cup {<<f, g>> : f \in conf.elems, g \in conf.elems}}

SetCommands(k) ==
  {<<"sadd", k, <<x, y>>>> : x \in conf.elems, y \in conf.elems}
  \cup {<<"srem", k, <<x, y>>>> : x \in conf.elems, y \in conf.elems}
  \cup UNION {{<<"spop", k, n, p>> : p \in SPopPicks(db, k, n)} : n \in {-1, 0, 1, 2}}
  \cup {<<"smove", k, j, x>> : j \in KS, x \in conf.elems}
  \cup {<<"setstore", op, j, <<k, i>>>> : op \in {"sinterstore", "sunionstore", "sdiffstore"},
                                          j \in KS, i \in KS}

ScoreBounds == [val : conf.ints, excl : BOOLEAN]
LexBounds == [kind : {"[", "("}, val : conf.elems]
             \cup {[kind |-> "-", val |-> Word], [kind |-> "+", val |-> Word]}

Bounds(mode, S) == {[mode |-> mode, min |-> a, max |-> b] : a \in S, b \in S}

ZSetCommands(k) ==
  {<<"zadd", k, f, <<<<s, m>>>>>> : f \in ZAddFlags, s \in conf.ints, m \in conf.elems}
  \cup {<<"zadd", k, f, <<<<s, m>>, <<0, w>>>>>> : f \in {{}, {"nx"}}, s \in conf.ints,
                                                  m \in conf.elems, w \in conf.elems}
  \cup {<<"zincrby", k, n, m>> : n \in conf.ints, m \in conf.elems}
  \cup {<<"zrem", k, <<m, w>>>> : m \in conf.elems, w \in conf.elems}
  \cup {<<"zremrange", k, r>> : r \in Bounds("index", {-2, 0, 1})}
  \cup {<<"zremrange", k, r>> : r \in Bounds("score", ScoreBounds)}
  \cup {<<"zremrange", k, r>> : r \in Bounds("lex", LexBounds)}
  \cup {<<op, k, b, n>> : op \in {"zpop", "bzpop"}, b \in BOOLEAN, n \in {1}}
  \cup {<<"zpop", k, b, n>> : b \in BOOLEAN, n \in {0, 2}}
  \cup (IF conf.aof THEN {} ELSE {<<"bzmpop", k, b, 2>> : b \in BOOLEAN})

ZStoreCommands(k) ==
  {<<"zadd", k, {}, <<<<s, m>>>>>> : s \in conf.ints, m \in conf.elems}
  \cup {<<"sadd", k, <<m>>>> : m \in conf.elems}
  \cup {<<"zrem", k, <<m>>>> : m \in conf.elems}
  \cup {<<"zstore", op, k, <<i, j>>, w, g>> :
            op \in {"zunionstore", "zinterstore"}, i \in KS, j \in KS,
            w \in {<<1, 1>>, <<0, -1>>}, g \in {"sum", "min", "max"}}

MSetCommands(k) ==
  {<<op, <<k, j>>, <<x, y>>>> : op \in {"mset", "msetnx"}, j \in KS,
                                x \in conf.elems, y \in conf.elems}

FamilyCommands(k) ==
  CASE conf.fam = "string" -> StringCommands(k) \cup MSetCommands(k)
    [] conf.fam = "time"   -> TimeCommands(k)
    [] conf.fam = "list"   -> ListCommands(k) \cup MoveCommands(k)
    [] conf.fam = "hash"   -> HashCommands(k)
    [] conf.fam = "set"    -> SetCommands(k)
    [] conf.fam = "zset"   -> ZSetCommands(k)
    [] conf.fam = "zstore" -> ZStoreCommands(k)

\* Reads meet keys of every type, and keys that expired.
ReadCommands(k) ==
  CASE conf.fam = "string" -> {<<"strlen", k>>, <<"mget", <<k>>>>, <<"exists", <<k, k>>>>}
    [] conf.fam = "time"   -> {<<"ttl", k, ms>> : ms \in BOOLEAN} \cup {<<"type", k>>}
    [] conf.fam = "list"   -> {<<"llen", k>>}
    [] conf.fam = "hash"   ->
         {<<"hstrlen", k, f>> : f \in conf.elems}
         \cup (IF Is(db, k, "hash")
               THEN {<<"hrandfield", k, -1, o>> : o \in Draws(SetToSeq(Fields(db[k].v)), -1)}
               ELSE {})
    [] conf.fam = "set"    ->
         {<<"smismember", k, <<x, x>>>> : x \in conf.elems}
         \cup {<<"scard", k>>, <<"sinter", conf.keys>>, <<"sintercard", conf.keys, 1>>}
         \cup {<<"smembers", k, SetToSeq(SnapshotSet(db, k))>>}
         \cup {<<"srandmember", k, 1, o>> : o \in Draws(SetToSeq(SnapshotSet(db, k)), 1)}
    [] conf.fam = "zset"   ->
         {<<"zmscore", k, <<m, m>>>> : m \in conf.elems}
         \cup {<<"zscore", k, m>> : m \in conf.elems} \cup {<<"zcard", k>>}
    [] conf.fam = "zstore" -> {<<"zunioninter", conf.keys, i>> : i \in BOOLEAN}
                              \cup {<<"zdiff", conf.keys>>}

\* A command is given every key of the configuration: its tasks look up
\* the ones it names.
Command ==
  /\ conf.fam \notin {"queue", "move", "scan"}
  /\ \E k \in KS :
       \E a \in CommonCommands(k) \cup FamilyCommands(k) \cup ReadCommands(k) : Do(KS, a)

-----------------------------------------------------------------------------
(* Commands run as the tasks they submit.                                  *)

Src == conf.keys[1]
Dst == conf.keys[2]

\* A task of a job: what it leaves in the database and where the job goes.
Task(c, d, next) ==
  /\ db' = d /\ job' = [job EXCEPT ![c] = next]
  /\ UNCHANGED <<conf, now, rep, lapsed, silent>>

\* A producer pushes 1, 2, ... on the source's tail.
Produce ==
  /\ conf.fam = "queue" /\ hist.pushed < MaxItems
  /\ db' = pushCmd(db, Src, FALSE, FALSE, <<hist.pushed + 1>>).d
  /\ hist' = [hist EXCEPT !.pushed = @ + 1]
  /\ UNCHANGED <<conf, now, rep, lapsed, silent, job>>

\* A consumer pops the destination's head.
Consume ==
  /\ conf.fam = "queue" /\ Has(db, Dst)
  /\ LET x == popCmd(db, Dst, TRUE, -1) IN
       db' = x.d /\ hist' = [hist EXCEPT !.taken = Append(@, x.r[2])]
  /\ UNCHANGED <<conf, now, rep, lapsed, silent, job>>

Movers == {c \in Conns : job[c].op # "none"}

\* LMOVE source destination LEFT RIGHT, by one connection at a time.
LMoveStart(c) ==
  /\ conf.fam = "queue" /\ Movers = {}
  /\ LET r == MovePeek(db, Src, Dst, TRUE) IN
       /\ r[1] = "blob"
       /\ Task(c, db, [op |-> "put", x |-> r[2]])
  /\ UNCHANGED hist

LMovePut(c) ==
  /\ job[c].op = "put"
  /\ Task(c, MovePut(db, Dst, FALSE, job[c].x).d, [job[c] EXCEPT !.op = "cut"])
  /\ UNCHANGED hist

LMoveCut(c) ==
  /\ job[c].op = "cut"
  /\ Task(c, MoveCut(db, Src, TRUE).d, Idle)
  /\ UNCHANGED hist

\* Members enter the source, and SMOVE takes them to the destination.
AddMember(x) ==
  /\ conf.fam = "move"
  /\ db' = cmdSAdd(db, Src, <<x>>).d
  /\ hist' = [hist EXCEPT !.must = @ \cup {x}]
  /\ UNCHANGED <<conf, now, rep, lapsed, silent, job>>

SMoveStart(c, x) ==
  /\ conf.fam = "move" /\ job[c].op = "none"
  /\ SMoveCheck(db, Src, Dst, x) = IntR(1)
  /\ Task(c, db, [op |-> "smove", x |-> x, todo |-> {"rem", "add"}])
  /\ UNCHANGED hist

\* The two tasks run on their own shards, in either order.
SMoveTask(c, w) ==
  /\ job[c].op = "smove" /\ w \in job[c].todo
  /\ LET left == job[c].todo \ {w} IN
       Task(c, IF w = "rem" THEN SMoveRem(db, Src, job[c].x) ELSE SMoveAdd(db, Dst, job[c].x),
            IF left = {} THEN Idle ELSE [job[c] EXCEPT !.todo = left])
  /\ UNCHANGED hist

\* What HSCAN, ZSCAN or the SSCAN of an intset would list in full.
Listed(k) ==
  CASE Is(db, k, "hash") -> Fields(db[k].v)
    [] Is(db, k, "zset") -> DOMAIN db[k].v.dict
    [] Is(db, k, "set")  -> db[k].v.m

\* One call of the scan: its window, and the cursor to go on with.
ScanCall(k, cursor) ==
  LET w == CASE Is(db, k, "hash") -> cmdHScan(db, k, cursor, 1)
             [] Is(db, k, "zset") -> cmdZScan(db, k, cursor, 1)
             [] Is(db, k, "set")  -> cmdSScan(SetToSortSeq(db[k].v.m, <), cursor, 1)
      Name(i) == CASE Is(db, k, "hash") -> w.out[i][1]
                   [] Is(db, k, "zset") -> w.out[i][2]
                   [] Is(db, k, "set")  -> w.out[i]
  IN [names |-> {Name(i) : i \in DOMAIN w.out}, next |-> w.next]

\* Elements are added while the scan runs; none is removed or moved.
AddElement ==
  /\ conf.fam = "scan"
  /\ \E x \in conf.elems :
       \/ db' = cmdHSet(db, Src, <<<<x, x>>>>).d
       \/ IsInt(x) /\ db' = cmdSAdd(db, Src, <<x>>).d
       \/ \E s \in conf.ints : db' = cmdZAdd(db, Src, {"nx"}, <<<<s, x>>>>).d
  /\ UNCHANGED <<conf, now, rep, lapsed, silent, job, hist>>

ScanStart(c) ==
  /\ conf.fam = "scan" /\ Movers = {} /\ Has(db, Src)
  /\ LET w == ScanCall(Src, 0) IN
       /\ hist' = [hist EXCEPT !.must = Listed(Src), !.seen = w.names]
       /\ Task(c, db, [op |-> IF w.next = 0 THEN "scanned" ELSE "scan", cursor |-> w.next])

ScanNext(c) ==
  /\ job[c].op = "scan"
  /\ LET w == ScanCall(Src, job[c].cursor) IN
       /\ hist' = [hist EXCEPT !.seen = @ \cup w.names]
       /\ Task(c, db, [op |-> IF w.next = 0 THEN "scanned" ELSE "scan", cursor |-> w.next])

ScanEnd(c) ==
  /\ job[c].op = "scanned"
  /\ hist' = [hist EXCEPT !.must = {}, !.seen = {}]
  /\ Task(c, db, Idle)

-----------------------------------------------------------------------------
Next ==
  \/ Tick
  \/ \E k \in Keys : Sweep(k)
  \/ Command
  \/ Produce \/ Consume \/ AddElement
  \/ \E x \in conf.elems : AddMember(x)
  \/ \E c \in Conns :
       \/ LMoveStart(c) \/ LMovePut(c) \/ LMoveCut(c)
       \/ \E x \in conf.elems : SMoveStart(c, x)
       \/ \E w \in {"rem", "add"} : SMoveTask(c, w)
       \/ ScanStart(c) \/ ScanNext(c) \/ ScanEnd(c)

Spec == Init /\ [][Next]_vars

-----------------------------------------------------------------------------
(* Properties.                                                             *)

Value(t, v) ==
  CASE t = "string" -> v \in Str
    [] t = "list"   -> v \in Seq(Str)
    [] t = "hash"   -> v.big \in BOOLEAN /\ \A i \in DOMAIN v.pairs : v.pairs[i] \in Str \X Str
    [] t = "set"    -> v.int \in BOOLEAN /\ v.m \subseteq Str
    [] t = "zset"   -> v.dict \in [DOMAIN v.dict -> Str \ {Word}]

\* The entries are well formed: a counter never leaves the int64 range, a
\* score is never NaN, whatever arithmetic the commands did (incrBy,
\* cmdIncrByFloat, cmdHIncrBy, cmdZIncrBy, zAggregate).
TypeOK ==
  /\ conf \in Confs /\ now \in 0..MaxNow /\ silent \subseteq Keys
  /\ \A k \in Keys : Has(db, k) =>
       Value(db[k].t, db[k].v) /\ db[k].exp \in IntMin..IntMax /\ db[k].mem \in Nat

\* No command of any family leaves an empty list, hash, set or sorted set
\* behind: the handlers delete the key with its last element (Shrink), and
\* a store of an empty result deletes its destination.
NoEmptyCollection ==
  \A k \in Keys : Has(db, k) => Weigh(db[k].t, db[k].v) > 0

\* Whatever a command changes, it announces: every key whose content or
\* expiry changes is named by one of the command's keyspace events.
ChangesAnnounced == silent = {}

\* A restart that replays the append-only file (replayExec, manager.go:138)
\* executes its records at a later clock and with draws of its own, and still
\* rebuilds every key: rewriteForPersist has logged relative expiry times as
\* absolute ones, random draws as what they drew, blocking pops as pops.
\* Excepted are the keys that ever had a deadline the restart finds past, for
\* which SET ... PXAT and a later INCR replay as a key without expiry.
ReplicaFollows == conf.aof => \A k \in Keys \ lapsed : Same(rep[k], db[k])

\* A hash answers the same by field as in full, in either encoding: HGET,
\* HEXISTS, HMGET and HLEN go through the field index of the large
\* encoding, HGETALL and HKEYS through the pairs, and HDEL moves the pairs.
HashReadsAgree ==
  \A k \in Keys : Is(db, k, "hash") =>
    LET all == cmdHGetAll(db, k).r[2]
        names == hKeysVals(db, k, FALSE).r[2]
    IN /\ cmdHLen(db, k).r = IntR(Cardinality(ToSet(names)))
       /\ \A i \in DOMAIN all :
            /\ cmdHGet(db, k, all[i][1]).r = Blob(all[i][2])
            /\ cmdHMGet(db, k, names).r[2][i] = Blob(hKeysVals(db, k, TRUE).r[2][i])
       /\ \A f \in conf.elems :
            (cmdHExists(db, k, f).r = IntR(1)) <=> f \in ToSet(names)

\* The list reads agree on negative and out of range indexes: LINDEX and
\* LRANGE name the same elements, LPOS finds the nth match from either end,
\* and LTRIM keeps what LRANGE shows.
ListReadsAgree ==
  \A k \in Keys : Is(db, k, "list") =>
    LET l == cmdLRange(db, k, 0, -1).r[2]
        n == cmdLLen(db, k).r[2]
    IN /\ l = db[k].v /\ n = Len(l)
       /\ \A i \in conf.ints :
            LET r == cmdLIndex(db, k, i).r IN
            /\ (r = Nil) <=> ~(i \in (-n)..(n - 1))
            /\ r # Nil => cmdLRange(db, k, i, i).r = Arr(<<r[2]>>)
       /\ \A i, j \in conf.ints :
            Obj(cmdLTrim(db, k, i, j).d, k, <<>>) = cmdLRange(db, k, i, j).r[2]
       /\ \A x \in conf.elems :
            LET fwd == cmdLPos(db, k, x, 1, 0, 0).r[2]
                bwd == cmdLPos(db, k, x, -1, 0, 0).r[2]
            IN /\ ToSet(fwd) = {i \in 0..(n - 1) : l[i + 1] = x}
               /\ bwd = Reverse(fwd)
               /\ \A q \in 1..n :
                    cmdLPos(db, k, x, q, -1, 0).r
                      = IF q <= Len(fwd) THEN IntR(fwd[q]) ELSE Nil

\* The two halves of a sorted set agree: the skip list holds exactly the
\* members of the map with their scores, in (score, member) order, so that
\* ZRANK and ZRANGE do not contradict ZSCORE.
OrderAgrees ==
  \A k \in Keys : Is(db, k, "zset") =>
    LET z == db[k].v IN
    /\ ToSet(z.sl) = {<<z.dict[m], m>> : m \in DOMAIN z.dict}
    /\ \A i \in 2..Len(z.sl) : ZLess(z.sl[i - 1], z.sl[i])
    /\ \A i \in DOMAIN z.sl : zRankCmd(db, k, z.sl[i][2], FALSE).r = IntR(i - 1)

\* A score inside the bounds of a range, from the definition of the bounds.
Inside(s, r) ==
  /\ IF r.min.excl THEN s > r.min.val ELSE s >= r.min.val
  /\ IF r.max.excl THEN s < r.max.val ELSE s <= r.max.val

\* A member inside lexicographical bounds, likewise.
InsideLex(m, r) ==
  /\ CASE r.min.kind = "-" -> TRUE [] r.min.kind = "+" -> FALSE
       [] r.min.kind = "(" -> LexLess(r.min.val, m) [] OTHER -> ~LexLess(m, r.min.val)
  /\ CASE r.max.kind = "+" -> TRUE [] r.max.kind = "-" -> FALSE
       [] r.max.kind = "(" -> LexLess(m, r.max.val) [] OTHER -> ~LexLess(r.max.val, m)

\* The range commands return exactly the members their bounds describe,
\* although they find the ends by binary search: ZRANGEBYSCORE and ZCOUNT,
\* in both directions and under LIMIT, ZRANGEBYLEX and ZLEXCOUNT where all
\* scores are equal; and ZREVRANGE is ZRANGE read from the other end.
RangesAgree ==
  \A k \in Keys : Is(db, k, "zset") =>
    LET z == db[k].v
        n == Len(z.sl)
        members == [i \in 1..n |-> z.sl[i][2]]
    IN /\ \A r \in Bounds("score", ScoreBounds) :
            LET want == SelectSeq(members, LAMBDA m : Inside(z.dict[m], r)) IN
            /\ cmdZRange(db, k, r, FALSE, NoLimit).r[2] = want
            /\ cmdZRange(db, k, r, TRUE, NoLimit).r[2] = Reverse(want)
            /\ zCountCmd(db, k, r).r = IntR(Len(want))
            /\ cmdZRange(db, k, r, FALSE, <<1, 1>>).r[2] = Cut(want, 1, 1)
       /\ Cardinality({z.dict[m] : m \in DOMAIN z.dict}) = 1 =>
            \A r \in Bounds("lex", LexBounds) :
              LET want == SelectSeq(members, LAMBDA m : InsideLex(m, r)) IN
              /\ cmdZRange(db, k, r, FALSE, NoLimit).r[2] = want
              /\ zCountCmd(db, k, r).r = IntR(Len(want))
       /\ \A i, j \in -3..3 :
            cmdZRevRange(db, k, i, j).r[2] = Cut(Reverse(members), i, j)

\* With one mover, LMOVE in three tasks is a queue: whatever a producer at
\* the source's tail and a consumer at the destination's head do between
\* its tasks, no element is lost, repeated or overtaken.
QueueOrder ==
  conf.fam = "queue" =>
    LET src == Obj(db, Src, <<>>)
        left == IF \E c \in Conns : job[c].op = "cut" THEN Tail(src) ELSE src
    IN hist.taken \o Obj(db, Dst, <<>>) \o left = [i \in 1..hist.pushed |-> i]

\* Concurrent SMOVEs in one direction lose no member: it is in the source,
\* in the destination, or about to be added there by a running SMOVE.
MembersKept ==
  conf.fam = "move" =>
    \A x \in hist.must :
      \/ x \in SnapshotSet(db, Src) \cup SnapshotSet(db, Dst)
      \/ \E c \in Conns : job[c].op = "smove" /\ job[c].x = x /\ "add" \in job[c].todo

\* A scan that is continued until its cursor is 0 returns every element
\* that was there when it started, although the cursor is an offset and
\* elements are added in front of it meanwhile.
ScanComplete ==
  \A c \in Conns : job[c].op = "scanned" => hist.must \subseteq hist.seen

\* The store is sound after every command: values are well formed and no collection
\* is empty; reads through indexes, dictionaries and binary searches return what
\* the plain contents say.
StoreSound ==
  /\ TypeOK /\ NoEmptyCollection
  /\ ListReadsAgree /\ HashReadsAgree /\ OrderAgrees /\ RangesAgree

\* LMOVE and SMOVE, in several tasks, move an element once: none is lost,
\* repeated or overtaken by what runs between their tasks.
MovesOnce == QueueOrder /\ MembersKept
=============================================================================
