------------------------------ MODULE Commands ------------------------------
(***************************************************************************)
(* The command table of lib/commands/table.go over the data handlers, and  *)
(* the rewriting of an executed write into the record the append-only file *)
(* keeps (rewriteForPersist).  A command is a tuple of its name and its    *)
(* arguments; random draws are passed as a last argument.                  *)
(***************************************************************************)
EXTENDS Strings, Lists, Hashes, SetsCmd, ZSets

\* A pop served at once by BLPOP, BRPOP, BLMPOP, BZPOPMIN, BZPOPMAX or
\* BZMPOP: the plain pop, answered with the key.
Served(x, k) == [x EXCEPT !.r = IF x.r[1] \in {"err", "nil"} \/ x.r = Arr(<<>>) THEN @
                                ELSE Arr(<<k>>)]

\* The handler the table names.  A name the table does not hold is refused.
StringCmd(d, now, a) ==
  CASE a[1] = "set"         -> cmdSet(d, now, a[2], a[3], a[4])
    [] a[1] = "get"         -> cmdGet(d, a[2])
    [] a[1] = "getset"      -> cmdGetSet(d, a[2], a[3])
    [] a[1] = "getdel"      -> cmdGetDel(d, a[2])
    [] a[1] = "getex"       -> cmdGetEx(d, now, a[2], a[3])
    [] a[1] = "incrby"      -> incrBy(d, a[2], a[3])
    [] a[1] = "decrby"      -> cmdDecrBy(d, a[2], a[3])
    [] a[1] = "incrbyfloat" -> cmdIncrByFloat(d, a[2], a[3])
    [] a[1] = "append"      -> cmdAppend(d, a[2], a[3])
    [] a[1] = "strlen"      -> cmdStrLen(d, a[2])
    [] a[1] = "mget"        -> cmdMGet(d, a[2])
    [] a[1] = "mset"        -> cmdMSet(d, a[2], a[3])
    [] a[1] = "msetnx"      -> cmdMSetNX(d, a[2], a[3])

ExpireOps == {"expire", "pexpire", "expireat", "pexpireat"}

KeyCmd(d, now, a) ==
  CASE a[1] = "del"      -> cmdDel(d, a[2])
    [] a[1] = "exists"   -> cmdExists(d, a[2])
    [] a[1] \in ExpireOps -> expireCommon(d, now, a[1], a[2], a[3], a[4])
    [] a[1] = "ttl"      -> ttlCommon(d, now, a[2], a[3])
    [] a[1] = "persist"  -> cmdPersist(d, a[2])
    [] a[1] = "type"     -> cmdType(d, a[2])

ListCmd(d, a) ==
  CASE a[1] = "push"    -> pushCmd(d, a[2], a[3], a[4], a[5])
    [] a[1] = "pop"     -> popCmd(d, a[2], a[3], a[4])
    [] a[1] = "blpop"   -> Served(popCmd(d, a[2], a[3], -1), a[2])
    [] a[1] = "blmpop"  -> Served(popCmd(d, a[2], a[3], a[4]), a[2])
    [] a[1] = "llen"    -> cmdLLen(d, a[2])
    [] a[1] = "lindex"  -> cmdLIndex(d, a[2], a[3])
    [] a[1] = "lrange"  -> cmdLRange(d, a[2], a[3], a[4])
    [] a[1] = "lset"    -> cmdLSet(d, a[2], a[3], a[4])
    [] a[1] = "linsert" -> cmdLInsert(d, a[2], a[3], a[4], a[5])
    [] a[1] = "lrem"    -> cmdLRem(d, a[2], a[3], a[4])
    [] a[1] = "ltrim"   -> cmdLTrim(d, a[2], a[3], a[4])
    [] a[1] \in {"lmove", "blmove"} -> lmoveCmd(d, a[2], a[3], a[4], a[5])
    [] a[1] = "lpos"    -> cmdLPos(d, a[2], a[3], a[4], a[5], a[6])

HashCmd(d, a) ==
  CASE a[1] = "hset"         -> cmdHSet(d, a[2], a[3])
    [] a[1] = "hsetnx"       -> cmdHSetNX(d, a[2], a[3], a[4])
    [] a[1] = "hincrby"      -> cmdHIncrBy(d, a[2], a[3], a[4])
    [] a[1] = "hincrbyfloat" -> cmdHIncrByFloat(d, a[2], a[3], a[4])
    [] a[1] = "hdel"         -> cmdHDel(d, a[2], a[3])
    [] a[1] = "hget"         -> cmdHGet(d, a[2], a[3])
    [] a[1] = "hmget"        -> cmdHMGet(d, a[2], a[3])
    [] a[1] = "hexists"      -> cmdHExists(d, a[2], a[3])
    [] a[1] = "hlen"         -> cmdHLen(d, a[2])
    [] a[1] = "hgetall"      -> cmdHGetAll(d, a[2])
    [] a[1] = "hkeysvals"    -> hKeysVals(d, a[2], a[3])
    [] a[1] = "hstrlen"      -> cmdHStrLen(d, a[2], a[3])
    [] a[1] = "hrandfield"   -> cmdHRandField(d, a[2], a[3], a[4])

SetCmd(d, a) ==
  CASE a[1] = "sadd"        -> cmdSAdd(d, a[2], a[3])
    [] a[1] = "srem"        -> cmdSRem(d, a[2], a[3])
    [] a[1] = "spop"        -> cmdSPop(d, a[2], a[3], a[4])
    [] a[1] = "sismember"   -> cmdSIsMember(d, a[2], a[3])
    [] a[1] = "smismember"  -> cmdSMIsMember(d, a[2], a[3])
    [] a[1] = "scard"       -> cmdSCard(d, a[2])
    [] a[1] = "smembers"    -> cmdSMembers(d, a[2], a[3])
    [] a[1] = "srandmember" -> cmdSRandMember(d, a[2], a[3], a[4])
    [] a[1] = "smove"       -> cmdSMove(d, a[2], a[3], a[4])
    [] a[1] = "setstore"    -> setStoreCmd(d, a[2], a[3], a[4])
    [] a[1] = "sinter"      -> cmdSInter(d, a[2])
    [] a[1] = "sintercard"  -> cmdSInterCard(d, a[2], a[3])

ZSetCmd(d, a) ==
  CASE a[1] = "zadd"        -> cmdZAdd(d, a[2], a[3], a[4])
    [] a[1] = "zincrby"     -> cmdZIncrBy(d, a[2], a[3], a[4])
    [] a[1] = "zrem"        -> cmdZRem(d, a[2], a[3])
    [] a[1] = "zremrange"   -> zRemRange(d, a[2], a[3])
    [] a[1] = "zpop"        -> zPopCmd(d, a[2], a[3], a[4])
    [] a[1] \in {"bzpop", "bzmpop"} -> Served(zPopCmd(d, a[2], a[3], a[4]), a[2])
    [] a[1] = "zscore"      -> cmdZScore(d, a[2], a[3])
    [] a[1] = "zmscore"     -> cmdZMScore(d, a[2], a[3])
    [] a[1] = "zcard"       -> cmdZCard(d, a[2])
    [] a[1] = "zrank"       -> zRankCmd(d, a[2], a[3], a[4])
    [] a[1] = "zrange"      -> cmdZRange(d, a[2], a[3], a[4], a[5])
    [] a[1] = "zrevrange"   -> cmdZRevRange(d, a[2], a[3], a[4])
    [] a[1] = "zcount"      -> zCountCmd(d, a[2], a[3])
    [] a[1] = "zrandmember" -> cmdZRandMember(d, a[2], a[3], a[4])
    [] a[1] = "zstore"      -> zStoreCmd(d, a[2], a[3], a[4], a[5], a[6])
    [] a[1] = "zunioninter" -> zUnionInterCmd(d, a[2], a[3])
    [] a[1] = "zdiff"       -> cmdZDiff(d, a[2])

StringOps == {"set", "get", "getset", "getdel", "getex", "incrby", "decrby", "incrbyfloat",
              "append", "strlen", "mget", "mset", "msetnx"}
KeyOps == ExpireOps \cup {"del", "exists", "ttl", "persist", "type"}
ListOps == {"push", "pop", "blpop", "blmpop", "llen", "lindex", "lrange", "lset", "linsert",
            "lrem", "ltrim", "lmove", "blmove", "lpos"}
HashOps == {"hset", "hsetnx", "hincrby", "hincrbyfloat", "hdel", "hget", "hmget", "hexists",
            "hlen", "hgetall", "hkeysvals", "hstrlen", "hrandfield"}
SetOps == {"sadd", "srem", "spop", "sismember", "smismember", "scard", "smembers",
           "srandmember", "smove", "setstore", "sinter", "sintercard"}
ZSetOps == {"zadd", "zincrby", "zrem", "zremrange", "zpop", "bzpop", "bzmpop", "zscore",
            "zmscore", "zcard", "zrank", "zrange", "zrevrange", "zcount", "zrandmember",
            "zstore", "zunioninter", "zdiff"}

WriteOps == {"set", "getset", "getdel", "getex", "incrby", "decrby", "incrbyfloat", "append",
             "mset", "msetnx", "del", "persist", "push", "pop", "blpop", "blmpop", "lset",
             "linsert", "lrem", "ltrim", "lmove", "blmove", "hset", "hsetnx", "hincrby",
             "hincrbyfloat", "hdel", "sadd", "srem", "spop", "smove", "setstore", "zadd",
             "zincrby", "zrem", "zremrange", "zpop", "bzpop", "bzmpop", "zstore"}
            \cup ExpireOps

Exec(d, now, a) ==
  CASE a[1] \in StringOps -> StringCmd(d, now, a)
    [] a[1] \in KeyOps    -> KeyCmd(d, now, a)
    [] a[1] \in ListOps   -> ListCmd(d, a)
    [] a[1] \in HashOps   -> HashCmd(d, a)
    [] a[1] \in SetOps    -> SetCmd(d, a)
    [] a[1] \in ZSetOps   -> ZSetCmd(d, a)
    [] OTHER              -> Reply(d, Err)

-----------------------------------------------------------------------------
(* The record of an executed command: a command again, or None.            *)

\* expireAbsMs: no overflow guard, unlike the handlers.
expireAbsMs(op, now, n) ==
  CASE op \in {"expire", "ex"}     -> Wrap(now + n * Sec)
    [] op \in {"pexpire", "px"}    -> Wrap(now + n)
    [] op \in {"expireat", "exat"} -> Wrap(n * Sec)
    [] op \in {"pexpireat", "pxat"} -> n

\* The record of EXPIRE and its kin, GETEX and SET: absolute times only.
RewriteExpiry(a, r, now) ==
  CASE a[1] \in ExpireOps ->
         IF r # IntR(1) THEN None
         ELSE <<"pexpireat", a[2], expireAbsMs(a[1], now, a[3]),
                SubSeq(a[4], 1, IF a[4] = <<>> THEN 0 ELSE 1)>>
    [] a[1] = "getex"  -> IF r[1] # "blob" \/ a[3] = NoExp THEN None
                          ELSE IF a[3][1] = "persist" THEN <<"persist", a[2]>>
                          ELSE <<"pexpireat", a[2], expireAbsMs(a[3][1], now, a[3][2]), <<>>>>
    [] a[1] = "set"    -> IF a[4].exp[1] \in {"ex", "px", "exat"}
                          THEN <<"set", a[2], a[3],
                                 [a[4] EXCEPT !.exp = <<"pxat", expireAbsMs(@[1], now, @[2])>>]>>
                          ELSE a

\* Blocking pops become the plain pop they served, SPOP the SREM it drew.
rewriteForPersist(a, r, now) ==
  LET got == r[1] = "arr" /\ r # Arr(<<>>) IN
  CASE a[1] = "blpop"  -> IF got THEN <<"pop", a[2], a[3], -1>> ELSE None
    [] a[1] = "bzpop"  -> IF got THEN <<"zpop", a[2], a[3], 1>> ELSE None
    [] a[1] = "blmpop" -> IF got THEN <<"lmpop", a[2], a[3], a[4]>> ELSE None
    [] a[1] = "bzmpop" -> IF got THEN <<"zmpop", a[2], a[3], a[4]>> ELSE None
    [] a[1] = "blmove" -> <<"lmove", a[2], a[3], a[4], a[5]>>
    [] a[1] = "spop"   -> IF r[1] = "blob" THEN <<"srem", a[2], <<r[2]>>>>
                          ELSE IF got THEN <<"srem", a[2], r[2]>> ELSE None
    [] a[1] \in ExpireOps \cup {"getex", "set"} -> RewriteExpiry(a, r, now)
    [] OTHER -> a

\* Mutant: the commands that depend on the clock or on a draw are logged as
\* they were given, with only the blocking pops rewritten.
RecordVerbatim(a, r, now) ==
  IF a[1] \notin WriteOps \/ r[1] = "err" THEN None
  ELSE IF a[1] \in {"spop", "set", "getex"} \cup ExpireOps THEN a
  ELSE rewriteForPersist(a, r, now)

\* capturePersist: reads and refused commands leave no record.
Record(a, r, now) ==
  IF a[1] \notin WriteOps \/ r[1] = "err" THEN None ELSE rewriteForPersist(a, r, now)

=============================================================================
