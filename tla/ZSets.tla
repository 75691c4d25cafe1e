------------------------------- MODULE ZSets -------------------------------
(***************************************************************************)
(* The handlers of lib/commands/zset.go on one database.  A score bound is *)
(* a record [val, excl], a lex bound a record [kind, val].                 *)
(***************************************************************************)
EXTENDS Db

\* The flags ZADD accepts together.
ZAddFlags ==
  {f \in SUBSET {"nx", "xx", "gt", "lt", "ch", "incr"} :
     /\ "nx" \in f => f \cap {"xx", "gt", "lt"} = {}
     /\ ~({"gt", "lt"} \subseteq f)}

\* One pair of ZADD under the flags f: the state after it, with the counts.
\* nan is set by INCR when the sum is not a number, and stops the command.
AddPair(acc, f, sc, m) ==
  LET z == acc.z
      old == ZHas(z, m)
      score == IF "incr" \in f /\ old THEN FAdd(z.dict[m], sc) ELSE sc
      skip == \/ "xx" \in f /\ ~old
              \/ "nx" \in f /\ old
              \/ old /\ "gt" \in f /\ score <= z.dict[m]
              \/ old /\ "lt" \in f /\ score >= z.dict[m]
  IN IF acc.nan THEN acc
     ELSE IF score = Word /\ ~("nx" \in f /\ old) THEN [acc EXCEPT !.nan = TRUE]
     ELSE IF skip THEN acc
     ELSE [z |-> ZAdd(z, m, score), added |-> acc.added + Bool(~old),
           changed |-> acc.changed + Bool(IF old THEN z.dict[m] # score ELSE TRUE),
           last |-> Blob(score), nan |-> FALSE]

\* ZADD key flags pairs, each pair a score and a member.
cmdZAdd(d, k, f, pairs) ==
  LET a == FoldLeft(LAMBDA acc, p : AddPair(acc, f, p[1], p[2]),
                    [z |-> Obj(d, k, NewZSet), added |-> 0, changed |-> 0,
                     last |-> Nil, nan |-> FALSE], pairs)
      d1 == IF Has(d, k) THEN (IF a.changed > 0 THEN Touch(d, k, a.z) ELSE d)
            ELSE IF a.added > 0 THEN Put(d, k, "zset", a.z) ELSE d
  IN IF WrongType(d, k, "zset") THEN Reply(d, Err)
     ELSE IF a.nan THEN Reply(d, Err)
     ELSE Res(d1, IF "incr" \in f THEN a.last
                  ELSE IntR(IF "ch" \in f THEN a.changed ELSE a.added),
              IF a.changed > 0 THEN <<<<IF "incr" \in f THEN "zincr" ELSE "zadd", k>>>>
              ELSE <<>>)

cmdZIncrBy(d, k, delta, m) ==
  LET z == Obj(d, k, NewZSet)
      score == FAdd(IF ZHas(z, m) THEN z.dict[m] ELSE 0, delta)
      z1 == ZAdd(z, m, score)
  IN IF WrongType(d, k, "zset") THEN Reply(d, Err)
     ELSE IF score = Word THEN Reply(d, Err)
     ELSE Res(IF Has(d, k) THEN Touch(d, k, z1) ELSE Put(d, k, "zset", z1), Blob(score),
              <<<<"zincr", k>>>>)

\* A removal that took n members away and left z.
Removed(d, k, z, n, e) ==
  LET d1 == Shrink(d, k, z)
  IN IF n = 0 THEN Reply(d, IntR(0)) ELSE Res(d1, IntR(n), RemEv(d1, k, e))

cmdZRem(d, k, ms) ==
  LET z == FoldLeft(LAMBDA acc, m : IF ZHas(acc, m) THEN ZRemove(acc, m) ELSE acc,
                    d[k].v, ms)
  IN IF ~Is(d, k, "zset") THEN Read(d, k, "zset", IntR(0), Nil)
     ELSE Removed(d, k, z, Len(d[k].v.sl) - Len(z.sl), "zrem")

cmdZScore(d, k, m) ==
  Read(d, k, "zset", Nil, IF ZHas(d[k].v, m) THEN Blob(d[k].v.dict[m]) ELSE Nil)

cmdZMScore(d, k, ms) ==
  LET z == Obj(d, k, NewZSet) IN
  Reply(d, IF WrongType(d, k, "zset") THEN Err
           ELSE Arr([i \in DOMAIN ms |-> IF ZHas(z, ms[i]) THEN Blob(z.dict[ms[i]]) ELSE Nil]))

cmdZCard(d, k) == Read(d, k, "zset", IntR(0), IntR(Cardinality(DOMAIN d[k].v.dict)))

zRankCmd(d, k, m, rev) ==
  LET z == d[k].v IN
  Read(d, k, "zset", Nil,
       IF ~ZHas(z, m) THEN Nil
       ELSE IF rev THEN IntR(Cardinality(DOMAIN z.dict) - 1 - ZRank(z, m))
       ELSE IntR(ZRank(z, m)))

-----------------------------------------------------------------------------
(* Ranges.                                                                 *)

\* The window of an index range, as [lo, hi) of 0-based ranks.
IndexWindow(n, start, stop) ==
  LET lo == IF start < 0 THEN (IF n + start < 0 THEN 0 ELSE n + start) ELSE start
      h == IF stop < 0 THEN n + stop ELSE stop
      hi == IF h >= n THEN n - 1 ELSE h
  IN IF lo > hi \/ lo >= n \/ hi < 0 THEN <<0, 0>> ELSE <<lo, hi + 1>>

\* r is [mode, min, max]: indexes, score bounds or lex bounds.
window(r, z) ==
  CASE r.mode = "index" -> IndexWindow(Len(z.sl), r.min, r.max)
    [] r.mode = "score" -> ScoreRangeLoc(z, r.min, r.max)
    [] r.mode = "lex"   -> LexRangeLoc(z, r.min, r.max)

NoLimit == <<0, -1>>

\* The members of a window in either direction, cut by LIMIT offset count.
zrangeEmit(z, w, rev, limit) ==
  LET n == IF w[1] > w[2] THEN 0 ELSE w[2] - w[1]
      all == [i \in 1..n |-> z.sl[IF rev THEN w[2] + 1 - i ELSE w[1] + i][2]]
      last == IF limit[2] >= 0 /\ limit[1] + limit[2] < n THEN limit[1] + limit[2] ELSE n
  IN IF limit[1] < 0 \/ limit[1] > n THEN <<>> ELSE SubSeq(all, limit[1] + 1, last)

\* ZRANGE, ZRANGEBYSCORE, ZREVRANGEBYSCORE and ZRANGEBYLEX.
cmdZRange(d, k, r, rev, limit) ==
  Read(d, k, "zset", Arr(<<>>), Arr(zrangeEmit(d[k].v, window(r, d[k].v), rev, limit)))

\* ZREVRANGE: the indexes count from the tail.
cmdZRevRange(d, k, start, stop) ==
  LET n == Len(d[k].v.sl)
      s == IF start < 0 THEN n + start ELSE start
      s0 == IF s < 0 THEN 0 ELSE s
      e == IF stop < 0 THEN n + stop ELSE stop
      s1 == IF e >= n THEN n - 1 ELSE e
  IN Read(d, k, "zset", Arr(<<>>),
          IF s0 > e \/ s0 >= n \/ e < 0 THEN Arr(<<>>)
          ELSE Arr(zrangeEmit(d[k].v, <<n - 1 - s1, n - s0>>, TRUE, NoLimit)))

\* ZCOUNT and ZLEXCOUNT.
zCountCmd(d, k, r) ==
  Read(d, k, "zset", IntR(0),
       LET w == window(r, d[k].v) IN IntR(IF w[2] > w[1] THEN w[2] - w[1] ELSE 0))

RemRangeName(r) ==
  CASE r.mode = "index" -> "zremrangebyrank"
    [] r.mode = "score" -> "zremrangebyscore"
    [] r.mode = "lex"   -> "zremrangebylex"

\* ZREMRANGEBYRANK, ZREMRANGEBYSCORE and ZREMRANGEBYLEX.
zRemRange(d, k, r) ==
  LET w == window(r, d[k].v)
      z == ZCut(d[k].v, w[1] + 1, w[2])
  IN IF ~Is(d, k, "zset") THEN Read(d, k, "zset", IntR(0), Nil)
     ELSE Removed(d, k, z, Len(d[k].v.sl) - Len(z.sl), RemRangeName(r))

\* ZPOPMIN and ZPOPMAX; n is the count.
zPopCmd(d, k, min, n) ==
  LET sl == d[k].v.sl
      m == IF n < Len(sl) THEN n ELSE Len(sl)
      out == PopMany(sl, min, m)
      d1 == Shrink(d, k, IF min THEN ZCut(d[k].v, 1, m)
                         ELSE ZCut(d[k].v, Len(sl) - m + 1, Len(sl)))
  IN IF ~Is(d, k, "zset") THEN Read(d, k, "zset", Arr(<<>>), Nil)
     ELSE IF n = 0 THEN Reply(d, Arr(<<>>))
     ELSE Res(d1, Arr(out), RemEv(d1, k, IF min THEN "zpopmin" ELSE "zpopmax"))

\* ZRANDMEMBER: out is a random draw of members.
cmdZRandMember(d, k, n, out) == Read(d, k, "zset", Arr(<<>>), Arr(out))

\* ZSCAN, in skip list order.
cmdZScan(d, k, cursor, n) == scanWindow(Obj(d, k, NewZSet).sl, cursor, n)

-----------------------------------------------------------------------------
(* ZUNION, ZINTER, ZDIFF and the stores.                                   *)

\* A snapshot of a sorted set or of a set, whose members count as score 1.
snapshotZSet(d, k) ==
  IF Is(d, k, "zset") THEN d[k].v.dict
  ELSE IF Is(d, k, "set") THEN [m \in d[k].v.m |-> 1] ELSE <<>>

SnapFails(d, k) == WrongType(d, k, "zset") /\ WrongType(d, k, "set")

\* A score times a weight; Word stands for NaN.
FMul(a, w) ==
  IF a \in {PInf, NInf}
  THEN (IF w = 0 THEN Word ELSE IF w > 0 THEN a ELSE -a)
  ELSE IF a * w > IntMax THEN PInf ELSE IF a * w < IntMin THEN NInf ELSE a * w

\* A comparison with NaN is false, a sum with it NaN.
Combine(agg, c, v) ==
  CASE agg = "min" -> IF Word \notin {c, v} /\ v < c THEN v ELSE c
    [] agg = "max" -> IF Word \notin {c, v} /\ v > c THEN v ELSE c
    [] agg = "sum" -> IF Word \in {c, v} THEN Word ELSE FAdd(c, v)

\* Mutant: a score that is not a number stays.
zAggregateNaN(snaps, inter, weights, agg) ==
  LET Where(m) == SelectSeq([i \in DOMAIN snaps |-> i], LAMBDA i : m \in DOMAIN snaps[i])
      Val(m, i) == FMul(snaps[i][m], weights[i])
      all == UNION {DOMAIN snaps[i] : i \in DOMAIN snaps}
  IN [m \in {x \in all : ~inter \/ Len(Where(x)) = Len(snaps)} |->
        FoldLeft(LAMBDA c, i : Combine(agg, c, Val(m, i)), Val(m, Where(m)[1]), Tail(Where(m)))]

\* The inputs are folded in order; a NaN score ends as 0.
zAggregate(snaps, inter, weights, agg) ==
  LET Where(m) == SelectSeq([i \in DOMAIN snaps |-> i], LAMBDA i : m \in DOMAIN snaps[i])
      Val(m, i) == FMul(snaps[i][m], weights[i])
      Score(m) == FoldLeft(LAMBDA c, i : Combine(agg, c, Val(m, i)),
                           Val(m, Where(m)[1]), Tail(Where(m)))
      all == UNION {DOMAIN snaps[i] : i \in DOMAIN snaps}
  IN [m \in {x \in all : ~inter \/ Len(Where(x)) = Len(snaps)} |->
        IF Score(m) = Word THEN 0 ELSE Score(m)]

\* The sorted set that holds exactly the given scores.
ZSetOf(dict) ==
  [dict |-> dict,
   sl |-> SetToSortSeq({<<dict[m], m>> : m \in DOMAIN dict}, ZLess)]

StoreZ(d, dest, acc, e) ==
  IF DOMAIN acc # {}
  THEN Res(Put(d, dest, "zset", ZSetOf(acc)), IntR(Cardinality(DOMAIN acc)), <<<<e, dest>>>>)
  ELSE Res(Drop(d, dest), IntR(0), IF Has(d, dest) THEN <<<<"del", dest>>>> ELSE <<>>)

\* ZUNIONSTORE and ZINTERSTORE run alone.
zStoreCmd(d, op, dest, ks, weights, agg) ==
  IF \E i \in DOMAIN ks : SnapFails(d, ks[i]) THEN Reply(d, Err)
  ELSE StoreZ(d, dest, zAggregate([i \in DOMAIN ks |-> snapshotZSet(d, ks[i])],
                                  op = "zinterstore", weights, agg), op)

\* ZUNION and ZINTER reply in (score, member) order.
zUnionInterCmd(d, ks, inter) ==
  Reply(d, IF \E i \in DOMAIN ks : SnapFails(d, ks[i]) THEN Err
           ELSE Arr(ZSetOf(zAggregate([i \in DOMAIN ks |-> snapshotZSet(d, ks[i])], inter,
                                      [i \in DOMAIN ks |-> 1], "sum")).sl))

cmdZDiff(d, ks) ==
  LET first == snapshotZSet(d, ks[1])
      rest == UNION {DOMAIN snapshotZSet(d, ks[i]) : i \in DOMAIN ks \ {1}}
  IN Reply(d, IF \E i \in DOMAIN ks : SnapFails(d, ks[i]) THEN Err
              ELSE Arr(ZSetOf(Restrict(first, DOMAIN first \ rest)).sl))

=============================================================================
