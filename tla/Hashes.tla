------------------------------- MODULE Hashes ------------------------------
(***************************************************************************)
(* The handlers of lib/commands/hash.go on one database.                   *)
(***************************************************************************)
EXTENDS Db

\* HSET and HMSET: pairs is a sequence of field and value; the event is
\* posted even when no field was new.
cmdHSet(d, k, pairs) ==
  LET h0 == Obj(d, k, NewHash)
      h == FoldLeft(LAMBDA acc, p : HSet(acc, p[1], p[2]), h0, pairs)
  IN IF WrongType(d, k, "hash") THEN Reply(d, Err)
     ELSE Res(Fill(d, k, "hash", h), IntR(Len(h.pairs) - Len(h0.pairs)), <<<<"hset", k>>>>)

\* Fills a fresh hash before storing it, unlike cmdHSet.
PutField(d, k, f, v, r, e) ==
  LET h == HSet(Obj(d, k, NewHash), f, v)
  IN Res(IF Has(d, k) THEN Touch(d, k, h) ELSE Put(d, k, "hash", h), r, <<<<e, k>>>>)

cmdHSetNX(d, k, f, v) ==
  IF WrongType(d, k, "hash") THEN Reply(d, Err)
  ELSE IF HHas(Obj(d, k, NewHash), f) THEN Reply(d, IntR(0))
  ELSE PutField(d, k, f, v, IntR(1), "hset")

Old(d, k, f) ==
  LET h == Obj(d, k, NewHash) IN IF HHas(h, f) THEN HGet(h, f) ELSE 0

cmdHIncrBy(d, k, f, delta) ==
  LET cur == Old(d, k, f) IN
  IF WrongType(d, k, "hash") THEN Reply(d, Err)
  ELSE IF ~IsInt(cur) THEN Reply(d, Err)
  ELSE IF (delta > 0 /\ cur > IntMax - delta) \/ (delta < 0 /\ cur < IntMin - delta)
  THEN Reply(d, Err)
  ELSE PutField(d, k, f, cur + delta, IntR(cur + delta), "hincrby")

\* An infinite increment is refused up front.
cmdHIncrByFloat(d, k, f, delta) ==
  LET cur == Old(d, k, f)
      sum == FAdd(cur, delta)
  IN IF WrongType(d, k, "hash") \/ delta \in {PInf, NInf} THEN Reply(d, Err)
     ELSE IF ~IsFloat(cur) THEN Reply(d, Err)
     ELSE IF sum \in {Word, PInf, NInf} THEN Reply(d, Err)
     ELSE PutField(d, k, f, sum, Blob(sum), "hincrbyfloat")

cmdHDel(d, k, fs) ==
  LET h == FoldLeft(HDel, d[k].v, fs)
      d1 == Shrink(d, k, h)
      n == Len(d[k].v.pairs) - Len(h.pairs)
  IN IF ~Is(d, k, "hash") THEN Read(d, k, "hash", IntR(0), Nil)
     ELSE IF n = 0 THEN Reply(d, IntR(0))
     ELSE Res(d1, IntR(n), RemEv(d1, k, "hdel"))

cmdHGet(d, k, f) ==
  Read(d, k, "hash", Nil, IF HHas(d[k].v, f) THEN Blob(HGet(d[k].v, f)) ELSE Nil)

cmdHMGet(d, k, fs) ==
  LET h == Obj(d, k, NewHash) IN
  Reply(d, IF WrongType(d, k, "hash") THEN Err
           ELSE Arr([i \in DOMAIN fs |-> IF HHas(h, fs[i]) THEN Blob(HGet(h, fs[i])) ELSE Nil]))

cmdHExists(d, k, f) == Read(d, k, "hash", IntR(0), IntR(Bool(HHas(d[k].v, f))))

cmdHLen(d, k) == Read(d, k, "hash", IntR(0), IntR(Len(d[k].v.pairs)))

\* HGETALL; HKEYS and HVALS are its two columns.
cmdHGetAll(d, k) == Read(d, k, "hash", Arr(<<>>), Arr(d[k].v.pairs))

hKeysVals(d, k, vals) ==
  Read(d, k, "hash", Arr(<<>>),
       Arr([i \in DOMAIN d[k].v.pairs |-> d[k].v.pairs[i][IF vals THEN 2 ELSE 1]]))

cmdHStrLen(d, k, f) ==
  Read(d, k, "hash", IntR(0), IF HHas(d[k].v, f) THEN Length ELSE IntR(0))

\* The random draws of HRANDFIELD, SRANDMEMBER and ZRANDMEMBER: all items in
\* order when enough are asked for, else n distinct ones, or -n with repeats.
Draws(items, n) ==
  IF n >= Len(items) THEN {items}
  ELSE IF n >= 0
  THEN {[i \in 1..n |-> items[p[i]]] : p \in {q \in [1..n -> DOMAIN items] : IsInjective(q)}}
  ELSE [1..(-n) -> ToSet(items)]

cmdHRandField(d, k, n, out) ==
  Read(d, k, "hash", Arr(<<>>), Arr(out))

\* HSCAN: the items from an offset cursor, in insertion order.
cmdHScan(d, k, cursor, n) == scanWindow(Obj(d, k, NewHash).pairs, cursor, n)

=============================================================================
