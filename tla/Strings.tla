------------------------------ MODULE Strings ------------------------------
(***************************************************************************)
(* The handlers of lib/commands/strings.go and keys.go on one database.    *)
(* Sec is the number of clock ticks in a second; integer arithmetic keeps  *)
(* the scaled-down int64 width.                                            *)
(***************************************************************************)
EXTENDS Db

CONSTANT Sec

ASSUME SecAssumption == Sec \in Nat \ {0}

-----------------------------------------------------------------------------
(* Expiry options: a unit and a value.                                     *)

NoExp == <<"none", 0>>

\* resolveExpire, and the same switch in GETEX: 0 refuses the option.  Only
\* the second-based units are guarded against overflow.
resolveExpire(x, now) ==
  CASE x[1] = "ex"   -> IF x[2] > (IntMax - now) \div Sec THEN 0 ELSE now + x[2] * Sec
    [] x[1] = "px"   -> Wrap(now + x[2])
    [] x[1] = "exat" -> IF x[2] > IntMax \div Sec THEN 0 ELSE x[2] * Sec
    [] x[1] = "pxat" -> x[2]
    [] x[1] = "none" -> 0

Refused(x, now) ==
  \/ x[1] # "none" /\ x[2] <= 0
  \/ x[1] = "ex" /\ x[2] > (IntMax - now) \div Sec
  \/ x[1] = "exat" /\ x[2] > IntMax \div Sec

\* The options parseSetOptions accepts: NX excludes XX, KEEPTTL an expiry.
SetOptions(exps) ==
  {o \in [cond : {"none", "nx", "xx"}, get : BOOLEAN, keep : BOOLEAN, exp : exps] :
     ~(o.keep /\ o.exp # NoExp)}

\* SET key value [NX|XX] [GET] [KEEPTTL | expiry]; o = [cond, get, keep, exp].
cmdSet(d, now, k, v, o) ==
  LET found == Has(d, k)
      at == resolveExpire(o.exp, now)
      blocked == (o.cond = "nx" /\ found) \/ (o.cond = "xx" /\ ~found)
      timed == o.exp # NoExp
      exp == IF o.keep /\ found THEN d[k].exp ELSE IF timed THEN at ELSE 0
      d1 == IF blocked THEN d
            ELSE IF timed /\ at <= now THEN Drop(d, k)
            ELSE PutEx(d, k, "string", v, exp)
      r == IF o.get THEN (IF found THEN Blob(d[k].v) ELSE Nil)
           ELSE IF blocked THEN Nil ELSE OK
      ev == IF blocked THEN <<>>
            ELSE <<<<"set", k>>>> \o (IF timed THEN <<<<"expire", k>>>> ELSE <<>>)
  IN IF Refused(o.exp, now) \/ (o.get /\ WrongType(d, k, "string")) THEN Reply(d, Err)
     ELSE Res(d1, r, ev)

cmdGet(d, k) == Read(d, k, "string", Nil, Blob(d[k].v))

cmdGetSet(d, k, v) ==
  IF WrongType(d, k, "string") THEN Reply(d, Err)
  ELSE Res(Put(d, k, "string", v),
           IF Has(d, k) THEN Blob(d[k].v) ELSE Nil, <<<<"set", k>>>>)

cmdGetDel(d, k) ==
  IF Is(d, k, "string") THEN Res(Drop(d, k), Blob(d[k].v), <<<<"del", k>>>>)
  ELSE Read(d, k, "string", Nil, Nil)

SetExp(d, k, at) == [d EXCEPT ![k].exp = at]

\* GETEX key [PERSIST | expiry]: the value is checked once a key is found.
cmdGetEx(d, now, k, x) ==
  LET at == resolveExpire(x, now) IN
  IF ~Is(d, k, "string") \/ x = NoExp THEN cmdGet(d, k)
  ELSE IF x[1] = "persist"
  THEN Res(SetExp(d, k, 0), Blob(d[k].v),
           IF d[k].exp # 0 THEN <<<<"persist", k>>>> ELSE <<>>)
  ELSE IF Refused(x, now) THEN Reply(d, Err)
  ELSE IF at <= now THEN Res(Drop(d, k), Blob(d[k].v), <<<<"del", k>>>>)
  ELSE Res(SetExp(d, k, at), Blob(d[k].v), <<<<"expire", k>>>>)

-----------------------------------------------------------------------------
(* Counters.                                                               *)

Overflows(cur, delta) ==
  (delta > 0 /\ cur > IntMax - delta) \/ (delta < 0 /\ cur < IntMin - delta)

\* A number replaces a missing or existing string in place.
PutNumber(d, k, n, e) ==
  Res(IF Has(d, k) THEN Touch(d, k, n) ELSE Put(d, k, "string", n), IntR(n), <<<<e, k>>>>)

incrBy(d, k, delta) ==
  IF Has(d, k) /\ (d[k].t # "string" \/ ~IsInt(d[k].v)) THEN Reply(d, Err)
  ELSE IF Overflows(Obj(d, k, 0), delta) THEN Reply(d, Err)
  ELSE PutNumber(d, k, Obj(d, k, 0) + delta, "incrby")

\* The negation of the least integer is refused before the counter is read.
cmdDecrBy(d, k, n) == IF n = IntMin THEN Reply(d, Err) ELSE incrBy(d, k, -n)

cmdIncrByFloat(d, k, delta) ==
  LET cur == Obj(d, k, 0)
      sum == FAdd(cur, delta)
  IN IF WrongType(d, k, "string") THEN Reply(d, Err)
     ELSE IF ~IsFloat(cur) THEN Reply(d, Err)
     ELSE IF sum \in {Word, PInf, NInf} THEN Reply(d, Err)
     ELSE PutNumber(d, k, sum, "incrbyfloat")

cmdAppend(d, k, x) ==
  IF WrongType(d, k, "string") THEN Reply(d, Err)
  ELSE Res(IF Has(d, k) THEN Touch(d, k, Concat(d[k].v, x)) ELSE Put(d, k, "string", x),
           Length, <<<<"append", k>>>>)

cmdStrLen(d, k) == Read(d, k, "string", IntR(0), Length)

-----------------------------------------------------------------------------
(* Several keys: one task for each key, and the whole command run alone.   *)

cmdMGet(d, ks) ==
  Reply(d, Arr([i \in DOMAIN ks |-> IF Is(d, ks[i], "string") THEN Blob(d[ks[i]].v) ELSE Nil]))

\* The pairs of MSET in argument order: the last value of a key stays.
Assign(d, ks, vs) ==
  FoldLeftDomain(LAMBDA acc, i : Put(acc, ks[i], "string", vs[i]), d, ks)

SetEvents(ks) == [i \in DOMAIN ks |-> <<"set", ks[i]>>]

cmdMSet(d, ks, vs) == Res(Assign(d, ks, vs), OK, SetEvents(ks))

cmdMSetNX(d, ks, vs) ==
  IF \E i \in DOMAIN ks : Has(d, ks[i]) THEN Reply(d, IntR(0))
  ELSE Res(Assign(d, ks, vs), IntR(1), SetEvents(ks))

cmdDel(d, ks) ==
  LET first == {i \in DOMAIN ks : Has(d, ks[i]) /\ \A j \in 1..(i - 1) : ks[j] # ks[i]}
      hit == SetToSortSeq(first, <)
  IN Res([k \in Keys |-> IF k \in ToSet(ks) THEN None ELSE d[k]], IntR(Len(hit)),
         [i \in DOMAIN hit |-> <<"del", ks[hit[i]]>>])

cmdExists(d, ks) == Reply(d, IntR(Len(SelectSeq(ks, LAMBDA k : Has(d, k)))))

-----------------------------------------------------------------------------
(* The EXPIRE family.                                                      *)

\* The absolute time EXPIRE, PEXPIRE, EXPIREAT or PEXPIREAT asks for.
ExpireAt(op, now, n) ==
  CASE op = "pexpireat" -> n
    [] op = "expireat"  -> IF n > IntMax \div Sec THEN IntMax ELSE n * Sec
    [] op = "pexpire"   -> Wrap(now + n)
    [] op = "expire"    -> IF n > (IntMax - now) \div Sec THEN IntMax ELSE now + n * Sec

\* The flags parseExpireFlags accepts: NX goes with none, GT not with LT.
ExpireFlags ==
  {<<>>, <<"nx">>, <<"xx">>, <<"gt">>, <<"lt">>, <<"xx", "gt">>, <<"gt", "xx">>,
   <<"xx", "lt">>, <<"lt", "xx">>}

\* flags is a sequence of nx, xx, gt, lt; no TTL counts as infinite.
expireCommon(d, now, op, k, n, flags) ==
  LET f == ToSet(flags)
      at == ExpireAt(op, now, n)
      cur == d[k].exp
      blocked == \/ "nx" \in f /\ cur # 0
                 \/ "xx" \in f /\ cur = 0
                 \/ "gt" \in f /\ (cur = 0 \/ at <= cur)
                 \/ "lt" \in f /\ cur # 0 /\ at >= cur
  IN IF ~Has(d, k) THEN Reply(d, IntR(0))
     ELSE IF blocked THEN Reply(d, IntR(0))
     ELSE IF at <= now THEN Res(Drop(d, k), IntR(1), <<<<"del", k>>>>)
     ELSE Res(SetExp(d, k, at), IntR(1), <<<<"expire", k>>>>)

ttlCommon(d, now, k, ms) ==
  LET rem == d[k].exp - now IN
  Reply(d, IF ~Has(d, k) THEN IntR(-2)
           ELSE IF d[k].exp = 0 THEN IntR(-1)
           ELSE IF ms THEN IntR(rem) ELSE IntR((rem + Sec \div 2) \div Sec))

cmdPersist(d, k) ==
  IF ~Has(d, k) THEN Reply(d, IntR(0))
  ELSE IF d[k].exp = 0 THEN Reply(d, IntR(0))
  ELSE Res(SetExp(d, k, 0), IntR(1), <<<<"persist", k>>>>)

cmdType(d, k) == Reply(d, Blob(IF Has(d, k) THEN d[k].t ELSE "none"))

=============================================================================
