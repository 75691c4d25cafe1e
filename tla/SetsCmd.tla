------------------------------ MODULE SetsCmd ------------------------------
(***************************************************************************)
(* The handlers of lib/commands/set.go on one database.                    *)
(***************************************************************************)
EXTENDS Db

cmdSAdd(d, k, ms) ==
  LET s0 == Obj(d, k, NewSet)
      s == FoldLeft(SAdd, s0, ms)
      n == Cardinality(s.m \ s0.m)
  IN IF WrongType(d, k, "set") THEN Reply(d, Err)
     ELSE IF n = 0 THEN Reply(d, IntR(0))
     ELSE Res(Fill(d, k, "set", s), IntR(n), <<<<"sadd", k>>>>)

\* What is left of the set after the members ms are removed.
Without(s, ms) == [s EXCEPT !.m = @ \ ms]

cmdSRem(d, k, ms) ==
  LET hit == d[k].v.m \cap ToSet(ms)
      d1 == Shrink(d, k, Without(d[k].v, hit))
  IN IF ~Is(d, k, "set") THEN Read(d, k, "set", IntR(0), Nil)
     ELSE IF hit = {} THEN Reply(d, IntR(0))
     ELSE Res(d1, IntR(Cardinality(hit)), RemEv(d1, k, "srem"))

\* SPOP: n is the count or -1; pick is the set of members drawn at random.
SPopPicks(d, k, n) ==
  IF ~Is(d, k, "set") THEN {{}}
  ELSE LET size == Cardinality(d[k].v.m)
           m == IF n < 0 THEN 1 ELSE IF n < size THEN n ELSE size
       IN {p \in SUBSET d[k].v.m : Cardinality(p) = m}

cmdSPop(d, k, n, pick) ==
  LET d1 == Shrink(d, k, Without(d[k].v, pick)) IN
  IF ~Is(d, k, "set")
  THEN Read(d, k, "set", IF n < 0 THEN Nil ELSE Arr(<<>>), Nil)
  ELSE IF n = 0 THEN Reply(d, Arr(<<>>))
  ELSE Res(d1, IF n < 0 THEN Blob(CHOOSE x \in pick : TRUE) ELSE Arr(SetToSeq(pick)),
           RemEv(d1, k, "spop"))

cmdSIsMember(d, k, x) == Read(d, k, "set", IntR(0), IntR(Bool(x \in d[k].v.m)))

cmdSMIsMember(d, k, xs) ==
  Reply(d, IF WrongType(d, k, "set") THEN Err
           ELSE Arr([i \in DOMAIN xs |-> IntR(Bool(xs[i] \in Obj(d, k, NewSet).m))]))

cmdSCard(d, k) == Read(d, k, "set", IntR(0), IntR(Cardinality(d[k].v.m)))

\* SMEMBERS in the order out, one of the orders the encoding may return.
cmdSMembers(d, k, out) == Read(d, k, "set", Arr(<<>>), Arr(out))

\* SRANDMEMBER: out is a random draw (see Hashes!Draws).
cmdSRandMember(d, k, n, out) == Read(d, k, "set", Arr(<<>>), Arr(out))

-----------------------------------------------------------------------------
(* SMOVE: the tasks of a move between two keys.                            *)

\* Phase 1: the reply that ends the move, or OK to go on.
SMoveCheck(d, src, dst, x) ==
  IF WrongType(d, src, "set") THEN Err
  ELSE IF x \notin Obj(d, src, NewSet).m THEN IntR(0)
  ELSE IF WrongType(d, dst, "set") THEN Err
  ELSE IntR(1)

SMoveRem(d, src, x) ==
  IF Is(d, src, "set") THEN Shrink(d, src, SRemove(d[src].v, x)) ELSE d

\* Mutant: a destination that does not exist is not created.
SMoveAddExisting(d, dst, x) ==
  IF Is(d, dst, "set") THEN Fill(d, dst, "set", SAdd(d[dst].v, x)) ELSE d

\* A destination of another type by now is replaced.
SMoveAdd(d, dst, x) ==
  LET d0 == IF Is(d, dst, "set") THEN d ELSE Drop(d, dst)
  IN Fill(d0, dst, "set", SAdd(Obj(d0, dst, NewSet), x))

\* Mutant: the destination's event is forgotten.
SMoveEventsSrc(src, dst, gone, added) ==
  <<<<"srem", src>>>> \o (IF gone THEN <<<<"del", src>>>> ELSE <<>>)

\* The events once both tasks are done.
SMoveEvents(src, dst, gone, added) ==
  <<<<"srem", src>>>> \o (IF gone THEN <<<<"del", src>>>> ELSE <<>>)
                      \o (IF added THEN <<<<"sadd", dst>>>> ELSE <<>>)

cmdSMove(d, src, dst, x) ==
  LET r == SMoveCheck(d, src, dst, x)
      d1 == SMoveRem(d, src, x)
      added == x \notin Obj(d1, dst, NewSet).m
  IN IF src = dst THEN cmdSIsMember(d, src, x)
     ELSE IF r # IntR(1) THEN Reply(d, r)
     ELSE Res(SMoveAdd(d1, dst, x), IntR(1), SMoveEvents(src, dst, ~Has(d1, src), added))

-----------------------------------------------------------------------------
(* Set algebra: a snapshot of every key, the result, one store.            *)

\* The members of one key when its shard reads it; Nil on another type.
SnapshotSet(d, k) == IF Is(d, k, "set") THEN d[k].v.m ELSE {}

Algebra(op, snaps) ==
  CASE op = "sinterstore" -> {x \in snaps[1] : \A i \in DOMAIN snaps : x \in snaps[i]}
    [] op = "sunionstore" -> UNION {snaps[i] : i \in DOMAIN snaps}
    [] op = "sdiffstore"  -> snaps[1] \ UNION {snaps[i] : i \in DOMAIN snaps \ {1}}

storeSetResult(d, dest, ms, e) ==
  IF ms # {}
  THEN Res(Put(d, dest, "set", SetOf(ms)), IntR(Cardinality(ms)), <<<<e, dest>>>>)
  ELSE Res(Drop(d, dest), IntR(0), IF Has(d, dest) THEN <<<<"del", dest>>>> ELSE <<>>)

\* SINTERSTORE, SUNIONSTORE and SDIFFSTORE run alone.
setStoreCmd(d, op, dest, ks) ==
  IF \E i \in DOMAIN ks : WrongType(d, ks[i], "set") THEN Reply(d, Err)
  ELSE storeSetResult(d, dest, Algebra(op, [i \in DOMAIN ks |-> SnapshotSet(d, ks[i])]), op)

cmdSInter(d, ks) ==
  Reply(d, IF \E i \in DOMAIN ks : WrongType(d, ks[i], "set") THEN Err
           ELSE Arr(SetToSeq(Algebra("sinterstore",
                                     [i \in DOMAIN ks |-> SnapshotSet(d, ks[i])]))))

\* SINTERCARD: limit 0 is none.
cmdSInterCard(d, ks, limit) ==
  LET n == Cardinality(Algebra("sinterstore", [i \in DOMAIN ks |-> SnapshotSet(d, ks[i])]))
  IN Reply(d, IF \E i \in DOMAIN ks : WrongType(d, ks[i], "set") THEN Err
              ELSE IntR(IF limit > 0 /\ n > limit THEN limit ELSE n))

\* SSCAN: the members in one of the orders the encoding may return.
cmdSScan(order, cursor, n) == scanWindow(order, cursor, n)

=============================================================================
