------------------------------- MODULE Lists -------------------------------
(***************************************************************************)
(* The handlers of lib/commands/list.go on one database.                   *)
(***************************************************************************)
EXTENDS Db

PushName(head) == IF head THEN "lpush" ELSE "rpush"
PopName(head) == IF head THEN "lpop" ELSE "rpop"

\* LPUSH, RPUSH and, with mustExist, LPUSHX and RPUSHX.
pushCmd(d, k, head, mustExist, xs) ==
  LET l == FoldLeft(LAMBDA acc, x : PushEnd(acc, head, x), Obj(d, k, <<>>), xs)
  IN IF WrongType(d, k, "list") THEN Reply(d, Err)
     ELSE IF ~Has(d, k) /\ mustExist THEN Reply(d, IntR(0))
     ELSE Res(Fill(d, k, "list", l), IntR(Len(l)), <<<<PushName(head), k>>>>)

\* LPOP and RPOP; n is the count, or -1 without one.
popCmd(d, k, head, n) ==
  LET l == d[k].v
      m == IF n < 0 THEN 1 ELSE IF n < Len(l) THEN n ELSE Len(l)
      d1 == Shrink(d, k, Rest(l, head, m))
  IN IF WrongType(d, k, "list") THEN Reply(d, Err)
     ELSE IF ~Has(d, k) THEN Reply(d, Nil)
     ELSE IF n = 0 THEN Reply(d, Arr(<<>>))
     ELSE Res(d1, IF n < 0 THEN Blob(PeekEnd(l, head)) ELSE Arr(PopMany(l, head, m)),
              RemEv(d1, k, PopName(head)))

cmdLLen(d, k) == Read(d, k, "list", IntR(0), IntR(Len(d[k].v)))

cmdLIndex(d, k, i) ==
  Read(d, k, "list", Nil,
       LET p == At(Len(d[k].v), i) IN IF p = 0 THEN Nil ELSE Blob(d[k].v[p]))

cmdLRange(d, k, start, stop) ==
  Read(d, k, "list", Arr(<<>>), Arr(Cut(d[k].v, start, stop)))

cmdLSet(d, k, i, x) ==
  LET p == At(Len(d[k].v), i) IN
  IF ~Is(d, k, "list") THEN Reply(d, Err)
  ELSE IF p = 0 THEN Reply(d, Err)
  ELSE Res(Touch(d, k, [d[k].v EXCEPT ![p] = x]), OK, <<<<"lset", k>>>>)

\* The place of the first element equal to x, 0 when there is none.
FirstOf(l, x) == SelectInSeq(l, LAMBDA y : y = x)

cmdLInsert(d, k, before, pivot, x) ==
  LET i == FirstOf(d[k].v, pivot)
      l == InsertAt(d[k].v, IF before THEN i ELSE i + 1, x)
  IN IF ~Is(d, k, "list") THEN Read(d, k, "list", IntR(0), Nil)
     ELSE IF i = 0 THEN Reply(d, IntR(-1))
     ELSE Res(Touch(d, k, l), IntR(Len(l)), <<<<"linsert", k>>>>)

\* The positions LREM removes: n from the head, -n from the tail, 0 all.
Doomed(l, n, x) ==
  LET hits == {i \in DOMAIN l : l[i] = x}
      Ahead(i) == Cardinality({j \in hits : j < i})
      Behind(i) == Cardinality({j \in hits : j > i})
  IN {i \in hits : n = 0 \/ (n > 0 /\ Ahead(i) < n) \/ (n < 0 /\ Behind(i) < -n)}

\* Mutant: the emptied list stays in the keyspace.
cmdLRemKeeps(d, k, n, x) ==
  LET l == d[k].v
      out == Doomed(l, n, x)
      keep == SetToSortSeq(DOMAIN l \ out, <)
      d1 == Touch(d, k, [i \in DOMAIN keep |-> l[keep[i]]])
  IN IF ~Is(d, k, "list") THEN Read(d, k, "list", IntR(0), Nil)
     ELSE IF out = {} THEN Reply(d, IntR(0))
     ELSE Res(d1, IntR(Cardinality(out)), RemEv(d1, k, "lrem"))

cmdLRem(d, k, n, x) ==
  LET l == d[k].v
      out == Doomed(l, n, x)
      keep == SetToSortSeq(DOMAIN l \ out, <)
      d1 == Shrink(d, k, [i \in DOMAIN keep |-> l[keep[i]]])
  IN IF ~Is(d, k, "list") THEN Read(d, k, "list", IntR(0), Nil)
     ELSE IF out = {} THEN Reply(d, IntR(0))
     ELSE Res(d1, IntR(Cardinality(out)), RemEv(d1, k, "lrem"))

\* The event is posted even when nothing was trimmed.
cmdLTrim(d, k, start, stop) ==
  LET d1 == Shrink(d, k, Cut(d[k].v, start, stop)) IN
  IF ~Is(d, k, "list") THEN Read(d, k, "list", OK, Nil)
  ELSE Res(d1, OK, RemEv(d1, k, "ltrim"))

-----------------------------------------------------------------------------
(* LMOVE and RPOPLPUSH: the tasks of a move between two keys.              *)

\* Same key: one task.
Rotate(d, k, from, to) ==
  LET l == d[k].v
      x == PeekEnd(l, from)
  IN IF ~Is(d, k, "list") THEN Read(d, k, "list", Nil, Nil)
     ELSE Res(Touch(d, k, PushEnd(PopEnd(l, from), to, x)), Blob(x),
              <<<<PushName(to), k>>, <<PopName(from), k>>>>)

\* Phase 1: the reply that ends the move, or the element it will carry.
MovePeek(d, src, dst, from) ==
  IF WrongType(d, src, "list") THEN Err
  ELSE IF ~Has(d, src) THEN Nil
  ELSE IF WrongType(d, dst, "list") THEN Err
  ELSE Blob(PeekEnd(d[src].v, from))

\* Phase 2: a destination of another type by now is replaced.
MovePut(d, dst, to, x) ==
  LET d0 == IF Is(d, dst, "list") THEN d ELSE Drop(d, dst)
  IN Res(Fill(d0, dst, "list", PushEnd(Obj(d0, dst, <<>>), to, x)), Nil,
         <<<<PushName(to), dst>>>>)

\* Mutant: the element is cut from the other end.
MoveCutOther(d, src, from) ==
  LET d1 == Shrink(d, src, PopEnd(d[src].v, ~from)) IN
  IF ~Is(d, src, "list") THEN Reply(d, Nil)
  ELSE Res(d1, Nil, RemEv(d1, src, PopName(from)))

\* Phase 3: whatever the source's end holds now is popped.
MoveCut(d, src, from) ==
  LET d1 == Shrink(d, src, PopEnd(d[src].v, from)) IN
  IF ~Is(d, src, "list") THEN Reply(d, Nil)
  ELSE Res(d1, Nil, RemEv(d1, src, PopName(from)))

lmoveCmd(d, src, dst, from, to) ==
  LET r == MovePeek(d, src, dst, from)
      put == MovePut(d, dst, to, r[2])
      cut == MoveCut(put.d, src, from)
  IN IF src = dst THEN Rotate(d, src, from, to)
     ELSE IF r[1] # "blob" THEN Reply(d, r)
     ELSE Res(cut.d, r, put.ev \o cut.ev)

\* LPOS: matches of x counted from rank (negative: from the tail), at most
\* count of them (0: all, -1: one, as a single reply), among maxlen elements.
cmdLPos(d, k, x, rank, count, maxlen) ==
  LET l == d[k].v
      n == Len(l)
      Pos(i) == IF rank > 0 THEN i ELSE n + 1 - i
      seen == IF maxlen = 0 \/ maxlen > n THEN n ELSE maxlen
      skip == IF rank < 0 THEN -rank ELSE rank
      hits == SelectSeq([i \in 1..seen |-> i], LAMBDA i : l[Pos(i)] = x)
      upto == IF count < 0 THEN skip ELSE IF count = 0 THEN n ELSE skip + count - 1
      out == SubSeq(hits, skip, IF upto > Len(hits) THEN Len(hits) ELSE upto)
      pos == [i \in DOMAIN out |-> Pos(out[i]) - 1]
  IN Read(d, k, "list", IF count >= 0 THEN Arr(<<>>) ELSE Nil,
          IF count >= 0 THEN Arr(pos) ELSE IF pos = <<>> THEN Nil ELSE IntR(pos[1]))

=============================================================================
