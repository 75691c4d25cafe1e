------------------------------ MODULE Objects ------------------------------
(***************************************************************************)
(* The values of lib/types and the parsing helpers of the commands.        *)
(*                                                                         *)
(* A string is an integer of the (scaled down) int64 range when it reads   *)
(* as one, PInf or NInf when it reads as an infinity, and Word when it     *)
(* reads as no number.  Lists are sequences, hashes the insertion-ordered  *)
(* pairs with the field index of the large encoding, sets a member set     *)
(* with its encoding, sorted sets the member-to-score map and the sequence *)
(* the skip list holds.                                                    *)
(***************************************************************************)
EXTENDS Integers, Sequences, FiniteSets, SequencesExt

CONSTANTS
  IntMax,      \* the largest int64 of the scaled-down width
  Word,        \* a string that is no number
  HashCap,     \* HashMaxListpackEntries
  IntsetCap    \* SetMaxIntsetEntries

IntMin == -IntMax - 1
PInf == 1000
NInf == -1000

ASSUME ObjectsAssumption ==
  /\ IntMax \in 1..999 /\ HashCap \in Nat \ {0} /\ IntsetCap \in Nat \ {0}
  /\ Word \notin Int

Str == (IntMin..IntMax) \cup {PInf, NInf, Word}

-----------------------------------------------------------------------------
(* Numbers.                                                                *)

\* parseIntStrict accepts exactly the canonical decimal int64s.
IsInt(x) == x \in IntMin..IntMax

\* parseFloat: every number and both infinities.
IsFloat(x) == x # Word

\* Two's complement addition of the int64 type.
Wrap(n) == ((n - IntMin) % (2 * (IntMax + 1))) + IntMin

\* Float addition: finite overflow is infinite; Word stands for NaN.
FAdd(a, b) ==
  IF {a, b} = {PInf, NInf} THEN Word
  ELSE IF PInf \in {a, b} \/ (a # NInf /\ b # NInf /\ a + b > IntMax) THEN PInf
  ELSE IF NInf \in {a, b} \/ a + b < IntMin THEN NInf
  ELSE a + b

\* Byte order of the members: numbers of one digit, then words.
LexLess(a, b) == a # Word /\ (b = Word \/ a < b)

\* Appending b to a: two numbers may read as a number again.
Concat(a, b) ==
  IF IsInt(a) /\ IsInt(b) /\ a > 0 /\ b >= 0 /\ 10 * a + b <= IntMax
  THEN 10 * a + b ELSE Word

\* A start..stop window of a sequence of length n, as 1-based positions:
\* negative indexes count from the end, then both ends are clamped.
Window(n, start, stop) ==
  LET lo == IF start < 0 THEN n + start ELSE start
      hi == IF stop < 0 THEN n + stop ELSE stop
  IN <<(IF lo < 0 THEN 0 ELSE lo) + 1, (IF hi >= n THEN n - 1 ELSE hi) + 1>>

Cut(s, start, stop) ==
  LET w == Window(Len(s), start, stop) IN SubSeq(s, w[1], w[2])

\* Mutant: the last element counts as out of range.
AtShort(n, i) == LET j == IF i < 0 THEN n + i ELSE i
                 IN IF j >= 0 /\ j < n - 1 THEN j + 1 ELSE 0

\* types.List.At: the 1-based position an index names, 0 when out of range.
At(n, i) == LET j == IF i < 0 THEN n + i ELSE i
            IN IF j >= 0 /\ j < n THEN j + 1 ELSE 0

-----------------------------------------------------------------------------
(* Lists.                                                                  *)

PushEnd(l, head, x) == IF head THEN <<x>> \o l ELSE Append(l, x)
PeekEnd(l, head) == IF head THEN Head(l) ELSE l[Len(l)]
PopEnd(l, head) == IF head THEN Tail(l) ELSE SubSeq(l, 1, Len(l) - 1)

\* n elements popped off one end, in the order they leave.
PopMany(l, head, n) ==
  IF head THEN SubSeq(l, 1, n)
  ELSE [i \in 1..n |-> l[Len(l) + 1 - i]]

Rest(l, head, n) ==
  IF head THEN SubSeq(l, n + 1, Len(l)) ELSE SubSeq(l, 1, Len(l) - n)

-----------------------------------------------------------------------------
(* Hashes.                                                                 *)

NewHash == [pairs |-> <<>>, big |-> FALSE, idx |-> <<>>]

Fields(h) == {h.pairs[i][1] : i \in DOMAIN h.pairs}

PosOf(h, f) == CHOOSE i \in DOMAIN h.pairs : h.pairs[i][1] = f

\* Hash.Get through the index once there is one, through the pairs before.
HHas(h, f) == IF h.big THEN f \in DOMAIN h.idx ELSE f \in Fields(h)
HGet(h, f) == h.pairs[IF h.big THEN h.idx[f] ELSE PosOf(h, f)][2]

Index(pairs) ==
  [f \in {pairs[i][1] : i \in DOMAIN pairs} |->
     CHOOSE i \in DOMAIN pairs : pairs[i][1] = f]

\* Mutant: in the large encoding an overwritten field is indexed as new.
HSetReindexes(h, f, v) ==
  LET pairs == IF HHas(h, f)
               THEN [h.pairs EXCEPT ![IF h.big THEN h.idx[f] ELSE PosOf(h, f)] = <<f, v>>]
               ELSE Append(h.pairs, <<f, v>>)
      promote == h.big \/ Len(pairs) > HashCap \/ Word \in {f, v}
  IN [pairs |-> pairs, big |-> promote,
      idx |-> IF ~promote THEN <<>>
              ELSE IF ~h.big THEN Index(pairs)
              ELSE [g \in DOMAIN h.idx \cup {f} |-> IF g = f THEN Len(pairs) ELSE h.idx[g]]]

\* Word stands for the strings longer than HashMaxListpackValue.
HSet(h, f, v) ==
  LET pairs == IF HHas(h, f)
               THEN [h.pairs EXCEPT ![IF h.big THEN h.idx[f] ELSE PosOf(h, f)] = <<f, v>>]
               ELSE Append(h.pairs, <<f, v>>)
      promote == ~HHas(h, f) /\ (Len(pairs) > HashCap \/ Word \in {f, v})
  IN IF h.big
     THEN [pairs |-> pairs, big |-> TRUE,
           idx |-> IF HHas(h, f) THEN h.idx
                   ELSE [g \in DOMAIN h.idx \cup {f} |->
                           IF g = f THEN Len(pairs) ELSE h.idx[g]]]
     ELSE [pairs |-> pairs, big |-> promote,
           idx |-> IF promote THEN Index(pairs) ELSE <<>>]

\* The survivors keep their order; the index is renumbered behind the gap.
HDel(h, f) ==
  IF ~HHas(h, f) THEN h
  ELSE LET i == IF h.big THEN h.idx[f] ELSE PosOf(h, f)
       IN [pairs |-> RemoveAt(h.pairs, i), big |-> h.big,
           idx |-> IF h.big
                   THEN [g \in DOMAIN h.idx \ {f} |->
                           IF h.idx[g] > i THEN h.idx[g] - 1 ELSE h.idx[g]]
                   ELSE <<>>]

-----------------------------------------------------------------------------
(* Sets.                                                                   *)

NewSet == [int |-> TRUE, m |-> {}]

\* Adding a non-integer, or one integer too many, promotes for good.
SAdd(s, x) ==
  [int |-> s.int /\ (x \in s.m \/ (IsInt(x) /\ Cardinality(s.m) < IntsetCap)),
   m |-> s.m \cup {x}]

SRemove(s, x) == [s EXCEPT !.m = @ \ {x}]

\* A set holding ms: the encoding does not depend on the insertion order.
SetOf(ms) ==
  [int |-> (\A x \in ms : IsInt(x)) /\ Cardinality(ms) <= IntsetCap, m |-> ms]

\* The orders Members() may return: ascending for an intset, else any.
Orders(s) ==
  IF s.int THEN {SetToSortSeq(s.m, <)} ELSE SetToSeqs(s.m)

-----------------------------------------------------------------------------
(* Sorted sets.                                                            *)

NewZSet == [dict |-> <<>>, sl |-> <<>>]

\* cmpZElem: by score, then by member.
ZLess(a, b) == a[1] < b[1] \/ (a[1] = b[1] /\ LexLess(a[2], b[2]))

\* The skip list's insert: in front of the first element not less than el.
SlInsert(sl, el) ==
  LET before == SelectSeq(sl, LAMBDA x : ZLess(x, el))
  IN InsertAt(sl, Len(before) + 1, el)

ZHas(z, m) == m \in DOMAIN z.dict

\* Mutant: an updated member keeps its old place in the skip list.
ZAddStale(z, m, sc) ==
  IF ZHas(z, m) THEN [z EXCEPT !.dict[m] = sc]
  ELSE [dict |-> [x \in DOMAIN z.dict \cup {m} |-> IF x = m THEN sc ELSE z.dict[x]],
        sl |-> SlInsert(z.sl, <<sc, m>>)]

ZAdd(z, m, sc) ==
  LET base == IF ZHas(z, m) THEN SelectSeq(z.sl, LAMBDA x : x[2] # m) ELSE z.sl
  IN IF ZHas(z, m) /\ z.dict[m] = sc THEN z
     ELSE [dict |-> [x \in DOMAIN z.dict \cup {m} |-> IF x = m THEN sc ELSE z.dict[x]],
           sl |-> SlInsert(base, <<sc, m>>)]

ZRemove(z, m) ==
  [dict |-> [x \in DOMAIN z.dict \ {m} |-> z.dict[x]],
   sl |-> SelectSeq(z.sl, LAMBDA x : x # <<z.dict[m], m>>)]

\* ZSet.Rank, 0-based.
ZRank(z, m) ==
  Len(SelectSeq(z.sl, LAMBDA x : ZLess(x, <<z.dict[m], m>>)))

\* ZSet.RemoveRankRange: the 1-based positions lo..hi.
ZCut(z, lo, hi) ==
  LET gone == {z.sl[i][2] : i \in lo..hi}
  IN [dict |-> [x \in DOMAIN z.dict \ gone |-> z.dict[x]],
      sl |-> SelectSeq(z.sl, LAMBDA x : x[2] \notin gone)]

\* sort.Search: the first index in 0..n at which the monotone test holds,
\* found by halving; f is the test on 1-based positions 1..n.
sortSearch(n, f) ==
  LET S[lo \in 0..n, hi \in 0..n] ==
        IF lo >= hi THEN lo
        ELSE LET mid == (lo + hi) \div 2
             IN IF f[mid + 1] THEN S[lo, mid] ELSE S[mid + 1, hi]
  IN S[0, n]

\* Mutant: an exclusive maximum is taken as inclusive.
ScoreRangeLocIncl(z, min, max) ==
  LET n == Len(z.sl) IN
  <<sortSearch(n, [i \in 1..n |-> IF min.excl THEN z.sl[i][1] > min.val
                                             ELSE z.sl[i][1] >= min.val]),
    sortSearch(n, [i \in 1..n |-> z.sl[i][1] > max.val])>>

\* The window [lo, hi) of ranks inside a score range.
ScoreRangeLoc(z, min, max) ==
  LET n == Len(z.sl) IN
  <<sortSearch(n, [i \in 1..n |-> IF min.excl THEN z.sl[i][1] > min.val
                                             ELSE z.sl[i][1] >= min.val]),
    sortSearch(n, [i \in 1..n |-> IF max.excl THEN z.sl[i][1] >= max.val
                                             ELSE z.sl[i][1] > max.val])>>

\* The same over members; a bound is "-", "+", "[" or "(" with its member.
LexRangeLoc(z, min, max) ==
  LET n == Len(z.sl)
      Above(i, b) == LexLess(b.val, z.sl[i][2])
      From(i, b) == b.val = z.sl[i][2] \/ Above(i, b)
      lo == sortSearch(n, [i \in 1..n |-> IF min.kind = "(" THEN Above(i, min)
                                          ELSE From(i, min)])
      hi == sortSearch(n, [i \in 1..n |-> IF max.kind = "(" THEN From(i, max)
                                          ELSE Above(i, max)])
  IN <<CASE min.kind = "-" -> 0 [] min.kind = "+" -> n [] OTHER -> lo,
       CASE max.kind = "-" -> 0 [] max.kind = "+" -> n [] OTHER -> hi>>

=============================================================================
