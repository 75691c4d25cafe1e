--------------------------------- MODULE Db ---------------------------------
(***************************************************************************)
(* One logical database as the command handlers of lib/commands see it:    *)
(* entries with their type, value, expiry and recorded size, the shard     *)
(* calls a handler makes on them, and the result of a handler: the         *)
(* database after it, its reply and the keyspace events it posts.          *)
(*                                                                         *)
(* A command is a tuple: its name, then its parsed arguments.  Arguments   *)
(* that the parser refuses never reach a handler's task, change nothing    *)
(* and are left out; so are the rendering of replies and WITHSCORES.       *)
(***************************************************************************)
EXTENDS Objects

CONSTANTS
  Keys,    \* the keys of the database
  None     \* a key without an entry

\* entryMem, down to the part that varies with the content.
Weigh(ty, v) ==
  CASE ty = "string" -> 1
    [] ty = "list"   -> Len(v)
    [] ty = "hash"   -> Len(v.pairs)
    [] ty = "set"    -> Cardinality(v.m)
    [] ty = "zset"   -> Len(v.sl)

Has(d, k) == d[k] # None
Is(d, k, ty) == Has(d, k) /\ d[k].t = ty

\* getColl: the entry is missing, of the wrong type, or holds the object.
WrongType(d, k, ty) == Has(d, k) /\ d[k].t # ty
Obj(d, k, new) == IF Has(d, k) THEN d[k].v ELSE new

\* Lookup drops an entry whose time has come before a handler sees it.
Due(d, k, now) == Has(d, k) /\ d[k].exp > 0 /\ d[k].exp <= now
Lookup(d, ks, now) == [k \in Keys |-> IF k \in ks /\ Due(d, k, now) THEN None ELSE d[k]]

Drop(d, k) == [d EXCEPT ![k] = None]

\* Store of a fresh entry with expiry exp; storeColl is Put with none.
PutEx(d, k, ty, v, exp) ==
  [d EXCEPT ![k] = [t |-> ty, v |-> v, exp |-> exp, mem |-> Weigh(ty, v)]]
Put(d, k, ty, v) == PutEx(d, k, ty, v, 0)

\* An in-place mutation followed by Touch.
Touch(d, k, v) ==
  [d EXCEPT ![k] = [t |-> d[k].t, v |-> v, exp |-> d[k].exp, mem |-> Weigh(d[k].t, v)]]

\* The handlers that store a fresh, still empty collection and fill it after
\* that: the recorded size is the empty one's until the next Touch.
Fill(d, k, ty, v) ==
  IF Has(d, k) THEN Touch(d, k, v)
  ELSE [d EXCEPT ![k] = [t |-> ty, v |-> v, exp |-> 0, mem |-> 0]]

\* Touch, then Delete when nothing is left.
Shrink(d, k, v) == IF Weigh(d[k].t, v) = 0 THEN Drop(d, k) ELSE Touch(d, k, v)

-----------------------------------------------------------------------------
(* Replies and results.                                                    *)

Err == <<"err">>
Nil == <<"nil">>
OK == <<"ok">>
Length == <<"len">>   \* the length of a string, which is left out
IntR(n) == <<"int", n>>
Blob(x) == <<"blob", x>>
Arr(s) == <<"arr", s>>

Bool(b) == IF b THEN 1 ELSE 0

Res(d, r, ev) == [d |-> d, r |-> r, ev |-> ev]
Reply(d, r) == Res(d, r, <<>>)

\* The event of a removal, with the "del" that follows when the key went.
RemEv(d, k, e) == IF Has(d, k) THEN <<<<e, k>>>> ELSE <<<<e, k>>, <<"del", k>>>>

\* A read of a collection: an error on another type, miss without an entry.
Read(d, k, ty, miss, r) ==
  Reply(d, IF WrongType(d, k, ty) THEN Err ELSE IF ~Has(d, k) THEN miss ELSE r)

\* Mutant: the next cursor skips an item.
scanWindowSkips(items, cursor, n) ==
  LET end == IF cursor + n >= Len(items) THEN Len(items) ELSE cursor + n
  IN IF cursor > Len(items) THEN [out |-> <<>>, next |-> 0]
     ELSE [out |-> SubSeq(items, cursor + 1, end),
           next |-> IF end >= Len(items) THEN 0 ELSE end + 1]

\* scanWindow: up to n items from an offset cursor, and the next cursor.
scanWindow(items, cursor, n) ==
  LET end == IF cursor + n >= Len(items) THEN Len(items) ELSE cursor + n
  IN IF cursor > Len(items) THEN [out |-> <<>>, next |-> 0]
     ELSE [out |-> SubSeq(items, cursor + 1, end),
           next |-> IF end >= Len(items) THEN 0 ELSE end]

=============================================================================
