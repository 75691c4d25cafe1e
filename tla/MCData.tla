------------------------------- MODULE MCData -------------------------------
(***************************************************************************)
(* The data commands on one or two keys, one configuration per family.     *)
(***************************************************************************)
EXTENDS Data

CONSTANTS k1, k2

Conf(fam, keys, elems, ints, size, aof) ==
  [fam |-> fam, keys |-> keys, elems |-> elems, ints |-> ints, times |-> {1, 2},
   size |-> size, aof |-> aof]

One == <<k1>>
Two == <<k1, k2>>

MCConfs ==
  {Conf("string", Two, {1, Word}, {1, 7, -8}, 2, TRUE),
   Conf("time", One, {Word}, {}, 2, TRUE),
   [Conf("time", One, {Word}, {}, 2, FALSE) EXCEPT !.times = {-1, 1, 7}],
   Conf("list", Two, {1, Word}, {-2, -1, 0, 1}, 2, TRUE),
   Conf("list", One, {1, Word}, {-4, -2, -1, 0, 1, 3}, 3, FALSE),
   Conf("hash", One, {1, 2, Word}, {7}, 3, TRUE),
   Conf("set", Two, {1, 2, 3, Word}, {}, 3, TRUE),
   Conf("zset", One, {1, 2, Word}, {2, PInf, NInf}, 3, TRUE),
   Conf("zset", One, {1, Word}, {1, 2}, 2, FALSE),
   Conf("zstore", Two, {1}, {2, PInf}, 2, TRUE),
   Conf("queue", Two, {1}, {}, 4, FALSE),
   Conf("move", Two, {1, 2, Word}, {}, 3, FALSE),
   Conf("scan", One, {1, 2, 3, 4}, {0, 1}, 4, FALSE)}

=============================================================================
