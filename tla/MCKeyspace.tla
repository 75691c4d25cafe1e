----------------------------- MODULE MCKeyspace -----------------------------
(* Instances of Keyspace for TLC. *)
EXTENDS Keyspace, TLC

CONSTANTS a, b, v, w, c1, c2

\* Two keys of one database on one shard: they compete for the tombstones.
OneShardOf == a :> 1 @@ b :> 1
\* A key on each of two shards: FLUSHDB reaches them one after the other.
TwoShardOf == a :> 1 @@ b :> 2
OneDBOf == a :> "db0" @@ b :> "db0"
TwoDBOf == a :> "db0" @@ b :> "db1"
OneKind == v :> "string"
TwoKinds == v :> "string" @@ w :> "hash"
OneSize == v :> 1
TwoSizes == v :> 1 @@ w :> 2
ConnSymmetry == Permutations({c1, c2})
\* Sound with OneShardOf only, where a and b are interchangeable.
SlotSymmetry == Permutations({a, b})
FullSymmetry == Permutations({c1, c2}) \cup Permutations({a, b})
=============================================================================
