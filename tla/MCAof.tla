------------------------------- MODULE MCAof -------------------------------
(* Instances of Aof for TLC. *)
EXTENDS Aof, TLC

CONSTANTS a, b, c1, c2

TwoShards == a :> 1 @@ b :> 2

Op(kind, ks) == [kind |-> kind, keys |-> ks]

\* The commands of c1, and of c2.
Work(s1, s2) == c1 :> s1 @@ c2 :> s2

\* appendfsync always, every kind of command from one connection, DEL reaching
\* both shards, and crashes that may tear the record they cut.
Crashing == [cmds |-> Work({Op("incr", <<a>>), Op("incr", <<b>>), Op("del", <<a, b>>), NoCmd}, {}),
             always |-> TRUE, evicts |-> FALSE, tears |-> {"mid"}, maxCmds |-> 3,
             maxRewrites |-> 0, maxCrashes |-> 2]

\* Two connections on keys of their own, commands that may be repeated, a
\* rewrite and a crash.
Rewriting == [cmds |-> Work({Op("set", <<a>>), Op("del", <<a>>)}, {Op("set", <<b>>)}),
              always |-> TRUE, evicts |-> FALSE, tears |-> {}, maxCmds |-> 2,
              maxRewrites |-> 1, maxCrashes |-> 1]

\* appendfsync everysec, eviction, a rewrite, torn records and two crashes.
Lossy == [cmds |-> Work({Op("incr", <<a>>), NoCmd}, {}),
          always |-> FALSE, evicts |-> TRUE, tears |-> {"mid", "edge"}, maxCmds |-> 2,
          maxRewrites |-> 1, maxCrashes |-> 2]

SoundConfs == {Crashing, Rewriting, Lossy}

\* One INCR and one rewrite.
Duplicating == [cmds |-> Work({Op("incr", <<a>>)}, {}),
                always |-> TRUE, evicts |-> FALSE, tears |-> {}, maxCmds |-> 1,
                maxRewrites |-> 1, maxCrashes |-> 0]
DupConfs == {Duplicating}
=============================================================================
