------------------------------ MODULE MCSave ------------------------------
(* Instances of Save for TLC. *)
EXTENDS Save

Rule(s, n) == [seconds |-> s, changes |-> n]

\* BGSAVE and two save rules, with a failing file operation and a crash.
Background == [rules |-> {Rule(2, 1), Rule(1, 2)}, restored |-> TRUE, ops |-> {"BGSAVE"},
               maxWrites |-> 1, maxAge |-> 2, maxFails |-> 1, maxCrashes |-> 1]

\* SAVE and the shutdown save; the rule is there to ask for the latter.
Blocking == [rules |-> {Rule(9, 1)}, restored |-> FALSE, ops |-> {"SAVE", "CLOSE"},
             maxWrites |-> 1, maxAge |-> 0, maxFails |-> 1, maxCrashes |-> 1]

\* BGSAVE together with SAVE, and together with Close.
SaveAndBg == [rules |-> {}, restored |-> FALSE, ops |-> {"SAVE", "BGSAVE"},
              maxWrites |-> 0, maxAge |-> 0, maxFails |-> 0, maxCrashes |-> 0]
CloseAndBg == [rules |-> {Rule(9, 1)}, restored |-> FALSE, ops |-> {"BGSAVE", "CLOSE"},
               maxWrites |-> 1, maxAge |-> 0, maxFails |-> 0, maxCrashes |-> 0]

SoundConfs == {Background, Blocking, SaveAndBg, CloseAndBg}

\* Saves that overlap, for SnapshotAtomic.
OverlapConfs == {SaveAndBg, CloseAndBg}

\* One rule, on a server that has started empty.
Booted == [rules |-> {Rule(1, 1)}, restored |-> FALSE, ops |-> {},
           maxWrites |-> 1, maxAge |-> 1, maxFails |-> 0, maxCrashes |-> 0]
BootConfs == {Booted}
=============================================================================
