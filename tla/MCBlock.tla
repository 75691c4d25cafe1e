------------------------------ MODULE MCBlock ------------------------------
(* Instances of Block for TLC. *)
EXTENDS Block, TLC

CONSTANTS k1, k2, c1, c2, c3

Cmds(m1, m2, m3) == c1 :> m1 @@ c2 :> m2 @@ c3 :> m3

\* Three clients block on one key without timeouts.
OneKey == [types |-> {"list"}, keySeqs |-> {<<k1>>}, moves |-> {}, timeouts |-> {FALSE}, inExec |-> {FALSE},
           stores |-> FALSE, deletes |-> TRUE, mayClose |-> FALSE, maxElems |-> 3,
           maxCmds |-> Cmds(3, 3, 3)]

\* Two clients, pops of lists and sorted sets on one key and on two,
\* timeouts, shutdown.
TwoKeys == [types |-> Types, keySeqs |-> {<<k2>>, <<k1, k2>>}, moves |-> {}, timeouts |-> BOOLEAN,
            inExec |-> {FALSE}, stores |-> TRUE, deletes |-> TRUE, mayClose |-> TRUE,
            maxElems |-> 2, maxCmds |-> Cmds(2, 2, 0)]

\* Two clients, LMOVE and BLMOVE onto another key and onto the same one,
\* with keys of either type, some inside EXEC.
Moving == [types |-> Types, keySeqs |-> {<<k2>>, <<k1, k2>>}, moves |-> {<<k1, k2>>, <<k1, k1>>},
           timeouts |-> {FALSE}, inExec |-> BOOLEAN, stores |-> FALSE, deletes |-> FALSE,
           mayClose |-> FALSE, maxElems |-> 2, maxCmds |-> Cmds(2, 2, 0)]

SoundConfs == {OneKey, TwoKeys, Moving}

\* Blocking pops on one key, some with a timeout.
Timed == [OneKey EXCEPT !.timeouts = BOOLEAN, !.deletes = FALSE, !.maxCmds = Cmds(2, 2, 2)]
TimedConfs == {Timed}

\* Lists and sorted sets on one key.
MixedConfs == {[OneKey EXCEPT !.types = Types]}
=============================================================================
