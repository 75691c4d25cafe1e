------------------------------- MODULE MCConn -------------------------------
(* Instances of Conn for TLC: what each of two clients sends. *)
EXTENDS Conn, TLC

CONSTANTS c1, c2

Cmd(n) == [name |-> n, ok |-> TRUE, arg |-> ""]
Arg(n, a) == [name |-> n, ok |-> TRUE, arg |-> a]
Short(n) == [name |-> n, ok |-> FALSE, arg |-> ""]
Two(a, b) == c1 :> a @@ c2 :> b

\* Transactions with refused commands and blocking pops, beside scripts, SCRIPT KILL and
\* maxmemory.
Tx == [top |-> Two({Cmd("multi"), Cmd("exec"), Cmd("discard"), Cmd("blpop"), Cmd("watch"),
                    Cmd("unwatch"), Cmd("nosuch"), Short("set"), Arg("script", "s1"),
                    Arg("script", "kill")},
                   {Arg("eval", "s1"), Arg("config", "limit"), Arg("config", "nolimit"),
                    Cmd("set"), Cmd("save")}),
       inMulti |-> Two({Cmd("multi"), Cmd("watch"), Cmd("set"), Cmd("blpop"), Cmd("nosuch"),
                        Short("set"), Cmd("exec"), Arg("exec", "bad"), Cmd("discard")}, {})]

\* Scripts on pooled VMs, with FLUSH.
Pool == [top |-> Two({Arg("eval", "s1"), Arg("eval", "s2")},
                     {Arg("evalsha", "s1"), Arg("script", "flush")}),
         inMulti |-> Two({}, {})]

\* Scripts and SCRIPT FLUSH inside EXEC, beside another script.
InExec == [top |-> Two({Cmd("multi")}, {Arg("eval", "s2"), Arg("script", "kill"), Cmd("get")}),
           inMulti |-> Two({Arg("eval", "s1"), Arg("script", "flush"), Cmd("exec")}, {})]

\* Subscribe mode, protocol switches, passwords, RESET and QUIT.
Modes == [top |-> Two({Cmd("subscribe"), Cmd("unsubscribe"), Arg("hello", "2"), Arg("hello", "3"),
                       Cmd("multi"), Cmd("reset"), Cmd("quit"), Arg("auth", "pass"),
                       Arg("auth", "bad"), Arg("hello", "bad"), Cmd("ping"), Cmd("exec")},
                      {Arg("config", "pass"), Arg("config", "nopass"), Arg("config", "bad"),
                       Cmd("auth"), Arg("hello", "pass"), Cmd("subscribe"), Arg("eval", "s1")}),
          inMulti |-> Two({Cmd("subscribe"), Cmd("unsubscribe"), Arg("hello", "2"), Cmd("reset"),
                           Cmd("exec"), Cmd("auth"), Cmd("discard")}, {})]

SoundMixes == {Tx, Pool, InExec, Modes}

\* EVAL and SCRIPT FLUSH on two connections.
FlushMix == [top |-> Two({Arg("eval", "s1")}, {Arg("script", "flush")}), inMulti |-> Two({}, {})]
FlushMixes == {FlushMix}

\* A blocking pop queued behind a script.
Nested == [top |-> Two({Cmd("multi")}, {Cmd("set")}),
           inMulti |-> Two({Arg("eval", "s1"), Cmd("blpop"), Cmd("exec")}, {})]
NestedMixes == {Nested}
=============================================================================
