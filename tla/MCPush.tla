------------------------------- MODULE MCPush -------------------------------
(* Two RESP connections with pub/sub, MONITOR, notifications and QUIT.     *)
EXTENDS Push

a == "a"
b == "b"
Cmd(name, args) == [name |-> name, args |-> args]
Case(pa, pb, slow, killed, hangs) ==
  [prog |-> (a :> pa @@ b :> pb), slow |-> slow, killed |-> killed, hangs |-> hangs,
   flags |-> {"K", "E", "$"}]

MCClients == {a, b}
MCChannels == {"news", "keyspace", "keyevent"}
MCPatterns == <<"key*", "n*">>
MCMatches == {<<"key*", "keyspace">>, <<"key*", "keyevent">>, <<"n*", "news">>}

Sub == Cmd("subscribe", <<"news">>)
Pub == Cmd("publish", <<"news">>)
Ping == Cmd("ping", <<>>)

\* Subscribing and leaving while another client publishes; the ring grows and wraps.
Come == Case(<<Ping, Cmd("subscribe", <<"keyevent", "news">>), Cmd("unsubscribe", <<>>)>>,
             <<Pub>>, {}, {}, {})
\* Two publishers, one of them subscribed.
Self == Case(<<Sub, Pub>>, <<Pub>>, {}, {}, {})
\* A subscriber that stops reading.
Slow == Case(<<Sub, Ping>>, <<Pub, Pub, Pub>>, {a}, {}, {a})
\* MONITOR and keyspace notifications, RESET, QUIT without subscriptions.
Feed == Case(<<Cmd("monitor", <<>>), Cmd("reset", <<>>)>>,
             <<Cmd("set", <<>>), Cmd("quit", <<>>)>>, {}, {}, {})
Note == Case(<<Cmd("psubscribe", <<"key*">>), Cmd("quit", <<>>)>>, <<Cmd("set", <<>>)>>, {}, {}, {})
Own == Case(<<Cmd("psubscribe", <<"key*", "n*">>), Cmd("set", <<>>), Pub, Cmd("quit", <<>>), Ping>>,
            <<Cmd("punsubscribe", <<"n*">>), Cmd("unsubscribe", <<>>)>>, {}, {}, {})
\* An administrator closes a connection that reads.
Killed == Case(<<Sub>>, <<Pub, Pub>>, {}, {a}, {})
\* ... and one that does not.
Stuck == Case(<<Sub>>, <<Pub>>, {a}, {a}, {})

SoundCases == {Come, Self, Slow, Feed, Note, Own, Killed}
StuckCases == {Stuck, Slow}
=============================================================================
