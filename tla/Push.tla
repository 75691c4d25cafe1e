-------------------------------- MODULE Push --------------------------------
(***************************************************************************)
(* Pub/sub, MONITOR and keyspace notifications on RESP connections: the    *)
(* handlers (lib/commands pubsub.go, monitor.go, notify.go), the broker,   *)
(* and the push writer that takes over a connection's output at its first  *)
(* subscription (lib/respserver, the fork's conn in lib/resp redcon.go).   *)
(*                                                                         *)
(* A frame is [kind, of, what]: of is the command that caused it, what the *)
(* channel or pattern.  Every client runs a program of commands that its   *)
(* protocol mode allows (Conn models the subscribe-mode gate).             *)
(***************************************************************************)
EXTENDS Broker, PushQ

CONSTANTS
  Nobody,    \* not a client: selfID of a keyspace notification
  NoChan,    \* the null channel of an UNSUBSCRIBE with nothing to leave
  BatchMax,  \* pushBatchMax
  Cases      \* [prog: Clients -> Seq(commands), slow, killed, hangs: SUBSET Clients,
             \*  flags: notify-keyspace-events]

VARIABLES
  case,      \* the case of this behaviour
  st,        \* the connections, see Fresh
  q,         \* pushWriter.q
  wire,      \* what the client was sent
  issued     \* (ghost) every frame the connection accepted for sending, in order

Names == {"ping", "subscribe", "psubscribe", "unsubscribe", "punsubscribe", "publish", "set",
          "monitor", "reset", "quit"}
Kinds == {"message", "pmessage", "monitor", "reply", "close", "subscribe", "psubscribe",
          "unsubscribe", "punsubscribe"}
Frames == [kind : Kinds, of : Clients \X Nat,
           what : Channels \cup ToSet(Patterns) \cup Names \cup {NoChan, ""}]

\* A program has commands that exist, with arguments of their kind.
ASSUME PushAssumption ==
  /\ Nobody \notin Clients /\ NoItem \notin Frames /\ BatchMax \in Nat \ {0}
  /\ {"keyspace", "keyevent"} \subseteq Channels
  /\ \A k \in Cases :
       /\ k \in [prog : [Clients -> Seq([name : Names, args : Seq(Channels \cup ToSet(Patterns))])],
                slow : SUBSET Clients, killed : SUBSET Clients, hangs : SUBSET Clients,
                flags : SUBSET {"K", "E", "$"}]
       /\ \A c \in Clients : \A i \in DOMAIN k.prog[c] :
            LET m == k.prog[c][i]
            IN /\ m.name \in {"subscribe", "publish"} => m.args \in Seq(Channels)
               /\ m.name = "psubscribe" => m.args \in Seq(ToSet(Patterns))

vars == <<case, st, q, wire, issued, channels, patterns>>
broker == <<channels, patterns>>

Places == {"idle", "args", "publish", "return", "reply", "closing", "gone"}
Writers == {"off", "check", "wait", "write", "done"}

\* k: commands executed; cmd: the one under way; todo, out, pubs, pend: what its
\* handler has left to do; push: cs.deliver is set; wr: direct replies not yet
\* flushed; w, batch: the push writer; shut: who closed the socket; kill: an
\* admin's request; must: (ghost) clients entitled to the message being published.
Fresh ==
  [k |-> 0, pc |-> "idle", cmd |-> [name |-> "ping", args |-> <<>>], todo |-> <<>>,
   out |-> <<>>, pubs |-> <<>>, pend |-> <<>>, subs |-> {}, psubs |-> {}, mon |-> FALSE,
   push |-> FALSE, quit |-> FALSE, wr |-> <<>>, w |-> "off", batch |-> <<>>, shut |-> "",
   kill |-> FALSE, must |-> {}]

Init ==
  /\ case \in Cases
  /\ st = [c \in Clients |-> Fresh]
  /\ q = [c \in Clients |-> NewQ]
  /\ wire = [c \in Clients |-> <<>>]
  /\ issued = [c \in Clients |-> <<>>]
  /\ BrokerInit

Frame(kind, c, what) == [kind |-> kind, of |-> <<c, st[c].k>>, what |-> what]
CloseMark(c) == [kind |-> "close", of |-> <<c, st[c].k>>, what |-> ""]

\* The estimate of respValueBytes: messages outweigh the other frames.
Cost(f) == CASE f.kind = "close" -> 0
             [] f.kind \in {"message", "pmessage"} -> 2
             [] OTHER -> 1

Shut(s, who) == IF s.shut = "" THEN [s EXCEPT !.shut = who] ELSE s

\* Mutant: the slow consumer is closed gracefully, which flushes under writeMu.
MayEnqueueGraceful(r, f) == Accepts(q[r], Cost(f)) \/ st[r].w # "write"

\* CloseHard never waits, so nothing keeps enqueue from finishing.
MayEnqueue(r, f) == TRUE

\* pushWriter.enqueue of f on connection r: accepted, or r is closed hard.
Hit(r, f) == Accepts(q[r], Cost(f))

\* Mutant: a refused frame is dropped and the connection kept.
ClosingNever(s, r, f) == s

Closing(s, r, f) == IF Hit(r, f) THEN s ELSE [s EXCEPT ![r] = Shut(@, "slow")]

-----------------------------------------------------------------------------
(* Execute: the handlers.  Each ends in "return".                          *)

\* Client r has read the ack of a subscription and has not asked to end it since.
Acked(r, name, on, off) ==
  /\ \E i \in DOMAIN wire[r] :
       /\ wire[r][i].kind = on /\ wire[r][i].what = name
       /\ \A j \in (i + 1)..Len(issued[r]) :
            /\ issued[r][j].kind = off => issued[r][j].what # name
            /\ issued[r][j].kind = "reply" => issued[r][j].what # "reset"
  /\ st[r].shut = "" /\ st[r].cmd.name \notin {off, "reset"}

Entitled(ch) ==
  {r \in Clients :
     \/ Acked(r, ch, "subscribe", "unsubscribe")
     \/ \E p \in ToSet(Patterns) : <<p, ch>> \in Matches /\ Acked(r, p, "psubscribe", "punsubscribe")}

\* unsubscribe's targets: its arguments, everything, or the null channel.
Targets(args, set) ==
  IF args # <<>> THEN args ELSE IF set = {} THEN <<NoChan>> ELSE SetToSeq(set)

\* Mutant: the hook is handed out before its writer runs.
EnsureDeliverIdle(s) == [s EXCEPT !.push = TRUE]

\* ensureDeliver: the first call starts the writer.
EnsureDeliver(s) == IF s.push THEN s ELSE [s EXCEPT !.push = TRUE, !.w = "check"]

\* notifyKeyspace for the "set" event: first the keyspace, then the keyevent channel.
Notifications ==
  IF "$" \notin case.flags THEN <<>>
  ELSE (IF "K" \in case.flags THEN <<"keyspace">> ELSE <<>>)
         \o (IF "E" \in case.flags THEN <<"keyevent">> ELSE <<>>)

Handler(s, m) ==
  CASE m.name \in {"subscribe", "psubscribe"} ->
         [EnsureDeliver(s) EXCEPT !.pc = "args", !.todo = m.args]
    [] m.name = "unsubscribe" -> [s EXCEPT !.pc = "args", !.todo = Targets(m.args, s.subs)]
    [] m.name = "punsubscribe" -> [s EXCEPT !.pc = "args", !.todo = Targets(m.args, s.psubs)]
    [] m.name = "publish" -> [s EXCEPT !.pc = "publish", !.pubs = m.args]
    [] m.name = "set" -> [s EXCEPT !.pc = "publish", !.pubs = Notifications]
    [] m.name = "monitor" -> [EnsureDeliver(s) EXCEPT !.pc = "return", !.mon = TRUE]
    [] m.name = "reset" -> [s EXCEPT !.pc = "return", !.subs = {}, !.psubs = {}]
    [] m.name = "quit" -> [s EXCEPT !.pc = "return", !.quit = TRUE]
    [] OTHER -> [s EXCEPT !.pc = "return"]

Execute(c) ==
  LET m == case.prog[c][st[c].k + 1]
  IN /\ st[c].pc = "idle" /\ st[c].k < Len(case.prog[c])
     /\ st' = [st EXCEPT ![c] = Handler([st[c] EXCEPT !.k = @ + 1, !.cmd = m], m)]
     /\ IF m.name = "reset" THEN UnsubscribeAll(c) ELSE UNCHANGED broker
     /\ UNCHANGED <<case, q, wire, issued>>

\* One argument of (P)SUBSCRIBE or (P)UNSUBSCRIBE: register or remove, then the ack.
Argument(c) ==
  LET s == st[c]
      a == Head(s.todo)
      t == [s EXCEPT !.todo = Tail(@), !.out = Append(@, Frame(s.cmd.name, c, a))]
  IN /\ s.pc = "args" /\ s.todo # <<>>
     /\ CASE s.cmd.name = "subscribe" ->
               /\ Subscribe(a, c)
               /\ st' = [st EXCEPT ![c] = [t EXCEPT !.subs = @ \cup {a}]]
          [] s.cmd.name = "psubscribe" ->
               /\ PSubscribe(a, c)
               /\ st' = [st EXCEPT ![c] = [t EXCEPT !.psubs = @ \cup {a}]]
          [] s.cmd.name = "unsubscribe" ->
               /\ IF a \in s.subs THEN Unsubscribe(a, c) ELSE UNCHANGED broker
               /\ st' = [st EXCEPT ![c] = [t EXCEPT !.subs = @ \ {a}]]
          [] OTHER ->
               /\ IF a \in s.psubs THEN PUnsubscribe(a, c) ELSE UNCHANGED broker
               /\ st' = [st EXCEPT ![c] = [t EXCEPT !.psubs = @ \ {a}]]
     /\ UNCHANGED <<case, q, wire, issued>>

\* The groups of recipients that are left; without any, the channel is done.
Serving(s, groups) ==
  IF \A i \in DOMAIN groups : groups[i].to = {}
    THEN [s EXCEPT !.pend = <<>>, !.pubs = Tail(@)] ELSE [s EXCEPT !.pend = groups]

\* Publish, under the broker's lock.
Publish(c) ==
  LET ch == Head(st[c].pubs)
  IN /\ st[c].pc = "publish" /\ st[c].pend = <<>> /\ st[c].pubs # <<>>
     /\ st' = [st EXCEPT ![c] = [Serving(st[c], Snapshot(ch)) EXCEPT !.must = Entitled(ch)]]
     /\ UNCHANGED <<case, q, wire, issued, broker>>

\* Mutant: the publisher's own copy is not held back behind its reply.
SelfIDNone(c) == Nobody

\* A PUBLISH keeps its own messages back; a notification has no self.
SelfID(c) == IF st[c].cmd.name = "publish" THEN c ELSE Nobody

\* What is left to deliver once r of group i is served.
Rest(s, i, r) == Serving(s, [s.pend EXCEPT ![i].to = @ \ {r}])

\* One delivery, after the lock is gone.  Within a group the order is the map's.
Deliver(c) ==
  LET s == st[c]
      Message(g) == IF g.pattern = "" THEN Frame("message", c, Head(s.pubs))
                                      ELSE Frame("pmessage", c, g.pattern)
  IN /\ s.pc = "publish"
     /\ \E i \in DOMAIN s.pend : \E r \in s.pend[i].to :
          LET f == Message(s.pend[i])
              rest == Rest(s, i, r)
          IN /\ \A j \in 1..(i - 1) : s.pend[j].to = {}
             /\ IF r = SelfID(c)
                  THEN /\ st' = [st EXCEPT ![c] = [rest EXCEPT !.out = Append(@, f)]]
                       /\ UNCHANGED <<q, issued>>
                  ELSE /\ MayEnqueue(r, f)
                       /\ q' = [q EXCEPT ![r] = Enqueue(@, f, Cost(f))]
                       /\ st' = Closing([st EXCEPT ![c] = rest], r, f)
                       /\ issued' = IF Hit(r, f) THEN [issued EXCEPT ![r] = Append(@, f)]
                                    ELSE issued
     /\ UNCHANGED <<case, wire, broker>>

\* The handler has nothing left to do.
Returns(s) ==
  \/ s.pc = "return"
  \/ s.pc = "args" /\ s.todo = <<>>
  \/ s.pc = "publish" /\ s.pubs = <<>>

\* notifyMonitors, under monitorMu; then the reply goes before what the outbox holds
\* (the first ack is the reply of a (P)SUBSCRIBE or (P)UNSUBSCRIBE).
Return(c) ==
  LET s == st[c]
      f == Frame("monitor", c, s.cmd.name)
      on == {r \in Clients \ {c} : st[r].mon}
      acks == s.cmd.name \in {"subscribe", "psubscribe", "unsubscribe", "punsubscribe"}
      answer == IF acks THEN s.out ELSE <<Frame("reply", c, s.cmd.name)>> \o s.out
  IN /\ Returns(s)
     /\ \A r \in on : MayEnqueue(r, f)
     /\ q' = [r \in Clients |-> IF r \in on THEN Enqueue(q[r], f, Cost(f)) ELSE q[r]]
     /\ issued' = [r \in Clients |-> IF r \in on /\ Hit(r, f) THEN Append(issued[r], f) ELSE issued[r]]
     /\ st' = [r \in Clients |->
                 IF r = c THEN [s EXCEPT !.pc = "reply", !.out = answer, !.must = {}]
                 ELSE IF r \in on /\ ~Hit(r, f) THEN Shut(st[r], "slow") ELSE st[r]]
     /\ UNCHANGED <<case, wire, broker>>
-----------------------------------------------------------------------------
(* The front-end's handler: everything through the queue in push mode.     *)

\* Mutant: the replies of a subscribed connection are written directly.
ReplyDirect(c) ==
  /\ st[c].pc = "reply" /\ st[c].out # <<>>
  /\ st' = [st EXCEPT ![c].out = Tail(@), ![c].wr = Append(@, Head(st[c].out))]
  /\ issued' = [issued EXCEPT ![c] = Append(@, Head(st[c].out))]
  /\ UNCHANGED <<case, q, wire, broker>>

Reply(c) ==
  LET f == Head(st[c].out)
      rest == [st EXCEPT ![c].out = Tail(@)]
  IN /\ st[c].pc = "reply" /\ st[c].out # <<>>
     /\ IF st[c].push
          THEN /\ MayEnqueue(c, f)
               /\ q' = [q EXCEPT ![c] = Enqueue(@, f, Cost(f))]
               /\ st' = Closing(rest, c, f)
               /\ issued' = IF Hit(c, f) THEN [issued EXCEPT ![c] = Append(@, f)] ELSE issued
          ELSE /\ st' = [rest EXCEPT ![c].wr = Append(@, f)]
               /\ issued' = [issued EXCEPT ![c] = Append(@, f)]
               /\ UNCHANGED q
     /\ UNCHANGED <<case, wire, broker>>

\* Mutant: QUIT closes a subscribed connection at once.
QuitAtOnce(c) ==
  /\ st[c].pc = "reply" /\ st[c].out = <<>> /\ st[c].quit
  /\ wire' = IF st[c].shut = "" THEN [wire EXCEPT ![c] = @ \o st[c].wr] ELSE wire
  /\ st' = [st EXCEPT ![c] = Shut([@ EXCEPT !.quit = FALSE, !.wr = <<>>], "quit")]
  /\ UNCHANGED <<case, q, issued, broker>>

\* After the answer QUIT closes: behind the queue, or at once after a flush.
Quit(c) ==
  LET f == CloseMark(c)
  IN /\ st[c].pc = "reply" /\ st[c].out = <<>> /\ st[c].quit
     /\ IF st[c].push
          THEN /\ q' = [q EXCEPT ![c] = Enqueue(@, f, Cost(f))]
               /\ st' = [Closing(st, c, f) EXCEPT ![c].quit = FALSE]
               /\ issued' = IF Hit(c, f) THEN [issued EXCEPT ![c] = Append(@, f)] ELSE issued
               /\ UNCHANGED wire
          ELSE /\ wire' = IF st[c].shut = "" THEN [wire EXCEPT ![c] = @ \o st[c].wr] ELSE wire
               /\ st' = [st EXCEPT ![c] = Shut([@ EXCEPT !.quit = FALSE, !.wr = <<>>], "quit")]
               /\ UNCHANGED <<q, issued>>
     /\ UNCHANGED <<case, broker>>

\* conn.Flush, under writeMu, before the next read.
Flush(c) ==
  /\ st[c].pc = "reply" /\ st[c].out = <<>> /\ ~st[c].quit /\ st[c].w # "write"
  /\ st' = [st EXCEPT ![c].pc = "idle", ![c].wr = <<>>]
  /\ wire' = IF st[c].shut = "" THEN [wire EXCEPT ![c] = @ \o st[c].wr] ELSE wire
  /\ UNCHANGED <<case, q, issued, broker>>

\* The read fails: the closed callback stops the writer ...
Closed(c) ==
  /\ st[c].pc = "idle" /\ st[c].shut # ""
  /\ st' = [st EXCEPT ![c].pc = "closing"]
  /\ q' = IF st[c].push THEN [q EXCEPT ![c] = CloseQ(@)] ELSE q
  /\ UNCHANGED <<case, wire, issued, broker>>

\* ... and forgets the connection.
CloseConn(c) ==
  /\ st[c].pc = "closing"
  /\ UnsubscribeAll(c)
  /\ st' = [st EXCEPT ![c].pc = "gone", ![c].subs = {}, ![c].psubs = {}, ![c].mon = FALSE]
  /\ UNCHANGED <<case, q, wire, issued>>
-----------------------------------------------------------------------------
(* The push writer's goroutine.                                            *)

Set(c, s, qc) == st' = [st EXCEPT ![c] = s] /\ q' = [q EXCEPT ![c] = qc]

\* What one round takes: all that is queued, up to the bound and to a close marker.
Round(items) ==
  LET ends == {i \in DOMAIN items : i = Len(items) \/ i = BatchMax \/ items[i].kind = "close"}
  IN SubSeq(items, 1, CHOOSE i \in ends : \A j \in ends : i <= j)

PopN(qc, n) ==
  LET after[i \in 0..n] == IF i = 0 THEN qc ELSE Pop(after[i - 1])
  IN after[n]

\* Dequeue, then TryDequeue for the rest of the round; or wait.
Dequeue(c) ==
  LET batch == Round(Contents(q[c]))
  IN /\ st[c].w = "check"
     /\ CASE q[c].count > 0 ->
               Set(c, [st[c] EXCEPT !.batch = batch, !.w = "write"], PopN(q[c], Len(batch)))
          [] q[c].count = 0 /\ q[c].closed -> Set(c, [st[c] EXCEPT !.w = "done"], q[c])
          [] OTHER -> Set(c, [st[c] EXCEPT !.w = "wait"], q[c])
     /\ UNCHANGED <<case, wire, issued, broker>>

Woken(c) ==
  /\ st[c].w = "wait"
  /\ \/ q[c].notify /\ Set(c, [st[c] EXCEPT !.w = "check"], [q[c] EXCEPT !.notify = FALSE])
     \/ q[c].closed /\ Set(c, [st[c] EXCEPT !.w = "done"], q[c])
  /\ UNCHANGED <<case, wire, issued, broker>>

\* PushValues holds writeMu until the client has taken the bytes or the socket is
\* closed under it.  A slow client takes nothing.
PushValues(c) ==
  LET s == st[c]
      last == s.batch[Len(s.batch)].kind = "close"
  IN /\ s.w = "write"
     /\ \/ /\ s.shut # ""
           /\ st' = [st EXCEPT ![c].w = "done", ![c].batch = <<>>]
           /\ UNCHANGED wire
        \/ /\ s.shut = "" /\ c \notin case.slow
           /\ wire' = [wire EXCEPT ![c] = @ \o s.batch]
           /\ st' = [st EXCEPT ![c] = IF last THEN Shut([@ EXCEPT !.w = "done", !.batch = <<>>], "quit")
                                      ELSE [@ EXCEPT !.w = "check", !.batch = <<>>]]
     /\ UNCHANGED <<case, q, issued, broker>>
-----------------------------------------------------------------------------
(* An administrator and the network.                                       *)

\* KillClient looks the connection up ...
Kill(c) ==
  /\ c \in case.killed /\ ~st[c].kill /\ st[c].pc # "gone"
  /\ st' = [st EXCEPT ![c].kill = TRUE]
  /\ UNCHANGED <<case, q, wire, issued, broker>>

\* ... and its hook is conn.Close, which flushes under writeMu first.
KillClose(c) ==
  /\ st[c].kill /\ st[c].shut = "" /\ st[c].w # "write"
  /\ st' = [st EXCEPT ![c] = Shut(@, "kill")]
  /\ UNCHANGED <<case, q, wire, issued, broker>>

HangUp(c) ==
  /\ c \in case.hangs /\ st[c].shut = ""
  /\ st' = [st EXCEPT ![c] = Shut(@, "client")]
  /\ UNCHANGED <<case, q, wire, issued, broker>>

Serve(c) ==
  Argument(c) \/ Publish(c) \/ Deliver(c) \/ Return(c) \/ Reply(c) \/ Quit(c)
    \/ Flush(c) \/ Closed(c) \/ CloseConn(c)

Write(c) == Dequeue(c) \/ Woken(c) \/ PushValues(c)

\* Every client has run its program or lost its connection.
Over == \A c \in Clients : st[c].pc = "gone" \/ (st[c].pc = "idle" /\ st[c].k = Len(case.prog[c]))

Next ==
  \/ \E c \in Clients : Execute(c) \/ Serve(c) \/ Write(c) \/ Kill(c) \/ KillClose(c)
                          \/ HangUp(c)
  \/ Over /\ UNCHANGED vars

Spec == Init /\ [][Next]_vars

(* The goroutines of the connections, of the writers and of the killer go   *)
(* on; sync.Mutex starves no waiter, so Flush and the kill get writeMu when *)
(* it is free again and again.  Nothing is assumed of the clients.         *)
FairSpec == Spec /\ \A c \in Clients : SF_vars(Serve(c)) /\ WF_vars(Write(c))
KillSpec == FairSpec /\ \A c \in Clients : SF_vars(KillClose(c))
-----------------------------------------------------------------------------
(* Properties.                                                             *)

\* One type invariant.
TypeOK ==
  /\ case \in Cases
  /\ \A c \in Clients :
       /\ st[c].pc \in Places /\ st[c].w \in Writers
       /\ st[c].k \in 0..Len(case.prog[c]) /\ Len(st[c].batch) <= BatchMax
       /\ st[c].subs \subseteq Channels /\ st[c].psubs \subseteq ToSet(Patterns)
       /\ st[c].w = "off" <=> ~st[c].push
  /\ BrokerTypeOK

\* QueuesOk: however the queues grow, wrap and drain, each ring holds exactly its
\* items, in at most its slots, within the byte ceiling (pushq.go).
QueuesOk == \A c \in Clients : QueueShape(q[c])

\* IssueOrder: replies, acks and messages reach the client in the order they were
\* issued, none lost and none twice, across the switch from direct replies to the
\* push queue, the ring's growth and the writer's batches; a connection that is
\* closed early has seen a prefix (respserver.go, single writer).
IssueOrder ==
  \A c \in Clients :
    /\ IsPrefix(wire[c], issued[c])
    /\ st[c].shut = "" => issued[c] = wire[c] \o st[c].wr \o st[c].batch \o Contents(q[c])

\* SelfAfterReply: a publisher that is subscribed itself sees its own message only
\* after the reply to the PUBLISH (deferPush).
SelfAfterReply ==
  \A c \in Clients : \A i \in DOMAIN issued[c] :
    LET f == issued[c][i]
    IN f.kind \in {"message", "pmessage"} /\ f.of[1] = c
         /\ case.prog[c][f.of[2]].name = "publish"
       => \E j \in 1..(i - 1) : issued[c][j].kind = "reply" /\ issued[c][j].of = f.of

\* AckedReceives: a client that had read the ack of a matching subscription when a
\* message was published gets it, unless its connection is lost meanwhile: when
\* the PUBLISH returns, the message has been accepted by its queue (or waits behind
\* the publisher's own reply).
AckedReceives ==
  \A c \in Clients :
    st[c].cmd.name = "publish" /\ Returns(st[c]) =>
      \A r \in st[c].must :
        \/ st[r].shut # ""
        \/ \E i \in DOMAIN issued[r] : issued[r][i].of = <<c, st[c].k>>
        \/ \E i \in DOMAIN st[r].out : st[r].out[i].of = <<c, st[c].k>>

\* QuitAnswered: a connection that QUIT closed has been sent the answer to the
\* QUIT, and with it everything issued before (closeEnq).
QuitAnswered ==
  \A c \in Clients : st[c].shut = "quit" =>
    \E i \in DOMAIN wire[c] : wire[c][i].kind = "reply" /\ wire[c][i].what = "quit"

\* RegistryAgrees: between commands the broker knows a connection's subscriptions
\* and no others, so PUBSUB counts them; a closed connection leaves none behind.
RegistryAgrees ==
  /\ \A c \in Clients : st[c].pc \in {"idle", "gone"} =>
       /\ \A ch \in Channels : c \in channels[ch] <=> ch \in st[c].subs
       /\ \A p \in ToSet(Patterns) : c \in patterns[p] <=> p \in st[c].psubs
  /\ (\A c \in Clients : st[c].pc = "gone") => ActiveChannels = {} /\ NumPat = 0
  /\ (\A c \in Clients : st[c].pc = "idle") =>
       \A ch \in Channels : NumSub(ch) = Cardinality({c \in Clients : ch \in st[c].subs})

\* PublishEnds: a publisher is never held up by a subscriber that does not read
\* (the hard close of a slow consumer does not wait for writeMu).
PublishEnds == \A c \in Clients : st[c].pc = "publish" ~> st[c].pc \in {"idle", "gone"}

\* SlowDropped: a consumer whose queue overflowed is disconnected and loses its
\* registrations, although its writer is stuck in a write.
SlowDropped ==
  \A c \in Clients : q[c].overflow ~> st[c].pc = "gone" /\ \A ch \in Channels : c \notin channels[ch]

\* Delivered: what was issued to a client that reads is written, without waiting for
\* a later frame: the queue's wake signal is not lost (pushq.go signal).
Delivered ==
  \A c \in Clients :
    wire[c] # issued[c] ~> (wire[c] = issued[c] \/ st[c].shut # "" \/ c \in case.slow)

\* KillEnds: "KillClient closes the connection with the given id" (clients.go).
KillEnds == \A c \in Clients : st[c].kill ~> st[c].shut # ""

\* StreamSound: what a client reads is what was issued to it, in that order: the
\* state and the rings are well formed, nothing is lost, doubled or overtaken, a
\* publisher's own message follows its reply, and QUIT is answered before the close.
StreamSound == TypeOK /\ QueuesOk /\ IssueOrder /\ SelfAfterReply /\ QuitAnswered

\* Drained: every queue comes to rest: its frames are written, or its connection is
\* dropped and deregistered.
Drained == SlowDropped /\ Delivered
=============================================================================
