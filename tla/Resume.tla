------------------------------- MODULE Resume -------------------------------
(***************************************************************************)
(* A WebSocket client across lost connections: the /ws/v1 front-end        *)
(* (lib/wssrv), its resumable sessions and the Go client library           *)
(* (clients/go/ultima ws.go), over a network that may cut a connection at  *)
(* any time and lose what is on the way.  The connection's outbound queue  *)
(* is a bounded sequence here (PushQ models the ring).  The client is      *)
(* followed from the state after DialWS and Subscribe.                     *)
(***************************************************************************)
EXTENDS Session, FiniteSets

CONSTANTS
  NConns,   \* bound: connections over the whole run; the last one is not cut
  NSess,    \* bound: sessions
  MaxPush,  \* bound: published messages
  MaxSeq,   \* bound: frames sent by the client
  QCap      \* frames a connection's queue holds

VARIABLES
  sess,     \* Registry and its sessions
  conn,     \* the server's connections
  cl,       \* WSClient
  pushes    \* messages published so far

vars == <<sess, conn, cl, pushes>>

ASSUME ResumeAssumption ==
  /\ NConns \in Nat \ {0} /\ NSess \in Nat \ {0} /\ QCap \in Nat \ {0}
  /\ MaxPush \in Nat /\ MaxSeq \in Nat /\ NoConn \notin 1..NConns

Conns == 1..NConns
Sessions == 1..NSess
NoSession == 0

\* st: where the server's goroutine is; up: the socket; q, qclosed, w: wsConn's queue
\* and writer; sess: the negotiated session; drop: onDrop is set; ab: the ABORTED
\* frames a resume has yet to queue; in, net: frames on the way in and out.
Unused ==
  [st |-> "new", up |-> FALSE, q |-> <<>>, qclosed |-> FALSE, w |-> "run", sess |-> NoSession,
   drop |-> FALSE, ab |-> <<>>, in |-> <<>>, net |-> <<>>]
Opened == [Unused EXCEPT !.st = "read", !.up = TRUE]

F(kind, seq, ps) == [kind |-> kind, seq |-> seq, ps |-> ps, v |-> 0, sess |-> NoSession]

\* The client: sup is the supervisor's goroutine (none when nobody reconnects), ready
\* whether calls go through, hres what the read loop handed to the handshake; got and
\* gaps are what OnPush and OnGap have told the application.
Init ==
  /\ sess = [s \in Sessions |->
               IF s = 1 THEN [NewSession EXCEPT !.sink = 1, !.subs = TRUE]
               ELSE [NewSession EXCEPT !.live = FALSE]]
  /\ conn = [c \in Conns |-> IF c = 1 THEN [Opened EXCEPT !.sess = 1, !.drop = TRUE] ELSE Unused]
  /\ cl = [conn |-> 1, sid |-> 1, last |-> 0, seq |-> 2, pending |-> {}, ready |-> TRUE,
           sup |-> "none", supervising |-> FALSE, hseq |-> 0, hres |-> F("none", 0, 0),
           got |-> <<>>, gaps |-> 0]
  /\ pushes = 0

-----------------------------------------------------------------------------
(* The server's connection.                                                *)

\* Mutant: the queue stays open.
WsCloseSocket(cn) == [cn EXCEPT !.up = FALSE]

\* wsConn.close.
WsClose(cn) == [cn EXCEPT !.qclosed = TRUE, !.up = FALSE]

Accepts(cn) == ~cn.qclosed /\ Len(cn.q) < QCap

\* wsConn.enqueue: a full queue closes the connection.
Enqueue(cn, f) == IF Accepts(cn) THEN [cn EXCEPT !.q = Append(@, f)] ELSE WsClose(cn)

\* Frames in order, until one is refused.
EnqueueAll(cn, fs) ==
  LET room == QCap - Len(cn.q)
  IN IF cn.qclosed THEN cn
     ELSE IF Len(fs) <= room THEN [cn EXCEPT !.q = @ \o fs]
     ELSE WsClose([cn EXCEPT !.q = @ \o SubSeq(fs, 1, room)])

PushFrame(p) == [F("push", 0, p.seq) EXCEPT !.v = p.v]

\* The broker delivers a message to a session, on the publisher's goroutine.
Publish(s) ==
  /\ pushes < MaxPush /\ sess[s].live /\ sess[s].subs /\ ~sess[s].expired
  /\ pushes' = pushes + 1
  /\ sess' = [sess EXCEPT ![s] = Deliver(@, pushes + 1)]
  /\ conn' = IF sess[s].sink = NoConn THEN conn
             ELSE [conn EXCEPT ![sess[s].sink] =
                     Enqueue(@, PushFrame([seq |-> sess[s].nextSeq + 1, v |-> pushes + 1]))]
  /\ UNCHANGED cl

\* A fresh handshake: New, Attach(0), OK.  The session keeps the connection's state.
Fresh(c, f) ==
  \E s \in Sessions :
    /\ ~sess[s].live /\ \A t \in 1..(s - 1) : sess[t].live
    /\ sess' = [sess EXCEPT ![s] = [NewSession EXCEPT !.sink = c]]
    /\ conn' = LET cn == [conn[c] EXCEPT !.in = Tail(@)]
               IN [conn EXCEPT ![c] = [Enqueue(cn, [F("ok", f.seq, 0) EXCEPT !.sess = s])
                                         EXCEPT !.sess = s, !.drop = TRUE]]

\* A resume: OK and the replay go out under the session lock; a taken-over
\* connection is closed.
Resume(c, f) ==
  LET s == sess[f.sess]
      old == s.sink
      ok == [F("ok", f.seq, 0) EXCEPT !.sess = f.sess]
      replay == Replay(s, f.ps)
      cn == [conn EXCEPT ![c].in = Tail(@)]
      closed == IF old = NoConn THEN cn ELSE [cn EXCEPT ![old] = WsClose(@)]
  IN IF s.live /\ CanResume(s, f.ps)
       THEN /\ sess' = [sess EXCEPT ![f.sess] = Attach(@, c)]
            /\ conn' = [closed EXCEPT ![c] =
                          [EnqueueAll(@, <<ok>> \o [i \in DOMAIN replay |-> PushFrame(replay[i])])
                             EXCEPT !.st = "resumed", !.sess = f.sess, !.ab = s.aborted]]
       ELSE /\ conn' = [cn EXCEPT ![c] = Enqueue(@, F("expired", f.seq, 0))]
            /\ UNCHANGED sess

\* After the lock: the ABORTED frames, and only then the hook for failed writes.
Resumed(c) ==
  /\ conn[c].st = "resumed"
  /\ conn' = [conn EXCEPT ![c] =
       LET ab == conn[c].ab
       IN [EnqueueAll(@, [i \in DOMAIN ab |-> F("aborted", ab[i], 0)])
             EXCEPT !.st = "read", !.drop = TRUE, !.ab = <<>>]]
  /\ UNCHANGED <<sess, cl, pushes>>

\* A command; SUBSCRIBE is the one that matters to the session.
Command(c, f) ==
  LET id == conn[c].sess
      cn == [conn[c] EXCEPT !.in = Tail(@)]
      r == F("reply", f.seq, 0)
  IN /\ conn' = [conn EXCEPT ![c] = IF Accepts(cn) THEN Enqueue(cn, r)
                                    ELSE [WsClose(cn) EXCEPT !.st = "teardown"]]
     /\ sess' = LET s == IF Accepts(cn) THEN sess[id] ELSE RecordAborted(sess[id], <<f.seq>>)
                IN IF id = NoSession THEN sess
                   ELSE [sess EXCEPT ![id] = [s EXCEPT !.subs = @ \/ f.kind = "subscribe"]]

Read(c) ==
  /\ conn[c].st = "read" /\ conn[c].in # <<>>
  /\ LET f == Head(conn[c].in)
     IN CASE f.kind = "hello" /\ f.sess = NoSession -> Fresh(c, f)
          [] f.kind = "hello" /\ f.sess # NoSession -> Resume(c, f)
          [] OTHER -> Command(c, f)
  /\ UNCHANGED <<cl, pushes>>

\* The writer: a frame leaves, or the write fails and the connection ends.
Write(c) ==
  LET cn == conn[c]
      f == Head(cn.q)
  IN /\ cn.st # "new" /\ cn.w = "run"
     /\ \/ /\ cn.q = <<>> /\ cn.qclosed
           /\ conn' = [conn EXCEPT ![c].w = "stopped"]
           /\ UNCHANGED sess
        \/ /\ cn.q # <<>> /\ cn.up
           /\ conn' = [conn EXCEPT ![c].q = Tail(@), ![c].net = Append(@, f)]
           /\ UNCHANGED sess
        \/ /\ cn.q # <<>> /\ ~cn.up
           /\ conn' = [conn EXCEPT ![c] = [WsClose(cn) EXCEPT !.q = Tail(cn.q), !.w = "stopped"]]
           /\ sess' = IF f.kind # "push" /\ cn.drop
                        THEN [sess EXCEPT ![cn.sess] = RecordAborted(@, <<f.seq>>)] ELSE sess
     /\ UNCHANGED <<cl, pushes>>

\* The read fails, what has not been read is lost: close, wait for the writer ...
ReadError(c) ==
  /\ conn[c].st = "read" /\ ~conn[c].up
  /\ conn' = [conn EXCEPT ![c] = [WsClose(@) EXCEPT !.st = "teardown", !.in = <<>>]]
  /\ UNCHANGED <<sess, cl, pushes>>

\* ... report the replies that are still queued ...
Drain(c) ==
  LET lost == Keep(conn[c].q, {n \in DOMAIN conn[c].q : conn[c].q[n].kind # "push"})
      id == conn[c].sess
  IN /\ conn[c].st = "teardown" /\ conn[c].w = "stopped"
     /\ conn' = [conn EXCEPT ![c].st = "drained", ![c].q = <<>>]
     /\ sess' = IF id = NoSession THEN sess
                ELSE [sess EXCEPT ![id] = RecordAborted(@, [i \in DOMAIN lost |-> lost[i].seq])]
     /\ UNCHANGED <<cl, pushes>>

\* ... and detach.
Gone(c) ==
  /\ conn[c].st = "drained"
  /\ conn' = [conn EXCEPT ![c].st = "gone"]
  /\ sess' = IF conn[c].sess = NoSession THEN sess
             ELSE [sess EXCEPT ![conn[c].sess] = Detach(@, c)]
  /\ UNCHANGED <<cl, pushes>>

\* Time: the oldest buffered push leaves the window; a retention timer runs out; its
\* goroutine gets the session lock, whatever happened since.
Age(s) ==
  /\ \E i \in DOMAIN sess[s].buf :
       /\ ~sess[s].buf[i].old /\ \A j \in 1..(i - 1) : sess[s].buf[j].old
       /\ sess' = [sess EXCEPT ![s].buf[i].old = TRUE]
  /\ UNCHANGED <<conn, cl, pushes>>

Fire(s) ==
  /\ sess[s].timer = "armed"
  /\ sess' = [sess EXCEPT ![s].timer = "fired"]
  /\ UNCHANGED <<conn, cl, pushes>>

Ended(s) ==
  /\ sess[s].timer = "fired" /\ ~sess[s].expired
  /\ sess' = [sess EXCEPT ![s] = Expire(@)]
  /\ conn' = IF sess[s].sink = NoConn THEN conn ELSE [conn EXCEPT ![sess[s].sink] = WsClose(@)]
  /\ UNCHANGED <<cl, pushes>>

\* The network cuts a connection: any suffix of what is on the way is lost.
Cut(c) ==
  /\ c < NConns /\ conn[c].up
  /\ \E n \in 0..Len(conn[c].net), m \in {0, Len(conn[c].in)} :
       conn' = [conn EXCEPT ![c].up = FALSE, ![c].net = SubSeq(@, 1, n), ![c].in = SubSeq(@, 1, m)]
  /\ UNCHANGED <<sess, cl, pushes>>
-----------------------------------------------------------------------------
(* The client.                                                             *)

\* A frame the client writes; on a dead socket it may be lost without an error.
Sent(c, f) == conn' = [conn EXCEPT ![c].in = IF conn[c].up THEN Append(@, f) ELSE @]

\* execCommand by the application.
Exec ==
  /\ cl.ready /\ cl.conn # NoConn /\ cl.seq < MaxSeq
  /\ cl' = [cl EXCEPT !.seq = @ + 1, !.pending = @ \cup {cl.seq + 1}]
  /\ Sent(cl.conn, F("command", cl.seq + 1, 0))
  /\ UNCHANGED <<sess, pushes>>

\* Mutant: the highest push_seq is not kept.
OnPushLast(last, ps) == last

\* onFrame of a push keeps the highest push_seq.
OnPush(last, ps) == IF ps > last THEN ps ELSE last

\* onFrame.
OnFrame(c) ==
  LET f == Head(conn[c].net)
  IN /\ cl.conn = c /\ conn[c].net # <<>>
     /\ conn' = [conn EXCEPT ![c].net = Tail(@)]
     /\ cl' = CASE f.kind = "push" ->
                     [cl EXCEPT !.last = OnPush(@, f.ps), !.got = Append(@, f.v)]
                [] f.kind # "push" /\ f.seq \in cl.pending ->
                     [cl EXCEPT !.pending = @ \ {f.seq},
                                !.hres = IF f.seq = cl.hseq THEN f ELSE @]
                [] OTHER -> cl
     /\ UNCHANGED <<sess, pushes>>

\* The read loop ends: one supervisor at a time.
Dead(c) ==
  /\ cl.conn = c /\ ~conn[c].up /\ conn[c].net = <<>>
  /\ cl' = [cl EXCEPT !.conn = NoConn, !.ready = FALSE, !.supervising = TRUE,
                      !.sup = IF cl.supervising THEN @ ELSE "backoff"]
  /\ UNCHANGED <<sess, conn, pushes>>

Hello(s, last) == [F("hello", cl.seq + 1, last) EXCEPT !.sess = s]

\* connectOnce: dial, then the handshake with the stored session.
Dial ==
  /\ cl.sup = "backoff"
  /\ \E c \in Conns :
       /\ conn[c].st = "new" /\ \A d \in 1..(c - 1) : conn[d].st # "new"
       /\ conn' = [conn EXCEPT ![c] = [Opened EXCEPT !.in = <<Hello(cl.sid, cl.last)>>]]
       /\ cl' = [cl EXCEPT !.conn = c, !.sup = "handshake", !.seq = @ + 1, !.hseq = cl.seq + 1,
                           !.pending = @ \cup {cl.seq + 1}, !.hres = F("none", 0, 0)]
  /\ UNCHANGED <<sess, pushes>>

\* The handshake's answer, or its connection's end.
Expired ==
  /\ cl.sup = "handshake" /\ cl.hres.kind = "expired"
  /\ cl' = [cl EXCEPT !.sid = NoSession, !.last = 0, !.got = <<>>, !.gaps = @ + 1,
                      !.seq = @ + 1, !.hseq = cl.seq + 1, !.pending = {cl.seq + 1},
                      !.hres = F("none", 0, 0)]
  /\ IF cl.conn = NoConn THEN UNCHANGED conn ELSE Sent(cl.conn, Hello(NoSession, 0))
  /\ UNCHANGED <<sess, pushes>>

Negotiated ==
  /\ cl.sup = "handshake" /\ cl.hres.kind = "ok"
  /\ cl' = [cl EXCEPT !.sid = cl.hres.sess, !.ready = TRUE,
                      !.sup = IF cl.sid = cl.hres.sess THEN "up" ELSE "resubscribe"]
  /\ UNCHANGED <<sess, conn, pushes>>

Lost ==
  /\ cl.sup = "handshake" /\ cl.conn = NoConn
  /\ cl' = [cl EXCEPT !.sup = "backoff"]
  /\ UNCHANGED <<sess, conn, pushes>>

\* resubscribe runs SUBSCRIBE as a call without a deadline.
Resubscribe ==
  /\ cl.sup = "resubscribe" /\ cl.ready
  /\ IF cl.conn = NoConn
       THEN cl' = [cl EXCEPT !.sup = "up"] /\ UNCHANGED conn
       ELSE /\ cl' = [cl EXCEPT !.sup = "waiting", !.seq = @ + 1, !.hseq = cl.seq + 1,
                                !.pending = @ \cup {cl.seq + 1}]
            /\ Sent(cl.conn, F("subscribe", cl.seq + 1, 0))
  /\ UNCHANGED <<sess, pushes>>

Resubscribed ==
  /\ cl.sup = "waiting" /\ cl.hseq \notin cl.pending
  /\ cl' = [cl EXCEPT !.sup = "up"]
  /\ UNCHANGED <<sess, conn, pushes>>

\* supervise returned; the flag is reset after that.
SuperviseEnds ==
  /\ cl.sup = "up"
  /\ cl' = [cl EXCEPT !.sup = "none", !.supervising = FALSE]
  /\ UNCHANGED <<sess, conn, pushes>>

Reconnect == Dial \/ Expired \/ Negotiated \/ Lost \/ Resubscribe \/ Resubscribed \/ SuperviseEnds

Server(c) == Read(c) \/ Resumed(c) \/ ReadError(c) \/ Drain(c) \/ Gone(c)

Next ==
  \/ \E s \in Sessions : Publish(s) \/ Age(s) \/ Fire(s) \/ Ended(s)
  \/ \E c \in Conns : Server(c) \/ Write(c) \/ Cut(c) \/ OnFrame(c) \/ Dead(c)
  \/ Exec \/ Reconnect

Spec == Init /\ [][Next]_vars

(* The goroutines of the server and of the client go on, a broken socket is *)
(* noticed on both sides, a retention timer runs out, and a frame on an     *)
(* intact connection arrives.  Nothing is assumed of publishers, of the     *)
(* application or of the network's cuts.                                    *)
FairSpec ==
  /\ Spec
  /\ \A c \in Conns : WF_vars(Server(c)) /\ WF_vars(Write(c)) /\ WF_vars(OnFrame(c) \/ Dead(c))
  /\ \A s \in Sessions : WF_vars(Fire(s)) /\ WF_vars(Ended(s))
  /\ WF_vars(Reconnect)
-----------------------------------------------------------------------------
(* Properties.                                                             *)

\* The stream of the client's session.
StreamOf == INSTANCE Stream WITH
  sent <- IF cl.sid = NoSession THEN <<>> ELSE sess[cl.sid].stamped,
  got <- cl.got, gaps <- cl.gaps

\* ImplementsStream: across cuts, takeovers, replays and expiries the application is
\* handed every push of its session exactly once and in order, and a session that
\* cannot be resumed without loss is reported as a gap (the promise of session.go and
\* of the design's section 9.4).
ImplementsStream == StreamOf!Spec

\* SessionsSound: replay buffers are contiguous and bounded; a session belongs to the
\* connection that negotiated it last, which has not finished its teardown, and an open
\* connection owns its session; nobody attached means a timer is running; an expired session holds nothing.
SessionsSound ==
  /\ \A s \in Sessions : SessionOk(sess[s])
  /\ \A s \in Sessions : sess[s].sink # NoConn =>
       conn[sess[s].sink].sess = s /\ conn[sess[s].sink].st # "gone"
  /\ \A c \in Conns : LET s == conn[c].sess IN
       s # NoSession /\ conn[c].up /\ ~conn[c].qclosed /\ ~sess[s].expired => sess[s].sink = c
  /\ cl.last = Len(cl.got)

\* SessionEnds: a session whose connection is gone is resumed or expires, and gives up
\* its subscription (Detach arms the timer; a fired timer is not stopped by a resume).
SessionEnds ==
  \A s \in Sessions : sess[s].live /\ sess[s].sink = NoConn ~> sess[s].sink # NoConn \/ sess[s].expired

\* DeadDetaches: a connection whose socket is gone is torn down and lets go of its
\* session (the teardown waits for the writer, which cannot hang on a closed socket).
DeadDetaches ==
  \A c \in Conns : conn[c].st # "new" /\ ~conn[c].up ~> conn[c].st = "gone"

\* AttachedStays: a session with a connection does not expire ("if no attachment happens
\* within the window, the session expires", session.go).
AttachedStays ==
  [][\A s \in Sessions : sess[s].sink # NoConn /\ ~sess[s].expired => ~sess'[s].expired]_vars

\* Reconnects: while the network has a connection left to give, a client that is down
\* comes up ("The returned client reconnects automatically until Close", ws.go).
Reconnects == ~cl.ready ~> cl.ready \/ \A c \in Conns : conn[c].st # "new"
=============================================================================
