------------------------------ MODULE Session ------------------------------
(***************************************************************************)
(* Resumable WebSocket sessions (lib/wssession session.go): the push       *)
(* counter, the bounded replay buffer, the attached connection and the     *)
(* retention timer.  Every method runs under Session.mu, so each is a      *)
(* function of the session's value.  A push is the number of its publish;  *)
(* old marks a buffered push that is past the retention window.            *)
(***************************************************************************)
EXTENDS Integers, Sequences, SequencesExt

CONSTANTS
  MaxMsgs,  \* ws_replay_buffer_max_msgs
  NoConn    \* no attached connection

ASSUME SessionAssumption == MaxMsgs \in Nat \ {0}

\* subs: the retained ConnState is subscribed.  stamped is a ghost: all pushes so far.
NewSession ==
  [live |-> TRUE, nextSeq |-> 0, buf |-> <<>>, sink |-> NoConn, aborted |-> <<>>,
   timer |-> "off", expired |-> FALSE, subs |-> FALSE, stamped |-> <<>>]

\* trimLocked: from the front, while there are too many or the first is too old.
Trim(buf) ==
  LET keep == {n \in 1..(Len(buf) + 1) :
                 Len(buf) - n + 1 <= MaxMsgs /\ (n <= Len(buf) => ~buf[n].old)}
      first == CHOOSE n \in keep : \A m \in keep : n <= m
  IN SubSeq(buf, first, Len(buf))

\* Mutant: a push is stamped when it is sent, so not while nobody is attached.
DeliverLive(s, v) ==
  IF s.sink = NoConn THEN [s EXCEPT !.stamped = Append(@, v), !.nextSeq = @ + 1]
  ELSE [s EXCEPT !.nextSeq = @ + 1, !.stamped = Append(@, v),
                 !.buf = Trim(Append(@, [seq |-> s.nextSeq + 1, v |-> v, old |-> FALSE]))]

\* Deliver, up to the live enqueue.
Deliver(s, v) ==
  [s EXCEPT !.nextSeq = @ + 1, !.stamped = Append(@, v),
            !.buf = Trim(Append(@, [seq |-> s.nextSeq + 1, v |-> v, old |-> FALSE]))]

\* Mutant: the boundary of the gap check is off by one.
CanResumeGap(s, lastSeq) ==
  LET buf == Trim(s.buf)
  IN /\ ~s.expired
     /\ lastSeq < s.nextSeq => buf # <<>> /\ lastSeq + 1 <= s.nextSeq - Len(buf) + 2

\* The gap check of Attach; the oldest buffered push is computed, not looked up.
CanResume(s, lastSeq) ==
  LET buf == Trim(s.buf)
      oldest == s.nextSeq - Len(buf) + 1
  IN /\ ~s.expired
     /\ lastSeq < s.nextSeq => buf # <<>> /\ lastSeq + 1 >= oldest

\* Mutant: what was received is replayed again.
ReplayAll(s, lastSeq) == Trim(s.buf)

\* The members of q at the positions in I, in order (a loop that skips the others).
Keep(q, I) ==
  LET out[n \in 0..Len(q)] == IF n = 0 THEN <<>>
                              ELSE IF n \in I THEN Append(out[n - 1], q[n]) ELSE out[n - 1]
  IN out[Len(q)]

\* The pushes Attach replays.
Replay(s, lastSeq) ==
  LET buf == Trim(s.buf) IN Keep(buf, {n \in DOMAIN buf : buf[n].seq > lastSeq})

\* A timer that has fired is past stopping.
StopTimer(s) == IF s.timer = "armed" THEN [s EXCEPT !.timer = "off"] ELSE s

\* Attach, once the gap check passed.
Attach(s, c) == [StopTimer(s) EXCEPT !.sink = c, !.buf = Trim(@), !.aborted = <<>>]

\* Mutant: any connection's end detaches the session.
DetachAny(s, c) ==
  IF s.expired THEN s ELSE [s EXCEPT !.sink = NoConn, !.timer = "armed"]

\* Mutant: the window counts from the first detach, no timer is armed again.
DetachNoTimer(s, c) == IF s.expired \/ s.sink # c THEN s ELSE [s EXCEPT !.sink = NoConn]

\* Detach; a connection that was taken over changes nothing.
Detach(s, c) ==
  IF s.expired \/ s.sink # c THEN s ELSE [s EXCEPT !.sink = NoConn, !.timer = "armed"]

RecordAborted(s, seqs) == IF s.expired THEN s ELSE [s EXCEPT !.aborted = @ \o seqs]

\* expire, with the CloseConn of the retained ConnState.
Expire(s) == [s EXCEPT !.expired = TRUE, !.timer = "off", !.sink = NoConn, !.subs = FALSE]

-----------------------------------------------------------------------------
\* SessionOk: the buffer is contiguous up to the counter (Attach relies on it)
\* and bounded; a session nobody is attached to has a timer that ends it, and an
\* expired one holds neither connection nor subscription.
SessionOk(s) ==
  s.live =>
    /\ s.buf = [i \in 1..Len(s.buf) |->
                  [seq |-> s.nextSeq - Len(s.buf) + i,
                   v |-> s.stamped[s.nextSeq - Len(s.buf) + i], old |-> s.buf[i].old]]
    /\ s.nextSeq = Len(s.stamped) /\ Len(s.buf) <= MaxMsgs
    /\ ~s.expired /\ s.sink = NoConn => s.timer # "off"
    /\ s.expired => s.sink = NoConn /\ ~s.subs
=============================================================================
