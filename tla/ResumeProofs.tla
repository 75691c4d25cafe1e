----------------------------- MODULE ResumeProofs -----------------------------
(* Proofs about Resume: replay buffers and attachments stay sound, and the   *)
(* client is handed the stream of its session or told of the gap, for any    *)
(* number of connections, sessions and pushes and any sizes of the buffers.  *)
EXTENDS Resume, SequenceTheorems, WellFoundedInduction, TLAPS

-----------------------------------------------------------------------------
(* The invariant.  First the types: m bounds the numbers of the client's     *)
(* frames, which the server hands back.                                      *)

SessIds == 0..NSess
Kinds == {"none", "hello", "ok", "expired", "push", "aborted", "command", "subscribe", "reply"}
FrameT(m) == [kind : Kinds, seq : 0..m, ps : Nat, v : Nat, sess : SessIds]
ConnT(m) ==
  [st : {"new", "read", "resumed", "teardown", "drained", "gone"}, up : BOOLEAN,
   q : Seq(FrameT(m)), qclosed : BOOLEAN, w : {"run", "stopped"}, sess : SessIds,
   drop : BOOLEAN, ab : Seq(0..m), in : Seq(FrameT(m)), net : Seq(FrameT(m))]
PushT == [seq : Nat, v : Nat, old : BOOLEAN]
SessionT(m) ==
  [live : BOOLEAN, nextSeq : Nat, buf : Seq(PushT), sink : Conns \cup {NoConn},
   aborted : Seq(0..m), timer : {"off", "armed", "fired"}, expired : BOOLEAN, subs : BOOLEAN,
   stamped : Seq(Nat)]
ClientT(m) ==
  [conn : Conns \cup {NoConn}, sid : SessIds, last : Nat, seq : Nat, pending : SUBSET Nat,
   ready : BOOLEAN, sup : {"none", "backoff", "handshake", "resubscribe", "waiting", "up"},
   supervising : BOOLEAN, hseq : Nat, hres : FrameT(m), got : Seq(Nat), gaps : Nat]

Typed ==
  /\ sess \in [Sessions -> SessionT(cl.seq)] /\ conn \in [Conns -> ConnT(cl.seq)]
  /\ cl \in ClientT(cl.seq) /\ cl.hseq <= cl.seq /\ pushes \in Nat
  /\ \A c \in Conns : Len(conn[c].q) <= QCap

\* A session's buffer is the end of its stream; one that does not exist yet is new.
Shape(b, n, st) ==
  /\ Len(b) <= n
  /\ \A i \in 1..Len(b) : b[i].seq = n - Len(b) + i /\ b[i].v = st[n - Len(b) + i]
BufferOk(s) ==
  IF s.live THEN s.nextSeq = Len(s.stamped) /\ Len(s.buf) <= MaxMsgs /\ Shape(s.buf, s.nextSeq, s.stamped)
  ELSE s = [NewSession EXCEPT !.live = FALSE]
Buffers == \A s \in Sessions : BufferOk(sess[s])

\* Sessions and connections belong together.
ConnOk(cn) ==
  /\ cn.st = "new" => cn = Unused
  /\ cn.qclosed \/ cn.st \in {"teardown", "drained", "gone"} => ~ cn.up
  /\ cn.drop \/ cn.st = "resumed" => cn.sess # NoSession
SinkOk(s) ==
  /\ sess[s].sink # NoConn =>
       /\ sess[s].live /\ ~ sess[s].expired
       /\ conn[sess[s].sink].sess = s /\ conn[sess[s].sink].st \notin {"new", "gone"}
  /\ sess[s].live /\ sess[s].sink = NoConn /\ ~ sess[s].expired => sess[s].timer # "off"
Owned ==
  /\ \A c \in Conns : ConnOk(conn[c])
  /\ \A c \in Conns : conn[c].sess # NoSession =>
       sess[conn[c].sess].live /\ (conn[c].up => sess[conn[c].sess].sink = c)
  /\ \A s \in Sessions : SinkOk(s)

\* Hellos: each is the only frame of a connection without a session.
Hellos ==
  \A c \in Conns : \A i \in 1..Len(conn[c].in) : conn[c].in[i].kind = "hello" =>
    /\ Len(conn[c].in) = 1 /\ conn[c].st = "read" /\ conn[c].sess = NoSession
    /\ conn[c].in[1].sess # NoSession => sess[conn[c].in[1].sess].live

\* A session nobody has subscribed yet, and one that nobody resumes.
HasFrame(w, kind) == \E i \in 1..Len(w) : w[i].kind = kind
NeverSub(s) ==
  /\ sess[s].stamped = <<>> /\ ~ sess[s].subs
  /\ \A c \in Conns : conn[c].sess = s => ~ HasFrame(conn[c].in, "subscribe")
Young(s) ==
  /\ sess[s].live /\ (sess[s].sink = NoConn \/ sess[s].timer = "off")
  /\ \A c \in Conns : conn[c].sess = s => conn[c].st # "resumed"
  /\ \A c \in Conns : \A i \in 1..Len(conn[c].in) :
       conn[c].in[i].kind = "hello" => conn[c].in[i].sess # s

\* The frames of cn that reach the client unless cn is cut.
Way(cn) == IF cn.up THEN cn.net \o cn.q ELSE cn.net

\* What the supervisor knows.
Supervised ==
  /\ cl.sid # NoSession => sess[cl.sid].live
  /\ (cl.sup # "none") = cl.supervising
  /\ cl.sup = "backoff" => cl.conn = NoConn
  /\ cl.conn # NoConn => conn[cl.conn].st # "new"
  /\ IF cl.sup \in {"backoff", "handshake"} THEN ~ cl.ready
     ELSE cl.sid # NoSession /\ (cl.conn # NoConn => conn[cl.conn].sess = cl.sid)

\* A session of a handshake is the client's, or a fresh one.
Offered(s) == s = cl.sid \/ (cl.sid = NoSession /\ NeverSub(s) /\ Young(s))

\* The handshake: one hello or its answer is under way.
Answer(f, n) == f.kind \in {"ok", "expired"} /\ f.seq = n
AnswerOk(cn, f) ==
  /\ cn.in = <<>>
  /\ f.kind = "ok" => f.sess # NoSession /\ cn.sess = f.sess
  /\ f.kind = "expired" => cn.sess = NoSession
Asked(f) == f.kind = "hello" /\ f.seq = cl.hseq /\ f.sess = cl.sid /\ f.ps = cl.last
Shaken(c) ==
  /\ conn[c].sess # NoSession => Offered(conn[c].sess)
  /\ conn[c].in # <<>> => Len(conn[c].in) = 1 /\ Asked(conn[c].in[1])
  /\ cl.hres.kind \in {"ok", "expired"} => AnswerOk(conn[c], cl.hres)
  /\ \A i \in 1..Len(Way(conn[c])) :
       Answer(Way(conn[c])[i], cl.hseq) => AnswerOk(conn[c], Way(conn[c])[i])
Handshake ==
  cl.sup = "handshake" =>
    /\ cl.hres.kind = "ok" => cl.hres.sess # NoSession /\ Offered(cl.hres.sess)
    /\ cl.conn # NoConn => Shaken(cl.conn)

\* A SUBSCRIBE under way is the supervisor's call, and its session is attached.
OneCall(w) == \A i, j \in 1..Len(w) : w[i].seq = cl.hseq /\ i < j => w[j].kind # "subscribe"
Subscribing ==
  /\ cl.sup \in {"resubscribe", "waiting"} => Young(cl.sid)
  /\ \A c \in Conns : conn[c].st \in {"read", "resumed"} /\ HasFrame(conn[c].in, "subscribe") =>
       /\ cl.sup = "waiting" /\ conn[c].sess = cl.sid /\ sess[cl.sid].sink = c
       /\ cl.hseq \in cl.pending /\ cl.conn \in {c, NoConn}
       /\ OneCall(conn[c].in)
       /\ \A i \in 1..Len(Way(conn[c])) :
            Way(conn[c])[i].kind # "push" => Way(conn[c])[i].seq # cl.hseq
  /\ \A s \in Sessions : sess[s].expired => ~ sess[s].subs

\* The pushes of w after number lo are the next ones of the stream st, and reach n.
PushAt(w, j, p) == w[j].kind = "push" /\ w[j].ps = p
Run(w, lo, st) ==
  \A i \in 1..Len(w) : w[i].kind = "push" =>
    /\ w[i].ps \in (lo + 1)..Len(st) /\ w[i].v = st[w[i].ps]
    /\ \A j \in 1..(i - 1) : w[j].kind = "push" => w[j].ps < w[i].ps
    /\ \A p \in (lo + 1)..(w[i].ps - 1) : \E j \in 1..(i - 1) : PushAt(w, j, p)
Full(w, lo, n) == \A p \in (lo + 1)..n : \E j \in 1..Len(w) : PushAt(w, j, p)

StreamOfConn(cn) == IF cn.sess = NoSession THEN <<>> ELSE sess[cn.sess].stamped
Flows(c) ==
  /\ Run(Way(conn[c]), cl.last, StreamOfConn(conn[c]))
  /\ conn[c].up /\ conn[c].sess # NoSession => Full(Way(conn[c]), cl.last, Len(StreamOfConn(conn[c])))
Streams ==
  /\ cl.last = Len(cl.got)
  /\ IF cl.sid = NoSession THEN cl.last = 0 ELSE cl.last <= Len(sess[cl.sid].stamped)
  /\ cl.conn # NoConn => Flows(cl.conn)

IInv == Typed /\ Buffers /\ Owned /\ Hellos /\ Supervised /\ Handshake /\ Subscribing /\ Streams

-----------------------------------------------------------------------------
(* Loops over sequences: what a loop computes, by induction for sets.      *)

\* A set with 0 and with every successor of its members has all natural numbers.
LEMMA SetInduction ==
  ASSUME NEW S, 0 \in S, \A n \in Nat : n \in S => n + 1 \in S
  PROVE  Nat \subseteq S
<1> DEFINE T == Nat \ S
           R == {ss \in Nat \X Nat : ss[1] < ss[2]}
<1> SUFFICES ASSUME T # {} PROVE FALSE
  OBVIOUS
<1>1. IsWellFoundedOn(R, Nat) /\ T \subseteq Nat
  BY NatLessThanWellFounded DEF OpToRel
<1>2. PICK x \in T : \A y \in T : ~ (<<y, x>> \in R)
  <2> HIDE DEF T, R
  <2> QED BY <1>1, WFMin
<1>3. x # 0 /\ x - 1 \in Nat /\ x = (x - 1) + 1 /\ x - 1 < x /\ x \in Nat
  OBVIOUS
<1>4. <<x - 1, x>> \in R
  BY <1>3
<1>5. x - 1 \in S
  BY <1>2, <1>3, <1>4
<1> QED BY <1>3, <1>5

\* Round n of a loop takes a value t of T to G[n][t], in T again; f has the values that N
\* rounds lead to from b.
Rounds(G, N, T) == \A n \in 1..N, t \in T : G[n][t] \in T
Runs(f, G, N, b) == f[0] = b /\ \A n \in 1..N : f[n] = G[n][f[n - 1]]

LEMMA Loop ==
  ASSUME NEW N \in Nat, NEW T, NEW b \in T, NEW G, Rounds(G, N, T)
  PROVE  \E f \in [0..N -> T] : Runs(f, G, N, b)
<1> USE DEF Rounds, Runs
<1> DEFINE Good(f, m) == f[0] = b /\ \A n \in 1..m : f[n] = G[n][f[n - 1]]
           S == {m \in Nat : m <= N => \E f \in [0..m -> T] : Good(f, m)}
<1>1. 0 \in S
  <2>1. Good([i \in 0..0 |-> b], 0)
    OBVIOUS
  <2>2. [i \in 0..0 |-> b] \in [0..0 -> T]
    OBVIOUS
  <2> QED BY <2>1, <2>2
<1>2. ASSUME NEW m \in Nat, m \in S PROVE m + 1 \in S
  <2> SUFFICES ASSUME m + 1 <= N PROVE \E f \in [0..(m + 1) -> T] : Good(f, m + 1)
    OBVIOUS
  <2>1. PICK f \in [0..m -> T] : Good(f, m)
    BY <1>2
  <2> DEFINE g == [i \in 0..(m + 1) |-> IF i <= m THEN f[i] ELSE G[m + 1][f[m]]]
  <2>2. G[m + 1][f[m]] \in T
    BY <2>1
  <2>3. g \in [0..(m + 1) -> T]
    BY <2>1, <2>2
  <2>4. ASSUME NEW n \in 1..(m + 1) PROVE g[n] = G[n][g[n - 1]]
    <3>1. CASE n <= m
      <4>1. g[n] = f[n] /\ g[n - 1] = f[n - 1] /\ n \in 1..m
        BY <3>1
      <4> QED BY <2>1, <4>1
    <3>2. CASE n = m + 1
      <4>1. g[n] = G[m + 1][f[m]] /\ g[n - 1] = f[m] /\ n - 1 = m
        BY <3>2
      <4> QED BY <3>2, <4>1
    <3> QED BY <3>1, <3>2
  <2>5. g[0] = b
    BY <2>1
  <2> QED BY <2>3, <2>4, <2>5
<1>3. N \in S
  <2> HIDE DEF S
  <2> QED BY <1>1, <1>2, SetInduction
<1> QED BY <1>3

-----------------------------------------------------------------------------
(* Sequences: the end of a buffer, and the members at some positions.      *)

LEMMA LeastIs ==
  ASSUME NEW K \in SUBSET Nat, K # {}
  PROVE  \E n \in K : \A m \in K : n <= m
<1> DEFINE R == {ss \in Nat \X Nat : ss[1] < ss[2]}
<1>1. IsWellFoundedOn(R, Nat)
  BY NatLessThanWellFounded DEF OpToRel
<1>2. PICK n \in K : \A m \in K : ~ (<<m, n>> \in R)
  <2> HIDE DEF R
  <2> QED BY <1>1, WFMin
<1>3. ASSUME NEW m \in K PROVE n <= m
  <2>1. n \in Nat /\ m \in Nat
    OBVIOUS
  <2>2. m < n => <<m, n>> \in R
    BY <2>1
  <2> QED BY <1>2, <2>1, <2>2
<1> QED BY <1>3

LEMMA SuffixIs ==
  ASSUME NEW S, NEW q \in Seq(S), NEW k \in 1..(Len(q) + 1)
  PROVE  /\ SubSeq(q, k, Len(q)) \in Seq(S) /\ Len(SubSeq(q, k, Len(q))) = Len(q) - k + 1
         /\ \A i \in 1..(Len(q) - k + 1) : SubSeq(q, k, Len(q))[i] = q[k - 1 + i]
<1> DEFINE b == SubSeq(q, k, Len(q))
<1>1. Len(q) \in Nat /\ \A j \in k..Len(q) : q[j] \in S
  OBVIOUS
<1>2. /\ b \in Seq(S) /\ Len(b) = IF k <= Len(q) THEN Len(q) - k + 1 ELSE 0
      /\ \A i \in 1..(Len(q) - k + 1) : b[i] = q[k + i - 1]
  BY <1>1, SubSeqProperties
<1> HIDE DEF b
<1>3. Len(b) = Len(q) - k + 1
  BY <1>1, <1>2
<1>4. \A i \in 1..(Len(q) - k + 1) : k + i - 1 = k - 1 + i
  BY <1>1
<1> QED BY <1>2, <1>3, <1>4 DEF b

LEMMA PrefixIs ==
  ASSUME NEW S, NEW q \in Seq(S), NEW n \in 0..Len(q)
  PROVE  /\ SubSeq(q, 1, n) \in Seq(S) /\ Len(SubSeq(q, 1, n)) = n
         /\ \A i \in 1..n : SubSeq(q, 1, n)[i] = q[i]
<1> DEFINE b == SubSeq(q, 1, n)
<1>1. Len(q) \in Nat /\ \A j \in 1..n : q[j] \in S
  OBVIOUS
<1>2. /\ b \in Seq(S) /\ Len(b) = IF 1 <= n THEN n - 1 + 1 ELSE 0
      /\ \A i \in 1..(n - 1 + 1) : b[i] = q[1 + i - 1]
  BY <1>1, SubSeqProperties
<1> HIDE DEF b
<1>3. Len(b) = n /\ n - 1 + 1 = n /\ \A i \in 1..n : 1 + i - 1 = i
  BY <1>1, <1>2
<1> QED BY <1>2, <1>3 DEF b

\* What Trim keeps is the end of the buffer, and not more than the bound.
LEMMA TrimIs ==
  ASSUME NEW q \in Seq(PushT)
  PROVE  \E k \in 1..(Len(q) + 1) :
           /\ Trim(q) = SubSeq(q, k, Len(q)) /\ Trim(q) \in Seq(PushT)
           /\ Len(Trim(q)) = Len(q) - k + 1 /\ Len(Trim(q)) <= MaxMsgs
           /\ \A i \in 1..(Len(q) - k + 1) : Trim(q)[i] = q[k - 1 + i]
<1> USE SessionAssumption
<1> DEFINE K == {n \in 1..(Len(q) + 1) :
                   Len(q) - n + 1 <= MaxMsgs /\ (n <= Len(q) => ~q[n].old)}
           k == CHOOSE n \in K : \A m \in K : n <= m
<1>1. Len(q) \in Nat /\ Len(q) + 1 \in K
  OBVIOUS
<1>2. K \in SUBSET Nat /\ K # {}
  BY <1>1
<1>3. \E n \in K : \A m \in K : n <= m
  <2> HIDE DEF K
  <2> QED BY <1>2, LeastIs
<1>4. k \in K
  <2> HIDE DEF K
  <2> QED BY <1>3
<1>5. Trim(q) = SubSeq(q, k, Len(q))
  BY DEF Trim
<1> HIDE DEF k
<1>6. k \in 1..(Len(q) + 1) /\ Len(q) - k + 1 <= MaxMsgs
  BY <1>4
<1> HIDE DEF K
<1>7. /\ Trim(q) \in Seq(PushT) /\ Len(Trim(q)) = Len(q) - k + 1
      /\ \A i \in 1..(Len(q) - k + 1) : Trim(q)[i] = q[k - 1 + i]
  BY <1>5, <1>6, SuffixIs
<1> QED BY <1>5, <1>6, <1>7

\* What the loop of Keep leaves, and that it is the end of q when its positions are.
LEMMA KeepIs ==
  ASSUME NEW S, NEW q \in Seq(S), NEW I
  PROVE  /\ Keep(q, I) \in Seq(S)
         /\ \A k \in 0..Len(q) : (\A n \in 1..Len(q) : n \in I <=> k < n) =>
              /\ Len(Keep(q, I)) = Len(q) - k
              /\ \A i \in 1..(Len(q) - k) : Keep(q, I)[i] = q[k + i]
<1> DEFINE N == Len(q)
           Body(g) == [n \in 0..N |-> IF n = 0 THEN <<>>
                                      ELSE IF n \in I THEN Append(g[n - 1], q[n]) ELSE g[n - 1]]
           out == CHOOSE g : g = Body(g)
           G == [n \in 1..N |-> [t \in Seq(S) |-> IF n \in I THEN Append(t, q[n]) ELSE t]]
<1>1. Keep(q, I) = out[N]
  BY DEF Keep
<1>2. out = Body(out)
  <2>1. N \in Nat /\ <<>> \in Seq(S) /\ \A n \in 1..N, t \in Seq(S) : G[n][t] \in Seq(S)
    OBVIOUS
  <2>2. PICK f \in [0..N -> Seq(S)] : Runs(f, G, N, <<>>)
    <3>1. N \in Nat /\ <<>> \in Seq(S) /\ Rounds(G, N, Seq(S))
      BY <2>1 DEF Rounds
    <3> HIDE DEF N, G
    <3> QED BY <3>1, Loop
  <2>3. ASSUME NEW n \in 0..N
        PROVE  f[n] = IF n = 0 THEN <<>>
                      ELSE IF n \in I THEN Append(f[n - 1], q[n]) ELSE f[n - 1]
    <3>1. CASE n = 0
      BY <2>2, <3>1 DEF Runs
    <3>2. CASE n # 0
      <4>1. n \in 1..N /\ n - 1 \in 0..N
        BY <2>1, <3>2
      <4>2. f[n] = G[n][f[n - 1]] /\ f[n - 1] \in Seq(S)
        BY <2>2, <4>1 DEF Runs
      <4> QED BY <3>2, <4>1, <4>2
    <3> QED BY <3>1, <3>2
  <2>4. f = Body(f)
    BY <2>2, <2>3
  <2> HIDE DEF Body
  <2> QED BY <2>4
<1>3. out[0] = <<>> /\ \A n \in 1..N : out[n] = IF n \in I THEN Append(out[n - 1], q[n])
                                                ELSE out[n - 1]
  <2> HIDE DEF out
  <2>1. N \in Nat /\ 0 \in 0..N /\ \A n \in 1..N : n \in 0..N /\ n # 0
    OBVIOUS
  <2> HIDE DEF N
  <2>2. \A n \in 0..N : out[n] = IF n = 0 THEN <<>>
                                 ELSE IF n \in I THEN Append(out[n - 1], q[n]) ELSE out[n - 1]
    BY <1>2
  <2>3. out[0] = <<>>
    BY <2>1, <2>2
  <2>4. ASSUME NEW n \in 1..N
        PROVE  out[n] = IF n \in I THEN Append(out[n - 1], q[n]) ELSE out[n - 1]
    BY <2>1, <2>2
  <2> QED BY <2>3, <2>4
<1> HIDE DEF out
<1>4. N \in Nat /\ \A m \in 1..N : q[m] \in S
  OBVIOUS
<1>5. out[N] \in Seq(S)
  <2> DEFINE J == {m \in Nat : m <= N => out[m] \in Seq(S)}
  <2>1. 0 \in J
    <3>1. out[0] = <<>> /\ <<>> \in Seq(S)
      BY <1>3
    <3>2. out[0] \in Seq(S)
      BY <3>1
    <3> HIDE DEF N
    <3> QED BY <3>2
  <2>2. ASSUME NEW m \in Nat, m \in J PROVE m + 1 \in J
    <3> SUFFICES ASSUME m + 1 <= N PROVE out[m + 1] \in Seq(S)
      OBVIOUS
    <3>1. m + 1 \in 1..N /\ (m + 1) - 1 = m /\ out[m] \in Seq(S) /\ q[m + 1] \in S
      BY <1>4, <2>2
    <3> HIDE DEF N, J
    <3>2. out[m + 1] = IF m + 1 \in I THEN Append(out[m], q[m + 1]) ELSE out[m]
      BY <1>3, <3>1
    <3> QED BY <3>1, <3>2
  <2>3. N \in J
    <3> HIDE DEF J
    <3> QED BY <1>4, <2>1, <2>2, SetInduction
  <2> QED BY <1>4, <2>3
<1>6. ASSUME NEW k \in 0..N, \A n \in 1..N : n \in I <=> k < n
      PROVE  Len(out[N]) = N - k /\ \A i \in 1..(N - k) : out[N][i] = q[k + i]
  <2> DEFINE Right(m) == /\ out[m] \in Seq(S) /\ Len(out[m]) = (IF m < k THEN 0 ELSE m - k)
                         /\ \A i \in 1..(m - k) : out[m][i] = q[k + i]
             J == {m \in Nat : m <= N => Right(m)}
  <2>1. 0 \in J
    <3>1. out[0] = <<>> /\ <<>> \in Seq(S) /\ Len(<<>>) = 0 /\ k \in Nat
      BY <1>3
    <3> HIDE DEF N
    <3>2. Right(0)
      BY <3>1
    <3> HIDE DEF Right
    <3> QED BY <3>2
  <2>2. ASSUME NEW m \in Nat, m \in J PROVE m + 1 \in J
    <3> SUFFICES ASSUME m + 1 <= N PROVE Right(m + 1)
      OBVIOUS
    <3>1. m + 1 \in 1..N /\ (m + 1) - 1 = m /\ Right(m) /\ q[m + 1] \in S /\ k \in Nat
      BY <1>4, <2>2
    <3> HIDE DEF N, J
    <3>2. out[m + 1] = IF k < m + 1 THEN Append(out[m], q[m + 1]) ELSE out[m]
      BY <1>3, <1>6, <3>1
    <3>3. CASE k < m + 1
      <4>1. Len(out[m]) = m - k /\ out[m] \in Seq(S)
        BY <3>1, <3>3
      <4>2. /\ out[m + 1] \in Seq(S) /\ Len(out[m + 1]) = m + 1 - k
            /\ \A i \in 1..(m - k) : out[m + 1][i] = out[m][i]
            /\ out[m + 1][m - k + 1] = q[m + 1]
        BY <3>1, <3>2, <3>3, <4>1, SMTT(20)
      <4>3. ASSUME NEW i \in 1..(m + 1 - k) PROVE out[m + 1][i] = q[k + i]
        <5>1. CASE i <= m - k
          BY <3>1, <4>2, <5>1
        <5>2. CASE i = m - k + 1
          BY <3>1, <4>2, <5>2
        <5> QED BY <3>1, <5>1, <5>2
      <4> QED BY <3>3, <4>2, <4>3
    <3>4. CASE ~ k < m + 1
      <4>1. m < k /\ m + 1 <= k /\ out[m + 1] = out[m] /\ Len(out[m]) = 0
        BY <3>1, <3>2, <3>4
      <4> QED BY <3>1, <4>1
    <3> QED BY <3>3, <3>4
  <2>3. N \in J
    <3> HIDE DEF J
    <3> QED BY <1>4, <2>1, <2>2, SetInduction
  <2>4. Right(N)
    BY <1>4, <2>3
  <2> QED BY <1>4, <2>4
<1> QED BY <1>1, <1>5, <1>6

-----------------------------------------------------------------------------
(* Runs: what is on the way to the client, and what happens to it.         *)

Pre(w, x) == Len(w) <= Len(x) /\ \A i \in 1..Len(w) : w[i] = x[i]

\* Less is on the way.
LEMMA RunPrefix ==
  ASSUME NEW S, NEW w \in Seq(S), NEW x \in Seq(S), Pre(x, w), NEW lo, NEW st, Run(w, lo, st)
  PROVE  Run(x, lo, st)
<1>1. Len(w) \in Nat /\ Len(x) \in Nat /\ Len(x) <= Len(w) /\ \A i \in 1..Len(x) : x[i] = w[i]
  BY DEF Pre
<1> SUFFICES ASSUME NEW i \in 1..Len(x), x[i].kind = "push"
             PROVE  /\ x[i].ps \in (lo + 1)..Len(st) /\ x[i].v = st[x[i].ps]
                    /\ \A j \in 1..(i - 1) : x[j].kind = "push" => x[j].ps < x[i].ps
                    /\ \A p \in (lo + 1)..(x[i].ps - 1) : \E j \in 1..(i - 1) : PushAt(x, j, p)
  BY DEF Run
<1>2. i \in 1..Len(w) /\ x[i] = w[i] /\ \A j \in 1..(i - 1) : x[j] = w[j]
  BY <1>1
<1>3. /\ w[i].ps \in (lo + 1)..Len(st) /\ w[i].v = st[w[i].ps]
      /\ \A j \in 1..(i - 1) : w[j].kind = "push" => w[j].ps < w[i].ps
      /\ \A p \in (lo + 1)..(w[i].ps - 1) : \E j \in 1..(i - 1) : PushAt(w, j, p)
  BY <1>2 DEF Run
<1>4. \A p, j : j \in 1..(i - 1) => (PushAt(x, j, p) <=> PushAt(w, j, p))
  BY <1>2 DEF PushAt
<1> QED BY <1>2, <1>3, <1>4

\* More is on the way, but no further push.
LEMMA RunMore ==
  ASSUME NEW S, NEW w \in Seq(S), NEW x \in Seq(S), Pre(w, x), NEW lo, NEW st, Run(w, lo, st),
         \A i \in 1..Len(x) : i > Len(w) => x[i].kind # "push"
  PROVE  Run(x, lo, st) /\ \A n : Full(w, lo, n) => Full(x, lo, n)
<1>1. Len(w) \in Nat /\ Len(x) \in Nat /\ Len(w) <= Len(x) /\ \A i \in 1..Len(w) : x[i] = w[i]
  BY DEF Pre
<1>2. ASSUME NEW i \in 1..Len(x), x[i].kind = "push"
      PROVE  /\ x[i].ps \in (lo + 1)..Len(st) /\ x[i].v = st[x[i].ps]
             /\ \A j \in 1..(i - 1) : x[j].kind = "push" => x[j].ps < x[i].ps
             /\ \A p \in (lo + 1)..(x[i].ps - 1) : \E j \in 1..(i - 1) : PushAt(x, j, p)
  <2>1. i \in 1..Len(w) /\ x[i] = w[i] /\ \A j \in 1..(i - 1) : x[j] = w[j]
    BY <1>1, <1>2
  <2>2. /\ w[i].ps \in (lo + 1)..Len(st) /\ w[i].v = st[w[i].ps]
        /\ \A j \in 1..(i - 1) : w[j].kind = "push" => w[j].ps < w[i].ps
        /\ \A p \in (lo + 1)..(w[i].ps - 1) : \E j \in 1..(i - 1) : PushAt(w, j, p)
    BY <1>2, <2>1 DEF Run
  <2>3. \A p, j : j \in 1..(i - 1) => (PushAt(x, j, p) <=> PushAt(w, j, p))
    BY <2>1 DEF PushAt
  <2> QED BY <2>1, <2>2, <2>3
<1>3. Run(x, lo, st)
  BY <1>2 DEF Run
<1>4. ASSUME NEW n, Full(w, lo, n), NEW p \in (lo + 1)..n PROVE \E j \in 1..Len(x) : PushAt(x, j, p)
  <2>1. PICK j \in 1..Len(w) : PushAt(w, j, p)
    BY <1>4 DEF Full
  <2>2. j \in 1..Len(x) /\ PushAt(x, j, p)
    BY <1>1, <2>1 DEF PushAt
  <2> QED BY <2>2
<1> QED BY <1>3, <1>4 DEF Full

\* The stream grows.
LEMMA RunGrows ==
  ASSUME NEW S, NEW w \in Seq(S), NEW lo, NEW st \in Seq(Nat), NEW v \in Nat, Run(w, lo, st),
         lo \in Nat
  PROVE  Run(w, lo, Append(st, v))
<1>1. /\ Len(st) \in Nat /\ Len(Append(st, v)) = Len(st) + 1
      /\ \A p \in 1..Len(st) : Append(st, v)[p] = st[p]
  OBVIOUS
<1> DEFINE t == Append(st, v)
<1> HIDE DEF t
<1>2. ASSUME NEW i \in 1..Len(w), w[i].kind = "push"
      PROVE  /\ w[i].ps \in (lo + 1)..Len(t) /\ w[i].v = t[w[i].ps]
  <2>1. w[i].ps \in (lo + 1)..Len(st) /\ w[i].v = st[w[i].ps]
    BY <1>2 DEF Run
  <2> QED BY <1>1, <2>1 DEF t
<1>3. Run(w, lo, t)
  BY <1>2 DEF Run
<1> QED BY <1>3 DEF t

\* Everything is on the way, and the next push follows.
LEMMA RunPush ==
  ASSUME NEW S, NEW w \in Seq(S), NEW f \in S, NEW lo \in Nat, NEW st \in Seq(Nat), NEW v \in Nat,
         Run(w, lo, st), Full(w, lo, Len(st)), lo <= Len(st),
         f.kind = "push", f.ps = Len(st) + 1, f.v = v
  PROVE  /\ Run(Append(w, f), lo, Append(st, v))
         /\ Full(Append(w, f), lo, Len(Append(st, v)))
<1> DEFINE x == Append(w, f)
           t == Append(st, v)
<1>1. /\ Len(st) \in Nat /\ Len(t) = Len(st) + 1 /\ \A p \in 1..Len(st) : t[p] = st[p]
      /\ t[Len(st) + 1] = v
  OBVIOUS
<1>2. /\ Len(w) \in Nat /\ Len(x) = Len(w) + 1 /\ \A i \in 1..Len(w) : x[i] = w[i]
      /\ x[Len(w) + 1] = f
  OBVIOUS
<1> HIDE DEF x, t
<1>3. \A p, j : j \in 1..Len(w) => (PushAt(x, j, p) <=> PushAt(w, j, p))
  BY <1>2 DEF PushAt
<1>4. ASSUME NEW i \in 1..Len(x), x[i].kind = "push"
      PROVE  /\ x[i].ps \in (lo + 1)..Len(t) /\ x[i].v = t[x[i].ps]
             /\ \A j \in 1..(i - 1) : x[j].kind = "push" => x[j].ps < x[i].ps
             /\ \A p \in (lo + 1)..(x[i].ps - 1) : \E j \in 1..(i - 1) : PushAt(x, j, p)
  <2>1. CASE i \in 1..Len(w)
    <3>1. x[i] = w[i] /\ \A j \in 1..(i - 1) : x[j] = w[j] /\ j \in 1..Len(w)
      BY <1>2, <2>1
    <3>2. /\ w[i].ps \in (lo + 1)..Len(st) /\ w[i].v = st[w[i].ps]
          /\ \A j \in 1..(i - 1) : w[j].kind = "push" => w[j].ps < w[i].ps
          /\ \A p \in (lo + 1)..(w[i].ps - 1) : \E j \in 1..(i - 1) : PushAt(w, j, p)
      BY <1>4, <2>1, <3>1 DEF Run
    <3>3. w[i].ps \in (lo + 1)..Len(t) /\ w[i].v = t[w[i].ps]
      BY <1>1, <3>2, SMTT(20)
    <3>4. ASSUME NEW p \in (lo + 1)..(w[i].ps - 1) PROVE \E j \in 1..(i - 1) : PushAt(x, j, p)
      BY <1>3, <3>1, <3>2
    <3> QED BY <3>1, <3>2, <3>3, <3>4
  <2>2. CASE i = Len(w) + 1
    <3>1. x[i] = f /\ i - 1 = Len(w) /\ x[i].ps = Len(st) + 1
      BY <1>2, <2>2
    <3>2. x[i].ps \in (lo + 1)..Len(t) /\ x[i].v = t[x[i].ps]
      BY <1>1, <3>1
    <3>3. ASSUME NEW j \in 1..(i - 1), x[j].kind = "push" PROVE x[j].ps < x[i].ps
      <4>1. j \in 1..Len(w) /\ x[j] = w[j]
        BY <1>2, <3>1
      <4>2. w[j].ps \in (lo + 1)..Len(st)
        BY <3>3, <4>1 DEF Run
      <4> QED BY <1>1, <3>1, <4>1, <4>2
    <3>4. ASSUME NEW p \in (lo + 1)..(x[i].ps - 1) PROVE \E j \in 1..(i - 1) : PushAt(x, j, p)
      <4>1. p \in (lo + 1)..Len(st)
        BY <1>1, <3>1
      <4>2. PICK j \in 1..Len(w) : PushAt(w, j, p)
        BY <4>1 DEF Full
      <4> QED BY <1>3, <3>1, <4>2
    <3> QED BY <3>2, <3>3, <3>4
  <2> QED BY <1>2, <2>1, <2>2
<1>5. Run(x, lo, t)
  BY <1>4 DEF Run
<1>6. ASSUME NEW p \in (lo + 1)..Len(t) PROVE \E j \in 1..Len(x) : PushAt(x, j, p)
  <2>1. CASE p = Len(st) + 1
    <3>1. PushAt(x, Len(w) + 1, p) /\ Len(w) + 1 \in 1..Len(x)
      BY <1>2, <2>1 DEF PushAt
    <3> QED BY <3>1
  <2>2. CASE p # Len(st) + 1
    <3>1. p \in (lo + 1)..Len(st)
      BY <1>1, <2>2
    <3>2. PICK j \in 1..Len(w) : PushAt(w, j, p)
      BY <3>1 DEF Full
    <3> QED BY <1>2, <1>3, <3>2, SMTT(20)
  <2> QED BY <2>1, <2>2
<1>7. Full(x, lo, Len(t))
  BY <1>6 DEF Full
<1> QED BY <1>5, <1>7 DEF x, t

\* A replay: a frame that is no push, and the rest of the stream.
LEMMA RunReplay ==
  ASSUME NEW S, NEW w \in Seq(S), NEW x \in Seq(S), Pre(w, x), NEW lo \in Nat, NEW st \in Seq(Nat),
         Run(w, lo, <<>>), lo <= Len(st), Len(x) = Len(w) + 1 + (Len(st) - lo),
         x[Len(w) + 1].kind # "push",
         \A k \in 1..(Len(st) - lo) :
           /\ x[Len(w) + 1 + k].kind = "push"
           /\ x[Len(w) + 1 + k].ps = lo + k /\ x[Len(w) + 1 + k].v = st[lo + k]
  PROVE  Run(x, lo, st) /\ Full(x, lo, Len(st))
<1> DEFINE N == Len(w) + 1
<1>1. /\ N \in Nat /\ N = Len(w) + 1 /\ Len(st) \in Nat /\ \A i \in 1..Len(w) : x[i] = w[i]
      /\ Len(x) = N + (Len(st) - lo)
  BY DEF Pre
<1>2. ASSUME NEW i \in 1..N PROVE x[i].kind # "push"
  <2>1. CASE i = N
    BY <2>1
  <2>2. CASE i # N
    <3>1. i \in 1..Len(w) /\ x[i] = w[i]
      BY <1>1, <2>2
    <3>2. w[i].kind = "push" => w[i].ps \in (lo + 1)..Len(<<>>)
      BY <3>1 DEF Run
    <3> QED BY <3>1, <3>2
  <2> QED BY <2>1, <2>2
<1>3. \A k \in 1..(Len(st) - lo) :
        x[N + k].kind = "push" /\ x[N + k].ps = lo + k /\ x[N + k].v = st[lo + k]
  OBVIOUS
<1> HIDE DEF N
<1>4. ASSUME NEW i \in 1..Len(x), x[i].kind = "push"
      PROVE  /\ x[i].ps \in (lo + 1)..Len(st) /\ x[i].v = st[x[i].ps]
             /\ \A j \in 1..(i - 1) : x[j].kind = "push" => x[j].ps < x[i].ps
             /\ \A p \in (lo + 1)..(x[i].ps - 1) : \E j \in 1..(i - 1) : PushAt(x, j, p)
  <2>1. ~ i \in 1..N
    BY <1>2, <1>4
  <2>2. PICK k \in 1..(Len(st) - lo) : i = N + k
    <3>1. i - N \in 1..(Len(st) - lo) /\ i = N + (i - N)
      BY <1>1, <2>1
    <3> QED BY <3>1
  <2>3. x[i].ps = lo + k /\ x[i].v = st[lo + k]
    BY <1>3, <2>2
  <2>4. ASSUME NEW j \in 1..(i - 1), x[j].kind = "push" PROVE x[j].ps < x[i].ps
    <3>1. ~ j \in 1..N
      BY <1>2, <2>4
    <3>2. PICK m \in 1..(Len(st) - lo) : j = N + m
      <4>1. j - N \in 1..(Len(st) - lo) /\ j = N + (j - N)
        BY <1>1, <2>2, <3>1, SMTT(20)
      <4> QED BY <4>1
    <3>3. m < k
      BY <1>1, <2>2, <3>2
    <3>4. x[j].ps = lo + m
      BY <1>3, <3>2
    <3> QED BY <2>3, <3>3, <3>4
  <2>5. ASSUME NEW p \in (lo + 1)..(x[i].ps - 1) PROVE \E j \in 1..(i - 1) : PushAt(x, j, p)
    <3>1. p - lo \in 1..(Len(st) - lo) /\ N + (p - lo) \in 1..(i - 1) /\ lo + (p - lo) = p
      BY <1>1, <2>2, <2>3, SMTT(20)
    <3>2. PushAt(x, N + (p - lo), p)
      BY <1>3, <3>1 DEF PushAt
    <3> QED BY <3>1, <3>2
  <2>6. x[i].ps \in (lo + 1)..Len(st) /\ x[i].v = st[x[i].ps]
    BY <1>1, <2>2, <2>3
  <2> QED BY <2>4, <2>5, <2>6
<1>5. Run(x, lo, st)
  BY <1>4 DEF Run
<1>6. ASSUME NEW p \in (lo + 1)..Len(st) PROVE \E j \in 1..Len(x) : PushAt(x, j, p)
  <2>1. p - lo \in 1..(Len(st) - lo) /\ N + (p - lo) \in 1..Len(x) /\ lo + (p - lo) = p
    BY <1>1
  <2>2. PushAt(x, N + (p - lo), p)
    BY <1>3, <2>1 DEF PushAt
  <2> QED BY <2>1, <2>2
<1> QED BY <1>5, <1>6 DEF Full

\* The first frame arrives: a push is the next one of the stream.
LEMMA RunTail ==
  ASSUME NEW S, NEW w \in Seq(S), w # <<>>, NEW lo \in Nat, NEW st \in Seq(Nat), Run(w, lo, st)
  PROVE  /\ w[1].kind = "push" =>
              /\ w[1].ps = lo + 1 /\ lo + 1 \in 1..Len(st) /\ w[1].v = st[lo + 1]
              /\ Run(Tail(w), lo + 1, st) /\ \A n : Full(w, lo, n) => Full(Tail(w), lo + 1, n)
         /\ w[1].kind # "push" =>
              Run(Tail(w), lo, st) /\ \A n : Full(w, lo, n) => Full(Tail(w), lo, n)
<1> DEFINE x == Tail(w)
<1>1. /\ Len(w) \in Nat /\ Len(w) >= 1 /\ Len(x) = Len(w) - 1 /\ Len(st) \in Nat
      /\ \A i \in 1..(Len(w) - 1) : x[i] = w[i + 1]
  OBVIOUS
<1> HIDE DEF x
<1>2. \A i \in 1..Len(w) : w[i].kind = "push" =>
        /\ w[i].ps \in (lo + 1)..Len(st) /\ w[i].v = st[w[i].ps]
        /\ \A j \in 1..(i - 1) : w[j].kind = "push" => w[j].ps < w[i].ps
        /\ \A p \in (lo + 1)..(w[i].ps - 1) : \E j \in 1..(i - 1) : PushAt(w, j, p)
  BY DEF Run
<1>3. \A i \in 1..Len(x) : i + 1 \in 1..Len(w) /\ x[i] = w[i + 1]
  BY <1>1
<1>4. \A p, j : j \in 1..Len(x) => (PushAt(x, j, p) <=> PushAt(w, j + 1, p))
  BY <1>3 DEF PushAt
<1>5. CASE w[1].kind = "push"
  <2>1. w[1].ps = lo + 1 /\ lo + 1 \in 1..Len(st) /\ w[1].v = st[lo + 1]
    <3>1. /\ 1 \in 1..Len(w) /\ w[1].ps \in (lo + 1)..Len(st) /\ w[1].v = st[w[1].ps]
          /\ \A p \in (lo + 1)..(w[1].ps - 1) : \E j \in 1..(1 - 1) : PushAt(w, j, p)
      BY <1>1, <1>2, <1>5
    <3>2. ~ lo + 1 \in (lo + 1)..(w[1].ps - 1)
      BY <3>1
    <3>3. w[1].ps = lo + 1
      BY <3>1, <3>2
    <3> QED BY <3>1, <3>3
  <2>2. ASSUME NEW i \in 1..Len(x), x[i].kind = "push"
        PROVE  /\ x[i].ps \in (lo + 1 + 1)..Len(st) /\ x[i].v = st[x[i].ps]
               /\ \A j \in 1..(i - 1) : x[j].kind = "push" => x[j].ps < x[i].ps
               /\ \A p \in (lo + 1 + 1)..(x[i].ps - 1) : \E j \in 1..(i - 1) : PushAt(x, j, p)
    <3>1. i + 1 \in 1..Len(w) /\ x[i] = w[i + 1] /\ 1 \in 1..((i + 1) - 1) /\ (i + 1) - 1 = i
      BY <1>1, <1>3
    <3>2. /\ w[i + 1].ps \in (lo + 1)..Len(st) /\ w[i + 1].v = st[w[i + 1].ps]
          /\ \A j \in 1..((i + 1) - 1) : w[j].kind = "push" => w[j].ps < w[i + 1].ps
          /\ \A p \in (lo + 1)..(w[i + 1].ps - 1) : \E j \in 1..((i + 1) - 1) : PushAt(w, j, p)
      BY <1>2, <2>2, <3>1
    <3>3. w[1].ps < w[i + 1].ps
      BY <1>5, <3>1, <3>2
    <3>4. x[i].ps \in (lo + 1 + 1)..Len(st) /\ x[i].v = st[x[i].ps]
      BY <1>1, <2>1, <3>1, <3>2, <3>3
    <3>5. ASSUME NEW j \in 1..(i - 1), x[j].kind = "push" PROVE x[j].ps < x[i].ps
      <4>1. j \in 1..Len(x) /\ j + 1 \in 1..((i + 1) - 1) /\ x[j] = w[j + 1]
        BY <1>1, <1>3
      <4> QED BY <3>1, <3>2, <3>5, <4>1
    <3>6. ASSUME NEW p \in (lo + 1 + 1)..(x[i].ps - 1) PROVE \E j \in 1..(i - 1) : PushAt(x, j, p)
      <4>1. p \in (lo + 1)..(w[i + 1].ps - 1) /\ p # lo + 1
        BY <3>1, <3>2
      <4>2. PICK j \in 1..((i + 1) - 1) : PushAt(w, j, p)
        BY <3>2, <4>1
      <4>3. j # 1
        BY <2>1, <4>1, <4>2 DEF PushAt
      <4>4. j - 1 \in 1..(i - 1) /\ j - 1 \in 1..Len(x) /\ (j - 1) + 1 = j
        BY <1>1, <4>2, <4>3
      <4> QED BY <1>4, <4>2, <4>4
    <3> QED BY <3>4, <3>5, <3>6
  <2>3. Run(x, lo + 1, st)
    BY <2>2 DEF Run
  <2>4. ASSUME NEW n, Full(w, lo, n), NEW p \in (lo + 1 + 1)..n
        PROVE  \E j \in 1..Len(x) : PushAt(x, j, p)
    <3>1. PICK j \in 1..Len(w) : PushAt(w, j, p)
      <4>1. p \in (lo + 1)..n /\ p \in Int /\ p > lo + 1
        OBVIOUS
      <4> QED BY <2>4, <4>1 DEF Full
    <3>2. j # 1
      <4>1. p # lo + 1
        OBVIOUS
      <4> QED BY <2>1, <3>1, <4>1 DEF PushAt
    <3>3. j - 1 \in 1..Len(x) /\ (j - 1) + 1 = j
      BY <1>1, <3>1, <3>2
    <3> QED BY <1>4, <3>1, <3>3
  <2> QED BY <1>5, <2>1, <2>3, <2>4 DEF x, Full
<1>6. CASE w[1].kind # "push"
  <2>1. ASSUME NEW i \in 1..Len(x), x[i].kind = "push"
        PROVE  /\ x[i].ps \in (lo + 1)..Len(st) /\ x[i].v = st[x[i].ps]
               /\ \A j \in 1..(i - 1) : x[j].kind = "push" => x[j].ps < x[i].ps
               /\ \A p \in (lo + 1)..(x[i].ps - 1) : \E j \in 1..(i - 1) : PushAt(x, j, p)
    <3>1. i + 1 \in 1..Len(w) /\ x[i] = w[i + 1] /\ (i + 1) - 1 = i
      BY <1>1, <1>3
    <3>2. /\ w[i + 1].ps \in (lo + 1)..Len(st) /\ w[i + 1].v = st[w[i + 1].ps]
          /\ \A j \in 1..((i + 1) - 1) : w[j].kind = "push" => w[j].ps < w[i + 1].ps
          /\ \A p \in (lo + 1)..(w[i + 1].ps - 1) : \E j \in 1..((i + 1) - 1) : PushAt(w, j, p)
      BY <1>2, <2>1, <3>1
    <3>3. ASSUME NEW j \in 1..(i - 1), x[j].kind = "push" PROVE x[j].ps < x[i].ps
      <4>1. j \in 1..Len(x) /\ j + 1 \in 1..((i + 1) - 1) /\ x[j] = w[j + 1]
        BY <1>1, <1>3
      <4> QED BY <3>1, <3>2, <3>3, <4>1
    <3>4. ASSUME NEW p \in (lo + 1)..(x[i].ps - 1) PROVE \E j \in 1..(i - 1) : PushAt(x, j, p)
      <4>1. PICK j \in 1..((i + 1) - 1) : PushAt(w, j, p)
        BY <3>1, <3>2
      <4>2. j # 1
        BY <1>6, <4>1 DEF PushAt
      <4>3. j - 1 \in 1..(i - 1) /\ j - 1 \in 1..Len(x) /\ (j - 1) + 1 = j
        BY <1>1, <4>1, <4>2
      <4> QED BY <1>4, <4>1, <4>3
    <3> QED BY <3>1, <3>2, <3>3, <3>4
  <2>2. Run(x, lo, st)
    BY <2>1 DEF Run
  <2>3. ASSUME NEW n, Full(w, lo, n), NEW p \in (lo + 1)..n
        PROVE  \E j \in 1..Len(x) : PushAt(x, j, p)
    <3>1. PICK j \in 1..Len(w) : PushAt(w, j, p)
      BY <2>3 DEF Full
    <3>2. j # 1
      BY <1>6, <3>1 DEF PushAt
    <3>3. j - 1 \in 1..Len(x) /\ (j - 1) + 1 = j
      BY <1>1, <3>1, <3>2
    <3> QED BY <1>4, <3>1, <3>3
  <2> QED BY <1>6, <2>2, <2>3 DEF x, Full
<1> QED BY <1>5, <1>6

-----------------------------------------------------------------------------
(* What the operations make of a connection and of a session.              *)

LEMMA ConcatSteps ==
  ASSUME NEW S, NEW x \in Seq(S), NEW y \in Seq(S)
  PROVE  /\ \A f \in S : x \o Append(y, f) = Append(x \o y, f)
         /\ \A z \in Seq(S) : x \o (y \o z) = (x \o y) \o z
         /\ y # <<>> => Append(x, Head(y)) \o Tail(y) = x \o y
         /\ x # <<>> => Tail(x) \o y = Tail(x \o y) /\ x \o y # <<>> /\ (x \o y)[1] = Head(x)
<1>1. ASSUME NEW z \in Seq(S) PROVE x \o (y \o z) = (x \o y) \o z
  BY ConcatAssociative, SMTT(20)
<1>2. ASSUME NEW f \in S PROVE x \o Append(y, f) = Append(x \o y, f)
  <2>1. <<f>> \in Seq(S) /\ x \o y \in Seq(S)
    BY ConcatProperties
  <2>2. Append(y, f) = y \o <<f>> /\ Append(x \o y, f) = (x \o y) \o <<f>>
    BY <2>1, AppendIsConcat
  <2> QED BY <1>1, <2>1, <2>2
<1>3. /\ Len(x) \in Nat /\ Len(y) \in Nat /\ x \o y \in Seq(S) /\ Len(x \o y) = Len(x) + Len(y)
      /\ \A i \in 1..(Len(x) + Len(y)) : (x \o y)[i] = IF i <= Len(x) THEN x[i] ELSE y[i - Len(x)]
  BY ConcatProperties
<1> DEFINE w == x \o y
<1> HIDE DEF w
<1>4. ASSUME y # <<>> PROVE Append(x, Head(y)) \o Tail(y) = w
  <2> DEFINE a == Append(x, Head(y))
             t == Tail(y)
             r == a \o t
  <2>1. /\ Len(y) >= 1 /\ a \in Seq(S) /\ Len(a) = Len(x) + 1 /\ a[Len(x) + 1] = y[1]
        /\ \A i \in 1..Len(x) : a[i] = x[i]
    BY <1>4
  <2>2. t \in Seq(S) /\ Len(t) = Len(y) - 1 /\ \A i \in 1..(Len(y) - 1) : t[i] = y[i + 1]
    BY <1>4
  <2> HIDE DEF a, t
  <2>3. /\ r \in Seq(S) /\ Len(r) = Len(a) + Len(t)
        /\ \A i \in 1..(Len(a) + Len(t)) : r[i] = IF i <= Len(a) THEN a[i] ELSE t[i - Len(a)]
    BY <2>1, <2>2, ConcatProperties
  <2> HIDE DEF r
  <2>4. Len(r) = Len(w) /\ w \in Seq(S)
    BY <1>3, <2>1, <2>2, <2>3 DEF w
  <2>5. ASSUME NEW i \in 1..Len(r) PROVE r[i] = w[i]
    <3>1. i \in 1..(Len(a) + Len(t)) /\ i \in 1..(Len(x) + Len(y)) /\ i \in Int
      BY <1>3, <2>1, <2>2, <2>3
    <3>2. CASE i <= Len(x)
      BY <1>3, <2>1, <2>3, <3>1, <3>2 DEF w
    <3>3. CASE i = Len(x) + 1
      <4>1. r[i] = y[1] /\ i - Len(x) = 1 /\ ~ i <= Len(x)
        BY <1>3, <2>1, <2>3, <3>1, <3>3
      <4> QED BY <1>3, <3>1, <4>1 DEF w
    <3>4. CASE i > Len(x) + 1
      <4>1. r[i] = t[i - Len(a)] /\ i - Len(a) \in 1..(Len(y) - 1) /\ i - Len(a) + 1 = i - Len(x)
            /\ ~ i <= Len(x)
        BY <1>3, <2>1, <2>2, <2>3, <3>1, <3>4
      <4> QED BY <1>3, <2>2, <3>1, <4>1 DEF w
    <3> QED BY <1>3, <3>1, <3>2, <3>3, <3>4
  <2>6. r = w
    BY <2>3, <2>4, <2>5, SeqEqual
  <2> QED BY <2>6 DEF r, a, t
<1>5. ASSUME x # <<>> PROVE Tail(x) \o y = Tail(w) /\ w # <<>> /\ w[1] = Head(x)
  <2> DEFINE t == Tail(x)
             r == t \o y
             u == Tail(w)
  <2>1. /\ Len(x) >= 1 /\ t \in Seq(S) /\ Len(t) = Len(x) - 1 /\ Head(x) = x[1]
        /\ \A i \in 1..(Len(x) - 1) : t[i] = x[i + 1]
    BY <1>5
  <2>2. w \in Seq(S) /\ Len(w) >= 1 /\ Len(w) = Len(x) + Len(y) /\ w[1] = x[1]
    BY <1>3, <2>1 DEF w
  <2>3. w # <<>>
    BY <2>2
  <2>4. u \in Seq(S) /\ Len(u) = Len(w) - 1 /\ \A i \in 1..(Len(w) - 1) : u[i] = w[i + 1]
    BY <2>2, <2>3
  <2> HIDE DEF t, u
  <2>5. /\ r \in Seq(S) /\ Len(r) = Len(t) + Len(y)
        /\ \A i \in 1..(Len(t) + Len(y)) : r[i] = IF i <= Len(t) THEN t[i] ELSE y[i - Len(t)]
    BY <2>1, ConcatProperties
  <2> HIDE DEF r
  <2>6. Len(r) = Len(u)
    BY <1>3, <2>1, <2>2, <2>4, <2>5
  <2>7. ASSUME NEW i \in 1..Len(r) PROVE r[i] = u[i]
    <3>1. /\ i \in 1..(Len(t) + Len(y)) /\ i + 1 \in 1..(Len(x) + Len(y)) /\ i \in 1..(Len(w) - 1)
      BY <1>3, <2>1, <2>2, <2>5
    <3>2. u[i] = IF i + 1 <= Len(x) THEN x[i + 1] ELSE y[i + 1 - Len(x)]
      BY <1>3, <2>4, <3>1 DEF w
    <3>3. r[i] = IF i <= Len(t) THEN t[i] ELSE y[i - Len(t)]
      BY <2>5, <3>1
    <3>4. CASE i <= Len(t)
      <4>1. i + 1 <= Len(x) /\ i \in 1..(Len(x) - 1)
        BY <1>3, <2>1, <3>1, <3>4
      <4> QED BY <2>1, <3>2, <3>3, <3>4, <4>1
    <3>5. CASE ~ i <= Len(t)
      <4>1. ~ i + 1 <= Len(x) /\ i + 1 - Len(x) = i - Len(t)
        BY <1>3, <2>1, <3>1, <3>5
      <4> QED BY <3>2, <3>3, <3>5, <4>1
    <3> QED BY <3>4, <3>5
  <2>8. r = u
    BY <2>4, <2>5, <2>6, <2>7, SeqEqual
  <2> QED BY <2>1, <2>2, <2>3, <2>8 DEF r, t, u
<1> QED BY <1>1, <1>2, <1>4, <1>5 DEF w

LEMMA WayIs ==
  ASSUME NEW m, NEW cn \in ConnT(m)
  PROVE  /\ Way(cn) \in Seq(FrameT(m)) /\ Len(Way(cn)) \in Nat
         /\ Pre(cn.net, Way(cn)) /\ (~ cn.up => Way(cn) = cn.net)
<1>1. cn.net \in Seq(FrameT(m)) /\ cn.q \in Seq(FrameT(m))
  BY DEF ConnT
<1> DEFINE x == cn.net
           y == cn.q
<1> HIDE DEF x, y
<1>2. /\ x \o y \in Seq(FrameT(m)) /\ Len(x \o y) = Len(x) + Len(y)
      /\ \A i \in 1..Len(x) + Len(y) : (x \o y)[i] = IF i <= Len(x) THEN x[i] ELSE y[i - Len(x)]
  BY <1>1, ConcatProperties DEF x, y
<1>3. Len(x) \in Nat /\ Len(y) \in Nat /\ x \in Seq(FrameT(m))
  BY <1>1 DEF x, y
<1>4. Pre(x, x \o y) /\ Pre(x, x)
  BY <1>2, <1>3 DEF Pre
<1>5. Way(cn) = IF cn.up THEN x \o y ELSE x
  BY DEF Way, x, y
<1>6. Way(cn) \in Seq(FrameT(m)) /\ Pre(x, Way(cn)) /\ (~ cn.up => Way(cn) = x)
  BY <1>2, <1>3, <1>4, <1>5
<1> HIDE DEF Way
<1> QED BY <1>6 DEF x

\* A step of a connection that leaves its place, its session and its frames in alone.
Stays(cn, e) ==
  /\ e.st = cn.st /\ e.w = cn.w /\ e.sess = cn.sess /\ e.drop = cn.drop /\ e.ab = cn.ab
  /\ e.in = cn.in /\ e.net = cn.net /\ (e.up => cn.up) /\ (e.qclosed => ~ e.up)

LEMMA CloseIs ==
  ASSUME NEW m, NEW cn \in ConnT(m)
  PROVE  /\ WsClose(cn) \in ConnT(m) /\ Stays(cn, WsClose(cn))
         /\ ~ WsClose(cn).up /\ WsClose(cn).q = cn.q /\ WsClose(cn).qclosed
BY DEF ConnT, WsClose, Stays

LEMMA EnqueueIs ==
  ASSUME NEW m, NEW cn \in ConnT(m), cn.qclosed => ~ cn.up, Len(cn.q) <= QCap,
         NEW f \in FrameT(m)
  PROVE  /\ Enqueue(cn, f) \in ConnT(m) /\ Len(Enqueue(cn, f).q) <= QCap
         /\ Stays(cn, Enqueue(cn, f))
         /\ Enqueue(cn, f).up => Way(Enqueue(cn, f)) = Append(Way(cn), f)
<1> USE ResumeAssumption
<1>1. cn.q \in Seq(FrameT(m)) /\ cn.net \in Seq(FrameT(m)) /\ Len(cn.q) \in Nat
  BY DEF ConnT
<1>2. CASE Accepts(cn)
  <2> DEFINE r == Append(cn.q, f)
  <2>1. r \in Seq(FrameT(m)) /\ Len(r) = Len(cn.q) + 1
    BY <1>1
  <2>9. cn.net \o r = Append(cn.net \o cn.q, f)
    <3> DEFINE x == cn.net
               y == cn.q
               S == FrameT(m)
    <3>1. x \in Seq(S) /\ y \in Seq(S) /\ f \in S
      BY <1>1
    <3> HIDE DEF x, y, S
    <3>2. x \o Append(y, f) = Append(x \o y, f)
      BY ONLY <3>1, ConcatSteps
    <3> QED BY <3>2 DEF x, y
  <2> HIDE DEF r
  <2> DEFINE e == [cn EXCEPT !.q = r]
  <2>2. Enqueue(cn, f) = e /\ ~ cn.qclosed /\ Len(cn.q) < QCap
    BY <1>2 DEF Enqueue, Accepts, r
  <2>3. e \in ConnT(m)
    BY <2>1 DEF ConnT
  <2>4. e.q = r /\ e.up = cn.up /\ e.net = cn.net /\ Stays(cn, e)
    BY <2>2 DEF ConnT, Stays
  <2>5. e.up => Way(e) = Append(Way(cn), f)
    BY <2>9, <2>4 DEF Way
  <2>6. Len(e.q) <= QCap
    BY <1>1, <2>1, <2>2, <2>4
  <2> QED BY <2>2, <2>3, <2>4, <2>5, <2>6
<1>3. CASE ~ Accepts(cn)
  <2>1. Enqueue(cn, f) = WsClose(cn)
    BY <1>3 DEF Enqueue
  <2> QED BY <2>1, CloseIs
<1> QED BY <1>2, <1>3

LEMMA EnqueueAllIs ==
  ASSUME NEW m, NEW cn \in ConnT(m), cn.qclosed => ~ cn.up, Len(cn.q) <= QCap,
         NEW fs \in Seq(FrameT(m))
  PROVE  /\ EnqueueAll(cn, fs) \in ConnT(m) /\ Len(EnqueueAll(cn, fs).q) <= QCap
         /\ Stays(cn, EnqueueAll(cn, fs))
         /\ EnqueueAll(cn, fs).up => Way(EnqueueAll(cn, fs)) = Way(cn) \o fs
<1> USE ResumeAssumption
<1>1. /\ cn.q \in Seq(FrameT(m)) /\ cn.net \in Seq(FrameT(m)) /\ Len(cn.q) \in Nat
      /\ Len(fs) \in Nat
  BY DEF ConnT
<1> DEFINE room == QCap - Len(cn.q)
<1>2. CASE cn.qclosed
  <2>1. EnqueueAll(cn, fs) = cn /\ ~ cn.up
    BY <1>2 DEF EnqueueAll
  <2> QED BY <1>2, <2>1 DEF Stays
<1>3. CASE ~ cn.qclosed /\ Len(fs) <= room
  <2> DEFINE r == cn.q \o fs
  <2>1. r \in Seq(FrameT(m)) /\ Len(r) = Len(cn.q) + Len(fs)
    BY <1>1, ConcatProperties
  <2>2. cn.net \o r = (cn.net \o cn.q) \o fs
    <3> DEFINE x == cn.net
               y == cn.q
               S == FrameT(m)
    <3>1. x \in Seq(S) /\ y \in Seq(S) /\ fs \in Seq(S)
      BY <1>1
    <3> HIDE DEF x, y, S
    <3>2. x \o (y \o fs) = (x \o y) \o fs
      BY ONLY <3>1, ConcatSteps
    <3> QED BY <3>2 DEF x, y
  <2> HIDE DEF r
  <2> DEFINE e == [cn EXCEPT !.q = r]
  <2>3. EnqueueAll(cn, fs) = e
    BY <1>3 DEF EnqueueAll, r
  <2>4. e \in ConnT(m)
    BY <2>1 DEF ConnT
  <2>5. e.q = r /\ e.up = cn.up /\ e.net = cn.net /\ Stays(cn, e)
    BY <1>3 DEF ConnT, Stays
  <2>6. e.up => Way(e) = Way(cn) \o fs
    BY <2>2, <2>5 DEF Way
  <2>7. Len(e.q) <= QCap
    BY <1>1, <1>3, <2>1, <2>5
  <2> QED BY <2>3, <2>4, <2>5, <2>6, <2>7
<1>4. CASE ~ cn.qclosed /\ ~ Len(fs) <= room
  <2> DEFINE t == SubSeq(fs, 1, room)
             r == cn.q \o t
  <2>1. t \in Seq(FrameT(m)) /\ Len(t) = room
    <3>1. room \in 0..Len(fs)
      BY <1>1, <1>4
    <3> HIDE DEF room
    <3> QED BY <3>1, PrefixIs
  <2> HIDE DEF t
  <2>2. r \in Seq(FrameT(m)) /\ Len(r) = Len(cn.q) + Len(t)
    BY <1>1, <2>1, ConcatProperties
  <2> HIDE DEF r
  <2> DEFINE d == [cn EXCEPT !.q = r]
             e == WsClose(d)
  <2>3. EnqueueAll(cn, fs) = e
    BY <1>4 DEF EnqueueAll, r, t
  <2>4. d \in ConnT(m)
    BY <2>2 DEF ConnT
  <2>5. d.q = r /\ d.up = cn.up /\ Stays(cn, d)
    BY <1>4 DEF ConnT, Stays
  <2> HIDE DEF d
  <2>6. e \in ConnT(m) /\ Stays(d, e) /\ ~ e.up /\ e.q = d.q
    BY <2>4, CloseIs
  <2> HIDE DEF e
  <2>7. Stays(cn, e)
    BY <2>5, <2>6 DEF Stays
  <2>8. Len(e.q) <= QCap
    BY <1>1, <2>1, <2>2, <2>5, <2>6
  <2> QED BY <2>3, <2>6, <2>7, <2>8
<1> QED BY <1>2, <1>3, <1>4

\* Trimming keeps a buffer the end of its stream.
LEMMA TrimShape ==
  ASSUME NEW b \in Seq(PushT), NEW n \in Nat, NEW st, Shape(b, n, st)
  PROVE  Shape(Trim(b), n, st) /\ Trim(b) \in Seq(PushT) /\ Len(Trim(b)) <= MaxMsgs
<1> DEFINE t == Trim(b)
<1>1. PICK k \in 1..(Len(b) + 1) :
           /\ t \in Seq(PushT) /\ Len(t) = Len(b) - k + 1 /\ Len(t) <= MaxMsgs
           /\ \A i \in 1..(Len(b) - k + 1) : t[i] = b[k - 1 + i]
  BY TrimIs
<1> HIDE DEF t
<1>2. Len(b) \in Nat /\ k \in Nat /\ Len(b) <= n
  BY DEF Shape
<1>3. ASSUME NEW i \in 1..Len(t) PROVE t[i].seq = n - Len(t) + i /\ t[i].v = st[n - Len(t) + i]
  <2>1. /\ i \in 1..(Len(b) - k + 1) /\ k - 1 + i \in 1..Len(b)
        /\ n - Len(b) + (k - 1 + i) = n - Len(t) + i
    BY <1>1, <1>2
  <2>2. t[i] = b[k - 1 + i]
    BY <1>1, <2>1
  <2>3. b[k - 1 + i].seq = n - Len(b) + (k - 1 + i) /\ b[k - 1 + i].v = st[n - Len(b) + (k - 1 + i)]
    BY <2>1 DEF Shape
  <2> QED BY <2>1, <2>2, <2>3
<1>4. Len(t) <= n
  BY <1>1, <1>2
<1> QED BY <1>1, <1>3, <1>4 DEF Shape, t

LEMMA AppendShape ==
  ASSUME NEW b \in Seq(PushT), NEW n \in Nat, NEW st \in Seq(Nat), Shape(b, n, st), n = Len(st),
         NEW v \in Nat, NEW p \in PushT, p.seq = n + 1, p.v = v
  PROVE  Shape(Append(b, p), n + 1, Append(st, v)) /\ Append(b, p) \in Seq(PushT)
<1> DEFINE x == Append(b, p)
           t == Append(st, v)
<1>1. /\ x \in Seq(PushT) /\ Len(b) \in Nat /\ Len(x) = Len(b) + 1 /\ x[Len(b) + 1] = p
      /\ \A i \in 1..Len(b) : x[i] = b[i]
  OBVIOUS
<1>2. Len(t) = n + 1 /\ t[n + 1] = v /\ \A i \in 1..n : t[i] = st[i]
  OBVIOUS
<1> HIDE DEF x, t
<1>3. Len(b) <= n
  BY DEF Shape
<1>4. ASSUME NEW i \in 1..Len(x)
      PROVE  x[i].seq = (n + 1) - Len(x) + i /\ x[i].v = t[(n + 1) - Len(x) + i]
  <2>1. (n + 1) - Len(x) + i = n - Len(b) + i /\ i \in Nat
    BY <1>1
  <2>2. CASE i <= Len(b)
    <3>1. i \in 1..Len(b) /\ n - Len(b) + i \in 1..n
      BY <1>1, <1>3, <2>2
    <3>2. b[i].seq = n - Len(b) + i /\ b[i].v = st[n - Len(b) + i]
      BY <3>1 DEF Shape
    <3> QED BY <1>1, <1>2, <2>1, <3>1, <3>2
  <2>3. CASE i = Len(b) + 1
    <3>1. n - Len(b) + i = n + 1 /\ x[i] = p
      BY <1>1, <2>3
    <3> QED BY <1>2, <2>1, <3>1
  <2> QED BY <1>1, <2>1, <2>2, <2>3
<1>5. Len(x) <= n + 1
  BY <1>1, <1>3
<1>6. Shape(x, n + 1, t)
  BY <1>4, <1>5 DEF Shape
<1> QED BY <1>1, <1>6 DEF x, t

LEMMA DeliverIs ==
  ASSUME NEW m, NEW s \in SessionT(m), s.live, BufferOk(s), NEW v \in Nat
  PROVE  LET d == Deliver(s, v)
         IN /\ d \in SessionT(m) /\ BufferOk(d) /\ d.live
            /\ d.nextSeq = s.nextSeq + 1 /\ d.stamped = Append(s.stamped, v)
            /\ d.sink = s.sink /\ d.timer = s.timer /\ d.expired = s.expired /\ d.subs = s.subs
<1> DEFINE p == [seq |-> s.nextSeq + 1, v |-> v, old |-> FALSE]
           b == Append(s.buf, p)
           t == Append(s.stamped, v)
           k == s.nextSeq + 1
           r == Trim(b)
           d == [s EXCEPT !.nextSeq = k, !.stamped = t, !.buf = r]
<1>1. /\ s.nextSeq \in Nat /\ s.buf \in Seq(PushT) /\ s.stamped \in Seq(Nat)
      /\ s.nextSeq = Len(s.stamped) /\ Shape(s.buf, s.nextSeq, s.stamped)
  BY DEF SessionT, BufferOk
<1>2. p \in PushT /\ p.seq = s.nextSeq + 1 /\ p.v = v
  BY <1>1 DEF PushT
<1>3. Shape(b, k, t) /\ b \in Seq(PushT)
  <2> HIDE DEF p
  <2> QED BY <1>1, <1>2, AppendShape
<1>4. k \in Nat /\ t \in Seq(Nat) /\ Len(t) = k
  BY <1>1
<1>5. Deliver(s, v) = d
  BY DEF Deliver
<1> HIDE DEF p, b, t, k
<1>6. Shape(r, k, t) /\ r \in Seq(PushT) /\ Len(r) <= MaxMsgs
  BY <1>3, <1>4, TrimShape
<1> HIDE DEF r
<1>7. d \in SessionT(m)
  BY <1>4, <1>6 DEF SessionT
<1>8. /\ d.live /\ d.nextSeq = k /\ d.stamped = t /\ d.buf = r
      /\ d.sink = s.sink /\ d.timer = s.timer /\ d.expired = s.expired /\ d.subs = s.subs
  BY DEF SessionT
<1> HIDE DEF d
<1>9. BufferOk(d)
  BY <1>4, <1>6, <1>8 DEF BufferOk
<1> QED BY <1>5, <1>7, <1>8, <1>9 DEF k, t

LEMMA AttachIs ==
  ASSUME NEW m, NEW s \in SessionT(m), s.live, BufferOk(s), NEW c \in Conns
  PROVE  LET d == Attach(s, c)
         IN /\ d \in SessionT(m) /\ BufferOk(d) /\ d.live /\ d.sink = c
            /\ (s.timer = "off" => d.timer = "off") /\ d.expired = s.expired /\ d.subs = s.subs
            /\ d.stamped = s.stamped
<1> DEFINE t == StopTimer(s)
           r == Trim(t.buf)
           d == [t EXCEPT !.sink = c, !.buf = r, !.aborted = <<>>]
<1>1. /\ t \in SessionT(m) /\ t.live /\ t.buf = s.buf /\ t.nextSeq = s.nextSeq
      /\ t.stamped = s.stamped /\ t.expired = s.expired /\ t.subs = s.subs
      /\ (s.timer = "off" => t.timer = "off")
  BY DEF StopTimer, SessionT
<1>2. Attach(s, c) = d
  BY DEF Attach
<1> HIDE DEF t
<1>3. /\ t.nextSeq \in Nat /\ t.buf \in Seq(PushT) /\ Shape(t.buf, t.nextSeq, t.stamped)
      /\ t.nextSeq = Len(t.stamped)
  <2>1. s.nextSeq \in Nat /\ s.buf \in Seq(PushT) /\ Shape(s.buf, s.nextSeq, s.stamped)
        /\ s.nextSeq = Len(s.stamped)
    BY DEF SessionT, BufferOk
  <2> QED BY <1>1, <2>1
<1>4. Shape(r, t.nextSeq, t.stamped) /\ r \in Seq(PushT) /\ Len(r) <= MaxMsgs
  BY <1>3, TrimShape
<1> HIDE DEF r
<1>5. d \in SessionT(m)
  <2> DEFINE none == <<>>
  <2>1. none \in Seq(0..m)
    OBVIOUS
  <2> HIDE DEF none
  <2>2. [t EXCEPT !.sink = c, !.buf = r, !.aborted = none] \in SessionT(m)
    BY <1>1, <1>4, <2>1 DEF SessionT
  <2> QED BY <2>2 DEF none
<1>6. /\ d.live /\ d.sink = c /\ d.buf = r /\ d.nextSeq = t.nextSeq /\ d.stamped = t.stamped
      /\ d.timer = t.timer /\ d.expired = t.expired /\ d.subs = t.subs
  BY <1>1 DEF SessionT
<1> HIDE DEF d
<1>7. BufferOk(d)
  BY <1>3, <1>4, <1>6 DEF BufferOk
<1> QED BY <1>1, <1>2, <1>5, <1>6, <1>7

\* A session's other changes.
LEMMA SameBuffer ==
  ASSUME NEW s, s.live, BufferOk(s), NEW d, d.live, d.nextSeq = s.nextSeq, d.buf = s.buf,
         d.stamped = s.stamped
  PROVE  BufferOk(d)
BY DEF BufferOk

LEMMA DetachIs ==
  ASSUME NEW m, NEW s \in SessionT(m), s.live, BufferOk(s), NEW c
  PROVE  LET d == Detach(s, c)
         IN /\ d \in SessionT(m) /\ BufferOk(d) /\ d.live /\ d.expired = s.expired
            /\ d.subs = s.subs /\ d.stamped = s.stamped
            /\ IF s.expired \/ s.sink # c THEN d = s ELSE d.sink = NoConn /\ d.timer = "armed"
<1> DEFINE d == Detach(s, c)
<1>1. /\ d \in SessionT(m) /\ d.live /\ d.nextSeq = s.nextSeq /\ d.buf = s.buf
      /\ d.stamped = s.stamped /\ d.expired = s.expired /\ d.subs = s.subs
      /\ IF s.expired \/ s.sink # c THEN d = s ELSE d.sink = NoConn /\ d.timer = "armed"
  BY DEF Detach, SessionT
<1> HIDE DEF d
<1>2. BufferOk(d)
  BY <1>1, SameBuffer
<1> QED BY <1>1, <1>2 DEF d

LEMMA ExpireIs ==
  ASSUME NEW m, NEW s \in SessionT(m), s.live, BufferOk(s)
  PROVE  LET d == Expire(s)
         IN /\ d \in SessionT(m) /\ BufferOk(d) /\ d.live /\ d.expired /\ ~ d.subs
            /\ d.sink = NoConn /\ d.stamped = s.stamped
<1> DEFINE d == Expire(s)
<1>1. /\ d \in SessionT(m) /\ d.live /\ d.nextSeq = s.nextSeq /\ d.buf = s.buf
      /\ d.stamped = s.stamped /\ d.expired /\ ~ d.subs /\ d.sink = NoConn
  BY DEF Expire, SessionT
<1> HIDE DEF d
<1>2. BufferOk(d)
  BY <1>1, SameBuffer
<1> QED BY <1>1, <1>2 DEF d

LEMMA AbortedIs ==
  ASSUME NEW m, NEW s \in SessionT(m), s.live, BufferOk(s), NEW as \in Seq(0..m)
  PROVE  LET d == RecordAborted(s, as)
         IN /\ d \in SessionT(m) /\ BufferOk(d) /\ d.live /\ d.expired = s.expired
            /\ d.subs = s.subs /\ d.stamped = s.stamped /\ d.sink = s.sink /\ d.timer = s.timer
<1> DEFINE b == s.aborted \o as
           e == [s EXCEPT !.aborted = b]
           d == RecordAborted(s, as)
<1>1. b \in Seq(0..m)
  <2>1. s.aborted \in Seq(0..m)
    BY DEF SessionT
  <2> QED BY <2>1, ConcatProperties
<1>2. d = IF s.expired THEN s ELSE e
  BY DEF RecordAborted
<1> HIDE DEF b
<1>3. /\ e \in SessionT(m) /\ e.live /\ e.nextSeq = s.nextSeq /\ e.buf = s.buf
      /\ e.stamped = s.stamped /\ e.expired = s.expired /\ e.subs = s.subs
      /\ e.sink = s.sink /\ e.timer = s.timer
  BY <1>1 DEF SessionT
<1> HIDE DEF e, d
<1>4. BufferOk(d)
  BY <1>2, <1>3, SameBuffer
<1> QED BY <1>2, <1>3, <1>4 DEF d

LEMMA TailIs ==
  ASSUME NEW S, NEW q \in Seq(S), q # <<>>
  PROVE  /\ Tail(q) \in Seq(S) /\ Len(q) \in Nat /\ Len(q) >= 1 /\ Len(Tail(q)) = Len(q) - 1
         /\ Head(q) \in S /\ Head(q) = q[1] /\ 1 \in 1..Len(q)
         /\ \A i \in 1..(Len(q) - 1) : Tail(q)[i] = q[i + 1] /\ i + 1 \in 1..Len(q)
OBVIOUS

\* The pushes that are replayed: those after the last one the client has seen.
LEMMA ReplayIs ==
  ASSUME NEW m, NEW s \in SessionT(m), s.live, BufferOk(s), NEW last \in Nat
  PROVE  /\ Replay(s, last) \in Seq(PushT)
         /\ CanResume(s, last) /\ last <= Len(s.stamped) =>
              /\ Len(Replay(s, last)) = Len(s.stamped) - last
              /\ \A i \in 1..(Len(s.stamped) - last) :
                   Replay(s, last)[i].seq = last + i /\ Replay(s, last)[i].v = s.stamped[last + i]
<1> DEFINE b == Trim(s.buf)
           I == {n \in DOMAIN b : b[n].seq > last}
           n0 == s.nextSeq
<1>1. n0 \in Nat /\ s.buf \in Seq(PushT) /\ Shape(s.buf, n0, s.stamped) /\ n0 = Len(s.stamped)
  BY DEF SessionT, BufferOk
<1>2. Shape(b, n0, s.stamped) /\ b \in Seq(PushT)
  BY <1>1, TrimShape
<1>3. Replay(s, last) = Keep(b, I)
  BY DEF Replay
<1>4. CanResume(s, last) => (last < n0 => b # <<>> /\ last + 1 >= n0 - Len(b) + 1)
  BY DEF CanResume
<1> HIDE DEF b, n0
<1>5. Len(b) \in Nat /\ DOMAIN b = 1..Len(b) /\ Len(b) <= n0
      /\ \A i \in 1..Len(b) : b[i].seq = n0 - Len(b) + i /\ b[i].v = s.stamped[n0 - Len(b) + i]
  BY <1>2 DEF Shape
<1>6. Keep(b, I) \in Seq(PushT)
  <2> HIDE DEF I
  <2> QED BY <1>2, KeepIs
<1>7. ASSUME CanResume(s, last), last <= n0
      PROVE  /\ Len(Keep(b, I)) = n0 - last
             /\ \A i \in 1..(n0 - last) :
                  Keep(b, I)[i].seq = last + i /\ Keep(b, I)[i].v = s.stamped[last + i]
  <2> DEFINE k == Len(b) - (n0 - last)
  <2>1. k \in 0..Len(b)
    <3>1. CASE last = n0
      BY <1>1, <1>5, <3>1
    <3>2. CASE last < n0
      BY <1>1, <1>4, <1>5, <1>7, <3>2
    <3> QED BY <1>1, <1>7, <3>1, <3>2
  <2>2. ASSUME NEW n \in 1..Len(b) PROVE n \in I <=> k < n
    <3>1. n0 - Len(b) + n > last <=> k < n
      <4> DEFINE L == Len(b)
      <4>1. k = L - (n0 - last) /\ L \in Nat /\ n \in Nat /\ n0 \in Nat
        BY <1>1, <1>5
      <4> HIDE DEF L, k
      <4>2. n0 - L + n > last <=> k < n
        BY ONLY <4>1, last \in Nat
      <4> QED BY <4>2 DEF L
    <3>2. n \in I <=> b[n].seq > last
      BY <1>5
    <3>3. b[n].seq = n0 - Len(b) + n
      BY <1>5
    <3> QED BY <3>1, <3>2, <3>3
  <2> HIDE DEF I
  <2>3. k \in Int /\ Len(b) - k = n0 - last
    BY <1>1, <1>5
  <2> HIDE DEF k
  <2>4. /\ Len(Keep(b, I)) = Len(b) - k
        /\ \A i \in 1..(Len(b) - k) : Keep(b, I)[i] = b[k + i]
    BY <1>2, <2>1, <2>2, KeepIs
  <2>5. ASSUME NEW i \in 1..(n0 - last)
        PROVE  Keep(b, I)[i].seq = last + i /\ Keep(b, I)[i].v = s.stamped[last + i]
    <3>1. k + i \in 1..Len(b) /\ n0 - Len(b) + (k + i) = last + i
      <4> DEFINE L == Len(b)
      <4>1. k \in 0..L /\ k = L - (n0 - last) /\ L \in Nat /\ n0 \in Nat /\ i \in 1..(n0 - last)
        BY <1>1, <1>5, <2>1 DEF k
      <4> HIDE DEF L, k
      <4>2. k + i \in 1..L /\ n0 - L + (k + i) = last + i
        BY ONLY <4>1, last \in Nat
      <4> QED BY <4>2 DEF L
    <3>2. Keep(b, I)[i] = b[k + i]
      BY <2>3, <2>4
    <3> QED BY <1>5, <3>1, <3>2
  <2> QED BY <2>3, <2>4, <2>5
<1> QED BY <1>1, <1>3, <1>6, <1>7

-----------------------------------------------------------------------------
(* Types.                                                                  *)

LEMMA Wider ==
  ASSUME NEW m \in Nat, NEW n \in Nat, m <= n
  PROVE  FrameT(m) \subseteq FrameT(n) /\ ConnT(m) \subseteq ConnT(n) /\ SessionT(m) \subseteq SessionT(n)
<1>1. 0..m \subseteq 0..n
  OBVIOUS
<1>2. FrameT(m) \subseteq FrameT(n)
  BY <1>1 DEF FrameT
<1>3. Seq(0..m) \subseteq Seq(0..n) /\ Seq(FrameT(m)) \subseteq Seq(FrameT(n))
  BY <1>1, <1>2, SeqMonotonic
<1>4. ConnT(m) \subseteq ConnT(n)
  BY <1>3 DEF ConnT
<1>5. SessionT(m) \subseteq SessionT(n)
  BY <1>3 DEF SessionT
<1> QED BY <1>2, <1>4, <1>5

\* The parts of the types that a step needs.
LEMMA Parts ==
  ASSUME Typed
  PROVE  /\ cl.seq \in Nat /\ cl.conn \in Conns \cup {NoConn} /\ cl.sid \in SessIds
         /\ cl.last \in Nat /\ cl.got \in Seq(Nat) /\ cl.hres \in FrameT(cl.seq) /\ cl.hseq \in Nat
         /\ \A s \in Sessions :
              /\ sess[s] \in SessionT(cl.seq) /\ s \in SessIds /\ s # NoSession
              /\ sess[s].sink \in Conns \cup {NoConn} /\ sess[s].stamped \in Seq(Nat)
              /\ sess[s].nextSeq \in Nat /\ sess[s].buf \in Seq(PushT)
         /\ \A c \in Conns :
              /\ conn[c] \in ConnT(cl.seq) /\ Len(conn[c].q) <= QCap /\ c # NoConn
              /\ conn[c].q \in Seq(FrameT(cl.seq)) /\ conn[c].net \in Seq(FrameT(cl.seq))
              /\ conn[c].in \in Seq(FrameT(cl.seq)) /\ conn[c].ab \in Seq(0..cl.seq)
              /\ conn[c].sess \in SessIds /\ conn[c].up \in BOOLEAN
              /\ (conn[c].sess # NoSession => conn[c].sess \in Sessions)
<1> USE ResumeAssumption
<1>1. cl \in ClientT(cl.seq) /\ sess \in [Sessions -> SessionT(cl.seq)]
      /\ conn \in [Conns -> ConnT(cl.seq)] /\ \A c \in Conns : Len(conn[c].q) <= QCap
  BY DEF Typed
<1>2. /\ cl.seq \in Nat /\ cl.conn \in Conns \cup {NoConn} /\ cl.sid \in SessIds
      /\ cl.last \in Nat /\ cl.got \in Seq(Nat) /\ cl.hres \in FrameT(cl.seq) /\ cl.hseq \in Nat
  BY <1>1 DEF ClientT
<1>3. ASSUME NEW s \in Sessions
      PROVE  /\ sess[s] \in SessionT(cl.seq) /\ s \in SessIds /\ s # NoSession
             /\ sess[s].sink \in Conns \cup {NoConn} /\ sess[s].stamped \in Seq(Nat)
             /\ sess[s].nextSeq \in Nat /\ sess[s].buf \in Seq(PushT)
  <2>1. s \in SessIds /\ s # NoSession
    BY DEF Sessions, SessIds, NoSession
  <2>2. sess[s] \in SessionT(cl.seq)
    BY <1>1
  <2> QED BY <2>1, <2>2 DEF SessionT
<1>4. ASSUME NEW c \in Conns
      PROVE  /\ conn[c] \in ConnT(cl.seq) /\ Len(conn[c].q) <= QCap /\ c # NoConn
             /\ conn[c].q \in Seq(FrameT(cl.seq)) /\ conn[c].net \in Seq(FrameT(cl.seq))
             /\ conn[c].in \in Seq(FrameT(cl.seq)) /\ conn[c].ab \in Seq(0..cl.seq)
             /\ conn[c].sess \in SessIds /\ conn[c].up \in BOOLEAN
             /\ (conn[c].sess # NoSession => conn[c].sess \in Sessions)
  <2>1. conn[c] \in ConnT(cl.seq) /\ Len(conn[c].q) <= QCap /\ c # NoConn
    BY <1>1 DEF Conns
  <2>2. /\ conn[c].q \in Seq(FrameT(cl.seq)) /\ conn[c].net \in Seq(FrameT(cl.seq))
        /\ conn[c].in \in Seq(FrameT(cl.seq)) /\ conn[c].ab \in Seq(0..cl.seq)
        /\ conn[c].sess \in SessIds /\ conn[c].up \in BOOLEAN
    BY <2>1 DEF ConnT
  <2>3. conn[c].sess # NoSession => conn[c].sess \in Sessions
    BY <2>2 DEF Sessions, SessIds, NoSession
  <2> QED BY <2>1, <2>2, <2>3
<1> QED BY <1>2, <1>3, <1>4

LEMMA FIs ==
  ASSUME NEW m \in Nat, NEW kind \in Kinds, NEW seq \in 0..m, NEW ps \in Nat
  PROVE  /\ F(kind, seq, ps) \in FrameT(m)
         /\ \A s \in SessIds : [F(kind, seq, ps) EXCEPT !.sess = s] \in FrameT(m)
         /\ \A v \in Nat : [F(kind, seq, ps) EXCEPT !.v = v] \in FrameT(m)
<1>1. NoSession \in SessIds
  BY ResumeAssumption DEF NoSession, SessIds
<1> QED BY <1>1 DEF F, FrameT

LEMMA PushFrameIs ==
  ASSUME NEW m \in Nat, NEW n \in Nat, NEW v \in Nat, NEW p, p.seq = n, p.v = v
  PROVE  /\ PushFrame(p) \in FrameT(m) /\ PushFrame(p).kind = "push"
         /\ PushFrame(p).ps = n /\ PushFrame(p).v = v
<1>1. NoSession \in SessIds
  BY ResumeAssumption DEF NoSession, SessIds
<1>2. PushFrame(p) = [kind |-> "push", seq |-> 0, ps |-> n, v |-> v, sess |-> NoSession]
  BY DEF PushFrame, F
<1>3. 0 \in 0..m /\ "push" \in Kinds
  BY DEF Kinds
<1> QED BY <1>1, <1>2, <1>3 DEF FrameT

-----------------------------------------------------------------------------
(* Quiet steps of the server: nothing is read, no session is negotiated.   *)
(* What such a step does to a connection and to a session.                 *)

Added(cn, e) == \A i \in 1..Len(Way(e)) : i > Len(Way(cn)) =>
  Way(e)[i].kind = "push" \/ (Way(e)[i].kind = "aborted" /\ cn.st = "resumed")
Calm(cn, e) ==
  /\ cn.st # "new" /\ e.st # "new" /\ e.sess = cn.sess /\ e.in \in {cn.in, <<>>}
  /\ e.drop => cn.drop \/ cn.st = "resumed"
  /\ e.st = cn.st \/ (cn.st = "resumed" /\ e.st = "read") \/ (e.in = <<>> /\ e.st # "resumed" /\ e.st # "read")
                  \/ (cn.st \notin {"read", "resumed"} /\ e.st \notin {"read", "resumed"})
  /\ e.qclosed \/ e.st \in {"teardown", "drained", "gone"} => ~ e.up
  /\ IF e.up THEN cn.up /\ Pre(Way(cn), Way(e)) /\ Added(cn, e) ELSE Pre(Way(e), Way(cn))

Kept(a, b) ==
  /\ b.live = a.live /\ (b.subs => a.subs) /\ (b.stamped = a.stamped \/ a.subs)
  /\ IF b.expired THEN a.expired \/ (b.sink = NoConn /\ ~ b.subs) ELSE ~ a.expired
  /\ b.sink = a.sink => b.expired \/ (a.timer = "off" <=> b.timer = "off")
  /\ b.sink # a.sink => b.sink = NoConn /\ (b.expired \/ b.timer # "off")

Quiet ==
  /\ cl' = cl
  /\ \A c \in Conns : conn'[c] = conn[c] \/ Calm(conn[c], conn'[c])
  /\ \A s \in Sessions :
       /\ Kept(sess[s], sess'[s])
       /\ sess'[s].sink # sess[s].sink =>
            /\ sess[s].sink \in Conns /\ ~ conn'[sess[s].sink].up
            /\ conn'[sess[s].sink].st = "gone" \/ sess[s].timer = "fired"
       /\ sess'[s].sink # NoConn => conn'[sess'[s].sink].st # "gone"

\* Nor is anything published.
Silent ==
  /\ \A s \in Sessions : sess'[s].stamped = sess[s].stamped
  /\ \A c \in Conns : conn'[c].up =>
       \A i \in 1..Len(Way(conn'[c])) : i > Len(Way(conn[c])) => Way(conn'[c])[i].kind # "push"

LEMMA KeptSame == ASSUME NEW a PROVE Kept(a, a)
BY DEF Kept

LEMMA PreSame ==
  ASSUME NEW S, NEW w \in Seq(S)
  PROVE  Pre(w, w) /\ \A i \in 1..Len(w) : ~ i > Len(w)
BY DEF Pre

\* Closing a connection, and queueing a push, are calm.
LEMMA CalmClose ==
  ASSUME NEW m, NEW cn \in ConnT(m), cn.st # "new"
  PROVE  Calm(cn, WsClose(cn))
<1> DEFINE e == WsClose(cn)
<1>1. Stays(cn, e) /\ ~ e.up /\ e \in ConnT(m)
  BY CloseIs
<1> HIDE DEF e
<1>2. Pre(cn.net, Way(cn))
  BY WayIs
<1>3. Way(e) = cn.net
  BY <1>1 DEF Way, Stays
<1> QED BY <1>1, <1>2, <1>3 DEF Calm, Stays, e

LEMMA CalmPush ==
  ASSUME NEW m, NEW cn \in ConnT(m), cn.st # "new", Len(cn.q) <= QCap,
         cn.qclosed \/ cn.st \in {"teardown", "drained", "gone"} => ~ cn.up,
         NEW f \in FrameT(m), f.kind = "push"
  PROVE  Calm(cn, Enqueue(cn, f))
<1> DEFINE e == Enqueue(cn, f)
<1>1. /\ Stays(cn, e) /\ e \in ConnT(m)
      /\ e.up => Way(e) = Append(Way(cn), f)
  BY EnqueueIs
<1> HIDE DEF e
<1>2. Pre(cn.net, Way(cn)) /\ Way(cn) \in Seq(FrameT(m))
  BY WayIs
<1>3. ~ e.up => Way(e) = cn.net
  BY <1>1 DEF Way, Stays
<1>4. ASSUME e.up PROVE Pre(Way(cn), Way(e)) /\ Added(cn, e)
  <2> DEFINE w == Way(cn)
             x == Way(e)
  <2>1. x = Append(w, f) /\ w \in Seq(FrameT(m))
    BY <1>1, <1>2, <1>4
  <2> HIDE DEF w, x
  <2>2. /\ Len(w) \in Nat /\ Len(x) = Len(w) + 1 /\ x[Len(w) + 1] = f
        /\ \A i \in 1..Len(w) : x[i] = w[i]
    BY <2>1
  <2>3. ASSUME NEW i \in 1..Len(x), i > Len(w) PROVE x[i].kind = "push"
    <3>1. i = Len(w) + 1
      BY <2>2, <2>3
    <3> QED BY <2>2, <3>1
  <2>4. Pre(w, x)
    BY <2>2 DEF Pre
  <2> QED BY <2>3, <2>4 DEF Added, w, x
<1>5. (e.qclosed => ~ e.up) /\ (e.up => cn.up) /\ (e.drop => cn.drop)
  BY <1>1 DEF Stays
<1>6. e.st = cn.st /\ e.sess = cn.sess /\ e.in = cn.in
  BY <1>1 DEF Stays
<1>7. e.qclosed \/ e.st \in {"teardown", "drained", "gone"} => ~ e.up
  BY <1>5, <1>6
<1> HIDE DEF Added, Pre
<1>8. Calm(cn, e)
  BY <1>2, <1>3, <1>4, <1>5, <1>6, <1>7 DEF Calm
<1> QED BY <1>8 DEF e

-----------------------------------------------------------------------------
(* The quiet steps.                                                        *)

LEMMA PublishQuiet ==
  ASSUME IInv, NEW s \in Sessions, Publish(s)
  PROVE  Typed' /\ Buffers' /\ Quiet
<1> USE ResumeAssumption
<1> DEFINE m == cl.seq
           v == pushes + 1
           a == sess[s]
           b == Deliver(a, v)
           p == [seq |-> a.nextSeq + 1, v |-> v]
           f == PushFrame(p)
           c == a.sink
<1>1. /\ a.live /\ a.subs /\ ~ a.expired /\ pushes' = v /\ cl' = cl
      /\ sess' = [sess EXCEPT ![s] = b]
      /\ conn' = IF c = NoConn THEN conn ELSE [conn EXCEPT ![c] = Enqueue(conn[c], f)]
  BY DEF Publish
<1>2. Typed /\ Buffers /\ Owned
  BY DEF IInv
<1>3. /\ m \in Nat /\ v \in Nat /\ a \in SessionT(m) /\ a.nextSeq \in Nat /\ BufferOk(a)
      /\ c \in Conns \cup {NoConn}
  BY <1>2, Parts DEF Typed, Buffers
<1>4. f \in FrameT(m) /\ f.kind = "push"
  <2> DEFINE n == a.nextSeq + 1
  <2>1. m \in Nat /\ n \in Nat /\ v \in Nat /\ p.seq = n /\ p.v = v
    BY <1>3
  <2> HIDE DEF p, v, m, n
  <2>2. PushFrame(p) \in FrameT(m) /\ PushFrame(p).kind = "push"
    BY ONLY <2>1, PushFrameIs
  <2> QED BY <2>2
<1> HIDE DEF f, p
<1>5. /\ b \in SessionT(m) /\ BufferOk(b) /\ b.live /\ b.stamped = Append(a.stamped, v)
      /\ b.sink = a.sink /\ b.timer = a.timer /\ b.expired = a.expired /\ b.subs = a.subs
  <2> HIDE DEF v, m, a
  <2> QED BY <1>1, <1>3, DeliverIs, ZenonT(30)
<1> HIDE DEF b, v
<1>6. sess' \in [Sessions -> SessionT(m)] /\ sess'[s] = b
      /\ \A t \in Sessions : t # s => sess'[t] = sess[t]
  BY <1>1, <1>2, <1>5 DEF Typed
<1>7. \A t \in Sessions : BufferOk(sess'[t])
  BY <1>2, <1>5, <1>6 DEF Buffers
<1>8. \A t \in Sessions : Kept(sess[t], sess'[t]) /\ sess'[t].sink = sess[t].sink
  <2>1. Kept(a, b)
    BY <1>1, <1>5 DEF Kept
  <2> QED BY <1>5, <1>6, <2>1, KeptSame
<1>9. ASSUME c # NoConn
      PROVE  /\ c \in Conns /\ Enqueue(conn[c], f) \in ConnT(m) /\ Len(Enqueue(conn[c], f).q) <= QCap
             /\ Calm(conn[c], Enqueue(conn[c], f)) /\ Enqueue(conn[c], f).st = conn[c].st
  <2> DEFINE cn == conn[c]
  <2>1. c \in Conns
    BY <1>3, <1>9
  <2>2. cn \in ConnT(m) /\ Len(cn.q) <= QCap
    BY <1>2, <2>1, Parts
  <2>3. ConnOk(cn) /\ cn.st # "new"
    BY <1>2, <1>9, <2>1 DEF Owned, SinkOk
  <2>4. cn.qclosed \/ cn.st \in {"teardown", "drained", "gone"} => ~ cn.up
    BY <2>3 DEF ConnOk
  <2> HIDE DEF cn, m, c
  <2>5. Calm(cn, Enqueue(cn, f))
    BY <1>4, <2>2, <2>3, <2>4, CalmPush
  <2>6. Enqueue(cn, f) \in ConnT(m) /\ Len(Enqueue(cn, f).q) <= QCap /\ Stays(cn, Enqueue(cn, f))
    BY <1>4, <2>2, <2>4, EnqueueIs
  <2> QED BY <2>1, <2>5, <2>6 DEF Stays, cn
<1>10. /\ conn' \in [Conns -> ConnT(m)] /\ \A d \in Conns : Len(conn'[d].q) <= QCap
       /\ \A d \in Conns : conn'[d] = conn[d] \/ Calm(conn[d], conn'[d])
       /\ \A d \in Conns : conn'[d].st = conn[d].st
  <2> DEFINE e == Enqueue(conn[c], f)
  <2> HIDE DEF c, e
  <2>1. conn \in [Conns -> ConnT(m)] /\ \A d \in Conns : Len(conn[d].q) <= QCap
    BY <1>2 DEF Typed
  <2>2. CASE c = NoConn
    BY <1>1, <2>1, <2>2 DEF c
  <2>3. CASE c # NoConn
    <3>1. conn' = [conn EXCEPT ![c] = e]
      BY <1>1, <2>3 DEF c, e
    <3>2. c \in Conns /\ e \in ConnT(m) /\ Len(e.q) <= QCap /\ Calm(conn[c], e) /\ e.st = conn[c].st
      BY <1>9, <2>3 DEF c, e
    <3> QED BY <2>1, <3>1, <3>2
  <2> QED BY <2>2, <2>3
<1>11. Typed'
  <2>1. cl \in ClientT(m) /\ cl.hseq <= cl.seq
    BY <1>2 DEF Typed
  <2> QED BY <1>1, <1>3, <1>6, <1>10, <2>1 DEF Typed
<1>12. Quiet
  <2>1. \A t \in Sessions : sess[t].sink # NoConn => conn[sess[t].sink].st # "gone" /\ sess[t].sink \in Conns
    BY <1>2, Parts DEF Owned, SinkOk
  <2> QED BY <1>1, <1>8, <1>10, <2>1 DEF Quiet
<1> QED BY <1>7, <1>11, <1>12 DEF Buffers

\* A quiet step of one connection and one session.
ConnStep(c, e) ==
  /\ c \in Conns /\ conn' = [conn EXCEPT ![c] = e] /\ e \in ConnT(cl.seq) /\ Len(e.q) <= QCap
  /\ Calm(conn[c], e)
  /\ e.up => \A i \in 1..Len(Way(e)) : i > Len(Way(conn[c])) => Way(e)[i].kind # "push"
  /\ e.st = "gone" => \A s \in Sessions : sess'[s].sink # c
SessStep(s, b) ==
  /\ s \in Sessions /\ sess' = [sess EXCEPT ![s] = b] /\ b \in SessionT(cl.seq) /\ BufferOk(b)
  /\ Kept(sess[s], b) /\ b.stamped = sess[s].stamped
  /\ b.sink # sess[s].sink =>
       /\ sess[s].sink \in Conns /\ ~ conn'[sess[s].sink].up
       /\ conn'[sess[s].sink].st = "gone" \/ sess[s].timer = "fired"

LEMMA QuietStep ==
  ASSUME IInv, cl' = cl, pushes' = pushes, NEW c, NEW e, conn' = conn \/ ConnStep(c, e),
         NEW s, NEW b, sess' = sess \/ SessStep(s, b)
  PROVE  Typed' /\ Buffers' /\ Quiet /\ Silent
<1>1. Typed /\ Buffers /\ Owned
  BY DEF IInv
<1>2. /\ conn \in [Conns -> ConnT(cl.seq)] /\ \A d \in Conns : Len(conn[d].q) <= QCap
      /\ sess \in [Sessions -> SessionT(cl.seq)] /\ cl \in ClientT(cl.seq) /\ cl.hseq <= cl.seq
      /\ pushes \in Nat
  BY <1>1 DEF Typed
<1>3. /\ conn' \in [Conns -> ConnT(cl.seq)] /\ \A d \in Conns : Len(conn'[d].q) <= QCap
      /\ \A d \in Conns : conn'[d] = conn[d] \/ Calm(conn[d], conn'[d])
  <2>1. CASE conn' = conn
    BY <1>2, <2>1
  <2>2. CASE ConnStep(c, e)
    <3>1. /\ c \in Conns /\ conn' = [conn EXCEPT ![c] = e] /\ e \in ConnT(cl.seq)
          /\ Len(e.q) <= QCap /\ Calm(conn[c], e)
      BY <2>2 DEF ConnStep
    <3> QED BY <1>2, <3>1
  <2> QED BY <2>1, <2>2
<1>4. ASSUME NEW d \in Conns, conn'[d].up
      PROVE  \A i \in 1..Len(Way(conn'[d])) : i > Len(Way(conn[d])) => Way(conn'[d])[i].kind # "push"
  <2>1. CASE conn'[d] = conn[d]
    <3>1. Way(conn[d]) \in Seq(FrameT(cl.seq))
      BY <1>2, WayIs
    <3> QED BY <2>1, <3>1, PreSame
  <2>2. CASE conn'[d] # conn[d]
    <3>1. ConnStep(c, e)
      BY <2>2
    <3>2. c = d /\ conn'[d] = e
      BY <1>2, <2>2, <3>1 DEF ConnStep
    <3>3. e.up => \A i \in 1..Len(Way(e)) : i > Len(Way(conn[c])) => Way(e)[i].kind # "push"
      BY <3>1 DEF ConnStep
    <3> QED BY <1>4, <3>2, <3>3
  <2> QED BY <2>1, <2>2
<1>5. /\ sess' \in [Sessions -> SessionT(cl.seq)]
      /\ \A t \in Sessions : BufferOk(sess'[t]) /\ Kept(sess[t], sess'[t])
                             /\ sess'[t].stamped = sess[t].stamped
      /\ \A t \in Sessions : sess'[t].sink # sess[t].sink =>
            /\ sess[t].sink \in Conns /\ ~ conn'[sess[t].sink].up
            /\ conn'[sess[t].sink].st = "gone" \/ sess[t].timer = "fired"
  <2>1. CASE sess' = sess
    BY <1>1, <1>2, <2>1, KeptSame DEF Buffers
  <2>2. CASE SessStep(s, b)
    <3>1. /\ s \in Sessions /\ sess' = [sess EXCEPT ![s] = b] /\ b \in SessionT(cl.seq)
          /\ BufferOk(b) /\ Kept(sess[s], b) /\ b.stamped = sess[s].stamped
          /\ b.sink # sess[s].sink =>
               /\ sess[s].sink \in Conns /\ ~ conn'[sess[s].sink].up
               /\ conn'[sess[s].sink].st = "gone" \/ sess[s].timer = "fired"
      BY <2>2 DEF SessStep
    <3>2. sess'[s] = b /\ \A t \in Sessions : t # s => sess'[t] = sess[t]
      BY <1>2, <3>1
    <3>3. sess' \in [Sessions -> SessionT(cl.seq)]
      BY <1>2, <3>1
    <3>4. ASSUME NEW t \in Sessions
          PROVE  /\ BufferOk(sess'[t]) /\ Kept(sess[t], sess'[t])
                 /\ sess'[t].stamped = sess[t].stamped
                 /\ sess'[t].sink # sess[t].sink =>
                      /\ sess[t].sink \in Conns /\ ~ conn'[sess[t].sink].up
                      /\ conn'[sess[t].sink].st = "gone" \/ sess[t].timer = "fired"
      <4>1. CASE t = s
        BY <3>1, <3>2, <4>1
      <4>2. CASE t # s
        BY <1>1, <3>2, <4>2, KeptSame DEF Buffers
      <4> QED BY <4>1, <4>2
    <3> QED BY <3>3, <3>4
  <2> QED BY <2>1, <2>2
<1>6. ASSUME NEW t \in Sessions, sess'[t].sink # NoConn PROVE conn'[sess'[t].sink].st # "gone"
  <2>1. sess'[t].sink = sess[t].sink
    BY <1>5, <1>6 DEF Kept
  <2>2. sess[t].sink \in Conns /\ conn[sess[t].sink].st # "gone"
    BY <1>1, <1>6, <2>1, Parts DEF Owned, SinkOk
  <2>3. CASE conn' = conn
    BY <2>1, <2>2, <2>3
  <2>4. CASE ConnStep(c, e)
    <3>1. c \in Conns /\ conn' = [conn EXCEPT ![c] = e] /\ (e.st = "gone" => sess'[t].sink # c)
      BY <2>4 DEF ConnStep
    <3> QED BY <1>2, <2>1, <2>2, <3>1
  <2> QED BY <2>3, <2>4
<1>7. Typed'
  BY <1>2, <1>3, <1>5 DEF Typed
<1>8. Quiet
  BY <1>3, <1>5, <1>6 DEF Quiet
<1>9. Silent
  BY <1>4, <1>5 DEF Silent
<1> QED BY <1>5, <1>7, <1>8, <1>9 DEF Buffers

\* A step that sends what was queued, or loses it.
LEMMA CalmIs ==
  ASSUME NEW m, NEW cn \in ConnT(m), NEW e \in ConnT(m), cn.st # "new", e.st # "new",
         e.sess = cn.sess, e.in \in {cn.in, <<>>}, e.drop = cn.drop,
         e.st = cn.st \/ (e.in = <<>> /\ e.st # "resumed" /\ e.st # "read")
                      \/ (cn.st \notin {"read", "resumed"} /\ e.st \notin {"read", "resumed"}),
         e.qclosed \/ e.st \in {"teardown", "drained", "gone"} => ~ e.up,
         e.up => cn.up /\ Way(e) = Way(cn), ~ e.up => Pre(e.net, cn.net)
  PROVE  /\ Calm(cn, e)
         /\ e.up => \A i \in 1..Len(Way(e)) : i > Len(Way(cn)) => Way(e)[i].kind # "push"
<1>1. Way(cn) \in Seq(FrameT(m)) /\ Pre(cn.net, Way(cn)) /\ (~ e.up => Way(e) = e.net)
  BY WayIs
<1>2. ASSUME ~ e.up PROVE Pre(Way(e), Way(cn))
  <2>1. Len(cn.net) \in Nat /\ Len(e.net) \in Nat /\ Len(Way(cn)) \in Nat
    BY <1>1 DEF ConnT
  <2>2. Pre(e.net, cn.net) /\ Pre(cn.net, Way(cn)) /\ Way(e) = e.net
    BY <1>1, <1>2
  <2>3. Pre(e.net, Way(cn))
    <3> DEFINE x == e.net
               y == cn.net
               z == Way(cn)
    <3>1. Len(x) \in Nat /\ Len(y) \in Nat /\ Len(z) \in Nat /\ Pre(x, y) /\ Pre(y, z)
      BY <2>1, <2>2
    <3> HIDE DEF x, y, z
    <3>2. Pre(x, z)
      BY ONLY <3>1 DEF Pre
    <3> QED BY <3>2 DEF x, z
  <2> QED BY <2>2, <2>3
<1>3. Pre(Way(cn), Way(cn)) /\ \A i \in 1..Len(Way(cn)) : ~ i > Len(Way(cn))
  BY <1>1, PreSame
<1>4. e.up => Pre(Way(cn), Way(e)) /\ Added(cn, e)
              /\ \A i \in 1..Len(Way(e)) : i > Len(Way(cn)) => Way(e)[i].kind # "push"
  BY <1>3 DEF Added
<1> HIDE DEF Added, Pre
<1> QED BY <1>2, <1>4 DEF Calm

LEMMA WriteQuiet ==
  ASSUME IInv, NEW c \in Conns, Write(c)
  PROVE  Typed' /\ Buffers' /\ Quiet /\ Silent
<1> DEFINE cn == conn[c]
           m == cl.seq
           f == Head(cn.q)
<1>1. Typed /\ Buffers /\ Owned
  BY DEF IInv
<1>2. /\ cn \in ConnT(m) /\ Len(cn.q) <= QCap /\ cn.q \in Seq(FrameT(m)) /\ cn.net \in Seq(FrameT(m))
      /\ m \in Nat
  BY <1>1, Parts
<1>3. /\ cn.st # "new" /\ cl' = cl /\ pushes' = pushes
      /\ \/ /\ cn.q = <<>> /\ cn.qclosed
            /\ conn' = [conn EXCEPT ![c].w = "stopped"]
            /\ sess' = sess
         \/ /\ cn.q # <<>> /\ cn.up
            /\ conn' = [conn EXCEPT ![c].q = Tail(@), ![c].net = Append(@, f)]
            /\ sess' = sess
         \/ /\ cn.q # <<>> /\ ~ cn.up
            /\ conn' = [conn EXCEPT ![c] = [WsClose(cn) EXCEPT !.q = Tail(cn.q), !.w = "stopped"]]
            /\ sess' = IF f.kind # "push" /\ cn.drop
                        THEN [sess EXCEPT ![cn.sess] = RecordAborted(@, <<f.seq>>)] ELSE sess
  BY DEF Write
<1>4. ConnOk(cn) /\ (cn.sess # NoSession => cn.sess \in Sessions /\ sess[cn.sess].live)
  BY <1>1, Parts DEF Owned
<1>5. cn.qclosed \/ cn.st \in {"teardown", "drained", "gone"} => ~ cn.up
  BY <1>4 DEF ConnOk
<1>6. Pre(cn.net, cn.net)
  BY <1>2, PreSame
<1>7. \A s \in Sessions : sess[s].sink = c => cn.st # "gone"
  BY <1>1, ResumeAssumption DEF Owned, SinkOk, Conns
<1>8. cn.q # <<>> => /\ Tail(cn.q) \in Seq(FrameT(m)) /\ Len(Tail(cn.q)) <= QCap
                     /\ f \in FrameT(m) /\ f.seq \in 0..m
  <2> SUFFICES ASSUME cn.q # <<>>
               PROVE  /\ Tail(cn.q) \in Seq(FrameT(m)) /\ Len(Tail(cn.q)) <= QCap
                      /\ f \in FrameT(m) /\ f.seq \in 0..m
    OBVIOUS
  <2>1. Tail(cn.q) \in Seq(FrameT(m)) /\ Len(Tail(cn.q)) = Len(cn.q) - 1 /\ Len(cn.q) \in Nat
        /\ f \in FrameT(m)
    BY <1>2, TailIs
  <2>2. f.seq \in 0..m
    BY <2>1 DEF FrameT
  <2> QED BY <1>2, <2>1, <2>2, ResumeAssumption
<1> HIDE DEF f
<1>9. CASE cn.q = <<>> /\ cn.qclosed /\ conn' = [conn EXCEPT ![c].w = "stopped"] /\ sess' = sess
  <2> DEFINE e == [cn EXCEPT !.w = "stopped"]
  <2>1. conn' = [conn EXCEPT ![c] = e]
    BY <1>9
  <2> HIDE DEF cn
  <2>2. e \in ConnT(m) /\ e.q = cn.q
    BY <1>2 DEF ConnT
  <2>3. /\ e.st = cn.st /\ e.sess = cn.sess /\ e.in = cn.in /\ e.drop = cn.drop /\ e.up = cn.up
        /\ e.qclosed = cn.qclosed /\ e.net = cn.net /\ Way(e) = Way(cn)
    BY <1>2 DEF ConnT, Way
  <2> HIDE DEF e
  <2>4. /\ Calm(cn, e)
        /\ e.up => \A i \in 1..Len(Way(e)) : i > Len(Way(cn)) => Way(e)[i].kind # "push"
    BY <1>2, <1>3, <1>5, <1>6, <2>2, <2>3, CalmIs
  <2>5. ConnStep(c, e)
    BY <1>2, <1>7, <1>9, <2>1, <2>2, <2>3, <2>4 DEF ConnStep, cn
  <2> QED BY <1>3, <1>9, <2>5, QuietStep
<1>10. CASE /\ cn.q # <<>> /\ cn.up /\ sess' = sess
            /\ conn' = [conn EXCEPT ![c].q = Tail(@), ![c].net = Append(@, f)]
  <2> DEFINE t == Tail(cn.q)
             n == Append(cn.net, f)
             e == [cn EXCEPT !.q = t, !.net = n]
  <2>1. conn' = [conn EXCEPT ![c] = e]
    BY <1>1, <1>10 DEF Typed
  <2>2. n \in Seq(FrameT(m)) /\ t \in Seq(FrameT(m)) /\ Len(t) <= QCap
    BY <1>2, <1>8, <1>10
  <2>3. n \o t = cn.net \o cn.q
    <3> DEFINE x == cn.net
               y == cn.q
               S == FrameT(m)
    <3>1. x \in Seq(S) /\ y \in Seq(S) /\ y # <<>>
      BY <1>2, <1>10
    <3> HIDE DEF x, y, S
    <3>2. Append(x, Head(y)) \o Tail(y) = x \o y
      BY ONLY <3>1, ConcatSteps
    <3> QED BY <3>2 DEF x, y, f
  <2> HIDE DEF cn, t, n
  <2>4. e \in ConnT(m) /\ e.q = t
    BY <1>2, <2>2 DEF ConnT
  <2>5. /\ e.st = cn.st /\ e.sess = cn.sess /\ e.in = cn.in /\ e.drop = cn.drop /\ e.up = cn.up
        /\ e.qclosed = cn.qclosed /\ e.net = n
    BY <1>2 DEF ConnT
  <2>6. Way(e) = Way(cn)
    BY <1>10, <2>3, <2>4, <2>5 DEF Way
  <2> HIDE DEF e
  <2>7. /\ Calm(cn, e)
        /\ e.up => \A i \in 1..Len(Way(e)) : i > Len(Way(cn)) => Way(e)[i].kind # "push"
    BY <1>2, <1>3, <1>5, <1>10, <2>4, <2>5, <2>6, CalmIs
  <2>8. ConnStep(c, e)
    BY <1>7, <1>10, <2>1, <2>2, <2>4, <2>5, <2>7 DEF ConnStep, cn
  <2> QED BY <1>3, <1>10, <2>8, QuietStep
<1>11. CASE /\ cn.q # <<>> /\ ~ cn.up
            /\ conn' = [conn EXCEPT ![c] = [WsClose(cn) EXCEPT !.q = Tail(cn.q), !.w = "stopped"]]
            /\ sess' = IF f.kind # "push" /\ cn.drop
                        THEN [sess EXCEPT ![cn.sess] = RecordAborted(@, <<f.seq>>)] ELSE sess
  <2> DEFINE t == Tail(cn.q)
             e == [cn EXCEPT !.qclosed = TRUE, !.up = FALSE, !.q = t, !.w = "stopped"]
  <2>1. conn' = [conn EXCEPT ![c] = e]
    <3> DEFINE g == [WsClose(cn) EXCEPT !.q = Tail(cn.q), !.w = "stopped"]
    <3>1. conn' = [conn EXCEPT ![c] = g]
      BY <1>11
    <3>2. g = e
      BY <1>2 DEF WsClose, ConnT
    <3> HIDE DEF g, e
    <3> QED BY <3>1, <3>2
  <2>2. t \in Seq(FrameT(m)) /\ Len(t) <= QCap
    BY <1>8, <1>11
  <2>9. sess' = sess \/ \E b : SessStep(cn.sess, b) /\ b.sink = sess[cn.sess].sink
    <3> DEFINE a == sess[cn.sess]
               as == <<f.seq>>
               b == RecordAborted(a, as)
    <3> SUFFICES ASSUME f.kind # "push", cn.drop
                 PROVE  SessStep(cn.sess, b) /\ b.sink = sess[cn.sess].sink
      BY <1>11
    <3>1. cn.sess \in Sessions /\ a.live /\ sess' = [sess EXCEPT ![cn.sess] = b]
      BY <1>4, <1>11 DEF ConnOk
    <3>2. a \in SessionT(m) /\ BufferOk(a) /\ as \in Seq(0..m)
      BY <1>1, <1>8, <1>11, <3>1, Parts, SMTT(20) DEF Buffers
    <3> HIDE DEF a, as, m
    <3>3. LET d == RecordAborted(a, as)
            IN /\ d \in SessionT(m) /\ BufferOk(d) /\ d.live /\ d.expired = a.expired
               /\ d.subs = a.subs /\ d.stamped = a.stamped /\ d.sink = a.sink /\ d.timer = a.timer
      BY <3>1, <3>2, AbortedIs
    <3> HIDE DEF b
    <3>4. /\ b \in SessionT(m) /\ BufferOk(b) /\ b.live /\ b.expired = a.expired
          /\ b.subs = a.subs /\ b.stamped = a.stamped /\ b.sink = a.sink /\ b.timer = a.timer
      BY <3>3 DEF b
    <3> QED BY <3>1, <3>4 DEF SessStep, Kept, a, m
  <2> HIDE DEF cn, t
  <2>3. e \in ConnT(m) /\ e.q = t
    BY <1>2, <2>2 DEF ConnT
  <2>4. /\ e.st = cn.st /\ e.sess = cn.sess /\ e.in = cn.in /\ e.drop = cn.drop /\ ~ e.up
        /\ e.net = cn.net
    BY <1>2 DEF ConnT
  <2> HIDE DEF e
  <2>5. Calm(cn, e)
    BY <1>2, <1>3, <1>6, <2>3, <2>4, CalmIs
  <2>6. ConnStep(c, e) \/ e.st = "gone"
    BY <2>1, <2>2, <2>3, <2>4, <2>5 DEF ConnStep, cn
  <2>7. ASSUME NEW s \in Sessions PROVE e.st = "gone" => sess'[s].sink # c
    <3>1. sess'[s].sink = sess[s].sink
      <4>1. CASE sess' = sess
        BY <4>1
      <4>2. CASE \E b : SessStep(cn.sess, b) /\ b.sink = sess[cn.sess].sink
        <5>1. PICK b : SessStep(cn.sess, b) /\ b.sink = sess[cn.sess].sink
          BY <4>2
        <5>2. sess' = [sess EXCEPT ![cn.sess] = b] /\ sess \in [Sessions -> SessionT(m)]
          BY <1>1, <5>1 DEF SessStep, Typed
        <5> QED BY <5>1, <5>2
      <4> QED BY <2>9, <4>1, <4>2
    <3> QED BY <1>7, <2>4, <3>1 DEF cn
  <2>8. ConnStep(c, e)
    BY <2>1, <2>2, <2>3, <2>4, <2>5, <2>7 DEF ConnStep, cn
  <2> QED BY <1>3, <2>8, <2>9, QuietStep
<1> QED BY <1>3, <1>9, <1>10, <1>11

\* Frames behind those that are on the way.
LEMMA Behind ==
  ASSUME NEW S, NEW w \in Seq(S), NEW fs \in Seq(S)
  PROVE  /\ w \o fs \in Seq(S) /\ Pre(w, w \o fs) /\ Len(w \o fs) = Len(w) + Len(fs)
         /\ \A i \in 1..Len(fs) : (w \o fs)[Len(w) + i] = fs[i]
         /\ \A i \in 1..Len(w \o fs) : i > Len(w) => i - Len(w) \in 1..Len(fs)
                                       /\ (w \o fs)[i] = fs[i - Len(w)]
<1> DEFINE x == w \o fs
<1>1. /\ x \in Seq(S) /\ Len(x) = Len(w) + Len(fs) /\ Len(w) \in Nat /\ Len(fs) \in Nat
      /\ \A i \in 1..Len(w) + Len(fs) : x[i] = IF i <= Len(w) THEN w[i] ELSE fs[i - Len(w)]
  BY ConcatProperties
<1> HIDE DEF x
<1>2. Pre(w, x)
  BY <1>1 DEF Pre
<1>3. ASSUME NEW i \in 1..Len(fs) PROVE x[Len(w) + i] = fs[i]
  <2>1. Len(w) + i \in 1..Len(w) + Len(fs) /\ ~ Len(w) + i <= Len(w) /\ Len(w) + i - Len(w) = i
    BY <1>1
  <2> QED BY <1>1, <2>1
<1>4. ASSUME NEW i \in 1..Len(x), i > Len(w) PROVE i - Len(w) \in 1..Len(fs) /\ x[i] = fs[i - Len(w)]
  <2>1. i \in 1..Len(w) + Len(fs) /\ ~ i <= Len(w) /\ i - Len(w) \in 1..Len(fs)
    BY <1>1, <1>4
  <2> QED BY <1>1, <2>1
<1> QED BY <1>1, <1>2, <1>3, <1>4 DEF x

LEMMA ResumedQuiet ==
  ASSUME IInv, NEW c \in Conns, Resumed(c)
  PROVE  Typed' /\ Buffers' /\ Quiet /\ Silent
<1> DEFINE cn == conn[c]
           m == cl.seq
           fs == [i \in DOMAIN cn.ab |-> F("aborted", cn.ab[i], 0)]
           x == EnqueueAll(cn, fs)
           none == <<>>
           e == [x EXCEPT !.st = "read", !.drop = TRUE, !.ab = none]
<1>1. Typed /\ Owned
  BY DEF IInv
<1>2. /\ cn \in ConnT(m) /\ Len(cn.q) <= QCap /\ cn.ab \in Seq(0..m) /\ m \in Nat
  BY <1>1, Parts
<1>3. /\ cn.st = "resumed" /\ conn' = [conn EXCEPT ![c] = e]
      /\ sess' = sess /\ cl' = cl /\ pushes' = pushes
  BY DEF Resumed
<1>4. cn.qclosed => ~ cn.up
  BY <1>1 DEF Owned, ConnOk
<1>5. fs \in Seq(FrameT(m)) /\ \A i \in 1..Len(fs) : fs[i].kind = "aborted"
  <2>1. Len(cn.ab) \in Nat /\ DOMAIN cn.ab = 1..Len(cn.ab) /\ \A i \in 1..Len(cn.ab) : cn.ab[i] \in 0..m
    BY <1>2
  <2>2. \A i \in 1..Len(cn.ab) : F("aborted", cn.ab[i], 0) \in FrameT(m)
    BY <1>2, <2>1, FIs DEF Kinds
  <2>3. \A i \in 1..Len(cn.ab) : F("aborted", cn.ab[i], 0).kind = "aborted"
    BY DEF F
  <2>4. fs \in Seq(FrameT(m)) /\ Len(fs) = Len(cn.ab)
    <3> DEFINE g(i) == F("aborted", cn.ab[i], 0)
    <3>1. \A i \in 1..Len(cn.ab) : g(i) \in FrameT(m)
      BY <2>2
    <3>2. fs = [i \in 1..Len(cn.ab) |-> g(i)]
      BY <2>1
    <3> HIDE DEF g, fs
    <3> QED BY <2>1, <3>1, <3>2, IsASeq
  <2> QED BY <2>1, <2>3, <2>4
<1> HIDE DEF fs
<1>6. /\ x \in ConnT(m) /\ Len(x.q) <= QCap /\ Stays(cn, x)
      /\ x.up => Way(x) = Way(cn) \o fs
  BY <1>2, <1>4, <1>5, EnqueueAllIs
<1> HIDE DEF x, cn
<1>7. e \in ConnT(m)
  <2>1. none \in Seq(0..m)
    OBVIOUS
  <2> HIDE DEF none
  <2> QED BY <1>6, <2>1 DEF ConnT
<1>8. /\ e.st = "read" /\ e.up = x.up /\ e.q = x.q /\ e.qclosed = x.qclosed /\ e.sess = x.sess
      /\ e.in = x.in /\ e.net = x.net
  BY <1>6 DEF ConnT
<1> HIDE DEF e
<1>9. Way(cn) \in Seq(FrameT(m)) /\ Pre(cn.net, Way(cn)) /\ (~ e.up => Way(e) = cn.net)
  <2>1. Way(cn) \in Seq(FrameT(m)) /\ Pre(cn.net, Way(cn))
    BY <1>2, WayIs
  <2> QED BY <1>6, <1>8, <2>1 DEF Way, Stays
<1>10. ASSUME e.up
       PROVE  /\ Pre(Way(cn), Way(e)) /\ Added(cn, e)
              /\ \A i \in 1..Len(Way(e)) : i > Len(Way(cn)) => Way(e)[i].kind # "push"
  <2>1. Way(e) = Way(cn) \o fs
    BY <1>6, <1>8, <1>10 DEF Way
  <2>2. /\ Pre(Way(cn), Way(cn) \o fs)
        /\ \A i \in 1..Len(Way(cn) \o fs) : i > Len(Way(cn)) =>
             i - Len(Way(cn)) \in 1..Len(fs) /\ (Way(cn) \o fs)[i] = fs[i - Len(Way(cn))]
    <3> DEFINE w == Way(cn)
    <3>1. w \in Seq(FrameT(m)) /\ fs \in Seq(FrameT(m))
      BY <1>5, <1>9
    <3> HIDE DEF w
    <3>2. /\ Pre(w, w \o fs)
          /\ \A i \in 1..Len(w \o fs) : i > Len(w) => i - Len(w) \in 1..Len(fs)
                                                      /\ (w \o fs)[i] = fs[i - Len(w)]
      BY <3>1, Behind
    <3> QED BY <3>2 DEF w
  <2>3. \A i \in 1..Len(Way(e)) : i > Len(Way(cn)) => Way(e)[i].kind = "aborted"
    BY <1>5, <2>1, <2>2
  <2> QED BY <1>3, <2>1, <2>2, <2>3 DEF Added, cn
<1>11. Calm(cn, e)
  <2>1. e.sess = cn.sess /\ e.in = cn.in /\ (e.up => cn.up) /\ (e.qclosed => ~ e.up)
    BY <1>6, <1>8 DEF Stays
  <2>2. cn.st = "resumed" /\ e.st = "read"
    BY <1>3, <1>8 DEF cn
  <2> HIDE DEF Added, Pre
  <2> QED BY <1>9, <1>10, <2>1, <2>2 DEF Calm
<1>12. ConnStep(c, e)
  BY <1>3, <1>6, <1>7, <1>8, <1>10, <1>11 DEF ConnStep, cn
<1> QED BY <1>3, <1>12, QuietStep

LEMMA ReadErrorQuiet ==
  ASSUME IInv, NEW c \in Conns, ReadError(c)
  PROVE  Typed' /\ Buffers' /\ Quiet /\ Silent
<1> DEFINE cn == conn[c]
           m == cl.seq
           none == <<>>
           e == [cn EXCEPT !.qclosed = TRUE, !.up = FALSE, !.st = "teardown", !.in = none]
<1>1. Typed /\ Owned
  BY DEF IInv
<1>2. cn \in ConnT(m) /\ Len(cn.q) <= QCap /\ cn.net \in Seq(FrameT(m))
  BY <1>1, Parts
<1>3. /\ cn.st = "read" /\ ~ cn.up /\ conn' = [conn EXCEPT ![c] = e]
      /\ sess' = sess /\ cl' = cl /\ pushes' = pushes
  <2>1. [WsClose(cn) EXCEPT !.st = "teardown", !.in = <<>>] = e
    BY <1>2 DEF WsClose, ConnT
  <2> QED BY <2>1 DEF ReadError
<1> HIDE DEF cn
<1>4. e \in ConnT(m)
  <2>1. none \in Seq(FrameT(m))
    OBVIOUS
  <2> HIDE DEF none
  <2> QED BY <1>2, <2>1 DEF ConnT
<1>5. /\ e.st = "teardown" /\ ~ e.up /\ e.q = cn.q /\ e.sess = cn.sess /\ e.in = <<>>
      /\ e.net = cn.net /\ e.drop = cn.drop
  BY <1>2 DEF ConnT
<1> HIDE DEF e
<1>6. Pre(cn.net, cn.net)
  BY <1>2, PreSame
<1>7. Calm(cn, e)
  BY <1>2, <1>3, <1>4, <1>5, <1>6, CalmIs DEF cn
<1>8. ConnStep(c, e)
  BY <1>2, <1>3, <1>4, <1>5, <1>7 DEF ConnStep, cn
<1> QED BY <1>3, <1>8, QuietStep

LEMMA DrainQuiet ==
  ASSUME IInv, NEW c \in Conns, Drain(c)
  PROVE  Typed' /\ Buffers' /\ Quiet /\ Silent
<1> DEFINE cn == conn[c]
           m == cl.seq
           none == <<>>
           e == [cn EXCEPT !.st = "drained", !.q = none]
           lost == Keep(cn.q, {n \in DOMAIN cn.q : cn.q[n].kind # "push"})
           as == [i \in DOMAIN lost |-> lost[i].seq]
           id == cn.sess
           a == sess[id]
           b == RecordAborted(a, as)
<1>1. Typed /\ Buffers /\ Owned
  BY DEF IInv
<1>2. /\ cn \in ConnT(m) /\ cn.q \in Seq(FrameT(m)) /\ cn.net \in Seq(FrameT(m))
      /\ (id # NoSession => id \in Sessions /\ a.live) /\ ConnOk(cn) /\ m \in Nat
  BY <1>1, Parts DEF Owned
<1>3. /\ cn.st = "teardown" /\ conn' = [conn EXCEPT ![c] = e] /\ cl' = cl /\ pushes' = pushes
      /\ sess' = IF id = NoSession THEN sess ELSE [sess EXCEPT ![id] = b]
  <2>1. conn' = [conn EXCEPT ![c].st = "drained", ![c].q = <<>>]
    BY DEF Drain
  <2>2. conn' = [conn EXCEPT ![c] = e]
    BY <1>1, <2>1 DEF Typed
  <2> QED BY <2>2 DEF Drain
<1>4. as \in Seq(0..m)
  <2>1. lost \in Seq(FrameT(m))
    <3> DEFINE I == {n \in DOMAIN cn.q : cn.q[n].kind # "push"}
               y == cn.q
    <3>1. y \in Seq(FrameT(m)) /\ lost = Keep(y, I)
      BY <1>2
    <3> HIDE DEF y, I, lost
    <3> QED BY <3>1, KeepIs
  <2> HIDE DEF lost
  <2>2. \A i \in 1..Len(lost) : lost[i] \in FrameT(m)
    BY <2>1
  <2>3. Len(lost) \in Nat /\ DOMAIN lost = 1..Len(lost) /\ \A i \in 1..Len(lost) : lost[i].seq \in 0..m
    BY <2>1, <2>2 DEF FrameT
  <2> QED BY <2>3, IsASeq
<1>5. ~ cn.up
  BY <1>2, <1>3 DEF ConnOk
<1> HIDE DEF as, cn
<1>6. sess' # sess =>
        SessStep(id, b) /\ b.sink = a.sink
  <2> SUFFICES ASSUME id # NoSession PROVE SessStep(id, b) /\ b.sink = a.sink
    BY <1>3
  <2>1. id \in Sessions /\ a.live /\ a \in SessionT(m) /\ BufferOk(a)
    BY <1>1, <1>2, Parts DEF Buffers
  <2> HIDE DEF a, m
  <2>2. LET d == RecordAborted(a, as)
         IN /\ d \in SessionT(m) /\ BufferOk(d) /\ d.live /\ d.expired = a.expired
            /\ d.subs = a.subs /\ d.stamped = a.stamped /\ d.sink = a.sink /\ d.timer = a.timer
    BY <1>4, <2>1, AbortedIs
  <2> HIDE DEF b
  <2>3. /\ b \in SessionT(m) /\ BufferOk(b) /\ b.live /\ b.expired = a.expired
        /\ b.subs = a.subs /\ b.stamped = a.stamped /\ b.sink = a.sink /\ b.timer = a.timer
    BY <2>2 DEF b
  <2> QED BY <1>3, <2>1, <2>3 DEF SessStep, Kept, a, m
<1>7. e \in ConnT(m) /\ e.q = none /\ Len(e.q) <= QCap
  <2>1. none \in Seq(FrameT(m)) /\ Len(none) <= QCap
    BY ResumeAssumption
  <2> HIDE DEF none
  <2>2. e \in ConnT(m) /\ e.q = none
    BY <1>2, <2>1 DEF ConnT
  <2> QED BY <2>1, <2>2
<1>8. /\ e.st = "drained" /\ ~ e.up /\ e.sess = cn.sess /\ e.in = cn.in
      /\ e.net = cn.net /\ e.drop = cn.drop
  BY <1>2, <1>5 DEF ConnT
<1> HIDE DEF e
<1>9. Pre(cn.net, cn.net)
  BY <1>2, PreSame
<1>10. Calm(cn, e)
  <2>1. cn.st \notin {"read", "resumed"} /\ e.st \notin {"read", "resumed"} /\ cn.st # "new" /\ e.st # "new"
    BY <1>3, <1>8 DEF cn
  <2> QED BY <1>2, <1>7, <1>8, <1>9, <2>1, CalmIs
<1>11. ConnStep(c, e)
  BY <1>3, <1>7, <1>8, <1>10 DEF ConnStep, cn
<1> QED BY <1>3, <1>6, <1>11, QuietStep

LEMMA GoneQuiet ==
  ASSUME IInv, NEW c \in Conns, Gone(c)
  PROVE  Typed' /\ Buffers' /\ Quiet /\ Silent
<1> DEFINE cn == conn[c]
           m == cl.seq
           e == [cn EXCEPT !.st = "gone"]
           id == cn.sess
           a == sess[id]
           b == Detach(a, c)
<1>1. Typed /\ Buffers /\ Owned
  BY DEF IInv
<1>2. /\ cn \in ConnT(m) /\ Len(cn.q) <= QCap /\ cn.net \in Seq(FrameT(m)) /\ c # NoConn
      /\ (id # NoSession => id \in Sessions /\ a.live) /\ ConnOk(cn)
  BY <1>1, Parts DEF Owned
<1>3. /\ cn.st = "drained" /\ conn' = [conn EXCEPT ![c] = e] /\ cl' = cl /\ pushes' = pushes
      /\ sess' = IF id = NoSession THEN sess ELSE [sess EXCEPT ![id] = b]
  BY DEF Gone
<1>4. ~ cn.up /\ conn'[c] = e
  BY <1>1, <1>2, <1>3 DEF ConnOk, Typed
<1>5. \A s \in Sessions : sess[s].sink = c => s = id /\ ~ sess[s].expired
  BY <1>1, <1>2 DEF Owned, SinkOk
<1> HIDE DEF cn
<1>6. /\ e \in ConnT(m) /\ e.st = "gone" /\ ~ e.up /\ e.sess = cn.sess /\ e.in = cn.in
      /\ e.net = cn.net /\ e.drop = cn.drop /\ e.q = cn.q
  BY <1>2, <1>4 DEF ConnT
<1> HIDE DEF e
<1>7. id # NoSession => SessStep(id, b) /\ b.sink # c
  <2> SUFFICES ASSUME id # NoSession PROVE SessStep(id, b) /\ b.sink # c
    BY <1>3
  <2>1. id \in Sessions /\ a.live /\ a \in SessionT(m) /\ BufferOk(a) /\ (a.sink = c => ~ a.expired)
    BY <1>1, <1>2, <1>5, Parts DEF Buffers
  <2> HIDE DEF a, m
  <2>2. LET d == Detach(a, c)
         IN /\ d \in SessionT(m) /\ BufferOk(d) /\ d.live /\ d.expired = a.expired
            /\ d.subs = a.subs /\ d.stamped = a.stamped
            /\ IF a.expired \/ a.sink # c THEN d = a ELSE d.sink = NoConn /\ d.timer = "armed"
    BY <2>1, DetachIs
  <2> HIDE DEF b
  <2>3. /\ b \in SessionT(m) /\ BufferOk(b) /\ b.live /\ b.expired = a.expired
        /\ b.subs = a.subs /\ b.stamped = a.stamped
        /\ IF a.expired \/ a.sink # c THEN b = a ELSE b.sink = NoConn /\ b.timer = "armed"
    BY <2>2 DEF b
  <2>4. b.sink # c
    BY <1>2, <2>1, <2>3
  <2>5. Kept(a, b)
    BY <1>2, <2>1, <2>3 DEF Kept
  <2>6. b.sink # a.sink => a.sink = c /\ ~ conn'[a.sink].up /\ conn'[a.sink].st = "gone"
    BY <1>4, <1>6, <2>3
  <2>7. sess' = [sess EXCEPT ![id] = b]
    BY <1>3
  <2> HIDE DEF id
  <2> QED BY <2>1, <2>3, <2>4, <2>5, <2>6, <2>7 DEF SessStep, a, m
<1>8. \A s \in Sessions : sess'[s].sink # c
  <2>1. CASE id = NoSession
    <3>1. \A s \in Sessions : s # NoSession
      BY <1>1, Parts
    <3> QED BY <1>3, <1>5, <2>1, <3>1
  <2>2. CASE id # NoSession
    <3>1. sess' = [sess EXCEPT ![id] = b] /\ b.sink # c /\ sess \in [Sessions -> SessionT(m)]
      BY <1>1, <1>3, <1>7, <2>2 DEF Typed
    <3> HIDE DEF b, id
    <3>2. \A s \in Sessions : s # id => sess'[s] = sess[s]
      BY <3>1
    <3>3. \A s \in Sessions : s = id => sess'[s] = b
      BY <3>1
    <3> QED BY <1>5, <3>1, <3>2, <3>3
  <2> QED BY <2>1, <2>2
<1>9. Pre(cn.net, cn.net)
  BY <1>2, PreSame
<1>10. Calm(cn, e)
  <2>1. cn.st \notin {"read", "resumed"} /\ e.st \notin {"read", "resumed"} /\ cn.st # "new" /\ e.st # "new"
    BY <1>3, <1>6 DEF cn
  <2> QED BY <1>2, <1>6, <1>9, <2>1, CalmIs
<1>11. ConnStep(c, e)
  BY <1>2, <1>3, <1>6, <1>8, <1>10 DEF ConnStep, cn
<1> QED BY <1>3, <1>7, <1>11, QuietStep

\* A session that does not exist has nothing.
LEMMA NotLive ==
  ASSUME NEW s, BufferOk(s), ~ s.live
  PROVE  /\ s.buf = <<>> /\ s.timer = "off" /\ ~ s.subs /\ ~ s.expired /\ s.sink = NoConn
         /\ s.stamped = <<>> /\ s.nextSeq = 0
BY DEF BufferOk, NewSession

LEMMA AgeQuiet ==
  ASSUME IInv, NEW s \in Sessions, Age(s)
  PROVE  Typed' /\ Buffers' /\ Quiet /\ Silent
<1> DEFINE m == cl.seq
           a == sess[s]
<1>1. Typed /\ Buffers
  BY DEF IInv
<1>2. a \in SessionT(m) /\ BufferOk(a) /\ a.buf \in Seq(PushT) /\ sess \in [Sessions -> SessionT(m)]
  BY <1>1, Parts DEF Buffers, Typed
<1>3. PICK i \in DOMAIN a.buf : sess' = [sess EXCEPT ![s].buf[i].old = TRUE]
  BY DEF Age
<1>4. conn' = conn /\ cl' = cl /\ pushes' = pushes
  BY DEF Age
<1> DEFINE p == [a.buf[i] EXCEPT !.old = TRUE]
           q == [a.buf EXCEPT ![i] = p]
           b == [a EXCEPT !.buf = q]
<1>5. a.live
  BY <1>2, NotLive
<1>6. i \in 1..Len(a.buf) /\ a.buf[i] \in PushT /\ p \in PushT
      /\ p.seq = a.buf[i].seq /\ p.v = a.buf[i].v
  <2> DEFINE r == a.buf[i]
  <2>1. i \in 1..Len(a.buf) /\ r \in PushT
    BY <1>2
  <2> HIDE DEF r
  <2>2. p = [r EXCEPT !.old = TRUE]
    BY DEF r
  <2> HIDE DEF p
  <2>3. p \in PushT /\ p.seq = r.seq /\ p.v = r.v
    BY <2>1, <2>2 DEF PushT
  <2> QED BY <2>1, <2>3 DEF r
<1>7. sess' = [sess EXCEPT ![s] = b]
  BY <1>2, <1>3
<1> HIDE DEF p
<1>8. /\ q \in Seq(PushT) /\ Len(q) = Len(a.buf) /\ q[i] = p
      /\ \A j \in 1..Len(a.buf) : j # i => q[j] = a.buf[j]
  BY <1>2, <1>6
<1> HIDE DEF q, a
<1>9. b \in SessionT(m)
  BY <1>2, <1>8 DEF SessionT
<1>10. /\ b.live = a.live /\ b.nextSeq = a.nextSeq /\ b.stamped = a.stamped /\ b.buf = q
       /\ b.subs = a.subs /\ b.expired = a.expired /\ b.sink = a.sink /\ b.timer = a.timer
  BY <1>2 DEF SessionT
<1> HIDE DEF b
<1>11. BufferOk(b)
  <2>1. a.nextSeq = Len(a.stamped) /\ Len(a.buf) <= MaxMsgs /\ Shape(a.buf, a.nextSeq, a.stamped)
    BY <1>2, <1>5 DEF BufferOk
  <2>2. ASSUME NEW j \in 1..Len(q)
        PROVE  q[j].seq = a.nextSeq - Len(q) + j /\ q[j].v = a.stamped[a.nextSeq - Len(q) + j]
    <3>1. q[j].seq = a.buf[j].seq /\ q[j].v = a.buf[j].v /\ j \in 1..Len(a.buf)
      BY <1>6, <1>8
    <3>2. /\ a.buf[j].seq = a.nextSeq - Len(a.buf) + j
          /\ a.buf[j].v = a.stamped[a.nextSeq - Len(a.buf) + j]
      BY <2>1, <3>1 DEF Shape
    <3> QED BY <1>8, <3>1, <3>2
  <2>3. Shape(q, a.nextSeq, a.stamped)
    BY <1>8, <2>1, <2>2 DEF Shape
  <2> QED BY <1>5, <1>8, <1>10, <2>1, <2>3 DEF BufferOk
<1>12. SessStep(s, b)
  BY <1>7, <1>9, <1>10, <1>11 DEF SessStep, Kept, a
<1> QED BY <1>4, <1>12, QuietStep

LEMMA FireQuiet ==
  ASSUME IInv, NEW s \in Sessions, Fire(s)
  PROVE  Typed' /\ Buffers' /\ Quiet /\ Silent
<1> DEFINE m == cl.seq
           a == sess[s]
           b == [a EXCEPT !.timer = "fired"]
<1>1. Typed /\ Buffers
  BY DEF IInv
<1>2. a \in SessionT(m) /\ BufferOk(a) /\ sess \in [Sessions -> SessionT(m)]
  BY <1>1, Parts DEF Buffers, Typed
<1>3. /\ a.timer = "armed" /\ conn' = conn /\ cl' = cl /\ pushes' = pushes
      /\ sess' = [sess EXCEPT ![s] = b]
  BY <1>2 DEF Fire
<1>4. a.live
  BY <1>2, <1>3, NotLive
<1> HIDE DEF a
<1>5. b \in SessionT(m)
  BY <1>2 DEF SessionT
<1>6. /\ b.live = a.live /\ b.nextSeq = a.nextSeq /\ b.stamped = a.stamped /\ b.buf = a.buf
      /\ b.subs = a.subs /\ b.expired = a.expired /\ b.sink = a.sink /\ b.timer = "fired"
  BY <1>2 DEF SessionT
<1> HIDE DEF b
<1>7. BufferOk(b)
  BY <1>2, <1>4, <1>6, SameBuffer
<1>8. SessStep(s, b)
  BY <1>3, <1>5, <1>6, <1>7 DEF SessStep, Kept, a
<1> QED BY <1>3, <1>8, QuietStep

LEMMA EndedQuiet ==
  ASSUME IInv, NEW s \in Sessions, Ended(s)
  PROVE  Typed' /\ Buffers' /\ Quiet /\ Silent
<1> DEFINE m == cl.seq
           a == sess[s]
           b == Expire(a)
           c == a.sink
           e == WsClose(conn[c])
<1>1. Typed /\ Buffers /\ Owned
  BY DEF IInv
<1>2. a \in SessionT(m) /\ BufferOk(a) /\ c \in Conns \cup {NoConn}
  BY <1>1, Parts DEF Buffers
<1>3. /\ a.timer = "fired" /\ cl' = cl /\ pushes' = pushes /\ sess' = [sess EXCEPT ![s] = b]
      /\ conn' = IF c = NoConn THEN conn ELSE [conn EXCEPT ![c] = e]
  BY DEF Ended
<1>4. a.live
  BY <1>2, <1>3, NotLive
<1>5. c # NoConn => /\ c \in Conns /\ conn[c] \in ConnT(m) /\ conn[c].st # "new" /\ conn[c].st # "gone"
                    /\ Len(conn[c].q) <= QCap
  BY <1>1, <1>2, Parts DEF Owned, SinkOk
<1>6. c # NoConn => /\ e \in ConnT(m) /\ Calm(conn[c], e) /\ ~ e.up /\ e.q = conn[c].q
                    /\ e.st = conn[c].st
  <2> SUFFICES ASSUME c # NoConn
               PROVE  /\ e \in ConnT(m) /\ Calm(conn[c], e) /\ ~ e.up /\ e.q = conn[c].q
                      /\ e.st = conn[c].st
    OBVIOUS
  <2> DEFINE cn == conn[c]
  <2>1. cn \in ConnT(m) /\ cn.st # "new"
    BY <1>5
  <2> HIDE DEF cn
  <2>2. WsClose(cn) \in ConnT(m) /\ Stays(cn, WsClose(cn)) /\ ~ WsClose(cn).up /\ WsClose(cn).q = cn.q
    BY <2>1, CloseIs
  <2>3. Calm(cn, WsClose(cn))
    BY <2>1, CalmClose
  <2> QED BY <2>2, <2>3 DEF Stays, cn
<1> HIDE DEF e
<1>7. conn' = conn \/ ConnStep(c, e)
  BY <1>3, <1>5, <1>6 DEF ConnStep
<1>8. SessStep(s, b)
  <2>1. /\ b \in SessionT(m) /\ BufferOk(b) /\ b.live /\ b.expired /\ ~ b.subs
        /\ b.sink = NoConn /\ b.stamped = a.stamped
    <3> HIDE DEF a, m
    <3> QED BY <1>2, <1>4, ExpireIs
  <2> HIDE DEF b
  <2>2. Kept(a, b)
    BY <1>4, <2>1 DEF Kept
  <2>3. c # NoConn => c \in Conns /\ ~ conn'[c].up
    <3>1. conn \in [Conns -> ConnT(m)]
      BY <1>1 DEF Typed
    <3> HIDE DEF c
    <3> QED BY <1>3, <1>5, <1>6, <3>1
  <2> QED BY <1>3, <2>1, <2>2, <2>3 DEF SessStep
<1> QED BY <1>3, <1>7, <1>8, QuietStep

LEMMA CutQuiet ==
  ASSUME IInv, NEW c \in Conns, Cut(c)
  PROVE  Typed' /\ Buffers' /\ Quiet /\ Silent
<1> DEFINE cn == conn[c]
           m == cl.seq
<1>1. Typed /\ Owned
  BY DEF IInv
<1>2. /\ cn \in ConnT(m) /\ Len(cn.q) <= QCap /\ cn.net \in Seq(FrameT(m))
      /\ cn.in \in Seq(FrameT(m)) /\ ConnOk(cn) /\ conn \in [Conns -> ConnT(m)]
  BY <1>1, Parts DEF Owned, Typed
<1>3. PICK n \in 0..Len(cn.net), k \in {0, Len(cn.in)} :
        conn' = [conn EXCEPT ![c].up = FALSE, ![c].net = SubSeq(@, 1, n), ![c].in = SubSeq(@, 1, k)]
  BY DEF Cut
<1>4. cn.up /\ sess' = sess /\ cl' = cl /\ pushes' = pushes
  BY DEF Cut
<1> DEFINE x == SubSeq(cn.net, 1, n)
           y == SubSeq(cn.in, 1, k)
           e == [cn EXCEPT !.up = FALSE, !.net = x, !.in = y]
<1>5. conn' = [conn EXCEPT ![c] = e]
  BY <1>2, <1>3
<1>6. x \in Seq(FrameT(m)) /\ Pre(x, cn.net)
  <2> DEFINE z == cn.net
  <2>1. z \in Seq(FrameT(m)) /\ n \in 0..Len(z) /\ Len(z) \in Nat
    BY <1>2
  <2> HIDE DEF z
  <2>2. SubSeq(z, 1, n) \in Seq(FrameT(m)) /\ Len(SubSeq(z, 1, n)) = n
        /\ \A i \in 1..n : SubSeq(z, 1, n)[i] = z[i]
    BY <2>1, PrefixIs
  <2>3. Pre(SubSeq(z, 1, n), z)
    BY <2>1, <2>2 DEF Pre
  <2> QED BY <2>2, <2>3 DEF z
<1>7. y \in {cn.in, <<>>} /\ y \in Seq(FrameT(m))
  <2> DEFINE z == cn.in
  <2>1. z \in Seq(FrameT(m)) /\ k \in {0, Len(z)}
    BY <1>2
  <2> HIDE DEF z
  <2>2. CASE k = 0
    <3>1. SubSeq(z, 1, k) = <<>>
      BY <2>1, <2>2
    <3> QED BY <3>1 DEF z
  <2>3. CASE k = Len(z)
    <3>1. SubSeq(z, 1, Len(z)) = z
      BY <2>1, SubSeqFull
    <3> QED BY <2>1, <2>3, <3>1 DEF z
  <2> QED BY <2>1, <2>2, <2>3
<1> HIDE DEF x, y, cn
<1>8. e \in ConnT(m)
  BY <1>2, <1>6, <1>7 DEF ConnT
<1>9. /\ e.st = cn.st /\ ~ e.up /\ e.sess = cn.sess /\ e.in = y
      /\ e.net = x /\ e.drop = cn.drop /\ e.q = cn.q
  BY <1>2 DEF ConnT
<1> HIDE DEF e
<1>10. cn.st # "new" /\ cn.st # "gone"
  BY <1>2, <1>4 DEF ConnOk, Unused
<1>11. Calm(cn, e)
  BY <1>2, <1>6, <1>7, <1>8, <1>9, <1>10, CalmIs
<1>12. ConnStep(c, e)
  BY <1>2, <1>5, <1>8, <1>9, <1>10, <1>11 DEF ConnStep, cn
<1> QED BY <1>4, <1>12, QuietStep

-----------------------------------------------------------------------------
(* What a quiet step preserves.                                            *)

\* A calm step of a connection, read from the other side.
LEMMA CalmBack ==
  ASSUME NEW cn, NEW e, Calm(cn, e)
  PROVE  /\ cn.st # "new" /\ e.st # "new" /\ e.sess = cn.sess /\ e.in \in {cn.in, <<>>}
         /\ (e.up => cn.up) /\ (e.qclosed \/ e.st \in {"teardown", "drained", "gone"} => ~ e.up)
         /\ e.drop => cn.drop \/ cn.st = "resumed"
         /\ e.st = "resumed" => cn.st = "resumed"
         /\ e.st = "read" => cn.st \in {"read", "resumed"}
         /\ cn.st = "read" => e.st = "read" \/ e.in = <<>>
BY DEF Calm

LEMMA CalmWay ==
  ASSUME NEW m, NEW n, NEW cn \in ConnT(m), NEW e \in ConnT(n), Calm(cn, e), NEW i \in 1..Len(Way(e))
  PROVE  \/ i \in 1..Len(Way(cn)) /\ Way(e)[i] = Way(cn)[i]
         \/ Way(e)[i].kind = "push"
         \/ Way(e)[i].kind = "aborted" /\ cn.st = "resumed"
<1> DEFINE w == Way(cn)
           x == Way(e)
<1>1. Len(w) \in Nat /\ Len(x) \in Nat
  BY WayIs
<1>2. CASE e.up
  <2>1. Pre(w, x) /\ Added(cn, e)
    BY <1>2 DEF Calm
  <2>2. CASE i <= Len(w)
    BY <1>1, <2>1, <2>2 DEF Pre
  <2>3. CASE i > Len(w)
    BY <2>1, <2>3 DEF Added
  <2> QED BY <1>1, <2>2, <2>3
<1>3. CASE ~ e.up
  <2>1. Pre(x, w)
    BY <1>3 DEF Calm
  <2> QED BY <1>1, <2>1 DEF Pre
<1> QED BY <1>2, <1>3

LEMMA QuietOwned ==
  ASSUME IInv, Typed', Quiet
  PROVE  Owned' /\ Hellos'
<1>1. Typed /\ Owned /\ Hellos
  BY DEF IInv
<1>2. \A c \in Conns : conn'[c] = conn[c] \/ Calm(conn[c], conn'[c])
  BY DEF Quiet
<1>3. \A s \in Sessions : Kept(sess[s], sess'[s])
  BY DEF Quiet
<1>4. ASSUME NEW c \in Conns
      PROVE  /\ ConnOk(conn'[c]) /\ conn'[c].sess = conn[c].sess /\ (conn'[c].up => conn[c].up)
             /\ (conn[c].st # "new" => conn'[c].st # "new")
  <2>1. ConnOk(conn[c])
    BY <1>1 DEF Owned
  <2>2. CASE conn'[c] = conn[c]
    BY <2>1, <2>2
  <2>3. CASE Calm(conn[c], conn'[c])
    BY <2>1, <2>3, CalmBack DEF ConnOk
  <2> QED BY <1>2, <2>2, <2>3
<1>5. ASSUME NEW c \in Conns, conn'[c].sess # NoSession
      PROVE  sess'[conn'[c].sess].live /\ (conn'[c].up => sess'[conn'[c].sess].sink = c)
  <2>1. conn'[c].sess = conn[c].sess /\ conn[c].sess \in Sessions
    BY <1>1, <1>4, <1>5, Parts
  <2>2. sess[conn[c].sess].live /\ (conn[c].up => sess[conn[c].sess].sink = c)
    BY <1>1, <1>5, <2>1 DEF Owned
  <2>3. sess'[conn[c].sess].live
    BY <1>3, <2>1, <2>2 DEF Kept
  <2>4. ASSUME conn'[c].up PROVE sess'[conn[c].sess].sink = c
    <3>1. sess[conn[c].sess].sink = c
      BY <1>4, <2>2, <2>4
    <3> QED BY <2>1, <2>4, <3>1 DEF Quiet
  <2> QED BY <2>1, <2>3, <2>4
<1>6. ASSUME NEW s \in Sessions PROVE SinkOk(s)'
  <2>1. SinkOk(s) /\ Kept(sess[s], sess'[s])
    BY <1>1, <1>3 DEF Owned
  <2>2. sess[s].sink \in Conns \cup {NoConn}
    BY <1>1, Parts
  <2>3. ASSUME sess'[s].sink # NoConn
        PROVE  /\ sess'[s].live /\ ~ sess'[s].expired
               /\ conn'[sess'[s].sink].sess = s /\ conn'[sess'[s].sink].st \notin {"new", "gone"}
    <3>1. sess'[s].sink = sess[s].sink
      BY <2>1, <2>3 DEF Kept
    <3>2. /\ sess[s].sink \in Conns /\ sess[s].live /\ ~ sess[s].expired
          /\ conn[sess[s].sink].sess = s /\ conn[sess[s].sink].st # "new"
      BY <2>1, <2>2, <2>3, <3>1 DEF SinkOk
    <3>3. conn'[sess[s].sink].sess = s /\ conn'[sess[s].sink].st # "new"
      BY <1>4, <3>2
    <3>4. sess'[s].live /\ ~ sess'[s].expired
      BY <2>1, <2>3, <3>2 DEF Kept
    <3>5. conn'[sess'[s].sink].st # "gone"
      BY <2>3 DEF Quiet
    <3> QED BY <3>1, <3>3, <3>4, <3>5
  <2>4. ASSUME sess'[s].live, sess'[s].sink = NoConn, ~ sess'[s].expired
        PROVE  sess'[s].timer # "off"
    BY <2>1, <2>4 DEF Kept, SinkOk
  <2> QED BY <2>3, <2>4 DEF SinkOk
<1>7. Owned'
  BY <1>4, <1>5, <1>6 DEF Owned
<1>8. ASSUME NEW c \in Conns, NEW i \in 1..Len(conn'[c].in), conn'[c].in[i].kind = "hello"
      PROVE  /\ Len(conn'[c].in) = 1 /\ conn'[c].st = "read" /\ conn'[c].sess = NoSession
             /\ conn'[c].in[1].sess # NoSession => sess'[conn'[c].in[1].sess].live
  <2>1. conn'[c].in # <<>>
    BY <1>8
  <2>2. conn'[c].in = conn[c].in
    BY <1>2, <2>1, CalmBack
  <2>3. /\ Len(conn[c].in) = 1 /\ conn[c].st = "read" /\ conn[c].sess = NoSession
        /\ conn[c].in[1].sess # NoSession => sess[conn[c].in[1].sess].live
    BY <1>1, <1>8, <2>2 DEF Hellos
  <2>4. conn'[c].st = "read"
    BY <1>2, <2>1, <2>3, CalmBack
  <2>5. conn[c].in[1].sess \in SessIds
    <3>1. conn[c].in[1] \in FrameT(cl.seq)
      BY <1>1, <2>3, Parts
    <3> QED BY <3>1 DEF FrameT
  <2>6. conn[c].in[1].sess # NoSession => sess'[conn[c].in[1].sess].live
    BY <1>3, <2>3, <2>5 DEF Kept, Sessions, SessIds, NoSession
  <2> QED BY <1>4, <2>2, <2>3, <2>4, <2>6
<1>9. Hellos'
  BY <1>8 DEF Hellos
<1> QED BY <1>7, <1>9

LEMMA QuietYoung ==
  ASSUME IInv, Typed', Quiet, NEW s \in Sessions
  PROVE  (Young(s) => Young(s)') /\ (NeverSub(s) => NeverSub(s)')
<1>1. Typed /\ Owned /\ SinkOk(s)
  BY DEF IInv, Owned
<1>2. \A c \in Conns : conn'[c] = conn[c] \/ Calm(conn[c], conn'[c])
  BY DEF Quiet
<1>3. Kept(sess[s], sess'[s])
  BY DEF Quiet
<1>4. ASSUME NEW c \in Conns
      PROVE  /\ conn'[c].sess = conn[c].sess /\ conn'[c].in \in {conn[c].in, <<>>}
             /\ conn'[c].st = "resumed" => conn[c].st = "resumed"
  BY <1>2, CalmBack
<1>5. ASSUME Young(s) PROVE Young(s)'
  <2>1. sess'[s].live /\ (sess'[s].sink = NoConn \/ sess'[s].timer = "off")
    BY <1>1, <1>3, <1>5 DEF Kept, Young, SinkOk
  <2>2. \A c \in Conns : conn'[c].sess = s => conn'[c].st # "resumed"
    BY <1>4, <1>5 DEF Young
  <2>3. \A c \in Conns : \A i \in 1..Len(conn'[c].in) :
          conn'[c].in[i].kind = "hello" => conn'[c].in[i].sess # s
    BY <1>4, <1>5 DEF Young
  <2> QED BY <2>1, <2>2, <2>3 DEF Young
<1>6. ASSUME NeverSub(s) PROVE NeverSub(s)'
  <2>1. sess'[s].stamped = <<>> /\ ~ sess'[s].subs
    BY <1>3, <1>6 DEF Kept, NeverSub
  <2>2. ASSUME NEW c \in Conns, conn'[c].sess = s PROVE ~ HasFrame(conn'[c].in, "subscribe")
    BY <1>4, <1>6, <2>2 DEF NeverSub, HasFrame
  <2> QED BY <2>1, <2>2 DEF NeverSub
<1> QED BY <1>5, <1>6

LEMMA QuietClient ==
  ASSUME IInv, Typed', Quiet
  PROVE  Supervised' /\ Handshake'
<1>1. Typed /\ Supervised /\ Handshake
  BY DEF IInv
<1>2. cl' = cl /\ \A c \in Conns : conn'[c] = conn[c] \/ Calm(conn[c], conn'[c])
  BY DEF Quiet
<1>3. \A s \in SessIds : s # NoSession => s \in Sessions
  BY DEF SessIds, Sessions, NoSession
<1>4. /\ cl.sid \in SessIds /\ cl.conn \in Conns \cup {NoConn} /\ cl.hres.sess \in SessIds
      /\ \A c \in Conns : conn[c].sess \in SessIds
  <2>1. cl.hres.sess \in SessIds
    BY <1>1, Parts DEF FrameT
  <2> QED BY <1>1, <2>1, Parts
<1>5. ASSUME NEW c \in Conns
      PROVE  /\ conn'[c].sess = conn[c].sess /\ conn'[c].in \in {conn[c].in, <<>>}
             /\ (conn[c].st # "new" => conn'[c].st # "new")
  BY <1>2, CalmBack
<1>6. ASSUME NEW s \in SessIds, s # NoSession, Offered(s) PROVE Offered(s)'
  <2>1. s \in Sessions
    BY <1>3, <1>6
  <2>2. (Young(s) => Young(s)') /\ (NeverSub(s) => NeverSub(s)')
    BY <2>1, QuietYoung
  <2>3. s = cl.sid \/ (cl.sid = NoSession /\ NeverSub(s) /\ Young(s))
    BY <1>6 DEF Offered
  <2>4. s = cl'.sid \/ (cl'.sid = NoSession /\ NeverSub(s)' /\ Young(s)')
    BY <1>2, <2>2, <2>3
  <2> QED BY <2>4 DEF Offered
<1>7. Supervised'
  <2>1. cl.sid # NoSession => sess'[cl.sid].live
    BY <1>1, <1>3, <1>4 DEF Supervised, Quiet, Kept
  <2>2. cl.conn # NoConn => conn'[cl.conn].st # "new" /\ conn'[cl.conn].sess = conn[cl.conn].sess
    BY <1>1, <1>4, <1>5 DEF Supervised
  <2> QED BY <1>1, <1>2, <2>1, <2>2 DEF Supervised
<1>8. ASSUME cl.sup = "handshake" , cl.hres.kind = "ok"
      PROVE  cl.hres.sess # NoSession /\ Offered(cl.hres.sess)'
  <2>1. PICK s \in SessIds : s = cl.hres.sess
    BY <1>4
  <2>2. s # NoSession /\ Offered(s)
    BY <1>1, <1>8, <2>1 DEF Handshake
  <2>3. Offered(s)'
    BY <1>6, <2>2
  <2>4. cl'.hres.sess = s
    BY <1>2, <2>1
  <2> QED BY <2>1, <2>2, <2>3, <2>4 DEF Offered, Young, NeverSub
<1>9. ASSUME cl.sup = "handshake", NEW c \in Conns, c = cl.conn PROVE Shaken(c)'
  <2>1. Shaken(c)
    <3>1. c # NoConn
      BY <1>1, Parts
    <3> QED BY <1>1, <1>9, <3>1 DEF Handshake
  <2>2. \A f : AnswerOk(conn[c], f) => AnswerOk(conn'[c], f)
    BY <1>5 DEF AnswerOk
  <2>3. ASSUME NEW i \in 1..Len(Way(conn'[c])), Answer(Way(conn'[c])[i], cl.hseq)
        PROVE  AnswerOk(conn'[c], Way(conn'[c])[i])
    <3>1. i \in 1..Len(Way(conn[c])) /\ Way(conn'[c])[i] = Way(conn[c])[i]
      <4>1. conn[c] \in ConnT(cl.seq) /\ conn'[c] \in ConnT(cl.seq)
        BY <1>1, <1>2 DEF Typed
      <4>2. CASE conn'[c] = conn[c]
        BY <4>2
      <4>3. CASE Calm(conn[c], conn'[c])
        <5> DEFINE a == conn[c]
                   b == conn'[c]
                   m == cl.seq
        <5>1. a \in ConnT(m) /\ b \in ConnT(m) /\ Calm(a, b) /\ i \in 1..Len(Way(b))
          BY <4>1, <4>3
        <5> HIDE DEF a, b, m
        <5>2. \/ i \in 1..Len(Way(a)) /\ Way(b)[i] = Way(a)[i]
              \/ Way(b)[i].kind = "push"
              \/ Way(b)[i].kind = "aborted" /\ a.st = "resumed"
          BY <5>1, CalmWay
        <5>3. Way(b)[i].kind \in {"ok", "expired"}
          BY <2>3 DEF Answer, b
        <5>4. Way(b)[i].kind # "push" /\ Way(b)[i].kind # "aborted"
          BY <5>3
        <5> QED BY <5>2, <5>4 DEF a, b
      <4> QED BY <1>2, <4>2, <4>3
    <3>2. AnswerOk(conn[c], Way(conn[c])[i])
      BY <2>1, <2>3, <3>1 DEF Shaken
    <3> QED BY <2>2, <3>1, <3>2
  <2>4. conn'[c].sess # NoSession => Offered(conn[c].sess)'
    <3> SUFFICES ASSUME conn[c].sess # NoSession PROVE Offered(conn[c].sess)'
      BY <1>5
    <3>1. PICK s \in SessIds : s = conn[c].sess
      BY <1>4
    <3>2. s # NoSession /\ Offered(s)
      BY <2>1, <3>1 DEF Shaken
    <3>3. Offered(s)' /\ conn'[c].sess = s
      BY <1>5, <1>6, <3>1, <3>2
    <3> QED BY <3>3 DEF Offered, Young, NeverSub
  <2>5. conn'[c].in # <<>> => Len(conn'[c].in) = 1 /\ Asked(conn[c].in[1])'
    <3> SUFFICES ASSUME conn'[c].in # <<>>
                 PROVE  Len(conn'[c].in) = 1 /\ Asked(conn[c].in[1])'
      OBVIOUS
    <3>1. conn'[c].in = conn[c].in
      BY <1>5
    <3> QED BY <1>2, <2>1, <3>1 DEF Shaken, Asked
  <2>6. cl.hres.kind \in {"ok", "expired"} => AnswerOk(conn'[c], cl.hres)
    BY <2>1, <2>2 DEF Shaken
  <2> HIDE DEF AnswerOk, Answer, Offered, Asked
  <2> QED BY <1>2, <2>3, <2>4, <2>5, <2>6 DEF Shaken
<1>10. Handshake'
  <2>1. cl.sup = "handshake" /\ cl.conn # NoConn => Shaken(cl.conn)'
    <3> SUFFICES ASSUME cl.sup = "handshake", cl.conn # NoConn PROVE Shaken(cl.conn)'
      OBVIOUS
    <3>1. PICK c \in Conns : c = cl.conn
      BY <1>4
    <3>2. Shaken(c)' /\ c = cl'.conn
      BY <1>2, <1>9, <3>1
    <3> QED BY <3>2 DEF Shaken
  <2> QED BY <1>2, <1>8, <2>1 DEF Handshake
<1> QED BY <1>7, <1>10

LEMMA QuietSubscribing ==
  ASSUME IInv, Typed', Quiet
  PROVE  Subscribing'
<1>1. Typed /\ Owned /\ Supervised /\ Subscribing
  BY DEF IInv
<1>2. cl' = cl /\ \A c \in Conns : conn'[c] = conn[c] \/ Calm(conn[c], conn'[c])
  BY DEF Quiet
<1>3. cl.sup \in {"resubscribe", "waiting"} => Young(cl.sid)'
  <2> SUFFICES ASSUME cl.sup \in {"resubscribe", "waiting"} PROVE Young(cl.sid)'
    OBVIOUS
  <2>1. cl.sid \in Sessions
    BY <1>1, Parts DEF Supervised, SessIds, Sessions, NoSession
  <2>2. PICK s \in Sessions : s = cl.sid
    BY <2>1
  <2>3. Young(s)
    BY <1>1, <2>2 DEF Subscribing
  <2>4. Young(s)' /\ cl'.sid = s
    BY <1>2, <2>2, <2>3, QuietYoung
  <2> QED BY <2>4 DEF Young
<1>4. ASSUME NEW c \in Conns, conn'[c].st \in {"read", "resumed"}, HasFrame(conn'[c].in, "subscribe")
      PROVE  /\ cl.sup = "waiting" /\ conn'[c].sess = cl.sid /\ sess'[cl.sid].sink = c
             /\ cl.hseq \in cl.pending /\ cl.conn \in {c, NoConn} /\ OneCall(conn[c].in)'
             /\ \A i \in 1..Len(Way(conn'[c])) :
                  Way(conn'[c])[i].kind # "push" => Way(conn'[c])[i].seq # cl.hseq
  <2> DEFINE a == conn[c]
             b == conn'[c]
             m == cl.seq
  <2>1. b.in = a.in /\ b.sess = a.sess /\ a.st \in {"read", "resumed"}
    <3>1. CASE b = a
      BY <1>4, <3>1
    <3>2. CASE Calm(a, b)
      <4>1. ~ HasFrame(<<>>, "subscribe")
        BY DEF HasFrame
      <4>2. b.in \in {a.in, <<>>} /\ b.sess = a.sess
        BY <3>2 DEF Calm
      <4>3. b.st = "resumed" => a.st = "resumed"
        BY <3>2 DEF Calm
      <4>4. b.st = "read" => a.st \in {"read", "resumed"}
        BY <3>2 DEF Calm
      <4> HIDE DEF a, b
      <4> QED BY <1>4, <4>1, <4>2, <4>3, <4>4 DEF b
    <3> QED BY <1>2, <3>1, <3>2
  <2>2. /\ cl.sup = "waiting" /\ a.sess = cl.sid /\ sess[cl.sid].sink = c
        /\ cl.hseq \in cl.pending /\ cl.conn \in {c, NoConn} /\ OneCall(conn[c].in)
        /\ \A i \in 1..Len(Way(a)) : Way(a)[i].kind # "push" => Way(a)[i].seq # cl.hseq
    BY <1>1, <1>4, <2>1 DEF Subscribing
  <2>3. Young(cl.sid) /\ cl.sid \in Sessions /\ c # NoConn
    BY <1>1, <2>2, Parts DEF Subscribing, Supervised, SessIds, Sessions, NoSession
  <2>4. sess[cl.sid].timer = "off" /\ a.st # "resumed"
    BY <2>2, <2>3 DEF Young
  <2>5. sess'[cl.sid].sink = c
    <3> SUFFICES ASSUME sess'[cl.sid].sink # sess[cl.sid].sink PROVE FALSE
      BY <2>2
    <3>1. b.st = "gone" \/ sess[cl.sid].timer = "fired"
      BY <2>2, <2>3 DEF Quiet
    <3> QED BY <1>4, <2>4, <3>1
  <2>6. \A i \in 1..Len(Way(b)) : Way(b)[i].kind # "push" => Way(b)[i].seq # cl.hseq
    <3>1. CASE b = a
      BY <2>2, <3>1
    <3>2. CASE Calm(a, b)
      <4>1. a \in ConnT(m) /\ b \in ConnT(m)
        BY <1>1, <1>2 DEF Typed
      <4> HIDE DEF a, b, m
      <4>2. \A i \in 1..Len(Way(b)) :
              \/ i \in 1..Len(Way(a)) /\ Way(b)[i] = Way(a)[i]
              \/ Way(b)[i].kind = "push"
              \/ Way(b)[i].kind = "aborted" /\ a.st = "resumed"
        BY <3>2, <4>1, CalmWay
      <4> QED BY <2>2, <2>4, <4>2
    <3> QED BY <1>2, <3>1, <3>2
  <2>7. OneCall(conn[c].in)'
    BY <1>2, <2>1, <2>2 DEF OneCall
  <2> QED BY <2>1, <2>2, <2>5, <2>6, <2>7
<1>5. ASSUME NEW s \in Sessions, sess'[s].expired PROVE ~ sess'[s].subs
  BY <1>1, <1>5 DEF Subscribing, Quiet, Kept
<1> QED BY <1>2, <1>3, <1>4, <1>5 DEF Subscribing

LEMMA QuietStreams ==
  ASSUME IInv, Typed', Quiet, Silent
  PROVE  Streams'
<1>1. Typed /\ Streams
  BY DEF IInv
<1>2. /\ cl' = cl /\ \A c \in Conns : conn'[c] = conn[c] \/ Calm(conn[c], conn'[c])
      /\ \A s \in Sessions : sess'[s].stamped = sess[s].stamped
  BY DEF Quiet, Silent
<1>3. /\ cl.sid \in SessIds /\ cl.conn \in Conns \cup {NoConn}
      /\ \A c \in Conns : conn[c].sess \in SessIds /\ c # NoConn
      /\ \A s \in SessIds : s # NoSession => s \in Sessions
  BY <1>1, Parts DEF SessIds, Sessions, NoSession
<1>4. ASSUME NEW c \in Conns, c = cl.conn PROVE Flows(c)'
  <2> DEFINE a == conn[c]
             b == conn'[c]
             st == StreamOfConn(a)
  <2>1. Run(Way(a), cl.last, st) /\ (a.up /\ a.sess # NoSession => Full(Way(a), cl.last, Len(st)))
    BY <1>1, <1>3, <1>4 DEF Streams, Flows
  <2>2. Way(a) \in Seq(FrameT(cl.seq)) /\ Way(b) \in Seq(FrameT(cl.seq))
    BY <1>1, <1>2, WayIs DEF Typed
  <2>3. b.sess = a.sess /\ StreamOfConn(conn[c])' = st
    <3>1. b.sess = a.sess
      BY <1>2, CalmBack
    <3>2. IF b.sess = NoSession THEN TRUE ELSE sess'[b.sess].stamped = sess[a.sess].stamped
      BY <1>2, <1>3, <3>1
    <3> QED BY <3>1, <3>2 DEF StreamOfConn
  <2>4. Run(Way(b), cl.last, st) /\ (b.up /\ b.sess # NoSession => Full(Way(b), cl.last, Len(st)))
    <3>1. CASE b = a
      BY <2>1, <3>1
    <3>2. CASE Calm(a, b) /\ b.up
      <4>1. Pre(Way(a), Way(b)) /\ a.up
        BY <3>2 DEF Calm
      <4>2. \A i \in 1..Len(Way(b)) : i > Len(Way(a)) => Way(b)[i].kind # "push"
        BY <3>2 DEF Silent
      <4> HIDE DEF a, b, st
      <4>3. Run(Way(b), cl.last, st) /\ \A n : Full(Way(a), cl.last, n) => Full(Way(b), cl.last, n)
        BY <2>1, <2>2, <4>1, <4>2, RunMore
      <4> QED BY <2>1, <2>3, <4>1, <4>3
    <3>3. CASE Calm(a, b) /\ ~ b.up
      <4>1. Pre(Way(b), Way(a))
        BY <3>3 DEF Calm
      <4> HIDE DEF a, b, st
      <4>2. Run(Way(b), cl.last, st)
        BY <2>1, <2>2, <4>1, RunPrefix
      <4> QED BY <3>3, <4>2
    <3> QED BY <1>2, <3>1, <3>2, <3>3
  <2> QED BY <1>2, <2>3, <2>4 DEF Flows, StreamOfConn
<1>5. cl.conn # NoConn => Flows(cl.conn)'
  <2> SUFFICES ASSUME cl.conn # NoConn PROVE Flows(cl.conn)'
    OBVIOUS
  <2>1. PICK c \in Conns : c = cl.conn
    BY <1>3
  <2>2. Flows(c)' /\ c = cl'.conn
    BY <1>2, <1>4, <2>1
  <2> QED BY <2>2 DEF Flows
<1>6. IF cl.sid = NoSession THEN cl.last = 0 ELSE cl.last <= Len(sess'[cl.sid].stamped)
  BY <1>1, <1>2, <1>3 DEF Streams
<1> QED BY <1>1, <1>2, <1>5, <1>6 DEF Streams

\* The client has not seen more than what its connection's session published.
LEMMA LastFits ==
  ASSUME IInv, NEW c \in Conns, c = cl.conn, conn[c].sess # NoSession
  PROVE  cl.last <= Len(sess[conn[c].sess].stamped)
<1>1. Typed /\ Streams /\ Supervised /\ Handshake
  BY DEF IInv
<1>2. /\ cl.last \in Nat /\ cl.sid \in SessIds /\ conn[c].sess \in Sessions /\ c # NoConn
      /\ sess[conn[c].sess].stamped \in Seq(Nat) /\ cl \in ClientT(cl.seq)
  BY <1>1, Parts DEF Typed
<1>3. cl.sid # NoSession => cl.last <= Len(sess[cl.sid].stamped)
  BY <1>1 DEF Streams
<1>4. cl.sid = NoSession => cl.last = 0
  BY <1>1 DEF Streams
<1>5. CASE cl.sup \notin {"backoff", "handshake"}
  <2>1. cl.sid # NoSession /\ conn[c].sess = cl.sid
    BY <1>1, <1>2, <1>5 DEF Supervised
  <2> QED BY <1>3, <2>1
<1>6. CASE cl.sup = "handshake"
  <2>1. conn[c].sess = cl.sid \/ cl.sid = NoSession
    BY <1>1, <1>2, <1>6 DEF Handshake, Shaken, Offered
  <2>2. CASE conn[c].sess = cl.sid
    BY <1>3, <2>2
  <2>3. CASE cl.sid = NoSession
    <3>1. Len(sess[conn[c].sess].stamped) \in Nat
      BY <1>2
    <3> QED BY <1>4, <2>3, <3>1
  <2> QED BY <2>1, <2>2, <2>3
<1>7. CASE cl.sup = "backoff"
  BY <1>1, <1>2, <1>7 DEF Supervised
<1> QED BY <1>5, <1>6, <1>7

LEMMA PublishStreams ==
  ASSUME IInv, NEW s \in Sessions, Publish(s)
  PROVE  Streams'
<1> DEFINE m == cl.seq
           v == pushes + 1
           a == sess[s]
           b == Deliver(a, v)
           p == [seq |-> a.nextSeq + 1, v |-> v]
           f == PushFrame(p)
           d == a.sink
<1>1. /\ a.live /\ a.subs /\ ~ a.expired /\ cl' = cl /\ sess' = [sess EXCEPT ![s] = b]
      /\ conn' = IF d = NoConn THEN conn ELSE [conn EXCEPT ![d] = Enqueue(conn[d], f)]
  BY DEF Publish
<1>2. Typed /\ Buffers /\ Owned /\ Streams
  BY DEF IInv
<1>3. /\ m \in Nat /\ v \in Nat /\ a \in SessionT(m) /\ a.nextSeq \in Nat /\ BufferOk(a)
      /\ d \in Conns \cup {NoConn} /\ a.stamped \in Seq(Nat) /\ a.nextSeq = Len(a.stamped)
  <2>1. m \in Nat /\ v \in Nat /\ a \in SessionT(m) /\ a.nextSeq \in Nat /\ a.stamped \in Seq(Nat)
        /\ d \in Conns \cup {NoConn}
    BY <1>2, Parts DEF Typed
  <2>2. BufferOk(a)
    BY <1>2 DEF Buffers
  <2>3. a.nextSeq = Len(a.stamped)
    BY <1>1, <2>2 DEF BufferOk
  <2> QED BY <2>1, <2>2, <2>3
<1>4. f \in FrameT(m) /\ f.kind = "push" /\ f.ps = Len(a.stamped) + 1 /\ f.v = v
  <2> DEFINE n == a.nextSeq + 1
  <2>1. m \in Nat /\ n \in Nat /\ v \in Nat /\ p.seq = n /\ p.v = v
    BY <1>3
  <2>2. n = Len(a.stamped) + 1
    BY <1>3
  <2> HIDE DEF p, v, m, n
  <2>3. PushFrame(p) \in FrameT(m) /\ PushFrame(p).kind = "push" /\ PushFrame(p).ps = n
        /\ PushFrame(p).v = v
    BY ONLY <2>1, PushFrameIs
  <2> QED BY <2>2, <2>3
<1> HIDE DEF f, p
<1>5. b.stamped = Append(a.stamped, v)
  <2> HIDE DEF v, m, a
  <2> QED BY <1>1, <1>3, DeliverIs
<1> HIDE DEF b, v
<1>6. /\ sess'[s].stamped = Append(a.stamped, v)
      /\ \A t \in Sessions : t # s => sess'[t] = sess[t]
  BY <1>1, <1>2, <1>5 DEF Typed
<1>7. ASSUME NEW c \in Conns
      PROVE  conn'[c] = IF c = d THEN Enqueue(conn[c], f) ELSE conn[c]
  <2>1. conn \in [Conns -> ConnT(m)] /\ c # NoConn
    BY <1>2, Parts DEF Typed
  <2> HIDE DEF d
  <2> QED BY <1>1, <2>1
<1>8. cl.last \in Nat /\ cl.sid \in SessIds /\ cl.conn \in Conns \cup {NoConn}
      /\ \A t \in SessIds : t # NoSession => t \in Sessions
  BY <1>2, Parts DEF SessIds, Sessions, NoSession
<1>9. ASSUME NEW c \in Conns, c = cl.conn PROVE Flows(c)'
  <2> DEFINE cn == conn[c]
             e == conn'[c]
             st == StreamOfConn(cn)
             lo == cl.last
             w == Way(cn)
  <2>1. /\ cn \in ConnT(m) /\ Len(cn.q) <= QCap /\ ConnOk(cn) /\ cn.sess \in SessIds /\ c # NoConn
        /\ w \in Seq(FrameT(m)) /\ Pre(cn.net, w) /\ cn.net \in Seq(FrameT(m))
    BY <1>2, Parts, WayIs DEF Owned
  <2>2. Run(w, lo, st) /\ (cn.up /\ cn.sess # NoSession => Full(w, lo, Len(st)))
    BY <1>2, <1>9, <2>1 DEF Streams, Flows
  <2>3. CASE cn.sess # s
    <3>1. e = cn
      BY <1>2, <1>7, <2>1, <2>3 DEF Owned, SinkOk
    <3>2. StreamOfConn(conn[c])' = st
      BY <1>6, <1>8, <2>1, <2>3, <3>1 DEF StreamOfConn
    <3> QED BY <1>1, <2>2, <3>1, <3>2 DEF Flows
  <2>4. CASE cn.sess = s
    <3>1. s # NoSession /\ st = a.stamped /\ lo <= Len(a.stamped)
      BY <1>2, <1>9, <2>4, LastFits, Parts DEF StreamOfConn
    <3>2. (cn.qclosed => ~ cn.up) /\ (cn.up => d = c)
      BY <1>2, <2>1, <2>4, <3>1 DEF ConnOk, Owned
    <3>3. e.sess = cn.sess /\ (e.up => cn.up) /\ (e.up => Way(e) = Append(w, f)) /\ (~ e.up => Way(e) = cn.net)
      <4>1. CASE c = d
        <5>1. e = Enqueue(cn, f)
          BY <1>7, <4>1
        <5> HIDE DEF cn, e, m
        <5>2. Stays(cn, Enqueue(cn, f))
              /\ (Enqueue(cn, f).up => Way(Enqueue(cn, f)) = Append(Way(cn), f))
          BY <1>4, <2>1, <3>2, EnqueueIs
        <5> QED BY <5>1, <5>2 DEF Stays, Way
      <4>2. CASE c # d
        <5>1. e = cn /\ ~ cn.up
          BY <1>7, <3>2, <4>2
        <5> QED BY <5>1 DEF Way
      <4> QED BY <4>1, <4>2
    <3> DEFINE tt == Append(a.stamped, v)
    <3>4. StreamOfConn(conn[c])' = tt
      BY <1>6, <2>4, <3>1, <3>3 DEF StreamOfConn
    <3>5. Run(Way(e), lo, tt) /\ (e.up => Full(Way(e), lo, Len(tt)))
      <4> DEFINE ss == a.stamped
      <4>1. ss \in Seq(Nat) /\ v \in Nat /\ lo \in Nat /\ lo <= Len(ss)
        BY <1>3, <1>8, <3>1
      <4>2. Run(w, lo, ss) /\ (cn.up => Full(w, lo, Len(ss)))
        BY <2>2, <2>4, <3>1
      <4>3. f.ps = Len(ss) + 1
        BY <1>4
      <4> HIDE DEF ss, lo, w, e, cn
      <4>4. CASE e.up
        <5>1. /\ Run(Append(w, f), lo, Append(ss, v))
              /\ Full(Append(w, f), lo, Len(Append(ss, v)))
          BY <1>4, <2>1, <3>3, <4>1, <4>2, <4>3, <4>4, RunPush
        <5> QED BY <3>3, <4>4, <5>1 DEF ss
      <4>5. CASE ~ e.up
        <5>1. Run(w, lo, Append(ss, v))
          BY <2>1, <4>1, <4>2, RunGrows
        <5>2. Run(cn.net, lo, Append(ss, v))
          <6> DEFINE nn == cn.net
          <6>1. nn \in Seq(FrameT(m)) /\ Pre(nn, w)
            BY <2>1
          <6> HIDE DEF nn
          <6>2. Run(nn, lo, Append(ss, v))
            BY <2>1, <5>1, <6>1, RunPrefix
          <6> QED BY <6>2 DEF nn
        <5> QED BY <3>3, <4>5, <5>2 DEF ss
      <4> QED BY <4>4, <4>5
    <3> HIDE DEF tt
    <3> QED BY <1>1, <3>4, <3>5 DEF Flows
  <2> QED BY <2>3, <2>4
<1>10. cl.conn # NoConn => Flows(cl.conn)'
  <2> SUFFICES ASSUME cl.conn # NoConn PROVE Flows(cl.conn)'
    OBVIOUS
  <2>1. PICK c \in Conns : c = cl.conn
    BY <1>8
  <2>2. Flows(c)' /\ c = cl'.conn
    BY <1>1, <1>9, <2>1
  <2> QED BY <2>2 DEF Flows
<1>11. IF cl.sid = NoSession THEN cl.last = 0 ELSE cl.last <= Len(sess'[cl.sid].stamped)
  <2>1. CASE cl.sid = s
    <3>1. Len(Append(a.stamped, v)) = Len(a.stamped) + 1 /\ Len(a.stamped) \in Nat
      BY <1>3
    <3>2. cl.last <= Len(a.stamped) /\ s # NoSession
      BY <1>2, <2>1, Parts DEF Streams
    <3> QED BY <1>6, <1>8, <2>1, <3>1, <3>2
  <2>2. CASE cl.sid # s
    BY <1>2, <1>6, <1>8, <2>2 DEF Streams
  <2> QED BY <2>1, <2>2
<1> QED BY <1>1, <1>2, <1>10, <1>11 DEF Streams

\* A quiet step preserves the invariant.
LEMMA QuietInv ==
  ASSUME IInv, Typed', Buffers', Quiet, Streams'
  PROVE  IInv'
BY QuietOwned, QuietClient, QuietSubscribing DEF IInv

LEMMA SilentInv ==
  ASSUME IInv, Typed', Buffers', Quiet, Silent
  PROVE  IInv'
BY QuietStreams, QuietInv

-----------------------------------------------------------------------------
(* The client's steps that neither send nor receive.                       *)

LEMMA SameServer ==
  ASSUME Buffers, Owned, Hellos, sess' = sess, conn' = conn
  PROVE  /\ Buffers' /\ Owned' /\ Hellos'
         /\ \A s : (Young(s) => Young(s)') /\ (NeverSub(s) => NeverSub(s)')
<1>1. Buffers'
  BY DEF Buffers
<1>2. Owned'
  BY DEF Owned, SinkOk
<1>3. Hellos'
  BY DEF Hellos
<1>4. \A s : (Young(s) => Young(s)') /\ (NeverSub(s) => NeverSub(s)')
  BY DEF Young, NeverSub
<1> QED BY <1>1, <1>2, <1>3, <1>4

LEMMA TypedClient ==
  ASSUME Typed, cl' \in ClientT(cl.seq), cl'.seq = cl.seq, cl'.hseq = cl.hseq, pushes' = pushes,
         sess' = sess, conn' = conn
  PROVE  Typed'
BY DEF Typed

LEMMA DeadInv ==
  ASSUME IInv, NEW c \in Conns, Dead(c)
  PROVE  IInv'
<1>1. /\ Typed /\ Buffers /\ Owned /\ Hellos /\ Supervised /\ Handshake /\ Subscribing /\ Streams
  BY DEF IInv
<1>2. /\ cl' = [cl EXCEPT !.conn = NoConn, !.ready = FALSE, !.supervising = TRUE,
                          !.sup = IF cl.supervising THEN cl.sup ELSE "backoff"]
      /\ sess' = sess /\ conn' = conn /\ pushes' = pushes
  BY <1>1 DEF Dead, Typed, ClientT
<1>3. cl \in ClientT(cl.seq)
  BY <1>1 DEF Typed
<1>4. /\ cl'.conn = NoConn /\ ~ cl'.ready /\ cl'.supervising
      /\ cl'.sup = IF cl.supervising THEN cl.sup ELSE "backoff"
      /\ cl'.sid = cl.sid /\ cl'.last = cl.last /\ cl'.seq = cl.seq /\ cl'.hseq = cl.hseq
      /\ cl'.pending = cl.pending /\ cl'.hres = cl.hres /\ cl'.got = cl.got
  BY <1>2, <1>3 DEF ClientT
<1>5. Typed'
  <2>1. cl' \in ClientT(cl.seq)
    BY <1>2, <1>3 DEF ClientT
  <2> QED BY <1>1, <1>2, <1>4, <2>1, TypedClient
<1>6. /\ Buffers' /\ Owned' /\ Hellos'
      /\ \A s : (Young(s) => Young(s)') /\ (NeverSub(s) => NeverSub(s)')
  BY <1>1, <1>2, SameServer
<1>7. (cl.sup # "none") = cl.supervising
  BY <1>1 DEF Supervised
<1>8. Supervised'
  <2>1. cl.sid # NoSession => sess'[cl.sid].live
    BY <1>1, <1>2 DEF Supervised
  <2>2. cl'.sup # "none"
    BY <1>4, <1>7
  <2>3. cl'.sup \notin {"backoff", "handshake"} => cl.sid # NoSession
    BY <1>1, <1>4, <1>7 DEF Supervised
  <2> QED BY <1>4, <2>1, <2>2, <2>3 DEF Supervised
<1>9. Handshake'
  <2>1. cl'.sup = "handshake" => cl.sup = "handshake"
    BY <1>4
  <2>2. cl.sup = "handshake" /\ cl.hres.kind = "ok" =>
          cl.hres.sess # NoSession /\ Offered(cl.hres.sess)'
    <3> SUFFICES ASSUME cl.sup = "handshake", cl.hres.kind = "ok"
                 PROVE  cl.hres.sess # NoSession /\ Offered(cl.hres.sess)'
      OBVIOUS
    <3>1. PICK s : s = cl.hres.sess
      OBVIOUS
    <3>2. s # NoSession /\ Offered(s)
      BY <1>1, <3>1 DEF Handshake
    <3>3. s = cl'.sid \/ (cl'.sid = NoSession /\ NeverSub(s)' /\ Young(s)')
      BY <1>4, <1>6, <3>2 DEF Offered
    <3>4. cl'.hres.sess = s
      BY <1>4, <3>1
    <3> QED BY <3>1, <3>2, <3>3, <3>4 DEF Offered, NeverSub, Young
  <2> QED BY <1>4, <2>1, <2>2 DEF Handshake
<1>10. Subscribing'
  <2>1. cl'.sup \in {"resubscribe", "waiting"} => Young(cl.sid)'
    <3> SUFFICES ASSUME cl'.sup \in {"resubscribe", "waiting"} PROVE Young(cl.sid)'
      OBVIOUS
    <3>1. PICK s : s = cl.sid
      OBVIOUS
    <3>2. Young(s)
      BY <1>1, <1>4, <3>1 DEF Subscribing
    <3>3. Young(s)' /\ cl'.sid = s
      BY <1>4, <1>6, <3>1, <3>2
    <3> QED BY <3>3 DEF Young
  <2>2. ASSUME NEW d \in Conns, conn[d].st \in {"read", "resumed"}, HasFrame(conn[d].in, "subscribe")
        PROVE  /\ cl'.sup = "waiting" /\ conn[d].sess = cl.sid /\ sess[cl.sid].sink = d
               /\ cl.hseq \in cl.pending
               /\ OneCall(conn[d].in)
               /\ \A i \in 1..Len(Way(conn[d])) :
                    Way(conn[d])[i].kind # "push" => Way(conn[d])[i].seq # cl.hseq
    <3>1. /\ cl.sup = "waiting" /\ conn[d].sess = cl.sid /\ sess[cl.sid].sink = d
          /\ cl.hseq \in cl.pending
          /\ OneCall(conn[d].in)
          /\ \A i \in 1..Len(Way(conn[d])) :
               Way(conn[d])[i].kind # "push" => Way(conn[d])[i].seq # cl.hseq
      BY <1>1, <2>2 DEF Subscribing
    <3> QED BY <1>4, <1>7, <3>1
  <2>3. \A s \in Sessions : sess'[s].expired => ~ sess'[s].subs
    BY <1>1, <1>2 DEF Subscribing
  <2> QED BY <1>2, <1>4, <2>1, <2>2, <2>3 DEF Subscribing, OneCall
<1>11. Streams'
  BY <1>1, <1>2, <1>4 DEF Streams
<1> QED BY <1>5, <1>6, <1>8, <1>9, <1>10, <1>11 DEF IInv

LEMMA NoCall ==
  ASSUME Subscribing, cl.sup # "waiting", NEW c \in Conns, conn[c].st \in {"read", "resumed"}
  PROVE  ~ HasFrame(conn[c].in, "subscribe")
BY DEF Subscribing

LEMMA NegotiatedInv ==
  ASSUME IInv, Negotiated
  PROVE  IInv' /\ (cl'.sid # cl.sid => cl.sid = NoSession /\ sess[cl'.sid].stamped = <<>>)
<1> DEFINE s == cl.hres.sess
<1>1. /\ Typed /\ Buffers /\ Owned /\ Hellos /\ Supervised /\ Handshake /\ Subscribing /\ Streams
  BY DEF IInv
<1>2. /\ cl.sup = "handshake" /\ cl.hres.kind = "ok"
      /\ cl' = [cl EXCEPT !.sid = s, !.ready = TRUE,
                          !.sup = IF cl.sid = s THEN "up" ELSE "resubscribe"]
      /\ sess' = sess /\ conn' = conn /\ pushes' = pushes
  BY DEF Negotiated
<1>3. cl \in ClientT(cl.seq) /\ s \in SessIds /\ cl.sid \in SessIds /\ cl.conn \in Conns \cup {NoConn}
  BY <1>1, Parts DEF Typed, FrameT
<1>4. s # NoSession /\ (s = cl.sid \/ (cl.sid = NoSession /\ NeverSub(s) /\ Young(s)))
  BY <1>1, <1>2 DEF Handshake, Offered
<1> HIDE DEF s
<1>5. /\ cl'.conn = cl.conn /\ cl'.ready /\ cl'.supervising = cl.supervising
      /\ cl'.sup = (IF cl.sid = s THEN "up" ELSE "resubscribe")
      /\ cl'.sid = s /\ cl'.last = cl.last /\ cl'.seq = cl.seq /\ cl'.hseq = cl.hseq
      /\ cl'.got = cl.got
  BY <1>2, <1>3 DEF ClientT
<1>6. Typed'
  <2>1. cl' \in ClientT(cl.seq)
    BY <1>2, <1>3 DEF ClientT
  <2> QED BY <1>1, <1>2, <1>5, <2>1, TypedClient
<1>7. /\ Buffers' /\ Owned' /\ Hellos'
      /\ \A t : Young(t) => Young(t)'
  BY <1>1, <1>2, SameServer
<1>8. Supervised'
  <2>1. sess[s].live
    BY <1>1, <1>4 DEF Supervised, Young
  <2>2. cl.supervising /\ cl'.sup # "none" /\ cl'.sup \notin {"backoff", "handshake"}
    <3>1. (cl.sup # "none") = cl.supervising
      BY <1>1 DEF Supervised
    <3>2. cl.sup # "none" /\ cl'.sup \in {"up", "resubscribe"}
      BY <1>2, <1>5
    <3>3. cl'.sup # "none" /\ cl'.sup \notin {"backoff", "handshake"}
      BY <3>2
    <3> QED BY <3>1, <3>2, <3>3
  <2>3. cl.conn # NoConn => conn[cl.conn].st # "new" /\ conn[cl.conn].sess = s
    BY <1>1, <1>2 DEF Supervised, Handshake, Shaken, AnswerOk, s
  <2> QED BY <1>2, <1>4, <1>5, <2>1, <2>2, <2>3 DEF Supervised
<1>9. Handshake'
  BY <1>5 DEF Handshake
<1>10. Subscribing'
  <2>2. \A d \in Conns : conn[d].st \in {"read", "resumed"} => ~ HasFrame(conn[d].in, "subscribe")
    BY <1>1, <1>2, NoCall
  <2>3. cl'.sup \in {"resubscribe", "waiting"} => Young(cl.sid)'
    <3>1. PICK t : t = s
      OBVIOUS
    <3>2. cl'.sup \in {"resubscribe", "waiting"} => Young(t)'
      BY <1>4, <1>5, <1>7, <3>1
    <3>3. cl'.sid = t
      BY <1>5, <3>1
    <3> QED BY <3>2, <3>3 DEF Young
  <2>4. \A t \in Sessions : sess'[t].expired => ~ sess'[t].subs
    BY <1>1, <1>2 DEF Subscribing
  <2> QED BY <1>2, <2>2, <2>3, <2>4 DEF Subscribing
<1>11. Streams'
  <2>1. cl.last = Len(cl.got) /\ (cl.conn # NoConn => Flows(cl.conn)) /\ cl.last \in Nat
    BY <1>1, Parts DEF Streams
  <2>2. cl.last <= Len(sess[s].stamped)
    <3>1. CASE s = cl.sid
      BY <1>1, <1>4, <3>1 DEF Streams
    <3>2. CASE cl.sid = NoSession /\ NeverSub(s)
      <4>1. cl.last = 0 /\ sess[s].stamped = <<>>
        BY <1>1, <3>2 DEF Streams, NeverSub
      <4> QED BY <4>1
    <3> QED BY <1>4, <3>1, <3>2
  <2>3. cl'.conn # NoConn => Flows(cl.conn)'
    BY <1>2, <1>5, <2>1 DEF Flows, StreamOfConn
  <2> QED BY <1>2, <1>4, <1>5, <2>1, <2>2, <2>3 DEF Streams
<1>12. cl'.sid # cl.sid => cl.sid = NoSession /\ sess[cl'.sid].stamped = <<>>
  BY <1>4, <1>5 DEF NeverSub
<1> QED BY <1>6, <1>7, <1>8, <1>9, <1>10, <1>11, <1>12 DEF IInv

LEMMA LostInv ==
  ASSUME IInv, Lost
  PROVE  IInv'
<1>1. /\ Typed /\ Buffers /\ Owned /\ Hellos /\ Supervised /\ Handshake /\ Subscribing /\ Streams
  BY DEF IInv
<1>2. /\ cl.sup = "handshake" /\ cl.conn = NoConn /\ cl' = [cl EXCEPT !.sup = "backoff"]
      /\ sess' = sess /\ conn' = conn /\ pushes' = pushes
  BY DEF Lost
<1>3. cl \in ClientT(cl.seq)
  BY <1>1 DEF Typed
<1>4. /\ cl'.conn = NoConn /\ cl'.ready = cl.ready /\ cl'.supervising = cl.supervising
      /\ cl'.sup = "backoff" /\ cl'.sid = cl.sid /\ cl'.last = cl.last /\ cl'.seq = cl.seq
      /\ cl'.hseq = cl.hseq /\ cl'.got = cl.got
  BY <1>2, <1>3 DEF ClientT
<1>5. Typed'
  <2>1. cl' \in ClientT(cl.seq)
    BY <1>2, <1>3 DEF ClientT
  <2> QED BY <1>1, <1>2, <1>4, <2>1, TypedClient
<1>6. Buffers' /\ Owned' /\ Hellos'
  BY <1>1, <1>2, SameServer
<1>7. Supervised'
  BY <1>1, <1>2, <1>4 DEF Supervised
<1>8. Handshake'
  BY <1>4 DEF Handshake
<1>9. Subscribing'
  <2>1. \A d \in Conns : conn[d].st \in {"read", "resumed"} => ~ HasFrame(conn[d].in, "subscribe")
    BY <1>1, <1>2, NoCall
  <2>2. \A t \in Sessions : sess'[t].expired => ~ sess'[t].subs
    BY <1>1, <1>2 DEF Subscribing
  <2> QED BY <1>2, <1>4, <2>1, <2>2 DEF Subscribing
<1>10. Streams'
  BY <1>1, <1>2, <1>4 DEF Streams
<1> QED BY <1>5, <1>6, <1>7, <1>8, <1>9, <1>10 DEF IInv

\* The supervisor is done, or goes on without a call.
LEMMA DoneInv ==
  ASSUME IInv, \/ Resubscribed \/ SuperviseEnds \/ (Resubscribe /\ cl.conn = NoConn)
  PROVE  IInv'
<1>1. /\ Typed /\ Buffers /\ Owned /\ Hellos /\ Supervised /\ Handshake /\ Subscribing /\ Streams
  BY DEF IInv
<1>2. /\ sess' = sess /\ conn' = conn /\ pushes' = pushes
      /\ \/ cl.sup = "waiting" /\ cl.hseq \notin cl.pending /\ cl' = [cl EXCEPT !.sup = "up"]
         \/ cl.sup = "resubscribe" /\ cl' = [cl EXCEPT !.sup = "up"]
         \/ cl.sup = "up" /\ cl' = [cl EXCEPT !.sup = "none", !.supervising = FALSE]
  BY DEF Resubscribed, SuperviseEnds, Resubscribe
<1>3. cl \in ClientT(cl.seq)
  BY <1>1 DEF Typed
<1>4. /\ cl'.conn = cl.conn /\ cl'.ready = cl.ready /\ cl'.sid = cl.sid /\ cl'.last = cl.last
      /\ cl'.seq = cl.seq /\ cl'.hseq = cl.hseq /\ cl'.got = cl.got
  BY <1>2, <1>3 DEF ClientT
<1>5. /\ cl.sup \in {"waiting", "resubscribe", "up"} /\ cl'.sup \in {"up", "none"}
      /\ (cl'.sup = "up" => cl'.supervising = cl.supervising)
      /\ (cl'.sup = "none" => cl'.supervising = FALSE)
  BY <1>2, <1>3 DEF ClientT
<1>6. Typed'
  <2>1. cl' \in ClientT(cl.seq)
    BY <1>2, <1>3, ZenonT(30) DEF ClientT
  <2> QED BY <1>1, <1>2, <1>4, <2>1, TypedClient
<1>7. Buffers' /\ Owned' /\ Hellos'
  BY <1>1, <1>2, SameServer
<1>8. Supervised'
  <2>1. (cl'.sup # "none") = cl'.supervising
    <3>1. (cl.sup # "none") = cl.supervising /\ cl.sup # "none"
      BY <1>1, <1>5 DEF Supervised
    <3>2. CASE cl'.sup = "up"
      BY <1>5, <3>1, <3>2
    <3>3. CASE cl'.sup = "none"
      BY <1>5, <3>3
    <3> QED BY <1>5, <3>2, <3>3
  <2>2. cl.sid # NoSession /\ (cl.conn # NoConn => conn[cl.conn].sess = cl.sid)
    BY <1>1, <1>5 DEF Supervised
  <2>3. cl'.sup \notin {"backoff", "handshake"}
    BY <1>5
  <2>4. (cl.sid # NoSession => sess[cl.sid].live) /\ (cl.conn # NoConn => conn[cl.conn].st # "new")
    BY <1>1 DEF Supervised
  <2> QED BY <1>2, <1>4, <2>1, <2>2, <2>3, <2>4 DEF Supervised
<1>9. Handshake'
  <2>1. cl'.sup # "handshake"
    BY <1>5
  <2> QED BY <2>1 DEF Handshake
<1>10. Subscribing'
  <2>1. \A d \in Conns : conn[d].st \in {"read", "resumed"} => ~ HasFrame(conn[d].in, "subscribe")
    BY <1>1, <1>2 DEF Subscribing
  <2>2. \A t \in Sessions : sess'[t].expired => ~ sess'[t].subs
    BY <1>1, <1>2 DEF Subscribing
  <2>3. cl'.sup \notin {"resubscribe", "waiting"}
    BY <1>5
  <2> QED BY <1>2, <1>4, <2>1, <2>2, <2>3 DEF Subscribing
<1>11. Streams'
  BY <1>1, <1>2, <1>4 DEF Streams, Flows, StreamOfConn
<1> QED BY <1>6, <1>7, <1>8, <1>9, <1>10, <1>11 DEF IInv

-----------------------------------------------------------------------------
(* The client's calls.                                                     *)

\* One connection takes a step, and sessions keep their place.
SameHold(a, b) ==
  b.live = a.live /\ b.sink = a.sink /\ b.timer = a.timer /\ b.expired = a.expired

LEMMA OneConn ==
  ASSUME IInv, NEW c \in Conns, \A d \in Conns : d # c => conn'[d] = conn[d],
         conn[c].st # "new", conn'[c].st # "new",
         conn'[c].st \in {"gone", "resumed"} => conn[c].st = conn'[c].st,
         conn'[c].sess = conn[c].sess, conn'[c].up => conn[c].up, conn'[c].drop = conn[c].drop,
         conn'[c].qclosed \/ conn'[c].st \in {"teardown", "drained", "gone"} => ~ conn'[c].up,
         \A s \in Sessions : SameHold(sess[s], sess'[s])
  PROVE  Owned'
<1>1. Typed /\ Owned
  BY DEF IInv
<1>2. \A d \in Conns : conn[d].sess \in SessIds /\ (conn[d].sess # NoSession => conn[d].sess \in Sessions)
  BY <1>1, Parts
<1>3. ASSUME NEW d \in Conns
      PROVE  /\ ConnOk(conn'[d]) /\ conn'[d].sess = conn[d].sess /\ (conn'[d].up => conn[d].up)
             /\ (conn[d].st # "new" => conn'[d].st # "new")
             /\ (conn[d].st # "gone" => conn'[d].st # "gone")
  <2>1. ConnOk(conn[d])
    BY <1>1 DEF Owned
  <2>2. CASE d = c
    BY <2>1, <2>2 DEF ConnOk
  <2>3. CASE d # c
    BY <2>1, <2>3
  <2> QED BY <2>2, <2>3
<1>4. ASSUME NEW d \in Conns, conn'[d].sess # NoSession
      PROVE  sess'[conn'[d].sess].live /\ (conn'[d].up => sess'[conn'[d].sess].sink = d)
  <2>1. conn'[d].sess = conn[d].sess /\ conn[d].sess \in Sessions /\ (conn'[d].up => conn[d].up)
    BY <1>2, <1>3, <1>4
  <2>2. sess[conn[d].sess].live /\ (conn[d].up => sess[conn[d].sess].sink = d)
    BY <1>1, <1>4, <2>1 DEF Owned
  <2> QED BY <2>1, <2>2 DEF SameHold
<1>5. ASSUME NEW s \in Sessions PROVE SinkOk(s)'
  <2>1. SinkOk(s) /\ SameHold(sess[s], sess'[s]) /\ sess[s].sink \in Conns \cup {NoConn}
    BY <1>1, Parts DEF Owned
  <2> QED BY <1>3, <2>1 DEF SinkOk, SameHold
<1> QED BY <1>3, <1>4, <1>5 DEF Owned

LEMMA SentIs ==
  ASSUME IInv, NEW c \in Conns, NEW n \in Nat, cl.seq <= n, NEW f \in FrameT(n), Sent(c, f)
  PROVE  /\ conn' \in [Conns -> ConnT(n)] /\ \A d \in Conns : Len(conn'[d].q) <= QCap
         /\ \A d \in Conns : d # c => conn'[d] = conn[d]
         /\ conn'[c].in = IF conn[c].up THEN Append(conn[c].in, f) ELSE conn[c].in
         /\ conn'[c].st = conn[c].st /\ conn'[c].sess = conn[c].sess /\ conn'[c].up = conn[c].up
         /\ conn'[c].drop = conn[c].drop /\ conn'[c].qclosed = conn[c].qclosed
         /\ Way(conn'[c]) = Way(conn[c])
<1> DEFINE cn == conn[c]
           i == IF cn.up THEN Append(cn.in, f) ELSE cn.in
           e == [cn EXCEPT !.in = i]
<1>1. Typed
  BY DEF IInv
<1>2. /\ conn \in [Conns -> ConnT(cl.seq)] /\ cl.seq \in Nat /\ ConnT(cl.seq) \subseteq ConnT(n)
      /\ \A d \in Conns : Len(conn[d].q) <= QCap
  <2>1. conn \in [Conns -> ConnT(cl.seq)] /\ cl.seq \in Nat /\ \A d \in Conns : Len(conn[d].q) <= QCap
    BY <1>1, Parts DEF Typed
  <2> QED BY <2>1, Wider
<1>3. conn' = [conn EXCEPT ![c] = e]
  BY <1>2 DEF Sent
<1>4. cn \in ConnT(n) /\ Len(cn.q) <= QCap
  BY <1>2
<1>5. i \in Seq(FrameT(n))
  <2>1. cn.in \in Seq(FrameT(n))
    BY <1>4 DEF ConnT
  <2> QED BY <2>1
<1> HIDE DEF i
<1>6. e \in ConnT(n)
  <2> HIDE DEF cn
  <2> QED BY <1>4, <1>5 DEF ConnT
<1>7. /\ e.in = i /\ e.st = cn.st /\ e.sess = cn.sess /\ e.up = cn.up /\ e.drop = cn.drop
      /\ e.qclosed = cn.qclosed /\ e.q = cn.q /\ e.net = cn.net
  <2> HIDE DEF cn
  <2> QED BY <1>4 DEF ConnT
<1> HIDE DEF e
<1>8. conn'[c] = e /\ \A d \in Conns : d # c => conn'[d] = conn[d]
  BY <1>2, <1>3
<1>9. conn' \in [Conns -> ConnT(n)]
  <2>1. conn \in [Conns -> ConnT(n)]
    BY <1>2
  <2> QED BY <1>3, <1>6, <2>1
<1>10. \A d \in Conns : Len(conn'[d].q) <= QCap
  BY <1>2, <1>4, <1>7, <1>8
<1>11. Way(e) = Way(cn)
  BY <1>7 DEF Way
<1> QED BY <1>7, <1>8, <1>9, <1>10, <1>11 DEF i

\* A call is made on the client's connection.
LEMMA CallKeeps ==
  ASSUME IInv, NEW c \in Conns, c = cl.conn, cl.sup \notin {"backoff", "handshake"},
         NEW n \in Nat, cl.seq <= n, NEW f \in FrameT(n), f.kind # "hello", Sent(c, f), sess' = sess,
         cl'.last = cl.last
  PROVE  /\ Buffers' /\ Owned' /\ Hellos' /\ Flows(c)'
         /\ \A s : Young(s) => Young(s)'
         /\ \A d \in Conns : \A i \in 1..Len(conn'[d].in) :
              conn'[d].in[i] \in FrameT(cl.seq) \/ (d = c /\ i = Len(conn'[d].in) /\ conn'[d].in[i] = f)
<1>1. /\ Typed /\ Buffers /\ Owned /\ Hellos /\ Supervised /\ Streams
  BY DEF IInv
<1>2. /\ \A d \in Conns : d # c => conn'[d] = conn[d]
      /\ conn'[c].in = IF conn[c].up THEN Append(conn[c].in, f) ELSE conn[c].in
      /\ conn'[c].st = conn[c].st /\ conn'[c].sess = conn[c].sess /\ conn'[c].up = conn[c].up
      /\ conn'[c].drop = conn[c].drop /\ conn'[c].qclosed = conn[c].qclosed
      /\ Way(conn'[c]) = Way(conn[c])
  BY SentIs
<1>3. c # NoConn /\ \A d \in Conns : conn[d].in \in Seq(FrameT(cl.seq))
  BY <1>1, Parts
<1>4. conn[c].st # "new" /\ conn[c].sess # NoSession
  BY <1>1, <1>3 DEF Supervised
<1>5. Buffers'
  BY <1>1 DEF Buffers
<1>6. Owned'
  <2>1. conn[c].qclosed \/ conn[c].st \in {"teardown", "drained", "gone"} => ~ conn[c].up
    BY <1>1 DEF Owned, ConnOk
  <2>2. \A s \in Sessions : SameHold(sess[s], sess'[s])
    BY DEF SameHold
  <2> QED BY <1>2, <1>4, <2>1, <2>2, OneConn
<1>7. /\ Len(conn'[c].in) \in Nat
      /\ \A i \in 1..Len(conn'[c].in) : \/ i \in 1..Len(conn[c].in) /\ conn'[c].in[i] = conn[c].in[i]
                                        \/ i = Len(conn'[c].in) /\ conn'[c].in[i] = f
  <2> DEFINE w == conn[c].in
             x == conn'[c].in
  <2>1. w \in Seq(FrameT(cl.seq)) /\ (x = Append(w, f) \/ x = w)
    BY <1>2, <1>3
  <2> HIDE DEF w, x
  <2>2. Len(w) \in Nat
    BY <2>1
  <2>5. /\ Len(x) \in Nat
        /\ \A i \in 1..Len(x) : (i \in 1..Len(w) /\ x[i] = w[i]) \/ (i = Len(x) /\ x[i] = f)
    <3>1. CASE x = w
      BY <2>2, <3>1
    <3>2. CASE x = Append(w, f)
      <4>1. Len(x) = Len(w) + 1 /\ x[Len(w) + 1] = f /\ \A i \in 1..Len(w) : x[i] = w[i]
        BY <2>1, <3>2
      <4> QED BY <2>2, <4>1
    <3> QED BY <2>1, <3>1, <3>2
  <2> QED BY <2>5 DEF w, x
<1>8. \A i \in 1..Len(conn'[c].in) : conn'[c].in[i].kind # "hello"
  BY <1>1, <1>4, <1>7 DEF Hellos
<1>9. Hellos'
  <2> SUFFICES ASSUME NEW d \in Conns, NEW i \in 1..Len(conn'[d].in), conn'[d].in[i].kind = "hello"
               PROVE  /\ Len(conn'[d].in) = 1 /\ conn'[d].st = "read" /\ conn'[d].sess = NoSession
                      /\ conn'[d].in[1].sess # NoSession => sess'[conn'[d].in[1].sess].live
    BY DEF Hellos
  <2>1. d # c
    BY <1>8
  <2>2. conn'[d] = conn[d]
    BY <1>2, <2>1
  <2> QED BY <1>1, <2>2 DEF Hellos
<1>10. ASSUME NEW s, Young(s) PROVE Young(s)'
  <2>1. sess'[s].live /\ (sess'[s].sink = NoConn \/ sess'[s].timer = "off")
    BY <1>10 DEF Young
  <2>2. \A d \in Conns : conn'[d].sess = s => conn'[d].st # "resumed"
    BY <1>2, <1>10 DEF Young
  <2>3. \A d \in Conns : \A i \in 1..Len(conn'[d].in) :
          conn'[d].in[i].kind = "hello" => conn'[d].in[i].sess # s
    <3> SUFFICES ASSUME NEW d \in Conns, NEW i \in 1..Len(conn'[d].in), conn'[d].in[i].kind = "hello"
                 PROVE  conn'[d].in[i].sess # s
      OBVIOUS
    <3>1. d # c
      BY <1>8
    <3>2. conn'[d] = conn[d]
      BY <1>2, <3>1
    <3> QED BY <1>10, <3>2 DEF Young
  <2> QED BY <2>1, <2>2, <2>3 DEF Young
<1>11. Flows(c)'
  <2>1. Flows(c)
    BY <1>1, <1>3 DEF Streams
  <2> QED BY <1>2, <2>1 DEF Flows, StreamOfConn
<1>12. ASSUME NEW d \in Conns, NEW i \in 1..Len(conn'[d].in)
       PROVE  conn'[d].in[i] \in FrameT(cl.seq) \/ (d = c /\ i = Len(conn'[d].in) /\ conn'[d].in[i] = f)
  <2>1. \A j \in 1..Len(conn[d].in) : conn[d].in[j] \in FrameT(cl.seq)
    <3> DEFINE w == conn[d].in
    <3>1. w \in Seq(FrameT(cl.seq))
      BY <1>3
    <3> HIDE DEF w
    <3>2. \A j \in 1..Len(w) : w[j] \in FrameT(cl.seq)
      BY <3>1
    <3> QED BY <3>2 DEF w
  <2> QED BY <1>2, <1>7, <1>12, <2>1, ZenonT(30)
<1> QED BY <1>5, <1>6, <1>9, <1>10, <1>11, <1>12

\* The parts of Typed and Supervised that a call changes.
LEMMA TypedCall ==
  ASSUME IInv, NEW n \in Nat, cl.seq <= n, sess' = sess, pushes' = pushes,
         conn' \in [Conns -> ConnT(n)], \A d \in Conns : Len(conn'[d].q) <= QCap,
         cl' \in ClientT(n), cl'.seq = n, cl'.hseq <= n
  PROVE  Typed'
<1>1. Typed
  BY DEF IInv
<1>2. sess' \in [Sessions -> SessionT(n)]
  <2>1. sess \in [Sessions -> SessionT(cl.seq)] /\ cl.seq \in Nat
    BY <1>1, Parts DEF Typed
  <2> QED BY <2>1, Wider
<1>3. pushes \in Nat
  BY <1>1 DEF Typed
<1> QED BY <1>2, <1>3 DEF Typed

LEMMA ExecInv ==
  ASSUME IInv, Exec
  PROVE  IInv'
<1> DEFINE n == cl.seq + 1
           f == F("command", n, 0)
<1>1. /\ Typed /\ Buffers /\ Owned /\ Hellos /\ Supervised /\ Handshake /\ Subscribing /\ Streams
  BY DEF IInv
<1>2. /\ cl.ready /\ cl.conn # NoConn /\ cl' = [cl EXCEPT !.seq = n, !.pending = cl.pending \cup {n}]
      /\ Sent(cl.conn, f) /\ sess' = sess /\ pushes' = pushes
  <2>1. cl \in ClientT(cl.seq)
    BY <1>1 DEF Typed
  <2> QED BY <2>1 DEF Exec, ClientT
<1>3. /\ cl \in ClientT(cl.seq) /\ cl.seq \in Nat /\ n \in Nat /\ cl.seq <= n /\ n \in 0..n
      /\ cl.hseq <= cl.seq /\ cl.hseq \in Nat
  BY <1>1, Parts DEF Typed
<1>4. PICK c \in Conns : c = cl.conn
  BY <1>1, <1>2, Parts
<1>5. f \in FrameT(n) /\ f.kind = "command" /\ f.seq = n
  <2> HIDE DEF n
  <2>1. F("command", n, 0) \in FrameT(n)
    BY <1>3, FIs DEF Kinds
  <2> QED BY <2>1 DEF F
<1> HIDE DEF f
<1>6. /\ cl'.conn = cl.conn /\ cl'.ready = cl.ready /\ cl'.sid = cl.sid /\ cl'.last = cl.last
      /\ cl'.seq = n /\ cl'.hseq = cl.hseq /\ cl'.got = cl.got /\ cl'.sup = cl.sup
      /\ cl'.supervising = cl.supervising /\ cl'.pending = cl.pending \cup {n}
  BY <1>2, <1>3 DEF ClientT
<1>7. cl' \in ClientT(n)
  <2>1. cl.hres \in FrameT(n)
    BY <1>3, Wider DEF ClientT
  <2>2. cl.pending \cup {n} \in SUBSET Nat
    BY <1>3 DEF ClientT
  <2> HIDE DEF n
  <2> QED BY <1>2, <1>3, <2>1, <2>2 DEF ClientT
<1> HIDE DEF n
<1>8. cl.sup \notin {"backoff", "handshake"}
  BY <1>1, <1>2 DEF Supervised
<1>9. /\ Buffers' /\ Owned' /\ Hellos' /\ Flows(c)'
      /\ \A s : Young(s) => Young(s)'
      /\ \A d \in Conns : \A i \in 1..Len(conn'[d].in) :
           conn'[d].in[i] \in FrameT(cl.seq) \/ (d = c /\ i = Len(conn'[d].in) /\ conn'[d].in[i] = f)
  BY <1>2, <1>3, <1>4, <1>5, <1>6, <1>8, CallKeeps
<1>10. /\ conn' \in [Conns -> ConnT(n)] /\ \A d \in Conns : Len(conn'[d].q) <= QCap
       /\ \A d \in Conns : d # c => conn'[d] = conn[d]
       /\ conn'[c].in = IF conn[c].up THEN Append(conn[c].in, f) ELSE conn[c].in
       /\ conn'[c].st = conn[c].st /\ conn'[c].sess = conn[c].sess
       /\ Way(conn'[c]) = Way(conn[c])
  BY <1>2, <1>3, <1>4, <1>5, SentIs
<1>11. Typed'
  <2>1. cl'.hseq <= n
    BY <1>3, <1>6
  <2> QED BY <1>2, <1>3, <1>6, <1>7, <1>10, <2>1, TypedCall
<1>12. Supervised'
  BY <1>1, <1>2, <1>4, <1>6, <1>10 DEF Supervised
<1>13. Handshake'
  BY <1>6, <1>8 DEF Handshake
<1>14. Subscribing'
  <2>1. cl'.sup \in {"resubscribe", "waiting"} => Young(cl.sid)'
    <3> SUFFICES ASSUME cl'.sup \in {"resubscribe", "waiting"} PROVE Young(cl.sid)'
      OBVIOUS
    <3>1. PICK s : s = cl.sid
      OBVIOUS
    <3>2. Young(s)' /\ cl'.sid = s
      BY <1>1, <1>6, <1>9, <3>1 DEF Subscribing
    <3> QED BY <3>2 DEF Young
  <2>2. ASSUME NEW d \in Conns, conn'[d].st \in {"read", "resumed"}, HasFrame(conn'[d].in, "subscribe")
        PROVE  /\ conn[d].st = conn'[d].st /\ conn[d].sess = conn'[d].sess
               /\ Way(conn'[d]) = Way(conn[d])
               /\ HasFrame(conn[d].in, "subscribe") /\ (OneCall(conn[d].in) => OneCall(conn[d].in)')
    <3>1. CASE d # c
      BY <1>6, <1>10, <2>2, <3>1 DEF OneCall
    <3>2. CASE d = c
      <4> DEFINE w == conn[c].in
                 x == conn'[c].in
      <4>1. w \in Seq(FrameT(cl.seq)) /\ (x = w \/ x = Append(w, f))
        BY <1>1, <1>10, Parts
      <4> HIDE DEF w, x
      <4>2. Len(w) \in Nat
        BY <4>1
      <4>3. CASE x = w
        BY <1>6, <1>10, <2>2, <3>2, <4>3 DEF OneCall, w, x
      <4>4. CASE x = Append(w, f)
        <5>1. Len(x) = Len(w) + 1 /\ x[Len(w) + 1] = f /\ \A i \in 1..Len(w) : x[i] = w[i]
          BY <4>1, <4>4
        <5>2. HasFrame(w, "subscribe")
          <6>1. PICK i \in 1..Len(x) : x[i].kind = "subscribe"
            BY <2>2, <3>2 DEF HasFrame, x
          <6>2. i # Len(w) + 1
            BY <1>5, <5>1, <6>1
          <6>3. i \in 1..Len(w)
            BY <4>2, <5>1, <6>1, <6>2
          <6> QED BY <5>1, <6>1, <6>3 DEF HasFrame
        <5>3. ASSUME \A i, j \in 1..Len(w) : w[i].seq = cl.hseq /\ i < j => w[j].kind # "subscribe"
              PROVE  \A i, j \in 1..Len(x) : x[i].seq = cl.hseq /\ i < j => x[j].kind # "subscribe"
          BY <1>5, <4>2, <5>1, <5>3
        <5>4. OneCall(conn[c].in) => OneCall(conn[c].in)'
          BY <1>6, <5>3 DEF OneCall, w, x
        <5> HIDE DEF OneCall
        <5> QED BY <1>10, <3>2, <5>2, <5>4 DEF w
      <4> QED BY <4>1, <4>3, <4>4
    <3> QED BY <3>1, <3>2
  <2>3. \A s \in Sessions : sess'[s].expired => ~ sess'[s].subs
    BY <1>1, <1>2 DEF Subscribing
  <2>4. ASSUME NEW d \in Conns, conn'[d].st \in {"read", "resumed"}, HasFrame(conn'[d].in, "subscribe")
        PROVE  /\ cl'.sup = "waiting" /\ conn'[d].sess = cl'.sid /\ sess'[cl.sid].sink = d
               /\ cl'.hseq \in cl'.pending /\ cl'.conn \in {d, NoConn} /\ OneCall(conn[d].in)'
               /\ \A i \in 1..Len(Way(conn'[d])) :
                    Way(conn'[d])[i].kind # "push" => Way(conn'[d])[i].seq # cl'.hseq
    BY <1>1, <1>2, <1>6, <2>2, <2>4 DEF Subscribing
  <2> QED BY <1>6, <2>1, <2>3, <2>4 DEF Subscribing
<1>15. Streams'
  <2>1. cl'.conn # NoConn => Flows(cl.conn)'
    BY <1>4, <1>6, <1>9 DEF Flows
  <2> QED BY <1>1, <1>2, <1>6, <2>1 DEF Streams
<1> QED BY <1>9, <1>11, <1>12, <1>13, <1>14, <1>15 DEF IInv

\* SUBSCRIBE goes out on the connection of the new session.
LEMMA ResubscribeInv ==
  ASSUME IInv, Resubscribe, cl.conn # NoConn
  PROVE  IInv'
<1> DEFINE n == cl.seq + 1
           f == F("subscribe", n, 0)
<1>1. /\ Typed /\ Buffers /\ Owned /\ Hellos /\ Supervised /\ Handshake /\ Subscribing /\ Streams
  BY DEF IInv
<1>2. /\ cl.sup = "resubscribe" /\ cl.ready
      /\ cl' = [cl EXCEPT !.sup = "waiting", !.seq = n, !.hseq = n, !.pending = cl.pending \cup {n}]
      /\ Sent(cl.conn, f) /\ sess' = sess /\ pushes' = pushes
  <2>1. cl \in ClientT(cl.seq)
    BY <1>1 DEF Typed
  <2> QED BY <2>1 DEF Resubscribe, ClientT
<1>3. /\ cl \in ClientT(cl.seq) /\ cl.seq \in Nat /\ n \in Nat /\ cl.seq <= n /\ n \in 0..n
      /\ ~ n \in 0..cl.seq
  BY <1>1, Parts DEF Typed
<1>4. PICK c \in Conns : c = cl.conn
  BY <1>1, Parts
<1>5. f \in FrameT(n) /\ f.kind = "subscribe" /\ f.seq = n
  <2> HIDE DEF n
  <2>1. F("subscribe", n, 0) \in FrameT(n)
    BY <1>3, FIs DEF Kinds
  <2> QED BY <2>1 DEF F
<1> HIDE DEF f
<1>6. /\ cl'.conn = cl.conn /\ cl'.ready = cl.ready /\ cl'.sid = cl.sid /\ cl'.last = cl.last
      /\ cl'.seq = n /\ cl'.hseq = n /\ cl'.got = cl.got /\ cl'.sup = "waiting"
      /\ cl'.supervising = cl.supervising /\ cl'.pending = cl.pending \cup {n}
  BY <1>2, <1>3 DEF ClientT
<1>7. cl' \in ClientT(n)
  <2>1. cl.hres \in FrameT(n)
    BY <1>3, Wider DEF ClientT
  <2>2. cl.pending \cup {n} \in SUBSET Nat
    BY <1>3 DEF ClientT
  <2> HIDE DEF n
  <2> QED BY <1>2, <1>3, <2>1, <2>2 DEF ClientT
<1> HIDE DEF n
<1>8. /\ Buffers' /\ Owned' /\ Hellos' /\ Flows(c)'
      /\ \A s : Young(s) => Young(s)'
      /\ \A d \in Conns : \A i \in 1..Len(conn'[d].in) :
           conn'[d].in[i] \in FrameT(cl.seq) \/ (d = c /\ i = Len(conn'[d].in) /\ conn'[d].in[i] = f)
  <2>1. cl.sup \notin {"backoff", "handshake"}
    BY <1>2
  <2> QED BY <1>2, <1>3, <1>4, <1>5, <1>6, <2>1, CallKeeps
<1>9. /\ conn' \in [Conns -> ConnT(n)] /\ \A d \in Conns : Len(conn'[d].q) <= QCap
      /\ \A d \in Conns : d # c => conn'[d] = conn[d]
      /\ conn'[c].in = IF conn[c].up THEN Append(conn[c].in, f) ELSE conn[c].in
      /\ conn'[c].st = conn[c].st /\ conn'[c].sess = conn[c].sess
      /\ Way(conn'[c]) = Way(conn[c])
  BY <1>2, <1>3, <1>4, <1>5, SentIs
<1>10. Typed'
  <2>1. cl'.hseq <= n
    BY <1>3, <1>6
  <2> QED BY <1>2, <1>3, <1>6, <1>7, <1>9, <2>1, TypedCall
<1>11. Supervised'
  <2>1. (cl.sup # "none") = cl.supervising /\ cl.sup # "none"
    BY <1>1, <1>2 DEF Supervised
  <2>2. (cl'.sup # "none") = cl'.supervising
    BY <1>6, <2>1
  <2>3. /\ cl.sid # NoSession /\ sess[cl.sid].live /\ conn[c].sess = cl.sid
        /\ conn[c].st # "new"
    BY <1>1, <1>2, <1>4 DEF Supervised
  <2> QED BY <1>2, <1>4, <1>6, <1>9, <2>2, <2>3 DEF Supervised
<1>12. Handshake'
  BY <1>6 DEF Handshake
<1>13. Subscribing'
  <2>1. Young(cl.sid)'
    <3>1. PICK s : s = cl.sid
      OBVIOUS
    <3>2. Young(s)' /\ cl'.sid = s
      BY <1>1, <1>2, <1>6, <1>8, <3>1 DEF Subscribing
    <3> QED BY <3>2 DEF Young
  <2>2. \A d \in Conns : conn[d].st \in {"read", "resumed"} => ~ HasFrame(conn[d].in, "subscribe")
    BY <1>1, <1>2, NoCall
  <2>3. ASSUME NEW d \in Conns, conn'[d].st \in {"read", "resumed"}, HasFrame(conn'[d].in, "subscribe")
        PROVE  /\ conn'[d].sess = cl'.sid /\ sess'[cl.sid].sink = d
               /\ cl'.conn = d /\ OneCall(conn[d].in)'
               /\ \A i \in 1..Len(Way(conn'[d])) : Way(conn'[d])[i].seq # cl'.hseq
    <3>1. d = c /\ conn[c].up
      BY <1>9, <2>2, <2>3
    <3>2. conn[c].sess = cl.sid /\ cl.sid # NoSession
      BY <1>1, <1>2, <1>4 DEF Supervised
    <3>3. sess[cl.sid].sink = c
      BY <1>1, <3>1, <3>2 DEF Owned
    <3>4. OneCall(conn[d].in)'
      <4>1. \A i \in 1..Len(conn'[d].in) : conn'[d].in[i].seq = n => i = Len(conn'[d].in)
        BY <1>3, <1>8 DEF FrameT
      <4>2. Len(conn'[d].in) \in Nat
        <5>1. conn'[d].in \in Seq(FrameT(n))
          BY <1>9 DEF ConnT
        <5> QED BY <5>1
      <4>3. \A i, j \in 1..Len(conn'[d].in) : conn'[d].in[i].seq = n => ~ i < j
        BY <4>1, <4>2
      <4> QED BY <1>6, <4>3 DEF OneCall
    <3>5. \A i \in 1..Len(Way(conn'[d])) : Way(conn'[d])[i].seq # n
      <4> DEFINE w == Way(conn[c])
      <4>1. w \in Seq(FrameT(cl.seq)) /\ Way(conn'[d]) = w
        BY <1>1, <1>9, <3>1, Parts, WayIs
      <4> HIDE DEF w
      <4>2. \A i \in 1..Len(w) : w[i] \in FrameT(cl.seq)
        BY <4>1
      <4> QED BY <1>3, <4>1, <4>2 DEF FrameT
    <3> QED BY <1>2, <1>4, <1>6, <1>9, <3>1, <3>2, <3>3, <3>4, <3>5
  <2>4. \A s \in Sessions : sess'[s].expired => ~ sess'[s].subs
    BY <1>1, <1>2 DEF Subscribing
  <2>5. cl'.hseq \in cl'.pending
    BY <1>6
  <2> QED BY <1>6, <2>1, <2>3, <2>4, <2>5 DEF Subscribing
<1>14. Streams'
  <2>1. cl'.conn # NoConn => Flows(cl.conn)'
    BY <1>4, <1>6, <1>8 DEF Flows
  <2> QED BY <1>1, <1>2, <1>6, <2>1 DEF Streams
<1> QED BY <1>8, <1>10, <1>11, <1>12, <1>13, <1>14 DEF IInv

\* A connection without a session carries no push.
LEMMA NoPush ==
  ASSUME NEW S, NEW w \in Seq(S), NEW lo, Run(w, lo, <<>>), lo \in Nat
  PROVE  /\ \A i \in 1..Len(w) : w[i].kind # "push"
         /\ \A k, st : Run(w, k, st)
<1>1. ASSUME NEW i \in 1..Len(w) PROVE w[i].kind # "push"
  <2>1. w[i].kind = "push" => w[i].ps \in (lo + 1)..Len(<<>>)
    BY DEF Run
  <2>2. Len(<<>>) = 0
    OBVIOUS
  <2> QED BY <2>1, <2>2
<1> QED BY <1>1 DEF Run

LEMMA ExpiredInv ==
  ASSUME IInv, Expired
  PROVE  IInv'
<1> DEFINE n == cl.seq + 1
           f == [F("hello", n, 0) EXCEPT !.sess = NoSession]
           r == F("none", 0, 0)
<1>1. /\ Typed /\ Buffers /\ Owned /\ Hellos /\ Supervised /\ Handshake /\ Subscribing /\ Streams
  BY DEF IInv
<1>2. /\ cl.sup = "handshake" /\ cl.hres.kind = "expired"
      /\ cl' = [cl EXCEPT !.sid = NoSession, !.last = 0, !.got = <<>>, !.gaps = cl.gaps + 1,
                          !.seq = n, !.hseq = n, !.pending = {n}, !.hres = r]
      /\ (IF cl.conn = NoConn THEN conn' = conn ELSE Sent(cl.conn, f))
      /\ sess' = sess /\ pushes' = pushes
  <2>1. cl \in ClientT(cl.seq)
    BY <1>1 DEF Typed
  <2> QED BY <2>1 DEF Expired, Hello, ClientT
<1>3. /\ cl \in ClientT(cl.seq) /\ cl.seq \in Nat /\ n \in Nat /\ cl.seq <= n /\ n \in 0..n
      /\ ~ n \in 0..cl.seq /\ cl.conn \in Conns \cup {NoConn} /\ cl.last \in Nat /\ NoSession \in SessIds
  <2>1. cl \in ClientT(cl.seq) /\ cl.seq \in Nat /\ cl.conn \in Conns \cup {NoConn} /\ cl.last \in Nat
    BY <1>1, Parts DEF Typed
  <2>2. NoSession \in SessIds
    BY ResumeAssumption DEF SessIds, NoSession
  <2> QED BY <2>1, <2>2
<1>4. f \in FrameT(n) /\ f.kind = "hello" /\ f.seq = n /\ f.sess = NoSession /\ f.ps = 0
  <2> HIDE DEF n
  <2>1. [F("hello", n, 0) EXCEPT !.sess = NoSession] \in FrameT(n)
    BY <1>3, FIs DEF Kinds
  <2>2. /\ [F("hello", n, 0) EXCEPT !.sess = NoSession].kind = "hello"
        /\ [F("hello", n, 0) EXCEPT !.sess = NoSession].seq = n
        /\ [F("hello", n, 0) EXCEPT !.sess = NoSession].sess = NoSession
        /\ [F("hello", n, 0) EXCEPT !.sess = NoSession].ps = 0
    BY DEF F
  <2> QED BY <2>1, <2>2
<1> HIDE DEF f
<1>5. r \in FrameT(n) /\ r.kind = "none"
  <2>1. 0 \in 0..n
    BY <1>3
  <2> HIDE DEF n
  <2>2. F("none", 0, 0) \in FrameT(n)
    BY <1>3, <2>1, FIs DEF Kinds
  <2> QED BY <2>2 DEF F
<1> HIDE DEF r
<1>6. /\ cl'.conn = cl.conn /\ cl'.ready = cl.ready /\ cl'.sid = NoSession /\ cl'.last = 0
      /\ cl'.seq = n /\ cl'.hseq = n /\ cl'.got = <<>> /\ cl'.sup = "handshake"
      /\ cl'.supervising = cl.supervising /\ cl'.hres = r
  BY <1>2, <1>3 DEF ClientT
<1>7. cl' \in ClientT(n)
  <2> DEFINE none == <<>>
             g == cl.gaps + 1
             pp == {n}
  <2>1. none \in Seq(Nat) /\ g \in Nat /\ 0 \in Nat /\ pp \in SUBSET Nat
    BY <1>3 DEF ClientT
  <2> HIDE DEF none, g, pp
  <2>2. cl' = [cl EXCEPT !.sid = NoSession, !.last = 0, !.got = none, !.gaps = g,
                         !.seq = n, !.hseq = n, !.pending = pp, !.hres = r]
    BY <1>2 DEF none, g, pp
  <2> HIDE DEF n
  <2> QED BY <1>3, <1>5, <2>1, <2>2 DEF ClientT
<1> HIDE DEF n
<1>8. \A d \in Conns : conn[d].st \in {"read", "resumed"} => ~ HasFrame(conn[d].in, "subscribe")
  BY <1>1, <1>2, NoCall
<1>9. \A s \in Sessions : sess'[s].expired => ~ sess'[s].subs
  BY <1>1, <1>2 DEF Subscribing
<1>10. Supervised' /\ Buffers'
  <2>1. (cl.sup # "none") = cl.supervising /\ cl.sup # "none"
    BY <1>1, <1>2 DEF Supervised
  <2>2. (cl'.sup # "none") = cl'.supervising
    BY <1>6, <2>1
  <2>3. cl'.conn # NoConn => conn'[cl.conn].st # "new"
    <3>1. CASE cl.conn = NoConn
      BY <1>6, <3>1
    <3>2. CASE cl.conn # NoConn
      <4>1. cl.conn \in Conns /\ conn[cl.conn].st # "new"
        BY <1>1, <1>3, <3>2 DEF Supervised
      <4>2. conn'[cl.conn].st = conn[cl.conn].st
        BY <1>2, <1>3, <1>4, <3>2, <4>1, SentIs
      <4> QED BY <4>1, <4>2
    <3> QED BY <3>1, <3>2
  <2>4. ~ cl'.ready
    BY <1>1, <1>2, <1>6 DEF Supervised
  <2> QED BY <1>1, <1>2, <1>6, <2>2, <2>3, <2>4 DEF Supervised, Buffers
<1>11. CASE cl.conn = NoConn
  <2>1. Owned' /\ Hellos'
    BY <1>1, <1>2, <1>11, SameServer
  <2>2. Handshake' /\ Streams'
    BY <1>5, <1>6, <1>11 DEF Handshake, Streams
  <2>3. Subscribing'
    BY <1>2, <1>6, <1>8, <1>9, <1>11 DEF Subscribing
  <2>4. Typed'
    <3>1. cl'.hseq <= n
      BY <1>3, <1>6
    <3>2. conn' \in [Conns -> ConnT(n)] /\ \A d \in Conns : Len(conn'[d].q) <= QCap
      BY <1>1, <1>2, <1>3, <1>11, Wider DEF Typed
    <3> QED BY <1>2, <1>3, <1>6, <1>7, <3>1, <3>2, TypedCall
  <2> QED BY <1>10, <2>1, <2>2, <2>3, <2>4 DEF IInv
<1>12. CASE cl.conn # NoConn
  <2>1. PICK c \in Conns : c = cl.conn
    BY <1>3, <1>12
  <2> DEFINE a == conn[c]
             b == conn'[c]
  <2>2. /\ conn' \in [Conns -> ConnT(n)] /\ \A d \in Conns : Len(conn'[d].q) <= QCap
        /\ \A d \in Conns : d # c => conn'[d] = conn[d]
        /\ b.in = IF a.up THEN Append(a.in, f) ELSE a.in
        /\ b.st = a.st /\ b.sess = a.sess /\ b.up = a.up /\ b.drop = a.drop /\ b.qclosed = a.qclosed
        /\ Way(b) = Way(a)
    BY <1>2, <1>3, <1>4, <1>12, <2>1, SentIs
  <2>3. a.in = <<>> /\ a.sess = NoSession /\ a.st # "new" /\ ConnOk(a)
    BY <1>1, <1>2, <1>12, <2>1 DEF Handshake, Shaken, AnswerOk, Supervised, Owned
  <2>4. b.in = (IF a.up THEN <<f>> ELSE <<>>) /\ (a.up => a.st = "read")
    <3>1. Append(<<>>, f) = <<f>>
      OBVIOUS
    <3>2. a.st \in {"new", "read", "resumed", "teardown", "drained", "gone"}
      BY <1>1, Parts DEF ConnT
    <3> QED BY <2>2, <2>3, <3>1, <3>2 DEF ConnOk
  <2>5. \A i \in 1..Len(b.in) : b.in[i] = f /\ Len(b.in) = 1 /\ b.st = "read"
    <3> SUFFICES ASSUME NEW i \in 1..Len(b.in) PROVE b.in[i] = f /\ Len(b.in) = 1 /\ b.st = "read"
      OBVIOUS
    <3> HIDE DEF a, b
    <3>1. a.up
      BY <2>4
    <3>2. b.in = <<f>> /\ b.st = "read"
      BY <2>2, <2>4, <3>1 DEF a, b
    <3> QED BY <3>2
  <2>6. Owned'
    <3>1. \A s \in Sessions : SameHold(sess[s], sess'[s])
      BY <1>2 DEF SameHold
    <3>2. a.qclosed \/ a.st \in {"teardown", "drained", "gone"} => ~ a.up
      BY <2>3 DEF ConnOk
    <3> QED BY <2>2, <2>3, <3>1, <3>2, OneConn
  <2>7. Hellos'
    <3> SUFFICES ASSUME NEW d \in Conns, NEW i \in 1..Len(conn'[d].in), conn'[d].in[i].kind = "hello"
                 PROVE  /\ Len(conn'[d].in) = 1 /\ conn'[d].st = "read" /\ conn'[d].sess = NoSession
                        /\ conn'[d].in[1].sess # NoSession => sess'[conn'[d].in[1].sess].live
      BY DEF Hellos
    <3>1. CASE d = c
      <4>1. b.in[i] = f /\ Len(b.in) = 1 /\ b.st = "read" /\ b.sess = NoSession /\ i = 1
        BY <2>2, <2>3, <2>5, <3>1
      <4> QED BY <1>4, <3>1, <4>1
    <3>2. CASE d # c
      <4>1. conn'[d] = conn[d]
        BY <2>2, <3>2
      <4> QED BY <1>1, <1>2, <4>1 DEF Hellos
    <3> QED BY <3>1, <3>2
  <2>8. Handshake'
    <3>1. b.sess = NoSession
      BY <2>2, <2>3
    <3>2. b.in # <<>> => Len(b.in) = 1 /\ b.in[1] = f
      BY <2>4
    <3>3. \A i \in 1..Len(Way(b)) : Way(b)[i].seq # n
      <4> DEFINE w == Way(a)
      <4>1. w \in Seq(FrameT(cl.seq)) /\ Way(b) = w
        BY <1>1, <2>2, Parts, WayIs
      <4> HIDE DEF w, b
      <4>2. \A i \in 1..Len(w) : w[i] \in FrameT(cl.seq)
        BY <4>1
      <4> QED BY <1>3, <4>1, <4>2 DEF FrameT
    <3>4. Shaken(c)'
      BY <1>4, <1>5, <1>6, <3>1, <3>2, <3>3 DEF Shaken, Asked, Answer
    <3>5. cl'.conn = c
      BY <1>6, <2>1
    <3> QED BY <1>5, <1>6, <3>4, <3>5 DEF Handshake
  <2>9. Subscribing'
    <3>1. ASSUME NEW d \in Conns, conn'[d].st \in {"read", "resumed"}, HasFrame(conn'[d].in, "subscribe")
          PROVE  FALSE
      <4>1. CASE d = c
        BY <1>4, <2>5, <3>1, <4>1 DEF HasFrame
      <4>2. CASE d # c
        BY <1>8, <2>2, <3>1, <4>2
      <4> QED BY <4>1, <4>2
    <3> QED BY <1>6, <1>9, <3>1 DEF Subscribing
  <2>10. Streams'
    <3>1. Run(Way(a), cl.last, <<>>)
      BY <1>1, <1>12, <2>1, <2>3 DEF Streams, Flows, StreamOfConn
    <3>2. Run(Way(b), 0, <<>>)
      <4> DEFINE w == Way(a)
      <4>1. w \in Seq(FrameT(cl.seq)) /\ Way(b) = w /\ Run(w, cl.last, <<>>)
        BY <1>1, <2>2, <3>1, Parts, WayIs
      <4> HIDE DEF w, b
      <4> QED BY <1>3, <4>1, NoPush
    <3>3. Flows(c)'
      BY <1>6, <2>2, <2>3, <3>2 DEF Flows, StreamOfConn
    <3>4. cl'.conn = c
      BY <1>6, <2>1
    <3> QED BY <1>6, <3>3, <3>4 DEF Streams
  <2>11. Typed'
    <3>1. cl'.hseq <= n
      BY <1>3, <1>6
    <3> QED BY <1>2, <1>3, <1>6, <1>7, <2>2, <3>1, TypedCall
  <2> QED BY <1>10, <2>6, <2>7, <2>8, <2>9, <2>10, <2>11 DEF IInv
<1> QED BY <1>11, <1>12

LEMMA DialInv ==
  ASSUME IInv, Dial
  PROVE  IInv'
<1> DEFINE n == cl.seq + 1
           f == [F("hello", n, cl.last) EXCEPT !.sess = cl.sid]
           r == F("none", 0, 0)
           fs == <<f>>
           e == [Opened EXCEPT !.in = fs]
<1>1. /\ Typed /\ Buffers /\ Owned /\ Hellos /\ Supervised /\ Handshake /\ Subscribing /\ Streams
  BY DEF IInv
<1>2. cl \in ClientT(cl.seq)
  BY <1>1 DEF Typed
<1>3. PICK c \in Conns :
        /\ conn[c].st = "new" /\ conn' = [conn EXCEPT ![c] = e]
        /\ cl' = [cl EXCEPT !.conn = c, !.sup = "handshake", !.seq = n, !.hseq = n,
                            !.pending = cl.pending \cup {n}, !.hres = r]
  BY <1>2 DEF Dial, Hello, ClientT
<1>4. cl.sup = "backoff" /\ sess' = sess /\ pushes' = pushes
  BY DEF Dial
<1>5. /\ cl.seq \in Nat /\ n \in Nat /\ cl.seq <= n /\ n \in 0..n
      /\ cl.last \in Nat /\ cl.sid \in SessIds /\ c # NoConn
  BY <1>1, Parts
<1>6. f \in FrameT(n) /\ f.kind = "hello" /\ f.seq = n /\ f.sess = cl.sid /\ f.ps = cl.last
  <2> HIDE DEF n
  <2>1. [F("hello", n, cl.last) EXCEPT !.sess = cl.sid] \in FrameT(n)
    BY <1>5, FIs DEF Kinds
  <2>2. /\ [F("hello", n, cl.last) EXCEPT !.sess = cl.sid].kind = "hello"
        /\ [F("hello", n, cl.last) EXCEPT !.sess = cl.sid].seq = n
        /\ [F("hello", n, cl.last) EXCEPT !.sess = cl.sid].sess = cl.sid
        /\ [F("hello", n, cl.last) EXCEPT !.sess = cl.sid].ps = cl.last
    BY DEF F
  <2> QED BY <2>1, <2>2
<1> HIDE DEF f
<1>7. r \in FrameT(n) /\ r.kind = "none"
  <2>1. 0 \in 0..n
    BY <1>5
  <2> HIDE DEF n
  <2>2. F("none", 0, 0) \in FrameT(n)
    BY <1>5, <2>1, FIs DEF Kinds
  <2> QED BY <2>2 DEF F
<1> HIDE DEF r
<1>8. /\ cl'.conn = c /\ cl'.ready = cl.ready /\ cl'.sid = cl.sid /\ cl'.last = cl.last
      /\ cl'.seq = n /\ cl'.hseq = n /\ cl'.got = cl.got /\ cl'.sup = "handshake"
      /\ cl'.supervising = cl.supervising /\ cl'.hres = r
  BY <1>2, <1>3 DEF ClientT
<1>9. cl' \in ClientT(n)
  <2> DEFINE pp == cl.pending \cup {n}
  <2>1. pp \in SUBSET Nat
    BY <1>2, <1>5 DEF ClientT
  <2> HIDE DEF n, pp
  <2> QED BY <1>2, <1>3, <1>5, <1>7, <2>1 DEF ClientT, pp
<1> HIDE DEF n
<1>10. fs \in Seq(FrameT(n)) /\ Len(fs) = 1 /\ fs[1] = f
  BY <1>6
<1> HIDE DEF fs
<1>11. /\ e.st = "read" /\ e.up /\ ~ e.qclosed /\ e.sess = NoSession /\ ~ e.drop
       /\ e.in = fs /\ e.q = <<>> /\ e.net = <<>>
  BY DEF Opened, Unused
<1>12. e \in ConnT(n)
  <2> DEFINE none == <<>>
  <2>1. none \in Seq(FrameT(n)) /\ none \in Seq(0..n) /\ NoSession \in SessIds
    BY ResumeAssumption DEF NoSession, SessIds
  <2>2. Unused = [st |-> "new", up |-> FALSE, q |-> none, qclosed |-> FALSE, w |-> "run",
                  sess |-> NoSession, drop |-> FALSE, ab |-> none, in |-> none, net |-> none]
    BY Zenon DEF Unused
  <2> HIDE DEF none
  <2>3. Unused \in ConnT(n)
    BY <2>1, <2>2 DEF ConnT
  <2> QED BY <1>10, <2>3 DEF ConnT, Opened
<1> HIDE DEF e
<1>13. conn'[c] = e /\ \A d \in Conns : d # c => conn'[d] = conn[d]
  BY <1>1, <1>3 DEF Typed
<1>14. Way(e) = <<>>
  <2>1. <<>> \o <<>> = <<>>
    OBVIOUS
  <2> QED BY <1>11, <2>1 DEF Way
<1>15. Typed'
  <2>1. conn \in [Conns -> ConnT(n)] /\ \A d \in Conns : Len(conn[d].q) <= QCap
    BY <1>1, <1>5, Wider DEF Typed
  <2>2. conn' \in [Conns -> ConnT(n)]
    BY <1>3, <1>12, <2>1
  <2>3. Len(e.q) <= QCap
    BY <1>11, ResumeAssumption
  <2>4. \A d \in Conns : Len(conn'[d].q) <= QCap
    BY <1>13, <2>1, <2>3
  <2>5. cl'.hseq <= n
    BY <1>5, <1>8
  <2> QED BY <1>4, <1>5, <1>8, <1>9, <2>2, <2>4, <2>5, TypedCall
<1>16. Buffers'
  BY <1>1, <1>4 DEF Buffers
<1>17. Owned'
  <2>1. \A d \in Conns : ConnOk(conn'[d])
    BY <1>1, <1>11, <1>13 DEF Owned, ConnOk
  <2>2. ASSUME NEW d \in Conns, conn'[d].sess # NoSession
        PROVE  sess'[conn'[d].sess].live /\ (conn'[d].up => sess'[conn'[d].sess].sink = d)
    <3>1. conn'[d] = conn[d]
      BY <1>11, <1>13, <2>2
    <3> QED BY <1>1, <1>4, <2>2, <3>1 DEF Owned
  <2>3. ASSUME NEW s \in Sessions PROVE SinkOk(s)'
    <3>1. SinkOk(s) /\ sess[s].sink \in Conns \cup {NoConn}
      BY <1>1, Parts DEF Owned
    <3>2. sess[s].sink # c
      BY <1>3, <1>5, <3>1 DEF SinkOk
    <3> QED BY <1>4, <1>13, <3>1, <3>2 DEF SinkOk
  <2> QED BY <2>1, <2>2, <2>3 DEF Owned
<1>18. Hellos'
  <2> SUFFICES ASSUME NEW d \in Conns, NEW i \in 1..Len(conn'[d].in), conn'[d].in[i].kind = "hello"
               PROVE  /\ Len(conn'[d].in) = 1 /\ conn'[d].st = "read" /\ conn'[d].sess = NoSession
                      /\ conn'[d].in[1].sess # NoSession => sess'[conn'[d].in[1].sess].live
    BY DEF Hellos
  <2>1. CASE d = c
    BY <1>1, <1>4, <1>6, <1>10, <1>11, <1>13, <2>1 DEF Supervised
  <2>2. CASE d # c
    BY <1>1, <1>4, <1>13, <2>2 DEF Hellos
  <2> QED BY <2>1, <2>2
<1>19. Supervised'
  <2>1. (cl.sup # "none") = cl.supervising /\ cl.sup # "none" /\ ~ cl.ready
    BY <1>1, <1>4 DEF Supervised
  <2>2. (cl'.sup # "none") = cl'.supervising
    BY <1>8, <2>1
  <2>3. cl.sid # NoSession => sess[cl.sid].live
    BY <1>1 DEF Supervised
  <2> QED BY <1>4, <1>8, <1>11, <1>13, <2>1, <2>2, <2>3 DEF Supervised
<1>20. Handshake'
  <2>1. conn'[c].in # <<>> => Len(conn'[c].in) = 1 /\ Asked(conn[c].in[1])'
    BY <1>6, <1>8, <1>10, <1>11, <1>13 DEF Asked
  <2>2. Len(Way(conn'[c])) = 0
    BY <1>13, <1>14
  <2>3. Shaken(c)'
    BY <1>7, <1>8, <1>11, <1>13, <2>1, <2>2 DEF Shaken
  <2> QED BY <1>7, <1>8, <2>3 DEF Handshake
<1>21. Subscribing'
  <2>1. \A d \in Conns : conn[d].st \in {"read", "resumed"} => ~ HasFrame(conn[d].in, "subscribe")
    BY <1>1, <1>4, NoCall
  <2>2. ~ HasFrame(fs, "subscribe")
    BY <1>6, <1>10 DEF HasFrame
  <2>3. ASSUME NEW d \in Conns, conn'[d].st \in {"read", "resumed"}, HasFrame(conn'[d].in, "subscribe")
        PROVE  FALSE
    BY <1>11, <1>13, <2>1, <2>2, <2>3
  <2>4. \A s \in Sessions : sess'[s].expired => ~ sess'[s].subs
    BY <1>1, <1>4 DEF Subscribing
  <2> QED BY <1>8, <2>3, <2>4 DEF Subscribing
<1>22. Streams'
  <2>1. Len(Way(conn'[c])) = 0 /\ conn'[c].sess = NoSession
    BY <1>11, <1>13, <1>14
  <2>2. Flows(c)'
    BY <2>1 DEF Flows, Run
  <2> QED BY <1>1, <1>4, <1>8, <2>2 DEF Streams
<1> QED BY <1>15, <1>16, <1>17, <1>18, <1>19, <1>20, <1>21, <1>22 DEF IInv

-----------------------------------------------------------------------------
(* A frame reaches the client.                                             *)

LEMMA FrameLeaves ==
  ASSUME IInv, NEW c \in Conns, OnFrame(c)
  PROVE  /\ conn' \in [Conns -> ConnT(cl.seq)] /\ \A d \in Conns : Len(conn'[d].q) <= QCap
         /\ \A d \in Conns : d # c => conn'[d] = conn[d]
         /\ conn'[c].in = conn[c].in /\ conn'[c].st = conn[c].st /\ conn'[c].sess = conn[c].sess
         /\ conn'[c].up = conn[c].up /\ Way(conn'[c]) = Tail(Way(conn[c]))
         /\ Way(conn[c]) # <<>> /\ Way(conn[c])[1] = Head(conn[c].net)
         /\ Buffers' /\ Owned' /\ Hellos' /\ \A s : Young(s) => Young(s)'
         /\ \A s : NeverSub(s) => NeverSub(s)'
<1> DEFINE a == conn[c]
           x == a.net
           y == a.q
           S == FrameT(cl.seq)
           t == Tail(x)
           e == [a EXCEPT !.net = t]
<1>1. Typed /\ Buffers /\ Owned /\ Hellos /\ Supervised
  BY DEF IInv
<1>2. /\ conn \in [Conns -> ConnT(cl.seq)] /\ x \in Seq(S) /\ y \in Seq(S) /\ a \in ConnT(cl.seq)
      /\ \A d \in Conns : Len(conn[d].q) <= QCap
  BY <1>1, Parts DEF Typed
<1>3. cl.conn = c /\ x # <<>> /\ sess' = sess /\ conn' = [conn EXCEPT ![c] = e]
  BY <1>2 DEF OnFrame
<1> HIDE DEF x, y, S
<1>4. t \in Seq(S) /\ Head(x) = x[1]
  BY <1>2, <1>3
<1>5. /\ t \o y = Tail(x \o y) /\ x \o y # <<>> /\ (x \o y)[1] = Head(x) /\ Head(x) = x[1]
      /\ t = Tail(x)
  BY <1>2, <1>3, <1>4, ConcatSteps
<1>6. x # <<>> /\ a.net = x /\ a.q = y
  BY <1>3 DEF x, y
<1> HIDE DEF t, a
<1>7. /\ e \in ConnT(cl.seq) /\ e.in = a.in /\ e.st = a.st /\ e.sess = a.sess /\ e.up = a.up
      /\ e.q = a.q /\ e.net = t /\ e.drop = a.drop /\ e.qclosed = a.qclosed
  BY <1>2, <1>4 DEF ConnT, S
<1> HIDE DEF e
<1>8. Way(e) = Tail(Way(a)) /\ Way(a) # <<>> /\ Way(a)[1] = Head(a.net)
  <2>1. CASE a.up
    BY <1>5, <1>6, <1>7, <2>1 DEF Way
  <2>2. CASE ~ a.up
    BY <1>5, <1>6, <1>7, <2>2 DEF Way
  <2> QED BY <1>2, <2>1, <2>2 DEF ConnT
<1>9. /\ conn' \in [Conns -> ConnT(cl.seq)] /\ conn'[c] = e /\ \A d \in Conns : d # c => conn'[d] = conn[d]
      /\ \A d \in Conns : Len(conn'[d].q) <= QCap
  BY <1>2, <1>3, <1>7 DEF a
<1>10. \A d \in Conns : conn'[d].in = conn[d].in /\ conn'[d].st = conn[d].st /\ conn'[d].sess = conn[d].sess
  BY <1>7, <1>9 DEF a
<1>11. Buffers' /\ Hellos'
  BY <1>1, <1>3, <1>10 DEF Buffers, Hellos
<1>12. Owned'
  <2>1. a.st # "new" /\ ConnOk(a)
    <3>1. c # NoConn
      BY <1>1, Parts
    <3> QED BY <1>1, <1>3, <3>1 DEF Supervised, Owned, a
  <2>2. \A s \in Sessions : SameHold(sess[s], sess'[s])
    BY <1>3 DEF SameHold
  <2>3. a.qclosed \/ a.st \in {"teardown", "drained", "gone"} => ~ a.up
    BY <2>1 DEF ConnOk
  <2> QED BY <1>7, <1>9, <2>1, <2>2, <2>3, OneConn DEF a
<1>13. \A s : (Young(s) => Young(s)') /\ (NeverSub(s) => NeverSub(s)')
  BY <1>3, <1>10 DEF Young, NeverSub
<1> QED BY <1>7, <1>8, <1>9, <1>11, <1>12, <1>13 DEF a

\* A push is the next one of the stream the client follows.
LEMMA NextPush ==
  ASSUME IInv, NEW c \in Conns, c = cl.conn, Way(conn[c]) # <<>>, Way(conn[c])[1].kind = "push"
  PROVE  /\ conn[c].sess = cl.sid /\ cl.sid \in Sessions /\ conn[c].sess # NoSession
         /\ Way(conn[c])[1].ps = cl.last + 1 /\ cl.last + 1 \in 1..Len(sess[cl.sid].stamped)
         /\ Way(conn[c])[1].v = sess[cl.sid].stamped[cl.last + 1]
<1> DEFINE w == Way(conn[c])
           st == StreamOfConn(conn[c])
<1>1. Typed /\ Supervised /\ Handshake /\ Streams
  BY DEF IInv
<1>2. /\ w \in Seq(FrameT(cl.seq)) /\ cl.last \in Nat /\ c # NoConn /\ cl.sid \in SessIds
      /\ (conn[c].sess # NoSession => conn[c].sess \in Sessions) /\ cl \in ClientT(cl.seq)
  BY <1>1, Parts, WayIs DEF Typed
<1>3. Run(w, cl.last, st)
  BY <1>1, <1>2 DEF Streams, Flows
<1>4. st \in Seq(Nat)
  <2>1. CASE conn[c].sess = NoSession
    BY <2>1 DEF StreamOfConn
  <2>2. CASE conn[c].sess # NoSession
    <3>1. sess[conn[c].sess].stamped \in Seq(Nat)
      BY <1>1, <1>2, <2>2, Parts
    <3> QED BY <2>2, <3>1 DEF StreamOfConn
  <2> QED BY <2>1, <2>2
<1>5. w # <<>> /\ w[1].kind = "push"
  OBVIOUS
<1> HIDE DEF w
<1>6. w[1].ps = cl.last + 1 /\ cl.last + 1 \in 1..Len(st) /\ w[1].v = st[cl.last + 1]
  <2> HIDE DEF st
  <2> QED BY <1>2, <1>3, <1>4, <1>5, RunTail
<1>7. st # <<>>
  <2> HIDE DEF st
  <2>1. Len(st) # 0
    BY <1>2, <1>4, <1>6
  <2> QED BY <2>1
<1>8. conn[c].sess # NoSession /\ st = sess[conn[c].sess].stamped
  BY <1>7 DEF StreamOfConn
<1>9. conn[c].sess = cl.sid
  <2>1. CASE cl.sup \notin {"backoff", "handshake"}
    BY <1>1, <1>2, <2>1 DEF Supervised
  <2>2. CASE cl.sup = "handshake"
    <3>1. Offered(conn[c].sess)
      BY <1>1, <1>2, <1>8, <2>2 DEF Handshake, Shaken
    <3> QED BY <1>7, <1>8, <3>1 DEF Offered, NeverSub
  <2>3. CASE cl.sup = "backoff"
    BY <1>1, <1>2, <2>3 DEF Supervised
  <2> QED BY <2>1, <2>2, <2>3
<1> QED BY <1>2, <1>6, <1>8, <1>9 DEF w

LEMMA OnFrameInv ==
  ASSUME IInv, NEW c \in Conns, OnFrame(c)
  PROVE  IInv' /\ \/ cl'.got = cl.got
                  \/ /\ cl.last + 1 \in 1..Len(sess[cl.sid].stamped) /\ cl.sid # NoSession
                     /\ cl'.got = Append(cl.got, sess[cl.sid].stamped[cl.last + 1])
<1> DEFINE a == conn[c]
           b == conn'[c]
           w == Way(a)
           x == Way(b)
           f == Head(a.net)
           st == StreamOfConn(a)
<1>1. /\ Typed /\ Buffers /\ Owned /\ Hellos /\ Supervised /\ Handshake /\ Subscribing /\ Streams
  BY DEF IInv
<1>2. /\ conn' \in [Conns -> ConnT(cl.seq)] /\ \A d \in Conns : Len(conn'[d].q) <= QCap
      /\ \A d \in Conns : d # c => conn'[d] = conn[d]
      /\ b.in = a.in /\ b.st = a.st /\ b.sess = a.sess /\ b.up = a.up /\ x = Tail(w)
      /\ w # <<>> /\ w[1] = f
      /\ Buffers' /\ Owned' /\ Hellos' /\ (\A s : Young(s) => Young(s)')
      /\ \A s : NeverSub(s) => NeverSub(s)'
  BY FrameLeaves
<1>3. cl.conn = c /\ sess' = sess /\ pushes' = pushes /\ cl \in ClientT(cl.seq)
  BY <1>1 DEF OnFrame, Typed
<1>4. /\ w \in Seq(FrameT(cl.seq)) /\ cl.last \in Nat /\ c # NoConn /\ cl.sid \in SessIds
      /\ (a.sess # NoSession => a.sess \in Sessions) /\ cl.hseq \in Nat
  BY <1>1, Parts, WayIs
<1>5. st \in Seq(Nat) /\ StreamOfConn(conn[c])' = st
  <2>1. CASE a.sess = NoSession
    BY <1>2, <2>1 DEF StreamOfConn
  <2>2. CASE a.sess # NoSession
    <3>1. sess[a.sess].stamped \in Seq(Nat)
      BY <1>1, <1>4, <2>2, Parts
    <3> QED BY <1>2, <1>3, <2>2, <3>1 DEF StreamOfConn
  <2> QED BY <2>1, <2>2
<1>6. Run(w, cl.last, st) /\ (a.up /\ a.sess # NoSession => Full(w, cl.last, Len(st)))
  BY <1>1, <1>3, <1>4 DEF Streams, Flows
<1>7. /\ f.kind = "push" =>
           /\ f.ps = cl.last + 1
           /\ Run(x, cl.last + 1, st) /\ \A n : Full(w, cl.last, n) => Full(x, cl.last + 1, n)
      /\ f.kind # "push" =>
           Run(x, cl.last, st) /\ \A n : Full(w, cl.last, n) => Full(x, cl.last, n)
  <2>1. x = Tail(w) /\ w # <<>> /\ w[1] = f
    BY <1>2
  <2> HIDE DEF w, x, st, f
  <2> QED BY <1>4, <1>5, <1>6, <2>1, RunTail
<1>8. /\ Len(w) \in Nat /\ 1 \in 1..Len(w)
      /\ \A i \in 1..Len(x) : i + 1 \in 1..Len(w) /\ x[i] = w[i + 1]
  <2>1. x = Tail(w) /\ w # <<>>
    BY <1>2
  <2> HIDE DEF w, x
  <2> QED BY <1>4, <2>1, TailIs
<1>9. f.kind = "push" =>
        /\ a.sess = cl.sid /\ cl.sid \in Sessions /\ a.sess # NoSession
        /\ cl.last + 1 \in 1..Len(sess[cl.sid].stamped)
        /\ f.v = sess[cl.sid].stamped[cl.last + 1]
  BY <1>2, <1>3, NextPush
<1>10. f \in FrameT(cl.seq)
  BY <1>1, <1>2, <1>4
<1>11. /\ f.kind = "push" => cl' = [cl EXCEPT !.last = OnPush(cl.last, f.ps), !.got = Append(cl.got, f.v)]
       /\ f.kind # "push" =>
            \/ cl' = [cl EXCEPT !.pending = cl.pending \ {f.seq},
                                !.hres = IF f.seq = cl.hseq THEN f ELSE cl.hres]
            \/ cl' = cl
  BY <1>3 DEF OnFrame
<1> HIDE DEF f, st
<1>12. OnPush(cl.last, cl.last + 1) = cl.last + 1
  BY <1>4 DEF OnPush
<1> DEFINE l == cl.last + 1
           g == Append(cl.got, f.v)
           pp == cl.pending \ {f.seq}
           r == IF f.seq = cl.hseq THEN f ELSE cl.hres
<1>13. /\ l \in Nat /\ g \in Seq(Nat) /\ pp \in SUBSET Nat /\ r \in FrameT(cl.seq)
       /\ (r = cl.hres \/ (r = f /\ f.seq = cl.hseq))
       /\ (cl.hseq \in cl.pending => cl.hseq \in pp \/ f.seq = cl.hseq)
  BY <1>3, <1>4, <1>10 DEF ClientT, FrameT
<1>14. /\ f.kind = "push" => cl' = [cl EXCEPT !.last = l, !.got = g]
       /\ f.kind # "push" => cl' = [cl EXCEPT !.pending = pp, !.hres = r] \/ cl' = cl
  BY <1>7, <1>11, <1>12
<1> HIDE DEF l, g, pp, r, a, b, w, x
<1>15. /\ cl'.conn = cl.conn /\ cl'.ready = cl.ready /\ cl'.sid = cl.sid /\ cl'.seq = cl.seq
       /\ cl'.hseq = cl.hseq /\ cl'.sup = cl.sup /\ cl'.supervising = cl.supervising
       /\ (cl'.hres = cl.hres \/ (cl'.hres = f /\ f.seq = cl.hseq))
       /\ (f.kind = "push" => cl'.hres = cl.hres)
       /\ (cl.hseq \in cl.pending => cl'.hseq \in cl'.pending \/ (f.kind # "push" /\ f.seq = cl.hseq))
       /\ (f.kind # "push" => cl'.last = cl.last /\ cl'.got = cl.got)
       /\ (f.kind = "push" => cl'.last = l /\ cl'.got = g)
       /\ cl' \in ClientT(cl.seq)
  <2>1. CASE cl' = [cl EXCEPT !.last = l, !.got = g] /\ f.kind = "push"
    BY <1>3, <1>13, <2>1 DEF ClientT
  <2>2. CASE cl' = [cl EXCEPT !.pending = pp, !.hres = r] /\ f.kind # "push"
    BY <1>3, <1>13, <2>2 DEF ClientT
  <2>3. CASE cl' = cl /\ f.kind # "push"
    BY <1>3, <2>3
  <2> QED BY <1>14, <2>1, <2>2, <2>3
<1> USE DEF l, g, a, b, w, x
<1>16. Typed'
  BY <1>1, <1>2, <1>3, <1>15 DEF Typed
<1>17. Supervised'
  <2>1. (cl'.sup # "none") = cl'.supervising
    <3>1. (cl.sup # "none") = cl.supervising
      BY <1>1 DEF Supervised
    <3> QED BY <1>15, <3>1
  <2> QED BY <1>1, <1>2, <1>3, <1>4, <1>15, <2>1 DEF Supervised
<1>18. Handshake'
  <2> SUFFICES ASSUME cl.sup = "handshake" PROVE Handshake'
    BY <1>15 DEF Handshake
  <2>1. Shaken(c) /\ (cl.hres.kind = "ok" => cl.hres.sess # NoSession /\ Offered(cl.hres.sess))
    BY <1>1, <1>3, <1>4 DEF Handshake
  <2>2. \A s : Offered(s) => Offered(s)'
    BY <1>2, <1>15 DEF Offered
  <2>3. \A h : AnswerOk(a, h) => AnswerOk(b, h)
    BY <1>2 DEF AnswerOk
  <2>4. f.kind \in {"ok", "expired"} /\ f.seq = cl.hseq => AnswerOk(a, f)
    BY <1>2, <1>8, <2>1 DEF Shaken, Answer
  <2>5. \A i \in 1..Len(x) : Answer(x[i], cl.hseq) => AnswerOk(b, x[i])
    BY <1>8, <2>1, <2>3 DEF Shaken
  <2>6. cl'.hres.kind \in {"ok", "expired"} => AnswerOk(b, cl'.hres)
    BY <1>15, <2>1, <2>3, <2>4 DEF Shaken
  <2>7. ASSUME b.in # <<>> PROVE Len(b.in) = 1 /\ Asked(conn[c].in[1])'
    <3>1. Len(a.in) = 1 /\ Asked(a.in[1])
      BY <1>2, <2>1, <2>7 DEF Shaken
    <3>2. a.sess = NoSession
      BY <1>1, <3>1 DEF Hellos, Asked
    <3>3. cl'.last = cl.last
      BY <1>9, <1>15, <3>2
    <3> QED BY <1>2, <1>15, <3>1, <3>3 DEF Asked
  <2>8. b.sess # NoSession => Offered(conn[c].sess)'
    <3>1. PICK s : s = a.sess
      OBVIOUS
    <3>2. s # NoSession => Offered(s)'
      BY <2>1, <2>2, <3>1 DEF Shaken
    <3>3. b.sess = s
      BY <1>2, <3>1
    <3> QED BY <3>2, <3>3 DEF Offered, NeverSub, Young
  <2>9. Shaken(c)'
    BY <1>15, <2>5, <2>6, <2>7, <2>8 DEF Shaken
  <2>10. cl'.hres.kind = "ok" => cl'.hres.sess # NoSession /\ Offered(cl.hres.sess)'
    <3> SUFFICES ASSUME cl'.hres.kind = "ok" PROVE cl'.hres.sess # NoSession /\ Offered(cl.hres.sess)'
      OBVIOUS
    <3>1. PICK s : s = cl'.hres.sess
      OBVIOUS
    <3>2. s # NoSession /\ Offered(s)
      <4>1. CASE cl'.hres = cl.hres
        BY <2>1, <3>1, <4>1
      <4>2. CASE cl'.hres = f /\ f.seq = cl.hseq
        <5>1. f.sess # NoSession /\ a.sess = f.sess
          BY <2>4, <4>2 DEF AnswerOk
        <5> QED BY <2>1, <3>1, <4>2, <5>1 DEF Shaken
      <4> QED BY <1>15, <4>1, <4>2
    <3>3. Offered(s)' /\ cl'.hres.sess = s
      BY <2>2, <3>1, <3>2
    <3> QED BY <3>2, <3>3 DEF Offered, NeverSub, Young
  <2>11. cl'.conn = c
    BY <1>3, <1>15
  <2> QED BY <2>9, <2>10, <2>11 DEF Handshake
<1>19. Subscribing'
  <2>1. cl'.sup \in {"resubscribe", "waiting"} => Young(cl.sid)'
    <3> SUFFICES ASSUME cl'.sup \in {"resubscribe", "waiting"} PROVE Young(cl.sid)'
      OBVIOUS
    <3>1. PICK s : s = cl.sid
      OBVIOUS
    <3>2. Young(s)' /\ cl'.sid = s
      BY <1>1, <1>2, <1>15, <3>1 DEF Subscribing
    <3> QED BY <3>2 DEF Young
  <2>2. ASSUME NEW d \in Conns, conn'[d].st \in {"read", "resumed"}, HasFrame(conn'[d].in, "subscribe")
        PROVE  /\ cl'.sup = "waiting" /\ conn'[d].sess = cl'.sid /\ sess'[cl.sid].sink = d
               /\ cl'.hseq \in cl'.pending /\ cl'.conn \in {d, NoConn} /\ OneCall(conn[d].in)'
               /\ \A i \in 1..Len(Way(conn'[d])) :
                    Way(conn'[d])[i].kind # "push" => Way(conn'[d])[i].seq # cl'.hseq
    <3>1. conn[d].st \in {"read", "resumed"} /\ HasFrame(conn[d].in, "subscribe")
      BY <1>2, <2>2
    <3>2. /\ cl.sup = "waiting" /\ conn[d].sess = cl.sid /\ sess[cl.sid].sink = d
          /\ cl.hseq \in cl.pending /\ cl.conn \in {d, NoConn} /\ OneCall(conn[d].in)
          /\ \A i \in 1..Len(Way(conn[d])) :
               Way(conn[d])[i].kind # "push" => Way(conn[d])[i].seq # cl.hseq
      BY <1>1, <3>1 DEF Subscribing
    <3>3. d = c
      BY <1>3, <1>4, <3>2
    <3>4. f.kind # "push" => f.seq # cl.hseq
      BY <1>2, <1>8, <3>2, <3>3
    <3>5. cl'.hseq \in cl'.pending
      BY <1>15, <3>2, <3>4
    <3>6. OneCall(conn[d].in)'
      BY <1>2, <1>15, <3>2, <3>3 DEF OneCall
    <3>7. \A i \in 1..Len(x) : x[i].kind # "push" => x[i].seq # cl'.hseq
      BY <1>8, <1>15, <3>2, <3>3
    <3> QED BY <1>2, <1>3, <1>15, <3>2, <3>3, <3>5, <3>6, <3>7
  <2>3. \A s \in Sessions : sess'[s].expired => ~ sess'[s].subs
    BY <1>1, <1>3 DEF Subscribing
  <2>4. cl'.hseq = cl.hseq /\ cl'.sid = cl.sid /\ cl'.conn = c
    BY <1>3, <1>15
  <2> QED BY <2>1, <2>2, <2>3, <2>4 DEF Subscribing
<1>20. Flows(c)'
  <2>1. Run(x, cl'.last, st) /\ (b.up /\ b.sess # NoSession => Full(x, cl'.last, Len(st)))
    BY <1>2, <1>6, <1>7, <1>15
  <2> QED BY <1>5, <2>1 DEF Flows
<1>21. Streams'
  <2>1. /\ cl.last = Len(cl.got) /\ cl.got \in Seq(Nat)
        /\ IF cl.sid = NoSession THEN cl.last = 0 ELSE cl.last <= Len(sess[cl.sid].stamped)
    BY <1>1, <1>3 DEF Streams, ClientT
  <2>2. cl'.last = Len(cl'.got)
    <3>1. CASE f.kind = "push"
      <4>1. f.v \in Nat
        BY <1>10 DEF FrameT
      <4> QED BY <1>15, <2>1, <3>1, <4>1
    <3>2. CASE f.kind # "push"
      BY <1>15, <2>1, <3>2
    <3> QED BY <3>1, <3>2
  <2>3. IF cl'.sid = NoSession THEN cl'.last = 0 ELSE cl'.last <= Len(sess'[cl'.sid].stamped)
    <3>1. CASE f.kind = "push"
      BY <1>3, <1>9, <1>15, <3>1
    <3>2. CASE f.kind # "push"
      BY <1>3, <1>15, <2>1, <3>2
    <3> QED BY <3>1, <3>2
  <2>4. cl'.conn = c
    BY <1>3, <1>15
  <2> QED BY <1>20, <2>2, <2>3, <2>4 DEF Streams
<1> QED BY <1>2, <1>9, <1>15, <1>16, <1>17, <1>18, <1>19, <1>21 DEF IInv

-----------------------------------------------------------------------------
(* Connection c reads a frame.  What the rest of the system sees of it.    *)

Reads(c) ==
  /\ conn[c].st = "read" /\ conn[c].in # <<>> /\ conn'[c].in = Tail(conn[c].in)
  /\ conn'[c].st # "new" /\ (conn[c].sess # NoSession => conn'[c].sess = conn[c].sess)
  /\ \A d \in Conns : d # c => conn'[d] = conn[d] \/ conn'[d] = WsClose(conn[d])
  /\ \A s \in Sessions : sess[s].live => sess'[s].live /\ sess'[s].stamped = sess[s].stamped
  /\ \A s \in Sessions : Young(s) =>
       /\ sess'[s].sink = sess[s].sink /\ sess'[s].timer = sess[s].timer
       /\ sess'[s].subs => sess[s].subs \/ (conn[c].sess = s /\ conn[c].in[1].kind = "subscribe")
       /\ conn'[c].sess = s => conn[c].sess = s /\ conn'[c].st # "resumed"
  /\ \A s \in Sessions : sess'[s].expired => ~ sess'[s].subs
Replies(c) ==
  \A i \in 1..Len(Way(conn'[c])) :
    \/ i \in 1..Len(Way(conn[c])) /\ Way(conn'[c])[i] = Way(conn[c])[i]
    \/ Way(conn'[c])[i].kind = "push" \/ Way(conn'[c])[i].seq = conn[c].in[1].seq

\* Another connection goes on, or is closed.
LEMMA OtherWay ==
  ASSUME NEW m, NEW cn \in ConnT(m), NEW e, e = cn \/ e = WsClose(cn)
  PROVE  /\ e.st = cn.st /\ e.in = cn.in /\ e.sess = cn.sess /\ (e.up => e = cn)
         /\ Way(e) \in Seq(FrameT(m)) /\ Pre(Way(e), Way(cn)) /\ Len(Way(e)) \in Nat
         /\ \A i \in 1..Len(Way(e)) : i \in 1..Len(Way(cn)) /\ Way(e)[i] = Way(cn)[i]
<1>1. Way(cn) \in Seq(FrameT(m)) /\ Len(Way(cn)) \in Nat /\ Pre(cn.net, Way(cn))
  BY WayIs
<1>2. Pre(Way(e), Way(cn)) /\ Way(e) \in Seq(FrameT(m)) /\ (e.up => e = cn)
      /\ e.st = cn.st /\ e.in = cn.in /\ e.sess = cn.sess
  <2>1. CASE e = cn
    BY <1>1, <2>1, PreSame
  <2>2. CASE e = WsClose(cn)
    <3>1. e \in ConnT(m) /\ Stays(cn, e) /\ ~ e.up
      BY <2>2, CloseIs
    <3>2. Way(e) = cn.net /\ e.st = cn.st /\ e.in = cn.in /\ e.sess = cn.sess
      BY <3>1, WayIs DEF Stays
    <3>3. cn.net \in Seq(FrameT(m))
      BY DEF ConnT
    <3> QED BY <1>1, <3>1, <3>2, <3>3
  <2> QED BY <2>1, <2>2
<1>3. Len(Way(e)) \in Nat
  BY <1>2
<1>4. \A i \in 1..Len(Way(e)) : i \in 1..Len(Way(cn)) /\ Way(e)[i] = Way(cn)[i]
  BY <1>1, <1>2, <1>3 DEF Pre
<1> QED BY <1>2, <1>3, <1>4

LEMMA ReadYoung ==
  ASSUME IInv, NEW c \in Conns, Reads(c), NEW s \in Sessions
  PROVE  (Young(s) => Young(s)') /\ (Young(s) /\ NeverSub(s) => NeverSub(s)')
<1>1. Typed
  BY DEF IInv
<1>2. conn[c].in \in Seq(FrameT(cl.seq)) /\ conn[c].in # <<>> /\ conn'[c].in = Tail(conn[c].in)
  BY <1>1, Parts DEF Reads
<1>3. \A i \in 1..Len(conn'[c].in) : \E j \in 1..Len(conn[c].in) : conn'[c].in[i] = conn[c].in[j]
  <2> DEFINE w == conn[c].in
             x == conn'[c].in
  <2>1. w \in Seq(FrameT(cl.seq)) /\ w # <<>> /\ x = Tail(w)
    BY <1>2
  <2> HIDE DEF w, x
  <2>2. \A i \in 1..Len(x) : i + 1 \in 1..Len(w) /\ x[i] = w[i + 1]
    BY <2>1, TailIs
  <2>3. \A i \in 1..Len(x) : \E j \in 1..Len(w) : x[i] = w[j]
    BY <2>2
  <2> QED BY <2>3 DEF w, x
<1>4. \A d \in Conns : d # c => /\ conn'[d].in = conn[d].in /\ conn'[d].sess = conn[d].sess
                                /\ conn'[d].st = conn[d].st
  <2>1. \A d \in Conns : conn[d] \in ConnT(cl.seq)
    BY <1>1, Parts
  <2> QED BY <2>1, OtherWay DEF Reads
<1>5. ASSUME Young(s) PROVE Young(s)'
  <2>1. sess'[s].live /\ (sess'[s].sink = NoConn \/ sess'[s].timer = "off")
    BY <1>5 DEF Young, Reads
  <2>2. \A d \in Conns : conn'[d].sess = s => conn'[d].st # "resumed"
    <3>1. conn'[c].sess = s => conn'[c].st # "resumed"
      BY <1>5 DEF Reads
    <3> QED BY <1>4, <1>5, <3>1 DEF Young
  <2>3. \A d \in Conns : \A i \in 1..Len(conn'[d].in) :
          conn'[d].in[i].kind = "hello" => conn'[d].in[i].sess # s
    <3> SUFFICES ASSUME NEW d \in Conns, NEW i \in 1..Len(conn'[d].in), conn'[d].in[i].kind = "hello"
                 PROVE  conn'[d].in[i].sess # s
      OBVIOUS
    <3>1. PICK j \in 1..Len(conn[d].in) : conn'[d].in[i] = conn[d].in[j]
      <4>1. CASE d = c
        BY <1>3, <4>1
      <4>2. CASE d # c
        BY <1>4, <4>2
      <4> QED BY <4>1, <4>2
    <3>2. conn[d].in[j].kind = "hello" => conn[d].in[j].sess # s
      BY <1>5 DEF Young
    <3> QED BY <3>1, <3>2
  <2> QED BY <2>1, <2>2, <2>3 DEF Young
<1>6. ASSUME Young(s), NeverSub(s) PROVE NeverSub(s)'
  <2>1. sess[s].live /\ sess'[s].stamped = <<>>
    BY <1>6 DEF Young, NeverSub, Reads
  <2>2. conn[c].sess = s => conn[c].in[1].kind # "subscribe"
    <3>1. 1 \in 1..Len(conn[c].in)
      BY <1>2
    <3> QED BY <1>6, <3>1 DEF NeverSub, HasFrame
  <2>3. ~ sess'[s].subs /\ (conn'[c].sess = s => conn[c].sess = s)
    BY <1>6, <2>2 DEF NeverSub, Reads
  <2>4. ASSUME NEW d \in Conns, conn'[d].sess = s PROVE ~ HasFrame(conn'[d].in, "subscribe")
    <3>1. conn[d].sess = s
      BY <1>4, <2>3, <2>4
    <3>2. ~ HasFrame(conn[d].in, "subscribe")
      BY <1>6, <3>1 DEF NeverSub
    <3> QED BY <1>3, <1>4, <3>2 DEF HasFrame
  <2> QED BY <2>1, <2>3, <2>4 DEF NeverSub
<1> QED BY <1>5, <1>6

LEMMA ReadClient ==
  ASSUME IInv, NEW c \in Conns, Reads(c), cl' = cl, Typed',
         cl.conn = c /\ cl.sup = "handshake" => Shaken(c)'
  PROVE  Hellos' /\ Supervised' /\ Handshake'
<1>1. /\ Typed /\ Owned /\ Hellos /\ Supervised /\ Handshake
  BY DEF IInv
<1>2. /\ conn[c].st = "read" /\ conn[c].in # <<>> /\ conn'[c].in = Tail(conn[c].in)
      /\ conn'[c].st # "new" /\ (conn[c].sess # NoSession => conn'[c].sess = conn[c].sess)
      /\ \A s \in Sessions : sess[s].live => sess'[s].live
  BY DEF Reads
<1>3. /\ \A d \in Conns : conn[d] \in ConnT(cl.seq) /\ d # NoConn /\ conn[d].in \in Seq(FrameT(cl.seq))
      /\ \A s \in SessIds : s # NoSession => s \in Sessions
      /\ cl.sid \in SessIds /\ cl.conn \in Conns \cup {NoConn} /\ cl.hres.sess \in SessIds
  <2>1. cl.hres.sess \in SessIds
    BY <1>1, Parts DEF FrameT
  <2>2. \A s \in SessIds : s # NoSession => s \in Sessions
    BY DEF SessIds, Sessions, NoSession
  <2> QED BY <1>1, <2>1, <2>2, Parts
<1>4. ASSUME NEW d \in Conns, d # c
      PROVE  /\ conn'[d].in = conn[d].in /\ conn'[d].sess = conn[d].sess /\ conn'[d].st = conn[d].st
             /\ \A i \in 1..Len(Way(conn'[d])) :
                  i \in 1..Len(Way(conn[d])) /\ Way(conn'[d])[i] = Way(conn[d])[i]
  <2>1. conn'[d] = conn[d] \/ conn'[d] = WsClose(conn[d])
    BY <1>4 DEF Reads
  <2> QED BY <1>3, <2>1, OtherWay
<1>5. Hellos'
  <2> SUFFICES ASSUME NEW d \in Conns, NEW i \in 1..Len(conn'[d].in), conn'[d].in[i].kind = "hello"
               PROVE  /\ Len(conn'[d].in) = 1 /\ conn'[d].st = "read" /\ conn'[d].sess = NoSession
                      /\ conn'[d].in[1].sess # NoSession => sess'[conn'[d].in[1].sess].live
    BY DEF Hellos
  <2>1. CASE d = c
    <3> DEFINE w == conn[c].in
    <3>1. w \in Seq(FrameT(cl.seq)) /\ w # <<>> /\ conn'[c].in = Tail(w)
      BY <1>2, <1>3
    <3> HIDE DEF w
    <3>2. /\ i + 1 \in 1..Len(w) /\ w[i + 1].kind = "hello" /\ Len(w) \in Nat
          /\ Len(w) = Len(conn'[c].in) + 1
      BY <2>1, <3>1, TailIs
    <3>3. Len(w) = 1
      BY <1>1, <3>2 DEF Hellos, w
    <3> QED BY <2>1, <3>2, <3>3
  <2>2. CASE d # c
    <3>1. conn'[d].in = conn[d].in /\ conn'[d].sess = conn[d].sess /\ conn'[d].st = conn[d].st
      BY <1>4, <2>2
    <3>2. /\ Len(conn[d].in) = 1 /\ conn[d].st = "read" /\ conn[d].sess = NoSession
          /\ conn[d].in[1].sess # NoSession => sess[conn[d].in[1].sess].live
      BY <1>1, <3>1 DEF Hellos
    <3>3. conn[d].in[1].sess \in SessIds
      <4> DEFINE w == conn[d].in
      <4>1. w \in Seq(FrameT(cl.seq)) /\ Len(w) = 1
        BY <1>3, <3>2
      <4> HIDE DEF w
      <4>2. \A S : \A q \in Seq(S) : Len(q) = 1 => q[1] \in S
        OBVIOUS
      <4>3. w[1] \in FrameT(cl.seq)
        BY ONLY <4>1, <4>2
      <4> QED BY <4>3 DEF FrameT, w
    <3> QED BY <1>2, <1>3, <3>1, <3>2, <3>3
  <2> QED BY <2>1, <2>2
<1>6. Supervised'
  <2>1. cl.sid # NoSession => sess'[cl.sid].live
    BY <1>1, <1>2, <1>3 DEF Supervised
  <2>2. \A d \in Conns : d = cl.conn => conn'[d].st # "new"
    BY <1>1, <1>2, <1>3, <1>4 DEF Supervised
  <2>3. ASSUME cl.sup \notin {"backoff", "handshake"}, NEW d \in Conns, d = cl.conn
        PROVE  conn'[d].sess = cl.sid
    <3>1. conn[d].sess = cl.sid /\ cl.sid # NoSession
      BY <1>1, <1>3, <2>3 DEF Supervised
    <3> QED BY <1>2, <1>4, <3>1
  <2>4. (cl'.sup # "none") = cl'.supervising
    <3>1. (cl.sup # "none") = cl.supervising
      BY <1>1 DEF Supervised
    <3> QED BY <3>1
  <2> QED BY <1>1, <1>3, <2>1, <2>2, <2>3, <2>4 DEF Supervised
<1>7. ASSUME NEW s \in SessIds, s # NoSession, Offered(s) PROVE Offered(s)'
  <2>1. s \in Sessions
    BY <1>3, <1>7
  <2> QED BY <1>7, <2>1, ReadYoung DEF Offered
<1>8. Handshake'
  <2> SUFFICES ASSUME cl.sup = "handshake" PROVE Handshake'
    BY DEF Handshake
  <2>1. cl.hres.kind = "ok" => cl.hres.sess # NoSession /\ Offered(cl.hres.sess)'
    <3> SUFFICES ASSUME cl.hres.kind = "ok" PROVE cl.hres.sess # NoSession /\ Offered(cl.hres.sess)'
      OBVIOUS
    <3>1. PICK s \in SessIds : s = cl.hres.sess
      BY <1>3
    <3>2. s # NoSession /\ Offered(s)
      BY <1>1, <3>1 DEF Handshake
    <3>3. Offered(s)' /\ cl'.hres.sess = s
      BY <1>7, <3>1, <3>2
    <3> QED BY <3>2, <3>3 DEF Offered, NeverSub, Young
  <2>2. ASSUME NEW d \in Conns, d = cl.conn, d # c PROVE Shaken(d)'
    <3>1. Shaken(d)
      BY <1>1, <1>3, <2>2 DEF Handshake
    <3>2. conn'[d].in = conn[d].in /\ conn'[d].sess = conn[d].sess
      BY <1>4, <2>2
    <3>3. \A f : AnswerOk(conn[d], f) => AnswerOk(conn'[d], f)
      BY <3>2 DEF AnswerOk
    <3>4. \A i \in 1..Len(Way(conn'[d])) :
             Answer(Way(conn'[d])[i], cl.hseq) => AnswerOk(conn'[d], Way(conn'[d])[i])
      BY <1>4, <2>2, <3>1, <3>3 DEF Shaken
    <3>5. conn'[d].sess # NoSession => Offered(conn[d].sess)'
      <4>1. PICK s \in SessIds : s = conn[d].sess
        BY <1>1, Parts
      <4>2. s # NoSession => Offered(s)'
        BY <1>7, <3>1, <4>1 DEF Shaken
      <4>3. conn'[d].sess = s
        BY <3>2, <4>1
      <4> QED BY <4>2, <4>3 DEF Offered, NeverSub, Young
    <3>6. conn'[d].in # <<>> => Len(conn'[d].in) = 1 /\ Asked(conn[d].in[1])'
      BY <3>1, <3>2 DEF Shaken, Asked
    <3>7. cl'.hres.kind \in {"ok", "expired"} => AnswerOk(conn'[d], cl'.hres)
      BY <3>1, <3>3 DEF Shaken
    <3> QED BY <3>4, <3>5, <3>6, <3>7 DEF Shaken
  <2>3. ASSUME NEW d \in Conns, d = cl.conn PROVE Shaken(d)'
    BY <2>2, <2>3
  <2>4. cl'.conn # NoConn => Shaken(cl.conn)'
    <3> SUFFICES ASSUME cl.conn # NoConn PROVE Shaken(cl.conn)'
      OBVIOUS
    <3>1. PICK d \in Conns : d = cl.conn
      BY <1>3
    <3>2. Shaken(d)' /\ cl'.conn = d
      BY <2>3, <3>1
    <3> QED BY <3>2 DEF Shaken, Offered, NeverSub, Young
  <2> QED BY <2>1, <2>4 DEF Handshake
<1> QED BY <1>5, <1>6, <1>8

LEMMA ReadInv ==
  ASSUME IInv, NEW c \in Conns, Reads(c), cl' = cl, Typed', Buffers', Owned',
         cl.conn = c /\ cl.sup = "handshake" => Shaken(c)',
         conn'[c].in # <<>> => Replies(c), cl.conn = c => Flows(c)'
  PROVE  IInv'
<1>1. /\ Typed /\ Owned /\ Hellos /\ Supervised /\ Handshake /\ Subscribing /\ Streams
  BY DEF IInv
<1>2. Hellos' /\ Supervised' /\ Handshake'
  BY ReadClient
<1>3. /\ conn[c].st = "read" /\ conn[c].in # <<>> /\ conn'[c].in = Tail(conn[c].in)
      /\ (conn[c].sess # NoSession => conn'[c].sess = conn[c].sess)
      /\ \A s \in Sessions : sess[s].live => sess'[s].live /\ sess'[s].stamped = sess[s].stamped
      /\ \A s \in Sessions : Young(s) => sess'[s].sink = sess[s].sink
      /\ \A s \in Sessions : sess'[s].expired => ~ sess'[s].subs
  BY DEF Reads
<1>4. /\ \A d \in Conns : conn[d] \in ConnT(cl.seq) /\ d # NoConn
      /\ \A s \in SessIds : s # NoSession => s \in Sessions
      /\ cl.sid \in SessIds /\ cl.conn \in Conns \cup {NoConn}
      /\ \A d \in Conns : conn[d].sess \in SessIds
  <2>1. \A s \in SessIds : s # NoSession => s \in Sessions
    BY DEF SessIds, Sessions, NoSession
  <2> QED BY <1>1, <2>1, Parts
<1>5. ASSUME NEW d \in Conns, d # c
      PROVE  /\ conn'[d].in = conn[d].in /\ conn'[d].sess = conn[d].sess /\ conn'[d].st = conn[d].st
             /\ (conn'[d].up => conn'[d] = conn[d])
             /\ Way(conn'[d]) \in Seq(FrameT(cl.seq)) /\ Pre(Way(conn'[d]), Way(conn[d]))
             /\ \A i \in 1..Len(Way(conn'[d])) :
                  i \in 1..Len(Way(conn[d])) /\ Way(conn'[d])[i] = Way(conn[d])[i]
  <2>1. conn'[d] = conn[d] \/ conn'[d] = WsClose(conn[d])
    BY <1>5 DEF Reads
  <2> QED BY <1>4, <2>1, OtherWay
<1>6. cl.sup \in {"resubscribe", "waiting"} => Young(cl.sid) /\ cl.sid \in Sessions
  BY <1>1, <1>4 DEF Subscribing, Supervised
<1>7. Subscribing'
  <2>1. cl'.sup \in {"resubscribe", "waiting"} => Young(cl.sid)'
    <3> SUFFICES ASSUME cl.sup \in {"resubscribe", "waiting"} PROVE Young(cl.sid)'
      OBVIOUS
    <3>1. PICK s \in Sessions : s = cl.sid
      BY <1>6
    <3>2. Young(s)' /\ cl'.sid = s
      BY <1>6, <3>1, ReadYoung
    <3> QED BY <3>2 DEF Young
  <2>2. ASSUME NEW d \in Conns, conn'[d].st \in {"read", "resumed"}, HasFrame(conn'[d].in, "subscribe")
        PROVE  /\ cl'.sup = "waiting" /\ conn'[d].sess = cl'.sid /\ sess'[cl.sid].sink = d
               /\ cl'.hseq \in cl'.pending /\ cl'.conn \in {d, NoConn} /\ OneCall(conn[d].in)'
               /\ \A i \in 1..Len(Way(conn'[d])) :
                    Way(conn'[d])[i].kind # "push" => Way(conn'[d])[i].seq # cl'.hseq
    <3>1. CASE d # c
      <4>1. /\ cl.sup = "waiting" /\ conn[d].sess = cl.sid /\ sess[cl.sid].sink = d
            /\ cl.hseq \in cl.pending /\ cl.conn \in {d, NoConn} /\ OneCall(conn[d].in)
            /\ \A i \in 1..Len(Way(conn[d])) :
                 Way(conn[d])[i].kind # "push" => Way(conn[d])[i].seq # cl.hseq
        BY <1>1, <1>5, <2>2, <3>1 DEF Subscribing
      <4>2. sess'[cl.sid].sink = d
        BY <1>3, <1>6, <4>1
      <4>3. OneCall(conn[d].in)'
        BY <1>5, <3>1, <4>1 DEF OneCall
      <4> QED BY <1>5, <3>1, <4>1, <4>2, <4>3
    <3>2. CASE d = c
      <4> DEFINE w == conn[c].in
                 x == conn'[c].in
                 y == Way(conn[c])
                 z == Way(conn'[c])
      <4>1. w \in Seq(FrameT(cl.seq)) /\ w # <<>> /\ x = Tail(w)
        BY <1>1, <1>3, Parts
      <4> HIDE DEF w, x
      <4>2. /\ Len(w) \in Nat /\ 1 \in 1..Len(w)
            /\ \A i \in 1..Len(x) : x[i] = w[i + 1] /\ i + 1 \in 1..Len(w)
        BY <4>1, TailIs
      <4>3. PICK k \in 1..Len(x) : x[k].kind = "subscribe"
        BY <2>2, <3>2 DEF HasFrame, x
      <4>4. k + 1 \in 1..Len(w) /\ w[k + 1].kind = "subscribe" /\ 1 < k + 1
        BY <4>2, <4>3
      <4>5. HasFrame(w, "subscribe")
        BY <4>4 DEF HasFrame
      <4>6. /\ cl.sup = "waiting" /\ conn[c].sess = cl.sid /\ sess[cl.sid].sink = c
            /\ cl.hseq \in cl.pending /\ cl.conn \in {c, NoConn} /\ OneCall(w)
            /\ \A i \in 1..Len(y) : y[i].kind # "push" => y[i].seq # cl.hseq
        BY <1>1, <1>3, <4>5 DEF Subscribing, w
      <4>7. w[1].seq # cl.hseq
        BY <4>2, <4>4, <4>6 DEF OneCall
      <4>8. \A i, j \in 1..Len(x) : x[i].seq = cl.hseq /\ i < j => x[j].kind # "subscribe"
        <5> SUFFICES ASSUME NEW i \in 1..Len(x), NEW j \in 1..Len(x), x[i].seq = cl.hseq, i < j
                     PROVE  x[j].kind # "subscribe"
          OBVIOUS
        <5>1. x[i] = w[i + 1] /\ x[j] = w[j + 1] /\ i + 1 \in 1..Len(w) /\ j + 1 \in 1..Len(w)
              /\ i + 1 < j + 1
          BY <4>2
        <5> QED BY <4>6, <5>1 DEF OneCall
      <4>9. x # <<>>
        BY <4>3
      <4>10. Replies(c)
        BY <4>9 DEF x
      <4>11. \A i \in 1..Len(z) : z[i].kind # "push" => z[i].seq # cl.hseq
        BY <4>6, <4>7, <4>10 DEF Replies, w
      <4>12. cl.sid # NoSession /\ sess'[cl.sid].sink = c
        BY <1>3, <1>4, <1>6, <4>6 DEF Sessions, NoSession
      <4>13. OneCall(conn[c].in)'
        BY <4>8 DEF OneCall, x
      <4>14. conn'[c].sess = cl.sid
        BY <1>3, <4>6, <4>12
      <4> QED BY <3>2, <4>6, <4>11, <4>12, <4>13, <4>14
    <3> QED BY <3>1, <3>2
  <2> QED BY <1>3, <2>1, <2>2 DEF Subscribing
<1>8. Streams'
  <2>1. /\ cl.last = Len(cl.got)
        /\ IF cl.sid = NoSession THEN cl.last = 0 ELSE cl.last <= Len(sess[cl.sid].stamped)
    BY <1>1 DEF Streams
  <2>2. IF cl.sid = NoSession THEN cl.last = 0 ELSE cl.last <= Len(sess'[cl.sid].stamped)
    BY <1>1, <1>3, <1>4, <2>1 DEF Supervised
  <2>3. ASSUME NEW d \in Conns, d = cl.conn, d # c PROVE Flows(d)'
    <3> DEFINE st == StreamOfConn(conn[d])
    <3>1. Flows(d)
      BY <1>1, <1>4, <2>3 DEF Streams
    <3>2. StreamOfConn(conn[d])' = st
      <4>1. conn'[d].sess = conn[d].sess
        BY <1>5, <2>3
      <4>2. conn[d].sess # NoSession => sess'[conn[d].sess].stamped = sess[conn[d].sess].stamped
        BY <1>1, <1>3, <1>4 DEF Owned
      <4> QED BY <4>1, <4>2 DEF StreamOfConn
    <3>3. Run(Way(conn'[d]), cl.last, st)
      <4> DEFINE y == Way(conn[d])
                 z == Way(conn'[d])
      <4>1. y \in Seq(FrameT(cl.seq)) /\ z \in Seq(FrameT(cl.seq)) /\ Pre(z, y) /\ Run(y, cl.last, st)
        BY <1>4, <1>5, <2>3, <3>1, WayIs DEF Flows
      <4> HIDE DEF y, z, st
      <4>2. Run(z, cl.last, st)
        BY <4>1, RunPrefix
      <4> QED BY <4>2 DEF z
    <3>4. conn'[d].up /\ conn'[d].sess # NoSession => Full(Way(conn'[d]), cl.last, Len(st))
      BY <1>5, <2>3, <3>1 DEF Flows
    <3> QED BY <3>2, <3>3, <3>4 DEF Flows
  <2>4. cl'.conn # NoConn => Flows(cl.conn)'
    <3> SUFFICES ASSUME cl.conn # NoConn PROVE Flows(cl.conn)'
      OBVIOUS
    <3>1. PICK d \in Conns : d = cl.conn
      BY <1>4
    <3>2. Flows(d)' /\ cl'.conn = d
      BY <2>3, <3>1
    <3> QED BY <3>2 DEF Flows
  <2> QED BY <2>1, <2>2, <2>4 DEF Streams
<1> QED BY <1>2, <1>7, <1>8 DEF IInv

\* The frame is taken off, and a hello is the only one.
Taken(cn) == [cn EXCEPT !.in = Tail(@)]

LEMMA TakenIs ==
  ASSUME NEW m, NEW cn \in ConnT(m), cn.in # <<>>
  PROVE  /\ Taken(cn) \in ConnT(m) /\ Taken(cn).in = Tail(cn.in) /\ Way(Taken(cn)) = Way(cn)
         /\ Taken(cn).st = cn.st /\ Taken(cn).up = cn.up /\ Taken(cn).q = cn.q
         /\ Taken(cn).qclosed = cn.qclosed /\ Taken(cn).sess = cn.sess
         /\ Taken(cn).drop = cn.drop /\ Taken(cn).net = cn.net
<1> DEFINE t == Tail(cn.in)
           e == [cn EXCEPT !.in = t]
<1>1. t \in Seq(FrameT(m))
  BY DEF ConnT
<1>2. Taken(cn) = e
  BY DEF Taken
<1> HIDE DEF t
<1>3. /\ e \in ConnT(m) /\ e.in = t /\ e.st = cn.st /\ e.up = cn.up /\ e.q = cn.q
      /\ e.qclosed = cn.qclosed /\ e.sess = cn.sess /\ e.drop = cn.drop /\ e.net = cn.net
  BY <1>1 DEF ConnT
<1> HIDE DEF e
<1>4. Way(e) = Way(cn)
  BY <1>3 DEF Way
<1> QED BY <1>2, <1>3, <1>4 DEF t

LEMMA WayAppend ==
  ASSUME NEW m, NEW cn \in ConnT(m), NEW e \in ConnT(m), NEW r \in FrameT(m), e.net = cn.net,
         e.up => Way(e) = Append(Way(cn), r)
  PROVE  /\ \A i \in 1..Len(Way(e)) :
              (i \in 1..Len(Way(cn)) /\ Way(e)[i] = Way(cn)[i]) \/ Way(e)[i] = r
         /\ r.kind # "push" => \A lo, st : Run(Way(cn), lo, st) =>
              Run(Way(e), lo, st) /\ (e.up => \A n : Full(Way(cn), lo, n) => Full(Way(e), lo, n))
<1> DEFINE w == Way(cn)
           x == Way(e)
<1>1. /\ w \in Seq(FrameT(m)) /\ x \in Seq(FrameT(m)) /\ Pre(cn.net, w)
      /\ (~ e.up => x = cn.net) /\ (e.up => x = Append(w, r)) /\ e.up \in BOOLEAN
  BY WayIs DEF ConnT
<1>2. ~ e.up => Pre(x, w)
  BY <1>1
<1> HIDE DEF w, x
<1>3. Len(w) \in Nat /\ Len(x) \in Nat
  BY <1>1
<1>4. CASE e.up
  <2>1. Len(x) = Len(w) + 1 /\ x[Len(w) + 1] = r /\ \A i \in 1..Len(w) : x[i] = w[i]
    BY <1>1, <1>4
  <2>2. Pre(w, x)
    BY <1>3, <2>1 DEF Pre
  <2>3. \A i \in 1..Len(x) : (i \in 1..Len(w) /\ x[i] = w[i]) \/ (i > Len(w) /\ x[i] = r)
    BY <1>3, <2>1
  <2>4. \A i \in 1..Len(x) : i > Len(w) => x[i] = r
    BY <1>3, <2>1
  <2>5. ASSUME r.kind # "push", NEW lo, NEW st, Run(w, lo, st)
        PROVE  Run(x, lo, st) /\ \A n : Full(w, lo, n) => Full(x, lo, n)
    BY <1>1, <2>2, <2>4, <2>5, RunMore
  <2> QED BY <2>3, <2>5 DEF w, x
<1>5. CASE ~ e.up
  <2>1. \A i \in 1..Len(x) : i \in 1..Len(w) /\ x[i] = w[i]
    BY <1>2, <1>3, <1>5 DEF Pre
  <2>2. \A lo, st : Run(w, lo, st) => Run(x, lo, st)
    BY <1>1, <1>2, <1>5, RunPrefix
  <2> QED BY <1>5, <2>1, <2>2 DEF w, x
<1> QED BY <1>1, <1>4, <1>5

LEMMA HelloIs ==
  ASSUME IInv, NEW c \in Conns, conn[c].in # <<>>, Head(conn[c].in).kind = "hello"
  PROVE  /\ conn[c].in[1] = Head(conn[c].in) /\ Len(conn[c].in) = 1 /\ Tail(conn[c].in) = <<>>
         /\ conn[c].st = "read" /\ conn[c].sess = NoSession
         /\ Head(conn[c].in).sess # NoSession => sess[Head(conn[c].in).sess].live
         /\ cl.conn = c /\ cl.sup = "handshake" =>
              /\ Asked(Head(conn[c].in)) /\ cl.hres.kind \notin {"ok", "expired"}
              /\ \A i \in 1..Len(Way(conn[c])) : ~ Answer(Way(conn[c])[i], cl.hseq)
<1> DEFINE w == conn[c].in
<1>1. Typed /\ Hellos /\ Handshake
  BY DEF IInv
<1>2. w \in Seq(FrameT(cl.seq)) /\ w # <<>> /\ c # NoConn
  BY <1>1, Parts
<1> HIDE DEF w
<1>3. Len(w) \in Nat /\ 1 \in 1..Len(w) /\ Head(w) = w[1] /\ Len(Tail(w)) = Len(w) - 1
      /\ Tail(w) \in Seq(FrameT(cl.seq))
  BY <1>2, TailIs
<1>4. /\ Len(w) = 1 /\ conn[c].st = "read" /\ conn[c].sess = NoSession
      /\ w[1].sess # NoSession => sess[w[1].sess].live
  BY <1>1, <1>3 DEF Hellos, w
<1>5. Tail(w) = <<>>
  <2> DEFINE t == Tail(w)
  <2>1. t \in Seq(FrameT(cl.seq)) /\ Len(t) = 0
    BY <1>3, <1>4
  <2> HIDE DEF t
  <2>2. \A S : \A q \in Seq(S) : Len(q) = 0 => q = <<>>
    OBVIOUS
  <2>3. t = <<>>
    BY ONLY <2>1, <2>2
  <2> QED BY <2>3 DEF t
<1>6. ASSUME cl.conn = c, cl.sup = "handshake"
      PROVE  /\ Asked(w[1]) /\ cl.hres.kind \notin {"ok", "expired"}
             /\ \A i \in 1..Len(Way(conn[c])) : ~ Answer(Way(conn[c])[i], cl.hseq)
  <2>1. Shaken(c)
    BY <1>1, <1>2, <1>6 DEF Handshake
  <2> QED BY <1>2, <2>1 DEF Shaken, AnswerOk, w
<1> QED BY <1>3, <1>4, <1>5, <1>6 DEF w

\* A command: the reply is queued, or the connection goes down.
LEMMA CommandInv ==
  ASSUME IInv, NEW c \in Conns, conn[c].st = "read", conn[c].in # <<>>,
         Head(conn[c].in).kind # "hello", Command(c, Head(conn[c].in)), cl' = cl, pushes' = pushes
  PROVE  IInv' /\ Reads(c)
<1> DEFINE m == cl.seq
           a == conn[c]
           f == Head(a.in)
           x == Taken(a)
           r == F("reply", f.seq, 0)
           y == Enqueue(x, r)
           z == [WsClose(x) EXCEPT !.st = "teardown"]
           e == IF Accepts(x) THEN y ELSE z
           id == a.sess
           s0 == sess[id]
           k == IF Accepts(x) THEN s0 ELSE RecordAborted(s0, <<f.seq>>)
           u == s0.subs \/ f.kind = "subscribe"
           b == [k EXCEPT !.subs = u]
<1>1. /\ Typed /\ Buffers /\ Owned /\ Hellos /\ Supervised /\ Handshake /\ Subscribing /\ Streams
  BY DEF IInv
<1>2. /\ a \in ConnT(m) /\ Len(a.q) <= QCap /\ ConnOk(a) /\ m \in Nat /\ a.in \in Seq(FrameT(m))
      /\ c # NoConn /\ (id # NoSession => id \in Sessions /\ s0 \in SessionT(m) /\ s0.live /\ BufferOk(s0))
  <2>1. id # NoSession => id \in Sessions /\ s0 \in SessionT(m) /\ s0.live /\ BufferOk(s0)
    BY <1>1, Parts DEF Owned, Buffers
  <2> QED BY <1>1, <2>1, Parts DEF Owned
<1>3. /\ f \in FrameT(m) /\ f = a.in[1] /\ 1 \in 1..Len(a.in) /\ f.seq \in 0..m
  <2> DEFINE w == a.in
  <2>1. w \in Seq(FrameT(m)) /\ w # <<>>
    BY <1>2
  <2> HIDE DEF w
  <2>2. Head(w) \in FrameT(m) /\ Head(w) = w[1] /\ 1 \in 1..Len(w)
    BY <2>1, TailIs
  <2>3. Head(w).seq \in 0..m
    BY <2>2 DEF FrameT
  <2> QED BY <2>2, <2>3 DEF w
<1>4. conn' = [conn EXCEPT ![c] = e] /\ sess' = IF id = NoSession THEN sess ELSE [sess EXCEPT ![id] = b]
  <2>1. x = [conn[c] EXCEPT !.in = Tail(conn[c].in)]
    BY DEF Taken
  <2>2. id # NoSession => k.subs = s0.subs
    <3> SUFFICES ASSUME id # NoSession PROVE k.subs = s0.subs
      OBVIOUS
    <3>1. CASE Accepts(x)
      BY <3>1
    <3>2. CASE ~ Accepts(x)
      <4>1. s0 \in SessionT(m)
        BY <1>2
      <4> HIDE DEF s0
      <4>2. RecordAborted(s0, <<f.seq>>).subs = s0.subs
        BY <4>1 DEF RecordAborted, SessionT
      <4> QED BY <3>2, <4>2
    <3> QED BY <3>1, <3>2
  <2>3. /\ conn' = [conn EXCEPT ![c] = IF Accepts(x) THEN Enqueue(x, r) ELSE z]
        /\ sess' = IF id = NoSession THEN sess
                   ELSE [sess EXCEPT ![id] = [k EXCEPT !.subs = k.subs \/ f.kind = "subscribe"]]
    BY <2>1 DEF Command
  <2> QED BY <2>2, <2>3
<1>5. /\ x \in ConnT(m) /\ x.in = Tail(a.in) /\ Way(x) = Way(a) /\ x.st = "read" /\ x.up = a.up
      /\ x.q = a.q /\ x.qclosed = a.qclosed /\ x.sess = a.sess /\ x.drop = a.drop /\ x.net = a.net
  BY <1>2, TakenIs
<1>6. r \in FrameT(m) /\ r.kind = "reply" /\ r.seq = f.seq
  <2>1. F("reply", f.seq, 0) \in FrameT(m)
    BY <1>2, <1>3, FIs DEF Kinds
  <2> QED BY <2>1 DEF F
<1> HIDE DEF r, x, f
<1>7. /\ e \in ConnT(m) /\ Len(e.q) <= QCap /\ e.in = Tail(a.in) /\ e.sess = a.sess /\ e.drop = a.drop
      /\ e.net = a.net /\ (e.up => a.up) /\ e.st \in {"read", "teardown"}
      /\ (e.qclosed \/ e.st \in {"teardown", "drained", "gone"} => ~ e.up)
      /\ (e.up => Way(e) = Append(Way(a), r))
  <2>1. CASE Accepts(x)
    <3>1. x.qclosed => ~ x.up
      BY <1>2, <1>5 DEF ConnOk
    <3>2. /\ y \in ConnT(m) /\ Len(y.q) <= QCap /\ Stays(x, y) /\ (y.up => Way(y) = Append(Way(x), r))
      BY <1>2, <1>5, <1>6, <3>1, EnqueueIs
    <3> HIDE DEF y
    <3> QED BY <1>5, <2>1, <3>2 DEF Stays
  <2>2. CASE ~ Accepts(x)
    <3> DEFINE d == WsClose(x)
    <3>1. d \in ConnT(m) /\ Stays(x, d) /\ ~ d.up /\ d.q = x.q /\ d.qclosed
      BY <1>5, CloseIs
    <3> HIDE DEF d
    <3>2. /\ z \in ConnT(m) /\ z.st = "teardown" /\ ~ z.up /\ z.q = d.q /\ z.in = d.in /\ z.sess = d.sess
          /\ z.drop = d.drop /\ z.net = d.net
      BY <3>1 DEF ConnT, d
    <3> HIDE DEF z
    <3> QED BY <1>2, <1>5, <2>2, <3>1, <3>2 DEF Stays
  <2> QED BY <2>1, <2>2
<1> HIDE DEF e, a
<1>8. /\ conn' \in [Conns -> ConnT(m)] /\ conn'[c] = e /\ \A d \in Conns : d # c => conn'[d] = conn[d]
      /\ \A d \in Conns : Len(conn'[d].q) <= QCap
  <2>1. conn \in [Conns -> ConnT(m)] /\ \A d \in Conns : Len(conn[d].q) <= QCap
    BY <1>1 DEF Typed
  <2> QED BY <1>4, <1>7, <2>1
<1>9. id # NoSession =>
        /\ b \in SessionT(m) /\ BufferOk(b) /\ SameHold(s0, b) /\ b.stamped = s0.stamped /\ b.subs = u
  <2> SUFFICES ASSUME id # NoSession
               PROVE  /\ b \in SessionT(m) /\ BufferOk(b) /\ SameHold(s0, b) /\ b.stamped = s0.stamped
                      /\ b.subs = u
    OBVIOUS
  <2>1. id \in Sessions /\ s0 \in SessionT(m) /\ s0.live /\ BufferOk(s0)
    BY <1>2
  <2> HIDE DEF s0
  <2>2. u \in BOOLEAN
    BY <2>1 DEF SessionT
  <2>3. /\ k \in SessionT(m) /\ BufferOk(k) /\ k.live /\ k.expired = s0.expired
        /\ k.stamped = s0.stamped /\ k.sink = s0.sink /\ k.timer = s0.timer
    <3>1. CASE Accepts(x)
      BY <2>1, <3>1
    <3>2. CASE ~ Accepts(x)
      <4>1. <<f.seq>> \in Seq(0..m)
        BY <1>3
      <4> DEFINE as == <<f.seq>>
      <4> HIDE DEF as
      <4>2. LET d == RecordAborted(s0, as)
             IN /\ d \in SessionT(m) /\ BufferOk(d) /\ d.live /\ d.expired = s0.expired
                /\ d.subs = s0.subs /\ d.stamped = s0.stamped /\ d.sink = s0.sink /\ d.timer = s0.timer
        BY <2>1, <4>1, AbortedIs DEF as
      <4>3. k = RecordAborted(s0, as)
        BY <3>2 DEF as
      <4> HIDE DEF k
      <4> QED BY <4>2, <4>3
    <3> QED BY <3>1, <3>2
  <2> HIDE DEF k, u
  <2>4. /\ b \in SessionT(m) /\ b.live /\ b.nextSeq = k.nextSeq /\ b.buf = k.buf /\ b.stamped = k.stamped
        /\ b.expired = k.expired /\ b.sink = k.sink /\ b.timer = k.timer /\ b.subs = u
    BY <2>2, <2>3 DEF SessionT
  <2> HIDE DEF b
  <2>5. BufferOk(b)
    BY <2>3, <2>4, SameBuffer
  <2> QED BY <2>1, <2>3, <2>4, <2>5 DEF SameHold
<1> HIDE DEF b
<1>10. /\ sess' \in [Sessions -> SessionT(m)]
       /\ \A s \in Sessions :
            /\ SameHold(sess[s], sess'[s]) /\ sess'[s].stamped = sess[s].stamped /\ BufferOk(sess'[s])
            /\ sess'[s].subs = (sess[s].subs \/ (s = id /\ f.kind = "subscribe"))
  <2>1. sess \in [Sessions -> SessionT(m)] /\ \A s \in Sessions : BufferOk(sess[s]) /\ s # NoSession
                                                                  /\ sess[s].subs \in BOOLEAN
    <3>1. \A s \in Sessions : sess[s] \in SessionT(m) /\ s # NoSession
      BY <1>1, Parts
    <3>2. \A s \in Sessions : sess[s].subs \in BOOLEAN
      BY <3>1 DEF SessionT
    <3> QED BY <1>1, <3>1, <3>2 DEF Typed, Buffers
  <2>2. CASE id = NoSession
    BY <1>4, <2>1, <2>2 DEF SameHold
  <2>3. CASE id # NoSession
    <3>1. id \in Sessions /\ b \in SessionT(m) /\ sess' = [sess EXCEPT ![id] = b]
      BY <1>2, <1>4, <1>9, <2>3
    <3> HIDE DEF id
    <3>2. sess' \in [Sessions -> SessionT(m)] /\ sess'[id] = b
          /\ \A s \in Sessions : s # id => sess'[s] = sess[s]
      BY <2>1, <3>1
    <3>3. ASSUME NEW s \in Sessions
          PROVE  /\ SameHold(sess[s], sess'[s]) /\ sess'[s].stamped = sess[s].stamped
                 /\ BufferOk(sess'[s])
                 /\ sess'[s].subs = (sess[s].subs \/ (s = id /\ f.kind = "subscribe"))
      <4>1. CASE s = id
        BY <1>9, <2>3, <3>2, <4>1
      <4>2. CASE s # id
        BY <2>1, <3>2, <4>2 DEF SameHold
      <4> QED BY <4>1, <4>2
    <3> QED BY <3>2, <3>3
  <2> QED BY <2>2, <2>3
<1>11. Typed' /\ Buffers'
  <2>1. cl \in ClientT(m) /\ cl.hseq <= cl.seq /\ pushes \in Nat
    BY <1>1 DEF Typed
  <2> QED BY <1>8, <1>10, <2>1 DEF Typed, Buffers
<1>12. Owned'
  <2>1. conn[c].st # "new" /\ conn'[c].st # "new" /\ conn'[c].st \notin {"gone", "resumed"}
    BY <1>7, <1>8
  <2>2. /\ conn'[c].sess = conn[c].sess /\ (conn'[c].up => conn[c].up) /\ conn'[c].drop = conn[c].drop
        /\ (conn'[c].qclosed \/ conn'[c].st \in {"teardown", "drained", "gone"} => ~ conn'[c].up)
    BY <1>7, <1>8 DEF a
  <2>3. \A s \in Sessions : SameHold(sess[s], sess'[s])
    BY <1>10
  <2> QED BY <1>8, <2>1, <2>2, <2>3, OneConn
<1>13. ASSUME NEW s \in Sessions, sess'[s].expired PROVE ~ sess'[s].subs
  <2>1. sess[s].expired /\ ~ sess[s].subs
    BY <1>1, <1>10, <1>13 DEF SameHold, Subscribing
  <2>2. ~ (s = id /\ f.kind = "subscribe")
    <3> SUFFICES ASSUME s = id, f.kind = "subscribe" PROVE FALSE
      OBVIOUS
    <3>1. HasFrame(conn[c].in, "subscribe")
      BY <1>3 DEF HasFrame, a
    <3>2. conn[c].sess = cl.sid /\ sess[cl.sid].sink = c
      BY <1>1, <3>1 DEF Subscribing
    <3>3. sess[s].sink = c
      BY <3>2 DEF a
    <3> QED BY <1>1, <1>2, <2>1, <3>3 DEF Owned, SinkOk
  <2> QED BY <1>10, <2>1, <2>2
<1>14. Reads(c)
  <2>1. /\ conn[c].st = "read" /\ conn[c].in # <<>> /\ conn'[c].in = Tail(conn[c].in)
        /\ conn'[c].st # "new" /\ conn'[c].sess = conn[c].sess /\ conn'[c].st # "resumed"
        /\ conn[c].in[1] = f
    BY <1>3, <1>7, <1>8 DEF a
  <2>2. ASSUME NEW s \in Sessions
        PROVE  /\ sess[s].live => sess'[s].live /\ sess'[s].stamped = sess[s].stamped
               /\ sess'[s].sink = sess[s].sink /\ sess'[s].timer = sess[s].timer
               /\ sess'[s].subs => sess[s].subs \/ (conn[c].sess = s /\ f.kind = "subscribe")
    BY <1>10 DEF SameHold, a
  <2>3. \A d \in Conns : d # c => conn'[d] = conn[d]
    BY <1>8
  <2> QED BY <1>13, <2>1, <2>2, <2>3 DEF Reads
<1>15. cl.conn = c /\ cl.sup = "handshake" => Shaken(c)'
  <2> SUFFICES ASSUME cl.conn = c, cl.sup = "handshake" PROVE FALSE
    OBVIOUS
  <2>1. Asked(conn[c].in[1])
    BY <1>1, <1>2 DEF Handshake, Shaken
  <2> QED BY <1>3, <2>1 DEF Asked, f, a
<1>16. /\ \A i \in 1..Len(Way(e)) : (i \in 1..Len(Way(a)) /\ Way(e)[i] = Way(a)[i]) \/ Way(e)[i] = r
       /\ \A lo, st : Run(Way(a), lo, st) =>
            Run(Way(e), lo, st) /\ (e.up => \A n : Full(Way(a), lo, n) => Full(Way(e), lo, n))
  BY <1>2, <1>6, <1>7, WayAppend
<1>17. Replies(c)
  BY <1>3, <1>6, <1>8, <1>16 DEF Replies, a
<1>18. cl.conn = c => Flows(c)'
  <2> SUFFICES ASSUME cl.conn = c PROVE Flows(c)'
    OBVIOUS
  <2> DEFINE st == StreamOfConn(conn[c])
  <2>1. Run(Way(a), cl.last, st) /\ (a.up /\ a.sess # NoSession => Full(Way(a), cl.last, Len(st)))
    BY <1>1, <1>2 DEF Streams, Flows, a
  <2>2. StreamOfConn(conn[c])' = st
    BY <1>2, <1>7, <1>8, <1>10 DEF StreamOfConn, a
  <2>3. Run(Way(e), cl.last, st) /\ (e.up /\ e.sess # NoSession => Full(Way(e), cl.last, Len(st)))
    BY <1>7, <1>16, <2>1
  <2> QED BY <1>8, <2>2, <2>3 DEF Flows
<1> QED BY <1>11, <1>12, <1>14, <1>15, <1>17, <1>18, ReadInv

\* A resume that is refused: the client is told, and the session is left alone.
LEMMA RefusedInv ==
  ASSUME IInv, NEW c \in Conns, conn[c].in # <<>>, NEW f, f = Head(conn[c].in), f.kind = "hello",
         ~ (sess[f.sess].live /\ CanResume(sess[f.sess], f.ps)), Resume(c, f), cl' = cl, pushes' = pushes
  PROVE  IInv' /\ Reads(c)
<1> DEFINE m == cl.seq
           a == conn[c]
           x == Taken(a)
           r == F("expired", f.seq, 0)
           e == Enqueue(x, r)
           g == [conn EXCEPT ![c].in = Tail(conn[c].in)]
<1>1. /\ Typed /\ Buffers /\ Owned /\ Hellos /\ Supervised /\ Handshake /\ Subscribing /\ Streams
  BY DEF IInv
<1>2. /\ a \in ConnT(m) /\ Len(a.q) <= QCap /\ ConnOk(a) /\ m \in Nat /\ a.in \in Seq(FrameT(m))
      /\ conn \in [Conns -> ConnT(m)] /\ c # NoConn
  <2>1. conn \in [Conns -> ConnT(m)] /\ ConnOk(a)
    BY <1>1 DEF Typed, Owned
  <2> QED BY <1>1, <2>1, Parts
<1>3. /\ a.in[1] = f /\ Len(a.in) = 1 /\ Tail(a.in) = <<>> /\ a.st = "read" /\ a.sess = NoSession
      /\ cl.conn = c /\ cl.sup = "handshake" =>
           /\ cl.hres.kind \notin {"ok", "expired"}
           /\ \A i \in 1..Len(Way(a)) : ~ Answer(Way(a)[i], cl.hseq)
  BY HelloIs
<1>4. f \in FrameT(m) /\ f.seq \in 0..m
  <2> DEFINE w == a.in
  <2>1. w \in Seq(FrameT(m)) /\ w # <<>>
    BY <1>2
  <2>2. f = Head(w)
    OBVIOUS
  <2> HIDE DEF w
  <2>3. f \in FrameT(m)
    BY <2>1, <2>2, TailIs
  <2> QED BY <2>3 DEF FrameT
<1>5. sess' = sess /\ conn' = [g EXCEPT ![c] = Enqueue(g[c], r)]
  BY DEF Resume
<1>6. conn' = [conn EXCEPT ![c] = e]
  <2>1. g \in [Conns -> ConnT(m)] /\ g[c] = x /\ \A d \in Conns : d # c => g[d] = conn[d]
    <3>1. x \in ConnT(m) /\ g = [conn EXCEPT ![c] = x]
      BY <1>2, TakenIs DEF Taken
    <3> HIDE DEF x, g
    <3> QED BY <1>2, <3>1
  <2> HIDE DEF g, x
  <2>2. conn' = [g EXCEPT ![c] = e]
    BY <1>5, <2>1
  <2> HIDE DEF e
  <2> QED BY <1>2, <2>1, <2>2
<1>7. /\ x \in ConnT(m) /\ x.in = <<>> /\ Way(x) = Way(a) /\ x.st = "read" /\ x.up = a.up
      /\ x.q = a.q /\ x.qclosed = a.qclosed /\ x.sess = a.sess /\ x.drop = a.drop /\ x.net = a.net
  BY <1>2, <1>3, TakenIs
<1>8. r \in FrameT(m) /\ r.kind = "expired" /\ r.seq = f.seq
  <2>1. F("expired", f.seq, 0) \in FrameT(m)
    BY <1>2, <1>4, FIs DEF Kinds
  <2> QED BY <2>1 DEF F
<1> HIDE DEF r, x
<1>9. /\ e \in ConnT(m) /\ Len(e.q) <= QCap /\ e.in = <<>> /\ e.sess = NoSession /\ e.drop = a.drop
      /\ e.net = a.net /\ (e.up => a.up) /\ e.st = "read" /\ (e.qclosed => ~ e.up)
      /\ (e.up => Way(e) = Append(Way(a), r))
  <2>1. x.qclosed => ~ x.up
    BY <1>2, <1>7 DEF ConnOk
  <2>2. /\ e \in ConnT(m) /\ Len(e.q) <= QCap /\ Stays(x, e) /\ (e.up => Way(e) = Append(Way(x), r))
    BY <1>2, <1>7, <1>8, <2>1, EnqueueIs
  <2> HIDE DEF e
  <2> QED BY <1>3, <1>7, <2>2 DEF Stays
<1> HIDE DEF e, a
<1>10. /\ conn' \in [Conns -> ConnT(m)] /\ conn'[c] = e /\ \A d \in Conns : d # c => conn'[d] = conn[d]
       /\ \A d \in Conns : Len(conn'[d].q) <= QCap
  <2>1. conn \in [Conns -> ConnT(m)] /\ \A d \in Conns : Len(conn[d].q) <= QCap
    BY <1>1 DEF Typed
  <2> QED BY <1>6, <1>9, <2>1
<1>11. Typed' /\ Buffers'
  <2>1. cl \in ClientT(m) /\ cl.hseq <= cl.seq /\ pushes \in Nat /\ sess \in [Sessions -> SessionT(m)]
    BY <1>1 DEF Typed
  <2> QED BY <1>1, <1>5, <1>10, <2>1 DEF Typed, Buffers
<1>12. Owned'
  <2>1. conn[c].st # "new" /\ conn'[c].st # "new" /\ conn'[c].st \notin {"gone", "resumed"}
    BY <1>3, <1>9, <1>10 DEF a
  <2>2. /\ conn'[c].sess = conn[c].sess /\ (conn'[c].up => conn[c].up) /\ conn'[c].drop = conn[c].drop
        /\ (conn'[c].qclosed \/ conn'[c].st \in {"teardown", "drained", "gone"} => ~ conn'[c].up)
    BY <1>3, <1>9, <1>10 DEF a
  <2>3. \A s \in Sessions : SameHold(sess[s], sess'[s])
    BY <1>5 DEF SameHold
  <2> QED BY <1>10, <2>1, <2>2, <2>3, OneConn
<1>13. Reads(c)
  <2>1. /\ conn[c].st = "read" /\ conn[c].in # <<>> /\ conn'[c].in = Tail(conn[c].in)
        /\ conn'[c].st # "new" /\ conn'[c].sess = conn[c].sess /\ conn'[c].st # "resumed"
    BY <1>3, <1>9, <1>10 DEF a
  <2>2. \A s \in Sessions : sess[s].expired => ~ sess[s].subs
    BY <1>1 DEF Subscribing
  <2> QED BY <1>5, <1>10, <2>1, <2>2 DEF Reads
<1>14. /\ \A i \in 1..Len(Way(e)) : (i \in 1..Len(Way(a)) /\ Way(e)[i] = Way(a)[i]) \/ Way(e)[i] = r
       /\ \A lo, st : Run(Way(a), lo, st) =>
            Run(Way(e), lo, st) /\ (e.up => \A n : Full(Way(a), lo, n) => Full(Way(e), lo, n))
  BY <1>2, <1>8, <1>9, WayAppend
<1>15. cl.conn = c /\ cl.sup = "handshake" => Shaken(c)'
  <2> SUFFICES ASSUME cl.conn = c, cl.sup = "handshake" PROVE Shaken(c)'
    OBVIOUS
  <2>1. AnswerOk(e, r)
    BY <1>8, <1>9 DEF AnswerOk
  <2>2. \A i \in 1..Len(Way(e)) : Answer(Way(e)[i], cl.hseq) => AnswerOk(e, Way(e)[i])
    BY <1>3, <1>14, <2>1
  <2> QED BY <1>3, <1>9, <1>10, <2>2 DEF Shaken
<1>16. cl.conn = c => Flows(c)'
  <2> SUFFICES ASSUME cl.conn = c PROVE Flows(c)'
    OBVIOUS
  <2>1. Run(Way(a), cl.last, <<>>)
    BY <1>1, <1>2, <1>3 DEF Streams, Flows, StreamOfConn, a
  <2>2. Run(Way(e), cl.last, <<>>)
    BY <1>14, <2>1
  <2> QED BY <1>9, <1>10, <2>2 DEF Flows, StreamOfConn
<1>17. conn'[c].in = <<>>
  BY <1>9, <1>10
<1> QED BY <1>11, <1>12, <1>13, <1>15, <1>16, <1>17, ReadInv

\* A fresh handshake: a session nobody else knows of.
LEMMA FreshInv ==
  ASSUME IInv, NEW c \in Conns, conn[c].in # <<>>, NEW f, f = Head(conn[c].in), f.kind = "hello",
         f.sess = NoSession, Fresh(c, f), cl' = cl, pushes' = pushes
  PROVE  IInv' /\ Reads(c)
<1> DEFINE m == cl.seq
           a == conn[c]
           x == Taken(a)
<1>1. /\ Typed /\ Buffers /\ Owned /\ Hellos /\ Supervised /\ Handshake /\ Subscribing /\ Streams
  BY DEF IInv
<1>2. /\ a \in ConnT(m) /\ Len(a.q) <= QCap /\ ConnOk(a) /\ m \in Nat /\ a.in \in Seq(FrameT(m))
      /\ conn \in [Conns -> ConnT(m)] /\ sess \in [Sessions -> SessionT(m)] /\ c # NoConn
      /\ cl.last \in Nat
  <2>1. conn \in [Conns -> ConnT(m)] /\ sess \in [Sessions -> SessionT(m)] /\ ConnOk(a)
    BY <1>1 DEF Typed, Owned
  <2> QED BY <1>1, <2>1, Parts
<1>3. /\ a.in[1] = f /\ Len(a.in) = 1 /\ Tail(a.in) = <<>> /\ a.st = "read" /\ a.sess = NoSession
      /\ cl.conn = c /\ cl.sup = "handshake" =>
           /\ Asked(f) /\ cl.hres.kind \notin {"ok", "expired"}
           /\ \A i \in 1..Len(Way(a)) : ~ Answer(Way(a)[i], cl.hseq)
  BY HelloIs
<1>4. f \in FrameT(m) /\ f.seq \in 0..m
  <2> DEFINE w == a.in
  <2>1. w \in Seq(FrameT(m)) /\ w # <<>>
    BY <1>2
  <2>2. f = Head(w)
    OBVIOUS
  <2> HIDE DEF w
  <2>3. f \in FrameT(m)
    BY <2>1, <2>2, TailIs
  <2> QED BY <2>3 DEF FrameT
<1>5. PICK s \in Sessions :
        /\ ~ sess[s].live /\ sess' = [sess EXCEPT ![s] = [NewSession EXCEPT !.sink = c]]
        /\ conn' = [conn EXCEPT ![c] = [Enqueue([conn[c] EXCEPT !.in = Tail(conn[c].in)],
                                                [F("ok", f.seq, 0) EXCEPT !.sess = s])
                                          EXCEPT !.sess = s, !.drop = TRUE]]
  BY DEF Fresh
<1> DEFINE b == [NewSession EXCEPT !.sink = c]
           r == [F("ok", f.seq, 0) EXCEPT !.sess = s]
           y == Enqueue(x, r)
           e == [y EXCEPT !.sess = s, !.drop = TRUE]
<1>6. sess' = [sess EXCEPT ![s] = b] /\ conn' = [conn EXCEPT ![c] = e]
  BY <1>5 DEF Taken
<1>7. /\ x \in ConnT(m) /\ x.in = <<>> /\ Way(x) = Way(a) /\ x.st = "read" /\ x.up = a.up
      /\ x.q = a.q /\ x.qclosed = a.qclosed /\ x.net = a.net
  BY <1>2, <1>3, TakenIs
<1>8. r \in FrameT(m) /\ r.kind = "ok" /\ r.seq = f.seq /\ r.sess = s
  <2>1. s \in SessIds
    BY <1>1, Parts
  <2>2. [F("ok", f.seq, 0) EXCEPT !.sess = s] \in FrameT(m)
    BY <1>2, <1>4, <2>1, FIs DEF Kinds
  <2> QED BY <2>2 DEF F
<1>9. /\ b \in SessionT(m) /\ b.live /\ BufferOk(b) /\ b.sink = c /\ b.timer = "off" /\ ~ b.expired
      /\ ~ b.subs /\ b.stamped = <<>>
  <2> DEFINE none == <<>>
  <2>1. none \in Seq(PushT) /\ none \in Seq(0..m) /\ none \in Seq(Nat) /\ Len(none) = 0
    OBVIOUS
  <2>2. NewSession = [live |-> TRUE, nextSeq |-> 0, buf |-> none, sink |-> NoConn, aborted |-> none,
                      timer |-> "off", expired |-> FALSE, subs |-> FALSE, stamped |-> none]
    BY Zenon DEF NewSession
  <2> HIDE DEF none
  <2>3. /\ NewSession \in SessionT(m) /\ NewSession.live /\ NewSession.nextSeq = 0
        /\ NewSession.buf = none /\ NewSession.timer = "off" /\ ~ NewSession.expired
        /\ ~ NewSession.subs /\ NewSession.stamped = none
    BY <2>1, <2>2 DEF SessionT
  <2>4. /\ b \in SessionT(m) /\ b.live /\ b.sink = c /\ b.timer = "off" /\ ~ b.expired /\ ~ b.subs
        /\ b.stamped = none /\ b.nextSeq = 0 /\ b.buf = none
    BY <2>3 DEF SessionT
  <2> HIDE DEF b
  <2>5. BufferOk(b)
    BY <2>1, <2>4, SessionAssumption DEF BufferOk, Shape
  <2> QED BY <2>4, <2>5 DEF none
<1> HIDE DEF r, x, b
<1>10. /\ e \in ConnT(m) /\ Len(e.q) <= QCap /\ e.in = <<>> /\ e.sess = s /\ e.drop /\ e.net = a.net
       /\ (e.up => a.up) /\ e.st = "read" /\ (e.qclosed => ~ e.up)
       /\ (e.up => Way(e) = Append(Way(a), r))
  <2>1. x.qclosed => ~ x.up
    BY <1>2, <1>7 DEF ConnOk
  <2>2. /\ y \in ConnT(m) /\ Len(y.q) <= QCap /\ Stays(x, y) /\ (y.up => Way(y) = Append(Way(x), r))
    BY <1>2, <1>7, <1>8, <2>1, EnqueueIs
  <2> HIDE DEF y
  <2>3. s \in SessIds
    BY <1>1, Parts
  <2>4. /\ e \in ConnT(m) /\ e.q = y.q /\ e.in = y.in /\ e.sess = s /\ e.drop /\ e.net = y.net
        /\ e.up = y.up /\ e.st = y.st /\ e.qclosed = y.qclosed
    BY <2>2, <2>3 DEF ConnT
  <2> HIDE DEF e
  <2>5. Way(e) = Way(y)
    BY <2>4 DEF Way
  <2> QED BY <1>7, <2>2, <2>4, <2>5 DEF Stays
<1> HIDE DEF e, a
<1>11. /\ conn' \in [Conns -> ConnT(m)] /\ conn'[c] = e /\ \A d \in Conns : d # c => conn'[d] = conn[d]
       /\ \A d \in Conns : Len(conn'[d].q) <= QCap
       /\ sess' \in [Sessions -> SessionT(m)] /\ sess'[s] = b
       /\ \A t \in Sessions : t # s => sess'[t] = sess[t]
  <2>1. \A d \in Conns : Len(conn[d].q) <= QCap
    BY <1>1 DEF Typed
  <2> QED BY <1>2, <1>6, <1>9, <1>10, <2>1
<1>12. Typed' /\ Buffers'
  <2>1. cl \in ClientT(m) /\ cl.hseq <= cl.seq /\ pushes \in Nat
    BY <1>1 DEF Typed
  <2> QED BY <1>1, <1>9, <1>11, <2>1 DEF Typed, Buffers
<1>13. s # NoSession /\ \A d \in Conns : conn[d].sess # s
  BY <1>1, <1>5, Parts DEF Owned
<1>14. Owned'
  <2>1. ASSUME NEW d \in Conns
        PROVE  /\ ConnOk(conn'[d])
               /\ conn'[d].sess # NoSession =>
                    sess'[conn'[d].sess].live /\ (conn'[d].up => sess'[conn'[d].sess].sink = d)
    <3>1. CASE d = c
      BY <1>9, <1>10, <1>11, <1>13, <3>1 DEF ConnOk
    <3>2. CASE d # c
      <4>1. conn'[d] = conn[d] /\ conn[d].sess # s
        BY <1>11, <1>13, <3>2
      <4>2. conn[d].sess # NoSession => conn[d].sess \in Sessions
        BY <1>1, Parts
      <4> QED BY <1>1, <1>11, <4>1, <4>2 DEF Owned
    <3> QED BY <3>1, <3>2
  <2>2. ASSUME NEW t \in Sessions PROVE SinkOk(t)'
    <3>1. CASE t = s
      BY <1>2, <1>9, <1>10, <1>11, <3>1 DEF SinkOk
    <3>2. CASE t # s
      <4>1. sess'[t] = sess[t] /\ SinkOk(t) /\ t # NoSession /\ sess[t].sink \in Conns \cup {NoConn}
        BY <1>1, <1>11, <3>2, Parts DEF Owned
      <4>2. sess[t].sink # NoConn => sess[t].sink # c
        BY <1>3, <4>1 DEF SinkOk, a
      <4>3. sess[t].sink # NoConn => conn'[sess[t].sink] = conn[sess[t].sink]
        BY <1>11, <4>1, <4>2
      <4> QED BY <4>1, <4>3 DEF SinkOk
    <3> QED BY <3>1, <3>2
  <2> QED BY <2>1, <2>2 DEF Owned
<1>15. Reads(c)
  <2>1. /\ conn[c].st = "read" /\ conn[c].in # <<>> /\ conn'[c].in = Tail(conn[c].in)
        /\ conn'[c].st = "read" /\ conn[c].sess = NoSession /\ conn'[c].sess = s
    BY <1>3, <1>10, <1>11 DEF a
  <2>2. \A t \in Sessions : sess[t].live => t # s /\ sess'[t] = sess[t]
    BY <1>5, <1>11
  <2>3. \A t \in Sessions : sess'[t].expired => ~ sess'[t].subs
    BY <1>1, <1>9, <1>11 DEF Subscribing
  <2>4. \A t \in Sessions : Young(t) => t # s /\ sess'[t] = sess[t]
    BY <2>2 DEF Young
  <2> QED BY <1>11, <2>1, <2>2, <2>3, <2>4 DEF Reads
<1>16. /\ \A i \in 1..Len(Way(e)) : (i \in 1..Len(Way(a)) /\ Way(e)[i] = Way(a)[i]) \/ Way(e)[i] = r
       /\ \A lo, st : Run(Way(a), lo, st) =>
            Run(Way(e), lo, st) /\ (e.up => \A n : Full(Way(a), lo, n) => Full(Way(e), lo, n))
  BY <1>2, <1>8, <1>10, WayAppend
<1>17. NeverSub(s)' /\ Young(s)'
  <2>1. \A d \in Conns : conn'[d].sess = s => d = c /\ conn'[d].in = <<>> /\ conn'[d].st = "read"
    BY <1>10, <1>11, <1>13
  <2>2. NeverSub(s)'
    BY <1>9, <1>11, <2>1 DEF NeverSub, HasFrame
  <2>3. ASSUME NEW d \in Conns, NEW i \in 1..Len(conn'[d].in), conn'[d].in[i].kind = "hello"
        PROVE  conn'[d].in[i].sess # s
    <3>1. d # c /\ conn'[d] = conn[d]
      BY <1>10, <1>11, <2>3
    <3>2. Len(conn[d].in) = 1 /\ (conn[d].in[1].sess # NoSession => sess[conn[d].in[1].sess].live)
      BY <1>1, <2>3, <3>1 DEF Hellos
    <3> QED BY <1>5, <1>13, <2>3, <3>1, <3>2
  <2>4. Young(s)'
    BY <1>9, <1>11, <2>1, <2>3 DEF Young
  <2> QED BY <2>2, <2>4
<1>18. cl.conn = c /\ cl.sup = "handshake" => Shaken(c)'
  <2> SUFFICES ASSUME cl.conn = c, cl.sup = "handshake" PROVE Shaken(c)'
    OBVIOUS
  <2>1. AnswerOk(e, r)
    BY <1>8, <1>10, <1>13 DEF AnswerOk
  <2>2. \A i \in 1..Len(Way(e)) : Answer(Way(e)[i], cl.hseq) => AnswerOk(e, Way(e)[i])
    BY <1>3, <1>16, <2>1
  <2>3. cl.sid = NoSession
    BY <1>3 DEF Asked
  <2>4. Offered(s)'
    BY <1>17, <2>3 DEF Offered
  <2>5. Offered(conn[c].sess)'
    <3>1. conn'[c].sess = s
      BY <1>10, <1>11
    <3> QED BY <1>17, <2>3, <3>1 DEF Offered, NeverSub, Young
  <2> QED BY <1>3, <1>10, <1>11, <2>2, <2>5 DEF Shaken
<1>19. cl.conn = c => Flows(c)'
  <2> SUFFICES ASSUME cl.conn = c PROVE Flows(c)'
    OBVIOUS
  <2>1. Run(Way(a), cl.last, <<>>)
    BY <1>1, <1>2, <1>3 DEF Streams, Flows, StreamOfConn, a
  <2>2. Run(Way(e), cl.last, <<>>)
    BY <1>16, <2>1
  <2>3. StreamOfConn(conn[c])' = <<>>
    BY <1>9, <1>10, <1>11, <1>13 DEF StreamOfConn
  <2>4. Full(Way(e), cl.last, Len(<<>>))
    BY <1>2 DEF Full
  <2> QED BY <1>10, <1>11, <2>2, <2>3, <2>4 DEF Flows
<1>20. conn'[c].in = <<>>
  BY <1>10, <1>11
<1> QED BY <1>12, <1>14, <1>15, <1>18, <1>19, <1>20, ReadInv

\* The pushes of a replay.
LEMMA PushFrames ==
  ASSUME NEW m \in Nat, NEW rp \in Seq(PushT), NEW i \in 1..Len(rp)
  PROVE  /\ PushFrame(rp[i]) \in FrameT(m) /\ PushFrame(rp[i]).kind = "push"
         /\ PushFrame(rp[i]).ps = rp[i].seq /\ PushFrame(rp[i]).v = rp[i].v
<1> DEFINE q == rp[i]
           n == q.seq
           v == q.v
<1>1. q \in PushT
  OBVIOUS
<1> HIDE DEF q
<1>2. n \in Nat /\ v \in Nat
  BY <1>1 DEF PushT
<1>3. q.seq = n /\ q.v = v
  OBVIOUS
<1> HIDE DEF n, v
<1>4. /\ PushFrame(q) \in FrameT(m) /\ PushFrame(q).kind = "push"
      /\ PushFrame(q).ps = n /\ PushFrame(q).v = v
  BY <1>2, <1>3, PushFrameIs
<1> QED BY <1>4 DEF q, n, v

\* One frame before others.
LEMMA Before ==
  ASSUME NEW S, NEW f \in S, NEW p \in Seq(S)
  PROVE  /\ <<f>> \o p \in Seq(S) /\ Len(<<f>> \o p) = 1 + Len(p) /\ (<<f>> \o p)[1] = f
         /\ \A i \in 1..Len(p) : (<<f>> \o p)[1 + i] = p[i]
<1> DEFINE one == <<f>>
<1>1. one \in Seq(S) /\ Len(one) = 1 /\ one[1] = f
  OBVIOUS
<1> HIDE DEF one
<1>2. /\ one \o p \in Seq(S) /\ Pre(one, one \o p) /\ Len(one \o p) = Len(one) + Len(p)
      /\ \A i \in 1..Len(p) : (one \o p)[Len(one) + i] = p[i]
  BY <1>1, Behind
<1>3. (one \o p)[1] = f
  BY <1>1, <1>2 DEF Pre
<1> QED BY <1>1, <1>2, <1>3 DEF one

\* A resume that is accepted: the session changes its connection.
LEMMA AcceptedInv ==
  ASSUME IInv, NEW c \in Conns, conn[c].in # <<>>, NEW f, f = Head(conn[c].in), f.kind = "hello",
         f.sess # NoSession, sess[f.sess].live, CanResume(sess[f.sess], f.ps), Resume(c, f),
         cl' = cl, pushes' = pushes
  PROVE  IInv' /\ Reads(c)
<1> DEFINE m == cl.seq
           a == conn[c]
           x == Taken(a)
           id == f.sess
           s0 == sess[id]
           old == s0.sink
           ok == [F("ok", f.seq, 0) EXCEPT !.sess = f.sess]
           rp == Replay(s0, f.ps)
           fs == <<ok>> \o [i \in DOMAIN rp |-> PushFrame(rp[i])]
           y == EnqueueAll(x, fs)
           e == [y EXCEPT !.st = "resumed", !.sess = id, !.ab = s0.aborted]
           b == Attach(s0, c)
           g == [conn EXCEPT ![c].in = Tail(conn[c].in)]
           h == IF old = NoConn THEN g ELSE [g EXCEPT ![old] = WsClose(g[old])]
<1>1. /\ Typed /\ Buffers /\ Owned /\ Hellos /\ Supervised /\ Handshake /\ Subscribing /\ Streams
  BY DEF IInv
<1>2. /\ a \in ConnT(m) /\ Len(a.q) <= QCap /\ ConnOk(a) /\ m \in Nat /\ a.in \in Seq(FrameT(m))
      /\ conn \in [Conns -> ConnT(m)] /\ sess \in [Sessions -> SessionT(m)] /\ c # NoConn
      /\ cl.last \in Nat
  <2>1. conn \in [Conns -> ConnT(m)] /\ sess \in [Sessions -> SessionT(m)] /\ ConnOk(a)
    BY <1>1 DEF Typed, Owned
  <2> QED BY <1>1, <2>1, Parts
<1>3. /\ a.in[1] = f /\ Len(a.in) = 1 /\ Tail(a.in) = <<>> /\ a.st = "read" /\ a.sess = NoSession
      /\ cl.conn = c /\ cl.sup = "handshake" =>
           /\ Asked(f) /\ cl.hres.kind \notin {"ok", "expired"}
           /\ \A i \in 1..Len(Way(a)) : ~ Answer(Way(a)[i], cl.hseq)
  BY HelloIs
<1>4. f \in FrameT(m) /\ f.seq \in 0..m /\ id \in Sessions /\ id \in SessIds /\ f.ps \in Nat
  <2> DEFINE w == a.in
  <2>1. w \in Seq(FrameT(m)) /\ w # <<>>
    BY <1>2
  <2>2. f = Head(w)
    OBVIOUS
  <2> HIDE DEF w
  <2>3. f \in FrameT(m)
    BY <2>1, <2>2, TailIs
  <2>4. f.seq \in 0..m /\ id \in SessIds /\ f.ps \in Nat
    BY <2>3 DEF FrameT
  <2> QED BY <2>3, <2>4, ResumeAssumption DEF SessIds, Sessions, NoSession
<1>5. /\ s0 \in SessionT(m) /\ s0.live /\ BufferOk(s0) /\ ~ s0.expired /\ old \in Conns \cup {NoConn}
      /\ s0.stamped \in Seq(Nat) /\ s0.aborted \in Seq(0..m)
      /\ (old # NoConn => old \in Conns /\ old # c /\ conn[old].sess = id /\ conn[old].st \notin {"new", "gone"})
  <2>1. s0 \in SessionT(m) /\ BufferOk(s0) /\ SinkOk(id) /\ old \in Conns \cup {NoConn} /\ s0.stamped \in Seq(Nat)
    BY <1>1, <1>4, Parts DEF Buffers, Owned
  <2>2. ~ s0.expired
    BY DEF CanResume
  <2>3. s0.aborted \in Seq(0..m)
    <3> HIDE DEF s0
    <3> QED BY <2>1 DEF SessionT
  <2>4. old # NoConn => conn[old].sess = id /\ conn[old].st \notin {"new", "gone"}
    BY <2>1 DEF SinkOk
  <2>5. old # NoConn => old # c
    BY <1>3, <2>4
  <2> QED BY <2>1, <2>2, <2>3, <2>4, <2>5
<1>6. sess' = [sess EXCEPT ![id] = b] /\ conn' = [h EXCEPT ![c] = [EnqueueAll(h[c], fs) EXCEPT
                                                    !.st = "resumed", !.sess = id, !.ab = s0.aborted]]
  BY DEF Resume
<1>7. /\ x \in ConnT(m) /\ x.in = <<>> /\ Way(x) = Way(a) /\ x.st = "read" /\ x.up = a.up
      /\ x.q = a.q /\ x.qclosed = a.qclosed /\ x.drop = a.drop /\ x.net = a.net
  BY <1>2, <1>3, TakenIs, ZenonT(30)
<1>8. g \in [Conns -> ConnT(m)] /\ g[c] = x /\ \A d \in Conns : d # c => g[d] = conn[d]
  <2>1. g = [conn EXCEPT ![c] = x]
    BY <1>2 DEF Taken
  <2> HIDE DEF x, g
  <2> QED BY <1>2, <1>7, <2>1
<1> HIDE DEF g, x, old, b
<1>9. /\ h \in [Conns -> ConnT(m)] /\ h[c] = x
      /\ \A d \in Conns : d # c => h[d] = IF d = old THEN WsClose(conn[d]) ELSE conn[d]
  <2>1. CASE old = NoConn
    <3>1. h = g
      BY <2>1
    <3>2. \A d \in Conns : d # old
      BY <2>1, ResumeAssumption DEF Conns
    <3> QED BY <1>8, <3>1, <3>2
  <2>2. CASE old # NoConn
    <3>1. old \in Conns /\ old # c /\ g[old] = conn[old] /\ conn[old] \in ConnT(m)
      BY <1>2, <1>5, <1>8, <2>2
    <3>2. WsClose(conn[old]) \in ConnT(m)
      BY <3>1, CloseIs
    <3>3. h = [g EXCEPT ![old] = WsClose(conn[old])]
      BY <2>2, <3>1
    <3> HIDE DEF h
    <3> QED BY <1>8, <3>1, <3>2, <3>3
  <2> QED BY <2>1, <2>2
<1> HIDE DEF h
<1>10. conn' = [h EXCEPT ![c] = e]
  BY <1>6, <1>9
<1>11. ok \in FrameT(m) /\ ok.kind = "ok" /\ ok.seq = f.seq /\ ok.sess = id
  <2>1. [F("ok", f.seq, 0) EXCEPT !.sess = id] \in FrameT(m)
    BY <1>2, <1>4, FIs DEF Kinds
  <2> QED BY <2>1 DEF F
<1> HIDE DEF ok, s0
<1>12. /\ rp \in Seq(PushT)
       /\ f.ps <= Len(s0.stamped) =>
            /\ Len(rp) = Len(s0.stamped) - f.ps
            /\ \A i \in 1..(Len(s0.stamped) - f.ps) :
                 rp[i].seq = f.ps + i /\ rp[i].v = s0.stamped[f.ps + i]
  <2> DEFINE ps == f.ps
  <2>1. CanResume(s0, ps) /\ ps \in Nat /\ s0 \in SessionT(m) /\ s0.live /\ BufferOk(s0)
    BY <1>4, <1>5 DEF s0
  <2> HIDE DEF ps, m
  <2>2. /\ Replay(s0, ps) \in Seq(PushT)
        /\ ps <= Len(s0.stamped) =>
             /\ Len(Replay(s0, ps)) = Len(s0.stamped) - ps
             /\ \A i \in 1..(Len(s0.stamped) - ps) :
                  Replay(s0, ps)[i].seq = ps + i /\ Replay(s0, ps)[i].v = s0.stamped[ps + i]
    BY <2>1, ReplayIs
  <2> QED BY <2>2 DEF ps
<1> HIDE DEF rp
<1>13. /\ fs \in Seq(FrameT(m)) /\ Len(fs) = 1 + Len(rp) /\ fs[1] = ok
       /\ \A k \in 1..Len(rp) : /\ fs[1 + k].kind = "push" /\ fs[1 + k].ps = rp[k].seq
                                /\ fs[1 + k].v = rp[k].v
  <2>1. m \in Nat /\ ok \in FrameT(m) /\ rp \in Seq(PushT)
    BY <1>2, <1>11, <1>12
  <2> DEFINE p == [i \in DOMAIN rp |-> PushFrame(rp[i])]
             S == FrameT(m)
  <2> HIDE DEF m, fs
  <2>2. \A i \in 1..Len(rp) :
          /\ PushFrame(rp[i]) \in S /\ PushFrame(rp[i]).kind = "push"
          /\ PushFrame(rp[i]).ps = rp[i].seq /\ PushFrame(rp[i]).v = rp[i].v
    BY <2>1, PushFrames
  <2>3. ok \in S
    BY <2>1
  <2> HIDE DEF S
  <2>4. DOMAIN rp = 1..Len(rp) /\ Len(rp) \in Nat
    BY <2>1
  <2>5. p \in Seq(S) /\ Len(p) = Len(rp) /\ \A i \in 1..Len(rp) : p[i] = PushFrame(rp[i])
    BY ONLY <2>2, <2>4 DEF p
  <2>6. fs = <<ok>> \o p
    BY DEF fs
  <2> HIDE DEF p
  <2>7. /\ fs \in Seq(S) /\ Len(fs) = 1 + Len(p) /\ fs[1] = ok
        /\ \A i \in 1..Len(p) : fs[1 + i] = p[i]
    BY <2>3, <2>5, <2>6, Before
  <2>8. \A k \in 1..Len(rp) : fs[1 + k].kind = "push" /\ fs[1 + k].ps = rp[k].seq /\ fs[1 + k].v = rp[k].v
    BY <2>2, <2>5, <2>7
  <2> QED BY <2>5, <2>7, <2>8 DEF S
<1> HIDE DEF fs, id
<1>14. /\ e \in ConnT(m) /\ Len(e.q) <= QCap /\ e.in = <<>> /\ e.sess = id /\ e.drop = a.drop
       /\ e.net = a.net /\ (e.up => a.up) /\ e.st = "resumed" /\ (e.qclosed => ~ e.up)
       /\ (e.up => Way(e) = Way(a) \o fs)
  <2>1. x.qclosed => ~ x.up
    BY <1>2, <1>7 DEF ConnOk
  <2>2. /\ y \in ConnT(m) /\ Len(y.q) <= QCap /\ Stays(x, y) /\ (y.up => Way(y) = Way(x) \o fs)
    BY <1>2, <1>7, <1>13, <2>1, EnqueueAllIs
  <2> DEFINE ab == s0.aborted
  <2>3. ab \in Seq(0..m) /\ id \in SessIds
    BY <1>4, <1>5
  <2> HIDE DEF y, ab
  <2>4. /\ e \in ConnT(m) /\ e.q = y.q /\ e.in = y.in /\ e.sess = id /\ e.drop = y.drop /\ e.net = y.net
        /\ e.up = y.up /\ e.st = "resumed" /\ e.qclosed = y.qclosed
    BY <2>2, <2>3 DEF ConnT, ab
  <2> HIDE DEF e
  <2>5. Way(e) = Way(y)
    BY <2>4 DEF Way
  <2> QED BY <1>7, <2>2, <2>4, <2>5 DEF Stays
<1> HIDE DEF e
<1>15. /\ conn' \in [Conns -> ConnT(m)] /\ conn'[c] = e
       /\ \A d \in Conns : d # c => conn'[d] = IF d = old THEN WsClose(conn[d]) ELSE conn[d]
  BY <1>9, <1>10, <1>14

<1>16. /\ b \in SessionT(m) /\ BufferOk(b) /\ b.live /\ b.sink = c /\ ~ b.expired /\ b.stamped = s0.stamped
  BY <1>5, AttachIs DEF b
<1>17. /\ sess' \in [Sessions -> SessionT(m)] /\ sess'[id] = b
       /\ \A t \in Sessions : t # id => sess'[t] = sess[t]
  BY <1>2, <1>4, <1>6, <1>16
<1>18. Typed' /\ Buffers'
  <2>1. cl \in ClientT(m) /\ cl.hseq <= cl.seq /\ pushes \in Nat /\ \A d \in Conns : Len(conn[d].q) <= QCap
    BY <1>1 DEF Typed
  <2>2. \A d \in Conns : conn[d] \in ConnT(m)
    BY <1>2
  <2>3. ASSUME NEW d \in Conns PROVE Len(conn'[d].q) <= QCap
    <3>1. CASE d = c
      BY <1>14, <1>15, <3>1
    <3>2. CASE d # c
      <4>1. WsClose(conn[d]).q = conn[d].q
        BY <2>2, CloseIs
      <4> QED BY <1>15, <2>1, <3>2, <4>1
    <3> QED BY <3>1, <3>2
  <2> QED BY <1>1, <1>15, <1>16, <1>17, <2>1, <2>3 DEF Typed, Buffers
<1>19. ASSUME NEW d \in Conns, d # c
       PROVE  /\ conn'[d].st = conn[d].st /\ conn'[d].sess = conn[d].sess
              /\ conn'[d] = conn[d] \/ (d = old /\ conn'[d] = WsClose(conn[d]) /\ ~ conn'[d].up)
              /\ conn'[d].drop = conn[d].drop
  <2>1. conn[d] \in ConnT(m)
    BY <1>2
  <2>2. Stays(conn[d], WsClose(conn[d])) /\ ~ WsClose(conn[d]).up
    BY <2>1, CloseIs
  <2> QED BY <1>15, <1>19, <2>2 DEF Stays
<1>20. id # NoSession /\ sess[id] = s0 /\ s0.live /\ sess[id].sink = old
  BY <1>5 DEF s0, id, old
<1>21. Owned'
  <2>1. ASSUME NEW d \in Conns
        PROVE  /\ ConnOk(conn'[d])
               /\ conn'[d].sess # NoSession =>
                    sess'[conn'[d].sess].live /\ (conn'[d].up => sess'[conn'[d].sess].sink = d)
    <3>1. CASE d = c
      <4>1. conn'[c] = e /\ sess'[id].live /\ sess'[id].sink = c
        BY <1>15, <1>16, <1>17
      <4> QED BY <1>14, <1>20, <3>1, <4>1 DEF ConnOk
    <3>2. CASE d # c
      <4>1. /\ ConnOk(conn[d]) /\ (conn[d].sess # NoSession => conn[d].sess \in Sessions
                 /\ sess[conn[d].sess].live /\ (conn[d].up => sess[conn[d].sess].sink = d))
        BY <1>1, Parts DEF Owned
      <4>2. ConnOk(conn'[d])
        <5>1. CASE conn'[d] = conn[d]
          BY <4>1, <5>1
        <5>2. CASE d = old /\ conn'[d] = WsClose(conn[d]) /\ ~ conn'[d].up
          <6>1. conn[d].st \notin {"new", "gone"}
            BY <1>5, <1>15, <1>2, <5>2, ResumeAssumption DEF Conns
          <6> QED BY <1>19, <3>2, <4>1, <5>2, <6>1 DEF ConnOk
        <5> QED BY <1>19, <3>2, <5>1, <5>2
      <4>3. ASSUME conn'[d].sess # NoSession
            PROVE  sess'[conn'[d].sess].live /\ (conn'[d].up => sess'[conn'[d].sess].sink = d)
        <5> DEFINE t == conn[d].sess
        <5>1. conn'[d].sess = t /\ t \in Sessions /\ sess[t].live /\ (conn[d].up => sess[t].sink = d)
          BY <1>19, <3>2, <4>1, <4>3
        <5> HIDE DEF t
        <5>2. sess'[t].live
          BY <1>16, <1>17, <5>1
        <5>3. ASSUME conn'[d].up PROVE sess'[t].sink = d
          <6>1. conn'[d] = conn[d]
            BY <1>19, <3>2, <5>3
          <6>2. sess[t].sink = d
            BY <5>1, <5>3, <6>1
          <6>3. t # id
            <7> SUFFICES ASSUME t = id PROVE FALSE
              OBVIOUS
            <7>1. d = old
              BY <1>20, <6>2
            <7>2. conn'[d] = WsClose(conn[d]) /\ conn[d] \in ConnT(m)
              BY <1>2, <1>15, <3>2, <7>1
            <7>3. ~ WsClose(conn[d]).up
              BY <7>2, CloseIs
            <7> QED BY <5>3, <7>2, <7>3
          <6> QED BY <1>17, <5>1, <6>2, <6>3
        <5> QED BY <5>1, <5>2, <5>3
      <4> QED BY <4>2, <4>3
    <3> QED BY <3>1, <3>2
  <2>2. ASSUME NEW t \in Sessions PROVE SinkOk(t)'
    <3>1. CASE t = id
      <4>1. conn'[c] = e /\ sess'[id] = b
        BY <1>15, <1>17
      <4> QED BY <1>2, <1>14, <1>16, <3>1, <4>1 DEF SinkOk
    <3>2. CASE t # id
      <4>1. sess'[t] = sess[t] /\ SinkOk(t) /\ t # NoSession /\ sess[t].sink \in Conns \cup {NoConn}
        BY <1>1, <1>17, <3>2, Parts DEF Owned
      <4>2. sess[t].sink # NoConn => sess[t].sink # c
        BY <1>3, <4>1 DEF SinkOk, a
      <4>3. sess[t].sink # NoConn => conn'[sess[t].sink].sess = conn[sess[t].sink].sess
                                     /\ conn'[sess[t].sink].st = conn[sess[t].sink].st
        BY <1>19, <4>1, <4>2
      <4> QED BY <4>1, <4>3 DEF SinkOk
    <3> QED BY <3>1, <3>2
  <2> QED BY <2>1, <2>2 DEF Owned
<1>22. \A t \in Sessions : Young(t) => t # id
  <2>1. conn[c].in[1].kind = "hello" /\ conn[c].in[1].sess = id /\ 1 \in 1..Len(conn[c].in)
    BY <1>3 DEF id, a
  <2> QED BY <2>1 DEF Young
<1>23. Reads(c)
  <2>1. /\ conn[c].st = "read" /\ conn[c].in # <<>> /\ conn'[c].in = Tail(conn[c].in)
        /\ conn'[c].st = "resumed" /\ conn[c].sess = NoSession /\ conn'[c].sess = id
    BY <1>3, <1>14, <1>15 DEF a
  <2>2. ASSUME NEW t \in Sessions, sess[t].live PROVE sess'[t].live /\ sess'[t].stamped = sess[t].stamped
    <3>1. CASE t = id
      <4>1. sess'[t] = b /\ sess[t] = s0
        BY <1>17, <1>20, <3>1
      <4> QED BY <1>16, <4>1
    <3>2. CASE t # id
      BY <1>17, <2>2, <3>2
    <3> QED BY <3>1, <3>2
  <2>3. \A t \in Sessions : sess'[t].expired => ~ sess'[t].subs
    BY <1>1, <1>16, <1>17 DEF Subscribing
  <2>4. ASSUME NEW t \in Sessions, Young(t)
        PROVE  /\ sess'[t].sink = sess[t].sink /\ sess'[t].timer = sess[t].timer
               /\ sess'[t].subs => sess[t].subs
               /\ conn'[c].sess # t
    BY <1>17, <1>22, <2>1, <2>4
  <2>5. \A d \in Conns : d # c => conn'[d] = conn[d] \/ conn'[d] = WsClose(conn[d])
    BY <1>19
  <2>6. conn'[c].st # "new"
    BY <2>1
  <2> HIDE DEF a
  <2> QED BY <2>1, <2>2, <2>3, <2>4, <2>5, <2>6 DEF Reads
<1>24. /\ Way(a) \in Seq(FrameT(m)) /\ Way(e) \in Seq(FrameT(m)) /\ Len(Way(a)) \in Nat
       /\ Pre(a.net, Way(a)) /\ (~ e.up => Pre(Way(e), Way(a)))
  BY <1>2, <1>14, WayIs
<1>25. /\ Pre(Way(a), Way(a) \o fs) /\ Len(Way(a) \o fs) = Len(Way(a)) + 1 + Len(rp)
       /\ (Way(a) \o fs)[Len(Way(a)) + 1] = ok
       /\ \A k \in 1..Len(rp) : (Way(a) \o fs)[Len(Way(a)) + 1 + k] = fs[1 + k]
       /\ \A i \in 1..Len(Way(a) \o fs) : i > Len(Way(a)) =>
            (Way(a) \o fs)[i] = ok \/ (Way(a) \o fs)[i].kind = "push"
  <2> DEFINE w == Way(a)
             z == w \o fs
             S == FrameT(m)
  <2>1. w \in Seq(S) /\ fs \in Seq(S) /\ Len(w) \in Nat /\ Len(rp) \in Nat
    <3>1. Len(rp) \in Nat
      <4> HIDE DEF rp
      <4> QED BY <1>12
    <3> QED BY <1>13, <1>24, <3>1
  <2> HIDE DEF w, S
  <2>2. /\ Pre(w, z) /\ Len(z) = Len(w) + Len(fs)
        /\ \A i \in 1..Len(fs) : z[Len(w) + i] = fs[i]
        /\ \A i \in 1..Len(z) : i > Len(w) => i - Len(w) \in 1..Len(fs) /\ z[i] = fs[i - Len(w)]
    BY <2>1, Behind
  <2> HIDE DEF z
  <2>3. Len(fs) = 1 + Len(rp) /\ fs[1] = ok /\ \A k \in 1..Len(rp) : fs[1 + k].kind = "push"
    BY <1>13
  <2>4. z[Len(w) + 1] = ok /\ Len(z) = Len(w) + 1 + Len(rp)
    BY <2>1, <2>2, <2>3
  <2>5. ASSUME NEW k \in 1..Len(rp) PROVE z[Len(w) + 1 + k] = fs[1 + k]
    <3>1. 1 + k \in 1..Len(fs) /\ Len(w) + 1 + k = Len(w) + (1 + k)
      BY <2>1, <2>3
    <3> QED BY <2>2, <3>1
  <2>6. ASSUME NEW i \in 1..Len(z), i > Len(w) PROVE z[i] = ok \/ z[i].kind = "push"
    <3> DEFINE j == i - Len(w)
    <3>1. j \in 1..Len(fs) /\ z[i] = fs[j]
      BY <2>2, <2>6
    <3> HIDE DEF j
    <3>2. CASE j = 1
      BY <2>3, <3>1, <3>2
    <3>3. CASE j # 1
      <4>1. j - 1 \in 1..Len(rp) /\ 1 + (j - 1) = j
        BY <2>1, <2>3, <3>1, <3>3
      <4> QED BY <2>3, <3>1, <4>1
    <3> QED BY <3>2, <3>3
  <2> QED BY <2>2, <2>4, <2>5, <2>6 DEF w, z
<1>26. \A i \in 1..Len(Way(e)) :
         \/ i \in 1..Len(Way(a)) /\ Way(e)[i] = Way(a)[i]
         \/ Way(e)[i] = ok \/ Way(e)[i].kind = "push"
  <2> DEFINE w == Way(a)
             v == Way(e)
             z == w \o fs
  <2>1. Len(w) \in Nat /\ (e.up => v = z) /\ (~ e.up => Pre(v, w)) /\ Pre(w, z)
        /\ \A i \in 1..Len(z) : i > Len(w) => z[i] = ok \/ z[i].kind = "push"
    BY <1>14, <1>24, <1>25
  <2> HIDE DEF w, v, z
  <2>2. ASSUME NEW i \in 1..Len(v)
        PROVE  (i \in 1..Len(w) /\ v[i] = w[i]) \/ v[i] = ok \/ v[i].kind = "push"
    BY <2>1, <2>2 DEF Pre
  <2> QED BY <2>2 DEF w, v
<1>27. cl.conn = c => Flows(c)' /\ (cl.sup = "handshake" => Shaken(c)')
  <2> SUFFICES ASSUME cl.conn = c PROVE Flows(c)' /\ Shaken(c)'
    OBVIOUS
  <2>1. cl.sup = "handshake"
    BY <1>1, <1>2, <1>3 DEF Supervised, a
  <2>2. id = cl.sid /\ f.ps = cl.last /\ cl.sid # NoSession
    BY <1>3, <1>20, <2>1 DEF Asked, id
  <2>3. cl.last <= Len(s0.stamped)
    BY <1>1, <1>20, <2>2 DEF Streams
  <2>4. Shaken(c)'
    <3>1. AnswerOk(e, ok)
      BY <1>11, <1>14, <1>20 DEF AnswerOk
    <3>2. \A i \in 1..Len(Way(e)) : Answer(Way(e)[i], cl.hseq) => AnswerOk(e, Way(e)[i])
      BY <1>3, <1>26, <2>1, <3>1 DEF Answer
    <3>3. Offered(conn[c].sess)'
      BY <1>14, <1>15, <2>2 DEF Offered
    <3> QED BY <1>3, <1>14, <1>15, <2>1, <3>2, <3>3 DEF Shaken
  <2> DEFINE st == s0.stamped
             lo == cl.last
             w == Way(a)
             S == FrameT(m)
  <2>5. Run(w, lo, <<>>)
    BY <1>1, <1>2, <1>3 DEF Streams, Flows, StreamOfConn, a
  <2>6. w \in Seq(S) /\ lo \in Nat /\ st \in Seq(Nat) /\ lo <= Len(st) /\ Way(e) \in Seq(S)
    BY <1>2, <1>5, <1>24, <2>3
  <2>7. CASE e.up
    <3> DEFINE v == w \o fs
    <3>1. v \in Seq(S) /\ Pre(w, v) /\ Len(v) = Len(w) + 1 + (Len(st) - lo) /\ v[Len(w) + 1].kind # "push"
      <4>1. Len(rp) = Len(st) - lo
        BY <1>12, <2>2, <2>3
      <4>2. Len(v) = Len(w) + 1 + Len(rp) /\ Pre(w, v) /\ v[Len(w) + 1] = ok
        BY <1>25
      <4>3. v \in Seq(S)
        BY <1>14, <2>6, <2>7
      <4>4. v[Len(w) + 1].kind # "push"
        BY <1>11, <4>2
      <4> HIDE DEF v, w, st, lo, S
      <4> QED BY <4>1, <4>2, <4>3, <4>4
    <3>2. ASSUME NEW k \in 1..(Len(st) - lo)
          PROVE  /\ v[Len(w) + 1 + k].kind = "push" /\ v[Len(w) + 1 + k].ps = lo + k
                 /\ v[Len(w) + 1 + k].v = st[lo + k]
      <4>1. k \in 1..Len(rp) /\ rp[k].seq = lo + k /\ rp[k].v = st[lo + k]
        BY <1>12, <2>2, <2>3, SMTT(20)
      <4>2. v[Len(w) + 1 + k] = fs[1 + k]
        BY <1>25, <4>1
      <4>3. fs[1 + k].kind = "push" /\ fs[1 + k].ps = rp[k].seq /\ fs[1 + k].v = rp[k].v
        BY <1>13, <4>1
      <4> HIDE DEF v, w
      <4> QED BY <4>1, <4>2, <4>3
    <3>3. Way(e) = v
      BY <1>14, <2>7
    <3> HIDE DEF v, w, st, lo, S
    <3>4. Run(v, lo, st) /\ Full(v, lo, Len(st))
      BY <2>5, <2>6, <3>1, <3>2, RunReplay
    <3>5. Run(Way(e), cl.last, s0.stamped) /\ Full(Way(e), cl.last, Len(s0.stamped))
      BY <3>3, <3>4 DEF lo, st
    <3>6. StreamOfConn(conn[c])' = s0.stamped
      BY <1>14, <1>15, <1>16, <1>17, <1>20 DEF StreamOfConn
    <3>7. Flows(c)'
      BY <1>15, <3>5, <3>6 DEF Flows
    <3> QED BY <2>4, <3>7
  <2>8. CASE ~ e.up
    <3> HIDE DEF w, st, lo, S
    <3>1. \A k, t : Run(w, k, t)
      BY <2>5, <2>6, NoPush
    <3>2. Pre(Way(e), w)
      BY <1>24, <2>8 DEF w
    <3>3. Run(Way(e), lo, st)
      BY <2>6, <3>1, <3>2, RunPrefix
    <3>4. Run(Way(e), cl.last, s0.stamped)
      BY <3>3 DEF lo, st
    <3>5. StreamOfConn(conn[c])' = s0.stamped
      BY <1>14, <1>15, <1>16, <1>17, <1>20 DEF StreamOfConn
    <3>6. Flows(c)'
      BY <1>15, <2>8, <3>4, <3>5 DEF Flows
    <3> QED BY <2>4, <3>6
  <2> QED BY <2>7, <2>8
<1>28. conn'[c].in = <<>>
  BY <1>14, <1>15
<1> QED BY <1>18, <1>21, <1>23, <1>27, <1>28, ReadInv

LEMMA ReadAllInv ==
  ASSUME IInv, NEW c \in Conns, Read(c)
  PROVE  IInv' /\ Reads(c)
<1>1. PICK f : f = Head(conn[c].in)
  OBVIOUS
<1>2. conn[c].st = "read" /\ conn[c].in # <<>> /\ cl' = cl /\ pushes' = pushes
  BY DEF Read
<1>3. CASE f.kind = "hello" /\ f.sess = NoSession
  <2>1. Fresh(c, f)
    BY <1>1, <1>3 DEF Read
  <2> QED BY <1>1, <1>2, <1>3, <2>1, FreshInv
<1>4. CASE f.kind = "hello" /\ f.sess # NoSession
  <2>1. Resume(c, f)
    BY <1>1, <1>4 DEF Read
  <2>2. CASE sess[f.sess].live /\ CanResume(sess[f.sess], f.ps)
    BY <1>1, <1>2, <1>4, <2>1, <2>2, AcceptedInv
  <2>3. CASE ~ (sess[f.sess].live /\ CanResume(sess[f.sess], f.ps))
    BY <1>1, <1>2, <1>4, <2>1, <2>3, RefusedInv
  <2> QED BY <2>2, <2>3
<1>5. CASE f.kind # "hello"
  <2>1. Command(c, Head(conn[c].in)) /\ Head(conn[c].in).kind # "hello"
    BY <1>1, <1>5 DEF Read
  <2> QED BY <1>2, <2>1, CommandInv
<1> QED BY <1>3, <1>4, <1>5

LEMMA PublishInv ==
  ASSUME IInv, NEW s \in Sessions, Publish(s)
  PROVE  IInv'
BY PublishQuiet, PublishStreams, QuietInv

\* The actions that leave the client and every stream alone.
LEMMA SilentStep ==
  ASSUME IInv,
         \/ \E s \in Sessions : Age(s) \/ Fire(s) \/ Ended(s)
         \/ \E c \in Conns : Resumed(c) \/ ReadError(c) \/ Drain(c) \/ Gone(c) \/ Write(c) \/ Cut(c)
  PROVE  IInv' /\ cl' = cl /\ \A s \in Sessions : sess'[s].stamped = sess[s].stamped
<1>1. Typed' /\ Buffers' /\ Quiet /\ Silent
  <2>1. ASSUME NEW s \in Sessions, Age(s) \/ Fire(s) \/ Ended(s)
        PROVE  Typed' /\ Buffers' /\ Quiet /\ Silent
    BY <2>1, AgeQuiet, FireQuiet, EndedQuiet
  <2>2. ASSUME NEW c \in Conns,
               Resumed(c) \/ ReadError(c) \/ Drain(c) \/ Gone(c) \/ Write(c) \/ Cut(c)
        PROVE  Typed' /\ Buffers' /\ Quiet /\ Silent
    BY <2>2, ResumedQuiet, ReadErrorQuiet, DrainQuiet, GoneQuiet, WriteQuiet, CutQuiet
  <2> QED BY <2>1, <2>2
<1> QED BY <1>1, SilentInv DEF Quiet, Silent

LEMMA SameInv ==
  ASSUME IInv, UNCHANGED vars
  PROVE  IInv'
<1>1. sess' = sess /\ conn' = conn /\ cl' = cl /\ pushes' = pushes
  BY DEF vars
<1>2. /\ Typed /\ Buffers /\ Owned /\ Hellos /\ Supervised /\ Handshake /\ Subscribing /\ Streams
  BY DEF IInv
<1>3. Typed' /\ Buffers' /\ Owned' /\ Hellos'
  BY <1>1, <1>2 DEF Typed, Buffers, Owned, Hellos, SinkOk
<1>4. Supervised' /\ Handshake'
  BY <1>1, <1>2 DEF Supervised, Handshake, Offered, Shaken, NeverSub, Young, Asked
<1>5. Subscribing' /\ Streams'
  BY <1>1, <1>2 DEF Subscribing, Streams, Flows, StreamOfConn, Young, OneCall
<1> QED BY <1>3, <1>4, <1>5 DEF IInv

-----------------------------------------------------------------------------
(* The first state, and what the invariant says of a run.                  *)

LEMMA InitInv ==
  ASSUME Init
  PROVE  IInv
<1> DEFINE none == <<>>
           n == NewSession
           one == [n EXCEPT !.sink = 1, !.subs = TRUE]
           no == [n EXCEPT !.live = FALSE]
           o == [Opened EXCEPT !.sess = 1, !.drop = TRUE]
           z == F("none", 0, 0)
<1>1. /\ 1 \in Conns /\ 1 \in Sessions /\ 1 \in SessIds /\ NoSession \in SessIds /\ 1 # NoSession
      /\ NoConn \notin Conns /\ 1 # NoConn /\ QCap >= 0 /\ QCap \in Nat
  BY ResumeAssumption DEF Conns, Sessions, SessIds, NoSession
<1>2. /\ sess = [s \in Sessions |-> IF s = 1 THEN one ELSE no]
      /\ conn = [c \in Conns |-> IF c = 1 THEN o ELSE Unused] /\ pushes = 0
      /\ cl = [conn |-> 1, sid |-> 1, last |-> 0, seq |-> 2, pending |-> {}, ready |-> TRUE,
               sup |-> "none", supervising |-> FALSE, hseq |-> 0, hres |-> z, got |-> none, gaps |-> 0]
  BY DEF Init
<1>3. /\ none \in Seq(PushT) /\ none \in Seq(0..2) /\ none \in Seq(Nat) /\ Len(none) = 0
      /\ none \in Seq(FrameT(2)) /\ none \o none = none
  OBVIOUS
<1>4. n = [live |-> TRUE, nextSeq |-> 0, buf |-> none, sink |-> NoConn, aborted |-> none, timer |-> "off",
           expired |-> FALSE, subs |-> FALSE, stamped |-> none]
  BY Zenon DEF NewSession
<1>5. Unused = [st |-> "new", up |-> FALSE, q |-> none, qclosed |-> FALSE, w |-> "run",
                sess |-> NoSession, drop |-> FALSE, ab |-> none, in |-> none, net |-> none]
  BY Zenon DEF Unused
<1>6. z \in FrameT(2)
  BY FIs DEF Kinds
<1> HIDE DEF none, n, z
<1>7. /\ n \in SessionT(2) /\ n.live /\ n.nextSeq = 0 /\ n.buf = none /\ n.timer = "off" /\ ~ n.expired
      /\ ~ n.subs /\ n.stamped = none /\ n.sink = NoConn
  BY <1>3, <1>4 DEF SessionT
<1>8. /\ one \in SessionT(2) /\ one.live /\ one.sink = 1 /\ one.nextSeq = 0 /\ one.buf = none
      /\ one.stamped = none /\ ~ one.expired
  BY <1>1, <1>7 DEF SessionT
<1>9. no \in SessionT(2) /\ ~ no.live /\ ~ no.expired /\ no.sink = NoConn
  BY <1>7 DEF SessionT
<1>10. /\ Unused \in ConnT(2) /\ Unused.st = "new" /\ ~ Unused.up /\ ~ Unused.qclosed /\ ~ Unused.drop
       /\ Unused.sess = NoSession /\ Unused.in = none /\ Unused.q = none /\ Unused.net = none
  BY <1>1, <1>3, <1>5 DEF ConnT
<1>11. /\ o \in ConnT(2) /\ o.st = "read" /\ o.up /\ ~ o.qclosed /\ o.sess = 1 /\ o.in = none
       /\ o.q = none /\ o.net = none
  BY <1>1, <1>10 DEF ConnT, Opened
<1>12. BufferOk(one) /\ BufferOk(no)
  <2>1. BufferOk(one)
    <3> HIDE DEF one
    <3> QED BY <1>3, <1>8, SessionAssumption DEF BufferOk, Shape
  <2>2. BufferOk(no)
    BY <1>9 DEF BufferOk, n
  <2> QED BY <2>1, <2>2
<1> HIDE DEF one, no, o
<1>13. /\ \A s \in Sessions : sess[s] = IF s = 1 THEN one ELSE no
       /\ \A c \in Conns : conn[c] = IF c = 1 THEN o ELSE Unused
       /\ sess \in [Sessions -> SessionT(2)] /\ conn \in [Conns -> ConnT(2)]
  BY <1>2, <1>8, <1>9, <1>10, <1>11
<1>14. /\ cl.conn = 1 /\ cl.sid = 1 /\ cl.last = 0 /\ cl.seq = 2 /\ cl.ready /\ cl.sup = "none"
       /\ cl.supervising = FALSE /\ cl.hseq = 0 /\ cl.got = none /\ cl \in ClientT(2)
  BY <1>1, <1>2, <1>3, <1>6 DEF ClientT
<1>15. Typed /\ Buffers
  <2>1. \A c \in Conns : Len(conn[c].q) <= QCap
    BY <1>1, <1>3, <1>10, <1>11, <1>13
  <2> QED BY <1>2, <1>12, <1>13, <1>14, <2>1 DEF Typed, Buffers
<1>16. \A c \in Conns : conn[c].in = none
  BY <1>10, <1>11, <1>13
<1>17. Owned /\ Hellos
  <2>1. \A c \in Conns : ConnOk(conn[c])
    BY <1>1, <1>10, <1>11, <1>13 DEF ConnOk
  <2>2. \A c \in Conns : conn[c].sess # NoSession =>
          sess[conn[c].sess].live /\ (conn[c].up => sess[conn[c].sess].sink = c)
    BY <1>1, <1>8, <1>10, <1>11, <1>13
  <2>3. ASSUME NEW s \in Sessions PROVE SinkOk(s)
    BY <1>1, <1>8, <1>9, <1>11, <1>13 DEF SinkOk
  <2> QED BY <1>3, <1>16, <2>1, <2>2, <2>3 DEF Owned, Hellos
<1>18. Supervised /\ Handshake
  <2>1. (cl.sup # "none") = cl.supervising
    BY <1>14
  <2>2. sess[1] = one /\ conn[1] = o
    BY <1>1, <1>13
  <2> QED BY <1>1, <1>8, <1>11, <1>14, <2>1, <2>2 DEF Supervised, Handshake
<1>19. Subscribing
  <2>1. \A c \in Conns : ~ HasFrame(conn[c].in, "subscribe")
    BY <1>3, <1>16 DEF HasFrame
  <2>2. \A s \in Sessions : ~ sess[s].expired
    BY <1>8, <1>9, <1>13
  <2> QED BY <1>14, <2>1, <2>2 DEF Subscribing
<1>20. Streams
  <2>1. conn[1] = o /\ sess[1] = one
    BY <1>1, <1>13
  <2>2. Way(conn[1]) = none
    BY <1>3, <1>11, <2>1 DEF Way
  <2>3. Len(StreamOfConn(conn[1])) = 0
    BY <1>1, <1>3, <1>8, <1>11, <2>1 DEF StreamOfConn
  <2>4. Flows(1)
    BY <1>3, <1>14, <2>2, <2>3 DEF Flows, Run, Full
  <2> QED BY <1>1, <1>3, <1>8, <1>14, <2>1, <2>4 DEF Streams
<1> QED BY <1>15, <1>17, <1>18, <1>19, <1>20 DEF IInv

LEMMA InvSound ==
  ASSUME IInv
  PROVE  SessionsSound
<1>1. Typed /\ Buffers /\ Owned /\ Subscribing /\ Streams
  BY DEF IInv
<1>2. ASSUME NEW s \in Sessions PROVE SessionOk(sess[s])
  <2> DEFINE t == sess[s]
             b == t.buf
             k == t.nextSeq - Len(b)
  <2>1. b \in Seq(PushT) /\ BufferOk(t) /\ SinkOk(s) /\ (t.expired => ~ t.subs)
    BY <1>1, Parts DEF Buffers, Owned, Subscribing
  <2> SUFFICES ASSUME t.live PROVE SessionOk(t)
    BY DEF SessionOk
  <2>2. /\ t.nextSeq = Len(t.stamped) /\ Len(b) <= MaxMsgs
        /\ \A i \in 1..Len(b) : b[i].seq = k + i /\ b[i].v = t.stamped[k + i]
    BY <2>1 DEF BufferOk, Shape
  <2>3. /\ ~ t.expired /\ t.sink = NoConn => t.timer # "off"
        /\ t.expired => t.sink = NoConn /\ ~ t.subs
    BY <2>1 DEF SinkOk
  <2> DEFINE st == t.stamped
  <2> HIDE DEF b, k, st
  <2>4. b = [i \in 1..Len(b) |-> [seq |-> k + i, v |-> st[k + i], old |-> b[i].old]]
    <3>1. ASSUME NEW i \in 1..Len(b) PROVE b[i] = [seq |-> k + i, v |-> st[k + i], old |-> b[i].old]
      <4> DEFINE p == b[i]
      <4>1. p \in PushT /\ p.seq = k + i /\ p.v = st[k + i]
        BY <2>1, <2>2 DEF st
      <4> HIDE DEF p
      <4>2. p = [seq |-> k + i, v |-> st[k + i], old |-> p.old]
        BY <4>1 DEF PushT
      <4> QED BY <4>2 DEF p
    <3> DEFINE g == [i \in 1..Len(b) |-> [seq |-> k + i, v |-> st[k + i], old |-> b[i].old]]
    <3>2. \A i \in 1..Len(b) : g[i] = [seq |-> k + i, v |-> st[k + i], old |-> b[i].old]
      OBVIOUS
    <3>3. DOMAIN g = 1..Len(b) /\ g = [i \in DOMAIN g |-> g[i]]
      OBVIOUS
    <3> HIDE DEF g
    <3>4. b = [i \in 1..Len(b) |-> b[i]]
      BY <2>1
    <3>5. \A i \in 1..Len(b) : g[i] = b[i]
      BY <3>1, <3>2, Zenon
    <3>6. b = g
      BY <3>3, <3>4, <3>5
    <3> QED BY <3>6 DEF g
  <2> QED BY <2>2, <2>3, <2>4 DEF SessionOk, b, k, st
<1>3. \A s \in Sessions : sess[s].sink # NoConn =>
        conn[sess[s].sink].sess = s /\ conn[sess[s].sink].st # "gone"
  BY <1>1 DEF Owned, SinkOk
<1>4. \A c \in Conns : LET s == conn[c].sess IN
        s # NoSession /\ conn[c].up /\ ~conn[c].qclosed /\ ~sess[s].expired => sess[s].sink = c
  BY <1>1 DEF Owned
<1>5. cl.last = Len(cl.got)
  BY <1>1 DEF Streams
<1> QED BY <1>2, <1>3, <1>4, <1>5 DEF SessionsSound

-----------------------------------------------------------------------------
(* The client's stream.                                                    *)

\* The stream of the client's session, as Stream sees it.
Pushed == IF cl.sid = NoSession THEN <<>> ELSE sess[cl.sid].stamped
Streaming == <<Pushed, cl.got, cl.gaps>>

\* While the client and the streams of the live sessions stay, Stream stutters.
LEMMA Stutters ==
  ASSUME IInv, cl'.sid = cl.sid, cl'.got = cl.got, cl'.gaps = cl.gaps,
         \A s \in Sessions : sess[s].live => sess'[s].stamped = sess[s].stamped
  PROVE  Streaming' = Streaming
<1>1. cl.sid # NoSession => cl.sid \in Sessions /\ sess[cl.sid].live
  BY Parts DEF IInv, Supervised, SessIds, Sessions, NoSession
<1>2. Pushed' = Pushed
  BY <1>1 DEF Pushed
<1> QED BY <1>2 DEF Streaming

\* A push is the next one of its session's stream.
LEMMA PublishStep ==
  ASSUME IInv, NEW s \in Sessions, Publish(s)
  PROVE  StreamOf!Push \/ Streaming' = Streaming
<1> DEFINE t == sess[s]
           v == pushes + 1
           d == Deliver(t, v)
<1>1. /\ t \in SessionT(cl.seq) /\ t.live /\ BufferOk(t) /\ v \in Nat /\ t.stamped \in Seq(Nat)
      /\ sess \in [Sessions -> SessionT(cl.seq)]
  <2>1. t \in SessionT(cl.seq) /\ BufferOk(t) /\ t.stamped \in Seq(Nat)
    BY Parts DEF IInv, Buffers
  <2> QED BY <2>1 DEF IInv, Typed, Publish
<1>2. d.stamped = Append(t.stamped, v)
  <2> HIDE DEF t, v
  <2> QED BY <1>1, DeliverIs
<1>3. cl' = cl /\ sess' = [sess EXCEPT ![s] = d]
  BY DEF Publish
<1> HIDE DEF d
<1>4. sess'[s] = d /\ \A u \in Sessions : u # s => sess'[u] = sess[u]
  BY <1>1, <1>3
<1>5. CASE cl.sid = s
  <2> DEFINE st == t.stamped
             st2 == Append(st, v)
  <2>1. s # NoSession
    BY Parts DEF IInv
  <2>2. Pushed = st /\ Pushed' = st2
    BY <1>2, <1>3, <1>4, <1>5, <2>1 DEF Pushed
  <2>3. st \in Seq(Nat) /\ v \in Nat
    BY <1>1
  <2> HIDE DEF st, v
  <2>4. Len(st2) = Len(st) + 1 /\ SubSeq(st2, 1, Len(st)) = st
    BY <2>3
  <2> HIDE DEF st2
  <2>5. Len(Pushed') = Len(Pushed) + 1 /\ SubSeq(Pushed', 1, Len(Pushed)) = Pushed
    BY <2>2, <2>4
  <2> QED BY <1>3, <2>5 DEF StreamOf!Push, Pushed
<1>6. CASE cl.sid # s
  <2>1. cl.sid # NoSession => cl.sid \in Sessions
    BY Parts DEF IInv, SessIds, Sessions, NoSession
  <2>2. Pushed' = Pushed
    BY <1>3, <1>4, <1>6, <2>1 DEF Pushed
  <2> QED BY <1>3, <2>2 DEF Streaming
<1> QED BY <1>5, <1>6

\* What the application is handed is the next push it has not had.
LEMMA ReceiveStep ==
  ASSUME IInv, NEW c \in Conns, OnFrame(c)
  PROVE  StreamOf!Receive \/ Streaming' = Streaming
<1>1. sess' = sess /\ cl'.sid = cl.sid /\ cl'.gaps = cl.gaps
  <2>1. cl \in ClientT(cl.seq)
    BY DEF IInv, Typed
  <2> QED BY <2>1 DEF OnFrame, ClientT
<1>2. CASE cl'.got = cl.got
  BY <1>1, <1>2, Stutters
<1>3. CASE cl'.got # cl.got
  <2>1. /\ cl.last + 1 \in 1..Len(sess[cl.sid].stamped) /\ cl.sid # NoSession
        /\ cl'.got = Append(cl.got, sess[cl.sid].stamped[cl.last + 1])
    BY <1>3, OnFrameInv
  <2>2. cl.last = Len(cl.got) /\ cl.last \in Nat
    BY Parts DEF IInv, Streams
  <2>3. Pushed = sess[cl.sid].stamped /\ Pushed' = Pushed
    BY <1>1, <2>1 DEF Pushed
  <2>4. Len(cl.got) < Len(Pushed) /\ cl'.got = Append(cl.got, Pushed[Len(cl.got) + 1])
    <3> DEFINE n == Len(Pushed)
    <3>1. cl.last + 1 \in 1..n /\ n \in Nat
      <4>1. cl.sid \in Sessions
        BY <2>1, Parts DEF IInv, SessIds, Sessions, NoSession
      <4>2. sess[cl.sid].stamped \in Seq(Nat)
        BY <4>1, Parts DEF IInv
      <4> QED BY <2>1, <2>3, <4>2
    <3> HIDE DEF n
    <3>2. cl.last < n
      BY <2>2, <3>1
    <3> QED BY <2>1, <2>2, <2>3, <3>2 DEF n
  <2> QED BY <1>1, <2>3, <2>4 DEF StreamOf!Receive, Pushed
<1> QED BY <1>2, <1>3

\* The client's other steps; only an expired session is a gap.
LEMMA ClientStep ==
  ASSUME IInv, Exec \/ Reconnect \/ \E c \in Conns : Dead(c)
  PROVE  IInv' /\ (StreamOf!Gap \/ Streaming' = Streaming)
<1>1. cl \in ClientT(cl.seq)
  BY DEF IInv, Typed
<1>2. CASE Expired
  <2>1. cl'.sid = NoSession /\ cl'.got = <<>> /\ cl'.gaps = cl.gaps + 1
    BY <1>1, <1>2 DEF Expired, ClientT
  <2>2. StreamOf!Gap
    BY <2>1 DEF StreamOf!Gap
  <2> QED BY <1>2, <2>2, ExpiredInv
<1>3. CASE Negotiated
  <2>1. IInv' /\ (cl'.sid # cl.sid => cl.sid = NoSession /\ sess[cl'.sid].stamped = <<>>)
    BY <1>3, NegotiatedInv
  <2>2. cl'.got = cl.got /\ cl'.gaps = cl.gaps /\ sess' = sess
    BY <1>1, <1>3 DEF Negotiated, ClientT
  <2>3. CASE cl'.sid = cl.sid
    BY <2>1, <2>2, <2>3, Stutters
  <2>4. CASE cl'.sid # cl.sid
    <3>1. Pushed' = Pushed
      BY <2>1, <2>2, <2>4 DEF Pushed
    <3> QED BY <2>1, <2>2, <3>1 DEF Streaming
  <2> QED BY <2>3, <2>4
<1>4. CASE Dial
  <2>1. sess' = sess /\ cl'.sid = cl.sid /\ cl'.got = cl.got /\ cl'.gaps = cl.gaps
    BY <1>1, <1>4 DEF Dial, ClientT
  <2> QED BY <1>4, <2>1, DialInv, Stutters
<1>5. CASE Lost
  <2>1. sess' = sess /\ cl'.sid = cl.sid /\ cl'.got = cl.got /\ cl'.gaps = cl.gaps
    BY <1>1, <1>5 DEF Lost, ClientT
  <2> QED BY <1>5, <2>1, LostInv, Stutters
<1>6. CASE Resubscribe
  <2>1. sess' = sess /\ cl'.sid = cl.sid /\ cl'.got = cl.got /\ cl'.gaps = cl.gaps
    <3>1. CASE cl.conn = NoConn
      BY <1>1, <1>6, <3>1 DEF Resubscribe, ClientT
    <3>2. CASE cl.conn # NoConn
      BY <1>1, <1>6, <3>2 DEF Resubscribe, ClientT
    <3> QED BY <3>1, <3>2
  <2>2. IInv'
    BY <1>6, DoneInv, ResubscribeInv
  <2> QED BY <2>1, <2>2, Stutters
<1>7. CASE Resubscribed \/ SuperviseEnds
  <2>1. sess' = sess /\ cl'.sid = cl.sid /\ cl'.got = cl.got /\ cl'.gaps = cl.gaps
    BY <1>1, <1>7 DEF Resubscribed, SuperviseEnds, ClientT
  <2> QED BY <1>7, <2>1, DoneInv, Stutters
<1>8. CASE Exec
  <2>1. sess' = sess /\ cl'.sid = cl.sid /\ cl'.got = cl.got /\ cl'.gaps = cl.gaps
    BY <1>1, <1>8 DEF Exec, ClientT
  <2> QED BY <1>8, <2>1, ExecInv, Stutters
<1>9. ASSUME NEW c \in Conns, Dead(c) PROVE IInv' /\ Streaming' = Streaming
  <2>1. sess' = sess /\ cl'.sid = cl.sid /\ cl'.got = cl.got /\ cl'.gaps = cl.gaps
    BY <1>1, <1>9 DEF Dead, ClientT
  <2> QED BY <1>9, <2>1, DeadInv, Stutters
<1> QED BY <1>2, <1>3, <1>4, <1>5, <1>6, <1>7, <1>8, <1>9 DEF Reconnect

LEMMA StepInv ==
  ASSUME IInv, [Next]_vars
  PROVE  IInv' /\ (StreamOf!Next \/ Streaming' = Streaming)
<1>1. CASE UNCHANGED vars
  <2>1. Streaming' = Streaming
    BY <1>1 DEF vars, Streaming, Pushed
  <2> QED BY <1>1, <2>1, SameInv
<1>2. ASSUME NEW s \in Sessions, Publish(s) PROVE IInv' /\ (StreamOf!Next \/ Streaming' = Streaming)
  BY <1>2, PublishInv, PublishStep DEF StreamOf!Next
<1>3. ASSUME NEW c \in Conns, OnFrame(c) PROVE IInv' /\ (StreamOf!Next \/ Streaming' = Streaming)
  BY <1>3, OnFrameInv, ReceiveStep DEF StreamOf!Next
<1>4. CASE \/ \E s \in Sessions : Age(s) \/ Fire(s) \/ Ended(s)
           \/ \E c \in Conns : Resumed(c) \/ ReadError(c) \/ Drain(c) \/ Gone(c) \/ Write(c) \/ Cut(c)
  <2>1. IInv' /\ cl' = cl /\ \A s \in Sessions : sess'[s].stamped = sess[s].stamped
    BY <1>4, SilentStep
  <2> QED BY <2>1, Stutters
<1>5. ASSUME NEW c \in Conns, Read(c) PROVE IInv' /\ Streaming' = Streaming
  <2>1. IInv' /\ Reads(c) /\ cl' = cl
    BY <1>5, ReadAllInv DEF Read
  <2>2. \A s \in Sessions : sess[s].live => sess'[s].stamped = sess[s].stamped
    BY <2>1 DEF Reads
  <2> QED BY <2>1, <2>2, Stutters
<1>6. CASE Exec \/ Reconnect \/ \E c \in Conns : Dead(c)
  BY <1>6, ClientStep DEF StreamOf!Next
<1> QED BY <1>1, <1>2, <1>3, <1>4, <1>5, <1>6 DEF Next, Server

\* SessionsSound (Resume.tla): whatever connections are cut, resumed, taken over and
\* torn down in whatever order, the replay buffer of a session is the end of its stream,
\* an attachment is known on both sides, and a session nobody is attached to will expire.
THEOREM SessionsAreSound == Spec => []SessionsSound
<1>1. Init => IInv
  BY InitInv
<1>2. IInv /\ [Next]_vars => IInv'
  BY StepInv
<1>3. IInv => SessionsSound
  BY InvSound
<1> QED BY <1>1, <1>2, <1>3, PTL DEF Spec

\* ImplementsStream (Resume.tla): the client's pushes, as the application sees them, are
\* those of its session's stream, each once and in order, and what cannot be resumed is
\* a gap: a step of the client and the server is a step of Stream, or changes nothing there.
THEOREM ClientStream == Spec => ImplementsStream
<1>1. Init => IInv /\ StreamOf!Init
  <2>1. ASSUME Init PROVE StreamOf!Init
    <3>1. cl.sid = 1 /\ cl.got = <<>> /\ cl.gaps = 0
      BY <2>1 DEF Init
    <3>2. 1 \in Sessions /\ 1 # NoSession
      BY ResumeAssumption DEF Sessions, NoSession
    <3>3. sess[1].stamped = <<>>
      BY <2>1, <3>2 DEF Init, NewSession
    <3> QED BY <3>1, <3>2, <3>3 DEF StreamOf!Init
  <2> QED BY <2>1, InitInv
<1>2. IInv /\ [Next]_vars => IInv' /\ [StreamOf!Next]_<<IF cl.sid = NoSession THEN <<>> ELSE sess[cl.sid].stamped, cl.got, cl.gaps>>
  BY StepInv DEF Streaming, Pushed
<1> QED BY <1>1, <1>2, PTL DEF Spec, ImplementsStream, StreamOf!Spec
===============================================================================
