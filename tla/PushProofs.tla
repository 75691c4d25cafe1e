----------------------------- MODULE PushProofs -----------------------------
(* Proofs about Push: what a client reads is what was issued to it, in that *)
(* order; the broker's registry agrees with the connections; and a client   *)
(* that has read the ack of its subscription gets what is published, for    *)
(* any number of clients, any programs and any bounds.                      *)
EXTENDS Push, FiniteSetTheorems, SequenceTheorems, WellFoundedInduction, TLAPS

(* The invariant.                                                           *)

PatternSet == ToSet(Patterns)
Subjects == Channels \cup PatternSet \cup {NoChan}
Commands == [name : Names, args : Seq(Channels \cup PatternSet)]
Groups == [pattern : PatternSet \cup {""}, to : SUBSET Clients]
Shuts == {"", "slow", "quit", "kill", "client"}
States ==
  [k : Nat, pc : Places, cmd : Commands, todo : Seq(Subjects), out : Seq(Frames),
   pubs : Seq(Channels), pend : Seq(Groups), subs : SUBSET Channels, psubs : SUBSET PatternSet,
   mon : BOOLEAN, push : BOOLEAN, quit : BOOLEAN, wr : Seq(Frames), w : Writers,
   batch : Seq(Frames), shut : Shuts, kill : BOOLEAN, must : SUBSET Clients]
Cells == [item : Frames \cup {NoItem}, size : Nat]
Queues ==
  [items : Seq(Cells), head : Nat, count : Nat, bytes : Nat, closed : BOOLEAN,
   overflow : BOOLEAN, notify : BOOLEAN]

Acks == {"subscribe", "psubscribe", "unsubscribe", "punsubscribe"}
Resting == {"idle", "closing", "gone"}

\* What the configuration says of a client's program.
Program(p) ==
  /\ p \in Seq(Commands)
  /\ \A i \in DOMAIN p :
       /\ p[i].name \in {"subscribe", "publish"} => p[i].args \in Seq(Channels)
       /\ p[i].name = "psubscribe" => p[i].args \in Seq(PatternSet)

\* Where the handler of a connection is in its program p.
Place(p, s) ==
  /\ s.k <= Len(p)
  /\ s.k = 0 => s.cmd.name = "ping" /\ s.pc \in Resting
  /\ s.k > 0 => s.cmd = p[s.k]
  /\ s.pc = "args" => s.cmd.name \in Acks
  /\ s.pc = "publish" => s.cmd.name \in {"publish", "set"}
  /\ s.pc = "return" => s.cmd.name \notin Acks \cup {"publish", "set"}
  /\ s.pc = "args" /\ s.cmd.name = "subscribe" => s.todo \in Seq(Channels) /\ s.push
  /\ s.pc = "args" /\ s.cmd.name = "psubscribe" => s.todo \in Seq(PatternSet) /\ s.push
  /\ s.quit => s.pc \in {"return", "reply"} /\ s.cmd.name = "quit"
  /\ s.pc \in Resting => s.out = <<>> /\ s.wr = <<>>
  /\ s.pc \in {"closing", "gone"} => s.shut # ""
  /\ s.pc # "publish" => s.must = {}
  /\ s.pend # <<>> => s.pc = "publish" /\ s.pubs # <<>>
  /\ ~ s.push \/ s.pc = "gone" => s.subs = {} /\ s.psubs = {} /\ ~ s.mon
  /\ IsFiniteSet(s.subs) /\ IsFiniteSet(s.psubs)

\* What a command has to say: messages to itself, its acks or its reply.
Said(c, s) ==
  \A i \in DOMAIN s.out :
    /\ s.out[i].of = <<c, s.k>>
    /\ \/ s.out[i].kind \in {"message", "pmessage"}
       \/ s.cmd.name \in Acks /\ s.out[i].kind = s.cmd.name
       \/ s.out[i].kind = "reply" /\ s.out[i].what = s.cmd.name

\* Where the frames of a connection are: on the wire, with the writer, or in the ring.
Stream(s, qc, wi, is) ==
  /\ QueueShape(qc)
  /\ IsPrefix(wi, is)
  /\ s.shut = "" => is = wi \o s.wr \o s.batch \o Contents(qc)
  /\ s.push => s.wr = <<>> /\ s.w # "off"
  /\ ~ s.push => qc = NewQ /\ s.w = "off"
  /\ s.w = "write" => s.batch # <<>> /\ Len(s.batch) <= BatchMax
  /\ s.w # "write" => s.batch = <<>>
  /\ Refused(qc) => s.shut # ""

IsReply(f, what) == f.kind = "reply" /\ f.what = what
Own(p, c, f) == /\ f.kind \in {"message", "pmessage"} /\ f.of[1] = c
                /\ p[f.of[2]].name = "publish"
Answers(f, g) == f.kind = "reply" /\ f.of = g.of

\* A publisher's own messages follow the reply of the PUBLISH.
OwnOk(p, c, s, qc, is) ==
  /\ \A i \in DOMAIN is : Own(p, c, is[i]) => \E j \in 1..(i - 1) : Answers(is[j], is[i])
  /\ s.pc = "reply" => \A i \in DOMAIN s.out : Own(p, c, s.out[i]) =>
       \/ \E j \in 1..(i - 1) : Answers(s.out[j], s.out[i])
       \/ \E j \in DOMAIN is : Answers(is[j], s.out[i])
       \/ Refused(qc)

\* A close mark, and the end of a connection that QUIT, follow the answer to the QUIT.
QuitOk(s, qc, wi, is) ==
  /\ \A i \in DOMAIN is : is[i].kind = "close" => \E j \in 1..(i - 1) : IsReply(is[j], "quit")
  /\ s.shut = "quit" => \E i \in DOMAIN wi : IsReply(wi[i], "quit")
  /\ s.quit /\ s.pc = "reply" =>
       \/ \E i \in DOMAIN s.out : IsReply(s.out[i], "quit")
       \/ \E i \in DOMAIN is : IsReply(is[i], "quit")
       \/ Refused(qc)

\* Frame f ends a subscription to name, whose acks are of kind on and off.
Ends(f, name, off) == \/ f.kind = off /\ f.what = name
                      \/ IsReply(f, "reset")

\* The last word on name in a stream is the ack i of a subscription.
Open(is, i, on, off) ==
  is[i].kind = on /\ \A j \in DOMAIN is : j > i => ~ Ends(is[j], is[i].what, off)

\* The acks among frames o are of subjects in set.
Marks(o, on, set) == \A i \in DOMAIN o : o[i].kind = on => o[i].what \in set

\* A subscription that was acked last is registered, or its end is being said.
AckOk(s, is, on, off, set) ==
  /\ s.shut = "" => \A i \in DOMAIN is : Open(is, i, on, off) /\ is[i].what \notin set =>
       \/ \E j \in DOMAIN s.out : Ends(s.out[j], is[i].what, off)
       \/ s.pc = "return" /\ s.cmd.name = "reset"
  /\ Marks(s.out, on, set)

\* All that is true of a connection by itself.
Local(p, c, s, qc, wi, is) ==
  /\ Place(p, s) /\ Said(c, s)
  /\ Stream(s, qc, wi, is)
  /\ OwnOk(p, c, s, qc, is)
  /\ QuitOk(s, qc, wi, is)
  /\ AckOk(s, is, "subscribe", "unsubscribe", s.subs)
  /\ AckOk(s, is, "psubscribe", "punsubscribe", s.psubs)

Typed ==
  /\ case \in Cases
  /\ st \in [Clients -> States] /\ q \in [Clients -> Queues]
  /\ wire \in [Clients -> Seq(Frames)] /\ issued \in [Clients -> Seq(Frames)]
  /\ BrokerTypeOK

Locals == \A c \in Clients : Local(case.prog[c], c, st[c], q[c], wire[c], issued[c])

\* The broker and the connections know the same registrations.
Registered ==
  \A c \in Clients :
    /\ \A ch \in Channels : c \in channels[ch] <=> ch \in st[c].subs
    /\ \A p \in PatternSet : c \in patterns[p] <=> p \in st[c].psubs

\* Whoever is about to get a message has a push writer.
Pushing ==
  \A c \in Clients : \A i \in DOMAIN st[c].pend : \A r \in st[c].pend[i].to : st[r].push

\* Whoever is entitled to the message that c publishes has it, will get it, or is lost.
Owed(c, r) ==
  \/ st[r].shut # ""
  \/ \E i \in DOMAIN issued[r] : issued[r][i].of = <<c, st[c].k>>
  \/ r = c /\ \E i \in DOMAIN st[c].out : st[c].out[i].of = <<c, st[c].k>>
  \/ \E i \in DOMAIN st[c].pend : r \in st[c].pend[i].to

Entitling == \A c \in Clients : \A r \in st[c].must : Owed(c, r)

IInv == Typed /\ Locals /\ Registered /\ Pushing /\ Entitling

-----------------------------------------------------------------------------
(* Recursion: on what a queue counts for, and on the items a round takes.   *)

\* A set with 0 and with every successor of its members has all natural numbers.
LEMMA SetInduction ==
  ASSUME NEW S, 0 \in S, \A n \in Nat : n \in S => n + 1 \in S
  PROVE  Nat \subseteq S
<1> DEFINE T == Nat \ S
           R == {ss \in Nat \X Nat : ss[1] < ss[2]}
<1> SUFFICES ASSUME T # {} PROVE FALSE
  OBVIOUS
<1>1. IsWellFoundedOn(R, Nat) /\ T \subseteq Nat
  BY NatLessThanWellFounded DEF OpToRel
<1>2. PICK x \in T : \A y \in T : ~ (<<y, x>> \in R)
  <2> HIDE DEF T, R
  <2> QED BY <1>1, WFMin
<1>3. x # 0 /\ x - 1 \in Nat /\ x = (x - 1) + 1 /\ x - 1 < x /\ x \in Nat
  OBVIOUS
<1>4. <<x - 1, x>> \in R
  BY <1>3
<1>5. x - 1 \in S
  BY <1>2, <1>3, <1>4
<1> QED BY <1>3, <1>5

\* A set of natural numbers that is not empty has a least element.
LEMMA Least ==
  ASSUME NEW T \in SUBSET Nat, T # {}
  PROVE  \E x \in T : \A y \in T : x <= y
<1> DEFINE R == {ss \in Nat \X Nat : ss[1] < ss[2]}
<1>1. IsWellFoundedOn(R, Nat)
  BY NatLessThanWellFounded DEF OpToRel
<1>2. PICK x \in T : \A y \in T : ~ (<<y, x>> \in R)
  <2> HIDE DEF R
  <2> QED BY <1>1, WFMin
<1>3. ASSUME NEW y \in T PROVE x <= y
  <2>1. ~ (y < x)
    BY <1>2
  <2> QED BY <2>1
<1> QED BY <1>3

\* Sizes of the queued items can be added up ...
LEMMA SizesExist ==
  ASSUME NEW N \in Nat, NEW z
  PROVE  \E f : f = [i \in 0..N |-> IF i = 0 THEN 0 ELSE f[i - 1] + z[i]]
<1> DEFINE Body(f, m) == [i \in 0..m |-> IF i = 0 THEN 0 ELSE f[i - 1] + z[i]]
           S == {m \in Nat : \E f : f = Body(f, m)}
<1>1. 0 \in S
  <2>1. [i \in 0..0 |-> 0] = Body([i \in 0..0 |-> 0], 0)
    OBVIOUS
  <2> QED BY <2>1
<1>2. ASSUME NEW m \in Nat, m \in S PROVE m + 1 \in S
  <2>1. PICK f : f = Body(f, m)
    BY <1>2
  <2> DEFINE g == [i \in 0..(m + 1) |-> IF i <= m THEN f[i] ELSE f[m] + z[m + 1]]
  <2>2. ASSUME NEW i \in 0..(m + 1)
        PROVE  g[i] = IF i = 0 THEN 0 ELSE g[i - 1] + z[i]
    <3>1. CASE i <= m
      <4>1. i \in 0..m /\ g[i] = f[i] /\ f[i] = IF i = 0 THEN 0 ELSE f[i - 1] + z[i]
        BY <2>1, <3>1
      <4>2. i # 0 => g[i - 1] = f[i - 1]
        BY <3>1
      <4> QED BY <4>1, <4>2
    <3>2. CASE i = m + 1
      <4>1. g[i] = f[m] + z[m + 1] /\ g[i - 1] = f[m] /\ i # 0
        BY <3>2
      <4> QED BY <3>2, <4>1
    <3> QED BY <3>1, <3>2
  <2>3. g = Body(g, m + 1)
    BY <2>2
  <2> HIDE DEF g, Body
  <2> QED BY <2>3
<1>3. N \in S
  <2> HIDE DEF S
  <2> QED BY <1>1, <1>2, SetInduction
<1> QED BY <1>3

\* ... and items popped one after the other.
Pops(f, qc, n) == f[0] = qc /\ \A i \in 1..n : f[i] = Pop(f[i - 1])

LEMMA PopsExist ==
  ASSUME NEW N \in Nat, NEW qc
  PROVE  \E f : Pops(f, qc, N)
<1> USE DEF Pops
<1> DEFINE Good(f, m) == /\ f[0] = qc
                         /\ \A i \in 1..m : f[i] = Pop(f[i - 1])
           S == {m \in Nat : \E f : Good(f, m)}
<1>1. 0 \in S
  <2> DEFINE g == [i \in 0..0 |-> qc]
  <2>1. g[0] = qc
    OBVIOUS
  <2> HIDE DEF g
  <2>2. Good(g, 0)
    BY <2>1
  <2> HIDE DEF Good
  <2> QED BY <2>2
<1>2. ASSUME NEW m \in Nat, m \in S PROVE m + 1 \in S
  <2>1. PICK f : Good(f, m)
    BY <1>2
  <2> DEFINE g == [i \in 0..(m + 1) |-> IF i <= m THEN f[i] ELSE Pop(f[m])]
  <2>2. ASSUME NEW i \in 1..(m + 1) PROVE g[i] = Pop(g[i - 1])
    <3>1. CASE i <= m
      <4>1. i \in 1..m /\ g[i] = f[i] /\ g[i - 1] = f[i - 1] /\ f[i] = Pop(f[i - 1])
        BY <2>1, <3>1
      <4> QED BY <4>1
    <3>2. CASE i = m + 1
      <4>1. g[i] = Pop(f[m]) /\ g[i - 1] = f[m]
        BY <3>2
      <4> QED BY <4>1
    <3> QED BY <3>1, <3>2
  <2>3. g[0] = qc
    BY <2>1
  <2> HIDE DEF g
  <2>4. Good(g, m + 1)
    BY <2>2, <2>3
  <2> HIDE DEF Good
  <2> QED BY <2>4
<1>3. N \in S
  <2> HIDE DEF S
  <2> QED BY <1>1, <1>2, SetInduction
<1> QED BY <1>3

-----------------------------------------------------------------------------
(* The ring.                                                                *)

\* The n-th of the queued items, from 0, and what it counts for.
SizeAt(qc, n) == qc.items[Slot(qc, n)].size
Sound(qc) ==
  /\ qc.items \in Seq(Cells) /\ qc.head \in Nat /\ qc.count \in Nat
  /\ qc.count <= Len(qc.items) /\ (qc.head = 0 \/ qc.head < Len(qc.items))

\* The indexes of a ring are its slots, each once.
LEMMA SlotIs ==
  ASSUME NEW qc, Sound(qc), NEW i \in Nat, i < Len(qc.items)
  PROVE  /\ Slot(qc, i) \in 1..Len(qc.items)
         /\ \A j \in Nat : j < Len(qc.items) /\ Slot(qc, j) = Slot(qc, i) => j = i
<1>1. qc.head \in Nat /\ Len(qc.items) \in Nat /\ qc.head < Len(qc.items)
  BY DEF Sound
<1> DEFINE n == Len(qc.items)
<1>2. /\ Slot(qc, i) = (IF qc.head + i >= n THEN (qc.head + i) - n ELSE qc.head + i) + 1
      /\ \A j : Slot(qc, j) = (IF qc.head + j >= n THEN (qc.head + j) - n ELSE qc.head + j) + 1
  BY DEF Slot
<1>3. qc.head \in Nat /\ n \in Nat /\ qc.head < n /\ i < n
  BY <1>1
<1> HIDE DEF n
<1>4. Slot(qc, i) \in 1..n
  BY <1>2, <1>3
<1>5. ASSUME NEW j \in Nat, j < n, Slot(qc, j) = Slot(qc, i) PROVE j = i
  <2>1. Slot(qc, j) = (IF qc.head + j >= n THEN (qc.head + j) - n ELSE qc.head + j) + 1
    BY <1>2
  <2> QED BY <1>2, <1>3, <1>5, <2>1
<1> QED BY <1>4, <1>5 DEF n

LEMMA SizeStep ==
  ASSUME NEW qc, Sound(qc)
  PROVE  /\ SizeOf(qc, 0) = 0
         /\ \A n \in 1..qc.count : SizeOf(qc, n) = SizeOf(qc, n - 1) + SizeAt(qc, n - 1)
         /\ \A n \in 0..(qc.count - 1) : SizeAt(qc, n) \in Nat
<1> DEFINE N == qc.count
           z == [i \in 1..N |-> SizeAt(qc, i - 1)]
           Body(f) == [i \in 0..N |-> IF i = 0 THEN 0 ELSE f[i - 1] + qc.items[Slot(qc, i - 1)].size]
           sum == CHOOSE f : f = Body(f)
<1>1. N \in Nat
  BY DEF Sound
<1>2. \A n : SizeOf(qc, n) = sum[n]
  BY DEF SizeOf
<1>3. sum = Body(sum)
  <2>1. PICK f : f = [i \in 0..N |-> IF i = 0 THEN 0 ELSE f[i - 1] + z[i]]
    <3> HIDE DEF N, z
    <3> QED BY <1>1, SizesExist
  <2>2. ASSUME NEW i \in 0..N
        PROVE  f[i] = IF i = 0 THEN 0 ELSE f[i - 1] + qc.items[Slot(qc, i - 1)].size
    <3>1. f[i] = IF i = 0 THEN 0 ELSE f[i - 1] + z[i]
      BY <2>1
    <3>2. i # 0 => z[i] = qc.items[Slot(qc, i - 1)].size
      BY <1>1 DEF SizeAt
    <3> QED BY <3>1, <3>2
  <2>3. f = Body(f)
    BY <2>1, <2>2
  <2> HIDE DEF Body
  <2> QED BY <2>3
<1> HIDE DEF sum
<1>4. sum[0] = 0
  BY <1>1, <1>3
<1>5. ASSUME NEW n \in 1..N PROVE sum[n] = sum[n - 1] + SizeAt(qc, n - 1)
  <2>1. n \in 0..N /\ n # 0
    BY <1>1
  <2> QED BY <1>3, <2>1 DEF SizeAt
<1>6. ASSUME NEW n \in 0..(N - 1) PROVE SizeAt(qc, n) \in Nat
  <2>1. n \in Nat /\ n < Len(qc.items)
    BY <1>1 DEF Sound
  <2>2. Slot(qc, n) \in 1..Len(qc.items)
    BY <2>1, SlotIs
  <2>3. qc.items[Slot(qc, n)] \in Cells
    BY <2>2 DEF Sound
  <2> QED BY <2>3 DEF SizeAt, Cells
<1> QED BY <1>2, <1>4, <1>5, <1>6

LEMMA SizeType ==
  ASSUME NEW qc, Sound(qc), NEW n \in 0..qc.count
  PROVE  SizeOf(qc, n) \in Nat
<1> DEFINE S == {m \in Nat : m <= qc.count => SizeOf(qc, m) \in Nat}
<1>1. qc.count \in Nat
  BY DEF Sound
<1>2. 0 \in S
  BY SizeStep
<1>3. ASSUME NEW m \in Nat, m \in S PROVE m + 1 \in S
  <2> SUFFICES ASSUME m + 1 <= qc.count PROVE SizeOf(qc, m + 1) \in Nat
    OBVIOUS
  <2>1. m + 1 \in 1..qc.count /\ (m + 1) - 1 = m /\ m \in 0..(qc.count - 1) /\ SizeOf(qc, m) \in Nat
    BY <1>1, <1>3
  <2>2. SizeOf(qc, m + 1) = SizeOf(qc, m) + SizeAt(qc, m) /\ SizeAt(qc, m) \in Nat
    BY <2>1, SizeStep
  <2> QED BY <2>1, <2>2
<1>4. n \in S
  <2> HIDE DEF S
  <2> QED BY <1>1, <1>2, <1>3, SetInduction
<1> QED BY <1>1, <1>4

\* Two rings whose items, from the d-th of one on, count for the same.
LEMMA SizeShift ==
  ASSUME NEW r, Sound(r), NEW qc, Sound(qc), NEW d \in Nat, NEW n \in Nat,
         n <= r.count, n + d <= qc.count,
         \A i \in 0..(n - 1) : SizeAt(r, i) = SizeAt(qc, i + d)
  PROVE  SizeOf(qc, n + d) = SizeOf(r, n) + SizeOf(qc, d)
<1> DEFINE S == {m \in Nat : m <= n => SizeOf(qc, m + d) = SizeOf(r, m) + SizeOf(qc, d)}
<1>1. qc.count \in Nat /\ r.count \in Nat
  BY DEF Sound
<1>2. 0 \in S
  <2>1. SizeOf(r, 0) = 0 /\ SizeOf(qc, d) \in Nat /\ 0 + d = d
    BY <1>1, SizeStep, SizeType
  <2> QED BY <2>1
<1>3. ASSUME NEW m \in Nat, m \in S PROVE m + 1 \in S
  <2> SUFFICES ASSUME m + 1 <= n PROVE SizeOf(qc, (m + 1) + d) = SizeOf(r, m + 1) + SizeOf(qc, d)
    OBVIOUS
  <2>1. SizeOf(qc, m + d) = SizeOf(r, m) + SizeOf(qc, d)
    BY <1>3
  <2>2. /\ (m + d) + 1 \in 1..qc.count /\ ((m + d) + 1) - 1 = m + d /\ (m + 1) + d = (m + d) + 1
        /\ m + 1 \in 1..r.count /\ (m + 1) - 1 = m /\ m \in 0..(n - 1)
        /\ m + d \in 0..(qc.count - 1) /\ m \in 0..r.count /\ d \in 0..qc.count /\ m + d \in 0..qc.count
    BY <1>1
  <2>3. SizeOf(qc, (m + d) + 1) = SizeOf(qc, m + d) + SizeAt(qc, m + d) /\ SizeAt(qc, m + d) \in Nat
    BY <2>2, SizeStep
  <2>4. SizeOf(r, m + 1) = SizeOf(r, m) + SizeAt(r, m)
    BY <2>2, SizeStep
  <2>5. SizeAt(r, m) = SizeAt(qc, m + d)
    BY <2>2
  <2>6. SizeOf(qc, m + d) \in Nat /\ SizeOf(r, m) \in Nat /\ SizeOf(qc, d) \in Nat
    BY <2>2, SizeType
  <2> QED BY <2>1, <2>2, <2>3, <2>4, <2>5, <2>6
<1>4. n \in S
  <2> HIDE DEF S
  <2> QED BY <1>2, <1>3, SetInduction
<1> QED BY <1>4

RingOk(qc) == qc \in Queues /\ QueueShape(qc)

Used(qc, i) == \E k \in 0..(qc.count - 1) : Slot(qc, k) = i

LEMMA RingSound ==
  ASSUME NEW qc, RingOk(qc)
  PROVE  /\ Sound(qc) /\ qc.bytes <= Cap /\ qc.bytes = SizeOf(qc, qc.count)
         /\ \A i \in 1..Len(qc.items) : qc.items[i].item # NoItem <=> Used(qc, i)
BY DEF RingOk, QueueShape, Sound, Used, Queues

\* The queued items are frames.
LEMMA RingContents ==
  ASSUME NEW qc, RingOk(qc)
  PROVE  /\ Contents(qc) \in Seq(Frames) /\ Len(Contents(qc)) = qc.count
         /\ \A i \in 1..qc.count : Contents(qc)[i] = qc.items[Slot(qc, i - 1)].item
<1>1. Sound(qc) /\ qc.count \in Nat /\ qc.count <= Len(qc.items) /\ Len(qc.items) \in Nat
  BY RingSound DEF Sound
<1>2. ASSUME NEW i \in 1..qc.count PROVE qc.items[Slot(qc, i - 1)].item \in Frames
  <2>1. i - 1 \in Nat /\ i - 1 < Len(qc.items) /\ i - 1 \in 0..(qc.count - 1)
    BY <1>1
  <2>2. Slot(qc, i - 1) \in 1..Len(qc.items)
    BY <1>1, <2>1, SlotIs
  <2>3. qc.items[Slot(qc, i - 1)].item # NoItem
    BY <2>1, <2>2, RingSound DEF Used
  <2>4. qc.items[Slot(qc, i - 1)] \in Cells
    BY <1>1, <2>2 DEF Sound
  <2> QED BY <2>3, <2>4 DEF Cells
<1>3. Contents(qc) \in [1..qc.count -> Frames]
  BY <1>2 DEF Contents
<1>4. Contents(qc) \in Seq(Frames) /\ Len(Contents(qc)) = qc.count
  BY <1>1, <1>3
<1> QED BY <1>4 DEF Contents

\* Growing keeps the items and makes room.
LEMMA GrowRing ==
  ASSUME NEW qc, RingOk(qc), qc.count = Len(qc.items)
  PROVE  /\ RingOk(Grow(qc)) /\ Contents(Grow(qc)) = Contents(qc)
         /\ Grow(qc).count = qc.count /\ qc.count < Len(Grow(qc).items) /\ Grow(qc).bytes = qc.bytes
         /\ Grow(qc).closed = qc.closed /\ Grow(qc).overflow = qc.overflow
<1> DEFINE n == IF 2 * Len(qc.items) < InitItems THEN InitItems ELSE 2 * Len(qc.items)
           free == [item |-> NoItem, size |-> 0]
           its == [i \in 1..n |-> IF i <= qc.count THEN qc.items[Slot(qc, i - 1)] ELSE free]
           g == Grow(qc)
<1>1. Sound(qc) /\ qc.count \in Nat /\ Len(qc.items) \in Nat /\ qc.items \in Seq(Cells)
  BY RingSound DEF Sound
<1>2. n \in Nat /\ qc.count < n
  BY <1>1, PushQAssumption
<1>3. ASSUME NEW i \in 1..qc.count PROVE qc.items[Slot(qc, i - 1)] \in Cells
  <2>1. i - 1 \in Nat /\ i - 1 < Len(qc.items)
    BY <1>1
  <2>2. Slot(qc, i - 1) \in 1..Len(qc.items)
    BY <1>1, <2>1, SlotIs
  <2> QED BY <1>1, <2>2
<1>4. g = [qc EXCEPT !.head = 0, !.items = its]
  BY DEF Grow
<1> HIDE DEF n
<1>5. free \in Cells
  BY DEF Cells
<1>6. its \in [1..n -> Cells]
  <2> HIDE DEF free
  <2> QED BY <1>1, <1>2, <1>3, <1>5
<1>7. its \in Seq(Cells) /\ Len(its) = n
  BY <1>2, <1>6
<1>8. /\ g \in Queues /\ g.items = its /\ g.head = 0 /\ g.count = qc.count /\ g.bytes = qc.bytes
      /\ g.closed = qc.closed /\ g.overflow = qc.overflow
  <2> HIDE DEF its, g
  <2>1. qc \in Queues
    BY DEF RingOk
  <2> QED BY <1>4, <1>7, <2>1 DEF Queues
<1>9. \A i \in 1..qc.count : its[i] = qc.items[Slot(qc, i - 1)]
  BY <1>1, <1>2
<1>10. \A i \in (qc.count + 1)..n : its[i].item = NoItem
  BY <1>1, <1>2
<1> HIDE DEF its, g
<1>11. \A k \in 0..(n - 1) : Slot(g, k) = k + 1
  BY <1>7, <1>8, <1>2 DEF Slot
<1>12. Sound(g)
  BY <1>1, <1>2, <1>7, <1>8 DEF Sound
<1>13. g.bytes = SizeOf(g, g.count)
  <2>1. ASSUME NEW i \in 0..(qc.count - 1) PROVE SizeAt(g, i) = SizeAt(qc, i + 0)
    <3>1. i \in 0..(n - 1) /\ i + 1 \in 1..qc.count /\ (i + 1) - 1 = i /\ i + 0 = i
      BY <1>1, <1>2
    <3>2. Slot(g, i) = i + 1 /\ its[i + 1] = qc.items[Slot(qc, i)]
      BY <1>9, <1>11, <3>1
    <3> QED BY <1>8, <3>1, <3>2 DEF SizeAt
  <2>2. SizeOf(qc, qc.count + 0) = SizeOf(g, qc.count) + SizeOf(qc, 0)
    BY <1>1, <1>8, <1>12, <2>1, SizeShift
  <2>3. SizeOf(qc, 0) = 0 /\ qc.count + 0 = qc.count /\ SizeOf(g, qc.count) \in Nat
    BY <1>1, <1>8, <1>12, SizeStep, SizeType
  <2> QED BY <1>8, <2>2, <2>3, RingSound
<1>14. ASSUME NEW i \in 1..Len(g.items) PROVE g.items[i].item # NoItem <=> Used(g, i)
  <2>1. i \in 1..n
    BY <1>7, <1>8
  <2>2. Used(g, i) <=> i <= qc.count
    <3>1. i <= qc.count => i - 1 \in 0..(qc.count - 1) /\ Slot(g, i - 1) = i
      BY <1>1, <1>2, <1>11, <2>1
    <3>2. ASSUME NEW k \in 0..(qc.count - 1), Slot(g, k) = i PROVE i <= qc.count
      BY <1>1, <1>2, <1>11, <3>2
    <3> QED BY <1>8, <3>1, <3>2 DEF Used
  <2>3. CASE i <= qc.count
    <3>1. g.items[i].item = qc.items[Slot(qc, i - 1)].item /\ i \in 1..qc.count
      BY <1>8, <1>9, <2>1, <2>3
    <3>2. qc.items[Slot(qc, i - 1)].item \in Frames
      BY <3>1, RingContents
    <3> QED BY <2>2, <2>3, <3>1, <3>2, PushAssumption
  <2>4. CASE ~ i <= qc.count
    BY <1>1, <1>8, <1>10, <2>1, <2>2, <2>4
  <2> QED BY <2>3, <2>4
<1>15. RingOk(g)
  BY <1>1, <1>2, <1>7, <1>8, <1>12, <1>13, <1>14, RingSound DEF RingOk, QueueShape, Used
<1>16. Contents(g) = Contents(qc)
  <2>1. ASSUME NEW i \in 1..qc.count PROVE Contents(g)[i] = Contents(qc)[i]
    <3>1. i - 1 \in 0..(n - 1) /\ (i - 1) + 1 = i
      BY <1>1, <1>2
    <3>2. Slot(g, i - 1) = i
      BY <1>11, <3>1
    <3> QED BY <1>8, <1>9, <1>15, <3>2, RingContents
  <2>2. Contents(g) = [i \in 1..qc.count |-> Contents(g)[i]]
    BY <1>8 DEF Contents
  <2>3. Contents(qc) = [i \in 1..qc.count |-> Contents(qc)[i]]
    BY DEF Contents
  <2> QED BY <2>1, <2>2, <2>3
<1> QED BY <1>2, <1>7, <1>8, <1>15, <1>16 DEF g

\* What Enqueue does with room in the ring, of an item that fits.
LEMMA PutRing ==
  ASSUME NEW g, RingOk(g), g.count < Len(g.items), NEW f \in Frames, NEW n \in Nat, g.bytes + n <= Cap,
         NEW h \in Queues, h.head = g.head, h.count = g.count + 1, h.bytes = g.bytes + n,
         Len(h.items) = Len(g.items), h.items[Slot(g, g.count)] = [item |-> f, size |-> n],
         \A i \in 1..Len(g.items) : i # Slot(g, g.count) => h.items[i] = g.items[i]
  PROVE  RingOk(h) /\ Contents(h) = Append(Contents(g), f)
<1> DEFINE at == Slot(g, g.count)
           cell == [item |-> f, size |-> n]
<1>1. Sound(g) /\ g \in Queues /\ g.count \in Nat /\ Len(g.items) \in Nat /\ g.items \in Seq(Cells)
      /\ g.bytes \in Nat
  BY RingSound DEF RingOk, Queues
<1>2. at \in 1..Len(g.items)
  BY <1>1, SlotIs
<1>3. cell \in Cells
  BY DEF Cells
<1>4. h \in Queues /\ h.head = g.head /\ h.count = g.count + 1 /\ h.bytes = g.bytes + n
  OBVIOUS
<1>5. /\ Len(h.items) = Len(g.items) /\ h.items[at] = cell
      /\ \A i \in 1..Len(g.items) : i # at => h.items[i] = g.items[i]
  OBVIOUS
<1> HIDE DEF cell, at
<1>6. \A k \in Nat : k < Len(g.items) => Slot(h, k) = Slot(g, k)
  BY <1>1, <1>5 DEF Slot
<1>7. Sound(h)
  BY <1>1, <1>4, <1>5 DEF Sound, Queues
<1>8. \A k \in 0..(g.count - 1) : Slot(g, k) # at /\ h.items[Slot(h, k)] = g.items[Slot(g, k)]
  <2> TAKE k \in 0..(g.count - 1)
  <2>1. k \in Nat /\ k < Len(g.items) /\ k # g.count
    BY <1>1
  <2>2. Slot(g, k) # at /\ Slot(g, k) \in 1..Len(g.items)
    BY <1>1, <2>1, SlotIs DEF at
  <2> QED BY <1>5, <1>6, <2>1, <2>2
<1>9. h.items[Slot(h, g.count)] = cell
  BY <1>1, <1>5, <1>6 DEF at
<1>10. h.bytes = SizeOf(h, h.count)
  <2>1. ASSUME NEW i \in 0..(g.count - 1) PROVE SizeAt(h, i) = SizeAt(g, i + 0)
    <3>1. i + 0 = i
      OBVIOUS
    <3> QED BY <1>8, <3>1 DEF SizeAt
  <2>2. SizeOf(g, g.count + 0) = SizeOf(h, g.count) + SizeOf(g, 0)
    <3>1. g.count <= h.count /\ g.count + 0 <= g.count /\ 0 \in Nat
      BY <1>1, <1>4
    <3> QED BY <1>1, <1>7, <2>1, <3>1, SizeShift
  <2>3. SizeOf(g, 0) = 0 /\ g.count + 0 = g.count /\ SizeOf(h, g.count) \in Nat
    BY <1>1, <1>4, <1>7, SizeStep, SizeType
  <2>4. SizeOf(h, h.count) = SizeOf(h, g.count) + SizeAt(h, g.count)
    <3>1. h.count \in 1..h.count /\ h.count - 1 = g.count
      BY <1>1, <1>4
    <3> QED BY <1>7, <3>1, SizeStep
  <2>5. SizeAt(h, g.count) = n
    BY <1>9 DEF SizeAt, cell
  <2> QED BY <1>4, <2>2, <2>3, <2>4, <2>5, RingSound
<1>11. ASSUME NEW i \in 1..Len(h.items) PROVE h.items[i].item # NoItem <=> Used(h, i)
  <2>1. CASE i = at
    <3>1. g.count \in 0..(h.count - 1) /\ Slot(h, g.count) = i
      BY <1>1, <1>4, <1>6, <2>1 DEF at
    <3> QED BY <1>5, <2>1, <3>1, PushAssumption DEF Used, cell
  <2>2. CASE i # at
    <3>1. Used(h, i) <=> Used(g, i)
      <4>1. ASSUME NEW k \in 0..(h.count - 1), Slot(h, k) = i PROVE Used(g, i)
        <5>1. k \in Nat /\ k < Len(g.items)
          BY <1>1, <1>4
        <5>2. k # g.count
          BY <1>6, <2>2, <4>1, <5>1 DEF at
        <5>3. k \in 0..(g.count - 1) /\ Slot(g, k) = i
          BY <1>1, <1>4, <1>6, <4>1, <5>1, <5>2
        <5> QED BY <5>3 DEF Used
      <4>2. ASSUME NEW k \in 0..(g.count - 1), Slot(g, k) = i PROVE Used(h, i)
        <5>1. k \in Nat /\ k < Len(g.items) /\ k \in 0..(h.count - 1)
          BY <1>1, <1>4
        <5>2. Slot(h, k) = i
          BY <1>6, <4>2, <5>1
        <5> QED BY <5>1, <5>2 DEF Used
      <4> QED BY <4>1, <4>2 DEF Used
    <3>2. h.items[i] = g.items[i] /\ i \in 1..Len(g.items)
      BY <1>5, <2>2
    <3> QED BY <3>1, <3>2, RingSound
  <2> QED BY <2>1, <2>2
<1>12. RingOk(h)
  <2>1. h.count <= Len(h.items) /\ h.bytes <= Cap /\ (h.head = 0 \/ h.head < Len(h.items))
    BY <1>1, <1>4, <1>7 DEF Sound
  <2> QED BY <1>4, <1>10, <1>11, <2>1 DEF RingOk, QueueShape, Used
<1>13. Contents(h) = Append(Contents(g), f)
  <2>1. Contents(g) \in Seq(Frames) /\ Len(Contents(g)) = g.count
    BY RingContents
  <2>2. Contents(h) \in Seq(Frames) /\ Len(Contents(h)) = g.count + 1
    BY <1>4, <1>12, RingContents
  <2>3. ASSUME NEW i \in 1..(g.count + 1) PROVE Contents(h)[i] = Append(Contents(g), f)[i]
    <3>1. Contents(h)[i] = h.items[Slot(h, i - 1)].item
      BY <1>4, <1>12, RingContents
    <3>2. CASE i = g.count + 1
      <4>1. i - 1 = g.count
        BY <1>1, <3>2
      <4>2. Contents(h)[i] = f
        BY <1>9, <3>1, <4>1 DEF cell
      <4>3. Append(Contents(g), f)[i] = f
        BY <2>1, <3>2
      <4> QED BY <4>2, <4>3
    <3>3. CASE i # g.count + 1
      <4>1. i - 1 \in 0..(g.count - 1) /\ i \in 1..g.count
        BY <1>1, <3>3
      <4>2. Contents(h)[i] = Contents(g)[i]
        BY <1>8, <3>1, <4>1, RingContents
      <4>3. Append(Contents(g), f)[i] = Contents(g)[i]
        BY <2>1, <4>1
      <4> QED BY <4>2, <4>3
    <3> QED BY <3>2, <3>3
  <2>4. Append(Contents(g), f) \in Seq(Frames) /\ Len(Append(Contents(g), f)) = g.count + 1
    BY <2>1
  <2> QED BY <2>2, <2>3, <2>4, SeqEqual
<1> QED BY <1>12, <1>13

\* Enqueue appends an item that it accepts, and from one that it refuses on refuses all.
LEMMA EnqueueRing ==
  ASSUME NEW qc, RingOk(qc), NEW f \in Frames, NEW n \in Nat
  PROVE  /\ RingOk(Enqueue(qc, f, n))
         /\ Enqueue(qc, f, n).closed = qc.closed
         /\ Accepts(qc, n) => /\ Contents(Enqueue(qc, f, n)) = Append(Contents(qc), f)
                              /\ ~ Refused(qc) /\ ~ Refused(Enqueue(qc, f, n))
         /\ ~ Accepts(qc, n) => /\ Contents(Enqueue(qc, f, n)) = Contents(qc)
                                /\ Refused(Enqueue(qc, f, n))
         /\ Refused(qc) => ~ Accepts(qc, n)
<1> DEFINE g == IF qc.count = Len(qc.items) THEN Grow(qc) ELSE qc
           h == [g EXCEPT !.items[Slot(g, g.count)] = [item |-> f, size |-> n],
                          !.count = @ + 1, !.bytes = @ + n, !.notify = TRUE]
<1>1. qc \in Queues /\ qc.count \in Nat /\ qc.count <= Len(qc.items) /\ Len(qc.items) \in Nat
  BY RingSound DEF RingOk, Queues, Sound
<1>2. CASE Refused(qc)
  <2>1. Enqueue(qc, f, n) = qc
    BY <1>2 DEF Enqueue
  <2> QED BY <1>2, <2>1 DEF Accepts
<1>3. CASE ~ Refused(qc) /\ ~ Fits(qc, n)
  <2>1. Enqueue(qc, f, n) = [qc EXCEPT !.overflow = TRUE]
    BY <1>3 DEF Enqueue
  <2> DEFINE o == [qc EXCEPT !.overflow = TRUE]
  <2>2. /\ o \in Queues /\ o.items = qc.items /\ o.head = qc.head /\ o.count = qc.count
        /\ o.bytes = qc.bytes /\ o.closed = qc.closed /\ o.overflow
    BY <1>1 DEF Queues
  <2> HIDE DEF o
  <2>3. RingOk(o) /\ Contents(o) = Contents(qc)
    <3>1. Contents(o) = Contents(qc) /\ SizeOf(o, o.count) = SizeOf(qc, qc.count)
      BY <2>2 DEF Contents, SizeOf, Slot
    <3>2. \A k : Slot(o, k) = Slot(qc, k)
      BY <2>2 DEF Slot
    <3> QED BY <2>2, <3>1, <3>2 DEF RingOk, QueueShape
  <2> QED BY <1>3, <2>1, <2>2, <2>3 DEF Accepts, Refused, o
<1>4. CASE Accepts(qc, n)
  <2>1. Enqueue(qc, f, n) = h
    BY <1>4 DEF Enqueue, Accepts
  <2>2. /\ RingOk(g) /\ Contents(g) = Contents(qc) /\ g.count < Len(g.items)
        /\ g.bytes = qc.bytes /\ g.closed = qc.closed /\ g.overflow = qc.overflow
    BY <1>1, GrowRing
  <2>3. g.bytes + n <= Cap
    BY <1>4, <2>2 DEF Accepts, Fits
  <2> HIDE DEF g
  <2> DEFINE its == [g.items EXCEPT ![Slot(g, g.count)] = [item |-> f, size |-> n]]
  <2>4. its \in Seq(Cells) /\ g \in Queues
    <3>1. [item |-> f, size |-> n] \in Cells
      BY DEF Cells
    <3>2. g \in Queues /\ g.items \in Seq(Cells) /\ Sound(g) /\ g.count \in Nat
      BY <2>2, RingSound DEF RingOk, Queues
    <3>3. Slot(g, g.count) \in 1..Len(g.items)
      BY <2>2, <3>2, SlotIs
    <3> QED BY <3>1, <3>2, <3>3
  <2>5. h = [g EXCEPT !.items = its, !.count = @ + 1, !.bytes = @ + n, !.notify = TRUE]
    OBVIOUS
  <2> HIDE DEF h, its
  <2>6. /\ h \in Queues /\ h.head = g.head /\ h.count = g.count + 1 /\ h.bytes = g.bytes + n
        /\ h.items = its /\ h.closed = g.closed /\ h.overflow = g.overflow
    <3>1. h = [items |-> its, head |-> g.head, count |-> g.count + 1, bytes |-> g.bytes + n,
               closed |-> g.closed, overflow |-> g.overflow, notify |-> TRUE]
      BY <2>4, <2>5 DEF Queues
    <3>2. /\ g.head \in Nat /\ g.count + 1 \in Nat /\ g.bytes + n \in Nat /\ g.closed \in BOOLEAN
          /\ g.overflow \in BOOLEAN
      BY <2>4 DEF Queues
    <3> QED BY <2>4, <3>1, <3>2 DEF Queues
  <2>7. /\ Len(its) = Len(g.items) /\ its[Slot(g, g.count)] = [item |-> f, size |-> n]
        /\ \A i \in 1..Len(g.items) : i # Slot(g, g.count) => its[i] = g.items[i]
    <3>1. Slot(g, g.count) \in 1..Len(g.items) /\ g.items \in Seq(Cells)
      BY <2>2, <2>4, RingSound, SlotIs DEF Queues
    <3> QED BY <3>1 DEF its
  <2>8. RingOk(h) /\ Contents(h) = Append(Contents(g), f)
    BY <2>2, <2>3, <2>6, <2>7, PutRing
  <2> QED BY <1>4, <2>1, <2>2, <2>6, <2>8 DEF Accepts, Refused
<1> QED BY <1>2, <1>3, <1>4 DEF Accepts

\* Popping takes the oldest item.
LEMMA PopRing ==
  ASSUME NEW qc, RingOk(qc), qc.count > 0
  PROVE  /\ RingOk(Pop(qc)) /\ Pop(qc).count = qc.count - 1
         /\ Pop(qc).closed = qc.closed /\ Pop(qc).overflow = qc.overflow
         /\ \A i \in 1..(qc.count - 1) : Contents(Pop(qc))[i] = Contents(qc)[i + 1]
<1> DEFINE at == Slot(qc, 0)
           free == [item |-> NoItem, size |-> 0]
           its == [qc.items EXCEPT ![at] = free]
           hd == IF qc.head + 1 = Len(qc.items) THEN 0 ELSE qc.head + 1
           left == qc.bytes - SizeAt(qc, 0)
           p == Pop(qc)
<1>1. /\ Sound(qc) /\ qc \in Queues /\ qc.count \in Nat /\ Len(qc.items) \in Nat
      /\ qc.items \in Seq(Cells) /\ qc.bytes \in Nat /\ qc.head \in Nat /\ qc.count <= Len(qc.items)
      /\ qc.head < Len(qc.items)
  BY RingSound DEF RingOk, Queues, Sound
<1>2. at \in 1..Len(qc.items)
  BY <1>1, SlotIs
<1>3. free \in Cells
  BY DEF Cells
<1>4. its \in Seq(Cells) /\ Len(its) = Len(qc.items) /\ its[at] = free
      /\ \A i \in 1..Len(qc.items) : i # at => its[i] = qc.items[i]
  <2> HIDE DEF at, free
  <2> QED BY <1>1, <1>2, <1>3
<1>5. p = [qc EXCEPT !.items = its, !.head = hd, !.count = @ - 1, !.bytes = left]
  BY DEF Pop, SizeAt
<1> HIDE DEF its, hd, left, p
<1>6. /\ p.items = its /\ p.head = hd /\ p.count = qc.count - 1 /\ p.bytes = left
      /\ p.closed = qc.closed /\ p.overflow = qc.overflow /\ p.notify = qc.notify
      /\ p = [items |-> its, head |-> hd, count |-> qc.count - 1, bytes |-> left,
              closed |-> qc.closed, overflow |-> qc.overflow, notify |-> qc.notify]
  BY <1>1, <1>5 DEF Queues
<1>7. hd \in Nat /\ hd < Len(qc.items) /\ qc.count - 1 \in Nat
  BY <1>1 DEF hd
<1>8. Sound(p)
  BY <1>1, <1>4, <1>6, <1>7 DEF Sound
<1>9. \A k \in Nat : k + 1 < Len(qc.items) => Slot(p, k) = Slot(qc, k + 1)
  <2> DEFINE N == Len(qc.items)
             h == qc.head
  <2>1. N \in Nat /\ h \in Nat /\ h < N /\ Len(p.items) = N /\ p.head = IF h + 1 = N THEN 0 ELSE h + 1
    BY <1>1, <1>4, <1>6 DEF hd
  <2>2. \A k : /\ Slot(p, k) = (IF p.head + k >= N THEN (p.head + k) - N ELSE p.head + k) + 1
               /\ Slot(qc, k + 1) = (IF h + (k + 1) >= N THEN (h + (k + 1)) - N ELSE h + (k + 1)) + 1
    BY <2>1 DEF Slot
  <2> HIDE DEF N, h
  <2>3. ASSUME NEW k \in Nat, k + 1 < N PROVE Slot(p, k) = Slot(qc, k + 1)
    <3>1. CASE h + 1 = N
      BY <2>1, <2>2, <2>3, <3>1
    <3>2. CASE h + 1 # N
      <4>1. p.head = h + 1 /\ (h + 1) + k = h + (k + 1)
        BY <2>1, <3>2
      <4>2. Slot(p, k) = (IF (h + 1) + k >= N THEN ((h + 1) + k) - N ELSE (h + 1) + k) + 1
        BY <2>2, <4>1
      <4> QED BY <2>2, <4>1, <4>2
    <3> QED BY <3>1, <3>2
  <2> QED BY <2>3 DEF N
<1>10. \A k \in 0..(qc.count - 2) : Slot(p, k) # at /\ p.items[Slot(p, k)] = qc.items[Slot(qc, k + 1)]
  <2> TAKE k \in 0..(qc.count - 2)
  <2>1. k + 1 \in Nat /\ k \in Nat /\ k + 1 < Len(qc.items) /\ k + 1 # 0 /\ 0 < Len(qc.items)
    BY <1>1
  <2>2. Slot(p, k) = Slot(qc, k + 1)
    BY <1>9, <2>1
  <2>3. Slot(qc, k + 1) \in 1..Len(qc.items) /\ Slot(qc, k + 1) # at
    BY <1>1, <1>2, <2>1, SlotIs
  <2> QED BY <1>4, <1>6, <2>2, <2>3
<1> HIDE DEF at
<1>11. left = SizeOf(p, p.count) /\ left \in Nat /\ left <= qc.bytes
  <2>1. ASSUME NEW i \in 0..((qc.count - 1) - 1) PROVE SizeAt(p, i) = SizeAt(qc, i + 1)
    <3>1. i \in 0..(qc.count - 2)
      BY <1>1
    <3> QED BY <1>10, <3>1 DEF SizeAt
  <2>2. SizeOf(qc, (qc.count - 1) + 1) = SizeOf(p, qc.count - 1) + SizeOf(qc, 1)
    <3>1. qc.count - 1 <= p.count /\ (qc.count - 1) + 1 <= qc.count /\ 1 \in Nat
      BY <1>1, <1>6
    <3> QED BY <1>1, <1>7, <1>8, <2>1, <3>1, SizeShift
  <2>3. SizeOf(qc, 1) = SizeOf(qc, 0) + SizeAt(qc, 0) /\ SizeOf(qc, 0) = 0 /\ SizeAt(qc, 0) \in Nat
    <3>1. 1 \in 1..qc.count /\ 1 - 1 = 0 /\ 0 \in 0..(qc.count - 1)
      BY <1>1
    <3> QED BY <1>1, <3>1, SizeStep
  <2>4. SizeOf(p, qc.count - 1) \in Nat /\ (qc.count - 1) + 1 = qc.count
    BY <1>1, <1>6, <1>7, <1>8, SizeType
  <2>5. qc.bytes = SizeOf(qc, qc.count)
    BY RingSound
  <2> QED BY <1>6, <2>2, <2>3, <2>4, <2>5 DEF left
<1>12. ASSUME NEW i \in 1..Len(p.items) PROVE p.items[i].item # NoItem <=> Used(p, i)
  <2>1. i \in 1..Len(qc.items)
    BY <1>4, <1>6
  <2>2. CASE i = at
    <3>1. ASSUME NEW k \in 0..(p.count - 1) PROVE Slot(p, k) # i
      <4>1. k \in 0..(qc.count - 2)
        BY <1>1, <1>6
      <4> QED BY <1>10, <2>2, <4>1
    <3> QED BY <1>4, <1>6, <2>2, <3>1 DEF Used
  <2>3. CASE i # at
    <3>1. ASSUME NEW k \in 0..(p.count - 1), Slot(p, k) = i PROVE Used(qc, i)
      <4>1. k \in Nat /\ k + 1 < Len(qc.items) /\ k + 1 \in 0..(qc.count - 1)
        BY <1>1, <1>6
      <4>2. Slot(qc, k + 1) = i
        BY <1>9, <3>1, <4>1
      <4> QED BY <4>1, <4>2 DEF Used
    <3>2. ASSUME NEW k \in 0..(qc.count - 1), Slot(qc, k) = i PROVE Used(p, i)
      <4>1. k # 0
        BY <2>3, <3>2 DEF at
      <4>2. k - 1 \in Nat /\ (k - 1) + 1 = k /\ k < Len(qc.items) /\ k - 1 \in 0..(p.count - 1)
        BY <1>1, <1>6, <4>1
      <4>3. Slot(p, k - 1) = i
        BY <1>9, <3>2, <4>2
      <4> QED BY <4>2, <4>3 DEF Used
    <3>3. p.items[i] = qc.items[i]
      BY <1>4, <1>6, <2>1, <2>3
    <3> QED BY <2>1, <3>1, <3>2, <3>3, RingSound DEF Used
  <2> QED BY <2>2, <2>3
<1>13. RingOk(p)
  <2>1. p \in Queues
    BY <1>1, <1>4, <1>6, <1>7, <1>11 DEF Queues
  <2>2. p.bytes <= Cap
    BY <1>1, <1>6, <1>11, RingSound, PushQAssumption
  <2> QED BY <1>6, <1>8, <1>11, <1>12, <2>1, <2>2 DEF RingOk, QueueShape, Used, Sound
<1>14. ASSUME NEW i \in 1..(qc.count - 1) PROVE Contents(p)[i] = Contents(qc)[i + 1]
  <2>1. i - 1 \in 0..(qc.count - 2) /\ (i - 1) + 1 = i /\ i \in 1..p.count /\ i + 1 \in 1..qc.count
        /\ (i + 1) - 1 = i
    BY <1>1, <1>6
  <2>2. Contents(p)[i] = p.items[Slot(p, i - 1)].item
    BY <1>13, <2>1, RingContents
  <2>3. Contents(qc)[i + 1] = qc.items[Slot(qc, i)].item
    BY <2>1, RingContents
  <2> QED BY <1>10, <2>1, <2>2, <2>3
<1> QED BY <1>6, <1>13, <1>14 DEF p

LEMMA PopNIs ==
  ASSUME NEW qc, NEW n \in Nat
  PROVE  \E f : Pops(f, qc, n) /\ PopN(qc, n) = f[n]
<1> DEFINE Body(f) == [i \in 0..n |-> IF i = 0 THEN qc ELSE Pop(f[i - 1])]
           after == CHOOSE f : f = Body(f)
<1>1. PICK f : Pops(f, qc, n)
  BY PopsExist, Zenon
<1> DEFINE g == [i \in 0..n |-> f[i]]
<1>2. g = Body(g)
  <2>1. ASSUME NEW i \in 0..n PROVE g[i] = IF i = 0 THEN qc ELSE Pop(g[i - 1])
    <3>1. CASE i = 0
      BY <1>1, <3>1 DEF Pops
    <3>2. CASE i # 0
      <4>1. i \in 1..n /\ g[i] = f[i] /\ g[i - 1] = f[i - 1]
        BY <3>2
      <4>2. g[i] = Pop(g[i - 1])
        BY <1>1, <4>1 DEF Pops
      <4> HIDE DEF g
      <4> QED BY <3>2, <4>2
    <3> QED BY <3>1, <3>2
  <2> QED BY <2>1
<1>3. after = Body(after)
  <2> HIDE DEF Body, g
  <2> QED BY <1>2
<1>4. PopN(qc, n) = after[n]
  BY DEF PopN
<1> HIDE DEF after
<1>5. after[0] = qc
  BY <1>3
<1>6. \A m \in 1..n : after[m] = Pop(after[m - 1])
  BY <1>3
<1> QED BY <1>4, <1>5, <1>6 DEF Pops

\* A round takes as many of the oldest items.
LEMMA PopNRing ==
  ASSUME NEW qc, RingOk(qc), NEW n \in 0..qc.count
  PROVE  /\ RingOk(PopN(qc, n)) /\ PopN(qc, n).count = qc.count - n
         /\ PopN(qc, n).closed = qc.closed /\ PopN(qc, n).overflow = qc.overflow
         /\ \A i \in 1..(qc.count - n) : Contents(PopN(qc, n))[i] = Contents(qc)[n + i]
<1>1. n \in Nat /\ qc.count \in Nat /\ n <= qc.count
  BY RingSound DEF Sound
<1>2. PICK after : Pops(after, qc, n) /\ PopN(qc, n) = after[n]
  BY <1>1, PopNIs, Zenon
<1> DEFINE Good(r, m) == /\ RingOk(r) /\ r.count = qc.count - m
                         /\ r.closed = qc.closed /\ r.overflow = qc.overflow
                         /\ \A i \in 1..(qc.count - m) : Contents(r)[i] = Contents(qc)[m + i]
           S == {m \in Nat : m <= n => Good(after[m], m)}
<1>4. after[0] = qc
  BY <1>2 DEF Pops
<1>5. \A m \in 1..n : after[m] = Pop(after[m - 1])
  BY <1>2 DEF Pops
<1>6. 0 \in S
  <2>1. \A i \in 1..(qc.count - 0) : 0 + i = i
    OBVIOUS
  <2> QED BY <1>1, <1>4, <2>1
<1>7. ASSUME NEW m \in Nat, m \in S PROVE m + 1 \in S
  <2> SUFFICES ASSUME m + 1 <= n PROVE Good(after[m + 1], m + 1)
    OBVIOUS
  <2>1. Good(after[m], m)
    BY <1>1, <1>7
  <2>2. after[m + 1] = Pop(after[m])
    BY <1>1, <1>5
  <2> DEFINE r == after[m]
  <2>3. RingOk(r) /\ r.count = qc.count - m /\ r.count > 0
    BY <1>1, <2>1
  <2> HIDE DEF r, S
  <2>4. /\ RingOk(Pop(r)) /\ Pop(r).count = r.count - 1
        /\ Pop(r).closed = r.closed /\ Pop(r).overflow = r.overflow
        /\ \A i \in 1..(r.count - 1) : Contents(Pop(r))[i] = Contents(r)[i + 1]
    BY <2>3, PopRing
  <2>5. ASSUME NEW i \in 1..(qc.count - (m + 1))
        PROVE  Contents(Pop(r))[i] = Contents(qc)[(m + 1) + i]
    <3>1. i \in 1..(r.count - 1) /\ i + 1 \in 1..(qc.count - m) /\ m + (i + 1) = (m + 1) + i
      BY <1>1, <2>3
    <3>2. Contents(r)[i + 1] = Contents(qc)[m + (i + 1)]
      BY <2>1, <3>1 DEF r
    <3> QED BY <2>4, <3>1, <3>2
  <2>6. Pop(r).count = qc.count - (m + 1)
    BY <1>1, <2>3, <2>4
  <2> QED BY <2>1, <2>2, <2>4, <2>5, <2>6 DEF r
<1>8. Good(after[n], n)
  <2>1. n \in S
    <3> HIDE DEF S
    <3> QED BY <1>1, <1>6, <1>7, SetInduction
  <2> QED BY <1>1, <2>1
<1> QED BY <1>2, <1>8

\* Closing a queue and taking its signal leave the items alone.
LEMMA FlagRing ==
  ASSUME NEW qc, RingOk(qc), NEW r \in {CloseQ(qc), [qc EXCEPT !.notify = FALSE]}
  PROVE  /\ RingOk(r) /\ Contents(r) = Contents(qc) /\ r.count = qc.count /\ r.overflow = qc.overflow
         /\ r = CloseQ(qc) => r.closed
         /\ r = [qc EXCEPT !.notify = FALSE] => r.closed = qc.closed
<1>1. qc \in Queues
  BY DEF RingOk
<1>2. /\ r \in Queues /\ r.items = qc.items /\ r.head = qc.head /\ r.count = qc.count
      /\ r.bytes = qc.bytes /\ r.overflow = qc.overflow
      /\ r = CloseQ(qc) => r.closed
      /\ r = [qc EXCEPT !.notify = FALSE] => r.closed = qc.closed
  BY <1>1 DEF Queues, CloseQ
<1>3. Contents(r) = Contents(qc) /\ SizeOf(r, r.count) = SizeOf(qc, qc.count)
  BY <1>2 DEF Contents, SizeOf, Slot
<1>4. \A k : Slot(r, k) = Slot(qc, k)
  BY <1>2 DEF Slot
<1> QED BY <1>2, <1>3, <1>4 DEF RingOk, QueueShape

\* A new queue is empty.
LEMMA NewRing == RingOk(NewQ) /\ Contents(NewQ) = <<>> /\ ~ Refused(NewQ)
<1>1. NewQ \in Queues
  BY DEF NewQ, Queues
<1>2. Sound(NewQ)
  BY <1>1 DEF Sound, NewQ, Queues
<1>3. SizeOf(NewQ, 0) = 0
  BY <1>2, SizeStep
<1>4. RingOk(NewQ)
  <2>1. NewQ.count = 0 /\ NewQ.bytes = 0 /\ NewQ.items = <<>> /\ NewQ.head = 0
    BY DEF NewQ
  <2>2. Len(NewQ.items) = 0 /\ 1..Len(NewQ.items) = {} /\ 0 <= Cap
    BY <2>1, PushQAssumption
  <2> QED BY <1>1, <1>3, <2>1, <2>2 DEF RingOk, QueueShape
<1>5. Contents(NewQ) = <<>>
  <2>1. Contents(NewQ) \in Seq(Frames) /\ Len(Contents(NewQ)) = 0
    BY <1>4, RingContents DEF NewQ
  <2> QED BY <2>1
<1> QED BY <1>4, <1>5 DEF Refused, NewQ

-----------------------------------------------------------------------------
(* Sequences of frames.                                                     *)

LEMMA AppendAt ==
  ASSUME NEW X, NEW s \in Seq(X), NEW f \in X
  PROVE  /\ Append(s, f) \in Seq(X) /\ Len(Append(s, f)) = Len(s) + 1
         /\ Append(s, f)[Len(s) + 1] = f
         /\ \A i \in 1..Len(s) : Append(s, f)[i] = s[i]
         /\ DOMAIN s = 1..Len(s) /\ DOMAIN Append(s, f) = 1..(Len(s) + 1) /\ Len(s) \in Nat
OBVIOUS

\* A sequence to which f was appended, or was not.
Grown(s, f, t, more) == t = IF more THEN Append(s, f) ELSE s

LEMMA GrowsAt ==
  ASSUME NEW s \in Seq(Frames), NEW f \in Frames, NEW t, NEW more, Grown(s, f, t, more)
  PROVE  \E n \in Nat : /\ DOMAIN s = 1..n /\ \A i \in 1..n : t[i] = s[i]
                        /\ more => DOMAIN t = 1..(n + 1) /\ t[n + 1] = f
                        /\ ~ more => DOMAIN t = 1..n
<1> DEFINE n == Len(s)
<1>1. n \in Nat /\ DOMAIN s = 1..n
  OBVIOUS
<1>2. CASE ~ more
  <2>1. t = s
    BY <1>2 DEF Grown
  <2> QED BY <1>1, <1>2, <2>1
<1>3. CASE more
  <2>1. t = Append(s, f)
    BY <1>3 DEF Grown
  <2>2. DOMAIN t = 1..(n + 1) /\ t[n + 1] = f /\ \A i \in 1..n : t[i] = s[i]
    BY <2>1
  <2> HIDE DEF n
  <2> QED BY <1>1, <1>3, <2>2
<1> QED BY <1>2, <1>3

\* A sequence without its head f.
Takes(s, t, f) == s # <<>> /\ t = Tail(s) /\ f = Head(s)

LEMMA TakesAt ==
  ASSUME NEW s \in Seq(Frames), NEW t, NEW f, Takes(s, t, f)
  PROVE  \E n \in Nat : /\ DOMAIN s = 1..(n + 1) /\ DOMAIN t = 1..n
                        /\ \A i \in 1..n : t[i] = s[i + 1]
                        /\ f = s[1] /\ f \in Frames
<1> DEFINE n == Len(s) - 1
<1>1. s # <<>> /\ t = Tail(s) /\ f = Head(s)
  BY DEF Takes
<1>2. n \in Nat /\ DOMAIN s = 1..(n + 1) /\ DOMAIN t = 1..n
  BY <1>1
<1>3. \A i \in 1..n : t[i] = s[i + 1]
  BY <1>1
<1>4. f = s[1] /\ f \in Frames
  BY <1>1
<1> HIDE DEF n
<1> QED BY <1>2, <1>3, <1>4

\* Everything in o is in o2.
Keeps(o, o2) == \A i \in DOMAIN o : \E j \in DOMAIN o2 : o2[j] = o[i]

Parts(s, t, f) ==
  /\ f \in Frames /\ 1 \in DOMAIN s /\ s[1] = f /\ Keeps(t, s)
  /\ \A j \in DOMAIN s : s[j] # f => \E k \in DOMAIN t : t[k] = s[j]

LEMMA TakesIn ==
  ASSUME NEW s \in Seq(Frames), NEW t, NEW f, Takes(s, t, f)
  PROVE  Parts(s, t, f)
<1>1. PICK n \in Nat : /\ DOMAIN s = 1..(n + 1) /\ DOMAIN t = 1..n
                       /\ \A i \in 1..n : t[i] = s[i + 1]
                       /\ f = s[1] /\ f \in Frames
  BY TakesAt
<1>2. ASSUME NEW j \in DOMAIN s, s[j] # f PROVE \E k \in DOMAIN t : t[k] = s[j]
  <2>1. j - 1 \in 1..n /\ (j - 1) + 1 = j
    BY <1>1, <1>2
  <2> QED BY <1>1, <2>1
<1>3. ASSUME NEW i \in DOMAIN t PROVE \E k \in DOMAIN s : s[k] = t[i]
  <2>1. i + 1 \in DOMAIN s /\ t[i] = s[i + 1]
    BY <1>1
  <2> QED BY <2>1
<1>4. 1 \in DOMAIN s
  BY <1>1
<1> QED BY <1>1, <1>2, <1>3, <1>4 DEF Keeps, Parts

\* Sequence t has what s has, in its place, and f at most.
Extends(s, f, t, more) ==
  /\ Keeps(s, t) /\ (more => \E k \in DOMAIN t : t[k] = f)
  /\ \A i \in DOMAIN s : t[i] = s[i]
  /\ \A i \in DOMAIN t : i \in DOMAIN s \/ (more /\ t[i] = f)

LEMMA GrowsKeep ==
  ASSUME NEW s \in Seq(Frames), NEW f \in Frames, NEW t, NEW more, Grown(s, f, t, more)
  PROVE  Extends(s, f, t, more)
<1>1. PICK n \in Nat : /\ DOMAIN s = 1..n /\ \A i \in 1..n : t[i] = s[i]
                       /\ more => DOMAIN t = 1..(n + 1) /\ t[n + 1] = f
                       /\ ~ more => DOMAIN t = 1..n
  BY GrowsAt
<1>2. \A i \in DOMAIN t : i \in DOMAIN s \/ (more /\ t[i] = f)
  BY <1>1
<1>3. Keeps(s, t) /\ (more => \E k \in DOMAIN t : t[k] = f)
  BY <1>1 DEF Keeps
<1>4. \A i \in DOMAIN s : t[i] = s[i]
  BY <1>1
<1> QED BY <1>2, <1>3, <1>4 DEF Extends

LEMMA TailAt ==
  ASSUME NEW X, NEW s \in Seq(X), s # <<>>
  PROVE  /\ Head(s) \in X /\ Head(s) = s[1] /\ Tail(s) \in Seq(X) /\ Len(s) \in Nat \ {0}
         /\ Len(Tail(s)) = Len(s) - 1 /\ \A i \in 1..(Len(s) - 1) : Tail(s)[i] = s[i + 1]
         /\ DOMAIN s = 1..Len(s) /\ DOMAIN Tail(s) = 1..(Len(s) - 1)
OBVIOUS

LEMMA ConcatAt ==
  ASSUME NEW X, NEW s \in Seq(X), NEW t \in Seq(X)
  PROVE  /\ s \o t \in Seq(X) /\ Len(s \o t) = Len(s) + Len(t) /\ Len(s) \in Nat /\ Len(t) \in Nat
         /\ \A i \in 1..Len(s) : (s \o t)[i] = s[i]
         /\ \A i \in 1..Len(t) : (s \o t)[Len(s) + i] = t[i]
         /\ DOMAIN s = 1..Len(s) /\ DOMAIN (s \o t) = 1..(Len(s) + Len(t))
OBVIOUS

LEMMA EmptyConcat ==
  ASSUME NEW X, NEW s \in Seq(X)
  PROVE  s \o <<>> = s /\ <<>> \o s = s
OBVIOUS

LEMMA ConcatMore ==
  ASSUME NEW s \in Seq(Frames), NEW t \in Seq(Frames), NEW u \in Seq(Frames)
  PROVE  (s \o t) \o u = s \o (t \o u)
<1>1. (s \o t) \o u \in Seq(Frames) /\ s \o (t \o u) \in Seq(Frames)
  BY ConcatAt
<1>2. Len((s \o t) \o u) = Len(s \o (t \o u))
  OBVIOUS
<1>3. ASSUME NEW i \in 1..Len((s \o t) \o u) PROVE ((s \o t) \o u)[i] = (s \o (t \o u))[i]
  OBVIOUS
<1> QED BY <1>1, <1>2, <1>3, SeqEqual

LEMMA ConcatAppend ==
  ASSUME NEW s \in Seq(Frames), NEW t \in Seq(Frames), NEW f \in Frames
  PROVE  Append(s \o t, f) = s \o Append(t, f)
<1>1. Append(s \o t, f) \in Seq(Frames) /\ s \o Append(t, f) \in Seq(Frames)
  BY ConcatAt, AppendAt
<1>2. Len(Append(s \o t, f)) = Len(s \o Append(t, f))
  OBVIOUS
<1>3. ASSUME NEW i \in 1..Len(Append(s \o t, f)) PROVE Append(s \o t, f)[i] = (s \o Append(t, f))[i]
  OBVIOUS
<1> QED BY <1>1, <1>2, <1>3, SeqEqual

\* A prefix, one place at a time.
LEMMA PrefixAt ==
  ASSUME NEW X, NEW s \in Seq(X), NEW t \in Seq(X)
  PROVE  IsPrefix(s, t) <=> Len(s) <= Len(t) /\ \A i \in 1..Len(s) : s[i] = t[i]
<1>1. Len(s) \in Nat /\ Len(t) \in Nat /\ SubSeq(s, 1, Len(s)) = s
  OBVIOUS
<1>2. ASSUME Len(s) <= Len(t)
      PROVE  /\ SubSeq(t, 1, Len(s)) \in Seq(X) /\ Len(SubSeq(t, 1, Len(s))) = Len(s)
             /\ \A i \in 1..Len(s) : SubSeq(t, 1, Len(s))[i] = t[i]
  BY <1>1, <1>2
<1>3. ASSUME IsPrefix(s, t) PROVE Len(s) <= Len(t) /\ \A i \in 1..Len(s) : s[i] = t[i]
  BY <1>1, <1>2, <1>3 DEF IsPrefix
<1>4. ASSUME Len(s) <= Len(t), \A i \in 1..Len(s) : s[i] = t[i] PROVE IsPrefix(s, t)
  <2>1. s = SubSeq(t, 1, Len(s))
    BY <1>2, <1>4, SeqEqual
  <2> QED BY <1>1, <1>4, <2>1 DEF IsPrefix
<1> QED BY <1>3, <1>4

LEMMA PrefixConcat ==
  ASSUME NEW X, NEW s \in Seq(X), NEW t \in Seq(X)
  PROVE  IsPrefix(s, s \o t)
<1>1. s \o t \in Seq(X) /\ Len(s) <= Len(s \o t) /\ \A i \in 1..Len(s) : s[i] = (s \o t)[i]
  BY ConcatAt
<1> HIDE DEF IsPrefix
<1> QED BY <1>1, PrefixAt

LEMMA PrefixMore ==
  ASSUME NEW X, NEW s \in Seq(X), NEW t \in Seq(X), NEW f \in X, IsPrefix(s, t)
  PROVE  IsPrefix(s, Append(t, f))
<1>1. Len(s) \in Nat /\ Len(s) <= Len(t) /\ \A i \in 1..Len(s) : s[i] = t[i]
  BY PrefixAt
<1>2. Len(s) <= Len(Append(t, f)) /\ \A i \in 1..Len(s) : s[i] = Append(t, f)[i]
  BY <1>1, AppendAt
<1> QED BY <1>2, AppendAt, PrefixAt

-----------------------------------------------------------------------------
(* Connections by themselves: what each step does to where the frames are.  *)

\* Closing the socket is for good, and changes nothing else.
LEMMA ShutIs ==
  ASSUME NEW s \in States, NEW who \in Shuts \ {""}
  PROVE  /\ Shut(s, who) \in States /\ Shut(s, who).shut # ""
         /\ s.shut # "" => Shut(s, who) = s
         /\ s.shut = "" => Shut(s, who).shut = who
         /\ Shut(s, who).k = s.k /\ Shut(s, who).pc = s.pc /\ Shut(s, who).cmd = s.cmd
         /\ Shut(s, who).todo = s.todo /\ Shut(s, who).out = s.out /\ Shut(s, who).pubs = s.pubs
         /\ Shut(s, who).pend = s.pend /\ Shut(s, who).subs = s.subs
         /\ Shut(s, who).psubs = s.psubs /\ Shut(s, who).mon = s.mon /\ Shut(s, who).push = s.push
         /\ Shut(s, who).quit = s.quit /\ Shut(s, who).wr = s.wr /\ Shut(s, who).w = s.w
         /\ Shut(s, who).batch = s.batch /\ Shut(s, who).kill = s.kill
         /\ Shut(s, who).must = s.must
<1>1. CASE s.shut = ""
  <2>1. Shut(s, who) = [s EXCEPT !.shut = who]
    BY <1>1 DEF Shut
  <2> QED BY <1>1, <2>1 DEF States
<1>2. CASE s.shut # ""
  BY <1>2 DEF Shut
<1> QED BY <1>1, <1>2

\* A stream does not depend on what else the connection does.
LEMMA StreamSame ==
  ASSUME NEW s, NEW t, NEW qc, NEW wi, NEW is, Stream(s, qc, wi, is),
         t.shut = s.shut, t.wr = s.wr, t.batch = s.batch, t.push = s.push, t.w = s.w
  PROVE  Stream(t, qc, wi, is)
BY DEF Stream

LEMMA StreamShut ==
  ASSUME NEW s \in States, NEW qc, NEW wi, NEW is, Stream(s, qc, wi, is),
         NEW who \in Shuts \ {""}
  PROVE  Stream(Shut(s, who), qc, wi, is)
<1> DEFINE t == Shut(s, who)
<1>1. t.shut # "" /\ t.wr = s.wr /\ t.batch = s.batch /\ t.push = s.push /\ t.w = s.w
  BY ShutIs
<1> HIDE DEF t
<1>2. Stream(t, qc, wi, is)
  BY <1>1 DEF Stream
<1> QED BY <1>2 DEF t

\* A frame is queued behind everything else, or its connection closed.
LEMMA StreamOffer ==
  ASSUME NEW s \in States, NEW qc, RingOk(qc), NEW wi \in Seq(Frames), NEW is \in Seq(Frames),
         Stream(s, qc, wi, is), s.push, NEW f \in Frames, NEW n \in Nat
  PROVE  /\ Accepts(qc, n) => Stream(s, Enqueue(qc, f, n), wi, Append(is, f))
         /\ ~ Accepts(qc, n) => Stream(Shut(s, "slow"), Enqueue(qc, f, n), wi, is)
<1> DEFINE r == Enqueue(qc, f, n)
<1>1. /\ RingOk(r) /\ QueueShape(r)
      /\ Accepts(qc, n) => /\ Contents(r) = Append(Contents(qc), f)
                           /\ ~ Refused(qc) /\ ~ Refused(r)
      /\ ~ Accepts(qc, n) => Contents(r) = Contents(qc) /\ Refused(r)
  BY EnqueueRing DEF RingOk
<1> HIDE DEF r
<1>2. ASSUME Accepts(qc, n) PROVE Stream(s, r, wi, Append(is, f))
  <2>1. IsPrefix(wi, Append(is, f))
    BY PrefixMore DEF Stream
  <2>2. ASSUME s.shut = "" PROVE Append(is, f) = wi \o s.wr \o s.batch \o Contents(r)
    <3>1. is = (wi \o s.wr \o s.batch) \o Contents(qc)
      BY <2>2 DEF Stream
    <3>2. wi \o s.wr \o s.batch \in Seq(Frames) /\ Contents(qc) \in Seq(Frames)
      <4>1. s.wr \in Seq(Frames) /\ s.batch \in Seq(Frames)
        BY DEF States
      <4>2. wi \o s.wr \in Seq(Frames)
        BY <4>1, ConcatAt
      <4> QED BY <4>1, <4>2, ConcatAt, RingContents
    <3> DEFINE x == wi \o s.wr \o s.batch
               y == Contents(qc)
    <3>3. Append(x \o y, f) = x \o Append(y, f)
      <4> HIDE DEF x, y
      <4>1. x \in Seq(Frames) /\ y \in Seq(Frames)
        BY <3>2 DEF x, y
      <4> QED BY <4>1, ConcatAppend
    <3> QED BY <1>1, <1>2, <3>1, <3>3
  <2> QED BY <1>1, <1>2, <2>1, <2>2 DEF Stream
<1>3. ASSUME ~ Accepts(qc, n) PROVE Stream(Shut(s, "slow"), r, wi, is)
  <2>1. "slow" \in Shuts \ {""}
    BY DEF Shuts
  <2>2. /\ Shut(s, "slow").shut # "" /\ Shut(s, "slow").wr = s.wr /\ Shut(s, "slow").push = s.push
        /\ Shut(s, "slow").batch = s.batch /\ Shut(s, "slow").w = s.w
    BY <2>1, ShutIs
  <2> QED BY <1>1, <1>3, <2>2 DEF Stream
<1> QED BY <1>2, <1>3 DEF r

\* Before there is a push writer a reply goes to the buffer of the connection ...
LEMMA StreamDirect ==
  ASSUME NEW s \in States, NEW t \in States, NEW qc, NEW wi \in Seq(Frames),
         NEW is \in Seq(Frames), NEW f \in Frames, Stream(s, qc, wi, is), ~ s.push,
         t.shut = s.shut, t.wr = Append(s.wr, f), t.batch = s.batch, t.push = s.push, t.w = s.w
  PROVE  Stream(t, qc, wi, Append(is, f))
<1>1. IsPrefix(wi, Append(is, f))
  BY PrefixMore DEF Stream
<1>2. qc = NewQ /\ s.w = "off" /\ s.batch = <<>> /\ Contents(qc) = <<>>
  BY NewRing DEF Stream
<1>3. s.wr \in Seq(Frames) /\ wi \o s.wr \in Seq(Frames) /\ wi \o Append(s.wr, f) \in Seq(Frames)
  <2>1. s.wr \in Seq(Frames)
    BY DEF States
  <2> QED BY <2>1, ConcatAt, AppendAt
<1>4. ASSUME s.shut = "" PROVE Append(is, f) = wi \o t.wr \o t.batch \o Contents(qc)
  <2>1. is = wi \o s.wr
    BY <1>2, <1>3, <1>4, EmptyConcat DEF Stream
  <2>2. wi \o t.wr \o t.batch \o Contents(qc) = wi \o Append(s.wr, f)
    BY <1>2, <1>3, EmptyConcat
  <2>3. Append(wi \o s.wr, f) = wi \o Append(s.wr, f)
    <3> DEFINE y == s.wr
    <3> HIDE DEF y
    <3>1. y \in Seq(Frames)
      BY <1>3 DEF y
    <3>2. Append(wi \o y, f) = wi \o Append(y, f)
      BY <3>1, ConcatAppend
    <3> QED BY <3>2 DEF y
  <2> QED BY <2>1, <2>2, <2>3
<1> QED BY <1>1, <1>2, <1>4 DEF Stream

\* ... which a flush writes out, unless the socket is closed.
LEMMA StreamFlush ==
  ASSUME NEW s \in States, NEW t \in States, NEW qc, RingOk(qc), NEW wi \in Seq(Frames),
         NEW is \in Seq(Frames), Stream(s, qc, wi, is), s.w # "write",
         t.wr = <<>>, t.batch = s.batch, t.push = s.push, t.w = s.w, s.shut # "" => t.shut # ""
  PROVE  Stream(t, qc, IF s.shut = "" THEN wi \o s.wr ELSE wi, is)
<1>1. s.wr \in Seq(Frames) /\ s.batch = <<>> /\ Contents(qc) \in Seq(Frames)
  BY RingContents DEF Stream, States
<1>2. CASE s.shut # ""
  BY <1>2 DEF Stream
<1>3. CASE s.shut = ""
  <2>1. wi \o s.wr \in Seq(Frames)
    BY <1>1, ConcatAt
  <2>2. is = (wi \o s.wr) \o Contents(qc)
    BY <1>1, <1>3, <2>1, EmptyConcat DEF Stream
  <2>3. IsPrefix(wi \o s.wr, is)
    <3> DEFINE x == wi \o s.wr
               y == Contents(qc)
    <3>1. x \in Seq(Frames) /\ y \in Seq(Frames) /\ is = x \o y
      BY <1>1, <2>1, <2>2
    <3> HIDE DEF x, y, IsPrefix
    <3>2. IsPrefix(x, x \o y)
      BY <3>1, PrefixConcat, Zenon
    <3> QED BY <3>1, <3>2 DEF x
  <2>4. (wi \o s.wr) \o t.wr \o t.batch \o Contents(qc) = (wi \o s.wr) \o Contents(qc)
    BY <1>1, <2>1, EmptyConcat
  <2>5. QueueShape(qc)
    BY DEF RingOk
  <2>6. Refused(qc) => s.shut # ""
    BY DEF Stream
  <2>7. t.push => t.wr = <<>> /\ t.w # "off"
    BY DEF Stream
  <2>8. ~ t.push => qc = NewQ /\ t.w = "off"
    BY DEF Stream
  <2> QED BY <1>1, <1>3, <2>2, <2>3, <2>4, <2>5, <2>6, <2>7, <2>8 DEF Stream
<1> QED BY <1>2, <1>3

\* A round is the oldest of the items, one at least.
LEMMA RoundIs ==
  ASSUME NEW items \in Seq(Frames), items # <<>>
  PROVE  \E n \in 1..Len(items) : n <= BatchMax /\ Round(items) = SubSeq(items, 1, n)
<1> DEFINE ends == {i \in DOMAIN items : i = Len(items) \/ i = BatchMax \/ items[i].kind = "close"}
           n == CHOOSE i \in ends : \A j \in ends : i <= j
<1>1. Len(items) \in Nat \ {0} /\ DOMAIN items = 1..Len(items) /\ BatchMax \in Nat \ {0}
  BY PushAssumption
<1>2. ends \in SUBSET Nat /\ Len(items) \in ends
  <2>1. 1..Len(items) \subseteq Nat /\ Len(items) \in 1..Len(items)
    BY <1>1
  <2> QED BY <1>1, <2>1
<1>3. \E i \in ends : \A j \in ends : i <= j
  <2> HIDE DEF ends
  <2> QED BY <1>2, Least
<1>4. n \in ends /\ \A j \in ends : n <= j
  <2> HIDE DEF ends
  <2> QED BY <1>3
<1>5. Round(items) = SubSeq(items, 1, n)
  BY DEF Round
<1> HIDE DEF n
<1>6. n \in 1..Len(items)
  BY <1>1, <1>4
<1>7. n <= BatchMax
  <2>1. CASE BatchMax <= Len(items)
    <3>1. BatchMax \in ends
      BY <1>1, <2>1
    <3> QED BY <1>4, <3>1
  <2>2. CASE Len(items) < BatchMax
    BY <1>1, <1>6, <2>2
  <2> QED BY <1>1, <2>1, <2>2
<1> QED BY <1>5, <1>6, <1>7

\* The writer takes a round from the queue ...
LEMMA StreamTake ==
  ASSUME NEW s \in States, NEW t, NEW qc, RingOk(qc), NEW wi \in Seq(Frames),
         NEW is \in Seq(Frames), Stream(s, qc, wi, is), s.w = "check", qc.count > 0,
         t.batch = Round(Contents(qc)), t.w = "write", t.shut = s.shut, t.wr = s.wr, t.push = s.push
  PROVE  /\ t.batch \in Seq(Frames)
         /\ RingOk(PopN(qc, Len(t.batch))) /\ Stream(t, PopN(qc, Len(t.batch)), wi, is)
         /\ Refused(PopN(qc, Len(t.batch))) = Refused(qc)
<1> DEFINE all == Contents(qc)
           r == PopN(qc, Len(t.batch))
<1>1. all \in Seq(Frames) /\ Len(all) = qc.count /\ all # <<>>
  BY RingContents
<1> HIDE DEF all
<1>2. PICK n \in 1..Len(all) : n <= BatchMax /\ Round(all) = SubSeq(all, 1, n)
  BY <1>1, RoundIs
<1>3. /\ t.batch \in Seq(Frames) /\ Len(t.batch) = n /\ t.batch # <<>> /\ n \in 0..qc.count
      /\ \A i \in 1..n : t.batch[i] = all[i]
  BY <1>1, <1>2 DEF all
<1>4. /\ RingOk(r) /\ r.count = qc.count - n /\ r.closed = qc.closed /\ r.overflow = qc.overflow
      /\ \A i \in 1..(qc.count - n) : Contents(r)[i] = all[n + i]
  BY <1>3, PopNRing DEF all
<1> HIDE DEF r
<1>5. Contents(r) \in Seq(Frames) /\ Len(Contents(r)) = qc.count - n
  BY <1>4, RingContents
<1>6. all = t.batch \o Contents(r)
  <2> DEFINE b == t.batch
             u == Contents(r)
  <2>1. /\ b \in Seq(Frames) /\ u \in Seq(Frames) /\ Len(b) = n /\ Len(u) = Len(all) - n
        /\ \A i \in 1..n : b[i] = all[i]
        /\ \A i \in 1..(Len(all) - n) : u[i] = all[n + i]
        /\ n \in Nat /\ Len(all) \in Nat /\ n <= Len(all)
    BY <1>1, <1>2, <1>3, <1>4, <1>5
  <2> HIDE DEF b, u
  <2>2. b \o u \in Seq(Frames) /\ Len(b \o u) = Len(all)
    BY <2>1
  <2>3. ASSUME NEW i \in 1..Len(all) PROVE (b \o u)[i] = all[i]
    <3>1. CASE i <= n
      BY <2>1, <3>1
    <3>2. CASE i > n
      <4>1. i - n \in 1..(Len(all) - n) /\ n + (i - n) = i
        BY <2>1, <3>2
      <4>2. (b \o u)[i] = u[i - n]
        BY <2>1, <3>2, <4>1
      <4> QED BY <2>1, <4>1, <4>2
    <3> QED BY <2>1, <3>1, <3>2
  <2>4. all = b \o u
    BY <1>1, <2>2, <2>3, SeqEqual
  <2> QED BY <2>4 DEF b, u
<1>7. s.batch = <<>> /\ s.wr \in Seq(Frames) /\ wi \o s.wr \in Seq(Frames)
  BY ConcatAt DEF Stream, States
<1>8. ASSUME s.shut = "" PROVE is = wi \o t.wr \o t.batch \o Contents(r)
  <2> DEFINE x == wi \o s.wr
             b == t.batch
             u == Contents(r)
  <2>1. is = x \o all
    BY <1>7, <1>8, EmptyConcat DEF Stream, all
  <2>2. (x \o b) \o u = x \o (b \o u)
    <3>1. x \in Seq(Frames) /\ b \in Seq(Frames) /\ u \in Seq(Frames)
      BY <1>3, <1>5, <1>7
    <3> HIDE DEF x, b, u
    <3> QED BY <3>1, ConcatMore
  <2> QED BY <1>6, <2>1, <2>2
<1>9. Refused(r) = Refused(qc)
  BY <1>4 DEF Refused
<1>10. s.push
  BY DEF Stream
<1>11. Stream(t, r, wi, is)
  BY <1>2, <1>3, <1>4, <1>8, <1>9, <1>10 DEF Stream, RingOk
<1> QED BY <1>3, <1>4, <1>9, <1>11 DEF r

\* ... and hands it to the client, or drops it when the socket is closed.
LEMMA StreamWrite ==
  ASSUME NEW s \in States, NEW t, NEW qc, RingOk(qc), NEW wi \in Seq(Frames),
         NEW is \in Seq(Frames), Stream(s, qc, wi, is), s.w = "write",
         t.batch = <<>>, t.w \in {"check", "done"}, t.wr = s.wr, t.push = s.push,
         s.shut # "" => t.shut # ""
  PROVE  Stream(t, qc, IF s.shut = "" THEN wi \o s.batch ELSE wi, is)
<1>1. s.wr = <<>> /\ s.batch \in Seq(Frames) /\ s.push
  BY DEF Stream, States
<1>2. CASE s.shut # ""
  BY <1>1, <1>2 DEF Stream
<1>3. CASE s.shut = ""
  <2> DEFINE x == wi \o s.batch
             u == Contents(qc)
  <2>1. x \in Seq(Frames) /\ u \in Seq(Frames)
    BY <1>1, ConcatAt, RingContents
  <2>2. is = x \o u
    BY <1>1, <1>3, EmptyConcat DEF Stream
  <2>3. x \o t.wr \o t.batch \o u = x \o u
    <3> HIDE DEF x, u
    <3>1. x \o <<>> = x
      BY <2>1, EmptyConcat, Zenon
    <3> QED BY <1>1, <3>1
  <2>4. IsPrefix(x, is)
    <3> HIDE DEF x, u, IsPrefix
    <3>1. IsPrefix(x, x \o u)
      BY <2>1, PrefixConcat, Zenon
    <3> QED BY <2>2, <3>1
  <2>5. QueueShape(qc) /\ (Refused(qc) => s.shut # "")
    BY DEF Stream
  <2> HIDE DEF x
  <2>6. Stream(t, qc, x, is)
    BY <1>1, <1>3, <2>2, <2>3, <2>4, <2>5 DEF Stream
  <2> QED BY <1>3, <2>6 DEF x
<1> QED BY <1>2, <1>3

\* Closing the queue of a dead connection, and taking a wake signal.
LEMMA StreamFlag ==
  ASSUME NEW s \in States, NEW t, NEW qc, RingOk(qc), NEW wi, NEW is, Stream(s, qc, wi, is),
         NEW r \in {CloseQ(qc), [qc EXCEPT !.notify = FALSE]}, r = CloseQ(qc) => s.shut # "",
         s.push, s.w # "write", t.w \in {s.w, "check"},
         t.batch = s.batch, t.wr = s.wr, t.push = s.push, t.shut = s.shut
  PROVE  RingOk(r) /\ Stream(t, r, wi, is) /\ (Refused(qc) => Refused(r))
<1>1. /\ RingOk(r) /\ Contents(r) = Contents(qc) /\ r.overflow = qc.overflow
      /\ r = CloseQ(qc) => r.closed
      /\ r = [qc EXCEPT !.notify = FALSE] => r.closed = qc.closed
  BY FlagRing
<1>2. Refused(r) => t.shut # ""
  BY <1>1 DEF Refused, Stream
<1>3. Refused(qc) => Refused(r)
  BY <1>1 DEF Refused
<1> HIDE DEF Refused
<1>4. s.w # "off" /\ t.w \notin {"off", "write"}
  BY DEF Stream
<1> QED BY <1>1, <1>2, <1>3, <1>4 DEF Stream, RingOk

\* Without a frame in hand the writer may wait, or end.
LEMMA StreamIdle ==
  ASSUME NEW s, NEW t, NEW qc, NEW wi, NEW is, Stream(s, qc, wi, is), s.w \notin {"off", "write"},
         t.w \in {"check", "wait", "done"}, t.batch = s.batch, t.wr = s.wr, t.push = s.push,
         t.shut = s.shut
  PROVE  Stream(t, qc, wi, is)
BY DEF Stream

\* What follows the reply of a PUBLISH goes on following it ...
LEMMA OwnKeep ==
  ASSUME NEW p, NEW c, NEW s, NEW t, NEW qc, NEW r, NEW is \in Seq(Frames), NEW f \in Frames,
         NEW is2, NEW more, Grown(is, f, is2, more),
         OwnOk(p, c, s, qc, is), ~ more \/ ~ Own(p, c, f), Refused(qc) => Refused(r),
         t.pc = "reply" => s.pc = "reply" /\ t.out = s.out
  PROVE  OwnOk(p, c, t, r, is2)
<1> USE DEF OwnOk
<1>0. PICK n \in Nat : /\ DOMAIN is = 1..n /\ \A i \in 1..n : is2[i] = is[i]
                       /\ more => DOMAIN is2 = 1..(n + 1) /\ is2[n + 1] = f
                       /\ ~ more => DOMAIN is2 = 1..n
  BY GrowsAt
<1>1. /\ DOMAIN is = 1..n /\ DOMAIN is \subseteq DOMAIN is2
      /\ \A i \in DOMAIN is : is2[i] = is[i]
      /\ \A i \in DOMAIN is2 : i \in DOMAIN is \/ (more /\ is2[i] = f)
  BY <1>0
<1> HIDE DEF Refused, Own, Answers
<1>2. ASSUME NEW i \in DOMAIN is2, Own(p, c, is2[i])
      PROVE  \E j \in 1..(i - 1) : Answers(is2[j], is2[i])
  <2>1. i \in DOMAIN is /\ is2[i] = is[i]
    BY <1>1, <1>2
  <2>2. PICK j \in 1..(i - 1) : Answers(is[j], is[i])
    BY <1>2, <2>1
  <2>3. j \in DOMAIN is
    BY <1>1, <2>1
  <2> QED BY <1>1, <2>1, <2>2, <2>3
<1>3. ASSUME t.pc = "reply", NEW i \in DOMAIN t.out, Own(p, c, t.out[i])
      PROVE  \/ \E j \in 1..(i - 1) : Answers(t.out[j], t.out[i])
             \/ \E j \in DOMAIN is2 : Answers(is2[j], t.out[i])
             \/ Refused(r)
  <2>1. s.pc = "reply" /\ t.out = s.out
    BY <1>3
  <2>2. \/ \E j \in 1..(i - 1) : Answers(s.out[j], s.out[i])
        \/ \E j \in DOMAIN is : Answers(is[j], s.out[i])
        \/ Refused(qc)
    BY <1>3, <2>1
  <2>3. ASSUME NEW j \in DOMAIN is, Answers(is[j], s.out[i])
        PROVE  \E x \in DOMAIN is2 : Answers(is2[x], t.out[i])
    BY <1>1, <2>1, <2>3
  <2> QED BY <2>1, <2>2, <2>3
<1> QED BY <1>2, <1>3

\* ... also when the next of the replies is issued.
LEMMA OwnReply ==
  ASSUME NEW p, NEW c, NEW s \in States, NEW t, NEW qc, NEW r, NEW is \in Seq(Frames),
         OwnOk(p, c, s, qc, is), s.pc = "reply", NEW f, Takes(s.out, t.out, f),
         Refused(qc) => Refused(r),
         NEW is2, NEW more \in BOOLEAN, Grown(is, f, is2, more),
         ~ more => Refused(r), Refused(qc) => ~ more
  PROVE  OwnOk(p, c, t, r, is2)
<1>1. s.out \in Seq(Frames)
  BY DEF States
<1>2. PICK m \in Nat : /\ DOMAIN s.out = 1..(m + 1) /\ DOMAIN t.out = 1..m
                       /\ \A i \in 1..m : t.out[i] = s.out[i + 1]
                       /\ f = s.out[1] /\ f \in Frames
  BY <1>1, TakesAt
<1>3. PICK n \in Nat : /\ DOMAIN is = 1..n /\ \A i \in 1..n : is2[i] = is[i]
                       /\ more => DOMAIN is2 = 1..(n + 1) /\ is2[n + 1] = f
                       /\ ~ more => DOMAIN is2 = 1..n
  BY <1>2, GrowsAt
<1> USE DEF OwnOk
<1> HIDE DEF Refused, Own, Answers
<1>4. ASSUME NEW i \in DOMAIN is2, Own(p, c, is2[i])
      PROVE  \E j \in 1..(i - 1) : Answers(is2[j], is2[i])
  <2>1. CASE i \in DOMAIN is
    <3>1. PICK j \in 1..(i - 1) : Answers(is[j], is[i])
      BY <1>3, <1>4, <2>1
    <3>2. j \in DOMAIN is
      BY <1>3, <2>1
    <3> QED BY <1>3, <2>1, <3>1, <3>2
  <2>2. CASE i \notin DOMAIN is
    <3>1. more /\ i = n + 1 /\ is2[i] = f /\ ~ Refused(qc)
      BY <1>3, <2>2
    <3>2. 1 \in DOMAIN s.out /\ Own(p, c, s.out[1]) /\ 1..(1 - 1) = {}
      BY <1>2, <1>4, <3>1
    <3>3. PICK j \in DOMAIN is : Answers(is[j], s.out[1])
      BY <3>1, <3>2
    <3>4. j \in 1..(i - 1) /\ Answers(is2[j], is2[i])
      BY <1>2, <1>3, <3>1, <3>3
    <3> QED BY <3>4
  <2> QED BY <2>1, <2>2
<1>5. ASSUME NEW i \in DOMAIN t.out, Own(p, c, t.out[i])
      PROVE  \/ \E j \in 1..(i - 1) : Answers(t.out[j], t.out[i])
             \/ \E j \in DOMAIN is2 : Answers(is2[j], t.out[i])
             \/ Refused(r)
  <2>1. i + 1 \in DOMAIN s.out /\ t.out[i] = s.out[i + 1] /\ (i + 1) - 1 = i /\ i \in Nat
    BY <1>2
  <2>2. \/ \E j \in 1..i : Answers(s.out[j], s.out[i + 1])
        \/ \E j \in DOMAIN is : Answers(is[j], s.out[i + 1])
        \/ Refused(qc)
    BY <1>5, <2>1
  <2>3. ASSUME NEW j \in DOMAIN is, Answers(is[j], s.out[i + 1])
        PROVE  \E x \in DOMAIN is2 : Answers(is2[x], t.out[i])
    BY <1>3, <2>1, <2>3
  <2>4. ASSUME NEW j \in 1..i, Answers(s.out[j], s.out[i + 1]), j # 1
        PROVE  \E x \in 1..(i - 1) : Answers(t.out[x], t.out[i])
    <3>1. j - 1 \in 1..(i - 1) /\ j - 1 \in 1..m /\ (j - 1) + 1 = j
      BY <1>2, <2>1, <2>4
    <3>2. t.out[j - 1] = s.out[j]
      BY <1>2, <3>1
    <3> QED BY <2>1, <2>4, <3>1, <3>2
  <2>5. ASSUME Answers(s.out[1], s.out[i + 1]), ~ Refused(r)
        PROVE  \E x \in DOMAIN is2 : Answers(is2[x], t.out[i])
    <3>1. more /\ n + 1 \in DOMAIN is2
      BY <1>3, <2>5
    <3> QED BY <1>2, <1>3, <2>1, <2>5, <3>1
  <2> QED BY <2>2, <2>3, <2>4, <2>5
<1> QED BY <1>4, <1>5

\* The answer to a command starts with its reply, unless the command is one that acks.
Answer(c, s, out) ==
  IF s.cmd.name \in Acks THEN out = s.out
                         ELSE out = <<[kind |-> "reply", of |-> <<c, s.k>>, what |-> s.cmd.name]>> \o s.out

LEMMA AnswerIs ==
  ASSUME NEW c \in Clients, NEW s \in States, NEW out, Answer(c, s, out)
  PROVE  /\ out \in Seq(Frames)
         /\ s.cmd.name \notin Acks =>
              /\ Len(out) = Len(s.out) + 1 /\ out[1].kind = "reply" /\ out[1].of = <<c, s.k>>
              /\ out[1].what = s.cmd.name /\ \A i \in DOMAIN s.out : out[i + 1] = s.out[i]
         /\ s.cmd.name \in Acks => out = s.out
         /\ DOMAIN out = 1..Len(out) /\ DOMAIN s.out = 1..Len(s.out) /\ Len(s.out) \in Nat
<1> DEFINE f == [kind |-> "reply", of |-> <<c, s.k>>, what |-> s.cmd.name]
<1>1. s.out \in Seq(Frames) /\ s.k \in Nat /\ s.cmd.name \in Names
  BY DEF States, Commands
<1>2. f \in Frames /\ f.kind = "reply" /\ f.of = <<c, s.k>> /\ f.what = s.cmd.name
  <2>1. <<c, s.k>> \in Clients \X Nat /\ "reply" \in Kinds
    BY <1>1 DEF Kinds
  <2> QED BY <1>1, <2>1 DEF Frames
<1> HIDE DEF f
<1>3. CASE s.cmd.name \notin Acks
  <2>1. out = <<f>> \o s.out
    BY <1>3 DEF Answer, f
  <2>2. <<f>> \in Seq(Frames) /\ Len(<<f>>) = 1 /\ <<f>>[1] = f
    BY <1>2
  <2>3. /\ out \in Seq(Frames) /\ Len(out) = Len(s.out) + 1 /\ out[1] = f
        /\ \A i \in 1..Len(s.out) : out[i + 1] = s.out[i]
    BY <1>1, <2>1, <2>2
  <2>4. DOMAIN out = 1..Len(out) /\ DOMAIN s.out = 1..Len(s.out) /\ Len(s.out) \in Nat
    BY <1>1, <2>3
  <2>5. \A i \in DOMAIN s.out : out[i + 1] = s.out[i]
    BY <2>3, <2>4
  <2>6. Len(out) = Len(s.out) + 1 /\ out \in Seq(Frames)
    BY <2>3
  <2>7. out[1].kind = "reply" /\ out[1].of = <<c, s.k>> /\ out[1].what = s.cmd.name
    BY <1>2, <2>3
  <2> QED BY <1>3, <2>4, <2>5, <2>6, <2>7
<1>4. CASE s.cmd.name \in Acks
  BY <1>1, <1>4 DEF Answer
<1> QED BY <1>3, <1>4

LEMMA OwnReturn ==
  ASSUME NEW p, NEW c \in Clients, NEW s \in States, NEW t, NEW qc, NEW is,
         OwnOk(p, c, s, qc, is), Said(c, s), Place(p, s), s.pc \notin Resting,
         Answer(c, s, t.out)
  PROVE  OwnOk(p, c, t, qc, is)
<1>1. s.k > 0 /\ s.cmd = p[s.k]
  <2>1. s.k \in Nat
    BY DEF States
  <2>2. s.k # 0
    BY DEF Place
  <2>3. s.k > 0
    BY <2>1, <2>2
  <2> QED BY <2>3 DEF Place
<1> HIDE DEF Place
<1>2. ASSUME NEW i \in DOMAIN t.out, Own(p, c, t.out[i])
      PROVE  \E j \in 1..(i - 1) : Answers(t.out[j], t.out[i])
  <2>1. CASE s.cmd.name \in Acks
    <3>1. t.out[i] = s.out[i] /\ i \in DOMAIN s.out
      BY <2>1, AnswerIs
    <3>2. s.out[i].of = <<c, s.k>>
      BY <3>1 DEF Said
    <3>3. s.cmd.name = "publish"
      BY <1>1, <1>2, <3>1, <3>2 DEF Own
    <3> QED BY <2>1, <3>3 DEF Acks
  <2>2. CASE s.cmd.name \notin Acks
    <3>0. /\ Len(t.out) = Len(s.out) + 1 /\ DOMAIN t.out = 1..Len(t.out)
          /\ DOMAIN s.out = 1..Len(s.out) /\ Len(s.out) \in Nat
          /\ \A x \in DOMAIN s.out : t.out[x + 1] = s.out[x]
      BY <2>2, AnswerIs
    <3>1. /\ t.out[1].kind = "reply" /\ t.out[1].of = <<c, s.k>> /\ i # 1
          /\ i \in 1..(Len(s.out) + 1)
      BY <1>2, <2>2, <3>0, AnswerIs DEF Own
    <3>2. i - 1 \in DOMAIN s.out /\ t.out[(i - 1) + 1] = s.out[i - 1] /\ (i - 1) + 1 = i
      BY <3>0, <3>1
    <3>3. t.out[i].of = <<c, s.k>>
      BY <3>2 DEF Said
    <3>4. 1 \in 1..(i - 1)
      BY <3>1
    <3> QED BY <3>1, <3>3, <3>4 DEF Answers
  <2> QED BY <2>1, <2>2
<1> QED BY <1>2 DEF OwnOk

\* The answer to a QUIT stays in front of the close mark ...
LEMMA QuitKeep ==
  ASSUME NEW s, NEW t, NEW qc, NEW r, NEW wi \in Seq(Frames), NEW wi2 \in Seq(Frames),
         NEW is \in Seq(Frames), NEW f \in Frames, NEW is2, NEW more, Grown(is, f, is2, more),
         QuitOk(s, qc, wi, is), ~ more \/ f.kind # "close" \/ \E j \in DOMAIN is : IsReply(is[j], "quit"),
         wi2 = wi \/ IsPrefix(wi, wi2), Refused(qc) => Refused(r),
         t.shut = "quit" => s.shut = "quit" \/ \E j \in DOMAIN wi2 : IsReply(wi2[j], "quit"),
         t.quit /\ t.pc = "reply" => s.quit /\ s.pc = "reply" /\ t.out = s.out
  PROVE  QuitOk(t, r, wi2, is2)
<1>0. PICK n \in Nat : /\ DOMAIN is = 1..n /\ \A i \in 1..n : is2[i] = is[i]
                       /\ more => DOMAIN is2 = 1..(n + 1) /\ is2[n + 1] = f
                       /\ ~ more => DOMAIN is2 = 1..n
  BY GrowsAt
<1>1. /\ DOMAIN is = 1..n /\ DOMAIN is \subseteq DOMAIN is2
      /\ \A i \in DOMAIN is : is2[i] = is[i]
      /\ \A i \in DOMAIN is2 : i \in DOMAIN is \/ (more /\ is2[i] = f /\ i = n + 1)
  BY <1>0
<1>2. DOMAIN wi \subseteq DOMAIN wi2 /\ \A i \in DOMAIN wi : wi2[i] = wi[i]
  <2>1. CASE wi2 = wi
    BY <2>1
  <2>2. CASE IsPrefix(wi, wi2)
    <3>1. Len(wi) <= Len(wi2) /\ \A i \in 1..Len(wi) : wi[i] = wi2[i]
      BY <2>2, PrefixAt
    <3>2. DOMAIN wi = 1..Len(wi) /\ DOMAIN wi2 = 1..Len(wi2) /\ Len(wi) \in Nat /\ Len(wi2) \in Nat
      OBVIOUS
    <3> QED BY <3>1, <3>2
  <2> QED BY <2>1, <2>2
<1> HIDE DEF Refused, IsReply, IsPrefix
<1>3. ASSUME NEW i \in DOMAIN is2, is2[i].kind = "close"
      PROVE  \E j \in 1..(i - 1) : IsReply(is2[j], "quit")
  <2>1. CASE i \in DOMAIN is
    <3>1. PICK j \in 1..(i - 1) : IsReply(is[j], "quit")
      BY <1>1, <1>3, <2>1 DEF QuitOk
    <3>2. j \in DOMAIN is
      BY <1>1, <2>1
    <3> QED BY <1>1, <3>1, <3>2
  <2>2. CASE i \notin DOMAIN is
    <3>1. more /\ f.kind = "close" /\ i = n + 1
      BY <1>1, <1>3, <2>2
    <3>2. PICK j \in DOMAIN is : IsReply(is[j], "quit")
      BY <3>1
    <3>3. j \in 1..(i - 1) /\ is2[j] = is[j]
      BY <1>1, <3>1
    <3> QED BY <3>2, <3>3
  <2> QED BY <2>1, <2>2
<1>4. ASSUME t.shut = "quit" PROVE \E i \in DOMAIN wi2 : IsReply(wi2[i], "quit")
  <2>1. CASE s.shut = "quit"
    <3>1. PICK i \in DOMAIN wi : IsReply(wi[i], "quit")
      BY <2>1 DEF QuitOk
    <3> QED BY <1>2, <3>1
  <2> QED BY <1>4, <2>1
<1>5. ASSUME t.quit, t.pc = "reply"
      PROVE  \/ \E i \in DOMAIN t.out : IsReply(t.out[i], "quit")
             \/ \E i \in DOMAIN is2 : IsReply(is2[i], "quit")
             \/ Refused(r)
  <2>1. s.quit /\ s.pc = "reply" /\ t.out = s.out
    BY <1>5
  <2>2. \/ \E i \in DOMAIN s.out : IsReply(s.out[i], "quit")
        \/ \E i \in DOMAIN is : IsReply(is[i], "quit")
        \/ Refused(qc)
    BY <2>1 DEF QuitOk
  <2>3. ASSUME NEW i \in DOMAIN is, IsReply(is[i], "quit")
        PROVE  \E x \in DOMAIN is2 : IsReply(is2[x], "quit")
    BY <1>1, <2>3
  <2> QED BY <2>1, <2>2, <2>3
<1> QED BY <1>3, <1>4, <1>5 DEF QuitOk

\* ... also when it is issued itself ...
LEMMA QuitReply ==
  ASSUME NEW s \in States, NEW t, NEW qc, NEW r, NEW wi \in Seq(Frames), NEW is \in Seq(Frames),
         QuitOk(s, qc, wi, is), NEW f, Takes(s.out, t.out, f), t.pc = s.pc, t.quit = s.quit,
         f.kind # "close", Refused(qc) => Refused(r), t.shut = "quit" => s.shut = "quit",
         NEW is2, NEW more, Grown(is, f, is2, more), ~ more => Refused(r)
  PROVE  QuitOk(t, r, wi, is2)
<1>1. s.out \in Seq(Frames)
  BY DEF States
<1>2. PICK m \in Nat : /\ DOMAIN s.out = 1..(m + 1) /\ DOMAIN t.out = 1..m
                       /\ \A i \in 1..m : t.out[i] = s.out[i + 1]
                       /\ f = s.out[1] /\ f \in Frames
  BY <1>1, TakesAt
<1>3. PICK n \in Nat : /\ DOMAIN is = 1..n /\ \A i \in 1..n : is2[i] = is[i]
                       /\ more => DOMAIN is2 = 1..(n + 1) /\ is2[n + 1] = f
                       /\ ~ more => DOMAIN is2 = 1..n
  BY <1>2, GrowsAt
<1> HIDE DEF Refused, IsReply
<1>4. ASSUME NEW i \in DOMAIN is2, is2[i].kind = "close"
      PROVE  \E j \in 1..(i - 1) : IsReply(is2[j], "quit")
  <2>1. i \in DOMAIN is
    BY <1>2, <1>3, <1>4
  <2>2. PICK j \in 1..(i - 1) : IsReply(is[j], "quit")
    BY <1>3, <1>4, <2>1 DEF QuitOk
  <2>3. j \in DOMAIN is
    BY <1>3, <2>1
  <2> QED BY <1>3, <2>2, <2>3
<1>5. t.shut = "quit" => \E i \in DOMAIN wi : IsReply(wi[i], "quit")
  BY DEF QuitOk
<1>6. ASSUME t.quit, t.pc = "reply"
      PROVE  \/ \E i \in DOMAIN t.out : IsReply(t.out[i], "quit")
             \/ \E i \in DOMAIN is2 : IsReply(is2[i], "quit")
             \/ Refused(r)
  <2>2. \/ \E i \in DOMAIN s.out : IsReply(s.out[i], "quit")
        \/ \E i \in DOMAIN is : IsReply(is[i], "quit")
        \/ Refused(qc)
    BY <1>6 DEF QuitOk
  <2>3. ASSUME NEW i \in DOMAIN is, IsReply(is[i], "quit")
        PROVE  \E x \in DOMAIN is2 : IsReply(is2[x], "quit")
    BY <1>3, <2>3
  <2>4. ASSUME NEW i \in DOMAIN s.out, IsReply(s.out[i], "quit"), i # 1
        PROVE  \E x \in DOMAIN t.out : IsReply(t.out[x], "quit")
    <3>1. i - 1 \in 1..m /\ (i - 1) + 1 = i
      BY <1>2, <2>4
    <3>2. t.out[i - 1] = s.out[i] /\ i - 1 \in DOMAIN t.out
      BY <1>2, <3>1
    <3> QED BY <2>4, <3>2
  <2>5. ASSUME IsReply(s.out[1], "quit"), ~ Refused(r)
        PROVE  \E x \in DOMAIN is2 : IsReply(is2[x], "quit")
    <3>1. more /\ n + 1 \in DOMAIN is2
      BY <1>3, <2>5
    <3> QED BY <1>2, <1>3, <2>5, <3>1
  <2> QED BY <2>2, <2>3, <2>4, <2>5
<1> QED BY <1>4, <1>5, <1>6 DEF QuitOk

\* ... and is there from the return of the command on.
LEMMA QuitReturn ==
  ASSUME NEW c \in Clients, NEW s \in States, NEW t, NEW qc, NEW wi, NEW is,
         QuitOk(s, qc, wi, is), Answer(c, s, t.out), t.shut = s.shut,
         t.quit => s.cmd.name = "quit"
  PROVE  QuitOk(t, qc, wi, is)
<1>1. ASSUME t.quit PROVE \E i \in DOMAIN t.out : IsReply(t.out[i], "quit")
  <2>1. s.cmd.name = "quit" /\ s.cmd.name \notin Acks
    BY <1>1 DEF Acks
  <2>2. /\ Len(t.out) = Len(s.out) + 1 /\ DOMAIN t.out = 1..Len(t.out) /\ Len(s.out) \in Nat
        /\ t.out[1].kind = "reply" /\ t.out[1].what = s.cmd.name
    BY <2>1, AnswerIs
  <2>3. 1 \in DOMAIN t.out
    BY <2>2
  <2> QED BY <2>1, <2>2, <2>3 DEF IsReply
<1> HIDE DEF IsReply, Refused
<1> QED BY <1>1 DEF QuitOk

LEMMA LastAt ==
  ASSUME NEW s \in Seq(Frames), NEW t \in Seq(Frames), t # <<>>
  PROVE  /\ s \o t \in Seq(Frames) /\ Len(s \o t) # 0 /\ DOMAIN (s \o t) = 1..Len(s \o t)
         /\ (s \o t)[Len(s \o t)] = t[Len(t)]
<1>1. Len(t) \in Nat \ {0} /\ Len(s) \in Nat
  OBVIOUS
<1> QED BY <1>1, ConcatAt

LEMMA PartIn ==
  ASSUME NEW x \in Seq(Frames), NEW u \in Seq(Frames), Len(x) # 0
  PROVE  /\ Len(x) \in DOMAIN (x \o u) /\ (x \o u)[Len(x)] = x[Len(x)]
         /\ \A j \in 1..(Len(x) - 1) : j \in DOMAIN x /\ (x \o u)[j] = x[j]
<1> DEFINE is == x \o u
<1>1. /\ Len(x) \in Nat /\ Len(u) \in Nat /\ Len(is) = Len(x) + Len(u) /\ DOMAIN is = 1..Len(is)
      /\ DOMAIN x = 1..Len(x)
  BY ConcatAt
<1>2. \A i \in 1..Len(x) : is[i] = x[i]
  BY ConcatAt
<1>3. Len(x) \in 1..Len(x) /\ Len(x) \in 1..Len(is)
  BY <1>1
<1>4. \A j \in 1..(Len(x) - 1) : j \in 1..Len(x)
  BY <1>1
<1> QED BY <1>1, <1>2, <1>3, <1>4

\* Where a round ends with a close mark the answer to the QUIT has been written with it.
LEMMA QuitWrite ==
  ASSUME NEW s \in States, NEW qc, RingOk(qc), NEW wi \in Seq(Frames), NEW is \in Seq(Frames),
         QuitOk(s, qc, wi, is), Stream(s, qc, wi, is), s.w = "write", s.shut = "",
         s.batch[Len(s.batch)].kind = "close"
  PROVE  \E j \in DOMAIN (wi \o s.batch) : IsReply((wi \o s.batch)[j], "quit")
<1> DEFINE b == s.batch
           u == Contents(qc)
           x == wi \o b
<1>1. s.wr = <<>> /\ b \in Seq(Frames) /\ b # <<>> /\ u \in Seq(Frames)
  BY RingContents DEF Stream, States
<1>2. is = x \o u
  BY <1>1, EmptyConcat DEF Stream
<1>3. b[Len(b)].kind = "close"
  OBVIOUS
<1> HIDE DEF b, u
<1>4. /\ x \in Seq(Frames) /\ Len(x) # 0 /\ DOMAIN x = 1..Len(x)
      /\ x[Len(x)] = b[Len(b)]
  BY <1>1, LastAt
<1> HIDE DEF x
<1>5. /\ Len(x) \in DOMAIN is /\ is[Len(x)] = x[Len(x)]
      /\ \A j \in 1..(Len(x) - 1) : j \in DOMAIN x /\ is[j] = x[j]
  <2>1. Len(x) # 0 /\ x \in Seq(Frames) /\ u \in Seq(Frames)
    BY <1>1, <1>4
  <2>2. /\ Len(x) \in DOMAIN (x \o u) /\ (x \o u)[Len(x)] = x[Len(x)]
        /\ \A j \in 1..(Len(x) - 1) : j \in DOMAIN x /\ (x \o u)[j] = x[j]
    BY <2>1, PartIn
  <2> QED BY <1>2, <2>2
<1>6. PICK j \in 1..(Len(x) - 1) : IsReply(is[j], "quit")
  BY <1>3, <1>4, <1>5 DEF QuitOk
<1> QED BY <1>5, <1>6 DEF x, b

\* A subscription acked last stays registered while others are served ...
Older(is, f, is2, more, on, off) ==
  \A i \in DOMAIN is : Open(is2, i, on, off) =>
    /\ Open(is, i, on, off) /\ is2[i] = is[i]
    /\ more => ~ Ends(f, is[i].what, off)

LEMMA OpenOld ==
  ASSUME NEW is \in Seq(Frames), NEW f \in Frames, NEW is2, NEW more, Grown(is, f, is2, more),
         NEW on, NEW off
  PROVE  Older(is, f, is2, more, on, off)
<1> SUFFICES ASSUME NEW i \in DOMAIN is, Open(is2, i, on, off)
             PROVE  /\ Open(is, i, on, off) /\ is2[i] = is[i]
                    /\ more => ~ Ends(f, is[i].what, off)
  BY DEF Older
<1>1. PICK n \in Nat : /\ DOMAIN is = 1..n /\ \A x \in 1..n : is2[x] = is[x]
                       /\ more => DOMAIN is2 = 1..(n + 1) /\ is2[n + 1] = f
                       /\ ~ more => DOMAIN is2 = 1..n
  BY GrowsAt
<1>2. is2[i] = is[i]
  BY <1>1
<1>3. ASSUME NEW j \in DOMAIN is, j > i PROVE ~ Ends(is[j], is[i].what, off)
  <2>1. j \in DOMAIN is2 /\ is2[j] = is[j]
    BY <1>1
  <2> QED BY <1>2, <1>3, <2>1 DEF Open
<1>4. ASSUME more PROVE ~ Ends(f, is[i].what, off)
  <2>1. n + 1 \in DOMAIN is2 /\ is2[n + 1] = f /\ n + 1 > i
    BY <1>1, <1>4
  <2> QED BY <1>2, <2>1 DEF Open
<1> HIDE DEF Ends
<1> QED BY <1>2, <1>3, <1>4 DEF Open

\* Connection t goes on saying what s was to say.
Carries(s, t) ==
  /\ t.shut = "" => s.shut = ""
  /\ Keeps(s.out, t.out)
  /\ s.pc = "return" /\ s.cmd.name = "reset" =>
       \/ t.pc = s.pc /\ t.cmd = s.cmd
       \/ \E j \in DOMAIN t.out : IsReply(t.out[j], "reset")

LEMMA AckKeep ==
  ASSUME NEW s, NEW t, NEW is \in Seq(Frames), NEW f \in Frames, NEW is2, NEW more,
         Grown(is, f, is2, more), NEW on, NEW off, NEW set, NEW set2,
         AckOk(s, is, on, off, set), set \subseteq set2, more => f.kind # on,
         Carries(s, t), Marks(t.out, on, set2)
  PROVE  AckOk(t, is2, on, off, set2)
<1>1. Extends(is, f, is2, more)
  BY GrowsKeep
<1>2. Older(is, f, is2, more, on, off)
  BY OpenOld
<1>3. ASSUME t.shut = "", NEW i \in DOMAIN is2, Open(is2, i, on, off), is2[i].what \notin set2
      PROVE  \/ \E j \in DOMAIN t.out : Ends(t.out[j], is2[i].what, off)
             \/ t.pc = "return" /\ t.cmd.name = "reset"
  <2>1. i \in DOMAIN is
    <3>1. is2[i].kind = on
      BY <1>3 DEF Open
    <3> QED BY <1>1, <1>3, <3>1 DEF Extends
  <2>2. Open(is, i, on, off) /\ is2[i] = is[i]
    BY <1>2, <1>3, <2>1 DEF Older
  <2>3. \/ \E j \in DOMAIN s.out : Ends(s.out[j], is[i].what, off)
        \/ s.pc = "return" /\ s.cmd.name = "reset"
    BY <1>3, <2>1, <2>2 DEF AckOk, Carries
  <2>4. ASSUME NEW j \in DOMAIN s.out, Ends(s.out[j], is[i].what, off)
        PROVE  \E x \in DOMAIN t.out : Ends(t.out[x], is2[i].what, off)
    BY <2>2, <2>4 DEF Keeps, Carries
  <2>5. ASSUME NEW j \in DOMAIN t.out, IsReply(t.out[j], "reset")
        PROVE  \E x \in DOMAIN t.out : Ends(t.out[x], is2[i].what, off)
    BY <2>5 DEF Ends
  <2> QED BY <1>3, <2>3, <2>4, <2>5 DEF Carries
<1> QED BY <1>3 DEF AckOk

\* ... and when an ack or a reply of its own is issued.
LEMMA AckReply ==
  ASSUME NEW s \in States, NEW t, NEW is \in Seq(Frames), NEW f, Takes(s.out, t.out, f),
         NEW is2, NEW more, Grown(is, f, is2, more), NEW on, NEW off, NEW set,
         AckOk(s, is, on, off, set),
         s.pc = "reply", t.shut = "" => s.shut = "" /\ more
  PROVE  AckOk(t, is2, on, off, set)
<1>1. s.out \in Seq(Frames)
  BY DEF States
<1>2. Parts(s.out, t.out, f)
  BY <1>1, TakesIn
<1>3. f \in Frames /\ (f.kind = on => f.what \in set)
  BY <1>2 DEF AckOk, Marks, Parts
<1>4. Extends(is, f, is2, more)
  BY <1>3, GrowsKeep
<1>5. Older(is, f, is2, more, on, off)
  BY <1>3, OpenOld
<1>6. ASSUME t.shut = "", NEW i \in DOMAIN is2, Open(is2, i, on, off), is2[i].what \notin set
      PROVE  \E j \in DOMAIN t.out : Ends(t.out[j], is2[i].what, off)
  <2>1. s.shut = "" /\ more
    BY <1>6
  <2>2. i \in DOMAIN is
    <3>1. is2[i].kind = on
      BY <1>6 DEF Open
    <3> QED BY <1>3, <1>4, <1>6, <3>1 DEF Extends
  <2>3. Open(is, i, on, off) /\ is2[i] = is[i] /\ ~ Ends(f, is[i].what, off)
    BY <1>5, <1>6, <2>1, <2>2 DEF Older
  <2>4. PICK j \in DOMAIN s.out : Ends(s.out[j], is[i].what, off)
    BY <1>6, <2>1, <2>2, <2>3 DEF AckOk
  <2> QED BY <1>2, <2>3, <2>4 DEF Parts
<1>7. Marks(t.out, on, set)
  BY <1>2 DEF AckOk, Marks, Keeps, Parts
<1> QED BY <1>6, <1>7 DEF AckOk

\* Leaving a subject says so.
LEMMA AckLeave ==
  ASSUME NEW s \in States, NEW t, NEW is, NEW on, NEW off, NEW set, NEW a, NEW f \in Frames,
         AckOk(s, is, on, off, set), f.kind = off, f.what = a, off # on, Grown(s.out, f, t.out, TRUE),
         t.shut = s.shut, s.pc # "return", Marks(s.out, on, {})
  PROVE  AckOk(t, is, on, off, set \ {a})
<1>1. s.out \in Seq(Frames)
  BY DEF States
<1>2. Extends(s.out, f, t.out, TRUE)
  BY <1>1, GrowsKeep
<1> HIDE DEF Open
<1>3. ASSUME t.shut = "", NEW i \in DOMAIN is, Open(is, i, on, off), is[i].what \notin set \ {a}
      PROVE  \E j \in DOMAIN t.out : Ends(t.out[j], is[i].what, off)
  <2>1. CASE is[i].what = a
    <3>1. Ends(f, is[i].what, off)
      BY <2>1 DEF Ends
    <3> QED BY <1>2, <3>1 DEF Extends
  <2>2. CASE is[i].what \notin set
    <3>1. PICK j \in DOMAIN s.out : Ends(s.out[j], is[i].what, off)
      BY <1>3, <2>2 DEF AckOk
    <3> QED BY <1>2, <3>1 DEF Keeps, Extends
  <2> QED BY <1>3, <2>1, <2>2
<1>4. Marks(t.out, on, set \ {a})
  BY <1>2 DEF Marks, Extends, AckOk
<1> QED BY <1>3, <1>4 DEF AckOk

-----------------------------------------------------------------------------
(* Connections by themselves: all of the invariant at once.                 *)

Well(p, c, s, qc, wi, is) ==
  /\ s \in States /\ RingOk(qc) /\ wi \in Seq(Frames) /\ is \in Seq(Frames)
  /\ Local(p, c, s, qc, wi, is)

Kept(s, t) ==
  /\ t.k = s.k /\ t.cmd = s.cmd /\ t.out = s.out /\ t.subs = s.subs /\ t.psubs = s.psubs
  /\ s.shut # "" => t.shut # ""

\* A step with no word of the command that is under way: a frame of another one at most.
LEMMA WellKeep ==
  ASSUME NEW p, NEW c, NEW s, NEW t \in States, NEW qc, NEW r, RingOk(r), NEW wi,
         NEW wi2 \in Seq(Frames), NEW is, NEW f \in Frames, NEW is2, NEW more,
         Well(p, c, s, qc, wi, is), Grown(is, f, is2, more), Kept(s, t), Place(p, t),
         Stream(t, r, wi2, is2), more => ~ Own(p, c, f) /\ f.kind \notin {"subscribe", "psubscribe"},
         more /\ f.kind = "close" => \E j \in DOMAIN is : IsReply(is[j], "quit"),
         wi2 = wi \/ IsPrefix(wi, wi2), Refused(qc) => Refused(r),
         t.shut = "quit" => s.shut = "quit" \/ \E j \in DOMAIN wi2 : IsReply(wi2[j], "quit"),
         t.pc = "reply" => s.pc = "reply", t.quit => s.quit, s.pc = "return" => t.pc = "return"
  PROVE  Well(p, c, t, r, wi2, is2)
<1>1. /\ s \in States /\ wi \in Seq(Frames) /\ is \in Seq(Frames) /\ Said(c, s)
      /\ OwnOk(p, c, s, qc, is) /\ QuitOk(s, qc, wi, is)
      /\ AckOk(s, is, "subscribe", "unsubscribe", s.subs)
      /\ AckOk(s, is, "psubscribe", "punsubscribe", s.psubs)
  BY DEF Well, Local
<1>2. /\ t.k = s.k /\ t.cmd = s.cmd /\ t.out = s.out /\ t.subs = s.subs /\ t.psubs = s.psubs
      /\ s.shut # "" => t.shut # ""
  BY DEF Kept
<1>3. is2 \in Seq(Frames)
  BY <1>1, AppendAt DEF Grown
<1>4. Said(c, t)
  BY <1>1, <1>2 DEF Said
<1> HIDE DEF Said, Place, Stream, OwnOk, QuitOk, AckOk, Refused, Own, IsReply, IsPrefix
<1>5. OwnOk(p, c, t, r, is2)
  BY <1>1, <1>2, OwnKeep
<1>6. QuitOk(t, r, wi2, is2)
  BY <1>1, <1>2, QuitKeep
<1>7. Carries(s, t)
  BY <1>2 DEF Keeps, Carries
<1>8. AckOk(t, is2, "subscribe", "unsubscribe", t.subs)
  <2>1. Marks(t.out, "subscribe", t.subs) /\ s.subs \subseteq t.subs
    BY <1>1, <1>2 DEF AckOk
  <2>2. more => f.kind # "subscribe"
    OBVIOUS
  <2> QED BY <1>1, <1>7, <2>1, <2>2, AckKeep
<1>9. AckOk(t, is2, "psubscribe", "punsubscribe", t.psubs)
  <2>1. Marks(t.out, "psubscribe", t.psubs) /\ s.psubs \subseteq t.psubs
    BY <1>1, <1>2 DEF AckOk
  <2>2. more => f.kind # "psubscribe"
    OBVIOUS
  <2> QED BY <1>1, <1>7, <2>1, <2>2, AckKeep
<1>10. QueueShape(r)
  BY DEF RingOk
<1> QED BY <1>3, <1>4, <1>5, <1>6, <1>8, <1>9 DEF Well, Local

Alike(s, t) ==
  /\ t.k = s.k /\ t.pc = s.pc /\ t.cmd = s.cmd /\ t.todo = s.todo /\ t.out = s.out
  /\ t.pubs = s.pubs /\ t.pend = s.pend /\ t.subs = s.subs /\ t.psubs = s.psubs
  /\ t.mon = s.mon /\ t.push = s.push /\ t.wr = s.wr /\ t.must = s.must
  /\ t.quit => s.quit
  /\ s.shut # "" => t.shut # ""

LEMMA PlaceAlike ==
  ASSUME NEW p, NEW s, NEW t, Place(p, s), Alike(s, t)
  PROVE  Place(p, t) /\ Kept(s, t)
BY DEF Place, Alike, Kept

LEMMA ShutAlike ==
  ASSUME NEW s \in States, NEW who \in Shuts \ {""}
  PROVE  /\ Shut(s, who) \in States /\ Alike(s, Shut(s, who))
         /\ Shut(s, who).w = s.w /\ Shut(s, who).batch = s.batch
         /\ Shut(s, who).shut # "" /\ Shut(s, who).shut \in {s.shut, who}
         /\ (s.shut # "" => Shut(s, who).shut = s.shut)
<1> DEFINE t == Shut(s, who)
<1>1. CASE s.shut # ""
  <2>1. t = s
    BY <1>1 DEF Shut
  <2> HIDE DEF t
  <2>2. Alike(s, t)
    BY <2>1 DEF Alike
  <2> QED BY <1>1, <2>1, <2>2 DEF t
<1>2. CASE s.shut = ""
  <2>1. t = [s EXCEPT !.shut = who]
    BY <1>2 DEF Shut
  <2>2. /\ t \in States /\ t.shut = who /\ t.pc = s.pc /\ t.wr = s.wr
        /\ t.k = s.k /\ t.cmd = s.cmd /\ t.todo = s.todo /\ t.out = s.out /\ t.pubs = s.pubs
        /\ t.pend = s.pend /\ t.subs = s.subs /\ t.psubs = s.psubs /\ t.mon = s.mon
        /\ t.push = s.push /\ t.quit = s.quit /\ t.w = s.w /\ t.batch = s.batch
        /\ t.must = s.must
    BY <2>1 DEF States
  <2> HIDE DEF t
  <2>3. Alike(s, t)
    BY <1>2, <2>2 DEF Alike
  <2> QED BY <1>2, <2>2, <2>3 DEF t
<1> QED BY <1>1, <1>2

LEMMA SomeFrame ==
  ASSUME NEW c \in Clients
  PROVE  \E f : f \in Frames
<1> DEFINE f == [kind |-> "reply", of |-> <<c, 0>>, what |-> "ping"]
<1>1. f \in Frames
  BY DEF Frames, Kinds, Names
<1> QED BY <1>1

\* A step of the writer, of an administrator or of the network.
LEMMA QuietWell ==
  ASSUME NEW p, NEW c \in Clients, NEW s, NEW t \in States, NEW qc, NEW r, RingOk(r), NEW wi,
         NEW wi2 \in Seq(Frames), NEW is, Well(p, c, s, qc, wi, is), Alike(s, t),
         Stream(t, r, wi2, is), wi2 = wi \/ IsPrefix(wi, wi2), Refused(qc) => Refused(r),
         t.shut = "quit" => s.shut = "quit" \/ \E j \in DOMAIN wi2 : IsReply(wi2[j], "quit")
  PROVE  Well(p, c, t, r, wi2, is)
<1>1. PICK f : f \in Frames
  BY SomeFrame
<1>2. Grown(is, f, is, FALSE)
  BY DEF Grown
<1>3. Place(p, t) /\ Kept(s, t)
  <2>1. Place(p, s)
    BY DEF Well, Local
  <2> QED BY <2>1, PlaceAlike
<1>4. t.pc = s.pc /\ (t.quit => s.quit)
  BY DEF Alike
<1> HIDE DEF Place, Kept, Stream, Refused, IsReply, IsPrefix, Well, RingOk
<1> QED BY <1>1, <1>2, <1>3, <1>4, WellKeep

LEMMA ShutWell ==
  ASSUME NEW p, NEW c \in Clients, NEW s, NEW qc, NEW wi, NEW is, Well(p, c, s, qc, wi, is),
         NEW who \in {"slow", "kill", "client"}
  PROVE  Well(p, c, Shut(s, who), qc, wi, is)
<1> DEFINE t == Shut(s, who)
<1>1. s \in States /\ RingOk(qc) /\ wi \in Seq(Frames) /\ Stream(s, qc, wi, is)
  BY DEF Well, Local
<1>2. who \in Shuts \ {""} /\ who # "quit"
  BY DEF Shuts
<1>3. t \in States /\ Alike(s, t) /\ (t.shut = "quit" => s.shut = "quit")
  BY <1>1, <1>2, ShutAlike
<1>4. Stream(t, qc, wi, is)
  BY <1>1, <1>2, StreamShut
<1> HIDE DEF t
<1>5. Well(p, c, t, qc, wi, is)
  BY <1>1, <1>3, <1>4, QuietWell
<1> QED BY <1>5 DEF t

\* A frame of another connection is queued, or the connection closed.
LEMMA OfferWell ==
  ASSUME NEW p, NEW c \in Clients, NEW s, NEW qc, NEW wi, NEW is, Well(p, c, s, qc, wi, is),
         s.push, NEW f \in Frames, ~ Own(p, c, f), f.kind \in {"message", "pmessage", "monitor"},
         NEW n \in Nat
  PROVE  /\ Accepts(qc, n) => Well(p, c, s, Enqueue(qc, f, n), wi, Append(is, f))
         /\ ~ Accepts(qc, n) => Well(p, c, Shut(s, "slow"), Enqueue(qc, f, n), wi, is)
<1> DEFINE r == Enqueue(qc, f, n)
<1>1. /\ s \in States /\ RingOk(qc) /\ wi \in Seq(Frames) /\ is \in Seq(Frames)
      /\ Stream(s, qc, wi, is) /\ Place(p, s)
  BY DEF Well, Local
<1>2. /\ Accepts(qc, n) => Stream(s, r, wi, Append(is, f))
      /\ ~ Accepts(qc, n) => Stream(Shut(s, "slow"), r, wi, is)
  BY <1>1, StreamOffer
<1>3. RingOk(r)
  BY <1>1, EnqueueRing
<1>4. Refused(qc) => ~ Accepts(qc, n) /\ Refused(r)
  BY <1>1, EnqueueRing DEF Accepts
<1> HIDE DEF r, Accepts
<1>5. ASSUME Accepts(qc, n) PROVE Well(p, c, s, r, wi, Append(is, f))
  <2>1. Grown(is, f, Append(is, f), TRUE)
    BY DEF Grown
  <2>2. Kept(s, s)
    BY DEF Kept
  <2>3. Refused(qc) => Refused(r)
    BY <1>4
  <2>4. f.kind \notin {"subscribe", "psubscribe"} /\ f.kind # "close"
    OBVIOUS
  <2>5. Stream(s, r, wi, Append(is, f))
    BY <1>2, <1>5
  <2> HIDE DEF Place, Kept, Stream, Refused, IsReply, IsPrefix, Well, RingOk, Own
  <2> QED BY <1>1, <1>3, <2>1, <2>2, <2>3, <2>4, <2>5, WellKeep
<1>6. ASSUME ~ Accepts(qc, n) PROVE Well(p, c, Shut(s, "slow"), r, wi, is)
  <2> DEFINE t == Shut(s, "slow")
  <2>1. "slow" \in Shuts \ {""}
    BY DEF Shuts
  <2>2. t \in States /\ Alike(s, t) /\ (t.shut = "quit" => s.shut = "quit")
    BY <1>1, <2>1, ShutAlike
  <2>3. Stream(t, r, wi, is)
    BY <1>2, <1>6
  <2>4. Refused(qc) => Refused(r)
    BY <1>4
  <2> HIDE DEF t, Alike, Stream, Refused, IsReply, IsPrefix, Well, RingOk
  <2>5. Well(p, c, t, r, wi, is)
    BY <1>1, <1>3, <2>2, <2>3, <2>4, QuietWell
  <2> QED BY <2>5 DEF t
<1> QED BY <1>5, <1>6 DEF r

\* What is left of Well when the parts are wanted.
LEMMA WellIs ==
  ASSUME NEW p, NEW c, NEW s, NEW qc, NEW wi, NEW is, Well(p, c, s, qc, wi, is)
  PROVE  /\ s \in States /\ RingOk(qc) /\ wi \in Seq(Frames) /\ is \in Seq(Frames)
         /\ Place(p, s) /\ Said(c, s) /\ Stream(s, qc, wi, is)
         /\ OwnOk(p, c, s, qc, is) /\ QuitOk(s, qc, wi, is)
         /\ AckOk(s, is, "subscribe", "unsubscribe", s.subs)
         /\ AckOk(s, is, "psubscribe", "punsubscribe", s.psubs)
BY DEF Well, Local

\* The end of a command: its direct replies are flushed.
LEMMA FlushWell ==
  ASSUME NEW p, NEW c \in Clients, NEW s, NEW qc, NEW wi, NEW is, Well(p, c, s, qc, wi, is),
         s.pc = "reply", s.out = <<>>, ~ s.quit, s.w # "write"
  PROVE  Well(p, c, [s EXCEPT !.pc = "idle", !.wr = <<>>], qc,
              IF s.shut = "" THEN wi \o s.wr ELSE wi, is)
<1> DEFINE t == [s EXCEPT !.pc = "idle", !.wr = <<>>]
           wi2 == IF s.shut = "" THEN wi \o s.wr ELSE wi
<1>1. /\ s \in States /\ RingOk(qc) /\ wi \in Seq(Frames) /\ is \in Seq(Frames)
      /\ Place(p, s) /\ Stream(s, qc, wi, is)
  BY WellIs
<1>2. s.wr \in Seq(Frames)
  BY <1>1 DEF States
<1>3. /\ t \in States /\ t.pc = "idle" /\ t.wr = <<>>
      /\ t.k = s.k /\ t.cmd = s.cmd /\ t.todo = s.todo /\ t.out = s.out /\ t.pubs = s.pubs
      /\ t.pend = s.pend /\ t.subs = s.subs /\ t.psubs = s.psubs /\ t.mon = s.mon
      /\ t.push = s.push /\ t.quit = s.quit /\ t.w = s.w /\ t.batch = s.batch
      /\ t.shut = s.shut /\ t.must = s.must
  BY <1>1 DEF States, Places
<1> HIDE DEF t
<1>4. Place(p, t) /\ Kept(s, t)
  BY <1>1, <1>3 DEF Place, Kept, Resting
<1>5. wi2 \in Seq(Frames) /\ (wi2 = wi \/ IsPrefix(wi, wi2))
  BY <1>1, <1>2, ConcatAt, PrefixConcat
<1>6. Stream(t, qc, wi2, is)
  BY <1>1, <1>3, StreamFlush
<1> HIDE DEF wi2
<1>7. PICK f : f \in Frames
  BY SomeFrame
<1>8. Grown(is, f, is, FALSE)
  BY DEF Grown
<1> HIDE DEF Place, Kept, Stream, Refused, IsReply, IsPrefix, Well, RingOk
<1>9. Well(p, c, t, qc, wi2, is)
  BY <1>1, <1>3, <1>4, <1>5, <1>6, <1>7, <1>8, WellKeep
<1> QED BY <1>9 DEF t, wi2

\* QUIT without a push writer: the answer is flushed and the socket closed.
LEMMA QuitNowWell ==
  ASSUME NEW p, NEW c \in Clients, NEW s, NEW qc, NEW wi, NEW is, Well(p, c, s, qc, wi, is),
         s.pc = "reply", s.out = <<>>, s.quit, ~ s.push
  PROVE  Well(p, c, Shut([s EXCEPT !.quit = FALSE, !.wr = <<>>], "quit"), qc,
              IF s.shut = "" THEN wi \o s.wr ELSE wi, is)
<1> DEFINE u == [s EXCEPT !.quit = FALSE, !.wr = <<>>]
           t == Shut(u, "quit")
           wi2 == IF s.shut = "" THEN wi \o s.wr ELSE wi
<1>1. /\ s \in States /\ RingOk(qc) /\ wi \in Seq(Frames) /\ is \in Seq(Frames)
      /\ Place(p, s) /\ Stream(s, qc, wi, is) /\ QuitOk(s, qc, wi, is)
  BY WellIs
<1>2. s.wr \in Seq(Frames)
  BY <1>1 DEF States
<1>3. /\ u \in States /\ u.pc = s.pc /\ u.wr = <<>>
      /\ u.k = s.k /\ u.cmd = s.cmd /\ u.todo = s.todo /\ u.out = s.out /\ u.pubs = s.pubs
      /\ u.pend = s.pend /\ u.subs = s.subs /\ u.psubs = s.psubs /\ u.mon = s.mon
      /\ u.push = s.push /\ ~ u.quit /\ u.w = s.w /\ u.batch = s.batch
      /\ u.shut = s.shut /\ u.must = s.must
  BY <1>1 DEF States
<1>4. "quit" \in Shuts \ {""}
  BY DEF Shuts
<1> HIDE DEF u
<1>5. /\ t \in States /\ t.pc = s.pc /\ t.wr = <<>>
      /\ t.k = s.k /\ t.cmd = s.cmd /\ t.todo = s.todo /\ t.out = s.out /\ t.pubs = s.pubs
      /\ t.pend = s.pend /\ t.subs = s.subs /\ t.psubs = s.psubs /\ t.mon = s.mon
      /\ t.push = s.push /\ ~ t.quit /\ t.w = s.w /\ t.batch = s.batch
      /\ t.must = s.must /\ t.shut # "" /\ (s.shut # "" => t.shut = s.shut)
  <2>1. u \in States
    BY <1>3
  <2>2. t \in States /\ Alike(u, t) /\ t.w = u.w /\ t.batch = u.batch
    BY <1>4, <2>1, ShutAlike
  <2>3. t.shut # "" /\ (u.shut # "" => t.shut = u.shut)
    BY <1>4, <2>1, ShutAlike
  <2> HIDE DEF t
  <2> QED BY <1>3, <2>2, <2>3 DEF Alike
<1> HIDE DEF t
<1>6. Place(p, t) /\ Kept(s, t)
  BY <1>1, <1>5 DEF Place, Kept, Resting
<1>7. wi2 \in Seq(Frames) /\ (wi2 = wi \/ IsPrefix(wi, wi2))
  BY <1>1, <1>2, ConcatAt, PrefixConcat
<1>8. qc = NewQ /\ s.w = "off" /\ s.batch = <<>>
  BY <1>1 DEF Stream
<1>9. Stream(t, qc, wi2, is)
  BY <1>1, <1>5, <1>8, StreamFlush
<1>10. t.shut = "quit" => s.shut = "quit" \/ \E j \in DOMAIN wi2 : IsReply(wi2[j], "quit")
  <2>1. CASE s.shut # ""
    BY <1>5, <2>1
  <2>2. CASE s.shut = ""
    <3>1. is = wi \o s.wr
      <4>1. is = wi \o s.wr \o s.batch \o Contents(qc) /\ Contents(qc) = <<>>
        BY <1>1, <1>8, <2>2, NewRing DEF Stream
      <4>2. wi \o s.wr \in Seq(Frames)
        BY <1>1, <1>2, ConcatAt
      <4> QED BY <1>8, <4>1, <4>2, EmptyConcat
    <3>2. ~ Refused(qc)
      BY <1>8, NewRing
    <3>3. DOMAIN s.out = {}
      OBVIOUS
    <3>4. \E i \in DOMAIN is : IsReply(is[i], "quit")
      <4> HIDE DEF IsReply, Refused
      <4> QED BY <1>1, <3>2, <3>3 DEF QuitOk
    <3> QED BY <2>2, <3>1, <3>4
  <2> QED BY <2>1, <2>2
<1> HIDE DEF wi2
<1>11. PICK f : f \in Frames
  BY SomeFrame
<1>12. Grown(is, f, is, FALSE)
  BY DEF Grown
<1> HIDE DEF Place, Kept, Stream, Refused, IsReply, IsPrefix, Well, RingOk
<1>13. Well(p, c, t, qc, wi2, is)
  BY <1>1, <1>5, <1>6, <1>7, <1>9, <1>10, <1>11, <1>12, WellKeep
<1> QED BY <1>13 DEF t, u, wi2

\* QUIT with a push writer: a close mark behind all that is queued.
LEMMA QuitMarkWell ==
  ASSUME NEW p, NEW c \in Clients, NEW s, NEW qc, NEW wi, NEW is, Well(p, c, s, qc, wi, is),
         s.pc = "reply", s.out = <<>>, s.quit, s.push,
         NEW f \in Frames, f.kind = "close", NEW n \in Nat
  PROVE  /\ Accepts(qc, n) => Well(p, c, [s EXCEPT !.quit = FALSE], Enqueue(qc, f, n), wi, Append(is, f))
         /\ ~ Accepts(qc, n) => Well(p, c, [Shut(s, "slow") EXCEPT !.quit = FALSE], Enqueue(qc, f, n), wi, is)
<1> DEFINE r == Enqueue(qc, f, n)
           u == IF Accepts(qc, n) THEN s ELSE Shut(s, "slow")
           t == [u EXCEPT !.quit = FALSE]
           more == Accepts(qc, n)
           is2 == IF more THEN Append(is, f) ELSE is
<1>1. /\ s \in States /\ RingOk(qc) /\ wi \in Seq(Frames) /\ is \in Seq(Frames)
      /\ Place(p, s) /\ Stream(s, qc, wi, is) /\ QuitOk(s, qc, wi, is)
  BY WellIs
<1>2. /\ RingOk(r) /\ (Refused(qc) => Refused(r)) /\ (more => ~ Refused(qc))
  BY <1>1, EnqueueRing DEF Accepts
<1>3. Stream(u, r, wi, is2)
  BY <1>1, StreamOffer
<1>4. u \in States /\ Alike(s, u) /\ (u.shut = "quit" => s.shut = "quit")
  <2>1. "slow" \in Shuts \ {""}
    BY DEF Shuts
  <2>2. Shut(s, "slow") \in States /\ Alike(s, Shut(s, "slow"))
        /\ (Shut(s, "slow").shut = "quit" => s.shut = "quit")
    BY <1>1, <2>1, ShutAlike
  <2>3. Alike(s, s)
    BY DEF Alike
  <2> QED BY <1>1, <2>2, <2>3
<1>5. more => \E j \in DOMAIN is : IsReply(is[j], "quit")
  <2>1. DOMAIN s.out = {}
    OBVIOUS
  <2> HIDE DEF IsReply, Refused, more
  <2> QED BY <1>1, <1>2, <2>1 DEF QuitOk
<1>6. Grown(is, f, is2, more)
  BY DEF Grown
<1> HIDE DEF u, r, more, is2
<1>7. /\ t \in States /\ t.pc = u.pc /\ t.wr = u.wr
      /\ t.k = u.k /\ t.cmd = u.cmd /\ t.todo = u.todo /\ t.out = u.out /\ t.pubs = u.pubs
      /\ t.pend = u.pend /\ t.subs = u.subs /\ t.psubs = u.psubs /\ t.mon = u.mon
      /\ t.push = u.push /\ ~ t.quit /\ t.w = u.w /\ t.batch = u.batch
      /\ t.must = u.must /\ t.shut = u.shut
  BY <1>4 DEF States
<1> HIDE DEF t
<1>8. Place(p, t) /\ Kept(s, t) /\ t.pc = s.pc
  <2>1. Place(p, u)
    BY <1>1, <1>4, PlaceAlike
  <2>2. Alike(u, t) /\ t.pc = u.pc
    BY <1>7 DEF Alike
  <2>3. Alike(s, t) /\ u.pc = s.pc
    BY <1>4, <2>2 DEF Alike
  <2> HIDE DEF Alike, Place, Kept
  <2>4. Place(p, t)
    BY <2>1, <2>2, PlaceAlike
  <2>5. Kept(s, t)
    BY <1>1, <2>3, PlaceAlike
  <2> QED BY <2>2, <2>3, <2>4, <2>5
<1>9. Stream(t, r, wi, is2)
  BY <1>3, <1>7, StreamSame
<1>10. /\ more => ~ Own(p, c, f) /\ f.kind \notin {"subscribe", "psubscribe"}
       /\ t.shut = "quit" => s.shut = "quit"
  BY <1>4, <1>7 DEF Own
<1> HIDE DEF Place, Kept, Stream, Refused, IsReply, IsPrefix, Well, RingOk, Own
<1>11. Well(p, c, t, r, wi, is2)
  BY <1>1, <1>2, <1>5, <1>6, <1>7, <1>8, <1>9, <1>10, WellKeep
<1> QED BY <1>11 DEF t, u, r, more, is2

\* The closed callback stops the writer ...
LEMMA ClosedWell ==
  ASSUME NEW p, NEW c \in Clients, NEW s, NEW qc, NEW wi, NEW is, Well(p, c, s, qc, wi, is),
         s.pc = "idle", s.shut # ""
  PROVE  Well(p, c, [s EXCEPT !.pc = "closing"], IF s.push THEN CloseQ(qc) ELSE qc, wi, is)
<1> DEFINE t == [s EXCEPT !.pc = "closing"]
           r == IF s.push THEN CloseQ(qc) ELSE qc
<1>1. /\ s \in States /\ RingOk(qc) /\ wi \in Seq(Frames) /\ is \in Seq(Frames)
      /\ Place(p, s) /\ Stream(s, qc, wi, is)
  BY WellIs
<1>3. /\ t \in States /\ t.pc = "closing" /\ t.wr = s.wr
      /\ t.k = s.k /\ t.cmd = s.cmd /\ t.todo = s.todo /\ t.out = s.out /\ t.pubs = s.pubs
      /\ t.pend = s.pend /\ t.subs = s.subs /\ t.psubs = s.psubs /\ t.mon = s.mon
      /\ t.push = s.push /\ t.quit = s.quit /\ t.w = s.w /\ t.batch = s.batch
      /\ t.shut = s.shut /\ t.must = s.must
  BY <1>1 DEF States, Places
<1> HIDE DEF t
<1>4. Place(p, t) /\ Kept(s, t)
  BY <1>1, <1>3 DEF Place, Kept, Resting
<1>5. RingOk(r) /\ (Refused(qc) => Refused(r)) /\ Contents(r) = Contents(qc)
  <2>1. /\ RingOk(CloseQ(qc)) /\ Contents(CloseQ(qc)) = Contents(qc)
        /\ (Refused(qc) => Refused(CloseQ(qc)))
    BY <1>1, FlagRing DEF Refused
  <2> QED BY <1>1, <2>1
<1>6. ~ s.push => r = qc
  OBVIOUS
<1> HIDE DEF r
<1>7. Stream(t, r, wi, is)
  <2> HIDE DEF Refused
  <2> QED BY <1>1, <1>3, <1>5, <1>6 DEF Stream, RingOk
<1>8. PICK f : f \in Frames
  BY SomeFrame
<1>9. Grown(is, f, is, FALSE)
  BY DEF Grown
<1> HIDE DEF Place, Kept, Stream, Refused, IsReply, IsPrefix, Well, RingOk
<1>10. Well(p, c, t, r, wi, is)
  BY <1>1, <1>3, <1>4, <1>5, <1>7, <1>8, <1>9, WellKeep
<1> QED BY <1>10 DEF t, r

\* ... and the connection is forgotten.
LEMMA GoneWell ==
  ASSUME NEW p, NEW c \in Clients, NEW s, NEW qc, NEW wi, NEW is, Well(p, c, s, qc, wi, is),
         s.pc = "closing"
  PROVE  Well(p, c, [s EXCEPT !.pc = "gone", !.subs = {}, !.psubs = {}, !.mon = FALSE], qc, wi, is)
<1> DEFINE t == [s EXCEPT !.pc = "gone", !.subs = {}, !.psubs = {}, !.mon = FALSE]
<1>1. /\ s \in States /\ RingOk(qc) /\ wi \in Seq(Frames) /\ is \in Seq(Frames)
      /\ Place(p, s) /\ Said(c, s) /\ Stream(s, qc, wi, is)
      /\ OwnOk(p, c, s, qc, is) /\ QuitOk(s, qc, wi, is)
  BY WellIs
<1>2. /\ t \in States /\ t.pc = "gone" /\ t.wr = s.wr
      /\ t.k = s.k /\ t.cmd = s.cmd /\ t.todo = s.todo /\ t.out = s.out /\ t.pubs = s.pubs
      /\ t.pend = s.pend /\ t.subs = {} /\ t.psubs = {} /\ ~ t.mon
      /\ t.push = s.push /\ t.quit = s.quit /\ t.w = s.w /\ t.batch = s.batch
      /\ t.shut = s.shut /\ t.must = s.must
  BY <1>1 DEF States, Places
<1> HIDE DEF t
<1>3. IsFiniteSet({})
  BY FS_EmptySet
<1>4. Place(p, t)
  BY <1>1, <1>2, <1>3 DEF Place, Resting
<1>5. Stream(t, qc, wi, is)
  BY <1>1, <1>2, StreamSame
<1>6. t.out = <<>> /\ t.shut # ""
  BY <1>1, <1>2 DEF Place, Resting
<1>7. Said(c, t) /\ (\A on : Marks(t.out, on, {}))
  <2>1. DOMAIN <<>> = {}
    OBVIOUS
  <2>2. DOMAIN t.out = {}
    BY <1>6, <2>1, Zenon
  <2> QED BY <2>2 DEF Said, Marks
<1>8. AckOk(t, is, "subscribe", "unsubscribe", t.subs) /\ AckOk(t, is, "psubscribe", "punsubscribe", t.psubs)
  BY <1>2, <1>6, <1>7 DEF AckOk
<1>9. OwnOk(p, c, t, qc, is) /\ QuitOk(t, qc, wi, is)
  BY <1>1, <1>2 DEF OwnOk, QuitOk
<1>10. Well(p, c, t, qc, wi, is)
  BY <1>1, <1>2, <1>4, <1>5, <1>7, <1>8, <1>9 DEF Well, Local
<1> QED BY <1>10 DEF t

\* The writer's steps: a round is taken ...
LEMMA TakeWell ==
  ASSUME NEW p, NEW c \in Clients, NEW s, NEW qc, NEW wi, NEW is, Well(p, c, s, qc, wi, is),
         s.w = "check", qc.count > 0
  PROVE  Well(p, c, [s EXCEPT !.batch = Round(Contents(qc)), !.w = "write"],
              PopN(qc, Len(Round(Contents(qc)))), wi, is)
<1> DEFINE b == Round(Contents(qc))
           t == [s EXCEPT !.batch = b, !.w = "write"]
           r == PopN(qc, Len(b))
<1>1. s \in States /\ RingOk(qc) /\ wi \in Seq(Frames) /\ is \in Seq(Frames) /\ Stream(s, qc, wi, is)
  BY WellIs
<1>2. b \in Seq(Frames)
  <2>1. Contents(qc) \in Seq(Frames) /\ Len(Contents(qc)) = qc.count
    BY <1>1, RingContents
  <2>2. Contents(qc) # <<>>
    BY <2>1
  <2>3. PICK n \in 1..Len(Contents(qc)) : n <= BatchMax /\ b = SubSeq(Contents(qc), 1, n)
    BY <2>1, <2>2, RoundIs
  <2> QED BY <2>1, <2>3
<1>3. b = Round(Contents(qc))
  OBVIOUS
<1> HIDE DEF b
<1>4. t \in States /\ Alike(s, t) /\ t.batch = b /\ t.w = "write" /\ t.shut = s.shut
  <2>1. /\ t \in States /\ t.shut = s.shut /\ t.pc = s.pc /\ t.wr = s.wr
        /\ t.k = s.k /\ t.cmd = s.cmd /\ t.todo = s.todo /\ t.out = s.out /\ t.pubs = s.pubs
        /\ t.pend = s.pend /\ t.subs = s.subs /\ t.psubs = s.psubs /\ t.mon = s.mon
        /\ t.push = s.push /\ t.quit = s.quit /\ t.w = "write" /\ t.batch = b
        /\ t.must = s.must
    BY <1>1, <1>2 DEF States, Writers
  <2> HIDE DEF t
  <2> QED BY <2>1 DEF Alike
<1> HIDE DEF t, r
<1>5. t.batch = Round(Contents(qc)) /\ t.wr = s.wr /\ t.push = s.push /\ r = PopN(qc, Len(t.batch))
  BY <1>3, <1>4 DEF Alike, r
<1>6. RingOk(r) /\ Stream(t, r, wi, is) /\ Refused(r) = Refused(qc)
  <2> HIDE DEF Alike, Stream, Refused, RingOk
  <2> QED BY <1>1, <1>4, <1>5, StreamTake
<1> HIDE DEF Alike, Stream, Refused, RingOk, Well
<1>7. Well(p, c, t, r, wi, is)
  BY <1>1, <1>4, <1>6, QuietWell
<1> QED BY <1>3, <1>7 DEF t, r

\* ... or there is none to take ...
LEMMA IdleWell ==
  ASSUME NEW p, NEW c \in Clients, NEW s, NEW qc, NEW wi, NEW is, Well(p, c, s, qc, wi, is),
         s.w \in {"check", "wait"}, NEW w \in {"wait", "done"}
  PROVE  Well(p, c, [s EXCEPT !.w = w], qc, wi, is)
<1> DEFINE t == [s EXCEPT !.w = w]
<1>1. s \in States /\ RingOk(qc) /\ wi \in Seq(Frames) /\ is \in Seq(Frames) /\ Stream(s, qc, wi, is)
  BY WellIs
<1>2. t \in States /\ Alike(s, t) /\ t.batch = s.batch /\ t.w = w /\ t.shut = s.shut
  <2>1. /\ t \in States /\ t.shut = s.shut /\ t.pc = s.pc /\ t.wr = s.wr
        /\ t.k = s.k /\ t.cmd = s.cmd /\ t.todo = s.todo /\ t.out = s.out /\ t.pubs = s.pubs
        /\ t.pend = s.pend /\ t.subs = s.subs /\ t.psubs = s.psubs /\ t.mon = s.mon
        /\ t.push = s.push /\ t.quit = s.quit /\ t.w = w /\ t.batch = s.batch
        /\ t.must = s.must
    BY <1>1 DEF States, Writers
  <2> HIDE DEF t
  <2> QED BY <2>1 DEF Alike
<1> HIDE DEF t
<1>3. t.wr = s.wr /\ t.push = s.push
  BY <1>2 DEF Alike
<1>4. Stream(t, qc, wi, is)
  BY <1>1, <1>2, <1>3, StreamIdle
<1> HIDE DEF Alike, Stream, Refused, RingOk, Well
<1>5. Well(p, c, t, qc, wi, is)
  BY <1>1, <1>2, <1>4, QuietWell
<1> QED BY <1>5 DEF t

\* ... until a signal comes ...
LEMMA WokenWell ==
  ASSUME NEW p, NEW c \in Clients, NEW s, NEW qc, NEW wi, NEW is, Well(p, c, s, qc, wi, is),
         s.w = "wait"
  PROVE  Well(p, c, [s EXCEPT !.w = "check"], [qc EXCEPT !.notify = FALSE], wi, is)
<1> DEFINE t == [s EXCEPT !.w = "check"]
           r == [qc EXCEPT !.notify = FALSE]
<1>1. s \in States /\ RingOk(qc) /\ wi \in Seq(Frames) /\ is \in Seq(Frames) /\ Stream(s, qc, wi, is)
  BY WellIs
<1>2. t \in States /\ Alike(s, t) /\ t.batch = s.batch /\ t.w = "check" /\ t.shut = s.shut
  <2>1. /\ t \in States /\ t.shut = s.shut /\ t.pc = s.pc /\ t.wr = s.wr
        /\ t.k = s.k /\ t.cmd = s.cmd /\ t.todo = s.todo /\ t.out = s.out /\ t.pubs = s.pubs
        /\ t.pend = s.pend /\ t.subs = s.subs /\ t.psubs = s.psubs /\ t.mon = s.mon
        /\ t.push = s.push /\ t.quit = s.quit /\ t.w = "check" /\ t.batch = s.batch
        /\ t.must = s.must
    BY <1>1 DEF States, Writers
  <2> HIDE DEF t
  <2> QED BY <2>1 DEF Alike
<1>3. /\ RingOk(r) /\ Contents(r) = Contents(qc) /\ (Refused(r) <=> Refused(qc))
  BY <1>1, FlagRing DEF Refused
<1> HIDE DEF t, r
<1>4. t.wr = s.wr /\ t.push = s.push
  BY <1>2 DEF Alike
<1>5. s.push
  BY <1>1 DEF Stream
<1>6. Stream(t, r, wi, is)
  <2> HIDE DEF Refused
  <2> QED BY <1>1, <1>2, <1>3, <1>4, <1>5 DEF Stream, RingOk
<1> HIDE DEF Alike, Stream, Refused, RingOk, Well
<1>7. Well(p, c, t, r, wi, is)
  BY <1>1, <1>2, <1>3, <1>6, QuietWell
<1> QED BY <1>7 DEF t, r

\* ... and a round is written, or dropped because the socket is closed.
LEMMA WriteWell ==
  ASSUME NEW p, NEW c \in Clients, NEW s, NEW qc, NEW wi, NEW is, Well(p, c, s, qc, wi, is),
         s.w = "write"
  PROVE  /\ s.shut # "" => Well(p, c, [s EXCEPT !.w = "done", !.batch = <<>>], qc, wi, is)
         /\ s.shut = "" =>
              /\ s.batch[Len(s.batch)].kind = "close" =>
                   Well(p, c, Shut([s EXCEPT !.w = "done", !.batch = <<>>], "quit"), qc, wi \o s.batch, is)
              /\ Well(p, c, [s EXCEPT !.w = "check", !.batch = <<>>], qc, wi \o s.batch, is)
<1>1. /\ s \in States /\ RingOk(qc) /\ wi \in Seq(Frames) /\ is \in Seq(Frames)
      /\ Stream(s, qc, wi, is) /\ QuitOk(s, qc, wi, is) /\ s.batch \in Seq(Frames)
  <2>1. s \in States
    BY WellIs
  <2> QED BY <2>1, WellIs DEF States
<1> DEFINE wi2 == IF s.shut = "" THEN wi \o s.batch ELSE wi
           u(w) == [s EXCEPT !.w = w, !.batch = <<>>]
<1>2. wi2 \in Seq(Frames) /\ (wi2 = wi \/ IsPrefix(wi, wi2))
  BY <1>1, ConcatAt, PrefixConcat
<1>3. ASSUME NEW w \in {"check", "done"}
      PROVE  u(w) \in States /\ Alike(s, u(w)) /\ u(w).batch = <<>> /\ u(w).w = w /\ u(w).shut = s.shut
  <2> DEFINE t == u(w)
  <2>1. /\ t \in States /\ t.shut = s.shut /\ t.pc = s.pc /\ t.wr = s.wr
        /\ t.k = s.k /\ t.cmd = s.cmd /\ t.todo = s.todo /\ t.out = s.out /\ t.pubs = s.pubs
        /\ t.pend = s.pend /\ t.subs = s.subs /\ t.psubs = s.psubs /\ t.mon = s.mon
        /\ t.push = s.push /\ t.quit = s.quit /\ t.w = w /\ t.batch = <<>>
        /\ t.must = s.must
    <3>1. s \in States /\ <<>> \in Seq(Frames) /\ w \in Writers
      BY <1>1, <1>3 DEF Writers
    <3> QED BY <3>1 DEF States
  <2> HIDE DEF t
  <2>2. Alike(s, t)
    BY <2>1 DEF Alike
  <2>3. t \in States /\ t.batch = <<>> /\ t.w = w /\ t.shut = s.shut
    BY <2>1
  <2> QED BY <2>2, <2>3 DEF t
<1> HIDE DEF u
<1>4. ASSUME NEW w \in {"check", "done"} PROVE Well(p, c, u(w), qc, wi2, is)
  <2> DEFINE t == u(w)
  <2>1. t \in States /\ Alike(s, t) /\ t.batch = <<>> /\ t.w \in {"check", "done"} /\ t.shut = s.shut
    BY <1>3, <1>4
  <2> HIDE DEF t
  <2>2. t.wr = s.wr /\ t.push = s.push
    BY <2>1 DEF Alike
  <2>3. Stream(t, qc, wi2, is)
    BY <1>1, <2>1, <2>2, StreamWrite
  <2> HIDE DEF wi2, Alike, Stream, Refused, RingOk, Well, IsPrefix
  <2>4. Well(p, c, t, qc, wi2, is)
    BY <1>1, <1>2, <2>1, <2>3, QuietWell
  <2> QED BY <2>4 DEF t
<1>5. ASSUME s.shut = "", s.batch[Len(s.batch)].kind = "close"
      PROVE  Well(p, c, Shut(u("done"), "quit"), qc, wi2, is)
  <2> DEFINE v == u("done")
             t == Shut(v, "quit")
  <2>1. v \in States /\ Alike(s, v) /\ v.batch = <<>> /\ v.w = "done" /\ v.shut = s.shut
    BY <1>3
  <2>2. "quit" \in Shuts \ {""}
    BY DEF Shuts
  <2> HIDE DEF v
  <2>3. t \in States /\ Alike(v, t) /\ t.w = v.w /\ t.batch = v.batch
    BY <2>1, <2>2, ShutAlike
  <2> HIDE DEF t
  <2>4. Alike(s, t)
    BY <2>1, <2>3 DEF Alike
  <2>5. /\ t.batch = <<>> /\ t.w \in {"check", "done"} /\ t.wr = s.wr /\ t.push = s.push
        /\ (s.shut # "" => t.shut # "")
    BY <2>1, <2>3, <2>4 DEF Alike
  <2>6. Stream(t, qc, wi2, is)
    BY <1>1, <2>5, StreamWrite
  <2>7. \E j \in DOMAIN wi2 : IsReply(wi2[j], "quit")
    BY <1>1, <1>5, QuitWrite
  <2> HIDE DEF wi2, Alike, Stream, Refused, RingOk, Well, IsPrefix, IsReply
  <2>8. Well(p, c, t, qc, wi2, is)
    BY <1>1, <1>2, <2>3, <2>4, <2>6, <2>7, QuietWell
  <2> QED BY <2>8 DEF t, v
<1> QED BY <1>4, <1>5 DEF u

\* An administrator's request.
LEMMA KillWell ==
  ASSUME NEW p, NEW c \in Clients, NEW s, NEW qc, NEW wi, NEW is, Well(p, c, s, qc, wi, is)
  PROVE  Well(p, c, [s EXCEPT !.kill = TRUE], qc, wi, is)
<1> DEFINE t == [s EXCEPT !.kill = TRUE]
<1>1. s \in States /\ RingOk(qc) /\ wi \in Seq(Frames) /\ is \in Seq(Frames) /\ Stream(s, qc, wi, is)
  BY WellIs
<1>2. t \in States /\ Alike(s, t) /\ t.batch = s.batch /\ t.w = s.w /\ t.shut = s.shut
  <2>1. /\ t \in States /\ t.shut = s.shut /\ t.pc = s.pc /\ t.wr = s.wr
        /\ t.k = s.k /\ t.cmd = s.cmd /\ t.todo = s.todo /\ t.out = s.out /\ t.pubs = s.pubs
        /\ t.pend = s.pend /\ t.subs = s.subs /\ t.psubs = s.psubs /\ t.mon = s.mon
        /\ t.push = s.push /\ t.quit = s.quit /\ t.w = s.w /\ t.batch = s.batch
        /\ t.must = s.must
    BY <1>1 DEF States
  <2> HIDE DEF t
  <2> QED BY <2>1 DEF Alike
<1> HIDE DEF t
<1>3. t.wr = s.wr /\ t.push = s.push
  BY <1>2 DEF Alike
<1>4. Stream(t, qc, wi, is)
  BY <1>1, <1>2, <1>3, StreamSame
<1> HIDE DEF Alike, Stream, Refused, RingOk, Well
<1>5. Well(p, c, t, qc, wi, is)
  BY <1>1, <1>2, <1>4, QuietWell
<1> QED BY <1>5 DEF t

-----------------------------------------------------------------------------
(* A command starts.                                                        *)

\* The members of a finite set, in some order.
LEMMA SetToSeqType ==
  ASSUME NEW S, IsFiniteSet(S)
  PROVE  SetToSeq(S) \in Seq(S)
<1>1. PICK n \in Nat : ExistsBijection(1..n, S)
  BY FS_NatBijection
<1>2. Cardinality(S) = n
  BY <1>1, FS_CountingElements
<1>3. PICK f : f \in [1..n -> S] /\ \A a, b \in 1..n : f[a] = f[b] => a = b
  BY <1>1 DEF ExistsBijection, Bijection, Injection, IsInjective
<1>4. \E g \in [1..Cardinality(S) -> S] : IsInjective(g)
  <2>1. f \in [1..Cardinality(S) -> S] /\ IsInjective(f)
    BY <1>2, <1>3 DEF IsInjective
  <2> QED BY <2>1
<1>5. SetToSeq(S) \in [1..Cardinality(S) -> S]
  <2> HIDE DEF IsInjective
  <2> QED BY <1>4 DEF SetToSeq
<1> QED BY <1>2, <1>5, n \in Nat

LEMMA TargetsType ==
  ASSUME NEW X, NEW args \in Seq(X), NEW set \in SUBSET X, IsFiniteSet(set), NoChan \in X
  PROVE  Targets(args, set) \in Seq(X)
<1>1. SetToSeq(set) \in Seq(X)
  BY SetToSeqType
<1>2. <<NoChan>> \in Seq(X)
  OBVIOUS
<1> HIDE DEF SetToSeq
<1> QED BY <1>1, <1>2 DEF Targets

LEMMA NotificationsType == Notifications \in Seq(Channels)
<1>1. <<"keyspace">> \in Seq(Channels) /\ <<"keyevent">> \in Seq(Channels) /\ <<>> \in Seq(Channels)
  BY PushAssumption
<1>2. ASSUME NEW x \in Seq(Channels), NEW y \in Seq(Channels) PROVE x \o y \in Seq(Channels)
  OBVIOUS
<1> DEFINE x == IF "K" \in case.flags THEN <<"keyspace">> ELSE <<>>
           y == IF "E" \in case.flags THEN <<"keyevent">> ELSE <<>>
<1>3. x \in Seq(Channels) /\ y \in Seq(Channels)
  BY <1>1
<1>4. Notifications = IF "$" \notin case.flags THEN <<>> ELSE x \o y
  BY DEF Notifications
<1> HIDE DEF x, y
<1> QED BY <1>1, <1>2, <1>3, <1>4

\* What a handler leaves behind when command m starts.
Start(s, m, t) ==
  /\ t \in States /\ t.k = s.k + 1 /\ t.cmd = m
  /\ t.out = s.out /\ t.wr = s.wr /\ t.batch = s.batch /\ t.shut = s.shut
  /\ t.pend = s.pend /\ t.must = s.must
  /\ \/ t.push = s.push /\ t.w = s.w
     \/ ~ s.push /\ t.push /\ t.w = "check"
  /\ IF m.name = "reset" THEN t.subs = {} /\ t.psubs = {} ELSE t.subs = s.subs /\ t.psubs = s.psubs
  /\ t.mon => s.mon \/ t.push
  /\ t.quit => s.quit \/ m.name = "quit"
  /\ t.pc = CASE m.name \in Acks -> "args" [] m.name \in {"publish", "set"} -> "publish" [] OTHER -> "return"
  /\ m.name = "subscribe" => t.todo \in Seq(Channels) /\ t.push
  /\ m.name = "psubscribe" => t.todo \in Seq(PatternSet) /\ t.push

\* What commands have in common.
Begun(s, m, t) ==
  /\ t \in States /\ t.k = s.k + 1 /\ t.cmd = m /\ t.out = s.out /\ t.wr = s.wr
  /\ t.batch = s.batch /\ t.shut = s.shut /\ t.pend = s.pend /\ t.must = s.must
  /\ \/ t.push = s.push /\ t.w = s.w
     \/ ~ s.push /\ t.push /\ t.w = "check"
  /\ t.subs = s.subs /\ t.psubs = s.psubs /\ t.mon = s.mon /\ t.quit = s.quit

LEMMA BegunIs ==
  ASSUME NEW s \in States, NEW m \in Commands
  PROVE  /\ Begun(s, m, [s EXCEPT !.k = @ + 1, !.cmd = m])
         /\ Begun(s, m, EnsureDeliver([s EXCEPT !.k = @ + 1, !.cmd = m]))
         /\ EnsureDeliver([s EXCEPT !.k = @ + 1, !.cmd = m]).push
<1> DEFINE u == [s EXCEPT !.k = @ + 1, !.cmd = m]
           v == EnsureDeliver(u)
<1>1. /\ u \in States /\ u.k = s.k + 1 /\ u.cmd = m /\ u.shut = s.shut /\ u.pc = s.pc /\ u.wr = s.wr
      /\ u.out = s.out /\ u.pend = s.pend /\ u.subs = s.subs /\ u.psubs = s.psubs /\ u.mon = s.mon
      /\ u.push = s.push /\ u.quit = s.quit /\ u.w = s.w /\ u.batch = s.batch
      /\ u.must = s.must
  <2>1. s.k + 1 \in Nat
    BY DEF States
  <2> QED BY <2>1 DEF States
<1>2. s.push \in BOOLEAN /\ "check" \in Writers
  BY DEF States, Writers
<1> HIDE DEF u
<1>3. Begun(s, m, u)
  BY <1>1 DEF Begun
<1>4. CASE u.push
  <2>1. v = u
    BY <1>4 DEF EnsureDeliver
  <2> QED BY <1>3, <1>4, <2>1 DEF u
<1>5. CASE ~ u.push
  <2>1. v = [u EXCEPT !.push = TRUE, !.w = "check"]
    BY <1>5 DEF EnsureDeliver
  <2>2. u \in States
    BY <1>1
  <2>3. /\ v \in States /\ v.k = u.k /\ v.cmd = u.cmd /\ v.shut = u.shut /\ v.wr = u.wr
        /\ v.out = u.out /\ v.pend = u.pend /\ v.subs = u.subs /\ v.psubs = u.psubs /\ v.mon = u.mon
        /\ v.push /\ v.quit = u.quit /\ v.w = "check" /\ v.batch = u.batch
        /\ v.must = u.must
    BY <1>2, <2>1, <2>2 DEF States
  <2> HIDE DEF v
  <2>4. Begun(s, m, v)
    BY <1>1, <1>2, <1>5, <2>3 DEF Begun
  <2> QED BY <1>3, <2>3, <2>4 DEF u, v
<1> QED BY <1>4, <1>5

LEMMA HandlerIs ==
  ASSUME NEW p, Program(p), NEW s \in States, Place(p, s), s.k < Len(p), NEW m, m = p[s.k + 1]
  PROVE  m \in Commands /\ Start(s, m, Handler([s EXCEPT !.k = @ + 1, !.cmd = m], m))
<1> DEFINE u == [s EXCEPT !.k = @ + 1, !.cmd = m]
           v == EnsureDeliver(u)
           t == Handler(u, m)
<1> SUFFICES m \in Commands /\ Start(s, m, t)
  OBVIOUS
<1>1. s.k + 1 \in DOMAIN p /\ p \in Seq(Commands)
  BY DEF Program, States
<1>2. /\ m \in Commands
      /\ m.name \in {"subscribe", "publish"} => m.args \in Seq(Channels)
      /\ m.name = "psubscribe" => m.args \in Seq(PatternSet)
  BY <1>1 DEF Program
<1>3. m.name \in Names /\ m.args \in Seq(Channels \cup PatternSet)
  BY <1>2 DEF Commands
<1>4. Begun(s, m, u) /\ Begun(s, m, v) /\ v.push
  BY <1>2, BegunIs
<1>5. s.subs \in SUBSET Channels /\ s.psubs \in SUBSET PatternSet /\ IsFiniteSet(s.subs) /\ IsFiniteSet(s.psubs)
  BY DEF States, Place
<1> HIDE DEF u, v
<1>6. CASE m.name \in {"subscribe", "psubscribe"}
  <2>1. t = [v EXCEPT !.pc = "args", !.todo = m.args]
    BY <1>6 DEF Handler, v
  <2>2. m.args \in Seq(Subjects)
    BY <1>3 DEF Subjects
  <2>3. v \in States /\ "args" \in Places
    BY <1>4 DEF Begun, Places
  <2>4. /\ t \in States /\ t.k = v.k /\ t.cmd = v.cmd /\ t.shut = v.shut /\ t.wr = v.wr
        /\ t.out = v.out /\ t.pend = v.pend /\ t.subs = v.subs /\ t.psubs = v.psubs /\ t.mon = v.mon
        /\ t.push = v.push /\ t.quit = v.quit /\ t.w = v.w /\ t.batch = v.batch
        /\ t.must = v.must /\ t.pc = "args" /\ t.todo = m.args
    BY <2>1, <2>2, <2>3 DEF States
  <2> HIDE DEF t
  <2> QED BY <1>2, <1>4, <1>6, <2>4 DEF Begun, Start, Acks
<1>7. CASE m.name \in {"unsubscribe", "punsubscribe"}
  <2> DEFINE todo == IF m.name = "unsubscribe" THEN Targets(m.args, u.subs) ELSE Targets(m.args, u.psubs)
  <2>1. t = [u EXCEPT !.pc = "args", !.todo = todo]
    BY <1>7 DEF Handler
  <2>2. todo \in Seq(Subjects)
    <3>1. m.args \in Seq(Subjects) /\ s.subs \in SUBSET Subjects /\ s.psubs \in SUBSET Subjects /\ NoChan \in Subjects
      BY <1>3, <1>5 DEF Subjects
    <3>2. u.subs = s.subs /\ u.psubs = s.psubs
      BY <1>4 DEF Begun
    <3> HIDE DEF Subjects
    <3>3. Targets(m.args, s.subs) \in Seq(Subjects) /\ Targets(m.args, s.psubs) \in Seq(Subjects)
      BY <1>5, <3>1, TargetsType
    <3> QED BY <3>2, <3>3
  <2> HIDE DEF todo
  <2>3. u \in States /\ "args" \in Places
    BY <1>4 DEF Begun, Places
  <2>4. /\ t \in States /\ t.k = u.k /\ t.cmd = u.cmd /\ t.shut = u.shut /\ t.wr = u.wr
        /\ t.out = u.out /\ t.pend = u.pend /\ t.subs = u.subs /\ t.psubs = u.psubs /\ t.mon = u.mon
        /\ t.push = u.push /\ t.quit = u.quit /\ t.w = u.w /\ t.batch = u.batch
        /\ t.must = u.must /\ t.pc = "args"
    BY <2>1, <2>2, <2>3 DEF States
  <2> HIDE DEF t
  <2> QED BY <1>2, <1>4, <1>7, <2>4 DEF Begun, Start, Acks
<1>8. CASE m.name \in {"publish", "set"}
  <2> DEFINE pubs == IF m.name = "publish" THEN m.args ELSE Notifications
  <2>1. t = [u EXCEPT !.pc = "publish", !.pubs = pubs]
    BY <1>8 DEF Handler
  <2>2. pubs \in Seq(Channels)
    BY <1>2, <1>8, NotificationsType
  <2> HIDE DEF pubs
  <2>3. u \in States /\ "publish" \in Places
    BY <1>4 DEF Begun, Places
  <2>4. /\ t \in States /\ t.k = u.k /\ t.cmd = u.cmd /\ t.shut = u.shut /\ t.wr = u.wr
        /\ t.out = u.out /\ t.pend = u.pend /\ t.subs = u.subs /\ t.psubs = u.psubs /\ t.mon = u.mon
        /\ t.push = u.push /\ t.quit = u.quit /\ t.w = u.w /\ t.batch = u.batch
        /\ t.must = u.must /\ t.pc = "publish"
    BY <2>1, <2>2, <2>3 DEF States
  <2> HIDE DEF t
  <2> QED BY <1>2, <1>4, <1>8, <2>4 DEF Begun, Start, Acks
<1>9. CASE m.name = "monitor"
  <2>1. t = [v EXCEPT !.pc = "return", !.mon = TRUE]
    BY <1>9 DEF Handler, v
  <2>3. v \in States /\ "return" \in Places
    BY <1>4 DEF Begun, Places
  <2>4. /\ t \in States /\ t.k = v.k /\ t.cmd = v.cmd /\ t.shut = v.shut /\ t.wr = v.wr
        /\ t.out = v.out /\ t.pend = v.pend /\ t.subs = v.subs /\ t.psubs = v.psubs
        /\ t.push = v.push /\ t.quit = v.quit /\ t.w = v.w /\ t.batch = v.batch
        /\ t.must = v.must /\ t.pc = "return"
    BY <2>1, <2>3 DEF States
  <2> HIDE DEF t
  <2> QED BY <1>2, <1>4, <1>9, <2>4 DEF Begun, Start, Acks
<1>10. CASE m.name = "reset"
  <2>1. t = [u EXCEPT !.pc = "return", !.subs = {}, !.psubs = {}]
    BY <1>10 DEF Handler
  <2>3. u \in States /\ "return" \in Places
    BY <1>4 DEF Begun, Places
  <2>4. /\ t \in States /\ t.k = u.k /\ t.cmd = u.cmd /\ t.shut = u.shut /\ t.wr = u.wr
        /\ t.out = u.out /\ t.pend = u.pend /\ t.subs = {} /\ t.psubs = {} /\ t.mon = u.mon
        /\ t.push = u.push /\ t.quit = u.quit /\ t.w = u.w /\ t.batch = u.batch
        /\ t.must = u.must /\ t.pc = "return"
    BY <2>1, <2>3 DEF States
  <2> HIDE DEF t
  <2> QED BY <1>2, <1>4, <1>10, <2>4 DEF Begun, Start, Acks
<1>11. CASE m.name = "quit"
  <2>1. t = [u EXCEPT !.pc = "return", !.quit = TRUE]
    BY <1>11 DEF Handler
  <2>3. u \in States /\ "return" \in Places
    BY <1>4 DEF Begun, Places
  <2>4. /\ t \in States /\ t.k = u.k /\ t.cmd = u.cmd /\ t.shut = u.shut /\ t.wr = u.wr
        /\ t.out = u.out /\ t.pend = u.pend /\ t.subs = u.subs /\ t.psubs = u.psubs /\ t.mon = u.mon
        /\ t.push = u.push /\ t.w = u.w /\ t.batch = u.batch
        /\ t.must = u.must /\ t.pc = "return"
    BY <2>1, <2>3 DEF States
  <2> HIDE DEF t
  <2> QED BY <1>2, <1>4, <1>11, <2>4 DEF Begun, Start, Acks
<1>12. CASE m.name = "ping"
  <2>1. t = [u EXCEPT !.pc = "return"]
    BY <1>12 DEF Handler
  <2>3. u \in States /\ "return" \in Places
    BY <1>4 DEF Begun, Places
  <2>4. /\ t \in States /\ t.k = u.k /\ t.cmd = u.cmd /\ t.shut = u.shut /\ t.wr = u.wr
        /\ t.out = u.out /\ t.pend = u.pend /\ t.subs = u.subs /\ t.psubs = u.psubs /\ t.mon = u.mon
        /\ t.push = u.push /\ t.quit = u.quit /\ t.w = u.w /\ t.batch = u.batch
        /\ t.must = u.must /\ t.pc = "return"
    BY <2>1, <2>3 DEF States
  <2> HIDE DEF t
  <2> QED BY <1>2, <1>4, <1>12, <2>4 DEF Begun, Start, Acks
<1> QED BY <1>2, <1>3, <1>6, <1>7, <1>8, <1>9, <1>10, <1>11, <1>12 DEF Names

LEMMA StartWell ==
  ASSUME NEW p, Program(p), NEW c \in Clients, NEW s, NEW qc, NEW wi, NEW is,
         Well(p, c, s, qc, wi, is), s.pc = "idle", s.k < Len(p), NEW t, Start(s, p[s.k + 1], t)
  PROVE  Well(p, c, t, qc, wi, is)
<1> DEFINE m == p[s.k + 1]
<1>1. /\ s \in States /\ RingOk(qc) /\ wi \in Seq(Frames) /\ is \in Seq(Frames)
      /\ Place(p, s) /\ Said(c, s) /\ Stream(s, qc, wi, is)
      /\ OwnOk(p, c, s, qc, is) /\ QuitOk(s, qc, wi, is)
      /\ AckOk(s, is, "subscribe", "unsubscribe", s.subs)
      /\ AckOk(s, is, "psubscribe", "punsubscribe", s.psubs)
  BY WellIs
<1>2. /\ s.out = <<>> /\ s.wr = <<>> /\ s.must = {} /\ s.pend = <<>> /\ ~ s.quit
      /\ s.k \in Nat /\ s.k + 1 <= Len(p) /\ IsFiniteSet(s.subs) /\ IsFiniteSet(s.psubs)
      /\ ~ s.push => s.subs = {} /\ s.psubs = {} /\ ~ s.mon
  <2>1. s.k \in Nat /\ Len(p) \in Nat
    BY <1>1 DEF States, Program
  <2> QED BY <1>1, <2>1 DEF Place, Resting
<1>3. /\ t \in States /\ t.k = s.k + 1 /\ t.cmd = m
      /\ t.out = s.out /\ t.wr = s.wr /\ t.batch = s.batch /\ t.shut = s.shut
      /\ t.pend = s.pend /\ t.must = s.must
      /\ \/ t.push = s.push /\ t.w = s.w
         \/ ~ s.push /\ t.push /\ t.w = "check"
      /\ IF m.name = "reset" THEN t.subs = {} /\ t.psubs = {} ELSE t.subs = s.subs /\ t.psubs = s.psubs
      /\ t.mon => s.mon \/ t.push
      /\ t.quit => s.quit \/ m.name = "quit"
      /\ t.pc = CASE m.name \in Acks -> "args" [] m.name \in {"publish", "set"} -> "publish" [] OTHER -> "return"
      /\ m.name = "subscribe" => t.todo \in Seq(Channels) /\ t.push
      /\ m.name = "psubscribe" => t.todo \in Seq(PatternSet) /\ t.push
  BY DEF Start
<1> HIDE DEF m
<1>4. /\ t.pc = "args" <=> m.name \in Acks
      /\ t.pc = "publish" <=> m.name \in {"publish", "set"}
      /\ t.pc = "return" <=> m.name \notin Acks \cup {"publish", "set"}
      /\ t.pc \in {"args", "publish", "return"}
  BY <1>3 DEF Acks
<1>5. IsFiniteSet(t.subs) /\ IsFiniteSet(t.psubs) /\ t.subs \subseteq s.subs /\ t.psubs \subseteq s.psubs
  BY <1>2, <1>3, FS_EmptySet
<1>6. Place(p, t)
  <2>1. t.k <= Len(p) /\ t.k > 0 /\ t.cmd = p[t.k]
    BY <1>2, <1>3 DEF m
  <2>2. /\ t.pc \notin Resting /\ t.pc \notin {"closing", "gone", "reply"}
        /\ t.quit => t.pc = "return" /\ m.name = "quit"
    <3>1. t.quit => m.name = "quit"
      BY <1>2, <1>3
    <3>2. m.name = "quit" => t.pc = "return"
      BY <1>4 DEF Acks
    <3> QED BY <1>4, <3>1, <3>2 DEF Resting
  <2>3. ~ t.push => t.subs = {} /\ t.psubs = {} /\ ~ t.mon
    BY <1>2, <1>3
  <2> QED BY <1>2, <1>3, <1>4, <1>5, <2>1, <2>2, <2>3 DEF Place
<1>7. Stream(t, qc, wi, is)
  <2>1. s.push \in BOOLEAN
    BY <1>1 DEF States
  <2>2. CASE t.push = s.push /\ t.w = s.w
    BY <1>1, <1>3, <2>2, StreamSame
  <2>3. CASE ~ s.push /\ t.push /\ t.w = "check"
    <3> HIDE DEF Refused
    <3> QED BY <1>1, <1>2, <1>3, <2>3 DEF Stream
  <2> QED BY <1>3, <2>2, <2>3
<1>8. DOMAIN t.out = {} /\ DOMAIN s.out = {}
  <2>1. DOMAIN <<>> = {}
    OBVIOUS
  <2> QED BY <1>2, <1>3, <2>1, Zenon
<1>9. Said(c, t) /\ (\A on, set : Marks(t.out, on, set))
  BY <1>8 DEF Said, Marks
<1>10. t.pc # "reply"
  BY <1>4
<1>11. OwnOk(p, c, t, qc, is)
  BY <1>1, <1>10 DEF OwnOk
<1>12. QuitOk(t, qc, wi, is)
  BY <1>1, <1>3, <1>10 DEF QuitOk
<1>13. ASSUME NEW on, NEW off, NEW set, NEW set2, AckOk(s, is, on, off, set),
              m.name # "reset" => set2 = set
       PROVE  AckOk(t, is, on, off, set2)
  <2>1. CASE m.name = "reset"
    <3>1. t.pc = "return" /\ t.cmd.name = "reset"
      BY <1>3, <1>4, <2>1 DEF Acks
    <3> QED BY <1>9, <3>1 DEF AckOk
  <2>2. CASE m.name # "reset"
    <3> HIDE DEF Open, Ends
    <3>1. ASSUME s.shut = "", NEW i \in DOMAIN is, Open(is, i, on, off), is[i].what \notin set PROVE FALSE
      BY <1>8, <1>13, <3>1 DEF AckOk
    <3> QED BY <1>3, <1>9, <1>13, <2>2, <3>1 DEF AckOk
  <2> QED BY <2>1, <2>2
<1>14. AckOk(t, is, "subscribe", "unsubscribe", t.subs) /\ AckOk(t, is, "psubscribe", "punsubscribe", t.psubs)
  <2>1. m.name # "reset" => t.subs = s.subs /\ t.psubs = s.psubs
    BY <1>3
  <2> HIDE DEF AckOk
  <2> QED BY <1>1, <1>13, <2>1
<1> QED BY <1>1, <1>3, <1>6, <1>7, <1>9, <1>11, <1>12, <1>14 DEF Well, Local

-----------------------------------------------------------------------------
(* (Un)subscribing, one argument at a time.                                 *)

\* The registrations of a connection after its command name was given subject a.
After(name, on, off, set, a) ==
  IF name = on THEN set \cup {a} ELSE IF name = off THEN set \ {a} ELSE set

LEMMA AckArgument ==
  ASSUME NEW c \in Clients, NEW s \in States, NEW t, NEW is \in Seq(Frames), NEW f \in Frames,
         Grown(s.out, f, t.out, TRUE), t.shut = s.shut, s.pc = "args", Said(c, s),
         NEW on \in Acks, NEW off \in Acks, on # off, NEW set, NEW a, AckOk(s, is, on, off, set),
         s.cmd.name \in Acks, f.kind = s.cmd.name, f.what = a
  PROVE  AckOk(t, is, on, off, After(s.cmd.name, on, off, set, a))
<1> DEFINE set2 == After(s.cmd.name, on, off, set, a)
<1>1. s.out \in Seq(Frames)
  BY DEF States
<1>2. Extends(s.out, f, t.out, TRUE)
  BY <1>1, GrowsKeep
<1>3. CASE s.cmd.name = off
  <2>1. set2 = set \ {a}
    BY <1>3 DEF After
  <2>2. Marks(s.out, on, {})
    <3> SUFFICES ASSUME NEW i \in DOMAIN s.out PROVE s.out[i].kind # on
      BY DEF Marks
    <3>1. \/ s.out[i].kind \in {"message", "pmessage"}
          \/ s.cmd.name \in Acks /\ s.out[i].kind = s.cmd.name
          \/ s.out[i].kind = "reply" /\ s.out[i].what = s.cmd.name
      BY DEF Said
    <3> QED BY <1>3, <3>1 DEF Acks
  <2>3. s.pc # "return"
    OBVIOUS
  <2>4. AckOk(t, is, on, off, set \ {a})
    BY <1>3, <2>2, <2>3, AckLeave
  <2> QED BY <2>1, <2>4
<1>4. CASE s.cmd.name # off
  <2>1. set \subseteq set2 /\ (s.cmd.name = on => a \in set2)
    BY <1>4 DEF After
  <2> HIDE DEF set2
  <2>2. Grown(is, f, is, FALSE)
    BY DEF Grown
  <2>3. Carries(s, t)
    BY <1>2 DEF Carries, Extends
  <2>4. Marks(t.out, on, set2)
    <3> SUFFICES ASSUME NEW i \in DOMAIN t.out, t.out[i].kind = on PROVE t.out[i].what \in set2
      BY DEF Marks
    <3>1. CASE i \in DOMAIN s.out
      <4>1. t.out[i] = s.out[i]
        BY <1>2, <3>1 DEF Extends
      <4>2. s.out[i].what \in set
        BY <3>1, <4>1 DEF AckOk, Marks
      <4> QED BY <2>1, <4>1, <4>2
    <3>2. CASE i \notin DOMAIN s.out
      <4>1. t.out[i] = f
        BY <1>2, <3>2 DEF Extends
      <4> QED BY <2>1, <4>1
    <3> QED BY <3>1, <3>2
  <2>5. AckOk(t, is, on, off, set2)
    BY <2>1, <2>2, <2>3, <2>4, AckKeep
  <2> QED BY <2>5 DEF set2
<1> QED BY <1>3, <1>4

\* What one argument a does to the connection, with ack f.
Argued(s, a, f, t) ==
  /\ t \in States /\ t.k = s.k /\ t.pc = s.pc /\ t.cmd = s.cmd /\ t.todo = Tail(s.todo)
  /\ Grown(s.out, f, t.out, TRUE) /\ t.pend = s.pend /\ t.mon = s.mon /\ t.push = s.push
  /\ t.quit = s.quit /\ t.wr = s.wr /\ t.w = s.w /\ t.batch = s.batch /\ t.shut = s.shut
  /\ t.must = s.must
  /\ t.subs = After(s.cmd.name, "subscribe", "unsubscribe", s.subs, a)
  /\ t.psubs = After(s.cmd.name, "psubscribe", "punsubscribe", s.psubs, a)

LEMMA ArguedWell ==
  ASSUME NEW p, NEW c \in Clients, NEW s, NEW qc, NEW wi, NEW is, Well(p, c, s, qc, wi, is),
         s.pc = "args", s.todo # <<>>, NEW f \in Frames, f.kind = s.cmd.name, f.of = <<c, s.k>>,
         f.what = Head(s.todo), NEW t, Argued(s, Head(s.todo), f, t)
  PROVE  Well(p, c, t, qc, wi, is)
<1> DEFINE a == Head(s.todo)
<1>1. /\ s \in States /\ RingOk(qc) /\ wi \in Seq(Frames) /\ is \in Seq(Frames)
      /\ Place(p, s) /\ Said(c, s) /\ Stream(s, qc, wi, is)
      /\ OwnOk(p, c, s, qc, is) /\ QuitOk(s, qc, wi, is)
      /\ AckOk(s, is, "subscribe", "unsubscribe", s.subs)
      /\ AckOk(s, is, "psubscribe", "punsubscribe", s.psubs)
  BY WellIs
<1>2. /\ t \in States /\ t.k = s.k /\ t.pc = s.pc /\ t.cmd = s.cmd /\ t.todo = Tail(s.todo)
      /\ Grown(s.out, f, t.out, TRUE) /\ t.pend = s.pend /\ t.mon = s.mon /\ t.push = s.push
      /\ t.quit = s.quit /\ t.wr = s.wr /\ t.w = s.w /\ t.batch = s.batch /\ t.shut = s.shut
      /\ t.must = s.must
      /\ t.subs = After(s.cmd.name, "subscribe", "unsubscribe", s.subs, a)
      /\ t.psubs = After(s.cmd.name, "psubscribe", "punsubscribe", s.psubs, a)
  BY DEF Argued
<1>3. s.cmd.name \in Acks /\ s.k # 0
  BY <1>1 DEF Place, Resting
<1>4. Place(p, t)
  <2>1. IsFiniteSet(t.subs) /\ IsFiniteSet(t.psubs)
    <3>1. IsFiniteSet(s.subs) /\ IsFiniteSet(s.psubs)
      BY <1>1 DEF Place
    <3>2. ASSUME NEW S, IsFiniteSet(S) PROVE IsFiniteSet(S \cup {a}) /\ IsFiniteSet(S \ {a})
      BY <3>2, FS_AddElement, FS_RemoveElement
    <3> QED BY <1>2, <3>1, <3>2 DEF After
  <2>2. ~ t.push => t.subs = {} /\ t.psubs = {} /\ ~ t.mon
    <3>1. ~ s.push => s.subs = {} /\ s.psubs = {} /\ ~ s.mon /\ s.cmd.name \notin {"subscribe", "psubscribe"}
      BY <1>1 DEF Place
    <3> QED BY <1>2, <3>1 DEF After
  <2>3. /\ s.cmd.name = "subscribe" => t.todo \in Seq(Channels) /\ t.push
        /\ s.cmd.name = "psubscribe" => t.todo \in Seq(PatternSet) /\ t.push
    <3>1. /\ s.cmd.name = "subscribe" => s.todo \in Seq(Channels) /\ s.push
          /\ s.cmd.name = "psubscribe" => s.todo \in Seq(PatternSet) /\ s.push
      BY <1>1 DEF Place
    <3> QED BY <1>2, <3>1, TailAt
  <2> QED BY <1>1, <1>2, <1>3, <2>1, <2>2, <2>3 DEF Place, Resting
<1>5. Stream(t, qc, wi, is)
  BY <1>1, <1>2, StreamSame
<1>6. Said(c, t)
  <2>1. s.out \in Seq(Frames)
    BY <1>1 DEF States
  <2>2. Extends(s.out, f, t.out, TRUE)
    BY <1>2, <2>1, GrowsKeep
  <2> SUFFICES ASSUME NEW i \in DOMAIN t.out
               PROVE  /\ t.out[i].of = <<c, t.k>>
                      /\ \/ t.out[i].kind \in {"message", "pmessage"}
                         \/ t.cmd.name \in Acks /\ t.out[i].kind = t.cmd.name
                         \/ t.out[i].kind = "reply" /\ t.out[i].what = t.cmd.name
    BY DEF Said
  <2>3. CASE i \in DOMAIN s.out
    <3>1. t.out[i] = s.out[i]
      BY <2>2, <2>3 DEF Extends
    <3> QED BY <1>1, <1>2, <2>3, <3>1 DEF Said
  <2>4. CASE i \notin DOMAIN s.out
    <3>1. t.out[i] = f
      BY <2>2, <2>4 DEF Extends
    <3> QED BY <1>2, <1>3, <3>1
  <2> QED BY <2>3, <2>4
<1>7. t.pc # "reply"
  BY <1>2
<1>8. OwnOk(p, c, t, qc, is)
  BY <1>1, <1>7 DEF OwnOk
<1>9. QuitOk(t, qc, wi, is)
  BY <1>1, <1>2, <1>7 DEF QuitOk
<1> HIDE DEF AckOk, Said, Place, Stream, OwnOk, QuitOk
<1>10. AckOk(t, is, "subscribe", "unsubscribe", t.subs)
  <2>1. "subscribe" \in Acks /\ "unsubscribe" \in Acks
    BY DEF Acks
  <2>2. AckOk(t, is, "subscribe", "unsubscribe", After(s.cmd.name, "subscribe", "unsubscribe", s.subs, a))
    BY <1>1, <1>2, <1>3, <2>1, AckArgument
  <2> QED BY <1>2, <2>2
<1>11. AckOk(t, is, "psubscribe", "punsubscribe", t.psubs)
  <2>1. "psubscribe" \in Acks /\ "punsubscribe" \in Acks
    BY DEF Acks
  <2>2. AckOk(t, is, "psubscribe", "punsubscribe", After(s.cmd.name, "psubscribe", "punsubscribe", s.psubs, a))
    BY <1>1, <1>2, <1>3, <2>1, AckArgument
  <2> QED BY <1>2, <2>2
<1> QED BY <1>1, <1>2, <1>4, <1>5, <1>6, <1>8, <1>9, <1>10, <1>11 DEF Well, Local

-----------------------------------------------------------------------------
(* Publishing.                                                              *)

\* A publisher goes from one recipient to the next.
Served(s, t) ==
  /\ t \in States /\ t.k = s.k /\ t.pc = s.pc /\ t.cmd = s.cmd /\ t.todo = s.todo /\ t.out = s.out
  /\ t.subs = s.subs /\ t.psubs = s.psubs /\ t.mon = s.mon /\ t.push = s.push
  /\ t.quit = s.quit /\ t.wr = s.wr /\ t.w = s.w /\ t.batch = s.batch /\ t.shut = s.shut
  /\ t.pend # <<>> => t.pubs # <<>>

LEMMA ServingIs ==
  ASSUME NEW s \in States, s.pubs # <<>>, NEW groups \in Seq(Groups)
  PROVE  /\ Served(s, Serving(s, groups)) /\ Serving(s, groups).must = s.must
         /\ \/ Serving(s, groups).pend = groups
            \/ Serving(s, groups).pend = <<>> /\ \A i \in DOMAIN groups : groups[i].to = {}
<1> DEFINE t == Serving(s, groups)
<1>1. s.pubs \in Seq(Channels) /\ Tail(s.pubs) \in Seq(Channels) /\ <<>> \in Seq(Groups)
  <2>1. s.pubs \in Seq(Channels)
    BY DEF States
  <2> QED BY <2>1, TailAt
<1>2. CASE \A i \in DOMAIN groups : groups[i].to = {}
  <2>1. t = [s EXCEPT !.pend = <<>>, !.pubs = Tail(@)]
    BY <1>2 DEF Serving
  <2>2. /\ t \in States /\ t.k = s.k /\ t.pc = s.pc /\ t.cmd = s.cmd /\ t.todo = s.todo /\ t.out = s.out
        /\ t.subs = s.subs /\ t.psubs = s.psubs /\ t.mon = s.mon /\ t.push = s.push
        /\ t.quit = s.quit /\ t.wr = s.wr /\ t.w = s.w /\ t.batch = s.batch /\ t.shut = s.shut
        /\ t.must = s.must /\ t.pend = <<>>
    BY <1>1, <2>1 DEF States
  <2> HIDE DEF t
  <2>3. Served(s, t)
    BY <2>2 DEF Served
  <2> QED BY <1>2, <2>2, <2>3 DEF t
<1>3. CASE ~ \A i \in DOMAIN groups : groups[i].to = {}
  <2>1. t = [s EXCEPT !.pend = groups]
    BY <1>3 DEF Serving
  <2>2. /\ t \in States /\ t.k = s.k /\ t.pc = s.pc /\ t.cmd = s.cmd /\ t.todo = s.todo /\ t.out = s.out
        /\ t.subs = s.subs /\ t.psubs = s.psubs /\ t.mon = s.mon /\ t.push = s.push
        /\ t.quit = s.quit /\ t.wr = s.wr /\ t.w = s.w /\ t.batch = s.batch /\ t.shut = s.shut
        /\ t.must = s.must /\ t.pend = groups /\ t.pubs = s.pubs
    BY <2>1 DEF States
  <2> HIDE DEF t
  <2>3. Served(s, t)
    BY <2>2 DEF Served
  <2> QED BY <2>2, <2>3 DEF t
<1> QED BY <1>2, <1>3

LEMMA ServedWell ==
  ASSUME NEW p, NEW c \in Clients, NEW s, NEW qc, NEW wi, NEW is, Well(p, c, s, qc, wi, is),
         s.pc = "publish", NEW t, Served(s, t)
  PROVE  Well(p, c, t, qc, wi, is)
<1>1. s \in States /\ RingOk(qc) /\ wi \in Seq(Frames) /\ is \in Seq(Frames) /\ Stream(s, qc, wi, is) /\ Place(p, s)
  BY WellIs
<1>2. /\ t \in States /\ t.k = s.k /\ t.pc = s.pc /\ t.cmd = s.cmd /\ t.todo = s.todo /\ t.out = s.out
      /\ t.subs = s.subs /\ t.psubs = s.psubs /\ t.mon = s.mon /\ t.push = s.push
      /\ t.quit = s.quit /\ t.wr = s.wr /\ t.w = s.w /\ t.batch = s.batch /\ t.shut = s.shut
      /\ t.pend # <<>> => t.pubs # <<>>
  BY DEF Served
<1>3. Place(p, t)
  BY <1>1, <1>2 DEF Place, Resting
<1>4. Kept(s, t)
  BY <1>2 DEF Kept
<1>5. Stream(t, qc, wi, is)
  BY <1>1, <1>2, StreamSame
<1>6. PICK f : f \in Frames
  BY SomeFrame
<1>7. Grown(is, f, is, FALSE)
  BY DEF Grown
<1> HIDE DEF Place, Kept, Stream, Refused, IsReply, IsPrefix, Well, RingOk
<1> QED BY <1>1, <1>2, <1>3, <1>4, <1>5, <1>6, <1>7, WellKeep

\* A frame among others is one that was there, or the new one.
LEMMA SaidMore ==
  ASSUME NEW c, NEW s \in States, NEW t, NEW f \in Frames, Grown(s.out, f, t.out, TRUE), Said(c, s),
         t.k = s.k, t.cmd = s.cmd, f.of = <<c, s.k>>, f.kind \in {"message", "pmessage"}
  PROVE  Said(c, t) /\ Keeps(s.out, t.out)
         /\ \A on \in Acks : \A set : Marks(s.out, on, set) => Marks(t.out, on, set)
<1>1. s.out \in Seq(Frames)
  BY DEF States
<1>2. Extends(s.out, f, t.out, TRUE)
  BY <1>1, GrowsKeep
<1>3. \A i \in DOMAIN t.out : (i \in DOMAIN s.out /\ t.out[i] = s.out[i]) \/ t.out[i] = f
  BY <1>2 DEF Extends
<1>4. Said(c, t)
  BY <1>3 DEF Said
<1>5. ASSUME NEW on \in Acks, NEW set, Marks(s.out, on, set) PROVE Marks(t.out, on, set)
  <2>1. f.kind # on
    BY DEF Acks
  <2> QED BY <1>3, <1>5, <2>1 DEF Marks
<1>6. Keeps(s.out, t.out)
  BY <1>2 DEF Extends
<1> QED BY <1>4, <1>5, <1>6

\* A publisher's own message waits with what the command has to say.
LEMMA OwnMessageWell ==
  ASSUME NEW p, NEW c \in Clients, NEW s, NEW qc, NEW wi, NEW is, Well(p, c, s, qc, wi, is),
         s.pc = "publish", NEW f \in Frames, f.of = <<c, s.k>>, f.kind \in {"message", "pmessage"}
  PROVE  Well(p, c, [s EXCEPT !.out = Append(@, f)], qc, wi, is)
<1> DEFINE t == [s EXCEPT !.out = Append(@, f)]
<1>1. /\ s \in States /\ RingOk(qc) /\ wi \in Seq(Frames) /\ is \in Seq(Frames)
      /\ Place(p, s) /\ Said(c, s) /\ Stream(s, qc, wi, is)
      /\ OwnOk(p, c, s, qc, is) /\ QuitOk(s, qc, wi, is)
      /\ AckOk(s, is, "subscribe", "unsubscribe", s.subs)
      /\ AckOk(s, is, "psubscribe", "punsubscribe", s.psubs)
  BY WellIs
<1>2. /\ t \in States /\ t.pc = "publish" /\ t.wr = s.wr /\ Grown(s.out, f, t.out, TRUE)
      /\ t.k = s.k /\ t.cmd = s.cmd /\ t.todo = s.todo /\ t.pubs = s.pubs
      /\ t.pend = s.pend /\ t.subs = s.subs /\ t.psubs = s.psubs /\ t.mon = s.mon
      /\ t.push = s.push /\ t.quit = s.quit /\ t.w = s.w /\ t.batch = s.batch
      /\ t.shut = s.shut /\ t.must = s.must
  <2>1. Append(s.out, f) \in Seq(Frames)
    <3>1. s.out \in Seq(Frames)
      BY <1>1 DEF States
    <3> QED BY <3>1, AppendAt
  <2> QED BY <1>1, <2>1 DEF States, Grown
<1> HIDE DEF t
<1>3. Place(p, t)
  BY <1>1, <1>2 DEF Place, Resting
<1>4. Stream(t, qc, wi, is)
  BY <1>1, <1>2, StreamSame
<1>5. Said(c, t) /\ Keeps(s.out, t.out)
      /\ \A on \in Acks : \A set : Marks(s.out, on, set) => Marks(t.out, on, set)
  BY <1>1, <1>2, SaidMore
<1>6. OwnOk(p, c, t, qc, is) /\ QuitOk(t, qc, wi, is)
  BY <1>1, <1>2 DEF OwnOk, QuitOk
<1>7. Carries(s, t)
  BY <1>2, <1>5 DEF Carries
<1>8. Grown(is, f, is, FALSE)
  BY DEF Grown
<1>9. AckOk(t, is, "subscribe", "unsubscribe", t.subs)
  <2>1. "subscribe" \in Acks /\ Marks(s.out, "subscribe", s.subs) /\ s.subs \subseteq t.subs
    BY <1>1, <1>2 DEF Acks, AckOk
  <2>2. Marks(t.out, "subscribe", t.subs)
    BY <1>2, <1>5, <2>1
  <2> QED BY <1>1, <1>7, <1>8, <2>1, <2>2, AckKeep
<1>10. AckOk(t, is, "psubscribe", "punsubscribe", t.psubs)
  <2>1. "psubscribe" \in Acks /\ Marks(s.out, "psubscribe", s.psubs) /\ s.psubs \subseteq t.psubs
    BY <1>1, <1>2 DEF Acks, AckOk
  <2>2. Marks(t.out, "psubscribe", t.psubs)
    BY <1>2, <1>5, <2>1
  <2> QED BY <1>1, <1>7, <1>8, <2>1, <2>2, AckKeep
<1>11. Well(p, c, t, qc, wi, is)
  BY <1>1, <1>2, <1>3, <1>4, <1>5, <1>6, <1>9, <1>10 DEF Well, Local
<1> QED BY <1>11 DEF t

-----------------------------------------------------------------------------
(* The end of a command, and its frames one by one.                         *)

\* The reply stands in front of what the command has said.
LEMMA AnswerKeeps ==
  ASSUME NEW c \in Clients, NEW s \in States, NEW t, Answer(c, s, t.out), Said(c, s),
         t.k = s.k, t.cmd = s.cmd, t.shut = s.shut
  PROVE  /\ t.out \in Seq(Frames) /\ Said(c, t) /\ Carries(s, t)
         /\ \A on \in Acks : \A set : Marks(s.out, on, set) => Marks(t.out, on, set)
<1>1. /\ t.out \in Seq(Frames)
      /\ s.cmd.name \notin Acks =>
           /\ Len(t.out) = Len(s.out) + 1 /\ t.out[1].kind = "reply" /\ t.out[1].of = <<c, s.k>>
           /\ t.out[1].what = s.cmd.name /\ \A i \in DOMAIN s.out : t.out[i + 1] = s.out[i]
      /\ s.cmd.name \in Acks => t.out = s.out
      /\ DOMAIN t.out = 1..Len(t.out) /\ DOMAIN s.out = 1..Len(s.out) /\ Len(s.out) \in Nat
  BY AnswerIs
<1>2. CASE s.cmd.name \in Acks
  <2>1. t.out = s.out /\ s.cmd.name # "reset"
    BY <1>1, <1>2 DEF Acks
  <2>2. Carries(s, t)
    BY <2>1 DEF Carries, Keeps
  <2> QED BY <1>1, <2>1, <2>2 DEF Said
<1>3. CASE s.cmd.name \notin Acks
  <2>1. ASSUME NEW i \in DOMAIN t.out
        PROVE  i = 1 \/ \E j \in DOMAIN s.out : t.out[i] = s.out[j]
    <3>1. CASE i # 1
      <4>1. i - 1 \in DOMAIN s.out /\ (i - 1) + 1 = i
        BY <1>1, <1>3, <3>1
      <4> QED BY <1>1, <1>3, <4>1
    <3> QED BY <3>1
  <2>2. Said(c, t)
    <3> SUFFICES ASSUME NEW i \in DOMAIN t.out
                 PROVE  /\ t.out[i].of = <<c, s.k>>
                        /\ \/ t.out[i].kind \in {"message", "pmessage"}
                           \/ s.cmd.name \in Acks /\ t.out[i].kind = s.cmd.name
                           \/ t.out[i].kind = "reply" /\ t.out[i].what = s.cmd.name
      BY DEF Said
    <3>1. CASE i = 1
      BY <1>1, <1>3, <3>1
    <3>2. CASE i # 1
      <4>1. PICK j \in DOMAIN s.out : t.out[i] = s.out[j]
        BY <2>1, <3>2
      <4> QED BY <4>1 DEF Said
    <3> QED BY <3>1, <3>2
  <2>3. 1 \in DOMAIN t.out
    BY <1>1, <1>3
  <2>4. Keeps(s.out, t.out)
    <3> SUFFICES ASSUME NEW i \in DOMAIN s.out PROVE \E j \in DOMAIN t.out : t.out[j] = s.out[i]
      BY DEF Keeps
    <3>1. i + 1 \in DOMAIN t.out
      BY <1>1, <1>3
    <3> QED BY <1>1, <1>3, <3>1
  <2>5. s.cmd.name = "reset" => IsReply(t.out[1], "reset")
    BY <1>1, <1>3 DEF IsReply
  <2>6. Carries(s, t)
    BY <2>3, <2>4, <2>5 DEF Carries
  <2>7. ASSUME NEW on \in Acks, NEW set, Marks(s.out, on, set) PROVE Marks(t.out, on, set)
    <3> SUFFICES ASSUME NEW i \in DOMAIN t.out, t.out[i].kind = on PROVE t.out[i].what \in set
      BY DEF Marks
    <3>1. i # 1
      BY <1>1, <1>3 DEF Acks
    <3>2. PICK j \in DOMAIN s.out : t.out[i] = s.out[j]
      BY <2>1, <3>1
    <3> QED BY <2>7, <3>2 DEF Marks
  <2> QED BY <1>1, <2>2, <2>6, <2>7
<1> QED BY <1>2, <1>3

LEMMA ReturnWell ==
  ASSUME NEW p, NEW c \in Clients, NEW s, NEW qc, NEW wi, NEW is, Well(p, c, s, qc, wi, is),
         Returns(s), NEW out, Answer(c, s, out)
  PROVE  /\ Well(p, c, [s EXCEPT !.pc = "reply", !.out = out, !.must = {}], qc, wi, is)
         /\ s.pend = <<>>
<1> DEFINE t == [s EXCEPT !.pc = "reply", !.out = out, !.must = {}]
<1>1. /\ s \in States /\ RingOk(qc) /\ wi \in Seq(Frames) /\ is \in Seq(Frames)
      /\ Place(p, s) /\ Said(c, s) /\ Stream(s, qc, wi, is)
      /\ OwnOk(p, c, s, qc, is) /\ QuitOk(s, qc, wi, is)
      /\ AckOk(s, is, "subscribe", "unsubscribe", s.subs)
      /\ AckOk(s, is, "psubscribe", "punsubscribe", s.psubs)
  BY WellIs
<1>2. s.pend = <<>> /\ s.pc \notin Resting
  BY <1>1 DEF Returns, Place, Resting
<1>3. /\ t \in States /\ t.pc = "reply" /\ t.wr = s.wr /\ t.out = out
      /\ t.k = s.k /\ t.cmd = s.cmd /\ t.todo = s.todo /\ t.pubs = s.pubs
      /\ t.pend = s.pend /\ t.subs = s.subs /\ t.psubs = s.psubs /\ t.mon = s.mon
      /\ t.push = s.push /\ t.quit = s.quit /\ t.w = s.w /\ t.batch = s.batch
      /\ t.shut = s.shut /\ t.must = {}
  <2>1. s \in States
    BY <1>1
  <2>2. out \in Seq(Frames) /\ "reply" \in Places
    BY <2>1, AnswerIs DEF Places
  <2> QED BY <2>1, <2>2 DEF States
<1> HIDE DEF t
<1>4. Place(p, t)
  BY <1>1, <1>2, <1>3 DEF Place, Resting
<1>5. Stream(t, qc, wi, is)
  BY <1>1, <1>3, StreamSame
<1>6. Answer(c, s, t.out) /\ s \in States
  BY <1>1, <1>3
<1>7. /\ t.out \in Seq(Frames) /\ Said(c, t) /\ Carries(s, t)
      /\ \A on \in Acks : \A set : Marks(s.out, on, set) => Marks(t.out, on, set)
  BY <1>1, <1>3, <1>6, AnswerKeeps
<1>8. t.quit => s.cmd.name = "quit"
  BY <1>1, <1>3 DEF Place
<1> HIDE DEF Place, Said, Stream, OwnOk, QuitOk, Answer
<1>9. OwnOk(p, c, t, qc, is)
  BY <1>1, <1>2, <1>6, OwnReturn
<1>10. QuitOk(t, qc, wi, is)
  BY <1>1, <1>3, <1>6, <1>8, QuitReturn
<1>11. PICK f : f \in Frames
  BY SomeFrame
<1>12. Grown(is, f, is, FALSE)
  BY DEF Grown
<1>13. AckOk(t, is, "subscribe", "unsubscribe", t.subs)
  <2>1. "subscribe" \in Acks /\ Marks(s.out, "subscribe", s.subs) /\ s.subs \subseteq t.subs
    BY <1>1, <1>3 DEF Acks, AckOk
  <2>2. Marks(t.out, "subscribe", t.subs)
    BY <1>3, <1>7, <2>1
  <2> QED BY <1>1, <1>7, <1>11, <1>12, <2>1, <2>2, AckKeep
<1>14. AckOk(t, is, "psubscribe", "punsubscribe", t.psubs)
  <2>1. "psubscribe" \in Acks /\ Marks(s.out, "psubscribe", s.psubs) /\ s.psubs \subseteq t.psubs
    BY <1>1, <1>3 DEF Acks, AckOk
  <2>2. Marks(t.out, "psubscribe", t.psubs)
    BY <1>3, <1>7, <2>1
  <2> QED BY <1>1, <1>7, <1>11, <1>12, <2>1, <2>2, AckKeep
<1>15. Well(p, c, t, qc, wi, is)
  BY <1>1, <1>3, <1>4, <1>5, <1>7, <1>9, <1>10, <1>13, <1>14 DEF Well, Local
<1> QED BY <1>2, <1>15 DEF t

\* One frame less to say.
Issued(s, t) ==
  /\ t \in States /\ t.k = s.k /\ t.pc = s.pc /\ t.cmd = s.cmd /\ t.todo = s.todo /\ t.pubs = s.pubs
  /\ t.out = Tail(s.out) /\ t.pend = s.pend /\ t.subs = s.subs /\ t.psubs = s.psubs
  /\ t.mon = s.mon /\ t.push = s.push /\ t.quit = s.quit /\ t.must = s.must
  /\ (t.shut = "" => s.shut = "") /\ (t.shut = "quit" => s.shut = "quit")
  /\ s.shut # "" => t.shut # ""

LEMMA IssuedWell ==
  ASSUME NEW p, NEW c \in Clients, NEW s, NEW qc, NEW wi, NEW is, Well(p, c, s, qc, wi, is),
         s.pc = "reply", s.out # <<>>, NEW f, f = Head(s.out), NEW t, Issued(s, t),
         NEW r, RingOk(r), NEW is2, NEW more \in BOOLEAN, Grown(is, f, is2, more), Stream(t, r, wi, is2),
         Refused(qc) => Refused(r), Refused(qc) => ~ more, ~ more => Refused(r),
         ~ more => t.shut # ""
  PROVE  Well(p, c, t, r, wi, is2)
<1>1. /\ s \in States /\ RingOk(qc) /\ wi \in Seq(Frames) /\ is \in Seq(Frames)
      /\ Place(p, s) /\ Said(c, s)
      /\ OwnOk(p, c, s, qc, is) /\ QuitOk(s, qc, wi, is)
      /\ AckOk(s, is, "subscribe", "unsubscribe", s.subs)
      /\ AckOk(s, is, "psubscribe", "punsubscribe", s.psubs)
  BY WellIs
<1>2. /\ t \in States /\ t.k = s.k /\ t.pc = s.pc /\ t.cmd = s.cmd /\ t.todo = s.todo /\ t.pubs = s.pubs
      /\ t.out = Tail(s.out) /\ t.pend = s.pend /\ t.subs = s.subs /\ t.psubs = s.psubs
      /\ t.mon = s.mon /\ t.push = s.push /\ t.quit = s.quit /\ t.must = s.must
      /\ (t.shut = "" => s.shut = "") /\ (t.shut = "quit" => s.shut = "quit")
      /\ s.shut # "" => t.shut # ""
  BY DEF Issued
<1>3. Takes(s.out, t.out, f)
  BY <1>2 DEF Takes
<1>4. s.out \in Seq(Frames)
  BY <1>1 DEF States
<1>5. Parts(s.out, t.out, f)
  BY <1>3, <1>4, TakesIn
<1>6. f \in Frames /\ f.kind # "close"
  <2>1. f \in Frames /\ 1 \in DOMAIN s.out /\ s.out[1] = f
    BY <1>5 DEF Parts
  <2> QED BY <1>1, <2>1 DEF Said, Acks
<1>7. is2 \in Seq(Frames)
  BY <1>1, <1>6, AppendAt DEF Grown
<1>8. Place(p, t)
  BY <1>1, <1>2 DEF Place, Resting
<1>9. Said(c, t)
  <2> SUFFICES ASSUME NEW i \in DOMAIN t.out
               PROVE  /\ t.out[i].of = <<c, s.k>>
                      /\ \/ t.out[i].kind \in {"message", "pmessage"}
                         \/ s.cmd.name \in Acks /\ t.out[i].kind = s.cmd.name
                         \/ t.out[i].kind = "reply" /\ t.out[i].what = s.cmd.name
    BY <1>2 DEF Said
  <2>1. PICK j \in DOMAIN s.out : s.out[j] = t.out[i]
    BY <1>5 DEF Parts, Keeps
  <2>2. /\ s.out[j].of = <<c, s.k>>
        /\ \/ s.out[j].kind \in {"message", "pmessage"}
           \/ s.cmd.name \in Acks /\ s.out[j].kind = s.cmd.name
           \/ s.out[j].kind = "reply" /\ s.out[j].what = s.cmd.name
    BY <1>1 DEF Said
  <2> QED BY <2>1, <2>2
<1> HIDE DEF Place, Said, Stream, OwnOk, QuitOk, AckOk, Refused, Takes, Grown, Parts
<1>10. OwnOk(p, c, t, r, is2)
  BY <1>1, <1>3, OwnReply
<1>11. QuitOk(t, r, wi, is2)
  BY <1>1, <1>2, <1>3, <1>6, QuitReply
<1>12. t.shut = "" => s.shut = "" /\ more
  BY <1>2
<1>13. AckOk(t, is2, "subscribe", "unsubscribe", t.subs)
  BY <1>1, <1>2, <1>3, <1>12, AckReply
<1>14. AckOk(t, is2, "psubscribe", "punsubscribe", t.psubs)
  BY <1>1, <1>2, <1>3, <1>12, AckReply
<1> QED BY <1>1, <1>2, <1>7, <1>8, <1>9, <1>10, <1>11, <1>13, <1>14 DEF Well, Local

\* In push mode the frame goes through the queue ...
LEMMA ReplyPushWell ==
  ASSUME NEW p, NEW c \in Clients, NEW s, NEW qc, NEW wi, NEW is, Well(p, c, s, qc, wi, is),
         s.pc = "reply", s.out # <<>>, s.push, NEW f, f = Head(s.out), NEW n \in Nat
  PROVE  /\ f \in Frames
         /\ Accepts(qc, n) => Well(p, c, [s EXCEPT !.out = Tail(@)], Enqueue(qc, f, n), wi, Append(is, f))
         /\ ~ Accepts(qc, n) =>
              Well(p, c, Shut([s EXCEPT !.out = Tail(@)], "slow"), Enqueue(qc, f, n), wi, is)
<1> DEFINE r == Enqueue(qc, f, n)
           u == [s EXCEPT !.out = Tail(@)]
           v == Shut(u, "slow")
<1>1. s \in States /\ RingOk(qc) /\ wi \in Seq(Frames) /\ is \in Seq(Frames) /\ Stream(s, qc, wi, is)
  BY WellIs
<1>2. s.out \in Seq(Frames) /\ Tail(s.out) \in Seq(Frames) /\ f \in Frames
  <2>1. s.out \in Seq(Frames)
    BY <1>1 DEF States
  <2> QED BY <2>1, TailAt
<1>3. /\ u \in States /\ u.k = s.k /\ u.pc = s.pc /\ u.cmd = s.cmd /\ u.todo = s.todo /\ u.pubs = s.pubs
      /\ u.out = Tail(s.out) /\ u.pend = s.pend /\ u.subs = s.subs /\ u.psubs = s.psubs
      /\ u.mon = s.mon /\ u.push = s.push /\ u.quit = s.quit /\ u.must = s.must
      /\ u.shut = s.shut /\ u.wr = s.wr /\ u.batch = s.batch /\ u.w = s.w
  BY <1>1, <1>2 DEF States
<1>4. u \in States
  BY <1>3
<1> HIDE DEF u
<1>5. Issued(s, u)
  BY <1>3 DEF Issued
<1>6. v \in States /\ Alike(u, v) /\ (v.shut = "quit" => u.shut = "quit") /\ v.shut # "" /\ v.quit = u.quit
  <2>1. "slow" \in Shuts \ {""}
    BY DEF Shuts
  <2>2. v \in States /\ Alike(u, v) /\ (v.shut = "quit" => u.shut = "quit") /\ v.shut # ""
    BY <1>4, <2>1, ShutAlike
  <2>3. v.quit = u.quit
    BY <1>4, <2>1, ShutIs
  <2> QED BY <2>2, <2>3
<1> HIDE DEF v
<1>7. Issued(s, v)
  BY <1>3, <1>6 DEF Issued, Alike
<1>8. Stream(u, qc, wi, is)
  BY <1>1, <1>3, StreamSame
<1>9. /\ Accepts(qc, n) => Stream(u, r, wi, Append(is, f))
      /\ ~ Accepts(qc, n) => Stream(v, r, wi, is)
  BY <1>1, <1>2, <1>3, <1>4, <1>8, StreamOffer DEF v
<1>10. RingOk(r) /\ (~ Accepts(qc, n) => Refused(r)) /\ (Refused(qc) => ~ Accepts(qc, n))
  BY <1>1, <1>2, EnqueueRing DEF Accepts
<1>11. Grown(is, f, Append(is, f), TRUE) /\ Grown(is, f, is, FALSE)
  BY DEF Grown
<1> HIDE DEF r, Accepts, Stream, Refused, Grown, Well, RingOk, Issued
<1>12. ASSUME Accepts(qc, n) PROVE Well(p, c, u, r, wi, Append(is, f))
  BY <1>5, <1>9, <1>10, <1>11, <1>12, IssuedWell
<1>13. ASSUME ~ Accepts(qc, n) PROVE Well(p, c, v, r, wi, is)
  <2>1. v.shut # ""
    BY <1>6
  <2> QED BY <1>7, <1>9, <1>10, <1>11, <1>13, <2>1, IssuedWell
<1> QED BY <1>2, <1>12, <1>13 DEF u, v, r

\* ... otherwise to the buffer of the connection.
LEMMA ReplyDirectWell ==
  ASSUME NEW p, NEW c \in Clients, NEW s, NEW qc, NEW wi, NEW is, Well(p, c, s, qc, wi, is),
         s.pc = "reply", s.out # <<>>, ~ s.push, NEW f, f = Head(s.out)
  PROVE  /\ f \in Frames
         /\ Well(p, c, [s EXCEPT !.out = Tail(@), !.wr = Append(@, f)], qc, wi, Append(is, f))
<1> DEFINE t == [s EXCEPT !.out = Tail(@), !.wr = Append(@, f)]
<1>1. s \in States /\ RingOk(qc) /\ wi \in Seq(Frames) /\ is \in Seq(Frames) /\ Stream(s, qc, wi, is)
  BY WellIs
<1>2. s.out \in Seq(Frames) /\ Tail(s.out) \in Seq(Frames) /\ f \in Frames /\ Append(s.wr, f) \in Seq(Frames)
  <2>1. s.out \in Seq(Frames) /\ s.wr \in Seq(Frames)
    BY <1>1 DEF States
  <2>2. Tail(s.out) \in Seq(Frames) /\ f \in Frames
    BY <2>1, TailAt
  <2> QED BY <2>1, <2>2, AppendAt
<1>3. /\ t \in States /\ t.k = s.k /\ t.pc = s.pc /\ t.cmd = s.cmd /\ t.todo = s.todo /\ t.pubs = s.pubs
      /\ t.out = Tail(s.out) /\ t.pend = s.pend /\ t.subs = s.subs /\ t.psubs = s.psubs
      /\ t.mon = s.mon /\ t.push = s.push /\ t.quit = s.quit /\ t.must = s.must
      /\ t.shut = s.shut /\ t.wr = Append(s.wr, f) /\ t.batch = s.batch /\ t.w = s.w
  BY <1>1, <1>2 DEF States
<1> HIDE DEF t
<1>4. Issued(s, t)
  BY <1>3 DEF Issued
<1>5. Stream(t, qc, wi, Append(is, f))
  BY <1>1, <1>2, <1>3, StreamDirect
<1>6. ~ Refused(qc)
  BY <1>1, NewRing DEF Stream
<1>7. Grown(is, f, Append(is, f), TRUE)
  BY DEF Grown
<1> HIDE DEF Stream, Refused, Grown, Well, RingOk, Issued
<1>8. Well(p, c, t, qc, wi, Append(is, f))
  BY <1>1, <1>4, <1>5, <1>6, <1>7, IssuedWell
<1> QED BY <1>2, <1>8 DEF t

-----------------------------------------------------------------------------
(* All connections at once.                                                 *)

IsMap(f) == f = [x \in Clients |-> f[x]]
Maps == IsMap(st) /\ IsMap(q) /\ IsMap(wire) /\ IsMap(issued)

Wells == \A x \in Clients : Well(case.prog[x], x, st[x], q[x], wire[x], issued[x])

\* The typing and the local invariants are those of each connection.
LEMMA WellsAre ==
  ASSUME Typed, Locals
  PROVE  Maps /\ Wells /\ case \in Cases /\ BrokerTypeOK
<1>1. /\ case \in Cases /\ BrokerTypeOK
      /\ st \in [Clients -> States] /\ q \in [Clients -> Queues]
      /\ wire \in [Clients -> Seq(Frames)] /\ issued \in [Clients -> Seq(Frames)]
  BY DEF Typed
<1>2. Maps
  BY <1>1 DEF Maps, IsMap
<1>3. ASSUME NEW x \in Clients PROVE Well(case.prog[x], x, st[x], q[x], wire[x], issued[x])
  <2>1. Local(case.prog[x], x, st[x], q[x], wire[x], issued[x])
    BY DEF Locals
  <2>2. QueueShape(q[x])
    BY <2>1 DEF Local, Stream
  <2>3. st[x] \in States /\ q[x] \in Queues /\ wire[x] \in Seq(Frames) /\ issued[x] \in Seq(Frames)
    BY <1>1
  <2> QED BY <2>1, <2>2, <2>3 DEF Well, RingOk
<1> QED BY <1>1, <1>2, <1>3 DEF Wells

LEMMA WellsMake == Maps /\ Wells /\ case \in Cases /\ BrokerTypeOK => Typed /\ Locals
<1> SUFFICES ASSUME Maps, Wells, case \in Cases, BrokerTypeOK
             PROVE  Typed /\ Locals
  OBVIOUS
<1>1. ASSUME NEW x \in Clients
      PROVE  /\ st[x] \in States /\ q[x] \in Queues /\ wire[x] \in Seq(Frames) /\ issued[x] \in Seq(Frames)
             /\ Local(case.prog[x], x, st[x], q[x], wire[x], issued[x])
  <2>1. Well(case.prog[x], x, st[x], q[x], wire[x], issued[x])
    BY DEF Wells
  <2> QED BY <2>1 DEF Well, RingOk
<1>2. ASSUME NEW f, IsMap(f), NEW S, \A x \in Clients : f[x] \in S PROVE f \in [Clients -> S]
  BY <1>2 DEF IsMap
<1>3. st \in [Clients -> States]
  <2>1. IsMap(st) /\ \A x \in Clients : st[x] \in States
    BY <1>1 DEF Maps
  <2> QED BY <1>2, <2>1
<1>4. q \in [Clients -> Queues]
  <2>1. IsMap(q) /\ \A x \in Clients : q[x] \in Queues
    BY <1>1 DEF Maps
  <2> QED BY <1>2, <2>1
<1>5. wire \in [Clients -> Seq(Frames)] /\ issued \in [Clients -> Seq(Frames)]
  <2>1. IsMap(wire) /\ IsMap(issued) /\ \A x \in Clients : wire[x] \in Seq(Frames) /\ issued[x] \in Seq(Frames)
    BY <1>1 DEF Maps
  <2> QED BY <1>2, <2>1
<1>6. Locals
  BY <1>1 DEF Locals
<1> QED BY <1>3, <1>4, <1>5, <1>6 DEF Typed

LEMMA ProgramIs ==
  ASSUME case \in Cases, NEW c \in Clients
  PROVE  Program(case.prog[c])
<1> DEFINE p == case.prog[c]
<1>1. /\ case \in [prog : [Clients -> Seq([name : Names, args : Seq(Channels \cup ToSet(Patterns))])],
                   slow : SUBSET Clients, killed : SUBSET Clients, hangs : SUBSET Clients,
                   flags : SUBSET {"K", "E", "$"}]
      /\ \A i \in DOMAIN p :
           LET m == p[i]
           IN /\ m.name \in {"subscribe", "publish"} => m.args \in Seq(Channels)
              /\ m.name = "psubscribe" => m.args \in Seq(ToSet(Patterns))
  BY PushAssumption
<1>2. case.prog \in [Clients -> Seq([name : Names, args : Seq(Channels \cup ToSet(Patterns))])]
  BY <1>1
<1>3. p \in Seq([name : Names, args : Seq(Channels \cup ToSet(Patterns))])
  BY <1>2
<1> HIDE DEF p
<1>4. Program(p)
  BY <1>1, <1>3 DEF Program, Commands, PatternSet
<1> QED BY <1>4 DEF p

\* A step leaves what a connection has to deliver and whom it owes a message.
Held(s, t, is, is2) ==
  /\ s.push => t.push
  /\ s.shut # "" => t.shut # ""
  /\ Keeps(is, is2)
  /\ t.pend = s.pend
  /\ t.must # {} => t.must \subseteq s.must /\ t.k = s.k /\ Keeps(s.out, t.out)

LEMMA KeepsAll == \A is : Keeps(is, is)
BY DEF Keeps

LEMMA SomeoneOf ==
  ASSUME Wells, NEW x \in Clients
  PROVE  st[x].must \subseteq Clients /\ \A i \in DOMAIN st[x].pend : st[x].pend[i].to \subseteq Clients
<1>1. st[x] \in States
  BY DEF Wells, Well
<1>2. st[x].must \in SUBSET Clients /\ st[x].pend \in Seq(Groups)
  BY <1>1 DEF States
<1>3. ASSUME NEW i \in DOMAIN st[x].pend PROVE st[x].pend[i].to \subseteq Clients
  <2>1. st[x].pend[i] \in Groups
    <3> DEFINE G == Groups
    <3> HIDE DEF G
    <3>1. st[x].pend \in Seq(G)
      BY <1>2 DEF G
    <3> QED BY <3>1 DEF G
  <2> QED BY <2>1 DEF Groups
<1> QED BY <1>2, <1>3

LEMMA HeldInv ==
  ASSUME Wells, Pushing, Entitling, \A x \in Clients : Held(st[x], st'[x], issued[x], issued'[x])
  PROVE  Pushing' /\ Entitling'
<1>0. ASSUME NEW x \in Clients
      PROVE  st[x].must \subseteq Clients /\ \A i \in DOMAIN st[x].pend : st[x].pend[i].to \subseteq Clients
  BY SomeoneOf
<1>1. Pushing'
  <2> SUFFICES ASSUME NEW x \in Clients, NEW i \in DOMAIN st'[x].pend, NEW r \in st'[x].pend[i].to
               PROVE  st'[r].push
    BY DEF Pushing
  <2>1. st'[x].pend = st[x].pend
    BY DEF Held
  <2>2. r \in Clients /\ st[r].push
    BY <1>0, <2>1 DEF Pushing
  <2> QED BY <2>2 DEF Held
<1>2. Entitling'
  <2> SUFFICES ASSUME NEW x \in Clients, NEW r \in st'[x].must
               PROVE  Owed(x, r)'
    BY DEF Entitling
  <2>1. /\ st'[x].must \subseteq st[x].must /\ st'[x].k = st[x].k /\ Keeps(st[x].out, st'[x].out)
        /\ st'[x].pend = st[x].pend
    BY DEF Held
  <2>2. Owed(x, r) /\ r \in Clients
    BY <1>0, <2>1 DEF Entitling
  <2>3. CASE st[r].shut # ""
    <3>1. st'[r].shut # ""
      BY <2>2, <2>3 DEF Held
    <3> QED BY <3>1 DEF Owed
  <2>4. CASE \E i \in DOMAIN issued[r] : issued[r][i].of = <<x, st[x].k>>
    <3>1. Keeps(issued[r], issued'[r])
      BY <2>2 DEF Held
    <3>2. PICK i \in DOMAIN issued[r] : issued[r][i].of = <<x, st[x].k>>
      BY <2>4
    <3>3. PICK j \in DOMAIN issued'[r] : issued'[r][j] = issued[r][i]
      BY <3>1 DEF Keeps
    <3>4. issued'[r][j].of = <<x, st'[x].k>>
      BY <2>1, <3>2, <3>3
    <3> QED BY <3>4 DEF Owed
  <2>5. CASE r = x /\ \E i \in DOMAIN st[x].out : st[x].out[i].of = <<x, st[x].k>>
    <3>1. PICK i \in DOMAIN st[x].out : st[x].out[i].of = <<x, st[x].k>>
      BY <2>5
    <3>2. PICK j \in DOMAIN st'[x].out : st'[x].out[j] = st[x].out[i]
      BY <2>1 DEF Keeps
    <3>3. st'[x].out[j].of = <<x, st'[x].k>>
      BY <2>1, <3>1, <3>2
    <3> QED BY <2>5, <3>3 DEF Owed
  <2>6. CASE \E i \in DOMAIN st[x].pend : r \in st[x].pend[i].to
    <3>1. \E i \in DOMAIN st'[x].pend : r \in st'[x].pend[i].to
      BY <2>1, <2>6
    <3> QED BY <3>1 DEF Owed
  <2> QED BY <2>2, <2>3, <2>4, <2>5, <2>6 DEF Owed
<1> QED BY <1>1, <1>2

\* A step of connection c by itself.
Apart(c) ==
  /\ Maps' /\ case' = case
  /\ \A x \in Clients \ {c} : /\ st'[x] = st[x] /\ q'[x] = q[x]
                              /\ wire'[x] = wire[x] /\ issued'[x] = issued[x]

LEMMA ApartInv ==
  ASSUME IInv, NEW c \in Clients, Apart(c), BrokerTypeOK', Registered',
         Well(case.prog[c], c, st'[c], q'[c], wire'[c], issued'[c]),
         Held(st[c], st'[c], issued[c], issued'[c])
  PROVE  IInv'
<1>1. Maps /\ Wells /\ case \in Cases /\ BrokerTypeOK /\ Pushing /\ Entitling
  BY WellsAre DEF IInv
<1>2. Maps' /\ case' \in Cases
  BY <1>1 DEF Apart
<1>3. Wells'
  <2> SUFFICES ASSUME NEW x \in Clients
               PROVE  Well(case'.prog[x], x, st'[x], q'[x], wire'[x], issued'[x])
    BY DEF Wells
  <2>1. case' = case
    BY DEF Apart
  <2>2. CASE x = c
    BY <2>1, <2>2
  <2>3. CASE x # c
    <3>1. st'[x] = st[x] /\ q'[x] = q[x] /\ wire'[x] = wire[x] /\ issued'[x] = issued[x]
      BY <2>3 DEF Apart
    <3>2. Well(case.prog[x], x, st[x], q[x], wire[x], issued[x])
      BY <1>1 DEF Wells
    <3> QED BY <2>1, <3>1, <3>2
  <2> QED BY <2>2, <2>3
<1>4. (Typed /\ Locals)'
  <2>1. Maps' /\ Wells' /\ case' \in Cases /\ BrokerTypeOK'
    BY <1>2, <1>3
  <2>2. (Maps /\ Wells /\ case \in Cases /\ BrokerTypeOK => Typed /\ Locals)'
    BY WellsMake, PTL
  <2> QED BY <2>1, <2>2
<1>5. \A x \in Clients : Held(st[x], st'[x], issued[x], issued'[x])
  <2> SUFFICES ASSUME NEW x \in Clients, x # c PROVE Held(st[x], st'[x], issued[x], issued'[x])
    OBVIOUS
  <2>1. st'[x] = st[x] /\ issued'[x] = issued[x]
    BY DEF Apart
  <2>2. Keeps(issued[x], issued[x]) /\ Keeps(st[x].out, st[x].out)
    BY KeepsAll
  <2> QED BY <2>1, <2>2 DEF Held
<1>6. Pushing' /\ Entitling'
  BY <1>1, <1>5, HeldInv
<1> QED BY <1>4, <1>6 DEF IInv

\* The usual case: it registers nothing.
LEMMA QuietInv ==
  ASSUME IInv, NEW c \in Clients, Apart(c), UNCHANGED broker,
         Well(case.prog[c], c, st'[c], q'[c], wire'[c], issued'[c]),
         Held(st[c], st'[c], issued[c], issued'[c]),
         st'[c].subs = st[c].subs, st'[c].psubs = st[c].psubs
  PROVE  IInv'
<1>1. BrokerTypeOK /\ Registered
  BY DEF IInv, Typed
<1>2. channels' = channels /\ patterns' = patterns
  BY DEF broker
<1>3. BrokerTypeOK'
  BY <1>1, <1>2 DEF BrokerTypeOK
<1>4. ASSUME NEW x \in Clients PROVE st'[x].subs = st[x].subs /\ st'[x].psubs = st[x].psubs
  BY DEF Apart
<1>5. Registered'
  <2> SUFFICES ASSUME NEW x \in Clients
               PROVE  /\ \A ch \in Channels : x \in channels'[ch] <=> ch \in st'[x].subs
                      /\ \A p \in PatternSet : x \in patterns'[p] <=> p \in st'[x].psubs
    BY DEF Registered
  <2> QED BY <1>1, <1>2, <1>4 DEF Registered
<1> QED BY <1>3, <1>5, ApartInv

\* Map f becomes f2, which gives v for c.
Puts(f, f2, c, v) == f2 = [f EXCEPT ![c] = v] \/ (f2 = f /\ v = f[c])

LEMMA PutsIs ==
  ASSUME NEW f, IsMap(f), NEW c \in Clients, NEW v, NEW f2, Puts(f, f2, c, v)
  PROVE  IsMap(f2) /\ f2[c] = v /\ \A x \in Clients \ {c} : f2[x] = f[x]
<1>1. CASE f2 = f /\ v = f[c]
  BY <1>1
<1>2. CASE f2 = [f EXCEPT ![c] = v]
  <2>1. DOMAIN f = Clients
    BY DEF IsMap
  <2>2. f2 = [x \in Clients |-> IF x = c THEN v ELSE f[x]]
    BY <1>2, <2>1
  <2> QED BY <2>2 DEF IsMap
<1> QED BY <1>1, <1>2 DEF Puts

LEMMA ApartIs ==
  ASSUME Maps, NEW c \in Clients, case' = case, NEW s, Puts(st, st', c, s),
         NEW qc, Puts(q, q', c, qc), NEW wi, Puts(wire, wire', c, wi),
         NEW is, Puts(issued, issued', c, is)
  PROVE  Apart(c) /\ st'[c] = s /\ q'[c] = qc /\ wire'[c] = wi /\ issued'[c] = is
<1>1. IsMap(st) /\ IsMap(q) /\ IsMap(wire) /\ IsMap(issued)
  BY DEF Maps
<1> HIDE DEF Puts, IsMap
<1>2. IsMap(st') /\ st'[c] = s /\ \A x \in Clients \ {c} : st'[x] = st[x]
  BY <1>1, PutsIs
<1>3. IsMap(q') /\ q'[c] = qc /\ \A x \in Clients \ {c} : q'[x] = q[x]
  BY <1>1, PutsIs
<1>4. IsMap(wire') /\ wire'[c] = wi /\ \A x \in Clients \ {c} : wire'[x] = wire[x]
  BY <1>1, PutsIs
<1>5. IsMap(issued') /\ issued'[c] = is /\ \A x \in Clients \ {c} : issued'[x] = issued[x]
  BY <1>1, PutsIs
<1>6. Maps'
  BY <1>2, <1>3, <1>4, <1>5 DEF Maps
<1> QED BY <1>2, <1>3, <1>4, <1>5, <1>6 DEF Apart

\* What is known of connection c before a step.
LEMMA Before ==
  ASSUME IInv, NEW c \in Clients
  PROVE  /\ Maps /\ case \in Cases /\ Program(case.prog[c])
         /\ Well(case.prog[c], c, st[c], q[c], wire[c], issued[c])
         /\ st[c] \in States
<1>1. Maps /\ Wells /\ case \in Cases
  BY WellsAre DEF IInv
<1>2. Well(case.prog[c], c, st[c], q[c], wire[c], issued[c])
  BY <1>1 DEF Wells
<1>3. st[c] \in States
  BY <1>2 DEF Well
<1> QED BY <1>1, <1>2, <1>3, ProgramIs

\* A step that leaves everything but where the frames are.
LEMMA AlikeHeld ==
  ASSUME NEW s, NEW t, Alike(s, t), NEW is
  PROVE  Held(s, t, is, is) /\ t.subs = s.subs /\ t.psubs = s.psubs
<1>1. Keeps(is, is) /\ Keeps(s.out, s.out)
  BY KeepsAll
<1> QED BY <1>1 DEF Held, Alike

LEMMA StepInv ==
  ASSUME IInv, NEW c \in Clients, case' = case, UNCHANGED broker, NEW t, Puts(st, st', c, t),
         NEW qc, Puts(q, q', c, qc), NEW wi, Puts(wire, wire', c, wi),
         NEW is, Puts(issued, issued', c, is), Well(case.prog[c], c, t, qc, wi, is),
         Held(st[c], t, issued[c], is), t.subs = st[c].subs, t.psubs = st[c].psubs
  PROVE  IInv'
<1>1. Maps
  BY Before
<1>2. Apart(c) /\ st'[c] = t /\ q'[c] = qc /\ wire'[c] = wi /\ issued'[c] = is
  BY <1>1, ApartIs
<1> QED BY <1>2, QuietInv

\* An administrator's request, and the ways a connection is shut from outside.
LEMMA KillInv ==
  ASSUME IInv, NEW c \in Clients, Kill(c)
  PROVE  IInv'
<1> DEFINE s == st[c]
           t == [s EXCEPT !.kill = TRUE]
<1>1. /\ Maps /\ Well(case.prog[c], c, s, q[c], wire[c], issued[c]) /\ s \in States
  BY Before
<1>2. st' = [st EXCEPT ![c] = t]
  BY <1>1 DEF Kill, Maps, IsMap
<1>3. Well(case.prog[c], c, t, q[c], wire[c], issued[c])
  BY <1>1, KillWell
<1>4. /\ t.pend = s.pend /\ t.push = s.push /\ t.shut = s.shut /\ t.must = s.must
      /\ t.k = s.k /\ t.out = s.out /\ t.subs = s.subs /\ t.psubs = s.psubs
  BY <1>1 DEF States
<1> HIDE DEF t
<1>5. /\ Puts(st, st', c, t) /\ Puts(q, q', c, q[c]) /\ Puts(wire, wire', c, wire[c])
      /\ Puts(issued, issued', c, issued[c]) /\ case' = case /\ UNCHANGED broker
  BY <1>2 DEF Puts, Kill
<1>6. Held(s, t, issued[c], issued[c])
  BY <1>4, KeepsAll DEF Held
<1> HIDE DEF IInv, Puts, Held, Well
<1> QED BY <1>3, <1>4, <1>5, <1>6, StepInv

LEMMA CutInv ==
  ASSUME IInv, NEW c \in Clients, NEW who \in {"kill", "client"},
         st' = [st EXCEPT ![c] = Shut(@, who)], UNCHANGED <<case, q, wire, issued, broker>>
  PROVE  IInv'
<1> DEFINE s == st[c]
           t == Shut(s, who)
<1>1. /\ Maps /\ Well(case.prog[c], c, s, q[c], wire[c], issued[c]) /\ s \in States
  BY Before
<1>2. st' = [st EXCEPT ![c] = t]
  BY <1>1 DEF Maps, IsMap
<1>3. Well(case.prog[c], c, t, q[c], wire[c], issued[c])
  BY <1>1, ShutWell
<1>4. Alike(s, t)
  BY <1>1, ShutAlike DEF Shuts
<1> HIDE DEF t
<1>5. /\ Puts(st, st', c, t) /\ Puts(q, q', c, q[c]) /\ Puts(wire, wire', c, wire[c])
      /\ Puts(issued, issued', c, issued[c]) /\ case' = case /\ UNCHANGED broker
  BY <1>2 DEF Puts
<1>6. Held(s, t, issued[c], issued[c]) /\ t.subs = s.subs /\ t.psubs = s.psubs
  BY <1>4, AlikeHeld
<1> HIDE DEF IInv, Puts, Held, Well
<1> QED BY <1>3, <1>5, <1>6, StepInv

\* The writer.
LEMMA DequeueInv ==
  ASSUME IInv, NEW c \in Clients, Dequeue(c)
  PROVE  IInv'
<1> DEFINE s == st[c]
           b == Round(Contents(q[c]))
<1>1. /\ Maps /\ Well(case.prog[c], c, s, q[c], wire[c], issued[c]) /\ s \in States /\ RingOk(q[c])
  BY Before DEF Well
<1>2. ASSUME NEW t, NEW qc, Set(c, t, qc), Well(case.prog[c], c, t, qc, wire[c], issued[c]),
             Alike(s, t), UNCHANGED <<case, wire, issued, broker>>
      PROVE  IInv'
  <2>1. /\ Puts(st, st', c, t) /\ Puts(q, q', c, qc) /\ Puts(wire, wire', c, wire[c])
        /\ Puts(issued, issued', c, issued[c]) /\ case' = case /\ UNCHANGED broker
    BY <1>2 DEF Puts, Set
  <2>2. Held(s, t, issued[c], issued[c]) /\ t.subs = s.subs /\ t.psubs = s.psubs
    BY <1>2, AlikeHeld
  <2> HIDE DEF IInv, Puts, Held, Well
  <2> QED BY <1>2, <2>1, <2>2, StepInv
<1>3. CASE q[c].count > 0
  <2> DEFINE t == [s EXCEPT !.batch = b, !.w = "write"]
  <2>1. Well(case.prog[c], c, t, PopN(q[c], Len(b)), wire[c], issued[c])
    BY <1>1, <1>3, TakeWell DEF Dequeue
  <2>2. Set(c, t, PopN(q[c], Len(b))) /\ UNCHANGED <<case, wire, issued, broker>>
    BY <1>3 DEF Dequeue
  <2>3. Alike(s, t)
    BY <1>1 DEF Alike, States
  <2> HIDE DEF b, t
  <2> QED BY <1>2, <2>1, <2>2, <2>3
<1>4. ASSUME NEW w \in {"wait", "done"}, Set(c, [s EXCEPT !.w = w], q[c])
      PROVE  IInv'
  <2> DEFINE t == [s EXCEPT !.w = w]
  <2>1. Well(case.prog[c], c, t, q[c], wire[c], issued[c])
    BY <1>1, IdleWell DEF Dequeue
  <2>2. Set(c, t, q[c]) /\ UNCHANGED <<case, wire, issued, broker>>
    BY <1>4 DEF Dequeue
  <2>3. Alike(s, t)
    BY <1>1 DEF Alike, States
  <2> HIDE DEF t
  <2> QED BY <1>2, <2>1, <2>2, <2>3
<1>5. q[c].count \in Nat
  BY <1>1 DEF RingOk, Queues
<1>6. CASE ~ (q[c].count > 0)
  <2>1. Set(c, [s EXCEPT !.w = "done"], q[c]) \/ Set(c, [s EXCEPT !.w = "wait"], q[c])
    BY <1>5, <1>6 DEF Dequeue
  <2> QED BY <1>4, <2>1
<1> QED BY <1>3, <1>6

LEMMA WokenInv ==
  ASSUME IInv, NEW c \in Clients, Woken(c)
  PROVE  IInv'
<1> DEFINE s == st[c]
<1>1. /\ Maps /\ Well(case.prog[c], c, s, q[c], wire[c], issued[c]) /\ s \in States
  BY Before
<1>2. ASSUME NEW t, NEW qc, Set(c, t, qc), Well(case.prog[c], c, t, qc, wire[c], issued[c]), Alike(s, t)
      PROVE  IInv'
  <2>1. /\ Puts(st, st', c, t) /\ Puts(q, q', c, qc) /\ Puts(wire, wire', c, wire[c])
        /\ Puts(issued, issued', c, issued[c]) /\ case' = case /\ UNCHANGED broker
    BY <1>2 DEF Puts, Set, Woken
  <2>2. Held(s, t, issued[c], issued[c]) /\ t.subs = s.subs /\ t.psubs = s.psubs
    BY <1>2, AlikeHeld
  <2> HIDE DEF IInv, Puts, Held, Well
  <2> QED BY <1>2, <2>1, <2>2, StepInv
<1>3. CASE Set(c, [s EXCEPT !.w = "check"], [q[c] EXCEPT !.notify = FALSE])
  <2> DEFINE t == [s EXCEPT !.w = "check"]
  <2>1. Well(case.prog[c], c, t, [q[c] EXCEPT !.notify = FALSE], wire[c], issued[c])
    BY <1>1, WokenWell DEF Woken
  <2>2. Alike(s, t)
    BY <1>1 DEF Alike, States
  <2> HIDE DEF t
  <2> QED BY <1>2, <1>3, <2>1, <2>2 DEF t
<1>4. CASE Set(c, [s EXCEPT !.w = "done"], q[c])
  <2> DEFINE t == [s EXCEPT !.w = "done"]
  <2>1. Well(case.prog[c], c, t, q[c], wire[c], issued[c])
    BY <1>1, IdleWell DEF Woken
  <2>2. Alike(s, t)
    BY <1>1 DEF Alike, States
  <2> HIDE DEF t
  <2> QED BY <1>2, <1>4, <2>1, <2>2 DEF t
<1> QED BY <1>3, <1>4 DEF Woken

\* The step of a connection to t, with wi as its wire, that issues nothing.
LEMMA WroteInv ==
  ASSUME IInv, NEW c \in Clients, case' = case, UNCHANGED broker, NEW t, st' = [st EXCEPT ![c] = t],
         NEW qc, Puts(q, q', c, qc), NEW wi, Puts(wire, wire', c, wi), issued' = issued,
         Well(case.prog[c], c, t, qc, wi, issued[c]), Held(st[c], t, issued[c], issued[c]),
         t.subs = st[c].subs, t.psubs = st[c].psubs
  PROVE  IInv'
<1>1. Puts(st, st', c, t) /\ Puts(issued, issued', c, issued[c])
  BY DEF Puts
<1> HIDE DEF IInv, Puts, Held, Well
<1> QED BY <1>1, StepInv

LEMMA PushValuesInv ==
  ASSUME IInv, NEW c \in Clients, PushValues(c)
  PROVE  IInv'
<1> DEFINE s == st[c]
           u(w) == [s EXCEPT !.w = w, !.batch = <<>>]
<1>1. /\ Maps /\ Well(case.prog[c], c, s, q[c], wire[c], issued[c]) /\ s \in States
  BY Before
<1>2. case' = case /\ UNCHANGED broker /\ Puts(q, q', c, q[c]) /\ issued' = issued
  BY DEF PushValues, Puts
<1>3. ASSUME NEW w PROVE Alike(s, u(w)) /\ u(w).shut = s.shut
  BY <1>1 DEF Alike, States
<1>4. \A t : Alike(s, t) => Held(s, t, issued[c], issued[c]) /\ t.subs = s.subs /\ t.psubs = s.psubs
  BY AlikeHeld
<1>5. CASE s.shut # "" /\ st' = [st EXCEPT ![c].w = "done", ![c].batch = <<>>] /\ UNCHANGED wire
  <2>1. st' = [st EXCEPT ![c] = u("done")]
    BY <1>1, <1>5 DEF Maps, IsMap
  <2>2. Well(case.prog[c], c, u("done"), q[c], wire[c], issued[c])
    BY <1>1, <1>5, WriteWell DEF PushValues
  <2>3. Puts(wire, wire', c, wire[c])
    BY <1>5 DEF Puts
  <2> HIDE DEF IInv, Puts, Held, Well, u, Alike
  <2> QED BY <1>2, <1>3, <1>4, <2>1, <2>2, <2>3, WroteInv
<1>6. CASE /\ s.shut = "" /\ wire' = [wire EXCEPT ![c] = @ \o s.batch]
           /\ st' = [st EXCEPT ![c] = IF s.batch[Len(s.batch)].kind = "close"
                                        THEN Shut([@ EXCEPT !.w = "done", !.batch = <<>>], "quit")
                                        ELSE [@ EXCEPT !.w = "check", !.batch = <<>>]]
  <2> DEFINE t == IF s.batch[Len(s.batch)].kind = "close" THEN Shut(u("done"), "quit") ELSE u("check")
  <2>1. st' = [st EXCEPT ![c] = t]
    BY <1>1, <1>6 DEF Maps, IsMap
  <2>2. Well(case.prog[c], c, t, q[c], wire[c] \o s.batch, issued[c])
    BY <1>1, <1>6, WriteWell DEF PushValues
  <2>3. Puts(wire, wire', c, wire[c] \o s.batch)
    BY <1>1, <1>6 DEF Puts, Maps, IsMap
  <2>4. Alike(s, t)
    <3>1. Alike(s, u("check"))
      BY <1>3
    <3>2. Alike(s, Shut(u("done"), "quit"))
      <4> DEFINE v == u("done")
      <4>1. v \in States
        <5>1. s \in States /\ <<>> \in Seq(Frames) /\ "done" \in Writers
          BY <1>1 DEF Writers
        <5> QED BY <5>1 DEF States
      <4>2. Alike(s, v)
        BY <1>3
      <4> HIDE DEF v
      <4>3. Alike(v, Shut(v, "quit"))
        BY <4>1, ShutAlike DEF Shuts
      <4>4. Alike(s, Shut(v, "quit"))
        BY <4>2, <4>3 DEF Alike
      <4> QED BY <4>4 DEF v
    <3> HIDE DEF Alike, u
    <3> QED BY <3>1, <3>2
  <2> HIDE DEF IInv, Puts, Held, Well, t, Alike
  <2> QED BY <1>2, <1>4, <2>1, <2>2, <2>3, <2>4, WroteInv
<1> QED BY <1>5, <1>6 DEF PushValues

\* The end of a command, and of a connection.
LEMMA FlushInv ==
  ASSUME IInv, NEW c \in Clients, Flush(c)
  PROVE  IInv'
<1> DEFINE s == st[c]
           t == [s EXCEPT !.pc = "idle", !.wr = <<>>]
           wi == IF s.shut = "" THEN wire[c] \o s.wr ELSE wire[c]
<1>1. /\ Maps /\ Well(case.prog[c], c, s, q[c], wire[c], issued[c]) /\ s \in States
  BY Before
<1>2. case' = case /\ UNCHANGED broker /\ Puts(q, q', c, q[c]) /\ issued' = issued
  BY DEF Flush, Puts
<1>3. st' = [st EXCEPT ![c] = t]
  BY <1>1 DEF Flush, Maps, IsMap
<1>4. Puts(wire, wire', c, wi)
  BY <1>1 DEF Flush, Puts, Maps, IsMap
<1>5. Well(case.prog[c], c, t, q[c], wi, issued[c])
  BY <1>1, FlushWell DEF Flush
<1>6. Held(s, t, issued[c], issued[c]) /\ t.subs = s.subs /\ t.psubs = s.psubs
  <2>1. /\ t.pend = s.pend /\ t.push = s.push /\ t.shut = s.shut /\ t.must = s.must
        /\ t.k = s.k /\ t.out = s.out /\ t.subs = s.subs /\ t.psubs = s.psubs
    BY <1>1 DEF States
  <2> HIDE DEF t
  <2> QED BY <2>1, KeepsAll DEF Held
<1> HIDE DEF IInv, Puts, Held, Well, t, wi
<1> QED BY <1>2, <1>3, <1>4, <1>5, <1>6, WroteInv

LEMMA ClosedInv ==
  ASSUME IInv, NEW c \in Clients, Closed(c)
  PROVE  IInv'
<1> DEFINE s == st[c]
           t == [s EXCEPT !.pc = "closing"]
           r == IF s.push THEN CloseQ(q[c]) ELSE q[c]
<1>1. /\ Maps /\ Well(case.prog[c], c, s, q[c], wire[c], issued[c]) /\ s \in States
  BY Before
<1>2. case' = case /\ UNCHANGED broker /\ Puts(wire, wire', c, wire[c]) /\ issued' = issued
  BY DEF Closed, Puts
<1>3. st' = [st EXCEPT ![c] = t]
  BY <1>1 DEF Closed, Maps, IsMap
<1>4. Puts(q, q', c, r)
  <2> HIDE DEF CloseQ
  <2> QED BY <1>1 DEF Closed, Puts, Maps, IsMap
<1>5. Well(case.prog[c], c, t, r, wire[c], issued[c])
  BY <1>1, ClosedWell DEF Closed
<1>6. Held(s, t, issued[c], issued[c]) /\ t.subs = s.subs /\ t.psubs = s.psubs
  <2>1. /\ t.pend = s.pend /\ t.push = s.push /\ t.shut = s.shut /\ t.must = s.must
        /\ t.k = s.k /\ t.out = s.out /\ t.subs = s.subs /\ t.psubs = s.psubs
    BY <1>1 DEF States
  <2> HIDE DEF t
  <2> QED BY <2>1, KeepsAll DEF Held
<1> HIDE DEF IInv, Puts, Held, Well, t, r
<1> QED BY <1>2, <1>3, <1>4, <1>5, <1>6, WroteInv

LEMMA QuitInv ==
  ASSUME IInv, NEW c \in Clients, Quit(c)
  PROVE  IInv'
<1> DEFINE s == st[c]
           f == CloseMark(c)
           n == Cost(f)
<1>1. /\ Maps /\ Well(case.prog[c], c, s, q[c], wire[c], issued[c]) /\ s \in States
  BY Before
<1>2. s.pc = "reply" /\ s.out = <<>> /\ s.quit /\ case' = case /\ UNCHANGED broker
  BY DEF Quit
<1>3. CASE ~ s.push
  <2> DEFINE u == [s EXCEPT !.quit = FALSE, !.wr = <<>>]
             t == Shut(u, "quit")
             wi == IF s.shut = "" THEN wire[c] \o s.wr ELSE wire[c]
  <2>1. st' = [st EXCEPT ![c] = t] /\ issued' = issued /\ Puts(q, q', c, q[c])
    BY <1>1, <1>3 DEF Quit, Maps, IsMap, Puts
  <2>2. Puts(wire, wire', c, wi)
    BY <1>1, <1>3 DEF Quit, Puts, Maps, IsMap
  <2>3. Well(case.prog[c], c, t, q[c], wi, issued[c])
    BY <1>1, <1>2, <1>3, QuitNowWell
  <2>4. Held(s, t, issued[c], issued[c]) /\ t.subs = s.subs /\ t.psubs = s.psubs
    <3>1. u \in States
      <4>1. s \in States /\ <<>> \in Seq(Frames)
        BY <1>1
      <4> QED BY <4>1 DEF States
    <3>2. /\ u.pend = s.pend /\ u.push = s.push /\ u.shut = s.shut /\ u.must = s.must
          /\ u.k = s.k /\ u.out = s.out /\ u.subs = s.subs /\ u.psubs = s.psubs
      BY <1>1 DEF States
    <3> HIDE DEF u
    <3>3. Alike(u, t)
      BY <3>1, ShutAlike DEF Shuts
    <3> HIDE DEF t
    <3> QED BY <3>2, <3>3, KeepsAll DEF Held, Alike
  <2> HIDE DEF IInv, Puts, Held, Well, t, wi
  <2> QED BY <1>2, <2>1, <2>2, <2>3, <2>4, WroteInv
<1>4. CASE s.push
  <2> DEFINE t == [(IF Hit(c, f) THEN s ELSE Shut(s, "slow")) EXCEPT !.quit = FALSE]
             is == IF Hit(c, f) THEN Append(issued[c], f) ELSE issued[c]
             r == Enqueue(q[c], f, n)
  <2>1. f \in Frames /\ f.kind = "close" /\ n \in Nat
    <3>1. s.k \in Nat
      BY <1>1 DEF States
    <3> QED BY <3>1 DEF CloseMark, Cost, Frames, Kinds
  <2>2. st' = [Closing(st, c, f) EXCEPT ![c].quit = FALSE]
    BY <1>4 DEF Quit
  <2>3. Puts(st, st', c, t)
    <3>1. CASE Hit(c, f)
      <4>1. st' = [st EXCEPT ![c].quit = FALSE]
        BY <2>2, <3>1 DEF Closing
      <4> QED BY <1>1, <3>1, <4>1 DEF Puts, Maps, IsMap
    <3>2. CASE ~ Hit(c, f)
      <4>1. st' = [[st EXCEPT ![c] = Shut(@, "slow")] EXCEPT ![c].quit = FALSE]
        BY <2>2, <3>2 DEF Closing
      <4> HIDE DEF Shut
      <4>2. st' = [st EXCEPT ![c] = [Shut(st[c], "slow") EXCEPT !.quit = FALSE]]
        BY <1>1, <4>1 DEF Maps, IsMap
      <4> QED BY <3>2, <4>2 DEF Puts
    <3> QED BY <3>1, <3>2
  <2>4. Puts(q, q', c, r)
    <3> HIDE DEF Enqueue, n
    <3> QED BY <1>1, <1>4 DEF Quit, Puts, Maps, IsMap, n
  <2>5. Puts(issued, issued', c, is) /\ Puts(wire, wire', c, wire[c])
    <3> HIDE DEF Hit
    <3> QED BY <1>1, <1>4 DEF Quit, Puts, Maps, IsMap
  <2>6. Well(case.prog[c], c, t, r, wire[c], is)
    <3>1. Hit(c, f) <=> Accepts(q[c], n)
      BY DEF Hit
    <3> HIDE DEF Hit, Accepts, Enqueue, Shut, f, n
    <3> QED BY <1>1, <1>2, <1>4, <2>1, <3>1, QuitMarkWell
  <2>7. Held(s, t, issued[c], is) /\ t.subs = s.subs /\ t.psubs = s.psubs
    <3> DEFINE u == IF Hit(c, f) THEN s ELSE Shut(s, "slow")
    <3>1. u \in States /\ Alike(s, u)
      <4>1. Alike(s, s)
        BY DEF Alike
      <4>2. Shut(s, "slow") \in States /\ Alike(s, Shut(s, "slow"))
        BY <1>1, ShutAlike DEF Shuts
      <4> QED BY <1>1, <4>1, <4>2
    <3> HIDE DEF u
    <3>2. /\ t.pend = u.pend /\ t.push = u.push /\ t.shut = u.shut /\ t.must = u.must
          /\ t.k = u.k /\ t.out = u.out /\ t.subs = u.subs /\ t.psubs = u.psubs
      BY <3>1 DEF States, u
    <3>3. Keeps(issued[c], is)
      <4>1. issued[c] \in Seq(Frames)
        BY <1>1 DEF Well
      <4>2. Grown(issued[c], f, is, Hit(c, f))
        BY DEF Grown
      <4> QED BY <2>1, <4>1, <4>2, GrowsKeep DEF Extends
    <3> HIDE DEF t, is
    <3> QED BY <3>1, <3>2, <3>3, KeepsAll DEF Held, Alike
  <2> HIDE DEF IInv, Puts, Held, Well, t, r, is
  <2> QED BY <1>2, <2>3, <2>4, <2>5, <2>6, <2>7, StepInv
<1> QED BY <1>1, <1>3, <1>4 DEF States

LEMMA CostType == \A f : Cost(f) \in Nat
BY DEF Cost

\* A frame is issued: by the queue or directly.
LEMMA ReplyInv ==
  ASSUME IInv, NEW c \in Clients, Reply(c)
  PROVE  IInv'
<1> DEFINE s == st[c]
           f == Head(s.out)
           n == Cost(f)
           u == [s EXCEPT !.out = Tail(@)]
<1>1. /\ Maps /\ Well(case.prog[c], c, s, q[c], wire[c], issued[c]) /\ s \in States
      /\ issued[c] \in Seq(Frames) /\ s.out \in Seq(Frames)
  <2>1. /\ Maps /\ Well(case.prog[c], c, s, q[c], wire[c], issued[c]) /\ s \in States
    BY Before
  <2> QED BY <2>1 DEF Well, States
<1>2. s.pc = "reply" /\ s.out # <<>> /\ case' = case /\ UNCHANGED broker /\ Puts(wire, wire', c, wire[c])
  BY DEF Reply, Puts
<1>3. n \in Nat
  BY CostType
<1>4. s.must = {}
  BY <1>1, <1>2, WellIs DEF Place
<1>5. CASE ~ s.push
  <2> DEFINE t == [s EXCEPT !.out = Tail(@), !.wr = Append(@, f)]
  <2>1. st' = [st EXCEPT ![c] = t]
    <3> DEFINE z == [st EXCEPT ![c].out = Tail(@)]
    <3>1. st' = [z EXCEPT ![c].wr = Append(@, f)]
      BY <1>5 DEF Reply
    <3>2. z = [st EXCEPT ![c] = u]
      BY <1>1 DEF Maps, IsMap
    <3>3. t = [u EXCEPT !.wr = Append(@, f)]
      OBVIOUS
    <3> HIDE DEF f, u, t, z
    <3>4. IsMap(z) /\ z[c] = u
      BY <1>1, <3>2 DEF Maps, IsMap
    <3>5. st' = [z EXCEPT ![c] = t]
      BY <3>1, <3>3, <3>4 DEF IsMap
    <3> QED BY <1>1, <3>2, <3>5 DEF Maps, IsMap
  <2>2. Puts(issued, issued', c, Append(issued[c], f)) /\ Puts(q, q', c, q[c])
    BY <1>1, <1>5 DEF Reply, Puts, Maps, IsMap
  <2>3. f \in Frames /\ Well(case.prog[c], c, t, q[c], wire[c], Append(issued[c], f))
    BY <1>1, <1>2, <1>5, ReplyDirectWell
  <2>4. Keeps(issued[c], Append(issued[c], f))
    <3>1. Grown(issued[c], f, Append(issued[c], f), TRUE) /\ f \in Frames
      BY <2>3 DEF Grown
    <3> HIDE DEF f, Keeps, Grown
    <3> QED BY <1>1, <3>1, GrowsKeep DEF Extends
  <2>5. Held(s, t, issued[c], Append(issued[c], f)) /\ t.subs = s.subs /\ t.psubs = s.psubs
    <3>1. /\ t.pend = s.pend /\ t.push = s.push /\ t.shut = s.shut /\ t.must = s.must
          /\ t.subs = s.subs /\ t.psubs = s.psubs
      BY <1>1 DEF States
    <3> HIDE DEF t, f
    <3> QED BY <1>4, <2>4, <3>1 DEF Held
  <2>6. Puts(st, st', c, t)
    BY <2>1 DEF Puts
  <2> HIDE DEF IInv, Puts, Held, Well, t, f
  <2> QED BY <1>2, <2>2, <2>3, <2>5, <2>6, StepInv
<1>6. CASE s.push
  <2> DEFINE t == IF Hit(c, f) THEN u ELSE Shut(u, "slow")
             is == IF Hit(c, f) THEN Append(issued[c], f) ELSE issued[c]
             r == Enqueue(q[c], f, n)
  <2>1. Puts(st, st', c, t)
    <3>1. st' = Closing([st EXCEPT ![c].out = Tail(@)], c, f)
      BY <1>6 DEF Reply
    <3>2. [st EXCEPT ![c].out = Tail(@)] = [st EXCEPT ![c] = u]
      BY <1>1 DEF Maps, IsMap
    <3>3. CASE Hit(c, f)
      BY <3>1, <3>2, <3>3 DEF Closing, Puts
    <3>4. CASE ~ Hit(c, f)
      <4>1. st' = [[st EXCEPT ![c] = u] EXCEPT ![c] = Shut(@, "slow")]
        BY <3>1, <3>2, <3>4 DEF Closing
      <4> HIDE DEF u, Shut, Hit, f
      <4>2. st' = [st EXCEPT ![c] = Shut(u, "slow")]
        BY <1>1, <4>1 DEF Maps, IsMap
      <4> QED BY <3>4, <4>2 DEF Puts
    <3> QED BY <3>3, <3>4
  <2>2. Puts(q, q', c, r)
    <3> HIDE DEF Enqueue, n
    <3> QED BY <1>1, <1>6 DEF Reply, Puts, Maps, IsMap, n
  <2>3. Puts(issued, issued', c, is)
    <3> HIDE DEF Hit
    <3> QED BY <1>1, <1>6 DEF Reply, Puts, Maps, IsMap
  <2>4. f \in Frames /\ Well(case.prog[c], c, t, r, wire[c], is)
    <3>1. Hit(c, f) <=> Accepts(q[c], n)
      BY DEF Hit
    <3>2. /\ f \in Frames
          /\ Accepts(q[c], n) => Well(case.prog[c], c, u, r, wire[c], Append(issued[c], f))
          /\ ~ Accepts(q[c], n) => Well(case.prog[c], c, Shut(u, "slow"), r, wire[c], issued[c])
      <4> HIDE DEF n, Accepts, Enqueue, Shut, Well
      <4> QED BY <1>1, <1>2, <1>3, <1>6, ReplyPushWell
    <3> HIDE DEF Hit, Accepts, f, n, r, Well
    <3> QED BY <3>1, <3>2
  <2>5. Keeps(issued[c], is)
    <3>1. Grown(issued[c], f, is, Hit(c, f))
      BY DEF Grown
    <3> QED BY <1>1, <2>4, <3>1, GrowsKeep DEF Extends
  <2>6. Held(s, t, issued[c], is) /\ t.subs = s.subs /\ t.psubs = s.psubs
    <3>1. /\ u.pend = s.pend /\ u.push = s.push /\ u.shut = s.shut /\ u.must = s.must
          /\ u.subs = s.subs /\ u.psubs = s.psubs
      BY <1>1 DEF States
    <3>2. u \in States
      <4>1. Tail(s.out) \in Seq(Frames)
        BY <1>1, <1>2, TailAt
      <4> QED BY <1>1, <4>1 DEF States
    <3> HIDE DEF u
    <3>3. Alike(u, t)
      <4>1. Alike(u, u)
        BY DEF Alike
      <4>2. Alike(u, Shut(u, "slow"))
        BY <3>2, ShutAlike DEF Shuts
      <4> QED BY <4>1, <4>2
    <3> HIDE DEF t, f, is
    <3> QED BY <1>4, <2>5, <3>1, <3>3 DEF Held, Alike
  <2> HIDE DEF IInv, Puts, Held, Well, t, f, r, is
  <2> QED BY <1>2, <2>1, <2>2, <2>3, <2>4, <2>6, StepInv
<1> QED BY <1>1, <1>5, <1>6 DEF States

-----------------------------------------------------------------------------
(* The steps that register.                                                 *)

LEMMA RegisterInv ==
  ASSUME IInv, NEW c \in Clients, UNCHANGED <<case, q, wire, issued>>, NEW t, st' = [st EXCEPT ![c] = t],
         BrokerTypeOK',
         \A ch \in Channels : /\ c \in channels'[ch] <=> ch \in t.subs
                              /\ \A x \in Clients \ {c} : x \in channels'[ch] <=> x \in channels[ch],
         \A p \in PatternSet : /\ c \in patterns'[p] <=> p \in t.psubs
                               /\ \A x \in Clients \ {c} : x \in patterns'[p] <=> x \in patterns[p],
         Well(case.prog[c], c, t, q[c], wire[c], issued[c]), Held(st[c], t, issued[c], issued[c])
  PROVE  IInv'
<1>1. /\ Puts(st, st', c, t) /\ Puts(q, q', c, q[c]) /\ Puts(wire, wire', c, wire[c])
      /\ Puts(issued, issued', c, issued[c]) /\ case' = case
  BY DEF Puts
<1>2. Maps
  BY Before
<1>3. Apart(c) /\ st'[c] = t /\ q'[c] = q[c] /\ wire'[c] = wire[c] /\ issued'[c] = issued[c]
  <2> HIDE DEF Puts, Maps
  <2> QED BY <1>1, <1>2, ApartIs
<1>4. Registered'
  <2> SUFFICES ASSUME NEW x \in Clients
               PROVE  /\ \A ch \in Channels : x \in channels'[ch] <=> ch \in st'[x].subs
                      /\ \A p \in PatternSet : x \in patterns'[p] <=> p \in st'[x].psubs
    BY DEF Registered
  <2>1. CASE x = c
    BY <1>3, <2>1
  <2>2. CASE x # c
    <3>1. st'[x] = st[x]
      BY <1>3, <2>2 DEF Apart
    <3>2. /\ \A ch \in Channels : x \in channels[ch] <=> ch \in st[x].subs
          /\ \A p \in PatternSet : x \in patterns[p] <=> p \in st[x].psubs
      BY DEF IInv, Registered
    <3> QED BY <2>2, <3>1, <3>2
  <2> QED BY <2>1, <2>2
<1> HIDE DEF Puts, Well, Held, IInv, Apart
<1> QED BY <1>3, <1>4, ApartInv

\* UnsubscribeAll takes c out everywhere.
LEMMA LeftAll ==
  ASSUME BrokerTypeOK, NEW c \in Clients, UnsubscribeAll(c)
  PROVE  /\ BrokerTypeOK'
         /\ \A ch \in Channels : /\ c \notin channels'[ch]
                                 /\ \A x \in Clients \ {c} : x \in channels'[ch] <=> x \in channels[ch]
         /\ \A p \in PatternSet : /\ c \notin patterns'[p]
                                  /\ \A x \in Clients \ {c} : x \in patterns'[p] <=> x \in patterns[p]
BY DEF UnsubscribeAll, BrokerTypeOK, PatternSet

LEMMA CloseConnInv ==
  ASSUME IInv, NEW c \in Clients, CloseConn(c)
  PROVE  IInv'
<1> DEFINE s == st[c]
           t == [s EXCEPT !.pc = "gone", !.subs = {}, !.psubs = {}, !.mon = FALSE]
<1>1. /\ Maps /\ Well(case.prog[c], c, s, q[c], wire[c], issued[c]) /\ s \in States
  BY Before
<1>2. st' = [st EXCEPT ![c] = t]
  BY <1>1 DEF CloseConn, Maps, IsMap
<1>3. Well(case.prog[c], c, t, q[c], wire[c], issued[c])
  BY <1>1, GoneWell DEF CloseConn
<1>4. /\ t.pend = s.pend /\ t.push = s.push /\ t.shut = s.shut /\ t.must = s.must
      /\ t.k = s.k /\ t.out = s.out /\ t.subs = {} /\ t.psubs = {}
  BY <1>1 DEF States
<1> HIDE DEF t
<1>5. BrokerTypeOK /\ UnsubscribeAll(c) /\ UNCHANGED <<case, q, wire, issued>>
  BY DEF CloseConn, IInv, Typed
<1>6. /\ BrokerTypeOK'
      /\ \A ch \in Channels : /\ c \notin channels'[ch]
                              /\ \A x \in Clients \ {c} : x \in channels'[ch] <=> x \in channels[ch]
      /\ \A p \in PatternSet : /\ c \notin patterns'[p]
                               /\ \A x \in Clients \ {c} : x \in patterns'[p] <=> x \in patterns[p]
  BY <1>5, LeftAll
<1>7. Held(s, t, issued[c], issued[c])
  BY <1>4, KeepsAll DEF Held
<1> HIDE DEF Well, Held, IInv
<1> QED BY <1>2, <1>3, <1>4, <1>5, <1>6, <1>7, RegisterInv

LEMMA ExecuteInv ==
  ASSUME IInv, NEW c \in Clients, Execute(c)
  PROVE  IInv'
<1> DEFINE s == st[c]
           p == case.prog[c]
           m == p[s.k + 1]
           t == Handler([s EXCEPT !.k = @ + 1, !.cmd = m], m)
<1>1. /\ Maps /\ Program(p) /\ Well(p, c, s, q[c], wire[c], issued[c]) /\ s \in States /\ Place(p, s)
  BY Before, WellIs
<1>2. s.pc = "idle" /\ s.k < Len(p) /\ UNCHANGED <<case, q, wire, issued>>
  BY DEF Execute
<1>3. st' = [st EXCEPT ![c] = t]
  BY DEF Execute
<1>4. Start(s, m, t)
  <2> HIDE DEF Handler, p
  <2> QED BY <1>1, <1>2, HandlerIs
<1>5. IF m.name = "reset" THEN UnsubscribeAll(c) ELSE UNCHANGED broker
  BY DEF Execute
<1> HIDE DEF t, p
<1>6. Well(p, c, t, q[c], wire[c], issued[c])
  <2> HIDE DEF Well, Start, Place
  <2> QED BY <1>1, <1>2, <1>4, StartWell
<1> HIDE DEF m
<1>7. s.must = {}
  BY <1>1, <1>2 DEF Place
<1>8. Held(s, t, issued[c], issued[c])
  <2>1. t.pend = s.pend /\ t.must = {} /\ t.shut = s.shut /\ (s.push => t.push)
    BY <1>4, <1>7 DEF Start
  <2> QED BY <2>1, KeepsAll DEF Held
<1>9. IF m.name = "reset" THEN t.subs = {} /\ t.psubs = {} ELSE t.subs = s.subs /\ t.psubs = s.psubs
  BY <1>4 DEF Start
<1>10. BrokerTypeOK /\ Registered
  BY DEF IInv, Typed
<1>11. CASE m.name = "reset"
  <2>1. UnsubscribeAll(c) /\ t.subs = {} /\ t.psubs = {}
    BY <1>5, <1>9, <1>11
  <2>2. /\ BrokerTypeOK'
        /\ \A ch \in Channels : /\ c \notin channels'[ch]
                                /\ \A x \in Clients \ {c} : x \in channels'[ch] <=> x \in channels[ch]
        /\ \A pt \in PatternSet : /\ c \notin patterns'[pt]
                                  /\ \A x \in Clients \ {c} : x \in patterns'[pt] <=> x \in patterns[pt]
    BY <1>10, <2>1, LeftAll
  <2> HIDE DEF Well, Held, IInv
  <2> QED BY <1>2, <1>3, <1>6, <1>8, <2>1, <2>2, RegisterInv DEF p
<1>12. CASE m.name # "reset"
  <2>1. channels' = channels /\ patterns' = patterns /\ t.subs = s.subs /\ t.psubs = s.psubs
    BY <1>5, <1>9, <1>12 DEF broker
  <2>2. BrokerTypeOK'
    BY <1>10, <2>1 DEF BrokerTypeOK
  <2>3. /\ \A ch \in Channels : c \in channels[ch] <=> ch \in s.subs
        /\ \A pt \in PatternSet : c \in patterns[pt] <=> pt \in s.psubs
    BY <1>10 DEF Registered
  <2> HIDE DEF Well, Held, IInv
  <2> QED BY <1>2, <1>3, <1>6, <1>8, <2>1, <2>2, <2>3, RegisterInv DEF p
<1> QED BY <1>11, <1>12

\* One argument's word, and the registrations it leaves.
Words(s, f, u) == u = [s EXCEPT !.todo = Tail(@), !.out = Append(@, f)]

LEMMA ArguedIs ==
  ASSUME NEW s \in States, s.todo # <<>>, NEW f \in Frames, NEW a, NEW u, Words(s, f, u),
         NEW subs \in SUBSET Channels, NEW psubs \in SUBSET PatternSet,
         subs = After(s.cmd.name, "subscribe", "unsubscribe", s.subs, a),
         psubs = After(s.cmd.name, "psubscribe", "punsubscribe", s.psubs, a)
  PROVE  /\ u.subs = s.subs /\ u.psubs = s.psubs
         /\ psubs = s.psubs => Argued(s, a, f, [u EXCEPT !.subs = subs])
         /\ subs = s.subs => Argued(s, a, f, [u EXCEPT !.psubs = psubs])
<1>1. Tail(s.todo) \in Seq(Subjects) /\ Append(s.out, f) \in Seq(Frames)
  <2>1. s.todo \in Seq(Subjects) /\ s.out \in Seq(Frames)
    BY DEF States
  <2>2. Append(s.out, f) \in Seq(Frames)
    BY <2>1, AppendAt
  <2> QED BY <2>1, <2>2, TailAt
<1>2. u \in States
  BY <1>1 DEF States, Words
<1>3. /\ u.todo = Tail(s.todo) /\ u.out = Append(s.out, f)
      /\ u.k = s.k /\ u.pc = s.pc /\ u.cmd = s.cmd /\ u.pend = s.pend /\ u.mon = s.mon
      /\ u.push = s.push /\ u.quit = s.quit /\ u.wr = s.wr /\ u.w = s.w /\ u.batch = s.batch
      /\ u.shut = s.shut /\ u.must = s.must /\ u.subs = s.subs /\ u.psubs = s.psubs
  BY DEF States, Words
<1> DEFINE Rests(v) ==
      /\ v \in States /\ v.k = u.k /\ v.pc = u.pc /\ v.cmd = u.cmd /\ v.todo = u.todo
      /\ v.out = u.out /\ v.pend = u.pend /\ v.mon = u.mon /\ v.push = u.push
      /\ v.quit = u.quit /\ v.wr = u.wr /\ v.w = u.w /\ v.batch = u.batch /\ v.shut = u.shut
      /\ v.must = u.must
<1>4. Rests([u EXCEPT !.subs = subs]) /\ [u EXCEPT !.subs = subs].subs = subs
      /\ [u EXCEPT !.subs = subs].psubs = u.psubs
  BY <1>2 DEF States
<1>5. Rests([u EXCEPT !.psubs = psubs]) /\ [u EXCEPT !.psubs = psubs].psubs = psubs
      /\ [u EXCEPT !.psubs = psubs].subs = u.subs
  BY <1>2 DEF States
<1>6. ASSUME NEW v, Rests(v), v.subs = subs, v.psubs = psubs PROVE Argued(s, a, f, v)
  BY <1>3, <1>6 DEF Argued, Grown
<1> HIDE DEF Rests, Argued
<1>7. ASSUME psubs = s.psubs PROVE Argued(s, a, f, [u EXCEPT !.subs = subs])
  <2> DEFINE v == [u EXCEPT !.subs = subs]
  <2>1. Rests(v) /\ v.subs = subs /\ v.psubs = psubs
    BY <1>3, <1>4, <1>7
  <2> HIDE DEF v
  <2>2. Argued(s, a, f, v)
    BY <1>6, <2>1
  <2> QED BY <2>2 DEF v
<1>8. ASSUME subs = s.subs PROVE Argued(s, a, f, [u EXCEPT !.psubs = psubs])
  <2> DEFINE v == [u EXCEPT !.psubs = psubs]
  <2>1. Rests(v) /\ v.subs = subs /\ v.psubs = psubs
    BY <1>3, <1>5, <1>8
  <2> HIDE DEF v
  <2>2. Argued(s, a, f, v)
    BY <1>6, <2>1
  <2> QED BY <2>2 DEF v
<1> QED BY <1>3, <1>7, <1>8

\* Registrations after an argument, in the broker as on the connection.
Agreed(c, t) ==
  /\ BrokerTypeOK'
  /\ \A ch \in Channels : /\ c \in channels'[ch] <=> ch \in t.subs
                          /\ \A x \in Clients \ {c} : x \in channels'[ch] <=> x \in channels[ch]
  /\ \A p \in PatternSet : /\ c \in patterns'[p] <=> p \in t.psubs
                           /\ \A x \in Clients \ {c} : x \in patterns'[p] <=> x \in patterns[p]

\* The broker after one argument a of a command of this name.
Told(name, a, c) ==
  CASE name = "subscribe" -> Subscribe(a, c)
    [] name = "psubscribe" -> PSubscribe(a, c)
    [] name = "unsubscribe" -> IF a \in st[c].subs THEN Unsubscribe(a, c) ELSE UNCHANGED broker
    [] OTHER -> IF a \in st[c].psubs THEN PUnsubscribe(a, c) ELSE UNCHANGED broker

LEMMA AgreedIs ==
  ASSUME BrokerTypeOK, Registered, NEW c \in Clients, NEW name \in Acks, NEW a, Told(name, a, c),
         name = "subscribe" => a \in Channels, name = "psubscribe" => a \in PatternSet,
         st[c].subs \subseteq Channels, st[c].psubs \subseteq PatternSet,
         NEW t, t.subs = After(name, "subscribe", "unsubscribe", st[c].subs, a),
         t.psubs = After(name, "psubscribe", "punsubscribe", st[c].psubs, a)
  PROVE  Agreed(c, t)
<1>1. /\ \A ch \in Channels : c \in channels[ch] <=> ch \in st[c].subs
      /\ \A p \in PatternSet : c \in patterns[p] <=> p \in st[c].psubs
  BY DEF Registered
<1>2. channels \in [Channels -> SUBSET Clients] /\ patterns \in [PatternSet -> SUBSET Clients]
  BY DEF BrokerTypeOK, PatternSet
<1>3. CASE name = "subscribe"
  <2>1. channels' = [channels EXCEPT ![a] = @ \cup {c}] /\ patterns' = patterns /\ a \in Channels
    BY <1>3 DEF Told, Subscribe
  <2>2. t.subs = st[c].subs \cup {a} /\ t.psubs = st[c].psubs
    BY <1>3 DEF After
  <2>3. BrokerTypeOK'
    BY <1>2, <2>1 DEF BrokerTypeOK, PatternSet
  <2> QED BY <1>1, <1>2, <2>1, <2>2, <2>3 DEF Agreed
<1>4. CASE name = "psubscribe"
  <2>1. patterns' = [patterns EXCEPT ![a] = @ \cup {c}] /\ channels' = channels /\ a \in PatternSet
    BY <1>4 DEF Told, PSubscribe
  <2>2. t.psubs = st[c].psubs \cup {a} /\ t.subs = st[c].subs
    BY <1>4 DEF After
  <2>3. BrokerTypeOK'
    BY <1>2, <2>1 DEF BrokerTypeOK, PatternSet
  <2> QED BY <1>1, <1>2, <2>1, <2>2, <2>3 DEF Agreed
<1>5. CASE name = "unsubscribe"
  <2>1. /\ IF a \in st[c].subs THEN channels' = [channels EXCEPT ![a] = @ \ {c}] ELSE channels' = channels
        /\ patterns' = patterns
    BY <1>5 DEF Told, Unsubscribe, broker
  <2>2. t.subs = st[c].subs \ {a} /\ t.psubs = st[c].psubs
    BY <1>5 DEF After
  <2>3. BrokerTypeOK'
    BY <1>2, <2>1 DEF BrokerTypeOK, PatternSet
  <2>4. CASE a \in st[c].subs
    BY <1>1, <1>2, <2>1, <2>2, <2>3, <2>4 DEF Agreed
  <2>5. CASE a \notin st[c].subs
    BY <1>1, <1>2, <2>1, <2>2, <2>3, <2>5 DEF Agreed
  <2> QED BY <2>4, <2>5
<1>6. CASE name = "punsubscribe"
  <2>1. /\ IF a \in st[c].psubs THEN patterns' = [patterns EXCEPT ![a] = @ \ {c}] ELSE patterns' = patterns
        /\ channels' = channels
    BY <1>6 DEF Told, PUnsubscribe, broker
  <2>2. t.psubs = st[c].psubs \ {a} /\ t.subs = st[c].subs
    BY <1>6 DEF After
  <2>3. BrokerTypeOK'
    BY <1>2, <2>1 DEF BrokerTypeOK, PatternSet
  <2>4. CASE a \in st[c].psubs
    BY <1>1, <1>2, <2>1, <2>2, <2>3, <2>4 DEF Agreed
  <2>5. CASE a \notin st[c].psubs
    BY <1>1, <1>2, <2>1, <2>2, <2>3, <2>5 DEF Agreed
  <2> QED BY <2>4, <2>5
<1> QED BY <1>3, <1>4, <1>5, <1>6 DEF Acks

LEMMA ArgumentInv ==
  ASSUME IInv, NEW c \in Clients, Argument(c)
  PROVE  IInv'
<1> DEFINE s == st[c]
           a == Head(s.todo)
           f == Frame(s.cmd.name, c, a)
           u == [s EXCEPT !.todo = Tail(@), !.out = Append(@, f)]
           subs == After(s.cmd.name, "subscribe", "unsubscribe", s.subs, a)
           psubs == After(s.cmd.name, "psubscribe", "punsubscribe", s.psubs, a)
<1>1. /\ Well(case.prog[c], c, s, q[c], wire[c], issued[c]) /\ s \in States /\ Place(case.prog[c], s)
  BY Before, WellIs
<1>2. s.pc = "args" /\ s.todo # <<>> /\ UNCHANGED <<case, q, wire, issued>>
  BY DEF Argument
<1>3. s.cmd.name \in Acks /\ s.must = {}
  BY <1>1, <1>2 DEF Place
<1>4. /\ a \in Subjects
      /\ s.cmd.name = "subscribe" => a \in Channels
      /\ s.cmd.name = "psubscribe" => a \in PatternSet
  <2>1. /\ s.todo \in Seq(Subjects)
        /\ s.cmd.name = "subscribe" => s.todo \in Seq(Channels)
        /\ s.cmd.name = "psubscribe" => s.todo \in Seq(PatternSet)
    BY <1>1, <1>2 DEF Place, States
  <2>2. ASSUME NEW S, s.todo \in Seq(S) PROVE a \in S
    BY <1>2, <2>2
  <2> QED BY <2>1, <2>2
<1>5. f \in Frames /\ f.kind = s.cmd.name /\ f.of = <<c, s.k>> /\ f.what = a
  <2>1. s.k \in Nat /\ s.cmd.name \in Kinds
    BY <1>1, <1>3 DEF States, Acks, Kinds
  <2>2. a \in Channels \cup ToSet(Patterns) \cup Names \cup {NoChan, ""}
    BY <1>4 DEF Subjects, PatternSet
  <2> HIDE DEF a
  <2> QED BY <2>1, <2>2 DEF Frames, Frame
<1>6. s.subs \subseteq Channels /\ s.psubs \subseteq PatternSet
  BY <1>1 DEF States
<1>7. subs \in SUBSET Channels /\ psubs \in SUBSET PatternSet
  BY <1>4, <1>6 DEF After
<1>8. /\ u.subs = s.subs /\ u.psubs = s.psubs
      /\ psubs = s.psubs => Argued(s, a, f, [u EXCEPT !.subs = subs])
      /\ subs = s.subs => Argued(s, a, f, [u EXCEPT !.psubs = psubs])
  <2>1. /\ Words(s, f, u)
        /\ subs = After(s.cmd.name, "subscribe", "unsubscribe", s.subs, a)
        /\ psubs = After(s.cmd.name, "psubscribe", "punsubscribe", s.psubs, a)
        /\ s \in States /\ s.todo # <<>> /\ f \in Frames
    BY <1>1, <1>2, <1>5 DEF Words
  <2> HIDE DEF a, f, s, u, subs, psubs
  <2>2. /\ u.subs = s.subs /\ u.psubs = s.psubs
        /\ psubs = s.psubs => Argued(s, a, f, [u EXCEPT !.subs = subs])
        /\ subs = s.subs => Argued(s, a, f, [u EXCEPT !.psubs = psubs])
    BY <1>7, <2>1, ArguedIs, ZenonT(60)
  <2> QED BY <2>2 DEF a, f, s, u, subs, psubs
<1>9. Told(s.cmd.name, a, c)
  BY <1>3 DEF Argument, Told
<1>10. PICK t : st' = [st EXCEPT ![c] = t] /\ Argued(s, a, f, t)
  <2>1. CASE s.cmd.name = "subscribe"
    <3>1. st' = [st EXCEPT ![c] = [u EXCEPT !.subs = @ \cup {a}]]
      BY <2>1 DEF Argument
    <3>2. subs = s.subs \cup {a} /\ psubs = s.psubs
      BY <2>1 DEF After
    <3> HIDE DEF u, a, f, subs, psubs
    <3> QED BY <1>8, <3>1, <3>2
  <2>2. CASE s.cmd.name = "psubscribe"
    <3>1. st' = [st EXCEPT ![c] = [u EXCEPT !.psubs = @ \cup {a}]]
      BY <2>2 DEF Argument
    <3>2. psubs = s.psubs \cup {a} /\ subs = s.subs
      BY <2>2 DEF After
    <3> HIDE DEF u, a, f, subs, psubs
    <3> QED BY <1>8, <3>1, <3>2
  <2>3. CASE s.cmd.name = "unsubscribe"
    <3>1. st' = [st EXCEPT ![c] = [u EXCEPT !.subs = @ \ {a}]]
      BY <2>3 DEF Argument
    <3>2. subs = s.subs \ {a} /\ psubs = s.psubs
      BY <2>3 DEF After
    <3> HIDE DEF u, a, f, subs, psubs
    <3> QED BY <1>8, <3>1, <3>2
  <2>4. CASE s.cmd.name = "punsubscribe"
    <3>1. st' = [st EXCEPT ![c] = [u EXCEPT !.psubs = @ \ {a}]]
      BY <2>4 DEF Argument
    <3>2. psubs = s.psubs \ {a} /\ subs = s.subs
      BY <2>4 DEF After
    <3> HIDE DEF u, a, f, subs, psubs
    <3> QED BY <1>8, <3>1, <3>2
  <2> QED BY <1>3, <2>1, <2>2, <2>3, <2>4 DEF Acks
<1>11. Well(case.prog[c], c, t, q[c], wire[c], issued[c])
  <2> HIDE DEF f, Well, Argued
  <2> QED BY <1>1, <1>2, <1>5, <1>10, ArguedWell
<1>12. Agreed(c, t)
  <2>1. BrokerTypeOK /\ Registered
    BY DEF IInv, Typed
  <2>2. t.subs = subs /\ t.psubs = psubs
    BY <1>10 DEF Argued
  <2> HIDE DEF a, Agreed, Told, BrokerTypeOK, Registered
  <2> QED BY <1>3, <1>4, <1>6, <1>9, <2>1, <2>2, AgreedIs
<1>13. Held(s, t, issued[c], issued[c])
  <2>1. t.pend = s.pend /\ t.must = {} /\ t.shut = s.shut /\ t.push = s.push
    BY <1>3, <1>10 DEF Argued
  <2> QED BY <2>1, KeepsAll DEF Held
<1>14. /\ BrokerTypeOK'
       /\ \A ch \in Channels : /\ c \in channels'[ch] <=> ch \in t.subs
                               /\ \A x \in Clients \ {c} : x \in channels'[ch] <=> x \in channels[ch]
       /\ \A p \in PatternSet : /\ c \in patterns'[p] <=> p \in t.psubs
                                /\ \A x \in Clients \ {c} : x \in patterns'[p] <=> x \in patterns[p]
  BY <1>12 DEF Agreed
<1> HIDE DEF Well, Held, IInv, a, f
<1> QED BY <1>2, <1>10, <1>11, <1>13, <1>14, RegisterInv

-----------------------------------------------------------------------------
(* The steps that deliver.                                                  *)

\* A step that leaves every registration, connection by connection.
LEMMA AllInv ==
  ASSUME IInv, Maps', case' = case, UNCHANGED broker, Pushing', Entitling',
         \A x \in Clients : /\ Well(case.prog[x], x, st'[x], q'[x], wire'[x], issued'[x])
                            /\ st'[x].subs = st[x].subs /\ st'[x].psubs = st[x].psubs
  PROVE  IInv'
<1>1. case \in Cases /\ BrokerTypeOK /\ Registered
  BY DEF IInv, Typed
<1>2. channels' = channels /\ patterns' = patterns
  BY DEF broker
<1>3. BrokerTypeOK'
  BY <1>1, <1>2 DEF BrokerTypeOK
<1>4. Registered'
  <2> SUFFICES ASSUME NEW x \in Clients
               PROVE  /\ \A ch \in Channels : x \in channels'[ch] <=> ch \in st'[x].subs
                      /\ \A p \in PatternSet : x \in patterns'[p] <=> p \in st'[x].psubs
    BY DEF Registered
  <2> QED BY <1>1, <1>2 DEF Registered
<1>5. Wells'
  <2> HIDE DEF Well
  <2> QED BY DEF Wells
<1>6. (Typed /\ Locals)'
  <2>1. Maps' /\ Wells' /\ case' \in Cases /\ BrokerTypeOK'
    BY <1>1, <1>3, <1>5
  <2>2. (Maps /\ Wells /\ case \in Cases /\ BrokerTypeOK => Typed /\ Locals)'
    BY WellsMake, PTL
  <2> QED BY <2>1, <2>2
<1> QED BY <1>4, <1>6 DEF IInv

\* What connection x owes r is not forgotten.
LEMMA OwedStill ==
  ASSUME NEW x \in Clients, NEW r \in Clients, Owed(x, r), st[r].shut # "" => st'[r].shut # "",
         Keeps(issued[r], issued'[r]), st'[x].k = st[x].k, Keeps(st[x].out, st'[x].out),
         \A i \in DOMAIN st[x].pend : r \in st[x].pend[i].to =>
           \/ \E j \in DOMAIN st'[x].pend : r \in st'[x].pend[j].to
           \/ st'[r].shut # ""
           \/ \E j \in DOMAIN issued'[r] : issued'[r][j].of = <<x, st[x].k>>
           \/ r = x /\ \E j \in DOMAIN st'[x].out : st'[x].out[j].of = <<x, st[x].k>>
  PROVE  Owed(x, r)'
<1>1. CASE st[r].shut # ""
  BY <1>1 DEF Owed
<1>2. CASE \E i \in DOMAIN issued[r] : issued[r][i].of = <<x, st[x].k>>
  <2>1. PICK i \in DOMAIN issued[r] : issued[r][i].of = <<x, st[x].k>>
    BY <1>2
  <2>2. PICK j \in DOMAIN issued'[r] : issued'[r][j] = issued[r][i]
    BY DEF Keeps
  <2>3. issued'[r][j].of = <<x, st'[x].k>>
    BY <2>1, <2>2
  <2> QED BY <2>3 DEF Owed
<1>3. CASE r = x /\ \E i \in DOMAIN st[x].out : st[x].out[i].of = <<x, st[x].k>>
  <2>1. PICK i \in DOMAIN st[x].out : st[x].out[i].of = <<x, st[x].k>>
    BY <1>3
  <2>2. PICK j \in DOMAIN st'[x].out : st'[x].out[j] = st[x].out[i]
    BY DEF Keeps
  <2>3. st'[x].out[j].of = <<x, st'[x].k>>
    BY <2>1, <2>2
  <2> QED BY <1>3, <2>3 DEF Owed
<1>4. CASE \E i \in DOMAIN st[x].pend : r \in st[x].pend[i].to
  <2> HIDE DEF Keeps
  <2> QED BY <1>4 DEF Owed
<1> QED BY <1>1, <1>2, <1>3, <1>4 DEF Owed

\* A step of publisher c, which reaches other connections.
Reached(s, t, is, is2) ==
  /\ s.push => t.push
  /\ s.shut # "" => t.shut # ""
  /\ Keeps(is, is2)
Stays(s, t) ==
  /\ t.pend = s.pend /\ t.must = s.must /\ t.k = s.k /\ Keeps(s.out, t.out)

LEMMA TurnInv ==
  ASSUME Wells, Pushing, Entitling, NEW c \in Clients,
         \A x \in Clients : Reached(st[x], st'[x], issued[x], issued'[x]),
         \A x \in Clients \ {c} : Stays(st[x], st'[x]),
         \A i \in DOMAIN st'[c].pend : \A r \in st'[c].pend[i].to : r \in Clients /\ st[r].push,
         \A r \in st'[c].must : Owed(c, r)'
  PROVE  Pushing' /\ Entitling'
<1>0. ASSUME NEW x \in Clients
      PROVE  st[x].must \subseteq Clients /\ \A i \in DOMAIN st[x].pend : st[x].pend[i].to \subseteq Clients
  BY SomeoneOf
<1>1. Pushing'
  <2> SUFFICES ASSUME NEW x \in Clients, NEW i \in DOMAIN st'[x].pend, NEW r \in st'[x].pend[i].to
               PROVE  st'[r].push
    BY DEF Pushing
  <2>1. r \in Clients /\ st[r].push
    <3>1. CASE x = c
      BY <3>1
    <3>2. CASE x # c
      <4>1. st'[x].pend = st[x].pend
        BY <3>2 DEF Stays
      <4> QED BY <1>0, <4>1 DEF Pushing
    <3> QED BY <3>1, <3>2
  <2> QED BY <2>1 DEF Reached
<1>2. Entitling'
  <2> SUFFICES ASSUME NEW x \in Clients, NEW r \in st'[x].must
               PROVE  Owed(x, r)'
    BY DEF Entitling
  <2>1. CASE x = c
    BY <2>1
  <2>2. CASE x # c
    <3>1. Stays(st[x], st'[x])
      BY <2>2
    <3>2. /\ st'[x].must = st[x].must /\ st'[x].k = st[x].k /\ st'[x].pend = st[x].pend
          /\ Keeps(st[x].out, st'[x].out)
      BY <3>1 DEF Stays
    <3>3. Owed(x, r) /\ r \in Clients
      BY <1>0, <3>2 DEF Entitling
    <3>4. (st[r].shut # "" => st'[r].shut # "") /\ Keeps(issued[r], issued'[r])
      BY <3>3 DEF Reached
    <3>5. \A i \in DOMAIN st[x].pend : r \in st[x].pend[i].to =>
            \E j \in DOMAIN st'[x].pend : r \in st'[x].pend[j].to
      BY <3>2
    <3> HIDE DEF Owed, Keeps
    <3> QED BY <3>2, <3>3, <3>4, <3>5, OwedStill
  <2> QED BY <2>1, <2>2
<1> QED BY <1>1, <1>2

\* The recipients that a publisher copies: the channel's, and each matching pattern's.
LEMMA SnapshotIs ==
  ASSUME BrokerTypeOK, NEW ch \in Channels
  PROVE  /\ Snapshot(ch) \in Seq(Groups)
         /\ \A i \in DOMAIN Snapshot(ch) :
              \/ Snapshot(ch)[i].to = {} \/ Snapshot(ch)[i].to = channels[ch]
              \/ \E p \in PatternSet : Snapshot(ch)[i].to = patterns[p]
         /\ \E i \in DOMAIN Snapshot(ch) : Snapshot(ch)[i].to = channels[ch]
         /\ \A p \in PatternSet : <<p, ch>> \in Matches =>
              \E i \in DOMAIN Snapshot(ch) : Snapshot(ch)[i].to = patterns[p]
<1> DEFINE g == [pattern |-> "", to |-> channels[ch]]
           To(i) == IF <<Patterns[i], ch>> \in Matches THEN patterns[Patterns[i]] ELSE {}
           z == [i \in DOMAIN Patterns |-> [pattern |-> Patterns[i], to |-> To(i)]]
           a == <<g>>
<1>1. /\ channels[ch] \in SUBSET Clients
      /\ \A p \in PatternSet : patterns[p] \in SUBSET Clients
  BY DEF BrokerTypeOK, PatternSet
<1>2. Patterns \in Seq(PatternSet) /\ PatternSet = {Patterns[i] : i \in DOMAIN Patterns}
  BY BrokerAssumption DEF PatternSet, ToSet
<1>3. Len(Patterns) \in Nat /\ DOMAIN Patterns = 1..Len(Patterns)
  BY <1>2
<1>4. ASSUME NEW i \in DOMAIN Patterns PROVE Patterns[i] \in PatternSet /\ To(i) \in SUBSET Clients
  <2>1. Patterns[i] \in PatternSet
    BY <1>2
  <2> QED BY <1>1, <2>1
<1>5. z \in Seq(Groups) /\ Len(z) = Len(Patterns)
  <2>1. \A i \in 1..Len(Patterns) : z[i] \in Groups
    BY <1>3, <1>4 DEF Groups
  <2>2. z = [i \in 1..Len(Patterns) |-> z[i]]
    BY <1>3
  <2> HIDE DEF z
  <2> QED BY <1>3, <2>1, <2>2
<1>6. a \in Seq(Groups) /\ Len(a) = 1 /\ a[1] = g
  <2>1. g \in Groups
    BY <1>1 DEF Groups
  <2> HIDE DEF g
  <2> QED BY <2>1
<1>7. Snapshot(ch) = a \o z
  BY DEF Snapshot
<1>8. \A i \in DOMAIN Patterns : z[i].to = To(i)
  OBVIOUS
<1>9. g.to = channels[ch]
  OBVIOUS
<1> DEFINE sn == Snapshot(ch)
<1> HIDE DEF a, z, g, To
<1>10. /\ sn \in Seq(Groups) /\ DOMAIN sn = 1..(1 + Len(Patterns)) /\ sn[1] = g
       /\ \A i \in 1..Len(Patterns) : sn[1 + i] = z[i]
  <2>1. /\ a \o z \in Seq(Groups) /\ \A i \in 1..Len(a) : (a \o z)[i] = a[i]
        /\ \A i \in 1..Len(z) : (a \o z)[Len(a) + i] = z[i]
        /\ DOMAIN (a \o z) = 1..(Len(a) + Len(z))
    BY <1>5, <1>6, ConcatAt
  <2> QED BY <1>5, <1>6, <1>7, <2>1
<1> HIDE DEF sn
<1>11. ASSUME NEW i \in DOMAIN sn
       PROVE  \/ sn[i].to = {} \/ sn[i].to = channels[ch]
              \/ \E p \in PatternSet : sn[i].to = patterns[p]
  <2>1. CASE i = 1
    BY <1>9, <1>10, <2>1
  <2>2. CASE i # 1
    <3>1. i - 1 \in DOMAIN Patterns /\ 1 + (i - 1) = i
      BY <1>3, <1>10, <2>2
    <3>2. sn[i].to = To(i - 1)
      BY <1>3, <1>8, <1>10, <3>1
    <3> QED BY <1>4, <3>1, <3>2 DEF To
  <2> QED BY <2>1, <2>2
<1>12. 1 \in DOMAIN sn /\ sn[1].to = channels[ch]
  BY <1>3, <1>9, <1>10
<1>13. ASSUME NEW p \in PatternSet, <<p, ch>> \in Matches
       PROVE  \E i \in DOMAIN sn : sn[i].to = patterns[p]
  <2>1. PICK i \in DOMAIN Patterns : Patterns[i] = p
    BY <1>2
  <2>2. 1 + i \in DOMAIN sn /\ sn[1 + i].to = To(i)
    BY <1>3, <1>8, <1>10
  <2> QED BY <1>13, <2>1, <2>2 DEF To
<1> QED BY <1>10, <1>11, <1>12, <1>13 DEF sn

\* A client that has read the ack of a subscription, and ends it not, has it.
LEMMA AckedIs ==
  ASSUME NEW r \in Clients, Well(case.prog[r], r, st[r], q[r], wire[r], issued[r]), NEW name,
         NEW on \in Acks, NEW off \in Acks, Acked(r, name, on, off), NEW set,
         AckOk(st[r], issued[r], on, off, set)
  PROVE  name \in set
<1>1. PICK i \in DOMAIN wire[r] :
        /\ wire[r][i].kind = on /\ wire[r][i].what = name
        /\ \A j \in (i + 1)..Len(issued[r]) :
             /\ issued[r][j].kind = off => issued[r][j].what # name
             /\ issued[r][j].kind = "reply" => issued[r][j].what # "reset"
  BY DEF Acked
<1>2. st[r].shut = "" /\ st[r].cmd.name \notin {off, "reset"}
  BY DEF Acked
<1>3. wire[r] \in Seq(Frames) /\ issued[r] \in Seq(Frames) /\ IsPrefix(wire[r], issued[r]) /\ Said(r, st[r])
  BY WellIs DEF Stream
<1>4. i \in DOMAIN issued[r] /\ issued[r][i] = wire[r][i]
  BY <1>3, PrefixAt
<1>5. Open(issued[r], i, on, off)
  <2>1. \A j \in DOMAIN issued[r] : j > i => j \in (i + 1)..Len(issued[r])
    BY <1>3, <1>4
  <2> QED BY <1>1, <1>4, <2>1 DEF Open, Ends, IsReply
<1>6. \A j \in DOMAIN st[r].out : ~ Ends(st[r].out[j], name, off)
  BY <1>2, <1>3 DEF Said, Ends, IsReply, Acks
<1>7. issued[r][i].what = name
  BY <1>1, <1>4
<1> HIDE DEF Open, Ends
<1> QED BY <1>2, <1>4, <1>5, <1>6, <1>7 DEF AckOk

\* Whoever is entitled to a message is among the recipients.
LEMMA EntitledIs ==
  ASSUME IInv, NEW ch \in Channels, NEW r \in Entitled(ch)
  PROVE  r \in Clients /\ \E i \in DOMAIN Snapshot(ch) : r \in Snapshot(ch)[i].to
<1>1. r \in Clients
  BY DEF Entitled
<1>2. Well(case.prog[r], r, st[r], q[r], wire[r], issued[r])
  BY <1>1, Before
<1>3. /\ AckOk(st[r], issued[r], "subscribe", "unsubscribe", st[r].subs)
      /\ AckOk(st[r], issued[r], "psubscribe", "punsubscribe", st[r].psubs)
  BY <1>2, WellIs
<1>4. /\ BrokerTypeOK
      /\ \A c \in Channels : r \in channels[c] <=> c \in st[r].subs
      /\ \A p \in PatternSet : r \in patterns[p] <=> p \in st[r].psubs
  BY <1>1 DEF IInv, Typed, Registered
<1>5. CASE Acked(r, ch, "subscribe", "unsubscribe")
  <2>1. ch \in st[r].subs
    <3> HIDE DEF Well, Acked, AckOk
    <3> QED BY <1>1, <1>2, <1>3, <1>5, AckedIs DEF Acks
  <2> QED BY <1>1, <1>4, <2>1, SnapshotIs
<1>6. CASE \E p \in PatternSet : <<p, ch>> \in Matches /\ Acked(r, p, "psubscribe", "punsubscribe")
  <2>1. PICK p \in PatternSet : <<p, ch>> \in Matches /\ Acked(r, p, "psubscribe", "punsubscribe")
    BY <1>6
  <2>2. p \in st[r].psubs
    <3> HIDE DEF Well, Acked, AckOk
    <3> QED BY <1>1, <1>2, <1>3, <2>1, AckedIs DEF Acks
  <2>3. r \in patterns[p]
    BY <1>4, <2>2
  <2>4. PICK i \in DOMAIN Snapshot(ch) : Snapshot(ch)[i].to = patterns[p]
    BY <1>4, <2>1, SnapshotIs
  <2> QED BY <1>1, <2>3, <2>4
<1> QED BY <1>5, <1>6 DEF Entitled, PatternSet

LEMMA PublishInv ==
  ASSUME IInv, NEW c \in Clients, Publish(c)
  PROVE  IInv'
<1> DEFINE s == st[c]
           ch == Head(s.pubs)
           sn == Snapshot(ch)
           v == Serving(s, sn)
           t == [v EXCEPT !.must = Entitled(ch)]
<1>1. /\ Maps /\ Well(case.prog[c], c, s, q[c], wire[c], issued[c]) /\ s \in States
      /\ Wells /\ BrokerTypeOK /\ Registered /\ Pushing /\ Entitling
  BY Before, WellsAre DEF IInv
<1>2. s.pc = "publish" /\ s.pubs # <<>> /\ UNCHANGED <<case, q, wire, issued, broker>>
  BY DEF Publish
<1>3. st' = [st EXCEPT ![c] = t]
  BY DEF Publish
<1>4. ch \in Channels
  <2>1. s.pubs \in Seq(Channels)
    BY <1>1 DEF States
  <2> QED BY <1>2, <2>1
<1> HIDE DEF ch
<1>5. /\ sn \in Seq(Groups)
      /\ \A i \in DOMAIN sn :
           \/ sn[i].to = {} \/ sn[i].to = channels[ch]
           \/ \E p \in PatternSet : sn[i].to = patterns[p]
  BY <1>1, <1>4, SnapshotIs
<1>6. \A r \in Entitled(ch) : r \in Clients /\ \E i \in DOMAIN sn : r \in sn[i].to
  BY <1>4, EntitledIs
<1> HIDE DEF sn
<1>7. /\ Served(s, v)
      /\ \/ v.pend = sn
         \/ v.pend = <<>> /\ \A i \in DOMAIN sn : sn[i].to = {}
  BY <1>1, <1>2, <1>5, ServingIs
<1> HIDE DEF v
<1>8. v \in States
  BY <1>7 DEF Served
<1>9. /\ t \in States /\ t.k = v.k /\ t.pc = v.pc /\ t.cmd = v.cmd /\ t.todo = v.todo /\ t.out = v.out
      /\ t.subs = v.subs /\ t.psubs = v.psubs /\ t.mon = v.mon /\ t.push = v.push
      /\ t.quit = v.quit /\ t.wr = v.wr /\ t.w = v.w /\ t.batch = v.batch /\ t.shut = v.shut
      /\ t.pend = v.pend /\ t.pubs = v.pubs /\ t.must = Entitled(ch)
  <2>1. Entitled(ch) \in SUBSET Clients
    BY DEF Entitled
  <2> HIDE DEF Entitled
  <2> QED BY <1>8, <2>1 DEF States
<1> HIDE DEF t
<1>10. Served(s, t)
  BY <1>7, <1>9 DEF Served
<1>11. Well(case.prog[c], c, t, q[c], wire[c], issued[c])
  BY <1>1, <1>2, <1>10, ServedWell
<1>12. Apart(c) /\ st'[c] = t /\ q'[c] = q[c] /\ wire'[c] = wire[c] /\ issued'[c] = issued[c]
  <2>1. /\ Puts(st, st', c, t) /\ Puts(q, q', c, q[c]) /\ Puts(wire, wire', c, wire[c])
        /\ Puts(issued, issued', c, issued[c]) /\ case' = case
    BY <1>2, <1>3 DEF Puts
  <2> HIDE DEF Puts, Maps
  <2> QED BY <1>1, <2>1, ApartIs
<1>13. \A x \in Clients \ {c} : st'[x] = st[x]
  BY <1>12 DEF Apart
<1>14. t.subs = s.subs /\ t.psubs = s.psubs /\ t.push = s.push /\ t.shut = s.shut /\ t.k = s.k
  BY <1>10 DEF Served
<1>15. \A x \in Clients : Reached(st[x], st'[x], issued[x], issued'[x])
  <2> SUFFICES ASSUME NEW x \in Clients PROVE Reached(st[x], st'[x], issued[x], issued'[x])
    OBVIOUS
  <2>1. st'[x].push = st[x].push /\ st'[x].shut = st[x].shut /\ issued' = issued
    BY <1>2, <1>12, <1>13, <1>14
  <2> QED BY <2>1, KeepsAll DEF Reached
<1>16. \A x \in Clients \ {c} : Stays(st[x], st'[x])
  BY <1>13, KeepsAll DEF Stays
<1>17. \A i \in DOMAIN st'[c].pend : \A r \in st'[c].pend[i].to : r \in Clients /\ st[r].push
  <2> SUFFICES ASSUME NEW i \in DOMAIN t.pend, NEW r \in t.pend[i].to PROVE r \in Clients /\ st[r].push
    BY <1>12
  <2>1. t.pend = sn
    <3>1. DOMAIN <<>> = {}
      OBVIOUS
    <3>2. t.pend # <<>>
      BY <3>1
    <3> QED BY <1>7, <1>9, <3>2
  <2>2. r \in channels[ch] \/ \E p \in PatternSet : r \in patterns[p]
    BY <1>5, <2>1
  <2>3. r \in Clients
    BY <1>1, <1>4, <2>2 DEF BrokerTypeOK, PatternSet
  <2>4. st[r].subs # {} \/ st[r].psubs # {}
    BY <1>1, <1>4, <2>2, <2>3 DEF Registered
  <2>5. Place(case.prog[r], st[r])
    BY <2>3, Before, WellIs
  <2> QED BY <2>3, <2>4, <2>5 DEF Place
<1>18. \A r \in st'[c].must : Owed(c, r)'
  <2> SUFFICES ASSUME NEW r \in Entitled(ch) PROVE Owed(c, r)'
    BY <1>9, <1>12
  <2>1. PICK i \in DOMAIN sn : r \in sn[i].to
    BY <1>6
  <2>2. t.pend = sn
    BY <1>7, <1>9, <2>1
  <2>3. \E j \in DOMAIN st'[c].pend : r \in st'[c].pend[j].to
    BY <1>12, <2>1, <2>2
  <2> QED BY <2>3 DEF Owed
<1>19. Pushing' /\ Entitling'
  BY <1>1, <1>15, <1>16, <1>17, <1>18, TurnInv
<1>20. \A x \in Clients : /\ Well(case.prog[x], x, st'[x], q'[x], wire'[x], issued'[x])
                          /\ st'[x].subs = st[x].subs /\ st'[x].psubs = st[x].psubs
  <2> SUFFICES ASSUME NEW x \in Clients
               PROVE  /\ Well(case.prog[x], x, st'[x], q'[x], wire'[x], issued'[x])
                      /\ st'[x].subs = st[x].subs /\ st'[x].psubs = st[x].psubs
    OBVIOUS
  <2>1. CASE x = c
    BY <1>11, <1>12, <1>14, <2>1
  <2>2. CASE x # c
    <3>1. Well(case.prog[x], x, st[x], q[x], wire[x], issued[x])
      BY <1>1 DEF Wells
    <3>2. st'[x] = st[x] /\ q' = q /\ wire' = wire /\ issued' = issued
      BY <1>2, <1>13, <2>2
    <3> QED BY <3>1, <3>2
  <2> QED BY <2>1, <2>2
<1>21. Maps' /\ case' = case
  BY <1>12 DEF Apart
<1> HIDE DEF Well, IInv, Maps, Pushing, Entitling
<1> QED BY <1>2, <1>19, <1>20, <1>21, AllInv

\* What publisher s has left when r was served, and t is the publisher then.
Left(s, t, r) ==
  /\ t.must = s.must /\ t.k = s.k /\ Keeps(s.out, t.out)
  /\ \A j \in DOMAIN t.pend : j \in DOMAIN s.pend /\ t.pend[j].to \subseteq s.pend[j].to
  /\ \A j \in DOMAIN s.pend : \A x \in s.pend[j].to :
       x = r \/ \E h \in DOMAIN t.pend : x \in t.pend[h].to

LEMMA RestIs ==
  ASSUME NEW s \in States, s.pubs # <<>>, NEW i \in DOMAIN s.pend, NEW r
  PROVE  /\ Served(s, Rest(s, i, r)) /\ Left(s, Rest(s, i, r), r)
         /\ s.pend[i] \in Groups
<1> DEFINE g == s.pend[i]
           groups == [s.pend EXCEPT ![i].to = @ \ {r}]
           t == Rest(s, i, r)
<1>1. s.pend \in Seq(Groups)
  BY DEF States
<1>2. g \in Groups /\ DOMAIN s.pend = 1..Len(s.pend) /\ Len(s.pend) \in Nat
  <2> DEFINE G == Groups
  <2> HIDE DEF G
  <2>1. s.pend \in Seq(G)
    BY <1>1 DEF G
  <2>2. s.pend[i] \in G /\ DOMAIN s.pend = 1..Len(s.pend) /\ Len(s.pend) \in Nat
    BY <2>1
  <2> QED BY <2>2 DEF G
<1>3. [g EXCEPT !.to = @ \ {r}] \in Groups /\ [g EXCEPT !.to = @ \ {r}].to = g.to \ {r}
  BY <1>2 DEF Groups
<1>4. /\ groups \in Seq(Groups) /\ DOMAIN groups = DOMAIN s.pend
      /\ groups[i].to = g.to \ {r} /\ \A j \in DOMAIN s.pend : j # i => groups[j] = s.pend[j]
  <2> DEFINE h == [g EXCEPT !.to = @ \ {r}]
             G == Groups
  <2>1. groups = [s.pend EXCEPT ![i] = h]
    OBVIOUS
  <2>2. h \in G /\ s.pend \in Seq(G) /\ h.to = g.to \ {r}
    BY <1>1, <1>3
  <2> HIDE DEF h, G, groups, g
  <2>3. groups \in Seq(G) /\ DOMAIN groups = DOMAIN s.pend /\ groups[i] = h
        /\ \A j \in DOMAIN s.pend : j # i => groups[j] = s.pend[j]
    BY <2>1, <2>2
  <2> QED BY <2>2, <2>3 DEF G
<1> HIDE DEF groups
<1>5. t = Serving(s, groups)
  BY DEF Rest, groups
<1> HIDE DEF t
<1>6. /\ Served(s, t) /\ t.must = s.must
      /\ \/ t.pend = groups
         \/ t.pend = <<>> /\ \A j \in DOMAIN groups : groups[j].to = {}
  BY <1>4, <1>5, ServingIs
<1>7. t.k = s.k /\ t.out = s.out /\ Keeps(s.out, t.out)
  BY <1>6, KeepsAll DEF Served
<1>8. ASSUME NEW j \in DOMAIN t.pend PROVE j \in DOMAIN s.pend /\ t.pend[j].to \subseteq s.pend[j].to
  <2>1. DOMAIN <<>> = {}
    OBVIOUS
  <2>2. t.pend = groups
    BY <1>6, <2>1
  <2>3. CASE j = i
    BY <1>4, <2>2, <2>3
  <2>4. CASE j # i
    BY <1>4, <2>2, <2>4
  <2> QED BY <2>3, <2>4
<1>9. ASSUME NEW j \in DOMAIN s.pend, NEW x \in s.pend[j].to, x # r
      PROVE  \E h \in DOMAIN t.pend : x \in t.pend[h].to
  <2>1. x \in groups[j].to /\ j \in DOMAIN groups
    BY <1>4, <1>9
  <2>2. t.pend = groups
    BY <1>6, <2>1
  <2> QED BY <2>1, <2>2
<1>10. Left(s, t, r)
  BY <1>6, <1>7, <1>8, <1>9 DEF Left
<1> QED BY <1>2, <1>6, <1>10 DEF t

\* Publisher c has served r.
LEMMA ServedInv ==
  ASSUME IInv, NEW c \in Clients, NEW r \in Clients, Maps', case' = case, UNCHANGED broker,
         \A x \in Clients : /\ Well(case.prog[x], x, st'[x], q'[x], wire'[x], issued'[x])
                            /\ st'[x].subs = st[x].subs /\ st'[x].psubs = st[x].psubs,
         \A x \in Clients : Reached(st[x], st'[x], issued[x], issued'[x]),
         \A x \in Clients \ {c} : Stays(st[x], st'[x]), Left(st[c], st'[c], r),
         \/ st'[r].shut # ""
         \/ \E j \in DOMAIN issued'[r] : issued'[r][j].of = <<c, st[c].k>>
         \/ r = c /\ \E j \in DOMAIN st'[c].out : st'[c].out[j].of = <<c, st[c].k>>
  PROVE  IInv'
<1>1. Wells /\ Pushing /\ Entitling
  BY WellsAre DEF IInv
<1>2. st[c].must \subseteq Clients /\ \A i \in DOMAIN st[c].pend : st[c].pend[i].to \subseteq Clients
  BY <1>1, SomeoneOf
<1>3. \A i \in DOMAIN st'[c].pend : \A x \in st'[c].pend[i].to : x \in Clients /\ st[x].push
  BY <1>1, <1>2 DEF Left, Pushing
<1>4. ASSUME NEW x \in st'[c].must PROVE Owed(c, x)'
  <2>1. x \in Clients /\ Owed(c, x)
    BY <1>1, <1>2 DEF Left, Entitling
  <2>2. (st[x].shut # "" => st'[x].shut # "") /\ Keeps(issued[x], issued'[x])
    BY <2>1 DEF Reached
  <2>3. /\ st'[c].k = st[c].k /\ Keeps(st[c].out, st'[c].out)
        /\ \A i \in DOMAIN st[c].pend : x \in st[c].pend[i].to =>
             x = r \/ \E j \in DOMAIN st'[c].pend : x \in st'[c].pend[j].to
    BY DEF Left
  <2>4. \A i \in DOMAIN st[c].pend : x \in st[c].pend[i].to =>
           \/ \E j \in DOMAIN st'[c].pend : x \in st'[c].pend[j].to
           \/ st'[x].shut # ""
           \/ \E j \in DOMAIN issued'[x] : issued'[x][j].of = <<c, st[c].k>>
           \/ x = c /\ \E j \in DOMAIN st'[c].out : st'[c].out[j].of = <<c, st[c].k>>
    BY <2>3
  <2> HIDE DEF Owed, Keeps
  <2> QED BY <2>1, <2>2, <2>3, <2>4, OwedStill
<1> HIDE DEF Well, Reached, Stays, Left, Maps, Pushing, Entitling, IInv, Owed
<1>5. Pushing' /\ Entitling'
  BY <1>1, <1>3, <1>4, TurnInv
<1> QED BY <1>5, AllInv

\* The publisher's own copy waits behind its reply ...
LEMMA SelfInv ==
  ASSUME IInv, NEW c \in Clients, st[c].pc = "publish", st[c].pubs # <<>>, NEW i \in DOMAIN st[c].pend,
         NEW f \in Frames, f.of = <<c, st[c].k>>, f.kind \in {"message", "pmessage"},
         st' = [st EXCEPT ![c] = [Rest(st[c], i, c) EXCEPT !.out = Append(@, f)]],
         UNCHANGED <<case, q, wire, issued, broker>>
  PROVE  IInv'
<1> DEFINE s == st[c]
           v == Rest(s, i, c)
           t == [v EXCEPT !.out = Append(@, f)]
<1>1. /\ Maps /\ Wells /\ Well(case.prog[c], c, s, q[c], wire[c], issued[c]) /\ s \in States
  BY Before, WellsAre DEF IInv
<1>2. Served(s, v) /\ Left(s, v, c)
  BY <1>1, RestIs
<1> HIDE DEF v
<1>3. v \in States /\ v.pc = "publish" /\ v.k = s.k
  BY <1>2 DEF Served
<1>4. Well(case.prog[c], c, v, q[c], wire[c], issued[c])
  <2> HIDE DEF Well, Served
  <2> QED BY <1>1, <1>2, ServedWell
<1>5. Well(case.prog[c], c, t, q[c], wire[c], issued[c])
  <2> HIDE DEF Well
  <2> QED BY <1>3, <1>4, OwnMessageWell
<1>6. /\ t.k = v.k /\ t.must = v.must /\ t.pend = v.pend /\ t.push = v.push /\ t.shut = v.shut
      /\ t.subs = v.subs /\ t.psubs = v.psubs /\ t.out = Append(v.out, f) /\ v.out \in Seq(Frames)
  BY <1>3 DEF States
<1> HIDE DEF t
<1>7. Apart(c) /\ st'[c] = t /\ q'[c] = q[c] /\ wire'[c] = wire[c] /\ issued'[c] = issued[c]
  <2>1. /\ Puts(st, st', c, t) /\ Puts(q, q', c, q[c]) /\ Puts(wire, wire', c, wire[c])
        /\ Puts(issued, issued', c, issued[c]) /\ case' = case
    BY DEF Puts, t, v
  <2> HIDE DEF Puts, Maps
  <2> QED BY <1>1, <2>1, ApartIs
<1>8. \A x \in Clients \ {c} : st'[x] = st[x]
  BY <1>7 DEF Apart
<1>9. /\ t.subs = s.subs /\ t.psubs = s.psubs /\ t.push = s.push /\ t.shut = s.shut
      /\ v.out = s.out
  BY <1>2, <1>6 DEF Served
<1>10. Extends(v.out, f, t.out, TRUE)
  <2>1. Grown(v.out, f, t.out, TRUE)
    BY <1>6 DEF Grown
  <2> QED BY <1>6, <2>1, GrowsKeep
<1>11. Keeps(v.out, t.out) /\ \E j \in DOMAIN t.out : t.out[j] = f
  <2>1. Keeps(v.out, t.out)
    BY <1>10 DEF Extends
  <2>2. Len(t.out) \in DOMAIN t.out /\ t.out[Len(t.out)] = f
    BY <1>6, AppendAt
  <2> QED BY <2>1, <2>2
<1>12. Left(s, t, c)
  BY <1>2, <1>6, <1>9, <1>11 DEF Left
<1>13. \A x \in Clients : Reached(st[x], st'[x], issued[x], issued'[x])
  <2> SUFFICES ASSUME NEW x \in Clients PROVE Reached(st[x], st'[x], issued[x], issued'[x])
    OBVIOUS
  <2>1. st'[x].push = st[x].push /\ st'[x].shut = st[x].shut /\ issued' = issued
    BY <1>7, <1>8, <1>9
  <2> QED BY <2>1, KeepsAll DEF Reached
<1>14. \A x \in Clients \ {c} : Stays(st[x], st'[x])
  BY <1>8, KeepsAll DEF Stays
<1>15. \A x \in Clients : /\ Well(case.prog[x], x, st'[x], q'[x], wire'[x], issued'[x])
                          /\ st'[x].subs = st[x].subs /\ st'[x].psubs = st[x].psubs
  <2> SUFFICES ASSUME NEW x \in Clients
               PROVE  /\ Well(case.prog[x], x, st'[x], q'[x], wire'[x], issued'[x])
                      /\ st'[x].subs = st[x].subs /\ st'[x].psubs = st[x].psubs
    OBVIOUS
  <2>1. CASE x = c
    BY <1>5, <1>7, <1>9, <2>1
  <2>2. CASE x # c
    <3>1. Well(case.prog[x], x, st[x], q[x], wire[x], issued[x])
      BY <1>1 DEF Wells
    <3>2. st'[x] = st[x] /\ q' = q /\ wire' = wire /\ issued' = issued
      BY <1>8, <2>2
    <3> QED BY <3>1, <3>2
  <2> QED BY <2>1, <2>2
<1>16. Maps' /\ case' = case /\ UNCHANGED broker
  BY <1>7 DEF Apart
<1>17. \E j \in DOMAIN st'[c].out : st'[c].out[j].of = <<c, st[c].k>>
  BY <1>7, <1>11
<1>18. Left(st[c], st'[c], c)
  BY <1>7, <1>12
<1> HIDE DEF s, Well, Reached, Stays, Left, Maps, IInv
<1> QED BY <1>13, <1>14, <1>15, <1>16, <1>17, <1>18, ServedInv

\* Three maps that change at r.
LEMMA PutsAll ==
  ASSUME NEW r \in Clients, NEW z, NEW z2, NEW t, NEW o, NEW o2, NEW u, NEW l, NEW l2, NEW v,
         IsMap(z), IsMap(o), IsMap(l), Puts(z, z2, r, t), Puts(o, o2, r, u), Puts(l, l2, r, v)
  PROVE  /\ IsMap(z2) /\ IsMap(o2) /\ IsMap(l2)
         /\ z2[r] = t /\ o2[r] = u /\ l2[r] = v
         /\ \A x \in Clients \ {r} : z2[x] = z[x] /\ o2[x] = o[x] /\ l2[x] = l[x]
<1>1. IsMap(z2) /\ z2[r] = t /\ \A x \in Clients \ {r} : z2[x] = z[x]
  BY PutsIs
<1>2. IsMap(o2) /\ o2[r] = u /\ \A x \in Clients \ {r} : o2[x] = o[x]
  BY PutsIs
<1>3. IsMap(l2) /\ l2[r] = v /\ \A x \in Clients \ {r} : l2[x] = l[x]
  BY PutsIs
<1> QED BY <1>1, <1>2, <1>3

\* ... and the copy of another connection goes to its queue.
LEMMA OtherInv ==
  ASSUME IInv, NEW c \in Clients, st[c].pc = "publish", st[c].pubs # <<>>, NEW i \in DOMAIN st[c].pend,
         NEW r \in st[c].pend[i].to,
         NEW f \in Frames, f.of = <<c, st[c].k>>, f.kind \in {"message", "pmessage"},
         ~ Own(case.prog[r], r, f),
         st' = Closing([st EXCEPT ![c] = Rest(st[c], i, r)], r, f),
         q' = [q EXCEPT ![r] = Enqueue(@, f, Cost(f))],
         issued' = IF Hit(r, f) THEN [issued EXCEPT ![r] = Append(@, f)] ELSE issued,
         UNCHANGED <<case, wire, broker>>
  PROVE  IInv'
<1> DEFINE s == st[c]
           v == Rest(s, i, r)
           z == [st EXCEPT ![c] = v]
           n == Cost(f)
           u == z[r]
           t == IF Hit(r, f) THEN u ELSE Shut(u, "slow")
           qc == Enqueue(q[r], f, n)
           is == IF Hit(r, f) THEN Append(issued[r], f) ELSE issued[r]
<1>1. /\ Maps /\ Wells /\ Well(case.prog[c], c, s, q[c], wire[c], issued[c]) /\ s \in States
  BY Before, WellsAre DEF IInv
<1>2. r \in Clients /\ st[r].push
  BY <1>1, SomeoneOf DEF IInv, Pushing
<1>3. Served(s, v) /\ Left(s, v, r)
  BY <1>1, RestIs
<1> HIDE DEF v
<1>4. v \in States /\ v.pc = "publish" /\ v.k = s.k
  BY <1>3 DEF Served
<1>5. Well(case.prog[c], c, v, q[c], wire[c], issued[c])
  <2> HIDE DEF Well, Served
  <2> QED BY <1>1, <1>3, ServedWell
<1>6. IsMap(z) /\ z[c] = v /\ \A x \in Clients \ {c} : z[x] = st[x]
  <2>1. Puts(st, z, c, v)
    BY DEF Puts
  <2> HIDE DEF z
  <2> QED BY <1>1, <2>1, PutsIs DEF Maps
<1>7. st' = Closing(z, r, f)
  BY DEF v
<1> HIDE DEF z
<1>8. \A x \in Clients : Well(case.prog[x], x, z[x], q[x], wire[x], issued[x])
  <2> HIDE DEF Well
  <2> QED BY <1>1, <1>5, <1>6 DEF Wells
<1>9. \A x \in Clients : /\ z[x].push = st[x].push /\ z[x].shut = st[x].shut
                         /\ z[x].subs = st[x].subs /\ z[x].psubs = st[x].psubs
  BY <1>3, <1>6 DEF Served
<1>10. n \in Nat
  BY CostType
<1>11. Well(case.prog[r], r, t, qc, wire[r], is)
  <2>1. /\ Accepts(q[r], n) => Well(case.prog[r], r, u, qc, wire[r], Append(issued[r], f))
        /\ ~ Accepts(q[r], n) => Well(case.prog[r], r, Shut(u, "slow"), qc, wire[r], issued[r])
    <3>1. Well(case.prog[r], r, u, q[r], wire[r], issued[r]) /\ u.push
      BY <1>2, <1>8, <1>9
    <3> HIDE DEF u, n, Well, Accepts, Enqueue, Shut, Own
    <3> QED BY <1>2, <1>10, <3>1, OfferWell
  <2>2. Hit(r, f) <=> Accepts(q[r], n)
    BY DEF Hit
  <2> HIDE DEF Hit, Accepts, n, u, Well
  <2> QED BY <2>1, <2>2
<1>12. /\ t.push = u.push /\ t.subs = u.subs /\ t.psubs = u.psubs /\ Alike(u, t)
  <2>1. u \in States
    BY <1>2, <1>8 DEF Well
  <2> HIDE DEF u, Hit
  <2>2. Alike(u, Shut(u, "slow")) /\ Alike(u, u)
    BY <2>1, ShutAlike DEF Shuts, Alike
  <2>3. Alike(u, t)
    BY <2>2
  <2> QED BY <2>3 DEF Alike
<1>13. /\ IsMap(st') /\ IsMap(q') /\ IsMap(issued')
       /\ st'[r] = t /\ q'[r] = qc /\ issued'[r] = is
       /\ \A x \in Clients \ {r} : st'[x] = z[x] /\ q'[x] = q[x] /\ issued'[x] = issued[x]
  <2>1. Puts(z, st', r, t)
    BY <1>7 DEF Closing, Puts
  <2>2. Puts(q, q', r, qc)
    BY DEF Puts
  <2>3. Puts(issued, issued', r, is)
    BY DEF Puts
  <2>4. IsMap(q) /\ IsMap(issued)
    BY <1>1 DEF Maps
  <2> HIDE DEF t, qc, is
  <2> QED BY ONLY <1>2, <1>6, <2>1, <2>2, <2>3, <2>4, PutsAll
<1>16. Maps'
  BY <1>1, <1>13 DEF Maps
<1>17. Keeps(issued[r], is)
  <2>1. issued[r] \in Seq(Frames) /\ Grown(issued[r], f, is, Hit(r, f))
    BY <1>2, <1>8 DEF Well, Grown
  <2> HIDE DEF is
  <2> QED BY <2>1, GrowsKeep DEF Extends
<1> HIDE DEF t, qc, is
<1>18. ASSUME NEW x \in Clients
       PROVE  /\ Well(case.prog[x], x, st'[x], q'[x], wire'[x], issued'[x])
              /\ Alike(z[x], st'[x]) /\ Keeps(issued[x], issued'[x])
  <2>1. CASE x = r
    BY <1>11, <1>12, <1>13, <1>17, <2>1
  <2>2. CASE x # r
    <3>1. Alike(z[x], z[x]) /\ Keeps(issued[x], issued[x])
      BY KeepsAll DEF Alike
    <3>2. st'[x] = z[x] /\ q'[x] = q[x] /\ issued'[x] = issued[x] /\ wire' = wire
      BY <1>13, <2>2
    <3> HIDE DEF Well, Alike, Keeps
    <3> QED BY <1>8, <3>1, <3>2
  <2> QED BY <2>1, <2>2
<1>19. \A x \in Clients : /\ Well(case.prog[x], x, st'[x], q'[x], wire'[x], issued'[x])
                          /\ st'[x].subs = st[x].subs /\ st'[x].psubs = st[x].psubs
  <2> SUFFICES ASSUME NEW x \in Clients
               PROVE  /\ Well(case.prog[x], x, st'[x], q'[x], wire'[x], issued'[x])
                      /\ st'[x].subs = st[x].subs /\ st'[x].psubs = st[x].psubs
    OBVIOUS
  <2>1. st'[x].subs = z[x].subs /\ st'[x].psubs = z[x].psubs
    BY <1>18 DEF Alike
  <2> QED BY <1>9, <1>18, <2>1
<1>20. \A x \in Clients : Reached(st[x], st'[x], issued[x], issued'[x])
  <2> SUFFICES ASSUME NEW x \in Clients PROVE Reached(st[x], st'[x], issued[x], issued'[x])
    OBVIOUS
  <2>1. st'[x].push = z[x].push /\ (z[x].shut # "" => st'[x].shut # "")
    BY <1>18 DEF Alike
  <2>2. z[x].push = st[x].push /\ z[x].shut = st[x].shut /\ Keeps(issued[x], issued'[x])
    BY <1>9, <1>18
  <2> QED BY <2>1, <2>2 DEF Reached
<1>21. \A x \in Clients \ {c} : Stays(st[x], st'[x])
  <2> SUFFICES ASSUME NEW x \in Clients \ {c} PROVE Stays(st[x], st'[x])
    OBVIOUS
  <2>1. Alike(st[x], st'[x])
    BY <1>6, <1>18
  <2> QED BY <2>1, KeepsAll DEF Alike, Stays
<1>22. Left(st[c], st'[c], r)
  <2>1. Alike(v, st'[c])
    BY <1>6, <1>18
  <2>2. /\ st'[c].must = v.must /\ st'[c].k = v.k /\ st'[c].out = v.out /\ st'[c].pend = v.pend
    BY <2>1 DEF Alike
  <2> QED BY <1>3, <2>2 DEF Left
<1>23. \/ st'[r].shut # ""
       \/ \E j \in DOMAIN issued'[r] : issued'[r][j].of = <<c, st[c].k>>
  <2>1. CASE Hit(r, f)
    <3>1. issued'[r] = Append(issued[r], f) /\ issued[r] \in Seq(Frames)
      BY <1>2, <1>8, <1>13, <2>1 DEF is, Well
    <3>2. Len(issued'[r]) \in DOMAIN issued'[r] /\ issued'[r][Len(issued'[r])] = f
      BY <3>1, AppendAt
    <3> QED BY <3>2
  <2>2. CASE ~ Hit(r, f)
    <3>1. st'[r] = Shut(u, "slow") /\ u \in States
      BY <1>2, <1>8, <1>13, <2>2 DEF t, Well
    <3> QED BY <3>1 DEF Shut, States
  <2> QED BY <2>1, <2>2
<1> HIDE DEF s, Well, Reached, Stays, Left, Maps, IInv, u, n, Hit
<1> QED BY <1>2, <1>16, <1>19, <1>20, <1>21, <1>22, <1>23, ServedInv

LEMMA DeliverInv ==
  ASSUME IInv, NEW c \in Clients, Deliver(c)
  PROVE  IInv'
<1> DEFINE s == st[c]
           Message(g) == IF g.pattern = "" THEN Frame("message", c, Head(s.pubs))
                                           ELSE Frame("pmessage", c, g.pattern)
<1>1. /\ Wells /\ s \in States /\ Place(case.prog[c], s)
  BY Before, WellsAre, WellIs DEF IInv
<1>2. s.pc = "publish" /\ UNCHANGED <<case, wire, broker>>
  BY DEF Deliver
<1>3. PICK i \in DOMAIN s.pend : \E r \in s.pend[i].to :
        IF r = SelfID(c)
          THEN /\ st' = [st EXCEPT ![c] = [Rest(s, i, r) EXCEPT !.out = Append(@, Message(s.pend[i]))]]
               /\ UNCHANGED <<q, issued>>
          ELSE /\ q' = [q EXCEPT ![r] = Enqueue(@, Message(s.pend[i]), Cost(Message(s.pend[i])))]
               /\ st' = Closing([st EXCEPT ![c] = Rest(s, i, r)], r, Message(s.pend[i]))
               /\ issued' = IF Hit(r, Message(s.pend[i]))
                            THEN [issued EXCEPT ![r] = Append(@, Message(s.pend[i]))] ELSE issued
  BY DEF Deliver
<1> DEFINE f == Message(s.pend[i])
<1>4. PICK r \in s.pend[i].to :
        IF r = SelfID(c)
          THEN /\ st' = [st EXCEPT ![c] = [Rest(s, i, r) EXCEPT !.out = Append(@, f)]]
               /\ UNCHANGED <<q, issued>>
          ELSE /\ q' = [q EXCEPT ![r] = Enqueue(@, f, Cost(f))]
               /\ st' = Closing([st EXCEPT ![c] = Rest(s, i, r)], r, f)
               /\ issued' = IF Hit(r, f) THEN [issued EXCEPT ![r] = Append(@, f)] ELSE issued
  BY <1>3
<1>5. r \in Clients
  BY <1>1, SomeoneOf
<1>6. s.pubs # <<>> /\ s.k # 0 /\ s.cmd = case.prog[c][s.k] /\ s.k \in Nat
  <2>1. s.pend # <<>>
    <3>1. DOMAIN <<>> = {}
      OBVIOUS
    <3> QED BY <3>1
  <2>2. s.k \in Nat
    BY <1>1 DEF States
  <2> QED BY <1>1, <1>2, <2>1, <2>2 DEF Place, Resting
<1>7. f \in Frames /\ f.of = <<c, s.k>> /\ f.kind \in {"message", "pmessage"}
  <2>1. s.pend[i].pattern \in PatternSet \cup {""}
    BY <1>1, <1>6, RestIs DEF Groups
  <2>2. Head(s.pubs) \in Channels
    <3>1. s.pubs \in Seq(Channels)
      BY <1>1 DEF States
    <3> QED BY <1>6, <3>1
  <2>3. CASE s.pend[i].pattern = ""
    <3>1. f = [kind |-> "message", of |-> <<c, s.k>>, what |-> Head(s.pubs)]
      BY <2>3 DEF Frame
    <3> HIDE DEF f
    <3>2. f \in Frames /\ f.of = <<c, s.k>> /\ f.kind \in {"message", "pmessage"}
      BY <1>6, <2>2, <3>1 DEF Frames, Kinds
    <3> QED BY <3>2 DEF f
  <2>4. CASE s.pend[i].pattern # ""
    <3>1. f = [kind |-> "pmessage", of |-> <<c, s.k>>, what |-> s.pend[i].pattern]
      BY <2>4 DEF Frame
    <3> HIDE DEF f
    <3>2. f \in Frames /\ f.of = <<c, s.k>> /\ f.kind \in {"message", "pmessage"}
      BY <1>6, <2>1, <2>4, <3>1 DEF Frames, Kinds, PatternSet
    <3> QED BY <3>2 DEF f
  <2> QED BY <2>3, <2>4
<1> HIDE DEF f
<1>8. CASE r = SelfID(c)
  <2>1. r = c
    BY <1>5, <1>8, PushAssumption DEF SelfID
  <2>2. /\ st' = [st EXCEPT ![c] = [Rest(s, i, c) EXCEPT !.out = Append(@, f)]]
        /\ UNCHANGED <<case, q, wire, issued, broker>>
    BY <1>2, <1>4, <1>8, <2>1
  <2> QED BY <1>2, <1>6, <1>7, <2>2, SelfInv
<1>9. CASE r # SelfID(c)
  <2>1. ~ Own(case.prog[r], r, f)
    <3> SUFFICES ASSUME Own(case.prog[r], r, f) PROVE FALSE
      OBVIOUS
    <3>1. f.of[1] = r /\ case.prog[r][f.of[2]].name = "publish"
      BY DEF Own
    <3>2. f.of[1] = c /\ f.of[2] = s.k
      BY <1>7
    <3>3. r = c /\ s.cmd.name = "publish"
      BY <1>6, <3>1, <3>2
    <3> QED BY <1>9, <3>3 DEF SelfID
  <2>2. /\ q' = [q EXCEPT ![r] = Enqueue(@, f, Cost(f))]
        /\ st' = Closing([st EXCEPT ![c] = Rest(s, i, r)], r, f)
        /\ issued' = IF Hit(r, f) THEN [issued EXCEPT ![r] = Append(@, f)] ELSE issued
        /\ UNCHANGED <<case, wire, broker>>
    BY <1>2, <1>4, <1>9
  <2> HIDE DEF Enqueue, Closing, Hit, Own
  <2> QED BY <1>2, <1>6, <1>7, <2>1, <2>2, OtherInv
<1> QED BY <1>8, <1>9

LEMMA ReturnInv ==
  ASSUME IInv, NEW c \in Clients, Return(c)
  PROVE  IInv'
<1> DEFINE s == st[c]
           f == Frame("monitor", c, s.cmd.name)
           n == Cost(f)
           on == {r \in Clients \ {c} : st[r].mon}
           acks == s.cmd.name \in {"subscribe", "psubscribe", "unsubscribe", "punsubscribe"}
           answer == IF acks THEN s.out ELSE <<Frame("reply", c, s.cmd.name)>> \o s.out
           t == [s EXCEPT !.pc = "reply", !.out = answer, !.must = {}]
<1>1. /\ Wells /\ Pushing /\ Entitling /\ Well(case.prog[c], c, s, q[c], wire[c], issued[c])
      /\ s \in States
  BY Before, WellsAre DEF IInv
<1>2. Returns(s) /\ case' = case /\ wire' = wire /\ UNCHANGED broker
  BY DEF Return
<1>3. /\ q' = [r \in Clients |-> IF r \in on THEN Enqueue(q[r], f, n) ELSE q[r]]
      /\ issued' = [r \in Clients |-> IF r \in on /\ Hit(r, f) THEN Append(issued[r], f) ELSE issued[r]]
      /\ st' = [r \in Clients |->
                 IF r = c THEN t
                 ELSE IF r \in on /\ ~Hit(r, f) THEN Shut(st[r], "slow") ELSE st[r]]
  BY DEF Return
<1>4. f \in Frames /\ f.kind = "monitor" /\ n \in Nat
  <2>1. s.k \in Nat /\ s.cmd.name \in Names
    BY <1>1 DEF States, Commands
  <2>2. n \in Nat
    BY CostType
  <2> QED BY <2>1, <2>2 DEF Frames, Kinds, Frame
<1>5. Answer(c, s, answer)
  BY DEF Answer, Acks, Frame
<1> HIDE DEF answer
<1>6. Well(case.prog[c], c, t, q[c], wire[c], issued[c]) /\ s.pend = <<>>
  <2> HIDE DEF Well, Answer
  <2> QED BY <1>1, <1>2, <1>5, ReturnWell
<1>7. /\ t.pend = s.pend /\ t.push = s.push /\ t.shut = s.shut /\ t.must = {}
      /\ t.subs = s.subs /\ t.psubs = s.psubs
  BY <1>1 DEF States
<1> HIDE DEF f, n, t, on
<1>8. /\ st'[c] = t /\ q'[c] = q[c] /\ issued'[c] = issued[c]
      /\ \A x \in Clients \ on : x # c => st'[x] = st[x] /\ q'[x] = q[x] /\ issued'[x] = issued[x]
      /\ \A x \in on :
           /\ q'[x] = Enqueue(q[x], f, n)
           /\ Hit(x, f) => st'[x] = st[x] /\ issued'[x] = Append(issued[x], f)
           /\ ~ Hit(x, f) => st'[x] = Shut(st[x], "slow") /\ issued'[x] = issued[x]
  <2>1. c \notin on /\ on \subseteq Clients
    BY DEF on
  <2> HIDE DEF Hit, Enqueue
  <2> QED BY <1>3, <2>1
<1>9. Maps'
  <2>1. IsMap(wire)
    BY Before DEF Maps
  <2>2. IsMap(st') /\ IsMap(q') /\ IsMap(issued')
    BY <1>3 DEF IsMap
  <2> QED BY <1>2, <2>1, <2>2 DEF Maps
<1>10. ASSUME NEW x \in Clients
       PROVE  /\ Well(case.prog[x], x, st'[x], q'[x], wire'[x], issued'[x])
              /\ st'[x].subs = st[x].subs /\ st'[x].psubs = st[x].psubs
              /\ Held(st[x], st'[x], issued[x], issued'[x])
  <2>1. Well(case.prog[x], x, st[x], q[x], wire[x], issued[x]) /\ st[x] \in States /\ issued[x] \in Seq(Frames)
    BY <1>1 DEF Wells, Well
  <2>2. CASE x = c
    <3>1. Held(s, t, issued[c], issued[c])
      BY <1>7, KeepsAll DEF Held
    <3> HIDE DEF Well, Held
    <3> QED BY <1>2, <1>6, <1>7, <1>8, <2>2, <3>1
  <2>3. CASE x # c /\ x \notin on
    <3>1. Held(st[x], st[x], issued[x], issued[x])
      BY KeepsAll DEF Held
    <3> HIDE DEF Well, Held
    <3> QED BY <1>2, <1>8, <2>1, <2>3, <3>1
  <2>4. CASE x \in on
    <3>1. st[x].push /\ x # c
      <4>1. Place(case.prog[x], st[x])
        BY <2>1, WellIs
      <4> QED BY <2>4, <4>1 DEF Place, on
    <3>2. ~ Own(case.prog[x], x, f)
      BY <1>4 DEF Own
    <3>3. /\ Accepts(q[x], n) => Well(case.prog[x], x, st[x], Enqueue(q[x], f, n), wire[x], Append(issued[x], f))
          /\ ~ Accepts(q[x], n) => Well(case.prog[x], x, Shut(st[x], "slow"), Enqueue(q[x], f, n), wire[x], issued[x])
      <4> HIDE DEF Well, Accepts, Enqueue, Shut, Own
      <4> QED BY <1>4, <2>1, <3>1, <3>2, OfferWell
    <3>4. Hit(x, f) <=> Accepts(q[x], n)
      BY DEF Hit, n
    <3>5. Keeps(issued[x], Append(issued[x], f))
      <4> DEFINE is == Append(issued[x], f)
      <4>1. Grown(issued[x], f, is, TRUE)
        BY DEF Grown
      <4> HIDE DEF is
      <4>2. Extends(issued[x], f, is, TRUE)
        BY <1>4, <2>1, <4>1, GrowsKeep
      <4>3. Keeps(issued[x], is)
        BY <4>2 DEF Extends
      <4> QED BY <4>3 DEF is
    <3>6. /\ Held(st[x], st[x], issued[x], Append(issued[x], f))
          /\ Held(st[x], Shut(st[x], "slow"), issued[x], issued[x])
          /\ Shut(st[x], "slow").subs = st[x].subs /\ Shut(st[x], "slow").psubs = st[x].psubs
      <4>1. Alike(st[x], Shut(st[x], "slow"))
        BY <2>1, ShutAlike DEF Shuts
      <4>2. Held(st[x], st[x], issued[x], Append(issued[x], f))
        BY <3>5, KeepsAll DEF Held
      <4> HIDE DEF Alike, Shut
      <4> QED BY <4>1, <4>2, AlikeHeld
    <3> HIDE DEF Well, Held, Hit, Accepts
    <3>7. CASE Hit(x, f)
      BY <1>2, <1>8, <2>4, <3>3, <3>4, <3>6, <3>7
    <3>8. CASE ~ Hit(x, f)
      BY <1>2, <1>8, <2>4, <3>3, <3>4, <3>6, <3>8
    <3> QED BY <3>7, <3>8
  <2> QED BY <2>2, <2>3, <2>4
<1> HIDE DEF Well, Held, Maps, IInv, Wells, Pushing, Entitling
<1>11. Pushing' /\ Entitling'
  BY <1>1, <1>10, HeldInv
<1> QED BY <1>2, <1>9, <1>10, <1>11, AllInv

-----------------------------------------------------------------------------
(* The theorems.                                                            *)

LEMMA FreshWell == \A p, c : Program(p) => Well(p, c, Fresh, NewQ, <<>>, <<>>)
<1> SUFFICES ASSUME NEW p, NEW c, Program(p) PROVE Well(p, c, Fresh, NewQ, <<>>, <<>>)
  OBVIOUS
<1> DEFINE s == Fresh
<1>1. /\ s.k = 0 /\ s.pc = "idle" /\ s.cmd.name = "ping"
      /\ s.out = <<>> /\ s.pend = <<>> /\ s.subs = {} /\ s.psubs = {}
      /\ ~ s.mon /\ ~ s.push /\ ~ s.quit /\ s.wr = <<>> /\ s.w = "off"
      /\ s.batch = <<>> /\ s.shut = "" /\ s.must = {}
  BY DEF Fresh
<1>2. s \in States
  <2>1. [name |-> "ping", args |-> <<>>] \in Commands
    BY DEF Commands, Names
  <2>2. <<>> \in Seq(Frames) /\ <<>> \in Seq(Channels) /\ <<>> \in Seq(Subjects) /\ <<>> \in Seq(Groups)
    OBVIOUS
  <2>3. "idle" \in Places /\ "off" \in Writers /\ "" \in Shuts
    BY DEF Places, Writers, Shuts
  <2> HIDE DEF Frames
  <2> QED BY <2>1, <2>2, <2>3 DEF Fresh, States
<1> HIDE DEF s
<1>3. DOMAIN <<>> = {} /\ <<>> \in Seq(Frames)
  OBVIOUS
<1>5. Place(p, s)
  <2>1. Len(p) \in Nat
    BY DEF Program
  <2>2. IsFiniteSet(s.subs) /\ IsFiniteSet(s.psubs)
    BY <1>1, FS_EmptySet
  <2>3. s.k <= Len(p) /\ ~ (s.k > 0)
    <3>1. s.k = 0
      BY <1>1
    <3> QED BY ONLY <2>1, <3>1
  <2>4. s.pc \in Resting /\ s.pc \notin {"args", "publish", "return", "closing", "gone"}
    BY <1>1 DEF Resting
  <2> QED BY <1>1, <2>2, <2>3, <2>4 DEF Place
<1>6. RingOk(NewQ) /\ Contents(NewQ) = <<>> /\ ~ Refused(NewQ)
  BY NewRing
<1>7. Stream(s, NewQ, <<>>, <<>>)
  <2>1. QueueShape(NewQ)
    BY <1>6 DEF RingOk
  <2>2. IsPrefix(<<>>, <<>>)
    BY DEF IsPrefix
  <2>3. <<>> \o s.wr \o s.batch \o Contents(NewQ) = <<>>
    <3>1. <<>> \o <<>> = <<>>
      BY <1>3, EmptyConcat
    <3> QED BY <1>1, <1>6, <3>1
  <2> QED BY <1>1, <1>6, <2>1, <2>2, <2>3 DEF Stream
<1>8. Said(c, s) /\ OwnOk(p, c, s, NewQ, <<>>)
  BY <1>1, <1>3 DEF Said, OwnOk
<1>9. QuitOk(s, NewQ, <<>>, <<>>)
  BY <1>1, <1>3 DEF QuitOk
<1>10. AckOk(s, <<>>, "subscribe", "unsubscribe", s.subs) /\ AckOk(s, <<>>, "psubscribe", "punsubscribe", s.psubs)
  BY <1>1, <1>3 DEF AckOk, Marks
<1>11. Well(p, c, s, NewQ, <<>>, <<>>)
  BY <1>2, <1>3, <1>5, <1>6, <1>7, <1>8, <1>9, <1>10 DEF Well, Local
<1> QED BY <1>11 DEF s

LEMMA InitInv == Init => IInv
<1> SUFFICES ASSUME Init PROVE IInv
  OBVIOUS
<1>1. /\ case \in Cases /\ st = [c \in Clients |-> Fresh] /\ q = [c \in Clients |-> NewQ]
      /\ wire = [c \in Clients |-> <<>>] /\ issued = [c \in Clients |-> <<>>]
      /\ channels = [ch \in Channels |-> {}] /\ patterns = [p \in PatternSet |-> {}]
  BY DEF Init, BrokerInit, PatternSet
<1>2. \A c \in Clients : st[c] = Fresh /\ q[c] = NewQ /\ wire[c] = <<>> /\ issued[c] = <<>>
  BY <1>1
<1>3. Maps
  BY <1>1 DEF Maps, IsMap
<1>4. Wells
  <2> SUFFICES ASSUME NEW x \in Clients
               PROVE  Well(case.prog[x], x, st[x], q[x], wire[x], issued[x])
    BY DEF Wells
  <2>1. Program(case.prog[x])
    BY <1>1, ProgramIs
  <2>2. Well(case.prog[x], x, Fresh, NewQ, <<>>, <<>>)
    BY <2>1, FreshWell
  <2> HIDE DEF Well
  <2> QED BY <1>2, <2>2
<1>5. BrokerTypeOK
  BY <1>1 DEF BrokerTypeOK, PatternSet
<1>6. Typed /\ Locals
  BY <1>1, <1>3, <1>4, <1>5, WellsMake
<1>7. Fresh.subs = {} /\ Fresh.psubs = {} /\ Fresh.pend = <<>> /\ Fresh.must = {}
  BY DEF Fresh
<1>8. Registered
  BY <1>1, <1>2, <1>7 DEF Registered
<1>9. Pushing /\ Entitling
  <2>1. DOMAIN <<>> = {}
    OBVIOUS
  <2> QED BY <1>2, <1>7, <2>1 DEF Pushing, Entitling
<1> QED BY <1>6, <1>8, <1>9 DEF IInv

LEMMA SameInv == IInv /\ UNCHANGED vars => IInv'
<1> SUFFICES ASSUME IInv, UNCHANGED vars PROVE IInv'
  OBVIOUS
<1>1. /\ case' = case /\ st' = st /\ q' = q /\ wire' = wire /\ issued' = issued
      /\ channels' = channels /\ patterns' = patterns
  BY DEF vars
<1> QED BY <1>1 DEF IInv, Typed, Locals, Registered, Pushing, Entitling, Owed, BrokerTypeOK

LEMMA NextInv == IInv /\ [Next]_vars => IInv'
<1> SUFFICES ASSUME IInv, [Next]_vars PROVE IInv'
  OBVIOUS
<1>1. CASE UNCHANGED vars
  BY <1>1, SameInv
<1>2. ASSUME NEW c \in Clients, Execute(c) PROVE IInv'
  BY <1>2, ExecuteInv
<1>3. ASSUME NEW c \in Clients, Serve(c) PROVE IInv'
  BY <1>3, ArgumentInv, PublishInv, DeliverInv, ReturnInv, ReplyInv, QuitInv, FlushInv, ClosedInv,
     CloseConnInv DEF Serve
<1>4. ASSUME NEW c \in Clients, Write(c) PROVE IInv'
  BY <1>4, DequeueInv, WokenInv, PushValuesInv DEF Write
<1>5. ASSUME NEW c \in Clients, Kill(c) PROVE IInv'
  BY <1>5, KillInv
<1>6. ASSUME NEW c \in Clients, KillClose(c) \/ HangUp(c) PROVE IInv'
  <2>1. PICK who \in {"kill", "client"} :
          st' = [st EXCEPT ![c] = Shut(@, who)] /\ UNCHANGED <<case, q, wire, issued, broker>>
    BY <1>6 DEF KillClose, HangUp
  <2> QED BY <2>1, CutInv
<1> QED BY <1>1, <1>2, <1>3, <1>4, <1>5, <1>6 DEF Next

LEMMA Invariance == Spec => []IInv
BY InitInv, NextInv, PTL DEF Spec

LEMMA StreamsAre == IInv => StreamSound
<1> SUFFICES ASSUME IInv PROVE StreamSound
  OBVIOUS
<1>1. ASSUME NEW c \in Clients
      PROVE  /\ st[c] \in States /\ Place(case.prog[c], st[c]) /\ Stream(st[c], q[c], wire[c], issued[c])
             /\ OwnOk(case.prog[c], c, st[c], q[c], issued[c])
             /\ QuitOk(st[c], q[c], wire[c], issued[c])
  BY Before, WellIs
<1>2. TypeOK
  <2>1. case \in Cases /\ BrokerTypeOK
    BY DEF IInv, Typed
  <2>2. ASSUME NEW c \in Clients
        PROVE  /\ st[c].pc \in Places /\ st[c].w \in Writers
               /\ st[c].k \in 0..Len(case.prog[c]) /\ Len(st[c].batch) <= BatchMax
               /\ st[c].subs \subseteq Channels /\ st[c].psubs \subseteq ToSet(Patterns)
               /\ st[c].w = "off" <=> ~st[c].push
    <3>1. /\ st[c].pc \in Places /\ st[c].w \in Writers
          /\ st[c].subs \subseteq Channels /\ st[c].psubs \subseteq ToSet(Patterns)
      BY <1>1 DEF States, PatternSet
    <3>2. st[c].k \in 0..Len(case.prog[c])
      <4>1. st[c].k \in Nat
        BY <1>1 DEF States
      <4>2. st[c].k <= Len(case.prog[c])
        BY <1>1 DEF Place
      <4>3. Len(case.prog[c]) \in Nat
        BY <2>1, ProgramIs DEF Program
      <4> QED BY ONLY <4>1, <4>2, <4>3
    <3>3. Len(st[c].batch) <= BatchMax
      <4>1. CASE st[c].w = "write"
        BY <1>1, <4>1 DEF Stream
      <4>2. CASE st[c].w # "write"
        <5>1. st[c].batch = <<>>
          BY <1>1, <4>2 DEF Stream
        <5>2. Len(st[c].batch) = 0 /\ BatchMax \in Nat
          BY <5>1, PushAssumption
        <5> QED BY <5>2
      <4> QED BY <4>1, <4>2
    <3>4. st[c].w = "off" <=> ~st[c].push
      BY <1>1 DEF Stream
    <3> QED BY <3>1, <3>2, <3>3, <3>4
  <2> QED BY <2>1, <2>2 DEF TypeOK
<1>3. QueuesOk /\ IssueOrder
  BY <1>1 DEF QueuesOk, IssueOrder, Stream
<1>4. SelfAfterReply
  BY <1>1 DEF SelfAfterReply, OwnOk, Own, Answers
<1>5. QuitAnswered
  BY <1>1 DEF QuitAnswered, QuitOk, IsReply
<1> QED BY <1>2, <1>3, <1>4, <1>5 DEF StreamSound

\* Streams: what a client reads is what was issued to it, in that order: no frame is lost,
\* doubled or overtaken by the switch to the push queue, the ring's growth or the batches;
\* a publisher's own message follows its reply, and QUIT is answered before the close.
THEOREM Streams == Spec => []StreamSound
BY Invariance, StreamsAre, PTL

LEMMA RegistryIs == IInv => RegistryAgrees
<1> SUFFICES ASSUME IInv PROVE RegistryAgrees
  OBVIOUS
<1>1. /\ channels \in [Channels -> SUBSET Clients] /\ patterns \in [PatternSet -> SUBSET Clients]
      /\ \A c \in Clients :
           /\ \A ch \in Channels : c \in channels[ch] <=> ch \in st[c].subs
           /\ \A p \in PatternSet : c \in patterns[p] <=> p \in st[c].psubs
  BY DEF IInv, Typed, Registered, BrokerTypeOK, PatternSet
<1>2. ASSUME \A c \in Clients : st[c].pc = "gone" PROVE ActiveChannels = {} /\ NumPat = 0
  <2>1. \A c \in Clients : st[c].subs = {} /\ st[c].psubs = {}
    <3> SUFFICES ASSUME NEW c \in Clients PROVE st[c].subs = {} /\ st[c].psubs = {}
      OBVIOUS
    <3>1. Place(case.prog[c], st[c])
      BY Before, WellIs
    <3> QED BY <1>2, <3>1 DEF Place
  <2>2. \A ch \in Channels : channels[ch] = {}
    BY <1>1, <2>1
  <2>3. {p \in PatternSet : patterns[p] # {}} = {}
    BY <1>1, <2>1
  <2>4. NumPat = 0
    <3>1. Cardinality({}) = 0
      BY FS_EmptySet
    <3> QED BY <2>3, <3>1 DEF NumPat, PatternSet
  <2> QED BY <2>2, <2>4 DEF ActiveChannels
<1>3. \A ch \in Channels : NumSub(ch) = Cardinality({c \in Clients : ch \in st[c].subs})
  <2> SUFFICES ASSUME NEW ch \in Channels
               PROVE  NumSub(ch) = Cardinality({c \in Clients : ch \in st[c].subs})
    OBVIOUS
  <2>1. channels[ch] = {c \in Clients : ch \in st[c].subs}
    BY <1>1
  <2> QED BY <2>1 DEF NumSub
<1> QED BY <1>1, <1>2, <1>3 DEF RegistryAgrees, PatternSet

\* Registry: between commands the broker knows a connection's subscriptions and no others,
\* so PUBSUB counts them, and a closed connection leaves none behind.
THEOREM Registry == Spec => []RegistryAgrees
BY Invariance, RegistryIs, PTL

LEMMA AckedGet == IInv => AckedReceives
<1> SUFFICES ASSUME IInv, NEW c \in Clients, st[c].cmd.name = "publish", Returns(st[c]), NEW r \in st[c].must
             PROVE  \/ st[r].shut # ""
                    \/ \E i \in DOMAIN issued[r] : issued[r][i].of = <<c, st[c].k>>
                    \/ \E i \in DOMAIN st[r].out : st[r].out[i].of = <<c, st[c].k>>
  BY DEF AckedReceives
<1>1. Place(case.prog[c], st[c])
  BY Before, WellIs
<1>2. st[c].pend = <<>>
  BY <1>1 DEF Returns, Place
<1>3. DOMAIN st[c].pend = {}
  <2>1. DOMAIN <<>> = {}
    OBVIOUS
  <2> QED BY <1>2, <2>1
<1>4. Owed(c, r)
  BY DEF IInv, Entitling
<1> QED BY <1>3, <1>4 DEF Owed

\* Acknowledged: a client that had read the ack of a matching subscription when a message
\* was published has been given it when the PUBLISH returns, or its connection was lost.
THEOREM Acknowledged == Spec => []AckedReceives
BY Invariance, AckedGet, PTL
=============================================================================
