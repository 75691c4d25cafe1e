----------------------------- MODULE PauseProofs ----------------------------
(* Proofs about Pause: control messages meet the shard state they are meant  *)
(* for, and the protocol implements TaskBoard, for any number of connections *)
(* and shards, any queue capacity and any workload.                          *)
EXTENDS Pause, SequenceTheorems, TLAPS

Holding == {"pausing", "acking", "held", "heldcall", "resuming"}

\* A connection is inside PauseAll, the transaction or resume exactly when it
\* holds txMu, and has a token exactly then.
Holds(c) ==
  /\ txMu = c <=> pc[c] \in Holding
  /\ tok[c] # 0 <=> pc[c] \in Holding
  /\ pc[c] \in {"pausing", "acking"} => next[c] \in Shards

HolderInv == \A c \in Conns : Holds(c)

\* Tasks are sent and awaited during a call, one to each shard.
Calls(c) ==
  /\ send[c] # {} \/ wait[c] # {} => pc[c] \in {"call", "heldcall"}
  /\ send[c] \cap wait[c] = {}

CallInv == \A c \in Conns : Calls(c)

\* A park message in a queue is the one its connection waits for.
ParkedBy(q, s, p, n) ==
  \A i \in DOMAIN q : q[i].kind = "park" =>
    /\ p[q[i].conn] = "acking" /\ n[q[i].conn] = s
    /\ \A j \in DOMAIN q : q[j].kind = "park" /\ q[j].conn = q[i].conn => i = j

ParkInv ==
  \A s \in Shards :
    /\ at[s] = "parked" => ptok[s] # 0
    /\ ParkedBy(queue[s], s, pc, next)

\* The tasks in q are those of the connections W, one of each, with its token.
Serves(q, W, tk) ==
  /\ \A i \in DOMAIN q : q[i].kind = "fn" =>
       /\ q[i].conn \in W /\ q[i].tok = tk[q[i].conn]
       /\ \A j \in DOMAIN q : q[j].kind = "fn" /\ q[j].conn = q[i].conn => i = j
  /\ \A c \in W : \E i \in DOMAIN q : q[i].kind = "fn" /\ q[i].conn = c

Waiting(s) == {c \in Conns : s \in wait[c]}

AllFn(q) == \A i \in DOMAIN q : q[i].kind = "fn"

LineInv ==
  \A s \in Shards :
    /\ Serves(Line(s), Waiting(s), tok)
    /\ AllFn(stash[s])
    /\ at[s] = "run" => stash[s] = <<>>

\* The control messages of a queue, in order.
OneCtl(q, k) ==
  \E i \in DOMAIN q : q[i].kind = k /\ \A j \in DOMAIN q \ {i} : q[j].kind = "fn"

UnparkPark(q) ==
  \E i, j \in DOMAIN q :
    /\ i < j /\ q[i].kind = "unpark" /\ q[j].kind = "park"
    /\ \A k \in DOMAIN q \ {i, j} : q[k].kind = "fn"

\* A shard nobody has parked (its last unpark message may still be queued), one
\* that a park message is on its way to, and one that is parked for the holder.
Free(s) ==
  \/ at[s] = "parked" /\ OneCtl(queue[s], "unpark")
  \/ at[s] \in {"run", "drain"} /\ AllFn(queue[s])

Called(s) ==
  \/ at[s] = "parked" /\ UnparkPark(queue[s])
  \/ at[s] \in {"run", "drain"} /\ OneCtl(queue[s], "park")

Kept(s) == at[s] = "parked" /\ AllFn(queue[s])

\* Shards the holder has parked, and the shard its park message is queued at.
IsKept(s) ==
  /\ txMu # NoConn
  /\ \/ pc[txMu] \in {"pausing", "acking"} /\ s < next[txMu]
     \/ pc[txMu] \in {"held", "heldcall"}
     \/ pc[txMu] = "resuming" /\ s >= next[txMu]

IsCalled(s) == txMu # NoConn /\ pc[txMu] = "acking" /\ s = next[txMu]

PhaseInv ==
  \A s \in Shards :
    /\ IsKept(s) => Kept(s)
    /\ IsCalled(s) => Called(s)
    /\ ~IsKept(s) /\ ~IsCalled(s) => Free(s)

PauseInv ==
  /\ TypeOK /\ conf \in Confs
  /\ HolderInv /\ CallInv /\ ParkInv /\ LineInv
  /\ closing = 0 => PhaseInv

-----------------------------------------------------------------------------
(* Lemmas about queues.                                                     *)

\* The fields of a task.
LEMMA TaskFields ==
  ASSUME NEW t \in Task
  PROVE  /\ t.kind \in {"fn", "park", "unpark"}
         /\ t.kind \in {"fn", "park"} => t.conn \in Conns
         /\ t.tok \in Nat
         /\ t.kind = "park" => t.tok # 0
BY DEF Task, Unpark

\* The messages are tasks.
LEMMA Messages ==
  /\ \A c \in Conns, k \in Nat :
       Fn(c, k) \in Task /\ Fn(c, k).kind = "fn" /\ Fn(c, k).conn = c /\ Fn(c, k).tok = k
  /\ \A c \in Conns, k \in Nat \ {0} :
       Park(c, k) \in Task /\ Park(c, k).kind = "park" /\ Park(c, k).conn = c
  /\ Unpark \in Task /\ Unpark.kind = "unpark"
BY DEF Task, Unpark, Fn, Park

\* r is q with task t at its end.
Added(r, q, t) == r = Append(q, t)

\* What sending a message does to the control messages of a queue.
LEMMA AppendWord ==
  ASSUME NEW q \in Seq(Task), NEW t \in Task, NEW r, Added(r, q, t)
  PROVE  /\ t.kind = "fn" => /\ AllFn(q) => AllFn(r)
                             /\ \A k : k # "fn" /\ OneCtl(q, k) => OneCtl(r, k)
                             /\ UnparkPark(q) => UnparkPark(r)
         /\ AllFn(q) => OneCtl(r, t.kind)
         /\ OneCtl(q, "unpark") /\ t.kind = "park" => UnparkPark(r)
<1>1. /\ DOMAIN q = 1..Len(q) /\ DOMAIN r = 1..(Len(q) + 1) /\ Len(q) \in Nat
      /\ \A i \in 1..Len(q) : r[i] = q[i]
      /\ r[Len(q) + 1] = t
  BY DEF Added
<1>2. t.kind = "fn" => (AllFn(q) => AllFn(r)) /\ (UnparkPark(q) => UnparkPark(r))
  <2>1. t.kind = "fn" /\ AllFn(q) => AllFn(r)
    BY <1>1 DEF AllFn
  <2>2. ASSUME t.kind = "fn", UnparkPark(q) PROVE UnparkPark(r)
    <3>1. PICK i, j \in DOMAIN q :
            /\ i < j /\ q[i].kind = "unpark" /\ q[j].kind = "park"
            /\ \A k \in DOMAIN q \ {i, j} : q[k].kind = "fn"
      BY <2>2 DEF UnparkPark
    <3>2. /\ i \in DOMAIN r /\ j \in DOMAIN r /\ r[i] = q[i] /\ r[j] = q[j]
          /\ \A k \in DOMAIN r \ {i, j} : r[k].kind = "fn"
      BY <1>1, <2>2, <3>1
    <3> QED BY <3>1, <3>2 DEF UnparkPark
  <2> QED BY <2>1, <2>2
<1>3. ASSUME NEW k, t.kind = "fn", OneCtl(q, k) PROVE OneCtl(r, k)
  <2>1. PICK i \in DOMAIN q : q[i].kind = k /\ \A j \in DOMAIN q \ {i} : q[j].kind = "fn"
    BY <1>3 DEF OneCtl
  <2>2. /\ i \in DOMAIN r /\ r[i] = q[i]
        /\ \A j \in DOMAIN r \ {i} : r[j].kind = "fn"
    BY <1>1, <1>3, <2>1
  <2> QED BY <2>1, <2>2 DEF OneCtl
<1>4. ASSUME AllFn(q) PROVE OneCtl(r, t.kind)
  <2>1. Len(q) + 1 \in DOMAIN r /\ \A j \in DOMAIN r \ {Len(q) + 1} : r[j].kind = "fn"
    BY <1>1, <1>4 DEF AllFn
  <2> QED BY <1>1, <2>1 DEF OneCtl
<1>5. ASSUME OneCtl(q, "unpark"), t.kind = "park" PROVE UnparkPark(r)
  <2>1. PICK i \in DOMAIN q : q[i].kind = "unpark" /\ \A j \in DOMAIN q \ {i} : q[j].kind = "fn"
    BY <1>5 DEF OneCtl
  <2> DEFINE n == Len(q) + 1
  <2>2. /\ i \in DOMAIN r /\ n \in DOMAIN r /\ i < n
        /\ r[i].kind = "unpark" /\ r[n].kind = "park"
        /\ \A j \in DOMAIN r \ {i, n} : r[j].kind = "fn"
    BY <1>1, <1>5, <2>1
  <2> QED BY <2>2 DEF UnparkPark
<1> QED BY <1>2, <1>3, <1>4, <1>5

\* r is q without its first task.
Taken(r, q) == r = Tail(q)

\* What receiving a message does to the control messages of a queue.
LEMMA TailWord ==
  ASSUME NEW q \in Seq(Task), q # <<>>, NEW r, Taken(r, q)
  PROVE  /\ AllFn(q) => Head(q).kind = "fn" /\ AllFn(r)
         /\ \A k : k # "fn" /\ OneCtl(q, k) =>
              \/ Head(q).kind = "fn" /\ OneCtl(r, k)
              \/ Head(q).kind = k /\ AllFn(r)
         /\ UnparkPark(q) =>
              \/ Head(q).kind = "fn" /\ UnparkPark(r)
              \/ Head(q).kind = "unpark" /\ OneCtl(r, "park")
<1>1. /\ Len(q) \in Nat \ {0} /\ DOMAIN q = 1..Len(q) /\ DOMAIN r = 1..(Len(q) - 1)
      /\ Head(q) = q[1] /\ 1 \in DOMAIN q
      /\ \A i \in 1..(Len(q) - 1) : r[i] = q[i + 1] /\ i + 1 \in DOMAIN q
      /\ \A i \in DOMAIN q : i # 1 => i - 1 \in DOMAIN r /\ r[i - 1] = q[i]
  BY DEF Taken
<1>2. AllFn(q) => Head(q).kind = "fn" /\ AllFn(r)
  BY <1>1 DEF AllFn
<1>3. ASSUME NEW k, k # "fn", OneCtl(q, k)
      PROVE  \/ Head(q).kind = "fn" /\ OneCtl(r, k)
             \/ Head(q).kind = k /\ AllFn(r)
  <2>1. PICK i \in DOMAIN q : q[i].kind = k /\ \A j \in DOMAIN q \ {i} : q[j].kind = "fn"
    BY <1>3 DEF OneCtl
  <2>2. CASE i = 1
    BY <1>1, <2>1, <2>2 DEF AllFn, Taken
  <2>3. CASE i # 1
    <3>1. /\ i - 1 \in DOMAIN r /\ r[i - 1].kind = k /\ Head(q).kind = "fn"
          /\ \A j \in DOMAIN r \ {i - 1} : r[j].kind = "fn"
      BY <1>1, <2>1, <2>3 DEF Taken
    <3> QED BY <3>1 DEF OneCtl
  <2> QED BY <2>2, <2>3
<1>4. ASSUME UnparkPark(q)
      PROVE  \/ Head(q).kind = "fn" /\ UnparkPark(r)
             \/ Head(q).kind = "unpark" /\ OneCtl(r, "park")
  <2>1. PICK i, j \in DOMAIN q :
          /\ i < j /\ q[i].kind = "unpark" /\ q[j].kind = "park"
          /\ \A k \in DOMAIN q \ {i, j} : q[k].kind = "fn"
    BY <1>4 DEF UnparkPark
  <2>2. j - 1 \in DOMAIN r /\ r[j - 1].kind = "park"
    BY <1>1, <2>1
  <2>3. CASE i = 1
    <3>1. \A k \in DOMAIN r \ {j - 1} : r[k].kind = "fn"
      BY <1>1, <2>1, <2>3 DEF Taken
    <3> QED BY <1>1, <2>1, <2>2, <2>3, <3>1 DEF OneCtl
  <2>4. CASE i # 1
    <3>1. i - 1 \in DOMAIN r /\ r[i - 1].kind = "unpark" /\ i - 1 < j - 1
      BY <1>1, <2>1, <2>4
    <3>2. Head(q).kind = "fn"
      <4>1. 1 \in DOMAIN q /\ 1 # i /\ 1 # j /\ Head(q) = q[1]
        BY <1>1, <2>1, <2>4
      <4> QED BY <2>1, <4>1
    <3>3. \A k \in DOMAIN r \ {i - 1, j - 1} : r[k].kind = "fn"
      <4> SUFFICES ASSUME NEW k \in DOMAIN r, k # i - 1, k # j - 1 PROVE r[k].kind = "fn"
        OBVIOUS
      <4>1. k + 1 \in DOMAIN q /\ r[k] = q[k + 1] /\ k + 1 # i /\ k + 1 # j
        BY <1>1
      <4> QED BY <2>1, <4>1
    <3> QED BY <2>2, <3>1, <3>2, <3>3 DEF UnparkPark
  <2> QED BY <2>3, <2>4
<1> QED BY <1>2, <1>3, <1>4

-----------------------------------------------------------------------------
(* Lemmas about lines: a task that joins, and one that leaves.              *)

\* r is q without its p-th task.
Cut(r, q, p) ==
  /\ r \in Seq(Task) /\ Len(r) = Len(q) - 1
  /\ \A i \in 1..Len(r) : r[i] = IF i < p THEN q[i] ELSE q[i + 1]

\* The pairs of a line's connections with the one that joins.
Behind(W, c) == W \X {c}

\* A control message joins the line.
LEMMA JoinsControl ==
  ASSUME NEW q \in Seq(Task), NEW t \in Task, t.kind # "fn", NEW r, Added(r, q, t),
         NEW W \in SUBSET Conns, NEW tk, Serves(q, W, tk)
  PROVE  Serves(r, W, tk) /\ Before(r) = Before(q)
<1> DEFINE n == Len(q) + 1
<1>1. /\ DOMAIN q = 1..Len(q) /\ DOMAIN r = 1..n /\ Len(q) \in Nat
      /\ \A i \in 1..Len(q) : r[i] = q[i]
      /\ r[n] = t
  BY DEF Added
<1>2. DOMAIN r = DOMAIN q \cup {n} /\ n \notin DOMAIN q /\ DOMAIN q \subseteq Nat /\ n \in Nat
      /\ \A i \in DOMAIN q : i < n
  BY <1>1
<1>3. \A i \in DOMAIN r : r[i].kind = "fn" => i \in DOMAIN q /\ r[i] = q[i]
  BY <1>1, <1>2
<1>4. Serves(r, W, tk)
  BY <1>1, <1>2, <1>3 DEF Serves
<1>5. Before(r) = Before(q)
  BY <1>1, <1>2, <1>3 DEF Before
<1> QED BY <1>4, <1>5

\* A task joins the line.
LEMMA Joins ==
  ASSUME NEW q \in Seq(Task), NEW t \in Task, t.kind = "fn", NEW r, Added(r, q, t),
         NEW W \in SUBSET Conns, NEW tk, Serves(q, W, tk),
         t.conn \notin W, t.tok = tk[t.conn]
  PROVE  /\ Serves(r, W \cup {t.conn}, tk)
         /\ Before(r) = Before(q) \cup Behind(W, t.conn)
<1> DEFINE n == Len(q) + 1
<1>1. /\ DOMAIN q = 1..Len(q) /\ DOMAIN r = 1..n /\ Len(q) \in Nat
      /\ \A i \in 1..Len(q) : r[i] = q[i]
      /\ r[n] = t
  BY DEF Added
<1>2. DOMAIN r = DOMAIN q \cup {n} /\ n \notin DOMAIN q /\ DOMAIN q \subseteq Nat /\ n \in Nat
      /\ \A i \in DOMAIN q : i < n
  BY <1>1
<1> HIDE DEF n
<1>3. t.conn \in Conns
  BY TaskFields
<1>4. \A i \in DOMAIN q : q[i].kind = "fn" => q[i].conn \in W /\ q[i].conn # t.conn
  BY DEF Serves
<1>5. Serves(r, W \cup {t.conn}, tk)
  <2>1. ASSUME NEW i \in DOMAIN r, r[i].kind = "fn"
        PROVE  /\ r[i].conn \in W \cup {t.conn} /\ r[i].tok = tk[r[i].conn]
               /\ \A j \in DOMAIN r : r[j].kind = "fn" /\ r[j].conn = r[i].conn => i = j
    BY <1>1, <1>2, <1>4, <2>1 DEF Serves, Added
  <2>2. ASSUME NEW c \in W \cup {t.conn}
        PROVE  \E i \in DOMAIN r : r[i].kind = "fn" /\ r[i].conn = c
    BY <1>1, <1>2 DEF Serves, Added
  <2> QED BY <2>1, <2>2 DEF Serves
<1>6. ASSUME NEW x \in Conns \X Conns
      PROVE  x \in Before(r) <=> x \in Before(q) \/ (x[1] \in W /\ x[2] = t.conn)
  <2>1. ASSUME x \in Before(r) PROVE x \in Before(q) \/ (x[1] \in W /\ x[2] = t.conn)
    <3>1. PICK i, j \in DOMAIN r :
            /\ i < j /\ r[i].kind = "fn" /\ r[i].conn = x[1]
            /\ r[j].kind = "fn" /\ r[j].conn = x[2]
      BY <2>1 DEF Before
    <3>2. i \in DOMAIN q /\ r[i] = q[i]
      BY <1>1, <1>2, <3>1 DEF Added
    <3>3. CASE j = n
      BY <1>1, <1>4, <3>1, <3>2, <3>3
    <3>4. CASE j \in DOMAIN q
      BY <1>1, <3>1, <3>2, <3>4 DEF Before
    <3> QED BY <1>2, <3>3, <3>4
  <2>2. ASSUME x \in Before(q) PROVE x \in Before(r)
    BY <1>1, <1>2, <2>2 DEF Before
  <2>3. ASSUME x[1] \in W, x[2] = t.conn PROVE x \in Before(r)
    <3>1. PICK i \in DOMAIN q : q[i].kind = "fn" /\ q[i].conn = x[1]
      BY <2>3 DEF Serves
    <3>2. /\ i \in DOMAIN r /\ n \in DOMAIN r /\ i < n
          /\ r[i].kind = "fn" /\ r[i].conn = x[1]
          /\ r[n].kind = "fn" /\ r[n].conn = x[2]
      BY <1>1, <1>2, <2>3, <3>1
    <3> QED BY <3>2 DEF Before
  <2> QED BY <2>1, <2>2, <2>3
<1>7. Before(r) \subseteq Conns \X Conns /\ Before(q) \subseteq Conns \X Conns
  BY DEF Before
<1>8. Behind(W, t.conn) \subseteq Conns \X Conns
  BY <1>3 DEF Behind
<1>9. \A x \in Conns \X Conns : x \in Behind(W, t.conn) <=> x[1] \in W /\ x[2] = t.conn
  BY DEF Behind
<1> QED BY <1>5, <1>6, <1>7, <1>8, <1>9

\* A task leaves the line: its submitter no longer waits and nobody is before
\* or after it; a control message changes nothing.
LEMMA Leaves ==
  ASSUME NEW q \in Seq(Task), NEW p \in 1..Len(q), NEW r, Cut(r, q, p),
         NEW W \in SUBSET Conns, NEW tk, Serves(q, W, tk)
  PROVE  /\ q[p].kind # "fn" => Serves(r, W, tk) /\ Before(r) = Before(q)
         /\ q[p].kind = "fn" =>
              /\ Serves(r, W \ {q[p].conn}, tk)
              /\ Before(r) = {x \in Before(q) : q[p].conn # x[1] /\ q[p].conn # x[2]}
<1> DEFINE up(i) == IF i < p THEN i ELSE i + 1
           dn(i) == IF i < p THEN i ELSE i - 1
<1>1. /\ DOMAIN q = 1..Len(q) /\ DOMAIN r = 1..(Len(q) - 1) /\ Len(q) \in Nat /\ p \in Nat
      /\ p \in DOMAIN q
  BY DEF Cut
<1>2. \A i \in DOMAIN r : up(i) \in DOMAIN q /\ r[i] = q[up(i)] /\ up(i) # p
  BY <1>1 DEF Cut
<1>3. \A i \in DOMAIN q : i # p => dn(i) \in DOMAIN r /\ r[dn(i)] = q[i] /\ up(dn(i)) = i
  BY <1>1 DEF Cut
<1>4. \A i, j \in DOMAIN r : (i < j <=> up(i) < up(j)) /\ (up(i) = up(j) => i = j)
  BY <1>1
<1>5. \A i, j \in DOMAIN q : i # p /\ j # p /\ i < j => dn(i) < dn(j)
  BY <1>1
<1> HIDE DEF up, dn
<1>6. ASSUME NEW x \in Conns \X Conns
      PROVE  x \in Before(r) <=>
               \E i, j \in DOMAIN q \ {p} : /\ i < j
                                            /\ q[i].kind = "fn" /\ q[i].conn = x[1]
                                            /\ q[j].kind = "fn" /\ q[j].conn = x[2]
  <2>1. ASSUME x \in Before(r)
        PROVE  \E i, j \in DOMAIN q \ {p} : /\ i < j
                                            /\ q[i].kind = "fn" /\ q[i].conn = x[1]
                                            /\ q[j].kind = "fn" /\ q[j].conn = x[2]
    <3>1. PICK i, j \in DOMAIN r :
              /\ i < j /\ r[i].kind = "fn" /\ r[i].conn = x[1]
              /\ r[j].kind = "fn" /\ r[j].conn = x[2]
      BY <2>1 DEF Before
    <3> QED BY <1>2, <1>4, <3>1
  <2>2. ASSUME NEW i \in DOMAIN q \ {p}, NEW j \in DOMAIN q \ {p},
               i < j, q[i].kind = "fn", q[i].conn = x[1], q[j].kind = "fn", q[j].conn = x[2]
        PROVE  x \in Before(r)
    <3>1. /\ dn(i) \in DOMAIN r /\ dn(j) \in DOMAIN r /\ dn(i) < dn(j)
          /\ r[dn(i)] = q[i] /\ r[dn(j)] = q[j]
      BY <1>3, <1>5, <2>2
    <3> QED BY <2>2, <3>1 DEF Before
  <2> QED BY <2>1, <2>2
<1>7. Before(r) \subseteq Conns \X Conns /\ Before(q) \subseteq Conns \X Conns
  BY DEF Before
<1>8. ASSUME NEW V \in SUBSET W,
             \A i \in DOMAIN q : q[i].kind = "fn" => (q[i].conn \in V <=> i # p)
      PROVE  Serves(r, V, tk)
  <2>1. ASSUME NEW i \in DOMAIN r, r[i].kind = "fn"
        PROVE  /\ r[i].conn \in V /\ r[i].tok = tk[r[i].conn]
               /\ \A j \in DOMAIN r : r[j].kind = "fn" /\ r[j].conn = r[i].conn => i = j
    BY <1>2, <1>4, <1>8, <2>1 DEF Serves
  <2>2. ASSUME NEW c \in V PROVE \E i \in DOMAIN r : r[i].kind = "fn" /\ r[i].conn = c
    <3>1. PICK i \in DOMAIN q : q[i].kind = "fn" /\ q[i].conn = c
      BY DEF Serves
    <3> QED BY <1>3, <1>8, <3>1
  <2> QED BY <2>1, <2>2 DEF Serves
<1>9. ASSUME q[p].kind # "fn" PROVE Serves(r, W, tk) /\ Before(r) = Before(q)
  <2>1. Serves(r, W, tk)
    BY <1>8, <1>9 DEF Serves
  <2>2. \A x \in Conns \X Conns : x \in Before(r) <=> x \in Before(q)
    BY <1>6, <1>9 DEF Before
  <2> QED BY <1>7, <2>1, <2>2
<1>10. ASSUME q[p].kind = "fn"
       PROVE  /\ Serves(r, W \ {q[p].conn}, tk)
              /\ Before(r) = {x \in Before(q) : q[p].conn # x[1] /\ q[p].conn # x[2]}
  <2>1. \A i \in DOMAIN q : q[i].kind = "fn" => (q[i].conn # q[p].conn <=> i # p) /\ q[i].conn \in W
    BY <1>1, <1>10 DEF Serves
  <2>2. Serves(r, W \ {q[p].conn}, tk)
    BY <1>8, <2>1
  <2>3. ASSUME NEW x \in Conns \X Conns
        PROVE  x \in Before(r) <=> x \in Before(q) /\ q[p].conn # x[1] /\ q[p].conn # x[2]
    BY <1>6, <2>1 DEF Before
  <2> QED BY <1>7, <2>2, <2>3
<1> QED BY <1>9, <1>10

-----------------------------------------------------------------------------
(* Types.                                                                   *)

\* What a queue's first task is.
LEMMA HeadIsTask ==
  ASSUME TypeOK, NEW s \in Shards, queue[s] # <<>>
  PROVE  /\ Head1(s) \in Task /\ Head1(s) = queue[s][1]
         /\ Tail(queue[s]) \in Seq(Task) /\ Len(Tail(queue[s])) <= QCap
<1>1. queue[s] \in Seq(Task) /\ Len(queue[s]) <= QCap /\ QCap \in Nat
  BY PauseAssumption DEF TypeOK, ShardTypes
<1> QED BY <1>1 DEF Head1

\* Every step keeps the types of the shards' variables and the capacity.
LEMMA ShardTypeStep ==
  ASSUME TypeOK, HolderInv, [Next]_<<vars, conf>>
  PROVE  ShardTypes' /\ \A x \in Shards : Len(queue'[x]) <= QCap
<1> USE PauseAssumption DEF Shards, ShardTypes
<1>1. ShardTypes /\ ConnTypes /\ \A x \in Shards : Len(queue[x]) <= QCap
  BY DEF TypeOK
<1>2. ASSUME UNCHANGED <<queue, at, ptok, stash, closing>>
      PROVE  ShardTypes' /\ \A x \in Shards : Len(queue'[x]) <= QCap
  BY <1>1, <1>2
<1>3. ASSUME NEW s \in Shards, NEW t \in Task, Room(s),
             queue' = [queue EXCEPT ![s] = Append(@, t)],
             UNCHANGED <<at, ptok, stash, closing>>
      PROVE  ShardTypes' /\ \A x \in Shards : Len(queue'[x]) <= QCap
  BY <1>1, <1>3 DEF Room
<1>4. ASSUME NEW c \in Conns, Conn(c)
      PROVE  ShardTypes' /\ \A x \in Shards : Len(queue'[x]) <= QCap
  <2>1. CASE SendPark(c)
    <3>1. next[c] \in Shards /\ tok[c] \in Nat \ {0}
      BY <1>1, <2>1 DEF SendPark, HolderInv, Holds, Holding, ConnTypes
    <3>2. Park(c, tok[c]) \in Task
      BY <3>1, Messages
    <3> QED BY <1>3, <2>1, <3>1, <3>2 DEF SendPark
  <2>2. CASE SendUnpark(c)
    <3>1. next[c] \in Shards
      BY <1>1, <2>2 DEF SendUnpark, ConnTypes
    <3> QED BY <1>3, <2>2, <3>1, Messages DEF SendUnpark
  <2> QED BY <1>2, <1>4, <2>1, <2>2 DEF Conn, Call, Return, Lock, Resume, Unlock
<1>5. ASSUME NEW c \in Conns, NEW s \in Shards, Enqueue(c, s)
      PROVE  ShardTypes' /\ \A x \in Shards : Len(queue'[x]) <= QCap
  <2>1. Fn(c, tok[c]) \in Task
    BY <1>1, Messages DEF ConnTypes
  <2> QED BY <1>3, <1>5, <2>1 DEF Enqueue
<1>6. ASSUME NEW s \in Shards, Shard(s)
      PROVE  ShardTypes' /\ \A x \in Shards : Len(queue'[x]) <= QCap
  <2>0. queue[s] # <<>> => /\ Head1(s) \in Task /\ Head1(s).tok \in Nat
                           /\ Tail(queue[s]) \in Seq(Task) /\ Len(Tail(queue[s])) <= QCap
    BY HeadIsTask, TaskFields
  <2>1. CASE RunTask(s)
    BY <1>1, <2>0, <2>1 DEF RunTask, Dequeue
  <2>2. CASE RunPark(s)
    BY <1>1, <2>0, <2>2 DEF RunPark, Dequeue
  <2>3. CASE RunPanic(s)
    BY <1>1, <2>3 DEF RunPanic
  <2>4. CASE ParkedTask(s)
    <3>1. stash' = stash \/ stash' = [stash EXCEPT ![s] = Append(@, Head1(s))]
      BY <2>4 DEF ParkedTask
    <3>2. stash' \in [Shards -> Seq(Task)]
      <4>1. Head1(s) \in Task
        BY <2>0, <2>4 DEF ParkedTask
      <4>2. Append(stash[s], Head1(s)) \in Seq(Task)
        BY <1>1, <4>1
      <4> QED BY <1>1, <3>1, <4>2
    <3> QED BY <1>1, <2>0, <2>4, <3>2 DEF ParkedTask, Dequeue
  <2>5. CASE ParkedControl(s)
    BY <1>1, <2>0, <2>5 DEF ParkedControl, Dequeue
  <2>6. CASE Drain(s)
    BY <1>1, <2>6 DEF Drain
  <2>7. CASE DrainEnd(s)
    BY <1>1, <2>7 DEF DrainEnd
  <2>8. CASE Quit(s)
    <3>1. \/ at' = [at EXCEPT ![s] = "drain"] /\ closing' = closing
          \/ at' = [at EXCEPT ![s] = "gone"] /\ closing' = s + 1
      BY <2>8 DEF Quit
    <3>0. closing = s /\ UNCHANGED <<queue, ptok, stash>>
      BY <2>8 DEF Quit
    <3>2. closing' \in 0..(NShards + 1) /\ UNCHANGED <<queue, ptok, stash>>
      <4>1. s \in 1..NShards /\ s + 1 \in 0..(NShards + 1)
        BY PauseAssumption DEF Shards
      <4> QED BY <1>1, <3>0, <3>1, <4>1
    <3> QED BY <1>1, <3>1, <3>2
  <2> QED BY <1>6, <2>1, <2>2, <2>3, <2>4, <2>5, <2>6, <2>7, <2>8 DEF Shard
<1>7. CASE Close
  BY <1>1, <1>7 DEF Close, shardVars
<1>8. CASE UNCHANGED <<vars, conf>>
  BY <1>2, <1>8 DEF vars
<1> QED BY <1>4, <1>5, <1>6, <1>7, <1>8 DEF Next

\* Every step keeps the types of the connections' variables and the workload.
LEMMA ConnTypeStep ==
  ASSUME TypeOK, conf \in Confs, [Next]_<<vars, conf>>
  PROVE  /\ ConnTypes' /\ \A x \in Conns : calls'[x] <= conf'.calls[x]
         /\ conf' \in Confs
<1> USE PauseAssumption DEF Shards, ConnTypes
<1>1. /\ conf' = conf /\ conf.calls \in [Conns -> Nat]
      /\ conf.keys \in [Conns -> SUBSET Shards]
  BY DEF Next, vars, Conf
<1>2. ConnTypes /\ \A x \in Conns : calls[x] <= conf.calls[x]
  BY DEF TypeOK
<1> SUFFICES ConnTypes' /\ \A x \in Conns : calls'[x] <= conf.calls[x]
  BY <1>1
<1>3. ASSUME NEW c \in Conns, Conn(c)
      PROVE  ConnTypes' /\ \A x \in Conns : calls'[x] <= conf.calls[x]
  <2>1. ASSUME NEW T \in SUBSET conf.keys[c], Call(c, T)
        PROVE  ConnTypes' /\ \A x \in Conns : calls'[x] <= conf.calls[x]
    <3>1. T \in SUBSET Shards
      BY <1>1
    <3> QED BY <1>1, <1>2, <2>1, <3>1 DEF Call
  <2>2. CASE Return(c)
    BY <1>2, <2>2 DEF Return
  <2>3. CASE Lock(c)
    BY <1>1, <1>2, <2>3 DEF Lock
  <2>4. CASE SendPark(c)
    BY <1>2, <2>4 DEF SendPark
  <2>5. CASE Resume(c)
    BY <1>2, <2>5 DEF Resume
  <2>6. CASE SendUnpark(c)
    BY <1>2, <2>6 DEF SendUnpark
  <2>7. CASE Unlock(c)
    BY <1>2, <2>7 DEF Unlock
  <2> QED BY <1>3, <2>1, <2>2, <2>3, <2>4, <2>5, <2>6, <2>7 DEF Conn
<1>4. ASSUME NEW c \in Conns, NEW s \in Shards, Enqueue(c, s)
      PROVE  ConnTypes' /\ \A x \in Conns : calls'[x] <= conf.calls[x]
  BY <1>2, <1>4 DEF Enqueue
<1>5. ASSUME NEW s \in Shards, Shard(s)
      PROVE  ConnTypes' /\ \A x \in Conns : calls'[x] <= conf.calls[x]
  <2>1. CASE UNCHANGED connVars
    BY <1>2, <2>1 DEF connVars
  <2>2. ASSUME NEW t, Execute(s, t), UNCHANGED <<txMu, ctr, pc, tok, next, send, calls>>
        PROVE  ConnTypes' /\ \A x \in Conns : calls'[x] <= conf.calls[x]
    BY <1>2, <2>2 DEF Execute
  <2>3. CASE RunPark(s)
    <3>1. next' = [next EXCEPT ![Head1(s).conn] = s + 1]
          /\ pc' = [pc EXCEPT ![Head1(s).conn] = IF s = NShards THEN "held" ELSE "pausing"]
          /\ UNCHANGED <<txMu, ctr, tok, send, wait, calls>>
      BY <2>3 DEF RunPark
    <3> HIDE DEF Shards
    <3>2. s + 1 \in 1..(NShards + 1)
      BY DEF Shards
    <3> QED BY <1>2, <3>1, <3>2
  <2>4. CASE ParkedTask(s)
    <3>1. CASE Execute(s, Head1(s))
      BY <2>2, <2>4, <3>1 DEF ParkedTask
    <3>2. CASE UNCHANGED wait
      BY <1>2, <2>4, <3>2 DEF ParkedTask
    <3> QED BY <2>4, <3>1, <3>2 DEF ParkedTask
  <2>5. CASE RunTask(s)
    BY <2>2, <2>5 DEF RunTask
  <2>6. CASE Drain(s)
    BY <2>2, <2>6 DEF Drain
  <2> QED BY <1>5, <2>1, <2>3, <2>4, <2>5, <2>6
          DEF Shard, RunPanic, ParkedControl, DrainEnd, Quit
<1>6. CASE Close
  BY <1>2, <1>6 DEF Close, connVars
<1>7. CASE UNCHANGED <<vars, conf>>
  BY <1>2, <1>7 DEF vars
<1> QED BY <1>3, <1>4, <1>5, <1>6, <1>7 DEF Next

-----------------------------------------------------------------------------
(* The lock, the token and the calls.                                       *)

\* A park message goes with its connection waiting for the acknowledgement.
LEMMA ParkHead ==
  ASSUME TypeOK, ParkInv, NEW s \in Shards, queue[s] # <<>>, Head1(s).kind = "park"
  PROVE  /\ Head1(s).conn \in Conns /\ Head1(s).tok # 0
         /\ pc[Head1(s).conn] = "acking" /\ next[Head1(s).conn] = s
<1>1. queue[s] \in Seq(Task) /\ 1 \in DOMAIN queue[s] /\ Head1(s) = queue[s][1]
  BY DEF TypeOK, ShardTypes, Head1
<1>2. Head1(s) \in Task
  BY HeadIsTask
<1> QED BY <1>1, <1>2, TaskFields DEF ParkInv, ParkedBy

\* Every step keeps HolderInv and CallInv.
LEMMA HolderStep ==
  ASSUME TypeOK, conf \in Confs, HolderInv, CallInv, ParkInv, [Next]_<<vars, conf>>
  PROVE  HolderInv' /\ CallInv'
<1> SUFFICES ASSUME NEW d \in Conns PROVE Holds(d)' /\ Calls(d)'
  BY DEF HolderInv, CallInv
<1> USE PauseAssumption DEF Shards, Holds, Calls, Holding
<1>1. Holds(d) /\ Calls(d)
  BY DEF HolderInv, CallInv
<1>2. conf.keys \in [Conns -> SUBSET Shards]
  BY DEF Conf
<1>3. ASSUME NEW c \in Conns, Conn(c) PROVE Holds(d)' /\ Calls(d)'
  <2>0. Holds(c) /\ Calls(c)
    BY DEF HolderInv, CallInv
  <2>1. ASSUME NEW T \in SUBSET conf.keys[c], Call(c, T) PROVE Holds(d)' /\ Calls(d)'
    BY <1>1, <2>0, <2>1 DEF TypeOK, ConnTypes, Call
  <2>2. CASE Return(c)
    BY <1>1, <2>0, <2>2 DEF TypeOK, ConnTypes, Return
  <2>3. CASE Lock(c)
    BY <1>1, <2>0, <2>3 DEF TypeOK, ConnTypes, Lock
  <2>4. CASE SendPark(c)
    BY <1>1, <2>0, <2>4 DEF TypeOK, ConnTypes, SendPark
  <2>5. CASE Resume(c)
    BY <1>1, <2>0, <2>5 DEF TypeOK, ConnTypes, Resume
  <2>6. CASE SendUnpark(c)
    BY <1>1, <2>0, <2>6 DEF TypeOK, ConnTypes, SendUnpark
  <2>7. CASE Unlock(c)
    BY <1>1, <2>0, <2>7 DEF TypeOK, ConnTypes, Unlock
  <2> QED BY <1>3, <2>1, <2>2, <2>3, <2>4, <2>5, <2>6, <2>7 DEF Conn
<1>4. ASSUME NEW c \in Conns, NEW s \in Shards, Enqueue(c, s) PROVE Holds(d)' /\ Calls(d)'
  BY <1>1, <1>4 DEF TypeOK, ConnTypes, Enqueue
<1>5. ASSUME NEW s \in Shards, Shard(s) PROVE Holds(d)' /\ Calls(d)'
  <2>1. ASSUME NEW t, wait' = [wait EXCEPT ![t.conn] = @ \ {s}],
               UNCHANGED <<txMu, pc, tok, next, send>>
        PROVE  Holds(d)' /\ Calls(d)'
    BY <1>1, <2>1 DEF TypeOK, ConnTypes
  <2>2. CASE RunPark(s)
    <3>1. PICK c \in Conns : c = Head1(s).conn /\ pc[c] = "acking" /\ next[c] = s
      BY <2>2, ParkHead DEF RunPark
    <3>2. /\ pc' = [pc EXCEPT ![c] = IF s = NShards THEN "held" ELSE "pausing"]
          /\ next' = [next EXCEPT ![c] = s + 1]
          /\ UNCHANGED <<txMu, tok, send, wait>>
      BY <2>2, <3>1 DEF RunPark
    <3>3. Holds(c) /\ Calls(c)
      BY DEF HolderInv, CallInv
    <3> QED BY <1>1, <3>1, <3>2, <3>3 DEF TypeOK, ConnTypes
  <2>3. CASE UNCHANGED connVars
    BY <1>1, <2>3 DEF connVars
  <2>4. CASE ParkedTask(s)
    <3>1. CASE Execute(s, Head1(s))
      BY <2>1, <2>4, <3>1 DEF ParkedTask, Execute
    <3>2. CASE UNCHANGED wait
      BY <1>1, <2>4, <3>2 DEF ParkedTask
    <3> QED BY <2>4, <3>1, <3>2 DEF ParkedTask
  <2>5. CASE RunTask(s)
    BY <2>1, <2>5 DEF RunTask, Execute
  <2>6. CASE Drain(s)
    BY <2>1, <2>6 DEF Drain, Execute
  <2> QED BY <1>5, <2>2, <2>3, <2>4, <2>5, <2>6
        DEF Shard, RunPanic, ParkedControl, DrainEnd, Quit
<1>6. CASE Close
  BY <1>1, <1>6 DEF Close, connVars
<1>7. CASE UNCHANGED <<vars, conf>>
  BY <1>1, <1>7 DEF vars
<1> QED BY <1>3, <1>4, <1>5, <1>6, <1>7 DEF Next

-----------------------------------------------------------------------------
(* The park messages.                                                       *)


\* A message that is no park message, and the first message leaving.
LEMMA ParksKept ==
  ASSUME NEW q \in Seq(Task), NEW s, NEW p, NEW n, ParkedBy(q, s, p, n), NEW r
  PROVE  /\ \A t \in Task : t.kind # "park" /\ r = Append(q, t) => ParkedBy(r, s, p, n)
         /\ q # <<>> /\ r = Tail(q) => ParkedBy(r, s, p, n)
         /\ q # <<>> /\ r = Tail(q) /\ Head(q).kind = "park" =>
              \A i \in DOMAIN r : r[i].kind = "park" => r[i].conn # Head(q).conn
<1>1. /\ DOMAIN q = 1..Len(q) /\ Len(q) \in Nat
      /\ q # <<>> => Len(q) # 0 /\ Head(q) = q[1]
  OBVIOUS
<1>2. ASSUME NEW t \in Task, t.kind # "park", r = Append(q, t) PROVE ParkedBy(r, s, p, n)
  <2>1. /\ DOMAIN r = 1..(Len(q) + 1) /\ r[Len(q) + 1] = t
        /\ \A i \in 1..Len(q) : r[i] = q[i]
    BY <1>2
  <2>2. \A i \in DOMAIN r : r[i].kind = "park" => i \in DOMAIN q /\ r[i] = q[i]
    BY <1>1, <1>2, <2>1
  <2> QED BY <2>2 DEF ParkedBy
<1>3. ASSUME q # <<>>, r = Tail(q)
      PROVE  /\ ParkedBy(r, s, p, n)
             /\ Head(q).kind = "park" =>
                  \A i \in DOMAIN r : r[i].kind = "park" => r[i].conn # Head(q).conn
  <2>1. DOMAIN r = 1..(Len(q) - 1)
    BY <1>3
  <2>2. \A i \in DOMAIN r : i \in Nat /\ i + 1 \in DOMAIN q /\ r[i] = q[i + 1] /\ i + 1 # 1
    BY <1>1, <1>3, <2>1
  <2>3. \A i, j \in DOMAIN r : i + 1 = j + 1 => i = j
    BY <2>2
  <2>4. ParkedBy(r, s, p, n)
    BY <2>2, <2>3 DEF ParkedBy
  <2>5. 1 \in DOMAIN q
    BY <1>1, <1>3
  <2>6. ASSUME NEW i \in DOMAIN r, Head(q).kind = "park", r[i].kind = "park"
        PROVE  r[i].conn # Head(q).conn
    BY <1>1, <1>3, <2>2, <2>5, <2>6 DEF ParkedBy
  <2> QED BY <2>4, <2>6
<1> QED BY <1>2, <1>3

\* A park message for a connection with none in the queue.
LEMMA ParkSent ==
  ASSUME NEW q \in Seq(Task), NEW s, NEW p, NEW n, ParkedBy(q, s, p, n),
         NEW t \in Task, t.kind = "park", NEW r, r = Append(q, t),
         p[t.conn] # "acking", NEW p2, p2[t.conn] = "acking", n[t.conn] = s,
         \A c \in Conns : c # t.conn => p2[c] = p[c]
  PROVE  ParkedBy(r, s, p2, n)
<1>1. /\ DOMAIN q = 1..Len(q) /\ Len(q) \in Nat
      /\ DOMAIN r = 1..(Len(q) + 1) /\ r[Len(q) + 1] = t
      /\ \A i \in 1..Len(q) : r[i] = q[i]
  OBVIOUS
<1>2. \A i \in DOMAIN q : q[i].kind = "park" => q[i].conn \in Conns /\ q[i].conn # t.conn
  BY TaskFields DEF ParkedBy
<1>3. \A i \in DOMAIN r : i \in DOMAIN q \/ i = Len(q) + 1
  BY <1>1
<1>4. ASSUME NEW i \in DOMAIN r, r[i].kind = "park"
      PROVE  /\ p2[r[i].conn] = "acking" /\ n[r[i].conn] = s
             /\ \A j \in DOMAIN r : r[j].kind = "park" /\ r[j].conn = r[i].conn => i = j
  BY <1>1, <1>2, <1>3, <1>4 DEF ParkedBy
<1> QED BY <1>4 DEF ParkedBy

\* Every step keeps ParkInv.
LEMMA ParkStep ==
  ASSUME TypeOK, HolderInv, ParkInv, [Next]_<<vars, conf>>
  PROVE  ParkInv'
<1> DEFINE Ok(x) == ParkedBy(queue'[x], x, pc', next')
           Tok(x) == at'[x] = "parked" => ptok'[x] # 0
<1>1. /\ queue \in [Shards -> Seq(Task)] /\ DOMAIN at = Shards /\ DOMAIN ptok = Shards
      /\ DOMAIN pc = Conns /\ DOMAIN next = Conns /\ tok \in [Conns -> Nat]
      /\ next \in [Conns -> 1..(NShards + 1)]
  BY DEF TypeOK, ShardTypes, ConnTypes
<1>2. \A x \in Shards : (at[x] = "parked" => ptok[x] # 0) /\ ParkedBy(queue[x], x, pc, next)
  BY DEF ParkInv
<1>3. ASSUME \A c \in Conns : pc[c] = "acking" => pc'[c] = "acking" /\ next'[c] = next[c],
             NEW x \in Shards, NEW q \in Seq(Task), ParkedBy(q, x, pc, next)
      PROVE  ParkedBy(q, x, pc', next')
  <2>1. \A i \in DOMAIN q : q[i].kind = "park" => q[i].conn \in Conns
    BY <1>3, TaskFields
  <2> QED BY <1>3, <2>1 DEF ParkedBy
<1>4. ASSUME \A c \in Conns : pc[c] = "acking" => pc'[c] = "acking" /\ next'[c] = next[c],
             UNCHANGED queue, NEW x \in Shards
      PROVE  Ok(x)
  BY <1>1, <1>2, <1>3, <1>4
<1>5. ASSUME \A c \in Conns : pc[c] = "acking" => pc'[c] = "acking" /\ next'[c] = next[c],
             NEW s \in Shards, NEW t \in Task, t.kind # "park",
             queue' = [queue EXCEPT ![s] = Append(@, t)], NEW x \in Shards
      PROVE  Ok(x)
  <2>1. queue'[x] = queue[x] \/ queue'[x] = Append(queue[x], t)
    BY <1>1, <1>5
  <2>2. queue'[x] \in Seq(Task)
    BY <1>1, <1>5, <2>1
  <2>3. ParkedBy(queue'[x], x, pc, next)
    BY <1>1, <1>2, <1>5, <2>1, ParksKept
  <2> QED BY <1>3, <1>5, <2>2, <2>3
<1>6. ASSUME \A c \in Conns : pc[c] = "acking" => pc'[c] = "acking" /\ next'[c] = next[c],
             NEW s \in Shards, queue[s] # <<>>, Dequeue(s), NEW x \in Shards
      PROVE  Ok(x)
  <2>1. \/ queue'[x] = queue[x]
        \/ queue[x] # <<>> /\ queue'[x] = Tail(queue[x])
    <3>1. queue' = [queue EXCEPT ![s] = Tail(queue[s])]
      BY <1>6 DEF Dequeue
    <3>2. x = s => queue'[x] = Tail(queue[x])
      BY <1>1, <3>1
    <3>3. x # s => queue'[x] = queue[x]
      BY <1>1, <3>1
    <3>4. x = s => queue[x] # <<>>
      BY <1>6
    <3> QED BY ONLY <3>2, <3>3, <3>4
  <2>2. queue'[x] \in Seq(Task)
    <3>1. queue[x] \in Seq(Task)
      BY <1>1
    <3>2. queue[x] # <<>> => Tail(queue[x]) \in Seq(Task)
      BY ONLY <3>1
    <3> QED BY ONLY <2>1, <3>1, <3>2
  <2>3. ParkedBy(queue'[x], x, pc, next)
    BY <1>1, <1>2, <2>1, ParksKept
  <2> QED BY <1>3, <1>6, <2>2, <2>3
<1> HIDE DEF Ok
<1>7. ASSUME NEW c \in Conns, Conn(c), NEW x \in Shards PROVE Ok(x) /\ Tok(x)
  <2>1. ASSUME pc[c] # "acking", UNCHANGED <<queue, at, ptok>>,
               \A d \in Conns : d # c => pc'[d] = pc[d] /\ next'[d] = next[d]
        PROVE  Ok(x) /\ Tok(x)
    BY <1>2, <1>4, <2>1
  <2>2. ASSUME NEW T, Call(c, T) PROVE Ok(x) /\ Tok(x)
    BY <1>1, <2>1, <2>2 DEF Call
  <2>3. CASE Return(c) \/ Lock(c) \/ Resume(c) \/ Unlock(c)
    BY <1>1, <2>1, <2>3 DEF Return, Lock, Resume, Unlock
  <2>4. CASE SendUnpark(c)
    <3>1. /\ pc[c] = "resuming" /\ next[c] \in Shards
          /\ queue' = [queue EXCEPT ![next[c]] = Append(@, Unpark)]
          /\ next' = [next EXCEPT ![c] = @ + 1]
          /\ UNCHANGED <<at, ptok, pc>>
      BY <1>1, <2>4, PauseAssumption DEF SendUnpark, Shards
    <3>2. \A d \in Conns : pc[d] = "acking" => pc'[d] = "acking" /\ next'[d] = next[d]
      BY <1>1, <3>1
    <3>3. Ok(x)
      BY <1>5, <3>1, <3>2, Messages
    <3> QED BY <1>2, <3>1, <3>3
  <2>5. CASE SendPark(c)
    <3> DEFINE t == Park(c, tok[c])
    <3>1. /\ pc[c] = "pausing" /\ next[c] \in Shards /\ tok[c] \in Nat \ {0}
          /\ queue' = [queue EXCEPT ![next[c]] = Append(@, t)]
          /\ pc' = [pc EXCEPT ![c] = "acking"]
          /\ UNCHANGED <<at, ptok, next>>
      BY <1>1, <2>5 DEF SendPark, HolderInv, Holds, Holding
    <3>2. t \in Task /\ t.kind = "park" /\ t.conn = c
      BY <3>1, Messages
    <3> HIDE DEF t
    <3>3. CASE x = next[c]
      <4>1. /\ queue[x] \in Seq(Task) /\ queue'[x] = Append(queue[x], t)
            /\ ParkedBy(queue[x], x, pc, next) /\ pc'[c] = "acking"
            /\ \A d \in Conns : d # c => pc'[d] = pc[d]
        BY <1>1, <1>2, <3>1, <3>3
      <4>2. /\ pc[t.conn] # "acking" /\ pc'[t.conn] = "acking" /\ next[t.conn] = x
            /\ \A d \in Conns : d # t.conn => pc'[d] = pc[d]
        BY <3>1, <3>2, <3>3, <4>1
      <4>3. ParkedBy(queue'[x], x, pc', next)
        <5> DEFINE q == queue[x]
                   r == queue'[x]
                   p == pc
                   p2 == pc'
        <5>1. /\ q \in Seq(Task) /\ ParkedBy(q, x, p, next) /\ r = Append(q, t)
              /\ t \in Task /\ t.kind = "park"
          BY <3>2, <4>1
        <5>2. /\ p[t.conn] # "acking" /\ p2[t.conn] = "acking" /\ next[t.conn] = x
              /\ \A d \in Conns : d # t.conn => p2[d] = p[d]
          BY <4>2
        <5> HIDE DEF q, r, p, p2
        <5>3. ParkedBy(r, x, p2, next)
          BY ONLY <5>1, <5>2, ParkSent
        <5> QED BY <5>3 DEF r, p2
      <4> QED BY <1>2, <3>1, <4>3 DEF Ok
    <3>4. CASE x # next[c]
      <4>1. queue'[x] = queue[x] /\ queue[x] \in Seq(Task)
        BY <1>1, <3>1, <3>4
      <4>2. \A d \in Conns : pc[d] = "acking" => pc'[d] = "acking" /\ next'[d] = next[d]
        BY <1>1, <3>1
      <4> QED BY <1>2, <1>3, <3>1, <4>1, <4>2 DEF Ok
    <3> QED BY <3>3, <3>4
  <2> QED BY <1>7, <2>2, <2>3, <2>4, <2>5 DEF Conn
<1>8. ASSUME NEW c \in Conns, NEW s \in Shards, Enqueue(c, s), NEW x \in Shards
      PROVE  Ok(x) /\ Tok(x)
  <2>1. Fn(c, tok[c]) \in Task /\ Fn(c, tok[c]).kind = "fn"
    BY <1>1, Messages
  <2>2. /\ queue' = [queue EXCEPT ![s] = Append(@, Fn(c, tok[c]))]
        /\ UNCHANGED <<at, ptok, pc, next>>
    BY <1>8 DEF Enqueue
  <2> QED BY <1>2, <1>5, <2>1, <2>2
<1>9. ASSUME NEW s \in Shards, Shard(s), NEW x \in Shards PROVE Ok(x) /\ Tok(x)
  <2>1. CASE RunPark(s)
    <3> DEFINE c == Head1(s).conn
    <3>1. /\ queue[s] # <<>> /\ c \in Conns /\ Head1(s).tok # 0 /\ Head1(s).kind = "park"
          /\ pc[c] = "acking" /\ next[c] = s
          /\ at' = [at EXCEPT ![s] = "parked"] /\ ptok' = [ptok EXCEPT ![s] = Head1(s).tok]
          /\ pc' = [pc EXCEPT ![c] = IF s = NShards THEN "held" ELSE "pausing"]
          /\ next' = [next EXCEPT ![c] = s + 1]
          /\ queue' = [queue EXCEPT ![s] = Tail(@)]
      BY <2>1, ParkHead DEF RunPark, Dequeue
    <3>2. Tok(x)
      BY <1>1, <1>2, <3>1
    <3> HIDE DEF c
    <3>3. ASSUME NEW q \in Seq(Task), ParkedBy(q, x, pc, next),
                 \A i \in DOMAIN q : q[i].kind = "park" => q[i].conn # c
          PROVE  ParkedBy(q, x, pc', next')
      <4>1. \A i \in DOMAIN q : q[i].kind = "park" =>
              pc'[q[i].conn] = pc[q[i].conn] /\ next'[q[i].conn] = next[q[i].conn]
        BY <1>1, <3>1, <3>3, TaskFields
      <4> QED BY <3>3, <4>1 DEF ParkedBy
    <3>4. CASE x = s
      <4>1. queue[x] \in Seq(Task) /\ queue'[x] = Tail(queue[x]) /\ queue[x] # <<>>
            /\ Head(queue[x]).kind = "park" /\ c = Head(queue[x]).conn
        BY <1>1, <3>1, <3>4 DEF Head1, c
      <4>2. queue'[x] \in Seq(Task)
        BY <4>1
      <4>3. /\ ParkedBy(queue'[x], x, pc, next)
            /\ \A i \in DOMAIN queue'[x] : queue'[x][i].kind = "park" => queue'[x][i].conn # c
        BY <1>2, <4>1, ParksKept
      <4> QED BY <3>2, <3>3, <4>2, <4>3 DEF Ok
    <3>5. CASE x # s
      <4>1. queue'[x] = queue[x] /\ queue[x] \in Seq(Task) /\ ParkedBy(queue[x], x, pc, next)
        BY <1>1, <1>2, <3>1, <3>5
      <4>2. \A i \in DOMAIN queue[x] : queue[x][i].kind = "park" => queue[x][i].conn # c
        BY <3>1, <3>5, <4>1 DEF ParkedBy
      <4> QED BY <3>2, <3>3, <4>1, <4>2 DEF Ok
    <3> QED BY <3>4, <3>5
  <2>2. CASE RunTask(s) \/ ParkedTask(s)
    <3>1. queue[s] # <<>> /\ Dequeue(s) /\ UNCHANGED <<at, ptok, pc, next>>
      BY <2>2 DEF RunTask, ParkedTask
    <3> QED BY <1>2, <1>6, <3>1
  <2>3. CASE ParkedControl(s)
    <3>1. /\ queue[s] # <<>> /\ Dequeue(s) /\ at' = [at EXCEPT ![s] = "drain"]
          /\ UNCHANGED <<ptok, pc, next>>
      BY <2>3 DEF ParkedControl, connVars
    <3> QED BY <1>1, <1>2, <1>6, <3>1
  <2>4. CASE RunPanic(s) \/ Drain(s) \/ DrainEnd(s) \/ Quit(s)
    <3>1. UNCHANGED <<queue, ptok, pc, next>>
      BY <2>4 DEF RunPanic, Drain, DrainEnd, Quit, connVars
    <3>2. at'[x] = "parked" => at[x] = "parked"
      BY <1>1, <2>4 DEF RunPanic, Drain, DrainEnd, Quit
    <3> QED BY <1>2, <1>4, <3>1, <3>2
  <2> QED BY <1>9, <2>1, <2>2, <2>3, <2>4 DEF Shard
<1>10. ASSUME UNCHANGED <<queue, at, ptok, pc, next>>, NEW x \in Shards PROVE Ok(x) /\ Tok(x)
  BY <1>2, <1>4, <1>10
<1>11. Close \/ UNCHANGED <<vars, conf>> => UNCHANGED <<queue, at, ptok, pc, next>>
  BY DEF Close, shardVars, connVars, vars
<1>12. \A x \in Shards : Ok(x) /\ Tok(x)
  BY <1>7, <1>8, <1>9, <1>10, <1>11 DEF Next
<1> QED BY <1>12 DEF ParkInv, Ok

-----------------------------------------------------------------------------
(* The lines.  A step leaves a shard's line as it is, adds a task to it, or *)
(* takes one from it; with the tasks goes the wait of their connections.    *)

\* A shard after the step: its line, its stash and its state.
LinedUp(s) ==
  /\ Serves(Line(s), Waiting(s), tok)
  /\ AllFn(stash[s])
  /\ at[s] = "run" => stash[s] = <<>>

\* The tokens of connections without a task do not matter.
LEMMA ServesTokens ==
  ASSUME NEW q, NEW W, NEW t1, NEW t2, Serves(q, W, t1), \A c \in W : t2[c] = t1[c]
  PROVE  Serves(q, W, t2)
BY DEF Serves

\* What a shard's line is, and the line without the first task of its stash or
\* of its queue.
LEMMA LineParts ==
  ASSUME TypeOK, NEW s \in Shards
  PROVE  /\ Line(s) \in Seq(Task) /\ Line(s) = stash[s] \o queue[s]
         /\ stash[s] \in Seq(Task) /\ queue[s] \in Seq(Task)
         /\ stash[s] # <<>> => /\ Line(s)[1] = Head(stash[s]) /\ Len(Line(s)) # 0
                               /\ Cut(Tail(stash[s]) \o queue[s], Line(s), 1)
         /\ queue[s] # <<>> =>
              /\ Len(stash[s]) + 1 \in 1..Len(Line(s))
              /\ Line(s)[Len(stash[s]) + 1] = Head1(s)
              /\ Cut(stash[s] \o Tail(queue[s]), Line(s), Len(stash[s]) + 1)
              /\ Append(stash[s], Head1(s)) \o Tail(queue[s]) = Line(s)
<1>1. stash[s] \in Seq(Task) /\ queue[s] \in Seq(Task)
  BY DEF TypeOK, ShardTypes
<1> DEFINE a == stash[s]
           b == queue[s]
           l == Line(s)
<1> HIDE DEF a, b, l
<1>2. a \in Seq(Task) /\ b \in Seq(Task) /\ l = a \o b
  BY <1>1 DEF Line, a, b, l
<1>3. /\ l \in Seq(Task) /\ Len(l) = Len(a) + Len(b)
      /\ Len(a) \in Nat /\ Len(b) \in Nat
      /\ \A i \in 1..Len(l) : l[i] = IF i <= Len(a) THEN a[i] ELSE b[i - Len(a)]
  BY <1>2
<1>4. ASSUME a # <<>>
      PROVE  l[1] = Head(a) /\ Len(l) # 0 /\ Cut(Tail(a) \o b, l, 1)
  <2> DEFINE r == Tail(a) \o b
  <2>1. Tail(a) \in Seq(Task) /\ Len(Tail(a)) = Len(a) - 1 /\ Head(a) = a[1] /\ Len(a) # 0
        /\ \A i \in 1..(Len(a) - 1) : Tail(a)[i] = a[i + 1]
    BY <1>2, <1>4
  <2>2. r \in Seq(Task) /\ Len(r) = Len(l) - 1
        /\ \A i \in 1..Len(r) : r[i] = IF i <= Len(a) - 1 THEN Tail(a)[i] ELSE b[i - (Len(a) - 1)]
    BY <1>2, <1>3, <2>1
  <2> HIDE DEF r
  <2>3. \A i \in 1..Len(r) : r[i] = l[i + 1]
    BY <1>3, <2>1, <2>2
  <2> QED BY <1>3, <2>1, <2>2, <2>3 DEF Cut, r
<1>5. ASSUME b # <<>>
      PROVE  /\ Len(a) + 1 \in 1..Len(l) /\ l[Len(a) + 1] = Head(b)
             /\ Cut(a \o Tail(b), l, Len(a) + 1)
             /\ Append(a, Head(b)) \o Tail(b) = l
  <2> DEFINE r == a \o Tail(b)
             w == Append(a, Head(b)) \o Tail(b)
  <2>1. Tail(b) \in Seq(Task) /\ Len(Tail(b)) = Len(b) - 1 /\ Head(b) = b[1] /\ Len(b) # 0
        /\ Head(b) \in Task
        /\ \A i \in 1..(Len(b) - 1) : Tail(b)[i] = b[i + 1]
    BY <1>2, <1>5
  <2>2. r \in Seq(Task) /\ Len(r) = Len(l) - 1
        /\ \A i \in 1..Len(r) : r[i] = IF i <= Len(a) THEN a[i] ELSE Tail(b)[i - Len(a)]
    BY <1>2, <1>3, <2>1
  <2>3. Append(a, Head(b)) \in Seq(Task) /\ Len(Append(a, Head(b))) = Len(a) + 1
        /\ \A i \in 1..(Len(a) + 1) :
             Append(a, Head(b))[i] = IF i <= Len(a) THEN a[i] ELSE Head(b)
    BY <1>2, <1>3, <2>1
  <2>4. w \in Seq(Task) /\ Len(w) = Len(l)
        /\ \A i \in 1..Len(w) : w[i] = IF i <= Len(a) + 1 THEN Append(a, Head(b))[i]
                                       ELSE Tail(b)[i - (Len(a) + 1)]
    BY <1>3, <2>1, <2>3
  <2> HIDE DEF r, w
  <2>5. ASSUME NEW i \in 1..Len(r) PROVE r[i] = IF i < Len(a) + 1 THEN l[i] ELSE l[i + 1]
    <3> DEFINE m == Len(a)
               n == Len(b)
               k == Tail(b)
    <3>1. m \in Nat /\ n \in Nat \ {0} /\ i \in 1..(m + n - 1)
      BY <1>3, <2>1, <2>2
    <3>2. r[i] = IF i <= m THEN a[i] ELSE k[i - m]
      BY <2>2
    <3>3. \A j \in 1..(m + n) : l[j] = IF j <= m THEN a[j] ELSE b[j - m]
      BY <1>3
    <3>4. \A j \in 1..(n - 1) : k[j] = b[j + 1]
      BY <2>1
    <3> HIDE DEF m, n, k
    <3>5. CASE i <= m
      <4>1. i \in 1..(m + n) /\ i < m + 1
        BY ONLY <3>1, <3>5
      <4> QED BY ONLY <3>2, <3>3, <3>5, <4>1 DEF m
    <3>6. CASE ~(i <= m)
      <4>1. i + 1 \in 1..(m + n) /\ i - m \in 1..(n - 1) /\ ~(i + 1 <= m) /\ ~(i < m + 1)
            /\ (i + 1) - m = (i - m) + 1
        BY ONLY <3>1, <3>6
      <4>2. r[i] = b[(i - m) + 1] /\ l[i + 1] = b[(i - m) + 1]
        BY ONLY <3>2, <3>3, <3>4, <3>6, <4>1
      <4> QED BY ONLY <4>1, <4>2 DEF m
    <3> QED BY <3>5, <3>6
  <2>6. \A i \in 1..Len(w) : w[i] = l[i]
    BY <1>3, <2>1, <2>3, <2>4
  <2>7. w = l
    BY <1>3, <2>4, <2>6, SeqEqual
  <2>8. Cut(r, l, Len(a) + 1)
    BY <2>2, <2>5 DEF Cut
  <2>9. Len(a) + 1 \in 1..Len(l) /\ l[Len(a) + 1] = Head(b)
    BY <1>3, <2>1
  <2> QED BY <2>7, <2>8, <2>9 DEF r, w
<1> QED BY <1>2, <1>3, <1>4, <1>5 DEF a, b, l, Head1

\* Every step keeps LineInv, and tells how a shard's line, and who waits there,
\* change: not at all, by a task that joins, or by one that runs.
Same(s) == Waiting(s)' = Waiting(s) /\ Before(Line(s))' = Before(Line(s))

Joined(s, c) ==
  /\ c \notin Waiting(s)
  /\ Waiting(s)' = Waiting(s) \cup {c}
  /\ Before(Line(s))' = Before(Line(s)) \cup Behind(Waiting(s), c)

Left(s, c) ==
  /\ c \in Waiting(s)
  /\ Waiting(s)' = Waiting(s) \ {c}
  /\ Before(Line(s))' = {p \in Before(Line(s)) : c # p[1] /\ c # p[2]}

\* A connection with a task at a shard is in a call; the others' tokens are free
\* to change.
LEMMA LineKept ==
  ASSUME TypeOK, CallInv, LineInv, NEW s \in Shards, Waiting(s)' = Waiting(s),
         UNCHANGED <<queue[s], stash[s]>>, at'[s] = "run" => stash[s] = <<>>,
         \A c \in Conns : pc[c] \in {"call", "heldcall"} => tok'[c] = tok[c]
  PROVE  LinedUp(s)' /\ Same(s)
<1>1. Serves(Line(s), Waiting(s), tok) /\ AllFn(stash[s])
  BY DEF LineInv
<1>2. Line(s)' = Line(s)
  BY DEF Line
<1>3. \A c \in Waiting(s) : tok'[c] = tok[c]
  BY DEF Waiting, CallInv, Calls
<1>4. Serves(Line(s), Waiting(s), tok')
  BY <1>1, <1>3, ServesTokens
<1> QED BY <1>1, <1>2, <1>4 DEF LinedUp, Same

\* A task that joins.
LEMMA LineJoins ==
  ASSUME TypeOK, CallInv, HolderInv, LineInv, NEW c \in Conns, NEW s \in Shards, Enqueue(c, s),
         NEW x \in Shards
  PROVE  LinedUp(x)' /\ IF x = s THEN Joined(x, c) ELSE Same(x)
<1>1. /\ queue \in [Shards -> Seq(Task)] /\ stash \in [Shards -> Seq(Task)]
      /\ wait \in [Conns -> SUBSET Shards] /\ send \in [Conns -> SUBSET Shards]
      /\ tok \in [Conns -> Nat]
  BY DEF TypeOK, ShardTypes, ConnTypes
<1>2. /\ s \in send[c] /\ queue' = [queue EXCEPT ![s] = Append(@, Fn(c, tok[c]))]
      /\ wait' = [wait EXCEPT ![c] = @ \cup {s}]
      /\ UNCHANGED <<at, stash, tok>>
  BY DEF Enqueue
<1>3. CASE x # s
  <2>1. Waiting(x)' = Waiting(x) /\ UNCHANGED <<queue[x], stash[x]>>
    BY <1>1, <1>2, <1>3 DEF Waiting
  <2>2. at'[x] = "run" => stash[x] = <<>>
    BY <1>2 DEF LineInv
  <2> QED BY <1>2, <1>3, <2>1, <2>2, LineKept
<1>4. CASE x = s
  <2> DEFINE t == Fn(c, tok[c])
  <2>1. t \in Task /\ t.kind = "fn" /\ t.conn = c /\ t.tok = tok[t.conn]
    BY <1>1, Messages
  <2> HIDE DEF t
  <2>2. Waiting(x)' = Waiting(x) \cup {t.conn} /\ t.conn \notin Waiting(x)
    BY <1>1, <1>2, <1>4, <2>1 DEF Waiting, CallInv, Calls
  <2>3. Line(x) \in Seq(Task) /\ Waiting(x) \in SUBSET Conns /\ Serves(Line(x), Waiting(x), tok)
    BY LineParts DEF Waiting, LineInv
  <2>4. Line(x)' = Append(Line(x), t)
    <3>1. queue'[x] = Append(queue[x], t) /\ stash'[x] = stash[x]
          /\ queue[x] \in Seq(Task) /\ stash[x] \in Seq(Task)
      BY <1>1, <1>2, <1>4 DEF t
    <3>2. \A a, b \in Seq(Task) : a \o Append(b, t) = Append(a \o b, t)
      BY <2>1
    <3> QED BY <3>1, <3>2 DEF Line
  <2>5. ASSUME NEW r, r = Line(x)'
        PROVE  /\ Serves(r, Waiting(x) \cup {t.conn}, tok)
               /\ Before(r) = Before(Line(x)) \cup Behind(Waiting(x), t.conn)
    <3>1. Added(r, Line(x), t) /\ t \in Task /\ t.kind = "fn" /\ t.tok = tok[t.conn]
          /\ t.conn \notin Waiting(x)
      BY <2>1, <2>2, <2>4, <2>5 DEF Added
    <3> QED BY ONLY <2>3, <3>1, Joins
  <2>6. (AllFn(stash[x]) /\ (at[x] = "run" => stash[x] = <<>>))'
    BY <1>2 DEF LineInv
  <2> QED BY <1>2, <1>4, <2>1, <2>2, <2>5, <2>6 DEF LinedUp, Joined
<1> QED BY <1>3, <1>4

\* A task of the stash or of the queue that runs.
LEMMA LineRuns ==
  ASSUME TypeOK, LineInv, NEW s \in Shards, NEW p \in 1..Len(Line(s)),
         NEW t, t = Line(s)[p], t.kind = "fn", Execute(s, t),
         Cut(Line(s)', Line(s), p), UNCHANGED tok
  PROVE  Left(s, t.conn) /\ Serves(Line(s)', Waiting(s)', tok')
<1>1. Line(s) \in Seq(Task) /\ Waiting(s) \in SUBSET Conns /\ Serves(Line(s), Waiting(s), tok)
  BY LineParts DEF Waiting, LineInv
<1>2. t.conn \in Waiting(s)
  BY <1>1 DEF Serves
<1>3. wait \in [Conns -> SUBSET Shards] /\ t.conn \in Conns
  BY <1>2 DEF TypeOK, ConnTypes, Waiting
<1>4. Waiting(s)' = Waiting(s) \ {t.conn}
  BY <1>3 DEF Waiting, Execute
<1>5. ASSUME NEW r, r = Line(s)'
      PROVE  /\ Serves(r, Waiting(s) \ {t.conn}, tok)
             /\ Before(r) = {x \in Before(Line(s)) : t.conn # x[1] /\ t.conn # x[2]}
  <2>1. Cut(r, Line(s), p)
    BY <1>5
  <2>2. Line(s)[p].kind = "fn"
    OBVIOUS
  <2>3. /\ Serves(r, Waiting(s) \ {Line(s)[p].conn}, tok)
        /\ Before(r) = {x \in Before(Line(s)) : Line(s)[p].conn # x[1] /\ Line(s)[p].conn # x[2]}
    BY ONLY <1>1, <2>1, <2>2, p \in 1..Len(Line(s)), Leaves
  <2> QED BY <2>3
<1> QED BY <1>2, <1>4, <1>5 DEF Left

\* A control message that is sent or received.
LEMMA LineControl ==
  ASSUME TypeOK, LineInv, NEW s \in Shards, UNCHANGED <<wait, stash, tok>>,
         at'[s] = "run" => stash[s] = <<>>,
         \/ \E t \in Task : t.kind # "fn" /\ queue'[s] = Append(queue[s], t)
         \/ queue[s] # <<>> /\ Head1(s).kind # "fn" /\ queue'[s] = Tail(queue[s])
  PROVE  LinedUp(s)' /\ Same(s)
<1>1. /\ Line(s) \in Seq(Task) /\ queue[s] \in Seq(Task) /\ stash[s] \in Seq(Task)
      /\ Waiting(s) \in SUBSET Conns /\ Serves(Line(s), Waiting(s), tok)
  BY LineParts DEF Waiting, LineInv
<1>2. Waiting(s)' = Waiting(s) /\ AllFn(stash[s])' /\ (at[s] = "run" => stash[s] = <<>>)'
  BY DEF Waiting, LineInv
<1>3. ASSUME NEW r, r = Line(s)' PROVE Serves(r, Waiting(s), tok) /\ Before(r) = Before(Line(s))
  <2>1. ASSUME NEW t \in Task, t.kind # "fn", queue'[s] = Append(queue[s], t)
        PROVE  Serves(r, Waiting(s), tok) /\ Before(r) = Before(Line(s))
    <3>1. \A a, b \in Seq(Task) : a \o Append(b, t) = Append(a \o b, t)
      BY <2>1
    <3>2. Added(r, Line(s), t)
      BY <1>1, <1>3, <2>1, <3>1 DEF Line, Added
    <3>3. t \in Task /\ t.kind # "fn"
      BY <2>1
    <3> QED BY ONLY <1>1, <3>2, <3>3, JoinsControl
  <2>2. ASSUME queue[s] # <<>>, Head1(s).kind # "fn", queue'[s] = Tail(queue[s])
        PROVE  Serves(r, Waiting(s), tok) /\ Before(r) = Before(Line(s))
    <3> DEFINE p == Len(stash[s]) + 1
    <3>1. p \in 1..Len(Line(s)) /\ Line(s)[p].kind # "fn" /\ Cut(r, Line(s), p)
      BY <1>3, <2>2, LineParts DEF Line
    <3> HIDE DEF p
    <3> QED BY ONLY <1>1, <3>1, Leaves
  <2> QED BY <2>1, <2>2
<1> QED BY <1>2, <1>3 DEF LinedUp, Same

\* Steps of a connection other than sending a task.
LEMMA LineOfConn ==
  ASSUME TypeOK, HolderInv, CallInv, LineInv, NEW c \in Conns, Conn(c), NEW x \in Shards
  PROVE  LinedUp(x)' /\ Same(x)
<1>1. /\ queue \in [Shards -> Seq(Task)] /\ DOMAIN pc = Conns
      /\ next \in [Conns -> 1..(NShards + 1)] /\ tok \in [Conns -> Nat]
      /\ (at[x] = "run" => stash[x] = <<>>)
  BY DEF TypeOK, ShardTypes, ConnTypes, LineInv
<1>2. ASSUME UNCHANGED <<queue, stash, at, wait>>,
             \A d \in Conns : pc[d] \in {"call", "heldcall"} => tok'[d] = tok[d]
      PROVE  LinedUp(x)' /\ Same(x)
  <2>1. Waiting(x)' = Waiting(x)
    BY <1>2 DEF Waiting
  <2> QED BY <1>1, <1>2, <2>1, LineKept
<1>3. ASSUME NEW s \in Shards, NEW t \in Task, t.kind # "fn",
             queue' = [queue EXCEPT ![s] = Append(@, t)],
             UNCHANGED <<stash, at, wait, tok>>
      PROVE  LinedUp(x)' /\ Same(x)
  <2>1. CASE x = s
    <3>1. queue'[x] = Append(queue[x], t)
      BY <1>1, <1>3, <2>1
    <3> QED BY <1>1, <1>3, <3>1, LineControl
  <2>2. CASE x # s
    <3>1. queue'[x] = queue[x] /\ Waiting(x)' = Waiting(x)
      BY <1>1, <1>3, <2>2 DEF Waiting
    <3> QED BY <1>1, <1>3, <3>1, LineKept
  <2> QED BY <2>1, <2>2
<1>4. ASSUME NEW T, Call(c, T) PROVE LinedUp(x)' /\ Same(x)
  BY <1>2, <1>4 DEF Call
<1>5. CASE Return(c) \/ Resume(c)
  BY <1>2, <1>5 DEF Return, Resume
<1>6. CASE Lock(c) \/ Unlock(c)
  <2>1. pc[c] \notin {"call", "heldcall"} /\ \A d \in Conns : d # c => tok'[d] = tok[d]
    BY <1>1, <1>6 DEF Lock, Unlock
  <2> QED BY <1>2, <1>6, <2>1 DEF Lock, Unlock
<1>7. CASE SendPark(c)
  <2>1. next[c] \in Shards /\ tok[c] \in Nat \ {0}
    BY <1>1, <1>7 DEF SendPark, HolderInv, Holds, Holding
  <2>2. Park(c, tok[c]) \in Task /\ Park(c, tok[c]).kind # "fn"
    BY <2>1, Messages
  <2> QED BY <1>3, <1>7, <2>1, <2>2 DEF SendPark
<1>8. CASE SendUnpark(c)
  <2>1. next[c] \in Shards
    BY <1>1, <1>8, PauseAssumption DEF SendUnpark, Shards
  <2>2. Unpark \in Task /\ Unpark.kind # "fn"
    BY Messages
  <2> QED BY <1>3, <1>8, <2>1, <2>2 DEF SendUnpark
<1> QED BY <1>4, <1>5, <1>6, <1>7, <1>8 DEF Conn

\* Steps of a shard: the others' lines are as before.
LEMMA LineElsewhere ==
  ASSUME TypeOK, CallInv, LineInv, NEW s \in Shards, Shard(s), ~RunPanic(s),
         NEW x \in Shards, x # s
  PROVE  LinedUp(x)' /\ Same(x)
<1>1. /\ queue \in [Shards -> Seq(Task)] /\ DOMAIN at = Shards
      /\ stash \in [Shards -> Seq(Task)] /\ DOMAIN wait = Conns
  BY DEF TypeOK, ShardTypes, ConnTypes
<1>2. queue'[x] = queue[x] /\ stash'[x] = stash[x] /\ at'[x] = at[x] /\ tok' = tok
  BY <1>1 DEF Shard, RunTask, RunPark, RunPanic, ParkedTask, ParkedControl, Drain, DrainEnd,
              Quit, Dequeue, connVars
<1>3. wait' = wait \/ \E t : Execute(s, t)
  BY DEF Shard, RunTask, RunPark, RunPanic, ParkedTask, ParkedControl, Drain, DrainEnd,
         Quit, connVars
<1>4. Waiting(x)' = Waiting(x)
  BY <1>1, <1>3 DEF Waiting, Execute
<1>5. at'[x] = "run" => stash[x] = <<>>
  BY <1>2 DEF LineInv
<1> QED BY <1>2, <1>4, <1>5, LineKept

\* A shard's own line: its oldest task runs, or a parked shard's holder's.
Runs(s, t) ==
  \/ RunTask(s) /\ t = Head1(s)
  \/ ParkedTask(s) /\ t = Head1(s) /\ t.tok = ptok[s]
  \/ Drain(s) /\ t = Head(stash[s])

LEMMA LineHere ==
  ASSUME TypeOK, CallInv, LineInv, NEW s \in Shards, NEW t, Runs(s, t)
  PROVE  LinedUp(s)' /\ Left(s, t.conn) /\ t.kind = "fn" /\ \E i \in DOMAIN Line(s) : Line(s)[i] = t
<1>1. /\ stash[s] \in Seq(Task) /\ queue[s] \in Seq(Task)
      /\ DOMAIN stash = Shards /\ DOMAIN queue = Shards
      /\ AllFn(stash[s]) /\ (at[s] = "run" => stash[s] = <<>>)
  BY DEF TypeOK, ShardTypes, LineInv
<1>2. ASSUME NEW p \in 1..Len(Line(s)), t = Line(s)[p], t.kind = "fn", Execute(s, t),
             Cut(Line(s)', Line(s), p), UNCHANGED tok,
             AllFn(stash[s])' /\ (at[s] = "run" => stash[s] = <<>>)'
      PROVE  LinedUp(s)' /\ Left(s, t.conn) /\ \E i \in DOMAIN Line(s) : Line(s)[i] = t
  <2>1. Left(s, t.conn) /\ Serves(Line(s)', Waiting(s)', tok')
    BY <1>2, LineRuns
  <2>2. p \in DOMAIN Line(s)
    BY LineParts
  <2> QED BY <1>2, <2>1, <2>2 DEF LinedUp
<1>3. CASE ~(at[s] = "drain")
  <2>1. /\ queue[s] # <<>> /\ t = Head1(s) /\ t.kind = "fn" /\ Execute(s, t)
        /\ queue'[s] = Tail(queue[s]) /\ stash' = stash /\ at' = at /\ tok' = tok
    BY <1>1, <1>3 DEF Runs, RunTask, ParkedTask, Drain, Dequeue
  <2>2. Line(s)' = stash[s] \o Tail(queue[s])
    BY <2>1 DEF Line
  <2> DEFINE p == Len(stash[s]) + 1
  <2>3. /\ p \in 1..Len(Line(s)) /\ Line(s)[p] = t
        /\ Cut(Line(s)', Line(s), p)
    <3>1. /\ p \in 1..Len(Line(s)) /\ Line(s)[p] = Head1(s)
          /\ Cut(stash[s] \o Tail(queue[s]), Line(s), p)
      BY <2>1, LineParts
    <3> HIDE DEF p
    <3> QED BY <2>1, <2>2, <3>1
  <2> HIDE DEF p
  <2> QED BY <1>1, <1>2, <2>1, <2>3
<1>4. CASE at[s] = "drain"
  <2>1. /\ stash[s] # <<>> /\ t = Head(stash[s]) /\ Execute(s, t)
        /\ stash'[s] = Tail(stash[s]) /\ queue' = queue /\ at' = at /\ tok' = tok
    BY <1>1, <1>4 DEF Runs, RunTask, ParkedTask, Drain
  <2>2. t.kind = "fn" /\ AllFn(Tail(stash[s]))
    <3>1. Head(stash[s]).kind = "fn" /\ AllFn(Tail(stash[s]))
      <4>1. Taken(Tail(stash[s]), stash[s])
        BY DEF Taken
      <4> QED BY ONLY <1>1, <2>1, <4>1, TailWord
    <3> QED BY <2>1, <3>1
  <2>3. Line(s)' = Tail(stash[s]) \o queue[s]
    BY <2>1 DEF Line
  <2>4. 1 \in 1..Len(Line(s)) /\ Line(s)[1] = t /\ Cut(Line(s)', Line(s), 1)
    <3>1. Line(s)[1] = Head(stash[s]) /\ Cut(Tail(stash[s]) \o queue[s], Line(s), 1)
      BY <2>1, LineParts
    <3>2. 1 \in 1..Len(Line(s))
      <4>1. Len(Line(s)) # 0 /\ Line(s) \in Seq(Task)
        BY <2>1, LineParts
      <4>2. Len(Line(s)) \in Nat
        BY <4>1
      <4> HIDE DEF Line
      <4> QED BY ONLY <4>1, <4>2
    <3> QED BY <2>1, <2>3, <3>1, <3>2
  <2>5. (AllFn(stash[s]) /\ (at[s] = "run" => stash[s] = <<>>))'
    BY <1>4, <2>1, <2>2
  <2> QED BY <1>2, <2>1, <2>2, <2>4, <2>5
<1> QED BY <1>3, <1>4

\* The other steps of a shard leave its line as it is.
LEMMA LineSame ==
  ASSUME TypeOK, CallInv, LineInv, NEW s \in Shards, Shard(s), ~RunPanic(s),
         ~\E t : Runs(s, t)
  PROVE  LinedUp(s)' /\ Same(s)
<1>1. /\ stash[s] \in Seq(Task) /\ queue[s] \in Seq(Task) /\ DOMAIN at = Shards
      /\ DOMAIN stash = Shards /\ DOMAIN queue = Shards
      /\ AllFn(stash[s]) /\ (at[s] = "run" => stash[s] = <<>>)
      /\ Serves(Line(s), Waiting(s), tok)
  BY DEF TypeOK, ShardTypes, LineInv
<1>2. CASE RunPark(s) \/ ParkedControl(s)
  <2>1. /\ queue[s] # <<>> /\ Head1(s).kind # "fn" /\ queue'[s] = Tail(queue[s])
        /\ at'[s] # "run" /\ UNCHANGED <<wait, stash, tok>>
    BY <1>1, <1>2 DEF RunPark, ParkedControl, Dequeue, connVars
  <2> QED BY <2>1, LineControl
<1>3. CASE ParkedTask(s)
  <2>1. /\ queue[s] # <<>> /\ Head1(s).kind = "fn" /\ at[s] = "parked"
        /\ stash' = [stash EXCEPT ![s] = Append(@, Head1(s))]
        /\ queue' = [queue EXCEPT ![s] = Tail(@)]
        /\ UNCHANGED <<wait, tok, at>>
    BY <1>3 DEF ParkedTask, Dequeue, Runs
  <2>2. stash'[s] = Append(stash[s], Head1(s)) /\ queue'[s] = Tail(queue[s])
    BY <1>1, <2>1
  <2>3. Line(s)' = Line(s)
    BY <2>1, <2>2, LineParts DEF Line
  <2>4. AllFn(stash[s])'
    <3>1. Head1(s) \in Task
      BY <2>1, HeadIsTask
    <3>2. Added(stash'[s], stash[s], Head1(s))
      BY <2>2 DEF Added
    <3> QED BY <1>1, <2>1, <3>1, <3>2, AppendWord
  <2>5. Waiting(s)' = Waiting(s)
    BY <2>1 DEF Waiting
  <2> QED BY <1>1, <2>1, <2>3, <2>4, <2>5 DEF LinedUp, Same
<1>4. CASE DrainEnd(s) \/ Quit(s)
  <2>1. UNCHANGED <<queue, stash, tok, wait>> /\ (at'[s] = "run" => stash[s] = <<>>)
    BY <1>1, <1>4 DEF DrainEnd, Quit, connVars
  <2>2. Waiting(s)' = Waiting(s)
    BY <2>1 DEF Waiting
  <2> QED BY <2>1, <2>2, LineKept
<1>5. ~RunTask(s) /\ ~Drain(s)
  BY DEF Runs
<1> QED BY <1>2, <1>3, <1>4, <1>5 DEF Shard

\* Every step keeps LineInv.
LEMMA LineStep ==
  ASSUME TypeOK, HolderInv, CallInv, LineInv, [Next]_<<vars, conf>>
  PROVE  LineInv'
<1> SUFFICES ASSUME NEW x \in Shards PROVE LinedUp(x)'
  BY DEF LineInv, LinedUp
<1>1. ASSUME NEW c \in Conns, Conn(c) PROVE LinedUp(x)'
  BY <1>1, LineOfConn
<1>2. ASSUME NEW c \in Conns, NEW s \in Shards, Enqueue(c, s) PROVE LinedUp(x)'
  BY <1>2, LineJoins
<1>3. ASSUME NEW s \in Shards, Shard(s) PROVE LinedUp(x)'
  <2>1. CASE RunPanic(s)
    <3>1. UNCHANGED <<queue, stash, tok, wait>> /\ at'[x] # "run"
      BY <2>1 DEF RunPanic, connVars
    <3>2. Waiting(x)' = Waiting(x)
      BY <3>1 DEF Waiting
    <3> QED BY <3>1, <3>2, LineKept
  <2>2. CASE ~RunPanic(s)
    <3>1. CASE x # s
      BY <1>3, <2>2, <3>1, LineElsewhere
    <3>2. CASE x = s
      BY <1>3, <2>2, <3>2, LineHere, LineSame
    <3> QED BY <3>1, <3>2
  <2> QED BY <2>1, <2>2
<1>4. CASE Close \/ UNCHANGED <<vars, conf>>
  <2>1. UNCHANGED <<queue, stash, at, tok, wait>>
    BY <1>4 DEF Close, shardVars, connVars, vars
  <2>2. Waiting(x)' = Waiting(x) /\ (at'[x] = "run" => stash[x] = <<>>)
    BY <2>1 DEF Waiting, LineInv
  <2> QED BY <2>1, <2>2, LineKept
<1> QED BY <1>1, <1>2, <1>3, <1>4 DEF Next

-----------------------------------------------------------------------------
(* The phases.  While the engine is open, what is queued at a shard tells   *)
(* where the holder is between PauseAll and resume.                         *)

\* Where a shard stands for the holder.
Placed(s) ==
  /\ IsKept(s) => Kept(s)
  /\ IsCalled(s) => Called(s)
  /\ ~IsKept(s) /\ ~IsCalled(s) => Free(s)

\* A shard where nothing happens, and whose place is as before.
LEMMA PlaceKept ==
  ASSUME PhaseInv, NEW s \in Shards, UNCHANGED <<queue[s], at[s]>>,
         IsKept(s)' <=> IsKept(s), IsCalled(s)' <=> IsCalled(s)
  PROVE  Placed(s)'
BY DEF PhaseInv, Placed, Kept, Called, Free

\* Steps of a connection.
LEMMA PhaseOfConn ==
  ASSUME TypeOK, HolderInv, CallInv, PhaseInv, NEW c \in Conns, Conn(c), NEW s \in Shards
  PROVE  Placed(s)'
<1>1. /\ queue \in [Shards -> Seq(Task)] /\ DOMAIN at = Shards
      /\ DOMAIN pc = Conns /\ next \in [Conns -> 1..(NShards + 1)] /\ txMu \in Conns \cup {NoConn}
      /\ NoConn \notin Conns /\ NShards \in Nat /\ s \in 1..NShards /\ tok \in [Conns -> Nat]
  BY PauseAssumption DEF TypeOK, ShardTypes, ConnTypes, Shards
<1>2. \A d \in Conns : /\ txMu = d <=> pc[d] \in Holding
                       /\ tok[d] # 0 <=> pc[d] \in Holding
  BY DEF HolderInv, Holds
<1>3. Placed(s)
  BY DEF PhaseInv, Placed
\* The holder is elsewhere or in the same phase.
<1>4. ASSUME UNCHANGED <<queue, at, txMu, next>>,
             txMu = c => pc'[c] = pc[c] \/ {pc[c], pc'[c]} \subseteq {"held", "heldcall"},
             \A d \in Conns : d # c => pc'[d] = pc[d]
      PROVE  Placed(s)'
  <2>1. IsKept(s)' <=> IsKept(s)
    BY <1>1, <1>4 DEF IsKept
  <2>2. IsCalled(s)' <=> IsCalled(s)
    BY <1>1, <1>4 DEF IsCalled
  <2> QED BY <1>4, <2>1, <2>2, PlaceKept
<1>5. ASSUME NEW T, Call(c, T) PROVE Placed(s)'
  <2>1. txMu = c => pc[c] = "held"
    BY <1>2, <1>5 DEF Call, Holding
  <2> QED BY <1>1, <1>4, <1>5, <2>1 DEF Call
<1>6. CASE Return(c)
  <2>1. txMu = c => pc[c] = "heldcall"
    BY <1>2, <1>6 DEF Return, Holding
  <2> QED BY <1>1, <1>4, <1>6, <2>1 DEF Return
<1>7. CASE Lock(c)
  <2>1. /\ txMu = NoConn /\ txMu' = c /\ pc'[c] = "pausing" /\ next'[c] = 1
        /\ UNCHANGED <<queue, at>>
    BY <1>1, <1>7 DEF Lock
  <2>2. ~IsKept(s) /\ ~IsCalled(s) /\ ~IsKept(s)' /\ ~IsCalled(s)'
    BY <1>1, <2>1 DEF IsKept, IsCalled
  <2> QED BY <2>1, <2>2, PlaceKept
<1>8. CASE SendPark(c)
  <2> DEFINE t == Park(c, tok[c])
  <2>1. /\ txMu = c /\ txMu' = c /\ pc[c] = "pausing" /\ pc'[c] = "acking"
        /\ next' = next /\ at' = at /\ tok[c] \in Nat \ {0} /\ next[c] \in Shards
        /\ queue' = [queue EXCEPT ![next[c]] = Append(@, t)]
    BY <1>1, <1>2, <1>8 DEF SendPark, Holding, HolderInv, Holds
  <2>2. t \in Task /\ t.kind = "park"
    BY <2>1, Messages
  <2> HIDE DEF t
  <2>3. IsKept(s)' <=> IsKept(s)
    BY <2>1 DEF IsKept
  <2>4. CASE s # next[c]
    <3>1. queue'[s] = queue[s] /\ (IsCalled(s)' <=> IsCalled(s))
      BY <1>1, <2>1, <2>4 DEF IsCalled
    <3> QED BY <2>1, <2>3, <3>1, PlaceKept
  <2>5. CASE s = next[c]
    <3>1. ~IsKept(s) /\ ~IsCalled(s) /\ IsCalled(s)'
      BY <1>1, <2>1, <2>5 DEF IsKept, IsCalled
    <3>2. queue'[s] = Append(queue[s], t) /\ queue[s] \in Seq(Task) /\ at'[s] = at[s]
      BY <1>1, <2>1, <2>5
    <3>3. Free(s)
      BY <1>3, <3>1 DEF Placed
    <3>4. Called(s)'
      <4>1. Added(queue'[s], queue[s], t)
        BY <3>2 DEF Added
      <4>2. /\ AllFn(queue[s]) => OneCtl(queue'[s], "park")
            /\ OneCtl(queue[s], "unpark") => UnparkPark(queue'[s])
        BY <2>2, <3>2, <4>1, AppendWord
      <4> QED BY <3>2, <3>3, <4>2 DEF Free, Called
    <3> QED BY <2>3, <3>1, <3>4 DEF Placed
  <2> QED BY <2>4, <2>5
<1>9. CASE Resume(c)
  <2>1. /\ txMu = c /\ txMu' = c /\ pc[c] = "held" /\ pc'[c] = "resuming"
        /\ next'[c] = 1 /\ UNCHANGED <<queue, at>>
    BY <1>1, <1>2, <1>9 DEF Resume, Holding
  <2>2. IsKept(s) /\ ~IsCalled(s) /\ IsKept(s)' /\ ~IsCalled(s)'
    BY <1>1, <2>1 DEF IsKept, IsCalled
  <2> QED BY <2>1, <2>2, PlaceKept
<1>10. CASE SendUnpark(c)
  <2>1. /\ txMu = c /\ txMu' = c /\ pc[c] = "resuming" /\ pc' = pc
        /\ next'[c] = next[c] + 1 /\ at' = at /\ next[c] \in Shards
        /\ queue' = [queue EXCEPT ![next[c]] = Append(@, Unpark)]
    BY <1>1, <1>2, <1>10, PauseAssumption DEF SendUnpark, Holding, Shards
  <2>2. ~IsCalled(s) /\ ~IsCalled(s)'
    BY <2>1 DEF IsCalled
  <2>3. CASE s # next[c]
    <3>1. s >= next[c] + 1 <=> s >= next[c]
      BY <1>1, <2>3
    <3>2. queue'[s] = queue[s] /\ (IsKept(s)' <=> IsKept(s))
      BY <1>1, <2>1, <2>3, <3>1 DEF IsKept
    <3> QED BY <2>1, <2>2, <3>2, PlaceKept
  <2>4. CASE s = next[c]
    <3>1. IsKept(s) /\ ~IsKept(s)'
      BY <1>1, <2>1, <2>4 DEF IsKept
    <3>2. queue'[s] = Append(queue[s], Unpark) /\ queue[s] \in Seq(Task) /\ at'[s] = at[s]
      BY <1>1, <2>1, <2>4
    <3>3. Kept(s)
      BY <1>3, <3>1 DEF Placed
    <3>4. Free(s)'
      <4>1. Added(queue'[s], queue[s], Unpark)
        BY <3>2 DEF Added
      <4>2. AllFn(queue[s]) => OneCtl(queue'[s], "unpark")
        BY <3>2, <4>1, AppendWord, Messages
      <4> QED BY <3>2, <3>3, <4>2 DEF Free, Kept
    <3> QED BY <2>2, <3>1, <3>4 DEF Placed
  <2> QED BY <2>3, <2>4
<1>11. CASE Unlock(c)
  <2>1. /\ txMu = c /\ txMu' = NoConn /\ pc[c] = "resuming" /\ next[c] > NShards
        /\ UNCHANGED <<queue, at>>
    BY <1>1, <1>2, <1>11 DEF Unlock, Holding
  <2>2. ~IsKept(s) /\ ~IsCalled(s) /\ ~IsKept(s)' /\ ~IsCalled(s)'
    BY <1>1, <2>1 DEF IsKept, IsCalled
  <2> QED BY <2>1, <2>2, PlaceKept
<1> QED BY <1>5, <1>6, <1>7, <1>8, <1>9, <1>10, <1>11 DEF Conn

\* A shard that gives a task to run or to its stash, or gets one, stays in place.
LEMMA PlaceOfTask ==
  ASSUME TypeOK, PhaseInv, NEW s \in Shards, UNCHANGED <<at[s], txMu, pc, next>>,
         \/ \E t \in Task : t.kind = "fn" /\ queue'[s] = Append(queue[s], t)
         \/ queue[s] # <<>> /\ Head1(s).kind = "fn" /\ queue'[s] = Tail(queue[s])
  PROVE  Placed(s)'
<1>1. queue[s] \in Seq(Task) /\ Placed(s)
  BY DEF TypeOK, ShardTypes, PhaseInv, Placed
<1>2. (AllFn(queue[s]) => AllFn(queue'[s])) /\ (UnparkPark(queue[s]) => UnparkPark(queue'[s]))
      /\ (OneCtl(queue[s], "park") => OneCtl(queue'[s], "park"))
      /\ (OneCtl(queue[s], "unpark") => OneCtl(queue'[s], "unpark"))
  <2>1. ASSUME NEW t \in Task, t.kind = "fn", queue'[s] = Append(queue[s], t)
        PROVE  /\ AllFn(queue[s]) => AllFn(queue'[s])
               /\ UnparkPark(queue[s]) => UnparkPark(queue'[s])
               /\ OneCtl(queue[s], "park") => OneCtl(queue'[s], "park")
               /\ OneCtl(queue[s], "unpark") => OneCtl(queue'[s], "unpark")
    <3>1. Added(queue'[s], queue[s], t)
      BY <2>1 DEF Added
    <3> QED BY <1>1, <2>1, <3>1, AppendWord
  <2>2. ASSUME queue[s] # <<>>, Head1(s).kind = "fn", queue'[s] = Tail(queue[s])
        PROVE  /\ AllFn(queue[s]) => AllFn(queue'[s])
               /\ UnparkPark(queue[s]) => UnparkPark(queue'[s])
               /\ OneCtl(queue[s], "park") => OneCtl(queue'[s], "park")
               /\ OneCtl(queue[s], "unpark") => OneCtl(queue'[s], "unpark")
    <3>1. Taken(queue'[s], queue[s]) /\ Head(queue[s]).kind = "fn" /\ queue[s] # <<>>
      BY <2>2 DEF Head1, Taken
    <3>2. queue[s] \in Seq(Task)
      BY <1>1
    <3> QED BY ONLY <3>1, <3>2, TailWord
  <2> QED BY <2>1, <2>2
<1>3. (IsKept(s)' <=> IsKept(s)) /\ (IsCalled(s)' <=> IsCalled(s))
  BY DEF IsKept, IsCalled
<1>4. (Kept(s) => Kept(s)') /\ (Called(s) => Called(s)') /\ (Free(s) => Free(s)')
  BY <1>2 DEF Kept, Called, Free
<1> QED BY <1>1, <1>3, <1>4 DEF Placed

\* Steps of a shard, and of the sender of a task.
LEMMA PhaseOfShard ==
  ASSUME TypeOK, HolderInv, ParkInv, PhaseInv, NEW s \in Shards, Shard(s), closing = 0,
         NEW x \in Shards
  PROVE  Placed(x)' /\ ~RunPanic(s)
<1>1. /\ queue \in [Shards -> Seq(Task)] /\ DOMAIN at = Shards
      /\ DOMAIN pc = Conns /\ next \in [Conns -> 1..(NShards + 1)] /\ txMu \in Conns \cup {NoConn}
      /\ NoConn \notin Conns /\ NShards \in Nat /\ x \in 1..NShards /\ s \in 1..NShards
  BY PauseAssumption DEF TypeOK, ShardTypes, ConnTypes, Shards
<1>2. \A z \in Shards : Placed(z)
  BY DEF PhaseInv, Placed
<1>3. ASSUME queue[s] # <<>>
      PROVE  /\ AllFn(queue[s]) => Head1(s).kind = "fn" /\ AllFn(Tail(queue[s]))
             /\ \A k : k # "fn" /\ OneCtl(queue[s], k) =>
                  Head1(s).kind = "fn" \/ (Head1(s).kind = k /\ AllFn(Tail(queue[s])))
             /\ UnparkPark(queue[s]) =>
                  \/ Head1(s).kind = "fn"
                  \/ Head1(s).kind = "unpark" /\ OneCtl(Tail(queue[s]), "park")
  <2>1. queue[s] \in Seq(Task) /\ Taken(Tail(queue[s]), queue[s])
    BY <1>1 DEF Taken
  <2> QED BY ONLY <1>3, <2>1, TailWord DEF Head1
<1>4. ASSUME UNCHANGED <<txMu, pc, next, queue[x], at[x]>> PROVE Placed(x)'
  BY <1>4, PlaceKept DEF IsKept, IsCalled
<1>5. ~RunPanic(s)
  <2>1. ASSUME RunPanic(s) PROVE FALSE
    <3>1. queue[s] # <<>> /\ Head1(s).kind = "unpark" /\ at[s] = "run"
      BY <2>1 DEF RunPanic
    <3>2. Free(s) \/ Called(s)
      BY <1>2, <3>1 DEF Placed, Kept
    <3> QED BY <1>3, <3>1, <3>2 DEF Free, Called
  <2> QED BY <2>1
<1> SUFFICES Placed(x)'
  BY <1>5
<1>6. ~Quit(s)
  BY <1>1 DEF Quit
<1>7. CASE RunTask(s) \/ ParkedTask(s)
  <2>1. /\ queue[s] # <<>> /\ Head1(s).kind = "fn" /\ queue' = [queue EXCEPT ![s] = Tail(@)]
        /\ UNCHANGED <<at, txMu, pc, next>>
    BY <1>7 DEF RunTask, ParkedTask, Dequeue
  <2>2. CASE x = s
    <3>1. queue'[s] = Tail(queue[s])
      BY <1>1, <2>1
    <3> QED BY <2>1, <2>2, <3>1, PlaceOfTask
  <2>3. CASE x # s
    BY <1>1, <1>4, <2>1, <2>3
  <2> QED BY <2>2, <2>3
<1>8. CASE RunPark(s)
  <2> DEFINE c == Head1(s).conn
  <2>1. /\ queue[s] # <<>> /\ Head1(s).kind = "park" /\ at[s] = "run"
        /\ c \in Conns /\ pc[c] = "acking" /\ next[c] = s
        /\ at' = [at EXCEPT ![s] = "parked"]
        /\ pc' = [pc EXCEPT ![c] = IF s = NShards THEN "held" ELSE "pausing"]
        /\ next' = [next EXCEPT ![c] = s + 1]
        /\ queue' = [queue EXCEPT ![s] = Tail(@)] /\ txMu' = txMu
    BY <1>8, ParkHead DEF RunPark, Dequeue
  <2> HIDE DEF c
  <2>2. txMu = c
    BY <2>1 DEF HolderInv, Holds, Holding
  <2>3. /\ pc'[c] = IF s = NShards THEN "held" ELSE "pausing"
        /\ next'[c] = s + 1
    BY <1>1, <2>1
  <2>4. /\ IsKept(x) <=> x < s
        /\ IsCalled(x) <=> x = s
    BY <1>1, <2>1, <2>2 DEF IsKept, IsCalled
  <2>5. ~IsCalled(x)'
    BY <2>1, <2>2, <2>3 DEF IsCalled
  <2>6. IsKept(x)' <=> x <= s
    <3>1. CASE s = NShards
      BY <1>1, <2>1, <2>2, <2>3, <3>1 DEF IsKept
    <3>2. CASE s # NShards
      BY <1>1, <2>1, <2>2, <2>3, <3>2 DEF IsKept
    <3> QED BY <3>1, <3>2
  <2>7. CASE x = s
    <3>1. Called(s)
      BY <1>2, <2>4, <2>7 DEF Placed
    <3>2. AllFn(Tail(queue[s]))
      BY <1>3, <2>1, <3>1 DEF Called
    <3>3. queue'[s] = Tail(queue[s]) /\ at'[s] = "parked"
      BY <1>1, <2>1
    <3>4. Kept(x)'
      BY <2>7, <3>2, <3>3 DEF Kept
    <3>5. IsKept(x)'
      BY <1>1, <2>6, <2>7
    <3> QED BY <2>5, <3>4, <3>5 DEF Placed
  <2>8. CASE x # s
    <3>1. queue'[x] = queue[x] /\ at'[x] = at[x]
      BY <1>1, <2>1, <2>8
    <3>2. (IsKept(x)' <=> IsKept(x)) /\ (IsCalled(x)' <=> IsCalled(x))
      BY <1>1, <2>4, <2>5, <2>6, <2>8
    <3> QED BY <3>1, <3>2, PlaceKept
  <2> QED BY <2>7, <2>8
<1>9. CASE ParkedControl(s)
  <2>1. /\ queue[s] # <<>> /\ Head1(s).kind # "fn" /\ at[s] = "parked"
        /\ at' = [at EXCEPT ![s] = "drain"] /\ queue' = [queue EXCEPT ![s] = Tail(@)]
        /\ UNCHANGED <<txMu, pc, next>>
    BY <1>9 DEF ParkedControl, Dequeue, connVars
  <2>2. CASE x = s
    <3>1. at'[s] = "drain" /\ queue'[s] = Tail(queue[s])
      BY <1>1, <2>1
    <3>2. (IsKept(x)' <=> IsKept(x)) /\ (IsCalled(x)' <=> IsCalled(x))
      BY <2>1 DEF IsKept, IsCalled
    <3>3. ~Kept(s)
      BY <1>3, <2>1 DEF Kept
    <3>4. Free(s) => Free(s)'
      BY <1>3, <2>1, <3>1 DEF Free
    <3>5. Called(s) => Called(s)'
      BY <1>3, <2>1, <3>1 DEF Called
    <3> QED BY <1>2, <2>2, <3>2, <3>3, <3>4, <3>5 DEF Placed
  <2>3. CASE x # s
    BY <1>1, <1>4, <2>1, <2>3
  <2> QED BY <2>2, <2>3
<1>10. CASE Drain(s)
  BY <1>4, <1>10 DEF Drain
<1>11. CASE DrainEnd(s)
  <2>1. /\ at[s] = "drain" /\ at' = [at EXCEPT ![s] = "run"]
        /\ UNCHANGED <<queue, txMu, pc, next>>
    BY <1>11 DEF DrainEnd, connVars
  <2>2. (IsKept(x)' <=> IsKept(x)) /\ (IsCalled(x)' <=> IsCalled(x))
    BY <2>1 DEF IsKept, IsCalled
  <2>3. (Kept(x) => Kept(x)') /\ (Called(x) => Called(x)') /\ (Free(x) => Free(x)')
    BY <1>1, <2>1 DEF Kept, Called, Free
  <2> QED BY <1>2, <2>2, <2>3 DEF Placed
<1> QED BY <1>5, <1>6, <1>7, <1>8, <1>9, <1>10, <1>11 DEF Shard

\* Every step of an open engine keeps PhaseInv.
LEMMA PhaseStep ==
  ASSUME TypeOK, HolderInv, CallInv, ParkInv, PhaseInv, closing = 0, closing' = 0,
         [Next]_<<vars, conf>>
  PROVE  PhaseInv'
<1> SUFFICES ASSUME NEW x \in Shards PROVE Placed(x)'
  BY DEF PhaseInv, Placed
<1>1. ASSUME NEW c \in Conns, Conn(c) PROVE Placed(x)'
  BY <1>1, PhaseOfConn
<1>2. ASSUME NEW c \in Conns, NEW s \in Shards, Enqueue(c, s) PROVE Placed(x)'
  <2>1. /\ queue' = [queue EXCEPT ![s] = Append(@, Fn(c, tok[c]))]
        /\ UNCHANGED <<at, txMu, pc, next>>
    BY <1>2 DEF Enqueue
  <2>2. /\ Fn(c, tok[c]) \in Task /\ Fn(c, tok[c]).kind = "fn" /\ DOMAIN queue = Shards
    BY Messages DEF TypeOK, ShardTypes, ConnTypes
  <2>3. CASE x = s
    <3>1. queue'[x] = Append(queue[x], Fn(c, tok[c]))
      BY <2>1, <2>2, <2>3
    <3> QED BY <2>1, <2>2, <3>1, PlaceOfTask
  <2>4. CASE x # s
    <3>1. queue'[x] = queue[x]
      BY <2>1, <2>2, <2>4
    <3> QED BY <2>1, <3>1, PlaceKept DEF IsKept, IsCalled
  <2> QED BY <2>3, <2>4
<1>3. ASSUME NEW s \in Shards, Shard(s) PROVE Placed(x)'
  BY <1>3, PhaseOfShard
<1>4. ~Close
  BY DEF Close
<1>5. CASE UNCHANGED <<vars, conf>>
  BY <1>5, PlaceKept DEF vars, IsKept, IsCalled
<1> QED BY <1>1, <1>2, <1>3, <1>4, <1>5 DEF Next

-----------------------------------------------------------------------------
(* Every control message meets the shard state it is meant for.             *)

LEMMA InvInit == Init => PauseInv
<1> SUFFICES ASSUME Init PROVE PauseInv
  OBVIOUS
<1> USE PauseAssumption DEF Init
<1>1. TypeOK /\ conf \in Confs
  <2>1. conf.calls \in [Conns -> Nat]
    BY DEF Conf
  <2> QED BY <2>1 DEF TypeOK, ShardTypes, ConnTypes
<1>2. HolderInv /\ CallInv /\ ParkInv
  BY DEF HolderInv, Holds, Holding, CallInv, Calls, ParkInv, ParkedBy
<1>3. LineInv
  <2> SUFFICES ASSUME NEW s \in Shards PROVE LinedUp(s)
    BY DEF LineInv, LinedUp
  <2>1. Line(s) = <<>> \o <<>> /\ stash[s] = <<>> /\ Waiting(s) = {}
    BY DEF Line, Waiting
  <2>2. Line(s) = <<>>
    BY <2>1
  <2> QED BY <2>1, <2>2 DEF LinedUp, Serves, AllFn
<1>4. PhaseInv
  BY DEF PhaseInv, IsKept, IsCalled, Free, AllFn
<1> QED BY <1>1, <1>2, <1>3, <1>4 DEF PauseInv

LEMMA InvStep == PauseInv /\ [Next]_<<vars, conf>> => PauseInv'
<1> SUFFICES ASSUME PauseInv, [Next]_<<vars, conf>> PROVE PauseInv'
  OBVIOUS
<1>1. /\ TypeOK /\ conf \in Confs /\ HolderInv /\ CallInv /\ ParkInv /\ LineInv
      /\ (closing = 0 => PhaseInv)
  BY DEF PauseInv
<1>2. TypeOK' /\ conf' \in Confs
  BY <1>1, ShardTypeStep, ConnTypeStep DEF TypeOK
<1>3. HolderInv' /\ CallInv'
  BY <1>1, HolderStep
<1>4. ParkInv' /\ LineInv'
  BY <1>1, ParkStep, LineStep
<1>5. closing # 0 => closing' # 0
  <2>1. closing \in Nat
    BY <1>1, PauseAssumption DEF TypeOK, ShardTypes
  <2> QED BY <2>1 DEF Next, Conn, Call, Return, Lock, SendPark, Resume, SendUnpark, Unlock,
       Enqueue, Shard, RunTask, RunPark, RunPanic, ParkedTask, ParkedControl, Drain, DrainEnd,
       Quit, Close, vars
<1>6. closing' = 0 => PhaseInv'
  BY <1>1, <1>5, PhaseStep
<1> QED BY <1>2, <1>3, <1>4, <1>6 DEF PauseInv

\* Any number of connections may run commands and pauses, over any number of
\* shards and queues of any capacity: run never meets an unpark message, whose
\* nil done channel would panic, and park never takes the next pause's park
\* message for its own unpark, until the engine is closed.
THEOREM ControlMessagesMatch == Spec => []PauseSound
<1>1. PauseInv => PauseSound
  <2> SUFFICES ASSUME TypeOK, closing = 0, PhaseInv, NEW s \in Shards, queue[s] # <<>>
               PROVE  /\ at[s] = "run" => Head1(s).kind # "unpark"
                      /\ at[s] = "parked" => Head1(s).kind # "park"
    BY DEF PauseInv, PauseSound, ControlMatched
  <2>1. queue[s] \in Seq(Task) /\ Taken(Tail(queue[s]), queue[s])
    BY DEF TypeOK, ShardTypes, Taken
  <2>2. /\ AllFn(queue[s]) => Head1(s).kind = "fn"
        /\ \A k : k # "fn" /\ OneCtl(queue[s], k) => Head1(s).kind \in {"fn", k}
        /\ UnparkPark(queue[s]) => Head1(s).kind \in {"fn", "unpark"}
    BY <2>1, TailWord DEF Head1
  <2>3. Kept(s) \/ Called(s) \/ Free(s)
    BY DEF PhaseInv
  <2> QED BY <2>2, <2>3 DEF Kept, Called, Free
<1> QED BY <1>1, InvInit, InvStep, PTL DEF Spec

-----------------------------------------------------------------------------
(* The protocol implements the task board.                                  *)

Pend == [s \in Shards |-> {c \in Conns : s \in wait[c]}]
Older == [s \in Shards |-> Before(Line(s))]
Owner == IF txMu # NoConn /\ pc[txMu] \in {"held", "heldcall"} THEN txMu ELSE NoConn
boardVars == <<Pend, Older, Owner, closing # 0>>

\* The board at a shard.
LEMMA BoardAt ==
  /\ DOMAIN Pend = Shards /\ DOMAIN Older = Shards
  /\ \A s \in Shards : Pend[s] = Waiting(s) /\ Older[s] = Before(Line(s))
BY DEF Pend, Older, Waiting

LEMMA BoardAfter ==
  /\ DOMAIN Pend' = Shards /\ DOMAIN Older' = Shards
  /\ \A s \in Shards : Pend'[s] = Waiting(s)' /\ Older'[s] = Before(Line(s))'
  /\ Pend' = [s \in Shards |-> Pend'[s]] /\ Older' = [s \in Shards |-> Older'[s]]
BY DEF Pend, Older, Waiting

\* Steps that leave all lines as they are.
LEMMA BoardSame ==
  ASSUME \A s \in Shards : Same(s)
  PROVE  UNCHANGED <<Pend, Older>>
<1>1. Pend = [s \in Shards |-> Pend[s]] /\ Older = [s \in Shards |-> Older[s]]
  BY DEF Pend, Older
<1>2. \A s \in Shards : Pend'[s] = Pend[s] /\ Older'[s] = Older[s]
  BY BoardAt, BoardAfter DEF Same
<1> QED BY <1>1, <1>2, BoardAfter

\* A task joins the board.
LEMMA BoardSubmit ==
  ASSUME NEW c \in Conns, NEW s \in Shards, Joined(s, c), Owner' = Owner,
         \A x \in Shards : x # s => Same(x)
  PROVE  Board!Submit(c, s)
<1>1. \A x \in Shards : /\ Pend'[x] = IF x = s THEN Pend[x] \cup {c} ELSE Pend[x]
                        /\ Older'[x] = IF x = s THEN Older[x] \cup (Pend[x] \X {c}) ELSE Older[x]
  BY BoardAt, BoardAfter DEF Same, Joined, Behind
<1>2. /\ Pend' = [Pend EXCEPT ![s] = @ \cup {c}]
      /\ Older' = [Older EXCEPT ![s] = @ \cup (Pend[s] \X {c})]
  BY <1>1, BoardAt, BoardAfter
<1>3. c \notin Pend[s]
  BY BoardAt DEF Joined
<1> QED BY <1>2, <1>3 DEF Board!Submit, Pend, Older, Owner

\* A task leaves the board: the oldest, or the owner's.
LEMMA BoardRun ==
  ASSUME NEW s \in Shards, NEW c, Left(s, c), Owner' = Owner,
         \A x \in Shards : x # s => Same(x),
         IF Owner = NoConn THEN \A d : <<d, c>> \notin Before(Line(s)) ELSE c = Owner
  PROVE  Board!Run(s)
<1>1. \A x \in Shards :
        /\ Pend'[x] = IF x = s THEN Pend[x] \ {c} ELSE Pend[x]
        /\ Older'[x] = IF x = s THEN {p \in Older[x] : c # p[1] /\ c # p[2]} ELSE Older[x]
  BY BoardAt, BoardAfter DEF Same, Left
<1>2. /\ Pend' = [Pend EXCEPT ![s] = @ \ {c}]
      /\ Older' = [Older EXCEPT ![s] = {p \in @ : c # p[1] /\ c # p[2]}]
  BY <1>1, BoardAt, BoardAfter
<1>3. c \in Pend[s] /\ IF Owner = NoConn THEN \A d \in Pend[s] : <<d, c>> \notin Older[s] ELSE c = Owner
  BY BoardAt DEF Left
<1> QED BY <1>2, <1>3 DEF Board!Run, Pend, Older, Owner

\* A shard that runs its first task, or a task of the holder.
LEMMA BoardTask ==
  ASSUME PauseInv, closing = 0, NEW s \in Shards, NEW t, Runs(s, t)
  PROVE  Board!Run(s)
<1>1. /\ TypeOK /\ HolderInv /\ CallInv /\ LineInv /\ PhaseInv /\ ParkInv
      /\ s \in Shards /\ txMu \in Conns \cup {NoConn}
  BY DEF PauseInv, TypeOK, ConnTypes
<1>2. /\ Left(s, t.conn) /\ t.kind = "fn"
      /\ \E i \in DOMAIN Line(s) : Line(s)[i] = t
  BY <1>1, LineHere
<1>3. Shard(s) /\ ~RunPanic(s) /\ UNCHANGED <<txMu, pc>>
  BY DEF Runs, Shard, RunTask, ParkedTask, Drain, RunPanic
<1>4. \A x \in Shards : x # s => Same(x)
  BY <1>1, <1>3, LineElsewhere
<1>5. Owner' = Owner
  BY <1>3 DEF Owner
<1>6. Serves(Line(s), Waiting(s), tok) /\ (at[s] = "run" => stash[s] = <<>>)
  BY <1>1 DEF LineInv
<1>7. CASE RunTask(s) \/ Drain(s)
  <2>1. Line(s)[1] = t
    <3>1. CASE RunTask(s)
      <4>1. queue[s] # <<>> /\ t = Head1(s) /\ stash[s] = <<>>
        BY <1>6, <3>1 DEF RunTask, Runs, ParkedTask, Drain
      <4>2. Line(s)[Len(stash[s]) + 1] = t
        BY <1>1, <4>1, LineParts
      <4> QED BY <4>1, <4>2
    <3>2. CASE Drain(s)
      BY <1>1, <3>2, LineParts DEF Drain, Runs, RunTask, ParkedTask
    <3> QED BY <1>7, <3>1, <3>2
  <2>2. \A d : <<d, t.conn>> \notin Before(Line(s))
    <3> SUFFICES ASSUME NEW d, <<d, t.conn>> \in Before(Line(s)) PROVE FALSE
      OBVIOUS
    <3>1. PICK i, j \in DOMAIN Line(s) : i < j /\ Line(s)[j].kind = "fn" /\ Line(s)[j].conn = t.conn
      BY DEF Before
    <3>2. DOMAIN Line(s) = 1..Len(Line(s))
      BY <1>1, LineParts
    <3>3. i \in Nat /\ i >= 1 /\ 1 \in DOMAIN Line(s) /\ j # 1
      BY <3>1, <3>2
    <3> QED BY <1>2, <1>6, <2>1, <3>1, <3>3 DEF Serves
  <2>3. at[s] \in {"run", "drain"}
    BY <1>7 DEF RunTask, Drain
  <2>4. ~IsKept(s)
    BY <1>1, <2>3 DEF PhaseInv, Kept
  <2>5. Owner = NoConn
    BY <2>4 DEF Owner, IsKept
  <2> QED BY <1>1, <1>2, <1>4, <1>5, <2>2, <2>5, BoardRun
<1>8. CASE ParkedTask(s) /\ ~RunTask(s) /\ ~Drain(s)
  <2>1. t.tok = ptok[s] /\ at[s] = "parked"
    BY <1>8 DEF Runs, ParkedTask
  <2>2. t.conn \in Waiting(s) /\ t.tok = tok[t.conn]
    BY <1>2, <1>6 DEF Serves
  <2>3. tok[t.conn] # 0 /\ t.conn \in Conns
    BY <1>1, <2>1, <2>2 DEF ParkInv, Waiting
  <2>4. txMu = t.conn /\ pc[t.conn] \in Holding
    BY <1>1, <2>3 DEF HolderInv, Holds
  <2>5. pc[t.conn] = "heldcall"
    BY <1>1, <2>2, <2>3, <2>4 DEF CallInv, Calls, Waiting, Holding
  <2>6. Owner = t.conn /\ Owner # NoConn
    BY <2>3, <2>4, <2>5, PauseAssumption DEF Owner
  <2> QED BY <1>1, <1>2, <1>4, <1>5, <2>6, BoardRun
<1> QED BY <1>7, <1>8 DEF Runs

\* Steps of a connection: only Resume gives the board back.
LEMMA BoardOfConn ==
  ASSUME PauseInv, NEW c \in Conns, Conn(c)
  PROVE  UNCHANGED <<Pend, Older>> /\ (Owner' = Owner \/ Board!Release)
<1>1. /\ TypeOK /\ HolderInv /\ CallInv /\ LineInv /\ DOMAIN pc = Conns
      /\ \A d \in Conns : txMu = d <=> pc[d] \in Holding
      /\ NoConn \notin Conns /\ txMu \in Conns \cup {NoConn}
  BY PauseAssumption DEF PauseInv, TypeOK, ConnTypes, HolderInv, Holds
<1>2. UNCHANGED <<Pend, Older>>
  BY <1>1, LineOfConn, BoardSame
<1>3. CASE ~Resume(c)
  <2>1. Owner' = Owner
    <3>1. ASSUME NEW T, Call(c, T) PROVE Owner' = Owner
      BY <1>1, <3>1 DEF Call, Owner, Holding
    <3>2. CASE Return(c)
      BY <1>1, <3>2 DEF Return, Owner, Holding
    <3>3. CASE Lock(c) \/ Unlock(c)
      BY <1>1, <3>3 DEF Lock, Unlock, Owner, Holding
    <3>4. CASE SendPark(c) \/ SendUnpark(c)
      BY <1>1, <3>4 DEF SendPark, SendUnpark, Owner, Holding
    <3> QED BY <1>3, <3>1, <3>2, <3>3, <3>4 DEF Conn
  <2> QED BY <1>2, <2>1
<1>4. CASE Resume(c)
  <2>1. /\ txMu = c /\ pc[c] = "held" /\ txMu' = c /\ pc'[c] = "resuming"
    BY <1>1, <1>4 DEF Resume, Holding
  <2>2. Owner = c /\ Owner' = NoConn /\ Owner # NoConn
    BY <1>1, <2>1 DEF Owner
  <2>3. wait[c] = {}
    BY <1>1, <2>1 DEF CallInv, Calls
  <2>4. \A s \in Shards : Owner \notin Pend[s]
    BY <2>2, <2>3 DEF Pend
  <2> QED BY <1>2, <2>2, <2>4 DEF Board!Release, Pend, Older, Owner
<1> QED BY <1>3, <1>4

\* The last acknowledgement gives the board to the connection.
LEMMA BoardOfPark ==
  ASSUME PauseInv, NEW s \in Shards, RunPark(s)
  PROVE  UNCHANGED <<Pend, Older>> /\ (Owner' = Owner \/ \E c \in Conns : Board!Acquire(c))
<1>1. /\ TypeOK /\ HolderInv /\ CallInv /\ LineInv /\ ParkInv /\ DOMAIN pc = Conns
      /\ NoConn \notin Conns
  BY PauseAssumption DEF PauseInv, TypeOK, ConnTypes
<1>2. Shard(s) /\ ~RunPanic(s) /\ ~\E t : Runs(s, t)
  BY DEF Shard, RunPark, RunPanic, Runs, RunTask, ParkedTask, Drain
<1>3. \A x \in Shards : Same(x)
  BY <1>1, <1>2, LineSame, LineElsewhere
<1>4. UNCHANGED <<Pend, Older>>
  BY <1>3, BoardSame
<1>5. PICK c \in Conns : c = Head1(s).conn /\ pc[c] = "acking"
  BY <1>1, ParkHead DEF RunPark
<1>6. txMu = c /\ txMu' = c /\ pc'[c] = IF s = NShards THEN "held" ELSE "pausing"
  BY <1>1, <1>5 DEF RunPark, HolderInv, Holds, Holding
<1>7. Owner = NoConn /\ Owner' = IF s = NShards THEN c ELSE NoConn
  BY <1>1, <1>5, <1>6 DEF Owner
<1>8. wait[c] = {}
  BY <1>1, <1>5 DEF CallInv, Calls
<1>9. \A x \in Shards : c \notin Pend[x]
  BY <1>8 DEF Pend
<1>10. s = NShards => Board!Acquire(c)
  BY <1>4, <1>7, <1>9 DEF Board!Acquire, Pend, Older, Owner
<1> QED BY <1>4, <1>7, <1>10

\* Every step of the protocol is a step of the board, or none.
LEMMA BoardStep ==
  ASSUME PauseInv, PauseInv', [Next]_<<vars, conf>>
  PROVE  [Board!Next]_boardVars
<1>1. CASE closing # 0
  BY <1>1 DEF Board!Next
<1>2. CASE closing' # 0
  BY <1>2 DEF Board!Next, Board!Close
<1>3. CASE closing = 0 /\ closing' = 0
  <2>1. ASSUME Board!Step PROVE [Board!Next]_boardVars
    BY <1>3, <2>1 DEF Board!Next
  <2>2. ASSUME UNCHANGED <<Pend, Older, Owner>> PROVE [Board!Next]_boardVars
    BY <1>3, <2>2 DEF boardVars
  <2>3. ASSUME NEW c \in Conns, Conn(c) PROVE [Board!Next]_boardVars
    <3>1. UNCHANGED <<Pend, Older>> /\ (Owner' = Owner \/ Board!Release)
      BY <2>3, BoardOfConn
    <3> QED BY <2>1, <2>2, <3>1 DEF Board!Step
  <2>4. ASSUME NEW c \in Conns, NEW s \in Shards, Enqueue(c, s) PROVE [Board!Next]_boardVars
    <3>1. Joined(s, c) /\ \A x \in Shards : x # s => Same(x)
      BY <2>4, LineJoins DEF PauseInv
    <3>2. Owner' = Owner
      BY <2>4 DEF Enqueue, Owner
    <3>3. Board!Submit(c, s)
      BY <3>1, <3>2, BoardSubmit
    <3> QED BY <2>1, <3>3 DEF Board!Step
  <2>5. ASSUME NEW s \in Shards, Shard(s) PROVE [Board!Next]_boardVars
    <3>1. ASSUME NEW t, Runs(s, t) PROVE [Board!Next]_boardVars
      <4>1. Board!Run(s)
        BY <1>3, <3>1, BoardTask
      <4> QED BY <2>1, <4>1 DEF Board!Step
    <3>2. CASE RunPark(s)
      <4>1. UNCHANGED <<Pend, Older>> /\ (Owner' = Owner \/ \E c \in Conns : Board!Acquire(c))
        BY <3>2, BoardOfPark
      <4> QED BY <2>1, <2>2, <4>1 DEF Board!Step
    <3>3. CASE ~RunPark(s) /\ ~\E t : Runs(s, t)
      <4>1. ~RunPanic(s)
        BY <1>3, <2>5, PhaseOfShard DEF PauseInv
      <4>2. \A x \in Shards : Same(x)
        BY <2>5, <3>3, <4>1, LineSame, LineElsewhere DEF PauseInv
      <4>3. UNCHANGED <<txMu, pc>>
        BY <2>5, <3>3 DEF Shard, RunTask, RunPanic, ParkedTask, ParkedControl, Drain, DrainEnd,
                          Quit, connVars
      <4> QED BY <2>2, <4>2, <4>3, BoardSame DEF Owner
    <3> QED BY <3>1, <3>2, <3>3
  <2>6. ~Close
    BY <1>3 DEF Close
  <2>7. CASE UNCHANGED <<vars, conf>>
    BY <2>2, <2>7 DEF vars, Pend, Older, Owner, Line
  <2> QED BY <2>3, <2>4, <2>5, <2>6, <2>7 DEF Next
<1> QED BY <1>1, <1>2, <1>3

\* Tasks run once each and in submission order at every shard; while a
\* connection is between PauseAll and resume only its tasks run, and it starts
\* and ends that time with no task of its own; until the engine is closed.
THEOREM PauseImplementsBoard == Spec => ImplementsBoard
<1>1. Init => Board!Init
  <2> SUFFICES ASSUME Init PROVE Board!Init
    OBVIOUS
  <2>1. /\ \A s \in Shards : Line(s) = <<>> \o <<>>
        /\ wait = [c \in Conns |-> {}] /\ txMu = NoConn /\ closing = 0
    BY DEF Init, Line
  <2>2. \A s \in Shards : Before(Line(s)) = {}
    <3>1. \A s \in Shards : Line(s) = <<>>
      BY <2>1
    <3> QED BY <3>1 DEF Before
  <2>3. /\ Pend = [s \in Shards |-> {}] /\ Older = [s \in Shards |-> {}] /\ Owner = NoConn
        /\ (closing # 0) = FALSE
    BY <2>1, <2>2 DEF Pend, Older, Owner
  <2> QED BY <2>3 DEF Board!Init, Pend, Older, Owner
<1>2. PauseInv /\ PauseInv' /\ [Next]_<<vars, conf>> => [Board!Next]_boardVars
  BY BoardStep
<1> QED BY <1>1, <1>2, InvInit, InvStep, PTL
        DEF Spec, ImplementsBoard, Board!Spec, boardVars, Pend, Older, Owner
=============================================================================
