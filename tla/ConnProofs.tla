------------------------------ MODULE ConnProofs ------------------------------
(* Proofs about Conn: a transaction with a refused command never runs, a     *)
(* pause belongs to the EXEC or the script that took it, VMs are not shared  *)
(* and the pool keeps its bounds, for any clients, commands and scripts.     *)
EXTENDS Conn, FiniteSetTheorems, SequenceTheorems, TLAPS

-----------------------------------------------------------------------------
(* Sequences of distinct VMs.                                              *)

LEMMA Removed ==
  ASSUME NEW S, NEW q \in Seq(S), IsInjective(q), NEW i \in 1..Len(q)
  PROVE  /\ RemoveAt(q, i) \in Seq(S) /\ IsInjective(RemoveAt(q, i))
         /\ Len(RemoveAt(q, i)) = Len(q) - 1
         /\ ToSet(RemoveAt(q, i)) = ToSet(q) \ {q[i]}
<1> DEFINE r == RemoveAt(q, i)
<1>1. /\ r \in Seq(S) /\ Len(r) = Len(q) - 1 /\ Len(q) \in Nat
      /\ \A j \in 1..(Len(q) - 1) : r[j] = IF j < i THEN q[j] ELSE q[j + 1]
  <2> DEFINE a == SubSeq(q, 1, i - 1)
             b == SubSeq(q, i + 1, Len(q))
  <2>1. Len(q) \in Nat /\ i \in Int /\ 1 <= i /\ i <= Len(q)
        /\ \A j \in 1..Len(q) : q[j] \in S
    OBVIOUS
  <2>2. a \in Seq(S) /\ Len(a) = i - 1 /\ \A j \in 1..(i - 1) : a[j] = q[j]
    <3>1. \A j \in 1..(i - 1) : q[j] \in S
      BY <2>1
    <3> QED BY <2>1, <3>1, SubSeqProperties
  <2>3. b \in Seq(S) /\ Len(b) = Len(q) - i /\ \A j \in 1..(Len(q) - i) : b[j] = q[i + j]
    <3>1. \A j \in (i + 1)..Len(q) : q[j] \in S
      BY <2>1
    <3> HIDE DEF b
    <3>2. /\ b \in Seq(S) /\ Len(b) = (IF i + 1 <= Len(q) THEN Len(q) - (i + 1) + 1 ELSE 0)
          /\ \A j \in 1..(Len(q) - (i + 1) + 1) : b[j] = q[(i + 1) + j - 1]
      BY <2>1, <3>1, SubSeqProperties DEF b
    <3>3. Len(b) = Len(q) - i
      BY <2>1, <3>2
    <3>4. ASSUME NEW j \in 1..(Len(q) - i) PROVE b[j] = q[i + j]
      <4>1. j \in 1..(Len(q) - (i + 1) + 1) /\ (i + 1) + j - 1 = i + j
        BY <2>1
      <4> QED BY <3>2, <4>1
    <3> QED BY <3>2, <3>3, <3>4
  <2> HIDE DEF a, b
  <2>4. /\ a \o b \in Seq(S) /\ Len(a \o b) = Len(a) + Len(b)
        /\ \A j \in 1..(Len(a) + Len(b)) : (a \o b)[j] = IF j <= Len(a) THEN a[j] ELSE b[j - Len(a)]
    BY <2>2, <2>3, ConcatProperties
  <2>5. r = a \o b
    BY DEF RemoveAt, a, b
  <2>6. ASSUME NEW j \in 1..(Len(q) - 1) PROVE r[j] = IF j < i THEN q[j] ELSE q[j + 1]
    <3>1. CASE j < i
      BY <2>1, <2>2, <2>3, <2>4, <2>5, <3>1
    <3>2. CASE ~ j < i
      <4>1. j \in 1..(Len(a) + Len(b)) /\ ~ j <= Len(a) /\ j - Len(a) = j - i + 1
            /\ j - i + 1 \in 1..(Len(q) - i) /\ i + (j - i + 1) = j + 1
        BY <2>1, <2>2, <2>3, <3>2
      <4> QED BY <2>3, <2>4, <2>5, <3>2, <4>1
    <3> QED BY <3>1, <3>2
  <2> QED BY <2>1, <2>2, <2>3, <2>4, <2>5, <2>6
<1>2. DOMAIN q = 1..Len(q) /\ DOMAIN r = 1..(Len(q) - 1)
  BY <1>1
<1> HIDE DEF r
<1>3. IsInjective(r)
  <2> SUFFICES ASSUME NEW a \in 1..(Len(q) - 1), NEW b \in 1..(Len(q) - 1), r[a] = r[b]
               PROVE  a = b
    BY <1>2 DEF IsInjective
  <2>1. PICK m \in 1..Len(q) : m = (IF a < i THEN a ELSE a + 1) /\ r[a] = q[m]
    BY <1>1
  <2>2. PICK n \in 1..Len(q) : n = (IF b < i THEN b ELSE b + 1) /\ r[b] = q[n]
    BY <1>1
  <2>3. m = n
    BY <1>2, <2>1, <2>2 DEF IsInjective
  <2> QED BY <2>1, <2>2, <2>3
<1>4. ASSUME NEW x \in ToSet(r) PROVE x \in ToSet(q) \ {q[i]}
  <2>1. PICK j \in 1..(Len(q) - 1) : r[j] = x
    BY <1>2 DEF ToSet
  <2>2. PICK k \in 1..Len(q) : k # i /\ q[k] = x
    BY <1>1, <2>1
  <2> QED BY <1>2, <2>2 DEF ToSet, IsInjective
<1>5. ASSUME NEW x \in ToSet(q) \ {q[i]} PROVE x \in ToSet(r)
  <2>1. PICK j \in 1..Len(q) : q[j] = x
    BY <1>2 DEF ToSet
  <2>2. CASE j < i
    <3>1. j \in 1..(Len(q) - 1) /\ r[j] = x
      BY <1>1, <2>1, <2>2
    <3> QED BY <1>2, <3>1 DEF ToSet
  <2>3. CASE j > i
    <3>1. j - 1 \in 1..(Len(q) - 1) /\ r[j - 1] = x
      BY <1>1, <2>1, <2>3
    <3> QED BY <1>2, <3>1 DEF ToSet
  <2>4. j # i
    BY <2>1
  <2> QED BY <2>2, <2>3, <2>4
<1> QED BY <1>1, <1>3, <1>4, <1>5 DEF r

LEMMA Added ==
  ASSUME NEW S, NEW q \in Seq(S), IsInjective(q), NEW x \in S, x \notin ToSet(q)
  PROVE  /\ Append(q, x) \in Seq(S) /\ IsInjective(Append(q, x))
         /\ Len(Append(q, x)) = Len(q) + 1
         /\ ToSet(Append(q, x)) = ToSet(q) \cup {x}
<1> DEFINE r == Append(q, x)
<1>1. /\ r \in Seq(S) /\ Len(r) = Len(q) + 1 /\ Len(q) \in Nat
      /\ \A i \in 1..Len(q) : r[i] = q[i]
      /\ r[Len(q) + 1] = x
  OBVIOUS
<1>2. DOMAIN q = 1..Len(q) /\ DOMAIN r = 1..Len(r)
  BY <1>1
<1> HIDE DEF r
<1>3. \A y \in ToSet(r) : y \in ToSet(q) \cup {x}
  BY <1>1, <1>2 DEF ToSet
<1>4. \A y \in ToSet(q) \cup {x} : y \in ToSet(r)
  BY <1>1, <1>2 DEF ToSet
<1>5. IsInjective(r)
  BY <1>1, <1>2 DEF IsInjective, ToSet
<1> QED BY <1>1, <1>3, <1>4, <1>5 DEF r

LEMMA Evicted ==
  ASSUME NEW S, NEW q \in Seq(S), IsInjective(q)
  PROVE  LET r == EvictOldestIdle(q)
         IN /\ r \in Seq(S) /\ IsInjective(r) /\ Len(r) <= VMPoolMax
            /\ ToSet(r) \subseteq ToSet(q)
<1> DEFINE r == EvictOldestIdle(q)
<1>1. VMPoolMax \in Nat /\ Len(q) \in Nat /\ DOMAIN q = 1..Len(q)
  BY PoolAssumption
<1>2. CASE Len(q) > VMPoolMax
  <2> DEFINE d == Len(q) - VMPoolMax
  <2>1. r = SubSeq(q, d + 1, Len(q)) /\ d \in Nat
    BY <1>1, <1>2 DEF EvictOldestIdle
  <2>2. r \in Seq(S) /\ Len(r) = VMPoolMax /\ \A i \in 1..VMPoolMax : r[i] = q[i + d]
    <3>1. \A i \in (d + 1)..Len(q) : q[i] \in S
      BY <1>1, <1>2
    <3> HIDE DEF r
    <3>2. /\ r \in Seq(S) /\ Len(r) = (IF d + 1 <= Len(q) THEN Len(q) - (d + 1) + 1 ELSE 0)
          /\ \A i \in 1..(Len(q) - (d + 1) + 1) : r[i] = q[(d + 1) + i - 1]
      BY <1>1, <2>1, <3>1, SubSeqProperties
    <3>3. Len(q) - (d + 1) + 1 = VMPoolMax /\ \A i \in Nat : (d + 1) + i - 1 = i + d
      BY <1>1, <2>1
    <3> QED BY <1>1, <1>2, <3>2, <3>3
  <2>3. DOMAIN r = 1..VMPoolMax /\ \A i \in 1..VMPoolMax : i + d \in 1..Len(q)
    BY <1>1, <1>2, <2>2
  <2> HIDE DEF r, d
  <2>4. IsInjective(r)
    <3> SUFFICES ASSUME NEW i \in 1..VMPoolMax, NEW j \in 1..VMPoolMax, r[i] = r[j]
                 PROVE  i = j
      BY <2>3 DEF IsInjective
    <3>1. q[i + d] = q[j + d] /\ i + d \in DOMAIN q /\ j + d \in DOMAIN q
      BY <1>1, <2>2, <2>3
    <3>2. i + d = j + d
      BY <3>1 DEF IsInjective
    <3> QED BY <1>1, <2>1, <3>2
  <2>5. ToSet(r) \subseteq ToSet(q)
    BY <1>1, <2>2, <2>3 DEF ToSet
  <2> QED BY <1>1, <2>2, <2>4, <2>5 DEF r
<1>3. CASE ~ Len(q) > VMPoolMax
  BY <1>1, <1>3 DEF EvictOldestIdle
<1> QED BY <1>2, <1>3

-----------------------------------------------------------------------------
(* The pool.                                                               *)

PoolOk ==
  /\ PoolTypeOK /\ PoolBounded /\ FlushedGone
  /\ IsInjective(idle) /\ leased \cap ToSet(idle) = {}

LEMMA QueueFinite == ASSUME PoolTypeOK, NEW s PROVE IsFiniteSet(Queue(s)) /\ Cardinality(Queue(s)) \in Nat
<1>1. IsFiniteSet(Vms)
  BY PoolAssumption, FS_Interval DEF Vms
<1>2. Queue(s) \subseteq Vms
  BY DEF Queue, PoolTypeOK, ToSet
<1> QED BY <1>1, <1>2, FS_Subset, FS_CardinalityType

LEMMA PoolStarts == PoolInit => PoolOk
<1> SUFFICES ASSUME PoolInit PROVE PoolOk
  OBVIOUS
<1>1. ToSet(idle) = {} /\ DOMAIN vmMeta = {} /\ IsInjective(idle)
  BY DEF PoolInit, ToSet, IsInjective
<1>2. PoolTypeOK
  BY <1>1 DEF PoolInit, PoolTypeOK
<1>3. PoolBounded
  <2>1. \A s \in Scripts : Queue(s) = {}
    BY <1>1 DEF Queue
  <2> QED BY <1>1, <2>1, PoolAssumption, FS_EmptySet DEF PoolBounded, PoolInit
<1> QED BY <1>1, <1>2, <1>3 DEF PoolOk, FlushedGone

LEMMA CheckoutOk ==
  ASSUME PoolOk, NEW sha, NEW vm \in Vms, CheckoutVM(sha, vm)
  PROVE  PoolOk' /\ vm \notin leased /\ leased' = leased \cup {vm}
<1>1. leased' = leased \cup {vm} /\ vmMeta' = vmMeta /\ poolEpoch' = poolEpoch
  BY DEF CheckoutVM
<1>2. /\ vm \notin leased /\ idle' \in Seq(Vms) /\ IsInjective(idle')
      /\ ToSet(idle') \subseteq ToSet(idle) \ {vm} /\ Len(idle') <= Len(idle)
      /\ born' \in [Vms -> Nat]
  <2>1. CASE VMPoolSize > 0 /\ Queue(sha) # {}
    <3>1. PICK i \in DOMAIN idle : idle[i] = vm /\ idle' = RemoveAt(idle, i)
      BY <2>1 DEF CheckoutVM
    <3>2. i \in 1..Len(idle) /\ Len(idle) \in Nat /\ vm \in ToSet(idle)
      BY <3>1 DEF PoolOk, PoolTypeOK, ToSet
    <3>3. /\ RemoveAt(idle, i) \in Seq(Vms) /\ IsInjective(RemoveAt(idle, i))
          /\ Len(RemoveAt(idle, i)) = Len(idle) - 1 /\ ToSet(RemoveAt(idle, i)) = ToSet(idle) \ {idle[i]}
      BY <3>2, Removed DEF PoolOk, PoolTypeOK
    <3>4. born' = born
      BY <2>1 DEF CheckoutVM
    <3> QED BY <3>1, <3>2, <3>3, <3>4 DEF PoolOk, PoolTypeOK
  <2>2. CASE ~ (VMPoolSize > 0 /\ Queue(sha) # {})
    <3>1. NewVM(vm) /\ born' = [born EXCEPT ![vm] = poolEpoch] /\ idle' = idle
      BY <2>2 DEF CheckoutVM
    <3> QED BY <3>1 DEF NewVM, PoolOk, PoolTypeOK
  <2> QED BY <2>1, <2>2
<1>3. PoolTypeOK'
  BY <1>1, <1>2 DEF PoolOk, PoolTypeOK
<1>4. PoolBounded'
  <2>1. ASSUME NEW s \in Scripts PROVE Cardinality(Queue(s)') <= VMPoolSize
    <3>1. Queue(s)' \subseteq Queue(s)
      BY <1>1, <1>2 DEF Queue
    <3>2. Cardinality(Queue(s)') <= Cardinality(Queue(s)) /\ Cardinality(Queue(s)') \in Nat
      BY <1>3, <3>1, QueueFinite, FS_Subset, FS_CardinalityType DEF PoolOk
    <3> QED BY <3>2, QueueFinite, PoolAssumption DEF PoolOk, PoolBounded
  <2>2. Len(idle') <= VMPoolMax
    BY <1>2, PoolAssumption DEF PoolOk, PoolBounded, PoolTypeOK
  <2> QED BY <1>1, <1>2, <2>1, <2>2 DEF PoolOk, PoolBounded
<1> QED BY <1>1, <1>2, <1>3, <1>4 DEF PoolOk, FlushedGone

LEMMA DrainOk ==
  ASSUME PoolOk, DrainPool
  PROVE  PoolOk' /\ leased' = leased
<1>1. ToSet(idle') = {} /\ IsInjective(idle') /\ idle' = <<>> /\ leased' = leased
  BY DEF DrainPool, ToSet, IsInjective
<1>2. PoolTypeOK'
  <2>1. born' \in [Vms -> Nat] /\ poolEpoch' \in Nat
    BY DEF DrainPool, Unborn, PoolOk, PoolTypeOK
  <2>2. DOMAIN vmMeta' \subseteq Vms /\ \A v \in DOMAIN vmMeta' : vmMeta'[v] \in Entries
    BY DEF DrainPool, Forget, PoolOk, PoolTypeOK
  <2> QED BY <1>1, <2>1, <2>2 DEF PoolTypeOK, PoolOk
<1>3. PoolBounded'
  <2>1. \A s \in Scripts : Queue(s)' = {}
    BY <1>1 DEF Queue
  <2>2. \A s \in Scripts : Cardinality(Queue(s)') = 0
    BY <2>1, FS_EmptySet
  <2>3. \A s \in Scripts : Cardinality(Queue(s)') <= VMPoolSize
    BY <2>2, PoolAssumption
  <2>4. Len(idle') <= VMPoolMax
    BY <1>1, PoolAssumption
  <2> QED BY <1>1, <2>3, <2>4 DEF PoolBounded
<1> QED BY <1>1, <1>2, <1>3 DEF PoolOk, FlushedGone

\* A released VM is closed, or goes idle with an entry of this epoch.
LEMMA ReleaseOk ==
  ASSUME PoolOk, NEW vm, NEW sha \in Scripts, NEW discard, NEW heavy,
         ReleaseVM(vm, sha, discard, heavy)
  PROVE  PoolOk' /\ vm \in leased /\ leased' = leased \ {vm}
<1> DEFINE e == Served(vm, sha)
           kept == EvictOldestIdle(Append(idle, vm))
           metas == [v \in DOMAIN vmMeta \cup {vm} |-> IF v = vm THEN e ELSE vmMeta[v]]
           evicted == (ToSet(idle) \cup {vm}) \ ToSet(kept)
<1>1. /\ vm \in leased /\ leased' = leased \ {vm} /\ poolEpoch' = poolEpoch
      /\ IF Recycle(e, discard, heavy)
           THEN vmMeta' = Forget({vm}) /\ born' = Unborn({vm}) /\ idle' = idle
           ELSE /\ idle' = kept
                /\ vmMeta' = [v \in DOMAIN metas \ evicted |-> metas[v]]
                /\ born' = Unborn(evicted)
  BY DEF ReleaseVM
<1>2. vm \in Vms /\ vm \notin ToSet(idle) /\ PoolTypeOK
  BY <1>1 DEF PoolOk, PoolTypeOK
<1>3. e \in Entries
  <2>1. ASSUME NEW r \in Entries PROVE [r EXCEPT !.runs = @ + 1] \in Entries
    BY DEF Entries
  <2>2. CASE vm \in DOMAIN vmMeta
    <3>1. vmMeta[vm] \in Entries
      BY <1>2, <2>2 DEF PoolTypeOK
    <3>2. e = [vmMeta[vm] EXCEPT !.runs = @ + 1]
      BY <2>2 DEF Served
    <3> HIDE DEF e
    <3> QED BY <2>1, <3>1, <3>2
  <2>3. CASE vm \notin DOMAIN vmMeta
    BY <1>2, <2>3 DEF Served, PoolTypeOK, Entries
  <2> QED BY <2>2, <2>3
<1> HIDE DEF e
<1>4. born' \in [Vms -> Nat]
  BY <1>1, <1>2 DEF Unborn, PoolTypeOK
<1>5. CASE Recycle(e, discard, heavy)
  <2>1. vmMeta' = Forget({vm}) /\ idle' = idle
    BY <1>1, <1>5
  <2>2. /\ DOMAIN vmMeta' = DOMAIN vmMeta \ {vm}
        /\ \A v \in DOMAIN vmMeta' : vmMeta'[v] = vmMeta[v]
    BY <2>1 DEF Forget
  <2>3. \A v \in ToSet(idle) : v \in DOMAIN vmMeta' /\ vmMeta'[v] = vmMeta[v]
    BY <1>2, <2>2 DEF PoolTypeOK
  <2>4. \A s : Queue(s)' = Queue(s)
    BY <2>1, <2>3 DEF Queue
  <2>5. PoolTypeOK'
    BY <1>1, <1>2, <1>4, <2>1, <2>2, <2>3 DEF PoolTypeOK
  <2>6. PoolBounded' /\ FlushedGone'
    BY <1>1, <2>1, <2>3, <2>4 DEF PoolOk, PoolBounded, FlushedGone
  <2> QED BY <1>1, <2>1, <2>5, <2>6 DEF PoolOk
<1>6. CASE ~ Recycle(e, discard, heavy)
  <2>1. idle' = kept /\ vmMeta' = [v \in DOMAIN metas \ evicted |-> metas[v]]
    BY <1>1, <1>6
  <2>2. /\ Append(idle, vm) \in Seq(Vms) /\ IsInjective(Append(idle, vm))
        /\ ToSet(Append(idle, vm)) = ToSet(idle) \cup {vm}
    BY <1>2, Added DEF PoolOk, PoolTypeOK
  <2>3. /\ kept \in Seq(Vms) /\ IsInjective(kept) /\ Len(kept) <= VMPoolMax
        /\ ToSet(kept) \subseteq ToSet(idle) \cup {vm}
    BY <2>2, Evicted
  <2> HIDE DEF kept
  <2>4. /\ DOMAIN vmMeta' = (DOMAIN vmMeta \cup {vm}) \ evicted
        /\ \A v \in DOMAIN vmMeta' : vmMeta'[v] = IF v = vm THEN e ELSE vmMeta[v]
    BY <2>1
  <2>5. \A v \in ToSet(kept) : /\ v \in DOMAIN vmMeta'
                               /\ vmMeta'[v] = IF v = vm THEN e ELSE vmMeta[v]
    BY <1>2, <2>3, <2>4 DEF PoolTypeOK
  <2>6. /\ e.epoch = poolEpoch /\ ~ (VMRecycleRuns > 0 /\ e.runs >= VMRecycleRuns)
        /\ ~ (Cardinality(Queue(e.sha)) >= VMPoolSize)
    BY <1>6 DEF Recycle
  <2>7. PoolTypeOK'
    <3>1. DOMAIN vmMeta' \subseteq Vms /\ \A v \in DOMAIN vmMeta' : vmMeta'[v] \in Entries
      BY <1>2, <1>3, <2>4 DEF PoolTypeOK
    <3> QED BY <1>1, <1>2, <1>4, <2>1, <2>3, <2>5, <3>1 DEF PoolTypeOK
  <2>8. FlushedGone'
    BY <1>1, <1>2, <2>1, <2>3, <2>5, <2>6 DEF PoolOk, FlushedGone
  <2>9. PoolBounded'
    <3>1. ASSUME NEW s \in Scripts PROVE Cardinality(Queue(s)') <= VMPoolSize
      <4>1. IsFiniteSet(Queue(s)) /\ Cardinality(Queue(s)) \in Nat /\ VMPoolSize \in Nat
            /\ IsFiniteSet(Queue(s)') /\ Cardinality(Queue(s)') \in Nat
        <5>1. Queue(s)' \subseteq Vms
          <6>1. Queue(s)' \subseteq ToSet(idle') /\ ToSet(idle') \subseteq DOMAIN vmMeta'
            BY <2>7 DEF Queue, PoolTypeOK
          <6> QED BY <2>7, <6>1 DEF PoolTypeOK
        <5>2. IsFiniteSet(Queue(s)') /\ Cardinality(Queue(s)') \in Nat
          <6>1. IsFiniteSet(Vms)
            BY PoolAssumption, FS_Interval DEF Vms
          <6> QED BY <5>1, <6>1, FS_Subset, FS_CardinalityType
        <5> QED BY <1>2, <5>2, QueueFinite, PoolAssumption
      <4>2. CASE e.sha = s
        <5>1. Queue(s)' \subseteq Queue(s) \cup {vm}
          BY <2>1, <2>3, <2>5 DEF Queue
        <5>2. IsFiniteSet(Queue(s) \cup {vm}) /\ vm \notin Queue(s)
              /\ Cardinality(Queue(s) \cup {vm}) = Cardinality(Queue(s)) + 1
          BY <1>2, <4>1, FS_AddElement DEF Queue
        <5>3. Cardinality(Queue(s)') <= Cardinality(Queue(s)) + 1
          BY <5>1, <5>2, FS_Subset
        <5> QED BY <2>6, <4>1, <4>2, <5>3
      <4>3. CASE e.sha # s
        <5>1. Queue(s)' \subseteq Queue(s)
          BY <2>1, <2>3, <2>5, <4>3 DEF Queue
        <5>2. Cardinality(Queue(s)') <= Cardinality(Queue(s))
          BY <4>1, <5>1, FS_Subset
        <5> QED BY <4>1, <5>2 DEF PoolOk, PoolBounded
      <4> QED BY <4>2, <4>3
    <3>2. ASSUME NEW v \in ToSet(idle'), VMRecycleRuns > 0 PROVE vmMeta'[v].runs < VMRecycleRuns
      <4>1. CASE v = vm
        <5>1. vmMeta'[v] = e /\ e.runs \in Nat
          BY <1>3, <2>1, <2>5, <4>1 DEF Entries
        <5> QED BY <2>6, <3>2, <5>1, PoolAssumption
      <4>2. CASE v # vm
        BY <2>1, <2>3, <2>5, <3>2, <4>2 DEF PoolOk, PoolBounded
      <4> QED BY <4>1, <4>2
    <3> QED BY <2>1, <2>3, <3>1, <3>2 DEF PoolBounded
  <2> QED BY <1>1, <1>2, <2>1, <2>3, <2>7, <2>8, <2>9 DEF PoolOk
<1> QED BY <1>5, <1>6

-----------------------------------------------------------------------------
(* The inductive invariant.                                                *)

ConnState ==
  [proto: {2, 3}, authed: BOOLEAN, multi: BOOLEAN, queue: Seq(Lines), qerr: BOOLEAN,
   watch: BOOLEAN, subs: BOOLEAN, tok: BOOLEAN, inExec: BOOLEAN,
   at: Places, line: Lines, pos: Nat, vm: {NoVm} \cup Vms, fatal: BOOLEAN, refused: BOOLEAN]

Runs == [conn: Conns \cup {NoConn}, slow: BOOLEAN, wrote: BOOLEAN, killed: BOOLEAN]

\* A line that the gates queue when a client may send the lines L in MULTI.
Queued(m, L) ==
  /\ m \in L /\ m \in Lines /\ m.name \in DOMAIN table
  /\ m.name \notin {"exec", "discard", "multi", "watch", "quit", "reset"}
  /\ IsEval(m) => m.arg \in Scripts

QueueOk(s, L) ==
  /\ Len(s.queue) <= MaxQueue
  /\ \A i \in 1..Len(s.queue) : Queued(s.queue[i], L)

Blocks(m) == "blocking" \in table[m.name]

\* Some queued command is a script.
Nests(s) == \E i \in 1..Len(s.queue) : IsEval(s.queue[i])

\* Which command a connection is in, by the place of its goroutine.
PlaceOk(s) ==
  /\ s.at \in {"idle", "do", "pause", "evalpause"} => s.pos = 0
  /\ s.at = "exec" => s.pos >= 1 /\ s.pos <= Len(s.queue) + 1
  /\ s.at # "exec" => s.pos <= Len(s.queue)
  /\ s.at \in {"evalpause", "script", "release"} <=> s.vm # NoVm
  /\ s.at \in {"lease", "evalpause", "release"} => IsEval(s.line)
  /\ s.at = "script" => IsEval(s.line) \/ s.line.name = "set"
  /\ s.at \in {"lease", "evalpause", "script", "release"} => s.line.arg \in Scripts
  /\ s.at \in {"lease", "script"} /\ s.pos > 0 => Nests(s)
  /\ s.at = "do" => NeedsShards(s.line)
  /\ s.at = "parked" /\ s.pos > 0 => Nests(s) /\ Blocks(s.queue[s.pos])

\* What holds of a transaction, its pause token and its commands' inExec flag.
TxOk(s) ==
  /\ s.tok <=> s.pos > 0 \/ s.at = "script"
  /\ s.refused => s.qerr
  /\ s.at = "pause" => ~s.qerr
  /\ s.pos > 0 => ~s.refused /\ (s.inExec \/ Nests(s))
  /\ s.pos = 0 /\ s.proto = 2 /\ s.subs => ~s.multi

Good(s, L) == s \in ConnState /\ QueueOk(s, L) /\ PlaceOk(s) /\ TxOk(s)

\* Globals and the pool, with the VMs that the connections have checked out.
WorldOk ==
  /\ mix \in Mixes /\ holder \in Conns \cup {NoConn} /\ requirePass \in BOOLEAN
  /\ mem \in {"nolimit", "under", "over"} /\ cache \subseteq Scripts /\ run \in Runs
  /\ PoolOk

Lent ==
  /\ \A v \in Vms : v \in leased <=> \E c \in Conns : cs[c].vm = v
  /\ \A c, d \in Conns : c # d /\ cs[c].vm = cs[d].vm => cs[c].vm = NoVm

ConnInv ==
  /\ WorldOk /\ cs \in [Conns -> ConnState]
  /\ \A c \in Conns : Good(cs[c], mix.inMulti[c]) /\ (holder = c <=> cs[c].tok)
  /\ Lent

-----------------------------------------------------------------------------
(* Updates of one connection.                                              *)

\* The update keeps the invariant, the VM and the token of the connection.
Kept(s, t, L) == Good(t, L) /\ t.vm = s.vm /\ t.tok = s.tok

LEMMA FreshGood == ASSUME NEW L PROVE Good(Fresh, L) /\ Fresh.vm = NoVm /\ ~Fresh.tok /\ Fresh.line \in Lines
<1>1. Fresh.line \in Lines
  BY DEF Fresh, Lines, Names, Args, table
<1>2. Fresh \in ConnState
  <2>1. ASSUME NEW l \in Lines
        PROVE  [proto |-> 2, authed |-> FALSE, multi |-> FALSE, queue |-> <<>>, qerr |-> FALSE,
                watch |-> FALSE, subs |-> FALSE, tok |-> FALSE, inExec |-> FALSE, at |-> "idle",
                line |-> l, pos |-> 0, vm |-> NoVm, fatal |-> FALSE, refused |-> FALSE] \in ConnState
    BY DEF ConnState, Places
  <2>2. Fresh = [proto |-> 2, authed |-> FALSE, multi |-> FALSE, queue |-> <<>>, qerr |-> FALSE,
                 watch |-> FALSE, subs |-> FALSE, tok |-> FALSE, inExec |-> FALSE, at |-> "idle",
                 line |-> Fresh.line, pos |-> 0, vm |-> NoVm, fatal |-> FALSE, refused |-> FALSE]
    BY Zenon DEF Fresh
  <2> HIDE DEF Fresh
  <2> QED BY <1>1, <2>1, <2>2
<1>3. Len(Fresh.queue) = 0
  BY DEF Fresh
<1>4. QueueOk(Fresh, L)
  BY <1>3, ConnAssumption DEF QueueOk
<1>5. PlaceOk(Fresh) /\ TxOk(Fresh)
  BY <1>3 DEF Fresh, PlaceOk, TxOk, NoVm
<1> QED BY <1>1, <1>2, <1>4, <1>5 DEF Good, Fresh

LEMMA BackGood ==
  ASSUME NEW L, NEW s \in ConnState, QueueOk(s, L), TxOk(s), s.vm = NoVm,
         s.pos <= Len(s.queue), s.at \notin {"script", "pause"}
  PROVE  Kept(s, Back(s), L) /\ Back(s).line = Fresh.line
<1> DEFINE t == Back(s)
<1>1. Fresh.line \in Lines
  BY FreshGood
<1>2. /\ t.queue = s.queue /\ t.vm = s.vm /\ t.tok = s.tok /\ t.refused = s.refused
      /\ t.qerr = s.qerr /\ t.inExec = s.inExec /\ t.proto = s.proto /\ t.subs = s.subs
      /\ t.multi = s.multi
      /\ IF s.pos > 0 THEN t.at = "exec" /\ t.pos = s.pos + 1 ELSE t.at = "idle" /\ t.pos = s.pos
      /\ t \in ConnState /\ t.line = Fresh.line
  <2> DEFINE l == Fresh.line
  <2>1. l \in Lines
    BY <1>1
  <2> DEFINE u == [s EXCEPT !.line = l]
  <2>2. t = IF u.pos > 0 THEN [u EXCEPT !.at = "exec", !.pos = @ + 1] ELSE [u EXCEPT !.at = "idle"]
    BY DEF Back
  <2> HIDE DEF l, t
  <2>3. /\ u \in ConnState /\ u.line = l /\ u.queue = s.queue /\ u.vm = s.vm /\ u.tok = s.tok
        /\ u.refused = s.refused /\ u.qerr = s.qerr /\ u.inExec = s.inExec /\ u.proto = s.proto
        /\ u.subs = s.subs /\ u.multi = s.multi /\ u.pos = s.pos
    BY <2>1 DEF ConnState
  <2> HIDE DEF u
  <2>4. /\ t \in ConnState /\ t.line = l /\ t.queue = s.queue /\ t.vm = s.vm /\ t.tok = s.tok
        /\ t.refused = s.refused /\ t.qerr = s.qerr /\ t.inExec = s.inExec /\ t.proto = s.proto
        /\ t.subs = s.subs /\ t.multi = s.multi
        /\ IF s.pos > 0 THEN t.at = "exec" /\ t.pos = s.pos + 1 ELSE t.at = "idle" /\ t.pos = s.pos
    <3>1. CASE u.pos > 0
      <4> DEFINE n == u.pos + 1
      <4>1. t = [u EXCEPT !.at = "exec", !.pos = n] /\ n \in Nat /\ n = s.pos + 1
        BY <2>2, <2>3, <3>1 DEF ConnState
      <4> HIDE DEF n
      <4> QED BY <2>3, <3>1, <4>1 DEF ConnState, Places
    <3>2. CASE ~ u.pos > 0
      BY <2>2, <2>3, <3>2 DEF ConnState, Places
    <3> QED BY <3>1, <3>2
  <2> QED BY <2>4 DEF l
<1> HIDE DEF t
<1>3. Len(s.queue) \in Nat /\ s.pos \in Nat
  BY DEF ConnState
<1>4. QueueOk(t, L) /\ (Nests(t) <=> Nests(s))
  BY <1>2 DEF QueueOk, Nests
<1>5. PlaceOk(t)
  BY <1>2, <1>3 DEF PlaceOk
<1>6. TxOk(t)
  BY <1>2, <1>3, <1>4 DEF TxOk
<1> QED BY <1>2, <1>4, <1>5, <1>6 DEF Kept, Good, t

LEMMA Cleared ==
  ASSUME NEW s \in ConnState
  PROVE  LET t == clearTx(s)
         IN /\ t \in ConnState /\ ~t.multi /\ t.queue = <<>> /\ ~t.qerr /\ t.pos = 0 /\ ~t.refused
            /\ t.at = s.at /\ t.vm = s.vm /\ t.tok = s.tok /\ t.line = s.line
<1> DEFINE t == clearTx(s)
<1>1. /\ s.queue \in Seq(Lines) /\ <<>> \in Seq(Lines) /\ 0 \in Nat
      /\ t = [s EXCEPT !.multi = FALSE, !.queue = <<>>, !.qerr = FALSE, !.watch = FALSE,
                       !.pos = 0, !.refused = FALSE]
  BY DEF clearTx, ConnState
<1> HIDE DEF t
<1>2. t \in ConnState
  BY <1>1 DEF ConnState
<1>3. /\ ~t.multi /\ t.queue = <<>> /\ ~t.qerr /\ t.pos = 0 /\ ~t.refused
      /\ t.at = s.at /\ t.vm = s.vm /\ t.tok = s.tok /\ t.line = s.line
  BY <1>1 DEF ConnState
<1> QED BY <1>2, <1>3 DEF t

\* A connection between two commands, outside MULTI.
LEMMA IdleGood ==
  ASSUME NEW L, NEW t \in ConnState, t.at = "idle", t.pos = 0, ~t.tok, t.vm = NoVm,
         t.queue = <<>>, ~t.refused, ~t.multi
  PROVE  Good(t, L)
<1>1. Len(t.queue) = 0
  OBVIOUS
<1>2. QueueOk(t, L)
  BY <1>1, ConnAssumption DEF QueueOk
<1>3. PlaceOk(t) /\ TxOk(t)
  BY <1>1 DEF PlaceOk, TxOk
<1> QED BY <1>2, <1>3 DEF Good

LEMMA ClearGood ==
  ASSUME NEW L, NEW s, Good(s, L), s.at = "idle"
  PROVE  Kept(s, clearTx(s), L)
<1>1. ~s.tok /\ s.vm = NoVm
  BY DEF Good, PlaceOk, TxOk
<1> QED BY <1>1, Cleared, IdleGood DEF Good, Kept

LEMMA SpoiledGood ==
  ASSUME NEW L, NEW s, Good(s, L), s.at = "idle"
  PROVE  Kept(s, [s EXCEPT !.qerr = TRUE, !.refused = TRUE], L)
<1> DEFINE t == [s EXCEPT !.qerr = TRUE, !.refused = TRUE]
<1>1. /\ t \in ConnState /\ t.qerr /\ t.at = s.at /\ t.vm = s.vm /\ t.tok = s.tok
      /\ t.line = s.line /\ t.queue = s.queue /\ t.pos = s.pos /\ t.inExec = s.inExec
      /\ t.proto = s.proto /\ t.subs = s.subs /\ t.multi = s.multi
  BY DEF Good, ConnState
<1> HIDE DEF t
<1>2. Len(s.queue) \in Nat
  BY DEF Good, ConnState
<1>3. QueueOk(t, L) /\ PlaceOk(t) /\ TxOk(t)
  BY <1>1, <1>2 DEF Good, QueueOk, PlaceOk, TxOk, Nests
<1> QED BY <1>1, <1>3 DEF Kept, Good, t

LEMMA QueuedGood ==
  ASSUME NEW L, NEW s, Good(s, L), s.at = "idle", Len(s.queue) < MaxQueue,
         NEW m, Queued(m, L)
  PROVE  Kept(s, [s EXCEPT !.queue = Append(@, m)], L)
<1> DEFINE q == Append(s.queue, m)
           t == [s EXCEPT !.queue = q]
<1>1. /\ s.queue \in Seq(Lines) /\ m \in Lines /\ s \in ConnState
      /\ s.pos = 0
  BY DEF Good, ConnState, Queued, PlaceOk
<1>2. /\ q \in Seq(Lines) /\ Len(q) = Len(s.queue) + 1 /\ Len(s.queue) \in Nat
      /\ \A i \in 1..Len(s.queue) : q[i] = s.queue[i]
      /\ q[Len(s.queue) + 1] = m
  BY <1>1
<1> HIDE DEF q
<1>3. /\ t \in ConnState /\ t.qerr = s.qerr /\ t.at = s.at /\ t.vm = s.vm /\ t.tok = s.tok
      /\ t.line = s.line /\ t.queue = q /\ t.pos = s.pos /\ t.inExec = s.inExec
      /\ t.proto = s.proto /\ t.subs = s.subs /\ t.multi = s.multi /\ t.refused = s.refused
  BY <1>1, <1>2 DEF ConnState
<1> HIDE DEF t
<1>4. QueueOk(t, L)
  <2>1. Len(t.queue) <= MaxQueue
    BY <1>2, <1>3, ConnAssumption
  <2>2. ASSUME NEW i \in 1..Len(t.queue) PROVE Queued(t.queue[i], L)
    BY <1>2, <1>3 DEF Good, QueueOk
  <2> QED BY <2>1, <2>2 DEF QueueOk
<1>5. PlaceOk(t) /\ TxOk(t)
  BY <1>1, <1>2, <1>3 DEF Good, PlaceOk, TxOk
<1> QED BY <1>3, <1>4, <1>5 DEF Kept, Good, t, q

\* What the gates see when a client that sends L in MULTI sends m, and what they pass.
Arrives(s, m, L) ==
  /\ s.at = "idle" /\ m \in Lines /\ (s.multi => m \in L)
  /\ m.ok /\ IsEval(m) => m.arg \in Scripts
  /\ queueable(s, m) => Len(s.queue) < MaxQueue

Passed(s, m) ==
  /\ m.name \in DOMAIN table /\ m.ok /\ ~queueable(s, m)
  /\ ~ (s.proto = 2 /\ s.subs /\ m.name \in {"multi", "exec"})

LEMMA GateGood ==
  ASSUME NEW L, NEW s, Good(s, L), NEW m, Arrives(s, m, L), NEW oom
  PROVE  LET g == Gate(s, m, oom)
         IN /\ Kept(s, Gated(s, m, g), L)
            /\ g = "run" => Gated(s, m, g) = s /\ Passed(s, m)
<1> DEFINE g == Gate(s, m, oom)
<1>1. s.at = "idle" /\ Kept(s, s, L)
  BY DEF Arrives, Kept
<1>2. CASE g \in {"unknown", "arity", "OOM"} /\ queueable(s, m)
  BY <1>1, <1>2, SpoiledGood DEF Gated
<1>3. CASE g = "EXECABORT"
  BY <1>1, <1>3, ClearGood DEF Gated
<1>4. CASE g = "QUEUED"
  <2>1. queueable(s, m) /\ m.name \in DOMAIN table /\ m.ok
    BY <1>4 DEF Gate
  <2>2. Queued(m, L) /\ Len(s.queue) < MaxQueue
    BY <2>1 DEF Arrives, queueable, Queued
  <2> QED BY <1>1, <1>4, <2>2, QueuedGood DEF Gated
<1>5. CASE ~ (g \in {"unknown", "arity", "OOM"} /\ queueable(s, m)) /\ g \notin {"EXECABORT", "QUEUED"}
  <2>1. Gated(s, m, g) = s
    BY <1>5 DEF Gated
  <2>2. g = "run" => /\ m.name \in DOMAIN table /\ m.ok /\ ~queueable(s, m)
                     /\ ~SubscribeMode(s, m)
    BY DEF Gate
  <2>3. ~SubscribeMode(s, m) => ~ (s.proto = 2 /\ s.subs /\ m.name \in {"multi", "exec"})
    BY DEF SubscribeMode
  <2> QED BY <1>1, <2>1, <2>2, <2>3 DEF Passed
<1> QED BY <1>2, <1>3, <1>4, <1>5

-----------------------------------------------------------------------------
(* Handlers that touch only the connection.                                *)

\* The updates of the flags that neither the queue nor the place depends on.
SameTx(s, t) ==
  /\ t.queue = s.queue /\ t.pos = s.pos /\ t.at = s.at /\ t.vm = s.vm /\ t.tok = s.tok
  /\ t.line = s.line /\ t.refused = s.refused /\ t.qerr = s.qerr /\ t.inExec = s.inExec

LEMMA FlagsGood ==
  ASSUME NEW L, NEW s, Good(s, L), NEW t \in ConnState, SameTx(s, t),
         t.pos = 0 /\ t.proto = 2 /\ t.subs => ~t.multi
  PROVE  Kept(s, t, L)
<1>1. QueueOk(t, L) /\ (Nests(t) <=> Nests(s))
  BY DEF Good, SameTx, QueueOk, Nests
<1>2. PlaceOk(t)
  BY <1>1 DEF Good, SameTx, PlaceOk
<1>3. TxOk(t)
  BY <1>1 DEF Good, SameTx, TxOk
<1> QED BY <1>1, <1>2, <1>3 DEF Kept, Good, SameTx

\* Runs: m is at the head of what an idle connection or an EXEC runs.
Runnable(s, m) ==
  \/ s.at = "idle" /\ Passed(s, m)
  \/ s.at = "exec" /\ m.name \notin {"exec", "discard", "multi", "watch", "quit", "reset"}

LEMMA LocalGood ==
  ASSUME NEW L, NEW s, Good(s, L), NEW m \in Lines, Runnable(s, m)
  PROVE  Kept(s, Local(s, m), L)
<1> DEFINE t == Local(s, m)
<1> SUFFICES Kept(s, t, L)
  OBVIOUS
<1>1. /\ s \in ConnState /\ s.pos \in Nat
      /\ s.at = "idle" => s.pos = 0 /\ ~s.tok /\ s.vm = NoVm
      /\ s.at = "exec" => s.pos > 0
      /\ s.pos = 0 /\ s.proto = 2 /\ s.subs => ~s.multi
  BY DEF Good, ConnState, PlaceOk, TxOk
<1>2. /\ m.name \in {"discard", "reset", "multi"} => s.at = "idle"
      /\ s.at = "idle" /\ m.name \in {"auth", "hello", "subscribe", "unsubscribe"} => ~s.multi
  BY DEF Runnable, Passed, queueable
<1>3. Kept(s, s, L)
  BY DEF Kept
<1>4. CASE m.name = "multi"
  <2>1. ~ (s.proto = 2 /\ s.subs) /\ s.at = "idle"
    BY <1>2, <1>4 DEF Runnable, Passed
  <2>2. t = (IF s.multi THEN s ELSE [s EXCEPT !.multi = TRUE])
    BY <1>4 DEF Local
  <2> HIDE DEF t
  <2>3. CASE ~s.multi
    <3>1. t = [s EXCEPT !.multi = TRUE]
      BY <2>2, <2>3
    <3>2. t \in ConnState /\ SameTx(s, t) /\ t.proto = s.proto /\ t.subs = s.subs
      BY <1>1, <3>1 DEF ConnState, SameTx
    <3> QED BY <2>1, <3>2, FlagsGood
  <2> QED BY <1>3, <2>2, <2>3
<1>5. CASE m.name = "discard"
  BY <1>2, <1>3, <1>5, ClearGood DEF Local
<1>6. CASE m.name = "watch"
  <2>1. t = (IF s.multi THEN s ELSE [s EXCEPT !.watch = TRUE])
    BY <1>6 DEF Local
  <2> HIDE DEF t
  <2>2. CASE ~s.multi
    <3>1. t = [s EXCEPT !.watch = TRUE]
      BY <2>1, <2>2
    <3>2. t \in ConnState /\ SameTx(s, t) /\ t.multi = s.multi
      BY <1>1, <3>1 DEF ConnState, SameTx
    <3> QED BY <2>2, <3>2, FlagsGood
  <2> QED BY <1>3, <2>1, <2>2
<1>7. CASE m.name = "unwatch"
  <2>1. t = [s EXCEPT !.watch = FALSE]
    BY <1>7 DEF Local
  <2> HIDE DEF t
  <2>2. /\ t \in ConnState /\ SameTx(s, t) /\ t.multi = s.multi /\ t.proto = s.proto
        /\ t.subs = s.subs
    BY <1>1, <2>1 DEF ConnState, SameTx
  <2>3. t.pos = s.pos
    BY <2>2 DEF SameTx
  <2> QED BY <1>1, <2>2, <2>3, FlagsGood
<1>8. CASE m.name \in {"auth", "hello", "subscribe", "unsubscribe"}
  <2>1. \/ t = s
        \/ t = [s EXCEPT !.authed = TRUE]
        \/ \E p \in {2, 3} : t = [s EXCEPT !.proto = p]
        \/ \E b \in BOOLEAN : t = [s EXCEPT !.subs = b]
    <3>1. m.name = "auth" => t = s \/ t = [s EXCEPT !.authed = TRUE]
      BY DEF Local, cmdAuth
    <3>2. m.name = "hello" => \/ t = s \/ t = [s EXCEPT !.authed = TRUE]
                              \/ t = [s EXCEPT !.proto = 2] \/ t = [s EXCEPT !.proto = 3]
      BY DEF Local, cmdHello
    <3>3. /\ m.name = "subscribe" => t = [s EXCEPT !.subs = TRUE]
          /\ m.name = "unsubscribe" => t = [s EXCEPT !.subs = FALSE]
      BY DEF Local
    <3> HIDE DEF t
    <3> QED BY <1>8, <3>1, <3>2, <3>3
  <2> HIDE DEF t
  <2>2. t = s \/ (t \in ConnState /\ SameTx(s, t) /\ t.multi = s.multi)
    <3>0. s \in ConnState
      BY <1>1
    <3>1. CASE t = [s EXCEPT !.authed = TRUE]
      BY <3>0, <3>1 DEF ConnState, SameTx
    <3>2. ASSUME NEW p \in {2, 3}, t = [s EXCEPT !.proto = p]
          PROVE  t \in ConnState /\ SameTx(s, t) /\ t.multi = s.multi
      BY <3>0, <3>2 DEF ConnState, SameTx
    <3>3. ASSUME NEW b \in BOOLEAN, t = [s EXCEPT !.subs = b]
          PROVE  t \in ConnState /\ SameTx(s, t) /\ t.multi = s.multi
      BY <3>0, <3>3 DEF ConnState, SameTx
    <3> QED BY <2>1, <3>1, <3>2, <3>3
  <2>3. (t.pos = 0 /\ t.proto = 2 /\ t.subs => ~t.multi) \/ t = s
    <3>1. t = s \/ t.pos = s.pos
      BY <2>2 DEF SameTx
    <3> QED BY <1>1, <1>2, <1>8, <2>2, <3>1 DEF Runnable
  <2> QED BY <1>3, <2>2, <2>3, FlagsGood
<1>9. CASE m.name = "reset"
  <2>1. s.at = "idle" /\ s.pos = 0 /\ ~s.tok /\ s.vm = NoVm
    BY <1>1, <1>2, <1>9
  <2> DEFINE u == clearTx(s)
  <2>2. /\ u \in ConnState /\ ~u.multi /\ u.queue = <<>> /\ ~u.qerr /\ u.pos = 0 /\ ~u.refused
        /\ u.at = s.at /\ u.vm = s.vm /\ u.tok = s.tok
    BY <1>1, Cleared
  <2>3. t = [u EXCEPT !.subs = FALSE, !.authed = FALSE, !.proto = 2]
    BY <1>9 DEF Local, cmdReset
  <2> HIDE DEF t, u
  <2>4. t \in ConnState /\ SameTx(u, t) /\ t.multi = u.multi
    BY <2>2, <2>3 DEF ConnState, SameTx
  <2>5. Good(t, L)
    BY <2>1, <2>2, <2>4, IdleGood DEF SameTx
  <2> QED BY <2>1, <2>2, <2>4, <2>5 DEF Kept, SameTx
<1>10. CASE m.name \notin {"multi", "discard", "watch", "unwatch", "auth", "hello", "reset",
                          "subscribe", "unsubscribe"}
  BY <1>3, <1>10 DEF Local
<1> QED BY <1>4, <1>5, <1>6, <1>7, <1>8, <1>9, <1>10

-----------------------------------------------------------------------------
(* A step of one connection.                                               *)

\* What the VM of the connection has to do with the VMs that are checked out.
LentStep(c, t) ==
  \/ t.vm = cs[c].vm /\ leased' = leased
  \/ cs[c].vm = NoVm /\ t.vm \in Vms \ leased /\ leased' = leased \cup {t.vm}
  \/ t.vm = NoVm /\ leased' = leased \ {cs[c].vm}

LEMMA StepOk ==
  ASSUME ConnInv, NEW c \in Conns, NEW t, Put(c, t), Good(t, mix.inMulti[c]),
         mix' = mix, WorldOk', LentStep(c, t),
         holder' = c <=> t.tok, holder' = holder \/ {holder, holder'} \subseteq {NoConn, c}
  PROVE  ConnInv'
<1>1. /\ cs \in [Conns -> ConnState] /\ cs' = [cs EXCEPT ![c] = t] /\ t \in ConnState
  BY DEF ConnInv, Put, Good
<1>2. /\ cs' \in [Conns -> ConnState] /\ cs'[c] = t
      /\ \A d \in Conns : d # c => cs'[d] = cs[d]
  BY <1>1
<1>3. ASSUME NEW d \in Conns
      PROVE  Good(cs'[d], mix'.inMulti[d]) /\ (holder' = d <=> cs'[d].tok)
  <2>1. CASE d = c
    BY <1>2, <2>1
  <2>2. CASE d # c
    <3>1. cs'[d] = cs[d] /\ Good(cs[d], mix.inMulti[d]) /\ (holder = d <=> cs[d].tok)
      BY <1>2, <2>2 DEF ConnInv
    <3>2. holder' = d <=> holder = d
      BY <2>2, ConnAssumption
    <3> QED BY <3>1, <3>2
  <2> QED BY <2>1, <2>2
<1>4. /\ t.vm \in {NoVm} \cup Vms /\ cs[c].vm \in {NoVm} \cup Vms /\ NoVm \notin Vms
      /\ \A d \in Conns : cs[d].vm \in {NoVm} \cup Vms
  BY <1>1, PoolAssumption DEF ConnState, NoVm, Vms
<1> DEFINE vm(d) == cs[d].vm
           wm(d) == cs'[d].vm
<1>5. /\ wm(c) = t.vm /\ \A d \in Conns : d # c => wm(d) = vm(d)
      /\ \A v \in Vms : v \in leased <=> \E d \in Conns : vm(d) = v
      /\ \A d, e \in Conns : d # e /\ vm(d) = vm(e) => vm(d) = NoVm
      /\ vm(c) \in {NoVm} \cup Vms /\ t.vm \in {NoVm} \cup Vms /\ NoVm \notin Vms
      /\ \A d \in Conns : vm(d) \in {NoVm} \cup Vms
      /\ \/ t.vm = vm(c) /\ leased' = leased
         \/ vm(c) = NoVm /\ t.vm \in Vms \ leased /\ leased' = leased \cup {t.vm}
         \/ t.vm = NoVm /\ leased' = leased \ {vm(c)}
  BY <1>2, <1>4 DEF ConnInv, Lent, LentStep
<1> HIDE DEF vm, wm
<1>6. ASSUME NEW v \in Vms PROVE v \in leased' <=> \E d \in Conns : wm(d) = v
  <2>1. CASE t.vm = vm(c) /\ leased' = leased
    BY <1>5, <2>1
  <2>2. CASE vm(c) = NoVm /\ t.vm \in Vms \ leased /\ leased' = leased \cup {t.vm}
    BY <1>5, <2>2
  <2>3. CASE t.vm = NoVm /\ leased' = leased \ {vm(c)}
    BY <1>5, <2>3
  <2> QED BY <1>5, <2>1, <2>2, <2>3
<1>7. ASSUME NEW d \in Conns, NEW e \in Conns, d # e, wm(d) = wm(e) PROVE wm(d) = NoVm
  <2>1. CASE t.vm = vm(c) /\ leased' = leased
    BY <1>5, <1>7, <2>1
  <2>2. CASE vm(c) = NoVm /\ t.vm \in Vms \ leased /\ leased' = leased \cup {t.vm}
    BY <1>5, <1>7, <2>2
  <2>3. CASE t.vm = NoVm /\ leased' = leased \ {vm(c)}
    BY <1>5, <1>7, <2>3
  <2> QED BY <1>5, <2>1, <2>2, <2>3
<1>8. Lent'
  BY <1>6, <1>7 DEF Lent, wm
<1> QED BY <1>2, <1>3, <1>8 DEF ConnInv

\* The common case: the VMs and the pause stay as they are.
LEMMA KeptOk ==
  ASSUME ConnInv, NEW c \in Conns, NEW t, Put(c, t), Kept(cs[c], t, mix.inMulti[c]),
         UNCHANGED <<mix, holder, poolVars>>,
         requirePass' \in BOOLEAN, mem' \in {"nolimit", "under", "over"},
         cache' \subseteq Scripts, run' \in Runs
  PROVE  ConnInv'
<1>1. Good(t, mix.inMulti[c]) /\ t.vm = cs[c].vm /\ t.tok = cs[c].tok
  BY DEF Kept
<1>2. PoolOk'
  BY DEF ConnInv, WorldOk, poolVars, PoolOk, PoolTypeOK, PoolBounded, FlushedGone, Queue
<1>3. WorldOk'
  BY <1>2 DEF ConnInv, WorldOk
<1>4. LentStep(c, t) /\ (holder' = c <=> t.tok)
  BY <1>1 DEF LentStep, poolVars, ConnInv
<1> QED BY <1>1, <1>3, <1>4, StepOk

LEMMA Moved ==
  ASSUME NEW L, NEW s, Good(s, L), NEW t \in ConnState, t.queue = s.queue, PlaceOk(t), TxOk(t)
  PROVE  Good(t, L)
BY DEF Good, QueueOk

LEMMA ConnStarts == Init => ConnInv
<1> SUFFICES ASSUME Init PROVE ConnInv
  OBVIOUS
<1>1. /\ mix \in Mixes /\ cs = [c \in Conns |-> Fresh] /\ holder = NoConn /\ ~requirePass
      /\ mem = "nolimit" /\ cache = {} /\ run = NoRun /\ PoolInit
  BY DEF Init
<1>2. WorldOk
  <2>1. run \in Runs
    BY <1>1 DEF Runs, NoRun
  <2> QED BY <1>1, <2>1, PoolStarts DEF WorldOk, Init
<1>3. \A c \in Conns : cs[c] = Fresh /\ holder # c
  BY <1>1, ConnAssumption
<1>4. cs \in [Conns -> ConnState] /\ \A c \in Conns : Good(cs[c], mix.inMulti[c]) /\ (holder = c <=> cs[c].tok)
  BY <1>1, <1>3, FreshGood DEF Good
<1>5. Lent
  <2>1. leased = {} /\ NoVm \notin Vms
    BY <1>1, PoolAssumption DEF PoolInit, NoVm, Vms
  <2> QED BY <1>3, <2>1, FreshGood DEF Lent
<1> QED BY <1>2, <1>4, <1>5 DEF ConnInv

-----------------------------------------------------------------------------
(* What a command does, from a client or from the queue of an EXEC.        *)

\* The connection can start a command that waits: c is idle or at a queued line.
Starts(s) == s.at = "idle" \/ (s.at = "exec" /\ s.pos <= Len(s.queue))

LEMMA HandleOk ==
  ASSUME ConnInv, NEW c \in Conns, NEW s, Kept(cs[c], s, mix.inMulti[c]),
         NEW m \in Lines, Runnable(s, m), Handle(c, s, m), UNCHANGED <<mix, holder>>
  PROVE  ConnInv'
<1>1. /\ requirePass \in BOOLEAN /\ mem \in {"nolimit", "under", "over"}
      /\ cache \subseteq Scripts /\ run \in Runs
  BY DEF ConnInv, WorldOk
<1>2. CASE m.name = "config"
  <2>1. Put(c, s) /\ cmdConfig(m) /\ UNCHANGED <<run, poolVars>>
    BY <1>2 DEF Handle
  <2>2. requirePass' \in BOOLEAN /\ mem' \in {"nolimit", "under", "over"} /\ cache' = cache
    <3>1. requirePass' \in BOOLEAN /\ cache' = cache
      BY <1>1, <2>1 DEF cmdConfig
    <3>2. mem' = mem \/ mem' = "under" \/ mem' = "nolimit"
      BY <2>1 DEF cmdConfig
    <3> QED BY <1>1, <3>1, <3>2
  <2> QED BY <1>1, <2>1, <2>2, KeptOk
<1>3. CASE m.name = "script" /\ (Put(c, s) /\ Kill /\ UNCHANGED <<globals, poolVars>>)
  <2>1. run' \in Runs
    BY <1>1, <1>3 DEF Kill, Runs
  <2> QED BY <1>1, <1>3, <2>1, KeptOk DEF globals
<1>4. CASE /\ m.arg \in Scripts /\ Put(c, s) /\ cache' = cache \cup {m.arg}
           /\ UNCHANGED <<requirePass, mem, run, poolVars>>
  BY <1>1, <1>4, KeptOk
<1>5. CASE Put(c, Local(s, m)) /\ UNCHANGED <<run, globals, poolVars>>
  <2>1. Kept(cs[c], Local(s, m), mix.inMulti[c])
    BY LocalGood DEF Kept
  <2> QED BY <1>1, <1>5, <2>1, KeptOk DEF globals
<1> QED BY <1>2, <1>3, <1>4, <1>5 DEF Handle

LEMMA FindOk ==
  ASSUME ConnInv, NEW c \in Conns, Starts(cs[c]), NEW m \in Lines, IsEval(m), m.arg \in Scripts,
         cs[c].pos > 0 => Nests(cs[c]),
         NEW miss, Kept(cs[c], miss, mix.inMulti[c]), Find(c, cs[c], m, miss),
         UNCHANGED <<mix, holder>>
  PROVE  ConnInv'
<1>1. /\ requirePass \in BOOLEAN /\ mem \in {"nolimit", "under", "over"}
      /\ cache \subseteq Scripts /\ run \in Runs /\ Good(cs[c], mix.inMulti[c])
      /\ UNCHANGED <<requirePass, mem, run, poolVars>>
  BY DEF ConnInv, WorldOk, Find
<1>2. CASE Put(c, miss) /\ UNCHANGED cache
  BY <1>1, <1>2, KeptOk
<1>3. CASE Put(c, [cs[c] EXCEPT !.at = "lease", !.line = m]) /\ cache' = cache \cup {m.arg}
  <2> DEFINE s == cs[c]
             t == [s EXCEPT !.at = "lease", !.line = m]
  <2>1. s \in ConnState /\ s.vm = NoVm /\ (s.tok <=> s.pos > 0) /\ s.pos <= Len(s.queue)
        /\ PlaceOk(s) /\ TxOk(s) /\ s.at \notin {"script", "pause"}
    <3>1. s \in ConnState /\ s.vm = NoVm /\ (s.tok <=> s.pos > 0) /\ PlaceOk(s) /\ TxOk(s)
      BY <1>1 DEF Good, PlaceOk, TxOk, Starts
    <3> QED BY <3>1 DEF Starts, PlaceOk
  <2> HIDE DEF s
  <2>2. /\ t \in ConnState /\ t.at = "lease" /\ t.line = m /\ t.queue = s.queue /\ t.pos = s.pos
        /\ t.vm = s.vm /\ t.tok = s.tok /\ t.refused = s.refused /\ t.qerr = s.qerr
        /\ t.inExec = s.inExec /\ t.proto = s.proto /\ t.subs = s.subs /\ t.multi = s.multi
    BY <2>1 DEF ConnState, Places
  <2> HIDE DEF t
  <2>3. PlaceOk(t)
    BY <2>1, <2>2 DEF PlaceOk, Nests, s
  <2>4. TxOk(t)
    BY <2>1, <2>2 DEF TxOk, Nests
  <2>5. Kept(s, t, mix.inMulti[c])
    BY <1>1, <2>2, <2>3, <2>4, Moved DEF Kept, s
  <2> QED BY <1>1, <1>3, <2>5, KeptOk DEF s, t
<1> QED BY <1>2, <1>3 DEF Find

LEMMA FlushOk ==
  ASSUME ConnInv, NEW c \in Conns, Starts(cs[c]), FlushCache(c, cs[c]), UNCHANGED <<mix, holder>>
  PROVE  ConnInv'
<1>1. /\ requirePass \in BOOLEAN /\ mem \in {"nolimit", "under", "over"}
      /\ cache' \subseteq Scripts /\ run \in Runs /\ Good(cs[c], mix.inMulti[c])
      /\ UNCHANGED <<requirePass, mem, run, poolVars>>
      /\ Put(c, [cs[c] EXCEPT !.at = "drain"])
  BY DEF ConnInv, WorldOk, FlushCache
<1> DEFINE s == cs[c]
           t == [s EXCEPT !.at = "drain"]
<1>2. s \in ConnState /\ s.vm = NoVm /\ (s.tok <=> s.pos > 0) /\ s.pos <= Len(s.queue)
      /\ PlaceOk(s) /\ TxOk(s) /\ s.at \notin {"script", "pause"}
  <2>1. s \in ConnState /\ s.vm = NoVm /\ (s.tok <=> s.pos > 0) /\ PlaceOk(s) /\ TxOk(s)
    BY <1>1 DEF Good, PlaceOk, TxOk, Starts
  <2> QED BY <2>1 DEF Starts, PlaceOk
<1> HIDE DEF s
<1>3. /\ t \in ConnState /\ t.at = "drain" /\ t.queue = s.queue /\ t.pos = s.pos
      /\ t.vm = s.vm /\ t.tok = s.tok /\ t.refused = s.refused /\ t.qerr = s.qerr
      /\ t.inExec = s.inExec /\ t.proto = s.proto /\ t.subs = s.subs /\ t.multi = s.multi
  BY <1>2 DEF ConnState, Places
<1> HIDE DEF t
<1>4. PlaceOk(t) /\ TxOk(t)
  BY <1>2, <1>3 DEF PlaceOk, TxOk, Nests
<1>5. Kept(s, t, mix.inMulti[c])
  BY <1>1, <1>3, <1>4, Moved DEF Kept, s
<1> QED BY <1>1, <1>5, KeptOk DEF s, t

LEMMA ClosedGood ==
  ASSUME NEW L, NEW s, Good(s, L), s.at = "idle"
  PROVE  Kept(s, Fresh, L)
<1>1. s.vm = NoVm /\ ~s.tok /\ s.tok \in BOOLEAN
  BY DEF Good, PlaceOk, TxOk, ConnState
<1>2. Fresh.tok = FALSE
  BY DEF Fresh
<1> QED BY <1>1, <1>2, FreshGood DEF Kept

LEMMA cmdExecOk ==
  ASSUME ConnInv, NEW c \in Conns, cs[c].at = "idle", NEW m, cmdExec(c, cs[c], m),
         UNCHANGED <<mix, holder>>
  PROVE  ConnInv'
<1> DEFINE s == cs[c]
           t == [s EXCEPT !.at = "pause"]
<1>1. /\ requirePass' \in BOOLEAN /\ mem' \in {"nolimit", "under", "over"}
      /\ cache' \subseteq Scripts /\ run' \in Runs /\ Good(s, mix.inMulti[c])
      /\ UNCHANGED poolVars
  BY DEF ConnInv, WorldOk, cmdExec, globals
<1>2. Put(c, s) \/ Put(c, clearTx(s)) \/ (s.multi /\ ~s.qerr /\ Put(c, t))
  BY DEF cmdExec, Put
<1> HIDE DEF s
<1>3. CASE Put(c, s)
  BY <1>1, <1>3, KeptOk DEF Kept, s
<1>4. CASE Put(c, clearTx(s))
  BY <1>1, <1>4, KeptOk, ClearGood DEF s
<1>5. CASE ~s.qerr /\ Put(c, t)
  <2>1. s \in ConnState /\ PlaceOk(s) /\ TxOk(s) /\ s.at = "idle"
    BY <1>1 DEF Good, s
  <2>2. /\ t \in ConnState /\ t.at = "pause" /\ t.queue = s.queue /\ t.pos = s.pos
        /\ t.vm = s.vm /\ t.tok = s.tok /\ t.refused = s.refused /\ t.qerr = s.qerr
        /\ t.inExec = s.inExec /\ t.proto = s.proto /\ t.subs = s.subs /\ t.multi = s.multi
        /\ Len(s.queue) \in Nat
    BY <2>1 DEF ConnState, Places
  <2> HIDE DEF t
  <2>3. PlaceOk(t) /\ TxOk(t)
    BY <1>5, <2>1, <2>2 DEF PlaceOk, TxOk
  <2>4. Kept(s, t, mix.inMulti[c])
    BY <1>1, <2>2, <2>3, Moved DEF Kept
  <2> QED BY <1>1, <1>5, <2>4, KeptOk DEF s, t
<1> QED BY <1>2, <1>3, <1>4, <1>5

LEMMA DoGood ==
  ASSUME NEW L, NEW s, Good(s, L), s.at = "idle", NEW m \in Lines, NeedsShards(m)
  PROVE  Kept(s, [s EXCEPT !.at = "do", !.line = m], L)
<1> DEFINE u == [s EXCEPT !.at = "do", !.line = m]
<1>1. s \in ConnState /\ PlaceOk(s) /\ TxOk(s)
  BY DEF Good
<1>2. /\ u \in ConnState /\ u.at = "do" /\ u.queue = s.queue /\ u.pos = s.pos /\ u.line = m
      /\ u.vm = s.vm /\ u.tok = s.tok /\ u.refused = s.refused /\ u.qerr = s.qerr
      /\ u.inExec = s.inExec /\ u.proto = s.proto /\ u.subs = s.subs /\ u.multi = s.multi
  BY <1>1 DEF ConnState, Places
<1>5. Len(s.queue) \in Nat
  BY <1>1 DEF ConnState
<1> HIDE DEF u
<1>3. PlaceOk(u)
  BY <1>1, <1>2, <1>5 DEF PlaceOk
<1>4. TxOk(u)
  BY <1>1, <1>2 DEF PlaceOk, TxOk, Nests
<1> QED BY <1>2, <1>3, <1>4, Moved DEF Kept, u

LEMMA ExecuteOk ==
  ASSUME ConnInv, NEW c \in Conns, Execute(c)
  PROVE  ConnInv'
<1> DEFINE s == cs[c]
           L == mix.inMulti[c]
<1>1. PICK m \in IF s.multi THEN mix.inMulti[c] ELSE mix.top[c], oom \in BOOLEAN :
        /\ queueable(s, m) => Len(s.queue) < MaxQueue
        /\ Dispatch(c, m, oom)
  BY DEF Execute
<1>2. s.at = "idle" /\ UNCHANGED <<mix, holder>> /\ Good(s, L)
  BY DEF Execute, ConnInv
<1>3. m \in Lines /\ (s.multi => m \in L) /\ (m.ok /\ IsEval(m) => m.arg \in Scripts)
  <2>1. mix \in Mixes
    BY DEF ConnInv, WorldOk
  <2>2. mix.top[c] \subseteq Lines /\ mix.inMulti[c] \subseteq Lines
    BY <2>1, ConnAssumption
  <2>3. m.ok /\ m.name \in {"eval", "evalsha"} => m.arg \in Scripts
    BY <2>1, ConnAssumption
  <2> QED BY <2>2, <2>3 DEF IsEval
<1>4. Arrives(s, m, L)
  BY <1>1, <1>2, <1>3 DEF Arrives
<1> DEFINE g == Gate(s, m, oom)
           t == Gated(s, m, g)
<1>5. Kept(s, t, L) /\ (g = "run" => t = s /\ Passed(s, m))
  BY <1>2, <1>4, GateGood
<1>6. /\ requirePass \in BOOLEAN /\ mem \in {"nolimit", "under", "over"}
      /\ cache \subseteq Scripts /\ run \in Runs
  BY DEF ConnInv, WorldOk
<1>7. \/ g # "run" /\ Put(c, t) /\ UNCHANGED <<run, globals, poolVars>>
      \/ g = "run" /\ cmdExec(c, t, m)
      \/ g = "run" /\ IsEval(m) /\ Find(c, t, m, t)
      \/ g = "run" /\ FlushCache(c, t)
      \/ /\ g = "run" /\ NeedsShards(m) /\ Put(c, [t EXCEPT !.at = "do", !.line = m])
         /\ UNCHANGED <<run, globals, poolVars>>
      \/ Put(c, Fresh) /\ UNCHANGED <<run, globals, poolVars>>
      \/ g = "run" /\ Handle(c, t, m)
  BY <1>1 DEF Dispatch
<1> HIDE DEF s, L, g, t
<1>8. CASE g # "run" /\ Put(c, t) /\ UNCHANGED <<run, globals, poolVars>>
  BY <1>2, <1>5, <1>6, <1>8, KeptOk DEF s, L, globals
<1>9. CASE g = "run" /\ cmdExec(c, t, m)
  BY <1>2, <1>5, <1>9, cmdExecOk DEF s
<1>10. CASE g = "run" /\ IsEval(m) /\ Find(c, t, m, t)
  <2>1. m.arg \in Scripts /\ t = s
    BY <1>3, <1>5, <1>10 DEF Passed
  <2>2. s.pos = 0 /\ Starts(s) /\ Kept(s, s, L)
    BY <1>2 DEF Good, PlaceOk, Starts, Kept
  <2> QED BY <1>2, <1>3, <1>10, <2>1, <2>2, FindOk DEF s, L
<1>11. CASE g = "run" /\ FlushCache(c, t)
  BY <1>2, <1>5, <1>11, FlushOk DEF s, Starts
<1>12. CASE /\ g = "run" /\ NeedsShards(m) /\ Put(c, [t EXCEPT !.at = "do", !.line = m])
            /\ UNCHANGED <<run, globals, poolVars>>
  <2>1. Kept(s, [s EXCEPT !.at = "do", !.line = m], L)
    BY <1>2, <1>3, <1>12, DoGood
  <2> QED BY <1>2, <1>5, <1>6, <1>12, <2>1, KeptOk DEF s, L, globals
<1>13. CASE Put(c, Fresh) /\ UNCHANGED <<run, globals, poolVars>>
  BY <1>2, <1>6, <1>13, ClosedGood, KeptOk DEF s, L, globals
<1>14. CASE g = "run" /\ Handle(c, t, m)
  <2>1. Runnable(s, m) /\ Kept(s, s, L)
    BY <1>2, <1>5, <1>14 DEF Runnable, Kept
  <2> QED BY <1>2, <1>3, <1>5, <1>14, <2>1, HandleOk DEF s, L
<1> QED BY <1>7, <1>8, <1>9, <1>10, <1>11, <1>12, <1>13, <1>14

LEMMA PoolSame == ASSUME PoolOk, UNCHANGED poolVars PROVE PoolOk'
BY DEF poolVars, PoolOk, PoolTypeOK, PoolBounded, FlushedGone, Queue

\* A connection that waits for a push.
LEMMA ParkGood ==
  ASSUME NEW L, NEW s, Good(s, L),
         \/ s.at = "do"
         \/ s.at = "exec" /\ s.pos <= Len(s.queue) /\ ~s.inExec /\ Blocks(s.queue[s.pos])
  PROVE  Kept(s, [s EXCEPT !.at = "parked"], L)
<1> DEFINE u == [s EXCEPT !.at = "parked"]
<1>1. s \in ConnState /\ PlaceOk(s) /\ TxOk(s)
  BY DEF Good
<1>2. /\ u \in ConnState /\ u.at = "parked" /\ u.queue = s.queue /\ u.pos = s.pos /\ u.line = s.line
      /\ u.vm = s.vm /\ u.tok = s.tok /\ u.refused = s.refused /\ u.qerr = s.qerr
      /\ u.inExec = s.inExec /\ u.proto = s.proto /\ u.subs = s.subs /\ u.multi = s.multi
  BY <1>1 DEF ConnState, Places
<1>3. Len(s.queue) \in Nat
  BY <1>1 DEF ConnState
<1> HIDE DEF u
<1>4. PlaceOk(u)
  <2>1. Nests(u) <=> Nests(s)
    BY <1>2 DEF Nests
  <2>2. u.pos > 0 => Nests(u) /\ Blocks(u.queue[u.pos])
    BY <1>1, <1>2, <2>1 DEF PlaceOk, TxOk
  <2> QED BY <1>1, <1>2, <1>3, <2>2 DEF PlaceOk
<1>5. TxOk(u)
  BY <1>1, <1>2 DEF PlaceOk, TxOk, Nests
<1> QED BY <1>2, <1>4, <1>5, Moved DEF Kept, u

\* A command outside MULTI and EXEC that has waited for the shards or for a push.
LEMMA DoneGood ==
  ASSUME NEW L, NEW s, Good(s, L), s.at \in {"do", "parked", "drain"}
  PROVE  Kept(s, Back(s), L)
<1>1. s \in ConnState /\ QueueOk(s, L) /\ TxOk(s) /\ s.vm = NoVm /\ s.pos <= Len(s.queue)
  BY DEF Good, PlaceOk
<1> QED BY <1>1, BackGood

LEMMA DoOk ==
  ASSUME ConnInv, NEW c \in Conns, Do(c)
  PROVE  ConnInv'
<1> DEFINE s == cs[c]
           L == mix.inMulti[c]
           b == Back(s)
<1>1. /\ requirePass' \in BOOLEAN /\ mem' \in {"nolimit", "under", "over"}
      /\ cache' \subseteq Scripts /\ run' \in Runs /\ Good(s, L)
      /\ UNCHANGED <<mix, holder, poolVars>> /\ s.at = "do" /\ NeedsShards(s.line)
  BY DEF ConnInv, WorldOk, Do, globals, Good, PlaceOk
<1>2. Put(c, Local(b, s.line)) \/ Put(c, [s EXCEPT !.at = "parked"])
  BY DEF Do
<1>3. Kept(s, b, L)
  BY <1>1, DoneGood
<1> HIDE DEF s, L, b
<1>4. Kept(s, Local(b, s.line), L)
  <2>1. CASE Local(b, s.line) = b
    BY <1>3, <2>1
  <2>2. CASE Local(b, s.line) = [b EXCEPT !.watch = TRUE]
    <3> DEFINE t == [b EXCEPT !.watch = TRUE]
    <3>1. Good(b, L) /\ b \in ConnState
      BY <1>3 DEF Kept, Good
    <3>2. /\ t \in ConnState /\ SameTx(b, t) /\ t.multi = b.multi /\ t.proto = b.proto
          /\ t.subs = b.subs /\ t.pos = b.pos
      BY <3>1 DEF ConnState, SameTx
    <3> HIDE DEF t
    <3>3. t.pos = 0 /\ t.proto = 2 /\ t.subs => ~t.multi
      BY <3>1, <3>2 DEF Good, TxOk
    <3>4. Kept(b, t, L)
      BY <3>1, <3>2, <3>3, FlagsGood
    <3> QED BY <1>3, <2>2, <3>4 DEF Kept, t
  <2>3. Local(b, s.line) = b \/ Local(b, s.line) = [b EXCEPT !.watch = TRUE]
    BY <1>1 DEF NeedsShards, Local
  <2> QED BY <2>1, <2>2, <2>3
<1>5. Kept(s, [s EXCEPT !.at = "parked"], L)
  BY <1>1, ParkGood
<1> QED BY <1>1, <1>2, <1>4, <1>5, KeptOk DEF s, L

LEMMA WakeOk ==
  ASSUME ConnInv, NEW c \in Conns, Wake(c)
  PROVE  ConnInv'
<1>1. /\ requirePass' \in BOOLEAN /\ mem' \in {"nolimit", "under", "over"}
      /\ cache' \subseteq Scripts /\ run' \in Runs /\ Good(cs[c], mix.inMulti[c])
      /\ UNCHANGED <<mix, holder, poolVars>> /\ cs[c].at = "parked" /\ Put(c, Back(cs[c]))
  BY DEF ConnInv, WorldOk, Wake, globals
<1> QED BY <1>1, DoneGood, KeptOk

LEMMA CloseOk ==
  ASSUME ConnInv, NEW c \in Conns, CloseConn(c)
  PROVE  ConnInv'
<1>1. /\ requirePass' \in BOOLEAN /\ mem' \in {"nolimit", "under", "over"}
      /\ cache' \subseteq Scripts /\ run' \in Runs /\ Good(cs[c], mix.inMulti[c])
      /\ UNCHANGED <<mix, holder, poolVars>> /\ cs[c].at = "idle" /\ Put(c, Fresh)
  BY DEF ConnInv, WorldOk, CloseConn, globals
<1> QED BY <1>1, ClosedGood, KeptOk

LEMMA ExecPauseOk ==
  ASSUME ConnInv, NEW c \in Conns, ExecPause(c)
  PROVE  ConnInv'
<1> DEFINE s == cs[c]
           L == mix.inMulti[c]
           t == [s EXCEPT !.at = "exec", !.pos = 1, !.tok = TRUE, !.inExec = TRUE]
           w == [clearTx(s) EXCEPT !.at = "idle"]
<1>1. /\ requirePass' \in BOOLEAN /\ mem' \in {"nolimit", "under", "over"}
      /\ cache' \subseteq Scripts /\ run' \in Runs /\ Good(s, L) /\ s \in ConnState
      /\ UNCHANGED <<mix, poolVars>> /\ s.at = "pause" /\ holder = NoConn
      /\ PlaceOk(s) /\ TxOk(s)
  BY DEF ConnInv, WorldOk, ExecPause, globals, Good
<1>2. (Put(c, w) /\ holder' = holder) \/ (holder' = c /\ Put(c, t))
  BY DEF ExecPause
<1> HIDE DEF s, L
<1>3. CASE Put(c, w) /\ holder' = holder
  <2> DEFINE u == clearTx(s)
  <2>1. /\ u \in ConnState /\ ~u.multi /\ u.queue = <<>> /\ ~u.qerr /\ u.pos = 0 /\ ~u.refused
        /\ u.vm = s.vm /\ u.tok = s.tok /\ s.vm = NoVm /\ ~s.tok /\ w = [u EXCEPT !.at = "idle"]
    BY <1>1, Cleared DEF PlaceOk, TxOk
  <2> HIDE DEF u, w
  <2>2. /\ w \in ConnState /\ ~w.multi /\ w.queue = <<>> /\ w.pos = 0 /\ ~w.refused
        /\ w.vm = s.vm /\ w.tok = s.tok /\ w.at = "idle"
    BY <2>1 DEF ConnState, Places
  <2>3. Kept(s, w, L)
    BY <2>1, <2>2, IdleGood DEF Kept
  <2> QED BY <1>1, <1>3, <2>3, KeptOk DEF s, L
<1>4. CASE holder' = c /\ Put(c, t)
  <2>1. /\ t \in ConnState /\ t.at = "exec" /\ t.pos = 1 /\ t.tok /\ t.inExec
        /\ t.queue = s.queue /\ t.vm = s.vm /\ t.refused = s.refused /\ t.qerr = s.qerr
    BY <1>1 DEF ConnState, Places
  <2>2. Len(s.queue) \in Nat
    BY <1>1 DEF ConnState
  <2> HIDE DEF t
  <2>3. PlaceOk(t)
    BY <1>1, <2>1, <2>2 DEF PlaceOk
  <2>4. TxOk(t)
    BY <1>1, <2>1 DEF TxOk
  <2>5. Good(t, L)
    BY <1>1, <2>1, <2>3, <2>4, Moved
  <2>6. WorldOk'
    <3>1. PoolOk'
      BY <1>1, PoolSame DEF ConnInv, WorldOk
    <3> QED BY <1>1, <1>4, <3>1 DEF ConnInv, WorldOk
  <2>7. LentStep(c, t)
    BY <1>1, <2>1 DEF LentStep, poolVars, s
  <2> QED BY <1>1, <1>4, <2>1, <2>5, <2>6, <2>7, StepOk DEF L
<1> QED BY <1>2, <1>3, <1>4

\* EXEC goes on to the next command of its queue.
LEMMA NextGood ==
  ASSUME NEW L, NEW s, Good(s, L), s.at = "exec", s.pos <= Len(s.queue)
  PROVE  Kept(s, [s EXCEPT !.pos = @ + 1], L)
<1> DEFINE n == s.pos + 1
           u == [s EXCEPT !.pos = n]
<1>1. s \in ConnState /\ PlaceOk(s) /\ TxOk(s) /\ s.pos \in Nat /\ s.pos > 0
  BY DEF Good, ConnState, PlaceOk
<1>2. n \in Nat /\ n >= 1 /\ n <= Len(s.queue) + 1 /\ Len(s.queue) \in Nat
  BY <1>1 DEF ConnState
<1> HIDE DEF n
<1>3. /\ u \in ConnState /\ u.at = "exec" /\ u.queue = s.queue /\ u.pos = n /\ u.line = s.line
      /\ u.vm = s.vm /\ u.tok = s.tok /\ u.refused = s.refused /\ u.qerr = s.qerr
      /\ u.inExec = s.inExec /\ u.proto = s.proto /\ u.subs = s.subs /\ u.multi = s.multi
  BY <1>1, <1>2 DEF ConnState, Places
<1> HIDE DEF u
<1>4. PlaceOk(u)
  BY <1>1, <1>2, <1>3 DEF PlaceOk
<1>5. TxOk(u)
  BY <1>1, <1>2, <1>3 DEF TxOk, Nests
<1> QED BY <1>3, <1>4, <1>5, Moved DEF Kept, u, n

LEMMA ExecStepOk ==
  ASSUME ConnInv, NEW c \in Conns, ExecStep(c)
  PROVE  ConnInv'
<1> DEFINE s == cs[c]
           L == mix.inMulti[c]
           m == s.queue[s.pos]
           next == [s EXCEPT !.pos = @ + 1]
<1>1. /\ Good(s, L) /\ s.at = "exec" /\ s.pos <= Len(s.queue) /\ UNCHANGED <<mix, holder>>
      /\ s.pos \in Nat /\ s.pos >= 1 /\ Len(s.queue) \in Nat
  BY DEF ConnInv, ExecStep, Good, ConnState, PlaceOk
<1>2. \/ IsEval(m) /\ Find(c, s, m, next)
      \/ FlushCache(c, s)
      \/ /\ Blocks(m) /\ ~s.inExec
         /\ Put(c, [s EXCEPT !.at = "parked"]) /\ UNCHANGED <<run, globals, poolVars>>
      \/ Handle(c, next, m)
  BY DEF ExecStep, Blocks
<1> HIDE DEF s, L, m, next
<1>3. Queued(m, L) /\ s.pos \in 1..Len(s.queue)
  BY <1>1 DEF Good, QueueOk, m
<1>4. Kept(s, next, L) /\ Starts(s)
  BY <1>1, NextGood DEF next, Starts
<1>5. CASE IsEval(m) /\ Find(c, s, m, next)
  <2>1. Nests(s)
    BY <1>3, <1>5 DEF Nests, m
  <2>2. m \in Lines /\ m.arg \in Scripts
    BY <1>3, <1>5 DEF Queued
  <2> QED BY <1>1, <1>4, <1>5, <2>1, <2>2, FindOk DEF s, L
<1>6. CASE FlushCache(c, s)
  BY <1>1, <1>4, <1>6, FlushOk DEF s
<1>7. CASE /\ Blocks(m) /\ ~s.inExec
           /\ Put(c, [s EXCEPT !.at = "parked"]) /\ UNCHANGED <<run, globals, poolVars>>
  <2>1. Kept(s, [s EXCEPT !.at = "parked"], L)
    BY <1>1, <1>7, ParkGood DEF m
  <2>2. /\ requirePass' \in BOOLEAN /\ mem' \in {"nolimit", "under", "over"}
        /\ cache' \subseteq Scripts /\ run' \in Runs /\ UNCHANGED poolVars
    BY <1>7 DEF ConnInv, WorldOk, globals
  <2> QED BY <1>1, <1>7, <2>1, <2>2, KeptOk DEF s, L
<1>8. CASE Handle(c, next, m)
  <2>1. next.at = "exec"
    BY <1>1 DEF next, Good, ConnState
  <2>2. Runnable(next, m) /\ m \in Lines
    BY <1>3, <2>1 DEF Queued, Runnable
  <2> QED BY <1>1, <1>4, <1>8, <2>2, HandleOk DEF s, L
<1> QED BY <1>2, <1>5, <1>6, <1>7, <1>8

LEMMA ExecEndOk ==
  ASSUME ConnInv, NEW c \in Conns, ExecEnd(c)
  PROVE  ConnInv'
<1> DEFINE s == cs[c]
           L == mix.inMulti[c]
           u == clearTx(s)
           t == [u EXCEPT !.at = "idle", !.tok = FALSE, !.inExec = FALSE]
<1>1. /\ Good(s, L) /\ s.at = "exec" /\ UNCHANGED <<mix, globals, run, poolVars>>
      /\ holder' = NoConn /\ Put(c, t) /\ s \in ConnState /\ PlaceOk(s) /\ TxOk(s)
      /\ (holder = c <=> s.tok)
  BY DEF ConnInv, ExecEnd, Good
<1> HIDE DEF s, L
<1>2. s.vm = NoVm /\ s.tok
  BY <1>1 DEF PlaceOk, TxOk, ConnState
<1>3. /\ u \in ConnState /\ ~u.multi /\ u.queue = <<>> /\ u.pos = 0 /\ ~u.refused /\ u.vm = s.vm
  BY <1>1, Cleared
<1> HIDE DEF u
<1>4. /\ t \in ConnState /\ ~t.multi /\ t.queue = <<>> /\ t.pos = 0 /\ ~t.refused /\ t.vm = NoVm
      /\ t.at = "idle" /\ ~t.tok
  BY <1>2, <1>3 DEF ConnState, Places
<1> HIDE DEF t
<1>5. Good(t, L)
  BY <1>4, IdleGood
<1>6. WorldOk'
  <2>1. PoolOk'
    BY <1>1, PoolSame DEF ConnInv, WorldOk
  <2> QED BY <1>1, <2>1 DEF ConnInv, WorldOk, globals
<1>7. LentStep(c, t)
  BY <1>1, <1>2, <1>4 DEF LentStep, poolVars, s
<1>8. holder = c /\ holder' # c
  BY <1>1, <1>2, ConnAssumption
<1> QED BY <1>1, <1>4, <1>5, <1>6, <1>7, <1>8, StepOk DEF L

LEMMA DrainConnOk ==
  ASSUME ConnInv, NEW c \in Conns, Drain(c)
  PROVE  ConnInv'
<1> DEFINE s == cs[c]
           L == mix.inMulti[c]
           t == Back(s)
<1>1. /\ Good(s, L) /\ s.at = "drain" /\ UNCHANGED <<mix, holder, globals, run>> /\ DrainPool
      /\ Put(c, t) /\ (holder = c <=> s.tok) /\ PoolOk
  BY DEF ConnInv, WorldOk, Drain
<1>2. Kept(s, t, L)
  BY <1>1, DoneGood
<1>3. PoolOk' /\ leased' = leased
  BY <1>1, DrainOk
<1>4. WorldOk'
  BY <1>1, <1>3 DEF ConnInv, WorldOk, globals
<1> HIDE DEF t
<1>5. LentStep(c, t)
  BY <1>2, <1>3 DEF LentStep, Kept
<1> QED BY <1>1, <1>2, <1>4, <1>5, StepOk DEF Kept

LEMMA LeaseOk ==
  ASSUME ConnInv, NEW c \in Conns, Lease(c)
  PROVE  ConnInv'
<1> DEFINE s == cs[c]
           L == mix.inMulti[c]
<1>1. /\ Good(s, L) /\ s \in ConnState /\ PlaceOk(s) /\ TxOk(s) /\ s.at = "lease" /\ PoolOk
      /\ UNCHANGED <<mix, holder, globals>> /\ (holder = c <=> s.tok)
  BY DEF ConnInv, WorldOk, Lease, Good
<1>2. PICK vm \in Vms :
        LET u == [s EXCEPT !.vm = vm, !.fatal = FALSE]
        IN /\ CheckoutVM(u.line.arg, vm)
           /\ IF u.tok THEN Enter(c, u)
                       ELSE Put(c, [u EXCEPT !.at = "evalpause"]) /\ UNCHANGED run
  BY DEF Lease
<1> DEFINE u == [s EXCEPT !.vm = vm, !.fatal = FALSE]
<1>3. /\ CheckoutVM(u.line.arg, vm)
      /\ IF u.tok THEN Enter(c, u)
                  ELSE Put(c, [u EXCEPT !.at = "evalpause"]) /\ UNCHANGED run
  BY <1>2
<1>4. PoolOk' /\ vm \notin leased /\ leased' = leased \cup {vm}
  BY <1>1, <1>3, CheckoutOk
<1> HIDE DEF s, L
<1>5. /\ u \in ConnState /\ u.vm = vm /\ u.at = s.at /\ u.queue = s.queue /\ u.pos = s.pos
      /\ u.line = s.line /\ u.tok = s.tok /\ u.refused = s.refused /\ u.qerr = s.qerr
      /\ u.inExec = s.inExec /\ u.proto = s.proto /\ u.subs = s.subs /\ u.multi = s.multi
  BY <1>1 DEF ConnState
<1> HIDE DEF u
<1>6. vm # NoVm /\ s.vm = NoVm /\ vm \in Vms /\ Len(s.queue) \in Nat /\ s.pos \in Nat
      /\ IsEval(s.line) /\ s.line.arg \in Scripts
  BY <1>1, PoolAssumption DEF PlaceOk, NoVm, Vms, ConnState
<1>7. CASE s.tok
  <2> DEFINE t == [u EXCEPT !.at = "script", !.tok = TRUE, !.inExec = TRUE]
  <2>1. Put(c, t) /\ run' = [NoRun EXCEPT !.conn = c]
    BY <1>3, <1>5, <1>7 DEF Enter
  <2>2. /\ t \in ConnState /\ t.vm = vm /\ t.at = "script" /\ t.queue = s.queue /\ t.pos = s.pos
        /\ t.line = s.line /\ t.tok /\ t.refused = s.refused /\ t.qerr = s.qerr
        /\ t.inExec /\ t.proto = s.proto /\ t.subs = s.subs /\ t.multi = s.multi
    BY <1>5 DEF ConnState, Places
  <2> HIDE DEF t
  <2>3. PlaceOk(t)
    BY <1>1, <1>6, <2>2 DEF PlaceOk, Nests
  <2>4. TxOk(t)
    BY <1>1, <1>6, <2>2 DEF TxOk, Nests
  <2>5. Good(t, L)
    BY <1>1, <2>2, <2>3, <2>4, Moved
  <2>6. run' \in Runs
    BY <2>1 DEF NoRun, Runs
  <2>7. WorldOk'
    BY <1>1, <1>4, <2>6 DEF ConnInv, WorldOk, globals
  <2>8. LentStep(c, t)
    BY <1>4, <1>6, <2>2 DEF LentStep, s
  <2> QED BY <1>1, <1>7, <2>1, <2>2, <2>5, <2>7, <2>8, StepOk DEF L
<1>8. CASE ~s.tok
  <2> DEFINE t == [u EXCEPT !.at = "evalpause"]
  <2>1. Put(c, t) /\ UNCHANGED run
    BY <1>3, <1>5, <1>8
  <2>2. /\ t \in ConnState /\ t.vm = vm /\ t.at = "evalpause" /\ t.queue = s.queue
        /\ t.pos = s.pos /\ t.line = s.line /\ t.tok = s.tok /\ t.refused = s.refused
        /\ t.qerr = s.qerr /\ t.inExec = s.inExec /\ t.proto = s.proto /\ t.subs = s.subs
        /\ t.multi = s.multi
    BY <1>5 DEF ConnState, Places
  <2> HIDE DEF t
  <2>3. s.pos = 0
    BY <1>1, <1>6, <1>8 DEF TxOk
  <2>4. PlaceOk(t)
    BY <1>1, <1>6, <2>2, <2>3 DEF PlaceOk, Nests
  <2>5. TxOk(t)
    BY <1>1, <1>6, <2>2, <2>3 DEF TxOk, Nests
  <2>6. Good(t, L)
    BY <1>1, <2>2, <2>4, <2>5, Moved
  <2>7. WorldOk'
    BY <1>1, <1>4, <2>1 DEF ConnInv, WorldOk, globals
  <2>8. LentStep(c, t)
    BY <1>4, <1>6, <2>2 DEF LentStep, s
  <2> QED BY <1>1, <1>8, <2>1, <2>2, <2>6, <2>7, <2>8, StepOk DEF L
<1> QED BY <1>7, <1>8

LEMMA EvalPauseOk ==
  ASSUME ConnInv, NEW c \in Conns, EvalPause(c)
  PROVE  ConnInv'
<1> DEFINE s == cs[c]
           L == mix.inMulti[c]
           t == [s EXCEPT !.at = "script", !.tok = TRUE, !.inExec = TRUE]
<1>1. /\ Good(s, L) /\ s \in ConnState /\ PlaceOk(s) /\ TxOk(s) /\ s.at = "evalpause"
      /\ UNCHANGED <<mix, globals, poolVars>> /\ holder = NoConn /\ holder' = c
      /\ Put(c, t) /\ run' = [NoRun EXCEPT !.conn = c]
  BY DEF ConnInv, EvalPause, Enter, Good
<1> HIDE DEF s, L
<1>2. /\ t \in ConnState /\ t.vm = s.vm /\ t.at = "script" /\ t.queue = s.queue /\ t.pos = s.pos
      /\ t.line = s.line /\ t.tok /\ t.refused = s.refused /\ t.qerr = s.qerr
      /\ t.inExec /\ t.proto = s.proto /\ t.subs = s.subs /\ t.multi = s.multi
  BY <1>1 DEF ConnState, Places
<1> HIDE DEF t
<1>3. Len(s.queue) \in Nat /\ s.pos = 0
  BY <1>1 DEF ConnState, PlaceOk
<1>4. PlaceOk(t)
  BY <1>1, <1>2, <1>3 DEF PlaceOk
<1>5. TxOk(t)
  BY <1>1, <1>2, <1>3 DEF TxOk
<1>6. Good(t, L)
  BY <1>1, <1>2, <1>4, <1>5, Moved
<1>7. WorldOk'
  <2>1. PoolOk' /\ run' \in Runs
    BY <1>1, PoolSame DEF ConnInv, WorldOk, NoRun, Runs
  <2> QED BY <1>1, <2>1 DEF ConnInv, WorldOk, globals
<1>8. LentStep(c, t)
  BY <1>1, <1>2 DEF LentStep, poolVars, s
<1> QED BY <1>1, <1>2, <1>6, <1>7, <1>8, StepOk DEF L

\* A script keeps its place while it runs: only the line it is at changes.
LEMMA ScriptGood ==
  ASSUME NEW L, NEW s, Good(s, L), s.at = "script", NEW m \in Lines,
         m.arg = s.line.arg, IsEval(m) \/ m.name = "set"
  PROVE  Kept(s, [s EXCEPT !.line = m], L)
<1> DEFINE t == [s EXCEPT !.line = m]
<1>1. s \in ConnState /\ PlaceOk(s) /\ TxOk(s)
  BY DEF Good
<1>2. /\ t \in ConnState /\ t.vm = s.vm /\ t.at = "script" /\ t.queue = s.queue /\ t.pos = s.pos
      /\ t.line = m /\ t.tok = s.tok /\ t.refused = s.refused /\ t.qerr = s.qerr
      /\ t.inExec = s.inExec /\ t.proto = s.proto /\ t.subs = s.subs /\ t.multi = s.multi
  BY <1>1 DEF ConnState
<1> HIDE DEF t
<1>3. PlaceOk(t)
  BY <1>1, <1>2 DEF PlaceOk, Nests
<1>4. TxOk(t)
  BY <1>1, <1>2 DEF TxOk, Nests
<1> QED BY <1>2, <1>3, <1>4, Moved DEF Kept, t

LEMMA CallOk ==
  ASSUME ConnInv, NEW c \in Conns, Call(c)
  PROVE  ConnInv'
<1> DEFINE s == cs[c]
           m == [name |-> "set", ok |-> TRUE, arg |-> s.line.arg]
<1>1. /\ Good(s, mix.inMulti[c]) /\ s.at = "script" /\ UNCHANGED <<mix, holder, globals, run, poolVars>>
      /\ s.line \in Lines
  BY DEF ConnInv, Call, Good, ConnState
<1>2. Put(c, [s EXCEPT !.line = m])
  BY DEF Call
<1> HIDE DEF s
<1>3. m \in Lines
  BY <1>1 DEF Lines, Names, table
<1>4. m.arg = s.line.arg /\ m.name = "set"
  OBVIOUS
<1> HIDE DEF m
<1>5. Kept(s, [s EXCEPT !.line = m], mix.inMulti[c])
  BY <1>1, <1>3, <1>4, ScriptGood
<1>6. /\ requirePass' \in BOOLEAN /\ mem' \in {"nolimit", "under", "over"}
      /\ cache' \subseteq Scripts /\ run' \in Runs
  BY <1>1 DEF ConnInv, WorldOk, globals
<1> QED BY <1>1, <1>2, <1>5, <1>6, KeptOk DEF s

LEMMA NoteWroteOk ==
  ASSUME ConnInv, NEW c \in Conns, NoteWrote(c)
  PROVE  ConnInv'
<1> DEFINE s == cs[c]
           m == [s.line EXCEPT !.name = "eval"]
<1>1. /\ Good(s, mix.inMulti[c]) /\ s.at = "script" /\ UNCHANGED <<mix, holder, globals, poolVars>>
      /\ s.line \in Lines /\ s \in ConnState
  BY DEF ConnInv, NoteWrote, Good, ConnState
<1>2. Put(c, [s EXCEPT !.line = m])
  BY <1>1 DEF NoteWrote, ConnState
<1> HIDE DEF s
<1>3. m \in Lines /\ m.arg = s.line.arg /\ m.name = "eval"
  BY <1>1 DEF Lines, Names, table
<1> HIDE DEF m
<1>5. Kept(s, [s EXCEPT !.line = m], mix.inMulti[c])
  BY <1>1, <1>3, ScriptGood DEF IsEval
<1>6. /\ requirePass' \in BOOLEAN /\ mem' \in {"nolimit", "under", "over"}
      /\ cache' \subseteq Scripts /\ run' \in Runs
  BY <1>1 DEF ConnInv, WorldOk, globals, NoteWrote, Runs
<1> QED BY <1>1, <1>2, <1>5, <1>6, KeptOk DEF s

\* Steps that no connection's own state takes part in.
LEMMA OthersOk ==
  ASSUME ConnInv, UNCHANGED <<mix, cs, holder, poolVars>>,
         requirePass' \in BOOLEAN, mem' \in {"nolimit", "under", "over"},
         cache' \subseteq Scripts, run' \in Runs
  PROVE  ConnInv'
<1>1. PoolOk'
  BY PoolSame DEF ConnInv, WorldOk
<1>2. WorldOk'
  BY <1>1 DEF ConnInv, WorldOk
<1>3. Lent'
  BY DEF ConnInv, Lent, poolVars
<1> QED BY <1>2, <1>3 DEF ConnInv

LEMMA TimeLimitOk ==
  ASSUME ConnInv, NEW c \in Conns, PassTimeLimit(c)
  PROVE  ConnInv'
<1>1. /\ requirePass' \in BOOLEAN /\ mem' \in {"nolimit", "under", "over"}
      /\ cache' \subseteq Scripts /\ run' \in Runs
  BY DEF ConnInv, WorldOk, globals, PassTimeLimit, Runs
<1> QED BY <1>1, OthersOk DEF PassTimeLimit

LEMMA UsageOk ==
  ASSUME ConnInv, Usage
  PROVE  ConnInv'
<1>1. /\ requirePass' \in BOOLEAN /\ mem' \in {"nolimit", "under", "over"}
      /\ cache' \subseteq Scripts /\ run' \in Runs
  BY DEF ConnInv, WorldOk, Usage
<1> QED BY <1>1, OthersOk DEF Usage

LEMMA EndScriptOk ==
  ASSUME ConnInv, NEW c \in Conns, EndScript(c)
  PROVE  ConnInv'
<1> DEFINE s == cs[c]
           L == mix.inMulti[c]
           k == s.tok /\ ~ (s.pos = 0)
<1>1. /\ Good(s, L) /\ s \in ConnState /\ PlaceOk(s) /\ TxOk(s) /\ s.at = "script"
      /\ IsEval(s.line) /\ UNCHANGED <<mix, globals, poolVars>> /\ run' = NoRun
      /\ holder' = (IF s.pos = 0 THEN NoConn ELSE holder) /\ (holder = c <=> s.tok)
  BY DEF ConnInv, EndScript, Good
<1>2. PICK fatal \in BOOLEAN :
        Put(c, [s EXCEPT !.at = "release", !.inExec = FALSE, !.tok = k, !.fatal = fatal])
  BY DEF EndScript
<1> HIDE DEF s, L, k
<1>3. s.tok /\ k \in BOOLEAN /\ (k <=> s.pos > 0) /\ s.pos \in Nat /\ Len(s.queue) \in Nat
  BY <1>1 DEF TxOk, k, ConnState
<1> DEFINE t == [s EXCEPT !.at = "release", !.inExec = FALSE, !.tok = k, !.fatal = fatal]
<1>4. /\ t \in ConnState /\ t.vm = s.vm /\ t.at = "release" /\ t.queue = s.queue /\ t.pos = s.pos
      /\ t.line = s.line /\ t.tok = k /\ t.refused = s.refused /\ t.qerr = s.qerr
      /\ t.proto = s.proto /\ t.subs = s.subs /\ t.multi = s.multi
  <2>1. s \in ConnState /\ k \in BOOLEAN /\ "release" \in Places
    BY <1>1, <1>3 DEF Places
  <2>2. /\ t.vm = s.vm /\ t.at = "release" /\ t.queue = s.queue /\ t.pos = s.pos
        /\ t.line = s.line /\ t.tok = k /\ t.refused = s.refused /\ t.qerr = s.qerr
        /\ t.proto = s.proto /\ t.subs = s.subs /\ t.multi = s.multi
    BY <2>1 DEF ConnState
  <2>3. t \in ConnState
    BY <2>1 DEF ConnState
  <2> QED BY <2>2, <2>3
<1> HIDE DEF t
<1>5. PlaceOk(t)
  BY <1>1, <1>3, <1>4 DEF PlaceOk
<1>6. TxOk(t)
  <2>1. s.pos > 0 => Nests(t)
    BY <1>1, <1>4 DEF PlaceOk, Nests
  <2> QED BY <1>1, <1>3, <1>4, <2>1 DEF TxOk
<1>7. Good(t, L)
  BY <1>1, <1>4, <1>5, <1>6, Moved
<1>8. WorldOk'
  <2>1. PoolOk' /\ run' \in Runs
    BY <1>1, PoolSame DEF ConnInv, WorldOk, NoRun, Runs
  <2> QED BY <1>1, <2>1 DEF ConnInv, WorldOk, globals
<1>9. LentStep(c, t)
  BY <1>1, <1>4 DEF LentStep, poolVars, s
<1>10. (holder' = c <=> t.tok) /\ (holder' = holder \/ {holder, holder'} \subseteq {NoConn, c})
  BY <1>1, <1>3, <1>4, ConnAssumption
<1> QED BY <1>1, <1>2, <1>7, <1>8, <1>9, <1>10, StepOk DEF t, L

LEMMA ReleaseConnOk ==
  ASSUME ConnInv, NEW c \in Conns, Release(c)
  PROVE  ConnInv'
<1> DEFINE s == cs[c]
           L == mix.inMulti[c]
           u == [s EXCEPT !.vm = NoVm, !.fatal = FALSE]
           t == Back(u)
<1>1. /\ Good(s, L) /\ s \in ConnState /\ QueueOk(s, L) /\ PlaceOk(s) /\ TxOk(s)
      /\ s.at = "release" /\ UNCHANGED <<mix, holder, globals, run>> /\ Put(c, t)
      /\ (holder = c <=> s.tok) /\ PoolOk
  BY DEF ConnInv, WorldOk, Release, Good
<1>2. PICK heavy \in BOOLEAN : ReleaseVM(s.vm, s.line.arg, s.fatal, heavy)
  BY DEF Release
<1>3. PoolOk' /\ leased' = leased \ {s.vm}
  <2>1. s.line.arg \in Scripts
    BY <1>1 DEF PlaceOk
  <2> QED BY <1>1, <1>2, <2>1, ReleaseOk
<1> HIDE DEF s, L, t
<1>4. /\ u \in ConnState /\ u.vm = NoVm /\ u.at = "release" /\ u.queue = s.queue /\ u.pos = s.pos
      /\ u.tok = s.tok /\ u.refused = s.refused /\ u.qerr = s.qerr
      /\ u.inExec = s.inExec /\ u.proto = s.proto /\ u.subs = s.subs /\ u.multi = s.multi
  BY <1>1 DEF ConnState
<1> HIDE DEF u
<1>5. QueueOk(u, L) /\ TxOk(u) /\ u.pos <= Len(u.queue)
  BY <1>1, <1>4 DEF QueueOk, TxOk, Nests, PlaceOk
<1>6. Kept(u, t, L)
  BY <1>4, <1>5, BackGood DEF t
<1>7. WorldOk'
  BY <1>1, <1>3 DEF ConnInv, WorldOk, globals
<1>8. LentStep(c, t)
  BY <1>3, <1>4, <1>6 DEF LentStep, Kept, s
<1> QED BY <1>1, <1>4, <1>6, <1>7, <1>8, StepOk DEF Kept, L

-----------------------------------------------------------------------------
(* The theorems.                                                           *)

\* ConnInv is inductive: no step of a connection, a script or the pool breaks
\* it, whatever the clients send (Engine.Execute and all it dispatches to).
THEOREM ConnInvariant == Spec => []ConnInv
<1>1. Init => ConnInv
  BY ConnStarts
<1>2. ConnInv /\ [Next]_vars => ConnInv'
  <2> SUFFICES ASSUME ConnInv, [Next]_vars PROVE ConnInv'
    OBVIOUS
  <2>1. CASE UNCHANGED vars
    BY <2>1, OthersOk DEF vars, ConnInv, WorldOk
  <2>2. CASE Usage
    BY <2>2, UsageOk
  <2>3. ASSUME NEW c \in Conns,
               \/ Execute(c) \/ Wake(c) \/ CloseConn(c) \/ Serve(c) \/ Call(c) \/ PassTimeLimit(c)
        PROVE  ConnInv'
    <3>1. CASE Execute(c)
      BY <3>1, ExecuteOk
    <3>2. CASE Wake(c)
      BY <3>2, WakeOk
    <3>3. CASE CloseConn(c)
      BY <3>3, CloseOk
    <3>4. CASE Call(c)
      BY <3>4, CallOk
    <3>5. CASE PassTimeLimit(c)
      BY <3>5, TimeLimitOk
    <3>6. CASE Do(c)
      BY <3>6, DoOk
    <3>7. CASE ExecPause(c)
      BY <3>7, ExecPauseOk
    <3>8. CASE ExecStep(c)
      BY <3>8, ExecStepOk
    <3>9. CASE ExecEnd(c)
      BY <3>9, ExecEndOk
    <3>10. CASE Drain(c)
      BY <3>10, DrainConnOk
    <3>11. CASE Lease(c)
      BY <3>11, LeaseOk
    <3>12. CASE EvalPause(c)
      BY <3>12, EvalPauseOk
    <3>13. CASE NoteWrote(c)
      BY <3>13, NoteWroteOk
    <3>14. CASE EndScript(c)
      BY <3>14, EndScriptOk
    <3>15. CASE Release(c)
      BY <3>15, ReleaseConnOk
    <3> QED BY <2>3, <3>1, <3>2, <3>3, <3>4, <3>5, <3>6, <3>7, <3>8, <3>9, <3>10, <3>11, <3>12,
               <3>13, <3>14, <3>15 DEF Serve
  <2> QED BY <2>1, <2>2, <2>3 DEF Next
<1> QED BY <1>1, <1>2, PTL DEF Spec

LEMMA ConnTyped == ConnInv => TypeOK
<1> SUFFICES ASSUME ConnInv PROVE TypeOK
  OBVIOUS
<1>1. WorldOk /\ PoolTypeOK
  BY DEF ConnInv, WorldOk, PoolOk
<1>2. ASSUME NEW c \in Conns
      PROVE  /\ cs[c].proto \in {2, 3} /\ cs[c].at \in Places
             /\ cs[c].queue \in Seq(Lines) /\ Len(cs[c].queue) <= MaxQueue
             /\ cs[c].line \in Lines /\ cs[c].pos \in 0..(MaxQueue + 1)
             /\ cs[c].vm \in {NoVm} \cup Vms
             /\ {cs[c].authed, cs[c].multi, cs[c].qerr, cs[c].watch, cs[c].subs,
                 cs[c].tok, cs[c].inExec, cs[c].fatal, cs[c].refused} \subseteq BOOLEAN
  <2> DEFINE s == cs[c]
  <2>1. s \in ConnState /\ QueueOk(s, mix.inMulti[c]) /\ PlaceOk(s)
    BY DEF ConnInv, Good
  <2> HIDE DEF s
  <2>2. Len(s.queue) <= MaxQueue /\ s.pos <= Len(s.queue) + 1 /\ s.pos \in Nat /\ Len(s.queue) \in Nat
    BY <2>1 DEF QueueOk, PlaceOk, ConnState
  <2>3. s.pos \in 0..(MaxQueue + 1)
    BY <2>2, ConnAssumption
  <2>4. /\ s.proto \in {2, 3} /\ s.at \in Places /\ s.queue \in Seq(Lines)
        /\ s.line \in Lines /\ s.vm \in {NoVm} \cup Vms
        /\ {s.authed, s.multi, s.qerr, s.watch, s.subs, s.tok, s.inExec, s.fatal,
            s.refused} \subseteq BOOLEAN
    BY <2>1 DEF ConnState
  <2> QED BY <2>2, <2>3, <2>4 DEF s
<1>3. run \in [conn: Conns \cup {NoConn}, slow: BOOLEAN, wrote: BOOLEAN, killed: BOOLEAN]
  BY <1>1 DEF WorldOk, Runs
<1> QED BY <1>1, <1>2, <1>3 DEF TypeOK, WorldOk

\* A transaction with a refused command never runs, and no connection in
\* subscribe mode is inside MULTI (the gates of Execute, cmdExec, cmdMulti).
THEOREM TransactionsAreSound == Spec => []TxSound
<1>1. ConnInv => TxSound
  <2> SUFFICES ASSUME ConnInv PROVE TxSound
    OBVIOUS
  <2>1. ASSUME NEW c \in Conns
        PROVE  /\ cs[c].pos > 0 => ~cs[c].refused
               /\ cs[c].at = "idle" /\ cs[c].proto = 2 /\ cs[c].subs => ~cs[c].multi
    BY DEF ConnInv, Good, PlaceOk, TxOk
  <2> QED BY <2>1, ConnTyped DEF TxSound, RefusedAborts, NoTxInSubscribeMode
<1> QED BY <1>1, ConnInvariant, PTL

\* VMs are never shared, and the idle ones stay within the pool's limits, their
\* runs and the last SCRIPT FLUSH (CheckoutVM, ReleaseVM, DrainPool).
THEOREM PoolIsSound == Spec => []PoolSound
<1>1. ConnInv => PoolSound
  <2> SUFFICES ASSUME ConnInv PROVE PoolSound
    OBVIOUS
  <2>1. PoolOk /\ Lent
    BY DEF ConnInv, WorldOk
  <2>2. leased = {cs[c].vm : c \in Conns} \ {NoVm}
    <3>1. leased \subseteq Vms /\ NoVm \notin Vms
      BY <2>1, PoolAssumption DEF PoolOk, PoolTypeOK, NoVm, Vms
    <3>2. \A c \in Conns : cs[c].vm \in {NoVm} \cup Vms
      BY DEF ConnInv, ConnState
    <3> QED BY <2>1, <3>1, <3>2 DEF Lent
  <2>3. VmExclusive
    BY <2>1, <2>2 DEF VmExclusive, Lent, PoolOk
  <2> QED BY <2>1, <2>3 DEF PoolSound, PoolOk
<1> QED BY <1>1, ConnInvariant, PTL

LEMMA Owned == ConnInv => PauseOwned
<1> SUFFICES ASSUME ConnInv, NEW c \in Conns
             PROVE  /\ holder = c <=> cs[c].pos > 0 \/ cs[c].at = "script"
                    /\ cs[c].tok <=> holder = c
  BY DEF PauseOwned
<1> QED BY DEF ConnInv, Good, TxOk

\* The engine is paused by a connection exactly while its EXEC runs the queue or
\* its script runs (cmdExec, RunOnVM, the token of the shard tasks).
THEOREM PauseIsOwned == Spec => []PauseOwned
BY ConnInvariant, Owned, PTL

\* No client queues both a script and a blocking command in one transaction.
Unmixed ==
  \A c \in Conns : \A m, n \in mix.inMulti[c] : IsEval(m) /\ n.name \in DOMAIN table => ~Blocks(n)

\* Nobody waits for a push under its own pause, unless a client queues a script
\* and a blocking command together: the script's end clears inExec (RunOnVM), and
\* the next blocking command of that EXEC parks.
THEOREM PauseIsHeld == Spec => [](Unmixed => PauseHeld)
<1>1. ConnInv => (Unmixed => PauseHeld)
  <2> SUFFICES ASSUME ConnInv, Unmixed PROVE PauseHeld
    OBVIOUS
  <2>1. ASSUME NEW c \in Conns, cs[c].at = "parked", holder = c PROVE FALSE
    <3> DEFINE s == cs[c]
               L == mix.inMulti[c]
    <3>1. Good(s, L) /\ s.tok
      BY <2>1 DEF ConnInv
    <3> HIDE DEF s, L
    <3>2. s.pos > 0 /\ s.pos <= Len(s.queue) /\ s.pos \in Nat
      BY <2>1, <3>1 DEF Good, TxOk, PlaceOk, ConnState, s
    <3>3. Nests(s) /\ Blocks(s.queue[s.pos])
      BY <2>1, <3>1, <3>2 DEF Good, PlaceOk, s
    <3>4. PICK i \in 1..Len(s.queue) : IsEval(s.queue[i])
      BY <3>3 DEF Nests
    <3>5. s.queue[i] \in L /\ s.queue[s.pos] \in L /\ s.queue[s.pos].name \in DOMAIN table
      BY <3>1, <3>2, <3>4 DEF Good, QueueOk, Queued, ConnState
    <3> QED BY <3>3, <3>4, <3>5 DEF Unmixed, L
  <2> QED BY <2>1, Owned DEF PauseHeld, NoParkUnderPause
<1> QED BY <1>1, ConnInvariant, PTL
===============================================================================
