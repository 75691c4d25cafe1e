--------------------------- MODULE KeyspaceProofs ---------------------------
(* Proofs about Keyspace: its type invariant, that WATCH and EXEC miss no   *)
(* change outside the FLUSHDB window, and that the memory estimate and the  *)
(* expiry heap agree with the table, for any number of connections, shards, *)
(* databases and keys.                                                      *)
EXTENDS Keyspace, FiniteSetTheorems, WellFoundedInduction, TLAPS

(* The operations keep the state of the shards in its type.                 *)

\* tombstone returns a shard state with only tomb and epoch changed.
LEMMA TombstoneType ==
  ASSUME NEW st \in KS, NEW k \in Slots, NEW n \in Nat
  PROVE  /\ tombstone(st, k, n) \in KS
         /\ tombstone(st, k, n).tab = st.tab
         /\ tombstone(st, k, n).heap = st.heap
         /\ tombstone(st, k, n).used = st.used
<1>1. ShardOf[k] \in Shards
  BY ConstAssumption
<1>2. CASE TombFull(st, ShardOf[k])
  <2> DEFINE s  == ShardOf[k]
             tb == [j \in Slots |-> IF j = k THEN n + 1
                                    ELSE IF ShardOf[j] = s THEN 0 ELSE st.tomb[j]]
             ep == [st.epoch EXCEPT ![s] = [d \in DBs |-> st.epoch[s][d] + 1]]
  <2>1. tb \in [Slots -> Nat]
    BY DEF KS
  <2>2. ep \in [Shards -> [DBs -> Nat]]
    BY <1>1 DEF KS
  <2>3. tombstone(st, k, n) = [st EXCEPT !.tomb = tb, !.epoch = ep]
    BY <1>2 DEF tombstone, KS
  <2> HIDE DEF tb, ep
  <2> QED BY <2>1, <2>2, <2>3 DEF KS
<1>3. CASE ~ TombFull(st, ShardOf[k])
  BY <1>3 DEF tombstone, KS
<1> QED BY <1>2, <1>3

\* From st to st2, the memory estimate of k's shard and database grows by n, and no other changes.
Charged(st, st2, k, n) ==
  \A s \in Shards, d \in DBs :
    st2.used[s][d] = st.used[s][d] + (IF s = ShardOf[k] /\ d = DBOf[k] THEN n ELSE 0)

\* What the entry of slot k, if any, counts for.
MemOf(st, k) == IF Live(st, k) THEN st.tab[k].mem ELSE 0

\* addMem changes the memory estimate and nothing else.
LEMMA AddMemType ==
  ASSUME NEW st \in KS, NEW k \in Slots, NEW n \in Int
  PROVE  /\ addMem(st, k, n) \in KS
         /\ addMem(st, k, n).tab = st.tab
         /\ addMem(st, k, n).tomb = st.tomb
         /\ addMem(st, k, n).epoch = st.epoch
         /\ addMem(st, k, n).heap = st.heap
         /\ Charged(st, addMem(st, k, n), k, n)
<1>1. ShardOf[k] \in Shards /\ DBOf[k] \in DBs
  BY ConstAssumption
<1>2. st.used[ShardOf[k]][DBOf[k]] + n \in Int
  BY <1>1 DEF KS
<1> DEFINE us == [st.used EXCEPT ![ShardOf[k]] = [st.used[ShardOf[k]] EXCEPT
                                    ![DBOf[k]] = st.used[ShardOf[k]][DBOf[k]] + n]]
<1>3. addMem(st, k, n) = [st EXCEPT !.used = us]
  BY DEF addMem
<1>4. us \in [Shards -> [DBs -> Int]]
  BY <1>1, <1>2 DEF KS
<1>5. ASSUME NEW s \in Shards, NEW d \in DBs
      PROVE  us[s][d] = st.used[s][d] + (IF s = ShardOf[k] /\ d = DBOf[k] THEN n ELSE 0)
  <2>1. st.used[s][d] \in Int
    BY DEF KS
  <2> QED BY <1>1, <2>1 DEF KS
<1> HIDE DEF us
<1>6. addMem(st, k, n).used = us /\ addMem(st, k, n) \in KS
  BY <1>3, <1>4 DEF KS
<1> QED BY <1>3, <1>5, <1>6 DEF Charged, KS

\* Removing a live entry stays in the type and leaves the slot absent.
LEMMA RemoveType ==
  ASSUME NEW st \in KS, NEW k \in Slots, Live(st, k)
  PROVE  /\ Remove(st, k) \in KS
         /\ Remove(st, k).tab = [st.tab EXCEPT ![k] = Absent]
         /\ Remove(st, k).tomb = tombstone(st, k, st.tab[k].ver).tomb
         /\ Remove(st, k).epoch = tombstone(st, k, st.tab[k].ver).epoch
         /\ Remove(st, k).heap = st.heap
         /\ Charged(st, Remove(st, k), k, -st.tab[k].mem)
<1>1. st.tab[k] \in Entry
  BY DEF Live, KS
<1>2. st.tab[k].ver \in Nat /\ -st.tab[k].mem \in Int
  BY <1>1 DEF Entry
<1> DEFINE s1 == tombstone(st, k, st.tab[k].ver)
           s2 == addMem(s1, k, -st.tab[k].mem)
<1>3. s1 \in KS /\ s1.tab = st.tab /\ s1.heap = st.heap /\ s1.used = st.used
  BY <1>2, TombstoneType
<1>4. s2 \in KS /\ s2.tab = st.tab /\ s2.tomb = s1.tomb /\ s2.epoch = s1.epoch
        /\ s2.heap = st.heap /\ Charged(s1, s2, k, -st.tab[k].mem)
  BY <1>2, <1>3, AddMemType
<1>5. Remove(st, k) = [s2 EXCEPT !.tab[k] = Absent]
  BY DEF Remove
<1> HIDE DEF s1, s2
<1>6. [s2 EXCEPT !.tab[k] = Absent] \in KS
  BY <1>4 DEF KS
<1>7. [s2 EXCEPT !.tab[k] = Absent].used = s2.used
  BY <1>4 DEF KS
<1>8. Charged(st, Remove(st, k), k, -st.tab[k].mem)
  BY <1>3, <1>4, <1>5, <1>7 DEF Charged
<1>9. QED BY <1>4, <1>5, <1>6, <1>8 DEF KS, s1

-----------------------------------------------------------------------------
(* Versions only grow while a shard's epoch stands still.                   *)

\* From st to st2 no watched slot can go unnoticed: its epoch rises, or its
\* version does whenever its content changes, and it never falls.
Adv(st, st2) ==
  \A j \in Slots :
    /\ EpochOf(st, j) <= EpochOf(st2, j)
    /\ EpochOf(st, j) = EpochOf(st2, j) =>
         /\ Cur(st, j) <= Cur(st2, j)
         /\ Content(st, j) # Content(st2, j) => Cur(st, j) < Cur(st2, j)

\* Epochs and current versions are natural numbers.
LEMMA CurNat ==
  ASSUME NEW st \in KS, NEW k \in Slots
  PROVE  Cur(st, k) \in Nat /\ EpochOf(st, k) \in Nat
<1>1. ShardOf[k] \in Shards /\ DBOf[k] \in DBs
  BY ConstAssumption
<1>2. EpochOf(st, k) \in Nat
  BY <1>1 DEF EpochOf, KS
<1>3. Cur(st, k) \in Nat
  BY DEF Cur, Live, KS, Entry
<1> QED BY <1>2, <1>3

\* Adv is reflexive and transitive.
LEMMA AdvRefl ==
  ASSUME NEW st \in KS PROVE Adv(st, st)
BY CurNat DEF Adv

\* Two advances make one.
LEMMA AdvTrans ==
  ASSUME NEW s1 \in KS, NEW s2 \in KS, NEW s3 \in KS, Adv(s1, s2), Adv(s2, s3)
  PROVE  Adv(s1, s3)
<1> SUFFICES ASSUME NEW j \in Slots
             PROVE  /\ EpochOf(s1, j) <= EpochOf(s3, j)
                    /\ EpochOf(s1, j) = EpochOf(s3, j) =>
                         /\ Cur(s1, j) <= Cur(s3, j)
                         /\ Content(s1, j) # Content(s3, j) => Cur(s1, j) < Cur(s3, j)
  BY DEF Adv
<1>1. /\ Cur(s1, j) \in Nat /\ EpochOf(s1, j) \in Nat
      /\ Cur(s2, j) \in Nat /\ EpochOf(s2, j) \in Nat
      /\ Cur(s3, j) \in Nat /\ EpochOf(s3, j) \in Nat
  BY CurNat
<1>2. /\ EpochOf(s1, j) <= EpochOf(s2, j)
      /\ EpochOf(s1, j) = EpochOf(s2, j) =>
           /\ Cur(s1, j) <= Cur(s2, j)
           /\ Content(s1, j) # Content(s2, j) => Cur(s1, j) < Cur(s2, j)
  BY DEF Adv
<1>3. /\ EpochOf(s2, j) <= EpochOf(s3, j)
      /\ EpochOf(s2, j) = EpochOf(s3, j) =>
           /\ Cur(s2, j) <= Cur(s3, j)
           /\ Content(s2, j) # Content(s3, j) => Cur(s2, j) < Cur(s3, j)
  BY DEF Adv
<1> QED BY <1>1, <1>2, <1>3

\* What tombstone does to the slot itself, to a slot whose shard overflowed,
\* and to every other slot.
LEMMA TombstoneEffect ==
  ASSUME NEW st \in KS, NEW k \in Slots, NEW n \in Nat, NEW j \in Slots
  PROVE  LET t == tombstone(st, k, n) IN
         /\ t.tomb[k] = n + 1
         /\ EpochOf(st, j) <= EpochOf(t, j)
         /\ EpochOf(st, j) = EpochOf(t, j) /\ j # k => t.tomb[j] = st.tomb[j]
<1>1. ShardOf[k] \in Shards /\ ShardOf[j] \in Shards /\ DBOf[j] \in DBs
  BY ConstAssumption
<1>2. EpochOf(st, j) \in Nat
  BY CurNat
<1>3. CASE TombFull(st, ShardOf[k])
  <2> DEFINE s  == ShardOf[k]
             tb == [i \in Slots |-> IF i = k THEN n + 1
                                    ELSE IF ShardOf[i] = s THEN 0 ELSE st.tomb[i]]
             ep == [st.epoch EXCEPT ![s] = [d \in DBs |-> st.epoch[s][d] + 1]]
  <2>1. tombstone(st, k, n) = [st EXCEPT !.tomb = tb, !.epoch = ep]
    BY <1>3 DEF tombstone, KS
  <2>2. tombstone(st, k, n).tomb = tb /\ tombstone(st, k, n).epoch = ep
    BY <2>1 DEF KS
  <2>3. tb[k] = n + 1
    OBVIOUS
  <2>4. CASE ShardOf[j] = s
    <3>1. ep[ShardOf[j]][DBOf[j]] = st.epoch[ShardOf[j]][DBOf[j]] + 1
      BY <1>1, <2>4 DEF KS
    <3> QED BY <2>2, <2>3, <3>1, <1>2 DEF EpochOf
  <2>5. CASE ShardOf[j] # s
    <3>1. ep[ShardOf[j]][DBOf[j]] = st.epoch[ShardOf[j]][DBOf[j]]
      BY <1>1, <2>5 DEF KS
    <3>2. tb[j] = st.tomb[j] \/ j = k
      BY <2>5
    <3> QED BY <2>2, <2>3, <3>1, <3>2, <1>2 DEF EpochOf
  <2> QED BY <2>4, <2>5
<1>4. CASE ~ TombFull(st, ShardOf[k])
  <2>1. tombstone(st, k, n) = [st EXCEPT !.tomb[k] = n + 1]
    BY <1>4 DEF tombstone
  <2> QED BY <2>1, <1>2 DEF EpochOf, KS
<1> QED BY <1>3, <1>4

\* A removal is always visible to a watcher of the slot.
LEMMA RemoveAdv ==
  ASSUME NEW st \in KS, NEW k \in Slots, Live(st, k)
  PROVE  Adv(st, Remove(st, k))
<1> DEFINE t == tombstone(st, k, st.tab[k].ver)
           r == Remove(st, k)
<1>1. st.tab[k].ver \in Nat
  BY DEF Live, KS, Entry
<1>2. r \in KS /\ r.tab = [st.tab EXCEPT ![k] = Absent] /\ r.tomb = t.tomb
        /\ r.epoch = t.epoch
  BY RemoveType
<1> HIDE DEF r
<1> SUFFICES ASSUME NEW j \in Slots
             PROVE  /\ EpochOf(st, j) <= EpochOf(r, j)
                    /\ EpochOf(st, j) = EpochOf(r, j) =>
                         /\ Cur(st, j) <= Cur(r, j)
                         /\ Content(st, j) # Content(r, j) => Cur(st, j) < Cur(r, j)
  BY DEF Adv, r
<1>3. /\ t.tomb[k] = st.tab[k].ver + 1
      /\ EpochOf(st, j) <= EpochOf(t, j)
      /\ EpochOf(st, j) = EpochOf(t, j) /\ j # k => t.tomb[j] = st.tomb[j]
  BY <1>1, TombstoneEffect
<1>4. EpochOf(r, j) = EpochOf(t, j)
  BY <1>2 DEF EpochOf
<1> HIDE DEF t
<1>5. CASE j = k
  <2>1. Cur(st, j) = st.tab[k].ver
    BY <1>5 DEF Cur
  <2>2. Cur(r, j) = st.tab[k].ver + 1
    BY <1>2, <1>3, <1>5 DEF Cur, Live, KS
  <2> QED BY <1>1, <1>3, <1>4, <2>1, <2>2
<1>6. CASE j # k
  <2>1. r.tab[j] = st.tab[j]
    BY <1>2, <1>6 DEF KS
  <2>2. Content(r, j) = Content(st, j)
    BY <2>1 DEF Content, Live
  <2>3. EpochOf(st, j) = EpochOf(r, j) => Cur(r, j) = Cur(st, j)
    BY <1>2, <1>3, <1>4, <1>6, <2>1 DEF Cur, Live
  <2> QED BY <1>3, <1>4, <2>2, <2>3, CurNat
<1> QED BY <1>5, <1>6

\* st2 is a state of the shards that a watcher of st can trust.
Good(st, st2) == st2 \in KS /\ Adv(st, st2)

\* Good steps compose.
LEMMA GoodTrans ==
  ASSUME NEW s1 \in KS, NEW s2, NEW s3, Good(s1, s2), Good(s2, s3)
  PROVE  Good(s1, s3)
BY AdvTrans DEF Good

\* A removal is good, whether by expiry, eviction or DEL.
LEMMA RemoveGood ==
  ASSUME NEW st \in KS, NEW k \in Slots, Live(st, k)
  PROVE  Good(st, Remove(st, k))
BY RemoveType, RemoveAdv DEF Good

\* Lookup expires an overdue entry, or changes nothing.
LEMMA LookupGood ==
  ASSUME NEW st \in KS, NEW k \in Slots, NEW t
  PROVE  Good(st, Lookup(st, k, t))
BY RemoveGood, AdvRefl DEF Lookup, Good

\* Delete removes what Lookup has left.
LEMMA DeleteGood ==
  ASSUME NEW st \in KS, NEW k \in Slots, NEW t
  PROVE  Good(st, Delete(st, k, t))
<1> DEFINE s1 == Lookup(st, k, t)
<1>1. Good(st, s1) /\ s1 \in KS
  BY LookupGood DEF Good
<1>2. CASE Live(s1, k)
  <2>1. Good(s1, Remove(s1, k))
    BY <1>1, <1>2, RemoveGood
  <2> QED BY <1>1, <1>2, <2>1, GoodTrans DEF Delete
<1>3. CASE ~ Live(s1, k)
  BY <1>1, <1>3 DEF Delete
<1> QED BY <1>2, <1>3

\* A step that gives slot k a live entry of a greater version, leaves no
\* tombstone smaller, and touches no other slot nor any epoch, is good.
LEMMA WriteGood ==
  ASSUME NEW st \in KS, NEW st2 \in KS, NEW k \in Slots, NEW e \in Entry,
         st2.tab = [st.tab EXCEPT ![k] = e],
         \A j \in Slots \ {k} : st2.tomb[j] = st.tomb[j],
         st2.epoch = st.epoch,
         Cur(st, k) < e.ver
  PROVE  Good(st, st2)
<1> SUFFICES ASSUME NEW j \in Slots
             PROVE  /\ EpochOf(st, j) <= EpochOf(st2, j)
                    /\ EpochOf(st, j) = EpochOf(st2, j) =>
                         /\ Cur(st, j) <= Cur(st2, j)
                         /\ Content(st, j) # Content(st2, j) => Cur(st, j) < Cur(st2, j)
  BY DEF Good, Adv
<1>1. EpochOf(st2, j) = EpochOf(st, j)
  BY DEF EpochOf
<1>2. CASE j = k
  <2>1. st2.tab[k] = e /\ e # Absent
    BY ConstAssumption DEF KS
  <2>2. Cur(st2, j) = e.ver
    BY <1>2, <2>1 DEF Cur, Live
  <2> QED BY <1>1, <1>2, <2>2, CurNat
<1>3. CASE j # k
  <2>1. st2.tab[j] = st.tab[j] /\ st2.tomb[j] = st.tomb[j]
    BY <1>3 DEF KS
  <2>2. Cur(st2, j) = Cur(st, j) /\ Content(st2, j) = Content(st, j)
    BY <2>1 DEF Cur, Content, Live
  <2> QED BY <1>1, <2>2, CurNat
<1> QED BY <1>2, <1>3

\* From st to r, slot k gets the entry e; no other slot changes, nor any epoch.
Wrote(st, r, k, e) ==
  /\ r \in KS /\ e \in Entry
  /\ r.tab = [st.tab EXCEPT ![k] = e]
  /\ \A j \in Slots \ {k} : r.tomb[j] = st.tomb[j]
  /\ r.epoch = st.epoch
  /\ Charged(st, r, k, e.mem - MemOf(st, k))

\* What Store writes, of a whole value or of a collection filled afterwards.
LEMMA StoreWrites ==
  ASSUME NEW st \in KS, NEW k \in Slots, NEW v \in Values,
         NEW exp \in Nat, NEW gen \in Nat, NEW fresh \in BOOLEAN
  PROVE  \E e : /\ Wrote(st, StoreAs(st, k, v, exp, gen, fresh), k, e)
                /\ StoreAs(st, k, v, exp, gen, fresh).heap = st.heap
                /\ Cur(st, k) < e.ver
                /\ e.exp = exp /\ e.gen = gen /\ e.mem = Weight(e)
<1> DEFINE n == IF fresh THEN EmptySize ELSE SizeOf[v]
           e == [val |-> v, ver |-> NextVersion(st, k), exp |-> exp,
                 gen |-> gen, mem |-> n, fresh |-> fresh]
           m == addMem(st, k, n - MemOf(st, k))
           r == StoreAs(st, k, v, exp, gen, fresh)
<1>1. n \in Nat /\ MemOf(st, k) \in Nat
  BY ConstAssumption DEF MemOf, Live, KS, Entry
<1>2. NextVersion(st, k) \in Nat \ {0} /\ Cur(st, k) < NextVersion(st, k)
  BY DEF NextVersion, Cur, Live, KS, Entry
<1>3. e \in Entry /\ Cur(st, k) < e.ver /\ e.exp = exp /\ e.gen = gen
        /\ e.mem = Weight(e) /\ e.mem = n
  BY <1>1, <1>2 DEF Entry, Weight
<1>4. m \in KS /\ m.tab = st.tab /\ m.tomb = st.tomb /\ m.epoch = st.epoch
        /\ m.heap = st.heap /\ Charged(st, m, k, n - MemOf(st, k))
  <2>1. n - MemOf(st, k) \in Int
    BY <1>1
  <2> QED BY <2>1, AddMemType
<1>5. r = [m EXCEPT !.tomb = [m.tomb EXCEPT ![k] = 0],
                    !.tab  = [m.tab EXCEPT ![k] = e]]
  <2>1. r = [m EXCEPT !.tomb[k] = 0, !.tab[k] = e]
    BY DEF StoreAs, MemOf
  <2> HIDE DEF m, e, r
  <2> QED BY <1>4, <2>1 DEF KS
<1> HIDE DEF m, e, r
<1>6. /\ r \in KS /\ r.tab = [st.tab EXCEPT ![k] = e]
      /\ \A j \in Slots \ {k} : r.tomb[j] = st.tomb[j]
      /\ r.epoch = st.epoch /\ r.heap = st.heap /\ r.used = m.used
  <2> DEFINE ta == [m.tab EXCEPT ![k] = e]
             tb == [m.tomb EXCEPT ![k] = 0]
  <2>1. ta \in [Slots -> Entry \cup {Absent}] /\ tb \in [Slots -> Nat]
    BY <1>3, <1>4 DEF KS
  <2>2. r = [m EXCEPT !.tomb = tb, !.tab = ta]
    BY <1>5
  <2>3. ta = [st.tab EXCEPT ![k] = e] /\ \A j \in Slots \ {k} : tb[j] = st.tomb[j]
    BY <1>4, <2>1 DEF KS
  <2> HIDE DEF ta, tb
  <2>4. r \in KS /\ r.tab = ta /\ r.tomb = tb /\ r.epoch = m.epoch /\ r.heap = m.heap
          /\ r.used = m.used
    BY <1>4, <2>1, <2>2 DEF KS
  <2> QED BY <1>4, <2>3, <2>4
<1>7. Charged(st, r, k, e.mem - MemOf(st, k))
  BY <1>3, <1>4, <1>6 DEF Charged
<1>8. Wrote(st, r, k, e)
  BY <1>3, <1>6, <1>7 DEF Wrote
<1> QED BY <1>3, <1>6, <1>8 DEF r

\* What Touch writes.
LEMMA TouchWrites ==
  ASSUME NEW st \in KS, NEW k \in Slots, NEW v \in Values, NEW exp \in Nat, Live(st, k)
  PROVE  \E e : /\ Wrote(st, Touch(st, k, v, exp), k, e)
                /\ Touch(st, k, v, exp).heap = st.heap
                /\ Cur(st, k) < e.ver
                /\ e.exp = exp /\ e.gen = st.tab[k].gen /\ e.mem = Weight(e)
<1> DEFINE o == st.tab[k]
           e == [val |-> v, ver |-> o.ver + 1, exp |-> exp, gen |-> o.gen,
                 mem |-> SizeOf[v], fresh |-> FALSE]
           m == addMem(st, k, SizeOf[v] - o.mem)
           r == Touch(st, k, v, exp)
<1>1. o \in Entry /\ MemOf(st, k) = o.mem
  BY DEF MemOf, Live, KS
<1>2. SizeOf[v] \in Nat /\ SizeOf[v] - o.mem \in Int
  BY <1>1, ConstAssumption DEF Entry
<1>3. e \in Entry /\ e.exp = exp /\ e.gen = o.gen /\ e.mem = Weight(e) /\ e.mem = SizeOf[v]
  BY <1>1, <1>2 DEF Entry, Weight
<1>4. m \in KS /\ m.tab = st.tab /\ m.tomb = st.tomb /\ m.epoch = st.epoch
        /\ m.heap = st.heap /\ Charged(st, m, k, SizeOf[v] - o.mem)
  BY <1>2, AddMemType
<1>5. r = [m EXCEPT !.tab[k] = e]
  BY DEF Touch
<1>6. Cur(st, k) < e.ver
  BY <1>1 DEF Cur, Entry
<1> HIDE DEF m, e, r
<1>7. r \in KS /\ r.tab = [st.tab EXCEPT ![k] = e] /\ r.tomb = st.tomb
        /\ r.epoch = st.epoch /\ r.heap = st.heap /\ r.used = m.used
  <2> DEFINE ta == [m.tab EXCEPT ![k] = e]
  <2>1. ta \in [Slots -> Entry \cup {Absent}] /\ ta = [st.tab EXCEPT ![k] = e]
    BY <1>3, <1>4 DEF KS
  <2>2. r = [m EXCEPT !.tab = ta]
    BY <1>5
  <2> HIDE DEF ta
  <2>3. r \in KS /\ r.tab = ta /\ r.tomb = m.tomb /\ r.epoch = m.epoch /\ r.heap = m.heap
          /\ r.used = m.used
    BY <1>4, <2>1, <2>2 DEF KS
  <2> QED BY <1>4, <2>1, <2>3
<1>8. Charged(st, r, k, e.mem - MemOf(st, k))
  BY <1>1, <1>3, <1>4, <1>7 DEF Charged
<1>9. Wrote(st, r, k, e)
  BY <1>3, <1>7, <1>8 DEF Wrote
<1> QED BY <1>3, <1>6, <1>7, <1>9 DEF r

\* PushExpire gives the entry a new generation, and the heap its item.
LEMMA PushExpireWrites ==
  ASSUME NEW st \in KS, NEW k \in Slots, Live(st, k)
  PROVE  LET r == PushExpire(st, k)
             e == [st.tab[k] EXCEPT !.gen = st.tab[k].gen + 1]
         IN /\ Wrote(st, r, k, e)
            /\ r.tomb = st.tomb
            /\ r.heap = st.heap \cup {[slot |-> k, at |-> e.exp, gen |-> e.gen]}
            /\ e.ver = st.tab[k].ver /\ e.val = st.tab[k].val /\ e.exp = st.tab[k].exp
            /\ e.mem = st.tab[k].mem /\ e.fresh = st.tab[k].fresh
<1> DEFINE o == st.tab[k]
           e == [o EXCEPT !.gen = o.gen + 1]
           h == st.heap \cup {[slot |-> k, at |-> o.exp, gen |-> o.gen + 1]}
           r == PushExpire(st, k)
<1>1. o \in Entry
  BY DEF Live, KS
<1>2. e \in Entry /\ e.ver = o.ver /\ e.val = o.val /\ e.exp = o.exp /\ e.mem = o.mem
        /\ e.fresh = o.fresh /\ e.gen = o.gen + 1 /\ e.mem \in Int
  BY <1>1 DEF Entry
<1>3. h \in SUBSET ExpItem
  BY <1>1 DEF ExpItem, KS, Entry
<1>4. r = [st EXCEPT !.tab = [st.tab EXCEPT ![k] = e], !.heap = h]
  BY DEF PushExpire, KS
<1> HIDE DEF e, h, r
<1>5. r \in KS /\ r.tab = [st.tab EXCEPT ![k] = e] /\ r.tomb = st.tomb
        /\ r.epoch = st.epoch /\ r.heap = h /\ r.used = st.used
  <2> DEFINE ta == [st.tab EXCEPT ![k] = e]
  <2>1. ta \in [Slots -> Entry \cup {Absent}]
    BY <1>2 DEF KS
  <2>2. r = [st EXCEPT !.tab = ta, !.heap = h]
    BY <1>4
  <2> HIDE DEF ta
  <2>3. r \in KS /\ r.tab = ta /\ r.tomb = st.tomb /\ r.epoch = st.epoch /\ r.heap = h
          /\ r.used = st.used
    BY <1>3, <2>1, <2>2 DEF KS
  <2> QED BY <2>3 DEF ta
<1>6. Charged(st, r, k, e.mem - MemOf(st, k))
  <2>1. e.mem - MemOf(st, k) = 0
    BY <1>2 DEF MemOf
  <2>2. \A s \in Shards, d \in DBs : st.used[s][d] \in Int
    BY DEF KS
  <2> QED BY <1>5, <2>1, <2>2 DEF Charged
<1>7. Wrote(st, r, k, e)
  BY <1>2, <1>5, <1>6 DEF Wrote
<1>8. h = st.heap \cup {[slot |-> k, at |-> e.exp, gen |-> e.gen]}
  BY <1>2 DEF h
<1> QED BY <1>2, <1>5, <1>7, <1>8 DEF r, e

\* A write leaves the slot live.
LEMMA WroteLive ==
  ASSUME NEW st \in KS, NEW r, NEW k \in Slots, NEW e, Wrote(st, r, k, e)
  PROVE  r \in KS /\ Live(r, k) /\ r.tab[k] = e /\ e \in Entry
BY ConstAssumption DEF Wrote, Live, KS

\* Store: the new version exceeds anything a watcher could have sampled.
LEMMA StoreGood ==
  ASSUME NEW st \in KS, NEW k \in Slots, NEW v \in Values,
         NEW exp \in Nat, NEW gen \in Nat, NEW fresh \in BOOLEAN
  PROVE  /\ Good(st, StoreAs(st, k, v, exp, gen, fresh))
         /\ Live(StoreAs(st, k, v, exp, gen, fresh), k)
<1> DEFINE r == StoreAs(st, k, v, exp, gen, fresh)
<1>1. PICK e : Wrote(st, r, k, e) /\ Cur(st, k) < e.ver
  BY StoreWrites
<1> HIDE DEF r
<1>2. Good(st, r) /\ Live(r, k)
  BY <1>1, WriteGood, WroteLive DEF Wrote
<1> QED BY <1>2 DEF r

\* Touch: an in-place mutation raises the version.
LEMMA TouchGood ==
  ASSUME NEW st \in KS, NEW k \in Slots, NEW v \in Values, NEW exp \in Nat,
         Live(st, k)
  PROVE  /\ Good(st, Touch(st, k, v, exp))
         /\ Live(Touch(st, k, v, exp), k)
<1> DEFINE r == Touch(st, k, v, exp)
<1>1. PICK e : Wrote(st, r, k, e) /\ Cur(st, k) < e.ver
  BY TouchWrites
<1> HIDE DEF r
<1>2. Good(st, r) /\ Live(r, k)
  BY <1>1, WriteGood, WroteLive DEF Wrote
<1> QED BY <1>2 DEF r

\* PushExpire changes a generation and the heap, nothing a watcher sees.
LEMMA PushExpireGood ==
  ASSUME NEW st \in KS, NEW k \in Slots, Live(st, k)
  PROVE  Good(st, PushExpire(st, k))
<1> DEFINE r == PushExpire(st, k)
           e == [st.tab[k] EXCEPT !.gen = st.tab[k].gen + 1]
<1>1. /\ Wrote(st, r, k, e) /\ r.tomb = st.tomb
      /\ e.ver = st.tab[k].ver /\ e.val = st.tab[k].val /\ e.exp = st.tab[k].exp
  BY PushExpireWrites
<1> HIDE DEF r, e
<1>2. r \in KS /\ Live(r, k) /\ r.tab[k] = e
  BY <1>1, WroteLive
<1>3. ASSUME NEW j \in Slots
      PROVE  /\ EpochOf(r, j) = EpochOf(st, j) /\ Cur(r, j) = Cur(st, j)
             /\ Content(r, j) = Content(st, j)
  <2>1. EpochOf(r, j) = EpochOf(st, j)
    BY <1>1 DEF EpochOf, Wrote
  <2>2. CASE j = k
    BY <1>1, <1>2, <2>1, <2>2 DEF Cur, Content, Live
  <2>3. CASE j # k
    <3>1. r.tab[j] = st.tab[j] /\ r.tomb[j] = st.tomb[j]
      BY <1>1, <2>3 DEF KS, Wrote
    <3> QED BY <2>1, <3>1 DEF Cur, Content, Live
  <2> QED BY <2>2, <2>3
<1> QED BY <1>2, <1>3, CurNat DEF Good, Adv, r

\* Popping an item changes the heap only.
LEMMA PopGood ==
  ASSUME NEW st \in KS, NEW it
  PROVE  /\ Good(st, [st EXCEPT !.heap = @ \ {it}])
         /\ [st EXCEPT !.heap = @ \ {it}].tab = st.tab
         /\ [st EXCEPT !.heap = @ \ {it}].used = st.used
         /\ [st EXCEPT !.heap = @ \ {it}].heap = st.heap \ {it}
<1> DEFINE r == [st EXCEPT !.heap = @ \ {it}]
<1>1. r \in KS /\ r.tab = st.tab /\ r.tomb = st.tomb /\ r.epoch = st.epoch
        /\ r.used = st.used /\ r.heap = st.heap \ {it}
  BY DEF KS
<1> HIDE DEF r
<1>2. \A j \in Slots : /\ EpochOf(r, j) = EpochOf(st, j) /\ Cur(r, j) = Cur(st, j)
                        /\ Content(r, j) = Content(st, j)
  BY <1>1 DEF EpochOf, Cur, Content, Live
<1> QED BY <1>1, <1>2, CurNat DEF Good, Adv, r

\* flushDB raises the epoch of every slot whose tombstone it drops.
LEMMA FlushDBGood ==
  ASSUME NEW st \in KS, NEW s \in Shards, NEW d \in DBs
  PROVE  /\ Good(st, flushDB(st, s, d))
         /\ \A j \in Slots : ShardOf[j] = s /\ DBOf[j] = d =>
              EpochOf(st, j) < EpochOf(flushDB(st, s, d), j)
         /\ flushDB(st, s, d).tab = st.tab
         /\ flushDB(st, s, d).heap = {it \in st.heap : ~ (ShardOf[it.slot] = s /\ DBOf[it.slot] = d)}
         /\ \A x \in Shards, y \in DBs :
              flushDB(st, s, d).used[x][y] = IF x = s /\ y = d THEN 0 ELSE st.used[x][y]
<1> DEFINE mine(j) == ShardOf[j] = s /\ DBOf[j] = d
           tb == [j \in Slots |-> IF mine(j) THEN 0 ELSE st.tomb[j]]
           hp == {it \in st.heap : ~ mine(it.slot)}
           us == [st.used EXCEPT ![s] = [st.used[s] EXCEPT ![d] = 0]]
           ep == [st.epoch EXCEPT ![s] = [st.epoch[s] EXCEPT ![d] = st.epoch[s][d] + 1]]
           r  == flushDB(st, s, d)
<1>1. tb \in [Slots -> Nat] /\ hp \in SUBSET ExpItem
  BY DEF KS
<1>2. /\ us \in [Shards -> [DBs -> Int]]
      /\ \A x \in Shards, y \in DBs : us[x][y] = IF x = s /\ y = d THEN 0 ELSE st.used[x][y]
  BY DEF KS
<1>3. ep \in [Shards -> [DBs -> Nat]]
  BY DEF KS
<1>4. r = [st EXCEPT !.tomb = tb, !.used = us, !.heap = hp, !.epoch = ep]
  BY DEF flushDB, KS
<1>5. ASSUME NEW j \in Slots
      PROVE  /\ mine(j) => EpochOf(st, j) < ep[ShardOf[j]][DBOf[j]]
             /\ ~ mine(j) => /\ EpochOf(st, j) = ep[ShardOf[j]][DBOf[j]]
                             /\ tb[j] = st.tomb[j]
  <2>1. ShardOf[j] \in Shards /\ DBOf[j] \in DBs
    BY ConstAssumption
  <2>2. EpochOf(st, j) \in Nat /\ EpochOf(st, j) = st.epoch[ShardOf[j]][DBOf[j]]
    BY CurNat DEF EpochOf
  <2>3. mine(j) => ep[ShardOf[j]][DBOf[j]] = st.epoch[ShardOf[j]][DBOf[j]] + 1
    BY <2>1 DEF KS
  <2>4. ~ mine(j) => ep[ShardOf[j]][DBOf[j]] = st.epoch[ShardOf[j]][DBOf[j]]
    BY <2>1 DEF KS
  <2> QED BY <2>2, <2>3, <2>4
<1> HIDE DEF tb, hp, us, ep
<1>6. r \in KS /\ r.tab = st.tab /\ r.tomb = tb /\ r.epoch = ep /\ r.heap = hp /\ r.used = us
  BY <1>1, <1>2, <1>3, <1>4 DEF KS
<1> HIDE DEF r
<1>7. ASSUME NEW j \in Slots
      PROVE  /\ EpochOf(st, j) <= EpochOf(r, j)
             /\ EpochOf(st, j) = EpochOf(r, j) =>
                  Cur(r, j) = Cur(st, j) /\ Content(r, j) = Content(st, j)
             /\ mine(j) => EpochOf(st, j) < EpochOf(r, j)
  <2>1. EpochOf(r, j) = ep[ShardOf[j]][DBOf[j]]
    BY <1>6 DEF EpochOf
  <2>2. EpochOf(r, j) \in Nat /\ EpochOf(st, j) \in Nat
    BY <1>6, CurNat
  <2>3. ~ mine(j) => Cur(r, j) = Cur(st, j) /\ Content(r, j) = Content(st, j)
    BY <1>5, <1>6 DEF Cur, Content, Live
  <2> QED BY <1>5, <2>1, <2>2, <2>3
<1>8. Good(st, r)
  BY <1>6, <1>7, CurNat DEF Good, Adv
<1>9. hp = {it \in st.heap : ~ (ShardOf[it.slot] = s /\ DBOf[it.slot] = d)}
  BY DEF hp
<1> QED BY <1>2, <1>6, <1>7, <1>8, <1>9 DEF r

-----------------------------------------------------------------------------
(* The invariants.                                                          *)

\* A reference is never ahead of its slot, and behind it once touched, unless
\* a FLUSHDB still owes the slot's shard its epoch bump.
RefOK(r) ==
  /\ r.epoch <= EpochOf(ks, r.slot)
  /\ ~ FlushPending(r.slot) /\ r.epoch = EpochOf(ks, r.slot) =>
       /\ r.ver <= Cur(ks, r.slot)
       /\ r.touched => r.ver < Cur(ks, r.slot)

RefInv == \A c \in Conns : \A i \in DOMAIN watch[c] : RefOK(watch[c][i])

\* A FLUSHDB of a connection other than c is pending on the slot.
OtherPending(c, k) == \E d \in Conns \ {c} : PendingBy(d, k)

\* Marking keeps every reference, and its sample, and can only set touched.
LEMMA MarkAllFacts ==
  ASSUME TypeOK, NEW st
  PROVE  /\ MarkAll(st) \in [Conns -> Seq(Ref)]
         /\ \A c \in Conns :
              /\ DOMAIN MarkAll(st)[c] = DOMAIN watch[c]
              /\ Len(MarkAll(st)[c]) = Len(watch[c])
              /\ \A i \in DOMAIN watch[c] :
                   /\ MarkAll(st)[c][i].slot = watch[c][i].slot
                   /\ MarkAll(st)[c][i].epoch = watch[c][i].epoch
                   /\ MarkAll(st)[c][i].ver = watch[c][i].ver
                   /\ MarkAll(st)[c][i].touched =>
                        \/ watch[c][i].touched
                        \/ /\ phase[c] \in {"idle", "eval"}
                           /\ Content(st, watch[c][i].slot) # Content(ks, watch[c][i].slot)
<1>1. ASSUME NEW c \in Conns, NEW i \in DOMAIN watch[c]
      PROVE  /\ Marked(st, watch[c][i], c) \in Ref
             /\ Marked(st, watch[c][i], c).slot = watch[c][i].slot
             /\ Marked(st, watch[c][i], c).epoch = watch[c][i].epoch
             /\ Marked(st, watch[c][i], c).ver = watch[c][i].ver
             /\ Marked(st, watch[c][i], c).touched =>
                        \/ watch[c][i].touched
                        \/ /\ phase[c] \in {"idle", "eval"}
                           /\ Content(st, watch[c][i].slot) # Content(ks, watch[c][i].slot)
  <2> DEFINE r == watch[c][i]
             b == r.touched \/ /\ phase[c] \in {"idle", "eval"}
                               /\ Content(st, r.slot) # Content(ks, r.slot)
  <2>1. r \in Ref
    BY <1>1 DEF TypeOK
  <2>2. b \in BOOLEAN
    OBVIOUS
  <2>3. Marked(st, r, c) = [r EXCEPT !.touched = b]
    BY <2>1 DEF Marked, Ref
  <2> HIDE DEF r
  <2>4. [r EXCEPT !.touched = b] \in Ref
    BY <2>1, <2>2 DEF Ref
  <2>5. [r EXCEPT !.touched = b].slot = r.slot
        /\ [r EXCEPT !.touched = b].epoch = r.epoch
        /\ [r EXCEPT !.touched = b].ver = r.ver
        /\ [r EXCEPT !.touched = b].touched = b
    BY <2>1 DEF Ref
  <2> QED BY <2>3, <2>4, <2>5 DEF r
<1>2. ASSUME NEW c \in Conns
      PROVE  /\ MarkAll(st)[c] \in Seq(Ref)
             /\ DOMAIN MarkAll(st)[c] = DOMAIN watch[c]
             /\ Len(MarkAll(st)[c]) = Len(watch[c])
             /\ \A i \in DOMAIN watch[c] :
                  MarkAll(st)[c][i] = Marked(st, watch[c][i], c)
  <2>1. watch[c] \in Seq(Ref) /\ Len(watch[c]) \in Nat
          /\ DOMAIN watch[c] = 1..Len(watch[c])
    BY DEF TypeOK
  <2>2. MarkAll(st)[c] = [i \in DOMAIN watch[c] |-> Marked(st, watch[c][i], c)]
    BY DEF MarkAll
  <2>3. \A i \in 1..Len(watch[c]) : Marked(st, watch[c][i], c) \in Ref
    BY <1>1, <2>1
  <2>4. [i \in 1..Len(watch[c]) |-> Marked(st, watch[c][i], c)] \in Seq(Ref)
    BY <2>1, <2>3
  <2> QED BY <2>1, <2>2, <2>4
<1>3. MarkAll(st) \in [Conns -> Seq(Ref)]
  BY <1>2 DEF MarkAll
<1> QED BY <1>1, <1>2, <1>3

-----------------------------------------------------------------------------
(* The steps that only move the keyspace forward.                           *)

\* What a command's shard task, a sweep or an eviction does to the state.
Quiet ==
  /\ Good(ks, ks')
  /\ watch' = MarkAll(ks')
  /\ UNCHANGED <<now, phase, chk, flush, holder>>

\* A task that takes the keyspace to a good state is quiet.
LEMMA TaskQuiet ==
  ASSUME NEW c, NEW st, Task(c, st), Good(ks, st)
  PROVE  Quiet
BY DEF Task, Apply, Quiet

\* The reading commands and the removals.
LEMMA ReadQuiet ==
  ASSUME TypeOK, NEW c \in Conns, NEW k \in Slots, Get(c, k) \/ Del(c, k)
  PROVE  Quiet
<1>1. ks \in KS
  BY DEF TypeOK
<1>2. Good(ks, Lookup(ks, k, now)) /\ Good(ks, Delete(ks, k, now))
  BY <1>1, LookupGood, DeleteGood
<1> QED BY <1>2, TaskQuiet DEF Get, Del

\* The commands that write a value.
LEMMA WriteQuiet ==
  ASSUME TypeOK, NEW c \in Conns, NEW k \in Slots, NEW v \in Values, NEW at \in Nat,
         \/ Set(c, k, v, at) \/ SetKeepTTL(c, k, v) \/ MSetOne(c, k, v)
         \/ Mutate(c, k, v) \/ Fill(c, k, v)
  PROVE  Quiet
<1> DEFINE st == Lookup(ks, k, now)
<1>1. ks \in KS
  BY DEF TypeOK
<1>2. Good(ks, st) /\ st \in KS
  BY <1>1, LookupGood DEF Good
<1>3. Live(st, k) => /\ st.tab[k].exp \in Nat /\ st.tab[k].gen \in Nat
                     /\ st.tab[k].val \in Values
  BY <1>2 DEF Live, KS, Entry
<1> HIDE DEF st
<1>4. ASSUME NEW x \in Nat, NEW g \in Nat
      PROVE  /\ Good(ks, Store(st, k, v, x, g))
             /\ Good(ks, StoreAs(st, k, v, x, g, TRUE))
  <2>1. Good(st, Store(st, k, v, x, g)) /\ Good(st, StoreAs(st, k, v, x, g, TRUE))
    BY <1>2, StoreGood DEF Store
  <2> QED BY <1>1, <1>2, <2>1, GoodTrans
<1>5. CASE Set(c, k, v, at)
  <2> DEFINE p == Store(st, k, v, at, 0)
  <2>1. Good(st, p) /\ Live(p, k) /\ p \in KS
    BY <1>2, StoreGood DEF Good, Store
  <2> HIDE DEF p
  <2>2. Good(ks, PushExpire(p, k))
    <3>1. Good(p, PushExpire(p, k))
      BY <2>1, PushExpireGood
    <3>2. Good(ks, p)
      BY <1>1, <1>2, <2>1, GoodTrans
    <3> QED BY <1>1, <3>1, <3>2, GoodTrans
  <2>3. Good(ks, Delete(st, k, now))
    <3>1. Good(st, Delete(st, k, now))
      BY <1>2, DeleteGood
    <3> QED BY <1>1, <1>2, <3>1, GoodTrans
  <2>4. Task(c, IF at = 0 THEN Store(st, k, v, 0, 0)
                ELSE IF at <= now THEN Delete(st, k, now) ELSE PushExpire(p, k))
    BY <1>5 DEF Set, st, p
  <2> QED BY <1>4, <2>2, <2>3, <2>4, TaskQuiet
<1>6. CASE SetKeepTTL(c, k, v)
  <2>1. Task(c, IF Live(st, k) THEN Store(st, k, v, st.tab[k].exp, st.tab[k].gen)
                ELSE Store(st, k, v, 0, 0))
    BY <1>6 DEF SetKeepTTL, st
  <2> QED BY <1>3, <1>4, <2>1, TaskQuiet
<1>7. CASE MSetOne(c, k, v)
  <2>1. Good(ks, Store(ks, k, v, 0, 0))
    BY <1>1, StoreGood DEF Store
  <2> QED BY <1>7, <2>1, TaskQuiet DEF MSetOne
<1>8. CASE Mutate(c, k, v)
  <2>1. Task(c, IF ~ Live(st, k) THEN Store(st, k, v, 0, 0)
                ELSE IF KindOf[st.tab[k].val] = KindOf[v]
                     THEN Touch(st, k, v, st.tab[k].exp) ELSE st)
    BY <1>8 DEF Mutate, st
  <2>2. Live(st, k) => Good(ks, Touch(st, k, v, st.tab[k].exp))
    <3>1. Live(st, k) => Good(st, Touch(st, k, v, st.tab[k].exp))
      BY <1>2, <1>3, TouchGood
    <3> QED BY <1>1, <1>2, <3>1, GoodTrans
  <2> QED BY <1>2, <1>4, <2>1, <2>2, TaskQuiet
<1>9. CASE Fill(c, k, v)
  <2>1. Task(c, StoreAs(st, k, v, 0, 0, TRUE))
    BY <1>9 DEF Fill, st
  <2> QED BY <1>4, <2>1, TaskQuiet
<1> QED BY <1>5, <1>6, <1>7, <1>8, <1>9

\* The commands that change an expiry.
LEMMA ExpireQuiet ==
  ASSUME TypeOK, NEW c \in Conns, NEW k \in Slots, NEW at \in Nat,
         Expire(c, k, at) \/ Persist(c, k)
  PROVE  Quiet
<1> DEFINE st == Lookup(ks, k, now)
<1>1. ks \in KS
  BY DEF TypeOK
<1>2. Good(ks, st) /\ st \in KS
  BY <1>1, LookupGood DEF Good
<1>3. Live(st, k) => st.tab[k].val \in Values
  BY <1>2 DEF Live, KS, Entry
<1> HIDE DEF st
<1>4. ASSUME NEW x \in Nat, Live(st, k)
      PROVE  /\ Good(ks, Touch(st, k, st.tab[k].val, x))
             /\ Touch(st, k, st.tab[k].val, x) \in KS
             /\ Live(Touch(st, k, st.tab[k].val, x), k)
  <2>1. /\ Good(st, Touch(st, k, st.tab[k].val, x))
        /\ Live(Touch(st, k, st.tab[k].val, x), k)
    BY <1>2, <1>3, <1>4, TouchGood
  <2> QED BY <1>1, <1>2, <2>1, GoodTrans DEF Good
<1>5. CASE Expire(c, k, at)
  <2> DEFINE p == Touch(st, k, st.tab[k].val, at)
  <2>1. Task(c, IF ~ Live(st, k) THEN st
                ELSE IF at <= now THEN Delete(st, k, now) ELSE PushExpire(p, k))
    BY <1>5 DEF Expire, st
  <2>2. Good(ks, Delete(st, k, now))
    <3>1. Good(st, Delete(st, k, now))
      BY <1>2, DeleteGood
    <3> QED BY <1>1, <1>2, <3>1, GoodTrans
  <2>3. Live(st, k) => Good(ks, p) /\ p \in KS /\ Live(p, k)
    BY <1>4
  <2> HIDE DEF p
  <2>4. Live(st, k) => Good(ks, PushExpire(p, k))
    <3>1. Live(st, k) => Good(p, PushExpire(p, k))
      BY <2>3, PushExpireGood
    <3> QED BY <1>1, <2>3, <3>1, GoodTrans
  <2> QED BY <1>2, <2>1, <2>2, <2>4, TaskQuiet
<1>6. CASE Persist(c, k)
  <2>1. Task(c, IF Live(st, k) /\ st.tab[k].exp # 0
                THEN Touch(st, k, st.tab[k].val, 0) ELSE st)
    BY <1>6 DEF Persist, st
  <2> QED BY <1>2, <1>4, <2>1, TaskQuiet
<1> QED BY <1>5, <1>6

\* The sweep and the evictions.
LEMMA ShardQuiet ==
  ASSUME TypeOK, NEW s, NEW k \in Slots, Sweep(s) \/ Evict(k)
  PROVE  Quiet
<1>1. ks \in KS
  BY DEF TypeOK
<1>2. CASE Sweep(s)
  <2>1. PICK it \in ks.heap :
          LET st  == [ks EXCEPT !.heap = @ \ {it}]
              st1 == IF FreshItem(ks, it) THEN Remove(st, it.slot) ELSE st
          IN Apply(st1)
    BY <1>2 DEF Sweep
  <2> DEFINE st == [ks EXCEPT !.heap = @ \ {it}]
  <2>2. it.slot \in Slots
    BY <1>1 DEF KS, ExpItem
  <2>3. Good(ks, st) /\ st \in KS /\ st.tab = ks.tab
    BY <1>1, PopGood DEF Good
  <2>4. Apply(IF FreshItem(ks, it) THEN Remove(st, it.slot) ELSE st)
    BY <2>1
  <2> HIDE DEF st
  <2>5. FreshItem(ks, it) => Good(ks, Remove(st, it.slot))
    <3>1. FreshItem(ks, it) => Live(st, it.slot)
      BY <2>3 DEF FreshItem, Live
    <3>2. FreshItem(ks, it) => Good(st, Remove(st, it.slot))
      BY <2>2, <2>3, <3>1, RemoveGood
    <3> QED BY <1>1, <2>3, <3>2, GoodTrans
  <2>6. UNCHANGED <<now, phase, chk, flush, holder>>
    BY <1>2 DEF Sweep
  <2> QED BY <2>3, <2>4, <2>5, <2>6 DEF Apply, Quiet
<1>3. CASE Evict(k)
  <2>1. Good(ks, Remove(ks, k))
    BY <1>1, <1>3, RemoveGood DEF Evict
  <2> QED BY <1>3, <2>1 DEF Evict, Apply, Quiet
<1> QED BY <1>2, <1>3

-----------------------------------------------------------------------------
(* Type correctness.                                                        *)

\* Every command but WATCH is quiet.
LEMMA CommandCases ==
  ASSUME TypeOK, NEW c \in Conns, Command(c)
  PROVE  Quiet \/ \E k \in Slots : Watch(c, k)
<1>1. PICK k \in Slots :
        \/ Get(c, k) \/ Del(c, k) \/ Persist(c, k) \/ Watch(c, k)
        \/ \E v \in Values : SetKeepTTL(c, k, v) \/ MSetOne(c, k, v) \/ Mutate(c, k, v) \/ Fill(c, k, v)
        \/ \E v \in Values, at \in 0..MaxNow : Set(c, k, v, at)
        \/ \E at \in 1..MaxNow : Expire(c, k, at)
  BY DEF Command
<1>2. 0..MaxNow \subseteq Nat /\ 1..MaxNow \subseteq Nat /\ 0 \in Nat
  BY ConstAssumption
<1>3. CASE Get(c, k) \/ Del(c, k)
  BY <1>3, ReadQuiet
<1>4. CASE Persist(c, k)
  BY <1>2, <1>4, ExpireQuiet
<1>5. CASE \E v \in Values : SetKeepTTL(c, k, v) \/ MSetOne(c, k, v) \/ Mutate(c, k, v) \/ Fill(c, k, v)
  BY <1>2, <1>5, WriteQuiet
<1>6. CASE \E v \in Values, at \in 0..MaxNow : Set(c, k, v, at)
  BY <1>2, <1>6, WriteQuiet
<1>7. CASE \E at \in 1..MaxNow : Expire(c, k, at)
  BY <1>2, <1>7, ExpireQuiet
<1> QED BY <1>1, <1>3, <1>4, <1>5, <1>6, <1>7

\* The steps of the specification, by what they do to the references.
LEMMA NextCases ==
  ASSUME TypeOK, [Next]_vars
  PROVE  \/ Quiet
         \/ UNCHANGED <<ks, watch, phase, chk, flush, holder>> /\ now' \in Nat
         \/ \E c \in Conns :
              \/ \E k \in Slots : Watch(c, k)
              \/ Unwatch(c) \/ ExecPause(c) \/ ExecCheck(c) \/ ExecCommit(c)
              \/ ExecEnd(c) \/ Eval(c) \/ EvalEnd(c) \/ FlushShard(c)
              \/ \E d \in DBs : FlushSwap(c, d)
<1>1. CASE UNCHANGED vars
  BY <1>1 DEF vars, TypeOK
<1>2. CASE Tick
  BY <1>2 DEF Tick, TypeOK
<1>3. CASE \E s \in Shards : Sweep(s)
  <2>1. PICK s \in Shards : Sweep(s)
    BY <1>3
  <2>2. PICK it \in ks.heap : TRUE
    BY <2>1 DEF Sweep
  <2>3. it.slot \in Slots
    BY <2>2 DEF TypeOK, KS, ExpItem
  <2> QED BY <2>1, <2>3, ShardQuiet
<1>4. CASE \E k \in Slots : Evict(k)
  BY <1>4, ShardQuiet
<1>5. CASE \E c \in Conns : Command(c)
  BY <1>5, CommandCases
<1>6. CASE \E c \in Conns : Transaction(c) \/ Flush(c)
  BY <1>6 DEF Transaction, Flush
<1> QED BY <1>1, <1>2, <1>3, <1>4, <1>5, <1>6 DEF Next

\* WATCH samples the epoch and the version its own lookup leaves.
LEMMA WatchStep ==
  ASSUME TypeOK, NEW c \in Conns, NEW k \in Slots, Watch(c, k)
  PROVE  LET r == [slot |-> k, epoch |-> EpochOf(ks', k), ver |-> Cur(ks', k),
                   touched |-> FALSE]
         IN /\ Good(ks, ks')
            /\ r \in Ref
            /\ watch' = [MarkAll(ks') EXCEPT ![c] = Append(MarkAll(ks')[c], r)]
            /\ phase[c] = "idle"
            /\ UNCHANGED <<now, phase, chk, flush, holder>>
<1>1. ks' = Lookup(ks, k, now)
  BY DEF Watch
<1>2. Good(ks, ks') /\ ks' \in KS
  BY <1>1, LookupGood DEF TypeOK, Good
<1>3. EpochOf(ks', k) \in Nat /\ Cur(ks', k) \in Nat
  BY <1>2, CurNat
<1> DEFINE st == ks'
<1>4. watch' = [MarkAll(st) EXCEPT ![c] =
                  Append(@, [slot |-> k, epoch |-> EpochOf(st, k),
                             ver |-> Cur(st, k), touched |-> FALSE])]
  BY <1>1 DEF Watch
<1> QED BY <1>2, <1>3, <1>4 DEF Watch, Ref

\* The dirty check is a lookup; a clean check moves on to the next reference.
LEMMA CheckStep ==
  ASSUME TypeOK, NEW c \in Conns, ExecCheck(c)
  PROVE  LET i == chk[c] IN
         /\ Good(ks, ks')
         /\ phase[c] = "check"
         /\ i \in DOMAIN watch[c]
         /\ UNCHANGED <<now, flush>>
         /\ \/ /\ ExecLeave(c)
               /\ watch' = [MarkAll(ks') EXCEPT ![c] = <<>>]
            \/ /\ ~ WatchDirty(ks, watch[c][i], now)
               /\ chk' = [chk EXCEPT ![c] = i + 1]
               /\ watch' = MarkAll(ks')
               /\ UNCHANGED <<phase, holder>>
<1> DEFINE r == watch[c][chk[c]]
<1>1. phase[c] = "check" /\ chk[c] \in 1..Len(watch[c]) /\ watch[c] \in Seq(Ref)
  BY DEF ExecCheck, TypeOK
<1>2. chk[c] \in DOMAIN watch[c] /\ r \in Ref
  BY <1>1
<1>3. ks' = IF r.epoch # EpochOf(ks, r.slot) THEN ks ELSE Lookup(ks, r.slot, now)
  BY DEF ExecCheck
<1>4. Good(ks, ks) /\ Good(ks, Lookup(ks, r.slot, now))
  <2>1. ks \in KS /\ r.slot \in Slots
    BY <1>2 DEF TypeOK, Ref
  <2> QED BY <2>1, AdvRefl, LookupGood DEF Good
<1>5. Good(ks, ks')
  BY <1>3, <1>4
<1>6. \/ /\ ExecLeave(c)
         /\ watch' = [MarkAll(ks') EXCEPT ![c] = <<>>]
      \/ /\ ~ WatchDirty(ks, r, now)
         /\ chk' = [chk EXCEPT ![c] = @ + 1]
         /\ watch' = MarkAll(ks')
         /\ UNCHANGED <<phase, holder>>
  BY DEF ExecCheck
<1> QED BY <1>1, <1>2, <1>5, <1>6 DEF ExecCheck

\* The keyspace swap empties the database and changes nothing else.
LEMMA SwapType ==
  ASSUME NEW st \in KS, NEW d
  PROVE  LET s2 == swapKeyspace(st, d) IN
         /\ s2 \in KS
         /\ s2.tomb = st.tomb /\ s2.epoch = st.epoch
         /\ s2.heap = st.heap /\ s2.used = st.used
         /\ \A j \in Slots : s2.tab[j] = IF DBOf[j] = d THEN Absent ELSE st.tab[j]
<1> DEFINE tb == [j \in Slots |-> IF DBOf[j] = d THEN Absent ELSE st.tab[j]]
<1>1. tb \in [Slots -> Entry \cup {Absent}]
  BY DEF KS
<1>2. swapKeyspace(st, d) = [st EXCEPT !.tab = tb]
  BY DEF swapKeyspace
<1>3. \A j \in Slots : tb[j] = IF DBOf[j] = d THEN Absent ELSE st.tab[j]
  OBVIOUS
<1> HIDE DEF tb
<1> QED BY <1>1, <1>2, <1>3 DEF KS

\* A flush record names a database and a shard.
LEMMA FlushRecord ==
  ASSUME TypeOK, NEW c \in Conns, flush[c] # NoFlush
  PROVE  flush[c].db \in DBs /\ flush[c].next \in Shards
BY DEF TypeOK

\* The type invariant is inductive.
LEMMA TypeStep ==
  ASSUME TypeOK, [Next]_vars
  PROVE  TypeOK'
<1>1. CASE Quiet
  <2>1. watch' \in [Conns -> Seq(Ref)] /\ \A c \in Conns : Len(watch'[c]) = Len(watch[c])
    BY <1>1, MarkAllFacts DEF Quiet
  <2> QED BY <1>1, <2>1 DEF Quiet, Good, TypeOK
<1>2. CASE UNCHANGED <<ks, watch, phase, chk, flush, holder>> /\ now' \in Nat
  BY <1>2 DEF TypeOK
<1>3. ASSUME NEW c \in Conns, NEW k \in Slots, Watch(c, k)
      PROVE  TypeOK'
  <2> DEFINE r == [slot |-> k, epoch |-> EpochOf(ks', k), ver |-> Cur(ks', k),
                   touched |-> FALSE]
             m == MarkAll(ks')
  <2>1. /\ ks' \in KS /\ r \in Ref
        /\ watch' = [m EXCEPT ![c] = Append(m[c], r)]
        /\ phase[c] = "idle"
        /\ UNCHANGED <<now, phase, chk, flush, holder>>
    BY <1>3, WatchStep DEF Good
  <2>2. m \in [Conns -> Seq(Ref)] /\ \A x \in Conns : Len(m[x]) = Len(watch[x])
    BY MarkAllFacts
  <2> HIDE DEF m, r
  <2>3. Append(m[c], r) \in Seq(Ref)
    BY <2>1, <2>2
  <2>4. watch' \in [Conns -> Seq(Ref)]
    BY <2>1, <2>2, <2>3
  <2>5. \A x \in Conns : x # c => watch'[x] = m[x]
    BY <2>1, <2>2
  <2>6. \A x \in Conns : phase'[x] = "check" => chk'[x] \in 1..(Len(watch'[x]) + 1)
    BY <2>1, <2>2, <2>5 DEF TypeOK
  <2> QED BY <2>1, <2>4, <2>6 DEF TypeOK
<1>4. ASSUME NEW c \in Conns, ExecCheck(c)
      PROVE  TypeOK'
  <2> DEFINE m == MarkAll(ks')
  <2>1. m \in [Conns -> Seq(Ref)] /\ \A x \in Conns : Len(m[x]) = Len(watch[x])
    BY MarkAllFacts
  <2>2. ks' \in KS /\ now' = now /\ flush' = flush /\ phase[c] = "check"
          /\ chk[c] \in DOMAIN watch[c]
    BY <1>4, CheckStep DEF Good
  <2>3. CASE ExecLeave(c) /\ watch' = [m EXCEPT ![c] = <<>>]
    <3> HIDE DEF m
    <3>1. watch' \in [Conns -> Seq(Ref)]
            /\ \A x \in Conns : x # c => watch'[x] = m[x]
      BY <2>1, <2>3
    <3>2. /\ phase' \in [Conns -> {"idle", "check", "run", "eval"}]
          /\ chk' \in [Conns -> Nat]
          /\ holder' \in Conns \cup {NoConn}
          /\ phase'[c] = "idle"
          /\ \A x \in Conns : x # c => phase'[x] = phase[x] /\ chk'[x] = chk[x]
      BY <2>3 DEF ExecLeave, TypeOK
    <3>3. \A x \in Conns : phase'[x] = "check" => chk'[x] \in 1..(Len(watch'[x]) + 1)
      BY <2>1, <3>1, <3>2 DEF TypeOK
    <3> QED BY <2>2, <3>1, <3>2, <3>3 DEF TypeOK
  <2>4. CASE /\ chk' = [chk EXCEPT ![c] = chk[c] + 1]
             /\ watch' = m
             /\ UNCHANGED <<phase, holder>>
    <3> HIDE DEF m
    <3>1. chk[c] \in 1..Len(watch[c])
      BY <2>2 DEF TypeOK
    <3>2. chk' \in [Conns -> Nat]
      BY <2>4, <3>1 DEF TypeOK
    <3>3. \A x \in Conns : phase'[x] = "check" => chk'[x] \in 1..(Len(watch'[x]) + 1)
      BY <2>1, <2>4, <3>1 DEF TypeOK
    <3> QED BY <2>1, <2>2, <2>4, <3>2, <3>3 DEF TypeOK
  <2> QED BY <1>4, <2>3, <2>4, CheckStep
<1>5. ASSUME NEW c \in Conns, Unwatch(c) \/ ExecEnd(c)
      PROVE  TypeOK'
  <2>1. watch' \in [Conns -> Seq(Ref)] /\ \A x \in Conns : x # c => watch'[x] = watch[x]
    <3>1. watch' = [watch EXCEPT ![c] = <<>>]
      BY <1>5 DEF Unwatch, ExecEnd
    <3>2. watch \in [Conns -> Seq(Ref)] /\ <<>> \in Seq(Ref)
      BY DEF TypeOK
    <3> QED BY <3>1, <3>2
  <2>2. /\ phase' \in [Conns -> {"idle", "check", "run", "eval"}]
        /\ chk' \in [Conns -> Nat]
        /\ holder' \in Conns \cup {NoConn}
        /\ phase'[c] = "idle"
        /\ \A x \in Conns : x # c => phase'[x] = phase[x] /\ chk'[x] = chk[x]
    BY <1>5 DEF Unwatch, ExecEnd, ExecLeave, TypeOK
  <2>3. \A x \in Conns : phase'[x] = "check" => chk'[x] \in 1..(Len(watch'[x]) + 1)
    BY <2>1, <2>2 DEF TypeOK
  <2>4. UNCHANGED <<ks, now, flush>>
    BY <1>5 DEF Unwatch, ExecEnd
  <2> QED BY <2>1, <2>2, <2>3, <2>4 DEF TypeOK
<1>6. ASSUME NEW c \in Conns, ExecPause(c)
      PROVE  TypeOK'
  <2>1. Len(watch[c]) \in Nat
    BY DEF TypeOK
  <2>2. 1 \in 1..(Len(watch[c]) + 1)
    BY <2>1
  <2> QED BY <1>6, <2>2 DEF ExecPause, TypeOK
<1>7. ASSUME NEW c \in Conns, ExecCommit(c) \/ Eval(c) \/ EvalEnd(c)
      PROVE  TypeOK'
  BY <1>7 DEF ExecCommit, Eval, EvalEnd, TypeOK
<1>8. ASSUME NEW c \in Conns, FlushShard(c)
      PROVE  TypeOK'
  <2> DEFINE s == flush[c].next
             d == flush[c].db
  <2>1. s \in Shards /\ d \in DBs
    BY <1>8, FlushRecord DEF FlushShard
  <2>2. ks' = flushDB(ks, s, d) /\ watch' = MarkAll(ks')
    BY <1>8 DEF FlushShard, Apply
  <2>3. ks' \in KS
    BY <2>1, <2>2, FlushDBGood DEF Good, TypeOK
  <2>4. watch' \in [Conns -> Seq(Ref)] /\ \A x \in Conns : Len(watch'[x]) = Len(watch[x])
    BY <2>2, MarkAllFacts
  <2>5. s # NShards => s + 1 \in Shards
    BY <2>1, ConstAssumption DEF Shards
  <2>6. flush' \in [Conns -> {NoFlush} \cup [db: DBs, next: Shards]]
    BY <1>8, <2>1, <2>5 DEF FlushShard, TypeOK
  <2>7. UNCHANGED <<now, phase, chk, holder>>
    BY <1>8 DEF FlushShard
  <2> QED BY <2>3, <2>4, <2>6, <2>7 DEF TypeOK
<1>9. ASSUME NEW c \in Conns, NEW d \in DBs, FlushSwap(c, d)
      PROVE  TypeOK'
  <2>1. ks' = swapKeyspace(ks, d) /\ watch' = MarkAll(ks')
    BY <1>9 DEF FlushSwap, Apply
  <2>2. ks' \in KS
    BY <2>1, SwapType DEF TypeOK
  <2>3. watch' \in [Conns -> Seq(Ref)] /\ \A x \in Conns : Len(watch'[x]) = Len(watch[x])
    BY <2>1, MarkAllFacts
  <2>4. 1 \in Shards
    BY ConstAssumption DEF Shards
  <2>5. flush' \in [Conns -> {NoFlush} \cup [db: DBs, next: Shards]]
    BY <1>9, <2>4 DEF FlushSwap, TypeOK
  <2>6. UNCHANGED <<now, phase, chk, holder>>
    BY <1>9 DEF FlushSwap
  <2> QED BY <2>2, <2>3, <2>5, <2>6 DEF TypeOK
<1> QED BY <1>1, <1>2, <1>3, <1>4, <1>5, <1>6, <1>7, <1>8, <1>9, NextCases

\* Type correctness: versions and epochs stay natural numbers, entries keep a
\* positive version, and EXEC's check loop stays on its references.
THEOREM TypeCorrect == Spec => []TypeOK
<1>1. Init => TypeOK
  <2> SUFFICES ASSUME Init PROVE TypeOK
    OBVIOUS
  <2>1. ks \in KS
    <3> DEFINE ta == [k \in Slots |-> Absent]
               tb == [k \in Slots |-> 0]
               ep == [s \in Shards |-> [d \in DBs |-> 0]]
    <3>1. ta \in [Slots -> Entry \cup {Absent}] /\ tb \in [Slots -> Nat]
      OBVIOUS
    <3>2. ep \in [Shards -> [DBs -> Nat]] /\ ep \in [Shards -> [DBs -> Int]]
      OBVIOUS
    <3>3. ks = [tab |-> ta, tomb |-> tb, epoch |-> ep, heap |-> {}, used |-> ep]
      BY DEF Init
    <3> HIDE DEF ta, tb, ep
    <3> QED BY <3>1, <3>2, <3>3 DEF KS
  <2>2. now \in Nat /\ watch \in [Conns -> Seq(Ref)]
    BY DEF Init
  <2> QED BY <2>1, <2>2 DEF Init, TypeOK
<1> QED BY <1>1, TypeStep, PTL DEF Spec

-----------------------------------------------------------------------------
(* WATCH misses no change.                                                  *)

\* No step takes a slot back: its epoch and, under the same epoch, its version
\* only grow, the version strictly with the content, unless a flush is pending;
\* and a flush stops pending only by raising the epoch.
Forward ==
  \A j \in Slots :
    /\ EpochOf(ks, j) <= EpochOf(ks', j)
    /\ FlushPending(j) /\ ~ FlushPending(j)' => EpochOf(ks, j) < EpochOf(ks', j)
    /\ EpochOf(ks, j) = EpochOf(ks', j) /\ ~ FlushPending(j)' =>
         /\ Cur(ks, j) <= Cur(ks', j)
         /\ Content(ks, j) # Content(ks', j) => Cur(ks, j) < Cur(ks', j)

\* A good step that leaves the flushes alone goes forward.
LEMMA GoodForward ==
  ASSUME Good(ks, ks'), flush' = flush
  PROVE  Forward
<1>1. \A j \in Slots : FlushPending(j)' = FlushPending(j)
  BY DEF FlushPending, PendingBy
<1>2. Adv(ks, ks')
  BY DEF Good
<1> QED BY <1>1, <1>2 DEF Adv, Forward

\* So does every step that leaves the keyspace and the flushes alone.
LEMMA StillForward ==
  ASSUME TypeOK, ks' = ks, flush' = flush
  PROVE  Forward
<1>1. ks \in KS
  BY DEF TypeOK
<1>2. Good(ks, ks')
  BY <1>1, AdvRefl DEF Good
<1> QED BY <1>2, GoodForward

\* Every step of the specification goes forward.
LEMMA StepForward ==
  ASSUME TypeOK, [Next]_vars
  PROVE  Forward
<1> USE DEF Good
<1>1. CASE Quiet
  BY <1>1, GoodForward DEF Quiet
<1>2. CASE UNCHANGED <<ks, watch, phase, chk, flush, holder>>
  BY <1>2, StillForward
<1>3. ASSUME NEW c \in Conns, NEW k \in Slots, Watch(c, k)
      PROVE  Forward
  BY <1>3, WatchStep, GoodForward
<1>4. ASSUME NEW c \in Conns, ExecCheck(c)
      PROVE  Forward
  BY <1>4, CheckStep, GoodForward
<1>5. ASSUME NEW c \in Conns,
             Unwatch(c) \/ ExecEnd(c) \/ ExecPause(c) \/ ExecCommit(c) \/ Eval(c) \/ EvalEnd(c)
      PROVE  Forward
  BY <1>5, StillForward DEF Unwatch, ExecEnd, ExecPause, ExecCommit, Eval, EvalEnd
<1>6. ASSUME NEW c \in Conns, FlushShard(c)
      PROVE  Forward
  <2> DEFINE s == flush[c].next
             d == flush[c].db
  <2>1. s \in Shards /\ d \in DBs
    BY <1>6, FlushRecord DEF FlushShard
  <2>2. ks' = flushDB(ks, s, d) /\ ks \in KS
    BY <1>6 DEF FlushShard, Apply, TypeOK
  <2>3. /\ Adv(ks, ks')
        /\ \A j \in Slots : ShardOf[j] = s /\ DBOf[j] = d =>
                              EpochOf(ks, j) < EpochOf(ks', j)
    BY <2>1, <2>2, FlushDBGood
  <2>4. flush' = [flush EXCEPT ![c] = IF s = NShards THEN NoFlush
                                      ELSE [db |-> d, next |-> s + 1]]
    BY <1>6 DEF FlushShard
  <2>5. ASSUME NEW j \in Slots, FlushPending(j), ~ FlushPending(j)'
        PROVE  ShardOf[j] = s /\ DBOf[j] = d
    <3>1. PICK x \in Conns : PendingBy(x, j)
      BY <2>5 DEF FlushPending
    <3>2. ~ PendingBy(x, j)'
      BY <2>5 DEF FlushPending
    <3>3. x = c
      BY <2>4, <3>1, <3>2 DEF PendingBy, TypeOK
    <3>4. d = DBOf[j] /\ s <= ShardOf[j]
      BY <3>1, <3>3 DEF PendingBy
    <3>5. ShardOf[j] \in 1..NShards /\ s \in 1..NShards /\ NShards \in Nat
      BY <2>1, ConstAssumption DEF Shards
    <3>6. CASE s = NShards
      BY <3>4, <3>5, <3>6
    <3>7. CASE s # NShards
      <4>1. flush'[c] = [db |-> d, next |-> s + 1] /\ flush'[c] # NoFlush
        <5>1. flush'[c] = [db |-> d, next |-> s + 1]
          BY <2>4, <3>7 DEF TypeOK
        <5>2. d # NoConn
          BY <2>1, ConstAssumption
        <5> QED BY <5>1, <5>2 DEF NoFlush
      <4>2. flush'[c].db = d /\ flush'[c].next = s + 1
        BY <4>1
      <4>3. ~ (s + 1 <= ShardOf[j])
        BY <3>2, <3>3, <3>4, <4>1, <4>2 DEF PendingBy
      <4> QED BY <3>4, <3>5, <4>3
    <3> QED BY <3>6, <3>7
  <2> QED BY <2>3, <2>5 DEF Adv, Forward
<1>7. ASSUME NEW c \in Conns, NEW d \in DBs, FlushSwap(c, d)
      PROVE  Forward
  <2>1. ks' = swapKeyspace(ks, d) /\ ks \in KS
    BY <1>7 DEF FlushSwap, Apply, TypeOK
  <2>2. /\ ks' \in KS /\ ks'.tomb = ks.tomb /\ ks'.epoch = ks.epoch
        /\ \A j \in Slots : DBOf[j] # d => ks'.tab[j] = ks.tab[j]
    BY <2>1, SwapType
  <2>3. flush[c] = NoFlush /\ flush' = [flush EXCEPT ![c] = [db |-> d, next |-> 1]]
    BY <1>7 DEF FlushSwap, Ready
  <2>4. flush'[c] = [db |-> d, next |-> 1] /\ flush'[c] # NoFlush
    <3>1. d # NoConn
      BY ConstAssumption
    <3>2. flush'[c] = [db |-> d, next |-> 1]
      BY <2>3 DEF TypeOK
    <3> QED BY <3>1, <3>2 DEF NoFlush
  <2>5. ASSUME NEW j \in Slots
        PROVE  /\ FlushPending(j) => FlushPending(j)'
               /\ DBOf[j] = d => FlushPending(j)'
    <3>1. FlushPending(j) => FlushPending(j)'
      <4> SUFFICES ASSUME FlushPending(j) PROVE FlushPending(j)'
        OBVIOUS
      <4>1. PICK x \in Conns : PendingBy(x, j)
        BY DEF FlushPending
      <4>2. x # c
        BY <2>3, <4>1 DEF PendingBy
      <4>3. PendingBy(x, j)'
        BY <2>3, <4>1, <4>2 DEF PendingBy, TypeOK
      <4> QED BY <4>3 DEF FlushPending
    <3>2. DBOf[j] = d => PendingBy(c, j)'
      <4>1. 1 <= ShardOf[j]
        BY ConstAssumption DEF Shards
      <4> QED BY <2>4, <4>1 DEF PendingBy
    <3> QED BY <3>1, <3>2 DEF FlushPending
  <2>6. ASSUME NEW j \in Slots
        PROVE  /\ EpochOf(ks, j) = EpochOf(ks', j)
               /\ EpochOf(ks, j) \in Nat /\ Cur(ks, j) \in Nat
               /\ DBOf[j] # d => Cur(ks, j) = Cur(ks', j) /\ Content(ks, j) = Content(ks', j)
    <3>1. EpochOf(ks, j) = EpochOf(ks', j)
      BY <2>2 DEF EpochOf
    <3>2. DBOf[j] # d => Cur(ks, j) = Cur(ks', j) /\ Content(ks, j) = Content(ks', j)
      BY <2>2 DEF Cur, Content, Live
    <3> QED BY <2>1, <3>1, <3>2, CurNat
  <2> QED BY <2>5, <2>6 DEF Forward
<1> QED BY <1>1, <1>2, <1>3, <1>4, <1>5, <1>6, <1>7, NextCases

\* The i-th reference of c is the one it was, newly touched only by a change
\* of content outside EXEC.
Kept(c, i) ==
  /\ i \in DOMAIN watch[c]
  /\ watch'[c][i].slot = watch[c][i].slot
  /\ watch'[c][i].epoch = watch[c][i].epoch
  /\ watch'[c][i].ver = watch[c][i].ver
  /\ watch'[c][i].touched =>
       \/ watch[c][i].touched
       \/ /\ phase[c] \in {"idle", "eval"}
          /\ Content(ks, watch[c][i].slot) # Content(ks', watch[c][i].slot)

\* The i-th reference of c is one that WATCH has just sampled.
Fresh(c, i) ==
  /\ phase[c] = "idle" /\ phase' = phase
  /\ \E k \in Slots :
       watch'[c][i] = [slot |-> k, epoch |-> EpochOf(ks', k), ver |-> Cur(ks', k),
                       touched |-> FALSE]

\* A reference is marked, or not at all changed: kept in both cases.
LEMMA KeptCases ==
  ASSUME TypeOK, NEW c \in Conns, NEW i \in DOMAIN watch'[c],
         watch'[c] = MarkAll(ks')[c] \/ watch'[c] = watch[c]
  PROVE  Kept(c, i)
<1>1. CASE watch'[c] = MarkAll(ks')[c]
  BY <1>1, MarkAllFacts DEF Kept
<1>2. CASE watch'[c] = watch[c]
  BY <1>2 DEF Kept
<1> QED BY <1>1, <1>2

\* Every reference after a step was there before, or is freshly sampled.
LEMMA StepRefs ==
  ASSUME TypeOK, [Next]_vars, NEW c \in Conns, NEW i \in DOMAIN watch'[c]
  PROVE  Kept(c, i) \/ Fresh(c, i)
<1>1. CASE watch'[c] = MarkAll(ks')[c] \/ watch'[c] = watch[c]
  BY <1>1, KeptCases
<1>2. CASE watch'[c] = <<>>
  BY <1>2
<1>3. ASSUME NEW x \in Conns, NEW k \in Slots, Watch(x, k)
      PROVE  Kept(c, i) \/ Fresh(c, i)
  <2> DEFINE r == [slot |-> k, epoch |-> EpochOf(ks', k), ver |-> Cur(ks', k),
                   touched |-> FALSE]
             m == MarkAll(ks')
  <2>1. /\ watch' = [m EXCEPT ![x] = Append(m[x], r)]
        /\ phase[x] = "idle" /\ phase' = phase
    BY <1>3, WatchStep
  <2>2. m \in [Conns -> Seq(Ref)]
    BY MarkAllFacts
  <2>3. CASE c # x
    <3>1. watch'[c] = m[c]
      BY <2>1, <2>2, <2>3
    <3> QED BY <1>1, <3>1
  <2>4. CASE c = x
    <3> HIDE DEF m, r
    <3>1. watch'[c] = Append(m[c], r) /\ m[c] \in Seq(Ref)
      BY <2>1, <2>2, <2>4
    <3>2. /\ i \in 1..(Len(m[c]) + 1)
          /\ i \in 1..Len(m[c]) => watch'[c][i] = m[c][i]
          /\ i = Len(m[c]) + 1 => watch'[c][i] = r
      BY <3>1
    <3>3. CASE i = Len(m[c]) + 1
      BY <2>1, <2>4, <3>2, <3>3 DEF Fresh, r
    <3>4. CASE i \in 1..Len(m[c])
      <4>1. watch'[c][i] = m[c][i] /\ i \in DOMAIN m[c]
        BY <3>1, <3>2, <3>4
      <4> QED BY <4>1, MarkAllFacts DEF Kept, m
    <3> QED BY <3>1, <3>2, <3>3, <3>4
  <2> QED BY <2>3, <2>4
<1>4. ASSUME NEW x \in Conns, ExecCheck(x)
      PROVE  Kept(c, i) \/ Fresh(c, i)
  <2> DEFINE m == MarkAll(ks')
  <2>1. watch' = m \/ watch' = [m EXCEPT ![x] = <<>>]
    BY <1>4, CheckStep
  <2>2. m \in [Conns -> Seq(Ref)]
    BY MarkAllFacts
  <2> HIDE DEF m
  <2>3. watch'[c] = m[c] \/ watch'[c] = <<>>
    BY <2>1, <2>2
  <2> QED BY <1>1, <1>2, <2>3 DEF m
<1>5. ASSUME NEW x \in Conns, Unwatch(x) \/ ExecEnd(x)
      PROVE  Kept(c, i) \/ Fresh(c, i)
  <2>1. watch' = [watch EXCEPT ![x] = <<>>]
    BY <1>5 DEF Unwatch, ExecEnd
  <2>2. watch'[c] = watch[c] \/ watch'[c] = <<>>
    BY <2>1 DEF TypeOK
  <2> QED BY <1>1, <1>2, <2>2
<1>6. ASSUME NEW x \in Conns, ExecPause(x) \/ ExecCommit(x) \/ Eval(x) \/ EvalEnd(x)
      PROVE  Kept(c, i) \/ Fresh(c, i)
  BY <1>1, <1>6 DEF ExecPause, ExecCommit, Eval, EvalEnd
<1>7. ASSUME NEW x \in Conns, FlushShard(x) \/ \E d \in DBs : FlushSwap(x, d)
      PROVE  Kept(c, i) \/ Fresh(c, i)
  BY <1>1, <1>7 DEF FlushShard, FlushSwap, Apply
<1>8. CASE Quiet
  BY <1>1, <1>8 DEF Quiet
<1>9. CASE UNCHANGED <<ks, watch, phase, chk, flush, holder>>
  BY <1>1, <1>9
<1> QED BY <1>3, <1>4, <1>5, <1>6, <1>7, <1>8, <1>9, NextCases

\* The references stay behind their slots.
LEMMA RefStep ==
  ASSUME TypeOK, TypeOK', RefInv, [Next]_vars
  PROVE  RefInv'
<1> SUFFICES ASSUME NEW c \in Conns, NEW i \in DOMAIN watch'[c]
             PROVE  RefOK(watch[c][i])'
  BY DEF RefInv
<1>1. watch'[c][i] \in Ref
  <2>1. watch'[c] \in Seq(Ref)
    BY DEF TypeOK
  <2> QED BY <2>1
<1>2. PICK r2 \in Ref : r2 = watch'[c][i]
  BY <1>1
<1>3. r2.slot \in Slots /\ r2.epoch \in Nat /\ r2.ver \in Nat /\ r2.touched \in BOOLEAN
  BY <1>2 DEF Ref
<1> DEFINE j == r2.slot
<1>4. /\ EpochOf(ks, j) \in Nat /\ EpochOf(ks', j) \in Nat
      /\ Cur(ks, j) \in Nat /\ Cur(ks', j) \in Nat
  BY <1>3, CurNat DEF TypeOK
<1>5. /\ EpochOf(ks, j) <= EpochOf(ks', j)
      /\ FlushPending(j) /\ ~ FlushPending(j)' => EpochOf(ks, j) < EpochOf(ks', j)
      /\ EpochOf(ks, j) = EpochOf(ks', j) /\ ~ FlushPending(j)' =>
           /\ Cur(ks, j) <= Cur(ks', j)
           /\ Content(ks, j) # Content(ks', j) => Cur(ks, j) < Cur(ks', j)
  BY <1>3, StepForward DEF Forward
<1>6. SUFFICES /\ r2.epoch <= EpochOf(ks', j)
               /\ ~ FlushPending(j)' /\ r2.epoch = EpochOf(ks', j) =>
                    /\ r2.ver <= Cur(ks', j)
                    /\ r2.touched => r2.ver < Cur(ks', j)
  BY <1>2 DEF RefOK, FlushPending, PendingBy, EpochOf, Cur, Live
<1>7. CASE Kept(c, i)
  <2> DEFINE r == watch[c][i]
  <2>1. /\ r.epoch <= EpochOf(ks, r.slot)
        /\ ~ FlushPending(r.slot) /\ r.epoch = EpochOf(ks, r.slot) =>
             /\ r.ver <= Cur(ks, r.slot)
             /\ r.touched => r.ver < Cur(ks, r.slot)
    BY <1>7 DEF Kept, RefInv, RefOK
  <2>2. /\ r.slot = j /\ r.epoch = r2.epoch /\ r.ver = r2.ver
        /\ r2.touched => r.touched \/ Content(ks, j) # Content(ks', j)
    BY <1>2, <1>7 DEF Kept
  <2> HIDE DEF r
  <2>3. /\ r2.epoch <= EpochOf(ks, j)
        /\ ~ FlushPending(j) /\ r2.epoch = EpochOf(ks, j) =>
             /\ r2.ver <= Cur(ks, j)
             /\ r.touched => r2.ver < Cur(ks, j)
    BY <2>1, <2>2
  <2> HIDE DEF j
  <2>4. r2.epoch <= EpochOf(ks', j)
    BY <1>3, <1>4, <1>5, <2>3
  <2>5. ASSUME ~ FlushPending(j)', r2.epoch = EpochOf(ks', j)
        PROVE  ~ FlushPending(j) /\ EpochOf(ks, j) = EpochOf(ks', j) /\ r2.epoch = EpochOf(ks, j)
    BY <1>3, <1>4, <1>5, <2>3, <2>5
  <2>6. ASSUME ~ FlushPending(j)', r2.epoch = EpochOf(ks', j)
        PROVE  /\ r2.ver <= Cur(ks', j)
               /\ r2.touched => r2.ver < Cur(ks', j)
    BY <1>3, <1>4, <1>5, <2>2, <2>3, <2>5, <2>6
  <2> QED BY <2>4, <2>6
<1>8. CASE Fresh(c, i)
  <2>1. PICK k \in Slots :
          r2 = [slot |-> k, epoch |-> EpochOf(ks', k), ver |-> Cur(ks', k),
                touched |-> FALSE]
    BY <1>2, <1>8 DEF Fresh
  <2>2. r2.slot = k /\ r2.epoch = EpochOf(ks', k) /\ r2.ver = Cur(ks', k)
          /\ r2.touched = FALSE
    BY <2>1
  <2> QED BY <1>4, <2>2
<1> QED BY <1>7, <1>8, StepRefs

\* An expiry that the dirty check itself performs raises the slot's version.
LEMMA LookupCur ==
  ASSUME NEW st \in KS, NEW k \in Slots, NEW t
  PROVE  Cur(st, k) <= Cur(Lookup(st, k, t), k)
<1>1. Cur(st, k) \in Nat
  BY CurNat
<1>2. CASE Live(st, k) /\ Due(st.tab[k], t)
  <2> DEFINE n == st.tab[k].ver
             q == Remove(st, k)
  <2>1. n \in Nat /\ Cur(st, k) = n
    BY <1>2 DEF Live, Cur, KS, Entry
  <2>2. q.tab = [st.tab EXCEPT ![k] = Absent] /\ q.tomb[k] = n + 1
    <3>1. q.tab = [st.tab EXCEPT ![k] = Absent] /\ q.tomb = tombstone(st, k, n).tomb
      BY <1>2, RemoveType
    <3>2. tombstone(st, k, n).tomb[k] = n + 1
      BY <2>1, TombstoneEffect
    <3> QED BY <3>1, <3>2
  <2>3. Lookup(st, k, t) = q
    BY <1>2 DEF Lookup
  <2> HIDE DEF n, q
  <2>4. Cur(q, k) = n + 1
    BY <2>2 DEF Cur, Live, KS
  <2> QED BY <2>1, <2>3, <2>4
<1>3. CASE ~ (Live(st, k) /\ Due(st.tab[k], t))
  BY <1>1, <1>3 DEF Lookup
<1> QED BY <1>2, <1>3

\* The reference invariant is what the dirty check needs.
LEMMA RefInvSound ==
  ASSUME TypeOK, RefInv
  PROVE  WatchSound
<1> SUFFICES ASSUME NEW c \in Conns, NEW i \in DOMAIN watch[c],
                    watch[c][i].touched, ~ FlushPending(watch[c][i].slot)
             PROVE  WatchDirty(ks, watch[c][i], now)
  BY DEF WatchSound
<1> DEFINE r == watch[c][i]
           j == r.slot
<1>1. r \in Ref
  <2>1. watch[c] \in Seq(Ref)
    BY DEF TypeOK
  <2> QED BY <2>1
<1>2. ks \in KS /\ j \in Slots /\ r.ver \in Nat
  BY <1>1 DEF TypeOK, Ref
<1>3. Lookup(ks, j, now) \in KS
  BY <1>2, LookupGood DEF Good
<1>4. Cur(ks, j) \in Nat /\ Cur(Lookup(ks, j, now), j) \in Nat
  BY <1>2, <1>3, CurNat
<1>5. Cur(ks, j) <= Cur(Lookup(ks, j, now), j)
  BY <1>2, LookupCur
<1>6. r.epoch = EpochOf(ks, j) => r.ver < Cur(ks, j)
  BY DEF RefInv, RefOK
<1> HIDE DEF r
<1>7. r.epoch = EpochOf(ks, j) => Cur(Lookup(ks, j, now), j) # r.ver
  BY <1>2, <1>4, <1>5, <1>6
<1> QED BY <1>7 DEF WatchDirty, r

\* WATCH misses no change, whatever the number of connections, shards, keys,
\* databases and tombstones: Store, Touch, Delete, expiry, eviction, tombstone
\* overflow and flushDB all leave the sampled version or the epoch behind.
THEOREM WatchIsSound == Spec => []WatchSound
<1>1. Init => RefInv
  BY DEF Init, RefInv
<1> QED BY <1>1, TypeCorrect, RefStep, RefInvSound, PTL DEF Spec

-----------------------------------------------------------------------------
(* EXEC never commits over a change.                                        *)

\* While c holds the pause, no other connection's flush reaches a shard.
LEMMA PendingStays ==
  ASSUME TypeOK, [Next]_vars, NEW c \in Conns, NEW k \in Slots,
         holder = c, OtherPending(c, k)
  PROVE  OtherPending(c, k)'
<1>1. PICK d \in Conns \ {c} : PendingBy(d, k)
  BY DEF OtherPending
<1>2. SUFFICES flush'[d] = flush[d]
  BY <1>1 DEF OtherPending, PendingBy
<1>3. CASE flush' = flush
  BY <1>3
<1>4. ASSUME NEW x \in Conns, FlushShard(x)
      PROVE  flush'[d] = flush[d]
  <2>1. x = c
    BY <1>4, ConstAssumption DEF FlushShard, Free
  <2> QED BY <1>1, <1>4, <2>1 DEF FlushShard, TypeOK
<1>5. ASSUME NEW x \in Conns, NEW b \in DBs, FlushSwap(x, b)
      PROVE  flush'[d] = flush[d]
  <2>1. x # d
    BY <1>1, <1>5 DEF FlushSwap, Ready, PendingBy
  <2> QED BY <1>5, <2>1 DEF FlushSwap, TypeOK
<1>6. CASE Quiet
  BY <1>3, <1>6 DEF Quiet
<1>7. ASSUME NEW x \in Conns,
             \/ \E q \in Slots : Watch(x, q)
             \/ Unwatch(x) \/ ExecPause(x) \/ ExecCheck(x) \/ ExecCommit(x)
             \/ ExecEnd(x) \/ Eval(x) \/ EvalEnd(x)
      PROVE  flush'[d] = flush[d]
  BY <1>7 DEF Watch, Unwatch, ExecPause, ExecCheck, ExecCommit, ExecEnd, Eval, EvalEnd
<1> QED BY <1>3, <1>4, <1>5, <1>6, <1>7, NextCases

\* The pause: only its holder is inside EXEC or EVAL.
HoldInv == \A c \in Conns : phase[c] # "idle" => holder = c

\* Whoever pauses finds nobody inside; whoever leaves is the holder.
LEMMA HoldStep ==
  ASSUME TypeOK, HoldInv, [Next]_vars
  PROVE  HoldInv'
<1> SUFFICES ASSUME NEW c \in Conns, phase'[c] # "idle"
             PROVE  holder' = c
  BY DEF HoldInv
<1>1. CASE phase' = phase /\ holder' = holder
  BY <1>1 DEF HoldInv
<1>2. ASSUME NEW x \in Conns, ExecPause(x) \/ Eval(x)
      PROVE  holder' = c
  <2>1. holder = NoConn /\ holder' = x
    BY <1>2 DEF ExecPause, Eval
  <2>2. \A y \in Conns : phase[y] = "idle"
    BY <2>1, ConstAssumption DEF HoldInv
  <2>3. c = x
    BY <1>2, <2>2 DEF ExecPause, Eval, TypeOK
  <2> QED BY <2>1, <2>3
<1>3. ASSUME NEW x \in Conns, phase[x] # "idle",
             phase' = [phase EXCEPT ![x] = "idle"]
      PROVE  FALSE
  BY <1>3 DEF HoldInv, TypeOK
<1>4. ASSUME NEW x \in Conns, ExecCheck(x)
      PROVE  holder' = c
  <2>1. phase[x] = "check" /\ (ExecLeave(x) \/ UNCHANGED <<phase, holder>>)
    BY <1>4, CheckStep
  <2>2. CASE ExecLeave(x)
    BY <1>3, <2>1, <2>2 DEF ExecLeave
  <2>3. CASE UNCHANGED <<phase, holder>>
    BY <1>1, <2>3
  <2> QED BY <2>1, <2>2, <2>3
<1>5. ASSUME NEW x \in Conns, ExecEnd(x) \/ EvalEnd(x)
      PROVE  holder' = c
  BY <1>3, <1>5 DEF ExecEnd, EvalEnd, ExecLeave
<1>6. ASSUME NEW x \in Conns, ExecCommit(x)
      PROVE  holder' = c
  <2>1. phase[c] # "idle" /\ holder' = holder
    BY <1>6 DEF ExecCommit, TypeOK
  <2> QED BY <2>1 DEF HoldInv
<1>7. ASSUME NEW x \in Conns,
             \/ \E k \in Slots : Watch(x, k)
             \/ Unwatch(x) \/ FlushShard(x)
             \/ \E d \in DBs : FlushSwap(x, d)
      PROVE  holder' = c
  BY <1>1, <1>7 DEF Watch, Unwatch, FlushShard, FlushSwap
<1>8. CASE Quiet
  BY <1>1, <1>8 DEF Quiet
<1> QED BY <1>1, <1>2, <1>4, <1>5, <1>6, <1>7, <1>8, NextCases

\* The references EXEC has passed were untouched, or touched under another
\* connection's FLUSHDB; EXEC's own connection has no FLUSHDB under way.
Passed(c, i) ==
  \/ phase[c] = "run"
  \/ phase[c] = "check" /\ i < chk[c]

ExecInv ==
  \A c \in Conns :
    /\ phase[c] = "check" => flush[c] = NoFlush
    /\ \A i \in DOMAIN watch[c] :
         Passed(c, i) /\ watch[c][i].touched => OtherPending(c, watch[c][i].slot)

\* The index of a reference is a positive number.
LEMMA IndexNat ==
  ASSUME TypeOK', NEW c \in Conns, NEW i \in DOMAIN watch'[c]
  PROVE  i \in Nat \ {0}
<1>1. watch'[c] \in Seq(Ref)
  BY DEF TypeOK
<1>2. DOMAIN watch'[c] = 1..Len(watch'[c]) /\ Len(watch'[c]) \in Nat
  BY <1>1
<1> QED BY <1>2

\* A reference that was passed before the step is still accounted for.
LEMMA PassedStays ==
  ASSUME TypeOK, HoldInv, ExecInv, [Next]_vars,
         NEW c \in Conns, NEW i \in DOMAIN watch'[c],
         Passed(c, i), watch'[c][i].touched
  PROVE  OtherPending(c, watch[c][i].slot)'
<1>1. phase[c] \notin {"idle", "eval"} /\ holder = c
  BY DEF Passed, HoldInv
<1>2. Kept(c, i)
  BY <1>1, StepRefs DEF Fresh
<1>3. watch[c][i].touched /\ watch'[c][i].slot = watch[c][i].slot
        /\ i \in DOMAIN watch[c]
  BY <1>1, <1>2 DEF Kept
<1>4. watch[c][i] \in Ref
  <2>1. watch[c] \in Seq(Ref)
    BY DEF TypeOK
  <2> QED BY <1>3, <2>1
<1>5. PICK k \in Slots : k = watch[c][i].slot
  BY <1>4 DEF Ref
<1>6. OtherPending(c, k)
  BY <1>3, <1>5 DEF ExecInv
<1>7. OtherPending(c, k)'
  BY <1>1, <1>6, PendingStays
<1> QED BY <1>3, <1>5, <1>7 DEF OtherPending, PendingBy

\* EXEC's progress keeps the invariant: a clean check of a touched reference
\* means that a flush is pending, and not this connection's.
LEMMA ExecStep ==
  ASSUME TypeOK, TypeOK', HoldInv, ExecInv, WatchSound, [Next]_vars
  PROVE  ExecInv'
<1>1. ASSUME NEW c \in Conns, phase'[c] = "check"
      PROVE  flush'[c] = NoFlush
  <2>1. CASE phase[c] = "check" /\ flush'[c] = flush[c]
    BY <2>1 DEF ExecInv
  <2>2. ASSUME NEW x \in Conns, NEW d \in DBs, FlushSwap(x, d)
        PROVE  flush'[c] = NoFlush
    BY <1>1, <2>1, <2>2 DEF FlushSwap, Ready, TypeOK
  <2>3. ASSUME NEW x \in Conns, FlushShard(x)
        PROVE  flush'[c] = NoFlush
    <3>1. phase[c] = "check" /\ flush[c] = NoFlush
      BY <1>1, <2>3 DEF FlushShard, ExecInv
    <3>2. x # c
      BY <2>3, <3>1 DEF FlushShard
    <3> QED BY <2>3, <3>1, <3>2 DEF FlushShard, TypeOK
  <2>4. ASSUME NEW x \in Conns, ExecCheck(x)
        PROVE  flush'[c] = NoFlush
    <3>1. flush' = flush /\ (ExecLeave(x) \/ phase' = phase)
      BY <2>4, CheckStep
    <3>2. phase[c] = "check"
      BY <1>1, <3>1 DEF ExecLeave, TypeOK
    <3> QED BY <2>1, <3>1, <3>2
  <2>5. ASSUME NEW x \in Conns,
               \/ Unwatch(x) \/ ExecPause(x) \/ ExecCommit(x)
               \/ ExecEnd(x) \/ Eval(x) \/ EvalEnd(x)
        PROVE  flush'[c] = NoFlush
    BY <1>1, <2>1, <2>5
       DEF Unwatch, ExecPause, ExecCommit, ExecEnd, ExecLeave, Eval, EvalEnd, TypeOK
  <2>6. ASSUME NEW x \in Conns, NEW k \in Slots, Watch(x, k)
        PROVE  flush'[c] = NoFlush
    BY <1>1, <2>1, <2>6 DEF Watch
  <2>7. CASE Quiet
    BY <1>1, <2>1, <2>7 DEF Quiet
  <2>8. CASE UNCHANGED <<ks, watch, phase, chk, flush, holder>>
    BY <1>1, <2>1, <2>8
  <2> QED BY <2>2, <2>3, <2>4, <2>5, <2>6, <2>7, <2>8, NextCases
<1>2. ASSUME NEW c \in Conns, NEW i \in DOMAIN watch'[c],
             Passed(c, i)', watch'[c][i].touched
      PROVE  OtherPending(c, watch[c][i].slot)'
  <2>1. CASE Passed(c, i)
    BY <1>2, <2>1, PassedStays
  <2>2. CASE phase'[c] = phase[c] /\ chk'[c] = chk[c]
    BY <1>2, <2>1, <2>2 DEF Passed
  <2>3. ASSUME NEW x \in Conns, ExecPause(x)
        PROVE  OtherPending(c, watch[c][i].slot)'
    <3>1. x # c
      <4>1. i \in Nat \ {0}
        BY <1>2, IndexNat
      <4> QED BY <1>2, <2>3, <4>1 DEF ExecPause, Passed, TypeOK
    <3> QED BY <2>2, <2>3, <3>1 DEF ExecPause, TypeOK
  <2>4. ASSUME NEW x \in Conns, ExecCommit(x)
        PROVE  OtherPending(c, watch[c][i].slot)'
    <3>1. CASE x # c
      BY <2>2, <2>4, <3>1 DEF ExecCommit, TypeOK
    <3>2. CASE x = c
      <4>1. DOMAIN watch'[c] = 1..Len(watch[c]) /\ Len(watch[c]) \in Nat
        BY <2>4 DEF ExecCommit, TypeOK
      <4>2. Passed(c, i)
        BY <2>4, <3>2, <4>1 DEF ExecCommit, Passed, TypeOK
      <4> QED BY <2>1, <4>2
    <3> QED BY <3>1, <3>2
  <2>5. ASSUME NEW x \in Conns, ExecCheck(x)
        PROVE  OtherPending(c, watch[c][i].slot)'
    <3>1. CASE ExecLeave(x)
      <4>1. x # c
        BY <1>2, <3>1 DEF ExecLeave, Passed, TypeOK
      <4> QED BY <2>2, <3>1, <4>1 DEF ExecLeave, TypeOK
    <3>2. CASE /\ ~ WatchDirty(ks, watch[x][chk[x]], now)
               /\ chk' = [chk EXCEPT ![x] = chk[x] + 1]
               /\ UNCHANGED <<phase, holder>>
      <4>1. CASE x # c
        BY <2>2, <3>2, <4>1 DEF TypeOK
      <4>2. CASE x = c /\ i # chk[c]
        <5>1. phase[c] = "check" /\ chk[c] \in Nat /\ i \in Nat
          <6>1. i \in Nat \ {0}
            BY <1>2, IndexNat
          <6> QED BY <2>5, <4>2, <6>1, CheckStep DEF TypeOK
        <5>2. i < chk[c] + 1
          BY <1>2, <3>2, <4>2, <5>1 DEF Passed, TypeOK
        <5>3. Passed(c, i)
          BY <4>2, <5>1, <5>2 DEF Passed
        <5> QED BY <2>1, <5>3
      <4>3. CASE x = c /\ i = chk[c]
        <5>1. phase[c] = "check" /\ i \in DOMAIN watch[c] /\ flush' = flush
          BY <2>5, <4>3, CheckStep
        <5>2. Kept(c, i)
          BY <1>2, <5>1, StepRefs DEF Fresh
        <5>3. watch[c][i].touched /\ watch'[c][i].slot = watch[c][i].slot
          BY <1>2, <5>1, <5>2 DEF Kept
        <5>4. FlushPending(watch[c][i].slot)
          BY <3>2, <4>3, <5>1, <5>3 DEF WatchSound
        <5>5. flush[c] = NoFlush
          BY <5>1 DEF ExecInv
        <5>6. OtherPending(c, watch[c][i].slot)
          BY <5>4, <5>5 DEF FlushPending, OtherPending, PendingBy
        <5> QED BY <5>1, <5>3, <5>6 DEF OtherPending, PendingBy
      <4> QED BY <4>1, <4>2, <4>3
    <3> QED BY <2>5, <3>1, <3>2, CheckStep
  <2>6. ASSUME NEW x \in Conns, ExecEnd(x) \/ Eval(x) \/ EvalEnd(x)
        PROVE  OtherPending(c, watch[c][i].slot)'
    <3>1. x # c
      BY <1>2, <2>6 DEF ExecEnd, Eval, EvalEnd, ExecLeave, Passed, TypeOK
    <3> QED BY <2>2, <2>6, <3>1 DEF ExecEnd, Eval, EvalEnd, ExecLeave, TypeOK
  <2>7. ASSUME NEW x \in Conns,
               \/ \E k \in Slots : Watch(x, k)
               \/ Unwatch(x) \/ FlushShard(x)
               \/ \E d \in DBs : FlushSwap(x, d)
        PROVE  OtherPending(c, watch[c][i].slot)'
    BY <2>2, <2>7 DEF Watch, Unwatch, FlushShard, FlushSwap
  <2>8. CASE Quiet
    BY <2>2, <2>8 DEF Quiet
  <2>9. CASE UNCHANGED <<ks, watch, phase, chk, flush, holder>>
    BY <2>2, <2>9
  <2> QED BY <2>3, <2>4, <2>5, <2>6, <2>7, <2>8, <2>9, NextCases
<1> QED BY <1>1, <1>2 DEF ExecInv

\* EXEC runs its queue only if no watched key changed before it paused the
\* engine, save under another connection's FLUSHDB that waits behind the pause.
THEOREM ExecIsSound == Spec => []ExecSound
<1>1. Init => HoldInv /\ ExecInv
  BY DEF Init, HoldInv, ExecInv
<1>2. ExecInv => ExecSound
  BY DEF ExecInv, ExecSound, Passed, OtherPending, FlushPending
<1> QED BY <1>1, <1>2, TypeCorrect, WatchIsSound, HoldStep, ExecStep, PTL DEF Spec

-----------------------------------------------------------------------------
(* Sums over finite sets: MapThenSumSet is a recursive function on the       *)
(* subsets of the set, which always removes the element CHOOSE picks.        *)

\* A set with 0 and with every successor of its members has all natural numbers.
LEMMA SetInduction ==
  ASSUME NEW S, 0 \in S, \A n \in Nat : n \in S => n + 1 \in S
  PROVE  Nat \subseteq S
<1> DEFINE T == Nat \ S
           R == {ss \in Nat \X Nat : ss[1] < ss[2]}
<1> SUFFICES ASSUME T # {} PROVE FALSE
  OBVIOUS
<1>1. IsWellFoundedOn(R, Nat) /\ T \subseteq Nat
  BY NatLessThanWellFounded DEF OpToRel
<1>2. PICK x \in T : \A y \in T : ~ (<<y, x>> \in R)
  <2> HIDE DEF T, R
  <2> QED BY <1>1, WFMin
<1>3. x # 0 /\ x - 1 \in Nat /\ x = (x - 1) + 1 /\ x - 1 < x /\ x \in Nat
  OBVIOUS
<1>4. <<x - 1, x>> \in R
  BY <1>3
<1>5. x - 1 \in S
  BY <1>2, <1>3, <1>4
<1> QED BY <1>3, <1>5

\* The element of T that a sum takes first.
Pick(T) == CHOOSE x \in T : TRUE

\* f has the sum of g over every subset of S, the way MapThenSumSet computes it.
Sums(f, g, S) ==
  f = [T \in SUBSET S |-> IF T = {} THEN 0 ELSE g[Pick(T)] + f[T \ {Pick(T)}]]

Ints(g, S) == \A x \in S : g[x] \in Int

\* A finite set loses an element and one of its cardinality.
LEMMA Less ==
  ASSUME NEW T, IsFiniteSet(T), NEW x \in T, NEW n \in Nat, Cardinality(T) <= n + 1
  PROVE  IsFiniteSet(T \ {x}) /\ Cardinality(T \ {x}) <= n
<1>1. IsFiniteSet(T \ {x}) /\ Cardinality(T \ {x}) = Cardinality(T) - 1
  BY FS_RemoveElement
<1>2. Cardinality(T) \in Nat
  BY FS_CardinalityType
<1> QED BY <1>1, <1>2

\* Only the empty set has no element.
LEMMA Least ==
  ASSUME NEW T, IsFiniteSet(T), Cardinality(T) <= 0
  PROVE  T = {}
<1>1. Cardinality(T) \in Nat
  BY FS_CardinalityType
<1> QED BY <1>1, FS_EmptySet

\* There are sums over the subsets of a finite set.
LEMMA SumsExist ==
  ASSUME NEW S, IsFiniteSet(S), NEW g, Ints(g, S)
  PROVE  \E f \in [SUBSET S -> Int] : Sums(f, g, S)
<1> DEFINE Sub(n) == {T \in SUBSET S : Cardinality(T) <= n}
           Step(f, T) == IF T = {} THEN 0 ELSE g[Pick(T)] + f[T \ {Pick(T)}]
           N == {n \in Nat : \E f \in [Sub(n) -> Int] : \A T \in Sub(n) : f[T] = Step(f, T)}
<1>1. ASSUME NEW T \in SUBSET S
      PROVE  IsFiniteSet(T) /\ Cardinality(T) \in Nat /\ Cardinality(T) <= Cardinality(S)
  BY FS_Subset, FS_CardinalityType
<1>2. ASSUME NEW T \in SUBSET S, T # {}
      PROVE  Pick(T) \in T /\ g[Pick(T)] \in Int
  BY <1>2 DEF Pick, Ints
<1>3. 0 \in N
  <2> DEFINE f == [T \in Sub(0) |-> 0]
  <2>1. \A T \in Sub(0) : T = {}
    BY <1>1, Least
  <2>2. f \in [Sub(0) -> Int] /\ \A T \in Sub(0) : f[T] = Step(f, T)
    BY <2>1
  <2> QED BY <2>2
<1>4. ASSUME NEW n \in Nat, n \in N PROVE n + 1 \in N
  <2>1. PICK f \in [Sub(n) -> Int] : \A T \in Sub(n) : f[T] = Step(f, T)
    BY <1>4
  <2> DEFINE h == [T \in Sub(n + 1) |-> IF T \in Sub(n) THEN f[T] ELSE Step(f, T)]
  <2>2. ASSUME NEW T \in Sub(n + 1), T # {}
        PROVE  T \ {Pick(T)} \in Sub(n) /\ T \ {Pick(T)} \in Sub(n + 1)
    <3>1. Pick(T) \in T /\ IsFiniteSet(T) /\ Cardinality(T) <= n + 1
      BY <1>1, <1>2, <2>2
    <3>2. Cardinality(T \ {Pick(T)}) <= n /\ Cardinality(T \ {Pick(T)}) \in Nat
      BY <1>1, <3>1, Less
    <3> QED BY <3>2
  <2>3. ASSUME NEW T \in Sub(n + 1) PROVE h[T] = Step(f, T) /\ h[T] \in Int
    <3>1. h[T] = Step(f, T)
      BY <2>1
    <3>2. Step(f, T) \in Int
      <4>1. CASE T = {}
        BY <4>1
      <4>2. CASE T # {}
        BY <1>2, <2>1, <2>2, <4>2
      <4> QED BY <4>1, <4>2
    <3> QED BY <3>1, <3>2
  <2>4. ASSUME NEW T \in Sub(n + 1) PROVE h[T] = Step(h, T)
    <3>1. T # {} => h[T \ {Pick(T)}] = f[T \ {Pick(T)}]
      BY <2>2
    <3> HIDE DEF h
    <3> QED BY <2>3, <3>1
  <2>5. h \in [Sub(n + 1) -> Int]
    BY <2>3
  <2> HIDE DEF h, Step, Sub
  <2> QED BY <2>4, <2>5
<1>5. Nat \subseteq N
  <2> HIDE DEF N
  <2> QED BY <1>3, <1>4, SetInduction
<1>6. Cardinality(S) \in N /\ Sub(Cardinality(S)) = SUBSET S
  BY <1>1, <1>5, FS_CardinalityType
<1>7. PICK f \in [SUBSET S -> Int] : \A T \in SUBSET S : f[T] = Step(f, T)
  <2> HIDE DEF Sub, Step
  <2> QED BY <1>6
<1> QED BY <1>7 DEF Sums

\* Sums agree where the summands do.
LEMMA SumsAgree ==
  ASSUME NEW S, NEW R, NEW f, NEW g, NEW e, NEW h, Sums(f, g, S), Sums(e, h, R),
         NEW U, IsFiniteSet(U), U \subseteq S, U \subseteq R, \A x \in U : g[x] = h[x]
  PROVE  f[U] = e[U]
<1> DEFINE N == {n \in Nat : \A T \in SUBSET U : Cardinality(T) <= n => f[T] = e[T]}
<1>1. ASSUME NEW T \in SUBSET U
      PROVE  /\ IsFiniteSet(T) /\ Cardinality(T) \in Nat
             /\ f[T] = IF T = {} THEN 0 ELSE g[Pick(T)] + f[T \ {Pick(T)}]
             /\ e[T] = IF T = {} THEN 0 ELSE h[Pick(T)] + e[T \ {Pick(T)}]
             /\ T # {} => Pick(T) \in T
  <2>1. T \in SUBSET S /\ T \in SUBSET R
    OBVIOUS
  <2>2. T # {} => Pick(T) \in T
    BY DEF Pick
  <2>3. IsFiniteSet(T) /\ Cardinality(T) \in Nat
    BY FS_Subset, FS_CardinalityType
  <2>4. f[T] = IF T = {} THEN 0 ELSE g[Pick(T)] + f[T \ {Pick(T)}]
    BY <2>1 DEF Sums
  <2>5. e[T] = IF T = {} THEN 0 ELSE h[Pick(T)] + e[T \ {Pick(T)}]
    BY <2>1 DEF Sums
  <2> QED BY <2>2, <2>3, <2>4, <2>5
<1>2. 0 \in N
  <2>1. ASSUME NEW T \in SUBSET U, Cardinality(T) <= 0 PROVE f[T] = e[T]
    <3>1. T = {}
      BY <1>1, <2>1, Least
    <3> QED BY <1>1, <3>1
  <2> QED BY <2>1
<1>3. ASSUME NEW n \in Nat, n \in N PROVE n + 1 \in N
  <2> SUFFICES ASSUME NEW T \in SUBSET U, Cardinality(T) <= n + 1, T # {}
               PROVE  f[T] = e[T]
    BY <1>1
  <2>1. Cardinality(T \ {Pick(T)}) <= n /\ T \ {Pick(T)} \in SUBSET U
    BY <1>1, Less
  <2>2. f[T \ {Pick(T)}] = e[T \ {Pick(T)}]
    BY <1>3, <2>1
  <2> QED BY <1>1, <2>2
<1>4. Cardinality(U) \in N
  <2>1. Nat \subseteq N
    <3> HIDE DEF N
    <3> QED BY <1>2, <1>3, SetInduction
  <2> QED BY <2>1, <1>1
<1> QED BY <1>1, <1>4

\* A sum may take any element first.
LEMMA SumsSplit ==
  ASSUME NEW S, IsFiniteSet(S), NEW g, Ints(g, S), NEW f \in [SUBSET S -> Int], Sums(f, g, S),
         NEW U \in SUBSET S, NEW u \in U
  PROVE  f[U] = g[u] + f[U \ {u}]
<1> DEFINE N == {n \in Nat : \A T \in SUBSET S : Cardinality(T) <= n =>
                               \A x \in T : f[T] = g[x] + f[T \ {x}]}
<1>1. ASSUME NEW T \in SUBSET S
      PROVE  /\ IsFiniteSet(T) /\ Cardinality(T) \in Nat
             /\ T # {} => Pick(T) \in T /\ f[T] = g[Pick(T)] + f[T \ {Pick(T)}]
  <2>1. T # {} => Pick(T) \in T
    BY DEF Pick
  <2>2. f[T] = IF T = {} THEN 0 ELSE g[Pick(T)] + f[T \ {Pick(T)}]
    BY DEF Sums
  <2>3. IsFiniteSet(T) /\ Cardinality(T) \in Nat
    BY FS_Subset, FS_CardinalityType
  <2> QED BY <2>1, <2>2, <2>3
<1>2. 0 \in N
  <2>1. ASSUME NEW T \in SUBSET S, Cardinality(T) <= 0 PROVE T = {}
    BY <1>1, <2>1, Least
  <2> QED BY <2>1
<1>3. ASSUME NEW n \in Nat, n \in N PROVE n + 1 \in N
  <2> SUFFICES ASSUME NEW T \in SUBSET S, Cardinality(T) <= n + 1, NEW x \in T
               PROVE  f[T] = g[x] + f[T \ {x}]
    OBVIOUS
  <2> DEFINE y == Pick(T)
  <2>1. y \in T /\ f[T] = g[y] + f[T \ {y}] /\ IsFiniteSet(T)
    BY <1>1
  <2> HIDE DEF y
  <2>2. CASE x = y
    BY <2>1, <2>2
  <2>3. CASE x # y
    <3>1. /\ T \ {x} \in SUBSET S /\ Cardinality(T \ {x}) <= n /\ y \in T \ {x}
          /\ T \ {y} \in SUBSET S /\ Cardinality(T \ {y}) <= n /\ x \in T \ {y}
      BY <2>1, <2>3, Less
    <3>2. f[T \ {x}] = g[y] + f[(T \ {x}) \ {y}] /\ f[T \ {y}] = g[x] + f[(T \ {y}) \ {x}]
      BY <1>3, <3>1
    <3>3. (T \ {x}) \ {y} = (T \ {y}) \ {x}
      OBVIOUS
    <3>4. g[x] \in Int /\ g[y] \in Int /\ f[(T \ {y}) \ {x}] \in Int
      BY <2>1 DEF Ints
    <3> DEFINE z == f[(T \ {y}) \ {x}]
    <3>5. f[T \ {x}] = g[y] + z /\ f[T \ {y}] = g[x] + z /\ z \in Int
      BY <3>2, <3>3, <3>4
    <3> HIDE DEF z
    <3> QED BY <2>1, <3>4, <3>5
  <2> QED BY <2>2, <2>3
<1>4. Cardinality(U) \in N
  <2>1. Nat \subseteq N
    <3> HIDE DEF N
    <3> QED BY <1>2, <1>3, SetInduction
  <2> QED BY <2>1, <1>1
<1> QED BY <1>1, <1>4

\* x is the sum of g over S.
IsSum(x, g, S) == \E f \in [SUBSET S -> Int] : Sums(f, g, S) /\ x = f[S]

\* Over the empty set a sum is zero.
LEMMA SumEmpty ==
  ASSUME NEW g
  PROVE  IsSum(0, g, {})
<1>1. IsFiniteSet({}) /\ Ints(g, {})
  BY FS_EmptySet DEF Ints
<1>2. PICK f \in [SUBSET {} -> Int] : Sums(f, g, {})
  BY <1>1, SumsExist
<1>3. {} \in SUBSET {}
  OBVIOUS
<1>4. f[{}] = 0
  BY <1>2, <1>3 DEF Sums
<1> QED BY <1>2, <1>4 DEF IsSum

\* What a set's sum owes to one element.
LEMMA SumsLess ==
  ASSUME NEW S, IsFiniteSet(S), NEW g, Ints(g, S), NEW f \in [SUBSET S -> Int], Sums(f, g, S), NEW k
  PROVE  /\ k \in S => f[S] - g[k] = f[S \ {k}] /\ g[k] \in Int
         /\ k \notin S => f[S] = f[S \ {k}]
         /\ f[S] \in Int /\ f[S \ {k}] \in Int
<1>1. S \in SUBSET S /\ S \ {k} \in SUBSET S
  OBVIOUS
<1>2. f[S] \in Int /\ f[S \ {k}] \in Int
  BY <1>1
<1>3. ASSUME k \in S PROVE f[S] - g[k] = f[S \ {k}] /\ g[k] \in Int
  <2>1. f[S] = g[k] + f[S \ {k}]
    BY <1>1, <1>3, SumsSplit
  <2>2. g[k] \in Int
    BY <1>3 DEF Ints
  <2> QED BY <1>2, <2>1, <2>2
<1>4. ASSUME k \notin S PROVE f[S] = f[S \ {k}]
  <2>1. S \ {k} = S
    BY <1>4
  <2> QED BY <2>1
<1> QED BY <1>2, <1>3, <1>4

\* A sum over a set with one element more or less, or with another summand for one element.
LEMMA SumChange ==
  ASSUME NEW g, NEW h, NEW S, NEW R, NEW k, NEW x, IsSum(x, g, S),
         IsFiniteSet(S), IsFiniteSet(R), Ints(g, S), Ints(h, R),
         S \ {k} = R \ {k}, \A y \in S \ {k} : g[y] = h[y],
         NEW a, a = (IF k \in S THEN g[k] ELSE 0),
         NEW b, b = (IF k \in R THEN h[k] ELSE 0)
  PROVE  IsSum(x - a + b, h, R)
<1>1. PICK f \in [SUBSET S -> Int] : Sums(f, g, S) /\ x = f[S]
  BY DEF IsSum
<1>2. PICK e \in [SUBSET R -> Int] : Sums(e, h, R)
  BY SumsExist
<1>3. f[S \ {k}] = e[R \ {k}]
  <2> DEFINE U == S \ {k}
  <2>1. U \subseteq S /\ U \subseteq R /\ IsFiniteSet(U) /\ U = R \ {k} /\ U = S \ {k}
    BY FS_Subset
  <2>2. \A y \in U : g[y] = h[y]
    OBVIOUS
  <2> HIDE DEF U
  <2>3. f[U] = e[U]
    BY <1>1, <1>2, <2>1, <2>2, SumsAgree
  <2> QED BY <2>1, <2>3
<1>4. /\ k \in S => f[S] - g[k] = f[S \ {k}] /\ g[k] \in Int
      /\ k \notin S => f[S] = f[S \ {k}]
      /\ f[S] \in Int /\ f[S \ {k}] \in Int
  BY <1>1, SumsLess
<1>5. /\ k \in R => e[R] - h[k] = e[R \ {k}] /\ h[k] \in Int
      /\ k \notin R => e[R] = e[R \ {k}]
      /\ e[R] \in Int /\ e[R \ {k}] \in Int
  BY <1>2, SumsLess
<1>6. x - a + b = e[R]
  <2> DEFINE A == e[R]
             B == f[S]
             C == f[S \ {k}]
  <2>1. /\ k \in S => B - g[k] = C /\ g[k] \in Int
        /\ k \notin S => B = C
        /\ k \in R => A - h[k] = C /\ h[k] \in Int
        /\ k \notin R => A = C
        /\ A \in Int /\ B \in Int /\ C \in Int /\ x = B
    BY <1>1, <1>3, <1>4, <1>5
  <2> HIDE DEF A, B, C
  <2>2. x - a + b = A
    BY <2>1
  <2> QED BY <2>2 DEF A
<1> QED BY <1>2, <1>6 DEF IsSum

\* The sum depends on the summands over the set alone.
LEMMA SumSame ==
  ASSUME NEW g, NEW h, NEW S, NEW x, IsSum(x, g, S), IsFiniteSet(S), Ints(h, S),
         \A y \in S : g[y] = h[y]
  PROVE  IsSum(x, h, S)
<1>1. PICK f \in [SUBSET S -> Int] : Sums(f, g, S) /\ x = f[S]
  BY DEF IsSum
<1>2. PICK e \in [SUBSET S -> Int] : Sums(e, h, S)
  BY SumsExist
<1>3. f[S] = e[S]
  BY <1>1, <1>2, SumsAgree
<1> QED BY <1>1, <1>2, <1>3 DEF IsSum

-----------------------------------------------------------------------------
(* The two indexes of a shard: the memory estimate and the expiry heap.      *)

\* The live slots of shard s and database d, and what each slot counts for.
LiveIn(st, s, d) == {k \in Slots : ShardOf[k] = s /\ DBOf[k] = d /\ Live(st, k)}
Mems(st) == [k \in Slots |-> MemOf(st, k)]

LiveAll(st) == {k \in Slots : Live(st, k)}

Item(st, k) == [slot |-> k, at |-> st.tab[k].exp, gen |-> st.tab[k].gen]

\* The heap has the deadline of slot k.
Armed(st, k) == Live(st, k) /\ st.tab[k].exp > 0 => Item(st, k) \in st.heap

Tallied(st, s, d) == IsSum(st.used[s][d], Mems(st), LiveIn(st, s, d))

\* The indexes of st are right, save the estimates of the shards and databases in X and
\* the deadlines of the slots in K.
Books(st, X, K) ==
  /\ IsFiniteSet(LiveAll(st))
  /\ \A k \in Slots : Live(st, k) => st.tab[k].mem = Weight(st.tab[k])
  /\ \A it \in st.heap : it.at > 0
  /\ \A k \in Slots \ K : Armed(st, k)
  /\ \A s \in Shards, d \in DBs : <<s, d>> \notin X => Tallied(st, s, d)

\* What the slots count for are integers, and those of a shard and database are finitely many.
LEMMA MemsInt ==
  ASSUME NEW st \in KS, IsFiniteSet(LiveAll(st)), NEW s, NEW d
  PROVE  IsFiniteSet(LiveIn(st, s, d)) /\ Ints(Mems(st), LiveIn(st, s, d))
<1>1. LiveIn(st, s, d) \subseteq LiveAll(st)
  BY DEF LiveIn, LiveAll
<1>2. IsFiniteSet(LiveIn(st, s, d))
  BY <1>1, FS_Subset
<1>3. \A k \in LiveIn(st, s, d) : Mems(st)[k] \in Int
  BY DEF LiveIn, Mems, MemOf, Live, KS, Entry
<1> QED BY <1>2, <1>3 DEF Ints

\* A tally follows a change of one slot.
LEMMA TallyChange ==
  ASSUME NEW st \in KS, NEW r \in KS, NEW k \in Slots,
         IsFiniteSet(LiveAll(st)), IsFiniteSet(LiveAll(r)),
         \A j \in Slots \ {k} : r.tab[j] = st.tab[j],
         Charged(st, r, k, MemOf(r, k) - MemOf(st, k)),
         NEW s \in Shards, NEW d \in DBs, Tallied(st, s, d)
  PROVE  Tallied(r, s, d)
<1> DEFINE S == LiveIn(st, s, d)
           R == LiveIn(r, s, d)
           g == Mems(st)
           h == Mems(r)
           u == IF k \in S THEN g[k] ELSE 0
           v == IF k \in R THEN h[k] ELSE 0
<1>1. S \ {k} = R \ {k} /\ \A y \in S \ {k} : g[y] = h[y]
  BY DEF LiveIn, Mems, MemOf, Live
<1>2. IsFiniteSet(S) /\ IsFiniteSet(R) /\ Ints(g, S) /\ Ints(h, R)
  BY MemsInt
<1>3. IsSum(st.used[s][d] - u + v, h, R)
  <2> HIDE DEF S, R, g, h, u, v
  <2>1. IsSum(st.used[s][d], g, S)
    BY DEF Tallied, S, g
  <2>2. u = (IF k \in S THEN g[k] ELSE 0) /\ v = (IF k \in R THEN h[k] ELSE 0)
    BY DEF u, v
  <2> QED BY <1>1, <1>2, <2>1, <2>2, SumChange
<1>4. /\ u = IF s = ShardOf[k] /\ d = DBOf[k] THEN MemOf(st, k) ELSE 0
      /\ v = IF s = ShardOf[k] /\ d = DBOf[k] THEN MemOf(r, k) ELSE 0
  BY DEF LiveIn, Mems, MemOf
<1>5. MemOf(st, k) \in Int /\ MemOf(r, k) \in Int /\ st.used[s][d] \in Int
  BY DEF MemOf, Live, KS, Entry
<1>6. r.used[s][d] = st.used[s][d]
                     + (IF s = ShardOf[k] /\ d = DBOf[k] THEN MemOf(r, k) - MemOf(st, k) ELSE 0)
  BY DEF Charged
<1>7. r.used[s][d] = st.used[s][d] - u + v
  <2> HIDE DEF u, v
  <2> QED BY <1>4, <1>5, <1>6
<1> QED BY <1>3, <1>7 DEF Tallied

\* The books follow a change of one slot; its own deadline must be seen to.
LEMMA BooksChange ==
  ASSUME NEW st \in KS, NEW r \in KS, NEW k \in Slots, NEW X, NEW K, NEW L, Books(st, X, L),
         \A j \in Slots \ {k} : r.tab[j] = st.tab[j],
         Live(r, k) => r.tab[k].mem = Weight(r.tab[k]),
         Charged(st, r, k, MemOf(r, k) - MemOf(st, k)),
         st.heap \subseteq r.heap, \A it \in r.heap : it.at > 0,
         L \subseteq K \cup {k}, k \in K \/ Armed(r, k)
  PROVE  Books(r, X, K)
<1>1. IsFiniteSet(LiveAll(r)) /\ IsFiniteSet(LiveAll(st))
  <2>1. LiveAll(r) \subseteq LiveAll(st) \cup {k} /\ IsFiniteSet(LiveAll(st))
    BY DEF LiveAll, Live, Books
  <2> QED BY <2>1, FS_AddElement, FS_Subset
<1>2. \A j \in Slots : Live(r, j) => r.tab[j].mem = Weight(r.tab[j])
  BY DEF Books, Live
<1>3. \A j \in Slots \ K : Armed(r, j)
  <2>1. ASSUME NEW j \in Slots \ K, j # k PROVE Armed(r, j)
    <3>1. Armed(st, j) /\ r.tab[j] = st.tab[j]
      BY <2>1 DEF Books
    <3> QED BY <3>1 DEF Armed, Item, Live
  <2> QED BY <2>1
<1>4. \A s \in Shards, d \in DBs : <<s, d>> \notin X => Tallied(r, s, d)
  BY <1>1, TallyChange DEF Books
<1> QED BY <1>1, <1>2, <1>3, <1>4 DEF Books

\* A removal keeps the books, and needs none for its slot.
LEMMA RemoveBooks ==
  ASSUME NEW st \in KS, NEW k \in Slots, Live(st, k), NEW X, NEW K, NEW L,
         L \subseteq K \cup {k}, Books(st, X, L)
  PROVE  Books(Remove(st, k), X, K) /\ Remove(st, k) \in KS /\ ~ Live(Remove(st, k), k)
<1> DEFINE r == Remove(st, k)
<1>1. /\ r \in KS /\ r.tab = [st.tab EXCEPT ![k] = Absent] /\ r.heap = st.heap
      /\ Charged(st, r, k, -st.tab[k].mem)
  BY RemoveType
<1> HIDE DEF r
<1>2. ~ Live(r, k) /\ \A j \in Slots \ {k} : r.tab[j] = st.tab[j]
  BY <1>1 DEF Live, KS
<1>3. MemOf(r, k) - MemOf(st, k) = -st.tab[k].mem
  <2>1. st.tab[k].mem \in Nat
    BY DEF Live, KS, Entry
  <2> QED BY <1>2, <2>1 DEF MemOf
<1>4. Books(r, X, K)
  <2>1. Armed(r, k) /\ st.heap \subseteq r.heap /\ \A it \in r.heap : it.at > 0
    BY <1>1, <1>2 DEF Armed, Books
  <2>2. Charged(st, r, k, MemOf(r, k) - MemOf(st, k))
    BY <1>1, <1>3
  <2>3. r \in KS
    BY <1>1
  <2> QED BY <1>2, <2>1, <2>2, <2>3, BooksChange
<1> QED BY <1>1, <1>2, <1>4 DEF r

\* Lookup and Delete remove or do nothing.
LEMMA LookupBooks ==
  ASSUME NEW st \in KS, NEW k \in Slots, NEW t, NEW X, NEW K, Books(st, X, K)
  PROVE  /\ Books(Lookup(st, k, t), X, K) /\ Lookup(st, k, t) \in KS
         /\ Books(Delete(st, k, t), X, K)
<1> DEFINE r == Lookup(st, k, t)
<1>1. Books(r, X, K) /\ r \in KS
  BY RemoveBooks DEF Lookup
<1> HIDE DEF r
<1>2. Live(r, k) => Books(Remove(r, k), X, K)
  BY <1>1, RemoveBooks
<1>3. Delete(st, k, t) = IF Live(r, k) THEN Remove(r, k) ELSE r
  BY DEF Delete, r
<1>4. Books(Delete(st, k, t), X, K)
  BY <1>1, <1>2, <1>3
<1> QED BY <1>1, <1>4 DEF r

\* A write whose entry counts its own size keeps the books, if it keeps the heap's items
\* and the entry's deadline is on the heap.
LEMMA WroteBooks ==
  ASSUME NEW st \in KS, NEW r, NEW k \in Slots, NEW e, Wrote(st, r, k, e),
         e.mem = Weight(e), NEW X, NEW K, NEW L, Books(st, X, L), L \subseteq K \cup {k},
         st.heap \subseteq r.heap, \A it \in r.heap : it.at > 0,
         \/ k \in K \/ e.exp = 0
         \/ [slot |-> k, at |-> e.exp, gen |-> e.gen] \in r.heap
  PROVE  Books(r, X, K) /\ r \in KS
<1>1. r \in KS /\ Live(r, k) /\ r.tab[k] = e /\ e \in Entry
  BY WroteLive
<1>2. \A j \in Slots \ {k} : r.tab[j] = st.tab[j]
  BY DEF Wrote, KS
<1>3. Charged(st, r, k, MemOf(r, k) - MemOf(st, k))
  BY <1>1 DEF Wrote, MemOf
<1>4. k \in K \/ Armed(r, k)
  BY <1>1 DEF Armed, Item
<1> QED BY <1>1, <1>2, <1>3, <1>4, BooksChange

\* Store keeps the books but for a deadline that the heap does not have yet.
LEMMA StoreBooks ==
  ASSUME NEW st \in KS, NEW k \in Slots, NEW v \in Values, NEW exp \in Nat, NEW gen \in Nat,
         NEW fresh \in BOOLEAN,
         NEW X, NEW K, NEW L, Books(st, X, L), L \subseteq K \cup {k},
         k \in K \/ exp = 0 \/ [slot |-> k, at |-> exp, gen |-> gen] \in st.heap
  PROVE  LET r == StoreAs(st, k, v, exp, gen, fresh)
         IN Books(r, X, K) /\ r \in KS /\ Live(r, k) /\ (exp > 0 => r.tab[k].exp > 0)
<1> DEFINE r == StoreAs(st, k, v, exp, gen, fresh)
<1>1. PICK e : /\ Wrote(st, r, k, e) /\ r.heap = st.heap
               /\ e.exp = exp /\ e.gen = gen /\ e.mem = Weight(e)
  BY StoreWrites
<1> HIDE DEF r
<1>2. \A it \in st.heap : it.at > 0
  BY DEF Books
<1>3. Books(r, X, K)
  BY <1>1, <1>2, WroteBooks
<1>4. r \in KS /\ Live(r, k) /\ (exp > 0 => r.tab[k].exp > 0)
  BY <1>1, WroteLive
<1> QED BY <1>3, <1>4 DEF r

\* So does Touch.
LEMMA TouchBooks ==
  ASSUME NEW st \in KS, NEW k \in Slots, NEW v \in Values, NEW exp \in Nat, Live(st, k),
         NEW X, NEW K, NEW L, Books(st, X, L), L \subseteq K \cup {k},
         k \in K \/ exp = 0 \/ [slot |-> k, at |-> exp, gen |-> st.tab[k].gen] \in st.heap
  PROVE  Books(Touch(st, k, v, exp), X, K)
<1> DEFINE r == Touch(st, k, v, exp)
<1>1. PICK e : /\ Wrote(st, r, k, e) /\ r.heap = st.heap
               /\ e.exp = exp /\ e.gen = st.tab[k].gen /\ e.mem = Weight(e)
  BY TouchWrites
<1> HIDE DEF r
<1>2. \A it \in st.heap : it.at > 0
  BY DEF Books
<1>3. Books(r, X, K)
  BY <1>1, <1>2, WroteBooks
<1> QED BY <1>3 DEF r

\* PushExpire puts the missing deadline on the heap.
LEMMA PushExpireBooks ==
  ASSUME NEW st \in KS, NEW k \in Slots, Live(st, k), st.tab[k].exp > 0,
         NEW X, NEW K, Books(st, X, K \cup {k})
  PROVE  Books(PushExpire(st, k), X, K)
<1> DEFINE r == PushExpire(st, k)
           e == [st.tab[k] EXCEPT !.gen = st.tab[k].gen + 1]
           i == [slot |-> k, at |-> e.exp, gen |-> e.gen]
<1>1. /\ Wrote(st, r, k, e) /\ r.heap = st.heap \cup {i}
      /\ e.val = st.tab[k].val /\ e.exp = st.tab[k].exp /\ e.mem = st.tab[k].mem
      /\ e.fresh = st.tab[k].fresh
  BY PushExpireWrites
<1> HIDE DEF r, e
<1>2. e.mem = Weight(e) /\ \A it \in r.heap : it.at > 0
  BY <1>1 DEF Books, Weight
<1>3. Books(r, X, K)
  BY <1>1, <1>2, WroteBooks
<1> QED BY <1>3 DEF r

\* SET with a deadline stores the entry, then puts its deadline on the heap.
LEMMA ArmedBooks ==
  ASSUME NEW st \in KS, NEW k \in Slots, NEW v \in Values, NEW at \in Nat, NEW gen \in Nat,
         NEW fresh \in BOOLEAN, at > 0, NEW X, NEW K, Books(st, X, K)
  PROVE  Books(PushExpire(StoreAs(st, k, v, at, gen, fresh), k), X, K)
<1> DEFINE L == K \cup {k}
           p == StoreAs(st, k, v, at, gen, fresh)
<1>1. K \subseteq L \cup {k} /\ k \in L
  OBVIOUS
<1> HIDE DEF L
<1>2. Books(p, X, L) /\ p \in KS /\ Live(p, k) /\ p.tab[k].exp > 0
  BY <1>1, StoreBooks
<1> HIDE DEF p
<1>3. Books(PushExpire(p, k), X, K)
  BY <1>2, PushExpireBooks DEF L
<1> QED BY <1>3 DEF p

\* Popping an item leaves its slot to be seen to, if the item is the entry's own.
LEMMA PopBooks ==
  ASSUME NEW st \in KS, NEW it \in st.heap, NEW X, NEW K, Books(st, X, K)
  PROVE  LET r == [st EXCEPT !.heap = @ \ {it}] IN
         /\ r \in KS /\ r.tab = st.tab
         /\ Books(r, X, K \cup {it.slot})
         /\ ~ FreshItem(st, it) => Books(r, X, K)
<1> DEFINE r == [st EXCEPT !.heap = @ \ {it}]
<1>1. r \in KS /\ r.tab = st.tab /\ r.used = st.used /\ r.heap = st.heap \ {it}
  BY PopGood DEF Good
<1> HIDE DEF r
<1>2. it \in ExpItem /\ it = [slot |-> it.slot, at |-> it.at, gen |-> it.gen]
  BY DEF KS, ExpItem
<1>3. /\ LiveAll(r) = LiveAll(st) /\ Mems(r) = Mems(st)
      /\ \A s, d : LiveIn(r, s, d) = LiveIn(st, s, d)
  BY <1>1 DEF LiveAll, LiveIn, Mems, MemOf, Live
<1>4. \A s \in Shards, d \in DBs : <<s, d>> \notin X => Tallied(r, s, d)
  BY <1>1, <1>3 DEF Tallied, Books
<1>5. ASSUME NEW j \in Slots \ K, j # it.slot \/ ~ FreshItem(st, it) PROVE Armed(r, j)
  <2>1. Armed(st, j)
    BY DEF Books
  <2>2. Live(st, j) => Item(st, j) # it
    BY <1>2, <1>5 DEF Item, FreshItem
  <2> QED BY <1>1, <2>1, <2>2 DEF Armed, Item, Live
<1>6. /\ IsFiniteSet(LiveAll(r))
      /\ \A k \in Slots : Live(r, k) => r.tab[k].mem = Weight(r.tab[k])
      /\ \A i \in r.heap : i.at > 0
  BY <1>1, <1>3 DEF Books, Live
<1>7. Books(r, X, K \cup {it.slot})
  BY <1>4, <1>5, <1>6 DEF Books
<1>8. ~ FreshItem(st, it) => Books(r, X, K)
  BY <1>4, <1>5, <1>6 DEF Books
<1> QED BY <1>1, <1>7, <1>8 DEF r

\* The commands keep the books.
LEMMA CommandBooks ==
  ASSUME TypeOK, NEW c \in Conns, Command(c), NEW X, NEW K, Books(ks, X, K)
  PROVE  Books(ks', X, K)
<1>1. PICK k \in Slots :
        \/ Get(c, k) \/ Del(c, k) \/ Persist(c, k) \/ Watch(c, k)
        \/ \E v \in Values : SetKeepTTL(c, k, v) \/ MSetOne(c, k, v) \/ Mutate(c, k, v) \/ Fill(c, k, v)
        \/ \E v \in Values, at \in 0..MaxNow : Set(c, k, v, at)
        \/ \E at \in 1..MaxNow : Expire(c, k, at)
  BY DEF Command
<1> DEFINE st == Lookup(ks, k, now)
<1>2. ks \in KS /\ now \in Nat
  BY DEF TypeOK
<1>3. Books(st, X, K) /\ st \in KS /\ Books(Delete(ks, k, now), X, K)
  BY <1>2, LookupBooks
<1> HIDE DEF st
<1>4. ASSUME Live(st, k)
      PROVE  /\ st.tab[k].exp \in Nat /\ st.tab[k].gen \in Nat /\ st.tab[k].val \in Values
             /\ k \in K \/ st.tab[k].exp = 0 \/ Item(st, k) \in st.heap
  <2>1. st.tab[k] \in Entry
    BY <1>3, <1>4 DEF Live, KS
  <2>2. k \in K \/ Armed(st, k)
    BY <1>3 DEF Books
  <2> QED BY <1>4, <2>1, <2>2 DEF Armed, Entry
<1>5. ASSUME NEW v \in Values
      PROVE  Books(Store(st, k, v, 0, 0), X, K) /\ Books(StoreAs(st, k, v, 0, 0, TRUE), X, K)
  BY <1>3, StoreBooks DEF Store
<1>6. Books(Delete(st, k, now), X, K)
  BY <1>3, LookupBooks
<1>7. CASE Get(c, k) \/ Watch(c, k)
  BY <1>3, <1>7 DEF Get, Watch, Task, Apply, st
<1>8. CASE Del(c, k)
  BY <1>3, <1>8 DEF Del, Task, Apply
<1>9. CASE Persist(c, k)
  <2>1. ks' = IF Live(st, k) /\ st.tab[k].exp # 0 THEN Touch(st, k, st.tab[k].val, 0) ELSE st
    BY <1>9 DEF Persist, Task, Apply, st
  <2>2. Live(st, k) => Books(Touch(st, k, st.tab[k].val, 0), X, K)
    BY <1>3, <1>4, TouchBooks
  <2> QED BY <1>3, <2>1, <2>2
<1>10. ASSUME NEW v \in Values, SetKeepTTL(c, k, v) PROVE Books(ks', X, K)
  <2>1. ks' = IF Live(st, k) THEN Store(st, k, v, st.tab[k].exp, st.tab[k].gen)
              ELSE Store(st, k, v, 0, 0)
    BY <1>10 DEF SetKeepTTL, Task, Apply, st
  <2>2. Live(st, k) => Books(Store(st, k, v, st.tab[k].exp, st.tab[k].gen), X, K)
    BY <1>3, <1>4, StoreBooks DEF Item, Store
  <2> QED BY <1>5, <2>1, <2>2
<1>11. ASSUME NEW v \in Values, MSetOne(c, k, v) PROVE Books(ks', X, K)
  <2>1. ks' = Store(ks, k, v, 0, 0)
    BY <1>11 DEF MSetOne, Task, Apply
  <2> QED BY <1>2, <2>1, StoreBooks DEF Store
<1>12. ASSUME NEW v \in Values, Mutate(c, k, v) PROVE Books(ks', X, K)
  <2>1. ks' = IF ~ Live(st, k) THEN Store(st, k, v, 0, 0)
              ELSE IF KindOf[st.tab[k].val] = KindOf[v]
                   THEN Touch(st, k, v, st.tab[k].exp) ELSE st
    BY <1>12 DEF Mutate, Task, Apply, st
  <2>2. Live(st, k) => Books(Touch(st, k, v, st.tab[k].exp), X, K)
    BY <1>3, <1>4, TouchBooks DEF Item
  <2> QED BY <1>3, <1>5, <2>1, <2>2
<1>15. ASSUME NEW v \in Values, Fill(c, k, v) PROVE Books(ks', X, K)
  <2>1. ks' = StoreAs(st, k, v, 0, 0, TRUE)
    BY <1>15 DEF Fill, Task, Apply, st
  <2> QED BY <1>5, <2>1
<1>13. ASSUME NEW v \in Values, NEW at \in 0..MaxNow, Set(c, k, v, at) PROVE Books(ks', X, K)
  <2> DEFINE p == Store(st, k, v, at, 0)
  <2>1. ks' = IF at = 0 THEN Store(st, k, v, 0, 0)
              ELSE IF at <= now THEN Delete(st, k, now) ELSE PushExpire(p, k)
    BY <1>13 DEF Set, Task, Apply, st
  <2>2. at \in Nat
    BY ConstAssumption
  <2>3. ASSUME ~ at <= now PROVE Books(PushExpire(p, k), X, K)
    <3>1. at > 0
      BY <1>2, <2>2, <2>3
    <3> QED BY <1>3, <2>2, <3>1, ArmedBooks DEF Store
  <2> QED BY <1>5, <1>6, <2>1, <2>3
<1>14. ASSUME NEW at \in 1..MaxNow, Expire(c, k, at) PROVE Books(ks', X, K)
  <2> DEFINE p == Touch(st, k, st.tab[k].val, at)
  <2>1. ks' = IF ~ Live(st, k) THEN st
              ELSE IF at <= now THEN Delete(st, k, now) ELSE PushExpire(p, k)
    BY <1>14 DEF Expire, Task, Apply, st
  <2>2. at \in Nat
    BY ConstAssumption
  <2>3. ASSUME Live(st, k), ~ at <= now PROVE Books(PushExpire(p, k), X, K)
    <3>1. PICK e : Wrote(st, p, k, e) /\ e.exp = at
      BY <1>3, <1>4, <2>2, <2>3, TouchWrites
    <3>2. Books(p, X, K \cup {k})
      BY <1>3, <1>4, <2>2, <2>3, TouchBooks
    <3> HIDE DEF p
    <3>3. p \in KS /\ Live(p, k) /\ p.tab[k].exp > 0
      BY <1>2, <1>3, <2>2, <2>3, <3>1, WroteLive
    <3> QED BY <3>2, <3>3, PushExpireBooks
  <2> QED BY <1>3, <1>6, <2>1, <2>3
<1> QED BY <1>1, <1>7, <1>8, <1>9, <1>10, <1>11, <1>12, <1>13, <1>14, <1>15

\* So do the sweep, the evictions and EXEC's dirty checks.
LEMMA ShardBooks ==
  ASSUME TypeOK, NEW X, NEW K, Books(ks, X, K),
         \/ \E s \in Shards : Sweep(s)
         \/ \E k \in Slots : Evict(k)
         \/ \E c \in Conns : ExecCheck(c)
  PROVE  Books(ks', X, K)
<1>1. ks \in KS
  BY DEF TypeOK
<1>2. ASSUME NEW s \in Shards, Sweep(s) PROVE Books(ks', X, K)
  <2>1. PICK it \in ks.heap :
          LET st  == [ks EXCEPT !.heap = @ \ {it}]
          IN ks' = IF FreshItem(ks, it) THEN Remove(st, it.slot) ELSE st
    BY <1>2 DEF Sweep, Apply
  <2> DEFINE st == [ks EXCEPT !.heap = @ \ {it}]
  <2>2. /\ st \in KS /\ st.tab = ks.tab /\ Books(st, X, K \cup {it.slot})
        /\ ~ FreshItem(ks, it) => Books(st, X, K)
    BY <1>1, PopBooks
  <2>3. ks' = IF FreshItem(ks, it) THEN Remove(st, it.slot) ELSE st
    BY <2>1
  <2> HIDE DEF st
  <2>4. it.slot \in Slots /\ (FreshItem(ks, it) => Live(st, it.slot))
    BY <1>1, <2>2 DEF KS, ExpItem, FreshItem, Live
  <2>5. FreshItem(ks, it) => Books(Remove(st, it.slot), X, K)
    BY <2>2, <2>4, RemoveBooks
  <2> QED BY <2>2, <2>3, <2>5
<1>3. ASSUME NEW k \in Slots, Evict(k) PROVE Books(ks', X, K)
  <2>1. ks' = Remove(ks, k) /\ Live(ks, k)
    BY <1>3 DEF Evict, Apply
  <2> QED BY <1>1, <2>1, RemoveBooks
<1>4. ASSUME NEW c \in Conns, ExecCheck(c) PROVE Books(ks', X, K)
  <2> DEFINE r == watch[c][chk[c]]
  <2>1. r.slot \in Slots
    <3>1. chk[c] \in DOMAIN watch[c] /\ watch[c] \in Seq(Ref)
      BY <1>4, CheckStep DEF TypeOK
    <3>2. r \in Ref
      BY <3>1
    <3> QED BY <3>2 DEF Ref
  <2>2. ks' = ks \/ ks' = Lookup(ks, r.slot, now)
    BY <1>4 DEF ExecCheck
  <2> HIDE DEF r
  <2> QED BY <1>1, <2>1, <2>2, LookupBooks
<1> QED BY <1>2, <1>3, <1>4

\* The swap keeps the books but for the estimates of its database.
LEMMA SwapBooks ==
  ASSUME NEW st \in KS, NEW d, NEW X, NEW Y, NEW K, Books(st, X, K),
         X \subseteq Y, \A s \in Shards : <<s, d>> \in Y
  PROVE  Books(swapKeyspace(st, d), Y, K)
<1> DEFINE r == swapKeyspace(st, d)
<1>1. /\ r \in KS /\ r.heap = st.heap /\ r.used = st.used
      /\ \A j \in Slots : r.tab[j] = IF DBOf[j] = d THEN Absent ELSE st.tab[j]
  BY SwapType
<1> HIDE DEF r
<1>2. \A j \in Slots : Live(r, j) => Live(st, j) /\ r.tab[j] = st.tab[j]
  BY <1>1 DEF Live
<1>3. IsFiniteSet(LiveAll(r))
  <2>1. LiveAll(r) \subseteq LiveAll(st) /\ IsFiniteSet(LiveAll(st))
    BY <1>2 DEF LiveAll, Books
  <2> QED BY <2>1, FS_Subset
<1>4. \A j \in Slots : Live(r, j) => r.tab[j].mem = Weight(r.tab[j])
  BY <1>2 DEF Books
<1>5. \A j \in Slots \ K : Armed(r, j)
  BY <1>1, <1>2 DEF Books, Armed, Item
<1>6. ASSUME NEW s \in Shards, NEW y \in DBs, <<s, y>> \notin Y
      PROVE  Tallied(r, s, y)
  <2>1. y # d /\ <<s, y>> \notin X
    BY <1>6
  <2>2. LiveIn(r, s, y) = LiveIn(st, s, y) /\ \A j \in LiveIn(st, s, y) : Mems(st)[j] = Mems(r)[j]
    BY <1>1, <2>1 DEF LiveIn, Mems, MemOf, Live
  <2>3. IsSum(st.used[s][y], Mems(st), LiveIn(st, s, y))
    BY <2>1 DEF Books, Tallied
  <2>4. IsFiniteSet(LiveIn(r, s, y)) /\ Ints(Mems(r), LiveIn(r, s, y))
    BY <1>1, <1>3, MemsInt
  <2>5. IsSum(st.used[s][y], Mems(r), LiveIn(st, s, y))
    BY <2>2, <2>3, <2>4, SumSame
  <2> QED BY <1>1, <2>2, <2>5 DEF Tallied
<1>7. \A it \in r.heap : it.at > 0
  BY <1>1 DEF Books
<1>8. Books(r, Y, K)
  BY <1>3, <1>4, <1>5, <1>6, <1>7 DEF Books
<1> QED BY <1>8 DEF r

\* The flush task puts right the estimate of an emptied database of its shard.
LEMMA FlushBooks ==
  ASSUME NEW st \in KS, NEW s \in Shards, NEW d \in DBs, NEW X, NEW Y, NEW K, Books(st, X, K),
         X \subseteq Y \cup {<<s, d>>}, LiveIn(st, s, d) \subseteq K,
         <<s, d>> \in Y \/ LiveIn(st, s, d) = {}
  PROVE  Books(flushDB(st, s, d), Y, K)
<1> DEFINE r == flushDB(st, s, d)
<1>1. /\ r \in KS /\ r.tab = st.tab
      /\ r.heap = {it \in st.heap : ~ (ShardOf[it.slot] = s /\ DBOf[it.slot] = d)}
      /\ \A x \in Shards, y \in DBs :
           r.used[x][y] = IF x = s /\ y = d THEN 0 ELSE st.used[x][y]
  BY FlushDBGood DEF Good
<1> HIDE DEF r
<1>2. /\ LiveAll(r) = LiveAll(st) /\ Mems(r) = Mems(st)
      /\ \A x, y : LiveIn(r, x, y) = LiveIn(st, x, y)
  BY <1>1 DEF LiveAll, LiveIn, Mems, MemOf, Live
<1>3. ASSUME NEW j \in Slots \ K PROVE Armed(r, j)
  <2> SUFFICES ASSUME Live(r, j), r.tab[j].exp > 0 PROVE Item(r, j) \in r.heap
    BY DEF Armed
  <2>1. Live(st, j) /\ Item(r, j) = Item(st, j) /\ Item(st, j) \in st.heap
    BY <1>1 DEF Live, Item, Books, Armed
  <2>2. ~ (ShardOf[j] = s /\ DBOf[j] = d)
    BY <2>1 DEF LiveIn
  <2> QED BY <1>1, <2>1, <2>2 DEF Item
<1>4. ASSUME NEW x \in Shards, NEW y \in DBs, <<x, y>> \notin Y
      PROVE  Tallied(r, x, y)
  <2>1. CASE x = s /\ y = d
    <3>1. r.used[x][y] = 0 /\ LiveIn(r, x, y) = {}
      BY <1>1, <1>2, <1>4, <2>1
    <3> QED BY <3>1, SumEmpty DEF Tallied
  <2>2. CASE ~ (x = s /\ y = d)
    <3>1. r.used[x][y] = st.used[x][y] /\ <<x, y>> \notin X
      BY <1>1, <1>4, <2>2
    <3> QED BY <1>2, <3>1 DEF Tallied, Books
  <2> QED BY <2>1, <2>2
<1>5. /\ IsFiniteSet(LiveAll(r))
      /\ \A j \in Slots : Live(r, j) => r.tab[j].mem = Weight(r.tab[j])
      /\ \A it \in r.heap : it.at > 0
  BY <1>1, <1>2 DEF Books, Live
<1>6. Books(r, Y, K)
  BY <1>3, <1>4, <1>5 DEF Books
<1> QED BY <1>6 DEF r

\* The steps that leave the keyspace alone.
Still(c) ==
  Unwatch(c) \/ ExecPause(c) \/ ExecCommit(c) \/ ExecEnd(c) \/ Eval(c) \/ EvalEnd(c)

\* Every item on the heap has a deadline, flushes or not.
Timed == Books(ks, Shards \X DBs, Slots)

LEMMA TimedStep ==
  ASSUME TypeOK, Timed, [Next]_vars
  PROVE  Timed'
<1> DEFINE X == Shards \X DBs
<1>1. Books(ks, X, Slots) /\ ks \in KS
  BY DEF Timed, TypeOK
<1> SUFFICES Books(ks', X, Slots)
  BY DEF Timed
<1>2. CASE ks' = ks
  BY <1>1, <1>2
<1>3. CASE \E c \in Conns : Command(c)
  <2> HIDE DEF X
  <2> QED BY <1>1, <1>3, CommandBooks
<1>4. CASE \/ \E s \in Shards : Sweep(s)
           \/ \E k \in Slots : Evict(k)
           \/ \E c \in Conns : ExecCheck(c)
  <2> HIDE DEF X
  <2> QED BY <1>1, <1>4, ShardBooks
<1>5. ASSUME NEW c \in Conns, FlushShard(c) PROVE Books(ks', X, Slots)
  <2> DEFINE s == flush[c].next
             d == flush[c].db
  <2>1. s \in Shards /\ d \in DBs
    BY <1>5, FlushRecord DEF FlushShard
  <2>2. ks' = flushDB(ks, s, d)
    BY <1>5 DEF FlushShard, Apply
  <2>3. <<s, d>> \in X /\ LiveIn(ks, s, d) \subseteq Slots /\ X \subseteq X \cup {<<s, d>>}
    BY <2>1 DEF LiveIn
  <2> HIDE DEF X, s, d
  <2> QED BY <1>1, <2>1, <2>2, <2>3, FlushBooks
<1>6. ASSUME NEW c \in Conns, NEW d \in DBs, FlushSwap(c, d) PROVE Books(ks', X, Slots)
  <2>1. ks' = swapKeyspace(ks, d)
    BY <1>6 DEF FlushSwap, Apply
  <2>2. \A s \in Shards : <<s, d>> \in X
    OBVIOUS
  <2> HIDE DEF X
  <2> QED BY <1>1, <2>1, <2>2, SwapBooks
<1>7. CASE Tick \/ \E c \in Conns : Still(c)
  BY <1>2, <1>7 DEF Tick, Still, Unwatch, ExecPause, ExecCommit, ExecEnd, Eval, EvalEnd
<1>8. CASE UNCHANGED vars
  BY <1>2, <1>8 DEF vars
<1> QED BY <1>3, <1>4, <1>5, <1>6, <1>7, <1>8 DEF Next, Transaction, Flush, Still

\* At the start nothing is live and nothing is charged.
LEMMA InitBooks ==
  ASSUME Init, NEW X, NEW K
  PROVE  Books(ks, X, K)
<1>1. LiveAll(ks) = {} /\ \A s, d : LiveIn(ks, s, d) = {}
  BY DEF Init, LiveAll, LiveIn, Live
<1>2. \A s \in Shards, d \in DBs : Tallied(ks, s, d)
  <2>1. ASSUME NEW s \in Shards, NEW d \in DBs PROVE Tallied(ks, s, d)
    <3>1. ks.used[s][d] = 0
      BY DEF Init
    <3> QED BY <1>1, <3>1, SumEmpty DEF Tallied
  <2> QED BY <2>1
<1>3. \A k \in Slots : ~ Live(ks, k)
  BY <1>1 DEF LiveAll
<1>4. \A k \in Slots \ K : Armed(ks, k)
  BY <1>3 DEF Armed
<1>5. ks.heap = {}
  BY DEF Init
<1> QED BY <1>1, <1>2, <1>3, <1>4, <1>5, FS_EmptySet DEF Books

\* The sweep removes a key only for a deadline of its own that has passed.
LEMMA SweepDue ==
  ASSUME TypeOK, Timed, NEW s \in Shards, NEW k \in Slots,
         Sweep(s), Live(ks, k), ks'.tab[k] = Absent
  PROVE  Due(ks.tab[k], now)
<1>1. PICK it \in ks.heap :
        /\ it.at <= now
        /\ LET st  == [ks EXCEPT !.heap = @ \ {it}]
           IN ks' = IF FreshItem(ks, it) THEN Remove(st, it.slot) ELSE st
  BY DEF Sweep, Apply
<1> DEFINE st == [ks EXCEPT !.heap = @ \ {it}]
<1>2. st \in KS /\ st.tab = ks.tab /\ it.slot \in Slots /\ it.at > 0
  BY PopGood DEF Good, TypeOK, Timed, Books, KS, ExpItem
<1>3. ks' = IF FreshItem(ks, it) THEN Remove(st, it.slot) ELSE st
  BY <1>1
<1> HIDE DEF st
<1>4. FreshItem(ks, it)
  BY <1>2, <1>3 DEF Live
<1>5. Live(st, it.slot)
  BY <1>2, <1>4 DEF FreshItem, Live
<1>6. ks'.tab = [ks.tab EXCEPT ![it.slot] = Absent]
  BY <1>2, <1>3, <1>4, <1>5, RemoveType
<1>7. k = it.slot
  BY <1>2, <1>6 DEF Live, TypeOK, KS
<1> QED BY <1>1, <1>2, <1>4, <1>7 DEF FreshItem, Due

\* Active expiry takes no key before its time: an item that an earlier TTL of the key left
\* on the heap is discarded.
THEOREM SweepIsDue == Spec => SweepTakesOnlyDue
<1>1. Init => Timed
  BY InitBooks DEF Timed
<1>2. TypeOK /\ Timed /\ [Next]_vars =>
        \A s \in Shards, k \in Slots :
          Sweep(s) /\ Live(ks, k) /\ ks'.tab[k] = Absent => Due(ks.tab[k], now)
  BY SweepDue
<1>3. Spec => []Timed
  BY <1>1, TimedStep, TypeCorrect, PTL DEF Spec
<1> QED BY <1>2, <1>3, TypeCorrect, PTL DEF Spec, SweepTakesOnlyDue

\* A FLUSHDB under way belongs to the pause's holder, and its database has no live key.
FlushInv ==
  \A c \in Conns : flush[c] # NoFlush =>
    /\ phase[c] \in {"run", "eval"}
    /\ \A k \in Slots : DBOf[k] = flush[c].db => ~ Live(ks, k)

\* The shards that a FLUSHDB has yet to reach, with its database.
Unbooked ==
  {p \in Shards \X DBs :
     \E c \in Conns : flush[c] # NoFlush /\ flush[c].db = p[2] /\ flush[c].next <= p[1]}

BooksInv == Books(ks, Unbooked, {})

\* Whoever the pause lets through, and has no FLUSHDB under way, knows that nobody has.
LEMMA NoneFlushing ==
  ASSUME TypeOK, HoldInv, FlushInv, NEW c \in Conns, flush[c] = NoFlush, holder \in {NoConn, c}
  PROVE  \A x \in Conns : flush[x] = NoFlush
<1> SUFFICES ASSUME NEW x \in Conns, flush[x] # NoFlush PROVE FALSE
  OBVIOUS
<1>1. phase[x] # "idle"
  BY DEF FlushInv
<1>2. holder = x
  BY <1>1 DEF HoldInv
<1> QED BY <1>2, ConstAssumption

\* A command is one task, or a WATCH.
LEMMA CommandTasks ==
  ASSUME NEW c \in Conns, Command(c)
  PROVE  (\E st : Task(c, st)) \/ (\E k \in Slots : Watch(c, k))
<1>1. PICK k \in Slots :
        \/ Get(c, k) \/ Del(c, k) \/ Persist(c, k) \/ Watch(c, k)
        \/ \E v \in Values : SetKeepTTL(c, k, v) \/ MSetOne(c, k, v) \/ Mutate(c, k, v) \/ Fill(c, k, v)
        \/ \E v \in Values, at \in 0..MaxNow : Set(c, k, v, at)
        \/ \E at \in 1..MaxNow : Expire(c, k, at)
  BY DEF Command
<1>2. Get(c, k) \/ Del(c, k) \/ Persist(c, k) => \E st : Task(c, st)
  BY Zenon DEF Get, Del, Persist
<1>3. ASSUME NEW v \in Values, SetKeepTTL(c, k, v) \/ MSetOne(c, k, v) \/ Mutate(c, k, v) \/ Fill(c, k, v)
      PROVE  \E st : Task(c, st)
  BY <1>3, Zenon DEF SetKeepTTL, MSetOne, Mutate, Fill
<1>4. ASSUME NEW v \in Values, NEW at \in 0..MaxNow, Set(c, k, v, at)
      PROVE  \E st : Task(c, st)
  BY <1>4, Zenon DEF Set
<1>5. ASSUME NEW at \in 1..MaxNow, Expire(c, k, at)
      PROVE  \E st : Task(c, st)
  BY <1>5, Zenon DEF Expire
<1> QED BY <1>1, <1>2, <1>3, <1>4, <1>5

\* A command finds no FLUSHDB under way, and neither does EXEC's dirty check.
LEMMA CommandAlone ==
  ASSUME TypeOK, HoldInv, FlushInv, NEW c \in Conns, Command(c) \/ ExecCheck(c)
  PROVE  flush' = flush /\ \A x \in Conns : flush[x] = NoFlush
<1>1. CASE Command(c)
  <2>1. ASSUME NEW st, Task(c, st)
        PROVE  flush' = flush /\ flush[c] = NoFlush /\ holder \in {NoConn, c}
    BY <2>1 DEF Task, Ready, Free
  <2>2. ASSUME NEW k \in Slots, Watch(c, k)
        PROVE  flush' = flush /\ flush[c] = NoFlush /\ holder \in {NoConn, c}
    BY <2>2 DEF Watch, Free
  <2>3. (\E st : Task(c, st)) \/ (\E k \in Slots : Watch(c, k))
    BY <1>1, CommandTasks
  <2>4. flush' = flush /\ flush[c] = NoFlush /\ holder \in {NoConn, c}
    BY <2>1, <2>2, <2>3
  <2> QED BY <2>4, NoneFlushing
<1>2. CASE ExecCheck(c)
  <2>1. flush' = flush /\ phase[c] = "check"
    BY <1>2 DEF ExecCheck
  <2>2. flush[c] = NoFlush /\ holder = c
    BY <2>1 DEF FlushInv, HoldInv
  <2> QED BY <2>1, <2>2, NoneFlushing
<1> QED BY <1>1, <1>2

\* A sweep or an eviction brings no key to life.
LEMMA ShardRemoves ==
  ASSUME TypeOK, \/ \E s \in Shards : Sweep(s)
                 \/ \E k \in Slots : Evict(k)
  PROVE  UNCHANGED <<phase, flush>> /\ \A j \in Slots : Live(ks', j) => Live(ks, j)
<1>1. ks \in KS
  BY DEF TypeOK
<1>2. ASSUME NEW s \in Shards, Sweep(s)
      PROVE  UNCHANGED <<phase, flush>> /\ \A j \in Slots : Live(ks', j) => Live(ks, j)
  <2>1. PICK it \in ks.heap :
          LET st  == [ks EXCEPT !.heap = @ \ {it}]
          IN ks' = IF FreshItem(ks, it) THEN Remove(st, it.slot) ELSE st
    BY <1>2 DEF Sweep, Apply
  <2> DEFINE st == [ks EXCEPT !.heap = @ \ {it}]
  <2>2. st \in KS /\ st.tab = ks.tab /\ it.slot \in Slots
    BY <1>1, PopGood DEF Good, KS, ExpItem
  <2>3. ks' = IF FreshItem(ks, it) THEN Remove(st, it.slot) ELSE st
    BY <2>1
  <2> HIDE DEF st
  <2>4. CASE FreshItem(ks, it)
    <3>1. Live(st, it.slot)
      BY <2>2, <2>4 DEF FreshItem, Live
    <3>2. ks'.tab = [ks.tab EXCEPT ![it.slot] = Absent]
      BY <2>2, <2>3, <2>4, <3>1, RemoveType
    <3> QED BY <1>1, <1>2, <2>2, <3>2 DEF Sweep, Live, KS
  <2>5. CASE ~ FreshItem(ks, it)
    BY <1>2, <2>2, <2>3, <2>5 DEF Sweep, Live
  <2> QED BY <2>4, <2>5
<1>3. ASSUME NEW k \in Slots, Evict(k)
      PROVE  UNCHANGED <<phase, flush>> /\ \A j \in Slots : Live(ks', j) => Live(ks, j)
  <2>1. ks'.tab = [ks.tab EXCEPT ![k] = Absent]
    BY <1>1, <1>3, RemoveType DEF Evict, Apply
  <2> QED BY <1>1, <1>3, <2>1 DEF Evict, Live, KS
<1> QED BY <1>2, <1>3

\* With FLUSHDB inside EXEC or EVAL only, the books stay right.
LEMMA BooksStep ==
  ASSUME ~ PlainFlush, TypeOK, HoldInv, FlushInv, BooksInv, [Next]_vars
  PROVE  FlushInv' /\ BooksInv'
<1>1. ks \in KS /\ Books(ks, Unbooked, {})
  BY DEF TypeOK, BooksInv
<1>2. ASSUME flush' = flush, Books(ks', Unbooked, {}) PROVE BooksInv'
  BY <1>2 DEF BooksInv, Unbooked
<1>3. ASSUME NEW c \in Conns, Command(c) \/ ExecCheck(c) PROVE FlushInv' /\ BooksInv'
  <2>1. flush' = flush /\ \A x \in Conns : flush[x] = NoFlush
    BY <1>3, CommandAlone
  <2>2. Books(ks', Unbooked, {})
    BY <1>1, <1>3, CommandBooks, ShardBooks
  <2> QED BY <1>2, <2>1, <2>2 DEF FlushInv
<1>4. CASE (\E s \in Shards : Sweep(s)) \/ (\E k \in Slots : Evict(k))
  <2>1. UNCHANGED <<phase, flush>> /\ \A j \in Slots : Live(ks', j) => Live(ks, j)
    BY <1>4, ShardRemoves
  <2>2. Books(ks', Unbooked, {})
    BY <1>1, <1>4, ShardBooks
  <2> QED BY <1>2, <2>1, <2>2 DEF FlushInv
<1>5. ASSUME NEW c \in Conns, Still(c) PROVE FlushInv' /\ BooksInv'
  <2>1. UNCHANGED <<ks, flush>>
    BY <1>5 DEF Still, Unwatch, ExecPause, ExecCommit, ExecEnd, Eval, EvalEnd
  <2>2. \A x \in Conns \ {c} : phase'[x] = phase[x]
    BY <1>5 DEF Still, Unwatch, ExecPause, ExecCommit, ExecEnd, Eval, EvalEnd, ExecLeave, TypeOK
  <2>3. flush[c] = NoFlush
    BY <1>5 DEF Still, Unwatch, ExecPause, ExecCommit, ExecEnd, Eval, EvalEnd, FlushInv
  <2>4. FlushInv'
    BY <2>1, <2>2, <2>3 DEF FlushInv
  <2> QED BY <1>1, <1>2, <2>1, <2>4
<1>6. CASE Tick \/ UNCHANGED vars
  <2>1. UNCHANGED <<ks, phase, flush>>
    BY <1>6 DEF Tick, vars
  <2> QED BY <1>1, <1>2, <2>1 DEF FlushInv
<1>7. ASSUME NEW c \in Conns, NEW d \in DBs, FlushSwap(c, d) PROVE FlushInv' /\ BooksInv'
  <2>1. /\ phase[c] \in {"run", "eval"} /\ flush[c] = NoFlush /\ phase' = phase
        /\ ks' = swapKeyspace(ks, d)
        /\ flush' = [flush EXCEPT ![c] = [db |-> d, next |-> 1]]
    BY <1>7 DEF FlushSwap, Ready, Apply
  <2>2. holder = c
    BY <2>1 DEF HoldInv
  <2>3. \A x \in Conns : flush[x] = NoFlush
    BY <2>1, <2>2, NoneFlushing
  <2>4. /\ flush'[c] = [db |-> d, next |-> 1] /\ flush'[c] # NoFlush
        /\ flush'[c].db = d /\ flush'[c].next = 1
        /\ \A x \in Conns \ {c} : flush'[x] = NoFlush
    <3>1. flush'[c] = [db |-> d, next |-> 1] /\ d # NoConn
      BY <2>1, ConstAssumption DEF TypeOK
    <3>2. \A x \in Conns \ {c} : flush'[x] = NoFlush
      BY <2>1, <2>3 DEF TypeOK
    <3> QED BY <3>1, <3>2 DEF NoFlush
  <2>5. \A j \in Slots : DBOf[j] = d => ~ Live(ks', j)
    BY <1>1, <2>1, SwapType DEF Live
  <2>6. FlushInv'
    BY <2>1, <2>4, <2>5 DEF FlushInv
  <2>7. Unbooked \subseteq Unbooked' /\ \A s \in Shards : <<s, d>> \in Unbooked'
    <3>1. Unbooked = {}
      BY <2>3 DEF Unbooked
    <3>2. \A s \in Shards : 1 <= s
      BY ConstAssumption DEF Shards
    <3> QED BY <2>4, <3>1, <3>2 DEF Unbooked
  <2>8. Books(ks', Unbooked', {})
    BY <1>1, <2>1, <2>7, SwapBooks
  <2> QED BY <2>6, <2>8 DEF BooksInv
<1>8. ASSUME NEW c \in Conns, FlushShard(c) PROVE FlushInv' /\ BooksInv'
  <2> DEFINE s == flush[c].next
             d == flush[c].db
  <2>1. s \in Shards /\ d \in DBs /\ flush[c] # NoFlush
    BY <1>8, FlushRecord DEF FlushShard
  <2>2. /\ ks' = flushDB(ks, s, d) /\ phase' = phase
        /\ flush' = [flush EXCEPT ![c] = IF s = NShards THEN NoFlush
                                         ELSE [db |-> d, next |-> s + 1]]
    BY <1>8 DEF FlushShard, Apply
  <2>3. \A x \in Conns \ {c} : flush[x] = NoFlush
    <3> SUFFICES ASSUME NEW x \in Conns \ {c}, flush[x] # NoFlush PROVE FALSE
      OBVIOUS
    <3>1. phase[x] # "idle" /\ phase[c] # "idle"
      BY <2>1 DEF FlushInv
    <3> QED BY <3>1 DEF HoldInv
  <2>4. \A x \in Conns \ {c} : flush'[x] = NoFlush
    BY <2>2, <2>3 DEF TypeOK
  <2>5. flush'[c] = IF s = NShards THEN NoFlush ELSE [db |-> d, next |-> s + 1]
    BY <2>2 DEF TypeOK
  <2>6. ks'.tab = ks.tab
    BY <1>1, <2>1, <2>2, FlushDBGood
  <2>7. phase[c] \in {"run", "eval"} /\ \A k \in Slots : DBOf[k] = d => ~ Live(ks, k)
    BY <2>1 DEF FlushInv
  <2>8. FlushInv'
    <3>1. flush'[c] # NoFlush => flush'[c].db = d
      BY <2>5
    <3>2. \A k \in Slots : Live(ks', k) <=> Live(ks, k)
      BY <2>6 DEF Live
    <3> HIDE DEF s, d
    <3> QED BY <2>2, <2>4, <2>7, <3>1, <3>2 DEF FlushInv
  <2>9. Unbooked \subseteq Unbooked' \cup {<<s, d>>}
    <3> SUFFICES ASSUME NEW x \in Shards, NEW y \in DBs, <<x, y>> \in Unbooked, <<x, y>> # <<s, d>>
                 PROVE  <<x, y>> \in Unbooked'
      BY DEF Unbooked
    <3>1. y = d /\ s <= x
      BY <2>3 DEF Unbooked
    <3>2. s \in 1..NShards /\ x \in 1..NShards /\ s # x /\ NShards \in Nat
      BY <2>1, <3>1, ConstAssumption DEF Shards
    <3>3. s # NShards /\ s + 1 <= x
      BY <3>1, <3>2
    <3>4. flush'[c] = [db |-> d, next |-> s + 1] /\ d # NoConn
      BY <2>1, <2>5, <3>3, ConstAssumption
    <3>5. flush'[c] # NoFlush /\ flush'[c].db = d /\ flush'[c].next = s + 1
      BY <3>4 DEF NoFlush
    <3> QED BY <3>1, <3>3, <3>5 DEF Unbooked
  <2>10. LiveIn(ks, s, d) = {}
    BY <2>7 DEF LiveIn
  <2>11. Books(ks', Unbooked', {})
    <3> HIDE DEF s, d
    <3>1. LiveIn(ks, s, d) \subseteq {}
      BY <2>10
    <3> QED BY <1>1, <2>1, <2>2, <2>9, <2>10, <3>1, FlushBooks
  <2> QED BY <2>8, <2>11 DEF BooksInv
<1> QED BY <1>3, <1>4, <1>5, <1>6, <1>7, <1>8 DEF Next, Transaction, Flush, Still

\* A tally is the sum that MemAccounted computes.
LEMMA TallyIs ==
  ASSUME ks \in KS, NEW s \in Shards, NEW d \in DBs, Tallied(ks, s, d), IsFiniteSet(LiveAll(ks)),
         \A k \in Slots : Live(ks, k) => ks.tab[k].mem = Weight(ks.tab[k])
  PROVE  ks.used[s][d] =
           MapThenSumSet(LAMBDA k : Weight(ks.tab[k]),
                         {k \in Slots : /\ ShardOf[k] = s /\ DBOf[k] = d
                                        /\ Live(ks, k)})
<1> DEFINE S == {k \in Slots : ShardOf[k] = s /\ DBOf[k] = d /\ Live(ks, k)}
           Sum == MapThenSumSet(LAMBDA k : Weight(ks.tab[k]), S)
           g == [k \in S |-> Weight(ks.tab[k])]
           Eq(h) == h = [T \in SUBSET S |->
                           IF T = {} THEN 0
                           ELSE Weight(ks.tab[CHOOSE x \in T : TRUE])
                                + h[T \ {CHOOSE x \in T : TRUE}]]
           iter == CHOOSE h : Eq(h)
<1>1. Sum = iter[S]
  BY DEF MapThenSumSet, MapThenFoldSet
<1>2. S = LiveIn(ks, s, d) /\ IsFiniteSet(S)
  <2>1. S = LiveIn(ks, s, d)
    BY DEF LiveIn
  <2> HIDE DEF S
  <2> QED BY <2>1, MemsInt
<1>3. \A k \in S : g[k] = Mems(ks)[k] /\ g[k] \in Int
  <2>1. \A k \in S : g[k] = Mems(ks)[k]
    BY DEF Mems, MemOf
  <2> HIDE DEF S, g
  <2>2. \A k \in S : Mems(ks)[k] \in Int
    BY <1>2, MemsInt DEF Ints
  <2> QED BY <2>1, <2>2
<1>4. IsSum(ks.used[s][d], g, S)
  <2>1. IsSum(ks.used[s][d], Mems(ks), S)
    BY <1>2 DEF Tallied
  <2> HIDE DEF S, g
  <2> QED BY <1>2, <1>3, <2>1, SumSame DEF Ints
<1>5. PICK f \in [SUBSET S -> Int] : Sums(f, g, S) /\ ks.used[s][d] = f[S]
  <2> HIDE DEF S, g
  <2> QED BY <1>4 DEF IsSum
<1>6. ASSUME NEW h PROVE Eq(h) <=> Sums(h, g, S)
  <2>1. ASSUME NEW T \in SUBSET S, T # {}
        PROVE  g[CHOOSE x \in T : TRUE] = Weight(ks.tab[CHOOSE x \in T : TRUE])
    <3>1. (CHOOSE x \in T : TRUE) \in S
      <4> HIDE DEF S
      <4> QED BY <2>1
    <3> QED BY <3>1
  <2>2. [T \in SUBSET S |->
           IF T = {} THEN 0
           ELSE Weight(ks.tab[CHOOSE x \in T : TRUE]) + h[T \ {CHOOSE x \in T : TRUE}]]
        = [T \in SUBSET S |->
             IF T = {} THEN 0
             ELSE g[CHOOSE x \in T : TRUE] + h[T \ {CHOOSE x \in T : TRUE}]]
    <3> HIDE DEF S, g
    <3> QED BY <2>1
  <2> QED BY <2>2 DEF Sums, Pick
<1>7. Eq(iter)
  <2> HIDE DEF Eq, S, g
  <2> QED BY <1>5, <1>6
<1>8. iter[S] = f[S]
  <2> HIDE DEF Eq, S, g, iter
  <2> QED BY <1>2, <1>5, <1>6, <1>7, SumsAgree
<1> HIDE DEF iter
<1> QED BY <1>1, <1>5, <1>8

\* The books, once no FLUSHDB is under way, are what IndexesAgree asks for.
LEMMA BooksAgree ==
  ASSUME TypeOK, BooksInv
  PROVE  IndexesAgree
<1> SUFFICES ASSUME \A c \in Conns : flush[c] = NoFlush
             PROVE  /\ \A s \in Shards, d \in DBs :
                         ks.used[s][d] =
                           MapThenSumSet(LAMBDA k : Weight(ks.tab[k]),
                                         {k \in Slots : /\ ShardOf[k] = s /\ DBOf[k] = d
                                                        /\ Live(ks, k)})
                    /\ \A k \in Slots :
                         Live(ks, k) /\ ks.tab[k].exp > 0 =>
                           [slot |-> k, at |-> ks.tab[k].exp, gen |-> ks.tab[k].gen] \in ks.heap
  BY DEF IndexesAgree, MemAccounted, ExpiryIndexed
<1>1. Books(ks, {}, {}) /\ ks \in KS
  <2>1. Unbooked = {}
    BY DEF Unbooked
  <2> QED BY <2>1 DEF BooksInv, TypeOK
<1>2. /\ \A s \in Shards, d \in DBs : Tallied(ks, s, d)
      /\ IsFiniteSet(LiveAll(ks))
      /\ \A k \in Slots : Live(ks, k) => ks.tab[k].mem = Weight(ks.tab[k])
  BY <1>1 DEF Books
<1>3. \A k \in Slots : Armed(ks, k)
  BY <1>1 DEF Books
<1> QED BY <1>1, <1>2, <1>3, TallyIs DEF Armed, Item

\* The memory estimate that maxmemory is enforced against is the sum of the weights the live
\* entries are booked at, a collection just filled at that of an empty one, and the expiry heap
\* has every deadline of the table, whatever the commands, expiries, evictions and flushes of EXEC and
\* EVAL; a FLUSHDB outside them opens the window that module Keyspace describes.
THEOREM IndexesAreSound ==
  ASSUME ~ PlainFlush
  PROVE  Spec => []IndexesAgree
<1>1. Init => HoldInv /\ FlushInv /\ BooksInv
  BY InitBooks DEF Init, HoldInv, FlushInv, BooksInv
<1>2. TypeOK /\ HoldInv /\ FlushInv /\ BooksInv /\ [Next]_vars => FlushInv' /\ BooksInv'
  BY BooksStep
<1> QED BY <1>1, <1>2, TypeCorrect, HoldStep, BooksAgree, PTL DEF Spec
=============================================================================
