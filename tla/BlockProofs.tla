------------------------------ MODULE BlockProofs ------------------------------
(* Proofs about Block: the waiter FIFOs and the parked commands agree, and   *)
(* no wake is missed by pops on one key without timeouts, for any number of  *)
(* connections, keys, elements and commands.                                 *)
EXTENDS Block, WellFoundedInduction, TLAPS

(* Loops over sequences: what a loop computes, by induction for sets.        *)

\* A set with 0 and with every successor of its members has all natural numbers.
LEMMA SetInduction ==
  ASSUME NEW S, 0 \in S, \A n \in Nat : n \in S => n + 1 \in S
  PROVE  Nat \subseteq S
<1> DEFINE T == Nat \ S
           R == {ss \in Nat \X Nat : ss[1] < ss[2]}
<1> SUFFICES ASSUME T # {} PROVE FALSE
  OBVIOUS
<1>1. IsWellFoundedOn(R, Nat) /\ T \subseteq Nat
  BY NatLessThanWellFounded DEF OpToRel
<1>2. PICK x \in T : \A y \in T : ~ (<<y, x>> \in R)
  <2> HIDE DEF T, R
  <2> QED BY <1>1, WFMin
<1>3. x # 0 /\ x - 1 \in Nat /\ x = (x - 1) + 1 /\ x - 1 < x /\ x \in Nat
  OBVIOUS
<1>4. <<x - 1, x>> \in R
  BY <1>3
<1>5. x - 1 \in S
  BY <1>2, <1>3, <1>4
<1> QED BY <1>3, <1>5

\* Round n of a loop takes a value t of T to G[n][t], in T again; f has the values that N
\* rounds lead to from b.
Rounds(G, N, T) == \A n \in 1..N, t \in T : G[n][t] \in T
Runs(f, G, N, b) == f[0] = b /\ \A n \in 1..N : f[n] = G[n][f[n - 1]]

LEMMA Loop ==
  ASSUME NEW N \in Nat, NEW T, NEW b \in T, NEW G, Rounds(G, N, T)
  PROVE  \E f \in [0..N -> T] : Runs(f, G, N, b)
<1> USE DEF Rounds, Runs
<1> DEFINE Good(f, m) == f[0] = b /\ \A n \in 1..m : f[n] = G[n][f[n - 1]]
           S == {m \in Nat : m <= N => \E f \in [0..m -> T] : Good(f, m)}
<1>1. 0 \in S
  <2>1. Good([i \in 0..0 |-> b], 0)
    OBVIOUS
  <2>2. [i \in 0..0 |-> b] \in [0..0 -> T]
    OBVIOUS
  <2> QED BY <2>1, <2>2
<1>2. ASSUME NEW m \in Nat, m \in S PROVE m + 1 \in S
  <2> SUFFICES ASSUME m + 1 <= N PROVE \E f \in [0..(m + 1) -> T] : Good(f, m + 1)
    OBVIOUS
  <2>1. PICK f \in [0..m -> T] : Good(f, m)
    BY <1>2
  <2> DEFINE g == [i \in 0..(m + 1) |-> IF i <= m THEN f[i] ELSE G[m + 1][f[m]]]
  <2>2. G[m + 1][f[m]] \in T
    BY <2>1
  <2>3. g \in [0..(m + 1) -> T]
    BY <2>1, <2>2
  <2>4. ASSUME NEW n \in 1..(m + 1) PROVE g[n] = G[n][g[n - 1]]
    <3>1. CASE n <= m
      <4>1. g[n] = f[n] /\ g[n - 1] = f[n - 1] /\ n \in 1..m
        BY <3>1
      <4> QED BY <2>1, <4>1
    <3>2. CASE n = m + 1
      <4>1. g[n] = G[m + 1][f[m]] /\ g[n - 1] = f[m] /\ n - 1 = m
        BY <3>2
      <4> QED BY <3>2, <4>1
    <3> QED BY <3>1, <3>2
  <2>5. g[0] = b
    BY <2>1
  <2> QED BY <2>3, <2>4, <2>5
<1>3. N \in S
  <2> HIDE DEF S
  <2> QED BY <1>1, <1>2, SetInduction
<1> QED BY <1>3

-----------------------------------------------------------------------------

LEMMA Appended ==
  ASSUME NEW S, NEW q \in Seq(S), NEW x \in S
  PROVE  Append(q, x) \in Seq(S) /\ ToSet(Append(q, x)) = ToSet(q) \cup {x}
<1>1. /\ Append(q, x) \in Seq(S) /\ Len(Append(q, x)) = Len(q) + 1 /\ Len(q) \in Nat
      /\ \A i \in 1..Len(q) : Append(q, x)[i] = q[i]
      /\ Append(q, x)[Len(q) + 1] = x
  OBVIOUS
<1> DEFINE r == Append(q, x)
<1>2. DOMAIN q = 1..Len(q) /\ DOMAIN r = 1..Len(r)
  BY <1>1
<1> HIDE DEF r
<1>3. \A y \in ToSet(r) : y \in ToSet(q) \cup {x}
  BY <1>1, <1>2 DEF ToSet, r
<1>4. \A y \in ToSet(q) \cup {x} : y \in ToSet(r)
  BY <1>1, <1>2 DEF ToSet, r
<1> QED BY <1>1, <1>3, <1>4 DEF r

\* What is left of a FIFO when a waiter goes.
LEMMA WithoutIs ==
  ASSUME NEW S, NEW q \in Seq(S), NEW c
  PROVE  Without(q, c) \in Seq(S) /\ ToSet(Without(q, c)) = ToSet(q) \ {c}
<1> DEFINE N == Len(q)
           Body(g) == [n \in 0..N |-> IF n = 0 THEN <<>>
                                      ELSE IF q[n] = c THEN g[n - 1] ELSE Append(g[n - 1], q[n])]
           out == CHOOSE g : g = Body(g)
           G == [n \in 1..N |-> [t \in Seq(S) |-> IF q[n] = c THEN t ELSE Append(t, q[n])]]
<1>1. Without(q, c) = out[N]
  BY DEF Without
<1>2. out = Body(out)
  <2>1. N \in Nat /\ <<>> \in Seq(S) /\ \A n \in 1..N, t \in Seq(S) : G[n][t] \in Seq(S)
    OBVIOUS
  <2>2. PICK f \in [0..N -> Seq(S)] : Runs(f, G, N, <<>>)
    <3>1. N \in Nat /\ <<>> \in Seq(S) /\ Rounds(G, N, Seq(S))
      BY <2>1 DEF Rounds
    <3> HIDE DEF N, G
    <3> QED BY <3>1, Loop
  <2>3. ASSUME NEW n \in 0..N
        PROVE  f[n] = IF n = 0 THEN <<>>
                      ELSE IF q[n] = c THEN f[n - 1] ELSE Append(f[n - 1], q[n])
    <3>1. CASE n = 0
      BY <2>2, <3>1 DEF Runs
    <3>2. CASE n # 0
      <4>1. n \in 1..N /\ n - 1 \in 0..N
        BY <2>1, <3>2
      <4>2. f[n] = G[n][f[n - 1]] /\ f[n - 1] \in Seq(S)
        BY <2>2, <4>1 DEF Runs
      <4> QED BY <3>2, <4>1, <4>2
    <3> QED BY <3>1, <3>2
  <2>4. f = Body(f)
    BY <2>2, <2>3
  <2> HIDE DEF Body
  <2> QED BY <2>4
<1> DEFINE Right(m) == out[m] \in Seq(S) /\ ToSet(out[m]) = {q[i] : i \in 1..m} \ {c}
           I == {m \in Nat : m <= N => Right(m)}
<1>3. out[0] = <<>> /\ \A n \in 1..N : out[n] = IF q[n] = c THEN out[n - 1]
                                                ELSE Append(out[n - 1], q[n])
  <2> HIDE DEF out
  <2>1. N \in Nat /\ 0 \in 0..N /\ \A n \in 1..N : n \in 0..N /\ n # 0
    OBVIOUS
  <2> HIDE DEF N
  <2>2. \A n \in 0..N : out[n] = IF n = 0 THEN <<>>
                                 ELSE IF q[n] = c THEN out[n - 1] ELSE Append(out[n - 1], q[n])
    BY <1>2
  <2>3. out[0] = <<>>
    BY <2>1, <2>2
  <2>4. ASSUME NEW n \in 1..N
        PROVE  out[n] = IF q[n] = c THEN out[n - 1] ELSE Append(out[n - 1], q[n])
    BY <2>1, <2>2
  <2> QED BY <2>3, <2>4
<1> HIDE DEF out
<1>4. 0 \in I
  <2>1. ToSet(<<>>) = {} /\ {q[i] : i \in 1..0} = {}
    BY DEF ToSet
  <2>2. Right(0)
    BY <1>3, <2>1
  <2> HIDE DEF Right
  <2> QED BY <2>2
<1>5. ASSUME NEW m \in Nat, m \in I PROVE m + 1 \in I
  <2> SUFFICES ASSUME m + 1 <= N
               PROVE  /\ out[m + 1] \in Seq(S)
                      /\ ToSet(out[m + 1]) = {q[i] : i \in 1..(m + 1)} \ {c}
    OBVIOUS
  <2>1. out[m] \in Seq(S) /\ ToSet(out[m]) = {q[i] : i \in 1..m} \ {c}
    BY <1>5
  <2>2. m + 1 \in 1..N /\ q[m + 1] \in S /\ (m + 1) - 1 = m
    OBVIOUS
  <2>3. {q[i] : i \in 1..(m + 1)} = {q[i] : i \in 1..m} \cup {q[m + 1]}
    OBVIOUS
  <2>4. CASE q[m + 1] = c
    BY <1>3, <2>1, <2>2, <2>3, <2>4
  <2>5. CASE q[m + 1] # c
    <3>1. out[m + 1] = Append(out[m], q[m + 1])
      BY <1>3, <2>2, <2>5
    <3>2. ToSet(Append(out[m], q[m + 1])) = ToSet(out[m]) \cup {q[m + 1]}
      BY <2>1, <2>2, Appended
    <3> QED BY <2>1, <2>2, <2>3, <2>5, <3>1, <3>2
  <2> QED BY <2>4, <2>5
<1>6. N \in I
  <2> HIDE DEF I
  <2> QED BY <1>4, <1>5, SetInduction
<1>7. {q[i] : i \in 1..N} = ToSet(q)
  BY DEF ToSet
<1> QED BY <1>1, <1>6, <1>7

-----------------------------------------------------------------------------
(* The invariant.                                                          *)

Stages == {"idle", "try", "undo", "park", "dereg", "peek", "put", "cut"}
CmdT == [kind : {"none", "bpop", "bmove", "move"}, type : Types \cup {"none"}, keys : Seq(Keys), dst : Seq(Keys),
         tmo : BOOLEAN, exec : BOOLEAN]

Typed ==
  /\ conf \in Confs /\ size \in [Keys -> Nat] /\ pushed \in 0..conf.maxElems
  /\ waiters \in [Keys -> Seq(Clients)] /\ sig \in [Clients -> BOOLEAN]
  /\ late \in [Clients -> BOOLEAN] /\ closing \in BOOLEAN
  /\ cmds \in [Clients -> Nat] /\ \A c \in Clients : cmds[c] <= conf.maxCmds[c]
  /\ pc \in [Clients -> Stages] /\ cmd \in [Clients -> CmdT] /\ idx \in [Clients -> Nat]

\* Where a command can be, with index i into its keys.
PlaceOk(st, m, i) ==
  /\ st # "idle" => i \in 1..Len(m.keys)
  /\ st = "undo" => i >= 2 /\ m.kind = "bpop"
  /\ st \in {"undo", "park", "dereg"} => ~ m.exec
  /\ st \in {"try", "park", "dereg"} => m.kind \in {"bpop", "bmove"}
  /\ st \in {"peek", "put", "cut"} => m.kind \in {"bmove", "move"}
  /\ m.kind \in {"bmove", "move"} => Len(m.keys) = 1 /\ Len(m.dst) = 1

\* The keys whose FIFO may have the command's waiter ...
MayWait(st, m, i, k) ==
  \/ st = "try" /\ ~ m.exec /\ \E j \in 1..(i - 1) : m.keys[j] = k
  \/ st = "undo" /\ \E j \in 1..(i - 1) : m.keys[j] = k
  \/ st = "park" /\ \E j \in 1..Len(m.keys) : m.keys[j] = k
  \/ st = "dereg" /\ \E j \in i..Len(m.keys) : m.keys[j] = k

\* ... and those of a blocking pop whose FIFO must have it.
MustWait(st, m, i, k) ==
  \/ st = "try" /\ ~ m.exec /\ \E j \in 1..(i - 1) : m.keys[j] = k
  \/ st = "park" /\ \E j \in 1..Len(m.keys) : m.keys[j] = k

In(k, c) == c \in ToSet(waiters[k])

PlaceInv == \A c \in Clients : PlaceOk(pc[c], cmd[c], idx[c])
MayInv == \A c \in Clients, k \in Keys : In(k, c) => MayWait(pc[c], cmd[c], idx[c], k)
MustInv == \A c \in Clients, k \in Keys :
             cmd[c].kind = "bpop" /\ MustWait(pc[c], cmd[c], idx[c], k) => In(k, c)

\* Where pops on one key without timeouts are: c is to look at k, with nothing to wait for.
On(st, m, k) == st # "idle" /\ m.keys[1] = k
Awake(st, m, s, k) == On(st, m, k) /\ (st \in {"try", "dereg"} \/ s)

PlainPlace(st, m, i, l) ==
  /\ st \in {"idle", "try", "park", "dereg"} /\ ~ l
  /\ st # "idle" => Len(m.keys) = 1 /\ i = 1 /\ m.kind = "bpop" /\ ~ m.tmo

\* As long as a key has elements and a waiter, somebody is to look at it.
ServedInv ==
  \A k \in Keys : size[k] > 0 /\ (\E c \in Clients : pc[c] = "park" /\ On(pc[c], cmd[c], k))
                    => \E d \in Clients : Awake(pc[d], cmd[d], sig[d], k)

PlainInv ==
  /\ ~ closing /\ ServedInv
  /\ \A c \in Clients : PlainPlace(pc[c], cmd[c], idx[c], late[c])

\* The types: of a key that is there, and where one type is in use of everything.
KindInv ==
  /\ type \in [Keys -> Types \cup {"none"}]
  /\ \A k \in Keys : type[k] \in IF size[k] = 0 THEN {"none"} ELSE Types
  /\ Plain => /\ \A k \in Keys : size[k] > 0 => type[k] \in conf.types
              /\ \A c \in Clients : pc[c] # "idle" => cmd[c].type \in conf.types

BlockInv ==
  /\ Typed /\ PlaceInv /\ MustInv
  /\ ~ closing => MayInv
  /\ Plain => PlainInv

-----------------------------------------------------------------------------
(* What the steps have in common.                                          *)

LEMMA Shape ==
  ASSUME conf \in Confs
  PROVE  /\ conf.types \subseteq Types /\ conf.keySeqs \subseteq Seq(Keys) /\ <<>> \notin conf.keySeqs
         /\ conf.moves \subseteq Keys \X Keys
         /\ conf.timeouts \subseteq BOOLEAN /\ conf.inExec \subseteq BOOLEAN
         /\ conf.maxElems \in Nat /\ conf.maxCmds \in [Clients -> Nat]
BY BlockAssumption DEF Conf

\* The commands of the other clients stay.
Alone(c) == \A d \in Clients \ {c} : /\ pc'[d] = pc[d] /\ cmd'[d] = cmd[d]
                                     /\ idx'[d] = idx[d] /\ late'[d] = late[d]

LEMMA PlaceAfter ==
  ASSUME PlaceInv, NEW c \in Clients, Alone(c), PlaceOk(pc'[c], cmd'[c], idx'[c])
  PROVE  PlaceInv'
BY DEF PlaceInv, Alone

\* The FIFOs, when only c's membership changes.
LEMMA FifosAfter ==
  ASSUME MustInv, NEW c \in Clients, Alone(c),
         \A d \in Clients \ {c}, k \in Keys : In(k, d)' <=> In(k, d),
         \A k \in Keys : /\ cmd'[c].kind = "bpop" /\ MustWait(pc'[c], cmd'[c], idx'[c], k) => In(k, c)'
                         /\ ~ closing /\ MayInv /\ In(k, c)' => MayWait(pc'[c], cmd'[c], idx'[c], k)
  PROVE  MustInv' /\ (~ closing /\ MayInv => MayInv')
<1>1. MustInv'
  <2> SUFFICES ASSUME NEW d \in Clients, NEW k \in Keys, cmd'[d].kind = "bpop",
                      MustWait(pc'[d], cmd'[d], idx'[d], k)
               PROVE  In(k, d)'
    BY DEF MustInv
  <2>1. CASE d = c
    BY <2>1
  <2>2. CASE d # c
    BY <2>2 DEF MustInv, Alone
  <2> QED BY <2>1, <2>2
<1>2. ASSUME ~ closing, MayInv PROVE MayInv'
  <2> SUFFICES ASSUME NEW d \in Clients, NEW k \in Keys, In(k, d)'
               PROVE  MayWait(pc'[d], cmd'[d], idx'[d], k)
    BY DEF MayInv
  <2>1. CASE d = c
    BY <1>2, <2>1
  <2>2. CASE d # c
    BY <1>2, <2>2 DEF MayInv, Alone
  <2> QED BY <2>1, <2>2
<1> QED BY <1>1, <1>2

LEMMA SameFifos ==
  ASSUME MustInv, NEW c \in Clients, Alone(c), waiters' = waiters,
         \A k \in Keys :
           /\ cmd'[c].kind = "bpop" /\ MustWait(pc'[c], cmd'[c], idx'[c], k)
                => cmd[c].kind = "bpop" /\ MustWait(pc[c], cmd[c], idx[c], k)
           /\ ~ closing /\ MayInv /\ MayWait(pc[c], cmd[c], idx[c], k)
                => MayWait(pc'[c], cmd'[c], idx'[c], k)
  PROVE  MustInv' /\ (~ closing /\ MayInv => MayInv')
<1>1. \A d \in Clients, k \in Keys : In(k, d)' <=> In(k, d)
  BY DEF In
<1>2. \A k \in Keys : cmd'[c].kind = "bpop" /\ MustWait(pc'[c], cmd'[c], idx'[c], k) => In(k, c)'
  BY <1>1 DEF MustInv
<1>3. \A k \in Keys : ~ closing /\ MayInv /\ In(k, c)' => MayWait(pc'[c], cmd'[c], idx'[c], k)
  BY <1>1 DEF MayInv
<1> QED BY <1>1, <1>2, <1>3, FifosAfter

\* A wake of a key somebody is parked on reaches one who is to look at it.
LEMMA Woken ==
  ASSUME Typed, PlaceInv, MustInv, MayInv, PlainInv, NEW k \in Keys, NEW e \in Clients,
         pc[e] = "park", On(pc[e], cmd[e], k)
  PROVE  \E h \in Clients : /\ pc[h] \in {"park", "dereg"} /\ On(pc[h], cmd[h], k)
                            /\ WakeWaiter(k)[h]
<1>1. In(k, e)
  <2>1. cmd[e].kind = "bpop" /\ Len(cmd[e].keys) = 1 /\ cmd[e].keys[1] = k
    BY DEF PlainInv, PlainPlace, On
  <2>2. MustWait(pc[e], cmd[e], idx[e], k)
    BY <2>1 DEF MustWait
  <2> QED BY <2>1, <2>2 DEF MustInv
<1> DEFINE h == Head(waiters[k])
<1>2. waiters[k] # <<>> /\ h \in Clients /\ In(k, h)
  BY <1>1 DEF Typed, In, ToSet
<1>3. pc[h] \in {"park", "dereg"} /\ On(pc[h], cmd[h], k)
  <2>1. MayWait(pc[h], cmd[h], idx[h], k) /\ PlainPlace(pc[h], cmd[h], idx[h], late[h])
    BY <1>2 DEF MayInv, PlainInv
  <2>2. pc[h] \in {"park", "dereg"} /\ idx[h] = 1 /\ Len(cmd[h].keys) = 1
    <3>1. pc[h] # "idle" /\ pc[h] # "undo"
      BY <2>1 DEF MayWait, PlainPlace
    <3>2. idx[h] = 1 /\ Len(cmd[h].keys) = 1 /\ pc[h] \in {"try", "park", "dereg"}
      BY <2>1, <3>1 DEF PlainPlace
    <3>3. 1..(idx[h] - 1) = {}
      BY <3>2
    <3> QED BY <2>1, <3>2, <3>3 DEF MayWait
  <2>3. cmd[h].keys[1] = k
    BY <2>1, <2>2 DEF MayWait
  <2> QED BY <2>2, <2>3 DEF On
<1>4. WakeWaiter(k)[h] = TRUE
  BY <1>2 DEF WakeWaiter, Typed
<1> QED BY <1>2, <1>3, <1>4

\* The signals that a wake leaves.
LEMMA Wakes ==
  ASSUME Typed, NEW k \in Keys
  PROVE  /\ WakeWaiter(k) \in [Clients -> BOOLEAN]
         /\ \A d \in Clients : sig[d] => WakeWaiter(k)[d]
<1>1. waiters[k] # <<>> => Head(waiters[k]) \in Clients
  BY DEF Typed
<1> QED BY <1>1 DEF WakeWaiter, Typed

\* The plain workload after a step of c that wakes nobody: c still looks at the keys it was to
\* look at, unless they are empty, and does not park on a key with elements.
LEMMA QuietPlain ==
  ASSUME Typed, PlainInv, NEW c \in Clients, Alone(c), closing' = closing,
         PlainPlace(pc'[c], cmd'[c], idx'[c], late'[c]),
         \A k \in Keys : size[k] = 0 => size'[k] = 0, size' \in [Keys -> Nat],
         \A d \in Clients \ {c} : sig[d] => sig'[d],
         \A k \in Keys : size'[k] > 0 =>
            /\ Awake(pc[c], cmd[c], sig[c], k) => Awake(pc'[c], cmd'[c], sig'[c], k)
            /\ pc'[c] = "park" /\ On(pc'[c], cmd'[c], k) => pc[c] = "park" /\ On(pc[c], cmd[c], k)
  PROVE  PlainInv'
<1>1. ServedInv'
  <2> SUFFICES ASSUME NEW k \in Keys, size'[k] > 0, NEW e \in Clients, pc'[e] = "park",
                      On(pc'[e], cmd'[e], k)
               PROVE  \E d \in Clients : Awake(pc'[d], cmd'[d], sig'[d], k)
    BY DEF ServedInv
  <2>1. size[k] > 0
    BY DEF Typed
  <2>2. pc[e] = "park" /\ On(pc[e], cmd[e], k)
    BY DEF Alone
  <2>3. PICK d \in Clients : Awake(pc[d], cmd[d], sig[d], k)
    BY <2>1, <2>2 DEF PlainInv, ServedInv
  <2>4. CASE d = c
    BY <2>3, <2>4
  <2>5. CASE d # c
    BY <2>3, <2>5 DEF Alone, Awake
  <2> QED BY <2>4, <2>5
<1>2. \A d \in Clients : PlainPlace(pc'[d], cmd'[d], idx'[d], late'[d])
  BY DEF Alone, PlainInv
<1> QED BY <1>1, <1>2 DEF PlainInv

\* And after a step of c that wakes key k0.
LEMMA WakingPlain ==
  ASSUME Typed, PlaceInv, MustInv, MayInv, PlainInv, NEW c \in Clients, Alone(c), closing' = closing,
         PlainPlace(pc'[c], cmd'[c], idx'[c], late'[c]), pc'[c] = "idle", pc[c] \in {"idle", "try"},
         NEW k0 \in Keys, sig' = WakeWaiter(k0), size' \in [Keys -> Nat],
         \A k \in Keys \ {k0} : size'[k] = size[k], On(pc[c], cmd[c], k0) \/ pc[c] = "idle"
  PROVE  PlainInv'
<1>1. ServedInv'
  <2> SUFFICES ASSUME NEW k \in Keys, size'[k] > 0, NEW e \in Clients, pc'[e] = "park",
                      On(pc'[e], cmd'[e], k)
               PROVE  \E d \in Clients : Awake(pc'[d], cmd'[d], sig'[d], k)
    BY DEF ServedInv
  <2>1. e # c /\ pc[e] = "park" /\ On(pc[e], cmd[e], k)
    BY DEF Alone
  <2>2. CASE k = k0
    <3>1. PICK h \in Clients : /\ pc[h] \in {"park", "dereg"} /\ On(pc[h], cmd[h], k)
                               /\ WakeWaiter(k)[h]
      BY <2>1, Woken
    <3>2. h # c
      BY <3>1
    <3> QED BY <2>2, <3>1, <3>2 DEF Alone, Awake
  <2>3. CASE k # k0
    <3>1. PICK d \in Clients : Awake(pc[d], cmd[d], sig[d], k)
      BY <2>1, <2>3 DEF PlainInv, ServedInv
    <3>2. d # c
      BY <2>3, <3>1 DEF Awake, On
    <3> QED BY <3>1, <3>2, Wakes DEF Alone, Awake
  <2> QED BY <2>2, <2>3
<1>2. \A d \in Clients : PlainPlace(pc'[d], cmd'[d], idx'[d], late'[d])
  BY DEF Alone, PlainInv
<1> QED BY <1>1, <1>2 DEF PlainInv

\* A waiter joins or leaves one FIFO.
LEMMA Joined ==
  ASSUME Typed, NEW c \in Clients, NEW k \in Keys, waiters' = AddWaiter(k, c)
  PROVE  /\ waiters' \in [Keys -> Seq(Clients)]
         /\ \A d \in Clients, l \in Keys : In(l, d)' <=> In(l, d) \/ (d = c /\ l = k)
<1>1. waiters[k] \in Seq(Clients)
  BY DEF Typed
<1>2. /\ Append(waiters[k], c) \in Seq(Clients)
      /\ ToSet(Append(waiters[k], c)) = ToSet(waiters[k]) \cup {c}
  BY <1>1, Appended
<1>3. waiters' = [waiters EXCEPT ![k] = Append(waiters[k], c)]
  BY DEF AddWaiter
<1> QED BY <1>2, <1>3 DEF Typed, In

LEMMA Left ==
  ASSUME Typed, NEW c \in Clients, NEW k \in Keys, waiters' = RemoveWaiter(k, c)
  PROVE  /\ waiters' \in [Keys -> Seq(Clients)]
         /\ \A d \in Clients, l \in Keys : In(l, d)' <=> In(l, d) /\ ~ (d = c /\ l = k)
<1>1. waiters[k] \in Seq(Clients)
  BY DEF Typed
<1>2. /\ Without(waiters[k], c) \in Seq(Clients)
      /\ ToSet(Without(waiters[k], c)) = ToSet(waiters[k]) \ {c}
  BY <1>1, WithoutIs
<1>3. waiters' = [waiters EXCEPT ![k] = Without(waiters[k], c)]
  BY DEF RemoveWaiter
<1> QED BY <1>2, <1>3 DEF Typed, In

\* What a step has to keep.
Kept(c) ==
  /\ PlaceOk(pc'[c], cmd'[c], idx'[c])
  /\ MustInv' /\ (~ closing /\ MayInv => MayInv')
  /\ Plain /\ PlainInv /\ MayInv => PlainInv'

LEMMA Together ==
  ASSUME BlockInv, NEW c \in Clients, Typed', Alone(c), Kept(c), conf' = conf, closing' = closing
  PROVE  BlockInv'
<1>1. PlaceInv'
  BY PlaceAfter DEF BlockInv, Kept
<1>2. MustInv' /\ (~ closing' => MayInv')
  BY DEF BlockInv, Kept
<1>3. Plain' => PlainInv'
  <2>1. Plain' <=> Plain
    BY DEF Plain
  <2>2. Plain => PlainInv /\ MayInv
    BY DEF BlockInv, PlainInv
  <2> QED BY <2>1, <2>2 DEF Kept
<1> QED BY <1>1, <1>2, <1>3 DEF BlockInv

\* A command that does not block, of an idle client.
LEMMA Issued ==
  ASSUME Typed, NEW c \in Clients, Issue(c), conf' = conf
  PROVE  /\ cmds' \in [Clients -> Nat] /\ \A d \in Clients : cmds'[d] <= conf.maxCmds[d]
         /\ pc[c] = "idle"
<1>1. conf.maxCmds \in [Clients -> Nat]
  BY Shape DEF Typed
<1> QED BY <1>1 DEF Issue, Typed

-----------------------------------------------------------------------------
(* The steps.                                                              *)

LEMMA InitLemma ==
  ASSUME Init
  PROVE  BlockInv
<1>1. Typed
  <2>1. conf.maxElems \in Nat /\ conf.maxCmds \in [Clients -> Nat]
    BY Shape DEF Init
  <2>2. NoCmd \in CmdT
    BY DEF NoCmd, CmdT
  <2>3. waiters \in [Keys -> Seq(Clients)] /\ cmd \in [Clients -> CmdT]
    BY <2>2 DEF Init
  <2>4. pushed \in 0..conf.maxElems /\ \A c \in Clients : cmds[c] <= conf.maxCmds[c]
    BY <2>1 DEF Init
  <2>5. /\ size \in [Keys -> Nat] /\ sig \in [Clients -> BOOLEAN] /\ late \in [Clients -> BOOLEAN]
        /\ cmds \in [Clients -> Nat] /\ idx \in [Clients -> Nat] /\ pc \in [Clients -> Stages]
    BY DEF Init, Stages
  <2> QED BY <2>3, <2>4, <2>5 DEF Init, Typed
<1>2. PlaceInv
  BY DEF PlaceInv, PlaceOk, Init, NoCmd
<1>3. MustInv
  BY DEF MustInv, MustWait, Init
<1>4. MayInv
  BY DEF MayInv, In, ToSet, Init
<1>5. PlainInv
  BY DEF PlainInv, PlainPlace, ServedInv, Init
<1> QED BY <1>1, <1>2, <1>3, <1>4, <1>5 DEF BlockInv

\* Steps that change elements and signals only.
LEMMA Stays ==
  ASSUME BlockInv, NEW c \in Clients, UNCHANGED <<waiters, pc, cmd, idx, late>>
  PROVE  /\ Alone(c) /\ PlaceOk(pc'[c], cmd'[c], idx'[c])
         /\ MustInv' /\ (~ closing /\ MayInv => MayInv')
         /\ PlainInv => PlainPlace(pc'[c], cmd'[c], idx'[c], late'[c])
<1>1. Alone(c)
  BY DEF Alone
<1>2. PlaceOk(pc'[c], cmd'[c], idx'[c])
  BY DEF BlockInv, PlaceInv
<1>3. MustInv' /\ (~ closing /\ MayInv => MayInv')
  BY <1>1, SameFifos DEF BlockInv
<1>4. PlainInv => PlainPlace(pc'[c], cmd'[c], idx'[c], late'[c])
  BY DEF PlainInv
<1> QED BY <1>1, <1>2, <1>3, <1>4

LEMMA PushLemma ==
  ASSUME BlockInv, NEW c \in Clients, NEW k \in Keys, NEW ty \in conf.types, Push(c, k, ty)
  PROVE  BlockInv'
<1> USE DEF Push, Fill, envVars
<1>1. Typed'
  <2>1. conf.maxElems \in Nat
    BY Shape DEF BlockInv, Typed
  <2>2. cmds' \in [Clients -> Nat] /\ \A d \in Clients : cmds'[d] <= conf.maxCmds[d]
    BY Issued DEF BlockInv
  <2>3. sig' \in [Clients -> BOOLEAN]
    BY Wakes DEF BlockInv
  <2>4. size' \in [Keys -> Nat] /\ pushed' \in 0..conf.maxElems
    BY <2>1 DEF BlockInv, Typed
  <2> QED BY <2>2, <2>3, <2>4 DEF BlockInv, Typed
<1>2. Kept(c)
  <2>1. ASSUME PlainInv, MayInv PROVE PlainInv'
    <3>1. size' \in [Keys -> Nat] /\ \A l \in Keys \ {k} : size'[l] = size[l]
      BY <1>1 DEF BlockInv, Typed
    <3> QED BY <2>1, <3>1, Stays, Issued, WakingPlain DEF BlockInv
  <2> QED BY <2>1, Stays DEF Kept
<1> QED BY <1>1, <1>2, Stays, Together

\* Elements are taken by a client that is idle.
LEMMA Taken ==
  ASSUME BlockInv, NEW c \in Clients, NEW k \in Keys, NEW n \in Nat, size[k] > 0,
         Issue(c), size' = [size EXCEPT ![k] = n],
         UNCHANGED <<pushed, waiters, sig, pc, cmd, idx, late, envVars>>
  PROVE  BlockInv'
<1> USE DEF envVars
<1>1. Typed'
  BY Issued DEF BlockInv, Typed
<1>2. Kept(c)
  <2>1. ASSUME PlainInv PROVE PlainInv'
    <3>1. size' \in [Keys -> Nat] /\ \A l \in Keys : size[l] = 0 => size'[l] = 0
      BY <1>1 DEF BlockInv, Typed
    <3> QED BY <2>1, <3>1, Stays, QuietPlain DEF BlockInv
  <2> QED BY <2>1, Stays DEF Kept
<1> QED BY <1>1, <1>2, Stays, Together

LEMMA PopLemma ==
  ASSUME BlockInv, NEW c \in Clients, NEW k \in Keys, Pop(c, k)
  PROVE  BlockInv'
<1>1. size[k] - 1 \in Nat
  BY DEF Pop, BlockInv, Typed
<1> QED BY <1>1, Taken DEF Pop, Take

LEMMA DelLemma ==
  ASSUME BlockInv, NEW c \in Clients, NEW k \in Keys, Del(c, k)
  PROVE  BlockInv'
<1>1. size[k] - size[k] = 0
  BY DEF BlockInv, Typed
<1>2. size' = [size EXCEPT ![k] = 0]
  BY <1>1 DEF Del, Take
<1> QED BY <1>2, Taken DEF Del

LEMMA StoreIntoLemma ==
  ASSUME BlockInv, NEW c \in Clients, NEW k \in Keys, StoreInto(c, k)
  PROVE  BlockInv'
<1> USE DEF StoreInto, Fill, envVars
<1>1. Typed'
  <2>1. conf.maxElems \in Nat
    BY Shape DEF BlockInv, Typed
  <2> QED BY <2>1, Issued DEF BlockInv, Typed
<1>2. Kept(c)
  BY Stays DEF Kept, Plain
<1> QED BY <1>1, <1>2, Stays, Together

\* A new command.
LEMMA Begins ==
  ASSUME BlockInv, NEW c \in Clients, NEW m \in CmdT, NEW st \in {"try", "peek"},
         Begin(c, m, st), PlaceOk(st, m, 1),
         Plain => st = "try" /\ Len(m.keys) = 1 /\ m.kind = "bpop" /\ ~ m.tmo
  PROVE  BlockInv'
<1> USE DEF Begin, envVars
<1>1. Typed'
  <2>1. cmds' \in [Clients -> Nat] /\ \A d \in Clients : cmds'[d] <= conf.maxCmds[d]
    BY Issued DEF BlockInv
  <2> QED BY <2>1 DEF BlockInv, Typed, Stages
<1>2. pc[c] = "idle" /\ Alone(c)
  BY Issued DEF BlockInv, Typed, Alone
<1>3. pc'[c] = st /\ cmd'[c] = m /\ idx'[c] = 1 /\ late'[c] = FALSE
  BY DEF BlockInv, Typed
<1>4. Kept(c)
  <2>1. MustInv' /\ (~ closing /\ MayInv => MayInv')
    <3>1. \A k \in Keys : ~ MustWait(pc'[c], cmd'[c], idx'[c], k) /\ ~ MayWait(pc[c], cmd[c], idx[c], k)
      BY <1>2, <1>3 DEF MustWait, MayWait
    <3> QED BY <1>2, <3>1, SameFifos DEF BlockInv
  <2>2. ASSUME Plain, PlainInv PROVE PlainInv'
    <3>1. PlainPlace(pc'[c], cmd'[c], idx'[c], late'[c])
      BY <1>3, <2>2 DEF PlainPlace
    <3>2. \A d \in Clients \ {c} : sig[d] => sig'[d]
      BY DEF BlockInv, Typed
    <3>3. /\ size' \in [Keys -> Nat] /\ \A k \in Keys : size[k] = 0 => size'[k] = 0
          /\ pc'[c] = "try" /\ \A k \in Keys : ~ Awake(pc[c], cmd[c], sig[c], k)
      BY <1>2, <1>3, <2>2 DEF BlockInv, Typed, Awake, On
    <3> QED BY <1>2, <2>2, <3>1, <3>2, <3>3, QuietPlain DEF BlockInv
  <2> QED BY <1>3, <2>1, <2>2 DEF Kept
<1> QED BY <1>1, <1>2, <1>4, Together

LEMMA BPopLemma ==
  ASSUME BlockInv, NEW c \in Clients, NEW ty \in conf.types, NEW ks \in conf.keySeqs,
         NEW t \in conf.timeouts, NEW x \in conf.inExec, BPop(c, ty, ks, t, x)
  PROVE  BlockInv'
<1> DEFINE m == [kind |-> "bpop", type |-> ty, keys |-> ks, dst |-> <<>>, tmo |-> t, exec |-> x]
<1>1. ty \in Types /\ ks \in Seq(Keys) /\ ks # <<>> /\ t \in BOOLEAN /\ x \in BOOLEAN
  BY Shape DEF BlockInv, Typed
<1>2. m \in CmdT
  BY <1>1 DEF CmdT
<1>3. PlaceOk("try", m, 1)
  <2>1. 1 \in 1..Len(ks)
    BY <1>1
  <2> QED BY <2>1 DEF PlaceOk
<1>4. Plain => Len(m.keys) = 1 /\ m.kind = "bpop" /\ ~ m.tmo
  BY DEF Plain
<1>5. Begin(c, m, "try")
  BY DEF BPop
<1> HIDE DEF m
<1> QED BY <1>2, <1>3, <1>4, <1>5, Begins

LEMMA BMoveLemma ==
  ASSUME BlockInv, NEW c \in Clients, NEW p \in conf.moves, NEW t \in conf.timeouts,
         NEW x \in conf.inExec, BMove(c, p, t, x)
  PROVE  BlockInv'
<1> DEFINE m == [kind |-> "bmove", type |-> "list", keys |-> <<p[1]>>, dst |-> <<p[2]>>, tmo |-> t,
                 exec |-> x]
<1>1. p \in Keys \X Keys /\ t \in BOOLEAN /\ x \in BOOLEAN
  BY Shape DEF BlockInv, Typed
<1>2. m \in CmdT
  BY <1>1 DEF CmdT, Types
<1>3. PlaceOk("try", m, 1)
  BY DEF PlaceOk
<1>4. ~ Plain
  BY DEF Plain
<1>5. Begin(c, m, "try")
  BY DEF BMove
<1> HIDE DEF m
<1> QED BY <1>2, <1>3, <1>4, <1>5, Begins

LEMMA MoveLemma ==
  ASSUME BlockInv, NEW c \in Clients, NEW p \in conf.moves, Move(c, p)
  PROVE  BlockInv'
<1> DEFINE m == [kind |-> "move", type |-> "list", keys |-> <<p[1]>>, dst |-> <<p[2]>>, tmo |-> FALSE,
                 exec |-> FALSE]
<1>1. p \in Keys \X Keys
  BY Shape DEF BlockInv, Typed
<1>2. m \in CmdT
  BY <1>1 DEF CmdT, Types
<1>3. PlaceOk("peek", m, 1)
  BY DEF PlaceOk
<1>4. ~ Plain
  BY DEF Plain
<1>5. Begin(c, m, "peek")
  BY DEF Move
<1> HIDE DEF m
<1> QED BY <1>2, <1>3, <1>4, <1>5, Begins

\* A step of c to stage st with index i, of the same command.
Goes(c, st, i) ==
  /\ pc' = [pc EXCEPT ![c] = st] /\ idx' = [idx EXCEPT ![c] = i] /\ UNCHANGED <<cmd, cmds, conf, closing>>

LEMMA Going ==
  ASSUME Typed, NEW c \in Clients, NEW st \in Stages, NEW i \in Nat, Goes(c, st, i)
  PROVE  /\ pc' \in [Clients -> Stages] /\ idx' \in [Clients -> Nat]
         /\ pc'[c] = st /\ idx'[c] = i /\ cmd'[c] = cmd[c]
         /\ late' = late => Alone(c)
         /\ (\A d \in Clients \ {c} : late'[d] = late[d]) => Alone(c)
BY DEF Typed, Goes, Alone

\* The key a command stands at.
LEMMA AtKey ==
  ASSUME Typed, PlaceInv, NEW c \in Clients, pc[c] # "idle"
  PROVE  /\ cmd[c] \in CmdT /\ cmd[c].keys \in Seq(Keys) /\ idx[c] \in 1..Len(cmd[c].keys)
         /\ Len(cmd[c].keys) \in Nat /\ Key(c) \in Keys
         /\ \A j \in 1..Len(cmd[c].keys) : cmd[c].keys[j] \in Keys
<1>1. cmd[c] \in CmdT
  BY DEF Typed
<1>2. cmd[c].keys \in Seq(Keys)
  BY <1>1 DEF CmdT
<1>3. idx[c] \in 1..Len(cmd[c].keys)
  BY DEF PlaceInv, PlaceOk
<1> QED BY <1>1, <1>2, <1>3 DEF Key

\* A step to another stage that keeps the FIFOs and the elements, where there is one.
LEMMA Stepping ==
  ASSUME BlockInv, NEW c \in Clients, NEW st \in Stages, Goes(c, st, idx[c]), waiters' = waiters,
         size' \in [Keys -> Nat], pushed' = pushed, sig' \in [Clients -> BOOLEAN], late' = late,
         PlaceOk(st, cmd[c], idx[c]),
         \A k \in Keys :
           /\ cmd[c].kind = "bpop" /\ MustWait(st, cmd[c], idx[c], k) => MustWait(pc[c], cmd[c], idx[c], k)
           /\ ~ closing /\ MayWait(pc[c], cmd[c], idx[c], k) => MayWait(st, cmd[c], idx[c], k),
         Plain /\ PlainInv /\ MayInv => PlainInv'
  PROVE  BlockInv'
<1>1. idx[c] \in Nat
  BY DEF BlockInv, Typed
<1>2. pc'[c] = st /\ idx'[c] = idx[c] /\ cmd'[c] = cmd[c] /\ Alone(c)
  BY <1>1, Going DEF BlockInv
<1>3. Typed'
  BY <1>1, Going DEF BlockInv, Typed, Goes
<1>4. Kept(c)
  BY <1>2, SameFifos DEF BlockInv, Kept
<1> QED BY <1>2, <1>3, <1>4, Together DEF Goes

LEMMA Still ==
  ASSUME Typed, NEW c \in Clients, idx' = idx
  PROVE  idx' = [idx EXCEPT ![c] = idx[c]]
BY DEF Typed

LEMMA Elsewhere ==
  ASSUME PlainInv, NEW c \in Clients, pc[c] \in {"undo", "peek", "put", "cut"}
  PROVE  FALSE
BY DEF PlainInv, PlainPlace

\* A move has one key.
LEMMA OneKey ==
  ASSUME PlaceInv, NEW c \in Clients, pc[c] # "idle", cmd[c].kind \in {"bmove", "move"}
  PROVE  Len(cmd[c].keys) = 1 /\ Len(cmd[c].dst) = 1 /\ idx[c] = 1
<1>1. Len(cmd[c].keys) = 1 /\ Len(cmd[c].dst) = 1
  BY DEF PlaceInv, PlaceOk
<1>2. idx[c] \in 1..Len(cmd[c].keys)
  BY DEF PlaceInv, PlaceOk
<1> QED BY <1>1, <1>2

LEMMA TryMoveLemma ==
  ASSUME BlockInv, NEW c \in Clients, TryMove(c)
  PROVE  BlockInv'
<1> USE DEF TryMove, envVars
<1>1. Goes(c, "peek", idx[c]) /\ "peek" \in Stages
  BY Still DEF BlockInv, Goes, Stages
<1>2. PlaceOk("peek", cmd[c], idx[c])
  BY DEF PlaceOk, PlaceInv, BlockInv
<1>3. ~ Plain \/ ~ PlainInv
  BY DEF PlainInv, PlainPlace
<1>4. \A k \in Keys : ~ MustWait("peek", cmd[c], idx[c], k) /\ ~ MayWait(pc[c], cmd[c], idx[c], k)
  <2>1. Len(cmd[c].keys) = 1 /\ idx[c] = 1
    BY OneKey DEF BlockInv
  <2> QED BY <2>1 DEF MustWait, MayWait
<1> QED BY <1>1, <1>2, <1>3, <1>4, Stepping DEF BlockInv, Typed

LEMMA TryPopLemma ==
  ASSUME BlockInv, NEW c \in Clients, TryPop(c)
  PROVE  BlockInv'
<1> DEFINE k0 == Key(c)
           st == IF idx[c] > 1 /\ ~ cmd[c].exec THEN "undo" ELSE "idle"
<1>1. pc[c] = "try" /\ cmd[c].kind = "bpop" /\ UNCHANGED <<pushed, waiters, cmd, idx, late, cmds, conf, closing>>
  BY DEF TryPop, envVars
<1>2. PICK n \in 1..size[k0] : /\ size' = [size EXCEPT ![k0] = @ - n]
                               /\ sig' = IF size[k0] > n THEN WakeWaiter(k0) ELSE sig
  BY DEF TryPop, Take
<1>3. k0 \in Keys /\ idx[c] \in 1..Len(cmd[c].keys) /\ cmd[c].keys[idx[c]] = k0
  BY <1>1, AtKey DEF BlockInv, Key
<1>4. Goes(c, st, idx[c]) /\ st \in Stages
  BY <1>1, Still DEF BlockInv, Goes, Stages, TryPop, Hit
<1>5. PlaceOk(st, cmd[c], idx[c])
  BY <1>1, <1>3 DEF PlaceOk, PlaceInv, BlockInv
<1>6. size' \in [Keys -> Nat] /\ sig' \in [Clients -> BOOLEAN] /\ size'[k0] = size[k0] - n
  BY <1>2, <1>3, Wakes DEF BlockInv, Typed
<1>7. ASSUME NEW k \in Keys
      PROVE  /\ ~ MustWait(st, cmd[c], idx[c], k)
             /\ MayWait(pc[c], cmd[c], idx[c], k) => MayWait(st, cmd[c], idx[c], k)
  BY <1>1, <1>3 DEF MustWait, MayWait
<1>8. ASSUME Plain, PlainInv, MayInv PROVE PlainInv'
  <2>1. idx[c] = 1 /\ Len(cmd[c].keys) = 1 /\ ~ late[c]
    BY <1>1, <1>8 DEF PlainInv, PlainPlace
  <2>2. Alone(c) /\ pc'[c] = "idle" /\ late'[c] = FALSE
    BY <1>1, <1>4, <2>1, Going DEF BlockInv, Typed
  <2>3. PlainPlace(pc'[c], cmd'[c], idx'[c], late'[c]) /\ On(pc[c], cmd[c], k0)
    BY <1>1, <1>3, <2>1, <2>2 DEF PlainPlace, On
  <2>4. CASE size[k0] > n
    <3>1. sig' = WakeWaiter(k0) /\ \A k \in Keys \ {k0} : size'[k] = size[k]
      BY <1>2, <2>4 DEF BlockInv, Typed
    <3> HIDE DEF k0, st
    <3> QED BY <1>1, <1>3, <1>6, <1>8, <2>2, <2>3, <3>1, WakingPlain DEF BlockInv
  <2>5. CASE ~ size[k0] > n
    <3>1. sig' = sig /\ size'[k0] = 0 /\ \A k \in Keys : size[k] = 0 => size'[k] = 0
      BY <1>2, <1>3, <1>6, <2>5 DEF BlockInv, Typed
    <3>2. \A k \in Keys : size'[k] > 0 => ~ Awake(pc[c], cmd[c], sig[c], k)
      BY <1>3, <2>1, <3>1 DEF Awake, On
    <3> QED BY <1>1, <1>6, <1>8, <2>2, <2>3, <3>1, <3>2, QuietPlain DEF BlockInv
  <2> QED BY <2>4, <2>5
<1> HIDE DEF st, k0
<1> QED BY <1>1, <1>4, <1>5, <1>6, <1>7, <1>8, Stepping

\* Where one type is in use no command meets a key of another.
LEMMA TryWrongLemma ==
  ASSUME BlockInv, KindInv, NEW c \in Clients, TryWrong(c)
  PROVE  BlockInv'
<1> DEFINE k0 == Key(c)
           st == IF idx[c] > 1 /\ ~ cmd[c].exec THEN "undo" ELSE "idle"
<1>1. /\ pc[c] = "try" /\ Wrong(k0, cmd[c].type)
      /\ UNCHANGED <<size, pushed, waiters, sig, cmd, idx, late, cmds, conf, closing>>
  BY DEF TryWrong, envVars
<1>2. k0 \in Keys /\ idx[c] \in 1..Len(cmd[c].keys) /\ cmd[c].keys[idx[c]] = k0
  BY <1>1, AtKey DEF BlockInv, Key
<1>3. Goes(c, st, idx[c]) /\ st \in Stages
  BY <1>1, Still DEF BlockInv, Goes, Stages, TryWrong, Hit
<1>4. PlaceOk(st, cmd[c], idx[c])
  BY <1>1, <1>2 DEF PlaceOk, PlaceInv, BlockInv
<1>5. ASSUME NEW k \in Keys
      PROVE  /\ ~ MustWait(st, cmd[c], idx[c], k)
             /\ MayWait(pc[c], cmd[c], idx[c], k) => MayWait(st, cmd[c], idx[c], k)
  BY <1>1, <1>2 DEF MustWait, MayWait
<1>6. ~ Plain
  BY <1>1, <1>2 DEF KindInv, Wrong, Plain
<1> HIDE DEF st, k0
<1> QED BY <1>1, <1>3, <1>4, <1>5, <1>6, Stepping DEF BlockInv, Typed

LEMMA TryEmptyLemma ==
  ASSUME BlockInv, NEW c \in Clients, TryEmpty(c)
  PROVE  BlockInv'
<1> DEFINE k0 == Key(c)
           N == Len(cmd[c].keys)
           stop == IF cmd[c].exec \/ cmd[c].kind = "move" THEN "idle" ELSE "park"
           st == IF idx[c] = N THEN stop ELSE "try"
           i == IF idx[c] = N THEN idx[c] ELSE idx[c] + 1
<1>1. /\ pc[c] = "try" /\ size[k0] = 0
      /\ UNCHANGED <<size, pushed, sig, cmd, late, cmds, conf, closing>>
  BY DEF TryEmpty, envVars
<1>2. k0 \in Keys /\ idx[c] \in 1..N /\ N \in Nat /\ cmd[c].keys[idx[c]] = k0 /\ cmd[c].kind # "move"
  BY <1>1, AtKey DEF BlockInv, Key, PlaceInv, PlaceOk
<1>3. Goes(c, st, i) /\ st \in Stages /\ i \in Nat
  <2>1. CASE idx[c] = N
    BY <1>1, <1>2, <2>1, Still DEF BlockInv, Goes, Stages, TryEmpty, NotDone
  <2>2. CASE idx[c] # N
    <3>1. idx' = [idx EXCEPT ![c] = i] /\ pc' = pc
      BY <2>2 DEF TryEmpty
    <3>2. pc' = [pc EXCEPT ![c] = st]
      BY <1>1, <2>2, <3>1 DEF BlockInv, Typed
    <3>3. st \in Stages /\ i \in Nat
      BY <1>2, <2>2 DEF Stages
    <3> HIDE DEF st, i
    <3> QED BY <1>1, <3>1, <3>2, <3>3 DEF Goes
  <2> QED BY <2>1, <2>2
<1>4. /\ pc'[c] = st /\ idx'[c] = i /\ cmd'[c] = cmd[c] /\ Alone(c)
      /\ pc' \in [Clients -> Stages] /\ idx' \in [Clients -> Nat]
  <2> HIDE DEF st, i
  <2> QED BY <1>1, <1>3, Going DEF BlockInv
<1>5. PlaceOk(st, cmd[c], i)
  BY <1>1, <1>2 DEF PlaceOk, PlaceInv, BlockInv
<1>6. waiters' \in [Keys -> Seq(Clients)]
      /\ \A d \in Clients, k \in Keys : In(k, d)' <=> In(k, d) \/ (~ cmd[c].exec /\ d = c /\ k = k0)
  <2>1. CASE cmd[c].exec
    <3>1. waiters' = waiters
      BY <2>1 DEF TryEmpty
    <3> QED BY <2>1, <3>1 DEF BlockInv, Typed, In
  <2>2. CASE ~ cmd[c].exec
    <3>1. waiters' = AddWaiter(k0, c)
      BY <2>2 DEF TryEmpty
    <3> HIDE DEF k0
    <3> QED BY <1>2, <2>2, <3>1, Joined DEF BlockInv
  <2> QED BY <2>1, <2>2
<1>7. Typed'
  BY <1>1, <1>4, <1>6 DEF BlockInv, Typed
<1>8. Kept(c)
  <2>1. ASSUME NEW k \in Keys
        PROVE  /\ cmd[c].kind = "bpop" /\ MustWait(st, cmd[c], i, k) => In(k, c)'
               /\ ~ closing /\ MayInv /\ In(k, c)' => MayWait(st, cmd[c], i, k)
    <3>1. ASSUME cmd[c].kind = "bpop", MustWait(st, cmd[c], i, k)
          PROVE  In(k, c)'
      <4>1. ~ cmd[c].exec /\ \E j \in 1..idx[c] : cmd[c].keys[j] = k
        BY <1>1, <1>2, <3>1 DEF MustWait
      <4>2. PICK j \in 1..idx[c] : cmd[c].keys[j] = k
        BY <4>1
      <4>3. CASE j = idx[c]
        BY <1>2, <1>6, <4>1, <4>2, <4>3
      <4>4. CASE j # idx[c]
        <5>1. MustWait(pc[c], cmd[c], idx[c], k)
          BY <1>1, <1>2, <4>1, <4>2, <4>4 DEF MustWait
        <5> QED BY <1>6, <3>1, <5>1 DEF BlockInv, MustInv
      <4> QED BY <4>3, <4>4
    <3>2. ASSUME ~ closing, MayInv, In(k, c)'
          PROVE  MayWait(st, cmd[c], i, k)
      <4>1. ~ cmd[c].exec /\ \E j \in 1..idx[c] : cmd[c].keys[j] = k
        <5>1. CASE In(k, c)
          BY <1>1, <1>2, <3>2, <5>1 DEF MayInv, MayWait
        <5>2. CASE ~ In(k, c)
          BY <1>2, <1>6, <3>2, <5>2
        <5> QED BY <5>1, <5>2
      <4>2. CASE idx[c] = N
        BY <1>2, <4>1, <4>2 DEF MayWait
      <4>3. CASE idx[c] # N
        BY <1>2, <4>1, <4>3 DEF MayWait
      <4> QED BY <4>2, <4>3
    <3> QED BY <3>1, <3>2
  <2>2. \A d \in Clients \ {c}, k \in Keys : In(k, d)' <=> In(k, d)
    BY <1>6
  <2>3. MustInv' /\ (~ closing /\ MayInv => MayInv')
    <3> HIDE DEF st, i
    <3> QED BY <1>4, <2>1, <2>2, FifosAfter DEF BlockInv
  <2>4. ASSUME Plain, PlainInv PROVE PlainInv'
    <3>1. idx[c] = 1 /\ N = 1 /\ cmd[c].kind = "bpop" /\ ~ cmd[c].tmo /\ ~ late[c]
      BY <1>1, <2>4 DEF PlainInv, PlainPlace
    <3>2. PlainPlace(pc'[c], cmd'[c], idx'[c], late'[c])
      BY <1>1, <1>4, <3>1 DEF PlainPlace
    <3>3. \A k \in Keys : size'[k] > 0 => k # k0 /\ ~ On(pc[c], cmd[c], k) /\ ~ On(pc'[c], cmd'[c], k)
      BY <1>1, <1>2, <1>4, <3>1 DEF On
    <3> QED BY <1>1, <1>4, <2>4, <3>2, <3>3, QuietPlain DEF BlockInv, Typed, Awake
  <2> HIDE DEF st, i
  <2> QED BY <1>4, <1>5, <2>3, <2>4 DEF Kept
<1> QED BY <1>1, <1>4, <1>7, <1>8, Together

\* A step by which c leaves the FIFO of k0, in stage st from then on.
LEMMA Leaving ==
  ASSUME BlockInv, NEW c \in Clients, NEW k0 \in Keys, NEW st \in Stages, NEW i \in Nat, Goes(c, st, i),
         waiters' = RemoveWaiter(k0, c), UNCHANGED <<size, pushed, sig, late>>,
         PlaceOk(st, cmd[c], i),
         \A k \in Keys :
           /\ ~ MustWait(st, cmd[c], i, k)
           /\ ~ closing /\ MayWait(pc[c], cmd[c], idx[c], k) /\ k # k0 => MayWait(st, cmd[c], i, k),
         Plain /\ PlainInv => /\ PlainPlace(st, cmd[c], i, late[c]) /\ st = "try" /\ pc[c] = "dereg"
  PROVE  BlockInv'
<1>1. /\ pc'[c] = st /\ idx'[c] = i /\ cmd'[c] = cmd[c] /\ Alone(c)
      /\ pc' \in [Clients -> Stages] /\ idx' \in [Clients -> Nat]
  BY Going DEF BlockInv
<1>2. /\ waiters' \in [Keys -> Seq(Clients)]
      /\ \A d \in Clients, k \in Keys : In(k, d)' <=> In(k, d) /\ ~ (d = c /\ k = k0)
  BY Left DEF BlockInv
<1>3. Typed'
  BY <1>1, <1>2 DEF BlockInv, Typed, Goes
<1>4. \A k \in Keys : /\ ~ MustWait(pc'[c], cmd'[c], idx'[c], k)
                      /\ ~ closing /\ MayInv /\ In(k, c)' => MayWait(pc'[c], cmd'[c], idx'[c], k)
  BY <1>1, <1>2 DEF MayInv
<1>5. \A d \in Clients \ {c}, k \in Keys : In(k, d)' <=> In(k, d)
  BY <1>2
<1>6. MustInv' /\ (~ closing /\ MayInv => MayInv')
  BY <1>1, <1>4, <1>5, FifosAfter DEF BlockInv
<1>7. ASSUME Plain, PlainInv PROVE PlainInv'
  <2>1. /\ PlainPlace(pc'[c], cmd'[c], idx'[c], late'[c])
        /\ \A k \in Keys : Awake(pc[c], cmd[c], sig[c], k) => Awake(pc'[c], cmd'[c], sig'[c], k)
        /\ pc'[c] # "park"
    BY <1>1, <1>7 DEF Awake, On
  <2>2. closing' = closing /\ size' \in [Keys -> Nat]
    BY <1>3 DEF Goes, Typed
  <2> QED BY <1>1, <1>7, <2>1, <2>2, QuietPlain DEF BlockInv
<1>8. Kept(c)
  BY <1>1, <1>6, <1>7 DEF Kept
<1> QED BY <1>1, <1>3, <1>8, Together DEF Goes

LEMMA UndoLemma ==
  ASSUME BlockInv, NEW c \in Clients, Undo(c)
  PROVE  BlockInv'
<1> DEFINE k0 == cmd[c].keys[idx[c] - 1]
           st == IF idx[c] = 2 THEN "idle" ELSE "undo"
           i == IF idx[c] = 2 THEN idx[c] ELSE idx[c] - 1
<1>1. /\ pc[c] = "undo" /\ waiters' = RemoveWaiter(k0, c)
      /\ UNCHANGED <<size, pushed, sig, cmd, late, cmds, conf, closing>>
  BY DEF Undo, envVars
<1>2. PlaceOk(pc[c], cmd[c], idx[c])
  BY DEF BlockInv, PlaceInv
<1>3. /\ idx[c] \in 2..Len(cmd[c].keys) /\ cmd[c].kind = "bpop" /\ ~ cmd[c].exec
      /\ Len(cmd[c].keys) \in Nat /\ \A j \in 1..Len(cmd[c].keys) : cmd[c].keys[j] \in Keys
  BY <1>1, <1>2, AtKey DEF BlockInv, PlaceOk
<1>4. k0 \in Keys /\ st \in Stages /\ i \in Nat
  BY <1>3 DEF Stages
<1>5. Goes(c, st, i)
  <2>1. CASE idx[c] = 2
    BY <1>1, <2>1, Still DEF BlockInv, Goes, Undo
  <2>2. CASE idx[c] # 2
    <3>1. idx' = [idx EXCEPT ![c] = i] /\ pc' = pc
      BY <2>2 DEF Undo
    <3>2. pc' = [pc EXCEPT ![c] = st]
      BY <1>1, <2>2, <3>1 DEF BlockInv, Typed
    <3> HIDE DEF st, i
    <3> QED BY <1>1, <3>1, <3>2 DEF Goes
  <2> QED BY <2>1, <2>2
<1>6. PlaceOk(st, cmd[c], i)
  BY <1>3 DEF PlaceOk
<1>7. ASSUME NEW k \in Keys
      PROVE  /\ ~ MustWait(st, cmd[c], i, k)
             /\ MayWait(pc[c], cmd[c], idx[c], k) /\ k # k0 => MayWait(st, cmd[c], i, k)
  <2>1. ~ MustWait(st, cmd[c], i, k)
    BY DEF MustWait
  <2>2. ASSUME MayWait(pc[c], cmd[c], idx[c], k), k # k0
        PROVE  MayWait(st, cmd[c], i, k)
    <3>1. PICK j \in 1..(idx[c] - 1) : cmd[c].keys[j] = k
      BY <1>1, <2>2 DEF MayWait
    <3>2. j # idx[c] - 1
      BY <2>2, <3>1
    <3>3. idx[c] # 2 /\ j \in 1..(i - 1)
      BY <1>3, <3>1, <3>2
    <3> QED BY <3>1, <3>3 DEF MayWait
  <2> QED BY <2>1, <2>2
<1>8. ~ PlainInv
  BY <1>1, Elsewhere
<1> HIDE DEF k0, st, i
<1> QED BY <1>1, <1>4, <1>5, <1>6, <1>7, <1>8, Leaving

LEMMA DeregLemma ==
  ASSUME BlockInv, NEW c \in Clients, Dereg(c)
  PROVE  BlockInv'
<1> DEFINE k0 == Key(c)
           N == Len(cmd[c].keys)
           st == IF idx[c] < N THEN "dereg" ELSE IF late[c] THEN "idle" ELSE "try"
           i == IF idx[c] < N THEN idx[c] + 1 ELSE 1
<1>1. /\ pc[c] = "dereg" /\ waiters' = RemoveWaiter(k0, c)
      /\ UNCHANGED <<size, pushed, sig, cmd, late, cmds, conf, closing>>
  BY DEF Dereg, envVars
<1>2. PlaceOk(pc[c], cmd[c], idx[c])
  BY DEF BlockInv, PlaceInv
<1>3. idx[c] \in 1..N /\ N \in Nat /\ k0 \in Keys /\ cmd[c].keys[idx[c]] = k0
  BY <1>1, AtKey DEF BlockInv, Key
<1>4. st \in Stages /\ i \in Nat
  BY <1>3 DEF Stages
<1>5. Goes(c, st, i)
  <2>1. CASE ~ idx[c] < N
    BY <1>1, <2>1 DEF Goes, Dereg
  <2>2. CASE idx[c] < N
    <3>1. idx' = [idx EXCEPT ![c] = i] /\ pc' = pc
      BY <2>2 DEF Dereg
    <3>2. pc' = [pc EXCEPT ![c] = st]
      BY <1>1, <2>2, <3>1 DEF BlockInv, Typed
    <3> HIDE DEF st, i
    <3> QED BY <1>1, <3>1, <3>2 DEF Goes
  <2> QED BY <2>1, <2>2
<1>6. PlaceOk(st, cmd[c], i)
  BY <1>1, <1>2, <1>3 DEF PlaceOk
<1>7. ASSUME NEW k \in Keys
      PROVE  /\ ~ MustWait(st, cmd[c], i, k)
             /\ MayWait(pc[c], cmd[c], idx[c], k) /\ k # k0 => MayWait(st, cmd[c], i, k)
  <2>1. ~ MustWait(st, cmd[c], i, k)
    BY <1>3 DEF MustWait
  <2>2. ASSUME MayWait(pc[c], cmd[c], idx[c], k), k # k0
        PROVE  MayWait(st, cmd[c], i, k)
    <3>1. PICK j \in idx[c]..N : cmd[c].keys[j] = k
      BY <1>1, <2>2 DEF MayWait
    <3>2. j # idx[c]
      BY <1>3, <2>2, <3>1
    <3>3. idx[c] < N /\ j \in i..N
      BY <1>3, <3>1, <3>2
    <3> QED BY <3>1, <3>3 DEF MayWait
  <2> QED BY <2>1, <2>2
<1>8. ASSUME PlainInv PROVE PlainPlace(st, cmd[c], i, late[c]) /\ st = "try"
  <2>1. PlainPlace(pc[c], cmd[c], idx[c], late[c])
    BY <1>8 DEF PlainInv
  <2>2. N = 1 /\ idx[c] = 1 /\ cmd[c].kind = "bpop" /\ ~ cmd[c].tmo /\ ~ late[c]
    BY <1>1, <2>1 DEF PlainPlace
  <2>3. st = "try" /\ i = 1
    BY <2>2
  <2> QED BY <2>2, <2>3 DEF PlainPlace
<1> HIDE DEF k0, st, i
<1> QED BY <1>1, <1>3, <1>4, <1>5, <1>6, <1>7, <1>8, Leaving

\* A parked command wakes up, with late as given.
LEMMA WakesUp ==
  ASSUME BlockInv, NEW c \in Clients, pc[c] = "park", Goes(c, "dereg", 1),
         UNCHANGED <<size, pushed, waiters>>, sig' \in [Clients -> BOOLEAN],
         \A d \in Clients \ {c} : sig'[d] = sig[d] /\ late'[d] = late[d],
         late' \in [Clients -> BOOLEAN],
         Plain /\ PlainInv => late'[c] = late[c]
  PROVE  BlockInv'
<1>1. "dereg" \in Stages /\ 1 \in Nat
  BY DEF Stages
<1>2. /\ pc'[c] = "dereg" /\ idx'[c] = 1 /\ cmd'[c] = cmd[c] /\ Alone(c)
      /\ pc' \in [Clients -> Stages] /\ idx' \in [Clients -> Nat]
  BY <1>1, Going DEF BlockInv
<1>3. Typed'
  BY <1>2 DEF BlockInv, Typed, Goes
<1>4. PlaceOk(pc'[c], cmd'[c], idx'[c])
  <2>1. PlaceOk(pc[c], cmd[c], idx[c]) /\ idx[c] \in Nat
    BY DEF BlockInv, PlaceInv, Typed
  <2>2. Len(cmd[c].keys) \in Nat /\ idx[c] \in 1..Len(cmd[c].keys)
    BY AtKey DEF BlockInv
  <2>3. 1 \in 1..Len(cmd[c].keys)
    BY <2>2
  <2> QED BY <1>2, <2>1, <2>3 DEF PlaceOk
<1>5. \A k \in Keys : /\ ~ MustWait(pc'[c], cmd'[c], idx'[c], k)
                      /\ MayWait(pc[c], cmd[c], idx[c], k) => MayWait(pc'[c], cmd'[c], idx'[c], k)
  BY <1>2 DEF MustWait, MayWait
<1>6. MustInv' /\ (~ closing /\ MayInv => MayInv')
  BY <1>2, <1>5, SameFifos DEF BlockInv
<1>7. ASSUME Plain, PlainInv PROVE PlainInv'
  <2>1. /\ PlainPlace(pc'[c], cmd'[c], idx'[c], late'[c])
        /\ \A k \in Keys : Awake(pc[c], cmd[c], sig[c], k) => Awake(pc'[c], cmd'[c], sig'[c], k)
        /\ pc'[c] # "park"
    BY <1>2, <1>7 DEF Awake, On, PlainInv, PlainPlace
  <2>2. closing' = closing /\ size' \in [Keys -> Nat]
    BY <1>3 DEF Goes, Typed
  <2> QED BY <1>2, <1>7, <2>1, <2>2, QuietPlain DEF BlockInv
<1>8. Kept(c)
  BY <1>4, <1>6, <1>7 DEF Kept
<1> QED BY <1>2, <1>3, <1>8, Together DEF Goes

LEMMA ParkSignalLemma ==
  ASSUME BlockInv, NEW c \in Clients, ParkSignal(c)
  PROVE  BlockInv'
<1> USE DEF ParkSignal, envVars
<1>1. Goes(c, "dereg", 1)
  BY DEF Goes
<1>2. /\ sig' \in [Clients -> BOOLEAN] /\ late' \in [Clients -> BOOLEAN]
      /\ \A d \in Clients \ {c} : sig'[d] = sig[d] /\ late'[d] = late[d]
  BY DEF BlockInv, Typed
<1> QED BY <1>1, <1>2, WakesUp

LEMMA ParkTimeoutLemma ==
  ASSUME BlockInv, NEW c \in Clients, ParkTimeout(c)
  PROVE  BlockInv'
<1> USE DEF ParkTimeout, envVars
<1>1. Goes(c, "dereg", 1)
  BY DEF Goes
<1>2. /\ sig' \in [Clients -> BOOLEAN] /\ late' \in [Clients -> BOOLEAN]
      /\ \A d \in Clients \ {c} : sig'[d] = sig[d] /\ late'[d] = late[d]
  BY DEF BlockInv, Typed
<1>3. ~ PlainInv
  BY DEF PlainInv, PlainPlace
<1> QED BY <1>1, <1>2, <1>3, WakesUp

LEMMA ParkClosingLemma ==
  ASSUME BlockInv, NEW c \in Clients, ParkClosing(c)
  PROVE  BlockInv'
<1> USE DEF ParkClosing, envVars
<1>1. Goes(c, "idle", idx[c]) /\ "idle" \in Stages
  BY Still DEF BlockInv, Goes, Stages
<1>2. PlaceOk("idle", cmd[c], idx[c])
  <2>1. PlaceOk(pc[c], cmd[c], idx[c])
    BY DEF BlockInv, PlaceInv
  <2> QED BY <2>1 DEF PlaceOk
<1>3. ~ PlainInv /\ \A k \in Keys : ~ MustWait("idle", cmd[c], idx[c], k)
  BY DEF PlainInv, MustWait
<1> QED BY <1>1, <1>2, <1>3, Stepping DEF BlockInv, Typed

\* The steps of a move, by a connection that has nothing registered: it replies or goes on.
LEMMA MoveStep ==
  ASSUME BlockInv, NEW c \in Clients, pc[c] \in {"peek", "put", "cut"},
         NEW st \in {"idle", "put", "cut"}, pc' = [pc EXCEPT ![c] = st],
         size' \in [Keys -> Nat], sig' \in [Clients -> BOOLEAN],
         UNCHANGED <<pushed, waiters, cmd, idx, late, cmds, envVars>>
  PROVE  BlockInv'
<1>1. Goes(c, st, idx[c]) /\ st \in Stages
  BY Still DEF BlockInv, Goes, Stages, envVars
<1>2. PlaceOk(st, cmd[c], idx[c])
  <2>1. PlaceOk(pc[c], cmd[c], idx[c])
    BY DEF BlockInv, PlaceInv
  <2> QED BY <2>1 DEF PlaceOk
<1>3. \A k \in Keys : ~ MustWait(st, cmd[c], idx[c], k) /\ ~ MayWait(pc[c], cmd[c], idx[c], k)
  BY DEF MustWait, MayWait
<1>4. ~ PlainInv
  BY Elsewhere
<1> QED BY <1>1, <1>2, <1>3, <1>4, Stepping

LEMMA MoveKeys ==
  ASSUME BlockInv, NEW c \in Clients, pc[c] \in {"peek", "put", "cut"}
  PROVE  Key(c) \in Keys /\ cmd[c].dst[1] \in Keys /\ cmd[c].kind # "bpop" /\ ~ PlainInv
<1>1. cmd[c].kind \in {"bmove", "move"}
  BY DEF BlockInv, PlaceInv, PlaceOk
<1>2. cmd[c] \in CmdT /\ Key(c) \in Keys
  BY AtKey DEF BlockInv
<1>3. cmd[c].dst \in Seq(Keys) /\ Len(cmd[c].dst) = 1
  BY <1>1, <1>2, OneKey DEF BlockInv, CmdT
<1> QED BY <1>1, <1>2, <1>3, Elsewhere

LEMMA RotateLemma ==
  ASSUME BlockInv, NEW c \in Clients, Rotate(c)
  PROVE  BlockInv'
<1>1. Key(c) \in Keys
  BY MoveKeys DEF Rotate
<1>2. sig' \in [Clients -> BOOLEAN] /\ size' \in [Keys -> Nat]
  BY <1>1, Wakes DEF Rotate, BlockInv, Typed
<1> QED BY <1>2, MoveStep DEF Rotate

LEMMA PeekLemma ==
  ASSUME BlockInv, NEW c \in Clients, Peek(c)
  PROVE  BlockInv'
<1>1. sig' \in [Clients -> BOOLEAN] /\ size' \in [Keys -> Nat]
  BY DEF Peek, BlockInv, Typed
<1> QED BY <1>1, MoveStep DEF Peek

LEMMA PeekMissingLemma ==
  ASSUME BlockInv, NEW c \in Clients, PeekMissing(c)
  PROVE  BlockInv'
<1> DEFINE st == IF cmd[c].exec \/ cmd[c].kind = "move" THEN "idle" ELSE "park"
<1> USE DEF PeekMissing, NotDone, envVars
<1>1. Goes(c, st, idx[c]) /\ st \in Stages
  BY Still DEF BlockInv, Goes, Stages
<1>2. cmd[c].kind # "bpop" /\ ~ PlainInv
  BY MoveKeys
<1>3. PlaceOk(st, cmd[c], idx[c])
  <2>1. PlaceOk(pc[c], cmd[c], idx[c])
    BY DEF BlockInv, PlaceInv
  <2> QED BY <2>1 DEF PlaceOk
<1>4. \A k \in Keys : ~ MayWait(pc[c], cmd[c], idx[c], k)
  BY DEF MayWait
<1>5. UNCHANGED <<size, pushed, waiters, sig, late>>
  OBVIOUS
<1> HIDE DEF st, PeekMissing, NotDone, envVars
<1> QED BY <1>1, <1>2, <1>3, <1>4, <1>5, Stepping DEF BlockInv, Typed

LEMMA PeekWrongLemma ==
  ASSUME BlockInv, NEW c \in Clients, PeekWrong(c)
  PROVE  BlockInv'
<1>1. sig' \in [Clients -> BOOLEAN] /\ size' \in [Keys -> Nat]
  BY DEF PeekWrong, BlockInv, Typed
<1> QED BY <1>1, MoveStep DEF PeekWrong

LEMMA PutDstLemma ==
  ASSUME BlockInv, NEW c \in Clients, PutDst(c)
  PROVE  BlockInv'
<1>1. cmd[c].dst[1] \in Keys
  BY MoveKeys DEF PutDst
<1>2. sig' \in [Clients -> BOOLEAN] /\ size' \in [Keys -> Nat]
  BY <1>1, Wakes DEF PutDst, Fill, BlockInv, Typed
<1> QED BY <1>2, MoveStep DEF PutDst

LEMMA CutSrcLemma ==
  ASSUME BlockInv, NEW c \in Clients, CutSrc(c)
  PROVE  BlockInv'
<1>1. Key(c) \in Keys
  BY MoveKeys DEF CutSrc
<1>2. sig' \in [Clients -> BOOLEAN]
  BY <1>1, Wakes DEF CutSrc, BlockInv, Typed
<1>3. size' \in [Keys -> Nat]
  <2>1. CASE Holds(Key(c), "list")
    <3>1. size' = [size EXCEPT ![Key(c)] = @ - 1] /\ size[Key(c)] - 1 \in Nat
      BY <1>1, <2>1 DEF CutSrc, Holds, Take, BlockInv, Typed
    <3> QED BY <1>1, <3>1 DEF BlockInv, Typed
  <2>2. CASE ~ Holds(Key(c), "list")
    BY <2>2 DEF CutSrc, BlockInv, Typed
  <2> QED BY <2>1, <2>2
<1> QED BY <1>2, <1>3, MoveStep DEF CutSrc

LEMMA CloseLemma ==
  ASSUME BlockInv, Close
  PROVE  BlockInv'
<1>1. Typed' /\ PlaceInv' /\ MustInv'
  BY DEF Close, BlockInv, Typed, PlaceInv, MustInv, In
<1>2. closing' /\ ~ Plain'
  BY DEF Close, Plain
<1> QED BY <1>1, <1>2 DEF BlockInv

LEMMA StutterLemma ==
  ASSUME BlockInv, UNCHANGED vars
  PROVE  BlockInv'
BY DEF vars, BlockInv, Typed, PlaceInv, MustInv, MayInv, In, Plain, PlainInv, ServedInv

LEMMA NextLemma ==
  ASSUME BlockInv, KindInv, [Next]_vars
  PROVE  BlockInv'
<1>1. ASSUME NEW c \in Clients, Request(c) PROVE BlockInv'
  BY <1>1, PushLemma, PopLemma, DelLemma, StoreIntoLemma, BPopLemma, BMoveLemma, MoveLemma DEF Request
<1>2. ASSUME NEW c \in Clients, Step(c) PROVE BlockInv'
  BY <1>2, TryPopLemma, TryWrongLemma, TryMoveLemma, TryEmptyLemma, UndoLemma, ParkSignalLemma,
     ParkClosingLemma, DeregLemma, RotateLemma, PeekLemma, PeekMissingLemma, PeekWrongLemma,
     PutDstLemma, CutSrcLemma DEF Step
<1> QED BY <1>1, <1>2, ParkTimeoutLemma, CloseLemma, StutterLemma DEF Next

-----------------------------------------------------------------------------
(* The types of keys and commands.                                         *)

\* Where one type is in use: elements and commands that stay, or of a type in use.
LEMMA Uses ==
  ASSUME KindInv, conf' = conf,
         type' \in [Keys -> Types \cup {"none"}],
         \A k \in Keys : type'[k] \in IF size'[k] = 0 THEN {"none"} ELSE Types,
         Plain => \A k \in Keys : size'[k] > 0 =>
                    (size[k] > 0 /\ type'[k] = type[k]) \/ type'[k] \in conf.types,
         Plain => \A c \in Clients : pc'[c] # "idle" =>
                    (pc[c] # "idle" /\ cmd'[c] = cmd[c]) \/ cmd'[c].type \in conf.types
  PROVE  KindInv'
<1>1. Plain' <=> Plain
  BY DEF Plain
<1> QED BY <1>1 DEF KindInv

LEMMA Filled ==
  ASSUME Typed, KindInv, NEW k \in Keys, NEW n \in Nat \ {0}, NEW t \in Types, Fill(k, n, t)
  PROVE  /\ type' \in [Keys -> Types \cup {"none"}]
         /\ \A l \in Keys : type'[l] \in IF size'[l] = 0 THEN {"none"} ELSE Types
         /\ \A l \in Keys : size'[l] > 0 => (size[l] > 0 /\ type'[l] = type[l]) \/ type'[l] = t
BY DEF Typed, KindInv, Fill

LEMMA Took ==
  ASSUME Typed, KindInv, NEW k \in Keys, NEW n \in 1..size[k], Take(k, n)
  PROVE  /\ type' \in [Keys -> Types \cup {"none"}]
         /\ \A l \in Keys : type'[l] \in IF size'[l] = 0 THEN {"none"} ELSE Types
         /\ \A l \in Keys : size'[l] > 0 => size[l] > 0 /\ type'[l] = type[l]
<1>1. /\ size[k] \in Nat /\ size[k] - n \in Nat /\ size[k] > 0
      /\ size'[k] = size[k] - n /\ type'[k] = IF size[k] = n THEN "none" ELSE type[k]
      /\ \A l \in Keys \ {k} : size'[l] = size[l] /\ type'[l] = type[l]
  BY DEF Typed, KindInv, Take
<1>2. type[k] \in Types
  BY <1>1 DEF KindInv
<1>3. type' \in [Keys -> Types \cup {"none"}]
  BY <1>2 DEF KindInv, Take
<1>4. size[k] = n <=> size'[k] = 0
  BY <1>1
<1> QED BY <1>1, <1>2, <1>3, <1>4 DEF KindInv

\* Steps that leave the keys alone.
LEMMA Unmoved ==
  ASSUME KindInv, UNCHANGED <<conf, size, type>>,
         Plain => \A c \in Clients : pc'[c] # "idle" =>
                    (pc[c] # "idle" /\ cmd'[c] = cmd[c]) \/ cmd'[c].type \in conf.types
  PROVE  KindInv'
BY Uses DEF KindInv

\* A connection under way goes on with its command, and the others with theirs.
LEMMA GoesOn ==
  ASSUME Typed, NEW c \in Clients, pc[c] # "idle", cmd' = cmd,
         NEW st, pc' = [pc EXCEPT ![c] = st] \/ pc' = pc
  PROVE  \A d \in Clients : pc'[d] # "idle" => pc[d] # "idle" /\ cmd'[d] = cmd[d]
BY DEF Typed

LEMMA RequestKinds ==
  ASSUME BlockInv, KindInv, NEW c \in Clients, Request(c)
  PROVE  KindInv'
<1> USE DEF envVars
<1>1. Typed /\ conf.types \subseteq Types
  BY Shape DEF BlockInv, Typed
<1>2. ASSUME NEW k \in Keys, NEW t \in conf.types, Push(c, k, t) PROVE KindInv'
  <2>1. size[k] + 1 \in Nat \ {0} /\ t \in Types
    BY <1>1 DEF Typed
  <2>2. Fill(k, size[k] + 1, t) /\ UNCHANGED <<conf, pc, cmd>>
    BY <1>2 DEF Push
  <2> QED BY <1>1, <2>1, <2>2, Filled, Uses
<1>3. ASSUME NEW k \in Keys, Pop(c, k) PROVE KindInv'
  <2>1. 1 \in 1..size[k]
    BY <1>1, <1>3 DEF Typed, Pop
  <2>2. Take(k, 1) /\ UNCHANGED <<conf, pc, cmd>>
    BY <1>3 DEF Pop
  <2> QED BY <1>1, <2>1, <2>2, Took, Uses
<1>4. ASSUME NEW k \in Keys, Del(c, k) PROVE KindInv'
  <2>1. size[k] \in 1..size[k]
    BY <1>1, <1>4 DEF Typed, Del
  <2>2. Take(k, size[k]) /\ UNCHANGED <<conf, pc, cmd>>
    BY <1>4 DEF Del
  <2> QED BY <1>1, <2>1, <2>2, Took, Uses
<1>5. ASSUME NEW k \in Keys, StoreInto(c, k) PROVE KindInv'
  <2>1. Fill(k, 1, "zset") /\ UNCHANGED <<conf, pc, cmd>> /\ ~ Plain
    BY <1>5 DEF StoreInto, Plain
  <2>2. 1 \in Nat \ {0} /\ "zset" \in Types
    BY DEF Types
  <2> QED BY <1>1, <2>1, <2>2, Filled, Uses
<1>6. ASSUME NEW m, NEW st, Begin(c, m, st), Plain => m.type \in conf.types PROVE KindInv'
  <2>1. cmd'[c] = m /\ \A d \in Clients \ {c} : cmd'[d] = cmd[d] /\ pc'[d] = pc[d]
    BY <1>1, <1>6 DEF Typed, Begin
  <2>2. UNCHANGED <<conf, size, type>>
    BY <1>6 DEF Begin
  <2> QED BY <1>6, <2>1, <2>2, Unmoved
<1>7. ASSUME NEW t \in conf.types, NEW ks \in conf.keySeqs, NEW o \in conf.timeouts,
             NEW x \in conf.inExec, BPop(c, t, ks, o, x)
      PROVE  KindInv'
  BY <1>6, <1>7 DEF BPop
<1>8. ASSUME conf.moves # {} PROVE ~ Plain
  BY <1>8 DEF Plain
<1>9. ASSUME NEW p \in conf.moves, NEW o \in conf.timeouts, NEW x \in conf.inExec, BMove(c, p, o, x)
      PROVE  KindInv'
  BY <1>6, <1>8, <1>9 DEF BMove
<1>10. ASSUME NEW p \in conf.moves, Move(c, p) PROVE KindInv'
  BY <1>6, <1>8, <1>10 DEF Move
<1> QED BY <1>2, <1>3, <1>4, <1>5, <1>7, <1>9, <1>10 DEF Request

LEMMA StepKinds ==
  ASSUME BlockInv, KindInv, NEW c \in Clients, Step(c) \/ ParkTimeout(c)
  PROVE  KindInv'
<1> USE DEF envVars
<1>1. Typed /\ PlaceInv
  BY DEF BlockInv
<1>2. /\ pc[c] # "idle" /\ UNCHANGED <<conf, cmd>>
      /\ (\E st \in Stages : pc' = [pc EXCEPT ![c] = st]) \/ pc' = pc
  BY DEF Step, TryPop, TryWrong, TryMove, TryEmpty, Undo, ParkSignal, ParkClosing, Dereg, Rotate, Peek,
         PeekMissing, PeekWrong, PutDst, CutSrc, ParkTimeout, Hit, NotDone, Stages
<1>3. \A d \in Clients : pc'[d] # "idle" => pc[d] # "idle" /\ cmd'[d] = cmd[d]
  BY <1>1, <1>2, GoesOn
<1>4. CASE UNCHANGED <<size, type>>
  BY <1>2, <1>3, <1>4, Unmoved
<1>5. Key(c) \in Keys
  BY <1>1, <1>2, AtKey
<1>6. CASE TryPop(c)
  <2>1. PICK n \in 1..size[Key(c)] : Take(Key(c), n)
    BY <1>6 DEF TryPop
  <2> QED BY <1>1, <1>2, <1>3, <1>5, <2>1, Took, Uses
<1>7. CASE PutDst(c)
  <2>1. cmd[c].dst[1] \in Keys /\ (Plain => FALSE)
    BY <1>7, MoveKeys DEF BlockInv, PutDst
  <2> DEFINE k == cmd[c].dst[1]
             n == IF Holds(k, "list") THEN size[k] + 1 ELSE 1
  <2>2. n \in Nat \ {0} /\ "list" \in Types /\ Fill(k, n, "list")
    BY <1>1, <1>7, <2>1 DEF Typed, Types, PutDst
  <2> HIDE DEF k, n
  <2>3. k \in Keys
    BY <2>1 DEF k
  <2> QED BY <1>1, <1>2, <2>1, <2>2, <2>3, Filled, Uses
<1>8. CASE CutSrc(c) /\ Holds(Key(c), "list")
  <2>1. 1 \in 1..size[Key(c)] /\ Take(Key(c), 1)
    BY <1>1, <1>5, <1>8 DEF Typed, CutSrc, Holds
  <2> QED BY <1>1, <1>2, <1>3, <1>5, <2>1, Took, Uses
<1>9. CASE CutSrc(c) /\ ~ Holds(Key(c), "list")
  BY <1>4, <1>9 DEF CutSrc
<1> QED BY <1>4, <1>6, <1>7, <1>8, <1>9
    DEF Step, TryWrong, TryMove, TryEmpty, Undo, ParkSignal, ParkClosing, Dereg, Rotate, Peek,
        PeekMissing, PeekWrong, ParkTimeout

LEMMA KindLemma ==
  ASSUME BlockInv, KindInv, [Next]_vars
  PROVE  KindInv'
<1>1. ASSUME Close \/ UNCHANGED vars PROVE KindInv'
  BY <1>1, Unmoved DEF Close, vars
<1> QED BY <1>1, RequestKinds, StepKinds DEF Next

-----------------------------------------------------------------------------
(* The theorems.                                                           *)

\* The invariant holds in every reachable state, for any configuration.
THEOREM BlockInvariant == Spec => [](BlockInv /\ KindInv)
<1>1. Init => KindInv
  BY DEF Init, KindInv
<1>2. BlockInv /\ KindInv /\ [Next]_vars => (BlockInv /\ KindInv)'
  BY NextLemma, KindLemma
<1> QED BY <1>1, <1>2, InitLemma, PTL DEF Spec

\* The FIFOs and the commands agree: no idle connection is in a FIFO, a parked pop is in the FIFOs
\* of all its keys, and the loops over a command's keys stay within them.
THEOREM WaitersAgree == Spec => []WaitersSound
<1>1. ASSUME BlockInv, KindInv PROVE WaitersSound
  <2> USE <1>1
  <2>1. TypeOK
    <3>1. \A c \in Clients : cmds[c] \in 0..conf.maxCmds[c]
      <4>1. conf.maxCmds \in [Clients -> Nat]
        BY Shape DEF BlockInv, Typed
      <4> QED BY <4>1 DEF BlockInv, Typed
    <3>2. \A c \in Clients : pc[c] # "idle" => idx[c] \in DOMAIN cmd[c].keys
      BY AtKey DEF BlockInv
    <3>3. /\ conf \in Confs /\ size \in [Keys -> Nat] /\ pushed \in 0..conf.maxElems
          /\ \A k \in Keys : type[k] \in IF size[k] = 0 THEN {"none"} ELSE Types
          /\ waiters \in [Keys -> Seq(Clients)] /\ sig \in [Clients -> BOOLEAN]
          /\ late \in [Clients -> BOOLEAN] /\ closing \in BOOLEAN
          /\ pc \in [Clients -> {"idle", "try", "undo", "park", "dereg", "peek", "put", "cut"}]
      BY DEF BlockInv, KindInv, Typed, Stages
    <3> QED BY <3>1, <3>2, <3>3 DEF TypeOK
  <2>2. NoGhostWaiter
    <3> SUFFICES ASSUME ~ closing, NEW c \in Clients, pc[c] = "idle", NEW k \in Keys, In(k, c)
                 PROVE  FALSE
      BY DEF NoGhostWaiter, In
    <3>1. MayWait(pc[c], cmd[c], idx[c], k)
      BY DEF BlockInv, MayInv
    <3> QED BY <3>1 DEF MayWait
  <2>3. ParkedIsRegistered
    <3> SUFFICES ASSUME NEW c \in Clients, pc[c] = "park", cmd[c].kind = "bpop",
                        NEW k \in ToSet(cmd[c].keys)
                 PROVE  In(k, c)
      BY DEF ParkedIsRegistered, In
    <3>1. cmd[c].keys \in Seq(Keys) /\ \A j \in 1..Len(cmd[c].keys) : cmd[c].keys[j] \in Keys
      BY AtKey DEF BlockInv
    <3>2. PICK j \in 1..Len(cmd[c].keys) : cmd[c].keys[j] = k
      BY <3>1 DEF ToSet
    <3>3. MustWait(pc[c], cmd[c], idx[c], k) /\ k \in Keys
      BY <3>1, <3>2 DEF MustWait
    <3> QED BY <3>3 DEF BlockInv, MustInv
  <2> QED BY <2>1, <2>2, <2>3 DEF WaitersSound
<1> QED BY <1>1, BlockInvariant, PTL

\* No wake is missed by blocking pops that wait on one key each without a timeout: whoever takes a
\* signal looks at the key, and passes the signal on while elements are left.
THEOREM PlainPopsWake == Spec => []PlainWakes
<1>1. ASSUME BlockInv PROVE PlainWakes
  <2> USE <1>1
  <2> SUFFICES ASSUME Plain, \A c \in Clients : AtRest(c), NEW c \in Clients, pc[c] = "park",
                      NEW k \in ToSet(cmd[c].keys), size[k] > 0
               PROVE  FALSE
    BY DEF PlainWakes, NoMissedWake, Holds
  <2>1. PlainInv
    BY DEF BlockInv
  <2>2. cmd[c].keys \in Seq(Keys) /\ \A j \in 1..Len(cmd[c].keys) : cmd[c].keys[j] \in Keys
    BY AtKey DEF BlockInv
  <2>3. k \in Keys /\ On(pc[c], cmd[c], k)
    <3>1. Len(cmd[c].keys) = 1
      BY <2>1 DEF PlainInv, PlainPlace
    <3> QED BY <2>2, <3>1 DEF On, ToSet
  <2>4. PICK d \in Clients : Awake(pc[d], cmd[d], sig[d], k)
    BY <2>1, <2>3 DEF PlainInv, ServedInv
  <2> QED BY <2>4 DEF Awake, AtRest, On
<1> QED BY <1>1, BlockInvariant, PTL
===============================================================================
