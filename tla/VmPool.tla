------------------------------ MODULE VmPool ------------------------------
(***************************************************************************)
(* The per-script pool of Lua VMs, lib/scripting/pool.go.  The idle queues *)
(* of all scripts are one sequence in lastIdle order, with the LRU victim  *)
(* at its head; the queue of a script is what that sequence has of its VMs *)
(***************************************************************************)
EXTENDS Naturals, Sequences, FiniteSets, SequencesExt

CONSTANTS
  Scripts,        \* script sources, by SHA-1
  NVms,           \* bound: VMs alive at one time
  VMPoolSize,     \* idle VMs kept per script
  VMPoolMax,      \* idle VMs kept in all
  VMRecycleRuns   \* runs a VM serves before it is closed, 0 = no limit

Vms == 1..NVms

ASSUME PoolAssumption ==
  NVms \in Nat \ {0} /\ VMPoolSize \in Nat /\ VMPoolMax \in Nat /\ VMRecycleRuns \in Nat

VARIABLES
  idle,       \* idle pooled VMs, oldest first
  vmMeta,     \* poolEntry of every VM released once and not closed since
  poolEpoch,  \* bumped by SCRIPT FLUSH
  leased,     \* VMs that are checked out
  born        \* the epoch in which a VM was built (not kept by the code)

poolVars == <<idle, vmMeta, poolEpoch, leased, born>>

Entries == [sha: Scripts, runs: Nat, epoch: Nat]

PoolTypeOK ==
  /\ idle \in Seq(Vms) /\ leased \subseteq Vms /\ poolEpoch \in Nat
  /\ DOMAIN vmMeta \subseteq Vms /\ \A v \in DOMAIN vmMeta : vmMeta[v] \in Entries
  /\ ToSet(idle) \subseteq DOMAIN vmMeta
  /\ born \in [Vms -> Nat]

PoolInit ==
  /\ idle = <<>> /\ vmMeta = <<>> /\ poolEpoch = 0 /\ leased = {}
  /\ born = [v \in Vms |-> 0]

\* The idle VMs of a script.
Queue(sha) == {v \in ToSet(idle) : vmMeta[v].sha = sha}

\* The VM of the queue that went idle last.
Hottest(sha, vm) ==
  vm \in Queue(sha) /\ \E i \in DOMAIN idle :
                         idle[i] = vm /\ \A j \in (i + 1)..Len(idle) : idle[j] \notin Queue(sha)

\* NewVM: a VM that is neither pooled nor checked out.
NewVM(vm) == /\ vm \in Vms \ (leased \cup ToSet(idle))
             /\ \A w \in 1..(vm - 1) : w \in leased \cup ToSet(idle)

Unborn(vms) == [v \in Vms |-> IF v \in vms THEN 0 ELSE born[v]]

Forget(vms) == [v \in DOMAIN vmMeta \ vms |-> vmMeta[v]]

\* Mutant: the hit is not taken out of its queue.
CheckoutKeeps(sha, vm) ==
  /\ IF Queue(sha) # {} THEN Hottest(sha, vm) ELSE NewVM(vm)
  /\ leased' = leased \cup {vm}
  /\ UNCHANGED <<idle, vmMeta, poolEpoch, born>>

\* A pool hit takes the VM that went idle last, a miss builds one.
CheckoutVM(sha, vm) ==
  /\ IF VMPoolSize > 0 /\ Queue(sha) # {}
       THEN /\ Hottest(sha, vm)
            /\ \E i \in DOMAIN idle : idle[i] = vm /\ idle' = RemoveAt(idle, i)
            /\ UNCHANGED born
       ELSE /\ NewVM(vm)
            /\ born' = [born EXCEPT ![vm] = poolEpoch]
            /\ UNCHANGED idle
  /\ leased' = leased \cup {vm}
  /\ UNCHANGED <<vmMeta, poolEpoch>>

\* The entry of a VM after one more run; its epoch is that of its first release.
Served(vm, sha) ==
  IF vm \in DOMAIN vmMeta THEN [vmMeta[vm] EXCEPT !.runs = @ + 1]
                          ELSE [sha |-> sha, runs |-> 1, epoch |-> poolEpoch]

\* Mutant: a VM that was checked out over a SCRIPT FLUSH is kept.
RecycleIgnoresFlush(e, discard, heavy) ==
  \/ discard \/ heavy
  \/ VMRecycleRuns > 0 /\ e.runs >= VMRecycleRuns
  \/ Cardinality(Queue(e.sha)) >= VMPoolSize

\* Whether a released VM is closed; heavy: its charge passed VMRecyclePct.
Recycle(e, discard, heavy) ==
  \/ discard \/ heavy
  \/ e.epoch # poolEpoch
  \/ VMRecycleRuns > 0 /\ e.runs >= VMRecycleRuns
  \/ Cardinality(Queue(e.sha)) >= VMPoolSize

\* Mutant: no LRU eviction past the global cap.
EvictNothing(q) == q

\* evictOldestIdleLocked, until the global cap holds.
EvictOldestIdle(q) ==
  IF Len(q) > VMPoolMax THEN SubSeq(q, Len(q) - VMPoolMax + 1, Len(q)) ELSE q

ReleaseVM(vm, sha, discard, heavy) ==
  LET e == Served(vm, sha)
      kept == EvictOldestIdle(Append(idle, vm))
      metas == [v \in DOMAIN vmMeta \cup {vm} |-> IF v = vm THEN e ELSE vmMeta[v]]
      evicted == (ToSet(idle) \cup {vm}) \ ToSet(kept)
  IN /\ vm \in leased
     /\ leased' = leased \ {vm}
     /\ IF Recycle(e, discard, heavy)
          THEN /\ vmMeta' = Forget({vm})
               /\ born' = Unborn({vm})
               /\ UNCHANGED idle
          ELSE /\ idle' = kept
               /\ vmMeta' = [v \in DOMAIN metas \ evicted |-> metas[v]]
               /\ born' = Unborn(evicted)
     /\ UNCHANGED poolEpoch

\* Mutant: SCRIPT FLUSH forgets the idle VMs without taking them off their queues.
DrainMetaOnly ==
  /\ poolEpoch' = poolEpoch + 1
  /\ vmMeta' = Forget(ToSet(idle))
  /\ UNCHANGED <<idle, leased, born>>

\* The pool half of SCRIPT FLUSH: the epoch moves and every idle VM is closed.
DrainPool ==
  /\ poolEpoch' = poolEpoch + 1
  /\ idle' = <<>>
  /\ vmMeta' = Forget(ToSet(idle))
  /\ born' = Unborn(ToSet(idle))
  /\ UNCHANGED leased
=============================================================================
