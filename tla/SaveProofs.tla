------------------------------ MODULE SaveProofs ------------------------------
(* Proofs about Save: the snapshot file loads, it never goes back, and a     *)
(* count of 0 and a clean shutdown lose nothing, for any number of shards,   *)
(* any save rules, writes, failing file operations and crashes.              *)
EXTENDS Save, FiniteSetTheorems, TLAPS

(* The parts of the invariant.                                             *)

Writes == 0..conf.maxWrites
DumpT == [st : {"none", "part", "full", "synced"}, seg : [Shards -> Writes]]
Stages == {"off", "dump", "open", "write", "sync", "rename", "mark"}
Dumped == {"open", "write", "sync", "rename", "mark"}

\* How far a saver's segments go.
SegOk(stage, sg) ==
  /\ sg \in Seq(Writes) /\ Len(sg) <= NShards
  /\ stage = "dump" => Len(sg) < NShards
  /\ stage \in Dumped => Len(sg) = NShards

DataTyped ==
  /\ mem \in [Shards -> Writes] /\ acked \in [Shards -> Writes] /\ owed \in [Shards -> Writes]
  /\ \A w \in pend : w[1] \in Shards /\ w[2] \in 1..mem[w[1]]
  /\ \A s \in Shards : acked[s] <= mem[s]

FilesTyped ==
  /\ tmp \in DumpT /\ final \in DumpT
  /\ fd \in [Savers -> {"none", "tmp", "final"}]

ClockTyped ==
  /\ dirty \in Nat /\ ever \in BOOLEAN /\ age \in 0..conf.maxAge
  /\ since \in [Savers -> 0..conf.maxAge]
  /\ fails \in 0..conf.maxFails /\ crashes \in 0..conf.maxCrashes

SaversTyped ==
  /\ pc \in [Savers -> Stages] /\ seg \in [Savers -> Seq(Writes)]
  /\ \A p \in Savers : SegOk(pc[p], seg[p])
  /\ closing \in {"no", "final", "wait", "closed"}
  /\ (pc["fin"] # "off") = (closing = "final")

Typed == conf \in Confs /\ DataTyped /\ FilesTyped /\ ClockTyped /\ SaversTyped

\* Who may be in writeSnapshot: a shutdown save that meets a SAVE waits for it before its
\* first dump.
Turns ==
  /\ Foreground => pc["bg"] = "off"
  /\ conf.ops \subseteq {"BGSAVE"} => pc["save"] = "off" /\ pc["fin"] = "off"
  /\ pc["save"] # "off" /\ pc["fin"] # "off" => pc["fin"] = "dump" /\ seg["fin"] = <<>>

\* What a saver at some stage knows of the files and of its descriptor.
StageOk(stage, sg, d, t, f) ==
  /\ d = (IF stage = "write" THEN "tmp" ELSE "none")
  /\ stage = "write" => t.st = "part"
  /\ stage = "sync" => t = File("full", sg)
  /\ stage = "rename" => t = File("synced", sg)
  /\ stage = "mark" => f = File("synced", sg)

\* What a saver has dumped lies between the snapshot and the data.
SegBetween(stage, sg, f, m) ==
  stage # "off" => \A i \in 1..Len(sg) : f.seg[i] <= sg[i] /\ sg[i] <= m[i]

FileInv ==
  /\ final.st \in {"none", "synced"}
  /\ \A s \in Shards : final.seg[s] <= mem[s]
  /\ \A p \in Savers : StageOk(pc[p], seg[p], fd[p], tmp, final)
  /\ \A p \in Savers : SegBetween(pc[p], seg[p], final, mem)

\* SAVE dumps what is in memory, the shutdown save at least what is owed.
DumpInv ==
  /\ pc["save"] # "off" => \A i \in 1..Len(seg["save"]) : seg["save"][i] = mem[i]
  /\ closing = "final" => \A i \in 1..Len(seg["fin"]) : owed[i] <= seg["fin"][i]
  /\ closing # "no" => \A s \in Shards : owed[s] <= mem[s]

\* What a count of 0, and an ended shutdown save, say of the snapshot.
CleanInv ==
  /\ closing = "no" /\ dirty = 0 => \A s \in Shards : acked[s] <= final.seg[s]
  /\ closing \in {"wait", "closed"} /\ fails = 0 /\ conf.rules # {}
       => \A s \in Shards : owed[s] <= final.seg[s]

SaveInv ==
  /\ Typed /\ Turns
  /\ OneAtATime => FileInv
  /\ Foreground => DumpInv /\ CleanInv
-----------------------------------------------------------------------------
(* Segments, and what only the configuration decides.                      *)

LEMMA Shape ==
  ASSUME conf \in Confs
  PROVE  /\ conf.maxWrites \in Nat /\ conf.maxAge \in Nat
         /\ conf.maxFails \in Nat /\ conf.maxCrashes \in Nat
         /\ \A r \in conf.rules : r.seconds \in Nat /\ r.changes \in Nat
         /\ conf.restored \in BOOLEAN /\ conf.ops \subseteq {"SAVE", "BGSAVE", "CLOSE"}
         /\ NShards \in Nat \ {0} /\ Nothing \in [Shards -> Writes]
BY SaveAssumption DEF Conf, Nothing, Shards, Writes

LEMMA SameConf ==
  ASSUME conf' = conf
  PROVE  /\ Writes' = Writes /\ DumpT' = DumpT
         /\ Foreground' = Foreground /\ OneAtATime' = OneAtATime
         /\ \A stage, sg : SegOk(stage, sg)' = SegOk(stage, sg)
BY DEF Writes, DumpT, Foreground, OneAtATime, SegOk

\* One more segment.
LEMMA Longer ==
  ASSUME NEW W, NEW sg \in Seq(W), NEW v \in W
  PROVE  /\ Append(sg, v) \in Seq(W) /\ Len(Append(sg, v)) = Len(sg) + 1
         /\ \A i \in 1..Len(sg) : Append(sg, v)[i] = sg[i]
         /\ Append(sg, v)[Len(sg) + 1] = v
OBVIOUS

\* The segments of all shards.
LEMMA Complete ==
  ASSUME NEW sg \in Seq(Writes), Len(sg) = NShards
  PROVE  sg \in [Shards -> Writes]
BY DEF Shards

LEMMA Larger ==
  ASSUME NEW a \in Nat, NEW b \in Nat
  PROVE  Max({a, b}) \in {a, b} /\ a <= Max({a, b}) /\ b <= Max({a, b})
<1> DEFINE IsMax(x) == x \in {a, b} /\ \A y \in {a, b} : x >= y
<1>1. \E x \in {a, b} : IsMax(x)
  <2>1. CASE a >= b
    BY <2>1
  <2>2. CASE b >= a
    BY <2>2
  <2> QED BY <2>1, <2>2
<1>2. IsMax(Max({a, b}))
  <2> HIDE DEF IsMax
  <2>1. Max({a, b}) = CHOOSE x \in {a, b} : IsMax(x)
    BY DEF Max, IsMax
  <2> QED BY <1>1, <2>1
<1> QED BY <1>2

-----------------------------------------------------------------------------
(* The first state, and the write commands.                                *)

LEMMA InitInv == Init => SaveInv
<1> SUFFICES ASSUME Init PROVE SaveInv
  OBVIOUS
<1>1. conf \in Confs /\ NShards \in Nat \ {0} /\ Nothing \in [Shards -> Writes]
  BY Shape DEF Init
<1>2. DataTyped
  BY <1>1, Shape DEF DataTyped, Init, Nothing
<1>3. FilesTyped
  BY <1>1 DEF FilesTyped, Init, File, DumpT
<1>4. ClockTyped
  BY <1>1, Shape DEF ClockTyped, Init
<1>5. SaversTyped
  <2>1. SegOk("off", <<>>)
    BY <1>1 DEF SegOk, Dumped
  <2> QED BY <2>1 DEF SaversTyped, Init, Stages, Savers
<1>6. Turns
  BY DEF Turns, Init, Savers
<1>7. FileInv
  BY DEF FileInv, Init, File, StageOk, SegBetween, Nothing
<1>8. DumpInv /\ CleanInv
  BY DEF DumpInv, CleanInv, Init, File, Nothing, Savers
<1> QED BY <1>1, <1>2, <1>3, <1>4, <1>5, <1>6, <1>7, <1>8 DEF SaveInv, Typed

LEMMA WriteKeeps ==
  ASSUME SaveInv, NEW s \in Shards, Write(s)
  PROVE  SaveInv' /\ final' = final
<1> USE DEF saverVars, closeVars, envVars
<1>1. /\ conf' = conf /\ mem' = [mem EXCEPT ![s] = @ + 1] /\ pc["save"] = "off"
      /\ mem[s] < conf.maxWrites /\ pend' = pend \cup {<<s, mem[s] + 1>>}
      /\ <<acked, dirty, ever, age, tmp, final, pc, seg, fd, since, closing, owed, fails, crashes>>'
           = <<acked, dirty, ever, age, tmp, final, pc, seg, fd, since, closing, owed, fails, crashes>>
  BY DEF Write, Paused
<1>2. Typed
  BY DEF SaveInv
<1>3. /\ mem' \in [Shards -> Writes] /\ mem'[s] = mem[s] + 1
      /\ \A t \in Shards : mem[t] \in Nat /\ mem'[t] \in Nat /\ mem[t] <= mem'[t]
  BY <1>1, <1>2, Shape DEF Typed, DataTyped, Writes
<1>4. DataTyped'
  <2>1. \A t \in Shards : acked'[t] <= mem'[t]
    BY <1>1, <1>2, <1>3 DEF Typed, DataTyped, Writes
  <2>2. ASSUME NEW w \in pend' PROVE w[1] \in Shards /\ w[2] \in 1..mem'[w[1]]
    <3>1. CASE w \in pend
      <4>1. w[1] \in Shards /\ w[2] \in 1..mem[w[1]]
        BY <1>2, <3>1 DEF Typed, DataTyped
      <4> QED BY <1>3, <4>1
    <3>2. CASE w = <<s, mem[s] + 1>>
      BY <1>3, <3>2
    <3> QED BY <1>1, <2>2, <3>1, <3>2
  <2> QED BY <1>1, <1>2, <1>3, <2>1, <2>2, SameConf DEF Typed, DataTyped
<1>5. Typed' /\ Turns'
  BY <1>1, <1>2, <1>4, SameConf
    DEF Typed, FilesTyped, ClockTyped, SaversTyped, SaveInv, Turns
<1>6. ASSUME OneAtATime PROVE FileInv'
  <2>1. FileInv
    BY <1>6 DEF SaveInv
  <2>2. \A t \in Shards : final.seg[t] \in Nat /\ mem[t] \in Nat /\ mem'[t] \in Nat
    BY <1>1, <1>2, <1>3 DEF Typed, FilesTyped, DumpT, DataTyped, Writes
  <2>3. \A t \in Shards : final.seg[t] <= mem'[t]
    BY <1>3, <2>1, <2>2 DEF FileInv
  <2>4. ASSUME NEW p \in Savers, pc[p] # "off", NEW i \in 1..Len(seg[p])
        PROVE  final.seg[i] <= seg[p][i] /\ seg[p][i] <= mem'[i]
    <3>1. i \in Shards /\ seg[p][i] \in Nat
      BY <1>2, <2>4, Shape DEF Typed, SaversTyped, SegOk, Shards, Writes
    <3>2. final.seg[i] <= seg[p][i] /\ seg[p][i] <= mem[i]
      BY <2>1, <2>4 DEF FileInv, SegBetween
    <3> QED BY <1>3, <2>2, <3>1, <3>2
  <2> QED BY <1>1, <2>1, <2>3, <2>4 DEF FileInv, SegBetween, StageOk
<1>7. ASSUME Foreground PROVE DumpInv' /\ CleanInv'
  <2>1. DumpInv /\ CleanInv
    BY <1>7 DEF SaveInv
  <2>2. closing # "no" => \A t \in Shards : owed[t] <= mem'[t]
    BY <1>2, <1>3, <2>1 DEF DumpInv, Typed, DataTyped, Writes
  <2> QED BY <1>1, <2>1, <2>2 DEF DumpInv, CleanInv
<1> QED BY <1>1, <1>5, <1>6, <1>7, SameConf DEF SaveInv

LEMMA CaptureKeeps ==
  ASSUME SaveInv, NEW w \in pend, Capture(w)
  PROVE  SaveInv' /\ final' = final
<1> USE DEF saverVars, closeVars, envVars
<1>1. /\ conf' = conf /\ acked' = [acked EXCEPT ![w[1]] = Max({@, w[2]})]
      /\ dirty' = dirty + 1 /\ pend' \subseteq pend
      /\ <<mem, ever, age, tmp, final, pc, seg, fd, since, closing, owed, fails, crashes>>'
           = <<mem, ever, age, tmp, final, pc, seg, fd, since, closing, owed, fails, crashes>>
  BY DEF Capture
<1>2. Typed
  BY DEF SaveInv
<1>3. w[1] \in Shards /\ w[2] \in 1..mem[w[1]] /\ acked[w[1]] \in Writes
      /\ mem[w[1]] \in Writes /\ acked[w[1]] <= mem[w[1]]
  BY <1>2 DEF Typed, DataTyped
<1>4. Max({acked[w[1]], w[2]}) \in Writes /\ Max({acked[w[1]], w[2]}) <= mem[w[1]]
  <2>1. acked[w[1]] \in Nat /\ w[2] \in Nat /\ mem[w[1]] \in Nat
    BY <1>2, <1>3, Shape DEF Typed, Writes
  <2>2. Max({acked[w[1]], w[2]}) \in {acked[w[1]], w[2]}
    BY <2>1, Larger
  <2> QED BY <1>2, <1>3, <2>1, <2>2, Shape DEF Typed, Writes
<1>5. acked' \in [Shards -> Writes] /\ \A s \in Shards : acked'[s] <= mem[s]
  BY <1>1, <1>2, <1>3, <1>4 DEF Typed, DataTyped
<1>6. Typed' /\ Turns'
  <2>1. DataTyped'
    BY <1>1, <1>2, <1>5, SameConf DEF Typed, DataTyped
  <2>2. ClockTyped'
    BY <1>1, <1>2 DEF Typed, ClockTyped
  <2> QED BY <1>1, <1>2, <2>1, <2>2, SameConf DEF Typed, FilesTyped, SaversTyped, SaveInv, Turns
<1>7. OneAtATime => FileInv'
  BY <1>1 DEF SaveInv, FileInv, SegBetween, StageOk
<1>8. Foreground => DumpInv' /\ CleanInv'
  <2>1. dirty' # 0
    BY <1>1, <1>2 DEF Typed, ClockTyped
  <2> QED BY <1>1, <2>1 DEF SaveInv, DumpInv, CleanInv
<1> QED BY <1>1, <1>6, <1>7, <1>8, SameConf DEF SaveInv

-----------------------------------------------------------------------------
(* Saves begin.                                                            *)

\* A saver that was out of writeSnapshot enters it: the types and what savers know of files.
LEMMA EnterKeeps ==
  ASSUME SaversTyped, ClockTyped, conf \in Confs, conf' = conf, NEW p \in Savers, pc[p] = "off",
         pc' = [pc EXCEPT ![p] = "dump"], seg' = [seg EXCEPT ![p] = <<>>], fd' = fd,
         tmp' = tmp, final' = final, mem' = mem
  PROVE  /\ pc' \in [Savers -> Stages] /\ seg' \in [Savers -> Seq(Writes)]
         /\ \A q \in Savers : SegOk(pc'[q], seg'[q])
         /\ FileInv => FileInv'
<1>1. /\ pc' \in [Savers -> Stages] /\ seg' \in [Savers -> Seq(Writes)]
      /\ pc'[p] = "dump" /\ seg'[p] = <<>>
      /\ \A q \in Savers \ {p} : pc'[q] = pc[q] /\ seg'[q] = seg[q]
  BY DEF SaversTyped, Stages
<1>2. SegOk("dump", <<>>)
  BY Shape DEF SegOk, Dumped
<1>3. \A q \in Savers : SegOk(pc'[q], seg'[q])
  BY <1>1, <1>2 DEF SaversTyped
<1>4. ASSUME FileInv PROVE FileInv'
  <2>1. StageOk(pc[p], seg[p], fd[p], tmp, final)
    BY <1>4 DEF FileInv
  <2>2. StageOk("dump", <<>>, fd[p], tmp, final)
    BY <2>1 DEF StageOk
  <2>3. \A q \in Savers : StageOk(pc'[q], seg'[q], fd[q], tmp, final)
    BY <1>1, <1>4, <2>2 DEF FileInv
  <2>4. \A q \in Savers : SegBetween(pc'[q], seg'[q], final, mem)
    <3>1. SegBetween("dump", <<>>, final, mem)
      BY DEF SegBetween
    <3> QED BY <1>1, <1>4, <3>1 DEF FileInv
  <2> QED BY <1>4, <2>3, <2>4 DEF FileInv
<1> QED BY <1>1, <1>3, <1>4

LEMMA StartKeeps ==
  ASSUME SaveInv, NEW p \in {"save", "bg"},
         (p = "save" /\ SaveStart) \/ (p = "bg" /\ BGSaveStart)
  PROVE  SaveInv' /\ final' = final
<1> USE DEF saverVars, closeVars, envVars
<1>1. /\ conf' = conf /\ p \in Savers /\ pc[p] = "off" /\ closing = "no"
      /\ pc' = [pc EXCEPT ![p] = "dump"] /\ seg' = [seg EXCEPT ![p] = <<>>]
      /\ since' = [since EXCEPT ![p] = 0]
      /\ <<mem, pend, acked, dirty, ever, age, tmp, final, fd, closing, owed, fails, crashes>>'
           = <<mem, pend, acked, dirty, ever, age, tmp, final, fd, closing, owed, fails, crashes>>
  BY DEF SaveStart, BGSaveStart, Enter, Savers
<1>2. Typed /\ pc["fin"] = "off"
  BY <1>1 DEF SaveInv, Typed, SaversTyped
<1>3. /\ pc' \in [Savers -> Stages] /\ seg' \in [Savers -> Seq(Writes)]
      /\ \A q \in Savers : SegOk(pc'[q], seg'[q])
      /\ FileInv => FileInv'
  BY <1>1, <1>2, EnterKeeps DEF Typed
<1>4. since' \in [Savers -> 0..conf.maxAge]
  BY <1>1, <1>2, Shape DEF Typed, ClockTyped
<1>5. pc' ["fin"] = "off" /\ pc'[p] = "dump" /\ seg'[p] = <<>>
      /\ \A q \in Savers \ {p} : pc'[q] = pc[q] /\ seg'[q] = seg[q]
  BY <1>1, <1>2 DEF Savers, Typed, SaversTyped
<1>6. Typed'
  BY <1>1, <1>2, <1>3, <1>4, <1>5, SameConf
    DEF Typed, DataTyped, FilesTyped, ClockTyped, SaversTyped
<1>7. Turns'
  <2>1. p = "save" => ~ conf.ops \subseteq {"BGSAVE"}
    BY DEF SaveStart, BGSaveStart
  <2>2. p = "bg" => ~ Foreground
    BY DEF BGSaveStart, SaveStart, Foreground
  <2> QED BY <1>1, <1>5, <2>1, <2>2, SameConf DEF Turns, SaveInv, Savers
<1>8. Foreground => DumpInv' /\ CleanInv'
  <2>1. ASSUME Foreground PROVE DumpInv' /\ CleanInv'
    <3>1. DumpInv /\ CleanInv
      BY <2>1 DEF SaveInv
    <3>2. pc'["save"] # "off" => \A i \in 1..Len(seg'["save"]) : seg'["save"][i] = mem[i]
      <4>1. CASE p = "save"
        BY <1>5, <4>1
      <4>2. CASE p # "save"
        BY <1>5, <3>1, <4>2 DEF DumpInv, Savers
      <4> QED BY <4>1, <4>2
    <3> QED BY <1>1, <3>1, <3>2 DEF DumpInv, CleanInv
  <2> QED BY <2>1
<1> QED BY <1>1, <1>3, <1>6, <1>7, <1>8, SameConf DEF SaveInv

LEMMA CloseKeeps ==
  ASSUME SaveInv, Close \/ CloseEnd
  PROVE  SaveInv' /\ final' = final
<1> USE DEF saverVars, closeVars, envVars
<1>1. Typed /\ conf' = conf
      /\ <<mem, pend, acked, dirty, ever, age, tmp, final, fails, crashes>>'
           = <<mem, pend, acked, dirty, ever, age, tmp, final, fails, crashes>>
  BY DEF SaveInv, Close, CloseEnd
<1>2. CASE closing = "no" /\ closing' = "final" /\ Enter("fin") /\ owed' = acked /\ "CLOSE" \in conf.ops
  <2>1. /\ pc["fin"] = "off" /\ "fin" \in Savers /\ fd' = fd
        /\ pc' = [pc EXCEPT !["fin"] = "dump"] /\ seg' = [seg EXCEPT !["fin"] = <<>>]
        /\ since' = [since EXCEPT !["fin"] = 0]
    BY <1>1, <1>2 DEF Typed, SaversTyped, Savers, Enter
  <2>2. /\ pc' \in [Savers -> Stages] /\ seg' \in [Savers -> Seq(Writes)]
        /\ \A q \in Savers : SegOk(pc'[q], seg'[q])
        /\ FileInv => FileInv'
    BY <1>1, <2>1, EnterKeeps DEF Typed
  <2>3. since' \in [Savers -> 0..conf.maxAge]
    BY <1>1, <2>1, Shape DEF Typed, ClockTyped
  <2>4. /\ pc'["fin"] = "dump" /\ seg'["fin"] = <<>>
        /\ \A q \in Savers \ {"fin"} : pc'[q] = pc[q] /\ seg'[q] = seg[q]
    BY <1>1, <2>1 DEF Typed, SaversTyped
  <2>5. Typed'
    BY <1>1, <1>2, <2>1, <2>2, <2>3, <2>4, SameConf
      DEF Typed, DataTyped, FilesTyped, ClockTyped, SaversTyped
  <2>6. Turns'
    BY <1>1, <1>2, <2>4, SameConf DEF Turns, SaveInv, Savers
  <2>7. ASSUME Foreground PROVE DumpInv' /\ CleanInv'
    <3>1. DumpInv
      BY <2>7 DEF SaveInv
    <3>2. \A s \in Shards : owed'[s] <= mem'[s]
      BY <1>1, <1>2 DEF Typed, DataTyped
    <3> QED BY <1>1, <1>2, <2>4, <3>1, <3>2 DEF DumpInv, CleanInv, Savers
  <2> QED BY <1>1, <2>2, <2>5, <2>6, <2>7, SameConf DEF SaveInv
<1>3. CASE /\ closing = "no" /\ closing' = "wait" /\ owed' = acked
           /\ <<pc, seg, fd, since>>' = <<pc, seg, fd, since>>
           /\ conf.rules = {} \/ ~ dirty > 0
  <2>1. Typed'
    BY <1>1, <1>3, SameConf DEF Typed, DataTyped, FilesTyped, ClockTyped, SaversTyped
  <2>2. Turns' /\ (FileInv => FileInv')
    BY <1>1, <1>3, SameConf DEF Turns, SaveInv, FileInv
  <2>3. ASSUME Foreground PROVE DumpInv' /\ CleanInv'
    <3>1. DumpInv /\ CleanInv
      BY <2>3 DEF SaveInv
    <3>2. \A s \in Shards : owed'[s] <= mem'[s]
      BY <1>1, <1>3 DEF Typed, DataTyped
    <3>3. conf.rules # {} => dirty = 0
      BY <1>1, <1>3 DEF Typed, ClockTyped
    <3> QED BY <1>1, <1>3, <3>1, <3>2, <3>3 DEF DumpInv, CleanInv
  <2> QED BY <1>1, <2>1, <2>2, <2>3, SameConf DEF SaveInv
<1>4. CASE CloseEnd
  <2>1. closing = "wait" /\ closing' = "closed"
        /\ <<pc, seg, fd, since, owed>>' = <<pc, seg, fd, since, owed>>
    BY <1>4 DEF CloseEnd
  <2>2. Typed'
    BY <1>1, <2>1, SameConf DEF Typed, DataTyped, FilesTyped, ClockTyped, SaversTyped
  <2>3. Turns' /\ (FileInv => FileInv')
    BY <1>1, <2>1, SameConf DEF Turns, SaveInv, FileInv
  <2>4. Foreground => DumpInv' /\ CleanInv'
    BY <1>1, <2>1 DEF SaveInv, DumpInv, CleanInv
  <2> QED BY <1>1, <2>2, <2>3, <2>4, SameConf DEF SaveInv
<1> QED BY <1>1, <1>2, <1>3, <1>4 DEF Close

-----------------------------------------------------------------------------
(* The ticker and the restart.                                             *)

LEMMA TickKeeps ==
  ASSUME SaveInv, Tick
  PROVE  SaveInv' /\ final' = final
<1> USE DEF saverVars, closeVars, envVars
<1> DEFINE starts == pc["bg"] = "off" /\ \E r \in conf.rules : Due(r)
<1>1. /\ conf' = conf /\ closing = "no" /\ age' = Older(age)
      /\ <<mem, pend, acked, dirty, ever, tmp, final, fd, closing, owed, fails, crashes>>'
           = <<mem, pend, acked, dirty, ever, tmp, final, fd, closing, owed, fails, crashes>>
      /\ pc' = IF starts THEN [pc EXCEPT !["bg"] = "dump"] ELSE pc
      /\ seg' = IF starts THEN [seg EXCEPT !["bg"] = <<>>] ELSE seg
      /\ since' = [p \in Savers |-> IF p = "bg" /\ starts THEN 0
                                    ELSE IF pc[p] = "off" THEN since[p] ELSE Older(since[p])]
  BY DEF Tick
<1>2. Typed
  BY DEF SaveInv
<1>3. \A n \in 0..conf.maxAge : Older(n) \in 0..conf.maxAge
  BY <1>2, Shape DEF Older, Typed
<1>4. ClockTyped'
  <2>1. \A p \in Savers : since[p] \in 0..conf.maxAge /\ 0 \in 0..conf.maxAge
    BY <1>2, Shape DEF Typed, ClockTyped
  <2>2. since' \in [Savers -> 0..conf.maxAge]
    BY <1>1, <1>3, <2>1
  <2>3. age' \in 0..conf.maxAge
    BY <1>1, <1>2, <1>3 DEF Typed, ClockTyped
  <2> QED BY <1>1, <1>2, <2>2, <2>3 DEF Typed, ClockTyped
<1>5. starts => ~ Foreground
  <2> SUFFICES ASSUME NEW r \in conf.rules, Due(r), Foreground PROVE FALSE
    OBVIOUS
  <2>1. Elapsed \in 0..conf.maxAge
    BY <1>2, <1>3, Shape DEF Elapsed, Typed, ClockTyped
  <2> QED BY <1>2, <2>1, Shape DEF Due, Foreground, Typed
<1>6. CASE ~ starts
  <2>1. pc' = pc /\ seg' = seg
    BY <1>1, <1>6
  <2>2. Typed'
    <3>1. DataTyped' /\ FilesTyped' /\ SaversTyped'
      BY <1>1, <1>2, <2>1, SameConf DEF Typed, DataTyped, FilesTyped, SaversTyped
    <3> QED BY <1>1, <1>2, <1>4, <3>1 DEF Typed
  <2>4. Turns' /\ (FileInv => FileInv')
    BY <1>1, <2>1, SameConf DEF SaveInv, Turns, FileInv
  <2>3. Foreground => DumpInv' /\ CleanInv'
    BY <1>1, <2>1 DEF SaveInv, DumpInv, CleanInv
  <2> QED BY <1>1, <2>2, <2>3, <2>4, SameConf DEF SaveInv
<1>7. CASE starts
  <2>1. /\ "bg" \in Savers /\ pc["bg"] = "off"
        /\ pc' = [pc EXCEPT !["bg"] = "dump"] /\ seg' = [seg EXCEPT !["bg"] = <<>>]
    BY <1>1, <1>7 DEF Savers
  <2>2. /\ pc' \in [Savers -> Stages] /\ seg' \in [Savers -> Seq(Writes)]
        /\ \A q \in Savers : SegOk(pc'[q], seg'[q])
        /\ FileInv => FileInv'
    BY <1>1, <1>2, <2>1, EnterKeeps DEF Typed
  <2>3. \A q \in {"save", "fin"} : pc'[q] = pc[q] /\ seg'[q] = seg[q]
    BY <1>2, <2>1 DEF Savers, Typed, SaversTyped
  <2>4. Typed'
    BY <1>1, <1>2, <1>4, <2>2, <2>3, SameConf DEF Typed, DataTyped, FilesTyped, SaversTyped
  <2>5. Turns'
    <3>1. Turns
      BY DEF SaveInv
    <3> QED BY <1>1, <1>5, <1>7, <2>3, <3>1, SameConf DEF Turns
  <2> QED BY <1>1, <1>5, <1>7, <2>2, <2>4, <2>5, SameConf DEF SaveInv
<1> QED BY <1>1, <1>6, <1>7

LEMMA RestartKeeps ==
  ASSUME SaveInv, Restart
  PROVE  SaveInv' /\ final' = final
<1> USE DEF saverVars, closeVars, envVars
<1>1. /\ conf' = conf /\ closing = "no" /\ final.st \in {"none", "synced"}
      /\ crashes < conf.maxCrashes /\ crashes' = crashes + 1
      /\ mem' = final.seg /\ acked' = final.seg /\ pend' = {} /\ dirty' = 0
      /\ ever' = (final.st # "none") /\ age' = IF final.st = "none" THEN 0 ELSE age
      /\ pc' = [p \in Savers |-> "off"] /\ fd' = [p \in Savers |-> "none"]
      /\ <<tmp, final, seg, since, closing, owed, fails>>'
           = <<tmp, final, seg, since, closing, owed, fails>>
  BY DEF Restart
<1>2. Typed
  BY DEF SaveInv
<1>3. final.seg \in [Shards -> Writes] /\ \A s \in Shards : final.seg[s] \in Nat
  BY <1>2, Shape DEF Typed, FilesTyped, DumpT, Writes
<1>4. DataTyped'
  <2>1. \A s \in Shards : final.seg[s] <= final.seg[s]
    BY <1>3
  <2> QED BY <1>1, <1>2, <1>3, <2>1, SameConf DEF DataTyped, Typed
<1>5. FilesTyped'
  BY <1>1, <1>2, SameConf DEF Typed, FilesTyped
<1>6. ClockTyped'
  BY <1>1, <1>2, Shape DEF Typed, ClockTyped
<1>7. SaversTyped'
  <2>1. \A p \in Savers : SegOk("off", seg[p])
    BY <1>2 DEF Typed, SaversTyped, SegOk, Dumped
  <2> QED BY <1>1, <1>2, <2>1, SameConf DEF Typed, SaversTyped, Stages, Savers
<1>8. Turns'
  BY <1>1 DEF Turns, Savers
<1>9. FileInv'
  <2>1. \A p \in Savers : SegBetween("off", seg[p], final, mem')
    BY DEF SegBetween
  <2>2. \A p \in Savers : StageOk("off", seg[p], "none", tmp, final)
    BY DEF StageOk
  <2>3. \A s \in Shards : final.seg[s] <= final.seg[s]
    BY <1>3
  <2> QED BY <1>1, <2>1, <2>2, <2>3 DEF FileInv
<1>10. DumpInv' /\ CleanInv'
  <2>1. \A s \in Shards : acked'[s] <= final.seg[s]
    BY <1>1, <1>3
  <2> QED BY <1>1, <2>1 DEF DumpInv, CleanInv, Savers
<1> QED BY <1>1, <1>2, <1>4, <1>5, <1>6, <1>7, <1>8, <1>9, <1>10, SameConf DEF SaveInv, Typed

-----------------------------------------------------------------------------
(* The steps of a saver.                                                   *)

\* p is in writeSnapshot and no pause keeps it waiting.
Moving(p) == pc[p] # "off" /\ (pc[p] = "dump" /\ Paused => p = "save")

\* While one saver moves the others have done nothing: no descriptor, no segment.
LEMMA Others ==
  ASSUME SaveInv, OneAtATime, NEW p \in Savers, Moving(p), NEW q \in Savers \ {p}
  PROVE  /\ pc[q] \in {"off", "dump"} /\ (pc[q] # "off" => seg[q] = <<>>)
         /\ fd[q] = "none"
<1>1. pc[q] \in {"off", "dump"} /\ (pc[q] # "off" => seg[q] = <<>>)
  <2>1. CASE Foreground
    <3>1. p # "bg" /\ pc["bg"] = "off"
      BY <2>1 DEF SaveInv, Turns, Moving
    <3>2. CASE q = "bg"
      BY <3>1, <3>2
    <3>3. CASE p = "save" /\ q = "fin"
      BY <3>3 DEF SaveInv, Turns, Moving
    <3>4. CASE p = "fin" /\ q = "save"
      BY <3>4 DEF SaveInv, Turns, Moving, Paused
    <3> QED BY <3>1, <3>2, <3>3, <3>4 DEF Savers
  <2>2. CASE conf.ops \subseteq {"BGSAVE"}
    BY <2>2 DEF SaveInv, Turns, Moving, Savers
  <2> QED BY <2>1, <2>2 DEF OneAtATime
<1>2. StageOk(pc[q], seg[q], fd[q], tmp, final)
  BY DEF SaveInv, FileInv
<1> QED BY <1>1, <1>2 DEF StageOk

\* So what p's step leaves true of p holds of all.
LEMMA FilesAfter ==
  ASSUME SaveInv, OneAtATime, NEW p \in Savers, Moving(p), mem' = mem,
         \A q \in Savers \ {p} : pc'[q] = pc[q] /\ seg'[q] = seg[q] /\ fd'[q] = "none",
         final'.st \in {"none", "synced"}, \A s \in Shards : final'.seg[s] <= mem[s],
         StageOk(pc'[p], seg'[p], fd'[p], tmp', final'),
         SegBetween(pc'[p], seg'[p], final', mem)
  PROVE  FileInv'
<1>1. ASSUME NEW q \in Savers \ {p}
      PROVE  /\ StageOk(pc'[q], seg'[q], fd'[q], tmp', final')
             /\ SegBetween(pc'[q], seg'[q], final', mem)
  <2>1. pc'[q] \in {"off", "dump"} /\ (pc'[q] # "off" => seg'[q] = <<>>) /\ fd'[q] = "none"
    BY <1>1, Others
  <2> QED BY <2>1 DEF StageOk, SegBetween
<1> QED BY <1>1 DEF FileInv

\* What is common to them: the parts that a saver's step leaves alone.
LEMMA DataAfter ==
  ASSUME SaveInv, conf' = conf,
         <<mem, pend, acked, owed>>' = <<mem, pend, acked, owed>>
  PROVE  conf' \in Confs /\ DataTyped'
BY SameConf DEF SaveInv, Typed, DataTyped

LEMMA TurnsAfter ==
  ASSUME SaveInv, conf' = conf, NEW p \in Savers, Moving(p), seg' \in [Savers -> Seq(Writes)],
         \A q \in Savers \ {p} : pc'[q] = pc[q] /\ seg'[q] = seg[q]
  PROVE  Turns'
<1>1. Turns
  BY DEF SaveInv
<1>2. CASE p = "bg"
  BY <1>1, <1>2, SameConf DEF Turns, Moving, Savers
<1>3. CASE p = "save"
  BY <1>1, <1>3, SameConf DEF Turns, Moving, Savers
<1>4. CASE p = "fin"
  BY <1>1, <1>4, SameConf DEF Turns, Moving, Savers, Paused
<1> QED BY <1>2, <1>3, <1>4 DEF Savers

\* No file the snapshot was replaced by is behind it.
Forward == \A s \in Shards : final.seg[s] <= final'.seg[s]

LEMMA SameFile ==
  ASSUME SaveInv, final' = final
  PROVE  Forward
<1>1. \A s \in Shards : final.seg[s] \in Nat
  BY Shape DEF SaveInv, Typed, FilesTyped, DumpT, Writes
<1> QED BY <1>1 DEF Forward

LEMMA DumpKeeps ==
  ASSUME SaveInv, NEW p \in Savers, Dump(p)
  PROVE  SaveInv' /\ final' = final
<1> USE DEF saverVars, closeVars, envVars
<1> DEFINE sg == seg[p]
           n == Len(sg) + 1
<1>1. /\ conf' = conf /\ pc[p] = "dump" /\ (Paused => p = "save")
      /\ seg' = [seg EXCEPT ![p] = Append(@, mem[Len(@) + 1])]
      /\ pc' = [pc EXCEPT ![p] = IF n = NShards THEN "open" ELSE "dump"]
      /\ <<mem, pend, acked, dirty, ever, age, tmp, final, fd, since, closing, owed, fails, crashes>>'
           = <<mem, pend, acked, dirty, ever, age, tmp, final, fd, since, closing, owed, fails, crashes>>
  BY DEF Dump
<1>2. Typed
  BY DEF SaveInv
<1>3. /\ sg \in Seq(Writes) /\ Len(sg) < NShards /\ Len(sg) \in Nat
      /\ n \in Shards /\ mem[n] \in Writes
  BY <1>1, <1>2, Shape DEF Typed, SaversTyped, SegOk, DataTyped, Shards
<1>4. /\ seg'[p] = Append(sg, mem[n]) /\ seg'[p] \in Seq(Writes) /\ Len(seg'[p]) = n
      /\ \A i \in 1..Len(sg) : seg'[p][i] = sg[i]
      /\ seg'[p][n] = mem[n]
  <2>1. seg'[p] = Append(sg, mem[n])
    BY <1>1, <1>2 DEF Typed, SaversTyped
  <2> HIDE DEF sg
  <2> QED BY ONLY <1>3, <2>1, Longer
<1>5. /\ pc' \in [Savers -> Stages] /\ pc'[p] = IF n = NShards THEN "open" ELSE "dump"
      /\ \A q \in Savers \ {p} : pc'[q] = pc[q] /\ seg'[q] = seg[q]
      /\ seg' \in [Savers -> Seq(Writes)]
  <2>1. \A q \in Savers : seg'[q] \in Seq(Writes)
    BY <1>1, <1>2, <1>4 DEF Typed, SaversTyped
  <2> QED BY <1>1, <1>2, <2>1 DEF Typed, SaversTyped, Stages
<1>6. SaversTyped'
  <2>1. SegOk(pc'[p], seg'[p])
    BY <1>2, <1>3, <1>4, <1>5, Shape DEF SegOk, Dumped, Typed
  <2>2. \A q \in Savers : SegOk(pc'[q], seg'[q])
    BY <1>2, <1>5, <2>1 DEF Typed, SaversTyped
  <2>3. (pc'["fin"] # "off") = (pc["fin"] # "off")
    BY <1>1, <1>5 DEF Savers
  <2> QED BY <1>1, <1>2, <1>5, <2>2, <2>3, SameConf DEF Typed, SaversTyped
<1>7. Typed' /\ Turns'
  <2>1. FilesTyped' /\ ClockTyped'
    BY <1>1, <1>2, SameConf DEF Typed, FilesTyped, ClockTyped
  <2>2. DataTyped' /\ conf' \in Confs
    BY <1>1, DataAfter
  <2>3. Turns'
    BY <1>1, <1>5, TurnsAfter DEF Moving
  <2> QED BY <1>6, <2>1, <2>2, <2>3 DEF Typed
\* A segment appended is between what the snapshot has of its shard and the data.
<1>8. ASSUME OneAtATime PROVE FileInv'
  <2>1. FileInv
    BY <1>8 DEF SaveInv
  <2>2. \A q \in Savers \ {p} : fd'[q] = "none"
    BY <1>1, <1>8, Others DEF Moving
  <2>3. StageOk(pc'[p], seg'[p], fd'[p], tmp', final')
    <3>1. StageOk("dump", seg[p], fd[p], tmp, final)
      BY <1>1, <2>1 DEF FileInv
    <3> QED BY <1>1, <1>5, <3>1 DEF StageOk
  <2>4. final.seg[n] <= mem[n] /\ mem[n] <= mem[n]
    BY <1>2, <1>3, <2>1, Shape DEF FileInv, Writes, Typed
  <2>5. \A i \in 1..Len(seg'[p]) : final.seg[i] <= seg'[p][i] /\ seg'[p][i] <= mem[i]
    <3>1. \A i \in 1..Len(sg) : final.seg[i] <= sg[i] /\ sg[i] <= mem[i]
      BY <1>1, <2>1 DEF FileInv, SegBetween
    <3>2. \A i \in 1..n : i = n \/ i \in 1..Len(sg)
      BY <1>3
    <3> HIDE DEF n, sg
    <3> QED BY <1>4, <2>4, <3>1, <3>2
  <2>6. SegBetween(pc'[p], seg'[p], final', mem)
    BY <1>1, <2>5 DEF SegBetween
  <2>7. /\ Moving(p) /\ mem' = mem /\ final'.st \in {"none", "synced"}
        /\ \A s \in Shards : final'.seg[s] <= mem[s]
    BY <1>1, <2>1 DEF Moving, FileInv
  <2> QED BY <1>5, <1>8, <2>2, <2>3, <2>6, <2>7, FilesAfter
<1>9. ASSUME Foreground PROVE DumpInv' /\ CleanInv'
  <2>1. DumpInv /\ CleanInv
    BY <1>9 DEF SaveInv
  <2>2. \A i \in 1..n : i = n \/ i \in 1..Len(sg)
    BY <1>3
  <2>3. CASE p = "save"
    <3>1. \A i \in 1..Len(sg) : sg[i] = mem[i]
      BY <1>1, <2>1, <2>3 DEF DumpInv
    <3>2. \A i \in 1..Len(seg'["save"]) : seg'["save"][i] = mem[i]
      BY <1>4, <2>2, <2>3, <3>1
    <3>3. seg'["fin"] = seg["fin"]
      BY <1>5, <2>3 DEF Savers
    <3> QED BY <1>1, <2>1, <3>2, <3>3 DEF DumpInv, CleanInv
  <2>4. CASE p = "fin"
    <3>1. closing = "final"
      BY <1>1, <1>2, <2>4 DEF Typed, SaversTyped
    <3>2. \A i \in 1..Len(sg) : owed[i] <= sg[i]
      BY <2>1, <2>4, <3>1 DEF DumpInv
    <3>3. \A i \in 1..Len(seg'["fin"]) : owed[i] <= seg'["fin"][i]
      BY <1>3, <1>4, <2>1, <2>2, <2>4, <3>1, <3>2 DEF DumpInv
    <3>4. seg'["save"] = seg["save"] /\ pc'["save"] = pc["save"]
      BY <1>5, <2>4 DEF Savers
    <3> QED BY <1>1, <2>1, <3>3, <3>4 DEF DumpInv, CleanInv
  <2>5. CASE p = "bg"
    BY <1>1, <1>9, <2>5 DEF SaveInv, Turns
  <2> QED BY <2>3, <2>4, <2>5 DEF Savers
<1> QED BY <1>1, <1>7, <1>8, <1>9, SameConf DEF SaveInv

\* The steps that leave the segments: one of the files may change, and the saver may leave.
Onward(p) ==
  /\ conf' = conf /\ Moving(p) /\ pc[p] \in Dumped
  /\ pc' = [pc EXCEPT ![p] = pc'[p]] /\ pc'[p] \in {"off"} \cup Dumped
  /\ closing' = IF p = "fin" /\ pc'[p] = "off" THEN "wait" ELSE closing
  /\ <<mem, pend, acked, seg, since, owed, crashes>>' = <<mem, pend, acked, seg, since, owed, crashes>>

FilesStep(p) ==
  /\ \A q \in Savers \ {p} : fd'[q] = "none"
  /\ StageOk(pc'[p], seg[p], fd'[p], tmp', final')
  /\ final'.st \in {"none", "synced"} /\ final'.seg \in {final.seg, seg[p]}

CountsStep(p) ==
  /\ dirty' = dirty \/ (pc[p] = "mark" /\ final' = final /\ fails' = fails)
  /\ p = "fin" /\ pc'[p] = "off" => pc[p] = "mark" \/ fails' # 0 \/ ~ Foreground
  /\ fails' = fails \/ fails' # 0

\* What they leave true, when the files' types and the count are looked after.
LEMMA OnwardKeeps ==
  ASSUME SaveInv, NEW p \in Savers, Onward(p), FilesTyped', ClockTyped',
         OneAtATime => FilesStep(p), CountsStep(p)
  PROVE  SaveInv' /\ (OneAtATime => Forward)
<1>1. Typed /\ Turns
  BY DEF SaveInv
<1>2. /\ pc' \in [Savers -> Stages] /\ seg' = seg
      /\ \A q \in Savers \ {p} : pc'[q] = pc[q]
  BY <1>1 DEF Onward, Typed, SaversTyped, Stages, Dumped
<1>3. /\ seg[p] \in Seq(Writes) /\ Len(seg[p]) = NShards
      /\ seg[p] \in [Shards -> Writes] /\ 1..Len(seg[p]) = Shards
  BY <1>1, Complete DEF Onward, Typed, SaversTyped, SegOk, Shards
<1>4. \A s \in Shards : /\ mem[s] \in Nat /\ final.seg[s] \in Nat /\ seg[p][s] \in Nat
                        /\ acked[s] \in Nat /\ owed[s] \in Nat
  <2>1. Writes \subseteq Nat
    BY <1>1, Shape DEF Typed, Writes
  <2>2. /\ mem \in [Shards -> Writes] /\ acked \in [Shards -> Writes]
        /\ owed \in [Shards -> Writes] /\ final.seg \in [Shards -> Writes]
    BY <1>1 DEF Typed, DataTyped, FilesTyped, DumpT
  <2> QED BY <1>3, <2>1, <2>2
<1>5. SaversTyped'
  <2>1. SegOk(pc'[p], seg[p])
    BY <1>1, <1>3 DEF SegOk, Onward, Typed, SaversTyped, Dumped
  <2>2. \A q \in Savers : SegOk(pc'[q], seg'[q])
    BY <1>1, <1>2, <2>1 DEF Typed, SaversTyped
  <2>3. (pc'["fin"] # "off") = (closing' = "final")
    <3>1. CASE p = "fin"
      BY <1>1, <3>1 DEF Onward, Typed, SaversTyped, Dumped, Savers
    <3>2. CASE p # "fin"
      BY <1>1, <1>2, <3>2 DEF Onward, Typed, SaversTyped, Savers
    <3> QED BY <3>1, <3>2
  <2>4. closing' \in {"no", "final", "wait", "closed"}
    BY <1>1 DEF Onward, Typed, SaversTyped
  <2> QED BY <1>1, <1>2, <2>2, <2>3, <2>4, SameConf DEF Onward, Typed, SaversTyped
<1>6. Typed' /\ Turns'
  <2>1. DataTyped' /\ conf' \in Confs
    BY DataAfter DEF Onward
  <2>2. Turns'
    BY <1>1, <1>2, TurnsAfter DEF Onward, Typed, SaversTyped
  <2> QED BY <1>5, <2>1, <2>2 DEF Typed
<1>7. ASSUME OneAtATime
      PROVE  /\ FileInv' /\ Forward
             /\ final' = final \/ final'.seg = seg[p] \/ final'.seg = final.seg
  <2>1. FileInv
    BY <1>7 DEF SaveInv
  <2>2. \A s \in Shards : final.seg[s] <= seg[p][s] /\ seg[p][s] <= mem[s] /\ final.seg[s] <= mem[s]
    BY <1>3, <2>1 DEF FileInv, SegBetween, Onward, Dumped
  <2>3. \A s \in Shards : /\ final.seg[s] <= final'.seg[s] /\ final'.seg[s] <= seg[p][s]
                          /\ final'.seg[s] <= mem[s]
    BY <1>4, <1>7, <2>2 DEF FilesStep
  <2>4. SegBetween(pc'[p], seg'[p], final', mem)
    BY <1>2, <1>3, <2>2, <2>3 DEF SegBetween
  <2>5. FileInv'
    BY <1>2, <1>7, <2>3, <2>4, FilesAfter DEF Onward, FilesStep
  <2> QED BY <1>7, <2>3, <2>5 DEF Forward, FilesStep
<1>8. ASSUME Foreground PROVE DumpInv' /\ CleanInv'
  <2>1. DumpInv /\ CleanInv /\ OneAtATime
    BY <1>8 DEF SaveInv, OneAtATime
  <2>2. \A s \in Shards : final.seg[s] <= final'.seg[s] /\ final'.seg[s] \in Nat
    BY <1>4, <1>7, <2>1 DEF Forward
  <2>3. p \in {"save", "fin"} /\ (p = "fin") <=> (p # "save")
    BY <1>8 DEF Onward, Moving, SaveInv, Turns, Savers
  <2>4. DumpInv'
    <3>1. pc'["save"] # "off" => pc["save"] # "off"
      BY <1>2, <2>3 DEF Onward, Savers, Moving
    <3>2. closing' = "final" => closing = "final"
      BY DEF Onward
    <3>3. closing' # "no" => closing # "no"
      BY <1>1 DEF Onward, Moving, Typed, SaversTyped
    <3> QED BY <1>2, <2>1, <3>1, <3>2, <3>3 DEF DumpInv, Onward
  <2>5. ASSUME closing' = "no", dirty' = 0 PROVE \A s \in Shards : acked'[s] <= final'.seg[s]
    <3>1. closing = "no"
      BY <1>1, <2>5 DEF Onward, Moving, Typed, SaversTyped
    <3>2. CASE dirty = 0
      BY <1>4, <2>1, <2>2, <3>1, <3>2 DEF CleanInv, Onward
    <3>3. CASE pc[p] = "mark" /\ final' = final
      <4>1. p = "save"
        BY <1>1, <2>3, <3>1 DEF Onward, Moving, Typed, SaversTyped
      <4>2. final.seg = seg[p]
        BY <2>1, <3>3 DEF SaveInv, FileInv, StageOk, File
      <4>3. \A s \in Shards : seg[p][s] = mem[s]
        BY <1>3, <2>1, <4>1 DEF DumpInv, Onward, Moving
      <4> QED BY <1>1, <3>3, <4>2, <4>3 DEF Typed, DataTyped, Onward
    <3> QED BY <2>5, <3>2, <3>3 DEF CountsStep
  <2>6. ASSUME closing' \in {"wait", "closed"}, fails' = 0, conf.rules # {}
        PROVE  \A s \in Shards : owed'[s] <= final'.seg[s]
    <3>1. fails = 0
      BY <2>6 DEF CountsStep
    <3>2. CASE closing \in {"wait", "closed"}
      BY <1>4, <2>1, <2>2, <2>6, <3>1, <3>2 DEF CleanInv, Onward
    <3>3. CASE p = "fin" /\ pc'[p] = "off"
      <4>1. pc[p] = "mark" /\ closing = "final"
        BY <1>1, <1>8, <2>6, <3>3 DEF CountsStep, Onward, Moving, Typed, SaversTyped
      <4>2. final.seg = seg[p]
        BY <2>1, <4>1 DEF SaveInv, FileInv, StageOk, File
      <4>3. \A s \in Shards : owed[s] <= seg[p][s]
        BY <1>3, <2>1, <3>3, <4>1 DEF DumpInv
      <4> QED BY <1>4, <2>2, <4>2, <4>3 DEF Onward
    <3> QED BY <2>6, <3>2, <3>3 DEF Onward
  <2>7. CleanInv'
    BY <2>5, <2>6 DEF CleanInv, Onward
  <2> QED BY <2>4, <2>7
<1>9. conf' = conf
  BY DEF Onward
<1> QED BY <1>6, <1>7, <1>8, <1>9, SameConf DEF SaveInv

\* A file is a dump's type when its segments are all dumped.
LEMMA FileType ==
  ASSUME Typed, NEW p \in Savers, pc[p] \in Dumped, NEW st \in {"none", "part", "full", "synced"}
  PROVE  File(st, seg[p]) \in DumpT /\ File(st, Nothing) \in DumpT
<1>1. seg[p] \in [Shards -> Writes]
  BY Complete DEF Typed, SaversTyped, SegOk
<1>2. Nothing \in [Shards -> Writes]
  BY Shape DEF Typed
<1> QED BY <1>1, <1>2 DEF File, DumpT

\* The descriptors of the savers that do not move.
LEMMA Idle ==
  ASSUME SaveInv, OneAtATime, NEW p \in Savers, pc[p] \in Dumped,
         NEW d, fd' = [fd EXCEPT ![p] = d] \/ fd' = [q \in Savers |-> CASE fd[q] = "tmp" -> "final"
                                                                        [] OTHER -> "none"]
                \/ fd' = fd
  PROVE  /\ \A q \in Savers \ {p} : fd'[q] = "none"
         /\ FileInv /\ StageOk(pc[p], seg[p], fd[p], tmp, final)
<1>1. FileInv /\ StageOk(pc[p], seg[p], fd[p], tmp, final)
  BY DEF SaveInv, FileInv
<1>2. ASSUME NEW q \in Savers \ {p} PROVE fd'[q] = "none"
  <2>1. fd[q] = "none"
    BY Others DEF Moving, Dumped
  <2>2. fd \in [Savers -> {"none", "tmp", "final"}]
    BY DEF SaveInv, Typed, FilesTyped
  <2> QED BY <2>1, <2>2
<1> QED BY <1>1, <1>2

LEMMA OpenKeeps ==
  ASSUME SaveInv, NEW p \in Savers, Open(p)
  PROVE  SaveInv' /\ (OneAtATime => Forward)
<1> USE DEF closeVars, envVars
<1>1. Typed /\ pc[p] = "open" /\ conf' = conf
  BY DEF Open, SaveInv
<1>2. Onward(p) /\ dirty' = dirty /\ fails' = fails /\ final' = final /\ pc'[p] = "write"
  BY <1>1 DEF Open, Onward, Moving, Dumped, Typed, SaversTyped
<1>3. FilesTyped' /\ ClockTyped'
  <2>1. tmp' \in DumpT
    BY <1>1, FileType DEF Open, Dumped
  <2> QED BY <1>1, <2>1, SameConf DEF Open, Typed, FilesTyped, ClockTyped
<1>4. ASSUME OneAtATime PROVE FilesStep(p)
  <2>1. FileInv /\ \A q \in Savers \ {p} : fd'[q] = "none"
    BY <1>1, <1>4, Idle DEF Open, Dumped
  <2>2. fd'[p] = "tmp" /\ tmp'.st = "part"
    BY <1>1 DEF Open, Typed, FilesTyped, File
  <2> QED BY <1>2, <2>1, <2>2 DEF FilesStep, StageOk, FileInv
<1>5. CountsStep(p)
  BY <1>1, <1>2 DEF CountsStep
<1> QED BY <1>2, <1>3, <1>4, <1>5, OnwardKeeps

LEMMA WriteOutKeeps ==
  ASSUME SaveInv, NEW p \in Savers, WriteOut(p)
  PROVE  SaveInv' /\ (OneAtATime => Forward)
<1> USE DEF closeVars, envVars
<1>1. Typed /\ pc[p] = "write" /\ conf' = conf
  BY DEF WriteOut, SaveInv
<1>2. Onward(p) /\ dirty' = dirty /\ fails' = fails /\ pc'[p] = "sync"
  BY <1>1 DEF WriteOut, Onward, Moving, Dumped, Typed, SaversTyped
<1>3. FilesTyped' /\ ClockTyped'
  <2>1. \A f : Written(p, f) \subseteq DumpT
    BY <1>1, FileType DEF Written, Dumped
  <2>2. tmp' \in DumpT /\ final' \in DumpT
    BY <1>1, <2>1 DEF WriteOut, Typed, FilesTyped
  <2> QED BY <1>1, <2>2, SameConf DEF WriteOut, Typed, FilesTyped, ClockTyped
<1>4. ASSUME OneAtATime PROVE FilesStep(p)
  <2>1. /\ FileInv /\ \A q \in Savers \ {p} : fd'[q] = "none"
        /\ fd[p] = "tmp" /\ tmp.st = "part"
    BY <1>1, <1>4, Idle DEF WriteOut, Dumped, StageOk
  <2>2. tmp' = File("full", seg[p]) /\ final' = final /\ fd'[p] = "none"
    BY <1>1, <2>1 DEF WriteOut, Written, Typed, FilesTyped
  <2> QED BY <1>2, <2>1, <2>2 DEF FilesStep, StageOk, FileInv
<1>5. CountsStep(p)
  BY <1>1, <1>2 DEF CountsStep
<1> QED BY <1>2, <1>3, <1>4, <1>5, OnwardKeeps

LEMMA SyncKeeps ==
  ASSUME SaveInv, NEW p \in Savers, Sync(p)
  PROVE  SaveInv' /\ (OneAtATime => Forward)
<1> USE DEF closeVars, envVars
<1>1. Typed /\ pc[p] = "sync" /\ conf' = conf /\ fd' = fd
  BY DEF Sync, SaveInv
<1>2. Onward(p) /\ dirty' = dirty /\ fails' = fails /\ final' = final /\ pc'[p] = "rename"
  BY <1>1 DEF Sync, Onward, Moving, Dumped, Typed, SaversTyped
<1>3. FilesTyped' /\ ClockTyped'
  <2>1. tmp' \in DumpT
    BY <1>1 DEF Sync, Typed, FilesTyped, DumpT, File
  <2> QED BY <1>1, <2>1, SameConf DEF Sync, Typed, FilesTyped, ClockTyped
<1>4. ASSUME OneAtATime PROVE FilesStep(p)
  <2>1. /\ FileInv /\ \A q \in Savers \ {p} : fd'[q] = "none"
        /\ fd[p] = "none" /\ tmp = File("full", seg[p])
    BY <1>1, <1>4, Idle DEF Dumped, StageOk
  <2>2. tmp' = File("synced", seg[p])
    BY <2>1 DEF Sync, File
  <2> QED BY <1>1, <1>2, <2>1, <2>2 DEF FilesStep, StageOk, FileInv
<1>5. CountsStep(p)
  BY <1>1, <1>2 DEF CountsStep
<1> QED BY <1>2, <1>3, <1>4, <1>5, OnwardKeeps

LEMMA RenameKeeps ==
  ASSUME SaveInv, NEW p \in Savers, Rename(p)
  PROVE  SaveInv' /\ (OneAtATime => Forward)
<1> USE DEF closeVars, envVars
<1>1. Typed /\ pc[p] = "rename" /\ conf' = conf
  BY DEF Rename, SaveInv
<1>2. Onward(p) /\ dirty' = dirty /\ fails' = fails /\ pc'[p] = "mark"
  BY <1>1 DEF Rename, Onward, Moving, Dumped, Typed, SaversTyped
<1>3. FilesTyped' /\ ClockTyped'
  <2>1. tmp' \in DumpT /\ final' \in DumpT
    BY <1>1, FileType DEF Rename, Typed, FilesTyped, Dumped
  <2> QED BY <1>1, <2>1, SameConf DEF Rename, Typed, FilesTyped, ClockTyped
<1>4. ASSUME OneAtATime PROVE FilesStep(p)
  <2>1. /\ FileInv /\ \A q \in Savers \ {p} : fd'[q] = "none"
        /\ fd[p] = "none" /\ tmp = File("synced", seg[p])
    BY <1>1, <1>4, Idle DEF Rename, Dumped, StageOk
  <2>2. final' = File("synced", seg[p]) /\ fd'[p] = "none"
    BY <2>1 DEF Rename
  <2> QED BY <1>1, <1>2, <2>1, <2>2 DEF FilesStep, StageOk, FileInv, File
<1>5. CountsStep(p)
  BY <1>1, <1>2 DEF CountsStep
<1> QED BY <1>2, <1>3, <1>4, <1>5, OnwardKeeps

LEMMA MarkKeeps ==
  ASSUME SaveInv, NEW p \in Savers, Mark(p)
  PROVE  SaveInv' /\ (OneAtATime => Forward)
<1> USE DEF closeVars, envVars
<1>1. Typed /\ pc[p] = "mark" /\ conf' = conf /\ fd' = fd
  BY DEF Mark, SaveInv
<1>2. Onward(p) /\ final' = final /\ fails' = fails /\ pc'[p] = "off"
  BY <1>1 DEF Mark, Leave, Onward, Moving, Dumped, Typed, SaversTyped
<1>3. FilesTyped' /\ ClockTyped'
  BY <1>1, SameConf DEF Mark, Leave, Typed, FilesTyped, ClockTyped
<1>4. ASSUME OneAtATime PROVE FilesStep(p)
  <2>1. FileInv /\ (\A q \in Savers \ {p} : fd'[q] = "none") /\ fd[p] = "none"
    BY <1>1, <1>4, Idle DEF Dumped, StageOk
  <2> QED BY <1>1, <1>2, <2>1 DEF FilesStep, StageOk, FileInv
<1>5. CountsStep(p)
  BY <1>1, <1>2 DEF CountsStep
<1> QED BY <1>2, <1>3, <1>4, <1>5, OnwardKeeps

LEMMA FailKeeps ==
  ASSUME SaveInv, NEW p \in Savers, Fail(p)
  PROVE  SaveInv' /\ (OneAtATime => Forward)
<1> USE DEF closeVars, envVars
<1>1. Typed /\ pc[p] \in Dumped /\ conf' = conf /\ fd' = [fd EXCEPT ![p] = "none"]
  BY DEF Fail, SaveInv, Dumped
<1>2. Onward(p) /\ final' = final /\ tmp' = tmp /\ dirty' = dirty /\ pc'[p] = "off"
  BY <1>1 DEF Fail, Leave, Onward, Moving, Dumped, Typed, SaversTyped
<1>3. FilesTyped' /\ ClockTyped' /\ (fails' = fails \/ fails' # 0)
  <2>1. fails' \in 0..conf.maxFails /\ (fails' = fails \/ fails' # 0)
    BY <1>1, Shape DEF Fail, Typed, ClockTyped
  <2> QED BY <1>1, <1>2, <2>1, SameConf DEF Fail, Leave, Typed, FilesTyped, ClockTyped
<1>4. ASSUME OneAtATime PROVE FilesStep(p) /\ fails' # 0
  <2>1. /\ FileInv /\ \A q \in Savers \ {p} : fd'[q] = "none"
        /\ StageOk(pc[p], seg[p], fd[p], tmp, final)
    BY <1>1, <1>4, Idle
  <2>2. fd'[p] = "none"
    BY <1>1 DEF Typed, FilesTyped
  <2>3. fails' # 0
    BY <1>1, <2>1 DEF Fail, StageOk, File, Typed, ClockTyped
  <2> QED BY <1>2, <2>1, <2>2, <2>3 DEF FilesStep, StageOk, FileInv
<1>5. CountsStep(p)
  BY <1>2, <1>3, <1>4 DEF CountsStep, OneAtATime
<1> QED BY <1>2, <1>3, <1>4, <1>5, OnwardKeeps
-----------------------------------------------------------------------------
(* The theorems.                                                           *)

LEMMA NextKeeps ==
  ASSUME SaveInv, [Next]_vars
  PROVE  SaveInv' /\ (OneAtATime => Forward)
<1>1. CASE UNCHANGED vars
  <2>1. final' = final /\ conf' = conf
    BY <1>1 DEF vars
  <2>2. Typed' /\ Turns' /\ FileInv' = FileInv /\ DumpInv' = DumpInv /\ CleanInv' = CleanInv
    BY <1>1, SameConf DEF vars, SaveInv, Typed, DataTyped, FilesTyped, ClockTyped, SaversTyped,
                          Turns, FileInv, DumpInv, CleanInv
  <2> QED BY <2>1, <2>2, SameConf, SameFile DEF SaveInv
<1>2. CASE \/ \E s \in Shards : Write(s)
           \/ \E w \in pend : Capture(w)
           \/ SaveStart \/ BGSaveStart \/ Tick \/ Close \/ CloseEnd \/ Restart
           \/ \E p \in Savers : Dump(p)
  <2>1. CASE \E s \in Shards : Write(s)
    BY <2>1, WriteKeeps, SameFile
  <2>2. CASE \E w \in pend : Capture(w)
    BY <2>2, CaptureKeeps, SameFile
  <2>3. CASE SaveStart \/ BGSaveStart
    <3>1. SaveInv' /\ final' = final
      BY <2>3, StartKeeps
    <3> QED BY <3>1, SameFile
  <2>4. CASE Tick \/ Close \/ CloseEnd \/ Restart
    BY <2>4, TickKeeps, CloseKeeps, RestartKeeps, SameFile
  <2>5. CASE \E p \in Savers : Dump(p)
    BY <2>5, DumpKeeps, SameFile
  <2> QED BY <1>2, <2>1, <2>2, <2>3, <2>4, <2>5
<1>3. ASSUME NEW p \in Savers, Saver(p), ~ Dump(p) PROVE SaveInv' /\ (OneAtATime => Forward)
  BY <1>3, OpenKeeps, WriteOutKeeps, SyncKeeps, RenameKeeps, MarkKeeps, FailKeeps DEF Saver
<1> QED BY <1>1, <1>2, <1>3 DEF Next

\* SaveInv holds in every reachable state.
THEOREM SaveInvariant == Spec => []SaveInv
<1>1. SaveInv /\ [Next]_vars => SaveInv'
  BY NextKeeps
<1> QED BY InitInv, <1>1, PTL DEF Spec

\* Saving is sound: with one saver at a time the file in place is complete and on disk
\* (writeSnapshot's rename), a count of 0 means that it has all that was answered
\* (Manager.dirty), and so it does after a Close without failures and with a save rule.
THEOREM SavingIsSound == Spec => []SaveSound
<1>1. SaveInv => SaveSound
  <2> SUFFICES ASSUME SaveInv PROVE SaveSound
    OBVIOUS
  <2>1. TypeOK
    <3>1. DumpT \subseteq AnyFile /\ Writes = 0..conf.maxWrites
      BY Shape DEF DumpT, AnyFile, Writes, SaveInv, Typed
    <3> QED BY <3>1 DEF TypeOK, SaveInv, Typed, DataTyped, FilesTyped, ClockTyped, SaversTyped,
                        SegOk, Stages
  <2>2. SnapshotLoads
    BY DEF SnapshotLoads, SnapshotAtomic, SaveInv, FileInv
  <2>3. CleanMeansSaved /\ FinalCovers
    BY DEF CleanMeansSaved, FinalCovers, SaveInv, CleanInv
  <2> QED BY <2>1, <2>2, <2>3 DEF SaveSound
<1> QED BY <1>1, SaveInvariant, PTL

\* A snapshot never takes back what the one before it held, across failed saves and restarts,
\* in the configurations whose saves do not overlap (only BGSAVE, or SAVE and Close without it).
THEOREM SnapshotsGoForward == Spec => SavedStays
<1>1. SaveInv /\ [Next]_vars
        => [OneAtATime /\ final.st = "synced" /\ final'.st = "synced"
              => \A s \in Shards : final.seg[s] <= final'.seg[s]]_vars
  BY NextKeeps DEF Forward
<1> QED BY <1>1, SaveInvariant, PTL DEF Spec, SavedStays
===============================================================================
