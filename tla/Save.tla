------------------------------- MODULE Save -------------------------------
(***************************************************************************)
(* Snapshots: SAVE, BGSAVE, the save rules and the shutdown save of        *)
(* lib/persist/manager.go, each of which runs writeSnapshot of             *)
(* snapshot.go on one temporary file name, and the restart from the file.  *)
(* The server runs with appendonly off.                                    *)
(*                                                                         *)
(* A shard's data are the number of writes it has had; a segment of a      *)
(* snapshot is that number at the time of the dump.                        *)
(***************************************************************************)
EXTENDS Integers, Sequences, FiniteSets, FiniteSetsExt

CONSTANTS
  NShards,    \* number of shards
  Confs       \* the configurations and workloads

Shards == 1..NShards

\* A configuration: the save rules; whether the server starts from a snapshot;
\* the operations that occur; and bounds on the writes on each shard, on ages,
\* which are not told apart beyond it, on failing file operations and crashes.
Conf == [rules: SUBSET [seconds: Nat, changes: Nat], restored: BOOLEAN,
         ops: SUBSET {"SAVE", "BGSAVE", "CLOSE"}, maxWrites: Nat, maxAge: Nat,
         maxFails: Nat, maxCrashes: Nat]

ASSUME SaveAssumption ==
  /\ NShards \in Nat \ {0}
  /\ \A f \in Confs : f \in Conf

\* The goroutines that can be in writeSnapshot: the one of BGSAVE, a
\* connection's SAVE, and Close.
Savers == {"bg", "save", "fin"}

\* A snapshot file: missing, unusable, complete, complete and on disk.
File(st, seg) == [st |-> st, seg |-> seg]
Nothing == [s \in Shards |-> 0]

VARIABLES
  conf,     \* the configuration, fixed at the start
  mem,      \* writes applied to each shard
  pend,     \* writes applied and not yet captured by LogCommand
  acked,    \* the last write of each shard that was answered
  dirty,    \* Manager.dirty
  ever,     \* lastSaveUnix # 0
  age,      \* seconds since lastSaveUnix
  tmp,      \* the file dbfilename.tmp
  final,    \* the file dbfilename
  pc,       \* per saver: "off", "dump", "open", "write", "sync", "rename", "mark"
  seg,      \* per saver: the segments dumped so far
  fd,       \* per saver: the file its descriptor is open on
  since,    \* per saver: seconds since its SavedAt
  closing,  \* Close: "no", "final", "wait", "closed"
  owed,     \* acked when Close began
  fails,    \* failed file operations
  crashes   \* crashes

saverVars == <<pc, seg, fd, since>>
closeVars == <<closing, owed>>
envVars == <<crashes, conf>>
vars == <<conf, mem, pend, acked, dirty, ever, age, tmp, final, pc, seg, fd, since,
          closing, owed, fails, crashes>>

-----------------------------------------------------------------------------
(* Write commands.                                                         *)

\* Save holds PauseAll from its first dump to its last store.
Paused == pc["save"] # "off"

Write(s) ==
  /\ closing # "closed" /\ ~ Paused /\ mem[s] < conf.maxWrites
  /\ mem' = [mem EXCEPT ![s] = @ + 1]
  /\ pend' = pend \cup {<<s, mem[s] + 1>>}
  /\ UNCHANGED <<acked, dirty, ever, age, tmp, final, saverVars, closeVars, fails, envVars>>

\* LogCommand, on the connection's goroutine: a pause does not hold it up.
Capture(w) ==
  /\ dirty' = dirty + 1
  /\ pend' = pend \ {w}
  /\ acked' = [acked EXCEPT ![w[1]] = Max({@, w[2]})]
  /\ UNCHANGED <<mem, ever, age, tmp, final, saverVars, closeVars, fails, envVars>>

-----------------------------------------------------------------------------
(* saveLocked and writeSnapshot.                                           *)

\* Saver p enters writeSnapshot.
Enter(p) ==
  /\ pc' = [pc EXCEPT ![p] = "dump"]
  /\ seg' = [seg EXCEPT ![p] = <<>>]
  /\ since' = [since EXCEPT ![p] = 0]
  /\ UNCHANGED fd

\* Save waits in PauseAll for another Save.  Commands end when Close begins.
SaveStart ==
  /\ "SAVE" \in conf.ops /\ closing = "no" /\ pc["save"] = "off"
  /\ Enter("save")
  /\ UNCHANGED <<mem, pend, acked, dirty, ever, age, tmp, final, closeVars, fails, envVars>>

\* BGSave: one at a time, by bgsaveRunning.
BGSaveStart ==
  /\ "BGSAVE" \in conf.ops /\ closing = "no" /\ pc["bg"] = "off"
  /\ Enter("bg")
  /\ UNCHANGED <<mem, pend, acked, dirty, ever, age, tmp, final, closeVars, fails, envVars>>

\* Mutant: SAVE dumps without its pause token.
DumpNoTok(p) ==
  /\ pc[p] = "dump" /\ ~ Paused
  /\ seg' = [seg EXCEPT ![p] = Append(@, mem[Len(@) + 1])]
  /\ pc' = [pc EXCEPT ![p] = IF Len(seg[p]) + 1 = NShards THEN "open" ELSE "dump"]
  /\ UNCHANGED <<mem, pend, acked, dirty, ever, age, tmp, final, fd, since, closeVars, fails, envVars>>

\* The dump of the next segment; without the pause token it waits for a pause to end.
Dump(p) ==
  /\ pc[p] = "dump" /\ (Paused => p = "save")
  /\ seg' = [seg EXCEPT ![p] = Append(@, mem[Len(@) + 1])]
  /\ pc' = [pc EXCEPT ![p] = IF Len(seg[p]) + 1 = NShards THEN "open" ELSE "dump"]
  /\ UNCHANGED <<mem, pend, acked, dirty, ever, age, tmp, final, fd, since, closeVars, fails, envVars>>

\* os.WriteFile: open with truncation.
Open(p) ==
  /\ pc[p] = "open"
  /\ tmp' = File("part", Nothing)
  /\ fd' = [fd EXCEPT ![p] = "tmp"]
  /\ pc' = [pc EXCEPT ![p] = "write"]
  /\ UNCHANGED <<mem, pend, acked, dirty, ever, age, final, seg, since, closeVars, fails, envVars>>

\* What is in a file after p has written its bytes at the beginning: p's bytes,
\* or those with the end of longer ones behind them.
Written(p, f) ==
  {File("full", seg[p])} \cup (IF f.st = "part" THEN {} ELSE {File("part", Nothing)})

\* os.WriteFile: write and close; another saver may have renamed the file.
WriteOut(p) ==
  /\ pc[p] = "write"
  /\ \/ fd[p] = "tmp" /\ tmp' \in Written(p, tmp) /\ UNCHANGED final
     \/ fd[p] = "final" /\ final' \in Written(p, final) /\ UNCHANGED tmp
     \/ fd[p] = "none" /\ UNCHANGED <<tmp, final>>
  /\ fd' = [fd EXCEPT ![p] = "none"]
  /\ pc' = [pc EXCEPT ![p] = "sync"]
  /\ UNCHANGED <<mem, pend, acked, dirty, ever, age, seg, since, closeVars, fails, envVars>>

\* Mutant: the file is renamed before its bytes are on disk.
SyncNothing(p) ==
  /\ pc[p] = "sync" /\ tmp.st # "none"
  /\ pc' = [pc EXCEPT ![p] = "rename"]
  /\ UNCHANGED <<mem, pend, acked, dirty, ever, age, tmp, final, seg, fd, since, closeVars, fails, envVars>>

\* syncDir(tmp): whatever bytes the file has are on disk.
Sync(p) ==
  /\ pc[p] = "sync" /\ tmp.st # "none"
  /\ tmp' = IF tmp.st = "full" THEN File("synced", tmp.seg) ELSE tmp
  /\ pc' = [pc EXCEPT ![p] = "rename"]
  /\ UNCHANGED <<mem, pend, acked, dirty, ever, age, final, seg, fd, since, closeVars, fails, envVars>>

\* os.Rename: descriptors on the temporary file are now on the final one.
Rename(p) ==
  /\ pc[p] = "rename" /\ tmp.st # "none"
  /\ final' = tmp
  /\ tmp' = File("none", Nothing)
  /\ fd' = [q \in Savers |-> CASE fd[q] = "tmp" -> "final" [] OTHER -> "none"]
  /\ pc' = [pc EXCEPT ![p] = "mark"]
  /\ UNCHANGED <<mem, pend, acked, dirty, ever, age, seg, since, closeVars, fails, envVars>>

\* Mutant: Close does not go on after its save.
LeaveStuck(p) ==
  /\ pc' = [pc EXCEPT ![p] = "off"]
  /\ UNCHANGED <<seg, since, closing, owed>>

\* Saver p leaves saveLocked.
Leave(p) ==
  /\ pc' = [pc EXCEPT ![p] = "off"]
  /\ closing' = IF p = "fin" THEN "wait" ELSE closing
  /\ UNCHANGED <<seg, since, owed>>

\* The manifest is written; lastSaveUnix and dirty are stored.
Mark(p) ==
  /\ pc[p] = "mark"
  /\ ever' = TRUE /\ age' = since[p]
  /\ dirty' = 0
  /\ Leave(p)
  /\ UNCHANGED <<mem, pend, acked, tmp, final, fd, fails, envVars>>

\* Mutant: a failed save also stores lastSaveUnix and dirty.
FailMarked(p) ==
  /\ pc[p] \in {"open", "write", "sync", "rename", "mark"} /\ fails < conf.maxFails
  /\ fails' = fails + 1
  /\ ever' = TRUE /\ age' = since[p] /\ dirty' = 0
  /\ fd' = [fd EXCEPT ![p] = "none"]
  /\ Leave(p)
  /\ UNCHANGED <<mem, pend, acked, tmp, final, envVars>>

\* A file operation fails, the manifest's included: saveLocked returns the error.
Fail(p) ==
  /\ pc[p] \in {"open", "write", "sync", "rename", "mark"}
  /\ \/ /\ fails < conf.maxFails /\ fails' = fails + 1
     \/ /\ pc[p] \in {"sync", "rename"} /\ tmp.st = "none"   \* another saver took it
        /\ UNCHANGED fails
  /\ fd' = [fd EXCEPT ![p] = "none"]
  /\ Leave(p)
  /\ UNCHANGED <<mem, pend, acked, dirty, ever, age, tmp, final, envVars>>

-----------------------------------------------------------------------------
(* The ticker and Close.                                                   *)

Older(n) == IF n < conf.maxAge THEN n + 1 ELSE n

\* checkSaveRules: the time since the last save, and 0 as long as there is none.
Elapsed == IF ever THEN Older(age) ELSE 0

\* Mutant: a rule needs one write more than it says.
DueStrict(r) == dirty > r.changes /\ Elapsed >= r.seconds

Due(r) == dirty >= r.changes /\ Elapsed >= r.seconds

\* A second passes, and tick runs checkSaveRules.
Tick ==
  /\ closing = "no" /\ conf.rules # {}
  /\ \/ age < conf.maxAge
     \/ \E p \in Savers : pc[p] # "off" /\ since[p] < conf.maxAge
     \/ \E r \in conf.rules : Due(r)
  /\ age' = Older(age)
  /\ LET starts == pc["bg"] = "off" /\ \E r \in conf.rules : Due(r)
     IN /\ pc' = IF starts THEN [pc EXCEPT !["bg"] = "dump"] ELSE pc
        /\ seg' = IF starts THEN [seg EXCEPT !["bg"] = <<>>] ELSE seg
        /\ since' = [p \in Savers |-> IF p = "bg" /\ starts THEN 0
                                      ELSE IF pc[p] = "off" THEN since[p] ELSE Older(since[p])]
  /\ UNCHANGED <<mem, pend, acked, dirty, ever, tmp, final, fd, closeVars, fails, envVars>>

\* Mutant: no shutdown save.
CloseUnsaved ==
  /\ "CLOSE" \in conf.ops /\ closing = "no"
  /\ owed' = acked
  /\ closing' = "wait"
  /\ UNCHANGED <<mem, pend, acked, dirty, ever, age, tmp, final, saverVars, fails, envVars>>

\* Close: with unsaved writes it takes a last snapshot, then waits for BGSAVE.
Close ==
  /\ "CLOSE" \in conf.ops /\ closing = "no"
  /\ owed' = acked
  /\ IF conf.rules # {} /\ dirty > 0
     THEN closing' = "final" /\ Enter("fin")
     ELSE closing' = "wait" /\ UNCHANGED saverVars
  /\ UNCHANGED <<mem, pend, acked, dirty, ever, age, tmp, final, fails, envVars>>

CloseEnd ==
  /\ closing = "wait" /\ pc["bg"] = "off"
  /\ closing' = "closed"
  /\ UNCHANGED <<mem, pend, acked, dirty, ever, age, tmp, final, saverVars, owed, fails, envVars>>

\* Mutant: the snapshot is not loaded.
RestartEmpty ==
  /\ closing = "no" /\ crashes < conf.maxCrashes /\ final.st \in {"none", "synced"}
  /\ crashes' = crashes + 1
  /\ mem' = Nothing /\ acked' = Nothing /\ pend' = {}
  /\ dirty' = 0 /\ ever' = (final.st # "none") /\ age' = IF final.st = "none" THEN 0 ELSE age
  /\ pc' = [p \in Savers |-> "off"] /\ fd' = [p \in Savers |-> "none"]
  /\ UNCHANGED <<conf, tmp, final, seg, since, closeVars, fails>>

\* A crash, and Start from what is in dbfilename; a leftover temporary file is
\* not looked at.  LoadSnapshot refuses an unusable file: SnapshotLoads says
\* that there is none.
Restart ==
  /\ closing = "no" /\ crashes < conf.maxCrashes /\ final.st \in {"none", "synced"}
  /\ crashes' = crashes + 1
  /\ mem' = final.seg /\ acked' = final.seg /\ pend' = {}
  /\ dirty' = 0 /\ ever' = (final.st # "none") /\ age' = IF final.st = "none" THEN 0 ELSE age
  /\ pc' = [p \in Savers |-> "off"] /\ fd' = [p \in Savers |-> "none"]
  /\ UNCHANGED <<conf, tmp, final, seg, since, closeVars, fails>>

-----------------------------------------------------------------------------
Init ==
  /\ conf \in Confs
  /\ mem = Nothing /\ pend = {} /\ acked = Nothing
  /\ dirty = 0 /\ ever = conf.restored /\ age = 0
  /\ tmp = File("none", Nothing)
  /\ final = File(IF conf.restored THEN "synced" ELSE "none", Nothing)
  /\ pc = [p \in Savers |-> "off"] /\ seg = [p \in Savers |-> <<>>]
  /\ fd = [p \in Savers |-> "none"] /\ since = [p \in Savers |-> 0]
  /\ closing = "no" /\ owed = Nothing
  /\ fails = 0 /\ crashes = 0

Saver(p) == Dump(p) \/ Open(p) \/ WriteOut(p) \/ Sync(p) \/ Rename(p) \/ Mark(p) \/ Fail(p)

Next ==
  \/ \E s \in Shards : Write(s)
  \/ \E w \in pend : Capture(w)
  \/ SaveStart \/ BGSaveStart
  \/ \E p \in Savers : Saver(p)
  \/ Tick \/ Close \/ CloseEnd \/ Restart

Spec == Init /\ [][Next]_vars

\* Goroutines in a save, in Close and in a capture go on; the ticker ticks.  A
\* dump that a pause keeps waiting is in the shard's stash, which is served
\* before the shard parks again: it is not passed over for ever.
FairSpec ==
  /\ Spec
  /\ \A p \in Savers : WF_vars(Saver(p)) /\ SF_vars(Dump(p))
  /\ WF_vars(Tick) /\ WF_vars(CloseEnd)
  /\ WF_vars(\E w \in pend : Capture(w))

-----------------------------------------------------------------------------
(* Properties.                                                             *)

AnyFile == [st: {"none", "part", "full", "synced"}, seg: [Shards -> Nat]]

\* Every variable has its type; a write that waits for its capture has been
\* applied; only the shutdown save runs once Close has begun its own.
TypeOK ==
  /\ conf \in Confs
  /\ mem \in [Shards -> 0..conf.maxWrites] /\ acked \in [Shards -> 0..conf.maxWrites]
  /\ \A w \in pend : w[1] \in Shards /\ w[2] \in 1..mem[w[1]]
  /\ dirty \in Nat /\ ever \in BOOLEAN /\ age \in 0..conf.maxAge
  /\ tmp \in AnyFile /\ final \in AnyFile
  /\ pc \in [Savers -> {"off", "dump", "open", "write", "sync", "rename", "mark"}]
  /\ \A p \in Savers : Len(seg[p]) <= NShards
  /\ fd \in [Savers -> {"none", "tmp", "final"}]
  /\ since \in [Savers -> 0..conf.maxAge]
  /\ closing \in {"no", "final", "wait", "closed"} /\ owed \in [Shards -> 0..conf.maxWrites]
  /\ (pc["fin"] # "off") = (closing = "final")
  /\ fails \in 0..conf.maxFails /\ crashes \in 0..conf.maxCrashes

\* No BGSAVE is asked for or due by a rule.
Foreground == "BGSAVE" \notin conf.ops /\ \A r \in conf.rules : r.seconds > conf.maxAge

\* Two savers are never in writeSnapshot together: SAVE and Close exclude each
\* other by the pause, and BGSAVE excludes itself, but not the others.
OneAtATime == Foreground \/ conf.ops \subseteq {"BGSAVE"}

\* "dumps the whole keyspace to dir/dbfilename (atomically, via a temp file +
\* rename)" (snapshot.go): the file is absent or a complete snapshot whose bytes
\* are on disk.  Overlapping saves break it.
SnapshotAtomic == final.st \in {"none", "synced"}

\* While saves do not overlap, a crash at any moment, a failed operation or a
\* restart never meets a snapshot file that LoadSnapshot refuses.
SnapshotLoads == OneAtATime => SnapshotAtomic

\* A snapshot never takes back what the one before it held, as long as saves do
\* not overlap: no save, failed save or restart puts a file with fewer of a
\* shard's writes in the place of one with more.
SavedStays ==
  [][OneAtATime /\ final.st = "synced" /\ final'.st = "synced"
       => \A s \in Shards : final.seg[s] <= final'.seg[s]]_vars

\* dirty = 0 means that nothing is unsaved: before Close, with no save under way
\* and no unsaved writes counted, the file has every answered write
\* (Manager.dirty: write records since last successful save).  A BGSAVE is
\* excepted: it clears the count of writes that came after their shard's dump.
CleanMeansSaved ==
  (Foreground /\ closing = "no" /\ dirty = 0 /\ \A p \in Savers : pc[p] = "off")
     => \A s \in Shards : acked[s] <= final.seg[s]

\* A clean shutdown loses nothing: when Close has returned without a failed
\* file operation, the file has every write answered before it began, BGSAVE
\* and what it forgets excepted.  Without a save rule Close saves nothing.
FinalCovers ==
  (Foreground /\ conf.rules # {} /\ closing = "closed" /\ fails = 0)
     => \A s \in Shards : owed[s] <= final.seg[s]

\* A save rule fires: with its number of changes reached, time alone brings
\* the save about (for rules that the bound on ages lets come due).
RuleFires ==
  \A r \in UNION {f.rules : f \in Confs} :
    (r \in conf.rules /\ r.seconds <= conf.maxAge /\ dirty >= r.changes)
      ~> (dirty < r.changes \/ closing # "no")

\* Every save ends, and so does Close: a dump never waits for a pause that waits
\* for the dump.
EverySaveEnds ==
  /\ \A p \in Savers : pc[p] # "off" ~> pc[p] = "off"
  /\ closing # "no" ~> closing = "closed"

\* Saving is sound: the state is well formed, the file on disk loads, a change
\* count of 0 means that everything answered is in it, and so does a clean Close.
SaveSound == TypeOK /\ SnapshotLoads /\ CleanMeansSaved /\ FinalCovers
=============================================================================
