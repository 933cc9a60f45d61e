-------------------------- MODULE MaterializeProofs --------------------------
(***************************************************************************)
(* Proofs about MaterializeRetention, for every set of invocations, every  *)
(* manifest, every scratch limit and any number of incarnations: what was  *)
(* published is recorded, nobody else's object becomes a published tree,   *)
(* reports survive every power loss, and what is left of an operation can  *)
(* be gone on with unless one of the named causes applies.                 *)
(*                                                                         *)
(* The directories are synced one by one, so an image may lag behind the   *)
(* visible disk in any of them.  The inductive invariant says what one     *)
(* image looks like (Alone), what may be mixed with the visible disk       *)
(* (Link), and what an invocation knows at each point (Progress).  A       *)
(* second one, relative to it, says that whatever an event claims is on    *)
(* the disk in every mixture of an image and the visible disk (CInv).      *)
(***************************************************************************)
EXTENDS MaterializeRetention, TLAPS

-----------------------------------------------------------------------------
(* One image.                                                              *)

Made == {"tree", "intent", "stripping", "kept"}

IsSealed(tomb) == tomb.marks \in {"intent", "complete"}
SealsCommitted(tomb) == IsSealed(tomb) /\ tomb.basis = "committed"

\* A record of the publication: of this image, or of the journal l.
VouchedBy(l, d) == l.phase \in Publishing \/ SealsCommitted(d.tomb) \/ d.erasing = d.gen
Vouched(j) == VouchedBy(j.log, j)

Alone(j) ==
  /\ j.final = "ours" => Vouched(j)
  /\ j.final = "ours" /\ IsSealed(j.tomb) => j.tomb.basis = "committed"
  /\ j.root # "none" => j.gen \in Incarnations
  /\ j.erasing <= j.gen
  /\ j.erasing = j.gen => j.root \in {"kept", "bare"}
  /\ j.root \in {"none", "bare", "tree"} => j.tomb = NoTomb
  /\ j.root \in {"none", "bare", "tree", "kept"} => j.log = NoLog
  /\ j.tomb.marks = "complete" => j.root = "kept"
  /\ j.log.phase = "committed" => j.scratch = 0
  /\ j.log.phase = "none" => j.log = NoLog

-----------------------------------------------------------------------------
(* An image j beside the visible disk d.                                   *)

\* The operation directory is made durably, and lags only when it is made or
\* removed.
LinkRoot(j, d) ==
  /\ j.gen <= d.gen
  /\ d.root \in Made => j.gen = d.gen /\ j.root = d.root
  /\ d.root \notin Made => j.root \in {"none", "bare", "kept"}

\* The tombstone lags by one marker, and not once removals have begun.
LinkTomb(j, d) ==
  /\ d.tomb.marks = "none" => j.tomb = NoTomb
  /\ d.tomb.marks = "dir" => j.tomb.marks = "dir"
  /\ d.tomb.marks = "intent" =>
       j.tomb.marks = "intent" \/ (j.tomb.marks = "dir" /\ d.root = "intent")
  /\ d.tomb.marks = "complete" => IsSealed(j.tomb)
  /\ IsSealed(j.tomb) => j.tomb.basis = d.tomb.basis

\* A published tree is recorded whichever of the two it, or its record, is taken from.
LinkFinal(j, d) ==
  /\ j.final = "ours" /\ j.gen = d.gen =>
       Vouched(d) /\ (IsSealed(d.tomb) => d.tomb.basis = "committed")
  /\ d.final = "ours" => VouchedBy(j.log, d)

LinkErasing(j, d) ==
  /\ j.erasing = d.gen => d.erasing = d.gen
  /\ d.erasing # 0 => j.erasing <= d.erasing

LinkLog(j, d) ==
  /\ j.log.phase = "committed" => d.log.phase \in {"none", "committed"}
  /\ d.log.phase = "none" => j.log = NoLog

Link(j, d) ==
  LinkRoot(j, d) /\ LinkTomb(j, d) /\ LinkFinal(j, d) /\ LinkErasing(j, d) /\ LinkLog(j, d)

Sound(j, d) == Alone(j) /\ Link(j, d)

-----------------------------------------------------------------------------
(* The invocations.                                                        *)

\* A directory without its lock file belongs to the run that made it.
Making(p) ==
  pc[p] = "tree" =>
    /\ disk.root = "bare" /\ disk.erasing # disk.gen /\ lock = Nobody
    /\ \A q \in Proc : named[q] # disk.gen /\ (pc[q] = "tree" => q = p)

\* A lock holder of run, resume or abandon.
LogIsDurable == \A j \in surviving : j.log = disk.log

Materializes(p) ==
  /\ pc[p] \in Holding =>
       disk.root = (IF pc[p] = "intent" THEN "tree" ELSE "intent") /\ disk.tomb.marks = "none"
  /\ pc[p] \in Holding \ {"confirm", "reconfirm"} => LogIsDurable
  /\ pc[p] \in {"reserve", "commit"} =>
       /\ disk.log.phase \notin Terminal /\ event[p].phase # "none"
       /\ disk.log.phase \in Publishing => event[p].phase \in Publishing
       /\ event[p].phase = "committed" => disk.scratch = (IF pc[p] = "reserve" THEN 0 ELSE 1)
  /\ pc[p] \in {"commit", "place"} => disk.scratch > 0
  /\ pc[p] = "reconfirm" /\ mode[p] = "abandon" => disk.log.phase \in Unpublished
  /\ pc[p] \in {"files", "copy", "place", "placed"} =>
       disk.log.phase \in {"stage_created", "file_staged"}
  /\ pc[p] \in {"copy", "place", "placed"} => disk.log.staged < Files
  /\ pc[p] \in {"rename", "renamed"} => disk.log.phase = "publish_intent"
  /\ pc[p] = "clean" => disk.log.phase = "final_verified"

\* A marker of the tombstone that is written: not yet renamed, renamed.
Marking(p) ==
  \/ mode[p] = "prune" /\ disk.root = "intent" /\ disk.tomb.marks \in {"none", "dir"}
       /\ disk.log.phase \in Terminal
  \/ mode[p] = "prune" /\ disk.root = "kept" /\ disk.tomb.marks = "intent"
  \/ mode[p] = "forget" /\ disk.root = "kept" /\ disk.tomb.marks = "complete"
       /\ named[p] = disk.gen

Marked(p) ==
  \/ mode[p] = "prune" /\ disk.root = "intent" /\ disk.tomb.marks = "intent"
       /\ disk.tomb.pending = "none"
  \/ mode[p] = "prune" /\ disk.root = "kept" /\ disk.tomb.marks = "complete"
  \/ mode[p] = "forget" /\ disk.erasing = disk.gen /\ named[p] = disk.gen

Buries(p) ==
  /\ pc[p] \in {"tomb", "tomb_fill", "tomb_commit"} => Marking(p)
  /\ pc[p] = "tomb" => disk.tomb.pending \in {"none", Target(p)}
  /\ pc[p] \in {"tomb_fill", "tomb_commit"} =>
       disk.tomb.marks # "none" /\ disk.tomb.pending = Target(p)
  /\ pc[p] = "tomb_confirm" => Marked(p)
  /\ pc[p] \in {"prune_open", "strip"} => mode[p] = "prune"
  /\ pc[p] \in {"forget_read", "forget_open"} => mode[p] = "forget"
  /\ pc[p] = "strip" =>
       /\ disk.tomb.marks = "intent" /\ disk.tomb.pending \in {"none", "complete"}
       /\ disk.root \in {"intent", "stripping", "kept"}
       /\ \A j \in surviving : j.tomb = disk.tomb

\* What a forget has under way.
Erases(p) ==
  /\ named[p] <= disk.gen
  /\ named[p] = disk.gen => disk.root \in {"kept", "bare"}
  /\ pc[p] \in {"erase_open", "erase", "vanish", "look", "unmark", "report"} => named[p] # 0
  /\ pc[p] = "erase_open" /\ named[p] = disk.gen => disk.erasing = disk.gen
  /\ pc[p] = "erase" =>
       named[p] = disk.gen /\ \A j \in surviving : j.gen = disk.gen /\ j.erasing = disk.gen
  /\ pc[p] = "vanish" => named[p] < disk.gen
  /\ pc[p] \in {"look", "unmark", "report"} => \A j \in surviving : named[p] < j.gen
  /\ pc[p] = "report" => disk.erasing # named[p]

Progress(p) == Making(p) /\ Materializes(p) /\ Buries(p) /\ Erases(p)

Locked == Holding \cup RetentionHolding
Steps == Unlocked \cup RetentionUnlocked \cup Locked
Outcomes == {"none", "committed", "already", "abandoned", "pruned", "forgotten"}

Stored ==
  /\ disk \in Images /\ disk \in surviving /\ surviving \subseteq Images
  /\ \A j \in surviving : Sound(j, disk)

CallType ==
  /\ pc \in [Proc -> Steps] /\ mode \in [Proc -> Modes \cup RetentionModes]
  /\ event \in [Proc -> Logs] /\ durable \in [Proc -> BOOLEAN]
  /\ outcome \in [Proc -> Outcomes] /\ named \in [Proc -> 0..MaxIncarnations]
  /\ taken \in BOOLEAN /\ hasty \in BOOLEAN

LockType ==
  lock \in Proc \cup {Nobody} /\ \A p \in Proc : pc[p] \in Locked <=> lock = p

IInv == Stored /\ CallType /\ LockType /\ \A p \in Proc : Progress(p)

-----------------------------------------------------------------------------
(* Records.                                                                *)

USE DEF Put, Move, PutDurably, Sync

\* An image that takes over the identity of the visible directory.
LEMMA RenewedFields ==
  ASSUME disk \in Images, NEW j \in Images
  PROVE  /\ Renewed(j) \in Images
         /\ Renewed(j).gen = disk.gen
         /\ Renewed(j).final = (IF j.final = "ours" /\ j.gen # disk.gen THEN "other" ELSE j.final)
         /\ Renewed(j).root = j.root /\ Renewed(j).log = j.log /\ Renewed(j).stage = j.stage
         /\ Renewed(j).scratch = j.scratch /\ Renewed(j).tomb = j.tomb
         /\ Renewed(j).erasing = j.erasing
  BY DEF Renewed, Images

\* What a sync takes over from the visible disk, with the root and without it.
LEMMA SyncedRootFields ==
  ASSUME disk \in Images, NEW j \in Images, NEW parts, "root" \in parts, "gen" \notin parts
  PROVE  LET s == Synced(j, parts) IN
         /\ s \in Images
         /\ s.root = disk.root /\ s.gen = disk.gen
         /\ s.final = (IF "final" \in parts THEN disk.final ELSE
                       IF j.final = "ours" /\ j.gen # disk.gen THEN "other" ELSE j.final)
         /\ s.log = (IF "log" \in parts THEN disk.log ELSE j.log)
         /\ s.stage = (IF "stage" \in parts THEN disk.stage ELSE j.stage)
         /\ s.scratch = (IF "scratch" \in parts THEN disk.scratch ELSE j.scratch)
         /\ s.tomb = (IF "tomb" \in parts THEN disk.tomb ELSE j.tomb)
         /\ s.erasing = (IF "erasing" \in parts THEN disk.erasing ELSE j.erasing)
<1> DEFINE c == Renewed(j)
           s == Synced(j, parts)
<1>1. c \in Images BY RenewedFields
<1>2. s = [part \in DOMAIN j |-> IF part \in parts THEN disk[part] ELSE c[part]]
  BY DEF Synced, Current
<1>3. DOMAIN j = {"root", "log", "stage", "final", "scratch", "tomb", "gen", "erasing"} BY DEF Images
<1>4. /\ s.root = disk.root /\ s.gen = c.gen
      /\ s.final = (IF "final" \in parts THEN disk.final ELSE c.final)
      /\ s.log = (IF "log" \in parts THEN disk.log ELSE c.log)
      /\ s.stage = (IF "stage" \in parts THEN disk.stage ELSE c.stage)
      /\ s.scratch = (IF "scratch" \in parts THEN disk.scratch ELSE c.scratch)
      /\ s.tomb = (IF "tomb" \in parts THEN disk.tomb ELSE c.tomb)
      /\ s.erasing = (IF "erasing" \in parts THEN disk.erasing ELSE c.erasing)
  BY <1>2, <1>3
<1>5. s = [root |-> s.root, log |-> s.log, stage |-> s.stage, final |-> s.final,
           scratch |-> s.scratch, tomb |-> s.tomb, gen |-> s.gen, erasing |-> s.erasing]
  BY <1>2, <1>3
<1>6. s \in Images BY <1>1, <1>4, <1>5 DEF Images
<1> HIDE DEF s
<1> QED BY <1>4, <1>6, RenewedFields DEF s

LEMMA SyncedFields ==
  ASSUME disk \in Images, NEW j \in Images, NEW parts, "root" \notin parts, "gen" \notin parts
  PROVE  LET s == Synced(j, parts) IN
         /\ s \in Images
         /\ s.root = j.root /\ s.gen = j.gen
         /\ s.final = (IF "final" \in parts THEN disk.final ELSE j.final)
         /\ s.log = (IF "log" \in parts THEN disk.log ELSE j.log)
         /\ s.stage = (IF "stage" \in parts THEN disk.stage ELSE j.stage)
         /\ s.scratch = (IF "scratch" \in parts THEN disk.scratch ELSE j.scratch)
         /\ s.tomb = (IF "tomb" \in parts THEN disk.tomb ELSE j.tomb)
         /\ s.erasing = (IF "erasing" \in parts THEN disk.erasing ELSE j.erasing)
<1> DEFINE s == Synced(j, parts)
<1>2. s = [part \in DOMAIN j |-> IF part \in parts THEN disk[part] ELSE j[part]]
  BY DEF Synced, Current
<1>3. DOMAIN j = {"root", "log", "stage", "final", "scratch", "tomb", "gen", "erasing"} BY DEF Images
<1>4. /\ s.root = j.root /\ s.gen = j.gen
      /\ s.final = (IF "final" \in parts THEN disk.final ELSE j.final)
      /\ s.log = (IF "log" \in parts THEN disk.log ELSE j.log)
      /\ s.stage = (IF "stage" \in parts THEN disk.stage ELSE j.stage)
      /\ s.scratch = (IF "scratch" \in parts THEN disk.scratch ELSE j.scratch)
      /\ s.tomb = (IF "tomb" \in parts THEN disk.tomb ELSE j.tomb)
      /\ s.erasing = (IF "erasing" \in parts THEN disk.erasing ELSE j.erasing)
  BY <1>2, <1>3
<1>5. s = [root |-> s.root, log |-> s.log, stage |-> s.stage, final |-> s.final,
           scratch |-> s.scratch, tomb |-> s.tomb, gen |-> s.gen, erasing |-> s.erasing]
  BY <1>2, <1>3
<1>6. s \in Images BY <1>4, <1>5 DEF Images
<1> HIDE DEF s
<1> QED BY <1>4, <1>6 DEF s

LEMMA SelfRenewed == ASSUME disk \in Images PROVE Renewed(disk) = disk
<1>1. DOMAIN disk = {"root", "log", "stage", "final", "scratch", "tomb", "gen", "erasing"}
  BY DEF Images
<1>2. Renewed(disk) = [disk EXCEPT !.gen = disk.gen, !.final = disk.final] BY DEF Renewed
<1> QED BY <1>1, <1>2 DEF Images

\* A sync leaves the visible disk as it is.
LEMMA SelfSynced ==
  ASSUME disk \in Images, NEW parts, "gen" \notin parts PROVE Synced(disk, parts) = disk
<1>1. DOMAIN disk = {"root", "log", "stage", "final", "scratch", "tomb", "gen", "erasing"}
  BY DEF Images
<1>2. Renewed(disk) = disk BY SelfRenewed
<1>3. Current(disk, parts) = disk BY <1>2 DEF Current
<1>4. Synced(disk, parts) = [part \in DOMAIN disk |-> disk[part]] BY <1>3 DEF Synced
<1> QED BY <1>1, <1>4 DEF Images

\* What the invariant says of one image, in full.
LEMMA SyncShape ==
  ASSUME Stored, NEW parts, "gen" \notin parts, Sync(parts),
         \A j \in surviving : Synced(j, parts) \in Images /\ Sound(Synced(j, parts), disk)
  PROVE  Stored'
<1>1. disk' = disk /\ surviving' = {Synced(j, parts) : j \in surviving} OBVIOUS
<1>2. disk' \in surviving' BY <1>1, SelfSynced DEF Stored
<1>3. ASSUME NEW s \in surviving' PROVE s \in Images /\ Sound(s, disk)
  BY <1>1
<1>4. \A s \in surviving' : Sound(s, disk)' BY <1>1, <1>3 DEF Stored
<1> QED BY <1>1, <1>2, <1>3, <1>4 DEF Stored

-----------------------------------------------------------------------------
(* What is stored stays sound: the syncs.                                  *)
USE DEF Alone, Link, LinkRoot, LinkTomb, LinkFinal, LinkErasing, LinkLog,
        Vouched, VouchedBy, SealsCommitted, IsSealed, Made

\* The target root, at any time.
LEMMA SyncTargetStored == ASSUME Stored, SyncTarget PROVE Stored'
<1> DEFINE parts == {"root", "final", "erasing", "tomb"}
<1>1. ASSUME NEW j \in surviving
      PROVE  Synced(j, parts) \in Images /\ Sound(Synced(j, parts), disk)
  <2> DEFINE s == Synced(j, parts)
  <2>1. /\ disk \in Images /\ j \in Images /\ Sound(disk, disk) /\ Sound(j, disk) BY DEF Stored
  <2>2. /\ s \in Images /\ s.root = disk.root /\ s.gen = disk.gen /\ s.final = disk.final
        /\ s.log = j.log /\ s.stage = j.stage /\ s.scratch = j.scratch
        /\ s.tomb = disk.tomb /\ s.erasing = disk.erasing
    BY <2>1, SyncedRootFields
  <2> HIDE DEF s
  <2>3. s.gen \in Nat /\ s.erasing \in Nat BY <2>2 DEF Images
  <2>4. Alone(s) BY <2>1, <2>2, <2>3 DEF NoLog, NoTomb, Sound
  <2>5. Link(s, disk) BY <2>1, <2>2, <2>3 DEF Sound
  <2> QED BY <2>2, <2>4, <2>5 DEF s, Sound
<1> QED BY <1>1, SyncShape DEF SyncTarget

\* A tombstone that is there, with the operation directory.
LEMMA SyncTombStored ==
  ASSUME Stored, SyncTomb, IsSealed(disk.tomb), disk.root \in Made PROVE Stored'
<1> DEFINE parts == {"tomb", "root"}
<1>1. ASSUME NEW j \in surviving
      PROVE  Synced(j, parts) \in Images /\ Sound(Synced(j, parts), disk)
  <2> DEFINE s == Synced(j, parts)
  <2>1. /\ disk \in Images /\ j \in Images /\ Sound(disk, disk) /\ Sound(j, disk) BY DEF Stored
  <2>2. /\ s \in Images /\ s.root = disk.root /\ s.gen = disk.gen /\ s.final = j.final
        /\ s.log = j.log /\ s.stage = j.stage /\ s.scratch = j.scratch
        /\ s.tomb = disk.tomb /\ s.erasing = j.erasing
    BY <2>1, SyncedRootFields DEF Sound
  <2> HIDE DEF s
  <2>3. s.gen \in Nat /\ s.erasing \in Nat BY <2>2 DEF Images
  <2>4. Alone(s) BY <2>1, <2>2, <2>3 DEF NoLog, NoTomb, Sound
  <2>5. Link(s, disk) BY <2>1, <2>2, <2>3 DEF Sound
  <2> QED BY <2>2, <2>4, <2>5 DEF s, Sound
<1> QED BY <1>1, SyncShape DEF SyncTomb

\* The public name and the staging tree, by an operation whose publish intent is durable.
LEMMA SyncRootStored ==
  ASSUME Stored, SyncRoot, LogIsDurable, disk.root = "intent", disk.tomb.marks = "none",
         disk.log.phase \in Publishing
  PROVE  Stored'
<1> DEFINE parts == {"root", "final", "erasing", "stage"}
<1>1. ASSUME NEW j \in surviving
      PROVE  Synced(j, parts) \in Images /\ Sound(Synced(j, parts), disk)
  <2> DEFINE s == Synced(j, parts)
  <2>1. /\ disk \in Images /\ j \in Images /\ Sound(disk, disk) /\ Sound(j, disk)
        /\ j.log = disk.log
    BY DEF Stored, LogIsDurable
  <2>2. /\ s \in Images /\ s.root = disk.root /\ s.gen = disk.gen /\ s.final = disk.final
        /\ s.log = j.log /\ s.stage = disk.stage /\ s.scratch = j.scratch
        /\ s.tomb = j.tomb /\ s.erasing = disk.erasing
    BY <2>1, SyncedRootFields
  <2> HIDE DEF s
  <2>3. s.gen \in Nat /\ s.erasing \in Nat BY <2>2 DEF Images
  <2>4. Alone(s) BY <2>1, <2>2, <2>3 DEF NoLog, NoTomb, Sound
  <2>5. Link(s, disk) BY <2>1, <2>2, <2>3 DEF Sound
  <2> QED BY <2>2, <2>4, <2>5 DEF s, Sound
<1> QED BY <1>1, SyncShape DEF SyncRoot

\* The journal, by an operation without a tombstone.
LEMMA SyncJournalStored ==
  ASSUME Stored, SyncJournal, disk.root = "intent", disk.tomb.marks = "none" PROVE Stored'
<1> DEFINE parts == {"log", "scratch"}
<1>1. ASSUME NEW j \in surviving
      PROVE  Synced(j, parts) \in Images /\ Sound(Synced(j, parts), disk)
  <2> DEFINE s == Synced(j, parts)
  <2>1. /\ disk \in Images /\ j \in Images /\ Sound(disk, disk) /\ Sound(j, disk) BY DEF Stored
  <2>2. /\ s \in Images /\ s.root = j.root /\ s.gen = j.gen /\ s.final = j.final
        /\ s.log = disk.log /\ s.stage = j.stage /\ s.scratch = disk.scratch
        /\ s.tomb = j.tomb /\ s.erasing = j.erasing
    BY <2>1, SyncedFields
  <2> HIDE DEF s
  <2>3. s.gen \in Nat /\ s.erasing \in Nat BY <2>2 DEF Images
  <2>4. Alone(s) BY <2>1, <2>2, <2>3 DEF NoLog, NoTomb, Sound
  <2>5. Link(s, disk) BY <2>1, <2>2, <2>3 DEF Sound
  <2> QED BY <2>2, <2>4, <2>5 DEF s, Sound
<1> QED BY <1>1, SyncShape DEF SyncJournal

\* The staging tree, while files are staged.
LEMMA SyncStageStored ==
  ASSUME Stored, SyncStage, LogIsDurable, disk.log.phase # "committed" PROVE Stored'
<1> DEFINE parts == {"stage", "scratch"}
<1>1. ASSUME NEW j \in surviving
      PROVE  Synced(j, parts) \in Images /\ Sound(Synced(j, parts), disk)
  <2> DEFINE s == Synced(j, parts)
  <2>1. /\ disk \in Images /\ j \in Images /\ Sound(disk, disk) /\ Sound(j, disk)
        /\ j.log = disk.log
    BY DEF Stored, LogIsDurable
  <2>2. /\ s \in Images /\ s.root = j.root /\ s.gen = j.gen /\ s.final = j.final
        /\ s.log = j.log /\ s.stage = disk.stage /\ s.scratch = disk.scratch
        /\ s.tomb = j.tomb /\ s.erasing = j.erasing
    BY <2>1, SyncedFields
  <2> HIDE DEF s
  <2>3. s.gen \in Nat /\ s.erasing \in Nat BY <2>2 DEF Images
  <2>4. Alone(s) BY <2>1, <2>2, <2>3 DEF Sound
  <2>5. Link(s, disk) BY <2>1, <2>2, <2>3 DEF Sound
  <2> QED BY <2>2, <2>4, <2>5 DEF s, Sound
<1> QED BY <1>1, SyncShape DEF SyncStage

-----------------------------------------------------------------------------
(* What is stored stays sound: writes of a materialization.                *)

\* A write that may be lost leaves every image, and every image with the write.
LEMMA PutShape ==
  ASSUME Stored, NEW T, surviving' = surviving \cup T, disk' \in T,
         \A s \in T : s \in Images /\ Sound(s, disk'),
         \A j \in surviving : Sound(j, disk')
  PROVE  Stored'
  BY DEF Stored

LEMMA PutDurablyShape ==
  ASSUME Stored, disk' \in surviving', \A s \in surviving' : s \in Images /\ Sound(s, disk')
  PROVE  Stored'
  BY DEF Stored

\* A field that is no identity is written in each image alike.
LEMMA PutFields ==
  ASSUME NEW part, NEW value, part # "root", Put(part, value)
  PROVE  /\ disk' = [disk EXCEPT ![part] = value]
         /\ surviving' = surviving \cup {[j EXCEPT ![part] = value] : j \in surviving}
  BY DEF Current

\* Somebody else's object at the public name, or nothing.
LEMMA PutFinalStored ==
  ASSUME Stored, NEW value \in {"none", "other"}, Put("final", value) PROVE Stored'
<1> DEFINE T == {[j EXCEPT !["final"] = value] : j \in surviving}
<1>1. surviving' = surviving \cup T /\ disk' = [disk EXCEPT !["final"] = value] BY PutFields
<1>2. disk' \in T BY <1>1 DEF Stored
<1>3. /\ disk'.final = value /\ disk'.log = disk.log /\ disk'.tomb = disk.tomb
      /\ disk'.gen = disk.gen /\ disk'.erasing = disk.erasing /\ disk'.root = disk.root
  BY <1>1 DEF Stored, Images
<1>4. ASSUME NEW j \in surviving
      PROVE  /\ Sound(j, disk')
             /\ [j EXCEPT !["final"] = value] \in Images
             /\ Sound([j EXCEPT !["final"] = value], disk')
  <2> DEFINE s == [j EXCEPT !["final"] = value]
  <2>1. /\ disk \in Images /\ j \in Images /\ Sound(disk, disk) /\ Sound(j, disk) BY DEF Stored
  <2>2. /\ s \in Images /\ s.final = value /\ s.log = j.log /\ s.tomb = j.tomb /\ s.gen = j.gen
        /\ s.erasing = j.erasing /\ s.root = j.root /\ s.scratch = j.scratch
    BY <2>1 DEF Images
  <2> HIDE DEF s
  <2>3. Sound(j, disk') BY <1>3, <2>1 DEF Sound
  <2>4. Sound(s, disk') BY <1>3, <2>1, <2>2 DEF Sound
  <2> QED BY <2>2, <2>3, <2>4 DEF s
<1>5. \A s \in T : s \in Images /\ Sound(s, disk') BY <1>4
<1> HIDE DEF T
<1> QED BY <1>1, <1>2, <1>4, <1>5, PutShape

\* A scratch object more, before the last event.
LEMMA PutScratchStored ==
  ASSUME Stored, Put("scratch", disk.scratch + 1), ScratchLeft, LogIsDurable,
         disk.log.phase # "committed"
  PROVE  Stored'
<1> DEFINE value == disk.scratch + 1
           T == {[j EXCEPT !["scratch"] = value] : j \in surviving}
<1>0. value \in 0..MaxScratch BY ScratchAssumption DEF Stored, Images, ScratchLeft
<1>1. surviving' = surviving \cup T /\ disk' = [disk EXCEPT !["scratch"] = value] BY PutFields
<1> HIDE DEF value
<1>2. disk' \in T BY <1>1 DEF Stored
<1>3. /\ disk'.final = disk.final /\ disk'.log = disk.log /\ disk'.tomb = disk.tomb
      /\ disk'.gen = disk.gen /\ disk'.erasing = disk.erasing /\ disk'.root = disk.root
  BY <1>1 DEF Stored, Images
<1>4. ASSUME NEW j \in surviving
      PROVE  /\ Sound(j, disk')
             /\ [j EXCEPT !["scratch"] = value] \in Images
             /\ Sound([j EXCEPT !["scratch"] = value], disk')
  <2> DEFINE s == [j EXCEPT !["scratch"] = value]
  <2>1. /\ disk \in Images /\ j \in Images /\ Sound(disk, disk) /\ Sound(j, disk)
        /\ j.log = disk.log
    BY DEF Stored, LogIsDurable
  <2>2. /\ s \in Images /\ s.final = j.final /\ s.log = j.log /\ s.tomb = j.tomb /\ s.gen = j.gen
        /\ s.erasing = j.erasing /\ s.root = j.root
    BY <1>0, <2>1 DEF Images
  <2> HIDE DEF s
  <2>3. Sound(j, disk') BY <1>3, <2>1 DEF Sound
  <2>4. Sound(s, disk') BY <1>3, <2>1, <2>2 DEF Sound
  <2> QED BY <2>2, <2>3, <2>4 DEF s
<1>5. \A s \in T : s \in Images /\ Sound(s, disk') BY <1>4
<1> HIDE DEF T
<1> QED BY <1>1, <1>2, <1>4, <1>5, PutShape

\* A scratch object less, durably.
LEMMA DropScratchStored ==
  ASSUME Stored, PutDurably("scratch", disk.scratch - 1), disk.scratch > 0
  PROVE  Stored'
<1> DEFINE value == disk.scratch - 1
           parts == {"scratch"}
<1>0. value \in 0..MaxScratch BY ScratchAssumption DEF Stored, Images
<1> HIDE DEF value
<1>1. /\ surviving' = {[Synced(j, parts) EXCEPT !["scratch"] = value] : j \in surviving}
      /\ disk' = [disk EXCEPT !["scratch"] = value]
  BY DEF value
<1>2. disk' \in surviving'
  <2>1. Synced(disk, parts) = disk /\ disk \in surviving BY SelfSynced DEF Stored
  <2> QED BY <1>1, <2>1
<1>3. /\ disk'.final = disk.final /\ disk'.log = disk.log /\ disk'.tomb = disk.tomb
      /\ disk'.gen = disk.gen /\ disk'.erasing = disk.erasing /\ disk'.root = disk.root
  BY <1>1 DEF Stored, Images
<1>4. ASSUME NEW j \in surviving
      PROVE  LET s == [Synced(j, parts) EXCEPT !["scratch"] = value]
             IN s \in Images /\ Sound(s, disk')
  <2> DEFINE c == Synced(j, parts)
             s == [c EXCEPT !["scratch"] = value]
  <2>1. /\ disk \in Images /\ j \in Images /\ Sound(disk, disk) /\ Sound(j, disk) BY DEF Stored
  <2>2. /\ c \in Images /\ c.final = j.final /\ c.log = j.log /\ c.tomb = j.tomb /\ c.gen = j.gen
        /\ c.erasing = j.erasing /\ c.root = j.root
    BY <2>1, SyncedFields
  <2> HIDE DEF c
  <2>3. /\ s \in Images /\ s.final = j.final /\ s.log = j.log /\ s.tomb = j.tomb /\ s.gen = j.gen
        /\ s.erasing = j.erasing /\ s.root = j.root
    BY <1>0, <2>2 DEF Images
  <2> HIDE DEF s
  <2>4. Sound(s, disk') BY <1>3, <2>1, <2>3 DEF Sound
  <2> QED BY <2>3, <2>4 DEF s, c
<1> QED BY <1>1, <1>2, <1>4, PutDurablyShape

\* The operation directory is made, by a run that found none.
LEMMA MakeRootStored ==
  ASSUME Stored, Put("root", "bare"), disk.root = "none", disk.gen \in Incarnations
  PROVE  Stored'
<1> DEFINE T == {[Renewed(j) EXCEPT !["root"] = "bare"] : j \in surviving}
<1>1. surviving' = surviving \cup T /\ disk' = [disk EXCEPT !["root"] = "bare"] BY DEF Current
<1>2. disk' \in T BY <1>1, SelfRenewed DEF Stored
<1>3. /\ disk'.final = disk.final /\ disk'.log = disk.log /\ disk'.tomb = disk.tomb
      /\ disk'.gen = disk.gen /\ disk'.erasing = disk.erasing /\ disk'.root = "bare"
  BY <1>1 DEF Stored, Images
<1>4. ASSUME NEW j \in surviving
      PROVE  LET s == [Renewed(j) EXCEPT !["root"] = "bare"]
             IN Sound(j, disk') /\ s \in Images /\ Sound(s, disk')
  <2> DEFINE c == Renewed(j)
             s == [c EXCEPT !["root"] = "bare"]
  <2>1. /\ disk \in Images /\ j \in Images /\ Sound(disk, disk) /\ Sound(j, disk) BY DEF Stored
  <2>2. /\ c \in Images /\ c.gen = disk.gen /\ c.log = j.log /\ c.tomb = j.tomb
        /\ c.final = (IF j.final = "ours" /\ j.gen # disk.gen THEN "other" ELSE j.final)
        /\ c.erasing = j.erasing /\ c.scratch = j.scratch
    BY <2>1, RenewedFields
  <2> HIDE DEF c
  <2>3. /\ s \in Images /\ s.final = c.final /\ s.log = j.log /\ s.tomb = j.tomb
        /\ s.gen = disk.gen /\ s.erasing = j.erasing /\ s.root = "bare" /\ s.scratch = j.scratch
    BY <2>2 DEF Images
  <2> HIDE DEF s
  <2>4. j.gen \in Nat /\ j.erasing \in Nat /\ disk.gen \in Nat BY <2>1 DEF Images
  <2>5. Sound(j, disk') BY <1>3, <2>1, <2>4 DEF Sound
  <2>6. Alone(s) BY <2>1, <2>2, <2>3, <2>4 DEF Sound, NoLog, NoTomb
  <2>7. Link(s, disk') BY <1>3, <2>1, <2>2, <2>3, <2>4 DEF Sound
  <2> QED BY <2>3, <2>5, <2>6, <2>7 DEF s, c, Sound
<1>5. \A s \in T : s \in Images /\ Sound(s, disk') BY <1>4
<1> HIDE DEF T
<1> QED BY <1>1, <1>2, <1>4, <1>5, PutShape

\* Its lock file and subdirectories: durable, and with them the directory.
LEMMA PutRootStored ==
  ASSUME Stored, NEW value \in {"tree", "intent", "stripping", "kept"}, PutDurably("root", value),
         \/ value = "tree" /\ disk.root = "bare" /\ disk.erasing # disk.gen
         \/ value = "intent" /\ disk.root = "tree"
         \/ /\ value \in {"stripping", "kept"} /\ disk.root \in {"intent", "stripping"}
            /\ value = "kept" => disk.log = NoLog
            /\ \A j \in surviving : j.tomb = disk.tomb /\ j.tomb.marks = "intent"
  PROVE  Stored'
<1> DEFINE parts == {"root"}
<1>1. /\ surviving' = {[Synced(j, parts) EXCEPT !["root"] = value] : j \in surviving}
      /\ disk' = [disk EXCEPT !["root"] = value]
  OBVIOUS
<1>2. disk' \in surviving'
  <2>1. Synced(disk, parts) = disk /\ disk \in surviving BY SelfSynced DEF Stored
  <2> QED BY <1>1, <2>1
<1>3. /\ disk'.final = disk.final /\ disk'.log = disk.log /\ disk'.tomb = disk.tomb
      /\ disk'.gen = disk.gen /\ disk'.erasing = disk.erasing /\ disk'.root = value
  BY <1>1 DEF Stored, Images
<1>4. ASSUME NEW j \in surviving
      PROVE  LET s == [Synced(j, parts) EXCEPT !["root"] = value]
             IN s \in Images /\ Sound(s, disk')
  <2> DEFINE c == Synced(j, parts)
             s == [c EXCEPT !["root"] = value]
  <2>1. /\ disk \in Images /\ j \in Images /\ Sound(disk, disk) /\ Sound(j, disk) BY DEF Stored
  <2>2. /\ c \in Images /\ c.gen = disk.gen /\ c.log = j.log /\ c.tomb = j.tomb
        /\ c.final = (IF j.final = "ours" /\ j.gen # disk.gen THEN "other" ELSE j.final)
        /\ c.erasing = j.erasing /\ c.scratch = j.scratch
    BY <2>1, SyncedRootFields
  <2> HIDE DEF c
  <2>3. /\ s \in Images /\ s.final = c.final /\ s.log = j.log /\ s.tomb = j.tomb
        /\ s.gen = disk.gen /\ s.erasing = j.erasing /\ s.root = value /\ s.scratch = j.scratch
    BY <2>2 DEF Images
  <2> HIDE DEF s
  <2>4. j.gen \in Nat /\ j.erasing \in Nat /\ disk.gen \in Nat BY <2>1 DEF Images
  <2>5. value \in {"tree", "kept"} => j.log = NoLog
    BY <2>1 DEF Sound, NoLog
  <2>6. value \in {"tree"} => j.tomb = NoTomb BY <2>1 DEF Sound, NoTomb
  <2>7. Alone(s) BY <2>1, <2>2, <2>3, <2>4, <2>5, <2>6 DEF Sound
  <2>8. Link(s, disk') BY <1>3, <2>1, <2>2, <2>3, <2>4 DEF Sound
  <2> QED BY <2>3, <2>7, <2>8 DEF s, c, Sound
<1>5. \A s \in surviving' : s \in Images /\ Sound(s, disk') BY <1>1, <1>4
<1> QED BY <1>2, <1>5, PutDurablyShape

\* The next event: after the publish intent no event denies it.
LEMMA CommitEventStored ==
  ASSUME Stored, NEW e \in Logs, Move("scratch", disk.scratch - 1, "log", e), disk.scratch > 0,
         LogIsDurable, disk.root = "intent", disk.tomb.marks = "none",
         disk.log.phase \notin Terminal, e.phase # "none",
         disk.log.phase \in Publishing => e.phase \in Publishing,
         e.phase = "committed" => disk.scratch = 1
  PROVE  Stored'
<1> DEFINE left == disk.scratch - 1
           T == {[j EXCEPT !["scratch"] = left, !["log"] = e] : j \in surviving}
<1>0. left \in 0..MaxScratch BY ScratchAssumption DEF Stored, Images
<1>1. surviving' = surviving \cup T /\ disk' = [disk EXCEPT !["scratch"] = left, !["log"] = e] OBVIOUS
<1>2. disk' \in T BY <1>1 DEF Stored
<1>a. e.phase = "committed" => left = 0 OBVIOUS
<1> HIDE DEF left
<1>3. /\ disk'.final = disk.final /\ disk'.log = e /\ disk'.tomb = disk.tomb
      /\ disk'.gen = disk.gen /\ disk'.erasing = disk.erasing /\ disk'.root = disk.root
  BY <1>1 DEF Stored, Images
<1>4. ASSUME NEW j \in surviving
      PROVE  LET s == [j EXCEPT !["scratch"] = left, !["log"] = e]
             IN Sound(j, disk') /\ s \in Images /\ Sound(s, disk')
  <2> DEFINE s == [j EXCEPT !["scratch"] = left, !["log"] = e]
  <2>1. /\ disk \in Images /\ j \in Images /\ Sound(disk, disk) /\ Sound(j, disk)
        /\ j.log = disk.log
    BY DEF Stored, LogIsDurable
  <2>2. /\ s \in Images /\ s.final = j.final /\ s.log = e /\ s.tomb = j.tomb /\ s.gen = j.gen
        /\ s.erasing = j.erasing /\ s.root = j.root /\ s.scratch = left
    BY <1>0, <2>1 DEF Images
  <2> HIDE DEF s
  <2>3. disk.erasing # disk.gen /\ disk.gen = j.gen /\ j.root = "intent" /\ j.erasing # j.gen
    BY <2>1 DEF Sound
  <2>4. ~IsSealed(j.tomb) /\ ~IsSealed(disk.tomb) BY <2>1 DEF Sound, NoTomb
  <2>5. j.final = "ours" => disk.log.phase \in Publishing BY <2>1, <2>3, <2>4 DEF Sound
  <2>6. disk.final = "ours" => disk.log.phase \in Publishing BY <2>1, <2>3, <2>4 DEF Sound
  <2>7. Sound(j, disk')
    <3>1. Alone(j) BY <2>1 DEF Sound
    <3>2. Link(j, disk') BY <1>3, <2>1, <2>3, <2>4, <2>5, <2>6 DEF Sound, Terminal
    <3> QED BY <3>1, <3>2 DEF Sound
  <2>8. Sound(s, disk')
    <3>1. Alone(s) BY <1>a, <2>1, <2>2, <2>3, <2>4, <2>5, <2>6 DEF Sound
    <3>2. Link(s, disk') BY <1>3, <2>1, <2>2, <2>3, <2>4, <2>5, <2>6 DEF Sound
    <3> QED BY <3>1, <3>2 DEF Sound
  <2> QED BY <2>2, <2>7, <2>8 DEF s
<1>5. \A s \in T : s \in Images /\ Sound(s, disk') BY <1>4
<1> HIDE DEF T
<1> QED BY <1>1, <1>2, <1>4, <1>5, PutShape

\* A copy gets its staged name.
LEMMA PlaceStored ==
  ASSUME Stored, NEW n \in 0..Files, Move("scratch", disk.scratch - 1, "stage", n), disk.scratch > 0,
         LogIsDurable, disk.log.phase # "committed"
  PROVE  Stored'
<1> DEFINE left == disk.scratch - 1
           T == {[j EXCEPT !["scratch"] = left, !["stage"] = n] : j \in surviving}
<1>0. left \in 0..MaxScratch BY ScratchAssumption DEF Stored, Images
<1>1. surviving' = surviving \cup T /\ disk' = [disk EXCEPT !["scratch"] = left, !["stage"] = n] OBVIOUS
<1>2. disk' \in T BY <1>1 DEF Stored
<1> HIDE DEF left
<1>3. /\ disk'.final = disk.final /\ disk'.log = disk.log /\ disk'.tomb = disk.tomb
      /\ disk'.gen = disk.gen /\ disk'.erasing = disk.erasing /\ disk'.root = disk.root
  BY <1>1 DEF Stored, Images
<1>4. ASSUME NEW j \in surviving
      PROVE  LET s == [j EXCEPT !["scratch"] = left, !["stage"] = n]
             IN Sound(j, disk') /\ s \in Images /\ Sound(s, disk')
  <2> DEFINE s == [j EXCEPT !["scratch"] = left, !["stage"] = n]
  <2>1. /\ disk \in Images /\ j \in Images /\ Sound(disk, disk) /\ Sound(j, disk)
        /\ j.log = disk.log
    BY DEF Stored, LogIsDurable
  <2>2. /\ s \in Images /\ s.final = j.final /\ s.log = j.log /\ s.tomb = j.tomb /\ s.gen = j.gen
        /\ s.erasing = j.erasing /\ s.root = j.root
    BY <1>0, <2>1 DEF Images
  <2> HIDE DEF s
  <2>3. Sound(j, disk') BY <1>3, <2>1 DEF Sound
  <2>4. Sound(s, disk') BY <1>3, <2>1, <2>2 DEF Sound
  <2> QED BY <2>2, <2>3, <2>4 DEF s
<1>5. \A s \in T : s \in Images /\ Sound(s, disk') BY <1>4
<1> HIDE DEF T
<1> QED BY <1>1, <1>2, <1>4, <1>5, PutShape

\* The staged tree gets the public name, behind a durable publish intent.
LEMMA RenameStored ==
  ASSUME Stored, Move("stage", 0, "final", "ours"), LogIsDurable,
         disk.log.phase = "publish_intent", disk.root = "intent", disk.tomb.marks = "none"
  PROVE  Stored'
<1> DEFINE T == {[j EXCEPT !["stage"] = 0, !["final"] = "ours"] : j \in surviving}
<1>1. surviving' = surviving \cup T /\ disk' = [disk EXCEPT !["stage"] = 0, !["final"] = "ours"] OBVIOUS
<1>2. disk' \in T BY <1>1 DEF Stored
<1>3. /\ disk'.final = "ours" /\ disk'.log = disk.log /\ disk'.tomb = disk.tomb
      /\ disk'.gen = disk.gen /\ disk'.erasing = disk.erasing /\ disk'.root = disk.root
  BY <1>1 DEF Stored, Images
<1>4. ASSUME NEW j \in surviving
      PROVE  LET s == [j EXCEPT !["stage"] = 0, !["final"] = "ours"]
             IN Sound(j, disk') /\ s \in Images /\ Sound(s, disk')
  <2> DEFINE s == [j EXCEPT !["stage"] = 0, !["final"] = "ours"]
  <2>1. /\ disk \in Images /\ j \in Images /\ Sound(disk, disk) /\ Sound(j, disk)
        /\ j.log = disk.log
    BY DEF Stored, LogIsDurable
  <2>2. /\ s \in Images /\ s.final = "ours" /\ s.log = j.log /\ s.tomb = j.tomb /\ s.gen = j.gen
        /\ s.erasing = j.erasing /\ s.root = j.root /\ s.scratch = j.scratch
    <3>1. 0 \in 0..Files BY FilesAssumption
    <3> QED BY <2>1, <3>1 DEF Images
  <2> HIDE DEF s
  <2>3. ~IsSealed(j.tomb) /\ ~IsSealed(disk.tomb) BY <2>1 DEF Sound, NoTomb
  <2>4. disk.log.phase \in Publishing BY DEF Publishing
  <2>5. Sound(j, disk') BY <1>3, <2>1, <2>3, <2>4 DEF Sound
  <2>6. Sound(s, disk') BY <1>3, <2>1, <2>2, <2>3, <2>4 DEF Sound
  <2> QED BY <2>2, <2>5, <2>6 DEF s
<1>5. \A s \in T : s \in Images /\ Sound(s, disk') BY <1>4
<1> HIDE DEF T
<1> QED BY <1>1, <1>2, <1>4, <1>5, PutShape

-----------------------------------------------------------------------------
(* What is stored stays sound: prune and forget.                           *)

\* One staged file less.
LEMMA DropStageStored ==
  ASSUME Stored, PutDurably("stage", disk.stage - 1), disk.stage > 0
  PROVE  Stored'
<1> DEFINE value == disk.stage - 1
           parts == {"stage"}
<1>0. value \in 0..Files BY FilesAssumption DEF Stored, Images
<1> HIDE DEF value
<1>1. /\ surviving' = {[Synced(j, parts) EXCEPT !["stage"] = value] : j \in surviving}
      /\ disk' = [disk EXCEPT !["stage"] = value]
  BY DEF value
<1>2. disk' \in surviving'
  <2>1. Synced(disk, parts) = disk /\ disk \in surviving BY SelfSynced DEF Stored
  <2> QED BY <1>1, <2>1
<1>3. /\ disk'.final = disk.final /\ disk'.log = disk.log /\ disk'.tomb = disk.tomb
      /\ disk'.gen = disk.gen /\ disk'.erasing = disk.erasing /\ disk'.root = disk.root
  BY <1>1 DEF Stored, Images
<1>4. ASSUME NEW j \in surviving
      PROVE  LET s == [Synced(j, parts) EXCEPT !["stage"] = value]
             IN s \in Images /\ Sound(s, disk')
  <2> DEFINE c == Synced(j, parts)
             s == [c EXCEPT !["stage"] = value]
  <2>1. /\ disk \in Images /\ j \in Images /\ Sound(disk, disk) /\ Sound(j, disk) BY DEF Stored
  <2>2. /\ c \in Images /\ c.final = j.final /\ c.log = j.log /\ c.tomb = j.tomb /\ c.gen = j.gen
        /\ c.erasing = j.erasing /\ c.root = j.root /\ c.scratch = j.scratch
    BY <2>1, SyncedFields
  <2> HIDE DEF c
  <2>3. /\ s \in Images /\ s.final = j.final /\ s.log = j.log /\ s.tomb = j.tomb /\ s.gen = j.gen
        /\ s.erasing = j.erasing /\ s.root = j.root /\ s.scratch = j.scratch
    BY <1>0, <2>2 DEF Images
  <2> HIDE DEF s
  <2>4. Sound(s, disk') BY <1>3, <2>1, <2>3 DEF Sound
  <2> QED BY <2>3, <2>4 DEF s, c
<1>5. \A s \in surviving' : s \in Images /\ Sound(s, disk') BY <1>1, <1>4
<1> QED BY <1>2, <1>5, PutDurablyShape

\* The journal goes, behind a durable retention intent.
LEMMA DropLogStored ==
  ASSUME Stored, PutDurably("log", NoLog), disk.root = "stripping",
         \A j \in surviving : j.tomb = disk.tomb /\ j.tomb.marks = "intent"
  PROVE  Stored'
<1> DEFINE parts == {"log"}
<1>0. NoLog \in Logs BY FilesAssumption DEF NoLog, Logs, Phases
<1>1. /\ surviving' = {[Synced(j, parts) EXCEPT !["log"] = NoLog] : j \in surviving}
      /\ disk' = [disk EXCEPT !["log"] = NoLog]
  OBVIOUS
<1>2. disk' \in surviving'
  <2>1. Synced(disk, parts) = disk /\ disk \in surviving BY SelfSynced DEF Stored
  <2> QED BY <1>1, <2>1
<1>3. /\ disk'.final = disk.final /\ disk'.log = NoLog /\ disk'.tomb = disk.tomb
      /\ disk'.gen = disk.gen /\ disk'.erasing = disk.erasing /\ disk'.root = disk.root
  BY <1>1 DEF Stored, Images
<1>4. ASSUME NEW j \in surviving
      PROVE  LET s == [Synced(j, parts) EXCEPT !["log"] = NoLog]
             IN s \in Images /\ Sound(s, disk')
  <2> DEFINE c == Synced(j, parts)
             s == [c EXCEPT !["log"] = NoLog]
  <2>1. /\ disk \in Images /\ j \in Images /\ Sound(disk, disk) /\ Sound(j, disk) BY DEF Stored
  <2>2. /\ c \in Images /\ c.final = j.final /\ c.tomb = j.tomb /\ c.gen = j.gen
        /\ c.erasing = j.erasing /\ c.root = j.root /\ c.scratch = j.scratch
    BY <2>1, SyncedFields
  <2> HIDE DEF c
  <2>3. /\ s \in Images /\ s.final = j.final /\ s.log = NoLog /\ s.tomb = j.tomb /\ s.gen = j.gen
        /\ s.erasing = j.erasing /\ s.root = j.root /\ s.scratch = j.scratch
    BY <1>0, <2>2 DEF Images
  <2> HIDE DEF s
  <2>4. j.final = "ours" => j.tomb.basis = "committed" BY <2>1 DEF Sound
  <2>5. disk.final = "ours" => disk.tomb.basis = "committed" BY <2>1 DEF Sound
  <2>6. NoLog.phase = "none" BY DEF NoLog
  <2>7. j.tomb = disk.tomb /\ disk.tomb.marks = "intent" /\ j.root = "stripping" /\ j.gen = disk.gen
    BY <2>1 DEF Sound
  <2>8. Alone(s) BY <2>1, <2>3, <2>4, <2>6, <2>7 DEF Sound
  <2>9. Link(s, disk') BY <1>3, <2>1, <2>3, <2>4, <2>5, <2>6, <2>7 DEF Sound
  <2>10. Sound(s, disk') BY <2>8, <2>9 DEF Sound
  <2> QED BY <2>3, <2>10 DEF s, c
<1>5. \A s \in surviving' : s \in Images /\ Sound(s, disk') BY <1>1, <1>4
<1> QED BY <1>2, <1>5, PutDurablyShape

\* A step of the tombstone: how the tombstone u may follow the visible one, and
\* whether it may be lost.
Follows(u, lost) ==
  \/ ~lost /\ disk.tomb.marks = "none" /\ u.marks = "dir" /\ disk.root \in {"intent", "stripping", "kept"}
  \/ lost /\ u.marks = disk.tomb.marks /\ u.marks # "none" /\ u.basis = disk.tomb.basis
  \/ /\ lost /\ disk.tomb.marks = "dir" /\ u.marks = "intent"
     /\ disk.root = "intent" /\ disk.log.phase \in Terminal /\ u.basis = disk.log.phase
  \/ /\ lost /\ disk.tomb.marks = "intent" /\ u.marks = "complete"
     /\ disk.root = "kept" /\ u.basis = disk.tomb.basis
  \/ /\ ~lost /\ \A j \in surviving : j.erasing = disk.gen /\ j.gen = disk.gen
     /\ \/ disk.tomb.marks = "complete" /\ u.marks = "intent" /\ u.basis = disk.tomb.basis
        \/ disk.tomb.marks = "intent" /\ u.marks = "dir" /\ disk.root \in {"kept"}
        \/ disk.tomb.marks = "dir" /\ u = NoTomb

\* What follows the tombstone fits every image of it.
LEMMA FollowedSound ==
  ASSUME NEW d \in Images, NEW e \in Images, NEW j \in Images, NEW s \in Images, NEW lost \in BOOLEAN,
         d = disk, j \in surviving, Sound(d, d), Sound(j, d), Follows(e.tomb, lost),
         e.root = d.root, e.log = d.log, e.final = d.final, e.gen = d.gen, e.erasing = d.erasing,
         s.root = j.root, s.log = j.log, s.final = j.final, s.gen = j.gen, s.erasing = j.erasing,
         s.scratch = j.scratch, s.tomb = e.tomb
  PROVE  Sound(s, e) /\ (lost => Sound(j, e))
<1>1. d.gen \in Nat /\ j.gen \in Nat /\ j.erasing \in Nat /\ d.erasing \in Nat BY DEF Images
<1>2. CASE ~lost /\ d.tomb.marks = "none" /\ e.tomb.marks = "dir" /\ d.root \in {"intent", "stripping", "kept"}
  <2>1. ~IsSealed(d.tomb) /\ ~IsSealed(j.tomb) BY <1>2 DEF Sound, NoTomb
  <2> QED BY <1>1, <1>2, <2>1 DEF Sound
<1>3. CASE lost /\ e.tomb.marks = d.tomb.marks /\ e.tomb.marks # "none" /\ e.tomb.basis = d.tomb.basis
  <2>1. d.root \notin {"none", "bare", "tree"} BY <1>3 DEF Sound, NoTomb
  <2>2. j.root = d.root /\ j.gen = d.gen
    <3>1. d.root \in {"intent", "stripping", "kept"} BY <2>1 DEF Images
    <3> QED BY <3>1 DEF Sound
  <2>3. IsSealed(j.tomb) => IsSealed(d.tomb) /\ j.tomb.basis = d.tomb.basis
    BY DEF Sound, NoTomb, Images, Tombs, Marks
  <2>4. j.final = "ours" /\ IsSealed(d.tomb) => d.tomb.basis = "committed" BY <2>2 DEF Sound
  <2>5. j.final = "ours" => VouchedBy(j.log, s)
    BY <1>3, <2>3, <2>4 DEF Sound
  <2>6. d.tomb.marks = "complete" => j.root = "kept" BY <2>2 DEF Sound
  <2>7. j.root # "none" /\ j.root \notin {"bare", "tree"} BY <2>1, <2>2
  <2>8. Sound(j, e) BY <1>1, <1>3, <2>1 DEF Sound
  <2>9. Alone(s) BY <1>1, <1>3, <2>4, <2>5, <2>6, <2>7 DEF Sound
  <2>10. Link(s, e) BY <1>1, <1>3, <2>1, <2>2 DEF Sound
  <2> QED BY <2>8, <2>9, <2>10 DEF Sound
<1>4. CASE lost /\ d.tomb.marks = "dir" /\ e.tomb.marks = "intent" /\ d.root = "intent"
           /\ d.log.phase \in Terminal /\ e.tomb.basis = d.log.phase
  <2>1. j.root = "intent" /\ j.gen = d.gen /\ j.tomb.marks = "dir" BY <1>4 DEF Sound
  <2>2. j.final = "ours" \/ d.final = "ours" => d.log.phase = "committed"
    BY <1>4, <2>1 DEF Sound, Terminal, Publishing
  <2>3. Sound(j, e) BY <1>1, <1>4, <2>1, <2>2 DEF Sound
  <2>4. Sound(s, e) BY <1>1, <1>4, <2>1, <2>2 DEF Sound
  <2> QED BY <2>3, <2>4
<1>5. CASE lost /\ d.tomb.marks = "intent" /\ e.tomb.marks = "complete" /\ d.root = "kept"
           /\ e.tomb.basis = d.tomb.basis
  <2>1. j.root = "kept" /\ j.gen = d.gen /\ j.tomb.marks = "intent" BY <1>5 DEF Sound
  <2>2. j.final = "ours" \/ d.final = "ours" => d.tomb.basis = "committed" BY <1>5, <2>1 DEF Sound
  <2>3. Sound(j, e) BY <1>1, <1>5, <2>1, <2>2 DEF Sound
  <2>4. Sound(s, e) BY <1>1, <1>5, <2>1, <2>2 DEF Sound
  <2> QED BY <2>3, <2>4
<1>6. CASE /\ ~lost /\ \A k \in surviving : k.erasing = disk.gen /\ k.gen = disk.gen
           /\ \/ d.tomb.marks = "complete" /\ e.tomb.marks = "intent" /\ e.tomb.basis = d.tomb.basis
              \/ d.tomb.marks = "intent" /\ e.tomb.marks = "dir" /\ d.root \in {"kept"}
              \/ d.tomb.marks = "dir" /\ e.tomb = NoTomb
  <2>1. j.gen = d.gen /\ j.erasing = d.gen BY <1>6
  <2>2. d.erasing = d.gen /\ d.root \in {"kept", "bare"} BY <2>1 DEF Sound
  <2>3. d.root = "kept" /\ j.root = "kept" BY <1>6, <2>2 DEF Sound, NoTomb
  <2>4. j.final = "ours" /\ IsSealed(d.tomb) => d.tomb.basis = "committed" BY <2>1 DEF Sound
  <2>5. NoTomb.marks = "none" BY DEF NoTomb
  <2>6. Alone(s) BY <1>1, <1>6, <2>1, <2>3, <2>4, <2>5 DEF Sound
  <2>7. Link(s, e) BY <1>1, <1>6, <2>1, <2>2, <2>3, <2>4, <2>5 DEF Sound
  <2> QED BY <1>6, <2>6, <2>7 DEF Sound
<1> QED BY <1>2, <1>3, <1>4, <1>5, <1>6 DEF Follows

LEMMA PutTombStored ==
  ASSUME Stored, NEW u \in Tombs, Put("tomb", u), Follows(u, TRUE) PROVE Stored'
<1> DEFINE T == {[j EXCEPT !["tomb"] = u] : j \in surviving}
<1>1. surviving' = surviving \cup T /\ disk' = [disk EXCEPT !["tomb"] = u] BY PutFields
<1>2. disk' \in T BY <1>1 DEF Stored
<1>3. /\ disk'.final = disk.final /\ disk'.log = disk.log /\ disk'.tomb = u
      /\ disk'.gen = disk.gen /\ disk'.erasing = disk.erasing /\ disk'.root = disk.root
      /\ disk' \in Images
  BY <1>1 DEF Stored, Images
<1>4. ASSUME NEW j \in surviving
      PROVE  LET s == [j EXCEPT !["tomb"] = u]
             IN Sound(j, disk') /\ s \in Images /\ Sound(s, disk')
  <2> DEFINE s == [j EXCEPT !["tomb"] = u]
  <2>1. /\ disk \in Images /\ j \in Images /\ Sound(disk, disk) /\ Sound(j, disk) BY DEF Stored
  <2>2. /\ s \in Images /\ s.final = j.final /\ s.log = j.log /\ s.tomb = u /\ s.gen = j.gen
        /\ s.erasing = j.erasing /\ s.root = j.root /\ s.scratch = j.scratch
    BY <2>1 DEF Images
  <2> HIDE DEF s
  <2>3. Sound(s, disk') /\ Sound(j, disk') BY <1>3, <2>1, <2>2, FollowedSound
  <2> QED BY <2>2, <2>3 DEF s
<1>5. \A s \in T : s \in Images /\ Sound(s, disk') BY <1>4
<1> HIDE DEF T
<1> QED BY <1>1, <1>2, <1>4, <1>5, PutShape

LEMMA PutTombDurablyStored ==
  ASSUME Stored, NEW u \in Tombs, PutDurably("tomb", u), Follows(u, FALSE) PROVE Stored'
<1> DEFINE parts == {"tomb"}
<1>1. /\ surviving' = {[Synced(j, parts) EXCEPT !["tomb"] = u] : j \in surviving}
      /\ disk' = [disk EXCEPT !["tomb"] = u]
  OBVIOUS
<1>2. disk' \in surviving'
  <2>1. Synced(disk, parts) = disk /\ disk \in surviving BY SelfSynced DEF Stored
  <2> QED BY <1>1, <2>1
<1>3. /\ disk'.final = disk.final /\ disk'.log = disk.log /\ disk'.tomb = u
      /\ disk'.gen = disk.gen /\ disk'.erasing = disk.erasing /\ disk'.root = disk.root
      /\ disk' \in Images
  BY <1>1 DEF Stored, Images
<1>4. ASSUME NEW j \in surviving
      PROVE  LET s == [Synced(j, parts) EXCEPT !["tomb"] = u]
             IN s \in Images /\ Sound(s, disk')
  <2> DEFINE c == Synced(j, parts)
             s == [c EXCEPT !["tomb"] = u]
  <2>1. /\ disk \in Images /\ j \in Images /\ Sound(disk, disk) /\ Sound(j, disk) BY DEF Stored
  <2>2. /\ c \in Images /\ c.final = j.final /\ c.log = j.log /\ c.gen = j.gen
        /\ c.erasing = j.erasing /\ c.root = j.root /\ c.scratch = j.scratch
    BY <2>1, SyncedFields
  <2> HIDE DEF c
  <2>3. /\ s \in Images /\ s.final = j.final /\ s.log = j.log /\ s.tomb = u /\ s.gen = j.gen
        /\ s.erasing = j.erasing /\ s.root = j.root /\ s.scratch = j.scratch
    BY <2>2 DEF Images
  <2> HIDE DEF s
  <2>4. Sound(s, disk') BY <1>3, <2>1, <2>3, FollowedSound
  <2> QED BY <2>3, <2>4 DEF s, c
<1>5. \A s \in surviving' : s \in Images /\ Sound(s, disk') BY <1>1, <1>4
<1> QED BY <1>2, <1>5, PutDurablyShape

\* The bytes of a staged marker: no reader of these invariants looks at them.
LEMMA FillTombStored ==
  ASSUME Stored, NEW p \in Proc, FillTomb(p) PROVE Stored'
<1> DEFINE filled(j) == [j EXCEPT !.tomb.whole = (j.tomb.pending # "none")]
<1>1. disk' = filled(disk) /\ surviving' = {filled(j) : j \in surviving} BY DEF FillTomb
<1>2. \A j \in Images : /\ filled(j) \in Images /\ filled(j).root = j.root
                        /\ filled(j).log = j.log /\ filled(j).final = j.final
                        /\ filled(j).gen = j.gen /\ filled(j).erasing = j.erasing
                        /\ filled(j).scratch = j.scratch
                        /\ filled(j).tomb.marks = j.tomb.marks /\ filled(j).tomb.basis = j.tomb.basis
                        /\ filled(j).tomb = [j.tomb EXCEPT !.whole = (j.tomb.pending # "none")]
  BY DEF Images, Tombs
<1>3. ASSUME NEW j \in Images, j.tomb = NoTomb PROVE filled(j).tomb = NoTomb
  <2>1. filled(j).tomb = [NoTomb EXCEPT !.whole = (NoTomb.pending # "none")] BY <1>2, <1>3
  <2>2. (NoTomb.pending # "none") = FALSE BY DEF NoTomb
  <2>3. [NoTomb EXCEPT !.whole = FALSE] = NoTomb
    <3>1. DOMAIN NoTomb = {"marks", "basis", "pending", "whole"} /\ NoTomb.whole = FALSE BY DEF NoTomb
    <3>2. NoTomb = [x \in {"marks", "basis", "pending", "whole"} |-> NoTomb[x]] BY DEF NoTomb
    <3> QED BY <3>1, <3>2
  <2>4. filled(j).tomb = [NoTomb EXCEPT !.whole = FALSE] BY <2>1, <2>2, Zenon
  <2> QED BY <2>3, <2>4, Zenon
<1> HIDE DEF filled
<1>4. disk' \in surviving' BY <1>1 DEF Stored
<1>5. ASSUME NEW j \in surviving PROVE filled(j) \in Images /\ Sound(filled(j), disk')
  <2>1. /\ disk \in Images /\ j \in Images /\ Sound(disk, disk) /\ Sound(j, disk) BY DEF Stored
  <2> DEFINE s == filled(j)
             d == filled(disk)
  <2>2. /\ s \in Images /\ s.root = j.root /\ s.log = j.log /\ s.final = j.final
        /\ s.gen = j.gen /\ s.erasing = j.erasing /\ s.scratch = j.scratch
        /\ s.tomb.marks = j.tomb.marks /\ s.tomb.basis = j.tomb.basis
        /\ j.tomb = NoTomb => s.tomb = NoTomb
    BY <1>2, <1>3, <2>1
  <2>3. /\ d.root = disk.root /\ d.log = disk.log /\ d.final = disk.final
        /\ d.gen = disk.gen /\ d.erasing = disk.erasing
        /\ d.tomb.marks = disk.tomb.marks /\ d.tomb.basis = disk.tomb.basis
        /\ disk.tomb = NoTomb => d.tomb = NoTomb
    BY <1>2, <1>3, <2>1
  <2>4. d = disk' BY <1>1
  <2> HIDE DEF s, d
  <2>5. Alone(s) BY <2>1, <2>2 DEF Sound
  <2>6. Link(s, d) BY <2>1, <2>2, <2>3 DEF Sound
  <2> QED BY <2>2, <2>4, <2>5, <2>6 DEF s, Sound
<1>6. \A s \in surviving' : s \in Images /\ Sound(s, disk') BY <1>1, <1>5
<1> QED BY <1>4, <1>6, PutDurablyShape

\* The intent of a forget leaves the tombstone for the target root.
LEMMA MoveTombStored ==
  ASSUME Stored, NEW u \in Tombs, Move("tomb", u, "erasing", disk.gen),
         disk.tomb.marks = "complete", u.marks = "complete", u.basis = disk.tomb.basis
  PROVE  Stored'
<1> DEFINE T == {[j EXCEPT !["tomb"] = u, !["erasing"] = disk.gen] : j \in surviving}
<1>1. surviving' = surviving \cup T /\ disk' = [disk EXCEPT !["tomb"] = u, !["erasing"] = disk.gen]
  OBVIOUS
<1>2. disk' \in T BY <1>1 DEF Stored
<1>3. /\ disk'.final = disk.final /\ disk'.log = disk.log /\ disk'.tomb = u
      /\ disk'.gen = disk.gen /\ disk'.erasing = disk.gen /\ disk'.root = disk.root
  BY <1>1 DEF Stored, Images
<1>0. disk.gen \in 0..MaxIncarnations
  <2>1. Alone(disk) BY DEF Stored, Sound
  <2>2. disk.root = "kept" BY <2>1
  <2>3. disk.gen \in Incarnations BY <2>1, <2>2
  <2> QED BY <2>3, MaxIncarnationsAssumption DEF Incarnations
<1>4. ASSUME NEW j \in surviving
      PROVE  LET s == [j EXCEPT !["tomb"] = u, !["erasing"] = disk.gen]
             IN Sound(j, disk') /\ s \in Images /\ Sound(s, disk')
  <2> DEFINE s == [j EXCEPT !["tomb"] = u, !["erasing"] = disk.gen]
  <2>1. /\ disk \in Images /\ j \in Images /\ Sound(disk, disk) /\ Sound(j, disk) BY DEF Stored
  <2>2. /\ s \in Images /\ s.final = j.final /\ s.log = j.log /\ s.tomb = u /\ s.gen = j.gen
        /\ s.erasing = disk.gen /\ s.root = j.root /\ s.scratch = j.scratch
    BY <1>0, <2>1 DEF Images
  <2> HIDE DEF s
  <2>3. disk.root = "kept" /\ j.root = "kept" /\ j.gen = disk.gen /\ IsSealed(j.tomb)
    BY <2>1 DEF Sound
  <2>4. j.gen \in Nat /\ j.erasing \in Nat /\ disk.gen \in Nat BY <2>1 DEF Images
  <2>5. j.final = "ours" \/ disk.final = "ours" => disk.tomb.basis = "committed"
    BY <2>1, <2>3 DEF Sound
  <2>6. Sound(j, disk') BY <1>3, <2>1, <2>3, <2>4, <2>5 DEF Sound
  <2>7. Sound(s, disk') BY <1>3, <2>1, <2>2, <2>3, <2>4, <2>5 DEF Sound
  <2> QED BY <2>2, <2>6, <2>7 DEF s
<1>5. \A s \in T : s \in Images /\ Sound(s, disk') BY <1>4
<1> HIDE DEF T
<1> QED BY <1>1, <1>2, <1>4, <1>5, PutShape

\* The lock file of a tombstone that is gone.
LEMMA DropKeptStored ==
  ASSUME Stored, Put("root", "bare"), disk.root = "kept", disk.tomb.marks = "none"
  PROVE  Stored'
<1> DEFINE T == {[Renewed(j) EXCEPT !["root"] = "bare"] : j \in surviving}
<1>1. surviving' = surviving \cup T /\ disk' = [disk EXCEPT !["root"] = "bare"] BY DEF Current
<1>2. disk' \in T BY <1>1, SelfRenewed DEF Stored
<1>3. /\ disk'.final = disk.final /\ disk'.log = disk.log /\ disk'.tomb = disk.tomb
      /\ disk'.gen = disk.gen /\ disk'.erasing = disk.erasing /\ disk'.root = "bare"
  BY <1>1 DEF Stored, Images
<1>4. ASSUME NEW j \in surviving
      PROVE  LET s == [Renewed(j) EXCEPT !["root"] = "bare"]
             IN Sound(j, disk') /\ s \in Images /\ Sound(s, disk')
  <2> DEFINE c == Renewed(j)
             s == [c EXCEPT !["root"] = "bare"]
  <2>1. /\ disk \in Images /\ j \in Images /\ Sound(disk, disk) /\ Sound(j, disk) BY DEF Stored
  <2>0. j.gen = disk.gen /\ j.root = "kept" /\ j.tomb = NoTomb /\ j.log = NoLog BY <2>1 DEF Sound
  <2>2. /\ c \in Images /\ c.gen = disk.gen /\ c.log = j.log /\ c.tomb = j.tomb
        /\ c.final = j.final /\ c.erasing = j.erasing /\ c.scratch = j.scratch
    BY <2>0, <2>1, RenewedFields
  <2> HIDE DEF c
  <2>3. /\ s \in Images /\ s.final = j.final /\ s.log = j.log /\ s.tomb = j.tomb
        /\ s.gen = disk.gen /\ s.erasing = j.erasing /\ s.root = "bare" /\ s.scratch = j.scratch
    BY <2>2 DEF Images
  <2> HIDE DEF s
  <2>4. j.gen \in Nat /\ j.erasing \in Nat /\ disk.gen \in Nat BY <2>1 DEF Images
  <2>5. Sound(j, disk') BY <1>3, <2>0, <2>1, <2>4 DEF Sound
  <2>6. Alone(s) BY <2>0, <2>1, <2>3, <2>4 DEF Sound
  <2>7. Link(s, disk') BY <1>3, <2>0, <2>1, <2>3, <2>4 DEF Sound
  <2>8. Sound(s, disk') BY <2>6, <2>7 DEF Sound
  <2> QED BY <2>3, <2>5, <2>8 DEF s, c
<1>5. \A s \in T : s \in Images /\ Sound(s, disk') BY <1>4
<1> HIDE DEF T
<1> QED BY <1>1, <1>2, <1>4, <1>5, PutShape

\* The operation directory goes, and with it its identity.
LEMMA VanishStored ==
  ASSUME Stored, disk.root = "bare",
         disk' = Vanished(disk), surviving' = surviving \cup {Vanished(j) : j \in surviving}
  PROVE  Stored'
<1> DEFINE T == {Vanished(j) : j \in surviving}
<1>1. surviving' = surviving \cup T /\ disk' \in T BY DEF Stored
<1>2. \A j \in Images :
        /\ Vanished(j).root = "none" /\ Vanished(j).gen = disk.gen + 1
        /\ Vanished(j).final = (IF j.final = "ours" THEN "other" ELSE j.final)
        /\ Vanished(j).log = j.log /\ Vanished(j).tomb = j.tomb
        /\ Vanished(j).erasing = j.erasing /\ Vanished(j).scratch = j.scratch
  BY DEF Vanished, Images
<1>3. disk.gen + 1 \in 1..(MaxIncarnations + 1)
  <2>1. Alone(disk) /\ disk \in Images BY DEF Stored, Sound
  <2>2. disk.gen \in Incarnations BY <2>1
  <2> QED BY <2>2, MaxIncarnationsAssumption DEF Incarnations
<1>4. \A j \in Images : Vanished(j) \in Images BY <1>3 DEF Vanished, Images
<1> HIDE DEF T
<1>5. /\ disk'.final # "ours" /\ disk'.log = disk.log /\ disk'.tomb = disk.tomb
      /\ disk'.gen = disk.gen + 1 /\ disk'.erasing = disk.erasing /\ disk'.root = "none"
  <2>1. disk \in Images BY DEF Stored
  <2> QED BY <1>2, <2>1
<1>6. ASSUME NEW j \in surviving PROVE Sound(j, disk') /\ Sound(Vanished(j), disk')
  <2>1. /\ disk \in Images /\ j \in Images /\ Sound(disk, disk) /\ Sound(j, disk) BY DEF Stored
  <2> DEFINE s == Vanished(j)
  <2>2. /\ s.final # "ours" /\ s.log = j.log /\ s.tomb = j.tomb /\ s.gen = disk.gen + 1
        /\ s.erasing = j.erasing /\ s.root = "none" /\ s.scratch = j.scratch
    BY <1>2, <2>1
  <2> HIDE DEF s
  <2>3. /\ j.gen \in Nat /\ j.erasing \in Nat /\ disk.gen \in Nat /\ disk.erasing \in Nat
    BY <2>1 DEF Images
  <2>4. disk.tomb = NoTomb /\ NoTomb.marks = "none" /\ disk.log = NoLog /\ NoLog.phase = "none"
    BY <2>1 DEF Sound, NoTomb, NoLog
  <2>5. j.gen <= disk.gen /\ j.root \in {"none", "bare", "kept"} /\ j.tomb = NoTomb /\ j.log = NoLog
    BY <2>1, <2>4 DEF Sound
  <2>6. Sound(j, disk') BY <1>5, <2>1, <2>3, <2>4, <2>5 DEF Sound
  <2>7. j.erasing <= disk.gen /\ j.erasing # disk.gen + 1 BY <2>1, <2>3, <2>5 DEF Sound
  <2>8. Alone(s) BY <2>1, <2>2, <2>3, <2>4, <2>5, <2>7 DEF Sound
  <2>9. Link(s, disk') BY <1>5, <2>1, <2>2, <2>3, <2>4, <2>5, <2>7 DEF Sound
  <2> QED BY <2>6, <2>8, <2>9 DEF s, Sound
<1>7. ASSUME NEW s \in T PROVE s \in Images /\ Sound(s, disk')
  BY <1>4, <1>6 DEF T, Stored
<1>8. \A j \in surviving : Sound(j, disk') BY <1>6
<1> QED BY <1>1, <1>7, <1>8, PutShape

\* The root intent goes, once no image knows the directory that it names.
LEMMA UnmarkStored ==
  ASSUME Stored, Put("erasing", 0), disk.erasing # 0, \A j \in surviving : disk.erasing < j.gen
  PROVE  Stored'
<1> DEFINE T == {[j EXCEPT !["erasing"] = 0] : j \in surviving}
<1>1. surviving' = surviving \cup T /\ disk' = [disk EXCEPT !["erasing"] = 0] BY DEF Current
<1>2. disk' \in T BY <1>1 DEF Stored
<1>3. /\ disk'.final = disk.final /\ disk'.log = disk.log /\ disk'.tomb = disk.tomb
      /\ disk'.gen = disk.gen /\ disk'.erasing = 0 /\ disk'.root = disk.root
  BY <1>1 DEF Stored, Images
<1>4. ASSUME NEW j \in surviving
      PROVE  LET s == [j EXCEPT !["erasing"] = 0]
             IN Sound(j, disk') /\ s \in Images /\ Sound(s, disk')
  <2> DEFINE s == [j EXCEPT !["erasing"] = 0]
  <2>1. /\ disk \in Images /\ j \in Images /\ Sound(disk, disk) /\ Sound(j, disk)
        /\ disk.erasing < j.gen /\ disk.erasing < disk.gen
    BY DEF Stored
  <2>2. /\ s \in Images /\ s.final = j.final /\ s.log = j.log /\ s.tomb = j.tomb /\ s.gen = j.gen
        /\ s.erasing = 0 /\ s.root = j.root /\ s.scratch = j.scratch
    <3>1. 0 \in 0..MaxIncarnations BY MaxIncarnationsAssumption
    <3> QED BY <2>1, <3>1 DEF Images
  <2> HIDE DEF s
  <2>3. /\ j.gen \in Nat /\ j.erasing \in Nat /\ disk.gen \in Nat /\ disk.erasing \in Nat
        /\ j.gen > 0 /\ disk.gen > 0
    BY <2>1, MaxIncarnationsAssumption DEF Images
  <2>4. j.erasing <= disk.erasing /\ j.erasing # j.gen /\ j.erasing # disk.gen /\ disk.erasing # disk.gen
    BY <2>1, <2>3 DEF Sound
  <2>5. Sound(j, disk') BY <1>3, <2>1, <2>3, <2>4 DEF Sound
  <2>6. Alone(s) BY <2>1, <2>2, <2>3, <2>4 DEF Sound
  <2>7. Link(s, disk') BY <1>3, <2>1, <2>2, <2>3, <2>4 DEF Sound
  <2>8. Sound(s, disk') BY <2>6, <2>7 DEF Sound
  <2> QED BY <2>2, <2>5, <2>8 DEF s
<1>5. \A s \in T : s \in Images /\ Sound(s, disk') BY <1>4
<1> HIDE DEF T
<1> QED BY <1>1, <1>2, <1>4, <1>5, PutShape

\* Any image can be the one that a power loss leaves.
LEMMA LossStored ==
  ASSUME Stored, disk' \in surviving, surviving' = {disk'} PROVE Stored'
<1>1. ASSUME NEW j \in surviving PROVE Sound(j, j)
  <2>1. /\ disk \in Images /\ j \in Images /\ Sound(disk, disk) /\ Sound(j, disk) BY DEF Stored
  <2>2. j.gen \in Nat /\ j.erasing \in Nat BY <2>1 DEF Images
  <2>3. j.tomb.marks = "none" => j.tomb = NoTomb
    BY <2>1 DEF Sound, Images, Tombs, Marks
  <2>4. j.log.phase = "none" => j.log = NoLog BY <2>1 DEF Sound
  <2>5. j.root \notin Made => j.root \in {"none", "bare", "kept"} BY <2>1 DEF Images
  <2>6. LinkRoot(j, j) /\ LinkTomb(j, j) /\ LinkErasing(j, j)
    BY <2>1, <2>2, <2>3, <2>5 DEF Sound
  <2>7. LinkFinal(j, j) BY <2>1 DEF Sound
  <2>8. LinkLog(j, j) BY <2>4
  <2> QED BY <2>1, <2>6, <2>7, <2>8 DEF Sound
<1> QED BY <1>1 DEF Stored

LEMMA InitStored == ASSUME Init PROVE Stored
<1>1. disk = Empty /\ surviving = {Empty} BY DEF Init
<1>2. Empty \in Images
  <2>1. /\ 0 \in 0..Files /\ 0 \in 0..MaxScratch /\ 0 \in 0..MaxIncarnations
        /\ 1 \in 1..(MaxIncarnations + 1)
    BY FilesAssumption, ScratchAssumption, MaxIncarnationsAssumption
  <2> QED BY <2>1 DEF Empty, Images, NoTomb, NoLog, Tombs, Logs, Marks, Phases
<1>3. Alone(Empty) /\ Link(Empty, Empty) BY DEF Empty, NoTomb, NoLog
<1> QED BY <1>1, <1>2, <1>3 DEF Stored, Sound

-----------------------------------------------------------------------------
(* What a step does to the invocations beside it.                          *)

HIDE DEF Put, Move, PutDurably, Sync, Alone, Link, LinkRoot, LinkTomb, LinkFinal, LinkErasing,
         LinkLog, Vouched, VouchedBy, SealsCommitted, IsSealed, Made

\* No step takes an identity back, or the intent of a forget that has a directory.
Forward ==
  /\ disk.gen <= disk'.gen
  /\ \A s \in surviving' : \E j \in surviving : j.gen <= s.gen
  /\ disk'.gen = disk.gen =>
       /\ \/ disk.root \in {"kept", "bare"} => disk'.root \in {"kept", "bare"}
          \/ \A q \in Proc : named[q] # disk.gen
       /\ disk.erasing = disk.gen => disk'.erasing = disk.gen
  /\ disk'.erasing \in {disk.erasing, disk.gen, 0}

\* A step that a lock holder does not notice.
Aside ==
  /\ disk'.root = disk.root /\ disk'.log = disk.log /\ disk'.tomb = disk.tomb
  /\ disk'.scratch = disk.scratch /\ disk'.gen = disk.gen
  /\ disk'.erasing = disk.erasing \/ (disk'.erasing = 0 /\ disk.erasing < disk.gen)
  /\ \A s \in surviving' : \E j \in surviving :
       /\ s.log = j.log /\ (s.tomb = j.tomb \/ s.tomb = disk.tomb)
       /\ s.gen = j.gen \/ s.gen = disk.gen
       /\ s.erasing = j.erasing \/ s.erasing = disk.erasing \/ disk.erasing < disk.gen

Same(q) ==
  /\ pc'[q] = pc[q] /\ mode'[q] = mode[q] /\ event'[q] = event[q]
  /\ named'[q] = named[q] \/ (pc[q] = "idle" /\ named'[q] = 0)

LEMMA Generations ==
  ASSUME Stored PROVE /\ disk.gen \in Nat \ {0} /\ disk.erasing \in Nat
                      /\ \A j \in surviving : j.gen \in Nat \ {0} /\ j.erasing \in Nat /\ j.gen <= disk.gen
  BY MaxIncarnationsAssumption DEF Stored, Images, Sound, Link, LinkRoot

LEMMA AsideIsForward == ASSUME Stored, Aside PROVE Forward
<1>1. \A s \in surviving' : \E j \in surviving : j.gen <= s.gen
  BY Generations DEF Aside, Stored
<1> QED BY <1>1, Generations DEF Aside, Forward

Erasing == {"erase_open", "erase", "vanish", "look", "unmark", "report"}

\* What an invocation read of a forget stays true: it goes on, or is beside the step.
LEMMA ErasesKeeps ==
  ASSUME IInv, Stored', NEW q \in Proc, Forward,
         (pc'[q] = pc[q] /\ pc[q] # "erase") \/ pc'[q] \notin Erasing,
         named'[q] = named[q] \/ (pc'[q] = "idle" /\ named'[q] = 0)
  PROVE  Erases(q)'
<1>1. /\ Erases(q) /\ named[q] \in Nat
  BY DEF IInv, Progress, CallType
<1>2. disk'.gen \in Nat \ {0} /\ disk'.erasing \in Nat
  BY MaxIncarnationsAssumption DEF Stored, Images
<1>3. disk.gen \in Nat \ {0} /\ disk.erasing \in Nat BY Generations DEF IInv
<1>4. CASE named'[q] = 0 /\ pc'[q] = "idle"
  BY <1>2, <1>4 DEF Erases
<1>5. CASE named'[q] = named[q]
  <2>1. named[q] <= disk'.gen BY <1>1, <1>2, <1>3 DEF Erases, Forward
  <2>2. named[q] = disk'.gen => disk'.gen = disk.gen /\ named[q] = disk.gen
    BY <1>1, <1>2, <1>3 DEF Erases, Forward
  <2>3. named[q] = disk'.gen => disk'.root \in {"kept", "bare"}
    BY <1>1, <2>2 DEF Erases, Forward
  <2>4. pc[q] = "erase_open" /\ named[q] = disk'.gen => disk'.erasing = disk'.gen
    BY <1>1, <2>2 DEF Erases, Forward
  <2>5. pc[q] = "vanish" => named[q] < disk'.gen BY <1>1, <1>2, <1>3 DEF Erases, Forward
  <2>6. pc[q] \in {"look", "unmark", "report"} => \A s \in surviving' : named[q] < s.gen
    <3>1. SUFFICES ASSUME pc[q] \in {"look", "unmark", "report"}, NEW s \in surviving'
                   PROVE  named[q] < s.gen
      OBVIOUS
    <3>2. PICK j \in surviving : j.gen <= s.gen BY DEF Forward
    <3>3. s.gen \in Nat /\ j.gen \in Nat BY Generations DEF IInv, Stored, Images
    <3> QED BY <1>1, <3>1, <3>2, <3>3 DEF Erases
  <2>7. pc[q] = "report" => disk'.erasing # named[q]
    <3>1. pc[q] = "report" => named[q] # disk.gen /\ named[q] # 0 /\ named[q] # disk.erasing
      BY <1>1, Generations DEF Erases, IInv, Stored
    <3> QED BY <3>1 DEF Forward
  <2>8. CASE pc'[q] = pc[q] /\ pc[q] # "erase"
    BY <1>1, <1>5, <2>1, <2>3, <2>4, <2>5, <2>6, <2>7, <2>8 DEF Erases
  <2>9. CASE pc'[q] \notin Erasing BY <1>5, <2>1, <2>3, <2>9 DEF Erases, Erasing
  <2> QED BY <2>8, <2>9
<1> QED BY <1>4, <1>5

-----------------------------------------------------------------------------
(* What a write of some directories leaves as it was.                      *)

Keeps(parts, s, j) ==
  /\ "root" \notin parts => s.root = j.root
  /\ "log" \notin parts => s.log = j.log
  /\ "stage" \notin parts => s.stage = j.stage
  /\ "scratch" \notin parts => s.scratch = j.scratch
  /\ "tomb" \notin parts => s.tomb = j.tomb
  /\ "final" \notin parts =>
       s.final = IF "root" \in parts /\ j.final = "ours" /\ j.gen # disk.gen THEN "other" ELSE j.final
  /\ "erasing" \notin parts => s.erasing = j.erasing
  /\ s.gen = (IF "root" \in parts THEN disk.gen ELSE j.gen)

Writes(parts) ==
  /\ Keeps(parts, disk', disk)
  /\ \A s \in surviving' : \E j \in surviving : Keeps(parts, s, j) \/ s = j

Writable == {"root", "log", "stage", "final", "scratch", "tomb", "erasing"}

\* An image that is synced, before its new value.
LEMMA SyncedKeeps ==
  ASSUME disk \in Images, NEW j \in Images, NEW parts \in SUBSET Writable
  PROVE  Synced(j, parts) \in Images /\ Keeps(parts, Synced(j, parts), j)
<1>1. "gen" \notin parts BY DEF Writable
<1>2. CASE "root" \in parts
  BY <1>1, <1>2, SyncedRootFields DEF Keeps
<1>3. CASE "root" \notin parts
  BY <1>1, <1>3, SyncedFields DEF Keeps
<1> QED BY <1>2, <1>3

LEMMA WrittenKeeps ==
  ASSUME NEW c \in Images, NEW j, NEW parts \in SUBSET Writable, NEW part \in parts, NEW value,
         Keeps(parts, c, j)
  PROVE  Keeps(parts, [c EXCEPT ![part] = value], j) /\ [c EXCEPT ![part] = value][part] = value
  BY DEF Keeps, Writable, Images

LEMMA SyncWrites ==
  ASSUME Stored, NEW parts \in SUBSET Writable, Sync(parts) PROVE Writes(parts) /\ disk' = disk
<1>1. disk \in Images /\ surviving \subseteq Images BY DEF Stored
<1>2. Keeps(parts, disk, disk) BY DEF Keeps
<1>3. \A j \in surviving : Keeps(parts, Synced(j, parts), j) BY <1>1, SyncedKeeps
<1> QED BY <1>2, <1>3 DEF Writes, Sync

LEMMA PutWrites ==
  ASSUME Stored, NEW part \in Writable, NEW value, Put(part, value)
  PROVE  Writes({part}) /\ disk'[part] = value
<1>1. disk \in Images /\ surviving \subseteq Images BY DEF Stored
<1> DEFINE parts == {part}
<1>2. Keeps(parts, disk, disk) BY DEF Keeps
<1>3. \A j \in surviving : Current(j, parts) \in Images /\ Keeps(parts, Current(j, parts), j)
  BY <1>1, RenewedFields DEF Keeps, Current
<1>4. Keeps(parts, disk', disk) /\ disk'[part] = value
  <2>1. disk' = [disk EXCEPT ![part] = value] BY DEF Put
  <2>2. /\ Keeps(parts, [disk EXCEPT ![part] = value], disk)
        /\ [disk EXCEPT ![part] = value][part] = value
    BY <1>1, <1>2, WrittenKeeps
  <2> QED BY <2>1, <2>2, Zenon
<1>5. \A j \in surviving : Keeps(parts, [Current(j, parts) EXCEPT ![part] = value], j)
  BY <1>3, WrittenKeeps
<1> HIDE DEF parts
<1>6. surviving' = surviving \cup {[Current(j, parts) EXCEPT ![part] = value] : j \in surviving}
  BY DEF Put, parts
<1>7. \A s \in surviving' : \E j \in surviving : Keeps(parts, s, j) \/ s = j BY <1>5, <1>6
<1> QED BY <1>4, <1>7 DEF Writes, parts

LEMMA PutDurablyWrites ==
  ASSUME Stored, NEW part \in Writable, NEW value, PutDurably(part, value)
  PROVE  /\ Writes({part}) /\ disk'[part] = value
         /\ \A s \in surviving' : \E j \in surviving : Keeps({part}, s, j)
<1>1. disk \in Images /\ surviving \subseteq Images BY DEF Stored
<1> DEFINE parts == {part}
<1>2. Keeps(parts, disk, disk) BY DEF Keeps
<1>3. \A j \in surviving : Synced(j, parts) \in Images /\ Keeps(parts, Synced(j, parts), j)
  BY <1>1, SyncedKeeps
<1>4. Keeps(parts, disk', disk) /\ disk'[part] = value
  <2>1. disk' = [disk EXCEPT ![part] = value] BY DEF PutDurably
  <2>2. /\ Keeps(parts, [disk EXCEPT ![part] = value], disk)
        /\ [disk EXCEPT ![part] = value][part] = value
    BY <1>1, <1>2, WrittenKeeps
  <2> QED BY <2>1, <2>2, Zenon
<1>5. \A j \in surviving : Keeps(parts, [Synced(j, parts) EXCEPT ![part] = value], j)
  BY <1>3, WrittenKeeps
<1> HIDE DEF parts
<1>6. surviving' = {[Synced(j, parts) EXCEPT ![part] = value] : j \in surviving}
  BY DEF PutDurably, parts
<1>7. \A s \in surviving' : \E j \in surviving : Keeps(parts, s, j) BY <1>5, <1>6
<1>8. Writes(parts) BY <1>4, <1>7 DEF Writes
<1> QED BY <1>4, <1>7, <1>8 DEF parts

LEMMA MoveWrites ==
  ASSUME Stored, NEW from \in Writable, NEW left, NEW to \in Writable, NEW value,
         Move(from, left, to, value), from # to, "root" \notin {from, to}
  PROVE  Writes({from, to}) /\ disk'[from] = left /\ disk'[to] = value
<1>1. disk \in Images /\ surviving \subseteq Images BY DEF Stored
<1> DEFINE parts == {from, to}
           moved(j) == [j EXCEPT ![from] = left, ![to] = value]
<1>2. \A j \in Images : Keeps(parts, moved(j), j) /\ moved(j)[from] = left /\ moved(j)[to] = value
  BY DEF Keeps, Writable, Images
<1>3. disk' = moved(disk) /\ surviving' = surviving \cup {moved(j) : j \in surviving}
  BY DEF Move
<1> HIDE DEF parts, moved
<1>4. \A s \in surviving' : \E j \in surviving : Keeps(parts, s, j) \/ s = j BY <1>1, <1>2, <1>3
<1> QED BY <1>1, <1>2, <1>3, <1>4 DEF Writes, parts

\* What the writes of a lock holder keep of the journal, and of the identities.
LEMMA LogStays ==
  ASSUME NEW parts, Writes(parts), "log" \notin parts, LogIsDurable
  PROVE  LogIsDurable'
  BY DEF Writes, Keeps, LogIsDurable

LEMMA WritesForward ==
  ASSUME Stored, NEW parts \in SUBSET Writable, Writes(parts),
         disk'.root = disk.root \/ disk'.root \in {"kept", "bare"} \/ \A q \in Proc : named[q] # disk.gen,
         "erasing" \in parts => disk'.erasing = disk.gen \/ disk'.erasing = disk.erasing
  PROVE  Forward /\ disk'.gen = disk.gen
<1>1. disk'.gen = disk.gen BY DEF Writes, Keeps
<1>2. disk.gen \in Nat /\ \A j \in surviving : j.gen \in Nat BY Generations
<1>3. \A s \in surviving' : \E j \in surviving : j.gen <= s.gen
  BY <1>2 DEF Writes, Keeps, Stored
<1>4. disk'.erasing = disk.gen \/ disk'.erasing = disk.erasing BY DEF Writes, Keeps
<1> QED BY <1>1, <1>2, <1>3, <1>4 DEF Forward

\* What needs no lock.
LEMMA StutterAside == ASSUME Stored, UNCHANGED diskVars PROVE Aside
  BY DEF diskVars, Aside

LEMMA PutFinalAside == ASSUME Stored, NEW value, Put("final", value) PROVE Aside
<1>1. Writes({"final"}) BY PutWrites DEF Writable
<1> QED BY <1>1 DEF Writes, Keeps, Aside

LEMMA SyncTargetFields ==
  ASSUME Stored, SyncTarget
  PROVE  /\ disk' = disk
         /\ \A s \in surviving' : /\ s.root = disk.root /\ s.gen = disk.gen /\ s.final = disk.final
                                  /\ s.tomb = disk.tomb /\ s.erasing = disk.erasing
                                  /\ \E j \in surviving : s.log = j.log
<1> DEFINE parts == {"root", "final", "erasing", "tomb"}
<1>1. surviving' = {Synced(j, parts) : j \in surviving} /\ disk' = disk BY DEF SyncTarget, Sync
<1>2. disk \in Images /\ surviving \subseteq Images BY DEF Stored
<1>3. \A j \in surviving : LET s == Synced(j, parts) IN
        /\ s.root = disk.root /\ s.gen = disk.gen /\ s.final = disk.final
        /\ s.tomb = disk.tomb /\ s.erasing = disk.erasing /\ s.log = j.log
  BY <1>2, SyncedRootFields
<1> QED BY <1>1, <1>3

LEMMA SyncTargetAside == ASSUME Stored, SyncTarget PROVE Aside
  BY SyncTargetFields DEF Aside

LEMMA UnmarkAside ==
  ASSUME Stored, Put("erasing", 0), disk.erasing < disk.gen PROVE Aside
<1>1. Writes({"erasing"}) /\ disk'["erasing"] = 0 BY PutWrites DEF Writable
<1> QED BY <1>1 DEF Writes, Keeps, Aside

LEMMA SyncTombFields ==
  ASSUME Stored, SyncTomb
  PROVE  /\ Writes({"tomb", "root"}) /\ disk' = disk
         /\ \A s \in surviving' : s.root = disk.root /\ s.tomb = disk.tomb
<1> DEFINE parts == {"tomb", "root"}
<1>1. surviving' = {Synced(j, parts) : j \in surviving} /\ disk' = disk BY DEF SyncTomb, Sync
<1>2. disk \in Images /\ surviving \subseteq Images BY DEF Stored
<1>3. \A j \in surviving : LET s == Synced(j, parts) IN s.root = disk.root /\ s.tomb = disk.tomb
  BY <1>2, SyncedRootFields
<1>4. Writes(parts) BY SyncWrites DEF Writable, SyncTomb
<1> QED BY <1>1, <1>3, <1>4

LEMMA SyncJournalFields ==
  ASSUME Stored, SyncJournal
  PROVE  /\ Writes({"log", "scratch"}) /\ disk' = disk /\ LogIsDurable'
         /\ \A s \in surviving' : s.scratch = disk.scratch
<1> DEFINE parts == {"log", "scratch"}
<1>1. surviving' = {Synced(j, parts) : j \in surviving} /\ disk' = disk BY DEF SyncJournal, Sync
<1>2. disk \in Images /\ surviving \subseteq Images BY DEF Stored
<1>3. \A j \in surviving : LET s == Synced(j, parts) IN s.log = disk.log /\ s.scratch = disk.scratch
  BY <1>2, SyncedFields
<1>4. Writes(parts) BY SyncWrites DEF Writable, SyncJournal
<1> QED BY <1>1, <1>3, <1>4 DEF LogIsDurable

-----------------------------------------------------------------------------
(* The invocations beside a step.                                          *)

\* The holder of the lock is alone in the operation directory.
LEMMA HolderAlone ==
  ASSUME IInv, NEW p \in Proc, pc[p] \in Locked
  PROVE  lock = p /\ \A q \in Proc \ {p} : pc[q] \notin Locked \cup {"tree"}
<1>1. lock = p /\ \A q \in Proc : pc[q] \in Locked => lock = q BY DEF IInv, LockType
<1>2. \A q \in Proc : pc[q] = "tree" => lock = Nobody BY DEF IInv, Progress, Making
<1> QED BY <1>1, <1>2, NobodyAssumption

\* A free lock: nobody is past it; and nobody is about to take it in a directory
\* that has its lock file, or that is not there.
LEMMA FreeAlone ==
  ASSUME IInv, lock = Nobody
  PROVE  /\ \A q \in Proc : pc[q] \notin Locked
         /\ disk.root # "bare" => \A q \in Proc : pc[q] # "tree"
<1>1. \A q \in Proc : pc[q] \in Locked => lock = q BY DEF IInv, LockType
<1>2. \A q \in Proc : pc[q] = "tree" => disk.root = "bare" BY DEF IInv, Progress, Making
<1> QED BY <1>1, <1>2, NobodyAssumption

LEMMA FreeKeeps ==
  ASSUME IInv, Stored', Forward, NEW q \in Proc, Same(q), pc[q] \notin Locked \cup {"tree"}
  PROVE  Progress(q)'
<1>1. Erases(q)'
  <2>1. pc[q] # "erase" BY DEF Locked, RetentionHolding
  <2> QED BY <2>1, ErasesKeeps DEF Same
<1>2. pc[q] \notin Holding \cup RetentionHolding /\ pc[q] # "tree" BY DEF Locked
<1>3. Making(q)' BY <1>2 DEF Making, Same
<1>4. Materializes(q)' BY <1>2 DEF Materializes, Same, Holding
<1>5. Buries(q)'
  <2>1. Buries(q) BY DEF IInv, Progress
  <2> QED BY <1>2, <2>1 DEF Buries, Same, RetentionHolding
<1> QED BY <1>1, <1>3, <1>4, <1>5 DEF Progress

LEMMA AsideKeeps ==
  ASSUME IInv, Stored', Aside, NEW q \in Proc, Same(q),
         pc[q] = "tree" =>
           /\ lock' = Nobody
           /\ \A r \in Proc : named'[r] # disk.gen /\ (pc'[r] = "tree" => r = q)
  PROVE  Progress(q)'
<1> USE DEF Aside
<1>1. Progress(q) /\ Stored BY DEF IInv
<1>2. /\ disk.gen \in Nat \ {0} /\ disk.erasing \in Nat /\ disk \in surviving
  BY <1>1, Generations DEF Stored
<1>3. Making(q)' BY <1>1, <1>2 DEF Making, Same, Progress
<1>4. LogIsDurable => LogIsDurable' BY DEF LogIsDurable
<1>5. Materializes(q)' BY <1>1, <1>4 DEF Materializes, Same, Progress
<1>6. Forward BY <1>1, AsideIsForward
<1>7. Erases(q)'
  <2>1. CASE pc[q] # "erase" BY <1>6, <2>1, ErasesKeeps DEF Same
  <2>2. CASE pc[q] = "erase"
    <3>1. named[q] = disk.gen /\ \A j \in surviving : j.gen = disk.gen /\ j.erasing = disk.gen
      BY <1>1, <2>2 DEF Progress, Erases
    <3>2. disk.erasing = disk.gen BY <1>2, <3>1
    <3>3. disk'.gen = disk.gen /\ disk'.erasing = disk.gen /\ disk'.root = disk.root BY <1>2, <3>2
    <3>4. \A s \in surviving' : s.gen = disk.gen /\ s.erasing = disk.gen BY <1>2, <3>1, <3>2
    <3>5. named'[q] = disk.gen /\ pc'[q] = "erase" BY <2>2, <3>1 DEF Same
    <3>6. disk.root \in {"kept", "bare"} BY <1>1, <3>1 DEF Progress, Erases
    <3>7. named'[q] # 0 BY <1>2, <3>5
    <3> QED BY <1>2, <3>3, <3>4, <3>5, <3>6, <3>7 DEF Erases
  <2> QED BY <2>1, <2>2
<1>8. Buries(q)'
  <2>1. Buries(q) BY <1>1 DEF Progress
  <2>2. pc[q] # "idle" => named'[q] = named[q] /\ mode'[q] = mode[q] BY DEF Same
  <2>3. Marking(q) /\ pc[q] # "idle" => Marking(q)' BY <2>2 DEF Marking
  <2>4. Marked(q) /\ pc[q] # "idle" => Marked(q)' BY <1>2, <2>2 DEF Marked
  <2>5. pc[q] # "idle" => Target(q)' = Target(q) BY <2>2 DEF Target
  <2>6. (\A j \in surviving : j.tomb = disk.tomb) => \A s \in surviving' : s.tomb = disk'.tomb OBVIOUS
  <2>7. pc'[q] = pc[q] BY DEF Same
  <2> QED BY <2>1, <2>2, <2>3, <2>4, <2>5, <2>6, <2>7 DEF Buries
<1> QED BY <1>3, <1>5, <1>7, <1>8 DEF Progress

-----------------------------------------------------------------------------
(* One step of one invocation, put together.                               *)

Histories == taken' \in BOOLEAN /\ hasty' \in BOOLEAN

\* The event it writes next, and whether it saw the final name synced.
Records(p) ==
  /\ event' = event \/ \E e \in Logs : event' = [event EXCEPT ![p] = e]
  /\ durable' = durable \/ durable' = [durable EXCEPT ![p] = TRUE]

\* A step of p: what the others have, and what they have read, stays.
Steady(p) ==
  /\ \A q \in Proc \ {p} : Same(q)
  /\ \A q \in Proc : named'[q] \in {named[q], 0}

LEMMA GotoCalls ==
  ASSUME IInv, NEW p \in Proc, NEW step \in Steps \ {"idle"}, Goto(p, step), Unname, Records(p), Histories
  PROVE  /\ CallType' /\ Steady(p)
         /\ pc'[p] = step /\ mode'[p] = mode[p] /\ named'[p] = named[p]
<1>1. CallType BY DEF IInv
<1>2. pc' = [pc EXCEPT ![p] = step] /\ mode' = mode /\ outcome' = outcome BY DEF Goto
<1>3. named' = [q \in Proc |-> IF pc'[q] = "idle" THEN 0 ELSE named[q]] BY DEF Unname
<1>4. pc' \in [Proc -> Steps] BY <1>1, <1>2 DEF CallType
<1>5. named' \in [Proc -> 0..MaxIncarnations] BY <1>1, <1>3, MaxIncarnationsAssumption DEF CallType
<1>6. event' \in [Proc -> Logs] BY <1>1 DEF CallType, Records
<1>7. durable' \in [Proc -> BOOLEAN] BY <1>1, Zenon DEF CallType, Records
<1>8. CallType' BY <1>1, <1>2, <1>4, <1>5, <1>6, <1>7 DEF CallType, Histories
<1>9. \A q \in Proc \ {p} : pc'[q] = pc[q] /\ event'[q] = event[q]
  BY <1>1, <1>2 DEF CallType, Records
<1>10. pc'[p] = step BY <1>1, <1>2 DEF CallType
<1>11. Steady(p) BY <1>2, <1>3, <1>9 DEF Steady, Same
<1> QED BY <1>2, <1>3, <1>8, <1>10, <1>11

LEMMA ReturnCalls ==
  ASSUME IInv, NEW p \in Proc, NEW o \in Outcomes, Return(p, o), Unname, Histories
  PROVE  CallType' /\ Steady(p) /\ pc'[p] = "idle" /\ named'[p] = 0
<1>1. CallType BY DEF IInv
<1>2. /\ pc' = [pc EXCEPT ![p] = "idle"] /\ mode' = [mode EXCEPT ![p] = "status"]
      /\ event' = [event EXCEPT ![p] = NoLog] /\ durable' = [durable EXCEPT ![p] = FALSE]
      /\ outcome' = [outcome EXCEPT ![p] = o]
  BY DEF Return
<1>3. named' = [q \in Proc |-> IF pc'[q] = "idle" THEN 0 ELSE named[q]] BY DEF Unname
<1>4. pc' \in [Proc -> Steps] BY <1>1, <1>2 DEF CallType, Steps, Unlocked
<1>5. named' \in [Proc -> 0..MaxIncarnations] BY <1>1, <1>3, MaxIncarnationsAssumption DEF CallType
<1>6. NoLog \in Logs BY FilesAssumption DEF NoLog, Logs, Phases
<1>7. /\ event' \in [Proc -> Logs] /\ durable' \in [Proc -> BOOLEAN]
      /\ mode' \in [Proc -> Modes \cup RetentionModes]
  BY <1>1, <1>2, <1>6 DEF CallType, Modes
<1>8. outcome' \in [Proc -> Outcomes] BY <1>1, <1>2 DEF CallType
<1>9. CallType' BY <1>4, <1>5, <1>7, <1>8 DEF CallType, Histories
<1>10. pc'[p] = "idle" BY <1>1, <1>2 DEF CallType
<1>11. \A q \in Proc \ {p} : pc'[q] = pc[q] /\ event'[q] = event[q] /\ mode'[q] = mode[q]
  BY <1>1, <1>2 DEF CallType
<1>12. Steady(p) BY <1>3, <1>11 DEF Steady, Same
<1> QED BY <1>3, <1>9, <1>10, <1>12

\* How the lock changes hands.
LockStep(p) ==
  \/ lock' = lock /\ (pc'[p] \in Locked <=> pc[p] \in Locked)
  \/ lock = Nobody /\ lock' = p /\ pc'[p] \in Locked
  \/ lock = p /\ lock' = Nobody /\ pc'[p] \notin Locked

LEMMA LockKeeps ==
  ASSUME IInv, NEW p \in Proc, Steady(p), LockStep(p) PROVE LockType'
<1>1. LockType BY DEF IInv
<1>2. \A q \in Proc \ {p} : pc'[q] = pc[q] BY DEF Steady, Same
<1> QED BY <1>1, <1>2, NobodyAssumption DEF LockType, LockStep

LEMMA IdleKeeps ==
  ASSUME Stored', NEW p \in Proc, pc'[p] = "idle", named'[p] = 0 PROVE Progress(p)'
<1>1. disk'.gen \in Nat \ {0} BY MaxIncarnationsAssumption DEF Stored, Images
<1>2. Erases(p)' BY <1>1 DEF Erases
<1>3. Making(p)' /\ Materializes(p)' /\ Buries(p)' BY DEF Making, Materializes, Buries, Holding
<1> QED BY <1>2, <1>3 DEF Progress

\* The holder of the lock goes on ...
LEMMA HolderGoes ==
  ASSUME IInv, NEW p \in Proc, pc[p] \in Locked, NEW step \in Locked, Goto(p, step), Unname,
         Records(p), Histories, lock' = lock, Stored', Forward, Progress(p)'
  PROVE  IInv'
<1>1. step \in Steps \ {"idle"} BY DEF Steps, Locked, Holding, RetentionHolding
<1>2. CallType' /\ Steady(p) /\ pc'[p] = step BY <1>1, GotoCalls
<1>3. LockType' BY <1>2, LockKeeps DEF LockStep
<1>4. \A q \in Proc \ {p} : Progress(q)' BY <1>2, HolderAlone, FreeKeeps DEF Steady
<1> QED BY <1>2, <1>3, <1>4 DEF IInv

\* ... takes it, with nobody else about to ...
LEMMA TakerGoes ==
  ASSUME IInv, NEW p \in Proc, lock = Nobody, NEW step \in Locked, Goto(p, step), Unname,
         Records(p), Histories, lock' = p, Stored', Forward, Progress(p)',
         \A q \in Proc \ {p} : pc[q] # "tree"
  PROVE  IInv'
<1>1. step \in Steps \ {"idle"} BY DEF Steps, Locked, Holding, RetentionHolding
<1>2. CallType' /\ Steady(p) /\ pc'[p] = step BY <1>1, GotoCalls
<1>3. LockType' BY <1>2, LockKeeps DEF LockStep
<1>4. \A q \in Proc \ {p} : Progress(q)' BY <1>2, FreeAlone, FreeKeeps DEF Steady
<1> QED BY <1>2, <1>3, <1>4 DEF IInv

\* ... or ends.
LEMMA HolderReturns ==
  ASSUME IInv, NEW p \in Proc, pc[p] \in Locked, NEW o \in Outcomes, Return(p, o), Unname,
         Histories, Stored', Forward
  PROVE  IInv'
<1>1. CallType' /\ Steady(p) /\ pc'[p] = "idle" /\ named'[p] = 0 BY ReturnCalls
<1>2. lock = p /\ \A q \in Proc \ {p} : pc[q] \notin Locked \cup {"tree"} BY HolderAlone
<1>3. lock' = Nobody BY <1>2 DEF Return
<1>4. LockType' BY <1>1, <1>2, <1>3, LockKeeps DEF LockStep, Locked, Holding, RetentionHolding
<1>5. \A q \in Proc \ {p} : Progress(q)' BY <1>1, <1>2, FreeKeeps DEF Steady
<1>6. Progress(p)' BY <1>1, IdleKeeps
<1> QED BY <1>1, <1>4, <1>5, <1>6 DEF IInv

\* Others beside a step that needs no lock.
LEMMA AsideOthers ==
  ASSUME IInv, NEW p \in Proc, Stored', Aside, Steady(p), pc'[p] # "tree",
         lock = Nobody => lock' = Nobody
  PROVE  \A q \in Proc \ {p} : Progress(q)'
<1>1. SUFFICES ASSUME NEW q \in Proc \ {p} PROVE Progress(q)' OBVIOUS
<1>2. Same(q) BY DEF Steady
<1>3. ASSUME pc[q] = "tree"
      PROVE  /\ lock' = Nobody
             /\ \A r \in Proc : named'[r] # disk.gen /\ (pc'[r] = "tree" => r = q)
  <2>1. lock = Nobody /\ \A r \in Proc : named[r] # disk.gen /\ (pc[r] = "tree" => r = q)
    BY <1>3 DEF IInv, Progress, Making
  <2>2. disk.gen # 0 BY Generations DEF IInv
  <2> QED BY <2>1, <2>2 DEF Steady, Same
<1> QED BY <1>2, <1>3, AsideKeeps

LEMMA AsideGoes ==
  ASSUME IInv, NEW p \in Proc, pc[p] \notin Locked, NEW step \in Steps \ (Locked \cup {"idle", "tree"}),
         Goto(p, step), Unname, Records(p), Histories, lock' = lock, Stored', Aside, Progress(p)'
  PROVE  IInv'
<1>1. CallType' /\ Steady(p) /\ pc'[p] = step BY GotoCalls
<1>2. LockType' BY <1>1, LockKeeps DEF LockStep
<1>3. \A q \in Proc \ {p} : Progress(q)' BY <1>1, AsideOthers
<1> QED BY <1>1, <1>2, <1>3 DEF IInv

LEMMA AsideReturns ==
  ASSUME IInv, NEW p \in Proc, NEW o \in Outcomes, Return(p, o), Unname, Histories, Stored', Aside
  PROVE  IInv'
<1>1. CallType' /\ Steady(p) /\ pc'[p] = "idle" /\ named'[p] = 0 BY ReturnCalls
<1>2. lock' = IF lock = p THEN Nobody ELSE lock BY DEF Return
<1>3. "idle" \notin Locked BY DEF Locked, Holding, RetentionHolding
<1>4. pc[p] \in Locked <=> lock = p BY DEF IInv, LockType
<1>5. LockType' BY <1>1, <1>2, <1>3, <1>4, LockKeeps DEF LockStep
<1>6. \A q \in Proc \ {p} : Progress(q)' BY <1>1, <1>2, AsideOthers, NobodyAssumption
<1>7. Progress(p)' BY <1>1, IdleKeeps
<1> QED BY <1>1, <1>5, <1>6, <1>7 DEF IInv

\* What an invocation holding the lock of run, resume or abandon has to know.
LEMMA HoldingKeeps ==
  ASSUME IInv, Stored', Forward, NEW p \in Proc, pc'[p] \in Holding, named'[p] = named[p],
         Materializes(p)'
  PROVE  Progress(p)'
<1>1. Erases(p)' BY ErasesKeeps DEF Holding, Erasing
<1>2. Making(p)' /\ Buries(p)' BY DEF Making, Buries, Holding
<1> QED BY <1>1, <1>2 DEF Progress

-----------------------------------------------------------------------------
(* Materializing: an invocation that does not hold the lock.               *)

LEMMA GotoFields ==
  ASSUME IInv, NEW p \in Proc, NEW step, Goto(p, step)
  PROVE  pc'[p] = step /\ mode'[p] = mode[p] /\ (Unname /\ step # "idle" => named'[p] = named[p])
  BY DEF IInv, CallType, Goto, Unname

LEMMA UnchangedStored == ASSUME Stored, UNCHANGED diskVars PROVE Stored'
  BY DEF diskVars, Stored

LEMMA PlainKeeps ==
  ASSUME IInv, Stored', Forward, NEW p \in Proc, pc'[p] \in {"check", "mkdir", "open"},
         named'[p] = named[p]
  PROVE  Progress(p)'
<1>1. Erases(p)' BY ErasesKeeps DEF Erasing
<1>2. Making(p)' /\ Materializes(p)' /\ Buries(p)' BY DEF Making, Materializes, Buries, Holding
<1> QED BY <1>1, <1>2 DEF Progress

LEMMA IdleReturns ==
  ASSUME IInv, NEW p \in Proc, NEW o \in Outcomes, Return(p, o), Unname, Histories, UNCHANGED diskVars
  PROVE  IInv'
<1>1. Stored BY DEF IInv
<1> QED BY <1>1, UnchangedStored, StutterAside, AsideReturns

\* Every command begins without a lock.
LEMMA StartKeeps ==
  ASSUME IInv, NEW p \in Proc, Start(p) \/ StartRetention(p), Unname, Histories PROVE IInv'
<1>1. Stored /\ CallType /\ LockType BY DEF IInv
<1>2. /\ pc[p] = "idle" /\ UNCHANGED <<diskVars, lock, event, durable, taken>>
      /\ outcome' = [outcome EXCEPT ![p] = "none"]
  BY DEF Start, StartRetention
<1>3. PICK step \in {"check", "open", "prune_open", "forget_read"}, m \in Modes \cup RetentionModes :
        /\ pc' = [pc EXCEPT ![p] = step] /\ mode' = [mode EXCEPT ![p] = m]
        /\ step = "prune_open" => m = "prune"
        /\ step = "forget_read" => m = "forget"
  <2>1. CASE Start(p) BY <2>1 DEF Start
  <2>2. CASE StartRetention(p) BY <2>2 DEF StartRetention, RetentionModes
  <2> QED BY <2>1, <2>2
<1>4. Stored' /\ Aside BY <1>1, <1>2, UnchangedStored, StutterAside
<1>5. named' = [q \in Proc |-> IF pc'[q] = "idle" THEN 0 ELSE named[q]] BY DEF Unname
<1>6. CallType'
  <2>1. pc' \in [Proc -> Steps] /\ mode' \in [Proc -> Modes \cup RetentionModes]
    BY <1>1, <1>3 DEF CallType, Steps, Unlocked, RetentionUnlocked
  <2>2. named' \in [Proc -> 0..MaxIncarnations] BY <1>1, <1>5, MaxIncarnationsAssumption DEF CallType
  <2>3. outcome' \in [Proc -> Outcomes] BY <1>1, <1>2 DEF CallType, Outcomes
  <2> QED BY <1>1, <1>2, <2>1, <2>2, <2>3 DEF CallType, Histories
<1>7. Steady(p) BY <1>1, <1>2, <1>3, <1>5 DEF Steady, Same, CallType
<1>8. pc'[p] = step /\ mode'[p] = m /\ named'[p] = named[p] BY <1>1, <1>3, <1>5 DEF CallType
<1>9. "idle" \notin Locked /\ step \notin Locked BY DEF Locked, Holding, RetentionHolding
<1>10. LockType' BY <1>2, <1>7, <1>8, <1>9, LockKeeps DEF LockStep
<1>11. \A q \in Proc \ {p} : Progress(q)' BY <1>2, <1>4, <1>7, <1>8, AsideOthers
<1>12. Progress(p)'
  <2>1. Forward BY <1>1, <1>4, AsideIsForward
  <2>2. Erases(p)' BY <1>4, <1>8, <2>1, ErasesKeeps DEF Erasing
  <2>3. Making(p)' /\ Materializes(p)' BY <1>8 DEF Making, Materializes, Holding
  <2>4. Buries(p)' BY <1>3, <1>8 DEF Buries
  <2> QED BY <2>2, <2>3, <2>4 DEF Progress
<1> QED BY <1>4, <1>6, <1>10, <1>11, <1>12 DEF IInv

LEMMA CheckFinalKeeps ==
  ASSUME IInv, NEW p \in Proc, CheckFinal(p), Unname, Histories PROVE IInv'
<1>1. UNCHANGED diskVars /\ pc[p] = "check" BY DEF CheckFinal
<1>2. CASE Return(p, "none") BY <1>1, <1>2, IdleReturns DEF Outcomes
<1>3. CASE Goto(p, "mkdir") /\ UNCHANGED <<lock, event, durable>>
  <2>1. Stored /\ Stored' /\ Aside /\ Forward
    BY <1>1, UnchangedStored, StutterAside, AsideIsForward DEF IInv
  <2>2. Records(p) BY <1>3 DEF Records
  <2>3. pc[p] \notin Locked /\ "mkdir" \in Steps \ (Locked \cup {"idle", "tree"})
    BY <1>1 DEF Locked, Holding, RetentionHolding, Steps, Unlocked
  <2>4. pc'[p] = "mkdir" /\ named'[p] = named[p] BY <1>3, GotoFields
  <2>5. Progress(p)' BY <2>1, <2>4, PlainKeeps
  <2> QED BY <1>3, <2>1, <2>2, <2>3, <2>5, AsideGoes
<1> QED BY <1>2, <1>3 DEF CheckFinal

LEMMA RetainedOpenKeeps ==
  ASSUME IInv, NEW p \in Proc, OpenRetained(p) \/ Crash(p), Unname, Histories PROVE IInv'
  BY IdleReturns DEF OpenRetained, Crash, Outcomes

\* Nobody has anything to do in a directory that is not there.
LEMMA AbsentAlone ==
  ASSUME IInv, disk.root = "none"
  PROVE  /\ \A q \in Proc : pc[q] \notin Locked \cup {"tree"} /\ named[q] # disk.gen
         /\ disk.erasing # disk.gen
<1>1. SUFFICES ASSUME NEW q \in Proc PROVE pc[q] \notin Locked \cup {"tree"} /\ named[q] # disk.gen
  BY DEF IInv, Stored, Sound, Alone
<1>2. Making(q) /\ Materializes(q) /\ Buries(q) /\ Erases(q) BY DEF IInv, Progress
<1>3. disk.tomb = NoTomb /\ NoTomb.marks = "none" BY DEF IInv, Stored, Sound, Alone, NoTomb
<1>4. named[q] # disk.gen BY <1>2 DEF Erases
<1>5. pc[q] \notin Holding /\ pc[q] # "tree" BY <1>2 DEF Making, Materializes
<1>6. pc[q] \notin RetentionHolding
  BY <1>2, <1>3, <1>4 DEF Buries, Erases, Marking, Marked, RetentionHolding
<1> QED BY <1>4, <1>5, <1>6 DEF Locked

LEMMA MakeRootKeeps ==
  ASSUME IInv, NEW p \in Proc, BoundedMakeRoot(p), Unname, Histories PROVE IInv'
<1>1. pc[p] = "mkdir" /\ disk.gen \in Incarnations BY DEF BoundedMakeRoot, MakeRoot
<1>2. CASE Return(p, "none") /\ UNCHANGED diskVars BY <1>2, IdleReturns DEF Outcomes
<1>3. CASE disk.root = "none" /\ Put("root", "bare") /\ Goto(p, "tree") /\ UNCHANGED <<lock, event, durable>>
  <2>1. Stored BY DEF IInv
  <2>2. Stored' BY <1>1, <1>3, <2>1, MakeRootStored
  <2>3. Writes({"root"}) /\ disk'["root"] = "bare" BY <1>3, <2>1, PutWrites DEF Writable
  <2>4. disk'.root = "bare" /\ disk'.gen = disk.gen /\ disk'.erasing = disk.erasing
    BY <2>3 DEF Writes, Keeps
  <2>5. /\ \A q \in Proc : pc[q] \notin Locked \cup {"tree"} /\ named[q] # disk.gen
        /\ disk.erasing # disk.gen
    BY <1>3, AbsentAlone
  <2>6. Forward BY <2>1, <2>3, <2>4, <2>5, WritesForward DEF Writable
  <2>7. Records(p) BY <1>3 DEF Records
  <2>8. CallType' /\ Steady(p) /\ pc'[p] = "tree" /\ named'[p] = named[p]
    <3>1. "tree" \in Steps \ {"idle"} BY DEF Steps, Unlocked
    <3> QED BY <1>3, <2>7, <3>1, GotoCalls
  <2>9. lock = Nobody
    <3>1. \A q \in Proc : lock # q BY <2>5 DEF IInv, LockType
    <3> QED BY <3>1 DEF IInv, LockType
  <2>10. LockType'
    <3>1. "tree" \notin Locked BY DEF Locked, Holding, RetentionHolding
    <3> QED BY <1>3, <2>5, <2>8, <3>1, LockKeeps DEF LockStep
  <2>11. \A q \in Proc \ {p} : Progress(q)' BY <2>2, <2>5, <2>6, <2>8, FreeKeeps DEF Steady
  <2>12. Progress(p)'
    <3>1. \A q \in Proc : named'[q] # disk.gen
      <4>1. disk.gen # 0 BY <2>1, Generations
      <4> QED BY <2>5, <2>8, <4>1 DEF Steady
    <3>2. Making(p)' BY <1>3, <2>4, <2>5, <2>8, <2>9, <3>1 DEF Making, Steady, Same
    <3>3. Materializes(p)' /\ Buries(p)' BY <2>8 DEF Materializes, Buries, Holding
    <3>4. Erases(p)' BY <2>2, <2>6, <2>8, ErasesKeeps DEF Erasing
    <3> QED BY <3>2, <3>3, <3>4 DEF Progress
  <2> QED BY <2>2, <2>8, <2>10, <2>11, <2>12 DEF IInv
<1> QED BY <1>2, <1>3 DEF BoundedMakeRoot, MakeRoot

-----------------------------------------------------------------------------
(* Materializing: the holder of the lock.                                  *)

\* What it knows.
LEMMA HoldingFacts ==
  ASSUME IInv, NEW p \in Proc, pc[p] \in Holding
  PROVE  /\ Stored /\ disk \in Images /\ Materializes(p) /\ pc[p] \in Locked /\ lock = p
         /\ disk.root = (IF pc[p] = "intent" THEN "tree" ELSE "intent") /\ disk.tomb.marks = "none"
         /\ disk.log \in Logs
BY HolderAlone DEF IInv, Progress, Materializes, Locked, Stored, Images

\* It goes on to a step of its own.
LEMMA HoldingGoes ==
  ASSUME IInv, NEW p \in Proc, pc[p] \in Holding, NEW step \in Holding, Goto(p, step), Unname,
         Records(p), Histories, lock' = lock, Stored', Forward, Materializes(p)'
  PROVE  IInv'
<1>1. pc[p] \in Locked /\ step \in Locked BY DEF Locked
<1>2. pc'[p] = step /\ named'[p] = named[p]
  <2>1. step # "idle" BY DEF Holding
  <2> QED BY <2>1, GotoFields
<1>3. Progress(p)' BY <1>2, HoldingKeeps
<1> QED BY <1>1, <1>3, HolderGoes

\* It writes an event next, which fits the one that it has.
LEMMA AppendKeeps ==
  ASSUME IInv, NEW p \in Proc, pc[p] \in Holding, NEW phase \in Phases \ {"none"},
         NEW staged \in 0..Files, Append(p, phase, staged), Unname, Histories, lock' = lock,
         durable' = durable \/ durable' = [durable EXCEPT ![p] = TRUE],
         Stored', Forward, LogIsDurable', disk'.root = "intent", disk'.tomb.marks = "none",
         disk'.log.phase \notin Terminal, disk'.log.phase \in Publishing => phase \in Publishing,
         phase = "committed" => disk'.scratch = 0
  PROVE  IInv'
<1>1. Goto(p, "reserve") /\ event' = [event EXCEPT ![p] = [phase |-> phase, staged |-> staged]]
  BY DEF Append
<1>2. [phase |-> phase, staged |-> staged] \in Logs BY DEF Logs
<1>3. Records(p) BY <1>1, <1>2 DEF Records
<1>4. pc'[p] = "reserve" BY <1>1, GotoFields
<1>5. event'[p].phase = phase BY <1>1 DEF IInv, CallType
<1>6. Materializes(p)' BY <1>4, <1>5 DEF Materializes
<1>7. "reserve" \in Holding BY DEF Holding
<1> QED BY <1>1, <1>3, <1>6, <1>7, HoldingGoes

\* A step that leaves the disk as it is, and syncs what is no journal.
Looks ==
  \/ UNCHANGED diskVars
  \/ SyncStage /\ disk.log.phase # "committed"
  \/ SyncRoot /\ disk.log.phase \in Publishing

LEMMA LooksKeeps ==
  ASSUME IInv, NEW p \in Proc, pc[p] \in Holding \ {"intent", "confirm", "reconfirm"}, Looks
  PROVE  Stored' /\ Forward /\ LogIsDurable' /\ disk' = disk
<1>1. /\ Stored /\ LogIsDurable /\ disk.root = "intent" /\ disk.tomb.marks = "none"
  BY HoldingFacts DEF Materializes
<1>2. CASE UNCHANGED diskVars
  BY <1>1, <1>2, UnchangedStored, StutterAside, AsideIsForward DEF diskVars, LogIsDurable
<1>3. CASE SyncStage /\ disk.log.phase # "committed"
  <2>1. Stored' BY <1>1, <1>3, SyncStageStored
  <2>2. {"stage", "scratch"} \in SUBSET Writable BY DEF Writable
  <2>3. Writes({"stage", "scratch"}) /\ disk' = disk BY <1>1, <1>3, <2>2, SyncWrites DEF SyncStage
  <2>4. LogIsDurable' BY <1>1, <2>3, LogStays
  <2> QED BY <1>1, <2>1, <2>2, <2>3, <2>4, WritesForward
<1>4. CASE SyncRoot /\ disk.log.phase \in Publishing
  <2>1. Stored' BY <1>1, <1>4, SyncRootStored
  <2>2. {"root", "final", "erasing", "stage"} \in SUBSET Writable BY DEF Writable
  <2>3. Writes({"root", "final", "erasing", "stage"}) /\ disk' = disk
    BY <1>1, <1>4, <2>2, SyncWrites DEF SyncRoot
  <2>4. LogIsDurable' BY <1>1, <2>3, LogStays
  <2> QED BY <1>1, <2>1, <2>2, <2>3, <2>4, WritesForward
<1> QED BY <1>2, <1>3, <1>4 DEF Looks

\* It writes an event, goes on, or ends.
LEMMA LooksAppend ==
  ASSUME IInv, NEW p \in Proc, pc[p] \in Holding \ {"intent", "confirm", "reconfirm"}, Looks,
         NEW phase \in Phases \ {"none"}, NEW staged \in 0..Files,
         Append(p, phase, staged), Unname, Histories, lock' = lock,
         durable' = durable \/ durable' = [durable EXCEPT ![p] = TRUE],
         disk.log.phase \notin Terminal, disk.log.phase \in Publishing => phase \in Publishing,
         phase = "committed" => disk.scratch = 0
  PROVE  IInv'
<1>1. disk.root = "intent" /\ disk.tomb.marks = "none" BY HoldingFacts
<1>2. Stored' /\ Forward /\ LogIsDurable' /\ disk' = disk BY LooksKeeps
<1> QED BY <1>1, <1>2, AppendKeeps

LEMMA LooksGoes ==
  ASSUME IInv, NEW p \in Proc, pc[p] \in Holding \ {"intent", "confirm", "reconfirm"}, Looks,
         NEW step \in {"advance", "files", "copy", "rename", "clean"}, Goto(p, step), Unname,
         Histories, lock' = lock, event' = event,
         durable' = durable \/ durable' = [durable EXCEPT ![p] = TRUE],
         step \in {"files", "copy"} => disk.log.phase \in {"stage_created", "file_staged"},
         step = "copy" => disk.log.staged < Files,
         step = "rename" => disk.log.phase = "publish_intent",
         step = "clean" => disk.log.phase = "final_verified"
  PROVE  IInv'
<1>1. disk.root = "intent" /\ disk.tomb.marks = "none" BY HoldingFacts
<1>2. Stored' /\ Forward /\ LogIsDurable' /\ disk' = disk BY LooksKeeps
<1>3. pc'[p] = step BY GotoFields
<1>4. Materializes(p)' BY <1>1, <1>2, <1>3 DEF Materializes
<1>5. Records(p) BY DEF Records
<1>6. step \in Holding BY DEF Holding
<1> QED BY <1>2, <1>4, <1>5, <1>6, HoldingGoes

LEMMA LooksReturns ==
  ASSUME IInv, NEW p \in Proc, pc[p] \in Holding \ {"intent", "confirm", "reconfirm"}, Looks,
         NEW o \in Outcomes, Return(p, o), Unname, Histories
  PROVE  IInv'
<1>1. Stored' /\ Forward BY LooksKeeps
<1>2. pc[p] \in Locked BY DEF Locked
<1> QED BY <1>1, <1>2, HolderReturns

LEMMA MakeTreeKeeps ==
  ASSUME IInv, NEW p \in Proc, MakeTree(p), Unname, Histories PROVE IInv'
<1>1. /\ pc[p] = "tree" /\ PutDurably("root", "tree") /\ lock' = p /\ Goto(p, "intent")
      /\ UNCHANGED <<event, durable, taken>>
  BY DEF MakeTree
<1>2. /\ disk.root = "bare" /\ disk.erasing # disk.gen /\ lock = Nobody
      /\ \A q \in Proc : named[q] # disk.gen /\ (pc[q] = "tree" => q = p)
  BY <1>1 DEF IInv, Progress, Making
<1>3. Stored BY DEF IInv
<1>4. Stored' BY <1>1, <1>2, <1>3, PutRootStored
<1>5. Writes({"root"}) /\ disk'["root"] = "tree" BY <1>1, <1>3, PutDurablyWrites DEF Writable
<1>6. Forward BY <1>2, <1>3, <1>5, WritesForward DEF Writable
<1>7. Records(p) BY <1>1 DEF Records
<1>8. pc'[p] = "intent" /\ named'[p] = named[p] BY <1>1, GotoFields
<1>9. disk.tomb = NoTomb /\ disk.log = NoLog BY <1>2, <1>3 DEF Stored, Sound, Alone
<1>10. disk'.root = "tree" /\ disk'.tomb.marks = "none" /\ disk'.log = NoLog
  BY <1>5, <1>9 DEF Writes, Keeps, NoTomb
<1>11. LogIsDurable' BY <1>4, <1>10 DEF LogIsDurable, Stored, Sound, Link, LinkLog, NoLog
<1>12. Materializes(p)' BY <1>8, <1>10, <1>11 DEF Materializes
<1>13. "intent" \in Holding /\ "intent" \in Locked BY DEF Holding, Locked
<1>14. Progress(p)' BY <1>4, <1>6, <1>8, <1>12, <1>13, HoldingKeeps
<1> QED BY <1>1, <1>2, <1>4, <1>6, <1>7, <1>13, <1>14, TakerGoes

LEMMA WriteIntentKeeps ==
  ASSUME IInv, NEW p \in Proc, WriteIntent(p), Unname, Histories PROVE IInv'
<1>1. /\ pc[p] = "intent" /\ disk.root = "tree" /\ PutDurably("root", "intent")
      /\ Append(p, "journaled", 0) /\ UNCHANGED <<lock, durable, taken>>
  BY DEF WriteIntent
<1>2. pc[p] \in Holding BY <1>1 DEF Holding
<1>3. Stored BY DEF IInv
<1>4. Stored' BY <1>1, <1>3, PutRootStored
<1>5. Writes({"root"}) /\ disk'["root"] = "intent" BY <1>1, <1>3, PutDurablyWrites DEF Writable
<1>6. \A q \in Proc : named[q] # disk.gen BY <1>1 DEF IInv, Progress, Erases
<1>7. Forward BY <1>3, <1>5, <1>6, WritesForward DEF Writable
<1>8. disk.tomb = NoTomb /\ disk.log = NoLog BY <1>1, <1>3 DEF Stored, Sound, Alone
<1>9. disk'.root = "intent" /\ disk'.tomb.marks = "none" /\ disk'.log = NoLog
  BY <1>5, <1>8 DEF Writes, Keeps, NoTomb
<1>10. LogIsDurable' BY <1>4, <1>9 DEF LogIsDurable, Stored, Sound, Link, LinkLog, NoLog
<1>11. "journaled" \in Phases \ {"none"} /\ 0 \in 0..Files /\ "none" \notin Terminal \cup Publishing
  BY FilesAssumption DEF Phases, Unpublished, Terminal, Publishing
<1>12. disk'.log.phase = "none" BY <1>9 DEF NoLog
<1> QED BY <1>1, <1>2, <1>4, <1>7, <1>9, <1>10, <1>11, <1>12, AppendKeeps

LEMMA ReserveEventKeeps ==
  ASSUME IInv, NEW p \in Proc, ReserveEvent(p), Unname, Histories PROVE IInv'
<1>1. /\ pc[p] = "reserve" /\ ScratchLeft /\ Put("scratch", disk.scratch + 1) /\ Goto(p, "commit")
      /\ UNCHANGED <<lock, event, durable, taken>>
  BY DEF ReserveEvent
<1>2. pc[p] \in Holding /\ "commit" \in Holding BY <1>1 DEF Holding
<1>3. /\ Stored /\ LogIsDurable /\ disk.root = "intent" /\ disk.tomb.marks = "none"
      /\ disk.log.phase \notin Terminal /\ event[p].phase # "none"
      /\ disk.log.phase \in Publishing => event[p].phase \in Publishing
      /\ event[p].phase = "committed" => disk.scratch = 0
  BY <1>1, <1>2, HoldingFacts DEF Materializes
<1>4. Stored' BY <1>1, <1>3, PutScratchStored DEF Terminal
<1>5. Writes({"scratch"}) /\ disk'["scratch"] = disk.scratch + 1 BY <1>1, <1>3, PutWrites DEF Writable
<1>6. /\ disk'.root = disk.root /\ disk'.tomb = disk.tomb /\ disk'.log = disk.log
      /\ disk'.scratch = disk.scratch + 1
  BY <1>5 DEF Writes, Keeps
<1>7. Forward BY <1>3, <1>5, <1>6, WritesForward DEF Writable
<1>8. LogIsDurable' BY <1>3, <1>5, LogStays
<1>9. pc'[p] = "commit" BY <1>1, GotoFields
<1>10. disk'.scratch > 0 /\ (disk.scratch = 0 => disk'.scratch = 1)
  BY <1>3, <1>6 DEF Stored, Images
<1>11. Materializes(p)' BY <1>1, <1>3, <1>6, <1>8, <1>9, <1>10 DEF Materializes
<1>12. Records(p) BY <1>1 DEF Records
<1> QED BY <1>1, <1>2, <1>4, <1>7, <1>11, <1>12, HoldingGoes

LEMMA CommitEventKeeps ==
  ASSUME IInv, NEW p \in Proc, CommitEvent(p), Unname, Histories PROVE IInv'
<1>1. /\ pc[p] = "commit" /\ Move("scratch", disk.scratch - 1, "log", event[p]) /\ Goto(p, "confirm")
      /\ UNCHANGED <<lock, event, durable, taken>>
  BY DEF CommitEvent
<1>2. pc[p] \in Holding /\ "confirm" \in Holding BY <1>1 DEF Holding
<1>3. /\ Stored /\ LogIsDurable /\ disk.root = "intent" /\ disk.tomb.marks = "none"
      /\ disk.log.phase \notin Terminal /\ event[p].phase # "none" /\ disk.scratch > 0
      /\ disk.log.phase \in Publishing => event[p].phase \in Publishing
      /\ event[p].phase = "committed" => disk.scratch = 1
  BY <1>1, <1>2, HoldingFacts DEF Materializes
<1>0. event[p] \in Logs BY DEF IInv, CallType
<1>4. Stored' BY <1>0, <1>1, <1>3, CommitEventStored
<1>5. Writes({"scratch", "log"})
  <2>1. "scratch" \in Writable /\ "log" \in Writable /\ "root" \notin {"scratch", "log"}
    BY DEF Writable
  <2> QED BY <1>1, <1>3, <2>1, MoveWrites
<1>6. disk'.root = disk.root /\ disk'.tomb = disk.tomb BY <1>5 DEF Writes, Keeps
<1>7. Forward BY <1>3, <1>5, <1>6, WritesForward DEF Writable
<1>8. pc'[p] = "confirm" BY <1>1, GotoFields
<1>9. Materializes(p)' BY <1>3, <1>6, <1>8 DEF Materializes
<1>10. Records(p) BY <1>1 DEF Records
<1> QED BY <1>1, <1>2, <1>4, <1>7, <1>9, <1>10, HoldingGoes

LEMMA SyncJournalKeeps ==
  ASSUME IInv, NEW p \in Proc, pc[p] \in {"confirm", "reconfirm"}, SyncJournal
  PROVE  Stored' /\ Forward /\ LogIsDurable' /\ disk' = disk /\ pc[p] \in Holding
<1>1. pc[p] \in Holding /\ pc[p] # "intent" BY DEF Holding
<1>2. Stored /\ disk.root = "intent" /\ disk.tomb.marks = "none" BY <1>1, HoldingFacts
<1>3. Stored' BY <1>2, SyncJournalStored
<1>4. Writes({"log", "scratch"}) /\ disk' = disk /\ LogIsDurable' BY <1>2, SyncJournalFields
<1>5. Forward BY <1>2, <1>4, WritesForward DEF Writable
<1> QED BY <1>1, <1>3, <1>4, <1>5

LEMMA ConfirmEventKeeps ==
  ASSUME IInv, NEW p \in Proc, ConfirmEvent(p), Unname, Histories PROVE IInv'
<1>1. pc[p] = "confirm" /\ SyncJournal /\ Continue(p) /\ UNCHANGED taken BY DEF ConfirmEvent
<1>2. Stored' /\ Forward /\ LogIsDurable' /\ disk' = disk /\ pc[p] \in Holding
  BY <1>1, SyncJournalKeeps
<1>3. disk.root = "intent" /\ disk.tomb.marks = "none" /\ pc[p] \in Locked
  BY <1>1, <1>2, HoldingFacts
<1>4. CASE disk.log.phase \in Terminal
  <2>1. Return(p, disk.log.phase) BY <1>1, <1>4 DEF Continue, Terminal
  <2>2. disk.log.phase \in Outcomes BY <1>4 DEF Terminal, Outcomes
  <2> QED BY <1>2, <1>3, <2>1, <2>2, HolderReturns
<1>5. CASE disk.log.phase \notin Terminal
  <2>1. PICK step \in {"advance", "files"} :
          /\ Goto(p, step) /\ UNCHANGED <<lock, event, durable>>
          /\ step = "files" => disk.log.phase = "file_staged"
    BY <1>1, <1>5 DEF Continue, Terminal
  <2>2. pc'[p] = step BY <2>1, GotoFields
  <2>3. Materializes(p)' BY <1>2, <1>3, <2>1, <2>2 DEF Materializes
  <2>4. Records(p) /\ step \in Holding BY <2>1 DEF Records, Holding
  <2> QED BY <1>2, <2>1, <2>3, <2>4, HoldingGoes
<1> QED BY <1>4, <1>5

LEMMA OpenKeeps ==
  ASSUME IInv, NEW p \in Proc, Open(p), Unname, Histories, disk.tomb.marks = "none" PROVE IInv'
<1>1. UNCHANGED diskVars /\ pc[p] = "open" BY DEF Open
<1>2. CASE Return(p, "none") BY <1>1, <1>2, IdleReturns DEF Outcomes
<1>3. CASE /\ lock = Nobody /\ Readable /\ Admitted(mode[p]) /\ disk.log.phase # "abandoned"
           /\ lock' = p /\ Goto(p, "reconfirm") /\ UNCHANGED <<event, durable>>
  <2>1. Stored /\ Stored' /\ Forward /\ disk' = disk
    BY <1>1, UnchangedStored, StutterAside, AsideIsForward DEF IInv, diskVars
  <2>2. disk.root = "intent" /\ (mode[p] = "abandon" => disk.log.phase \in Unpublished)
    BY <1>3 DEF Readable, Admitted
  <2>3. \A q \in Proc : pc[q] # "tree" BY <1>3, <2>2, FreeAlone
  <2>4. pc'[p] = "reconfirm" /\ mode'[p] = mode[p] /\ named'[p] = named[p] BY <1>3, GotoFields
  <2>5. Materializes(p)' BY <2>1, <2>2, <2>4 DEF Materializes
  <2>6. "reconfirm" \in Holding /\ "reconfirm" \in Locked BY DEF Holding, Locked
  <2>7. Progress(p)' BY <2>1, <2>4, <2>5, <2>6, HoldingKeeps
  <2>8. Records(p) BY <1>3 DEF Records
  <2> QED BY <1>3, <2>1, <2>3, <2>6, <2>7, <2>8, TakerGoes
<1> QED BY <1>2, <1>3 DEF Open

LEMMA ReconfirmKeeps ==
  ASSUME IInv, NEW p \in Proc, Reconfirm(p), Unname, Histories PROVE IInv'
<1>1. pc[p] = "reconfirm" /\ SyncJournal BY DEF Reconfirm
<1>2. Stored' /\ Forward /\ LogIsDurable' /\ disk' = disk /\ pc[p] \in Holding
  BY <1>1, SyncJournalKeeps
<1>3. disk.root = "intent" /\ disk.tomb.marks = "none" /\ disk.log \in Logs /\ Materializes(p)
  BY <1>1, <1>2, HoldingFacts
<1>4. CASE mode[p] = "abandon"
  <2>1. Append(p, "abandoned", disk.log.staged) /\ UNCHANGED <<lock, durable>>
    BY <1>4 DEF Reconfirm
  <2>2. disk.log.phase \in Unpublished BY <1>1, <1>3, <1>4 DEF Materializes
  <2>3. disk.log.phase \notin Terminal \cup Publishing BY <2>2 DEF Unpublished, Terminal, Publishing
  <2>4. "abandoned" \in Phases \ {"none"} /\ disk.log.staged \in 0..Files BY <1>3 DEF Phases, Logs
  <2> QED BY <1>2, <1>3, <2>1, <2>3, <2>4, AppendKeeps
<1>5. CASE mode[p] # "abandon"
  <2>1. Goto(p, "source") /\ UNCHANGED <<lock, event, durable>> BY <1>5 DEF Reconfirm
  <2>2. pc'[p] = "source" BY <2>1, GotoFields
  <2>3. Materializes(p)' BY <1>2, <1>3, <2>2 DEF Materializes
  <2>4. Records(p) /\ "source" \in Holding BY <2>1 DEF Records, Holding
  <2> QED BY <1>2, <2>1, <2>3, <2>4, HoldingGoes
<1> QED BY <1>4, <1>5

LEMMA FindSourceKeeps ==
  ASSUME IInv, NEW p \in Proc, FindSource(p), Unname, Histories PROVE IInv'
<1>1. /\ pc[p] = "source" /\ UNCHANGED diskVars
      /\ (Goto(p, "advance") /\ UNCHANGED <<lock, event, durable>>) \/ Return(p, "none")
  BY DEF FindSource
<1>2. CASE Return(p, "none") BY <1>1, <1>2, IdleReturns DEF Outcomes
<1>3. CASE Goto(p, "advance") /\ UNCHANGED <<lock, event, durable>>
  <2>1. pc[p] \in Holding \ {"intent", "confirm", "reconfirm"} BY <1>1 DEF Holding
  <2> QED BY <1>1, <1>3, <2>1, LooksGoes DEF Looks
<1> QED BY <1>1, <1>2, <1>3

\* A step of a holder that may end, go on or write an event on the disk as it is.
LEMMA ConfirmCommittedKeeps ==
  ASSUME IInv, NEW p \in Proc, ConfirmCommitted(p), Unname, Histories PROVE IInv'
<1>1. pc[p] = "advance" /\ disk.log.phase = "committed" BY DEF ConfirmCommitted, At
<1>2. pc[p] \in Holding \ {"intent", "confirm", "reconfirm"} BY <1>1 DEF Holding
<1>3. PICK o \in {"already", "none"} : Return(p, o) /\ (SyncRoot \/ UNCHANGED diskVars)
  BY DEF ConfirmCommitted
<1>4. Looks BY <1>1, <1>3 DEF Looks, Publishing
<1> QED BY <1>2, <1>3, <1>4, LooksReturns DEF Outcomes

LEMMA BeginStageKeeps ==
  ASSUME IInv, NEW p \in Proc, BeginStage(p), Unname, Histories PROVE IInv'
<1>1. /\ pc[p] = "advance" /\ disk.log.phase = "journaled" /\ Append(p, "stage_created", 0)
      /\ UNCHANGED <<diskVars, lock, durable, taken>>
  BY DEF BeginStage, At
<1>2. pc[p] \in Holding \ {"intent", "confirm", "reconfirm"} BY <1>1 DEF Holding
<1>3. "stage_created" \in Phases \ {"none"} /\ 0 \in 0..Files /\ "journaled" \notin Terminal \cup Publishing
  BY FilesAssumption DEF Phases, Unpublished, Terminal, Publishing
<1> QED BY <1>1, <1>2, <1>3, LooksAppend DEF Looks

LEMMA PrepareStageKeeps ==
  ASSUME IInv, NEW p \in Proc, PrepareStage(p), Unname, Histories PROVE IInv'
<1>1. /\ pc[p] = "advance" /\ disk.log.phase \in {"stage_created", "file_staged"} /\ SyncStage
      /\ Goto(p, "files") /\ UNCHANGED <<lock, event, durable, taken>>
  BY DEF PrepareStage, At
<1>2. pc[p] \in Holding \ {"intent", "confirm", "reconfirm"} BY <1>1 DEF Holding
<1>3. Looks BY <1>1 DEF Looks
<1> QED BY <1>1, <1>2, <1>3, LooksGoes

\* What a stager knows of the journal.
LEMMA StagingFacts ==
  ASSUME IInv, NEW p \in Proc, pc[p] \in {"files", "copy", "place", "placed"}
  PROVE  /\ pc[p] \in Holding \ {"intent", "confirm", "reconfirm"}
         /\ disk.log.phase \in {"stage_created", "file_staged"}
         /\ disk.log.phase \notin Terminal \cup Publishing
         /\ disk.log.staged \in 0..Files
         /\ disk.log.staged < Files => disk.log.staged + 1 \in 0..Files
         /\ pc[p] # "files" => disk.log.staged < Files
         /\ Stored /\ LogIsDurable /\ disk.root = "intent" /\ disk.tomb.marks = "none"
         /\ {"file_staged", "stage_verified"} \subseteq Phases \ {"none", "committed"}
<1>1. pc[p] \in Holding \ {"intent", "confirm", "reconfirm"} BY DEF Holding
<1>2. /\ Materializes(p) /\ disk.log \in Logs /\ Stored /\ disk.root = "intent"
      /\ disk.tomb.marks = "none"
  BY <1>1, HoldingFacts
<1>3. disk.log.staged \in 0..Files BY <1>2 DEF Logs
<1>4. disk.log.staged < Files => disk.log.staged + 1 \in 0..Files BY <1>3, FilesAssumption
<1>5. {"file_staged", "stage_verified"} \subseteq Phases \ {"none", "committed"} BY DEF Phases, Unpublished
<1> QED BY <1>1, <1>2, <1>3, <1>4, <1>5 DEF Materializes, Terminal, Publishing

LEMMA FindStagedKeeps ==
  ASSUME IInv, NEW p \in Proc, FindStaged(p), Unname, Histories PROVE IInv'
<1>1. /\ pc[p] = "files" /\ disk.log.staged < Files /\ UNCHANGED <<diskVars, lock, durable, taken>>
      /\ Append(p, "file_staged", disk.log.staged + 1) \/ (Goto(p, "copy") /\ UNCHANGED event)
  BY DEF FindStaged
<1>2. Looks BY <1>1 DEF Looks
<1>3. CASE Append(p, "file_staged", disk.log.staged + 1)
  BY <1>1, <1>2, <1>3, StagingFacts, LooksAppend
<1>4. CASE Goto(p, "copy") /\ UNCHANGED event
  BY <1>1, <1>2, <1>4, StagingFacts, LooksGoes
<1> QED BY <1>1, <1>3, <1>4

LEMMA CopyFileKeeps ==
  ASSUME IInv, NEW p \in Proc, CopyFile(p), Unname, Histories PROVE IInv'
<1>1. pc[p] = "copy" BY DEF CopyFile
<1>2. CASE Return(p, "none") /\ UNCHANGED diskVars BY <1>2, IdleReturns DEF Outcomes
<1>3. CASE ScratchLeft /\ Put("scratch", disk.scratch + 1) /\ Goto(p, "place")
           /\ UNCHANGED <<lock, event, durable>>
  <2>1. /\ Stored /\ LogIsDurable /\ disk.log.phase \in {"stage_created", "file_staged"}
        /\ disk.log.staged < Files /\ pc[p] \in Holding
        /\ disk.root = "intent" /\ disk.tomb.marks = "none"
    BY <1>1, StagingFacts
  <2>2. Stored' BY <1>3, <2>1, PutScratchStored
  <2>3. Writes({"scratch"}) /\ disk'["scratch"] = disk.scratch + 1
    BY <1>3, <2>1, PutWrites DEF Writable
  <2>4. /\ disk'.root = disk.root /\ disk'.tomb = disk.tomb /\ disk'.log = disk.log
        /\ disk'.scratch = disk.scratch + 1
    BY <2>3 DEF Writes, Keeps
  <2>5. Forward BY <2>1, <2>3, <2>4, WritesForward DEF Writable
  <2>6. LogIsDurable' BY <2>1, <2>3, LogStays
  <2>7. pc'[p] = "place" /\ "place" \in Holding BY <1>3, GotoFields DEF Holding
  <2>8. disk'.scratch > 0 BY <2>1, <2>4 DEF Stored, Images
  <2>9. Materializes(p)' BY <2>1, <2>4, <2>6, <2>7, <2>8 DEF Materializes
  <2>10. Records(p) BY <1>3 DEF Records
  <2> QED BY <1>3, <2>1, <2>2, <2>5, <2>7, <2>9, <2>10, HoldingGoes
<1> QED BY <1>2, <1>3 DEF CopyFile

LEMMA PlaceFileKeeps ==
  ASSUME IInv, NEW p \in Proc, PlaceFile(p), Unname, Histories PROVE IInv'
<1>1. pc[p] = "place" BY DEF PlaceFile
<1>2. /\ Stored /\ LogIsDurable /\ disk.log.phase \in {"stage_created", "file_staged"}
      /\ disk.log.staged < Files /\ pc[p] \in Holding /\ disk.log.staged + 1 \in 0..Files
      /\ disk.root = "intent" /\ disk.tomb.marks = "none"
  BY <1>1, StagingFacts
<1>3. disk.scratch > 0 BY <1>1, <1>2, HoldingFacts DEF Materializes
<1>4. CASE Move("scratch", disk.scratch - 1, "stage", disk.log.staged + 1) /\ Goto(p, "placed")
           /\ UNCHANGED <<lock, event, durable>>
  <2>2. Stored' BY <1>2, <1>3, <1>4, PlaceStored
  <2>3. Writes({"scratch", "stage"})
    <3>1. "scratch" \in Writable /\ "stage" \in Writable /\ "root" \notin {"scratch", "stage"}
      BY DEF Writable
    <3> QED BY <1>2, <1>4, <3>1, MoveWrites
  <2>4. disk'.root = disk.root /\ disk'.tomb = disk.tomb /\ disk'.log = disk.log
    BY <2>3 DEF Writes, Keeps
  <2>5. Forward BY <1>2, <2>3, <2>4, WritesForward DEF Writable
  <2>6. LogIsDurable' BY <1>2, <2>3, LogStays
  <2>7. pc'[p] = "placed" /\ "placed" \in Holding BY <1>4, GotoFields DEF Holding
  <2>8. Materializes(p)' BY <1>2, <2>4, <2>6, <2>7 DEF Materializes
  <2>9. Records(p) BY <1>4 DEF Records
  <2> QED BY <1>2, <1>4, <2>2, <2>5, <2>7, <2>8, <2>9, HoldingGoes
<1>5. CASE PutDurably("scratch", disk.scratch - 1) /\ Return(p, "none")
  <2>1. Stored' BY <1>2, <1>3, <1>5, DropScratchStored
  <2>2. Writes({"scratch"}) BY <1>2, <1>5, PutDurablyWrites DEF Writable
  <2>3. disk'.root = disk.root BY <2>2 DEF Writes, Keeps
  <2>4. Forward BY <1>2, <2>2, <2>3, WritesForward DEF Writable
  <2>5. pc[p] \in Locked /\ "none" \in Outcomes BY <1>2 DEF Locked, Outcomes
  <2> QED BY <1>5, <2>1, <2>4, <2>5, HolderReturns
<1> QED BY <1>4, <1>5 DEF PlaceFile

LEMMA ConfirmFileKeeps ==
  ASSUME IInv, NEW p \in Proc, ConfirmFile(p), Unname, Histories PROVE IInv'
<1>1. /\ pc[p] = "placed" /\ SyncStage /\ Append(p, "file_staged", disk.log.staged + 1)
      /\ UNCHANGED <<lock, durable, taken>>
  BY DEF ConfirmFile
<1>2. disk.log.phase # "committed" BY <1>1, StagingFacts
<1>3. Looks BY <1>1, <1>2 DEF Looks
<1> QED BY <1>1, <1>3, StagingFacts, LooksAppend

LEMMA VerifyStageKeeps ==
  ASSUME IInv, NEW p \in Proc, VerifyStage(p), Unname, Histories PROVE IInv'
<1>1. /\ pc[p] = "files" /\ Append(p, "stage_verified", Files)
      /\ UNCHANGED <<diskVars, lock, durable, taken>>
  BY DEF VerifyStage
<1>2. Looks /\ Files \in 0..Files BY <1>1, FilesAssumption DEF Looks
<1> QED BY <1>1, <1>2, StagingFacts, LooksAppend

\* The events of the publication.
LEMMA PublishingFacts ==
  /\ Files \in 0..Files
  /\ {"publish_intent", "published", "final_verified", "committed"} \subseteq Phases \ {"none"}
  /\ {"publish_intent", "published", "final_verified", "committed"} = Publishing
  /\ {"publish_intent", "published", "final_verified", "stage_verified"} \cap Terminal = {}
  /\ "stage_verified" \notin Publishing
  /\ "none" \in Outcomes
BY FilesAssumption DEF Phases, Publishing, Terminal, Outcomes

LEMMA IntendPublicationKeeps ==
  ASSUME IInv, NEW p \in Proc, IntendPublication(p), Unname, Histories PROVE IInv'
<1>1. /\ pc[p] = "advance" /\ disk.log.phase = "stage_verified" /\ UNCHANGED <<diskVars, taken>>
      /\ (Append(p, "publish_intent", Files) /\ UNCHANGED <<lock, durable>>) \/ Return(p, "none")
  BY DEF IntendPublication, At
<1>2. pc[p] \in Holding \ {"intent", "confirm", "reconfirm"} /\ Looks BY <1>1 DEF Holding, Looks
<1>3. CASE Return(p, "none") BY <1>2, <1>3, LooksReturns, PublishingFacts
<1>4. CASE Append(p, "publish_intent", Files) /\ UNCHANGED <<lock, durable>>
  <2>1. /\ Files \in 0..Files /\ "publish_intent" \in Phases \ {"none"}
        /\ disk.log.phase \notin Terminal \cup Publishing
    BY <1>1, PublishingFacts
  <2> QED BY <1>2, <1>4, <2>1, LooksAppend
<1> QED BY <1>1, <1>3, <1>4

\* What stands at the public name is synced and recorded, or not touched.
LEMMA PublishedKeeps ==
  ASSUME IInv, NEW p \in Proc, RecoverPublication(p) \/ ConfirmRename(p), Unname, Histories
  PROVE  IInv'
<1>1. /\ pc[p] \in {"advance", "renamed"} /\ UNCHANGED taken
      /\ pc[p] = "advance" => disk.log.phase = "publish_intent"
  BY DEF RecoverPublication, ConfirmRename, At
<1>2. pc[p] \in Holding \ {"intent", "confirm", "reconfirm"} BY <1>1 DEF Holding
<1>3. disk.log.phase = "publish_intent" BY <1>1, <1>2, HoldingFacts DEF Materializes
<1>4. CASE Return(p, "none") /\ UNCHANGED diskVars BY <1>2, <1>4, IdleReturns, PublishingFacts
<1>5. CASE SyncRoot /\ Append(p, "published", Files) /\ durable' = [durable EXCEPT ![p] = TRUE]
           /\ UNCHANGED lock
  <2>1. /\ Files \in 0..Files /\ "published" \in Phases \ {"none"} /\ "published" \in Publishing
        /\ disk.log.phase \notin Terminal /\ disk.log.phase \in Publishing
    BY <1>3, PublishingFacts
  <2>2. Looks BY <1>5, <2>1 DEF Looks
  <2> QED BY <1>2, <1>5, <2>1, <2>2, LooksAppend
<1> QED BY <1>4, <1>5 DEF RecoverPublication, ConfirmRename

LEMMA VerifyBeforeRenameKeeps ==
  ASSUME IInv, NEW p \in Proc, VerifyBeforeRename(p), Unname, Histories PROVE IInv'
<1>1. /\ pc[p] = "advance" /\ disk.log.phase = "publish_intent" /\ UNCHANGED <<diskVars, taken>>
      /\ (Goto(p, "rename") /\ UNCHANGED <<lock, event, durable>>) \/ Return(p, "none")
  BY DEF VerifyBeforeRename, At
<1>2. pc[p] \in Holding \ {"intent", "confirm", "reconfirm"} /\ Looks BY <1>1 DEF Holding, Looks
<1>3. CASE Return(p, "none") BY <1>2, <1>3, LooksReturns, PublishingFacts
<1>4. CASE Goto(p, "rename") /\ UNCHANGED <<lock, event, durable>>
  BY <1>1, <1>2, <1>4, LooksGoes
<1> QED BY <1>1, <1>3, <1>4

LEMMA RenameKeeps ==
  ASSUME IInv, NEW p \in Proc, Rename(p), Unname, Histories PROVE IInv'
<1>1. pc[p] = "rename" BY DEF Rename
<1>2. pc[p] \in Holding BY <1>1 DEF Holding
<1>3. /\ Stored /\ LogIsDurable /\ disk.log.phase = "publish_intent"
      /\ disk.root = "intent" /\ disk.tomb.marks = "none"
  BY <1>1, <1>2, HoldingFacts DEF Materializes
<1>4. CASE Return(p, "none") /\ UNCHANGED diskVars BY <1>4, IdleReturns, PublishingFacts
<1>5. CASE Move("stage", 0, "final", "ours") /\ Goto(p, "renamed") /\ UNCHANGED <<lock, event, durable>>
  <2>1. Stored' BY <1>3, <1>5, RenameStored
  <2>2. Writes({"stage", "final"})
    <3>1. "stage" \in Writable /\ "final" \in Writable /\ "root" \notin {"stage", "final"}
      BY DEF Writable
    <3> QED BY <1>3, <1>5, <3>1, MoveWrites
  <2>3. disk'.root = disk.root /\ disk'.tomb = disk.tomb /\ disk'.log = disk.log
    BY <2>2 DEF Writes, Keeps
  <2>4. Forward BY <1>3, <2>2, <2>3, WritesForward DEF Writable
  <2>5. LogIsDurable' BY <1>3, <2>2, LogStays
  <2>6. pc'[p] = "renamed" /\ "renamed" \in Holding BY <1>5, GotoFields DEF Holding
  <2>7. Materializes(p)' BY <1>3, <2>3, <2>5, <2>6 DEF Materializes
  <2>8. Records(p) BY <1>5 DEF Records
  <2> QED BY <1>2, <1>5, <2>1, <2>4, <2>6, <2>7, <2>8, HoldingGoes
<1> QED BY <1>4, <1>5 DEF Rename

LEMMA ConfirmFinalKeeps ==
  ASSUME IInv, NEW p \in Proc, ConfirmFinal(p), Unname, Histories PROVE IInv'
<1>1. pc[p] = "advance" /\ disk.log.phase \in {"published", "final_verified"} BY DEF ConfirmFinal, At
<1>2. pc[p] \in Holding \ {"intent", "confirm", "reconfirm"} BY <1>1 DEF Holding
<1>3. CASE Return(p, "none") /\ UNCHANGED diskVars BY <1>3, IdleReturns, PublishingFacts
<1>4. CASE SyncRoot /\ Goto(p, "advance") /\ durable' = [durable EXCEPT ![p] = TRUE]
           /\ UNCHANGED <<lock, event>>
  <2>1. Looks BY <1>1, <1>4 DEF Looks, Publishing
  <2> QED BY <1>2, <1>4, <2>1, LooksGoes
<1> QED BY <1>3, <1>4 DEF ConfirmFinal

LEMMA VerifyFinalKeeps ==
  ASSUME IInv, NEW p \in Proc, VerifyFinal(p), Unname, Histories PROVE IInv'
<1>1. /\ pc[p] = "advance" /\ disk.log.phase \in {"published", "final_verified"}
      /\ UNCHANGED <<diskVars, taken>>
  BY DEF VerifyFinal, At
<1>2. pc[p] \in Holding \ {"intent", "confirm", "reconfirm"} /\ Looks BY <1>1 DEF Holding, Looks
<1>3. CASE Return(p, "none") BY <1>2, <1>3, LooksReturns, PublishingFacts
<1>4. CASE Append(p, "final_verified", Files) /\ UNCHANGED <<lock, durable>>
  <2>1. /\ Files \in 0..Files /\ "final_verified" \in Phases \ {"none"}
        /\ "final_verified" \in Publishing /\ disk.log.phase \notin Terminal
    BY <1>1, PublishingFacts
  <2> QED BY <1>2, <1>4, <2>1, LooksAppend
<1>5. CASE disk.log.phase = "final_verified" /\ Goto(p, "clean") /\ UNCHANGED <<lock, event, durable>>
  BY <1>2, <1>5, LooksGoes
<1> QED BY <1>3, <1>4, <1>5 DEF VerifyFinal

LEMMA CleanKeeps ==
  ASSUME IInv, NEW p \in Proc, Clean(p), Unname, Histories PROVE IInv'
<1>1. pc[p] = "clean" /\ UNCHANGED <<lock, durable, taken>> BY DEF Clean
<1>2. pc[p] \in Holding \ {"intent", "confirm", "reconfirm"} BY <1>1 DEF Holding
<1>3. /\ Stored /\ LogIsDurable /\ disk.log.phase = "final_verified"
      /\ disk.root = "intent" /\ disk.tomb.marks = "none"
  BY <1>1, <1>2, HoldingFacts DEF Materializes
<1>4. CASE disk.scratch = 0 /\ Append(p, "committed", Files) /\ UNCHANGED diskVars
  <2>1. /\ Files \in 0..Files /\ "committed" \in Phases \ {"none"}
        /\ "committed" \in Publishing /\ disk.log.phase \notin Terminal
    BY <1>3, PublishingFacts
  <2>2. Looks BY <1>4 DEF Looks
  <2> QED BY <1>1, <1>2, <1>4, <2>1, <2>2, LooksAppend
<1>5. CASE disk.scratch > 0 /\ PutDurably("scratch", disk.scratch - 1) /\ Goto(p, "clean")
           /\ UNCHANGED event
  <2>1. Stored' BY <1>3, <1>5, DropScratchStored
  <2>2. Writes({"scratch"}) BY <1>3, <1>5, PutDurablyWrites DEF Writable
  <2>3. disk'.root = disk.root /\ disk'.tomb = disk.tomb /\ disk'.log = disk.log
    BY <2>2 DEF Writes, Keeps
  <2>4. Forward BY <1>3, <2>2, <2>3, WritesForward DEF Writable
  <2>5. LogIsDurable' BY <1>3, <2>2, LogStays
  <2>6. pc'[p] = "clean" /\ "clean" \in Holding BY <1>5, GotoFields DEF Holding
  <2>7. Materializes(p)' BY <1>3, <2>3, <2>5, <2>6 DEF Materializes
  <2>8. Records(p) BY <1>1, <1>5 DEF Records
  <2> QED BY <1>1, <1>2, <1>5, <2>1, <2>4, <2>6, <2>7, <2>8, HoldingGoes
<1> QED BY <1>4, <1>5 DEF Clean

LEMMA MaterializingKeeps ==
  ASSUME IInv, NEW p \in Proc, Materializing(p), Unname, Histories PROVE IInv'
BY StartKeeps, CheckFinalKeeps, RetainedOpenKeeps, MakeRootKeeps, MakeTreeKeeps, WriteIntentKeeps,
   ReserveEventKeeps, CommitEventKeeps, ConfirmEventKeeps, OpenKeeps, ReconfirmKeeps,
   FindSourceKeeps, ConfirmCommittedKeeps, BeginStageKeeps, PrepareStageKeeps, FindStagedKeeps,
   CopyFileKeeps, PlaceFileKeeps, ConfirmFileKeeps, VerifyStageKeeps, IntendPublicationKeeps,
   PublishedKeeps, VerifyBeforeRenameKeeps, RenameKeeps, ConfirmFinalKeeps, VerifyFinalKeeps,
   CleanKeeps
   DEF Materializing, StartBelow, Opening

-----------------------------------------------------------------------------
(* Retention: the tombstone.                                               *)

\* What the writer of a marker, or the remover of the operation, knows.
LEMMA RetainingFacts ==
  ASSUME IInv, NEW p \in Proc, pc[p] \in RetentionHolding
  PROVE  /\ Stored /\ disk \in Images /\ disk.tomb \in Tombs /\ Buries(p) /\ Erases(p)
         /\ pc[p] \in Locked /\ lock = p /\ (disk.tomb.marks = "none" => disk.tomb = NoTomb)
         /\ disk.log \in Logs
<1>1. Stored /\ disk \in Images /\ Link(disk, disk) BY DEF IInv, Stored, Sound
<1>2. disk.tomb \in Tombs /\ disk.log \in Logs BY <1>1 DEF Images
<1>3. disk.tomb.marks = "none" => disk.tomb = NoTomb BY <1>1 DEF Link, LinkTomb
<1>4. pc[p] \in Locked /\ lock = p BY HolderAlone DEF Locked
<1> QED BY <1>1, <1>2, <1>3, <1>4 DEF IInv, Progress

LEMMA BuriesKeeps ==
  ASSUME IInv, Stored', Forward, NEW p \in Proc, pc'[p] \in RetentionHolding \ {"erase"},
         named'[p] = named[p], Buries(p)'
  PROVE  Progress(p)'
<1>1. Erases(p)' BY ErasesKeeps DEF RetentionHolding, Erasing
<1>2. Making(p)' /\ Materializes(p)' BY DEF Making, Materializes, Holding, RetentionHolding
<1> QED BY <1>1, <1>2 DEF Progress

LEMMA BuryingGoes ==
  ASSUME IInv, NEW p \in Proc, pc[p] \in RetentionHolding, NEW step \in RetentionHolding \ {"erase"},
         Step(p, step), Unname, Histories, Stored', Forward, Buries(p)'
  PROVE  IInv'
<1>1. Goto(p, step) /\ UNCHANGED <<lock, event, durable>> BY DEF Step
<1>2. pc[p] \in Locked /\ step \in Locked BY DEF Locked
<1>3. pc'[p] = step /\ named'[p] = named[p]
  <2>1. step # "idle" BY DEF RetentionHolding
  <2> QED BY <1>1, <2>1, GotoFields
<1>4. Progress(p)' BY <1>3, BuriesKeeps
<1>5. Records(p) BY <1>1 DEF Records
<1> QED BY <1>1, <1>2, <1>4, <1>5, HolderGoes

LEMMA StageTombKeeps ==
  ASSUME IInv, NEW p \in Proc, StageTomb(p), Unname, Histories PROVE IInv'
<1>1. pc[p] = "tomb" BY DEF StageTomb
<1>2. pc[p] \in RetentionHolding /\ {"tomb", "tomb_fill", "tomb_commit"} \subseteq RetentionHolding \ {"erase"}
  BY <1>1 DEF RetentionHolding
<1>3. /\ Stored /\ Marking(p) /\ disk.tomb.pending \in {"none", Target(p)} /\ disk.tomb \in Tombs
      /\ disk.tomb.marks = "none" => disk.tomb = NoTomb
  BY <1>1, <1>2, RetainingFacts DEF Buries
<1>4. CASE disk.tomb.marks = "none" /\ PutDurably("tomb", [NoTomb EXCEPT !.marks = "dir"]) /\ Step(p, "tomb")
  <2> DEFINE u == [NoTomb EXCEPT !.marks = "dir"]
  <2>1. u \in Tombs /\ u.marks = "dir" /\ u.pending = "none" BY DEF NoTomb, Tombs, Marks
  <2> HIDE DEF u
  <2>2. mode[p] = "prune" /\ disk.root = "intent" /\ disk.log.phase \in Terminal
    BY <1>3, <1>4 DEF Marking
  <2>3. Follows(u, FALSE) BY <1>4, <2>1, <2>2 DEF Follows
  <2>4. Stored' BY <1>3, <1>4, <2>1, <2>3, PutTombDurablyStored DEF u
  <2>5. Writes({"tomb"}) /\ disk'["tomb"] = u BY <1>3, <1>4, PutDurablyWrites DEF Writable, u
  <2>6. disk'.root = disk.root /\ disk'.log = disk.log /\ disk'.tomb = u
    BY <2>5 DEF Writes, Keeps
  <2>7. Forward BY <1>3, <2>5, <2>6, WritesForward DEF Writable
  <2>8. pc'[p] = "tomb" /\ mode'[p] = mode[p] BY <1>4, GotoFields DEF Step
  <2>9. Buries(p)' BY <2>1, <2>2, <2>6, <2>8 DEF Buries, Marking
  <2> QED BY <1>2, <1>4, <2>4, <2>7, <2>9, BuryingGoes
<1>5. CASE /\ disk.tomb.marks # "none" /\ disk.tomb.pending = "none"
           /\ Put("tomb", [disk.tomb EXCEPT !.pending = Target(p)]) /\ Step(p, "tomb_fill")
  <2> DEFINE u == [disk.tomb EXCEPT !.pending = Target(p)]
  <2>1. /\ u \in Tombs /\ u.marks = disk.tomb.marks /\ u.pending = Target(p)
        /\ u.basis = disk.tomb.basis
    BY <1>3 DEF Tombs, Target
  <2> HIDE DEF u
  <2>2. Follows(u, TRUE) BY <1>5, <2>1 DEF Follows
  <2>3. Stored' BY <1>3, <1>5, <2>1, <2>2, PutTombStored DEF u
  <2>4. Writes({"tomb"}) /\ disk'["tomb"] = u BY <1>3, <1>5, PutWrites DEF Writable, u
  <2>5. /\ disk'.root = disk.root /\ disk'.log = disk.log /\ disk'.tomb = u
        /\ disk'.gen = disk.gen
    BY <2>4 DEF Writes, Keeps
  <2>6. Forward BY <1>3, <2>4, <2>5, WritesForward DEF Writable
  <2>7. pc'[p] = "tomb_fill" /\ mode'[p] = mode[p] /\ named'[p] = named[p]
    BY <1>5, GotoFields DEF Step
  <2>8. Marking(p)' BY <1>3, <2>1, <2>5, <2>7 DEF Marking
  <2>9. Target(p)' = Target(p) BY <2>1, <2>5, <2>7 DEF Target
  <2>10. Buries(p)' BY <1>5, <2>1, <2>5, <2>7, <2>8, <2>9 DEF Buries
  <2> QED BY <1>2, <1>5, <2>3, <2>6, <2>10, BuryingGoes
<1>6. CASE disk.tomb.pending # "none" /\ Read(p, "tomb_commit")
  <2>1. Step(p, "tomb_commit") /\ UNCHANGED diskVars BY <1>6 DEF Read
  <2>2. Stored' /\ Forward /\ disk' = disk
    BY <1>3, <2>1, UnchangedStored, StutterAside, AsideIsForward DEF diskVars
  <2>3. disk.tomb.marks # "none" BY <1>3, <1>6 DEF NoTomb
  <2>4. pc'[p] = "tomb_commit" /\ mode'[p] = mode[p] /\ named'[p] = named[p]
    BY <2>1, GotoFields DEF Step
  <2>5. Buries(p)' BY <1>3, <1>6, <2>2, <2>3, <2>4 DEF Buries, Marking, Target
  <2> QED BY <1>2, <2>1, <2>2, <2>5, BuryingGoes
<1> QED BY <1>4, <1>5, <1>6 DEF StageTomb

LEMMA FillTombKeeps ==
  ASSUME IInv, NEW p \in Proc, FillTomb(p), Unname, Histories PROVE IInv'
<1>1. pc[p] = "tomb_fill" /\ Step(p, "tomb_commit") BY DEF FillTomb
<1>2. pc[p] \in RetentionHolding /\ "tomb_commit" \in RetentionHolding \ {"erase"}
  BY <1>1 DEF RetentionHolding
<1>3. /\ Stored /\ Marking(p) /\ disk.tomb.pending = Target(p) /\ disk.tomb.marks # "none"
  BY <1>1, <1>2, RetainingFacts DEF Buries
<1>4. Stored' BY <1>3, FillTombStored
<1> DEFINE filled(j) == [j EXCEPT !.tomb.whole = (j.tomb.pending # "none")]
<1>5. disk' = filled(disk) /\ surviving' = {filled(j) : j \in surviving} BY DEF FillTomb
<1>6. \A j \in Images : /\ filled(j).root = j.root /\ filled(j).log = j.log /\ filled(j).gen = j.gen
                        /\ filled(j).erasing = j.erasing
                        /\ filled(j).tomb.marks = j.tomb.marks /\ filled(j).tomb.pending = j.tomb.pending
  BY DEF Images, Tombs
<1> HIDE DEF filled
<1>7. disk \in Images /\ surviving \subseteq Images BY <1>3 DEF Stored
<1>8. /\ disk'.root = disk.root /\ disk'.log = disk.log /\ disk'.gen = disk.gen
      /\ disk'.erasing = disk.erasing /\ disk'.tomb.marks = disk.tomb.marks
      /\ disk'.tomb.pending = disk.tomb.pending
  BY <1>5, <1>6, <1>7
<1>9. \A s \in surviving' : \E j \in surviving : s.gen = j.gen BY <1>5, <1>6, <1>7
<1>10. Forward BY <1>3, <1>8, <1>9, Generations DEF Forward
<1>11. pc'[p] = "tomb_commit" /\ mode'[p] = mode[p] /\ named'[p] = named[p]
  BY <1>1, GotoFields DEF Step
<1>12. Buries(p)' BY <1>3, <1>8, <1>11 DEF Buries, Marking, Target
<1> QED BY <1>1, <1>2, <1>4, <1>10, <1>12, BuryingGoes

LEMMA CommitTombKeeps ==
  ASSUME IInv, NEW p \in Proc, CommitTomb(p), Unname, Histories PROVE IInv'
<1>1. pc[p] = "tomb_commit" BY DEF CommitTomb
<1>2. pc[p] \in RetentionHolding /\ "tomb_confirm" \in RetentionHolding \ {"erase"}
  BY <1>1 DEF RetentionHolding
<1>3. /\ Stored /\ Marking(p) /\ disk.tomb.pending = Target(p) /\ disk.tomb.marks # "none"
      /\ disk.tomb \in Tombs /\ disk.log \in Logs
  BY <1>1, <1>2, RetainingFacts DEF Buries
<1>4. ASSUME Step(p, "tomb_confirm")
      PROVE  pc'[p] = "tomb_confirm" /\ mode'[p] = mode[p] /\ named'[p] = named[p]
  BY <1>4, GotoFields DEF Step
<1> DEFINE u == Buried(disk.tomb)
<1>5. CASE mode[p] = "prune" /\ Put("tomb", Buried(disk.tomb)) /\ Step(p, "tomb_confirm")
  <2>1. /\ u \in Tombs /\ u.pending = "none" /\ Follows(u, TRUE)
        /\ \/ disk.root = "intent" /\ u.marks = "intent"
           \/ disk.root = "kept" /\ u.marks = "complete"
    <3>1. CASE disk.root = "intent" /\ disk.tomb.marks = "dir" /\ disk.log.phase \in Terminal
      <4>1. disk.tomb.pending = "intent" BY <1>3, <1>5, <3>1 DEF Target
      <4>2. u = [NoTomb EXCEPT !.marks = "intent", !.basis = disk.log.phase] BY <4>1 DEF Buried
      <4> HIDE DEF u
      <4>3. u \in Tombs /\ u.marks = "intent" /\ u.basis = disk.log.phase /\ u.pending = "none"
        BY <3>1, <4>2 DEF NoTomb, Tombs, Marks
      <4> QED BY <3>1, <4>3 DEF Follows
    <3>2. CASE disk.root = "kept" /\ disk.tomb.marks = "intent"
      <4>1. disk.tomb.pending = "complete" BY <1>3, <1>5, <3>2 DEF Target
      <4>2. u = [NoTomb EXCEPT !.marks = "complete", !.basis = disk.tomb.basis] BY <4>1 DEF Buried
      <4> HIDE DEF u
      <4>3. u \in Tombs /\ u.marks = "complete" /\ u.basis = disk.tomb.basis /\ u.pending = "none"
        BY <1>3, <4>2 DEF NoTomb, Tombs, Marks
      <4> QED BY <3>2, <4>3 DEF Follows
    <3> QED BY <1>3, <1>5, <3>1, <3>2 DEF Marking
  <2>2. Put("tomb", u) BY <1>5
  <2> HIDE DEF u
  <2>3. Stored' BY <1>3, <2>1, <2>2, PutTombStored
  <2>4. Writes({"tomb"}) /\ disk'["tomb"] = u BY <1>3, <2>2, PutWrites DEF Writable
  <2>5. disk'.root = disk.root /\ disk'.tomb = u BY <2>4 DEF Writes, Keeps
  <2>6. Forward BY <1>3, <2>4, <2>5, WritesForward DEF Writable
  <2>7. Buries(p)' BY <1>4, <1>5, <2>1, <2>5 DEF Buries, Marked
  <2> QED BY <1>2, <1>5, <2>3, <2>6, <2>7, BuryingGoes
<1>6. CASE /\ mode[p] = "forget" /\ Move("tomb", Buried(disk.tomb), "erasing", disk.gen)
           /\ Step(p, "tomb_confirm")
  <2>1. disk.root = "kept" /\ disk.tomb.marks = "complete" /\ named[p] = disk.gen
    BY <1>3, <1>6 DEF Marking
  <2>2. disk.tomb.pending = "forget" BY <1>3, <1>6 DEF Target
  <2>3. u = [disk.tomb EXCEPT !.pending = "none", !.whole = FALSE] BY <2>2 DEF Buried
  <2>4. Move("tomb", u, "erasing", disk.gen) BY <1>6
  <2> HIDE DEF u
  <2>5. u \in Tombs /\ u.marks = disk.tomb.marks /\ u.basis = disk.tomb.basis
    BY <1>3, <2>3 DEF Tombs
  <2>6. Stored' BY <1>3, <2>1, <2>4, <2>5, MoveTombStored
  <2>7. Writes({"tomb", "erasing"}) /\ disk'["erasing"] = disk.gen
    <3>1. "tomb" \in Writable /\ "erasing" \in Writable /\ "root" \notin {"tomb", "erasing"}
      BY DEF Writable
    <3> QED BY <1>3, <2>4, <3>1, MoveWrites
  <2>8. disk'.root = disk.root /\ disk'.erasing = disk.gen BY <2>7 DEF Writes, Keeps
  <2>9. Forward /\ disk'.gen = disk.gen BY <1>3, <2>7, <2>8, WritesForward DEF Writable
  <2>10. Buries(p)' BY <1>4, <1>6, <2>1, <2>8, <2>9 DEF Buries, Marked
  <2> QED BY <1>2, <1>6, <2>6, <2>9, <2>10, BuryingGoes
<1> QED BY <1>5, <1>6 DEF CommitTomb

\* The bounds of what a holder that begins, or confirms, an erasure knows.
LEMMA EraseKeeps ==
  ASSUME IInv, Stored', NEW p \in Proc, pc'[p] = "erase", named'[p] = disk.gen,
         disk'.gen = disk.gen, disk'.root \in {"kept", "bare"},
         \A s \in surviving' : s.gen = disk.gen /\ s.erasing = disk.gen
  PROVE  Progress(p)'
<1>1. disk.gen \in Nat \ {0} BY Generations DEF IInv
<1>2. Erases(p)' BY <1>1 DEF Erases
<1>3. Making(p)' /\ Materializes(p)' /\ Buries(p)' BY DEF Making, Materializes, Buries, Holding
<1> QED BY <1>2, <1>3 DEF Progress

LEMMA ConfirmTombKeeps ==
  ASSUME IInv, NEW p \in Proc, ConfirmTomb(p), Unname, Histories PROVE IInv'
<1>1. pc[p] = "tomb_confirm" BY DEF ConfirmTomb
<1>2. /\ pc[p] \in RetentionHolding /\ "strip" \in RetentionHolding \ {"erase"}
      /\ "erase" \in Locked /\ "pruned" \in Outcomes
  BY <1>1 DEF RetentionHolding, Locked, Outcomes
<1>3. Stored /\ Marked(p) /\ pc[p] \in Locked BY <1>1, <1>2, RetainingFacts DEF Buries
<1>4. CASE mode[p] = "prune" /\ SyncTomb /\ disk.tomb.marks \in {"intent", "complete"}
  <2>1. disk.root \in {"intent", "kept"} BY <1>3, <1>4 DEF Marked
  <2>2. Stored' BY <1>3, <1>4, <2>1, SyncTombStored DEF IsSealed, Made
  <2>3. /\ Writes({"tomb", "root"}) /\ disk' = disk
        /\ \A s \in surviving' : s.root = disk.root /\ s.tomb = disk.tomb
    BY <1>3, <1>4, SyncTombFields
  <2>4. Forward BY <1>3, <2>3, WritesForward DEF Writable
  <2>5. CASE disk.tomb.marks = "intent" /\ Step(p, "strip")
    <3>1. pc'[p] = "strip" /\ mode'[p] = mode[p] BY <2>5, GotoFields DEF Step
    <3>2. disk.tomb.pending = "none" /\ disk.root = "intent" BY <1>3, <1>4, <2>5 DEF Marked
    <3>3. Buries(p)' BY <1>4, <2>3, <2>5, <3>1, <3>2 DEF Buries
    <3> QED BY <1>2, <2>2, <2>4, <2>5, <3>3, BuryingGoes
  <2>6. CASE Return(p, "pruned") BY <1>2, <1>3, <2>2, <2>4, <2>6, HolderReturns
  <2> QED BY <1>1, <1>4, <2>5, <2>6 DEF ConfirmTomb
<1>5. CASE mode[p] = "forget" /\ SyncTarget /\ Step(p, "erase")
  <2>1. disk.erasing = disk.gen /\ named[p] = disk.gen BY <1>3, <1>5 DEF Marked
  <2>2. Stored' BY <1>3, <1>5, SyncTargetStored
  <2>3. disk' = disk /\ \A s \in surviving' : s.gen = disk.gen /\ s.erasing = disk.erasing
    BY <1>3, <1>5, SyncTargetFields
  <2>4. Forward BY <1>3, <1>5, SyncTargetAside, AsideIsForward
  <2>5. Goto(p, "erase") /\ UNCHANGED <<lock, event, durable>> BY <1>5 DEF Step
  <2>6. pc'[p] = "erase" /\ named'[p] = named[p] BY <2>5, GotoFields
  <2>7. disk.root \in {"kept", "bare"} BY <1>2, <2>1, RetainingFacts DEF Erases
  <2>8. Progress(p)' BY <2>1, <2>2, <2>3, <2>6, <2>7, EraseKeeps
  <2>9. Records(p) BY <2>5 DEF Records
  <2> QED BY <1>2, <1>3, <2>2, <2>4, <2>5, <2>8, <2>9, HolderGoes
<1> QED BY <1>1, <1>4, <1>5 DEF ConfirmTomb

-----------------------------------------------------------------------------
(* Retention: prune.                                                       *)

\* A report with a free lock, of an operation that has its lock file.
LEMMA FreeReturns ==
  ASSUME IInv, NEW p \in Proc, lock = Nobody, disk.root # "bare", NEW o \in Outcomes, Return(p, o),
         Unname, Histories, Stored', Forward
  PROVE  IInv'
<1>1. CallType' /\ Steady(p) /\ pc'[p] = "idle" /\ named'[p] = 0 BY ReturnCalls
<1>2. \A q \in Proc : pc[q] \notin Locked \cup {"tree"} BY FreeAlone
<1>3. lock' = lock BY NobodyAssumption DEF Return
<1>4. LockType' BY <1>1, <1>2, <1>3, LockKeeps DEF LockStep, Locked, Holding, RetentionHolding
<1>5. \A q \in Proc \ {p} : Progress(q)' BY <1>1, <1>2, FreeKeeps DEF Steady
<1>6. Progress(p)' BY <1>1, IdleKeeps
<1> QED BY <1>1, <1>4, <1>5, <1>6 DEF IInv

LEMMA PruneOpensKeeps ==
  ASSUME IInv, NEW p \in Proc, PruneOpens(p), Unname, Histories PROVE IInv'
<1>1. pc[p] = "prune_open" BY DEF PruneOpens
<1>2. /\ Stored /\ disk \in Images /\ Alone(disk) /\ Link(disk, disk) /\ mode[p] = "prune"
      /\ {"tomb", "strip"} \subseteq RetentionHolding \ {"erase"}
      /\ {"tomb", "strip"} \subseteq Locked /\ {"none", "pruned"} \subseteq Outcomes
  BY <1>1 DEF IInv, Stored, Sound, Progress, Buries, RetentionHolding, Locked, Outcomes
<1>3. CASE Stop(p) BY <1>2, <1>3, IdleReturns DEF Stop
<1>4. CASE lock = Nobody /\ Lockable(disk) /\ Prunable(disk) /\ ~Stop(p)
  <2>1. disk.root \notin {"none", "bare"} /\ KnownPending(disk) BY <1>4 DEF Lockable, Prunable
  <2>2. \A q \in Proc \ {p} : pc[q] # "tree" BY <1>4, <2>1, FreeAlone
  <2>3. CASE Unsealed(disk) /\ lock' = p /\ Goto(p, "tomb") /\ UNCHANGED <<diskVars, event, durable>>
    <3>1. Stored' /\ Forward /\ disk' = disk
      BY <1>2, <2>3, UnchangedStored, StutterAside, AsideIsForward DEF diskVars
    <3>2. pc'[p] = "tomb" /\ mode'[p] = mode[p] /\ named'[p] = named[p] BY <2>3, GotoFields
    <3>3. /\ disk.tomb.marks \in {"none", "dir"} /\ disk.root = "intent"
          /\ disk.log.phase \in Terminal
      BY <2>3 DEF Unsealed, Replays
    <3>4. disk.tomb.pending \in {"none", "intent"} BY <2>1, <3>3 DEF KnownPending
    <3>5. Buries(p)' BY <1>2, <3>1, <3>2, <3>3, <3>4 DEF Buries, Marking, Target
    <3>6. Progress(p)' BY <1>2, <3>1, <3>2, <3>5, BuriesKeeps
    <3>7. Records(p) BY <2>3 DEF Records
    <3> QED BY <1>2, <1>4, <2>2, <2>3, <3>1, <3>6, <3>7, TakerGoes
  <2>4. CASE SyncTomb /\ (Sealed(disk) \/ ExactTombstone(disk))
    <3>1. disk.tomb.marks \in {"intent", "complete"} BY <2>4 DEF Sealed, ExactTombstone
    <3>2. disk.root \in {"intent", "stripping", "kept"}
      BY <1>2, <3>1 DEF Alone, NoTomb, Images
    <3>3. Stored' BY <1>2, <2>4, <3>1, <3>2, SyncTombStored DEF IsSealed, Made
    <3>4. /\ Writes({"tomb", "root"}) /\ disk' = disk
          /\ \A s \in surviving' : s.root = disk.root /\ s.tomb = disk.tomb
      BY <1>2, <2>4, SyncTombFields
    <3>5. Forward BY <1>2, <3>4, WritesForward DEF Writable
    <3>6. CASE Return(p, "pruned") BY <1>2, <1>4, <3>2, <3>3, <3>5, <3>6, FreeReturns
    <3>7. CASE Sealed(disk) /\ lock' = p /\ Goto(p, "strip") /\ UNCHANGED <<event, durable>>
      <4>1. pc'[p] = "strip" /\ mode'[p] = mode[p] /\ named'[p] = named[p] BY <3>7, GotoFields
      <4>2. disk.tomb.marks = "intent" BY <3>7 DEF Sealed
      <4>3. disk.tomb.pending \in {"none", "complete"} BY <2>1, <4>2 DEF KnownPending
      <4>4. Buries(p)' BY <1>2, <3>2, <3>4, <4>1, <4>2, <4>3 DEF Buries
      <4>5. Progress(p)' BY <1>2, <3>3, <3>5, <4>1, <4>4, BuriesKeeps
      <4>6. Records(p) BY <3>7 DEF Records
      <4> QED BY <1>2, <1>4, <2>2, <3>3, <3>5, <3>7, <4>5, <4>6, TakerGoes
    <3> QED BY <1>4, <3>6, <3>7, <3>1, <2>4 DEF PruneOpens, Sealed, ExactTombstone, Unsealed
  <2> QED BY <1>4, <2>3, <2>4 DEF PruneOpens
<1> QED BY <1>3, <1>4 DEF PruneOpens

LEMMA StripKeeps ==
  ASSUME IInv, NEW p \in Proc, Strip(p), Unname, Histories PROVE IInv'
<1>1. pc[p] = "strip" BY DEF Strip
<1>2. pc[p] \in RetentionHolding /\ {"tomb", "strip"} \subseteq RetentionHolding \ {"erase"}
  BY <1>1 DEF RetentionHolding
<1>3. /\ Stored /\ mode[p] = "prune" /\ disk.tomb.marks = "intent"
      /\ disk.tomb.pending \in {"none", "complete"}
      /\ disk.root \in {"intent", "stripping", "kept"}
      /\ \A j \in surviving : j.tomb = disk.tomb
  BY <1>1, <1>2, RetainingFacts DEF Buries
<1>4. CASE disk.root = "kept" /\ Read(p, "tomb")
  <2>1. Step(p, "tomb") /\ UNCHANGED diskVars BY <1>4 DEF Read
  <2>2. Stored' /\ Forward /\ disk' = disk
    BY <1>3, <2>1, UnchangedStored, StutterAside, AsideIsForward DEF diskVars
  <2>3. pc'[p] = "tomb" /\ mode'[p] = mode[p] BY <2>1, GotoFields DEF Step
  <2>4. Buries(p)' BY <1>3, <1>4, <2>2, <2>3 DEF Buries, Marking, Target
  <2> QED BY <1>2, <2>1, <2>2, <2>4, BuryingGoes
<1>5. ASSUME NEW part \in {"stage", "root", "scratch", "log"}, NEW value, PutDurably(part, value),
             Stored', Step(p, "strip"),
             part = "root" => disk.root # "kept" /\ value \in {"stripping", "kept"}
      PROVE  IInv'
  <2>1. /\ Writes({part}) /\ disk'[part] = value
        /\ \A s \in surviving' : \E j \in surviving : Keeps({part}, s, j)
    <3>1. part \in Writable BY DEF Writable
    <3> QED BY <1>3, <1>5, <3>1, PutDurablyWrites
  <2>2. disk'.tomb = disk.tomb /\ disk'.root \in {"intent", "stripping", "kept"}
    BY <1>3, <1>5, <2>1 DEF Writes, Keeps
  <2>3. \A s \in surviving' : s.tomb = disk.tomb BY <1>3, <2>1 DEF Keeps
  <2>4. Forward
    <3>1. disk.root \notin {"kept", "bare"} => \A q \in Proc : named[q] # disk.gen
      BY DEF IInv, Progress, Erases
    <3>2. disk'.root = disk.root \/ disk'.root \in {"kept", "bare"} \/ \A q \in Proc : named[q] # disk.gen
      BY <1>3, <1>5, <2>1, <3>1 DEF Writes, Keeps
    <3> QED BY <1>3, <2>1, <3>2, WritesForward DEF Writable
  <2>5. pc'[p] = "strip" /\ mode'[p] = mode[p] BY <1>5, GotoFields DEF Step
  <2>6. Buries(p)' BY <1>3, <2>2, <2>3, <2>5 DEF Buries
  <2> QED BY <1>2, <1>5, <2>4, <2>6, BuryingGoes
<1>6. CASE disk.stage > 0 /\ PutDurably("stage", disk.stage - 1) /\ Step(p, "strip")
  BY <1>3, <1>5, <1>6, DropStageStored
<1>7. CASE disk.root = "intent" /\ PutDurably("root", "stripping") /\ Step(p, "strip")
  <2>1. Stored' BY <1>3, <1>7, PutRootStored
  <2> QED BY <1>5, <1>7, <2>1
<1>8. CASE disk.scratch > 0 /\ PutDurably("scratch", disk.scratch - 1) /\ Step(p, "strip")
  BY <1>3, <1>5, <1>8, DropScratchStored
<1>9. CASE disk.root = "stripping" /\ PutDurably("log", NoLog) /\ Step(p, "strip")
  <2>1. Stored' BY <1>3, <1>9, DropLogStored
  <2> QED BY <1>5, <1>9, <2>1
<1>10. CASE disk.root = "stripping" /\ disk.log = NoLog /\ PutDurably("root", "kept") /\ Step(p, "strip")
  <2>1. Stored' BY <1>3, <1>10, PutRootStored
  <2> QED BY <1>5, <1>10, <2>1
<1> QED BY <1>4, <1>6, <1>7, <1>8, <1>9, <1>10 DEF Strip

-----------------------------------------------------------------------------
(* Retention: forget.                                                      *)

\* Where a forget goes on without a lock.
LEMMA WanderKeeps ==
  ASSUME NEW p \in Proc, pc'[p] \in {"vanish", "look", "unmark", "report"}, Erases(p)'
  PROVE  Progress(p)'
<1>1. Making(p)' /\ Materializes(p)' /\ Buries(p)' BY DEF Making, Materializes, Buries, Holding
<1> QED BY <1>1 DEF Progress

LEMMA WanderGoes ==
  ASSUME IInv, NEW p \in Proc, pc[p] \notin Locked, NEW step \in {"vanish", "look", "unmark", "report"},
         Step(p, step), Unname, Histories, Stored', Aside, Erases(p)'
  PROVE  IInv'
<1>1. Goto(p, step) /\ UNCHANGED <<lock, event, durable>> BY DEF Step
<1>2. step \in Steps \ (Locked \cup {"idle", "tree"})
  BY DEF Steps, RetentionUnlocked, Locked, Holding, RetentionHolding
<1>3. pc'[p] = step BY <1>1, GotoFields
<1>4. Progress(p)' BY <1>3, WanderKeeps
<1>5. Records(p) BY <1>1 DEF Records
<1> QED BY <1>1, <1>2, <1>4, <1>5, AsideGoes

LEMMA EraserFacts ==
  ASSUME IInv, NEW p \in Proc, pc[p] \in {"erase_open", "vanish", "look", "unmark", "report"}
  PROVE  /\ Stored /\ Erases(p) /\ named[p] \in Nat \ {0} /\ disk.gen \in Nat \ {0}
         /\ disk.erasing \in Nat /\ disk \in surviving /\ pc[p] \notin Locked
<1>1. Stored /\ Erases(p) /\ named[p] \in Nat BY DEF IInv, Progress, CallType
<1>2. pc[p] \notin Locked BY DEF Locked, Holding, RetentionHolding
<1> QED BY <1>1, <1>2, Generations DEF Erases, Stored

LEMMA VanishKeeps ==
  ASSUME IInv, NEW p \in Proc, Vanish(p), Unname, Histories PROVE IInv'
<1>1. pc[p] = "vanish" BY DEF Vanish
<1>2. CASE Stop(p) BY <1>2, IdleReturns DEF Stop, Outcomes
<1>3. CASE disk.root = "none" /\ SyncTarget /\ Step(p, "look")
  <2>1. /\ Stored /\ named[p] \in Nat \ {0} /\ named[p] < disk.gen /\ pc[p] \notin Locked
    BY <1>1, EraserFacts DEF Erases
  <2>2. Stored' /\ Aside BY <1>3, <2>1, SyncTargetStored, SyncTargetAside
  <2>3. disk' = disk /\ \A s \in surviving' : s.gen = disk.gen BY <1>3, <2>1, SyncTargetFields
  <2>4. pc'[p] = "look" /\ named'[p] = named[p] BY <1>3, GotoFields DEF Step
  <2>5. disk.gen \in Nat BY <1>1, EraserFacts
  <2>6. Erases(p)' BY <2>1, <2>3, <2>4, <2>5 DEF Erases
  <2> QED BY <1>3, <2>1, <2>2, <2>6, WanderGoes
<1> QED BY <1>2, <1>3 DEF Vanish

LEMMA LookAgainKeeps ==
  ASSUME IInv, NEW p \in Proc, LookAgain(p), Unname, Histories PROVE IInv'
<1>1. pc[p] = "look" BY DEF LookAgain
<1>2. CASE Stop(p) BY <1>2, IdleReturns DEF Stop, Outcomes
<1>3. CASE Read(p, "unmark")
  <2>1. Step(p, "unmark") /\ UNCHANGED diskVars BY <1>3 DEF Read
  <2>2. Stored /\ Erases(p) /\ pc[p] \notin Locked BY <1>1, EraserFacts
  <2>3. Stored' /\ Aside BY <2>1, <2>2, UnchangedStored, StutterAside
  <2>4. pc'[p] = "unmark" /\ named'[p] = named[p] BY <2>1, GotoFields DEF Step
  <2>5. Erases(p)' BY <1>1, <2>1, <2>2, <2>4 DEF Erases, diskVars
  <2> QED BY <2>1, <2>2, <2>3, <2>5, WanderGoes
<1> QED BY <1>2, <1>3 DEF LookAgain

LEMMA UnmarkKeeps ==
  ASSUME IInv, NEW p \in Proc, Unmark(p), Unname, Histories PROVE IInv'
<1>1. pc[p] = "unmark" BY DEF Unmark
<1>2. CASE Stop(p) BY <1>2, IdleReturns DEF Stop, Outcomes
<1>3. CASE disk.erasing = named[p] /\ Put("erasing", 0) /\ Step(p, "report")
  <2>1. /\ Stored /\ Erases(p) /\ pc[p] \notin Locked /\ named[p] \in Nat \ {0}
        /\ disk.gen \in Nat \ {0} /\ disk \in surviving
    BY <1>1, EraserFacts
  <2>2. \A j \in surviving : named[p] < j.gen BY <1>1, <2>1 DEF Erases
  <2>3. Stored' /\ Aside BY <1>3, <2>1, <2>2, UnmarkStored, UnmarkAside
  <2>4. pc'[p] = "report" /\ named'[p] = named[p] BY <1>3, GotoFields DEF Step
  <2>5. Writes({"erasing"}) /\ disk'["erasing"] = 0 BY <1>3, <2>1, PutWrites DEF Writable
  <2>6. /\ disk'.gen = disk.gen /\ disk'.root = disk.root /\ disk'.erasing = 0
        /\ \A s \in surviving' : \E j \in surviving : s.gen = j.gen
    BY <2>5 DEF Writes, Keeps
  <2>7. \A s \in surviving' : named[p] < s.gen BY <2>2, <2>6
  <2>8. Erases(p)' BY <2>1, <2>4, <2>6, <2>7 DEF Erases
  <2> QED BY <1>3, <2>1, <2>3, <2>8, WanderGoes
<1> QED BY <1>2, <1>3 DEF Unmark

LEMMA ReportForgottenKeeps ==
  ASSUME IInv, NEW p \in Proc, ReportForgotten(p), Unname, Histories PROVE IInv'
<1>1. SyncTarget /\ Return(p, "forgotten") /\ Stored BY DEF ReportForgotten, IInv
<1>2. Stored' /\ Aside BY <1>1, SyncTargetStored, SyncTargetAside
<1> QED BY <1>1, <1>2, AsideReturns DEF Outcomes

\* The directory goes under its remover: no other invocation is in it.
LEMMA VanishesKeeps ==
  ASSUME IInv, NEW p \in Proc, disk.root = "bare", named[p] = disk.gen, Vanishes, Goto(p, "vanish"),
         Unname, Records(p), Histories,
         \/ lock = Nobody /\ lock' = lock
         \/ pc[p] \in Locked /\ lock' = Nobody
  PROVE  IInv'
<1>1. Stored BY DEF IInv
<1>2. disk' = Vanished(disk) /\ surviving' = surviving \cup {Vanished(j) : j \in surviving}
  BY DEF Vanishes
<1>3. Stored' BY <1>1, <1>2, VanishStored
<1>4. disk.gen \in Nat \ {0} /\ disk \in Images /\ surviving \subseteq Images
  BY <1>1, Generations DEF Stored
<1>5. \A j \in Images : Vanished(j).gen = disk.gen + 1 /\ Vanished(j).erasing = j.erasing
  BY DEF Vanished, Images
<1>6. disk'.gen = disk.gen + 1 /\ disk'.erasing = disk.erasing BY <1>2, <1>4, <1>5
<1>7. \A s \in surviving' : s \in surviving \/ s.gen = disk.gen + 1 BY <1>2, <1>4, <1>5
<1>8. Forward
  <2>1. \A s \in surviving' : \E j \in surviving : j.gen <= s.gen
    BY <1>1, <1>4, <1>7, Generations DEF Stored
  <2> QED BY <1>4, <1>6, <2>1 DEF Forward
<1>9. "vanish" \in Steps \ (Locked \cup {"idle", "tree"})
  BY DEF Steps, RetentionUnlocked, Locked, Holding, RetentionHolding
<1>10. CallType' /\ Steady(p) /\ pc'[p] = "vanish" /\ named'[p] = named[p] BY <1>9, GotoCalls
<1>11. \A q \in Proc \ {p} : pc[q] \notin Locked \cup {"tree"}
  <2>1. \A q \in Proc : pc[q] # "tree" BY DEF IInv, Progress, Making
  <2>2. \A q \in Proc \ {p} : pc[q] \notin Locked BY FreeAlone, HolderAlone
  <2> QED BY <2>1, <2>2
<1>12. LockType'
  <2>1. pc[p] \in Locked <=> lock = p BY DEF IInv, LockType
  <2> QED BY <1>9, <1>10, <2>1, NobodyAssumption, LockKeeps DEF LockStep
<1>13. \A q \in Proc \ {p} : Progress(q)' BY <1>3, <1>8, <1>10, <1>11, FreeKeeps DEF Steady
<1>14. Progress(p)'
  <2>1. Erases(p)' BY <1>4, <1>6, <1>10 DEF Erases
  <2> QED BY <1>10, <2>1, WanderKeeps
<1> QED BY <1>3, <1>10, <1>12, <1>13, <1>14 DEF IInv

LEMMA EraseOpensKeeps ==
  ASSUME IInv, NEW p \in Proc, EraseOpens(p), Unname, Histories PROVE IInv'
<1>1. pc[p] = "erase_open" BY DEF EraseOpens
<1>2. /\ Stored /\ Erases(p) /\ named[p] \in Nat \ {0} /\ disk.gen \in Nat \ {0}
      /\ pc[p] \notin Locked
  BY <1>1, EraserFacts
<1>3. CASE Stop(p) BY <1>3, IdleReturns DEF Stop, Outcomes
<1>4. CASE disk.root = "none" /\ SyncTarget /\ Step(p, "vanish")
  <2>1. Stored' /\ Aside /\ disk' = disk
    BY <1>2, <1>4, SyncTargetStored, SyncTargetAside, SyncTargetFields
  <2>2. pc'[p] = "vanish" /\ named'[p] = named[p] BY <1>4, GotoFields DEF Step
  <2>3. named[p] < disk.gen BY <1>2, <1>4 DEF Erases
  <2>4. Erases(p)' BY <1>2, <2>1, <2>2, <2>3 DEF Erases
  <2> QED BY <1>2, <1>4, <2>1, <2>4, WanderGoes
<1>5. CASE disk.root = "bare" /\ disk.gen = named[p] /\ lock = Nobody /\ Vanishes /\ Step(p, "vanish")
  <2>1. Goto(p, "vanish") /\ UNCHANGED <<lock, event, durable>> BY <1>5 DEF Step
  <2>2. Records(p) BY <2>1 DEF Records
  <2> QED BY <1>5, <2>1, <2>2, VanishesKeeps
<1>6. CASE /\ Lockable(disk) /\ disk.gen = named[p] /\ lock = Nobody /\ lock' = p
           /\ Goto(p, "erase") /\ SyncTarget /\ UNCHANGED <<event, durable, taken>>
  <2>1. Stored' /\ Aside /\ Forward
    BY <1>2, <1>6, SyncTargetStored, SyncTargetAside, AsideIsForward
  <2>2. disk' = disk /\ \A s \in surviving' : s.gen = disk.gen /\ s.erasing = disk.erasing
    BY <1>2, <1>6, SyncTargetFields
  <2>3. disk.erasing = disk.gen /\ disk.root \in {"kept", "bare"} BY <1>1, <1>2, <1>6 DEF Erases
  <2>4. pc'[p] = "erase" /\ named'[p] = named[p] BY <1>6, GotoFields
  <2>5. Progress(p)' BY <1>6, <2>1, <2>2, <2>3, <2>4, EraseKeeps
  <2>6. \A q \in Proc \ {p} : pc[q] # "tree" BY <1>6, FreeAlone DEF Lockable
  <2>7. Records(p) /\ "erase" \in Locked BY <1>6 DEF Records, Locked, RetentionHolding
  <2> QED BY <1>6, <2>1, <2>5, <2>6, <2>7, TakerGoes
<1> QED BY <1>3, <1>4, <1>5, <1>6 DEF EraseOpens

LEMMA ErasingKeeps ==
  ASSUME IInv, NEW p \in Proc, Erase(p), Unname, Histories PROVE IInv'
<1>1. pc[p] = "erase" BY DEF Erase
<1>2. pc[p] \in RetentionHolding /\ "erase" \in Locked BY <1>1 DEF RetentionHolding, Locked
<1>3. /\ Stored /\ named[p] = disk.gen /\ disk.root \in {"kept", "bare"} /\ pc[p] \in Locked
      /\ \A j \in surviving : j.gen = disk.gen /\ j.erasing = disk.gen
      /\ disk.tomb \in Tombs /\ Alone(disk) /\ disk \in surviving
  BY <1>1, <1>2, RetainingFacts DEF Erases, Stored, Sound
<1>4. ASSUME NEW part \in {"tomb", "root"}, Writes({part}), Stored', Step(p, "erase"),
             disk'.root \in {"kept", "bare"}
      PROVE  IInv'
  <2>1. disk'.gen = disk.gen /\ Forward BY <1>3, <1>4, WritesForward DEF Writable
  <2>2. \A s \in surviving' : s.gen = disk.gen /\ s.erasing = disk.gen
    BY <1>3, <1>4 DEF Writes, Keeps
  <2>3. Goto(p, "erase") /\ UNCHANGED <<lock, event, durable>> BY <1>4 DEF Step
  <2>4. pc'[p] = "erase" /\ named'[p] = named[p] BY <2>3, GotoFields
  <2>5. Progress(p)' BY <1>3, <1>4, <2>1, <2>2, <2>4, EraseKeeps
  <2>6. Records(p) BY <2>3 DEF Records
  <2> QED BY <1>2, <1>3, <1>4, <2>1, <2>3, <2>5, <2>6, HolderGoes
<1>5. CASE disk.tomb.marks # "none" /\ PutDurably("tomb", Exhumed(disk.tomb)) /\ Step(p, "erase")
  <2> DEFINE u == Exhumed(disk.tomb)
  <2>1. disk.root = "kept" BY <1>3, <1>5 DEF Alone, NoTomb
  <2>2. u \in Tombs /\ Follows(u, FALSE)
    <3>1. CASE disk.tomb.marks = "complete"
      <4>1. u = [disk.tomb EXCEPT !.marks = "intent"] BY <3>1 DEF Exhumed
      <4> HIDE DEF u
      <4>2. u \in Tombs /\ u.marks = "intent" /\ u.basis = disk.tomb.basis
        BY <1>3, <4>1 DEF Tombs, Marks
      <4> QED BY <1>3, <3>1, <4>2 DEF Follows
    <3>2. CASE disk.tomb.marks = "intent"
      <4>1. u = [NoTomb EXCEPT !.marks = "dir"] BY <3>2 DEF Exhumed
      <4> HIDE DEF u
      <4>2. u \in Tombs /\ u.marks = "dir" BY <4>1 DEF Tombs, Marks, NoTomb
      <4> QED BY <1>3, <2>1, <3>2, <4>2 DEF Follows
    <3>3. CASE disk.tomb.marks = "dir"
      <4>1. u = NoTomb BY <3>3 DEF Exhumed
      <4> HIDE DEF u
      <4>2. u \in Tombs BY <4>1 DEF Tombs, Marks, NoTomb
      <4> QED BY <1>3, <3>3, <4>1, <4>2 DEF Follows
    <3> QED BY <1>3, <1>5, <3>1, <3>2, <3>3 DEF Tombs, Marks
  <2> HIDE DEF u
  <2>3. Stored' BY <1>3, <1>5, <2>2, PutTombDurablyStored DEF u
  <2>4. Writes({"tomb"}) BY <1>3, <1>5, PutDurablyWrites DEF Writable
  <2>5. disk'.root = disk.root BY <2>4 DEF Writes, Keeps
  <2> QED BY <1>3, <1>4, <1>5, <2>3, <2>4, <2>5
<1>6. CASE Stop(p) BY <1>6, IdleReturns DEF Stop, Outcomes
<1>7. CASE disk.tomb.marks = "none" /\ disk.root = "kept" /\ Put("root", "bare") /\ Step(p, "erase")
  <2>1. Stored' BY <1>3, <1>7, DropKeptStored
  <2>2. Writes({"root"}) /\ disk'["root"] = "bare" BY <1>3, <1>7, PutWrites DEF Writable
  <2> QED BY <1>4, <1>7, <2>1, <2>2
<1>8. CASE disk.root = "bare" /\ Vanishes /\ lock' = Nobody /\ Goto(p, "vanish") /\ UNCHANGED <<event, durable>>
  <2>1. Records(p) BY <1>8 DEF Records
  <2> QED BY <1>3, <1>8, <2>1, VanishesKeeps
<1> QED BY <1>5, <1>6, <1>7, <1>8 DEF Erase

LEMMA RetainingKeeps ==
  ASSUME IInv, NEW p \in Proc, Retaining(p), Unname, Histories PROVE IInv'
BY StageTombKeeps, FillTombKeeps, CommitTombKeeps, ConfirmTombKeeps, StartKeeps, PruneOpensKeeps,
   StripKeeps, EraseOpensKeeps, ErasingKeeps, VanishKeeps, LookAgainKeeps, UnmarkKeeps,
   ReportForgottenKeeps
   DEF Retaining

\* What a forget reads of the root intent, or of the directory, is its own.
LEMMA NamingCalls ==
  ASSUME IInv, NEW p \in Proc, NEW step \in Steps, Goto(p, step), UNCHANGED <<event, durable, taken, hasty>>,
         NEW n \in 0..MaxIncarnations, named' = named \/ named' = [named EXCEPT ![p] = n]
  PROVE  /\ CallType' /\ pc'[p] = step /\ mode'[p] = mode[p]
         /\ \A q \in Proc \ {p} : Same(q) /\ named'[q] = named[q]
<1>1. CallType BY DEF IInv
<1>2. pc' = [pc EXCEPT ![p] = step] /\ mode' = mode /\ outcome' = outcome BY DEF Goto
<1>3. pc' \in [Proc -> Steps] /\ named' \in [Proc -> 0..MaxIncarnations]
  BY <1>1, <1>2 DEF CallType
<1>4. CallType' BY <1>1, <1>2, <1>3 DEF CallType
<1>5. \A q \in Proc \ {p} : pc'[q] = pc[q] /\ named'[q] = named[q] BY <1>1, <1>2 DEF CallType
<1>6. pc'[p] = step BY <1>1, <1>2 DEF CallType
<1> QED BY <1>2, <1>4, <1>5, <1>6 DEF Same

LEMMA NamingLock ==
  ASSUME IInv, NEW p \in Proc, LockStep(p), \A q \in Proc \ {p} : Same(q) PROVE LockType'
  BY NobodyAssumption DEF IInv, LockType, LockStep, Same

LEMMA ForgetReadsKeeps ==
  ASSUME IInv, NEW p \in Proc, ForgetReads(p), UNCHANGED hasty PROVE IInv'
<1>1. pc[p] = "forget_read" /\ UNCHANGED taken BY DEF ForgetReads
<1>2. /\ Stored /\ disk \in Images /\ Alone(disk) /\ mode[p] = "forget"
      /\ disk.gen \in Nat \ {0} /\ disk.erasing \in Nat
  BY <1>1, Generations DEF IInv, Stored, Sound, Progress, Buries
<1>3. PICK step \in {"forget_open", "erase_open"}, n \in {0, disk.erasing} :
        /\ Step(p, step) /\ (named' = named \/ named' = [named EXCEPT ![p] = n])
        /\ \/ step = "forget_open" /\ UNCHANGED diskVars /\ named' = named
           \/ step = "erase_open" /\ SyncTarget /\ disk.erasing # 0
                /\ n = disk.erasing /\ named' = [named EXCEPT ![p] = n]
  BY <1>1 DEF ForgetReads, Read
<1>4. Goto(p, step) /\ UNCHANGED <<lock, event, durable>> BY <1>3 DEF Step
<1>5. step \in Steps \ Locked /\ pc[p] \notin Locked
  BY <1>1 DEF Steps, RetentionUnlocked, Locked, Holding, RetentionHolding
<1>6. n \in 0..MaxIncarnations BY <1>2, MaxIncarnationsAssumption DEF Images
<1>7. /\ CallType' /\ pc'[p] = step /\ mode'[p] = mode[p]
      /\ \A q \in Proc \ {p} : Same(q) /\ named'[q] = named[q]
  BY <1>1, <1>3, <1>4, <1>5, <1>6, NamingCalls
<1>8. LockType' BY <1>4, <1>5, <1>7, NamingLock DEF LockStep
<1>9. Stored' /\ Aside
  BY <1>2, <1>3, SyncTargetStored, SyncTargetAside, UnchangedStored, StutterAside
<1>10. ASSUME NEW q \in Proc \ {p} PROVE Progress(q)'
  <2>1. ASSUME pc[q] = "tree"
        PROVE  /\ lock' = Nobody
               /\ \A r \in Proc : named'[r] # disk.gen /\ (pc'[r] = "tree" => r = q)
    <3>1. /\ lock = Nobody /\ disk.erasing # disk.gen
          /\ \A r \in Proc : named[r] # disk.gen /\ (pc[r] = "tree" => r = q)
      BY <2>1 DEF IInv, Progress, Making
    <3>2. named'[p] # disk.gen BY <1>2, <1>3, <3>1 DEF IInv, CallType
    <3> QED BY <1>3, <1>4, <1>7, <3>1, <3>2 DEF Same
  <2> QED BY <1>7, <1>9, <2>1, AsideKeeps
<1>11. Progress(p)'
  <2>1. Making(p)' /\ Materializes(p)' BY <1>3, <1>7 DEF Making, Materializes, Holding
  <2>2. Buries(p)' BY <1>2, <1>3, <1>7 DEF Buries
  <2>3. Erases(p)'
    <3>1. CASE named' = named /\ step = "forget_open"
      <4>1. Forward BY <1>2, <1>9, AsideIsForward
      <4> QED BY <1>7, <1>9, <3>1, <4>1, ErasesKeeps DEF Erasing
    <3>2. CASE step = "erase_open" /\ SyncTarget /\ disk.erasing # 0 /\ named' = [named EXCEPT ![p] = disk.erasing]
      <4>1. named'[p] = disk.erasing BY <3>2 DEF IInv, CallType
      <4>2. disk' = disk BY <1>2, <3>2, SyncTargetFields
      <4> QED BY <1>2, <1>7, <3>2, <4>1, <4>2 DEF Erases, Alone
    <3> QED BY <1>3, <3>1, <3>2
  <2> QED BY <2>1, <2>2, <2>3 DEF Progress
<1> QED BY <1>7, <1>8, <1>9, <1>10, <1>11 DEF IInv

LEMMA ForgetOpensKeeps ==
  ASSUME IInv, NEW p \in Proc, ForgetOpens(p), UNCHANGED hasty PROVE IInv'
<1>1. pc[p] = "forget_open" /\ UNCHANGED taken BY DEF ForgetOpens
<1>2. /\ Stored /\ disk \in Images /\ Alone(disk) /\ mode[p] = "forget" /\ CallType
      /\ disk.gen \in Nat \ {0}
  BY <1>1, Generations DEF IInv, Stored, Sound, Progress, Buries
<1>3. CASE Stop(p) /\ UNCHANGED named
  <2>1. UNCHANGED diskVars /\ Return(p, "none") BY <1>3 DEF Stop
  <2>2. Stored' /\ Aside /\ Forward
    BY <1>2, <2>1, UnchangedStored, StutterAside, AsideIsForward
  <2>3. /\ pc' = [pc EXCEPT ![p] = "idle"] /\ mode' = [mode EXCEPT ![p] = "status"]
        /\ event' = [event EXCEPT ![p] = NoLog] /\ durable' = [durable EXCEPT ![p] = FALSE]
        /\ outcome' = [outcome EXCEPT ![p] = "none"]
        /\ lock' = IF lock = p THEN Nobody ELSE lock
    BY <2>1 DEF Return
  <2>4. CallType'
    <3>1. pc' \in [Proc -> Steps] BY <1>2, <2>3 DEF CallType, Steps, Unlocked
    <3>2. NoLog \in Logs BY FilesAssumption DEF NoLog, Logs, Phases
    <3>3. /\ event' \in [Proc -> Logs] /\ durable' \in [Proc -> BOOLEAN]
          /\ mode' \in [Proc -> Modes \cup RetentionModes]
      BY <1>2, <2>3, <3>2 DEF CallType, Modes
    <3>4. outcome' \in [Proc -> Outcomes] BY <1>2, <2>3 DEF CallType, Outcomes
    <3>5. named' \in [Proc -> 0..MaxIncarnations] /\ taken' \in BOOLEAN /\ hasty' \in BOOLEAN
      BY <1>1, <1>2, <1>3 DEF CallType
    <3> QED BY <3>1, <3>3, <3>4, <3>5 DEF CallType
  <2>5. pc'[p] = "idle" /\ \A q \in Proc \ {p} : Same(q)
    BY <1>2, <1>3, <2>3 DEF CallType, Same
  <2>6. pc[p] \notin Locked /\ "idle" \notin Locked BY <1>1 DEF Locked, Holding, RetentionHolding
  <2>7. lock' = lock BY <2>3, <2>6 DEF IInv, LockType
  <2>8. LockType' BY <2>5, <2>6, <2>7, NamingLock DEF LockStep
  <2>9. ASSUME NEW q \in Proc \ {p} PROVE Progress(q)'
    <3>1. ASSUME pc[q] = "tree"
          PROVE  /\ lock' = Nobody
                 /\ \A r \in Proc : named'[r] # disk.gen /\ (pc'[r] = "tree" => r = q)
      BY <1>3, <2>5, <2>7, <3>1 DEF IInv, Progress, Making, Same
    <3> QED BY <2>2, <2>5, <3>1, AsideKeeps
  <2>10. Progress(p)'
    <3>1. Erases(p)' BY <1>3, <2>2, <2>5, ErasesKeeps DEF Erasing
    <3>2. Making(p)' /\ Materializes(p)' /\ Buries(p)'
      BY <2>5 DEF Making, Materializes, Buries, Holding
    <3> QED BY <3>1, <3>2 DEF Progress
  <2> QED BY <2>2, <2>4, <2>8, <2>9, <2>10 DEF IInv
<1>4. CASE /\ lock = Nobody /\ Lockable(disk) /\ Forgettable(disk) /\ disk.erasing \in {0, disk.gen}
           /\ lock' = p /\ UNCHANGED <<event, durable>> /\ named' = [named EXCEPT ![p] = disk.gen]
           /\ \/ Goto(p, "tomb") /\ UNCHANGED diskVars
              \/ disk.erasing # 0 /\ Goto(p, "erase") /\ SyncTarget
  <2>1. /\ disk.root = "kept" /\ disk.tomb.marks = "complete" /\ disk.tomb.pending = "none"
    BY <1>4 DEF Forgettable, ExactTombstone, KnownPending
  <2>2. disk.gen \in 0..MaxIncarnations
    BY <1>2, <2>1, MaxIncarnationsAssumption DEF Alone, Incarnations
  <2>3. named'[p] = disk.gen BY <1>2, <1>4 DEF CallType
  <2>4. \A q \in Proc \ {p} : pc[q] \notin Locked \cup {"tree"} BY <1>4, <2>1, FreeAlone
  <2>5. Stored' /\ Forward /\ disk' = disk
    <3>1. CASE UNCHANGED diskVars
      BY <1>2, <3>1, UnchangedStored, StutterAside, AsideIsForward DEF diskVars
    <3>2. CASE SyncTarget
      BY <1>2, <3>2, SyncTargetStored, SyncTargetAside, SyncTargetFields, AsideIsForward
    <3> QED BY <1>4, <3>1, <3>2
  <2>6. ASSUME NEW step \in {"tomb", "erase"}, Goto(p, step), pc'[p] = step => Progress(p)'
        PROVE  IInv'
    <3>1. step \in Locked /\ step \in Steps BY DEF Locked, RetentionHolding, Steps
    <3>2. CallType' /\ pc'[p] = step /\ \A q \in Proc \ {p} : Same(q) /\ named'[q] = named[q]
      BY <1>1, <1>4, <2>2, <2>6, <3>1, NamingCalls
    <3>3. LockType' BY <1>4, <3>1, <3>2, NamingLock DEF LockStep
    <3>4. \A q \in Proc \ {p} : Progress(q)' BY <2>4, <2>5, <3>2, FreeKeeps
    <3> QED BY <2>5, <2>6, <3>2, <3>3, <3>4 DEF IInv
  <2>7. CASE Goto(p, "tomb")
    <3>1. pc'[p] = "tomb" /\ mode'[p] = mode[p] BY <2>7, GotoFields
    <3>2. Buries(p)' BY <1>2, <2>1, <2>3, <2>5, <3>1 DEF Buries, Marking
    <3>3. Erases(p)' BY <1>2, <2>1, <2>3, <2>5, <3>1 DEF Erases
    <3>4. Making(p)' /\ Materializes(p)' BY <3>1 DEF Making, Materializes, Holding
    <3> QED BY <2>6, <2>7, <3>2, <3>3, <3>4 DEF Progress
  <2>8. CASE disk.erasing # 0 /\ Goto(p, "erase") /\ SyncTarget
    <3>1. disk.erasing = disk.gen BY <1>4, <2>8
    <3>2. \A s \in surviving' : s.gen = disk.gen /\ s.erasing = disk.erasing
      BY <1>2, <2>8, SyncTargetFields
    <3>3. pc'[p] = "erase" => Progress(p)' BY <2>1, <2>3, <2>5, <3>1, <3>2, EraseKeeps
    <3> QED BY <2>6, <2>8, <3>3
  <2> QED BY <1>4, <2>7, <2>8
<1> QED BY <1>3, <1>4 DEF ForgetOpens

-----------------------------------------------------------------------------
(* Everything else, and the invariant.                                     *)

LEMMA PowerLossKeeps == ASSUME IInv, PowerLoss, Unname, UNCHANGED hasty PROVE IInv'
<1>1. /\ disk' \in surviving /\ surviving' = {disk'} /\ lock' = Nobody
      /\ pc' = [p \in Proc |-> "idle"] /\ mode' = [p \in Proc |-> "status"]
      /\ event' = [p \in Proc |-> NoLog] /\ durable' = [p \in Proc |-> FALSE]
      /\ outcome' = [p \in Proc |-> "none"] /\ UNCHANGED taken
  BY DEF PowerLoss
<1>2. Stored' BY <1>1, LossStored DEF IInv
<1>3. named' = [p \in Proc |-> 0] BY <1>1 DEF Unname
<1>4. NoLog \in Logs BY FilesAssumption DEF NoLog, Logs, Phases
<1>5. 0 \in 0..MaxIncarnations BY MaxIncarnationsAssumption
<1>6. CallType'
  BY <1>1, <1>3, <1>4, <1>5 DEF IInv, CallType, Steps, Unlocked, Modes, Outcomes
<1>7. LockType' BY <1>1, NobodyAssumption DEF LockType, Locked, Holding, RetentionHolding
<1>8. \A p \in Proc : Progress(p)' BY <1>1, <1>2, <1>3, IdleKeeps
<1> QED BY <1>2, <1>6, <1>7, <1>8 DEF IInv

LEMMA NeighbourKeeps ==
  ASSUME IInv, Occupy \/ Vacate, Unname, UNCHANGED hasty PROVE IInv'
<1>1. /\ Put("final", "other") \/ Put("final", "none")
      /\ UNCHANGED <<lock, callVars>>
      /\ taken' = taken \/ taken' \in BOOLEAN
  BY DEF Occupy, Vacate
<1>2. Stored /\ CallType BY DEF IInv
<1>3. Stored' /\ Aside BY <1>1, <1>2, PutFinalStored, PutFinalAside
<1>4. named' = [p \in Proc |-> IF pc[p] = "idle" THEN 0 ELSE named[p]] BY <1>1 DEF Unname, callVars
<1>5. CallType'
  <2>1. named' \in [Proc -> 0..MaxIncarnations] BY <1>2, <1>4, MaxIncarnationsAssumption DEF CallType
  <2>2. taken' \in BOOLEAN BY <1>1, <1>2 DEF CallType
  <2> QED BY <1>1, <1>2, <2>1, <2>2 DEF CallType, callVars
<1>6. LockType' BY <1>1 DEF IInv, LockType, callVars
<1>7. ASSUME NEW q \in Proc PROVE Progress(q)'
  <2>1. Same(q) BY <1>1, <1>4 DEF Same, callVars
  <2>2. ASSUME pc[q] = "tree"
        PROVE  /\ lock' = Nobody
               /\ \A r \in Proc : named'[r] # disk.gen /\ (pc'[r] = "tree" => r = q)
    <3>1. /\ lock = Nobody
          /\ \A r \in Proc : named[r] # disk.gen /\ (pc[r] = "tree" => r = q)
      BY <2>2 DEF IInv, Progress, Making
    <3>2. disk.gen # 0 BY <1>2, Generations
    <3> QED BY <1>1, <1>4, <3>1, <3>2 DEF callVars
  <2> QED BY <1>3, <2>1, <2>2, AsideKeeps
<1> QED BY <1>3, <1>5, <1>6, <1>7 DEF IInv

LEMMA TakenStays ==
  ASSUME taken \in BOOLEAN, NEW p \in Proc, Materializing(p) \/ Retaining(p) PROVE taken' \in BOOLEAN
<1>1. CASE Materializing(p)
  BY <1>1 DEF Materializing, StartBelow, Start, CheckFinal, BoundedMakeRoot, MakeRoot, MakeTree,
     WriteIntent, ReserveEvent, CommitEvent, ConfirmEvent, Opening, OpenRetained, Open, Reconfirm,
     FindSource, ConfirmCommitted, BeginStage, PrepareStage, FindStaged, CopyFile, PlaceFile,
     ConfirmFile, VerifyStage, IntendPublication, RecoverPublication, VerifyBeforeRename, Rename,
     ConfirmRename, ConfirmFinal, VerifyFinal, Clean, Crash
<1>2. CASE Retaining(p)
  BY <1>2 DEF Retaining, StageTomb, FillTomb, CommitTomb, ConfirmTomb, StartRetention, PruneOpens,
     Strip, EraseOpens, Erase, Vanishes, Vanish, LookAgain, Unmark, ReportForgotten
<1> QED BY <1>1, <1>2

LEMMA NextKeeps == ASSUME IInv, [Next]_retentionVars PROVE IInv'
<1>1. taken \in BOOLEAN /\ hasty \in BOOLEAN BY DEF IInv, CallType
<1>2. ASSUME NEW p \in Proc, Retaining(p), History, Unname PROVE IInv'
  <2>1. hasty' \in BOOLEAN BY <1>2 DEF History
  <2> QED BY <1>1, <1>2, <2>1, TakenStays, RetainingKeeps DEF Histories
<1>3. ASSUME NEW p \in Proc, ForgetReads(p) \/ ForgetOpens(p), UNCHANGED hasty PROVE IInv'
  BY <1>3, ForgetReadsKeeps, ForgetOpensKeeps
<1>4. ASSUME NEW p \in Proc, Materializing(p), Unname, UNCHANGED hasty PROVE IInv'
  BY <1>1, <1>4, TakenStays, MaterializingKeeps DEF Histories
<1>5. CASE (PowerLoss \/ Occupy \/ Vacate) /\ Unname /\ UNCHANGED hasty
  BY <1>5, PowerLossKeeps, NeighbourKeeps
<1>6. CASE UNCHANGED retentionVars
  <2>1. UNCHANGED <<disk, surviving, lock, pc, mode, event, durable, outcome, taken, named, hasty>>
    BY <1>6 DEF retentionVars, vars, diskVars, callVars
  <2>2. Stored' BY <2>1, UnchangedStored DEF IInv, diskVars
  <2>3. CallType' /\ LockType' BY <2>1 DEF IInv, CallType, LockType
  <2>4. \A p \in Proc : Progress(p)'
    BY <2>1 DEF IInv, Progress, Making, Materializes, LogIsDurable, Buries, Marking, Marked, Target, Erases
  <2> QED BY <2>2, <2>3, <2>4 DEF IInv
<1> QED BY <1>2, <1>3, <1>4, <1>5, <1>6 DEF Next

LEMMA InitKeeps == Init => IInv
<1> SUFFICES ASSUME Init PROVE IInv OBVIOUS
<1>1. Stored BY InitStored
<1>2. /\ disk = Empty /\ lock = Nobody
      /\ pc = [p \in Proc |-> "idle"] /\ mode = [p \in Proc |-> "status"]
      /\ event = [p \in Proc |-> NoLog] /\ durable = [p \in Proc |-> FALSE]
      /\ outcome = [p \in Proc |-> "none"] /\ named = [p \in Proc |-> 0]
      /\ taken = FALSE /\ hasty = FALSE
  BY DEF Init
<1>3. NoLog \in Logs BY FilesAssumption DEF NoLog, Logs, Phases
<1>4. 0 \in 0..MaxIncarnations BY MaxIncarnationsAssumption
<1>5. CallType BY <1>2, <1>3, <1>4 DEF CallType, Steps, Unlocked, Modes, Outcomes
<1>6. LockType BY <1>2, NobodyAssumption DEF LockType, Locked, Holding, RetentionHolding
<1>7. ASSUME NEW p \in Proc PROVE Progress(p)
  <2>1. pc[p] = "idle" /\ named[p] = 0 /\ disk.gen = 1 BY <1>2 DEF Empty
  <2>2. Erases(p) BY <2>1 DEF Erases
  <2>3. Making(p) /\ Materializes(p) /\ Buries(p) BY <2>1 DEF Making, Materializes, Buries, Holding
  <2> QED BY <2>2, <2>3 DEF Progress
<1> QED BY <1>1, <1>5, <1>6, <1>7 DEF IInv

-----------------------------------------------------------------------------
(* What a step does at the public name, and what it reports.               *)

\* Only the rename, with the name free, puts the staged tree there.
LEMMA FinalStays ==
  ASSUME IInv, NEW p \in Proc,
         Materializing(p) \/ Retaining(p) \/ ForgetReads(p) \/ ForgetOpens(p), disk.final = "other"
  PROVE  disk'.final # "ours"
<1> USE DEF Put, Move, PutDurably, Sync
<1>1. disk \in Images BY DEF IInv, Stored
<1>2. CASE Materializing(p)
  BY <1>1, <1>2
  DEF Images, diskVars, Materializing, StartBelow, Start, CheckFinal, BoundedMakeRoot, MakeRoot,
     MakeTree, WriteIntent, ReserveEvent, CommitEvent, ConfirmEvent, SyncJournal, Opening,
     OpenRetained, Open, Reconfirm, FindSource, ConfirmCommitted, SyncRoot, BeginStage, PrepareStage,
     SyncStage, FindStaged, CopyFile, PlaceFile, ConfirmFile, VerifyStage, IntendPublication,
     RecoverPublication, VerifyBeforeRename, Rename, ConfirmRename, ConfirmFinal, VerifyFinal,
     Clean, Crash
<1>3. CASE Retaining(p)
  BY <1>1, <1>3
  DEF Images, diskVars, Read, Stop, SyncTomb, SyncTarget, Retaining, StageTomb, FillTomb, CommitTomb,
     ConfirmTomb, StartRetention, PruneOpens, Strip, EraseOpens, Erase, Vanishes, Vanished, Vanish,
     LookAgain, Unmark, ReportForgotten
<1>4. CASE ForgetReads(p) \/ ForgetOpens(p)
  BY <1>1, <1>4 DEF diskVars, Read, Stop, SyncTarget, ForgetReads, ForgetOpens
<1> QED BY <1>2, <1>3, <1>4

LEMMA NothingReplaced ==
  ASSUME IInv, [Next]_retentionVars PROVE disk.final = "other" /\ disk'.final = "ours" => PowerLoss
<1>1. SUFFICES ASSUME disk.final = "other", disk'.final = "ours" PROVE PowerLoss OBVIOUS
<1>2. ASSUME NEW p \in Proc, Materializing(p) \/ Retaining(p) \/ ForgetReads(p) \/ ForgetOpens(p)
      PROVE  FALSE
  BY <1>1, <1>2, FinalStays
<1>3. ~Occupy BY <1>1 DEF Occupy
<1>4. ~Vacate BY <1>1 DEF Vacate, Put, IInv, Stored, Images
<1>5. ~UNCHANGED retentionVars BY <1>1 DEF retentionVars, vars, diskVars
<1> QED BY <1>2, <1>3, <1>4, <1>5 DEF Next

\* An invocation ends by a step of its own.
LEMMA OthersGoOn ==
  ASSUME CallType, NEW p \in Proc, NEW q \in Proc \ {p},
         Materializing(p) \/ Retaining(p) \/ ForgetReads(p) \/ ForgetOpens(p)
  PROVE  pc'[q] = pc[q]
<1> USE DEF CallType, Goto, Return, Append, Step, Read, Stop
<1>1. CASE Materializing(p)
  BY <1>1
  DEF Materializing, StartBelow, Start, CheckFinal, BoundedMakeRoot, MakeRoot, MakeTree,
     WriteIntent, ReserveEvent, CommitEvent, ConfirmEvent, Continue, Opening, OpenRetained, Open,
     Reconfirm, FindSource, ConfirmCommitted, BeginStage, PrepareStage, FindStaged, CopyFile,
     PlaceFile, ConfirmFile, VerifyStage, IntendPublication, RecoverPublication,
     VerifyBeforeRename, Rename, ConfirmRename, ConfirmFinal, VerifyFinal, Clean, Crash
<1>2. CASE Retaining(p)
  BY <1>2
  DEF Retaining, StageTomb, FillTomb, CommitTomb, ConfirmTomb, StartRetention, PruneOpens,
     Strip, EraseOpens, Erase, Vanish, LookAgain, Unmark, ReportForgotten
<1>3. CASE ForgetReads(p) \/ ForgetOpens(p) BY <1>3 DEF ForgetReads, ForgetOpens
<1> QED BY <1>1, <1>2, <1>3

\* Which steps end with a report.
Reporting(p) == ConfirmEvent(p) \/ ConfirmCommitted(p) \/ ConfirmTomb(p) \/ PruneOpens(p) \/ ReportForgotten(p)

LEMMA OnlyTheseReport ==
  ASSUME CallType, NEW p \in Proc, pc'[p] = "idle",
         Materializing(p) \/ Retaining(p) \/ ForgetReads(p) \/ ForgetOpens(p)
  PROVE  Reporting(p) \/ outcome'[p] = "none"
<1> USE DEF CallType, Goto, Return, Append, Step, Read, Stop
<1>1. CASE Materializing(p)
  BY <1>1
  DEF Reporting, Materializing, StartBelow, Start, CheckFinal, BoundedMakeRoot, MakeRoot, MakeTree,
     WriteIntent, ReserveEvent, CommitEvent, Opening, OpenRetained, Open,
     Reconfirm, FindSource, BeginStage, PrepareStage, FindStaged, CopyFile,
     PlaceFile, ConfirmFile, VerifyStage, IntendPublication, RecoverPublication,
     VerifyBeforeRename, Rename, ConfirmRename, ConfirmFinal, VerifyFinal, Clean, Crash
<1>2. CASE Retaining(p)
  BY <1>2
  DEF Reporting, Retaining, StageTomb, FillTomb, CommitTomb, StartRetention,
     Strip, EraseOpens, Erase, Vanish, LookAgain, Unmark
<1>3. CASE ForgetReads(p) \/ ForgetOpens(p) BY <1>3 DEF ForgetReads, ForgetOpens
<1> QED BY <1>1, <1>2, <1>3

LEMMA ReturnReports ==
  ASSUME CallType, NEW p \in Proc, NEW o, Return(p, o) PROVE outcome'[p] = o
  BY DEF CallType, Return

\* What a report says of one image.
Truthful(p, o, j) ==
  /\ o \in {"committed", "already"} => j.log.phase = "committed" /\ j.scratch = 0
  /\ o = "abandoned" => j.log.phase = "abandoned"
  /\ o = "pruned" => ExactTombstone(j)
  /\ o = "forgotten" => j.gen # named[p] /\ j.erasing # named[p]

\* Its last event was synced before it is reported ...
LEMMA JournalReportHolds ==
  ASSUME IInv, NEW p \in Proc, ConfirmEvent(p) \/ ConfirmCommitted(p), pc'[p] = "idle",
         NEW j \in surviving'
  PROVE  Truthful(p, outcome'[p], j)
<1>1. CallType BY DEF IInv
<1>2. CASE ConfirmEvent(p)
  <2>1. pc[p] = "confirm" /\ SyncJournal /\ Continue(p) BY <1>2 DEF ConfirmEvent
  <2>2. Stored' /\ LogIsDurable' /\ disk' = disk BY <2>1, SyncJournalKeeps
  <2>3. disk.log.phase \in Terminal /\ Return(p, disk.log.phase)
    <3>1. ASSUME NEW step \in {"advance", "files"} PROVE ~Goto(p, step) BY GotoFields
    <3> QED BY <2>1, <3>1 DEF Continue, Terminal
  <2>4. outcome'[p] = disk.log.phase BY <1>1, <2>3, ReturnReports
  <2>5. j.log = disk.log BY <2>2 DEF LogIsDurable
  <2>6. j.log.phase = "committed" => j.scratch = 0 BY <2>2 DEF Stored, Sound, Alone
  <2> QED BY <2>3, <2>4, <2>5, <2>6 DEF Truthful, Terminal
<1>3. CASE ConfirmCommitted(p)
  <2>1. pc[p] = "advance" /\ disk.log.phase = "committed" BY <1>3 DEF ConfirmCommitted, At
  <2>2. pc[p] \in Holding \ {"intent", "confirm", "reconfirm"} BY <2>1 DEF Holding
  <2>3. Looks BY <1>3, <2>1 DEF ConfirmCommitted, Looks, Publishing
  <2>4. Stored' /\ LogIsDurable' /\ disk' = disk BY <2>2, <2>3, LooksKeeps
  <2>5. j.log = disk.log BY <2>4 DEF LogIsDurable
  <2>6. j.scratch = 0 BY <2>1, <2>4, <2>5 DEF Stored, Sound, Alone
  <2>7. outcome'[p] \in {"already", "none"} BY <1>1, <1>3, ReturnReports DEF ConfirmCommitted
  <2> QED BY <2>1, <2>5, <2>6, <2>7 DEF Truthful
<1> QED BY <1>2, <1>3

\* ... so was the tombstone, with the root of its directory ...
LEMMA TombReportHolds ==
  ASSUME IInv, NEW p \in Proc, ConfirmTomb(p) \/ PruneOpens(p), pc'[p] = "idle",
         NEW j \in surviving'
  PROVE  Truthful(p, outcome'[p], j)
<1>1. CallType /\ Stored BY DEF IInv
<1>2. \A step \in {"strip", "erase", "tomb"} : ~Goto(p, step) BY GotoFields
<1>3. CASE ConfirmTomb(p)
  <2>1. mode[p] = "prune" /\ disk.tomb.marks = "complete" /\ SyncTomb /\ Return(p, "pruned")
    BY <1>2, <1>3 DEF ConfirmTomb, Step
  <2>2. pc[p] = "tomb_confirm" BY <1>3 DEF ConfirmTomb
  <2>3. Marked(p) BY <2>2 DEF IInv, Progress, Buries
  <2>4. disk.root = "kept" BY <2>1, <2>3 DEF Marked
  <2>5. j.root = disk.root /\ j.tomb = disk.tomb BY <1>1, <2>1, SyncTombFields
  <2>6. outcome'[p] = "pruned" BY <1>1, <2>1, ReturnReports
  <2> QED BY <2>1, <2>4, <2>5, <2>6 DEF Truthful, ExactTombstone
<1>4. CASE PruneOpens(p)
  <2>1. (ExactTombstone(disk) /\ SyncTomb /\ Return(p, "pruned")) \/ Stop(p)
    BY <1>2, <1>4 DEF PruneOpens
  <2>2. CASE Stop(p)
    <3>1. outcome'[p] = "none" BY <1>1, <2>2, ReturnReports DEF Stop
    <3> QED BY <3>1 DEF Truthful
  <2>3. CASE ExactTombstone(disk) /\ SyncTomb /\ Return(p, "pruned")
    <3>1. j.root = disk.root /\ j.tomb = disk.tomb BY <1>1, <2>3, SyncTombFields
    <3>2. outcome'[p] = "pruned" BY <1>1, <2>3, ReturnReports
    <3> QED BY <2>3, <3>1, <3>2 DEF Truthful, ExactTombstone
  <2> QED BY <2>1, <2>2, <2>3
<1> QED BY <1>3, <1>4

\* ... and the removals of a forget, with its intent.
LEMMA ForgetReportHolds ==
  ASSUME IInv, NEW p \in Proc, ReportForgotten(p), NEW j \in surviving'
  PROVE  Truthful(p, outcome'[p], j)
<1>1. pc[p] = "report" /\ SyncTarget /\ Return(p, "forgotten") BY DEF ReportForgotten
<1>2. /\ Stored /\ Erases(p) /\ disk \in surviving
      /\ named[p] \in Nat /\ disk.gen \in Nat
  BY <1>1, EraserFacts
<1>3. named[p] < disk.gen /\ disk.erasing # named[p] BY <1>1, <1>2 DEF Erases
<1>4. j.gen = disk.gen /\ j.erasing = disk.erasing BY <1>1, <1>2, SyncTargetFields
<1>5. outcome'[p] = "forgotten" BY <1>1, ReturnReports DEF IInv
<1> QED BY <1>2, <1>3, <1>4, <1>5 DEF Truthful

LEMMA ReportHolds ==
  ASSUME IInv, [Next]_retentionVars, NEW p \in Proc, pc[p] # "idle", pc'[p] = "idle",
         NEW j \in surviving'
  PROVE  Truthful(p, outcome'[p], j)
<1>1. CallType BY DEF IInv
<1>2. ASSUME NEW q \in Proc,
             Materializing(q) \/ Retaining(q) \/ ForgetReads(q) \/ ForgetOpens(q)
      PROVE  Truthful(p, outcome'[p], j)
  <2>1. p = q BY <1>1, <1>2, OthersGoOn
  <2>2. Reporting(p) \/ outcome'[p] = "none" BY <1>1, <1>2, <2>1, OnlyTheseReport
  <2>3. CASE outcome'[p] = "none" BY <2>3 DEF Truthful
  <2> QED BY <2>2, <2>3, JournalReportHolds, TombReportHolds, ForgetReportHolds DEF Reporting
<1>3. CASE PowerLoss
  <2>1. outcome'[p] = "none" BY <1>3 DEF PowerLoss
  <2> QED BY <2>1 DEF Truthful
<1>4. ~Occupy /\ ~Vacate BY DEF Occupy, Vacate, callVars
<1>5. ~UNCHANGED retentionVars BY DEF retentionVars, vars, callVars
<1> QED BY <1>2, <1>3, <1>4, <1>5 DEF Next

-----------------------------------------------------------------------------
(* The theorems.                                                           *)

\* The inductive invariant.
THEOREM InvariantHolds == Spec => []IInv
<1>1. IInv /\ [Next]_retentionVars => IInv' BY NextKeeps
<1> QED BY InitKeeps, <1>1, PTL DEF Spec

\* The types of MaterializeRetention, and that exactly the holder of the
\* operation lock is in the operation directory (lockOperation, openJournal).
THEOREM MaterializeTypeCorrect == Spec => []TypeOK
<1>1. IInv => TypeOK BY DEF IInv, Stored, CallType, LockType, TypeOK, Locked, Steps, Outcomes
<1> QED BY InvariantHolds, <1>1, PTL

\* What stands at the public name and what was reported is accounted for: after
\* a power loss at any step of run, resume, abandon, prune and forget, in any
\* order and at once, a published tree has its record; only a free name is
\* published to; and no power loss takes back a report.
THEOREM PublicationsAreRecorded == Spec => PublicationIsRecorded
<1>1. IInv => PublishedIsRecorded
  BY DEF IInv, Stored, Sound, Alone, Vouched, VouchedBy, SealsCommitted, IsSealed, PublishedIsRecorded
<1>2. IInv /\ [Next]_retentionVars => (disk.final = "other" /\ disk'.final = "ours" => PowerLoss)
  BY NothingReplaced
<1>3. IInv /\ [Next]_retentionVars =>
        \A p \in Proc, j \in surviving' :
          /\ Reports(p, "committed") \/ Reports(p, "already") =>
               j.log.phase = "committed" /\ j.scratch = 0
          /\ Reports(p, "abandoned") => j.log.phase = "abandoned"
          /\ Reports(p, "pruned") => ExactTombstone(j)
          /\ Reports(p, "forgotten") => j.gen # named[p] /\ j.erasing # named[p]
  <2> SUFFICES ASSUME IInv, [Next]_retentionVars, NEW p \in Proc, NEW j \in surviving',
                      pc[p] # "idle", pc'[p] = "idle"
               PROVE  Truthful(p, outcome'[p], j)
    BY DEF Reports, Truthful
  <2> QED BY ReportHolds
<1> QED BY InvariantHolds, <1>1, <1>2, <1>3, PTL
   DEF Spec, PublicationIsRecorded, NeverReplaces, ReportsSurvive
-----------------------------------------------------------------------------
(* What keeps an operation from being stuck.                               *)
(*                                                                         *)
(* OnlyNamedCausesBlock looks at one image; a sync mixes two.  So what the *)
(* events claim has to be on the disk whichever image the journal and the  *)
(* public name are taken from (Supported), before an event is committed    *)
(* already (Claims); the tombstone answers a journal that no image lags    *)
(* behind (Settled); and what a later incarnation takes over is empty      *)
(* (Intact).                                                               *)

\* Backed, of a journal and the two directories that it is about.
BackedBy(l, stage, final) ==
  /\ l.phase = "journaled" => stage = 0
  /\ l.phase \in Unpublished => stage \in l.staged..(l.staged + 1)
  /\ l.phase \in {"stage_verified", "publish_intent"} /\ final # "ours" => stage = Files
  /\ l.phase \in Publishing \ {"publish_intent"} => final = "ours"

\* The staged marker is the one that comes next.
Paired(tomb) ==
  /\ tomb.pending = "intent" => tomb.marks = "dir"
  /\ tomb.pending = "complete" => tomb.marks = "intent"

Intact(j) ==
  /\ Paired(j.tomb)
  /\ j.erasing # j.gen /\ j.root \in {"stripping", "kept"} => j.tomb.marks \in {"intent", "complete"}
  /\ j.root # "intent" => j.stage = 0

StageBehind(j, d) == d.log.phase # "publish_intent" => j.stage <= d.stage

FinalBehind(j, d) == ~taken /\ j.gen = d.gen /\ j.final = "ours" => d.final = "ours"

Supported(j, d) ==
  ~taken /\ d.root = "intent" /\ d.tomb.marks = "none" =>
    \A l \in {j.log, d.log}, f \in {j.final, d.final} : BackedBy(l, j.stage, f)

Settled(j, d) ==
  ~hasty /\ d.root = "intent" /\ d.tomb.marks # "none" =>
    /\ j.log = d.log /\ d.log.phase \in Terminal
    /\ d.tomb.marks = "intent" => d.tomb.basis = d.log.phase

Fit(j, d) ==
  Intact(j) /\ StageBehind(j, d) /\ FinalBehind(j, d) /\ Supported(j, d) /\ Settled(j, d)

Fits == \A j \in surviving : Fit(j, disk)

\* What the event that an invocation writes will claim; what it has staged.
StageIsDurable == \A j \in surviving : j.stage = disk.stage

EventHolds(p) ==
  \A j \in surviving :
    /\ ~taken => \A f \in {j.final, disk.final} : BackedBy(event[p], j.stage, f)
    /\ event[p].phase # "publish_intent" => j.stage <= disk.stage

Claims(p) ==
  /\ pc[p] \in {"reserve", "commit"} => EventHolds(p)
  /\ pc[p] \in {"reserve", "commit"} /\ event[p].phase = "file_staged" => StageIsDurable
  /\ pc[p] = "confirm" /\ disk.log.phase = "file_staged" => StageIsDurable
  /\ pc[p] = "files" => StageIsDurable
  /\ pc[p] \in {"copy", "place"} => disk.stage <= disk.log.staged
  /\ pc[p] = "placed" => disk.stage = disk.log.staged + 1
  /\ pc[p] \in {"tomb_confirm", "strip"} /\ disk.root = "intent" =>
       disk.log.phase # "publish_intent"

CInv == Fits /\ \A p \in Proc : Claims(p)

-----------------------------------------------------------------------------
(* What an image gets from a write: the written directories are as the     *)
(* visible ones, the others as they were.                                  *)

Turns(parts, s, j) == Keeps(parts, s, j) /\ \A part \in parts : s[part] = disk'[part]

\* The write may be lost, or not.
Spreads(parts) ==
  /\ Keeps(parts, disk', disk)
  /\ \A s \in surviving' : \E j \in surviving : s = j \/ Turns(parts, s, j)
Sinks(parts) ==
  /\ Keeps(parts, disk', disk)
  /\ \A s \in surviving' : \E j \in surviving : Turns(parts, s, j)

USE DEF Put, Move, PutDurably, Sync

LEMMA SyncSinks ==
  ASSUME Stored, NEW parts \in SUBSET Writable, Sync(parts) PROVE Sinks(parts) /\ disk' = disk
<1>1. disk \in Images /\ surviving \subseteq Images BY DEF Stored
<1>2. Keeps(parts, disk, disk) BY DEF Keeps
<1>3. ASSUME NEW j \in surviving PROVE Turns(parts, Synced(j, parts), j)
  <2>1. Keeps(parts, Synced(j, parts), j) BY <1>1, SyncedKeeps
  <2>2. DOMAIN j = {"root", "log", "stage", "final", "scratch", "tomb", "gen", "erasing"}
    BY <1>1 DEF Images
  <2>3. \A part \in parts : Synced(j, parts)[part] = disk[part] BY <2>2 DEF Synced, Writable
  <2> QED BY <2>1, <2>3 DEF Turns
<1> QED BY <1>2, <1>3 DEF Sinks

LEMMA PutSpreads ==
  ASSUME Stored, NEW part \in Writable, NEW value, Put(part, value)
  PROVE  Spreads({part}) /\ disk'[part] = value
<1>1. disk \in Images /\ surviving \subseteq Images BY DEF Stored
<1> DEFINE parts == {part}
<1>2. Keeps(parts, disk', disk) /\ disk'[part] = value BY PutWrites DEF Writes
<1>3. \A j \in surviving : Current(j, parts) \in Images /\ Keeps(parts, Current(j, parts), j)
  BY <1>1, RenewedFields DEF Keeps, Current
<1>4. ASSUME NEW j \in surviving PROVE Turns(parts, [Current(j, parts) EXCEPT ![part] = value], j)
  <2> DEFINE c == Current(j, parts)
  <2>1. c \in Images /\ Keeps(parts, c, j) BY <1>3
  <2>2. part \in parts /\ parts \in SUBSET Writable OBVIOUS
  <2> HIDE DEF c, parts
  <2>3. Keeps(parts, [c EXCEPT ![part] = value], j) /\ [c EXCEPT ![part] = value][part] = value
    BY <2>1, <2>2, WrittenKeeps
  <2>4. \A x \in parts : x = part BY DEF parts
  <2> QED BY <1>2, <2>3, <2>4 DEF Turns, c
<1> HIDE DEF parts
<1>5. surviving' = surviving \cup {[Current(j, parts) EXCEPT ![part] = value] : j \in surviving}
  BY DEF Put, parts
<1>6. \A s \in surviving' : \E j \in surviving : s = j \/ Turns(parts, s, j) BY <1>4, <1>5
<1> QED BY <1>2, <1>6 DEF Spreads, parts

LEMMA PutDurablySinks ==
  ASSUME Stored, NEW part \in Writable, NEW value, PutDurably(part, value)
  PROVE  Sinks({part}) /\ disk'[part] = value
<1>1. disk \in Images /\ surviving \subseteq Images BY DEF Stored
<1> DEFINE parts == {part}
<1>2. Keeps(parts, disk', disk) /\ disk'[part] = value BY PutDurablyWrites DEF Writes
<1>3. \A j \in surviving : Synced(j, parts) \in Images /\ Keeps(parts, Synced(j, parts), j)
  BY <1>1, SyncedKeeps
<1>4. ASSUME NEW j \in surviving PROVE Turns(parts, [Synced(j, parts) EXCEPT ![part] = value], j)
  <2> DEFINE c == Synced(j, parts)
  <2>1. c \in Images /\ Keeps(parts, c, j) BY <1>3
  <2>2. part \in parts /\ parts \in SUBSET Writable OBVIOUS
  <2> HIDE DEF c, parts
  <2>3. Keeps(parts, [c EXCEPT ![part] = value], j) /\ [c EXCEPT ![part] = value][part] = value
    BY <2>1, <2>2, WrittenKeeps
  <2>4. \A x \in parts : x = part BY DEF parts
  <2> QED BY <1>2, <2>3, <2>4 DEF Turns, c
<1> HIDE DEF parts
<1>5. surviving' = {[Synced(j, parts) EXCEPT ![part] = value] : j \in surviving}
  BY DEF PutDurably, parts
<1>6. \A s \in surviving' : \E j \in surviving : Turns(parts, s, j) BY <1>4, <1>5
<1> QED BY <1>2, <1>6 DEF Sinks, parts

LEMMA MoveSpreads ==
  ASSUME Stored, NEW from \in Writable, NEW left, NEW to \in Writable, NEW value,
         Move(from, left, to, value), from # to, "root" \notin {from, to}
  PROVE  Spreads({from, to}) /\ disk'[from] = left /\ disk'[to] = value
<1>1. disk \in Images /\ surviving \subseteq Images BY DEF Stored
<1> DEFINE parts == {from, to}
           moved(j) == [j EXCEPT ![from] = left, ![to] = value]
<1>2. \A j \in Images : Keeps(parts, moved(j), j) /\ moved(j)[from] = left /\ moved(j)[to] = value
  BY DEF Keeps, Writable, Images
<1>3. disk' = moved(disk) /\ surviving' = surviving \cup {moved(j) : j \in surviving}
  BY DEF Move
<1> HIDE DEF moved
<1>4. disk'[from] = left /\ disk'[to] = value BY <1>1, <1>2, <1>3
<1>5. \A j \in surviving : Turns(parts, moved(j), j) BY <1>1, <1>2, <1>4 DEF Turns
<1> HIDE DEF parts
<1>6. \A s \in surviving' : \E j \in surviving : s = j \/ Turns(parts, s, j) BY <1>3, <1>5
<1> QED BY <1>1, <1>2, <1>3, <1>4, <1>6 DEF Spreads, parts

HIDE DEF Put, Move, PutDurably, Sync

LEMMA SinkSpreads == ASSUME NEW parts, Sinks(parts) PROVE Spreads(parts)
  BY DEF Sinks, Spreads

\* All that is known of an image and of the visible disk.
LEMMA ImageFacts ==
  ASSUME Stored, Fits, NEW j \in surviving
  PROVE  /\ Fit(j, disk) /\ Fit(disk, disk) /\ Sound(j, disk) /\ Sound(disk, disk)
         /\ j \in Images /\ disk \in Images /\ disk \in surviving
         /\ j.gen \in Nat \ {0} /\ j.erasing \in Nat /\ disk.gen \in Nat \ {0} /\ disk.erasing \in Nat
         /\ j.stage \in 0..Files /\ disk.stage \in 0..Files /\ j.log \in Logs /\ disk.log \in Logs
         /\ j.tomb \in Tombs /\ disk.tomb \in Tombs
  BY Generations DEF Stored, Fits, Images
-----------------------------------------------------------------------------
(* What is stored stays fit.                                               *)

\* The causes that are histories do not end.
Lasting == (~taken' => ~taken) /\ (~hasty' => ~hasty)

\* Scratch objects are no part of it.
LEMMA ScratchFits ==
  ASSUME Stored, Fits, Stored', Lasting, Spreads({"scratch"})
  PROVE  Fits'
<1> SUFFICES ASSUME NEW s \in surviving' PROVE Fit(s, disk)' BY DEF Fits
<1>1. PICK j \in surviving : s = j \/ Turns({"scratch"}, s, j) BY DEF Spreads
<1>2. /\ Fit(j, disk) /\ Fit(disk, disk) /\ Sound(j, disk) /\ Sound(disk, disk)
      /\ j.gen \in Nat \ {0} /\ j.erasing \in Nat /\ disk.gen \in Nat \ {0} /\ disk.erasing \in Nat
      /\ j.stage \in 0..Files /\ disk.stage \in 0..Files
      /\ j \in Images /\ disk \in Images /\ j.log \in Logs /\ disk.log \in Logs
      /\ disk'.stage \in 0..Files /\ disk.log.staged \in 0..Files
  BY ImageFacts DEF Stored, Images, Logs
<1>3. /\ disk'.root = disk.root /\ disk'.log = disk.log /\ disk'.stage = disk.stage
      /\ disk'.final = disk.final /\ disk'.tomb = disk.tomb /\ disk'.gen = disk.gen
      /\ disk'.erasing = disk.erasing
  BY <1>2 DEF Spreads, Keeps
<1>4. (~taken' => ~taken) /\ (~hasty' => ~hasty) BY DEF Lasting
<1>5. CASE s = j
  <2>2. Intact(s)' BY <1>2, <1>3, <1>4, <1>5 DEF Fit, Intact, Paired,
       Sound, Alone, Link, LinkRoot, LinkTomb, LinkErasing, LinkLog, Made, IsSealed, NoTomb, NoLog
  <2>3. StageBehind(s, disk)' BY <1>2, <1>3, <1>4, <1>5 DEF Fit, StageBehind,
       Sound, Alone, Link, LinkRoot, LinkTomb, LinkErasing, LinkLog, Made, IsSealed, NoTomb, NoLog
  <2>4. FinalBehind(s, disk)' BY <1>2, <1>3, <1>4, <1>5 DEF Fit, FinalBehind,
       Sound, Alone, Link, LinkRoot, LinkTomb, LinkErasing, LinkLog, Made, IsSealed, NoTomb, NoLog
  <2>5. Supported(s, disk)'
    <3> SUFFICES ASSUME ~taken', disk'.root = "intent", disk'.tomb.marks = "none",
                        NEW l \in {s.log, disk'.log}, NEW f \in {s.final, disk'.final}
                 PROVE  BackedBy(l, s.stage, f)
      BY DEF Supported
    <3> QED BY <1>2, <1>3, <1>4, <1>5 DEF Fit, Supported, BackedBy,
         Sound, Alone, Link, LinkRoot, LinkTomb, LinkErasing, LinkLog, Made, IsSealed, NoTomb, NoLog
  <2>6. Settled(s, disk)' BY <1>2, <1>3, <1>4, <1>5 DEF Fit, Settled,
       Sound, Alone, Link, LinkRoot, LinkTomb, LinkErasing, LinkLog, Made, IsSealed, NoTomb, NoLog
  <2> QED BY <2>2, <2>3, <2>4, <2>5, <2>6 DEF Fit
<1>6. CASE Turns({"scratch"}, s, j)
  <2>1. /\ s.root = j.root
        /\ s.log = j.log
        /\ s.stage = j.stage
        /\ s.final = j.final
        /\ s.tomb = j.tomb
        /\ s.gen = j.gen
        /\ s.erasing = j.erasing
    BY <1>6 DEF Turns, Keeps
  <2>2. Intact(s)' BY <1>2, <1>3, <1>4, <2>1 DEF Fit, Intact, Paired,
       Sound, Alone, Link, LinkRoot, LinkTomb, LinkErasing, LinkLog, Made, IsSealed, NoTomb, NoLog
  <2>3. StageBehind(s, disk)' BY <1>2, <1>3, <1>4, <2>1 DEF Fit, StageBehind,
       Sound, Alone, Link, LinkRoot, LinkTomb, LinkErasing, LinkLog, Made, IsSealed, NoTomb, NoLog
  <2>4. FinalBehind(s, disk)' BY <1>2, <1>3, <1>4, <2>1 DEF Fit, FinalBehind,
       Sound, Alone, Link, LinkRoot, LinkTomb, LinkErasing, LinkLog, Made, IsSealed, NoTomb, NoLog
  <2>5. Supported(s, disk)'
    <3> SUFFICES ASSUME ~taken', disk'.root = "intent", disk'.tomb.marks = "none",
                        NEW l \in {s.log, disk'.log}, NEW f \in {s.final, disk'.final}
                 PROVE  BackedBy(l, s.stage, f)
      BY DEF Supported
    <3> QED BY <1>2, <1>3, <1>4, <2>1 DEF Fit, Supported, BackedBy,
         Sound, Alone, Link, LinkRoot, LinkTomb, LinkErasing, LinkLog, Made, IsSealed, NoTomb, NoLog
  <2>6. Settled(s, disk)' BY <1>2, <1>3, <1>4, <2>1 DEF Fit, Settled,
       Sound, Alone, Link, LinkRoot, LinkTomb, LinkErasing, LinkLog, Made, IsSealed, NoTomb, NoLog
  <2> QED BY <2>2, <2>3, <2>4, <2>5, <2>6 DEF Fit
<1> QED BY <1>1, <1>5, <1>6

\* Somebody else at the public name.
LEMMA NameFits ==
  ASSUME Stored, Fits, Stored', Lasting, Spreads({"final"}),
         disk'.final # "ours",
         ~taken' => disk.final # "ours"
  PROVE  Fits'
<1> SUFFICES ASSUME NEW s \in surviving' PROVE Fit(s, disk)' BY DEF Fits
<1>1. PICK j \in surviving : s = j \/ Turns({"final"}, s, j) BY DEF Spreads
<1>2. /\ Fit(j, disk) /\ Fit(disk, disk) /\ Sound(j, disk) /\ Sound(disk, disk)
      /\ j.gen \in Nat \ {0} /\ j.erasing \in Nat /\ disk.gen \in Nat \ {0} /\ disk.erasing \in Nat
      /\ j.stage \in 0..Files /\ disk.stage \in 0..Files
      /\ j \in Images /\ disk \in Images /\ j.log \in Logs /\ disk.log \in Logs
      /\ disk'.stage \in 0..Files /\ disk.log.staged \in 0..Files
  BY ImageFacts DEF Stored, Images, Logs
<1>3. /\ disk'.root = disk.root /\ disk'.log = disk.log /\ disk'.stage = disk.stage
      /\ disk'.tomb = disk.tomb /\ disk'.gen = disk.gen /\ disk'.erasing = disk.erasing
  BY <1>2 DEF Spreads, Keeps
<1>4. (~taken' => ~taken) /\ (~hasty' => ~hasty) BY DEF Lasting
<1>5. CASE s = j
  <2>2. Intact(s)' BY <1>2, <1>3, <1>4, <1>5 DEF Fit, Intact, Paired,
       Sound, Alone, Link, LinkRoot, LinkTomb, LinkErasing, LinkLog, Made, IsSealed, NoTomb, NoLog
  <2>3. StageBehind(s, disk)' BY <1>2, <1>3, <1>4, <1>5 DEF Fit, StageBehind,
       Sound, Alone, Link, LinkRoot, LinkTomb, LinkErasing, LinkLog, Made, IsSealed, NoTomb, NoLog
  <2>4. FinalBehind(s, disk)' BY <1>2, <1>3, <1>4, <1>5 DEF Fit, FinalBehind,
       Sound, Alone, Link, LinkRoot, LinkTomb, LinkErasing, LinkLog, Made, IsSealed, NoTomb, NoLog
  <2>5. Supported(s, disk)'
    <3> SUFFICES ASSUME ~taken', disk'.root = "intent", disk'.tomb.marks = "none",
                        NEW l \in {s.log, disk'.log}, NEW f \in {s.final, disk'.final}
                 PROVE  BackedBy(l, s.stage, f)
      BY DEF Supported
    <3> QED BY <1>2, <1>3, <1>4, <1>5 DEF Fit, Supported, BackedBy,
         Sound, Alone, Link, LinkRoot, LinkTomb, LinkErasing, LinkLog, Made, IsSealed, NoTomb, NoLog
  <2>6. Settled(s, disk)' BY <1>2, <1>3, <1>4, <1>5 DEF Fit, Settled,
       Sound, Alone, Link, LinkRoot, LinkTomb, LinkErasing, LinkLog, Made, IsSealed, NoTomb, NoLog
  <2> QED BY <2>2, <2>3, <2>4, <2>5, <2>6 DEF Fit
<1>6. CASE Turns({"final"}, s, j)
  <2>1. /\ s.root = j.root
        /\ s.log = j.log
        /\ s.stage = j.stage
        /\ s.final = disk'.final
        /\ s.tomb = j.tomb
        /\ s.gen = j.gen
        /\ s.erasing = j.erasing
    BY <1>6 DEF Turns, Keeps
  <2>2. Intact(s)' BY <1>2, <1>3, <1>4, <2>1 DEF Fit, Intact, Paired,
       Sound, Alone, Link, LinkRoot, LinkTomb, LinkErasing, LinkLog, Made, IsSealed, NoTomb, NoLog
  <2>3. StageBehind(s, disk)' BY <1>2, <1>3, <1>4, <2>1 DEF Fit, StageBehind,
       Sound, Alone, Link, LinkRoot, LinkTomb, LinkErasing, LinkLog, Made, IsSealed, NoTomb, NoLog
  <2>4. FinalBehind(s, disk)' BY <1>2, <1>3, <1>4, <2>1 DEF Fit, FinalBehind,
       Sound, Alone, Link, LinkRoot, LinkTomb, LinkErasing, LinkLog, Made, IsSealed, NoTomb, NoLog
  <2>5. Supported(s, disk)'
    <3> SUFFICES ASSUME ~taken', disk'.root = "intent", disk'.tomb.marks = "none",
                        NEW l \in {s.log, disk'.log}, NEW f \in {s.final, disk'.final}
                 PROVE  BackedBy(l, s.stage, f)
      BY DEF Supported
    <3> QED BY <1>2, <1>3, <1>4, <2>1 DEF Fit, Supported, BackedBy,
         Sound, Alone, Link, LinkRoot, LinkTomb, LinkErasing, LinkLog, Made, IsSealed, NoTomb, NoLog
  <2>6. Settled(s, disk)' BY <1>2, <1>3, <1>4, <2>1 DEF Fit, Settled,
       Sound, Alone, Link, LinkRoot, LinkTomb, LinkErasing, LinkLog, Made, IsSealed, NoTomb, NoLog
  <2> QED BY <2>2, <2>3, <2>4, <2>5, <2>6 DEF Fit
<1> QED BY <1>1, <1>5, <1>6

\* An event whose claims hold on every image.
LEMMA EventFits ==
  ASSUME Stored, Fits, Stored', Lasting, Spreads({"scratch", "log"}),
         NEW p \in Proc,
         EventHolds(p),
         disk'.log = event[p],
         disk.root = "intent",
         disk.tomb.marks = "none"
  PROVE  Fits'
<1> SUFFICES ASSUME NEW s \in surviving' PROVE Fit(s, disk)' BY DEF Fits
<1>1. PICK j \in surviving : s = j \/ Turns({"scratch", "log"}, s, j) BY DEF Spreads
<1>2. /\ Fit(j, disk) /\ Fit(disk, disk) /\ Sound(j, disk) /\ Sound(disk, disk)
      /\ j.gen \in Nat \ {0} /\ j.erasing \in Nat /\ disk.gen \in Nat \ {0} /\ disk.erasing \in Nat
      /\ j.stage \in 0..Files /\ disk.stage \in 0..Files
      /\ j \in Images /\ disk \in Images /\ j.log \in Logs /\ disk.log \in Logs
      /\ disk'.stage \in 0..Files /\ disk.log.staged \in 0..Files
  BY ImageFacts DEF Stored, Images, Logs
<1>3. /\ disk'.root = disk.root /\ disk'.stage = disk.stage /\ disk'.final = disk.final
      /\ disk'.tomb = disk.tomb /\ disk'.gen = disk.gen /\ disk'.erasing = disk.erasing
  BY <1>2 DEF Spreads, Keeps
<1>4. (~taken' => ~taken) /\ (~hasty' => ~hasty) BY DEF Lasting
<1>5. CASE s = j
  <2>2. Intact(s)' BY <1>2, <1>3, <1>4, <1>5 DEF Fit, Intact, Paired,
       Sound, Alone, Link, LinkRoot, LinkTomb, LinkErasing, LinkLog, Made, IsSealed, NoTomb, NoLog
  <2>3. StageBehind(s, disk)' BY <1>2, <1>3, <1>4, <1>5 DEF Fit, StageBehind, EventHolds,
       Sound, Alone, Link, LinkRoot, LinkTomb, LinkErasing, LinkLog, Made, IsSealed, NoTomb, NoLog
  <2>4. FinalBehind(s, disk)' BY <1>2, <1>3, <1>4, <1>5 DEF Fit, FinalBehind,
       Sound, Alone, Link, LinkRoot, LinkTomb, LinkErasing, LinkLog, Made, IsSealed, NoTomb, NoLog
  <2>5. Supported(s, disk)'
    <3> SUFFICES ASSUME ~taken', disk'.root = "intent", disk'.tomb.marks = "none",
                        NEW l \in {s.log, disk'.log}, NEW f \in {s.final, disk'.final}
                 PROVE  BackedBy(l, s.stage, f)
      BY DEF Supported
    <3> QED BY <1>2, <1>3, <1>4, <1>5 DEF Fit, Supported, BackedBy, EventHolds,
         Sound, Alone, Link, LinkRoot, LinkTomb, LinkErasing, LinkLog, Made, IsSealed, NoTomb, NoLog
  <2>6. Settled(s, disk)' BY <1>2, <1>3, <1>4, <1>5 DEF Fit, Settled,
       Sound, Alone, Link, LinkRoot, LinkTomb, LinkErasing, LinkLog, Made, IsSealed, NoTomb, NoLog
  <2> QED BY <2>2, <2>3, <2>4, <2>5, <2>6 DEF Fit
<1>6. CASE Turns({"scratch", "log"}, s, j)
  <2>1. /\ s.root = j.root
        /\ s.log = disk'.log
        /\ s.stage = j.stage
        /\ s.final = j.final
        /\ s.tomb = j.tomb
        /\ s.gen = j.gen
        /\ s.erasing = j.erasing
    BY <1>6 DEF Turns, Keeps
  <2>2. Intact(s)' BY <1>2, <1>3, <1>4, <2>1 DEF Fit, Intact, Paired,
       Sound, Alone, Link, LinkRoot, LinkTomb, LinkErasing, LinkLog, Made, IsSealed, NoTomb, NoLog
  <2>3. StageBehind(s, disk)' BY <1>2, <1>3, <1>4, <2>1 DEF Fit, StageBehind, EventHolds,
       Sound, Alone, Link, LinkRoot, LinkTomb, LinkErasing, LinkLog, Made, IsSealed, NoTomb, NoLog
  <2>4. FinalBehind(s, disk)' BY <1>2, <1>3, <1>4, <2>1 DEF Fit, FinalBehind,
       Sound, Alone, Link, LinkRoot, LinkTomb, LinkErasing, LinkLog, Made, IsSealed, NoTomb, NoLog
  <2>5. Supported(s, disk)'
    <3> SUFFICES ASSUME ~taken', disk'.root = "intent", disk'.tomb.marks = "none",
                        NEW l \in {s.log, disk'.log}, NEW f \in {s.final, disk'.final}
                 PROVE  BackedBy(l, s.stage, f)
      BY DEF Supported
    <3> QED BY <1>2, <1>3, <1>4, <2>1 DEF Fit, Supported, BackedBy, EventHolds,
         Sound, Alone, Link, LinkRoot, LinkTomb, LinkErasing, LinkLog, Made, IsSealed, NoTomb, NoLog
  <2>6. Settled(s, disk)' BY <1>2, <1>3, <1>4, <2>1 DEF Fit, Settled,
       Sound, Alone, Link, LinkRoot, LinkTomb, LinkErasing, LinkLog, Made, IsSealed, NoTomb, NoLog
  <2> QED BY <2>2, <2>3, <2>4, <2>5, <2>6 DEF Fit
<1> QED BY <1>1, <1>5, <1>6

\* The journal.
LEMMA JournalSyncFits ==
  ASSUME Stored, Fits, Stored', Lasting, Spreads({"log", "scratch"}), disk' = disk
  PROVE  Fits'
<1> SUFFICES ASSUME NEW s \in surviving' PROVE Fit(s, disk)' BY DEF Fits
<1>1. PICK j \in surviving : s = j \/ Turns({"log", "scratch"}, s, j) BY DEF Spreads
<1>2. /\ Fit(j, disk) /\ Fit(disk, disk) /\ Sound(j, disk) /\ Sound(disk, disk)
      /\ j.gen \in Nat \ {0} /\ j.erasing \in Nat /\ disk.gen \in Nat \ {0} /\ disk.erasing \in Nat
      /\ j.stage \in 0..Files /\ disk.stage \in 0..Files
      /\ j \in Images /\ disk \in Images /\ j.log \in Logs /\ disk.log \in Logs
      /\ disk'.stage \in 0..Files /\ disk.log.staged \in 0..Files
  BY ImageFacts DEF Stored, Images, Logs
<1>3. /\ disk'.root = disk.root /\ disk'.stage = disk.stage /\ disk'.final = disk.final
      /\ disk'.tomb = disk.tomb /\ disk'.gen = disk.gen /\ disk'.erasing = disk.erasing
  BY <1>2 DEF Spreads, Keeps
<1>4. (~taken' => ~taken) /\ (~hasty' => ~hasty) BY DEF Lasting
<1>5. CASE s = j
  <2>2. Intact(s)' BY <1>2, <1>3, <1>4, <1>5 DEF Fit, Intact, Paired,
       Sound, Alone, Link, LinkRoot, LinkTomb, LinkErasing, LinkLog, Made, IsSealed, NoTomb, NoLog
  <2>3. StageBehind(s, disk)' BY <1>2, <1>3, <1>4, <1>5 DEF Fit, StageBehind,
       Sound, Alone, Link, LinkRoot, LinkTomb, LinkErasing, LinkLog, Made, IsSealed, NoTomb, NoLog
  <2>4. FinalBehind(s, disk)' BY <1>2, <1>3, <1>4, <1>5 DEF Fit, FinalBehind,
       Sound, Alone, Link, LinkRoot, LinkTomb, LinkErasing, LinkLog, Made, IsSealed, NoTomb, NoLog
  <2>5. Supported(s, disk)'
    <3> SUFFICES ASSUME ~taken', disk'.root = "intent", disk'.tomb.marks = "none",
                        NEW l \in {s.log, disk'.log}, NEW f \in {s.final, disk'.final}
                 PROVE  BackedBy(l, s.stage, f)
      BY DEF Supported
    <3> QED BY <1>2, <1>3, <1>4, <1>5 DEF Fit, Supported, BackedBy,
         Sound, Alone, Link, LinkRoot, LinkTomb, LinkErasing, LinkLog, Made, IsSealed, NoTomb, NoLog
  <2>6. Settled(s, disk)' BY <1>2, <1>3, <1>4, <1>5 DEF Fit, Settled,
       Sound, Alone, Link, LinkRoot, LinkTomb, LinkErasing, LinkLog, Made, IsSealed, NoTomb, NoLog
  <2> QED BY <2>2, <2>3, <2>4, <2>5, <2>6 DEF Fit
<1>6. CASE Turns({"log", "scratch"}, s, j)
  <2>1. /\ s.root = j.root
        /\ s.log = disk'.log
        /\ s.stage = j.stage
        /\ s.final = j.final
        /\ s.tomb = j.tomb
        /\ s.gen = j.gen
        /\ s.erasing = j.erasing
    BY <1>6 DEF Turns, Keeps
  <2>2. Intact(s)' BY <1>2, <1>3, <1>4, <2>1 DEF Fit, Intact, Paired,
       Sound, Alone, Link, LinkRoot, LinkTomb, LinkErasing, LinkLog, Made, IsSealed, NoTomb, NoLog
  <2>3. StageBehind(s, disk)' BY <1>2, <1>3, <1>4, <2>1 DEF Fit, StageBehind,
       Sound, Alone, Link, LinkRoot, LinkTomb, LinkErasing, LinkLog, Made, IsSealed, NoTomb, NoLog
  <2>4. FinalBehind(s, disk)' BY <1>2, <1>3, <1>4, <2>1 DEF Fit, FinalBehind,
       Sound, Alone, Link, LinkRoot, LinkTomb, LinkErasing, LinkLog, Made, IsSealed, NoTomb, NoLog
  <2>5. Supported(s, disk)'
    <3> SUFFICES ASSUME ~taken', disk'.root = "intent", disk'.tomb.marks = "none",
                        NEW l \in {s.log, disk'.log}, NEW f \in {s.final, disk'.final}
                 PROVE  BackedBy(l, s.stage, f)
      BY DEF Supported
    <3> QED BY <1>2, <1>3, <1>4, <2>1 DEF Fit, Supported, BackedBy,
         Sound, Alone, Link, LinkRoot, LinkTomb, LinkErasing, LinkLog, Made, IsSealed, NoTomb, NoLog
  <2>6. Settled(s, disk)' BY <1>2, <1>3, <1>4, <2>1 DEF Fit, Settled,
       Sound, Alone, Link, LinkRoot, LinkTomb, LinkErasing, LinkLog, Made, IsSealed, NoTomb, NoLog
  <2> QED BY <2>2, <2>3, <2>4, <2>5, <2>6 DEF Fit
<1> QED BY <1>1, <1>5, <1>6

\* The staging tree, under a durable journal.
LEMMA StageSyncFits ==
  ASSUME Stored, Fits, Stored', Lasting, Spreads({"stage", "scratch"}), disk' = disk,
         LogIsDurable,
         disk.root = "intent",
         disk.log.phase \in {"stage_created", "file_staged"}
  PROVE  Fits'
<1> SUFFICES ASSUME NEW s \in surviving' PROVE Fit(s, disk)' BY DEF Fits
<1>1. PICK j \in surviving : s = j \/ Turns({"stage", "scratch"}, s, j) BY DEF Spreads
<1>2. /\ Fit(j, disk) /\ Fit(disk, disk) /\ Sound(j, disk) /\ Sound(disk, disk)
      /\ j.gen \in Nat \ {0} /\ j.erasing \in Nat /\ disk.gen \in Nat \ {0} /\ disk.erasing \in Nat
      /\ j.stage \in 0..Files /\ disk.stage \in 0..Files
      /\ j \in Images /\ disk \in Images /\ j.log \in Logs /\ disk.log \in Logs
      /\ disk'.stage \in 0..Files /\ disk.log.staged \in 0..Files
  BY ImageFacts DEF Stored, Images, Logs
<1>3. /\ disk'.root = disk.root /\ disk'.log = disk.log /\ disk'.final = disk.final
      /\ disk'.tomb = disk.tomb /\ disk'.gen = disk.gen /\ disk'.erasing = disk.erasing
  BY <1>2 DEF Spreads, Keeps
<1>4. (~taken' => ~taken) /\ (~hasty' => ~hasty) BY DEF Lasting
<1>5. CASE s = j
  <2>2. Intact(s)' BY <1>2, <1>3, <1>4, <1>5 DEF Fit, Intact, Paired,
       Sound, Alone, Link, LinkRoot, LinkTomb, LinkErasing, LinkLog, Made, IsSealed, NoTomb, NoLog
  <2>3. StageBehind(s, disk)' BY <1>2, <1>3, <1>4, <1>5 DEF Fit, StageBehind,
       Sound, Alone, Link, LinkRoot, LinkTomb, LinkErasing, LinkLog, Made, IsSealed, NoTomb, NoLog
  <2>4. FinalBehind(s, disk)' BY <1>2, <1>3, <1>4, <1>5 DEF Fit, FinalBehind,
       Sound, Alone, Link, LinkRoot, LinkTomb, LinkErasing, LinkLog, Made, IsSealed, NoTomb, NoLog
  <2>5. Supported(s, disk)'
    <3> SUFFICES ASSUME ~taken', disk'.root = "intent", disk'.tomb.marks = "none",
                        NEW l \in {s.log, disk'.log}, NEW f \in {s.final, disk'.final}
                 PROVE  BackedBy(l, s.stage, f)
      BY DEF Supported
    <3> QED BY <1>2, <1>3, <1>4, <1>5 DEF Fit, Supported, BackedBy, LogIsDurable, Unpublished, Publishing,
         Sound, Alone, Link, LinkRoot, LinkTomb, LinkErasing, LinkLog, Made, IsSealed, NoTomb, NoLog
  <2>6. Settled(s, disk)' BY <1>2, <1>3, <1>4, <1>5 DEF Fit, Settled,
       Sound, Alone, Link, LinkRoot, LinkTomb, LinkErasing, LinkLog, Made, IsSealed, NoTomb, NoLog
  <2> QED BY <2>2, <2>3, <2>4, <2>5, <2>6 DEF Fit
<1>6. CASE Turns({"stage", "scratch"}, s, j)
  <2>1. /\ s.root = j.root
        /\ s.log = j.log
        /\ s.stage = disk'.stage
        /\ s.final = j.final
        /\ s.tomb = j.tomb
        /\ s.gen = j.gen
        /\ s.erasing = j.erasing
    BY <1>6 DEF Turns, Keeps
  <2>2. Intact(s)' BY <1>2, <1>3, <1>4, <2>1 DEF Fit, Intact, Paired,
       Sound, Alone, Link, LinkRoot, LinkTomb, LinkErasing, LinkLog, Made, IsSealed, NoTomb, NoLog
  <2>3. StageBehind(s, disk)' BY <1>2, <1>3, <1>4, <2>1 DEF Fit, StageBehind,
       Sound, Alone, Link, LinkRoot, LinkTomb, LinkErasing, LinkLog, Made, IsSealed, NoTomb, NoLog
  <2>4. FinalBehind(s, disk)' BY <1>2, <1>3, <1>4, <2>1 DEF Fit, FinalBehind,
       Sound, Alone, Link, LinkRoot, LinkTomb, LinkErasing, LinkLog, Made, IsSealed, NoTomb, NoLog
  <2>5. Supported(s, disk)'
    <3> SUFFICES ASSUME ~taken', disk'.root = "intent", disk'.tomb.marks = "none",
                        NEW l \in {s.log, disk'.log}, NEW f \in {s.final, disk'.final}
                 PROVE  BackedBy(l, s.stage, f)
      BY DEF Supported
    <3> QED BY <1>2, <1>3, <1>4, <2>1 DEF Fit, Supported, BackedBy, LogIsDurable, Unpublished, Publishing,
         Sound, Alone, Link, LinkRoot, LinkTomb, LinkErasing, LinkLog, Made, IsSealed, NoTomb, NoLog
  <2>6. Settled(s, disk)' BY <1>2, <1>3, <1>4, <2>1 DEF Fit, Settled,
       Sound, Alone, Link, LinkRoot, LinkTomb, LinkErasing, LinkLog, Made, IsSealed, NoTomb, NoLog
  <2> QED BY <2>2, <2>3, <2>4, <2>5, <2>6 DEF Fit
<1> QED BY <1>1, <1>5, <1>6

\* A staged file, the next one of the manifest.
LEMMA PlaceFits ==
  ASSUME Stored, Fits, Stored', Lasting, Spreads({"scratch", "stage"}),
         LogIsDurable,
         disk.log.phase \in {"stage_created", "file_staged"},
         disk.stage <= disk.log.staged,
         disk'.stage = disk.log.staged + 1,
         disk.root = "intent",
         disk.tomb.marks = "none"
  PROVE  Fits'
<1> SUFFICES ASSUME NEW s \in surviving' PROVE Fit(s, disk)' BY DEF Fits
<1>1. PICK j \in surviving : s = j \/ Turns({"scratch", "stage"}, s, j) BY DEF Spreads
<1>2. /\ Fit(j, disk) /\ Fit(disk, disk) /\ Sound(j, disk) /\ Sound(disk, disk)
      /\ j.gen \in Nat \ {0} /\ j.erasing \in Nat /\ disk.gen \in Nat \ {0} /\ disk.erasing \in Nat
      /\ j.stage \in 0..Files /\ disk.stage \in 0..Files
      /\ j \in Images /\ disk \in Images /\ j.log \in Logs /\ disk.log \in Logs
      /\ disk'.stage \in 0..Files /\ disk.log.staged \in 0..Files
  BY ImageFacts DEF Stored, Images, Logs
<1>3. /\ disk'.root = disk.root /\ disk'.log = disk.log /\ disk'.final = disk.final
      /\ disk'.tomb = disk.tomb /\ disk'.gen = disk.gen /\ disk'.erasing = disk.erasing
  BY <1>2 DEF Spreads, Keeps
<1>4. (~taken' => ~taken) /\ (~hasty' => ~hasty) BY DEF Lasting
<1>5. CASE s = j
  <2>2. Intact(s)' BY <1>2, <1>3, <1>4, <1>5 DEF Fit, Intact, Paired,
       Sound, Alone, Link, LinkRoot, LinkTomb, LinkErasing, LinkLog, Made, IsSealed, NoTomb, NoLog
  <2>3. StageBehind(s, disk)' BY <1>2, <1>3, <1>4, <1>5 DEF Fit, StageBehind,
       Sound, Alone, Link, LinkRoot, LinkTomb, LinkErasing, LinkLog, Made, IsSealed, NoTomb, NoLog
  <2>4. FinalBehind(s, disk)' BY <1>2, <1>3, <1>4, <1>5 DEF Fit, FinalBehind,
       Sound, Alone, Link, LinkRoot, LinkTomb, LinkErasing, LinkLog, Made, IsSealed, NoTomb, NoLog
  <2>5. Supported(s, disk)'
    <3> SUFFICES ASSUME ~taken', disk'.root = "intent", disk'.tomb.marks = "none",
                        NEW l \in {s.log, disk'.log}, NEW f \in {s.final, disk'.final}
                 PROVE  BackedBy(l, s.stage, f)
      BY DEF Supported
    <3> QED BY <1>2, <1>3, <1>4, <1>5 DEF Fit, Supported, BackedBy, LogIsDurable, Unpublished, Publishing,
         Sound, Alone, Link, LinkRoot, LinkTomb, LinkErasing, LinkLog, Made, IsSealed, NoTomb, NoLog
  <2>6. Settled(s, disk)' BY <1>2, <1>3, <1>4, <1>5 DEF Fit, Settled,
       Sound, Alone, Link, LinkRoot, LinkTomb, LinkErasing, LinkLog, Made, IsSealed, NoTomb, NoLog
  <2> QED BY <2>2, <2>3, <2>4, <2>5, <2>6 DEF Fit
<1>6. CASE Turns({"scratch", "stage"}, s, j)
  <2>1. /\ s.root = j.root
        /\ s.log = j.log
        /\ s.stage = disk'.stage
        /\ s.final = j.final
        /\ s.tomb = j.tomb
        /\ s.gen = j.gen
        /\ s.erasing = j.erasing
    BY <1>6 DEF Turns, Keeps
  <2>2. Intact(s)' BY <1>2, <1>3, <1>4, <2>1 DEF Fit, Intact, Paired,
       Sound, Alone, Link, LinkRoot, LinkTomb, LinkErasing, LinkLog, Made, IsSealed, NoTomb, NoLog
  <2>3. StageBehind(s, disk)' BY <1>2, <1>3, <1>4, <2>1 DEF Fit, StageBehind,
       Sound, Alone, Link, LinkRoot, LinkTomb, LinkErasing, LinkLog, Made, IsSealed, NoTomb, NoLog
  <2>4. FinalBehind(s, disk)' BY <1>2, <1>3, <1>4, <2>1 DEF Fit, FinalBehind,
       Sound, Alone, Link, LinkRoot, LinkTomb, LinkErasing, LinkLog, Made, IsSealed, NoTomb, NoLog
  <2>5. Supported(s, disk)'
    <3> SUFFICES ASSUME ~taken', disk'.root = "intent", disk'.tomb.marks = "none",
                        NEW l \in {s.log, disk'.log}, NEW f \in {s.final, disk'.final}
                 PROVE  BackedBy(l, s.stage, f)
      BY DEF Supported
    <3> QED BY <1>2, <1>3, <1>4, <2>1 DEF Fit, Supported, BackedBy, LogIsDurable, Unpublished, Publishing,
         Sound, Alone, Link, LinkRoot, LinkTomb, LinkErasing, LinkLog, Made, IsSealed, NoTomb, NoLog
  <2>6. Settled(s, disk)' BY <1>2, <1>3, <1>4, <2>1 DEF Fit, Settled,
       Sound, Alone, Link, LinkRoot, LinkTomb, LinkErasing, LinkLog, Made, IsSealed, NoTomb, NoLog
  <2> QED BY <2>2, <2>3, <2>4, <2>5, <2>6 DEF Fit
<1> QED BY <1>1, <1>5, <1>6

\* The staged tree gets the public name.
LEMMA RenameFits ==
  ASSUME Stored, Fits, Stored', Lasting, Spreads({"stage", "final"}),
         LogIsDurable,
         disk.log.phase = "publish_intent",
         disk'.stage = 0,
         disk'.final = "ours",
         disk.root = "intent",
         disk.tomb.marks = "none"
  PROVE  Fits'
<1> SUFFICES ASSUME NEW s \in surviving' PROVE Fit(s, disk)' BY DEF Fits
<1>1. PICK j \in surviving : s = j \/ Turns({"stage", "final"}, s, j) BY DEF Spreads
<1>2. /\ Fit(j, disk) /\ Fit(disk, disk) /\ Sound(j, disk) /\ Sound(disk, disk)
      /\ j.gen \in Nat \ {0} /\ j.erasing \in Nat /\ disk.gen \in Nat \ {0} /\ disk.erasing \in Nat
      /\ j.stage \in 0..Files /\ disk.stage \in 0..Files
      /\ j \in Images /\ disk \in Images /\ j.log \in Logs /\ disk.log \in Logs
      /\ disk'.stage \in 0..Files /\ disk.log.staged \in 0..Files
  BY ImageFacts DEF Stored, Images, Logs
<1>3. /\ disk'.root = disk.root /\ disk'.log = disk.log /\ disk'.tomb = disk.tomb
      /\ disk'.gen = disk.gen /\ disk'.erasing = disk.erasing
  BY <1>2 DEF Spreads, Keeps
<1>4. (~taken' => ~taken) /\ (~hasty' => ~hasty) BY DEF Lasting
<1>5. CASE s = j
  <2>2. Intact(s)' BY <1>2, <1>3, <1>4, <1>5 DEF Fit, Intact, Paired,
       Sound, Alone, Link, LinkRoot, LinkTomb, LinkErasing, LinkLog, Made, IsSealed, NoTomb, NoLog
  <2>3. StageBehind(s, disk)' BY <1>2, <1>3, <1>4, <1>5 DEF Fit, StageBehind,
       Sound, Alone, Link, LinkRoot, LinkTomb, LinkErasing, LinkLog, Made, IsSealed, NoTomb, NoLog
  <2>4. FinalBehind(s, disk)' BY <1>2, <1>3, <1>4, <1>5 DEF Fit, FinalBehind,
       Sound, Alone, Link, LinkRoot, LinkTomb, LinkErasing, LinkLog, Made, IsSealed, NoTomb, NoLog
  <2>5. Supported(s, disk)'
    <3> SUFFICES ASSUME ~taken', disk'.root = "intent", disk'.tomb.marks = "none",
                        NEW l \in {s.log, disk'.log}, NEW f \in {s.final, disk'.final}
                 PROVE  BackedBy(l, s.stage, f)
      BY DEF Supported
    <3> QED BY <1>2, <1>3, <1>4, <1>5 DEF Fit, Supported, BackedBy, LogIsDurable, Unpublished, Publishing,
         Sound, Alone, Link, LinkRoot, LinkTomb, LinkErasing, LinkLog, Made, IsSealed, NoTomb, NoLog
  <2>6. Settled(s, disk)' BY <1>2, <1>3, <1>4, <1>5 DEF Fit, Settled,
       Sound, Alone, Link, LinkRoot, LinkTomb, LinkErasing, LinkLog, Made, IsSealed, NoTomb, NoLog
  <2> QED BY <2>2, <2>3, <2>4, <2>5, <2>6 DEF Fit
<1>6. CASE Turns({"stage", "final"}, s, j)
  <2>1. /\ s.root = j.root
        /\ s.log = j.log
        /\ s.stage = disk'.stage
        /\ s.final = disk'.final
        /\ s.tomb = j.tomb
        /\ s.gen = j.gen
        /\ s.erasing = j.erasing
    BY <1>6 DEF Turns, Keeps
  <2>2. Intact(s)' BY <1>2, <1>3, <1>4, <2>1 DEF Fit, Intact, Paired,
       Sound, Alone, Link, LinkRoot, LinkTomb, LinkErasing, LinkLog, Made, IsSealed, NoTomb, NoLog
  <2>3. StageBehind(s, disk)' BY <1>2, <1>3, <1>4, <2>1 DEF Fit, StageBehind,
       Sound, Alone, Link, LinkRoot, LinkTomb, LinkErasing, LinkLog, Made, IsSealed, NoTomb, NoLog
  <2>4. FinalBehind(s, disk)' BY <1>2, <1>3, <1>4, <2>1 DEF Fit, FinalBehind,
       Sound, Alone, Link, LinkRoot, LinkTomb, LinkErasing, LinkLog, Made, IsSealed, NoTomb, NoLog
  <2>5. Supported(s, disk)'
    <3> SUFFICES ASSUME ~taken', disk'.root = "intent", disk'.tomb.marks = "none",
                        NEW l \in {s.log, disk'.log}, NEW f \in {s.final, disk'.final}
                 PROVE  BackedBy(l, s.stage, f)
      BY DEF Supported
    <3> QED BY <1>2, <1>3, <1>4, <2>1 DEF Fit, Supported, BackedBy, LogIsDurable, Unpublished, Publishing,
         Sound, Alone, Link, LinkRoot, LinkTomb, LinkErasing, LinkLog, Made, IsSealed, NoTomb, NoLog
  <2>6. Settled(s, disk)' BY <1>2, <1>3, <1>4, <2>1 DEF Fit, Settled,
       Sound, Alone, Link, LinkRoot, LinkTomb, LinkErasing, LinkLog, Made, IsSealed, NoTomb, NoLog
  <2> QED BY <2>2, <2>3, <2>4, <2>5, <2>6 DEF Fit
<1> QED BY <1>1, <1>5, <1>6

\* The public name and the staging tree.
LEMMA RootSyncFits ==
  ASSUME Stored, Fits, Stored', Lasting, Spreads({"root", "final", "erasing", "stage"}), disk' = disk,
         LogIsDurable,
         disk.root = "intent",
         disk.tomb.marks = "none"
  PROVE  Fits'
<1> SUFFICES ASSUME NEW s \in surviving' PROVE Fit(s, disk)' BY DEF Fits
<1>1. PICK j \in surviving : s = j \/ Turns({"root", "final", "erasing", "stage"}, s, j) BY DEF Spreads
<1>2. /\ Fit(j, disk) /\ Fit(disk, disk) /\ Sound(j, disk) /\ Sound(disk, disk)
      /\ j.gen \in Nat \ {0} /\ j.erasing \in Nat /\ disk.gen \in Nat \ {0} /\ disk.erasing \in Nat
      /\ j.stage \in 0..Files /\ disk.stage \in 0..Files
      /\ j \in Images /\ disk \in Images /\ j.log \in Logs /\ disk.log \in Logs
      /\ disk'.stage \in 0..Files /\ disk.log.staged \in 0..Files
  BY ImageFacts DEF Stored, Images, Logs
<1>3. disk'.log = disk.log /\ disk'.tomb = disk.tomb /\ disk'.gen = disk.gen
  BY <1>2 DEF Spreads, Keeps
<1>4. (~taken' => ~taken) /\ (~hasty' => ~hasty) BY DEF Lasting
<1>5. CASE s = j
  <2>2. Intact(s)' BY <1>2, <1>3, <1>4, <1>5 DEF Fit, Intact, Paired,
       Sound, Alone, Link, LinkRoot, LinkTomb, LinkErasing, LinkLog, Made, IsSealed, NoTomb, NoLog
  <2>3. StageBehind(s, disk)' BY <1>2, <1>3, <1>4, <1>5 DEF Fit, StageBehind,
       Sound, Alone, Link, LinkRoot, LinkTomb, LinkErasing, LinkLog, Made, IsSealed, NoTomb, NoLog
  <2>4. FinalBehind(s, disk)' BY <1>2, <1>3, <1>4, <1>5 DEF Fit, FinalBehind,
       Sound, Alone, Link, LinkRoot, LinkTomb, LinkErasing, LinkLog, Made, IsSealed, NoTomb, NoLog
  <2>5. Supported(s, disk)'
    <3> SUFFICES ASSUME ~taken', disk'.root = "intent", disk'.tomb.marks = "none",
                        NEW l \in {s.log, disk'.log}, NEW f \in {s.final, disk'.final}
                 PROVE  BackedBy(l, s.stage, f)
      BY DEF Supported
    <3> QED BY <1>2, <1>3, <1>4, <1>5 DEF Fit, Supported, BackedBy, LogIsDurable,
         Sound, Alone, Link, LinkRoot, LinkTomb, LinkErasing, LinkLog, Made, IsSealed, NoTomb, NoLog
  <2>6. Settled(s, disk)' BY <1>2, <1>3, <1>4, <1>5 DEF Fit, Settled,
       Sound, Alone, Link, LinkRoot, LinkTomb, LinkErasing, LinkLog, Made, IsSealed, NoTomb, NoLog
  <2> QED BY <2>2, <2>3, <2>4, <2>5, <2>6 DEF Fit
<1>6. CASE Turns({"root", "final", "erasing", "stage"}, s, j)
  <2>1. /\ s.root = disk'.root
        /\ s.log = j.log
        /\ s.stage = disk'.stage
        /\ s.final = disk'.final
        /\ s.tomb = j.tomb
        /\ s.gen = disk.gen
        /\ s.erasing = disk'.erasing
    BY <1>6 DEF Turns, Keeps
  <2>2. Intact(s)' BY <1>2, <1>3, <1>4, <2>1 DEF Fit, Intact, Paired,
       Sound, Alone, Link, LinkRoot, LinkTomb, LinkErasing, LinkLog, Made, IsSealed, NoTomb, NoLog
  <2>3. StageBehind(s, disk)' BY <1>2, <1>3, <1>4, <2>1 DEF Fit, StageBehind,
       Sound, Alone, Link, LinkRoot, LinkTomb, LinkErasing, LinkLog, Made, IsSealed, NoTomb, NoLog
  <2>4. FinalBehind(s, disk)' BY <1>2, <1>3, <1>4, <2>1 DEF Fit, FinalBehind,
       Sound, Alone, Link, LinkRoot, LinkTomb, LinkErasing, LinkLog, Made, IsSealed, NoTomb, NoLog
  <2>5. Supported(s, disk)'
    <3> SUFFICES ASSUME ~taken', disk'.root = "intent", disk'.tomb.marks = "none",
                        NEW l \in {s.log, disk'.log}, NEW f \in {s.final, disk'.final}
                 PROVE  BackedBy(l, s.stage, f)
      BY DEF Supported
    <3> QED BY <1>2, <1>3, <1>4, <2>1 DEF Fit, Supported, BackedBy, LogIsDurable,
         Sound, Alone, Link, LinkRoot, LinkTomb, LinkErasing, LinkLog, Made, IsSealed, NoTomb, NoLog
  <2>6. Settled(s, disk)' BY <1>2, <1>3, <1>4, <2>1 DEF Fit, Settled,
       Sound, Alone, Link, LinkRoot, LinkTomb, LinkErasing, LinkLog, Made, IsSealed, NoTomb, NoLog
  <2> QED BY <2>2, <2>3, <2>4, <2>5, <2>6 DEF Fit
<1> QED BY <1>1, <1>5, <1>6

\* The target root, by a forget.
LEMMA TargetSyncFits ==
  ASSUME Stored, Fits, Stored', Lasting, Spreads({"root", "final", "erasing", "tomb"}), disk' = disk
  PROVE  Fits'
<1> SUFFICES ASSUME NEW s \in surviving' PROVE Fit(s, disk)' BY DEF Fits
<1>1. PICK j \in surviving : s = j \/ Turns({"root", "final", "erasing", "tomb"}, s, j) BY DEF Spreads
<1>2. /\ Fit(j, disk) /\ Fit(disk, disk) /\ Sound(j, disk) /\ Sound(disk, disk)
      /\ j.gen \in Nat \ {0} /\ j.erasing \in Nat /\ disk.gen \in Nat \ {0} /\ disk.erasing \in Nat
      /\ j.stage \in 0..Files /\ disk.stage \in 0..Files
      /\ j \in Images /\ disk \in Images /\ j.log \in Logs /\ disk.log \in Logs
      /\ disk'.stage \in 0..Files /\ disk.log.staged \in 0..Files
  BY ImageFacts DEF Stored, Images, Logs
<1>3. disk'.log = disk.log /\ disk'.stage = disk.stage /\ disk'.gen = disk.gen
  BY <1>2 DEF Spreads, Keeps
<1>4. (~taken' => ~taken) /\ (~hasty' => ~hasty) BY DEF Lasting
<1>5. CASE s = j
  <2>2. Intact(s)' BY <1>2, <1>3, <1>4, <1>5 DEF Fit, Intact, Paired,
       Sound, Alone, Link, LinkRoot, LinkTomb, LinkErasing, LinkLog, Made, IsSealed, NoTomb, NoLog
  <2>3. StageBehind(s, disk)' BY <1>2, <1>3, <1>4, <1>5 DEF Fit, StageBehind,
       Sound, Alone, Link, LinkRoot, LinkTomb, LinkErasing, LinkLog, Made, IsSealed, NoTomb, NoLog
  <2>4. FinalBehind(s, disk)' BY <1>2, <1>3, <1>4, <1>5 DEF Fit, FinalBehind,
       Sound, Alone, Link, LinkRoot, LinkTomb, LinkErasing, LinkLog, Made, IsSealed, NoTomb, NoLog
  <2>5. Supported(s, disk)'
    <3> SUFFICES ASSUME ~taken', disk'.root = "intent", disk'.tomb.marks = "none",
                        NEW l \in {s.log, disk'.log}, NEW f \in {s.final, disk'.final}
                 PROVE  BackedBy(l, s.stage, f)
      BY DEF Supported
    <3> QED BY <1>2, <1>3, <1>4, <1>5 DEF Fit, Supported, BackedBy,
         Sound, Alone, Link, LinkRoot, LinkTomb, LinkErasing, LinkLog, Made, IsSealed, NoTomb, NoLog
  <2>6. Settled(s, disk)' BY <1>2, <1>3, <1>4, <1>5 DEF Fit, Settled,
       Sound, Alone, Link, LinkRoot, LinkTomb, LinkErasing, LinkLog, Made, IsSealed, NoTomb, NoLog
  <2> QED BY <2>2, <2>3, <2>4, <2>5, <2>6 DEF Fit
<1>6. CASE Turns({"root", "final", "erasing", "tomb"}, s, j)
  <2>1. /\ s.root = disk'.root
        /\ s.log = j.log
        /\ s.stage = j.stage
        /\ s.final = disk'.final
        /\ s.tomb = disk'.tomb
        /\ s.gen = disk.gen
        /\ s.erasing = disk'.erasing
    BY <1>6 DEF Turns, Keeps
  <2>2. Intact(s)' BY <1>2, <1>3, <1>4, <2>1 DEF Fit, Intact, Paired,
       Sound, Alone, Link, LinkRoot, LinkTomb, LinkErasing, LinkLog, Made, IsSealed, NoTomb, NoLog
  <2>3. StageBehind(s, disk)' BY <1>2, <1>3, <1>4, <2>1 DEF Fit, StageBehind,
       Sound, Alone, Link, LinkRoot, LinkTomb, LinkErasing, LinkLog, Made, IsSealed, NoTomb, NoLog
  <2>4. FinalBehind(s, disk)' BY <1>2, <1>3, <1>4, <2>1 DEF Fit, FinalBehind,
       Sound, Alone, Link, LinkRoot, LinkTomb, LinkErasing, LinkLog, Made, IsSealed, NoTomb, NoLog
  <2>5. Supported(s, disk)'
    <3> SUFFICES ASSUME ~taken', disk'.root = "intent", disk'.tomb.marks = "none",
                        NEW l \in {s.log, disk'.log}, NEW f \in {s.final, disk'.final}
                 PROVE  BackedBy(l, s.stage, f)
      BY DEF Supported
    <3> QED BY <1>2, <1>3, <1>4, <2>1 DEF Fit, Supported, BackedBy,
         Sound, Alone, Link, LinkRoot, LinkTomb, LinkErasing, LinkLog, Made, IsSealed, NoTomb, NoLog
  <2>6. Settled(s, disk)' BY <1>2, <1>3, <1>4, <2>1 DEF Fit, Settled,
       Sound, Alone, Link, LinkRoot, LinkTomb, LinkErasing, LinkLog, Made, IsSealed, NoTomb, NoLog
  <2> QED BY <2>2, <2>3, <2>4, <2>5, <2>6 DEF Fit
<1> QED BY <1>1, <1>5, <1>6

\* A tombstone, with the operation directory.
LEMMA TombSyncFits ==
  ASSUME Stored, Fits, Stored', Lasting, Spreads({"tomb", "root"}), disk' = disk,
         IsSealed(disk.tomb),
         disk.root \in Made
  PROVE  Fits'
<1> SUFFICES ASSUME NEW s \in surviving' PROVE Fit(s, disk)' BY DEF Fits
<1>1. PICK j \in surviving : s = j \/ Turns({"tomb", "root"}, s, j) BY DEF Spreads
<1>2. /\ Fit(j, disk) /\ Fit(disk, disk) /\ Sound(j, disk) /\ Sound(disk, disk)
      /\ j.gen \in Nat \ {0} /\ j.erasing \in Nat /\ disk.gen \in Nat \ {0} /\ disk.erasing \in Nat
      /\ j.stage \in 0..Files /\ disk.stage \in 0..Files
      /\ j \in Images /\ disk \in Images /\ j.log \in Logs /\ disk.log \in Logs
      /\ disk'.stage \in 0..Files /\ disk.log.staged \in 0..Files
  BY ImageFacts DEF Stored, Images, Logs
<1>3. /\ disk'.log = disk.log /\ disk'.stage = disk.stage /\ disk'.final = disk.final
      /\ disk'.gen = disk.gen /\ disk'.erasing = disk.erasing
  BY <1>2 DEF Spreads, Keeps
<1>4. (~taken' => ~taken) /\ (~hasty' => ~hasty) BY DEF Lasting
<1>5. CASE s = j
  <2>2. Intact(s)' BY <1>2, <1>3, <1>4, <1>5 DEF Fit, Intact, Paired,
       Sound, Alone, Link, LinkRoot, LinkTomb, LinkErasing, LinkLog, Made, IsSealed, NoTomb, NoLog
  <2>3. StageBehind(s, disk)' BY <1>2, <1>3, <1>4, <1>5 DEF Fit, StageBehind,
       Sound, Alone, Link, LinkRoot, LinkTomb, LinkErasing, LinkLog, Made, IsSealed, NoTomb, NoLog
  <2>4. FinalBehind(s, disk)' BY <1>2, <1>3, <1>4, <1>5 DEF Fit, FinalBehind,
       Sound, Alone, Link, LinkRoot, LinkTomb, LinkErasing, LinkLog, Made, IsSealed, NoTomb, NoLog
  <2>5. Supported(s, disk)'
    <3> SUFFICES ASSUME ~taken', disk'.root = "intent", disk'.tomb.marks = "none",
                        NEW l \in {s.log, disk'.log}, NEW f \in {s.final, disk'.final}
                 PROVE  BackedBy(l, s.stage, f)
      BY DEF Supported
    <3> QED BY <1>2, <1>3, <1>4, <1>5 DEF Fit, Supported, BackedBy,
         Sound, Alone, Link, LinkRoot, LinkTomb, LinkErasing, LinkLog, Made, IsSealed, NoTomb, NoLog
  <2>6. Settled(s, disk)' BY <1>2, <1>3, <1>4, <1>5 DEF Fit, Settled,
       Sound, Alone, Link, LinkRoot, LinkTomb, LinkErasing, LinkLog, Made, IsSealed, NoTomb, NoLog
  <2> QED BY <2>2, <2>3, <2>4, <2>5, <2>6 DEF Fit
<1>6. CASE Turns({"tomb", "root"}, s, j)
  <2>1. /\ s.root = disk'.root
        /\ s.log = j.log
        /\ s.stage = j.stage
        /\ s.final = (IF j.final = "ours" /\ j.gen # disk.gen THEN "other" ELSE j.final)
        /\ s.tomb = disk'.tomb
        /\ s.gen = disk.gen
        /\ s.erasing = j.erasing
    BY <1>6 DEF Turns, Keeps
  <2>2. Intact(s)' BY <1>2, <1>3, <1>4, <2>1 DEF Fit, Intact, Paired,
       Sound, Alone, Link, LinkRoot, LinkTomb, LinkErasing, LinkLog, Made, IsSealed, NoTomb, NoLog
  <2>3. StageBehind(s, disk)' BY <1>2, <1>3, <1>4, <2>1 DEF Fit, StageBehind,
       Sound, Alone, Link, LinkRoot, LinkTomb, LinkErasing, LinkLog, Made, IsSealed, NoTomb, NoLog
  <2>4. FinalBehind(s, disk)' BY <1>2, <1>3, <1>4, <2>1 DEF Fit, FinalBehind,
       Sound, Alone, Link, LinkRoot, LinkTomb, LinkErasing, LinkLog, Made, IsSealed, NoTomb, NoLog
  <2>5. Supported(s, disk)'
    <3> SUFFICES ASSUME ~taken', disk'.root = "intent", disk'.tomb.marks = "none",
                        NEW l \in {s.log, disk'.log}, NEW f \in {s.final, disk'.final}
                 PROVE  BackedBy(l, s.stage, f)
      BY DEF Supported
    <3> QED BY <1>2, <1>3, <1>4, <2>1 DEF Fit, Supported, BackedBy,
         Sound, Alone, Link, LinkRoot, LinkTomb, LinkErasing, LinkLog, Made, IsSealed, NoTomb, NoLog
  <2>6. Settled(s, disk)' BY <1>2, <1>3, <1>4, <2>1 DEF Fit, Settled,
       Sound, Alone, Link, LinkRoot, LinkTomb, LinkErasing, LinkLog, Made, IsSealed, NoTomb, NoLog
  <2> QED BY <2>2, <2>3, <2>4, <2>5, <2>6 DEF Fit
<1> QED BY <1>1, <1>5, <1>6

\* The operation directory, while it holds nothing or no more than its lock file.
LEMMA RootFits ==
  ASSUME Stored, Fits, Stored', Lasting, Spreads({"root"}),
         disk.root # "intent",
         disk'.root \in {"bare", "tree", "intent"},
         disk'.root = "intent" => disk.root = "tree"
  PROVE  Fits'
<1> SUFFICES ASSUME NEW s \in surviving' PROVE Fit(s, disk)' BY DEF Fits
<1>1. PICK j \in surviving : s = j \/ Turns({"root"}, s, j) BY DEF Spreads
<1>2. /\ Fit(j, disk) /\ Fit(disk, disk) /\ Sound(j, disk) /\ Sound(disk, disk)
      /\ j.gen \in Nat \ {0} /\ j.erasing \in Nat /\ disk.gen \in Nat \ {0} /\ disk.erasing \in Nat
      /\ j.stage \in 0..Files /\ disk.stage \in 0..Files
      /\ j \in Images /\ disk \in Images /\ j.log \in Logs /\ disk.log \in Logs
      /\ disk'.stage \in 0..Files /\ disk.log.staged \in 0..Files
  BY ImageFacts DEF Stored, Images, Logs
<1>3. /\ disk'.log = disk.log /\ disk'.stage = disk.stage /\ disk'.final = disk.final
      /\ disk'.tomb = disk.tomb /\ disk'.gen = disk.gen /\ disk'.erasing = disk.erasing
  BY <1>2 DEF Spreads, Keeps
<1>4. (~taken' => ~taken) /\ (~hasty' => ~hasty) BY DEF Lasting
<1>5. CASE s = j
  <2>2. Intact(s)' BY <1>2, <1>3, <1>4, <1>5 DEF Fit, Intact, Paired,
       Sound, Alone, Link, LinkRoot, LinkTomb, LinkErasing, LinkLog, Made, IsSealed, NoTomb, NoLog
  <2>3. StageBehind(s, disk)' BY <1>2, <1>3, <1>4, <1>5 DEF Fit, StageBehind,
       Sound, Alone, Link, LinkRoot, LinkTomb, LinkErasing, LinkLog, Made, IsSealed, NoTomb, NoLog
  <2>4. FinalBehind(s, disk)' BY <1>2, <1>3, <1>4, <1>5 DEF Fit, FinalBehind,
       Sound, Alone, Link, LinkRoot, LinkTomb, LinkErasing, LinkLog, Made, IsSealed, NoTomb, NoLog
  <2>5. Supported(s, disk)'
    <3> SUFFICES ASSUME ~taken', disk'.root = "intent", disk'.tomb.marks = "none",
                        NEW l \in {s.log, disk'.log}, NEW f \in {s.final, disk'.final}
                 PROVE  BackedBy(l, s.stage, f)
      BY DEF Supported
    <3> QED BY <1>2, <1>3, <1>4, <1>5 DEF Fit, Supported, BackedBy, Unpublished, Publishing,
         Sound, Alone, Link, LinkRoot, LinkTomb, LinkErasing, LinkLog, Made, IsSealed, NoTomb, NoLog
  <2>6. Settled(s, disk)' BY <1>2, <1>3, <1>4, <1>5 DEF Fit, Settled,
       Sound, Alone, Link, LinkRoot, LinkTomb, LinkErasing, LinkLog, Made, IsSealed, NoTomb, NoLog
  <2> QED BY <2>2, <2>3, <2>4, <2>5, <2>6 DEF Fit
<1>6. CASE Turns({"root"}, s, j)
  <2>1. /\ s.root = disk'.root
        /\ s.log = j.log
        /\ s.stage = j.stage
        /\ s.final = (IF j.final = "ours" /\ j.gen # disk.gen THEN "other" ELSE j.final)
        /\ s.tomb = j.tomb
        /\ s.gen = disk.gen
        /\ s.erasing = j.erasing
    BY <1>6 DEF Turns, Keeps
  <2>2. Intact(s)' BY <1>2, <1>3, <1>4, <2>1 DEF Fit, Intact, Paired,
       Sound, Alone, Link, LinkRoot, LinkTomb, LinkErasing, LinkLog, Made, IsSealed, NoTomb, NoLog
  <2>3. StageBehind(s, disk)' BY <1>2, <1>3, <1>4, <2>1 DEF Fit, StageBehind,
       Sound, Alone, Link, LinkRoot, LinkTomb, LinkErasing, LinkLog, Made, IsSealed, NoTomb, NoLog
  <2>4. FinalBehind(s, disk)' BY <1>2, <1>3, <1>4, <2>1 DEF Fit, FinalBehind,
       Sound, Alone, Link, LinkRoot, LinkTomb, LinkErasing, LinkLog, Made, IsSealed, NoTomb, NoLog
  <2>5. Supported(s, disk)'
    <3> SUFFICES ASSUME ~taken', disk'.root = "intent", disk'.tomb.marks = "none",
                        NEW l \in {s.log, disk'.log}, NEW f \in {s.final, disk'.final}
                 PROVE  BackedBy(l, s.stage, f)
      BY DEF Supported
    <3> QED BY <1>2, <1>3, <1>4, <2>1 DEF Fit, Supported, BackedBy, Unpublished, Publishing,
         Sound, Alone, Link, LinkRoot, LinkTomb, LinkErasing, LinkLog, Made, IsSealed, NoTomb, NoLog
  <2>6. Settled(s, disk)' BY <1>2, <1>3, <1>4, <2>1 DEF Fit, Settled,
       Sound, Alone, Link, LinkRoot, LinkTomb, LinkErasing, LinkLog, Made, IsSealed, NoTomb, NoLog
  <2> QED BY <2>2, <2>3, <2>4, <2>5, <2>6 DEF Fit
<1> QED BY <1>1, <1>5, <1>6

\* The operation directory loses stage/, or all but its lock file.
LEMMA StripRootFits ==
  ASSUME Stored, Fits, Stored', Lasting, Sinks({"root"}),
         disk.root \in {"intent", "stripping"},
         disk'.root \in {"stripping", "kept"},
         disk.tomb.marks = "intent",
         \A i \in surviving : i.tomb = disk.tomb,
         disk.root = "intent" => disk.stage = 0 /\ disk.log.phase # "publish_intent"
  PROVE  Fits'
<1> SUFFICES ASSUME NEW s \in surviving' PROVE Fit(s, disk)' BY DEF Fits
<1>1. PICK j \in surviving : Turns({"root"}, s, j) BY DEF Sinks
<1>2. /\ Fit(j, disk) /\ Fit(disk, disk) /\ Sound(j, disk) /\ Sound(disk, disk)
      /\ j.gen \in Nat \ {0} /\ j.erasing \in Nat /\ disk.gen \in Nat \ {0} /\ disk.erasing \in Nat
      /\ j.stage \in 0..Files /\ disk.stage \in 0..Files
      /\ j \in Images /\ disk \in Images /\ j.log \in Logs /\ disk.log \in Logs
      /\ disk'.stage \in 0..Files /\ disk.log.staged \in 0..Files
  BY ImageFacts DEF Stored, Images, Logs
<1>3. /\ disk'.log = disk.log /\ disk'.stage = disk.stage /\ disk'.final = disk.final
      /\ disk'.tomb = disk.tomb /\ disk'.gen = disk.gen /\ disk'.erasing = disk.erasing
  BY <1>2 DEF Sinks, Keeps
<1>4. (~taken' => ~taken) /\ (~hasty' => ~hasty) BY DEF Lasting
<1>6. CASE Turns({"root"}, s, j)
  <2>1. /\ s.root = disk'.root
        /\ s.log = j.log
        /\ s.stage = j.stage
        /\ s.final = (IF j.final = "ours" /\ j.gen # disk.gen THEN "other" ELSE j.final)
        /\ s.tomb = j.tomb
        /\ s.gen = disk.gen
        /\ s.erasing = j.erasing
    BY <1>6 DEF Turns, Keeps
  <2>2. Intact(s)' BY <1>2, <1>3, <1>4, <2>1 DEF Fit, Intact, Paired, StageBehind,
       Sound, Alone, Link, LinkRoot, LinkTomb, LinkErasing, LinkLog, Made, IsSealed, NoTomb, NoLog
  <2>3. StageBehind(s, disk)' BY <1>2, <1>3, <1>4, <2>1 DEF Fit, StageBehind,
       Sound, Alone, Link, LinkRoot, LinkTomb, LinkErasing, LinkLog, Made, IsSealed, NoTomb, NoLog
  <2>4. FinalBehind(s, disk)' BY <1>2, <1>3, <1>4, <2>1 DEF Fit, FinalBehind,
       Sound, Alone, Link, LinkRoot, LinkTomb, LinkErasing, LinkLog, Made, IsSealed, NoTomb, NoLog
  <2>5. Supported(s, disk)'
    <3> SUFFICES ASSUME ~taken', disk'.root = "intent", disk'.tomb.marks = "none",
                        NEW l \in {s.log, disk'.log}, NEW f \in {s.final, disk'.final}
                 PROVE  BackedBy(l, s.stage, f)
      BY DEF Supported
    <3> QED BY <1>2, <1>3, <1>4, <2>1 DEF Fit, Supported, BackedBy,
         Sound, Alone, Link, LinkRoot, LinkTomb, LinkErasing, LinkLog, Made, IsSealed, NoTomb, NoLog
  <2>6. Settled(s, disk)' BY <1>2, <1>3, <1>4, <2>1 DEF Fit, Settled,
       Sound, Alone, Link, LinkRoot, LinkTomb, LinkErasing, LinkLog, Made, IsSealed, NoTomb, NoLog
  <2> QED BY <2>2, <2>3, <2>4, <2>5, <2>6 DEF Fit
<1> QED BY <1>1, <1>6

\* The staged files go.
LEMMA StripStageFits ==
  ASSUME Stored, Fits, Stored', Lasting, Sinks({"stage"}),
         disk.tomb.marks # "none",
         disk.root = "intent"
  PROVE  Fits'
<1> SUFFICES ASSUME NEW s \in surviving' PROVE Fit(s, disk)' BY DEF Fits
<1>1. PICK j \in surviving : Turns({"stage"}, s, j) BY DEF Sinks
<1>2. /\ Fit(j, disk) /\ Fit(disk, disk) /\ Sound(j, disk) /\ Sound(disk, disk)
      /\ j.gen \in Nat \ {0} /\ j.erasing \in Nat /\ disk.gen \in Nat \ {0} /\ disk.erasing \in Nat
      /\ j.stage \in 0..Files /\ disk.stage \in 0..Files
      /\ j \in Images /\ disk \in Images /\ j.log \in Logs /\ disk.log \in Logs
      /\ disk'.stage \in 0..Files /\ disk.log.staged \in 0..Files
  BY ImageFacts DEF Stored, Images, Logs
<1>3. /\ disk'.root = disk.root /\ disk'.log = disk.log /\ disk'.final = disk.final
      /\ disk'.tomb = disk.tomb /\ disk'.gen = disk.gen /\ disk'.erasing = disk.erasing
  BY <1>2 DEF Sinks, Keeps
<1>4. (~taken' => ~taken) /\ (~hasty' => ~hasty) BY DEF Lasting
<1>6. CASE Turns({"stage"}, s, j)
  <2>1. /\ s.root = j.root
        /\ s.log = j.log
        /\ s.stage = disk'.stage
        /\ s.final = j.final
        /\ s.tomb = j.tomb
        /\ s.gen = j.gen
        /\ s.erasing = j.erasing
    BY <1>6 DEF Turns, Keeps
  <2>2. Intact(s)' BY <1>2, <1>3, <1>4, <2>1 DEF Fit, Intact, Paired,
       Sound, Alone, Link, LinkRoot, LinkTomb, LinkErasing, LinkLog, Made, IsSealed, NoTomb, NoLog
  <2>3. StageBehind(s, disk)' BY <1>2, <1>3, <1>4, <2>1 DEF Fit, StageBehind,
       Sound, Alone, Link, LinkRoot, LinkTomb, LinkErasing, LinkLog, Made, IsSealed, NoTomb, NoLog
  <2>4. FinalBehind(s, disk)' BY <1>2, <1>3, <1>4, <2>1 DEF Fit, FinalBehind,
       Sound, Alone, Link, LinkRoot, LinkTomb, LinkErasing, LinkLog, Made, IsSealed, NoTomb, NoLog
  <2>5. Supported(s, disk)'
    <3> SUFFICES ASSUME ~taken', disk'.root = "intent", disk'.tomb.marks = "none",
                        NEW l \in {s.log, disk'.log}, NEW f \in {s.final, disk'.final}
                 PROVE  BackedBy(l, s.stage, f)
      BY DEF Supported
    <3> QED BY <1>2, <1>3, <1>4, <2>1 DEF Fit, Supported, BackedBy,
         Sound, Alone, Link, LinkRoot, LinkTomb, LinkErasing, LinkLog, Made, IsSealed, NoTomb, NoLog
  <2>6. Settled(s, disk)' BY <1>2, <1>3, <1>4, <2>1 DEF Fit, Settled,
       Sound, Alone, Link, LinkRoot, LinkTomb, LinkErasing, LinkLog, Made, IsSealed, NoTomb, NoLog
  <2> QED BY <2>2, <2>3, <2>4, <2>5, <2>6 DEF Fit
<1> QED BY <1>1, <1>6

\* The journal goes.
LEMMA StripLogFits ==
  ASSUME Stored, Fits, Stored', Lasting, Sinks({"log"}),
         disk.root = "stripping",
         disk'.log = NoLog
  PROVE  Fits'
<1> SUFFICES ASSUME NEW s \in surviving' PROVE Fit(s, disk)' BY DEF Fits
<1>1. PICK j \in surviving : Turns({"log"}, s, j) BY DEF Sinks
<1>2. /\ Fit(j, disk) /\ Fit(disk, disk) /\ Sound(j, disk) /\ Sound(disk, disk)
      /\ j.gen \in Nat \ {0} /\ j.erasing \in Nat /\ disk.gen \in Nat \ {0} /\ disk.erasing \in Nat
      /\ j.stage \in 0..Files /\ disk.stage \in 0..Files
      /\ j \in Images /\ disk \in Images /\ j.log \in Logs /\ disk.log \in Logs
      /\ disk'.stage \in 0..Files /\ disk.log.staged \in 0..Files
  BY ImageFacts DEF Stored, Images, Logs
<1>3. /\ disk'.root = disk.root /\ disk'.stage = disk.stage /\ disk'.final = disk.final
      /\ disk'.tomb = disk.tomb /\ disk'.gen = disk.gen /\ disk'.erasing = disk.erasing
  BY <1>2 DEF Sinks, Keeps
<1>4. (~taken' => ~taken) /\ (~hasty' => ~hasty) BY DEF Lasting
<1>6. CASE Turns({"log"}, s, j)
  <2>1. /\ s.root = j.root
        /\ s.log = disk'.log
        /\ s.stage = j.stage
        /\ s.final = j.final
        /\ s.tomb = j.tomb
        /\ s.gen = j.gen
        /\ s.erasing = j.erasing
    BY <1>6 DEF Turns, Keeps
  <2>2. Intact(s)' BY <1>2, <1>3, <1>4, <2>1 DEF Fit, Intact, Paired,
       Sound, Alone, Link, LinkRoot, LinkTomb, LinkErasing, LinkLog, Made, IsSealed, NoTomb, NoLog
  <2>3. StageBehind(s, disk)' BY <1>2, <1>3, <1>4, <2>1 DEF Fit, StageBehind, Intact,
       Sound, Alone, Link, LinkRoot, LinkTomb, LinkErasing, LinkLog, Made, IsSealed, NoTomb, NoLog
  <2>4. FinalBehind(s, disk)' BY <1>2, <1>3, <1>4, <2>1 DEF Fit, FinalBehind,
       Sound, Alone, Link, LinkRoot, LinkTomb, LinkErasing, LinkLog, Made, IsSealed, NoTomb, NoLog
  <2>5. Supported(s, disk)'
    <3> SUFFICES ASSUME ~taken', disk'.root = "intent", disk'.tomb.marks = "none",
                        NEW l \in {s.log, disk'.log}, NEW f \in {s.final, disk'.final}
                 PROVE  BackedBy(l, s.stage, f)
      BY DEF Supported
    <3> QED BY <1>2, <1>3, <1>4, <2>1 DEF Fit, Supported, BackedBy,
         Sound, Alone, Link, LinkRoot, LinkTomb, LinkErasing, LinkLog, Made, IsSealed, NoTomb, NoLog
  <2>6. Settled(s, disk)' BY <1>2, <1>3, <1>4, <2>1 DEF Fit, Settled,
       Sound, Alone, Link, LinkRoot, LinkTomb, LinkErasing, LinkLog, Made, IsSealed, NoTomb, NoLog
  <2> QED BY <2>2, <2>3, <2>4, <2>5, <2>6 DEF Fit
<1> QED BY <1>1, <1>6

\* A step of the tombstone that may be lost ...
LEMMA TombFits ==
  ASSUME Stored, Fits, Stored', Lasting, Spreads({"tomb"}),
         Paired(disk'.tomb),
         disk.root = "intent" => disk'.tomb.marks # "none",
         disk.root # "intent" => IsSealed(disk'.tomb) \/ \A i \in surviving : i.erasing = i.gen,
         ~hasty' /\ disk.root = "intent" =>
           /\ LogIsDurable /\ disk.log.phase \in Terminal
           /\ disk'.tomb.marks = "intent" => disk'.tomb.basis = disk.log.phase
  PROVE  Fits'
<1> SUFFICES ASSUME NEW s \in surviving' PROVE Fit(s, disk)' BY DEF Fits
<1>1. PICK j \in surviving : s = j \/ Turns({"tomb"}, s, j) BY DEF Spreads
<1>2. /\ Fit(j, disk) /\ Fit(disk, disk) /\ Sound(j, disk) /\ Sound(disk, disk)
      /\ j.gen \in Nat \ {0} /\ j.erasing \in Nat /\ disk.gen \in Nat \ {0} /\ disk.erasing \in Nat
      /\ j.stage \in 0..Files /\ disk.stage \in 0..Files
      /\ j \in Images /\ disk \in Images /\ j.log \in Logs /\ disk.log \in Logs
      /\ disk'.stage \in 0..Files /\ disk.log.staged \in 0..Files
  BY ImageFacts DEF Stored, Images, Logs
<1>3. /\ disk'.root = disk.root /\ disk'.log = disk.log /\ disk'.stage = disk.stage
      /\ disk'.final = disk.final /\ disk'.gen = disk.gen /\ disk'.erasing = disk.erasing
  BY <1>2 DEF Spreads, Keeps
<1>4. (~taken' => ~taken) /\ (~hasty' => ~hasty) BY DEF Lasting
<1>5. CASE s = j
  <2>2. Intact(s)' BY <1>2, <1>3, <1>4, <1>5 DEF Fit, Intact, Paired,
       Sound, Alone, Link, LinkRoot, LinkTomb, LinkErasing, LinkLog, Made, IsSealed, NoTomb, NoLog
  <2>3. StageBehind(s, disk)' BY <1>2, <1>3, <1>4, <1>5 DEF Fit, StageBehind,
       Sound, Alone, Link, LinkRoot, LinkTomb, LinkErasing, LinkLog, Made, IsSealed, NoTomb, NoLog
  <2>4. FinalBehind(s, disk)' BY <1>2, <1>3, <1>4, <1>5 DEF Fit, FinalBehind,
       Sound, Alone, Link, LinkRoot, LinkTomb, LinkErasing, LinkLog, Made, IsSealed, NoTomb, NoLog
  <2>5. Supported(s, disk)'
    <3> SUFFICES ASSUME ~taken', disk'.root = "intent", disk'.tomb.marks = "none",
                        NEW l \in {s.log, disk'.log}, NEW f \in {s.final, disk'.final}
                 PROVE  BackedBy(l, s.stage, f)
      BY DEF Supported
    <3> QED BY <1>2, <1>3, <1>4, <1>5 DEF Fit, Supported, BackedBy,
         Sound, Alone, Link, LinkRoot, LinkTomb, LinkErasing, LinkLog, Made, IsSealed, NoTomb, NoLog
  <2>6. Settled(s, disk)' BY <1>2, <1>3, <1>4, <1>5 DEF Fit, Settled, LogIsDurable, Terminal,
       Sound, Alone, Link, LinkRoot, LinkTomb, LinkErasing, LinkLog, Made, IsSealed, NoTomb, NoLog
  <2> QED BY <2>2, <2>3, <2>4, <2>5, <2>6 DEF Fit
<1>6. CASE Turns({"tomb"}, s, j)
  <2>1. /\ s.root = j.root
        /\ s.log = j.log
        /\ s.stage = j.stage
        /\ s.final = j.final
        /\ s.tomb = disk'.tomb
        /\ s.gen = j.gen
        /\ s.erasing = j.erasing
    BY <1>6 DEF Turns, Keeps
  <2>2. Intact(s)' BY <1>2, <1>3, <1>4, <2>1 DEF Fit, Intact, Paired,
       Sound, Alone, Link, LinkRoot, LinkTomb, LinkErasing, LinkLog, Made, IsSealed, NoTomb, NoLog
  <2>3. StageBehind(s, disk)' BY <1>2, <1>3, <1>4, <2>1 DEF Fit, StageBehind,
       Sound, Alone, Link, LinkRoot, LinkTomb, LinkErasing, LinkLog, Made, IsSealed, NoTomb, NoLog
  <2>4. FinalBehind(s, disk)' BY <1>2, <1>3, <1>4, <2>1 DEF Fit, FinalBehind,
       Sound, Alone, Link, LinkRoot, LinkTomb, LinkErasing, LinkLog, Made, IsSealed, NoTomb, NoLog
  <2>5. Supported(s, disk)'
    <3> SUFFICES ASSUME ~taken', disk'.root = "intent", disk'.tomb.marks = "none",
                        NEW l \in {s.log, disk'.log}, NEW f \in {s.final, disk'.final}
                 PROVE  BackedBy(l, s.stage, f)
      BY DEF Supported
    <3> QED BY <1>2, <1>3, <1>4, <2>1 DEF Fit, Supported, BackedBy,
         Sound, Alone, Link, LinkRoot, LinkTomb, LinkErasing, LinkLog, Made, IsSealed, NoTomb, NoLog
  <2>6. Settled(s, disk)' BY <1>2, <1>3, <1>4, <2>1 DEF Fit, Settled, LogIsDurable, Terminal,
       Sound, Alone, Link, LinkRoot, LinkTomb, LinkErasing, LinkLog, Made, IsSealed, NoTomb, NoLog
  <2> QED BY <2>2, <2>3, <2>4, <2>5, <2>6 DEF Fit
<1> QED BY <1>1, <1>5, <1>6

\* A forget's intent leaves the tombstone.
LEMMA BuryTombFits ==
  ASSUME Stored, Fits, Stored', Lasting, Spreads({"tomb", "erasing"}),
         Paired(disk'.tomb),
         disk.root = "kept",
         IsSealed(disk'.tomb)
  PROVE  Fits'
<1> SUFFICES ASSUME NEW s \in surviving' PROVE Fit(s, disk)' BY DEF Fits
<1>1. PICK j \in surviving : s = j \/ Turns({"tomb", "erasing"}, s, j) BY DEF Spreads
<1>2. /\ Fit(j, disk) /\ Fit(disk, disk) /\ Sound(j, disk) /\ Sound(disk, disk)
      /\ j.gen \in Nat \ {0} /\ j.erasing \in Nat /\ disk.gen \in Nat \ {0} /\ disk.erasing \in Nat
      /\ j.stage \in 0..Files /\ disk.stage \in 0..Files
      /\ j \in Images /\ disk \in Images /\ j.log \in Logs /\ disk.log \in Logs
      /\ disk'.stage \in 0..Files /\ disk.log.staged \in 0..Files
  BY ImageFacts DEF Stored, Images, Logs
<1>3. /\ disk'.root = disk.root /\ disk'.log = disk.log /\ disk'.stage = disk.stage
      /\ disk'.final = disk.final /\ disk'.gen = disk.gen
  BY <1>2 DEF Spreads, Keeps
<1>4. (~taken' => ~taken) /\ (~hasty' => ~hasty) BY DEF Lasting
<1>5. CASE s = j
  <2>2. Intact(s)' BY <1>2, <1>3, <1>4, <1>5 DEF Fit, Intact, Paired,
       Sound, Alone, Link, LinkRoot, LinkTomb, LinkErasing, LinkLog, Made, IsSealed, NoTomb, NoLog
  <2>3. StageBehind(s, disk)' BY <1>2, <1>3, <1>4, <1>5 DEF Fit, StageBehind,
       Sound, Alone, Link, LinkRoot, LinkTomb, LinkErasing, LinkLog, Made, IsSealed, NoTomb, NoLog
  <2>4. FinalBehind(s, disk)' BY <1>2, <1>3, <1>4, <1>5 DEF Fit, FinalBehind,
       Sound, Alone, Link, LinkRoot, LinkTomb, LinkErasing, LinkLog, Made, IsSealed, NoTomb, NoLog
  <2>5. Supported(s, disk)'
    <3> SUFFICES ASSUME ~taken', disk'.root = "intent", disk'.tomb.marks = "none",
                        NEW l \in {s.log, disk'.log}, NEW f \in {s.final, disk'.final}
                 PROVE  BackedBy(l, s.stage, f)
      BY DEF Supported
    <3> QED BY <1>2, <1>3, <1>4, <1>5 DEF Fit, Supported, BackedBy,
         Sound, Alone, Link, LinkRoot, LinkTomb, LinkErasing, LinkLog, Made, IsSealed, NoTomb, NoLog
  <2>6. Settled(s, disk)' BY <1>2, <1>3, <1>4, <1>5 DEF Fit, Settled,
       Sound, Alone, Link, LinkRoot, LinkTomb, LinkErasing, LinkLog, Made, IsSealed, NoTomb, NoLog
  <2> QED BY <2>2, <2>3, <2>4, <2>5, <2>6 DEF Fit
<1>6. CASE Turns({"tomb", "erasing"}, s, j)
  <2>1. /\ s.root = j.root
        /\ s.log = j.log
        /\ s.stage = j.stage
        /\ s.final = j.final
        /\ s.tomb = disk'.tomb
        /\ s.gen = j.gen
        /\ s.erasing = disk'.erasing
    BY <1>6 DEF Turns, Keeps
  <2>2. Intact(s)' BY <1>2, <1>3, <1>4, <2>1 DEF Fit, Intact, Paired,
       Sound, Alone, Link, LinkRoot, LinkTomb, LinkErasing, LinkLog, Made, IsSealed, NoTomb, NoLog
  <2>3. StageBehind(s, disk)' BY <1>2, <1>3, <1>4, <2>1 DEF Fit, StageBehind,
       Sound, Alone, Link, LinkRoot, LinkTomb, LinkErasing, LinkLog, Made, IsSealed, NoTomb, NoLog
  <2>4. FinalBehind(s, disk)' BY <1>2, <1>3, <1>4, <2>1 DEF Fit, FinalBehind,
       Sound, Alone, Link, LinkRoot, LinkTomb, LinkErasing, LinkLog, Made, IsSealed, NoTomb, NoLog
  <2>5. Supported(s, disk)'
    <3> SUFFICES ASSUME ~taken', disk'.root = "intent", disk'.tomb.marks = "none",
                        NEW l \in {s.log, disk'.log}, NEW f \in {s.final, disk'.final}
                 PROVE  BackedBy(l, s.stage, f)
      BY DEF Supported
    <3> QED BY <1>2, <1>3, <1>4, <2>1 DEF Fit, Supported, BackedBy,
         Sound, Alone, Link, LinkRoot, LinkTomb, LinkErasing, LinkLog, Made, IsSealed, NoTomb, NoLog
  <2>6. Settled(s, disk)' BY <1>2, <1>3, <1>4, <2>1 DEF Fit, Settled,
       Sound, Alone, Link, LinkRoot, LinkTomb, LinkErasing, LinkLog, Made, IsSealed, NoTomb, NoLog
  <2> QED BY <2>2, <2>3, <2>4, <2>5, <2>6 DEF Fit
<1> QED BY <1>1, <1>5, <1>6

\* The intent of a forget goes, after the directory that it names.
LEMMA UnmarkFits ==
  ASSUME Stored, Fits, Stored', Lasting, Spreads({"erasing"}),
         disk'.erasing = 0,
         disk.erasing # 0,
         \A i \in surviving : disk.erasing < i.gen
  PROVE  Fits'
<1> SUFFICES ASSUME NEW s \in surviving' PROVE Fit(s, disk)' BY DEF Fits
<1>1. PICK j \in surviving : s = j \/ Turns({"erasing"}, s, j) BY DEF Spreads
<1>2. /\ Fit(j, disk) /\ Fit(disk, disk) /\ Sound(j, disk) /\ Sound(disk, disk)
      /\ j.gen \in Nat \ {0} /\ j.erasing \in Nat /\ disk.gen \in Nat \ {0} /\ disk.erasing \in Nat
      /\ j.stage \in 0..Files /\ disk.stage \in 0..Files
      /\ j \in Images /\ disk \in Images /\ j.log \in Logs /\ disk.log \in Logs
      /\ disk'.stage \in 0..Files /\ disk.log.staged \in 0..Files
  BY ImageFacts DEF Stored, Images, Logs
<1>3. /\ disk'.root = disk.root /\ disk'.log = disk.log /\ disk'.stage = disk.stage
      /\ disk'.final = disk.final /\ disk'.tomb = disk.tomb /\ disk'.gen = disk.gen
  BY <1>2 DEF Spreads, Keeps
<1>4. (~taken' => ~taken) /\ (~hasty' => ~hasty) BY DEF Lasting
<1>5. CASE s = j
  <2>2. Intact(s)' BY <1>2, <1>3, <1>4, <1>5 DEF Fit, Intact, Paired,
       Sound, Alone, Link, LinkRoot, LinkTomb, LinkErasing, LinkLog, Made, IsSealed, NoTomb, NoLog
  <2>3. StageBehind(s, disk)' BY <1>2, <1>3, <1>4, <1>5 DEF Fit, StageBehind,
       Sound, Alone, Link, LinkRoot, LinkTomb, LinkErasing, LinkLog, Made, IsSealed, NoTomb, NoLog
  <2>4. FinalBehind(s, disk)' BY <1>2, <1>3, <1>4, <1>5 DEF Fit, FinalBehind,
       Sound, Alone, Link, LinkRoot, LinkTomb, LinkErasing, LinkLog, Made, IsSealed, NoTomb, NoLog
  <2>5. Supported(s, disk)'
    <3> SUFFICES ASSUME ~taken', disk'.root = "intent", disk'.tomb.marks = "none",
                        NEW l \in {s.log, disk'.log}, NEW f \in {s.final, disk'.final}
                 PROVE  BackedBy(l, s.stage, f)
      BY DEF Supported
    <3> QED BY <1>2, <1>3, <1>4, <1>5 DEF Fit, Supported, BackedBy,
         Sound, Alone, Link, LinkRoot, LinkTomb, LinkErasing, LinkLog, Made, IsSealed, NoTomb, NoLog
  <2>6. Settled(s, disk)' BY <1>2, <1>3, <1>4, <1>5 DEF Fit, Settled,
       Sound, Alone, Link, LinkRoot, LinkTomb, LinkErasing, LinkLog, Made, IsSealed, NoTomb, NoLog
  <2> QED BY <2>2, <2>3, <2>4, <2>5, <2>6 DEF Fit
<1>6. CASE Turns({"erasing"}, s, j)
  <2>1. /\ s.root = j.root
        /\ s.log = j.log
        /\ s.stage = j.stage
        /\ s.final = j.final
        /\ s.tomb = j.tomb
        /\ s.gen = j.gen
        /\ s.erasing = disk'.erasing
    BY <1>6 DEF Turns, Keeps
  <2>2. Intact(s)' BY <1>2, <1>3, <1>4, <2>1 DEF Fit, Intact, Paired,
       Sound, Alone, Link, LinkRoot, LinkTomb, LinkErasing, LinkLog, Made, IsSealed, NoTomb, NoLog
  <2>3. StageBehind(s, disk)' BY <1>2, <1>3, <1>4, <2>1 DEF Fit, StageBehind,
       Sound, Alone, Link, LinkRoot, LinkTomb, LinkErasing, LinkLog, Made, IsSealed, NoTomb, NoLog
  <2>4. FinalBehind(s, disk)' BY <1>2, <1>3, <1>4, <2>1 DEF Fit, FinalBehind,
       Sound, Alone, Link, LinkRoot, LinkTomb, LinkErasing, LinkLog, Made, IsSealed, NoTomb, NoLog
  <2>5. Supported(s, disk)'
    <3> SUFFICES ASSUME ~taken', disk'.root = "intent", disk'.tomb.marks = "none",
                        NEW l \in {s.log, disk'.log}, NEW f \in {s.final, disk'.final}
                 PROVE  BackedBy(l, s.stage, f)
      BY DEF Supported
    <3> QED BY <1>2, <1>3, <1>4, <2>1 DEF Fit, Supported, BackedBy,
         Sound, Alone, Link, LinkRoot, LinkTomb, LinkErasing, LinkLog, Made, IsSealed, NoTomb, NoLog
  <2>6. Settled(s, disk)' BY <1>2, <1>3, <1>4, <2>1 DEF Fit, Settled,
       Sound, Alone, Link, LinkRoot, LinkTomb, LinkErasing, LinkLog, Made, IsSealed, NoTomb, NoLog
  <2> QED BY <2>2, <2>3, <2>4, <2>5, <2>6 DEF Fit
<1> QED BY <1>1, <1>5, <1>6

\* The operation directory goes: no image of it holds a file.
LEMMA VanishFits ==
  ASSUME Stored, Fits, disk.root = "bare", Vanishes
  PROVE  Fits'
<1>1. /\ disk' = Vanished(disk) /\ surviving' = surviving \cup {Vanished(i) : i \in surviving}
  BY DEF Vanishes
<1>2. \A i \in Images :
        /\ Vanished(i).root = "none" /\ Vanished(i).gen = disk.gen + 1 /\ Vanished(i).stage = i.stage
        /\ Vanished(i).final # "ours" /\ Vanished(i).log = i.log /\ Vanished(i).tomb = i.tomb
        /\ Vanished(i).erasing = i.erasing
  BY DEF Vanished, Images
<1>3. SUFFICES ASSUME NEW s \in surviving' PROVE Fit(s, disk)' BY DEF Fits
<1>4. PICK j \in surviving : s = j \/ s = Vanished(j) BY <1>1
<1>5. /\ Fit(j, disk) /\ Fit(disk, disk) /\ Sound(j, disk) /\ j \in Images /\ disk \in Images
      /\ j.gen \in Nat /\ disk.gen \in Nat /\ j.stage \in 0..Files
  BY ImageFacts
<1>6. /\ disk'.root = "none" /\ disk'.gen = disk.gen + 1 /\ disk'.stage = disk.stage
      /\ disk'.final # "ours"
  BY <1>1, <1>2, <1>5
<1>7. j.root \in {"none", "bare", "kept"} /\ j.gen <= disk.gen
  BY <1>5 DEF Sound, Link, LinkRoot, Made
<1>8. j.stage = 0 /\ disk.stage = 0 BY <1>5, <1>7 DEF Fit, Intact
<1> HIDE DEF Vanishes
<1>9. Intact(s)
  <2>1. CASE s = j BY <1>5, <2>1 DEF Fit
  <2>2. CASE s = Vanished(j)
    <3>1. s.tomb = j.tomb /\ s.root = "none" /\ s.stage = 0 BY <1>2, <1>5, <1>8, <2>2
    <3> QED BY <1>5, <3>1 DEF Fit, Intact
  <2> QED BY <1>4, <2>1, <2>2
<1>10. s.stage = 0 /\ (s.gen = disk'.gen => s.final # "ours")
  BY <1>2, <1>4, <1>5, <1>6, <1>7, <1>8
<1>11. StageBehind(s, disk)' BY <1>6, <1>8, <1>10 DEF StageBehind
<1>12. FinalBehind(s, disk)' BY <1>10 DEF FinalBehind
<1>13. Supported(s, disk)' /\ Settled(s, disk)' BY <1>6 DEF Supported, Settled
<1> QED BY <1>9, <1>11, <1>12, <1>13 DEF Fit

\* The bytes of a staged marker.
LEMMA FillFits ==
  ASSUME Stored, Fits, NEW p \in Proc, FillTomb(p), Lasting
  PROVE  Fits'
<1> DEFINE filled(i) == [i EXCEPT !.tomb.whole = (i.tomb.pending # "none")]
<1>1. disk' = filled(disk) /\ surviving' = {filled(i) : i \in surviving} BY DEF FillTomb
<1>2. \A i \in Images : /\ filled(i).root = i.root /\ filled(i).log = i.log /\ filled(i).gen = i.gen
                        /\ filled(i).erasing = i.erasing /\ filled(i).stage = i.stage
                        /\ filled(i).final = i.final /\ filled(i).tomb.marks = i.tomb.marks
                        /\ filled(i).tomb.basis = i.tomb.basis
                        /\ filled(i).tomb.pending = i.tomb.pending
  BY DEF Images, Tombs
<1> HIDE DEF filled
<1>3. SUFFICES ASSUME NEW s \in surviving' PROVE Fit(s, disk)' BY DEF Fits
<1>4. PICK j \in surviving : s = filled(j) BY <1>1
<1>5. Fit(j, disk) /\ j \in Images /\ disk \in Images BY ImageFacts
<1>6. /\ s.root = j.root /\ s.log = j.log /\ s.gen = j.gen /\ s.erasing = j.erasing
      /\ s.stage = j.stage /\ s.final = j.final /\ s.tomb.marks = j.tomb.marks
      /\ s.tomb.basis = j.tomb.basis /\ s.tomb.pending = j.tomb.pending
  BY <1>2, <1>4, <1>5
<1>7. /\ disk'.root = disk.root /\ disk'.log = disk.log /\ disk'.gen = disk.gen
      /\ disk'.stage = disk.stage /\ disk'.final = disk.final
      /\ disk'.tomb.marks = disk.tomb.marks /\ disk'.tomb.basis = disk.tomb.basis
  BY <1>1, <1>2, <1>5
<1>8. (~taken' => ~taken) /\ (~hasty' => ~hasty) BY DEF Lasting
<1>9. Intact(s) BY <1>5, <1>6 DEF Fit, Intact, Paired
<1>10. StageBehind(s, disk)' /\ FinalBehind(s, disk)'
  BY <1>5, <1>6, <1>7, <1>8 DEF Fit, StageBehind, FinalBehind
<1>11. Supported(s, disk)' BY <1>5, <1>6, <1>7, <1>8 DEF Fit, Supported
<1>12. Settled(s, disk)' BY <1>5, <1>6, <1>7, <1>8 DEF Fit, Settled
<1> QED BY <1>9, <1>10, <1>11, <1>12 DEF Fit

LEMMA LossFits ==
  ASSUME Stored, Fits, disk' \in surviving, surviving' = {disk'}, Lasting
  PROVE  Fits'
<1>1. SUFFICES ASSUME NEW j \in surviving, disk' = j PROVE Fit(j, disk)' BY DEF Fits
<1>2. /\ Fit(j, disk) /\ Sound(j, disk) /\ Sound(disk, disk) /\ j.stage \in 0..Files
      /\ j \in Images /\ disk \in Images /\ j.tomb \in Tombs /\ disk.tomb \in Tombs
  BY ImageFacts
<1>3. (~taken' => ~taken) /\ (~hasty' => ~hasty) BY DEF Lasting
<1>4. j.root = "intent" => disk.root = "intent" BY <1>2 DEF Sound, Link, LinkRoot, Made
<1>5. j.tomb.marks = "none" <=> disk.tomb.marks = "none"
  BY <1>2 DEF Sound, Link, LinkTomb, NoTomb, IsSealed, Tombs, Marks
<1>6. j.tomb.marks = "intent" => j.tomb.basis = disk.tomb.basis
  BY <1>2 DEF Sound, Link, LinkTomb, IsSealed
<1>7. j.tomb.marks = "intent" /\ disk.root = "intent" => disk.tomb.marks = "intent"
  BY <1>2 DEF Sound, Link, LinkTomb, NoTomb, Alone, IsSealed, Tombs, Marks
<1>8. StageBehind(j, disk)' /\ FinalBehind(j, disk)' BY <1>1, <1>2 DEF StageBehind, FinalBehind
<1>9. Supported(j, disk)' BY <1>1, <1>2, <1>3, <1>4, <1>5 DEF Fit, Supported
<1>10. Settled(j, disk)' BY <1>1, <1>2, <1>3, <1>4, <1>5, <1>6, <1>7 DEF Fit, Settled
<1> QED BY <1>2, <1>8, <1>9, <1>10 DEF Fit

LEMMA SameFits == ASSUME Fits, UNCHANGED diskVars, Lasting PROVE Fits'
<1>1. disk' = disk /\ surviving' = surviving BY DEF diskVars
<1>2. (~taken' => ~taken) /\ (~hasty' => ~hasty) BY DEF Lasting
<1>3. SUFFICES ASSUME NEW s \in surviving PROVE Fit(s, disk)' BY <1>1 DEF Fits
<1>4. Fit(s, disk) BY DEF Fits
<1>5. Supported(s, disk)' BY <1>1, <1>2, <1>4 DEF Fit, Supported
<1>6. Settled(s, disk)' BY <1>1, <1>2, <1>4 DEF Fit, Settled
<1> QED BY <1>1, <1>2, <1>4, <1>5, <1>6 DEF Fit, StageBehind, FinalBehind

LEMMA InitFits == ASSUME Init PROVE Fits
<1>1. disk = Empty /\ surviving = {Empty} BY DEF Init
<1>2. /\ Empty.root = "none" /\ Empty.stage = 0 /\ Empty.tomb = NoTomb /\ Empty.final = "none"
  BY DEF Empty
<1>3. Intact(Empty) BY <1>2 DEF Intact, Paired, NoTomb
<1> QED BY <1>1, <1>2, <1>3 DEF Fits, Fit, StageBehind, FinalBehind, Supported, Settled

-----------------------------------------------------------------------------
(* What the invocations claim beside a step.                               *)

Claiming == {"reserve", "commit", "confirm", "files", "copy", "place", "placed", "tomb_confirm", "strip"}

LEMMA ClaimingLocked == Claiming \subseteq Locked
  BY DEF Claiming, Locked, Holding, RetentionHolding

LEMMA NothingClaimed == ASSUME NEW q \in Proc, pc'[q] \notin Claiming PROVE Claims(q)'
  BY DEF Claims, Claiming

\* A step that says nothing of the journal and the staging tree.
Quiet ==
  /\ disk'.log = disk.log /\ disk'.stage = disk.stage /\ disk'.root = disk.root
  /\ ~taken' => ~taken /\ (disk'.final = "ours" <=> disk.final = "ours")
  /\ \A s \in surviving' : \E j \in surviving :
       s.stage = j.stage /\ (s.final = j.final \/ s.final = disk'.final)

LEMMA QuietHolds ==
  ASSUME NEW q \in Proc, Quiet, event'[q] = event[q]
  PROVE  (EventHolds(q) => EventHolds(q)') /\ (StageIsDurable => StageIsDurable')
<1>1. ASSUME EventHolds(q), NEW s \in surviving'
      PROVE  /\ ~taken' => \A f \in {s.final, disk'.final} : BackedBy(event[q], s.stage, f)
             /\ event[q].phase # "publish_intent" => s.stage <= disk'.stage
  <2>1. PICK j \in surviving : s.stage = j.stage /\ (s.final = j.final \/ s.final = disk'.final)
    BY DEF Quiet
  <2>2. /\ ~taken => BackedBy(event[q], j.stage, j.final) /\ BackedBy(event[q], j.stage, disk.final)
        /\ event[q].phase # "publish_intent" => j.stage <= disk.stage
    BY <1>1 DEF EventHolds
  <2>3. ~taken' => BackedBy(event[q], j.stage, disk'.final) BY <2>2 DEF Quiet, BackedBy
  <2> QED BY <2>1, <2>2, <2>3 DEF Quiet
<1>2. EventHolds(q) => EventHolds(q)' BY <1>1 DEF EventHolds
<1>3. StageIsDurable => StageIsDurable' BY DEF StageIsDurable, Quiet
<1> QED BY <1>2, <1>3

LEMMA QuietClaims ==
  ASSUME NEW q \in Proc, Claims(q), Quiet, pc'[q] = pc[q], event'[q] = event[q]
  PROVE  Claims(q)'
<1>1. (EventHolds(q) => EventHolds(q)') /\ (StageIsDurable => StageIsDurable') BY QuietHolds
<1>2. disk'.log = disk.log /\ disk'.stage = disk.stage /\ disk'.root = disk.root BY DEF Quiet
<1> QED BY <1>1, <1>2 DEF Claims

LEMMA SpreadsQuiet ==
  ASSUME NEW parts, Spreads(parts), Lasting, parts \cap {"log", "stage", "root", "final"} = {}
  PROVE  Quiet
  BY DEF Spreads, Turns, Keeps, Quiet, Lasting

LEMMA TargetQuiet == ASSUME Stored, SyncTarget, Lasting PROVE Quiet
<1> DEFINE parts == {"root", "final", "erasing", "tomb"}
<1>1. Sinks(parts) /\ disk' = disk BY SyncSinks DEF SyncTarget, Writable
<1> QED BY <1>1 DEF Sinks, Turns, Keeps, Quiet, Lasting

LEMMA NameQuiet ==
  ASSUME Stored, NEW value, Put("final", value), value # "ours",
         ~taken' => ~taken /\ disk.final # "ours"
  PROVE  Quiet
<1>1. Spreads({"final"}) /\ disk'["final"] = value BY PutSpreads DEF Writable
<1> QED BY <1>1 DEF Spreads, Turns, Keeps, Quiet

LEMMA SameQuiet == ASSUME UNCHANGED diskVars, Lasting PROVE Quiet
  BY DEF diskVars, Quiet, Lasting

-----------------------------------------------------------------------------
(* One step of one invocation.                                             *)

\* The disk stays fit, the invocation claims what it has, and what others claim
\* is not disturbed: it has the lock, nobody has it, or the step says nothing of it.
Stays(p) == Fits' /\ Claims(p)' /\ (pc[p] \in Locked \/ lock = Nobody \/ Quiet)

LEMMA IdleStays ==
  ASSUME CInv, NEW p \in Proc, UNCHANGED diskVars, Lasting, pc'[p] \notin Claiming PROVE Stays(p)
  BY SameFits, SameQuiet, NothingClaimed DEF CInv, Stays

\* An event that is written next.
LEMMA AppendClaims ==
  ASSUME IInv, NEW p \in Proc, NEW phase, NEW staged, Append(p, phase, staged),
         \A s \in surviving' :
           /\ ~taken' => \A f \in {s.final, disk'.final} :
                           BackedBy([phase |-> phase, staged |-> staged], s.stage, f)
           /\ phase # "publish_intent" => s.stage <= disk'.stage,
         phase = "file_staged" => StageIsDurable'
  PROVE  Claims(p)'
<1>1. pc'[p] = "reserve" BY GotoFields DEF Append
<1>2. event'[p] = [phase |-> phase, staged |-> staged] BY DEF Append, IInv, CallType
<1>3. event'[p].phase = phase BY <1>2
<1>4. EventHolds(p)' BY <1>2, <1>3 DEF EventHolds
<1> QED BY <1>1, <1>3, <1>4 DEF Claims

\* What a holder of the lock finds.
LEMMA HolderFinds ==
  ASSUME IInv, CInv, NEW p \in Proc, pc[p] \in Holding
  PROVE  /\ Stored /\ Fits /\ Claims(p) /\ pc[p] \in Locked /\ disk.tomb.marks = "none"
         /\ pc[p] # "intent" => disk.root = "intent"
         /\ Materializes(p) /\ disk.log \in Logs /\ disk \in surviving
  BY HoldingFacts DEF CInv, Stored

LEMMA WriteIntentStays ==
  ASSUME IInv, Stored', CInv, NEW p \in Proc, WriteIntent(p), Lasting PROVE Stays(p)
<1>1. pc[p] = "intent" /\ disk.root = "tree" /\ PutDurably("root", "intent") /\ Append(p, "journaled", 0)
  BY DEF WriteIntent
<1>2. Stored /\ Fits /\ pc[p] \in Locked /\ disk \in surviving BY <1>1, HolderFinds DEF Holding
<1>3. Sinks({"root"}) /\ disk'["root"] = "intent" BY <1>1, <1>2, PutDurablySinks DEF Writable
<1>4. Fits' BY <1>1, <1>2, <1>3, SinkSpreads, RootFits
<1>5. \A j \in surviving : j.stage = 0
  BY <1>1, <1>2, ImageFacts DEF Fit, Intact, Sound, Link, LinkRoot, Made
<1>6. \A s \in surviving' : s.stage = 0 BY <1>3, <1>5 DEF Sinks, Turns, Keeps
<1>7. disk'.stage = 0 BY <1>2, <1>3, <1>5 DEF Sinks, Keeps
<1>8. Claims(p)'
  BY <1>1, <1>6, <1>7, AppendClaims DEF BackedBy, Unpublished, Publishing
<1> QED BY <1>2, <1>4, <1>8 DEF Stays

LEMMA ReserveEventStays ==
  ASSUME IInv, Stored', CInv, NEW p \in Proc, ReserveEvent(p), Lasting PROVE Stays(p)
<1>1. /\ pc[p] = "reserve" /\ Put("scratch", disk.scratch + 1) /\ Goto(p, "commit") /\ event' = event
  BY DEF ReserveEvent
<1>2. Stored /\ Fits /\ pc[p] \in Locked /\ Claims(p) BY <1>1, HolderFinds DEF Holding
<1>3. Spreads({"scratch"}) BY <1>1, <1>2, PutSpreads DEF Writable
<1>4. Fits' BY <1>2, <1>3, ScratchFits
<1>5. Quiet BY <1>3, SpreadsQuiet
<1>6. (EventHolds(p) => EventHolds(p)') /\ (StageIsDurable => StageIsDurable')
  BY <1>1, <1>5, QuietHolds
<1>7. pc'[p] = "commit" BY <1>1, GotoFields
<1>8. Claims(p)' BY <1>1, <1>2, <1>6, <1>7 DEF Claims
<1> QED BY <1>2, <1>4, <1>8 DEF Stays

LEMMA CommitEventStays ==
  ASSUME IInv, Stored', CInv, NEW p \in Proc, CommitEvent(p), Lasting PROVE Stays(p)
<1>1. pc[p] = "commit" /\ Move("scratch", disk.scratch - 1, "log", event[p]) /\ Goto(p, "confirm")
  BY DEF CommitEvent
<1>2. /\ Stored /\ Fits /\ pc[p] \in Locked /\ Claims(p)
      /\ disk.root = "intent" /\ disk.tomb.marks = "none"
  BY <1>1, HolderFinds DEF Holding
<1>3. Spreads({"scratch", "log"}) /\ disk'["log"] = event[p]
  <2>1. "scratch" \in Writable /\ "log" \in Writable /\ "root" \notin {"scratch", "log"}
    BY DEF Writable
  <2> QED BY <1>1, <1>2, <2>1, MoveSpreads
<1>4. EventHolds(p) BY <1>1, <1>2 DEF Claims
<1>5. Fits' BY <1>2, <1>3, <1>4, EventFits
<1>6. pc'[p] = "confirm" BY <1>1, GotoFields
<1>7. StageIsDurable => StageIsDurable' BY <1>3 DEF StageIsDurable, Spreads, Turns, Keeps
<1>8. Claims(p)' BY <1>1, <1>2, <1>3, <1>6, <1>7 DEF Claims
<1> QED BY <1>2, <1>5, <1>8 DEF Stays

\* The journal is synced, and nothing else changes.
LEMMA JournalStays ==
  ASSUME IInv, Stored', CInv, NEW p \in Proc, pc[p] \in {"confirm", "reconfirm"}, SyncJournal, Lasting
  PROVE  /\ Fits' /\ pc[p] \in Locked /\ Claims(p) /\ disk' = disk
         /\ \A s \in surviving' : \E j \in surviving : s.stage = j.stage /\ s.final = j.final
<1>1. pc[p] \in Holding BY DEF Holding
<1>2. Stored /\ Fits /\ pc[p] \in Locked /\ Claims(p) BY <1>1, HolderFinds
<1>3. Sinks({"log", "scratch"}) /\ disk' = disk BY <1>2, SyncSinks DEF SyncJournal, Writable
<1>4. Fits' BY <1>2, <1>3, SinkSpreads, JournalSyncFits
<1> QED BY <1>2, <1>3, <1>4 DEF Sinks, Turns, Keeps

LEMMA ConfirmEventStays ==
  ASSUME IInv, Stored', CInv, NEW p \in Proc, ConfirmEvent(p), Lasting PROVE Stays(p)
<1>1. pc[p] = "confirm" /\ SyncJournal /\ Continue(p) BY DEF ConfirmEvent
<1>2. /\ Fits' /\ pc[p] \in Locked /\ Claims(p) /\ disk' = disk
      /\ \A s \in surviving' : \E j \in surviving : s.stage = j.stage /\ s.final = j.final
  BY <1>1, JournalStays
<1>3. \/ pc'[p] \in {"advance", "idle"}
      \/ pc'[p] = "files" /\ disk.log.phase = "file_staged"
  BY <1>1 DEF Continue, Goto, Return, Terminal, IInv, CallType
<1>4. StageIsDurable => StageIsDurable' BY <1>2 DEF StageIsDurable
<1>5. Claims(p)' BY <1>1, <1>2, <1>3, <1>4 DEF Claims
<1> QED BY <1>2, <1>5 DEF Stays

LEMMA ReconfirmStays ==
  ASSUME IInv, Stored', CInv, NEW p \in Proc, Reconfirm(p), Lasting PROVE Stays(p)
<1>1. pc[p] = "reconfirm" /\ SyncJournal BY DEF Reconfirm
<1>2. /\ Fits' /\ pc[p] \in Locked /\ Claims(p) /\ disk' = disk
      /\ \A s \in surviving' : \E j \in surviving : s.stage = j.stage /\ s.final = j.final
  BY <1>1, JournalStays
<1>3. CASE mode[p] = "abandon"
  <2>1. Append(p, "abandoned", disk.log.staged) BY <1>3 DEF Reconfirm
  <2>2. disk.log.phase \in Unpublished BY <1>1, <1>3, HoldingFacts DEF Materializes, Holding
  <2>3. \A j \in surviving : j.stage <= disk.stage
    BY <2>2, ImageFacts DEF Fit, StageBehind, Unpublished, IInv, CInv
  <2>4. \A s \in surviving' : s.stage <= disk'.stage BY <1>2, <2>3
  <2>5. Claims(p)'
    BY <2>1, <2>4, AppendClaims DEF BackedBy, Unpublished, Publishing
  <2> QED BY <1>2, <2>5 DEF Stays
<1>4. CASE mode[p] # "abandon"
  <2>1. Goto(p, "source") BY <1>4 DEF Reconfirm
  <2>2. pc'[p] = "source" BY <2>1, GotoFields
  <2> QED BY <1>2, <2>2, NothingClaimed DEF Stays, Claiming
<1> QED BY <1>3, <1>4

\* What the journal says of the staging tree, and of the public name.
LEMMA HolderSupports ==
  ASSUME IInv, CInv, NEW p \in Proc, pc[p] \in Holding \ {"intent"}, NEW j \in surviving
  PROVE  /\ ~taken => \A f \in {j.final, disk.final} : BackedBy(disk.log, j.stage, f)
         /\ disk.log.phase # "publish_intent" => j.stage <= disk.stage
         /\ j.stage \in 0..Files /\ disk.stage \in 0..Files
  BY HolderFinds, ImageFacts DEF Fit, Supported, StageBehind

\* An event that claims no more than the one before it, on the disk as it is.
LEMMA NextEventStays ==
  ASSUME IInv, Stored', CInv, NEW p \in Proc, pc[p] \in Holding \ {"intent"}, UNCHANGED diskVars,
         Lasting, NEW phase, NEW staged, Append(p, phase, staged),
         disk.log.phase # "publish_intent",
         \A j \in surviving, f \in {"none", "ours", "other"} :
           BackedBy(disk.log, j.stage, f) => BackedBy([phase |-> phase, staged |-> staged], j.stage, f),
         phase = "file_staged" => StageIsDurable
  PROVE  Stays(p)
<1>1. Stored /\ Fits /\ pc[p] \in Locked BY HolderFinds
<1>2. disk' = disk /\ surviving' = surviving BY DEF diskVars
<1>3. Fits' BY <1>1, SameFits
<1>4. ~taken' => ~taken BY DEF Lasting
<1>5. ASSUME NEW s \in surviving
      PROVE  /\ ~taken' => \A f \in {s.final, disk.final} :
                             BackedBy([phase |-> phase, staged |-> staged], s.stage, f)
             /\ s.stage <= disk.stage
  <2>1. s.final \in {"none", "ours", "other"} /\ disk.final \in {"none", "ours", "other"}
    BY <1>1 DEF Stored, Images
  <2> QED BY <1>4, <2>1, HolderSupports
<1>6. StageIsDurable => StageIsDurable' BY <1>2 DEF StageIsDurable
<1>7. Claims(p)' BY <1>2, <1>5, <1>6, AppendClaims
<1> QED BY <1>1, <1>3, <1>7 DEF Stays

\* A sync of the target root by a holder.
LEMMA RootSyncStays ==
  ASSUME IInv, Stored', CInv, NEW p \in Proc, pc[p] \in Holding \ {"intent", "confirm", "reconfirm"},
         SyncRoot, Lasting
  PROVE  /\ Fits' /\ pc[p] \in Locked /\ disk' = disk
         /\ \A s \in surviving' : s.stage = disk.stage /\ s.final = disk.final
<1>1. /\ Stored /\ Fits /\ pc[p] \in Locked /\ disk.root = "intent" /\ disk.tomb.marks = "none"
      /\ LogIsDurable
  BY HolderFinds DEF Materializes
<1>2. Sinks({"root", "final", "erasing", "stage"}) /\ disk' = disk
  BY <1>1, SyncSinks DEF SyncRoot, Writable
<1>3. Fits' BY <1>1, <1>2, SinkSpreads, RootSyncFits
<1> QED BY <1>1, <1>2, <1>3 DEF Sinks, Turns

LEMMA StageSyncStays ==
  ASSUME IInv, Stored', CInv, NEW p \in Proc, pc[p] \in Holding \ {"intent", "confirm", "reconfirm"},
         disk.log.phase \in {"stage_created", "file_staged"}, SyncStage, Lasting
  PROVE  Fits' /\ pc[p] \in Locked /\ disk' = disk /\ StageIsDurable'
<1>1. /\ Stored /\ Fits /\ pc[p] \in Locked /\ disk.root = "intent" /\ LogIsDurable
  BY HolderFinds DEF Materializes
<1>2. Sinks({"stage", "scratch"}) /\ disk' = disk BY <1>1, SyncSinks DEF SyncStage, Writable
<1>3. Fits' BY <1>1, <1>2, SinkSpreads, StageSyncFits
<1>4. StageIsDurable' BY <1>2 DEF Sinks, Turns, StageIsDurable
<1> QED BY <1>1, <1>2, <1>3, <1>4

LEMMA ConfirmCommittedStays ==
  ASSUME IInv, Stored', CInv, NEW p \in Proc, ConfirmCommitted(p), Lasting PROVE Stays(p)
<1>1. pc[p] = "advance" BY DEF ConfirmCommitted, At
<1>2. PICK o \in {"already", "none"} : Return(p, o) /\ (SyncRoot \/ UNCHANGED diskVars)
  BY DEF ConfirmCommitted
<1>3. pc'[p] = "idle" BY <1>2 DEF Return, IInv, CallType
<1>4. CASE UNCHANGED diskVars BY <1>3, <1>4, IdleStays DEF Claiming
<1>5. CASE SyncRoot
  <2>1. Fits' /\ pc[p] \in Locked BY <1>1, <1>5, RootSyncStays DEF Holding
  <2> QED BY <1>3, <2>1, NothingClaimed DEF Stays, Claiming
<1> QED BY <1>2, <1>4, <1>5

LEMMA BeginStageStays ==
  ASSUME IInv, Stored', CInv, NEW p \in Proc, BeginStage(p), Lasting PROVE Stays(p)
<1>1. /\ pc[p] = "advance" /\ disk.log.phase = "journaled" /\ Append(p, "stage_created", 0)
      /\ UNCHANGED diskVars
  BY DEF BeginStage, At
<1>2. pc[p] \in Holding \ {"intent"} BY <1>1 DEF Holding
<1>3. \A j \in surviving, f \in {"none", "ours", "other"} :
        BackedBy(disk.log, j.stage, f) => BackedBy([phase |-> "stage_created", staged |-> 0], j.stage, f)
  BY <1>1 DEF BackedBy, Publishing
<1> QED BY <1>1, <1>2, <1>3, NextEventStays

LEMMA PrepareStageStays ==
  ASSUME IInv, Stored', CInv, NEW p \in Proc, PrepareStage(p), Lasting PROVE Stays(p)
<1>1. /\ pc[p] = "advance" /\ disk.log.phase \in {"stage_created", "file_staged"} /\ SyncStage
      /\ Goto(p, "files")
  BY DEF PrepareStage, At
<1>2. Fits' /\ pc[p] \in Locked /\ StageIsDurable' BY <1>1, StageSyncStays DEF Holding
<1>3. pc'[p] = "files" BY <1>1, GotoFields
<1> QED BY <1>2, <1>3 DEF Stays, Claims

LEMMA FindStagedStays ==
  ASSUME IInv, Stored', CInv, NEW p \in Proc, FindStaged(p), Lasting PROVE Stays(p)
<1>1. /\ pc[p] = "files" /\ UNCHANGED diskVars BY DEF FindStaged
<1>2. /\ pc[p] \in Holding \ {"intent"} /\ Stored /\ Fits /\ pc[p] \in Locked /\ StageIsDurable
      /\ disk.log.phase \in {"stage_created", "file_staged"} /\ disk.log.staged \in Nat
      /\ disk.stage \in Nat
  BY <1>1, HolderFinds, StagingFacts, ImageFacts DEF Holding, Claims
<1>3. CASE disk.stage > disk.log.staged /\ Append(p, "file_staged", disk.log.staged + 1)
  <2>1. ASSUME NEW j \in surviving, NEW f, BackedBy(disk.log, j.stage, f)
        PROVE  BackedBy([phase |-> "file_staged", staged |-> disk.log.staged + 1], j.stage, f)
    <3>1. j.stage = disk.stage BY <1>2 DEF StageIsDurable
    <3> QED BY <1>2, <1>3, <2>1, <3>1 DEF BackedBy, Publishing, Unpublished
  <2> QED BY <1>1, <1>2, <1>3, <2>1, NextEventStays
<1>4. CASE disk.stage <= disk.log.staged /\ Goto(p, "copy")
  <2>1. Fits' BY <1>1, <1>2, SameFits
  <2>2. pc'[p] = "copy" /\ disk' = disk BY <1>1, <1>4, GotoFields DEF diskVars
  <2> QED BY <1>2, <1>4, <2>1, <2>2 DEF Stays, Claims
<1> QED BY <1>3, <1>4 DEF FindStaged

LEMMA CopyFileStays ==
  ASSUME IInv, Stored', CInv, NEW p \in Proc, CopyFile(p), Lasting PROVE Stays(p)
<1>1. pc[p] = "copy" BY DEF CopyFile
<1>2. CASE Return(p, "none") /\ UNCHANGED diskVars
  <2>1. pc'[p] = "idle" BY <1>2 DEF Return, IInv, CallType
  <2> QED BY <1>2, <2>1, IdleStays DEF Claiming
<1>3. CASE Put("scratch", disk.scratch + 1) /\ Goto(p, "place")
  <2>1. Stored /\ Fits /\ pc[p] \in Locked /\ Claims(p) BY <1>1, HolderFinds DEF Holding
  <2>2. Spreads({"scratch"}) BY <1>3, <2>1, PutSpreads DEF Writable
  <2>3. Fits' BY <2>1, <2>2, ScratchFits
  <2>4. disk'.stage = disk.stage /\ disk'.log = disk.log BY <2>2 DEF Spreads, Keeps
  <2>5. pc'[p] = "place" BY <1>3, GotoFields
  <2>6. Claims(p)' BY <1>1, <2>1, <2>4, <2>5 DEF Claims
  <2> QED BY <2>1, <2>3, <2>6 DEF Stays
<1> QED BY <1>2, <1>3 DEF CopyFile

LEMMA PlaceFileStays ==
  ASSUME IInv, Stored', CInv, NEW p \in Proc, PlaceFile(p), Lasting PROVE Stays(p)
<1>1. pc[p] = "place" BY DEF PlaceFile
<1>2. /\ Stored /\ Fits /\ pc[p] \in Locked /\ Claims(p) /\ LogIsDurable
      /\ disk.log.phase \in {"stage_created", "file_staged"}
      /\ disk.root = "intent" /\ disk.tomb.marks = "none"
  BY <1>1, HolderFinds, StagingFacts DEF Holding
<1>3. CASE Move("scratch", disk.scratch - 1, "stage", disk.log.staged + 1) /\ Goto(p, "placed")
  <2>1. Spreads({"scratch", "stage"}) /\ disk'["stage"] = disk.log.staged + 1
    <3>1. "scratch" \in Writable /\ "stage" \in Writable /\ "root" \notin {"scratch", "stage"}
      BY DEF Writable
    <3> QED BY <1>2, <1>3, <3>1, MoveSpreads
  <2>2. disk.stage <= disk.log.staged BY <1>1, <1>2 DEF Claims
  <2>3. Fits' BY <1>2, <2>1, <2>2, PlaceFits
  <2>4. disk'.log = disk.log BY <2>1 DEF Spreads, Keeps
  <2>5. pc'[p] = "placed" BY <1>3, GotoFields
  <2> QED BY <1>2, <2>1, <2>3, <2>4, <2>5 DEF Stays, Claims
<1>4. CASE PutDurably("scratch", disk.scratch - 1) /\ Return(p, "none")
  <2>1. Sinks({"scratch"}) BY <1>2, <1>4, PutDurablySinks DEF Writable
  <2>2. Fits' BY <1>2, <2>1, SinkSpreads, ScratchFits
  <2>3. pc'[p] = "idle" BY <1>4 DEF Return, IInv, CallType
  <2> QED BY <1>2, <2>2, <2>3, NothingClaimed DEF Stays, Claiming
<1> QED BY <1>3, <1>4 DEF PlaceFile

LEMMA ConfirmFileStays ==
  ASSUME IInv, Stored', CInv, NEW p \in Proc, ConfirmFile(p), Lasting PROVE Stays(p)
<1>1. /\ pc[p] = "placed" /\ SyncStage /\ Append(p, "file_staged", disk.log.staged + 1)
  BY DEF ConfirmFile
<1>2. /\ pc[p] \in Holding \ {"intent", "confirm", "reconfirm"} /\ Claims(p)
      /\ disk.log.phase \in {"stage_created", "file_staged"} /\ disk.log.staged \in Nat
  BY <1>1, HolderFinds, StagingFacts DEF Holding
<1>3. disk.stage = disk.log.staged + 1 BY <1>1, <1>2 DEF Claims
<1>4. Fits' /\ pc[p] \in Locked /\ disk' = disk /\ StageIsDurable' BY <1>1, <1>2, StageSyncStays
<1>5. ASSUME NEW s \in surviving', NEW f
      PROVE  /\ BackedBy([phase |-> "file_staged", staged |-> disk.log.staged + 1], s.stage, f)
             /\ s.stage <= disk'.stage
  <2>1. s.stage = disk.log.staged + 1 /\ disk'.stage = s.stage BY <1>3, <1>4 DEF StageIsDurable
  <2> QED BY <1>2, <2>1 DEF BackedBy, Publishing, Unpublished
<1>6. Claims(p)' BY <1>1, <1>4, <1>5, AppendClaims
<1> QED BY <1>4, <1>6 DEF Stays

LEMMA VerifyStageStays ==
  ASSUME IInv, Stored', CInv, NEW p \in Proc, VerifyStage(p), Lasting PROVE Stays(p)
<1>1. /\ pc[p] = "files" /\ disk.log.staged = Files /\ Append(p, "stage_verified", Files)
      /\ UNCHANGED diskVars
  BY DEF VerifyStage
<1>2. /\ pc[p] \in Holding \ {"intent"} /\ disk.log.phase \in {"stage_created", "file_staged"}
  BY <1>1, StagingFacts DEF Holding
<1>3. ASSUME NEW j \in surviving, NEW f, BackedBy(disk.log, j.stage, f)
      PROVE  BackedBy([phase |-> "stage_verified", staged |-> Files], j.stage, f)
  <2>1. j.stage \in Files..(Files + 1) BY <1>1, <1>2, <1>3 DEF BackedBy, Unpublished
  <2>2. j.stage \in 0..Files BY <1>2, HolderSupports
  <2>3. j.stage = Files BY <2>1, <2>2, FilesAssumption
  <2> QED BY <2>3, FilesAssumption DEF BackedBy, Publishing
<1> QED BY <1>1, <1>2, <1>3, NextEventStays

LEMMA IntendPublicationStays ==
  ASSUME IInv, Stored', CInv, NEW p \in Proc, IntendPublication(p), Lasting PROVE Stays(p)
<1>1. /\ pc[p] = "advance" /\ disk.log.phase = "stage_verified" /\ UNCHANGED diskVars
      /\ Append(p, "publish_intent", Files) \/ Return(p, "none")
  BY DEF IntendPublication, At
<1>2. CASE Return(p, "none")
  <2>1. pc'[p] = "idle" BY <1>2 DEF Return, IInv, CallType
  <2> QED BY <1>1, <2>1, IdleStays DEF Claiming
<1>3. CASE Append(p, "publish_intent", Files)
  <2>1. pc[p] \in Holding \ {"intent"} BY <1>1 DEF Holding
  <2>2. ASSUME NEW j \in surviving, NEW f, BackedBy(disk.log, j.stage, f)
        PROVE  BackedBy([phase |-> "publish_intent", staged |-> Files], j.stage, f)
    BY <1>1, <2>2 DEF BackedBy, Unpublished
  <2> QED BY <1>1, <1>3, <2>1, <2>2, NextEventStays
<1> QED BY <1>1, <1>2, <1>3

LEMMA PublishedStays ==
  ASSUME IInv, Stored', CInv, NEW p \in Proc, RecoverPublication(p) \/ ConfirmRename(p), Lasting
  PROVE  Stays(p)
<1>1. pc[p] \in {"advance", "renamed"} BY DEF RecoverPublication, ConfirmRename, At
<1>2. CASE Return(p, "none") /\ UNCHANGED diskVars
  <2>1. pc'[p] = "idle" BY <1>2 DEF Return, IInv, CallType
  <2> QED BY <1>2, <2>1, IdleStays DEF Claiming
<1>3. CASE disk.final = "ours" /\ SyncRoot /\ Append(p, "published", Files)
  <2>1. pc[p] \in Holding \ {"intent", "confirm", "reconfirm"} BY <1>1 DEF Holding
  <2>2. /\ Fits' /\ pc[p] \in Locked /\ disk' = disk
        /\ \A s \in surviving' : s.stage = disk.stage /\ s.final = "ours"
    BY <1>3, <2>1, RootSyncStays
  <2>3. \A stage : BackedBy([phase |-> "published", staged |-> Files], stage, "ours")
    BY DEF BackedBy, Unpublished
  <2>4. disk.stage <= disk.stage BY <2>1, HolderFinds DEF Stored, Images
  <2>5. Claims(p)' BY <1>3, <2>2, <2>3, <2>4, AppendClaims
  <2> QED BY <2>2, <2>5 DEF Stays
<1> QED BY <1>2, <1>3 DEF RecoverPublication, ConfirmRename

LEMMA VerifyBeforeRenameStays ==
  ASSUME IInv, Stored', CInv, NEW p \in Proc, VerifyBeforeRename(p), Lasting PROVE Stays(p)
<1>1. UNCHANGED diskVars /\ (Goto(p, "rename") \/ Return(p, "none")) BY DEF VerifyBeforeRename
<1>2. pc'[p] \in {"rename", "idle"} BY <1>1, GotoFields DEF Return, IInv, CallType
<1> QED BY <1>1, <1>2, IdleStays DEF Claiming

LEMMA RenameStays ==
  ASSUME IInv, Stored', CInv, NEW p \in Proc, Rename(p), Lasting PROVE Stays(p)
<1>1. pc[p] = "rename" BY DEF Rename
<1>2. CASE Return(p, "none") /\ UNCHANGED diskVars
  <2>1. pc'[p] = "idle" BY <1>2 DEF Return, IInv, CallType
  <2> QED BY <1>2, <2>1, IdleStays DEF Claiming
<1>3. CASE Move("stage", 0, "final", "ours") /\ Goto(p, "renamed")
  <2>1. /\ Stored /\ Fits /\ pc[p] \in Locked /\ LogIsDurable /\ disk.log.phase = "publish_intent"
        /\ disk.root = "intent" /\ disk.tomb.marks = "none"
    BY <1>1, HolderFinds DEF Holding, Materializes
  <2>2. Spreads({"stage", "final"}) /\ disk'["stage"] = 0 /\ disk'["final"] = "ours"
    <3>1. "stage" \in Writable /\ "final" \in Writable /\ "root" \notin {"stage", "final"}
      BY DEF Writable
    <3> QED BY <1>3, <2>1, <3>1, MoveSpreads
  <2>3. Fits' BY <2>1, <2>2, RenameFits
  <2>4. pc'[p] = "renamed" BY <1>3, GotoFields
  <2> QED BY <2>1, <2>3, <2>4, NothingClaimed DEF Stays, Claiming
<1> QED BY <1>2, <1>3 DEF Rename

LEMMA ConfirmFinalStays ==
  ASSUME IInv, Stored', CInv, NEW p \in Proc, ConfirmFinal(p), Lasting PROVE Stays(p)
<1>1. pc[p] = "advance" BY DEF ConfirmFinal, At
<1>2. pc'[p] \in {"advance", "idle"} BY GotoFields DEF ConfirmFinal, Return, IInv, CallType
<1>3. CASE UNCHANGED diskVars BY <1>2, <1>3, IdleStays DEF Claiming
<1>4. CASE SyncRoot
  <2>1. Fits' /\ pc[p] \in Locked BY <1>1, <1>4, RootSyncStays DEF Holding
  <2> QED BY <1>2, <2>1, NothingClaimed DEF Stays, Claiming
<1> QED BY <1>3, <1>4 DEF ConfirmFinal

LEMMA VerifyFinalStays ==
  ASSUME IInv, Stored', CInv, NEW p \in Proc, VerifyFinal(p), Lasting PROVE Stays(p)
<1>1. pc[p] = "advance" /\ UNCHANGED diskVars BY DEF VerifyFinal, At
<1>2. CASE Return(p, "none") \/ Goto(p, "clean")
  <2>1. pc'[p] \in {"clean", "idle"} BY <1>2, GotoFields DEF Return, IInv, CallType
  <2> QED BY <1>1, <2>1, IdleStays DEF Claiming
<1>3. CASE disk.log.phase = "published" /\ Append(p, "final_verified", Files)
  <2>1. pc[p] \in Holding \ {"intent"} BY <1>1 DEF Holding
  <2>2. ASSUME NEW j \in surviving, NEW f, BackedBy(disk.log, j.stage, f)
        PROVE  BackedBy([phase |-> "final_verified", staged |-> Files], j.stage, f)
    BY <1>3, <2>2 DEF BackedBy, Unpublished, Publishing
  <2> QED BY <1>1, <1>3, <2>1, <2>2, NextEventStays
<1> QED BY <1>2, <1>3 DEF VerifyFinal

LEMMA CleanStays ==
  ASSUME IInv, Stored', CInv, NEW p \in Proc, Clean(p), Lasting PROVE Stays(p)
<1>1. pc[p] = "clean" BY DEF Clean
<1>2. /\ Stored /\ Fits /\ pc[p] \in Locked /\ disk.log.phase = "final_verified"
      /\ pc[p] \in Holding \ {"intent"}
  BY <1>1, HolderFinds DEF Holding, Materializes
<1>3. CASE PutDurably("scratch", disk.scratch - 1) /\ Goto(p, "clean")
  <2>1. Sinks({"scratch"}) BY <1>2, <1>3, PutDurablySinks DEF Writable
  <2>2. Fits' BY <1>2, <2>1, SinkSpreads, ScratchFits
  <2>3. pc'[p] = "clean" BY <1>3, GotoFields
  <2> QED BY <1>2, <2>2, <2>3, NothingClaimed DEF Stays, Claiming
<1>4. CASE Append(p, "committed", Files) /\ UNCHANGED diskVars
  <2>1. ASSUME NEW j \in surviving, NEW f, BackedBy(disk.log, j.stage, f)
        PROVE  BackedBy([phase |-> "committed", staged |-> Files], j.stage, f)
    BY <1>2, <2>1 DEF BackedBy, Unpublished, Publishing
  <2> QED BY <1>2, <1>4, <2>1, NextEventStays
<1> QED BY <1>3, <1>4 DEF Clean

\* The operation directory is made.
LEMMA MakeRootStays ==
  ASSUME IInv, Stored', CInv, NEW p \in Proc, MakeRoot(p), Lasting PROVE Stays(p)
<1>1. pc'[p] \in {"tree", "idle"} BY GotoFields DEF MakeRoot, Return, IInv, CallType
<1>2. CASE UNCHANGED diskVars BY <1>1, <1>2, IdleStays DEF Claiming
<1>3. CASE disk.root = "none" /\ Put("root", "bare")
  <2>1. Stored /\ Fits BY DEF IInv, CInv
  <2>2. Spreads({"root"}) /\ disk'["root"] = "bare" BY <1>3, <2>1, PutSpreads DEF Writable
  <2>3. Fits' BY <1>3, <2>1, <2>2, RootFits
  <2>4. lock = Nobody BY <1>3, AbsentAlone DEF IInv, LockType
  <2> QED BY <1>1, <2>3, <2>4, NothingClaimed DEF Stays, Claiming
<1> QED BY <1>2, <1>3 DEF MakeRoot

LEMMA MakeTreeStays ==
  ASSUME IInv, Stored', CInv, NEW p \in Proc, MakeTree(p), Lasting PROVE Stays(p)
<1>1. pc[p] = "tree" /\ PutDurably("root", "tree") /\ Goto(p, "intent") BY DEF MakeTree
<1>2. Stored /\ Fits /\ disk.root = "bare" /\ lock = Nobody
  BY <1>1 DEF IInv, CInv, Progress, Making
<1>3. Sinks({"root"}) /\ disk'["root"] = "tree" BY <1>1, <1>2, PutDurablySinks DEF Writable
<1>4. Fits' BY <1>2, <1>3, SinkSpreads, RootFits
<1>5. pc'[p] = "intent" BY <1>1, GotoFields
<1> QED BY <1>2, <1>4, <1>5, NothingClaimed DEF Stays, Claiming

\* A step that neither writes nor claims anything.
LEMMA LookingStays ==
  ASSUME IInv, CInv, NEW p \in Proc, Lasting,
         Start(p) \/ CheckFinal(p) \/ Opening(p) \/ FindSource(p) \/ Crash(p)
         \/ StartRetention(p) \/ LookAgain(p)
  PROVE  Stays(p)
<1>1. UNCHANGED diskVars
  BY DEF Start, CheckFinal, Opening, OpenRetained, Open, FindSource, Crash, StartRetention,
         LookAgain, Read, Stop
<1>2. pc'[p] \notin Claiming
  BY DEF Start, CheckFinal, Opening, OpenRetained, Open, FindSource, Crash, StartRetention,
         LookAgain, Read, Step, Stop, Goto, Return, Claiming, IInv, CallType
<1> QED BY <1>1, <1>2, IdleStays

LEMMA MaterializingStays ==
  ASSUME IInv, Stored', CInv, NEW p \in Proc, Materializing(p), Lasting PROVE Stays(p)
BY LookingStays, MakeRootStays, MakeTreeStays, WriteIntentStays,
   ReserveEventStays, CommitEventStays, ConfirmEventStays, ReconfirmStays,
   ConfirmCommittedStays, BeginStageStays, PrepareStageStays, FindStagedStays,
   CopyFileStays, PlaceFileStays, ConfirmFileStays, VerifyStageStays, IntendPublicationStays,
   PublishedStays, VerifyBeforeRenameStays, RenameStays, ConfirmFinalStays, VerifyFinalStays,
   CleanStays
   DEF Materializing, StartBelow, BoundedMakeRoot

-----------------------------------------------------------------------------
(* One step of prune or forget.                                            *)

LEMMA Prolongs ==
  ASSUME History, UNCHANGED taken, disk'.gen = disk.gen
  PROVE  Lasting /\ (~hasty' => ~BeganHastily)
  BY DEF History, Lasting

LEMMA SpreadsLast ==
  ASSUME NEW parts, Spreads(parts), History, UNCHANGED taken
  PROVE  Lasting /\ (~hasty' => ~BeganHastily)
<1>1. disk'.gen = disk.gen BY DEF Spreads, Keeps
<1> QED BY <1>1, Prolongs

LEMMA SameLasts ==
  ASSUME UNCHANGED diskVars, History, UNCHANGED taken PROVE Lasting
  BY Prolongs DEF diskVars

LEMMA TargetStays ==
  ASSUME IInv, Stored', CInv, NEW p \in Proc, SyncTarget, Lasting, pc'[p] \notin Claiming
  PROVE  Stays(p)
<1>1. Stored /\ Fits BY DEF IInv, CInv
<1>2. Sinks({"root", "final", "erasing", "tomb"}) /\ disk' = disk
  BY <1>1, SyncSinks DEF SyncTarget, Writable
<1>3. Fits' BY <1>1, <1>2, SinkSpreads, TargetSyncFits
<1> QED BY <1>1, <1>3, TargetQuiet, NothingClaimed DEF Stays

LEMMA TargetLasts ==
  ASSUME Stored, SyncTarget, History, UNCHANGED taken PROVE Lasting
<1>1. disk' = disk BY DEF SyncTarget, Sync
<1> QED BY <1>1, Prolongs

\* A tombstone with a terminal journal under it.
LEMMA SettledLog ==
  ASSUME Fits, ~hasty, disk.root = "intent", disk.tomb.marks # "none"
  PROVE  LogIsDurable
  BY DEF Fits, Fit, Settled, LogIsDurable

LEMMA StageTombStays ==
  ASSUME IInv, Stored', CInv, NEW p \in Proc, StageTomb(p), History PROVE Stays(p)
<1>1. pc[p] = "tomb" /\ UNCHANGED taken BY DEF StageTomb
<1>2. pc[p] \in RetentionHolding BY <1>1 DEF RetentionHolding
<1>3. /\ Stored /\ Fits /\ Marking(p) /\ disk.tomb \in Tombs /\ pc[p] \in Locked
  BY <1>1, <1>2, RetainingFacts DEF Buries, CInv
<1>4. CASE disk.tomb.marks = "none" /\ PutDurably("tomb", [NoTomb EXCEPT !.marks = "dir"]) /\ Step(p, "tomb")
  <2> DEFINE u == [NoTomb EXCEPT !.marks = "dir"]
  <2>1. u.marks = "dir" /\ u.pending = "none" BY DEF NoTomb
  <2> HIDE DEF u
  <2>2. Sinks({"tomb"}) /\ disk'["tomb"] = u BY <1>3, <1>4, PutDurablySinks DEF Writable, u
  <2>3. Spreads({"tomb"}) BY <2>2, SinkSpreads
  <2>4. Lasting /\ (~hasty' => ~BeganHastily) BY <1>1, <2>3, SpreadsLast
  <2>5. disk.root = "intent" /\ disk.log.phase \in Terminal BY <1>3, <1>4 DEF Marking
  <2>6. ~hasty' => LogIsDurable BY <1>4, <2>1, <2>2, <2>4 DEF BeganHastily, LogIsDurable
  <2>7. Paired(disk'.tomb) /\ disk'.tomb.marks = "dir" BY <2>1, <2>2 DEF Paired
  <2>8. Fits' BY <1>3, <2>3, <2>4, <2>5, <2>6, <2>7, TombFits
  <2>9. pc'[p] = "tomb" BY <1>4, GotoFields DEF Step
  <2> QED BY <1>3, <2>8, <2>9, NothingClaimed DEF Stays, Claiming
<1>5. CASE /\ disk.tomb.marks # "none"
           /\ Put("tomb", [disk.tomb EXCEPT !.pending = Target(p)]) /\ Step(p, "tomb_fill")
  <2> DEFINE u == [disk.tomb EXCEPT !.pending = Target(p)]
  <2>1. u.marks = disk.tomb.marks /\ u.pending = Target(p) BY <1>3 DEF Tombs
  <2> HIDE DEF u
  <2>2. Spreads({"tomb"}) /\ disk'["tomb"] = u BY <1>3, <1>5, PutSpreads DEF Writable, u
  <2>3. Lasting BY <1>1, <2>2, SpreadsLast
  <2>4. \/ disk.root = "intent" /\ disk.tomb.marks = "dir" /\ disk.log.phase \in Terminal
           /\ Target(p) = "intent"
        \/ disk.root = "kept" /\ disk.tomb.marks = "intent" /\ Target(p) = "complete"
        \/ disk.root = "kept" /\ disk.tomb.marks = "complete" /\ Target(p) = "forget"
    BY <1>3, <1>5 DEF Marking, Target
  <2>5. Paired(disk'.tomb) BY <2>1, <2>2, <2>4 DEF Paired
  <2>6. disk.root # "intent" => IsSealed(disk'.tomb) BY <2>1, <2>2, <2>4 DEF IsSealed
  <2>7. ~hasty' /\ disk.root = "intent" => LogIsDurable
    BY <1>3, <1>5, <2>3, SettledLog DEF Lasting
  <2>8. Fits' BY <1>3, <1>5, <2>1, <2>2, <2>3, <2>4, <2>5, <2>6, <2>7, TombFits
  <2>9. pc'[p] = "tomb_fill" BY <1>5, GotoFields DEF Step
  <2> QED BY <1>3, <2>8, <2>9, NothingClaimed DEF Stays, Claiming
<1>6. CASE Read(p, "tomb_commit")
  <2>1. UNCHANGED diskVars /\ pc'[p] = "tomb_commit" BY <1>6, GotoFields DEF Read, Step
  <2> QED BY <1>1, <2>1, SameLasts, IdleStays DEF Claiming
<1> QED BY <1>4, <1>5, <1>6 DEF StageTomb

LEMMA FillTombStays ==
  ASSUME IInv, Stored', CInv, NEW p \in Proc, FillTomb(p), History PROVE Stays(p)
<1>1. pc[p] = "tomb_fill" /\ Step(p, "tomb_commit") /\ UNCHANGED taken BY DEF FillTomb
<1>2. Stored /\ Fits /\ pc[p] \in Locked /\ disk \in Images
  BY <1>1, RetainingFacts DEF RetentionHolding, CInv
<1>3. disk'.gen = disk.gen BY <1>2 DEF FillTomb, Images
<1>4. Fits' BY <1>1, <1>2, <1>3, Prolongs, FillFits
<1>5. pc'[p] = "tomb_commit" BY <1>1, GotoFields DEF Step
<1> QED BY <1>2, <1>4, <1>5, NothingClaimed DEF Stays, Claiming

LEMMA CommitTombStays ==
  ASSUME IInv, Stored', CInv, NEW p \in Proc, CommitTomb(p), History PROVE Stays(p)
<1>1. pc[p] = "tomb_commit" /\ UNCHANGED taken BY DEF CommitTomb
<1>2. pc[p] \in RetentionHolding BY <1>1 DEF RetentionHolding
<1>3. /\ Stored /\ Fits /\ Marking(p) /\ disk.tomb.pending = Target(p) /\ disk.tomb.marks # "none"
      /\ disk.tomb \in Tombs /\ disk.log \in Logs /\ pc[p] \in Locked
  BY <1>1, <1>2, RetainingFacts DEF Buries, CInv
<1>4. pc'[p] = "tomb_confirm" BY GotoFields DEF CommitTomb, Step
<1>5. ASSUME disk'.root = disk.root, disk'.log = disk.log PROVE Claims(p)'
  <2>1. disk.root = "intent" => disk.log.phase # "publish_intent"
    BY <1>3 DEF Marking, Terminal
  <2> QED BY <1>4, <1>5, <2>1 DEF Claims
<1> DEFINE u == Buried(disk.tomb)
<1>6. CASE mode[p] = "prune" /\ Put("tomb", Buried(disk.tomb))
  <2>1. /\ u.pending = "none"
        /\ \/ /\ disk.root = "intent" /\ u.marks = "intent" /\ u.basis = disk.log.phase
              /\ disk.log.phase \in Terminal
           \/ disk.root = "kept" /\ u.marks = "complete"
    <3>1. CASE disk.root = "intent" /\ disk.tomb.marks = "dir" /\ disk.log.phase \in Terminal
      <4>1. disk.tomb.pending = "intent" BY <1>3, <1>6, <3>1 DEF Target
      <4> QED BY <3>1, <4>1 DEF Buried, NoTomb
    <3>2. CASE disk.root = "kept" /\ disk.tomb.marks = "intent"
      <4>1. disk.tomb.pending = "complete" BY <1>3, <1>6, <3>2 DEF Target
      <4> QED BY <3>2, <4>1 DEF Buried, NoTomb
    <3> QED BY <1>3, <1>6, <3>1, <3>2 DEF Marking
  <2>2. Put("tomb", u) BY <1>6
  <2> HIDE DEF u
  <2>3. Spreads({"tomb"}) /\ disk'["tomb"] = u BY <1>3, <2>2, PutSpreads DEF Writable
  <2>4. Lasting BY <1>1, <2>3, SpreadsLast
  <2>5. ~hasty' /\ disk.root = "intent" => LogIsDurable BY <1>3, <2>4, SettledLog DEF Lasting
  <2>6. Paired(disk'.tomb) /\ IsSealed(disk'.tomb) BY <2>1, <2>3 DEF Paired, IsSealed
  <2>7. Fits' BY <1>3, <2>1, <2>3, <2>4, <2>5, <2>6, TombFits
  <2>8. disk'.root = disk.root /\ disk'.log = disk.log BY <2>3 DEF Spreads, Keeps
  <2> QED BY <1>3, <1>5, <2>7, <2>8 DEF Stays
<1>7. CASE mode[p] = "forget" /\ Move("tomb", Buried(disk.tomb), "erasing", disk.gen)
  <2>1. disk.root = "kept" /\ disk.tomb.marks = "complete" BY <1>3, <1>7 DEF Marking
  <2>2. disk.tomb.pending = "forget" BY <1>3, <1>7 DEF Target
  <2>3. u.pending = "none" /\ u.marks = "complete" BY <1>3, <2>1, <2>2 DEF Buried, Tombs
  <2>4. Move("tomb", u, "erasing", disk.gen) BY <1>7
  <2> HIDE DEF u
  <2>5. Spreads({"tomb", "erasing"}) /\ disk'["tomb"] = u
    <3>1. "tomb" \in Writable /\ "erasing" \in Writable /\ "root" \notin {"tomb", "erasing"}
      BY DEF Writable
    <3> QED BY <1>3, <2>4, <3>1, MoveSpreads
  <2>6. Lasting BY <1>1, <2>5, SpreadsLast
  <2>7. Paired(disk'.tomb) /\ IsSealed(disk'.tomb) BY <2>3, <2>5 DEF Paired, IsSealed
  <2>8. Fits' BY <1>3, <2>1, <2>5, <2>6, <2>7, BuryTombFits
  <2>9. disk'.root = disk.root /\ disk'.log = disk.log BY <2>5 DEF Spreads, Keeps
  <2> QED BY <1>3, <1>5, <2>8, <2>9 DEF Stays
<1> QED BY <1>6, <1>7 DEF CommitTomb

\* A tombstone that is made durable as it is seen.
LEMMA TombSyncStays ==
  ASSUME IInv, Stored', CInv, SyncTomb, History, UNCHANGED taken,
         IsSealed(disk.tomb), disk.root \in Made
  PROVE  Fits' /\ disk' = disk
<1>1. Stored /\ Fits BY DEF IInv, CInv
<1>2. Sinks({"tomb", "root"}) /\ disk' = disk BY <1>1, SyncSinks DEF SyncTomb, Writable
<1> QED BY <1>1, <1>2, SinkSpreads, SpreadsLast, TombSyncFits

LEMMA ConfirmTombStays ==
  ASSUME IInv, Stored', CInv, NEW p \in Proc, ConfirmTomb(p), History PROVE Stays(p)
<1>1. pc[p] = "tomb_confirm" /\ UNCHANGED taken BY DEF ConfirmTomb
<1>2. pc[p] \in RetentionHolding BY <1>1 DEF RetentionHolding
<1>3. Stored /\ Marked(p) /\ pc[p] \in Locked /\ Claims(p)
  BY <1>1, <1>2, RetainingFacts DEF Buries, CInv
<1>4. pc'[p] \in {"strip", "idle", "erase"}
  BY GotoFields DEF ConfirmTomb, Step, Return, IInv, CallType
<1>5. CASE mode[p] = "prune" /\ disk.tomb.marks \in {"intent", "complete"} /\ SyncTomb
  <2>1. disk.root \in Made BY <1>3, <1>5 DEF Marked, Made
  <2>2. Fits' /\ disk' = disk BY <1>1, <1>5, <2>1, TombSyncStays DEF IsSealed
  <2>3. Claims(p)' BY <1>1, <1>3, <1>4, <2>2 DEF Claims
  <2> QED BY <1>3, <2>2, <2>3 DEF Stays
<1>6. CASE mode[p] = "forget" /\ SyncTarget /\ Step(p, "erase")
  <2>1. pc'[p] = "erase" BY <1>6, GotoFields DEF Step
  <2> QED BY <1>1, <1>3, <1>6, <2>1, TargetLasts, TargetStays DEF Claiming
<1> QED BY <1>5, <1>6 DEF ConfirmTomb

LEMMA PruneOpensStays ==
  ASSUME IInv, Stored', CInv, NEW p \in Proc, PruneOpens(p), History PROVE Stays(p)
<1>1. UNCHANGED taken BY DEF PruneOpens
<1>2. CASE UNCHANGED diskVars /\ (Goto(p, "tomb") \/ Return(p, "none"))
  <2>1. pc'[p] \in {"tomb", "idle"} BY <1>2, GotoFields DEF Return, IInv, CallType
  <2> QED BY <1>1, <1>2, <2>1, SameLasts, IdleStays DEF Claiming
<1>3. CASE lock = Nobody /\ SyncTomb /\ (Sealed(disk) \/ ExactTombstone(disk))
  <2>1. disk.tomb.marks \in {"intent", "complete"} BY <1>3 DEF Sealed, ExactTombstone
  <2>2. disk \in Images /\ Alone(disk) BY DEF IInv, Stored, Sound
  <2>3. disk.root \in Made BY <2>1, <2>2 DEF Alone, NoTomb, Images, Made
  <2>4. Fits' /\ disk' = disk BY <1>1, <1>3, <2>1, <2>3, TombSyncStays DEF IsSealed
  <2>5. pc'[p] \in {"strip", "tomb", "idle"}
    BY GotoFields DEF PruneOpens, Stop, Return, IInv, CallType
  <2>6. disk.root = "intent" => disk.log.phase # "publish_intent"
    <3>1. disk.tomb.basis # "publish_intent" BY <2>2 DEF Images, Tombs, Terminal
    <3>2. disk.tomb.marks = "complete" => disk.root = "kept" BY <2>2 DEF Alone
    <3> QED BY <1>3, <3>1, <3>2 DEF Sealed, ExactTombstone, Replays
  <2>7. Claims(p)' BY <2>4, <2>5, <2>6 DEF Claims
  <2> QED BY <1>3, <2>4, <2>7 DEF Stays
<1> QED BY <1>2, <1>3 DEF PruneOpens, Stop

LEMMA StripStays ==
  ASSUME IInv, Stored', CInv, NEW p \in Proc, Strip(p), History PROVE Stays(p)
<1>1. pc[p] = "strip" /\ UNCHANGED taken BY DEF Strip
<1>2. pc[p] \in RetentionHolding BY <1>1 DEF RetentionHolding
<1>3. /\ Stored /\ Fits /\ disk.tomb.marks = "intent" /\ \A j \in surviving : j.tomb = disk.tomb
      /\ pc[p] \in Locked
      /\ disk.root = "intent" => disk.log.phase # "publish_intent"
  BY <1>1, <1>2, RetainingFacts DEF Buries, CInv, Claims
<1>4. CASE Read(p, "tomb")
  <2>1. UNCHANGED diskVars /\ pc'[p] = "tomb" BY <1>4, GotoFields DEF Read, Step
  <2> QED BY <1>1, <2>1, SameLasts, IdleStays DEF Claiming
<1>5. ASSUME NEW part \in {"stage", "root", "scratch", "log"}, Sinks({part}), Step(p, "strip"), Fits',
             disk.root = "intent" \/ disk'.root # "intent", disk'.root = "intent" => part # "log"
      PROVE  Stays(p)
  <2>1. pc'[p] = "strip" BY <1>5, GotoFields DEF Step
  <2>2. disk'.root = "intent" => disk'.log.phase # "publish_intent"
    BY <1>3, <1>5 DEF Sinks, Keeps
  <2>3. Claims(p)' BY <2>1, <2>2 DEF Claims
  <2> QED BY <1>3, <1>5, <2>3 DEF Stays
<1>6. CASE disk.root = "intent" /\ PutDurably("stage", disk.stage - 1) /\ Step(p, "strip")
  <2>1. Sinks({"stage"}) BY <1>3, <1>6, PutDurablySinks DEF Writable
  <2>2. Fits' BY <1>1, <1>3, <1>6, <2>1, SinkSpreads, SpreadsLast, StripStageFits
  <2> QED BY <1>5, <1>6, <2>1, <2>2
<1>7. CASE disk.root = "intent" /\ disk.stage = 0 /\ PutDurably("root", "stripping") /\ Step(p, "strip")
  <2>1. Sinks({"root"}) /\ disk'["root"] = "stripping" BY <1>3, <1>7, PutDurablySinks DEF Writable
  <2>2. Fits' BY <1>1, <1>3, <1>7, <2>1, SinkSpreads, SpreadsLast, StripRootFits
  <2> QED BY <1>5, <1>7, <2>1, <2>2
<1>8. CASE disk.root = "stripping" /\ PutDurably("scratch", disk.scratch - 1) /\ Step(p, "strip")
  <2>1. Sinks({"scratch"}) BY <1>3, <1>8, PutDurablySinks DEF Writable
  <2>2. Fits' BY <1>1, <1>3, <2>1, SinkSpreads, SpreadsLast, ScratchFits
  <2>3. disk'.root = disk.root BY <2>1 DEF Sinks, Keeps
  <2> QED BY <1>5, <1>8, <2>1, <2>2, <2>3
<1>9. CASE disk.root = "stripping" /\ PutDurably("log", NoLog) /\ Step(p, "strip")
  <2>1. Sinks({"log"}) /\ disk'["log"] = NoLog BY <1>3, <1>9, PutDurablySinks DEF Writable
  <2>2. Fits' BY <1>1, <1>3, <1>9, <2>1, SinkSpreads, SpreadsLast, StripLogFits
  <2>3. disk'.root = disk.root BY <2>1 DEF Sinks, Keeps
  <2> QED BY <1>5, <1>9, <2>1, <2>2, <2>3
<1>10. CASE disk.root = "stripping" /\ PutDurably("root", "kept") /\ Step(p, "strip")
  <2>1. Sinks({"root"}) /\ disk'["root"] = "kept" BY <1>3, <1>10, PutDurablySinks DEF Writable
  <2>2. Fits' BY <1>1, <1>3, <1>10, <2>1, SinkSpreads, SpreadsLast, StripRootFits
  <2> QED BY <1>5, <1>10, <2>1, <2>2
<1> QED BY <1>4, <1>6, <1>7, <1>8, <1>9, <1>10 DEF Strip

\* The operation directory goes.
LEMMA VanishesStays ==
  ASSUME IInv, CInv, NEW p \in Proc, disk.root = "bare", Vanishes, pc'[p] \notin Claiming,
         pc[p] \in Locked \/ lock = Nobody
  PROVE  Stays(p)
<1>1. Fits' BY VanishFits DEF IInv, CInv
<1> QED BY <1>1, NothingClaimed DEF Stays

LEMMA EraseOpensStays ==
  ASSUME IInv, Stored', CInv, NEW p \in Proc, EraseOpens(p), History PROVE Stays(p)
<1>1. pc'[p] \notin Claiming
  BY GotoFields DEF EraseOpens, Stop, Step, Return, IInv, CallType, Claiming
<1>2. CASE SyncTarget /\ UNCHANGED taken BY <1>1, <1>2, TargetLasts, TargetStays DEF IInv
<1>3. CASE UNCHANGED diskVars /\ UNCHANGED taken BY <1>1, <1>3, SameLasts, IdleStays
<1>4. CASE disk.root = "bare" /\ lock = Nobody /\ Vanishes BY <1>1, <1>4, VanishesStays
<1> QED BY <1>2, <1>3, <1>4 DEF EraseOpens, Stop

LEMMA EraseStays ==
  ASSUME IInv, Stored', CInv, NEW p \in Proc, Erase(p), History PROVE Stays(p)
<1>1. pc[p] = "erase" BY DEF Erase
<1>2. pc[p] \in RetentionHolding BY <1>1 DEF RetentionHolding
<1>3. /\ Stored /\ Fits /\ pc[p] \in Locked /\ disk.tomb \in Tombs
      /\ \A j \in surviving : j.erasing = j.gen
      /\ disk.root \in {"kept", "bare"}
  BY <1>1, <1>2, RetainingFacts DEF Erases, CInv
<1>4. pc'[p] \notin Claiming
  BY GotoFields DEF Erase, Stop, Step, Return, IInv, CallType, Claiming
<1>5. CASE /\ disk.tomb.marks # "none" /\ disk.tomb.pending = "none"
           /\ PutDurably("tomb", Exhumed(disk.tomb)) /\ UNCHANGED taken
  <2> DEFINE u == Exhumed(disk.tomb)
  <2>1. u.pending = "none"
    <3>1. disk.tomb.marks \in {"dir", "intent", "complete"} BY <1>3, <1>5 DEF Tombs, Marks
    <3> QED BY <1>3, <1>5, <3>1 DEF Exhumed, NoTomb, Tombs
  <2>2. PutDurably("tomb", u) BY <1>5
  <2> HIDE DEF u
  <2>3. Sinks({"tomb"}) /\ disk'["tomb"] = u BY <1>3, <2>2, PutDurablySinks DEF Writable
  <2>4. Spreads({"tomb"}) BY <2>3, SinkSpreads
  <2>5. Lasting BY <1>5, <2>4, SpreadsLast
  <2>6. Paired(disk'.tomb) BY <2>1, <2>3 DEF Paired
  <2>7. Fits' BY <1>3, <2>4, <2>5, <2>6, TombFits
  <2> QED BY <1>3, <1>4, <2>7, NothingClaimed DEF Stays
<1>6. CASE UNCHANGED diskVars /\ UNCHANGED taken BY <1>4, <1>6, SameLasts, IdleStays
<1>7. CASE disk.root = "kept" /\ Put("root", "bare") /\ UNCHANGED taken
  <2>1. Spreads({"root"}) /\ disk'["root"] = "bare" BY <1>3, <1>7, PutSpreads DEF Writable
  <2>2. Fits' BY <1>3, <1>7, <2>1, SpreadsLast, RootFits
  <2> QED BY <1>3, <1>4, <2>2, NothingClaimed DEF Stays
<1>8. CASE disk.root = "bare" /\ Vanishes BY <1>3, <1>4, <1>8, VanishesStays
<1> QED BY <1>5, <1>6, <1>7, <1>8 DEF Erase, Stop

LEMMA VanishStays ==
  ASSUME IInv, Stored', CInv, NEW p \in Proc, Vanish(p) \/ ReportForgotten(p), History PROVE Stays(p)
<1>1. pc'[p] \notin Claiming /\ UNCHANGED taken
  BY GotoFields DEF Vanish, ReportForgotten, Stop, Step, Return, IInv, CallType, Claiming
<1>2. CASE SyncTarget BY <1>1, <1>2, TargetLasts, TargetStays DEF IInv
<1>3. CASE UNCHANGED diskVars BY <1>1, <1>3, SameLasts, IdleStays
<1> QED BY <1>2, <1>3 DEF Vanish, ReportForgotten, Stop

LEMMA UnmarkStays ==
  ASSUME IInv, Stored', CInv, NEW p \in Proc, Unmark(p), History PROVE Stays(p)
<1>1. pc[p] = "unmark" /\ pc'[p] \notin Claiming /\ UNCHANGED taken
  BY GotoFields DEF Unmark, Stop, Step, Return, IInv, CallType, Claiming
<1>2. CASE UNCHANGED diskVars BY <1>1, <1>2, SameLasts, IdleStays
<1>3. CASE disk.erasing = named[p] /\ Put("erasing", 0)
  <2>1. Stored /\ Fits /\ disk.erasing # 0 /\ \A j \in surviving : disk.erasing < j.gen
    BY <1>1, <1>3 DEF IInv, CInv, Progress, Erases
  <2>2. Spreads({"erasing"}) /\ disk'["erasing"] = 0 BY <1>3, <2>1, PutSpreads DEF Writable
  <2>3. Lasting BY <1>1, <2>2, SpreadsLast
  <2>4. Fits' BY <2>1, <2>2, <2>3, UnmarkFits
  <2>5. Quiet BY <2>2, <2>3, SpreadsQuiet
  <2> QED BY <1>1, <2>4, <2>5, NothingClaimed DEF Stays
<1> QED BY <1>2, <1>3 DEF Unmark, Stop

LEMMA NamingStays ==
  ASSUME IInv, Stored', CInv, NEW p \in Proc, ForgetReads(p) \/ ForgetOpens(p), UNCHANGED hasty
  PROVE  Stays(p)
<1>1. pc'[p] \notin Claiming /\ Lasting
  BY GotoFields DEF ForgetReads, ForgetOpens, Read, Stop, Step, Return, IInv, CallType, Claiming, Lasting
<1>2. CASE SyncTarget BY <1>1, <1>2, TargetStays
<1>3. CASE UNCHANGED diskVars BY <1>1, <1>3, IdleStays
<1> QED BY <1>2, <1>3 DEF ForgetReads, ForgetOpens, Read, Stop

LEMMA RetainingStays ==
  ASSUME IInv, Stored', CInv, NEW p \in Proc, Retaining(p), History PROVE Stays(p)
<1>1. CASE StartRetention(p) \/ LookAgain(p)
  <2>1. UNCHANGED diskVars /\ UNCHANGED taken
    BY <1>1 DEF StartRetention, LookAgain, Read, Stop
  <2> QED BY <1>1, <2>1, SameLasts, LookingStays
<1> QED BY <1>1, StageTombStays, FillTombStays, CommitTombStays, ConfirmTombStays, PruneOpensStays,
        StripStays, EraseOpensStays, EraseStays, VanishStays, UnmarkStays
     DEF Retaining

-----------------------------------------------------------------------------
(* Every step, and what the invariant says of an image.                    *)

LEMMA EventsStay ==
  ASSUME CallType, NEW p \in Proc, NEW q \in Proc \ {p},
         Materializing(p) \/ Retaining(p) \/ ForgetReads(p) \/ ForgetOpens(p)
  PROVE  event'[q] = event[q]
<1> USE DEF CallType, Goto, Return, Append, Step, Read, Stop
<1>1. CASE Materializing(p)
  BY <1>1
  DEF Materializing, StartBelow, Start, CheckFinal, BoundedMakeRoot, MakeRoot, MakeTree,
     WriteIntent, ReserveEvent, CommitEvent, ConfirmEvent, Continue, Opening, OpenRetained, Open,
     Reconfirm, FindSource, ConfirmCommitted, BeginStage, PrepareStage, FindStaged, CopyFile,
     PlaceFile, ConfirmFile, VerifyStage, IntendPublication, RecoverPublication,
     VerifyBeforeRename, Rename, ConfirmRename, ConfirmFinal, VerifyFinal, Clean, Crash
<1>2. CASE Retaining(p)
  BY <1>2
  DEF Retaining, StageTomb, FillTomb, CommitTomb, ConfirmTomb, StartRetention, PruneOpens,
     Strip, EraseOpens, Erase, Vanish, LookAgain, Unmark, ReportForgotten
<1>3. CASE ForgetReads(p) \/ ForgetOpens(p) BY <1>3 DEF ForgetReads, ForgetOpens
<1> QED BY <1>1, <1>2, <1>3

\* Only somebody else, or the end of the operation, changes what was taken.
LEMMA MaterializingTakesNothing == ASSUME NEW p \in Proc, Materializing(p) PROVE taken' = taken
  BY DEF Materializing, StartBelow, Start, CheckFinal, BoundedMakeRoot, MakeRoot, MakeTree,
     WriteIntent, ReserveEvent, CommitEvent, ConfirmEvent, Opening, OpenRetained, Open, Reconfirm,
     FindSource, ConfirmCommitted, BeginStage, PrepareStage, FindStaged, CopyFile, PlaceFile,
     ConfirmFile, VerifyStage, IntendPublication, RecoverPublication, VerifyBeforeRename, Rename,
     ConfirmRename, ConfirmFinal, VerifyFinal, Clean, Crash

LEMMA StepKeepsCauses ==
  ASSUME IInv, CInv, NEW p \in Proc, Stays(p),
         Materializing(p) \/ Retaining(p) \/ ForgetReads(p) \/ ForgetOpens(p)
  PROVE  CInv'
<1>1. ASSUME NEW q \in Proc \ {p} PROVE Claims(q)'
  <2>1. pc'[q] = pc[q] /\ event'[q] = event[q] BY OthersGoOn, EventsStay DEF IInv
  <2>2. CASE pc[q] \notin Claiming BY <2>1, <2>2, NothingClaimed
  <2>3. CASE pc[q] \in Claiming
    <3>1. lock = q BY <2>3, ClaimingLocked, HolderAlone
    <3>2. pc[p] \notin Locked /\ lock # Nobody BY <3>1, HolderAlone, NobodyAssumption
    <3>3. Quiet BY <3>2 DEF Stays
    <3> QED BY <2>1, <3>3, QuietClaims DEF CInv
  <2> QED BY <2>2, <2>3
<1> QED BY <1>1 DEF CInv, Stays

LEMMA LossKeepsCauses == ASSUME IInv, CInv, PowerLoss, UNCHANGED hasty PROVE CInv'
<1>1. Lasting /\ disk' \in surviving /\ surviving' = {disk'} BY DEF PowerLoss, Lasting
<1>2. Fits' BY <1>1, LossFits DEF IInv, CInv
<1>3. \A q \in Proc : pc'[q] \notin Claiming BY DEF PowerLoss, Claiming
<1> QED BY <1>2, <1>3, NothingClaimed DEF CInv

LEMMA NeighbourKeepsCauses ==
  ASSUME IInv, Stored', CInv, Occupy \/ Vacate, UNCHANGED hasty PROVE CInv'
<1>1. Stored /\ Fits BY DEF IInv, CInv
<1>2. PICK value \in {"none", "other"} : Put("final", value) BY DEF Occupy, Vacate
<1>3. Lasting /\ (~taken' => ~taken /\ disk.final # "ours")
  <2>1. CASE Occupy BY <2>1 DEF Occupy, Lasting
  <2>2. CASE Vacate
    <3>1. taken' = (taken \/ disk.final = "ours") BY <2>2 DEF Vacate
    <3>2. ~taken' => ~taken /\ disk.final # "ours" BY <3>1, Zenon
    <3> QED BY <3>2 DEF Lasting
  <2> QED BY <2>1, <2>2
<1>4. Spreads({"final"}) /\ disk'["final"] = value BY <1>1, <1>2, PutSpreads DEF Writable
<1>5. Fits' BY <1>1, <1>3, <1>4, NameFits
<1>6. Quiet BY <1>1, <1>2, <1>3, NameQuiet
<1>7. pc' = pc /\ event' = event BY DEF Occupy, Vacate, callVars
<1> QED BY <1>5, <1>6, <1>7, QuietClaims DEF CInv

LEMMA NextKeepsCauses == ASSUME IInv, CInv, [Next]_retentionVars PROVE CInv'
<1>1. Stored' BY NextKeeps DEF IInv
<1>2. ASSUME NEW p \in Proc, Retaining(p), History PROVE CInv'
  BY <1>1, <1>2, RetainingStays, StepKeepsCauses
<1>3. ASSUME NEW p \in Proc, ForgetReads(p) \/ ForgetOpens(p), UNCHANGED hasty PROVE CInv'
  BY <1>1, <1>3, NamingStays, StepKeepsCauses
<1>4. ASSUME NEW p \in Proc, Materializing(p), UNCHANGED hasty PROVE CInv'
  <2>1. Lasting BY <1>4, MaterializingTakesNothing DEF Lasting
  <2> QED BY <1>1, <1>4, <2>1, MaterializingStays, StepKeepsCauses
<1>5. CASE (PowerLoss \/ Occupy \/ Vacate) /\ UNCHANGED hasty
  BY <1>1, <1>5, LossKeepsCauses, NeighbourKeepsCauses
<1>6. CASE UNCHANGED retentionVars
  <2>1. /\ UNCHANGED diskVars /\ pc' = pc /\ event' = event /\ taken' = taken /\ hasty' = hasty
    BY <1>6 DEF retentionVars, vars, callVars
  <2>2. Lasting BY <2>1 DEF Lasting
  <2> QED BY <2>1, <2>2, SameFits, SameQuiet, QuietClaims DEF CInv
<1> QED BY <1>2, <1>3, <1>4, <1>5, <1>6 DEF Next

LEMMA InitCauses == ASSUME Init PROVE CInv
<1>1. \A q \in Proc : pc[q] = "idle" BY DEF Init
<1>2. \A q \in Proc : Claims(q) BY <1>1 DEF Claims
<1> QED BY <1>2, InitFits DEF CInv

LEMMA OnlyTheseBlock == ASSUME IInv, CInv PROVE OnlyNamedCausesBlock
<1>1. Stored /\ Fits BY DEF IInv, CInv
<1>2. SUFFICES ASSUME NEW j \in surviving,
                      ~(j.tomb.marks = "none" /\ ~Replays(j) /\ j.root \in {"bare", "tree", "intent"}),
                      ~(taken /\ j.tomb.marks = "none"),
                      ~(j.tomb.pending # "none" /\ ~j.tomb.whole),
                      j.tomb.pending # "forget", ~hasty,
                      ~(j.erasing # 0 /\ (j.erasing # j.gen \/ j.tomb.pending # "none"))
               PROVE  CanGoOn(j)
  BY DEF OnlyNamedCausesBlock
<1>3. /\ Fit(j, disk) /\ Sound(j, disk) /\ Sound(disk, disk) /\ j \in Images /\ disk \in Images
      /\ j.tomb \in Tombs /\ disk.tomb \in Tombs /\ j.gen \in Nat \ {0}
  BY <1>1, ImageFacts
<1>4. Alone(j) /\ Alone(disk) /\ Link(j, disk) /\ Intact(j) /\ Supported(j, disk) /\ Settled(j, disk)
  BY <1>3 DEF Sound, Fit
<1>5. j.root = "intent" => disk.root = "intent" BY <1>4 DEF Link, LinkRoot, Made
<1>6. CASE j.erasing # 0
  <2>1. j.erasing = j.gen /\ j.tomb.pending = "none" BY <1>2, <1>6
  <2>2. j.root \in {"kept", "bare"} /\ (j.root = "bare" => j.tomb = NoTomb)
    BY <1>4, <2>1 DEF Alone
  <2> QED BY <1>6, <2>1, <2>2 DEF CanGoOn, Erasable
<1>7. CASE j.erasing = 0 /\ j.tomb.marks = "none"
  <2>1. j.root \notin {"stripping", "kept"} BY <1>3, <1>4, <1>7 DEF Intact
  <2>2. j.root = "none" \/ Replays(j) BY <1>2, <1>3, <1>7, <2>1 DEF Images
  <2>3. CASE Replays(j)
    <3>1. disk.root = "intent" BY <1>5, <2>3 DEF Replays
    <3>2. disk.tomb.marks = "none"
      BY <1>3, <1>4, <1>7 DEF Link, LinkTomb, IsSealed, Tombs, Marks
    <3>3. BackedBy(j.log, j.stage, j.final) BY <1>2, <1>4, <1>7, <3>1, <3>2 DEF Supported
    <3> QED BY <1>7, <2>3, <3>3 DEF CanGoOn, Backed, BackedBy
  <2> QED BY <1>7, <2>2, <2>3 DEF CanGoOn
<1>8. CASE j.erasing = 0 /\ j.tomb.marks # "none"
  <2>1. KnownPending(j) BY <1>2, <1>3, <1>4 DEF KnownPending, Intact, Paired, Tombs
  <2>2. Unsealed(j) \/ Sealed(j) \/ ExactTombstone(j)
    <3>1. CASE j.tomb.marks = "complete" BY <1>4, <3>1 DEF Alone, ExactTombstone
    <3>2. CASE j.tomb.marks = "intent"
      <4>1. SUFFICES ASSUME j.root = "intent" PROVE j.log.phase = j.tomb.basis
        BY <3>2 DEF Sealed, Replays
      <4>2. disk.root = "intent" BY <1>5, <4>1
      <4>3. disk.tomb.marks # "complete" BY <1>4, <4>2 DEF Alone
      <4>4. disk.tomb.marks = "intent"
        BY <1>3, <1>4, <3>2, <4>3 DEF Link, LinkTomb, NoTomb, Tombs, Marks
      <4>5. j.log = disk.log /\ disk.tomb.basis = disk.log.phase BY <1>2, <1>4, <4>2, <4>4 DEF Settled
      <4>6. j.tomb.basis = disk.tomb.basis BY <1>4, <3>2 DEF Link, LinkTomb, IsSealed
      <4> QED BY <4>5, <4>6
    <3>3. CASE j.tomb.marks = "dir"
      <4>1. j.root \notin {"none", "bare", "tree"} BY <1>4, <3>3 DEF Alone, NoTomb
      <4>2. j.root \notin {"stripping", "kept"} BY <1>3, <1>4, <1>8, <3>3 DEF Intact
      <4>3. j.root = "intent" /\ disk.root = "intent" BY <1>3, <1>5, <4>1, <4>2 DEF Images
      <4>4. disk.tomb.marks # "none" BY <1>4, <3>3 DEF Link, LinkTomb, NoTomb
      <4>5. j.log.phase \in Terminal BY <1>2, <1>4, <4>3, <4>4 DEF Settled
      <4> QED BY <3>3, <4>3, <4>5 DEF Unsealed, Replays, Terminal
    <3> QED BY <1>3, <1>8, <3>1, <3>2, <3>3 DEF Tombs, Marks
  <2> QED BY <1>8, <2>1, <2>2 DEF CanGoOn, Prunable
<1> QED BY <1>6, <1>7, <1>8

\* However many incarnations, files and invocations there are: what a crash or
\* a power loss leaves of an operation can be resumed, abandoned, pruned or
\* forgotten, except for the causes that OnlyNamedCausesBlock names.  (What an
\* event claims is durable before the event is committed, a marker before the
\* removals that it announces, and each removal before the next.)
THEOREM OnlyNamedCausesStop == Spec => []OnlyNamedCausesBlock
<1>1. Init => CInv BY InitCauses
<1>2. IInv /\ CInv /\ [Next]_retentionVars => CInv' BY NextKeepsCauses
<1>3. IInv /\ CInv => OnlyNamedCausesBlock BY OnlyTheseBlock
<1> QED BY <1>1, <1>2, <1>3, InvariantHolds, PTL DEF Spec
===============================================================================
