------------------------ MODULE SourceRetireRetention ------------------------
(***************************************************************************)
(* The end of a source retirement's or a parent cleanup's journal:         *)
(* `ptctl seed retire prune | forget` and `parent-cleanup prune | forget`  *)
(* (internal/sourceretire/*_retention*.go, *_forget*.go) beside the run    *)
(* and the resume of SourceRetire.                                         *)
(*                                                                         *)
(*   prune   needs the completion in the journal; it writes                *)
(*           retention/intent.json, removes scratch/, the markers and      *)
(*           journal/, each removal durable before the next, and writes    *)
(*           retention/complete.json: what is left is the tombstone.       *)
(*   forget  stages a forget intent in the tombstone, moves it to the      *)
(*           target root, removes the tombstone and the operation          *)
(*           directory, and removes the root intent last.                  *)
(*                                                                         *)
(* No command touches the names that were removed.  Every command reads    *)
(* the root intent before it opens the operation directory.                *)
(***************************************************************************)
EXTENDS SourceRetire

CONSTANT MaxIncarnations   \* bound: how often the operation directory is made

ASSUME MaxIncarnationsAssumption == MaxIncarnations \in Nat \ {0}

VARIABLES
  named,       \* the directory that the forget intent of a forget names, or 0
  late         \* history: a run that had looked before the tombstone was begun
               \* changed a directory with a tombstone in it

retentionVars == <<vars, named, late>>

\* The tombstone: how many of its directory, its intent and its completion
\* exist; its staged marker, and whether the bytes of that are complete.
Tombs == [marks : {"none", "dir", "intent", "complete"},
          pending : {"none", "intent", "complete", "forget"}, whole : BOOLEAN]
NoTomb == [marks |-> "none", pending |-> "none", whole |-> FALSE]

\* root: nothing, a directory without its lock file (bare), with nothing but
\* that and perhaps retention/ (kept), with journal/ and scratch/ (tree), with
\* the intent of the journal; and what a prune makes of it: the intent without
\* scratch/ (noscratch), journal/ without both (headless).  gen: the identity of
\* the directory; erasing: the one that a visible root intent names.
Images ==
  [root : {"none", "bare", "kept", "tree", "intent", "noscratch", "headless"},
   log : Logs, pending : Scratch, name : [1..Files -> Names],
   tomb : Tombs, gen : 1..(MaxIncarnations + 1), erasing : 0..MaxIncarnations]

Reviewed == [root |-> "none", log |-> NoLog, pending |-> NoScratch,
             name |-> [i \in 1..Files |-> "ours"],
             tomb |-> NoTomb, gen |-> 1, erasing |-> 0]

RetentionUnlocked == {"prune_open", "forget_open", "erase_open", "vanish", "look", "unmark", "report"}
RetentionHolding == {"tomb", "tomb_fill", "tomb_commit", "tomb_confirm", "strip", "erase"}

TypeOK ==
  /\ kind \in Kinds
  /\ disk \in Images /\ disk \in surviving /\ surviving \subseteq Images
  /\ lock \in Proc \cup {Nobody}
  /\ pc \in [Proc -> Unlocked \cup Holding \cup RetentionUnlocked \cup RetentionHolding]
  /\ \A p \in Proc : pc[p] \in Holding \cup RetentionHolding <=> lock = p
  /\ mark \in [Proc -> Markers]
  /\ trusts \in [Proc -> BOOLEAN]
  /\ outcome \in [Proc -> {"none", "retired", "already", "pruned", "forgotten"}]
  /\ named \in [Proc -> 0..MaxIncarnations]
  /\ reused \in BOOLEAN /\ late \in BOOLEAN /\ changes \in 0..MaxChanges

Init ==
  /\ kind \in Kinds
  /\ disk = Reviewed /\ surviving = {Reviewed}
  /\ lock = Nobody
  /\ pc = [p \in Proc |-> "idle"]
  /\ mark = [p \in Proc |-> NoMarker]
  /\ trusts = [p \in Proc |-> FALSE]
  /\ outcome = [p \in Proc |-> "none"]
  /\ named = [p \in Proc |-> 0]
  /\ reused = FALSE /\ late = FALSE /\ changes = 0

-----------------------------------------------------------------------------
(* What the readers accept.                                                *)

\* Prune may begin, or go on before its intent: the journal is complete and its
\* scratch empty.  The sources' journal loads beside retention/; the parents'
\* does not.
Unsealed(j) ==
  /\ j.tomb.marks \in {"none", "dir"} /\ (kind = "parents" => j.tomb.marks = "none")
  /\ j.tomb.pending = "none" \/ (j.tomb.pending = "intent" /\ j.tomb.whole)
  /\ Loads(j) /\ j.log.done

\* Prune may go on behind its intent.  A journal that still loads must agree.
Sealed(j) ==
  /\ j.tomb.marks = "intent" /\ j.tomb.pending = "none"
  /\ kind = "sources" /\ Loads(j) => j.log.done

\* verifyExecutionRetentionTombstone.
Tombstone(j) == j.tomb.marks = "complete" /\ j.root = "kept"
Retained(j) == Tombstone(j) /\ j.tomb.pending = "none"

Prunable(j) == j.pending = NoScratch /\ (Unsealed(j) \/ Sealed(j) \/ Retained(j))

\* auditInitialExecutionForgetTombstone: or with the marker that forget staged.
Forgettable(j) ==
  Tombstone(j) /\ (j.tomb.pending = "none" \/ (j.tomb.pending = "forget" /\ j.tomb.whole))

-----------------------------------------------------------------------------
(* SourceRetire's commands beside a tombstone and a root forget intent.    *)

StartBelow(p) == disk.erasing = 0 /\ Start(p)

\* Bound: the operation directory is made MaxIncarnations times.
BoundedRetiring(p) ==
  /\ Retiring(p)
  /\ disk'.root # "none" => disk'.gen \in 1..MaxIncarnations

\* The loader that follows the journal's initialization refuses retention/.
RefuseRetained(p) ==
  /\ pc[p] = "confirm" /\ mark[p] = NoMarker /\ disk.tomb.marks # "none"
  /\ SyncJournal /\ Return(p, "none")
  /\ UNCHANGED <<kind, reused, changes>>

\* Bound: names are of no concern to prune and forget.
BoundedInterfere == disk.tomb.marks = "none" /\ disk.gen = 1 /\ Interfere

-----------------------------------------------------------------------------
(* Markers of the tombstone.                                               *)

\* The target root is synced, with the renames into it.
SyncTarget == Sync({"root", "gen", "erasing", "tomb"})
SyncTomb == Sync({"root", "tomb"})

\* Only the disk and the program counter change.
Step(p, step) == Goto(p, step) /\ UNCHANGED <<lock, mark, trusts>>
Read(p, step) == Step(p, step) /\ UNCHANGED diskVars

\* The marker an invocation writes next.
Target(p) == IF named[p] # 0 THEN "forget"
             ELSE IF disk.tomb.marks = "intent" THEN "complete" ELSE "intent"

\* A retention directory is made for a completion that is not durable.
RestsOnUnsynced == disk.tomb.marks = "none" /\ \E j \in surviving : j.log # disk.log

\* ensureExecutionRetentionMarker, ensureExecutionForgetRootIntent: the directory
\* is made durably; the marker is staged, or taken over as it was left.
StageTomb(p) ==
  /\ pc[p] = "tomb"
  /\ reused' = (reused \/ RestsOnUnsynced)
  /\ \/ disk.tomb.marks = "none"
        /\ PutDurably("tomb", [NoTomb EXCEPT !.marks = "dir"]) /\ Step(p, "tomb")
     \/ disk.tomb.marks # "none" /\ disk.tomb.pending = "none"
        /\ Put("tomb", [disk.tomb EXCEPT !.pending = Target(p)]) /\ Step(p, "tomb_fill")
     \/ disk.tomb.pending # "none" /\ Read(p, "tomb_commit")

\* Its bytes are written and synced; its name may still be lost.
FillTomb(p) ==
  /\ pc[p] = "tomb_fill"
  /\ LET filled(j) == [j EXCEPT !.tomb.whole = (j.tomb.pending # "none")]
     IN disk' = filled(disk) /\ surviving' = {filled(j) : j \in surviving}
  /\ Step(p, "tomb_commit")
  /\ UNCHANGED reused

\* CommitRegularNoReplace; or PublishNoReplace, one rename to the target root,
\* where another intent is in its way.
CommitTomb(p) ==
  /\ pc[p] = "tomb_commit"
  /\ \/ named[p] = 0
        /\ Put("tomb", [NoTomb EXCEPT !.marks = disk.tomb.pending])
     \/ /\ named[p] # 0 /\ disk.erasing = 0
        /\ LET published(j) == [j EXCEPT !.tomb = [NoTomb EXCEPT !.marks = "complete"],
                                         !.erasing = disk.gen]
           IN  /\ disk' = published(disk)
               /\ surviving' = surviving \cup {published(j) : j \in surviving}
  /\ Step(p, "tomb_confirm")
  /\ UNCHANGED reused

\* Mutant of ConfirmTomb: removals begin before the marker is durable.
ConfirmTombUnsynced(p) ==
  /\ pc[p] = "tomb_confirm"
  /\ \/ named[p] = 0 /\ disk.tomb.marks = "intent" /\ Read(p, "strip")
     \/ named[p] = 0 /\ disk.tomb.marks = "complete" /\ Return(p, "pruned") /\ UNCHANGED diskVars
     \/ named[p] # 0 /\ Read(p, "erase")
  /\ UNCHANGED reused

ConfirmTomb(p) ==
  /\ pc[p] = "tomb_confirm"
  /\ \/ named[p] = 0 /\ disk.tomb.marks = "intent" /\ SyncTomb /\ Step(p, "strip")
     \/ named[p] = 0 /\ disk.tomb.marks = "complete" /\ SyncTomb /\ Return(p, "pruned")
     \/ named[p] # 0 /\ SyncTarget /\ Step(p, "erase")
  /\ UNCHANGED reused

-----------------------------------------------------------------------------
(* Prune.                                                                  *)

\* Bound: prune and forget begin only while nobody else changed a name, which
\* they would not notice.
StartRetention(p) ==
  /\ pc[p] = "idle" /\ changes = 0
  /\ outcome' = [outcome EXCEPT ![p] = "none"]
  /\ \/ /\ disk.erasing = 0
        /\ \E step \in {"prune_open", "forget_open"} : pc' = [pc EXCEPT ![p] = step]
        /\ UNCHANGED <<diskVars, named>>
     \/ /\ disk.erasing # 0
        /\ SyncTarget
        /\ pc' = [pc EXCEPT ![p] = "erase_open"]
        /\ named' = [named EXCEPT ![p] = disk.erasing]
  /\ UNCHANGED <<lock, mark, trusts, reused>>

\* The completion of the journal, or an intent made durable once more, is the
\* authority; an exact tombstone is confirmed and reported.
PruneOpens(p) ==
  /\ pc[p] = "prune_open" /\ lock = Nobody /\ Lockable(disk) /\ Prunable(disk)
  /\ \/ Unsealed(disk) /\ lock' = p /\ Goto(p, "tomb") /\ UNCHANGED <<diskVars, mark, trusts>>
     \/ Sealed(disk) /\ lock' = p /\ Goto(p, "strip") /\ SyncTomb /\ UNCHANGED <<mark, trusts>>
     \/ Retained(disk) /\ SyncTomb /\ Return(p, "pruned")
  /\ UNCHANGED reused

\* The markers go in the order in which their names sort, backwards: deleted-n,
\* complete, attempt-n of sources (removed-n, the intent, complete, attempt-n of
\* parents).
Peeled(log) ==
  CASE log.deleted > 0 -> [log EXCEPT !.deleted = log.deleted - 1]
    [] log.deleted = 0 /\ log.done -> [log EXCEPT !.done = FALSE]
    [] OTHER -> [log EXCEPT !.attempted = log.attempted - 1]

\* Mutant of Strip: the markers go before scratch/ and the intent.
StripMarkersFirst(p) ==
  /\ pc[p] = "strip"
  /\ \/ disk.log # NoLog /\ PutDurably("log", Peeled(disk.log)) /\ Step(p, "strip")
     \/ disk.log = NoLog /\ disk.root # "kept" /\ PutDurably("root", "kept") /\ Step(p, "strip")
     \/ disk.root = "kept" /\ Read(p, "tomb")
  /\ UNCHANGED reused

\* removeExecutionRetentionState: scratch/, the markers and journal/.
Strip(p) ==
  /\ pc[p] = "strip"
  /\ \/ disk.root = "intent" /\ PutDurably("root", "noscratch") /\ Step(p, "strip")
     \/ disk.root = "tree" /\ PutDurably("root", "headless") /\ Step(p, "strip")
     \/ disk.root = "noscratch" /\ (kind = "parents" => disk.log.deleted = 0)
        /\ PutDurably("root", "headless") /\ Step(p, "strip")
     \/ disk.root = "headless" /\ disk.log # NoLog
        /\ PutDurably("log", Peeled(disk.log)) /\ Step(p, "strip")
     \/ disk.root = "noscratch" /\ kind = "parents" /\ disk.log.deleted > 0
        /\ PutDurably("log", Peeled(disk.log)) /\ Step(p, "strip")
     \/ disk.root = "headless" /\ disk.log = NoLog /\ PutDurably("root", "kept") /\ Step(p, "strip")
     \/ disk.root = "kept" /\ Read(p, "tomb")
  /\ UNCHANGED reused

-----------------------------------------------------------------------------
(* Forget.                                                                 *)

\* Only an exact tombstone may be forgotten.
ForgetOpens(p) ==
  /\ pc[p] = "forget_open" /\ lock = Nobody /\ Lockable(disk) /\ Forgettable(disk)
  /\ disk.erasing \in {0, disk.gen}
  /\ lock' = p /\ named' = [named EXCEPT ![p] = disk.gen]
  /\ \/ disk.erasing = 0 /\ Goto(p, "tomb") /\ UNCHANGED diskVars
     \/ disk.erasing # 0 /\ disk.tomb.pending = "none" /\ Goto(p, "erase") /\ SyncTarget
  /\ UNCHANGED <<mark, trusts, reused>>

\* The operation directory goes; its name may be used again.
Vanishes ==
  LET vanished(j) == [j EXCEPT !.root = "none", !.gen = disk.gen + 1]
  IN disk' = vanished(disk) /\ surviving' = surviving \cup {vanished(j) : j \in surviving}

\* OpenPrivateSubtree with the identity the intent names: gone, an empty residue
\* without its lock file, or the directory itself.
EraseOpens(p) ==
  /\ pc[p] = "erase_open"
  /\ \/ disk.root = "none" /\ SyncTarget /\ Step(p, "vanish")
     \/ disk.root = "bare" /\ disk.gen = named[p] /\ lock = Nobody /\ Vanishes /\ Step(p, "vanish")
     \/ /\ Lockable(disk) /\ disk.gen = named[p] /\ lock = Nobody /\ disk.erasing = named[p]
        /\ SyncTarget /\ lock' = p /\ Goto(p, "erase") /\ UNCHANGED <<mark, trusts>>
  /\ UNCHANGED reused

Exhumed(tomb) ==
  CASE tomb.marks = "complete" -> [tomb EXCEPT !.marks = "intent"]
    [] tomb.marks = "intent" -> [tomb EXCEPT !.marks = "dir"]
    [] tomb.marks = "dir" -> NoTomb

\* removeExecutionTombstoneFromForgetIntent: completion, intent and directory,
\* each durably; then the lock file and the operation directory, which must hold
\* nothing else.
Erase(p) ==
  /\ pc[p] = "erase" /\ disk.tomb.pending = "none"
  /\ \/ disk.tomb.marks # "none" /\ PutDurably("tomb", Exhumed(disk.tomb)) /\ Step(p, "erase")
     \/ disk.tomb.marks = "none" /\ disk.root = "kept" /\ Put("root", "bare") /\ Step(p, "erase")
     \/ disk.tomb.marks = "none" /\ disk.root = "bare"
        /\ Vanishes /\ lock' = Nobody /\ Goto(p, "vanish") /\ UNCHANGED <<mark, trusts>>
  /\ UNCHANGED reused

\* The root intent is read again, and the absence is made durable ...
Vanish(p) ==
  /\ pc[p] = "vanish" /\ disk.erasing = named[p] /\ disk.root = "none"
  /\ SyncTarget /\ Step(p, "look")
  /\ UNCHANGED reused

\* ... and observed once more; then the intent goes, by its identity.
LookAgain(p) ==
  /\ pc[p] = "look" /\ disk.root = "none"
  /\ Read(p, "unmark")
  /\ UNCHANGED reused

Unmark(p) ==
  /\ pc[p] = "unmark" /\ disk.erasing = named[p]
  /\ Put("erasing", 0) /\ Step(p, "report")
  /\ UNCHANGED reused

\* Mutant of ReportForgotten: the last removal is not synced.
ReportForgottenUnsynced(p) ==
  /\ pc[p] = "report" /\ Return(p, "forgotten") /\ UNCHANGED <<diskVars, reused>>

ReportForgotten(p) ==
  /\ pc[p] = "report" /\ SyncTarget /\ Return(p, "forgotten")
  /\ UNCHANGED reused

-----------------------------------------------------------------------------

Retaining(p) ==
  \/ StageTomb(p) \/ FillTomb(p) \/ CommitTomb(p) \/ ConfirmTomb(p)
  \/ PruneOpens(p) \/ Strip(p)
  \/ EraseOpens(p) \/ Erase(p)
  \/ Vanish(p) \/ LookAgain(p) \/ Unmark(p) \/ ReportForgotten(p)

\* A step of run or resume.
RetiringBeside(p) ==
  IF pc[p] = "confirm" /\ mark[p] = NoMarker /\ disk.tomb.marks # "none"
  THEN RefuseRetained(p) ELSE BoundedRetiring(p)

Belated ==
  late' = (late \/ ((disk.tomb.marks # "none" \/ disk.erasing # 0) /\ disk' # disk))

\* What an invocation that ended had read is gone.
Unname == named' = [p \in Proc |-> IF pc'[p] = "idle" THEN 0 ELSE named[p]]

Next ==
  \/ \E p \in Proc : (StartBelow(p) \/ RetiringBeside(p)) /\ Belated /\ UNCHANGED named
  \/ \E p \in Proc : Retaining(p) /\ Unname /\ UNCHANGED <<kind, late, changes>>
  \/ \E p \in Proc : (StartRetention(p) \/ ForgetOpens(p)) /\ UNCHANGED <<kind, late, changes>>
  \/ (PowerLoss \/ BoundedInterfere \/ \E p \in Proc : Stop(p)) /\ Unname /\ UNCHANGED late

Spec == Init /\ [][Next]_retentionVars

-----------------------------------------------------------------------------
(* Properties.                                                             *)

\* The end of the operation is recorded: in its journal, in its tombstone, or
\* the user asked for this very directory to be forgotten.
Ended(j) ==
  j.log.done \/ j.tomb.marks \in {"intent", "complete"} \/ j.erasing = j.gen \/ j.gen > 1

\* Whatever a power loss leaves, a recorded deletion is a name that is gone, a
\* reported end is recorded, and a name that is gone, while only this operation
\* removes names, has its attempt or a record of the end.
Honest ==
  \A j \in surviving :
    /\ \A i \in 1..j.log.deleted : j.name[i] \notin {"ours", "filled"}
    /\ \A p \in Proc : outcome[p] = "retired" => Ended(j)
    /\ changes = 0 /\ ~reused =>
         \A i \in 1..Files : j.name[i] = "none" => i <= j.log.attempted \/ Ended(j)

Reports(p, o) == pc[p] # "idle" /\ pc'[p] = "idle" /\ outcome'[p] = o

\* Every record of a removal is honest after every step; the operation removes
\* nothing but what was reviewed: not what others put at a name, not a directory
\* that has something in it; and what prune and forget report survives any power
\* loss from that moment on: an exact tombstone, or neither the directory
\* nor the root intent that named it.
RemovalsAreHonest ==
  [][/\ Honest'
     /\ \A i \in 1..Files : disk.name[i] \in {"other", "filled"} /\ disk'.name[i] = "none"
          => Interfere \/ PowerLoss
     /\ \A p \in Proc, j \in surviving' :
          /\ Reports(p, "pruned") => Retained(j)
          /\ Reports(p, "forgotten") => j.gen # named[p] /\ j.erasing # named[p]]_retentionVars

\* The marker that an operation in this state writes next.
Wanted(j) ==
  LET i == j.log.deleted + 1
  IN  CASE i > Files -> Complete
        [] i <= Files /\ j.log.attempted < i -> Attempt
        [] i <= Files /\ j.log.attempted >= i /\ j.name[i] = "none" -> Deleted("recovered")
        [] OTHER -> Deleted("confirmed")

\* Resume can carry on, with the names and the scratch it finds, or is done.
Resumable(j) ==
  /\ Loads(j)
  /\ \/ j.log.done
     \/ /\ \A i \in 1..Files :
             /\ i <= j.log.deleted => j.name[i] = "none"
             /\ i > j.log.deleted /\ j.name[i] # "ours" => j.name[i] = "none" /\ i <= j.log.attempted
        /\ j.pending = NoScratch \/ j.pending.marker = Wanted(j)

\* Forget with its root intent visible can finish.
Erasable(j) ==
  \/ j.root = "none"
  \/ j.gen = j.erasing /\ j.tomb.pending = "none" /\ (j.root = "bare" => j.tomb = NoTomb)
     /\ j.root \in {"kept", "bare"}

CanGoOn(j) ==
  \/ j.erasing = 0 /\ j.tomb.marks = "none" /\ (j.root = "none" \/ Resumable(j))
  \/ j.erasing = 0 /\ j.tomb.marks # "none" /\ (Prunable(j) \/ Forgettable(j))
  \/ j.erasing # 0 /\ Erasable(j)

\* What stops an operation for good: its initialization was not finished; somebody
\* else changed a name; an invocation built on markers that were not durable; the
\* scratch is still empty, or is that of a deletion seen to succeed; a marker of
\* the tombstone was staged but its bytes are incomplete, or it is the completion;
\* the retention directory of a parent cleanup has no intent; or a run that had
\* looked before the tombstone was begun changed what prune and forget found, or
\* made the directory again.
NamedCause(j) ==
  \/ j.erasing = 0 /\ j.tomb.marks = "none" /\ j.root \in {"bare", "kept", "tree"}
  \/ changes > 0
  \/ reused
  \/ j.pending.fill = "empty"
  \/ j.pending.marker = Deleted("confirmed")
  \/ j.tomb.pending # "none" /\ ~j.tomb.whole
  \/ j.tomb.pending = "complete"
  \/ kind = "parents" /\ j.tomb.marks = "dir" /\ j.erasing = 0
  \/ late \/ j.gen > 1

\* A crash or a power loss leaves an operation that the command it interrupted
\* can be repeated on, or that never began, except for the named causes.
OnlyNamedCausesBlock == \A j \in surviving : NamedCause(j) \/ CanGoOn(j)
==============================================================================
