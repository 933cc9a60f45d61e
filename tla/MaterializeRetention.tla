------------------------- MODULE MaterializeRetention -------------------------
(***************************************************************************)
(* The end of a materialization's journal: `ptctl seed materialize prune   *)
(* | forget` (internal/materialize/retention*.go, forget*.go) beside Run,  *)
(* Resume, Abandon and Status of Materialize.                              *)
(*                                                                         *)
(*   prune   proves that the published tree is there (committed) or that   *)
(*           the public name is free (abandoned), writes                   *)
(*           retention/intent.json, removes the operation's own files,     *)
(*           each removal durable before the next, and writes              *)
(*           retention/complete.json: what is left is the tombstone.       *)
(*   forget  stages a forget intent in the tombstone, moves it to the      *)
(*           target root, removes the tombstone and the operation          *)
(*           directory, and removes the root intent last.                  *)
(*                                                                         *)
(* Every command reads the root intent before it opens the operation and   *)
(* takes its lock, and never again.  What another user has at the public   *)
(* name is never touched.                                                  *)
(***************************************************************************)
EXTENDS Materialize

CONSTANT MaxIncarnations   \* bound: how often the operation directory is made

ASSUME MaxIncarnationsAssumption == MaxIncarnations \in Nat \ {0}

Incarnations == 1..MaxIncarnations

VARIABLES
  named,       \* the directory that the forget intent an invocation read names
  hasty        \* history: a prune of this directory began with a terminal event
               \* that was not durable

retentionVars == <<vars, named, hasty>>

\* The tombstone: how many of its directory, its intent and its completion
\* exist; what the intent says of the operation; its staged marker, and
\* whether the bytes of that marker are complete.
Marks == {"none", "dir", "intent", "complete"}
Tombs == [marks : Marks, basis : {"none"} \cup Terminal,
          pending : {"none", "intent", "complete", "forget"}, whole : BOOLEAN]
NoTomb == [marks |-> "none", basis |-> "none", pending |-> "none", whole |-> FALSE]

\* root may also be a directory without stage/, which no reader of the journal
\* accepts (stripping), and one with nothing but its lock file and retention/
\* (kept).  gen: the identity of the operation directory; erasing: the one that
\* a visible root intent names.
Images ==
  [root : {"none", "bare", "tree", "intent", "stripping", "kept"}, log : Logs,
   stage : 0..Files, final : {"none", "ours", "other"}, scratch : 0..MaxScratch,
   tomb : Tombs, gen : 1..(MaxIncarnations + 1), erasing : 0..MaxIncarnations]

Empty ==
  [root |-> "none", log |-> NoLog, stage |-> 0, final |-> "none", scratch |-> 0,
   tomb |-> NoTomb, gen |-> 1, erasing |-> 0]

RetentionModes == {"prune", "forget"}
RetentionUnlocked == {"prune_open", "forget_read", "forget_open", "erase_open",
                      "vanish", "look", "unmark", "report"}
RetentionHolding == {"tomb", "tomb_fill", "tomb_commit", "tomb_confirm", "strip", "erase"}

TypeOK ==
  /\ disk \in Images /\ disk \in surviving /\ surviving \subseteq Images
  /\ lock \in Proc \cup {Nobody}
  /\ pc \in [Proc -> Unlocked \cup Holding \cup RetentionUnlocked \cup RetentionHolding]
  /\ \A p \in Proc : pc[p] \in Holding \cup RetentionHolding <=> lock = p
  /\ mode \in [Proc -> Modes \cup RetentionModes]
  /\ event \in [Proc -> Logs]
  /\ durable \in [Proc -> BOOLEAN]
  /\ outcome \in [Proc -> {"none", "committed", "already", "abandoned", "pruned", "forgotten"}]
  /\ named \in [Proc -> 0..MaxIncarnations]
  /\ taken \in BOOLEAN /\ hasty \in BOOLEAN

Init ==
  /\ disk = Empty /\ surviving = {Empty}
  /\ lock = Nobody
  /\ pc = [p \in Proc |-> "idle"]
  /\ mode = [p \in Proc |-> "status"]
  /\ event = [p \in Proc |-> NoLog]
  /\ durable = [p \in Proc |-> FALSE]
  /\ outcome = [p \in Proc |-> "none"]
  /\ named = [p \in Proc |-> 0]
  /\ taken = FALSE /\ hasty = FALSE

-----------------------------------------------------------------------------
(* What the readers accept.                                                *)

\* openJournalForRetention: the journal replays, retention/ or not.
Replays(j) == j.root = "intent" /\ j.log.phase # "none"

\* auditRetentionControlDirectory: the staged markers that it knows.
KnownPending(j) ==
  \/ j.tomb.pending = "none"
  \/ j.tomb.whole /\ \/ j.tomb.marks = "dir" /\ j.tomb.pending = "intent"
                     \/ j.tomb.marks = "intent" /\ j.tomb.pending = "complete"

\* A tree that prune may begin with, or that it may go on with.
Unsealed(j) == j.tomb.marks \in {"none", "dir"} /\ Replays(j) /\ j.log.phase \in Terminal
Sealed(j) == j.tomb.marks = "intent" /\ (Replays(j) => j.log.phase = j.tomb.basis)
ExactTombstone(j) == j.tomb.marks = "complete" /\ j.root = "kept"
Prunable(j) == KnownPending(j) /\ (Unsealed(j) \/ Sealed(j) \/ ExactTombstone(j))

\* auditInitialForgetTombstone, after the loader it shares with prune.
Forgettable(j) == ExactTombstone(j) /\ KnownPending(j)

\* A lock file to open the operation with.
Lockable(j) == j.root \notin {"none", "bare"}

-----------------------------------------------------------------------------
(* Materialize's commands beside a tombstone and a root forget intent.     *)

\* applyForgetControl, before the operation is opened.
StartBelow(p) == disk.erasing = 0 /\ Start(p)

\* An operation root with retention/ in it is no journal (openJournalMode).
OpenRetained(p) ==
  /\ pc[p] = "open" /\ disk.tomb.marks # "none"
  /\ Return(p, "none")
  /\ UNCHANGED <<diskVars, taken>>

Opening(p) == OpenRetained(p) \/ (disk.tomb.marks = "none" /\ Open(p))

\* Bound: the operation directory is made MaxIncarnations times.
BoundedMakeRoot(p) == disk.gen \in Incarnations /\ MakeRoot(p)

Materializing(p) ==
  \/ StartBelow(p) \/ CheckFinal(p) \/ BoundedMakeRoot(p) \/ MakeTree(p) \/ WriteIntent(p)
  \/ ReserveEvent(p) \/ CommitEvent(p) \/ ConfirmEvent(p)
  \/ Opening(p) \/ Reconfirm(p) \/ FindSource(p) \/ ConfirmCommitted(p)
  \/ BeginStage(p) \/ PrepareStage(p) \/ FindStaged(p) \/ CopyFile(p) \/ PlaceFile(p)
  \/ ConfirmFile(p) \/ VerifyStage(p)
  \/ IntendPublication(p) \/ RecoverPublication(p) \/ VerifyBeforeRename(p) \/ Rename(p)
  \/ ConfirmRename(p) \/ ConfirmFinal(p) \/ VerifyFinal(p) \/ Clean(p)
  \/ Crash(p)

-----------------------------------------------------------------------------
(* Markers of the tombstone.                                               *)

\* The target root is synced, with the renames into it.
SyncTarget == Sync({"root", "final", "erasing", "tomb"})
SyncTomb == Sync({"tomb", "root"})

\* Only the disk and the program counter change.
Step(p, step) == Goto(p, step) /\ UNCHANGED <<lock, event, durable>>
Read(p, step) == Step(p, step) /\ UNCHANGED diskVars
Stop(p) == Return(p, "none") /\ UNCHANGED diskVars

\* The marker an invocation writes next.
Target(p) == IF mode[p] = "forget" THEN "forget"
             ELSE IF disk.tomb.marks = "intent" THEN "complete" ELSE "intent"

\* ensureRetentionMarkerBytes and ensureForgetRootIntent: the directory is made
\* durably, and the marker is staged or taken over from an earlier invocation.
StageTomb(p) ==
  /\ pc[p] = "tomb"
  /\ \/ disk.tomb.marks = "none"
        /\ PutDurably("tomb", [NoTomb EXCEPT !.marks = "dir"]) /\ Step(p, "tomb")
     \/ disk.tomb.marks # "none" /\ disk.tomb.pending = "none"
        /\ Put("tomb", [disk.tomb EXCEPT !.pending = Target(p)]) /\ Step(p, "tomb_fill")
     \/ disk.tomb.pending # "none" /\ Read(p, "tomb_commit")
  /\ UNCHANGED taken

\* Its bytes are written and synced; its name may still be lost.
FillTomb(p) ==
  /\ pc[p] = "tomb_fill"
  /\ LET filled(j) == [j EXCEPT !.tomb.whole = (j.tomb.pending # "none")]
     IN disk' = filled(disk) /\ surviving' = {filled(j) : j \in surviving}
  /\ Step(p, "tomb_commit")
  /\ UNCHANGED taken

Buried(tomb) ==
  CASE tomb.pending = "intent" -> [NoTomb EXCEPT !.marks = "intent", !.basis = disk.log.phase]
    [] tomb.pending = "complete" -> [NoTomb EXCEPT !.marks = "complete", !.basis = tomb.basis]
    [] tomb.pending = "forget" -> [tomb EXCEPT !.pending = "none", !.whole = FALSE]

\* CommitRegularNoReplace, or PublishNoReplace: one rename.  The name is free:
\* under the lock nobody else publishes an intent.
CommitTomb(p) ==
  /\ pc[p] = "tomb_commit"
  /\ \/ mode[p] = "prune" /\ Put("tomb", Buried(disk.tomb)) /\ Step(p, "tomb_confirm")
     \/ mode[p] = "forget" /\ disk.erasing = 0
        /\ Move("tomb", Buried(disk.tomb), "erasing", disk.gen) /\ Step(p, "tomb_confirm")
  /\ UNCHANGED taken

\* Mutant of ConfirmTomb: removals begin before the marker is durable.
ConfirmTombUnsynced(p) ==
  /\ pc[p] = "tomb_confirm"
  /\ \/ mode[p] = "prune" /\ disk.tomb.marks = "intent" /\ Read(p, "strip")
     \/ mode[p] = "prune" /\ disk.tomb.marks = "complete" /\ Return(p, "pruned") /\ UNCHANGED diskVars
     \/ mode[p] = "forget" /\ Read(p, "erase")
  /\ UNCHANGED taken

ConfirmTomb(p) ==
  /\ pc[p] = "tomb_confirm"
  /\ \/ mode[p] = "prune" /\ disk.tomb.marks = "intent" /\ SyncTomb /\ Step(p, "strip")
     \/ mode[p] = "prune" /\ disk.tomb.marks = "complete" /\ SyncTomb /\ Return(p, "pruned")
     \/ mode[p] = "forget" /\ SyncTarget /\ Step(p, "erase")
  /\ UNCHANGED taken

-----------------------------------------------------------------------------
(* Prune.                                                                  *)

StartRetention(p) ==
  /\ pc[p] = "idle"
  /\ \/ /\ disk.erasing = 0
        /\ mode' = [mode EXCEPT ![p] = "prune"] /\ pc' = [pc EXCEPT ![p] = "prune_open"]
     \/ mode' = [mode EXCEPT ![p] = "forget"] /\ pc' = [pc EXCEPT ![p] = "forget_read"]
  /\ outcome' = [outcome EXCEPT ![p] = "none"]
  /\ UNCHANGED <<diskVars, lock, event, durable, taken>>

\* proveRetentionIntentBasis: the public name as the journal left it.
BasisProved ==
  /\ disk.log.phase = "committed" => disk.final = "ours"
  /\ disk.log.phase = "abandoned" => disk.final = "none"

\* The terminal journal, or an intent made durable once more, is authority.
PruneOpens(p) ==
  /\ pc[p] = "prune_open"
  /\ \/ /\ lock = Nobody /\ Lockable(disk) /\ Prunable(disk)
        /\ \/ Unsealed(disk) /\ BasisProved
              /\ lock' = p /\ Goto(p, "tomb") /\ UNCHANGED <<diskVars, event, durable>>
           \/ Sealed(disk)
              /\ lock' = p /\ Goto(p, "strip") /\ SyncTomb /\ UNCHANGED <<event, durable>>
           \/ ExactTombstone(disk) /\ SyncTomb /\ Return(p, "pruned")
     \/ /\ \/ lock # Nobody \/ ~Lockable(disk) \/ ~Prunable(disk)
           \/ Unsealed(disk) /\ ~BasisProved
        /\ Stop(p)
  /\ UNCHANGED taken

\* Mutant of Strip: the tombstone is completed while the journal is there.
StripLate(p) == pc[p] = "strip" /\ Read(p, "tomb") /\ UNCHANGED taken

\* removeRetentionNodes, backwards over stage/, scratch/, journal/ and the
\* intent.  (Without stage/ no reader replays the events, which go together.)
Strip(p) ==
  /\ pc[p] = "strip"
  /\ \/ disk.root = "intent" /\ disk.stage > 0 /\ PutDurably("stage", disk.stage - 1)
        /\ Step(p, "strip")
     \/ disk.root = "intent" /\ disk.stage = 0 /\ PutDurably("root", "stripping")
        /\ Step(p, "strip")
     \/ disk.root = "stripping" /\ disk.scratch > 0 /\ PutDurably("scratch", disk.scratch - 1)
        /\ Step(p, "strip")
     \/ disk.root = "stripping" /\ disk.scratch = 0 /\ disk.log # NoLog
        /\ PutDurably("log", NoLog) /\ Step(p, "strip")
     \/ disk.root = "stripping" /\ disk.scratch = 0 /\ disk.log = NoLog
        /\ PutDurably("root", "kept") /\ Step(p, "strip")
     \/ disk.root = "kept" /\ Read(p, "tomb")
  /\ UNCHANGED taken

-----------------------------------------------------------------------------
(* Forget.                                                                 *)

\* A visible root intent is synced and selects the directory it names.
ForgetReads(p) ==
  /\ pc[p] = "forget_read"
  /\ \/ disk.erasing = 0 /\ Read(p, "forget_open") /\ UNCHANGED named
     \/ disk.erasing # 0 /\ SyncTarget /\ Step(p, "erase_open")
        /\ named' = [named EXCEPT ![p] = disk.erasing]
  /\ UNCHANGED taken

\* Only an exact tombstone may be forgotten; the root intent is read again.
ForgetOpens(p) ==
  /\ pc[p] = "forget_open"
  /\ \/ /\ lock = Nobody /\ Lockable(disk) /\ Forgettable(disk)
        /\ disk.erasing \in {0, disk.gen}
        /\ lock' = p /\ UNCHANGED <<event, durable>>
        /\ named' = [named EXCEPT ![p] = disk.gen]
        /\ \/ disk.erasing = 0 /\ Goto(p, "tomb") /\ UNCHANGED diskVars
           \/ disk.erasing # 0 /\ Goto(p, "erase") /\ SyncTarget
     \/ /\ \/ lock # Nobody \/ ~Lockable(disk) \/ ~Forgettable(disk)
           \/ disk.erasing \notin {0, disk.gen}
        /\ Stop(p) /\ UNCHANGED named
  /\ UNCHANGED taken

\* The operation directory goes; what it published stays, and is nobody's.
Vanished(j) ==
  [j EXCEPT !.root = "none", !.gen = disk.gen + 1,
            !.final = IF j.final = "ours" THEN "other" ELSE j.final]
Vanishes ==
  /\ disk' = Vanished(disk) /\ surviving' = surviving \cup {Vanished(j) : j \in surviving}
  /\ taken' = FALSE

\* OpenPrivateSubtree with the identity the intent names: gone, another
\* directory, an empty residue without its lock file, or the directory itself.
EraseOpens(p) ==
  /\ pc[p] = "erase_open"
  /\ \/ disk.root = "none" /\ SyncTarget /\ Step(p, "vanish") /\ UNCHANGED taken
     \/ disk.root # "none" /\ (disk.gen # named[p] \/ lock # Nobody) /\ Stop(p) /\ UNCHANGED taken
     \/ disk.root = "bare" /\ disk.gen = named[p] /\ lock = Nobody
        /\ Vanishes /\ Step(p, "vanish")
     \/ /\ Lockable(disk) /\ disk.gen = named[p] /\ lock = Nobody
        /\ lock' = p /\ Goto(p, "erase") /\ SyncTarget /\ UNCHANGED <<event, durable, taken>>

Exhumed(tomb) ==
  CASE tomb.marks = "complete" -> [tomb EXCEPT !.marks = "intent"]
    [] tomb.marks = "intent" -> [NoTomb EXCEPT !.marks = "dir"]
    [] tomb.marks = "dir" -> NoTomb

\* removeTombstoneFromForgetIntent: completion, intent and directory, each
\* durably; then the lock file and the operation directory.
Erase(p) ==
  /\ pc[p] = "erase"
  /\ \/ disk.tomb.marks # "none" /\ disk.tomb.pending = "none"
        /\ PutDurably("tomb", Exhumed(disk.tomb)) /\ Step(p, "erase") /\ UNCHANGED taken
     \/ disk.tomb.marks # "none" /\ disk.tomb.pending # "none" /\ Stop(p) /\ UNCHANGED taken
     \/ disk.tomb.marks = "none" /\ disk.root = "kept"
        /\ Put("root", "bare") /\ Step(p, "erase") /\ UNCHANGED taken
     \/ disk.tomb.marks = "none" /\ disk.root = "bare"
        /\ Vanishes /\ lock' = Nobody /\ Goto(p, "vanish") /\ UNCHANGED <<event, durable>>

\* The root intent is read again, and the absence is made durable ...
Vanish(p) ==
  /\ pc[p] = "vanish"
  /\ \/ disk.erasing = named[p] /\ disk.root = "none" /\ SyncTarget /\ Step(p, "look")
     \/ (disk.erasing # named[p] \/ disk.root # "none") /\ Stop(p)
  /\ UNCHANGED taken

\* ... and observed once more; then the intent goes, by its identity.
LookAgain(p) ==
  /\ pc[p] = "look"
  /\ \/ disk.root = "none" /\ Read(p, "unmark")
     \/ disk.root # "none" /\ Stop(p)
  /\ UNCHANGED taken

Unmark(p) ==
  /\ pc[p] = "unmark"
  /\ \/ disk.erasing = named[p] /\ Put("erasing", 0) /\ Step(p, "report")
     \/ disk.erasing # named[p] /\ Stop(p)
  /\ UNCHANGED taken

\* Mutant of ReportForgotten: the last removal is not synced.
ReportForgottenUnsynced(p) ==
  /\ pc[p] = "report" /\ Return(p, "forgotten") /\ UNCHANGED <<diskVars, taken>>

ReportForgotten(p) ==
  /\ pc[p] = "report" /\ SyncTarget /\ Return(p, "forgotten")
  /\ UNCHANGED taken

-----------------------------------------------------------------------------

Retaining(p) ==
  \/ StageTomb(p) \/ FillTomb(p) \/ CommitTomb(p) \/ ConfirmTomb(p)
  \/ StartRetention(p) \/ PruneOpens(p) \/ Strip(p)
  \/ EraseOpens(p) \/ Erase(p)
  \/ Vanish(p) \/ LookAgain(p) \/ Unmark(p) \/ ReportForgotten(p)

\* prepareRetentionIntent trusts the terminal event that it sees.
BeganHastily ==
  /\ disk.tomb.marks = "none" /\ disk'.tomb.marks = "dir"
  /\ \E j \in surviving : j.log # disk.log

History == hasty' = (disk'.gen = disk.gen /\ (hasty \/ BeganHastily))

\* What an invocation that ended had read is gone.
Unname == named' = [p \in Proc |-> IF pc'[p] = "idle" THEN 0 ELSE named[p]]

Next ==
  \/ \E p \in Proc : Retaining(p) /\ History /\ Unname
  \/ \E p \in Proc : (ForgetReads(p) \/ ForgetOpens(p)) /\ UNCHANGED hasty
  \/ \E p \in Proc : Materializing(p) /\ Unname /\ UNCHANGED hasty
  \/ (PowerLoss \/ Occupy \/ Vacate) /\ Unname /\ UNCHANGED hasty

Spec == Init /\ [][Next]_retentionVars

-----------------------------------------------------------------------------
(* Properties.                                                             *)

\* Whatever a power loss leaves, at any step of any command, a published tree
\* of this operation has a record: the journal of the same moment holds the
\* publish intent, or the tombstone says that it was committed, or the user
\* asked for this very directory to be forgotten.  So no operation was
\* abandoned after it published, none is taken for unpublished, and no prune
\* loses a publication.  (The intent is durable before the rename; abandon and
\* resume sync what they replayed; each removal follows a durable marker.)
PublishedIsRecorded ==
  \A j \in surviving :
    j.final = "ours" =>
      \/ j.log.phase \in Publishing
      \/ j.tomb.marks \in {"intent", "complete"} /\ j.tomb.basis = "committed"
      \/ j.erasing = j.gen

\* What somebody else put at the public name is never replaced by the staged
\* tree, whenever it was put there, and a tree that was published before its
\* operation was forgotten is somebody else's.  (A power loss may undo both.)
NeverReplaces == [][disk.final = "other" /\ disk'.final = "ours" => PowerLoss]_retentionVars

Reports(p, o) == pc[p] # "idle" /\ pc'[p] = "idle" /\ outcome'[p] = o

\* What a report says survives any power loss from that moment on: committed
\* (and no scratch is kept), abandoned, pruned to an exact tombstone, or
\* forgotten, where neither the directory nor the root intent that named it can
\* come back.  (An invocation that finds the abandoned event does not sync it
\* again before it says so.)
ReportsSurvive ==
  [][\A p \in Proc, j \in surviving' :
       /\ Reports(p, "committed") \/ Reports(p, "already") =>
            j.log.phase = "committed" /\ j.scratch = 0
       /\ Reports(p, "abandoned") => j.log.phase = "abandoned"
       /\ Reports(p, "pruned") => ExactTombstone(j)
       /\ Reports(p, "forgotten") => j.gen # named[p] /\ j.erasing # named[p]]_retentionVars

\* What stands at the public name and what was reported is always accounted
\* for: a published tree has its record in every image, nobody else's object
\* became one, and no power loss takes back a report.
PublicationIsRecorded == []PublishedIsRecorded /\ NeverReplaces /\ ReportsSurvive

\* Resume can carry this operation on, or abandon can end it, with nothing
\* else in the way: what its events claim is on the disk.
Backed(j) ==
  /\ j.log.phase = "journaled" => j.stage = 0
  /\ j.log.phase \in Unpublished => j.stage \in j.log.staged..(j.log.staged + 1)
  /\ j.log.phase \in {"stage_verified", "publish_intent"} /\ j.final # "ours" => j.stage = Files
  /\ j.log.phase \in Publishing \ {"publish_intent"} => j.final = "ours"

\* Forget with its root intent visible can finish.
Erasable(j) ==
  \/ j.root = "none"
  \/ j.gen = j.erasing /\ j.tomb.pending = "none" /\ (j.root = "bare" => j.tomb = NoTomb)
     /\ j.root \in {"kept", "bare"}

CanGoOn(j) ==
  \/ j.erasing = 0 /\ j.tomb.marks = "none" /\ (j.root = "none" \/ (Replays(j) /\ Backed(j)))
  \/ j.erasing = 0 /\ j.tomb.marks # "none" /\ Prunable(j)
  \/ j.erasing # 0 /\ Erasable(j)

\* A crash or a power loss leaves an operation that the command it interrupted
\* can be repeated on, or that never began, except for the named causes:
\* initialization was not finished; retained scratch is at its limit; somebody
\* else took what was published; a marker was staged but its bytes are
\* incomplete; forget ended between staging its intent and publishing it; a
\* prune began from a terminal event that was not yet durable; or a run or a
\* prune that had found no forget intent went on beside one: it made the
\* directory again, or staged a marker in a tombstone that was being removed.
OnlyNamedCausesBlock ==
  \A j \in surviving :
    \/ j.tomb.marks = "none" /\ ~Replays(j) /\ j.root \in {"bare", "tree", "intent"}
    \/ j.scratch = MaxScratch /\ j.tomb.marks = "none"
    \/ taken /\ j.tomb.marks = "none"
    \/ j.tomb.pending # "none" /\ ~j.tomb.whole
    \/ j.tomb.pending = "forget"
    \/ hasty
    \/ j.erasing # 0 /\ (j.erasing # j.gen \/ j.tomb.pending # "none")
    \/ CanGoOn(j)
===============================================================================
