--------------------------- MODULE AdoptRetention ---------------------------
(***************************************************************************)
(* The end of an adoption's journal: `ptctl client adopt prune | forget`   *)
(* (internal/clientadopt/retention*.go, forget*.go) running beside Run,    *)
(* Resume and Status of ClientAdopt.                                       *)
(*                                                                         *)
(*   prune   writes retention/intent.json (a copy of the whole chain),     *)
(*           removes the journal's own markers and scratch, then writes    *)
(*           retention/complete.json: what is left is the tombstone.       *)
(*   forget  stages a forget intent in the tombstone, renames it to the    *)
(*           target root, removes the tombstone and the operation          *)
(*           directory, and removes the root intent last.                  *)
(*                                                                         *)
(* The journal record of ClientAdopt gets three more fields: the tombstone *)
(* directory, the identity of the operation directory (`gen`, a new one    *)
(* whenever the directory is made again) and the identity that a visible   *)
(* root forget intent names (`erasing`).  ClientAdopt's actions leave      *)
(* them alone.  Every command looks for the root intent before it owns the *)
(* operation lock, and for the tombstone after.                            *)
(***************************************************************************)
EXTENDS ClientAdopt

CONSTANT MaxIncarnations   \* bound: how often the operation directory is made

ASSUME MaxIncarnationsAssumption == MaxIncarnations \in Nat \ {0}

Incarnations == 1..MaxIncarnations

VARIABLES
  named,       \* the directory that the forget marker an invocation read names
  adopted      \* history: the incarnations whose completion became durable

retentionVars == <<vars, named, adopted>>

TombMarkers == {"none", "intent", "complete", "forget"}
Tombs == [dir : BOOLEAN, intent : BOOLEAN, complete : BOOLEAN,
          pending : TombMarkers, whole : BOOLEAN]
NoTomb == [dir |-> FALSE, intent |-> FALSE, complete |-> FALSE,
           pending |-> "none", whole |-> FALSE]

\* The journal of an operation directory that does not exist (yet).
Absent(plan, g, e) ==
  [plan |-> plan, root |-> "none", scratch |-> FALSE, pending |-> NoPending,
   intent |-> FALSE, attempts |-> 0, done |-> 0,
   tomb |-> NoTomb, gen |-> g, erasing |-> e]

RetainedJournals ==
  [plan : Plans, root : {"none", "bare", "locked"}, scratch : BOOLEAN,
   pending : Pendings, intent : BOOLEAN, attempts : AttemptCounts, done : AttemptCounts,
   tomb : Tombs, gen : 1..(MaxIncarnations + 1), erasing : 0..MaxIncarnations]

RetentionModes == {"prune", "forget"}
RetentionOptions(mode) == [mode |-> mode, repeat |-> FALSE, ack |-> TRUE]

RetentionUnlocked == {"prune_open", "forget_read", "forget_open", "erase_open",
                      "vanish", "look", "unmark", "report"}
RetentionHolding == {"prune_load", "tomb", "tomb_fill", "tomb_commit", "tomb_confirm",
                     "strip", "forget_load", "erase"}

RetentionTypeOK ==
  /\ disk \in RetainedJournals /\ disk \in surviving /\ surviving \subseteq RetainedJournals
  /\ lock \in Proc \cup {Nobody}
  /\ pc \in [Proc -> Unlocked \cup Holding \cup RetentionUnlocked \cup RetentionHolding]
  /\ named \in [Proc -> 0..MaxIncarnations]
  /\ adopted \subseteq Incarnations
  /\ \A p \in Proc : pc[p] \in Holding \cup RetentionHolding => lock = p

RetentionInit ==
  /\ \E plan \in Plans : disk = Absent(plan, 1, 0) /\ surviving = {Absent(plan, 1, 0)}
  /\ NothingRuns /\ NothingSent
  /\ named = [p \in Proc |-> 0]
  /\ adopted = {}

-----------------------------------------------------------------------------
(* What the readers accept.                                                *)

\* The journal's own objects, apart from the lock and the tombstone.
Legacy(j) == HasMarkers(j) \/ j.scratch

\* A terminal journal that prune may copy.
Terminal(j) == ChainAgrees(j) /\ j.done # 0 /\ j.pending = NoPending

\* loadRetentionState and auditRetentionNamespace: what prune can continue.
Prunable(j) ==
  /\ j.root = "locked"
  /\ j.tomb.pending # "none" => j.tomb.whole
  /\ j.tomb.complete \/ j.tomb.pending = "complete" => j.tomb.intent
  /\ j.tomb.complete => ~Legacy(j)
  /\ ~j.tomb.intent => Terminal(j)
  /\ j.tomb.pending # "forget"

\* The exact tombstone that forget may erase.
ExactTombstone(j) ==
  /\ j.root = "locked"
  /\ j.tomb.intent /\ j.tomb.complete /\ ~Legacy(j)
  /\ j.tomb.pending = "none" \/ (j.tomb.pending = "forget" /\ j.tomb.whole)

-----------------------------------------------------------------------------
(* ClientAdopt's commands beside a tombstone and a root forget intent.     *)

\* readStateWithRetention: an open that finds the tombstone directory goes no
\* further; without one it reads the journal.
LoadRetained(p) ==
  /\ pc[p] = "load" /\ disk.tomb.dir
  /\ Return(p, "stopped")
  /\ UNCHANGED <<disk, surviving, clientVars>>

Loads(p) ==
  \/ LoadEnds(p) \/ LoadInitializes(p) \/ LoadRepublishes(p)
  \/ LoadDiscards(p) \/ LoadConfirms(p)

\* Mutant of Loading: the tombstone is not looked for.
LoadingPastTombstone(p) == LoadRetained(p) \/ Loads(p)

Loading(p) == LoadRetained(p) \/ (~disk.tomb.dir /\ Loads(p))

\* Bound: the operation directory is made MaxIncarnations times.
BoundedMakeRoot(p) == disk.gen \in Incarnations /\ MakeRoot(p)

\* inspectForgetControl runs before the lock is taken: createJournal reads it
\* just before its mkdir (here with the survey), openJournal before its open.
Adopting(p) ==
  \/ StartRun(p)
  \/ disk.erasing = 0 /\ (StartResume(p) \/ StartStatus(p) \/ RunSurveys(p))
  \/ BoundedMakeRoot(p) \/ MakeLock(p) \/ MakeScratch(p)
  \/ StageMarker(p) \/ FillMarker(p) \/ CommitMarker(p) \/ ConfirmMarker(p)
  \/ OpenJournal(p) \/ Loading(p)
  \/ ResumeSettled(p) \/ ResumeObservation(p) \/ ResumeFindsJob(p) \/ ResumeFindsAbsence(p)
  \/ AppendAttempt(p) \/ SendAdd(p) \/ LoseReply(p) \/ RereadLedger(p)
  \/ CloseBracket(p) \/ FinalizeObserved(p)

-----------------------------------------------------------------------------
(* Markers of the tombstone: ensureRetentionMarker, ensureForgetRootIntent. *)

Tomb(p, step, d) == SyncThenWrite(d) /\ Goto(p, step) /\ UNCHANGED <<lock, marker>>
Step(p, step) == Goto(p, step) /\ UNCHANGED <<disk, surviving, lock, marker>>
SyncStep(p, step) == Sync /\ Goto(p, step) /\ UNCHANGED <<lock, marker>>
End(p, o) == Return(p, o) /\ UNCHANGED <<disk, surviving>>

\* Opening under the lock: a held lock or a missing directory is an error.
Acquire(p, step) ==
  \/ /\ disk.root = "locked" /\ lock = Nobody
     /\ lock' = p /\ Goto(p, step) /\ UNCHANGED <<disk, surviving, marker>>
  \/ (disk.root # "locked" \/ lock # Nobody) /\ End(p, "stopped")

\* The marker an invocation writes next.
TombTarget(p) == IF opts[p].mode = "forget" THEN "forget"
                 ELSE IF disk.tomb.intent THEN "complete" ELSE "intent"

\* Make the directory, create the staged file, or take over a whole one.
StageTomb(p) ==
  /\ pc[p] = "tomb"
  /\ \/ ~disk.tomb.dir /\ Tomb(p, "tomb", [disk EXCEPT !.tomb.dir = TRUE])
     \/ /\ disk.tomb.dir /\ disk.tomb.pending = "none"
        /\ Tomb(p, "tomb_fill", [disk EXCEPT !.tomb.pending = TombTarget(p), !.tomb.whole = FALSE])
     \/ disk.tomb.dir /\ disk.tomb.pending = TombTarget(p) /\ Step(p, "tomb_commit")

FillTomb(p) ==
  /\ pc[p] = "tomb_fill"
  /\ LET filled(j) == [j EXCEPT !.tomb.whole = (j.tomb.pending # "none")]
     IN disk' = filled(disk) /\ surviving' = {filled(j) : j \in surviving}
  /\ Goto(p, "tomb_commit") /\ UNCHANGED <<lock, marker>>

\* One rename, inside the tombstone or, for the forget intent, to the root.
Buried(j) ==
  CASE j.tomb.pending = "intent" -> [j EXCEPT !.tomb = [NoTomb EXCEPT !.dir = TRUE, !.intent = TRUE]]
    [] j.tomb.pending = "complete" ->
         [j EXCEPT !.tomb = [NoTomb EXCEPT !.dir = TRUE, !.intent = TRUE, !.complete = TRUE]]
    [] j.tomb.pending = "forget" ->
         [j EXCEPT !.tomb.pending = "none", !.tomb.whole = FALSE, !.erasing = j.gen]

\* CommitRegularNoReplace and PublishNoReplace: an existing name is an error.
CommitTomb(p) ==
  /\ pc[p] = "tomb_commit"
  /\ \/ /\ disk.tomb.pending = "forget" /\ disk.erasing # 0
        /\ End(p, "stopped")
     \/ /\ ~(disk.tomb.pending = "forget" /\ disk.erasing # 0)
        /\ Write(Buried(disk))
        /\ Goto(p, "tomb_confirm") /\ UNCHANGED <<lock, marker>>

ConfirmTomb(p) ==
  /\ pc[p] = "tomb_confirm"
  /\ \/ opts[p].mode = "forget" /\ SyncStep(p, "erase")
     \/ opts[p].mode = "prune" /\ ~disk.tomb.complete /\ SyncStep(p, "strip")
     \/ opts[p].mode = "prune" /\ disk.tomb.complete /\ Sync /\ Return(p, "pruned")

-----------------------------------------------------------------------------
(* Prune.                                                                  *)

StartPrune(p) ==
  /\ disk.erasing = 0
  /\ Start(p, RetentionOptions("prune"), "prune_open")

PruneOpens(p) == pc[p] = "prune_open" /\ Acquire(p, "prune_load")

\* Mutant of PruneLoads: the tombstone directory is taken for its intent.
PruneLoadsDirectory(p) ==
  /\ pc[p] = "prune_load"
  /\ \/ ~Prunable(disk) /\ End(p, "stopped")
     \/ Prunable(disk) /\ ~disk.tomb.dir /\ SyncStep(p, "tomb")
     \/ Prunable(disk) /\ disk.tomb.dir /\ ~disk.tomb.complete /\ SyncStep(p, "strip")
     \/ Prunable(disk) /\ disk.tomb.complete /\ Sync /\ Return(p, "pruned")

\* The live journal, or the retention intent, is authority to go on; either is
\* made durable before anything is written or removed.
PruneLoads(p) ==
  /\ pc[p] = "prune_load"
  /\ \/ ~Prunable(disk) /\ End(p, "stopped")
     \/ Prunable(disk) /\ ~disk.tomb.intent /\ SyncStep(p, "tomb")
     \/ Prunable(disk) /\ disk.tomb.intent /\ ~disk.tomb.complete /\ SyncStep(p, "strip")
     \/ Prunable(disk) /\ disk.tomb.complete /\ Sync /\ Return(p, "pruned")

\* removeLegacyAdoptionState: completion, attempts from the last, intent, scratch.
Stripped(j) ==
  CASE j.done # 0 -> [j EXCEPT !.done = 0]
    [] j.done = 0 /\ j.attempts > 0 -> [j EXCEPT !.attempts = @ - 1]
    [] j.done = 0 /\ j.attempts = 0 /\ j.intent -> [j EXCEPT !.intent = FALSE]
    [] OTHER -> [j EXCEPT !.scratch = FALSE]

\* Mutant of Strip: the tombstone is completed before the journal is gone.
StripLate(p) ==
  /\ pc[p] = "strip"
  /\ \/ disk.done # 0 /\ Tomb(p, "strip", Stripped(disk))
     \/ disk.done = 0 /\ Step(p, "tomb")

Strip(p) ==
  /\ pc[p] = "strip"
  /\ \/ Legacy(disk) /\ Tomb(p, "strip", Stripped(disk))
     \/ ~Legacy(disk) /\ SyncStep(p, "tomb")

-----------------------------------------------------------------------------
(* Forget.                                                                 *)

Names(p, g) == named' = [named EXCEPT ![p] = g]

StartForget(p) == Start(p, RetentionOptions("forget"), "forget_read")

\* A visible root intent is synced and selects the directory it names.
ForgetReads(p) ==
  /\ pc[p] = "forget_read"
  /\ \/ disk.erasing = 0 /\ Step(p, "forget_open") /\ UNCHANGED named
     \/ disk.erasing # 0 /\ SyncStep(p, "erase_open") /\ Names(p, disk.erasing)

ForgetOpens(p) == pc[p] = "forget_open" /\ Acquire(p, "forget_load")

\* Only one exact tombstone may be forgotten.
ForgetLoads(p) ==
  /\ pc[p] = "forget_load"
  /\ \/ ~ExactTombstone(disk) /\ End(p, "stopped") /\ Names(p, 0)
     \/ ExactTombstone(disk) /\ disk.erasing = 0 /\ Step(p, "tomb") /\ Names(p, disk.gen)
     \/ ExactTombstone(disk) /\ disk.erasing = disk.gen
        /\ SyncStep(p, "erase") /\ Names(p, disk.gen)
     \/ ExactTombstone(disk) /\ disk.erasing \notin {0, disk.gen}
        /\ End(p, "stopped") /\ Names(p, 0)

\* Reopening by identity: gone, an empty residue without its lock, another
\* directory under the name, or the directory the marker names.
EraseOpens(p) ==
  /\ pc[p] = "erase_open"
  /\ \/ disk.root = "none" /\ SyncStep(p, "vanish")
     \/ disk.root # "none" /\ (disk.gen # named[p] \/ lock # Nobody) /\ End(p, "stopped")
     \/ disk.root = "bare" /\ disk.gen = named[p] /\ lock = Nobody
        /\ Tomb(p, "vanish", Absent(disk.plan, disk.gen + 1, disk.erasing))
     \/ disk.root = "locked" /\ disk.gen = named[p] /\ Acquire(p, "erase")

\* removeTombstoneFromForgetIntent: the markers, then their directory.
Exhumed(j) ==
  IF j.tomb.complete THEN [j EXCEPT !.tomb.complete = FALSE]
  ELSE IF j.tomb.intent THEN [j EXCEPT !.tomb.intent = FALSE]
  ELSE [j EXCEPT !.tomb = NoTomb]

\* Each removal is synced, except that of the lock file: the directory goes
\* with it, under the lock on the directory itself.
Erase(p) ==
  /\ pc[p] = "erase"
  /\ \/ disk.tomb.dir /\ disk.tomb.pending = "none" /\ Tomb(p, "erase", Exhumed(disk))
     \/ disk.tomb.dir /\ disk.tomb.pending # "none" /\ End(p, "stopped")
     \/ ~disk.tomb.dir /\ Legacy(disk) /\ End(p, "stopped")
     \/ ~disk.tomb.dir /\ ~Legacy(disk) /\ disk.root = "locked"
        /\ Tomb(p, "erase", [disk EXCEPT !.root = "bare"])
     \/ /\ ~disk.tomb.dir /\ ~Legacy(disk) /\ disk.root = "bare"
        /\ Write(Absent(disk.plan, disk.gen + 1, disk.erasing))
        /\ lock' = Nobody
        /\ Goto(p, "vanish") /\ UNCHANGED marker

\* The root intent is read again, and the name is absent and that is durable.
Vanish(p) ==
  /\ pc[p] = "vanish"
  /\ \/ disk.erasing = named[p] /\ disk.root = "none" /\ SyncStep(p, "look")
     \/ (disk.erasing # named[p] \/ disk.root # "none") /\ End(p, "stopped")

LookAgain(p) ==
  /\ pc[p] = "look"
  /\ \/ disk.root = "none" /\ Step(p, "unmark")
     \/ disk.root # "none" /\ End(p, "stopped")

\* The last marker goes, if it is still the object that was read.
Unmark(p) ==
  /\ pc[p] = "unmark"
  /\ \/ disk.erasing = named[p] /\ Tomb(p, "report", [disk EXCEPT !.erasing = 0])
     \/ disk.erasing # named[p] /\ End(p, "stopped")

\* Mutant of ReportForgotten: the last removal is not synced.
ReportForgottenUnsynced(p) == pc[p] = "report" /\ End(p, "forgotten")

ReportForgotten(p) == pc[p] = "report" /\ Sync /\ Return(p, "forgotten")

-----------------------------------------------------------------------------
Retaining(p) ==
  \/ StageTomb(p) \/ FillTomb(p) \/ CommitTomb(p) \/ ConfirmTomb(p)
  \/ StartPrune(p) \/ PruneOpens(p) \/ PruneLoads(p) \/ Strip(p)
  \/ StartForget(p) \/ ForgetOpens(p) \/ EraseOpens(p) \/ Erase(p)
  \/ Vanish(p) \/ LookAgain(p) \/ Unmark(p) \/ ReportForgotten(p)

Naming(p) == ForgetReads(p) \/ ForgetLoads(p)

\* What an ended invocation read is gone; durable completions are remembered.
AdoptedNow == {g \in Incarnations : \A j \in surviving : j.gen = g /\ j.done # 0}
History == adopted' = adopted \cup AdoptedNow
Remember == History /\ named' = [p \in Proc |-> IF pc'[p] = "idle" THEN 0 ELSE named[p]]

RetentionNext ==
  \/ \E p \in Proc : Naming(p) /\ History /\ UNCHANGED clientVars
  \/ \E p \in Proc : Retaining(p) /\ Remember /\ UNCHANGED clientVars
  \/ \E p \in Proc : Adopting(p) /\ Remember
  \/ \E p \in Proc : Abort(p) /\ Remember
  \/ \E i \in Attempts : (ClientAccepts(i) \/ ClientRefuses(i) \/ LoseRequest(i)) /\ Remember
  \/ OthersChangeJob /\ Remember
  \/ PowerLoss /\ Remember

RetentionSpec == RetentionInit /\ [][RetentionNext]_retentionVars

-----------------------------------------------------------------------------
(* Properties.                                                             *)

\* Once an adoption is durably complete, no image of its directory that a power
\* loss may leave, at any step of any prune or forget, lacks all evidence of
\* it: its completion, the retention intent that copies the chain, or the root
\* forget intent that names it.  Without one, resume would take the directory
\* for an operation that was never initialized and send the add again.
EvidenceOutlivesOperation ==
  \A j \in surviving :
    j.root # "none" /\ j.gen \in adopted =>
      j.done # 0 \/ j.tomb.intent \/ j.erasing = j.gen

\* Wherever prune stops, another prune, or forget after it, can go on: the one
\* state they refuse is a staged marker with incomplete bytes.
OnlyTornTombBlocks ==
  \A j \in surviving :
    j.tomb.dir /\ j.erasing = 0 =>
      \/ Prunable(j) \/ ExactTombstone(j)
      \/ j.tomb.pending # "none" /\ ~j.tomb.whole

\* A completed operation sends no request again before the user has asked, with
\* its own acknowledgement, for its history to be erased.
RetainedNeverPosts == [][Posted /\ disk.gen \in adopted => disk.erasing # 0]_retentionVars

\* A report of `forgotten` is made only of an absence that survives: neither
\* the directory it named nor the root intent that named it can come back.
ForgottenIsDurable ==
  [][\A p \in Proc :
       pc[p] # "idle" /\ pc'[p] = "idle" /\ outcome'[p] = "forgotten" =>
         \A j \in surviving' : j.gen # named[p] /\ j.erasing # named[p]]_retentionVars

\* A durably completed adoption is remembered until its erasure was asked for:
\* every step of prune and forget leaves evidence of it in every image, no
\* invocation that meets that evidence sends its add again, and an erasure that
\* was reported cannot be undone.
CompletionIsRemembered ==
  []EvidenceOutlivesOperation /\ RetainedNeverPosts /\ ForgottenIsDurable
=============================================================================
