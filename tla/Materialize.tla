----------------------------- MODULE Materialize -----------------------------
(***************************************************************************)
(* `ptctl seed materialize run | resume | abandon | status`                *)
(* (internal/materialize): several invocations of one deterministic        *)
(* operation that copies the files of a torrent into a private staging     *)
(* tree, moves the whole tree to its public name without replacing         *)
(* anything, and records every step in a chain of journal events.          *)
(*                                                                         *)
(* The operation keeps four directories under the target root: the root    *)
(* itself (the operation directory and the public name), journal/,         *)
(* scratch/ and stage/.  Each is made durable by a sync of its own, so a   *)
(* power loss may keep any combination of what was not synced.  A rename   *)
(* is atomic, and durable once its destination directory was synced.  An   *)
(* invocation may end at any step (a crash, a timeout, a failed write or   *)
(* sync), and other users of the target root create and remove what has    *)
(* the public name.                                                        *)
(***************************************************************************)
EXTENDS Naturals

CONSTANTS
  Proc,         \* the concurrent invocations
  Nobody,       \* not an invocation
  Files,        \* how many files the manifest has
  MaxScratch    \* limits.MaxScratchEntries

ASSUME NobodyAssumption == Nobody \notin Proc
ASSUME FilesAssumption == Files \in Nat \ {0}
ASSUME ScratchAssumption == MaxScratch \in Nat \ {0}

VARIABLES
  disk,        \* the directories as running processes see them:
               \*   root     no directory; one without its lock file or
               \*            subdirectories (bare); all of them (tree); and
               \*            the published intent (intent)
               \*   log      what the events replay to
               \*   stage    how many files, a prefix of the manifest, have
               \*            their staged name
               \*   scratch  how many scratch objects there are
               \*   final    what has the public name: none, ours or other
  surviving,   \* the contents a power loss may leave
  lock,        \* the invocation that holds the operation lock
  pc,          \* where each invocation is
  mode,        \* its command
  event,       \* the journal event it is writing
  durable,     \* report.Target.DurabilityConfirmed: it saw the final name synced
  outcome,     \* what its last report claims, if anything
  taken        \* history: somebody else removed or replaced what this operation
               \* directory published

diskVars == <<disk, surviving>>
callVars == <<pc, mode, event, durable, outcome>>
vars == <<diskVars, lock, callVars, taken>>

Unpublished == {"journaled", "stage_created", "file_staged", "stage_verified"}
Publishing == {"publish_intent", "published", "final_verified", "committed"}
Phases == {"none", "abandoned"} \cup Unpublished \cup Publishing
Terminal == {"committed", "abandoned"}
NeedSource == {"journaled", "stage_created", "file_staged"}

\* What the events of a journal replay to: the last phase, and how many files
\* of the manifest, a prefix of it, have their file_staged event.
Logs == [phase : Phases, staged : 0..Files]
NoLog == [phase |-> "none", staged |-> 0]

Modes == {"run", "resume", "abandon", "status"}

Unlocked == {"idle", "check", "mkdir", "tree", "open"}
Holding == {"intent", "reserve", "commit", "confirm", "reconfirm", "source", "advance",
            "files", "copy", "place", "placed", "rename", "renamed", "clean"}

-----------------------------------------------------------------------------
(* The directories.                                                        *)

\* The operation directory comes and goes with its identity, and what an
\* earlier one published is not this operation's.
Renewed(j) ==
  [j EXCEPT !.gen = disk.gen,
            !.final = IF j.final = "ours" /\ j.gen # disk.gen THEN "other" ELSE j.final]

Current(j, parts) == IF "root" \in parts THEN Renewed(j) ELSE j

\* One directory changes: with or without everything else that is not synced.
Put(part, value) ==
  /\ disk' = [disk EXCEPT ![part] = value]
  /\ surviving' = surviving \cup {[Current(j, {part}) EXCEPT ![part] = value] : j \in surviving}

\* A rename takes an object from one directory to another.
Move(from, left, to, value) ==
  /\ disk' = [disk EXCEPT ![from] = left, ![to] = value]
  /\ surviving' = surviving \cup {[j EXCEPT ![from] = left, ![to] = value] : j \in surviving}

Synced(j, parts) ==
  LET current == Current(j, parts)
  IN [part \in DOMAIN j |-> IF part \in parts THEN disk[part] ELSE current[part]]

\* The directories are synced, and with each the renames into it.
Sync(parts) == disk' = disk /\ surviving' = {Synced(j, parts) : j \in surviving}

\* The target root holds the operation directory, the public name and, once
\* MaterializeRetention adds it, the intent of a forget.
SyncRoot == Sync({"root", "final", "erasing", "stage"})
SyncJournal == Sync({"log", "scratch"})
SyncStage == Sync({"stage", "scratch"})

\* A change that its call makes durable before it returns.
PutDurably(part, value) ==
  /\ disk' = [disk EXCEPT ![part] = value]
  /\ surviving' = {[Synced(j, {part}) EXCEPT ![part] = value] : j \in surviving}

-----------------------------------------------------------------------------
(* An invocation.                                                          *)

Goto(p, step) == pc' = [pc EXCEPT ![p] = step] /\ UNCHANGED <<mode, outcome>>

Return(p, o) ==
  /\ pc' = [pc EXCEPT ![p] = "idle"]
  /\ mode' = [mode EXCEPT ![p] = "status"]
  /\ event' = [event EXCEPT ![p] = NoLog]
  /\ durable' = [durable EXCEPT ![p] = FALSE]
  /\ outcome' = [outcome EXCEPT ![p] = o]
  /\ lock' = IF lock = p THEN Nobody ELSE lock

\* journal.append: the next event of the chain.
Append(p, phase, staged) ==
  /\ event' = [event EXCEPT ![p] = [phase |-> phase, staged |-> staged]]
  /\ Goto(p, "reserve")

At(p, step, phases) == pc[p] = step /\ disk.log.phase \in phases

Start(p) ==
  /\ pc[p] = "idle"
  /\ \E m \in Modes :
       /\ mode' = [mode EXCEPT ![p] = m]
       /\ pc' = [pc EXCEPT ![p] = IF m = "run" THEN "check" ELSE "open"]
  /\ outcome' = [outcome EXCEPT ![p] = "none"]
  /\ UNCHANGED <<diskVars, lock, event, durable, taken>>

-----------------------------------------------------------------------------
(* Run up to its journal: the public name must be free.                    *)

CheckFinal(p) ==
  /\ pc[p] = "check"
  /\ \/ disk.final = "none" /\ Goto(p, "mkdir") /\ UNCHANGED <<lock, event, durable>>
     \/ disk.final # "none" /\ Return(p, "none")
  /\ UNCHANGED <<diskVars, taken>>

\* createJournal: an operation directory that exists is an error of Run.
MakeRoot(p) ==
  /\ pc[p] = "mkdir"
  /\ \/ disk.root = "none" /\ Put("root", "bare") /\ Goto(p, "tree")
        /\ UNCHANGED <<lock, event, durable>>
     \/ disk.root # "none" /\ Return(p, "none") /\ UNCHANGED diskVars
  /\ UNCHANGED taken

MakeTree(p) ==
  /\ pc[p] = "tree"
  /\ PutDurably("root", "tree")
  /\ lock' = p
  /\ Goto(p, "intent")
  /\ UNCHANGED <<event, durable, taken>>

\* The intent goes through a scratch object and a rename of its own.
WriteIntent(p) ==
  /\ pc[p] = "intent" /\ disk.root = "tree"
  /\ PutDurably("root", "intent")
  /\ Append(p, "journaled", 0)
  /\ UNCHANGED <<lock, durable, taken>>

-----------------------------------------------------------------------------
(* commitBytes: a scratch object, a rename without replacement, a sync.    *)

ScratchLeft == disk.scratch < MaxScratch

ReserveEvent(p) ==
  /\ pc[p] = "reserve" /\ ScratchLeft
  /\ Put("scratch", disk.scratch + 1)
  /\ Goto(p, "commit")
  /\ UNCHANGED <<lock, event, durable, taken>>

CommitEvent(p) ==
  /\ pc[p] = "commit"
  /\ Move("scratch", disk.scratch - 1, "log", event[p])
  /\ Goto(p, "confirm")
  /\ UNCHANGED <<lock, event, durable, taken>>

\* Where an invocation goes on once its event is durable.
Continue(p) ==
  CASE disk.log.phase \notin Terminal \cup {"file_staged"} -> Goto(p, "advance")
         /\ UNCHANGED <<lock, event, durable>>
    [] disk.log.phase = "file_staged" -> Goto(p, "files") /\ UNCHANGED <<lock, event, durable>>
    [] disk.log.phase \in Terminal -> Return(p, disk.log.phase)

\* Mutant of ConfirmEvent: the journal directory is not synced.
ConfirmEventUnsynced(p) ==
  /\ pc[p] = "confirm"
  /\ UNCHANGED diskVars
  /\ Continue(p)
  /\ UNCHANGED taken

ConfirmEvent(p) ==
  /\ pc[p] = "confirm"
  /\ SyncJournal
  /\ Continue(p)
  /\ UNCHANGED taken

-----------------------------------------------------------------------------
(* Resume, Abandon and Status: openJournal, and what they do first.        *)

\* openJournal, once the lock is free: a complete tree whose events replay.
Readable == disk.root = "intent" /\ disk.log.phase # "none"

\* Mutant of Admitted: abandon is refused only after the publication.
AdmittedLate(m) ==
  CASE m = "resume" -> disk.log.phase \in Terminal \/ ScratchLeft
    [] m = "abandon" -> disk.log.phase \in Unpublished \cup {"publish_intent"} /\ ScratchLeft
    [] OTHER -> FALSE

\* The conditions under which the command goes beyond reading.
Admitted(m) ==
  CASE m = "resume" -> disk.log.phase \in Terminal \/ ScratchLeft
    [] m = "abandon" -> disk.log.phase \in Unpublished /\ ScratchLeft
    [] OTHER -> FALSE

\* Mutant of Open: the operation lock is not taken.
OpenUnlocked(p) ==
  /\ pc[p] = "open"
  /\ IF Readable /\ Admitted(mode[p]) /\ disk.log.phase # "abandoned"
     THEN Goto(p, "reconfirm") /\ UNCHANGED <<lock, event, durable>>
     ELSE Return(p, "none")
  /\ UNCHANGED <<diskVars, taken>>

Open(p) ==
  /\ pc[p] = "open"
  /\ \/ /\ lock = Nobody /\ Readable /\ Admitted(mode[p])
        /\ disk.log.phase # "abandoned"
        /\ lock' = p /\ Goto(p, "reconfirm") /\ UNCHANGED <<event, durable>>
     \/ /\ lock = Nobody /\ Readable /\ disk.log.phase = "abandoned"
        /\ Return(p, "none")
     \/ /\ \/ lock # Nobody
           \/ ~Readable
           \/ ~Admitted(mode[p]) /\ disk.log.phase # "abandoned"
        /\ Return(p, "none")
  /\ UNCHANGED <<diskVars, taken>>

\* Mutant of Reconfirm: the replayed journal is trusted as it is seen.
ReconfirmNothing(p) ==
  /\ pc[p] = "reconfirm"
  /\ UNCHANGED diskVars
  /\ IF mode[p] = "abandon" THEN Append(p, "abandoned", disk.log.staged) /\ UNCHANGED <<lock, durable>>
     ELSE Goto(p, "source") /\ UNCHANGED <<lock, event, durable>>
  /\ UNCHANGED taken

\* confirmReplayDurability: what was replayed is synced before it is acted on.
Reconfirm(p) ==
  /\ pc[p] = "reconfirm"
  /\ SyncJournal
  /\ IF mode[p] = "abandon" THEN Append(p, "abandoned", disk.log.staged) /\ UNCHANGED <<lock, durable>>
     ELSE Goto(p, "source") /\ UNCHANGED <<lock, event, durable>>
  /\ UNCHANGED taken

\* Before stage verification a resume needs a source verified afresh.
FindSource(p) ==
  /\ pc[p] = "source"
  /\ \/ Goto(p, "advance") /\ UNCHANGED <<lock, event, durable>>
     \/ disk.log.phase \in NeedSource /\ Return(p, "none")
  /\ UNCHANGED <<diskVars, taken>>

\* A committed operation is confirmed and verified again, and reported.
ConfirmCommitted(p) ==
  /\ At(p, "advance", {"committed"})
  /\ \/ disk.final = "ours" /\ SyncRoot /\ Return(p, "already")
     \/ disk.final # "ours" /\ Return(p, "none") /\ UNCHANGED diskVars
  /\ UNCHANGED taken

-----------------------------------------------------------------------------
(* continueRun: staging.                                                   *)

\* The refusals that no state reaches are plain guards
\* here (Backed in MaterializeRetention says why).
BeginStage(p) ==
  /\ At(p, "advance", {"journaled"}) /\ disk.stage = 0
  /\ Append(p, "stage_created", 0)
  /\ UNCHANGED <<diskVars, lock, durable, taken>>

\* Mutant of PrepareStage: the staging directories are not synced again.
PrepareStageUnsynced(p) ==
  /\ At(p, "advance", {"stage_created", "file_staged"}) /\ disk.stage >= disk.log.staged
  /\ Goto(p, "files")
  /\ UNCHANGED <<diskVars, lock, event, durable, taken>>

\* verifyRecordedStagedFile of every recorded file; ensureStageDirectories.
PrepareStage(p) ==
  /\ At(p, "advance", {"stage_created", "file_staged"}) /\ disk.stage >= disk.log.staged
  /\ SyncStage
  /\ Goto(p, "files")
  /\ UNCHANGED <<lock, event, durable, taken>>

\* A file that has its staged name already is compared and recorded.
FindStaged(p) ==
  /\ pc[p] = "files" /\ disk.log.staged < Files
  /\ \/ disk.stage > disk.log.staged /\ Append(p, "file_staged", disk.log.staged + 1)
     \/ disk.stage <= disk.log.staged /\ Goto(p, "copy") /\ UNCHANGED event
  /\ UNCHANGED <<diskVars, lock, durable, taken>>

\* Retained scratch counts by its bytes too, and may leave too few for a copy.
CopyFile(p) ==
  /\ pc[p] = "copy"
  /\ \/ ScratchLeft /\ Put("scratch", disk.scratch + 1) /\ Goto(p, "place")
        /\ UNCHANGED <<lock, event, durable>>
     \/ disk.scratch > 0 /\ Return(p, "none") /\ UNCHANGED diskVars
  /\ UNCHANGED taken

\* The whole copy gets its staged name, or a failed copy is discarded.
PlaceFile(p) ==
  /\ pc[p] = "place"
  /\ \/ Move("scratch", disk.scratch - 1, "stage", disk.log.staged + 1) /\ Goto(p, "placed")
        /\ UNCHANGED <<lock, event, durable>>
     \/ PutDurably("scratch", disk.scratch - 1) /\ Return(p, "none")
  /\ UNCHANGED taken

ConfirmFile(p) ==
  /\ pc[p] = "placed"
  /\ SyncStage
  /\ Append(p, "file_staged", disk.log.staged + 1)
  /\ UNCHANGED <<lock, durable, taken>>

\* verifyStagedLayout: the staging tree is exactly the whole manifest.
WholeStage == disk.stage = Files

VerifyStage(p) ==
  /\ pc[p] = "files" /\ disk.log.staged = Files /\ WholeStage
  /\ Append(p, "stage_verified", Files)
  /\ UNCHANGED <<diskVars, lock, durable, taken>>

-----------------------------------------------------------------------------
(* continueRun: publication.                                               *)

IntendPublication(p) ==
  /\ At(p, "advance", {"stage_verified"}) /\ WholeStage
  /\ \/ disk.final = "none" /\ Append(p, "publish_intent", Files) /\ UNCHANGED <<lock, durable>>
     \/ disk.final # "none" /\ Return(p, "none")
  /\ UNCHANGED <<diskVars, taken>>

\* publishOrRecover, when the public name is taken: by the staged tree of an
\* earlier invocation, which is synced and recorded, or by something else.
RecoverPublication(p) ==
  /\ At(p, "advance", {"publish_intent"})
  /\ \/ /\ disk.final = "ours" /\ disk.stage = 0
        /\ SyncRoot /\ Append(p, "published", Files)
        /\ durable' = [durable EXCEPT ![p] = TRUE] /\ UNCHANGED lock
     \/ disk.final = "other" /\ Return(p, "none") /\ UNCHANGED diskVars
  /\ UNCHANGED taken

\* Otherwise the staged tree is verified once more ...
VerifyBeforeRename(p) ==
  /\ At(p, "advance", {"publish_intent"}) /\ disk.final = "none"
  /\ \/ WholeStage /\ Goto(p, "rename") /\ UNCHANGED <<lock, event, durable>>
     \/ ~WholeStage /\ Return(p, "none")
  /\ UNCHANGED <<diskVars, taken>>

\* Mutant of Rename: an ordinary rename, after a check of the name.
RenameReplacing(p) ==
  /\ pc[p] = "rename"
  /\ Move("stage", 0, "final", "ours") /\ Goto(p, "renamed")
  /\ UNCHANGED <<lock, event, durable, taken>>

\* ... and renamed, unless the name was taken in between.
Rename(p) ==
  /\ pc[p] = "rename"
  /\ \/ disk.final = "none" /\ Move("stage", 0, "final", "ours") /\ Goto(p, "renamed")
        /\ UNCHANGED <<lock, event, durable>>
     \/ disk.final # "none" /\ Return(p, "none") /\ UNCHANGED diskVars
  /\ UNCHANGED taken

ConfirmRename(p) ==
  /\ pc[p] = "renamed"
  /\ \/ disk.final = "ours" /\ SyncRoot /\ Append(p, "published", Files)
        /\ durable' = [durable EXCEPT ![p] = TRUE] /\ UNCHANGED lock
     \/ disk.final # "ours" /\ Return(p, "none") /\ UNCHANGED diskVars
  /\ UNCHANGED taken

\* confirmJournaledFinal: this invocation has not seen the name synced.
ConfirmFinal(p) ==
  /\ At(p, "advance", {"published", "final_verified"}) /\ ~durable[p]
  /\ \/ disk.final = "ours" /\ SyncRoot /\ Goto(p, "advance")
        /\ durable' = [durable EXCEPT ![p] = TRUE] /\ UNCHANGED <<lock, event>>
     \/ disk.final # "ours" /\ Return(p, "none") /\ UNCHANGED diskVars
  /\ UNCHANGED taken

\* verifyFinalLayout, after the publication and again before the commit.
VerifyFinal(p) ==
  /\ At(p, "advance", {"published", "final_verified"}) /\ durable[p]
  /\ \/ /\ disk.final = "ours" /\ disk.log.phase = "published"
        /\ Append(p, "final_verified", Files) /\ UNCHANGED <<lock, durable>>
     \/ /\ disk.final = "ours" /\ disk.log.phase = "final_verified"
        /\ Goto(p, "clean") /\ UNCHANGED <<lock, event, durable>>
     \/ disk.final # "ours" /\ Return(p, "none")
  /\ UNCHANGED <<diskVars, taken>>

\* Mutant of Clean: only what this invocation left is removed.
CleanNothing(p) ==
  /\ pc[p] = "clean"
  /\ Append(p, "committed", Files)
  /\ UNCHANGED <<diskVars, lock, durable, taken>>

\* removeRetainedScratch: one object at a time, then the last event.
Clean(p) ==
  /\ pc[p] = "clean"
  /\ \/ disk.scratch > 0 /\ PutDurably("scratch", disk.scratch - 1)
        /\ Goto(p, "clean") /\ UNCHANGED event
     \/ disk.scratch = 0 /\ Append(p, "committed", Files) /\ UNCHANGED diskVars
  /\ UNCHANGED <<lock, durable, taken>>

-----------------------------------------------------------------------------
(* What may go wrong around an invocation.                                 *)

\* It ends before its next step: killed, timed out, or a call failed.
Crash(p) ==
  /\ pc[p] # "idle"
  /\ Return(p, "none")
  /\ UNCHANGED <<diskVars, taken>>

PowerLoss ==
  /\ disk' \in surviving /\ surviving' = {disk'}
  /\ lock' = Nobody
  /\ pc' = [p \in Proc |-> "idle"]
  /\ mode' = [p \in Proc |-> "status"]
  /\ event' = [p \in Proc |-> NoLog]
  /\ durable' = [p \in Proc |-> FALSE]
  /\ outcome' = [p \in Proc |-> "none"]
  /\ UNCHANGED taken

\* Somebody else creates, or removes, what has the public name.
Occupy ==
  /\ disk.final = "none"
  /\ Put("final", "other")
  /\ UNCHANGED <<lock, callVars, taken>>

Vacate ==
  /\ disk.final # "none"
  /\ Put("final", "none")
  /\ taken' = (taken \/ disk.final = "ours")
  /\ UNCHANGED <<lock, callVars>>
===============================================================================
