----------------------------- MODULE SourceRetire -----------------------------
(***************************************************************************)
(* `ptctl seed retire run | resume` and `ptctl seed retire parent-cleanup  *)
(* run | resume` (internal/sourceretire): several invocations of one       *)
(* operation that removes reviewed names one after the other, the source   *)
(* files of a seeding torrent or the empty directories they leave behind,  *)
(* and records an attempt before and a deletion after each of them.        *)
(*                                                                         *)
(* The operation directory holds the markers and one scratch object; each  *)
(* name has a parent directory of its own.  A directory is durable once it *)
(* was synced, and a rename once its destination was; before that a power  *)
(* loss may keep any combination.  Other users change the names too.  An   *)
(* invocation may end before any step: it was killed, it timed out, a call *)
(* failed, or what it read refuses the step.                               *)
(*                                                                         *)
(* SourceRetireRetention adds prune and forget, the initial state, the     *)
(* next-state relation and the properties.                                 *)
(***************************************************************************)
EXTENDS Naturals

CONSTANTS
  Proc,     \* the concurrent invocations
  Nobody,   \* not an invocation
  Files,    \* how many names the plan removes
  MaxChanges  \* bounds the changes others make to the reviewed names

ASSUME NobodyAssumption == Nobody \notin Proc
ASSUME FilesAssumption == Files \in Nat \ {0}
ASSUME MaxChangesAssumption == MaxChanges \in Nat

VARIABLES
  kind,        \* what is removed
  disk,        \* the directories as running processes see them
  surviving,   \* the contents a power loss may leave
  lock,        \* the invocation that holds the operation lock
  pc,          \* where each invocation is
  mark,        \* the marker it is writing, or wrote last
  trusts,      \* history: it replayed markers that were not durable
  outcome,     \* the success its last report claimed
  reused,      \* history: somebody built on such markers
  changes      \* history: how often somebody else changed a reviewed name

diskVars == <<disk, surviving>>
callVars == <<pc, mark, trusts, outcome>>
vars == <<kind, diskVars, lock, callVars, reused, changes>>

Kinds == {"sources", "parents"}

\* The markers after the intent; a deletion says whether it was seen to succeed.
Markers == [dest : {"none", "attempt", "complete"}, says : {"-"}]
           \cup [dest : {"deleted"}, says : {"confirmed", "recovered"}]
NoMarker == [dest |-> "none", says |-> "-"]
Attempt == [dest |-> "attempt", says |-> "-"]
Deleted(basis) == [dest |-> "deleted", says |-> basis]
Complete == [dest |-> "complete", says |-> "-"]

\* The one scratch object: its name holds the digest of the whole marker.
Scratch == [marker : Markers, fill : {"empty", "part", "whole"}]
NoScratch == [marker |-> NoMarker, fill |-> "whole"]

\* How many names have their attempt and their deletion marker, in order.
Logs == [attempted : 0..Files, deleted : 0..Files, done : BOOLEAN]

\* A name: nothing, the reviewed object, the reviewed directory with something
\* in it, or another object.
Names == {"none", "ours", "filled", "other"}

\* What a journal directory without markers holds.
NoLog == [attempted |-> 0, deleted |-> 0, done |-> FALSE]

Unlocked == {"idle", "review", "control", "init", "open"}
Holding == {"tree", "intent", "confirm", "bind", "pass", "next", "unlink", "unlinked",
            "recover", "stage", "fill", "rename"}

-----------------------------------------------------------------------------
(* The directories.                                                        *)

\* The operation's directories change: with or without what is not synced.
Put(part, value) ==
  /\ disk' = [disk EXCEPT ![part] = value]
  /\ surviving' = surviving \cup {[j EXCEPT ![part] = value] : j \in surviving}

PutName(i, value) ==
  /\ disk' = [disk EXCEPT !.name[i] = value]
  /\ surviving' = surviving \cup {[j EXCEPT !.name[i] = value] : j \in surviving}

PutDurably(part, value) ==
  /\ disk' = [disk EXCEPT ![part] = value]
  /\ surviving' = {[j EXCEPT ![part] = value] : j \in surviving}

\* The directories of these parts are synced.
Sync(parts) ==
  /\ surviving' = {[part \in DOMAIN j |-> IF part \in parts THEN disk[part] ELSE j[part]]
                    : j \in surviving}
  /\ UNCHANGED disk

\* confirmControlDurability: the journal directory and the operation directory.
SyncJournal == Sync({"root", "log", "pending"})

SyncName(i) ==
  /\ surviving' = {[j EXCEPT !.name[i] = disk.name[i]] : j \in surviving}
  /\ UNCHANGED disk

-----------------------------------------------------------------------------
(* An invocation.                                                          *)

Goto(p, step) == pc' = [pc EXCEPT ![p] = step] /\ UNCHANGED outcome

Write(p, marker) == mark' = [mark EXCEPT ![p] = marker] /\ Goto(p, "stage")

Return(p, o) ==
  /\ pc' = [pc EXCEPT ![p] = "idle"]
  /\ mark' = [mark EXCEPT ![p] = NoMarker]
  /\ trusts' = [trusts EXCEPT ![p] = FALSE]
  /\ outcome' = [outcome EXCEPT ![p] = o]
  /\ lock' = IF lock = p THEN Nobody ELSE lock

Removed == disk.log.deleted
Upcoming == disk.log.deleted + 1
Gone(i) == disk.name[i] = "none"

\* The journal loads: every marker it may hold, in order, after its intent.  A
\* directory that holds retention/ too is not a journal.
Loads(j) ==
  /\ j.root = "intent" /\ j.log.attempted \in j.log.deleted..(j.log.deleted + 1)
  /\ j.log.done => j.log.deleted = Files
Readable == Loads(disk) /\ disk.tomb.marks = "none"

\* Resume opens the journal.  So does the run of parents if there is one; the run
\* of sources asks the command's Status, and reviews again what is unfinished.
Start(p) ==
  /\ pc[p] = "idle"
  /\ \/ pc' = [pc EXCEPT ![p] = "open"]
     \/ /\ disk.root = "none" \/ (kind = "sources" /\ lock = Nobody /\ Readable /\ ~disk.log.done)
        /\ pc' = [pc EXCEPT ![p] = "review"]
  /\ outcome' = [outcome EXCEPT ![p] = "none"]
  /\ UNCHANGED <<kind, diskVars, lock, mark, trusts, reused, changes>>

\* The review of this invocation needs every name as it was.
Review(p) ==
  /\ pc[p] = "review"
  /\ \A i \in 1..Files : disk.name[i] = "ours"
  /\ Goto(p, "control")
  /\ UNCHANGED <<kind, diskVars, lock, mark, trusts, reused, changes>>

\* A lock file to open an operation directory with.
Lockable(j) == j.root \notin {"none", "bare"}

\* applyExecutionForgetControl and applyExecutionRetentionControl, which opens
\* a directory that exists; parents are observed again.
CheckControl(p) ==
  /\ pc[p] = "control"
  /\ disk.erasing = 0
  /\ disk.root = "none" \/ (Lockable(disk) /\ lock = Nobody /\ disk.tomb.marks = "none")
  /\ kind = "parents" => \A i \in 1..Files : disk.name[i] = "ours"
  /\ Goto(p, "init")
  /\ UNCHANGED <<kind, diskVars, lock, mark, trusts, reused, changes>>

-----------------------------------------------------------------------------
(* The journal: initialize and open.                                       *)

\* What is loaded need not be durable: no directory is synced for it.
Trusts(p) == trusts' = [trusts EXCEPT ![p] = \E j \in surviving : j.log # disk.log]

\* CreatePrivateSubtree: the new directory is durable in the target root.
MakeRoot ==
  /\ disk' = [disk EXCEPT !.root = "bare"]
  /\ surviving' = {[disk' EXCEPT !.name = j.name] : j \in surviving}

Initialize(p) ==
  /\ pc[p] = "init" /\ lock = Nobody
  /\ lock' = p
  /\ \/ disk.root = "none" /\ MakeRoot /\ Goto(p, "tree") /\ UNCHANGED trusts
     \/ Lockable(disk) /\ kind = "sources" /\ Goto(p, "tree") /\ UNCHANGED <<diskVars, trusts>>
     \/ kind = "parents" /\ Readable /\ Goto(p, "pass") /\ Trusts(p) /\ UNCHANGED diskVars
  /\ UNCHANGED <<kind, mark, reused, changes>>

\* The journal and scratch directories that are missing are made, whatever
\* else the operation directory holds.
Planted(root) == IF root = "noscratch" THEN "intent" ELSE "tree"

\* The lock file first, if the directory is new.
MakeTree(p) ==
  /\ pc[p] = "tree"
  /\ \/ disk.root = "bare" /\ PutDurably("root", "kept") /\ Goto(p, "tree")
     \/ disk.root \in {"kept", "headless", "noscratch"} /\ PutDurably("root", Planted(disk.root))
        /\ Goto(p, "intent")
     \/ disk.root \in {"tree", "intent"} /\ UNCHANGED diskVars /\ Goto(p, "intent")
  /\ UNCHANGED <<kind, lock, mark, trusts, reused, changes>>

\* The intent is published, or the identical one that exists is confirmed.
WriteIntent(p) ==
  /\ pc[p] = "intent"
  /\ IF disk.root = "tree" THEN Put("root", "intent") ELSE UNCHANGED diskVars
  /\ Goto(p, "confirm")
  /\ UNCHANGED <<kind, lock, mark, trusts, reused, changes>>

\* Mutant of Open: the operation lock is not taken.
OpenUnlocked(p) ==
  /\ pc[p] = "open" /\ Readable
  /\ IF disk.log.done THEN Return(p, "already")
     ELSE Goto(p, "bind") /\ Trusts(p) /\ UNCHANGED <<lock, mark>>
  /\ UNCHANGED <<kind, diskVars, reused, changes>>

\* openExecutionJournal, openParentCleanupJournal.
Open(p) ==
  /\ pc[p] = "open" /\ lock = Nobody /\ Readable
  /\ \/ disk.log.done /\ (\A i \in 1..Files : Gone(i)) /\ Return(p, "already")
     \/ /\ ~disk.log.done
        /\ lock' = p
        /\ Goto(p, IF kind = "sources" THEN "bind" ELSE "pass")
        /\ Trusts(p) /\ UNCHANGED mark
  /\ UNCHANGED <<kind, diskVars, reused, changes>>

\* bindIntentSources: every name is where the markers say it can be.
Bind(p) ==
  /\ pc[p] = "bind"
  /\ \A i \in 1..Files :
       disk.name[i] \in (IF i <= Removed THEN {"none"}
                         ELSE IF i <= disk.log.attempted THEN {"none", "ours"} ELSE {"ours"})
  /\ Goto(p, "pass")
  /\ UNCHANGED <<kind, diskVars, lock, mark, trusts, reused, changes>>

-----------------------------------------------------------------------------
(* continueSourceRetirement, continueParentCleanup: the next name.         *)

\* The names that earlier invocations removed are still gone.
Pass(p) ==
  /\ pc[p] = "pass" /\ ~disk.log.done
  /\ \A i \in 1..Removed : Gone(i)
  /\ Goto(p, "next")
  /\ UNCHANGED <<kind, diskVars, lock, mark, trusts, reused, changes>>

\* Mutant of Present: the name is removed without an attempt.
PresentUnattempted(p) ==
  /\ pc[p] = "next" /\ Removed < Files /\ disk.name[Upcoming] = "ours"
  /\ mark' = [mark EXCEPT ![p] = NoMarker] /\ Goto(p, "unlink")
  /\ UNCHANGED <<kind, diskVars, lock, trusts, reused, changes>>

\* The reviewed object is there (and equals the final): attempt it, or go on
\* with the attempt that exists.
Present(p) ==
  /\ pc[p] = "next" /\ Removed < Files /\ disk.name[Upcoming] = "ours"
  /\ IF disk.log.attempted < Upcoming THEN Write(p, Attempt)
     ELSE mark' = [mark EXCEPT ![p] = NoMarker] /\ Goto(p, "unlink")
  /\ UNCHANGED <<kind, diskVars, lock, trusts, reused, changes>>

\* It is gone after its attempt; before one that is an unexplained loss.
Absent(p) ==
  /\ pc[p] = "next" /\ Removed < Files /\ Gone(Upcoming)
  /\ disk.log.attempted >= Upcoming
  /\ Goto(p, "recover")
  /\ UNCHANGED <<kind, diskVars, lock, mark, trusts, reused, changes>>

\* Mutant of Recover: the absence is recorded as it was observed.
RecoverUnsynced(p) ==
  /\ pc[p] = "recover" /\ Gone(Upcoming)
  /\ Write(p, Deleted("recovered"))
  /\ UNCHANGED <<kind, diskVars, lock, trusts, reused, changes>>

\* The absence is made durable before it is recorded.
Recover(p) ==
  /\ pc[p] = "recover" /\ Gone(Upcoming)
  /\ SyncName(Upcoming)
  /\ Write(p, Deleted("recovered"))
  /\ UNCHANGED <<kind, lock, trusts, reused, changes>>

\* Mutant of Unlink: whatever has the name is removed.
UnlinkAnything(p) ==
  /\ pc[p] = "unlink" /\ ~Gone(Upcoming)
  /\ PutName(Upcoming, "none") /\ Goto(p, "unlinked") /\ reused' = (reused \/ trusts[p])
  /\ UNCHANGED <<kind, lock, mark, trusts, changes>>

\* RemoveRootRegularExact, RemoveRootEmptyDirectoryExact: the identity is read
\* again next to the removal.  A directory that went away while its attempt
\* was written is recovered.
Unlink(p) ==
  /\ pc[p] = "unlink"
  /\ \/ disk.name[Upcoming] = "ours" /\ PutName(Upcoming, "none") /\ Goto(p, "unlinked")
        /\ reused' = (reused \/ trusts[p])
     \/ kind = "parents" /\ mark[p] = Attempt /\ Gone(Upcoming) /\ Goto(p, "recover")
        /\ UNCHANGED <<diskVars, reused>>
  /\ UNCHANGED <<kind, lock, mark, trusts, changes>>

ConfirmUnlink(p) ==
  /\ pc[p] = "unlinked" /\ Gone(Upcoming)
  /\ SyncName(Upcoming)
  /\ Write(p, Deleted("confirmed"))
  /\ UNCHANGED <<kind, lock, trusts, reused, changes>>

\* All names are recorded.  Parents are observed absent once more; sources
\* need the downloader to use the final as before.
Finish(p) ==
  /\ pc[p] = "next" /\ Removed = Files
  /\ kind = "parents" => \A i \in 1..Files : Gone(i)
  /\ Write(p, Complete)
  /\ UNCHANGED <<kind, diskVars, lock, trusts, reused, changes>>

\* A Run that waited found the operation complete.
FindComplete(p) ==
  /\ pc[p] = "pass" /\ disk.log.done /\ \A i \in 1..Files : Gone(i)
  /\ Return(p, "already")
  /\ UNCHANGED <<kind, diskVars, reused, changes>>

-----------------------------------------------------------------------------
(* commitMarker.                                                           *)

\* The scratch of this very marker is used when it is whole and replaced when
\* it is torn; that of any other marker, or an empty one, is refused.
Stage(p) ==
  /\ pc[p] = "stage"
  /\ \/ /\ disk.pending = NoScratch
        /\ Put("pending", [marker |-> mark[p], fill |-> "empty"])
        /\ Goto(p, "fill") /\ reused' = (reused \/ trusts[p])
     \/ /\ disk.pending = [marker |-> mark[p], fill |-> "part"]
        /\ PutDurably("pending", NoScratch) /\ Goto(p, "stage") /\ UNCHANGED reused
     \/ /\ disk.pending = [marker |-> mark[p], fill |-> "whole"]
        /\ Goto(p, "rename") /\ UNCHANGED <<diskVars, reused>>
  /\ UNCHANGED <<kind, lock, mark, trusts, changes>>

Fill(p) ==
  /\ pc[p] = "fill"
  /\ \/ disk.pending.fill = "empty" /\ Put("pending", [disk.pending EXCEPT !.fill = "part"])
        /\ Goto(p, "fill")
     \/ disk.pending.fill = "part" /\ Put("pending", [disk.pending EXCEPT !.fill = "whole"])
        /\ Goto(p, "rename")
  /\ UNCHANGED <<kind, lock, mark, trusts, reused, changes>>

Extended(log, marker) ==
  CASE marker.dest = "attempt" -> [log EXCEPT !.attempted = log.deleted + 1]
    [] marker.dest = "deleted" -> [log EXCEPT !.deleted = log.deleted + 1]
    [] marker.dest = "complete" -> [log EXCEPT !.done = TRUE]

Rename(p) ==
  /\ pc[p] = "rename"
  /\ LET Published(j) == [j EXCEPT !.pending = NoScratch, !.log = Extended(disk.log, mark[p])]
     IN  /\ disk' = Published(disk)
         /\ surviving' = surviving \cup {Published(j) : j \in surviving}
  /\ Goto(p, "confirm")
  /\ UNCHANGED <<kind, lock, mark, trusts, reused, changes>>

\* Where an invocation goes on once its marker is durable.
Continue(p) ==
  IF mark[p] = Complete THEN Return(p, "retired")
  ELSE /\ Goto(p, CASE mark[p] = NoMarker -> "pass" [] mark[p] = Attempt -> "unlink"
                    [] mark[p].dest = "deleted" -> "next")
       /\ trusts' = [trusts EXCEPT ![p] = FALSE] /\ UNCHANGED <<lock, mark>>

\* Mutant of Confirm: the directories are not synced.
ConfirmUnsynced(p) ==
  /\ pc[p] = "confirm"
  /\ Continue(p)
  /\ UNCHANGED <<kind, diskVars, reused, changes>>

Confirm(p) ==
  /\ pc[p] = "confirm"
  /\ SyncJournal
  /\ Continue(p)
  /\ UNCHANGED <<kind, reused, changes>>

-----------------------------------------------------------------------------
(* What may go wrong around an invocation.                                 *)

\* It ends before its next step.
Stop(p) ==
  /\ pc[p] # "idle"
  /\ Return(p, "none")
  /\ UNCHANGED <<kind, diskVars, reused, changes>>

PowerLoss ==
  /\ disk' \in surviving /\ surviving' = {disk'}
  /\ lock' = Nobody
  /\ pc' = [p \in Proc |-> "idle"]
  /\ mark' = [p \in Proc |-> NoMarker]
  /\ trusts' = [p \in Proc |-> FALSE]
  /\ outcome' = [p \in Proc |-> "none"]
  /\ UNCHANGED <<kind, reused, changes>>

\* Somebody else removes or replaces a name, or what replaced it; or puts
\* something into a directory and takes it out again.
Changes == {<<"ours", "none">>, <<"ours", "other">>, <<"other", "none">>, <<"none", "other">>}
           \cup IF kind = "parents" THEN {<<"ours", "filled">>, <<"filled", "ours">>} ELSE {}

Interfere ==
  /\ changes < MaxChanges
  /\ \E i \in 1..Files, to \in Names : <<disk.name[i], to>> \in Changes /\ PutName(i, to)
  /\ changes' = changes + 1
  /\ UNCHANGED <<kind, lock, callVars, reused>>

-----------------------------------------------------------------------------

Retiring(p) ==
  \/ Review(p) \/ CheckControl(p) \/ Initialize(p) \/ MakeTree(p)
  \/ WriteIntent(p) \/ Open(p)
  \/ Bind(p) \/ Pass(p) \/ Present(p) \/ Absent(p) \/ Recover(p) \/ Unlink(p) \/ ConfirmUnlink(p)
  \/ Finish(p) \/ FindComplete(p)
  \/ Stage(p) \/ Fill(p) \/ Rename(p) \/ Confirm(p)
===============================================================================
