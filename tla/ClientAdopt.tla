----------------------------- MODULE ClientAdopt -----------------------------
(***************************************************************************)
(* `ptctl client adopt run | resume | status` (internal/clientadopt):      *)
(* several invocations of one deterministic adoption operation, the        *)
(* journal they share under the target root, and the downloader the stopped *)
(* add is sent to.                                                         *)
(*                                                                         *)
(* Invocations are separate processes.  Only the operation lock orders     *)
(* them: Run reads the downloader before it owns the lock, Resume after.   *)
(* An invocation may end at any step (an I/O error, a cancelled context, a *)
(* killed process) and the machine may lose power; then the journal is any *)
(* of the images the file system may have kept.  The add request may be    *)
(* refused, lost, answered late or executed after the sender gave up, and  *)
(* other users of the downloader add, remove, start and stop jobs at will. *)
(***************************************************************************)
EXTENDS AdoptJournal, FiniteSets

CONSTANTS
  Proc,        \* the concurrent invocations
  Nobody       \* not an invocation

ASSUME NobodyAssumption == Nobody \notin Proc

VARIABLES
  disk,        \* the journal as running processes see it
  surviving,   \* the journals a power loss may leave; a sync makes it {disk}
  lock,        \* the invocation that holds the operation lock
  pc,          \* where each invocation is
  opts,        \* its mode and acknowledgements
  known,       \* how many attempts it loaded (handle.state.Attempts)
  marker,      \* the marker it is writing, and what follows
  reply,       \* the downloader's answer to its add
  outcome,     \* what its last report said
  job,         \* the exact job in the downloader, if any
  wire,        \* add requests sent and not yet handled by the downloader
  posts,       \* history: how many add requests each attempt sent
  confirmed    \* history: attempts whose accepted answer reached the sender

callVars == <<pc, opts, known, marker, reply, outcome>>
clientVars == <<job, wire, posts, confirmed>>
diskVars == <<disk, surviving, lock>>
vars == <<diskVars, callVars, clientVars>>

\* A job is remembered by the attempt that made it (0: somebody else) and by
\* whether it is stopped, of the expected size and at the expected paths.
NoJob == [origin |-> 0, fit |-> FALSE, present |-> FALSE]
Jobs == [origin : AttemptCounts, fit : BOOLEAN, present : {TRUE}] \cup {NoJob}

Modes == {"run", "resume", "status"}
Options == [mode : Modes, repeat : BOOLEAN, ack : BOOLEAN]
NoOptions == [mode |-> "status", repeat |-> FALSE, ack |-> FALSE]

Continuations == {"act", "load", "send", "bracket", "adopted"}
Markers == [dest : Destinations, seq : AttemptCounts, then : Continuations]
NoMarker == [dest |-> "intent", seq |-> 0, then |-> "act"]

Replies == {"none", "accepted", "exists", "rejected", "lost"}
Outcomes == {"none", "adopted", "unknown", "stopped"}

\* Where an invocation holds the lock, and where it does not.
Unlocked == {"idle", "survey", "mkdir", "newlock", "open"}
Holding == {"scratch", "load", "ledger", "act", "stage", "fill", "commit", "confirm",
            "send", "await", "bracket", "seal"}

TypeOK ==
  /\ disk \in Journals /\ disk \in surviving /\ surviving \subseteq Journals
  /\ lock \in Proc \cup {Nobody}
  /\ pc \in [Proc -> Unlocked \cup Holding]
  /\ opts \in [Proc -> Options]
  /\ known \in [Proc -> AttemptCounts]
  /\ marker \in [Proc -> Markers]
  /\ reply \in [Proc -> Replies]
  /\ outcome \in [Proc -> Outcomes]
  /\ job \in Jobs
  /\ wire \subseteq Attempts
  /\ posts \in [Attempts -> Nat]
  /\ confirmed \subseteq Attempts

NothingRuns ==
  /\ lock = Nobody
  /\ pc = [p \in Proc |-> "idle"]
  /\ opts = [p \in Proc |-> NoOptions]
  /\ known = [p \in Proc |-> 0]
  /\ marker = [p \in Proc |-> NoMarker]
  /\ reply = [p \in Proc |-> "none"]
  /\ outcome = [p \in Proc |-> "none"]

NothingSent ==
  /\ job = NoJob
  /\ wire = {}
  /\ posts = [i \in Attempts |-> 0]
  /\ confirmed = {}

Init ==
  /\ \E plan \in Plans : disk = NoJournal(plan) /\ surviving = {NoJournal(plan)}
  /\ NothingRuns /\ NothingSent

-----------------------------------------------------------------------------
(* The disk.                                                               *)

Write(d) == disk' = d /\ surviving' = surviving \cup {d}
SyncThenWrite(d) == disk' = d /\ surviving' = {disk, d}
Sync == disk' = disk /\ surviving' = {disk}

\* The end of an invocation: its handle is closed and its lock released.
Return(p, o) ==
  /\ pc' = [pc EXCEPT ![p] = "idle"]
  /\ opts' = [opts EXCEPT ![p] = NoOptions]
  /\ known' = [known EXCEPT ![p] = 0]
  /\ marker' = [marker EXCEPT ![p] = NoMarker]
  /\ reply' = [reply EXCEPT ![p] = "none"]
  /\ outcome' = [outcome EXCEPT ![p] = o]
  /\ lock' = IF lock = p THEN Nobody ELSE lock

Goto(p, step) ==
  /\ pc' = [pc EXCEPT ![p] = step]
  /\ UNCHANGED <<opts, known, reply, outcome>>

\* Start writing a marker, then continue at `then`.
WriteMarker(p, dest, seq, then, step) ==
  /\ marker' = [marker EXCEPT ![p] = [dest |-> dest, seq |-> seq, then |-> then]]
  /\ Goto(p, step)

ExactJob == job.present
FitJob == job.present /\ job.fit
IsAdd == disk.plan.action = "add_stopped"
Driver == disk.plan.driver

-----------------------------------------------------------------------------
(* Run: survey the downloader, then create the journal.                    *)

Start(p, o, step) ==
  /\ pc[p] = "idle"
  /\ pc' = [pc EXCEPT ![p] = step]
  /\ opts' = [opts EXCEPT ![p] = o]
  /\ outcome' = [outcome EXCEPT ![p] = "none"]
  /\ UNCHANGED <<diskVars, known, marker, reply, clientVars>>

StartRun(p) == Start(p, [mode |-> "run", repeat |-> FALSE, ack |-> TRUE], "survey")

\* The target must be absent for an add, present and fit for an observation.
RunGate == IF IsAdd THEN ~ExactJob ELSE FitJob

RunSurveys(p) ==
  /\ pc[p] = "survey"
  /\ \/ RunGate /\ Goto(p, "mkdir") /\ UNCHANGED <<lock, marker>>
     \/ ~RunGate /\ Return(p, "stopped")
  /\ UNCHANGED <<disk, surviving, clientVars>>

\* The exclusive mkdir decides between concurrent Runs.
MakeRoot(p) ==
  /\ pc[p] = "mkdir"
  /\ \/ /\ disk.root = "none"
        /\ Write([disk EXCEPT !.root = "bare"])
        /\ Goto(p, "newlock") /\ UNCHANGED <<lock, marker>>
     \/ /\ disk.root # "none"
        /\ Return(p, "stopped") /\ UNCHANGED <<disk, surviving>>
  /\ UNCHANGED clientVars

MakeLock(p) ==
  /\ pc[p] = "newlock"
  /\ SyncThenWrite([disk EXCEPT !.root = "locked"])
  /\ lock' = p
  /\ WriteMarker(p, "intent", 0, "act", "scratch")
  /\ UNCHANGED clientVars

MakeScratch(p) ==
  /\ pc[p] = "scratch"
  /\ Write([disk EXCEPT !.scratch = TRUE])
  /\ Goto(p, "stage")
  /\ UNCHANGED <<lock, marker, clientVars>>

-----------------------------------------------------------------------------
(* writeMarker: stage, fill, rename without replacement, sync.             *)

StageMarker(p) ==
  /\ pc[p] = "stage" /\ disk.pending = NoPending
  /\ SyncThenWrite(Stage(disk, marker[p].dest, marker[p].seq))
  /\ Goto(p, "fill")
  /\ UNCHANGED <<lock, marker, clientVars>>

FillMarker(p) ==
  /\ pc[p] = "fill"
  /\ disk' = Fill(disk)
  /\ surviving' = {Fill(j) : j \in surviving}
  /\ Goto(p, "commit")
  /\ UNCHANGED <<lock, marker, clientVars>>

CommitMarker(p) ==
  /\ pc[p] = "commit" /\ ~Published(disk, marker[p].dest, marker[p].seq)
  /\ Write(Commit(disk))
  /\ Goto(p, "confirm")
  /\ UNCHANGED <<lock, marker, clientVars>>

\* Mutant of ConfirmMarker: the directory is not synced after the rename.
ConfirmMarkerUnsynced(p) ==
  /\ pc[p] = "confirm"
  /\ \/ marker[p].then = "adopted" /\ Return(p, "adopted")
     \/ /\ marker[p].then # "adopted"
        /\ pc' = [pc EXCEPT ![p] = marker[p].then]
        /\ known' = [known EXCEPT ![p] = disk.attempts]
        /\ UNCHANGED <<lock, opts, marker, reply, outcome>>
  /\ UNCHANGED <<disk, surviving, clientVars>>

ConfirmMarker(p) ==
  /\ pc[p] = "confirm"
  /\ Sync
  /\ \/ /\ marker[p].then = "adopted"
        /\ Return(p, "adopted")
     \/ /\ marker[p].then # "adopted"
        /\ pc' = [pc EXCEPT ![p] = marker[p].then]
        /\ known' = [known EXCEPT ![p] = disk.attempts]
        /\ UNCHANGED <<lock, opts, marker, reply, outcome>>
  /\ UNCHANGED clientVars

-----------------------------------------------------------------------------
(* openJournal: find the directory, take its lock, read and recover.       *)

StartResume(p) ==
  \E repeat, ack \in BOOLEAN :
    Start(p, [mode |-> "resume", repeat |-> repeat, ack |-> ack], "open")

StartStatus(p) == Start(p, [NoOptions EXCEPT !.mode = "status"], "open")

\* Mutant of OpenJournal: a held lock is not noticed.
OpenJournalUnlocked(p) ==
  /\ pc[p] = "open"
  /\ \/ /\ disk.root = "locked"
        /\ lock' = p
        /\ Goto(p, "load") /\ UNCHANGED marker
     \/ disk.root # "locked" /\ Return(p, "stopped")
  /\ UNCHANGED <<disk, surviving, clientVars>>

\* A missing directory or lock file fails, and a held lock is not waited for.
OpenJournal(p) ==
  /\ pc[p] = "open"
  /\ \/ /\ disk.root = "locked" /\ lock = Nobody
        /\ lock' = p
        /\ Goto(p, "load") /\ UNCHANGED marker
     \/ /\ disk.root # "locked" \/ lock # Nobody
        /\ Return(p, "stopped")
  /\ UNCHANGED <<disk, surviving, clientVars>>

\* Status reads and reports; an effectful open refuses a journal it cannot read.
LoadEnds(p) ==
  /\ pc[p] = "load"
  /\ opts[p].mode = "status" \/ ~Resumable(disk)
  /\ Return(p, "stopped")
  /\ UNCHANGED <<disk, surviving, clientVars>>

Recovering(p) == pc[p] = "load" /\ opts[p].mode # "status" /\ Resumable(disk)

\* recoverInitialization: the reviewed plan is written again as the intent.
LoadInitializes(p) ==
  /\ Recovering(p) /\ Uninitialized(disk)
  /\ WriteMarker(p, "intent", 0, "load", IF disk.scratch THEN "stage" ELSE "scratch")
  /\ UNCHANGED <<diskVars, clientVars>>

\* recoverPending: a staged intent or completion is published ...
LoadRepublishes(p) ==
  /\ Recovering(p) /\ disk.pending.dest \in {"intent", "complete"}
  /\ WriteMarker(p, disk.pending.dest, disk.pending.seq, "load", "commit")
  /\ UNCHANGED <<diskVars, clientVars>>

\* Mutants of LoadDiscards: a staged completion is discarded too; the staged
\* file is left where it is.
LoadDiscardsCompletion(p) ==
  /\ Recovering(p) /\ disk.pending.dest \in {"attempt", "complete"}
  /\ disk' = Discard(disk) /\ surviving' = {Discard(disk)}
  /\ UNCHANGED <<lock, callVars, clientVars>>

LoadDiscardsNothing(p) ==
  /\ Recovering(p) /\ disk.pending.dest = "attempt"
  /\ UNCHANGED vars

\* ... and a staged attempt is removed: its request was never sent.
LoadDiscards(p) ==
  /\ Recovering(p) /\ disk.pending.dest = "attempt"
  /\ disk' = Discard(disk) /\ surviving' = {Discard(disk)}
  /\ UNCHANGED <<lock, callVars, clientVars>>

\* Mutant of LoadConfirms: the journal is trusted as it is read.
LoadConfirmsUnsynced(p) ==
  /\ Recovering(p) /\ ChainAgrees(disk) /\ disk.pending = NoPending
  /\ pc' = [pc EXCEPT ![p] = "ledger"]
  /\ known' = [known EXCEPT ![p] = disk.attempts]
  /\ UNCHANGED <<diskVars, opts, marker, reply, outcome, clientVars>>

\* confirmDurability: nothing is decided on a marker that could still be lost.
LoadConfirms(p) ==
  /\ Recovering(p) /\ ChainAgrees(disk) /\ disk.pending = NoPending
  /\ Sync
  /\ pc' = [pc EXCEPT ![p] = "ledger"]
  /\ known' = [known EXCEPT ![p] = disk.attempts]
  /\ UNCHANGED <<lock, opts, marker, reply, outcome, clientVars>>

-----------------------------------------------------------------------------
(* Resume: one complete ledger decides what may still be done.             *)

\* Mutant of ResumeSettled: a completed operation whose job is gone is redone.
ResumeSettledRedoes(p) ==
  /\ pc[p] = "ledger" /\ disk.done # 0
  /\ \/ FitJob /\ Return(p, "adopted")
     \/ ~FitJob /\ Goto(p, "act") /\ UNCHANGED <<lock, marker>>
  /\ UNCHANGED <<disk, surviving, clientVars>>

\* A completed operation is only compared with the current job.
ResumeSettled(p) ==
  /\ pc[p] = "ledger" /\ disk.done # 0
  /\ Return(p, IF FitJob THEN "adopted" ELSE "stopped")
  /\ UNCHANGED <<disk, surviving, clientVars>>

ResumeObservation(p) ==
  /\ pc[p] = "ledger" /\ disk.done = 0 /\ ~IsAdd
  /\ \/ FitJob /\ Goto(p, "act") /\ UNCHANGED <<lock, marker>>
     \/ ~FitJob /\ Return(p, "stopped")
  /\ UNCHANGED <<disk, surviving, clientVars>>

\* Mutant of ResumeFindsJob: both drivers attribute on resume.
ResumeAttributesAlways(p) ==
  /\ pc[p] = "ledger" /\ disk.done = 0 /\ IsAdd /\ ExactJob
  /\ \/ known[p] > 0 /\ FitJob /\ Goto(p, "seal") /\ UNCHANGED <<lock, marker>>
     \/ (known[p] = 0 \/ ~FitJob) /\ Return(p, "stopped")
  /\ UNCHANGED <<disk, surviving, clientVars>>

\* The exact job exists: only qBittorrent may attribute it, and only to a
\* recorded attempt.
ResumeFindsJob(p) ==
  /\ pc[p] = "ledger" /\ disk.done = 0 /\ IsAdd /\ ExactJob
  /\ \/ known[p] > 0 /\ Driver = "qbittorrent" /\ FitJob
        /\ Goto(p, "seal") /\ UNCHANGED <<lock, marker>>
     \/ known[p] > 0 /\ Driver = "qbittorrent" /\ ~FitJob /\ Return(p, "stopped")
     \/ known[p] > 0 /\ Driver = "transmission" /\ Return(p, "unknown")
     \/ known[p] = 0 /\ Return(p, "stopped")
  /\ UNCHANGED <<disk, surviving, clientVars>>

\* Mutant of ResumeFindsAbsence: a current absence is taken for a lost request.
ResumeRepeatsSilently(p) ==
  /\ pc[p] = "ledger" /\ disk.done = 0 /\ IsAdd /\ ~ExactJob
  /\ \/ ~opts[p].ack /\ Return(p, "stopped")
     \/ opts[p].ack /\ Goto(p, "act") /\ UNCHANGED <<lock, marker>>
  /\ UNCHANGED <<disk, surviving, clientVars>>

\* The job is absent: an earlier attempt may have run, so another request
\* needs the repeat acknowledgement besides the ordinary one.
ResumeFindsAbsence(p) ==
  /\ pc[p] = "ledger" /\ disk.done = 0 /\ IsAdd /\ ~ExactJob
  /\ \/ known[p] > 0 /\ ~opts[p].repeat /\ Return(p, "unknown")
     \/ (known[p] = 0 \/ opts[p].repeat) /\ ~opts[p].ack /\ Return(p, "stopped")
     \/ (known[p] = 0 \/ opts[p].repeat) /\ opts[p].ack
        /\ Goto(p, "act") /\ UNCHANGED <<lock, marker>>
  /\ UNCHANGED <<disk, surviving, clientVars>>

-----------------------------------------------------------------------------
(* executeAdd and executeExistingObservation.                              *)

\* Mutant of AppendAttempt: the attempt budget is off by one.
AppendAttemptOverBudget(p) ==
  /\ pc[p] = "act"
  /\ \/ /\ known[p] <= MaxAttempts
        /\ WriteMarker(p, "attempt", known[p] + 1, IF IsAdd THEN "send" ELSE "bracket", "stage")
        /\ UNCHANGED lock
     \/ known[p] > MaxAttempts /\ Return(p, "stopped")
  /\ UNCHANGED <<disk, surviving, clientVars>>

\* appendAttempt: record the request intent (or the first observation).
AppendAttempt(p) ==
  /\ pc[p] = "act"
  /\ \/ /\ known[p] < MaxAttempts
        /\ WriteMarker(p, "attempt", known[p] + 1, IF IsAdd THEN "send" ELSE "bracket", "stage")
        /\ UNCHANGED lock
     \/ known[p] = MaxAttempts /\ Return(p, "stopped")
  /\ UNCHANGED <<disk, surviving, clientVars>>

\* AddStopped: at most one request per call.
SendAdd(p) ==
  /\ pc[p] = "send"
  /\ posts' = [posts EXCEPT ![known[p]] = @ + 1]
  /\ wire' = wire \cup {known[p]}
  /\ Goto(p, "await")
  /\ UNCHANGED <<diskVars, marker, job, confirmed>>

LoseReply(p) ==
  /\ pc[p] = "await" /\ reply[p] = "none"
  /\ reply' = [reply EXCEPT ![p] = "lost"]
  /\ UNCHANGED <<diskVars, pc, opts, known, marker, outcome, clientVars>>

\* An answer that says this request did not make the exact job: Transmission's
\* duplicate, and any qBittorrent answer that does not accept the add.
Blocked(answer) ==
  answer = "exists" \/ (answer = "rejected" /\ Driver = "qbittorrent")

\* The second ledger: an accepted answer and one exact job, or no attribution.
RereadLedger(p) ==
  /\ pc[p] = "await" /\ reply[p] # "none"
  /\ \/ reply[p] = "accepted" /\ FitJob
        /\ Goto(p, "seal") /\ UNCHANGED <<lock, marker>>
     \/ reply[p] = "accepted" /\ ExactJob /\ ~FitJob /\ Return(p, "stopped")
     \/ Blocked(reply[p]) /\ ExactJob /\ Return(p, "stopped")
     \/ ((reply[p] \in {"rejected", "lost"} /\ ~Blocked(reply[p])) \/ ~ExactJob)
        /\ Return(p, "unknown")
  /\ UNCHANGED <<disk, surviving, clientVars>>

\* The second observation of an existing job closes the bracket.
CloseBracket(p) ==
  /\ pc[p] = "bracket"
  /\ \/ FitJob /\ Goto(p, "seal") /\ UNCHANGED <<lock, marker>>
     \/ ~FitJob /\ Return(p, "stopped")
  /\ UNCHANGED <<disk, surviving, clientVars>>

\* finalizeObserved: the completion names the last attempt.
FinalizeObserved(p) ==
  /\ pc[p] = "seal"
  /\ WriteMarker(p, "complete", known[p], "adopted", "stage")
  /\ UNCHANGED <<diskVars, clientVars>>

-----------------------------------------------------------------------------
(* The downloader, its network and its other users.                        *)

Awaiting(i) == {p \in Proc : pc[p] = "await" /\ known[p] = i /\ reply[p] = "none"}
Answer(i, r) == reply' = [p \in Proc |-> IF p \in Awaiting(i) THEN r ELSE reply[p]]

ClientAccepts(i) ==
  /\ i \in wire /\ ~ExactJob
  /\ \E fit \in BOOLEAN : job' = [origin |-> i, fit |-> fit, present |-> TRUE]
  /\ wire' = wire \ {i}
  /\ Answer(i, "accepted")
  /\ confirmed' = confirmed \cup {k \in {i} : Awaiting(i) # {}}
  /\ UNCHANGED <<diskVars, pc, opts, known, marker, outcome, posts>>

ClientRefuses(i) ==
  /\ i \in wire
  /\ wire' = wire \ {i}
  /\ Answer(i, IF ExactJob /\ Driver = "transmission" THEN "exists" ELSE "rejected")
  /\ UNCHANGED <<diskVars, pc, opts, known, marker, outcome, job, posts, confirmed>>

LoseRequest(i) ==
  /\ i \in wire
  /\ wire' = wire \ {i}
  /\ UNCHANGED <<diskVars, callVars, job, posts, confirmed>>

OthersChangeJob ==
  /\ \/ ~ExactJob /\ \E fit \in BOOLEAN : job' = [origin |-> 0, fit |-> fit, present |-> TRUE]
     \/ ExactJob /\ job' = NoJob
     \/ ExactJob /\ job' = [job EXCEPT !.fit = ~@]
  /\ UNCHANGED <<diskVars, callVars, wire, posts, confirmed>>

-----------------------------------------------------------------------------
(* Failure.                                                                *)

\* An error return, a cancelled context or a killed process.
Abort(p) ==
  /\ pc[p] # "idle"
  /\ Return(p, "stopped")
  /\ UNCHANGED <<disk, surviving, clientVars>>

PowerLoss ==
  /\ \E j \in surviving : disk' = j /\ surviving' = {j}
  /\ lock' = Nobody
  /\ pc' = [p \in Proc |-> "idle"]
  /\ opts' = [p \in Proc |-> NoOptions]
  /\ known' = [p \in Proc |-> 0]
  /\ marker' = [p \in Proc |-> NoMarker]
  /\ reply' = [p \in Proc |-> "none"]
  /\ outcome' = [p \in Proc |-> "none"]
  /\ UNCHANGED clientVars

-----------------------------------------------------------------------------
Invocation(p) ==
  \/ RunSurveys(p) \/ MakeRoot(p) \/ MakeLock(p) \/ MakeScratch(p)
  \/ StageMarker(p) \/ FillMarker(p) \/ CommitMarker(p) \/ ConfirmMarker(p)
  \/ OpenJournal(p) \/ LoadEnds(p) \/ LoadInitializes(p) \/ LoadRepublishes(p)
  \/ LoadDiscards(p) \/ LoadConfirms(p)
  \/ ResumeSettled(p) \/ ResumeObservation(p) \/ ResumeFindsJob(p) \/ ResumeFindsAbsence(p)
  \/ AppendAttempt(p) \/ SendAdd(p) \/ LoseReply(p) \/ RereadLedger(p)
  \/ CloseBracket(p) \/ FinalizeObserved(p)

Next ==
  \/ \E p \in Proc : StartRun(p) \/ StartResume(p) \/ StartStatus(p)
  \/ \E p \in Proc : Invocation(p)
  \/ \E p \in Proc : Abort(p)
  \/ \E i \in Attempts : ClientAccepts(i) \/ ClientRefuses(i) \/ LoseRequest(i)
  \/ OthersChangeJob
  \/ PowerLoss

Spec == Init /\ [][Next]_vars

\* A running invocation keeps being scheduled, and its requests time out.
FairSpec == Spec /\ \A p \in Proc : WF_vars(Invocation(p))

-----------------------------------------------------------------------------
(* Safety.                                                                 *)

\* The phases of an invocation that follow its durable attempt marker.
EffectPhases == {"send", "await", "bracket"}

\* Every request the downloader was ever sent, and every phase that may send
\* or interpret one, is covered by an attempt marker that no power loss can
\* take back; and one attempt sends one request, whatever crashed, resumed or
\* ran beside it.  (executeAdd appends the attempt before AddStopped.)
AttemptBeforeEffect ==
  /\ \A j \in surviving :
       /\ \A i \in Attempts : posts[i] > 0 => j.attempts >= i
       /\ \A p \in Proc : pc[p] \in EffectPhases => j.attempts = known[p]
  /\ \A i \in Attempts : posts[i] <= 1

\* A completion, published or only staged, never claims more than the driver
\* may attribute: with Transmission the attempt it names had its accepted
\* answer delivered to its sender, and with either driver that attempt is in
\* the same journal image (the lost-response rule of Resume and executeAdd).
CompletionIsAttributed ==
  \A j \in surviving :
    LET named == IF j.done # 0 THEN j.done
                 ELSE IF j.pending.dest = "complete" THEN j.pending.seq ELSE 0
    IN named # 0 =>
         /\ named = j.attempts
         /\ IsAdd /\ Driver = "transmission" => named \in confirmed

\* What is reported adopted is completed in every image that a power loss may
\* leave.
AdoptedIsDurable ==
  \A p \in Proc : outcome[p] = "adopted" => \A j \in surviving : j.done # 0

\* Resume can advance whatever image is left, except in the two states recovery
\* refuses: a directory without its lock file and a staged marker with
\* incomplete bytes.
OnlyTornStagingBlocks ==
  \A j \in surviving :
    ~Resumable(j) =>
      \/ j.root \in {"none", "bare"}
      \/ j.pending.dest # "none" /\ ~j.pending.whole

\* What was reported and what can still be done survive every crash and power
\* loss: adoption is reported of a durable completion only (appendCompletion
\* returns before the report is finalized, and Resume refreshes durability
\* before it compares), and only torn staging leaves an operation that resume
\* cannot advance (openJournal, recoverInitialization).
CrashSafe == AdoptedIsDurable /\ OnlyTornStagingBlocks

-----------------------------------------------------------------------------
(* Action properties.                                                      *)

Posted == posts' # posts

\* After the first request, another one is sent only by an invocation that
\* was given the repeat acknowledgement.
NoSilentRepeat ==
  [][Posted /\ (\E i \in Attempts : posts[i] > 0) =>
       \E p \in Proc : pc[p] = "send" /\ opts[p].repeat]_vars

-----------------------------------------------------------------------------
(* Liveness.                                                               *)

\* Every invocation ends: the lock is never waited for, recovery does not
\* loop, and a request that is not answered times out.
InvocationEnds == \A p \in Proc : (pc[p] # "idle") ~> (pc[p] = "idle")

-----------------------------------------------------------------------------
(* Refinement: the attempts no power loss can remove are authorisations of *)
(* the abstract ledger.  A completion settles it as soon as its whole       *)
(* marker is durable, even if it is only staged when the machine stops.    *)

Settling(j) == j.done # 0 \/ (j.pending.dest = "complete" /\ j.pending.whole)

DurableAttempts == CHOOSE n \in AttemptCounts :
                     /\ \E j \in surviving : j.attempts = n
                     /\ \A j \in surviving : j.attempts >= n

Ledger == INSTANCE EffectLedger WITH
            Budget <- MaxAttempts,
            authorised <- DurableAttempts,
            performed <- {i \in Attempts : posts[i] > 0},
            settled <- \A j \in surviving : Settling(j)

\* The journal keeps the ledger's promises through every crash, recovery and
\* power loss: an attempt is recorded before its one request, only the newest
\* attempt may still send, and once a whole completion is durable nothing is
\* recorded or sent again and nothing takes it back (recoverPending publishes
\* a staged completion before the ledger is read).  The user's acknowledgement,
\* which the ledger does not know, precedes every repeated request.
LedgerSpec == Ledger!Spec /\ NoSilentRepeat
=============================================================================
