--------------------------- MODULE ClientActivate ---------------------------
(***************************************************************************)
(* `ptctl client activate run | resume | status`                           *)
(* (internal/clientactivate): several invocations of one activation        *)
(* operation.  It asks the downloader to recheck an adopted, stopped job,  *)
(* waits for evidence that the check ran and found all content, and starts *)
(* the job; an operation that follows a terminal stop only starts it.      *)
(*                                                                         *)
(* The downloader gives no receipt for a check or a start: the evidence is *)
(* the job's state, read by an invocation at one moment and used by it at  *)
(* a later one.  Resume reads it holding the operation lock, gives the     *)
(* lock up, and takes it again to recover the journal and to act, so       *)
(* another invocation may have acted in between; the observation times in  *)
(* the markers are what tells a reader that its observation is too old.    *)
(*                                                                         *)
(* The downloader is anybody's: its other users, a late request or a check *)
(* that ends may change the job at any step, whether a request of ours     *)
(* arrived or not.                                                         *)
(***************************************************************************)
EXTENDS ActivateJournal

CONSTANTS
  Proc,        \* the concurrent invocations
  Nobody       \* not an invocation

ASSUME NobodyAssumption == Nobody \notin Proc

VARIABLES
  disk,        \* the journal as running processes see it
  surviving,   \* the journals a power loss may leave; a sync makes it {disk}
  lock,        \* the invocation that holds the operation lock
  pc,          \* where each invocation is
  opts,        \* its mode and acknowledgements
  marker,      \* the marker it is writing, and what follows
  report,      \* what the last report of any invocation said
  job,         \* the state of the exact job in the downloader
  seen,        \* the job as each invocation last observed it
  later,       \* later[p]: who observed the job after p's observation
  outdated,    \* who observed before the journal's last observation
  overtaken,   \* who observed before the staged marker's observation
  posts,       \* history: how many requests each attempt sent
  witness,     \* history: since whose observation the job has been checked
  attested     \* history: ... since the last recheck attempt's observation

diskVars == <<disk, surviving, lock>>
callVars == <<pc, opts, marker, report>>
obsVars == <<seen, later, outdated, overtaken>>
historyVars == <<posts, witness, attested>>
vars == <<diskVars, callVars, obsVars, historyVars, job>>

\* "partial" and "full" are the stopped job, without and with every file
\* complete.  "other" is every state no rule accepts: absent, downloading,
\* failed, moved.
Stopped == {"partial", "full"}
JobStates == Stopped \cup {"checking", "started", "other"}

\* An acknowledgement is not given, given once, or given for a repetition.
Levels == {"none", "ack", "repeat"}
Options == [mode : {"run", "resume", "status"}, recheck : Levels, start : Levels]
NoOptions == [mode |-> "status", recheck |-> "none", start |-> "none"]

Continuations == {"load", "decide", "request", "append", "checking", "checked", "started"}
Markers == [dest : Destinations, seq : AttemptCounts, then : Continuations]
NoMarker == [dest |-> "intent", seq |-> 0, then |-> "load"]

Reports == {"stopped", "unknown"} \cup Evidence

Unlocked == {"idle", "survey", "mkdir", "newlock", "open", "look", "reopen"}
Holding == {"read", "observe", "load", "scratch", "stage", "commit", "confirm",
            "decide", "append", "request", "probe"}

TypeOK ==
  /\ disk \in Journals /\ disk \in surviving /\ surviving \subseteq Journals
  /\ lock \in Proc \cup {Nobody}
  /\ pc \in [Proc -> Unlocked \cup Holding]
  /\ opts \in [Proc -> Options]
  /\ marker \in [Proc -> Markers]
  /\ report \in Reports
  /\ job \in JobStates
  /\ seen \in [Proc -> JobStates \cup {"none"}]
  /\ later \in [Proc -> SUBSET Proc]
  /\ outdated \subseteq Proc /\ overtaken \subseteq Proc
  /\ posts \in [Requests \X Attempts -> Nat]
  /\ witness \subseteq Proc /\ attested \in BOOLEAN

Init ==
  /\ \E action \in Actions : disk = NoJournal(action) /\ surviving = {NoJournal(action)}
  /\ lock = Nobody
  /\ pc = [p \in Proc |-> "idle"]
  /\ opts = [p \in Proc |-> NoOptions]
  /\ marker = [p \in Proc |-> NoMarker]
  /\ report = "stopped"
  /\ job \in JobStates
  /\ seen = [p \in Proc |-> "none"]
  /\ later = [p \in Proc |-> {}]
  /\ outdated = {} /\ overtaken = {}
  /\ posts = [r \in Requests \X Attempts |-> 0]
  /\ witness = {} /\ attested = FALSE

-----------------------------------------------------------------------------
(* The disk, observations and the frame of a step.                         *)

Write(d) == disk' = d /\ surviving' = surviving \cup {d}
SyncThenWrite(d) == disk' = d /\ surviving' = {disk, d}
Sync == disk' = disk /\ surviving' = {disk}

\* observeClient: p's observation is now the newest of all.
Observe(p) ==
  /\ seen' = [seen EXCEPT ![p] = job]
  /\ later' = [q \in Proc |-> IF q = p \/ seen[q] = "none" THEN {} ELSE later[q] \cup {p}]
  /\ outdated' = outdated \ {p}
  /\ overtaken' = overtaken \ {p}
  /\ witness' = witness \ {p}

Forget(p) ==
  /\ seen' = [seen EXCEPT ![p] = "none"]
  /\ later' = [q \in Proc |-> IF q = p THEN {} ELSE later[q] \ {p}]
  /\ outdated' = outdated \ {p}
  /\ overtaken' = overtaken \ {p}
  /\ witness' = witness \ {p}

Goto(p, step) ==
  /\ pc' = [pc EXCEPT ![p] = step]
  /\ UNCHANGED <<opts, report>>

\* The end of an invocation: its handle is closed and its lock released.
Return(p, o) ==
  /\ pc' = [pc EXCEPT ![p] = "idle"]
  /\ opts' = [opts EXCEPT ![p] = NoOptions]
  /\ marker' = [marker EXCEPT ![p] = NoMarker]
  /\ report' = o
  /\ lock' = IF lock = p THEN Nobody ELSE lock
  /\ Forget(p)

\* Start writing a marker, then continue at `then`.
WriteMarker(p, dest, seq, then, step) ==
  /\ marker' = [marker EXCEPT ![p] = [dest |-> dest, seq |-> seq, then |-> then]]
  /\ Goto(p, step)

IsStart == disk.action = "start_after_stop"

-----------------------------------------------------------------------------
(* Run: one observation makes the plan, then the journal is created.       *)

Begin(p, o, step) ==
  /\ pc[p] = "idle"
  /\ pc' = [pc EXCEPT ![p] = step]
  /\ opts' = [opts EXCEPT ![p] = o]
  /\ UNCHANGED <<diskVars, marker, report, obsVars, historyVars, job>>

\* validInitialAcknowledgements: exactly the first effect is acknowledged.
StartRun(p) ==
  Begin(p, [mode |-> "run", recheck |-> IF IsStart THEN "none" ELSE "ack",
            start |-> IF IsStart THEN "ack" ELSE "none"], "survey")

\* BuildPlan: the observation the reviewed plan can be made from.
PlanFits(state) == IF IsStart THEN state = "full" ELSE state \in Stopped

RunSurveys(p) ==
  /\ pc[p] = "survey"
  /\ \/ PlanFits(job) /\ Goto(p, "mkdir") /\ Observe(p) /\ UNCHANGED <<lock, marker>>
     \/ ~PlanFits(job) /\ Return(p, "stopped")
  /\ UNCHANGED <<disk, surviving, posts, attested, job>>

\* The exclusive mkdir decides between concurrent Runs.
MakeRoot(p) ==
  /\ pc[p] = "mkdir"
  /\ \/ /\ disk.root = "none"
        /\ Write([disk EXCEPT !.root = "bare"])
        /\ Goto(p, "newlock") /\ UNCHANGED <<lock, marker, obsVars, witness>>
     \/ /\ disk.root # "none"
        /\ Return(p, "stopped") /\ UNCHANGED <<disk, surviving>>
  /\ UNCHANGED <<posts, attested, job>>

MakeLock(p) ==
  /\ pc[p] = "newlock"
  /\ SyncThenWrite([disk EXCEPT !.root = "locked"])
  /\ lock' = p
  /\ WriteMarker(p, "intent", 0, "decide", "scratch")
  /\ UNCHANGED <<obsVars, historyVars, job>>

MakeScratch(p) ==
  /\ pc[p] = "scratch"
  /\ Write([disk EXCEPT !.scratch = TRUE])
  /\ Goto(p, "stage")
  /\ UNCHANGED <<lock, marker, obsVars, historyVars, job>>

-----------------------------------------------------------------------------
(* writeMarker: stage, rename without replacement, sync.                   *)

\* The staged marker carries p's observation; a failure may leave it torn.
StageMarker(p) ==
  /\ pc[p] = "stage" /\ disk.pending = NoPending
  /\ \E whole \in BOOLEAN :
       /\ SyncThenWrite(Stage(disk, marker[p].dest, marker[p].seq, whole))
       /\ IF whole
            THEN /\ Goto(p, "commit")
                 /\ overtaken' = {q \in Proc : p \in later[q]}
                 /\ UNCHANGED <<lock, marker, seen, later, outdated, witness>>
            ELSE Return(p, "stopped")
  /\ UNCHANGED <<posts, attested, job>>

\* A published attempt starts a new span for the history of checks.
CommitMarker(p) ==
  /\ pc[p] = "commit" /\ ~Published(disk, marker[p].dest, marker[p].seq)
  /\ Write(Commit(disk))
  /\ outdated' = IF marker[p].dest = "intent" THEN outdated ELSE overtaken
  /\ overtaken' = {}
  /\ attested' = IF marker[p].dest = "recheck" THEN p \in witness ELSE attested
  /\ Goto(p, "confirm")
  /\ UNCHANGED <<lock, marker, seen, later, witness, posts, job>>

\* Mutant of ConfirmMarker: the directory is not synced after the rename.
ConfirmMarkerUnsynced(p) ==
  /\ pc[p] = "confirm"
  /\ \/ marker[p].then \in Evidence /\ Return(p, marker[p].then)
     \/ /\ marker[p].then \notin Evidence
        /\ Goto(p, marker[p].then) /\ UNCHANGED <<lock, marker, obsVars, witness>>
  /\ UNCHANGED <<disk, surviving, posts, attested, job>>

\* The marker is durable; evidence ends the invocation unless a start follows.
ConfirmMarker(p) ==
  /\ pc[p] = "confirm"
  /\ Sync
  /\ \/ marker[p].then \in Evidence /\ Return(p, marker[p].then)
     \/ /\ marker[p].then \notin Evidence
        /\ Goto(p, marker[p].then) /\ UNCHANGED <<lock, marker, obsVars, witness>>
  /\ UNCHANGED <<posts, attested, job>>

-----------------------------------------------------------------------------
(* Resume and Status: read the journal, observe, open again and recover.   *)

StartResume(p) == Begin(p, [NoOptions EXCEPT !.mode = "resume"], "open")

StartStatus(p) == Begin(p, NoOptions, "open")

\* Mutant of TakeLock: a held lock is not noticed.
TakeLockHeld(p, step) ==
  /\ \/ /\ disk.root = "locked"
        /\ lock' = p
        /\ Goto(p, step) /\ UNCHANGED <<marker, obsVars, witness>>
     \/ /\ disk.root # "locked"
        /\ Return(p, "stopped")
  /\ UNCHANGED <<disk, surviving, posts, attested, job>>

\* openJournal: a missing directory or lock file fails, and a held lock is
\* not waited for.
TakeLock(p, step) ==
  /\ \/ /\ disk.root = "locked" /\ lock = Nobody
        /\ lock' = p
        /\ Goto(p, step) /\ UNCHANGED <<marker, obsVars, witness>>
     \/ /\ disk.root # "locked" \/ lock # Nobody
        /\ Return(p, "stopped")
  /\ UNCHANGED <<disk, surviving, posts, attested, job>>

OpenToRead(p) == pc[p] = "open" /\ TakeLock(p, "read")
Reopen(p) == pc[p] = "reopen" /\ TakeLock(p, "load")

\* Status reports what it read; Resume goes on to observe, without the lock
\* when there is no intent to compare the observation with.
ReadJournal(p) ==
  /\ pc[p] = "read"
  /\ \/ opts[p].mode = "status" /\ Return(p, "stopped")
     \/ /\ opts[p].mode = "resume" /\ Uninitialized(disk)
        /\ lock' = Nobody /\ Goto(p, "look") /\ UNCHANGED <<marker, obsVars, witness>>
     \/ /\ opts[p].mode = "resume" /\ ChainAgrees(disk)
        /\ Goto(p, "observe") /\ UNCHANGED <<lock, marker, obsVars, witness>>
     \/ /\ opts[p].mode = "resume" /\ ~Uninitialized(disk) /\ ~ChainAgrees(disk)
        /\ Return(p, "stopped")
  /\ UNCHANGED <<disk, surviving, posts, attested, job>>

\* An operation without an intent needs an observation its plan can be made from.
ObserveUnlocked(p) ==
  /\ pc[p] = "look"
  /\ \/ PlanFits(job) /\ Observe(p) /\ Goto(p, "reopen") /\ UNCHANGED <<lock, marker>>
     \/ ~PlanFits(job) /\ Return(p, "stopped")
  /\ UNCHANGED <<disk, surviving, posts, attested, job>>

\* The observation is taken under the lock, and the lock is given up.
ObserveLocked(p) ==
  /\ pc[p] = "observe"
  /\ Observe(p)
  /\ lock' = Nobody
  /\ Goto(p, "reopen")
  /\ UNCHANGED <<disk, surviving, marker, posts, attested, job>>

LoadRefuses(p) ==
  /\ pc[p] = "load" /\ ~Resumable(disk)
  /\ Return(p, "stopped")
  /\ UNCHANGED <<disk, surviving, posts, attested, job>>

Recovering(p) == pc[p] = "load" /\ Resumable(disk)

\* recoverInitialization: the reviewed intent is staged, or published if staged.
LoadInitializes(p) ==
  /\ Recovering(p) /\ Uninitialized(disk)
  /\ WriteMarker(p, "intent", 0, "load",
       IF disk.pending # NoPending THEN "commit" ELSE IF disk.scratch THEN "stage" ELSE "scratch")
  /\ UNCHANGED <<diskVars, obsVars, historyVars, job>>

\* recoverPending: staged evidence is published ...
LoadRepublishes(p) ==
  /\ Recovering(p) /\ disk.pending.dest \in Evidence
  /\ WriteMarker(p, disk.pending.dest, disk.pending.seq, "load", "commit")
  /\ UNCHANGED <<diskVars, obsVars, historyVars, job>>

\* Mutant of LoadDiscards: staged evidence is removed too.
LoadDiscardsEvidence(p) ==
  /\ Recovering(p) /\ disk.pending.dest \in Requests \cup Evidence
  /\ disk' = Discard(disk) /\ surviving' = {Discard(disk)}
  /\ overtaken' = {}
  /\ UNCHANGED <<lock, callVars, seen, later, outdated, historyVars, job>>

\* ... and a staged attempt is removed: its request was never sent.
LoadDiscards(p) ==
  /\ Recovering(p) /\ disk.pending.dest \in Requests
  /\ disk' = Discard(disk) /\ surviving' = {Discard(disk)}
  /\ overtaken' = {}
  /\ UNCHANGED <<lock, callVars, seen, later, outdated, historyVars, job>>

\* confirmDurability, then continueOperation, where the acknowledgements the
\* invocation was given are first used.
LoadConfirms(p) ==
  /\ Recovering(p) /\ ChainAgrees(disk) /\ disk.pending = NoPending
  /\ Sync
  /\ pc' = [pc EXCEPT ![p] = "decide"]
  /\ \E recheck, start \in Levels :
       opts' = [opts EXCEPT ![p] = [mode |-> "resume", recheck |-> recheck, start |-> start]]
  /\ UNCHANGED <<lock, marker, report, obsVars, historyVars, job>>

-----------------------------------------------------------------------------
(* continueOperation: what the journal and the observation allow.          *)

\* Mutant of AppendAttempt: the attempt budget is off by one.
AppendAttemptOverBudget(p, request) ==
  \/ /\ disk[request] <= MaxAttempts
     /\ WriteMarker(p, request, disk[request] + 1, "request", "stage")
     /\ UNCHANGED <<lock, obsVars, witness>>
  \/ disk[request] > MaxAttempts /\ Return(p, "stopped")

\* appendAttempt: record the request intent within the budget.
AppendAttempt(p, request) ==
  \/ /\ disk[request] < MaxAttempts
     /\ WriteMarker(p, request, disk[request] + 1, "request", "stage")
     /\ UNCHANGED <<lock, obsVars, witness>>
  \/ disk[request] = MaxAttempts /\ Return(p, "stopped")

\* Mutant of OutOfDate: the observation times are not compared.
OutOfDateNever(p) == FALSE

\* The current observation predates the journal's last one.
OutOfDate(p) == p \in outdated

Deciding(p) == pc[p] = "decide" /\ ~OutOfDate(p)

Finish(p, o) == Return(p, o) /\ UNCHANGED <<disk, surviving, posts, attested, job>>

Record(p, dest, seq, then) ==
  /\ WriteMarker(p, dest, seq, then, "stage")
  /\ UNCHANGED <<diskVars, obsVars, historyVars, job>>

DecideOutOfDate(p) == pc[p] = "decide" /\ OutOfDate(p) /\ Finish(p, "stopped")

\* Mutant of DecideSettled: a completed activation is started again when the
\* job was stopped since.
DecideSettledRestarts(p) ==
  /\ Deciding(p) /\ disk.started # 0
  /\ \/ seen[p] = "full" /\ opts[p].start = "repeat"
        /\ AppendAttempt(p, "start") /\ UNCHANGED <<disk, surviving, posts, attested, job>>
     \/ Finish(p, IF seen[p] = "started" THEN "started" ELSE "stopped")

\* A completed activation is only compared with the current job.
DecideSettled(p) ==
  /\ Deciding(p) /\ disk.started # 0
  /\ Finish(p, IF seen[p] = "started" THEN "started" ELSE "stopped")

\* Mutant of Starting: the check needs only to have been seen, not to be over.
StartingEarly(p) ==
  /\ Deciding(p) /\ disk.started = 0
  /\ \/ IsStart
     \/ disk.action = "recheck_then_start" /\ (disk.checking # 0 \/ disk.checked # 0)

\* The start is next: nothing is left to check.
Starting(p) ==
  /\ Deciding(p) /\ disk.started = 0
  /\ IsStart \/ (disk.action = "recheck_then_start" /\ disk.checked # 0)

\* A started job completes the operation if, and only if, a start was requested.
DecideStarted(p) ==
  /\ Starting(p) /\ seen[p] = "started"
  /\ \/ disk.start > 0 /\ Record(p, "started", disk.start, "started")
     \/ disk.start = 0 /\ Finish(p, "stopped")

\* Mutant of DecideStartAgain: one acknowledgement repeats a start.
DecideStartAgainSilently(p) ==
  /\ Starting(p) /\ seen[p] # "started" /\ disk.start > 0
  /\ \/ /\ opts[p].start # "none" /\ seen[p] = "full"
        /\ AppendAttempt(p, "start") /\ UNCHANGED <<disk, surviving, posts, attested, job>>
     \/ opts[p].start = "none" /\ Finish(p, "unknown")
     \/ seen[p] # "full" /\ Finish(p, "unknown")

\* A start without an observed result is repeated only when told to.
DecideStartAgain(p) ==
  /\ Starting(p) /\ seen[p] # "started" /\ disk.start > 0
  /\ \/ /\ opts[p].start = "repeat" /\ seen[p] = "full"
        /\ AppendAttempt(p, "start") /\ UNCHANGED <<disk, surviving, posts, attested, job>>
     \/ /\ opts[p].start # "repeat" \/ seen[p] # "full"
        /\ Finish(p, "unknown")

DecideFirstStart(p) ==
  /\ Starting(p) /\ seen[p] # "started" /\ disk.start = 0
  /\ \/ seen[p] # "full" /\ Finish(p, "stopped")
     \/ seen[p] = "full" /\ opts[p].start = "none"
        /\ Finish(p, IF IsStart THEN "stopped" ELSE "checked")
     \/ /\ seen[p] = "full" /\ opts[p].start # "none"
        /\ AppendAttempt(p, "start") /\ UNCHANGED <<disk, surviving, posts, attested, job>>

DecideChecked(p) ==
  /\ Deciding(p) /\ disk.action = "recheck_only" /\ disk.checked # 0
  /\ Finish(p, IF seen[p] = "full" THEN "checked" ELSE "stopped")

Rechecking(p) == Deciding(p) /\ ~IsStart /\ disk.checked = 0

\* The check was seen: it is over when the job is stopped with all content,
\* and the same invocation may go on to the first start.
DecideChecking(p) ==
  /\ Rechecking(p) /\ disk.checking # 0
  /\ \/ seen[p] = "checking" /\ Finish(p, "checking")
     \/ seen[p] = "full"
        /\ Record(p, "checked", disk.recheck,
             IF disk.action = "recheck_then_start" /\ opts[p].start # "none" THEN "append" ELSE "checked")
     \/ seen[p] \notin {"checking", "full"} /\ Finish(p, "stopped")

\* Mutant of DecideRecheckAgain: a check that was seen may be repeated.
DecideRecheckAgainAnyway(p) ==
  /\ Rechecking(p) /\ disk.recheck > 0
  /\ \/ seen[p] = "checking" /\ Record(p, "checking", disk.recheck, "checking")
     \/ /\ seen[p] \in Stopped /\ opts[p].recheck = "repeat"
        /\ AppendAttempt(p, "recheck") /\ UNCHANGED <<disk, surviving, posts, attested, job>>
     \/ /\ seen[p] # "checking" /\ opts[p].recheck # "repeat"
        /\ Finish(p, "unknown")

\* A requested check that was not yet seen is seen now, or is repeated only
\* when told to and within the budget.
DecideRecheckAgain(p) ==
  /\ Rechecking(p) /\ disk.checking = 0 /\ disk.recheck > 0
  /\ \/ seen[p] = "checking" /\ Record(p, "checking", disk.recheck, "checking")
     \/ /\ seen[p] \in Stopped /\ opts[p].recheck = "repeat"
        /\ AppendAttempt(p, "recheck") /\ UNCHANGED <<disk, surviving, posts, attested, job>>
     \/ /\ seen[p] # "checking" /\ opts[p].recheck # "repeat"
        /\ Finish(p, IF disk.recheck < MaxAttempts THEN "unknown" ELSE "stopped")
     \/ /\ seen[p] \notin Stopped \cup {"checking"} /\ opts[p].recheck = "repeat"
        /\ Finish(p, "stopped")

DecideFirstRecheck(p) ==
  /\ Rechecking(p) /\ disk.checking = 0 /\ disk.recheck = 0
  /\ \/ /\ seen[p] \in Stopped /\ opts[p].recheck # "none"
        /\ AppendAttempt(p, "recheck") /\ UNCHANGED <<disk, surviving, posts, attested, job>>
     \/ /\ seen[p] \notin Stopped \/ opts[p].recheck = "none"
        /\ Finish(p, "stopped")

\* performStart in the invocation that recorded the end of the check.
AppendStart(p) ==
  /\ pc[p] = "append"
  /\ AppendAttempt(p, "start")
  /\ UNCHANGED <<disk, surviving, posts, attested, job>>

-----------------------------------------------------------------------------
(* executeAction: one request, then observations until one is conclusive.  *)

SendRequest(p) ==
  /\ pc[p] = "request"
  /\ posts' = [posts EXCEPT ![<<marker[p].dest, disk[marker[p].dest]>>] = @ + 1]
  /\ Goto(p, "probe")
  /\ UNCHANGED <<diskVars, marker, obsVars, witness, attested, job>>

\* Mutant of RecheckConclusive: a complete job is taken for a finished check.
RecheckConclusiveAlways(before, after) == after = "full"

\* A check that ran and ended between the two observations of one invocation.
\* (A job of full progress with an incomplete file is "partial" and no edge.)
RecheckConclusive(before, after) == before = "partial" /\ after = "full"

\* The last probe: an earlier, inconclusive one changes nothing.
Probe(p) ==
  /\ pc[p] = "probe"
  /\ LET attempt == disk[marker[p].dest]
         evidence == IF marker[p].dest = "start"
                       THEN {d \in {"started"} : job = "started"}
                       ELSE {d \in {"checking"} : job = "checking"}
                         \cup {d \in {"checked"} : RecheckConclusive(seen[p], job)}
     IN  \/ /\ \E d \in evidence : WriteMarker(p, d, attempt, d, "stage")
            /\ Observe(p) /\ UNCHANGED lock
         \/ evidence \subseteq {"checked"} /\ Return(p, "unknown")
  /\ UNCHANGED <<disk, surviving, posts, attested, job>>

-----------------------------------------------------------------------------
(* The downloader, and failure.                                            *)

\* A request that arrived, another user, or a check that ends.
JobChanges ==
  /\ job' \in JobStates \ {job}
  /\ IF job' \in {"checking", "full"}
       THEN witness' = {p \in Proc : seen[p] # "none"} /\ attested' = TRUE
       ELSE UNCHANGED <<witness, attested>>
  /\ UNCHANGED <<diskVars, callVars, obsVars, posts>>

\* An error return, a cancelled context or a killed process.
Abort(p) == pc[p] # "idle" /\ Finish(p, "stopped")

PowerLoss ==
  /\ \E j \in surviving : disk' = j /\ surviving' = {j}
  /\ lock' = Nobody
  /\ pc' = [p \in Proc |-> "idle"]
  /\ opts' = [p \in Proc |-> NoOptions]
  /\ marker' = [p \in Proc |-> NoMarker]
  /\ report' = "stopped"
  /\ seen' = [p \in Proc |-> "none"]
  /\ later' = [p \in Proc |-> {}]
  /\ outdated' = {} /\ overtaken' = {} /\ witness' = {}
  /\ UNCHANGED <<posts, attested, job>>

-----------------------------------------------------------------------------
Invocation(p) ==
  \/ RunSurveys(p) \/ MakeRoot(p) \/ MakeLock(p) \/ MakeScratch(p)
  \/ StageMarker(p) \/ CommitMarker(p) \/ ConfirmMarker(p)
  \/ OpenToRead(p) \/ ReadJournal(p) \/ ObserveUnlocked(p) \/ ObserveLocked(p) \/ Reopen(p)
  \/ LoadRefuses(p) \/ LoadInitializes(p) \/ LoadRepublishes(p) \/ LoadDiscards(p) \/ LoadConfirms(p)
  \/ DecideOutOfDate(p) \/ DecideSettled(p)
  \/ DecideStarted(p) \/ DecideStartAgain(p) \/ DecideFirstStart(p)
  \/ DecideChecked(p) \/ DecideChecking(p) \/ DecideRecheckAgain(p) \/ DecideFirstRecheck(p)
  \/ AppendStart(p) \/ SendRequest(p) \/ Probe(p)

Next ==
  \/ \E p \in Proc : StartRun(p) \/ StartResume(p) \/ StartStatus(p)
  \/ \E p \in Proc : Invocation(p)
  \/ \E p \in Proc : Abort(p)
  \/ JobChanges
  \/ PowerLoss

Spec == Init /\ [][Next]_vars

-----------------------------------------------------------------------------
(* Safety.                                                                 *)

\* Every recheck or start the downloader was ever sent is covered by an
\* attempt marker that no power loss can take back, one attempt sends one
\* request, and no start is sent before the check it needs is durably
\* complete.  (performRecheck and performStart append before executeAction.)
RequestsAreRecorded ==
  \A r \in Requests : \A i \in Attempts :
    /\ posts[<<r, i>>] <= 1
    /\ posts[<<r, i>>] > 0 =>
         \A j \in surviving : j[r] >= i /\ (r = "start" => StartReviewed(j))

\* No journal, whatever crashed or interleaved, claims that the check ran or
\* ended unless the downloader was seen by somebody to check the job, or the
\* job to become complete, after the observation that the last attempt names.
\* (The comparisons of observation times in continueOperation.)
ClaimsCheck(j) ==
  \/ j.checking # 0 \/ j.checked # 0
  \/ j.pending.dest \in {"checking", "checked"} /\ j.pending.whole

ChecksAreWitnessed == (\E j \in surviving : ClaimsCheck(j)) => attested

\* A report that names evidence is made only of evidence that survives a
\* power loss.
ReportsAreDurable ==
  report \in Evidence => \A j \in surviving : j[report] # 0

\* Whoever stages an attempt or evidence, or sends a request, acts on an
\* observation that no other invocation's marker has overtaken, although the
\* lock was given up between the observation and the act.
ActsOnNewest ==
  \A p \in Proc :
    (\/ pc[p] \in {"append", "request", "probe"}
     \/ pc[p] = "stage" /\ marker[p].dest # "intent") => p \notin outdated

\* The journal's evidence is as fresh as it claims: a recorded check was seen
\* after the request it answers, and nobody writes or sends on an observation
\* that another invocation's marker has made stale.
EvidenceIsFresh == ChecksAreWitnessed /\ ActsOnNewest

\* A crash or a power loss leaves an operation that resume can advance, except
\* for a directory without its lock file and a staged marker with torn bytes.
OnlyTornStagingBlocks ==
  \A j \in surviving :
    ~Resumable(j) =>
      \/ j.root \in {"none", "bare"}
      \/ j.pending.dest # "none" /\ ~j.pending.whole

\* What was reported and what can still be done survive every crash and power
\* loss: evidence is reported when it is durable, and only torn staging leaves
\* an operation that resume cannot advance.
CrashSafe == ReportsAreDurable /\ OnlyTornStagingBlocks

-----------------------------------------------------------------------------
(* Action properties.                                                      *)

Sent(r) == \E i \in Attempts : posts'[<<r, i>>] > posts[<<r, i>>]

\* After the first request of a kind, another is sent only by an invocation
\* that was told to repeat that kind.
NoSilentRepeat ==
  [][\A r \in Requests : Sent(r) /\ (\E i \in Attempts : posts[<<r, i>>] > 0) =>
       \E p \in Proc : pc[p] = "request" /\ opts[p][r] = "repeat"]_vars

-----------------------------------------------------------------------------
(* Refinement: rechecks and starts are two ledgers of journaled effects.   *)
(* Evidence settles its ledger as soon as its whole marker is durable, even *)
(* if it is only staged when the machine stops.                            *)

Holds(j, d) == j[d] # 0 \/ (j.pending.dest = d /\ j.pending.whole)

Durable(r) == CHOOSE n \in AttemptCounts :
                /\ \E j \in surviving : j[r] = n
                /\ \A j \in surviving : j[r] >= n

Rechecks == INSTANCE EffectLedger WITH
              Budget <- MaxAttempts,
              authorised <- Durable("recheck"),
              performed <- {i \in Attempts : posts[<<"recheck", i>>] > 0},
              settled <- \A j \in surviving : Holds(j, "checking") \/ Holds(j, "checked")

Starts == INSTANCE EffectLedger WITH
            Budget <- MaxAttempts,
            authorised <- Durable("start"),
            performed <- {i \in Attempts : posts[<<"start", i>>] > 0},
            settled <- \A j \in surviving : Holds(j, "started")

\* Either kind of request keeps the ledger's promises through every crash,
\* recovery and power loss: an attempt is recorded before its one request, and
\* once evidence of the kind is durable nothing of that kind is recorded or
\* sent again and nothing takes the evidence back.  A further attempt is never
\* sent without the acknowledgement for it.
ActionLedgers == Rechecks!Spec /\ Starts!Spec /\ NoSilentRepeat
=============================================================================
