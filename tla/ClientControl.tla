---------------------------- MODULE ClientControl ----------------------------
(***************************************************************************)
(* `ptctl client stop | remove` (internal/clientstop, internal/clientremove *)
(* and their commands in internal/cli): several invocations of one         *)
(* deterministic operation that asks a downloader to stop one exact job,   *)
(* or to remove it and keep its data.                                      *)
(*                                                                         *)
(* Every command reads the journal once, in a preflight that releases the  *)
(* lock again, and what it saw decides whether the command runs, resumes   *)
(* or refuses; only then does it open the downloader and take the lock for *)
(* good.  A request may be refused, lost, accepted before it is carried    *)
(* out, or carried out after the sender gave up; other users of the        *)
(* downloader start, stop, remove and add the job; an invocation may end   *)
(* at any step, and the machine may lose power.                            *)
(***************************************************************************)
EXTENDS ControlJournal, FiniteSets

CONSTANTS
  Proc,        \* the concurrent invocations
  Nobody       \* not an invocation

ASSUME NobodyAssumption == Nobody \notin Proc

VARIABLES
  disk,        \* the journal as running processes see it
  surviving,   \* the journals a power loss may leave; a sync makes it {disk}
  lock,        \* the invocation that holds the operation lock
  pc,          \* where each invocation is
  opts,        \* its mode and acknowledgements
  seen,        \* the job its current-use authority observed
  marker,      \* the marker it is writing, and what follows
  reply,       \* what the request's receipt says
  outcome,     \* the completion its last report claimed
  job,         \* the exact job in the downloader
  wire,        \* requests sent and not yet carried out by the downloader
  posts,       \* history: how many requests each attempt sent
  confirmed    \* history: attempts whose complete receipt reached the sender

diskVars == <<disk, surviving, lock>>
callVars == <<pc, opts, seen, marker, reply, outcome>>
clientVars == <<job, wire, posts, confirmed>>
vars == <<diskVars, callVars, clientVars>>

JobStates == {"started", "stopped", "absent"}

Modes == {"run", "resume"}
Options == [mode : Modes, ack : BOOLEAN, repeat : BOOLEAN]
NoOptions == [mode |-> "resume", ack |-> FALSE, repeat |-> FALSE]

Continuations == {"observe", "load", "send", "verify", "report"}
Markers == [dest : Destinations, seq : AttemptCounts, says : Sayings, then : Continuations]
NoMarker == [dest |-> "intent", seq |-> 0, says |-> "none", then |-> "load"]

\* Every report that claims no completion is "none".
Outcomes == {"none", "complete", "already"}

Unlocked == {"idle", "preflight", "use", "mkdir", "newlock", "open"}
Holding == {"scratch", "load", "observe", "ledger", "act", "stage", "fill", "commit",
            "confirm", "send", "await", "verify"}

TypeOK ==
  /\ disk \in Journals /\ disk \in surviving /\ surviving \subseteq Journals
  /\ lock \in Proc \cup {Nobody}
  /\ pc \in [Proc -> Unlocked \cup Holding]
  /\ \A p \in Proc : pc[p] \in Holding <=> lock = p
  /\ opts \in [Proc -> Options]
  /\ seen \in [Proc -> JobStates]
  /\ marker \in [Proc -> Markers]
  /\ reply \in [Proc -> Sayings]
  /\ outcome \in [Proc -> Outcomes]
  /\ job \in JobStates
  /\ wire \subseteq Attempts
  /\ posts \in [Attempts -> Nat]
  /\ confirmed \subseteq Attempts

NothingRuns ==
  /\ lock = Nobody
  /\ pc = [p \in Proc |-> "idle"]
  /\ opts = [p \in Proc |-> NoOptions]
  /\ seen = [p \in Proc |-> "absent"]
  /\ marker = [p \in Proc |-> NoMarker]
  /\ reply = [p \in Proc |-> "none"]
  /\ outcome = [p \in Proc |-> "none"]

NothingSent ==
  /\ job = "started"
  /\ wire = {}
  /\ posts = [i \in Attempts |-> 0]
  /\ confirmed = {}

Init ==
  /\ \E kind \in Kinds : disk = NoJournal(kind) /\ surviving = {NoJournal(kind)}
  /\ NothingRuns /\ NothingSent

-----------------------------------------------------------------------------
(* The disk, and the end of an invocation.                                 *)

Write(d) == disk' = d /\ surviving' = surviving \cup {d}
SyncThenWrite(d) == disk' = d /\ surviving' = {disk, d}
Sync == disk' = disk /\ surviving' = {disk}

Return(p, o) ==
  /\ pc' = [pc EXCEPT ![p] = "idle"]
  /\ opts' = [opts EXCEPT ![p] = NoOptions]
  /\ seen' = [seen EXCEPT ![p] = "absent"]
  /\ marker' = [marker EXCEPT ![p] = NoMarker]
  /\ reply' = [reply EXCEPT ![p] = "none"]
  /\ outcome' = [outcome EXCEPT ![p] = o]
  /\ lock' = IF lock = p THEN Nobody ELSE lock

Goto(p, step) ==
  /\ pc' = [pc EXCEPT ![p] = step]
  /\ UNCHANGED <<opts, seen, reply, outcome>>

\* Start writing a marker, then continue at `then`.
WriteMarker(p, dest, seq, says, then, step) ==
  /\ marker' = [marker EXCEPT ![p] = [dest |-> dest, seq |-> seq, says |-> says, then |-> then]]
  /\ Goto(p, step)

IsStop == disk.kind = "stop"

\* VerifyExpectedJobStopped and VerifyExpectedJobAbsent: the asked-for state.
Settled == IF IsStop THEN job = "stopped" ELSE job = "absent"

\* VerifyCurrentUse, and the started state that a stop plan is built from.
InUse == IF IsStop THEN job = "started" ELSE job # "absent"

-----------------------------------------------------------------------------
(* The commands and their preflight.                                       *)

Start(p, o) ==
  /\ pc[p] = "idle"
  /\ pc' = [pc EXCEPT ![p] = "preflight"]
  /\ opts' = [opts EXCEPT ![p] = o]
  /\ outcome' = [outcome EXCEPT ![p] = "none"]
  /\ UNCHANGED <<diskVars, seen, marker, reply, clientVars>>

StartRun(p) == Start(p, [mode |-> "run", ack |-> TRUE, repeat |-> FALSE])

\* The command line pairs the repeat acknowledgement with the ordinary one.
StartResume(p) ==
  \E ack, repeat \in BOOLEAN :
    /\ repeat => ack
    /\ Start(p, [mode |-> "resume", ack |-> ack, repeat |-> repeat])

\* Mutant of Inspection: a staged marker is an interrupted initialization.
InspectionShared(j) ==
  CASE j.root = "none" -> "missing"
    [] j.root = "bare" -> "broken"
    [] j.root = "locked" /\ Uninitialized(j) /\ j.pending.dest \in {"none", "intent"} ->
         "uninitialized"
    [] j.root = "locked" /\ ChainAgrees(j) ->
         IF j.pending = NoPending THEN "readable" ELSE "uninitialized"
    [] OTHER -> "broken"

\* What Status says of a journal.  A staged marker beside a published intent
\* is its own answer for a stop; a removal calls it an interrupted
\* initialization.
Inspection(j) ==
  CASE j.root = "none" -> "missing"
    [] j.root = "bare" -> "broken"
    [] j.root = "locked" /\ Uninitialized(j) /\ j.pending.dest \in {"none", "intent"} ->
         "uninitialized"
    [] j.root = "locked" /\ ChainAgrees(j) /\ j.pending = NoPending -> "readable"
    [] j.root = "locked" /\ ChainAgrees(j) /\ j.pending # NoPending ->
         IF j.kind = "stop" THEN "pending" ELSE "uninitialized"
    [] OTHER -> "broken"

\* reportFromJournal's phase of a readable journal.
Phase(j) ==
  CASE Complete(j) -> "complete"
    [] ~Complete(j) /\ j.attempts = 0 -> "journaled"
    [] ~Complete(j) /\ j.attempts > 0 ->
         CASE j.answers[j.attempts] = "accepted" -> "accepted_response_observed"
           [] j.answers[j.attempts] = "unsent" -> "request_not_sent"
           [] OTHER -> "request_result_unknown"

\* The acknowledgements a resume needs before it opens the downloader.
PreflightAllows(o, j) ==
  /\ Phase(j) \in {"journaled", "request_not_sent"} => o.ack
  /\ j.kind = "remove" /\ Phase(j) \in {"request_result_unknown", "accepted_response_observed"}
       => o.repeat

\* Where the preflight sends a command.
RunRoute(j) == IF Inspection(j) \in {"missing", "uninitialized"} THEN "use" ELSE "refuse"

ResumeRoute(o, j) ==
  CASE Inspection(j) = "uninitialized" /\ o.ack -> "use"
    [] Inspection(j) = "pending" -> "open"
    [] Inspection(j) = "readable" /\ PreflightAllows(o, j) -> "open"
    [] OTHER -> "refuse"

Route(o, j) == IF o.mode = "run" THEN RunRoute(j) ELSE ResumeRoute(o, j)

\* The preflight holds the lock only while it reads; a held lock refuses.
Preflight(p) ==
  /\ pc[p] = "preflight"
  /\ \/ /\ lock = Nobody /\ Route(opts[p], disk) # "refuse"
        /\ Goto(p, Route(opts[p], disk)) /\ UNCHANGED <<lock, marker>>
     \/ /\ lock # Nobody \/ Route(opts[p], disk) = "refuse"
        /\ Return(p, "none")
  /\ UNCHANGED <<disk, surviving, clientVars>>

\* The commands build the plan from the live job before Run is called.
PrepareUse(p) ==
  /\ pc[p] = "use"
  /\ \/ /\ InUse
        /\ pc' = [pc EXCEPT ![p] = "mkdir"]
        /\ opts' = [opts EXCEPT ![p].mode = "run"]
        /\ seen' = [seen EXCEPT ![p] = job]
        /\ UNCHANGED <<lock, marker, reply, outcome>>
     \/ ~InUse /\ Return(p, "none")
  /\ UNCHANGED <<disk, surviving, clientVars>>

-----------------------------------------------------------------------------
(* createJournal.                                                          *)

\* The exclusive mkdir decides between concurrent Runs; the loser opens.
MakeRoot(p) ==
  /\ pc[p] = "mkdir"
  /\ \/ disk.root = "none" /\ Write([disk EXCEPT !.root = "bare"]) /\ Goto(p, "newlock")
     \/ disk.root # "none" /\ Goto(p, "open") /\ UNCHANGED <<disk, surviving>>
  /\ UNCHANGED <<lock, marker, clientVars>>

MakeLock(p) ==
  /\ pc[p] = "newlock"
  /\ SyncThenWrite([disk EXCEPT !.root = "locked"])
  /\ lock' = p
  /\ WriteMarker(p, "intent", 0, "none", "observe", "scratch")
  /\ UNCHANGED clientVars

MakeScratch(p) ==
  /\ pc[p] = "scratch"
  /\ Write([disk EXCEPT !.scratch = TRUE])
  /\ Goto(p, "stage")
  /\ UNCHANGED <<lock, marker, clientVars>>

-----------------------------------------------------------------------------
(* writeMarker: stage, fill, rename without replacement, sync.             *)

StageMarker(p) ==
  /\ pc[p] = "stage" /\ disk.pending = NoPending
  /\ SyncThenWrite(Stage(disk, marker[p]))
  /\ Goto(p, "fill")
  /\ UNCHANGED <<lock, marker, clientVars>>

FillMarker(p) ==
  /\ pc[p] = "fill"
  /\ disk' = Fill(disk)
  /\ surviving' = {Fill(j) : j \in surviving}
  /\ Goto(p, "commit")
  /\ UNCHANGED <<lock, marker, clientVars>>

CommitMarker(p) ==
  /\ pc[p] = "commit" /\ ~Published(disk, marker[p])
  /\ Write(Commit(disk))
  /\ Goto(p, "confirm")
  /\ UNCHANGED <<lock, marker, clientVars>>

\* Mutant of ConfirmMarker: the directory is not synced after the rename.
ConfirmMarkerUnsynced(p) ==
  /\ pc[p] = "confirm"
  /\ \/ marker[p].then = "report" /\ Return(p, "complete")
     \/ marker[p].then # "report" /\ Goto(p, marker[p].then) /\ UNCHANGED <<lock, marker>>
  /\ UNCHANGED <<disk, surviving, clientVars>>

ConfirmMarker(p) ==
  /\ pc[p] = "confirm"
  /\ Sync
  /\ \/ marker[p].then = "report" /\ Return(p, "complete")
     \/ marker[p].then # "report" /\ Goto(p, marker[p].then) /\ UNCHANGED <<lock, marker>>
  /\ UNCHANGED clientVars

-----------------------------------------------------------------------------
(* openJournal: take the lock, read, recover.                              *)

\* Mutant of OpenJournal: a held lock is not noticed.
OpenJournalUnlocked(p) ==
  /\ pc[p] = "open"
  /\ \/ /\ disk.root = "locked"
        /\ lock' = p
        /\ Goto(p, "load") /\ UNCHANGED marker
     \/ disk.root # "locked" /\ Return(p, "none")
  /\ UNCHANGED <<disk, surviving, clientVars>>

\* A missing lock file fails, and a held lock is not waited for.
OpenJournal(p) ==
  /\ pc[p] = "open"
  /\ \/ /\ disk.root = "locked" /\ lock = Nobody
        /\ lock' = p
        /\ Goto(p, "load") /\ UNCHANGED marker
     \/ /\ disk.root # "locked" \/ lock # Nobody
        /\ Return(p, "none")
  /\ UNCHANGED <<disk, surviving, clientVars>>

\* Only Run carries the plan that an empty journal is written from; a staged
\* intent carries its own.
Recoverable(p) ==
  /\ Resumable(disk)
  /\ Uninitialized(disk) /\ disk.pending = NoPending => opts[p].mode = "run"

LoadEnds(p) ==
  /\ pc[p] = "load" /\ ~Recoverable(p)
  /\ Return(p, "none")
  /\ UNCHANGED <<disk, surviving, clientVars>>

LoadInitializes(p) ==
  /\ pc[p] = "load" /\ Recoverable(p)
  /\ Uninitialized(disk) /\ disk.pending = NoPending
  /\ WriteMarker(p, "intent", 0, "none", "load", IF disk.scratch THEN "stage" ELSE "scratch")
  /\ UNCHANGED <<diskVars, clientVars>>

\* recoverPending: a staged intent, response or completion is published ...
LoadRepublishes(p) ==
  /\ pc[p] = "load" /\ Recoverable(p)
  /\ disk.pending.dest \in {"intent", "response", "complete"}
  /\ WriteMarker(p, disk.pending.dest, disk.pending.seq, disk.pending.says, "load", "commit")
  /\ UNCHANGED <<diskVars, clientVars>>

\* Mutant of LoadDiscards: a staged completion is discarded too.
LoadDiscardsCompletion(p) ==
  /\ pc[p] = "load" /\ Recoverable(p) /\ disk.pending.dest \in {"attempt", "complete"}
  /\ disk' = Discard(disk) /\ surviving' = {Discard(disk)}
  /\ UNCHANGED <<lock, callVars, clientVars>>

\* ... and a staged attempt is removed: its request was never sent.
LoadDiscards(p) ==
  /\ pc[p] = "load" /\ Recoverable(p) /\ disk.pending.dest = "attempt"
  /\ disk' = Discard(disk) /\ surviving' = {Discard(disk)}
  /\ UNCHANGED <<lock, callVars, clientVars>>

\* A stop refreshes durability before anything is decided; a removal reads.
\* Run goes on only with a journal that has no attempt and no completion.
LoadReads(p) ==
  /\ pc[p] = "load" /\ Recoverable(p)
  /\ ~Uninitialized(disk) /\ disk.pending = NoPending
  /\ IF IsStop THEN Sync ELSE UNCHANGED <<disk, surviving>>
  /\ \/ opts[p].mode = "resume" /\ Goto(p, "ledger") /\ UNCHANGED <<lock, marker>>
     \/ opts[p].mode = "run" /\ disk.attempts = 0 /\ ~Complete(disk)
        /\ Goto(p, "observe") /\ UNCHANGED <<lock, marker>>
     \/ opts[p].mode = "run" /\ (disk.attempts > 0 \/ Complete(disk)) /\ Return(p, "none")
  /\ UNCHANGED clientVars

-----------------------------------------------------------------------------
(* Run under the lock: ReobserveStarted and Reobserve.                     *)

Observe(p) ==
  /\ pc[p] = "observe"
  /\ \/ InUse /\ job = seen[p] /\ Goto(p, "act") /\ UNCHANGED <<lock, marker>>
     \/ ~(InUse /\ job = seen[p]) /\ Return(p, "none")
  /\ UNCHANGED <<disk, surviving, clientVars>>

-----------------------------------------------------------------------------
(* Resume: what the downloader shows now, and what the journal proves.     *)

\* A complete operation is only compared with the current job.
ResumeComplete(p) ==
  /\ pc[p] = "ledger" /\ Complete(disk)
  /\ Return(p, IF Settled THEN "already" ELSE "none")
  /\ UNCHANGED <<disk, surviving, clientVars>>

WriteCompletion(p, seq, says) == WriteMarker(p, "complete", seq, says, "report", "stage")

\* A stopped job completes the newest possibly effectful attempt, and never
\* claims its cause; without such an attempt somebody else stopped it.
StopResumeSettled(p) ==
  /\ pc[p] = "ledger" /\ ~Complete(disk) /\ IsStop /\ Settled
  /\ \/ \E i \in StopCompletionAttempt(disk) : WriteCompletion(p, i, "unknown") /\ UNCHANGED lock
     \/ StopCompletionAttempt(disk) = {} /\ Return(p, "none")
  /\ UNCHANGED <<disk, surviving, clientVars>>

\* An absent job completes the last attempt, whatever that attempt proves.
RemoveResumeSettled(p) ==
  /\ pc[p] = "ledger" /\ ~Complete(disk) /\ ~IsStop /\ Settled
  /\ \/ /\ disk.attempts > 0
        /\ WriteCompletion(p, disk.attempts,
             IF disk.answers[disk.attempts] = "accepted" THEN "accepted" ELSE "unknown")
        /\ UNCHANGED lock
     \/ disk.attempts = 0 /\ Return(p, "none")
  /\ UNCHANGED <<disk, surviving, clientVars>>

\* The acknowledgements another request needs.
StopAcknowledged(p) ==
  IF EffectfulPossible(disk) THEN opts[p].ack /\ opts[p].repeat ELSE opts[p].ack
RemoveAcknowledged(p) ==
  IF EffectfulPossible(disk) THEN opts[p].repeat ELSE opts[p].ack
Acknowledged(p) == IF IsStop THEN StopAcknowledged(p) ELSE RemoveAcknowledged(p)

\* Mutant of ResumeRequests: an answered attempt needs no repeat.
ResumeRequestsSilently(p) ==
  /\ pc[p] = "ledger" /\ ~Complete(disk) /\ ~Settled
  /\ \/ InUse /\ disk.attempts < MaxAttempts /\ opts[p].ack
        /\ Goto(p, "act") /\ UNCHANGED <<lock, marker>>
     \/ ~(InUse /\ disk.attempts < MaxAttempts /\ opts[p].ack)
        /\ Return(p, "none")
  /\ UNCHANGED <<disk, surviving, clientVars>>

\* The change is not there: another request, if the job is in use, the
\* budget allows it and it is acknowledged.
ResumeRequests(p) ==
  /\ pc[p] = "ledger" /\ ~Complete(disk) /\ ~Settled
  /\ \/ InUse /\ disk.attempts < MaxAttempts /\ Acknowledged(p)
        /\ Goto(p, "act") /\ UNCHANGED <<lock, marker>>
     \/ ~(InUse /\ disk.attempts < MaxAttempts /\ Acknowledged(p))
        /\ Return(p, "none")
  /\ UNCHANGED <<disk, surviving, clientVars>>

-----------------------------------------------------------------------------
(* executeAttempt.                                                         *)

AppendAttempt(p) ==
  /\ pc[p] = "act"
  /\ WriteMarker(p, "attempt", disk.attempts + 1, "none", "send", "stage")
  /\ UNCHANGED <<diskVars, clientVars>>

\* Stop and RemoveKeepData: at most one request per call ...
SendRequest(p) ==
  /\ pc[p] = "send"
  /\ posts' = [posts EXCEPT ![marker[p].seq] = @ + 1]
  /\ wire' = wire \cup {marker[p].seq}
  /\ Goto(p, "await")
  /\ UNCHANGED <<diskVars, marker, job, confirmed>>

\* ... and a receipt without one when the request could not be sent.
SendNothing(p) ==
  /\ pc[p] = "send"
  /\ pc' = [pc EXCEPT ![p] = "await"]
  /\ reply' = [reply EXCEPT ![p] = "unsent"]
  /\ UNCHANGED <<diskVars, opts, seen, marker, outcome, clientVars>>

LoseReply(p) ==
  /\ pc[p] = "await" /\ reply[p] = "none"
  /\ reply' = [reply EXCEPT ![p] = "unknown"]
  /\ UNCHANGED <<diskVars, pc, opts, seen, marker, outcome, clientVars>>

\* Mutant of AppendResponse: every receipt is recorded as accepted.
AppendResponseAccepted(p) ==
  /\ pc[p] = "await" /\ reply[p] # "none"
  /\ WriteMarker(p, "response", marker[p].seq,
                 IF reply[p] = "unsent" THEN "unsent" ELSE "accepted", "verify", "stage")
  /\ UNCHANGED <<diskVars, clientVars>>

\* The receipt is durable before the downloader is read again.
AppendResponse(p) ==
  /\ pc[p] = "await" /\ reply[p] # "none"
  /\ WriteMarker(p, "response", marker[p].seq, reply[p], "verify", "stage")
  /\ UNCHANGED <<diskVars, clientVars>>

\* VerifyCurrentJobStopped (polled by AwaitCurrentJobStopped after a complete
\* receipt) and VerifyCurrentJobAbsent: the change is there.
VerifySettled(p) ==
  /\ pc[p] = "verify" /\ disk.answers[marker[p].seq] # "unsent" /\ Settled
  /\ WriteCompletion(p, marker[p].seq, disk.answers[marker[p].seq])
  /\ UNCHANGED <<diskVars, clientVars>>

\* No request, or no proof of the change: the operation stays open.
VerifyNotProven(p) ==
  /\ pc[p] = "verify"
  /\ disk.answers[marker[p].seq] = "unsent" \/ ~Settled
  /\ Return(p, "none")
  /\ UNCHANGED <<disk, surviving, clientVars>>

-----------------------------------------------------------------------------
(* The downloader, its network and its other users.                        *)

Awaiting(i) == {p \in Proc : pc[p] = "await" /\ marker[p].seq = i /\ reply[p] = "none"}
Answer(i, r) == reply' = [p \in Proc |-> IF p \in Awaiting(i) THEN r ELSE reply[p]]
Confirm(i) == confirmed' = confirmed \cup {k \in {i} : Awaiting(i) # {}}

\* An answer may come before the request is carried out ...
ClientAccepts(i) ==
  /\ i \in wire /\ Awaiting(i) # {}
  /\ Answer(i, "accepted") /\ Confirm(i)
  /\ UNCHANGED <<diskVars, pc, opts, seen, marker, outcome, job, wire, posts>>

\* ... and a request that is carried out may or may not be answered in time.
ClientExecutes(i) ==
  /\ i \in wire
  /\ wire' = wire \ {i}
  /\ job' = IF IsStop THEN (IF job = "absent" THEN job ELSE "stopped") ELSE "absent"
  /\ Answer(i, "accepted") /\ Confirm(i)
  /\ UNCHANGED <<diskVars, pc, opts, seen, marker, outcome, posts>>

ClientRefuses(i) ==
  /\ i \in wire
  /\ wire' = wire \ {i}
  /\ Answer(i, "unknown")
  /\ UNCHANGED <<diskVars, pc, opts, seen, marker, outcome, job, posts, confirmed>>

LoseRequest(i) ==
  /\ i \in wire
  /\ wire' = wire \ {i}
  /\ UNCHANGED <<diskVars, callVars, job, posts, confirmed>>

OthersChangeJob ==
  /\ \E state \in JobStates : state # job /\ job' = state
  /\ UNCHANGED <<diskVars, callVars, wire, posts, confirmed>>

-----------------------------------------------------------------------------
(* Failure.                                                                *)

\* An error return, a contradictory receipt, a cancelled context, a killed process.
Abort(p) ==
  /\ pc[p] # "idle"
  /\ Return(p, "none")
  /\ UNCHANGED <<disk, surviving, clientVars>>

PowerLoss ==
  /\ \E j \in surviving : disk' = j /\ surviving' = {j}
  /\ lock' = Nobody
  /\ pc' = [p \in Proc |-> "idle"]
  /\ opts' = [p \in Proc |-> NoOptions]
  /\ seen' = [p \in Proc |-> "absent"]
  /\ marker' = [p \in Proc |-> NoMarker]
  /\ reply' = [p \in Proc |-> "none"]
  /\ outcome' = [p \in Proc |-> "none"]
  /\ UNCHANGED clientVars

-----------------------------------------------------------------------------
Invocation(p) ==
  \/ Preflight(p) \/ PrepareUse(p) \/ MakeRoot(p) \/ MakeLock(p) \/ MakeScratch(p)
  \/ StageMarker(p) \/ FillMarker(p) \/ CommitMarker(p) \/ ConfirmMarker(p)
  \/ OpenJournal(p) \/ LoadEnds(p) \/ LoadInitializes(p) \/ LoadRepublishes(p)
  \/ LoadDiscards(p) \/ LoadReads(p) \/ Observe(p)
  \/ ResumeComplete(p) \/ StopResumeSettled(p) \/ RemoveResumeSettled(p) \/ ResumeRequests(p)
  \/ AppendAttempt(p) \/ SendRequest(p) \/ SendNothing(p) \/ LoseReply(p)
  \/ AppendResponse(p) \/ VerifySettled(p) \/ VerifyNotProven(p)

Next ==
  \/ \E p \in Proc : StartRun(p) \/ StartResume(p)
  \/ \E p \in Proc : Invocation(p)
  \/ \E p \in Proc : Abort(p)
  \/ \E i \in Attempts : ClientAccepts(i) \/ ClientExecutes(i) \/ ClientRefuses(i) \/ LoseRequest(i)
  \/ OthersChangeJob
  \/ PowerLoss

Spec == Init /\ [][Next]_vars

-----------------------------------------------------------------------------
(* Safety.                                                                 *)

\* Every request the downloader was ever sent is covered by an attempt marker
\* that no power loss can take back, and one attempt sends one request,
\* whatever crashed, resumed or ran beside it (executeAttempt appends the
\* attempt before the session is asked; openJournal discards an attempt that
\* was only staged).
RequestsAreRecorded ==
  /\ \A j \in surviving :
       /\ \A i \in Attempts : posts[i] > 0 => j.attempts >= i
       /\ \A p \in Proc : pc[p] \in {"send", "await"} => j.attempts = marker[p].seq
  /\ \A i \in Attempts : posts[i] <= 1

\* A response, published or only staged, never says more than its sender
\* learned: "accepted" means the complete receipt arrived, "unsent" means the
\* downloader was sent nothing for that attempt (executeAttempt, recoverPending).
AnswersAreTrue ==
  \A j \in surviving, i \in Attempts :
    LET says == IF j.pending.dest = "response" /\ j.pending.seq = i THEN j.pending.says
                ELSE j.answers[i]
    IN /\ says = "accepted" => i \in confirmed
       /\ says = "unsent" => posts[i] = 0

\* The completion a journal holds or has staged.
Claim(j) ==
  IF Complete(j) THEN j.done
  ELSE IF j.pending.dest = "complete" THEN [seq |-> j.pending.seq, says |-> j.pending.says]
  ELSE NotDone

\* Completion attributes the change only to an attempt whose complete
\* receipt reached its sender and was made durable first; and that of a stop
\* names the newest attempt that may have reached the downloader, so that no
\* request is left out of the account (completeStopped, completeAbsence).
CompletionIsHonest ==
  \A j \in surviving :
    LET c == Claim(j) IN
    c # NotDone =>
      /\ c.seq \in 1..j.attempts
      /\ c.says = "accepted" => c.seq \in confirmed /\ j.answers[c.seq] = "accepted"
      /\ \A i \in Attempts : i > c.seq => posts[i] = 0
      /\ IsStop => j.answers[c.seq] # "unsent"

\* The journal is an honest account: every request is covered by a durable
\* attempt, and neither a response nor the completion that is derived from the
\* chain of responses says of an attempt what its sender did not see.
HonestJournal == RequestsAreRecorded /\ AnswersAreTrue /\ CompletionIsHonest

\* Completion is reported only of a completion that survives a power
\* loss.  For a removal this is said of the report that wrote it: its resume
\* does not sync before it calls an earlier completion already complete.
ReportsAreDurable ==
  \A p \in Proc :
    outcome[p] = "complete" \/ (outcome[p] = "already" /\ IsStop) =>
      \A j \in surviving : Complete(j)

\* Some command, with the acknowledgements it asks for, opens this journal
\* while the job is as it expects, and can advance it.
Advances(j) ==
  /\ Resumable(j)
  /\ \E o \in Options : Route(o, j) # "refuse" \/ (Complete(j) /\ j.pending = NoPending)

\* A crash or a power loss leaves an operation that a command can advance,
\* except in the two states recovery refuses: a directory without its lock
\* file and a staged marker with incomplete bytes.
OnlyTornStagingBlocks ==
  \A j \in surviving :
    ~Advances(j) =>
      \/ j.root \in {"none", "bare"}
      \/ j.pending.dest # "none" /\ ~j.pending.whole

\* Some command gets as far as the effectful open that would recover the
\* staged marker, with the job as it is now.
RecoveryIsReachable ==
  \E o \in Options :
    \/ Route(o, disk) = "open"
    \/ Route(o, disk) = "use" /\ InUse

\* A stop whose process ended between staging and publishing a response or a
\* completion can be recovered whatever has become of the job: Status names
\* marker recovery for what it is (ErrMarkerRecoveryRequired).
StopMarkerIsRecoverable ==
  /\ IsStop /\ lock = Nobody
  /\ disk.intent /\ disk.pending.dest \in {"response", "complete"} /\ PendingAccepted(disk)
  => RecoveryIsReachable

\* What was reported and what can still be done survive every crash and power
\* loss: completion is reported of durable completions, only torn staging
\* leaves an operation no command can advance, and a stop's staged answers are
\* always within reach of the effectful open that publishes them.
CrashSafe == ReportsAreDurable /\ OnlyTornStagingBlocks /\ StopMarkerIsRecoverable

\* The same of every operation's staged completion, which records that the job
\* is stopped or gone ("Effectful recovery of adoption, activation, stop, and
\* removal journals publishes a staged intent, response, or completion marker").
StagedCompletionIsRecoverable ==
  /\ lock = Nobody
  /\ disk.intent /\ disk.pending.dest = "complete" /\ PendingAccepted(disk)
  => RecoveryIsReachable

-----------------------------------------------------------------------------
(* Action properties.                                                      *)

Posted == posts' # posts

\* Once a request was sent, another one is sent only by an invocation that was
\* given the repeat acknowledgement.
NoSilentRepeat ==
  [][Posted /\ (\E i \in Attempts : posts[i] > 0) =>
       \E p \in Proc : pc[p] = "send" /\ opts[p].repeat]_vars

-----------------------------------------------------------------------------
(* Refinement: the attempts no power loss can remove are authorisations of *)
(* the abstract ledger.  A completion settles it as soon as its whole       *)
(* marker is durable, even if it is only staged when the machine stops.    *)

Settling(j) == Complete(j) \/ (j.pending.dest = "complete" /\ j.pending.whole)

DurableAttempts == CHOOSE n \in AttemptCounts :
                     /\ \E j \in surviving : j.attempts = n
                     /\ \A j \in surviving : j.attempts >= n

Ledger == INSTANCE EffectLedger WITH
            Budget <- MaxAttempts,
            authorised <- DurableAttempts,
            performed <- {i \in Attempts : posts[i] > 0},
            settled <- \A j \in surviving : Settling(j)

\* The journal keeps the ledger's promises through every crash, recovery and
\* power loss: an attempt is recorded before its one request, and once a whole
\* completion is durable nothing is recorded or sent again and nothing takes
\* it back.  A further attempt is never sent without its acknowledgement.
LedgerSpec == Ledger!Spec /\ NoSilentRepeat
===============================================================================
