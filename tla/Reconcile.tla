------------------------------ MODULE Reconcile ------------------------------
(***************************************************************************)
(* One `reconcile report` or `reconcile refresh-report`: the terminal      *)
(* records of earlier operations are proved first, each only when the one  *)
(* it rests on was, then the names that a retirement and a parent cleanup  *)
(* removed are observed absent in two passes, then the storage index and   *)
(* the site binding are looked up.  Only when all of these gates passed    *)
(* are credentials read and is the downloader asked, once before and once  *)
(* after the storage proof, with the job's files in between.  Build judges *)
(* every axis and takes the worst; the exit status follows from the same   *)
(* answers.  Nothing is locked: other programs change the job and the      *)
(* names while the command runs.  The torrent has several files.           *)
(***************************************************************************)
EXTENDS Integers, FiniteSets, Sequences

CONSTANTS Requests,     \* what the command may be asked to reconcile
          Dirs,         \* the parent directories of the retired names
          MaxTurns      \* changes of the downloader's job during the command

Histories == {"adoption", "activation", "stop", "removal", "retirement", "cleanup"}
Sources == {"final", "exact", "search", "index", "refresh"}

(***************************************************************************)
(* What the command line accepts: histories need the materialized final,   *)
(* the client and the mapping; some need, and some exclude, one another.   *)
(***************************************************************************)
LegalRequest(r) ==
  /\ r \in [source : Sources, axes : SUBSET Histories, client : BOOLEAN, mapping : BOOLEAN,
            files : BOOLEAN, binding : BOOLEAN, detail : BOOLEAN]
  /\ r.axes # {} => r.source = "final" /\ r.mapping /\ r.files
  /\ r.files => r.client
  /\ "removal" \in r.axes => r.axes \cap {"adoption", "stop", "retirement"} = {}
  /\ r.axes \cap {"stop", "removal", "retirement"} # {} => "activation" \in r.axes
  /\ "cleanup" \in r.axes => "retirement" \in r.axes

ASSUME RequestsAreLegal == \A r \in Requests : LegalRequest(r)
ASSUME MaxTurnsIsNat == MaxTurns \in Nat

NotRead == "not read"

\* The reasons a selection may carry; "none" is a proof that stands.
Reasons == {"none", "prerequisite", "unavailable", "integrity", "mismatch", "unproven",
            "absence", "reappeared"}
NoEvidence == [completion |-> FALSE, reason |-> "none"]

\* One name of a removed file or directory, as the checks can find it.
Places == {"clear",      \* the reviewed directory, without the retired name
           "taken",      \* the reviewed directory, with the name in it again
           "removed",    \* no directory
           "replaced"}   \* another directory under the same name

\* What the downloader's queue says of this torrent.
ExactJobs == {"seeding", "stopped", "checking", "elsewhere"}
Queues == ExactJobs \cup {"absent", "two", "foreign", "unknown"}
Layouts == {"exact", "skipped", "other"}

VARIABLES req,        \* what was asked
          pc,         \* the step that comes next
          history,    \* per history: is the completion kept, and the reason that stops it
          removed,    \* of retirement and cleanup: retained tombstones, attempted and proved absences
          names,      \* the names' places and the state of the two-pass check
          gate,       \* the storage index selection
          binding,    \* the site binding
          secrets,    \* were credentials read
          detail,     \* the live site detail
          job,        \* the downloader's own state, its changes, and how it was at the storage proof
          bracket,    \* what the reads before and after the proof returned
          proof,      \* the storage proof
          exit        \* the exit status

vars == <<req, pc, history, removed, names, gate, binding, secrets, detail, job, bracket, proof, exit>>

Order == <<"adoption", "activation", "stop", "removal", "retirement", "names", "cleanup", "parents",
           "index", "binding", "credentials", "detail", "before", "filesBefore", "proof",
           "filesAfter", "after", "finish", "done">>

\* Mutant: a stop is looked up whenever its activation is.
SelectedWithStop(step) == step \in req.axes \/ (step = "stop" /\ "activation" \in req.axes)

Selected(step) == step \in req.axes

\* Steps that a request always takes; the others are entered by the step before.
Due(step) ==
  \/ Selected(step)
  \/ step = "index" /\ req.source \in {"index", "refresh"}
  \/ step = "binding" /\ req.binding
  \/ step = "credentials" /\ (req.client \/ req.detail)
  \/ step = "detail" /\ req.detail
  \/ step = "before" /\ req.client
  \/ step = "proof"

Onward(step) ==
  LET at == CHOOSE i \in DOMAIN Order : Order[i] = step
      next == {i \in DOMAIN Order : i > at /\ Due(Order[i])}
  IN Order[CHOOSE i \in next : \A j \in next : i <= j]

FirstStep == LET due == {i \in DOMAIN Order : Due(Order[i])}
             IN Order[CHOOSE i \in due : \A j \in due : i <= j]

NoNames == [place |-> [d \in Dirs |-> "clear"], moved |-> {}, todo |-> {}, pass |-> 0,
            cleaned |-> {}, together |-> {}]
NoBracket == [before |-> NotRead, filesBefore |-> NotRead, filesAfter |-> NotRead, after |-> NotRead]

Init ==
  /\ req \in Requests
  /\ pc = FirstStep
  /\ history = [h \in Histories |-> NoEvidence]
  /\ removed = [retained |-> {}, attempted |-> {}, direct |-> {}, derived |-> {}]
  /\ names = NoNames
  /\ gate = "ok" /\ binding = "none" /\ secrets = FALSE /\ detail = "none"
  /\ job = [queue |-> NotRead, layout |-> NotRead, turns |-> 0, atProof |-> NotRead]
  /\ bracket = NoBracket
  /\ proof = NotRead
  /\ exit = "running"

-----------------------------------------------------------------------------
(* The terminal records.                                                    *)

\* What the record of a history rests on is missing.
Unfounded(h) ==
  \/ h \in {"stop", "removal", "retirement"} /\ ~history["activation"].completion
  \/ /\ h = "cleanup"
     /\ \/ ~history["retirement"].completion
        \/ history["retirement"].reason = "mismatch"

\* Failures to load and a context that ended differ in words only.
Answers(h) == {"none", "unavailable", "integrity", "mismatch"} \cup
              (IF h \in {"stop", "removal"} THEN {"unproven"} ELSE {})

\* Adoption and activation keep no completion that does not fit the selectors.
Found(h, answer) ==
  [completion |-> answer \in {"none", "unproven"}
                    \/ (answer = "mismatch" /\ h \notin {"adoption", "activation"}),
   reason |-> answer]

Judge(h, answer) == history' = [history EXCEPT ![h] = Found(h, answer)]
Skip(h) == history' = [history EXCEPT ![h] = [completion |-> FALSE, reason |-> "prerequisite"]]

ReadHistory(h) ==
  /\ pc = h /\ h \notin {"retirement", "cleanup"}
  /\ IF Unfounded(h) THEN Skip(h) ELSE \E answer \in Answers(h) : Judge(h, answer)
  /\ pc' = Onward(h)
  /\ UNCHANGED <<req, removed, names, gate, binding, secrets, detail, job, bracket, proof, exit>>

-----------------------------------------------------------------------------
(* The names: each is observed absent twice, one after the other.           *)

Wanted(kind) == IF kind = "retirement" THEN "clear" ELSE "removed"
Checked(kind) == IF kind = "retirement" THEN Dirs ELSE names.cleaned
Kind == IF pc \in {"retirement", "names"} THEN "retirement" ELSE "cleanup"

\* Mutant: one pass over the names is enough.
PassesOnce == 1

Passes == 2

AllAbsent(kind, place, dirs) == \A d \in dirs : place[d] = Wanted(kind)

\* The ghost together remembers whether the absences ever held all at once.
Witnessed(kind, place, dirs) ==
  names.together \cup (IF AllAbsent(kind, place, dirs) THEN {kind} ELSE {})

BeginCheck(kind, place, dirs) ==
  names' = [names EXCEPT !.place = place, !.todo = dirs, !.pass = 1,
                         !.cleaned = IF kind = "cleanup" THEN dirs ELSE @,
                         !.together = Witnessed(kind, place, dirs)]

\* Nothing after the checks looks at the names again.
Forgotten == [NoNames EXCEPT !.together = names.together, !.cleaned = names.cleaned]

\* A retained tombstone has no paths; a live journal starts the check.
ReadRetirement ==
  /\ pc = "retirement"
  /\ \/ /\ Unfounded("retirement") /\ Skip("retirement")
        /\ pc' = Onward("retirement")
        /\ UNCHANGED <<removed, names>>
     \/ /\ ~Unfounded("retirement")
        /\ \E answer \in Answers("retirement") \ {"none"} : Judge("retirement", answer)
        /\ pc' = Onward("retirement")
        /\ UNCHANGED <<removed, names>>
     \/ /\ ~Unfounded("retirement")
        /\ history' = [history EXCEPT !["retirement"] = [completion |-> TRUE, reason |-> "absence"]]
        /\ removed' = [removed EXCEPT !.retained = @ \cup {"retirement"}]
        /\ pc' = Onward("retirement")
        /\ UNCHANGED names
     \/ /\ ~Unfounded("retirement")
        /\ Judge("retirement", "none")
        /\ removed' = [removed EXCEPT !.attempted = @ \cup {"retirement"}]
        /\ \E place \in [Dirs -> Places] : BeginCheck("retirement", place, Dirs)
        /\ pc' = "names"
  /\ UNCHANGED <<req, gate, binding, secrets, detail, job, bracket, proof, exit>>

\* A completed cleanup removed the reviewed directories: their names may only
\* stand for other directories now.
ReadCleanup ==
  /\ pc = "cleanup"
  /\ \/ /\ IF Unfounded("cleanup") THEN Skip("cleanup")
           ELSE \E answer \in Answers("cleanup") \ {"none"} : Judge("cleanup", answer)
        /\ pc' = Onward("cleanup") /\ names' = Forgotten
        /\ UNCHANGED removed
     \/ /\ ~Unfounded("cleanup")
        /\ history' = [history EXCEPT !["cleanup"] = [completion |-> TRUE, reason |-> "absence"]]
        /\ removed' = [removed EXCEPT !.retained = @ \cup {"cleanup"}]
        /\ \E dirs \in SUBSET Dirs \ {{}} : names' = [Forgotten EXCEPT !.cleaned = dirs]
        /\ pc' = Onward("cleanup")
     \/ /\ ~Unfounded("cleanup")
        /\ Judge("cleanup", "none")
        /\ removed' = [removed EXCEPT !.attempted = @ \cup {"cleanup"}]
        /\ \E dirs \in SUBSET Dirs \ {{}}, place \in [Dirs -> Places] :
             /\ "retirement" \notin removed.retained => place = names.place
             /\ \A d \in dirs : place[d] \in {"removed", "replaced"}
             /\ BeginCheck("cleanup", place, dirs)
        /\ pc' = "parents"
  /\ UNCHANGED <<req, gate, binding, secrets, detail, job, bracket, proof, exit>>

Look(d) ==
  /\ pc \in {"names", "parents"} /\ d \in names.todo
  /\ names.place[d] = Wanted(Kind)
  /\ names' = IF names.todo # {d} THEN [names EXCEPT !.todo = @ \ {d}]
              ELSE [names EXCEPT !.pass = @ + 1,
                                 !.todo = IF names.pass < Passes THEN Checked(Kind) ELSE {}]
  /\ UNCHANGED <<req, pc, history, removed, gate, binding, secrets, detail, job, bracket, proof, exit>>

\* What is in the way, or what could not be observed, ends the check.
Missed(d) ==
  CASE Kind = "retirement" /\ names.place[d] = "taken" -> "reappeared"
    [] Kind = "cleanup" /\ names.place[d] # "removed" -> "reappeared"
    [] OTHER -> "absence"

EndLook(d) ==
  /\ pc \in {"names", "parents"} /\ d \in names.todo
  /\ \E reason \in {Missed(d), "unavailable"} :
       history' = [history EXCEPT ![Kind].reason = reason]
  /\ pc' = Onward(pc)
  /\ names' = IF pc' = "cleanup" THEN [names EXCEPT !.todo = {}, !.pass = 0] ELSE Forgotten
  /\ UNCHANGED <<req, removed, gate, binding, secrets, detail, job, bracket, proof, exit>>

\* Mutant: any removed parent stands for all of the names.
ImpliedBySome == names.cleaned # {}

\* Removed parents stand for the retired names when they held all of them.
Implied == names.cleaned = Dirs

NamesAbsent ==
  /\ pc = "names" /\ names.todo = {}
  /\ removed' = [removed EXCEPT !.direct = @ \cup {"retirement"}]
  /\ pc' = Onward("names")
  /\ names' = IF pc' = "cleanup" THEN [names EXCEPT !.pass = 0] ELSE Forgotten
  /\ UNCHANGED <<req, history, gate, binding, secrets, detail, job, bracket, proof, exit>>

\* The derived absence clears the retirement's reason and its gate, and
\* leaves its attempt flag as it is.
ParentsAbsent ==
  /\ pc = "parents" /\ names.todo = {}
  /\ LET derive == "retirement" \notin removed.direct IN
     /\ removed' = [removed EXCEPT !.direct = @ \cup {"cleanup"},
                                   !.derived = IF derive /\ Implied THEN {"retirement"} ELSE @]
     /\ history' = CASE derive /\ Implied -> [history EXCEPT !["retirement"].reason = "none"]
                     [] derive /\ ~Implied -> [history EXCEPT !["cleanup"].reason = "absence"]
                     [] OTHER -> history
  /\ pc' = Onward("parents") /\ names' = Forgotten
  /\ UNCHANGED <<req, gate, binding, secrets, detail, job, bracket, proof, exit>>

Change(d) ==
  /\ pc \in {"names", "cleanup", "parents"} /\ d \notin names.moved
  /\ pc = "cleanup" => "retirement" \in removed.attempted
  /\ \E place \in Places \ {names.place[d]} :
       /\ names.place[d] \in {"removed", "replaced"} => place \in {"removed", "replaced"}
       /\ LET now == [names.place EXCEPT ![d] = place]
          IN names' = [names EXCEPT !.place = now, !.moved = @ \cup {d},
                        !.together = IF pc = "cleanup" THEN @
                                     ELSE Witnessed(Kind, now, Checked(Kind))]
  /\ UNCHANGED <<req, pc, history, removed, gate, binding, secrets, detail, job, bracket, proof, exit>>

-----------------------------------------------------------------------------
(* Index, binding, credentials and site detail.                             *)

SelectIndex ==
  /\ pc = "index"
  /\ gate' \in {"ok", "failed", "integrity"} \cup (IF req.source = "refresh" THEN {"budget"} ELSE {})
  /\ pc' = Onward("index")
  /\ UNCHANGED <<req, history, removed, names, binding, secrets, detail, job, bracket, proof, exit>>

LoadBinding ==
  /\ pc = "binding"
  /\ binding' \in {"proven", "mismatch", "integrity", "failed"}
  /\ pc' = Onward("binding")
  /\ UNCHANGED <<req, history, removed, names, gate, secrets, detail, job, bracket, proof, exit>>

\* Mutant: the axes that were proved by themselves are enough.
GatesPassedUnlessDerived ==
  /\ gate = "ok"
  /\ req.binding => binding = "proven"
  /\ \A h \in req.axes \ {"retirement"} : history[h].reason = "none"

GatesPassed ==
  /\ gate = "ok"
  /\ req.binding => binding = "proven"
  /\ \A h \in req.axes : history[h].reason = "none"

\* One predicate decides that credentials are read and the client is asked.
ReadCredentials ==
  /\ pc = "credentials"
  /\ IF GatesPassed
     THEN \/ secrets' = TRUE /\ pc' = Onward("credentials") /\ UNCHANGED exit
          \/ exit' = "unreported" /\ pc' = "done" /\ UNCHANGED secrets
     ELSE pc' = "proof" /\ UNCHANGED <<secrets, exit>>
  /\ UNCHANGED <<req, history, removed, names, gate, binding, detail, job, bracket, proof>>

ReadDetail ==
  /\ pc = "detail"
  /\ detail' \in {"observed", "failed"}
  /\ pc' = Onward("detail")
  /\ UNCHANGED <<req, history, removed, names, gate, binding, secrets, job, bracket, proof, exit>>

-----------------------------------------------------------------------------
(* The client bracket around the storage proof.                             *)

\* The queue and the files are as they happen to be at the first read.
ReadBefore ==
  /\ pc = "before"
  /\ \/ /\ bracket' = [bracket EXCEPT !.before = "failed"]
        /\ pc' = "proof"
        /\ UNCHANGED job
     \/ \E queue \in Queues, layout \in Layouts :
          /\ queue \notin ExactJobs \/ ~req.files => layout = "exact"
          /\ bracket' = [bracket EXCEPT !.before = queue]
          /\ job' = [job EXCEPT !.queue = queue, !.layout = layout]
          /\ pc' = IF req.files /\ queue \in ExactJobs THEN "filesBefore" ELSE "proof"
  /\ UNCHANGED <<req, history, removed, names, gate, binding, secrets, detail, proof, exit>>

FileAnswers == {"failed"} \cup (IF job.queue = "absent" THEN {} ELSE {job.layout})

ReadFilesBefore ==
  /\ pc = "filesBefore"
  /\ \E answer \in FileAnswers : bracket' = [bracket EXCEPT !.filesBefore = answer]
  /\ pc' = "proof"
  /\ UNCHANGED <<req, history, removed, names, gate, binding, secrets, detail, job, proof, exit>>

ProofAnswers ==
  CASE gate = "integrity" -> {"integrity"}
    [] gate = "failed" -> {"error"}
    [] gate = "budget" -> {"incomplete"}
    [] req.source = "final" -> {"verified", "bridge", "unavailable", "integrity"}
    [] req.source = "exact" -> {"verified", "incomplete"}
    [] req.source = "search" -> {"verified", "ambiguous", "not_found", "incomplete", "error"}
    [] OTHER -> {"verified", "ambiguous", "not_found", "incomplete", "error", "integrity"}

ProveStorage ==
  /\ pc = "proof"
  /\ proof' \in ProofAnswers
  /\ job' = [job EXCEPT !.atProof = <<job.queue, job.layout>>]
  /\ pc' = IF bracket.filesBefore \in Layouts THEN "filesAfter"
           ELSE IF bracket.before \in Queues THEN "after" ELSE "finish"
  /\ UNCHANGED <<req, history, removed, names, gate, binding, secrets, detail, bracket, exit>>

ReadFilesAfter ==
  /\ pc = "filesAfter"
  /\ \E answer \in FileAnswers : bracket' = [bracket EXCEPT !.filesAfter = answer]
  /\ pc' = "after"
  /\ UNCHANGED <<req, history, removed, names, gate, binding, secrets, detail, job, proof, exit>>

ReadAfter ==
  /\ pc = "after"
  /\ \E answer \in {job.queue, "failed"} : bracket' = [bracket EXCEPT !.after = answer]
  /\ pc' = "finish"
  /\ UNCHANGED <<req, history, removed, names, gate, binding, secrets, detail, job, proof, exit>>

\* Other users of the downloader, between the two reads of its queue.
ClientTurn ==
  /\ pc \in {"filesBefore", "proof", "filesAfter", "after"}
  /\ bracket.before \in Queues /\ job.turns < MaxTurns
  /\ \/ \E queue \in {"seeding", "stopped", "absent"} \ {job.queue} :
          job' = [job EXCEPT !.queue = queue, !.turns = @ + 1]
     \/ /\ req.files /\ job.queue \in ExactJobs
        /\ \E layout \in {"exact", "other"} \ {job.layout} :
             job' = [job EXCEPT !.layout = layout, !.turns = @ + 1]
  /\ UNCHANGED <<req, pc, history, removed, names, gate, binding, secrets, detail, bracket, proof, exit>>

-----------------------------------------------------------------------------
(* Build: what the report says of every axis.                               *)

StorageStatus ==
  CASE proof = "integrity" -> "integrity_failed"
    [] proof \in {"verified", "ambiguous", "not_found"} -> proof
    [] OTHER -> "incomplete"

\* The materialized final was observed, even if it could not be bridged.
FinalObserved == proof \in {"verified", "bridge"}

\* Mutant: only the job's identity is compared.
SignatureOfIdentity(queue) == IF queue \in ExactJobs THEN "exact" ELSE queue

Signature(queue) == queue

\* The queue is believed when both reads say the same of this torrent.
Stable == bracket.before \in Queues /\ bracket.after \in Queues
          /\ Signature(bracket.before) = Signature(bracket.after)

ClientStatus ==
  IF ~req.client THEN "not_requested"
  ELSE IF ~Stable THEN "incomplete"
  ELSE CASE bracket.after = "unknown" -> "incomplete"
         [] bracket.after = "two" -> "ambiguous"
         [] bracket.after = "foreign" -> "conflict"
         [] bracket.after = "absent" -> "absent"
         [] OTHER -> "exact_unique"

FileStop == "failed" \in {bracket.filesBefore, bracket.filesAfter}

PathStatus ==
  IF ~req.client \/ ~req.mapping THEN "not_requested"
  ELSE IF proof \in {"integrity", "ambiguous"} THEN proof
  ELSE IF proof = "not_found" THEN "not_comparable"
  ELSE IF proof # "verified" THEN "incomplete"
  ELSE IF ClientStatus = "absent" THEN "not_comparable"
  ELSE IF ClientStatus # "exact_unique" THEN ClientStatus
  ELSE IF bracket.after = "checking" THEN "unsettled"
  ELSE IF ~req.files THEN "files_not_requested"
  ELSE IF bracket.filesAfter \notin Layouts \/ bracket.filesBefore # bracket.filesAfter THEN "incomplete"
  ELSE IF bracket.filesAfter = "other" THEN "layout_conflict"
  ELSE IF bracket.filesAfter = "skipped" THEN "files_unselected"
  ELSE IF bracket.after = "elsewhere" THEN "different_location"
  ELSE "same_location"

\* A selection without its proof is judged by the reason alone.
Unproved(h) == IF history[h].reason = "integrity" THEN "integrity_failed"
               ELSE IF history[h].reason = "mismatch" THEN "mismatch" ELSE "incomplete"

AdoptionStatus ==
  IF history["adoption"].reason # "none" THEN Unproved("adoption")
  ELSE IF ~FinalObserved THEN "mismatch"
  ELSE IF proof = "verified" /\ ClientStatus = "exact_unique" /\ bracket.after # "elsewhere" /\ ~FileStop
  THEN "bound" ELSE "incomplete"

\* With a removal the activation is bound to the absence of its job.
ActivationStatus ==
  IF ~history["activation"].completion THEN Unproved("activation")
  ELSE IF ~FinalObserved THEN "mismatch"
  ELSE IF history["removal"].completion THEN
    IF proof = "verified" /\ ClientStatus = "absent" /\ PathStatus = "not_comparable"
         /\ bracket.filesBefore = NotRead
    THEN "bound_to_absence" ELSE "incomplete"
  ELSE IF PathStatus = "same_location" THEN "bound" ELSE "incomplete"

\* A record of another final or of another activation.
OfAnotherLineage == ~FinalObserved \/ ~history["activation"].completion

StopStatus ==
  IF ~history["stop"].completion THEN Unproved("stop")
  ELSE IF OfAnotherLineage \/ history["stop"].reason = "mismatch" THEN "mismatch"
  ELSE IF history["stop"].reason = "none" /\ ActivationStatus = "bound" /\ bracket.after = "stopped"
  THEN "bound" ELSE "incomplete"

RemovalStatus ==
  IF ~history["removal"].completion THEN Unproved("removal")
  ELSE IF OfAnotherLineage \/ history["removal"].reason = "mismatch" THEN "mismatch"
  ELSE IF history["removal"].reason = "none" /\ ActivationStatus = "bound_to_absence"
  THEN "bound" ELSE "incomplete"

\* An absence that no attempt of its own announced.
Unattempted == "retirement" \in removed.derived \ removed.attempted

RetirementStatus ==
  IF Unattempted THEN "incomplete"
  ELSE IF ~history["retirement"].completion THEN Unproved("retirement")
  ELSE IF OfAnotherLineage \/ history["retirement"].reason = "mismatch" THEN "mismatch"
  ELSE IF history["retirement"].reason = "reappeared" THEN "reappeared"
  ELSE IF history["retirement"].reason = "none" /\ ActivationStatus = "bound"
            /\ "retirement" \in removed.direct \cup removed.derived
  THEN "bound" ELSE "incomplete"

CleanupStatus ==
  IF ~history["cleanup"].completion THEN Unproved("cleanup")
  ELSE IF \/ history["cleanup"].reason = "mismatch" \/ ~Implied
          \/ Unattempted \/ ~history["retirement"].completion THEN "mismatch"
  ELSE IF history["cleanup"].reason = "reappeared" THEN "reappeared"
  ELSE IF history["cleanup"].reason = "none" /\ RetirementStatus = "bound" THEN "bound"
  ELSE "incomplete"

Status(h) == CASE h = "adoption" -> AdoptionStatus
               [] h = "activation" -> ActivationStatus
               [] h = "stop" -> StopStatus
               [] h = "removal" -> RemovalStatus
               [] h = "retirement" -> RetirementStatus
               [] h = "cleanup" -> CleanupStatus

\* A refresh that began must lie inside the bracket of a requested client.
OutsideBracket ==
  /\ req.source = "refresh" /\ req.client /\ gate = "ok"
  /\ bracket.before \notin Queues \/ bracket.after \notin Queues

Outcome ==
  LET says == {Status(h) : h \in req.axes} IN
  IF binding = "integrity" \/ StorageStatus = "integrity_failed" \/ "integrity_failed" \in says
  THEN "integrity_failed"
  ELSE IF binding = "mismatch" \/ says \cap {"mismatch", "reappeared"} # {}
            \/ ClientStatus = "conflict" \/ PathStatus = "layout_conflict"
  THEN "conflict"
  ELSE IF StorageStatus = "ambiguous" \/ ClientStatus = "ambiguous" THEN "ambiguous"
  ELSE IF \/ req.binding /\ binding # "proven"
          \/ req.detail /\ detail # "observed"
          \/ ~ says \subseteq {"bound", "bound_to_absence"}
          \/ "incomplete" \in {StorageStatus, ClientStatus, PathStatus}
          \/ OutsideBracket
  THEN "incomplete"
  ELSE IF /\ proof = "verified"
          /\ \/ PathStatus = "same_location"
             \/ "removal" \in req.axes /\ ClientStatus = "absent"
  THEN "consistent" ELSE "partial"

\* Mutant: the answer for a site binding is missing.
IntegrityFailedUnbound ==
  \/ proof = "integrity"
  \/ \E h \in Histories : history[h].reason = "integrity"

\* The integrity failures that the command answers, one after the other.
IntegrityFailed ==
  \/ proof = "integrity" \/ binding = "integrity"
  \/ \E h \in Histories : history[h].reason = "integrity"

Finish ==
  /\ pc = "finish"
  /\ \E strict \in BOOLEAN :
       exit' = IF req.source = "search" /\ proof = "error" THEN "unreported"
               ELSE IF IntegrityFailed THEN "integrity"
               ELSE IF proof = "error" THEN "error"
               ELSE IF strict /\ Outcome # "consistent" THEN "inconclusive"
               ELSE IF strict THEN "reconciled" ELSE "reported"
  /\ pc' = "done"
  /\ UNCHANGED <<req, history, removed, names, gate, binding, secrets, detail, job, bracket, proof>>

Next ==
  \/ \E h \in Histories : ReadHistory(h)
  \/ ReadRetirement \/ ReadCleanup
  \/ \E d \in Dirs : Look(d) \/ EndLook(d) \/ Change(d)
  \/ NamesAbsent \/ ParentsAbsent
  \/ SelectIndex \/ LoadBinding \/ ReadCredentials \/ ReadDetail
  \/ ReadBefore \/ ReadFilesBefore \/ ProveStorage \/ ReadFilesAfter \/ ReadAfter
  \/ ClientTurn \/ Finish

Spec == Init /\ [][Next]_vars

-----------------------------------------------------------------------------
TypeOK ==
  /\ req \in Requests
  /\ \E i \in DOMAIN Order : pc = Order[i]
  /\ history \in [Histories -> [completion : BOOLEAN, reason : Reasons]]
  /\ \A h \in Histories : history[h] # NoEvidence => h \in req.axes
  /\ removed \in [retained : SUBSET Histories, attempted : SUBSET Histories,
                  direct : SUBSET Histories, derived : SUBSET {"retirement"}]
  /\ removed.direct \subseteq removed.attempted /\ removed.attempted \cap removed.retained = {}
  /\ names.place \in [Dirs -> Places] /\ names.pass \in 0..(Passes + 1)
  /\ names.todo \subseteq Dirs /\ names.cleaned \subseteq Dirs /\ names.moved \subseteq Dirs
  /\ names.together \subseteq {"retirement", "cleanup"}
  /\ gate \in {"ok", "failed", "integrity", "budget"}
  /\ binding \in {"none", "proven", "mismatch", "integrity", "failed"}
  /\ detail \in {"none", "observed", "failed"} /\ secrets \in BOOLEAN
  /\ job.turns \in 0..MaxTurns
  /\ {bracket.before, bracket.after} \subseteq Queues \cup {NotRead, "failed"}
  /\ {bracket.filesBefore, bracket.filesAfter} \subseteq Layouts \cup {NotRead, "failed"}
  /\ exit = "running" <=> pc # "done"

Reported == pc = "done" /\ exit # "unreported"

\* The job that the selected histories speak of.
Claimed == CASE "removal" \in req.axes -> {"absent"}
             [] "stop" \in req.axes -> {"stopped"}
             [] OTHER -> {"seeding", "stopped"}

(***************************************************************************)
(* A report says "consistent" only of what was so: every selected history  *)
(* was proved, the absences that it names were once true all at the same   *)
(* time, and the job, if it changed at most once while it was bracketed,   *)
(* was at the very moment of the storage proof what the report says of it. *)
(***************************************************************************)
ConsistentIsWitnessed ==
  Reported /\ Outcome = "consistent" =>
    /\ proof = "verified" /\ (req.binding => binding = "proven") /\ (req.detail => detail = "observed")
    /\ \A h \in req.axes : history[h] = [completion |-> TRUE, reason |-> "none"]
    /\ "retirement" \in req.axes =>
         \/ "retirement" \in removed.direct \cap names.together
         \/ "retirement" \in removed.derived /\ "cleanup" \in names.together /\ names.cleaned = Dirs
    /\ "cleanup" \in req.axes => "cleanup" \in removed.direct \cap names.together
    /\ job.turns <= 1 => /\ job.atProof[1] \in Claimed
                         /\ "removal" \notin req.axes => job.atProof[2] = "exact"

\* A retained retirement whose names only a live parent cleanup can prove absent.
RetainedRetirement == "retirement" \in removed.retained \cap removed.derived

\* A parent cleanup that removed only some of the retired files' parents.
PartialCleanup == history["cleanup"].completion /\ names.cleaned # Dirs

\* Proofs of histories that meet no final that they could be compared with.
NoFinal == ~FinalObserved /\ \E h \in req.axes : history[h].completion

\* Every proof that the request asks for was had, and nothing moved.
Proved ==
  /\ secrets /\ GatesPassed /\ proof = "verified" /\ req.mapping /\ req.files
  /\ req.detail => detail = "observed"
  /\ bracket.before = bracket.after /\ bracket.after \in Claimed
  /\ "removal" \notin req.axes => bracket.filesBefore = "exact" /\ bracket.filesAfter = "exact"

(***************************************************************************)
(* A conflict always has a cause: a record that does not fit the           *)
(* selectors, a name that is back, a job of another torrent or another     *)
(* layout, or one of three named ones; the first of these always make a    *)
(* conflict.  Where every proof was had the verdict is "consistent",       *)
(* except for two named causes.  And the exit status tells the verdict:    *)
(* integrity exactly for a failed integrity, success under                 *)
(* --require-reconciled only for "consistent".                             *)
(***************************************************************************)
VerdictsHaveCauses ==
  Reported =>
    LET misfit == binding = "mismatch" \/ \E h \in req.axes : history[h].reason \in {"mismatch", "reappeared"}
        disagrees == \/ bracket.before = "foreign" /\ bracket.after = "foreign"
                     \/ bracket.filesBefore = "other" /\ bracket.filesAfter = "other"
        named == RetainedRetirement \/ PartialCleanup \/ NoFinal
    IN /\ Outcome = "conflict" => misfit \/ disagrees \/ named
       /\ misfit => Outcome \in {"conflict", "integrity_failed"}
       /\ Proved => Outcome = "consistent" \/ RetainedRetirement \/ PartialCleanup
       /\ exit = "integrity" <=> Outcome = "integrity_failed"
       /\ exit = "reconciled" => Outcome = "consistent"

(***************************************************************************)
(* Credentials come last: they are read, and the downloader or the site is *)
(* asked, only after every selected history and binding was proved and     *)
(* every removed name had been seen absent, all at the same time.          *)
(***************************************************************************)
CredentialsComeLast ==
  /\ detail # "none" \/ bracket.before # NotRead => secrets
  /\ secrets =>
       /\ \A h \in req.axes : history[h] = [completion |-> TRUE, reason |-> "none"]
       /\ gate = "ok" /\ (req.binding => binding = "proven")
       /\ "retirement" \in req.axes => names.together # {}
       /\ "cleanup" \in req.axes => "cleanup" \in names.together

(***************************************************************************)
(* docs/THREAT_MODEL.md: with a retained retirement the reconciliation     *)
(* remains incomplete unless a live parent-cleanup journal matches its     *)
(* lineage and proves the removed parents absent.  Where that journal and  *)
(* everything else was proved the report should then be consistent.  It is *)
(* a conflict: the derived absence is not marked as attempted.             *)
(***************************************************************************)
RetainedRetirementReconciles ==
  Reported /\ Proved /\ RetainedRetirement => Outcome = "consistent"

=============================================================================
