--------------------------- MODULE ReconcileProofs ---------------------------
(***************************************************************************)
(* Proofs about Reconcile, for every set of requests, every set of parent  *)
(* directories and any number of changes of the job: what a "consistent"   *)
(* report speaks of was so, verdicts have causes, and credentials come     *)
(* last.                                                                   *)
(*                                                                         *)
(* One command runs alone, but nothing that it looks at stands still.  The *)
(* inductive invariant says what was read at each step (Judged, Gated),    *)
(* why two passes over names that change are a witness (Watching), and what*)
(* equal reads before and after the storage proof say of it (Bracketed).   *)
(***************************************************************************)
EXTENDS Reconcile, TLAPS

-----------------------------------------------------------------------------
(* The order of the steps.                                                  *)

Steps == {"adoption", "activation", "stop", "removal", "retirement", "names", "cleanup", "parents",
          "index", "binding", "credentials", "detail", "before", "filesBefore", "proof",
          "filesAfter", "after", "finish", "done"}

Position(step) ==
  CASE step = "adoption" -> 1 [] step = "activation" -> 2 [] step = "stop" -> 3
    [] step = "removal" -> 4 [] step = "retirement" -> 5 [] step = "names" -> 6
    [] step = "cleanup" -> 7 [] step = "parents" -> 8 [] step = "index" -> 9
    [] step = "binding" -> 10 [] step = "credentials" -> 11 [] step = "detail" -> 12
    [] step = "before" -> 13 [] step = "filesBefore" -> 14 [] step = "proof" -> 15
    [] step = "filesAfter" -> 16 [] step = "after" -> 17 [] step = "finish" -> 18
    [] step = "done" -> 19

LEMMA Positions ==
  /\ Position("adoption") = 1 /\ Position("activation") = 2 /\ Position("stop") = 3
  /\ Position("removal") = 4 /\ Position("retirement") = 5 /\ Position("names") = 6
  /\ Position("cleanup") = 7 /\ Position("parents") = 8 /\ Position("index") = 9
  /\ Position("binding") = 10 /\ Position("credentials") = 11 /\ Position("detail") = 12
  /\ Position("before") = 13 /\ Position("filesBefore") = 14 /\ Position("proof") = 15
  /\ Position("filesAfter") = 16 /\ Position("after") = 17 /\ Position("finish") = 18
  /\ Position("done") = 19
BY DEF Position

LEMMA OrderIsPositions ==
  /\ DOMAIN Order = 1..19
  /\ \A i \in 1..19 : Order[i] \in Steps /\ Position(Order[i]) = i
  /\ \A step \in Steps : Position(step) \in 1..19 /\ Order[Position(step)] = step
<1>1. DOMAIN Order = 1..19 BY DEF Order
<1>2. \A i \in 1..19 : Order[i] \in Steps /\ Position(Order[i]) = i
  BY Positions DEF Order, Steps
<1>3. \A step \in Steps : Position(step) \in 1..19 /\ Order[Position(step)] = step
  BY Positions DEF Order, Steps
<1> QED BY <1>1, <1>2, <1>3

\* A set of positions up to that of the storage proof has a first one.
LEMMA FirstPosition ==
  ASSUME NEW next \in SUBSET (1..19), 15 \in next
  PROVE  \E i \in next : \A j \in next : i <= j
<1> SUFFICES ASSUME \A i \in next : \E j \in next : j < i PROVE FALSE OBVIOUS
<1>1. 1 \notin next OBVIOUS
<1>2. 2 \notin next BY <1>1
<1>3. 3 \notin next BY <1>1, <1>2
<1>4. 4 \notin next BY <1>1, <1>2, <1>3
<1>5. 5 \notin next BY <1>1, <1>2, <1>3, <1>4
<1>6. 6 \notin next BY <1>1, <1>2, <1>3, <1>4, <1>5
<1>7. 7 \notin next BY <1>1, <1>2, <1>3, <1>4, <1>5, <1>6
<1>8. \A i \in 1..7 : i \notin next BY <1>1, <1>2, <1>3, <1>4, <1>5, <1>6, <1>7
<1>9. 8 \notin next BY <1>8
<1>10. 9 \notin next BY <1>8, <1>9
<1>11. 10 \notin next BY <1>8, <1>9, <1>10
<1>12. 11 \notin next BY <1>8, <1>9, <1>10, <1>11
<1>13. 12 \notin next BY <1>8, <1>9, <1>10, <1>11, <1>12
<1>14. 13 \notin next BY <1>8, <1>9, <1>10, <1>11, <1>12, <1>13
<1>15. 14 \notin next BY <1>8, <1>9, <1>10, <1>11, <1>12, <1>13, <1>14
<1> QED BY <1>8, <1>9, <1>10, <1>11, <1>12, <1>13, <1>14, <1>15

\* The next step is due, and none in between is.
Follows(step, at) ==
  /\ step \in Steps /\ Due(step) /\ at < Position(step) /\ Position(step) <= 15
  /\ \A other \in Steps : at < Position(other) /\ Position(other) < Position(step) => ~Due(other)

LEMMA NextIsDue ==
  ASSUME NEW at \in 0..14
  PROVE  LET next == {i \in DOMAIN Order : i > at /\ Due(Order[i])}
         IN  Follows(Order[CHOOSE i \in next : \A j \in next : i <= j], at)
<1> DEFINE next == {i \in DOMAIN Order : i > at /\ Due(Order[i])}
           i == CHOOSE i \in next : \A j \in next : i <= j
<1>1. next \in SUBSET (1..19) BY OrderIsPositions
<1>2. 15 \in next
  <2>1. Order[15] = "proof" BY DEF Order
  <2>2. Due("proof") BY DEF Due
  <2> QED BY <2>1, <2>2, OrderIsPositions
<1>3. \E k \in next : \A j \in next : k <= j BY <1>1, <1>2, FirstPosition
<1>4. i \in next /\ \A j \in next : i <= j BY <1>3
<1> HIDE DEF i
<1>5. /\ i \in 1..19 /\ i > at /\ Due(Order[i]) /\ i <= 15 /\ Order[i] \in Steps
      /\ Position(Order[i]) = i
  BY <1>2, <1>4, OrderIsPositions
<1>6. ASSUME NEW other \in Steps, at < Position(other), Position(other) < i PROVE ~Due(other)
  BY <1>4, <1>5, <1>6, OrderIsPositions
<1> QED BY <1>5, <1>6 DEF Follows, i

LEMMA OnwardFollows ==
  ASSUME NEW step \in Steps, Position(step) < 15 PROVE Follows(Onward(step), Position(step))
<1> DEFINE at == CHOOSE i \in DOMAIN Order : Order[i] = step
           next == {i \in DOMAIN Order : i > at /\ Due(Order[i])}
<1>1. at \in DOMAIN Order /\ Order[at] = step BY OrderIsPositions
<1>2. at = Position(step) BY <1>1, OrderIsPositions
<1>3. at \in 0..14 BY <1>2, OrderIsPositions
<1> HIDE DEF at
<1>4. Follows(Order[CHOOSE i \in next : \A j \in next : i <= j], at) BY <1>3, NextIsDue
<1> QED BY <1>2, <1>4 DEF Onward, at

LEMMA FirstFollows == Follows(FirstStep, 0)
<1> DEFINE due == {i \in DOMAIN Order : Due(Order[i])}
           next == {i \in DOMAIN Order : i > 0 /\ Due(Order[i])}
<1>1. next = due BY OrderIsPositions
<1>2. Follows(Order[CHOOSE i \in next : \A j \in next : i <= j], 0) BY NextIsDue
<1>3. FirstStep = Order[CHOOSE i \in due : \A j \in due : i <= j] BY DEF FirstStep
<1> HIDE DEF due, next
<1> QED BY <1>1, <1>2, <1>3

-----------------------------------------------------------------------------
(* The invariant.                                                           *)

At == Position(pc)
Past(step) == Position(step) < At

Bindings == {"none", "proven", "mismatch", "integrity", "failed"}
Proofs == {"verified", "bridge", "unavailable", "integrity", "incomplete", "ambiguous",
           "not_found", "error"}

NamesType ==
  [place : [Dirs -> Places], moved : SUBSET Dirs, todo : SUBSET Dirs, pass : 0..(Passes + 1),
   cleaned : SUBSET Dirs, together : SUBSET {"retirement", "cleanup"}]

Shapes ==
  /\ req \in Requests /\ pc \in Steps /\ (pc \in Histories => pc \in req.axes)
  /\ history \in [Histories -> [completion : BOOLEAN, reason : Reasons]]
  /\ removed \in [retained : SUBSET Histories, attempted : SUBSET Histories,
                  direct : SUBSET Histories, derived : SUBSET {"retirement"}]
  /\ names \in NamesType
  /\ gate \in {"ok", "failed", "integrity", "budget"} /\ binding \in Bindings
  /\ secrets \in BOOLEAN /\ detail \in {"none", "observed", "failed"}
  /\ job \in [queue : Queues \cup {NotRead}, layout : Layouts \cup {NotRead},
              turns : 0..MaxTurns,
              atProof : IF proof = NotRead THEN {NotRead}
                        ELSE (Queues \cup {NotRead}) \X (Layouts \cup {NotRead})]
  /\ bracket \in [before : Queues \cup {NotRead, "failed"}, after : Queues \cup {NotRead, "failed"},
                  filesBefore : Layouts \cup {NotRead, "failed"},
                  filesAfter : Layouts \cup {NotRead, "failed"}]
  /\ proof \in Proofs \cup {NotRead}
  /\ exit \in {"running", "unreported", "integrity", "error", "inconclusive", "reconciled", "reported"}
  /\ exit = "running" <=> pc # "done"

\* What a reason says of the completion beside it.
Keeps(h) ==
  IF h \in {"adoption", "activation"} THEN {"none"}
  ELSE IF h \in {"stop", "removal"} THEN {"none", "mismatch", "unproven"}
  ELSE {"none", "mismatch", "absence", "reappeared", "unavailable"}
Loses(h) ==
  IF h \in {"adoption", "activation"} THEN {"mismatch", "unavailable", "integrity", "prerequisite"}
  ELSE {"unavailable", "integrity", "prerequisite"}

\* A history is read once, at its step, when it was selected.
Judged(h) ==
  /\ h \notin req.axes \/ ~Past(h) => history[h] = NoEvidence
  /\ h \in req.axes /\ Past(h) =>
       history[h].reason \in (IF history[h].completion THEN Keeps(h) ELSE Loses(h))
  /\ history[h].completion /\ h \in {"stop", "removal", "retirement"} =>
       history["activation"].completion
  /\ history[h].completion /\ h = "cleanup" =>
       history["retirement"].completion /\ history["retirement"].reason # "mismatch"

\* The names that retirement and cleanup removed.
Absences ==
  /\ removed.direct \subseteq removed.attempted \cap names.together
  /\ removed.attempted \cap removed.retained = {}
  /\ removed.retained \cup removed.attempted \subseteq {"retirement", "cleanup"}
  /\ \A h \in removed.retained \cup removed.attempted : h \in req.axes /\ Past(h)
  /\ history["retirement"].reason = "none" /\ "retirement" \in req.axes /\ Past("names") =>
       "retirement" \in removed.direct \cup removed.derived
  /\ history["cleanup"].reason = "none" /\ "cleanup" \in req.axes /\ Past("parents") =>
       "cleanup" \in removed.direct
  /\ "retirement" \in removed.derived =>
       /\ "cleanup" \in removed.direct /\ names.cleaned = Dirs
       /\ history["retirement"] = [completion |-> TRUE, reason |-> "none"]
       /\ "retirement" \in removed.attempted \cup removed.retained
  /\ history["retirement"].completion /\ history["retirement"].reason # "mismatch" =>
       "retirement" \in removed.attempted \cup removed.retained
  /\ "cleanup" \in removed.direct => Past("parents")

\* Each name may change once while the two passes go over it.  After the first
\* pass some name is not absent only if it changed since it was seen, and then
\* the second pass cannot end.
Watching ==
  pc \in {"names", "parents"} =>
    LET dirs == Checked(Kind)
        absent(d) == names.place[d] = Wanted(Kind)
    IN /\ Kind \in req.axes /\ Kind \in removed.attempted
       /\ history[Kind] = [completion |-> TRUE, reason |-> "none"]
       /\ names.todo \subseteq dirs /\ names.pass \in 1..3
       /\ names.todo = {} => names.pass = 3 \/ dirs = {}
       /\ (\A d \in dirs : absent(d)) => Kind \in names.together
       /\ names.pass = 1 => \A d \in dirs \ names.todo : absent(d) \/ d \in names.moved
       /\ names.pass = 2 /\ Kind \notin names.together =>
            \E d \in names.todo : ~absent(d) /\ d \in names.moved
       /\ names.pass = 3 => names.todo = {} /\ Kind \in names.together

\* Credentials are read behind every gate, and whoever is asked is asked with them.
Gated ==
  /\ secrets => GatesPassed /\ Past("credentials")
  /\ pc \in {"detail", "before", "filesBefore"} \/ detail # "none" \/ bracket.before # NotRead => secrets

\* Reads of the queue and of the files, equal before and after the storage proof.
Bracketed ==
  /\ ~Past("before") => bracket = NoBracket
  /\ bracket.before \in Queues => job.queue \in Queues /\ job.layout \in Layouts
  /\ bracket.before \in Queues => bracket.before \in ExactJobs \/ bracket.filesBefore = NotRead
  /\ bracket.before \notin Queues => bracket.filesBefore = NotRead /\ bracket.after = NotRead
  /\ pc \in {"filesBefore", "filesAfter", "after"} => bracket.before \in Queues
  /\ pc = "filesBefore" => bracket.before \in ExactJobs
  /\ pc = "filesAfter" => bracket.filesBefore \in Layouts
  /\ bracket.filesBefore \notin Layouts => bracket.filesAfter = NotRead
  /\ ~Past("proof") => bracket.filesAfter = NotRead
  /\ ~Past("after") => bracket.after = NotRead
  /\ Past("proof") => pc = "done" \/ proof # NotRead
  /\ proof # NotRead => Past("proof") /\ proof \in Proofs

Steady ==
  job.turns <= 1 /\ bracket.before \in Queues =>
    /\ job.turns = 0 => job.queue = bracket.before
    /\ proof # NotRead /\ job.queue = bracket.before => job.atProof[1] = bracket.before
    /\ bracket.after = bracket.before => job.atProof[1] = bracket.before
    /\ bracket.filesBefore \in Layouts =>
         /\ job.turns = 0 => job.layout = bracket.filesBefore
         /\ proof # NotRead /\ job.layout = bracket.filesBefore => job.atProof[2] = bracket.filesBefore
         /\ bracket.filesAfter = bracket.filesBefore => job.atProof[2] = bracket.filesBefore

\* The binding is loaded for a request that names one.
Asked == pc = "binding" \/ binding # "none" => req.binding

\* The exit status was taken from the verdict.
Exited ==
  pc = "done" /\ exit # "unreported" =>
    /\ proof # NotRead
    /\ exit = "integrity" <=> IntegrityFailed
    /\ exit = "reconciled" => Outcome = "consistent"

CInv ==
  /\ Shapes /\ (\A h \in Histories : Judged(h))
  /\ Absences /\ Watching /\ Gated /\ Bracketed /\ Steady /\ Exited

-----------------------------------------------------------------------------
(* What the invariant says of a report.                                     *)

LEMMA PastDone ==
  ASSUME CInv, pc = "done", NEW step \in Steps, step # "done" PROVE Past(step)
  BY Positions DEF Past, At, Steps

\* A selected history of a report, and what it rests on.
LEMMA ReportedHistories ==
  ASSUME CInv, pc = "done", NEW h \in req.axes
  PROVE  /\ h \in Histories
         /\ history[h].reason \in (IF history[h].completion THEN Keeps(h) ELSE Loses(h))
         /\ history[h] = [completion |-> history[h].completion, reason |-> history[h].reason]
<1>1. h \in Histories BY RequestsAreLegal DEF CInv, Shapes, LegalRequest
<1>2. Past(h) BY <1>1, PastDone DEF Histories, Steps
<1>3. Judged(h) BY <1>1 DEF CInv
<1>4. history[h] \in [completion : BOOLEAN, reason : Reasons] BY <1>1 DEF CInv, Shapes
<1> QED BY <1>1, <1>2, <1>3, <1>4 DEF Judged

LEMMA CredentialsFollow == CInv => CredentialsComeLast
<1> SUFFICES ASSUME CInv PROVE CredentialsComeLast OBVIOUS
<1>1. detail # "none" \/ bracket.before # NotRead => secrets BY DEF CInv, Gated
<1>2. ASSUME secrets
      PROVE  /\ \A h \in req.axes : history[h] = [completion |-> TRUE, reason |-> "none"]
             /\ gate = "ok" /\ (req.binding => binding = "proven")
             /\ "retirement" \in req.axes => names.together # {}
             /\ "cleanup" \in req.axes => "cleanup" \in names.together
  <2>1. GatesPassed /\ Past("credentials") BY <1>2 DEF CInv, Gated
  <2>2. /\ Past("names") /\ Past("parents") /\ \A h \in Histories : Past(h)
    BY <2>1, Positions, OrderIsPositions DEF Past, At, Histories, CInv, Shapes
  <2>3. ASSUME NEW h \in req.axes PROVE history[h] = [completion |-> TRUE, reason |-> "none"]
    <3>1. h \in Histories BY RequestsAreLegal DEF CInv, Shapes, LegalRequest
    <3>2. history[h] \in [completion : BOOLEAN, reason : Reasons] BY <3>1 DEF CInv, Shapes
    <3>3. history[h].reason = "none" BY <2>1 DEF GatesPassed
    <3>4. history[h].completion BY <2>2, <3>1, <3>3 DEF CInv, Judged, Loses
    <3> QED BY <3>2, <3>3, <3>4
  <2>4. "retirement" \in req.axes => names.together # {}
    BY <2>2, <2>3 DEF CInv, Absences
  <2>5. "cleanup" \in req.axes => "cleanup" \in names.together
    BY <2>2, <2>3 DEF CInv, Absences
  <2> QED BY <2>1, <2>3, <2>4, <2>5 DEF GatesPassed
<1> QED BY <1>1, <1>2 DEF CredentialsComeLast

\* What a status says of the record and of the job.
LEMMA BoundIsProved ==
  ASSUME CInv, pc = "done", NEW h \in req.axes, Status(h) \in {"bound", "bound_to_absence"}
  PROVE  /\ history[h] = [completion |-> TRUE, reason |-> "none"]
         /\ h = "stop" => bracket.after = "stopped" /\ PathStatus = "same_location"
         /\ h = "removal" => ClientStatus = "absent"
         /\ h = "retirement" => ~Unattempted
<1>1. /\ h \in Histories
      /\ history[h].reason \in (IF history[h].completion THEN Keeps(h) ELSE Loses(h))
      /\ history[h] = [completion |-> history[h].completion, reason |-> history[h].reason]
  BY ReportedHistories
<1>2. CASE h = "adoption"
  <2>1. AdoptionStatus = Status(h) BY <1>2 DEF Status
  <2>2. history[h].reason = "none" BY <1>2, <2>1 DEF AdoptionStatus, Unproved
  <2>3. history[h].completion BY <1>1, <1>2, <2>2 DEF Loses
  <2> QED BY <1>1, <1>2, <2>2, <2>3
<1>3. CASE h = "activation"
  <2>1. ActivationStatus = Status(h) BY <1>3 DEF Status
  <2>2. history[h].completion BY <1>3, <2>1 DEF ActivationStatus, Unproved
  <2>3. history[h].reason = "none" BY <1>1, <1>3, <2>2 DEF Keeps
  <2> QED BY <1>1, <1>3, <2>2, <2>3
<1>4. CASE h = "stop"
  <2>1. StopStatus = Status(h) BY <1>4 DEF Status
  <2>2. history[h].completion /\ history[h].reason = "none" /\ ActivationStatus = "bound"
        /\ bracket.after = "stopped"
    BY <1>4, <2>1 DEF StopStatus, Unproved
  <2>3. PathStatus = "same_location" BY <2>2 DEF ActivationStatus, Unproved
  <2> QED BY <1>1, <1>4, <2>2, <2>3
<1>5. CASE h = "removal"
  <2>1. RemovalStatus = Status(h) BY <1>5 DEF Status
  <2>2. history[h].completion /\ history[h].reason = "none" /\ ActivationStatus = "bound_to_absence"
    BY <1>5, <2>1 DEF RemovalStatus, Unproved
  <2>3. ClientStatus = "absent" BY <2>2 DEF ActivationStatus, Unproved
  <2> QED BY <1>1, <1>5, <2>2, <2>3
<1>6. CASE h = "retirement"
  <2>1. RetirementStatus = Status(h) BY <1>6 DEF Status
  <2>2. history[h].completion /\ history[h].reason = "none" /\ ~Unattempted
    BY <1>6, <2>1 DEF RetirementStatus, Unproved
  <2> QED BY <1>1, <1>6, <2>2
<1>7. CASE h = "cleanup"
  <2>1. CleanupStatus = Status(h) BY <1>7 DEF Status
  <2>2. history[h].completion /\ history[h].reason = "none"
    BY <1>7, <2>1 DEF CleanupStatus, Unproved
  <2> QED BY <1>1, <1>7, <2>2
<1> QED BY <1>1, <1>2, <1>3, <1>4, <1>5, <1>6, <1>7 DEF Histories

-----------------------------------------------------------------------------
(* What a step does to the position.                                        *)

LEMMA AtNow == ASSUME Shapes PROVE At \in 1..19 /\ Order[At] = pc
BY OrderIsPositions DEF Shapes, At

LEMMA AtNext == At' = Position(pc') /\ \A step : Past(step)' <=> Position(step) < Position(pc')
BY DEF At, Past, Position

\* Only the steps that the request calls for are due.
LEMMA DueSteps ==
  ASSUME Shapes
  PROVE  /\ req.axes \subseteq Histories
         /\ \A h \in Histories : Due(h) <=> h \in req.axes
         /\ ~Due("names") /\ ~Due("parents")
         /\ Due("detail") \/ Due("before") => Due("credentials")
         /\ ~Due("filesBefore")
<1>1. req.axes \subseteq Histories BY RequestsAreLegal DEF Shapes, LegalRequest
<1> QED BY <1>1 DEF Due, Selected, Histories

\* A step to the next one that is due.
LEMMA Moving ==
  ASSUME Shapes, At < 15, pc' = Onward(pc), req' = req
  PROVE  /\ pc' \in Steps /\ At < At' /\ At' <= 15 /\ pc' # "done" /\ pc # "done"
         /\ \A step \in Steps : Past(step)' => Past(step) \/ step = pc \/ ~Due(step)
         /\ \A h \in req.axes : Past(h)' => Past(h) \/ h = pc
         /\ pc' \notin {"names", "parents", "filesBefore"}
         /\ At <= 10 => pc' \notin {"detail", "before"}
         /\ pc' \in Histories => pc' \in req.axes
<1>1. Follows(Onward(pc), Position(pc)) BY OnwardFollows DEF Shapes, At
<1>2. /\ pc' \in Steps /\ Due(pc') /\ At < At' /\ At' <= 15
      /\ \A other \in Steps : At < Position(other) /\ Position(other) < At' => ~Due(other)
  BY <1>1, AtNext DEF Follows, At
<1>3. \A step \in Steps : Past(step)' => Past(step) \/ step = pc \/ ~Due(step)
  <2> SUFFICES ASSUME NEW step \in Steps, Past(step)', ~Past(step), step # pc PROVE ~Due(step)
    OBVIOUS
  <2>1. Position(step) \in 1..19 /\ Order[Position(step)] = step BY OrderIsPositions
  <2>2. Position(step) # At BY <2>1, AtNow
  <2>3. At < Position(step) BY <2>1, <2>2, AtNow DEF Past
  <2> QED BY <1>2, <2>3, AtNext
<1>4. req.axes \subseteq Histories /\ Histories \subseteq Steps BY DueSteps DEF Histories, Steps
<1>5. \A h \in req.axes : Past(h)' => Past(h) \/ h = pc BY <1>3, <1>4, DueSteps
<1>6. pc' \notin {"names", "parents", "filesBefore"} BY <1>2, DueSteps
<1>7. ASSUME At <= 10 PROVE pc' \notin {"detail", "before"}
  <2>1. SUFFICES ASSUME pc' \in {"detail", "before"} PROVE FALSE OBVIOUS
  <2>2. Due("credentials") BY <1>2, <2>1, DueSteps
  <2>3. At < Position("credentials") /\ Position("credentials") < At'
    BY <1>7, <2>1, Positions, AtNext, AtNow
  <2> QED BY <1>2, <2>2, <2>3 DEF Steps
<1>8. pc' \in Histories => pc' \in req.axes BY <1>2, DueSteps
<1>9. pc' # "done" /\ pc # "done" BY <1>2, AtNext, Positions DEF At
<1> QED BY <1>2, <1>3, <1>5, <1>6, <1>7, <1>8, <1>9

-----------------------------------------------------------------------------
(* What the steps before the credentials, and those after the names, leave  *)
(* alone.                                                                   *)

LEMMA EarlyNow ==
  ASSUME CInv, At <= 10
  PROVE  secrets = FALSE /\ detail = "none" /\ bracket = NoBracket /\ proof = NotRead /\ pc # "done"
<1>1. At \in 1..19 BY AtNow DEF CInv
<1>2. ~Past("credentials") /\ ~Past("before") /\ ~Past("proof") /\ pc # "done"
  BY <1>1, Positions DEF Past, At
<1>3. secrets = FALSE BY <1>2 DEF CInv, Gated, Shapes
<1>4. bracket = NoBracket /\ proof = NotRead /\ detail = "none" BY <1>2, <1>3 DEF CInv, Gated, Bracketed
<1> QED BY <1>2, <1>3, <1>4

LEMMA EarlyStays ==
  ASSUME CInv, At <= 10, UNCHANGED <<req, secrets, detail, job, bracket, proof, exit>>,
         pc' \in Steps, At' <= 15, pc' \notin {"detail", "before", "filesBefore"}
  PROVE  Gated' /\ Bracketed' /\ Steady' /\ Exited'
<1>1. secrets' = FALSE /\ detail' = "none" /\ bracket' = NoBracket /\ proof' = NotRead BY EarlyNow
<1>2. At' = Position(pc') /\ At' \in 1..15 BY AtNext, OrderIsPositions
<1>3. pc' \notin {"done", "filesAfter", "after", "finish"} BY <1>2, Positions
<1>4. ~Past("proof")' /\ ~Past("after")' BY <1>2, AtNext, Positions
<1>5. NoBracket.before = NotRead /\ NoBracket.filesBefore = NotRead /\ NoBracket.filesAfter = NotRead
      /\ NoBracket.after = NotRead
  BY DEF NoBracket
<1>6. NotRead \notin Queues BY DEF NotRead, Queues, ExactJobs
<1>7. Gated' BY <1>1, <1>5 DEF Gated
<1>8. Bracketed' BY <1>1, <1>3, <1>4, <1>5, <1>6 DEF Bracketed
<1>9. Steady' BY <1>1, <1>5, <1>6 DEF Steady
<1>10. Exited' BY <1>3 DEF Exited
<1> QED BY <1>7, <1>8, <1>9, <1>10

LEMMA LateStays ==
  ASSUME CInv, 9 <= At, UNCHANGED <<req, history, removed, names>>, pc' \in Steps, At <= At'
  PROVE  (\A h \in Histories : Judged(h)') /\ Absences' /\ Watching'
<1>1. At \in 1..19 /\ At' \in 1..19 /\ At' = Position(pc') BY AtNow, AtNext, OrderIsPositions DEF CInv
<1>2. \A step \in Histories \cup {"names", "parents"} : Past(step) /\ Past(step)'
  BY <1>1, Positions, AtNext DEF Past, Histories
<1>3. pc' \notin {"names", "parents"} BY <1>1, Positions
<1>4. ASSUME NEW h \in Histories PROVE Judged(h)' BY <1>2 DEF CInv, Judged
<1>5. Absences'
  <2>1. Absences BY DEF CInv
  <2>2. \A h \in removed.retained \cup removed.attempted : Past(h)'
    BY <1>2, <2>1 DEF Absences, Histories
  <2>3. Past("names") /\ Past("names")' /\ Past("parents") /\ Past("parents")' BY <1>2
  <2> QED BY <2>1, <2>2, <2>3 DEF Absences
<1>6. Watching' BY <1>3 DEF Watching
<1> QED BY <1>4, <1>5, <1>6

-----------------------------------------------------------------------------
(* The terminal records.                                                    *)

\* A completion rests on another one.
Founded(h) ==
  /\ h \in {"stop", "removal", "retirement"} => history["activation"].completion
  /\ h = "cleanup" => history["retirement"].completion /\ history["retirement"].reason # "mismatch"

LEMMA JudgedHere ==
  ASSUME CInv, pc \in Histories, NEW e \in [completion : BOOLEAN, reason : Reasons],
         e.reason \in (IF e.completion THEN Keeps(pc) ELSE Loses(pc)), e.completion => Founded(pc),
         history' = [history EXCEPT ![pc] = e], req' = req, pc' \in Steps, At < At',
         \A h \in req.axes : Past(h)' => Past(h) \/ h = pc
  PROVE  /\ \A h \in Histories : Judged(h)'
         /\ history' \in [Histories -> [completion : BOOLEAN, reason : Reasons]]
<1>1. history' \in [Histories -> [completion : BOOLEAN, reason : Reasons]] BY DEF CInv, Shapes
<1>2. history'[pc] = e /\ \A h \in Histories \ {pc} : history'[h] = history[h] BY DEF CInv, Shapes
<1>3. (\A h \in Histories : h = pc => Past(h)') /\ ~Past(pc) /\ pc \in req.axes /\ history[pc] = NoEvidence
  <2>1. pc \in Steps /\ Position(pc) = At BY DEF Histories, Steps, At
  <2>2. At \in 1..19 /\ At' \in 1..19 /\ At' = Position(pc')
    BY AtNow, AtNext, OrderIsPositions DEF CInv
  <2>3. \A step : Past(step)' <=> Position(step) < Position(pc') BY AtNext
  <2>4. ~Past(pc) BY <2>1, <2>2 DEF Past
  <2> QED BY <2>1, <2>2, <2>3, <2>4 DEF CInv, Judged, Shapes
<1>4. \A h \in Histories : Past(h) => Past(h)'
  <2> SUFFICES ASSUME NEW h \in Histories, Past(h) PROVE Past(h)' OBVIOUS
  <2>1. Position(h) \in 1..19 BY OrderIsPositions DEF Histories, Steps
  <2>2. At \in 1..19 /\ At' \in 1..19 BY AtNow, AtNext, OrderIsPositions DEF CInv
  <2> QED BY <2>1, <2>2, AtNext DEF Past
<1>5. \A h \in Histories : history[h].completion => Past(h)
  BY DEF CInv, Judged, NoEvidence
<1>7. /\ pc # "activation" => history'["activation"] = history["activation"]
      /\ pc # "retirement" => history'["retirement"] = history["retirement"]
  BY <1>2 DEF Histories
<1>6. ASSUME NEW h \in Histories PROVE Judged(h)'
  <2> USE <1>2
  <2>0. Judged(h) BY DEF CInv
  <2>1. h \notin req.axes \/ ~Past(h)' => history'[h] = NoEvidence
    BY <1>3, <1>4, <2>0 DEF Judged
  <2>2. h \in req.axes /\ Past(h)' =>
          history'[h].reason \in (IF history'[h].completion THEN Keeps(h) ELSE Loses(h))
    BY <2>0 DEF Judged
  <2>3. history'[h].completion => Founded(h)'
    <3>1. CASE h = pc
      <4>1. history'[h].completion => Founded(h) BY <1>2, <3>1
      <4> QED BY <1>7, <3>1, <4>1 DEF Founded
    <3>2. CASE h # pc /\ history'[h].completion
      <4>1. history[h].completion /\ Past(h) BY <1>2, <1>5, <3>2
      <4>2. Founded(h) BY <4>1 DEF Founded, CInv, Judged
      <4>3. h \in {"stop", "removal", "retirement"} => pc # "activation"
        BY <1>3, <1>5, <4>2 DEF Founded, Histories
      <4>4. h = "cleanup" => pc # "retirement"
        BY <1>3, <1>5, <4>2 DEF Founded, Histories
      <4> QED BY <1>7, <4>2, <4>3, <4>4 DEF Founded
    <3> QED BY <3>1, <3>2
  <2> QED BY <1>2, <2>1, <2>2, <2>3 DEF Judged, Founded
<1> QED BY <1>1, <1>6

\* A check of names ends with another reason beside the same completion.
LEMMA ReasonChanges ==
  ASSUME CInv, NEW k \in {"retirement", "cleanup"}, NEW r \in Keeps(k), history[k].completion,
         k = "retirement" => r # "mismatch", history' = [history EXCEPT ![k].reason = r],
         req' = req, 6 <= At, k = "cleanup" => 8 <= At, pc' \in Steps, At < At',
         \A h \in req.axes : Past(h)' => Past(h) \/ h = pc, pc # "cleanup"
  PROVE  /\ \A h \in Histories : Judged(h)'
         /\ history' \in [Histories -> [completion : BOOLEAN, reason : Reasons]]
         /\ history'[k] = [completion |-> TRUE, reason |-> r]
         /\ \A h \in Histories \ {k} : history'[h] = history[h]
<1>1. r \in Reasons BY DEF Keeps, Reasons
<1>2. history[k] \in [completion : BOOLEAN, reason : Reasons] /\ k \in Histories
  BY DEF CInv, Shapes, Histories
<1>3. history'[k] = [completion |-> TRUE, reason |-> r] BY <1>2 DEF CInv, Shapes
<1>4. history' \in [Histories -> [completion : BOOLEAN, reason : Reasons]]
  BY <1>1, <1>2 DEF CInv, Shapes
<1>5. \A h \in Histories \ {k} : history'[h] = history[h] BY DEF CInv, Shapes
<1>6. ASSUME NEW h \in Histories PROVE Judged(h)'
  <2>1. Judged(h) /\ Judged(k) /\ Judged("retirement") /\ Judged("activation")
    BY <1>2 DEF CInv, Histories
  <2>2. At \in 1..19 /\ At' \in 1..19 /\ At' = Position(pc')
    BY AtNow, AtNext, OrderIsPositions DEF CInv
  <2>3. h \in Steps /\ Position(h) \in 1..19 BY OrderIsPositions DEF Histories, Steps
  <2>4. Past(h) => Past(h)' BY <2>2, <2>3, AtNext DEF Past
  <2>5. h \in req.axes /\ Past(h)' => Past(h)
    <3>1. pc \notin Histories
      <4>1. Position(pc) = At BY DEF At
      <4> QED BY <4>1, <2>2, Positions DEF Histories
    <3> QED BY <3>1
  <2>6. k \in req.axes /\ Past(k)
    BY <1>2, <2>1, <2>2, Positions DEF Judged, Past, NoEvidence
  <2>7. h = k => Past(h)' BY <2>4, <2>6
  <2>8. history'["activation"] = history["activation"] /\ history'["retirement"].completion = history["retirement"].completion
    BY <1>2, <1>3, <1>5 DEF Histories
  <2>9. history["retirement"].reason # "mismatch" => history'["retirement"].reason # "mismatch"
    BY <1>3, <1>5 DEF Histories
  <2>10. history'[h].completion = history[h].completion BY <1>3, <1>5
  <2>11. h \notin req.axes \/ ~Past(h)' => history'[h] = NoEvidence
    BY <1>5, <2>1, <2>4, <2>6, <2>7 DEF Judged
  <2>12. h \in req.axes /\ Past(h)' =>
           history'[h].reason \in (IF history'[h].completion THEN Keeps(h) ELSE Loses(h))
    BY <1>3, <1>5, <2>1, <2>5 DEF Judged
  <2> QED BY <2>1, <2>8, <2>9, <2>10, <2>11, <2>12 DEF Judged
<1> QED BY <1>3, <1>4, <1>5, <1>6

\* An answer fits the history it is about.
LEMMA FoundFits ==
  ASSUME NEW h \in Histories, NEW answer \in Answers(h)
  PROVE  /\ Found(h, answer) \in [completion : BOOLEAN, reason : Reasons]
         /\ Found(h, answer).reason = answer
         /\ answer \in (IF Found(h, answer).completion THEN Keeps(h) ELSE Loses(h))
<1>1. answer \in Reasons BY DEF Answers, Reasons
<1>2. Found(h, answer) \in [completion : BOOLEAN, reason : Reasons] BY <1>1 DEF Found
<1>3. Found(h, answer).reason = answer BY DEF Found
<1>4. answer \in (IF Found(h, answer).completion THEN Keeps(h) ELSE Loses(h))
  BY DEF Found, Answers, Keeps, Loses, Histories
<1> QED BY <1>2, <1>3, <1>4

\* A skipped history fits too.
LEMMA SkippedFits ==
  ASSUME NEW h \in Histories, NEW e, e = [completion |-> FALSE, reason |-> "prerequisite"]
  PROVE  /\ e \in [completion : BOOLEAN, reason : Reasons]
         /\ e.reason \in (IF e.completion THEN Keeps(h) ELSE Loses(h))
BY DEF Reasons, Loses

LEMMA UnfoundedIsNotFounded == ASSUME NEW h \in Histories PROVE Unfounded(h) <=> ~Founded(h)
BY DEF Unfounded, Founded, Histories

\* Nothing of the removed names is known before the first of the two records.
LEMMA NothingRemoved ==
  ASSUME CInv, At <= 5
  PROVE  /\ removed.retained = {} /\ removed.attempted = {} /\ removed.direct = {} /\ removed.derived = {}
         /\ history["retirement"] = NoEvidence /\ history["cleanup"] = NoEvidence
<1>1. At \in 1..19 BY AtNow DEF CInv
<1>2. ~Past("retirement") /\ ~Past("cleanup") BY <1>1, Positions DEF Past
<1>3. removed.retained = {} /\ removed.attempted = {} /\ removed.direct = {}
  BY <1>2 DEF CInv, Absences
<1>4. removed.derived = {} BY <1>3 DEF CInv, Absences, Shapes
<1>5. history["retirement"] = NoEvidence /\ history["cleanup"] = NoEvidence
  BY <1>2 DEF CInv, Judged, Histories
<1> QED BY <1>3, <1>4, <1>5

-----------------------------------------------------------------------------
(* The steps up to the site binding.                                        *)

\* The four histories that removed no names.
LEMMA ReadHistoryKeeps == ASSUME CInv, NEW h \in Histories, ReadHistory(h) PROVE CInv'
<1>1. /\ pc = h /\ h \in {"adoption", "activation", "stop", "removal"} /\ pc' = Onward(pc)
      /\ UNCHANGED <<req, removed, names, gate, binding, secrets, detail, job, bracket, proof, exit>>
  BY DEF ReadHistory, Histories
<1>2. At <= 4 /\ At \in 1..19 BY <1>1, Positions DEF At
<1>3. /\ pc' \in Steps /\ At < At' /\ At' <= 15 /\ pc' \notin {"done", "names", "parents", "filesBefore"}
      /\ pc # "done"
      /\ \A k \in req.axes : Past(k)' => Past(k) \/ k = pc
      /\ pc' \notin {"detail", "before"} /\ (pc' \in Histories => pc' \in req.axes)
  BY <1>1, <1>2, Moving DEF CInv
<1>4. PICK e \in [completion : BOOLEAN, reason : Reasons] :
        /\ e.reason \in (IF e.completion THEN Keeps(pc) ELSE Loses(pc))
        /\ e.completion => Founded(pc)
        /\ history' = [history EXCEPT ![pc] = e]
  <2>1. CASE Unfounded(h)
    <3> DEFINE e == [completion |-> FALSE, reason |-> "prerequisite"]
    <3>1. history' = [history EXCEPT ![pc] = e] BY <1>1, <2>1 DEF ReadHistory, Skip
    <3>2. e \in [completion : BOOLEAN, reason : Reasons] /\ ~e.completion
          /\ e.reason \in (IF e.completion THEN Keeps(pc) ELSE Loses(pc))
      BY <1>1 DEF Reasons, Loses
    <3> HIDE DEF e
    <3> QED BY <3>1, <3>2
  <2>2. CASE ~Unfounded(h)
    <3>1. PICK answer \in Answers(h) : history' = [history EXCEPT ![pc] = Found(h, answer)]
      BY <1>1, <2>2 DEF ReadHistory, Judge
    <3>2. Founded(pc) BY <1>1, <2>2, UnfoundedIsNotFounded
    <3> QED BY <1>1, <3>1, <3>2, FoundFits
  <2> QED BY <2>1, <2>2
<1>5. /\ \A k \in Histories : Judged(k)'
      /\ history' \in [Histories -> [completion : BOOLEAN, reason : Reasons]]
  BY <1>1, <1>3, <1>4, JudgedHere
<1>6. Shapes' BY <1>1, <1>3, <1>5 DEF CInv, Shapes
<1>7. history'["retirement"] = NoEvidence /\ history'["cleanup"] = NoEvidence
  BY <1>1, <1>2, <1>4, NothingRemoved DEF CInv, Shapes, Histories
<1>8. "retirement" \in req.axes => ~Past("names")'
  <2> SUFFICES ASSUME "retirement" \in req.axes, Past("names")' PROVE FALSE OBVIOUS
  <2>1. At' = Position(pc') /\ At' \in 1..19 /\ 6 < At' BY <1>3, AtNext, OrderIsPositions, Positions
  <2>2. Past("retirement")' BY <2>1, AtNext, Positions
  <2>3. ~Past("retirement") BY <1>2, Positions DEF Past
  <2> QED BY <1>1, <1>3, <2>2, <2>3
<1>9. "cleanup" \in req.axes => ~Past("parents")'
  <2> SUFFICES ASSUME "cleanup" \in req.axes, Past("parents")' PROVE FALSE OBVIOUS
  <2>1. At' = Position(pc') /\ At' \in 1..19 /\ 8 < At' BY <1>3, AtNext, OrderIsPositions, Positions
  <2>2. Past("cleanup")' BY <2>1, AtNext, Positions
  <2>3. ~Past("cleanup") BY <1>2, Positions DEF Past
  <2> QED BY <1>1, <1>3, <2>2, <2>3
<1>10. Absences' BY <1>1, <1>2, <1>7, <1>8, <1>9, NothingRemoved DEF Absences, NoEvidence
<1>11. Watching' BY <1>3 DEF Watching
<1>12. Gated' /\ Bracketed' /\ Steady' /\ Exited' BY <1>1, <1>2, <1>3, EarlyStays
<1> QED BY <1>5, <1>6, <1>10, <1>11, <1>12 DEF CInv

\* What it is to look at the names of one kind, from the first pass to the last.
WatchingOf(kind, dirs) ==
  /\ kind \in req.axes /\ kind \in removed.attempted
  /\ history[kind] = [completion |-> TRUE, reason |-> "none"]
  /\ names.todo \subseteq dirs /\ names.pass \in 1..3
  /\ names.todo = {} => names.pass = 3 \/ dirs = {}
  /\ (\A d \in dirs : names.place[d] = Wanted(kind)) => kind \in names.together
  /\ names.pass = 1 => \A d \in dirs \ names.todo : names.place[d] = Wanted(kind) \/ d \in names.moved
  /\ names.pass = 2 /\ kind \notin names.together =>
       \E d \in names.todo : names.place[d] # Wanted(kind) /\ d \in names.moved
  /\ names.pass = 3 => names.todo = {} /\ kind \in names.together

LEMMA WatchingIs ==
  Watching <=> /\ pc = "names" => WatchingOf("retirement", Dirs)
               /\ pc = "parents" => WatchingOf("cleanup", names.cleaned)
BY DEF Watching, WatchingOf, Kind, Checked

LEMMA WatchingNext ==
  Watching' <=> /\ pc' = "names" => WatchingOf("retirement", Dirs)'
                /\ pc' = "parents" => WatchingOf("cleanup", names.cleaned)'
BY DEF Watching, WatchingOf, Kind, Checked

\* The first look begins with every name still to be seen.
LEMMA Begins ==
  ASSUME Shapes, NEW kind \in {"retirement", "cleanup"}, NEW place \in [Dirs -> Places],
         NEW dirs \in SUBSET Dirs, BeginCheck(kind, place, dirs),
         kind \in req.axes, req' = req, kind \in removed'.attempted,
         history'[kind] = [completion |-> TRUE, reason |-> "none"]
  PROVE  /\ names' \in NamesType /\ names.together \subseteq names'.together
         /\ names'.cleaned = (IF kind = "cleanup" THEN dirs ELSE names.cleaned)
         /\ WatchingOf(kind, dirs)'
<1>1. /\ names'.place = place /\ names'.todo = dirs /\ names'.pass = 1
      /\ names'.together = names.together \cup (IF AllAbsent(kind, place, dirs) THEN {kind} ELSE {})
      /\ names'.cleaned = (IF kind = "cleanup" THEN dirs ELSE names.cleaned)
      /\ names' \in NamesType
  <2>1. names \in NamesType BY DEF Shapes
  <2> DEFINE together == names.together \cup (IF AllAbsent(kind, place, dirs) THEN {kind} ELSE {})
             cleaned == IF kind = "cleanup" THEN dirs ELSE names.cleaned
  <2>2. names' = [names EXCEPT !.place = place, !.todo = dirs, !.pass = 1, !.cleaned = cleaned,
                               !.together = together]
    BY DEF BeginCheck, Witnessed
  <2>3. together \in SUBSET {"retirement", "cleanup"} /\ cleaned \in SUBSET Dirs /\ 1 \in 0..(Passes + 1)
    BY <2>1 DEF NamesType, Passes
  <2> HIDE DEF together, cleaned
  <2>4. /\ names'.place = place /\ names'.todo = dirs /\ names'.pass = 1
        /\ names'.together = together /\ names'.cleaned = cleaned /\ names' \in NamesType
    BY <2>1, <2>2, <2>3 DEF NamesType
  <2> QED BY <2>4 DEF together, cleaned
<1>2. (\A d \in dirs : names'.place[d] = Wanted(kind)) => kind \in names'.together
  BY <1>1 DEF AllAbsent
<1> QED BY <1>1, <1>2 DEF WatchingOf

LEMMA ReadRetirementKeeps == ASSUME CInv, ReadRetirement PROVE CInv'
<1>1. /\ pc = "retirement" /\ "retirement" \in req.axes
      /\ UNCHANGED <<req, gate, binding, secrets, detail, job, bracket, proof, exit>>
  BY DEF ReadRetirement, CInv, Shapes, Histories
<1>2. At = 5 /\ At \in 1..19 BY <1>1, Positions DEF At
<1>3. PICK e \in [completion : BOOLEAN, reason : Reasons] :
        /\ e.reason \in (IF e.completion THEN Keeps("retirement") ELSE Loses("retirement"))
        /\ e.completion => Founded("retirement")
        /\ history' = [history EXCEPT !["retirement"] = e]
        /\ \/ /\ pc' = Onward(pc) /\ UNCHANGED names /\ e.reason # "none"
              /\ \/ removed' = removed /\ (e.completion => e.reason = "mismatch")
                 \/ removed' = [removed EXCEPT !.retained = @ \cup {"retirement"}]
           \/ /\ pc' = "names" /\ e = [completion |-> TRUE, reason |-> "none"]
              /\ removed' = [removed EXCEPT !.attempted = @ \cup {"retirement"}]
              /\ \E place \in [Dirs -> Places] : BeginCheck("retirement", place, Dirs)
  <2>1. CASE Unfounded("retirement") /\ Skip("retirement") /\ pc' = Onward("retirement")
             /\ UNCHANGED <<removed, names>>
    <3> DEFINE e == [completion |-> FALSE, reason |-> "prerequisite"]
    <3>1. history' = [history EXCEPT !["retirement"] = e] BY <2>1 DEF Skip
    <3>2. /\ e \in [completion : BOOLEAN, reason : Reasons] /\ ~e.completion /\ e.reason # "none"
          /\ e.reason \in (IF e.completion THEN Keeps("retirement") ELSE Loses("retirement"))
      BY DEF Reasons, Loses
    <3> HIDE DEF e
    <3> QED BY <1>1, <2>1, <3>1, <3>2
  <2>2. CASE /\ ~Unfounded("retirement")
             /\ \E answer \in Answers("retirement") \ {"none"} : Judge("retirement", answer)
             /\ pc' = Onward("retirement") /\ UNCHANGED <<removed, names>>
    <3>1. PICK answer \in Answers("retirement") \ {"none"} :
            history' = [history EXCEPT !["retirement"] = Found("retirement", answer)]
      BY <2>2 DEF Judge
    <3>2. Founded("retirement") BY <2>2, UnfoundedIsNotFounded DEF Histories
    <3>3. Found("retirement", answer).completion => answer = "mismatch"
      BY DEF Found, Answers
    <3>4. Found("retirement", answer).reason = answer /\ answer # "none" BY DEF Found
    <3>5. "retirement" \in Histories BY DEF Histories
    <3> DEFINE e == Found("retirement", answer)
    <3>6. /\ e \in [completion : BOOLEAN, reason : Reasons] /\ e.reason = answer
          /\ e.reason \in (IF e.completion THEN Keeps("retirement") ELSE Loses("retirement"))
      BY <3>4, <3>5, FoundFits
    <3> HIDE DEF e
    <3> QED BY <1>1, <2>2, <3>1, <3>2, <3>3, <3>4, <3>6 DEF e
  <2>3. CASE /\ ~Unfounded("retirement")
             /\ history' = [history EXCEPT !["retirement"] = [completion |-> TRUE, reason |-> "absence"]]
             /\ removed' = [removed EXCEPT !.retained = @ \cup {"retirement"}]
             /\ pc' = Onward("retirement") /\ UNCHANGED names
    <3> DEFINE e == [completion |-> TRUE, reason |-> "absence"]
    <3>1. history' = [history EXCEPT !["retirement"] = e] BY <2>3
    <3>2. Founded("retirement") BY <2>3, UnfoundedIsNotFounded DEF Histories
    <3>3. /\ e \in [completion : BOOLEAN, reason : Reasons] /\ e.reason # "none"
          /\ e.reason \in (IF e.completion THEN Keeps("retirement") ELSE Loses("retirement"))
      BY DEF Reasons, Keeps
    <3> HIDE DEF e
    <3> QED BY <1>1, <2>3, <3>1, <3>2, <3>3
  <2>4. CASE /\ ~Unfounded("retirement") /\ Judge("retirement", "none")
             /\ removed' = [removed EXCEPT !.attempted = @ \cup {"retirement"}]
             /\ \E place \in [Dirs -> Places] : BeginCheck("retirement", place, Dirs)
             /\ pc' = "names"
    <3>1. history' = [history EXCEPT !["retirement"] = Found("retirement", "none")]
      BY <2>4 DEF Judge
    <3>2. Founded("retirement") BY <2>4, UnfoundedIsNotFounded DEF Histories
    <3>3. Found("retirement", "none") = [completion |-> TRUE, reason |-> "none"] BY DEF Found
    <3>4. "none" \in Answers("retirement") BY DEF Answers
    <3> QED BY <1>1, <2>4, <3>1, <3>2, <3>3, <3>4, FoundFits DEF Histories
  <2> QED BY <2>1, <2>2, <2>3, <2>4 DEF ReadRetirement
<1>4. /\ pc' \in Steps /\ At < At' /\ At' <= 15 /\ pc' \notin {"done", "parents", "filesBefore", "detail", "before"}
      /\ \A k \in req.axes : Past(k)' => Past(k) \/ k = pc
      /\ (pc' \in Histories => pc' \in req.axes) /\ pc # "done"
      /\ pc' = Onward(pc) => pc' # "names"
  <2>1. CASE pc' = Onward(pc) BY <1>1, <1>2, <2>1, Moving DEF CInv
  <2>2. CASE pc' = "names"
    <3>1. At' = 6 BY <2>2, AtNext, Positions
    <3>2. ASSUME NEW k \in Histories, Past(k)' PROVE Past(k) \/ k = pc
      <4>1. Position(k) \in 1..19 /\ Position(k) < 6 BY <3>2, <2>2, AtNext, Positions, OrderIsPositions DEF Histories, Steps
      <4>2. Position(k) # 5 => Past(k) BY <1>2, <4>1 DEF Past
      <4>3. Position(k) = 5 => k = pc BY <1>1, OrderIsPositions, Positions DEF Histories, Steps
      <4> QED BY <4>2, <4>3
    <3>3. req.axes \subseteq Histories BY DueSteps DEF CInv
    <3>4. Onward(pc) # "names" BY <1>1, <1>2, OnwardFollows, DueSteps DEF Follows, CInv, Shapes, At
    <3> QED BY <1>1, <1>2, <2>2, <3>1, <3>2, <3>3, <3>4 DEF Steps, Histories
  <2> QED BY <1>3, <2>1, <2>2
<1>5. /\ \A k \in Histories : Judged(k)'
      /\ history' \in [Histories -> [completion : BOOLEAN, reason : Reasons]]
  BY <1>1, <1>3, <1>4, JudgedHere DEF Histories
<1>6. /\ history'["retirement"] = e /\ \A k \in Histories \ {"retirement"} : history'[k] = history[k]
      /\ removed.retained = {} /\ removed.attempted = {} /\ removed.direct = {} /\ removed.derived = {}
      /\ history'["cleanup"] = NoEvidence
  BY <1>2, <1>3, NothingRemoved DEF CInv, Shapes, Histories
<1>7. /\ removed' \in [retained : SUBSET Histories, attempted : SUBSET Histories,
                       direct : SUBSET Histories, derived : SUBSET {"retirement"}]
      /\ removed'.direct = {} /\ removed'.derived = {}
      /\ removed'.retained \cup removed'.attempted \subseteq {"retirement"}
      /\ removed'.retained \cap removed'.attempted = {}
  BY <1>3, <1>6 DEF CInv, Shapes, Histories
<1>8. names' \in NamesType /\ Watching'
  <2>1. CASE pc' = Onward(pc) /\ UNCHANGED names BY <1>4, <2>1 DEF Watching, CInv, Shapes
  <2>2. CASE /\ pc' = "names" /\ e = [completion |-> TRUE, reason |-> "none"]
             /\ removed' = [removed EXCEPT !.attempted = @ \cup {"retirement"}]
             /\ \E place \in [Dirs -> Places] : BeginCheck("retirement", place, Dirs)
    <3>1. "retirement" \in removed'.attempted BY <2>2 DEF CInv, Shapes
    <3>2. names' \in NamesType /\ WatchingOf("retirement", Dirs)'
      BY <1>1, <1>6, <2>2, <3>1, Begins DEF CInv
    <3> QED BY <2>2, <3>2, WatchingNext
  <2> QED BY <1>3, <2>1, <2>2
<1>9. Shapes' BY <1>1, <1>4, <1>5, <1>7, <1>8 DEF CInv, Shapes
<1>10. "retirement" \in req.axes /\ e.reason = "none" => ~Past("names")'
  BY <1>3, <1>6, AtNext, Positions
<1>11. "cleanup" \in req.axes => ~Past("parents")'
  <2> SUFFICES ASSUME "cleanup" \in req.axes, Past("parents")' PROVE FALSE OBVIOUS
  <2>1. At' = Position(pc') /\ At' \in 1..19 /\ 8 < At' BY <1>4, AtNext, OrderIsPositions, Positions
  <2>2. Past("cleanup")' BY <2>1, AtNext, Positions
  <2>3. ~Past("cleanup") BY <1>2, Positions DEF Past
  <2> QED BY <1>1, <1>4, <2>2, <2>3
<1>12. Past("retirement")'
  <2>1. At' = Position(pc') BY AtNext
  <2> QED BY <1>2, <1>4, <2>1, AtNext, Positions
<1>13. e.completion /\ e.reason # "mismatch" => "retirement" \in removed'.attempted \cup removed'.retained
  BY <1>3 DEF CInv, Shapes
<1>14. Absences' BY <1>1, <1>6, <1>7, <1>10, <1>11, <1>12, <1>13 DEF Absences, NoEvidence
<1>15. Gated' /\ Bracketed' /\ Steady' /\ Exited' BY <1>1, <1>2, <1>4, EarlyStays
<1> QED BY <1>5, <1>8, <1>9, <1>14, <1>15 DEF CInv

LEMMA ForgottenIs ==
  ASSUME Shapes
  PROVE  /\ Forgotten \in NamesType /\ Forgotten.together = names.together
         /\ Forgotten.cleaned = names.cleaned
<1>1. NoNames \in NamesType /\ names \in NamesType BY DEF NoNames, NamesType, Places, Passes, Shapes
<1> QED BY <1>1 DEF Forgotten, NamesType

LEMMA ReadCleanupKeeps == ASSUME CInv, ReadCleanup PROVE CInv'
<1>1. /\ pc = "cleanup" /\ "cleanup" \in req.axes
      /\ UNCHANGED <<req, gate, binding, secrets, detail, job, bracket, proof, exit>>
  BY DEF ReadCleanup, CInv, Shapes, Histories
<1>2. At = 7 /\ At \in 1..19 BY <1>1, Positions DEF At
<1>3. PICK e \in [completion : BOOLEAN, reason : Reasons] :
        /\ e.reason \in (IF e.completion THEN Keeps("cleanup") ELSE Loses("cleanup"))
        /\ e.completion => Founded("cleanup")
        /\ history' = [history EXCEPT !["cleanup"] = e]
        /\ \/ /\ pc' = Onward(pc) /\ e.reason # "none"
              /\ names' \in NamesType /\ names'.together = names.together
              /\ \/ removed' = removed
                 \/ removed' = [removed EXCEPT !.retained = @ \cup {"cleanup"}]
           \/ /\ pc' = "parents" /\ e = [completion |-> TRUE, reason |-> "none"]
              /\ removed' = [removed EXCEPT !.attempted = @ \cup {"cleanup"}]
              /\ \E dirs \in SUBSET Dirs, place \in [Dirs -> Places] : BeginCheck("cleanup", place, dirs)
  <2>1. CASE /\ IF Unfounded("cleanup") THEN Skip("cleanup")
                ELSE \E answer \in Answers("cleanup") \ {"none"} : Judge("cleanup", answer)
             /\ pc' = Onward("cleanup") /\ names' = Forgotten /\ UNCHANGED removed
    <3>1. names' \in NamesType /\ names'.together = names.together BY <2>1, ForgottenIs DEF CInv
    <3>2. CASE Unfounded("cleanup")
      <4> DEFINE e == [completion |-> FALSE, reason |-> "prerequisite"]
      <4>1. history' = [history EXCEPT !["cleanup"] = e] BY <2>1, <3>2 DEF Skip
      <4>2. /\ e \in [completion : BOOLEAN, reason : Reasons] /\ ~e.completion /\ e.reason # "none"
            /\ e.reason \in (IF e.completion THEN Keeps("cleanup") ELSE Loses("cleanup"))
        BY DEF Reasons, Loses
      <4> HIDE DEF e
      <4> QED BY <1>1, <2>1, <3>1, <4>1, <4>2
    <3>3. CASE ~Unfounded("cleanup")
      <4>1. PICK answer \in Answers("cleanup") \ {"none"} :
              history' = [history EXCEPT !["cleanup"] = Found("cleanup", answer)]
        BY <2>1, <3>3 DEF Judge
      <4>2. Founded("cleanup") BY <3>3, UnfoundedIsNotFounded DEF Histories
      <4>3. answer # "none" /\ "cleanup" \in Histories BY DEF Histories
      <4> DEFINE e == Found("cleanup", answer)
      <4>4. /\ e \in [completion : BOOLEAN, reason : Reasons] /\ e.reason = answer
            /\ e.reason \in (IF e.completion THEN Keeps("cleanup") ELSE Loses("cleanup"))
        BY <4>3, FoundFits
      <4> HIDE DEF e
      <4> QED BY <1>1, <2>1, <3>1, <4>1, <4>2, <4>3, <4>4 DEF e
    <3> QED BY <3>2, <3>3
  <2>2. CASE /\ ~Unfounded("cleanup")
             /\ history' = [history EXCEPT !["cleanup"] = [completion |-> TRUE, reason |-> "absence"]]
             /\ removed' = [removed EXCEPT !.retained = @ \cup {"cleanup"}]
             /\ \E dirs \in SUBSET Dirs \ {{}} : names' = [Forgotten EXCEPT !.cleaned = dirs]
             /\ pc' = Onward("cleanup")
    <3> DEFINE e == [completion |-> TRUE, reason |-> "absence"]
    <3>1. history' = [history EXCEPT !["cleanup"] = e] BY <2>2
    <3>2. Founded("cleanup") BY <2>2, UnfoundedIsNotFounded DEF Histories
    <3>3. /\ e \in [completion : BOOLEAN, reason : Reasons] /\ e.reason # "none"
          /\ e.reason \in (IF e.completion THEN Keeps("cleanup") ELSE Loses("cleanup"))
      BY DEF Reasons, Keeps
    <3>4. names' \in NamesType /\ names'.together = names.together
      BY <2>2, ForgottenIs DEF NamesType, CInv
    <3> HIDE DEF e
    <3> QED BY <1>1, <2>2, <3>1, <3>2, <3>3, <3>4
  <2>3. CASE /\ ~Unfounded("cleanup") /\ Judge("cleanup", "none")
             /\ removed' = [removed EXCEPT !.attempted = @ \cup {"cleanup"}]
             /\ \E dirs \in SUBSET Dirs \ {{}}, place \in [Dirs -> Places] : BeginCheck("cleanup", place, dirs)
             /\ pc' = "parents"
    <3>1. history' = [history EXCEPT !["cleanup"] = Found("cleanup", "none")]
      BY <2>3 DEF Judge
    <3>2. Founded("cleanup") BY <2>3, UnfoundedIsNotFounded DEF Histories
    <3>3. Found("cleanup", "none") = [completion |-> TRUE, reason |-> "none"] BY DEF Found
    <3>4. "none" \in Answers("cleanup") BY DEF Answers
    <3>5. \E dirs \in SUBSET Dirs, place \in [Dirs -> Places] : BeginCheck("cleanup", place, dirs) BY <2>3
    <3> QED BY <1>1, <2>3, <3>1, <3>2, <3>3, <3>4, <3>5, FoundFits DEF Histories
  <2> QED BY <2>1, <2>2, <2>3 DEF ReadCleanup
<1>4. /\ pc' \in Steps /\ At < At' /\ At' <= 15 /\ pc' \notin {"done", "names", "filesBefore", "detail", "before"}
      /\ \A k \in req.axes : Past(k)' => Past(k) \/ k = pc
      /\ (pc' \in Histories => pc' \in req.axes) /\ pc # "done"
      /\ pc' = Onward(pc) => pc' # "parents"
  <2>1. CASE pc' = Onward(pc) BY <1>1, <1>2, <2>1, Moving DEF CInv
  <2>2. CASE pc' = "parents"
    <3>1. At' = 8 BY <2>2, AtNext, Positions
    <3>2. ASSUME NEW k \in Histories, Past(k)' PROVE Past(k) \/ k = pc
      <4>1. Position(k) \in 1..19 /\ Position(k) < 8 BY <3>2, <2>2, AtNext, Positions, OrderIsPositions DEF Histories, Steps
      <4>2. Position(k) # 7 => Past(k) BY <1>2, <4>1 DEF Past
      <4>3. Position(k) = 7 => k = pc BY <1>1, OrderIsPositions, Positions DEF Histories, Steps
      <4> QED BY <4>2, <4>3
    <3>3. req.axes \subseteq Histories BY DueSteps DEF CInv
    <3>4. Onward(pc) # "parents" BY <1>1, <1>2, OnwardFollows, DueSteps DEF Follows, CInv, Shapes, At
    <3> QED BY <1>1, <1>2, <2>2, <3>1, <3>2, <3>3, <3>4 DEF Steps, Histories
  <2> QED BY <1>3, <2>1, <2>2
<1>5. /\ \A k \in Histories : Judged(k)'
      /\ history' \in [Histories -> [completion : BOOLEAN, reason : Reasons]]
  BY <1>1, <1>3, <1>4, JudgedHere DEF Histories
<1>6. /\ history'["cleanup"] = e /\ history'["retirement"] = history["retirement"]
      /\ ~Past("cleanup") /\ ~Past("parents") /\ Past("names") /\ Past("retirement")
  BY <1>2, <1>3, Positions DEF CInv, Shapes, Histories, Past
<1>7. /\ "cleanup" \notin removed.retained \cup removed.attempted /\ "cleanup" \notin removed.direct
      /\ removed.derived = {}
  BY <1>6 DEF CInv, Absences, Shapes
<1>8. /\ removed' \in [retained : SUBSET Histories, attempted : SUBSET Histories,
                       direct : SUBSET Histories, derived : SUBSET {"retirement"}]
      /\ removed'.direct = removed.direct /\ removed'.derived = {}
      /\ removed.retained \subseteq removed'.retained /\ removed.attempted \subseteq removed'.attempted
      /\ removed'.retained \cup removed'.attempted \subseteq removed.retained \cup removed.attempted \cup {"cleanup"}
      /\ removed'.retained \cap removed'.attempted = {}
  <2>1. removed.retained \cap removed.attempted = {} BY DEF CInv, Absences
  <2> QED BY <1>3, <1>7, <2>1 DEF CInv, Shapes, Histories
<1>9. names' \in NamesType /\ names.together \subseteq names'.together /\ Watching'
  <2>1. CASE pc' = Onward(pc) /\ names' \in NamesType /\ names'.together = names.together
    BY <1>4, <2>1 DEF Watching
  <2>2. CASE /\ pc' = "parents" /\ e = [completion |-> TRUE, reason |-> "none"]
             /\ removed' = [removed EXCEPT !.attempted = @ \cup {"cleanup"}]
             /\ \E dirs \in SUBSET Dirs, place \in [Dirs -> Places] : BeginCheck("cleanup", place, dirs)
    <3>1. "cleanup" \in removed'.attempted BY <2>2 DEF CInv, Shapes
    <3>2. PICK dirs \in SUBSET Dirs : names' \in NamesType /\ WatchingOf("cleanup", dirs)'
             /\ names'.cleaned = dirs /\ names.together \subseteq names'.together
      BY <1>1, <1>6, <2>2, <3>1, Begins DEF CInv
    <3>3. WatchingOf("cleanup", names.cleaned)'
      <4> SUFFICES ASSUME WatchingOf("cleanup", dirs)', names'.cleaned = dirs
                   PROVE  WatchingOf("cleanup", names.cleaned)'
        BY <3>2
      <4> QED BY DEF WatchingOf
    <3> QED BY <2>2, <3>2, <3>3, WatchingNext
  <2> QED BY <1>3, <2>1, <2>2
<1>10. Shapes' BY <1>1, <1>4, <1>5, <1>8, <1>9 DEF CInv, Shapes
<1>11. e.reason = "none" => ~Past("parents")' BY <1>3, AtNext, Positions
<1>12. Past("retirement")' /\ Past("cleanup")' /\ Past("names")'
  <2>1. At' = Position(pc') /\ At' > 7 /\ At' \in 1..19 BY <1>2, <1>4, AtNext, OrderIsPositions
  <2> QED BY <2>1, AtNext, Positions
<1>13. Absences'
  <2>1. Absences BY DEF CInv
  <2>2. removed'.direct \subseteq removed'.attempted \cap names'.together
    BY <1>8, <1>9, <2>1 DEF Absences
  <2>3. \A h \in removed'.retained \cup removed'.attempted : h \in req'.axes /\ Past(h)'
    <3>1. removed.retained \cup removed.attempted \subseteq {"retirement", "cleanup"} BY <2>1 DEF Absences
    <3>2. \A h \in removed.retained \cup removed.attempted : h \in req.axes BY <2>1 DEF Absences
    <3> QED BY <1>1, <1>8, <1>12, <3>1, <3>2
  <2> QED BY <1>1, <1>6, <1>7, <1>8, <1>11, <1>12, <2>1, <2>2, <2>3 DEF Absences
<1>14. Gated' /\ Bracketed' /\ Steady' /\ Exited' BY <1>1, <1>2, <1>4, EarlyStays
<1> QED BY <1>5, <1>9, <1>10, <1>13, <1>14 DEF CInv

\* Looking at a name, before the names of a pass are through.
LEMMA LookingAt ==
  ASSUME CInv, pc \in {"names", "parents"}
  PROVE  /\ Kind = (IF pc = "names" THEN "retirement" ELSE "cleanup")
         /\ WatchingOf(Kind, Checked(Kind)) /\ Checked(Kind) \in SUBSET Dirs
         /\ Kind \in req.axes /\ Kind \in Histories /\ Past(Kind)
         /\ At \in {6, 8} /\ At \in 1..19 /\ At = Position(pc) /\ pc # "done" /\ pc \notin Histories
<1>1. Kind = (IF pc = "names" THEN "retirement" ELSE "cleanup") BY DEF Kind
<1>2. WatchingOf(Kind, Checked(Kind)) BY WatchingIs, <1>1 DEF CInv, Checked
<1>3. Checked(Kind) \in SUBSET Dirs BY DEF Checked, CInv, Shapes, NamesType
<1>4. Kind \in req.axes /\ Kind \in Histories BY <1>1, <1>2 DEF WatchingOf, Histories
<1>5. At \in {6, 8} /\ At \in 1..19 /\ At = Position(pc) BY Positions DEF At
<1>6. Past(Kind) BY <1>1, <1>5, Positions DEF Past
<1>7. pc # "done" /\ pc \notin Histories BY DEF Histories
<1> QED BY <1>1, <1>2, <1>3, <1>4, <1>5, <1>6, <1>7

LEMMA NextPass ==
  ASSUME names \in NamesType, NEW pass \in 0..3, NEW todo \in SUBSET Dirs,
         names' = [names EXCEPT !.pass = pass, !.todo = todo]
  PROVE  /\ names'.place = names.place /\ names'.moved = names.moved /\ names'.cleaned = names.cleaned
         /\ names'.together = names.together /\ names'.pass = pass /\ names'.todo = todo
         /\ names' \in NamesType
<1>1. pass \in 0..(Passes + 1) BY DEF Passes
<1> DEFINE n == [names EXCEPT !.pass = pass, !.todo = todo]
<1>2. n \in NamesType BY <1>1 DEF NamesType
<1>3. /\ n.place = names.place /\ n.moved = names.moved /\ n.cleaned = names.cleaned
      /\ n.together = names.together /\ n.pass = pass /\ n.todo = todo
  BY DEF NamesType
<1> QED BY <1>2, <1>3

LEMMA LookKeeps == ASSUME CInv, NEW d \in Dirs, Look(d) PROVE CInv'
<1>1. /\ pc \in {"names", "parents"} /\ d \in names.todo /\ names.place[d] = Wanted(Kind)
      /\ names' = (IF names.todo # {d} THEN [names EXCEPT !.todo = @ \ {d}]
                   ELSE [names EXCEPT !.pass = @ + 1,
                                      !.todo = IF names.pass < Passes THEN Checked(Kind) ELSE {}])
      /\ UNCHANGED <<req, pc, history, removed, gate, binding, secrets, detail, job, bracket, proof, exit>>
  BY DEF Look
<1>2. PICK kind \in {"retirement", "cleanup"}, dirs \in SUBSET Dirs :
        /\ kind = (IF pc = "names" THEN "retirement" ELSE "cleanup")
        /\ kind = Kind /\ dirs = Checked(Kind) /\ WatchingOf(kind, dirs)
  BY <1>1, LookingAt
<1>3. names \in NamesType BY DEF CInv, Shapes
<1>4. /\ names'.place = names.place /\ names'.moved = names.moved /\ names'.cleaned = names.cleaned
      /\ names'.together = names.together /\ names' \in NamesType
      /\ \/ names.todo # {d} /\ names'.todo = names.todo \ {d} /\ names'.pass = names.pass
         \/ names.todo = {d} /\ names.pass = 1 /\ names'.todo = dirs /\ names'.pass = 2
         \/ names.todo = {d} /\ names.pass = 2 /\ names'.todo = {} /\ names'.pass = 3
  <2>1. names.pass \in {1, 2} BY <1>1, <1>2 DEF WatchingOf
  <2>2. CASE names.todo # {d} BY <1>1, <1>3, <2>2 DEF NamesType
  <2>3. CASE names.todo = {d}
    <3>1. PICK pass \in 0..3, todo \in SUBSET Dirs :
            /\ names' = [names EXCEPT !.pass = pass, !.todo = todo]
            /\ \/ names.pass = 1 /\ pass = 2 /\ todo = dirs
               \/ names.pass = 2 /\ pass = 3 /\ todo = {}
      <4>1. CASE names.pass = 1
        <5>1. names' = [names EXCEPT !.pass = 2, !.todo = dirs] BY <1>1, <1>2, <1>3, <2>3, <4>1 DEF Passes, NamesType
        <5>2. 2 \in 0..3 OBVIOUS
        <5> QED BY <4>1, <5>1, <5>2, Zenon
      <4>2. CASE names.pass = 2
        <5>1. names' = [names EXCEPT !.pass = 3, !.todo = {}] BY <1>1, <1>3, <2>3, <4>2 DEF Passes, NamesType
        <5>2. 3 \in 0..3 /\ {} \in SUBSET Dirs OBVIOUS
        <5> QED BY <4>2, <5>1, <5>2, Zenon
      <4> QED BY <2>1, <4>1, <4>2
    <3>2. /\ names'.place = names.place /\ names'.moved = names.moved /\ names'.cleaned = names.cleaned
          /\ names'.together = names.together /\ names'.pass = pass /\ names'.todo = todo
          /\ names' \in NamesType
      BY <1>3, <3>1, NextPass
    <3> QED BY <2>3, <3>1, <3>2
  <2> QED BY <2>2, <2>3
<1>5. names.place[d] = Wanted(kind) /\ d \in names.todo BY <1>1, <1>2
<1>6. WatchingOf(kind, dirs)'
  <2>1. names'.todo \subseteq dirs BY <1>2, <1>4 DEF WatchingOf
  <2>2. names'.todo = {} => names'.pass = 3 \/ dirs = {} BY <1>2, <1>4, <1>5
  <2>3. names'.pass = 1 =>
          \A x \in dirs \ names'.todo : names'.place[x] = Wanted(kind) \/ x \in names'.moved
    BY <1>2, <1>4, <1>5 DEF WatchingOf
  <2>4. names'.pass = 2 /\ kind \notin names'.together =>
          \E x \in names'.todo : names'.place[x] # Wanted(kind) /\ x \in names'.moved
    <3>1. CASE names.todo # {d} BY <1>2, <1>4, <1>5, <3>1 DEF WatchingOf
    <3>2. CASE names.todo = {d} BY <1>2, <1>4, <1>5, <3>2 DEF WatchingOf
    <3> QED BY <3>1, <3>2
  <2>5. names'.pass = 3 => names'.todo = {} /\ kind \in names'.together
    BY <1>2, <1>4, <1>5 DEF WatchingOf
  <2>6. (\A x \in dirs : names'.place[x] = Wanted(kind)) => kind \in names'.together
    BY <1>2, <1>4 DEF WatchingOf
  <2> QED BY <1>1, <1>2, <1>4, <2>1, <2>2, <2>3, <2>4, <2>5, <2>6 DEF WatchingOf
<1>7. Watching'
  <2>1. dirs = (IF pc = "names" THEN Dirs ELSE names.cleaned) BY <1>1, <1>2 DEF Checked
  <2>2. pc' = "names" => WatchingOf("retirement", Dirs)' BY <1>1, <1>2, <1>6, <2>1
  <2>3. pc' = "parents" => WatchingOf("cleanup", dirs)' /\ dirs = names'.cleaned
    BY <1>1, <1>2, <1>4, <1>6, <2>1
  <2>4. pc' = "parents" => WatchingOf("cleanup", names.cleaned)' BY <2>3 DEF WatchingOf
  <2> QED BY <2>2, <2>4, WatchingNext
<1>8. At' = At /\ At \in {6, 8} BY <1>1, LookingAt, AtNext
<1>9. \A h \in Histories : Judged(h)' BY <1>1, <1>8 DEF CInv, Judged, Past
<1>10. Absences' BY <1>1, <1>4, <1>8 DEF CInv, Absences, Past
<1>11. Shapes' BY <1>1, <1>4 DEF CInv, Shapes
<1>12. Gated' /\ Bracketed' /\ Steady' /\ Exited'
  <2>1. pc' \in Steps /\ pc' \notin {"detail", "before", "filesBefore"} BY <1>1 DEF Steps
  <2> QED BY <1>1, <1>8, <2>1, EarlyStays
<1> QED BY <1>7, <1>9, <1>10, <1>11, <1>12 DEF CInv

\* The end of a check, whatever it found.
LEMMA LeavingLook ==
  ASSUME CInv, pc \in {"names", "parents"}, pc' = Onward(pc),
         UNCHANGED <<req, gate, binding, secrets, detail, job, bracket, proof, exit>>
  PROVE  /\ pc' \in Steps /\ At < At' /\ pc' \notin {"done", "names", "parents"} /\ pc # "done"
         /\ \A h \in req.axes : Past(h)' => Past(h) \/ h = pc
         /\ pc' \in Histories => pc' \in req.axes
         /\ \A step \in Steps : Past(step) => Past(step)'
         /\ Past("retirement") /\ Past("names")' /\ (pc = "parents" => Past("parents")' /\ Past("names") /\ Past("cleanup"))
         /\ pc = "names" /\ "cleanup" \in req.axes => ~Past("parents")'
         /\ ~Past(pc)
         /\ Watching' /\ Gated' /\ Bracketed' /\ Steady' /\ Exited'
<1>1. At \in {6, 8} /\ At = Position(pc) BY LookingAt
<1>2. /\ pc' \in Steps /\ At < At' /\ At' <= 15 /\ pc' \notin {"done", "names", "parents", "filesBefore"}
      /\ pc # "done" /\ (\A h \in req.axes : Past(h)' => Past(h) \/ h = pc)
      /\ pc' \notin {"detail", "before"} /\ (pc' \in Histories => pc' \in req.axes)
  BY <1>1, Moving DEF CInv
<1>3. At' = Position(pc') /\ At' \in 1..19 BY <1>2, AtNext, OrderIsPositions
<1>4. \A step \in Steps : Past(step) => Past(step)'
  <2> SUFFICES ASSUME NEW step \in Steps, Past(step) PROVE Past(step)' OBVIOUS
  <2>1. Position(step) \in 1..19 BY OrderIsPositions
  <2> QED BY <1>1, <1>2, <1>3, <2>1, AtNext DEF Past
<1>5. Past("retirement") /\ Past("names")' /\ (pc = "parents" => Past("parents")' /\ Past("names") /\ Past("cleanup"))
  BY <1>1, <1>2, <1>3, AtNext, Positions DEF Past
<1>6. pc = "names" /\ "cleanup" \in req.axes => ~Past("parents")'
  <2> SUFFICES ASSUME pc = "names", "cleanup" \in req.axes, Past("parents")' PROVE FALSE OBVIOUS
  <2>1. At' > 8 BY <1>3, AtNext, Positions
  <2>2. Past("cleanup")' BY <1>3, <2>1, AtNext, Positions
  <2>3. ~Past("cleanup") BY <1>1, Positions DEF Past
  <2> QED BY <1>2, <2>2, <2>3
<1>7. ~Past(pc) BY <1>1 DEF Past
<1>8. Watching' BY <1>2 DEF Watching
<1>9. Gated' /\ Bracketed' /\ Steady' /\ Exited' BY <1>1, <1>2, EarlyStays
<1> QED BY <1>2, <1>4, <1>5, <1>6, <1>7, <1>8, <1>9

\* No absence was derived while a check goes on.
LEMMA NothingDerived ==
  ASSUME CInv, pc \in {"names", "parents"}
  PROVE  removed.derived = {} /\ "cleanup" \notin removed.direct
<1>1. ~Past("parents") BY LookingAt, Positions DEF Past
<1> QED BY <1>1 DEF CInv, Absences, Shapes

LEMMA EndLookKeeps == ASSUME CInv, NEW d \in Dirs, EndLook(d) PROVE CInv'
<1>1. /\ pc \in {"names", "parents"} /\ pc' = Onward(pc)
      /\ UNCHANGED <<req, removed, gate, binding, secrets, detail, job, bracket, proof, exit>>
  BY DEF EndLook
<1>2. PICK k \in {"retirement", "cleanup"}, r \in {"reappeared", "absence", "unavailable"} :
        /\ k = Kind /\ k = (IF pc = "names" THEN "retirement" ELSE "cleanup")
        /\ history' = [history EXCEPT ![k].reason = r]
  BY <1>1, LookingAt DEF EndLook, Missed
<1>3. history[k] = [completion |-> TRUE, reason |-> "none"] /\ k \in req.axes /\ k \in removed.attempted
  BY <1>1, <1>2, LookingAt DEF WatchingOf
<1>4. /\ pc' \in Steps /\ At < At' /\ pc' \notin {"done", "names", "parents"} /\ pc # "done"
      /\ \A h \in req.axes : Past(h)' => Past(h) \/ h = pc
      /\ pc' \in Histories => pc' \in req.axes
      /\ \A step \in Steps : Past(step) => Past(step)'
      /\ Past("names")' /\ (pc = "parents" => Past("parents")' /\ Past("names"))
      /\ pc = "names" /\ "cleanup" \in req.axes => ~Past("parents")'
      /\ Watching' /\ Gated' /\ Bracketed' /\ Steady' /\ Exited'
  BY <1>1, LeavingLook
<1>5. r \in Keeps(k) /\ r # "mismatch" BY <1>2 DEF Keeps
<1>6. At \in {6, 8} /\ At = Position(pc) BY <1>1, LookingAt
<1>7. 6 <= At /\ (k = "cleanup" => 8 <= At) BY <1>1, <1>2, <1>6, Positions
<1>8. /\ \A h \in Histories : Judged(h)'
      /\ history' \in [Histories -> [completion : BOOLEAN, reason : Reasons]]
      /\ history'[k] = [completion |-> TRUE, reason |-> r]
      /\ \A h \in Histories \ {k} : history'[h] = history[h]
  <2>1. history[k].completion /\ pc # "cleanup" /\ req' = req BY <1>1, <1>3
  <2>2. history' = [history EXCEPT ![k].reason = r] BY <1>2
  <2> QED BY <1>4, <1>5, <1>7, <2>1, <2>2, ReasonChanges
<1>9. names' \in NamesType /\ names'.together = names.together /\ names'.cleaned = names.cleaned
  <2>1. CASE pc' = "cleanup"
    <3>1. names' = [names EXCEPT !.todo = {}, !.pass = 0] BY <2>1 DEF EndLook
    <3>2. 0 \in 0..(Passes + 1) BY DEF Passes
    <3> QED BY <3>1, <3>2 DEF CInv, Shapes, NamesType
  <2>2. CASE pc' # "cleanup"
    <3>1. names' = Forgotten BY <2>2 DEF EndLook
    <3> QED BY <3>1, ForgottenIs DEF CInv
  <2> QED BY <2>1, <2>2
<1>10. Shapes' BY <1>1, <1>4, <1>8, <1>9 DEF CInv, Shapes
<1>11. removed.derived = {} /\ "cleanup" \notin removed.direct BY <1>1, NothingDerived
<1>12. Absences'
  <2>1. Absences BY DEF CInv
  <2>2. \A h \in removed.retained \cup removed.attempted : h \in req.axes /\ Past(h)'
    BY <1>4, <2>1 DEF Absences, Steps
  <2>3. history'["retirement"].reason = "none" /\ "retirement" \in req.axes =>
          "retirement" \in removed.direct \cup removed.derived
    BY <1>1, <1>2, <1>4, <1>8, <2>1 DEF Absences, Histories
  <2>4. history'["cleanup"].reason = "none" /\ "cleanup" \in req.axes /\ Past("parents")' =>
          "cleanup" \in removed.direct
    BY <1>1, <1>2, <1>4, <1>8, <2>1 DEF Absences, Histories
  <2>5. history'["retirement"].completion /\ history'["retirement"].reason # "mismatch" =>
          "retirement" \in removed.attempted \cup removed.retained
    BY <1>2, <1>3, <1>8, <2>1 DEF Absences, Histories
  <2> QED BY <1>1, <1>9, <1>11, <2>1, <2>2, <2>3, <2>4, <2>5 DEF Absences
<1> QED BY <1>4, <1>8, <1>10, <1>12 DEF CInv

LEMMA NamesAbsentKeeps == ASSUME CInv, NamesAbsent PROVE CInv'
<1>1. /\ pc = "names" /\ pc' = Onward(pc) /\ names.todo = {}
      /\ removed' = [removed EXCEPT !.direct = @ \cup {"retirement"}]
      /\ UNCHANGED <<req, history, gate, binding, secrets, detail, job, bracket, proof, exit>>
  BY DEF NamesAbsent
<1>2. /\ "retirement" \in req.axes /\ "retirement" \in removed.attempted
      /\ history["retirement"] = [completion |-> TRUE, reason |-> "none"]
      /\ "retirement" \in names.together
  <2>1. WatchingOf("retirement", Dirs) BY <1>1, LookingAt DEF Checked
  <2> QED BY <1>1, <2>1 DEF WatchingOf
<1>3. /\ pc' \in Steps /\ At < At' /\ pc' \notin {"done", "names", "parents"} /\ pc # "done"
      /\ \A h \in req.axes : Past(h)' => Past(h) \/ h = pc
      /\ pc' \in Histories => pc' \in req.axes
      /\ \A step \in Steps : Past(step) => Past(step)'
      /\ Past("names")' /\ ("cleanup" \in req.axes => ~Past("parents")')
      /\ Watching' /\ Gated' /\ Bracketed' /\ Steady' /\ Exited'
  BY <1>1, LeavingLook
<1>4. names' \in NamesType /\ names'.together = names.together /\ names'.cleaned = names.cleaned
  <2>1. CASE pc' = "cleanup"
    <3>1. names' = [names EXCEPT !.pass = 0] BY <2>1 DEF NamesAbsent
    <3>2. 0 \in 0..(Passes + 1) BY DEF Passes
    <3> QED BY <3>1, <3>2 DEF CInv, Shapes, NamesType
  <2>2. CASE pc' # "cleanup"
    <3>1. names' = Forgotten BY <2>2 DEF NamesAbsent
    <3> QED BY <3>1, ForgottenIs DEF CInv
  <2> QED BY <2>1, <2>2
<1>5. /\ removed'.direct = removed.direct \cup {"retirement"} /\ removed'.attempted = removed.attempted
      /\ removed'.retained = removed.retained /\ removed'.derived = removed.derived
      /\ removed' \in [retained : SUBSET Histories, attempted : SUBSET Histories,
                       direct : SUBSET Histories, derived : SUBSET {"retirement"}]
  BY <1>1 DEF CInv, Shapes, Histories
<1>6. Shapes' BY <1>1, <1>3, <1>4, <1>5 DEF CInv, Shapes
<1>7. removed.derived = {} /\ "cleanup" \notin removed.direct BY <1>1, NothingDerived
<1>8. ASSUME NEW h \in Histories PROVE Judged(h)'
  <2>1. h \in Steps /\ h # pc /\ Judged(h) BY <1>1 DEF Histories, Steps, CInv
  <2>2. h \in req.axes => (Past(h) <=> Past(h)') BY <1>3, <2>1
  <2> QED BY <1>1, <2>1, <2>2 DEF Judged
<1>9. Absences'
  <2>1. Absences BY DEF CInv
  <2>2. \A h \in removed.retained \cup removed.attempted : h \in req.axes /\ Past(h)'
    BY <1>3, <2>1 DEF Absences, Steps
  <2> QED BY <1>1, <1>2, <1>3, <1>4, <1>5, <1>7, <2>1, <2>2 DEF Absences
<1> QED BY <1>3, <1>6, <1>8, <1>9 DEF CInv

LEMMA ParentsAbsentKeeps == ASSUME CInv, ParentsAbsent PROVE CInv'
<1> DEFINE derive == "retirement" \notin removed.direct
<1>1. /\ pc = "parents" /\ pc' = Onward(pc) /\ names.todo = {} /\ names' = Forgotten
      /\ removed' = [removed EXCEPT !.direct = @ \cup {"cleanup"},
                                    !.derived = IF derive /\ Implied THEN {"retirement"} ELSE @]
      /\ UNCHANGED <<req, gate, binding, secrets, detail, job, bracket, proof, exit>>
  BY DEF ParentsAbsent
<1>2. /\ "cleanup" \in req.axes /\ "cleanup" \in removed.attempted /\ "cleanup" \in names.together
      /\ history["cleanup"] = [completion |-> TRUE, reason |-> "none"]
  <2>1. WatchingOf("cleanup", names.cleaned) BY <1>1, LookingAt DEF Checked
  <2> QED BY <1>1, <2>1 DEF WatchingOf
<1>3. /\ pc' \in Steps /\ At < At' /\ pc' \notin {"done", "names", "parents"} /\ pc # "done"
      /\ \A h \in req.axes : Past(h)' => Past(h) \/ h = pc
      /\ pc' \in Histories => pc' \in req.axes
      /\ \A step \in Steps : Past(step) => Past(step)'
      /\ Past("names")' /\ Past("parents")' /\ Past("names") /\ Past("retirement")
      /\ Watching' /\ Gated' /\ Bracketed' /\ Steady' /\ Exited'
  BY <1>1, LeavingLook
<1>4. names' \in NamesType /\ names'.together = names.together /\ names'.cleaned = names.cleaned
  BY <1>1, ForgottenIs DEF CInv
<1>5. removed.derived = {} /\ "cleanup" \notin removed.direct BY <1>1, NothingDerived
<1>6. /\ removed'.direct = removed.direct \cup {"cleanup"} /\ removed'.attempted = removed.attempted
      /\ removed'.retained = removed.retained
      /\ removed'.derived = (IF derive /\ Implied THEN {"retirement"} ELSE {})
      /\ removed' \in [retained : SUBSET Histories, attempted : SUBSET Histories,
                       direct : SUBSET Histories, derived : SUBSET {"retirement"}]
  BY <1>1, <1>5 DEF CInv, Shapes, Histories
<1>7. At = 8 /\ pc # "cleanup" BY <1>1, Positions DEF At
<1>8. history["retirement"].completion /\ history["retirement"].reason # "mismatch"
  BY <1>2 DEF CInv, Judged, Histories
<1>9. PICK k \in {"retirement", "cleanup"}, r \in {"none", "absence"} :
        /\ history' = [history EXCEPT ![k].reason = r]
        /\ derive /\ Implied => k = "retirement" /\ r = "none"
        /\ derive /\ ~Implied => k = "cleanup" /\ r = "absence"
        /\ ~derive => k = "cleanup" /\ r = "none"
  <2>1. CASE derive /\ Implied
    <3>1. history' = [history EXCEPT !["retirement"].reason = "none"] BY <2>1 DEF ParentsAbsent
    <3> QED BY <2>1, <3>1
  <2>2. CASE derive /\ ~Implied
    <3>1. history' = [history EXCEPT !["cleanup"].reason = "absence"] BY <2>2 DEF ParentsAbsent
    <3> QED BY <2>2, <3>1
  <2>3. CASE ~derive
    <3>1. history' = history BY <2>3 DEF ParentsAbsent
    <3>2. history = [history EXCEPT !["cleanup"].reason = "none"]
      <4>1. [history["cleanup"] EXCEPT !.reason = "none"] = history["cleanup"] BY <1>2
      <4>2. history = [history EXCEPT !["cleanup"] = history["cleanup"]] BY DEF CInv, Shapes
      <4> QED BY <4>1, <4>2
    <3> QED BY <2>3, <3>1, <3>2
  <2> QED BY <2>1, <2>2, <2>3
<1>10. /\ \A h \in Histories : Judged(h)'
       /\ history' \in [Histories -> [completion : BOOLEAN, reason : Reasons]]
       /\ history'[k] = [completion |-> TRUE, reason |-> r]
       /\ \A h \in Histories \ {k} : history'[h] = history[h]
  <2>1. history[k].completion /\ req' = req BY <1>1, <1>2, <1>8
  <2>2. r \in Keeps(k) /\ r # "mismatch" BY DEF Keeps
  <2>3. history' = [history EXCEPT ![k].reason = r] BY <1>9
  <2>4. 6 <= At /\ 8 <= At BY <1>7
  <2> QED BY <1>3, <1>7, <2>1, <2>2, <2>3, <2>4, ReasonChanges
<1>11. Shapes' BY <1>1, <1>3, <1>4, <1>6, <1>10 DEF CInv, Shapes
<1>12. Absences'
  <2>1. Absences BY DEF CInv
  <2>2. \A h \in removed.retained \cup removed.attempted : h \in req.axes /\ Past(h)'
    BY <1>3, <2>1 DEF Absences, Steps
  <2>3. history'["retirement"].reason = "none" /\ "retirement" \in req.axes =>
          "retirement" \in removed'.direct \cup removed'.derived
    <3>1. CASE derive /\ Implied BY <1>6, <3>1
    <3>2. CASE derive /\ ~Implied
      <4>1. history'["retirement"] = history["retirement"] BY <1>9, <1>10, <3>2 DEF Histories
      <4> QED BY <1>3, <1>5, <2>1, <3>2, <4>1 DEF Absences
    <3>3. CASE ~derive BY <1>6, <3>3
    <3> QED BY <3>1, <3>2, <3>3
  <2>4. removed'.direct \subseteq removed'.attempted \cap names'.together
    BY <1>2, <1>4, <1>6, <2>1 DEF Absences
  <2>5. "retirement" \in removed.attempted \cup removed.retained
    BY <1>8, <2>1 DEF Absences
  <2>6. "retirement" \in removed'.derived =>
          names'.cleaned = Dirs /\ history'["retirement"] = [completion |-> TRUE, reason |-> "none"]
    BY <1>4, <1>6, <1>9, <1>10 DEF Implied
  <2> QED BY <1>1, <1>3, <1>6, <2>1, <2>2, <2>3, <2>4, <2>5, <2>6 DEF Absences
<1> QED BY <1>3, <1>10, <1>11, <1>12 DEF CInv

LEMMA ChangeKeeps == ASSUME CInv, NEW d \in Dirs, Change(d) PROVE CInv'
<1>1. /\ pc \in {"names", "cleanup", "parents"} /\ d \notin names.moved
      /\ UNCHANGED <<req, pc, history, removed, gate, binding, secrets, detail, job, bracket, proof, exit>>
  BY DEF Change
<1>2. PICK place \in Places, together \in SUBSET {"retirement", "cleanup"} :
        /\ names' = [names EXCEPT !.place = [names.place EXCEPT ![d] = place],
                                  !.moved = @ \cup {d}, !.together = together]
        /\ together = (IF pc = "cleanup" THEN names.together
                       ELSE Witnessed(Kind, [names.place EXCEPT ![d] = place], Checked(Kind)))
  <2>1. PICK place \in Places :
          names' = [names EXCEPT !.place = [names.place EXCEPT ![d] = place], !.moved = @ \cup {d},
                     !.together = IF pc = "cleanup" THEN @
                                  ELSE Witnessed(Kind, [names.place EXCEPT ![d] = place], Checked(Kind))]
    BY DEF Change
  <2> DEFINE together == IF pc = "cleanup" THEN names.together
                         ELSE Witnessed(Kind, [names.place EXCEPT ![d] = place], Checked(Kind))
  <2>2. together \in SUBSET {"retirement", "cleanup"} BY DEF Witnessed, Kind, CInv, Shapes, NamesType
  <2>3. names' = [names EXCEPT !.place = [names.place EXCEPT ![d] = place], !.moved = @ \cup {d},
                               !.together = together]
    BY <2>1
  <2> HIDE DEF together
  <2>4. \E t \in SUBSET {"retirement", "cleanup"} :
          /\ names' = [names EXCEPT !.place = [names.place EXCEPT ![d] = place],
                                    !.moved = @ \cup {d}, !.together = t]
          /\ t = together
    BY <2>2, <2>3
  <2> QED BY <2>4 DEF together
<1>3. names \in NamesType BY DEF CInv, Shapes
<1>4. /\ names'.place = [names.place EXCEPT ![d] = place] /\ names'.moved = names.moved \cup {d}
      /\ names'.cleaned = names.cleaned /\ names'.todo = names.todo /\ names'.pass = names.pass
      /\ names'.together = together /\ names' \in NamesType
  BY <1>2, <1>3 DEF NamesType
<1>5. names.together \subseteq names'.together BY <1>2, <1>4 DEF Witnessed
<1>6. \A x \in Dirs \ {d} : names'.place[x] = names.place[x] BY <1>3, <1>4 DEF NamesType
<1>7. Watching'
  <2>1. CASE pc = "cleanup" BY <1>1, <2>1 DEF Watching
  <2>2. CASE pc # "cleanup"
    <3>1. PICK kind \in {"retirement", "cleanup"}, dirs \in SUBSET Dirs :
            /\ kind = (IF pc = "names" THEN "retirement" ELSE "cleanup")
            /\ kind = Kind /\ dirs = Checked(Kind) /\ WatchingOf(kind, dirs)
            /\ dirs = (IF pc = "names" THEN Dirs ELSE names.cleaned)
      BY <1>1, <2>2, LookingAt DEF Checked
    <3>2. (\A x \in dirs : names'.place[x] = Wanted(kind)) => kind \in names'.together
      BY <1>2, <1>4, <2>2, <3>1 DEF Witnessed, AllAbsent
    <3>3. names'.pass = 1 =>
            \A x \in dirs \ names'.todo : names'.place[x] = Wanted(kind) \/ x \in names'.moved
      BY <1>4, <1>6, <3>1 DEF WatchingOf
    <3>4. names'.pass = 2 /\ kind \notin names'.together =>
            \E x \in names'.todo : names'.place[x] # Wanted(kind) /\ x \in names'.moved
      <4> SUFFICES ASSUME names.pass = 2, kind \notin names.together
                   PROVE  \E x \in names'.todo : names'.place[x] # Wanted(kind) /\ x \in names'.moved
        BY <1>4, <1>5
      <4>1. PICK x \in names.todo : names.place[x] # Wanted(kind) /\ x \in names.moved
        BY <3>1 DEF WatchingOf
      <4>2. x \in Dirs \ {d} BY <1>1, <1>3, <4>1 DEF NamesType
      <4> QED BY <1>4, <1>6, <4>1, <4>2
    <3>5. WatchingOf(kind, dirs)'
      BY <1>1, <1>4, <1>5, <3>1, <3>2, <3>3, <3>4 DEF WatchingOf
    <3>6. pc' = "names" => WatchingOf("retirement", Dirs)' BY <1>1, <3>1, <3>5
    <3>7. pc' = "parents" => WatchingOf("cleanup", dirs)' /\ dirs = names'.cleaned
      BY <1>1, <1>4, <3>1, <3>5
    <3>8. pc' = "parents" => WatchingOf("cleanup", names.cleaned)' BY <3>7 DEF WatchingOf
    <3> QED BY <3>6, <3>8, WatchingNext
  <2> QED BY <2>1, <2>2
<1>8. At' = At /\ At \in {6, 7, 8} BY <1>1, AtNext, Positions DEF At
<1>9. \A h \in Histories : Judged(h)' BY <1>1, <1>8 DEF CInv, Judged, Past
<1>10. Absences' BY <1>1, <1>4, <1>5, <1>8 DEF CInv, Absences, Past
<1>11. Shapes' BY <1>1, <1>4 DEF CInv, Shapes
<1>12. Gated' /\ Bracketed' /\ Steady' /\ Exited'
  <2>1. pc' \in Steps /\ pc' \notin {"detail", "before", "filesBefore"} BY <1>1 DEF Steps
  <2> QED BY <1>1, <1>8, <2>1, EarlyStays
<1> QED BY <1>7, <1>9, <1>10, <1>11, <1>12 DEF CInv

LEMMA SelectionKeeps == ASSUME CInv, SelectIndex \/ LoadBinding PROVE CInv'
<1>1. /\ pc \in {"index", "binding"} /\ pc' = Onward(pc)
      /\ gate' \in {"ok", "failed", "integrity", "budget"} /\ binding' \in Bindings
      /\ UNCHANGED <<req, history, removed, names, secrets, detail, job, bracket, proof, exit>>
  BY DEF SelectIndex, LoadBinding, Bindings, CInv, Shapes
<1>2. At \in {9, 10} BY <1>1, Positions DEF At
<1>3. /\ pc' \in Steps /\ At < At' /\ At' <= 15 /\ pc' \notin {"done", "names", "parents", "filesBefore"}
      /\ pc # "done" /\ pc' \notin {"detail", "before"} /\ (pc' \in Histories => pc' \in req.axes)
  BY <1>1, <1>2, Moving DEF CInv
<1>4. At <= At' BY <1>2, <1>3, AtNext, OrderIsPositions
<1>5. (\A h \in Histories : Judged(h)') /\ Absences' /\ Watching' BY <1>1, <1>2, <1>3, <1>4, LateStays
<1>6. Gated' /\ Bracketed' /\ Steady' /\ Exited' BY <1>1, <1>2, <1>3, EarlyStays
<1>7. Shapes' BY <1>1, <1>3 DEF CInv, Shapes
<1> QED BY <1>5, <1>6, <1>7 DEF CInv

-----------------------------------------------------------------------------
(* Credentials, the site and the bracket around the storage proof.          *)

\* Where the command is while it asks others.
LEMMA AskingAt ==
  ASSUME CInv, pc \in {"credentials", "detail", "before", "filesBefore", "proof", "filesAfter", "after", "finish"}
  PROVE  At = Position(pc) /\ At \in 11..18 /\ pc # "done" /\ exit = "running"
BY Positions DEF At, CInv, Shapes

\* A further step names itself.
LEMMA LaterStep ==
  ASSUME CInv, 11 <= At, UNCHANGED <<req, history, removed, names>>,
         pc' \in {"detail", "before", "filesBefore", "proof", "filesAfter", "after", "finish", "done"},
         At <= Position(pc')
  PROVE  /\ pc' \in Steps /\ pc' \notin Histories /\ At' = Position(pc')
         /\ (\A h \in Histories : Judged(h)') /\ Absences' /\ Watching'
<1>1. pc' \in Steps /\ pc' \notin Histories BY DEF Steps, Histories
<1>2. At' = Position(pc') /\ At \in 1..19 BY AtNext, AtNow DEF CInv
<1> QED BY <1>1, <1>2, LateStays

LEMMA ReadCredentialsKeeps == ASSUME CInv, ReadCredentials PROVE CInv'
<1>1. /\ pc = "credentials"
      /\ UNCHANGED <<req, history, removed, names, gate, binding, detail, job, bracket, proof>>
      /\ \/ GatesPassed /\ secrets' = TRUE /\ pc' = Onward(pc) /\ UNCHANGED exit
         \/ exit' = "unreported" /\ pc' = "done" /\ UNCHANGED secrets
         \/ pc' = "proof" /\ UNCHANGED <<secrets, exit>>
  BY DEF ReadCredentials
<1>2. At = 11 /\ pc # "done" /\ exit = "running" BY <1>1, AskingAt, Positions
<1>3. pc' \in {"detail", "before", "proof", "done"} /\ At < Position(pc')
  <2>1. CASE pc' = Onward(pc)
    <3>1. pc' \in Steps /\ At < At' /\ At' <= 15 /\ pc' # "filesBefore" BY <1>1, <1>2, <2>1, Moving DEF CInv
    <3>2. At' = Position(pc') BY AtNext
    <3> QED BY <1>2, <3>1, <3>2, Positions DEF Steps
  <2>2. CASE pc' \in {"done", "proof"} BY <1>2, <2>2, Positions
  <2> QED BY <1>1, <2>1, <2>2
<1>4. At <= Position(pc') BY <1>2, <1>3, Positions
<1>5. /\ pc' \in Steps /\ pc' \notin Histories /\ At' = Position(pc')
      /\ (\A h \in Histories : Judged(h)') /\ Absences' /\ Watching'
  BY <1>1, <1>2, <1>3, <1>4, LaterStep
<1>6. ~Past("before") /\ ~Past("proof") /\ ~Past("credentials") BY <1>2, Positions DEF Past
<1>7. secrets = FALSE /\ detail = "none" /\ bracket = NoBracket /\ proof = NotRead
  BY <1>6 DEF CInv, Gated, Bracketed, Shapes
<1>8. NoBracket.before = NotRead /\ NoBracket.filesBefore = NotRead /\ NoBracket.filesAfter = NotRead
      /\ NoBracket.after = NotRead
  BY DEF NoBracket
<1>9. NotRead \notin Queues BY DEF NotRead, Queues, ExactJobs
<1>10. Past("credentials")' BY <1>2, <1>3, AtNext, Positions
<1>11. pc' = "done" <=> exit' = "unreported"
  <2>1. pc' = Onward(pc) => pc' # "done" BY <1>2, Moving, <1>1 DEF CInv
  <2> QED BY <1>1, <1>2, <2>1
<1>12. pc' \in {"detail", "before"} => secrets'
  <2>1. pc' \in {"detail", "before"} => pc' = Onward(pc) BY <1>1
  <2> QED BY <1>1, <1>2, <2>1
<1>13. Shapes'
  <2>1. secrets' \in BOOLEAN /\ exit' \in {"running", "unreported"} BY <1>1, <1>2, <1>7
  <2>2. exit' = "running" <=> pc' # "done" BY <1>11, <2>1
  <2> QED BY <1>1, <1>5, <2>1, <2>2 DEF CInv, Shapes
<1>14. Gated'
  <2>1. secrets' => GatesPassed' BY <1>1, <1>7 DEF GatesPassed
  <2> QED BY <1>1, <1>3, <1>7, <1>8, <1>10, <1>12, <2>1 DEF Gated
<1>15. Bracketed'
  <2>1. Past("proof")' => pc' = "done" BY <1>3, AtNext, Positions
  <2> QED BY <1>1, <1>3, <1>7, <1>8, <1>9, <2>1 DEF Bracketed
<1>16. Steady' BY <1>1, <1>7, <1>8, <1>9 DEF Steady
<1>17. Exited' BY <1>11 DEF Exited
<1> QED BY <1>5, <1>13, <1>14, <1>15, <1>16, <1>17 DEF CInv

LEMMA ReadDetailKeeps == ASSUME CInv, ReadDetail PROVE CInv'
<1>1. /\ pc = "detail" /\ pc' = Onward(pc) /\ detail' \in {"observed", "failed"}
      /\ UNCHANGED <<req, history, removed, names, gate, binding, secrets, job, bracket, proof, exit>>
  BY DEF ReadDetail
<1>2. At = 12 /\ pc # "done" /\ exit = "running" BY <1>1, AskingAt, Positions
<1>3. pc' \in {"before", "proof"} /\ At < Position(pc')
  <2>1. pc' \in Steps /\ At < At' /\ At' <= 15 /\ pc' # "filesBefore" BY <1>1, <1>2, Moving DEF CInv
  <2>2. At' = Position(pc') BY AtNext
  <2> QED BY <1>2, <2>1, <2>2, Positions DEF Steps
<1>4. At <= Position(pc') BY <1>2, <1>3, Positions
<1>5. /\ pc' \in Steps /\ pc' \notin Histories /\ At' = Position(pc')
      /\ (\A h \in Histories : Judged(h)') /\ Absences' /\ Watching'
  BY <1>1, <1>2, <1>3, <1>4, LaterStep
<1>6. ~Past("before") /\ ~Past("proof") BY <1>2, Positions DEF Past
<1>7. secrets /\ bracket = NoBracket /\ proof = NotRead
  BY <1>1, <1>6 DEF CInv, Gated, Bracketed
<1>8. NoBracket.before = NotRead /\ NoBracket.filesBefore = NotRead /\ NoBracket.filesAfter = NotRead
      /\ NoBracket.after = NotRead
  BY DEF NoBracket
<1>9. NotRead \notin Queues BY DEF NotRead, Queues, ExactJobs
<1>10. Past("credentials")' BY <1>2, <1>3, AtNext, Positions
<1>11. Shapes' BY <1>1, <1>2, <1>3, <1>5 DEF CInv, Shapes
<1>12. Gated'
  <2>1. GatesPassed' BY <1>1, <1>7 DEF GatesPassed, CInv, Gated
  <2> QED BY <1>1, <1>7, <1>10, <2>1 DEF Gated
<1>13. Bracketed'
  <2>1. ~Past("proof")' BY <1>3, AtNext, Positions
  <2> QED BY <1>1, <1>3, <1>7, <1>8, <1>9, <2>1 DEF Bracketed
<1>14. Steady' BY <1>1, <1>7, <1>8, <1>9 DEF Steady
<1>15. Exited' BY <1>3 DEF Exited
<1> QED BY <1>5, <1>11, <1>12, <1>13, <1>14, <1>15 DEF CInv

\* What a read of the bracket, a change of the job and the proof leave alone.
LEMMA Bracketing ==
  ASSUME CInv, pc \in {"before", "filesBefore", "proof", "filesAfter", "after"},
         UNCHANGED <<req, history, removed, names, gate, binding, secrets, detail, exit>>,
         pc' \in {"before", "filesBefore", "proof", "filesAfter", "after", "finish"},
         At <= Position(pc'), bracket'.before # NotRead => bracket.before # NotRead \/ secrets,
         pc' \in {"before", "filesBefore"} => secrets
  PROVE  /\ (\A h \in Histories : Judged(h)') /\ Absences' /\ Watching' /\ Gated' /\ Exited'
         /\ pc' \in Steps /\ pc' \notin Histories /\ At' = Position(pc') /\ pc' # "done"
         /\ At = Position(pc) /\ At \in 11..18 /\ pc # "done"
<1>1. At = Position(pc) /\ At \in 11..18 /\ pc # "done" BY AskingAt
<1>2. /\ pc' \in Steps /\ pc' \notin Histories /\ At' = Position(pc')
      /\ (\A h \in Histories : Judged(h)') /\ Absences' /\ Watching'
  BY <1>1, LaterStep
<1>3. Exited' BY DEF Exited
<1>4. secrets => GatesPassed' /\ Past("credentials")'
  <2>1. secrets => GatesPassed' BY DEF CInv, Gated, GatesPassed
  <2>2. secrets => Past("credentials") BY DEF CInv, Gated
  <2>3. Past("credentials") => Past("credentials")' BY <1>1, <1>2, AtNext, Positions DEF Past
  <2> QED BY <2>1, <2>2, <2>3
<1>5. detail # "none" => secrets BY DEF CInv, Gated
<1>6. bracket.before # NotRead => secrets BY DEF CInv, Gated
<1> QED BY <1>1, <1>2, <1>3, <1>4, <1>5, <1>6 DEF Gated

LEMMA NotReadIsNoAnswer ==
  /\ NotRead \notin Queues /\ "failed" \notin Queues /\ NotRead \notin Layouts /\ "failed" \notin Layouts
  /\ NotRead # "failed" /\ ExactJobs \subseteq Queues /\ "absent" \in Queues
BY DEF NotRead, Queues, ExactJobs, Layouts

LEMMA ReadBeforeKeeps == ASSUME CInv, ReadBefore PROVE CInv'
<1>1. /\ pc = "before"
      /\ UNCHANGED <<req, history, removed, names, gate, binding, secrets, detail, proof, exit>>
  BY DEF ReadBefore
<1>2. At = 13 /\ secrets BY <1>1, AskingAt, Positions DEF CInv, Gated
<1>3. ~Past("before") /\ ~Past("proof") /\ bracket = NoBracket /\ proof = NotRead
  BY <1>2, Positions DEF Past, CInv, Bracketed
<1>4. PICK before \in Queues \cup {"failed"} :
        /\ bracket' = [bracket EXCEPT !.before = before]
        /\ \/ before = "failed" /\ pc' = "proof" /\ job' = job
           \/ /\ before \in Queues
              /\ \E layout \in Layouts : job' = [job EXCEPT !.queue = before, !.layout = layout]
              /\ pc' = "proof" \/ (pc' = "filesBefore" /\ before \in ExactJobs)
  <2>1. CASE /\ bracket' = [bracket EXCEPT !.before = "failed"] /\ pc' = "proof" /\ UNCHANGED job
    BY <2>1
  <2>2. CASE \E queue \in Queues, layout \in Layouts :
               /\ bracket' = [bracket EXCEPT !.before = queue]
               /\ job' = [job EXCEPT !.queue = queue, !.layout = layout]
               /\ pc' = IF req.files /\ queue \in ExactJobs THEN "filesBefore" ELSE "proof"
    <3>1. PICK queue \in Queues, layout \in Layouts :
               /\ bracket' = [bracket EXCEPT !.before = queue]
               /\ job' = [job EXCEPT !.queue = queue, !.layout = layout]
               /\ pc' = IF req.files /\ queue \in ExactJobs THEN "filesBefore" ELSE "proof"
      BY <2>2
    <3>2. pc' = "proof" \/ (pc' = "filesBefore" /\ queue \in ExactJobs) BY <3>1
    <3> QED BY <3>1, <3>2
  <2> QED BY <2>1, <2>2 DEF ReadBefore
<1>5. /\ bracket'.before = before /\ bracket'.filesBefore = NotRead /\ bracket'.filesAfter = NotRead
      /\ bracket'.after = NotRead
      /\ bracket' \in [before : Queues \cup {NotRead, "failed"}, after : Queues \cup {NotRead, "failed"},
                       filesBefore : Layouts \cup {NotRead, "failed"},
                       filesAfter : Layouts \cup {NotRead, "failed"}]
  BY <1>3, <1>4 DEF NoBracket
<1>6. /\ job' \in [queue : Queues \cup {NotRead}, layout : Layouts \cup {NotRead},
                   turns : 0..MaxTurns, atProof : {NotRead}]
      /\ job'.turns = job.turns
      /\ before \in Queues => job'.queue = before /\ job'.layout \in Layouts
  <2>1. job \in [queue : Queues \cup {NotRead}, layout : Layouts \cup {NotRead},
                 turns : 0..MaxTurns, atProof : {NotRead}]
    BY <1>3 DEF CInv, Shapes
  <2> QED BY <1>4, <2>1, NotReadIsNoAnswer
<1>7. /\ (\A h \in Histories : Judged(h)') /\ Absences' /\ Watching' /\ Gated' /\ Exited'
      /\ pc' \in Steps /\ pc' \notin Histories /\ At' = Position(pc') /\ pc' # "done" /\ pc # "done"
  <2>1. pc' \in {"filesBefore", "proof"} BY <1>4
  <2>2. At <= Position(pc') BY <1>2, <2>1, Positions
  <2> QED BY <1>1, <1>2, <2>1, <2>2, Bracketing
<1>8. proof' = NotRead BY <1>1, <1>3
<1>9. Shapes' BY <1>1, <1>5, <1>6, <1>7, <1>8 DEF CInv, Shapes
<1>10. Past("before")' /\ ~Past("proof")' /\ ~Past("after")'
  <2>1. pc' \in {"filesBefore", "proof"} BY <1>4
  <2> QED BY <2>1, AtNext, Positions
<1>11. Bracketed'
  BY <1>4, <1>5, <1>6, <1>8, <1>10, NotReadIsNoAnswer DEF Bracketed
<1>12. Steady' BY <1>4, <1>5, <1>6, <1>8, NotReadIsNoAnswer DEF Steady
<1> QED BY <1>7, <1>9, <1>11, <1>12 DEF CInv

LEMMA ReadFilesBeforeKeeps == ASSUME CInv, ReadFilesBefore PROVE CInv'
<1>1. /\ pc = "filesBefore" /\ pc' = "proof"
      /\ UNCHANGED <<req, history, removed, names, gate, binding, secrets, detail, job, proof, exit>>
  BY DEF ReadFilesBefore
<1>2. At = 14 /\ secrets /\ bracket.before \in ExactJobs /\ bracket.before \in Queues
  BY <1>1, AskingAt, Positions DEF CInv, Gated, Bracketed
<1>3. ~Past("proof") /\ ~Past("after") /\ Past("before") BY <1>2, Positions DEF Past
<1>4. /\ bracket.filesAfter = NotRead /\ bracket.after = NotRead /\ proof = NotRead
      /\ job.queue \in Queues /\ job.layout \in Layouts
  BY <1>2, <1>3 DEF CInv, Bracketed
<1>5. PICK answer \in {"failed", job.layout} : bracket' = [bracket EXCEPT !.filesBefore = answer]
  BY DEF ReadFilesBefore, FileAnswers
<1>6. /\ bracket'.before = bracket.before /\ bracket'.filesBefore = answer
      /\ bracket'.filesAfter = NotRead /\ bracket'.after = NotRead
      /\ bracket' \in [before : Queues \cup {NotRead, "failed"}, after : Queues \cup {NotRead, "failed"},
                       filesBefore : Layouts \cup {NotRead, "failed"},
                       filesAfter : Layouts \cup {NotRead, "failed"}]
  BY <1>4, <1>5 DEF CInv, Shapes
<1>7. /\ (\A h \in Histories : Judged(h)') /\ Absences' /\ Watching' /\ Gated' /\ Exited'
      /\ pc' \in Steps /\ pc' \notin Histories /\ At' = Position(pc') /\ pc' # "done" /\ pc # "done"
  BY <1>1, <1>2, Positions, Bracketing
<1>8. Shapes' BY <1>1, <1>6, <1>7 DEF CInv, Shapes
<1>9. Past("before")' /\ ~Past("proof")' /\ ~Past("after")' BY <1>1, AtNext, Positions
<1>10. Bracketed' BY <1>1, <1>2, <1>4, <1>6, <1>9, NotReadIsNoAnswer DEF Bracketed
<1>11. Steady' BY <1>1, <1>2, <1>4, <1>5, <1>6, NotReadIsNoAnswer DEF Steady, CInv
<1> QED BY <1>7, <1>8, <1>10, <1>11 DEF CInv

LEMMA ProveStorageKeeps == ASSUME CInv, ProveStorage PROVE CInv'
<1>1. /\ pc = "proof" /\ pc' \in {"filesAfter", "after", "finish"}
      /\ pc' = "filesAfter" => bracket.filesBefore \in Layouts
      /\ pc' = "after" => bracket.before \in Queues
      /\ job' = [job EXCEPT !.atProof = <<job.queue, job.layout>>]
      /\ UNCHANGED <<req, history, removed, names, gate, binding, secrets, detail, bracket, exit>>
  BY DEF ProveStorage
<1>2. proof' \in Proofs /\ NotRead \notin Proofs
  <2>1. proof' \in ProofAnswers BY DEF ProveStorage
  <2> QED BY <2>1 DEF ProofAnswers, Proofs, NotRead
<1>3. At = 15 BY <1>1, AskingAt, Positions
<1>4. ~Past("proof") /\ ~Past("after") /\ Past("before") BY <1>3, Positions DEF Past
<1>5. /\ bracket.filesAfter = NotRead /\ bracket.after = NotRead /\ proof = NotRead
      /\ bracket.filesBefore \in Layouts => bracket.before \in Queues
  BY <1>2, <1>4, NotReadIsNoAnswer DEF CInv, Bracketed
<1>6. /\ job' \in [queue : Queues \cup {NotRead}, layout : Layouts \cup {NotRead}, turns : 0..MaxTurns,
                   atProof : (Queues \cup {NotRead}) \X (Layouts \cup {NotRead})]
      /\ job'.queue = job.queue /\ job'.layout = job.layout /\ job'.turns = job.turns
      /\ job'.atProof[1] = job.queue /\ job'.atProof[2] = job.layout
  <2>1. job \in [queue : Queues \cup {NotRead}, layout : Layouts \cup {NotRead},
                 turns : 0..MaxTurns, atProof : {NotRead}]
    BY <1>5 DEF CInv, Shapes
  <2> QED BY <1>1, <2>1
<1>7. /\ (\A h \in Histories : Judged(h)') /\ Absences' /\ Watching' /\ Gated' /\ Exited'
      /\ pc' \in Steps /\ pc' \notin Histories /\ At' = Position(pc') /\ pc' # "done" /\ pc # "done"
  <2>1. At <= Position(pc') BY <1>1, <1>3, Positions
  <2> QED BY <1>1, <2>1, Bracketing
<1>8. Shapes' BY <1>1, <1>2, <1>6, <1>7 DEF CInv, Shapes
<1>9. Past("before")' /\ Past("proof")' BY <1>1, AtNext, Positions
<1>10. Bracketed' BY <1>1, <1>2, <1>4, <1>5, <1>6, <1>9, NotReadIsNoAnswer DEF Bracketed, CInv
<1>11. Steady' BY <1>1, <1>5, <1>6, NotReadIsNoAnswer DEF Steady, CInv
<1> QED BY <1>7, <1>8, <1>10, <1>11 DEF CInv

LEMMA ReadFilesAfterKeeps == ASSUME CInv, ReadFilesAfter PROVE CInv'
<1>1. /\ pc = "filesAfter" /\ pc' = "after"
      /\ UNCHANGED <<req, history, removed, names, gate, binding, secrets, detail, job, proof, exit>>
  BY DEF ReadFilesAfter
<1>2. At = 16 /\ bracket.before \in Queues /\ bracket.filesBefore \in Layouts
  BY <1>1, AskingAt, Positions DEF CInv, Bracketed
<1>3. Past("proof") /\ ~Past("after") /\ Past("before") BY <1>2, Positions DEF Past
<1>4. bracket.after = NotRead /\ proof # NotRead BY <1>1, <1>3 DEF CInv, Bracketed
<1>5. PICK answer \in {"failed", job.layout} : bracket' = [bracket EXCEPT !.filesAfter = answer]
  BY DEF ReadFilesAfter, FileAnswers
<1>6. job.layout \in Layouts BY <1>2 DEF CInv, Bracketed
<1>7. /\ bracket'.before = bracket.before /\ bracket'.filesBefore = bracket.filesBefore
      /\ bracket'.filesAfter = answer /\ bracket'.after = NotRead
      /\ bracket' \in [before : Queues \cup {NotRead, "failed"}, after : Queues \cup {NotRead, "failed"},
                       filesBefore : Layouts \cup {NotRead, "failed"},
                       filesAfter : Layouts \cup {NotRead, "failed"}]
  BY <1>4, <1>5, <1>6 DEF CInv, Shapes
<1>8. /\ (\A h \in Histories : Judged(h)') /\ Absences' /\ Watching' /\ Gated' /\ Exited'
      /\ pc' \in Steps /\ pc' \notin Histories /\ At' = Position(pc') /\ pc' # "done" /\ pc # "done"
  BY <1>1, <1>2, <1>7, Positions, Bracketing
<1>9. Shapes' BY <1>1, <1>7, <1>8 DEF CInv, Shapes
<1>10. Past("before")' /\ Past("proof")' /\ ~Past("after")' BY <1>1, AtNext, Positions
<1>11. Bracketed' BY <1>1, <1>2, <1>3, <1>4, <1>7, <1>10, NotReadIsNoAnswer DEF Bracketed, CInv
<1>12. Steady' BY <1>1, <1>2, <1>4, <1>5, <1>7, NotReadIsNoAnswer DEF Steady, CInv
<1> QED BY <1>8, <1>9, <1>11, <1>12 DEF CInv

LEMMA ReadAfterKeeps == ASSUME CInv, ReadAfter PROVE CInv'
<1>1. /\ pc = "after" /\ pc' = "finish"
      /\ UNCHANGED <<req, history, removed, names, gate, binding, secrets, detail, job, proof, exit>>
  BY DEF ReadAfter
<1>2. At = 17 /\ bracket.before \in Queues BY <1>1, AskingAt, Positions DEF CInv, Bracketed
<1>3. Past("proof") /\ Past("before") BY <1>2, Positions DEF Past
<1>4. proof # NotRead /\ job.queue \in Queues BY <1>1, <1>2, <1>3 DEF CInv, Bracketed
<1>5. PICK answer \in {"failed", job.queue} : bracket' = [bracket EXCEPT !.after = answer]
  BY DEF ReadAfter
<1>6. /\ bracket'.before = bracket.before /\ bracket'.filesBefore = bracket.filesBefore
      /\ bracket'.filesAfter = bracket.filesAfter /\ bracket'.after = answer
      /\ bracket' \in [before : Queues \cup {NotRead, "failed"}, after : Queues \cup {NotRead, "failed"},
                       filesBefore : Layouts \cup {NotRead, "failed"},
                       filesAfter : Layouts \cup {NotRead, "failed"}]
  BY <1>4, <1>5 DEF CInv, Shapes
<1>7. /\ (\A h \in Histories : Judged(h)') /\ Absences' /\ Watching' /\ Gated' /\ Exited'
      /\ pc' \in Steps /\ pc' \notin Histories /\ At' = Position(pc') /\ pc' # "done" /\ pc # "done"
  BY <1>1, <1>2, <1>6, Positions, Bracketing
<1>8. Shapes' BY <1>1, <1>6, <1>7 DEF CInv, Shapes
<1>9. Past("before")' /\ Past("proof")' /\ Past("after")' BY <1>1, AtNext, Positions
<1>10. Bracketed' BY <1>1, <1>2, <1>3, <1>4, <1>6, <1>9, NotReadIsNoAnswer DEF Bracketed, CInv
<1>11. Steady' BY <1>1, <1>2, <1>4, <1>5, <1>6, NotReadIsNoAnswer DEF Steady, CInv
<1> QED BY <1>7, <1>8, <1>10, <1>11 DEF CInv

LEMMA ClientTurnKeeps == ASSUME CInv, ClientTurn PROVE CInv'
<1>1. /\ pc \in {"filesBefore", "proof", "filesAfter", "after"} /\ bracket.before \in Queues
      /\ job.turns < MaxTurns
      /\ UNCHANGED <<req, pc, history, removed, names, gate, binding, secrets, detail, bracket, proof, exit>>
  BY DEF ClientTurn
<1>2. job.turns \in Nat /\ job.turns + 1 \in 0..MaxTurns BY <1>1, MaxTurnsIsNat DEF CInv, Shapes
<1>3. /\ job'.turns = job.turns + 1 /\ job'.atProof = job.atProof
      /\ job'.queue \in Queues /\ job'.layout \in Layouts
      /\ job'.queue # job.queue \/ (job'.queue = job.queue /\ job'.layout # job.layout)
      /\ job' \in [queue : Queues \cup {NotRead}, layout : Layouts \cup {NotRead}, turns : 0..MaxTurns,
                   atProof : IF proof = NotRead THEN {NotRead}
                             ELSE (Queues \cup {NotRead}) \X (Layouts \cup {NotRead})]
  <2> DEFINE Ats == IF proof = NotRead THEN {NotRead}
                    ELSE (Queues \cup {NotRead}) \X (Layouts \cup {NotRead})
  <2>1. job \in [queue : Queues \cup {NotRead}, layout : Layouts \cup {NotRead},
                 turns : 0..MaxTurns, atProof : Ats]
    BY DEF CInv, Shapes
  <2>2. job.queue \in Queues /\ job.layout \in Layouts BY <1>1 DEF CInv, Bracketed
  <2> HIDE DEF Ats
  <2>3. CASE \E queue \in {"seeding", "stopped", "absent"} \ {job.queue} :
               job' = [job EXCEPT !.queue = queue, !.turns = @ + 1]
    <3>1. PICK queue \in {"seeding", "stopped", "absent"} \ {job.queue} :
            job' = [job EXCEPT !.queue = queue, !.turns = @ + 1]
      BY <2>3
    <3>2. queue \in Queues BY DEF Queues, ExactJobs
    <3> QED BY <1>2, <2>1, <2>2, <3>1, <3>2 DEF Ats
  <2>4. CASE \E layout \in {"exact", "other"} \ {job.layout} :
               job' = [job EXCEPT !.layout = layout, !.turns = @ + 1]
    <3>1. PICK layout \in {"exact", "other"} \ {job.layout} :
            job' = [job EXCEPT !.layout = layout, !.turns = @ + 1]
      BY <2>4
    <3>2. layout \in Layouts BY DEF Layouts
    <3> QED BY <1>2, <2>1, <2>2, <3>1, <3>2 DEF Ats
  <2> QED BY <2>3, <2>4 DEF ClientTurn
<1>4. At' = At BY <1>1, AtNext DEF At
<1>5. /\ (\A h \in Histories : Judged(h)') /\ Absences' /\ Watching' /\ Gated' /\ Exited'
      /\ pc' \in Steps /\ pc' \notin Histories
  <2>1. At = Position(pc) /\ At \in 11..18 BY <1>1, AskingAt
  <2>2. At <= Position(pc') /\ (pc' = "filesBefore" => secrets) BY <1>1, <2>1 DEF CInv, Gated
  <2> QED BY <1>1, <2>2, Bracketing
<1>6. Shapes' BY <1>1, <1>3, <1>5 DEF CInv, Shapes
<1>7. Bracketed' BY <1>1, <1>3, <1>4 DEF Bracketed, CInv, Past
<1>8. Steady'
  <2>1. job'.turns # 0 /\ (job'.turns <= 1 => job.turns = 0) BY <1>2, <1>3
  <2>2. CASE job.turns = 0
    <3>1. job.queue = bracket.before /\ (bracket.filesBefore \in Layouts => job.layout = bracket.filesBefore)
      BY <1>1, <2>2 DEF CInv, Steady
    <3> QED BY <1>1, <1>3, <2>1, <2>2, <3>1 DEF CInv, Steady
  <2>3. CASE job.turns # 0 BY <2>1, <2>3 DEF Steady
  <2> QED BY <2>2, <2>3
<1> QED BY <1>5, <1>6, <1>7, <1>8 DEF CInv

\* The verdict is taken from what Finish leaves alone.
LEMMA OutcomeStays ==
  ASSUME UNCHANGED <<req, history, removed, names, gate, binding, secrets, detail, job, bracket, proof>>
  PROVE  Outcome' = Outcome /\ (IntegrityFailed' <=> IntegrityFailed)
<1>1. StorageStatus' = StorageStatus BY DEF StorageStatus
<1>2. ClientStatus' = ClientStatus BY DEF ClientStatus, Stable, Signature
<1>3. PathStatus' = PathStatus BY <1>2 DEF PathStatus
<1>4. FinalObserved' <=> FinalObserved BY DEF FinalObserved
<1>5. \A h : Unproved(h)' = Unproved(h) BY DEF Unproved
<1>6. AdoptionStatus' = AdoptionStatus BY <1>2, <1>4, <1>5 DEF AdoptionStatus, FileStop
<1>7. ActivationStatus' = ActivationStatus BY <1>2, <1>3, <1>4, <1>5 DEF ActivationStatus
<1>8. OfAnotherLineage' <=> OfAnotherLineage BY <1>4 DEF OfAnotherLineage
<1>9. StopStatus' = StopStatus BY <1>5, <1>7, <1>8 DEF StopStatus
<1>10. RemovalStatus' = RemovalStatus BY <1>5, <1>7, <1>8 DEF RemovalStatus
<1>11. Unattempted' <=> Unattempted BY DEF Unattempted
<1>12. RetirementStatus' = RetirementStatus BY <1>5, <1>7, <1>8, <1>11 DEF RetirementStatus
<1>13. Implied' <=> Implied BY DEF Implied
<1>14. CleanupStatus' = CleanupStatus BY <1>5, <1>11, <1>12, <1>13 DEF CleanupStatus
<1>15. \A h : Status(h)' = Status(h)
  BY <1>6, <1>7, <1>9, <1>10, <1>12, <1>14 DEF Status
<1>16. OutsideBracket' <=> OutsideBracket BY DEF OutsideBracket
<1>17. {Status(h) : h \in req.axes}' = {Status(h) : h \in req.axes} BY <1>15
<1>18. Outcome' = Outcome BY <1>1, <1>2, <1>3, <1>16, <1>17 DEF Outcome
<1>19. IntegrityFailed' <=> IntegrityFailed BY DEF IntegrityFailed
<1> QED BY <1>18, <1>19

LEMMA FinishKeeps == ASSUME CInv, Finish PROVE CInv'
<1>1. /\ pc = "finish" /\ pc' = "done"
      /\ UNCHANGED <<req, history, removed, names, gate, binding, secrets, detail, job, bracket, proof>>
  BY DEF Finish
<1>2. At = 18 BY <1>1, AskingAt, Positions
<1>3. Past("proof") /\ Past("after") /\ Past("before") BY <1>2, Positions DEF Past
<1>4. proof # NotRead BY <1>1, <1>3 DEF CInv, Bracketed
<1>5. /\ (\A h \in Histories : Judged(h)') /\ Absences' /\ Watching'
      /\ pc' \in Steps /\ pc' \notin Histories /\ At' = Position(pc')
  BY <1>1, <1>2, Positions, LaterStep
<1>6. PICK strict \in BOOLEAN :
       exit' = IF req.source = "search" /\ proof = "error" THEN "unreported"
               ELSE IF IntegrityFailed THEN "integrity"
               ELSE IF proof = "error" THEN "error"
               ELSE IF strict /\ Outcome # "consistent" THEN "inconclusive"
               ELSE IF strict THEN "reconciled" ELSE "reported"
  BY DEF Finish
<1>7. exit' \in {"unreported", "integrity", "error", "inconclusive", "reconciled", "reported"}
  BY <1>6
<1>8. Shapes' BY <1>1, <1>5, <1>7 DEF CInv, Shapes
<1>9. Past("before")' /\ Past("proof")' /\ Past("after")' /\ Past("credentials")'
  BY <1>1, AtNext, Positions
<1>10. Gated'
  <2>1. GatesPassed' <=> GatesPassed BY <1>1 DEF GatesPassed
  <2> QED BY <1>1, <1>9, <2>1 DEF Gated, CInv
<1>11. Bracketed' BY <1>1, <1>3, <1>9 DEF Bracketed, CInv
<1>12. Steady' BY <1>1 DEF Steady, CInv
<1>13. Exited'
  <2>1. Outcome' = Outcome /\ (IntegrityFailed' <=> IntegrityFailed) BY <1>1, OutcomeStays
  <2>2. exit' # "unreported" => (exit' = "integrity" <=> IntegrityFailed) BY <1>6
  <2>3. exit' = "reconciled" => Outcome = "consistent" BY <1>6
  <2> QED BY <1>1, <1>4, <2>1, <2>2, <2>3 DEF Exited
<1> QED BY <1>5, <1>8, <1>10, <1>11, <1>12, <1>13 DEF CInv

-----------------------------------------------------------------------------
LEMMA InitHolds == Init => CInv /\ Asked
<1> SUFFICES ASSUME Init PROVE CInv /\ Asked OBVIOUS
<1>1. /\ req \in Requests /\ pc = FirstStep /\ history = [h \in Histories |-> NoEvidence]
      /\ removed = [retained |-> {}, attempted |-> {}, direct |-> {}, derived |-> {}]
      /\ names = NoNames /\ gate = "ok" /\ binding = "none" /\ secrets = FALSE /\ detail = "none"
      /\ job = [queue |-> NotRead, layout |-> NotRead, turns |-> 0, atProof |-> NotRead]
      /\ bracket = NoBracket /\ proof = NotRead /\ exit = "running"
  BY DEF Init
<1>2. Follows(pc, 0) BY <1>1, FirstFollows
<1>3. /\ pc \in Steps /\ Due(pc) /\ At <= 15 /\ At \in 1..19
      /\ \A other \in Steps : Position(other) < At => ~Due(other)
  BY <1>2, OrderIsPositions DEF Follows, At
<1>4. /\ req.axes \subseteq Histories /\ (\A h \in Histories : Due(h) <=> h \in req.axes)
      /\ ~Due("names") /\ ~Due("parents") /\ ~Due("filesBefore")
      /\ Due("detail") \/ Due("before") => Due("credentials")
  BY <1>1, RequestsAreLegal DEF LegalRequest, Due, Selected, Histories
<1>5. pc \notin {"done", "names", "parents", "filesBefore", "filesAfter", "after", "finish"}
  BY <1>3, <1>4, Positions DEF At
<1>6. pc \notin {"detail", "before"}
  <2> SUFFICES ASSUME pc \in {"detail", "before"} PROVE FALSE OBVIOUS
  <2>1. Due("credentials") /\ Position("credentials") < At BY <1>3, <1>4, Positions DEF At
  <2> QED BY <1>3, <2>1 DEF Steps
<1>7. history \in [Histories -> [completion : BOOLEAN, reason : Reasons]]
  BY <1>1 DEF NoEvidence, Reasons
<1>8. \A h \in Histories : history[h] = NoEvidence /\ ~history[h].completion BY <1>1 DEF NoEvidence
<1>9. \A h \in req.axes : ~Past(h)
  BY <1>3, <1>4 DEF Past, Histories, Steps
<1>10. names \in NamesType BY <1>1 DEF NoNames, NamesType, Places, Passes
<1>11. bracket \in [before : Queues \cup {NotRead, "failed"}, after : Queues \cup {NotRead, "failed"},
                    filesBefore : Layouts \cup {NotRead, "failed"},
                    filesAfter : Layouts \cup {NotRead, "failed"}]
  BY <1>1 DEF NoBracket
<1>12. Shapes
  <2>1. pc \in Histories => pc \in req.axes BY <1>3, <1>4
  <2>2. job \in [queue : Queues \cup {NotRead}, layout : Layouts \cup {NotRead}, turns : 0..MaxTurns,
                 atProof : IF proof = NotRead THEN {NotRead}
                           ELSE (Queues \cup {NotRead}) \X (Layouts \cup {NotRead})]
    BY <1>1, MaxTurnsIsNat
  <2> QED BY <1>1, <1>3, <1>5, <1>7, <1>10, <1>11, <2>1, <2>2 DEF Shapes, Bindings
<1>13. \A h \in Histories : Judged(h) BY <1>8, <1>9 DEF Judged
<1>14. Absences
  <2>1. ~Past("names") \/ "retirement" \notin req.axes
    <3> SUFFICES ASSUME Past("names"), "retirement" \in req.axes PROVE FALSE OBVIOUS
    <3>1. ~Past("retirement") BY <1>9
    <3> QED BY <1>3, <3>1, Positions DEF Past
  <2>2. ~Past("parents") \/ "cleanup" \notin req.axes
    <3> SUFFICES ASSUME Past("parents"), "cleanup" \in req.axes PROVE FALSE OBVIOUS
    <3>1. ~Past("cleanup") BY <1>9
    <3> QED BY <1>3, <3>1, Positions DEF Past
  <2>3. ~history["retirement"].completion BY <1>8 DEF Histories
  <2> QED BY <1>1, <2>1, <2>2, <2>3 DEF Absences
<1>15. Watching BY <1>5 DEF Watching
<1>16. NoBracket.before = NotRead /\ NoBracket.filesBefore = NotRead /\ NoBracket.filesAfter = NotRead
       /\ NoBracket.after = NotRead
  BY DEF NoBracket
<1>17. Gated BY <1>1, <1>5, <1>6, <1>16 DEF Gated
<1>18. Bracketed
  <2>1. ~Past("proof") BY <1>3, Positions DEF Past
  <2> QED BY <1>1, <1>5, <1>16, <2>1, NotReadIsNoAnswer DEF Bracketed
<1>19. Steady BY <1>1, <1>16, NotReadIsNoAnswer DEF Steady
<1>20. Exited BY <1>5 DEF Exited
<1>21. Asked BY <1>1, <1>3, <1>4 DEF Asked, Due, Selected, Histories
<1> QED BY <1>12, <1>13, <1>14, <1>15, <1>17, <1>18, <1>19, <1>20, <1>21 DEF CInv

LEMMA StutterKeeps == ASSUME CInv, UNCHANGED vars PROVE CInv'
<1>1. /\ UNCHANGED <<req, pc, history, removed, names, gate, binding, secrets, detail, job, bracket, proof, exit>>
  BY DEF vars
<1>2. At' = At BY <1>1, AtNext DEF At
<1>3. Shapes' BY <1>1 DEF CInv, Shapes
<1>4. \A h \in Histories : Judged(h)' BY <1>1, <1>2 DEF CInv, Judged, Past
<1>5. Absences' BY <1>1, <1>2 DEF CInv, Absences, Past
<1>6. Watching'
  <2>1. WatchingOf("retirement", Dirs)' <=> WatchingOf("retirement", Dirs) BY <1>1 DEF WatchingOf
  <2>2. WatchingOf("cleanup", names.cleaned)' <=> WatchingOf("cleanup", names.cleaned)
    BY <1>1 DEF WatchingOf
  <2> QED BY <1>1, <2>1, <2>2, WatchingIs, WatchingNext DEF CInv
<1>7. Gated'
  <2>1. GatesPassed' <=> GatesPassed BY <1>1 DEF GatesPassed
  <2> QED BY <1>1, <1>2, <2>1 DEF CInv, Gated, Past
<1>8. Bracketed' BY <1>1, <1>2 DEF CInv, Bracketed, Past
<1>9. Steady' BY <1>1 DEF CInv, Steady
<1>10. Exited'
  <2>1. Outcome' = Outcome /\ (IntegrityFailed' <=> IntegrityFailed) BY <1>1, OutcomeStays
  <2> QED BY <1>1, <2>1 DEF CInv, Exited
<1> QED BY <1>3, <1>4, <1>5, <1>6, <1>7, <1>8, <1>9, <1>10 DEF CInv

LEMMA StepKeeps == ASSUME CInv, [Next]_vars PROVE CInv'
<1>1. CASE \E h \in Histories : ReadHistory(h) BY <1>1, ReadHistoryKeeps
<1>2. CASE ReadRetirement BY <1>2, ReadRetirementKeeps
<1>3. CASE ReadCleanup BY <1>3, ReadCleanupKeeps
<1>4. CASE \E d \in Dirs : Look(d) \/ EndLook(d) \/ Change(d)
  BY <1>4, LookKeeps, EndLookKeeps, ChangeKeeps
<1>5. CASE NamesAbsent BY <1>5, NamesAbsentKeeps
<1>6. CASE ParentsAbsent BY <1>6, ParentsAbsentKeeps
<1>7. CASE SelectIndex \/ LoadBinding BY <1>7, SelectionKeeps
<1>8. CASE ReadCredentials BY <1>8, ReadCredentialsKeeps
<1>9. CASE ReadDetail BY <1>9, ReadDetailKeeps
<1>10. CASE ReadBefore BY <1>10, ReadBeforeKeeps
<1>11. CASE ReadFilesBefore BY <1>11, ReadFilesBeforeKeeps
<1>12. CASE ProveStorage BY <1>12, ProveStorageKeeps
<1>13. CASE ReadFilesAfter BY <1>13, ReadFilesAfterKeeps
<1>14. CASE ReadAfter BY <1>14, ReadAfterKeeps
<1>15. CASE ClientTurn BY <1>15, ClientTurnKeeps
<1>16. CASE Finish BY <1>16, FinishKeeps
<1>17. CASE UNCHANGED vars BY <1>17, StutterKeeps
<1> QED BY <1>1, <1>2, <1>3, <1>4, <1>5, <1>6, <1>7, <1>8, <1>9, <1>10, <1>11, <1>12, <1>13, <1>14,
           <1>15, <1>16, <1>17 DEF Next

\* A step on to the binding is taken only when it is due.
LEMMA AskedStays ==
  ASSUME CInv, Asked, UNCHANGED <<req, binding>>,
         pc' # "binding" \/ pc' = pc \/ (pc' = Onward(pc) /\ At < 15)
  PROVE  Asked'
<1>1. CASE pc' # "binding" \/ pc' = pc BY <1>1 DEF Asked
<1>2. CASE pc' = "binding" /\ pc' = Onward(pc) /\ At < 15
  <2>1. Due("binding") BY <1>2, OnwardFollows DEF Follows, At, CInv, Shapes
  <2>2. "binding" \notin req.axes BY DueSteps DEF CInv, Histories
  <2>3. req.binding BY <2>1, <2>2 DEF Due, Selected
  <2> QED BY <2>3 DEF Asked
<1> QED BY <1>1, <1>2

LEMMA AskedKeeps == ASSUME CInv, Asked, [Next]_vars PROVE Asked'
<1>1. ASSUME UNCHANGED <<req, binding>>, pc' = Onward(pc),
             pc \in Histories \cup {"names", "parents", "index", "credentials", "detail"}
      PROVE  Asked'
  <2>1. At < 15 BY <1>1, Positions DEF At, Histories
  <2> QED BY <1>1, <2>1, AskedStays
<1>2. ASSUME UNCHANGED <<req, binding>>, pc' # "binding" \/ pc' = pc PROVE Asked'
  BY <1>2, AskedStays
<1>3. CASE \E h \in Histories : ReadHistory(h)
  <2>1. UNCHANGED <<req, binding>> /\ pc' = Onward(pc) /\ pc \in Histories BY <1>3 DEF ReadHistory
  <2> QED BY <1>1, <2>1
<1>4. CASE ReadRetirement
  <2>1. UNCHANGED <<req, binding>> /\ (pc' = "names" \/ pc' = Onward(pc)) /\ pc = "retirement"
    BY <1>4 DEF ReadRetirement
  <2> QED BY <1>1, <1>2, <2>1 DEF Histories
<1>5. CASE ReadCleanup
  <2>1. UNCHANGED <<req, binding>> /\ (pc' = "parents" \/ pc' = Onward(pc)) /\ pc = "cleanup"
    BY <1>5 DEF ReadCleanup
  <2> QED BY <1>1, <1>2, <2>1 DEF Histories
<1>6. CASE \E d \in Dirs : Look(d) \/ Change(d)
  <2>1. UNCHANGED <<req, binding, pc>> BY <1>6 DEF Look, Change
  <2> QED BY <1>2, <2>1
<1>7. CASE (\E d \in Dirs : EndLook(d)) \/ NamesAbsent \/ ParentsAbsent \/ SelectIndex
  <2>1. UNCHANGED <<req, binding>> /\ pc' = Onward(pc) /\ pc \in {"names", "parents", "index"}
    BY <1>7 DEF EndLook, NamesAbsent, ParentsAbsent, SelectIndex
  <2> QED BY <1>1, <2>1
<1>8. CASE LoadBinding
  <2>1. pc = "binding" /\ pc' = Onward(pc) /\ req' = req BY <1>8 DEF LoadBinding
  <2>2. req.binding BY <2>1 DEF Asked
  <2> QED BY <2>1, <2>2 DEF Asked
<1>9. CASE ReadCredentials
  <2>1. UNCHANGED <<req, binding>> /\ (pc' \in {"done", "proof"} \/ pc' = Onward(pc)) /\ pc = "credentials"
    BY <1>9 DEF ReadCredentials
  <2> QED BY <1>1, <1>2, <2>1
<1>10. CASE ReadDetail
  <2>1. UNCHANGED <<req, binding>> /\ pc' = Onward(pc) /\ pc = "detail" BY <1>10 DEF ReadDetail
  <2> QED BY <1>1, <2>1
<1>11. CASE ReadBefore \/ ReadFilesBefore \/ ProveStorage \/ ReadFilesAfter \/ ReadAfter \/ Finish
  <2>1. UNCHANGED <<req, binding>> /\ pc' # "binding"
    BY <1>11 DEF ReadBefore, ReadFilesBefore, ProveStorage, ReadFilesAfter, ReadAfter, Finish
  <2> QED BY <1>2, <2>1
<1>12. CASE ClientTurn \/ UNCHANGED vars
  <2>1. UNCHANGED <<req, binding, pc>> BY <1>12 DEF ClientTurn, vars
  <2> QED BY <1>2, <2>1
<1> QED BY <1>3, <1>4, <1>5, <1>6, <1>7, <1>8, <1>9, <1>10, <1>11, <1>12 DEF Next

\* The invariant and what it needs of the request's binding hold in every
\* reachable state: of a command at any step, over names and a job that others
\* change between any two of them.
THEOREM InvariantHolds == Spec => [](CInv /\ Asked)
<1>1. Init => CInv /\ Asked BY InitHolds
<1>2. CInv /\ Asked /\ [Next]_vars => (CInv /\ Asked)' BY StepKeeps, AskedKeeps
<1> QED BY <1>1, <1>2, PTL DEF Spec

-----------------------------------------------------------------------------
(* What the verdict says.                                                   *)

LEMMA TypeFollows == CInv => TypeOK
<1> SUFFICES ASSUME CInv PROVE TypeOK OBVIOUS
<1>1. \E i \in DOMAIN Order : pc = Order[i] BY OrderIsPositions DEF CInv, Shapes
<1>2. \A h \in Histories : history[h] # NoEvidence => h \in req.axes BY DEF CInv, Judged
<1>3. removed.direct \subseteq removed.attempted /\ removed.attempted \cap removed.retained = {}
  BY DEF CInv, Absences
<1>4. {bracket.before, bracket.after} \subseteq Queues \cup {NotRead, "failed"}
      /\ {bracket.filesBefore, bracket.filesAfter} \subseteq Layouts \cup {NotRead, "failed"}
  BY DEF CInv, Shapes
<1>5. names.place \in [Dirs -> Places] /\ names.pass \in 0..(Passes + 1)
      /\ names.todo \subseteq Dirs /\ names.cleaned \subseteq Dirs /\ names.moved \subseteq Dirs
      /\ names.together \subseteq {"retirement", "cleanup"}
  BY DEF CInv, Shapes, NamesType
<1>6. job.turns \in 0..MaxTurns BY DEF CInv, Shapes
<1> QED BY <1>1, <1>2, <1>3, <1>4, <1>5, <1>6 DEF TypeOK, CInv, Shapes, Bindings

\* The client and the path as the bracket shows them.
LEMMA ClientShown ==
  /\ ClientStatus \in {"not_requested", "incomplete", "ambiguous", "conflict", "absent", "exact_unique"}
  /\ ClientStatus = "exact_unique" =>
       bracket.before = bracket.after /\ bracket.after \in ExactJobs
  /\ ClientStatus = "absent" => bracket.before = "absent" /\ bracket.after = "absent"
  /\ ClientStatus = "conflict" => bracket.before = "foreign" /\ bracket.after = "foreign"
<1>1. CASE ~req.client \/ ~Stable BY <1>1 DEF ClientStatus
<1>2. CASE req.client /\ Stable
  <2>1. bracket.before = bracket.after /\ bracket.after \in Queues BY <1>2 DEF Stable, Signature
  <2> QED BY <1>2, <2>1 DEF ClientStatus, Queues
<1> QED BY <1>1, <1>2

LEMMA PathShown ==
  /\ PathStatus = "same_location" =>
       /\ proof = "verified" /\ req.files /\ ClientStatus = "exact_unique"
       /\ bracket.after \notin {"checking", "elsewhere"}
       /\ bracket.filesBefore = "exact" /\ bracket.filesAfter = "exact"
  /\ PathStatus = "layout_conflict" => bracket.filesBefore = "other" /\ bracket.filesAfter = "other"
<1>1. PathStatus = "same_location" =>
        /\ proof = "verified" /\ ClientStatus = "exact_unique" /\ req.files
        /\ bracket.after \notin {"checking", "elsewhere"}
        /\ bracket.filesAfter \in Layouts /\ bracket.filesBefore = bracket.filesAfter
        /\ bracket.filesAfter # "other" /\ bracket.filesAfter # "skipped"
  BY ClientShown DEF PathStatus
<1>2. PathStatus = "layout_conflict" =>
        bracket.filesBefore = bracket.filesAfter /\ bracket.filesAfter = "other"
  BY ClientShown DEF PathStatus
<1> QED BY <1>1, <1>2 DEF Layouts

LEMMA WitnessFollows == CInv => ConsistentIsWitnessed
<1> SUFFICES ASSUME CInv, Reported, Outcome = "consistent" PROVE
    /\ proof = "verified" /\ (req.binding => binding = "proven") /\ (req.detail => detail = "observed")
    /\ \A h \in req.axes : history[h] = [completion |-> TRUE, reason |-> "none"]
    /\ "retirement" \in req.axes =>
         \/ "retirement" \in removed.direct \cap names.together
         \/ "retirement" \in removed.derived /\ "cleanup" \in names.together /\ names.cleaned = Dirs
    /\ "cleanup" \in req.axes => "cleanup" \in removed.direct \cap names.together
    /\ job.turns <= 1 => /\ job.atProof[1] \in Claimed
                         /\ "removal" \notin req.axes => job.atProof[2] = "exact"
  BY DEF ConsistentIsWitnessed
<1>1. pc = "done" BY DEF Reported
<1>2. /\ req.binding => binding = "proven"
      /\ req.detail => detail = "observed"
      /\ {Status(h) : h \in req.axes} \subseteq {"bound", "bound_to_absence"}
      /\ proof = "verified"
      /\ PathStatus = "same_location" \/ ("removal" \in req.axes /\ ClientStatus = "absent")
  BY DEF Outcome
<1>3. \A h \in req.axes : Status(h) \in {"bound", "bound_to_absence"} BY <1>2
<1>4. \A h \in req.axes : history[h] = [completion |-> TRUE, reason |-> "none"]
  BY <1>1, <1>3, BoundIsProved
<1>5. Past("names") /\ Past("parents") BY <1>1, PastDone DEF Steps
<1>6. "retirement" \in req.axes =>
        \/ "retirement" \in removed.direct \cap names.together
        \/ "retirement" \in removed.derived /\ "cleanup" \in names.together /\ names.cleaned = Dirs
  BY <1>4, <1>5 DEF CInv, Absences
<1>7. "cleanup" \in req.axes => "cleanup" \in removed.direct \cap names.together
  BY <1>4, <1>5 DEF CInv, Absences
<1>8. ASSUME job.turns <= 1
      PROVE  job.atProof[1] \in Claimed /\ ("removal" \notin req.axes => job.atProof[2] = "exact")
  <2>1. CASE "removal" \in req.axes
    <3>1. ClientStatus = "absent" BY <1>1, <1>3, <2>1, BoundIsProved
    <3>2. bracket.before = "absent" /\ bracket.after = "absent" BY <3>1, ClientShown
    <3>3. job.atProof[1] = "absent" BY <1>8, <3>2, NotReadIsNoAnswer DEF CInv, Steady
    <3>4. "stop" \notin req.axes BY <2>1, RequestsAreLegal DEF CInv, Shapes, LegalRequest
    <3>5. Claimed = {"absent"} BY <2>1, <3>4 DEF Claimed
    <3> QED BY <2>1, <3>3, <3>5
  <2>2. CASE "removal" \notin req.axes
    <3>1. PathStatus = "same_location" BY <1>2, <2>2
    <3>2. /\ ClientStatus = "exact_unique" /\ bracket.after \notin {"checking", "elsewhere"}
          /\ bracket.filesBefore = "exact" /\ bracket.filesAfter = "exact"
      BY <3>1, PathShown
    <3>3. bracket.before = bracket.after /\ bracket.after \in ExactJobs BY <3>2, ClientShown
    <3>4. bracket.before \in Queues /\ "exact" \in Layouts BY <3>3, NotReadIsNoAnswer DEF Layouts
    <3>5. job.atProof[1] = bracket.after /\ job.atProof[2] = "exact"
      BY <1>8, <3>2, <3>3, <3>4 DEF CInv, Steady
    <3>6. bracket.after \in {"seeding", "stopped"} BY <3>2, <3>3 DEF ExactJobs
    <3>7. "stop" \in req.axes => bracket.after = "stopped" BY <1>1, <1>3, BoundIsProved
    <3>8. bracket.after \in Claimed
      <4>1. CASE "stop" \in req.axes BY <2>2, <3>7, <4>1 DEF Claimed
      <4>2. CASE "stop" \notin req.axes BY <2>2, <3>6, <4>2 DEF Claimed
      <4> QED BY <4>1, <4>2
    <3> QED BY <3>5, <3>8
  <2> QED BY <2>1, <2>2
<1> QED BY <1>2, <1>4, <1>6, <1>7, <1>8

\* What a selected history answers for, at the end of a report.
LEMMA AnsweredFor ==
  ASSUME CInv, pc = "done", NEW h \in Histories
  PROVE  /\ h \notin req.axes => history[h] = NoEvidence
         /\ history[h].completion => h \in req.axes /\ history[h].reason \in Keeps(h)
         /\ h \in req.axes /\ ~history[h].completion => history[h].reason \in Loses(h)
         /\ history[h] = [completion |-> history[h].completion, reason |-> history[h].reason]
         /\ history[h].completion \in BOOLEAN
<1>1. Past(h) BY PastDone DEF Histories, Steps
<1>2. Judged(h) BY DEF CInv
<1>3. history[h] \in [completion : BOOLEAN, reason : Reasons] BY DEF CInv, Shapes
<1> QED BY <1>1, <1>2, <1>3 DEF Judged, NoEvidence

\* A derived absence that was not attempted is that of a retained retirement.
LEMMA UnattemptedIsRetained ==
  ASSUME CInv, Unattempted
  PROVE  /\ RetainedRetirement /\ history["retirement"] = [completion |-> TRUE, reason |-> "none"]
  BY DEF CInv, Absences, Unattempted, RetainedRetirement

\* Every history that does not fit has one of the named causes.
LEMMA MismatchHasCause ==
  ASSUME CInv, pc = "done", NEW h \in req.axes, Status(h) \in {"mismatch", "reappeared"}
  PROVE  \/ history[h].reason \in {"mismatch", "reappeared"}
         \/ RetainedRetirement \/ PartialCleanup \/ NoFinal
<1>1. h \in Histories BY ReportedHistories
<1>2. /\ history[h].completion => history[h].reason \in Keeps(h)
      /\ ~history[h].completion => history[h].reason \in Loses(h)
      /\ history[h].completion \in BOOLEAN
  BY <1>1, AnsweredFor
<1>3. /\ history[h].completion /\ h \in {"stop", "removal", "retirement"} => history["activation"].completion
      /\ history[h].completion /\ h = "cleanup" => history["retirement"].completion
  BY <1>1 DEF CInv, Judged
<1>4. history[h].completion /\ ~FinalObserved => NoFinal BY DEF NoFinal
<1>5. CASE h = "adoption"
  <2>1. AdoptionStatus \in {"mismatch", "reappeared"} BY <1>5 DEF Status
  <2>2. CASE history["adoption"].reason # "none" BY <1>5, <2>1, <2>2 DEF AdoptionStatus, Unproved
  <2>3. CASE history["adoption"].reason = "none"
    <3>1. ~FinalObserved BY <2>1, <2>3 DEF AdoptionStatus
    <3>2. history[h].completion BY <1>2, <1>5, <2>3 DEF Loses
    <3> QED BY <1>4, <3>1, <3>2
  <2> QED BY <2>2, <2>3
<1>6. CASE h = "activation"
  <2>1. ActivationStatus \in {"mismatch", "reappeared"} BY <1>6 DEF Status
  <2>2. CASE ~history["activation"].completion BY <1>6, <2>1, <2>2 DEF ActivationStatus, Unproved
  <2>3. CASE history["activation"].completion
    <3>1. ~FinalObserved BY <2>1, <2>3 DEF ActivationStatus
    <3> QED BY <1>4, <1>6, <2>3, <3>1
  <2> QED BY <2>2, <2>3
<1>7. CASE h = "stop"
  <2>1. StopStatus \in {"mismatch", "reappeared"} BY <1>7 DEF Status
  <2>2. CASE ~history["stop"].completion BY <1>7, <2>1, <2>2 DEF StopStatus, Unproved
  <2>3. CASE history["stop"].completion
    <3>1. OfAnotherLineage \/ history["stop"].reason = "mismatch" BY <2>1, <2>3 DEF StopStatus
    <3> QED BY <1>3, <1>4, <1>7, <2>3, <3>1 DEF OfAnotherLineage
  <2> QED BY <2>2, <2>3
<1>8. CASE h = "removal"
  <2>1. RemovalStatus \in {"mismatch", "reappeared"} BY <1>8 DEF Status
  <2>2. CASE ~history["removal"].completion BY <1>8, <2>1, <2>2 DEF RemovalStatus, Unproved
  <2>3. CASE history["removal"].completion
    <3>1. OfAnotherLineage \/ history["removal"].reason = "mismatch" BY <2>1, <2>3 DEF RemovalStatus
    <3> QED BY <1>3, <1>4, <1>8, <2>3, <3>1 DEF OfAnotherLineage
  <2> QED BY <2>2, <2>3
<1>9. CASE h = "retirement"
  <2>1. RetirementStatus \in {"mismatch", "reappeared"} BY <1>9 DEF Status
  <2>2. CASE ~history["retirement"].completion BY <1>9, <2>1, <2>2 DEF RetirementStatus, Unproved
  <2>3. CASE history["retirement"].completion
    <3>1. OfAnotherLineage \/ history["retirement"].reason \in {"mismatch", "reappeared"}
      BY <2>1, <2>3 DEF RetirementStatus
    <3> QED BY <1>3, <1>4, <1>9, <2>3, <3>1 DEF OfAnotherLineage
  <2> QED BY <2>2, <2>3
<1>10. CASE h = "cleanup"
  <2>1. CleanupStatus \in {"mismatch", "reappeared"} BY <1>10 DEF Status
  <2>2. CASE ~history["cleanup"].completion BY <1>10, <2>1, <2>2 DEF CleanupStatus, Unproved
  <2>3. CASE history["cleanup"].completion
    <3>1. \/ history["cleanup"].reason \in {"mismatch", "reappeared"} \/ ~Implied \/ Unattempted
          \/ ~history["retirement"].completion
      BY <2>1, <2>3 DEF CleanupStatus
    <3>2. ~Implied => PartialCleanup BY <2>3 DEF Implied, PartialCleanup
    <3> QED BY <1>3, <1>10, <2>3, <3>1, <3>2, UnattemptedIsRetained
  <2> QED BY <2>2, <2>3
<1> QED BY <1>1, <1>5, <1>6, <1>7, <1>8, <1>9, <1>10 DEF Histories

\* And what does not fit is always reported so.
LEMMA MisfitIsReported ==
  ASSUME CInv, pc = "done", NEW h \in req.axes, history[h].reason \in {"mismatch", "reappeared"}
  PROVE  Status(h) \in {"mismatch", "reappeared"}
<1>1. h \in Histories BY ReportedHistories
<1>2. /\ history[h].completion => history[h].reason \in Keeps(h)
      /\ ~history[h].completion => history[h].reason \in Loses(h)
      /\ history[h].completion \in BOOLEAN
  BY <1>1, AnsweredFor
<1>3. h \in {"retirement", "cleanup"} \/ history[h].reason = "mismatch"
  BY <1>1, <1>2 DEF Keeps, Loses, Histories
<1>4. h \notin {"adoption", "activation"} => history[h].completion BY <1>2 DEF Loses
<1>5. h = "activation" => ~history[h].completion BY <1>2 DEF Keeps
<1>6. CASE h = "adoption" BY <1>3, <1>6 DEF Status, AdoptionStatus, Unproved
<1>7. CASE h = "activation" BY <1>3, <1>5, <1>7 DEF Status, ActivationStatus, Unproved
<1>8. CASE h = "stop"
  <2>1. StopStatus = "mismatch" BY <1>3, <1>4, <1>8 DEF StopStatus
  <2> QED BY <1>8, <2>1 DEF Status
<1>9. CASE h = "removal"
  <2>1. RemovalStatus = "mismatch" BY <1>3, <1>4, <1>9 DEF RemovalStatus
  <2> QED BY <1>9, <2>1 DEF Status
<1>10. CASE h = "retirement"
  <2>1. ~Unattempted BY <1>10, UnattemptedIsRetained
  <2>2. RetirementStatus \in {"mismatch", "reappeared"} BY <1>4, <1>10, <2>1 DEF RetirementStatus
  <2> QED BY <1>10, <2>2 DEF Status
<1>11. CASE h = "cleanup"
  <2>1. CleanupStatus \in {"mismatch", "reappeared"} BY <1>4, <1>11 DEF CleanupStatus
  <2> QED BY <1>11, <2>1 DEF Status
<1> QED BY <1>1, <1>6, <1>7, <1>8, <1>9, <1>10, <1>11 DEF Histories

\* A history is reported as a failed integrity exactly when it is one.
LEMMA IntegrityIsReported ==
  ASSUME CInv, pc = "done", NEW h \in req.axes
  PROVE  Status(h) = "integrity_failed" <=> history[h].reason = "integrity"
<1>1. h \in Histories BY ReportedHistories
<1>2. /\ history[h].completion => history[h].reason \in Keeps(h)
      /\ history[h].completion \in BOOLEAN
  BY <1>1, AnsweredFor
<1>3. history[h].reason = "integrity" => ~history[h].completion BY <1>2 DEF Keeps
<1>4. h = "retirement" /\ history[h].reason = "integrity" => ~Unattempted BY UnattemptedIsRetained
<1>5. CASE h = "adoption" BY <1>5 DEF Status, AdoptionStatus, Unproved
<1>6. CASE h = "activation" BY <1>3, <1>6 DEF Status, ActivationStatus, Unproved
<1>7. CASE h = "stop" BY <1>3, <1>7 DEF Status, StopStatus, Unproved
<1>8. CASE h = "removal" BY <1>3, <1>8 DEF Status, RemovalStatus, Unproved
<1>9. CASE h = "retirement" BY <1>3, <1>4, <1>9 DEF Status, RetirementStatus, Unproved
<1>10. CASE h = "cleanup" BY <1>3, <1>10 DEF Status, CleanupStatus, Unproved
<1> QED BY <1>1, <1>5, <1>6, <1>7, <1>8, <1>9, <1>10 DEF Histories

\* With every proof had, every selected history is bound.
LEMMA ProvedIsBound ==
  ASSUME CInv, pc = "done", Proved, ~RetainedRetirement, ~PartialCleanup
  PROVE  /\ \A h \in req.axes : Status(h) \in {"bound", "bound_to_absence"}
         /\ "removal" \in req.axes => ClientStatus = "absent" /\ PathStatus = "not_comparable"
         /\ "removal" \notin req.axes => ClientStatus = "exact_unique" /\ PathStatus = "same_location"
         /\ bracket.before \in Queues /\ bracket.after \in Queues
<1>1. /\ GatesPassed /\ proof = "verified" /\ req.mapping /\ req.files /\ FinalObserved
      /\ bracket.before = bracket.after /\ bracket.after \in Claimed
      /\ "removal" \notin req.axes => bracket.filesBefore = "exact" /\ bracket.filesAfter = "exact"
  BY DEF Proved, FinalObserved
<1>2. /\ req.client /\ req.axes \subseteq Histories
      /\ "removal" \in req.axes => req.axes \cap {"adoption", "stop", "retirement"} = {}
      /\ req.axes \cap {"stop", "removal", "retirement"} # {} => "activation" \in req.axes
      /\ "cleanup" \in req.axes => "retirement" \in req.axes
  BY <1>1, RequestsAreLegal DEF CInv, Shapes, LegalRequest
<1>3. Past("names") /\ Past("parents") BY PastDone DEF Steps
<1>4. \A h \in req.axes : history[h].reason = "none" BY <1>1 DEF GatesPassed
<1>5. \A h \in req.axes : history[h].completion
  <2> SUFFICES ASSUME NEW h \in req.axes, ~history[h].completion PROVE FALSE OBVIOUS
  <2>1. history[h].reason \in Loses(h) BY <1>2, AnsweredFor
  <2> QED BY <1>4, <2>1 DEF Loses
<1>6. Claimed \subseteq {"absent", "stopped", "seeding"} BY DEF Claimed
<1>7. bracket.after \in Queues /\ bracket.before \in Queues BY <1>1, <1>6 DEF Queues, ExactJobs
<1>8. Stable BY <1>1, <1>7 DEF Stable, Signature
<1>9. CASE "removal" \in req.axes
  <2>1. "stop" \notin req.axes /\ "activation" \in req.axes /\ req.axes \subseteq {"activation", "removal"}
    BY <1>2, <1>9 DEF Histories
  <2>2. bracket.after = "absent" BY <1>1, <1>9, <2>1 DEF Claimed
  <2>3. ClientStatus = "absent" BY <1>2, <1>8, <2>2 DEF ClientStatus
  <2>4. PathStatus = "not_comparable" BY <1>1, <1>2, <2>3 DEF PathStatus
  <2>5. bracket.filesBefore = NotRead BY <1>1, <1>7, <2>2 DEF CInv, Bracketed, ExactJobs
  <2>6. history["activation"].completion /\ history["removal"].completion BY <1>5, <1>9, <2>1
  <2>7. ActivationStatus = "bound_to_absence" BY <1>1, <2>3, <2>4, <2>5, <2>6 DEF ActivationStatus
  <2>8. RemovalStatus = "bound" BY <1>1, <1>4, <1>9, <2>6, <2>7 DEF RemovalStatus, OfAnotherLineage
  <2>9. Status("activation") = "bound_to_absence" /\ Status("removal") = "bound"
    BY <2>7, <2>8 DEF Status
  <2> QED BY <1>7, <1>9, <2>1, <2>3, <2>4, <2>9
<1>10. CASE "removal" \notin req.axes
  <2>1. bracket.after \in {"seeding", "stopped"} /\ ("stop" \in req.axes => bracket.after = "stopped")
    <3>1. CASE "stop" \in req.axes BY <1>1, <1>10, <3>1 DEF Claimed
    <3>2. CASE "stop" \notin req.axes BY <1>1, <1>10, <3>2 DEF Claimed
    <3> QED BY <3>1, <3>2
  <2>2. ClientStatus = "exact_unique" BY <1>2, <1>8, <2>1 DEF ClientStatus
  <2>3. PathStatus = "same_location" BY <1>1, <1>2, <1>10, <2>1, <2>2 DEF PathStatus, Layouts
  <2>4. ~history["removal"].completion
    <3>1. history["removal"] = NoEvidence BY <1>10, AnsweredFor DEF Histories
    <3> QED BY <3>1 DEF NoEvidence
  <2>5. "activation" \in req.axes => ActivationStatus = "bound"
    BY <1>1, <1>5, <2>3, <2>4 DEF ActivationStatus
  <2>6. "adoption" \in req.axes => AdoptionStatus = "bound"
    BY <1>1, <1>4, <1>10, <2>1, <2>2 DEF AdoptionStatus, FileStop
  <2>7. "activation" \in req.axes => ~OfAnotherLineage BY <1>1, <1>5 DEF OfAnotherLineage
  <2>8. "stop" \in req.axes => StopStatus = "bound"
    BY <1>2, <1>4, <1>5, <2>1, <2>5, <2>7 DEF StopStatus
  <2>9. ~Unattempted BY UnattemptedIsRetained
  <2>10. "retirement" \in req.axes => RetirementStatus = "bound"
    <3> SUFFICES ASSUME "retirement" \in req.axes PROVE RetirementStatus = "bound" OBVIOUS
    <3>1. history["retirement"].reason = "none" /\ history["retirement"].completion BY <1>4, <1>5
    <3>2. "retirement" \in removed.direct \cup removed.derived BY <1>3, <3>1 DEF CInv, Absences
    <3>3. ActivationStatus = "bound" /\ ~OfAnotherLineage BY <1>2, <2>5, <2>7
    <3> QED BY <2>9, <3>1, <3>2, <3>3 DEF RetirementStatus
  <2>11. "cleanup" \in req.axes => CleanupStatus = "bound"
    <3> SUFFICES ASSUME "cleanup" \in req.axes PROVE CleanupStatus = "bound" OBVIOUS
    <3>1. /\ history["cleanup"].reason = "none" /\ history["cleanup"].completion
          /\ history["retirement"].completion /\ RetirementStatus = "bound"
      BY <1>2, <1>4, <1>5, <2>10
    <3>2. Implied BY <3>1 DEF PartialCleanup, Implied
    <3> QED BY <2>9, <3>1, <3>2 DEF CleanupStatus
  <2>12. ASSUME NEW h \in req.axes PROVE Status(h) = "bound"
    <3>1. h \in Histories \ {"removal"} BY <1>2, <1>10
    <3>2. CASE h = "adoption" BY <2>6, <3>2 DEF Status
    <3>3. CASE h = "activation" BY <2>5, <3>3 DEF Status
    <3>4. CASE h = "stop" BY <2>8, <3>4 DEF Status
    <3>5. CASE h = "retirement" BY <2>10, <3>5 DEF Status
    <3>6. CASE h = "cleanup" BY <2>11, <3>6 DEF Status
    <3> QED BY <3>1, <3>2, <3>3, <3>4, <3>5, <3>6 DEF Histories
  <2> QED BY <1>7, <1>10, <2>2, <2>3, <2>12
<1> QED BY <1>9, <1>10

LEMMA ProvedIsConsistent ==
  ASSUME CInv, Asked, pc = "done", Proved, ~RetainedRetirement, ~PartialCleanup
  PROVE  Outcome = "consistent"
<1>1. /\ \A h \in req.axes : Status(h) \in {"bound", "bound_to_absence"}
      /\ "removal" \in req.axes => ClientStatus = "absent" /\ PathStatus = "not_comparable"
      /\ "removal" \notin req.axes => ClientStatus = "exact_unique" /\ PathStatus = "same_location"
      /\ bracket.before \in Queues /\ bracket.after \in Queues
  BY ProvedIsBound
<1>2. /\ proof = "verified" /\ (req.binding => binding = "proven") /\ (req.detail => detail = "observed")
  BY DEF Proved, GatesPassed
<1>3. binding \notin {"integrity", "mismatch"} BY <1>2 DEF Asked
<1>4. StorageStatus = "verified" BY <1>2 DEF StorageStatus
<1>5. ~OutsideBracket BY <1>1 DEF OutsideBracket
<1> DEFINE says == {Status(h) : h \in req.axes}
<1>6. says \subseteq {"bound", "bound_to_absence"} BY <1>1
<1>7. "integrity_failed" \notin says /\ says \cap {"mismatch", "reappeared"} = {} BY <1>6
<1>8. /\ ClientStatus \notin {"conflict", "ambiguous", "incomplete"}
      /\ PathStatus \notin {"layout_conflict", "incomplete"}
      /\ PathStatus = "same_location" \/ ("removal" \in req.axes /\ ClientStatus = "absent")
  BY <1>1
<1> HIDE DEF says
<1>9. Outcome = (IF binding = "integrity" \/ StorageStatus = "integrity_failed" \/ "integrity_failed" \in says
  THEN "integrity_failed"
  ELSE IF binding = "mismatch" \/ says \cap {"mismatch", "reappeared"} # {}
            \/ ClientStatus = "conflict" \/ PathStatus = "layout_conflict"
  THEN "conflict"
  ELSE IF StorageStatus = "ambiguous" \/ ClientStatus = "ambiguous" THEN "ambiguous"
  ELSE IF \/ req.binding /\ binding # "proven"
          \/ req.detail /\ detail # "observed"
          \/ ~ says \subseteq {"bound", "bound_to_absence"}
          \/ "incomplete" \in {StorageStatus, ClientStatus, PathStatus}
          \/ OutsideBracket
  THEN "incomplete"
  ELSE IF /\ proof = "verified"
          /\ \/ PathStatus = "same_location"
             \/ "removal" \in req.axes /\ ClientStatus = "absent"
  THEN "consistent" ELSE "partial")
  BY DEF Outcome, says
<1> QED BY <1>2, <1>3, <1>4, <1>5, <1>6, <1>7, <1>8, <1>9

LEMMA CausesFollow == CInv /\ Asked => VerdictsHaveCauses
<1> DEFINE misfit == binding = "mismatch" \/ \E h \in req.axes : history[h].reason \in {"mismatch", "reappeared"}
           disagrees == \/ bracket.before = "foreign" /\ bracket.after = "foreign"
                        \/ bracket.filesBefore = "other" /\ bracket.filesAfter = "other"
           named == RetainedRetirement \/ PartialCleanup \/ NoFinal
           says == {Status(h) : h \in req.axes}
<1> SUFFICES ASSUME CInv, Asked, Reported
             PROVE  /\ Outcome = "conflict" => misfit \/ disagrees \/ named
                    /\ misfit => Outcome \in {"conflict", "integrity_failed"}
                    /\ Proved => Outcome = "consistent" \/ RetainedRetirement \/ PartialCleanup
                    /\ exit = "integrity" <=> Outcome = "integrity_failed"
                    /\ exit = "reconciled" => Outcome = "consistent"
  BY DEF VerdictsHaveCauses
<1>1. pc = "done" /\ exit # "unreported" BY DEF Reported
<1>2. ASSUME Outcome = "conflict" PROVE misfit \/ disagrees \/ named
  <2>1. \/ binding = "mismatch" \/ (\E h \in req.axes : Status(h) \in {"mismatch", "reappeared"})
        \/ ClientStatus = "conflict" \/ PathStatus = "layout_conflict"
    BY <1>2 DEF Outcome
  <2>2. ClientStatus = "conflict" \/ PathStatus = "layout_conflict" => disagrees
    BY ClientShown, PathShown
  <2>3. ASSUME NEW h \in req.axes, Status(h) \in {"mismatch", "reappeared"} PROVE misfit \/ named
    BY <1>1, <2>3, MismatchHasCause
  <2> QED BY <2>1, <2>2, <2>3
<1>3. ASSUME misfit PROVE Outcome \in {"conflict", "integrity_failed"}
  <2>1. binding = "mismatch" \/ (\E h \in req.axes : Status(h) \in {"mismatch", "reappeared"})
    BY <1>1, <1>3, MisfitIsReported
  <2>2. binding = "mismatch" \/ says \cap {"mismatch", "reappeared"} # {} BY <2>1
  <2> QED BY <2>2 DEF Outcome
<1>4. Proved => Outcome = "consistent" \/ RetainedRetirement \/ PartialCleanup
  BY <1>1, ProvedIsConsistent
<1>5. exit = "integrity" <=> Outcome = "integrity_failed"
  <2>1. exit = "integrity" <=> IntegrityFailed BY <1>1 DEF CInv, Exited
  <2>2. Outcome = "integrity_failed" <=>
          binding = "integrity" \/ StorageStatus = "integrity_failed"
            \/ \E h \in req.axes : Status(h) = "integrity_failed"
    BY DEF Outcome
  <2>3. StorageStatus = "integrity_failed" <=> proof = "integrity" BY DEF StorageStatus
  <2>4. (\E h \in req.axes : Status(h) = "integrity_failed") <=>
          \E h \in req.axes : history[h].reason = "integrity"
    BY <1>1, IntegrityIsReported
  <2>5. (\E h \in req.axes : history[h].reason = "integrity") <=>
          \E h \in Histories : history[h].reason = "integrity"
    <3>1. req.axes \subseteq Histories BY DueSteps DEF CInv
    <3>2. ASSUME NEW h \in Histories, h \notin req.axes PROVE history[h].reason # "integrity"
      <4>1. history[h] = NoEvidence BY <1>1, <3>2, AnsweredFor
      <4> QED BY <4>1 DEF NoEvidence
    <3> QED BY <3>1, <3>2
  <2> QED BY <2>1, <2>2, <2>3, <2>4, <2>5 DEF IntegrityFailed
<1>6. exit = "reconciled" => Outcome = "consistent" BY <1>1 DEF CInv, Exited
<1> QED BY <1>2, <1>3, <1>4, <1>5, <1>6

-----------------------------------------------------------------------------
(* The properties of the runs.                                              *)

\* TypeOK: every variable of the command keeps its shape, only selected
\* histories carry evidence, and every step is one of Load's and Verify's.
THEOREM ReconcileTypeCorrect == Spec => []TypeOK
BY InvariantHolds, TypeFollows, PTL

\* ConsistentIsWitnessed: reconcile reports "consistent" only where every
\* selected journal was proved, the removed names were all absent at one
\* moment between the two passes of the check, and the job that Verify reads
\* before and after the storage proof was, if it changed at most once, what
\* the report says at the moment of that proof.
THEOREM ReportsAreWitnessed == Spec => []ConsistentIsWitnessed
BY InvariantHolds, WitnessFollows, PTL

\* VerdictsHaveCauses: overallOutcome says "conflict" only for a cause it can
\* name, says "consistent" whenever all was proved but for two named causes,
\* and the exit status of the command tells the same verdict.
THEOREM CausesAreNamed == Spec => []VerdictsHaveCauses
BY InvariantHolds, CausesFollow, PTL

\* CredentialsComeLast: the command reads credentials, and asks the downloader
\* or the site, only after every selected record and binding was proved and
\* every removed name was seen absent.
THEOREM CredentialsAreLast == Spec => []CredentialsComeLast
BY InvariantHolds, CredentialsFollow, PTL
===============================================================================
