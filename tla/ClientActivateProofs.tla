------------------------ MODULE ClientActivateProofs ------------------------
(***************************************************************************)
(* Proofs about ClientActivate, for every set of invocations, every        *)
(* attempt budget and every action: requests are recorded, reports and     *)
(* recovery survive every crash, and rechecks and starts keep the promises *)
(* of EffectLedger.                                                        *)
(*                                                                         *)
(* The inductive invariant says what every image that a power loss may     *)
(* leave looks like on its own (WellFormed), how the images relate to the  *)
(* visible journal (Linked), that the lock excludes (Exclusion), and what  *)
(* a lock holder knows at each point (Progress).  Of observations it says  *)
(* nothing: the last part adds what is true of those (FInv).               *)
(***************************************************************************)
EXTENDS ClientActivate, TLAPS

-----------------------------------------------------------------------------
(* One image.                                                              *)

\* The marker (d, n) is one that journal j lacks and is ready for.
Fits(j, d, n) ==
  /\ d = "intent" => ~HasMarkers(j) /\ n = 0
  /\ d # "intent" => ChainAgrees(j)
  /\ d = "recheck" =>
       n = j.recheck + 1 /\ j.checking = 0 /\ j.checked = 0 /\ j.action # "start_after_stop"
  /\ d = "start" => n = j.start + 1 /\ j.started = 0 /\ StartReviewed(j)
  /\ d = "checking" => n = j.recheck /\ n # 0 /\ j.checking = 0
  /\ d = "checked" => n = j.recheck /\ n # 0 /\ j.checked = 0
  /\ d = "started" => n = j.start /\ n # 0 /\ j.started = 0

\* A journal is written in order, and what is staged fits what is published.
WellFormed(j) ==
  /\ j.root # "locked" => ~j.scratch
  /\ ~j.scratch => j.pending = NoPending
  /\ HasMarkers(j) => ChainAgrees(j)
  /\ j.pending.dest = "none" => j.pending = NoPending
  /\ j.pending.dest # "none" => Fits(j, j.pending.dest, j.pending.seq)

\* An image is at most one published attempt behind the visible journal, and
\* then neither has evidence of a later stage.
Linked(j) ==
  /\ j.action = disk.action
  /\ \A d \in Evidence : Holds(j, d) => Holds(disk, d)
  /\ j.recheck = disk.recheck \/ j.recheck + 1 = disk.recheck
  /\ j.recheck # disk.recheck =>
       disk.pending = NoPending /\ disk.checking = 0 /\ disk.checked = 0
  /\ j.start = disk.start \/ j.start + 1 = disk.start
  /\ j.start # disk.start => disk.pending = NoPending /\ disk.started = 0

Image(j) == WellFormed(j) /\ Linked(j)

-----------------------------------------------------------------------------
(* The invocations.                                                        *)

\* The operation lock excludes: whoever is past it works in a directory whose
\* lock file exists, and an invocation that still has to create it is alone.
Exclusion ==
  \A p \in Proc :
    /\ pc[p] \in Holding => disk.root = "locked"
    /\ pc[p] = "newlock" =>
         disk.root = "bare" /\ \A q \in Proc \ {p} : pc[q] \notin Holding \cup {"newlock"}

\* What follows a marker is what it was written for.
Purpose(m) ==
  /\ m.dest = "intent" => m.then \in {"load", "decide"}
  /\ m.dest \in Requests => m.then = "request"
  /\ m.dest \in Evidence => m.then \in {"load", m.dest, "append"}
  /\ m.then = "append" => m.dest = "checked" /\ disk.action = "recheck_then_start" /\ disk.start = 0

\* The marker (d, n) was just published.
Landed(d, n) ==
  /\ disk.pending = NoPending /\ ChainAgrees(disk)
  /\ d = "recheck" => disk.recheck = n /\ n # 0 /\ disk.checking = 0 /\ disk.checked = 0
  /\ d = "start" => disk.start = n /\ n # 0 /\ disk.started = 0
  /\ d = "checking" => disk.checking # 0
  /\ d = "checked" => disk.checked # 0
  /\ d = "started" => disk.started # 0

\* A marker that is written: not yet staged, staged, published.
WritingProgress(p) ==
  /\ pc[p] = "stage" => disk.scratch
  /\ pc[p] \in {"scratch", "stage"} =>
       disk.pending = NoPending /\ Fits(disk, marker[p].dest, marker[p].seq)
  /\ pc[p] = "scratch" => marker[p].dest = "intent"
  /\ pc[p] = "commit" =>
       disk.pending = [dest |-> marker[p].dest, seq |-> marker[p].seq, whole |-> TRUE]
  /\ pc[p] \in {"scratch", "stage", "commit", "confirm"} => Purpose(marker[p])
  /\ pc[p] = "confirm" => Landed(marker[p].dest, marker[p].seq)

\* The attempt that p records is new, and a further one was asked for.
Attempting(p) ==
  pc[p] \in {"stage", "commit", "confirm", "request"} /\ marker[p].dest \in Requests =>
    /\ marker[p].seq \in Attempts
    /\ posts[<<marker[p].dest, marker[p].seq>>] = 0
    /\ marker[p].seq = 1 \/ opts[p][marker[p].dest] = "repeat"

\* Between markers: what is decided, what a request rests on.
DecidingProgress(p) ==
  /\ pc[p] \in {"decide", "request"} => surviving = {disk}
  /\ pc[p] = "decide" => disk.pending = NoPending /\ ChainAgrees(disk)
  /\ pc[p] = "append" =>
       /\ disk.pending = NoPending /\ ChainAgrees(disk) /\ disk.checked # 0
       /\ disk.action = "recheck_then_start" /\ disk.start = 0
  /\ pc[p] \in {"request", "probe"} =>
       marker[p].dest \in Requests /\ Landed(marker[p].dest, marker[p].seq)

Progress(p) == WritingProgress(p) /\ Attempting(p) /\ DecidingProgress(p)

DiskType == disk \in Journals /\ disk \in surviving /\ surviving \subseteq Journals

CallType ==
  /\ lock \in Proc \cup {Nobody}
  /\ pc \in [Proc -> Unlocked \cup Holding]
  /\ \A p \in Proc : pc[p] \in Holding <=> lock = p
  /\ opts \in [Proc -> Options]
  /\ marker \in [Proc -> Markers]

ViewType ==
  /\ job \in JobStates
  /\ seen \in [Proc -> JobStates \cup {"none"}]
  /\ later \in [Proc -> SUBSET Proc]
  /\ outdated \subseteq Proc /\ overtaken \subseteq Proc
  /\ witness \subseteq Proc /\ attested \in BOOLEAN

PostType == posts \in [Requests \X Attempts -> Nat]

Reported == report \in Reports /\ ReportsAreDurable

IInv ==
  /\ DiskType /\ CallType /\ ViewType /\ PostType
  /\ RequestsAreRecorded /\ Reported
  /\ \A j \in surviving : Image(j)
  /\ Exclusion
  /\ \A p \in Proc : Progress(p)

LEMMA TypeParts == IInv => TypeOK
BY DEF IInv, TypeOK, DiskType, CallType, ViewType, PostType, Reported
-----------------------------------------------------------------------------
(* The journal's operators, field by field.                                *)

LEMMA Counts ==
  /\ 0 \in AttemptCounts /\ 0 \notin Attempts /\ NoPending \in Pendings
  /\ Attempts \subseteq AttemptCounts /\ AttemptCounts \subseteq Nat
  /\ \A n \in AttemptCounts : n # 0 => n \in Attempts
  /\ \A n \in AttemptCounts : n < MaxAttempts => n + 1 \in Attempts
<1>1. 0 \in AttemptCounts BY MaxAttemptsAssumption DEF AttemptCounts
<1>2. NoPending \in Pendings BY <1>1 DEF NoPending, Pendings
<1> QED BY <1>1, <1>2, MaxAttemptsAssumption DEF Attempts, AttemptCounts

LEMMA Fields ==
  ASSUME NEW j \in Journals
  PROVE  /\ j.action \in Actions /\ j.root \in {"none", "bare", "locked"} /\ j.scratch \in BOOLEAN
         /\ j.intent \in BOOLEAN /\ j.recheck \in AttemptCounts /\ j.checking \in AttemptCounts
         /\ j.checked \in AttemptCounts /\ j.start \in AttemptCounts /\ j.started \in AttemptCounts
         /\ j.pending \in Pendings /\ j.pending.dest \in Destinations \cup {"none"}
         /\ j.pending.seq \in AttemptCounts /\ j.pending.whole \in BOOLEAN
BY DEF Journals, Pendings

\* What the readers compare.
LEMMA Reading ==
  ASSUME NEW j
  PROVE  /\ HasMarkers(j) <=> \/ j.intent
                              \/ j.recheck # 0 \/ j.start # 0
                              \/ j.checking # 0 \/ j.checked # 0 \/ j.started # 0
         /\ ChainAgrees(j) <=>
              /\ j.scratch /\ j.intent
              /\ j.checking \in {0, j.recheck} /\ j.checked \in {0, j.recheck}
              /\ j.started \in {0, j.start}
              /\ j.action = "start_after_stop" => j.recheck = 0
              /\ j.start > 0 => StartReviewed(j)
BY DEF HasMarkers, ChainAgrees, Requests, Evidence, Named

\* The published markers of j are those of k.
SamePublished(j, k) ==
  /\ j.action = k.action /\ j.scratch = k.scratch /\ j.intent = k.intent
  /\ j.recheck = k.recheck /\ j.checking = k.checking /\ j.checked = k.checked
  /\ j.start = k.start /\ j.started = k.started

LEMMA SameReading ==
  ASSUME NEW j, NEW k, SamePublished(j, k)
  PROVE  /\ HasMarkers(j) <=> HasMarkers(k)
         /\ ChainAgrees(j) <=> ChainAgrees(k)
         /\ StartReviewed(j) <=> StartReviewed(k)
         /\ \A d, n : Fits(j, d, n) <=> Fits(k, d, n)
<1>1. StartReviewed(j) <=> StartReviewed(k) BY DEF SamePublished, StartReviewed
<1>2. (HasMarkers(j) <=> HasMarkers(k)) /\ (ChainAgrees(j) <=> ChainAgrees(k))
  BY <1>1, Reading DEF SamePublished
<1> QED BY <1>1, <1>2 DEF Fits, SamePublished

\* What each helper of writeMarker changes.
LEMMA StageType ==
  ASSUME NEW j \in Journals, NEW d \in Destinations, NEW n \in AttemptCounts, NEW w \in BOOLEAN
  PROVE  /\ Stage(j, d, n, w) \in Journals
         /\ Stage(j, d, n, w).pending = [dest |-> d, seq |-> n, whole |-> w]
         /\ Stage(j, d, n, w).root = j.root /\ SamePublished(Stage(j, d, n, w), j)
BY DEF Stage, Journals, Pendings, SamePublished

LEMMA DiscardType ==
  ASSUME NEW j \in Journals
  PROVE  /\ Discard(j) \in Journals /\ Discard(j).pending = NoPending
         /\ Discard(j).root = j.root /\ SamePublished(Discard(j), j)
BY Counts DEF Discard, Journals, SamePublished

LEMMA CommitType ==
  ASSUME NEW j \in Journals, j.pending.dest # "none"
  PROVE  /\ Commit(j) \in Journals /\ Commit(j).pending = NoPending
         /\ Commit(j).action = j.action /\ Commit(j).root = j.root /\ Commit(j).scratch = j.scratch
         /\ Commit(j).intent = (j.intent \/ j.pending.dest = "intent")
         /\ Commit(j).recheck = IF j.pending.dest = "recheck" THEN j.pending.seq ELSE j.recheck
         /\ Commit(j).checking = IF j.pending.dest = "checking" THEN j.pending.seq ELSE j.checking
         /\ Commit(j).checked = IF j.pending.dest = "checked" THEN j.pending.seq ELSE j.checked
         /\ Commit(j).start = IF j.pending.dest = "start" THEN j.pending.seq ELSE j.start
         /\ Commit(j).started = IF j.pending.dest = "started" THEN j.pending.seq ELSE j.started
<1>1. j.pending.dest \in {"intent", "recheck", "start", "checking", "checked", "started"}
  BY Fields DEF Destinations, Requests, Evidence
<1>2. j.pending.seq \in AttemptCounts /\ NoPending \in Pendings BY Fields, Counts
<1>3. CASE j.pending.dest = "intent" BY <1>2, <1>3, Fields DEF Commit, Journals
<1>4. CASE j.pending.dest = "recheck" BY <1>2, <1>4, Fields DEF Commit, Journals
<1>5. CASE j.pending.dest = "start" BY <1>2, <1>5, Fields DEF Commit, Journals
<1>6. CASE j.pending.dest = "checking" BY <1>2, <1>6, Fields DEF Commit, Journals
<1>7. CASE j.pending.dest = "checked" BY <1>2, <1>7, Fields DEF Commit, Journals
<1>8. CASE j.pending.dest = "started" BY <1>2, <1>8, Fields DEF Commit, Journals
<1> QED BY <1>1, <1>3, <1>4, <1>5, <1>6, <1>7, <1>8

LEMMA DefaultTypes ==
  /\ NoOptions \in Options /\ NoMarker \in Markers
  /\ "idle" \in Unlocked /\ Unlocked \cap Holding = {}
BY Counts DEF NoOptions, Options, Levels, NoMarker, Markers, Destinations, Continuations, Unlocked, Holding

-----------------------------------------------------------------------------
(* Kinds of steps that keep the invariant.                                 *)

LEMMA ObserveType ==
  ASSUME ViewType, NEW p \in Proc, Observe(p), UNCHANGED <<job, attested>>
  PROVE  ViewType' /\ seen'[p] = job
BY DEF ViewType, Observe

LEMMA ForgetType ==
  ASSUME ViewType, NEW p \in Proc, Forget(p), UNCHANGED <<job, attested>>
  PROVE  ViewType'
BY DEF ViewType, Forget

LEMMA QuietViewType ==
  ASSUME ViewType, UNCHANGED <<obsVars, witness, attested, job>> PROVE ViewType'
BY DEF ViewType, obsVars

\* The visible journal stays, and a sync may take images away.
Narrow == disk' = disk /\ disk \in surviving' /\ surviving' \subseteq surviving

LEMMA QuietIsNarrow == ASSUME IInv, UNCHANGED <<disk, surviving>> PROVE Narrow
BY DEF IInv, DiskType, Narrow

LEMMA SyncIsNarrow == ASSUME IInv, Sync PROVE Narrow
BY DEF IInv, DiskType, Narrow, Sync

LEMMA NarrowKeeps ==
  ASSUME IInv, Narrow, UNCHANGED posts
  PROVE  DiskType' /\ PostType' /\ RequestsAreRecorded' /\ \A j \in surviving' : Image(j)'
<1>1. DiskType' /\ PostType' BY DEF IInv, DiskType, PostType, Narrow
<1>2. RequestsAreRecorded' BY DEF IInv, RequestsAreRecorded, Narrow
<1>3. ASSUME NEW j \in surviving' PROVE Image(j)'
  BY DEF IInv, Image, Linked, Narrow
<1> QED BY <1>1, <1>2, <1>3

LEMMA SameReportKeeps ==
  ASSUME IInv, Narrow, UNCHANGED report PROVE Reported'
BY DEF IInv, Reported, ReportsAreDurable, Narrow

\* What a step of p has to keep when it leaves the others alone: either it
\* changes nothing they know, or none of them is past the lock.
LEMMA StepKeeps ==
  ASSUME IInv, NEW p \in Proc, DiskType', CallType', ViewType', PostType', RequestsAreRecorded',
         Reported', \A j \in surviving' : Image(j)', Exclusion', Progress(p)',
         \A q \in Proc \ {p} : pc'[q] = pc[q] /\ opts'[q] = opts[q] /\ marker'[q] = marker[q],
         \/ Narrow /\ UNCHANGED posts
         \/ \A q \in Proc \ {p} : pc[q] \notin Holding
  PROVE  IInv'
<1>1. ASSUME NEW q \in Proc \ {p} PROVE Progress(q)'
  <2>1. Progress(q) BY DEF IInv
  <2>2. CASE Narrow /\ UNCHANGED posts
    <3>1. surviving = {disk} => surviving' = {disk} BY <2>2 DEF Narrow
    <3>2. WritingProgress(q)' BY <2>1, <2>2 DEF Narrow, Progress, WritingProgress, Purpose, Landed
    <3>3. Attempting(q)' BY <2>1, <2>2 DEF Progress, Attempting
    <3>4. DecidingProgress(q)'
      BY <2>1, <2>2, <3>1 DEF Narrow, Progress, DecidingProgress, Landed
    <3> QED BY <3>2, <3>3, <3>4 DEF Progress
  <2>3. CASE \A r \in Proc \ {p} : pc[r] \notin Holding
    <3>1. pc'[q] \notin Holding BY <2>3
    <3> QED BY <3>1 DEF Progress, WritingProgress, Attempting, DecidingProgress, Holding
  <2> QED BY <2>2, <2>3
<1>2. \A q \in Proc : Progress(q)' BY <1>1
<1> QED BY <1>2 DEF IInv

LEMMA Alone ==
  ASSUME IInv, NEW p \in Proc, pc[p] \in Holding
  PROVE  /\ disk.root = "locked" /\ lock = p
         /\ \A q \in Proc \ {p} : pc[q] \notin Holding /\ pc[q] # "newlock"
BY DefaultTypes DEF IInv, CallType, Exclusion, Holding

\* The end of an invocation.
LEMMA ReturnKeeps ==
  ASSUME IInv, NEW p \in Proc, NEW o \in Reports, Return(p, o), Narrow,
         UNCHANGED <<posts, attested, job>>,
         o \in Evidence => \A j \in surviving' : j[o] # 0
  PROVE  IInv'
<1>1. DiskType' /\ PostType' /\ RequestsAreRecorded' /\ \A j \in surviving' : Image(j)'
  BY NarrowKeeps
<1>2. ViewType' BY ForgetType DEF IInv, Return
<1>3. CallType'
  BY DefaultTypes, NobodyAssumption DEF IInv, CallType, Return
<1>4. pc'[p] = "idle" BY DEF Return, IInv, CallType
<1>5. Exclusion'
  BY <1>4, DefaultTypes DEF IInv, CallType, Return, Exclusion, Narrow
<1>6. Progress(p)'
  BY <1>4 DEF Progress, WritingProgress, Attempting, DecidingProgress
<1>7. Reported'
  BY DEF Return, Reported, ReportsAreDurable
<1>8. \A q \in Proc \ {p} : pc'[q] = pc[q] /\ opts'[q] = opts[q] /\ marker'[q] = marker[q]
  BY DEF Return, IInv, CallType
<1> QED BY <1>1, <1>2, <1>3, <1>5, <1>6, <1>7, <1>8, StepKeeps

LEMMA FinishKeeps ==
  ASSUME IInv, NEW p \in Proc, NEW o \in Reports, Return(p, o),
         UNCHANGED <<disk, surviving, posts, attested, job>>,
         o \in Evidence => \A j \in surviving : j[o] # 0
  PROVE  IInv'
BY QuietIsNarrow, ReturnKeeps

LEMMA StopKeeps ==
  ASSUME IInv, NEW p \in Proc, NEW o \in {"stopped", "unknown"}, Return(p, o),
         UNCHANGED <<disk, surviving, posts, attested, job>>
  PROVE  IInv'
BY FinishKeeps DEF Reports, Evidence

\* A lock holder goes on as a lock holder.
LEMMA HolderKeeps ==
  ASSUME IInv, NEW p \in Proc, pc[p] \in Holding, NEW step \in Holding,
         pc' = [pc EXCEPT ![p] = step], Narrow, UNCHANGED <<lock, report, posts>>, ViewType',
         NEW m \in Markers, marker' = [marker EXCEPT ![p] = m],
         NEW o \in Options, opts' = [opts EXCEPT ![p] = o],
         Progress(p)'
  PROVE  IInv'
<1>1. DiskType' /\ PostType' /\ RequestsAreRecorded' /\ \A j \in surviving' : Image(j)'
  BY NarrowKeeps
<1>2. CallType' BY DEF IInv, CallType
<1>3. Exclusion'
  <2>1. pc'[p] = step /\ step # "newlock" BY DEF IInv, CallType, Holding
  <2>2. \A q \in Proc \ {p} : pc'[q] = pc[q] BY DEF IInv, CallType
  <2> QED BY <2>1, <2>2, Alone DEF IInv, Exclusion, Narrow
<1>4. \A q \in Proc \ {p} : pc'[q] = pc[q] /\ opts'[q] = opts[q] /\ marker'[q] = marker[q]
  BY DEF IInv, CallType
<1> QED BY <1>1, <1>2, <1>3, <1>4, SameReportKeeps, StepKeeps

\* Outside the lock an invocation knows nothing.
LEMMA ApartKeeps ==
  ASSUME IInv, NEW p \in Proc, NEW step \in Unlocked, step # "newlock",
         pc' = [pc EXCEPT ![p] = step],
         UNCHANGED <<disk, surviving, marker, report, posts>>, ViewType',
         NEW o \in Options, opts' = [opts EXCEPT ![p] = o],
         lock' = IF lock = p THEN Nobody ELSE lock
  PROVE  IInv'
<1>1. Narrow BY QuietIsNarrow
<1>2. DiskType' /\ PostType' /\ RequestsAreRecorded' /\ \A j \in surviving' : Image(j)'
  BY <1>1, NarrowKeeps
<1>3. pc'[p] = step /\ step \notin Holding /\ \A q \in Proc \ {p} : pc'[q] = pc[q]
  BY DefaultTypes DEF IInv, CallType
<1>4. CallType' BY <1>3, DefaultTypes, NobodyAssumption DEF IInv, CallType
<1>5. Exclusion' BY <1>3 DEF IInv, Exclusion
<1>6. Progress(p)'
  BY <1>3 DEF Progress, WritingProgress, Attempting, DecidingProgress, Holding
<1>7. \A q \in Proc \ {p} : pc'[q] = pc[q] /\ opts'[q] = opts[q] /\ marker'[q] = marker[q]
  BY DEF IInv, CallType
<1> QED BY <1>1, <1>2, <1>4, <1>5, <1>6, <1>7, SameReportKeeps, StepKeeps

-----------------------------------------------------------------------------
(* Run, and the ways into and out of the lock.                             *)

LEMMA BeginKeeps ==
  ASSUME IInv, NEW p \in Proc, NEW o \in Options, NEW step \in {"survey", "open"}, Begin(p, o, step)
  PROVE  IInv'
<1>1. pc[p] \notin Holding BY DefaultTypes DEF Begin
<1>2. lock # p BY <1>1 DEF IInv, CallType
<1>3. ViewType' BY QuietViewType DEF Begin, IInv, historyVars
<1> QED BY <1>2, <1>3, ApartKeeps DEF Begin, diskVars, historyVars, Unlocked

LEMMA StartKeeps ==
  ASSUME IInv, NEW p \in Proc, StartRun(p) \/ StartResume(p) \/ StartStatus(p) PROVE IInv'
<1>1. [mode |-> "run", recheck |-> IF IsStart THEN "none" ELSE "ack",
       start |-> IF IsStart THEN "ack" ELSE "none"] \in Options
  BY DEF Options, Levels
<1>2. NoOptions \in Options /\ [NoOptions EXCEPT !.mode = "resume"] \in Options
  BY DEF NoOptions, Options, Levels
<1> QED BY <1>1, <1>2, BeginKeeps DEF StartRun, StartResume, StartStatus

\* An observation is made outside the lock, or the lock is given up.
LEMMA StepAsideKeeps ==
  ASSUME IInv, NEW p \in Proc, NEW step \in {"mkdir", "look", "reopen"}, Goto(p, step),
         UNCHANGED <<disk, surviving, marker, posts, attested, job>>,
         Observe(p) \/ UNCHANGED <<obsVars, witness>>,
         lock' = IF lock = p THEN Nobody ELSE lock
  PROVE  IInv'
<1>1. ViewType' BY ObserveType, QuietViewType DEF IInv
<1>2. opts' = [opts EXCEPT ![p] = opts[p]] /\ opts[p] \in Options BY DEF Goto, IInv, CallType
<1> QED BY <1>1, <1>2, ApartKeeps DEF Goto, Unlocked

LEMMA RunSurveysKeeps == ASSUME IInv, NEW p \in Proc, RunSurveys(p) PROVE IInv'
<1>1. lock # p BY DEF RunSurveys, IInv, CallType, Holding
<1> QED BY <1>1, StepAsideKeeps, StopKeeps DEF RunSurveys

LEMMA ObserveUnlockedKeeps == ASSUME IInv, NEW p \in Proc, ObserveUnlocked(p) PROVE IInv'
<1>1. lock # p BY DEF ObserveUnlocked, IInv, CallType, Holding
<1> QED BY <1>1, StepAsideKeeps, StopKeeps DEF ObserveUnlocked

LEMMA ObserveLockedKeeps == ASSUME IInv, NEW p \in Proc, ObserveLocked(p) PROVE IInv'
<1>1. lock = p BY DEF ObserveLocked, IInv, CallType, Holding
<1> QED BY <1>1, StepAsideKeeps DEF ObserveLocked

LEMMA TakeLockKeeps ==
  ASSUME IInv, NEW p \in Proc, NEW step \in {"read", "load"}, TakeLock(p, step) PROVE IInv'
<1>1. CASE disk.root # "locked" \/ lock # Nobody
  BY <1>1, StopKeeps DEF TakeLock
<1>2. CASE disk.root = "locked" /\ lock = Nobody
  <2>1. lock' = p /\ Goto(p, step) /\ UNCHANGED <<disk, surviving, marker, obsVars, witness, posts, attested, job>>
    BY <1>2 DEF TakeLock
  <2>2. Narrow BY <2>1, QuietIsNarrow
  <2>3. DiskType' /\ PostType' /\ RequestsAreRecorded' /\ \A j \in surviving' : Image(j)'
    BY <2>1, <2>2, NarrowKeeps
  <2>4. step \in Holding /\ pc'[p] = step /\ \A q \in Proc \ {p} : pc'[q] = pc[q] /\ pc[q] \notin Holding
    BY <1>2, <2>1, NobodyAssumption DEF Goto, IInv, CallType, Holding
  <2>5. CallType' BY <2>1, <2>4, NobodyAssumption DEF IInv, CallType, Goto
  <2>6. ViewType' BY <2>1, QuietViewType DEF IInv
  <2>7. Exclusion'
    BY <1>2, <2>1, <2>4 DEF IInv, Exclusion
  <2>8. Progress(p)'
    BY <2>4 DEF Progress, WritingProgress, Attempting, DecidingProgress
  <2>9. \A q \in Proc \ {p} : pc'[q] = pc[q] /\ opts'[q] = opts[q] /\ marker'[q] = marker[q]
    BY <2>1 DEF Goto, IInv, CallType
  <2>10. Reported' BY <2>1, <2>2, SameReportKeeps DEF Goto
  <2> QED BY <2>1, <2>2, <2>3, <2>5, <2>6, <2>7, <2>8, <2>9, <2>10, StepKeeps
<1> QED BY <1>1, <1>2

LEMMA OpenKeeps == ASSUME IInv, NEW p \in Proc, OpenToRead(p) \/ Reopen(p) PROVE IInv'
BY TakeLockKeeps DEF OpenToRead, Reopen

\* A lock holder that only moves on.
LEMMA MoveKeeps ==
  ASSUME IInv, NEW p \in Proc, pc[p] \in Holding, NEW step \in Holding, Goto(p, step), Narrow,
         UNCHANGED <<lock, marker, obsVars, witness, posts, attested, job>>, Progress(p)'
  PROVE  IInv'
<1>1. ViewType' BY QuietViewType DEF IInv
<1>2. /\ opts' = [opts EXCEPT ![p] = opts[p]] /\ opts[p] \in Options
      /\ marker' = [marker EXCEPT ![p] = marker[p]] /\ marker[p] \in Markers
  BY DEF Goto, IInv, CallType
<1> QED BY <1>1, <1>2, HolderKeeps DEF Goto

LEMMA ReadJournalKeeps == ASSUME IInv, NEW p \in Proc, ReadJournal(p) PROVE IInv'
<1>1. pc[p] = "read" /\ lock = p /\ pc[p] \in Holding BY DEF ReadJournal, IInv, CallType, Holding
<1>2. CASE Return(p, "stopped") BY <1>2, StopKeeps DEF ReadJournal
<1>3. CASE lock' = Nobody /\ Goto(p, "look") /\ UNCHANGED <<marker, obsVars, witness>>
  BY <1>1, <1>3, StepAsideKeeps DEF ReadJournal
<1>4. CASE Goto(p, "observe") /\ UNCHANGED <<lock, marker, obsVars, witness>>
  <2>1. pc'[p] = "observe" BY <1>4 DEF Goto, IInv, CallType
  <2>2. Progress(p)' BY <2>1 DEF Progress, WritingProgress, Attempting, DecidingProgress
  <2>3. Narrow BY QuietIsNarrow DEF ReadJournal
  <2>4. UNCHANGED <<posts, attested, job>> BY DEF ReadJournal
  <2>5. "observe" \in Holding BY DEF Holding
  <2> QED BY <1>1, <1>4, <2>2, <2>3, <2>4, <2>5, MoveKeeps
<1> QED BY <1>2, <1>3, <1>4 DEF ReadJournal

-----------------------------------------------------------------------------
(* Creating the journal.                                                   *)

LEMMA DiskImage == ASSUME IInv PROVE disk \in Journals /\ disk \in surviving /\ Image(disk)
BY DEF IInv, DiskType

\* Before anything is published nothing is in any image, sent or reported.
LEMMA NothingYet ==
  ASSUME IInv, ~HasMarkers(disk)
  PROVE  /\ \A r \in Requests, i \in Attempts : posts[<<r, i>>] = 0
         /\ report \notin Evidence
<1>1. disk \in Journals /\ disk \in surviving BY DiskImage
<1>2. disk.recheck = 0 /\ disk.start = 0 /\ disk.checking = 0 /\ disk.checked = 0 /\ disk.started = 0
  BY Reading
<1>3. ASSUME NEW r \in Requests, NEW i \in Attempts PROVE posts[<<r, i>>] = 0
  <2>1. posts[<<r, i>>] \in Nat BY DEF IInv, PostType
  <2>2. disk[r] = 0 BY <1>2 DEF Requests
  <2>3. ~(disk[r] >= i) BY <2>2, Counts DEF Attempts
  <2>4. ~(posts[<<r, i>>] > 0) BY <1>1, <2>3 DEF IInv, RequestsAreRecorded
  <2> QED BY <2>1, <2>4
<1>4. \A e \in Evidence : disk[e] = 0 BY <1>2 DEF Evidence
<1> QED BY <1>1, <1>3, <1>4 DEF IInv, Reported, ReportsAreDurable

\* The directory, the lock file and scratch are made while nothing is published.
LEMMA BlankKeeps ==
  ASSUME IInv, ~HasMarkers(disk), disk.pending = NoPending,
         NEW d \in Journals, d.action = disk.action, d.intent = disk.intent, d.pending = NoPending,
         d.recheck = disk.recheck, d.checking = disk.checking, d.checked = disk.checked,
         d.start = disk.start, d.started = disk.started, d.root # "locked" => ~d.scratch,
         disk' = d, d \in surviving', surviving' \subseteq surviving \cup {d},
         UNCHANGED <<posts, report>>
  PROVE  DiskType' /\ PostType' /\ RequestsAreRecorded' /\ Reported' /\ \A j \in surviving' : Image(j)'
<1>1. DiskType' BY DEF IInv, DiskType
<1>2. PostType' /\ RequestsAreRecorded' BY NothingYet DEF IInv, PostType, RequestsAreRecorded
<1>3. Reported' BY NothingYet DEF IInv, Reported, ReportsAreDurable
<1>4. ~HasMarkers(d) BY Reading
<1>5. \A e \in Evidence : ~Holds(disk, e) /\ ~Holds(d, e)
  BY <1>4, Reading DEF Holds, Evidence, NoPending
<1>6. WellFormed(d)
  BY <1>4 DEF WellFormed, NoPending
<1>7. Linked(d)' BY DEF Linked
<1>8. ASSUME NEW j \in surviving PROVE Image(j)'
  <2>1. WellFormed(j) /\ Linked(j) /\ j \in Journals BY DEF IInv, Image, DiskType
  <2>2. Linked(j)' BY <1>5, <2>1 DEF Linked
  <2> QED BY <2>1, <2>2 DEF Image
<1>9. ASSUME NEW j, j = d PROVE Image(j)' BY <1>6, <1>7, <1>9 DEF Image
<1> QED BY <1>1, <1>2, <1>3, <1>8, <1>9

LEMMA MakeRootKeeps == ASSUME IInv, NEW p \in Proc, MakeRoot(p) PROVE IInv'
<1>1. CASE disk.root # "none" BY <1>1, StopKeeps DEF MakeRoot
<1>2. CASE disk.root = "none"
  <2> DEFINE d == [disk EXCEPT !.root = "bare"]
  <2>1. /\ pc[p] = "mkdir" /\ disk' = d /\ surviving' = surviving \cup {d} /\ Goto(p, "newlock")
        /\ UNCHANGED <<lock, marker, obsVars, witness, posts, attested, job>>
    BY <1>2 DEF MakeRoot, Write
  <2>2. disk \in Journals /\ WellFormed(disk) BY DiskImage DEF Image
  <2>3. /\ d \in Journals /\ d.root = "bare" /\ d.action = disk.action /\ d.intent = disk.intent
        /\ d.pending = disk.pending /\ d.recheck = disk.recheck /\ d.checking = disk.checking
        /\ d.checked = disk.checked /\ d.start = disk.start /\ d.started = disk.started
        /\ d.scratch = disk.scratch
    BY <2>2 DEF Journals
  <2>4. ~disk.scratch /\ disk.pending = NoPending /\ ~HasMarkers(disk)
    BY <1>2, <2>2, Reading DEF WellFormed
  <2> HIDE DEF d
  <2>5. DiskType' /\ PostType' /\ RequestsAreRecorded' /\ Reported' /\ \A j \in surviving' : Image(j)'
    BY <2>1, <2>3, <2>4, BlankKeeps DEF Goto
  <2>6. pc'[p] = "newlock" /\ \A q \in Proc \ {p} :
          pc'[q] = pc[q] /\ opts'[q] = opts[q] /\ marker'[q] = marker[q]
    BY <2>1 DEF Goto, IInv, CallType
  <2>7. \A q \in Proc : pc[q] \notin Holding /\ pc[q] # "newlock"
    BY <1>2 DEF IInv, Exclusion
  <2>8. "newlock" \in Unlocked /\ "newlock" \notin Holding BY DEF Unlocked, Holding
  <2>9. CallType' BY <2>1, <2>7, <2>8 DEF Goto, IInv, CallType
  <2>10. Exclusion' BY <2>1, <2>3, <2>6, <2>7, <2>8 DEF Exclusion
  <2>11. Progress(p)'
    BY <2>6 DEF Progress, WritingProgress, Attempting, DecidingProgress
  <2>12. ViewType' BY <2>1, QuietViewType DEF IInv
  <2> QED BY <2>5, <2>6, <2>7, <2>9, <2>10, <2>11, <2>12, StepKeeps
<1> QED BY <1>1, <1>2

LEMMA MakeLockKeeps == ASSUME IInv, NEW p \in Proc, MakeLock(p) PROVE IInv'
<1> DEFINE d == [disk EXCEPT !.root = "locked"]
           m == [dest |-> "intent", seq |-> 0, then |-> "decide"]
<1>1. /\ pc[p] = "newlock" /\ disk' = d /\ surviving' = {disk, d} /\ Goto(p, "scratch") /\ lock' = p
      /\ marker' = [marker EXCEPT ![p] = m]
      /\ UNCHANGED <<obsVars, posts, witness, attested, job>>
  BY DEF MakeLock, SyncThenWrite, WriteMarker, historyVars
<1>2. disk \in Journals /\ disk \in surviving /\ WellFormed(disk) BY DiskImage DEF Image
<1>3. /\ d \in Journals /\ d.root = "locked" /\ d.action = disk.action /\ d.intent = disk.intent
      /\ d.pending = disk.pending /\ d.recheck = disk.recheck /\ d.checking = disk.checking
      /\ d.checked = disk.checked /\ d.start = disk.start /\ d.started = disk.started
      /\ d.scratch = disk.scratch
  BY <1>2 DEF Journals
<1>4. disk.root = "bare" /\ \A q \in Proc \ {p} : pc[q] \notin Holding /\ pc[q] # "newlock"
  BY <1>1 DEF IInv, Exclusion
<1>5. ~disk.scratch /\ disk.pending = NoPending /\ ~HasMarkers(disk) /\ ~HasMarkers(d)
  BY <1>2, <1>3, <1>4, Reading DEF WellFormed
<1>6. m \in Markers /\ m.dest = "intent" /\ m.seq = 0 /\ m.then = "decide"
  BY Counts DEF Markers, Destinations, Continuations
<1> HIDE DEF d, m
<1>7. DiskType' /\ PostType' /\ RequestsAreRecorded' /\ Reported' /\ \A j \in surviving' : Image(j)'
  BY <1>1, <1>2, <1>3, <1>5, BlankKeeps DEF Goto
<1>8. pc'[p] = "scratch" /\ marker'[p] = m /\ \A q \in Proc \ {p} :
        pc'[q] = pc[q] /\ opts'[q] = opts[q] /\ marker'[q] = marker[q]
  BY <1>1 DEF Goto, IInv, CallType
<1>9. "scratch" \in Holding BY DEF Holding
<1>10. CallType' BY <1>1, <1>4, <1>6, <1>8, <1>9, NobodyAssumption DEF Goto, IInv, CallType
<1>11. Exclusion' BY <1>1, <1>3, <1>4, <1>8 DEF Exclusion
<1>12. Progress(p)'
  BY <1>1, <1>3, <1>5, <1>6, <1>8
     DEF Progress, WritingProgress, Attempting, DecidingProgress, Fits, Purpose, Requests, Evidence
<1>13. ViewType' BY <1>1, QuietViewType DEF IInv
<1> QED BY <1>4, <1>7, <1>8, <1>10, <1>11, <1>12, <1>13, StepKeeps

LEMMA MakeScratchKeeps == ASSUME IInv, NEW p \in Proc, MakeScratch(p) PROVE IInv'
<1> DEFINE d == [disk EXCEPT !.scratch = TRUE]
<1>1. /\ pc[p] = "scratch" /\ disk' = d /\ surviving' = surviving \cup {d} /\ Goto(p, "stage")
      /\ UNCHANGED <<lock, marker, obsVars, posts, witness, attested, job>>
  BY DEF MakeScratch, Write, historyVars
<1>2. disk \in Journals /\ disk \in surviving BY DiskImage
<1>3. /\ d \in Journals /\ d.root = disk.root /\ d.action = disk.action /\ d.intent = disk.intent
      /\ d.pending = disk.pending /\ d.recheck = disk.recheck /\ d.checking = disk.checking
      /\ d.checked = disk.checked /\ d.start = disk.start /\ d.started = disk.started
      /\ d.scratch = TRUE
  BY <1>2 DEF Journals
<1>4. "scratch" \in Holding /\ "stage" \in Holding BY DEF Holding
<1>5. disk.root = "locked" /\ lock = p /\ \A q \in Proc \ {p} : pc[q] \notin Holding /\ pc[q] # "newlock"
  BY <1>1, <1>4, Alone
<1>6. /\ disk.pending = NoPending /\ marker[p].dest = "intent" /\ Purpose(marker[p])
      /\ Fits(disk, "intent", marker[p].seq)
  BY <1>1 DEF IInv, Progress, WritingProgress
<1>7. ~HasMarkers(disk) /\ ~HasMarkers(d) /\ marker[p].seq = 0
  BY <1>3, <1>6, Reading DEF Fits
<1> HIDE DEF d
<1>8. DiskType' /\ PostType' /\ RequestsAreRecorded' /\ Reported' /\ \A j \in surviving' : Image(j)'
  BY <1>1, <1>3, <1>5, <1>6, <1>7, BlankKeeps DEF Goto
<1>9. pc'[p] = "stage" /\ marker'[p] = marker[p] /\ \A q \in Proc \ {p} :
        pc'[q] = pc[q] /\ opts'[q] = opts[q] /\ marker'[q] = marker[q]
  BY <1>1 DEF Goto, IInv, CallType
<1>10. CallType' BY <1>1, <1>4, <1>5 DEF Goto, IInv, CallType
<1>11. Exclusion' BY <1>1, <1>3, <1>5, <1>9 DEF Exclusion
<1>12. Progress(p)'
  BY <1>1, <1>3, <1>6, <1>7, <1>9
     DEF Progress, WritingProgress, Attempting, DecidingProgress, Fits, Purpose, Requests
<1>13. ViewType' BY <1>1, QuietViewType DEF IInv
<1> QED BY <1>5, <1>8, <1>9, <1>10, <1>11, <1>12, <1>13, StepKeeps

-----------------------------------------------------------------------------
(* Writing a marker.                                                       *)

\* Journal j has all that k has published.
Grown(k, j) ==
  /\ k.recheck <= j.recheck /\ k.start <= j.start
  /\ StartReviewed(k) => StartReviewed(j)
  /\ \A e \in Evidence : k[e] # 0 => j[e] # 0

LEMMA SameIsGrown ==
  ASSUME NEW k \in Journals, NEW j, SamePublished(j, k) PROVE Grown(k, j)
<1>1. k.recheck \in Nat /\ k.start \in Nat BY Fields, Counts
<1>4. k.recheck = j.recheck /\ k.start = j.start BY DEF SamePublished
<1>2. \A e \in Evidence : k[e] = j[e] BY DEF SamePublished, Evidence
<1>3. StartReviewed(k) => StartReviewed(j) BY SameReading
<1> QED BY <1>1, <1>2, <1>3, <1>4 DEF Grown

\* What was sent and reported stays recorded in journals that only grow.
LEMMA GrowthKeeps ==
  ASSUME IInv, DiskType', UNCHANGED posts, \A j \in surviving' : \E k \in surviving : Grown(k, j)
  PROVE  PostType' /\ RequestsAreRecorded' /\ (UNCHANGED report => Reported')
<1>1. PostType' BY DEF IInv, PostType
<1>2. ASSUME NEW r \in Requests, NEW i \in Attempts, posts[<<r, i>>] > 0, NEW j \in surviving'
      PROVE  j[r] >= i /\ (r = "start" => StartReviewed(j))
  <2>1. PICK k \in surviving : Grown(k, j) OBVIOUS
  <2>2. k[r] >= i /\ (r = "start" => StartReviewed(k)) BY <1>2 DEF IInv, RequestsAreRecorded
  <2>3. k[r] <= j[r] BY <2>1 DEF Grown, Requests
  <2>4. j \in Journals /\ k \in Journals BY DEF IInv, DiskType
  <2>5. k[r] \in Nat /\ j[r] \in Nat /\ i \in Nat BY <2>4, Fields, Counts DEF Requests
  <2> QED BY <2>1, <2>2, <2>3, <2>5 DEF Grown
<1>3. RequestsAreRecorded' BY <1>2 DEF IInv, RequestsAreRecorded
<1>4. UNCHANGED report => Reported' BY DEF IInv, Reported, ReportsAreDurable, Grown
<1> QED BY <1>1, <1>3, <1>4

\* A lock holder that writes and goes on.
LEMMA HolderWriteKeeps ==
  ASSUME IInv, NEW p \in Proc, pc[p] \in Holding, NEW step \in Holding, Goto(p, step),
         UNCHANGED <<lock, marker, posts>>, disk'.root = "locked", DiskType', ViewType',
         \A j \in surviving' : \E k \in surviving : Grown(k, j),
         \A j \in surviving' : Image(j)', Progress(p)'
  PROVE  IInv'
<1>1. PostType' /\ RequestsAreRecorded' /\ Reported' BY GrowthKeeps DEF Goto
<1>2. lock = p /\ \A q \in Proc \ {p} : pc[q] \notin Holding /\ pc[q] # "newlock" BY Alone
<1>3. pc'[p] = step /\ \A q \in Proc \ {p} :
        pc'[q] = pc[q] /\ opts'[q] = opts[q] /\ marker'[q] = marker[q]
  BY DEF Goto, IInv, CallType
<1>4. CallType' BY <1>3 DEF Goto, IInv, CallType
<1>5. Exclusion' BY <1>2, <1>3 DEF Exclusion, Holding
<1> QED BY <1>1, <1>2, <1>3, <1>4, <1>5, StepKeeps

\* A lock holder that writes and ends.
LEMMA HolderEndKeeps ==
  ASSUME IInv, NEW p \in Proc, pc[p] \in Holding, Return(p, "stopped"),
         UNCHANGED <<posts, attested, job>>, DiskType',
         \A j \in surviving' : \E k \in surviving : Grown(k, j),
         \A j \in surviving' : Image(j)'
  PROVE  IInv'
<1>1. PostType' /\ RequestsAreRecorded' BY GrowthKeeps
<1>2. Reported' BY DEF Return, Reported, ReportsAreDurable, Reports, Evidence
<1>3. \A q \in Proc \ {p} : pc[q] \notin Holding /\ pc[q] # "newlock" BY Alone
<1>4. pc'[p] = "idle" /\ \A q \in Proc \ {p} :
        pc'[q] = pc[q] /\ opts'[q] = opts[q] /\ marker'[q] = marker[q]
  BY DEF Return, IInv, CallType
<1>5. CallType' BY DefaultTypes, NobodyAssumption DEF IInv, CallType, Return
<1>6. Exclusion' BY <1>3, <1>4, DefaultTypes DEF Exclusion
<1>7. ViewType' BY ForgetType DEF IInv, Return
<1>8. Progress(p)' BY <1>4 DEF Progress, WritingProgress, Attempting, DecidingProgress
<1> QED BY <1>1, <1>2, <1>3, <1>4, <1>5, <1>6, <1>7, <1>8, StepKeeps

LEMMA StageMarkerKeeps == ASSUME IInv, NEW p \in Proc, StageMarker(p) PROVE IInv'
<1>1. PICK whole \in BOOLEAN :
        /\ SyncThenWrite(Stage(disk, marker[p].dest, marker[p].seq, whole))
        /\ IF whole
             THEN /\ Goto(p, "commit")
                  /\ overtaken' = {q \in Proc : p \in later[q]}
                  /\ UNCHANGED <<lock, marker, seen, later, outdated, witness>>
             ELSE Return(p, "stopped")
  BY DEF StageMarker
<1> DEFINE d == Stage(disk, marker[p].dest, marker[p].seq, whole)
<1>2. pc[p] = "stage" /\ pc[p] \in Holding /\ UNCHANGED <<posts, attested, job>>
  BY DEF StageMarker, Holding
<1>3. disk' = d /\ surviving' = {disk, d} BY <1>1 DEF SyncThenWrite
<1>4. marker[p] \in Markers /\ marker[p].dest \in Destinations /\ marker[p].seq \in AttemptCounts
  BY DEF IInv, CallType, Markers
<1>5. disk \in Journals /\ disk \in surviving /\ WellFormed(disk) /\ Linked(disk)
  BY DiskImage DEF Image
<1>6. /\ d \in Journals /\ d.root = disk.root /\ SamePublished(d, disk)
      /\ d.pending = [dest |-> marker[p].dest, seq |-> marker[p].seq, whole |-> whole]
  BY <1>4, <1>5, StageType
<1>7. /\ disk.pending = NoPending /\ Fits(disk, marker[p].dest, marker[p].seq) /\ disk.scratch
      /\ Purpose(marker[p])
  BY <1>2 DEF IInv, Progress, WritingProgress
<1>8. disk.root = "locked" BY <1>2, Alone
<1>9. marker[p].dest # "none" BY <1>4 DEF Destinations, Requests, Evidence
<1> HIDE DEF d
<1>10. DiskType' BY <1>3, <1>5, <1>6 DEF DiskType
<1>11. \A j \in surviving' : \E k \in surviving : Grown(k, j)
  <2>1. Grown(disk, d) BY <1>5, <1>6, SameIsGrown
  <2>2. SamePublished(disk, disk) BY DEF SamePublished
  <2>3. Grown(disk, disk) BY <1>5, <2>2, SameIsGrown
  <2> QED BY <1>3, <1>5, <2>1, <2>3
<1>12. WellFormed(d)
  <2>1. d.scratch = disk.scratch BY <1>6 DEF SamePublished
  <2>2. /\ HasMarkers(d) <=> HasMarkers(disk)
        /\ ChainAgrees(d) <=> ChainAgrees(disk)
        /\ Fits(d, marker[p].dest, marker[p].seq)
    BY <1>6, <1>7, SameReading
  <2>3. d.pending.dest = marker[p].dest /\ d.pending.seq = marker[p].seq BY <1>6
  <2> QED BY <1>5, <1>6, <1>7, <1>8, <1>9, <2>1, <2>2, <2>3 DEF WellFormed
<1>15. ASSUME NEW j, j = d PROVE Image(j)'
  BY <1>3, <1>12, <1>15 DEF Image, Linked
<1>16. ASSUME NEW j, j = disk PROVE Image(j)'
  <2>1. \A e \in Evidence : Holds(disk, e) => Holds(d, e)
    BY <1>6, <1>7 DEF Holds, NoPending, SamePublished, Evidence
  <2>2. Linked(j)' BY <1>3, <1>6, <1>16, <2>1 DEF Linked, SamePublished
  <2> QED BY <1>5, <1>16, <2>2 DEF Image
<1>17. \A j \in surviving' : Image(j)' BY <1>3, <1>15, <1>16
<1>18. CASE whole = FALSE
  BY <1>1, <1>2, <1>10, <1>11, <1>17, <1>18, HolderEndKeeps
<1>19. CASE whole = TRUE
  <2>1. Goto(p, "commit") /\ UNCHANGED <<lock, marker>> BY <1>1, <1>19
  <2>2. ViewType' BY <1>1, <1>2, <1>19 DEF IInv, ViewType
  <2>3. pc'[p] = "commit" BY <2>1 DEF Goto, IInv, CallType
  <2>4. WritingProgress(p)'
    <3>1. disk'.pending = [dest |-> marker'[p].dest, seq |-> marker'[p].seq, whole |-> TRUE]
      BY <1>3, <1>6, <1>19, <2>1
    <3>2. ASSUME NEW m, m = marker[p] PROVE Purpose(m)'
      BY <1>3, <1>6, <1>7, <3>2 DEF Purpose, SamePublished
    <3>3. Purpose(marker[p])' BY <2>1, <3>2
    <3> QED BY <2>3, <3>1, <3>3 DEF WritingProgress
  <2>5. Attempting(p)'
    <3>1. Attempting(p) BY DEF IInv, Progress
    <3> QED BY <1>2, <2>1, <3>1 DEF Attempting, Goto
  <2>6. DecidingProgress(p)' BY <2>3 DEF DecidingProgress
  <2>7. "commit" \in Holding BY DEF Holding
  <2> QED BY <1>2, <1>3, <1>6, <1>8, <1>10, <1>11, <1>17, <2>1, <2>2, <2>4, <2>5, <2>6, <2>7,
             HolderWriteKeeps DEF Progress
<1> QED BY <1>18, <1>19

\* The rename publishes what was staged: the result is in order, it holds what
\* the staged journal held, and no attempt is published past evidence.
LEMMA CommitImage ==
  ASSUME IInv, disk.pending.dest # "none"
  PROVE  /\ Commit(disk) \in Journals /\ WellFormed(Commit(disk)) /\ ChainAgrees(Commit(disk))
         /\ Commit(disk).action = disk.action /\ Commit(disk).root = disk.root
         /\ Commit(disk).pending = NoPending
         /\ Grown(disk, Commit(disk))
         /\ \A e \in Evidence : Holds(disk, e) => Holds(Commit(disk), e)
         /\ \/ Commit(disk).recheck = disk.recheck
            \/ /\ disk.recheck + 1 = Commit(disk).recheck
               /\ Commit(disk).checking = 0 /\ Commit(disk).checked = 0
         /\ \/ Commit(disk).start = disk.start
            \/ disk.start + 1 = Commit(disk).start /\ Commit(disk).started = 0
<1> DEFINE d == Commit(disk)
<1>1. disk \in Journals /\ disk \in surviving /\ WellFormed(disk) BY DiskImage DEF Image
<1>2. /\ d \in Journals /\ d.pending = NoPending
      /\ d.action = disk.action /\ d.root = disk.root /\ d.scratch = disk.scratch
      /\ d.intent = (disk.intent \/ disk.pending.dest = "intent")
      /\ d.recheck = IF disk.pending.dest = "recheck" THEN disk.pending.seq ELSE disk.recheck
      /\ d.checking = IF disk.pending.dest = "checking" THEN disk.pending.seq ELSE disk.checking
      /\ d.checked = IF disk.pending.dest = "checked" THEN disk.pending.seq ELSE disk.checked
      /\ d.start = IF disk.pending.dest = "start" THEN disk.pending.seq ELSE disk.start
      /\ d.started = IF disk.pending.dest = "started" THEN disk.pending.seq ELSE disk.started
  BY <1>1, CommitType
<1> HIDE DEF d
<1>3. Fits(disk, disk.pending.dest, disk.pending.seq) /\ disk.scratch BY <1>1 DEF WellFormed, NoPending
<1>4. disk.pending.dest \in {"intent", "recheck", "start", "checking", "checked", "started"}
  BY <1>1, Fields DEF Destinations, Requests, Evidence
<1>5. /\ disk.recheck \in Nat /\ disk.start \in Nat /\ disk.checking \in Nat
      /\ disk.checked \in Nat /\ disk.started \in Nat /\ disk.pending.seq \in Nat
  BY <1>1, Fields, Counts
<1>6. StartReviewed(disk) => StartReviewed(d)
  BY <1>2, <1>3 DEF StartReviewed, Fits
<1>7. ChainAgrees(d)
  <2>1. CASE disk.pending.dest = "intent"
    <3>1. ~HasMarkers(disk) BY <1>3, <2>1 DEF Fits
    <3>2. /\ ~disk.intent /\ disk.recheck = 0 /\ disk.start = 0
          /\ disk.checking = 0 /\ disk.checked = 0 /\ disk.started = 0
      BY <3>1, Reading
    <3>3. /\ d.scratch /\ d.intent /\ d.recheck = 0 /\ d.start = 0
          /\ d.checking = 0 /\ d.checked = 0 /\ d.started = 0
      BY <1>2, <1>3, <2>1, <3>2
    <3> QED BY <3>3, Reading
  <2>2. CASE disk.pending.dest # "intent"
    <3>1. ChainAgrees(disk) BY <1>3, <2>2 DEF Fits
    <3>2. /\ disk.scratch /\ disk.intent
          /\ disk.checking \in {0, disk.recheck} /\ disk.checked \in {0, disk.recheck}
          /\ disk.started \in {0, disk.start}
          /\ disk.action = "start_after_stop" => disk.recheck = 0
          /\ disk.start > 0 => StartReviewed(disk)
      BY <3>1, Reading
    <3>3. d.start > 0 => StartReviewed(d) BY <1>2, <1>3, <1>6, <3>2 DEF Fits
    <3>4. /\ d.checking \in {0, d.recheck} /\ d.checked \in {0, d.recheck}
          /\ d.started \in {0, d.start}
          /\ d.action = "start_after_stop" => d.recheck = 0
      BY <1>2, <1>3, <1>4, <1>5, <2>2, <3>2 DEF Fits
    <3> QED BY <1>2, <3>2, <3>3, <3>4, Reading
  <2> QED BY <2>1, <2>2
<1>8. WellFormed(d) BY <1>1, <1>2, <1>7 DEF WellFormed, NoPending
<1>9. Grown(disk, d)
  <2>1. disk.recheck <= d.recheck /\ disk.start <= d.start BY <1>2, <1>3, <1>5 DEF Fits
  <2>2. \A e \in Evidence : disk[e] # 0 => d[e] # 0 BY <1>2, <1>3 DEF Fits, Evidence
  <2> QED BY <1>6, <2>1, <2>2 DEF Grown
<1>10. \A e \in Evidence : Holds(disk, e) => Holds(d, e)
  BY <1>2, <1>3 DEF Holds, Fits, Evidence
<1>11. d.recheck = disk.recheck \/
         (disk.recheck + 1 = d.recheck /\ d.checking = 0 /\ d.checked = 0)
  <2>1. CASE disk.pending.dest = "recheck" BY <1>2, <1>3, <1>5, <2>1 DEF Fits
  <2>2. CASE disk.pending.dest # "recheck" BY <1>2, <2>2
  <2> QED BY <2>1, <2>2
<1>12. d.start = disk.start \/ (disk.start + 1 = d.start /\ d.started = 0)
  <2>1. CASE disk.pending.dest = "start" BY <1>2, <1>3, <1>5, <2>1 DEF Fits
  <2>2. CASE disk.pending.dest # "start" BY <1>2, <2>2
  <2> QED BY <2>1, <2>2
<1> QED BY <1>2, <1>7, <1>8, <1>9, <1>10, <1>11, <1>12 DEF d

LEMMA CommitMarkerKeeps == ASSUME IInv, NEW p \in Proc, CommitMarker(p) PROVE IInv'
<1> DEFINE d == Commit(disk)
<1>1. /\ pc[p] = "commit" /\ disk' = d /\ surviving' = surviving \cup {d} /\ Goto(p, "confirm")
      /\ UNCHANGED <<lock, marker, seen, later, witness, posts, job>>
      /\ outdated' = (IF marker[p].dest = "intent" THEN outdated ELSE overtaken)
      /\ overtaken' = {} /\ attested' = (IF marker[p].dest = "recheck" THEN p \in witness ELSE attested)
  BY DEF CommitMarker, Write
<1>2. pc[p] \in Holding /\ "confirm" \in Holding BY <1>1 DEF Holding
<1>3. /\ disk.pending = [dest |-> marker[p].dest, seq |-> marker[p].seq, whole |-> TRUE]
      /\ Purpose(marker[p])
  BY <1>1 DEF IInv, Progress, WritingProgress
<1>4. marker[p].dest \in {"intent", "recheck", "start", "checking", "checked", "started"}
  BY DEF IInv, CallType, Markers, Destinations, Requests, Evidence
<1>5. disk.pending.dest = marker[p].dest /\ disk.pending.dest # "none" /\ disk.pending # NoPending
  BY <1>3, <1>4 DEF NoPending
<1>6. /\ d \in Journals /\ WellFormed(d) /\ ChainAgrees(d)
      /\ d.action = disk.action /\ d.root = disk.root /\ d.pending = NoPending /\ Grown(disk, d)
      /\ \A e \in Evidence : Holds(disk, e) => Holds(d, e)
      /\ \/ d.recheck = disk.recheck
         \/ disk.recheck + 1 = d.recheck /\ d.checking = 0 /\ d.checked = 0
      /\ \/ d.start = disk.start
         \/ disk.start + 1 = d.start /\ d.started = 0
  BY <1>5, CommitImage, Zenon
<1>7. /\ d.recheck = IF marker[p].dest = "recheck" THEN marker[p].seq ELSE disk.recheck
      /\ d.checking = IF marker[p].dest = "checking" THEN marker[p].seq ELSE disk.checking
      /\ d.checked = IF marker[p].dest = "checked" THEN marker[p].seq ELSE disk.checked
      /\ d.start = IF marker[p].dest = "start" THEN marker[p].seq ELSE disk.start
      /\ d.started = IF marker[p].dest = "started" THEN marker[p].seq ELSE disk.started
  BY <1>3, <1>5, DiskImage, CommitType
<1>8. Fits(disk, marker[p].dest, marker[p].seq) /\ disk.root = "locked"
  BY <1>2, <1>3, <1>5, DiskImage, Alone DEF Image, WellFormed
<1>9. disk \in Journals /\ disk \in surviving /\ surviving \subseteq Journals BY DEF IInv, DiskType
<1> HIDE DEF d
<1>10. DiskType' BY <1>1, <1>6, <1>9 DEF DiskType
<1>11. \A j \in surviving' : \E k \in surviving : Grown(k, j)
  <2>1. ASSUME NEW j \in surviving PROVE Grown(j, j) BY <1>9, SameIsGrown DEF SamePublished
  <2> QED BY <1>1, <1>6, <1>9, <2>1
<1>12. ASSUME NEW j \in surviving PROVE Image(j)'
  <2>1. WellFormed(j) /\ Linked(j) BY DEF IInv, Image
  <2>2. j.recheck = disk.recheck /\ j.start = disk.start BY <1>5, <2>1 DEF Linked
  <2>3. \A e \in Evidence : Holds(j, e) => Holds(d, e) BY <1>6, <2>1 DEF Linked
  <2>4. j.action = d.action BY <1>6, <2>1 DEF Linked
  <2>5. Linked(j)' BY <1>1, <1>6, <2>2, <2>3, <2>4 DEF Linked
  <2> QED BY <2>1, <2>5 DEF Image
<1>13. ASSUME NEW j, j = d PROVE Image(j)' BY <1>1, <1>6, <1>13 DEF Image, Linked
<1>14. \A j \in surviving' : Image(j)' BY <1>1, <1>12, <1>13
<1>15. pc'[p] = "confirm" BY <1>1 DEF Goto, IInv, CallType
<1>16. ViewType'
  <2>1. attested' \in BOOLEAN
    <3>1. CASE marker[p].dest = "recheck" BY <1>1, <3>1
    <3>2. CASE marker[p].dest # "recheck" BY <1>1, <3>2 DEF IInv, ViewType
    <3> QED BY <3>1, <3>2
  <2> QED BY <1>1, <2>1 DEF IInv, ViewType
<1>17. WritingProgress(p)'
  <2>1. ASSUME NEW m, m = marker[p] PROVE Purpose(m)'
    <3>1. m.then = "append" => d.start = disk.start BY <1>3, <1>7, <2>1 DEF Purpose
    <3> QED BY <1>1, <1>3, <1>6, <2>1, <3>1 DEF Purpose
  <2>2. ASSUME NEW a, NEW n, a = marker[p].dest, n = marker[p].seq PROVE Landed(a, n)'
    <3>1. a = "recheck" => d.recheck = n /\ n # 0 /\ d.checking = 0 /\ d.checked = 0
      <4>1. disk.recheck \in Nat BY <1>9, Fields, Counts
      <4> QED BY <1>7, <1>8, <2>2, <4>1 DEF Fits
    <3>2. a = "start" => d.start = n /\ n # 0 /\ d.started = 0
      <4>1. disk.start \in Nat BY <1>9, Fields, Counts
      <4> QED BY <1>7, <1>8, <2>2, <4>1 DEF Fits
    <3>3. /\ a = "checking" => d.checking # 0
          /\ a = "checked" => d.checked # 0
          /\ a = "started" => d.started # 0
      BY <1>7, <1>8, <2>2 DEF Fits
    <3> QED BY <1>1, <1>6, <3>1, <3>2, <3>3 DEF Landed
  <2>3. Purpose(marker[p])' /\ Landed(marker[p].dest, marker[p].seq)' BY <1>1, <2>1, <2>2
  <2> QED BY <1>15, <2>3 DEF WritingProgress
<1>18. Attempting(p)'
  <2>1. Attempting(p) BY DEF IInv, Progress
  <2> QED BY <1>1, <2>1 DEF Attempting, Goto
<1>19. DecidingProgress(p)' BY <1>15 DEF DecidingProgress
<1> QED BY <1>1, <1>2, <1>6, <1>8, <1>10, <1>11, <1>14, <1>16, <1>17, <1>18, <1>19,
           HolderWriteKeeps DEF Progress

LEMMA Kinds == Destinations = {"intent", "recheck", "start", "checking", "checked", "started"}
BY DEF Destinations, Requests, Evidence

LEMMA ConfirmMarkerKeeps == ASSUME IInv, NEW p \in Proc, ConfirmMarker(p) PROVE IInv'
<1>1. /\ pc[p] = "confirm" /\ pc[p] \in Holding /\ Narrow
      /\ disk' = disk /\ surviving' = {disk} /\ UNCHANGED <<posts, attested, job>>
  BY SyncIsNarrow DEF ConfirmMarker, Sync, Holding
<1>2. /\ Purpose(marker[p]) /\ Landed(marker[p].dest, marker[p].seq) /\ Attempting(p)
  BY <1>1 DEF IInv, Progress, WritingProgress
<1>3. marker[p].dest \in Destinations /\ marker[p].then \in Continuations
  BY DEF IInv, CallType, Markers
<1>4. CASE marker[p].then \in Evidence /\ Return(p, marker[p].then)
  <2>1. marker[p].then = marker[p].dest
    BY <1>2, <1>3, <1>4, Kinds DEF Purpose, Evidence, Requests
  <2>2. disk[marker[p].then] # 0 BY <1>2, <1>4, <2>1 DEF Landed, Evidence
  <2>3. marker[p].then \in Reports BY <1>4 DEF Reports
  <2> QED BY <1>1, <1>4, <2>2, <2>3, ReturnKeeps
<1>5. CASE marker[p].then \notin Evidence /\ Goto(p, marker[p].then)
           /\ UNCHANGED <<lock, marker, obsVars, witness>>
  <2>1. marker[p].then \in {"load", "decide", "request", "append"}
    BY <1>3, <1>5 DEF Continuations, Evidence
  <2>2. pc'[p] = marker[p].then BY <1>5 DEF Goto, IInv, CallType
  <2>3. WritingProgress(p)' BY <2>1, <2>2 DEF WritingProgress
  <2>4. Attempting(p)' BY <1>1, <1>2, <1>5 DEF Attempting, Goto
  <2>5. ASSUME NEW a, NEW n, a = marker[p].dest, n = marker[p].seq PROVE Landed(a, n)'
    BY <1>1, <1>2, <2>5 DEF Landed
  <2>6. marker[p].then = "request" => marker[p].dest \in Requests
    BY <1>2, <1>3, Kinds DEF Purpose, Requests, Evidence
  <2>7. DecidingProgress(p)'
    <3>1. Landed(marker[p].dest, marker[p].seq)' BY <1>5, <2>5
    <3>2. pc'[p] = "request" => marker'[p].dest \in Requests BY <1>5, <2>2, <2>6
    <3>3. pc'[p] = "append" => disk.checked # 0 /\ disk.action = "recheck_then_start" /\ disk.start = 0
      BY <1>2, <2>2 DEF Purpose, Landed
    <3> QED BY <1>1, <1>2, <2>1, <2>2, <3>1, <3>2, <3>3 DEF DecidingProgress, Landed
  <2>8. marker[p].then \in Holding BY <2>1 DEF Holding
  <2> QED BY <1>1, <1>5, <2>3, <2>4, <2>7, <2>8, MoveKeeps DEF Progress
<1> QED BY <1>4, <1>5 DEF ConfirmMarker

-----------------------------------------------------------------------------
(* Recovery.                                                               *)

\* A lock holder begins to write a marker.
LEMMA PlanKeeps ==
  ASSUME IInv, NEW p \in Proc, pc[p] \in Holding, NEW step \in {"scratch", "stage", "commit"},
         NEW d \in Destinations, NEW n \in AttemptCounts, NEW t \in Continuations,
         WriteMarker(p, d, n, t, step),
         UNCHANGED <<disk, surviving, lock, posts>>, ViewType', disk.root = "locked",
         step = "stage" => disk.scratch,
         step \in {"scratch", "stage"} => disk.pending = NoPending /\ Fits(disk, d, n),
         step = "scratch" => d = "intent",
         step = "commit" => disk.pending = [dest |-> d, seq |-> n, whole |-> TRUE],
         d = "intent" => t \in {"load", "decide"},
         d \in Requests => t = "request",
         d \in Evidence => t \in {"load", d, "append"},
         t = "append" => d = "checked" /\ disk.action = "recheck_then_start" /\ disk.start = 0,
         d \in Requests => /\ n \in Attempts /\ posts[<<d, n>>] = 0
                           /\ n = 1 \/ opts[p][d] = "repeat"
  PROVE  IInv'
<1> DEFINE m == [dest |-> d, seq |-> n, then |-> t]
<1>1. m \in Markers /\ m.dest = d /\ m.seq = n /\ m.then = t BY DEF Markers
<1>2. marker' = [marker EXCEPT ![p] = m] /\ Goto(p, step) BY DEF WriteMarker
<1> HIDE DEF m
<1>3. marker'[p] = m /\ pc'[p] = step BY <1>2 DEF Goto, IInv, CallType
<1>4. Purpose(m)' BY <1>1 DEF Purpose
<1>5. step = "stage" \/ step = "scratch" => Fits(disk, m.dest, m.seq)' BY <1>1
<1>6. WritingProgress(p)'
  <2>1. pc'[p] # "confirm" BY <1>3
  <2>2. Purpose(marker[p])' BY <1>3, <1>4
  <2>3. pc'[p] \in {"scratch", "stage"} => Fits(disk, marker[p].dest, marker[p].seq)'
    BY <1>1, <1>3, <1>5
  <2> QED BY <1>1, <1>3, <2>1, <2>2, <2>3 DEF WritingProgress
<1>7. Attempting(p)' BY <1>1, <1>2, <1>3 DEF Attempting, Goto
<1>8. DecidingProgress(p)' BY <1>3 DEF DecidingProgress
<1>9. step \in Holding BY DEF Holding
<1>10. opts' = [opts EXCEPT ![p] = opts[p]] /\ opts[p] \in Options BY <1>2 DEF Goto, IInv, CallType
<1> QED BY <1>1, <1>2, <1>6, <1>7, <1>8, <1>9, <1>10, QuietIsNarrow, HolderKeeps DEF Goto, Progress

LEMMA LoadRefusesKeeps == ASSUME IInv, NEW p \in Proc, LoadRefuses(p) PROVE IInv'
BY StopKeeps DEF LoadRefuses

\* What recovery opens.
LEMMA Recoverable ==
  ASSUME IInv, NEW p \in Proc, Recovering(p)
  PROVE  /\ pc[p] = "load" /\ pc[p] \in Holding /\ disk.root = "locked"
         /\ disk \in Journals /\ WellFormed(disk)
         /\ disk.pending # NoPending =>
              /\ disk.pending = [dest |-> disk.pending.dest, seq |-> disk.pending.seq, whole |-> TRUE]
              /\ disk.pending.dest # "none" /\ disk.scratch
              /\ Fits(disk, disk.pending.dest, disk.pending.seq)
<1>1. pc[p] = "load" /\ pc[p] \in Holding /\ disk.root = "locked"
  BY DEF Recovering, Resumable, Holding
<1>2. disk \in Journals /\ WellFormed(disk) BY DiskImage DEF Image
<1>3. ASSUME disk.pending # NoPending
      PROVE  /\ disk.pending = [dest |-> disk.pending.dest, seq |-> disk.pending.seq, whole |-> TRUE]
             /\ disk.pending.dest # "none" /\ disk.scratch
             /\ Fits(disk, disk.pending.dest, disk.pending.seq)
  <2>1. disk.pending.dest # "none" /\ disk.scratch BY <1>2, <1>3 DEF WellFormed
  <2>2. disk.pending.whole = TRUE
    BY <1>2, <1>3, Fields DEF Recovering, Resumable, PendingAccepted
  <2>3. disk.pending \in Pendings BY <1>2, Fields
  <2>4. disk.pending = [dest |-> disk.pending.dest, seq |-> disk.pending.seq, whole |-> TRUE]
    BY <2>2, <2>3 DEF Pendings
  <2> QED BY <1>2, <2>1, <2>4 DEF WellFormed
<1> QED BY <1>1, <1>2, <1>3

LEMMA LoadInitializesKeeps == ASSUME IInv, NEW p \in Proc, LoadInitializes(p) PROVE IInv'
<1> DEFINE step == IF disk.pending # NoPending THEN "commit" ELSE IF disk.scratch THEN "stage" ELSE "scratch"
<1>1. /\ WriteMarker(p, "intent", 0, "load", step) /\ Uninitialized(disk)
      /\ UNCHANGED <<disk, surviving, lock, posts, obsVars, witness, attested, job>>
  BY DEF LoadInitializes, diskVars, historyVars
<1>2. Recovering(p) BY DEF LoadInitializes
<1>3. ~HasMarkers(disk) /\ Fits(disk, "intent", 0) BY <1>1 DEF Uninitialized, Fits
<1>4. disk.pending # NoPending => disk.pending = [dest |-> "intent", seq |-> 0, whole |-> TRUE]
  BY <1>1, <1>2, Recoverable DEF Uninitialized, Fits
<1>5. "intent" \in Destinations /\ 0 \in AttemptCounts /\ "load" \in Continuations
      /\ "intent" \notin Requests /\ "intent" \notin Evidence
  BY Counts DEF Destinations, Continuations, Requests, Evidence
<1>6. ViewType' BY <1>1, QuietViewType DEF IInv
<1>7. pc[p] \in Holding /\ disk.root = "locked" BY <1>2, Recoverable
<1>8. step \in {"scratch", "stage", "commit"} /\ (step = "commit" <=> disk.pending # NoPending)
      /\ (step = "stage" => disk.scratch)
  OBVIOUS
<1> HIDE DEF step
<1> QED BY <1>1, <1>3, <1>4, <1>5, <1>6, <1>7, <1>8, PlanKeeps

LEMMA LoadRepublishesKeeps == ASSUME IInv, NEW p \in Proc, LoadRepublishes(p) PROVE IInv'
<1>1. /\ WriteMarker(p, disk.pending.dest, disk.pending.seq, "load", "commit")
      /\ Recovering(p) /\ disk.pending.dest \in Evidence
      /\ UNCHANGED <<disk, surviving, lock, posts, obsVars, witness, attested, job>>
  BY DEF LoadRepublishes, diskVars, historyVars
<1>2. disk.pending # NoPending BY <1>1 DEF NoPending, Evidence
<1>3. /\ pc[p] \in Holding /\ disk.root = "locked" /\ disk \in Journals
      /\ disk.pending = [dest |-> disk.pending.dest, seq |-> disk.pending.seq, whole |-> TRUE]
  BY <1>1, <1>2, Recoverable
<1>4. /\ disk.pending.dest \in Destinations /\ disk.pending.dest \notin Requests
      /\ disk.pending.dest # "intent"
      /\ disk.pending.seq \in AttemptCounts /\ "load" \in Continuations
  BY <1>1, <1>3, Fields DEF Destinations, Continuations, Evidence, Requests
<1>5. ViewType' BY <1>1, QuietViewType DEF IInv
<1> QED BY <1>1, <1>3, <1>4, <1>5, PlanKeeps

LEMMA LoadDiscardsKeeps == ASSUME IInv, NEW p \in Proc, LoadDiscards(p) PROVE IInv'
<1> DEFINE d == Discard(disk)
<1>1. /\ Recovering(p) /\ disk.pending.dest \in Requests /\ disk' = d /\ surviving' = {d}
      /\ overtaken' = {}
      /\ UNCHANGED <<lock, pc, opts, marker, report, posts, seen, later, outdated, witness, attested, job>>
  BY DEF LoadDiscards, callVars, historyVars
<1>2. /\ pc[p] = "load" /\ pc[p] \in Holding /\ disk.root = "locked"
      /\ disk \in Journals /\ WellFormed(disk)
  BY <1>1, Recoverable
<1>3. d \in Journals /\ d.pending = NoPending /\ d.root = disk.root /\ SamePublished(d, disk)
  BY <1>2, DiscardType
<1> HIDE DEF d
<1>4. DiskType' BY <1>1, <1>3 DEF DiskType
<1>5. Grown(disk, d) BY <1>2, <1>3, SameIsGrown
<1>6. WellFormed(d)
  BY <1>2, <1>3, SameReading DEF WellFormed, SamePublished, NoPending
<1>7. ASSUME NEW j, j = d PROVE Image(j)' BY <1>1, <1>6, <1>7 DEF Image, Linked
<1>8. ViewType' BY <1>1 DEF IInv, ViewType
<1>9. Goto(p, "load") BY <1>1, <1>2 DEF Goto, IInv, CallType
<1>10. Progress(p)'
  BY <1>1, <1>2 DEF Progress, WritingProgress, Attempting, DecidingProgress
<1>11. disk \in surviving BY DiskImage
<1>12. "load" \in Holding BY DEF Holding
<1> QED BY <1>1, <1>2, <1>3, <1>4, <1>5, <1>7, <1>8, <1>9, <1>10, <1>11, <1>12, HolderWriteKeeps

LEMMA LoadConfirmsKeeps == ASSUME IInv, NEW p \in Proc, LoadConfirms(p) PROVE IInv'
<1>1. PICK recheck \in Levels, start \in Levels :
        opts' = [opts EXCEPT ![p] = [mode |-> "resume", recheck |-> recheck, start |-> start]]
  BY DEF LoadConfirms
<1> DEFINE o == [mode |-> "resume", recheck |-> recheck, start |-> start]
<1>2. /\ Recovering(p) /\ ChainAgrees(disk) /\ disk.pending = NoPending
      /\ disk' = disk /\ surviving' = {disk} /\ Narrow /\ pc' = [pc EXCEPT ![p] = "decide"]
      /\ UNCHANGED <<lock, marker, report, obsVars, posts, witness, attested, job>>
  BY SyncIsNarrow DEF LoadConfirms, Sync, historyVars
<1>3. o \in Options BY DEF Options
<1>4. pc'[p] = "decide" BY <1>2 DEF IInv, CallType
<1>5. Progress(p)'
  BY <1>2, <1>4 DEF Progress, WritingProgress, Attempting, DecidingProgress
<1>6. pc[p] \in Holding /\ "decide" \in Holding BY <1>2, Recoverable DEF Holding
<1>7. ViewType' BY <1>2, QuietViewType DEF IInv
<1>8. marker' = [marker EXCEPT ![p] = marker[p]] /\ marker[p] \in Markers
  BY <1>2 DEF IInv, CallType
<1> QED BY <1>1, <1>2, <1>3, <1>5, <1>6, <1>7, <1>8, HolderKeeps

-----------------------------------------------------------------------------
(* Decisions.                                                              *)

LEMMA Decided ==
  ASSUME IInv, NEW p \in Proc, pc[p] \in {"decide", "append"}
  PROVE  /\ pc[p] \in Holding /\ disk.root = "locked" /\ disk \in Journals /\ disk \in surviving
         /\ disk.pending = NoPending /\ ChainAgrees(disk) /\ disk.scratch
         /\ pc[p] = "decide" => surviving = {disk}
         /\ "recheck" \in Requests /\ "start" \in Requests
<1>1. pc[p] \in Holding BY DEF Holding
<1>2. disk.root = "locked" BY <1>1, Alone
<1>3. disk.pending = NoPending /\ ChainAgrees(disk) /\ (pc[p] = "decide" => surviving = {disk})
  BY DEF IInv, Progress, DecidingProgress
<1>4. disk.scratch BY <1>3, Reading
<1> QED BY <1>1, <1>2, <1>3, <1>4, DiskImage DEF Requests

\* An attempt beyond the recorded ones sent nothing.
LEMMA NewAttempt ==
  ASSUME IInv, NEW r \in Requests, disk[r] < MaxAttempts
  PROVE  disk[r] + 1 \in Attempts /\ posts[<<r, disk[r] + 1>>] = 0
<1>1. disk \in Journals /\ disk \in surviving BY DiskImage
<1>2. disk[r] \in AttemptCounts BY <1>1, Fields DEF Requests
<1>3. disk[r] + 1 \in Attempts BY <1>2, Counts
<1>4. posts[<<r, disk[r] + 1>>] \in Nat BY <1>3 DEF IInv, PostType
<1>7. disk[r] \in Nat BY <1>2, Counts
<1>5. ~(disk[r] >= disk[r] + 1) BY <1>7
<1>6. ~(posts[<<r, disk[r] + 1>>] > 0) BY <1>1, <1>3, <1>5 DEF IInv, RequestsAreRecorded
<1> QED BY <1>3, <1>4, <1>6

LEMMA AppendKeeps ==
  ASSUME IInv, NEW p \in Proc, pc[p] \in {"decide", "append"}, NEW r \in Requests,
         AppendAttempt(p, r), UNCHANGED <<disk, surviving, posts, attested, job>>,
         r = "recheck" => disk.checking = 0 /\ disk.checked = 0 /\ ~IsStart,
         r = "start" => disk.started = 0 /\ StartReviewed(disk),
         disk[r] = 0 \/ opts[p][r] = "repeat"
  PROVE  IInv'
<1>1. CASE disk[r] < MaxAttempts /\ WriteMarker(p, r, disk[r] + 1, "request", "stage")
           /\ UNCHANGED <<lock, obsVars, witness>>
  <2>1. disk[r] + 1 \in Attempts /\ posts[<<r, disk[r] + 1>>] = 0 BY <1>1, NewAttempt
  <2>2. disk[r] + 1 \in AttemptCounts BY <2>1, Counts
  <2>3. r \in Destinations /\ "request" \in Continuations BY DEF Destinations, Continuations
  <2>4. Fits(disk, r, disk[r] + 1)
    BY Decided DEF Fits, Requests, IsStart
  <2>5. ViewType' BY <1>1, QuietViewType DEF IInv
  <2>6. r \notin Evidence /\ r # "intent" BY DEF Requests, Evidence
  <2>7. disk[r] + 1 = 1 \/ opts[p][r] = "repeat" OBVIOUS
  <2> QED BY <1>1, <2>1, <2>2, <2>3, <2>4, <2>5, <2>6, <2>7, Decided, PlanKeeps
<1>2. CASE Return(p, "stopped") BY <1>2, StopKeeps
<1> QED BY <1>1, <1>2 DEF AppendAttempt

LEMMA DecideOutOfDateKeeps == ASSUME IInv, NEW p \in Proc, DecideOutOfDate(p) PROVE IInv'
BY StopKeeps DEF DecideOutOfDate, Finish

\* What an invocation reports it read from a journal that is durable.
LEMMA ReportKeeps ==
  ASSUME IInv, NEW p \in Proc, pc[p] = "decide", NEW o \in Reports, Finish(p, o),
         o \in Evidence => disk[o] # 0
  PROVE  IInv'
BY Decided, FinishKeeps DEF Finish

LEMMA ReportNames ==
  /\ \A o \in {"stopped", "unknown"} : o \in Reports /\ o \notin Evidence
  /\ \A o \in Evidence : o \in Reports
  /\ Evidence = {"checking", "checked", "started"}
BY DEF Reports, Evidence

LEMMA DecideSettledKeeps == ASSUME IInv, NEW p \in Proc, DecideSettled(p) PROVE IInv'
<1>1. pc[p] = "decide" /\ disk.started # 0 BY DEF DecideSettled, Deciding
<1>2. CASE Finish(p, "started") BY <1>1, <1>2, ReportKeeps, ReportNames
<1>3. CASE Finish(p, "stopped") BY <1>1, <1>3, ReportKeeps, ReportNames
<1> QED BY <1>2, <1>3 DEF DecideSettled

LEMMA DecideCheckedKeeps == ASSUME IInv, NEW p \in Proc, DecideChecked(p) PROVE IInv'
<1>1. pc[p] = "decide" /\ disk.checked # 0 BY DEF DecideChecked, Deciding
<1>2. CASE Finish(p, "checked") BY <1>1, <1>2, ReportKeeps, ReportNames
<1>3. CASE Finish(p, "stopped") BY <1>1, <1>3, ReportKeeps, ReportNames
<1> QED BY <1>2, <1>3 DEF DecideChecked

\* Evidence is recorded for the last attempt of its kind.
LEMMA EvidenceKeeps ==
  ASSUME IInv, NEW p \in Proc, pc[p] \in Holding, disk.root = "locked", disk.scratch,
         disk.pending = NoPending, NEW d \in Evidence, NEW n \in AttemptCounts,
         NEW t \in {d, "append"}, WriteMarker(p, d, n, t, "stage"),
         UNCHANGED <<disk, surviving, lock, posts>>, ViewType', Fits(disk, d, n),
         t = "append" => d = "checked" /\ disk.action = "recheck_then_start" /\ disk.start = 0
  PROVE  IInv'
<1>1. d \in Destinations /\ d \notin Requests /\ d # "intent" /\ t \in Continuations
  BY DEF Destinations, Requests, Evidence, Continuations
<1> QED BY <1>1, PlanKeeps

LEMMA RecordKeeps ==
  ASSUME IInv, NEW p \in Proc, pc[p] = "decide", NEW d \in Evidence, NEW n \in AttemptCounts,
         NEW t \in {d, "append"}, Record(p, d, n, t), Fits(disk, d, n),
         t = "append" => d = "checked" /\ disk.action = "recheck_then_start" /\ disk.start = 0
  PROVE  IInv'
<1>1. ViewType' BY QuietViewType DEF IInv, Record, historyVars
<1> QED BY <1>1, Decided, EvidenceKeeps DEF Record, diskVars, historyVars

LEMMA StartingMeans ==
  ASSUME NEW p \in Proc, Starting(p)
  PROVE  /\ pc[p] = "decide" /\ disk.started = 0 /\ StartReviewed(disk)
         /\ ~IsStart => disk.checked # 0
BY DEF Starting, Deciding, StartReviewed, IsStart

LEMMA DecideStartedKeeps == ASSUME IInv, NEW p \in Proc, DecideStarted(p) PROVE IInv'
<1>1. pc[p] = "decide" /\ disk.started = 0 BY StartingMeans DEF DecideStarted
<1>2. CASE disk.start > 0 /\ Record(p, "started", disk.start, "started")
  <2>1. disk.start \in AttemptCounts BY <1>1, Decided, Fields
  <2>2. Fits(disk, "started", disk.start) BY <1>1, <1>2, <2>1, Decided, Counts DEF Fits
  <2> QED BY <1>1, <1>2, <2>1, <2>2, RecordKeeps, ReportNames
<1>3. CASE Finish(p, "stopped") BY <1>1, <1>3, ReportKeeps, ReportNames
<1> QED BY <1>2, <1>3 DEF DecideStarted

LEMMA DecideStartAgainKeeps == ASSUME IInv, NEW p \in Proc, DecideStartAgain(p) PROVE IInv'
<1>1. pc[p] = "decide" /\ disk.started = 0 /\ StartReviewed(disk)
  BY StartingMeans DEF DecideStartAgain
<1>2. CASE opts[p].start = "repeat" /\ AppendAttempt(p, "start")
           /\ UNCHANGED <<disk, surviving, posts, attested, job>>
  BY <1>1, <1>2, Decided, AppendKeeps
<1>3. CASE Finish(p, "unknown") BY <1>1, <1>3, ReportKeeps, ReportNames
<1> QED BY <1>2, <1>3 DEF DecideStartAgain

LEMMA DecideFirstStartKeeps == ASSUME IInv, NEW p \in Proc, DecideFirstStart(p) PROVE IInv'
<1>1. /\ pc[p] = "decide" /\ disk.started = 0 /\ StartReviewed(disk) /\ disk.start = 0
      /\ ~IsStart => disk.checked # 0
  BY StartingMeans DEF DecideFirstStart
<1>2. CASE AppendAttempt(p, "start") /\ UNCHANGED <<disk, surviving, posts, attested, job>>
  BY <1>1, <1>2, Decided, AppendKeeps
<1>3. CASE Finish(p, "stopped") BY <1>1, <1>3, ReportKeeps, ReportNames
<1>4. CASE ~IsStart /\ Finish(p, "checked") BY <1>1, <1>4, ReportKeeps, ReportNames
<1> QED BY <1>2, <1>3, <1>4 DEF DecideFirstStart

LEMMA DecideCheckingKeeps == ASSUME IInv, NEW p \in Proc, DecideChecking(p) PROVE IInv'
<1> DEFINE t == IF disk.action = "recheck_then_start" /\ opts[p].start # "none"
                THEN "append" ELSE "checked"
<1>1. pc[p] = "decide" /\ disk.checked = 0 /\ disk.checking # 0 /\ ~IsStart
  BY DEF DecideChecking, Rechecking, Deciding
<1>2. CASE Finish(p, "checking") BY <1>1, <1>2, ReportKeeps, ReportNames
<1>3. CASE Record(p, "checked", disk.recheck, t)
  <2>1. disk.recheck \in AttemptCounts /\ disk.start \in AttemptCounts BY <1>1, Decided, Fields
  <2>2. disk.recheck # 0 /\ (disk.action = "recheck_then_start" => disk.start = 0)
    <3>1. disk.checking \in {0, disk.recheck} /\ (disk.start > 0 => StartReviewed(disk))
      BY <1>1, Decided, Reading
    <3>2. ~StartReviewed(disk) BY <1>1 DEF StartReviewed, IsStart
    <3>3. disk.start \in Nat BY <2>1, Counts
    <3> QED BY <1>1, <3>1, <3>2, <3>3
  <2>3. Fits(disk, "checked", disk.recheck) BY <1>1, <2>2, Decided DEF Fits
  <2>4. t \in {"checked", "append"} /\ (t = "append" => disk.action = "recheck_then_start") OBVIOUS
  <2> HIDE DEF t
  <2> QED BY <1>1, <1>3, <2>1, <2>2, <2>3, <2>4, RecordKeeps, ReportNames
<1>4. CASE Finish(p, "stopped") BY <1>1, <1>4, ReportKeeps, ReportNames
<1> QED BY <1>2, <1>3, <1>4 DEF DecideChecking

LEMMA DecideRecheckAgainKeeps == ASSUME IInv, NEW p \in Proc, DecideRecheckAgain(p) PROVE IInv'
<1>1. /\ pc[p] = "decide" /\ disk.checked = 0 /\ disk.checking = 0 /\ ~IsStart /\ disk.recheck > 0
  BY DEF DecideRecheckAgain, Rechecking, Deciding
<1>2. CASE Record(p, "checking", disk.recheck, "checking")
  <2>1. disk.recheck \in AttemptCounts BY <1>1, Decided, Fields
  <2>2. Fits(disk, "checking", disk.recheck) BY <1>1, <2>1, Decided, Counts DEF Fits
  <2> QED BY <1>1, <1>2, <2>1, <2>2, RecordKeeps, ReportNames
<1>3. CASE opts[p].recheck = "repeat" /\ AppendAttempt(p, "recheck")
           /\ UNCHANGED <<disk, surviving, posts, attested, job>>
  BY <1>1, <1>3, Decided, AppendKeeps
<1>4. CASE Finish(p, "unknown") \/ Finish(p, "stopped")
  BY <1>1, <1>4, ReportKeeps, ReportNames
<1> QED BY <1>2, <1>3, <1>4 DEF DecideRecheckAgain

LEMMA DecideFirstRecheckKeeps == ASSUME IInv, NEW p \in Proc, DecideFirstRecheck(p) PROVE IInv'
<1>1. /\ pc[p] = "decide" /\ disk.checked = 0 /\ disk.checking = 0 /\ ~IsStart /\ disk.recheck = 0
  BY DEF DecideFirstRecheck, Rechecking, Deciding
<1>2. CASE AppendAttempt(p, "recheck") /\ UNCHANGED <<disk, surviving, posts, attested, job>>
  BY <1>1, <1>2, Decided, AppendKeeps
<1>3. CASE Finish(p, "stopped") BY <1>1, <1>3, ReportKeeps, ReportNames
<1> QED BY <1>2, <1>3 DEF DecideFirstRecheck

LEMMA AppendStartKeeps == ASSUME IInv, NEW p \in Proc, AppendStart(p) PROVE IInv'
<1>1. pc[p] = "append" BY DEF AppendStart
<1>2. disk.checked # 0 /\ disk.action = "recheck_then_start" /\ disk.start = 0
  BY <1>1 DEF IInv, Progress, DecidingProgress
<1>3. disk.started = 0 /\ StartReviewed(disk) BY <1>1, <1>2, Decided, Reading DEF StartReviewed
<1> QED BY <1>1, <1>2, <1>3, Decided, AppendKeeps DEF AppendStart

-----------------------------------------------------------------------------
(* Requests, the client and failures.                                      *)

LEMMA SendRequestKeeps == ASSUME IInv, NEW p \in Proc, SendRequest(p) PROVE IInv'
<1> DEFINE r == marker[p].dest
           n == disk[marker[p].dest]
<1>1. /\ pc[p] = "request" /\ posts' = [posts EXCEPT ![<<r, n>>] = @ + 1] /\ Goto(p, "probe")
      /\ UNCHANGED <<disk, surviving, lock, marker, obsVars, witness, attested, job>>
  BY DEF SendRequest, diskVars
<1>2. /\ surviving = {disk} /\ r \in Requests /\ Landed(r, marker[p].seq)
      /\ marker[p].seq \in Attempts /\ posts[<<r, marker[p].seq>>] = 0
  BY <1>1 DEF IInv, Progress, DecidingProgress, Attempting
<1>3. n = marker[p].seq /\ ChainAgrees(disk) BY <1>2 DEF Landed, Requests
<1>4. pc[p] \in Holding /\ "probe" \in Holding BY <1>1 DEF Holding
<1>5. disk.root = "locked" /\ lock = p /\ \A q \in Proc \ {p} : pc[q] \notin Holding /\ pc[q] # "newlock"
  BY <1>4, Alone
<1> HIDE DEF r, n
<1>6. n \in Attempts /\ n \in Nat /\ posts[<<r, n>>] = 0 BY <1>2, <1>3 DEF Attempts
<1>7. posts \in [Requests \X Attempts -> Nat] BY DEF IInv, PostType
<1>8. <<r, n>> \in Requests \X Attempts BY <1>2, <1>6
<1>9. posts'[<<r, n>>] = 1 /\ posts' \in [Requests \X Attempts -> Nat]
  BY <1>1, <1>6, <1>7, <1>8
<1>10. ASSUME NEW s \in Requests, NEW i \in Attempts, <<s, i>> # <<r, n>>
       PROVE posts'[<<s, i>>] = posts[<<s, i>>]
  BY <1>1, <1>7, <1>10
<1>11. disk[r] >= n BY <1>3, <1>6 DEF r, n
<1>12. r = "start" => StartReviewed(disk)
  <2>1. ASSUME r = "start" PROVE disk.start > 0
    BY <1>3, <1>6, <2>1, MaxAttemptsAssumption DEF n, r, Attempts
  <2> QED BY <1>3, <2>1, Reading
<1>13. RequestsAreRecorded'
  <2>1. ASSUME NEW s \in Requests, NEW i \in Attempts
        PROVE  /\ posts'[<<s, i>>] <= 1
               /\ posts'[<<s, i>>] > 0 =>
                    \A j \in surviving : j[s] >= i /\ (s = "start" => StartReviewed(j))
    <3>1. CASE <<s, i>> = <<r, n>> BY <1>2, <1>9, <1>11, <1>12, <3>1
    <3>2. CASE <<s, i>> # <<r, n>> BY <1>10, <3>2 DEF IInv, RequestsAreRecorded
    <3> QED BY <3>1, <3>2
  <2> QED BY <1>1, <2>1 DEF RequestsAreRecorded
<1>14. DiskType' /\ ViewType' /\ PostType'
  BY <1>1, <1>9, QuietViewType DEF IInv, DiskType, PostType
<1>15. Reported' BY <1>1, QuietIsNarrow, SameReportKeeps DEF Goto
<1>16. ASSUME NEW j \in surviving PROVE Image(j)' BY <1>1 DEF IInv, Image, Linked
<1>17. pc'[p] = "probe" /\ \A q \in Proc \ {p} :
         pc'[q] = pc[q] /\ opts'[q] = opts[q] /\ marker'[q] = marker[q]
  BY <1>1 DEF Goto, IInv, CallType
<1>18. CallType' BY <1>1, <1>4, <1>17 DEF Goto, IInv, CallType
<1>19. Exclusion' BY <1>1, <1>5, <1>17 DEF Exclusion
<1>20. Progress(p)'
  <2>1. ASSUME NEW a, NEW k, a = r, k = marker[p].seq PROVE Landed(a, k)'
    BY <1>1, <1>2, <2>1 DEF Landed
  <2>2. Landed(marker[p].dest, marker[p].seq)' /\ marker'[p].dest \in Requests
    BY <1>1, <1>2, <2>1 DEF r
  <2> QED BY <1>17, <2>2 DEF Progress, WritingProgress, Attempting, DecidingProgress
<1> QED BY <1>1, <1>5, <1>13, <1>14, <1>15, <1>16, <1>17, <1>18, <1>19, <1>20, StepKeeps

LEMMA ProbeKeeps == ASSUME IInv, NEW p \in Proc, Probe(p) PROVE IInv'
<1> DEFINE n == disk[marker[p].dest]
<1>1. pc[p] = "probe" /\ UNCHANGED <<disk, surviving, posts, attested, job>> BY DEF Probe
<1>2. marker[p].dest \in Requests /\ Landed(marker[p].dest, marker[p].seq)
  BY <1>1 DEF IInv, Progress, DecidingProgress
<1>3. pc[p] \in Holding BY <1>1 DEF Holding
<1>4. disk.root = "locked" /\ disk \in Journals BY <1>3, Alone, DiskImage
<1>5. disk.pending = NoPending /\ ChainAgrees(disk) /\ disk.scratch
  BY <1>2, Reading DEF Landed
<1>6. n \in AttemptCounts /\ n # 0 BY <1>2, <1>4, Fields DEF Landed, Requests
<1>7. CASE Return(p, "unknown") BY <1>1, <1>7, StopKeeps
<1>8. ASSUME NEW d \in Evidence, d = "started" => marker[p].dest = "start",
             d # "started" => marker[p].dest # "start",
             WriteMarker(p, d, n, d, "stage"), Observe(p), UNCHANGED lock
      PROVE  IInv'
  <2>1. ViewType' BY <1>1, <1>8, ObserveType DEF IInv
  <2>2. d # "started" => marker[p].dest = "recheck" BY <1>2, <1>8 DEF Requests
  <2>3. Fits(disk, d, n) BY <1>2, <1>5, <1>6, <1>8, <2>2 DEF Fits, Landed, Evidence
  <2>4. d # "append" BY DEF Evidence
  <2> HIDE DEF n
  <2> QED BY <1>1, <1>3, <1>4, <1>5, <1>6, <1>8, <2>1, <2>3, <2>4, EvidenceKeeps
<1>9. \/ Return(p, "unknown")
      \/ \E d \in Evidence : /\ d = "started" => marker[p].dest = "start"
                             /\ d # "started" => marker[p].dest # "start"
                             /\ WriteMarker(p, d, n, d, "stage") /\ Observe(p) /\ UNCHANGED lock
  BY DEF Probe, Evidence
<1> QED BY <1>7, <1>8, <1>9

LEMMA AbortKeeps == ASSUME IInv, NEW p \in Proc, Abort(p) PROVE IInv'
BY StopKeeps DEF Abort, Finish

LEMMA JobChangesKeeps == ASSUME IInv, JobChanges PROVE IInv'
<1>1. UNCHANGED <<disk, surviving, lock, pc, opts, marker, report, seen, later, outdated, overtaken, posts>>
  BY DEF JobChanges, diskVars, callVars, obsVars
<1>2. ViewType' BY <1>1 DEF IInv, ViewType, JobChanges
<1>3. DiskType' /\ CallType' /\ PostType' /\ RequestsAreRecorded' /\ Reported' /\ Exclusion'
  BY <1>1 DEF IInv, DiskType, CallType, PostType, RequestsAreRecorded, Reported,
              ReportsAreDurable, Exclusion
<1>4. ASSUME NEW j \in surviving PROVE Image(j)' BY <1>1 DEF IInv, Image, Linked
<1>5. ASSUME NEW p \in Proc PROVE Progress(p)'
  BY <1>1 DEF IInv, Progress, WritingProgress, Attempting, DecidingProgress, Purpose, Landed
<1> QED BY <1>1, <1>2, <1>3, <1>4, <1>5 DEF IInv

LEMMA PowerLossKeeps == ASSUME IInv, PowerLoss PROVE IInv'
<1>1. PICK j \in surviving : disk' = j /\ surviving' = {j} BY DEF PowerLoss
<1>2. j \in Journals /\ WellFormed(j) BY DEF IInv, DiskType, Image
<1>3. /\ pc' = [p \in Proc |-> "idle"] /\ opts' = [p \in Proc |-> NoOptions]
      /\ marker' = [p \in Proc |-> NoMarker] /\ lock' = Nobody /\ report' = "stopped"
      /\ UNCHANGED <<posts, attested, job>>
  BY DEF PowerLoss
<1>4. DiskType' BY <1>1, <1>2 DEF DiskType
<1>5. CallType' BY <1>3, DefaultTypes, NobodyAssumption DEF CallType
<1>6. ViewType' BY DEF PowerLoss, IInv, ViewType
<1>7. PostType' /\ RequestsAreRecorded'
  BY <1>1, <1>3 DEF IInv, PostType, RequestsAreRecorded
<1>8. Reported' BY <1>3, ReportNames DEF Reported, ReportsAreDurable
<1>9. ASSUME NEW k, k = j PROVE Image(k)' BY <1>1, <1>2, <1>9 DEF Image, Linked
<1>10. \A p \in Proc : pc'[p] = "idle" BY <1>3
<1>11. Exclusion' BY <1>10, DefaultTypes DEF Exclusion
<1>12. ASSUME NEW p \in Proc PROVE Progress(p)'
  BY <1>10 DEF Progress, WritingProgress, Attempting, DecidingProgress
<1> QED BY <1>1, <1>4, <1>5, <1>6, <1>7, <1>8, <1>9, <1>11, <1>12 DEF IInv

-----------------------------------------------------------------------------
(* The invariant.                                                          *)

LEMMA InitKeeps == ASSUME Init PROVE IInv
<1>1. PICK action \in Actions : disk = NoJournal(action) /\ surviving = {NoJournal(action)}
  BY DEF Init
<1>2. disk \in Journals BY <1>1, Counts DEF NoJournal, Journals
<1>3. /\ disk.root = "none" /\ disk.scratch = FALSE /\ disk.pending = NoPending
      /\ disk.intent = FALSE /\ disk.recheck = 0 /\ disk.checking = 0 /\ disk.checked = 0
      /\ disk.start = 0 /\ disk.started = 0
  BY <1>1 DEF NoJournal
<1>4. DiskType BY <1>1, <1>2 DEF DiskType
<1>5. CallType BY DefaultTypes, NobodyAssumption DEF Init, CallType
<1>6. ViewType BY DEF Init, ViewType
<1>7. PostType /\ RequestsAreRecorded
  BY DEF Init, PostType, RequestsAreRecorded
<1>8. Reported BY ReportNames DEF Init, Reported, ReportsAreDurable
<1>9. WellFormed(disk) BY <1>3, Reading DEF WellFormed, NoPending
<1>10. Linked(disk) BY DEF Linked
<1>11. \A j \in surviving : Image(j) BY <1>1, <1>9, <1>10 DEF Image
<1>12. \A p \in Proc : pc[p] = "idle" BY DEF Init
<1>13. Exclusion BY <1>12, DefaultTypes DEF Exclusion
<1>14. \A p \in Proc : Progress(p)
  BY <1>12 DEF Progress, WritingProgress, Attempting, DecidingProgress
<1> QED BY <1>4, <1>5, <1>6, <1>7, <1>8, <1>11, <1>13, <1>14 DEF IInv

LEMMA StutterKeeps == ASSUME IInv, UNCHANGED vars PROVE IInv'
<1>1. UNCHANGED <<disk, surviving, lock, pc, opts, marker, report, job, seen, later, outdated,
                  overtaken, posts, witness, attested>>
  BY DEF vars, diskVars, callVars, obsVars, historyVars
<1>2. DiskType' /\ CallType' /\ PostType' /\ ViewType' /\ RequestsAreRecorded' /\ Reported' /\ Exclusion'
  BY <1>1 DEF IInv, DiskType, CallType, PostType, ViewType, RequestsAreRecorded, Reported,
              ReportsAreDurable, Exclusion
<1>3. ASSUME NEW j \in surviving PROVE Image(j)' BY <1>1 DEF IInv, Image, Linked
<1>4. ASSUME NEW p \in Proc PROVE Progress(p)'
  BY <1>1 DEF IInv, Progress, WritingProgress, Attempting, DecidingProgress, Purpose, Landed
<1> QED BY <1>1, <1>2, <1>3, <1>4 DEF IInv

LEMMA InvocationKeeps == ASSUME IInv, NEW p \in Proc, Invocation(p) PROVE IInv'
BY RunSurveysKeeps, MakeRootKeeps, MakeLockKeeps, MakeScratchKeeps, StageMarkerKeeps,
   CommitMarkerKeeps, ConfirmMarkerKeeps, OpenKeeps, ReadJournalKeeps, ObserveUnlockedKeeps,
   ObserveLockedKeeps, LoadRefusesKeeps, LoadInitializesKeeps, LoadRepublishesKeeps,
   LoadDiscardsKeeps, LoadConfirmsKeeps, DecideOutOfDateKeeps, DecideSettledKeeps,
   DecideStartedKeeps, DecideStartAgainKeeps, DecideFirstStartKeeps, DecideCheckedKeeps,
   DecideCheckingKeeps, DecideRecheckAgainKeeps, DecideFirstRecheckKeeps, AppendStartKeeps,
   SendRequestKeeps, ProbeKeeps DEF Invocation

LEMMA NextKeeps == ASSUME IInv, [Next]_vars PROVE IInv'
<1>1. CASE \E p \in Proc : StartRun(p) \/ StartResume(p) \/ StartStatus(p) BY <1>1, StartKeeps
<1>2. CASE \E p \in Proc : Invocation(p) BY <1>2, InvocationKeeps
<1>3. CASE \E p \in Proc : Abort(p) BY <1>3, AbortKeeps
<1>4. CASE JobChanges BY <1>4, JobChangesKeeps
<1>5. CASE PowerLoss BY <1>5, PowerLossKeeps
<1>6. CASE UNCHANGED vars BY <1>6, StutterKeeps
<1> QED BY <1>1, <1>2, <1>3, <1>4, <1>5, <1>6 DEF Next

\* The inductive invariant holds in every reachable state.
THEOREM InvariantHolds == Spec => []IInv
<1>1. Init => IInv BY InitKeeps
<1>2. IInv /\ [Next]_vars => IInv' BY NextKeeps
<1> QED BY <1>1, <1>2, PTL DEF Spec

\* Every reachable state of an activation is type correct.
THEOREM ActivateTypeCorrect == Spec => []TypeOK
<1>1. IInv => TypeOK BY TypeParts
<1> QED BY <1>1, InvariantHolds, PTL

\* However many invocations run, crash and resume, every recheck and every start
\* the client was ever sent is covered by an attempt marker that no power loss
\* can take back, one attempt sends one request, and no start was sent before
\* the check it needs was durably complete (appendAttempt precedes
\* executeAction in performRecheck and performStart).
THEOREM RequestsRecorded == Spec => []RequestsAreRecorded
<1>1. IInv => RequestsAreRecorded BY DEF IInv
<1> QED BY <1>1, InvariantHolds, PTL

-----------------------------------------------------------------------------
(* Crash safety.                                                           *)

LEMMA TearingFollows == IInv => OnlyTornStagingBlocks
<1> SUFFICES ASSUME IInv, NEW j \in surviving, ~Resumable(j),
                    j.root \notin {"none", "bare"}, j.pending.dest = "none" \/ j.pending.whole
             PROVE FALSE
  BY DEF OnlyTornStagingBlocks
<1>1. j \in Journals /\ WellFormed(j) BY DEF IInv, DiskType, Image
<1>2. j.root = "locked" BY <1>1, Fields
<1>3. Uninitialized(j) \/ ChainAgrees(j)
  BY <1>1 DEF WellFormed, Uninitialized, NoPending, Fits
<1>4. j.pending = NoPending \/ PendingAccepted(j)
  <2>1. CASE j.pending.dest = "none" BY <1>1, <2>1 DEF WellFormed
  <2>2. CASE j.pending.dest # "none"
    <3>1. j.pending.whole = TRUE /\ Fits(j, j.pending.dest, j.pending.seq)
      BY <1>1, <2>2 DEF WellFormed
    <3>2. j.pending.dest \in Destinations BY <1>1, <2>2, Fields
    <3>3. j.recheck \in Nat /\ j.start \in Nat BY <1>1, Fields, Counts
    <3> QED BY <3>1, <3>2, <3>3, Kinds DEF PendingAccepted, Fits, Requests, Evidence, Named
  <2> QED BY <2>1, <2>2
<1> QED BY <1>2, <1>3, <1>4 DEF Resumable

\* What an invocation reported of the check or the start no power loss takes
\* back, and in every image only a missing lock file or torn staging keeps
\* resume from advancing the operation (openJournal, recoverPending).
THEOREM ActivateIsCrashSafe == Spec => []CrashSafe
<1>1. IInv => CrashSafe BY TearingFollows DEF IInv, Reported, CrashSafe
<1> QED BY <1>1, InvariantHolds, PTL

-----------------------------------------------------------------------------
(* Rechecks and starts keep the promises of EffectLedger.                  *)

\* The evidence that settles each kind of request.
Settling(r, j) ==
  \/ r = "recheck" /\ (Holds(j, "checking") \/ Holds(j, "checked"))
  \/ r = "start" /\ Holds(j, "started")

SettledEverywhere(r) == \A j \in surviving : Settling(r, j)

Performed(r) == {i \in Attempts : posts[<<r, i>>] > 0}

\* A step of the ledger of r, or none.
Promised(r) ==
  \/ Durable(r)' = Durable(r) /\ Performed(r)' = Performed(r)
       /\ (SettledEverywhere(r)' <=> SettledEverywhere(r))
  \/ /\ ~SettledEverywhere(r) /\ Durable(r) < MaxAttempts
     /\ Durable(r)' = Durable(r) + 1 /\ Performed(r)' = Performed(r)
     /\ ~SettledEverywhere(r)'
  \/ /\ ~SettledEverywhere(r) /\ Durable(r) > 0 /\ Durable(r) \notin Performed(r)
     /\ Performed(r)' = Performed(r) \cup {Durable(r)} /\ Durable(r)' = Durable(r)
     /\ ~SettledEverywhere(r)'
  \/ /\ ~SettledEverywhere(r) /\ Durable(r) > 0
     /\ SettledEverywhere(r)' /\ Durable(r)' = Durable(r) /\ Performed(r)' = Performed(r)

\* The attempts that every image of S has, when some image has no more.
LEMMA LeastAttempts ==
  ASSUME NEW S, NEW r, NEW n \in AttemptCounts, \E j \in S : j[r] = n, \A j \in S : j[r] >= n
  PROVE  (CHOOSE k \in AttemptCounts : (\E j \in S : j[r] = k) /\ (\A j \in S : j[r] >= k)) = n
<1>1. \A k \in AttemptCounts : (\E j \in S : j[r] = k) /\ (\A j \in S : j[r] >= k) => k = n
  BY Counts
<1> QED BY <1>1

\* The images and the visible journal, by the kind of request.
LEMMA LinkedBy ==
  ASSUME IInv, NEW r \in Requests, NEW j \in surviving
  PROVE  /\ j \in Journals /\ j[r] \in AttemptCounts /\ j[r] \in Nat
         /\ disk \in surviving /\ disk[r] \in AttemptCounts /\ disk[r] \in Nat
         /\ j[r] = disk[r] \/ j[r] + 1 = disk[r]
         /\ Settling(r, j) => Settling(r, disk)
         /\ Settling(r, disk) => disk[r] > 0 /\ j[r] = disk[r]
<1>1. /\ j \in Journals /\ disk \in Journals /\ disk \in surviving
      /\ WellFormed(disk) /\ Linked(j)
  BY DEF IInv, DiskType, Image
<1>2. j[r] \in AttemptCounts /\ disk[r] \in AttemptCounts BY <1>1, Fields DEF Requests
<1>3. j[r] \in Nat /\ disk[r] \in Nat BY <1>2, Counts
<1>4. j[r] = disk[r] \/ j[r] + 1 = disk[r] BY <1>1 DEF Linked, Requests
<1>5. Settling(r, j) => Settling(r, disk) BY <1>1 DEF Linked, Settling, Evidence
<1>6. ASSUME Settling(r, disk) PROVE disk[r] # 0 /\ j[r] = disk[r]
  <2>1. disk.pending.dest # "none" => Fits(disk, disk.pending.dest, disk.pending.seq)
    BY <1>1 DEF WellFormed
  <2>2. disk.checking # 0 \/ disk.checked # 0 \/ disk.started # 0 => ChainAgrees(disk)
    BY <1>1, Reading DEF WellFormed
  <2>3. CASE r = "recheck"
    <3>1. disk.recheck # 0 BY <1>6, <2>1, <2>2, <2>3, Reading DEF Settling, Holds, Fits
    <3>2. disk.pending # NoPending \/ disk.checking # 0 \/ disk.checked # 0
      BY <1>6, <2>3 DEF Settling, Holds, NoPending
    <3> QED BY <1>1, <2>3, <3>1, <3>2 DEF Linked
  <2>4. CASE r = "start"
    <3>1. disk.start # 0 BY <1>6, <2>1, <2>2, <2>4, Reading DEF Settling, Holds, Fits
    <3>2. disk.pending # NoPending \/ disk.started # 0
      BY <1>6, <2>4 DEF Settling, Holds, NoPending
    <3> QED BY <1>1, <2>4, <3>1, <3>2 DEF Linked
  <2> QED BY <2>3, <2>4 DEF Requests
<1> QED BY <1>1, <1>2, <1>3, <1>4, <1>5, <1>6

\* A power loss takes back the newest attempt at most, and none once an image
\* holds evidence of it.
LEMMA DurableNow ==
  ASSUME IInv, NEW r \in Requests
  PROVE  /\ Durable(r) \in AttemptCounts /\ Durable(r) \in Nat
         /\ \A j \in surviving : j[r] \in {Durable(r), Durable(r) + 1}
         /\ \E j \in surviving : j[r] = Durable(r)
         /\ \A k \in surviving : Settling(r, k) => Durable(r) > 0 /\ k[r] = Durable(r)
<1>1. disk \in surviving /\ disk[r] \in AttemptCounts /\ disk[r] \in Nat
  BY DiskImage, LinkedBy
<1>2. CASE \A j \in surviving : j[r] = disk[r]
  <2>1. Durable(r) = disk[r] BY <1>1, <1>2, LeastAttempts DEF Durable
  <2>2. ASSUME NEW k \in surviving, Settling(r, k) PROVE Durable(r) > 0 /\ k[r] = Durable(r)
    BY <1>2, <2>1, <2>2, LinkedBy
  <2> QED BY <1>1, <1>2, <2>1, <2>2
<1>3. ASSUME NEW k \in surviving, k[r] # disk[r]
      PROVE  /\ Durable(r) \in AttemptCounts /\ Durable(r) \in Nat
             /\ \A j \in surviving : j[r] \in {Durable(r), Durable(r) + 1}
             /\ \E j \in surviving : j[r] = Durable(r)
             /\ \A i \in surviving : ~Settling(r, i)
  <2>1. k[r] \in AttemptCounts /\ k[r] \in Nat /\ k[r] + 1 = disk[r] BY <1>3, LinkedBy
  <2>2. ASSUME NEW j \in surviving PROVE j[r] \in {k[r], k[r] + 1} /\ j[r] >= k[r]
    BY <1>1, <2>1, LinkedBy
  <2>3. Durable(r) = k[r] BY <2>1, <2>2, LeastAttempts DEF Durable
  <2>4. \A i \in surviving : ~Settling(r, i) BY <1>3, LinkedBy
  <2> QED BY <2>1, <2>2, <2>3, <2>4
<1> QED BY <1>2, <1>3

\* The images stay, and no request is sent.
LEMMA QuietSteps ==
  ASSUME NEW r, UNCHANGED <<surviving, posts>> PROVE Promised(r)
<1>1. Durable(r)' = Durable(r) BY DEF Durable
<1>2. Performed(r)' = Performed(r) BY DEF Performed
<1>3. SettledEverywhere(r)' <=> SettledEverywhere(r) BY DEF SettledEverywhere
<1> QED BY <1>1, <1>2, <1>3 DEF Promised

\* A sync, a recovery or a power loss leaves what one image k holds.
LEMMA OneImageSteps ==
  ASSUME IInv, NEW r \in Requests, NEW k \in surviving, UNCHANGED posts,
         \E j \in surviving' : j[r] = k[r], \A j \in surviving' : j[r] >= k[r],
         SettledEverywhere(r)' <=> Settling(r, k)
  PROVE  Promised(r)
<1>1. k[r] \in AttemptCounts /\ k[r] \in Nat BY LinkedBy
<1>2. Durable(r)' = k[r] BY <1>1, LeastAttempts DEF Durable
<1>3. /\ Durable(r) \in AttemptCounts /\ Durable(r) \in Nat /\ k[r] \in {Durable(r), Durable(r) + 1}
      /\ Settling(r, k) => Durable(r) > 0 /\ k[r] = Durable(r)
  BY DurableNow
<1>4. Performed(r)' = Performed(r) BY DEF Performed
<1>5. SettledEverywhere(r) => Settling(r, k) BY DEF SettledEverywhere
<1>6. k[r] = Durable(r) + 1 => Durable(r) < MaxAttempts
  BY <1>1, <1>3, MaxAttemptsAssumption DEF AttemptCounts
<1>7. CASE Settling(r, k)
  <2>1. Durable(r)' = Durable(r) /\ Durable(r) > 0 /\ SettledEverywhere(r)' BY <1>2, <1>3, <1>7
  <2>2. CASE SettledEverywhere(r) BY <1>4, <2>1, <2>2 DEF Promised
  <2>3. CASE ~SettledEverywhere(r) BY <1>4, <2>1, <2>3 DEF Promised
  <2> QED BY <2>2, <2>3
<1>8. CASE ~Settling(r, k)
  <2>1. ~SettledEverywhere(r) /\ ~SettledEverywhere(r)' BY <1>5, <1>8
  <2>2. CASE k[r] = Durable(r) BY <1>2, <1>4, <2>1, <2>2 DEF Promised
  <2>3. CASE k[r] = Durable(r) + 1 BY <1>2, <1>4, <1>6, <2>1, <2>3 DEF Promised
  <2> QED BY <1>3, <2>2, <2>3
<1> QED BY <1>7, <1>8

\* A write adds an image that holds what the visible journal holds.
LEMMA WriteSteps ==
  ASSUME IInv, NEW r \in Requests, NEW d, surviving' = surviving \cup {d}, UNCHANGED posts,
         d[r] >= disk[r], d[r] \in Nat, Settling(r, disk) => Settling(r, d)
  PROVE  Promised(r)
<1>1. /\ Durable(r) \in AttemptCounts /\ Durable(r) \in Nat
      /\ \A j \in surviving : j[r] \in {Durable(r), Durable(r) + 1}
      /\ \E j \in surviving : j[r] = Durable(r)
  BY DurableNow
<1>2. disk \in surviving BY DiskImage
<1>3. d[r] >= Durable(r)
  <2>1. disk[r] >= Durable(r) /\ disk[r] \in Nat BY <1>1, <1>2
  <2> QED BY <1>1, <2>1
<1>4. \A j \in surviving' : j[r] >= Durable(r) BY <1>1, <1>3
<1>5. Durable(r)' = Durable(r)
  <2>1. \E j \in surviving' : j[r] = Durable(r) BY <1>1
  <2> QED BY <1>1, <1>4, <2>1, LeastAttempts DEF Durable
<1>6. Performed(r)' = Performed(r) BY DEF Performed
<1>7. SettledEverywhere(r)' <=> SettledEverywhere(r) BY <1>2 DEF SettledEverywhere
<1> QED BY <1>5, <1>6, <1>7 DEF Promised

\* What an image with the same published markers and no less staged settles.
LEMMA SameSettling ==
  ASSUME NEW r \in Requests, NEW j, NEW k, SamePublished(j, k),
         k.pending = NoPending \/ k.pending.dest \in Requests \/ k.pending = j.pending
  PROVE  j[r] = k[r] /\ (Settling(r, k) => Settling(r, j))
<1>1. j[r] = k[r] BY DEF SamePublished, Requests
<1>2. \A d \in Evidence : Holds(k, d) => Holds(j, d)
  BY DEF SamePublished, Holds, NoPending, Evidence, Requests
<1> QED BY <1>1, <1>2 DEF Settling, Evidence

LEMMA FreshSteps ==
  ASSUME IInv, NEW p \in Proc, NEW r \in Requests, MakeRoot(p) \/ MakeLock(p) \/ MakeScratch(p)
  PROVE  Promised(r)
<1>1. disk \in Journals /\ disk \in surviving /\ disk[r] \in Nat BY DiskImage, LinkedBy
<1>2. ASSUME NEW d, SamePublished(d, disk) \/ d = [disk EXCEPT !.scratch = TRUE],
             d.pending = disk.pending
      PROVE  /\ d[r] = disk[r] /\ (Settling(r, disk) <=> Settling(r, d))
             /\ surviving' = surviving \cup {d} /\ UNCHANGED posts => Promised(r)
  <2>1. /\ d.recheck = disk.recheck /\ d.start = disk.start
        /\ \A e \in Evidence : d[e] = disk[e]
    BY <1>1, <1>2 DEF SamePublished, Journals, Evidence
  <2>2. d[r] = disk[r] BY <2>1 DEF Requests
  <2>3. Settling(r, disk) <=> Settling(r, d)
    BY <1>2, <2>1 DEF Settling, Holds, Evidence
  <2>4. d[r] >= disk[r] /\ d[r] \in Nat BY <1>1, <2>2
  <2> QED BY <2>2, <2>3, <2>4, WriteSteps
<1>3. CASE MakeRoot(p)
  <2>1. CASE UNCHANGED surviving BY <1>3, <2>1, QuietSteps DEF MakeRoot
  <2>2. CASE ~UNCHANGED surviving
    <3> DEFINE d == [disk EXCEPT !.root = "bare"]
    <3>1. surviving' = surviving \cup {d} /\ UNCHANGED posts BY <1>3, <2>2 DEF MakeRoot, Write
    <3>2. SamePublished(d, disk) /\ d.pending = disk.pending BY <1>1 DEF SamePublished, Journals
    <3> HIDE DEF d
    <3> QED BY <1>2, <3>1, <3>2
  <2> QED BY <2>1, <2>2
<1>4. CASE MakeScratch(p)
  <2> DEFINE d == [disk EXCEPT !.scratch = TRUE]
  <2>1. surviving' = surviving \cup {d} /\ UNCHANGED posts
    BY <1>4 DEF MakeScratch, Write, historyVars
  <2>2. d.pending = disk.pending BY <1>1 DEF Journals
  <2> QED BY <1>2, <2>1, <2>2
<1>5. CASE MakeLock(p)
  <2> DEFINE d == [disk EXCEPT !.root = "locked"]
  <2>1. surviving' = {disk, d} /\ UNCHANGED posts
    BY <1>5 DEF MakeLock, SyncThenWrite, historyVars
  <2>2. SamePublished(d, disk) /\ d.pending = disk.pending BY <1>1 DEF SamePublished, Journals
  <2> HIDE DEF d
  <2>3. d[r] = disk[r] /\ (Settling(r, disk) <=> Settling(r, d)) BY <1>2, <2>2
  <2>4. SettledEverywhere(r)' <=> Settling(r, disk) BY <2>1, <2>3 DEF SettledEverywhere
  <2>5. \A j \in surviving' : j[r] >= disk[r] BY <1>1, <2>1, <2>3
  <2> QED BY <1>1, <2>1, <2>4, <2>5, OneImageSteps
<1> QED BY <1>3, <1>4, <1>5

LEMMA StageSteps ==
  ASSUME IInv, NEW p \in Proc, NEW r \in Requests, StageMarker(p) PROVE Promised(r)
<1>1. PICK whole \in BOOLEAN :
        SyncThenWrite(Stage(disk, marker[p].dest, marker[p].seq, whole))
  BY DEF StageMarker
<1> DEFINE d == Stage(disk, marker[p].dest, marker[p].seq, whole)
<1>2. disk.pending = NoPending /\ UNCHANGED posts BY DEF StageMarker
<1>3. disk \in Journals /\ disk \in surviving /\ disk[r] \in Nat BY DiskImage, LinkedBy
<1>4. marker[p].dest \in Destinations /\ marker[p].seq \in AttemptCounts
  BY DEF IInv, CallType, Markers
<1>5. SamePublished(d, disk) BY <1>3, <1>4, StageType
<1>6. surviving' = {disk, d} BY <1>1 DEF SyncThenWrite
<1> HIDE DEF d
<1>7. d[r] = disk[r] /\ (Settling(r, disk) => Settling(r, d)) BY <1>2, <1>5, SameSettling
<1>8. SettledEverywhere(r)' <=> Settling(r, disk) BY <1>6, <1>7 DEF SettledEverywhere
<1>9. \A j \in surviving' : j[r] >= disk[r] BY <1>3, <1>6, <1>7
<1> QED BY <1>2, <1>3, <1>6, <1>8, <1>9, OneImageSteps

LEMMA CommitSteps ==
  ASSUME IInv, NEW p \in Proc, NEW r \in Requests, CommitMarker(p) PROVE Promised(r)
<1> DEFINE d == Commit(disk)
<1>1. pc[p] = "commit" /\ surviving' = surviving \cup {d} /\ UNCHANGED posts
  BY DEF CommitMarker, Write
<1>2. disk.pending.dest = marker[p].dest /\ marker[p].dest # "none"
  <2>1. disk.pending = [dest |-> marker[p].dest, seq |-> marker[p].seq, whole |-> TRUE]
    BY <1>1 DEF IInv, Progress, WritingProgress
  <2> QED BY <2>1, Kinds DEF IInv, CallType, Markers
<1>3. d \in Journals /\ Grown(disk, d) /\ \A e \in Evidence : Holds(disk, e) => Holds(d, e)
  BY <1>2, CommitImage
<1> HIDE DEF d
<1>4. disk \in Journals /\ disk \in surviving /\ disk[r] \in Nat BY DiskImage, LinkedBy
<1>5. d[r] \in Nat
  <2>1. d[r] \in AttemptCounts BY <1>3, Fields DEF Requests
  <2> QED BY <2>1, Counts
<1>6. d[r] >= disk[r] BY <1>3, <1>4, <1>5 DEF Grown, Requests
<1>7. Settling(r, disk) => Settling(r, d) BY <1>3 DEF Settling, Evidence
<1> QED BY <1>1, <1>5, <1>6, <1>7, WriteSteps

LEMMA SyncSteps ==
  ASSUME IInv, NEW r \in Requests, NEW k \in surviving, surviving' = {k}, UNCHANGED posts
  PROVE  Promised(r)
<1>1. k[r] \in Nat BY LinkedBy
<1>2. SettledEverywhere(r)' <=> Settling(r, k) BY DEF SettledEverywhere
<1>3. \A j \in surviving' : j[r] >= k[r] BY <1>1
<1> QED BY <1>2, <1>3, OneImageSteps

LEMMA DiscardSteps ==
  ASSUME IInv, NEW p \in Proc, NEW r \in Requests, LoadDiscards(p) PROVE Promised(r)
<1> DEFINE d == Discard(disk)
<1>1. disk.pending.dest \in Requests /\ surviving' = {d} /\ UNCHANGED posts
  BY DEF LoadDiscards, historyVars
<1>2. disk \in Journals /\ disk \in surviving /\ disk[r] \in Nat BY DiskImage, LinkedBy
<1>3. SamePublished(d, disk) /\ d.pending = NoPending BY <1>2, DiscardType
<1> HIDE DEF d
<1>4. d[r] = disk[r] /\ (Settling(r, disk) => Settling(r, d)) BY <1>1, <1>3, SameSettling
<1>5. SamePublished(disk, d) BY <1>3 DEF SamePublished
<1>6. Settling(r, d) => Settling(r, disk) BY <1>3, <1>5, SameSettling
<1>7. SettledEverywhere(r)' <=> Settling(r, disk) BY <1>1, <1>4, <1>6 DEF SettledEverywhere
<1>8. \A j \in surviving' : j[r] >= disk[r] BY <1>1, <1>2, <1>4
<1>9. \E j \in surviving' : j[r] = disk[r] BY <1>1, <1>4
<1> QED BY <1>1, <1>2, <1>7, <1>8, <1>9, OneImageSteps

\* A request performs the newest authorisation of its kind and no other.
LEMMA SendSteps ==
  ASSUME IInv, NEW p \in Proc, NEW r \in Requests, SendRequest(p) PROVE Promised(r)
<1> DEFINE s == marker[p].dest
           n == disk[marker[p].dest]
<1>1. pc[p] = "request" /\ posts' = [posts EXCEPT ![<<s, n>>] = @ + 1] /\ UNCHANGED surviving
  BY DEF SendRequest, diskVars
<1>2. /\ surviving = {disk} /\ s \in Requests /\ Landed(s, marker[p].seq)
      /\ marker[p].seq \in Attempts /\ posts[<<s, marker[p].seq>>] = 0
  BY <1>1 DEF IInv, Progress, DecidingProgress, Attempting
<1>3. n = marker[p].seq /\ disk.pending = NoPending BY <1>2 DEF Landed, Requests
<1>4. ~Settling(s, disk) BY <1>2, <1>3 DEF Settling, Holds, Landed, NoPending
<1>5. n = disk[s] OBVIOUS
<1> HIDE DEF s, n
<1>6. n \in Attempts /\ n \in Nat /\ n > 0 /\ posts[<<s, n>>] = 0 BY <1>2, <1>3 DEF Attempts
<1>7. posts \in [Requests \X Attempts -> Nat] BY DEF IInv, PostType
<1>8. Durable(r)' = Durable(r) BY <1>1 DEF Durable
<1>9. SettledEverywhere(r)' <=> SettledEverywhere(r) BY <1>1 DEF SettledEverywhere
<1>10. CASE r # s
  <2>1. \A i \in Attempts : posts'[<<r, i>>] = posts[<<r, i>>]
    BY <1>1, <1>2, <1>6, <1>7, <1>10
  <2>2. Performed(r)' = Performed(r) BY <2>1 DEF Performed
  <2> QED BY <1>8, <1>9, <2>2 DEF Promised
<1>11. CASE r = s
  <2>1. ~SettledEverywhere(r) BY <1>2, <1>4, <1>11 DEF SettledEverywhere
  <2>2. Durable(r) = n
    <3>1. n \in AttemptCounts BY <1>6, Counts
    <3>2. (\E j \in surviving : j[r] = n) /\ \A j \in surviving : j[r] >= n
      BY <1>2, <1>5, <1>6, <1>11
    <3> QED BY <3>1, <3>2, LeastAttempts DEF Durable
  <2>3. n \notin Performed(r) BY <1>6, <1>11 DEF Performed
  <2>4. posts'[<<r, n>>] = 1 /\ \A i \in Attempts \ {n} : posts'[<<r, i>>] = posts[<<r, i>>]
    <3>1. posts' = [posts EXCEPT ![<<r, n>>] = @ + 1] /\ <<r, n>> \in Requests \X Attempts
      BY <1>1, <1>2, <1>6, <1>11
    <3>2. posts'[<<r, n>>] = posts[<<r, n>>] + 1 /\ posts[<<r, n>>] = 0
      BY <3>1, <1>6, <1>7, <1>11
    <3>3. ASSUME NEW i \in Attempts \ {n} PROVE posts'[<<r, i>>] = posts[<<r, i>>]
      <4>1. <<r, i>> \in Requests \X Attempts /\ <<r, i>> # <<r, n>> OBVIOUS
      <4> QED BY <3>1, <4>1, <1>7
    <3> QED BY <3>2, <3>3
  <2>5. Performed(r)' = Performed(r) \cup {n}
    <3>1. ASSUME NEW i \in Attempts
          PROVE  posts'[<<r, i>>] > 0 <=> posts[<<r, i>>] > 0 \/ i = n
      <4>1. CASE i = n BY <2>4, <4>1
      <4>2. CASE i # n BY <2>4, <4>2
      <4> QED BY <4>1, <4>2
    <3> QED BY <1>6, <3>1 DEF Performed
  <2> QED BY <1>6, <1>8, <1>9, <2>1, <2>2, <2>3, <2>5 DEF Promised
<1> QED BY <1>10, <1>11

LEMMA InvocationSteps ==
  ASSUME IInv, NEW p \in Proc, NEW r \in Requests, Invocation(p) PROVE Promised(r)
<1>1. disk \in surviving BY DiskImage
<1>2. CASE MakeRoot(p) \/ MakeLock(p) \/ MakeScratch(p) \/ StageMarker(p) \/ CommitMarker(p)
  BY <1>2, FreshSteps, StageSteps, CommitSteps
<1>3. CASE LoadDiscards(p) \/ SendRequest(p)
  BY <1>3, DiscardSteps, SendSteps
<1>4. CASE ConfirmMarker(p) \/ LoadConfirms(p)
  BY <1>1, <1>4, SyncSteps DEF ConfirmMarker, LoadConfirms, Sync, historyVars
<1>5. CASE RunSurveys(p) \/ OpenToRead(p) \/ Reopen(p) \/ ReadJournal(p) \/ ObserveUnlocked(p)
           \/ ObserveLocked(p) \/ LoadRefuses(p) \/ LoadInitializes(p) \/ LoadRepublishes(p)
  BY <1>5, QuietSteps DEF RunSurveys, OpenToRead, Reopen, TakeLock, ReadJournal, ObserveUnlocked,
     ObserveLocked, LoadRefuses, LoadInitializes, LoadRepublishes, diskVars, historyVars
<1>6. CASE DecideOutOfDate(p) \/ DecideSettled(p) \/ DecideStarted(p) \/ DecideStartAgain(p)
           \/ DecideFirstStart(p) \/ DecideChecked(p)
  BY <1>6, QuietSteps DEF DecideOutOfDate, DecideSettled, DecideStarted, DecideStartAgain,
     DecideFirstStart, DecideChecked, Finish, Record, diskVars, historyVars
<1>7. CASE DecideChecking(p) \/ DecideRecheckAgain(p) \/ DecideFirstRecheck(p)
           \/ AppendStart(p) \/ Probe(p)
  BY <1>7, QuietSteps DEF DecideChecking, DecideRecheckAgain, DecideFirstRecheck, AppendStart,
     Probe, Finish, Record, diskVars, historyVars
<1> QED BY <1>2, <1>3, <1>4, <1>5, <1>6, <1>7 DEF Invocation

LEMMA LedgerSteps == ASSUME IInv, [Next]_vars, NEW r \in Requests PROVE Promised(r)
<1>1. CASE \E p \in Proc : StartRun(p) \/ StartResume(p) \/ StartStatus(p)
  BY <1>1, QuietSteps DEF StartRun, StartResume, StartStatus, Begin, diskVars, historyVars
<1>2. CASE \E p \in Proc : Invocation(p) BY <1>2, InvocationSteps
<1>3. CASE \E p \in Proc : Abort(p) BY <1>3, QuietSteps DEF Abort, Finish
<1>4. CASE JobChanges BY <1>4, QuietSteps DEF JobChanges, diskVars
<1>5. CASE PowerLoss
  <2>1. PICK j \in surviving : surviving' = {j} BY <1>5 DEF PowerLoss
  <2> QED BY <1>5, <2>1, SyncSteps DEF PowerLoss
<1>6. CASE UNCHANGED vars BY <1>6, QuietSteps DEF vars, diskVars, historyVars
<1> QED BY <1>1, <1>2, <1>3, <1>4, <1>5, <1>6 DEF Next

LEMMA LedgerInit ==
  ASSUME Init, NEW r \in Requests
  PROVE  Durable(r) = 0 /\ Performed(r) = {} /\ ~SettledEverywhere(r)
<1>1. PICK action \in Actions : surviving = {NoJournal(action)} BY DEF Init
<1>2. NoJournal(action)[r] = 0 /\ ~Settling(r, NoJournal(action))
  BY DEF NoJournal, Settling, Holds, NoPending, Requests
<1>3. Durable(r) = 0 BY <1>1, <1>2, Counts, LeastAttempts DEF Durable
<1>4. Performed(r) = {} BY DEF Init, Performed
<1> QED BY <1>1, <1>2, <1>3, <1>4 DEF SettledEverywhere

\* Promised, as a step of the two instances of EffectLedger.
LEMMA RecheckSteps == ASSUME Promised("recheck") PROVE [Rechecks!Next]_(Rechecks!vars)
<1> DEFINE S == \A j \in surviving : Holds(j, "checking") \/ Holds(j, "checked")
           D == Durable("recheck")
           P == {i \in Attempts : posts[<<"recheck", i>>] > 0}
<1>1. P = Performed("recheck") /\ P' = Performed("recheck")' BY DEF Performed
<1>2. (S <=> SettledEverywhere("recheck")) /\ (S' <=> SettledEverywhere("recheck")')
  BY DEF SettledEverywhere, Settling
<1>3. \/ D' = D /\ P' = P /\ (S' <=> S)
      \/ ~S /\ D < MaxAttempts /\ D' = D + 1 /\ P' = P /\ ~S'
      \/ ~S /\ D > 0 /\ D \notin P /\ P' = P \cup {D} /\ D' = D /\ ~S'
      \/ ~S /\ D > 0 /\ S' /\ D' = D /\ P' = P
  BY <1>1, <1>2, Zenon DEF Promised
<1>4. (S' <=> S) => S' = S BY Zenon
<1>5. ~S /\ ~S' => S' = S BY Zenon
<1>6. S' => S' = TRUE BY Zenon
<1> QED BY <1>3, <1>4, <1>5, <1>6, Zenon
        DEF Rechecks!Next, Rechecks!vars, Rechecks!Authorise, Rechecks!Perform, Rechecks!Settle

LEMMA StartSteps == ASSUME Promised("start") PROVE [Starts!Next]_(Starts!vars)
<1> DEFINE S == \A j \in surviving : Holds(j, "started")
           D == Durable("start")
           P == {i \in Attempts : posts[<<"start", i>>] > 0}
<1>1. P = Performed("start") /\ P' = Performed("start")' BY DEF Performed
<1>2. (S <=> SettledEverywhere("start")) /\ (S' <=> SettledEverywhere("start")')
  BY DEF SettledEverywhere, Settling
<1>3. \/ D' = D /\ P' = P /\ (S' <=> S)
      \/ ~S /\ D < MaxAttempts /\ D' = D + 1 /\ P' = P /\ ~S'
      \/ ~S /\ D > 0 /\ D \notin P /\ P' = P \cup {D} /\ D' = D /\ ~S'
      \/ ~S /\ D > 0 /\ S' /\ D' = D /\ P' = P
  BY <1>1, <1>2, Zenon DEF Promised
<1>4. (S' <=> S) => S' = S BY Zenon
<1>5. ~S /\ ~S' => S' = S BY Zenon
<1>6. S' => S' = TRUE BY Zenon
<1> QED BY <1>3, <1>4, <1>5, <1>6, Zenon
        DEF Starts!Next, Starts!vars, Starts!Authorise, Starts!Perform, Starts!Settle

LEMMA LedgersInit == ASSUME Init PROVE Rechecks!Init /\ Starts!Init
<1>1. "recheck" \in Requests /\ "start" \in Requests BY DEF Requests
<1>2. Durable("recheck") = 0 /\ Durable("start") = 0 BY <1>1, LedgerInit
<1>3. /\ {i \in Attempts : posts[<<"recheck", i>>] > 0} = {}
      /\ {i \in Attempts : posts[<<"start", i>>] > 0} = {}
  BY <1>1, LedgerInit DEF Performed
<1>4. /\ ~(\A j \in surviving : Holds(j, "checking") \/ Holds(j, "checked"))
      /\ ~(\A j \in surviving : Holds(j, "started"))
  BY <1>1, LedgerInit DEF SettledEverywhere, Settling
<1>5. /\ (\A j \in surviving : Holds(j, "checking") \/ Holds(j, "checked")) = FALSE
      /\ (\A j \in surviving : Holds(j, "started")) = FALSE
  BY <1>4, Zenon
<1> QED BY <1>2, <1>3, <1>5, Zenon DEF Rechecks!Init, Starts!Init

\* A further request is sent only by an invocation that was told to repeat it.
LEMMA RepeatSteps ==
  ASSUME IInv, [Next]_vars, NEW r \in Requests, Sent(r), NEW i \in Attempts, posts[<<r, i>>] > 0
  PROVE  \E p \in Proc : pc[p] = "request" /\ opts[p][r] = "repeat"
<1>1. posts' # posts BY DEF Sent, IInv, PostType
<1>2. ASSUME NEW p \in Proc, Invocation(p) PROVE SendRequest(p)
  <2>1. ASSUME MakeRoot(p) \/ MakeLock(p) \/ MakeScratch(p) \/ StageMarker(p) \/ CommitMarker(p)
               \/ LoadDiscards(p) \/ ConfirmMarker(p) \/ LoadConfirms(p)
        PROVE FALSE
    BY <1>1, <2>1 DEF MakeRoot, MakeLock, MakeScratch, StageMarker, CommitMarker, LoadDiscards,
       ConfirmMarker, LoadConfirms, historyVars
  <2>2. ASSUME \/ RunSurveys(p) \/ OpenToRead(p) \/ Reopen(p) \/ ReadJournal(p) \/ ObserveUnlocked(p)
               \/ ObserveLocked(p) \/ LoadRefuses(p) \/ LoadInitializes(p) \/ LoadRepublishes(p)
        PROVE FALSE
    BY <1>1, <2>2 DEF RunSurveys, OpenToRead, Reopen, TakeLock, ReadJournal, ObserveUnlocked,
       ObserveLocked, LoadRefuses, LoadInitializes, LoadRepublishes, historyVars
  <2>3. ASSUME \/ DecideOutOfDate(p) \/ DecideSettled(p) \/ DecideStarted(p) \/ DecideStartAgain(p)
               \/ DecideFirstStart(p) \/ DecideChecked(p)
        PROVE FALSE
    BY <1>1, <2>3 DEF DecideOutOfDate, DecideSettled, DecideStarted, DecideStartAgain,
       DecideFirstStart, DecideChecked, Finish, Record, historyVars
  <2>4. ASSUME \/ DecideChecking(p) \/ DecideRecheckAgain(p) \/ DecideFirstRecheck(p)
               \/ AppendStart(p) \/ Probe(p)
        PROVE FALSE
    BY <1>1, <2>4 DEF DecideChecking, DecideRecheckAgain, DecideFirstRecheck, AppendStart, Probe,
       Finish, Record, historyVars
  <2> QED BY <1>2, <2>1, <2>2, <2>3, <2>4 DEF Invocation
<1>3. PICK p \in Proc : SendRequest(p)
  <2>1. ASSUME NEW p \in Proc, StartRun(p) \/ StartResume(p) \/ StartStatus(p) PROVE FALSE
    BY <1>1, <2>1 DEF StartRun, StartResume, StartStatus, Begin, historyVars
  <2>2. ASSUME NEW p \in Proc, Abort(p) PROVE FALSE BY <1>1, <2>2 DEF Abort, Finish
  <2>3. ASSUME JobChanges \/ PowerLoss \/ UNCHANGED vars PROVE FALSE
    BY <1>1, <2>3 DEF JobChanges, PowerLoss, vars, historyVars
  <2> QED BY <1>2, <2>1, <2>2, <2>3 DEF Next
<1> DEFINE s == marker[p].dest
           n == disk[marker[p].dest]
<1>4. pc[p] = "request" /\ posts' = [posts EXCEPT ![<<s, n>>] = @ + 1] BY <1>3 DEF SendRequest
<1>5. /\ surviving = {disk} /\ s \in Requests /\ Landed(s, marker[p].seq)
      /\ marker[p].seq \in Attempts /\ posts[<<s, marker[p].seq>>] = 0
      /\ marker[p].seq = 1 \/ opts[p][s] = "repeat"
  BY <1>4 DEF IInv, Progress, DecidingProgress, Attempting
<1>6. n = marker[p].seq BY <1>5 DEF Landed, Requests
<1>7. n = disk[s] OBVIOUS
<1> HIDE DEF s, n
<1>8. r = s
  <2>1. PICK k \in Attempts : posts'[<<r, k>>] > posts[<<r, k>>] BY DEF Sent
  <2>2. posts[<<r, k>>] \in Nat /\ posts \in [Requests \X Attempts -> Nat] BY DEF IInv, PostType
  <2>3. CASE r # s
    <3>1. <<r, k>> # <<s, n>> BY <2>3
    <3>2. posts'[<<r, k>>] = posts[<<r, k>>] BY <1>4, <2>2, <3>1
    <3> QED BY <2>1, <2>2, <3>2
  <2> QED BY <2>3
<1>9. n >= i /\ n # i
  BY <1>5, <1>6, <1>7, <1>8 DEF IInv, RequestsAreRecorded
<1>10. i \in Nat /\ i > 0 BY DEF Attempts
<1>11. n # 1 BY <1>5, <1>6, <1>9, <1>10 DEF Attempts
<1> QED BY <1>4, <1>5, <1>6, <1>8, <1>11

\* Rechecks and starts each keep the promises of EffectLedger through every
\* crash, recovery and power loss (appendAttempt, executeAction,
\* recoverPending): an attempt is durable before its one request, durable
\* evidence of its result ends a kind of request for good, and a further one
\* needs the repeat acknowledgement of its own kind.
THEOREM ActivateKeepsLedgers == Spec => ActionLedgers
<1>1. "recheck" \in Requests /\ "start" \in Requests BY DEF Requests
<1>2. Init => Rechecks!Init /\ Starts!Init BY LedgersInit
<1>3. IInv /\ [Next]_vars => [Rechecks!Next]_(Rechecks!vars)
  BY <1>1, LedgerSteps, RecheckSteps
<1>4. IInv /\ [Next]_vars => [Starts!Next]_(Starts!vars)
  BY <1>1, LedgerSteps, StartSteps
<1>5. IInv /\ [Next]_vars =>
        [\A r \in Requests : Sent(r) /\ (\E i \in Attempts : posts[<<r, i>>] > 0) =>
           \E p \in Proc : pc[p] = "request" /\ opts[p][r] = "repeat"]_vars
  BY RepeatSteps
<1>6. Spec => Rechecks!Spec
  BY <1>2, <1>3, InvariantHolds, PTL DEF Spec, Rechecks!Spec
<1>7. Spec => Starts!Spec
  BY <1>2, <1>4, InvariantHolds, PTL DEF Spec, Starts!Spec
<1>8. Spec => NoSilentRepeat
  BY <1>5, InvariantHolds, PTL DEF Spec, NoSilentRepeat
<1> QED BY <1>6, <1>7, <1>8 DEF ActionLedgers

-----------------------------------------------------------------------------
(***************************************************************************)
(* The evidence of an activation is as fresh as it claims, for every set   *)
(* of invocations, every attempt budget and every action.  The observation *)
(* times that continueOperation compares order the observations (Ordered); *)
(* what an observation cannot have missed (Witnessed) and what the last    *)
(* recheck attempt names (Attested) follow from that order, and Freshness  *)
(* carries both through the steps of a lock holder.                        *)
(***************************************************************************)

\* Observations are ordered: of any two that are held, one is the newer.
Ordered ==
  \A p, q \in Proc :
    /\ q \in later[p] => q # p /\ seen[p] # "none" /\ seen[q] # "none"
    /\ p # q /\ seen[p] # "none" /\ seen[q] # "none" => q \in later[p] \/ p \in later[q]

\* What q saw of the job has changed since: seen by the job itself, or by
\* somebody who observed it after q.
Witnessed ==
  \A q \in Proc : seen[q] # "none" =>
    /\ job \in {"checking", "full"} /\ job # seen[q] => q \in witness
    /\ \A p \in later[q] : seen[p] = "checking" /\ seen[q] # "checking" => q \in witness

\* Since the observation of the last recheck attempt the job was checked, if
\* it is being checked now or somebody who is not outdated saw it.
Attested ==
  /\ \A j \in surviving : j.recheck # 0 /\ job = "checking" => attested
  /\ \A p \in Proc : seen[p] = "checking" /\ p \notin outdated /\ disk.recheck # 0 => attested
  /\ \A j \in surviving : ClaimsCheck(j) => attested

\* What a lock holder acts on.
Freshness(p) ==
  /\ pc[p] \in {"stage", "commit"} /\ marker[p].dest = "recheck" => seen[p] \in Stopped
  /\ pc[p] \in {"confirm", "request", "probe"} /\ marker[p].dest = "recheck" /\ p \in witness => attested
  /\ pc[p] = "stage" /\ marker[p].dest \in {"checking", "checked"} => attested
  /\ pc[p] = "stage" /\ marker[p].dest # "intent" => p \notin outdated
  /\ pc[p] = "commit" /\ marker[p].dest \in Requests => \A q \in Proc : p \in later[q] => q \in overtaken
  /\ pc[p] = "commit" /\ marker[p].dest # "intent" /\ marker[p].then # "load" => p \notin overtaken
  /\ pc[p] = "confirm" /\ marker[p].dest # "intent" /\ marker[p].then # "load" => p \notin outdated
  /\ pc[p] \in {"append", "request", "probe"} => p \notin outdated

FInv == Ordered /\ Witnessed /\ Attested /\ \A p \in Proc : Freshness(p)

-----------------------------------------------------------------------------
(* Observations.                                                           *)

\* What a step of p does to the observations, attempts and markers apart.
Viewing(p) == Observe(p) \/ Forget(p) \/ UNCHANGED <<obsVars, witness>>

LEMMA ViewKeeps ==
  ASSUME IInv, Ordered, Witnessed, NEW p \in Proc, Viewing(p), UNCHANGED job
  PROVE  Ordered' /\ Witnessed'
<1>0. ViewType /\ job # "none" BY DEF IInv, ViewType, JobStates, Stopped
<1>1. CASE Observe(p)
  <2>1. /\ seen'[p] = job /\ later'[p] = {} /\ UNCHANGED job
        /\ \A q \in Proc \ {p} :
             /\ seen'[q] = seen[q] /\ (q \in witness' <=> q \in witness)
             /\ later'[q] = IF seen[q] = "none" THEN {} ELSE later[q] \cup {p}
    BY <1>0, <1>1 DEF Observe, ViewType
  <2>2. Ordered'
    <3>1. ASSUME NEW q \in Proc, NEW r \in Proc, r \in later'[q]
          PROVE  r # q /\ seen'[q] # "none" /\ seen'[r] # "none"
      <4>1. q # p /\ seen[q] # "none" /\ (r = p \/ r \in later[q]) BY <2>1, <3>1
      <4>2. CASE r = p BY <1>0, <2>1, <4>1, <4>2
      <4>3. CASE r # p BY <2>1, <4>1, <4>3 DEF Ordered
      <4> QED BY <4>2, <4>3
    <3>2. ASSUME NEW q \in Proc, NEW r \in Proc, q # r, seen'[q] # "none", seen'[r] # "none"
          PROVE  r \in later'[q] \/ q \in later'[r]
      BY <2>1, <3>2 DEF Ordered
    <3> QED BY <3>1, <3>2 DEF Ordered
  <2>3. Witnessed'
    <3>1. ASSUME NEW q \in Proc, seen'[q] # "none", job \in {"checking", "full"}, job # seen'[q]
          PROVE  q \in witness'
      BY <2>1, <3>1 DEF Witnessed
    <3>2. ASSUME NEW q \in Proc, seen'[q] # "none", NEW r \in later'[q],
                 seen'[r] = "checking", seen'[q] # "checking"
          PROVE  q \in witness'
      <4>1. q # p /\ r \in Proc /\ (r = p \/ r \in later[q]) /\ seen[q] = seen'[q]
        BY <1>0, <2>1, <3>2 DEF ViewType
      <4>2. CASE r = p BY <2>1, <3>1, <3>2, <4>1, <4>2
      <4>3. CASE r # p BY <2>1, <3>2, <4>1, <4>3 DEF Witnessed
      <4> QED BY <4>2, <4>3
    <3> QED BY <2>1, <3>1, <3>2 DEF Witnessed
  <2> QED BY <2>2, <2>3
<1>2. CASE Forget(p)
  <2>1. /\ seen'[p] = "none" /\ later'[p] = {} /\ UNCHANGED job
        /\ \A q \in Proc \ {p} :
             seen'[q] = seen[q] /\ (q \in witness' <=> q \in witness) /\ later'[q] = later[q] \ {p}
    BY <1>0, <1>2 DEF Forget, ViewType
  <2>2. Ordered'
    <3>1. ASSUME NEW q \in Proc, NEW r \in Proc, r \in later'[q]
          PROVE  r # q /\ seen'[q] # "none" /\ seen'[r] # "none"
      BY <2>1, <3>1 DEF Ordered
    <3>2. ASSUME NEW q \in Proc, NEW r \in Proc, q # r, seen'[q] # "none", seen'[r] # "none"
          PROVE  r \in later'[q] \/ q \in later'[r]
      BY <2>1, <3>2 DEF Ordered
    <3> QED BY <3>1, <3>2 DEF Ordered
  <2>3. Witnessed'
    <3>1. ASSUME NEW q \in Proc, seen'[q] # "none"
          PROVE  /\ job \in {"checking", "full"} /\ job # seen'[q] => q \in witness'
                 /\ \A r \in later'[q] :
                      seen'[r] = "checking" /\ seen'[q] # "checking" => q \in witness'
      <4>1. q # p /\ seen[q] # "none" BY <2>1, <3>1
      <4>2. \A r \in later'[q] : r \in Proc /\ r # p BY <1>0, <2>1, <4>1 DEF ViewType
      <4> QED BY <2>1, <4>1, <4>2 DEF Witnessed
    <3> QED BY <2>1, <3>1 DEF Witnessed
  <2> QED BY <2>2, <2>3
<1>3. CASE UNCHANGED <<obsVars, witness>>
  BY <1>3 DEF obsVars, Ordered, Witnessed
<1> QED BY <1>1, <1>2, <1>3 DEF Viewing

\* Whoever does not act keeps what it knows.
LEMMA OthersKeep ==
  ASSUME IInv, FInv, NEW p \in Proc, Viewing(p), UNCHANGED attested,
         NEW q \in Proc \ {p}, pc'[q] = pc[q], marker'[q] = marker[q]
  PROVE  Freshness(q)'
<1>1. ViewType /\ Freshness(q) BY DEF IInv, FInv
<1>2. /\ seen'[q] = seen[q]
      /\ q \in witness' => q \in witness
      /\ q \in outdated' => q \in outdated
      /\ q \in overtaken' => q \in overtaken
  BY <1>1 DEF Viewing, Observe, Forget, obsVars, ViewType
<1>3. ASSUME \A r \in Proc : q \in later[r] => r \in overtaken,
             NEW r \in Proc, q \in later'[r]
      PROVE  r \in overtaken'
  <2>1. CASE Observe(p) BY <1>1, <1>3, <2>1 DEF Observe, ViewType
  <2>2. CASE Forget(p) BY <1>1, <1>3, <2>2 DEF Forget, ViewType
  <2>3. CASE UNCHANGED <<obsVars, witness>> BY <1>3, <2>3 DEF obsVars
  <2> QED BY <2>1, <2>2, <2>3 DEF Viewing
<1> QED BY <1>1, <1>2, <1>3 DEF Freshness

\* While the last attempt and what is claimed of it stay, so does its attestation.
LEMMA AttestedKeeps ==
  ASSUME IInv, FInv, attested => attested',
         \A j \in surviving' : /\ j.recheck # 0 => \E k \in surviving : k.recheck # 0
                               /\ ClaimsCheck(j) => attested',
         disk'.recheck # 0 => disk.recheck # 0,
         job' = "checking" => job = "checking" \/ attested',
         \A q \in Proc : seen'[q] = "checking" /\ q \notin outdated' =>
                          (seen[q] = "checking" /\ q \notin outdated) \/ job = "checking"
  PROVE  Attested'
<1>1. Attested /\ disk \in surviving BY DiskImage DEF FInv
<1>2. ASSUME NEW j \in surviving', j.recheck # 0, job' = "checking" PROVE attested'
  BY <1>1, <1>2 DEF Attested
<1>3. ASSUME NEW q \in Proc, seen'[q] = "checking", q \notin outdated', disk'.recheck # 0
      PROVE  attested'
  BY <1>1, <1>3 DEF Attested
<1> QED BY <1>2, <1>3 DEF Attested

LEMMA ViewedBy ==
  ASSUME IInv, NEW p \in Proc, Viewing(p), NEW q \in Proc,
         seen'[q] = "checking", q \notin outdated'
  PROVE  (seen[q] = "checking" /\ q \notin outdated) \/ job = "checking"
<1>1. ViewType BY DEF IInv
<1>2. CASE q = p BY <1>1, <1>2 DEF Viewing, Observe, Forget, obsVars, ViewType
<1>3. CASE q # p BY <1>1, <1>3 DEF Viewing, Observe, Forget, obsVars, ViewType
<1> QED BY <1>2, <1>3

\* A step of p that changes no attempt and no claim.
LEMMA StepFresh ==
  ASSUME IInv, FInv, NEW p \in Proc, Viewing(p), UNCHANGED <<job, attested>>,
         \A q \in Proc \ {p} : pc'[q] = pc[q] /\ marker'[q] = marker[q],
         \A j \in surviving' : \E k \in surviving :
            j.recheck = k.recheck /\ (ClaimsCheck(j) => ClaimsCheck(k)),
         disk'.recheck = disk.recheck,
         Freshness(p)'
  PROVE  FInv'
<1>1. Ordered' /\ Witnessed' BY ViewKeeps DEF FInv
<1>2. ASSUME NEW q \in Proc PROVE Freshness(q)' BY OthersKeep
<1>3. \A j \in surviving' : (j.recheck # 0 => \E k \in surviving : k.recheck # 0)
                             /\ (ClaimsCheck(j) => attested')
  BY DEF FInv, Attested
<1>4. Attested'
  <2>1. \A q \in Proc : seen'[q] = "checking" /\ q \notin outdated' =>
                         (seen[q] = "checking" /\ q \notin outdated) \/ job = "checking"
    BY ViewedBy
  <2> QED BY <1>3, <2>1, AttestedKeeps
<1> QED BY <1>1, <1>2, <1>4 DEF FInv

\* Where an invocation has nothing to be fresh about.
Free == (Unlocked \cup Holding) \ {"stage", "commit", "confirm", "append", "request", "probe"}

LEMMA FreeIsFresh == ASSUME NEW p, pc[p] \in Free PROVE Freshness(p)
BY DEF Free, Freshness

LEMMA FreeKeeps ==
  ASSUME IInv, FInv, NEW p \in Proc, NEW step \in Free, pc' = [pc EXCEPT ![p] = step],
         Viewing(p), UNCHANGED <<job, attested>>,
         \A q \in Proc \ {p} : marker'[q] = marker[q],
         \A j \in surviving' : \E k \in surviving :
            j.recheck = k.recheck /\ (ClaimsCheck(j) => ClaimsCheck(k)),
         disk'.recheck = disk.recheck
  PROVE  FInv'
<1>1. pc'[p] = step /\ \A q \in Proc \ {p} : pc'[q] = pc[q] BY DEF IInv, CallType
<1>2. Freshness(p)' BY <1>1 DEF Free, Freshness
<1> QED BY <1>1, <1>2, StepFresh

LEMMA FreeNarrowKeeps ==
  ASSUME IInv, FInv, NEW p \in Proc, NEW step \in Free, pc' = [pc EXCEPT ![p] = step],
         Viewing(p), UNCHANGED <<job, attested>>, Narrow,
         \A q \in Proc \ {p} : marker'[q] = marker[q]
  PROVE  FInv'
BY FreeKeeps DEF Narrow

LEMMA ReturnFresh ==
  ASSUME IInv, FInv, NEW p \in Proc, NEW o, Return(p, o), Narrow, UNCHANGED <<job, attested>>
  PROVE  FInv'
<1>1. "idle" \in Free BY DEF Free, Unlocked
<1>2. \A q \in Proc \ {p} : marker'[q] = marker[q] BY DEF Return, IInv, CallType
<1> QED BY <1>1, <1>2, FreeNarrowKeeps DEF Return, Viewing

LEMMA FinishFresh ==
  ASSUME IInv, FInv, NEW p \in Proc, NEW o, Return(p, o), UNCHANGED <<disk, surviving, job, attested>>
  PROVE  FInv'
BY QuietIsNarrow, ReturnFresh

LEMMA GotoFresh ==
  ASSUME IInv, FInv, NEW p \in Proc, NEW step \in Free, Goto(p, step), Viewing(p),
         UNCHANGED <<disk, surviving, marker, job, attested>>
  PROVE  FInv'
BY QuietIsNarrow, FreeNarrowKeeps DEF Goto

LEMMA FreeSteps ==
  Free = {"idle", "survey", "mkdir", "newlock", "open", "look", "reopen",
          "read", "observe", "load", "scratch", "decide"}
BY DEF Free, Unlocked, Holding

-----------------------------------------------------------------------------
(* Steps that record nothing.                                              *)

LEMMA BeginFresh ==
  ASSUME IInv, FInv, NEW p \in Proc, StartRun(p) \/ StartResume(p) \/ StartStatus(p) PROVE FInv'
<1>1. PICK step \in Free : pc' = [pc EXCEPT ![p] = step]
  BY FreeSteps DEF StartRun, StartResume, StartStatus, Begin
<1>2. UNCHANGED <<disk, surviving, marker, obsVars, witness, job, attested>>
  BY DEF StartRun, StartResume, StartStatus, Begin, diskVars, historyVars
<1> QED BY <1>1, <1>2, QuietIsNarrow, FreeNarrowKeeps DEF Viewing

LEMMA LookingFresh ==
  ASSUME IInv, FInv, NEW p \in Proc,
         \/ RunSurveys(p) \/ OpenToRead(p) \/ Reopen(p) \/ ReadJournal(p)
         \/ ObserveUnlocked(p) \/ ObserveLocked(p) \/ LoadRefuses(p)
  PROVE  FInv'
<1>1. CASE RunSurveys(p)
  BY <1>1, GotoFresh, FinishFresh, FreeSteps DEF RunSurveys, Viewing
<1>2. CASE OpenToRead(p) \/ Reopen(p)
  BY <1>2, GotoFresh, FinishFresh, FreeSteps DEF OpenToRead, Reopen, TakeLock, Viewing
<1>3. CASE ReadJournal(p)
  BY <1>3, GotoFresh, FinishFresh, FreeSteps DEF ReadJournal, Viewing
<1>4. CASE ObserveUnlocked(p)
  BY <1>4, GotoFresh, FinishFresh, FreeSteps DEF ObserveUnlocked, Viewing
<1>5. CASE ObserveLocked(p)
  BY <1>5, GotoFresh, FreeSteps DEF ObserveLocked, Viewing
<1>6. CASE LoadRefuses(p) BY <1>6, FinishFresh DEF LoadRefuses
<1> QED BY <1>1, <1>2, <1>3, <1>4, <1>5, <1>6

LEMMA LoadConfirmsFresh == ASSUME IInv, FInv, NEW p \in Proc, LoadConfirms(p) PROVE FInv'
<1>1. /\ Narrow /\ pc' = [pc EXCEPT ![p] = "decide"]
      /\ UNCHANGED <<marker, obsVars, witness, job, attested>>
  BY SyncIsNarrow DEF LoadConfirms, historyVars
<1> QED BY <1>1, FreeNarrowKeeps, FreeSteps DEF Viewing

LEMMA FinishingFresh == ASSUME IInv, FInv, NEW p \in Proc, NEW o, Finish(p, o) PROVE FInv'
BY FinishFresh DEF Finish

-----------------------------------------------------------------------------
(* Creating the journal.                                                   *)

\* Before a first attempt there is nothing to attest.
LEMMA BlankClaims ==
  ASSUME NEW d, NEW k, d.recheck = k.recheck, d.checking = k.checking, d.checked = k.checked,
         d.pending = k.pending
  PROVE  d.recheck = k.recheck /\ (ClaimsCheck(d) => ClaimsCheck(k))
BY DEF ClaimsCheck

LEMMA MakeRootFresh == ASSUME IInv, FInv, NEW p \in Proc, MakeRoot(p) PROVE FInv'
<1> DEFINE d == [disk EXCEPT !.root = "bare"]
<1>1. CASE disk.root # "none" BY <1>1, FinishFresh DEF MakeRoot
<1>2. CASE disk.root = "none"
  <2>1. /\ disk' = d /\ surviving' = surviving \cup {d} /\ Goto(p, "newlock")
        /\ UNCHANGED <<marker, obsVars, witness, job, attested>>
    BY <1>2 DEF MakeRoot, Write
  <2>2. disk \in Journals /\ disk \in surviving BY DiskImage
  <2>3. /\ d.recheck = disk.recheck /\ d.checking = disk.checking /\ d.checked = disk.checked
        /\ d.pending = disk.pending
    BY <2>2 DEF Journals
  <2> HIDE DEF d
  <2>4. \A j \in surviving' : \E k \in surviving :
          j.recheck = k.recheck /\ (ClaimsCheck(j) => ClaimsCheck(k))
    BY <2>1, <2>2, <2>3, BlankClaims
  <2> QED BY <2>1, <2>3, <2>4, FreeKeeps, FreeSteps DEF Goto, Viewing
<1> QED BY <1>1, <1>2

LEMMA MakeLockFresh == ASSUME IInv, FInv, NEW p \in Proc, MakeLock(p) PROVE FInv'
<1> DEFINE d == [disk EXCEPT !.root = "locked"]
<1>1. /\ disk' = d /\ surviving' = {disk, d} /\ Goto(p, "scratch")
      /\ UNCHANGED <<obsVars, witness, job, attested>>
      /\ \A q \in Proc \ {p} : marker'[q] = marker[q]
  BY DEF MakeLock, SyncThenWrite, WriteMarker, historyVars, IInv, CallType
<1>2. disk \in Journals /\ disk \in surviving BY DiskImage
<1>3. /\ d.recheck = disk.recheck /\ d.checking = disk.checking /\ d.checked = disk.checked
      /\ d.pending = disk.pending
  BY <1>2 DEF Journals
<1> HIDE DEF d
<1>4. \A j \in surviving' : \E k \in surviving :
        j.recheck = k.recheck /\ (ClaimsCheck(j) => ClaimsCheck(k))
  BY <1>1, <1>2, <1>3, BlankClaims
<1> QED BY <1>1, <1>3, <1>4, FreeKeeps, FreeSteps DEF Goto, Viewing

LEMMA MakeScratchFresh == ASSUME IInv, FInv, NEW p \in Proc, MakeScratch(p) PROVE FInv'
<1> DEFINE d == [disk EXCEPT !.scratch = TRUE]
<1>1. /\ pc[p] = "scratch" /\ disk' = d /\ surviving' = surviving \cup {d} /\ Goto(p, "stage")
      /\ UNCHANGED <<marker, obsVars, witness, job, attested>>
  BY DEF MakeScratch, Write, historyVars
<1>2. disk \in Journals /\ disk \in surviving BY DiskImage
<1>3. /\ d.recheck = disk.recheck /\ d.checking = disk.checking /\ d.checked = disk.checked
      /\ d.pending = disk.pending
  BY <1>2 DEF Journals
<1> HIDE DEF d
<1>4. \A j \in surviving' : \E k \in surviving :
        j.recheck = k.recheck /\ (ClaimsCheck(j) => ClaimsCheck(k))
  BY <1>1, <1>2, <1>3, BlankClaims
<1>5. marker[p].dest = "intent" BY <1>1 DEF IInv, Progress, WritingProgress
<1>6. pc'[p] = "stage" /\ marker'[p].dest = "intent"
      /\ \A q \in Proc \ {p} : pc'[q] = pc[q] /\ marker'[q] = marker[q]
  BY <1>1, <1>5 DEF Goto, IInv, CallType
<1>7. Freshness(p)' BY <1>6 DEF Freshness
<1> QED BY <1>1, <1>3, <1>4, <1>6, <1>7, StepFresh DEF Viewing

-----------------------------------------------------------------------------
(* Writing a marker.                                                       *)

\* While p holds the lock nobody else has anything to be fresh about.
LEMMA HolderFresh ==
  ASSUME IInv, NEW p \in Proc, pc[p] \in Holding, \A q \in Proc \ {p} : pc'[q] = pc[q],
         Ordered', Witnessed', Attested', Freshness(p)'
  PROVE  FInv'
<1>1. ASSUME NEW q \in Proc \ {p} PROVE Freshness(q)'
  <2>1. pc'[q] \notin Holding BY Alone
  <2> QED BY <2>1 DEF Freshness, Holding
<1> QED BY <1>1 DEF FInv

\* A lock holder begins to write a marker.
LEMMA PlanFresh ==
  ASSUME IInv, FInv, NEW p \in Proc, NEW d \in Destinations, NEW n, NEW t,
         WriteMarker(p, d, n, t, "stage"), Viewing(p), UNCHANGED <<disk, surviving, job, attested>>,
         d = "recheck" => seen'[p] \in Stopped,
         d \in {"checking", "checked"} => attested,
         p \notin outdated'
  PROVE  FInv'
<1> DEFINE m == [dest |-> d, seq |-> n, then |-> t]
<1>1. marker' = [marker EXCEPT ![p] = m] /\ Goto(p, "stage") /\ m.dest = d BY DEF WriteMarker
<1> HIDE DEF m
<1>2. pc'[p] = "stage" /\ marker'[p].dest = d
      /\ \A q \in Proc \ {p} : pc'[q] = pc[q] /\ marker'[q] = marker[q]
  BY <1>1 DEF Goto, IInv, CallType
<1>3. Freshness(p)' BY <1>2 DEF Freshness
<1> QED BY <1>2, <1>3, StepFresh

\* Recovery begins to publish what was staged.
LEMMA RecoverFresh ==
  ASSUME IInv, FInv, NEW p \in Proc, LoadInitializes(p) \/ LoadRepublishes(p) PROVE FInv'
<1>1. PICK d \in {"intent"} \cup Evidence, n \in {0, disk.pending.seq}, step \in {"commit", "stage", "scratch"} :
        /\ WriteMarker(p, d, n, "load", step)
        /\ d # "intent" => step = "commit"
        /\ UNCHANGED <<disk, surviving, obsVars, witness, job, attested>>
  BY DEF LoadInitializes, LoadRepublishes, diskVars, historyVars
<1> DEFINE m == [dest |-> d, seq |-> n, then |-> "load"]
<1>2. marker' = [marker EXCEPT ![p] = m] /\ Goto(p, step) /\ m.dest = d /\ m.then = "load"
  BY <1>1 DEF WriteMarker
<1> HIDE DEF m
<1>3. /\ pc'[p] = step /\ marker'[p].dest = d /\ marker'[p].then = "load"
      /\ \A q \in Proc \ {p} : pc'[q] = pc[q] /\ marker'[q] = marker[q]
  BY <1>2 DEF Goto, IInv, CallType
<1>4. Freshness(p)' BY <1>1, <1>3 DEF Freshness, Requests, Evidence
<1> QED BY <1>1, <1>3, <1>4, StepFresh DEF Viewing

\* A staged attempt that is removed overtakes nobody.
LEMMA LoadDiscardsFresh == ASSUME IInv, FInv, NEW p \in Proc, LoadDiscards(p) PROVE FInv'
<1> DEFINE d == Discard(disk)
<1>1. /\ Recovering(p) /\ disk' = d /\ surviving' = {d}
      /\ UNCHANGED <<pc, marker, seen, later, outdated, witness, job, attested>>
  BY DEF LoadDiscards, callVars, historyVars
<1>2. disk \in Journals /\ disk \in surviving BY DiskImage
<1>3. SamePublished(d, disk) /\ d.pending = NoPending BY <1>2, DiscardType
<1> HIDE DEF d
<1>4. d.recheck = disk.recheck /\ (ClaimsCheck(d) => ClaimsCheck(disk))
  BY <1>3 DEF SamePublished, ClaimsCheck, NoPending
<1>5. Ordered' /\ Witnessed' BY <1>1 DEF FInv, Ordered, Witnessed
<1>6. Attested'
  <2>1. \A j \in surviving' : (j.recheck # 0 => \E k \in surviving : k.recheck # 0)
                              /\ (ClaimsCheck(j) => attested')
    BY <1>1, <1>2, <1>4 DEF FInv, Attested
  <2> QED BY <1>1, <1>4, <2>1, AttestedKeeps
<1>7. pc[p] = "load" BY <1>1 DEF Recovering
<1>8. Freshness(p)' BY <1>1, <1>7 DEF Freshness
<1>9. pc[p] \in Holding BY <1>7 DEF Holding
<1> QED BY <1>1, <1>5, <1>6, <1>8, <1>9, HolderFresh

LEMMA StageMarkerFresh == ASSUME IInv, FInv, NEW p \in Proc, StageMarker(p) PROVE FInv'
<1>1. PICK whole \in BOOLEAN :
        /\ SyncThenWrite(Stage(disk, marker[p].dest, marker[p].seq, whole))
        /\ IF whole
             THEN /\ Goto(p, "commit")
                  /\ overtaken' = {q \in Proc : p \in later[q]}
                  /\ UNCHANGED <<lock, marker, seen, later, outdated, witness>>
             ELSE Return(p, "stopped")
  BY DEF StageMarker
<1> DEFINE d == Stage(disk, marker[p].dest, marker[p].seq, whole)
<1>2. pc[p] = "stage" /\ pc[p] \in Holding /\ disk.pending = NoPending /\ UNCHANGED <<job, attested>>
  BY DEF StageMarker, Holding
<1>3. disk' = d /\ surviving' = {disk, d} BY <1>1 DEF SyncThenWrite
<1>4. marker[p].dest \in Destinations /\ marker[p].seq \in AttemptCounts
  BY DEF IInv, CallType, Markers
<1>5. disk \in Journals /\ disk \in surviving BY DiskImage
<1>6. /\ SamePublished(d, disk)
      /\ d.pending = [dest |-> marker[p].dest, seq |-> marker[p].seq, whole |-> whole]
  BY <1>4, <1>5, StageType
<1> HIDE DEF d
<1>7. Freshness(p) BY DEF FInv
<1>8. d.recheck = disk.recheck BY <1>6 DEF SamePublished
<1>9. ClaimsCheck(d) => ClaimsCheck(disk) \/ (whole /\ marker[p].dest \in {"checking", "checked"})
  BY <1>6 DEF ClaimsCheck, SamePublished
<1>10. CASE whole = FALSE
  <2>1. Return(p, "stopped") BY <1>1, <1>10
  <2>2. \A j \in surviving' : \E k \in surviving :
          j.recheck = k.recheck /\ (ClaimsCheck(j) => ClaimsCheck(k))
    BY <1>3, <1>5, <1>8, <1>9, <1>10
  <2>3. \A q \in Proc \ {p} : marker'[q] = marker[q] BY <2>1 DEF Return, IInv, CallType
  <2> QED BY <1>2, <1>3, <1>8, <2>1, <2>2, <2>3, FreeKeeps, FreeSteps DEF Return, Viewing
<1>11. CASE whole = TRUE
  <2>1. /\ Goto(p, "commit") /\ overtaken' = {q \in Proc : p \in later[q]}
        /\ UNCHANGED <<marker, seen, later, outdated, witness>>
    BY <1>1, <1>11
  <2>2. pc'[p] = "commit" /\ \A q \in Proc \ {p} : pc'[q] = pc[q]
    BY <2>1 DEF Goto, IInv, CallType
  <2>3. Ordered' /\ Witnessed' BY <1>2, <2>1 DEF FInv, Ordered, Witnessed
  <2>4. Attested'
    <3>1. ClaimsCheck(d) => attested
      BY <1>2, <1>5, <1>7, <1>9 DEF FInv, Attested, Freshness
    <3>2. \A j \in surviving' : (j.recheck # 0 => \E k \in surviving : k.recheck # 0)
                                /\ (ClaimsCheck(j) => attested')
      BY <1>2, <1>3, <1>5, <1>8, <3>1 DEF FInv, Attested
    <3> QED BY <1>2, <1>3, <1>8, <2>1, <3>2, AttestedKeeps
  <2>5. p \notin overtaken' BY <2>1 DEF FInv, Ordered
  <2>6. Freshness(p)' BY <1>2, <1>7, <2>1, <2>2, <2>5 DEF Freshness
  <2> QED BY <1>2, <2>2, <2>3, <2>4, <2>6, HolderFresh
<1> QED BY <1>10, <1>11

\* A published recheck attempt names the observation it rests on: what anybody
\* else still knows of the check is newer than that.
LEMMA RecheckAttested ==
  ASSUME IInv, FInv, NEW p \in Proc, CommitMarker(p), marker[p].dest = "recheck"
  PROVE  Attested'
<1> DEFINE d == Commit(disk)
<1>1. /\ pc[p] = "commit" /\ disk' = d /\ surviving' = surviving \cup {d}
      /\ UNCHANGED <<seen, job>> /\ outdated' = overtaken
      /\ attested' = (p \in witness)
  BY DEF CommitMarker, Write
<1>2. Freshness(p) /\ Ordered /\ Witnessed BY DEF FInv
<1>3. seen[p] \in Stopped /\ \A q \in Proc : p \in later[q] => q \in overtaken
  BY <1>1, <1>2 DEF Freshness, Requests
<1>4. seen[p] # "none" /\ seen[p] # "checking" BY <1>3 DEF Stopped
<1>5. job = "checking" => p \in witness BY <1>2, <1>4 DEF Witnessed
<1>6. ASSUME NEW q \in Proc, seen[q] = "checking", q \notin overtaken PROVE p \in witness
  <2>1. q # p /\ seen[q] # "none" /\ p \notin later[q] BY <1>3, <1>4, <1>6
  <2>2. q \in later[p] BY <1>2, <1>4, <2>1 DEF Ordered
  <2> QED BY <1>2, <1>4, <1>6, <2>2 DEF Witnessed
<1>7. disk.pending = [dest |-> "recheck", seq |-> marker[p].seq, whole |-> TRUE]
  BY <1>1 DEF IInv, Progress, WritingProgress
<1>8. disk \in Journals /\ disk \in surviving /\ WellFormed(disk) /\ \A j \in surviving : Linked(j)
  BY DiskImage DEF IInv, Image
<1>9. disk.checking = 0 /\ disk.checked = 0 BY <1>7, <1>8 DEF WellFormed, Fits
<1>10. d.checking = 0 /\ d.checked = 0 /\ d.pending = NoPending
  BY <1>7, <1>8, <1>9, CommitType
<1> HIDE DEF d
<1>11. ~ClaimsCheck(d) BY <1>10 DEF ClaimsCheck, NoPending
<1>12. ASSUME NEW j \in surviving PROVE ~ClaimsCheck(j)
  <2>1. ~Holds(disk, "checking") /\ ~Holds(disk, "checked") BY <1>7, <1>9 DEF Holds
  <2>2. ~Holds(j, "checking") /\ ~Holds(j, "checked") BY <1>8, <2>1 DEF Linked, Evidence
  <2> QED BY <2>2 DEF ClaimsCheck, Holds
<1> QED BY <1>1, <1>5, <1>6, <1>11, <1>12 DEF Attested

\* Any other marker rests on what was attested before, or on no check at all.
LEMMA OtherAttested ==
  ASSUME IInv, FInv, NEW p \in Proc, CommitMarker(p), marker[p].dest # "recheck"
  PROVE  Attested'
<1> DEFINE d == Commit(disk)
<1>1. /\ pc[p] = "commit" /\ disk' = d /\ surviving' = surviving \cup {d}
      /\ UNCHANGED <<seen, job, attested>>
      /\ outdated' = (IF marker[p].dest = "intent" THEN outdated ELSE overtaken)
  BY DEF CommitMarker, Write
<1>2. disk.pending = [dest |-> marker[p].dest, seq |-> marker[p].seq, whole |-> TRUE]
  BY <1>1 DEF IInv, Progress, WritingProgress
<1>3. marker[p].dest \in {"intent", "start", "checking", "checked", "started"}
  BY Kinds DEF IInv, CallType, Markers
<1>4. disk \in Journals /\ disk \in surviving /\ WellFormed(disk) BY DiskImage DEF Image
<1>5. disk.pending.dest = marker[p].dest /\ disk.pending.dest # "none" /\ disk.pending.whole = TRUE
  BY <1>2, <1>3
<1>6. Fits(disk, marker[p].dest, marker[p].seq) BY <1>2, <1>4, <1>5 DEF WellFormed
<1>7. /\ d.recheck = disk.recheck /\ d.pending = NoPending
      /\ d.checking = (IF disk.pending.dest = "checking" THEN disk.pending.seq ELSE disk.checking)
      /\ d.checked = (IF disk.pending.dest = "checked" THEN disk.pending.seq ELSE disk.checked)
  BY <1>4, <1>5, CommitType
<1> HIDE DEF d
<1>8. ClaimsCheck(d) => ClaimsCheck(disk) BY <1>5, <1>7 DEF ClaimsCheck, NoPending
<1>9. ClaimsCheck(disk) => attested BY <1>4 DEF FInv, Attested
<1>10. \A j \in surviving' : (j.recheck # 0 => \E k \in surviving : k.recheck # 0)
                             /\ (ClaimsCheck(j) => attested')
  BY <1>1, <1>4, <1>7, <1>8 DEF FInv, Attested
<1>11. CASE marker[p].dest = "intent"
  BY <1>1, <1>7, <1>10, <1>11, AttestedKeeps
<1>12. CASE marker[p].dest # "intent"
  <2>1. ChainAgrees(disk) BY <1>6, <1>12 DEF Fits
  <2>2. StartReviewed(disk) => disk.recheck = 0 \/ disk.checked # 0
    BY <2>1, Reading DEF StartReviewed
  <2>3. disk.start # 0 => StartReviewed(disk)
    <3>1. disk.start \in Nat BY <1>4, Fields, Counts
    <3> QED BY <2>1, <3>1, Reading
  <2>4. disk.recheck = 0 \/ ClaimsCheck(disk)
    BY <1>3, <1>5, <1>6, <1>12, <2>2, <2>3 DEF Fits, ClaimsCheck
  <2>5. disk.recheck # 0 => attested BY <1>9, <2>4
  <2>6. Attested BY DEF FInv
  <2> QED BY <1>1, <1>4, <1>7, <1>10, <2>5, <2>6 DEF Attested
<1> QED BY <1>11, <1>12

LEMMA CommitMarkerFresh == ASSUME IInv, FInv, NEW p \in Proc, CommitMarker(p) PROVE FInv'
<1>1. /\ pc[p] = "commit" /\ pc[p] \in Holding /\ Goto(p, "confirm")
      /\ UNCHANGED <<marker, seen, later, witness, job>>
      /\ outdated' = (IF marker[p].dest = "intent" THEN outdated ELSE overtaken)
      /\ attested' = (IF marker[p].dest = "recheck" THEN p \in witness ELSE attested)
  BY DEF CommitMarker, Holding
<1>2. pc'[p] = "confirm" /\ \A q \in Proc \ {p} : pc'[q] = pc[q]
  BY <1>1 DEF Goto, IInv, CallType
<1>3. Ordered' /\ Witnessed' BY <1>1 DEF FInv, Ordered, Witnessed
<1>4. Attested' BY RecheckAttested, OtherAttested
<1>5. Freshness(p) BY DEF FInv
<1>6. Freshness(p)' BY <1>1, <1>2, <1>5 DEF Freshness
<1> QED BY <1>1, <1>2, <1>3, <1>4, <1>6, HolderFresh

LEMMA ConfirmMarkerFresh == ASSUME IInv, FInv, NEW p \in Proc, ConfirmMarker(p) PROVE FInv'
<1>1. pc[p] = "confirm" /\ Narrow /\ UNCHANGED <<job, attested>>
  BY SyncIsNarrow DEF ConfirmMarker
<1>2. CASE Return(p, marker[p].then) BY <1>1, <1>2, ReturnFresh
<1>3. CASE marker[p].then \notin Evidence /\ Goto(p, marker[p].then)
           /\ UNCHANGED <<marker, obsVars, witness>>
  <2>1. marker[p].then \in {"load", "decide", "request", "append"}
    BY <1>3 DEF IInv, CallType, Markers, Continuations, Evidence
  <2>2. pc'[p] = marker[p].then /\ \A q \in Proc \ {p} : pc'[q] = pc[q]
    BY <1>3 DEF Goto, IInv, CallType
  <2>3. Purpose(marker[p]) /\ Freshness(p) BY <1>1 DEF IInv, FInv, Progress, WritingProgress
  <2>4. marker[p].then \in {"request", "append"} => marker[p].dest # "intent"
    BY <2>3 DEF Purpose
  <2>5. Freshness(p)' BY <1>1, <1>3, <2>1, <2>2, <2>3, <2>4 DEF Freshness, obsVars
  <2> QED BY <1>1, <1>3, <2>2, <2>5, StepFresh DEF Narrow, Viewing
<1> QED BY <1>2, <1>3 DEF ConfirmMarker

-----------------------------------------------------------------------------
(* Decisions, requests and what follows them.                              *)

LEMMA AppendFresh ==
  ASSUME IInv, FInv, NEW p \in Proc, NEW r \in Requests, AppendAttempt(p, r), p \notin outdated,
         UNCHANGED <<disk, surviving, job, attested>>, r = "recheck" => seen[p] \in Stopped
  PROVE  FInv'
<1>1. CASE WriteMarker(p, r, disk[r] + 1, "request", "stage") /\ UNCHANGED <<lock, obsVars, witness>>
  <2>1. r \in Destinations /\ r \notin {"checking", "checked"} BY DEF Destinations, Requests
  <2>2. Viewing(p) /\ seen' = seen /\ outdated' = outdated BY <1>1 DEF Viewing, obsVars
  <2> QED BY <1>1, <2>1, <2>2, PlanFresh
<1>2. CASE Return(p, "stopped") BY <1>2, FinishFresh
<1> QED BY <1>1, <1>2 DEF AppendAttempt

LEMMA RecordFresh ==
  ASSUME IInv, FInv, NEW p \in Proc, NEW d \in Evidence, NEW n, NEW t, Record(p, d, n, t),
         p \notin outdated, d \in {"checking", "checked"} => attested
  PROVE  FInv'
<1>1. WriteMarker(p, d, n, t, "stage") /\ UNCHANGED <<disk, surviving, obsVars, witness, job, attested>>
  BY DEF Record, diskVars, historyVars
<1>2. Viewing(p) /\ outdated' = outdated BY <1>1 DEF Viewing, obsVars
<1>3. d \in Destinations /\ d # "recheck" BY DEF Destinations, Evidence
<1> QED BY <1>1, <1>2, <1>3, PlanFresh

LEMMA DecidingFresh ==
  ASSUME IInv, FInv, NEW p \in Proc,
         \/ DecideOutOfDate(p) \/ DecideSettled(p) \/ DecideChecked(p)
         \/ DecideStarted(p) \/ DecideStartAgain(p) \/ DecideFirstStart(p)
  PROVE  FInv'
<1>1. CASE DecideOutOfDate(p) \/ DecideSettled(p) \/ DecideChecked(p)
  BY <1>1, FinishingFresh DEF DecideOutOfDate, DecideSettled, DecideChecked
<1>2. Starting(p) => p \notin outdated BY DEF Starting, Deciding, OutOfDate
<1>3. CASE DecideStarted(p)
  BY <1>2, <1>3, FinishingFresh, RecordFresh DEF DecideStarted, Evidence
<1>4. CASE DecideStartAgain(p)
  BY <1>2, <1>4, FinishingFresh, AppendFresh DEF DecideStartAgain, Requests
<1>5. CASE DecideFirstStart(p)
  BY <1>2, <1>5, FinishingFresh, AppendFresh DEF DecideFirstStart, Requests
<1> QED BY <1>1, <1>3, <1>4, <1>5

LEMMA DecidingCheckFresh ==
  ASSUME IInv, FInv, NEW p \in Proc,
         DecideChecking(p) \/ DecideRecheckAgain(p) \/ DecideFirstRecheck(p)
  PROVE  FInv'
<1>1. p \notin outdated
  BY DEF DecideChecking, DecideRecheckAgain, DecideFirstRecheck, Rechecking, Deciding, OutOfDate
<1>2. Attested /\ disk \in surviving /\ disk \in Journals BY DiskImage DEF FInv
<1>3. "recheck" \in Requests /\ "checking" \in Evidence /\ "checked" \in Evidence
  BY DEF Requests, Evidence
<1>4. CASE DecideChecking(p)
  <2>1. disk.checking # 0 => attested BY <1>2 DEF Attested, ClaimsCheck
  <2> QED BY <1>1, <1>3, <1>4, <2>1, FinishingFresh, RecordFresh DEF DecideChecking
<1>5. CASE DecideRecheckAgain(p)
  <2>1. disk.recheck # 0 BY <1>2, <1>5, Fields, Counts DEF DecideRecheckAgain
  <2>2. seen[p] = "checking" => attested BY <1>1, <1>2, <2>1 DEF Attested
  <2> QED BY <1>1, <1>3, <1>5, <2>2, FinishingFresh, RecordFresh, AppendFresh DEF DecideRecheckAgain
<1>6. CASE DecideFirstRecheck(p)
  BY <1>1, <1>3, <1>6, FinishingFresh, AppendFresh DEF DecideFirstRecheck
<1> QED BY <1>4, <1>5, <1>6

LEMMA AppendStartFresh == ASSUME IInv, FInv, NEW p \in Proc, AppendStart(p) PROVE FInv'
<1>1. p \notin outdated BY DEF AppendStart, FInv, Freshness
<1> QED BY <1>1, AppendFresh DEF AppendStart, Requests

LEMMA SendRequestFresh == ASSUME IInv, FInv, NEW p \in Proc, SendRequest(p) PROVE FInv'
<1>1. /\ pc[p] = "request" /\ Goto(p, "probe")
      /\ UNCHANGED <<disk, surviving, marker, obsVars, witness, attested, job>>
  BY DEF SendRequest, diskVars
<1>2. pc'[p] = "probe" /\ \A q \in Proc \ {p} : pc'[q] = pc[q]
  BY <1>1 DEF Goto, IInv, CallType
<1>3. Freshness(p) BY DEF FInv
<1>4. Freshness(p)' BY <1>1, <1>2, <1>3 DEF Freshness, obsVars
<1> QED BY <1>1, <1>2, <1>4, StepFresh DEF Viewing

\* A probe sees the check itself, or a change since the invocation's own
\* observation: either is newer than the attempt.
LEMMA ProbeFresh == ASSUME IInv, FInv, NEW p \in Proc, Probe(p) PROVE FInv'
<1> DEFINE n == disk[marker[p].dest]
<1>1. pc[p] = "probe" /\ UNCHANGED <<disk, surviving, posts, attested, job>> BY DEF Probe
<1>2. CASE Return(p, "unknown") BY <1>1, <1>2, FinishFresh
<1>3. ASSUME NEW d \in Evidence, WriteMarker(p, d, n, d, "stage"), Observe(p),
             d \in {"checking", "checked"} => marker[p].dest # "start",
             d = "checking" => job = "checking",
             d = "checked" => RecheckConclusive(seen[p], job)
      PROVE  FInv'
  <2>1. Landed(marker[p].dest, marker[p].seq) /\ marker[p].dest \in Requests
    BY <1>1 DEF IInv, Progress, DecidingProgress
  <2>2. Freshness(p) /\ Attested /\ Witnessed BY DEF FInv
  <2>3. d \in {"checking", "checked"} => marker[p].dest = "recheck" /\ disk.recheck # 0
    BY <1>3, <2>1 DEF Landed, Requests
  <2>4. d = "checking" => attested BY <1>3, <2>2, <2>3, DiskImage DEF Attested
  <2>5. d = "checked" => attested
    BY <1>1, <1>3, <2>2, <2>3 DEF RecheckConclusive, Witnessed, Freshness
  <2>6. p \notin outdated' BY <1>3 DEF Observe
  <2>7. d \in Destinations /\ d # "recheck" BY DEF Destinations, Evidence
  <2> HIDE DEF n
  <2> QED BY <1>1, <1>3, <2>4, <2>5, <2>6, <2>7, PlanFresh DEF Viewing
<1>4. \/ Return(p, "unknown")
      \/ \E d \in Evidence : /\ WriteMarker(p, d, n, d, "stage") /\ Observe(p)
                             /\ d \in {"checking", "checked"} => marker[p].dest # "start"
                             /\ d = "checking" => job = "checking"
                             /\ d = "checked" => RecheckConclusive(seen[p], job)
  BY DEF Probe, Evidence
<1> QED BY <1>2, <1>3, <1>4

-----------------------------------------------------------------------------
(* The client, failures and the invariant.                                 *)

LEMMA JobChangesFresh == ASSUME IInv, FInv, JobChanges PROVE FInv'
<1>1. /\ UNCHANGED <<disk, surviving, pc, marker, seen, later, outdated, overtaken>>
      /\ \/ /\ job' \in {"checking", "full"} /\ attested' = TRUE
            /\ witness' = {p \in Proc : seen[p] # "none"}
         \/ job' \notin {"checking", "full"} /\ UNCHANGED <<witness, attested>>
  BY DEF JobChanges, diskVars, callVars, obsVars
<1>2. Ordered' /\ Witnessed' BY <1>1 DEF FInv, Ordered, Witnessed
<1>3. Attested' BY <1>1 DEF FInv, Attested
<1>4. ASSUME NEW p \in Proc PROVE Freshness(p)'
  <2>1. Freshness(p) BY DEF FInv
  <2> QED BY <1>1, <2>1 DEF Freshness
<1> QED BY <1>2, <1>3, <1>4 DEF FInv

LEMMA PowerLossFresh == ASSUME IInv, FInv, PowerLoss PROVE FInv'
<1>1. PICK j \in surviving : disk' = j /\ surviving' = {j} BY DEF PowerLoss
<1>2. /\ \A p \in Proc : pc'[p] = "idle" /\ seen'[p] = "none" /\ later'[p] = {}
      /\ UNCHANGED <<attested, job>>
  BY DEF PowerLoss
<1>3. Ordered' /\ Witnessed' BY <1>2 DEF Ordered, Witnessed
<1>4. Attested' BY <1>1, <1>2 DEF FInv, Attested
<1>5. \A p \in Proc : Freshness(p)' BY <1>2 DEF Freshness
<1> QED BY <1>3, <1>4, <1>5 DEF FInv

LEMMA InitFresh == ASSUME Init PROVE FInv
<1>1. PICK action \in Actions : disk = NoJournal(action) /\ surviving = {NoJournal(action)}
  BY DEF Init
<1>2. disk.recheck = 0 /\ disk.checking = 0 /\ disk.checked = 0 /\ disk.pending.dest = "none"
  BY <1>1 DEF NoJournal, NoPending
<1>3. \A p \in Proc : pc[p] = "idle" /\ seen[p] = "none" /\ later[p] = {} BY DEF Init
<1>4. Ordered /\ Witnessed BY <1>3 DEF Ordered, Witnessed
<1>5. Attested BY <1>1, <1>2, <1>3 DEF Attested, ClaimsCheck
<1>6. \A p \in Proc : Freshness(p) BY <1>3 DEF Freshness
<1> QED BY <1>4, <1>5, <1>6 DEF FInv

LEMMA StutterFresh == ASSUME FInv, UNCHANGED vars PROVE FInv'
<1>1. UNCHANGED <<disk, surviving, pc, marker, job, seen, later, outdated, overtaken, witness, attested>>
  BY DEF vars, diskVars, callVars, obsVars, historyVars
<1>2. Ordered' /\ Witnessed' /\ Attested'
  BY <1>1 DEF FInv, Ordered, Witnessed, Attested
<1>3. ASSUME NEW p \in Proc PROVE Freshness(p)' BY <1>1 DEF FInv, Freshness
<1> QED BY <1>2, <1>3 DEF FInv

LEMMA NextFresh == ASSUME IInv, FInv, [Next]_vars PROVE FInv'
<1>1. ASSUME NEW p \in Proc, Invocation(p) PROVE FInv'
  BY <1>1, LookingFresh, LoadConfirmsFresh, MakeRootFresh, MakeLockFresh, MakeScratchFresh,
     RecoverFresh, LoadDiscardsFresh, StageMarkerFresh, CommitMarkerFresh, ConfirmMarkerFresh,
     DecidingFresh, DecidingCheckFresh, AppendStartFresh, SendRequestFresh, ProbeFresh
     DEF Invocation
<1>2. ASSUME NEW p \in Proc, Abort(p) PROVE FInv' BY <1>2, FinishingFresh DEF Abort
<1> QED BY <1>1, <1>2, BeginFresh, JobChangesFresh, PowerLossFresh, StutterFresh DEF Next

LEMMA FreshnessFollows == FInv => EvidenceIsFresh
<1> SUFFICES ASSUME FInv PROVE EvidenceIsFresh OBVIOUS
<1>1. ChecksAreWitnessed BY DEF FInv, Attested, ChecksAreWitnessed
<1>2. ActsOnNewest BY DEF FInv, Freshness, ActsOnNewest
<1> QED BY <1>1, <1>2 DEF EvidenceIsFresh

\* The lock is given up between an observation and what is done about it, and
\* any number of invocations, crashes and changes of the job may come between:
\* still no journal claims a check that nobody saw after the last recheck
\* attempt's observation, and nobody writes or sends on an observation that
\* another invocation's marker has overtaken (the comparisons of observation
\* times in continueOperation, and recheckConclusive's two ends).
THEOREM EvidenceStaysFresh == Spec => []EvidenceIsFresh
<1>1. Init => FInv BY InitFresh
<1>2. IInv /\ FInv /\ [Next]_vars => FInv' BY NextFresh
<1>3. Spec => []FInv BY <1>1, <1>2, InvariantHolds, PTL DEF Spec
<1> QED BY <1>3, FreshnessFollows, PTL
===============================================================================
