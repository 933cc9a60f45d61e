------------------------- MODULE ClientControlProofs -------------------------
(***************************************************************************)
(* Proofs about ClientControl, for every set of invocations, every attempt *)
(* budget and both kinds of operation: the journal is an honest account,   *)
(* reports and recovery survive every crash, and the requests keep the     *)
(* promises of EffectLedger.                                               *)
(*                                                                         *)
(* The inductive invariant says what every image that a power loss may     *)
(* leave looks like on its own (WellFormed, Recorded, Truthful), how the   *)
(* images relate to the visible journal (Linked), that the lock excludes   *)
(* (Exclusion), and what a lock holder knows at each point (Progress).     *)
(***************************************************************************)
EXTENDS ClientControl, TLAPS

Writing == {"scratch", "stage", "fill", "commit"}

-----------------------------------------------------------------------------
(* One image.                                                              *)

\* The marker m is the one that journal j lacks.
Fits(j, m) ==
  /\ m.dest = "intent" => ~j.intent
  /\ m.dest = "attempt" => j.intent /\ m.seq = j.attempts + 1
  /\ m.dest = "response" =>
       j.intent /\ m.seq \in 1..j.attempts /\ j.answers[m.seq] = "none" /\ m.says # "none"
  /\ m.dest = "complete" => j.intent /\ CompletionAgrees(j, m.seq, m.says)

\* A journal is written in order, and nothing is staged after a completion.
WellFormed(j) ==
  /\ j.root # "locked" => ~j.scratch
  /\ ~j.scratch => ~j.intent /\ j.pending = NoPending
  /\ ~j.intent => j.attempts = 0 /\ j.done = NotDone
  /\ \A i \in Attempts : i > j.attempts => j.answers[i] = "none"
  /\ j.done # NotDone => j.pending = NoPending /\ CompletionAgrees(j, j.done.seq, j.done.says)
  /\ j.pending.dest = "none" => j.pending = NoPending
  /\ Fits(j, j.pending)

\* What is said of attempt i is what its sender learned.
Justified(i, says) ==
  /\ says = "accepted" => i \in confirmed
  /\ says = "unsent" => posts[i] = 0

Truthful(j) ==
  /\ \A i \in Attempts : Justified(i, j.answers[i])
  /\ j.pending.dest = "response" => Justified(j.pending.seq, j.pending.says)

Recorded(j) == \A i \in Attempts : posts[i] > 0 => j.attempts >= i

\* A journal holds a completion, or has one staged.
Claims(j) == j.done # NotDone \/ j.pending.dest = "complete"

\* An image is at most one published marker behind the visible journal, and
\* beside a staged marker it is behind by nothing else.
Linked(j) ==
  /\ j.kind = disk.kind
  /\ j.attempts = disk.attempts \/ j.attempts + 1 = disk.attempts
  /\ j.attempts # disk.attempts =>
       /\ disk.pending = NoPending /\ disk.done = NotDone
       /\ j.done = NotDone /\ j.pending.dest # "complete"
  /\ disk.pending # NoPending => j.done = NotDone /\ j.pending.dest \in {"none", disk.pending.dest}
  /\ Claims(j) => Claims(disk)

Image(j) == WellFormed(j) /\ Truthful(j) /\ Recorded(j) /\ Linked(j)

-----------------------------------------------------------------------------
(* The invocations.                                                        *)

\* The operation lock excludes: whoever is past it works in a directory whose
\* lock file exists, and an invocation that still has to create it is alone.
Exclusion ==
  \A p \in Proc :
    /\ pc[p] \in Holding => disk.root = "locked"
    /\ pc[p] = "newlock" =>
         disk.root = "bare" /\ \A q \in Proc \ {p} : pc[q] \notin Holding \cup {"newlock"}

\* An open operation with nothing staged.
Open == disk.intent /\ disk.done = NotDone /\ disk.pending = NoPending

\* What follows a marker is what it was written for.
Purpose(m) ==
  /\ m.then = "observe" => m.dest = "intent"
  /\ m.then = "send" => m.dest = "attempt"
  /\ m.then = "verify" => m.dest = "response" /\ m.seq = disk.attempts
  /\ m.then = "report" => m.dest = "complete"

\* The marker m was just published.
Landed(m) ==
  /\ disk.pending = NoPending
  /\ m.dest = "intent" => Open /\ disk.attempts = 0
  /\ m.dest = "attempt" =>
       /\ Open /\ m.seq = disk.attempts /\ m.seq \in Attempts
       /\ posts[m.seq] = 0 /\ disk.answers[m.seq] = "none"
  /\ m.dest = "response" => Open /\ m.seq \in 1..disk.attempts /\ disk.answers[m.seq] # "none"
  /\ m.dest = "complete" => disk.done # NotDone

\* A marker that is written: not yet staged, staged, published.
WritingProgress(p) ==
  /\ pc[p] = "scratch" => marker[p].dest = "intent"
  /\ pc[p] = "stage" => disk.scratch
  /\ pc[p] \in {"scratch", "stage"} =>
       /\ disk.pending = NoPending /\ disk.done = NotDone /\ Fits(disk, marker[p])
       /\ marker[p].dest = "response" => Justified(marker[p].seq, marker[p].says)
  /\ pc[p] \in {"fill", "commit"} =>
       /\ disk.pending.dest = marker[p].dest /\ disk.pending.seq = marker[p].seq
       /\ disk.pending.says = marker[p].says
  /\ pc[p] \in Writing \cup {"confirm"} => Purpose(marker[p])
  /\ pc[p] = "confirm" => Landed(marker[p])

\* A request: what it rests on, and what its sender learned.
RequestProgress(p) ==
  /\ pc[p] = "observe" => Open /\ disk.attempts = 0
  /\ pc[p] = "ledger" => disk.intent /\ disk.pending = NoPending /\ (IsStop => surviving = {disk})
  /\ pc[p] = "act" => Open /\ disk.attempts < MaxAttempts
  /\ pc[p] \in {"send", "await", "verify"} =>
       surviving = {disk} /\ Open /\ marker[p].seq = disk.attempts /\ marker[p].seq \in Attempts
  /\ pc[p] \in {"send", "await"} => disk.answers[marker[p].seq] = "none"
  /\ pc[p] = "send" => posts[marker[p].seq] = 0
  /\ pc[p] = "await" => Justified(marker[p].seq, reply[p])
  /\ pc[p] = "verify" => disk.answers[marker[p].seq] # "none"

\* There is a receipt only after a request.
Unanswered(p) ==
  \/ pc[p] \in Unlocked \cup {"observe", "load", "ledger", "act", "send"}
  \/ pc[p] \in Writing \cup {"confirm"} /\ marker[p].then \in {"observe", "load", "send"}

\* The invocation is about to send a request.
Sending(p) ==
  \/ pc[p] \in {"act", "send"}
  \/ pc[p] \in Writing \cup {"confirm"} /\ marker[p].then = "send"

Progress(p) ==
  /\ WritingProgress(p) /\ RequestProgress(p)
  /\ Unanswered(p) => reply[p] = "none"
  /\ Sending(p) => opts[p].repeat \/ \A i \in Attempts : posts[i] = 0

\* A completion was reported of a completion that every image has.
Reported(p) ==
  outcome[p] = "complete" \/ (outcome[p] = "already" /\ IsStop) => \A j \in surviving : j.done # NotDone

DiskType == disk \in Journals /\ disk \in surviving /\ surviving \subseteq Journals

CallType ==
  /\ lock \in Proc \cup {Nobody}
  /\ pc \in [Proc -> Unlocked \cup Holding]
  /\ \A p \in Proc : pc[p] \in Holding <=> lock = p
  /\ opts \in [Proc -> Options]
  /\ seen \in [Proc -> JobStates]
  /\ marker \in [Proc -> Markers]
  /\ reply \in [Proc -> Sayings]
  /\ outcome \in [Proc -> Outcomes]

ClientType ==
  /\ job \in JobStates
  /\ wire \subseteq Attempts
  /\ posts \in [Attempts -> Nat] /\ \A i \in Attempts : posts[i] <= 1
  /\ confirmed \subseteq Attempts

IInv ==
  /\ DiskType /\ CallType /\ ClientType
  /\ \A j \in surviving : Image(j)
  /\ Exclusion
  /\ \A p \in Proc : Progress(p) /\ Reported(p)

LEMMA TypeParts == IInv => TypeOK
BY DEF IInv, TypeOK, DiskType, CallType, ClientType
-----------------------------------------------------------------------------
(* Types of the steps that actions are made of.                            *)

LEMMA Zero == 0 \in AttemptCounts /\ NoPending \in Pendings /\ NotDone \in Completions
<1>1. 0 \in AttemptCounts BY MaxAttemptsAssumption DEF AttemptCounts
<1> QED BY <1>1 DEF NoPending, Pendings, NotDone, Completions, Sayings

LEMMA Counts ==
  /\ Attempts \subseteq AttemptCounts /\ AttemptCounts \subseteq Nat /\ 0 \notin Attempts
  /\ \A n \in AttemptCounts : n # 0 => n \in Attempts
  /\ \A n \in AttemptCounts : \A i \in 1..n : i \in Attempts
BY MaxAttemptsAssumption DEF Attempts, AttemptCounts

\* The fields of a journal.
LEMMA Fields ==
  ASSUME NEW j \in Journals
  PROVE  /\ j.kind \in Kinds /\ j.root \in {"none", "bare", "locked"} /\ j.scratch \in BOOLEAN
         /\ j.intent \in BOOLEAN /\ j.attempts \in AttemptCounts
         /\ j.answers \in [Attempts -> Sayings] /\ j.done \in Completions
         /\ j.pending \in Pendings /\ j.pending.dest \in Destinations \cup {"none"}
         /\ j.pending.seq \in AttemptCounts /\ j.pending.says \in Sayings
         /\ j.pending.whole \in BOOLEAN
BY DEF Journals, Pendings

\* The helpers of writeMarker keep journals journals; what each of them changes.
LEMMA StageType ==
  ASSUME NEW j \in Journals, NEW m \in Markers
  PROVE  /\ Stage(j, m) \in Journals
         /\ Stage(j, m).pending = [dest |-> m.dest, seq |-> m.seq, says |-> m.says, whole |-> FALSE]
         /\ Stage(j, m).kind = j.kind /\ Stage(j, m).root = j.root /\ Stage(j, m).scratch = j.scratch
         /\ Stage(j, m).intent = j.intent /\ Stage(j, m).attempts = j.attempts
         /\ Stage(j, m).answers = j.answers /\ Stage(j, m).done = j.done
BY DEF Stage, Journals, Pendings, Markers

LEMMA FillType ==
  ASSUME NEW j \in Journals
  PROVE  /\ Fill(j) \in Journals
         /\ Fill(j).pending = [j.pending EXCEPT !.whole = (j.pending.dest # "none")]
         /\ Fill(j).kind = j.kind /\ Fill(j).root = j.root /\ Fill(j).scratch = j.scratch
         /\ Fill(j).intent = j.intent /\ Fill(j).attempts = j.attempts
         /\ Fill(j).answers = j.answers /\ Fill(j).done = j.done
BY DEF Fill, Journals, Pendings

LEMMA DiscardType ==
  ASSUME NEW j \in Journals
  PROVE  /\ Discard(j) \in Journals /\ Discard(j).pending = NoPending
         /\ Discard(j).kind = j.kind /\ Discard(j).root = j.root /\ Discard(j).scratch = j.scratch
         /\ Discard(j).intent = j.intent /\ Discard(j).attempts = j.attempts
         /\ Discard(j).answers = j.answers /\ Discard(j).done = j.done
BY Zero DEF Discard, Journals

LEMMA CommitType ==
  ASSUME NEW j \in Journals
  PROVE  /\ Commit(j) \in Journals /\ Commit(j).pending = NoPending
         /\ Commit(j).kind = j.kind /\ Commit(j).root = j.root /\ Commit(j).scratch = j.scratch
         /\ Commit(j).intent = (j.intent \/ j.pending.dest = "intent")
         /\ Commit(j).attempts = IF j.pending.dest = "attempt" THEN j.pending.seq ELSE j.attempts
         /\ Commit(j).answers = IF j.pending.dest = "response"
                                THEN [j.answers EXCEPT ![j.pending.seq] = j.pending.says] ELSE j.answers
         /\ Commit(j).done = IF j.pending.dest = "complete"
                             THEN [seq |-> j.pending.seq, says |-> j.pending.says] ELSE j.done
<1>1. /\ j.pending.seq \in AttemptCounts /\ j.pending.says \in Sayings
      /\ [seq |-> j.pending.seq, says |-> j.pending.says] \in Completions
      /\ [j.answers EXCEPT ![j.pending.seq] = j.pending.says] \in [Attempts -> Sayings]
  BY Fields DEF Completions
<1> QED BY <1>1, Zero, Fields DEF Commit, Journals

\* Whether a marker fits depends on what is published, not on what is staged.
LEMMA FitsSame ==
  ASSUME NEW j, NEW k, j.kind = k.kind, j.intent = k.intent, j.attempts = k.attempts,
         j.answers = k.answers,
         NEW m, NEW n, m.dest = n.dest, m.seq = n.seq, m.says = n.says
  PROVE  /\ CompletionAgrees(j, m.seq, m.says) <=> CompletionAgrees(k, n.seq, n.says)
         /\ Fits(j, m) <=> Fits(k, n)
<1>1. CompletionAgrees(j, m.seq, m.says) <=> CompletionAgrees(k, n.seq, n.says)
  BY DEF CompletionAgrees, StopCompletionAgrees, RemoveCompletionAgrees
<1> QED BY <1>1 DEF Fits

LEMMA DefaultTypes ==
  /\ NoOptions \in Options /\ NoMarker \in Markers
  /\ "idle" \in Unlocked /\ "idle" \notin Holding /\ "none" \in Sayings /\ "absent" \in JobStates
BY Zero DEF NoOptions, Options, Modes, NoMarker, Markers, Destinations, Continuations, Unlocked,
            Holding, Sayings, JobStates

LEMMA ReturnType ==
  ASSUME CallType, NEW p \in Proc, NEW o \in Outcomes, Return(p, o)
  PROVE  CallType'
BY DefaultTypes, NobodyAssumption DEF CallType, Return

-----------------------------------------------------------------------------
(* Kinds of steps that keep the invariant.                                 *)

\* The visible journal stays, and a sync may take images away.
Narrow == disk' = disk /\ disk \in surviving' /\ surviving' \subseteq surviving

LEMMA NarrowKeeps ==
  ASSUME IInv, Narrow, UNCHANGED clientVars
  PROVE  DiskType' /\ ClientType' /\ \A j \in surviving' : Image(j)'
<1>1. DiskType' /\ ClientType'
  BY DEF IInv, DiskType, ClientType, Narrow, clientVars
<1>2. ASSUME NEW j \in surviving' PROVE Image(j)'
  BY DEF IInv, Narrow, Image, WellFormed, Fits, CompletionAgrees, StopCompletionAgrees,
         RemoveCompletionAgrees, Truthful, Justified, Recorded, Linked, Claims, clientVars
<1> QED BY <1>1, <1>2

\* What a step of p has to keep when it leaves the others alone: either it
\* changes nothing they know, or none of them is past the lock.
LEMMA StepKeeps ==
  ASSUME IInv, NEW p \in Proc, DiskType', CallType', ClientType', \A j \in surviving' : Image(j)',
         Exclusion', Progress(p)', Reported(p)', disk'.kind = disk.kind,
         \A q \in Proc \ {p} :
           /\ pc'[q] = pc[q] /\ opts'[q] = opts[q] /\ marker'[q] = marker[q]
           /\ reply'[q] = reply[q] /\ outcome'[q] = outcome[q],
         \/ Narrow /\ UNCHANGED clientVars
         \/ disk.done = NotDone /\ \A q \in Proc \ {p} : pc[q] \notin Holding
  PROVE  IInv'
<1>1. ASSUME NEW q \in Proc \ {p} PROVE Progress(q)' /\ Reported(q)'
  <2>1. Progress(q) /\ Reported(q) /\ disk \in surviving BY DEF IInv, DiskType
  <2>2. CASE Narrow /\ UNCHANGED clientVars
    <3>1. surviving = {disk} => surviving' = {disk} BY <2>2 DEF Narrow
    <3>2. WritingProgress(q)'
      BY <2>1, <2>2 DEF Narrow, Progress, WritingProgress, Fits, CompletionAgrees,
         StopCompletionAgrees, RemoveCompletionAgrees, Justified, Purpose, Landed, Open, clientVars
    <3>3. RequestProgress(q)'
      BY <2>1, <2>2, <3>1 DEF Narrow, Progress, RequestProgress, Justified, Open, clientVars, IsStop
    <3>4. Reported(q)'
      BY <2>1, <2>2 DEF Narrow, Reported, IsStop
    <3> QED BY <2>1, <2>2, <3>2, <3>3, <3>4 DEF Progress, Unanswered, Sending, clientVars
  <2>3. CASE disk.done = NotDone /\ \A r \in Proc \ {p} : pc[r] \notin Holding
    <3>1. pc'[q] \notin Holding BY <2>3
    <3>2. WritingProgress(q)' /\ RequestProgress(q)' /\ ~Sending(q)'
      BY <3>1 DEF WritingProgress, RequestProgress, Sending, Writing, Holding
    <3>3. pc[q] \in Unlocked BY <2>3 DEF IInv, CallType
    <3>4. reply'[q] = "none" BY <2>1, <3>3 DEF Progress, Unanswered
    <3>5. Reported(q)' BY <2>1, <2>3 DEF Reported, IsStop
    <3> QED BY <3>2, <3>4, <3>5 DEF Progress
  <2> QED BY <2>2, <2>3
<1>2. \A q \in Proc : Progress(q)' /\ Reported(q)' BY <1>1
<1> QED BY <1>2 DEF IInv

\* The end of an invocation.
LEMMA ReturnKeeps ==
  ASSUME IInv, NEW p \in Proc, NEW o \in Outcomes, Return(p, o), Narrow, UNCHANGED clientVars,
         o = "complete" \/ (o = "already" /\ IsStop) => \A j \in surviving' : j.done # NotDone
  PROVE  IInv'
<1>1. DiskType' /\ ClientType' /\ (\A j \in surviving' : Image(j)') /\ CallType'
  BY NarrowKeeps, ReturnType DEF IInv
<1>2. pc' = [pc EXCEPT ![p] = "idle"] /\ pc'[p] = "idle" /\ reply'[p] = "none" /\ outcome'[p] = o
  BY DEF Return, IInv, CallType
<1>3. Exclusion'
  BY <1>1, <1>2 DEF IInv, Exclusion, CallType, Narrow, Holding
<1>4. Progress(p)'
  BY <1>2 DEF Progress, WritingProgress, RequestProgress, Sending, Writing
<1>5. Reported(p)'
  BY <1>2 DEF Reported, Narrow, IsStop
<1>6. \A q \in Proc \ {p} :
        /\ pc'[q] = pc[q] /\ opts'[q] = opts[q] /\ marker'[q] = marker[q]
        /\ reply'[q] = reply[q] /\ outcome'[q] = outcome[q]
  BY DEF Return, IInv, CallType
<1> QED BY <1>1, <1>3, <1>4, <1>5, <1>6, StepKeeps DEF Narrow

\* A lock holder goes on as a lock holder.
LEMMA HolderKeeps ==
  ASSUME IInv, NEW p \in Proc, pc[p] \in Holding, NEW step \in Holding,
         pc' = [pc EXCEPT ![p] = step], UNCHANGED <<lock, opts, seen, outcome>>,
         NEW m \in Markers, marker' = [marker EXCEPT ![p] = m],
         NEW r \in Sayings, reply' = [reply EXCEPT ![p] = r],
         DiskType', ClientType', \A j \in surviving' : Image(j)', Progress(p)',
         disk'.root = disk.root, disk'.kind = disk.kind,
         (Narrow /\ UNCHANGED clientVars) \/ disk.done = NotDone
  PROVE  IInv'
<1>1. CallType' BY DEF IInv, CallType
<1>2. \A q \in Proc \ {p} : pc[q] \notin Holding BY DEF IInv, CallType
<1>3. Exclusion' BY <1>1 DEF IInv, CallType, Exclusion, Holding
<1>4. Reported(p)'
  <2>1. Reported(p) /\ disk \in surviving BY DEF IInv, DiskType
  <2> QED BY <2>1 DEF Reported, Narrow, IsStop
<1>5. \A q \in Proc \ {p} :
        /\ pc'[q] = pc[q] /\ opts'[q] = opts[q] /\ marker'[q] = marker[q]
        /\ reply'[q] = reply[q] /\ outcome'[q] = outcome[q]
  BY DEF IInv, CallType
<1> QED BY <1>1, <1>2, <1>3, <1>4, <1>5, StepKeeps

\* An invocation that has not reached the lock goes on without it.
LEMMA ApartKeeps ==
  ASSUME IInv, NEW p \in Proc, pc[p] \in Unlocked, NEW step \in Unlocked \ {"newlock"},
         pc' = [pc EXCEPT ![p] = step], CallType', UNCHANGED <<diskVars, marker, reply, clientVars>>,
         \A q \in Proc \ {p} : opts'[q] = opts[q] /\ outcome'[q] = outcome[q],
         outcome'[p] \in {outcome[p], "none"}
  PROVE  IInv'
<1>1. Narrow BY DEF Narrow, IInv, DiskType, diskVars
<1>2. DiskType' /\ ClientType' /\ \A j \in surviving' : Image(j)' BY <1>1, NarrowKeeps
<1>3. pc'[p] = step /\ step \notin Holding /\ pc[p] \notin Holding
  BY DEF IInv, CallType, Unlocked, Holding
<1>4. Exclusion' BY <1>3 DEF IInv, CallType, Exclusion, diskVars
<1>5. Progress(p)'
  <2>1. reply[p] = "none" BY DEF IInv, Progress, Unanswered
  <2> QED BY <1>3, <2>1 DEF Progress, WritingProgress, RequestProgress, Sending, Writing, Holding
<1>6. Reported(p)'
  <2>1. Reported(p) BY DEF IInv
  <2> QED BY <2>1 DEF Reported, diskVars, IsStop
<1>7. \A q \in Proc \ {p} : pc'[q] = pc[q] BY DEF IInv, CallType
<1> QED BY <1>1, <1>2, <1>4, <1>5, <1>6, <1>7, StepKeeps DEF diskVars

\* An invocation takes the lock, of which the file exists or is made.
LEMMA EnterKeeps ==
  ASSUME IInv, NEW p \in Proc, pc[p] \in {"newlock", "open"}, \A q \in Proc : pc[q] \notin Holding,
         NEW step \in Holding, pc' = [pc EXCEPT ![p] = step], lock' = p,
         UNCHANGED <<opts, seen, reply, outcome>>,
         NEW m \in Markers, marker' = [marker EXCEPT ![p] = m],
         disk'.root = "locked", disk'.kind = disk.kind, \A q \in Proc \ {p} : pc[q] # "newlock",
         DiskType', ClientType', \A j \in surviving' : Image(j)', Progress(p)',
         (Narrow /\ UNCHANGED clientVars) \/ disk.done = NotDone
  PROVE  IInv'
<1>1. CallType' BY NobodyAssumption DEF IInv, CallType
<1>2. Exclusion' BY <1>1 DEF IInv, CallType, Exclusion, Holding
<1>3. Reported(p)'
  <2>1. Reported(p) /\ disk \in surviving BY DEF IInv, DiskType
  <2> QED BY <2>1 DEF Reported, Narrow, IsStop
<1>4. \A q \in Proc \ {p} :
        /\ pc'[q] = pc[q] /\ opts'[q] = opts[q] /\ marker'[q] = marker[q]
        /\ reply'[q] = reply[q] /\ outcome'[q] = outcome[q]
  BY DEF IInv, CallType
<1> QED BY <1>1, <1>2, <1>3, <1>4, StepKeeps

\* A lock holder reads, or syncs, and goes on.
LEMMA ReadKeeps ==
  ASSUME IInv, NEW p \in Proc, pc[p] \in Holding, NEW step \in Holding, Goto(p, step),
         NEW m \in Markers, marker' = [marker EXCEPT ![p] = m], lock' = lock,
         Narrow, UNCHANGED clientVars, Progress(p)'
  PROVE  IInv'
<1>1. reply' = [reply EXCEPT ![p] = reply[p]] /\ reply[p] \in Sayings BY DEF Goto, IInv, CallType
<1>2. DiskType' /\ ClientType' /\ \A j \in surviving' : Image(j)' BY NarrowKeeps
<1> QED BY <1>1, <1>2, HolderKeeps DEF Goto, Narrow

\* A lock holder writes and goes on.
LEMMA WriteKeeps ==
  ASSUME IInv, NEW p \in Proc, pc[p] \in Holding, NEW step \in Holding, Goto(p, step),
         UNCHANGED <<lock, marker, clientVars>>, DiskType', \A j \in surviving' : Image(j)',
         Progress(p)', disk'.root = disk.root, disk'.kind = disk.kind, disk.done = NotDone
  PROVE  IInv'
<1>1. reply' = [reply EXCEPT ![p] = reply[p]] /\ reply[p] \in Sayings BY DEF Goto, IInv, CallType
<1>2. marker' = [marker EXCEPT ![p] = marker[p]] /\ marker[p] \in Markers BY DEF IInv, CallType
<1>3. ClientType' BY DEF IInv, ClientType, clientVars
<1> QED BY <1>1, <1>2, <1>3, HolderKeeps DEF Goto

-----------------------------------------------------------------------------
(* The commands and their preflight.                                       *)

LEMMA StartKeeps == ASSUME IInv, NEW p \in Proc, NEW o \in Options, Start(p, o) PROVE IInv'
<1>1. pc[p] \in Unlocked /\ "preflight" \in Unlocked \ {"newlock"} /\ "preflight" \notin Holding
      /\ "idle" \notin Holding
  BY DEF Start, Unlocked, Holding
<1>2. CallType' BY <1>1 DEF IInv, CallType, Start, diskVars, Outcomes
<1>3. \A q \in Proc \ {p} : opts'[q] = opts[q] /\ outcome'[q] = outcome[q]
  BY DEF IInv, CallType, Start
<1>4. outcome'[p] = "none" BY DEF IInv, CallType, Start
<1> QED BY <1>1, <1>2, <1>3, <1>4, ApartKeeps DEF Start

LEMMA StartCommandKeeps == ASSUME IInv, NEW p \in Proc, StartRun(p) \/ StartResume(p) PROVE IInv'
<1>1. ASSUME StartRun(p) PROVE IInv'
  BY <1>1, StartKeeps DEF StartRun, Options, Modes
<1>2. ASSUME StartResume(p) PROVE IInv'
  <2>1. PICK ack \in BOOLEAN, repeat \in BOOLEAN :
          Start(p, [mode |-> "resume", ack |-> ack, repeat |-> repeat])
    BY <1>2 DEF StartResume
  <2> QED BY <2>1, StartKeeps DEF Options, Modes
<1> QED BY <1>1, <1>2

LEMMA Routes == \A o \in Options : \A j : Route(o, j) \in {"use", "open", "refuse"}
BY DEF Route, RunRoute, ResumeRoute

\* Nothing on the disk or in the client changes.
LEMMA QuietIsNarrow == ASSUME IInv, UNCHANGED <<disk, surviving>> PROVE Narrow
BY DEF Narrow, IInv, DiskType

LEMMA QuietReturnKeeps ==
  ASSUME IInv, NEW p \in Proc, Return(p, "none"), UNCHANGED <<disk, surviving, clientVars>>
  PROVE  IInv'
BY QuietIsNarrow, ReturnKeeps DEF Outcomes

LEMMA ApartGotoKeeps ==
  ASSUME IInv, NEW p \in Proc, pc[p] \in Unlocked, NEW step \in Unlocked \ {"newlock"}, Goto(p, step),
         UNCHANGED <<lock, marker, disk, surviving, clientVars>>
  PROVE  IInv'
<1>1. step \notin Holding /\ pc[p] \notin Holding BY DEF Unlocked, Holding
<1>2. CallType' BY <1>1 DEF IInv, CallType, Goto
<1> QED BY <1>2, ApartKeeps DEF Goto, diskVars

LEMMA PreflightKeeps == ASSUME IInv, NEW p \in Proc, Preflight(p) PROVE IInv'
<1>1. CASE Goto(p, Route(opts[p], disk)) /\ Route(opts[p], disk) # "refuse" /\ UNCHANGED <<lock, marker>>
  <2>1. opts[p] \in Options BY DEF IInv, CallType
  <2>2. Route(opts[p], disk) \in Unlocked \ {"newlock"} BY <1>1, <2>1, Routes DEF Unlocked
  <2> QED BY <1>1, <2>2, ApartGotoKeeps DEF Preflight, Unlocked
<1>2. CASE Return(p, "none")
  BY <1>2, QuietReturnKeeps DEF Preflight
<1> QED BY <1>1, <1>2 DEF Preflight

LEMMA PrepareUseKeeps == ASSUME IInv, NEW p \in Proc, PrepareUse(p) PROVE IInv'
<1>1. CASE /\ pc' = [pc EXCEPT ![p] = "mkdir"] /\ opts' = [opts EXCEPT ![p].mode = "run"]
           /\ seen' = [seen EXCEPT ![p] = job] /\ UNCHANGED <<lock, marker, reply, outcome>>
  <2>1. pc[p] \in Unlocked /\ "mkdir" \in Unlocked \ {"newlock"} /\ "mkdir" \notin Holding
        /\ "use" \notin Holding
    BY DEF PrepareUse, Unlocked, Holding
  <2>2. [opts[p] EXCEPT !.mode = "run"] \in Options BY DEF IInv, CallType, Options, Modes
  <2>3. CallType' BY <1>1, <2>1, <2>2 DEF IInv, CallType, PrepareUse, ClientType
  <2>4. \A q \in Proc \ {p} : opts'[q] = opts[q] BY <1>1 DEF IInv, CallType
  <2> QED BY <1>1, <2>1, <2>3, <2>4, ApartKeeps DEF PrepareUse, diskVars
<1>2. CASE Return(p, "none")
  BY <1>2, QuietReturnKeeps DEF PrepareUse
<1> QED BY <1>1, <1>2 DEF PrepareUse

-----------------------------------------------------------------------------
(* createJournal.                                                          *)

\* Before there is a lock file there is nothing else, in no image.
LEMMA FreshImages ==
  ASSUME IInv, ~disk.intent
  PROVE  /\ disk.attempts = 0 /\ disk.done = NotDone
         /\ \A i \in Attempts : disk.answers[i] = "none"
<1>1. WellFormed(disk) BY DEF IInv, DiskType, Image
<1>2. disk.attempts = 0 /\ disk.done = NotDone BY <1>1 DEF WellFormed
<1>3. \A i \in Attempts : i > 0 BY Counts DEF Attempts
<1> QED BY <1>1, <1>2, <1>3 DEF WellFormed

\* A new directory, lock file or scratch directory keeps the images.
LEMMA GrowKeeps ==
  ASSUME IInv, ~disk.intent, disk.pending = NoPending,
         NEW d \in Journals, Image(disk), d.kind = disk.kind, d.intent = disk.intent,
         d.attempts = disk.attempts, d.answers = disk.answers, d.done = disk.done,
         d.pending = disk.pending, d.root # "locked" => ~d.scratch, disk' = d,
         Write(d) \/ SyncThenWrite(d), UNCHANGED clientVars
  PROVE  DiskType' /\ \A j \in surviving' : Image(j)'
<1>1. DiskType' BY DEF IInv, DiskType, Write, SyncThenWrite
<1>2. disk.attempts = 0 /\ disk.done = NotDone BY FreshImages
<1>3. ASSUME NEW j \in surviving, Image(j) PROVE Image(j)'
  BY <1>2, <1>3 DEF Image, WellFormed, Fits, CompletionAgrees, StopCompletionAgrees,
     RemoveCompletionAgrees, Truthful, Justified, Recorded, Linked, Claims, clientVars
<1>4. Image(d)'
  BY <1>2 DEF Image, WellFormed, Fits, CompletionAgrees, StopCompletionAgrees,
     RemoveCompletionAgrees, Truthful, Justified, Recorded, Linked, Claims, clientVars, NoPending
<1> QED BY <1>1, <1>3, <1>4 DEF IInv, DiskType, Write, SyncThenWrite

LEMMA DiskImage == ASSUME IInv PROVE disk \in Journals /\ Image(disk)
BY DEF IInv, DiskType

LEMMA MakeRootKeeps == ASSUME IInv, NEW p \in Proc, MakeRoot(p) PROVE IInv'
<1>1. CASE disk.root # "none"
  BY <1>1, ApartGotoKeeps DEF MakeRoot, Unlocked
<1>2. CASE disk.root = "none"
  <2> DEFINE d == [disk EXCEPT !.root = "bare"]
  <2>1. Write(d) /\ Goto(p, "newlock") /\ UNCHANGED <<lock, marker, clientVars>> /\ pc[p] = "mkdir"
    BY <1>2 DEF MakeRoot
  <2>2. /\ d \in Journals /\ d.root = "bare" /\ d.kind = disk.kind /\ d.scratch = disk.scratch
        /\ d.intent = disk.intent /\ d.attempts = disk.attempts /\ d.answers = disk.answers
        /\ d.done = disk.done /\ d.pending = disk.pending /\ disk' = d
    BY <2>1, DiskImage DEF Journals, Write
  <2>3. ~disk.intent /\ disk.pending = NoPending /\ ~disk.scratch
    BY <1>2, DiskImage DEF Image, WellFormed
  <2>4. DiskType' /\ \A j \in surviving' : Image(j)'
    BY <2>1, <2>2, <2>3, DiskImage, GrowKeeps
  <2>5. pc[p] \notin Holding /\ "newlock" \in Unlocked /\ "newlock" \notin Holding /\ "mkdir" \in Unlocked
    BY <2>1 DEF Holding, Unlocked
  <2>6. CallType' BY <2>1, <2>5 DEF IInv, CallType, Goto
  <2>7. ClientType' BY <2>1 DEF IInv, ClientType, clientVars
  <2>8. \A q \in Proc : pc[q] \notin Holding \cup {"newlock"}
    BY <1>2 DEF IInv, Exclusion
  <2>9. Exclusion' BY <2>1, <2>2, <2>5, <2>8 DEF IInv, CallType, Exclusion, Goto
  <2>10. pc'[p] = "newlock" /\ reply'[p] = "none"
    BY <2>1, <2>5 DEF IInv, CallType, Goto, Progress, Unanswered
  <2>11. Progress(p)'
    BY <2>10 DEF Progress, WritingProgress, RequestProgress, Sending, Writing
  <2>12. disk.done = NotDone BY <2>3, FreshImages
  <2>13. Reported(p)'
    <3>1. Reported(p) /\ disk \in surviving BY DEF IInv, DiskType
    <3> QED BY <3>1, <2>12, <2>1, <2>2 DEF Reported, IsStop, Goto
  <2>14. \A q \in Proc \ {p} : pc'[q] = pc[q] BY <2>1 DEF IInv, CallType, Goto
  <2> QED BY <2>1, <2>2, <2>4, <2>6, <2>7, <2>8, <2>9, <2>11, <2>12, <2>13, <2>14, StepKeeps DEF Goto
<1> QED BY <1>1, <1>2

LEMMA MakeLockKeeps == ASSUME IInv, NEW p \in Proc, MakeLock(p) PROVE IInv'
<1> DEFINE d == [disk EXCEPT !.root = "locked"]
           m == [dest |-> "intent", seq |-> 0, says |-> "none", then |-> "observe"]
<1>1. /\ SyncThenWrite(d) /\ lock' = p /\ marker' = [marker EXCEPT ![p] = m] /\ Goto(p, "scratch")
      /\ UNCHANGED clientVars /\ pc[p] = "newlock"
  BY DEF MakeLock, WriteMarker
<1>2. /\ d \in Journals /\ d.root = "locked" /\ d.kind = disk.kind /\ d.scratch = disk.scratch
      /\ d.intent = disk.intent /\ d.attempts = disk.attempts /\ d.answers = disk.answers
      /\ d.done = disk.done /\ d.pending = disk.pending /\ disk' = d
  BY <1>1, DiskImage DEF Journals, SyncThenWrite
<1>3. disk.root = "bare" /\ \A q \in Proc \ {p} : pc[q] \notin Holding \cup {"newlock"}
  BY <1>1 DEF IInv, Exclusion
<1>4. ~disk.intent /\ disk.pending = NoPending /\ ~disk.scratch
  BY <1>3, DiskImage DEF Image, WellFormed
<1>5. DiskType' /\ \A j \in surviving' : Image(j)'
  BY <1>1, <1>2, <1>4, DiskImage, GrowKeeps
<1>6. ClientType' BY <1>1 DEF IInv, ClientType, clientVars
<1>7. disk.done = NotDone BY <1>4, FreshImages
<1>8. m \in Markers BY Zero DEF Markers, Destinations, Sayings, Continuations
<1>9. pc[p] \in Unlocked /\ pc[p] \notin Holding /\ "scratch" \in Holding
  BY <1>1 DEF Unlocked, Holding
<1>10. pc'[p] = "scratch" /\ marker'[p] = m /\ reply'[p] = "none"
  BY <1>1, <1>9 DEF IInv, CallType, Goto, Progress, Unanswered
<1>11. Progress(p)'
  BY <1>2, <1>4, <1>7, <1>10 DEF Progress, WritingProgress, RequestProgress, Sending, Writing, Fits, Purpose
<1> QED BY <1>1, <1>2, <1>3, <1>5, <1>6, <1>7, <1>8, <1>9, <1>11, EnterKeeps DEF Goto

LEMMA MakeScratchKeeps == ASSUME IInv, NEW p \in Proc, MakeScratch(p) PROVE IInv'
<1> DEFINE d == [disk EXCEPT !.scratch = TRUE]
<1>1. /\ Write(d) /\ Goto(p, "stage") /\ UNCHANGED <<lock, marker, clientVars>> /\ pc[p] = "scratch"
  BY DEF MakeScratch
<1>2. /\ d \in Journals /\ d.root = disk.root /\ d.kind = disk.kind /\ d.scratch = TRUE
      /\ d.intent = disk.intent /\ d.attempts = disk.attempts /\ d.answers = disk.answers
      /\ d.done = disk.done /\ d.pending = disk.pending /\ disk' = d
  BY <1>1, DiskImage DEF Journals, Write
<1>3. pc[p] \in Holding /\ "stage" \in Holding BY <1>1 DEF Holding
<1>4. Progress(p) /\ disk.root = "locked" BY <1>3 DEF IInv, Exclusion
<1>5. /\ ~disk.intent /\ disk.pending = NoPending /\ disk.done = NotDone
      /\ marker[p].dest = "intent" /\ Fits(disk, marker[p]) /\ Purpose(marker[p])
  BY <1>1, <1>4 DEF Progress, WritingProgress, Fits, Writing
<1>6. DiskType' /\ \A j \in surviving' : Image(j)'
  BY <1>1, <1>2, <1>4, <1>5, DiskImage, GrowKeeps
<1>7. pc'[p] = "stage" /\ marker'[p] = marker[p] /\ reply'[p] = reply[p] /\ opts'[p] = opts[p]
  BY <1>1 DEF IInv, CallType, Goto
<1>8. Progress(p)'
  <2>1. WritingProgress(p)'
    BY <1>2, <1>5, <1>7 DEF WritingProgress, Fits, Purpose
  <2>2. RequestProgress(p)' BY <1>7 DEF RequestProgress
  <2> QED BY <1>1, <1>4, <1>7, <2>1, <2>2 DEF Progress, Unanswered, Sending, Writing, Unlocked, clientVars
<1> QED BY <1>1, <1>2, <1>3, <1>5, <1>6, <1>8, WriteKeeps

-----------------------------------------------------------------------------
(* writeMarker.                                                            *)

LEMMA StageMarkerKeeps == ASSUME IInv, NEW p \in Proc, StageMarker(p) PROVE IInv'
<1> DEFINE m == marker[p]
           d == Stage(disk, m)
<1>1. /\ SyncThenWrite(d) /\ Goto(p, "fill") /\ UNCHANGED <<lock, marker, clientVars>>
      /\ pc[p] = "stage" /\ disk.pending = NoPending
  BY DEF StageMarker
<1>2. m \in Markers /\ disk \in Journals /\ Image(disk) BY DiskImage DEF IInv, CallType
<1>3. pc[p] \in Holding /\ "fill" \in Holding BY <1>1 DEF Holding
<1>4. Progress(p) /\ disk.root = "locked" BY <1>3 DEF IInv, Exclusion
<1>5. /\ disk.scratch /\ disk.done = NotDone /\ Fits(disk, m) /\ Purpose(m)
      /\ m.dest = "response" => Justified(m.seq, m.says)
  BY <1>1, <1>4 DEF Progress, WritingProgress, Writing
<1>6. disk' = d /\ surviving' = {disk, d} BY <1>1 DEF SyncThenWrite
<1>7. /\ d \in Journals /\ d.kind = disk.kind /\ d.root = disk.root /\ d.scratch = disk.scratch
      /\ d.intent = disk.intent /\ d.attempts = disk.attempts /\ d.answers = disk.answers
      /\ d.done = disk.done
      /\ d.pending = [dest |-> m.dest, seq |-> m.seq, says |-> m.says, whole |-> FALSE]
  BY <1>2, StageType
<1>8. m.dest \in Destinations /\ m.dest # "none" BY <1>2 DEF Markers, Destinations
<1>9. ASSUME NEW j, j = d PROVE Image(j)'
  <2>1. WellFormed(j)
    <3>1. Fits(j, j.pending) BY <1>5, <1>7, <1>9, FitsSame
    <3>2. WellFormed(disk) BY <1>2 DEF Image
    <3>3. j.pending.dest # "none" BY <1>7, <1>8, <1>9
    <3> QED BY <1>4, <1>5, <1>7, <1>9, <3>1, <3>2, <3>3 DEF WellFormed
  <2>2. Truthful(j)' BY <1>1, <1>2, <1>5, <1>7, <1>9 DEF Image, Truthful, Justified, clientVars
  <2>3. Recorded(j)' BY <1>1, <1>2, <1>7, <1>9 DEF Image, Recorded, clientVars
  <2>4. Linked(j)' BY <1>5, <1>6, <1>7, <1>9 DEF Linked, Claims
  <2> QED BY <2>1, <2>2, <2>3, <2>4 DEF Image
<1>10. ASSUME NEW j, j = disk PROVE Image(j)'
  <2>1. Linked(j)' BY <1>1, <1>5, <1>6, <1>7, <1>10 DEF Linked, Claims, NoPending
  <2> QED BY <1>1, <1>2, <1>10, <2>1 DEF Image, Truthful, Justified, Recorded, clientVars
<1>11. DiskType' BY <1>2, <1>6, <1>7 DEF DiskType
<1>12. pc'[p] = "fill" /\ marker'[p] = m /\ reply'[p] = reply[p] /\ opts'[p] = opts[p]
  BY <1>1 DEF IInv, CallType, Goto
<1>13. Progress(p)'
  <2>1. WritingProgress(p)'
    BY <1>5, <1>6, <1>7, <1>12 DEF WritingProgress, Purpose
  <2>2. RequestProgress(p)' BY <1>12 DEF RequestProgress
  <2> QED BY <1>1, <1>4, <1>12, <2>1, <2>2 DEF Progress, Unanswered, Sending, Writing, Unlocked, Holding, clientVars
<1>14. \A j \in surviving' : Image(j)' BY <1>6, <1>9, <1>10
<1> QED BY <1>1, <1>3, <1>5, <1>6, <1>7, <1>11, <1>13, <1>14, WriteKeeps

\* A journal with something staged is not complete, and its images are those
\* with and without the staged marker.
LEMMA StagedImages ==
  ASSUME IInv, disk.pending # NoPending
  PROVE  /\ disk.done = NotDone /\ disk.scratch /\ disk.pending.dest # "none"
         /\ \A j \in surviving :
              /\ j.attempts = disk.attempts /\ j.done = NotDone
              /\ j.pending.dest \in {"none", disk.pending.dest}
BY DiskImage DEF IInv, Image, WellFormed, Linked, Claims

LEMMA FillMarkerKeeps == ASSUME IInv, NEW p \in Proc, FillMarker(p) PROVE IInv'
<1>1. /\ disk' = Fill(disk) /\ surviving' = {Fill(j) : j \in surviving} /\ Goto(p, "commit")
      /\ UNCHANGED <<lock, marker, clientVars>> /\ pc[p] = "fill"
  BY DEF FillMarker
<1>2. pc[p] \in Holding /\ "commit" \in Holding BY <1>1 DEF Holding
<1>3. Progress(p) /\ marker[p] \in Markers BY DEF IInv, CallType
<1>4. /\ disk.pending.dest = marker[p].dest /\ disk.pending.seq = marker[p].seq
      /\ disk.pending.says = marker[p].says /\ Purpose(marker[p])
  BY <1>1, <1>3 DEF Progress, WritingProgress, Writing
<1>5. disk.pending # NoPending
  BY <1>3, <1>4 DEF Markers, Destinations, NoPending
<1>6. ASSUME NEW k \in surviving
      PROVE  /\ Fill(k) \in Journals /\ Fill(k).kind = k.kind /\ Fill(k).root = k.root
             /\ Fill(k).scratch = k.scratch /\ Fill(k).intent = k.intent
             /\ Fill(k).attempts = k.attempts /\ Fill(k).answers = k.answers /\ Fill(k).done = k.done
             /\ Fill(k).pending.dest = k.pending.dest /\ Fill(k).pending.seq = k.pending.seq
             /\ Fill(k).pending.says = k.pending.says
             /\ k.pending = NoPending => Fill(k).pending = NoPending
  <2>1. k \in Journals BY DEF IInv, DiskType
  <2>2. k.pending \in Pendings BY <2>1, Fields
  <2>3. Fill(k).pending = [k.pending EXCEPT !.whole = (k.pending.dest # "none")] BY <2>1, FillType
  <2>4. /\ Fill(k).pending.dest = k.pending.dest /\ Fill(k).pending.seq = k.pending.seq
        /\ Fill(k).pending.says = k.pending.says
    BY <2>2, <2>3 DEF Pendings
  <2>5. k.pending = NoPending => Fill(k).pending = NoPending
    <3>1. [NoPending EXCEPT !.whole = FALSE] = NoPending
      <4>1. [NoPending EXCEPT !.whole = FALSE] \in Pendings /\ NoPending \in Pendings
        BY Zero DEF Pendings
      <4>2. ~[NoPending EXCEPT !.whole = FALSE].whole /\ ~NoPending.whole BY DEF NoPending
      <4> QED BY <4>1, <4>2 DEF Pendings, NoPending
    <3>2. (NoPending.dest # "none") = FALSE BY DEF NoPending
    <3> QED BY <2>3, <3>1, <3>2, Zenon
  <2> QED BY <2>1, <2>4, <2>5, FillType
<1>7. disk \in surviving /\ disk \in Journals BY DEF IInv, DiskType
<1>8. DiskType' BY <1>1, <1>6, <1>7 DEF DiskType
<1>9. ASSUME NEW k \in surviving, NEW j, j = Fill(k) PROVE Image(j)'
  <2>1. Image(k) BY DEF IInv
  <2>2. WellFormed(j)
    <3>1. Fits(j, j.pending) BY <1>6, <1>9, <2>1, FitsSame DEF Image, WellFormed
    <3>2. CompletionAgrees(j, k.done.seq, k.done.says) <=> CompletionAgrees(k, k.done.seq, k.done.says)
      BY <1>6, <1>9, FitsSame DEF CompletionAgrees, StopCompletionAgrees, RemoveCompletionAgrees
    <3> QED BY <1>6, <1>9, <2>1, <3>1, <3>2 DEF Image, WellFormed
  <2>3. Truthful(j)' BY <1>1, <1>6, <1>9, <2>1 DEF Image, Truthful, Justified, clientVars
  <2>4. Recorded(j)' BY <1>1, <1>6, <1>9, <2>1 DEF Image, Recorded, clientVars
  <2>5. Linked(j)' BY <1>1, <1>5, <1>6, <1>7, <1>9, <2>1, StagedImages DEF Image, Linked, Claims
  <2> QED BY <2>2, <2>3, <2>4, <2>5 DEF Image
<1>10. \A j \in surviving' : Image(j)' BY <1>1, <1>9
<1>11. pc'[p] = "commit" /\ marker'[p] = marker[p] /\ reply'[p] = reply[p] /\ opts'[p] = opts[p]
  BY <1>1 DEF IInv, CallType, Goto
<1>12. Progress(p)'
  <2>1. WritingProgress(p)' BY <1>1, <1>4, <1>6, <1>7, <1>11 DEF WritingProgress, Purpose
  <2>2. RequestProgress(p)' BY <1>11 DEF RequestProgress
  <2> QED BY <1>1, <1>3, <1>11, <2>1, <2>2 DEF Progress, Unanswered, Sending, Writing, Unlocked, Holding, clientVars
<1> QED BY <1>1, <1>2, <1>5, <1>6, <1>7, <1>8, <1>10, <1>12, StagedImages, WriteKeeps

\* A published marker, when it fits, leaves a journal that is well formed.
LEMMA CommitImage ==
  ASSUME NEW j \in Journals, WellFormed(j), Truthful(j), Recorded(j), j.pending # NoPending,
         posts \in [Attempts -> Nat]
  PROVE  /\ WellFormed(Commit(j)) /\ Truthful(Commit(j)) /\ Recorded(Commit(j))
         /\ Commit(j).attempts = j.attempts \/ Commit(j).attempts = j.attempts + 1
         /\ j.pending.dest # "attempt" => Commit(j).attempts = j.attempts
         /\ j.pending.dest # "complete" => Commit(j).done = NotDone
         /\ j.pending.dest = "complete" => Commit(j).done # NotDone
<1> DEFINE c == Commit(j)
<1>1. /\ j.done = NotDone /\ j.scratch /\ j.root = "locked" /\ Fits(j, j.pending)
      /\ j.pending.dest # "none"
  BY DEF WellFormed
<1>2. /\ c \in Journals /\ c.pending = NoPending /\ c.kind = j.kind /\ c.root = j.root
      /\ c.scratch = j.scratch /\ c.intent = (j.intent \/ j.pending.dest = "intent")
      /\ c.attempts = IF j.pending.dest = "attempt" THEN j.pending.seq ELSE j.attempts
      /\ c.answers = IF j.pending.dest = "response"
                     THEN [j.answers EXCEPT ![j.pending.seq] = j.pending.says] ELSE j.answers
      /\ c.done = IF j.pending.dest = "complete"
                  THEN [seq |-> j.pending.seq, says |-> j.pending.says] ELSE j.done
  BY CommitType
<1>3. j.attempts \in Nat /\ j.pending.seq \in Nat /\ j.answers \in [Attempts -> Sayings]
      /\ \A i \in Attempts : i \in Nat
  BY Fields, Counts
<1>4. Fits(c, c.pending) BY <1>2 DEF Fits, NoPending
<1>5. \A i \in Attempts : i > c.attempts => c.answers[i] = "none"
  BY <1>1, <1>2, <1>3 DEF WellFormed, Fits
<1>6. j.pending.dest = "complete" =>
        /\ c.done = [seq |-> j.pending.seq, says |-> j.pending.says] /\ c.done # NotDone
        /\ CompletionAgrees(c, c.done.seq, c.done.says)
  <2>1. j.pending.dest = "complete" => CompletionAgrees(j, j.pending.seq, j.pending.says)
    BY <1>1 DEF Fits
  <2>2. j.pending.dest = "complete" => CompletionAgrees(c, j.pending.seq, j.pending.says)
    BY <1>2, <2>1 DEF CompletionAgrees, StopCompletionAgrees, RemoveCompletionAgrees
  <2>3. CompletionAgrees(j, j.pending.seq, j.pending.says) => j.pending.seq # 0
    BY <1>3 DEF CompletionAgrees, StopCompletionAgrees, RemoveCompletionAgrees
  <2> QED BY <1>2, <2>1, <2>2, <2>3 DEF NotDone
<1>7. WellFormed(c)
  BY <1>1, <1>2, <1>4, <1>5, <1>6 DEF WellFormed, Fits, NoPending
<1>8. Truthful(c)
  BY <1>1, <1>2, <1>3 DEF Truthful, Justified, NoPending
<1>9. Recorded(c)
  BY <1>1, <1>2, <1>3 DEF Recorded, Fits
<1> QED BY <1>1, <1>2, <1>6, <1>7, <1>8, <1>9 DEF Fits

LEMMA CommitMarkerKeeps == ASSUME IInv, NEW p \in Proc, CommitMarker(p) PROVE IInv'
<1> DEFINE m == marker[p]
           c == Commit(disk)
<1>1. /\ disk' = c /\ surviving' = surviving \cup {c} /\ Goto(p, "confirm")
      /\ UNCHANGED <<lock, marker, clientVars>> /\ pc[p] = "commit"
  BY DEF CommitMarker, Write
<1>2. pc[p] \in Holding /\ "confirm" \in Holding BY <1>1 DEF Holding
<1>3. Progress(p) /\ m \in Markers /\ posts \in [Attempts -> Nat] BY DEF IInv, CallType, ClientType
<1>4. /\ disk.pending.dest = m.dest /\ disk.pending.seq = m.seq /\ disk.pending.says = m.says
      /\ Purpose(m)
  BY <1>1, <1>3 DEF Progress, WritingProgress, Writing
<1>5. disk.pending # NoPending BY <1>3, <1>4 DEF Markers, Destinations, NoPending
<1>6. /\ disk \in Journals /\ WellFormed(disk) /\ Truthful(disk) /\ Recorded(disk)
      /\ disk \in surviving /\ Fits(disk, disk.pending)
  BY DiskImage DEF Image, WellFormed, IInv, DiskType
<1>7. /\ WellFormed(c) /\ Truthful(c) /\ Recorded(c)
      /\ c.attempts = disk.attempts \/ c.attempts = disk.attempts + 1
      /\ m.dest # "attempt" => c.attempts = disk.attempts
      /\ m.dest # "complete" => c.done = NotDone
      /\ m.dest = "complete" => c.done # NotDone
  BY <1>3, <1>4, <1>5, <1>6, CommitImage
<1>8. /\ c \in Journals /\ c.pending = NoPending /\ c.kind = disk.kind /\ c.root = disk.root
      /\ c.intent = (disk.intent \/ m.dest = "intent")
      /\ c.attempts = IF m.dest = "attempt" THEN m.seq ELSE disk.attempts
      /\ c.answers = IF m.dest = "response" THEN [disk.answers EXCEPT ![m.seq] = m.says]
                     ELSE disk.answers
  BY <1>4, <1>6, CommitType
<1>9. DiskType' BY <1>1, <1>8 DEF IInv, DiskType
<1>10. ASSUME NEW j \in surviving PROVE Image(j)'
  <2>1. Image(j) /\ j.attempts = disk.attempts /\ j.done = NotDone
        /\ j.pending.dest \in {"none", m.dest}
    BY <1>4, <1>5, StagedImages DEF IInv
  <2>2. Linked(j)' BY <1>1, <1>4, <1>7, <1>8, <2>1, StagedImages DEF Image, Linked, Claims
  <2> QED BY <1>1, <2>1, <2>2 DEF Image, Truthful, Justified, Recorded, clientVars
<1>11. ASSUME NEW j, j = c PROVE Image(j)'
  <2>1. Linked(j)' BY <1>1, <1>8, <1>11 DEF Linked, Claims
  <2> QED BY <1>1, <1>7, <1>11, <2>1 DEF Image, Truthful, Justified, Recorded, clientVars
<1>12. \A j \in surviving' : Image(j)' BY <1>1, <1>10, <1>11
<1>13. pc'[p] = "confirm" /\ marker'[p] = m /\ reply'[p] = reply[p] /\ opts'[p] = opts[p]
       /\ posts' = posts
  BY <1>1 DEF IInv, CallType, Goto, clientVars
<1>14. Landed(m)'
  <2>1. disk.done = NotDone BY <1>5, StagedImages
  <2>2. /\ disk.attempts \in Nat /\ m.seq \in AttemptCounts /\ m.seq \in Nat
        /\ disk.answers \in [Attempts -> Sayings]
    BY <1>3, <1>6, Fields, Counts DEF Markers
  <2>3. CASE m.dest = "intent"
    BY <1>1, <1>4, <1>6, <1>7, <1>8, <1>13, <2>3 DEF Landed, Open, WellFormed, Fits
  <2>4. CASE m.dest = "attempt"
    <3>1. disk.intent /\ m.seq = disk.attempts + 1 BY <1>4, <1>6, <2>4 DEF Fits
    <3>2. m.seq \in Attempts BY <2>2, <3>1, Counts
    <3>3. posts[m.seq] = 0 BY <1>3, <1>6, <2>2, <3>1, <3>2 DEF Recorded
    <3>4. disk.answers[m.seq] = "none" BY <1>6, <2>2, <3>1, <3>2 DEF WellFormed
    <3> QED BY <1>1, <1>7, <1>8, <1>13, <2>4, <3>1, <3>2, <3>3, <3>4 DEF Landed, Open
  <2>5. CASE m.dest = "response"
    <3>1. disk.intent /\ m.seq \in 1..disk.attempts /\ m.says # "none" BY <1>4, <1>6, <2>5 DEF Fits
    <3>2. m.seq \in Attempts BY <1>6, <3>1, Fields, Counts
    <3> QED BY <1>1, <1>7, <1>8, <1>13, <2>2, <2>5, <3>1, <3>2 DEF Landed, Open
  <2>6. CASE m.dest = "complete"
    BY <1>1, <1>7, <1>8, <1>13, <2>6 DEF Landed
  <2> QED BY <1>3, <2>3, <2>4, <2>5, <2>6 DEF Markers, Destinations
<1>15. Progress(p)'
  <2>1. Purpose(m)' BY <1>1, <1>4, <1>8, <1>13 DEF Purpose
  <2>2. WritingProgress(p)' BY <1>13, <1>14, <2>1 DEF WritingProgress
  <2>3. RequestProgress(p)' BY <1>13 DEF RequestProgress
  <2> QED BY <1>1, <1>3, <1>13, <2>2, <2>3 DEF Progress, Unanswered, Sending, Writing, Unlocked, Holding
<1> QED BY <1>1, <1>2, <1>5, <1>8, <1>9, <1>12, <1>15, StagedImages, WriteKeeps

\* After the sync the published journal is the only image.
LEMMA ConfirmMarkerKeeps == ASSUME IInv, NEW p \in Proc, ConfirmMarker(p) PROVE IInv'
<1> DEFINE m == marker[p]
<1>1. /\ pc[p] = "confirm" /\ disk' = disk /\ surviving' = {disk} /\ UNCHANGED clientVars
  BY DEF ConfirmMarker, Sync
<1>2. Narrow BY <1>1 DEF Narrow, IInv, DiskType
<1>3. Progress(p) /\ m \in Markers BY DEF IInv, CallType
<1>4. Purpose(m) /\ Landed(m) BY <1>1, <1>3 DEF Progress, WritingProgress
<1>5. CASE m.then = "report" /\ Return(p, "complete")
  <2>1. disk.done # NotDone BY <1>4, <1>5 DEF Purpose, Landed
  <2> QED BY <1>1, <1>2, <1>5, <2>1, ReturnKeeps DEF Outcomes
<1>6. CASE m.then # "report" /\ Goto(p, m.then) /\ UNCHANGED <<lock, marker>>
  <2>1. m.then \in {"observe", "load", "send", "verify"} BY <1>3, <1>6 DEF Markers, Continuations
  <2>2. m.then \in Holding /\ pc[p] \in Holding BY <1>1, <2>1 DEF Holding
  <2>3. pc'[p] = m.then /\ marker'[p] = m /\ reply'[p] = reply[p] /\ opts'[p] = opts[p]
    BY <1>6 DEF IInv, CallType, Goto
  <2>4. WritingProgress(p)' BY <2>1, <2>3 DEF WritingProgress, Writing
  <2>5. RequestProgress(p)'
    <3>1. CASE m.then = "observe"
      BY <1>1, <1>4, <2>3, <3>1 DEF Purpose, Landed, RequestProgress, Open
    <3>2. CASE m.then = "load"
      BY <2>3, <3>2 DEF RequestProgress
    <3>3. CASE m.then = "send"
      BY <1>1, <1>4, <2>3, <3>3 DEF Purpose, Landed, RequestProgress, Open, clientVars
    <3>4. CASE m.then = "verify"
      <4>1. disk.attempts \in AttemptCounts BY DiskImage, Fields
      <4>2. m.seq \in Attempts /\ m.seq = disk.attempts
        BY <1>4, <3>4, <4>1, Counts DEF Purpose, Landed
      <4> QED BY <1>1, <1>4, <2>3, <3>4, <4>2 DEF Purpose, Landed, RequestProgress, Open
    <3> QED BY <2>1, <3>1, <3>2, <3>3, <3>4
  <2>6. Progress(p)'
    BY <1>1, <1>3, <2>1, <2>3, <2>4, <2>5 DEF Progress, Unanswered, Sending, Writing, Unlocked, clientVars
  <2>7. marker' = [marker EXCEPT ![p] = m] BY <1>6 DEF IInv, CallType
  <2> QED BY <1>1, <1>2, <1>3, <1>6, <2>2, <2>6, <2>7, ReadKeeps
<1> QED BY <1>5, <1>6 DEF ConfirmMarker

-----------------------------------------------------------------------------
(* openJournal.                                                            *)

LEMMA OpenJournalKeeps == ASSUME IInv, NEW p \in Proc, OpenJournal(p) PROVE IInv'
<1>1. CASE /\ disk.root = "locked" /\ lock = Nobody /\ lock' = p /\ Goto(p, "load")
           /\ UNCHANGED marker
  <2>1. Narrow /\ UNCHANGED clientVars /\ pc[p] = "open" BY QuietIsNarrow DEF OpenJournal
  <2>2. DiskType' /\ ClientType' /\ \A j \in surviving' : Image(j)' BY <2>1, NarrowKeeps
  <2>3. \A q \in Proc : pc[q] \notin Holding BY <1>1, NobodyAssumption DEF IInv, CallType
  <2>4. \A q \in Proc : pc[q] # "newlock" BY <1>1 DEF IInv, Exclusion
  <2>5. pc'[p] = "load" /\ reply'[p] = reply[p] BY <1>1 DEF IInv, CallType, Goto
  <2>6. reply[p] = "none" BY <2>1 DEF IInv, Progress, Unanswered, Unlocked
  <2>7. Progress(p)' BY <2>5, <2>6 DEF Progress, WritingProgress, RequestProgress, Sending, Writing
  <2>8. marker' = [marker EXCEPT ![p] = marker[p]] /\ marker[p] \in Markers BY <1>1 DEF IInv, CallType
  <2>9. "load" \in Holding BY DEF Holding
  <2> QED BY <1>1, <2>1, <2>2, <2>3, <2>4, <2>7, <2>8, <2>9, EnterKeeps DEF Goto, Narrow
<1>2. CASE Return(p, "none")
  BY <1>2, QuietReturnKeeps DEF OpenJournal
<1> QED BY <1>1, <1>2 DEF OpenJournal

-----------------------------------------------------------------------------
(* Under the lock: what the journal shows, and what is written next.       *)

\* A lock holder starts to write the marker m that the journal lacks.
LEMMA PlanKeeps ==
  ASSUME IInv, NEW p \in Proc, pc[p] \in Holding, NEW step \in {"scratch", "stage"}, Goto(p, step),
         NEW m \in Markers, marker' = [marker EXCEPT ![p] = m],
         UNCHANGED <<lock, disk, surviving, clientVars>>,
         step = "scratch" => m.dest = "intent", step = "stage" => disk.scratch,
         disk.pending = NoPending, disk.done = NotDone, Fits(disk, m), Purpose(m),
         m.dest = "response" => Justified(m.seq, m.says),
         m.then \in {"observe", "load", "send"} => reply[p] = "none",
         m.then = "send" => opts[p].repeat \/ \A i \in Attempts : posts[i] = 0
  PROVE  IInv'
<1>1. Narrow BY QuietIsNarrow
<1>2. pc'[p] = step /\ marker'[p] = m /\ reply'[p] = reply[p] /\ opts'[p] = opts[p]
  BY DEF IInv, CallType, Goto
<1>3. WritingProgress(p)'
  BY <1>2 DEF WritingProgress, Writing, Fits, CompletionAgrees, StopCompletionAgrees,
     RemoveCompletionAgrees, Purpose, Justified, clientVars
<1>4. RequestProgress(p)' BY <1>2 DEF RequestProgress
<1>5. Progress(p)'
  BY <1>2, <1>3, <1>4 DEF Progress, Unanswered, Sending, Writing, Unlocked, clientVars
<1>6. step \in Holding BY DEF Holding
<1> QED BY <1>1, <1>5, <1>6, ReadKeeps

\* Whoever is past the lock works in a directory with a lock file.
LEMMA HeldKeeps ==
  ASSUME IInv, NEW p \in Proc, pc[p] \in Holding
  PROVE  disk.root = "locked" /\ Progress(p) /\ marker[p] \in Markers /\ opts[p] \in Options
BY DEF IInv, Exclusion, CallType

LEMMA LoadEndsKeeps == ASSUME IInv, NEW p \in Proc, LoadEnds(p) PROVE IInv'
BY QuietReturnKeeps DEF LoadEnds

LEMMA LoadInitializesKeeps == ASSUME IInv, NEW p \in Proc, LoadInitializes(p) PROVE IInv'
<1> DEFINE m == [dest |-> "intent", seq |-> 0, says |-> "none", then |-> "load"]
           step == IF disk.scratch THEN "stage" ELSE "scratch"
<1>1. /\ pc[p] = "load" /\ Goto(p, step) /\ marker' = [marker EXCEPT ![p] = m]
      /\ UNCHANGED <<lock, disk, surviving, clientVars>>
      /\ ~disk.intent /\ disk.done = NotDone /\ disk.pending = NoPending
  BY DEF LoadInitializes, WriteMarker, Uninitialized, Complete, diskVars
<1>2. pc[p] \in Holding /\ step \in {"scratch", "stage"} BY <1>1 DEF Holding
<1>3. m \in Markers BY Zero DEF Markers, Destinations, Sayings, Continuations
<1>4. Fits(disk, m) /\ Purpose(m) BY <1>1 DEF Fits, Purpose
<1>5. reply[p] = "none" BY <1>1 DEF IInv, Progress, Unanswered
<1>6. step = "stage" => disk.scratch OBVIOUS
<1> HIDE DEF m, step
<1>7. m.dest = "intent" /\ m.then = "load" BY DEF m
<1> QED BY <1>1, <1>2, <1>3, <1>4, <1>5, <1>6, <1>7, PlanKeeps

LEMMA LoadRepublishesKeeps == ASSUME IInv, NEW p \in Proc, LoadRepublishes(p) PROVE IInv'
<1> DEFINE m == [dest |-> disk.pending.dest, seq |-> disk.pending.seq,
                 says |-> disk.pending.says, then |-> "load"]
<1>1. /\ pc[p] = "load" /\ Goto(p, "commit") /\ marker' = [marker EXCEPT ![p] = m]
      /\ UNCHANGED <<lock, disk, surviving, clientVars>>
      /\ disk.pending.dest \in {"intent", "response", "complete"}
  BY DEF LoadRepublishes, WriteMarker, diskVars
<1>2. pc[p] \in Holding /\ "commit" \in Holding BY <1>1 DEF Holding
<1>3. m \in Markers BY <1>1, DiskImage, Fields DEF Markers, Destinations, Continuations
<1>4. reply[p] = "none" BY <1>1 DEF IInv, Progress, Unanswered
<1>5. pc'[p] = "commit" /\ marker'[p] = m /\ reply'[p] = reply[p]
  BY <1>1 DEF IInv, CallType, Goto
<1>6. WritingProgress(p)'
  BY <1>1, <1>5 DEF WritingProgress, Writing, Purpose
<1>7. RequestProgress(p)' BY <1>5 DEF RequestProgress
<1>8. Progress(p)' BY <1>4, <1>5, <1>6, <1>7 DEF Progress, Sending
<1>9. Narrow BY <1>1, QuietIsNarrow
<1> QED BY <1>1, <1>2, <1>3, <1>8, <1>9, ReadKeeps

LEMMA LoadDiscardsKeeps == ASSUME IInv, NEW p \in Proc, LoadDiscards(p) PROVE IInv'
<1> DEFINE d == Discard(disk)
<1>1. /\ pc[p] = "load" /\ disk' = d /\ surviving' = {d} /\ UNCHANGED <<lock, callVars, clientVars>>
      /\ disk.pending.dest = "attempt"
  BY DEF LoadDiscards
<1>2. disk \in Journals /\ Image(disk) /\ disk.pending # NoPending /\ disk.done = NotDone
  BY <1>1, DiskImage, StagedImages DEF NoPending
<1>3. /\ d \in Journals /\ d.pending = NoPending /\ d.kind = disk.kind /\ d.root = disk.root
      /\ d.scratch = disk.scratch /\ d.intent = disk.intent /\ d.attempts = disk.attempts
      /\ d.answers = disk.answers /\ d.done = disk.done
  BY <1>2, DiscardType
<1>4. ASSUME NEW j, j = d PROVE Image(j)'
  <2>1. WellFormed(j) BY <1>2, <1>3, <1>4 DEF Image, WellFormed, Fits, NoPending
  <2>2. Truthful(j)' BY <1>1, <1>2, <1>3, <1>4 DEF Image, Truthful, Justified, NoPending, clientVars
  <2>3. Recorded(j)' BY <1>1, <1>2, <1>3, <1>4 DEF Image, Recorded, clientVars
  <2>4. Linked(j)' BY <1>1, <1>3, <1>4 DEF Linked, Claims
  <2> QED BY <2>1, <2>2, <2>3, <2>4 DEF Image
<1>5. \A j \in surviving' : Image(j)' BY <1>1, <1>4
<1>6. DiskType' BY <1>1, <1>3 DEF DiskType
<1>7. pc[p] \in Holding /\ reply[p] = "none" BY <1>1 DEF Holding, IInv, Progress, Unanswered
<1>8. Progress(p)'
  BY <1>1, <1>7 DEF Progress, WritingProgress, RequestProgress, Sending, Writing, callVars
<1>9. Goto(p, "load") BY <1>1 DEF Goto, callVars, IInv, CallType
<1> QED BY <1>1, <1>2, <1>3, <1>5, <1>6, <1>7, <1>8, <1>9, WriteKeeps DEF callVars

LEMMA LoadReadsKeeps == ASSUME IInv, NEW p \in Proc, LoadReads(p) PROVE IInv'
<1>1. /\ pc[p] = "load" /\ ~Uninitialized(disk) /\ Recoverable(p) /\ disk.pending = NoPending
      /\ UNCHANGED clientVars /\ disk' = disk
      /\ IsStop => surviving' = {disk}
      /\ surviving' = {disk} \/ surviving' = surviving
  BY DEF LoadReads, Sync
<1>2. Narrow BY <1>1 DEF IInv, DiskType, Narrow
<1>3. disk.intent
  BY <1>1 DEF Recoverable, Resumable, InitializationRecovers, ChainAgrees
<1>4. pc[p] \in Holding /\ reply[p] = "none" BY <1>1 DEF Holding, IInv, Progress, Unanswered
<1>5. marker' = marker => marker' = [marker EXCEPT ![p] = marker[p]] /\ marker[p] \in Markers
  BY DEF IInv, CallType
<1>6. CASE Goto(p, "ledger") /\ UNCHANGED <<lock, marker>>
  <2>1. pc'[p] = "ledger" /\ reply'[p] = "none" BY <1>4, <1>6 DEF IInv, CallType, Goto
  <2>2. Progress(p)'
    BY <1>1, <1>3, <2>1 DEF Progress, WritingProgress, RequestProgress, Sending, Writing, IsStop
  <2>3. "ledger" \in Holding BY DEF Holding
  <2> QED BY <1>1, <1>2, <1>4, <1>5, <1>6, <2>2, <2>3, ReadKeeps
<1>7. CASE disk.attempts = 0 /\ ~Complete(disk) /\ Goto(p, "observe") /\ UNCHANGED <<lock, marker>>
  <2>1. pc'[p] = "observe" /\ reply'[p] = "none" BY <1>4, <1>7 DEF IInv, CallType, Goto
  <2>2. Progress(p)'
    BY <1>1, <1>3, <1>7, <2>1 DEF Progress, WritingProgress, RequestProgress, Sending, Writing, Open, Complete
  <2>3. "observe" \in Holding BY DEF Holding
  <2> QED BY <1>1, <1>2, <1>4, <1>5, <1>7, <2>2, <2>3, ReadKeeps
<1>8. CASE Return(p, "none")
  BY <1>1, <1>2, <1>8, ReturnKeeps DEF Outcomes
<1> QED BY <1>6, <1>7, <1>8 DEF LoadReads

-----------------------------------------------------------------------------
(* What is decided from the journal and the downloader.                    *)

\* No attempt, no request.
LEMMA NothingPosted ==
  ASSUME IInv, disk.attempts = 0
  PROVE  \A i \in Attempts : posts[i] = 0
<1>1. Recorded(disk) /\ posts \in [Attempts -> Nat] BY DiskImage DEF Image, IInv, ClientType
<1> QED BY <1>1, Counts DEF Recorded, Attempts

\* The job is read again and a request may follow.
LEMMA DecideKeeps ==
  ASSUME IInv, NEW p \in Proc, pc[p] \in {"observe", "ledger"}, Goto(p, "act"),
         UNCHANGED <<lock, marker, disk, surviving, clientVars>>,
         Open, disk.attempts < MaxAttempts,
         opts[p].repeat \/ \A i \in Attempts : posts[i] = 0
  PROVE  IInv'
<1>1. Narrow BY QuietIsNarrow
<1>2. pc[p] \in Holding /\ "act" \in Holding /\ reply[p] = "none"
  BY DEF Holding, IInv, Progress, Unanswered
<1>3. pc'[p] = "act" /\ reply'[p] = "none" /\ opts'[p] = opts[p] BY <1>2 DEF IInv, CallType, Goto
<1>4. Progress(p)'
  BY <1>3 DEF Progress, WritingProgress, RequestProgress, Sending, Writing, Open, clientVars
<1>5. marker' = [marker EXCEPT ![p] = marker[p]] /\ marker[p] \in Markers BY DEF IInv, CallType
<1> QED BY <1>1, <1>2, <1>4, <1>5, ReadKeeps

LEMMA ObserveKeeps == ASSUME IInv, NEW p \in Proc, Observe(p) PROVE IInv'
<1>1. CASE Goto(p, "act") /\ UNCHANGED <<lock, marker>>
  <2>1. Open /\ disk.attempts = 0 BY DEF Observe, IInv, Progress, RequestProgress
  <2>2. disk.attempts < MaxAttempts BY <2>1, MaxAttemptsAssumption
  <2> QED BY <1>1, <2>1, <2>2, NothingPosted, DecideKeeps DEF Observe
<1>2. CASE Return(p, "none")
  BY <1>2, QuietReturnKeeps DEF Observe
<1> QED BY <1>1, <1>2 DEF Observe

LEMMA ResumeCompleteKeeps == ASSUME IInv, NEW p \in Proc, ResumeComplete(p) PROVE IInv'
<1>1. /\ pc[p] = "ledger" /\ disk.done # NotDone /\ UNCHANGED <<disk, surviving, clientVars>>
      /\ Return(p, IF Settled THEN "already" ELSE "none")
  BY DEF ResumeComplete, Complete
<1>2. IsStop => surviving = {disk} BY <1>1 DEF IInv, Progress, RequestProgress
<1> QED BY <1>1, <1>2, QuietIsNarrow, ReturnKeeps DEF Outcomes

\* A completion that agrees with the journal is written.
LEMMA CompletionKeeps ==
  ASSUME IInv, NEW p \in Proc, pc[p] \in {"ledger", "verify"}, Open,
         NEW seq \in AttemptCounts, NEW says \in Sayings, CompletionAgrees(disk, seq, says),
         WriteCompletion(p, seq, says), UNCHANGED <<lock, disk, surviving, clientVars>>
  PROVE  IInv'
<1> DEFINE m == [dest |-> "complete", seq |-> seq, says |-> says, then |-> "report"]
<1>1. Goto(p, "stage") /\ marker' = [marker EXCEPT ![p] = m]
  BY DEF WriteCompletion, WriteMarker
<1>2. m \in Markers BY DEF Markers, Destinations, Continuations
<1>3. pc[p] \in Holding BY DEF Holding
<1>4. Fits(disk, m) /\ Purpose(m) BY DEF Fits, Purpose, Open
<1>5. disk.scratch /\ disk.pending = NoPending /\ disk.done = NotDone
  BY DiskImage DEF Open, Image, WellFormed
<1> HIDE DEF m
<1>6. m.dest = "complete" /\ m.then = "report" BY DEF m
<1> QED BY <1>1, <1>2, <1>3, <1>4, <1>5, <1>6, PlanKeeps

LEMMA StopResumeSettledKeeps == ASSUME IInv, NEW p \in Proc, StopResumeSettled(p) PROVE IInv'
<1>1. /\ pc[p] = "ledger" /\ disk.done = NotDone /\ disk.kind = "stop"
      /\ UNCHANGED <<disk, surviving, clientVars>>
  BY DEF StopResumeSettled, Complete, IsStop
<1>2. Open BY <1>1 DEF IInv, Progress, RequestProgress, Open
<1>3. CASE \E i \in StopCompletionAttempt(disk) : WriteCompletion(p, i, "unknown") /\ UNCHANGED lock
  <2>1. PICK i \in StopCompletionAttempt(disk) : WriteCompletion(p, i, "unknown") /\ UNCHANGED lock
    BY <1>3
  <2>2. CompletionAgrees(disk, i, "unknown")
    BY <1>1 DEF StopCompletionAttempt, CompletionAgrees, StopCompletionAgrees
  <2>3. i \in AttemptCounts BY DiskImage, Fields, Counts DEF StopCompletionAttempt
  <2>4. "unknown" \in Sayings BY DEF Sayings
  <2> QED BY <1>1, <1>2, <2>1, <2>2, <2>3, <2>4, CompletionKeeps
<1>4. CASE Return(p, "none")
  BY <1>1, <1>4, QuietReturnKeeps
<1> QED BY <1>3, <1>4 DEF StopResumeSettled

LEMMA RemoveResumeSettledKeeps == ASSUME IInv, NEW p \in Proc, RemoveResumeSettled(p) PROVE IInv'
<1>1. /\ pc[p] = "ledger" /\ disk.done = NotDone /\ disk.kind # "stop"
      /\ UNCHANGED <<disk, surviving, clientVars>>
  BY DEF RemoveResumeSettled, Complete, IsStop
<1>2. Open BY <1>1 DEF IInv, Progress, RequestProgress, Open
<1>3. CASE disk.attempts > 0
  <2> DEFINE says == IF disk.answers[disk.attempts] = "accepted" THEN "accepted" ELSE "unknown"
  <2>1. WriteCompletion(p, disk.attempts, says) /\ UNCHANGED lock
    BY <1>3 DEF RemoveResumeSettled
  <2>2. CompletionAgrees(disk, disk.attempts, says)
    BY <1>1, <1>3 DEF CompletionAgrees, RemoveCompletionAgrees
  <2>3. disk.attempts \in AttemptCounts BY DiskImage, Fields
  <2>4. says \in Sayings BY DEF Sayings
  <2> HIDE DEF says
  <2> QED BY <1>1, <1>2, <2>1, <2>2, <2>3, <2>4, CompletionKeeps
<1>4. CASE ~(disk.attempts > 0)
  BY <1>1, <1>4, QuietReturnKeeps DEF RemoveResumeSettled
<1> QED BY <1>3, <1>4

\* Without the repeat acknowledgement every attempt is one that sent nothing.
LEMMA UnsentMeansNothingPosted ==
  ASSUME IInv, ~EffectfulPossible(disk)
  PROVE  \A i \in Attempts : posts[i] = 0
<1>1. /\ Truthful(disk) /\ Recorded(disk) /\ posts \in [Attempts -> Nat] /\ disk.attempts \in Nat
  BY DiskImage, Fields, Counts DEF Image, IInv, ClientType
<1>2. ASSUME NEW i \in Attempts PROVE posts[i] = 0
  <2>1. i \in Nat /\ i > 0 BY Counts DEF Attempts
  <2>2. CASE i > disk.attempts BY <1>1, <2>1, <2>2 DEF Recorded
  <2>3. CASE i \in 1..disk.attempts
    <3>1. disk.answers[i] = "unsent" BY <2>3 DEF EffectfulPossible
    <3> QED BY <1>1, <3>1 DEF Truthful, Justified
  <2> QED BY <1>1, <2>1, <2>2, <2>3
<1> QED BY <1>2

LEMMA ResumeRequestsKeeps == ASSUME IInv, NEW p \in Proc, ResumeRequests(p) PROVE IInv'
<1>1. /\ pc[p] = "ledger" /\ disk.done = NotDone /\ UNCHANGED <<disk, surviving, clientVars>>
  BY DEF ResumeRequests, Complete
<1>2. CASE disk.attempts < MaxAttempts /\ Acknowledged(p) /\ Goto(p, "act") /\ UNCHANGED <<lock, marker>>
  <2>1. Open BY <1>1 DEF IInv, Progress, RequestProgress, Open
  <2>2. opts[p].repeat \/ ~EffectfulPossible(disk)
    BY <1>2 DEF Acknowledged, StopAcknowledged, RemoveAcknowledged
  <2> QED BY <1>1, <1>2, <2>1, <2>2, UnsentMeansNothingPosted, DecideKeeps
<1>3. CASE Return(p, "none")
  BY <1>1, <1>3, QuietReturnKeeps
<1> QED BY <1>2, <1>3 DEF ResumeRequests

-----------------------------------------------------------------------------
(* executeAttempt.                                                         *)

LEMMA AppendAttemptKeeps == ASSUME IInv, NEW p \in Proc, AppendAttempt(p) PROVE IInv'
<1> DEFINE m == [dest |-> "attempt", seq |-> disk.attempts + 1, says |-> "none", then |-> "send"]
<1>1. /\ pc[p] = "act" /\ Goto(p, "stage") /\ marker' = [marker EXCEPT ![p] = m]
      /\ UNCHANGED <<lock, disk, surviving, clientVars>>
  BY DEF AppendAttempt, WriteMarker, diskVars
<1>2. pc[p] \in Holding BY <1>1 DEF Holding
<1>3. /\ Open /\ disk.attempts < MaxAttempts /\ reply[p] = "none"
      /\ opts[p].repeat \/ \A i \in Attempts : posts[i] = 0
  BY <1>1 DEF IInv, Progress, RequestProgress, Unanswered, Sending
<1>4. disk.attempts + 1 \in AttemptCounts
  BY <1>3, DiskImage, Fields, MaxAttemptsAssumption DEF AttemptCounts
<1>5. m \in Markers BY <1>4 DEF Markers, Destinations, Continuations, Sayings
<1>6. Fits(disk, m) /\ Purpose(m) BY <1>3 DEF Fits, Purpose, Open
<1>7. disk.scratch /\ disk.pending = NoPending /\ disk.done = NotDone
  BY <1>3, DiskImage DEF Open, Image, WellFormed
<1>8. m.dest = "attempt" OBVIOUS
<1> HIDE DEF m
<1> QED BY <1>1, <1>2, <1>3, <1>5, <1>6, <1>7, <1>8, PlanKeeps

LEMMA SendRequestKeeps == ASSUME IInv, NEW p \in Proc, SendRequest(p) PROVE IInv'
<1> DEFINE s == marker[p].seq
<1>1. /\ pc[p] = "send" /\ posts' = [posts EXCEPT ![s] = @ + 1] /\ wire' = wire \cup {s}
      /\ Goto(p, "await") /\ UNCHANGED <<lock, disk, surviving, marker, job, confirmed>>
  BY DEF SendRequest, diskVars
<1>2. pc[p] \in Holding /\ "await" \in Holding BY <1>1 DEF Holding
<1>3. /\ surviving = {disk} /\ Open /\ s = disk.attempts /\ s \in Attempts /\ posts[s] = 0
      /\ disk.answers[s] = "none" /\ reply[p] = "none"
  BY <1>1 DEF IInv, Progress, RequestProgress, Unanswered
<1>4. posts \in [Attempts -> Nat] /\ \A i \in Attempts : posts[i] <= 1 BY DEF IInv, ClientType
<1>5. ClientType' BY <1>1, <1>3, <1>4 DEF IInv, ClientType
<1>6. DiskType' BY <1>1 DEF IInv, DiskType
<1>7. /\ pc'[p] = "await" /\ marker'[p] = marker[p] /\ reply'[p] = "none" /\ opts'[p] = opts[p]
  BY <1>1, <1>3 DEF IInv, CallType, Goto
<1>8. Image(disk)'
  <2>1. Image(disk) /\ disk.pending.dest # "response" BY <1>3, DiskImage DEF Open, NoPending
  <2>2. Truthful(disk)' BY <1>1, <1>3, <1>4, <2>1 DEF Image, Truthful, Justified
  <2>3. Recorded(disk)'
    <3>1. ASSUME NEW i \in Attempts, posts'[i] > 0 PROVE disk.attempts >= i
      <4>1. i = s \/ posts'[i] = posts[i] BY <1>1, <1>4
      <4> QED BY <1>3, <2>1, <3>1, <4>1, Counts DEF Image, Recorded
    <3> QED BY <1>1, <3>1 DEF Recorded
  <2>4. Linked(disk)' BY <1>1, <2>1 DEF Image, Linked, Claims
  <2> QED BY <1>1, <2>1, <2>2, <2>3, <2>4 DEF Image, WellFormed, Fits, CompletionAgrees,
         StopCompletionAgrees, RemoveCompletionAgrees
<1>9. \A j \in surviving' : Image(j)'
  <2>1. ASSUME NEW j, j = disk' PROVE Image(j)' BY <1>1, <1>8, <2>1 DEF Image, Truthful, Recorded,
         Linked, Claims, WellFormed, Justified, Fits
  <2> QED BY <1>1, <1>3, <2>1
<1>10. Progress(p)'
  <2>1. WritingProgress(p)' BY <1>7 DEF WritingProgress, Writing
  <2>2. RequestProgress(p)'
    BY <1>1, <1>3, <1>7 DEF RequestProgress, Open, Justified
  <2> QED BY <1>7, <2>1, <2>2 DEF Progress, Sending, Writing
<1>11. marker' = [marker EXCEPT ![p] = marker[p]] /\ marker[p] \in Markers
       /\ reply' = [reply EXCEPT ![p] = reply[p]] /\ reply[p] \in Sayings
  BY <1>1 DEF IInv, CallType, Goto
<1>12. disk.done = NotDone BY <1>3 DEF Open
<1> QED BY <1>1, <1>2, <1>5, <1>6, <1>9, <1>10, <1>11, <1>12, HolderKeeps DEF Goto

\* A receipt that needs no answer of the downloader.
LEMMA ReceiptKeeps ==
  ASSUME IInv, NEW p \in Proc, pc[p] \in {"send", "await"}, pc' = [pc EXCEPT ![p] = "await"],
         NEW r \in Sayings, reply' = [reply EXCEPT ![p] = r], Justified(marker[p].seq, r),
         UNCHANGED <<diskVars, opts, seen, marker, outcome, clientVars>>
  PROVE  IInv'
<1>1. pc[p] \in Holding /\ "await" \in Holding BY DEF Holding
<1>2. Narrow BY QuietIsNarrow DEF diskVars
<1>3. DiskType' /\ ClientType' /\ \A j \in surviving' : Image(j)' BY <1>2, NarrowKeeps
<1>4. pc'[p] = "await" /\ reply'[p] = r BY DEF IInv, CallType
<1>5. RequestProgress(p) BY DEF IInv, Progress
<1>6. RequestProgress(p)'
  BY <1>4, <1>5 DEF RequestProgress, Open, Justified, clientVars, diskVars
<1>7. Progress(p)' BY <1>4, <1>6 DEF Progress, WritingProgress, Unanswered, Sending, Writing, Unlocked
<1>8. marker' = [marker EXCEPT ![p] = marker[p]] /\ marker[p] \in Markers BY DEF IInv, CallType
<1> QED BY <1>1, <1>2, <1>3, <1>7, <1>8, HolderKeeps DEF diskVars

LEMMA SendNothingKeeps == ASSUME IInv, NEW p \in Proc, SendNothing(p) PROVE IInv'
<1>1. Justified(marker[p].seq, "unsent")
  BY DEF SendNothing, IInv, Progress, RequestProgress, Justified
<1>2. "unsent" \in Sayings BY DEF Sayings
<1> QED BY <1>1, <1>2, ReceiptKeeps DEF SendNothing

LEMMA LoseReplyKeeps == ASSUME IInv, NEW p \in Proc, LoseReply(p) PROVE IInv'
<1>1. "unknown" \in Sayings /\ Justified(marker[p].seq, "unknown") BY DEF Sayings, Justified
<1>2. pc' = [pc EXCEPT ![p] = "await"] BY DEF LoseReply, IInv, CallType
<1> QED BY <1>1, <1>2, ReceiptKeeps DEF LoseReply

LEMMA AppendResponseKeeps == ASSUME IInv, NEW p \in Proc, AppendResponse(p) PROVE IInv'
<1> DEFINE m == [dest |-> "response", seq |-> marker[p].seq, says |-> reply[p], then |-> "verify"]
<1>1. /\ pc[p] = "await" /\ reply[p] # "none" /\ Goto(p, "stage") /\ marker' = [marker EXCEPT ![p] = m]
      /\ UNCHANGED <<lock, disk, surviving, clientVars>>
  BY DEF AppendResponse, WriteMarker, diskVars
<1>2. pc[p] \in Holding BY <1>1 DEF Holding
<1>3. /\ Open /\ marker[p].seq = disk.attempts /\ marker[p].seq \in Attempts
      /\ disk.answers[marker[p].seq] = "none" /\ Justified(marker[p].seq, reply[p])
  BY <1>1 DEF IInv, Progress, RequestProgress
<1>4. marker[p].seq \in AttemptCounts /\ reply[p] \in Sayings BY <1>3, Counts DEF IInv, CallType
<1>5. m \in Markers BY <1>4 DEF Markers, Destinations, Continuations
<1>6. marker[p].seq \in 1..disk.attempts BY <1>3, Counts DEF Attempts
<1>7. Fits(disk, m) /\ Purpose(m) BY <1>1, <1>3, <1>6 DEF Fits, Purpose, Open
<1>8. disk.scratch /\ disk.pending = NoPending /\ disk.done = NotDone
  BY <1>3, DiskImage DEF Open, Image, WellFormed
<1>9. m.dest = "response" /\ m.then = "verify" /\ Justified(m.seq, m.says) BY <1>3
<1> HIDE DEF m
<1> QED BY <1>1, <1>2, <1>5, <1>7, <1>8, <1>9, PlanKeeps

LEMMA VerifySettledKeeps == ASSUME IInv, NEW p \in Proc, VerifySettled(p) PROVE IInv'
<1> DEFINE s == marker[p].seq
<1>1. /\ pc[p] = "verify" /\ disk.answers[s] # "unsent" /\ WriteCompletion(p, s, disk.answers[s])
      /\ UNCHANGED <<lock, disk, surviving, clientVars>>
  BY DEF VerifySettled, diskVars
<1>2. Open /\ s = disk.attempts /\ s \in Attempts
  BY <1>1 DEF IInv, Progress, RequestProgress
<1>3. s \in AttemptCounts /\ disk.answers[s] \in Sayings BY <1>2, Counts, DiskImage, Fields
<1>4. s \in Nat /\ s > 0 BY <1>2, Counts DEF Attempts
<1>5. CompletionAgrees(disk, s, disk.answers[s])
  BY <1>1, <1>2, <1>4 DEF CompletionAgrees, StopCompletionAgrees, RemoveCompletionAgrees
<1> QED BY <1>1, <1>2, <1>3, <1>5, CompletionKeeps

LEMMA VerifyNotProvenKeeps == ASSUME IInv, NEW p \in Proc, VerifyNotProven(p) PROVE IInv'
BY QuietReturnKeeps DEF VerifyNotProven

-----------------------------------------------------------------------------
(* The downloader and failure.                                             *)

\* Outside the invocations only receipts arrive, and what was confirmed stays.
LEMMA OutsideKeeps ==
  ASSUME IInv, UNCHANGED <<diskVars, pc, opts, seen, marker, outcome, posts>>,
         job' \in JobStates, wire' \subseteq Attempts,
         confirmed \subseteq confirmed', confirmed' \subseteq Attempts,
         reply' \in [Proc -> Sayings],
         \A p \in Proc :
           \/ reply'[p] = reply[p]
           \/ pc[p] = "await" /\ Justified(marker[p].seq, reply[p])'
  PROVE  IInv'
<1>1. DiskType' /\ CallType' /\ ClientType'
  BY DEF IInv, DiskType, CallType, ClientType, diskVars
<1>2. ASSUME NEW j \in surviving PROVE Image(j)'
  BY DEF IInv, Image, WellFormed, Fits, CompletionAgrees, StopCompletionAgrees,
         RemoveCompletionAgrees, Truthful, Justified, Recorded, Linked, Claims, diskVars
<1>3. Exclusion' BY DEF IInv, Exclusion, diskVars
<1>4. ASSUME NEW p \in Proc PROVE Progress(p)' /\ Reported(p)'
  <2>1. Progress(p) /\ Reported(p) BY DEF IInv
  <2>2. WritingProgress(p)'
    BY <2>1 DEF Progress, WritingProgress, Fits, CompletionAgrees, StopCompletionAgrees,
       RemoveCompletionAgrees, Justified, Purpose, Landed, Open, diskVars
  <2>3. RequestProgress(p)'
    BY <2>1 DEF Progress, RequestProgress, Justified, Open, IsStop, diskVars
  <2>4. Reported(p)' BY <2>1 DEF Reported, IsStop, diskVars
  <2> QED BY <2>1, <2>2, <2>3, <2>4 DEF Progress, Unanswered, Sending, Writing, Unlocked
<1> QED BY <1>1, <1>2, <1>3, <1>4 DEF IInv, diskVars

LEMMA ClientKeeps ==
  ASSUME IInv, NEW i \in Attempts,
         ClientAccepts(i) \/ ClientExecutes(i) \/ ClientRefuses(i) \/ LoseRequest(i)
  PROVE  IInv'
<1>1. /\ UNCHANGED <<diskVars, pc, opts, seen, marker, outcome, posts>> /\ wire' \subseteq wire
      /\ job' \in JobStates
  BY DEF ClientAccepts, ClientExecutes, ClientRefuses, LoseRequest, callVars, IInv, ClientType, JobStates
<1>2. confirmed \subseteq confirmed' /\ confirmed' \subseteq Attempts
  BY DEF ClientAccepts, ClientExecutes, ClientRefuses, LoseRequest, Confirm, IInv, ClientType
<1>3. wire' \subseteq Attempts BY <1>1 DEF IInv, ClientType
<1>4. CASE Answer(i, "accepted") /\ Confirm(i)
  <2>1. reply' \in [Proc -> Sayings] BY <1>4 DEF Answer, IInv, CallType, Sayings
  <2>2. ASSUME NEW p \in Proc, reply'[p] # reply[p]
        PROVE  pc[p] = "await" /\ Justified(marker[p].seq, reply[p])'
    <3>1. p \in Awaiting(i) /\ reply'[p] = "accepted" BY <1>4, <2>2 DEF Answer
    <3>2. pc[p] = "await" /\ marker[p].seq = i BY <3>1 DEF Awaiting
    <3>3. i \in confirmed' BY <1>4, <3>1 DEF Confirm
    <3> QED BY <1>1, <3>1, <3>2, <3>3 DEF Justified
  <2> QED BY <1>1, <1>2, <1>3, <2>1, <2>2, OutsideKeeps
<1>5. CASE Answer(i, "unknown")
  <2>1. reply' \in [Proc -> Sayings] BY <1>5 DEF Answer, IInv, CallType, Sayings
  <2>2. ASSUME NEW p \in Proc, reply'[p] # reply[p]
        PROVE  pc[p] = "await" /\ Justified(marker[p].seq, reply[p])'
    BY <1>5, <2>2 DEF Answer, Awaiting, Justified
  <2> QED BY <1>1, <1>2, <1>3, <2>1, <2>2, OutsideKeeps
<1>6. CASE LoseRequest(i)
  <2>1. reply' = reply /\ reply \in [Proc -> Sayings] BY <1>6 DEF LoseRequest, callVars, IInv, CallType
  <2> QED BY <1>1, <1>2, <1>3, <2>1, OutsideKeeps
<1> QED BY <1>4, <1>5, <1>6 DEF ClientAccepts, ClientExecutes, ClientRefuses

LEMMA OthersKeep == ASSUME IInv, OthersChangeJob PROVE IInv'
<1>1. reply' = reply /\ reply \in [Proc -> Sayings] /\ job' \in JobStates
      /\ UNCHANGED <<wire, confirmed>> /\ wire \subseteq Attempts /\ confirmed \subseteq Attempts
  BY DEF OthersChangeJob, callVars, IInv, CallType, ClientType
<1> QED BY <1>1, OutsideKeeps DEF OthersChangeJob, callVars

LEMMA AbortKeeps == ASSUME IInv, NEW p \in Proc, Abort(p) PROVE IInv'
BY QuietReturnKeeps DEF Abort

LEMMA PowerLossKeeps == ASSUME IInv, PowerLoss PROVE IInv'
<1>1. PICK j \in surviving : disk' = j /\ surviving' = {j} BY DEF PowerLoss
<1>2. /\ lock' = Nobody /\ pc' = [p \in Proc |-> "idle"] /\ reply' = [p \in Proc |-> "none"]
      /\ outcome' = [p \in Proc |-> "none"] /\ opts' = [p \in Proc |-> NoOptions]
      /\ seen' = [p \in Proc |-> "absent"] /\ marker' = [p \in Proc |-> NoMarker]
      /\ UNCHANGED clientVars
  BY DEF PowerLoss
<1>3. DiskType' /\ ClientType'
  BY <1>1, <1>2 DEF IInv, DiskType, ClientType, clientVars
<1>4. CallType'
  BY <1>2, DefaultTypes, NobodyAssumption DEF CallType, Outcomes
<1>5. Image(j) /\ j \in Journals BY DEF IInv, DiskType
<1>6. ASSUME NEW k, k = j PROVE Image(k)'
  <2>1. Linked(k)' BY <1>1, <1>5, <1>6 DEF Linked, Claims, Image, WellFormed
  <2> QED BY <1>1, <1>2, <1>5, <1>6, <2>1 DEF Image, WellFormed, Fits, CompletionAgrees,
         StopCompletionAgrees, RemoveCompletionAgrees, Truthful, Justified, Recorded, clientVars
<1>7. \A k \in surviving' : Image(k)' BY <1>1, <1>6
<1>8. Exclusion' BY <1>2 DEF Exclusion, Holding
<1>9. ASSUME NEW p \in Proc PROVE Progress(p)' /\ Reported(p)'
  BY <1>2 DEF Progress, WritingProgress, RequestProgress, Sending, Writing, Reported
<1> QED BY <1>3, <1>4, <1>7, <1>8, <1>9 DEF IInv

-----------------------------------------------------------------------------
(* The invariant.                                                          *)

LEMMA NoJournalType ==
  ASSUME NEW kind \in Kinds
  PROVE  /\ NoJournal(kind) \in Journals /\ NoJournal(kind).root = "none"
         /\ NoJournal(kind).kind = kind /\ ~NoJournal(kind).scratch /\ ~NoJournal(kind).intent
         /\ NoJournal(kind).pending = NoPending /\ NoJournal(kind).attempts = 0
         /\ NoJournal(kind).answers = [i \in Attempts |-> "none"] /\ NoJournal(kind).done = NotDone
BY Zero, DefaultTypes DEF NoJournal, Journals

LEMMA InitKeeps == ASSUME Init PROVE IInv
<1>1. PICK kind \in Kinds : disk = NoJournal(kind) /\ surviving = {NoJournal(kind)} BY DEF Init
<1>2. DiskType BY <1>1, NoJournalType DEF DiskType
<1>3. CallType
  BY DefaultTypes, NobodyAssumption DEF Init, NothingRuns, CallType, Outcomes
<1>4. ClientType BY DEF Init, NothingSent, ClientType, JobStates
<1>5. Image(disk)
  <2>1. WellFormed(disk) BY <1>1, NoJournalType DEF WellFormed, Fits, NoPending
  <2>2. Truthful(disk) /\ Recorded(disk)
    BY <1>1, NoJournalType DEF Truthful, Justified, Recorded, NoPending, Init, NothingSent
  <2>3. Linked(disk) BY <1>1, NoJournalType DEF Linked, Claims
  <2> QED BY <2>1, <2>2, <2>3 DEF Image
<1>6. Exclusion BY DEF Init, NothingRuns, Exclusion, Holding
<1>7. ASSUME NEW p \in Proc PROVE Progress(p) /\ Reported(p)
  BY DEF Init, NothingRuns, Progress, WritingProgress, RequestProgress, Sending, Writing, Reported
<1> QED BY <1>1, <1>2, <1>3, <1>4, <1>5, <1>6, <1>7 DEF IInv

LEMMA StutterKeeps == ASSUME IInv, UNCHANGED vars PROVE IInv'
<1>1. reply' = reply /\ reply \in [Proc -> Sayings] /\ job' \in JobStates
      /\ UNCHANGED <<wire, confirmed>> /\ wire \subseteq Attempts /\ confirmed \subseteq Attempts
  BY DEF vars, callVars, clientVars, IInv, CallType, ClientType
<1> QED BY <1>1, OutsideKeeps DEF vars, callVars, clientVars

LEMMA InvocationKeeps == ASSUME IInv, NEW p \in Proc, Invocation(p) PROVE IInv'
BY PreflightKeeps, PrepareUseKeeps, MakeRootKeeps, MakeLockKeeps, MakeScratchKeeps,
   StageMarkerKeeps, FillMarkerKeeps, CommitMarkerKeeps, ConfirmMarkerKeeps, OpenJournalKeeps,
   LoadEndsKeeps, LoadInitializesKeeps, LoadRepublishesKeeps, LoadDiscardsKeeps, LoadReadsKeeps,
   ObserveKeeps, ResumeCompleteKeeps, StopResumeSettledKeeps, RemoveResumeSettledKeeps,
   ResumeRequestsKeeps, AppendAttemptKeeps, SendRequestKeeps, SendNothingKeeps, LoseReplyKeeps,
   AppendResponseKeeps, VerifySettledKeeps, VerifyNotProvenKeeps DEF Invocation

LEMMA NextKeeps == ASSUME IInv, [Next]_vars PROVE IInv'
<1>1. CASE \E p \in Proc : StartRun(p) \/ StartResume(p) BY <1>1, StartCommandKeeps
<1>2. CASE \E p \in Proc : Invocation(p) BY <1>2, InvocationKeeps
<1>3. CASE \E p \in Proc : Abort(p) BY <1>3, AbortKeeps
<1>4. CASE \E i \in Attempts :
             ClientAccepts(i) \/ ClientExecutes(i) \/ ClientRefuses(i) \/ LoseRequest(i)
  BY <1>4, ClientKeeps
<1>5. CASE OthersChangeJob BY <1>5, OthersKeep
<1>6. CASE PowerLoss BY <1>6, PowerLossKeeps
<1>7. CASE UNCHANGED vars BY <1>7, StutterKeeps
<1> QED BY <1>1, <1>2, <1>3, <1>4, <1>5, <1>6, <1>7 DEF Next

\* Every reachable state satisfies the invariant, whatever runs, fails or is
\* lost in between (the whole of client stop and client removal).
THEOREM InvariantHolds == Spec => []IInv
<1>1. Init => IInv BY InitKeeps
<1>2. IInv /\ [Next]_vars => IInv' BY NextKeeps
<1> QED BY <1>1, <1>2, PTL DEF Spec

\* Every reachable state is well typed: one lock holder at most, and only
\* journals that the marker writer can produce.
THEOREM ControlTypeCorrect == Spec => []TypeOK
BY InvariantHolds, TypeParts, PTL

-----------------------------------------------------------------------------
(* The journal is an honest account.                                       *)

LEMMA RequestsFollow == IInv => RequestsAreRecorded
<1> SUFFICES ASSUME IInv PROVE RequestsAreRecorded OBVIOUS
<1>1. ASSUME NEW j \in surviving, NEW i \in Attempts, posts[i] > 0 PROVE j.attempts >= i
  BY <1>1 DEF IInv, Image, Recorded
<1>2. ASSUME NEW j \in surviving, NEW p \in Proc, pc[p] \in {"send", "await"}
      PROVE j.attempts = marker[p].seq
  BY <1>2 DEF IInv, Progress, RequestProgress
<1>3. \A i \in Attempts : posts[i] <= 1 BY DEF IInv, ClientType
<1> QED BY <1>1, <1>2, <1>3 DEF RequestsAreRecorded

LEMMA AnswersFollow == IInv => AnswersAreTrue
BY DEF IInv, Image, Truthful, Justified, AnswersAreTrue

\* What a completion says rests on the answers beside it.
LEMMA CompletionFollows ==
  ASSUME IInv, NEW j \in surviving, NEW seq \in AttemptCounts, NEW says \in Sayings,
         CompletionAgrees(j, seq, says)
  PROVE  /\ seq \in 1..j.attempts
         /\ says = "accepted" => seq \in confirmed /\ j.answers[seq] = "accepted"
         /\ \A i \in Attempts : i > seq => posts[i] = 0
         /\ IsStop => j.answers[seq] # "unsent"
<1>1. /\ Truthful(j) /\ Recorded(j) /\ j.kind = disk.kind /\ posts \in [Attempts -> Nat]
      /\ j \in Journals
  BY DEF IInv, Image, Linked, ClientType, DiskType
<1>2. j.attempts \in Nat /\ seq \in Nat /\ \A i \in Attempts : i \in Nat BY <1>1, Fields, Counts
<1>3. /\ seq \in 1..j.attempts
      /\ says = "accepted" => j.answers[seq] = "accepted"
      /\ \A i \in (seq + 1)..j.attempts : j.answers[i] = "unsent"
      /\ IsStop => j.answers[seq] # "unsent"
  BY <1>1, <1>2 DEF CompletionAgrees, StopCompletionAgrees, RemoveCompletionAgrees, IsStop
<1>4. seq \in Attempts BY <1>1, <1>3, Fields, Counts
<1>5. ASSUME NEW i \in Attempts, i > seq PROVE posts[i] = 0
  <2>1. CASE i > j.attempts BY <1>1, <1>2, <2>1 DEF Recorded
  <2>2. CASE i \in (seq + 1)..j.attempts BY <1>1, <1>3, <2>2 DEF Truthful, Justified
  <2> QED BY <1>2, <1>5, <2>1, <2>2
<1> QED BY <1>1, <1>3, <1>4, <1>5 DEF Truthful, Justified

LEMMA CompletionsFollow == IInv => CompletionIsHonest
<1> SUFFICES ASSUME IInv, NEW j \in surviving, Claim(j) # NotDone
             PROVE  /\ Claim(j).seq \in 1..j.attempts
                    /\ Claim(j).says = "accepted" =>
                         Claim(j).seq \in confirmed /\ j.answers[Claim(j).seq] = "accepted"
                    /\ \A i \in Attempts : i > Claim(j).seq => posts[i] = 0
                    /\ IsStop => j.answers[Claim(j).seq] # "unsent"
  BY DEF CompletionIsHonest
<1>1. WellFormed(j) /\ j \in Journals BY DEF IInv, Image, DiskType
<1>2. Claim(j).seq \in AttemptCounts /\ Claim(j).says \in Sayings
  BY <1>1, Fields, Zero DEF Claim, Completions
<1>3. CompletionAgrees(j, Claim(j).seq, Claim(j).says)
  BY <1>1 DEF Claim, WellFormed, Fits, Complete
<1> QED BY <1>2, <1>3, CompletionFollows

\* The journal is an honest account (executeAttempt, openJournal,
\* completeStopped, completeAbsence): every request is covered by an attempt
\* that no power loss can remove and was sent once, and neither a response nor
\* a completion says more of an attempt than its sender learned.
THEOREM JournalIsHonest == Spec => []HonestJournal
<1>1. IInv => HonestJournal
  BY RequestsFollow, AnswersFollow, CompletionsFollow DEF HonestJournal
<1> QED BY <1>1, InvariantHolds, PTL

-----------------------------------------------------------------------------
(* Reports and recovery survive crashes.                                   *)

LEMMA ReportsFollow == IInv => ReportsAreDurable
BY DEF IInv, Reported, ReportsAreDurable, Complete

\* A well-formed journal with its lock file advances, unless what is staged
\* is torn.
LEMMA IntactAdvances ==
  ASSUME NEW j \in Journals, WellFormed(j), j.root = "locked",
         j.pending.dest = "none" \/ j.pending.whole
  PROVE  Advances(j)
<1> DEFINE run == [mode |-> "run", ack |-> TRUE, repeat |-> FALSE]
           resume == [mode |-> "resume", ack |-> TRUE, repeat |-> TRUE]
<1>1. run \in Options /\ resume \in Options /\ run.mode = "run" /\ resume.mode = "resume"
      /\ resume.ack /\ resume.repeat
  BY DEF Options, Modes
<1> HIDE DEF run, resume
<1>2. CASE ~j.intent
  <2>1. Uninitialized(j) /\ j.pending.dest \in {"none", "intent"}
    BY <1>2, Fields DEF WellFormed, Uninitialized, Complete, Fits, Destinations
  <2>2. Resumable(j) BY <2>1 DEF Resumable, InitializationRecovers, WellFormed
  <2>3. ~ChainAgrees(j) BY <1>2 DEF ChainAgrees
  <2>4. Inspection(j) = "uninitialized" BY <2>1, <2>3 DEF Inspection
  <2>5. Route(run, j) # "refuse" BY <1>1, <2>4 DEF Route, RunRoute
  <2> QED BY <1>1, <2>2, <2>5 DEF Advances
<1>3. CASE j.intent
  <2>1. ChainAgrees(j) /\ ~Uninitialized(j)
    BY <1>3 DEF WellFormed, ChainAgrees, Complete, Uninitialized
  <2>2. CASE j.pending = NoPending
    <3>1. Resumable(j) BY <2>1, <2>2 DEF Resumable
    <3>2. Inspection(j) = "readable" BY <2>1, <2>2 DEF Inspection
    <3>3. PreflightAllows(resume, j) BY <1>1 DEF PreflightAllows
    <3>4. Route(resume, j) # "refuse" BY <1>1, <3>2, <3>3 DEF Route, ResumeRoute
    <3> QED BY <1>1, <3>1, <3>4 DEF Advances
  <2>3. CASE j.pending # NoPending
    <3>1. /\ j.pending.whole /\ j.pending.dest \in {"attempt", "response", "complete"}
          /\ Fits(j, j.pending)
      BY <1>3, <2>3, Fields DEF WellFormed, Fits, Destinations
    <3>2. PendingAccepted(j) BY <3>1 DEF PendingAccepted, Fits
    <3>3. Resumable(j) BY <2>1, <3>2 DEF Resumable
    <3>4. Inspection(j) = IF j.kind = "stop" THEN "pending" ELSE "uninitialized"
      BY <2>1, <2>3 DEF Inspection
    <3>5. Route(resume, j) # "refuse" BY <1>1, <3>4 DEF Route, ResumeRoute
    <3> QED BY <1>1, <3>3, <3>5 DEF Advances
  <2> QED BY <2>2, <2>3
<1> QED BY <1>2, <1>3

LEMMA TearingFollows == IInv => OnlyTornStagingBlocks
<1> SUFFICES ASSUME IInv, NEW j \in surviving, ~Advances(j)
             PROVE  j.root \in {"none", "bare"} \/ (j.pending.dest # "none" /\ ~j.pending.whole)
  BY DEF OnlyTornStagingBlocks
<1>1. j \in Journals /\ WellFormed(j) BY DEF IInv, DiskType, Image
<1> QED BY <1>1, Fields, IntactAdvances

LEMMA RecoveryFollows == IInv => StopMarkerIsRecoverable
<1> SUFFICES ASSUME IInv, disk.kind = "stop", disk.intent,
                    disk.pending.dest \in {"response", "complete"}
             PROVE  \E o \in Options : Route(o, disk) = "open"
  BY DEF StopMarkerIsRecoverable, RecoveryIsReachable, IsStop
<1> DEFINE resume == [mode |-> "resume", ack |-> TRUE, repeat |-> TRUE]
<1>1. resume \in Options /\ resume.mode = "resume" BY DEF Options, Modes
<1>2. WellFormed(disk) /\ disk.pending # NoPending BY DiskImage DEF Image, NoPending
<1>3. disk.root = "locked" /\ ChainAgrees(disk) /\ ~Uninitialized(disk)
  BY <1>2 DEF WellFormed, ChainAgrees, Complete, Uninitialized
<1>4. Inspection(disk) = "pending" BY <1>2, <1>3 DEF Inspection
<1>5. Route(resume, disk) = "open" BY <1>1, <1>4 DEF Route, ResumeRoute
<1> QED BY <1>1, <1>5

\* Reports and recovery survive every crash and power loss (Status, Resume,
\* recoverPending): completion is reported only of a completion that every
\* image has, only torn staging or a directory without its lock file leaves an
\* operation no command can advance, and the staged answers of a stop stay
\* within reach of the open that publishes them.
THEOREM ControlIsCrashSafe == Spec => []CrashSafe
<1>1. IInv => CrashSafe
  BY ReportsFollow, TearingFollows, RecoveryFollows DEF CrashSafe
<1> QED BY <1>1, InvariantHolds, PTL

-----------------------------------------------------------------------------
(* The requests keep the promises of EffectLedger.                         *)

\* The attempts that every image of S has, when some image has no more.
LEMMA LeastAttempts ==
  ASSUME NEW S, NEW n \in AttemptCounts, \E j \in S : j.attempts = n, \A j \in S : j.attempts >= n
  PROVE  (CHOOSE k \in AttemptCounts :
            (\E j \in S : j.attempts = k) /\ (\A j \in S : j.attempts >= k)) = n
<1>1. \A k \in AttemptCounts :
        (\E j \in S : j.attempts = k) /\ (\A j \in S : j.attempts >= k) => k = n
  BY Counts
<1> QED BY <1>1

\* A power loss takes back the newest attempt at most, and none once an image
\* claims completion.
LEMMA DurableNow ==
  ASSUME IInv
  PROVE  /\ DurableAttempts \in AttemptCounts
         /\ \A j \in surviving : j.attempts \in {DurableAttempts, DurableAttempts + 1}
         /\ \E j \in surviving : j.attempts = DurableAttempts
         /\ (\E j \in surviving : Claims(j)) =>
              Claims(disk) /\ DurableAttempts > 0 /\ \A j \in surviving : j.attempts = DurableAttempts
<1>1. /\ disk \in surviving /\ disk.attempts \in AttemptCounts
      /\ \A j \in surviving : j \in Journals /\ Linked(j) /\ j.attempts \in AttemptCounts
      /\ disk.attempts \in Nat /\ \A j \in surviving : j.attempts \in Nat
      /\ WellFormed(disk)
  BY Fields, Counts DEF IInv, DiskType, Image
<1>2. /\ DurableAttempts \in AttemptCounts
      /\ \A j \in surviving : j.attempts \in {DurableAttempts, DurableAttempts + 1}
      /\ \E j \in surviving : j.attempts = DurableAttempts
  <2>1. CASE \A j \in surviving : j.attempts = disk.attempts
    <3>1. DurableAttempts = disk.attempts
      BY <1>1, <2>1, LeastAttempts, Counts DEF DurableAttempts
    <3> QED BY <1>1, <2>1, <3>1
  <2>2. ASSUME NEW k \in surviving, k.attempts # disk.attempts
        PROVE  /\ DurableAttempts \in AttemptCounts
               /\ \A j \in surviving : j.attempts \in {DurableAttempts, DurableAttempts + 1}
               /\ \E j \in surviving : j.attempts = DurableAttempts
    <3>1. k.attempts + 1 = disk.attempts BY <1>1, <2>2 DEF Linked
    <3>2. \A j \in surviving : j.attempts \in {k.attempts, k.attempts + 1}
      BY <1>1, <3>1 DEF Linked
    <3>3. \A j \in surviving : j.attempts >= k.attempts BY <1>1, <3>2
    <3>4. DurableAttempts = k.attempts
      BY <1>1, <3>3, LeastAttempts DEF DurableAttempts
    <3> QED BY <1>1, <3>2, <3>4
  <2> QED BY <2>1, <2>2
<1>3. ASSUME NEW k \in surviving, Claims(k)
      PROVE  Claims(disk) /\ DurableAttempts > 0 /\ \A j \in surviving : j.attempts = DurableAttempts
  <2>1. Claims(disk) BY <1>1, <1>3 DEF Linked
  <2>2. \A j \in surviving : j.attempts = disk.attempts BY <1>1, <2>1 DEF Linked, Claims, NoPending
  <2>3. disk.attempts > 0
    <3>1. \E seq, says : CompletionAgrees(disk, seq, says)
      BY <1>1, <2>1 DEF Claims, WellFormed, Fits
    <3> QED BY <1>1, <3>1 DEF CompletionAgrees, StopCompletionAgrees, RemoveCompletionAgrees
  <2> QED BY <1>2, <2>1, <2>2, <2>3
<1> QED BY <1>2, <1>3

\* The operation is settled: whatever a power loss leaves is complete, or is
\* completed by recovery.
SettledEverywhere == \A j \in surviving : Settling(j)

LEMMA SettledClaims ==
  ASSUME IInv, SettledEverywhere
  PROVE  /\ Settling(disk) /\ Claims(disk)
         /\ \A j \in surviving : Claims(j) /\ j.attempts = disk.attempts
<1>1. \A j \in surviving : Settling(j) => Claims(j) BY DEF Settling, Claims, Complete
<1>2. disk \in surviving BY DEF IInv, DiskType
<1>3. \A j \in surviving : j.attempts = DurableAttempts BY <1>1, <1>2, DurableNow DEF SettledEverywhere
<1> QED BY <1>1, <1>2, <1>3 DEF SettledEverywhere

\* The journal changes and no request is sent: an authorisation, a settlement
\* or nothing.
LEMMA JournalSteps ==
  ASSUME IInv, UNCHANGED posts,
         NEW n \in AttemptCounts, n \in {DurableAttempts, DurableAttempts + 1},
         \E j \in surviving' : j.attempts = n, \A j \in surviving' : j.attempts >= n,
         SettledEverywhere => SettledEverywhere',
         SettledEverywhere' => n = DurableAttempts /\ DurableAttempts > 0
  PROVE  [Ledger!Next]_(Ledger!vars)
<1>1. DurableAttempts \in AttemptCounts /\ DurableAttempts \in Nat BY DurableNow, Counts
<1>2. UNCHANGED {i \in Attempts : posts[i] > 0} OBVIOUS
<1>3. DurableAttempts' = n BY LeastAttempts DEF DurableAttempts
<1>4. CASE SettledEverywhere <=> SettledEverywhere'
  <2>1. UNCHANGED SettledEverywhere BY <1>4, Zenon
  <2>2. CASE DurableAttempts' = DurableAttempts
    BY <1>2, <2>1, <2>2, Zenon DEF Ledger!vars, SettledEverywhere
  <2>3. CASE DurableAttempts' # DurableAttempts
    <3>1. ~SettledEverywhere BY <1>3, <1>4, <2>3
    <3>2. DurableAttempts' = DurableAttempts + 1 BY <1>3, <2>3
    <3>3. DurableAttempts < MaxAttempts
      BY <1>1, <1>3, <3>2, MaxAttemptsAssumption DEF AttemptCounts
    <3> QED BY <1>2, <2>1, <3>1, <3>2, <3>3, Zenon DEF Ledger!Next, Ledger!Authorise, SettledEverywhere
  <2> QED BY <2>2, <2>3
<1>5. CASE ~SettledEverywhere /\ SettledEverywhere'
  <2>1. SettledEverywhere' = TRUE BY <1>5, Zenon
  <2>2. DurableAttempts > 0 /\ DurableAttempts' = DurableAttempts BY <1>3, <1>5
  <2> QED BY <1>2, <1>5, <2>1, <2>2, Zenon DEF Ledger!Next, Ledger!Settle, SettledEverywhere
<1> QED BY <1>4, <1>5

\* The images stay, and no request is sent.
LEMMA QuietSteps ==
  ASSUME UNCHANGED <<surviving, posts>>
  PROVE  [Ledger!Next]_(Ledger!vars)
<1>1. UNCHANGED {i \in Attempts : posts[i] > 0} OBVIOUS
<1>2. UNCHANGED DurableAttempts BY DEF DurableAttempts
<1>3. UNCHANGED SettledEverywhere BY DEF SettledEverywhere
<1> QED BY <1>1, <1>2, <1>3, Zenon DEF Ledger!vars, SettledEverywhere

\* A sync or a power loss keeps one image.
LEMMA OneImageSteps ==
  ASSUME IInv, NEW k \in surviving, surviving' = {k}, UNCHANGED posts
  PROVE  [Ledger!Next]_(Ledger!vars)
<1>1. k \in Journals /\ k.attempts \in AttemptCounts /\ k.attempts \in Nat
  BY Fields, Counts DEF IInv, DiskType
<1>2. k.attempts \in {DurableAttempts, DurableAttempts + 1} BY DurableNow
<1>3. SettledEverywhere' <=> Settling(k) BY DEF SettledEverywhere
<1>4. SettledEverywhere => Settling(k) BY DEF SettledEverywhere
<1>5. Settling(k) => Claims(k) BY DEF Settling, Claims, Complete
<1>6. Settling(k) => k.attempts = DurableAttempts /\ DurableAttempts > 0 BY <1>5, DurableNow
<1>7. \A j \in surviving' : j.attempts >= k.attempts BY <1>1
<1> QED BY <1>1, <1>2, <1>3, <1>4, <1>6, <1>7, JournalSteps

\* While nothing claims completion the attempts of every image stay.
LEMMA UnsettledSteps ==
  ASSUME IInv, UNCHANGED posts, surviving' # {}, \A j \in surviving' : j.attempts = disk.attempts,
         disk.done = NotDone, disk.pending.dest # "complete",
         \E j \in surviving' : ~Settling(j)
  PROVE  [Ledger!Next]_(Ledger!vars)
<1>1. disk \in surviving /\ disk.attempts \in AttemptCounts /\ disk.attempts \in Nat
  BY DiskImage, Fields, Counts DEF IInv, DiskType
<1>2. disk.attempts \in {DurableAttempts, DurableAttempts + 1} BY <1>1, DurableNow
<1>3. ~SettledEverywhere BY SettledClaims DEF Claims
<1>4. ~SettledEverywhere' BY DEF SettledEverywhere
<1> QED BY <1>1, <1>2, <1>3, <1>4, JournalSteps

\* A journal without a completion, published or staged whole, is not settled.
LEMMA NotSettling ==
  ASSUME NEW j, j.done = NotDone, j.pending.dest # "complete" \/ ~j.pending.whole
  PROVE  ~Settling(j)
BY DEF Settling, Complete

LEMMA FreshSteps ==
  ASSUME IInv, NEW p \in Proc, MakeRoot(p) \/ MakeLock(p) \/ MakeScratch(p)
  PROVE  [Ledger!Next]_(Ledger!vars)
<1>1. CASE UNCHANGED <<surviving, posts>> BY <1>1, QuietSteps
<1>2. ASSUME NEW d, d.attempts = disk.attempts, d.done = disk.done, d.pending = disk.pending,
             surviving' = surviving \cup {d} \/ surviving' = {disk, d},
             UNCHANGED posts, ~disk.scratch \/ ~disk.intent
      PROVE  [Ledger!Next]_(Ledger!vars)
  <2>1. ~disk.intent BY <1>2, DiskImage DEF Image, WellFormed
  <2>2. disk.done = NotDone /\ disk.attempts = 0 BY <2>1, FreshImages
  <2>3. disk.pending.dest # "complete" BY <2>1, DiskImage DEF Image, WellFormed, Fits
  <2>4. \A j \in surviving : j.attempts = disk.attempts
    <3>1. \A j \in surviving : Linked(j) /\ j.attempts \in Nat BY Fields, Counts DEF IInv, DiskType, Image
    <3> QED BY <2>2, <3>1 DEF Linked
  <2>5. ~Settling(d) BY <1>2, <2>2, <2>3, NotSettling
  <2>6. disk \in surviving BY DEF IInv, DiskType
  <2> QED BY <1>2, <2>2, <2>3, <2>4, <2>5, <2>6, UnsettledSteps
<1>3. disk \in Journals /\ WellFormed(disk) BY DiskImage DEF Image
<1>4. CASE MakeRoot(p) /\ disk.root = "none"
  <2> DEFINE d == [disk EXCEPT !.root = "bare"]
  <2>1. surviving' = surviving \cup {d} /\ UNCHANGED posts BY <1>4 DEF MakeRoot, Write, clientVars
  <2>2. d.attempts = disk.attempts /\ d.done = disk.done /\ d.pending = disk.pending
    BY <1>3 DEF Journals
  <2>3. ~disk.scratch BY <1>3, <1>4 DEF WellFormed
  <2> QED BY <1>2, <2>1, <2>2, <2>3
<1>5. CASE MakeRoot(p) /\ disk.root # "none"
  BY <1>1, <1>5 DEF MakeRoot, clientVars
<1>6. CASE MakeLock(p)
  <2> DEFINE d == [disk EXCEPT !.root = "locked"]
  <2>1. surviving' = {disk, d} /\ UNCHANGED posts BY <1>6 DEF MakeLock, SyncThenWrite, clientVars
  <2>2. d.attempts = disk.attempts /\ d.done = disk.done /\ d.pending = disk.pending
    BY <1>3 DEF Journals
  <2>3. disk.root = "bare" BY <1>6 DEF MakeLock, IInv, Exclusion
  <2>4. ~disk.scratch BY <1>3, <2>3 DEF WellFormed
  <2> QED BY <1>2, <2>1, <2>2, <2>4
<1>7. CASE MakeScratch(p)
  <2> DEFINE d == [disk EXCEPT !.scratch = TRUE]
  <2>1. surviving' = surviving \cup {d} /\ UNCHANGED posts BY <1>7 DEF MakeScratch, Write, clientVars
  <2>2. d.attempts = disk.attempts /\ d.done = disk.done /\ d.pending = disk.pending
    BY <1>3 DEF Journals
  <2>3. ~disk.intent
    BY <1>7 DEF MakeScratch, IInv, Progress, WritingProgress, Fits
  <2> QED BY <1>2, <2>1, <2>2, <2>3
<1> QED BY <1>4, <1>5, <1>6, <1>7

LEMMA StageSteps ==
  ASSUME IInv, NEW p \in Proc, StageMarker(p)
  PROVE  [Ledger!Next]_(Ledger!vars)
<1> DEFINE d == Stage(disk, marker[p])
<1>1. /\ surviving' = {disk, d} /\ UNCHANGED posts /\ disk.pending = NoPending /\ pc[p] = "stage"
  BY DEF StageMarker, SyncThenWrite, clientVars
<1>2. disk.done = NotDone BY <1>1 DEF IInv, Progress, WritingProgress
<1>3. disk \in Journals /\ marker[p] \in Markers BY DiskImage DEF IInv, CallType
<1>4. d.attempts = disk.attempts /\ d.done = NotDone /\ ~d.pending.whole
  <2>1. /\ d.attempts = disk.attempts /\ d.done = disk.done
        /\ d.pending = [dest |-> marker[p].dest, seq |-> marker[p].seq, says |-> marker[p].says,
                       whole |-> FALSE]
    BY <1>3, StageType
  <2>2. ~d.pending.whole BY <2>1
  <2> QED BY <1>2, <2>1, <2>2
<1>5. ~Settling(d) BY <1>4, NotSettling
<1>6. disk.pending.dest # "complete" BY <1>1 DEF NoPending
<1> QED BY <1>1, <1>2, <1>4, <1>5, <1>6, UnsettledSteps

\* Whole bytes of a staged completion settle the operation, when every image
\* has them.
LEMMA FillSteps ==
  ASSUME IInv, NEW p \in Proc, FillMarker(p)
  PROVE  [Ledger!Next]_(Ledger!vars)
<1>1. surviving' = {Fill(j) : j \in surviving} /\ UNCHANGED posts /\ pc[p] = "fill"
  BY DEF FillMarker, clientVars
<1>2. disk.pending.dest = marker[p].dest /\ marker[p] \in Markers
  BY <1>1 DEF IInv, CallType, Progress, WritingProgress
<1>3. disk.pending # NoPending BY <1>2 DEF Markers, Destinations, NoPending
<1>4. ASSUME NEW j \in surviving
      PROVE  /\ Fill(j).attempts = disk.attempts /\ j.attempts = disk.attempts
             /\ Fill(j).done = NotDone /\ j.done = NotDone
             /\ Fill(j).pending.dest = j.pending.dest
             /\ j.pending.dest = "complete" => Fill(j).pending.whole
  <2>1. j \in Journals BY DEF IInv, DiskType
  <2>2. Fill(j).pending = [j.pending EXCEPT !.whole = (j.pending.dest # "none")] /\ j.pending \in Pendings
    BY <2>1, FillType, Fields
  <2>3. Fill(j).pending.dest = j.pending.dest BY <2>2 DEF Pendings
  <2>4. j.pending.dest = "complete" => Fill(j).pending.whole BY <2>2 DEF Pendings
  <2> QED BY <1>3, <2>1, <2>3, <2>4, StagedImages, FillType
<1>5. disk \in surviving /\ disk.attempts \in AttemptCounts /\ disk.attempts \in Nat
  BY DiskImage, Fields, Counts DEF IInv, DiskType
<1>6. disk.attempts = DurableAttempts BY <1>4, <1>5, DurableNow
<1>7. SettledEverywhere => SettledEverywhere'
  BY <1>1, <1>4 DEF SettledEverywhere, Settling, Complete
<1>8. SettledEverywhere' => DurableAttempts > 0
  <2>1. SettledEverywhere' => Settling(Fill(disk)) BY <1>1, <1>5 DEF SettledEverywhere
  <2>2. Settling(Fill(disk)) => Claims(disk) BY <1>4, <1>5 DEF Settling, Claims, Complete
  <2> QED BY <1>5, <2>1, <2>2, DurableNow
<1>9. \E j \in surviving' : j.attempts = disk.attempts BY <1>1, <1>4, <1>5
<1>10. \A j \in surviving' : j.attempts >= disk.attempts BY <1>1, <1>4, <1>5
<1> QED BY <1>1, <1>5, <1>6, <1>7, <1>8, <1>9, <1>10, JournalSteps

\* A rename publishes what is already settled, or settles nothing yet.
LEMMA CommitSteps ==
  ASSUME IInv, NEW p \in Proc, CommitMarker(p)
  PROVE  [Ledger!Next]_(Ledger!vars)
<1> DEFINE c == Commit(disk)
<1>1. surviving' = surviving \cup {c} /\ UNCHANGED posts /\ pc[p] = "commit"
  BY DEF CommitMarker, Write, clientVars
<1>2. disk.pending.dest = marker[p].dest /\ marker[p] \in Markers
  BY <1>1 DEF IInv, CallType, Progress, WritingProgress
<1>3. disk.pending # NoPending BY <1>2 DEF Markers, Destinations, NoPending
<1>4. /\ disk \in surviving /\ disk \in Journals /\ disk.attempts \in AttemptCounts
      /\ disk.attempts \in Nat /\ WellFormed(disk) /\ Truthful(disk) /\ Recorded(disk)
      /\ posts \in [Attempts -> Nat]
  BY DiskImage, Fields, Counts DEF IInv, DiskType, ClientType, Image
<1>5. \A j \in surviving : j.attempts = disk.attempts /\ j.done = NotDone BY <1>3, StagedImages
<1>6. /\ c.attempts = disk.attempts \/ c.attempts = disk.attempts + 1
      /\ disk.pending.dest = "complete" => c.done # NotDone
  BY <1>3, <1>4, CommitImage
<1>7. disk.attempts = DurableAttempts BY <1>4, <1>5, DurableNow
<1>8. SettledEverywhere => SettledEverywhere'
  <2>1. SettledEverywhere => disk.pending.dest = "complete"
    BY <1>4, <1>5 DEF SettledEverywhere, Settling, Complete
  <2> QED BY <1>1, <1>6, <2>1 DEF SettledEverywhere, Settling, Complete
<1>9. SettledEverywhere' => DurableAttempts > 0
  <2>1. SettledEverywhere' => SettledEverywhere BY <1>1 DEF SettledEverywhere
  <2> QED BY <1>4, <2>1, SettledClaims, DurableNow
<1>10. \A j \in surviving' : j.attempts >= disk.attempts BY <1>1, <1>4, <1>5, <1>6
<1> QED BY <1>1, <1>4, <1>7, <1>8, <1>9, <1>10, JournalSteps

\* Only a staged attempt is discarded.
LEMMA DiscardSteps ==
  ASSUME IInv, NEW p \in Proc, LoadDiscards(p)
  PROVE  [Ledger!Next]_(Ledger!vars)
<1>1. surviving' = {Discard(disk)} /\ UNCHANGED posts /\ disk.pending.dest = "attempt"
  BY DEF LoadDiscards, clientVars
<1>2. disk.pending # NoPending /\ disk \in Journals BY <1>1, DiskImage DEF NoPending
<1>3. disk.done = NotDone BY <1>2, StagedImages
<1>4. /\ Discard(disk).attempts = disk.attempts /\ Discard(disk).done = NotDone
      /\ Discard(disk).pending.dest # "complete"
  BY <1>2, <1>3, DiscardType DEF NoPending
<1>5. ~Settling(Discard(disk)) BY <1>4, NotSettling
<1> QED BY <1>1, <1>3, <1>4, <1>5, UnsettledSteps

\* A request performs the newest authorisation, which every image has.
LEMMA SendSteps ==
  ASSUME IInv, NEW p \in Proc, SendRequest(p)
  PROVE  [Ledger!Next]_(Ledger!vars)
<1> DEFINE s == marker[p].seq
<1>1. pc[p] = "send" /\ posts' = [posts EXCEPT ![s] = @ + 1] /\ UNCHANGED surviving
  BY DEF SendRequest, diskVars
<1>2. surviving = {disk} /\ Open /\ s = disk.attempts /\ s \in Attempts /\ posts[s] = 0
  BY <1>1 DEF IInv, Progress, RequestProgress
<1>3. posts \in [Attempts -> Nat] BY DEF IInv, ClientType
<1>4. DurableAttempts = s /\ UNCHANGED DurableAttempts BY <1>1, <1>2, DurableNow DEF DurableAttempts
<1>5. s > 0 BY <1>2 DEF Attempts
<1>6. ~SettledEverywhere /\ UNCHANGED SettledEverywhere
  <2>1. ~Settling(disk) BY <1>2, NotSettling DEF Open, NoPending
  <2> QED BY <1>1, <1>2, <2>1 DEF SettledEverywhere
<1>7. s \notin {i \in Attempts : posts[i] > 0} BY <1>2
<1>8. {i \in Attempts : posts[i] > 0}' = {i \in Attempts : posts[i] > 0} \cup {s}
  BY <1>1, <1>2, <1>3
<1> QED BY <1>4, <1>5, <1>6, <1>7, <1>8, Zenon DEF Ledger!Next, Ledger!Perform, SettledEverywhere

LEMMA SyncSteps ==
  ASSUME IInv, surviving' = surviving \/ surviving' = {disk}, UNCHANGED posts
  PROVE  [Ledger!Next]_(Ledger!vars)
<1>1. disk \in surviving BY DEF IInv, DiskType
<1> QED BY <1>1, QuietSteps, OneImageSteps

LEMMA InvocationSteps ==
  ASSUME IInv, NEW p \in Proc, Invocation(p)
  PROVE  [Ledger!Next]_(Ledger!vars)
<1>1. CASE MakeRoot(p) \/ MakeLock(p) \/ MakeScratch(p) BY <1>1, FreshSteps
<1>2. CASE StageMarker(p) BY <1>2, StageSteps
<1>3. CASE FillMarker(p) BY <1>3, FillSteps
<1>4. CASE CommitMarker(p) BY <1>4, CommitSteps
<1>5. CASE LoadDiscards(p) BY <1>5, DiscardSteps
<1>6. CASE SendRequest(p) BY <1>6, SendSteps
<1>7. CASE ConfirmMarker(p) \/ LoadReads(p)
  BY <1>7, SyncSteps DEF ConfirmMarker, LoadReads, Sync, clientVars
<1>8. CASE Preflight(p) \/ PrepareUse(p) \/ OpenJournal(p) \/ LoadEnds(p) \/ LoadInitializes(p)
           \/ LoadRepublishes(p) \/ Observe(p)
  BY <1>8, QuietSteps DEF Preflight, PrepareUse, OpenJournal, LoadEnds, LoadInitializes,
     LoadRepublishes, Observe, diskVars, clientVars
<1>9. CASE ResumeComplete(p) \/ StopResumeSettled(p) \/ RemoveResumeSettled(p) \/ ResumeRequests(p)
  BY <1>9, QuietSteps DEF ResumeComplete, StopResumeSettled, RemoveResumeSettled, ResumeRequests,
     diskVars, clientVars
<1>10. CASE \/ AppendAttempt(p) \/ SendNothing(p) \/ LoseReply(p) \/ AppendResponse(p)
            \/ VerifySettled(p) \/ VerifyNotProven(p)
  BY <1>10, QuietSteps DEF AppendAttempt, SendNothing, LoseReply, AppendResponse, VerifySettled,
     VerifyNotProven, diskVars, clientVars
<1> QED BY <1>1, <1>2, <1>3, <1>4, <1>5, <1>6, <1>7, <1>8, <1>9, <1>10 DEF Invocation

LEMMA LedgerSteps ==
  ASSUME IInv, [Next]_vars
  PROVE  [Ledger!Next]_(Ledger!vars)
<1>1. CASE \E p \in Proc : StartRun(p) \/ StartResume(p)
  BY <1>1, QuietSteps DEF StartRun, StartResume, Start, diskVars, clientVars
<1>2. CASE \E p \in Proc : Invocation(p) BY <1>2, InvocationSteps
<1>3. CASE \E p \in Proc : Abort(p)
  BY <1>3, QuietSteps DEF Abort, clientVars
<1>4. CASE \E i \in Attempts :
             ClientAccepts(i) \/ ClientExecutes(i) \/ ClientRefuses(i) \/ LoseRequest(i)
  BY <1>4, QuietSteps DEF ClientAccepts, ClientExecutes, ClientRefuses, LoseRequest, diskVars
<1>5. CASE OthersChangeJob
  BY <1>5, QuietSteps DEF OthersChangeJob, diskVars
<1>6. CASE PowerLoss
  <2>1. PICK j \in surviving : surviving' = {j} BY <1>6 DEF PowerLoss
  <2> QED BY <1>6, <2>1, OneImageSteps DEF PowerLoss, clientVars
<1>7. CASE UNCHANGED vars
  BY <1>7, QuietSteps DEF vars, diskVars, clientVars
<1> QED BY <1>1, <1>2, <1>3, <1>4, <1>5, <1>6, <1>7 DEF Next

LEMMA LedgerInit == ASSUME Init PROVE Ledger!Init
<1>1. PICK kind \in Kinds : surviving = {NoJournal(kind)} BY DEF Init
<1>2. DurableAttempts = 0
  BY <1>1, NoJournalType, Zero, LeastAttempts DEF DurableAttempts
<1>3. {i \in Attempts : posts[i] > 0} = {} BY DEF Init, NothingSent
<1>4. ~SettledEverywhere BY <1>1, NoJournalType, NotSettling DEF SettledEverywhere, NoPending
<1>5. (\A j \in surviving : Settling(j)) = FALSE BY <1>4 DEF SettledEverywhere
<1> QED BY <1>2, <1>3, <1>5, Zenon DEF Ledger!Init

\* Only an invocation that may repeat sends a second request.
LEMMA RepeatSteps ==
  ASSUME IInv, [Next]_vars, Posted, NEW i \in Attempts, posts[i] > 0
  PROVE  \E p \in Proc : pc[p] = "send" /\ opts[p].repeat
<1>1. ASSUME NEW p \in Proc, SendRequest(p) PROVE pc[p] = "send" /\ opts[p].repeat
  BY <1>1 DEF SendRequest, IInv, Progress, Sending
<1>2. ASSUME NEW p \in Proc, Invocation(p) PROVE SendRequest(p)
  <2>1. ASSUME Preflight(p) \/ PrepareUse(p) \/ MakeRoot(p) \/ MakeLock(p) \/ MakeScratch(p)
               \/ StageMarker(p) \/ FillMarker(p) \/ CommitMarker(p) \/ ConfirmMarker(p)
               \/ OpenJournal(p) \/ LoadEnds(p) \/ LoadInitializes(p) \/ LoadRepublishes(p)
        PROVE FALSE
    BY <2>1 DEF Posted, Preflight, PrepareUse, MakeRoot, MakeLock, MakeScratch, StageMarker,
       FillMarker, CommitMarker, ConfirmMarker, OpenJournal, LoadEnds, LoadInitializes,
       LoadRepublishes, clientVars
  <2>2. ASSUME LoadDiscards(p) \/ LoadReads(p) \/ Observe(p)
               \/ ResumeComplete(p) \/ StopResumeSettled(p) \/ RemoveResumeSettled(p)
               \/ ResumeRequests(p) \/ AppendAttempt(p) \/ SendNothing(p) \/ LoseReply(p)
               \/ AppendResponse(p) \/ VerifySettled(p) \/ VerifyNotProven(p)
        PROVE FALSE
    BY <2>2 DEF Posted, LoadDiscards, LoadReads, Observe, ResumeComplete, StopResumeSettled,
       RemoveResumeSettled, ResumeRequests, AppendAttempt, SendNothing, LoseReply, AppendResponse,
       VerifySettled, VerifyNotProven, clientVars
  <2> QED BY <1>2, <2>1, <2>2 DEF Invocation
<1>3. \E p \in Proc : Invocation(p)
  <2>1. ASSUME NEW p \in Proc, StartRun(p) \/ StartResume(p) PROVE FALSE
    BY <2>1 DEF Posted, StartRun, StartResume, Start, clientVars
  <2>2. ASSUME NEW p \in Proc, Abort(p) PROVE FALSE BY <2>2 DEF Posted, Abort, clientVars
  <2>3. ASSUME NEW k \in Attempts,
               ClientAccepts(k) \/ ClientExecutes(k) \/ ClientRefuses(k) \/ LoseRequest(k)
        PROVE FALSE
    BY <2>3 DEF Posted, ClientAccepts, ClientExecutes, ClientRefuses, LoseRequest
  <2>4. ASSUME OthersChangeJob \/ PowerLoss \/ UNCHANGED vars PROVE FALSE
    BY <2>4 DEF Posted, OthersChangeJob, PowerLoss, vars, clientVars
  <2> QED BY <2>1, <2>2, <2>3, <2>4 DEF Next
<1> QED BY <1>1, <1>2, <1>3

\* The journal implements the ledger of external effects through every crash,
\* recovery and power loss (executeAttempt, openJournal, recoverPending,
\* completeStopped, completeAbsence): an attempt is durable before its one
\* request, a durable completion ends the operation for good, and another
\* request needs the repeat acknowledgement.
THEOREM ControlKeepsLedger == Spec => LedgerSpec
<1>1. Init => Ledger!Init BY LedgerInit
<1>2. IInv /\ [Next]_vars => [Ledger!Next]_(Ledger!vars) BY LedgerSteps
<1>3. IInv /\ [Next]_vars =>
        [Posted /\ (\E i \in Attempts : posts[i] > 0) =>
           \E p \in Proc : pc[p] = "send" /\ opts[p].repeat]_vars
  BY RepeatSteps
<1>4. Spec => Ledger!Spec
  BY <1>1, <1>2, InvariantHolds, PTL DEF Spec, Ledger!Spec
<1>5. Spec => NoSilentRepeat
  BY <1>3, InvariantHolds, PTL DEF Spec, NoSilentRepeat
<1> QED BY <1>4, <1>5 DEF LedgerSpec
===============================================================================
