-------------------------- MODULE ClientAdoptProofs --------------------------
(***************************************************************************)
(* Proofs about ClientAdopt and AdoptRetention, for every set of           *)
(* invocations, every attempt budget, both drivers and both actions.       *)
(*                                                                         *)
(* The invariant AttemptBeforeEffect of ClientAdopt is not inductive: it   *)
(* needs the exclusion that the operation lock gives (Exclusion), and what *)
(* a lock holder has read or staged at each point (Progress).              *)
(***************************************************************************)
EXTENDS AdoptRetention, TLAPS

\* The operation lock excludes: whoever is past it holds it, the lock file
\* exists, and an invocation that still has to create that file is alone.
Exclusion ==
  \A p \in Proc :
    /\ pc[p] \in Holding => lock = p /\ disk.root = "locked"
    /\ pc[p] = "newlock" =>
         disk.root = "bare" /\ \A q \in Proc \ {p} : pc[q] \notin Holding \cup {"newlock"}

\* The phases in which the loaded attempt count is the journal's.
Informed == {"ledger", "act", "send", "await", "bracket", "seal"}
Writing == {"scratch", "stage", "fill", "commit"}

\* What a lock holder knows: its count is the journal's, an attempt it writes is
\* the next one, the staged file is the one it staged, and only a published
\* attempt leads to a request, which is that attempt's first.
Progress(p) ==
  /\ pc[p] \in Informed => known[p] = disk.attempts
  /\ pc[p] \in Writing \cup {"confirm"} /\ marker[p].then \in {"send", "bracket"} =>
       marker[p].dest = "attempt"
  /\ pc[p] \in Writing /\ marker[p].dest = "attempt" => marker[p].seq = disk.attempts + 1
  /\ pc[p] \in {"fill", "commit"} =>
       disk.pending.dest = marker[p].dest /\ disk.pending.seq = marker[p].seq
  /\ pc[p] = "confirm" /\ marker[p].dest = "attempt" =>
       /\ marker[p].seq = disk.attempts /\ disk.attempts \in Attempts
       /\ posts[disk.attempts] = 0
  /\ pc[p] = "send" => known[p] \in Attempts /\ posts[known[p]] = 0

DiskType ==
  disk \in Journals /\ disk \in surviving /\ surviving \subseteq Journals

CallType ==
  /\ lock \in Proc \cup {Nobody}
  /\ pc \in [Proc -> Unlocked \cup Holding]
  /\ opts \in [Proc -> Options]
  /\ known \in [Proc -> AttemptCounts]
  /\ marker \in [Proc -> Markers]
  /\ reply \in [Proc -> Replies]
  /\ outcome \in [Proc -> Outcomes]

ClientType ==
  /\ job \in Jobs
  /\ wire \subseteq Attempts
  /\ posts \in [Attempts -> Nat]
  /\ confirmed \subseteq Attempts

IInv ==
  /\ DiskType /\ CallType /\ ClientType
  /\ Exclusion
  /\ \A p \in Proc : Progress(p)
  /\ AttemptBeforeEffect

LEMMA TypeParts == TypeOK <=> DiskType /\ CallType /\ ClientType
BY DEF TypeOK, DiskType, CallType, ClientType

-----------------------------------------------------------------------------
(* Types of the steps that actions are made of.                            *)

LEMMA Zero == 0 \in AttemptCounts /\ NoPending \in Pendings
<1>1. 0 \in AttemptCounts BY MaxAttemptsAssumption DEF AttemptCounts
<1> QED BY <1>1 DEF NoPending, Pendings

\* The helpers of writeMarker and of the disk keep journals journals.
LEMMA WriteType ==
  ASSUME DiskType, NEW d \in Journals, Write(d) \/ SyncThenWrite(d)
  PROVE  DiskType'
BY DEF DiskType, Write, SyncThenWrite

LEMMA SyncType == ASSUME DiskType, Sync PROVE DiskType'
BY DEF DiskType, Sync

LEMMA StageType ==
  ASSUME NEW j \in Journals, NEW dest \in Destinations, NEW seq \in AttemptCounts
  PROVE  /\ Stage(j, dest, seq) \in Journals
         /\ Stage(j, dest, seq).attempts = j.attempts
         /\ Stage(j, dest, seq).root = j.root
         /\ Stage(j, dest, seq).pending.dest = dest
         /\ Stage(j, dest, seq).pending.seq = seq
BY DEF Stage, Journals, Pendings

LEMMA FillType ==
  ASSUME NEW j \in Journals
  PROVE  /\ Fill(j) \in Journals
         /\ Fill(j).attempts = j.attempts
         /\ Fill(j).root = j.root
         /\ Fill(j).pending.dest = j.pending.dest
         /\ Fill(j).pending.seq = j.pending.seq
BY DEF Fill, Journals, Pendings

LEMMA CommitType ==
  ASSUME NEW j \in Journals
  PROVE  /\ Commit(j) \in Journals
         /\ Commit(j).root = j.root
         /\ Commit(j).attempts = IF j.pending.dest = "attempt" THEN j.pending.seq ELSE j.attempts
BY Zero DEF Commit, Journals, Pendings

LEMMA DiscardType ==
  ASSUME NEW j \in Journals
  PROVE  /\ Discard(j) \in Journals
         /\ Discard(j).root = j.root /\ Discard(j).attempts = j.attempts
BY Zero DEF Discard, Journals

LEMMA ReturnType ==
  ASSUME CallType, NEW p \in Proc, NEW o \in Outcomes, Return(p, o)
  PROVE  CallType'
<1>1. NoOptions \in Options /\ NoMarker \in Markers /\ 0 \in AttemptCounts
  BY Zero DEF NoOptions, Options, Modes, NoMarker, Markers, Destinations, Continuations
<1>2. "idle" \in Unlocked /\ "none" \in Replies
  BY DEF Unlocked, Replies
<1> QED BY <1>1, <1>2 DEF CallType, Return

LEMMA GotoType ==
  ASSUME CallType, NEW p \in Proc, NEW step \in Unlocked \cup Holding, Goto(p, step),
         lock' \in Proc \cup {Nobody}, marker' \in [Proc -> Markers]
  PROVE  CallType'
BY DEF CallType, Goto

LEMMA MarkerType ==
  ASSUME CallType, NEW p \in Proc, NEW dest \in Destinations, NEW seq \in AttemptCounts,
         NEW then \in Continuations, NEW step \in Holding, WriteMarker(p, dest, seq, then, step),
         lock' \in Proc \cup {Nobody}
  PROVE  CallType' /\ marker' = [marker EXCEPT ![p] = [dest |-> dest, seq |-> seq, then |-> then]]
<1>1. marker' \in [Proc -> Markers]
  BY DEF CallType, WriteMarker, Markers
<1> QED BY <1>1, GotoType DEF WriteMarker

-----------------------------------------------------------------------------
(* Kinds of steps that keep the invariant.                                 *)

\* The end of an invocation.
LEMMA ReturnKeeps ==
  ASSUME IInv, NEW p \in Proc, NEW o \in Outcomes, Return(p, o),
         UNCHANGED <<disk, surviving, clientVars>>
  PROVE  IInv'
<1>1. DiskType' /\ ClientType'
  BY DEF IInv, DiskType, ClientType, clientVars
<1>2. CallType'
  BY ReturnType DEF IInv
<1>3. Exclusion'
  BY <1>2, NobodyAssumption DEF IInv, Exclusion, CallType, Return, Holding, Unlocked
<1>4. ASSUME NEW q \in Proc PROVE Progress(q)'
  <2>1. CASE q = p
    BY <2>1 DEF IInv, CallType, Progress, Return, Informed, Writing
  <2>2. CASE q # p
    BY <2>2 DEF IInv, CallType, Progress, Return, clientVars
  <2> QED BY <2>1, <2>2
<1>5. AttemptBeforeEffect'
  BY DEF IInv, CallType, AttemptBeforeEffect, Return, clientVars, EffectPhases
<1> QED BY <1>1, <1>2, <1>3, <1>4, <1>5 DEF IInv

\* A step between two points of a lock holder that changes nothing but the point.
LEMMA MoveKeeps ==
  ASSUME IInv, NEW p \in Proc, pc[p] \in Informed, NEW step \in {"act", "seal"},
         Goto(p, step), UNCHANGED <<diskVars, marker, clientVars>>
  PROVE  IInv'
<1>1. DiskType' /\ ClientType'
  BY DEF IInv, DiskType, ClientType, clientVars, diskVars
<1>2. CallType'
  BY GotoType DEF IInv, CallType, diskVars, Holding
<1>3. Exclusion'
  BY <1>2 DEF IInv, Exclusion, CallType, Goto, Holding, Informed, diskVars
<1>4. ASSUME NEW q \in Proc PROVE Progress(q)'
  BY DEF IInv, CallType, Progress, Goto, Informed, Writing, clientVars, diskVars
<1>5. AttemptBeforeEffect'
  BY DEF IInv, CallType, AttemptBeforeEffect, Goto, clientVars, diskVars, EffectPhases
<1> QED BY <1>1, <1>2, <1>3, <1>4, <1>5 DEF IInv

\* An invocation starts: it holds nothing and knows nothing.
LEMMA StartKeeps ==
  ASSUME IInv, NEW p \in Proc, NEW o \in Options, NEW step \in {"survey", "open"},
         Start(p, o, step)
  PROVE  IInv'
<1>1. DiskType' /\ ClientType'
  BY DEF IInv, DiskType, ClientType, Start, clientVars, diskVars
<1>2. CallType'
  BY DEF IInv, CallType, Start, Unlocked, Outcomes, diskVars
<1>3. Exclusion'
  BY <1>2 DEF IInv, Exclusion, CallType, Start, Holding, diskVars
<1>4. ASSUME NEW q \in Proc PROVE Progress(q)'
  BY DEF IInv, CallType, Progress, Start, Informed, Writing, clientVars, diskVars
<1>5. AttemptBeforeEffect'
  BY DEF IInv, CallType, AttemptBeforeEffect, Start, clientVars, diskVars, EffectPhases
<1> QED BY <1>1, <1>2, <1>3, <1>4, <1>5 DEF IInv

\* A step of the downloader, of its network or of a timer.
LEMMA OutsideKeeps ==
  ASSUME IInv, UNCHANGED <<diskVars, pc, opts, known, marker, outcome, posts>>,
         reply' \in [Proc -> Replies], job' \in Jobs, wire' \subseteq Attempts,
         confirmed' \subseteq Attempts
  PROVE  IInv'
<1>1. DiskType' /\ CallType' /\ ClientType'
  BY DEF IInv, DiskType, CallType, ClientType, diskVars
<1>2. Exclusion'
  BY DEF IInv, Exclusion, diskVars
<1>3. ASSUME NEW q \in Proc PROVE Progress(q)'
  BY DEF IInv, Progress, diskVars
<1>4. AttemptBeforeEffect'
  BY DEF IInv, AttemptBeforeEffect, diskVars
<1> QED BY <1>1, <1>2, <1>3, <1>4 DEF IInv

\* A lock holder writes the disk: the others are outside the lock, and an image
\* with fewer attempts than a request needs is never added.
LEMMA DiskKeeps ==
  ASSUME IInv, NEW p \in Proc, pc[p] \in Holding, DiskType', CallType',
         UNCHANGED <<lock, clientVars>>,
         NEW step \in Holding, pc' = [pc EXCEPT ![p] = step],
         \A q \in Proc \ {p} : known'[q] = known[q] /\ marker'[q] = marker[q],
         disk'.root = disk.root, disk'.attempts >= disk.attempts,
         \A j \in surviving' : \/ j = disk'
                               \/ \E k \in surviving : j.attempts = k.attempts,
         step \notin EffectPhases,
         Progress(p)'
  PROVE  IInv'
<1>1. ClientType'
  BY DEF IInv, ClientType, clientVars
<1>2. Exclusion'
  BY DEF IInv, Exclusion, CallType, Holding
<1>3. ASSUME NEW q \in Proc PROVE Progress(q)'
  <2>1. CASE q = p
    BY <2>1
  <2>2. CASE q # p
    <3>1. pc'[q] = pc[q] /\ pc[q] \notin Holding
      BY <2>2 DEF IInv, Exclusion, CallType
    <3> QED BY <2>2, <3>1 DEF Progress, Informed, Writing, Holding
  <2> QED BY <2>1, <2>2
<1>4. AttemptBeforeEffect'
  <2>1. ASSUME NEW j \in surviving', NEW i \in Attempts, posts'[i] > 0
        PROVE  j.attempts >= i
    <3>1. posts[i] > 0
      BY <2>1 DEF clientVars
    <3>2. \A k \in surviving : k.attempts >= i
      BY <3>1 DEF IInv, AttemptBeforeEffect
    <3>3. disk.attempts >= i /\ disk.attempts \in Nat /\ disk'.attempts \in Nat /\ i \in Nat
      BY <3>2, MaxAttemptsAssumption DEF IInv, DiskType, Journals, AttemptCounts, Attempts
    <3> QED BY <3>2, <3>3
  <2>2. ASSUME NEW q \in Proc PROVE pc'[q] \notin EffectPhases
    BY DEF IInv, Exclusion, CallType, Holding, EffectPhases
  <2> QED BY <2>1, <2>2 DEF IInv, AttemptBeforeEffect, clientVars
<1> QED BY <1>1, <1>2, <1>3, <1>4 DEF IInv

-----------------------------------------------------------------------------
(* The actions of an invocation that write the disk.                       *)

LEMMA MakeRootKeeps == ASSUME IInv, NEW p \in Proc, MakeRoot(p) PROVE IInv'
<1>1. CASE disk.root # "none" /\ Return(p, "stopped") /\ UNCHANGED <<disk, surviving>>
  BY <1>1, ReturnKeeps DEF MakeRoot, Outcomes
<1>2. CASE /\ disk.root = "none"
           /\ Write([disk EXCEPT !.root = "bare"])
           /\ Goto(p, "newlock") /\ UNCHANGED <<lock, marker>>
  <2> DEFINE d == [disk EXCEPT !.root = "bare"]
  <2>1. d \in Journals /\ d.attempts = disk.attempts /\ d.root = "bare"
    BY DEF IInv, DiskType, Journals
  <2>2. DiskType' /\ CallType' /\ ClientType'
    BY <1>2, <2>1, WriteType, GotoType
       DEF IInv, CallType, ClientType, clientVars, MakeRoot, Unlocked
  <2>3. \A q \in Proc : pc[q] \notin Holding \cup {"newlock"}
    BY <1>2 DEF IInv, Exclusion
  <2>4. pc' = [pc EXCEPT ![p] = "newlock"] /\ disk' = d
    BY <1>2 DEF Goto, Write
  <2>5. \A q \in Proc : pc'[q] \notin Holding
    BY <2>3, <2>4 DEF IInv, CallType, Holding
  <2>6. Exclusion'
    BY <2>1, <2>3, <2>4, <2>5 DEF IInv, Exclusion, CallType
  <2>7. ASSUME NEW q \in Proc PROVE Progress(q)'
    BY <2>5 DEF Progress, Informed, Writing, Holding
  <2>8. AttemptBeforeEffect'
    <3>1. \A j \in surviving' : \E k \in surviving : j.attempts = k.attempts
      BY <1>2, <2>1 DEF Write, IInv, DiskType
    <3> QED BY <2>5, <3>1 DEF IInv, AttemptBeforeEffect, EffectPhases, Holding, MakeRoot, clientVars
  <2> QED BY <2>2, <2>6, <2>7, <2>8 DEF IInv
<1> QED BY <1>1, <1>2 DEF MakeRoot

LEMMA MakeLockKeeps == ASSUME IInv, NEW p \in Proc, MakeLock(p) PROVE IInv'
<1> DEFINE d == [disk EXCEPT !.root = "locked"]
<1>1. d \in Journals /\ d.attempts = disk.attempts /\ d.root = "locked" /\ disk' = d
  BY DEF IInv, DiskType, Journals, MakeLock, SyncThenWrite
<1>2. DiskType' /\ ClientType'
  BY <1>1, WriteType DEF IInv, ClientType, clientVars, MakeLock
<1>3. CallType' /\ marker' = [marker EXCEPT ![p] = [dest |-> "intent", seq |-> 0, then |-> "act"]]
  BY MarkerType, Zero DEF IInv, CallType, MakeLock, Destinations, Continuations, Holding
<1>4. pc' = [pc EXCEPT ![p] = "scratch"] /\ lock' = p /\ posts' = posts
  BY DEF MakeLock, WriteMarker, Goto, clientVars
<1>5. \A q \in Proc \ {p} : pc'[q] \notin Holding \cup {"newlock"}
  BY <1>4 DEF IInv, CallType, Exclusion, MakeLock
<1>6. Exclusion'
  BY <1>1, <1>4, <1>5 DEF IInv, CallType, Exclusion
<1>7. ASSUME NEW q \in Proc PROVE Progress(q)'
  <2>1. CASE q = p
    BY <1>3, <1>4, <2>1 DEF IInv, CallType, Progress, Informed, Writing
  <2>2. CASE q # p
    BY <1>5, <2>2 DEF Progress, Informed, Writing, Holding
  <2> QED BY <2>1, <2>2
<1>8. AttemptBeforeEffect'
  <2>1. \A q \in Proc : pc'[q] \notin EffectPhases
    BY <1>4, <1>5 DEF IInv, CallType, EffectPhases, Holding
  <2>2. \A j \in surviving' : \E k \in surviving : j.attempts = k.attempts
    BY <1>1 DEF MakeLock, SyncThenWrite, IInv, DiskType
  <2> QED BY <1>4, <2>1, <2>2 DEF IInv, AttemptBeforeEffect
<1> QED BY <1>2, <1>3, <1>6, <1>7, <1>8 DEF IInv

LEMMA MakeScratchKeeps == ASSUME IInv, NEW p \in Proc, MakeScratch(p) PROVE IInv'
<1> DEFINE d == [disk EXCEPT !.scratch = TRUE]
<1>1. d \in Journals /\ d.attempts = disk.attempts /\ d.root = disk.root /\ disk' = d
  BY DEF IInv, DiskType, Journals, MakeScratch, Write
<1>2. DiskType' /\ CallType'
  BY <1>1, WriteType, GotoType DEF IInv, CallType, MakeScratch, Holding
<1>3. pc' = [pc EXCEPT ![p] = "stage"] /\ known' = known /\ marker' = marker /\ pc[p] = "scratch"
  BY DEF MakeScratch, Goto
<1>4. Progress(p)'
  BY <1>1, <1>3 DEF IInv, CallType, Progress, Informed, Writing
<1>5. \A j \in surviving' : j = disk' \/ \E k \in surviving : j.attempts = k.attempts
  BY DEF MakeScratch, Write
<1>6. disk'.attempts >= disk.attempts
  BY <1>1, MaxAttemptsAssumption DEF IInv, DiskType, Journals, AttemptCounts
<1> QED BY <1>1, <1>2, <1>3, <1>4, <1>5, <1>6, DiskKeeps DEF MakeScratch, Holding, EffectPhases

LEMMA StageMarkerKeeps == ASSUME IInv, NEW p \in Proc, StageMarker(p) PROVE IInv'
<1> DEFINE d == Stage(disk, marker[p].dest, marker[p].seq)
<1>1. marker[p].dest \in Destinations /\ marker[p].seq \in AttemptCounts /\ disk \in Journals
  BY DEF IInv, CallType, Markers, DiskType
<1>2. /\ d \in Journals /\ d.attempts = disk.attempts /\ d.root = disk.root /\ disk' = d
      /\ d.pending.dest = marker[p].dest /\ d.pending.seq = marker[p].seq
  BY <1>1, StageType DEF StageMarker, SyncThenWrite
<1>3. DiskType' /\ CallType'
  BY <1>2, WriteType, GotoType DEF IInv, CallType, StageMarker, Holding
<1>4. pc' = [pc EXCEPT ![p] = "fill"] /\ known' = known /\ marker' = marker /\ pc[p] = "stage"
  BY DEF StageMarker, Goto
<1>5. Progress(p)'
  BY <1>2, <1>4 DEF IInv, CallType, Progress, Informed, Writing
<1>6. \A j \in surviving' : j = disk' \/ \E k \in surviving : j.attempts = k.attempts
  BY DEF IInv, DiskType, StageMarker, SyncThenWrite
<1>7. disk'.attempts >= disk.attempts
  BY <1>1, <1>2, MaxAttemptsAssumption DEF Journals, AttemptCounts
<1> QED BY <1>2, <1>3, <1>4, <1>5, <1>6, <1>7, DiskKeeps DEF StageMarker, Holding, EffectPhases

LEMMA FillMarkerKeeps == ASSUME IInv, NEW p \in Proc, FillMarker(p) PROVE IInv'
<1>1. disk \in Journals /\ disk \in surviving /\ surviving \subseteq Journals
  BY DEF IInv, DiskType
<1>2. /\ disk'.attempts = disk.attempts /\ disk'.root = disk.root
      /\ disk'.pending.dest = disk.pending.dest /\ disk'.pending.seq = disk.pending.seq
  BY <1>1, FillType DEF FillMarker
<1>3. DiskType' /\ CallType'
  <2>1. DiskType'
    BY <1>1, FillType DEF FillMarker, DiskType
  <2> QED BY <2>1, GotoType DEF IInv, CallType, FillMarker, Holding
<1>4. pc' = [pc EXCEPT ![p] = "commit"] /\ known' = known /\ marker' = marker /\ pc[p] = "fill"
  BY DEF FillMarker, Goto
<1>5. Progress(p)'
  BY <1>2, <1>4 DEF IInv, CallType, Progress, Informed, Writing
<1>6. \A j \in surviving' : \E k \in surviving : j.attempts = k.attempts
  BY <1>1, FillType DEF FillMarker
<1>7. disk'.attempts >= disk.attempts
  BY <1>1, <1>2, MaxAttemptsAssumption DEF Journals, AttemptCounts
<1> QED BY <1>2, <1>3, <1>4, <1>5, <1>6, <1>7, DiskKeeps DEF FillMarker, Holding, EffectPhases

LEMMA CommitMarkerKeeps == ASSUME IInv, NEW p \in Proc, CommitMarker(p) PROVE IInv'
<1>1. disk \in Journals /\ disk \in surviving /\ surviving \subseteq Journals
  BY DEF IInv, DiskType
<1>2. /\ Commit(disk) \in Journals /\ disk' = Commit(disk) /\ disk'.root = disk.root
      /\ disk'.attempts = IF disk.pending.dest = "attempt" THEN disk.pending.seq ELSE disk.attempts
  BY <1>1, CommitType DEF CommitMarker, Write
<1>3. DiskType' /\ CallType'
  BY <1>2, WriteType, GotoType DEF IInv, CallType, CommitMarker, Holding
<1>4. pc' = [pc EXCEPT ![p] = "confirm"] /\ known' = known /\ marker' = marker /\ pc[p] = "commit"
  BY DEF CommitMarker, Goto
<1>5. disk.attempts \in Nat /\ disk'.attempts \in AttemptCounts
  BY <1>1, <1>2, MaxAttemptsAssumption DEF Journals, AttemptCounts
<1>6. disk.pending.dest = marker[p].dest /\ disk.pending.seq = marker[p].seq
  BY <1>4 DEF IInv, Progress
<1>7. marker[p].dest = "attempt" => disk'.attempts = marker[p].seq /\ marker[p].seq = disk.attempts + 1
  BY <1>2, <1>4, <1>6 DEF IInv, Progress, Writing
<1>8. marker[p].dest = "attempt" => disk'.attempts \in Attempts /\ posts[disk'.attempts] = 0
  <2>1. ASSUME marker[p].dest = "attempt" PROVE disk'.attempts \in Attempts
    BY <1>5, <1>7, <2>1, MaxAttemptsAssumption DEF Attempts, AttemptCounts
  <2>2. ASSUME marker[p].dest = "attempt" PROVE posts[disk'.attempts] = 0
    BY <1>1, <1>5, <1>7, <2>1, <2>2 DEF IInv, AttemptBeforeEffect, ClientType
  <2> QED BY <2>1, <2>2
<1>9. Progress(p)'
  BY <1>4, <1>7, <1>8 DEF IInv, CallType, Progress, Informed, Writing, CommitMarker, clientVars
<1>10. \A j \in surviving' : j = disk' \/ \E k \in surviving : j.attempts = k.attempts
  BY DEF CommitMarker, Write
<1>11. disk'.attempts >= disk.attempts
  BY <1>2, <1>5, <1>6, <1>7
<1> QED BY <1>2, <1>3, <1>4, <1>9, <1>10, <1>11, DiskKeeps DEF CommitMarker, Holding, EffectPhases

\* A sync makes every image the visible journal.
LEMMA SyncKeepsAttempts ==
  ASSUME IInv, Sync, UNCHANGED posts
  PROVE  \A j \in surviving' : \A i \in Attempts : posts'[i] > 0 => j.attempts >= i
BY DEF IInv, DiskType, AttemptBeforeEffect, Sync

LEMMA ConfirmMarkerKeeps == ASSUME IInv, NEW p \in Proc, ConfirmMarker(p) PROVE IInv'
<1>1. CASE Return(p, "adopted")
  <2>1. DiskType' /\ ClientType' /\ CallType'
    BY <1>1, SyncType, ReturnType
       DEF IInv, ClientType, clientVars, ConfirmMarker, Outcomes
  <2>2. disk' = disk /\ posts' = posts
    BY DEF ConfirmMarker, Sync, clientVars
  <2>3. Exclusion'
    BY <1>1, <2>2, NobodyAssumption DEF IInv, Exclusion, CallType, Return, Holding
  <2>4. ASSUME NEW q \in Proc PROVE Progress(q)'
    <3>1. CASE q = p
      BY <1>1, <3>1 DEF IInv, CallType, Progress, Return, Informed, Writing
    <3>2. CASE q # p
      BY <1>1, <2>2, <3>2 DEF IInv, CallType, Progress, Return
    <3> QED BY <3>1, <3>2
  <2>5. \A j \in surviving' : \A q \in Proc : pc'[q] \in EffectPhases => j.attempts = known'[q]
    BY <1>1, <2>2 DEF IInv, DiskType, CallType, AttemptBeforeEffect, Return, EffectPhases,
                      ConfirmMarker, Sync
  <2>6. AttemptBeforeEffect'
    BY <2>2, <2>5, SyncKeepsAttempts DEF ConfirmMarker, IInv, AttemptBeforeEffect
  <2> QED BY <2>1, <2>3, <2>4, <2>6 DEF IInv
<1>2. CASE /\ marker[p].then # "adopted"
           /\ pc' = [pc EXCEPT ![p] = marker[p].then]
           /\ known' = [known EXCEPT ![p] = disk.attempts]
           /\ UNCHANGED <<lock, opts, marker, reply, outcome>>
  <2>1. pc[p] = "confirm" /\ marker[p] \in Markers /\ marker[p].then \in {"act", "load", "send", "bracket"}
    BY <1>2 DEF ConfirmMarker, IInv, CallType, Markers, Continuations
  <2>2. disk' = disk /\ surviving' = {disk} /\ posts' = posts /\ disk \in Journals
    BY DEF ConfirmMarker, Sync, clientVars, IInv, DiskType
  <2>3. DiskType' /\ ClientType'
    BY SyncType DEF IInv, ClientType, clientVars, ConfirmMarker
  <2>4. CallType'
    BY <1>2, <2>1, <2>2 DEF IInv, CallType, Journals, Holding
  <2>5. Exclusion'
    BY <1>2, <2>1, <2>2 DEF IInv, Exclusion, CallType, Holding
  <2>6. ASSUME NEW q \in Proc PROVE Progress(q)'
    <3>1. CASE q = p
      BY <1>2, <2>1, <2>2, <3>1 DEF IInv, CallType, Progress, Informed, Writing
    <3>2. CASE q # p
      BY <1>2, <2>2, <3>2 DEF IInv, CallType, Progress
    <3> QED BY <3>1, <3>2
  <2>7. ASSUME NEW q \in Proc, pc'[q] \in EffectPhases PROVE disk.attempts = known'[q]
    BY <1>2, <2>7, <2>2 DEF IInv, CallType, DiskType, AttemptBeforeEffect
  <2>8. AttemptBeforeEffect'
    BY <2>2, <2>7, SyncKeepsAttempts DEF ConfirmMarker, IInv, AttemptBeforeEffect
  <2> QED BY <2>3, <2>4, <2>5, <2>6, <2>8 DEF IInv
<1> QED BY <1>1, <1>2 DEF ConfirmMarker

-----------------------------------------------------------------------------
(* The actions of openJournal.                                             *)

LEMMA OpenJournalKeeps == ASSUME IInv, NEW p \in Proc, OpenJournal(p) PROVE IInv'
<1>1. CASE Return(p, "stopped")
  BY <1>1, ReturnKeeps DEF OpenJournal, Outcomes
<1>2. CASE /\ disk.root = "locked" /\ lock = Nobody
           /\ lock' = p
           /\ Goto(p, "load") /\ UNCHANGED marker
  <2>1. DiskType' /\ ClientType'
    BY DEF IInv, DiskType, ClientType, clientVars, OpenJournal
  <2>2. CallType'
    BY <1>2, GotoType DEF IInv, CallType, Holding
  <2>3. \A q \in Proc : pc[q] \notin Holding \cup {"newlock"}
    BY <1>2, NobodyAssumption DEF IInv, Exclusion
  <2>4. pc' = [pc EXCEPT ![p] = "load"] /\ disk' = disk /\ posts' = posts
    BY <1>2 DEF OpenJournal, Goto, clientVars
  <2>5. Exclusion'
    BY <1>2, <2>3, <2>4 DEF IInv, Exclusion, CallType
  <2>6. ASSUME NEW q \in Proc PROVE Progress(q)'
    BY <2>3, <2>4 DEF IInv, CallType, Progress, Informed, Writing, Holding
  <2>7. \A q \in Proc : pc'[q] \notin EffectPhases
    BY <2>3, <2>4 DEF IInv, CallType, EffectPhases, Holding
  <2>8. AttemptBeforeEffect'
    BY <2>4, <2>7 DEF IInv, AttemptBeforeEffect, OpenJournal
  <2> QED BY <2>1, <2>2, <2>5, <2>6, <2>8 DEF IInv
<1> QED BY <1>1, <1>2 DEF OpenJournal

\* A lock holder decides to write a marker: the disk does not change yet.
LEMMA WriteMarkerKeeps ==
  ASSUME IInv, NEW p \in Proc, pc[p] \in Holding,
         NEW dest \in Destinations, NEW seq \in AttemptCounts, NEW then \in Continuations,
         NEW step \in {"scratch", "stage", "commit"},
         WriteMarker(p, dest, seq, then, step), UNCHANGED <<diskVars, clientVars>>,
         dest = "attempt" => seq = disk.attempts + 1,
         then \in {"send", "bracket"} => dest = "attempt",
         step = "commit" => disk.pending.dest = dest /\ disk.pending.seq = seq
  PROVE  IInv'
<1>1. CallType' /\ marker' = [marker EXCEPT ![p] = [dest |-> dest, seq |-> seq, then |-> then]]
  BY MarkerType DEF IInv, CallType, Holding, diskVars
<1>2. pc' = [pc EXCEPT ![p] = step] /\ known' = known
  BY DEF WriteMarker, Goto
<1>3. disk' = disk /\ surviving' = surviving /\ lock' = lock /\ posts' = posts
  BY DEF diskVars, clientVars
<1>4. DiskType' /\ ClientType'
  BY DEF IInv, DiskType, ClientType, clientVars, diskVars
<1>5. Exclusion'
  BY <1>2, <1>3 DEF IInv, Exclusion, CallType, Holding
<1>6. ASSUME NEW q \in Proc PROVE Progress(q)'
  <2>1. CASE q = p
    BY <1>1, <1>2, <1>3, <2>1 DEF IInv, CallType, Progress, Informed, Writing
  <2>2. CASE q # p
    BY <1>1, <1>2, <1>3, <2>2 DEF IInv, CallType, Progress
  <2> QED BY <2>1, <2>2
<1>7. AttemptBeforeEffect'
  BY <1>2, <1>3 DEF IInv, CallType, AttemptBeforeEffect, EffectPhases
<1> QED BY <1>1, <1>4, <1>5, <1>6, <1>7 DEF IInv

LEMMA LoadInitializesKeeps == ASSUME IInv, NEW p \in Proc, LoadInitializes(p) PROVE IInv'
BY WriteMarkerKeeps, Zero DEF LoadInitializes, Recovering, Holding, Destinations, Continuations

LEMMA LoadRepublishesKeeps == ASSUME IInv, NEW p \in Proc, LoadRepublishes(p) PROVE IInv'
<1>1. disk.pending.dest \in {"intent", "complete"} /\ disk.pending.seq \in AttemptCounts
  BY DEF IInv, DiskType, Journals, Pendings, LoadRepublishes
<1> QED BY <1>1, WriteMarkerKeeps DEF LoadRepublishes, Recovering, Holding, Destinations, Continuations

LEMMA LoadDiscardsKeeps == ASSUME IInv, NEW p \in Proc, LoadDiscards(p) PROVE IInv'
<1>1. disk \in Journals /\ pc' = pc /\ known' = known /\ marker' = marker /\ pc[p] = "load"
  BY DEF IInv, DiskType, LoadDiscards, Recovering, callVars
<1>2. disk' \in Journals /\ disk'.root = disk.root /\ disk'.attempts = disk.attempts
  BY <1>1, DiscardType DEF LoadDiscards
<1>3. DiskType' /\ CallType'
  BY <1>2 DEF LoadDiscards, DiskType, IInv, CallType, callVars
<1>4. Progress(p)'
  BY <1>1 DEF Progress, Informed, Writing
<1>5. pc' = [pc EXCEPT ![p] = "load"]
  BY <1>1 DEF IInv, CallType
<1>6. disk'.attempts >= disk.attempts
  BY <1>1, <1>2, MaxAttemptsAssumption DEF Journals, AttemptCounts
<1> QED BY <1>1, <1>2, <1>3, <1>4, <1>5, <1>6, DiskKeeps DEF LoadDiscards, Holding, EffectPhases

LEMMA LoadConfirmsKeeps == ASSUME IInv, NEW p \in Proc, LoadConfirms(p) PROVE IInv'
<1>1. disk \in Journals /\ disk' = disk /\ surviving' = {disk} /\ pc[p] = "load"
  BY DEF IInv, DiskType, LoadConfirms, Sync, Recovering
<1>2. pc' = [pc EXCEPT ![p] = "ledger"] /\ known' = [known EXCEPT ![p] = disk.attempts] /\ marker' = marker
  BY DEF LoadConfirms
<1>3. DiskType' /\ CallType'
  BY <1>1, <1>2, SyncType DEF LoadConfirms, IInv, CallType, Holding, Journals
<1>4. Progress(p)'
  BY <1>1, <1>2 DEF IInv, CallType, Progress, Informed, Writing
<1>5. disk'.attempts >= disk.attempts
  BY <1>1, MaxAttemptsAssumption DEF Journals, AttemptCounts
<1>6. \A q \in Proc \ {p} : known'[q] = known[q] /\ marker'[q] = marker[q]
  BY <1>2 DEF IInv, CallType
<1> QED BY <1>1, <1>2, <1>3, <1>4, <1>5, <1>6, DiskKeeps DEF LoadConfirms, Holding, EffectPhases

-----------------------------------------------------------------------------
(* The actions that record and send a request, and the failures.           *)

LEMMA AppendAttemptKeeps == ASSUME IInv, NEW p \in Proc, AppendAttempt(p) PROVE IInv'
<1>1. CASE Return(p, "stopped")
  BY <1>1, ReturnKeeps DEF AppendAttempt, Outcomes
<1>2. CASE /\ known[p] < MaxAttempts
           /\ WriteMarker(p, "attempt", known[p] + 1, IF IsAdd THEN "send" ELSE "bracket", "stage")
           /\ UNCHANGED lock
  <2>1. known[p] = disk.attempts /\ known[p] + 1 \in AttemptCounts
    BY <1>2, MaxAttemptsAssumption
       DEF IInv, CallType, Progress, Informed, AppendAttempt, AttemptCounts
  <2> QED BY <1>2, <2>1, WriteMarkerKeeps
          DEF AppendAttempt, Holding, Destinations, Continuations, diskVars
<1> QED BY <1>1, <1>2 DEF AppendAttempt

LEMMA FinalizeObservedKeeps == ASSUME IInv, NEW p \in Proc, FinalizeObserved(p) PROVE IInv'
<1>1. known[p] \in AttemptCounts
  BY DEF IInv, CallType
<1> QED BY <1>1, WriteMarkerKeeps DEF FinalizeObserved, Holding, Destinations, Continuations

LEMMA SendAddKeeps == ASSUME IInv, NEW p \in Proc, SendAdd(p) PROVE IInv'
<1>1. pc[p] = "send" /\ known[p] \in Attempts /\ posts[known[p]] = 0
  BY DEF SendAdd, IInv, Progress
<1>2. pc' = [pc EXCEPT ![p] = "await"] /\ known' = known /\ marker' = marker
      /\ disk' = disk /\ surviving' = surviving /\ lock' = lock
      /\ posts' = [posts EXCEPT ![known[p]] = @ + 1]
  BY DEF SendAdd, Goto, diskVars
<1>3. posts' = [posts EXCEPT ![known[p]] = 1]
  BY <1>1, <1>2
<1>4. DiskType' /\ CallType'
  BY <1>2, GotoType DEF IInv, DiskType, CallType, SendAdd, Holding
<1>5. ClientType'
  BY <1>1, <1>3 DEF IInv, ClientType, SendAdd
<1>6. Exclusion'
  BY <1>1, <1>2 DEF IInv, Exclusion, CallType, Holding
<1>7. ASSUME NEW q \in Proc PROVE Progress(q)'
  <2>1. CASE q = p
    BY <1>1, <1>2, <2>1 DEF IInv, CallType, Progress, Informed, Writing
  <2>2. CASE q # p
    <3>1. pc'[q] = pc[q] /\ pc[q] \notin Holding
      BY <1>1, <1>2, <2>2 DEF IInv, Exclusion, CallType, Holding
    <3> QED BY <3>1 DEF Progress, Informed, Writing, Holding
  <2> QED BY <2>1, <2>2
<1>8. AttemptBeforeEffect'
  <2>1. \A j \in surviving : j.attempts = known[p]
    BY <1>1 DEF IInv, AttemptBeforeEffect, EffectPhases
  <2>2. ASSUME NEW j \in surviving', NEW i \in Attempts, posts'[i] > 0 PROVE j.attempts >= i
    <3>1. CASE i = known[p]
      BY <1>1, <1>2, <2>1, <3>1, MaxAttemptsAssumption DEF Attempts
    <3>2. CASE i # known[p]
      BY <1>2, <1>3, <2>2, <3>2 DEF IInv, ClientType, AttemptBeforeEffect
    <3> QED BY <3>1, <3>2
  <2>3. ASSUME NEW j \in surviving', NEW q \in Proc, pc'[q] \in EffectPhases
        PROVE  j.attempts = known'[q]
    BY <1>1, <1>2, <2>3 DEF IInv, CallType, AttemptBeforeEffect, EffectPhases
  <2>4. \A i \in Attempts : posts'[i] <= 1
    BY <1>1, <1>3 DEF IInv, ClientType, AttemptBeforeEffect
  <2> QED BY <2>2, <2>3, <2>4 DEF AttemptBeforeEffect
<1> QED BY <1>4, <1>5, <1>6, <1>7, <1>8 DEF IInv

LEMMA PowerLossKeeps == ASSUME IInv, PowerLoss PROVE IInv'
<1>1. PICK j \in surviving : disk' = j /\ surviving' = {j}
  BY DEF PowerLoss
<1>2. \A q \in Proc : pc'[q] = "idle"
  BY DEF PowerLoss
<1>3. DiskType' /\ ClientType'
  BY <1>1 DEF IInv, DiskType, ClientType, PowerLoss, clientVars
<1>4. CallType'
  BY Zero DEF PowerLoss, CallType, NoOptions, Options, Modes, NoMarker, Markers, Destinations,
             Continuations, Unlocked, Replies, Outcomes
<1>5. Exclusion' /\ \A q \in Proc : Progress(q)'
  BY <1>2 DEF Exclusion, Progress, Holding, Informed, Writing
<1>6. AttemptBeforeEffect'
  BY <1>1, <1>2 DEF IInv, AttemptBeforeEffect, EffectPhases, PowerLoss, clientVars
<1> QED BY <1>3, <1>4, <1>5, <1>6 DEF IInv

LEMMA AnswerType ==
  ASSUME IInv, NEW i \in Attempts, NEW r \in Replies, Answer(i, r)
  PROVE  reply' \in [Proc -> Replies]
BY DEF IInv, CallType, Answer

-----------------------------------------------------------------------------
(* Every step.                                                             *)

LEMMA StartsKeep ==
  ASSUME IInv, NEW p \in Proc, StartRun(p) \/ StartResume(p) \/ StartStatus(p)
  PROVE  IInv'
<1>1. CASE StartRun(p)
  BY <1>1, StartKeeps DEF StartRun, Options, Modes
<1>2. CASE StartResume(p)
  BY <1>2, StartKeeps DEF StartResume, Options, Modes
<1>3. CASE StartStatus(p)
  BY <1>3, StartKeeps DEF StartStatus, NoOptions, Options, Modes
<1> QED BY <1>1, <1>2, <1>3

\* An add that passes its survey holds nothing yet.
LEMMA RunSurveysKeeps == ASSUME IInv, NEW p \in Proc, RunSurveys(p) PROVE IInv'
<1>1. CASE Return(p, "stopped")
  BY <1>1, ReturnKeeps DEF RunSurveys, Outcomes
<1>2. CASE Goto(p, "mkdir") /\ UNCHANGED <<lock, marker>>
  <2>1. DiskType' /\ CallType' /\ ClientType'
    BY <1>2, GotoType DEF IInv, DiskType, CallType, ClientType, RunSurveys, clientVars, Unlocked
  <2>2. pc' = [pc EXCEPT ![p] = "mkdir"] /\ disk' = disk /\ surviving' = surviving /\ known' = known
        /\ posts' = posts
    BY <1>2 DEF RunSurveys, Goto, clientVars
  <2>3. Exclusion'
    BY <1>2, <2>2 DEF IInv, Exclusion, CallType, Holding
  <2>4. ASSUME NEW q \in Proc PROVE Progress(q)'
    BY <1>2, <2>2 DEF IInv, CallType, Progress, Informed, Writing
  <2>5. AttemptBeforeEffect'
    BY <2>2 DEF IInv, CallType, AttemptBeforeEffect, EffectPhases
  <2> QED BY <2>1, <2>3, <2>4, <2>5 DEF IInv
<1> QED BY <1>1, <1>2 DEF RunSurveys

\* The actions that read a ledger end the invocation or go on to write.
LEMMA LedgerKeeps ==
  ASSUME IInv, NEW p \in Proc,
         \/ ResumeSettled(p) \/ ResumeObservation(p) \/ ResumeFindsJob(p)
         \/ ResumeFindsAbsence(p) \/ RereadLedger(p) \/ CloseBracket(p)
  PROVE  IInv'
<1>1. pc[p] \in Informed /\ UNCHANGED <<disk, surviving, clientVars>>
  BY DEF ResumeSettled, ResumeObservation, ResumeFindsJob, ResumeFindsAbsence, RereadLedger,
         CloseBracket, Informed
<1>2. \/ \E o \in Outcomes : Return(p, o)
      \/ \E step \in {"act", "seal"} : Goto(p, step) /\ UNCHANGED <<lock, marker>>
  BY DEF ResumeSettled, ResumeObservation, ResumeFindsJob, ResumeFindsAbsence, RereadLedger,
         CloseBracket, Outcomes
<1> QED BY <1>1, <1>2, ReturnKeeps, MoveKeeps DEF diskVars

LEMMA EndsKeep ==
  ASSUME IInv, NEW p \in Proc, LoadEnds(p) \/ Abort(p)
  PROVE  IInv'
BY ReturnKeeps DEF LoadEnds, Abort, Outcomes

LEMMA InvocationKeeps == ASSUME IInv, NEW p \in Proc, Invocation(p) PROVE IInv'
<1>1. CASE LoseReply(p)
  BY <1>1, OutsideKeeps DEF LoseReply, IInv, CallType, ClientType, Replies, clientVars
<1> QED BY <1>1, RunSurveysKeeps, MakeRootKeeps, MakeLockKeeps, MakeScratchKeeps, StageMarkerKeeps,
           FillMarkerKeeps, CommitMarkerKeeps, ConfirmMarkerKeeps, OpenJournalKeeps, EndsKeep,
           LoadInitializesKeeps, LoadRepublishesKeeps, LoadDiscardsKeeps, LoadConfirmsKeeps,
           LedgerKeeps, AppendAttemptKeeps, SendAddKeeps, FinalizeObservedKeeps
        DEF Invocation

LEMMA ClientKeeps ==
  ASSUME IInv, NEW i \in Attempts, ClientAccepts(i) \/ ClientRefuses(i) \/ LoseRequest(i)
  PROVE  IInv'
<1>1. CASE ClientAccepts(i)
  <2>1. job' \in Jobs
    <3>1. i \in AttemptCounts
      BY MaxAttemptsAssumption DEF AttemptCounts, Attempts
    <3>2. PICK fit \in BOOLEAN : job' = [origin |-> i, fit |-> fit, present |-> TRUE]
      BY <1>1 DEF ClientAccepts
    <3> QED BY <3>1, <3>2 DEF Jobs
  <2>3. wire' \subseteq Attempts /\ confirmed' \subseteq Attempts
    BY <1>1 DEF ClientAccepts, IInv, ClientType
  <2>2. reply' \in [Proc -> Replies]
    BY <1>1, AnswerType DEF ClientAccepts, Replies
  <2> QED BY <1>1, <2>1, <2>2, <2>3, OutsideKeeps DEF ClientAccepts
<1>2. CASE ClientRefuses(i)
  <2>1. reply' \in [Proc -> Replies]
    BY <1>2, AnswerType DEF ClientRefuses, Replies
  <2> QED BY <1>2, <2>1, OutsideKeeps DEF ClientRefuses, IInv, ClientType
<1>3. CASE LoseRequest(i)
  BY <1>3, OutsideKeeps DEF LoseRequest, IInv, ClientType, CallType, callVars
<1> QED BY <1>1, <1>2, <1>3

LEMMA OthersKeep == ASSUME IInv, OthersChangeJob PROVE IInv'
<1>1. job' \in Jobs
  <2>1. CASE ~ExactJob /\ \E fit \in BOOLEAN : job' = [origin |-> 0, fit |-> fit, present |-> TRUE]
    <3>1. PICK fit \in BOOLEAN : job' = [origin |-> 0, fit |-> fit, present |-> TRUE]
      BY <2>1
    <3> QED BY <3>1, Zero DEF Jobs
  <2>2. CASE ExactJob /\ job' = NoJob
    BY <2>2 DEF Jobs
  <2>3. CASE ExactJob /\ job' = [job EXCEPT !.fit = ~@]
    <3>1. job # NoJob
      BY <2>3 DEF ExactJob, NoJob
    <3>2. job \in [origin : AttemptCounts, fit : BOOLEAN, present : {TRUE}]
      BY <3>1 DEF IInv, ClientType, Jobs
    <3>3. job' \in [origin : AttemptCounts, fit : BOOLEAN, present : {TRUE}]
      BY <2>3, <3>2
    <3> QED BY <3>3 DEF Jobs
  <2> QED BY <2>1, <2>2, <2>3 DEF OthersChangeJob
<1> QED BY <1>1, OutsideKeeps DEF OthersChangeJob, IInv, ClientType, CallType, callVars

LEMMA StutterKeeps == ASSUME IInv, UNCHANGED vars PROVE IInv'
BY OutsideKeeps DEF vars, callVars, clientVars, IInv, CallType, ClientType

LEMMA InitIInv == Init => IInv
<1> SUFFICES ASSUME Init PROVE IInv
  OBVIOUS
<1> PICK plan \in Plans : disk = NoJournal(plan) /\ surviving = {NoJournal(plan)}
  BY DEF Init
<1>1. NoJournal(plan) \in Journals /\ NoJournal(plan).attempts = 0
  BY Zero DEF NoJournal, Journals
<1>2. DiskType /\ ClientType
  BY <1>1 DEF Init, DiskType, ClientType, NothingSent, Jobs
<1>3. CallType
  BY Zero DEF Init, NothingRuns, CallType, NoOptions, Options, Modes, NoMarker, Markers,
             Destinations, Continuations, Unlocked, Replies, Outcomes
<1>4. Exclusion /\ \A p \in Proc : Progress(p)
  BY DEF Init, NothingRuns, Exclusion, Progress, Holding, Informed, Writing
<1>5. AttemptBeforeEffect
  BY DEF Init, NothingRuns, NothingSent, AttemptBeforeEffect, EffectPhases
<1> QED BY <1>2, <1>3, <1>4, <1>5 DEF IInv

LEMMA NextIInv == IInv /\ [Next]_vars => IInv'
<1> SUFFICES ASSUME IInv, [Next]_vars PROVE IInv'
  OBVIOUS
<1>1. CASE \E p \in Proc : StartRun(p) \/ StartResume(p) \/ StartStatus(p)
  BY <1>1, StartsKeep
<1>2. CASE \E p \in Proc : Invocation(p)
  BY <1>2, InvocationKeeps
<1>3. CASE \E p \in Proc : Abort(p)
  BY <1>3, EndsKeep
<1>4. CASE \E i \in Attempts : ClientAccepts(i) \/ ClientRefuses(i) \/ LoseRequest(i)
  BY <1>4, ClientKeeps
<1>5. CASE OthersChangeJob
  BY <1>5, OthersKeep
<1>6. CASE PowerLoss
  BY <1>6, PowerLossKeeps
<1>7. CASE UNCHANGED vars
  BY <1>7, StutterKeeps
<1> QED BY <1>1, <1>2, <1>3, <1>4, <1>5, <1>6, <1>7 DEF Next

LEMMA Invariance == Spec => []IInv
BY InitIInv, NextIInv, PTL DEF Spec

-----------------------------------------------------------------------------
(* The theorems.                                                           *)

\* Every variable keeps its type, for every number of invocations and attempts.
THEOREM TypeCorrect == Spec => []TypeOK
<1>1. IInv => TypeOK
  BY TypeParts DEF IInv
<1> QED BY <1>1, Invariance, PTL

\* Every request ever sent, and every phase that may send or interpret one, is
\* covered by an attempt marker that no power loss can take back, and an
\* attempt sends one request (executeAdd: appendAttempt before AddStopped).
THEOREM RequestsAreRecorded == Spec => []AttemptBeforeEffect
<1>1. IInv => AttemptBeforeEffect
  BY DEF IInv
<1> QED BY <1>1, Invariance, PTL

\* Two invocations are never past the operation lock together, and none is past
\* it without the lock file (openPrivateSubtree, platformAcquireOperationLock).
THEOREM LockExcludes == Spec => []Exclusion
<1>1. IInv => Exclusion
  BY DEF IInv
<1> QED BY <1>1, Invariance, PTL

-----------------------------------------------------------------------------
(***************************************************************************)
(* A completion never claims more than the driver may attribute, reports   *)
(* and recovery survive every crash, and the requests keep the promises of *)
(* EffectLedger.                                                           *)
(*                                                                         *)
(* On top of IInv, the invariant JInv says what every image that a power   *)
(* loss may leave looks like on its own (WellFormed), how the images relate *)
(* to the visible journal (Linked), what a lock holder may write next and  *)
(* what it rests on (Intends, Rests), and that a reported adoption is      *)
(* completed in every image (Reported).                                    *)
(***************************************************************************)

(* One image.                                                              *)

\* The completion of attempt i may be claimed in journal j.
Attributed(j, i) ==
  j.plan.action = "add_stopped" /\ j.plan.driver = "transmission" => i \in confirmed

\* The marker m is the one that journal j lacks.
Fits(j, m) ==
  /\ m.dest = "intent" => ~j.intent /\ m.seq = 0
  /\ m.dest = "attempt" => j.intent /\ m.seq = j.attempts + 1
  /\ m.dest = "complete" =>
       j.intent /\ j.attempts > 0 /\ m.seq = j.attempts /\ Attributed(j, m.seq)

\* A journal is written in order, nothing is staged after a completion, and a
\* completion names the last attempt.
WellFormed(j) ==
  /\ j.root # "locked" => ~j.scratch
  /\ ~j.scratch => ~j.intent /\ j.pending = NoPending
  /\ ~j.intent => j.attempts = 0 /\ j.done = 0
  /\ j.done # 0 => j.pending = NoPending /\ j.done = j.attempts /\ Attributed(j, j.done)
  /\ j.pending.dest = "none" => j.pending = NoPending
  /\ Fits(j, j.pending)

\* A journal holds a completion, or has one staged.
Claims(j) == j.done # 0 \/ j.pending.dest = "complete"

\* An image is at most one published marker behind the visible journal, and
\* beside a staged marker it is behind by nothing else.
Linked(j) ==
  /\ j.plan = disk.plan
  /\ j.attempts = disk.attempts \/ j.attempts + 1 = disk.attempts
  /\ j.attempts # disk.attempts =>
       /\ disk.pending = NoPending /\ disk.done = 0
       /\ j.done = 0 /\ j.pending.dest # "complete"
  /\ disk.pending # NoPending => j.done = 0 /\ j.pending.dest \in {"none", disk.pending.dest}
  /\ Claims(j) => Claims(disk)

Image(j) == WellFormed(j) /\ Linked(j)

\* An open operation with nothing staged.
Open == disk.intent /\ disk.done = 0 /\ disk.pending = NoPending

\* The marker m was just published.
Landed(m) ==
  /\ disk.pending = NoPending
  /\ m.dest = "intent" => Open /\ disk.attempts = 0
  /\ m.dest = "attempt" => Open
  /\ m.dest = "complete" => disk.done # 0

\* What follows a marker is what it was written for; only an add sends, and
\* only an observation brackets.
Purpose(m) ==
  /\ m.then = "act" => m.dest = "intent"
  /\ m.then = "send" => m.dest = "attempt" /\ IsAdd
  /\ m.then = "bracket" => m.dest = "attempt" /\ ~IsAdd
  /\ m.then = "adopted" => m.dest = "complete"

\* The marker that is written: not yet staged, staged, published.
Intends(p) ==
  /\ pc[p] = "scratch" => marker[p].dest = "intent"
  /\ pc[p] = "stage" => disk.scratch
  /\ pc[p] \in {"scratch", "stage"} =>
       disk.pending = NoPending /\ disk.done = 0 /\ Fits(disk, marker[p])
  /\ pc[p] \in Writing \cup {"confirm"} => Purpose(marker[p])
  /\ pc[p] = "confirm" => Landed(marker[p])

\* An answer arrives only for a request, and a request is still to come.
Unanswered(p) ==
  \/ pc[p] \in Unlocked \cup {"load", "ledger", "act", "send"}
  \/ pc[p] \in Writing \cup {"confirm"} /\ marker[p].then \in {"act", "load", "send"}

Sending(p) ==
  \/ pc[p] \in {"act", "send"} /\ IsAdd
  \/ pc[p] \in Writing \cup {"confirm"} /\ marker[p].then = "send"

\* What the point an invocation has reached rests on.
Rests(p) ==
  /\ pc[p] = "ledger" => disk.intent /\ disk.pending = NoPending /\ surviving = {disk}
  /\ pc[p] \in {"act", "send", "await", "bracket", "seal"} => Open
  /\ pc[p] \in EffectPhases => surviving = {disk} /\ disk.attempts > 0
  /\ pc[p] \in {"send", "await"} => IsAdd
  /\ pc[p] = "bracket" => ~IsAdd
  /\ pc[p] = "await" /\ reply[p] = "accepted" => known[p] \in confirmed
  /\ pc[p] = "seal" => disk.attempts > 0 /\ Attributed(disk, known[p])
  /\ Unanswered(p) => reply[p] = "none"
  /\ Sending(p) => opts[p].repeat \/ \A i \in Attempts : posts[i] = 0

\* Adoption was reported of a completion that every image has.
Reported(p) == outcome[p] = "adopted" => \A j \in surviving : j.done # 0

JInv ==
  /\ \A j \in surviving : Image(j)
  /\ \A p \in Proc : Intends(p) /\ Rests(p) /\ Reported(p)

Inv == IInv /\ JInv

-----------------------------------------------------------------------------
(* Types and fields.                                                       *)

LEMMA Counts ==
  /\ Attempts \subseteq AttemptCounts /\ AttemptCounts \subseteq Nat /\ 0 \notin Attempts
  /\ \A n \in AttemptCounts : n # 0 => n \in Attempts
BY MaxAttemptsAssumption DEF Attempts, AttemptCounts

\* The fields of a journal.
LEMMA Fields ==
  ASSUME NEW j \in Journals
  PROVE  /\ j.plan \in Plans /\ j.root \in {"none", "bare", "locked"} /\ j.scratch \in BOOLEAN
         /\ j.intent \in BOOLEAN /\ j.attempts \in AttemptCounts /\ j.attempts \in Nat
         /\ j.done \in AttemptCounts /\ j.done \in Nat
         /\ j.pending \in Pendings /\ j.pending.dest \in Destinations \cup {"none"}
         /\ j.pending.seq \in AttemptCounts /\ j.pending.whole \in BOOLEAN
BY Counts DEF Journals, Pendings

\* What each helper of writeMarker changes.
LEMMA StageFields ==
  ASSUME NEW j \in Journals, NEW dest \in Destinations, NEW seq \in AttemptCounts
  PROVE  /\ Stage(j, dest, seq).pending = [dest |-> dest, seq |-> seq, whole |-> FALSE]
         /\ Stage(j, dest, seq).plan = j.plan /\ Stage(j, dest, seq).scratch = j.scratch
         /\ Stage(j, dest, seq).intent = j.intent /\ Stage(j, dest, seq).done = j.done
BY DEF Stage, Journals, Pendings

LEMMA FillFields ==
  ASSUME NEW j \in Journals
  PROVE  /\ Fill(j).pending = [j.pending EXCEPT !.whole = (j.pending.dest # "none")]
         /\ Fill(j).plan = j.plan /\ Fill(j).scratch = j.scratch
         /\ Fill(j).intent = j.intent /\ Fill(j).done = j.done
BY DEF Fill, Journals, Pendings

LEMMA CommitFields ==
  ASSUME NEW j \in Journals
  PROVE  /\ Commit(j).pending = NoPending
         /\ Commit(j).plan = j.plan /\ Commit(j).scratch = j.scratch
         /\ Commit(j).intent = (j.intent \/ j.pending.dest = "intent")
         /\ Commit(j).done = IF j.pending.dest = "complete" THEN j.pending.seq ELSE j.done
BY Zero, Fields DEF Commit, Journals

LEMMA DiscardFields ==
  ASSUME NEW j \in Journals
  PROVE  /\ Discard(j).pending = NoPending
         /\ Discard(j).plan = j.plan /\ Discard(j).scratch = j.scratch
         /\ Discard(j).intent = j.intent /\ Discard(j).done = j.done
BY Zero DEF Discard, Journals

LEMMA DiskImage ==
  ASSUME Inv
  PROVE  disk \in Journals /\ disk \in surviving /\ Image(disk) /\ WellFormed(disk)
BY DEF Inv, IInv, JInv, DiskType, Image

LEMMA SurvivingImages ==
  ASSUME Inv, NEW j \in surviving
  PROVE  j \in Journals /\ Image(j) /\ WellFormed(j) /\ Linked(j)
BY DEF Inv, IInv, JInv, DiskType, Image

\* Whoever is past the lock is there alone, in a directory with a lock file.
LEMMA Held ==
  ASSUME Inv, NEW p \in Proc, pc[p] \in Holding
  PROVE  /\ disk.root = "locked" /\ \A q \in Proc \ {p} : pc[q] \notin Holding
         /\ Progress(p) /\ Intends(p) /\ Rests(p) /\ Reported(p)
         /\ marker[p] \in Markers /\ marker[p].dest \in Destinations
         /\ marker[p].seq \in AttemptCounts /\ marker[p].then \in Continuations
BY DEF Inv, IInv, JInv, Exclusion, CallType, Markers

LEMMA NothingPosted ==
  ASSUME Inv, disk.attempts = 0
  PROVE  \A i \in Attempts : posts[i] = 0
<1>1. \A i \in Attempts : ~(posts[i] > 0)
  BY DiskImage, Counts DEF Inv, IInv, AttemptBeforeEffect, Attempts
<1> QED BY <1>1 DEF Inv, IInv, ClientType

-----------------------------------------------------------------------------
(* Kinds of steps that keep the invariant.                                 *)

\* The visible journal stays, and a sync may take images away.
Narrow == disk' = disk /\ disk \in surviving' /\ surviving' \subseteq surviving

\* An image stays one while the journal does, whatever is confirmed besides.
LEMMA ImageStays ==
  ASSUME NEW j, Image(j), disk' = disk, confirmed \subseteq confirmed'
  PROVE  Image(j)'
BY DEF Image, WellFormed, Fits, Attributed, Linked, Claims

LEMMA NarrowKeeps ==
  ASSUME Inv, Narrow, confirmed \subseteq confirmed'
  PROVE  \A j \in surviving' : Image(j)'
<1>1. ASSUME NEW j \in surviving' PROVE Image(j)'
  <2>1. Image(j) /\ disk' = disk BY DEF Inv, JInv, Narrow
  <2> QED BY <2>1, ImageStays
<1> QED BY <1>1

LEMMA QuietIsNarrow == ASSUME Inv, UNCHANGED <<disk, surviving>> PROVE Narrow
BY DEF Narrow, Inv, IInv, DiskType

\* Outside the lock nothing is intended, and nothing rests on the journal.
LEMMA ApartRests ==
  ASSUME NEW p \in Proc, pc'[p] \notin Holding
  PROVE  Intends(p)' /\ (Rests(p)' <=> (pc'[p] \in Unlocked => reply'[p] = "none"))
BY DEF Intends, Rests, Unanswered, Sending, Writing, Holding, EffectPhases, Unlocked

\* What a step of p has to keep when it leaves the others alone: either it
\* changes nothing they know, or none of them is past the lock.
LEMMA StepKeeps ==
  ASSUME Inv, NEW p \in Proc, \A j \in surviving' : Image(j)',
         Intends(p)', Rests(p)', Reported(p)',
         \A q \in Proc \ {p} :
           /\ pc'[q] = pc[q] /\ opts'[q] = opts[q] /\ marker'[q] = marker[q]
           /\ reply'[q] = reply[q] /\ outcome'[q] = outcome[q] /\ known'[q] = known[q],
         \/ Narrow /\ UNCHANGED <<posts, confirmed>>
         \/ disk.done = 0 /\ \A q \in Proc \ {p} : pc[q] \notin Holding
  PROVE  JInv'
<1>1. ASSUME NEW q \in Proc \ {p} PROVE Intends(q)' /\ Rests(q)' /\ Reported(q)'
  <2>1. Intends(q) /\ Rests(q) /\ Reported(q) /\ disk \in surviving BY DEF Inv, JInv, IInv, DiskType
  <2>2. CASE Narrow /\ UNCHANGED <<posts, confirmed>>
    <3>1. surviving = {disk} => surviving' = {disk} BY <2>2 DEF Narrow
    <3>2. Intends(q)'
      BY <2>1, <2>2 DEF Narrow, Intends, Fits, Attributed, Purpose, Landed, Open, IsAdd
    <3>3. Rests(q)'
      BY <2>1, <2>2, <3>1 DEF Narrow, Rests, Unanswered, Sending, Attributed, Open, IsAdd
    <3>4. Reported(q)' BY <2>1, <2>2 DEF Narrow, Reported
    <3> QED BY <3>2, <3>3, <3>4
  <2>3. CASE disk.done = 0 /\ \A r \in Proc \ {p} : pc[r] \notin Holding
    <3>1. pc'[q] \notin Holding /\ pc[q] \notin Holding BY <2>3
    <3>2. pc[q] \in Unlocked => reply'[q] = "none" BY <2>1 DEF Rests, Unanswered
    <3>3. Reported(q)' BY <2>1, <2>3 DEF Reported
    <3> QED BY <3>1, <3>2, <3>3, ApartRests
  <2> QED BY <2>2, <2>3
<1> QED BY <1>1 DEF JInv

\* The end of an invocation.
LEMMA EndKeeps ==
  ASSUME Inv, NEW p \in Proc, NEW o \in Outcomes, Return(p, o), Narrow, UNCHANGED <<posts, confirmed>>,
         o = "adopted" => \A j \in surviving' : j.done # 0
  PROVE  JInv'
<1>1. \A j \in surviving' : Image(j)' BY NarrowKeeps
<1>2. pc'[p] = "idle" /\ reply'[p] = "none" /\ outcome'[p] = o
  BY DEF Return, Inv, IInv, CallType
<1>3. Intends(p)' /\ Rests(p)' BY <1>2, ApartRests DEF Holding
<1>4. Reported(p)' BY <1>2 DEF Reported
<1>5. \A q \in Proc \ {p} :
        /\ pc'[q] = pc[q] /\ opts'[q] = opts[q] /\ marker'[q] = marker[q]
        /\ reply'[q] = reply[q] /\ outcome'[q] = outcome[q] /\ known'[q] = known[q]
  BY DEF Return, Inv, IInv, CallType
<1> QED BY <1>1, <1>3, <1>4, <1>5, StepKeeps

LEMMA QuietEndKeeps ==
  ASSUME Inv, NEW p \in Proc, NEW o \in Outcomes \ {"adopted"}, Return(p, o),
         UNCHANGED <<disk, surviving, clientVars>>
  PROVE  JInv'
BY QuietIsNarrow, EndKeeps DEF clientVars

\* A lock holder goes on.
LEMMA HolderKeeps ==
  ASSUME Inv, NEW p \in Proc, pc[p] \in Holding, NEW step, pc' = [pc EXCEPT ![p] = step],
         UNCHANGED <<opts, outcome>>,
         \A q \in Proc \ {p} :
           marker'[q] = marker[q] /\ reply'[q] = reply[q] /\ known'[q] = known[q],
         \A j \in surviving' : Image(j)', Intends(p)', Rests(p)',
         (Narrow /\ UNCHANGED <<posts, confirmed>>) \/ disk.done = 0
  PROVE  JInv'
<1>1. \A q \in Proc \ {p} : pc'[q] = pc[q] BY DEF Inv, IInv, CallType
<1>2. Reported(p)'
  <2>1. Reported(p) /\ disk \in surviving BY DEF Inv, JInv, IInv, DiskType
  <2> QED BY <2>1 DEF Reported, Narrow
<1> QED BY <1>1, <1>2, Held, StepKeeps

\* An invocation that has not reached the lock goes on without it.
LEMMA ApartKeeps ==
  ASSUME Inv, NEW p \in Proc, pc[p] \in Unlocked, NEW step \in Unlocked,
         pc' = [pc EXCEPT ![p] = step], UNCHANGED <<disk, surviving, marker, reply, known, clientVars>>,
         \A q \in Proc \ {p} : opts'[q] = opts[q] /\ outcome'[q] = outcome[q],
         outcome'[p] \in {outcome[p], "none"}
  PROVE  JInv'
<1>1. Narrow BY QuietIsNarrow
<1>2. \A j \in surviving' : Image(j)' BY <1>1, NarrowKeeps DEF clientVars
<1>3. pc'[p] = step /\ step \notin Holding
  BY DEF Inv, IInv, CallType, Unlocked, Holding
<1>4. Intends(p)' /\ Rests(p)'
  <2>1. reply[p] = "none" BY DEF Inv, JInv, Rests, Unanswered
  <2> QED BY <1>3, <2>1, ApartRests
<1>5. Reported(p)'
  <2>1. Reported(p) BY DEF Inv, JInv
  <2> QED BY <2>1 DEF Reported
<1>6. \A q \in Proc \ {p} : pc'[q] = pc[q] BY DEF Inv, IInv, CallType
<1> QED BY <1>1, <1>2, <1>4, <1>5, <1>6, StepKeeps DEF clientVars

-----------------------------------------------------------------------------
(* The commands, and the creation of the journal.                          *)

LEMMA StartClaims ==
  ASSUME Inv, NEW p \in Proc, NEW o \in Options, NEW step \in {"survey", "open"}, Start(p, o, step)
  PROVE  JInv'
<1>1. pc[p] \in Unlocked /\ step \in Unlocked BY DEF Start, Unlocked
<1>2. \A q \in Proc \ {p} : opts'[q] = opts[q] /\ outcome'[q] = outcome[q]
  BY DEF Start, Inv, IInv, CallType
<1>3. outcome'[p] = "none" BY DEF Start, Inv, IInv, CallType
<1> QED BY <1>1, <1>2, <1>3, ApartKeeps DEF Start, diskVars

LEMMA StartsClaim ==
  ASSUME Inv, NEW p \in Proc, StartRun(p) \/ StartResume(p) \/ StartStatus(p)
  PROVE  JInv'
<1>1. CASE StartRun(p)
  BY <1>1, StartClaims DEF StartRun, Options, Modes
<1>2. CASE StartResume(p)
  BY <1>2, StartClaims DEF StartResume, Options, Modes
<1>3. CASE StartStatus(p)
  BY <1>3, StartClaims DEF StartStatus, NoOptions, Options, Modes
<1> QED BY <1>1, <1>2, <1>3

LEMMA RunSurveysClaims == ASSUME Inv, NEW p \in Proc, RunSurveys(p) PROVE JInv'
<1>1. CASE Return(p, "stopped")
  BY <1>1, QuietEndKeeps DEF RunSurveys, Outcomes
<1>2. CASE Goto(p, "mkdir") /\ UNCHANGED <<lock, marker>>
  <2>1. pc[p] \in Unlocked /\ "mkdir" \in Unlocked BY DEF RunSurveys, Unlocked
  <2> QED BY <1>2, <2>1, ApartKeeps DEF RunSurveys, Goto
<1> QED BY <1>1, <1>2 DEF RunSurveys

\* A new directory, lock file or scratch directory keeps the images.
LEMMA GrowKeeps ==
  ASSUME Inv, ~disk.intent, disk.pending = NoPending, NEW d, d.plan = disk.plan,
         d.intent = disk.intent, d.attempts = disk.attempts, d.done = disk.done,
         d.pending = disk.pending, d.root # "locked" => ~d.scratch, disk' = d,
         surviving' \subseteq surviving \cup {d}, UNCHANGED confirmed
  PROVE  disk.done = 0 /\ \A j \in surviving' : Image(j)'
<1>1. disk.attempts = 0 /\ disk.done = 0 BY DiskImage DEF WellFormed
<1>2. ASSUME NEW j \in surviving PROVE Image(j)'
  BY <1>1, SurvivingImages DEF Image, WellFormed, Fits, Attributed, Linked, Claims
<1>3. ASSUME NEW j, j = d PROVE Image(j)'
  <2>1. WellFormed(j)'
    BY <1>1, <1>3 DEF WellFormed, Fits, NoPending
  <2>2. Linked(j)' BY <1>3 DEF Linked, Claims, NoPending
  <2> QED BY <2>1, <2>2 DEF Image
<1> QED BY <1>1, <1>2, <1>3

LEMMA MakeRootClaims == ASSUME Inv, NEW p \in Proc, MakeRoot(p) PROVE JInv'
<1>1. CASE disk.root # "none" /\ Return(p, "stopped") /\ UNCHANGED <<disk, surviving>>
  BY <1>1, QuietEndKeeps DEF MakeRoot, Outcomes
<1>2. CASE disk.root = "none" /\ Write([disk EXCEPT !.root = "bare"]) /\ Goto(p, "newlock")
           /\ UNCHANGED <<lock, marker>>
  <2> DEFINE d == [disk EXCEPT !.root = "bare"]
  <2>1. /\ d.root = "bare" /\ d.plan = disk.plan /\ d.scratch = disk.scratch
        /\ d.intent = disk.intent /\ d.attempts = disk.attempts
        /\ d.done = disk.done /\ d.pending = disk.pending
        /\ disk' = d /\ surviving' = surviving \cup {d}
    BY <1>2, DiskImage DEF Journals, Write
  <2>2. ~disk.intent /\ disk.pending = NoPending /\ ~disk.scratch
    BY <1>2, DiskImage DEF WellFormed
  <2> HIDE DEF d
  <2>3. disk.done = 0 /\ \A j \in surviving' : Image(j)'
    BY <2>1, <2>2, GrowKeeps DEF MakeRoot, clientVars
  <2>4. \A q \in Proc : pc[q] \notin Holding BY <1>2 DEF Inv, IInv, Exclusion
  <2>5. /\ pc[p] \in Unlocked /\ pc'[p] = "newlock" /\ reply'[p] = reply[p]
        /\ outcome' = outcome /\ \A q \in Proc \ {p} : pc'[q] = pc[q]
    BY <1>2 DEF MakeRoot, Unlocked, Goto, Inv, IInv, CallType
  <2>6. Intends(p)' /\ Rests(p)'
    <3>1. reply[p] = "none" BY <2>5 DEF Inv, JInv, Rests, Unanswered
    <3> QED BY <2>5, <3>1, ApartRests DEF Holding
  <2>7. Reported(p)'
    <3>1. Reported(p) /\ disk \in surviving BY DEF Inv, JInv, IInv, DiskType
    <3> QED BY <2>3, <2>5, <3>1 DEF Reported
  <2> QED BY <1>2, <2>3, <2>4, <2>5, <2>6, <2>7, StepKeeps DEF Goto
<1> QED BY <1>1, <1>2 DEF MakeRoot

LEMMA MakeLockClaims == ASSUME Inv, NEW p \in Proc, MakeLock(p) PROVE JInv'
<1> DEFINE d == [disk EXCEPT !.root = "locked"]
           m == [dest |-> "intent", seq |-> 0, then |-> "act"]
<1>1. /\ pc[p] = "newlock" /\ SyncThenWrite(d) /\ marker' = [marker EXCEPT ![p] = m]
      /\ Goto(p, "scratch") /\ UNCHANGED clientVars
  BY DEF MakeLock, WriteMarker
<1>2. /\ d.root = "locked" /\ d.plan = disk.plan /\ d.scratch = disk.scratch
      /\ d.intent = disk.intent /\ d.attempts = disk.attempts
      /\ d.done = disk.done /\ d.pending = disk.pending
      /\ disk' = d /\ surviving' \subseteq surviving \cup {d}
  BY <1>1, DiskImage DEF Journals, SyncThenWrite
<1>3. disk.root = "bare" /\ \A q \in Proc \ {p} : pc[q] \notin Holding
  BY <1>1 DEF Inv, IInv, Exclusion
<1>4. ~disk.intent /\ disk.pending = NoPending /\ ~disk.scratch
  BY <1>3, DiskImage DEF WellFormed
<1> HIDE DEF d
<1>5. disk.done = 0 /\ \A j \in surviving' : Image(j)'
  BY <1>1, <1>2, <1>4, GrowKeeps DEF clientVars
<1>6. /\ pc[p] \in Unlocked /\ pc'[p] = "scratch" /\ marker'[p] = m /\ reply'[p] = reply[p]
      /\ outcome' = outcome /\ \A q \in Proc \ {p} : pc'[q] = pc[q] /\ marker'[q] = marker[q]
  BY <1>1 DEF Unlocked, Goto, Inv, IInv, CallType
<1>7. m.dest = "intent" /\ m.then = "act" /\ m.seq = 0 OBVIOUS
<1> HIDE DEF m
<1>8. Intends(p)' BY <1>2, <1>4, <1>5, <1>6, <1>7 DEF Intends, Fits, Purpose, Writing
<1>9. Rests(p)'
  <2>1. reply[p] = "none" BY <1>6 DEF Inv, JInv, Rests, Unanswered
  <2> QED BY <1>6, <1>7, <2>1 DEF Rests, Unanswered, Sending, EffectPhases
<1>10. Reported(p)'
  <2>1. Reported(p) /\ disk \in surviving BY DEF Inv, JInv, IInv, DiskType
  <2> QED BY <1>5, <1>6, <2>1 DEF Reported
<1> QED BY <1>1, <1>3, <1>5, <1>6, <1>8, <1>9, <1>10, StepKeeps DEF Goto

LEMMA MakeScratchClaims == ASSUME Inv, NEW p \in Proc, MakeScratch(p) PROVE JInv'
<1> DEFINE d == [disk EXCEPT !.scratch = TRUE]
<1>1. /\ Write(d) /\ Goto(p, "stage") /\ UNCHANGED <<lock, marker, clientVars>> /\ pc[p] = "scratch"
  BY DEF MakeScratch
<1>2. /\ d.root = disk.root /\ d.plan = disk.plan /\ d.scratch = TRUE
      /\ d.intent = disk.intent /\ d.attempts = disk.attempts
      /\ d.done = disk.done /\ d.pending = disk.pending
      /\ disk' = d /\ surviving' = surviving \cup {d}
  BY <1>1, DiskImage DEF Journals, Write
<1>3. pc[p] \in Holding /\ marker' = marker BY <1>1 DEF Holding
<1>4. /\ ~disk.intent /\ disk.pending = NoPending /\ disk.done = 0 /\ disk.root = "locked"
      /\ marker[p].dest = "intent" /\ Fits(disk, marker[p]) /\ Purpose(marker[p])
      /\ Unanswered(p) => reply[p] = "none"
      /\ Sending(p) => opts[p].repeat \/ \A i \in Attempts : posts[i] = 0
  BY <1>1, <1>3, Held DEF Intends, Fits, Writing, Rests
<1> HIDE DEF d
<1>5. \A j \in surviving' : Image(j)'
  BY <1>1, <1>2, <1>4, GrowKeeps DEF clientVars
<1>6. pc'[p] = "stage" /\ reply'[p] = reply[p] /\ opts' = opts /\ posts' = posts
  BY <1>1 DEF Inv, IInv, CallType, Goto, clientVars
<1>7. Intends(p)' BY <1>2, <1>3, <1>4, <1>6 DEF Intends, Fits, Purpose, IsAdd
<1>8. Rests(p)'
  BY <1>1, <1>3, <1>4, <1>6 DEF Rests, Unanswered, Sending, Writing, EffectPhases, Unlocked
<1> QED BY <1>1, <1>3, <1>4, <1>5, <1>7, <1>8, HolderKeeps DEF Goto

-----------------------------------------------------------------------------
(* writeMarker.                                                            *)

LEMMA StageMarkerClaims == ASSUME Inv, NEW p \in Proc, StageMarker(p) PROVE JInv'
<1> DEFINE m == marker[p]
           d == Stage(disk, m.dest, m.seq)
<1>1. /\ SyncThenWrite(d) /\ Goto(p, "fill") /\ UNCHANGED <<lock, marker, clientVars>>
      /\ pc[p] = "stage" /\ disk.pending = NoPending
  BY DEF StageMarker
<1>2. pc[p] \in Holding BY <1>1 DEF Holding
<1>3. /\ m.dest \in Destinations /\ m.seq \in AttemptCounts /\ disk.root = "locked"
      /\ disk.scratch /\ disk.done = 0 /\ Fits(disk, m) /\ Purpose(m)
      /\ Unanswered(p) => reply[p] = "none"
      /\ Sending(p) => opts[p].repeat \/ \A i \in Attempts : posts[i] = 0
  BY <1>1, <1>2, Held DEF Intends, Writing, Rests
<1>4. disk' = d /\ surviving' = {disk, d} BY <1>1 DEF SyncThenWrite
<1>5. /\ d.plan = disk.plan /\ d.root = disk.root /\ d.scratch = disk.scratch
      /\ d.intent = disk.intent /\ d.attempts = disk.attempts /\ d.done = disk.done
      /\ d.pending = [dest |-> m.dest, seq |-> m.seq, whole |-> FALSE]
  <2>1. disk \in Journals /\ m.dest \in Destinations /\ m.seq \in AttemptCounts BY <1>3, DiskImage
  <2> HIDE DEF m
  <2> QED BY <2>1, StageType, StageFields
<1>6. d.pending.dest = m.dest /\ d.pending.seq = m.seq /\ m.dest # "none" /\ d.pending # NoPending
  BY <1>3, <1>5 DEF Destinations, NoPending
<1> HIDE DEF d
<1>7. ASSUME NEW j, j = d PROVE Image(j)'
  <2>1. Fits(j, j.pending)' BY <1>1, <1>3, <1>5, <1>6, <1>7 DEF Fits, Attributed, clientVars
  <2>2. WellFormed(j)' BY <1>3, <1>5, <1>6, <1>7, <2>1, DiskImage DEF WellFormed
  <2>3. Linked(j)' BY <1>3, <1>4, <1>5, <1>6, <1>7 DEF Linked, Claims
  <2> QED BY <2>2, <2>3 DEF Image
<1>8. ASSUME NEW j, j = disk PROVE Image(j)'
  <2>1. WellFormed(j)' BY <1>1, <1>8, DiskImage DEF WellFormed, Fits, Attributed, clientVars
  <2>2. Linked(j)' BY <1>1, <1>3, <1>4, <1>5, <1>6, <1>8 DEF Linked, Claims, NoPending
  <2> QED BY <2>1, <2>2 DEF Image
<1>9. \A j \in surviving' : Image(j)' BY <1>4, <1>7, <1>8
<1>10. pc'[p] = "fill" /\ marker' = marker /\ reply'[p] = reply[p] /\ opts' = opts /\ posts' = posts
  BY <1>1 DEF Inv, IInv, CallType, Goto, clientVars
<1>11. Intends(p)' BY <1>3, <1>4, <1>5, <1>10 DEF Intends, Purpose, IsAdd
<1>12. Rests(p)'
  BY <1>1, <1>3, <1>10 DEF Rests, Unanswered, Sending, Writing, EffectPhases, Unlocked
<1> QED BY <1>1, <1>2, <1>3, <1>9, <1>11, <1>12, HolderKeeps DEF Goto

\* A journal with something staged is not complete, and its images are those
\* with and without the staged marker.
LEMMA StagedImages ==
  ASSUME Inv, disk.pending # NoPending
  PROVE  /\ disk.done = 0 /\ disk.scratch /\ disk.pending.dest # "none"
         /\ \A j \in surviving :
              /\ j.attempts = disk.attempts /\ j.done = 0
              /\ j.pending.dest \in {"none", disk.pending.dest}
BY DiskImage, SurvivingImages DEF WellFormed, Linked

\* The bytes of a staged file reach it wherever it survives.
LEMMA FillImage ==
  ASSUME NEW k \in Journals
  PROVE  /\ Fill(k).plan = k.plan /\ Fill(k).root = k.root /\ Fill(k).scratch = k.scratch
         /\ Fill(k).intent = k.intent /\ Fill(k).attempts = k.attempts /\ Fill(k).done = k.done
         /\ Fill(k).pending.dest = k.pending.dest /\ Fill(k).pending.seq = k.pending.seq
         /\ k.pending = NoPending => Fill(k).pending = NoPending
         /\ k.pending.dest = "complete" => Fill(k).pending.whole
<1>1. k.pending \in Pendings BY Fields
<1>2. Fill(k).pending = [k.pending EXCEPT !.whole = (k.pending.dest # "none")] BY FillFields
<1>3. k.pending = NoPending => Fill(k).pending = NoPending
  <2>1. [NoPending EXCEPT !.whole = FALSE] = NoPending
    <3>1. [NoPending EXCEPT !.whole = FALSE] \in Pendings /\ NoPending \in Pendings
      BY Zero DEF Pendings
    <3>2. ~[NoPending EXCEPT !.whole = FALSE].whole /\ ~NoPending.whole BY DEF NoPending
    <3> QED BY <3>1, <3>2 DEF Pendings, NoPending
  <2>2. (NoPending.dest # "none") = FALSE BY DEF NoPending
  <2> QED BY <1>2, <2>1, <2>2, Zenon
<1>4. k.pending.dest = "complete" => Fill(k).pending.whole BY <1>1, <1>2 DEF Pendings
<1>5. Fill(k).pending.dest = k.pending.dest /\ Fill(k).pending.seq = k.pending.seq
  BY FillType
<1> QED BY <1>3, <1>4, <1>5, FillType, FillFields

LEMMA FillMarkerClaims == ASSUME Inv, NEW p \in Proc, FillMarker(p) PROVE JInv'
<1>1. /\ disk' = Fill(disk) /\ surviving' = {Fill(j) : j \in surviving} /\ Goto(p, "commit")
      /\ UNCHANGED <<lock, marker, clientVars>> /\ pc[p] = "fill"
  BY DEF FillMarker
<1>2. pc[p] \in Holding BY <1>1 DEF Holding
<1>3. /\ marker[p].dest \in Destinations /\ disk.pending.dest = marker[p].dest /\ Purpose(marker[p])
      /\ Unanswered(p) => reply[p] = "none"
      /\ Sending(p) => opts[p].repeat \/ \A i \in Attempts : posts[i] = 0
  BY <1>1, <1>2, Held DEF Progress, Intends, Writing, Rests
<1>4. disk.pending # NoPending BY <1>3 DEF Destinations, NoPending
<1>5. /\ disk' = Fill(disk) /\ disk'.plan = disk.plan /\ disk'.intent = disk.intent
      /\ disk'.attempts = disk.attempts /\ disk'.done = disk.done
      /\ disk'.pending.dest = disk.pending.dest
  BY <1>1, DiskImage, FillImage
<1>6. ASSUME NEW k \in surviving, NEW j, j = Fill(k) PROVE Image(j)'
  <2>1. k \in Journals /\ WellFormed(k) /\ Linked(k) BY SurvivingImages
  <2>2. /\ j.plan = k.plan /\ j.root = k.root /\ j.scratch = k.scratch
        /\ j.intent = k.intent /\ j.attempts = k.attempts /\ j.done = k.done
        /\ j.pending.dest = k.pending.dest /\ j.pending.seq = k.pending.seq
        /\ k.pending = NoPending => j.pending = NoPending
    BY <1>6, <2>1, FillImage
  <2>3. WellFormed(j)' BY <1>1, <2>1, <2>2 DEF WellFormed, Fits, Attributed, clientVars, NoPending
  <2>4. Linked(j)' BY <1>3, <1>4, <1>5, <2>1, <2>2, StagedImages DEF Linked, Claims, NoPending, Destinations
  <2> QED BY <2>3, <2>4 DEF Image
<1>7. \A j \in surviving' : Image(j)' BY <1>1, <1>6
<1>8. pc'[p] = "commit" /\ marker' = marker /\ reply'[p] = reply[p] /\ opts' = opts /\ posts' = posts
  BY <1>1 DEF Inv, IInv, CallType, Goto, clientVars
<1>9. Intends(p)' BY <1>3, <1>5, <1>8 DEF Intends, Purpose, IsAdd
<1>10. Rests(p)'
  BY <1>1, <1>3, <1>8 DEF Rests, Unanswered, Sending, Writing, EffectPhases, Unlocked
<1> QED BY <1>1, <1>2, <1>4, <1>7, <1>9, <1>10, StagedImages, HolderKeeps DEF Goto

\* A rename publishes what is staged.
LEMMA CommitImage ==
  ASSUME Inv, disk.pending # NoPending, NEW c, c = Commit(disk)
  PROVE  /\ WellFormed(c) /\ c.plan = disk.plan /\ c.root = disk.root /\ c.pending = NoPending
         /\ c.intent
         /\ c.attempts = disk.attempts \/ c.attempts = disk.attempts + 1
         /\ disk.pending.dest # "attempt" => c.attempts = disk.attempts
         /\ disk.pending.dest = "intent" => c.attempts = 0
         /\ disk.pending.dest # "complete" => c.done = 0
         /\ disk.pending.dest = "complete" => c.done # 0 /\ c.attempts > 0
<1>1. /\ disk \in Journals /\ WellFormed(disk) /\ disk.scratch /\ disk.done = 0
      /\ disk.pending.dest \in Destinations /\ Fits(disk, disk.pending)
  BY DiskImage, StagedImages, Fields DEF WellFormed
<1>2. /\ c.plan = disk.plan /\ c.root = disk.root /\ c.pending = NoPending
      /\ c.scratch = disk.scratch /\ c.intent = (disk.intent \/ disk.pending.dest = "intent")
      /\ c.attempts = IF disk.pending.dest = "attempt" THEN disk.pending.seq ELSE disk.attempts
      /\ c.done = IF disk.pending.dest = "complete" THEN disk.pending.seq ELSE disk.done
  BY <1>1, CommitType, CommitFields
<1>3. /\ disk.attempts \in Nat /\ disk.pending.seq \in Nat BY <1>1, Fields, Counts
<1>4. c.intent BY <1>1, <1>2 DEF Fits, Destinations
<1>5. disk.pending.dest = "intent" => disk.attempts = 0 BY <1>1 DEF Fits, WellFormed
<1>6. WellFormed(c)
  BY <1>1, <1>2, <1>3, <1>4 DEF WellFormed, Fits, Attributed, NoPending
<1> QED BY <1>1, <1>2, <1>3, <1>4, <1>5, <1>6 DEF Fits

LEMMA CommitMarkerClaims == ASSUME Inv, NEW p \in Proc, CommitMarker(p) PROVE JInv'
<1> DEFINE m == marker[p]
           c == Commit(disk)
<1>1. /\ disk' = c /\ surviving' = surviving \cup {c} /\ Goto(p, "confirm")
      /\ UNCHANGED <<lock, marker, clientVars>> /\ pc[p] = "commit"
  BY DEF CommitMarker, Write
<1>2. pc[p] \in Holding BY <1>1 DEF Holding
<1>3. /\ m.dest \in Destinations /\ disk.pending.dest = m.dest /\ Purpose(m)
      /\ Unanswered(p) => reply[p] = "none"
      /\ Sending(p) => opts[p].repeat \/ \A i \in Attempts : posts[i] = 0
  BY <1>1, <1>2, Held DEF Progress, Intends, Writing, Rests
<1>4. disk.pending # NoPending BY <1>3 DEF Destinations, NoPending
<1>5. /\ WellFormed(c) /\ c.plan = disk.plan /\ c.pending = NoPending /\ c.intent
      /\ c.attempts = disk.attempts \/ c.attempts = disk.attempts + 1
      /\ m.dest # "attempt" => c.attempts = disk.attempts
      /\ m.dest = "intent" => c.attempts = 0
      /\ m.dest # "complete" => c.done = 0
      /\ m.dest = "complete" => c.done # 0
  BY <1>3, <1>4, CommitImage
<1> HIDE DEF c
<1>6. ASSUME NEW j \in surviving PROVE Image(j)'
  <2>1. /\ Image(j) /\ j.attempts = disk.attempts /\ j.done = 0 /\ j.plan = disk.plan
        /\ j.pending.dest \in {"none", m.dest}
    BY <1>3, <1>4, StagedImages, SurvivingImages DEF Linked
  <2>2. Linked(j)' BY <1>1, <1>5, <2>1 DEF Linked, Claims
  <2>3. WellFormed(j)' BY <1>1, <2>1 DEF Image, WellFormed, Fits, Attributed, clientVars
  <2> QED BY <2>2, <2>3 DEF Image
<1>7. ASSUME NEW j, j = c PROVE Image(j)'
  <2>1. Linked(j)' BY <1>1, <1>5, <1>7 DEF Linked, Claims
  <2>2. WellFormed(j)' BY <1>1, <1>5, <1>7 DEF WellFormed, Fits, Attributed, clientVars
  <2> QED BY <2>1, <2>2 DEF Image
<1>8. \A j \in surviving' : Image(j)' BY <1>1, <1>6, <1>7
<1>9. pc'[p] = "confirm" /\ marker' = marker /\ reply'[p] = reply[p] /\ opts' = opts /\ posts' = posts
  BY <1>1 DEF Inv, IInv, CallType, Goto, clientVars
<1>10. Landed(m)' BY <1>1, <1>5, <1>9 DEF Landed, Open
<1>11. Intends(p)' BY <1>1, <1>3, <1>5, <1>9, <1>10 DEF Intends, Purpose, IsAdd
<1>12. Rests(p)'
  BY <1>1, <1>3, <1>9 DEF Rests, Unanswered, Sending, Writing, EffectPhases, Unlocked
<1> QED BY <1>1, <1>2, <1>4, <1>8, <1>11, <1>12, StagedImages, HolderKeeps DEF Goto

\* After the sync the published journal is the only image.
LEMMA ConfirmMarkerClaims == ASSUME Inv, NEW p \in Proc, ConfirmMarker(p) PROVE JInv'
<1> DEFINE m == marker[p]
<1>1. /\ pc[p] = "confirm" /\ disk' = disk /\ surviving' = {disk} /\ UNCHANGED clientVars
  BY DEF ConfirmMarker, Sync
<1>2. Narrow BY <1>1, DiskImage DEF Narrow
<1>3. pc[p] \in Holding BY <1>1 DEF Holding
<1>4. /\ m.dest \in Destinations /\ m.then \in Continuations /\ Purpose(m) /\ Landed(m)
      /\ m.dest = "attempt" => disk.attempts \in Attempts
      /\ Unanswered(p) => reply[p] = "none"
      /\ Sending(p) => opts[p].repeat \/ \A i \in Attempts : posts[i] = 0
  BY <1>1, <1>3, Held DEF Progress, Intends, Rests
<1>5. CASE m.then = "adopted" /\ Return(p, "adopted")
  <2>1. disk.done # 0 BY <1>4, <1>5 DEF Purpose, Landed
  <2> QED BY <1>1, <1>2, <1>5, <2>1, EndKeeps DEF Outcomes, clientVars
<1>6. CASE /\ m.then # "adopted" /\ pc' = [pc EXCEPT ![p] = m.then]
           /\ known' = [known EXCEPT ![p] = disk.attempts]
           /\ UNCHANGED <<lock, opts, marker, reply, outcome>>
  <2>1. m.then \in {"act", "load", "send", "bracket"} BY <1>4, <1>6 DEF Continuations
  <2>2. pc'[p] = m.then /\ \A q \in Proc \ {p} : known'[q] = known[q]
    BY <1>6 DEF Inv, IInv, CallType
  <2>3. Intends(p)' BY <2>1, <2>2 DEF Intends, Writing
  <2>4. posts' = posts BY <1>1 DEF clientVars
  <2>5. Unanswered(p)' => reply'[p] = "none"
    BY <1>1, <1>4, <1>6, <2>1, <2>2 DEF Unanswered, Writing, Unlocked
  <2>6. Sending(p)' => opts'[p].repeat \/ \A i \in Attempts : posts'[i] = 0
    <3>1. CASE m.then = "act"
      <4>1. disk.attempts = 0 BY <1>4, <3>1 DEF Purpose, Landed
      <4> QED BY <2>4, <4>1, NothingPosted
    <3>2. CASE m.then # "act"
      BY <1>1, <1>4, <1>6, <2>2, <2>4, <3>2 DEF Sending, Purpose, IsAdd, Writing
    <3> QED BY <3>1, <3>2
  <2>7. m.dest = "attempt" => disk.attempts > 0 BY <1>4 DEF Attempts
  <2>8. Rests(p)'
    BY <1>1, <1>4, <2>1, <2>2, <2>5, <2>6, <2>7 DEF Rests, Purpose, Landed, Open, IsAdd, EffectPhases
  <2>9. \A j \in surviving' : Image(j)' BY <1>1, <1>2, NarrowKeeps DEF clientVars
  <2> QED BY <1>1, <1>2, <1>3, <1>6, <2>2, <2>3, <2>8, <2>9, HolderKeeps DEF clientVars
<1> QED BY <1>5, <1>6 DEF ConfirmMarker

-----------------------------------------------------------------------------
(* openJournal and the ledger.                                             *)

LEMMA OpenJournalClaims == ASSUME Inv, NEW p \in Proc, OpenJournal(p) PROVE JInv'
<1>1. CASE Return(p, "stopped")
  BY <1>1, QuietEndKeeps DEF OpenJournal, Outcomes
<1>2. CASE lock = Nobody /\ Goto(p, "load") /\ UNCHANGED marker
  <2>1. Narrow /\ UNCHANGED clientVars /\ pc[p] = "open" BY QuietIsNarrow DEF OpenJournal
  <2>2. \A j \in surviving' : Image(j)' BY <2>1, NarrowKeeps DEF clientVars
  <2>3. /\ pc'[p] = "load" /\ reply'[p] = reply[p] /\ outcome' = outcome
        /\ \A q \in Proc \ {p} : pc'[q] = pc[q]
    BY <1>2 DEF Goto, Inv, IInv, CallType
  <2>4. reply[p] = "none" BY <2>1 DEF Inv, JInv, Rests, Unanswered, Unlocked
  <2>5. Intends(p)' BY <2>3 DEF Intends, Writing
  <2>6. Rests(p)' BY <2>3, <2>4 DEF Rests, Sending, Writing, EffectPhases
  <2>7. Reported(p)'
    <3>1. Reported(p) BY DEF Inv, JInv
    <3> QED BY <2>1, <2>3, <3>1 DEF Reported, Narrow
  <2> QED BY <1>2, <2>1, <2>2, <2>3, <2>5, <2>6, <2>7, StepKeeps DEF Goto, clientVars
<1> QED BY <1>1, <1>2 DEF OpenJournal

LEMMA EndsClaim == ASSUME Inv, NEW p \in Proc, LoadEnds(p) \/ Abort(p) PROVE JInv'
BY QuietEndKeeps DEF LoadEnds, Abort, Outcomes

\* A lock holder starts to write the marker m that the journal lacks.
LEMMA PlanKeeps ==
  ASSUME Inv, NEW p \in Proc, pc[p] \in Holding, NEW step \in {"scratch", "stage"}, Goto(p, step),
         NEW m, marker' = [marker EXCEPT ![p] = m], UNCHANGED <<disk, surviving, clientVars>>,
         step = "scratch" => m.dest = "intent", step = "stage" => disk.scratch,
         disk.pending = NoPending, disk.done = 0, Fits(disk, m), Purpose(m),
         m.then \in {"act", "load", "send"} => reply[p] = "none",
         m.then = "send" => opts[p].repeat \/ \A i \in Attempts : posts[i] = 0
  PROVE  JInv'
<1>1. Narrow BY QuietIsNarrow
<1>2. \A j \in surviving' : Image(j)' BY <1>1, NarrowKeeps DEF clientVars
<1>3. /\ pc'[p] = step /\ marker'[p] = m /\ reply'[p] = reply[p] /\ opts' = opts
      /\ \A q \in Proc \ {p} : marker'[q] = marker[q]
  BY DEF Goto, Inv, IInv, CallType
<1>4. Intends(p)'
  BY <1>3 DEF Intends, Writing, Fits, Attributed, Purpose, IsAdd, clientVars
<1>5. Rests(p)'
  BY <1>3 DEF Rests, Unanswered, Sending, Writing, Unlocked, EffectPhases, clientVars
<1> QED BY <1>1, <1>2, <1>3, <1>4, <1>5, HolderKeeps DEF Goto, clientVars

LEMMA LoadInitializesClaims == ASSUME Inv, NEW p \in Proc, LoadInitializes(p) PROVE JInv'
<1> DEFINE m == [dest |-> "intent", seq |-> 0, then |-> "load"]
           step == IF disk.scratch THEN "stage" ELSE "scratch"
<1>1. /\ pc[p] = "load" /\ Goto(p, step) /\ marker' = [marker EXCEPT ![p] = m]
      /\ UNCHANGED <<disk, surviving, clientVars>>
      /\ ~disk.intent /\ disk.done = 0 /\ disk.pending = NoPending
  BY DEF LoadInitializes, Recovering, WriteMarker, Uninitialized, HasMarkers, diskVars
<1>2. pc[p] \in Holding /\ step \in {"scratch", "stage"} BY <1>1 DEF Holding
<1>3. Fits(disk, m) /\ Purpose(m) BY <1>1 DEF Fits, Purpose
<1>4. reply[p] = "none" BY <1>1, <1>2, Held DEF Rests, Unanswered
<1>5. step = "stage" => disk.scratch OBVIOUS
<1>6. m.dest = "intent" /\ m.then = "load" OBVIOUS
<1> HIDE DEF m, step
<1> QED BY <1>1, <1>2, <1>3, <1>4, <1>5, <1>6, PlanKeeps

LEMMA LoadRepublishesClaims == ASSUME Inv, NEW p \in Proc, LoadRepublishes(p) PROVE JInv'
<1> DEFINE m == [dest |-> disk.pending.dest, seq |-> disk.pending.seq, then |-> "load"]
<1>1. /\ pc[p] = "load" /\ Goto(p, "commit") /\ marker' = [marker EXCEPT ![p] = m]
      /\ UNCHANGED <<disk, surviving, clientVars>>
  BY DEF LoadRepublishes, Recovering, WriteMarker, diskVars
<1>2. pc[p] \in Holding BY <1>1 DEF Holding
<1>3. reply[p] = "none" BY <1>1, <1>2, Held DEF Rests, Unanswered
<1>4. m.then = "load" OBVIOUS
<1> HIDE DEF m
<1>5. /\ pc'[p] = "commit" /\ marker'[p] = m /\ reply'[p] = reply[p]
      /\ \A q \in Proc \ {p} : marker'[q] = marker[q]
  BY <1>1 DEF Goto, Inv, IInv, CallType
<1>6. Intends(p)' BY <1>4, <1>5 DEF Intends, Purpose
<1>7. Rests(p)' BY <1>3, <1>4, <1>5 DEF Rests, Sending, EffectPhases
<1>8. Narrow BY <1>1, QuietIsNarrow
<1>9. \A j \in surviving' : Image(j)' BY <1>1, <1>8, NarrowKeeps DEF clientVars
<1> QED BY <1>1, <1>2, <1>5, <1>6, <1>7, <1>8, <1>9, HolderKeeps DEF Goto, clientVars

LEMMA LoadDiscardsClaims == ASSUME Inv, NEW p \in Proc, LoadDiscards(p) PROVE JInv'
<1> DEFINE d == Discard(disk)
<1>1. /\ pc[p] = "load" /\ disk' = d /\ surviving' = {d} /\ UNCHANGED <<callVars, clientVars>>
      /\ disk.pending.dest = "attempt"
  BY DEF LoadDiscards, Recovering
<1>2. disk.pending # NoPending /\ pc[p] \in Holding BY <1>1 DEF NoPending, Holding
<1>3. /\ d.pending = NoPending /\ d.plan = disk.plan /\ d.root = disk.root
      /\ d.scratch = disk.scratch /\ d.intent = disk.intent /\ d.attempts = disk.attempts
      /\ d.done = disk.done
  BY DiskImage, DiscardType, DiscardFields
<1> HIDE DEF d
<1>4. ASSUME NEW j, j = d PROVE Image(j)'
  <2>1. WellFormed(j)'
    BY <1>1, <1>3, <1>4, DiskImage DEF WellFormed, Fits, Attributed, NoPending, clientVars
  <2>2. Linked(j)' BY <1>1, <1>3, <1>4 DEF Linked, Claims
  <2> QED BY <2>1, <2>2 DEF Image
<1>5. \A j \in surviving' : Image(j)' BY <1>1, <1>4
<1>6. reply[p] = "none" BY <1>1, <1>2, Held DEF Rests, Unanswered
<1>7. Intends(p)' BY <1>1 DEF Intends, Writing, callVars
<1>8. Rests(p)' BY <1>1, <1>6 DEF Rests, Sending, Writing, EffectPhases, callVars
<1>9. pc' = [pc EXCEPT ![p] = "load"] BY <1>1 DEF callVars, Inv, IInv, CallType
<1> QED BY <1>1, <1>2, <1>5, <1>7, <1>8, <1>9, StagedImages, HolderKeeps DEF callVars

LEMMA LoadConfirmsClaims == ASSUME Inv, NEW p \in Proc, LoadConfirms(p) PROVE JInv'
<1>1. /\ pc[p] = "load" /\ disk' = disk /\ surviving' = {disk} /\ UNCHANGED clientVars
      /\ disk.intent /\ disk.pending = NoPending
      /\ pc' = [pc EXCEPT ![p] = "ledger"] /\ known' = [known EXCEPT ![p] = disk.attempts]
      /\ UNCHANGED <<opts, marker, reply, outcome>>
  BY DEF LoadConfirms, Recovering, Sync, ChainAgrees
<1>2. pc[p] \in Holding BY <1>1 DEF Holding
<1>3. Narrow BY <1>1, DiskImage DEF Narrow
<1>4. \A j \in surviving' : Image(j)' BY <1>1, <1>3, NarrowKeeps DEF clientVars
<1>5. pc'[p] = "ledger" /\ \A q \in Proc \ {p} : known'[q] = known[q]
  BY <1>1 DEF Inv, IInv, CallType
<1>6. reply[p] = "none" BY <1>1, <1>2, Held DEF Rests, Unanswered
<1>7. Intends(p)' BY <1>5 DEF Intends, Writing
<1>8. Rests(p)' BY <1>1, <1>5, <1>6 DEF Rests, Sending, Writing, EffectPhases
<1> QED BY <1>1, <1>2, <1>3, <1>4, <1>5, <1>7, <1>8, HolderKeeps DEF clientVars

\* A lock holder that has read a ledger goes on to act or to complete.
LEMMA GoOnKeeps ==
  ASSUME Inv, NEW p \in Proc, pc[p] \in Holding, NEW step \in {"act", "seal"}, Goto(p, step),
         UNCHANGED <<disk, surviving, marker, clientVars>>, Open,
         step = "act" => /\ reply[p] = "none"
                         /\ IsAdd => opts[p].repeat \/ \A i \in Attempts : posts[i] = 0,
         step = "seal" => disk.attempts > 0 /\ Attributed(disk, known[p])
  PROVE  JInv'
<1>1. Narrow BY QuietIsNarrow
<1>2. \A j \in surviving' : Image(j)' BY <1>1, NarrowKeeps DEF clientVars
<1>3. pc'[p] = step /\ reply' = reply /\ opts' = opts /\ known' = known
  BY DEF Goto, Inv, IInv, CallType
<1>4. Intends(p)' BY <1>3 DEF Intends, Writing
<1>5. Rests(p)'
  BY <1>3 DEF Rests, Unanswered, Sending, Writing, Unlocked, EffectPhases, Open, Attributed, IsAdd, clientVars
<1> QED BY <1>1, <1>2, <1>3, <1>4, <1>5, HolderKeeps DEF Goto, clientVars

\* The ledger phase rests on a journal without anything staged, in every image.
LEMMA AtLedger ==
  ASSUME Inv, NEW p \in Proc, pc[p] = "ledger"
  PROVE  /\ pc[p] \in Holding /\ disk.intent /\ disk.pending = NoPending /\ surviving = {disk}
         /\ reply[p] = "none" /\ known[p] = disk.attempts /\ disk.attempts \in Nat
         /\ disk.done = 0 => Open
<1>1. pc[p] \in Holding BY DEF Holding
<1> QED BY <1>1, Held, DiskImage, Fields DEF Rests, Unanswered, Progress, Informed, Open

LEMMA ResumeSettledClaims == ASSUME Inv, NEW p \in Proc, ResumeSettled(p) PROVE JInv'
<1>1. /\ pc[p] = "ledger" /\ disk.done # 0 /\ UNCHANGED <<disk, surviving, clientVars>>
      /\ Return(p, IF FitJob THEN "adopted" ELSE "stopped")
  BY DEF ResumeSettled
<1> QED BY <1>1, AtLedger, QuietIsNarrow, EndKeeps DEF Outcomes, clientVars

LEMMA ResumeObservationClaims == ASSUME Inv, NEW p \in Proc, ResumeObservation(p) PROVE JInv'
<1>1. CASE FitJob /\ Goto(p, "act") /\ UNCHANGED <<lock, marker>>
  BY <1>1, AtLedger, GoOnKeeps DEF ResumeObservation
<1>2. CASE ~FitJob /\ Return(p, "stopped")
  BY <1>2, QuietEndKeeps DEF ResumeObservation, Outcomes
<1> QED BY <1>1, <1>2 DEF ResumeObservation

LEMMA ResumeFindsJobClaims == ASSUME Inv, NEW p \in Proc, ResumeFindsJob(p) PROVE JInv'
<1>1. CASE /\ known[p] > 0 /\ Driver = "qbittorrent" /\ FitJob
           /\ Goto(p, "seal") /\ UNCHANGED <<lock, marker>>
  BY <1>1, AtLedger, GoOnKeeps DEF ResumeFindsJob, Attributed, Driver
<1>2. CASE Return(p, "stopped") \/ Return(p, "unknown")
  BY <1>2, QuietEndKeeps DEF ResumeFindsJob, Outcomes
<1> QED BY <1>1, <1>2 DEF ResumeFindsJob

LEMMA ResumeFindsAbsenceClaims == ASSUME Inv, NEW p \in Proc, ResumeFindsAbsence(p) PROVE JInv'
<1>1. CASE /\ known[p] = 0 \/ opts[p].repeat
           /\ Goto(p, "act") /\ UNCHANGED <<lock, marker>>
  BY <1>1, AtLedger, NothingPosted, GoOnKeeps DEF ResumeFindsAbsence
<1>2. CASE Return(p, "stopped") \/ Return(p, "unknown")
  BY <1>2, QuietEndKeeps DEF ResumeFindsAbsence, Outcomes
<1> QED BY <1>1, <1>2 DEF ResumeFindsAbsence

-----------------------------------------------------------------------------
(* executeAdd and executeExistingObservation.                              *)

LEMMA AppendAttemptClaims == ASSUME Inv, NEW p \in Proc, AppendAttempt(p) PROVE JInv'
<1>1. CASE Return(p, "stopped")
  BY <1>1, QuietEndKeeps DEF AppendAttempt, Outcomes
<1>2. CASE WriteMarker(p, "attempt", known[p] + 1, IF IsAdd THEN "send" ELSE "bracket", "stage")
  <2> DEFINE m == [dest |-> "attempt", seq |-> known[p] + 1,
                   then |-> IF IsAdd THEN "send" ELSE "bracket"]
  <2>1. /\ pc[p] = "act" /\ Goto(p, "stage") /\ marker' = [marker EXCEPT ![p] = m]
        /\ UNCHANGED <<disk, surviving, clientVars>>
    BY <1>2 DEF AppendAttempt, WriteMarker
  <2>2. pc[p] \in Holding BY <2>1 DEF Holding
  <2>3. /\ Open /\ known[p] = disk.attempts /\ reply[p] = "none"
        /\ IsAdd => opts[p].repeat \/ \A i \in Attempts : posts[i] = 0
    BY <2>1, <2>2, Held DEF Rests, Unanswered, Sending, Progress, Informed
  <2>4. disk.scratch /\ disk.pending = NoPending /\ disk.done = 0
    BY <2>3, DiskImage DEF Open, WellFormed
  <2>5. /\ m.dest = "attempt" /\ m.seq = disk.attempts + 1
        /\ m.then = IF IsAdd THEN "send" ELSE "bracket"
    BY <2>3
  <2> HIDE DEF m
  <2>6. Fits(disk, m) /\ Purpose(m) BY <2>3, <2>5 DEF Fits, Purpose, Open
  <2> QED BY <2>1, <2>2, <2>3, <2>4, <2>5, <2>6, PlanKeeps
<1> QED BY <1>1, <1>2 DEF AppendAttempt

LEMMA SendAddClaims == ASSUME Inv, NEW p \in Proc, SendAdd(p) PROVE JInv'
<1>1. /\ pc[p] = "send" /\ Goto(p, "await") /\ UNCHANGED <<disk, surviving, marker, confirmed>>
  BY DEF SendAdd, diskVars
<1>2. pc[p] \in Holding BY <1>1 DEF Holding
<1>3. Open /\ surviving = {disk} /\ disk.attempts > 0 /\ IsAdd /\ reply[p] = "none"
  BY <1>1, <1>2, Held DEF Rests, Unanswered, EffectPhases
<1>4. pc'[p] = "await" /\ reply' = reply BY <1>1 DEF Goto, Inv, IInv, CallType
<1>5. \A j \in surviving' : Image(j)' BY <1>1, QuietIsNarrow, NarrowKeeps
<1>6. Intends(p)' BY <1>4 DEF Intends, Writing
<1>7. Rests(p)'
  BY <1>1, <1>3, <1>4 DEF Rests, Unanswered, Sending, Writing, Unlocked, EffectPhases, Open, IsAdd
<1>8. disk.done = 0 BY <1>3 DEF Open
<1> QED BY <1>1, <1>2, <1>4, <1>5, <1>6, <1>7, <1>8, HolderKeeps DEF Goto

LEMMA RereadLedgerClaims == ASSUME Inv, NEW p \in Proc, RereadLedger(p) PROVE JInv'
<1>1. CASE reply[p] = "accepted" /\ FitJob /\ Goto(p, "seal") /\ UNCHANGED <<lock, marker>>
  <2>1. pc[p] = "await" /\ pc[p] \in Holding BY DEF RereadLedger, Holding
  <2>2. Open /\ disk.attempts > 0 /\ known[p] \in confirmed
    BY <1>1, <2>1, Held DEF Rests, EffectPhases
  <2> QED BY <1>1, <2>1, <2>2, GoOnKeeps DEF RereadLedger, Attributed
<1>2. CASE Return(p, "stopped") \/ Return(p, "unknown")
  BY <1>2, QuietEndKeeps DEF RereadLedger, Outcomes
<1> QED BY <1>1, <1>2 DEF RereadLedger

LEMMA CloseBracketClaims == ASSUME Inv, NEW p \in Proc, CloseBracket(p) PROVE JInv'
<1>1. CASE FitJob /\ Goto(p, "seal") /\ UNCHANGED <<lock, marker>>
  <2>1. pc[p] = "bracket" /\ pc[p] \in Holding BY DEF CloseBracket, Holding
  <2>2. Open /\ disk.attempts > 0 /\ ~IsAdd BY <2>1, Held DEF Rests, EffectPhases
  <2> QED BY <1>1, <2>1, <2>2, GoOnKeeps DEF CloseBracket, Attributed, IsAdd
<1>2. CASE Return(p, "stopped")
  BY <1>2, QuietEndKeeps DEF CloseBracket, Outcomes
<1> QED BY <1>1, <1>2 DEF CloseBracket

LEMMA FinalizeObservedClaims == ASSUME Inv, NEW p \in Proc, FinalizeObserved(p) PROVE JInv'
<1> DEFINE m == [dest |-> "complete", seq |-> known[p], then |-> "adopted"]
<1>1. /\ pc[p] = "seal" /\ Goto(p, "stage") /\ marker' = [marker EXCEPT ![p] = m]
      /\ UNCHANGED <<disk, surviving, clientVars>>
  BY DEF FinalizeObserved, WriteMarker, diskVars
<1>2. pc[p] \in Holding BY <1>1 DEF Holding
<1>3. Open /\ known[p] = disk.attempts /\ disk.attempts > 0 /\ Attributed(disk, known[p])
  BY <1>1, <1>2, Held DEF Rests, Progress, Informed
<1>4. disk.scratch /\ disk.pending = NoPending /\ disk.done = 0
  BY <1>3, DiskImage DEF Open, WellFormed
<1>5. m.dest = "complete" /\ m.seq = known[p] /\ m.then = "adopted" OBVIOUS
<1> HIDE DEF m
<1>6. Fits(disk, m) /\ Purpose(m) BY <1>3, <1>5 DEF Fits, Purpose, Open
<1> QED BY <1>1, <1>2, <1>4, <1>5, <1>6, PlanKeeps

-----------------------------------------------------------------------------
(* The downloader and failure.                                             *)

\* Outside the invocations only answers arrive, and what was confirmed stays.
LEMMA OutsideClaims ==
  ASSUME Inv, UNCHANGED <<diskVars, pc, opts, known, marker, outcome, posts>>,
         confirmed \subseteq confirmed',
         \A p \in Proc :
           \/ reply'[p] = reply[p]
           \/ pc[p] = "await" /\ (reply'[p] = "accepted" => known[p] \in confirmed')
  PROVE  JInv'
<1>1. Narrow BY QuietIsNarrow DEF diskVars
<1>2. \A j \in surviving' : Image(j)' BY <1>1, NarrowKeeps
<1>3. ASSUME NEW p \in Proc PROVE Intends(p)' /\ Rests(p)' /\ Reported(p)'
  <2>1. Intends(p) /\ Rests(p) /\ Reported(p) BY DEF Inv, JInv
  <2>2. Intends(p)'
    BY <2>1 DEF Intends, Fits, Attributed, Purpose, Landed, Open, IsAdd, diskVars
  <2>3. Rests(p)'
    BY <2>1 DEF Rests, Unanswered, Sending, Attributed, Open, IsAdd, diskVars, Unlocked, Writing
  <2>4. Reported(p)' BY <2>1 DEF Reported, diskVars
  <2> QED BY <2>2, <2>3, <2>4
<1> QED BY <1>2, <1>3 DEF JInv

LEMMA LoseReplyClaims == ASSUME Inv, NEW p \in Proc, LoseReply(p) PROVE JInv'
<1>1. \A q \in Proc : reply'[q] = reply[q] \/ (pc[q] = "await" /\ reply'[q] = "lost")
  BY DEF LoseReply, Inv, IInv, CallType
<1> QED BY <1>1, OutsideClaims DEF LoseReply, clientVars

LEMMA ClientClaims ==
  ASSUME Inv, NEW i \in Attempts, ClientAccepts(i) \/ ClientRefuses(i) \/ LoseRequest(i)
  PROVE  JInv'
<1>1. CASE ClientAccepts(i)
  <2>1. ASSUME NEW p \in Proc, reply'[p] # reply[p]
        PROVE  pc[p] = "await" /\ known[p] \in confirmed'
    BY <1>1, <2>1 DEF ClientAccepts, Answer, Awaiting
  <2> QED BY <1>1, <2>1, OutsideClaims DEF ClientAccepts
<1>2. CASE ClientRefuses(i)
  <2>1. ASSUME NEW p \in Proc, reply'[p] # reply[p]
        PROVE  pc[p] = "await" /\ reply'[p] # "accepted"
    BY <1>2, <2>1 DEF ClientRefuses, Answer, Awaiting
  <2> QED BY <1>2, <2>1, OutsideClaims DEF ClientRefuses
<1>3. CASE LoseRequest(i)
  BY <1>3, OutsideClaims DEF LoseRequest, callVars
<1> QED BY <1>1, <1>2, <1>3

LEMMA PowerLossClaims == ASSUME Inv, PowerLoss PROVE JInv'
<1>1. PICK j \in surviving : disk' = j /\ surviving' = {j}
  BY DEF PowerLoss
<1>2. /\ pc' = [p \in Proc |-> "idle"] /\ reply' = [p \in Proc |-> "none"]
      /\ outcome' = [p \in Proc |-> "none"] /\ UNCHANGED clientVars
  BY DEF PowerLoss
<1>3. WellFormed(j) BY SurvivingImages
<1>4. ASSUME NEW k, k = j PROVE Image(k)'
  <2>1. WellFormed(k)' BY <1>2, <1>3, <1>4 DEF WellFormed, Fits, Attributed, clientVars
  <2>2. Linked(k)' BY <1>1, <1>3, <1>4 DEF Linked, Claims, WellFormed
  <2> QED BY <2>1, <2>2 DEF Image
<1>5. \A k \in surviving' : Image(k)' BY <1>1, <1>4
<1>6. ASSUME NEW p \in Proc PROVE Intends(p)' /\ Rests(p)' /\ Reported(p)'
  <2>1. pc'[p] = "idle" /\ reply'[p] = "none" /\ outcome'[p] = "none" BY <1>2
  <2> QED BY <2>1, ApartRests DEF Holding, Reported
<1> QED BY <1>5, <1>6 DEF JInv

-----------------------------------------------------------------------------
(* The invariant.                                                          *)

LEMMA NoJournalFields ==
  ASSUME NEW plan \in Plans
  PROVE  /\ NoJournal(plan).plan = plan /\ NoJournal(plan).root = "none"
         /\ ~NoJournal(plan).scratch /\ ~NoJournal(plan).intent
         /\ NoJournal(plan).pending = NoPending /\ NoJournal(plan).attempts = 0
         /\ NoJournal(plan).done = 0
BY DEF NoJournal

LEMMA InitClaims == ASSUME Init PROVE JInv
<1>1. PICK plan \in Plans : disk = NoJournal(plan) /\ surviving = {NoJournal(plan)} BY DEF Init
<1>2. WellFormed(disk) BY <1>1, NoJournalFields DEF WellFormed, Fits, NoPending
<1>3. Linked(disk) BY <1>1, NoJournalFields DEF Linked, Claims
<1>4. ASSUME NEW p \in Proc PROVE Intends(p) /\ Rests(p) /\ Reported(p)
  BY DEF Init, NothingRuns, Intends, Rests, Sending, Reported, Writing, EffectPhases
<1> QED BY <1>1, <1>2, <1>3, <1>4 DEF JInv, Image

LEMMA InvocationClaims == ASSUME Inv, NEW p \in Proc, Invocation(p) PROVE JInv'
BY RunSurveysClaims, MakeRootClaims, MakeLockClaims, MakeScratchClaims, StageMarkerClaims,
   FillMarkerClaims, CommitMarkerClaims, ConfirmMarkerClaims, OpenJournalClaims, EndsClaim,
   LoadInitializesClaims, LoadRepublishesClaims, LoadDiscardsClaims, LoadConfirmsClaims,
   ResumeSettledClaims, ResumeObservationClaims, ResumeFindsJobClaims, ResumeFindsAbsenceClaims,
   AppendAttemptClaims, SendAddClaims, LoseReplyClaims, RereadLedgerClaims, CloseBracketClaims,
   FinalizeObservedClaims
   DEF Invocation

LEMMA NextClaims == ASSUME Inv, [Next]_vars PROVE JInv'
<1>1. CASE \E p \in Proc : StartRun(p) \/ StartResume(p) \/ StartStatus(p)
  BY <1>1, StartsClaim
<1>2. CASE \E p \in Proc : Invocation(p)
  BY <1>2, InvocationClaims
<1>3. CASE \E p \in Proc : Abort(p)
  BY <1>3, EndsClaim
<1>4. CASE \E i \in Attempts : ClientAccepts(i) \/ ClientRefuses(i) \/ LoseRequest(i)
  BY <1>4, ClientClaims
<1>5. CASE OthersChangeJob
  BY <1>5, OutsideClaims DEF OthersChangeJob, callVars
<1>6. CASE PowerLoss
  BY <1>6, PowerLossClaims
<1>7. CASE UNCHANGED vars
  BY <1>7, OutsideClaims DEF vars, callVars, clientVars
<1> QED BY <1>1, <1>2, <1>3, <1>4, <1>5, <1>6, <1>7 DEF Next

\* Every reachable state satisfies both invariants.
THEOREM InvariantHolds == Spec => []Inv
<1>1. Init => Inv BY InitIInv, InitClaims DEF Inv
<1>2. Inv /\ [Next]_vars => Inv'
  <2>1. IInv /\ [Next]_vars => IInv' BY NextIInv
  <2>2. Inv /\ [Next]_vars => JInv' BY NextClaims
  <2> QED BY <2>1, <2>2 DEF Inv
<1> QED BY <1>1, <1>2, PTL DEF Spec

-----------------------------------------------------------------------------
(* What is claimed and reported.                                           *)

\* A completion, published or staged, never claims more than the driver may
\* attribute (Resume and executeAdd after a lost response): it names the last
\* attempt of its own image, and with Transmission that attempt had its
\* accepted answer delivered.
THEOREM CompletionsAreAttributed == Spec => []CompletionIsAttributed
<1>1. ASSUME Inv PROVE CompletionIsAttributed
  <2> SUFFICES ASSUME NEW j \in surviving,
                      NEW n, n = IF j.done # 0 THEN j.done
                                 ELSE IF j.pending.dest = "complete" THEN j.pending.seq ELSE 0,
                      n # 0
               PROVE  n = j.attempts /\ (IsAdd /\ Driver = "transmission" => n \in confirmed)
    BY DEF CompletionIsAttributed
  <2>1. WellFormed(j) /\ j.plan = disk.plan BY <1>1, SurvivingImages DEF Linked
  <2>2. n = j.attempts /\ Attributed(j, n) BY <2>1 DEF WellFormed, Fits
  <2> QED BY <2>1, <2>2 DEF Attributed, IsAdd, Driver
<1> QED BY <1>1, InvariantHolds, PTL

\* A well-formed journal with its lock file advances, unless what is staged
\* is torn.
LEMMA IntactAdvances ==
  ASSUME NEW j \in Journals, WellFormed(j), j.root = "locked",
         j.pending.dest = "none" \/ j.pending.whole
  PROVE  Resumable(j)
<1>1. CASE ~j.intent
  <2>1. ~HasMarkers(j) /\ j.pending.dest \in {"none", "intent"}
    BY <1>1, Fields DEF WellFormed, HasMarkers, Fits, Destinations
  <2>2. CASE j.pending = NoPending
    BY <2>1, <2>2 DEF Resumable, Uninitialized
  <2>3. CASE j.pending # NoPending
    <3>1. j.pending.dest = "intent" /\ j.pending.whole /\ j.scratch /\ j.pending.seq = 0
      BY <2>1, <2>3 DEF WellFormed, Fits
    <3> QED BY <2>1, <3>1 DEF Resumable, Readable, IntentStaged, PendingAccepted
  <2> QED BY <2>2, <2>3
<1>2. CASE j.intent
  <2>1. ChainAgrees(j) BY <1>2 DEF WellFormed, ChainAgrees
  <2>2. CASE j.pending = NoPending
    BY <2>1, <2>2 DEF Resumable, Readable
  <2>3. CASE j.pending # NoPending
    <3>1. j.pending.whole /\ j.pending.dest \in {"attempt", "complete"} /\ Fits(j, j.pending)
      BY <1>2, <2>3, Fields DEF WellFormed, Fits, Destinations
    <3>2. PendingAccepted(j) BY <3>1 DEF PendingAccepted, Fits
    <3> QED BY <2>1, <3>2 DEF Resumable, Readable
  <2> QED BY <2>2, <2>3
<1> QED BY <1>1, <1>2

\* What was reported and what can still be done survive every crash and power
\* loss (appendCompletion, Resume's refresh, openJournal and
\* recoverInitialization): adoption is reported of a completion that every
\* image has, and only torn staging or a directory without its lock file
\* leaves an operation that resume cannot advance.
THEOREM AdoptIsCrashSafe == Spec => []CrashSafe
<1>1. ASSUME Inv PROVE CrashSafe
  <2>1. AdoptedIsDurable BY <1>1 DEF Inv, JInv, Reported, AdoptedIsDurable
  <2>2. ASSUME NEW j \in surviving, ~Resumable(j)
        PROVE  j.root \in {"none", "bare"} \/ (j.pending.dest # "none" /\ ~j.pending.whole)
    <3>1. j \in Journals /\ WellFormed(j) BY <1>1, SurvivingImages
    <3> QED BY <2>2, <3>1, Fields, IntactAdvances
  <2> QED BY <2>1, <2>2 DEF CrashSafe, OnlyTornStagingBlocks
<1> QED BY <1>1, InvariantHolds, PTL

-----------------------------------------------------------------------------
(* The requests keep the promises of EffectLedger.                         *)

\* The attempts that every image of S has, when some image has no more.
LEMMA LeastAttempts ==
  ASSUME NEW S, NEW n \in AttemptCounts, \E j \in S : j.attempts = n, \A j \in S : j.attempts >= n
  PROVE  (CHOOSE k \in AttemptCounts :
            (\E j \in S : j.attempts = k) /\ (\A j \in S : j.attempts >= k)) = n
<1>1. \A k \in AttemptCounts :
        (\E j \in S : j.attempts = k) /\ (\A j \in S : j.attempts >= k) => k = n
  BY Counts
<1> QED BY <1>1

\* A power loss takes back the newest attempt at most, and none once an image
\* claims completion.
LEMMA DurableNow ==
  ASSUME Inv
  PROVE  /\ DurableAttempts \in AttemptCounts
         /\ \A j \in surviving : j.attempts \in {DurableAttempts, DurableAttempts + 1}
         /\ \E j \in surviving : j.attempts = DurableAttempts
         /\ (\E j \in surviving : Claims(j)) =>
              Claims(disk) /\ DurableAttempts > 0 /\ \A j \in surviving : j.attempts = DurableAttempts
<1>1. /\ disk \in surviving /\ disk.attempts \in AttemptCounts
      /\ \A j \in surviving : j \in Journals /\ Linked(j) /\ j.attempts \in AttemptCounts
      /\ disk.attempts \in Nat /\ \A j \in surviving : j.attempts \in Nat
      /\ WellFormed(disk)
  BY Fields, DiskImage, SurvivingImages
<1>2. /\ DurableAttempts \in AttemptCounts
      /\ \A j \in surviving : j.attempts \in {DurableAttempts, DurableAttempts + 1}
      /\ \E j \in surviving : j.attempts = DurableAttempts
  <2>1. CASE \A j \in surviving : j.attempts = disk.attempts
    <3>1. DurableAttempts = disk.attempts
      BY <1>1, <2>1, LeastAttempts DEF DurableAttempts
    <3> QED BY <1>1, <2>1, <3>1
  <2>2. ASSUME NEW k \in surviving, k.attempts # disk.attempts
        PROVE  /\ DurableAttempts \in AttemptCounts
               /\ \A j \in surviving : j.attempts \in {DurableAttempts, DurableAttempts + 1}
               /\ \E j \in surviving : j.attempts = DurableAttempts
    <3>1. k.attempts + 1 = disk.attempts BY <1>1, <2>2 DEF Linked
    <3>2. \A j \in surviving : j.attempts \in {k.attempts, k.attempts + 1}
      BY <1>1, <3>1 DEF Linked
    <3>3. \A j \in surviving : j.attempts >= k.attempts BY <1>1, <3>2
    <3>4. DurableAttempts = k.attempts
      BY <1>1, <3>3, LeastAttempts DEF DurableAttempts
    <3> QED BY <1>1, <3>2, <3>4
  <2> QED BY <2>1, <2>2
<1>3. ASSUME NEW k \in surviving, Claims(k)
      PROVE  Claims(disk) /\ DurableAttempts > 0 /\ \A j \in surviving : j.attempts = DurableAttempts
  <2>1. Claims(disk) BY <1>1, <1>3 DEF Linked
  <2>2. \A j \in surviving : j.attempts = disk.attempts BY <1>1, <2>1 DEF Linked, Claims, NoPending
  <2>3. disk.attempts > 0 BY <1>1, <2>1 DEF Claims, WellFormed, Fits
  <2> QED BY <1>2, <2>1, <2>2, <2>3
<1> QED BY <1>2, <1>3

\* The operation is settled: whatever a power loss leaves is complete, or is
\* completed by recovery.
SettledEverywhere == \A j \in surviving : Settling(j)

LEMMA SettledClaims ==
  ASSUME Inv, SettledEverywhere
  PROVE  /\ Settling(disk) /\ Claims(disk)
         /\ \A j \in surviving : Claims(j) /\ j.attempts = disk.attempts
<1>1. \A j \in surviving : Settling(j) => Claims(j) BY DEF Settling, Claims
<1>2. disk \in surviving BY DiskImage
<1>3. \A j \in surviving : j.attempts = DurableAttempts BY <1>1, <1>2, DurableNow DEF SettledEverywhere
<1> QED BY <1>1, <1>2, <1>3 DEF SettledEverywhere

\* The journal changes and no request is sent: an authorisation, a settlement
\* or nothing.
LEMMA JournalSteps ==
  ASSUME Inv, UNCHANGED posts,
         NEW n \in AttemptCounts, n \in {DurableAttempts, DurableAttempts + 1},
         \E j \in surviving' : j.attempts = n, \A j \in surviving' : j.attempts >= n,
         SettledEverywhere => SettledEverywhere',
         SettledEverywhere' => n = DurableAttempts /\ DurableAttempts > 0
  PROVE  [Ledger!Next]_(Ledger!vars)
<1>1. DurableAttempts \in AttemptCounts /\ DurableAttempts \in Nat BY DurableNow, Counts
<1>2. UNCHANGED {i \in Attempts : posts[i] > 0} OBVIOUS
<1>3. DurableAttempts' = n BY LeastAttempts DEF DurableAttempts
<1>4. CASE SettledEverywhere <=> SettledEverywhere'
  <2>1. UNCHANGED SettledEverywhere BY <1>4, Zenon
  <2>2. CASE DurableAttempts' = DurableAttempts
    BY <1>2, <2>1, <2>2, Zenon DEF Ledger!vars, SettledEverywhere
  <2>3. CASE DurableAttempts' # DurableAttempts
    <3>1. ~SettledEverywhere BY <1>3, <1>4, <2>3
    <3>2. DurableAttempts' = DurableAttempts + 1 BY <1>3, <2>3
    <3>3. DurableAttempts < MaxAttempts
      BY <1>1, <1>3, <3>2, MaxAttemptsAssumption DEF AttemptCounts
    <3> QED BY <1>2, <2>1, <3>1, <3>2, <3>3, Zenon DEF Ledger!Next, Ledger!Authorise, SettledEverywhere
  <2> QED BY <2>2, <2>3
<1>5. CASE ~SettledEverywhere /\ SettledEverywhere'
  <2>1. SettledEverywhere' = TRUE BY <1>5, Zenon
  <2>2. DurableAttempts > 0 /\ DurableAttempts' = DurableAttempts BY <1>3, <1>5
  <2> QED BY <1>2, <1>5, <2>1, <2>2, Zenon DEF Ledger!Next, Ledger!Settle, SettledEverywhere
<1> QED BY <1>4, <1>5

\* The images stay, and no request is sent.
LEMMA QuietSteps ==
  ASSUME UNCHANGED <<surviving, posts>>
  PROVE  [Ledger!Next]_(Ledger!vars)
<1>1. UNCHANGED {i \in Attempts : posts[i] > 0} OBVIOUS
<1>2. UNCHANGED DurableAttempts BY DEF DurableAttempts
<1>3. UNCHANGED SettledEverywhere BY DEF SettledEverywhere
<1> QED BY <1>1, <1>2, <1>3, Zenon DEF Ledger!vars, SettledEverywhere

\* A sync or a power loss keeps one image.
LEMMA OneImageSteps ==
  ASSUME Inv, NEW k \in surviving, surviving' = {k}, UNCHANGED posts
  PROVE  [Ledger!Next]_(Ledger!vars)
<1>1. k.attempts \in AttemptCounts /\ k.attempts \in Nat BY Fields, SurvivingImages
<1>2. k.attempts \in {DurableAttempts, DurableAttempts + 1} BY DurableNow
<1>3. SettledEverywhere' <=> Settling(k) BY DEF SettledEverywhere
<1>4. SettledEverywhere => Settling(k) BY DEF SettledEverywhere
<1>5. Settling(k) => Claims(k) BY DEF Settling, Claims
<1>6. Settling(k) => k.attempts = DurableAttempts /\ DurableAttempts > 0 BY <1>5, DurableNow
<1>7. \A j \in surviving' : j.attempts >= k.attempts BY <1>1
<1> QED BY <1>1, <1>2, <1>3, <1>4, <1>6, <1>7, JournalSteps

\* While nothing claims completion the attempts of every image stay.
LEMMA UnsettledSteps ==
  ASSUME Inv, UNCHANGED posts, surviving' # {}, \A j \in surviving' : j.attempts = disk.attempts,
         disk.done = 0, disk.pending.dest # "complete",
         \E j \in surviving' : ~Settling(j)
  PROVE  [Ledger!Next]_(Ledger!vars)
<1>1. disk \in surviving /\ disk.attempts \in AttemptCounts /\ disk.attempts \in Nat
  BY DiskImage, Fields
<1>2. disk.attempts \in {DurableAttempts, DurableAttempts + 1} BY <1>1, DurableNow
<1>3. ~SettledEverywhere BY SettledClaims DEF Claims
<1>4. ~SettledEverywhere' BY DEF SettledEverywhere
<1> QED BY <1>1, <1>2, <1>3, <1>4, JournalSteps

\* A journal without a completion, published or staged whole, is not settled.
LEMMA NotSettling ==
  ASSUME NEW j, j.done = 0, j.pending.dest # "complete" \/ ~j.pending.whole
  PROVE  ~Settling(j)
BY DEF Settling

LEMMA FreshSteps ==
  ASSUME Inv, NEW p \in Proc, MakeRoot(p) \/ MakeLock(p) \/ MakeScratch(p)
  PROVE  [Ledger!Next]_(Ledger!vars)
<1>1. CASE UNCHANGED <<surviving, posts>> BY <1>1, QuietSteps
<1>2. ASSUME NEW d, d.attempts = disk.attempts, d.done = disk.done, d.pending = disk.pending,
             surviving' = surviving \cup {d} \/ surviving' = {disk, d},
             UNCHANGED posts, ~disk.scratch \/ ~disk.intent
      PROVE  [Ledger!Next]_(Ledger!vars)
  <2>1. ~disk.intent BY <1>2, DiskImage DEF WellFormed
  <2>2. disk.done = 0 /\ disk.attempts = 0 BY <2>1, DiskImage DEF WellFormed
  <2>3. disk.pending.dest # "complete" BY <2>1, DiskImage DEF WellFormed, Fits
  <2>4. \A j \in surviving : j.attempts = disk.attempts
    BY <2>2, SurvivingImages, Fields DEF Linked
  <2>5. ~Settling(d) BY <1>2, <2>2, <2>3, NotSettling
  <2>6. disk \in surviving BY DiskImage
  <2> QED BY <1>2, <2>2, <2>3, <2>4, <2>5, <2>6, UnsettledSteps
<1>3. disk \in Journals /\ WellFormed(disk) BY DiskImage
<1>4. CASE MakeRoot(p) /\ disk.root = "none"
  <2> DEFINE d == [disk EXCEPT !.root = "bare"]
  <2>1. surviving' = surviving \cup {d} /\ UNCHANGED posts BY <1>4 DEF MakeRoot, Write, clientVars
  <2>2. d.attempts = disk.attempts /\ d.done = disk.done /\ d.pending = disk.pending
    BY <1>3 DEF Journals
  <2>3. ~disk.scratch BY <1>3, <1>4 DEF WellFormed
  <2> QED BY <1>2, <2>1, <2>2, <2>3
<1>5. CASE MakeRoot(p) /\ disk.root # "none"
  BY <1>1, <1>5 DEF MakeRoot, clientVars
<1>6. CASE MakeLock(p)
  <2> DEFINE d == [disk EXCEPT !.root = "locked"]
  <2>1. surviving' = {disk, d} /\ UNCHANGED posts BY <1>6 DEF MakeLock, SyncThenWrite, clientVars
  <2>2. d.attempts = disk.attempts /\ d.done = disk.done /\ d.pending = disk.pending
    BY <1>3 DEF Journals
  <2>3. disk.root = "bare" BY <1>6 DEF MakeLock, Inv, IInv, Exclusion
  <2>4. ~disk.scratch BY <1>3, <2>3 DEF WellFormed
  <2> QED BY <1>2, <2>1, <2>2, <2>4
<1>7. CASE MakeScratch(p)
  <2> DEFINE d == [disk EXCEPT !.scratch = TRUE]
  <2>1. surviving' = surviving \cup {d} /\ UNCHANGED posts BY <1>7 DEF MakeScratch, Write, clientVars
  <2>2. d.attempts = disk.attempts /\ d.done = disk.done /\ d.pending = disk.pending
    BY <1>3 DEF Journals
  <2>3. ~disk.intent
    BY <1>7 DEF MakeScratch, Inv, JInv, Intends, Fits
  <2> QED BY <1>2, <2>1, <2>2, <2>3
<1> QED BY <1>4, <1>5, <1>6, <1>7

LEMMA StageSteps ==
  ASSUME Inv, NEW p \in Proc, StageMarker(p)
  PROVE  [Ledger!Next]_(Ledger!vars)
<1> DEFINE d == Stage(disk, marker[p].dest, marker[p].seq)
<1>1. /\ surviving' = {disk, d} /\ UNCHANGED posts /\ disk.pending = NoPending /\ pc[p] = "stage"
  BY DEF StageMarker, SyncThenWrite, clientVars
<1>2. pc[p] \in Holding BY <1>1 DEF Holding
<1>3. disk.done = 0 BY <1>1, <1>2, Held DEF Intends
<1>4. marker[p].dest \in Destinations /\ marker[p].seq \in AttemptCounts BY <1>2, Held
<1>5. d.attempts = disk.attempts /\ d.done = 0 /\ ~d.pending.whole
  <2>1. /\ d.attempts = disk.attempts /\ d.done = disk.done
        /\ d.pending = [dest |-> marker[p].dest, seq |-> marker[p].seq, whole |-> FALSE]
    BY <1>4, DiskImage, StageType, StageFields
  <2>2. ~d.pending.whole BY <2>1
  <2> QED BY <1>3, <2>1, <2>2
<1>6. ~Settling(d) BY <1>5, NotSettling
<1>7. disk.pending.dest # "complete" BY <1>1 DEF NoPending
<1> QED BY <1>1, <1>3, <1>5, <1>6, <1>7, UnsettledSteps

\* Whole bytes of a staged completion settle the operation, when every image
\* has them.
LEMMA FillSteps ==
  ASSUME Inv, NEW p \in Proc, FillMarker(p)
  PROVE  [Ledger!Next]_(Ledger!vars)
<1>1. surviving' = {Fill(j) : j \in surviving} /\ UNCHANGED posts /\ pc[p] = "fill"
  BY DEF FillMarker, clientVars
<1>2. pc[p] \in Holding BY <1>1 DEF Holding
<1>3. disk.pending # NoPending
  BY <1>1, <1>2, Held DEF Progress, Destinations, NoPending
<1>4. ASSUME NEW j \in surviving
      PROVE  /\ Fill(j).attempts = disk.attempts /\ j.attempts = disk.attempts
             /\ Fill(j).done = 0 /\ j.done = 0
             /\ Fill(j).pending.dest = j.pending.dest
             /\ j.pending.dest = "complete" => Fill(j).pending.whole
  BY <1>3, SurvivingImages, StagedImages, FillImage
<1>5. disk \in surviving /\ disk.attempts \in AttemptCounts /\ disk.attempts \in Nat
  BY DiskImage, Fields
<1>6. disk.attempts = DurableAttempts BY <1>4, <1>5, DurableNow
<1>7. SettledEverywhere => SettledEverywhere'
  BY <1>1, <1>4 DEF SettledEverywhere, Settling
<1>8. SettledEverywhere' => DurableAttempts > 0
  <2>1. SettledEverywhere' => Settling(Fill(disk)) BY <1>1, <1>5 DEF SettledEverywhere
  <2>2. Settling(Fill(disk)) => Claims(disk) BY <1>4, <1>5 DEF Settling, Claims
  <2> QED BY <1>5, <2>1, <2>2, DurableNow
<1>9. \E j \in surviving' : j.attempts = disk.attempts BY <1>1, <1>4, <1>5
<1>10. \A j \in surviving' : j.attempts >= disk.attempts BY <1>1, <1>4, <1>5
<1> QED BY <1>1, <1>5, <1>6, <1>7, <1>8, <1>9, <1>10, JournalSteps

\* A rename publishes what is already settled, or settles nothing yet.
LEMMA CommitSteps ==
  ASSUME Inv, NEW p \in Proc, CommitMarker(p)
  PROVE  [Ledger!Next]_(Ledger!vars)
<1> DEFINE c == Commit(disk)
<1>1. surviving' = surviving \cup {c} /\ UNCHANGED posts /\ pc[p] = "commit"
  BY DEF CommitMarker, Write, clientVars
<1>2. pc[p] \in Holding BY <1>1 DEF Holding
<1>3. disk.pending # NoPending
  BY <1>1, <1>2, Held DEF Progress, Destinations, NoPending
<1>4. disk \in surviving /\ disk.attempts \in AttemptCounts /\ disk.attempts \in Nat
  BY DiskImage, Fields
<1>5. \A j \in surviving : j.attempts = disk.attempts /\ j.done = 0 BY <1>3, StagedImages
<1>6. /\ c.attempts = disk.attempts \/ c.attempts = disk.attempts + 1
      /\ disk.pending.dest = "complete" => c.done # 0
  BY <1>3, CommitImage
<1>7. disk.attempts = DurableAttempts BY <1>4, <1>5, DurableNow
<1>8. SettledEverywhere => SettledEverywhere'
  <2>1. SettledEverywhere => disk.pending.dest = "complete"
    BY <1>4, <1>5 DEF SettledEverywhere, Settling
  <2> QED BY <1>1, <1>6, <2>1 DEF SettledEverywhere, Settling
<1>9. SettledEverywhere' => DurableAttempts > 0
  <2>1. SettledEverywhere' => SettledEverywhere BY <1>1 DEF SettledEverywhere
  <2> QED BY <1>4, <2>1, SettledClaims, DurableNow
<1>10. \A j \in surviving' : j.attempts >= disk.attempts BY <1>1, <1>4, <1>5, <1>6
<1> QED BY <1>1, <1>4, <1>7, <1>8, <1>9, <1>10, JournalSteps

\* Only a staged attempt is discarded.
LEMMA DiscardSteps ==
  ASSUME Inv, NEW p \in Proc, LoadDiscards(p)
  PROVE  [Ledger!Next]_(Ledger!vars)
<1>1. surviving' = {Discard(disk)} /\ UNCHANGED posts /\ disk.pending.dest = "attempt"
  BY DEF LoadDiscards, clientVars
<1>2. disk.pending # NoPending /\ disk \in Journals BY <1>1, DiskImage DEF NoPending
<1>3. disk.done = 0 BY <1>2, StagedImages
<1>4. /\ Discard(disk).attempts = disk.attempts /\ Discard(disk).done = 0
      /\ Discard(disk).pending.dest # "complete"
  BY <1>2, <1>3, DiscardType, DiscardFields DEF NoPending
<1>5. ~Settling(Discard(disk)) BY <1>4, NotSettling
<1> QED BY <1>1, <1>3, <1>4, <1>5, UnsettledSteps

\* A request performs the newest authorisation, which every image has.
LEMMA SendSteps ==
  ASSUME Inv, NEW p \in Proc, SendAdd(p)
  PROVE  [Ledger!Next]_(Ledger!vars)
<1> DEFINE s == known[p]
<1>1. pc[p] = "send" /\ posts' = [posts EXCEPT ![s] = @ + 1] /\ UNCHANGED surviving
  BY DEF SendAdd, diskVars
<1>2. surviving = {disk} /\ Open /\ s = disk.attempts /\ s \in Attempts /\ posts[s] = 0
  <2>1. pc[p] \in Holding BY <1>1 DEF Holding
  <2> QED BY <1>1, <2>1, Held DEF Progress, Rests, EffectPhases, Informed
<1>3. posts \in [Attempts -> Nat] BY DEF Inv, IInv, ClientType
<1>4. DurableAttempts = s /\ UNCHANGED DurableAttempts BY <1>1, <1>2, DurableNow DEF DurableAttempts
<1>5. s > 0 BY <1>2 DEF Attempts
<1>6. ~SettledEverywhere /\ UNCHANGED SettledEverywhere
  <2>1. ~Settling(disk) BY <1>2, NotSettling DEF Open, NoPending
  <2> QED BY <1>1, <1>2, <2>1 DEF SettledEverywhere
<1>7. s \notin {i \in Attempts : posts[i] > 0} BY <1>2
<1>8. {i \in Attempts : posts[i] > 0}' = {i \in Attempts : posts[i] > 0} \cup {s}
  BY <1>1, <1>2, <1>3
<1> QED BY <1>4, <1>5, <1>6, <1>7, <1>8, Zenon DEF Ledger!Next, Ledger!Perform, SettledEverywhere

LEMMA InvocationSteps ==
  ASSUME Inv, NEW p \in Proc, Invocation(p)
  PROVE  [Ledger!Next]_(Ledger!vars)
<1>1. CASE MakeRoot(p) \/ MakeLock(p) \/ MakeScratch(p) BY <1>1, FreshSteps
<1>2. CASE StageMarker(p) BY <1>2, StageSteps
<1>3. CASE FillMarker(p) BY <1>3, FillSteps
<1>4. CASE CommitMarker(p) BY <1>4, CommitSteps
<1>5. CASE LoadDiscards(p) BY <1>5, DiscardSteps
<1>6. CASE SendAdd(p) BY <1>6, SendSteps
<1>7. CASE ConfirmMarker(p) \/ LoadConfirms(p)
  BY <1>7, DiskImage, OneImageSteps DEF ConfirmMarker, LoadConfirms, Sync, clientVars
<1>8. CASE RunSurveys(p) \/ OpenJournal(p) \/ LoadEnds(p) \/ LoadInitializes(p) \/ LoadRepublishes(p)
  BY <1>8, QuietSteps DEF RunSurveys, OpenJournal, LoadEnds, LoadInitializes, LoadRepublishes,
     diskVars, clientVars
<1>9. CASE ResumeSettled(p) \/ ResumeObservation(p) \/ ResumeFindsJob(p) \/ ResumeFindsAbsence(p)
  BY <1>9, QuietSteps DEF ResumeSettled, ResumeObservation, ResumeFindsJob, ResumeFindsAbsence,
     clientVars
<1>10. CASE \/ AppendAttempt(p) \/ LoseReply(p) \/ RereadLedger(p) \/ CloseBracket(p)
            \/ FinalizeObserved(p)
  BY <1>10, QuietSteps DEF AppendAttempt, LoseReply, RereadLedger, CloseBracket, FinalizeObserved,
     diskVars, clientVars
<1> QED BY <1>1, <1>2, <1>3, <1>4, <1>5, <1>6, <1>7, <1>8, <1>9, <1>10 DEF Invocation

LEMMA LedgerSteps ==
  ASSUME Inv, [Next]_vars
  PROVE  [Ledger!Next]_(Ledger!vars)
<1>1. CASE \E p \in Proc : StartRun(p) \/ StartResume(p) \/ StartStatus(p)
  BY <1>1, QuietSteps DEF StartRun, StartResume, StartStatus, Start, diskVars, clientVars
<1>2. CASE \E p \in Proc : Invocation(p) BY <1>2, InvocationSteps
<1>3. CASE \E p \in Proc : Abort(p)
  BY <1>3, QuietSteps DEF Abort, clientVars
<1>4. CASE \E i \in Attempts : ClientAccepts(i) \/ ClientRefuses(i) \/ LoseRequest(i)
  BY <1>4, QuietSteps DEF ClientAccepts, ClientRefuses, LoseRequest, diskVars
<1>5. CASE OthersChangeJob
  BY <1>5, QuietSteps DEF OthersChangeJob, diskVars
<1>6. CASE PowerLoss
  <2>1. PICK j \in surviving : surviving' = {j} BY <1>6 DEF PowerLoss
  <2> QED BY <1>6, <2>1, OneImageSteps DEF PowerLoss, clientVars
<1>7. CASE UNCHANGED vars
  BY <1>7, QuietSteps DEF vars, diskVars, clientVars
<1> QED BY <1>1, <1>2, <1>3, <1>4, <1>5, <1>6, <1>7 DEF Next

LEMMA LedgerInit == ASSUME Init PROVE Ledger!Init
<1>1. PICK plan \in Plans : surviving = {NoJournal(plan)} BY DEF Init
<1>2. DurableAttempts = 0
  BY <1>1, NoJournalFields, Zero, LeastAttempts DEF DurableAttempts
<1>3. {i \in Attempts : posts[i] > 0} = {} BY DEF Init, NothingSent
<1>4. ~SettledEverywhere BY <1>1, NoJournalFields, NotSettling DEF SettledEverywhere, NoPending
<1>5. (\A j \in surviving : Settling(j)) = FALSE BY <1>4 DEF SettledEverywhere
<1> QED BY <1>2, <1>3, <1>5, Zenon DEF Ledger!Init

\* Only an invocation that may repeat sends a second request.
LEMMA RepeatSteps ==
  ASSUME Inv, [Next]_vars, Posted, NEW i \in Attempts, posts[i] > 0
  PROVE  \E p \in Proc : pc[p] = "send" /\ opts[p].repeat
<1>1. ASSUME NEW p \in Proc, SendAdd(p) PROVE pc[p] = "send" /\ opts[p].repeat
  <2>1. pc[p] = "send" /\ Rests(p) BY <1>1 DEF SendAdd, Inv, JInv
  <2> QED BY <2>1 DEF Rests, Sending
<1>2. ASSUME NEW p \in Proc, Invocation(p) PROVE SendAdd(p)
  <2>1. ASSUME RunSurveys(p) \/ MakeRoot(p) \/ MakeLock(p) \/ MakeScratch(p)
               \/ StageMarker(p) \/ FillMarker(p) \/ CommitMarker(p) \/ ConfirmMarker(p)
               \/ OpenJournal(p) \/ LoadEnds(p) \/ LoadInitializes(p) \/ LoadRepublishes(p)
        PROVE FALSE
    BY <2>1 DEF Posted, RunSurveys, MakeRoot, MakeLock, MakeScratch, StageMarker,
       FillMarker, CommitMarker, ConfirmMarker, OpenJournal, LoadEnds, LoadInitializes,
       LoadRepublishes, clientVars
  <2>2. ASSUME LoadDiscards(p) \/ LoadConfirms(p) \/ ResumeSettled(p) \/ ResumeObservation(p)
               \/ ResumeFindsJob(p) \/ ResumeFindsAbsence(p) \/ AppendAttempt(p)
               \/ LoseReply(p) \/ RereadLedger(p) \/ CloseBracket(p) \/ FinalizeObserved(p)
        PROVE FALSE
    BY <2>2 DEF Posted, LoadDiscards, LoadConfirms, ResumeSettled, ResumeObservation,
       ResumeFindsJob, ResumeFindsAbsence, AppendAttempt, LoseReply, RereadLedger, CloseBracket,
       FinalizeObserved, clientVars
  <2> QED BY <1>2, <2>1, <2>2 DEF Invocation
<1>3. \E p \in Proc : Invocation(p)
  <2>1. ASSUME NEW p \in Proc, StartRun(p) \/ StartResume(p) \/ StartStatus(p) PROVE FALSE
    BY <2>1 DEF Posted, StartRun, StartResume, StartStatus, Start, clientVars
  <2>2. ASSUME NEW p \in Proc, Abort(p) PROVE FALSE BY <2>2 DEF Posted, Abort, clientVars
  <2>3. ASSUME NEW k \in Attempts, ClientAccepts(k) \/ ClientRefuses(k) \/ LoseRequest(k)
        PROVE FALSE
    BY <2>3 DEF Posted, ClientAccepts, ClientRefuses, LoseRequest
  <2>4. ASSUME OthersChangeJob \/ PowerLoss \/ UNCHANGED vars PROVE FALSE
    BY <2>4 DEF Posted, OthersChangeJob, PowerLoss, vars, clientVars
  <2> QED BY <2>1, <2>2, <2>3, <2>4 DEF Next
<1> QED BY <1>1, <1>2, <1>3

\* The adoption journal implements the ledger of external effects through
\* every crash, recovery and power loss (executeAdd, openJournal,
\* recoverPending, Resume): an attempt is durable before its one add request,
\* a durable completion ends the operation for good, and another request
\* needs the repeat acknowledgement.
THEOREM AdoptKeepsLedger == Spec => LedgerSpec
<1>1. Init => Ledger!Init BY LedgerInit
<1>2. Inv /\ [Next]_vars => [Ledger!Next]_(Ledger!vars) BY LedgerSteps
<1>3. Inv /\ [Next]_vars =>
        [Posted /\ (\E i \in Attempts : posts[i] > 0) =>
           \E p \in Proc : pc[p] = "send" /\ opts[p].repeat]_vars
  BY RepeatSteps
<1>4. Spec => Ledger!Spec
  BY <1>1, <1>2, InvariantHolds, PTL DEF Spec, Ledger!Spec
<1>5. Spec => NoSilentRepeat
  BY <1>3, InvariantHolds, PTL DEF Spec, NoSilentRepeat
<1> QED BY <1>4, <1>5 DEF LedgerSpec
-----------------------------------------------------------------------------
(***************************************************************************)
(* AdoptRetention, for every number of incarnations: its types, the        *)
(* tombstones, and what a completion promises once prune and forget run.   *)
(*                                                                         *)
(* Each image that a power loss may leave is judged on its own (Legible):  *)
(* no step needs to know how it differs from the visible directory,        *)
(* because whatever replaces one piece of evidence by another has made the *)
(* new one durable first.  What remains is that the lock excludes          *)
(* (Excludes), what its holder and a forget beside it know (Advances), and *)
(* that a directory that a forget marker names is not made again (Named).  *)
(***************************************************************************)

Owning == Holding \cup RetentionHolding
Choices == [mode : Modes \cup RetentionModes, repeat : BOOLEAN, ack : BOOLEAN]
Endings == Outcomes \cup {"pruned", "forgotten"}

CallTypes ==
  /\ lock \in Proc \cup {Nobody}
  /\ pc \in [Proc -> Unlocked \cup Holding \cup RetentionUnlocked \cup RetentionHolding]
  /\ opts \in [Proc -> Choices] /\ known \in [Proc -> AttemptCounts]
  /\ marker \in [Proc -> Markers] /\ outcome \in [Proc -> Endings]
  /\ named \in [Proc -> 0..MaxIncarnations] /\ adopted \subseteq Incarnations

\* A tombstone that is not being erased is one that prune or forget accepts,
\* once its staged marker is whole.
Orderly(j) ==
  /\ j.tomb.complete => j.tomb.intent /\ ~Legacy(j)
  /\ j.tomb.pending = "complete" => j.tomb.intent
  /\ j.tomb.pending = "forget" => j.tomb.complete
  /\ ~j.tomb.intent => Terminal(j)

\* One image: what is not locked is empty, a tombstone is in its directory, and
\* a forget marker names the directory or one that is gone.
Legible(j) ==
  /\ j \in RetainedJournals
  /\ j.root # "none" => j.gen \in Incarnations
  /\ j.root # "locked" => ~Legacy(j) /\ ~j.tomb.dir
  /\ ~j.tomb.dir => j.tomb = NoTomb
  /\ j.erasing # 0 => j.erasing < j.gen \/ (j.erasing = j.gen /\ j.root # "none")
  /\ j.tomb.dir /\ j.erasing # j.gen => Orderly(j)

\* No image is older than a completion that was durable, and none of that
\* incarnation lacks its evidence.
Evidence(j) == j.done # 0 \/ j.tomb.intent \/ j.erasing = j.gen
Keeps(j, completed) ==
  /\ \A g \in completed : g <= j.gen
  /\ j.gen \in completed => j.root # "none" /\ Evidence(j)

\* The operation lock excludes, and who still has to make the lock file is alone
\* with a directory that nobody means to erase.
Excludes ==
  \A p \in Proc :
    /\ pc[p] \in Owning => lock = p /\ (disk.root = "locked" \/ (disk.root = "bare" /\ pc[p] = "erase"))
    /\ pc[p] = "newlock" =>
         /\ disk.root = "bare" /\ disk.erasing # disk.gen
         /\ \A q \in Proc : named[q] # disk.gen /\ (q # p => pc[q] \notin Owning \cup {"newlock"})

\* A directory that somebody means to erase is there, or is gone for good.
Named(p) ==
  named[p] # 0 => named[p] < disk.gen \/ (named[p] = disk.gen /\ disk.root # "none")

Writes == {"scratch", "stage", "fill", "commit", "confirm"}
Burying == {"tomb", "tomb_fill", "tomb_commit"}
Adoption == Holding \ {"load"}
Pruning == {"prune_open", "prune_load", "strip"}
Forgetting == {"forget_read", "forget_open", "forget_load"}

\* Run and Resume: past the load there is no tombstone, and what leads to a
\* request found no completion.
Sends(p) ==
  /\ pc[p] \in Adoption => ~disk.tomb.dir
  /\ pc[p] \in {"act", "send"} => disk.done = 0
  /\ pc[p] \in Writes /\ marker[p].then \in {"act", "send"} =>
       disk.done = 0 /\ marker[p].dest # "complete"
  /\ pc[p] \in {"fill", "commit"} => disk.pending.dest = marker[p].dest

\* Prune: the journal is whole until the retention intent is durable, and gone
\* before the tombstone is completed.
Retiring(p) ==
  /\ pc[p] \in Pruning => opts[p].mode = "prune"
  /\ pc[p] \in Burying \cup {"tomb_confirm"} => opts[p].mode \in RetentionModes
  /\ pc[p] \in Burying /\ opts[p].mode = "prune" =>
       IF disk.tomb.intent THEN ~Legacy(disk) ELSE Terminal(disk)
  /\ pc[p] \in {"tomb_fill", "tomb_commit"} => disk.tomb.dir /\ disk.tomb.pending = TombTarget(p)
  /\ pc[p] = "strip" => disk.tomb.intent
  /\ pc[p] = "tomb_confirm" /\ opts[p].mode = "prune" => disk.tomb.intent

\* Forget: the directory is erased only under its own visible marker, and the
\* marker goes only once the directory is gone.
Erasing(p) ==
  /\ pc[p] \in Forgetting => opts[p].mode = "forget"
  /\ pc[p] \in Burying /\ opts[p].mode = "forget" =>
       disk.tomb.complete /\ disk.tomb.intent /\ ~Legacy(disk) /\ named[p] # 0
  /\ pc[p] = "tomb_confirm" /\ opts[p].mode = "forget" => disk.erasing = disk.gen /\ named[p] # 0
  /\ pc[p] = "erase" => disk.erasing = disk.gen /\ named[p] # 0
  /\ pc[p] = "erase_open" /\ named[p] = disk.gen => disk.erasing = disk.gen
  /\ pc[p] \in {"erase_open", "vanish"} => named[p] # 0
  /\ pc[p] \in {"look", "unmark", "report"} => named[p] # 0 /\ named[p] < disk.gen
  /\ pc[p] = "report" => disk.erasing # named[p]

Advances(p) == Sends(p) /\ Retiring(p) /\ Erasing(p) /\ Named(p)

RInv ==
  /\ CallTypes
  /\ disk \in surviving /\ \A j \in surviving : Legible(j) /\ Keeps(j, adopted)
  /\ Excludes
  /\ \A p \in Proc : Advances(p)

-----------------------------------------------------------------------------
(* What holds of every step.                                               *)

LEMMA Constants ==
  /\ 0 \in AttemptCounts /\ NoPending \in Pendings /\ NoTomb \in Tombs
  /\ 1 \in Incarnations /\ 0 \in 0..MaxIncarnations /\ NoMarker \in Markers /\ NoOptions \in Choices
<1>1. 0 \in AttemptCounts /\ 1 \in Incarnations /\ 0 \in 0..MaxIncarnations
  BY MaxAttemptsAssumption, MaxIncarnationsAssumption DEF AttemptCounts, Incarnations
<1> QED BY <1>1 DEF NoPending, Pendings, NoTomb, Tombs, TombMarkers, NoMarker, Markers, Destinations,
                    Continuations, NoOptions, Choices, Modes

\* What is durably complete before a step is remembered by it, and every image
\* has its evidence.
LEMMA Recalls ==
  ASSUME RInv, History
  PROVE  adopted' \subseteq Incarnations /\ \A j \in surviving : Keeps(j, adopted')
<1>1. ASSUME NEW j \in surviving, NEW g \in AdoptedNow
      PROVE  j.gen = g /\ j.done # 0 /\ j.root # "none" /\ g <= j.gen
  <2>1. j.gen = g /\ j.done # 0 BY <1>1 DEF AdoptedNow
  <2>2. Legible(j) BY <1>1 DEF RInv
  <2>3. j.root # "none" BY <2>1, <2>2 DEF Legible, Legacy, HasMarkers
  <2>4. g <= j.gen BY <2>1, <2>2, MaxIncarnationsAssumption DEF Legible, RetainedJournals
  <2> QED BY <2>1, <2>3, <2>4
<1>2. adopted' = adopted \cup AdoptedNow BY DEF History
<1>3. adopted' \subseteq Incarnations BY <1>2 DEF RInv, CallTypes, AdoptedNow
<1>4. ASSUME NEW j \in surviving PROVE Keeps(j, adopted')
  BY <1>1, <1>2, <1>4 DEF RInv, Keeps, Evidence
<1> QED BY <1>3, <1>4

\* A step of p leaves the others where they are.
Others(p) ==
  \A q \in Proc \ {p} :
    /\ pc'[q] = pc[q] /\ opts'[q] = opts[q] /\ marker'[q] = marker[q]
    /\ named'[q] = named[q] \/ (pc[q] = "idle" /\ named'[q] = 0)

\* The directory does not get older, and is named by others as before.
Grows ==
  /\ disk'.gen >= disk.gen /\ disk'.erasing \in {disk.erasing, 0, disk.gen}
  /\ disk'.gen = disk.gen =>
       /\ disk.root # "none" => disk'.root # "none"
       /\ disk.erasing = disk.gen => disk'.erasing = disk.gen

\* What may happen beside a lock holder.
Mild == disk' = disk \/ (disk' = [disk EXCEPT !.erasing = 0] /\ disk.erasing # disk.gen)

LEMMA OthersGoOn ==
  ASSUME RInv, NEW p \in Proc, NEW q \in Proc \ {p}, Others(p), CallTypes', Grows,
         disk' \in RetainedJournals, pc[q] \in Owning => Mild
  PROVE  Advances(q)'
<1>1. /\ pc'[q] = pc[q] /\ opts'[q] = opts[q] /\ marker'[q] = marker[q]
      /\ named'[q] = named[q] \/ (pc[q] = "idle" /\ named'[q] = 0)
  BY DEF Others
<1>2. /\ disk.gen \in Nat /\ disk'.gen \in Nat /\ disk.gen >= 1 /\ named[q] \in Nat
      /\ Advances(q) /\ Legible(disk) /\ disk \in RetainedJournals
  <2>1. Legible(disk) /\ Advances(q) BY DEF RInv
  <2>2. named[q] \in Nat BY MaxIncarnationsAssumption DEF RInv, CallTypes
  <2> QED BY <2>1, <2>2, MaxIncarnationsAssumption DEF Legible, RetainedJournals
<1>3. Named(q)'
  BY <1>1, <1>2 DEF Advances, Named, Grows
<1>4. CASE pc[q] \in Owning
  <2>1. CASE disk' = disk
    BY <1>1, <1>2, <1>3, <1>4, <2>1
       DEF Advances, Sends, Retiring, Erasing, TombTarget, Owning, Holding, RetentionHolding
  <2>2. CASE disk' = [disk EXCEPT !.erasing = 0] /\ disk.erasing # disk.gen
    <3>1. /\ disk'.tomb = disk.tomb /\ disk'.pending = disk.pending /\ disk'.done = disk.done
          /\ disk'.intent = disk.intent /\ disk'.attempts = disk.attempts /\ disk'.scratch = disk.scratch
          /\ disk'.gen = disk.gen
      BY <1>2, <2>2 DEF RetainedJournals
    <3>2. Legacy(disk') = Legacy(disk) /\ Terminal(disk') = Terminal(disk)
      BY <3>1 DEF Legacy, HasMarkers, Terminal, ChainAgrees
    <3>3. pc[q] \in Owning \ {"erase"}
      BY <1>2, <1>4, <2>2 DEF Advances, Erasing
    <3>4. Sends(q)'
      BY <1>1, <1>2, <3>1 DEF Advances, Sends
    <3>5. Retiring(q)'
      BY <1>1, <1>2, <3>1, <3>2 DEF Advances, Retiring, TombTarget
    <3>6. Erasing(q)'
      BY <1>1, <1>2, <3>1, <3>2, <3>3, <2>2
         DEF Advances, Erasing, Owning, Holding, RetentionHolding
    <3> QED BY <1>3, <3>4, <3>5, <3>6 DEF Advances
  <2> QED BY <1>4, <2>1, <2>2 DEF Mild
<1>5. CASE pc[q] \notin Owning
  <2>1. Sends(q)' /\ Retiring(q)'
    BY <1>1, <1>2, <1>5
       DEF Advances, Sends, Retiring, Owning, Holding, RetentionHolding, Adoption, Writes, Burying, Pruning
  <2>2. Erasing(q)'
    BY <1>1, <1>2, <1>3, <1>5
       DEF Advances, Erasing, Named, Grows, Owning, Holding, RetentionHolding, Burying, Forgetting
  <2> QED BY <1>3, <2>1, <2>2 DEF Advances
<1> QED BY <1>4, <1>5

LEMMA StepRetains ==
  ASSUME RInv, NEW p \in Proc, Others(p), CallTypes', Grows,
         \A q \in Proc \ {p} : pc[q] \in Owning => lock' = lock /\ Mild,
         \A q \in Proc \ {p} : pc[q] = "newlock" =>
             Mild /\ named'[p] # disk.gen /\ pc'[p] \notin Owning \cup {"newlock"},
         pc'[p] \in Owning => lock' = p /\ (disk'.root = "locked" \/ (disk'.root = "bare" /\ pc'[p] = "erase")),
         pc'[p] = "newlock" =>
           /\ disk'.root = "bare" /\ disk'.erasing # disk'.gen
           /\ \A q \in Proc : named'[q] # disk'.gen /\ (q # p => pc[q] \notin Owning \cup {"newlock"}),
         disk' \in surviving', \A j \in surviving' : Legible(j) /\ Keeps(j, adopted'),
         Advances(p)'
  PROVE  RInv'
<1>1. disk' \in RetainedJournals /\ Legible(disk) /\ disk \in RetainedJournals
  BY DEF RInv, Legible
<1>2. \A q \in Proc : Advances(q)'
  BY <1>1, OthersGoOn
<1>3. ASSUME NEW q \in Proc \ {p} PROVE pc'[q] = pc[q]
  BY DEF Others
<1>4. Mild => disk'.root = disk.root /\ disk'.gen = disk.gen /\ disk'.erasing \in {0, disk.erasing} /\ disk.gen # 0
  BY <1>1, MaxIncarnationsAssumption DEF Mild, RetainedJournals
<1>5. ASSUME NEW q \in Proc, pc'[q] \in Owning
      PROVE  lock' = q /\ (disk'.root = "locked" \/ (disk'.root = "bare" /\ pc'[q] = "erase"))
  BY <1>3, <1>4, <1>5 DEF RInv, Excludes
<1>6. ASSUME NEW q \in Proc, pc'[q] = "newlock"
      PROVE  /\ disk'.root = "bare" /\ disk'.erasing # disk'.gen
             /\ \A r \in Proc : named'[r] # disk'.gen /\ (r # q => pc'[r] \notin Owning \cup {"newlock"})
  <2>1. CASE q = p BY <1>3, <1>6, <2>1
  <2>2. CASE q # p
    <3>1. pc[q] = "newlock" /\ Mild /\ named'[p] # disk.gen /\ pc'[p] \notin Owning \cup {"newlock"}
      BY <1>3, <1>6, <2>2
    <3>2. /\ disk.root = "bare" /\ disk.erasing # disk.gen
          /\ \A r \in Proc : named[r] # disk.gen /\ (r # q => pc[r] \notin Owning \cup {"newlock"})
      BY <3>1 DEF RInv, Excludes
    <3>3. ASSUME NEW r \in Proc PROVE named'[r] # disk.gen
      BY <1>4, <3>1, <3>2 DEF Others
    <3> QED BY <1>3, <1>4, <3>1, <3>2, <3>3
  <2> QED BY <2>1, <2>2
<1> QED BY <1>2, <1>5, <1>6 DEF RInv, Excludes

-----------------------------------------------------------------------------
(* Kinds of steps.                                                         *)

Points == Unlocked \cup Holding \cup RetentionUnlocked \cup RetentionHolding

\* What is named after a step: by p something else perhaps, by who ends nothing.
LEMMA Renames ==
  ASSUME RInv, NEW p \in Proc, Remember, \A q \in Proc \ {p} : pc'[q] = pc[q]
  PROVE  /\ named' \in [Proc -> 0..MaxIncarnations] /\ History
         /\ \A q \in Proc \ {p} : named'[q] = named[q] \/ (pc[q] = "idle" /\ named'[q] = 0)
         /\ named'[p] = IF pc'[p] = "idle" THEN 0 ELSE named[p]
BY Constants DEF RInv, CallTypes, Remember

LEMMA Names0 ==
  ASSUME RInv, NEW p \in Proc, NEW g \in 0..MaxIncarnations, Names(p, g)
  PROVE  /\ named' \in [Proc -> 0..MaxIncarnations] /\ named'[p] = g
         /\ \A q \in Proc \ {p} : named'[q] = named[q]
BY DEF RInv, CallTypes, Names

\* The shape of a step of p: nobody else moves, and the types are kept.
LEMMA GotoShape ==
  ASSUME RInv, NEW p \in Proc, NEW step \in Points \ {"idle"}, Goto(p, step), UNCHANGED marker, Remember,
         lock' \in Proc \cup {Nobody}
  PROVE  Others(p) /\ CallTypes' /\ History /\ pc'[p] = step /\ opts' = opts /\ marker' = marker /\ named'[p] = named[p]
<1>1. /\ pc' = [pc EXCEPT ![p] = step] /\ opts' = opts /\ known' = known /\ marker' = marker
      /\ outcome' = outcome
  BY DEF Goto
<1>2. pc' \in [Proc -> Points] /\ pc'[p] = step /\ \A q \in Proc \ {p} : pc'[q] = pc[q]
  BY <1>1 DEF RInv, CallTypes, Points
<1>3. /\ named' \in [Proc -> 0..MaxIncarnations] /\ History /\ named'[p] = named[p]
      /\ \A q \in Proc \ {p} : named'[q] = named[q] \/ (pc[q] = "idle" /\ named'[q] = 0)
  BY <1>2, Renames
<1>4. adopted' \subseteq Incarnations BY <1>3, Recalls
<1> QED BY <1>1, <1>2, <1>3, <1>4 DEF Others, CallTypes, Points, RInv

LEMMA MarkerShape ==
  ASSUME RInv, NEW p \in Proc, NEW dest \in Destinations, NEW seq \in AttemptCounts, NEW then \in Continuations,
         NEW step \in Holding, WriteMarker(p, dest, seq, then, step), Remember,
         lock' \in Proc \cup {Nobody}
  PROVE  /\ Others(p) /\ CallTypes' /\ History /\ pc'[p] = step /\ opts' = opts /\ named'[p] = named[p]
         /\ marker'[p] = [dest |-> dest, seq |-> seq, then |-> then]
<1>1. /\ pc' = [pc EXCEPT ![p] = step] /\ opts' = opts /\ known' = known /\ outcome' = outcome
      /\ marker' = [marker EXCEPT ![p] = [dest |-> dest, seq |-> seq, then |-> then]]
  BY DEF Goto, WriteMarker
<1>2. /\ pc' \in [Proc -> Points] /\ pc'[p] = step /\ \A q \in Proc \ {p} : pc'[q] = pc[q]
      /\ step # "idle"
  BY <1>1 DEF RInv, CallTypes, Points, Holding
<1>3. /\ marker' \in [Proc -> Markers] /\ marker'[p] = [dest |-> dest, seq |-> seq, then |-> then]
      /\ \A q \in Proc \ {p} : marker'[q] = marker[q]
  BY <1>1 DEF RInv, CallTypes, Markers
<1>4. /\ named' \in [Proc -> 0..MaxIncarnations] /\ History /\ named'[p] = named[p]
      /\ \A q \in Proc \ {p} : named'[q] = named[q] \/ (pc[q] = "idle" /\ named'[q] = 0)
  BY <1>2, Renames
<1>5. adopted' \subseteq Incarnations BY <1>4, Recalls
<1> QED BY <1>1, <1>2, <1>3, <1>4, <1>5 DEF Others, CallTypes, Points, RInv

\* The images after a step that adds at most the directory as it is now.
LEMMA ImagesKeep ==
  ASSUME RInv, History, surviving' \subseteq surviving \cup {disk'},
         Legible(disk'), Keeps(disk', adopted')
  PROVE  \A j \in surviving' : Legible(j) /\ Keeps(j, adopted')
BY Recalls DEF RInv

\* A step that changes nothing in the directory.
LEMMA QuietKeeps ==
  ASSUME RInv, NEW p \in Proc, Others(p), CallTypes', History,
         disk' = disk, disk \in surviving', surviving' \subseteq surviving,
         pc'[p] # "newlock",
         named'[p] \in {0, named[p], disk.erasing} \/ pc[p] \in Owning,
         \/ lock' = lock /\ (pc'[p] \in Owning => pc[p] \in Owning \ {"erase"})
         \/ lock = Nobody /\ lock' = p /\ disk.root = "locked"
         \/ lock' = (IF lock = p THEN Nobody ELSE lock) /\ pc'[p] \notin Owning,
         Advances(p)'
  PROVE  RInv'
<1>1. Legible(disk) /\ disk.gen \in Nat /\ disk.gen >= 1 /\ disk' = disk
  <2>1. Legible(disk) BY DEF RInv
  <2> QED BY <2>1 DEF Legible, RetainedJournals
<1>2. Grows BY <1>1 DEF Grows
<1>3. ASSUME NEW q \in Proc \ {p}, pc[q] \in Owning PROVE lock' = lock /\ Mild
  BY <1>3, NobodyAssumption DEF RInv, Excludes, Mild
<1>4. ASSUME NEW q \in Proc \ {p}, pc[q] = "newlock"
      PROVE  Mild /\ named'[p] # disk.gen /\ pc'[p] \notin Owning \cup {"newlock"}
  <2>1. disk.root = "bare" /\ disk.erasing # disk.gen /\ named[p] # disk.gen /\ pc[p] \notin Owning
    BY <1>4 DEF RInv, Excludes
  <2> QED BY <1>1, <2>1 DEF Mild
<1>5. pc'[p] \in Owning => lock' = p /\ (disk'.root = "locked" \/ (disk'.root = "bare" /\ pc'[p] = "erase"))
  BY DEF RInv, Excludes
<1>6. \A j \in surviving' : Legible(j) /\ Keeps(j, adopted')
  BY Recalls DEF RInv
<1> QED BY <1>2, <1>3, <1>4, <1>5, <1>6, StepRetains

\* The end of an invocation.
LEMMA ReturnRetains ==
  ASSUME RInv, NEW p \in Proc, NEW o \in Endings, Return(p, o),
         disk' = disk, disk \in surviving', surviving' \subseteq surviving,
         Remember \/ (History /\ Names(p, 0))
  PROVE  RInv'
<1>1. /\ pc' = [pc EXCEPT ![p] = "idle"] /\ opts' = [opts EXCEPT ![p] = NoOptions]
      /\ known' = [known EXCEPT ![p] = 0] /\ marker' = [marker EXCEPT ![p] = NoMarker]
      /\ outcome' = [outcome EXCEPT ![p] = o] /\ lock' = (IF lock = p THEN Nobody ELSE lock)
  BY DEF Return
<1>2. pc' \in [Proc -> Points] /\ pc'[p] = "idle" /\ \A q \in Proc \ {p} : pc'[q] = pc[q]
  BY <1>1 DEF RInv, CallTypes, Points, Unlocked
<1>3. /\ named' \in [Proc -> 0..MaxIncarnations] /\ History /\ named'[p] = 0
      /\ \A q \in Proc \ {p} : named'[q] = named[q] \/ (pc[q] = "idle" /\ named'[q] = 0)
  BY <1>2, Renames, Names0, Constants
<1>4. adopted' \subseteq Incarnations BY <1>3, Recalls
<1>5. CallTypes'
  BY <1>1, <1>2, <1>3, <1>4, Constants DEF CallTypes, Points, RInv
<1>6. Others(p)
  BY <1>1, <1>2, <1>3 DEF Others, CallTypes, RInv
<1>7. Advances(p)'
  BY <1>2, <1>3 DEF Advances, Sends, Retiring, Erasing, Named, Adoption, Holding, Writes, Pruning, Burying,
                    Forgetting
<1>8. pc'[p] \notin Owning \cup {"newlock"}
  BY <1>2 DEF Owning, Holding, RetentionHolding
<1> QED BY <1>1, <1>3, <1>5, <1>6, <1>7, <1>8, QuietKeeps

\* A lock holder writes the directory and goes on.
LEMMA HolderRetains ==
  ASSUME RInv, NEW p \in Proc, pc[p] \in Owning, Others(p), CallTypes', History,
         pc'[p] \in Owning, UNCHANGED lock, Grows,
         disk'.root = "locked" \/ (disk'.root = "bare" /\ pc'[p] = "erase"),
         disk' \in surviving', \A j \in surviving' : Legible(j) /\ Keeps(j, adopted'),
         Advances(p)'
  PROVE  RInv'
<1>1. lock = p /\ \A q \in Proc \ {p} : pc[q] \notin Owning \cup {"newlock"}
  BY DEF RInv, Excludes
<1>2. pc'[p] # "newlock" BY DEF Owning, Holding, RetentionHolding
<1> QED BY <1>1, <1>2, StepRetains

\* A step between two points that changes nothing else.
LEMMA GotoKeeps ==
  ASSUME RInv, NEW p \in Proc, NEW step \in Points \ {"idle", "newlock"}, Goto(p, step), UNCHANGED marker, Remember,
         disk' = disk, disk \in surviving', surviving' \subseteq surviving,
         \/ lock' = lock /\ (step \in Owning => pc[p] \in Owning \ {"erase"})
         \/ lock = Nobody /\ lock' = p /\ disk.root = "locked",
         pc'[p] = step /\ opts'[p] = opts[p] /\ marker'[p] = marker[p] /\ named'[p] = named[p] /\ disk' = disk
           => Sends(p)' /\ Retiring(p)' /\ Erasing(p)'
  PROVE  RInv'
<1>1. lock' \in Proc \cup {Nobody} BY DEF RInv, CallTypes
<1>2. Others(p) /\ CallTypes' /\ History /\ pc'[p] = step /\ opts' = opts /\ marker' = marker /\ named'[p] = named[p]
  BY <1>1, GotoShape
<1>3. Named(p)' BY <1>2 DEF RInv, Advances, Named
<1>4. Advances(p)' BY <1>2, <1>3 DEF Advances
<1> QED BY <1>2, <1>4, QuietKeeps

LEMMA WriteMarkerRetains ==
  ASSUME RInv, NEW p \in Proc, NEW dest \in Destinations, NEW seq \in AttemptCounts, NEW then \in Continuations,
         NEW step \in {"scratch", "stage", "commit"}, WriteMarker(p, dest, seq, then, step), Remember,
         UNCHANGED diskVars, pc[p] \in Holding,
         ~disk.tomb.dir, then \in {"act", "send"} => disk.done = 0 /\ dest # "complete",
         step = "commit" => disk.pending.dest = dest
  PROVE  RInv'
<1>1. lock' \in Proc \cup {Nobody} /\ disk' = disk /\ surviving' = surviving /\ lock' = lock /\ disk \in surviving
  BY DEF RInv, CallTypes, diskVars
<1>2. step \in Holding /\ step # "newlock" /\ pc[p] \in Owning \ {"erase"} BY DEF Holding, Owning
<1>3. /\ Others(p) /\ CallTypes' /\ History /\ pc'[p] = step /\ opts' = opts /\ named'[p] = named[p]
      /\ marker'[p] = [dest |-> dest, seq |-> seq, then |-> then]
  BY <1>1, <1>2, MarkerShape
<1>4. Named(p)' BY <1>1, <1>3 DEF RInv, Advances, Named
<1>5. Advances(p)'
  BY <1>1, <1>3, <1>4
     DEF Advances, Sends, Retiring, Erasing, Adoption, Holding, Writes, Pruning, Burying, Forgetting
<1> QED BY <1>1, <1>2, <1>3, <1>5, QuietKeeps

\* An invocation starts.
LEMMA StartRetains ==
  ASSUME RInv, NEW p \in Proc, NEW o \in Choices, NEW step \in {"survey", "open", "prune_open", "forget_read"},
         Start(p, o, step), Remember,
         step = "prune_open" => o.mode = "prune", step = "forget_read" => o.mode = "forget"
  PROVE  RInv'
<1>1. /\ pc[p] = "idle" /\ pc' = [pc EXCEPT ![p] = step] /\ opts' = [opts EXCEPT ![p] = o]
      /\ outcome' = [outcome EXCEPT ![p] = "none"]
      /\ disk' = disk /\ surviving' = surviving /\ lock' = lock /\ known' = known /\ marker' = marker
  BY DEF Start, diskVars
<1>2. /\ pc' \in [Proc -> Points] /\ pc'[p] = step /\ \A q \in Proc \ {p} : pc'[q] = pc[q]
  BY <1>1 DEF RInv, CallTypes, Points, Unlocked, RetentionUnlocked
<1>3. /\ named' \in [Proc -> 0..MaxIncarnations] /\ History /\ named'[p] = named[p]
      /\ \A q \in Proc \ {p} : named'[q] = named[q] \/ (pc[q] = "idle" /\ named'[q] = 0)
  BY <1>2, Renames
<1>4. adopted' \subseteq Incarnations BY <1>3, Recalls
<1>5. CallTypes'
  BY <1>1, <1>2, <1>3, <1>4 DEF CallTypes, Points, RInv, Endings, Outcomes
<1>6. Others(p) BY <1>1, <1>2, <1>3 DEF Others, CallTypes, RInv
<1>7. opts'[p] = o BY <1>1 DEF RInv, CallTypes
<1>8. Named(p)' BY <1>1, <1>3 DEF RInv, Advances, Named
<1>9. Advances(p)'
  BY <1>2, <1>7, <1>8 DEF Advances, Sends, Retiring, Erasing, Adoption, Holding, Writes, Pruning, Burying, Forgetting
<1>10. step # "newlock" /\ step \notin Owning BY DEF Owning, Holding, RetentionHolding
<1>11. disk \in surviving BY DEF RInv
<1> QED BY <1>1, <1>2, <1>3, <1>5, <1>6, <1>9, <1>10, <1>11, QuietKeeps

\* A step that only the downloader, the network or a timer takes.
LEMMA OutsideRetains ==
  ASSUME RInv, UNCHANGED <<diskVars, pc, opts, known, marker, outcome>>, Remember
  PROVE  RInv'
<1>1. disk' = disk /\ surviving' = surviving /\ lock' = lock /\ History BY DEF diskVars, Remember
<1>2. adopted' \subseteq Incarnations /\ \A j \in surviving' : Keeps(j, adopted')
  BY <1>1, Recalls
<1>3. /\ named' \in [Proc -> 0..MaxIncarnations]
      /\ \A q \in Proc : named'[q] = named[q] \/ (pc[q] = "idle" /\ named'[q] = 0)
  BY Constants DEF RInv, CallTypes, Remember
<1>4. CallTypes' BY <1>1, <1>2, <1>3 DEF RInv, CallTypes
<1>5. ASSUME NEW q \in Proc PROVE Advances(q)'
  <2>1. CASE named'[q] = named[q]
    BY <1>1, <2>1 DEF RInv, Advances, Sends, Retiring, Erasing, Named, TombTarget
  <2>2. CASE pc[q] = "idle" /\ named'[q] = 0
    BY <2>2 DEF Advances, Sends, Retiring, Erasing, Named, Adoption, Holding, Writes, Pruning, Burying, Forgetting
  <2> QED BY <1>3, <2>1, <2>2
<1>6. Legible(disk) /\ disk.gen # 0
  <2>1. Legible(disk) BY DEF RInv
  <2> QED BY <2>1, MaxIncarnationsAssumption DEF Legible, RetainedJournals
<1>7. Excludes' BY <1>1, <1>3, <1>6 DEF RInv, Excludes
<1> QED BY <1>1, <1>2, <1>4, <1>5, <1>7 DEF RInv

LEMMA PowerLossRetains == ASSUME RInv, PowerLoss, Remember PROVE RInv'
<1>1. PICK j \in surviving : disk' = j /\ surviving' = {j}
  BY DEF PowerLoss
<1>2. /\ lock' = Nobody /\ pc' = [p \in Proc |-> "idle"] /\ opts' = [p \in Proc |-> NoOptions]
      /\ known' = [p \in Proc |-> 0] /\ marker' = [p \in Proc |-> NoMarker] /\ outcome' = [p \in Proc |-> "none"]
  BY DEF PowerLoss
<1>3. named' = [p \in Proc |-> 0] /\ History
  BY <1>2 DEF Remember
<1>4. adopted' \subseteq Incarnations /\ \A k \in surviving : Keeps(k, adopted')
  BY <1>3, Recalls
<1>5. CallTypes'
  BY <1>2, <1>3, <1>4, Constants DEF CallTypes, Unlocked, Endings, Outcomes
<1>6. ASSUME NEW q \in Proc PROVE Advances(q)'
  BY <1>2, <1>3 DEF Advances, Sends, Retiring, Erasing, Named, Adoption, Holding, Writes, Pruning, Burying, Forgetting
<1>7. Excludes' BY <1>2 DEF Excludes, Owning, Holding, RetentionHolding
<1> QED BY <1>1, <1>4, <1>5, <1>6, <1>7 DEF RInv

-----------------------------------------------------------------------------
(* Run and Resume: the steps that only read.                               *)

\* The directory that the others see is one of the images.
LEMMA Visible ==
  ASSUME RInv
  PROVE  /\ disk \in surviving /\ disk \in RetainedJournals /\ Legible(disk)
         /\ disk.gen \in Nat /\ disk.gen >= 1 /\ disk.erasing \in Nat
         /\ disk.attempts \in AttemptCounts /\ disk.done \in AttemptCounts
<1>1. disk \in surviving /\ Legible(disk) BY DEF RInv
<1> QED BY <1>1, MaxIncarnationsAssumption DEF Legible, RetainedJournals

\* The end of an invocation that leaves the directory alone.
LEMMA EndRetains ==
  ASSUME RInv, NEW p \in Proc, NEW o \in Outcomes, Return(p, o), Remember,
         UNCHANGED <<disk, surviving>>
  PROVE  RInv'
BY Visible, ReturnRetains DEF Endings

\* Between two points of Run or Resume.
LEMMA MoveRetains ==
  ASSUME RInv, NEW p \in Proc, NEW step \in {"mkdir", "act", "seal", "await"}, Goto(p, step), Remember,
         UNCHANGED <<diskVars, marker>>,
         step # "mkdir" => pc[p] \in Adoption,
         step = "act" => disk.done = 0
  PROVE  RInv'
<1>1. disk' = disk /\ surviving' = surviving /\ lock' = lock /\ marker' = marker BY DEF diskVars
<1>2. step \in Points \ {"idle", "newlock"} BY DEF Points, Unlocked, Holding
<1>3. step \in Owning => pc[p] \in Owning \ {"erase"}
  BY DEF Owning, Holding, RetentionHolding, Adoption
<1>4. step # "mkdir" => ~disk.tomb.dir BY DEF RInv, Advances, Sends
<1>5. pc'[p] = step /\ disk' = disk => Sends(p)' /\ Retiring(p)' /\ Erasing(p)'
  BY <1>4 DEF Sends, Retiring, Erasing, Adoption, Holding, Writes, Pruning, Burying, Forgetting
<1> QED BY <1>1, <1>2, <1>3, <1>5, Visible, GotoKeeps

LEMMA RunSurveysRetains == ASSUME RInv, NEW p \in Proc, RunSurveys(p), Remember PROVE RInv'
<1>1. CASE Goto(p, "mkdir") /\ UNCHANGED <<lock, marker>>
  BY <1>1, MoveRetains DEF RunSurveys, diskVars
<1>2. CASE Return(p, "stopped")
  BY <1>2, EndRetains DEF RunSurveys, Outcomes
<1> QED BY <1>1, <1>2 DEF RunSurveys

LEMMA OpenJournalRetains == ASSUME RInv, NEW p \in Proc, OpenJournal(p), Remember PROVE RInv'
<1>1. CASE Return(p, "stopped")
  BY <1>1, EndRetains DEF OpenJournal, Outcomes
<1>2. CASE disk.root = "locked" /\ lock = Nobody /\ lock' = p /\ Goto(p, "load") /\ UNCHANGED marker
  <2>1. "load" \in Points \ {"idle", "newlock"} BY DEF Points, Holding
  <2>2. pc'[p] = "load" => Sends(p)' /\ Retiring(p)' /\ Erasing(p)'
    BY DEF Sends, Retiring, Erasing, Adoption, Holding, Writes, Pruning, Burying, Forgetting
  <2> QED BY <1>2, <2>1, <2>2, Visible, GotoKeeps DEF OpenJournal
<1> QED BY <1>1, <1>2 DEF OpenJournal

LEMMA ResumeKeeps ==
  ASSUME RInv, NEW p \in Proc, Remember,
         \/ ResumeSettled(p) \/ ResumeObservation(p) \/ ResumeFindsJob(p) \/ ResumeFindsAbsence(p)
         \/ RereadLedger(p) \/ CloseBracket(p)
  PROVE  RInv'
<1>1. ASSUME NEW o \in Outcomes, Return(p, o), UNCHANGED <<disk, surviving>> PROVE RInv'
  BY <1>1, EndRetains
<1>2. ASSUME NEW step \in {"act", "seal"}, Goto(p, step), UNCHANGED <<disk, surviving, lock, marker>>,
             pc[p] \in Adoption, step = "act" => disk.done = 0
      PROVE  RInv'
  BY <1>2, MoveRetains DEF diskVars
<1>3. "stopped" \in Outcomes /\ "unknown" \in Outcomes /\ "adopted" \in Outcomes BY DEF Outcomes
<1>4. CASE ResumeSettled(p) BY <1>1, <1>3, <1>4 DEF ResumeSettled
<1>5. CASE ResumeObservation(p) BY <1>1, <1>2, <1>3, <1>5 DEF ResumeObservation, Adoption, Holding
<1>6. CASE ResumeFindsJob(p) BY <1>1, <1>2, <1>3, <1>6 DEF ResumeFindsJob, Adoption, Holding
<1>7. CASE ResumeFindsAbsence(p) BY <1>1, <1>2, <1>3, <1>7 DEF ResumeFindsAbsence, Adoption, Holding
<1>8. CASE RereadLedger(p) BY <1>1, <1>2, <1>3, <1>8 DEF RereadLedger, Adoption, Holding
<1>9. CASE CloseBracket(p) BY <1>1, <1>2, <1>3, <1>9 DEF CloseBracket, Adoption, Holding
<1> QED BY <1>4, <1>5, <1>6, <1>7, <1>8, <1>9

LEMMA SendAddRetains == ASSUME RInv, NEW p \in Proc, SendAdd(p), Remember PROVE RInv'
BY MoveRetains DEF SendAdd, Adoption, Holding

LEMMA LoseReplyKeeps == ASSUME RInv, NEW p \in Proc, LoseReply(p), Remember PROVE RInv'
BY OutsideRetains DEF LoseReply

LEMMA AppendAttemptRetains == ASSUME RInv, NEW p \in Proc, AppendAttempt(p), Remember PROVE RInv'
<1>1. CASE Return(p, "stopped")
  BY <1>1, EndRetains DEF AppendAttempt, Outcomes
<1>2. CASE /\ known[p] < MaxAttempts
           /\ WriteMarker(p, "attempt", known[p] + 1, IF IsAdd THEN "send" ELSE "bracket", "stage")
           /\ UNCHANGED lock
  <2> DEFINE then == IF IsAdd THEN "send" ELSE "bracket"
  <2>1. known[p] + 1 \in AttemptCounts
    BY <1>2, MaxAttemptsAssumption DEF RInv, CallTypes, AttemptCounts
  <2>2. /\ "attempt" \in Destinations /\ then \in Continuations
        /\ pc[p] \in Holding /\ pc[p] = "act" /\ pc[p] \in Adoption
    BY DEF Destinations, Continuations, Holding, AppendAttempt, Adoption
  <2>3. ~disk.tomb.dir /\ disk.done = 0
    BY <2>2 DEF RInv, Advances, Sends
  <2>4. UNCHANGED diskVars BY <1>2 DEF AppendAttempt, diskVars
  <2> HIDE DEF then
  <2>5. WriteMarker(p, "attempt", known[p] + 1, then, "stage") BY <1>2 DEF then
  <2> QED BY <2>1, <2>2, <2>3, <2>4, <2>5, WriteMarkerRetains
<1> QED BY <1>1, <1>2 DEF AppendAttempt

LEMMA FinalizeObservedRetains == ASSUME RInv, NEW p \in Proc, FinalizeObserved(p), Remember PROVE RInv'
<1>1. known[p] \in AttemptCounts /\ ~disk.tomb.dir /\ pc[p] = "seal"
  BY DEF FinalizeObserved, RInv, CallTypes, Advances, Sends, Adoption, Holding
<1>2. "complete" \in Destinations /\ "adopted" \in Continuations /\ pc[p] \in Holding
  BY <1>1 DEF Destinations, Continuations, Holding
<1> QED BY <1>1, <1>2, WriteMarkerRetains DEF FinalizeObserved

-----------------------------------------------------------------------------
(* Run and Resume: the steps that write the journal.                       *)

\* The journal changes, its directory and its completion stay.
Continues(j, d) ==
  /\ d \in RetainedJournals /\ d.root = j.root /\ d.gen = j.gen /\ d.erasing = j.erasing /\ d.tomb = j.tomb
  /\ j.done # 0 => d.done # 0

LEMMA JournalWrites ==
  ASSUME NEW j, NEW d, NEW A, Legible(j), Keeps(j, A), Continues(j, d),
         j.root = "locked", ~j.tomb.dir
  PROVE  Legible(d) /\ Keeps(d, A)
BY DEF Legible, Keeps, Evidence, Continues

LEMMA ContinuesGrows == ASSUME RInv, Continues(disk, disk') PROVE Grows
BY Visible DEF Continues, Grows

\* A holder of the lock writes the journal and goes on with it.
LEMMA JournalKeeps ==
  ASSUME RInv, NEW p \in Proc, pc[p] \in Holding, Others(p), CallTypes', History, pc'[p] \in Holding,
         named'[p] = named[p], UNCHANGED lock, ~disk.tomb.dir, Continues(disk, disk'), disk' \in surviving',
         \A j \in surviving' : j \in surviving \cup {disk'} \/ (Legible(j) /\ Keeps(j, adopted')), Sends(p)'
  PROVE  RInv'
<1>1. pc[p] \in Owning /\ pc'[p] \in Owning /\ disk.root = "locked"
  BY DEF RInv, Excludes, Owning, Holding
<1>2. Legible(disk') /\ Keeps(disk', adopted')
  BY <1>1, Recalls, Visible, JournalWrites
<1>3. \A j \in surviving' : Legible(j) /\ Keeps(j, adopted')
  BY <1>2, Recalls DEF RInv
<1>4. Named(p)' BY DEF RInv, Advances, Named, Continues
<1>5. Retiring(p)' /\ Erasing(p)'
  BY DEF Retiring, Erasing, Holding, Pruning, Burying, Forgetting
<1>6. disk'.root = "locked" BY <1>1 DEF Continues
<1> QED BY <1>1, <1>3, <1>4, <1>5, <1>6, HolderRetains, ContinuesGrows DEF Advances

LEMMA MakeScratchRetains == ASSUME RInv, NEW p \in Proc, MakeScratch(p), Remember PROVE RInv'
<1>1. /\ disk' = [disk EXCEPT !.scratch = TRUE] /\ surviving' = surviving \cup {disk'}
      /\ pc[p] = "scratch" /\ UNCHANGED lock
  BY DEF MakeScratch, Write
<1>2. "stage" \in Points \ {"idle"} /\ lock' \in Proc \cup {Nobody}
  BY <1>1 DEF Points, Holding, RInv, CallTypes
<1>3. Others(p) /\ CallTypes' /\ History /\ pc'[p] = "stage" /\ marker' = marker /\ named'[p] = named[p]
  BY <1>2, GotoShape DEF MakeScratch
<1>4. Continues(disk, disk') /\ disk'.done = disk.done
  BY <1>1, Visible DEF Continues, RetainedJournals
<1>5. pc[p] \in Holding /\ pc'[p] \in Holding /\ pc[p] \in Adoption /\ Sends(p)
  BY <1>1, <1>3 DEF Holding, Adoption, RInv, Advances
<1>6. ~disk.tomb.dir BY <1>5 DEF Sends
<1>7. Sends(p)'
  BY <1>1, <1>3, <1>4, <1>5, <1>6 DEF Sends, Continues, Writes
<1> QED BY <1>1, <1>3, <1>4, <1>5, <1>6, <1>7, JournalKeeps

LEMMA StageMarkerRetains == ASSUME RInv, NEW p \in Proc, StageMarker(p), Remember PROVE RInv'
<1>1. /\ disk' = Stage(disk, marker[p].dest, marker[p].seq) /\ surviving' = {disk, disk'}
      /\ pc[p] = "stage" /\ UNCHANGED lock
  BY DEF StageMarker, SyncThenWrite
<1>2. "fill" \in Points \ {"idle"} /\ lock' \in Proc \cup {Nobody}
  BY <1>1 DEF Points, Holding, RInv, CallTypes
<1>3. Others(p) /\ CallTypes' /\ History /\ pc'[p] = "fill" /\ marker' = marker /\ named'[p] = named[p]
  BY <1>2, GotoShape DEF StageMarker
<1>4. [dest |-> marker[p].dest, seq |-> marker[p].seq, whole |-> FALSE] \in Pendings
  BY DEF RInv, CallTypes, Markers, Pendings
<1>5. Continues(disk, disk') /\ disk'.done = disk.done /\ disk'.pending.dest = marker[p].dest
  BY <1>1, <1>4, Visible DEF Continues, RetainedJournals, Stage
<1>6. pc[p] \in Holding /\ pc'[p] \in Holding /\ pc[p] \in Adoption /\ Sends(p)
  BY <1>1, <1>3 DEF Holding, Adoption, RInv, Advances
<1>7. ~disk.tomb.dir BY <1>6 DEF Sends
<1>8. Sends(p)'
  BY <1>1, <1>3, <1>5, <1>6, <1>7 DEF Sends, Continues, Writes
<1> QED BY <1>1, <1>3, <1>5, <1>6, <1>7, <1>8, Visible, JournalKeeps

\* A staged file is whole wherever it is found.
LEMMA Fills ==
  ASSUME NEW j, NEW A, Legible(j), Keeps(j, A)
  PROVE  /\ Legible(Fill(j)) /\ Keeps(Fill(j), A) /\ Continues(j, Fill(j))
         /\ Fill(j).done = j.done /\ Fill(j).pending.dest = j.pending.dest
<1> DEFINE d == Fill(j)
<1>1. /\ j \in RetainedJournals /\ j.pending \in Pendings
      /\ d = [j EXCEPT !.pending = [j.pending EXCEPT !.whole = (j.pending.dest # "none")]]
  BY DEF Legible, RetainedJournals, Fill
<1>2. [j.pending EXCEPT !.whole = (j.pending.dest # "none")] \in Pendings BY <1>1 DEF Pendings
<1>3. j.pending = NoPending => [j.pending EXCEPT !.whole = (j.pending.dest # "none")] = NoPending
  <2> DEFINE r == [j.pending EXCEPT !.whole = (j.pending.dest # "none")]
  <2>1. ASSUME j.pending = NoPending PROVE r.dest = "none" /\ r.seq = 0 /\ ~r.whole
    <3>1. j.pending.dest = "none" /\ j.pending.seq = 0 BY <2>1 DEF NoPending
    <3>2. r.dest = j.pending.dest /\ r.seq = j.pending.seq /\ (r.whole <=> j.pending.dest # "none")
      BY <1>1 DEF Pendings
    <3> QED BY <3>1, <3>2
  <2> HIDE DEF r
  <2>2. ASSUME r \in Pendings, r.dest = "none", r.seq = 0, ~r.whole PROVE r = NoPending
    BY <2>2 DEF Pendings, NoPending
  <2>3. r \in Pendings BY <1>2 DEF r
  <2> QED BY <2>1, <2>2, <2>3 DEF r
<1>4. /\ d \in RetainedJournals /\ d.root = j.root /\ d.gen = j.gen /\ d.erasing = j.erasing /\ d.tomb = j.tomb
      /\ d.scratch = j.scratch /\ d.intent = j.intent /\ d.attempts = j.attempts /\ d.done = j.done
      /\ d.pending = [j.pending EXCEPT !.whole = (j.pending.dest # "none")]
  BY <1>1, <1>2 DEF RetainedJournals
<1>5. d.pending.dest = j.pending.dest BY <1>1, <1>4 DEF Pendings
<1> HIDE DEF d
<1>6. Continues(j, d) BY <1>4 DEF Continues
<1>7. Legible(d) /\ Keeps(d, A)
  BY <1>3, <1>4 DEF Legible, Keeps, Evidence, Legacy, HasMarkers, Orderly, Terminal, ChainAgrees
<1> QED BY <1>4, <1>5, <1>6, <1>7 DEF d

LEMMA FillMarkerRetains == ASSUME RInv, NEW p \in Proc, FillMarker(p), Remember PROVE RInv'
<1>1. /\ disk' = Fill(disk) /\ surviving' = {Fill(j) : j \in surviving} /\ pc[p] = "fill" /\ UNCHANGED lock
  BY DEF FillMarker
<1>2. "commit" \in Points \ {"idle"} /\ lock' \in Proc \cup {Nobody}
  BY <1>1 DEF Points, Holding, RInv, CallTypes
<1>3. Others(p) /\ CallTypes' /\ History /\ pc'[p] = "commit" /\ marker' = marker /\ named'[p] = named[p]
  BY <1>2, GotoShape DEF FillMarker
<1>4. \A j \in surviving : Legible(j) /\ Keeps(j, adopted') BY <1>3, Recalls DEF RInv
<1>5. \A j \in surviving' : Legible(j) /\ Keeps(j, adopted') BY <1>1, <1>4, Fills
<1>6. Continues(disk, disk') /\ disk'.done = disk.done /\ disk'.pending.dest = disk.pending.dest
  BY <1>1, <1>4, Visible, Fills
<1>7. pc[p] \in Holding /\ pc'[p] \in Holding /\ pc[p] \in Adoption /\ Sends(p)
  BY <1>1, <1>3 DEF Holding, Adoption, RInv, Advances
<1>8. ~disk.tomb.dir BY <1>7 DEF Sends
<1>9. Sends(p)'
  BY <1>1, <1>3, <1>6, <1>7, <1>8 DEF Sends, Continues, Writes
<1> QED BY <1>1, <1>3, <1>5, <1>6, <1>7, <1>8, <1>9, Visible, JournalKeeps

LEMMA CommitMarkerRetains == ASSUME RInv, NEW p \in Proc, CommitMarker(p), Remember PROVE RInv'
<1>1. /\ disk' = Commit(disk) /\ surviving' = surviving \cup {disk'} /\ pc[p] = "commit" /\ UNCHANGED lock
      /\ ~Published(disk, marker[p].dest, marker[p].seq)
  BY DEF CommitMarker, Write
<1>2. "confirm" \in Points \ {"idle"} /\ lock' \in Proc \cup {Nobody}
  BY <1>1 DEF Points, Holding, RInv, CallTypes
<1>3. Others(p) /\ CallTypes' /\ History /\ pc'[p] = "confirm" /\ marker' = marker /\ named'[p] = named[p]
  BY <1>2, GotoShape DEF CommitMarker
<1>4. pc[p] \in Holding /\ pc'[p] \in Holding /\ pc[p] \in Adoption /\ Sends(p)
  BY <1>1, <1>3 DEF Holding, Adoption, RInv, Advances
<1>5. ~disk.tomb.dir /\ disk.pending.dest = marker[p].dest BY <1>1, <1>4 DEF Sends
<1>6. disk.pending.dest = "complete" => disk.done = 0 BY <1>1, <1>5 DEF Published
<1>7. /\ Continues(disk, disk')
      /\ disk.pending.dest # "complete" => disk'.done = disk.done
  BY <1>1, <1>6, Visible, Constants DEF Continues, RetainedJournals, Commit, Pendings
<1>8. Sends(p)'
  BY <1>1, <1>3, <1>4, <1>5, <1>7 DEF Sends, Continues, Writes
<1> QED BY <1>1, <1>3, <1>4, <1>5, <1>7, <1>8, Visible, JournalKeeps

-----------------------------------------------------------------------------
(* Run and Resume: confirming, loading, making the directory.              *)

\* A journal that is read and durable: its attempts are counted.
LEMMA CountKeeps ==
  ASSUME RInv, NEW p \in Proc, NEW step \in {"ledger", "act", "load", "send", "bracket"}, Remember,
         pc' = [pc EXCEPT ![p] = step], known' = [known EXCEPT ![p] = disk.attempts],
         UNCHANGED <<lock, opts, marker, outcome>>, Sync, pc[p] \in Holding, ~disk.tomb.dir,
         step \in {"act", "send"} => disk.done = 0
  PROVE  RInv'
<1>1. pc' \in [Proc -> Points] /\ pc'[p] = step /\ \A q \in Proc \ {p} : pc'[q] = pc[q]
  BY DEF RInv, CallTypes, Points, Holding
<1>2. /\ named' \in [Proc -> 0..MaxIncarnations] /\ History /\ named'[p] = named[p]
      /\ \A q \in Proc \ {p} : named'[q] = named[q] \/ (pc[q] = "idle" /\ named'[q] = 0)
  BY <1>1, Renames
<1>3. adopted' \subseteq Incarnations BY <1>2, Recalls
<1>4. CallTypes' BY <1>1, <1>2, <1>3, Visible DEF RInv, CallTypes, Points
<1>5. Others(p) BY <1>1, <1>2 DEF Others
<1>6. disk' = disk /\ surviving' = {disk} BY DEF Sync
<1>7. Named(p)' BY <1>2, <1>6 DEF RInv, Advances, Named
<1>8. Advances(p)'
  BY <1>1, <1>6, <1>7
     DEF Advances, Sends, Retiring, Erasing, Adoption, Holding, Writes, Pruning, Burying, Forgetting
<1>9. pc[p] \in Owning \ {"erase"} /\ pc'[p] # "newlock" BY <1>1 DEF Owning, Holding
<1> QED BY <1>2, <1>4, <1>5, <1>6, <1>8, <1>9, Visible, QuietKeeps

LEMMA ConfirmMarkerRetains == ASSUME RInv, NEW p \in Proc, ConfirmMarker(p), Remember PROVE RInv'
<1>1. Sync /\ pc[p] = "confirm" BY DEF ConfirmMarker
<1>2. CASE Return(p, "adopted")
  BY <1>1, <1>2, Visible, ReturnRetains DEF Sync, Endings, Outcomes
<1>3. CASE /\ marker[p].then # "adopted"
           /\ pc' = [pc EXCEPT ![p] = marker[p].then]
           /\ known' = [known EXCEPT ![p] = disk.attempts]
           /\ UNCHANGED <<lock, opts, marker, reply, outcome>>
  <2>1. marker[p].then \in {"act", "load", "send", "bracket"}
    BY <1>3 DEF RInv, CallTypes, Markers, Continuations
  <2>2. pc[p] \in Holding /\ pc[p] \in Adoption /\ pc[p] \in Writes /\ Sends(p)
    BY <1>1 DEF Holding, Adoption, Writes, RInv, Advances
  <2>3. ~disk.tomb.dir /\ (marker[p].then \in {"act", "send"} => disk.done = 0)
    BY <2>2 DEF Sends
  <2> QED BY <1>1, <1>3, <2>1, <2>2, <2>3, CountKeeps
<1> QED BY <1>2, <1>3 DEF ConfirmMarker

LEMMA LoadDiscardsRetains == ASSUME RInv, NEW p \in Proc, LoadDiscards(p), ~disk.tomb.dir, Remember PROVE RInv'
<1>1. /\ pc[p] = "load" /\ disk' = Discard(disk) /\ surviving' = {disk'} /\ UNCHANGED <<lock, callVars>>
  BY DEF LoadDiscards, Recovering
<1>2. pc' = pc /\ opts' = opts /\ known' = known /\ marker' = marker /\ outcome' = outcome
  BY <1>1 DEF callVars
<1>3. /\ named' \in [Proc -> 0..MaxIncarnations] /\ History /\ named'[p] = named[p]
      /\ \A q \in Proc \ {p} : named'[q] = named[q] \/ (pc[q] = "idle" /\ named'[q] = 0)
  BY <1>1, <1>2, Renames
<1>4. adopted' \subseteq Incarnations BY <1>3, Recalls
<1>5. CallTypes' BY <1>1, <1>2, <1>3, <1>4 DEF RInv, CallTypes
<1>6. Others(p) BY <1>2, <1>3 DEF Others
<1>7. Continues(disk, disk')
  BY <1>1, Visible, Constants DEF Continues, RetainedJournals, Discard
<1>8. pc[p] \in Holding /\ pc'[p] \in Holding /\ Sends(p)'
  BY <1>1, <1>2 DEF Holding, Sends, Adoption, Writes
<1> QED BY <1>1, <1>3, <1>5, <1>6, <1>7, <1>8, JournalKeeps

LEMMA LoadingKeeps == ASSUME RInv, NEW p \in Proc, Loading(p), Remember PROVE RInv'
<1>1. CASE LoadRetained(p)
  BY <1>1, EndRetains DEF LoadRetained, Outcomes
<1>2. CASE LoadEnds(p)
  BY <1>2, EndRetains DEF LoadEnds, Outcomes
<1>3. ASSUME ~disk.tomb.dir, NEW dest \in Destinations, NEW seq \in AttemptCounts,
             NEW step \in {"scratch", "stage", "commit"}, WriteMarker(p, dest, seq, "load", step),
             pc[p] = "load", UNCHANGED diskVars, step = "commit" => disk.pending.dest = dest
      PROVE  RInv'
  BY <1>3, WriteMarkerRetains DEF Continuations, Holding
<1>4. CASE LoadInitializes(p) /\ ~disk.tomb.dir
  <2> DEFINE step == IF disk.scratch THEN "stage" ELSE "scratch"
  <2>1. WriteMarker(p, "intent", 0, "load", step) /\ pc[p] = "load" /\ UNCHANGED diskVars
    BY <1>4 DEF LoadInitializes, Recovering
  <2>2. step \in {"scratch", "stage"} OBVIOUS
  <2> HIDE DEF step
  <2>3. "intent" \in Destinations /\ step \in {"scratch", "stage", "commit"} /\ step # "commit"
    BY <2>2 DEF Destinations
  <2> QED BY <1>3, <1>4, <2>1, <2>3, Constants
<1>5. CASE LoadRepublishes(p) /\ ~disk.tomb.dir
  <2>1. /\ WriteMarker(p, disk.pending.dest, disk.pending.seq, "load", "commit") /\ pc[p] = "load"
        /\ UNCHANGED diskVars /\ disk.pending.dest \in Destinations
    BY <1>5 DEF LoadRepublishes, Recovering, Destinations
  <2>2. disk.pending.seq \in AttemptCounts BY Visible DEF RetainedJournals, Pendings
  <2> QED BY <1>3, <1>5, <2>1, <2>2
<1>6. CASE LoadDiscards(p) /\ ~disk.tomb.dir
  BY <1>6, LoadDiscardsRetains
<1>7. CASE LoadConfirms(p) /\ ~disk.tomb.dir
  BY <1>7, CountKeeps DEF LoadConfirms, Recovering, Holding
<1> QED BY <1>1, <1>2, <1>4, <1>5, <1>6, <1>7 DEF Loading, Loads

\* A directory is made under a free name: it is empty, and nobody means to erase it.
LEMMA MakeRootRetains == ASSUME RInv, NEW p \in Proc, BoundedMakeRoot(p), Remember PROVE RInv'
<1>1. CASE Return(p, "stopped") /\ UNCHANGED <<disk, surviving>>
  BY <1>1, EndRetains DEF Outcomes
<1>2. CASE /\ disk.root = "none" /\ Write([disk EXCEPT !.root = "bare"])
           /\ Goto(p, "newlock") /\ UNCHANGED <<lock, marker>>
  <2>1. /\ disk' = [disk EXCEPT !.root = "bare"] /\ surviving' = surviving \cup {disk'}
        /\ UNCHANGED lock /\ disk.gen \in Incarnations
    BY <1>2 DEF Write, BoundedMakeRoot
  <2>2. "newlock" \in Points \ {"idle"} /\ lock' \in Proc \cup {Nobody}
    BY <2>1 DEF Points, Unlocked, RInv, CallTypes
  <2>3. Others(p) /\ CallTypes' /\ History /\ pc'[p] = "newlock" /\ named'[p] = named[p]
    BY <1>2, <2>2, GotoShape
  <2>4. /\ disk' \in RetainedJournals /\ disk'.root = "bare" /\ disk'.gen = disk.gen /\ disk'.erasing = disk.erasing
        /\ disk'.tomb = disk.tomb /\ disk'.done = disk.done /\ disk'.intent = disk.intent
        /\ disk'.attempts = disk.attempts /\ disk'.scratch = disk.scratch
    BY <2>1, Visible DEF RetainedJournals
  <2>5. \A q \in Proc : pc[q] \notin Owning \cup {"newlock"} /\ Named(q)
    BY <1>2 DEF RInv, Excludes, Advances
  <2>6. disk.erasing # disk.gen BY <1>2, Visible DEF Legible
  <2>7. \A q \in Proc : named'[q] # disk.gen
    BY <1>2, <2>3, <2>5, Visible DEF Named, Others
  <2>8. Legible(disk')
    BY <1>2, <2>1, <2>4, <2>6, Visible DEF Legible, Legacy, HasMarkers
  <2>9. Keeps(disk, adopted') BY <2>3, Recalls, Visible
  <2>10. Keeps(disk', adopted') BY <1>2, <2>4, <2>9 DEF Keeps
  <2>11. \A j \in surviving' : Legible(j) /\ Keeps(j, adopted')
    BY <2>1, <2>3, <2>8, <2>10, ImagesKeep
  <2>12. Grows BY <2>4, Visible DEF Grows
  <2>13. Advances(p)'
    BY <2>3, <2>4, <2>5
       DEF Advances, Sends, Retiring, Erasing, Named, Adoption, Holding, Writes, Pruning, Burying, Forgetting
  <2>14. pc'[p] \notin Owning BY <2>3 DEF Owning, Holding, RetentionHolding
  <2> QED BY <2>1, <2>3, <2>4, <2>5, <2>6, <2>7, <2>11, <2>12, <2>13, <2>14, StepRetains
<1> QED BY <1>1, <1>2 DEF BoundedMakeRoot, MakeRoot

LEMMA MakeLockRetains == ASSUME RInv, NEW p \in Proc, MakeLock(p), Remember PROVE RInv'
<1>1. /\ pc[p] = "newlock" /\ disk' = [disk EXCEPT !.root = "locked"] /\ surviving' = {disk, disk'}
      /\ lock' = p /\ WriteMarker(p, "intent", 0, "act", "scratch")
  BY DEF MakeLock, SyncThenWrite
<1>2. "intent" \in Destinations /\ "act" \in Continuations /\ "scratch" \in Holding
  BY DEF Destinations, Continuations, Holding
<1>3. /\ Others(p) /\ CallTypes' /\ History /\ pc'[p] = "scratch" /\ named'[p] = named[p]
      /\ marker'[p] = [dest |-> "intent", seq |-> 0, then |-> "act"]
  BY <1>1, <1>2, MarkerShape, Constants
<1>4. /\ disk.root = "bare" /\ disk.erasing # disk.gen
      /\ \A q \in Proc \ {p} : pc[q] \notin Owning \cup {"newlock"}
  BY <1>1 DEF RInv, Excludes
<1>5. /\ disk' \in RetainedJournals /\ disk'.root = "locked" /\ disk'.gen = disk.gen /\ disk'.erasing = disk.erasing
      /\ disk'.tomb = disk.tomb /\ disk'.done = disk.done
  BY <1>1, Visible DEF RetainedJournals
<1>6. ~disk.tomb.dir /\ disk.done = 0
  BY <1>4, Visible DEF Legible, Legacy, HasMarkers
<1>7. Legible(disk') BY <1>4, <1>5, <1>6, Visible DEF Legible
<1>8. Keeps(disk, adopted') BY <1>3, Recalls, Visible
<1>9. Keeps(disk', adopted') BY <1>5, <1>8 DEF Keeps, Evidence
<1>10. \A j \in surviving' : Legible(j) /\ Keeps(j, adopted')
  BY <1>1, <1>3, <1>7, <1>9, Visible, ImagesKeep
<1>11. Grows BY <1>5, Visible DEF Grows
<1>12. Named(p)' BY <1>3, <1>4, <1>5 DEF RInv, Advances, Named
<1>13. Advances(p)'
  BY <1>3, <1>5, <1>6, <1>12
     DEF Advances, Sends, Retiring, Erasing, Adoption, Holding, Writes, Pruning, Burying, Forgetting
<1>14. pc'[p] # "newlock" BY <1>3
<1> QED BY <1>1, <1>3, <1>4, <1>5, <1>10, <1>11, <1>13, <1>14, StepRetains

\* Whatever Run, Resume and Status do beside prune and forget.
LEMMA AdoptingKeeps == ASSUME RInv, NEW p \in Proc, Adopting(p), Remember PROVE RInv'
<1>1. CASE StartRun(p)
  <2>1. [mode |-> "run", repeat |-> FALSE, ack |-> TRUE] \in Choices BY DEF Choices, Modes
  <2> QED BY <1>1, <2>1, StartRetains DEF StartRun
<1>2. CASE StartResume(p)
  <2>1. PICK repeat \in BOOLEAN, ack \in BOOLEAN :
          Start(p, [mode |-> "resume", repeat |-> repeat, ack |-> ack], "open")
    BY <1>2 DEF StartResume
  <2>2. [mode |-> "resume", repeat |-> repeat, ack |-> ack] \in Choices BY DEF Choices, Modes
  <2> QED BY <2>1, <2>2, StartRetains
<1>3. CASE StartStatus(p)
  <2>1. [NoOptions EXCEPT !.mode = "status"] \in Choices BY DEF NoOptions, Choices, Modes
  <2> QED BY <1>3, <2>1, StartRetains DEF StartStatus
<1> QED BY <1>1, <1>2, <1>3, RunSurveysRetains, MakeRootRetains, MakeLockRetains, MakeScratchRetains,
           StageMarkerRetains, FillMarkerRetains, CommitMarkerRetains, ConfirmMarkerRetains, OpenJournalRetains, LoadingKeeps, ResumeKeeps,
           AppendAttemptRetains, SendAddRetains, LoseReplyKeeps, FinalizeObservedRetains
        DEF Adopting

LEMMA AbortKeeps == ASSUME RInv, NEW p \in Proc, Abort(p), Remember PROVE RInv'
BY EndRetains DEF Abort, Outcomes

-----------------------------------------------------------------------------
(* The tombstone.                                                          *)

\* A step that changes only the tombstone of a journal.
LEMMA TombFields ==
  ASSUME NEW j \in RetainedJournals, NEW t \in Tombs, NEW d, d = [j EXCEPT !.tomb = t]
  PROVE  /\ d \in RetainedJournals /\ d.tomb = t /\ d.root = j.root /\ d.gen = j.gen /\ d.erasing = j.erasing
         /\ d.done = j.done /\ Legacy(d) = Legacy(j) /\ Terminal(d) = Terminal(j)
<1>1. /\ d \in RetainedJournals /\ d.tomb = t /\ d.root = j.root /\ d.gen = j.gen /\ d.erasing = j.erasing
      /\ d.done = j.done /\ d.scratch = j.scratch /\ d.intent = j.intent /\ d.attempts = j.attempts
      /\ d.pending = j.pending
  BY DEF RetainedJournals
<1> QED BY <1>1 DEF Legacy, HasMarkers, Terminal, ChainAgrees

\* A lock holder of prune or forget writes and goes on.
LEMMA TombKeeps ==
  ASSUME RInv, NEW p \in Proc, pc[p] \in RetentionHolding, NEW step \in RetentionHolding, Goto(p, step),
         UNCHANGED <<lock, marker>>, Remember, Grows,
         disk' \in surviving', \A j \in surviving' : Legible(j) /\ Keeps(j, adopted'),
         disk'.root = "locked" \/ (disk'.root = "bare" /\ step = "erase"),
         Retiring(p)', Erasing(p)'
  PROVE  RInv'
<1>1. step \in Points \ {"idle"} /\ lock' \in Proc \cup {Nobody}
  BY DEF Points, RetentionHolding, RInv, CallTypes
<1>2. Others(p) /\ CallTypes' /\ History /\ pc'[p] = step /\ named'[p] = named[p]
  BY <1>1, GotoShape
<1>3. Named(p) /\ named[p] \in Nat BY MaxIncarnationsAssumption DEF RInv, Advances, CallTypes
<1>4. disk'.gen \in Nat BY MaxIncarnationsAssumption DEF Legible, RetainedJournals
<1>5. Named(p)' BY <1>2, <1>3, <1>4, Visible DEF Named, Grows
<1>6. Sends(p)' BY <1>2 DEF Sends, RetentionHolding, Adoption, Holding, Writes
<1>7. pc[p] \in Owning /\ pc'[p] \in Owning BY <1>2 DEF Owning
<1> QED BY <1>2, <1>5, <1>6, <1>7, HolderRetains DEF Advances

\* What a lock holder of prune or forget knows.
LEMMA Holder ==
  ASSUME RInv, NEW p \in Proc, pc[p] \in RetentionHolding
  PROVE  /\ lock = p /\ Retiring(p) /\ Erasing(p) /\ Sends(p)
         /\ disk.root = "locked" \/ (disk.root = "bare" /\ pc[p] = "erase")
         /\ disk.tomb \in Tombs /\ opts[p] \in Choices
         /\ disk.tomb.pending # "none" => disk.tomb.dir
         /\ disk.tomb.intent => disk.tomb.dir
<1>1. pc[p] \in Owning BY DEF Owning
<1>2. disk.tomb \in Tombs /\ (~disk.tomb.dir => disk.tomb = NoTomb) BY Visible DEF Legible, RetainedJournals
<1> QED BY <1>1, <1>2 DEF RInv, Excludes, Advances, CallTypes, NoTomb

LEMMA StageTombKeeps == ASSUME RInv, NEW p \in Proc, StageTomb(p), Remember PROVE RInv'
<1>1. pc[p] = "tomb" /\ pc[p] \in RetentionHolding /\ pc[p] \in Burying
  BY DEF StageTomb, RetentionHolding, Burying
<1>2. opts[p].mode \in RetentionModes /\ TombTarget(p) \in {"intent", "complete", "forget"}
  BY <1>1, Holder DEF Retiring, TombTarget
<1>3. CASE ~disk.tomb.dir /\ Tomb(p, "tomb", [disk EXCEPT !.tomb.dir = TRUE])
  <2> DEFINE t == [disk.tomb EXCEPT !.dir = TRUE]
  <2>1. /\ disk' = [disk EXCEPT !.tomb = t] /\ surviving' = {disk, disk'} /\ Goto(p, "tomb")
        /\ UNCHANGED <<lock, marker>>
    BY <1>3 DEF Tomb, SyncThenWrite
  <2>2. disk.tomb = NoTomb BY <1>3, Visible DEF Legible
  <2>3. t \in Tombs /\ ~t.complete /\ ~t.intent /\ t.pending = "none" /\ t.dir
    <3>1. ~disk.tomb.complete /\ ~disk.tomb.intent /\ disk.tomb.pending = "none" BY <2>2 DEF NoTomb
    <3>2. disk.tomb \in Tombs BY Visible DEF RetainedJournals
    <3> QED BY <3>1, <3>2 DEF Tombs
  <2> HIDE DEF t
  <2>4. /\ disk' \in RetainedJournals /\ disk'.tomb = t /\ disk'.root = disk.root /\ disk'.gen = disk.gen
        /\ disk'.erasing = disk.erasing /\ disk'.done = disk.done
        /\ Legacy(disk') = Legacy(disk) /\ Terminal(disk') = Terminal(disk)
    BY <2>1, <2>3, Visible, TombFields
  <2>5. opts[p].mode = "prune" /\ Terminal(disk) /\ disk.root = "locked"
    BY <1>1, <1>2, <2>2, Holder DEF Retiring, Erasing, NoTomb, RetentionModes
  <2>6. Legible(disk') BY <2>3, <2>4, <2>5, Visible DEF Legible, Orderly
  <2>7. History /\ opts' = opts /\ pc'[p] = "tomb"
    BY <2>1 DEF Remember, Goto, RInv, CallTypes
  <2>8. Keeps(disk, adopted') BY <2>7, Recalls, Visible
  <2>9. Keeps(disk', adopted') BY <2>2, <2>4, <2>8 DEF Keeps, Evidence, NoTomb
  <2>10. \A j \in surviving' : Legible(j) /\ Keeps(j, adopted')
    BY <2>1, <2>6, <2>7, <2>9, Visible, ImagesKeep
  <2>11. Grows BY <2>4, Visible DEF Grows
  <2>12. Retiring(p)' /\ Erasing(p)'
    BY <2>3, <2>4, <2>5, <2>7 DEF Retiring, Erasing, Pruning, Burying, Forgetting, RetentionModes
  <2> QED BY <1>1, <2>1, <2>4, <2>5, <2>10, <2>11, <2>12, TombKeeps DEF RetentionHolding
<1>4. CASE /\ disk.tomb.dir /\ disk.tomb.pending = "none"
           /\ Tomb(p, "tomb_fill", [disk EXCEPT !.tomb.pending = TombTarget(p), !.tomb.whole = FALSE])
  <2> DEFINE t == [disk.tomb EXCEPT !.pending = TombTarget(p), !.whole = FALSE]
  <2>1. /\ disk' = [disk EXCEPT !.tomb.pending = TombTarget(p), !.tomb.whole = FALSE]
        /\ surviving' = {disk, disk'} /\ Goto(p, "tomb_fill") /\ UNCHANGED <<lock, marker>>
    BY <1>4 DEF Tomb, SyncThenWrite
  <2>2. disk' = [disk EXCEPT !.tomb = t] BY <2>1, Visible DEF RetainedJournals, Tombs
  <2>3. /\ t \in Tombs /\ t.complete = disk.tomb.complete /\ t.intent = disk.tomb.intent
        /\ t.pending = TombTarget(p) /\ t.dir
    BY <1>1, <1>2, <1>4, Holder DEF Tombs, TombMarkers
  <2> HIDE DEF t
  <2>4. /\ disk' \in RetainedJournals /\ disk'.tomb = t /\ disk'.root = disk.root /\ disk'.gen = disk.gen
        /\ disk'.erasing = disk.erasing /\ disk'.done = disk.done
        /\ Legacy(disk') = Legacy(disk) /\ Terminal(disk') = Terminal(disk)
    BY <2>2, <2>3, Visible, TombFields
  <2>5. disk.root = "locked" /\ Retiring(p) /\ Erasing(p) BY <1>1, Holder
  <2>6. TombTarget(p) = "complete" => disk.tomb.intent BY <1>2, <2>5 DEF TombTarget
  <2>7. TombTarget(p) = "forget" => disk.tomb.complete
    BY <1>1, <1>2, <2>5 DEF TombTarget, Erasing
  <2>8. Legible(disk') BY <1>4, <2>3, <2>4, <2>5, <2>6, <2>7, Visible DEF Legible, Orderly
  <2>9. History /\ opts' = opts /\ pc'[p] = "tomb_fill" /\ named'[p] = named[p]
    BY <2>1 DEF Remember, Goto, RInv, CallTypes
  <2>10. Keeps(disk, adopted') BY <2>9, Recalls, Visible
  <2>11. Keeps(disk', adopted') BY <2>3, <2>4, <2>10 DEF Keeps, Evidence
  <2>12. \A j \in surviving' : Legible(j) /\ Keeps(j, adopted')
    BY <2>1, <2>8, <2>9, <2>11, Visible, ImagesKeep
  <2>13. Grows BY <2>4, Visible DEF Grows
  <2>14. TombTarget(p)' = TombTarget(p) BY <2>3, <2>4, <2>9 DEF TombTarget
  <2>15. Retiring(p)' /\ Erasing(p)'
    BY <1>1, <1>2, <2>3, <2>4, <2>5, <2>9, <2>14 DEF Retiring, Erasing, Pruning, Burying, Forgetting
  <2> QED BY <1>1, <2>1, <2>4, <2>5, <2>12, <2>13, <2>15, TombKeeps DEF RetentionHolding
<1>5. CASE disk.tomb.dir /\ disk.tomb.pending = TombTarget(p) /\ Step(p, "tomb_commit")
  <2>1. Goto(p, "tomb_commit") /\ UNCHANGED <<disk, surviving, lock, marker>> BY <1>5 DEF Step
  <2>2. "tomb_commit" \in Points \ {"idle", "newlock"} /\ pc[p] \in Owning \ {"erase"}
    BY <1>1 DEF Points, RetentionHolding, Owning
  <2>3. pc'[p] = "tomb_commit" /\ opts'[p] = opts[p] /\ named'[p] = named[p] /\ disk' = disk
          => Sends(p)' /\ Retiring(p)' /\ Erasing(p)'
    BY <1>1, <1>2, <1>5, Holder
       DEF Sends, Retiring, Erasing, TombTarget, Adoption, Holding, Writes, Pruning, Burying, Forgetting
  <2> QED BY <2>1, <2>2, <2>3, Visible, GotoKeeps
<1> QED BY <1>3, <1>4, <1>5 DEF StageTomb

\* The bytes of a staged marker of the tombstone are whole wherever it is found.
LEMMA FillsTomb ==
  ASSUME NEW j, NEW A, Legible(j), Keeps(j, A), NEW d, d = [j EXCEPT !.tomb.whole = (j.tomb.pending # "none")]
  PROVE  /\ Legible(d) /\ Keeps(d, A) /\ d.root = j.root /\ d.gen = j.gen /\ d.erasing = j.erasing
         /\ Legacy(d) = Legacy(j) /\ Terminal(d) = Terminal(j)
         /\ d.tomb.dir = j.tomb.dir /\ d.tomb.intent = j.tomb.intent /\ d.tomb.complete = j.tomb.complete
         /\ d.tomb.pending = j.tomb.pending
<1> DEFINE t == [j.tomb EXCEPT !.whole = (j.tomb.pending # "none")]
<1>1. j \in RetainedJournals /\ j.tomb \in Tombs BY DEF Legible, RetainedJournals
<1>2. /\ t \in Tombs /\ t.dir = j.tomb.dir /\ t.intent = j.tomb.intent /\ t.complete = j.tomb.complete
      /\ t.pending = j.tomb.pending /\ (t.whole <=> j.tomb.pending # "none")
  BY <1>1 DEF Tombs
<1>3. d = [j EXCEPT !.tomb = t] BY <1>1 DEF RetainedJournals
<1> HIDE DEF t
<1>4. ASSUME j.tomb = NoTomb PROVE t = NoTomb
  <2>1. ~t.dir /\ ~t.intent /\ ~t.complete /\ t.pending = "none" /\ ~t.whole
    BY <1>2, <1>4 DEF NoTomb
  <2> QED BY <1>2, <2>1 DEF Tombs, NoTomb
<1>5. /\ d \in RetainedJournals /\ d.tomb = t /\ d.root = j.root /\ d.gen = j.gen /\ d.erasing = j.erasing
      /\ d.done = j.done /\ Legacy(d) = Legacy(j) /\ Terminal(d) = Terminal(j)
  <2>1. j \in RetainedJournals /\ t \in Tombs /\ d = [j EXCEPT !.tomb = t] BY <1>1, <1>2, <1>3
  <2> QED BY <2>1, TombFields
<1>6. Legible(d) BY <1>2, <1>4, <1>5 DEF Legible, Orderly
<1>7. Keeps(d, A) BY <1>2, <1>5 DEF Keeps, Evidence
<1> QED BY <1>2, <1>5, <1>6, <1>7

LEMMA FillTombKeeps == ASSUME RInv, NEW p \in Proc, FillTomb(p), Remember PROVE RInv'
<1> DEFINE filled(j) == [j EXCEPT !.tomb.whole = (j.tomb.pending # "none")]
<1>1. /\ pc[p] = "tomb_fill" /\ disk' = filled(disk) /\ surviving' = {filled(j) : j \in surviving}
      /\ Goto(p, "tomb_commit") /\ UNCHANGED <<lock, marker>>
  BY DEF FillTomb
<1>2. pc[p] \in RetentionHolding /\ pc[p] \in Burying BY <1>1 DEF RetentionHolding, Burying
<1>3. History /\ opts' = opts /\ pc'[p] = "tomb_commit" /\ named'[p] = named[p]
  BY <1>1 DEF Remember, Goto, RInv, CallTypes
<1>4. \A j \in surviving : Legible(j) /\ Keeps(j, adopted') BY <1>3, Recalls DEF RInv
<1>5. \A j \in surviving : Legible(filled(j)) /\ Keeps(filled(j), adopted')
  BY <1>4, FillsTomb
<1>6. \A j \in surviving' : Legible(j) /\ Keeps(j, adopted') BY <1>1, <1>5
<1>7. /\ disk'.root = disk.root /\ disk'.gen = disk.gen /\ disk'.erasing = disk.erasing
      /\ Legacy(disk') = Legacy(disk) /\ Terminal(disk') = Terminal(disk)
      /\ disk'.tomb.dir = disk.tomb.dir /\ disk'.tomb.intent = disk.tomb.intent
      /\ disk'.tomb.complete = disk.tomb.complete /\ disk'.tomb.pending = disk.tomb.pending
  BY <1>1, <1>4, Visible, FillsTomb
<1>8. disk' \in surviving' BY <1>1, Visible
<1> HIDE DEF filled
<1>9. Grows BY <1>7, Visible DEF Grows
<1>10. disk.root = "locked" /\ Retiring(p) /\ Erasing(p) BY <1>1, <1>2, Holder
<1>11. TombTarget(p)' = TombTarget(p) BY <1>3, <1>7 DEF TombTarget
<1>12. Retiring(p)' /\ Erasing(p)'
  BY <1>1, <1>2, <1>3, <1>7, <1>10, <1>11 DEF Retiring, Erasing, Pruning, Burying, Forgetting
<1> QED BY <1>1, <1>2, <1>6, <1>7, <1>8, <1>9, <1>10, <1>12, TombKeeps DEF RetentionHolding

\* A marker reaches its name: the copy of the chain, the seal on what is left of
\* it, or the forget marker of this very directory.
LEMMA CommitTombKeeps == ASSUME RInv, NEW p \in Proc, CommitTomb(p), Remember PROVE RInv'
<1>1. pc[p] = "tomb_commit" /\ pc[p] \in RetentionHolding /\ pc[p] \in Burying
  BY DEF CommitTomb, RetentionHolding, Burying
<1>2. CASE End(p, "stopped")
  BY <1>2, EndRetains DEF End, Outcomes
<1>3. CASE /\ ~(disk.tomb.pending = "forget" /\ disk.erasing # 0)
           /\ Write(Buried(disk))
           /\ Goto(p, "tomb_confirm") /\ UNCHANGED <<lock, marker>>
  <2>1. disk' = Buried(disk) /\ surviving' = surviving \cup {disk'}
    BY <1>3 DEF Write
  <2>2. /\ disk.root = "locked" /\ opts[p].mode \in RetentionModes /\ disk.tomb.dir
        /\ disk.tomb.pending = TombTarget(p) /\ Retiring(p) /\ Erasing(p) /\ disk.tomb \in Tombs
    BY <1>1, Holder DEF Retiring
  <2>3. History /\ opts' = opts /\ pc'[p] = "tomb_confirm" /\ named'[p] = named[p]
    BY <1>3 DEF Remember, Goto, RInv, CallTypes
  <2>4. Keeps(disk, adopted') BY <2>3, Recalls, Visible
  <2>5. ASSUME disk'.root = disk.root, disk'.gen = disk.gen, Legible(disk'), Evidence(disk'),
               disk'.erasing \in {disk.erasing, disk.gen},
               opts[p].mode = "prune" => disk'.tomb.intent,
               opts[p].mode = "forget" => disk'.erasing = disk'.gen /\ named[p] # 0
        PROVE  RInv'
    <3>1. Keeps(disk', adopted') BY <2>2, <2>4, <2>5 DEF Keeps
    <3>2. \A j \in surviving' : Legible(j) /\ Keeps(j, adopted') BY <2>1, <2>3, <2>5, <3>1, ImagesKeep
    <3>3. Grows BY <2>5, Visible DEF Grows
    <3>4. Retiring(p)' /\ Erasing(p)'
      BY <2>2, <2>3, <2>5 DEF Retiring, Erasing, Pruning, Burying, Forgetting
    <3>5. disk' \in surviving' /\ disk'.root = "locked" BY <2>1, <2>2, <2>5
    <3> QED BY <1>1, <1>3, <3>2, <3>3, <3>4, <3>5, TombKeeps DEF RetentionHolding
  <2>6. CASE opts[p].mode = "prune" /\ ~disk.tomb.intent
    <3> DEFINE t == [NoTomb EXCEPT !.dir = TRUE, !.intent = TRUE]
    <3>1. disk' = [disk EXCEPT !.tomb = t] BY <2>1, <2>2, <2>6 DEF TombTarget, Buried
    <3>2. t \in Tombs /\ t.dir /\ t.intent /\ ~t.complete /\ t.pending = "none"
      BY Constants DEF Tombs, NoTomb, TombMarkers
    <3> HIDE DEF t
    <3>3. /\ disk' \in RetainedJournals /\ disk'.tomb = t /\ disk'.root = disk.root /\ disk'.gen = disk.gen
          /\ disk'.erasing = disk.erasing
      BY <3>1, <3>2, Visible, TombFields
    <3>4. Legible(disk') BY <2>2, <3>2, <3>3, Visible DEF Legible, Orderly
    <3> QED BY <2>5, <2>6, <3>2, <3>3, <3>4 DEF Evidence
  <2>7. CASE opts[p].mode = "prune" /\ disk.tomb.intent
    <3> DEFINE t == [NoTomb EXCEPT !.dir = TRUE, !.intent = TRUE, !.complete = TRUE]
    <3>1. disk' = [disk EXCEPT !.tomb = t] BY <2>1, <2>2, <2>7 DEF TombTarget, Buried
    <3>2. t \in Tombs /\ t.dir /\ t.intent /\ t.pending = "none"
      BY Constants DEF Tombs, NoTomb, TombMarkers
    <3> HIDE DEF t
    <3>3. /\ disk' \in RetainedJournals /\ disk'.tomb = t /\ disk'.root = disk.root /\ disk'.gen = disk.gen
          /\ disk'.erasing = disk.erasing /\ Legacy(disk') = Legacy(disk)
      BY <3>1, <3>2, Visible, TombFields
    <3>4. ~Legacy(disk) BY <1>1, <2>2, <2>7 DEF Retiring
    <3>5. Legible(disk') BY <2>2, <3>2, <3>3, <3>4, Visible DEF Legible, Orderly
    <3> QED BY <2>5, <2>7, <3>2, <3>3, <3>5 DEF Evidence
  <2>8. CASE opts[p].mode = "forget"
    <3>1. disk' = [disk EXCEPT !.tomb.pending = "none", !.tomb.whole = FALSE, !.erasing = disk.gen]
      BY <2>1, <2>2, <2>8 DEF TombTarget, Buried
    <3>2. /\ disk'.root = disk.root /\ disk'.gen = disk.gen /\ disk'.erasing = disk.gen /\ disk'.tomb.dir
          /\ disk.gen \in 0..MaxIncarnations
      <4>1. /\ disk'.root = disk.root /\ disk'.gen = disk.gen /\ disk'.erasing = disk.gen
            /\ disk'.tomb.dir = disk.tomb.dir
        BY <2>2, <3>1, Visible DEF RetainedJournals, Tombs
      <4>2. disk.gen \in Incarnations BY <2>2, Visible DEF Legible
      <4> QED BY <2>2, <4>1, <4>2, MaxIncarnationsAssumption DEF Incarnations
    <3>3. disk' \in RetainedJournals
      BY <2>2, <3>1, <3>2, Visible DEF RetainedJournals, Tombs, TombMarkers
    <3>4. Legible(disk') BY <2>2, <3>2, <3>3, Visible DEF Legible
    <3>5. named[p] # 0 BY <1>1, <2>2, <2>8 DEF Erasing
    <3> QED BY <2>5, <2>8, <3>2, <3>4, <3>5 DEF Evidence
  <2> QED BY <2>2, <2>6, <2>7, <2>8 DEF RetentionModes
<1> QED BY <1>2, <1>3 DEF CommitTomb

LEMMA ConfirmTombKeeps == ASSUME RInv, NEW p \in Proc, ConfirmTomb(p), Remember PROVE RInv'
<1>1. pc[p] = "tomb_confirm" /\ pc[p] \in RetentionHolding /\ pc[p] \in Owning \ {"erase"}
  BY DEF ConfirmTomb, RetentionHolding, Owning
<1>2. Retiring(p) /\ Erasing(p) BY <1>1, Holder
<1>3. CASE opts[p].mode = "prune" /\ disk.tomb.complete /\ Sync /\ Return(p, "pruned")
  BY <1>3, Visible, ReturnRetains DEF Sync, Endings
<1>4. ASSUME NEW step \in {"erase", "strip"}, SyncStep(p, step),
             step = "erase" => opts[p].mode = "forget", step = "strip" => opts[p].mode = "prune"
      PROVE  RInv'
  <2>1. /\ Goto(p, step) /\ UNCHANGED <<lock, marker>> /\ disk' = disk /\ surviving' = {disk}
    BY <1>4 DEF SyncStep, Sync
  <2>2. step \in Points \ {"idle", "newlock"} BY DEF Points, RetentionHolding
  <2>3. pc'[p] = step /\ opts'[p] = opts[p] /\ named'[p] = named[p] /\ disk' = disk
          => Sends(p)' /\ Retiring(p)' /\ Erasing(p)'
    BY <1>1, <1>2, <1>4 DEF Sends, Retiring, Erasing, Adoption, Holding, Writes, Pruning, Burying, Forgetting
  <2> QED BY <1>1, <2>1, <2>2, <2>3, Visible, GotoKeeps
<1> QED BY <1>3, <1>4 DEF ConfirmTomb

\* Opening a locked directory, or the end where there is none.
LEMMA AcquireKeeps ==
  ASSUME RInv, NEW p \in Proc, NEW step \in {"prune_load", "forget_load", "erase"}, Acquire(p, step), Remember,
         step = "prune_load" => opts[p].mode = "prune", step = "forget_load" => opts[p].mode = "forget",
         step = "erase" => disk.erasing = disk.gen /\ named[p] # 0
  PROVE  RInv'
<1>1. CASE End(p, "stopped")
  BY <1>1, EndRetains DEF End, Outcomes
<1>2. CASE /\ disk.root = "locked" /\ lock = Nobody
           /\ lock' = p /\ Goto(p, step) /\ UNCHANGED <<disk, surviving, marker>>
  <2>1. step \in Points \ {"idle", "newlock"} BY DEF Points, RetentionHolding
  <2>2. pc'[p] = step /\ opts'[p] = opts[p] /\ named'[p] = named[p] /\ disk' = disk
          => Sends(p)' /\ Retiring(p)' /\ Erasing(p)'
    BY DEF Sends, Retiring, Erasing, Adoption, Holding, Writes, Pruning, Burying, Forgetting
  <2> QED BY <1>2, <2>1, <2>2, Visible, GotoKeeps
<1> QED BY <1>1, <1>2 DEF Acquire

\* A step that at most syncs what a lock holder, or a forget without the lock,
\* has read.
LEMMA SyncStepKeeps ==
  ASSUME RInv, NEW p \in Proc, NEW step \in Points \ {"idle", "newlock"},
         SyncStep(p, step) \/ Step(p, step), Remember, step \in Owning => pc[p] \in Owning \ {"erase"},
         pc'[p] = step /\ opts'[p] = opts[p] /\ named'[p] = named[p] /\ disk' = disk
           => Sends(p)' /\ Retiring(p)' /\ Erasing(p)'
  PROVE  RInv'
<1>1. /\ Goto(p, step) /\ UNCHANGED <<lock, marker>> /\ disk' = disk
      /\ disk \in surviving' /\ surviving' \subseteq surviving
  BY Visible DEF SyncStep, Step, Sync
<1> QED BY <1>1, GotoKeeps

-----------------------------------------------------------------------------
(* Prune.                                                                  *)

LEMMA StartPruneKeeps == ASSUME RInv, NEW p \in Proc, StartPrune(p), Remember PROVE RInv'
<1>1. RetentionOptions("prune") \in Choices /\ RetentionOptions("prune").mode = "prune"
  BY DEF RetentionOptions, Choices, RetentionModes
<1> QED BY <1>1, StartRetains DEF StartPrune

LEMMA PruneOpensKeeps == ASSUME RInv, NEW p \in Proc, PruneOpens(p), Remember PROVE RInv'
<1>1. opts[p].mode = "prune" BY DEF PruneOpens, RInv, Advances, Retiring, Pruning
<1> QED BY <1>1, AcquireKeeps DEF PruneOpens

LEMMA PruneLoadsKeeps == ASSUME RInv, NEW p \in Proc, PruneLoads(p), Remember PROVE RInv'
<1>1. pc[p] = "prune_load" /\ pc[p] \in Owning \ {"erase"} /\ opts[p].mode = "prune"
  BY DEF PruneLoads, RInv, Advances, Retiring, Pruning, Owning, RetentionHolding
<1>2. CASE End(p, "stopped")
  BY <1>2, EndRetains DEF End, Outcomes
<1>3. CASE Prunable(disk) /\ ~disk.tomb.intent /\ SyncStep(p, "tomb")
  <2>1. "tomb" \in Points \ {"idle", "newlock"} BY DEF Points, RetentionHolding
  <2>2. Terminal(disk) BY <1>3 DEF Prunable
  <2>3. pc'[p] = "tomb" /\ opts'[p] = opts[p] /\ named'[p] = named[p] /\ disk' = disk
          => Sends(p)' /\ Retiring(p)' /\ Erasing(p)'
    BY <1>1, <1>3, <2>2
       DEF Sends, Retiring, Erasing, Adoption, Holding, Writes, Pruning, Burying, Forgetting, RetentionModes
  <2> QED BY <1>1, <1>3, <2>1, <2>3, SyncStepKeeps
<1>4. CASE disk.tomb.intent /\ SyncStep(p, "strip")
  <2>1. "strip" \in Points \ {"idle", "newlock"} BY DEF Points, RetentionHolding
  <2>2. pc'[p] = "strip" /\ opts'[p] = opts[p] /\ named'[p] = named[p] /\ disk' = disk
          => Sends(p)' /\ Retiring(p)' /\ Erasing(p)'
    BY <1>1, <1>4
       DEF Sends, Retiring, Erasing, Adoption, Holding, Writes, Pruning, Burying, Forgetting
  <2> QED BY <1>1, <1>4, <2>1, <2>2, SyncStepKeeps
<1>5. CASE Sync /\ Return(p, "pruned")
  BY <1>5, Visible, ReturnRetains DEF Sync, Endings
<1> QED BY <1>2, <1>3, <1>4, <1>5 DEF PruneLoads

\* The removals of prune take nothing but the journal's own objects.
LEMMA Strips ==
  ASSUME NEW j \in RetainedJournals, Legacy(j), NEW d, d = Stripped(j)
  PROVE  /\ d \in RetainedJournals /\ d.tomb = j.tomb /\ d.root = j.root /\ d.gen = j.gen
         /\ d.erasing = j.erasing
<1>1. j.attempts \in Nat /\ (j.attempts > 0 => j.attempts - 1 \in AttemptCounts) /\ 0 \in AttemptCounts
  BY MaxAttemptsAssumption DEF RetainedJournals, AttemptCounts
<1>2. CASE j.done # 0 BY <1>1, <1>2 DEF Stripped, RetainedJournals
<1>3. CASE j.done = 0 /\ j.attempts > 0 BY <1>1, <1>3 DEF Stripped, RetainedJournals
<1>4. CASE j.done = 0 /\ ~(j.attempts > 0) /\ j.intent
  <2>1. j.attempts = 0 BY <1>1, <1>4 DEF RetainedJournals, AttemptCounts
  <2> QED BY <1>4, <2>1 DEF Stripped, RetainedJournals
<1>5. CASE j.done = 0 /\ ~(j.attempts > 0) /\ ~j.intent
  <2>1. d = [j EXCEPT !.scratch = FALSE] BY <1>5 DEF Stripped
  <2> QED BY <2>1 DEF RetainedJournals
<1> QED BY <1>2, <1>3, <1>4, <1>5

LEMMA StripKeeps == ASSUME RInv, NEW p \in Proc, Strip(p), Remember PROVE RInv'
<1>1. /\ pc[p] = "strip" /\ pc[p] \in RetentionHolding /\ pc[p] \in Owning \ {"erase"}
      /\ opts[p].mode = "prune" /\ disk.tomb.intent /\ disk.tomb.dir /\ disk.root = "locked"
  <2>1. pc[p] = "strip" /\ pc[p] \in RetentionHolding BY DEF Strip, RetentionHolding
  <2> QED BY <2>1, Holder DEF Retiring, Pruning, Owning
<1>2. CASE Legacy(disk) /\ Tomb(p, "strip", Stripped(disk))
  <2>1. disk' = Stripped(disk) /\ surviving' = {disk, disk'} /\ Goto(p, "strip") /\ UNCHANGED <<lock, marker>>
    BY <1>2 DEF Tomb, SyncThenWrite
  <2>2. /\ disk' \in RetainedJournals /\ disk'.tomb = disk.tomb /\ disk'.root = disk.root /\ disk'.gen = disk.gen
        /\ disk'.erasing = disk.erasing
    BY <1>2, <2>1, Visible, Strips
  <2>3. Legible(disk') BY <1>1, <1>2, <2>2, Visible DEF Legible, Orderly
  <2>4. History /\ opts' = opts /\ pc'[p] = "strip"
    BY <2>1 DEF Remember, Goto, RInv, CallTypes
  <2>5. Keeps(disk, adopted') BY <2>4, Recalls, Visible
  <2>6. Keeps(disk', adopted') BY <1>1, <2>2, <2>5 DEF Keeps, Evidence
  <2>7. \A j \in surviving' : Legible(j) /\ Keeps(j, adopted')
    BY <2>1, <2>3, <2>4, <2>6, Visible, ImagesKeep
  <2>8. Grows BY <2>2, Visible DEF Grows
  <2>9. Retiring(p)' /\ Erasing(p)'
    BY <1>1, <2>2, <2>4 DEF Retiring, Erasing, Pruning, Burying, Forgetting
  <2>10. "strip" \in RetentionHolding BY DEF RetentionHolding
  <2>11. disk' \in surviving' /\ disk'.root = "locked" BY <1>1, <2>1, <2>2
  <2> QED BY <1>1, <2>1, <2>7, <2>8, <2>9, <2>10, <2>11, TombKeeps
<1>3. CASE ~Legacy(disk) /\ SyncStep(p, "tomb")
  <2>1. "tomb" \in Points \ {"idle", "newlock"} BY DEF Points, RetentionHolding
  <2>2. pc'[p] = "tomb" /\ opts'[p] = opts[p] /\ named'[p] = named[p] /\ disk' = disk
          => Sends(p)' /\ Retiring(p)' /\ Erasing(p)'
    BY <1>1, <1>3
       DEF Sends, Retiring, Erasing, Adoption, Holding, Writes, Pruning, Burying, Forgetting, RetentionModes
  <2> QED BY <1>1, <1>3, <2>1, <2>2, SyncStepKeeps
<1> QED BY <1>2, <1>3 DEF Strip

-----------------------------------------------------------------------------
(* Forget.                                                                 *)

LEMMA StartForgetKeeps == ASSUME RInv, NEW p \in Proc, StartForget(p), Remember PROVE RInv'
<1>1. RetentionOptions("forget") \in Choices /\ RetentionOptions("forget").mode = "forget"
  BY DEF RetentionOptions, Choices, RetentionModes
<1> QED BY <1>1, StartRetains DEF StartForget

\* A forget takes the name of the directory it is to erase.
LEMMA NamingKeeps ==
  ASSUME RInv, NEW p \in Proc, NEW step \in {"forget_open", "erase_open", "tomb", "erase"}, Goto(p, step),
         UNCHANGED <<lock, marker>>, History,
         NEW g \in 0..MaxIncarnations, Names(p, g) \/ (g = named[p] /\ UNCHANGED named),
         disk' = disk, disk \in surviving', surviving' \subseteq surviving,
         g \in {named[p], disk.erasing} \/ pc[p] \in Owning,
         step \in Owning => pc[p] \in Owning \ {"erase"},
         g # 0 => g < disk.gen \/ (g = disk.gen /\ disk.root # "none"),
         pc'[p] = step /\ opts'[p] = opts[p] /\ named'[p] = g /\ disk' = disk
           => Retiring(p)' /\ Erasing(p)'
  PROVE  RInv'
<1>1. /\ pc' = [pc EXCEPT ![p] = step] /\ opts' = opts /\ known' = known /\ marker' = marker
      /\ outcome' = outcome
  BY DEF Goto
<1>2. pc' \in [Proc -> Points] /\ pc'[p] = step /\ \A q \in Proc \ {p} : pc'[q] = pc[q]
  BY <1>1 DEF RInv, CallTypes, Points, RetentionUnlocked, RetentionHolding
<1>3. /\ named' \in [Proc -> 0..MaxIncarnations] /\ named'[p] = g
      /\ \A q \in Proc \ {p} : named'[q] = named[q]
  BY Names0 DEF RInv, CallTypes
<1>4. adopted' \subseteq Incarnations BY Recalls
<1>5. Others(p) /\ CallTypes'
  BY <1>1, <1>2, <1>3, <1>4 DEF Others, CallTypes, Points, RInv
<1>6. Named(p)' BY <1>3 DEF Named
<1>7. Sends(p)' BY <1>2 DEF Sends, Adoption, Holding, Writes
<1>8. Advances(p)' BY <1>1, <1>2, <1>3, <1>6, <1>7 DEF Advances
<1> QED BY <1>2, <1>3, <1>5, <1>8, QuietKeeps

LEMMA ForgetReadsKeeps == ASSUME RInv, NEW p \in Proc, ForgetReads(p), History PROVE RInv'
<1>1. pc[p] = "forget_read" /\ opts[p].mode = "forget" /\ named[p] \in 0..MaxIncarnations /\ Named(p)
  BY DEF ForgetReads, RInv, Advances, Erasing, Forgetting, CallTypes
<1>2. "forget_open" \notin Owning /\ "erase_open" \notin Owning BY DEF Owning, Holding, RetentionHolding
<1>3. CASE Step(p, "forget_open") /\ UNCHANGED named
  <2>1. pc'[p] = "forget_open" /\ opts'[p] = opts[p] /\ named'[p] = named[p] /\ disk' = disk
          => Retiring(p)' /\ Erasing(p)'
    BY <1>1 DEF Retiring, Erasing, Pruning, Burying, Forgetting
  <2>2. named[p] # 0 => named[p] < disk.gen \/ (named[p] = disk.gen /\ disk.root # "none")
    BY <1>1 DEF Named
  <2> QED BY <1>1, <1>2, <1>3, <2>1, <2>2, Visible, NamingKeeps DEF Step
<1>4. CASE disk.erasing # 0 /\ SyncStep(p, "erase_open") /\ Names(p, disk.erasing)
  <2>1. pc'[p] = "erase_open" /\ opts'[p] = opts[p] /\ named'[p] = disk.erasing /\ disk' = disk
          => Retiring(p)' /\ Erasing(p)'
    BY <1>4 DEF Retiring, Erasing, Pruning, Burying, Forgetting
  <2>2. disk.erasing \in 0..MaxIncarnations BY Visible DEF RetainedJournals
  <2>3. disk.erasing < disk.gen \/ (disk.erasing = disk.gen /\ disk.root # "none")
    BY <1>4, Visible DEF Legible
  <2>4. /\ disk' = disk /\ surviving' = {disk} /\ Goto(p, "erase_open") /\ UNCHANGED <<lock, marker>>
    BY <1>4 DEF SyncStep, Sync
  <2> QED BY <1>1, <1>2, <1>4, <2>1, <2>2, <2>3, <2>4, Visible, NamingKeeps
<1> QED BY <1>3, <1>4 DEF ForgetReads

LEMMA ForgetOpensKeeps == ASSUME RInv, NEW p \in Proc, ForgetOpens(p), Remember PROVE RInv'
<1>1. opts[p].mode = "forget" BY DEF ForgetOpens, RInv, Advances, Erasing, Forgetting
<1> QED BY <1>1, AcquireKeeps DEF ForgetOpens

LEMMA ForgetLoadsKeeps == ASSUME RInv, NEW p \in Proc, ForgetLoads(p), History PROVE RInv'
<1>1. pc[p] = "forget_load" /\ opts[p].mode = "forget" /\ pc[p] \in Owning \ {"erase"}
  BY DEF ForgetLoads, RInv, Advances, Erasing, Forgetting, Owning, RetentionHolding
<1>2. CASE End(p, "stopped") /\ Names(p, 0)
  BY <1>2, Visible, ReturnRetains DEF End, Endings, Outcomes
<1>3. ASSUME ExactTombstone(disk)
      PROVE  /\ disk.gen \in 0..MaxIncarnations /\ disk.gen # 0 /\ disk.root = "locked"
             /\ disk.tomb.complete /\ disk.tomb.intent /\ ~Legacy(disk)
  <2>1. disk.root = "locked" /\ disk.tomb.complete /\ disk.tomb.intent /\ ~Legacy(disk)
    BY <1>3 DEF ExactTombstone
  <2>2. disk.gen \in Incarnations BY <2>1, Visible DEF Legible
  <2> QED BY <2>1, <2>2, MaxIncarnationsAssumption DEF Incarnations
<1>4. CASE ExactTombstone(disk) /\ Step(p, "tomb") /\ Names(p, disk.gen)
  <2>1. pc'[p] = "tomb" /\ opts'[p] = opts[p] /\ named'[p] = disk.gen /\ disk' = disk
          => Retiring(p)' /\ Erasing(p)'
    BY <1>1, <1>3, <1>4 DEF Retiring, Erasing, Pruning, Burying, Forgetting, RetentionModes
  <2> QED BY <1>1, <1>3, <1>4, <2>1, Visible, NamingKeeps DEF Step
<1>5. CASE ExactTombstone(disk) /\ disk.erasing = disk.gen /\ SyncStep(p, "erase") /\ Names(p, disk.gen)
  <2>1. pc'[p] = "erase" /\ opts'[p] = opts[p] /\ named'[p] = disk.gen /\ disk' = disk
          => Retiring(p)' /\ Erasing(p)'
    BY <1>1, <1>3, <1>5 DEF Retiring, Erasing, Pruning, Burying, Forgetting
  <2>2. /\ disk' = disk /\ surviving' = {disk} /\ Goto(p, "erase") /\ UNCHANGED <<lock, marker>>
    BY <1>5 DEF SyncStep, Sync
  <2> QED BY <1>1, <1>3, <1>5, <2>1, <2>2, Visible, NamingKeeps
<1> QED BY <1>2, <1>4, <1>5 DEF ForgetLoads

\* The operation directory is removed, under the marker that names it.
LEMMA RemovalKeeps ==
  ASSUME RInv, NEW p \in Proc, Goto(p, "vanish"), UNCHANGED marker, Remember,
         disk' = Absent(disk.plan, disk.gen + 1, disk.erasing), disk.erasing = disk.gen, disk.root = "bare",
         disk' \in surviving', surviving' \subseteq surviving \cup {disk'},
         lock' \in Proc \cup {Nobody}, named[p] # 0, \A q \in Proc \ {p} : pc[q] \notin Owning
  PROVE  RInv'
<1>1. "vanish" \in Points \ {"idle"} BY DEF Points, RetentionUnlocked
<1>2. Others(p) /\ CallTypes' /\ History /\ pc'[p] = "vanish" /\ named'[p] = named[p]
  BY <1>1, GotoShape
<1>3. disk.gen \in Incarnations BY Visible DEF Legible
<1>4. /\ disk'.root = "none" /\ disk'.gen = disk.gen + 1 /\ disk'.erasing = disk.erasing
      /\ disk'.tomb = NoTomb /\ ~disk'.tomb.dir /\ ~Legacy(disk')
  BY MaxAttemptsAssumption DEF Absent, NoTomb, Legacy, HasMarkers
<1>5. disk' \in RetainedJournals
  <2>1. disk.plan \in Plans /\ disk.erasing \in 0..MaxIncarnations BY Visible DEF RetainedJournals
  <2>2. disk.gen + 1 \in 1..(MaxIncarnations + 1)
    BY <1>3, MaxIncarnationsAssumption DEF Incarnations
  <2> QED BY <2>1, <2>2, Constants DEF Absent, RetainedJournals
<1>6. Legible(disk') BY <1>4, <1>5, Visible DEF Legible
<1>7. Keeps(disk, adopted') /\ adopted' \subseteq Incarnations BY <1>2, Recalls, Visible
<1>8. Keeps(disk', adopted')
  <2>1. \A g \in adopted' : g \in Nat /\ g <= disk.gen
    BY <1>7, MaxIncarnationsAssumption DEF Keeps, Incarnations
  <2> QED BY <1>4, <2>1, Visible DEF Keeps
<1>9. \A j \in surviving' : Legible(j) /\ Keeps(j, adopted') BY <1>2, <1>6, <1>8, ImagesKeep
<1>10. Grows BY <1>4, Visible DEF Grows
<1>11. named[p] \in Nat /\ named[p] <= disk.gen
  BY Visible, MaxIncarnationsAssumption DEF RInv, Advances, Named, CallTypes
<1>12. Named(p)' BY <1>2, <1>4, <1>11, Visible DEF Named
<1>13. Advances(p)'
  BY <1>2, <1>12 DEF Advances, Sends, Retiring, Erasing, Adoption, Holding, Writes, Pruning, Burying, Forgetting
<1>14. \A q \in Proc : pc[q] # "newlock" BY DEF RInv, Excludes
<1>15. pc'[p] \notin Owning \cup {"newlock"} BY <1>2 DEF Owning, Holding, RetentionHolding
<1> QED BY <1>2, <1>9, <1>10, <1>13, <1>14, <1>15, StepRetains

LEMMA EraseOpensKeeps == ASSUME RInv, NEW p \in Proc, EraseOpens(p), Remember PROVE RInv'
<1>1. /\ pc[p] = "erase_open" /\ named[p] # 0
      /\ named[p] = disk.gen => disk.erasing = disk.gen
  BY DEF EraseOpens, RInv, Advances, Erasing
<1>2. CASE disk.root = "none" /\ SyncStep(p, "vanish")
  <2>1. "vanish" \in Points \ {"idle", "newlock"} /\ "vanish" \notin Owning
    BY DEF Points, RetentionUnlocked, Owning, Holding, RetentionHolding
  <2>2. pc'[p] = "vanish" /\ opts'[p] = opts[p] /\ named'[p] = named[p] /\ disk' = disk
          => Sends(p)' /\ Retiring(p)' /\ Erasing(p)'
    BY <1>1 DEF Sends, Retiring, Erasing, Adoption, Holding, Writes, Pruning, Burying, Forgetting
  <2> QED BY <1>2, <2>1, <2>2, SyncStepKeeps
<1>3. CASE End(p, "stopped")
  BY <1>3, EndRetains DEF End, Outcomes
<1>4. CASE /\ disk.root = "bare" /\ disk.gen = named[p] /\ lock = Nobody
           /\ Tomb(p, "vanish", Absent(disk.plan, disk.gen + 1, disk.erasing))
  <2>1. /\ disk' = Absent(disk.plan, disk.gen + 1, disk.erasing) /\ surviving' = {disk, disk'}
        /\ Goto(p, "vanish") /\ UNCHANGED <<lock, marker>>
    BY <1>4 DEF Tomb, SyncThenWrite
  <2>2. \A q \in Proc : pc[q] \notin Owning BY <1>4, NobodyAssumption DEF RInv, Excludes
  <2>3. lock' \in Proc \cup {Nobody} BY <2>1 DEF RInv, CallTypes
  <2> QED BY <1>1, <1>4, <2>1, <2>2, <2>3, Visible, RemovalKeeps
<1>5. CASE disk.root = "locked" /\ disk.gen = named[p] /\ Acquire(p, "erase")
  BY <1>1, <1>5, AcquireKeeps
<1> QED BY <1>2, <1>3, <1>4, <1>5 DEF EraseOpens

\* Digging the tombstone up leaves its directory last.
LEMMA Exhumes ==
  ASSUME NEW j \in RetainedJournals, j.tomb.dir, NEW d, d = Exhumed(j)
  PROVE  /\ d \in RetainedJournals /\ d.root = j.root /\ d.gen = j.gen /\ d.erasing = j.erasing
         /\ ~d.tomb.dir => d.tomb = NoTomb
<1>1. j.tomb \in Tombs BY DEF RetainedJournals
<1>2. CASE j.tomb.complete
  <2> DEFINE t == [j.tomb EXCEPT !.complete = FALSE]
  <2>1. t \in Tombs /\ t.dir BY <1>1 DEF Tombs
  <2>2. d = [j EXCEPT !.tomb = t] BY <1>1, <1>2 DEF Exhumed, RetainedJournals
  <2> HIDE DEF t
  <2> QED BY <2>1, <2>2, TombFields
<1>3. CASE ~j.tomb.complete /\ j.tomb.intent
  <2> DEFINE t == [j.tomb EXCEPT !.intent = FALSE]
  <2>1. t \in Tombs /\ t.dir BY <1>1 DEF Tombs
  <2>2. d = [j EXCEPT !.tomb = t] BY <1>1, <1>3 DEF Exhumed, RetainedJournals
  <2> HIDE DEF t
  <2> QED BY <2>1, <2>2, TombFields
<1>4. CASE ~j.tomb.complete /\ ~j.tomb.intent
  BY <1>4, Constants, TombFields DEF Exhumed
<1> QED BY <1>2, <1>3, <1>4

\* A lock holder takes something away under the marker that names its directory.
LEMMA EraseWrites ==
  ASSUME RInv, NEW p \in Proc, pc[p] = "erase", Tomb(p, "erase", disk'), Remember,
         disk' \in RetainedJournals, disk'.root \in {"bare", "locked"}, disk'.gen = disk.gen,
         disk'.erasing = disk.erasing, disk.root # "none",
         disk'.root = "bare" => ~Legacy(disk') /\ ~disk'.tomb.dir,
         ~disk'.tomb.dir => disk'.tomb = NoTomb
  PROVE  RInv'
<1>1. surviving' = {disk, disk'} /\ Goto(p, "erase") /\ UNCHANGED <<lock, marker>>
  BY DEF Tomb, SyncThenWrite
<1>2. pc[p] \in RetentionHolding /\ disk.erasing = disk.gen /\ named[p] # 0
  BY Holder DEF Erasing, RetentionHolding
<1>3. History /\ opts' = opts /\ pc'[p] = "erase" /\ named'[p] = named[p]
  BY <1>1 DEF Remember, Goto, RInv, CallTypes
<1>4. disk.gen \in Incarnations BY Visible DEF Legible
<1>5. Legible(disk') BY <1>2, <1>4, Visible DEF Legible
<1>6. Keeps(disk, adopted') BY <1>3, Recalls, Visible
<1>7. Keeps(disk', adopted') BY <1>2, <1>6 DEF Keeps, Evidence
<1>8. \A j \in surviving' : Legible(j) /\ Keeps(j, adopted')
  BY <1>1, <1>3, <1>5, <1>7, Visible, ImagesKeep
<1>9. Grows BY Visible DEF Grows
<1>10. Retiring(p)' /\ Erasing(p)'
  BY <1>2, <1>3 DEF Retiring, Erasing, Pruning, Burying, Forgetting
<1>11. "erase" \in RetentionHolding /\ disk' \in surviving' BY <1>1 DEF RetentionHolding
<1> QED BY <1>1, <1>2, <1>8, <1>9, <1>10, <1>11, TombKeeps

LEMMA EraseKeeps == ASSUME RInv, NEW p \in Proc, Erase(p), Remember PROVE RInv'
<1>1. /\ pc[p] = "erase" /\ pc[p] \in Owning /\ lock = p
      /\ disk.erasing = disk.gen /\ named[p] # 0 /\ disk.root \in {"bare", "locked"}
  <2>1. pc[p] = "erase" /\ pc[p] \in RetentionHolding /\ pc[p] \in Owning
    BY DEF Erase, RetentionHolding, Owning
  <2> QED BY <2>1, Holder DEF Erasing
<1>2. CASE disk.tomb.dir /\ disk.tomb.pending = "none" /\ Tomb(p, "erase", Exhumed(disk))
  <2>1. disk' = Exhumed(disk) /\ Tomb(p, "erase", disk') BY <1>2 DEF Tomb, SyncThenWrite
  <2>2. /\ disk' \in RetainedJournals /\ disk'.root = disk.root /\ disk'.gen = disk.gen
        /\ disk'.erasing = disk.erasing /\ (~disk'.tomb.dir => disk'.tomb = NoTomb)
    BY <1>2, <2>1, Visible, Exhumes
  <2>3. disk.root = "locked" BY <1>1, <1>2, Visible DEF Legible
  <2> QED BY <1>1, <2>1, <2>2, <2>3, EraseWrites
<1>3. CASE End(p, "stopped")
  BY <1>3, EndRetains DEF End, Outcomes
<1>4. CASE ~disk.tomb.dir /\ ~Legacy(disk) /\ Tomb(p, "erase", [disk EXCEPT !.root = "bare"])
  <2>1. disk' = [disk EXCEPT !.root = "bare"] /\ Tomb(p, "erase", disk') BY <1>4 DEF Tomb, SyncThenWrite
  <2>2. /\ disk' \in RetainedJournals /\ disk'.root = "bare" /\ disk'.gen = disk.gen /\ disk'.tomb = disk.tomb
        /\ disk'.erasing = disk.erasing /\ disk'.done = disk.done /\ disk'.intent = disk.intent
        /\ disk'.attempts = disk.attempts /\ disk'.scratch = disk.scratch
    BY <2>1, Visible DEF RetainedJournals
  <2>3. ~Legacy(disk') /\ ~disk'.tomb.dir /\ disk'.tomb = NoTomb
    BY <1>4, <2>2, Visible DEF Legacy, HasMarkers, Legible
  <2> QED BY <1>1, <2>1, <2>2, <2>3, EraseWrites
<1>5. CASE /\ ~disk.tomb.dir /\ ~Legacy(disk) /\ disk.root = "bare"
           /\ Write(Absent(disk.plan, disk.gen + 1, disk.erasing))
           /\ lock' = Nobody
           /\ Goto(p, "vanish") /\ UNCHANGED marker
  <2>1. disk' = Absent(disk.plan, disk.gen + 1, disk.erasing) /\ surviving' = surviving \cup {disk'}
    BY <1>5 DEF Write
  <2>2. \A q \in Proc \ {p} : pc[q] \notin Owning BY <1>1 DEF RInv, Excludes
  <2> QED BY <1>1, <1>5, <2>1, <2>2, RemovalKeeps
<1> QED BY <1>2, <1>3, <1>4, <1>5 DEF Erase

LEMMA VanishKeeps == ASSUME RInv, NEW p \in Proc, Vanish(p), Remember PROVE RInv'
<1>1. CASE End(p, "stopped")
  BY <1>1, EndRetains DEF End, Outcomes
<1>2. CASE disk.root = "none" /\ SyncStep(p, "look")
  <2>1. named[p] # 0 /\ named[p] < disk.gen
    BY <1>2 DEF Vanish, RInv, Advances, Erasing, Named
  <2>2. "look" \in Points \ {"idle", "newlock"} /\ "look" \notin Owning
    BY DEF Points, RetentionUnlocked, Owning, Holding, RetentionHolding
  <2>3. pc'[p] = "look" /\ opts'[p] = opts[p] /\ named'[p] = named[p] /\ disk' = disk
          => Sends(p)' /\ Retiring(p)' /\ Erasing(p)'
    BY <2>1 DEF Sends, Retiring, Erasing, Adoption, Holding, Writes, Pruning, Burying, Forgetting
  <2> QED BY <1>2, <2>2, <2>3, SyncStepKeeps
<1> QED BY <1>1, <1>2 DEF Vanish

LEMMA LookAgainKeeps == ASSUME RInv, NEW p \in Proc, LookAgain(p), Remember PROVE RInv'
<1>1. CASE End(p, "stopped")
  BY <1>1, EndRetains DEF End, Outcomes
<1>2. CASE Step(p, "unmark")
  <2>1. named[p] # 0 /\ named[p] < disk.gen
    BY DEF LookAgain, RInv, Advances, Erasing
  <2>2. "unmark" \in Points \ {"idle", "newlock"} /\ "unmark" \notin Owning
    BY DEF Points, RetentionUnlocked, Owning, Holding, RetentionHolding
  <2>3. pc'[p] = "unmark" /\ opts'[p] = opts[p] /\ named'[p] = named[p] /\ disk' = disk
          => Sends(p)' /\ Retiring(p)' /\ Erasing(p)'
    BY <2>1 DEF Sends, Retiring, Erasing, Adoption, Holding, Writes, Pruning, Burying, Forgetting
  <2> QED BY <1>2, <2>2, <2>3, SyncStepKeeps
<1> QED BY <1>1, <1>2 DEF LookAgain

\* The marker goes when the directory it named is gone, whoever works beside it
\* in a directory made since.
LEMMA UnmarkKeeps == ASSUME RInv, NEW p \in Proc, Unmark(p), Remember PROVE RInv'
<1>1. pc[p] = "unmark" /\ named[p] # 0 /\ named[p] < disk.gen
  BY DEF Unmark, RInv, Advances, Erasing
<1>2. CASE End(p, "stopped")
  BY <1>2, EndRetains DEF End, Outcomes
<1>3. CASE disk.erasing = named[p] /\ Tomb(p, "report", [disk EXCEPT !.erasing = 0])
  <2>1. /\ disk' = [disk EXCEPT !.erasing = 0] /\ surviving' = {disk, disk'}
        /\ Goto(p, "report") /\ UNCHANGED <<lock, marker>>
    BY <1>3 DEF Tomb, SyncThenWrite
  <2>2. "report" \in Points \ {"idle"} /\ lock' \in Proc \cup {Nobody}
    BY <2>1 DEF Points, RetentionUnlocked, RInv, CallTypes
  <2>3. Others(p) /\ CallTypes' /\ History /\ pc'[p] = "report" /\ named'[p] = named[p]
    BY <2>1, <2>2, GotoShape
  <2>4. /\ disk' \in RetainedJournals /\ disk'.root = disk.root /\ disk'.gen = disk.gen /\ disk'.erasing = 0
        /\ disk'.tomb = disk.tomb /\ disk'.done = disk.done /\ disk'.intent = disk.intent
        /\ disk'.attempts = disk.attempts /\ disk'.scratch = disk.scratch /\ disk'.pending = disk.pending
    BY <2>1, Visible, Constants DEF RetainedJournals
  <2>5. Legacy(disk') = Legacy(disk) /\ Terminal(disk') = Terminal(disk)
    BY <2>4 DEF Legacy, HasMarkers, Terminal, ChainAgrees
  <2>6. disk.erasing # disk.gen BY <1>1, <1>3, Visible
  <2>7. Legible(disk')
    <3>1. disk'.tomb.dir => Orderly(disk') BY <2>4, <2>5, <2>6, Visible DEF Legible, Orderly
    <3> QED BY <2>4, <2>5, <3>1, Visible DEF Legible
  <2>8. Keeps(disk, adopted') BY <2>3, Recalls, Visible
  <2>9. Keeps(disk', adopted') BY <2>4, <2>6, <2>8 DEF Keeps, Evidence
  <2>10. \A j \in surviving' : Legible(j) /\ Keeps(j, adopted')
    BY <2>1, <2>3, <2>7, <2>9, Visible, ImagesKeep
  <2>11. Grows BY <2>4, <2>6, Visible DEF Grows
  <2>12. Mild BY <2>1, <2>6 DEF Mild
  <2>13. Named(p)' BY <1>1, <2>3, <2>4 DEF Named
  <2>14. Advances(p)'
    BY <1>1, <2>3, <2>4, <2>13
       DEF Advances, Sends, Retiring, Erasing, Adoption, Holding, Writes, Pruning, Burying, Forgetting
  <2>15. pc'[p] \notin Owning \cup {"newlock"} BY <2>3 DEF Owning, Holding, RetentionHolding
  <2>16. named'[p] # disk.gen BY <1>1, <2>3, Visible
  <2> QED BY <2>1, <2>3, <2>10, <2>11, <2>12, <2>14, <2>15, <2>16, StepRetains
<1> QED BY <1>2, <1>3 DEF Unmark

LEMMA ReportForgottenKeeps == ASSUME RInv, NEW p \in Proc, ReportForgotten(p), Remember PROVE RInv'
BY Visible, ReturnRetains DEF ReportForgotten, Sync, Endings

-----------------------------------------------------------------------------
(* The specification.                                                      *)

LEMMA RetainingKeeps == ASSUME RInv, NEW p \in Proc, Retaining(p), Remember PROVE RInv'
BY StageTombKeeps, FillTombKeeps, CommitTombKeeps, ConfirmTombKeeps, StartPruneKeeps, PruneOpensKeeps,
   PruneLoadsKeeps, StripKeeps, StartForgetKeeps, ForgetOpensKeeps, EraseOpensKeeps, EraseKeeps,
   VanishKeeps, LookAgainKeeps, UnmarkKeeps, ReportForgottenKeeps
   DEF Retaining

LEMMA InitHolds == RetentionInit => RInv
<1> SUFFICES ASSUME RetentionInit PROVE RInv
  OBVIOUS
<1>1. PICK plan \in Plans : disk = Absent(plan, 1, 0) /\ surviving = {Absent(plan, 1, 0)}
  BY DEF RetentionInit
<1>2. /\ lock = Nobody /\ pc = [p \in Proc |-> "idle"] /\ opts = [p \in Proc |-> NoOptions]
      /\ known = [p \in Proc |-> 0] /\ marker = [p \in Proc |-> NoMarker] /\ outcome = [p \in Proc |-> "none"]
      /\ named = [p \in Proc |-> 0] /\ adopted = {}
  BY DEF RetentionInit, NothingRuns
<1>3. CallTypes BY <1>2, Constants DEF CallTypes, Unlocked, Endings, Outcomes
<1>4. /\ disk.root = "none" /\ disk.gen = 1 /\ disk.erasing = 0 /\ disk.tomb = NoTomb /\ ~disk.tomb.dir
      /\ ~Legacy(disk)
  BY <1>1, MaxAttemptsAssumption DEF Absent, NoTomb, Legacy, HasMarkers
<1>5. disk \in RetainedJournals
  <2>1. 1 \in 1..(MaxIncarnations + 1) BY MaxIncarnationsAssumption
  <2> QED BY <1>1, <2>1, Constants DEF Absent, RetainedJournals
<1>6. Legible(disk) BY <1>4, <1>5 DEF Legible
<1>7. Keeps(disk, adopted) BY <1>2 DEF Keeps
<1>8. Excludes BY <1>2 DEF Excludes, Owning, Holding, RetentionHolding
<1>9. \A p \in Proc : Advances(p)
  BY <1>2 DEF Advances, Sends, Retiring, Erasing, Named, Adoption, Holding, Writes, Pruning, Burying, Forgetting
<1> QED BY <1>1, <1>3, <1>6, <1>7, <1>8, <1>9 DEF RInv

LEMMA NextKeeps == RInv /\ [RetentionNext]_retentionVars => RInv'
<1> SUFFICES ASSUME RInv, [RetentionNext]_retentionVars PROVE RInv'
  OBVIOUS
<1>1. ASSUME NEW p \in Proc, Naming(p), History PROVE RInv'
  BY <1>1, ForgetReadsKeeps, ForgetLoadsKeeps DEF Naming
<1>2. ASSUME NEW p \in Proc, Retaining(p), Remember PROVE RInv' BY <1>2, RetainingKeeps
<1>3. ASSUME NEW p \in Proc, Adopting(p), Remember PROVE RInv' BY <1>3, AdoptingKeeps
<1>4. ASSUME NEW p \in Proc, Abort(p), Remember PROVE RInv' BY <1>4, AbortKeeps
<1>5. ASSUME NEW i \in Attempts, ClientAccepts(i) \/ ClientRefuses(i) \/ LoseRequest(i), Remember PROVE RInv'
  BY <1>5, OutsideRetains DEF ClientAccepts, ClientRefuses, LoseRequest, callVars
<1>6. ASSUME OthersChangeJob, Remember PROVE RInv'
  BY <1>6, OutsideRetains DEF OthersChangeJob, callVars
<1>7. CASE PowerLoss /\ Remember BY <1>7, PowerLossRetains
<1>8. CASE UNCHANGED retentionVars
  <2>1. /\ disk' = disk /\ surviving' = surviving /\ lock' = lock /\ pc' = pc /\ opts' = opts /\ known' = known
        /\ marker' = marker /\ outcome' = outcome /\ named' = named /\ adopted' = adopted
    BY <1>8 DEF retentionVars, vars, diskVars, callVars
  <2> QED BY <2>1 DEF RInv, CallTypes, Excludes, Advances, Sends, Retiring, Erasing, Named, TombTarget
<1> QED BY <1>1, <1>2, <1>3, <1>4, <1>5, <1>6, <1>7, <1>8 DEF RetentionNext

LEMMA Invariant == RetentionSpec => []RInv
BY InitHolds, NextKeeps, PTL DEF RetentionSpec

-----------------------------------------------------------------------------
(* Theorems.                                                               *)

\* Whatever adoptions, prunes and forgets run beside each other, and wherever
\* the power fails, every directory it may leave is one that the readers of
\* the journal and of the tombstone know, and whoever works in it owns its lock.
THEOREM RetentionTypeCorrect == RetentionSpec => []RetentionTypeOK
<1>1. RInv => RetentionTypeOK
  BY DEF RInv, CallTypes, Excludes, Owning, Legible, RetentionTypeOK
<1> QED BY <1>1, Invariant, PTL

\* No image of a durably completed adoption loses its last piece of evidence.
LEMMA EvidenceStays == RInv => EvidenceOutlivesOperation
BY DEF RInv, Keeps, Evidence, EvidenceOutlivesOperation

\* Wherever a prune or a forget stops, and whatever image a power loss leaves of
\* it, the next one goes on: all that blocks it is a staged marker whose bytes
\* are incomplete.
THEOREM TombstonesStayUsable == RetentionSpec => []OnlyTornTombBlocks
<1>1. ASSUME RInv PROVE OnlyTornTombBlocks
  <2>1. SUFFICES ASSUME NEW j \in surviving, j.tomb.dir, j.erasing = 0,
                        ~(j.tomb.pending # "none" /\ ~j.tomb.whole)
                 PROVE  Prunable(j) \/ ExactTombstone(j)
    BY DEF OnlyTornTombBlocks
  <2>2. Legible(j) BY <1>1 DEF RInv
  <2>3. j.gen # 0 BY <2>2, MaxIncarnationsAssumption DEF Legible, RetainedJournals
  <2>4. j.root = "locked" /\ Orderly(j) BY <2>1, <2>2, <2>3 DEF Legible
  <2>5. CASE j.tomb.pending = "forget" BY <2>1, <2>4, <2>5 DEF Orderly, ExactTombstone
  <2>6. CASE j.tomb.pending # "forget" BY <2>1, <2>4, <2>6 DEF Orderly, Prunable
  <2> QED BY <2>5, <2>6
<1> QED BY <1>1, Invariant, PTL

\* A request leaves only from the point before it.
LEMMA OnlySendPosts ==
  [RetentionNext]_retentionVars /\ Posted => \E p \in Proc : pc[p] = "send"
<1> SUFFICES ASSUME [RetentionNext]_retentionVars, posts' # posts PROVE \E p \in Proc : pc[p] = "send"
  BY DEF Posted
<1>1. ASSUME NEW p \in Proc, Adopting(p) PROVE pc[p] = "send"
  <2>1. CASE StartRun(p) \/ StartResume(p) \/ StartStatus(p) \/ RunSurveys(p) \/ BoundedMakeRoot(p) \/ MakeLock(p)
    BY <2>1 DEF StartRun, StartResume, StartStatus, Start, RunSurveys, BoundedMakeRoot, MakeRoot, MakeLock,
                clientVars
  <2>2. CASE MakeScratch(p) \/ StageMarker(p) \/ FillMarker(p) \/ CommitMarker(p) \/ ConfirmMarker(p) \/ OpenJournal(p)
    BY <2>2 DEF MakeScratch, StageMarker, FillMarker, CommitMarker, ConfirmMarker, OpenJournal, clientVars
  <2>3. CASE Loading(p)
    BY <2>3 DEF Loading, Loads, LoadRetained, LoadEnds, LoadInitializes, LoadRepublishes, LoadDiscards,
                LoadConfirms, clientVars
  <2>4. CASE ResumeSettled(p) \/ ResumeObservation(p) \/ ResumeFindsJob(p) \/ ResumeFindsAbsence(p) \/ AppendAttempt(p)
    BY <2>4 DEF ResumeSettled, ResumeObservation, ResumeFindsJob, ResumeFindsAbsence, AppendAttempt, clientVars
  <2>5. CASE LoseReply(p) \/ RereadLedger(p) \/ CloseBracket(p) \/ FinalizeObserved(p)
    BY <2>5 DEF LoseReply, RereadLedger, CloseBracket, FinalizeObserved, clientVars
  <2>6. CASE SendAdd(p) BY <2>6 DEF SendAdd
  <2> QED BY <1>1, <2>1, <2>2, <2>3, <2>4, <2>5, <2>6 DEF Adopting
<1>2. CASE \E p \in Proc : Abort(p) BY <1>2 DEF Abort, clientVars
<1>3. CASE \E i \in Attempts : ClientAccepts(i) \/ ClientRefuses(i) \/ LoseRequest(i)
  BY <1>3 DEF ClientAccepts, ClientRefuses, LoseRequest
<1>4. CASE OthersChangeJob \/ PowerLoss BY <1>4 DEF OthersChangeJob, PowerLoss, clientVars
<1>5. CASE UNCHANGED clientVars \/ UNCHANGED retentionVars
  BY <1>5 DEF clientVars, retentionVars, vars
<1> QED BY <1>1, <1>2, <1>3, <1>4, <1>5 DEF RetentionNext

\* What sends has found neither a completion nor a tombstone.
LEMMA PostsAreUnfinished ==
  RInv /\ [RetentionNext]_retentionVars => (Posted /\ disk.gen \in adopted => disk.erasing # 0)
<1> SUFFICES ASSUME RInv, [RetentionNext]_retentionVars, Posted, disk.gen \in adopted PROVE disk.erasing # 0
  OBVIOUS
<1>1. PICK p \in Proc : pc[p] = "send" BY OnlySendPosts
<1>2. disk.done = 0 /\ ~disk.tomb.dir
  BY <1>1 DEF RInv, Advances, Sends, Adoption, Holding
<1>3. ~disk.tomb.intent BY <1>2, Visible DEF Legible, NoTomb
<1>4. Evidence(disk) BY DEF RInv, Keeps
<1> QED BY <1>2, <1>3, <1>4, Visible DEF Evidence

\* A completed operation sends no request again before its erasure is asked for.
THEOREM CompletedNeverPosts == RetentionSpec => RetainedNeverPosts
<1>1. RInv /\ [RetentionNext]_retentionVars
        => [Posted /\ disk.gen \in adopted => disk.erasing # 0]_retentionVars
  BY PostsAreUnfinished
<1> QED BY <1>1, Invariant, PTL DEF RetentionSpec, RetainedNeverPosts

\* No invocation ends with the report that all is forgotten.
Silent == \A q \in Proc : pc[q] # "idle" /\ pc'[q] = "idle" => outcome'[q] # "forgotten"

LEMMA MovingIsSilent ==
  ASSUME RInv, NEW p \in Proc, NEW step, step # "idle", pc' = [pc EXCEPT ![p] = step] PROVE Silent
BY DEF RInv, CallTypes, Silent

LEMMA EndingIsSilent ==
  ASSUME RInv, NEW p \in Proc, NEW o, o # "forgotten", Return(p, o) PROVE Silent
BY DEF RInv, CallTypes, Silent, Return

LEMMA AdoptingIsSilent == ASSUME RInv, NEW p \in Proc, Adopting(p) PROVE Silent
<1>1. CASE StartRun(p) \/ StartResume(p) \/ StartStatus(p)
  BY <1>1, MovingIsSilent DEF StartRun, StartResume, StartStatus, Start
<1>2. CASE RunSurveys(p) \/ BoundedMakeRoot(p)
  BY <1>2, MovingIsSilent, EndingIsSilent DEF RunSurveys, BoundedMakeRoot, MakeRoot, Goto
<1>3. CASE MakeLock(p) \/ MakeScratch(p) \/ StageMarker(p) \/ FillMarker(p) \/ CommitMarker(p)
  BY <1>3, MovingIsSilent DEF MakeLock, MakeScratch, StageMarker, FillMarker, CommitMarker, WriteMarker, Goto
<1>4. CASE ConfirmMarker(p)
  <2>1. CASE Return(p, "adopted") BY <2>1, EndingIsSilent
  <2>2. CASE marker[p].then # "adopted"
    <3>1. marker[p].then \in Continuations BY DEF RInv, CallTypes, Markers
    <3>2. marker[p].then # "idle" BY <3>1 DEF Continuations
    <3> QED BY <1>4, <2>2, <3>2, MovingIsSilent DEF ConfirmMarker, Goto
  <2> QED BY <1>4, <2>1, <2>2 DEF ConfirmMarker
<1>5. CASE OpenJournal(p) \/ ResumeSettled(p) \/ ResumeFindsJob(p) \/ ResumeFindsAbsence(p)
  BY <1>5, MovingIsSilent, EndingIsSilent
     DEF OpenJournal, ResumeSettled, ResumeFindsJob, ResumeFindsAbsence, Goto
<1>6. CASE ResumeObservation(p)
  BY <1>6, MovingIsSilent, EndingIsSilent DEF ResumeObservation, Goto
<1>7. CASE Loading(p)
  BY <1>7, MovingIsSilent, EndingIsSilent
     DEF Loading, Loads, LoadRetained, LoadEnds, LoadInitializes, LoadRepublishes, LoadDiscards, LoadConfirms,
         WriteMarker, Goto, callVars, Silent
<1>8. CASE AppendAttempt(p) \/ SendAdd(p) \/ LoseReply(p) \/ FinalizeObserved(p)
  BY <1>8, MovingIsSilent, EndingIsSilent
     DEF AppendAttempt, SendAdd, LoseReply, FinalizeObserved, WriteMarker, Goto, Silent
<1>9. CASE RereadLedger(p) \/ CloseBracket(p)
  BY <1>9, MovingIsSilent, EndingIsSilent DEF RereadLedger, CloseBracket, Goto
<1> QED BY <1>1, <1>2, <1>3, <1>4, <1>5, <1>6, <1>7, <1>8, <1>9 DEF Adopting

LEMMA RetainingIsSilent ==
  ASSUME RInv, NEW p \in Proc, Retaining(p) \/ Naming(p), ~ReportForgotten(p) PROVE Silent
<1>1. CASE StageTomb(p) \/ FillTomb(p) \/ CommitTomb(p) \/ ConfirmTomb(p)
  BY <1>1, MovingIsSilent, EndingIsSilent
     DEF StageTomb, FillTomb, CommitTomb, ConfirmTomb, Tomb, Step, SyncStep, End, Goto
<1>2. CASE StartPrune(p) \/ StartForget(p)
  BY <1>2, MovingIsSilent DEF StartPrune, StartForget, Start
<1>3. CASE PruneOpens(p) \/ ForgetOpens(p) \/ EraseOpens(p)
  BY <1>3, MovingIsSilent, EndingIsSilent
     DEF PruneOpens, ForgetOpens, EraseOpens, Acquire, Tomb, SyncStep, End, Goto
<1>4. CASE PruneLoads(p) \/ Strip(p) \/ Erase(p)
  BY <1>4, MovingIsSilent, EndingIsSilent DEF PruneLoads, Strip, Erase, Tomb, SyncStep, End, Goto
<1>5. CASE Vanish(p) \/ LookAgain(p) \/ Unmark(p)
  BY <1>5, MovingIsSilent, EndingIsSilent DEF Vanish, LookAgain, Unmark, Tomb, Step, SyncStep, End, Goto
<1>6. CASE Naming(p)
  BY <1>6, MovingIsSilent, EndingIsSilent DEF Naming, ForgetReads, ForgetLoads, Step, SyncStep, End, Goto
<1> QED BY <1>1, <1>2, <1>3, <1>4, <1>5, <1>6 DEF Retaining

\* Only the last step of forget reports it.
LEMMA OnlyReportForgets ==
  ASSUME RInv, [RetentionNext]_retentionVars, NEW p \in Proc, pc[p] # "idle", pc'[p] = "idle",
         outcome'[p] = "forgotten"
  PROVE  ReportForgotten(p)
<1>1. ~Silent BY DEF Silent
<1>2. ASSUME NEW q \in Proc, Naming(q) \/ Retaining(q) PROVE ReportForgotten(p)
  <2>1. ReportForgotten(q) BY <1>1, <1>2, RetainingIsSilent
  <2>2. p = q BY <2>1 DEF ReportForgotten, Return, RInv, CallTypes
  <2> QED BY <2>1, <2>2
<1>3. ASSUME NEW q \in Proc, Adopting(q) PROVE FALSE BY <1>1, <1>3, AdoptingIsSilent
<1>4. ASSUME NEW q \in Proc, Abort(q) PROVE FALSE BY <1>1, <1>4, EndingIsSilent DEF Abort
<1>5. ASSUME UNCHANGED pc PROVE FALSE BY <1>5
<1>6. CASE PowerLoss BY <1>6 DEF PowerLoss
<1> QED BY <1>2, <1>3, <1>4, <1>5, <1>6
     DEF RetentionNext, ClientAccepts, ClientRefuses, LoseRequest, OthersChangeJob, callVars, retentionVars, vars

\* What it reports is what every image shows from then on.
LEMMA ReportsAreDurable ==
  RInv /\ [RetentionNext]_retentionVars =>
    \A p \in Proc : pc[p] # "idle" /\ pc'[p] = "idle" /\ outcome'[p] = "forgotten" =>
      \A j \in surviving' : j.gen # named[p] /\ j.erasing # named[p]
<1> SUFFICES ASSUME RInv, [RetentionNext]_retentionVars, NEW p \in Proc, pc[p] # "idle", pc'[p] = "idle",
                    outcome'[p] = "forgotten", NEW j \in surviving'
             PROVE  j.gen # named[p] /\ j.erasing # named[p]
  OBVIOUS
<1>1. ReportForgotten(p) BY OnlyReportForgets
<1>2. j = disk BY <1>1 DEF ReportForgotten, Sync
<1>3. named[p] < disk.gen /\ disk.erasing # named[p]
  BY <1>1 DEF ReportForgotten, RInv, Advances, Erasing
<1> QED BY <1>2, <1>3, Visible, MaxIncarnationsAssumption DEF RInv, CallTypes

\* A durably completed adoption is remembered until its erasure was asked for:
\* every step of prune and forget leaves evidence of it in every image, no
\* invocation that meets that evidence sends its add again, and an erasure that
\* was reported cannot be undone.
THEOREM CompletionsAreRemembered == RetentionSpec => CompletionIsRemembered
<1>1. RetentionSpec => []EvidenceOutlivesOperation BY EvidenceStays, Invariant, PTL
<1>2. RInv /\ [RetentionNext]_retentionVars =>
        [\A p \in Proc :
           pc[p] # "idle" /\ pc'[p] = "idle" /\ outcome'[p] = "forgotten" =>
             \A j \in surviving' : j.gen # named[p] /\ j.erasing # named[p]]_retentionVars
  BY ReportsAreDurable
<1>3. RetentionSpec => ForgottenIsDurable
  BY <1>2, Invariant, PTL DEF RetentionSpec, ForgottenIsDurable
<1> QED BY <1>1, <1>3, CompletedNeverPosts DEF CompletionIsRemembered
=============================================================================
