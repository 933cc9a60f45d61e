------------------------- MODULE BonusExchangeProofs -------------------------
(***************************************************************************)
(* Proofs about BonusExchange, for every set of invocations and commands.  *)
(* The inductive invariant says who has published an attempt marker and    *)
(* what that implies of the intent (Authority), in which order prune       *)
(* removes the two (Order), and what a power loss can therefore leave      *)
(* (Durable, Kept).  What prune and forget leave of an operation comes     *)
(* after it and rests on it.                                               *)
(***************************************************************************)
EXTENDS BonusExchange, TLAPS

\* A submit that published the marker, and one that then saw the intent again.
Marked == {"mark_sync", "scan", "acquire_intent"}
Acquired == {"acquire_attempt", "post"}
Owners == Marked \cup Acquired

\* Before the operation is prepared nothing runs and the store is empty.
Unprepared ==
  "prepared" \notin told =>
    "intent" \notin may /\ posts = 0 /\ \A p \in Proc : pc[p] \in {"idle"}

\* Prune unlinks the marker only when no power loss can restore the intent.
Order ==
  \A p \in Proc :
    /\ pc[p] = "remove_intent_sync" => "intent" \notin disk
    /\ pc[p] = "remove_attempt" => "intent" \notin may

\* While the intent is visible at most one submit has published its marker, and
\* then nothing was sent yet; an intent without a marker was never reserved.
Authority ==
  /\ "intent" \in disk /\ "attempt" \notin disk =>
       posts = 0 /\ \A p \in Proc : pc[p] \notin Owners
  /\ \A p, q \in Proc : p # q /\ pc[p] \in Owners /\ pc[q] \in Owners => "intent" \notin disk
  /\ \A p, q \in Proc : p # q /\ pc[p] \in Acquired => pc[q] \notin Acquired
  /\ \A p \in Proc : pc[p] \in Marked /\ "intent" \in disk => posts = 0
  /\ \A p \in Proc : pc[p] \in Acquired => posts = 0

\* A marker that was synced, or used, is durable for as long as the intent
\* may come back.
Durable ==
  "intent" \in may =>
    /\ posts > 0 => "attempt" \in must
    /\ \A p \in Proc : pc[p] \in Owners \ {"mark_sync"} => "attempt" \in must

\* The steps that only a prune with an answered operation reaches.
Pruning == {"chain_attempt", "verify_intent", "verify_attempt", "verify_outcome", "bury", "bury_sync",
            "joint_retention", "joint_intent", "joint_attempt", "joint_outcome", "joint_sync",
            "again_retention", "again_intent", "again_attempt", "again_outcome",
            "tombstone", "tombstone_sync", "tombstone_again",
            "remove_intent", "remove_intent_sync", "remove_attempt", "remove_attempt_sync",
            "remove_outcome", "remove_outcome_sync"}

\* Until an outcome is published, nothing is pruned, and the pair that a POST
\* relies on is durable from the moment its submit saw both.
Kept ==
  "answered" \notin told =>
    /\ {"outcome", "retention"} \cap may = {}
    /\ \A p \in Proc : pc[p] \notin Pruning
    /\ posts > 0 => {"intent", "attempt"} \subseteq must
    /\ \A p \in Proc :
         /\ pc[p] \in Acquired => {"intent", "attempt"} \subseteq must
         /\ pc[p] \in {"scan", "acquire_intent"} /\ "intent" \in disk =>
              {"intent", "attempt"} \subseteq must

Steps == {"idle"} \cup ReadSteps \cup WriteSteps

IInv == TypeOK /\ Unprepared /\ Order /\ Authority /\ Durable /\ Kept /\ AtMostOnePost

-----------------------------------------------------------------------------
(* Steps that say nothing of the intent or its marker.                     *)

\* A step that reaches none of the phases the invariant speaks of.
Quiet == Steps \ (Owners \cup {"remove_intent_sync", "remove_attempt"} \cup Pruning)

LEMMA GotoKeepsType ==
  ASSUME TypeOK, NEW p \in Proc, NEW s \in Steps, Goto(p, s)
  PROVE  /\ pc' \in [Proc -> Steps]
         /\ pc'[p] = s /\ \A q \in Proc \ {p} : pc'[q] = pc[q]
BY DEF TypeOK, Goto, Steps

LEMMA QuietKeeps ==
  ASSUME IInv, NEW p \in Proc, NEW s \in Quiet, Goto(p, s), UNCHANGED <<storeVars, posts, told>>,
         "prepared" \in told \/ s = "idle"
  PROVE  IInv'
<1>1. /\ pc' \in [Proc -> Steps]
      /\ pc'[p] = s /\ \A q \in Proc \ {p} : pc'[q] = pc[q]
  BY GotoKeepsType DEF IInv, Quiet
<1>2. TypeOK'
  BY <1>1 DEF IInv, TypeOK, storeVars, Steps
<1>3. Unprepared'
  BY <1>1 DEF IInv, Unprepared, storeVars
<1>4. Order'
  BY <1>1 DEF IInv, Order, storeVars, Quiet
<1>5. Authority'
  BY <1>1 DEF IInv, Authority, storeVars, Quiet, Owners
<1>6. Durable'
  BY <1>1 DEF IInv, Durable, storeVars, Quiet, Owners
<1>7. Kept'
  BY <1>1 DEF IInv, Kept, storeVars, Quiet, Owners, Marked
<1>8. AtMostOnePost'
  BY DEF IInv, AtMostOnePost
<1> QED BY <1>2, <1>3, <1>4, <1>5, <1>6, <1>7, <1>8 DEF IInv

LEMMA Running ==
  ASSUME IInv, NEW p \in Proc, pc[p] # "idle"
  PROVE  "prepared" \in told
BY DEF IInv, Unprepared

\* Past the outcome of a chain, or the tombstone, the operation is answered.
LEMMA Answered ==
  ASSUME IInv
  PROVE  /\ "outcome" \in disk \/ "retention" \in disk => "answered" \in told
         /\ \A p \in Proc : pc[p] \in Pruning => "answered" \in told
BY DEF IInv, Kept, TypeOK

LEMMA PruningKeeps ==
  ASSUME IInv, NEW p \in Proc, NEW s \in Pruning \ {"remove_intent_sync", "remove_attempt"},
         Goto(p, s), UNCHANGED <<storeVars, posts, told>>, pc[p] # "idle", "answered" \in told
  PROVE  IInv'
<1>1. /\ pc' \in [Proc -> Steps]
      /\ pc'[p] = s /\ \A q \in Proc \ {p} : pc'[q] = pc[q]
  BY GotoKeepsType DEF IInv, Pruning, Steps, ReadSteps, WriteSteps
<1>2. TypeOK'
  BY <1>1 DEF IInv, TypeOK, storeVars, Steps
<1>3. Unprepared'
  BY <1>1, Running DEF IInv, Unprepared, storeVars
<1>4. Order'
  BY <1>1 DEF IInv, Order, storeVars
<1>5. s \notin Owners
  BY DEF Pruning, Owners, Marked, Acquired
<1>6. Authority'
  BY <1>1, <1>5 DEF IInv, Authority, storeVars, Owners
<1>7. Durable'
  BY <1>1, <1>5 DEF IInv, Durable, storeVars
<1>8. Kept'
  BY <1>1 DEF IInv, Kept, storeVars
<1>9. AtMostOnePost'
  BY DEF IInv, AtMostOnePost
<1> QED BY <1>2, <1>3, <1>4, <1>6, <1>7, <1>8, <1>9 DEF IInv

-----------------------------------------------------------------------------
(* The store.                                                              *)

LEMMA SyncKeeps ==
  ASSUME IInv, NEW p \in Proc, NEW s \in Steps \ Acquired, pc[p] # "idle",
         Goto(p, s), SyncStore, UNCHANGED <<posts, told>>,
         s \in Owners => pc[p] = "mark_sync" /\ s = "scan",
         s # "remove_intent_sync",
         s = "remove_attempt" => pc[p] = "remove_intent_sync",
         s \in Pruning => pc[p] \in Pruning
  PROVE  IInv'
<1>1. /\ pc' \in [Proc -> Steps]
      /\ pc'[p] = s /\ \A q \in Proc \ {p} : pc'[q] = pc[q]
  BY GotoKeepsType DEF IInv
<1>2. TypeOK'
  BY <1>1 DEF IInv, TypeOK, SyncStore, Steps
<1>3. Unprepared'
  BY <1>1, Running DEF IInv, Unprepared
<1>4. Order'
  BY <1>1 DEF IInv, Order, SyncStore, TypeOK
<1>5. Authority'
  <2>1. \A q \in Proc : pc'[q] \in Owners => pc[q] \in Owners
    BY <1>1 DEF Owners, Marked
  <2>2. \A q \in Proc : pc'[q] \in Acquired => pc[q] \in Acquired
    BY <1>1
  <2>3. \A q \in Proc : pc'[q] \in Marked => pc[q] \in Marked
    BY <1>1 DEF Owners, Marked
  <2> QED BY <2>1, <2>2, <2>3 DEF IInv, Authority, SyncStore
<1>6. Durable'
  <2>1. \A q \in Proc : pc'[q] \in Owners => pc[q] \in Owners
    BY <1>1 DEF Owners, Marked
  <2>2. "intent" \in disk /\ "attempt" \notin disk => posts = 0 /\ \A q \in Proc : pc[q] \notin Owners
    BY DEF IInv, Authority
  <2> QED BY <2>1, <2>2 DEF IInv, Durable, SyncStore, AtMostOnePost, TypeOK
<1>7. Kept'
  <2> SUFFICES ASSUME "answered" \notin told' PROVE Kept!2'
    BY DEF Kept
  <2>1. {"outcome", "retention"} \cap may' = {} /\ \A q \in Proc : pc'[q] \notin Pruning
    BY <1>1 DEF IInv, Kept, SyncStore, TypeOK
  <2>2. posts' > 0 => {"intent", "attempt"} \subseteq must'
    BY DEF IInv, Kept, SyncStore, TypeOK
  <2>3. \A q \in Proc : pc'[q] \in Acquired => {"intent", "attempt"} \subseteq must'
    BY <1>1 DEF IInv, Kept, SyncStore, TypeOK
  <2>4. ASSUME NEW q \in Proc, pc'[q] \in {"scan", "acquire_intent"}, "intent" \in disk'
        PROVE  {"intent", "attempt"} \subseteq must'
    <3>1. pc[q] \in Owners
      BY <1>1, <2>4 DEF Owners, Marked
    <3> QED BY <3>1, <2>4 DEF IInv, Authority, SyncStore
  <2> QED BY <2>1, <2>2, <2>3, <2>4
<1>8. AtMostOnePost'
  BY DEF IInv, AtMostOnePost
<1> QED BY <1>2, <1>3, <1>4, <1>5, <1>6, <1>7, <1>8 DEF IInv

\* Prune's removals: the intent, then the marker when the intent cannot return.
LEMMA UnlinkKeeps ==
  ASSUME IInv, NEW p \in Proc, NEW s \in Steps \ Owners, NEW r \in Records, pc[p] # "idle",
         Goto(p, s), Unlink(r), UNCHANGED <<posts, told>>,
         r = "attempt" => "intent" \notin may,
         r \in {"intent", "attempt"} => "answered" \in told,
         s = "remove_intent_sync" => r = "intent",
         s # "remove_attempt",
         s \in Pruning => pc[p] \in Pruning
  PROVE  IInv'
<1>1. /\ pc' \in [Proc -> Steps]
      /\ pc'[p] = s /\ \A q \in Proc \ {p} : pc'[q] = pc[q]
  BY GotoKeepsType DEF IInv
<1>2. TypeOK'
  BY <1>1 DEF IInv, TypeOK, Unlink, Steps
<1>3. Unprepared'
  BY <1>1, Running DEF IInv, Unprepared
<1>4. Order'
  BY <1>1 DEF IInv, Order, Unlink
<1>5. Authority'
  <2>1. r = "attempt" => "intent" \notin disk
    BY DEF IInv, TypeOK
  <2> QED BY <1>1, <2>1 DEF IInv, Authority, Unlink, Owners
<1>6. Durable'
  BY <1>1 DEF IInv, Durable, Unlink
<1>7. Kept'
  BY <1>1 DEF IInv, Kept, Unlink, Owners, Marked
<1>8. AtMostOnePost'
  BY DEF IInv, AtMostOnePost
<1> QED BY <1>2, <1>3, <1>4, <1>5, <1>6, <1>7, <1>8 DEF IInv

-----------------------------------------------------------------------------
(* Reads.                                                                  *)

LEMMA IdleIsQuiet == "idle" \in Quiet
BY DEF Quiet, Steps, ReadSteps, WriteSteps, Owners, Marked, Acquired, Pruning

\* A failed read ends the command.
LEMMA EndKeeps ==
  ASSUME IInv, NEW p \in Proc, Goto(p, "idle"), UNCHANGED <<storeVars, posts, told>>
  PROVE  IInv'
BY QuietKeeps, IdleIsQuiet

\* The last reads of ReserveAttempt: the owner of the marker sees the intent,
\* and is from then on the only one that may send.
LEMMA AcquireKeeps ==
  ASSUME IInv, NEW p \in Proc, NEW s \in {"acquire_intent", "acquire_attempt", "post"},
         Goto(p, s), UNCHANGED <<storeVars, posts, told>>,
         s = "acquire_intent" => pc[p] = "scan",
         s = "acquire_attempt" => pc[p] = "acquire_intent" /\ "intent" \in disk,
         s = "post" => pc[p] = "acquire_attempt"
  PROVE  IInv'
<1>1. /\ pc' \in [Proc -> Steps]
      /\ pc'[p] = s /\ \A q \in Proc \ {p} : pc'[q] = pc[q]
  BY GotoKeepsType DEF IInv, Steps, ReadSteps, WriteSteps
<1>2. TypeOK'
  BY <1>1 DEF IInv, TypeOK, storeVars, Steps
<1>3. Unprepared'
  BY <1>1, Running DEF IInv, Unprepared, storeVars
<1>4. Order'
  BY <1>1 DEF IInv, Order, storeVars
<1>5. pc[p] \in Owners
  BY DEF Owners, Marked, Acquired
<1>6. Authority'
  <2>1. \A q \in Proc : pc'[q] \in Owners <=> pc[q] \in Owners
    BY <1>1, <1>5 DEF Owners, Marked, Acquired
  <2>2. \A q \in Proc : pc'[q] \in Marked => pc[q] \in Marked
    BY <1>1 DEF Marked
  <2>3. \A q \in Proc \ {p} : pc'[q] \in Acquired => pc[q] \in Acquired
    BY <1>1
  <2>4. CASE s = "acquire_attempt"
    <3>1. \A q \in Proc \ {p} : pc[q] \notin Owners
      BY <2>4, <1>5 DEF IInv, Authority
    <3>2. posts = 0
      BY <2>4 DEF IInv, Authority, Marked
    <3> QED BY <1>1, <2>1, <2>2, <3>1, <3>2 DEF IInv, Authority, storeVars, Owners
  <2>5. CASE s # "acquire_attempt"
    <3>1. pc'[p] \in Acquired => pc[p] \in Acquired
      BY <1>1, <2>5 DEF Acquired
    <3> QED BY <2>1, <2>2, <2>3, <3>1, <1>1 DEF IInv, Authority, storeVars
  <2> QED BY <2>4, <2>5
<1>7. Durable'
  BY <1>1 DEF IInv, Durable, storeVars, Owners, Marked, Acquired
<1>8. Kept'
  BY <1>1 DEF IInv, Kept, storeVars, Acquired, Pruning
<1>9. AtMostOnePost'
  BY DEF IInv, AtMostOnePost
<1> QED BY <1>2, <1>3, <1>4, <1>6, <1>7, <1>8, <1>9 DEF IInv

LEMMA SubmitReadsKeeps == ASSUME IInv, NEW p \in Proc, SubmitReads(p) PROVE IInv'
<1>1. PICK r \in PreflightReads \cup ReserveReads \cup OutcomeReads :
        /\ pc[p] = r.at
        /\ Goto(p, IF (r.of \in disk) = r.present THEN r.next ELSE "idle")
  BY DEF SubmitReads, Read
<1>2. UNCHANGED <<storeVars, posts, told>>
  BY DEF SubmitReads, Read
<1>3. CASE (r.of \in disk) # r.present
  BY <1>1, <1>2, <1>3, EndKeeps
<1>4. CASE (r.of \in disk) = r.present /\ r.next \in {"acquire_intent", "acquire_attempt", "post"}
  <2>1. r.next = "acquire_intent" => r.at = "scan"
    BY DEF PreflightReads, ReserveReads, OutcomeReads, Need, Lack
  <2>2. r.next = "acquire_attempt" => r.at = "acquire_intent" /\ r.of = "intent" /\ r.present = TRUE
    BY DEF PreflightReads, ReserveReads, OutcomeReads, Need, Lack
  <2>3. r.next = "post" => r.at = "acquire_attempt"
    BY DEF PreflightReads, ReserveReads, OutcomeReads, Need, Lack
  <2>4. r.next = "acquire_attempt" => "intent" \in disk
    BY <1>4, <2>2
  <2>5. Goto(p, r.next)
    BY <1>1, <1>4
  <2> QED BY <1>1, <1>2, <1>4, <2>1, <2>2, <2>3, <2>4, <2>5, AcquireKeeps
<1>5. CASE (r.of \in disk) = r.present /\ r.next \notin {"acquire_intent", "acquire_attempt", "post"}
  <2>1. r.next \in Quiet /\ r.at # "idle"
    BY <1>5 DEF PreflightReads, ReserveReads, OutcomeReads, Need, Lack, Quiet, Steps, ReadSteps,
                WriteSteps, Owners, Marked, Acquired, Pruning
  <2>2. "prepared" \in told
    BY <1>1, <2>1, Running
  <2> QED BY <1>1, <1>2, <1>5, <2>1, <2>2, QuietKeeps
<1> QED BY <1>3, <1>4, <1>5

LEMMA StatusReadsKeeps == ASSUME IInv, NEW p \in Proc, StatusReads(p) PROVE IInv'
<1>1. PICK r \in ChainReads :
        /\ pc[p] = r.at
        /\ Goto(p, IF (r.of \in disk) = r.present THEN r.next ELSE "idle")
  BY DEF StatusReads, Read
<1>2. UNCHANGED <<storeVars, posts, told>>
  BY DEF StatusReads, Read
<1>3. r.at # "idle"
  BY DEF ChainReads, Need, Lack
<1>4. CASE (r.of \in disk) # r.present
  BY <1>1, <1>2, <1>4, EndKeeps
<1>5. CASE (r.of \in disk) = r.present /\ r.next \in Pruning
  <2>1. (r.of = "outcome" /\ r.present = TRUE) \/ pc[p] \in Pruning
    BY <1>1, <1>5 DEF ChainReads, Need, Lack, Pruning
  <2>2. "answered" \in told
    BY <1>5, <2>1, Answered
  <2>3. r.next \notin {"remove_intent_sync", "remove_attempt"}
    BY DEF ChainReads, Need, Lack
  <2> QED BY <1>1, <1>2, <1>3, <1>5, <2>2, <2>3, PruningKeeps
<1>6. CASE (r.of \in disk) = r.present /\ r.next \notin Pruning
  <2>1. r.next \in Quiet
    BY <1>6 DEF ChainReads, Need, Lack, Quiet, Steps, ReadSteps, WriteSteps, Owners, Marked,
                Acquired, Pruning
  <2>2. "prepared" \in told
    BY <1>1, <1>3, Running
  <2> QED BY <1>1, <1>2, <1>6, <2>1, <2>2, QuietKeeps
<1> QED BY <1>4, <1>5, <1>6

LEMMA RetentionReadsKeeps == ASSUME IInv, NEW p \in Proc, RetentionReads(p) PROVE IInv'
<1>1. PICK r \in PruneReads :
        /\ pc[p] = r.at
        /\ Goto(p, IF (r.of \in disk) = r.present THEN r.next ELSE "idle")
  BY DEF RetentionReads, Read
<1>2. UNCHANGED <<storeVars, posts, told>>
  BY DEF RetentionReads, Read
<1>3. r.at # "idle"
  BY DEF PruneReads, Need, Lack
<1>4. CASE (r.of \in disk) # r.present
  BY <1>1, <1>2, <1>4, EndKeeps
<1>5. CASE (r.of \in disk) = r.present /\ r.next \in Pruning
  <2>1. pc[p] \in Pruning /\ r.next \notin {"remove_intent_sync", "remove_attempt"}
    BY <1>1, <1>5 DEF PruneReads, Need, Lack, Pruning
  <2> QED BY <1>1, <1>2, <1>3, <1>5, <2>1, Answered, PruningKeeps
<1>6. CASE (r.of \in disk) = r.present /\ r.next \notin Pruning
  <2>1. r.next \in Quiet
    BY <1>6 DEF PruneReads, Need, Lack, Quiet, Steps, ReadSteps, WriteSteps, Owners, Marked,
                Acquired, Pruning
  <2>2. "prepared" \in told
    BY <1>1, <1>3, Running
  <2> QED BY <1>1, <1>2, <1>6, <2>1, <2>2, QuietKeeps
<1> QED BY <1>4, <1>5, <1>6

LEMMA AbsenceReadsKeeps == ASSUME IInv, NEW p \in Proc, AbsenceReads(p) PROVE IInv'
<1>1. PICK r \in ForgetReads :
        /\ pc[p] = r.at
        /\ Goto(p, IF (r.of \in disk) = r.present THEN r.next ELSE "idle")
  BY DEF AbsenceReads, Read
<1>2. UNCHANGED <<storeVars, posts, told>>
  BY DEF AbsenceReads, Read
<1>3. CASE (r.of \in disk) # r.present
  BY <1>1, <1>2, <1>3, EndKeeps
<1>4. CASE (r.of \in disk) = r.present
  <2>1. r.next \in Quiet /\ r.at # "idle"
    BY DEF ForgetReads, Need, Lack, Quiet, Steps, ReadSteps, WriteSteps, Owners, Marked,
           Acquired, Pruning
  <2>2. "prepared" \in told
    BY <1>1, <2>1, Running
  <2> QED BY <1>1, <1>2, <1>4, <2>1, <2>2, QuietKeeps
<1> QED BY <1>3, <1>4

-----------------------------------------------------------------------------
(* Prepare and submit.                                                     *)

LEMMA PrepareKeeps == ASSUME IInv, NEW p \in Proc, Prepare(p) PROVE IInv'
<1>1. /\ "prepared" \notin told /\ posts = 0
      /\ \A q \in Proc : pc[q] = "idle"
  BY DEF Prepare, IInv, Unprepared
<1>2. /\ pc' \in [Proc -> Steps]
      /\ pc'[p] = "prepare_sync" /\ \A q \in Proc \ {p} : pc'[q] = pc[q]
  BY GotoKeepsType DEF Prepare, IInv, Steps, WriteSteps
<1>3. \A q \in Proc : pc'[q] \in {"idle", "prepare_sync"}
  BY <1>1, <1>2
<1>4. TypeOK'
  BY <1>2 DEF Prepare, Link, IInv, TypeOK, Records, Originals, Events, Steps
<1>5. Unprepared'
  BY DEF Prepare, Unprepared
<1>6. Order'
  BY <1>3 DEF Order
<1>7. posts' = 0
  BY <1>1 DEF Prepare
<1>8. Authority'
  BY <1>3, <1>7 DEF Authority, Owners, Marked, Acquired
<1>9. Durable'
  BY <1>3, <1>7 DEF Durable, Owners, Marked, Acquired
<1>10. Kept'
  BY <1>3, <1>7 DEF Prepare, Link, IInv, Kept, Pruning, Acquired
<1>11. AtMostOnePost'
  BY <1>7 DEF AtMostOnePost
<1> QED BY <1>4, <1>5, <1>6, <1>8, <1>9, <1>10, <1>11 DEF IInv

LEMMA StartKeeps == ASSUME IInv, NEW p \in Proc, Start(p) PROVE IInv'
<1>1. PICK command \in Commands : Goto(p, First(command))
  BY DEF Start
<1>2. command \in {"submit", "prune", "forget"}
  BY CommandsAssumption
<1>3. First(command) \in {"load", "prune", "forget"}
  BY <1>2 DEF First
<1>4. First(command) \in Quiet
  BY <1>3 DEF Quiet, Steps, ReadSteps, WriteSteps, Owners, Marked, Acquired, Pruning
<1> QED BY <1>1, <1>4, QuietKeeps DEF Start

\* Publishing the marker: nobody owned an intent that had no marker.
LEMMA MarkKeeps == ASSUME IInv, NEW p \in Proc, Mark(p) PROVE IInv'
<1>1. CASE "attempt" \in disk /\ End(p) /\ UNCHANGED storeVars
  BY <1>1, EndKeeps DEF Mark, End
<1>2. CASE Link("attempt") /\ Goto(p, "mark_sync")
  <2>1. /\ pc' \in [Proc -> Steps]
        /\ pc'[p] = "mark_sync" /\ \A q \in Proc \ {p} : pc'[q] = pc[q]
    BY <1>2, GotoKeepsType DEF IInv, Steps, WriteSteps
  <2>2. UNCHANGED <<posts, told>> /\ pc[p] = "mark"
    BY DEF Mark
  <2>3. TypeOK'
    BY <1>2, <2>1, <2>2 DEF Link, IInv, TypeOK, Records, Originals, Steps
  <2>4. Unprepared'
    BY <2>2, Running DEF Unprepared
  <2>5. Order'
    BY <1>2, <2>1 DEF Link, IInv, Order
  <2>6. Authority'
    <3>1. "intent" \in disk' => posts' = 0 /\ \A q \in Proc : pc[q] \notin Owners
      BY <1>2, <2>2 DEF Link, IInv, Authority
    <3> QED BY <1>2, <2>1, <2>2, <3>1 DEF Link, IInv, Authority, Owners, Acquired
  <2>7. Durable'
    BY <1>2, <2>1, <2>2 DEF Link, IInv, Durable
  <2>8. Kept'
    BY <1>2, <2>1, <2>2 DEF Link, IInv, Kept, Pruning, Acquired
  <2>9. AtMostOnePost'
    BY <2>2 DEF IInv, AtMostOnePost
  <2> QED BY <2>3, <2>4, <2>5, <2>6, <2>7, <2>8, <2>9 DEF IInv
<1> QED BY <1>1, <1>2 DEF Mark

LEMMA MarkSyncsKeeps == ASSUME IInv, NEW p \in Proc, MarkSyncs(p) PROVE IInv'
<1>1. pc[p] = "mark_sync" /\ SyncStore /\ Goto(p, "scan") /\ UNCHANGED <<posts, told>>
  BY DEF MarkSyncs, Syncs
<1>2. "scan" \in Steps \ Acquired /\ "scan" \notin Pruning
  BY DEF Steps, ReadSteps, Acquired, Pruning
<1> QED BY <1>1, <1>2, SyncKeeps

\* The one POST: its submit is the only one past the marker, and the marker and
\* the intent it saw are durable.
LEMMA PostKeeps == ASSUME IInv, NEW p \in Proc, Post(p) PROVE IInv'
<1>1. /\ pc' \in [Proc -> Steps]
      /\ pc'[p] = "answer" /\ \A q \in Proc \ {p} : pc'[q] = pc[q]
  BY GotoKeepsType DEF Post, IInv, Steps, WriteSteps
<1>2. pc[p] \in Acquired /\ pc[p] \in Owners \ {"mark_sync"}
  BY DEF Post, Acquired, Owners
<1>3. posts = 0 /\ posts' = 1 /\ UNCHANGED <<storeVars, told>>
  BY <1>2 DEF Post, IInv, Authority
<1>4. TypeOK'
  BY <1>1, <1>3 DEF IInv, TypeOK, storeVars, Steps
<1>5. Unprepared'
  BY <1>3, Running DEF Post, Unprepared
<1>6. Order'
  BY <1>1, <1>3 DEF IInv, Order, storeVars
<1>7. Authority'
  <2>1. \A q \in Proc : pc'[q] \in Owners => q # p /\ pc[q] \in Owners
    BY <1>1 DEF Owners, Marked, Acquired
  <2>2. \A q \in Proc : pc'[q] \notin Acquired
    BY <1>1, <1>2 DEF IInv, Authority, Acquired
  <2>3. "intent" \in disk => "attempt" \in disk /\ \A q \in Proc : pc'[q] \notin Owners
    BY <1>2, <2>1 DEF IInv, Authority
  <2> QED BY <1>3, <2>1, <2>2, <2>3 DEF Authority, storeVars, Owners
<1>8. Durable'
  BY <1>1, <1>2, <1>3 DEF IInv, Durable, storeVars, Owners, Marked, Acquired
<1>9. Kept'
  BY <1>1, <1>2, <1>3 DEF IInv, Kept, storeVars, Pruning, Acquired
<1>10. AtMostOnePost'
  BY <1>3 DEF AtMostOnePost
<1> QED BY <1>4, <1>5, <1>6, <1>7, <1>8, <1>9, <1>10 DEF IInv

\* Publishing a record that says nothing of the pair.
LEMMA LinkKeeps ==
  ASSUME IInv, NEW p \in Proc, NEW r \in {"outcome", "retention", "forget"}, NEW s \in Steps \ Owners,
         pc[p] # "idle", Goto(p, s), Link(r), posts' = posts, told \subseteq told', told' \subseteq Events,
         s \notin {"remove_intent_sync", "remove_attempt"},
         r \in {"outcome", "retention"} \/ s \in Pruning => "answered" \in told'
  PROVE  IInv'
<1>1. /\ pc' \in [Proc -> Steps]
      /\ pc'[p] = s /\ \A q \in Proc \ {p} : pc'[q] = pc[q]
  BY GotoKeepsType DEF IInv
<1>2. TypeOK'
  BY <1>1 DEF IInv, TypeOK, Link, Records, Originals, Steps
<1>3. Unprepared'
  BY Running DEF Unprepared
<1>4. Order'
  BY <1>1 DEF IInv, Order, Link
<1>5. Authority'
  BY <1>1 DEF IInv, Authority, Link, Owners
<1>6. Durable'
  BY <1>1 DEF IInv, Durable, Link
<1>7. Kept'
  BY <1>1 DEF IInv, Kept, Link, Owners, Marked
<1>8. AtMostOnePost'
  BY DEF IInv, AtMostOnePost
<1> QED BY <1>2, <1>3, <1>4, <1>5, <1>6, <1>7, <1>8 DEF IInv

LEMMA AnswerKeeps == ASSUME IInv, NEW p \in Proc, Answer(p) PROVE IInv'
<1>1. "answer_sync" \in Steps \ Owners
  BY DEF Steps, WriteSteps, Owners, Marked, Acquired
<1>2. told \subseteq told' /\ told' \subseteq Events /\ "answered" \in told'
  BY DEF Answer, IInv, TypeOK, Events
<1> QED BY <1>1, <1>2, LinkKeeps DEF Answer

LEMMA ReportKeeps == ASSUME IInv, NEW p \in Proc, ReportRecorded(p) PROVE IInv'
<1>1. /\ pc' \in [Proc -> Steps]
      /\ pc'[p] = "idle" /\ \A q \in Proc \ {p} : pc'[q] = pc[q]
  BY GotoKeepsType DEF ReportRecorded, End, IInv, Steps
<1>2. told' = told \cup {"recorded"} /\ UNCHANGED <<storeVars, posts>>
  BY DEF ReportRecorded
<1>3. TypeOK'
  BY <1>1, <1>2 DEF IInv, TypeOK, storeVars, Events, Steps
<1>4. Unprepared'
  BY <1>2, Running DEF ReportRecorded, Unprepared
<1>5. Order'
  BY <1>1, <1>2 DEF IInv, Order, storeVars
<1>6. Authority'
  BY <1>1, <1>2 DEF IInv, Authority, storeVars, Owners, Marked, Acquired
<1>7. Durable'
  BY <1>1, <1>2 DEF IInv, Durable, storeVars, Owners, Marked, Acquired
<1>8. Kept'
  BY <1>1, <1>2 DEF IInv, Kept, storeVars, Pruning, Acquired
<1>9. AtMostOnePost'
  BY <1>2 DEF IInv, AtMostOnePost
<1> QED BY <1>3, <1>4, <1>5, <1>6, <1>7, <1>8, <1>9 DEF IInv

LEMMA SubmitKeeps == ASSUME IInv, NEW p \in Proc, Submit(p) PROVE IInv'
<1>1. CASE AnswerSyncs(p)
  <2>1. "store_intent" \in Steps \ (Acquired \cup Owners \cup Pruning)
    BY DEF Steps, ReadSteps, Acquired, Owners, Marked, Pruning
  <2> QED BY <1>1, <2>1, SyncKeeps DEF AnswerSyncs, Syncs
<1> QED BY <1>1, SubmitReadsKeeps, MarkKeeps, MarkSyncsKeeps, PostKeeps, AnswerKeeps, ReportKeeps
        DEF Submit

-----------------------------------------------------------------------------
(* Prune and forget.                                                       *)

LEMMA FindRetentionKeeps == ASSUME IInv, NEW p \in Proc, FindRetention(p) PROVE IInv'
<1>1. UNCHANGED <<storeVars, posts, told>> /\ pc[p] # "idle"
  BY DEF FindRetention
<1>2. CASE "retention" \in disk
  <2>1. "tombstone" \in Pruning \ {"remove_intent_sync", "remove_attempt"}
    BY DEF Pruning
  <2>2. Goto(p, "tombstone")
    BY <1>2 DEF FindRetention
  <2> QED BY <1>1, <1>2, <2>1, <2>2, Answered, PruningKeeps
<1>3. CASE "retention" \notin disk
  <2>1. "chain_forget" \in Quiet
    BY DEF Quiet, Steps, ReadSteps, Owners, Marked, Acquired, Pruning
  <2>2. Goto(p, "chain_forget")
    BY <1>3 DEF FindRetention
  <2> QED BY <1>1, <2>1, <2>2, Running, QuietKeeps
<1> QED BY <1>2, <1>3

\* Only a prune that read the whole chain, or found the tombstone, buries.
LEMMA BuryKeeps == ASSUME IInv, NEW p \in Proc, Bury(p) PROVE IInv'
<1>1. pc[p] = "bury" /\ "answered" \in told /\ UNCHANGED <<posts, told>>
  BY Answered DEF Bury, Pruning
<1>2. CASE Link("retention") /\ Goto(p, "bury_sync")
  <2>1. "bury_sync" \in Steps \ Owners
    BY DEF Steps, WriteSteps, Owners, Marked, Acquired
  <2>2. told \subseteq told' /\ told' \subseteq Events
    BY <1>1 DEF IInv, TypeOK
  <2> QED BY <1>1, <1>2, <2>1, <2>2, LinkKeeps
<1>3. CASE Goto(p, "joint_retention") /\ UNCHANGED storeVars
  BY <1>1, <1>3, PruningKeeps DEF Pruning
<1> QED BY <1>2, <1>3 DEF Bury

\* A sync between two steps of prune or forget.
LEMMA SyncsKeeps ==
  ASSUME IInv, NEW p \in Proc, NEW at, NEW s \in Steps \ Owners, Syncs(p, at, s), at # "idle",
         s # "remove_intent_sync", s = "remove_attempt" => at = "remove_intent_sync",
         s \in Pruning => at \in Pruning
  PROVE  IInv'
BY SyncKeeps DEF Syncs, Owners

LEMMA ConfirmSyncsKeeps == ASSUME IInv, NEW p \in Proc, ConfirmSyncs(p) PROVE IInv'
<1>1. {"joint_retention", "again_retention", "tombstone_again", "pruned_again"} \subseteq Steps \ Owners
  BY DEF Steps, ReadSteps, Owners, Marked, Acquired
<1>2. {"bury_sync", "joint_sync", "tombstone_sync"} \subseteq Pruning /\ "pruned_again" \notin Pruning
  BY DEF Pruning
<1> QED BY <1>1, <1>2, SyncsKeeps DEF ConfirmSyncs

LEMMA RemoveOriginalsKeeps == ASSUME IInv, NEW p \in Proc, RemoveOriginals(p) PROVE IInv'
<1>1. {"remove_intent_sync", "remove_attempt", "remove_attempt_sync", "remove_outcome",
       "remove_outcome_sync", "pruned"} \subseteq Steps \ Owners
  BY DEF Steps, ReadSteps, WriteSteps, Owners, Marked, Acquired
<1>2. {"remove_intent", "remove_intent_sync", "remove_attempt", "remove_attempt_sync",
       "remove_outcome", "remove_outcome_sync"} \subseteq Pruning /\ "pruned" \notin Pruning
  BY DEF Pruning
<1>3. Originals \subseteq Records
  BY DEF Records
<1>4. CASE Removes(p, "remove_intent", "intent", "remove_intent_sync")
  BY <1>1, <1>2, <1>3, <1>4, Answered, UnlinkKeeps DEF Removes, Originals
<1>5. CASE Removes(p, "remove_attempt", "attempt", "remove_attempt_sync")
  <2>1. "intent" \notin may
    BY <1>5 DEF Removes, IInv, Order
  <2> QED BY <1>1, <1>2, <1>3, <1>5, <2>1, Answered, UnlinkKeeps DEF Removes, Originals
<1>6. CASE Removes(p, "remove_outcome", "outcome", "remove_outcome_sync")
  BY <1>1, <1>2, <1>3, <1>6, UnlinkKeeps DEF Removes, Originals
<1>7. CASE \/ Syncs(p, "remove_intent_sync", "remove_attempt")
           \/ Syncs(p, "remove_attempt_sync", "remove_outcome")
           \/ Syncs(p, "remove_outcome_sync", "pruned")
  BY <1>1, <1>2, <1>7, SyncsKeeps
<1> QED BY <1>4, <1>5, <1>6, <1>7 DEF RemoveOriginals

LEMMA PruneKeeps == ASSUME IInv, NEW p \in Proc, Prune(p) PROVE IInv'
BY FindRetentionKeeps, StatusReadsKeeps, RetentionReadsKeeps, BuryKeeps, ConfirmSyncsKeeps,
   RemoveOriginalsKeeps DEF Prune

LEMMA ForgetStepsAreQuiet ==
  /\ {"gone_intent", "find_tombstone"} \subseteq Quiet
  /\ {"erase_sync", "gone_intent", "marker_again", "remove_retention_sync", "remove_forget",
      "remove_forget_sync", "idle"} \subseteq Steps \ (Owners \cup Pruning)
BY DEF Quiet, Steps, ReadSteps, WriteSteps, Owners, Marked, Acquired, Pruning

LEMMA FindForgetKeeps == ASSUME IInv, NEW p \in Proc, FindForget(p) PROVE IInv'
<1>1. PICK s \in {"gone_intent", "find_tombstone"} : Goto(p, s)
  BY DEF FindForget
<1>2. UNCHANGED <<storeVars, posts, told>> /\ pc[p] # "idle"
  BY DEF FindForget
<1> QED BY <1>1, <1>2, ForgetStepsAreQuiet, Running, QuietKeeps

LEMMA EraseKeeps == ASSUME IInv, NEW p \in Proc, Erase(p) PROVE IInv'
<1>1. CASE Link("forget") /\ Goto(p, "erase_sync") /\ told' = told \cup {"asked"}
  <2>1. told \subseteq told' /\ told' \subseteq Events
    BY <1>1 DEF IInv, TypeOK, Events
  <2>2. pc[p] # "idle" /\ posts' = posts
    BY DEF Erase
  <2>3. "erase_sync" \notin {"remove_intent_sync", "remove_attempt"}
    OBVIOUS
  <2> QED BY <1>1, <2>1, <2>2, <2>3, ForgetStepsAreQuiet, LinkKeeps
<1>2. CASE Goto(p, "gone_intent") /\ UNCHANGED <<storeVars, told>>
  <2>1. UNCHANGED posts /\ pc[p] # "idle"
    BY DEF Erase
  <2> QED BY <1>2, <2>1, ForgetStepsAreQuiet, Running, QuietKeeps
<1> QED BY <1>1, <1>2 DEF Erase

LEMMA RemoveMarkersKeeps == ASSUME IInv, NEW p \in Proc, RemoveMarkers(p) PROVE IInv'
<1>1. {"retention", "forget"} \subseteq Records
  BY DEF Records
<1>2. CASE Removes(p, "remove_retention", "retention", "remove_retention_sync")
  BY <1>1, <1>2, ForgetStepsAreQuiet, UnlinkKeeps DEF Removes
<1>3. CASE Removes(p, "remove_forget", "forget", "remove_forget_sync")
  BY <1>1, <1>3, ForgetStepsAreQuiet, UnlinkKeeps DEF Removes
<1>4. CASE \/ Syncs(p, "remove_retention_sync", "remove_forget")
           \/ Syncs(p, "remove_forget_sync", "idle")
  BY <1>4, ForgetStepsAreQuiet, SyncsKeeps
<1> QED BY <1>2, <1>3, <1>4 DEF RemoveMarkers

LEMMA ForgetKeeps == ASSUME IInv, NEW p \in Proc, Forget(p) PROVE IInv'
<1>1. CASE ForgetSyncs(p)
  BY <1>1, ForgetStepsAreQuiet, SyncsKeeps DEF ForgetSyncs
<1> QED BY <1>1, FindForgetKeeps, AbsenceReadsKeeps, EraseKeeps, RemoveMarkersKeeps DEF Forget

-----------------------------------------------------------------------------
(* Failure, and the invariant.                                             *)

LEMMA PowerLossKeeps == ASSUME IInv, PowerLoss PROVE IInv'
<1>1. PICK kept \in SUBSET may :
        must \subseteq kept /\ disk' = kept /\ must' = kept /\ may' = kept
  BY DEF PowerLoss
<1>2. pc' = [q \in Proc |-> "idle"] /\ UNCHANGED <<posts, told>>
  BY DEF PowerLoss
<1>3. \A q \in Proc : pc'[q] = "idle"
  BY <1>2
<1>4. TypeOK'
  BY <1>1, <1>2 DEF IInv, TypeOK
<1>5. Unprepared'
  BY <1>1, <1>2, <1>3 DEF IInv, Unprepared
<1>6. Order'
  BY <1>3 DEF Order
<1>7. "intent" \in may /\ posts > 0 => "attempt" \in must
  BY DEF IInv, Durable
<1>8. Authority'
  BY <1>1, <1>2, <1>3, <1>7 DEF IInv, TypeOK, Authority, Owners, Marked, Acquired
<1>9. Durable'
  BY <1>1, <1>2, <1>3, <1>7 DEF Durable, Owners, Marked, Acquired
<1>10. Kept'
  BY <1>1, <1>2, <1>3 DEF IInv, Kept, Pruning, Acquired
<1>11. AtMostOnePost'
  BY <1>2 DEF IInv, AtMostOnePost
<1> QED BY <1>4, <1>5, <1>6, <1>8, <1>9, <1>10, <1>11 DEF IInv

LEMMA InitIInv == Init => IInv
BY DEF Init, IInv, TypeOK, Unprepared, Order, Authority, Durable, Kept, AtMostOnePost, Owners,
       Marked, Acquired, Pruning, Records, Originals, Events

LEMMA NextIInv == IInv /\ [Next]_vars => IInv'
<1> SUFFICES ASSUME IInv, [Next]_vars PROVE IInv'
  OBVIOUS
<1>1. ASSUME NEW p \in Proc, PrepareSyncs(p) PROVE IInv'
  <2>1. "idle" \in Steps \ (Owners \cup Pruning)
    BY ForgetStepsAreQuiet
  <2> QED BY <1>1, <2>1, SyncsKeeps DEF PrepareSyncs
<1>2. ASSUME NEW p \in Proc, Abort(p) PROVE IInv'
  BY <1>2, EndKeeps DEF Abort, End
<1>3. CASE UNCHANGED vars
  BY <1>3 DEF vars, IInv, TypeOK, Unprepared, Order, Authority, Durable, Kept, AtMostOnePost
<1>4. CASE Next
  BY <1>1, <1>2, <1>4, PrepareKeeps, StartKeeps, SubmitKeeps, PruneKeeps, ForgetKeeps,
     PowerLossKeeps DEF Next
<1> QED BY <1>3, <1>4

LEMMA Invariance == Spec => []IInv
BY InitIInv, NextIInv, PTL DEF Spec

\* Every step leaves the records, the programs and the history well formed: what
\* is durable is visible, and what is visible may survive.
THEOREM BonusTypeCorrect == Spec => []TypeOK
<1>1. IInv => TypeOK
  BY DEF IInv
<1> QED BY <1>1, Invariance, PTL

\* However many submits, prunes and forgets race, and wherever a process is
\* killed or the power fails, the form is sent at most once (ReserveAttempt).
THEOREM SubmitsAtMostOnce == Spec => []AtMostOnePost
<1>1. IInv => AtMostOnePost
  BY DEF IInv
<1> QED BY <1>1, Invariance, PTL

\* After the form was sent, no image of the store a power loss can leave holds
\* the intent without its marker (completePrune's order of removals).
THEOREM PruneNeverReopens == Spec => []NeverReopened
<1>1. IInv => NeverReopened
  BY DEF IInv, Durable, NeverReopened
<1> QED BY <1>1, Invariance, PTL

\* An operation that was sent and has no outcome is never pruned and survives
\* every power loss as `submission unknown` (Status before the tombstone).
THEOREM UnknownSurvives == Spec => []UnknownIsKept
<1>1. IInv => UnknownIsKept
  BY DEF IInv, Kept, UnknownIsKept
<1> QED BY <1>1, Invariance, PTL

-----------------------------------------------------------------------------
(* OutcomeOutlives and ForgottenIsFinal.  First what a step of an          *)
(* invocation can do at all: how it changes the store (StoreStep), what it *)
(* puts into the history (Tells), and from where it enters the phases that *)
(* matter (Enters).  The two invariants follow from these alone.           *)

\* The steps that only a forget with a forget marker reaches.
Erasing == {"erase_sync", "gone_intent", "gone_attempt", "gone_outcome", "marker", "marker_sync",
            "marker_again", "remove_retention", "remove_retention_sync",
            "remove_forget", "remove_forget_sync"}

\* The steps of a prune that has a durable tombstone.
Removing == {"tombstone_again", "remove_intent", "remove_intent_sync",
             "remove_attempt", "remove_attempt_sync", "remove_outcome", "remove_outcome_sync"}

\* The steps of a submit that has synced its outcome.
Storing == {"store_intent", "store_attempt", "store_outcome", "recorded"}

StoreStep(p) ==
  \/ UNCHANGED storeVars
  \/ SyncStore
  \/ \E r \in Originals : Unlink(r) /\ pc[p] \in Removing
  \/ \E r \in {"retention", "forget"} : Unlink(r) /\ pc[p] \in Erasing
  \/ Link("intent") /\ "prepared" \notin told
  \/ Link("forget") /\ "asked" \in told'
  \/ \E r \in {"attempt", "outcome", "retention"} : Link(r)

Tells(p) ==
  /\ told \subseteq told'
  /\ "recorded" \in told' => "recorded" \in told \/ pc[p] = "recorded"
  /\ "answered" \in told' => "answered" \in told \/ (pc[p] = "answer" /\ pc'[p] # "answer")
  /\ "asked" \in told' => "asked" \in told \/ pc[p] = "erase"
  /\ posts' = posts \/ (posts' = posts + 1 /\ pc[p] = "post" /\ UNCHANGED told)

EntersSubmit(p) ==
  /\ pc'[p] = "answer" => posts' = posts + 1 /\ pc[p] = "post"
  /\ pc'[p] = "answer_sync" => pc[p] = "answer" /\ Link("outcome")
  /\ pc'[p] = "store_intent" => pc[p] = "answer_sync" /\ SyncStore
  /\ pc'[p] \in Storing \ {"store_intent"} => pc[p] \in Storing /\ UNCHANGED storeVars

EntersPrune(p) ==
  /\ pc'[p] = "tombstone_sync" => "retention" \in disk /\ UNCHANGED storeVars
  /\ pc'[p] = "tombstone_again" => pc[p] = "tombstone_sync" /\ SyncStore
  /\ pc'[p] \in Removing \ {"tombstone_again"} => pc[p] \in Removing

EntersForget(p) ==
  /\ pc'[p] = "absent_intent" => "retention" \in disk
  /\ pc'[p] = "absent_attempt" => pc[p] = "absent_intent"
  /\ pc'[p] = "absent_outcome" => pc[p] = "absent_attempt" /\ "attempt" \notin disk /\ UNCHANGED storeVars
  /\ pc'[p] = "erase" => pc[p] = "absent_outcome"
  /\ pc'[p] \in Erasing => "asked" \in told' \/ pc[p] \in Erasing \/ "forget" \in disk

\* What one step of invocation p can do.
StepOf(p) ==
  /\ \A q \in Proc \ {p} : pc'[q] = pc[q]
  /\ StoreStep(p) /\ Tells(p)
  /\ EntersSubmit(p) /\ EntersPrune(p) /\ EntersForget(p)

-----------------------------------------------------------------------------
(* Every step of an invocation is one.                                     *)

\* The phases that the definitions above say something of.
Phases == {"answer", "answer_sync", "tombstone_sync", "absent_intent", "absent_attempt",
           "absent_outcome", "erase"} \cup Storing \cup Removing \cup Erasing

LEMMA Phase ==
  /\ "idle" \notin Phases /\ "idle" \in Steps
  /\ Storing \cup Removing \cup Erasing \subseteq Phases
BY DEF Phases, Storing, Removing, Erasing, Steps

LEMMA Silent ==
  ASSUME NEW p \in Proc, UNCHANGED <<posts, told>>
  PROVE  Tells(p)
BY DEF Tells

LEMMA PlainStep ==
  ASSUME TypeOK, NEW p \in Proc, NEW s \in Steps \ Phases, Goto(p, s), StoreStep(p), Tells(p)
  PROVE  StepOf(p)
<1>1. pc'[p] = s /\ \A q \in Proc \ {p} : pc'[q] = pc[q]
  BY GotoKeepsType
<1>2. EntersSubmit(p)
  BY <1>1 DEF EntersSubmit, Phases, Storing
<1>3. EntersPrune(p)
  BY <1>1 DEF EntersPrune, Phases, Removing
<1>4. EntersForget(p)
  BY <1>1 DEF EntersForget, Phases, Erasing
<1> QED BY <1>1, <1>2, <1>3, <1>4 DEF StepOf

\* A step of prune behind the tombstone, and one of forget behind its marker.
LEMMA RemovingStep ==
  ASSUME TypeOK, NEW p \in Proc, NEW s \in Removing \ {"tombstone_again"}, Goto(p, s), StoreStep(p),
         UNCHANGED <<posts, told>>, pc[p] \in Removing
  PROVE  StepOf(p)
<1>1. s \in Steps
  BY DEF Removing, Steps, ReadSteps, WriteSteps
<1>2. pc'[p] = s /\ \A q \in Proc \ {p} : pc'[q] = pc[q]
  BY <1>1, GotoKeepsType
<1>3. EntersSubmit(p)
  BY <1>2 DEF EntersSubmit, Removing, Storing
<1>4. EntersPrune(p)
  BY <1>2 DEF EntersPrune, Removing
<1>5. EntersForget(p)
  BY <1>2 DEF EntersForget, Removing, Erasing
<1> QED BY <1>2, <1>3, <1>4, <1>5, Silent DEF StepOf

LEMMA ErasingStep ==
  ASSUME TypeOK, NEW p \in Proc, NEW s \in Erasing, Goto(p, s), StoreStep(p), Tells(p),
         "asked" \in told' \/ pc[p] \in Erasing \/ "forget" \in disk
  PROVE  StepOf(p)
<1>1. s \in Steps
  BY DEF Erasing, Steps, ReadSteps, WriteSteps
<1>2. pc'[p] = s /\ \A q \in Proc \ {p} : pc'[q] = pc[q]
  BY <1>1, GotoKeepsType
<1>3. EntersSubmit(p)
  BY <1>2 DEF EntersSubmit, Erasing, Storing
<1>4. EntersPrune(p)
  BY <1>2 DEF EntersPrune, Removing, Erasing
<1>5. EntersForget(p)
  BY <1>2 DEF EntersForget, Erasing
<1> QED BY <1>2, <1>3, <1>4, <1>5 DEF StepOf

\* A read that fails ends the command.
LEMMA EndStep ==
  ASSUME TypeOK, NEW p \in Proc, Goto(p, "idle"), UNCHANGED <<storeVars, posts, told>>
  PROVE  StepOf(p)
BY PlainStep, Phase, Silent DEF StoreStep

\* A read that leads into a phase: what it saw, and the step that it was.
LEMMA ReadStep ==
  ASSUME TypeOK, NEW p \in Proc, NEW s \in Steps, Goto(p, s), UNCHANGED <<storeVars, posts, told>>,
         s \in Storing \ {"store_intent"} => pc[p] \in Storing,
         s = "tombstone_sync" => "retention" \in disk,
         s \in Removing \ {"tombstone_again"} => pc[p] \in Removing,
         s = "absent_intent" => "retention" \in disk,
         s = "absent_attempt" => pc[p] = "absent_intent",
         s = "absent_outcome" => pc[p] = "absent_attempt" /\ "attempt" \notin disk,
         s = "erase" => pc[p] = "absent_outcome",
         s \in Erasing => pc[p] \in Erasing \/ "forget" \in disk,
         s \notin {"answer", "answer_sync", "store_intent", "tombstone_again"}
  PROVE  StepOf(p)
<1>1. pc'[p] = s /\ \A q \in Proc \ {p} : pc'[q] = pc[q]
  BY GotoKeepsType
<1>2. StoreStep(p) /\ Tells(p)
  BY DEF StoreStep, Tells
<1>3. EntersSubmit(p)
  BY <1>1 DEF EntersSubmit
<1>4. EntersPrune(p)
  BY <1>1 DEF EntersPrune
<1>5. EntersForget(p)
  BY <1>1 DEF EntersForget
<1> QED BY <1>1, <1>2, <1>3, <1>4, <1>5 DEF StepOf

LEMMA SubmitReadsStep == ASSUME TypeOK, NEW p \in Proc, SubmitReads(p) PROVE StepOf(p)
<1>1. PICK r \in PreflightReads \cup ReserveReads \cup OutcomeReads :
        /\ pc[p] = r.at
        /\ Goto(p, IF (r.of \in disk) = r.present THEN r.next ELSE "idle")
  BY DEF SubmitReads, Read
<1>2. UNCHANGED <<storeVars, posts, told>>
  BY DEF SubmitReads, Read
<1>3. CASE (r.of \in disk) # r.present
  BY <1>1, <1>2, <1>3, EndStep
<1>4. CASE (r.of \in disk) = r.present
  <2>1. Goto(p, r.next)
    BY <1>1, <1>4
  <2>2. r.next \in Steps
    BY DEF PreflightReads, ReserveReads, OutcomeReads, Need, Lack, Steps, ReadSteps, WriteSteps
  <2>3. r.next \in Storing => r.at \in Storing /\ r.next # "store_intent"
    BY DEF PreflightReads, ReserveReads, OutcomeReads, Need, Lack, Storing
  <2>4. r.next \notin Phases \ Storing
    BY DEF PreflightReads, ReserveReads, OutcomeReads, Need, Lack, Phases, Removing, Erasing, Storing
  <2>5. CASE r.next \in Storing
    BY <1>1, <1>2, <2>1, <2>2, <2>3, <2>5, ReadStep DEF Storing, Removing, Erasing
  <2>6. CASE r.next \notin Storing
    BY <1>2, <2>1, <2>2, <2>4, <2>6, PlainStep, Silent DEF StoreStep
  <2> QED BY <2>5, <2>6
<1> QED BY <1>3, <1>4

LEMMA StatusReadsStep == ASSUME TypeOK, NEW p \in Proc, StatusReads(p) PROVE StepOf(p)
<1>1. PICK r \in ChainReads :
        /\ pc[p] = r.at
        /\ Goto(p, IF (r.of \in disk) = r.present THEN r.next ELSE "idle")
  BY DEF StatusReads, Read
<1>2. UNCHANGED <<storeVars, posts, told>>
  BY DEF StatusReads, Read
<1>3. r.next \in Steps \ Phases
  BY DEF ChainReads, Need, Lack, Steps, ReadSteps, WriteSteps, Phases, Storing, Removing, Erasing
<1> QED BY <1>1, <1>2, <1>3, EndStep, PlainStep, Silent DEF StoreStep

LEMMA RetentionReadsStep == ASSUME TypeOK, NEW p \in Proc, RetentionReads(p) PROVE StepOf(p)
<1>1. PICK r \in PruneReads :
        /\ pc[p] = r.at
        /\ Goto(p, IF (r.of \in disk) = r.present THEN r.next ELSE "idle")
  BY DEF RetentionReads, Read
<1>2. UNCHANGED <<storeVars, posts, told>>
  BY DEF RetentionReads, Read
<1>3. CASE (r.of \in disk) # r.present
  BY <1>1, <1>2, <1>3, EndStep
<1>4. CASE (r.of \in disk) = r.present
  <2>1. Goto(p, r.next)
    BY <1>1, <1>4
  <2>2. r.next \in Steps
    BY DEF PruneReads, Need, Lack, Steps, ReadSteps, WriteSteps
  <2>3. r.next = "tombstone_sync" => r.of = "retention" /\ r.present = TRUE
    BY DEF PruneReads, Need, Lack
  <2>4. r.next \in Removing => r.at \in Removing /\ r.next # "tombstone_again"
    BY DEF PruneReads, Need, Lack, Removing
  <2>5. r.next \notin Phases \ ({"tombstone_sync"} \cup Removing)
    BY DEF PruneReads, Need, Lack, Phases, Removing, Erasing, Storing
  <2>6. "tombstone_sync" \notin Removing
    BY DEF Removing
  <2>7. CASE r.next \in {"tombstone_sync"} \cup Removing
    <3>1. r.next \notin Storing \cup Erasing
      BY <2>7 DEF Storing, Removing, Erasing
    <3>2. r.next \notin {"answer", "answer_sync", "absent_intent", "absent_attempt", "absent_outcome", "erase"}
      BY <2>7 DEF Removing
    <3>3. r.next # "store_intent"
      BY <3>1 DEF Storing
    <3>4. r.next = "tombstone_sync" => "retention" \in disk
      BY <1>4, <2>3
    <3>5. r.next # "tombstone_again"
      BY <2>4 DEF Removing
    <3> QED BY <1>1, <1>2, <2>1, <2>2, <2>4, <3>1, <3>2, <3>3, <3>4, <3>5, ReadStep
  <2>8. CASE r.next \notin {"tombstone_sync"} \cup Removing
    BY <1>2, <2>1, <2>2, <2>5, <2>8, PlainStep, Silent DEF StoreStep
  <2> QED BY <2>7, <2>8
<1> QED BY <1>3, <1>4

LEMMA AbsenceReadsStep == ASSUME TypeOK, NEW p \in Proc, AbsenceReads(p) PROVE StepOf(p)
<1>1. PICK r \in ForgetReads :
        /\ pc[p] = r.at
        /\ Goto(p, IF (r.of \in disk) = r.present THEN r.next ELSE "idle")
  BY DEF AbsenceReads, Read
<1>2. UNCHANGED <<storeVars, posts, told>>
  BY DEF AbsenceReads, Read
<1>3. CASE (r.of \in disk) # r.present
  BY <1>1, <1>2, <1>3, EndStep
<1>4. CASE (r.of \in disk) = r.present
  <2>1. Goto(p, r.next)
    BY <1>1, <1>4
  <2>2. CASE r.next \in Erasing
    <3>1. r.at \in Erasing
      BY <2>2 DEF ForgetReads, Need, Lack, Erasing
    <3> QED BY <1>1, <1>2, <2>1, <2>2, <3>1, ErasingStep, Silent DEF StoreStep
  <2>3. CASE r.next \notin Erasing
    <3>1. r.next \in {"absent_intent", "absent_attempt", "absent_outcome", "erase"} \cap Steps
      BY <2>3 DEF ForgetReads, Need, Lack, Erasing, Steps, ReadSteps, WriteSteps
    <3>2. r.next = "absent_intent" => r.of = "retention" /\ r.present = TRUE
      BY <2>3 DEF ForgetReads, Need, Lack
    <3>3. r.next = "absent_attempt" => r.at = "absent_intent"
      BY <2>3 DEF ForgetReads, Need, Lack
    <3>4. r.next = "absent_outcome" => r.at = "absent_attempt" /\ r.of = "attempt" /\ r.present = FALSE
      BY <2>3 DEF ForgetReads, Need, Lack
    <3>5. r.next = "erase" => r.at = "absent_outcome"
      BY <2>3 DEF ForgetReads, Need, Lack
    <3>6. r.next = "absent_intent" => "retention" \in disk
      BY <1>4, <3>2
    <3>7. r.next = "absent_outcome" => "attempt" \notin disk
      BY <1>4, <3>4
    <3>8. r.next \notin Storing \cup Removing
      BY <3>1 DEF Storing, Removing
    <3> QED BY <1>1, <1>2, <2>1, <2>3, <3>1, <3>3, <3>4, <3>5, <3>6, <3>7, <3>8, ReadStep DEF Removing
  <2> QED BY <2>2, <2>3
<1> QED BY <1>3, <1>4

\* The commands.
LEMMA PrepareStep ==
  ASSUME TypeOK, NEW p \in Proc, Prepare(p) \/ PrepareSyncs(p) \/ Start(p) \/ Abort(p)
  PROVE  StepOf(p)
<1>1. {"prepare_sync", "idle", "load", "prune", "forget"} \subseteq Steps \ Phases
  BY DEF Steps, ReadSteps, WriteSteps, Phases, Storing, Removing, Erasing
<1>2. CASE Prepare(p)
  <2>1. Goto(p, "prepare_sync") /\ StoreStep(p) /\ Tells(p)
    BY <1>2 DEF Prepare, StoreStep, Tells
  <2> QED BY <1>1, <2>1, PlainStep
<1>3. CASE PrepareSyncs(p)
  <2>1. Goto(p, "idle") /\ StoreStep(p) /\ Tells(p)
    BY <1>3, Silent DEF PrepareSyncs, Syncs, StoreStep
  <2> QED BY <1>1, <2>1, PlainStep
<1>4. CASE Start(p)
  <2>1. PICK command \in Commands : Goto(p, First(command))
    BY <1>4 DEF Start
  <2>2. First(command) \in {"load", "prune", "forget"}
    BY CommandsAssumption DEF First
  <2>3. StoreStep(p) /\ Tells(p)
    BY <1>4, Silent DEF Start, StoreStep
  <2> QED BY <1>1, <2>1, <2>2, <2>3, PlainStep
<1>5. CASE Abort(p)
  BY <1>5, EndStep DEF Abort, End
<1> QED BY <1>2, <1>3, <1>4, <1>5

LEMMA SubmitStep == ASSUME TypeOK, NEW p \in Proc, Submit(p) PROVE StepOf(p)
<1>1. {"mark_sync", "scan", "idle"} \subseteq Steps \ Phases
  BY DEF Steps, ReadSteps, WriteSteps, Phases, Storing, Removing, Erasing
<1>2. {"answer", "answer_sync", "store_intent"} \subseteq Steps
  BY DEF Steps, ReadSteps, WriteSteps
<1>3. CASE Mark(p)
  <2>1. PICK s \in {"mark_sync", "idle"} : Goto(p, s)
    BY <1>3 DEF Mark, End
  <2>2. StoreStep(p) /\ Tells(p)
    BY <1>3, Silent DEF Mark, StoreStep
  <2> QED BY <1>1, <2>1, <2>2, PlainStep
<1>4. CASE MarkSyncs(p)
  <2>1. Goto(p, "scan") /\ StoreStep(p) /\ Tells(p)
    BY <1>4, Silent DEF MarkSyncs, Syncs, StoreStep
  <2> QED BY <1>1, <2>1, PlainStep
<1>5. CASE ReportRecorded(p)
  <2>1. Goto(p, "idle") /\ StoreStep(p) /\ Tells(p)
    BY <1>5 DEF ReportRecorded, End, StoreStep, Tells
  <2> QED BY <1>1, <2>1, PlainStep
<1>6. CASE Post(p)
  <2>1. pc'[p] = "answer" /\ \A q \in Proc \ {p} : pc'[q] = pc[q]
    BY <1>2, <1>6, GotoKeepsType DEF Post
  <2>2. StoreStep(p) /\ Tells(p)
    BY <1>6 DEF Post, StoreStep, Tells, storeVars
  <2>3. EntersSubmit(p) /\ EntersPrune(p) /\ EntersForget(p)
    BY <1>6, <2>1 DEF Post, EntersSubmit, EntersPrune, EntersForget, Storing, Removing, Erasing
  <2> QED BY <2>1, <2>2, <2>3 DEF StepOf
<1>7. CASE Answer(p)
  <2>1. pc'[p] = "answer_sync" /\ \A q \in Proc \ {p} : pc'[q] = pc[q]
    BY <1>2, <1>7, GotoKeepsType DEF Answer
  <2>2. StoreStep(p) /\ Tells(p)
    BY <1>7, <2>1 DEF Answer, StoreStep, Tells
  <2>3. EntersSubmit(p) /\ EntersPrune(p) /\ EntersForget(p)
    BY <1>7, <2>1 DEF Answer, EntersSubmit, EntersPrune, EntersForget, Storing, Removing, Erasing
  <2> QED BY <2>1, <2>2, <2>3 DEF StepOf
<1>8. CASE AnswerSyncs(p)
  <2>1. pc'[p] = "store_intent" /\ \A q \in Proc \ {p} : pc'[q] = pc[q]
    BY <1>2, <1>8, GotoKeepsType DEF AnswerSyncs, Syncs
  <2>2. StoreStep(p) /\ Tells(p)
    BY <1>8, Silent DEF AnswerSyncs, Syncs, StoreStep
  <2>3. EntersSubmit(p) /\ EntersPrune(p) /\ EntersForget(p)
    BY <1>8, <2>1 DEF AnswerSyncs, Syncs, EntersSubmit, EntersPrune, EntersForget, Storing, Removing,
                      Erasing
  <2> QED BY <2>1, <2>2, <2>3 DEF StepOf
<1> QED BY <1>3, <1>4, <1>5, <1>6, <1>7, <1>8, SubmitReadsStep DEF Submit

LEMMA PruneStep == ASSUME TypeOK, NEW p \in Proc, Prune(p) PROVE StepOf(p)
<1>1. {"tombstone", "chain_forget", "bury_sync", "joint_retention", "again_retention", "pruned_again",
       "pruned"} \subseteq Steps \ Phases
  BY DEF Steps, ReadSteps, WriteSteps, Phases, Storing, Removing, Erasing
<1>2. CASE FindRetention(p)
  <2>1. PICK s \in {"tombstone", "chain_forget"} : Goto(p, s)
    BY <1>2 DEF FindRetention
  <2>2. StoreStep(p) /\ Tells(p)
    BY <1>2, Silent DEF FindRetention, StoreStep
  <2> QED BY <1>1, <2>1, <2>2, PlainStep
<1>3. CASE Bury(p)
  <2>1. PICK s \in {"bury_sync", "joint_retention"} : Goto(p, s)
    BY <1>3 DEF Bury
  <2>2. StoreStep(p) /\ Tells(p)
    BY <1>3, Silent DEF Bury, StoreStep
  <2> QED BY <1>1, <2>1, <2>2, PlainStep
<1>4. CASE Syncs(p, "tombstone_sync", "tombstone_again")
  <2>1. pc'[p] = "tombstone_again" /\ \A q \in Proc \ {p} : pc'[q] = pc[q]
    BY <1>4, GotoKeepsType DEF Syncs, Steps, ReadSteps
  <2>2. StoreStep(p) /\ Tells(p)
    BY <1>4, Silent DEF Syncs, StoreStep
  <2>3. EntersSubmit(p) /\ EntersPrune(p) /\ EntersForget(p)
    BY <1>4, <2>1 DEF Syncs, EntersSubmit, EntersPrune, EntersForget, Storing, Removing, Erasing
  <2> QED BY <2>1, <2>2, <2>3 DEF StepOf
<1>5. ASSUME NEW at, NEW s \in {"joint_retention", "again_retention", "pruned_again", "pruned"},
             Syncs(p, at, s)
      PROVE  StepOf(p)
  <2>1. Goto(p, s) /\ StoreStep(p) /\ Tells(p)
    BY <1>5, Silent DEF Syncs, StoreStep
  <2> QED BY <1>1, <2>1, PlainStep
<1>6. ASSUME NEW at \in Removing, NEW r \in Originals, NEW s \in Removing \ {"tombstone_again"},
             Removes(p, at, r, s) \/ Syncs(p, at, s)
      PROVE  StepOf(p)
  <2>1. Goto(p, s) /\ StoreStep(p) /\ pc[p] \in Removing /\ UNCHANGED <<posts, told>>
    BY <1>6 DEF Removes, Syncs, StoreStep
  <2> QED BY <2>1, RemovingStep
<1>7. CASE RemoveOriginals(p)
  <2>1. {"remove_intent", "remove_intent_sync", "remove_attempt", "remove_attempt_sync",
         "remove_outcome", "remove_outcome_sync"} \subseteq Removing \ {"tombstone_again"}
    BY DEF Removing
  <2>2. {"intent", "attempt", "outcome"} \subseteq Originals
    BY DEF Originals
  <2>3. CASE \/ Removes(p, "remove_intent", "intent", "remove_intent_sync")
             \/ Removes(p, "remove_attempt", "attempt", "remove_attempt_sync")
             \/ Removes(p, "remove_outcome", "outcome", "remove_outcome_sync")
    BY <1>6, <2>1, <2>2, <2>3
  <2>4. CASE \/ Syncs(p, "remove_intent_sync", "remove_attempt")
             \/ Syncs(p, "remove_attempt_sync", "remove_outcome")
    BY <1>6, <2>1, <2>2, <2>4
  <2> QED BY <1>5, <1>7, <2>3, <2>4 DEF RemoveOriginals
<1> QED BY <1>2, <1>3, <1>4, <1>5, <1>7, StatusReadsStep, RetentionReadsStep DEF Prune, ConfirmSyncs

LEMMA ForgetStep == ASSUME TypeOK, NEW p \in Proc, Forget(p) PROVE StepOf(p)
<1>1. {"find_tombstone", "idle"} \subseteq Steps \ Phases
  BY DEF Steps, ReadSteps, WriteSteps, Phases, Storing, Removing, Erasing
<1>2. {"gone_intent", "erase_sync", "marker_sync", "marker_again", "remove_retention",
       "remove_retention_sync", "remove_forget", "remove_forget_sync"} \subseteq Erasing
  BY DEF Erasing
<1>3. CASE FindForget(p)
  <2>1. StoreStep(p) /\ Tells(p)
    BY <1>3, Silent DEF FindForget, StoreStep
  <2>2. CASE "forget" \in disk
    BY <1>2, <1>3, <2>1, <2>2, ErasingStep DEF FindForget
  <2>3. CASE "forget" \notin disk
    BY <1>1, <1>3, <2>1, <2>3, PlainStep DEF FindForget
  <2> QED BY <2>2, <2>3
<1>4. CASE Erase(p)
  <2>1. PICK s \in {"erase_sync", "gone_intent"} : Goto(p, s)
    BY <1>4 DEF Erase
  <2>2. "asked" \in told' \/ "forget" \in disk
    BY <1>4 DEF Erase
  <2>3. StoreStep(p) /\ Tells(p)
    BY <1>4 DEF Erase, StoreStep, Tells
  <2> QED BY <1>2, <2>1, <2>2, <2>3, ErasingStep
<1>5. ASSUME NEW at \in Erasing, NEW r \in {"retention", "forget"}, NEW s \in Erasing,
             Removes(p, at, r, s) \/ Syncs(p, at, s)
      PROVE  StepOf(p)
  <2>1. Goto(p, s) /\ StoreStep(p) /\ pc[p] \in Erasing /\ UNCHANGED <<posts, told>>
    BY <1>5 DEF Removes, Syncs, StoreStep
  <2> QED BY <2>1, Silent, ErasingStep
<1>6. CASE ForgetSyncs(p)
  BY <1>2, <1>5, <1>6 DEF ForgetSyncs
<1>7. CASE Syncs(p, "remove_forget_sync", "idle")
  <2>1. Goto(p, "idle") /\ StoreStep(p) /\ Tells(p)
    BY <1>7, Silent DEF Syncs, StoreStep
  <2> QED BY <1>1, <2>1, PlainStep
<1>8. CASE \/ Removes(p, "remove_retention", "retention", "remove_retention_sync")
           \/ Syncs(p, "remove_retention_sync", "remove_forget")
           \/ Removes(p, "remove_forget", "forget", "remove_forget_sync")
  BY <1>2, <1>5, <1>8
<1> QED BY <1>3, <1>4, <1>6, <1>7, <1>8, AbsenceReadsStep DEF Forget, RemoveMarkers

LEMMA NextIsStep ==
  ASSUME TypeOK, Next
  PROVE  PowerLoss \/ \E p \in Proc : StepOf(p)
BY PrepareStep, SubmitStep, PruneStep, ForgetStep DEF Next

-----------------------------------------------------------------------------
(* Forget.                                                                 *)

\* An answer follows the one POST, and a forget that looks for originals knows
\* that there was one: with the marker gone no image holds the intent.
Finality ==
  /\ "answered" \in told => posts > 0
  /\ \A p \in Proc : pc[p] = "answer" => posts > 0 /\ "answered" \notin told
  /\ \A p, q \in Proc : p # q /\ pc[p] = "answer" => pc[q] # "answer"
  /\ \A p \in Proc : pc[p] \in {"absent_intent", "absent_attempt"} => "answered" \in told
  /\ \A p \in Proc : pc[p] \in {"absent_outcome", "erase"} => "intent" \notin may
  /\ "asked" \in told => "prepared" \in told /\ "intent" \notin may

\* The intent is published once.
LEMMA IntentGone ==
  ASSUME TypeOK, NEW p \in Proc, StepOf(p), "prepared" \in told, "intent" \notin may
  PROVE  "intent" \notin may'
BY DEF StepOf, StoreStep, storeVars, SyncStore, Unlink, Link, TypeOK

LEMMA PostIsFirst ==
  ASSUME IInv, NEW p \in Proc, pc[p] = "post"
  PROVE  posts = 0
BY DEF IInv, Authority, Acquired

LEMMA StepKeepsFinality ==
  ASSUME IInv, Finality, NEW p \in Proc, StepOf(p)
  PROVE  Finality'
<1>1. posts \in Nat /\ posts' \in Nat /\ posts' >= posts /\ told \subseteq told'
  BY DEF IInv, TypeOK, StepOf, Tells
<1>2. \A q \in Proc \ {p} : pc'[q] = pc[q]
  BY DEF StepOf
<1>3. "answered" \in told' => "answered" \in told \/ (pc[p] = "answer" /\ pc'[p] # "answer")
  BY DEF StepOf, Tells
<1>4. pc'[p] = "answer" => posts = 0 /\ posts' > 0 /\ told' = told
  <2> SUFFICES ASSUME pc'[p] = "answer" PROVE posts = 0 /\ posts' > 0 /\ told' = told
    OBVIOUS
  <2>1. posts' = posts + 1 /\ pc[p] = "post"
    BY DEF StepOf, EntersSubmit
  <2>2. told' = told
    BY <1>1, <2>1 DEF StepOf, Tells
  <2> QED BY <2>1, <2>2, PostIsFirst
<1>5. "answered" \in told' => posts' > 0
  BY <1>1, <1>3 DEF Finality
<1>6. \A q \in Proc : pc'[q] = "answer" => posts' > 0 /\ "answered" \notin told'
  BY <1>1, <1>2, <1>3, <1>4 DEF Finality
<1>7. \A q, t \in Proc : q # t /\ pc'[q] = "answer" => pc'[t] # "answer"
  BY <1>1, <1>2, <1>4 DEF Finality
<1>8. \A q \in Proc : pc'[q] \in {"absent_intent", "absent_attempt"} => "answered" \in told'
  BY <1>1, <1>2, Answered DEF Finality, StepOf, EntersForget
<1>9. \A q \in Proc : pc'[q] \in {"absent_outcome", "erase"} => "intent" \notin may'
  <2>1. ASSUME pc'[p] = "absent_outcome" PROVE "intent" \notin may'
    <3>1. pc[p] = "absent_attempt" /\ "attempt" \notin disk /\ UNCHANGED storeVars
      BY <2>1 DEF StepOf, EntersForget
    <3>2. posts > 0 /\ "attempt" \notin must
      BY <3>1 DEF Finality, IInv, TypeOK
    <3>3. "intent" \notin may
      BY <3>2 DEF IInv, Durable
    <3> QED BY <3>1, <3>3 DEF storeVars
  <2>2. ASSUME pc'[p] = "erase" PROVE "intent" \notin may'
    <3>1. pc[p] = "absent_outcome"
      BY <2>2 DEF StepOf, EntersForget
    <3> QED BY <3>1, Running, IntentGone DEF Finality, IInv
  <2>3. ASSUME NEW q \in Proc \ {p}, pc'[q] \in {"absent_outcome", "erase"} PROVE "intent" \notin may'
    <3>1. pc[q] \in {"absent_outcome", "erase"}
      BY <1>2, <2>3
    <3> QED BY <3>1, Running, IntentGone DEF Finality, IInv
  <2> QED BY <2>1, <2>2, <2>3
<1>10. "asked" \in told' => "prepared" \in told' /\ "intent" \notin may'
  <2> SUFFICES ASSUME "asked" \in told' PROVE "prepared" \in told' /\ "intent" \notin may'
    OBVIOUS
  <2>1. "asked" \in told \/ pc[p] = "erase"
    BY DEF StepOf, Tells
  <2>2. "prepared" \in told /\ "intent" \notin may
    BY <2>1, Running DEF Finality
  <2> QED BY <1>1, <2>2, IntentGone DEF IInv
<1> QED BY <1>5, <1>6, <1>7, <1>8, <1>9, <1>10 DEF Finality

-----------------------------------------------------------------------------
(* Prune.                                                                  *)

Safe == Originals \subseteq must \/ "retention" \in must

\* Until forget is asked for: the tombstone stays, originals are removed under a
\* durable tombstone, and an outcome is reported after the chain is durable.
Outliving ==
  "asked" \notin told =>
    /\ "forget" \notin may
    /\ \A p \in Proc : pc[p] \notin Erasing
    /\ \A p \in Proc : pc[p] = "tombstone_sync" => "retention" \in disk
    /\ \A p \in Proc : pc[p] \in Removing => "retention" \in must
    /\ \A p \in Proc : pc[p] = "answer_sync" =>
         "retention" \in must \/ ("outcome" \in disk /\ {"intent", "attempt"} \subseteq must)
    /\ \A p \in Proc : pc[p] \in Storing => Safe
    /\ "recorded" \in told => Safe

\* What a step leaves of the store while nobody has asked to forget.
LEMMA StoreGrows ==
  ASSUME IInv, Outliving, NEW p \in Proc, StepOf(p), "asked" \notin told'
  PROVE  /\ "asked" \notin told
         /\ "retention" \in disk => "retention" \in disk'
         /\ "retention" \in must => "retention" \in must'
         /\ \/ "retention" \in must'
            \/ (\A r \in Originals : (r \in disk => r \in disk') /\ (r \in must => r \in must'))
         /\ "forget" \notin may'
<1>1. "asked" \notin told
  BY DEF StepOf, Tells
<1>2. must \subseteq disk /\ disk \subseteq may
  BY DEF IInv, TypeOK
<1>3. CASE UNCHANGED storeVars
  BY <1>1, <1>3 DEF Outliving, storeVars
<1>4. CASE SyncStore
  BY <1>1, <1>2, <1>4 DEF Outliving, SyncStore
<1>5. ASSUME NEW r \in Originals, Unlink(r), pc[p] \in Removing
      PROVE  "retention" \in must' /\ "retention" \in disk' /\ "forget" \notin may'
  BY <1>1, <1>2, <1>5 DEF Outliving, Unlink, Originals
<1>6. ~ \E r \in {"retention", "forget"} : Unlink(r) /\ pc[p] \in Erasing
  BY <1>1 DEF Outliving
<1>7. ASSUME NEW r \in {"intent", "attempt", "outcome", "retention"}, Link(r)
      PROVE  disk \subseteq disk' /\ must' = must /\ "forget" \notin may'
  BY <1>1, <1>7 DEF Outliving, Link
<1>8. ~ (Link("forget") /\ "asked" \in told')
  OBVIOUS
<1>9. StoreStep(p)
  BY DEF StepOf
<1>10. CASE \E r \in Originals : Unlink(r) /\ pc[p] \in Removing
  BY <1>1, <1>5, <1>10
<1>11. CASE (Link("intent") /\ "prepared" \notin told)
             \/ \E r \in {"attempt", "outcome", "retention"} : Link(r)
  BY <1>1, <1>7, <1>11
<1> QED BY <1>3, <1>4, <1>6, <1>8, <1>9, <1>10, <1>11 DEF StoreStep

LEMMA StepKeepsOutliving ==
  ASSUME IInv, Finality, Outliving, NEW p \in Proc, StepOf(p)
  PROVE  Outliving'
<1> SUFFICES ASSUME "asked" \notin told' PROVE Outliving!2'
  BY DEF Outliving
<1>1. /\ "asked" \notin told
      /\ "retention" \in disk => "retention" \in disk'
      /\ "retention" \in must => "retention" \in must'
      /\ \/ "retention" \in must'
         \/ (\A r \in Originals : (r \in disk => r \in disk') /\ (r \in must => r \in must'))
      /\ "forget" \notin may'
  BY StoreGrows
<1>2. \A q \in Proc \ {p} : pc'[q] = pc[q]
  BY DEF StepOf
<1>3. must \subseteq disk /\ disk \subseteq may
  BY DEF IInv, TypeOK
<1>4. Safe => Safe'
  BY <1>1 DEF Safe
<1>5. \A q \in Proc : pc'[q] \notin Erasing
  <2>1. "forget" \notin disk /\ pc[p] \notin Erasing
    BY <1>1, <1>3 DEF Outliving
  <2> QED BY <1>1, <1>2, <2>1 DEF Outliving, StepOf, EntersForget
<1>6. \A q \in Proc : pc'[q] = "tombstone_sync" => "retention" \in disk'
  BY <1>1, <1>2 DEF Outliving, StepOf, EntersPrune
<1>7. \A q \in Proc : pc'[q] \in Removing => "retention" \in must'
  <2>1. ASSUME pc'[p] = "tombstone_again" PROVE "retention" \in must'
    BY <1>1, <2>1 DEF Outliving, StepOf, EntersPrune, SyncStore
  <2>2. ASSUME pc'[p] \in Removing \ {"tombstone_again"} PROVE "retention" \in must'
    BY <1>1, <2>2 DEF Outliving, StepOf, EntersPrune
  <2> QED BY <1>1, <1>2, <2>1, <2>2 DEF Outliving
<1>8. \A q \in Proc : pc'[q] = "answer_sync" =>
        "retention" \in must' \/ ("outcome" \in disk' /\ {"intent", "attempt"} \subseteq must')
  <2>1. {"intent", "attempt", "outcome"} \subseteq Originals
    BY DEF Originals
  <2>2. ASSUME pc'[p] = "answer_sync"
        PROVE  "outcome" \in disk' /\ {"intent", "attempt"} \subseteq must'
    <3>1. pc[p] = "answer" /\ Link("outcome")
      BY <2>2 DEF StepOf, EntersSubmit
    <3>2. {"intent", "attempt"} \subseteq must
      BY <3>1 DEF Finality, IInv, Kept
    <3> QED BY <3>1, <3>2 DEF Link
  <2> QED BY <1>1, <1>2, <2>1, <2>2 DEF Outliving
<1>9. \A q \in Proc : pc'[q] \in Storing => Safe'
  <2>1. ASSUME pc'[p] = "store_intent" PROVE Safe'
    <3>1. pc[p] = "answer_sync" /\ SyncStore
      BY <2>1 DEF StepOf, EntersSubmit
    <3> QED BY <1>1, <1>3, <3>1 DEF Outliving, SyncStore, Safe, Originals
  <2>2. ASSUME pc'[p] \in Storing \ {"store_intent"} PROVE Safe'
    BY <1>1, <1>4, <2>2 DEF Outliving, StepOf, EntersSubmit
  <2> QED BY <1>1, <1>2, <1>4, <2>1, <2>2 DEF Outliving
<1>10. "recorded" \in told' => Safe'
  <2>1. "recorded" \in told' => "recorded" \in told \/ pc[p] \in Storing
    BY DEF StepOf, Tells, Storing
  <2> QED BY <1>1, <1>4, <2>1 DEF Outliving
<1> QED BY <1>1, <1>5, <1>6, <1>7, <1>8, <1>9, <1>10

-----------------------------------------------------------------------------
(* The invariants.                                                         *)

LEMMA LossKeepsOutcome ==
  ASSUME IInv, Finality, Outliving, PowerLoss
  PROVE  Finality' /\ Outliving'
<1>1. PICK kept \in SUBSET may :
        must \subseteq kept /\ disk' = kept /\ must' = kept /\ may' = kept
  BY DEF PowerLoss
<1>2. UNCHANGED <<posts, told>> /\ \A q \in Proc : pc'[q] = "idle"
  BY DEF PowerLoss
<1>3. "idle" \notin Storing \cup Removing \cup Erasing
  BY Phase
<1>4. Safe => Safe'
  BY <1>1 DEF Safe
<1>5. Finality'
  BY <1>1, <1>2 DEF Finality
<1>6. Outliving'
  BY <1>1, <1>2, <1>3, <1>4 DEF Outliving
<1> QED BY <1>5, <1>6

OInv == IInv /\ Finality /\ Outliving

LEMMA InitOInv == Init => OInv
<1> SUFFICES ASSUME Init PROVE OInv
  OBVIOUS
<1>1. IInv
  BY InitIInv
<1>2. \A p \in Proc : pc[p] = "idle"
  BY DEF Init
<1>3. Finality
  BY <1>2 DEF Init, Finality
<1>4. Outliving
  BY <1>2, Phase DEF Init, Outliving
<1> QED BY <1>1, <1>3, <1>4 DEF OInv

LEMMA NextOInv == OInv /\ [Next]_vars => OInv'
<1> SUFFICES ASSUME OInv, [Next]_vars PROVE OInv'
  OBVIOUS
<1>1. IInv'
  BY NextIInv DEF OInv
<1>2. CASE UNCHANGED vars
  <2>1. Finality'
    BY <1>2 DEF OInv, Finality, vars
  <2>2. Outliving'
    BY <1>2 DEF OInv, Outliving, Safe, vars
  <2> QED BY <1>1, <2>1, <2>2 DEF OInv
<1>3. CASE PowerLoss
  BY <1>1, <1>3, LossKeepsOutcome DEF OInv
<1>4. ASSUME NEW p \in Proc, StepOf(p) PROVE OInv'
  BY <1>1, <1>4, StepKeepsFinality, StepKeepsOutliving DEF OInv
<1> QED BY <1>2, <1>3, <1>4, NextIsStep DEF OInv, IInv

LEMMA OutcomeInvariance == Spec => []OInv
BY InitOInv, NextOInv, PTL DEF Spec

\* Once a submit reported a durable outcome, every image of the store holds the
\* complete chain or its tombstone until the user asks to forget (Prune).
THEOREM OutcomeSurvives == Spec => []OutcomeOutlives
<1>1. OInv => OutcomeOutlives
  BY DEF OInv, Outliving, Safe, OutcomeOutlives
<1> QED BY <1>1, OutcomeInvariance, PTL

\* Once a forget was begun, no power loss brings the intent back (Forget).
THEOREM ForgettingIsFinal == Spec => []ForgottenIsFinal
<1>1. OInv => ForgottenIsFinal
  BY DEF OInv, Finality, ForgottenIsFinal
<1> QED BY <1>1, OutcomeInvariance, PTL
=============================================================================
