---------------------------- MODULE BonusExchange ----------------------------
(***************************************************************************)
(* `ptctl site bonus exchange prepare | submit | prune | forget`           *)
(* (internal/bonusexchange over internal/metastore): one prepared          *)
(* operation whose form may be submitted to the site at most once.         *)
(*                                                                         *)
(* No lock orders the commands.  What they share is five content-addressed *)
(* records of the private store, each created by a link that never         *)
(* replaces and removed by name: the intent, the attempt marker, the       *)
(* outcome, the retention tombstone and the forget marker.  A command is   *)
(* a sequence of single-record reads, links, unlinks and directory syncs;  *)
(* other commands may run between any two of them, a command may end at    *)
(* any of them, and a power loss keeps or loses every change that was not  *)
(* synced, each record independently of the others.                        *)
(*                                                                         *)
(* Record bytes are abstracted away: every record of one operation but the *)
(* outcome is a function of the intent, and an operation has one outcome.  *)
(* A removal's second link in the store's temporary directory is left out: *)
(* no reader looks there, and it only makes racing removals fail (Abort).  *)
(***************************************************************************)
EXTENDS Naturals

CONSTANTS
  Proc,        \* the concurrent invocations
  Commands,    \* which of submit, prune and forget users run
  PowerFails   \* whether the machine may lose power

ASSUME CommandsAssumption == Commands \subseteq {"submit", "prune", "forget"}
ASSUME PowerFailsAssumption == PowerFails \in BOOLEAN

VARIABLES
  disk,        \* the records that running commands see
  must,        \* the records that survive a power loss for certain
  may,         \* the records that may survive one
  pc,          \* the next step of each invocation
  posts,       \* how many times the form was submitted to the site
  told         \* history: what has happened to the operation

vars == <<disk, must, may, pc, posts, told>>
storeVars == <<disk, must, may>>

Originals == {"intent", "attempt", "outcome"}
Records == Originals \cup {"retention", "forget"}

\* prepared: the intent was published; answered: an outcome was published;
\* recorded: a submit reported a durable outcome; asked: a forget was begun.
Events == {"prepared", "answered", "recorded", "asked"}

-----------------------------------------------------------------------------
(* Reads.  Each names a record, whether the command needs it or needs it   *)
(* absent, and the step that follows; anything else ends the command.      *)

Need(at, record, next) == [at |-> at, of |-> record, present |-> TRUE, next |-> next]
Lack(at, record, next) == [at |-> at, of |-> record, present |-> FALSE, next |-> next]

\* LoadIntent, then Status must say `prepared`: any marker, outcome or attempt
\* says something else.
PreflightReads ==
  {Need("load", "intent", "forgets"),
   Lack("forgets", "forget", "retentions"),
   Lack("retentions", "retention", "reload"),
   Need("reload", "intent", "outcomes"),
   Lack("outcomes", "outcome", "attempts"),
   Lack("attempts", "attempt", "prepared"),
   Need("prepared", "intent", "reserve")}

\* Mutant of ReserveReads: the reservation is not verified again.
ReserveReadsOnce ==
  {Need("reserve", "intent", "mark"),
   Lack("scan", "outcome", "post")}

\* ReserveAttempt around the publication of the attempt marker.
ReserveReads ==
  {Need("reserve", "intent", "mark"),
   Lack("scan", "outcome", "acquire_intent"),
   Need("acquire_intent", "intent", "acquire_attempt"),
   Need("acquire_attempt", "attempt", "post")}

\* StoreOutcome verifies the set it completed.
OutcomeReads ==
  {Need("store_intent", "intent", "store_attempt"),
   Need("store_attempt", "attempt", "store_outcome"),
   Need("store_outcome", "outcome", "recorded")}

\* Status as prune reads it: only a complete terminal chain goes on.
ChainReads ==
  {Lack("chain_forget", "forget", "chain_retention"),
   Lack("chain_retention", "retention", "chain_intent"),
   Need("chain_intent", "intent", "chain_outcome"),
   Need("chain_outcome", "outcome", "chain_attempt"),
   Need("chain_attempt", "attempt", "verify_intent"),
   Need("verify_intent", "intent", "verify_attempt"),
   Need("verify_attempt", "attempt", "verify_outcome"),
   Need("verify_outcome", "outcome", "bury")}

\* ConfirmRecordSetDurability of the tombstone with its originals, and of the
\* tombstone alone before the first and after the last removal: a verified
\* set on both sides of one sync.
PruneReads ==
  {Lack("prune", "forget", "find_retention"),
   Need("joint_retention", "retention", "joint_intent"),
   Need("joint_intent", "intent", "joint_attempt"),
   Need("joint_attempt", "attempt", "joint_outcome"),
   Need("joint_outcome", "outcome", "joint_sync"),
   Need("again_retention", "retention", "again_intent"),
   Need("again_intent", "intent", "again_attempt"),
   Need("again_attempt", "attempt", "again_outcome"),
   Need("again_outcome", "outcome", "tombstone"),
   Need("tombstone", "retention", "tombstone_sync"),
   Need("tombstone_again", "retention", "remove_intent"),
   Need("pruned", "retention", "pruned_sync"),
   Need("pruned_again", "retention", "idle")}

\* Mutant of ForgetReads: the originals are looked for once, after the marker.
ForgetReadsLate ==
  {Need("find_tombstone", "retention", "erase"),
   Lack("gone_intent", "intent", "gone_attempt"),
   Lack("gone_attempt", "attempt", "gone_outcome"),
   Lack("gone_outcome", "outcome", "marker"),
   Need("marker", "forget", "marker_sync"),
   Need("marker_again", "forget", "remove_retention")}

\* ensurePrunedOriginalsAbsent, before and after the forget marker.
ForgetReads ==
  {Need("find_tombstone", "retention", "absent_intent"),
   Lack("absent_intent", "intent", "absent_attempt"),
   Lack("absent_attempt", "attempt", "absent_outcome"),
   Lack("absent_outcome", "outcome", "erase"),
   Lack("gone_intent", "intent", "gone_attempt"),
   Lack("gone_attempt", "attempt", "gone_outcome"),
   Lack("gone_outcome", "outcome", "marker"),
   Need("marker", "forget", "marker_sync"),
   Need("marker_again", "forget", "remove_retention")}

ReadSteps == {"load", "forgets", "retentions", "reload", "outcomes", "attempts", "prepared",
              "reserve", "scan", "acquire_intent", "acquire_attempt",
              "store_intent", "store_attempt", "store_outcome",
              "chain_forget", "chain_retention", "chain_intent", "chain_outcome",
              "chain_attempt", "verify_intent", "verify_attempt", "verify_outcome",
              "prune", "joint_retention", "joint_intent", "joint_attempt", "joint_outcome",
              "again_retention", "again_intent", "again_attempt", "again_outcome",
              "tombstone", "tombstone_again", "pruned", "pruned_again",
              "find_tombstone", "absent_intent", "absent_attempt", "absent_outcome",
              "gone_intent", "gone_attempt", "gone_outcome", "marker", "marker_again"}

WriteSteps == {"prepare_sync", "mark", "mark_sync", "post", "answer", "answer_sync", "recorded",
               "find_retention", "bury", "bury_sync", "joint_sync", "tombstone_sync",
               "remove_intent", "remove_intent_sync", "remove_attempt", "remove_attempt_sync",
               "remove_outcome", "remove_outcome_sync", "pruned_sync",
               "forget", "erase", "erase_sync", "marker_sync",
               "remove_retention", "remove_retention_sync",
               "remove_forget", "remove_forget_sync"}

TypeOK ==
  /\ must \subseteq disk /\ disk \subseteq may /\ may \subseteq Records
  /\ pc \in [Proc -> {"idle"} \cup ReadSteps \cup WriteSteps]
  /\ posts \in Nat
  /\ told \subseteq Events

Init ==
  /\ disk = {} /\ must = {} /\ may = {}
  /\ pc = [p \in Proc |-> "idle"]
  /\ posts = 0
  /\ told = {}

-----------------------------------------------------------------------------
(* The store.                                                              *)

Goto(p, step) == pc' = [pc EXCEPT ![p] = step]
End(p) == Goto(p, "idle")

Read(p, reads) ==
  /\ \E r \in reads :
       /\ pc[p] = r.at
       /\ Goto(p, IF (r.of \in disk) = r.present THEN r.next ELSE "idle")
  /\ UNCHANGED <<storeVars, posts, told>>

\* ImportRecord: the link that publishes never replaces.
Link(r) ==
  /\ r \notin disk
  /\ disk' = disk \cup {r} /\ may' = may \cup {r} /\ UNCHANGED must

\* RemoveRecordExact unlinks a name that exists; absence is success.
Unlink(r) == disk' = disk \ {r} /\ must' = must \ {r} /\ UNCHANGED may

\* Mutant of SyncStore: the directory was synced before the last unlink.
SyncStoreStale == must' = may /\ UNCHANGED <<disk, may>>

\* A sync of the objects directory covers every name in it.
SyncStore == must' = disk /\ may' = disk /\ UNCHANGED disk

Syncs(p, at, next) ==
  pc[p] = at /\ SyncStore /\ Goto(p, next) /\ UNCHANGED <<posts, told>>

Removes(p, at, r, next) ==
  pc[p] = at /\ Unlink(r) /\ Goto(p, next) /\ UNCHANGED <<posts, told>>

-----------------------------------------------------------------------------
(* Prepare and submit.                                                     *)

\* The operation identity is random: one operation is prepared once.
Prepare(p) ==
  /\ pc[p] = "idle" /\ "prepared" \notin told
  /\ Link("intent")
  /\ Goto(p, "prepare_sync")
  /\ told' = told \cup {"prepared"} /\ UNCHANGED posts

PrepareSyncs(p) == Syncs(p, "prepare_sync", "idle")

First(command) ==
  CASE command = "submit" -> "load" [] command = "prune" -> "prune" [] command = "forget" -> "forget"

Start(p) ==
  /\ pc[p] = "idle" /\ "prepared" \in told
  /\ \E command \in Commands : Goto(p, First(command))
  /\ UNCHANGED <<storeVars, posts, told>>

SubmitReads(p) == Read(p, PreflightReads \cup ReserveReads \cup OutcomeReads)

\* An attempt marker that is already there never authorises a POST.
Mark(p) ==
  /\ pc[p] = "mark"
  /\ \/ Link("attempt") /\ Goto(p, "mark_sync")
     \/ "attempt" \in disk /\ End(p) /\ UNCHANGED storeVars
  /\ UNCHANGED <<posts, told>>

\* Mutant of MarkSyncs: the marker is not synced before the request.
MarkSyncsNothing(p) ==
  pc[p] = "mark_sync" /\ Goto(p, "scan") /\ UNCHANGED <<storeVars, posts, told>>

MarkSyncs(p) == Syncs(p, "mark_sync", "scan")

\* SubmitFreshBonusExchange: one request, whatever the site makes of it.
Post(p) ==
  /\ pc[p] = "post"
  /\ posts' = posts + 1
  /\ Goto(p, "answer") /\ UNCHANGED <<storeVars, told>>

\* The observed outcome, confirmed, rejected or unknown, is published; one that
\* is already there, or a response that cannot be read, ends the submit (Abort).
Answer(p) ==
  /\ pc[p] = "answer"
  /\ Link("outcome")
  /\ Goto(p, "answer_sync")
  /\ told' = told \cup {"answered"} /\ UNCHANGED posts

AnswerSyncs(p) == Syncs(p, "answer_sync", "store_intent")

ReportRecorded(p) ==
  /\ pc[p] = "recorded"
  /\ told' = told \cup {"recorded"}
  /\ End(p) /\ UNCHANGED <<storeVars, posts>>

-----------------------------------------------------------------------------
(* Prune.                                                                  *)

\* A tombstone is authority to complete the prune; without one, the chain is.
FindRetention(p) ==
  /\ pc[p] = "find_retention"
  /\ Goto(p, IF "retention" \in disk THEN "tombstone" ELSE "chain_forget")
  /\ UNCHANGED <<storeVars, posts, told>>

StatusReads(p) == Read(p, ChainReads)
RetentionReads(p) == Read(p, PruneReads)

\* Mutant of Bury: the originals go first.
BuryLast(p) ==
  /\ pc[p] = "bury"
  /\ Goto(p, "remove_intent")
  /\ UNCHANGED <<storeVars, posts, told>>

Bury(p) ==
  /\ pc[p] = "bury"
  /\ \/ Link("retention") /\ Goto(p, "bury_sync")
     \/ "retention" \in disk /\ Goto(p, "joint_retention") /\ UNCHANGED storeVars
  /\ UNCHANGED <<posts, told>>

\* Mutant of ConfirmSyncs: the tombstone is verified and not synced.
ConfirmSyncsNothing(p) ==
  \/ Syncs(p, "bury_sync", "joint_retention")
  \/ Syncs(p, "joint_sync", "again_retention")
  \/ pc[p] = "tombstone_sync" /\ Goto(p, "tombstone_again") /\ UNCHANGED <<storeVars, posts, told>>
  \/ Syncs(p, "pruned_sync", "pruned_again")

ConfirmSyncs(p) ==
  \/ Syncs(p, "bury_sync", "joint_retention")
  \/ Syncs(p, "joint_sync", "again_retention")
  \/ Syncs(p, "tombstone_sync", "tombstone_again")
  \/ Syncs(p, "pruned_sync", "pruned_again")

\* Mutant of RemoveOriginals: the names go before any removal is synced.
RemoveUnsynced(p) ==
  \/ Removes(p, "remove_intent", "intent", "remove_attempt")
  \/ Removes(p, "remove_attempt", "attempt", "remove_outcome")
  \/ Removes(p, "remove_outcome", "outcome", "remove_outcome_sync")
  \/ Syncs(p, "remove_outcome_sync", "pruned")

\* completePrune: intent, attempt, outcome, each removal synced before the next.
RemoveOriginals(p) ==
  \/ Removes(p, "remove_intent", "intent", "remove_intent_sync")
  \/ Syncs(p, "remove_intent_sync", "remove_attempt")
  \/ Removes(p, "remove_attempt", "attempt", "remove_attempt_sync")
  \/ Syncs(p, "remove_attempt_sync", "remove_outcome")
  \/ Removes(p, "remove_outcome", "outcome", "remove_outcome_sync")
  \/ Syncs(p, "remove_outcome_sync", "pruned")

-----------------------------------------------------------------------------
(* Forget.                                                                 *)

\* A forget marker is authority to complete the forget.
FindForget(p) ==
  /\ pc[p] = "forget"
  /\ Goto(p, IF "forget" \in disk THEN "gone_intent" ELSE "find_tombstone")
  /\ UNCHANGED <<storeVars, posts, told>>

AbsenceReads(p) == Read(p, ForgetReads)

Erase(p) ==
  /\ pc[p] = "erase"
  /\ \/ Link("forget") /\ Goto(p, "erase_sync") /\ told' = told \cup {"asked"}
     \/ "forget" \in disk /\ Goto(p, "gone_intent") /\ UNCHANGED <<storeVars, told>>
  /\ UNCHANGED posts

ForgetSyncs(p) ==
  \/ Syncs(p, "erase_sync", "gone_intent")
  \/ Syncs(p, "marker_sync", "marker_again")

RemoveMarkers(p) ==
  \/ Removes(p, "remove_retention", "retention", "remove_retention_sync")
  \/ Syncs(p, "remove_retention_sync", "remove_forget")
  \/ Removes(p, "remove_forget", "forget", "remove_forget_sync")
  \/ Syncs(p, "remove_forget_sync", "idle")

-----------------------------------------------------------------------------
(* Failure.                                                                *)

\* An error, a cancelled context or a killed process.
Abort(p) == pc[p] # "idle" /\ End(p) /\ UNCHANGED <<storeVars, posts, told>>

PowerLoss ==
  /\ PowerFails
  /\ \E kept \in SUBSET may :
       must \subseteq kept /\ disk' = kept /\ must' = kept /\ may' = kept
  /\ pc' = [p \in Proc |-> "idle"]
  /\ UNCHANGED <<posts, told>>

Submit(p) ==
  SubmitReads(p) \/ Mark(p) \/ MarkSyncs(p) \/ Post(p) \/ Answer(p) \/ AnswerSyncs(p) \/ ReportRecorded(p)

Prune(p) ==
  FindRetention(p) \/ StatusReads(p) \/ RetentionReads(p) \/ Bury(p) \/ ConfirmSyncs(p) \/ RemoveOriginals(p)

Forget(p) ==
  FindForget(p) \/ AbsenceReads(p) \/ Erase(p) \/ ForgetSyncs(p) \/ RemoveMarkers(p)

Next ==
  \/ \E p \in Proc : Prepare(p) \/ PrepareSyncs(p) \/ Start(p)
  \/ \E p \in Proc : Submit(p)
  \/ \E p \in Proc : Prune(p)
  \/ \E p \in Proc : Forget(p)
  \/ \E p \in Proc : Abort(p)
  \/ PowerLoss

Spec == Init /\ [][Next]_vars

-----------------------------------------------------------------------------
(* Properties.                                                             *)

\* One prepared operation is submitted to the site at most once, however many
\* submits race on it, hold it across a whole prune, or run after a crash
\* (ReserveAttempt's at-most-once marker).
AtMostOnePost == posts <= 1

\* Once the form was submitted, no power loss at any step of any prune leaves
\* the intent without its attempt marker: such an image would read `prepared`
\* and a new submit would send the form again (completePrune's removal order).
NeverReopened == posts > 0 => "intent" \notin may \/ "attempt" \in must

\* Until its outcome is published, an operation that was submitted keeps its
\* intent and its marker: `submission unknown` is never pruned.
UnknownIsKept == posts > 0 /\ "answered" \notin told => {"intent", "attempt"} \subseteq must

\* Once a submit reported a durable outcome, every image of the store holds the
\* complete chain or the tombstone that copies it, until the user asks for the
\* history to be erased: prune can be interrupted anywhere and repeated.
OutcomeOutlives ==
  "recorded" \in told /\ "asked" \notin told => Originals \subseteq must \/ "retention" \in must

\* Once a forget was begun, no power loss brings the intent back: forget erases
\* the evidence of an operation that can never be submitted again.
ForgottenIsFinal == "asked" \in told => "intent" \notin may
=============================================================================
