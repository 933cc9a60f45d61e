---------------------------- MODULE ControlJournal ----------------------------
(***************************************************************************)
(* The private journal of one client-stop or client-removal operation, as  *)
(* `internal/clientstop/journal.go` and `internal/clientremove/journal.go` *)
(* keep it under the target root:                                          *)
(*                                                                         *)
(*   .fsbind-operation.lock   created with the directory                   *)
(*   scratch/<dest>.pending   at most one staged marker                    *)
(*   intent.json              the reviewed plan                            *)
(*   attempt-NN.json          one per request intent, contiguous           *)
(*   response-NN.json         what the request's receipt said, if recorded *)
(*   complete.json            an attempt and what the completion rests on  *)
(*                                                                         *)
(* A marker says "accepted" (a complete receipt), "unknown" (one request,  *)
(* no complete receipt) or "unsent" (no request).  A completion says       *)
(* "accepted" when it attributes the change to its attempt and "unknown"   *)
(* when it proves no causality.                                            *)
(***************************************************************************)
EXTENDS Naturals

CONSTANTS
  MaxAttempts,     \* maximumAttempts
  Kinds            \* subset of {"stop", "remove"}: the operations of this run

ASSUME MaxAttemptsAssumption == MaxAttempts \in Nat \ {0}
ASSUME KindsAssumption == Kinds \subseteq {"stop", "remove"}

Attempts == 1..MaxAttempts
AttemptCounts == 0..MaxAttempts

Sayings == {"none", "unsent", "unknown", "accepted"}

Destinations == {"intent", "attempt", "response", "complete"}

NoPending == [dest |-> "none", seq |-> 0, says |-> "none", whole |-> FALSE]
Pendings == [dest : Destinations \cup {"none"}, seq : AttemptCounts, says : Sayings,
             whole : BOOLEAN]

NotDone == [seq |-> 0, says |-> "none"]
Completions == [seq : AttemptCounts, says : Sayings]

\* root: "none" (no directory), "bare" (mkdir done, lock file not yet),
\* "locked" (the lock file exists).
Journals == [kind : Kinds, root : {"none", "bare", "locked"}, scratch : BOOLEAN,
             pending : Pendings, intent : BOOLEAN, attempts : AttemptCounts,
             answers : [Attempts -> Sayings], done : Completions]

NoJournal(kind) == [kind |-> kind, root |-> "none", scratch |-> FALSE,
                    pending |-> NoPending, intent |-> FALSE, attempts |-> 0,
                    answers |-> [i \in Attempts |-> "none"], done |-> NotDone]

Complete(j) == j.done # NotDone

-----------------------------------------------------------------------------
(* What the attempts prove.                                                *)

\* effectfulAttemptPossible: some request was sent, or may have been.
EffectfulPossible(j) == \E i \in 1..j.attempts : j.answers[i] # "unsent"

\* Mutant of StopCompletionAttempt: the last attempt, whatever it proves.
StopCompletionLast(j) == {i \in 1..j.attempts : i = j.attempts}

\* completionAttempt: the newest attempt that may have had an effect.
StopCompletionAttempt(j) ==
  {i \in 1..j.attempts :
     /\ j.answers[i] # "unsent"
     /\ \A later \in (i + 1)..j.attempts : j.answers[later] = "unsent"}

\* validateCompletionForState of client stop ...
StopCompletionAgrees(j, seq, says) ==
  /\ seq \in 1..j.attempts
  /\ \A later \in (seq + 1)..j.attempts : j.answers[later] = "unsent"
  /\ IF says = "accepted" THEN j.answers[seq] = "accepted" ELSE j.answers[seq] # "unsent"

\* ... and of client removal, which only names the last attempt.
RemoveCompletionAgrees(j, seq, says) ==
  /\ j.attempts > 0 /\ seq = j.attempts
  /\ says = "accepted" => j.answers[seq] = "accepted"

CompletionAgrees(j, seq, says) ==
  IF j.kind = "stop" THEN StopCompletionAgrees(j, seq, says)
  ELSE RemoveCompletionAgrees(j, seq, says)

-----------------------------------------------------------------------------
(* Reading: loadState, and recoverPending's validation.                    *)

Uninitialized(j) == ~j.intent /\ j.attempts = 0 /\ ~Complete(j)

\* The published chain agrees with itself.
ChainAgrees(j) ==
  /\ j.scratch /\ j.intent
  /\ \A i \in Attempts : i > j.attempts => j.answers[i] = "none"
  /\ Complete(j) => CompletionAgrees(j, j.done.seq, j.done.says)

\* Mutant of PendingAccepted: a response is only accepted with its attempt.
PendingAcceptedTogether(j) ==
  /\ j.pending.whole
  /\ \/ j.pending.dest = "attempt" /\ j.pending.seq = j.attempts + 1
     \/ j.pending.dest = "response" /\ j.pending.seq = j.attempts + 1
     \/ j.pending.dest = "complete" /\ CompletionAgrees(j, j.pending.seq, j.pending.says)

\* validatePendingRaw: whole bytes that extend the published chain.
PendingAccepted(j) ==
  /\ j.pending.whole
  /\ \/ j.pending.dest = "attempt" /\ j.pending.seq = j.attempts + 1
     \/ j.pending.dest = "response" /\ j.pending.seq \in 1..j.attempts
     \/ j.pending.dest = "complete" /\ CompletionAgrees(j, j.pending.seq, j.pending.says)

\* recoverInitialization: with the reviewed plan in hand an empty journal is
\* written again, and a whole staged intent is published.
InitializationRecovers(j) ==
  /\ Uninitialized(j)
  /\ \/ j.pending = NoPending
     \/ j.pending.dest = "intent" /\ j.pending.whole

\* An effectful open can advance this journal.
Resumable(j) ==
  /\ j.root = "locked"
  /\ \/ InitializationRecovers(j)
     \/ ChainAgrees(j) /\ (j.pending = NoPending \/ PendingAccepted(j))

-----------------------------------------------------------------------------
(* Writing: the file-system steps of writeMarker and discardUnpublishedAttempt. *)

Published(j, m) ==
  CASE m.dest = "intent" -> j.intent
    [] m.dest = "attempt" -> j.attempts >= m.seq
    [] m.dest = "response" -> j.answers[m.seq] # "none"
    [] m.dest = "complete" -> Complete(j)

\* CreateRegular: the staged file exists and its bytes are not complete.
Stage(j, m) == [j EXCEPT !.pending = [dest |-> m.dest, seq |-> m.seq, says |-> m.says,
                                      whole |-> FALSE]]

\* The write and file.Sync: wherever the staged file survives, it is whole.
Fill(j) == [j EXCEPT !.pending.whole = (j.pending.dest # "none")]

\* CommitRegularNoReplace: one rename takes the staged file to its name.
Commit(j) ==
  LET m == j.pending IN
  [j EXCEPT !.pending  = NoPending,
            !.intent   = @ \/ m.dest = "intent",
            !.attempts = IF m.dest = "attempt" THEN m.seq ELSE @,
            !.answers  = IF m.dest = "response" THEN [@ EXCEPT ![m.seq] = m.says] ELSE @,
            !.done     = IF m.dest = "complete" THEN [seq |-> m.seq, says |-> m.says] ELSE @]

Discard(j) == [j EXCEPT !.pending = NoPending]
===============================================================================
