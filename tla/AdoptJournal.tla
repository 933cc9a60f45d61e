---------------------------- MODULE AdoptJournal ----------------------------
(***************************************************************************)
(* The private journal of one client-adoption operation, as the directory  *)
(* `internal/clientadopt/journal.go` keeps under the target root:          *)
(*                                                                         *)
(*   .fsbind-operation.lock   created with the directory                   *)
(*   scratch/<dest>.pending   at most one staged marker                    *)
(*   intent.json              the reviewed plan                            *)
(*   attempt-NN.json          one per request intent, contiguous           *)
(*   complete.json            names the last attempt                       *)
(*                                                                         *)
(* The name of the directory is derived from the plan, so a journal record *)
(* carries its plan from the start.  Marker bytes are abstracted to the sequence *)
(* number that the readers compare, and to whether the staged file is      *)
(* whole (written, synced and re-read) or torn.  The operators are pure:   *)
(* the modules that own a disk say when they are applied.                  *)
(***************************************************************************)
EXTENDS Naturals

CONSTANTS
  MaxAttempts,     \* maximumAttempts
  Drivers,         \* subset of {"qbittorrent", "transmission"}
  Actions          \* subset of {"add_stopped", "adopt_existing"}

ASSUME MaxAttemptsAssumption == MaxAttempts \in Nat \ {0}
ASSUME DriversAssumption == Drivers \subseteq {"qbittorrent", "transmission"}
ASSUME ActionsAssumption == Actions \subseteq {"add_stopped", "adopt_existing"}

Attempts == 1..MaxAttempts
AttemptCounts == 0..MaxAttempts

Destinations == {"intent", "attempt", "complete"}

\* The scratch directory holds one staged marker or none.
NoPending == [dest |-> "none", seq |-> 0, whole |-> FALSE]
Pendings == [dest : Destinations \cup {"none"}, seq : AttemptCounts, whole : BOOLEAN]

Plans == [driver : Drivers, action : Actions]

\* root: "none" (no directory), "bare" (mkdir done, lock file not yet),
\* "locked" (the lock file exists).
Journals == [plan : Plans, root : {"none", "bare", "locked"}, scratch : BOOLEAN,
             pending : Pendings, intent : BOOLEAN,
             attempts : AttemptCounts, done : AttemptCounts]

NoJournal(plan) == [plan |-> plan, root |-> "none", scratch |-> FALSE,
                    pending |-> NoPending, intent |-> FALSE, attempts |-> 0, done |-> 0]

-----------------------------------------------------------------------------
(* Reading: readStateWithRetention, and recoverPending's validation.       *)

HasMarkers(j) == j.intent \/ j.attempts > 0 \/ j.done # 0

\* ErrInitializationIncomplete: the lock and an optional empty scratch only.
Uninitialized(j) == ~HasMarkers(j) /\ j.pending = NoPending

\* No published intent, but the whole bytes of one are staged.
IntentStaged(j) ==
  /\ j.scratch /\ ~HasMarkers(j)
  /\ j.pending.dest = "intent" /\ j.pending.whole

\* The published chain agrees with itself: a completion names the last attempt.
ChainAgrees(j) == j.scratch /\ j.intent /\ j.done \in {0, j.attempts}

Readable(j) == IntentStaged(j) \/ ChainAgrees(j)

\* Mutant of PendingAccepted: a staged attempt must be the last published one.
PendingAcceptedLate(j) ==
  /\ j.pending.whole
  /\ \/ j.pending.dest = "intent" /\ j.pending.seq = 0
     \/ j.pending.dest \in {"attempt", "complete"} /\ j.attempts > 0 /\ j.pending.seq = j.attempts

\* A staged marker that recovery accepts: whole bytes that extend the chain.
PendingAccepted(j) ==
  /\ j.pending.whole
  /\ \/ j.pending.dest = "intent" /\ j.pending.seq = 0
     \/ j.pending.dest = "attempt" /\ j.pending.seq = j.attempts + 1
     \/ j.pending.dest = "complete" /\ j.attempts > 0 /\ j.pending.seq = j.attempts

\* An effectful open can advance this journal.
Resumable(j) ==
  /\ j.root = "locked"
  /\ \/ Uninitialized(j)
     \/ Readable(j) /\ (j.pending = NoPending \/ PendingAccepted(j))

-----------------------------------------------------------------------------
(* Writing: the file-system steps of writeMarker and discardUnpublishedAttempt. *)

Published(j, dest, seq) ==
  CASE dest = "intent" -> j.intent
    [] dest = "attempt" -> j.attempts >= seq
    [] dest = "complete" -> j.done # 0

\* CreateRegular: the staged file exists and its bytes are not complete.
Stage(j, dest, seq) == [j EXCEPT !.pending = [dest |-> dest, seq |-> seq, whole |-> FALSE]]

\* The write and file.Sync: wherever the staged file survives, it is whole.
Fill(j) == [j EXCEPT !.pending.whole = (j.pending.dest # "none")]

\* CommitRegularNoReplace: one rename takes the staged file to its name.
Commit(j) ==
  [j EXCEPT !.pending  = NoPending,
            !.intent   = @ \/ j.pending.dest = "intent",
            !.attempts = IF j.pending.dest = "attempt" THEN j.pending.seq ELSE @,
            !.done     = IF j.pending.dest = "complete" THEN j.pending.seq ELSE @]

Discard(j) == [j EXCEPT !.pending = NoPending]
=============================================================================
