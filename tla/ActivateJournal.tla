--------------------------- MODULE ActivateJournal ---------------------------
(***************************************************************************)
(* The private journal of one client-activation operation, the directory   *)
(* `internal/clientactivate/journal.go` keeps under the target root:       *)
(*                                                                         *)
(*   intent.json                the reviewed plan                          *)
(*   recheck-attempt-NN.json    one per recheck request, contiguous        *)
(*   recheck-started.json       the client was seen checking               *)
(*   recheck-complete.json      the check was seen to end with all content *)
(*   start-attempt-NN.json      one per start request, contiguous          *)
(*   activation-complete.json   the client was seen started                *)
(*   scratch/<dest>.pending     at most one staged marker                  *)
(*                                                                         *)
(* The evidence markers name the attempt they follow; that name is kept as *)
(* its sequence number, 0 while the marker does not exist.                 *)
(***************************************************************************)
EXTENDS Naturals

CONSTANTS
  MaxAttempts,   \* maximumActionAttempts, for rechecks and for starts
  Actions        \* the reviewed actions an operation may have

ASSUME MaxAttemptsAssumption == MaxAttempts \in Nat \ {0}
ASSUME ActionsAssumption ==
  Actions \subseteq {"recheck_only", "recheck_then_start", "start_after_stop"}

Attempts == 1..MaxAttempts
AttemptCounts == 0..MaxAttempts

Requests == {"recheck", "start"}
Evidence == {"checking", "checked", "started"}
Destinations == {"intent"} \cup Requests \cup Evidence

NoPending == [dest |-> "none", seq |-> 0, whole |-> FALSE]
Pendings == [dest : Destinations \cup {"none"}, seq : AttemptCounts, whole : BOOLEAN]

\* root: "none" (no directory), "bare" (mkdir done, lock file not yet),
\* "locked" (the lock file exists).  The action is that of the plan whose
\* identity names the directory.
Journals == [action : Actions,
             root : {"none", "bare", "locked"}, scratch : BOOLEAN, pending : Pendings,
             intent : BOOLEAN, recheck : AttemptCounts, checking : AttemptCounts,
             checked : AttemptCounts, start : AttemptCounts, started : AttemptCounts]

NoJournal(action) ==
             [action |-> action, root |-> "none", scratch |-> FALSE, pending |-> NoPending,
              intent |-> FALSE, recheck |-> 0, checking |-> 0,
              checked |-> 0, start |-> 0, started |-> 0]

-----------------------------------------------------------------------------
(* Reading: readStateWithRetention, startPrerequisite and                  *)
(* validatePendingDestination.                                             *)

HasMarkers(j) ==
  j.intent \/ \E d \in Requests \cup Evidence : j[d] # 0

\* ErrInitializationIncomplete: at most a staged intent.
Uninitialized(j) == ~HasMarkers(j) /\ j.pending.dest \in {"none", "intent"}

\* A start needs the completed recheck, or the terminal stop of the plan.
StartReviewed(j) ==
  \/ j.action = "start_after_stop"
  \/ j.action = "recheck_then_start" /\ j.checked # 0

\* The attempt an evidence marker names.
Named(d) == IF d = "started" THEN "start" ELSE "recheck"

\* The published chain agrees with itself: evidence names the last attempt.
ChainAgrees(j) ==
  /\ j.scratch /\ j.intent
  /\ \A d \in Evidence : j[d] \in {0, j[Named(d)]}
  /\ j.action = "start_after_stop" => j.recheck = 0
  /\ j.start > 0 => StartReviewed(j)

\* Mutant of PendingAccepted: evidence must be newer than the attempt it names.
PendingAcceptedLate(j) ==
  /\ j.pending.whole
  /\ \/ j.pending.dest = "intent"
     \/ j.pending.dest \in Requests /\ j.pending.seq = j[j.pending.dest] + 1
     \/ j.pending.dest \in Evidence /\ j.pending.seq > j[Named(j.pending.dest)]

\* A staged marker that recovery accepts: whole bytes that extend the chain.
PendingAccepted(j) ==
  /\ j.pending.whole
  /\ \/ j.pending.dest = "intent"
     \/ /\ j.pending.dest \in Requests
        /\ j.pending.seq = j[j.pending.dest] + 1
        /\ j.pending.dest = "start" => StartReviewed(j)
     \/ /\ j.pending.dest \in Evidence
        /\ j[Named(j.pending.dest)] > 0
        /\ j.pending.seq = j[Named(j.pending.dest)]

\* A recovering open can advance this journal.
Resumable(j) ==
  /\ j.root = "locked"
  /\ Uninitialized(j) \/ ChainAgrees(j)
  /\ j.pending = NoPending \/ PendingAccepted(j)

-----------------------------------------------------------------------------
(* Writing: writeMarker and discardUnpublishedAttempt.                     *)

Published(j, dest, seq) ==
  CASE dest = "intent" -> j.intent
    [] dest \in Requests -> j[dest] >= seq
    [] dest \in Evidence -> j[dest] # 0

\* CreateRegular, write and file.Sync: the staged bytes are whole or torn.
Stage(j, dest, seq, whole) ==
  [j EXCEPT !.pending = [dest |-> dest, seq |-> seq, whole |-> whole]]

\* CommitRegularNoReplace: one rename takes the staged file to its name.
Commit(j) ==
  LET d == j.pending.dest
  IN  [j EXCEPT !.pending = NoPending,
                ![d] = IF d = "intent" THEN TRUE ELSE j.pending.seq]

Discard(j) == [j EXCEPT !.pending = NoPending]
=============================================================================
