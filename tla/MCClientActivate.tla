-------------------------- MODULE MCClientActivate --------------------------
(***************************************************************************)
(* A small instance of ClientActivate: the invocations are interchangeable.*)
(* Two invocations race while each kind of request has been attempted at   *)
(* most once.  One at a time follow: what repeats a request, what comes    *)
(* after evidence of the start, and the operations that stop at the end of *)
(* the check, which are the first part of those that go on to start.       *)
(***************************************************************************)
EXTENDS ClientActivate, FiniteSets, TLC

Symmetry == Permutations(Proc)

\* A second attempt of some kind was written, staged or is about to be.
Repeating ==
  \E r \in Requests :
    \/ disk[r] > 1
    \/ disk.pending.dest = r /\ disk.pending.seq > 1
    \/ \E p \in Proc : marker[p].dest = r /\ marker[p].seq > 1

OneAtATime == Cardinality({p \in Proc : pc[p] # "idle"}) <= 1

\* The constraint of the run.
RacesAreFirst == Repeating \/ disk.action = "recheck_only" \/ disk.started # 0 => OneAtATime
=============================================================================
