---------------------------- MODULE EffectLedger ----------------------------
(***************************************************************************)
(* What a journaled external effect promises, independently of files,      *)
(* locks, crashes and networks.  An effect (one add, stop, remove or       *)
(* exchange request) is authorised before it is performed, one             *)
(* authorisation performs it at most once, only the newest authorisation   *)
(* can perform it, and once the operation is settled nothing is authorised *)
(* or performed again.                                                     *)
(***************************************************************************)
EXTENDS Naturals

CONSTANT Budget           \* the greatest number of authorisations

VARIABLES authorised,     \* how many authorisations exist
          performed,      \* the authorisations whose effect was attempted
          settled         \* the operation has its final record

vars == <<authorised, performed, settled>>

TypeOK ==
  /\ authorised \in 0..Budget
  /\ performed \subseteq 1..Budget
  /\ settled \in BOOLEAN

Init == authorised = 0 /\ performed = {} /\ settled = FALSE

Authorise ==
  /\ ~settled /\ authorised < Budget
  /\ authorised' = authorised + 1
  /\ UNCHANGED <<performed, settled>>

Perform ==
  /\ ~settled /\ authorised > 0
  /\ authorised \notin performed
  /\ performed' = performed \cup {authorised}
  /\ UNCHANGED <<authorised, settled>>

Settle ==
  /\ ~settled /\ authorised > 0
  /\ settled' = TRUE
  /\ UNCHANGED <<authorised, performed>>

Next == Authorise \/ Perform \/ Settle

Spec == Init /\ [][Next]_vars
=============================================================================
