---------------------------- MODULE StorageIndex ----------------------------
(***************************************************************************)
(* `ptctl storage index refresh | refresh-discover | prune | inspect`      *)
(* (internal/storageindex over internal/metastore): the numbered           *)
(* generations of one storage profile's file index.                        *)
(*                                                                         *)
(* The store has no lock.  A refresh publishes a data record and then the  *)
(* descriptor that makes it a generation, one above the newest it listed,  *)
(* and looks for a rival before and after the descriptor; retention        *)
(* removes what newer generations supersede and the data that failed       *)
(* refreshes left behind; a reader lists, chooses the one newest           *)
(* generation, and reads its records one after the other.  Any of them may *)
(* be stopped at any step and run beside any other.                        *)
(*                                                                         *)
(* A listing is one step: it fails when the directory changes under it     *)
(* (Abort).  A listing over its budget is an arbitrary part of the names,  *)
(* which are digests.  The scan itself changes nothing (Abort when it is   *)
(* incomplete), and profiles are written once and never removed.           *)
(***************************************************************************)
EXTENDS Naturals, FiniteSets, FiniteSetsExt

CONSTANTS
  Proc,          \* the concurrent invocations
  MaxRefreshes,  \* bound: how many refreshes are ever begun
  Retentions,    \* the values of --retain-generations that users give
  MaxSnapshots,  \* the listing budget of a reader
  Budget         \* the listing budget of refresh and retention

ASSUME MaxRefreshesAssumption == MaxRefreshes \in Nat
ASSUME RetentionsAssumption == Retentions \subseteq 1..MaxSnapshots
ASSUME BudgetAssumption == MaxSnapshots \in Nat \ {0} /\ Budget \in Nat /\ MaxSnapshots <= Budget

VARIABLES
  disk,          \* the records that running commands see
  must,          \* the records that survive a power loss for certain
  may,           \* the records that may survive one
  generation,    \* the generation each snapshot was given; 0: not begun
  pc,            \* the next step of each invocation
  mine,          \* the snapshot it is publishing, reading or removing
  listed,        \* the names its retention pass listed: descriptors, then data
  oldest,        \* the oldest generation that pass keeps; 0: collects no orphans
  doomed,        \* the superseded snapshots it still has to remove
  orphans,       \* the data without descriptors it still has to remove
  stored,        \* history: the snapshots that were reported stored
  lone,          \* history: the invocation that no other overlapped
  regressed      \* history: a power loss took the newest generation back

storeVars == <<disk, must, may>>
passVars == <<listed, oldest, doomed, orphans>>
historyVars == <<stored, lone, regressed>>
vars == <<storeVars, generation, pc, mine, passVars, historyVars>>

Snapshots == 1..MaxRefreshes
Data(s) == <<"data", s>>
Descriptor(s) == <<"descriptor", s>>
Records == {"data", "descriptor"} \X Snapshots

RefreshSteps == {"data", "data_sync", "check", "descriptor", "descriptor_sync", "verify", "recheck", "stored"}
PruneSteps == {"list_data", "remove", "data_gone", "remove_descriptor", "descriptor_gone", "collect", "orphan_gone"}
ReadSteps == {"locate", "read"}

TypeOK ==
  /\ must \subseteq disk /\ disk \subseteq may /\ may \subseteq Records
  /\ generation \in [Snapshots -> 0..MaxRefreshes]
  /\ pc \in [Proc -> {"idle"} \cup RefreshSteps \cup PruneSteps \cup ReadSteps]
  /\ mine \in [Proc -> 0..MaxRefreshes]
  /\ listed \in [Proc -> SUBSET Snapshots]
  /\ oldest \in [Proc -> 0..MaxRefreshes]
  /\ doomed \in [Proc -> SUBSET Snapshots]
  /\ orphans \in [Proc -> SUBSET Snapshots]
  /\ stored \subseteq Snapshots
  /\ lone \subseteq Proc /\ Cardinality(lone) <= 1
  /\ regressed \in BOOLEAN

Init ==
  /\ disk = {} /\ must = {} /\ may = {}
  /\ generation = [s \in Snapshots |-> 0]
  /\ pc = [p \in Proc |-> "idle"]
  /\ mine = [p \in Proc |-> 0]
  /\ listed = [p \in Proc |-> {}]
  /\ oldest = [p \in Proc |-> 0]
  /\ doomed = [p \in Proc |-> {}]
  /\ orphans = [p \in Proc |-> {}]
  /\ stored = {} /\ lone = {} /\ regressed = FALSE

-----------------------------------------------------------------------------
(* The store and the frame of a step.                                      *)

Link(r) == disk' = disk \cup {r} /\ may' = may \cup {r} /\ UNCHANGED must

\* RemoveRecordExact: absence is success.
Unlink(r) == disk' = disk \ {r} /\ must' = must \ {r} /\ UNCHANGED may

\* Mutant of SyncStore: the directory was synced before the last unlink.
SyncStoreStale == must' = may /\ UNCHANGED <<disk, may>>

\* Every record is a name of one directory: a sync covers all of them.
SyncStore == must' = disk /\ may' = disk /\ UNCHANGED disk

Goto(p, step) == pc' = [pc EXCEPT ![p] = step]

\* The end of an invocation, and of what it remembered.
End(p) ==
  /\ Goto(p, "idle")
  /\ mine' = [mine EXCEPT ![p] = 0]
  /\ listed' = [listed EXCEPT ![p] = {}]
  /\ oldest' = [oldest EXCEPT ![p] = 0]
  /\ doomed' = [doomed EXCEPT ![p] = {}]
  /\ orphans' = [orphans EXCEPT ![p] = {}]
  /\ lone' = lone \ {p}

Begin(p, step) ==
  /\ pc[p] = "idle"
  /\ Goto(p, step)
  /\ lone' = IF \A q \in Proc \ {p} : pc[q] = "idle" THEN {p} ELSE {}

Syncs(p, at, next) ==
  /\ pc[p] = at /\ SyncStore /\ Goto(p, next)
  /\ UNCHANGED <<generation, mine, passVars, historyVars>>

Go(p, next) == Goto(p, next) /\ UNCHANGED <<mine, passVars, lone>>

-----------------------------------------------------------------------------
(* Listings.                                                               *)

Described == {s \in Snapshots : Descriptor(s) \in disk}
Kept == {s \in Snapshots : Data(s) \in disk}
Generations(S) == {generation[s] : s \in S}
Newest(S) == {s \in S : \A t \in S : generation[t] <= generation[s]}

\* What a listing of the names of S returns within a budget.
Listings(S, budget) ==
  {L \in SUBSET S : Cardinality(L) = IF Cardinality(S) <= budget THEN Cardinality(S) ELSE budget}

\* listDescriptors without allowPartial refuses an incomplete listing.
Complete == Cardinality(Described) <= Budget

-----------------------------------------------------------------------------
(* Refresh.                                                                *)

\* Mutant of NextGeneration: the descriptors are counted.
NextGenerationCounted == Cardinality(Described) + 1

\* nextGeneration: one more than the newest; a tie there is superseded.
NextGeneration == Max(Generations(Described) \cup {0}) + 1

BeginRefresh(p) ==
  /\ \E s \in Snapshots :
       /\ generation[s] = 0 /\ \A t \in Snapshots : t < s => generation[t] # 0
       /\ generation' = [generation EXCEPT ![s] = NextGeneration]
       /\ mine' = [mine EXCEPT ![p] = s]
  /\ Complete
  /\ Begin(p, "data")
  /\ UNCHANGED <<storeVars, passVars, stored, regressed>>

PublishData(p) ==
  /\ pc[p] = "data"
  /\ Link(Data(mine[p]))
  /\ Go(p, "data_sync") /\ UNCHANGED <<generation, stored, regressed>>

DataSyncs(p) == Syncs(p, "data_sync", "check")

\* checkGenerationUnclaimed before the descriptor: nothing as new may exist.
Unrivalled(s) == Complete /\ \A t \in Described : generation[t] < generation[s]

CheckGeneration(p) ==
  /\ pc[p] = "check"
  /\ IF Unrivalled(mine[p]) THEN Go(p, "descriptor") ELSE End(p)
  /\ UNCHANGED <<storeVars, generation, stored, regressed>>

PublishDescriptor(p) ==
  /\ pc[p] = "descriptor"
  /\ Link(Descriptor(mine[p]))
  /\ Go(p, "descriptor_sync") /\ UNCHANGED <<generation, stored, regressed>>

\* The new generation is durable: what a power loss took back is superseded.
DescriptorSyncs(p) ==
  /\ pc[p] = "descriptor_sync"
  /\ SyncStore
  /\ regressed' = FALSE
  /\ Go(p, "verify") /\ UNCHANGED <<generation, stored>>

VerifySet(p) ==
  /\ pc[p] = "verify"
  /\ IF {Data(mine[p]), Descriptor(mine[p])} \subseteq disk THEN Go(p, "recheck") ELSE End(p)
  /\ UNCHANGED <<storeVars, generation, stored, regressed>>

\* Mutant of Unique: the recheck after the descriptor is dropped.
UniqueUnchecked(s) == Complete

\* checkGenerationUnclaimed after the descriptor: only a tie is a conflict.
Unique(s) == Complete /\ \A t \in Described \ {s} : generation[t] # generation[s]

RecheckGeneration(p) ==
  /\ pc[p] = "recheck"
  /\ IF Unique(mine[p])
       THEN /\ stored' = stored \cup {mine[p]}
            /\ listed' = [listed EXCEPT ![p] = Described]
            /\ Goto(p, "stored") /\ UNCHANGED <<mine, oldest, doomed, orphans, lone>>
       ELSE End(p) /\ UNCHANGED stored
  /\ UNCHANGED <<storeVars, generation, regressed>>

-----------------------------------------------------------------------------
(* Retention.                                                              *)

\* The oldest of the `retain` newest generations of a listing; 0 if fewer.
OldestKept(L, retain) ==
  Max({0} \cup {g \in Generations(L) : Cardinality({h \in Generations(L) : h >= g}) >= retain})

\* Mutant of Superseded: the oldest generation to keep goes too.
SupersededTooMany(L, retain) == {s \in L : generation[s] <= OldestKept(L, retain)}

Superseded(L, retain) == {s \in L : generation[s] < OldestKept(L, retain)}

\* PruneSnapshots on a listing of descriptors, all of them or a part.
StartPass(p, L, complete, retain, protected) ==
  /\ listed' = [listed EXCEPT ![p] = L]
  /\ oldest' = [oldest EXCEPT ![p] = IF complete THEN OldestKept(L, retain) ELSE 0]
  /\ doomed' = [doomed EXCEPT ![p] = Superseded(L, retain) \ protected]
  /\ UNCHANGED orphans

BeginPrune(p) ==
  /\ \E L \in Listings(Described, Budget), retain \in Retentions : StartPass(p, L, L = Described, retain, {})
  /\ Begin(p, "list_data")
  /\ UNCHANGED <<storeVars, generation, mine, stored, regressed>>

\* A stored refresh ends, prunes on the listing it has just verified and
\* protects its own descriptor, or reads its snapshot (refresh-discover).
AfterStored(p) ==
  /\ pc[p] = "stored"
  /\ \/ End(p)
     \/ Go(p, "locate")
     \/ /\ \E retain \in Retentions : StartPass(p, listed[p], TRUE, retain, {mine[p]})
        /\ Goto(p, "list_data") /\ UNCHANGED <<mine, lone>>
  /\ UNCHANGED <<storeVars, generation, stored, regressed>>

\* The data names are listed once, before any removal.  Data that no listed
\* descriptor names, of a generation older than the kept ones, is an orphan.
ListData(p) ==
  /\ pc[p] = "list_data"
  /\ \E K \in Listings(Kept, Budget) :
       /\ listed' = [listed EXCEPT ![p] = K]
       /\ orphans' = [orphans EXCEPT ![p] = {s \in K \ listed[p] : generation[s] < oldest[p]}]
  /\ Goto(p, "remove")
  /\ UNCHANGED <<storeVars, generation, mine, oldest, doomed, historyVars>>

\* The oldest superseded snapshot is next, its data before its descriptor.
NextDoomed(p) == {s \in doomed[p] : \A t \in doomed[p] : generation[s] <= generation[t]}

PruneStep(p, at, next) == pc[p] = at /\ Goto(p, next) /\ UNCHANGED <<generation, historyVars>>

\* The data goes first: a descriptor without data is one that nobody selects.
RemoveData(p) ==
  \/ /\ \E s \in NextDoomed(p) :
          /\ Unlink(Data(s))
          /\ mine' = [mine EXCEPT ![p] = s]
          /\ doomed' = [doomed EXCEPT ![p] = @ \ {s}]
     /\ PruneStep(p, "remove", "data_gone")
     /\ UNCHANGED <<listed, oldest, orphans>>
  \/ /\ doomed[p] = {} /\ PruneStep(p, "remove", "collect")
     /\ UNCHANGED <<storeVars, mine, passVars>>

\* Data that was not there when the names were listed is not removed, nor synced.
DataGone(p) ==
  /\ PruneStep(p, "data_gone", "remove_descriptor")
  /\ SyncStore \/ UNCHANGED storeVars
  /\ UNCHANGED <<mine, passVars>>

RemoveDescriptor(p) ==
  /\ PruneStep(p, "remove_descriptor", "descriptor_gone")
  /\ Unlink(Descriptor(mine[p])) /\ UNCHANGED <<mine, passVars>>

DescriptorGone(p) == Syncs(p, "descriptor_gone", "remove")

CollectOrphan(p) ==
  /\ \E s \in orphans[p] :
       /\ Unlink(Data(s))
       /\ orphans' = [orphans EXCEPT ![p] = @ \ {s}]
  /\ PruneStep(p, "collect", "orphan_gone")
  /\ UNCHANGED <<mine, listed, oldest, doomed>>

OrphanGone(p) == Syncs(p, "orphan_gone", "collect")

EndPass(p) ==
  /\ pc[p] = "collect" /\ orphans[p] = {}
  /\ End(p) /\ UNCHANGED <<storeVars, generation, stored, regressed>>

-----------------------------------------------------------------------------
(* Readers.                                                                *)

\* SelectSnapshot: one newest generation, or none.
BeginRead(p) ==
  /\ Cardinality(Described) <= MaxSnapshots
  /\ \E s \in Snapshots :
       /\ Newest(Described) = {s}
       /\ mine' = [mine EXCEPT ![p] = s]
  /\ Begin(p, "locate")
  /\ UNCHANGED <<storeVars, generation, passVars, stored, regressed>>

\* LoadCandidates reads the descriptor again, then the data it names.
Locate(p) ==
  /\ pc[p] = "locate"
  /\ IF Descriptor(mine[p]) \in disk THEN Go(p, "read") ELSE End(p)
  /\ UNCHANGED <<storeVars, generation, stored, regressed>>

ReadData(p) ==
  /\ pc[p] = "read"
  /\ End(p) /\ UNCHANGED <<storeVars, generation, stored, regressed>>

-----------------------------------------------------------------------------
(* Failure.                                                                *)

\* An error, a cancelled context or a killed process.
Abort(p) == pc[p] # "idle" /\ End(p) /\ UNCHANGED <<storeVars, generation, stored, regressed>>

\* The image of a power loss that keeps a removal and not the newest generation,
\* which the removal relied on, goes back: what was reported stored may be gone.
GoesBack(kept) ==
  /\ ~(may \subseteq disk)
  /\ Newest(Described) # {} /\ \A s \in Newest(Described) : Descriptor(s) \notin kept

PowerLoss ==
  /\ \E kept \in SUBSET may :
       /\ must \subseteq kept /\ disk' = kept /\ must' = kept /\ may' = kept
       /\ regressed' = (regressed \/ GoesBack(kept))
       /\ stored' = IF GoesBack(kept) THEN {} ELSE stored
  /\ pc' = [p \in Proc |-> "idle"]
  /\ mine' = [p \in Proc |-> 0]
  /\ listed' = [p \in Proc |-> {}]
  /\ oldest' = [p \in Proc |-> 0]
  /\ doomed' = [p \in Proc |-> {}]
  /\ orphans' = [p \in Proc |-> {}]
  /\ lone' = {}
  /\ UNCHANGED generation

Refresh(p) ==
  \/ BeginRefresh(p) \/ PublishData(p) \/ DataSyncs(p) \/ CheckGeneration(p)
  \/ PublishDescriptor(p) \/ DescriptorSyncs(p) \/ VerifySet(p) \/ RecheckGeneration(p) \/ AfterStored(p)

Prune(p) ==
  \/ BeginPrune(p) \/ ListData(p) \/ RemoveData(p) \/ DataGone(p) \/ RemoveDescriptor(p) \/ DescriptorGone(p)
  \/ CollectOrphan(p) \/ OrphanGone(p) \/ EndPass(p)

Query(p) == BeginRead(p) \/ Locate(p) \/ ReadData(p)

Next ==
  \/ \E p \in Proc : Refresh(p)
  \/ \E p \in Proc : Prune(p)
  \/ \E p \in Proc : Query(p)
  \/ \E p \in Proc : Abort(p)
  \/ PowerLoss

Spec == Init /\ [][Next]_vars

-----------------------------------------------------------------------------
(* Properties.                                                             *)

Whole(s) == {Data(s), Descriptor(s)} \subseteq disk
IsSuperseded(s) == \E t \in Described : generation[t] > generation[s]

Reading == {p \in Proc : pc[p] \in ReadSteps}

\* A snapshot that was reported stored, or that a reader selected, or that has
\* a descriptor at all, is complete or has a newer generation above it, whatever
\* refreshes, retention passes and power losses did: retention acts on listings
\* that are out of date, and a stalled refresh publishes a descriptor late.
\* (A power loss that takes back the newest generation, on which a removal had
\* relied, goes back behind it; the next durable refresh makes up for it.)
NothingCurrentIsLost ==
  regressed \/ \A s \in Described \cup stored \cup {mine[p] : p \in Reading} :
                 Whole(s) \/ IsSuperseded(s)

\* refresh.go:103: a refresh "never reports a tie as stored".  Of two that
\* passed the first check together, at most one is told that it is the newest.
StoredIsUnique == Cardinality(stored \cap Newest(Described)) <= 1

\* The index keeps its promise to readers: the newest generation can be read,
\* and is not one of two that were both reported stored.
IndexIsSound == NothingCurrentIsLost /\ StoredIsUnique

\* Whatever failed, tied, orphaned or lost generations came before, a refresh
\* that no other command overlaps has no rival, and ends as the one newest
\* generation, which no power loss can take: "publishing a strictly newer
\* complete generation is the recovery" (nextGeneration).
LoneRefreshRecovers ==
  \A p \in lone :
    /\ pc[p] = "check" => \A s \in Described : generation[s] < generation[mine[p]]
    /\ pc[p] \in {"verify", "recheck", "stored"} =>
         Newest(Described) = {mine[p]} /\ {Data(mine[p]), Descriptor(mine[p])} \subseteq must

\* A prune that no other command overlaps and that saw all descriptors leaves
\* no generation older than those it keeps, and none of their data that it
\* could list, also after a power loss: what races and crashes left behind is
\* within reach of one undisturbed prune.
LonePruneConverges ==
  \A p \in lone :
    pc[p] = "collect" /\ orphans[p] = {} /\ oldest[p] > 0 =>
      /\ \A s \in Described : generation[s] >= oldest[p]
      /\ \A s \in listed[p] : generation[s] < oldest[p] => Data(s) \notin may

\* One undisturbed command is enough to recover from whatever happened before.
OneCommandRecovers == LoneRefreshRecovers /\ LonePruneConverges
=============================================================================
