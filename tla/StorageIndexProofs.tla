------------------------- MODULE StorageIndexProofs -------------------------
(***************************************************************************)
(* Proofs about StorageIndex, for every set of invocations, any number of  *)
(* refreshes, all retentions and listing budgets.                          *)
(*                                                                         *)
(* There is no lock.  The argument is that whatever a retention pass       *)
(* removes, on a listing however old, has a newer generation above it, and *)
(* that this outlives everything but a power loss that takes the newest    *)
(* generation back (Safe).                                                 *)
(***************************************************************************)
EXTENDS StorageIndex, WellFoundedInduction, FiniteSetTheorems, TLAPS

-----------------------------------------------------------------------------
(* The invariant.                                                          *)

Begun(s) == s \in Snapshots /\ generation[s] > 0

\* Superseded, also in every image that keeps what the removals relied on: as
\* long as a removal is not synced, a power loss that takes the newest
\* generation back counts as a regress, and once it is, the newer one is durable.
Safe(s) ==
  /\ IsSuperseded(s)
  /\ may \subseteq disk => \E t \in Snapshots : Descriptor(t) \in must /\ generation[t] > generation[s]

\* A generation that regressed is made up for by every refresh under way.
Unstored == {"data", "data_sync", "check", "descriptor", "descriptor_sync"}
Outdone(s) ==
  /\ regressed /\ Descriptor(s) \in disk
  /\ \A p \in Proc : pc[p] \in Unstored => generation[mine[p]] > generation[s]

\* Snapshots are begun in order, and a record is of one that was begun.
Numbered ==
  /\ \A s \in Snapshots : generation[s] <= s
  /\ \A s, t \in Snapshots : s < t /\ generation[t] > 0 => generation[s] > 0
  /\ \A s \in Snapshots : Data(s) \in may \/ Descriptor(s) \in may => Begun(s)
  /\ \A s \in stored : Begun(s)

\* A refresh has a snapshot of its own, which it publishes once.
Apart == \A p, q \in Proc : p # q /\ {pc[p], pc[q]} \subseteq RefreshSteps => mine[p] # mine[q]
Owned(p) ==
  /\ pc[p] \in RefreshSteps \cup ReadSteps => Begun(mine[p])
  /\ pc[p] = "data" => Data(mine[p]) \notin may
  /\ pc[p] \in Unstored \ {"descriptor_sync"} => Descriptor(mine[p]) \notin may

\* However old the listing of a retention pass, what it removes is superseded.
Removing == {"data_gone", "remove_descriptor", "descriptor_gone"}
AtLeast(g) == \E t \in Described : generation[t] >= g
Behind(p) ==
  /\ \A s \in doomed[p] \cup orphans[p] : Begun(s) /\ IsSuperseded(s)
  /\ pc[p] \in Removing => Begun(mine[p]) /\ IsSuperseded(mine[p])
  /\ oldest[p] > 0 => AtLeast(oldest[p])
  /\ pc[p] = "stored" => \A s \in listed[p] : Begun(s) /\ (s \in Described \/ IsSuperseded(s))

\* The data is durable before the descriptor appears, and both before a report;
\* after that only a retention pass takes them away.
DataOnDisk(s) == Data(s) \in disk \/ Safe(s)
DataHeld(s) == Data(s) \in must \/ Safe(s)
DescriptorOnDisk(s) == Descriptor(s) \in disk \/ Safe(s)
PairHeld(s) == {Data(s), Descriptor(s)} \subseteq must \/ Safe(s)
PairOnDisk(s) == Whole(s) \/ Safe(s)
Held(p) ==
  /\ pc[p] = "data_sync" => DataOnDisk(mine[p])
  /\ pc[p] \in {"check", "descriptor", "descriptor_sync"} => DataHeld(mine[p])
  /\ pc[p] = "descriptor_sync" => DescriptorOnDisk(mine[p])
  /\ pc[p] \in {"verify", "recheck", "stored"} => PairHeld(mine[p])
  /\ pc[p] \in ReadSteps => PairOnDisk(mine[p]) \/ Outdone(mine[p])

Selectable == \A s \in Snapshots : Descriptor(s) \in may => DataHeld(s) \/ Outdone(s)
Reported == \A s \in stored : PairHeld(s)

\* Of two that were reported stored with one generation a newer one exists.
Ties == \A s, t \in stored : s # t /\ generation[s] = generation[t] => Safe(s)

\* After a regress nothing is reported before a new generation is durable.
Behindhand == regressed => stored = {} /\ \A p \in Proc : pc[p] \notin {"verify", "recheck", "stored"}

SInv ==
  /\ TypeOK /\ (\A p, q \in lone : p = q) /\ Numbered /\ Apart /\ Selectable /\ Reported /\ Ties /\ Behindhand
  /\ \A p \in Proc : Owned(p) /\ Behind(p) /\ Held(p)

-----------------------------------------------------------------------------
(* The greatest of some numbers, and the oldest generation to keep.        *)

LEMMA MaxIs ==
  ASSUME NEW N \in Nat, NEW S \in SUBSET (0..N), S # {}
  PROVE  Max(S) \in S /\ \A y \in S : y <= Max(S)
<1> DEFINE T == {x \in Nat : x <= N /\ N - x \in S}
           R == OpToRel(<, Nat)
<1>1. T \subseteq Nat OBVIOUS
<1>2. T # {}
  <2>1. PICK y \in S : TRUE OBVIOUS
  <2>2. N - y \in T /\ N - (N - y) = y BY <2>1
  <2> QED BY <2>2
<1>3. IsWellFoundedOn(R, Nat) BY NatLessThanWellFounded, Zenon
<1>4. \E x \in T : \A y \in T : ~(<<y, x>> \in R)
  <2> HIDE DEF T, R
  <2> QED BY <1>1, <1>2, <1>3, WFMin
<1>5. PICK x \in T : \A y \in T : ~(<<y, x>> \in R) BY <1>4
<1>6. \A y \in T : ~(y < x) BY <1>5, Zenon DEF OpToRel
<1>7. ASSUME NEW z \in S PROVE z <= N - x
  <2>1. N - z \in T
    <3>1. N - z \in Nat /\ N - z <= N /\ N - (N - z) = z OBVIOUS
    <3> QED BY <3>1
  <2> QED BY <1>6, <2>1
<1>8. \E m \in S : \A y \in S : m >= y BY <1>7
<1> QED BY <1>8 DEF Max

LEMMA SmallSet == ASSUME NEW S, \A x, y \in S : x = y PROVE Cardinality(S) <= 1
<1>1. CASE S = {} BY <1>1, FS_EmptySet
<1>2. ASSUME NEW x \in S PROVE Cardinality(S) <= 1
  <2>1. S = {x} OBVIOUS
  <2> QED BY <2>1, FS_Singleton
<1> QED BY <1>1, <1>2

LEMMA SnapshotsAre == Snapshots \subseteq Nat \ {0} /\ \A s \in Snapshots : s <= MaxRefreshes
BY MaxRefreshesAssumption DEF Snapshots

LEMMA RecordsAre ==
  \A s, t : /\ Data(s) # Descriptor(t)
            /\ Data(s) = Data(t) <=> s = t
            /\ Descriptor(s) = Descriptor(t) <=> s = t
BY DEF Data, Descriptor

LEMMA OldestIs ==
  ASSUME TypeOK, NEW L \in SUBSET Snapshots, NEW retain
  PROVE  /\ OldestKept(L, retain) \in 0..MaxRefreshes
         /\ OldestKept(L, retain) > 0 => \E t \in L : generation[t] = OldestKept(L, retain)
<1> DEFINE kept == {g \in Generations(L) : Cardinality({h \in Generations(L) : h >= g}) >= retain}
<1>1. {0} \cup kept \in SUBSET (0..MaxRefreshes)
  BY MaxRefreshesAssumption DEF Generations, TypeOK
<1>2. Max({0} \cup kept) \in {0} \cup kept BY <1>1, MaxRefreshesAssumption, MaxIs
<1>3. OldestKept(L, retain) = Max({0} \cup kept) BY DEF OldestKept
<1>4. OldestKept(L, retain) \in 0..MaxRefreshes BY <1>1, <1>2, <1>3
<1>5. OldestKept(L, retain) > 0 => OldestKept(L, retain) \in Generations(L) BY <1>2, <1>3
<1> QED BY <1>4, <1>5 DEF Generations


-----------------------------------------------------------------------------
(* What a step does to the records, and what outlives it.                  *)

StoreMove(p) ==
  \/ UNCHANGED storeVars
  \/ SyncStore
  \/ pc[p] = "data" /\ Link(Data(mine[p]))
  \/ pc[p] = "descriptor" /\ Link(Descriptor(mine[p]))
  \/ \E s \in Snapshots :
       Begun(s) /\ IsSuperseded(s) /\ (Unlink(Data(s)) \/ Unlink(Descriptor(s)))

GenerationsStay == \A s \in Snapshots : generation[s] > 0 => generation'[s] = generation[s]

LEMMA RecordsBegun ==
  ASSUME TypeOK, Numbered
  PROVE  /\ \A t \in Described : Begun(t)
         /\ \A t \in Snapshots : Data(t) \in may \/ Descriptor(t) \in may => Begun(t)
         /\ \A t \in Snapshots : generation[t] \in Nat /\ t \in Nat
         /\ must \subseteq disk /\ disk \subseteq may
BY SnapshotsAre, MaxRefreshesAssumption DEF TypeOK, Numbered, Described

\* A removal of what is superseded leaves something newer.
LEMMA NewerStays ==
  ASSUME TypeOK, Numbered, NEW p \in Proc, StoreMove(p), GenerationsStay, generation' \in [Snapshots -> 0..MaxRefreshes],
         NEW g \in Nat, NEW t \in Described, generation[t] >= g
  PROVE  \E u \in Described' : generation'[u] >= g
<1>1. /\ \A u \in Described : Begun(u)
      /\ \A u \in Snapshots : generation[u] \in Nat
  BY RecordsBegun
<1>2. ASSUME NEW u \in Described, generation[u] >= g, Descriptor(u) \in disk'
      PROVE  \E v \in Described' : generation'[v] >= g
  <2>1. u \in Described' /\ generation'[u] = generation[u]
    BY <1>1, <1>2 DEF Described, GenerationsStay, Begun
  <2> QED BY <1>2, <2>1
<1>3. CASE disk \subseteq disk' BY <1>2, <1>3 DEF Described
<1>4. ASSUME NEW s \in Snapshots, Begun(s), IsSuperseded(s), Unlink(Data(s)) \/ Unlink(Descriptor(s))
      PROVE  \E u \in Described' : generation'[u] >= g
  <2>1. CASE Descriptor(t) \in disk' BY <1>2, <2>1
  <2>2. CASE Descriptor(t) \notin disk'
    <3>1. t = s BY <1>4, <2>2, RecordsAre DEF Unlink, Described
    <3>2. PICK u \in Described : generation[u] > generation[s] BY <1>4 DEF IsSuperseded
    <3>3. u # s /\ Descriptor(u) \in disk' BY <1>1, <1>4, <3>2, RecordsAre DEF Unlink, Described, Begun
    <3>4. generation[u] >= g BY <1>1, <3>1, <3>2 DEF Begun
    <3> QED BY <1>2, <3>3, <3>4
  <2> QED BY <2>1, <2>2
<1> QED BY <1>3, <1>4 DEF StoreMove, storeVars, SyncStore, Link

LEMMA SupersededStays ==
  ASSUME TypeOK, Numbered, NEW p \in Proc, StoreMove(p), GenerationsStay, generation' \in [Snapshots -> 0..MaxRefreshes],
         NEW s, Begun(s)
  PROVE  /\ IsSuperseded(s) => IsSuperseded(s)'
         /\ s \in Described \/ IsSuperseded(s) => (s \in Described \/ IsSuperseded(s))'
         /\ Begun(s)' /\ generation'[s] = generation[s]
<1>1. /\ \A u \in Described : Begun(u)
      /\ \A u \in Snapshots : generation[u] \in Nat /\ generation'[u] \in Nat
      /\ Described' \subseteq Snapshots
  BY RecordsBegun, MaxRefreshesAssumption DEF Described
<1>2. Begun(s)' /\ generation'[s] = generation[s] BY DEF Begun, GenerationsStay
<1>3. ASSUME IsSuperseded(s) PROVE IsSuperseded(s)'
  <2>1. PICK t \in Described : generation[t] > generation[s] BY <1>3 DEF IsSuperseded
  <2>2. generation[s] + 1 \in Nat /\ generation[t] >= generation[s] + 1 BY <1>1, <2>1 DEF Begun
  <2>3. \E u \in Described' : generation'[u] >= generation[s] + 1 BY <2>1, <2>2, NewerStays
  <2>4. \E u \in Described' : generation'[u] > generation'[s] BY <1>1, <1>2, <2>3 DEF Begun
  <2> QED BY <2>4 DEF IsSuperseded
<1>4. ASSUME s \in Described PROVE (s \in Described \/ IsSuperseded(s))'
  <2>1. CASE disk \subseteq disk' BY <1>4, <2>1 DEF Described
  <2>2. ASSUME NEW x \in Snapshots, IsSuperseded(x), Unlink(Data(x)) \/ Unlink(Descriptor(x))
        PROVE  (s \in Described \/ IsSuperseded(s))'
    <3>1. CASE s = x BY <1>3, <2>2, <3>1
    <3>2. CASE s # x BY <1>4, <2>2, <3>2, RecordsAre DEF Unlink, Described
    <3> QED BY <3>1, <3>2
  <2> QED BY <2>1, <2>2 DEF StoreMove, storeVars, SyncStore, Link
<1> QED BY <1>2, <1>3, <1>4

\* What is removed is safe, and what is safe stays so.
LEMMA SafeStays ==
  ASSUME TypeOK, Numbered, NEW p \in Proc, Owned(p), StoreMove(p), GenerationsStay,
         generation' \in [Snapshots -> 0..MaxRefreshes], NEW s, Begun(s), Safe(s)
  PROVE  Safe(s)'
<1>1. IsSuperseded(s)' /\ generation'[s] = generation[s] BY SupersededStays DEF Safe
<1>2. /\ \A u \in Snapshots : Descriptor(u) \in must => Begun(u)
      /\ must \subseteq disk /\ disk \subseteq may
  BY RecordsBegun
<1>3. ASSUME NEW t \in Snapshots, Descriptor(t) \in must, Descriptor(t) \in must', generation[t] > generation[s]
      PROVE  Safe(s)'
  <2>1. generation'[t] = generation[t] BY <1>2, <1>3 DEF GenerationsStay, Begun
  <2> QED BY <1>1, <1>3, <2>1 DEF Safe
<1>4. CASE UNCHANGED storeVars
  <2>1. CASE may \subseteq disk BY <1>3, <1>4, <2>1 DEF Safe, storeVars
  <2>2. CASE ~(may \subseteq disk) BY <1>1, <1>4, <2>2 DEF Safe, storeVars
  <2> QED BY <2>1, <2>2
<1>5. CASE SyncStore
  <2>1. \E t \in Snapshots : Descriptor(t) \in disk' /\ generation'[t] > generation'[s]
    BY <1>1 DEF IsSuperseded, Described
  <2> QED BY <1>1, <1>5, <2>1 DEF Safe, SyncStore
<1>6. ASSUME NEW r, r \notin may, Link(r) PROVE Safe(s)'
  <2>1. may' \subseteq disk' => may \subseteq disk BY <1>6 DEF Link
  <2>2. CASE may \subseteq disk BY <1>3, <1>6, <2>2 DEF Safe, Link
  <2>3. CASE ~(may \subseteq disk) BY <1>1, <2>1, <2>3 DEF Safe
  <2> QED BY <2>2, <2>3
<1>7. ASSUME NEW r, Unlink(r) PROVE Safe(s)'
  <2>1. CASE r \in may BY <1>1, <1>7, <2>1 DEF Safe, Unlink
  <2>2. CASE r \notin may
    <3>1. disk' = disk /\ must' = must /\ may' = may BY <1>2, <1>7, <2>2 DEF Unlink
    <3> QED BY <1>4, <3>1 DEF storeVars
  <2> QED BY <2>1, <2>2
<1> QED BY <1>4, <1>5, <1>6, <1>7 DEF StoreMove, Owned, Unstored

LEMMA HeldStays ==
  ASSUME TypeOK, Numbered, NEW p \in Proc, Owned(p), StoreMove(p), GenerationsStay,
         generation' \in [Snapshots -> 0..MaxRefreshes], NEW s, Begun(s)
  PROVE  /\ DataOnDisk(s) => DataOnDisk(s)'
         /\ DataHeld(s) => DataHeld(s)'
         /\ DescriptorOnDisk(s) => DescriptorOnDisk(s)'
         /\ PairHeld(s) => PairHeld(s)'
         /\ PairOnDisk(s) => PairOnDisk(s)'
<1>1. Safe(s) => Safe(s)' BY SafeStays
<1>2. must \subseteq disk /\ disk \subseteq may BY RecordsBegun
<1>3. ASSUME NEW r \in {Data(s), Descriptor(s)}
      PROVE  /\ r \in disk => r \in disk' \/ Safe(s)'
             /\ r \in must => r \in must' \/ Safe(s)'
  <2>1. CASE disk \subseteq disk' /\ must \subseteq must' BY <2>1
  <2>2. CASE SyncStore BY <1>2, <2>2 DEF SyncStore
  <2>3. ASSUME NEW x \in Snapshots, IsSuperseded(x), Unlink(Data(x)) \/ Unlink(Descriptor(x))
        PROVE  /\ r \in disk => r \in disk' \/ Safe(s)'
               /\ r \in must => r \in must' \/ Safe(s)'
    <3>1. CASE s = x
      <4>1. IsSuperseded(s)' BY <2>3, <3>1, SupersededStays
      <4>2. r \in disk /\ r \notin disk' => ~(may' \subseteq disk') BY <1>2, <2>3 DEF Unlink
      <4>3. r \in must /\ r \notin must' => ~(may' \subseteq disk') BY <1>2, <2>3 DEF Unlink
      <4> QED BY <4>1, <4>2, <4>3 DEF Safe
    <3>2. CASE s # x BY <2>3, <3>2, RecordsAre DEF Unlink
    <3> QED BY <3>1, <3>2
  <2> QED BY <2>1, <2>2, <2>3 DEF StoreMove, storeVars, Link
<1> QED BY <1>1, <1>3 DEF DataOnDisk, DataHeld, DescriptorOnDisk, PairHeld, PairOnDisk, Whole

-----------------------------------------------------------------------------
(* One step of an invocation.                                              *)

\* The others stand still, and whoever p publishes for is not one of them.
Alone(p) ==
  /\ pc' \in [Proc -> {"idle"} \cup RefreshSteps \cup PruneSteps \cup ReadSteps]
  /\ mine' \in [Proc -> 0..MaxRefreshes]
  /\ listed' \in [Proc -> SUBSET Snapshots] /\ oldest' \in [Proc -> 0..MaxRefreshes]
  /\ doomed' \in [Proc -> SUBSET Snapshots] /\ orphans' \in [Proc -> SUBSET Snapshots]
  /\ \A q \in Proc \ {p} :
       /\ pc'[q] = pc[q] /\ mine'[q] = mine[q] /\ listed'[q] = listed[q]
       /\ oldest'[q] = oldest[q] /\ doomed'[q] = doomed[q] /\ orphans'[q] = orphans[q]

\* The step of p leaves what regressed to the refreshes under way, and is itself
\* under way only with a snapshot that it had, or with a newer one.
Outdoes(p) ==
  /\ regressed' = regressed
  /\ \A s : Begun(s) /\ Descriptor(s) \in disk /\ pc'[p] \in Unstored =>
       generation'[mine'[p]] > generation[s] \/ (pc[p] \in Unstored /\ mine'[p] = mine[p])

LEMMA OutdoneStays ==
  ASSUME SInv, NEW p \in Proc, StoreMove(p), GenerationsStay, generation' \in [Snapshots -> 0..MaxRefreshes],
         Alone(p), Outdoes(p), NEW s, Begun(s), Outdone(s)
  PROVE  Outdone(s)' \/ Safe(s)'
<1>1. TypeOK /\ Numbered /\ Owned(p) BY DEF SInv
<1>2. DescriptorOnDisk(s)' BY <1>1, HeldStays DEF DescriptorOnDisk, Outdone
<1>3. generation'[s] = generation[s] BY DEF Begun, GenerationsStay
<1>4. ASSUME NEW q \in Proc, pc'[q] \in Unstored PROVE generation'[mine'[q]] > generation'[s]
  <2>1. ASSUME pc[q] \in Unstored, mine'[q] = mine[q] PROVE generation'[mine'[q]] > generation'[s]
    <3>1. Begun(mine[q]) BY <2>1 DEF SInv, Owned, Unstored, RefreshSteps
    <3>2. generation'[mine[q]] = generation[mine[q]] BY <3>1 DEF Begun, GenerationsStay
    <3> QED BY <1>3, <2>1, <3>2 DEF Outdone
  <2>2. CASE q # p BY <1>4, <2>1, <2>2 DEF Alone
  <2>3. CASE q = p BY <1>3, <1>4, <2>1, <2>3 DEF Outdoes, Outdone
  <2> QED BY <2>2, <2>3
<1> QED BY <1>2, <1>4 DEF DescriptorOnDisk, Outdone, Outdoes

\* What all steps of p have in common.
StepOf(p) ==
  /\ StoreMove(p) /\ GenerationsStay /\ Alone(p)
  /\ \A s : Begun(s) /\ Outdone(s) => Outdone(s)' \/ Safe(s)'
  /\ generation' \in [Snapshots -> 0..MaxRefreshes]
  /\ \A s \in Snapshots : generation'[s] <= s
  /\ \A s, t \in Snapshots : s < t /\ generation'[t] > 0 => generation'[s] > 0
  /\ pc'[p] \in RefreshSteps =>
       (pc[p] \in RefreshSteps /\ mine'[p] = mine[p]) \/ (mine'[p] \in Snapshots /\ generation[mine'[p]] = 0)
  /\ stored' = stored \/ (pc[p] = "recheck" /\ Unique(mine[p]) /\ stored' = stored \cup {mine[p]})
  /\ regressed' \in {regressed, FALSE}
  /\ regressed' /\ pc'[p] \in {"verify", "recheck", "stored"} => pc[p] \in {"verify", "recheck", "stored"}
  /\ lone' \in {lone, lone \ {p}, {p}, {}}

LEMMA TypeStays == ASSUME SInv, NEW p \in Proc, StepOf(p) PROVE TypeOK' /\ \A q, r \in lone' : q = r
<1>1. must' \subseteq disk' /\ disk' \subseteq may' /\ may' \subseteq Records
  <2>1. must \subseteq disk /\ disk \subseteq may /\ may \subseteq Records BY DEF SInv, TypeOK
  <2>2. pc[p] \in RefreshSteps => {Data(mine[p]), Descriptor(mine[p])} \subseteq Records
    BY DEF SInv, Owned, Begun, Records, Data, Descriptor
  <2> QED BY <2>1, <2>2 DEF StepOf, StoreMove, storeVars, SyncStore, Link, Unlink, RefreshSteps
<1>2. stored' \subseteq Snapshots BY DEF SInv, TypeOK, StepOf, Owned, Begun, RefreshSteps
<1>3. lone' \subseteq Proc /\ \A q, r \in lone' : q = r BY DEF SInv, TypeOK, StepOf
<1>4. Cardinality(lone') <= 1 BY <1>3, SmallSet
<1>5. regressed' \in BOOLEAN BY DEF SInv, TypeOK, StepOf
<1> QED BY <1>1, <1>2, <1>3, <1>4, <1>5 DEF TypeOK, StepOf, Alone

LEMMA OthersKeep ==
  ASSUME SInv, NEW p \in Proc, StepOf(p), NEW q \in Proc \ {p}
  PROVE  Owned(q)' /\ Behind(q)' /\ Held(q)'
<1>1. /\ TypeOK /\ Numbered /\ Owned(p) /\ Owned(q) /\ Behind(q) /\ Held(q)
      /\ StoreMove(p) /\ GenerationsStay /\ generation' \in [Snapshots -> 0..MaxRefreshes]
  BY DEF SInv, StepOf
<1>2. /\ pc'[q] = pc[q] /\ mine'[q] = mine[q] /\ listed'[q] = listed[q]
      /\ oldest'[q] = oldest[q] /\ doomed'[q] = doomed[q] /\ orphans'[q] = orphans[q]
  BY DEF StepOf, Alone
<1> PICK m : m = mine[q] BY <1>1
<1>3. Owned(q)'
  <2>1. pc[q] \in RefreshSteps \cup ReadSteps => Begun(m)' BY <1>1, SupersededStays DEF Owned
  <2>2. pc[q] \in Unstored /\ pc[p] \in Unstored => mine[q] # mine[p]
    BY DEF SInv, Apart, Unstored, RefreshSteps
  <2>3. pc[q] = "data" => Data(mine[q]) \notin may'
    BY <1>1, <2>2, RecordsAre
    DEF Owned, Unstored, StoreMove, storeVars, SyncStore, Link, Unlink, TypeOK
  <2>4. pc[q] \in Unstored \ {"descriptor_sync"} => Descriptor(mine[q]) \notin may'
    BY <1>1, <2>2, RecordsAre
    DEF Owned, Unstored, StoreMove, storeVars, SyncStore, Link, Unlink, TypeOK
  <2> QED BY <1>2, <2>1, <2>3, <2>4 DEF Owned, Begun
<1>4. Behind(q)'
  <2>1. \A s \in doomed[q] \cup orphans[q] : Begun(s)' /\ IsSuperseded(s)' BY <1>1, SupersededStays DEF Behind
  <2>2. pc[q] \in Removing => Begun(m)' /\ IsSuperseded(m)' BY <1>1, SupersededStays DEF Behind
  <2>3. oldest[q] > 0 => AtLeast(oldest[q])'
    <3>1. oldest[q] \in Nat BY <1>1, MaxRefreshesAssumption DEF TypeOK
    <3> QED BY <1>1, <1>2, <3>1, NewerStays DEF Behind, AtLeast
  <2>4. pc[q] = "stored" =>
          \A s \in listed[q] : Begun(s)' /\ (s \in Described \/ IsSuperseded(s))'
    BY <1>1, SupersededStays DEF Behind
  <2>5. pc'[q] \in Removing => (Begun(mine[q]) /\ IsSuperseded(mine[q]))'
    BY <1>2, <2>2 DEF Begun, IsSuperseded
  <2> QED BY <1>2, <2>1, <2>3, <2>4, <2>5 DEF Behind
<1>5. Held(q)'
  <2>1. pc[q] \in RefreshSteps \cup ReadSteps => Begun(m) BY <1>1 DEF Owned
  <2>2. ASSUME pc[q] \in RefreshSteps \cup ReadSteps
        PROVE  /\ DataOnDisk(m) => DataOnDisk(m)'
               /\ DataHeld(m) => DataHeld(m)'
               /\ DescriptorOnDisk(m) => DescriptorOnDisk(m)'
               /\ PairHeld(m) => PairHeld(m)'
               /\ PairOnDisk(m) => PairOnDisk(m)'
               /\ Outdone(m) => Outdone(m)' \/ PairOnDisk(m)'
    <3>1. Begun(m) BY <2>1, <2>2
    <3>2. Outdone(m) => Outdone(m)' \/ Safe(m)' BY <3>1 DEF StepOf
    <3> QED BY <1>1, <3>1, <3>2, HeldStays DEF PairOnDisk
  <2>3. /\ DataOnDisk(m)' <=> DataOnDisk(mine[q])'
        /\ DataHeld(m)' <=> DataHeld(mine[q])'
        /\ DescriptorOnDisk(m)' <=> DescriptorOnDisk(mine[q])'
        /\ PairHeld(m)' <=> PairHeld(mine[q])'
        /\ PairOnDisk(m)' <=> PairOnDisk(mine[q])'
        /\ Outdone(m)' <=> Outdone(mine[q])'
    BY <1>2
  <2> QED BY <1>1, <1>2, <2>2, <2>3 DEF Held, RefreshSteps, ReadSteps
<1> QED BY <1>3, <1>4, <1>5

LEMMA StepKeeps ==
  ASSUME SInv, NEW p \in Proc, StepOf(p), Owned(p)', Behind(p)', Held(p)'
  PROVE  SInv'
<1>1. /\ TypeOK /\ Numbered /\ Owned(p) /\ Held(p)
      /\ StoreMove(p) /\ GenerationsStay /\ generation' \in [Snapshots -> 0..MaxRefreshes]
  BY DEF SInv, StepOf
<1>2. must \subseteq disk /\ disk \subseteq may BY RecordsBegun, <1>1
<1>3. TypeOK' /\ \A q, r \in lone' : q = r BY TypeStays
<1>4. \A s \in stored' : Begun(s)' /\ (s \notin stored => s = mine[p] /\ pc[p] = "recheck")
  <2>1. ASSUME NEW s \in stored' PROVE Begun(s) /\ (s \notin stored => s = mine[p] /\ pc[p] = "recheck")
    BY <1>1, <2>1 DEF StepOf, Numbered, Owned, RefreshSteps
  <2> QED BY <1>1, <2>1, SupersededStays
<1>5. Numbered'
  <2>1. ASSUME NEW s \in Snapshots, Data(s) \in may' \/ Descriptor(s) \in may' PROVE Begun(s)
    BY <1>1, <1>2, <2>1, RecordsAre
    DEF StoreMove, storeVars, SyncStore, Link, Unlink, Numbered, Owned, RefreshSteps
  <2>2. \A s \in Snapshots : Data(s) \in may' \/ Descriptor(s) \in may' => Begun(s)'
    BY <1>1, <2>1, SupersededStays
  <2> QED BY <1>4, <2>2 DEF Numbered, StepOf
<1>6. Apart'
  <2>1. ASSUME NEW q \in Proc \ {p}, {pc'[p], pc'[q]} \subseteq RefreshSteps PROVE mine'[p] # mine'[q]
    <3>1. pc'[q] = pc[q] /\ mine'[q] = mine[q] BY DEF StepOf, Alone
    <3>2. Begun(mine[q]) BY <2>1, <3>1 DEF SInv, Owned
    <3>3. CASE pc[p] \in RefreshSteps /\ mine'[p] = mine[p] BY <2>1, <3>1, <3>3 DEF SInv, Apart
    <3>4. CASE generation[mine'[p]] = 0 BY <3>1, <3>2, <3>4 DEF Begun
    <3> QED BY <2>1, <3>3, <3>4 DEF StepOf
  <2>2. ASSUME NEW q \in Proc, NEW r \in Proc, q # r, {pc'[q], pc'[r]} \subseteq RefreshSteps
        PROVE  mine'[q] # mine'[r]
    <3>1. CASE q = p BY <2>1, <2>2, <3>1
    <3>2. CASE r = p BY <2>1, <2>2, <3>2
    <3>3. CASE q # p /\ r # p BY <2>2, <3>3 DEF SInv, Apart, StepOf, Alone
    <3> QED BY <3>1, <3>2, <3>3
  <2> QED BY <2>2 DEF Apart
<1>7. Selectable'
  <2>1. ASSUME NEW s \in Snapshots, Descriptor(s) \in may' PROVE DataHeld(s)' \/ Outdone(s)'
    <3>1. CASE Descriptor(s) \in may
      <4>1. Begun(s) /\ (DataHeld(s) \/ Outdone(s)) BY <1>1, <3>1 DEF SInv, Selectable, Numbered
      <4>2. DataHeld(s) => DataHeld(s)' BY <1>1, <4>1, HeldStays
      <4>3. Outdone(s) => Outdone(s)' \/ Safe(s)' BY <4>1 DEF StepOf
      <4> QED BY <4>1, <4>2, <4>3 DEF DataHeld
    <3>2. CASE Descriptor(s) \notin may
      <4>1. s = mine[p] /\ pc[p] = "descriptor"
        BY <1>1, <1>2, <2>1, <3>2, RecordsAre DEF StoreMove, storeVars, SyncStore, Link, Unlink
      <4>2. Begun(s) /\ DataHeld(s) BY <1>1, <4>1 DEF Owned, Held, RefreshSteps
      <4> QED BY <1>1, <4>2, HeldStays
    <3> QED BY <3>1, <3>2
  <2> QED BY <2>1 DEF Selectable
<1>8. Reported'
  <2>1. ASSUME NEW s \in stored' PROVE PairHeld(s)'
    <3>1. Begun(s) BY <1>1, <1>4 DEF Numbered, Owned, RefreshSteps
    <3>2. PairHeld(s) BY <1>1, <1>4 DEF SInv, Reported, Held
    <3> QED BY <1>1, <3>1, <3>2, HeldStays
  <2> QED BY <2>1 DEF Reported
<1>9. Ties'
  <2>1. ASSUME NEW s \in stored', NEW t \in stored', s # t, generation[s] = generation[t] PROVE Safe(s)
    <3>1. CASE s \in stored /\ t \in stored BY <2>1, <3>1 DEF SInv, Ties
    <3>2. ASSUME NEW x \in stored, x # mine[p], pc[p] = "recheck", stored' # stored, generation[x] = generation[mine[p]]
          PROVE  Safe(x) /\ Safe(mine[p])
      <4>1. Unique(mine[p]) BY <3>2 DEF StepOf
      <4>2. x \notin Described BY <3>2, <4>1 DEF Unique
      <4>3. Safe(x) BY <1>2, <3>2, <4>2 DEF SInv, Reported, PairHeld, Described, TypeOK
      <4>4. Safe(mine[p]) BY <3>2, <4>3 DEF Safe, IsSuperseded
      <4> QED BY <4>3, <4>4
    <3> QED BY <1>4, <2>1, <3>1, <3>2
  <2>2. ASSUME NEW s \in stored', NEW t \in stored', s # t, generation'[s] = generation'[t] PROVE Safe(s)'
    <3>1. Begun(s) /\ Begun(t) BY <1>1, <1>4 DEF Numbered, Owned, RefreshSteps
    <3>2. generation'[s] = generation[s] /\ generation'[t] = generation[t] BY <3>1 DEF Begun, StepOf, GenerationsStay
    <3> QED BY <1>1, <2>1, <2>2, <3>1, <3>2, SafeStays
  <2> QED BY <2>2 DEF Ties
<1>10. Behindhand'
  <2>1. ASSUME regressed' PROVE stored' = {} /\ \A q \in Proc : pc'[q] \notin {"verify", "recheck", "stored"}
    <3>1. regressed /\ stored = {} /\ \A q \in Proc : pc[q] \notin {"verify", "recheck", "stored"}
      BY <2>1 DEF SInv, Behindhand, StepOf
    <3> QED BY <2>1, <3>1 DEF StepOf, Alone
  <2> QED BY <2>1 DEF Behindhand
<1>11. \A q \in Proc : (Owned(q) /\ Behind(q) /\ Held(q))' BY OthersKeep
<1> QED BY <1>3, <1>5, <1>6, <1>7, <1>8, <1>9, <1>10, <1>11 DEF SInv

-----------------------------------------------------------------------------
(* What each kind of step says of its own invocation.                      *)

\* A step that begins no refresh and reports nothing.
LEMMA Plain ==
  ASSUME SInv, NEW p \in Proc, StoreMove(p), Alone(p), UNCHANGED <<generation, stored, regressed>>,
         pc'[p] \in RefreshSteps => pc[p] \in RefreshSteps /\ mine'[p] = mine[p],
         pc'[p] \in Unstored => pc[p] \in Unstored,
         regressed => (pc'[p] \in {"verify", "recheck", "stored"} => pc[p] \in {"verify", "recheck", "stored"}),
         lone' \in {lone, lone \ {p}, {p}, {}}
  PROVE  StepOf(p)
<1>1. generation' \in [Snapshots -> 0..MaxRefreshes] /\ GenerationsStay BY DEF SInv, TypeOK, GenerationsStay
<1>2. Outdoes(p) BY DEF Outdoes, Unstored, RefreshSteps
<1>3. \A s : Begun(s) /\ Outdone(s) => Outdone(s)' \/ Safe(s)' BY <1>1, <1>2, OutdoneStays
<1> QED BY <1>1, <1>3 DEF StepOf, SInv, Numbered

LEMMA BehindStays ==
  ASSUME SInv, NEW p \in Proc, StepOf(p),
         doomed'[p] \subseteq doomed[p], orphans'[p] \subseteq orphans[p], oldest'[p] \in {0, oldest[p]},
         pc'[p] \in Removing => mine'[p] \in doomed[p] \/ (pc[p] \in Removing /\ mine'[p] = mine[p]),
         pc'[p] # "stored"
  PROVE  Behind(p)'
<1>1. /\ TypeOK /\ Numbered /\ Behind(p)
      /\ StoreMove(p) /\ GenerationsStay /\ generation' \in [Snapshots -> 0..MaxRefreshes]
  BY DEF SInv, StepOf
<1>2. \A s \in doomed'[p] \cup orphans'[p] : Begun(s)' /\ IsSuperseded(s)' BY <1>1, SupersededStays DEF Behind
<1>3. ASSUME NEW m, m = mine'[p], pc'[p] \in Removing PROVE Begun(m)' /\ IsSuperseded(m)'
  BY <1>1, <1>3, SupersededStays DEF Behind
<1>4. (oldest[p] > 0 => AtLeast(oldest[p]))'
  <2>1. oldest[p] \in Nat BY <1>1, MaxRefreshesAssumption DEF TypeOK
  <2>2. ASSUME NEW g \in Nat, g = oldest[p], g > 0 PROVE AtLeast(g)' BY <1>1, <2>2, NewerStays DEF Behind, AtLeast
  <2> QED BY <2>1, <2>2 DEF AtLeast
<1>5. pc'[p] \in Removing => (Begun(mine[p]) /\ IsSuperseded(mine[p]))' BY <1>3 DEF Begun, IsSuperseded
<1> QED BY <1>2, <1>4, <1>5 DEF Behind, AtLeast

\* What p publishes or reads survives its own step.
LEMMA MineStays ==
  ASSUME SInv, NEW p \in Proc, StepOf(p), pc[p] \in RefreshSteps \cup ReadSteps, mine'[p] = mine[p]
  PROVE  /\ Begun(mine[p])'
         /\ DataOnDisk(mine[p]) => DataOnDisk(mine[p])'
         /\ DataHeld(mine[p]) => DataHeld(mine[p])'
         /\ DescriptorOnDisk(mine[p]) => DescriptorOnDisk(mine[p])'
         /\ PairHeld(mine[p]) => PairHeld(mine[p])'
         /\ PairOnDisk(mine[p]) => PairOnDisk(mine[p])'
         /\ Outdone(mine[p]) => (Outdone(mine[p]) \/ Safe(mine[p]))'
<1> PICK m : m = mine[p] OBVIOUS
<1>1. /\ TypeOK /\ Numbered /\ Owned(p) /\ Begun(m)
      /\ StoreMove(p) /\ GenerationsStay /\ generation' \in [Snapshots -> 0..MaxRefreshes]
  BY DEF SInv, StepOf, Owned
<1>2. /\ Begun(m)'
      /\ DataOnDisk(m) => DataOnDisk(m)'
      /\ DataHeld(m) => DataHeld(m)'
      /\ DescriptorOnDisk(m) => DescriptorOnDisk(m)'
      /\ PairHeld(m) => PairHeld(m)'
      /\ PairOnDisk(m) => PairOnDisk(m)'
      /\ Outdone(m) => (Outdone(m) \/ Safe(m))'
  BY <1>1, HeldStays, SupersededStays DEF StepOf
<1> QED BY <1>2

\* An invocation ends: it knows nothing any more.
LEMMA EndKeeps ==
  ASSUME SInv, NEW p \in Proc, End(p), UNCHANGED <<storeVars, generation, stored, regressed>>
  PROVE  SInv'
<1>1. Alone(p) /\ pc'[p] = "idle" /\ doomed'[p] = {} /\ orphans'[p] = {} /\ oldest'[p] = 0
  BY MaxRefreshesAssumption DEF SInv, TypeOK, End, Goto, Alone
<1>2. StepOf(p)
  BY <1>1, Plain DEF StoreMove, End, RefreshSteps, Unstored
<1>3. Behind(p)' BY <1>1, <1>2, BehindStays DEF Removing
<1>4. Owned(p)' /\ Held(p)' BY <1>1 DEF Owned, Held, RefreshSteps, ReadSteps, Unstored
<1> QED BY <1>2, <1>3, <1>4, StepKeeps

\* A step of a refresh or a reader that stays with its snapshot.
LEMMA GoIs ==
  ASSUME SInv, NEW p \in Proc, NEW next \in RefreshSteps \cup ReadSteps, Go(p, next)
  PROVE  /\ Alone(p) /\ pc'[p] = next /\ mine'[p] = mine[p] /\ lone' = lone
         /\ doomed'[p] = doomed[p] /\ orphans'[p] = orphans[p] /\ oldest'[p] = oldest[p]
BY DEF SInv, TypeOK, Go, Goto, Alone, passVars

-----------------------------------------------------------------------------
(* Refresh.                                                                *)

\* The next generation is above every one that has a descriptor.
LEMMA NextIs ==
  ASSUME TypeOK, Numbered, NEW s \in Snapshots, generation[s] = 0
  PROVE  /\ NextGeneration \in 1..s
         /\ \A t \in Described : generation[t] < NextGeneration
<1> DEFINE used == Generations(Described) \cup {0}
<1>1. /\ \A t \in Described : Begun(t) /\ generation[t] <= t
      /\ \A t \in Snapshots : generation[t] \in Nat /\ t \in Nat
  BY RecordsBegun DEF Numbered, Described
<1>2. \A t \in Described : t < s BY <1>1 DEF Numbered, Begun, Described
<1>3. s \in Nat \ {0} BY SnapshotsAre
<1>4. used \in SUBSET (0..(s - 1)) BY <1>1, <1>2, <1>3 DEF Generations, Described
<1>5. Max(used) \in used /\ \A g \in used : g <= Max(used)
  <2>1. s - 1 \in Nat /\ used # {} BY <1>3
  <2> HIDE DEF used
  <2> QED BY <1>4, <2>1, MaxIs
<1>6. Max(used) \in 0..(s - 1) BY <1>4, <1>5
<1>7. NextGeneration = Max(used) + 1 BY DEF NextGeneration
<1>8. \A t \in Described : generation[t] \in used BY DEF Generations
<1> HIDE DEF used
<1> QED BY <1>1, <1>3, <1>5, <1>6, <1>7, <1>8 DEF Described

LEMMA BeginRefreshKeeps == ASSUME SInv, NEW p \in Proc, BeginRefresh(p) PROVE SInv'
<1>1. PICK s \in Snapshots :
        /\ generation[s] = 0 /\ \A t \in Snapshots : t < s => generation[t] # 0
        /\ generation' = [generation EXCEPT ![s] = NextGeneration]
        /\ mine' = [mine EXCEPT ![p] = s]
  BY DEF BeginRefresh
<1>2. TypeOK /\ Numbered BY DEF SInv
<1>3. /\ NextGeneration \in 1..s
      /\ \A t \in Described : generation[t] < NextGeneration
      /\ s \in Nat /\ s <= MaxRefreshes /\ \A t \in Snapshots : t \in Nat /\ generation[t] \in Nat
  BY <1>1, <1>2, NextIs, SnapshotsAre, RecordsBegun
<1>4. /\ generation' \in [Snapshots -> 0..MaxRefreshes]
      /\ generation'[s] = NextGeneration
      /\ \A t \in Snapshots \ {s} : generation'[t] = generation[t]
  BY <1>1, <1>2, <1>3, MaxRefreshesAssumption DEF TypeOK
<1>5. /\ Alone(p) /\ pc[p] = "idle" /\ pc'[p] = "data" /\ mine'[p] = s
      /\ doomed'[p] = doomed[p] /\ orphans'[p] = orphans[p] /\ oldest'[p] = oldest[p]
      /\ lone' \in {{p}, {}} /\ UNCHANGED <<stored, regressed, storeVars>>
  BY <1>1, <1>2, SnapshotsAre DEF BeginRefresh, Begin, Goto, TypeOK, Alone, passVars, RefreshSteps
<1>6. StoreMove(p) BY <1>5 DEF StoreMove
<1>7. GenerationsStay BY <1>1, <1>4 DEF GenerationsStay
<1>8. Outdoes(p) BY <1>3, <1>4, <1>5 DEF Outdoes, Described, Begun
<1>9. \A t : Begun(t) /\ Outdone(t) => Outdone(t)' \/ Safe(t)' BY <1>4, <1>5, <1>6, <1>7, <1>8, OutdoneStays
<1>10. \A t \in Snapshots : generation'[t] <= t BY <1>2, <1>3, <1>4 DEF Numbered
<1>11. \A t, u \in Snapshots : t < u /\ generation'[u] > 0 => generation'[t] > 0
  BY <1>1, <1>2, <1>3, <1>4 DEF Numbered
<1>12. StepOf(p) BY <1>1, <1>4, <1>5, <1>6, <1>7, <1>9, <1>10, <1>11 DEF StepOf
<1>13. Behind(p)' BY <1>5, <1>12, BehindStays DEF Removing
<1>14. Data(s) \notin may /\ Descriptor(s) \notin may BY <1>1, <1>2, RecordsBegun DEF Begun
<1>15. Owned(p)' BY <1>3, <1>4, <1>5, <1>14 DEF Owned, Begun, storeVars
<1>16. Held(p)' BY <1>5 DEF Held, ReadSteps
<1> QED BY <1>12, <1>13, <1>15, <1>16, StepKeeps

LEMMA PublishDataKeeps == ASSUME SInv, NEW p \in Proc, PublishData(p) PROVE SInv'
<1>1. /\ pc[p] = "data" /\ Link(Data(mine[p])) /\ Go(p, "data_sync")
      /\ UNCHANGED <<generation, stored, regressed>>
  BY DEF PublishData
<1>2. /\ Alone(p) /\ pc'[p] = "data_sync" /\ mine'[p] = mine[p] /\ lone' = lone
      /\ doomed'[p] = doomed[p] /\ orphans'[p] = orphans[p] /\ oldest'[p] = oldest[p]
  BY <1>1, GoIs DEF RefreshSteps
<1>3. StepOf(p) BY <1>1, <1>2, Plain DEF StoreMove, RefreshSteps, Unstored
<1>4. Behind(p)' BY <1>2, <1>3, BehindStays DEF Removing
<1>5. Begun(mine[p])' BY <1>1, <1>2, <1>3, MineStays DEF RefreshSteps
<1>6. Descriptor(mine[p]) \notin may BY <1>1 DEF SInv, Owned, Unstored
<1>7. Owned(p)' BY <1>1, <1>2, <1>5, <1>6, RecordsAre DEF Owned, Link
<1>8. Held(p)' BY <1>1, <1>2 DEF Held, ReadSteps, DataOnDisk, Link
<1> QED BY <1>3, <1>4, <1>7, <1>8, StepKeeps

LEMMA DataSyncsKeeps == ASSUME SInv, NEW p \in Proc, DataSyncs(p) PROVE SInv'
<1>1. /\ pc[p] = "data_sync" /\ SyncStore /\ Go(p, "check") /\ UNCHANGED <<generation, stored, regressed>>
  BY DEF DataSyncs, Syncs, Go, historyVars
<1>2. /\ Alone(p) /\ pc'[p] = "check" /\ mine'[p] = mine[p] /\ lone' = lone
      /\ doomed'[p] = doomed[p] /\ orphans'[p] = orphans[p] /\ oldest'[p] = oldest[p]
  BY <1>1, GoIs DEF RefreshSteps
<1>3. StepOf(p) BY <1>1, <1>2, Plain DEF StoreMove, RefreshSteps, Unstored
<1>4. Behind(p)' BY <1>2, <1>3, BehindStays DEF Removing
<1>5. /\ Begun(mine[p])' /\ DataOnDisk(mine[p])'
  BY <1>1, <1>2, <1>3, MineStays DEF RefreshSteps, SInv, Held
<1>6. Descriptor(mine[p]) \notin may' BY <1>1 DEF SInv, Owned, Unstored, SyncStore, TypeOK
<1>7. Owned(p)' BY <1>2, <1>5, <1>6 DEF Owned
<1>8. Held(p)' BY <1>1, <1>2, <1>5 DEF Held, ReadSteps, DataOnDisk, DataHeld, SyncStore
<1> QED BY <1>3, <1>4, <1>7, <1>8, StepKeeps

LEMMA CheckGenerationKeeps == ASSUME SInv, NEW p \in Proc, CheckGeneration(p) PROVE SInv'
<1>1. CASE End(p) BY <1>1, EndKeeps DEF CheckGeneration
<1>2. CASE Go(p, "descriptor")
  <2>1. pc[p] = "check" /\ UNCHANGED <<storeVars, generation, stored, regressed>> BY DEF CheckGeneration
  <2>2. /\ Alone(p) /\ pc'[p] = "descriptor" /\ mine'[p] = mine[p] /\ lone' = lone
        /\ doomed'[p] = doomed[p] /\ orphans'[p] = orphans[p] /\ oldest'[p] = oldest[p]
    BY <1>2, GoIs DEF RefreshSteps
  <2>3. StepOf(p) BY <2>1, <2>2, Plain DEF StoreMove, RefreshSteps, Unstored
  <2>4. Behind(p)' BY <2>2, <2>3, BehindStays DEF Removing
  <2>5. Begun(mine[p])' /\ DataHeld(mine[p])'
    BY <2>1, <2>2, <2>3, MineStays DEF RefreshSteps, SInv, Held
  <2>6. Descriptor(mine[p]) \notin may' BY <2>1 DEF SInv, Owned, Unstored, storeVars
  <2>7. Owned(p)' BY <2>2, <2>5, <2>6 DEF Owned
  <2>8. Held(p)' BY <2>1, <2>2, <2>5 DEF Held, ReadSteps, DataHeld
  <2> QED BY <2>3, <2>4, <2>7, <2>8, StepKeeps
<1> QED BY <1>1, <1>2 DEF CheckGeneration

LEMMA PublishDescriptorKeeps == ASSUME SInv, NEW p \in Proc, PublishDescriptor(p) PROVE SInv'
<1>1. /\ pc[p] = "descriptor" /\ Link(Descriptor(mine[p])) /\ Go(p, "descriptor_sync")
      /\ UNCHANGED <<generation, stored, regressed>>
  BY DEF PublishDescriptor
<1>2. /\ Alone(p) /\ pc'[p] = "descriptor_sync" /\ mine'[p] = mine[p] /\ lone' = lone
      /\ doomed'[p] = doomed[p] /\ orphans'[p] = orphans[p] /\ oldest'[p] = oldest[p]
  BY <1>1, GoIs DEF RefreshSteps
<1>3. StepOf(p) BY <1>1, <1>2, Plain DEF StoreMove, RefreshSteps, Unstored
<1>4. Behind(p)' BY <1>2, <1>3, BehindStays DEF Removing
<1>5. Begun(mine[p])' /\ DataHeld(mine[p])'
  BY <1>1, <1>2, <1>3, MineStays DEF RefreshSteps, SInv, Held
<1>6. Owned(p)' BY <1>2, <1>5 DEF Owned
<1>7. Held(p)' BY <1>1, <1>2, <1>5 DEF Held, ReadSteps, DataHeld, DescriptorOnDisk, Link
<1> QED BY <1>3, <1>4, <1>6, <1>7, StepKeeps

\* The new generation makes up for what regressed: nothing else was as new.
LEMMA DescriptorSyncsKeeps == ASSUME SInv, NEW p \in Proc, DescriptorSyncs(p) PROVE SInv'
<1>1. /\ pc[p] = "descriptor_sync" /\ SyncStore /\ regressed' = FALSE /\ Go(p, "verify")
      /\ UNCHANGED <<generation, stored>>
  BY DEF DescriptorSyncs
<1>2. /\ Alone(p) /\ pc'[p] = "verify" /\ mine'[p] = mine[p] /\ lone' = lone
      /\ doomed'[p] = doomed[p] /\ orphans'[p] = orphans[p] /\ oldest'[p] = oldest[p]
  BY <1>1, GoIs DEF RefreshSteps
<1>3. /\ TypeOK /\ Numbered /\ Begun(mine[p]) /\ DataHeld(mine[p]) /\ DescriptorOnDisk(mine[p])
  BY <1>1 DEF SInv, Owned, Held, RefreshSteps
<1>4. ASSUME NEW s, Begun(s), Outdone(s) PROVE Safe(s)'
  <2>1. generation[mine[p]] > generation[s] BY <1>1, <1>4 DEF Outdone, Unstored
  <2>2. /\ \A t \in Snapshots : generation[t] \in Nat
        /\ mine[p] \in Snapshots /\ s \in Snapshots
    BY <1>3, <1>4, RecordsBegun DEF Begun
  <2>3. \E t \in Snapshots : Descriptor(t) \in disk /\ generation[t] > generation[s]
    <3>1. CASE Descriptor(mine[p]) \in disk BY <2>1, <2>2, <3>1
    <3>2. CASE Safe(mine[p])
      <4>1. PICK t \in Described : generation[t] > generation[mine[p]] BY <3>2 DEF Safe, IsSuperseded
      <4>2. generation[t] > generation[s] BY <2>1, <2>2, <4>1 DEF Described
      <4> QED BY <4>1, <4>2 DEF Described
    <3> QED BY <1>3, <3>1, <3>2 DEF DescriptorOnDisk
  <2> QED BY <1>1, <2>3 DEF Safe, IsSuperseded, Described, SyncStore
<1>5. StepOf(p)
  <2>1. generation' \in [Snapshots -> 0..MaxRefreshes] /\ GenerationsStay BY <1>1, <1>3 DEF TypeOK, GenerationsStay
  <2>2. StoreMove(p) BY <1>1 DEF StoreMove
  <2> QED BY <1>1, <1>2, <1>3, <1>4, <2>1, <2>2 DEF StepOf, Numbered, RefreshSteps
<1>6. Behind(p)' BY <1>2, <1>5, BehindStays DEF Removing
<1>7. Begun(mine[p])' /\ DataHeld(mine[p])' /\ DescriptorOnDisk(mine[p])'
  BY <1>1, <1>2, <1>3, <1>5, MineStays DEF RefreshSteps
<1>8. Owned(p)' BY <1>2, <1>7 DEF Owned, Unstored
<1>9. Held(p)' BY <1>1, <1>2, <1>7 DEF Held, ReadSteps, DataHeld, DescriptorOnDisk, PairHeld, SyncStore
<1> QED BY <1>5, <1>6, <1>8, <1>9, StepKeeps

LEMMA VerifySetKeeps == ASSUME SInv, NEW p \in Proc, VerifySet(p) PROVE SInv'
<1>1. CASE End(p) BY <1>1, EndKeeps DEF VerifySet
<1>2. CASE Go(p, "recheck")
  <2>1. pc[p] = "verify" /\ UNCHANGED <<storeVars, generation, stored, regressed>> BY DEF VerifySet
  <2>2. /\ Alone(p) /\ pc'[p] = "recheck" /\ mine'[p] = mine[p] /\ lone' = lone
        /\ doomed'[p] = doomed[p] /\ orphans'[p] = orphans[p] /\ oldest'[p] = oldest[p]
    BY <1>2, GoIs DEF RefreshSteps
  <2>3. StepOf(p) BY <2>1, <2>2, Plain DEF StoreMove, RefreshSteps, Unstored
  <2>4. Behind(p)' BY <2>2, <2>3, BehindStays DEF Removing
  <2>5. Begun(mine[p])' /\ PairHeld(mine[p])'
    BY <2>1, <2>2, <2>3, MineStays DEF RefreshSteps, SInv, Held
  <2>6. Owned(p)' BY <2>2, <2>5 DEF Owned, Unstored
  <2>7. Held(p)' BY <2>1, <2>2, <2>5 DEF Held, ReadSteps, PairHeld
  <2> QED BY <2>3, <2>4, <2>6, <2>7, StepKeeps
<1> QED BY <1>1, <1>2 DEF VerifySet

LEMMA RecheckGenerationKeeps == ASSUME SInv, NEW p \in Proc, RecheckGeneration(p) PROVE SInv'
<1>1. CASE End(p) /\ UNCHANGED stored BY <1>1, EndKeeps DEF RecheckGeneration
<1>2. CASE /\ Unique(mine[p]) /\ stored' = stored \cup {mine[p]}
           /\ listed' = [listed EXCEPT ![p] = Described]
           /\ Goto(p, "stored") /\ UNCHANGED <<mine, oldest, doomed, orphans, lone>>
  <2>1. pc[p] = "recheck" /\ UNCHANGED <<storeVars, generation, regressed>> BY DEF RecheckGeneration
  <2>2. /\ TypeOK /\ Numbered /\ Begun(mine[p]) /\ PairHeld(mine[p]) /\ Behind(p)
    BY <2>1 DEF SInv, Owned, Held, RefreshSteps
  <2>3. /\ Alone(p) /\ pc'[p] = "stored" /\ mine'[p] = mine[p] /\ lone' = lone /\ listed'[p] = Described
        /\ doomed'[p] = doomed[p] /\ orphans'[p] = orphans[p] /\ oldest'[p] = oldest[p]
    BY <1>2, <2>2 DEF TypeOK, Goto, Alone, Described, RefreshSteps
  <2>4. generation' \in [Snapshots -> 0..MaxRefreshes] /\ GenerationsStay /\ StoreMove(p) /\ Outdoes(p)
    BY <2>1, <2>2, <2>3 DEF TypeOK, GenerationsStay, StoreMove, Outdoes, Unstored
  <2>5. \A s : Begun(s) /\ Outdone(s) => Outdone(s)' \/ Safe(s)' BY <2>3, <2>4, OutdoneStays
  <2>6. StepOf(p)
    <3>1. \A s \in Snapshots : generation'[s] <= s BY <2>1, <2>2 DEF Numbered
    <3>2. \A s, t \in Snapshots : s < t /\ generation'[t] > 0 => generation'[s] > 0
      BY <2>1, <2>2 DEF Numbered
    <3>3. regressed' = regressed BY <2>1
    <3>4. pc[p] \in RefreshSteps BY <2>1 DEF RefreshSteps
    <3> QED BY <1>2, <2>1, <2>3, <2>4, <2>5, <3>1, <3>2, <3>3, <3>4 DEF StepOf
  <2>7. Begun(mine[p])' /\ PairHeld(mine[p])'
    BY <2>1, <2>2, <2>3, <2>6, MineStays DEF RefreshSteps
  <2>8. Owned(p)' BY <2>3, <2>7 DEF Owned, Unstored
  <2>9. Held(p)' BY <2>3, <2>7 DEF Held, ReadSteps, PairHeld
  <2>10. \A s \in Described : Begun(s) /\ s \in Described' /\ Begun(s)'
    BY <2>1, <2>2, RecordsBegun DEF Described, storeVars, Begun
  <2>11. Behind(p)' BY <2>1, <2>2, <2>3, <2>10
    DEF Behind, Removing, AtLeast, Described, storeVars, Begun, IsSuperseded
  <2> QED BY <2>6, <2>8, <2>9, <2>11, StepKeeps
<1> QED BY <1>1, <1>2 DEF RecheckGeneration

-----------------------------------------------------------------------------
(* Retention.                                                              *)

\* A listing that is out of date still names only what is, or is superseded.
LEMMA PassIs ==
  ASSUME TypeOK, Numbered, NEW L \in SUBSET Snapshots, NEW retain,
         \A s \in L : Begun(s) /\ (s \in Described \/ IsSuperseded(s))
  PROVE  /\ \A s \in Superseded(L, retain) : Begun(s) /\ IsSuperseded(s)
         /\ OldestKept(L, retain) > 0 => AtLeast(OldestKept(L, retain))
         /\ OldestKept(L, retain) \in 0..MaxRefreshes
<1>1. /\ OldestKept(L, retain) \in 0..MaxRefreshes
      /\ OldestKept(L, retain) > 0 => \E t \in L : generation[t] = OldestKept(L, retain)
  BY OldestIs
<1>2. \A s \in Snapshots : generation[s] \in Nat BY RecordsBegun
<1>3. OldestKept(L, retain) > 0 => AtLeast(OldestKept(L, retain))
  <2>1. SUFFICES ASSUME OldestKept(L, retain) > 0 PROVE AtLeast(OldestKept(L, retain)) OBVIOUS
  <2>2. PICK t \in L : generation[t] = OldestKept(L, retain) BY <1>1, <2>1
  <2>3. \E u \in Described : generation[u] >= generation[t]
    BY <1>2, <2>2 DEF IsSuperseded, Described
  <2> QED BY <2>2, <2>3 DEF AtLeast
<1>4. ASSUME NEW s \in Superseded(L, retain) PROVE Begun(s) /\ IsSuperseded(s)
  <2>1. s \in L /\ generation[s] < OldestKept(L, retain) BY <1>4 DEF Superseded
  <2>2. OldestKept(L, retain) \in Nat /\ OldestKept(L, retain) > 0
    BY <1>1, <1>2, <2>1, MaxRefreshesAssumption
  <2>3. PICK u \in Described : generation[u] >= OldestKept(L, retain) BY <1>3, <2>2 DEF AtLeast
  <2>4. generation[u] > generation[s] BY <1>2, <2>1, <2>2, <2>3 DEF Described
  <2> QED BY <2>1, <2>4 DEF IsSuperseded
<1> QED BY <1>1, <1>3, <1>4

\* A pass that starts on such a listing knows what it needs.
LEMMA StartPassKeeps ==
  ASSUME SInv, NEW p \in Proc, NEW L \in SUBSET Snapshots, NEW complete, NEW retain, NEW protected,
         \A s \in L : Begun(s) /\ (s \in Described \/ IsSuperseded(s)),
         StartPass(p, L, complete, retain, protected), Goto(p, "list_data"),
         UNCHANGED <<storeVars, generation, mine, stored, regressed>>,
         lone' \in {lone, {p}, {}}
  PROVE  SInv'
<1>1. TypeOK /\ Numbered BY DEF SInv
<1>2. /\ \A s \in Superseded(L, retain) : Begun(s) /\ IsSuperseded(s)
      /\ OldestKept(L, retain) > 0 => AtLeast(OldestKept(L, retain))
      /\ OldestKept(L, retain) \in 0..MaxRefreshes
  BY <1>1, PassIs
<1>3. /\ Alone(p) /\ pc'[p] = "list_data" /\ orphans'[p] = orphans[p]
      /\ doomed'[p] \subseteq Superseded(L, retain) /\ oldest'[p] \in {0, OldestKept(L, retain)}
  BY <1>1, <1>2, MaxRefreshesAssumption
  DEF TypeOK, StartPass, Goto, Alone, Superseded, PruneSteps
<1>4. StepOf(p) BY <1>3, Plain DEF StoreMove, RefreshSteps, Unstored
<1>5. \A s \in Snapshots : (Begun(s) => Begun(s)') /\ (IsSuperseded(s) => IsSuperseded(s)')
  BY DEF Begun, IsSuperseded, Described, storeVars
<1>6. (oldest[p] > 0 => AtLeast(oldest[p]))' BY <1>2, <1>3 DEF AtLeast, Described, storeVars
<1>7. \A s \in doomed'[p] \cup orphans'[p] : Begun(s)' /\ IsSuperseded(s)'
  BY <1>2, <1>3, <1>5 DEF Begun, SInv, Behind
<1>8. Behind(p)' BY <1>3, <1>6, <1>7 DEF Behind, Removing
<1>9. Owned(p)' /\ Held(p)' BY <1>3 DEF Owned, Held, RefreshSteps, ReadSteps, Unstored
<1> QED BY <1>4, <1>8, <1>9, StepKeeps


LEMMA AfterStoredKeeps == ASSUME SInv, NEW p \in Proc, AfterStored(p) PROVE SInv'
<1>1. pc[p] = "stored" /\ UNCHANGED <<storeVars, generation, stored, regressed>> BY DEF AfterStored
<1>2. CASE End(p) BY <1>1, <1>2, EndKeeps
<1>3. CASE Go(p, "locate")
  <2>1. /\ Alone(p) /\ pc'[p] = "locate" /\ mine'[p] = mine[p] /\ lone' = lone
        /\ doomed'[p] = doomed[p] /\ orphans'[p] = orphans[p] /\ oldest'[p] = oldest[p]
    BY <1>3, GoIs DEF ReadSteps
  <2>2. StepOf(p) BY <1>1, <2>1, Plain DEF StoreMove, RefreshSteps, Unstored
  <2>3. Behind(p)' BY <2>1, <2>2, BehindStays DEF Removing
  <2>4. Begun(mine[p])' /\ PairHeld(mine[p])'
    BY <1>1, <2>1, <2>2, MineStays DEF RefreshSteps, SInv, Held
  <2>5. must' \subseteq disk' BY <1>1 DEF SInv, TypeOK, storeVars
  <2>6. Owned(p)' BY <2>1, <2>4 DEF Owned, Unstored
  <2>7. Held(p)' BY <2>1, <2>4, <2>5 DEF Held, ReadSteps, PairHeld, PairOnDisk, Whole
  <2> QED BY <2>2, <2>3, <2>6, <2>7, StepKeeps
<1>4. ASSUME NEW retain \in Retentions, StartPass(p, listed[p], TRUE, retain, {mine[p]}),
             Goto(p, "list_data"), UNCHANGED <<mine, lone>>
      PROVE  SInv'
  <2>1. listed[p] \in SUBSET Snapshots BY DEF SInv, TypeOK
  <2>2. \A s \in listed[p] : Begun(s) /\ (s \in Described \/ IsSuperseded(s)) BY <1>1 DEF SInv, Behind
  <2> QED BY <1>1, <1>4, <2>1, <2>2, StartPassKeeps
<1> QED BY <1>2, <1>3, <1>4 DEF AfterStored

LEMMA BeginPruneKeeps == ASSUME SInv, NEW p \in Proc, BeginPrune(p) PROVE SInv'
<1>1. PICK L \in Listings(Described, Budget), retain \in Retentions :
        StartPass(p, L, L = Described, retain, {})
  BY DEF BeginPrune
<1>2. L \in SUBSET Snapshots /\ L \subseteq Described BY DEF Listings, Described
<1>3. \A s \in L : Begun(s) /\ (s \in Described \/ IsSuperseded(s))
  BY <1>2, RecordsBegun DEF SInv
<1>4. /\ Goto(p, "list_data") /\ lone' \in {{p}, {}}
      /\ UNCHANGED <<storeVars, generation, mine, stored, regressed>>
  BY DEF BeginPrune, Begin
<1> QED BY <1>1, <1>2, <1>3, <1>4, StartPassKeeps

\* Data without a descriptor is collected only below what the pass keeps.
LEMMA ListDataKeeps == ASSUME SInv, NEW p \in Proc, ListData(p) PROVE SInv'
<1>1. /\ pc[p] = "list_data" /\ Goto(p, "remove")
      /\ UNCHANGED <<storeVars, generation, mine, oldest, doomed, historyVars>>
  BY DEF ListData
<1>2. PICK K \in Listings(Kept, Budget) :
        /\ listed' = [listed EXCEPT ![p] = K]
        /\ orphans' = [orphans EXCEPT ![p] = {s \in K \ listed[p] : generation[s] < oldest[p]}]
  BY DEF ListData
<1>3. TypeOK /\ Numbered /\ Behind(p) BY DEF SInv
<1>4. K \subseteq Kept BY DEF Listings
<1>5. /\ Alone(p) /\ pc'[p] = "remove" /\ doomed'[p] = doomed[p] /\ oldest'[p] = oldest[p]
      /\ orphans'[p] = {s \in K \ listed[p] : generation[s] < oldest[p]}
  BY <1>1, <1>2, <1>3, <1>4 DEF TypeOK, Goto, Alone, Kept, PruneSteps
<1>6. StepOf(p) BY <1>1, <1>5, Plain DEF StoreMove, RefreshSteps, Unstored, historyVars
<1>7. ASSUME NEW s \in K, generation[s] < oldest[p] PROVE Begun(s) /\ IsSuperseded(s)
  <2>1. \A t \in Snapshots : generation[t] \in Nat BY <1>3, RecordsBegun
  <2>2. Begun(s) BY <1>3, <1>4, RecordsBegun DEF Kept
  <2>3. oldest[p] \in Nat /\ generation[s] \in Nat BY <1>3, <2>1, <2>2, MaxRefreshesAssumption DEF TypeOK, Begun
  <2>4. PICK t \in Described : generation[t] >= oldest[p] BY <1>3, <1>7, <2>3 DEF Behind, AtLeast
  <2>5. generation[t] > generation[s] BY <1>7, <2>1, <2>3, <2>4 DEF Described
  <2> QED BY <2>2, <2>5 DEF IsSuperseded
<1>8. \A s \in doomed[p] \cup orphans'[p] : Begun(s) /\ IsSuperseded(s) BY <1>3, <1>5, <1>7 DEF Behind
<1>9. \A s : (Begun(s) => Begun(s)') /\ (IsSuperseded(s) => IsSuperseded(s)')
  BY <1>1 DEF Begun, IsSuperseded, Described, storeVars
<1>10. (oldest[p] > 0 => AtLeast(oldest[p]))' BY <1>1, <1>3 DEF Behind, AtLeast, Described, storeVars
<1>11. Behind(p)' BY <1>5, <1>8, <1>9, <1>10 DEF Behind, Removing
<1>12. Owned(p)' /\ Held(p)' BY <1>5 DEF Owned, Held, RefreshSteps, ReadSteps, Unstored
<1> QED BY <1>6, <1>11, <1>12, StepKeeps

\* A step of a pass only removes what is superseded, and knows less afterwards.
LEMMA PassStepKeeps ==
  ASSUME SInv, NEW p \in Proc, StoreMove(p), Alone(p), pc'[p] \in PruneSteps, pc'[p] # "list_data",
         UNCHANGED <<generation, historyVars>>,
         doomed'[p] \subseteq doomed[p], orphans'[p] \subseteq orphans[p], oldest'[p] = oldest[p],
         pc'[p] \in Removing => mine'[p] \in doomed[p] \/ (pc[p] \in Removing /\ mine'[p] = mine[p])
  PROVE  SInv'
<1>1. pc'[p] \notin RefreshSteps \cup ReadSteps BY DEF PruneSteps, RefreshSteps, ReadSteps
<1>2. StepOf(p) BY <1>1, Plain DEF RefreshSteps, Unstored, historyVars
<1>3. Behind(p)' BY <1>1, <1>2, BehindStays DEF RefreshSteps
<1>4. Owned(p)' /\ Held(p)' BY <1>1 DEF Owned, Held, RefreshSteps, ReadSteps, Unstored
<1> QED BY <1>2, <1>3, <1>4, StepKeeps

LEMMA RemoveDataKeeps == ASSUME SInv, NEW p \in Proc, RemoveData(p) PROVE SInv'
<1>1. TypeOK /\ Behind(p) BY DEF SInv
<1>2. ASSUME NEW s \in NextDoomed(p), Unlink(Data(s)), mine' = [mine EXCEPT ![p] = s],
             doomed' = [doomed EXCEPT ![p] = @ \ {s}], PruneStep(p, "remove", "data_gone"),
             UNCHANGED <<listed, oldest, orphans>>
      PROVE  SInv'
  <2>1. s \in doomed[p] /\ Begun(s) /\ IsSuperseded(s) BY <1>1 DEF NextDoomed, Behind
  <2>2. StoreMove(p) BY <1>2, <2>1 DEF StoreMove, Begun
  <2>3. s \in 0..MaxRefreshes BY <2>1, SnapshotsAre, MaxRefreshesAssumption DEF Begun
  <2>4. Alone(p) /\ pc'[p] = "data_gone" /\ mine'[p] = s /\ doomed'[p] \subseteq doomed[p]
    BY <1>1, <1>2, <2>3 DEF TypeOK, PruneStep, Goto, Alone, PruneSteps
  <2> QED BY <1>2, <2>1, <2>2, <2>4, PassStepKeeps DEF PruneStep, PruneSteps
<1>3. CASE PruneStep(p, "remove", "collect") /\ UNCHANGED <<storeVars, mine, passVars>>
  <2>1. Alone(p) /\ pc'[p] = "collect"
    BY <1>1, <1>3 DEF TypeOK, PruneStep, Goto, Alone, PruneSteps, passVars
  <2> QED BY <1>3, <2>1, PassStepKeeps DEF PruneStep, PruneSteps, Removing, StoreMove, passVars
<1> QED BY <1>2, <1>3 DEF RemoveData

LEMMA DataGoneKeeps == ASSUME SInv, NEW p \in Proc, DataGone(p) PROVE SInv'
<1>1. TypeOK BY DEF SInv
<1>2. Alone(p) /\ pc[p] = "data_gone" /\ pc'[p] = "remove_descriptor" /\ StoreMove(p)
  BY <1>1 DEF DataGone, TypeOK, PruneStep, Goto, Alone, PruneSteps, passVars, StoreMove
<1> QED BY <1>2, PassStepKeeps DEF DataGone, PruneStep, PruneSteps, Removing, passVars

LEMMA RemoveDescriptorKeeps == ASSUME SInv, NEW p \in Proc, RemoveDescriptor(p) PROVE SInv'
<1>1. TypeOK /\ Behind(p) BY DEF SInv
<1>2. Alone(p) /\ pc[p] = "remove_descriptor" /\ pc'[p] = "descriptor_gone"
  BY <1>1 DEF RemoveDescriptor, TypeOK, PruneStep, Goto, Alone, PruneSteps, passVars
<1>3. Begun(mine[p]) /\ IsSuperseded(mine[p]) BY <1>1, <1>2 DEF Behind, Removing
<1>4. StoreMove(p) BY <1>3 DEF RemoveDescriptor, StoreMove, Begun
<1> QED BY <1>2, <1>4, PassStepKeeps DEF RemoveDescriptor, PruneStep, PruneSteps, Removing, passVars

LEMMA DescriptorGoneKeeps == ASSUME SInv, NEW p \in Proc, DescriptorGone(p) PROVE SInv'
<1>1. TypeOK BY DEF SInv
<1>2. Alone(p) /\ pc'[p] = "remove" /\ StoreMove(p)
  BY <1>1 DEF DescriptorGone, Syncs, TypeOK, Goto, Alone, PruneSteps, passVars, StoreMove
<1> QED BY <1>2, PassStepKeeps DEF DescriptorGone, Syncs, PruneSteps, Removing, passVars

LEMMA CollectOrphanKeeps == ASSUME SInv, NEW p \in Proc, CollectOrphan(p) PROVE SInv'
<1>1. TypeOK /\ Behind(p) BY DEF SInv
<1>2. PICK s \in orphans[p] : Unlink(Data(s)) /\ orphans' = [orphans EXCEPT ![p] = @ \ {s}]
  BY DEF CollectOrphan
<1>3. Begun(s) /\ IsSuperseded(s) BY <1>1 DEF Behind
<1>4. StoreMove(p) BY <1>2, <1>3 DEF StoreMove, Begun
<1>5. Alone(p) /\ pc'[p] = "orphan_gone" /\ orphans'[p] \subseteq orphans[p]
  BY <1>1, <1>2 DEF CollectOrphan, TypeOK, PruneStep, Goto, Alone, PruneSteps
<1> QED BY <1>4, <1>5, PassStepKeeps DEF CollectOrphan, PruneStep, PruneSteps, Removing

LEMMA OrphanGoneKeeps == ASSUME SInv, NEW p \in Proc, OrphanGone(p) PROVE SInv'
<1>1. TypeOK BY DEF SInv
<1>2. Alone(p) /\ pc'[p] = "collect" /\ StoreMove(p)
  BY <1>1 DEF OrphanGone, Syncs, TypeOK, Goto, Alone, PruneSteps, passVars, StoreMove
<1> QED BY <1>2, PassStepKeeps DEF OrphanGone, Syncs, PruneSteps, Removing, passVars

-----------------------------------------------------------------------------
(* Readers.                                                                *)

\* The one newest generation is superseded by none, so its data is there.
LEMMA BeginReadKeeps == ASSUME SInv, NEW p \in Proc, BeginRead(p) PROVE SInv'
<1>1. PICK s \in Snapshots : Newest(Described) = {s} /\ mine' = [mine EXCEPT ![p] = s]
  BY DEF BeginRead
<1>2. TypeOK /\ Numbered BY DEF SInv
<1>3. pc[p] = "idle" /\ UNCHANGED <<storeVars, generation, passVars, stored, regressed>>
  BY DEF BeginRead, Begin
<1>4. /\ Alone(p) /\ pc'[p] = "locate" /\ mine'[p] = s /\ lone' \in {{p}, {}}
      /\ doomed'[p] = doomed[p] /\ orphans'[p] = orphans[p] /\ oldest'[p] = oldest[p]
  BY <1>1, <1>2, <1>3, SnapshotsAre, MaxRefreshesAssumption
  DEF BeginRead, Begin, Goto, TypeOK, Alone, passVars, ReadSteps
<1>5. StepOf(p) BY <1>3, <1>4, Plain DEF StoreMove, RefreshSteps, Unstored
<1>6. Behind(p)' BY <1>4, <1>5, BehindStays DEF Removing
<1>7. s \in Described /\ ~IsSuperseded(s) /\ Begun(s)
  <2>1. s \in Described /\ \A t \in Described : generation[t] <= generation[s] BY <1>1 DEF Newest
  <2> QED BY <1>2, <2>1, RecordsBegun DEF IsSuperseded, Described
<1>8. Whole(s) \/ Outdone(s)
  BY <1>2, <1>7, RecordsBegun DEF SInv, Selectable, DataHeld, Safe, Described, Whole
<1>9. (Whole(s) \/ Outdone(s))'
  <2>1. Whole(s) => Whole(s)' BY <1>3 DEF Whole, storeVars
  <2>2. StoreMove(p) /\ GenerationsStay BY <1>5 DEF StepOf
  <2>3. Outdone(s) => Outdone(s)' \/ Safe(s)' BY <1>5, <1>7 DEF StepOf
  <2>4. Safe(s)' => IsSuperseded(s) BY <1>3 DEF Safe, IsSuperseded, Described, storeVars
  <2> QED BY <1>7, <1>8, <2>1, <2>3, <2>4
<1>10. Owned(p)' BY <1>3, <1>4, <1>7 DEF Owned, Begun, Unstored
<1>11. Held(p)' BY <1>4, <1>9 DEF Held, ReadSteps, PairOnDisk, Whole, Outdone
<1> QED BY <1>5, <1>6, <1>10, <1>11, StepKeeps

LEMMA LocateKeeps == ASSUME SInv, NEW p \in Proc, Locate(p) PROVE SInv'
<1>1. CASE End(p) BY <1>1, EndKeeps DEF Locate
<1>2. CASE Go(p, "read")
  <2>1. pc[p] = "locate" /\ UNCHANGED <<storeVars, generation, stored, regressed>> BY DEF Locate
  <2>2. /\ Alone(p) /\ pc'[p] = "read" /\ mine'[p] = mine[p] /\ lone' = lone
        /\ doomed'[p] = doomed[p] /\ orphans'[p] = orphans[p] /\ oldest'[p] = oldest[p]
    BY <1>2, GoIs DEF ReadSteps
  <2>3. StepOf(p) BY <2>1, <2>2, Plain DEF StoreMove, RefreshSteps, Unstored
  <2>4. Behind(p)' BY <2>2, <2>3, BehindStays DEF Removing
  <2>5. PairOnDisk(mine[p]) \/ Outdone(mine[p]) BY <2>1 DEF SInv, Held, ReadSteps
  <2>6. Begun(mine[p])' /\ (PairOnDisk(mine[p]) \/ Outdone(mine[p]))'
    BY <2>1, <2>2, <2>3, <2>5, MineStays DEF ReadSteps, PairOnDisk
  <2>7. Owned(p)' BY <2>2, <2>6 DEF Owned, Unstored
  <2>8. Held(p)' BY <2>2, <2>6 DEF Held, ReadSteps
  <2> QED BY <2>3, <2>4, <2>7, <2>8, StepKeeps
<1> QED BY <1>1, <1>2 DEF Locate

-----------------------------------------------------------------------------
(* Power loss.                                                             *)

\* What is safe is superseded in every image that does not go back.
LEMMA SafeSurvives ==
  ASSUME TypeOK, Numbered, NEW kept \in SUBSET may, must \subseteq kept, ~GoesBack(kept), NEW s \in Snapshots, Safe(s)
  PROVE  \E t \in Snapshots : Descriptor(t) \in kept /\ generation[t] > generation[s]
<1>1. CASE may \subseteq disk BY <1>1 DEF Safe
<1>2. CASE ~(may \subseteq disk)
  <2>1. PICK u \in Described : generation[u] > generation[s] BY DEF Safe, IsSuperseded
  <2>2. \A t \in Snapshots : generation[t] \in 0..MaxRefreshes BY DEF TypeOK
  <2>3. Newest(Described) # {}
    <3>1. Generations(Described) \in SUBSET (0..MaxRefreshes) /\ generation[u] \in Generations(Described)
      BY <2>1, <2>2 DEF Generations, Described
    <3>2. Max(Generations(Described)) \in Generations(Described)
            /\ \A g \in Generations(Described) : g <= Max(Generations(Described))
      BY <3>1, MaxIs, MaxRefreshesAssumption
    <3>3. PICK t \in Described : generation[t] = Max(Generations(Described)) BY <3>2 DEF Generations
    <3>4. \A v \in Described : generation[v] <= generation[t] BY <3>2, <3>3 DEF Generations
    <3> QED BY <3>3, <3>4 DEF Newest
  <2>4. PICK t \in Newest(Described) : Descriptor(t) \in kept BY <1>2, <2>3 DEF GoesBack
  <2>5. t \in Snapshots /\ u \in Snapshots /\ generation[u] <= generation[t] BY <2>1, <2>4 DEF Newest, Described
  <2>6. generation[t] > generation[s] BY <2>1, <2>2, <2>5, MaxRefreshesAssumption
  <2> QED BY <2>4, <2>5, <2>6
<1> QED BY <1>1, <1>2

LEMMA PowerLossKeeps == ASSUME SInv, PowerLoss PROVE SInv'
<1>1. PICK kept \in SUBSET may :
        /\ must \subseteq kept /\ disk' = kept /\ must' = kept /\ may' = kept
        /\ regressed' = (regressed \/ GoesBack(kept))
        /\ stored' = IF GoesBack(kept) THEN {} ELSE stored
  BY DEF PowerLoss
<1>2. /\ generation' = generation /\ lone' = {}
      /\ \A p \in Proc : /\ pc'[p] = "idle" /\ mine'[p] = 0 /\ oldest'[p] = 0
                         /\ doomed'[p] = {} /\ orphans'[p] = {}
  BY DEF PowerLoss
<1>3. TypeOK /\ Numbered BY DEF SInv
<1>4. TypeOK' BY <1>1, <1>3, MaxRefreshesAssumption, FS_EmptySet DEF TypeOK, PowerLoss
<1>5. stored' \subseteq stored BY <1>1
<1>6. Numbered' BY <1>1, <1>2, <1>3, <1>5 DEF Numbered, Begun
<1>7. Apart' BY <1>2 DEF Apart, RefreshSteps
<1>8. Behindhand'
  <2>1. regressed' => stored' = {} BY <1>1 DEF SInv, Behindhand
  <2> QED BY <1>2, <2>1 DEF Behindhand
<1>9. ASSUME ~regressed', NEW s \in Snapshots, Safe(s) PROVE Safe(s)'
  <2>1. ~GoesBack(kept) BY <1>1, <1>9
  <2>2. \E t \in Snapshots : Descriptor(t) \in kept /\ generation[t] > generation[s]
    BY <1>1, <1>3, <1>9, <2>1, SafeSurvives
  <2> QED BY <1>1, <1>2, <2>2 DEF Safe, IsSuperseded, Described
<1>10. Selectable'
  <2>1. ASSUME NEW s \in Snapshots, Descriptor(s) \in may' PROVE DataHeld(s)' \/ Outdone(s)'
    <3>1. CASE regressed' BY <1>1, <1>2, <2>1, <3>1 DEF Outdone, Unstored
    <3>2. CASE ~regressed'
      <4>1. ~regressed BY <1>1, <3>2
      <4>2. DataHeld(s) BY <1>1, <2>1, <4>1 DEF SInv, Selectable, Outdone
      <4> QED BY <1>1, <1>9, <3>2, <4>2 DEF DataHeld
    <3> QED BY <3>1, <3>2
  <2> QED BY <2>1 DEF Selectable
<1>11. Reported'
  <2>1. ASSUME NEW s \in stored' PROVE PairHeld(s)'
    <3>1. ~regressed' BY <1>8, <2>1 DEF Behindhand
    <3>2. s \in Snapshots /\ PairHeld(s) BY <1>3, <1>5, <2>1 DEF SInv, Reported, TypeOK
    <3> QED BY <1>1, <1>9, <3>1, <3>2 DEF PairHeld
  <2> QED BY <2>1 DEF Reported
<1>12. Ties'
  <2>1. ASSUME NEW s \in stored', NEW t \in stored', s # t, generation'[s] = generation'[t] PROVE Safe(s)'
    <3>1. ~regressed' BY <1>8, <2>1 DEF Behindhand
    <3>2. s \in Snapshots /\ Safe(s) BY <1>2, <1>3, <1>5, <2>1 DEF SInv, Ties, TypeOK
    <3> QED BY <1>9, <3>1, <3>2
  <2> QED BY <2>1 DEF Ties
<1>13. ASSUME NEW p \in Proc PROVE (Owned(p) /\ Behind(p) /\ Held(p))'
  BY <1>2 DEF Owned, Behind, Held, RefreshSteps, ReadSteps, Unstored, Removing
<1>14. \A q, r \in lone' : q = r BY <1>2
<1> QED BY <1>4, <1>6, <1>7, <1>8, <1>10, <1>11, <1>12, <1>13, <1>14 DEF SInv

-----------------------------------------------------------------------------
(* The theorems.                                                           *)

LEMMA InitHolds == Init => SInv
<1> SUFFICES ASSUME Init PROVE SInv OBVIOUS
<1>1. TypeOK
  <2>1. /\ generation \in [Snapshots -> 0..MaxRefreshes] /\ mine \in [Proc -> 0..MaxRefreshes]
        /\ oldest \in [Proc -> 0..MaxRefreshes]
        /\ pc \in [Proc -> {"idle"} \cup RefreshSteps \cup PruneSteps \cup ReadSteps]
        /\ listed \in [Proc -> SUBSET Snapshots] /\ doomed \in [Proc -> SUBSET Snapshots]
        /\ orphans \in [Proc -> SUBSET Snapshots]
    BY MaxRefreshesAssumption DEF Init
  <2>2. Cardinality(lone) <= 1 BY FS_EmptySet DEF Init
  <2>3. regressed \in BOOLEAN BY DEF Init
  <2> QED BY <2>1, <2>2, <2>3 DEF Init, TypeOK
<1>2. Numbered /\ Apart /\ Selectable /\ Reported /\ Ties /\ Behindhand
  BY SnapshotsAre DEF Init, Numbered, Apart, RefreshSteps, Selectable, Reported, Ties, Behindhand
<1>3. \A p \in Proc : Owned(p) /\ Behind(p) /\ Held(p)
  BY DEF Init, Owned, Behind, Held, RefreshSteps, ReadSteps, Unstored, Removing
<1>4. \A q, r \in lone : q = r BY DEF Init
<1> QED BY <1>1, <1>2, <1>3, <1>4 DEF SInv

LEMMA NextKeeps == SInv /\ [Next]_vars => SInv'
<1> SUFFICES ASSUME SInv, [Next]_vars PROVE SInv' OBVIOUS
<1>1. ASSUME NEW p \in Proc, Refresh(p) PROVE SInv'
  BY <1>1, BeginRefreshKeeps, PublishDataKeeps, DataSyncsKeeps, CheckGenerationKeeps, PublishDescriptorKeeps,
     DescriptorSyncsKeeps, VerifySetKeeps, RecheckGenerationKeeps, AfterStoredKeeps DEF Refresh
<1>2. ASSUME NEW p \in Proc, Prune(p) PROVE SInv'
  <2>1. EndPass(p) => SInv' BY EndKeeps DEF EndPass
  <2> QED BY <1>2, <2>1, BeginPruneKeeps, ListDataKeeps, RemoveDataKeeps, DataGoneKeeps, RemoveDescriptorKeeps,
             DescriptorGoneKeeps, CollectOrphanKeeps, OrphanGoneKeeps DEF Prune
<1>3. ASSUME NEW p \in Proc, Query(p) PROVE SInv'
  <2>1. ReadData(p) => SInv' BY EndKeeps DEF ReadData
  <2> QED BY <1>3, <2>1, BeginReadKeeps, LocateKeeps DEF Query
<1>4. ASSUME NEW p \in Proc, Abort(p) PROVE SInv' BY <1>4, EndKeeps DEF Abort
<1>5. CASE PowerLoss BY <1>5, PowerLossKeeps
<1>6. CASE UNCHANGED vars
  BY <1>6 DEF vars, storeVars, passVars, historyVars, SInv, TypeOK, Numbered, Apart, Selectable, Reported, Ties,
              Behindhand, Owned, Behind, Held, Begun, Safe, IsSuperseded, Described, Outdone, AtLeast, DataOnDisk,
              DataHeld, DescriptorOnDisk, PairHeld, PairOnDisk, Whole
<1> QED BY <1>1, <1>2, <1>3, <1>4, <1>5, <1>6 DEF Next

\* The invariant holds however refreshes, retention passes, readers, crashes and
\* power losses interleave over the records of a profile.
THEOREM IndexInvariant == Spec => []SInv
BY InitHolds, NextKeeps, PTL DEF Spec

\* TypeOK: what is synced is visible, what is visible may survive, and every
\* invocation is at a step of the code with a snapshot that was begun.
THEOREM IndexTypeCorrect == Spec => []TypeOK
<1>1. SInv => TypeOK BY DEF SInv
<1> QED BY <1>1, IndexInvariant, PTL

\* IndexIsSound: whatever has a descriptor, was reported stored by Refresh or
\* selected by a reader is complete or has a newer generation above it, although
\* PruneSnapshots acts on listings that are out of date; and of two refreshes of
\* one generation at most one is told that its snapshot is stored and newest.
THEOREM IndexStaysSound == Spec => []IndexIsSound
<1>1. ASSUME SInv PROVE NothingCurrentIsLost
  <2>1. SUFFICES ASSUME ~regressed, NEW s \in Described \cup stored \cup {mine[p] : p \in Reading}
                 PROVE  Whole(s) \/ IsSuperseded(s)
    BY DEF NothingCurrentIsLost
  <2>2. TypeOK /\ Numbered BY <1>1 DEF SInv
  <2>3. must \subseteq disk /\ disk \subseteq may BY <2>2, RecordsBegun
  <2>4. CASE s \in Described
    BY <1>1, <2>1, <2>3, <2>4 DEF SInv, Selectable, DataHeld, Outdone, Described, Safe, Whole
  <2>5. CASE s \in stored BY <1>1, <2>3, <2>5 DEF SInv, Reported, PairHeld, Safe, Whole
  <2>6. ASSUME NEW p \in Reading, s = mine[p] PROVE Whole(s) \/ IsSuperseded(s)
    BY <1>1, <2>1, <2>6 DEF SInv, Held, PairOnDisk, Outdone, Safe, Reading
  <2> QED BY <2>1, <2>4, <2>5, <2>6
<1>2. ASSUME SInv PROVE StoredIsUnique
  <2>1. ASSUME NEW s \in stored \cap Newest(Described), NEW t \in stored \cap Newest(Described) PROVE s = t
    <3>1. /\ s \in Described /\ t \in Described
          /\ \A u \in Described : generation[u] <= generation[s] /\ generation[u] <= generation[t]
      BY <2>1 DEF Newest
    <3>2. \A u \in Snapshots : generation[u] \in Nat BY <1>2, RecordsBegun DEF SInv
    <3>3. generation[s] = generation[t] BY <3>1, <3>2 DEF Described
    <3>4. ~Safe(s) BY <3>1, <3>2 DEF Safe, IsSuperseded, Described
    <3> QED BY <1>2, <2>1, <3>3, <3>4 DEF SInv, Ties
  <2> QED BY <2>1, SmallSet DEF StoredIsUnique
<1> QED BY <1>1, <1>2, IndexInvariant, PTL DEF IndexIsSound

-----------------------------------------------------------------------------
(* OneCommandRecovers: what a command knows that no other overlaps.        *)

Older(s, g) == generation[s] < g
Others(p) == Described \ {mine[p]}

\* A refresh alone stays above all other generations.
Refreshing(p) ==
  /\ pc[p] \in RefreshSteps => \A s \in Others(p) : Older(s, generation[mine[p]])
  /\ pc[p] = "data_sync" => Data(mine[p]) \in disk
  /\ pc[p] \in {"check", "descriptor", "descriptor_sync"} => Data(mine[p]) \in must
  /\ pc[p] = "descriptor_sync" => mine[p] \in Described
  /\ pc[p] \in {"verify", "recheck", "stored"} => {Data(mine[p]), Descriptor(mine[p])} \subseteq must
  /\ pc[p] = "stored" => listed[p] = Described

\* A pass alone has all that it will not keep on one of its two lists, until
\* its removal is synced.
Current(p, steps) == {s \in {mine[p]} : pc[p] \in steps}
Passing(p) ==
  /\ pc[p] = "list_data" /\ oldest[p] > 0 =>
       /\ listed[p] = Described
       /\ \A s \in Described : Older(s, oldest[p]) => s \in doomed[p]
  /\ pc[p] \in PruneSteps \ {"list_data"} /\ oldest[p] > 0 =>
       /\ \A s \in Described :
            Older(s, oldest[p]) => s \in doomed[p] \cup Current(p, {"data_gone", "remove_descriptor"})
       /\ \A s \in listed[p] : Older(s, oldest[p]) /\ Data(s) \in may =>
            \/ s \in doomed[p] \cup orphans[p] \cup Current(p, Removing)
            \/ pc[p] = "orphan_gone" /\ Data(s) \notin disk
  /\ pc[p] \in Removing => Data(mine[p]) \notin disk
  /\ pc[p] \in {"collect", "orphan_gone"} => doomed[p] = {}

LInv ==
  \A p \in lone :
    /\ pc[p] # "idle" /\ \A q \in Proc \ {p} : pc[q] = "idle"
    /\ Refreshing(p) /\ Passing(p)

\* A step of p is the end of everyone else's solitude.
LEMMA SoloKeeps ==
  ASSUME SInv, LInv, NEW p \in Proc, Alone(p),
         \/ pc[p] # "idle" /\ lone' \subseteq lone
         \/ lone' \subseteq {p} /\ (lone' = {} \/ \A q \in Proc \ {p} : pc[q] = "idle"),
         p \in lone' => pc'[p] # "idle" /\ Refreshing(p)' /\ Passing(p)'
  PROVE  LInv'
<1>1. lone \subseteq Proc BY DEF SInv, TypeOK
<1>2. ASSUME NEW r \in lone' PROVE r = p /\ \A q \in Proc \ {p} : pc[q] = "idle"
  BY <1>1, <1>2 DEF LInv
<1> QED BY <1>2 DEF LInv, Alone

LEMMA EndSolo ==
  ASSUME SInv, LInv, NEW p \in Proc, End(p), pc[p] # "idle"
  PROVE  LInv'
<1>1. Alone(p) BY MaxRefreshesAssumption DEF SInv, TypeOK, End, Goto, Alone
<1>2. p \notin lone' /\ lone' \subseteq lone BY DEF End
<1> QED BY <1>1, <1>2, SoloKeeps

LEMMA RefreshSolo == ASSUME SInv, LInv, NEW p \in Proc, Refresh(p) PROVE LInv'
<1>1. TypeOK /\ Numbered /\ Owned(p) BY DEF SInv
<1>2. \A s \in Snapshots : generation[s] \in Nat BY <1>1, RecordsBegun
<1>3. ASSUME p \in lone PROVE Refreshing(p) /\ Passing(p) BY <1>3 DEF LInv
<1>4. PruneSteps \cap RefreshSteps = {} /\ Removing \subseteq PruneSteps /\ PruneSteps \cap ReadSteps = {}
  BY DEF PruneSteps, RefreshSteps, Removing, ReadSteps
<1>5. ASSUME NEW next \in RefreshSteps \cup ReadSteps, Go(p, next), pc[p] # "idle", p \in lone => Refreshing(p)'
      PROVE  LInv'
  <2>1. Alone(p) /\ pc'[p] = next /\ lone' = lone BY <1>5, GoIs
  <2>2. Passing(p)' /\ next # "idle" BY <1>4, <2>1 DEF Passing, RefreshSteps, ReadSteps, PruneSteps
  <2> QED BY <1>5, <2>1, <2>2, SoloKeeps
<1>6. CASE BeginRefresh(p)
  <2>1. PICK s \in Snapshots :
          /\ generation[s] = 0
          /\ generation' = [generation EXCEPT ![s] = NextGeneration]
          /\ mine' = [mine EXCEPT ![p] = s]
    BY <1>6 DEF BeginRefresh
  <2>2. NextGeneration \in Nat /\ \A t \in Described : generation[t] < NextGeneration
    BY <1>1, <2>1, NextIs, SnapshotsAre
  <2>3. /\ Alone(p) /\ pc'[p] = "data" /\ mine'[p] = s
        /\ lone' = (IF \A q \in Proc \ {p} : pc[q] = "idle" THEN {p} ELSE {}) /\ UNCHANGED storeVars
    BY <1>1, <1>6, <2>1, SnapshotsAre DEF BeginRefresh, Begin, Goto, TypeOK, Alone, passVars, RefreshSteps
  <2>4. generation'[s] = NextGeneration /\ \A t \in Snapshots \ {s} : generation'[t] = generation[t]
    BY <1>1, <2>1 DEF TypeOK
  <2>5. Refreshing(p)' BY <2>2, <2>3, <2>4 DEF Refreshing, Older, Others, Described, storeVars
  <2>6. Passing(p)' BY <1>4, <2>3 DEF Passing, PruneSteps, Removing
  <2> QED BY <2>3, <2>5, <2>6, SoloKeeps
<1>7. CASE PublishData(p)
  <2>1. pc[p] = "data" /\ Link(Data(mine[p])) /\ Go(p, "data_sync") /\ UNCHANGED generation
    BY <1>7 DEF PublishData
  <2>2. pc'[p] = "data_sync" /\ mine'[p] = mine[p] BY <2>1, GoIs DEF RefreshSteps
  <2>3. Described' = Described BY <2>1, RecordsAre DEF Link, Described
  <2>4. p \in lone => Refreshing(p)' BY <1>3, <2>1, <2>2, <2>3 DEF Refreshing, Older, Others, Link, RefreshSteps
  <2> QED BY <1>5, <2>1, <2>4 DEF RefreshSteps
<1>8. CASE DataSyncs(p)
  <2>1. pc[p] = "data_sync" /\ SyncStore /\ Go(p, "check") /\ UNCHANGED generation
    BY <1>8 DEF DataSyncs, Syncs, Go, historyVars
  <2>2. pc'[p] = "check" /\ mine'[p] = mine[p] BY <2>1, GoIs DEF RefreshSteps
  <2>3. p \in lone => Refreshing(p)'
    BY <1>3, <2>1, <2>2 DEF Refreshing, Older, Others, Described, SyncStore, RefreshSteps
  <2> QED BY <1>5, <2>1, <2>3 DEF RefreshSteps
<1>9. CASE CheckGeneration(p)
  <2>1. pc[p] = "check" /\ UNCHANGED <<storeVars, generation>> /\ (Go(p, "descriptor") \/ End(p))
    BY <1>9 DEF CheckGeneration
  <2>2. ASSUME Go(p, "descriptor") PROVE p \in lone => Refreshing(p)'
    <3>1. pc'[p] = "descriptor" /\ mine'[p] = mine[p] BY <2>2, GoIs DEF RefreshSteps
    <3> QED BY <1>3, <2>1, <3>1 DEF Refreshing, Older, Others, Described, storeVars, RefreshSteps
  <2> QED BY <1>5, <2>1, <2>2, EndSolo DEF RefreshSteps
<1>10. CASE PublishDescriptor(p)
  <2>1. pc[p] = "descriptor" /\ Link(Descriptor(mine[p])) /\ Go(p, "descriptor_sync") /\ UNCHANGED generation
    BY <1>10 DEF PublishDescriptor
  <2>2. pc'[p] = "descriptor_sync" /\ mine'[p] = mine[p] BY <2>1, GoIs DEF RefreshSteps
  <2>3. mine[p] \in Snapshots BY <1>1, <2>1 DEF Owned, Begun, RefreshSteps
  <2>4. Described' = Described \cup {mine[p]} BY <2>1, <2>3, RecordsAre DEF Link, Described
  <2>5. p \in lone => Refreshing(p)' BY <1>3, <2>1, <2>2, <2>4 DEF Refreshing, Older, Others, Link, RefreshSteps
  <2> QED BY <1>5, <2>1, <2>5 DEF RefreshSteps
<1>11. CASE DescriptorSyncs(p)
  <2>1. pc[p] = "descriptor_sync" /\ SyncStore /\ Go(p, "verify") /\ UNCHANGED generation
    BY <1>11 DEF DescriptorSyncs
  <2>2. pc'[p] = "verify" /\ mine'[p] = mine[p] BY <2>1, GoIs DEF RefreshSteps
  <2>3. must \subseteq disk BY <1>1 DEF TypeOK
  <2>4. p \in lone => Refreshing(p)'
    BY <1>3, <2>1, <2>2, <2>3 DEF Refreshing, Older, Others, Described, SyncStore, RefreshSteps
  <2> QED BY <1>5, <2>1, <2>4 DEF RefreshSteps
<1>12. CASE VerifySet(p)
  <2>1. pc[p] = "verify" /\ UNCHANGED <<storeVars, generation>> /\ (Go(p, "recheck") \/ End(p))
    BY <1>12 DEF VerifySet
  <2>2. ASSUME Go(p, "recheck") PROVE p \in lone => Refreshing(p)'
    <3>1. pc'[p] = "recheck" /\ mine'[p] = mine[p] BY <2>2, GoIs DEF RefreshSteps
    <3> QED BY <1>3, <2>1, <3>1 DEF Refreshing, Older, Others, Described, storeVars, RefreshSteps
  <2> QED BY <1>5, <2>1, <2>2, EndSolo DEF RefreshSteps
<1>13. CASE RecheckGeneration(p)
  <2>1. pc[p] = "recheck" /\ UNCHANGED <<storeVars, generation>> BY <1>13 DEF RecheckGeneration
  <2>2. CASE End(p) BY <2>1, <2>2, EndSolo
  <2>3. CASE /\ listed' = [listed EXCEPT ![p] = Described]
             /\ Goto(p, "stored") /\ UNCHANGED <<mine, oldest, doomed, orphans, lone>>
    <3>1. Alone(p) /\ pc'[p] = "stored" /\ mine'[p] = mine[p] /\ lone' = lone /\ listed'[p] = Described
      BY <1>1, <2>3 DEF TypeOK, Goto, Alone, Described, RefreshSteps
    <3>2. p \in lone => Refreshing(p)'
      BY <1>3, <2>1, <3>1 DEF Refreshing, Older, Others, Described, storeVars, RefreshSteps
    <3>3. Passing(p)' BY <1>4, <3>1 DEF Passing, PruneSteps, Removing
    <3> QED BY <2>1, <3>1, <3>2, <3>3, SoloKeeps
  <2> QED BY <1>13, <2>2, <2>3 DEF RecheckGeneration
<1>14. CASE AfterStored(p)
  <2>1. pc[p] = "stored" /\ UNCHANGED <<storeVars, generation>> BY <1>14 DEF AfterStored
  <2>2. CASE End(p) BY <2>1, <2>2, EndSolo
  <2>3. CASE Go(p, "locate")
    <3>1. pc'[p] = "locate" BY <2>3, GoIs DEF ReadSteps
    <3>2. Refreshing(p)' BY <3>1 DEF Refreshing, RefreshSteps
    <3> QED BY <1>5, <2>1, <2>3, <3>2 DEF ReadSteps
  <2>4. ASSUME NEW retain \in Retentions, StartPass(p, listed[p], TRUE, retain, {mine[p]}),
               Goto(p, "list_data"), UNCHANGED <<mine, lone>>
        PROVE  LInv'
    <3>1. listed[p] \in SUBSET Snapshots BY <1>1 DEF TypeOK
    <3>2. \A s \in listed[p] : Begun(s) /\ (s \in Described \/ IsSuperseded(s)) BY <2>1 DEF SInv, Behind
    <3>3. OldestKept(listed[p], retain) \in 0..MaxRefreshes
            /\ (OldestKept(listed[p], retain) > 0 => \E t \in listed[p] : generation[t] = OldestKept(listed[p], retain))
      BY <1>1, <3>1, OldestIs
    <3>4. /\ Alone(p) /\ pc'[p] = "list_data" /\ listed'[p] = listed[p] /\ oldest'[p] = OldestKept(listed[p], retain)
          /\ doomed'[p] = Superseded(listed[p], retain) \ {mine[p]}
      BY <1>1, <2>4, <3>1, <3>3 DEF TypeOK, StartPass, Goto, Alone, Superseded, PruneSteps
    <3>5. ASSUME p \in lone, oldest'[p] > 0
          PROVE  listed'[p] = Described' /\ \A s \in Described' : Older(s, oldest[p])' => s \in doomed'[p]
      <4>1. listed[p] = Described /\ \A s \in Others(p) : Older(s, generation[mine[p]])
        BY <1>3, <2>1, <3>5 DEF Refreshing, RefreshSteps
      <4>2. oldest'[p] <= generation[mine[p]]
        <5>1. PICK t \in Described : generation[t] = oldest'[p] BY <3>3, <3>4, <3>5, <4>1
        <5>2. mine[p] \in Snapshots /\ t \in Snapshots BY <1>1, <2>1 DEF Owned, Begun, RefreshSteps, Described
        <5>3. t = mine[p] \/ generation[t] < generation[mine[p]] BY <4>1, <5>1 DEF Older, Others
        <5> QED BY <1>2, <5>1, <5>2, <5>3
      <4>3. Described' = Described BY <2>1 DEF Described, storeVars
      <4>4. ASSUME NEW s \in Described, generation[s] < oldest'[p] PROVE s \in doomed'[p]
        <5>1. s # mine[p]
          <6>1. generation[s] \in Nat /\ oldest'[p] \in Nat BY <1>2, <3>3, <3>4, MaxRefreshesAssumption DEF Described
          <6> QED BY <4>2, <4>4, <6>1
        <5> QED BY <3>4, <4>1, <4>4, <5>1 DEF Superseded
      <4> QED BY <2>1, <3>4, <4>1, <4>3, <4>4 DEF Older
    <3>6. p \in lone => Passing(p)' BY <3>4, <3>5 DEF Passing, PruneSteps, Removing
    <3>7. Refreshing(p)' BY <3>4 DEF Refreshing, RefreshSteps
    <3> QED BY <2>1, <2>4, <3>4, <3>6, <3>7, SoloKeeps
  <2> QED BY <1>14, <2>2, <2>3, <2>4 DEF AfterStored
<1> QED BY <1>6, <1>7, <1>8, <1>9, <1>10, <1>11, <1>12, <1>13, <1>14 DEF Refresh

LEMMA PruneSolo == ASSUME SInv, LInv, NEW p \in Proc, Prune(p) PROVE LInv'
<1>1. TypeOK /\ Numbered /\ Behind(p) BY DEF SInv
<1>2. must \subseteq disk /\ disk \subseteq may BY <1>1, RecordsBegun
<1>3. ASSUME p \in lone PROVE Passing(p) BY <1>3 DEF LInv
<1>4. PruneSteps \cap RefreshSteps = {} /\ "idle" \notin PruneSteps
  BY DEF PruneSteps, RefreshSteps
<1>5. ASSUME Alone(p), pc[p] # "idle", pc'[p] \in PruneSteps, lone' = lone, p \in lone => Passing(p)'
      PROVE  LInv'
  <2>1. Refreshing(p)' BY <1>4, <1>5 DEF Refreshing, RefreshSteps
  <2> QED BY <1>4, <1>5, <2>1, SoloKeeps
<1>6. CASE BeginPrune(p)
  <2>1. PICK L \in Listings(Described, Budget), retain \in Retentions :
          StartPass(p, L, L = Described, retain, {})
    BY <1>6 DEF BeginPrune
  <2>2. L \in SUBSET Snapshots /\ L \subseteq Described BY DEF Listings, Described
  <2>3. OldestKept(L, retain) \in 0..MaxRefreshes BY <1>1, <2>2, OldestIs
  <2>4. /\ Goto(p, "list_data") /\ UNCHANGED <<storeVars, generation, mine>> /\ pc[p] = "idle"
        /\ lone' = (IF \A q \in Proc \ {p} : pc[q] = "idle" THEN {p} ELSE {})
    BY <1>6 DEF BeginPrune, Begin
  <2>5. /\ Alone(p) /\ pc'[p] = "list_data" /\ listed'[p] = L
        /\ oldest'[p] = (IF L = Described THEN OldestKept(L, retain) ELSE 0)
        /\ doomed'[p] = Superseded(L, retain)
    BY <1>1, <2>1, <2>2, <2>3, <2>4, MaxRefreshesAssumption
    DEF TypeOK, StartPass, Goto, Alone, Superseded, PruneSteps
  <2>6. Described' = Described BY <2>4 DEF Described, storeVars
  <2>7. oldest'[p] > 0 => L = Described /\ oldest'[p] = OldestKept(L, retain) BY <2>5
  <2>8. Passing(p)' BY <2>4, <2>5, <2>6, <2>7 DEF Passing, Older, Superseded, PruneSteps, Removing
  <2>9. Refreshing(p)' BY <2>5 DEF Refreshing, RefreshSteps
  <2> QED BY <2>4, <2>5, <2>8, <2>9, SoloKeeps
<1>7. CASE ListData(p)
  <2>1. /\ pc[p] = "list_data" /\ Goto(p, "remove")
        /\ UNCHANGED <<storeVars, generation, mine, oldest, doomed, lone>>
    BY <1>7 DEF ListData, historyVars
  <2>2. PICK K \in Listings(Kept, Budget) :
          /\ listed' = [listed EXCEPT ![p] = K]
          /\ orphans' = [orphans EXCEPT ![p] = {s \in K \ listed[p] : generation[s] < oldest[p]}]
    BY <1>7 DEF ListData
  <2>3. K \subseteq Snapshots BY DEF Listings, Kept
  <2>4. /\ Alone(p) /\ pc'[p] = "remove" /\ doomed'[p] = doomed[p] /\ oldest'[p] = oldest[p]
        /\ listed'[p] = K /\ orphans'[p] = {s \in K \ listed[p] : generation[s] < oldest[p]}
    BY <1>1, <2>1, <2>2, <2>3 DEF TypeOK, Goto, Alone, PruneSteps
  <2>5. Described' = Described BY <2>1 DEF Described, storeVars
  <2>6. p \in lone => Passing(p)'
    BY <1>3, <2>1, <2>4, <2>5 DEF Passing, Older, PruneSteps, Removing
  <2> QED BY <1>5, <2>1, <2>4, <2>6 DEF PruneSteps
<1>8. CASE RemoveData(p)
  <2>1. ASSUME NEW s \in NextDoomed(p), Unlink(Data(s)), mine' = [mine EXCEPT ![p] = s],
               doomed' = [doomed EXCEPT ![p] = @ \ {s}], PruneStep(p, "remove", "data_gone"),
               UNCHANGED <<listed, oldest, orphans>>
        PROVE  LInv'
    <3>1. s \in doomed[p] /\ Begun(s) BY <1>1 DEF NextDoomed, Behind
    <3>2. s \in 0..MaxRefreshes BY <3>1, SnapshotsAre, MaxRefreshesAssumption DEF Begun
    <3>3. /\ Alone(p) /\ pc[p] = "remove" /\ pc'[p] = "data_gone" /\ mine'[p] = s /\ doomed'[p] = doomed[p] \ {s}
          /\ UNCHANGED <<generation, listed, oldest, orphans, lone>>
      BY <1>1, <2>1, <3>2 DEF TypeOK, PruneStep, Goto, Alone, PruneSteps, historyVars
    <3>4. Described' = Described BY <2>1, RecordsAre DEF Described, Unlink
    <3>5. may' = may /\ Data(s) \notin disk' BY <2>1 DEF Unlink
    <3>6. p \in lone => Passing(p)'
      BY <1>3, <3>3, <3>4, <3>5 DEF Passing, Older, PruneSteps, Removing, Current
    <3> QED BY <1>5, <3>3, <3>6 DEF PruneSteps
  <2>2. CASE doomed[p] = {} /\ PruneStep(p, "remove", "collect") /\ UNCHANGED <<storeVars, mine, passVars>>
    <3>1. /\ Alone(p) /\ pc[p] = "remove" /\ pc'[p] = "collect"
          /\ UNCHANGED <<storeVars, generation, mine, listed, oldest, doomed, orphans, lone>>
      BY <1>1, <2>2 DEF TypeOK, PruneStep, Goto, Alone, PruneSteps, passVars, historyVars
    <3>2. Described' = Described BY <3>1 DEF Described, storeVars
    <3>3. p \in lone => Passing(p)'
      BY <1>3, <2>2, <3>1, <3>2 DEF Passing, Older, PruneSteps, Removing, Current, storeVars
    <3> QED BY <1>5, <3>1, <3>3 DEF PruneSteps
  <2> QED BY <1>8, <2>1, <2>2 DEF RemoveData
<1>9. CASE DataGone(p)
  <2>1. /\ Alone(p) /\ pc[p] = "data_gone" /\ pc'[p] = "remove_descriptor"
        /\ UNCHANGED <<generation, mine, listed, oldest, doomed, orphans, lone>> /\ disk' = disk
        /\ may' \in {disk, may}
    BY <1>1, <1>9 DEF DataGone, TypeOK, PruneStep, Goto, Alone, PruneSteps, passVars, historyVars, SyncStore, storeVars
  <2>2. Described' = Described /\ may' \subseteq may BY <1>2, <2>1 DEF Described
  <2>3. p \in lone => Passing(p)'
    BY <1>3, <2>1, <2>2 DEF Passing, Older, PruneSteps, Removing, Current
  <2> QED BY <1>5, <2>1, <2>3 DEF PruneSteps
<1>10. CASE RemoveDescriptor(p)
  <2>1. /\ Alone(p) /\ pc[p] = "remove_descriptor" /\ pc'[p] = "descriptor_gone" /\ Unlink(Descriptor(mine[p]))
        /\ UNCHANGED <<generation, mine, listed, oldest, doomed, orphans, lone>>
    BY <1>1, <1>10 DEF RemoveDescriptor, TypeOK, PruneStep, Goto, Alone, PruneSteps, passVars, historyVars
  <2>2. Described' = Described \ {mine[p]} BY <2>1, RecordsAre DEF Described, Unlink
  <2>3. may' = may /\ (Data(mine[p]) \notin disk => Data(mine[p]) \notin disk') BY <2>1 DEF Unlink
  <2>4. p \in lone => Passing(p)'
    BY <1>3, <2>1, <2>2, <2>3 DEF Passing, Older, PruneSteps, Removing, Current
  <2> QED BY <1>5, <2>1, <2>4 DEF PruneSteps
<1>11. CASE DescriptorGone(p)
  <2>1. /\ Alone(p) /\ pc[p] = "descriptor_gone" /\ pc'[p] = "remove" /\ disk' = disk /\ may' = disk
        /\ UNCHANGED <<generation, mine, listed, oldest, doomed, orphans, lone>>
    BY <1>1, <1>11 DEF DescriptorGone, Syncs, TypeOK, Goto, Alone, PruneSteps, passVars, historyVars, SyncStore
  <2>2. Described' = Described BY <2>1 DEF Described
  <2>3. p \in lone => Passing(p)'
    BY <1>2, <1>3, <2>1, <2>2 DEF Passing, Older, PruneSteps, Removing, Current
  <2> QED BY <1>5, <2>1, <2>3 DEF PruneSteps
<1>12. CASE CollectOrphan(p)
  <2>1. PICK s \in orphans[p] : Unlink(Data(s)) /\ orphans' = [orphans EXCEPT ![p] = @ \ {s}]
    BY <1>12 DEF CollectOrphan
  <2>2. /\ Alone(p) /\ pc[p] = "collect" /\ pc'[p] = "orphan_gone" /\ orphans'[p] = orphans[p] \ {s}
        /\ UNCHANGED <<generation, mine, listed, oldest, doomed, lone>>
    BY <1>1, <1>12, <2>1 DEF CollectOrphan, TypeOK, PruneStep, Goto, Alone, PruneSteps, historyVars
  <2>3. Described' = Described BY <2>1, RecordsAre DEF Described, Unlink
  <2>4. may' = may /\ Data(s) \notin disk' BY <2>1 DEF Unlink
  <2>5. p \in lone => Passing(p)'
    BY <1>3, <2>2, <2>3, <2>4 DEF Passing, Older, PruneSteps, Removing, Current
  <2> QED BY <1>5, <2>2, <2>5 DEF PruneSteps
<1>13. CASE OrphanGone(p)
  <2>1. /\ Alone(p) /\ pc[p] = "orphan_gone" /\ pc'[p] = "collect" /\ disk' = disk /\ may' = disk
        /\ UNCHANGED <<generation, mine, listed, oldest, doomed, orphans, lone>>
    BY <1>1, <1>13 DEF OrphanGone, Syncs, TypeOK, Goto, Alone, PruneSteps, passVars, historyVars, SyncStore
  <2>2. Described' = Described BY <2>1 DEF Described
  <2>3. p \in lone => Passing(p)'
    BY <1>2, <1>3, <2>1, <2>2 DEF Passing, Older, PruneSteps, Removing, Current
  <2> QED BY <1>5, <2>1, <2>3 DEF PruneSteps
<1>14. CASE EndPass(p) BY <1>14, EndSolo DEF EndPass
<1> QED BY <1>6, <1>7, <1>8, <1>9, <1>10, <1>11, <1>12, <1>13, <1>14 DEF Prune

LEMMA QuerySolo == ASSUME SInv, LInv, NEW p \in Proc, Query(p) PROVE LInv'
<1>1. TypeOK BY DEF SInv
<1>2. ASSUME pc'[p] \in ReadSteps PROVE pc'[p] # "idle" /\ Refreshing(p)' /\ Passing(p)'
  BY <1>2 DEF ReadSteps, Refreshing, Passing, RefreshSteps, PruneSteps, Removing
<1>3. CASE BeginRead(p)
  <2>1. PICK s \in Snapshots : mine' = [mine EXCEPT ![p] = s] BY <1>3 DEF BeginRead
  <2>2. /\ Alone(p) /\ pc'[p] = "locate"
        /\ lone' = (IF \A q \in Proc \ {p} : pc[q] = "idle" THEN {p} ELSE {})
    BY <1>1, <1>3, <2>1, SnapshotsAre, MaxRefreshesAssumption
    DEF BeginRead, Begin, Goto, TypeOK, Alone, passVars, ReadSteps
  <2> QED BY <1>2, <2>2, SoloKeeps DEF ReadSteps
<1>4. CASE Locate(p)
  <2>1. CASE End(p) BY <1>4, <2>1, EndSolo DEF Locate
  <2>2. CASE Go(p, "read")
    <3>1. Alone(p) /\ pc'[p] = "read" /\ lone' = lone BY <2>2, GoIs DEF ReadSteps
    <3>2. pc[p] # "idle" BY <1>4 DEF Locate
    <3> QED BY <1>2, <3>1, <3>2, SoloKeeps DEF ReadSteps
  <2> QED BY <1>4, <2>1, <2>2 DEF Locate
<1>5. CASE ReadData(p) BY <1>5, EndSolo DEF ReadData
<1> QED BY <1>3, <1>4, <1>5 DEF Query

LEMMA LoneKeeps == SInv /\ LInv /\ [Next]_vars => LInv'
<1> SUFFICES ASSUME SInv, LInv, [Next]_vars PROVE LInv' OBVIOUS
<1>1. CASE PowerLoss
  <2>1. lone' = {} BY <1>1 DEF PowerLoss
  <2> QED BY <2>1 DEF LInv
<1>2. CASE UNCHANGED vars
  BY <1>2 DEF vars, storeVars, passVars, historyVars, LInv, Refreshing, Passing, Older, Others, Described, Current
<1>3. ASSUME NEW p \in Proc, Abort(p) PROVE LInv' BY <1>3, EndSolo DEF Abort
<1> QED BY <1>1, <1>2, <1>3, RefreshSolo, PruneSolo, QuerySolo DEF Next

\* OneCommandRecovers: whatever failed, tied or was lost before, a refresh that
\* no other command overlaps has no rival and ends as the one newest generation,
\* durably; and a prune that none overlaps, and that listed all descriptors,
\* leaves nothing older than what it keeps, also after a power loss.
THEOREM UndisturbedRecovers == Spec => []OneCommandRecovers
<1>1. Init => LInv BY DEF Init, LInv
<1>2. Spec => [](SInv /\ LInv) BY <1>1, InitHolds, NextKeeps, LoneKeeps, PTL DEF Spec
<1>3. ASSUME SInv, LInv, NEW p \in lone
      PROVE  /\ pc[p] = "check" => \A s \in Described : generation[s] < generation[mine[p]]
             /\ pc[p] \in {"verify", "recheck", "stored"} =>
                  Newest(Described) = {mine[p]} /\ {Data(mine[p]), Descriptor(mine[p])} \subseteq must
             /\ pc[p] = "collect" /\ orphans[p] = {} /\ oldest[p] > 0 =>
                  /\ \A s \in Described : generation[s] >= oldest[p]
                  /\ \A s \in listed[p] : generation[s] < oldest[p] => Data(s) \notin may
  <2>1. TypeOK /\ Numbered /\ Refreshing(p) /\ Passing(p) /\ p \in Proc /\ Owned(p)
    BY <1>3 DEF SInv, LInv, TypeOK
  <2>2. \A s \in Snapshots : generation[s] \in Nat BY <2>1, RecordsBegun
  <2>3. must \subseteq disk /\ disk \subseteq may /\ oldest[p] \in Nat
    BY <2>1, MaxRefreshesAssumption DEF TypeOK
  <2>4. ASSUME pc[p] = "check" PROVE \A s \in Described : generation[s] < generation[mine[p]]
    <3>1. mine[p] \notin Described BY <2>1, <2>3, <2>4 DEF Owned, Unstored, Described
    <3> QED BY <2>1, <2>4, <3>1 DEF Refreshing, Older, Others, RefreshSteps
  <2>5. ASSUME pc[p] \in {"verify", "recheck", "stored"}
        PROVE  Newest(Described) = {mine[p]} /\ {Data(mine[p]), Descriptor(mine[p])} \subseteq must
    <3>1. {Data(mine[p]), Descriptor(mine[p])} \subseteq must BY <2>1, <2>5 DEF Refreshing
    <3>2. mine[p] \in Described BY <2>1, <2>3, <2>5, <3>1 DEF Owned, Begun, Described, RefreshSteps
    <3>3. \A s \in Described \ {mine[p]} : generation[s] < generation[mine[p]]
      BY <2>1, <2>5 DEF Refreshing, Older, Others, RefreshSteps
    <3>4. \A s \in Described : generation[s] \in Nat BY <2>2 DEF Described
    <3> QED BY <3>1, <3>2, <3>3, <3>4 DEF Newest
  <2>6. ASSUME pc[p] = "collect", orphans[p] = {}, oldest[p] > 0
        PROVE  /\ \A s \in Described : generation[s] >= oldest[p]
               /\ \A s \in listed[p] : generation[s] < oldest[p] => Data(s) \notin may
    <3>1. /\ \A s \in Described : ~Older(s, oldest[p])
          /\ \A s \in listed[p] : Older(s, oldest[p]) => Data(s) \notin may
      BY <2>1, <2>6 DEF Passing, PruneSteps, Removing, Current
    <3> QED BY <2>2, <2>3, <3>1 DEF Older, Described
  <2> QED BY <2>4, <2>5, <2>6
<1>4. SInv /\ LInv => OneCommandRecovers
  BY <1>3 DEF OneCommandRecovers, LoneRefreshRecovers, LonePruneConverges
<1> QED BY <1>2, <1>4, PTL
===============================================================================
