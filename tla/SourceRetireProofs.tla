-------------------------- MODULE SourceRetireProofs --------------------------
(***************************************************************************)
(* Proofs about SourceRetireRetention, for every set of invocations, any   *)
(* number of names, any changes by other users and any number of           *)
(* incarnations: every record of a removal is honest, and only the named   *)
(* causes keep an operation from going on.                                 *)
(*                                                                         *)
(* A power loss may mix old and new directories, so a record and the name  *)
(* it is about are compared across all images: a deletion that one image   *)
(* records is gone in every other (Deletions), and what is gone in one is  *)
(* attempted in every other until the end of the operation is recorded in  *)
(* all of them (Accounts).  The record of the end moves from the journal   *)
(* to the tombstone, to the forget marker and to the incarnation without a *)
(* moment in which some image holds none (SealedEverywhere).               *)
(*                                                                         *)
(* An operation that nobody disturbs goes on from every image: until one   *)
(* of the named histories ends it, every image is close to the visible     *)
(* disk (Behind), in the same part of run, prune or forget.                *)
(***************************************************************************)
EXTENDS SourceRetireRetention, TLAPS

-----------------------------------------------------------------------------
(* What an image shows of the end of the operation, outside of its journal. *)

Closed(j) == j.tomb.marks \in {"intent", "complete"} \/ j.erasing = j.gen \/ j.gen > 1
SealedEverywhere == \A j \in surviving : Closed(j)

Away == {"none", "other"}

\* A recorded deletion is a name that is gone, in whatever image.
Deletions ==
  \A j \in surviving, k \in surviving : \A i \in 1..j.log.deleted : k.name[i] \in Away

\* A name that is gone in one image was attempted in every image.
Attempts ==
  \A j \in surviving, k \in surviving :
    \A i \in 1..Files : k.name[i] = "none" => i <= j.log.attempted \/ j.log.done

Accounts ==
  /\ (\E p \in Proc : outcome[p] = "retired") => SealedEverywhere \/ \A j \in surviving : j.log.done
  /\ changes = 0 /\ ~reused => SealedEverywhere \/ Attempts

-----------------------------------------------------------------------------
(* An image j beside the visible disk d.                                   *)

Beside(j, d) ==
  /\ j \in Images
  /\ j.root # "none" => j.gen <= MaxIncarnations
  /\ j.erasing < j.gen \/ (j.erasing = j.gen /\ j.root # "none")
  /\ j.gen <= d.gen /\ (d.root # "none" => j.gen = d.gen /\ j.root # "none")
  /\ d.tomb.marks \in {"none", "dir"} => j.tomb.marks \in {"none", "dir"}
  /\ j.tomb.marks = "none" => j.tomb.pending = "none"

Stored == disk \in surviving /\ \A j \in surviving : Beside(j, disk)

-----------------------------------------------------------------------------
(* The invocations.                                                        *)

Begun == {"bind", "pass", "next", "unlink", "unlinked", "recover", "stage", "fill", "rename"}
Marking == {"stage", "fill", "rename"}

\* A lock holder of run or resume.
Retires(p) ==
  /\ pc[p] \in {"idle", "review", "control", "init", "open", "tree", "intent"} => mark[p] = NoMarker
  /\ pc[p] \in {"tree", "intent", "confirm"} => disk.root # "none"
  /\ pc[p] \in Begun \/ (pc[p] = "confirm" /\ mark[p] # NoMarker) =>
       disk.root # "none" /\ disk.tomb.marks = "none"
  /\ pc[p] \in Begun /\ ~trusts[p] => \A j \in surviving : j.log = disk.log
  /\ pc[p] \in {"unlink", "unlinked", "recover"} =>
       disk.log.deleted < Files /\ disk.log.attempted > disk.log.deleted
  /\ pc[p] \in Marking =>
       /\ mark[p] \in {Attempt, Deleted("confirmed"), Deleted("recovered"), Complete}
       /\ mark[p] = Attempt => disk.log.deleted < Files /\ disk.log.attempted <= disk.log.deleted
       /\ mark[p].dest = "deleted" =>
            disk.log.deleted < Files /\ \A k \in surviving : k.name[disk.log.deleted + 1] \in Away
  /\ pc[p] = "confirm" =>
       /\ mark[p] = Attempt => disk.log.deleted < Files /\ disk.log.attempted > disk.log.deleted
       /\ mark[p] = Complete => disk.log.done

Burying == {"tomb", "tomb_fill", "tomb_commit"}
Forgetting == {"erase_open", "erase", "vanish", "look", "unmark", "report"}

\* A lock holder of prune, or of forget as far as its root intent.
Buries(p) ==
  /\ named[p] # 0 => pc[p] \in Burying \cup {"tomb_confirm"} \cup Forgetting
  /\ pc[p] \in Burying =>
       /\ disk.root # "none"
       /\ IF named[p] = 0
          THEN disk.tomb.marks \in {"none", "dir"} \/ (disk.tomb.marks = "intent" /\ disk.root = "kept")
          ELSE disk.tomb.marks = "complete" /\ named[p] = disk.gen
  /\ pc[p] = "tomb" => disk.tomb.pending \in {"none", Target(p)}
  /\ pc[p] \in {"tomb_fill", "tomb_commit"} => disk.tomb.marks # "none" /\ disk.tomb.pending = Target(p)
  /\ pc[p] = "tomb_confirm" =>
       /\ disk.root # "none"
       /\ IF named[p] = 0
          THEN /\ disk.tomb.pending = "none"
               /\ disk.tomb.marks = "intent" \/ (disk.tomb.marks = "complete" /\ disk.root = "kept")
          ELSE disk.erasing = disk.gen /\ named[p] = disk.gen
  /\ pc[p] = "strip" =>
       /\ disk.tomb.marks = "intent" /\ disk.tomb.pending = "none" /\ disk.root # "none"
       /\ \A j \in surviving : j.tomb = disk.tomb

\* What a forget has under way.
Erases(p) ==
  /\ named[p] <= disk.gen
  /\ named[p] = disk.gen => disk.root # "none"
  /\ pc[p] \in Forgetting => named[p] # 0
  /\ pc[p] = "erase" =>
       /\ named[p] = disk.gen
       /\ \A j \in surviving : j.gen = disk.gen /\ j.erasing = disk.gen
  /\ pc[p] \in {"look", "unmark", "report"} => \A j \in surviving : named[p] < j.gen
  /\ pc[p] = "report" => disk.erasing # named[p]

Progress(p) == Retires(p) /\ Buries(p) /\ Erases(p)

Locked == Holding \cup RetentionHolding
Steps == Unlocked \cup RetentionUnlocked \cup Locked
Outcomes == {"none", "retired", "already", "pruned", "forgotten"}

CallType ==
  /\ kind \in Kinds
  /\ pc \in [Proc -> Steps] /\ mark \in [Proc -> Markers] /\ trusts \in [Proc -> BOOLEAN]
  /\ outcome \in [Proc -> Outcomes] /\ named \in [Proc -> 0..MaxIncarnations]
  /\ reused \in BOOLEAN /\ late \in BOOLEAN /\ changes \in 0..MaxChanges

LockType ==
  lock \in Proc \cup {Nobody} /\ \A p \in Proc : pc[p] \in Locked <=> lock = p

IInv ==
  /\ Stored /\ Deletions /\ Accounts
  /\ CallType /\ LockType
  /\ \A p \in Proc : Progress(p)

-----------------------------------------------------------------------------
(* What a write of some directories leaves as it was.                      *)

Keeps(parts, s, j) ==
  /\ s \in Images
  /\ "root" \notin parts => s.root = j.root
  /\ "log" \notin parts => s.log = j.log
  /\ "pending" \notin parts => s.pending = j.pending
  /\ "name" \notin parts => s.name = j.name
  /\ "tomb" \notin parts => s.tomb = j.tomb
  /\ "gen" \notin parts => s.gen = j.gen
  /\ "erasing" \notin parts => s.erasing = j.erasing

\* A synced image takes the other directories over.
Takes(parts, s, d) ==
  /\ "root" \in parts => s.root = d.root
  /\ "log" \in parts => s.log = d.log
  /\ "pending" \in parts => s.pending = d.pending
  /\ "tomb" \in parts => s.tomb = d.tomb
  /\ "gen" \in parts => s.gen = d.gen
  /\ "erasing" \in parts => s.erasing = d.erasing

Writes(parts) ==
  /\ disk' \in surviving' /\ Keeps(parts, disk', disk)
  /\ \A s \in surviving' : \E j \in surviving : Keeps(parts, s, j)

Writable == {"root", "log", "pending", "tomb", "erasing"}

\* What may be written to a directory.
Fits(part, value) ==
  /\ part = "root" => value \in {"none", "bare", "kept", "tree", "intent", "noscratch", "headless"}
  /\ part = "log" => value \in Logs
  /\ part = "pending" => value \in Scratch
  /\ part = "tomb" => value \in Tombs
  /\ part = "erasing" => value \in 0..MaxIncarnations

LEMMA ImageFields ==
  ASSUME NEW j \in Images
  PROVE  /\ j.root \in {"none", "bare", "kept", "tree", "intent", "noscratch", "headless"}
         /\ j.log \in Logs /\ j.pending \in Scratch /\ j.name \in [1..Files -> Names]
         /\ j.tomb \in Tombs /\ j.gen \in 1..(MaxIncarnations + 1) /\ j.erasing \in 0..MaxIncarnations
         /\ j.gen \in Nat \ {0} /\ j.erasing \in Nat
  BY MaxIncarnationsAssumption DEF Images

LEMMA PutFields ==
  ASSUME NEW j \in Images, NEW part \in Writable, NEW value, Fits(part, value)
  PROVE  Keeps({part}, [j EXCEPT ![part] = value], j) /\ [j EXCEPT ![part] = value][part] = value
  BY DEF Images, Writable, Fits, Keeps

LEMMA PutShape ==
  ASSUME Stored, NEW part \in Writable, NEW value, Fits(part, value), Put(part, value)
  PROVE  /\ Writes({part}) /\ disk'[part] = value
         /\ \A s \in surviving' : s \in surviving \/ \E j \in surviving : Keeps({part}, s, j) /\ s[part] = value
<1>1. disk \in surviving /\ surviving \subseteq Images BY DEF Stored, Beside
<1> DEFINE put(j) == [j EXCEPT ![part] = value]
<1>2. \A j \in surviving : Keeps({part}, put(j), j) /\ put(j)[part] = value /\ Keeps({part}, j, j)
  BY <1>1, PutFields DEF Keeps
<1>3. disk' = put(disk) /\ surviving' = surviving \cup {put(j) : j \in surviving} BY DEF Put
<1> HIDE DEF put
<1>4. disk' \in surviving' BY <1>1, <1>3
<1>5. \A s \in surviving' : s \in surviving \/ \E j \in surviving : Keeps({part}, s, j) /\ s[part] = value
  BY <1>2, <1>3
<1>6. \A s \in surviving' : \E j \in surviving : Keeps({part}, s, j) BY <1>2, <1>3
<1> QED BY <1>1, <1>2, <1>3, <1>4, <1>5, <1>6 DEF Writes

LEMMA PutDurablyShape ==
  ASSUME Stored, NEW part \in Writable, NEW value, Fits(part, value), PutDurably(part, value)
  PROVE  /\ Writes({part}) /\ disk'[part] = value
         /\ \A s \in surviving' : \E j \in surviving : Keeps({part}, s, j) /\ s[part] = value
<1>1. disk \in surviving /\ surviving \subseteq Images BY DEF Stored, Beside
<1> DEFINE put(j) == [j EXCEPT ![part] = value]
<1>2. \A j \in surviving : Keeps({part}, put(j), j) /\ put(j)[part] = value
  BY <1>1, PutFields
<1>3. disk' = put(disk) /\ surviving' = {put(j) : j \in surviving} BY DEF PutDurably
<1> HIDE DEF put
<1>4. disk' \in surviving' BY <1>1, <1>3
<1>5. \A s \in surviving' : \E j \in surviving : Keeps({part}, s, j) /\ s[part] = value BY <1>2, <1>3
<1> QED BY <1>1, <1>2, <1>3, <1>4, <1>5 DEF Writes

LEMMA SyncedFields ==
  ASSUME NEW d \in Images, NEW j \in Images, NEW parts, "name" \notin parts
  PROVE  LET s == [part \in DOMAIN j |-> IF part \in parts THEN d[part] ELSE j[part]]
         IN  Keeps(parts, s, j) /\ Takes(parts, s, d)
<1> DEFINE s == [part \in DOMAIN j |-> IF part \in parts THEN d[part] ELSE j[part]]
<1>1. DOMAIN j = {"root", "log", "pending", "name", "tomb", "gen", "erasing"} BY DEF Images
<1>2. /\ s.root = (IF "root" \in parts THEN d.root ELSE j.root)
      /\ s.log = (IF "log" \in parts THEN d.log ELSE j.log)
      /\ s.pending = (IF "pending" \in parts THEN d.pending ELSE j.pending)
      /\ s.name = j.name
      /\ s.tomb = (IF "tomb" \in parts THEN d.tomb ELSE j.tomb)
      /\ s.gen = (IF "gen" \in parts THEN d.gen ELSE j.gen)
      /\ s.erasing = (IF "erasing" \in parts THEN d.erasing ELSE j.erasing)
  BY <1>1
<1>3. s = [root |-> s.root, log |-> s.log, pending |-> s.pending, name |-> s.name,
           tomb |-> s.tomb, gen |-> s.gen, erasing |-> s.erasing]
  BY <1>1
<1>4. s \in Images BY <1>2, <1>3 DEF Images
<1> HIDE DEF s
<1>5. Keeps(parts, s, j) /\ Takes(parts, s, d) BY <1>2, <1>4 DEF Keeps, Takes
<1> QED BY <1>5 DEF s

LEMMA SyncShape ==
  ASSUME Stored, NEW parts, "name" \notin parts, Sync(parts)
  PROVE  /\ Writes(parts) /\ disk' = disk
         /\ \A s \in surviving' : \E j \in surviving : Keeps(parts, s, j) /\ Takes(parts, s, disk)
<1>1. disk \in surviving /\ surviving \subseteq Images /\ disk \in Images BY DEF Stored, Beside
<1> DEFINE synced(j) == [part \in DOMAIN j |-> IF part \in parts THEN disk[part] ELSE j[part]]
<1>2. \A j \in surviving : Keeps(parts, synced(j), j) /\ Takes(parts, synced(j), disk)
  BY <1>1, SyncedFields
<1>3. synced(disk) = disk
  <2>1. DOMAIN disk = {"root", "log", "pending", "name", "tomb", "gen", "erasing"} BY <1>1 DEF Images
  <2>2. synced(disk) = [part \in DOMAIN disk |-> disk[part]] OBVIOUS
  <2> QED BY <1>1, <2>1, <2>2 DEF Images
<1>4. disk' = disk /\ surviving' = {synced(j) : j \in surviving} BY DEF Sync
<1> HIDE DEF synced
<1>5. disk' \in surviving' BY <1>1, <1>3, <1>4
<1>6. Keeps(parts, disk', disk) BY <1>1, <1>4 DEF Keeps
<1>7. \A s \in surviving' : \E j \in surviving : Keeps(parts, s, j) /\ Takes(parts, s, disk)
  BY <1>2, <1>4
<1> QED BY <1>4, <1>5, <1>6, <1>7 DEF Writes

\* A name is changed, or synced, in an image.
LEMMA NameFields ==
  ASSUME NEW j \in Images, NEW i \in 1..Files, NEW value \in Names
  PROVE  LET s == [j EXCEPT !.name[i] = value]
         IN  Keeps({"name"}, s, j) /\ s.name[i] = value /\ \A k \in 1..Files : k # i => s.name[k] = j.name[k]
  BY DEF Images, Keeps

LEMMA PutNameShape ==
  ASSUME Stored, NEW i \in 1..Files, NEW value \in Names, PutName(i, value)
  PROVE  /\ Writes({"name"}) /\ disk'.name[i] = value
         /\ \A k \in 1..Files : k # i => disk'.name[k] = disk.name[k]
         /\ \A s \in surviving' : \E j \in surviving :
              /\ s.log = j.log /\ (s.name[i] = value \/ s.name[i] = j.name[i])
              /\ \A k \in 1..Files : k # i => s.name[k] = j.name[k]
<1>1. disk \in surviving /\ surviving \subseteq Images BY DEF Stored, Beside
<1> DEFINE put(j) == [j EXCEPT !.name[i] = value]
<1>2. \A j \in surviving :
        /\ Keeps({"name"}, put(j), j) /\ Keeps({"name"}, j, j)
        /\ put(j).name[i] = value /\ \A k \in 1..Files : k # i => put(j).name[k] = j.name[k]
  BY <1>1, NameFields DEF Keeps
<1>3. disk' = put(disk) /\ surviving' = surviving \cup {put(j) : j \in surviving} BY DEF PutName
<1> HIDE DEF put
<1>4. disk' \in surviving' BY <1>1, <1>3
<1>5. \A s \in surviving' : \E j \in surviving : s = j \/ s = put(j) BY <1>3
<1>6. Writes({"name"}) BY <1>1, <1>2, <1>3, <1>4, <1>5 DEF Writes
<1>7. \A j \in surviving : put(j).log = j.log BY <1>2 DEF Keeps
<1> QED BY <1>1, <1>2, <1>3, <1>5, <1>6, <1>7

LEMMA SyncNameShape ==
  ASSUME Stored, NEW i \in 1..Files, SyncName(i)
  PROVE  /\ Writes({"name"}) /\ disk' = disk
         /\ \A s \in surviving' : \E j \in surviving :
              /\ s.log = j.log /\ s.name[i] = disk.name[i]
              /\ \A k \in 1..Files : k # i => s.name[k] = j.name[k]
<1>1. disk \in surviving /\ surviving \subseteq Images /\ disk \in Images BY DEF Stored, Beside
<1> DEFINE synced(j) == [j EXCEPT !.name[i] = disk.name[i]]
<1>2. disk.name[i] \in Names BY <1>1, ImageFields
<1>3. \A j \in surviving :
        /\ Keeps({"name"}, synced(j), j)
        /\ synced(j).name[i] = disk.name[i] /\ \A k \in 1..Files : k # i => synced(j).name[k] = j.name[k]
  BY <1>1, <1>2, NameFields
<1>4. disk' = disk /\ surviving' = {synced(j) : j \in surviving} BY DEF SyncName
<1>5. synced(disk) = disk BY <1>1 DEF Images
<1> HIDE DEF synced
<1>6. disk' \in surviving' BY <1>1, <1>4, <1>5
<1>7. Keeps({"name"}, disk', disk) BY <1>1, <1>4 DEF Keeps
<1>8. Writes({"name"}) BY <1>3, <1>4, <1>6, <1>7 DEF Writes
<1>9. \A j \in surviving : synced(j).log = j.log BY <1>3 DEF Keeps
<1> QED BY <1>3, <1>4, <1>8, <1>9

-----------------------------------------------------------------------------
(* What is stored stays sound.                                             *)

LEMMA StoredFacts ==
  ASSUME Stored
  PROVE  /\ disk \in Images /\ Beside(disk, disk)
         /\ \A j \in surviving : j \in Images /\ Beside(j, disk)
  BY DEF Stored, Beside

\* Changes of the names, the markers and the scratch.
LEMMA PlainStored ==
  ASSUME Stored, NEW parts, Writes(parts), parts \cap {"root", "tomb", "gen", "erasing"} = {}
  PROVE  Stored' /\ (SealedEverywhere => SealedEverywhere')
<1>1. /\ disk'.root = disk.root /\ disk'.tomb = disk.tomb /\ disk'.gen = disk.gen
      /\ disk'.erasing = disk.erasing
  BY DEF Writes, Keeps
<1>2. \A s \in surviving' : \E j \in surviving :
        /\ s \in Images /\ s.root = j.root /\ s.tomb = j.tomb /\ s.gen = j.gen /\ s.erasing = j.erasing
  BY DEF Writes, Keeps
<1>3. \A s \in surviving' : Beside(s, disk') BY <1>1, <1>2 DEF Stored, Beside
<1>4. Stored' BY <1>3 DEF Stored, Writes
<1>5. SealedEverywhere => SealedEverywhere' BY <1>2 DEF SealedEverywhere, Closed
<1> QED BY <1>4, <1>5

\* The operation directory stays.
LEMMA RootStored ==
  ASSUME Stored, Writes({"root"}), disk.root # "none", disk'.root # "none",
         \A s \in surviving' : s \in surviving \/ s.root # "none"
  PROVE  Stored' /\ (SealedEverywhere => SealedEverywhere')
<1>1. disk'.tomb = disk.tomb /\ disk'.gen = disk.gen /\ disk'.erasing = disk.erasing
  BY DEF Writes, Keeps
<1>2. ASSUME NEW s \in surviving' PROVE Beside(s, disk') /\ (SealedEverywhere => Closed(s))
  <2>1. PICK j \in surviving :
          s \in Images /\ s.tomb = j.tomb /\ s.gen = j.gen /\ s.erasing = j.erasing
    BY <1>2 DEF Writes, Keeps
  <2>2. Beside(j, disk) /\ Beside(disk, disk) BY StoredFacts
  <2>3. s.root # "none" BY <1>2 DEF Stored, Beside
  <2>4. j.gen = disk.gen /\ disk.gen <= MaxIncarnations BY <2>2 DEF Beside
  <2>5. Beside(s, disk') BY <1>1, <2>1, <2>2, <2>3, <2>4 DEF Beside
  <2> QED BY <2>1, <2>5 DEF SealedEverywhere, Closed
<1> QED BY <1>2 DEF Stored, Writes, SealedEverywhere

\* A tombstone that may be lost ...
LEMMA PutTombStored ==
  ASSUME Stored, NEW value \in Tombs, Put("tomb", value), value.marks # "none",
         value.marks = disk.tomb.marks \/ value.marks \in {"intent", "complete"}
  PROVE  /\ Writes({"tomb"}) /\ disk'.tomb = value
         /\ Stored' /\ (SealedEverywhere => SealedEverywhere')
<1>1. /\ Writes({"tomb"}) /\ disk'.tomb = value
      /\ \A s \in surviving' : s \in surviving \/ \E j \in surviving : Keeps({"tomb"}, s, j) /\ s.tomb = value
  BY PutShape DEF Writable, Fits
<1>2. disk'.root = disk.root /\ disk'.gen = disk.gen /\ disk'.erasing = disk.erasing
  BY <1>1 DEF Writes, Keeps
<1>3. ASSUME NEW s \in surviving' PROVE Beside(s, disk') /\ (SealedEverywhere => Closed(s))
  <2>1. CASE s \in surviving
    BY <1>1, <1>2, <2>1 DEF Stored, Beside, SealedEverywhere
  <2>2. CASE s \notin surviving
    <3>1. PICK j \in surviving :
            /\ s \in Images /\ s.root = j.root /\ s.gen = j.gen /\ s.erasing = j.erasing /\ s.tomb = value
      BY <1>1, <1>3, <2>2 DEF Keeps
    <3>2. Beside(j, disk) BY StoredFacts
    <3>3. Beside(s, disk') BY <1>1, <1>2, <3>1, <3>2 DEF Beside
    <3>4. value.marks \in {"intent", "complete"} \/ j.tomb.marks \in {"none", "dir"}
      BY <3>2 DEF Beside, Tombs
    <3>5. Closed(j) => Closed(s) BY <3>1, <3>4 DEF Closed
    <3> QED BY <3>3, <3>5 DEF SealedEverywhere
  <2> QED BY <2>1, <2>2
<1> QED BY <1>1, <1>3 DEF Stored, Writes, SealedEverywhere

\* ... and one that may not.
LEMMA PutTombDurablyStored ==
  ASSUME Stored, NEW value \in Tombs, PutDurably("tomb", value),
         value.marks = "none" => value.pending = "none",
         disk.tomb.marks \in {"none", "dir"} \/ \A j \in surviving : j.erasing = j.gen
  PROVE  /\ Writes({"tomb"}) /\ disk'.tomb = value
         /\ Stored' /\ (SealedEverywhere => SealedEverywhere')
<1>1. /\ Writes({"tomb"}) /\ disk'.tomb = value
      /\ \A s \in surviving' : \E j \in surviving : Keeps({"tomb"}, s, j) /\ s.tomb = value
  BY PutDurablyShape DEF Writable, Fits
<1>2. disk'.root = disk.root /\ disk'.gen = disk.gen /\ disk'.erasing = disk.erasing
  BY <1>1 DEF Writes, Keeps
<1>3. ASSUME NEW s \in surviving' PROVE Beside(s, disk') /\ (SealedEverywhere => Closed(s))
  <2>1. PICK j \in surviving :
          /\ s \in Images /\ s.root = j.root /\ s.gen = j.gen /\ s.erasing = j.erasing /\ s.tomb = value
    BY <1>1, <1>3 DEF Keeps
  <2>2. Beside(j, disk) BY StoredFacts
  <2>3. Beside(s, disk') BY <1>1, <1>2, <2>1, <2>2 DEF Beside
  <2>4. Closed(j) => Closed(s) BY <2>1, <2>2 DEF Closed, Beside
  <2> QED BY <2>3, <2>4 DEF SealedEverywhere
<1> QED BY <1>1, <1>3 DEF Stored, Writes, SealedEverywhere

\* The bytes of a staged marker.
LEMMA FillTombShape ==
  ASSUME Stored, NEW p \in Proc, FillTomb(p)
  PROVE  /\ Writes({"tomb"}) /\ Stored' /\ (SealedEverywhere => SealedEverywhere')
         /\ disk'.tomb.marks = disk.tomb.marks /\ disk'.tomb.pending = disk.tomb.pending
<1> DEFINE filled(j) == [j EXCEPT !.tomb.whole = (j.tomb.pending # "none")]
<1>0. disk' = filled(disk) /\ surviving' = {filled(j) : j \in surviving} BY DEF FillTomb
<1>1. ASSUME NEW j \in Images
      PROVE  /\ Keeps({"tomb"}, filled(j), j)
             /\ filled(j).tomb.marks = j.tomb.marks /\ filled(j).tomb.pending = j.tomb.pending
  BY <1>1 DEF Images, Tombs, Keeps
<1> HIDE DEF filled
<1>2. disk \in surviving /\ surviving \subseteq Images /\ disk \in Images BY DEF Stored, Beside
<1>3. disk' \in surviving' /\ \A s \in surviving' : \E j \in surviving : s = filled(j) BY <1>0, <1>2
<1>4. Writes({"tomb"}) BY <1>0, <1>1, <1>2, <1>3 DEF Writes
<1>5. ASSUME NEW s \in surviving' PROVE Beside(s, disk') /\ (SealedEverywhere => Closed(s))
  <2>1. PICK j \in surviving : s = filled(j) BY <1>3
  <2>2. Beside(j, disk) /\ j \in Images BY StoredFacts
  <2>3. /\ s \in Images /\ s.root = j.root /\ s.gen = j.gen /\ s.erasing = j.erasing
        /\ s.tomb.marks = j.tomb.marks /\ s.tomb.pending = j.tomb.pending
    BY <1>1, <2>1, <2>2 DEF Keeps
  <2>4. /\ disk'.root = disk.root /\ disk'.gen = disk.gen /\ disk'.erasing = disk.erasing
        /\ disk'.tomb.marks = disk.tomb.marks
    BY <1>0, <1>1, <1>2 DEF Keeps
  <2>5. Beside(s, disk') BY <2>2, <2>3, <2>4 DEF Beside
  <2>6. Closed(j) => Closed(s) BY <2>3 DEF Closed
  <2> QED BY <2>5, <2>6 DEF SealedEverywhere
<1>6. Stored' /\ (SealedEverywhere => SealedEverywhere') BY <1>3, <1>5 DEF Stored, SealedEverywhere
<1> QED BY <1>0, <1>1, <1>2, <1>4, <1>6

\* The forget marker moves from the tombstone to the target root.
LEMMA PublishForgetStored ==
  ASSUME Stored, NEW p \in Proc, CommitTomb(p), named[p] # 0, disk.root # "none"
  PROVE  /\ Writes({"tomb", "erasing"}) /\ disk'.erasing = disk.gen
         /\ Stored' /\ (SealedEverywhere => SealedEverywhere')
<1> DEFINE buried == [NoTomb EXCEPT !.marks = "complete"]
           published(j) == [j EXCEPT !.tomb = buried, !.erasing = disk.gen]
<1>1. disk' = published(disk) /\ surviving' = surviving \cup {published(j) : j \in surviving}
  BY DEF CommitTomb
<1>2. disk.gen \in 1..MaxIncarnations /\ Beside(disk, disk)
  BY StoredFacts, ImageFields DEF Beside
<1>3. buried \in Tombs /\ buried.marks = "complete"
  BY DEF NoTomb, Tombs
<1> HIDE DEF buried
<1>4. \A j \in surviving :
        /\ Keeps({"tomb", "erasing"}, published(j), j) /\ Keeps({"tomb", "erasing"}, j, j)
        /\ published(j).tomb.marks = "complete" /\ published(j).erasing = disk.gen
  <2>1. SUFFICES ASSUME NEW j \in Images
                 PROVE  /\ Keeps({"tomb", "erasing"}, published(j), j) /\ Keeps({"tomb", "erasing"}, j, j)
                        /\ published(j).tomb.marks = "complete" /\ published(j).erasing = disk.gen
    BY StoredFacts
  <2>2. disk.gen \in 0..MaxIncarnations BY <1>2
  <2>3. published(j) \in Images BY <1>3, <2>2 DEF Images
  <2>4. published(j).tomb = buried /\ published(j).erasing = disk.gen BY DEF Images
  <2> QED BY <1>3, <2>3, <2>4 DEF Images, Keeps
<1> HIDE DEF published
<1>5. disk' \in surviving' /\ \A s \in surviving' : \E j \in surviving : s = j \/ s = published(j)
  BY <1>1 DEF Stored
<1>6. Writes({"tomb", "erasing"}) BY <1>1, <1>4, <1>5 DEF Writes, Stored
<1>7. disk'.root = disk.root /\ disk'.gen = disk.gen /\ disk'.tomb.marks = "complete" /\ disk'.erasing = disk.gen
  BY <1>1, <1>4 DEF Stored, Keeps
<1>8. ASSUME NEW s \in surviving' PROVE Beside(s, disk') /\ (SealedEverywhere => Closed(s))
  <2>1. PICK j \in surviving : s = j \/ s = published(j) BY <1>5
  <2>2. Beside(j, disk) /\ j \in Images BY StoredFacts
  <2>3. CASE s = j BY <1>7, <2>1, <2>2, <2>3 DEF Beside, SealedEverywhere
  <2>4. CASE s = published(j)
    <3>1. /\ s \in Images /\ s.root = j.root /\ s.gen = j.gen /\ s.tomb.marks = "complete" /\ s.erasing = disk.gen
      BY <1>4, <2>4 DEF Keeps
    <3>2. s.gen = disk.gen /\ disk.root # "none" BY <2>2, <3>1 DEF Beside
    <3> QED BY <1>7, <2>2, <3>1, <3>2 DEF Beside, Closed
  <2> QED BY <2>1, <2>3, <2>4
<1> QED BY <1>5, <1>6, <1>7, <1>8 DEF Stored, SealedEverywhere

\* The directory is gone: its name may be used again.
LEMMA VanishesStored ==
  ASSUME Stored, Vanishes, disk.root # "none"
  PROVE  /\ Writes({"root", "gen"}) /\ disk'.gen = disk.gen + 1 /\ disk'.root = "none"
         /\ disk'.erasing = disk.erasing
         /\ \A s \in surviving' : s \in surviving \/ s.gen = disk.gen + 1
         /\ Stored' /\ (SealedEverywhere => SealedEverywhere')
<1> DEFINE vanished(j) == [j EXCEPT !.root = "none", !.gen = disk.gen + 1]
<1>1. disk' = vanished(disk) /\ surviving' = surviving \cup {vanished(j) : j \in surviving}
  BY DEF Vanishes
<1>2. /\ disk.gen \in 1..MaxIncarnations /\ disk.gen + 1 \in 1..(MaxIncarnations + 1)
      /\ disk.gen \in Nat
  <2>1. disk \in Images /\ Beside(disk, disk) BY StoredFacts
  <2>2. disk.gen <= MaxIncarnations /\ disk.gen \in Nat \ {0} BY <2>1, ImageFields DEF Beside
  <2> QED BY <2>2, MaxIncarnationsAssumption
<1>3. \A j \in surviving :
        /\ Keeps({"root", "gen"}, vanished(j), j) /\ Keeps({"root", "gen"}, j, j)
        /\ vanished(j).root = "none" /\ vanished(j).gen = disk.gen + 1
  BY <1>2, StoredFacts DEF Images, Keeps
<1> HIDE DEF vanished
<1>4. disk' \in surviving' /\ \A s \in surviving' : \E j \in surviving : s = j \/ s = vanished(j)
  BY <1>1 DEF Stored
<1>5. Writes({"root", "gen"}) BY <1>1, <1>3, <1>4 DEF Writes, Stored
<1>6. disk'.root = "none" /\ disk'.gen = disk.gen + 1 /\ disk'.tomb = disk.tomb /\ disk'.erasing = disk.erasing
  BY <1>1, <1>3 DEF Stored, Keeps
<1>7. ASSUME NEW s \in surviving' PROVE Beside(s, disk') /\ (SealedEverywhere => Closed(s))
  <2>1. PICK j \in surviving : s = j \/ s = vanished(j) BY <1>4
  <2>2. /\ Beside(j, disk) /\ j \in Images /\ j.gen \in Nat /\ j.erasing \in Nat
        /\ j.erasing <= j.gen /\ j.gen <= disk.gen
    BY StoredFacts, ImageFields DEF Beside
  <2>3. CASE s = j BY <1>2, <1>6, <2>1, <2>2, <2>3 DEF Beside, SealedEverywhere
  <2>4. CASE s = vanished(j)
    <3>1. /\ s \in Images /\ s.root = "none" /\ s.gen = disk.gen + 1 /\ s.tomb = j.tomb /\ s.erasing = j.erasing
      BY <1>3, <2>4 DEF Keeps
    <3> QED BY <1>2, <1>6, <2>2, <3>1 DEF Beside, Closed
  <2> QED BY <2>1, <2>3, <2>4
<1>8. \A s \in surviving' : s \in surviving \/ s.gen = disk.gen + 1 BY <1>3, <1>4
<1> QED BY <1>4, <1>5, <1>6, <1>7, <1>8 DEF Stored, SealedEverywhere

\* The root intent goes.
LEMMA UnmarkStored ==
  ASSUME Stored, Put("erasing", 0), \A j \in surviving : j.gen > 1
  PROVE  Writes({"erasing"}) /\ disk'.erasing = 0 /\ Stored' /\ (SealedEverywhere => SealedEverywhere')
<1>1. /\ Writes({"erasing"}) /\ disk'.erasing = 0
      /\ \A s \in surviving' : s \in surviving \/ \E j \in surviving : Keeps({"erasing"}, s, j) /\ s.erasing = 0
  BY PutShape, MaxIncarnationsAssumption DEF Writable, Fits
<1>2. disk'.root = disk.root /\ disk'.gen = disk.gen /\ disk'.tomb = disk.tomb BY <1>1 DEF Writes, Keeps
<1>3. ASSUME NEW s \in surviving' PROVE Beside(s, disk') /\ Closed(s)
  <2>1. CASE s \in surviving BY <1>2, <2>1 DEF Stored, Beside, Closed
  <2>2. CASE s \notin surviving
    <3>1. PICK j \in surviving :
            s \in Images /\ s.root = j.root /\ s.gen = j.gen /\ s.tomb = j.tomb /\ s.erasing = 0
      BY <1>1, <1>3, <2>2 DEF Keeps
    <3>2. Beside(j, disk) /\ j.gen \in Nat \ {0} BY StoredFacts, ImageFields
    <3> QED BY <1>2, <3>1, <3>2 DEF Beside, Closed
  <2> QED BY <2>1, <2>2
<1> QED BY <1>1, <1>3 DEF Stored, Writes, SealedEverywhere

\* The new operation directory, durable in the target root with all that is there.
LEMMA MakeRootStored ==
  ASSUME Stored, MakeRoot, disk.root = "none", disk.gen <= MaxIncarnations
  PROVE  /\ disk'.root = "bare" /\ disk'.gen = disk.gen /\ disk'.tomb = disk.tomb
         /\ disk'.erasing = disk.erasing /\ disk'.log = disk.log
         /\ \A s \in surviving' : /\ s.gen = disk.gen /\ s.erasing = disk.erasing /\ s.log = disk.log
                                  /\ \E j \in surviving : s.name = j.name
         /\ Stored' /\ (SealedEverywhere => SealedEverywhere')
<1> DEFINE made(j) == [disk' EXCEPT !.name = j.name]
<1>1. disk' = [disk EXCEPT !.root = "bare"] /\ surviving' = {made(j) : j \in surviving} BY DEF MakeRoot
<1>2. disk \in Images /\ disk \in surviving /\ Beside(disk, disk) BY StoredFacts DEF Stored
<1>3. /\ disk' \in Images /\ disk'.root = "bare" /\ disk'.gen = disk.gen /\ disk'.tomb = disk.tomb
      /\ disk'.erasing = disk.erasing /\ disk'.name = disk.name /\ disk'.log = disk.log
  BY <1>1, <1>2 DEF Images
<1>4. \A j \in surviving :
        /\ made(j) \in Images /\ made(j).root = "bare" /\ made(j).gen = disk.gen /\ made(j).tomb = disk.tomb
        /\ made(j).erasing = disk.erasing /\ made(j).name = j.name /\ made(j).log = disk.log
  BY <1>3, StoredFacts DEF Images
<1>5. made(disk) = disk' BY <1>3 DEF Images
<1> HIDE DEF made
<1>6. disk' \in surviving' BY <1>1, <1>2, <1>5
<1>7. ASSUME NEW s \in surviving' PROVE Beside(s, disk') /\ (SealedEverywhere => Closed(s))
  <2>1. PICK j \in surviving : s = made(j) BY <1>1
  <2> QED BY <1>2, <1>3, <1>4, <2>1, ImageFields DEF Beside, SealedEverywhere, Closed
<1>8. \A s \in surviving' : /\ s.gen = disk.gen /\ s.erasing = disk.erasing /\ s.log = disk.log
                            /\ \E j \in surviving : s.name = j.name
  BY <1>1, <1>4
<1> QED BY <1>3, <1>6, <1>7, <1>8 DEF Stored, SealedEverywhere

-----------------------------------------------------------------------------
(* The syncs.                                                              *)

LEMMA SyncTargetStored ==
  ASSUME Stored, SyncTarget
  PROVE  /\ Writes({"root", "gen", "erasing", "tomb"}) /\ disk' = disk
         /\ \A s \in surviving' : /\ s.root = disk.root /\ s.gen = disk.gen /\ s.erasing = disk.erasing
                                  /\ s.tomb = disk.tomb
         /\ Stored' /\ (SealedEverywhere => SealedEverywhere')
<1> DEFINE parts == {"root", "gen", "erasing", "tomb"}
<1>1. /\ Writes(parts) /\ disk' = disk
      /\ \A s \in surviving' : \E j \in surviving : Keeps(parts, s, j) /\ Takes(parts, s, disk)
  BY SyncShape DEF SyncTarget
<1>2. \A s \in surviving' : /\ s \in Images /\ s.root = disk.root /\ s.gen = disk.gen
                            /\ s.erasing = disk.erasing /\ s.tomb = disk.tomb
  BY <1>1 DEF Keeps, Takes
<1>3. \A s \in surviving' : Beside(s, disk') BY <1>1, <1>2, StoredFacts, ImageFields DEF Beside
<1>4. SealedEverywhere => SealedEverywhere' BY <1>2 DEF SealedEverywhere, Closed, Stored
<1> QED BY <1>1, <1>2, <1>3, <1>4 DEF Stored, Writes

LEMMA SyncTombStored ==
  ASSUME Stored, SyncTomb, disk.root # "none"
  PROVE  /\ Writes({"root", "tomb"}) /\ disk' = disk
         /\ \A s \in surviving' : s.root = disk.root /\ s.tomb = disk.tomb
         /\ Stored' /\ (SealedEverywhere => SealedEverywhere')
<1> DEFINE parts == {"root", "tomb"}
<1>1. /\ Writes(parts) /\ disk' = disk
      /\ \A s \in surviving' : \E j \in surviving : Keeps(parts, s, j) /\ Takes(parts, s, disk)
  BY SyncShape DEF SyncTomb
<1>2. \A s \in surviving' : s.root = disk.root /\ s.tomb = disk.tomb BY <1>1 DEF Takes
<1>3. ASSUME NEW s \in surviving' PROVE Beside(s, disk') /\ (SealedEverywhere => Closed(s))
  <2>1. PICK j \in surviving :
          s \in Images /\ s.gen = j.gen /\ s.erasing = j.erasing /\ s.root = disk.root /\ s.tomb = disk.tomb
    BY <1>1, <1>3 DEF Keeps, Takes
  <2>2. Beside(j, disk) /\ Beside(disk, disk) /\ disk.tomb \in Tombs BY StoredFacts, ImageFields
  <2>3. Beside(s, disk') BY <1>1, <2>1, <2>2 DEF Beside
  <2>4. Closed(j) => Closed(s) BY <2>1, <2>2 DEF Closed, Beside, Tombs
  <2> QED BY <2>3, <2>4 DEF SealedEverywhere
<1> QED BY <1>1, <1>2, <1>3 DEF Stored, Writes, SealedEverywhere

LEMMA SyncJournalStored ==
  ASSUME Stored, SyncJournal, disk.root # "none"
  PROVE  /\ Writes({"root", "log", "pending"}) /\ disk' = disk
         /\ \A s \in surviving' : s.log = disk.log
         /\ Stored' /\ (SealedEverywhere => SealedEverywhere')
<1> DEFINE parts == {"root", "log", "pending"}
<1>1. /\ Writes(parts) /\ disk' = disk
      /\ \A s \in surviving' : \E j \in surviving : Keeps(parts, s, j) /\ Takes(parts, s, disk)
  BY SyncShape DEF SyncJournal
<1>2. \A s \in surviving' : s.log = disk.log BY <1>1 DEF Takes
<1>3. ASSUME NEW s \in surviving' PROVE Beside(s, disk') /\ (SealedEverywhere => Closed(s))
  <2>1. PICK j \in surviving :
          s \in Images /\ s.gen = j.gen /\ s.erasing = j.erasing /\ s.root = disk.root /\ s.tomb = j.tomb
    BY <1>1, <1>3 DEF Keeps, Takes
  <2>2. Beside(j, disk) /\ Beside(disk, disk) BY StoredFacts
  <2>3. Beside(s, disk') BY <1>1, <2>1, <2>2 DEF Beside
  <2>4. Closed(j) => Closed(s) BY <2>1 DEF Closed
  <2> QED BY <2>3, <2>4 DEF SealedEverywhere
<1> QED BY <1>1, <1>2, <1>3 DEF Stored, Writes, SealedEverywhere

\* A power loss leaves one of the images.
LEMMA LossStored ==
  ASSUME Stored, disk' \in surviving, surviving' = {disk'} PROVE Stored'
<1>1. Beside(disk', disk) BY StoredFacts
<1>2. disk'.gen \in Nat BY <1>1, ImageFields DEF Beside
<1>3. Beside(disk', disk') BY <1>1, <1>2 DEF Beside
<1> QED BY <1>3 DEF Stored

-----------------------------------------------------------------------------
(* What the records say stays true.                                        *)

Recorded == Stored /\ Deletions /\ Accounts

\* A step rewrites no history.
History ==
  /\ kind' = kind /\ changes' = changes
  /\ reused' \in BOOLEAN /\ (reused => reused') /\ late' \in BOOLEAN

\* No image has a name or a journal that none had before.
LEMMA RecordsKeep ==
  ASSUME Recorded, Stored',
         \A s \in surviving', i \in 1..Files : \E j \in surviving : s.name[i] = j.name[i],
         \A s \in surviving' : \E j \in surviving : s.log = j.log,
         SealedEverywhere => SealedEverywhere',
         \A q \in Proc : outcome'[q] = "retired" => outcome[q] = "retired",
         changes' = 0 /\ ~reused' => changes = 0 /\ ~reused
  PROVE  Recorded'
<1>1. Deletions'
  <2>1. SUFFICES ASSUME NEW s \in surviving', NEW t \in surviving', NEW i \in 1..s.log.deleted
                 PROVE  t.name[i] \in Away
    BY DEF Deletions
  <2>2. s.log \in Logs BY ImageFields DEF Stored, Beside
  <2>3. i \in 1..Files BY <2>2, FilesAssumption DEF Logs
  <2>4. PICK j \in surviving : s.log = j.log OBVIOUS
  <2>5. PICK k \in surviving : t.name[i] = k.name[i] BY <2>3
  <2> QED BY <2>1, <2>4, <2>5 DEF Recorded, Deletions
<1>2. (\A j \in surviving : j.log.done) => \A s \in surviving' : s.log.done OBVIOUS
<1>3. Attempts => Attempts'
  <2>1. SUFFICES ASSUME Attempts, NEW s \in surviving', NEW t \in surviving', NEW i \in 1..Files,
                        t.name[i] = "none"
                 PROVE  i <= s.log.attempted \/ s.log.done
    BY DEF Attempts
  <2>2. PICK j \in surviving : s.log = j.log OBVIOUS
  <2>3. PICK k \in surviving : t.name[i] = k.name[i] OBVIOUS
  <2> QED BY <2>1, <2>2, <2>3 DEF Attempts
<1>4. Accounts' BY <1>2, <1>3 DEF Recorded, Accounts
<1> QED BY <1>1, <1>4 DEF Recorded

\* A write of neither the names nor the journal.
LEMMA WritesRecord ==
  ASSUME Recorded, Stored', NEW parts, Writes(parts), "name" \notin parts, "log" \notin parts,
         SealedEverywhere => SealedEverywhere',
         \A q \in Proc : outcome'[q] = "retired" => outcome[q] = "retired", History
  PROVE  Recorded'
<1>1. \A s \in surviving' : \E j \in surviving : s.name = j.name /\ s.log = j.log
  BY DEF Writes, Keeps
<1>2. \A s \in surviving', i \in 1..Files : \E j \in surviving : s.name[i] = j.name[i] BY <1>1
<1> QED BY <1>1, <1>2, RecordsKeep DEF History

\* No write at all.
LEMMA StutterRecords ==
  ASSUME Recorded, UNCHANGED diskVars,
         \A q \in Proc : outcome'[q] = "retired" => outcome[q] = "retired", History
  PROVE  Recorded'
<1>1. Stored' BY DEF Recorded, Stored, diskVars
<1>2. SealedEverywhere => SealedEverywhere' BY DEF SealedEverywhere, diskVars
<1> QED BY <1>1, <1>2, RecordsKeep DEF History, diskVars

LEMMA JournalSyncRecords ==
  ASSUME Recorded, SyncJournal, disk.root # "none",
         \A q \in Proc : outcome'[q] = "retired" => outcome[q] = "retired", History
  PROVE  Recorded'
<1>1. /\ Writes({"root", "log", "pending"}) /\ disk' = disk /\ Stored'
      /\ \A s \in surviving' : s.log = disk.log
      /\ SealedEverywhere => SealedEverywhere'
  BY SyncJournalStored DEF Recorded
<1>2. \A s \in surviving' : \E j \in surviving : s.name = j.name BY <1>1 DEF Writes, Keeps
<1>3. \A s \in surviving', i \in 1..Files : \E j \in surviving : s.name[i] = j.name[i] BY <1>2
<1>4. \A s \in surviving' : \E j \in surviving : s.log = j.log BY <1>1 DEF Recorded, Stored
<1> QED BY <1>1, <1>3, <1>4, RecordsKeep DEF History

-----------------------------------------------------------------------------
(* What a step does to the invocations beside it.                          *)

\* No step takes an identity back, or a directory away without a new identity.
Forward ==
  /\ disk.gen <= disk'.gen
  /\ \A s \in surviving' : \E j \in surviving : j.gen <= s.gen
  /\ disk'.gen = disk.gen /\ disk.root # "none" => disk'.root # "none"
  /\ disk'.erasing \in {disk.erasing, disk.gen, 0}

\* A step that a lock holder does not notice.
Aside ==
  /\ disk'.root = disk.root /\ disk'.log = disk.log /\ disk'.tomb = disk.tomb /\ disk'.gen = disk.gen
  /\ disk'.erasing = disk.erasing \/ (disk'.erasing = 0 /\ disk.erasing # disk.gen)
  /\ \A s \in surviving' : \E j \in surviving :
       /\ s.log = j.log /\ (s.tomb = j.tomb \/ s.tomb = disk.tomb)
       /\ s.gen = j.gen \/ s.gen = disk.gen
       /\ s.erasing = j.erasing \/ s.erasing = disk.erasing \/ disk.erasing # disk.gen
  /\ \A i \in 1..Files :
       (\A j \in surviving : j.name[i] \in Away) => \A s \in surviving' : s.name[i] \in Away

Same(q) ==
  pc'[q] = pc[q] /\ mark'[q] = mark[q] /\ trusts'[q] = trusts[q] /\ named'[q] = named[q]

LEMMA Generations ==
  ASSUME Stored
  PROVE  /\ disk.gen \in Nat \ {0} /\ disk.erasing \in Nat
         /\ \A j \in surviving : j.gen \in Nat \ {0} /\ j.erasing \in Nat /\ j.gen <= disk.gen
  BY StoredFacts, ImageFields DEF Beside

LEMMA AsideIsForward == ASSUME Stored, Aside PROVE Forward
<1>1. \A s \in surviving' : \E j \in surviving : j.gen <= s.gen
  BY Generations DEF Aside, Stored
<1> QED BY <1>1, Generations DEF Aside, Forward

LEMMA WritesForward ==
  ASSUME Stored, NEW parts, Writes(parts), "gen" \notin parts,
         "root" \notin parts \/ disk'.root # "none",
         "erasing" \notin parts \/ disk'.erasing \in {disk.gen, 0, disk.erasing}
  PROVE  Forward
<1>1. disk'.gen = disk.gen BY DEF Writes, Keeps
<1>2. \A s \in surviving' : \E j \in surviving : j.gen <= s.gen
  BY Generations DEF Writes, Keeps
<1>3. disk'.root = disk.root \/ disk'.root # "none" BY DEF Writes, Keeps
<1>4. disk'.erasing = disk.erasing \/ disk'.erasing \in {disk.gen, 0} BY DEF Writes, Keeps
<1> QED BY <1>1, <1>2, <1>3, <1>4, Generations DEF Forward

LEMMA StutterAside == ASSUME Stored, UNCHANGED diskVars PROVE Aside
  BY DEF diskVars, Aside

LEMMA SyncTargetAside == ASSUME Stored, SyncTarget PROVE Aside
<1>1. /\ Writes({"root", "gen", "erasing", "tomb"}) /\ disk' = disk
      /\ \A s \in surviving' : s.gen = disk.gen /\ s.erasing = disk.erasing /\ s.tomb = disk.tomb
  BY SyncTargetStored
<1>2. \A s \in surviving' : \E j \in surviving : s.name = j.name /\ s.log = j.log
  BY <1>1 DEF Writes, Keeps
<1> QED BY <1>1, <1>2 DEF Aside

\* What an invocation read of a forget stays true: it goes on, or is beside the step.
LEMMA ErasesKeeps ==
  ASSUME IInv, Stored', Forward, NEW q \in Proc,
         (pc'[q] = pc[q] /\ pc[q] # "erase") \/ pc'[q] \notin Forgetting,
         named'[q] = named[q] \/ (pc'[q] = "idle" /\ named'[q] = 0)
  PROVE  Erases(q)'
<1>1. Erases(q) /\ named[q] \in Nat /\ Stored
  BY MaxIncarnationsAssumption DEF IInv, Progress, CallType
<1>2. /\ disk'.gen \in Nat \ {0} /\ disk.gen \in Nat \ {0} /\ disk \in surviving
      /\ \A s \in surviving' : s.gen \in Nat
      /\ \A j \in surviving : j.gen \in Nat
  BY <1>1, ImageFields DEF Stored, Beside
<1>3. CASE named'[q] = 0 /\ pc'[q] = "idle"
  BY <1>2, <1>3 DEF Erases, Forgetting
<1>4. CASE named'[q] = named[q]
  <2>1. named[q] <= disk'.gen BY <1>1, <1>2 DEF Erases, Forward
  <2>2. named[q] = disk'.gen => disk'.root # "none"
    BY <1>1, <1>2 DEF Erases, Forward
  <2>3. pc[q] \in {"look", "unmark", "report"} => \A s \in surviving' : named[q] < s.gen
    <3>1. SUFFICES ASSUME pc[q] \in {"look", "unmark", "report"}, NEW s \in surviving'
                   PROVE  named[q] < s.gen
      OBVIOUS
    <3>2. PICK j \in surviving : j.gen <= s.gen BY DEF Forward
    <3> QED BY <1>1, <1>2, <3>1, <3>2 DEF Erases
  <2>4. pc[q] = "report" => disk'.erasing # named[q]
    <3>1. pc[q] = "report" => named[q] # disk.gen /\ named[q] # 0 /\ named[q] # disk.erasing
      BY <1>1, <1>2 DEF Erases, Forgetting
    <3> QED BY <3>1 DEF Forward
  <2>5. CASE pc'[q] = pc[q] /\ pc[q] # "erase"
    BY <1>1, <1>4, <2>1, <2>2, <2>3, <2>4, <2>5 DEF Erases
  <2>6. CASE pc'[q] \notin Forgetting BY <1>4, <2>1, <2>2, <2>6 DEF Erases, Forgetting
  <2> QED BY <2>5, <2>6
<1> QED BY <1>3, <1>4

\* Who holds no lock knows of nothing but forgets.
LEMMA FreeKeeps ==
  ASSUME IInv, Stored', Forward, NEW q \in Proc, Same(q), pc[q] \notin Locked
  PROVE  Progress(q)'
<1>1. pc[q] \notin Holding \cup RetentionHolding BY DEF Locked
<1>2. Retires(q) /\ Buries(q) BY DEF IInv, Progress
<1>3. Erases(q)' BY <1>1, ErasesKeeps DEF Same, RetentionHolding
<1>4. Retires(q)' BY <1>1, <1>2 DEF Retires, Same, Holding, Begun, Marking
<1>5. Buries(q)' BY <1>1, <1>2 DEF Buries, Same, RetentionHolding, Burying, Forgetting
<1> QED BY <1>3, <1>4, <1>5 DEF Progress

LEMMA AsideKeeps ==
  ASSUME IInv, Stored', Aside, NEW q \in Proc, Same(q)
  PROVE  Progress(q)'
<1>1. /\ Progress(q) /\ Stored /\ disk \in surviving /\ disk.log \in Logs
  BY ImageFields DEF IInv, Stored, Beside
<1>2. Erases(q)'
  <2>1. CASE pc[q] # "erase" BY <1>1, <2>1, AsideIsForward, ErasesKeeps DEF Same
  <2>2. CASE pc[q] = "erase"
    <3>1. /\ named[q] = disk.gen /\ disk.root # "none" /\ named[q] # 0 /\ disk.erasing = disk.gen
          /\ \A j \in surviving : j.gen = disk.gen /\ j.erasing = disk.gen
      BY <1>1, <2>2 DEF Progress, Erases, Forgetting
    <3>2. disk'.gen = disk.gen /\ disk'.root = disk.root BY DEF Aside
    <3>3. \A s \in surviving' : s.gen = disk.gen /\ s.erasing = disk.gen BY <3>1 DEF Aside
    <3>4. named'[q] = disk.gen /\ pc'[q] = "erase" BY <2>2, <3>1 DEF Same
    <3>5. disk.gen \in Nat BY <1>1, Generations
    <3> QED BY <3>1, <3>2, <3>3, <3>4, <3>5 DEF Erases
  <2> QED BY <2>1, <2>2
<1>3. Retires(q)'
  <2>1. (\A j \in surviving : j.log = disk.log) => \A s \in surviving' : s.log = disk'.log
    BY DEF Aside
  <2>2. disk.log.deleted < Files =>
          disk.log.deleted + 1 \in 1..Files
    BY <1>1, FilesAssumption DEF Logs
  <2>3. disk.log.deleted < Files /\ (\A k \in surviving : k.name[disk.log.deleted + 1] \in Away)
          => \A s \in surviving' : s.name[disk.log.deleted + 1] \in Away
    BY <2>2 DEF Aside
  <2>4. disk'.root = disk.root /\ disk'.log = disk.log /\ disk'.tomb = disk.tomb BY DEF Aside
  <2>5. Retires(q) BY <1>1 DEF Progress
  <2> QED BY <2>1, <2>3, <2>4, <2>5 DEF Retires, Same
<1>4. Buries(q)'
  <2>1. (\A j \in surviving : j.tomb = disk.tomb) => \A s \in surviving' : s.tomb = disk'.tomb
    BY DEF Aside
  <2>2. Buries(q) BY <1>1 DEF Progress
  <2>3. /\ disk'.root = disk.root /\ disk'.tomb = disk.tomb /\ disk'.gen = disk.gen
        /\ disk.erasing = disk.gen => disk'.erasing = disk.gen
    BY DEF Aside
  <2> QED BY <2>1, <2>2, <2>3 DEF Buries, Same, Target
<1> QED BY <1>2, <1>3, <1>4 DEF Progress

-----------------------------------------------------------------------------
(* One step of one invocation, put together.                               *)

\* The marker it writes next, and whether it trusts what is not durable.
Intends(p) ==
  /\ mark' = mark \/ \E m \in Markers : mark' = [mark EXCEPT ![p] = m]
  /\ trusts' = trusts \/ \E b \in BOOLEAN : trusts' = [trusts EXCEPT ![p] = b]

\* A step of p: what the others have, and what they have read, stays.
Steady(p) == \A q \in Proc \ {p} : Same(q)

LEMMA UnnameKeeps ==
  ASSUME IInv, NEW p \in Proc, Unname, \A q \in Proc \ {p} : pc'[q] = pc[q]
  PROVE  /\ named' \in [Proc -> 0..MaxIncarnations]
         /\ \A q \in Proc \ {p} : named'[q] = named[q]
         /\ named'[p] = IF pc'[p] = "idle" THEN 0 ELSE named[p]
<1>1. \A q \in Proc : pc[q] = "idle" => named[q] = 0
  BY DEF IInv, Progress, Buries, Burying, Forgetting
<1> QED BY <1>1, MaxIncarnationsAssumption DEF Unname, IInv, CallType

LEMMA GotoCalls ==
  ASSUME IInv, NEW p \in Proc, NEW step \in Steps \ {"idle"}, Goto(p, step), Unname, Intends(p), History
  PROVE  /\ CallType' /\ Steady(p) /\ outcome' = outcome
         /\ pc'[p] = step /\ named'[p] = named[p]
<1>1. CallType BY DEF IInv
<1>2. pc' = [pc EXCEPT ![p] = step] /\ outcome' = outcome BY DEF Goto
<1>3. /\ pc' \in [Proc -> Steps] /\ pc'[p] = step
      /\ \A q \in Proc \ {p} : pc'[q] = pc[q]
  BY <1>1, <1>2 DEF CallType
<1>4. /\ named' \in [Proc -> 0..MaxIncarnations] /\ named'[p] = named[p]
      /\ \A q \in Proc \ {p} : named'[q] = named[q]
  BY <1>3, UnnameKeeps
<1>5. mark' \in [Proc -> Markers] /\ \A q \in Proc \ {p} : mark'[q] = mark[q]
  BY <1>1 DEF CallType, Intends
<1>6. trusts' \in [Proc -> BOOLEAN] /\ \A q \in Proc \ {p} : trusts'[q] = trusts[q]
  BY <1>1, Zenon DEF CallType, Intends
<1>7. CallType' BY <1>1, <1>2, <1>3, <1>4, <1>5, <1>6 DEF CallType, History
<1>8. Steady(p) BY <1>3, <1>4, <1>5, <1>6 DEF Steady, Same
<1> QED BY <1>2, <1>3, <1>4, <1>7, <1>8

LEMMA ReturnCalls ==
  ASSUME IInv, NEW p \in Proc, NEW o \in Outcomes, Return(p, o), Unname, History
  PROVE  /\ CallType' /\ Steady(p) /\ outcome' = [outcome EXCEPT ![p] = o]
         /\ pc'[p] = "idle" /\ named'[p] = 0 /\ mark'[p] = NoMarker
<1>1. CallType BY DEF IInv
<1>2. /\ pc' = [pc EXCEPT ![p] = "idle"] /\ mark' = [mark EXCEPT ![p] = NoMarker]
      /\ trusts' = [trusts EXCEPT ![p] = FALSE] /\ outcome' = [outcome EXCEPT ![p] = o]
  BY DEF Return
<1>3. /\ pc' \in [Proc -> Steps] /\ pc'[p] = "idle"
      /\ \A q \in Proc \ {p} : pc'[q] = pc[q]
  BY <1>1, <1>2 DEF CallType, Steps, Unlocked
<1>4. /\ named' \in [Proc -> 0..MaxIncarnations] /\ named'[p] = 0
      /\ \A q \in Proc \ {p} : named'[q] = named[q]
  BY <1>3, UnnameKeeps
<1>5. NoMarker \in Markers BY DEF NoMarker, Markers
<1>6. /\ mark' \in [Proc -> Markers] /\ mark'[p] = NoMarker
      /\ \A q \in Proc \ {p} : mark'[q] = mark[q] /\ trusts'[q] = trusts[q]
      /\ trusts' \in [Proc -> BOOLEAN] /\ outcome' \in [Proc -> Outcomes]
  BY <1>1, <1>2, <1>5 DEF CallType
<1>7. CallType' BY <1>1, <1>3, <1>4, <1>6 DEF CallType, History
<1>8. Steady(p) BY <1>3, <1>4, <1>6 DEF Steady, Same
<1> QED BY <1>2, <1>3, <1>4, <1>6, <1>7, <1>8

\* How the lock changes hands.
LockStep(p) ==
  \/ lock' = lock /\ (pc'[p] \in Locked <=> pc[p] \in Locked)
  \/ lock = Nobody /\ lock' = p /\ pc'[p] \in Locked
  \/ lock = p /\ lock' = Nobody /\ pc'[p] \notin Locked

LEMMA LockKeeps ==
  ASSUME IInv, NEW p \in Proc, Steady(p), LockStep(p) PROVE LockType'
<1>1. LockType BY DEF IInv
<1>2. \A q \in Proc \ {p} : pc'[q] = pc[q] BY DEF Steady, Same
<1> QED BY <1>1, <1>2, NobodyAssumption DEF LockType, LockStep

LEMMA OthersFree ==
  ASSUME IInv, NEW p \in Proc, lock \in {p, Nobody}
  PROVE  \A q \in Proc \ {p} : pc[q] \notin Locked
  BY NobodyAssumption DEF IInv, LockType

LEMMA HoldersLock == ASSUME IInv, NEW p \in Proc PROVE pc[p] \in Locked <=> lock = p
  BY DEF IInv, LockType

LEMMA IdleKeeps ==
  ASSUME Stored', NEW p \in Proc, pc'[p] = "idle", named'[p] = 0, mark'[p] = NoMarker PROVE Progress(p)'
<1>1. disk'.gen \in Nat \ {0} BY ImageFields DEF Stored, Beside
<1>2. Erases(p)' BY <1>1 DEF Erases, Forgetting
<1>3. Retires(p)' /\ Buries(p)' BY DEF Retires, Begun, Marking, Buries, Burying
<1> QED BY <1>2, <1>3 DEF Progress

\* An invocation that holds the lock, or finds it free and takes it, goes on ...
LEMMA LockedGoes ==
  ASSUME IInv, NEW p \in Proc, NEW step \in Locked, Goto(p, step), Unname, Intends(p), History,
         (pc[p] \in Locked /\ lock' = lock) \/ (lock = Nobody /\ lock' = p),
         Recorded', Forward, Progress(p)'
  PROVE  IInv'
<1>1. step \in Steps \ {"idle"} BY DEF Steps, Locked, Holding, RetentionHolding
<1>2. CallType' /\ Steady(p) /\ pc'[p] = step BY <1>1, GotoCalls
<1>3. lock \in {p, Nobody} BY HoldersLock
<1>4. LockType' BY <1>2, LockKeeps DEF LockStep
<1>5. Stored' BY DEF Recorded
<1>6. \A q \in Proc \ {p} : Progress(q)' BY <1>2, <1>3, <1>5, OthersFree, FreeKeeps DEF Steady
<1> QED BY <1>2, <1>4, <1>6 DEF IInv, Recorded

\* ... or goes on without it, while it is free ...
LEMMA FreeGoes ==
  ASSUME IInv, NEW p \in Proc, NEW step \in Steps \ (Locked \cup {"idle"}), Goto(p, step), Unname,
         Intends(p), History,
         (lock = Nobody /\ lock' = lock) \/ (pc[p] \in Locked /\ lock' = Nobody),
         Recorded', Forward, Progress(p)'
  PROVE  IInv'
<1>2. CallType' /\ Steady(p) /\ pc'[p] = step BY GotoCalls
<1>3. lock \in {p, Nobody} BY HoldersLock
<1>4. LockType' BY <1>2, <1>3, HoldersLock, LockKeeps, NobodyAssumption DEF LockStep
<1>5. Stored' BY DEF Recorded
<1>6. \A q \in Proc \ {p} : Progress(q)' BY <1>2, <1>3, <1>5, OthersFree, FreeKeeps DEF Steady
<1> QED BY <1>2, <1>4, <1>6 DEF IInv, Recorded

\* ... or beside whoever holds it.
LEMMA AsideGoes ==
  ASSUME IInv, NEW p \in Proc, pc[p] \notin Locked, NEW step \in Steps \ (Locked \cup {"idle"}),
         Goto(p, step), Unname, Intends(p), History, lock' = lock, Recorded', Aside, Progress(p)'
  PROVE  IInv'
<1>1. CallType' /\ Steady(p) /\ pc'[p] = step BY GotoCalls
<1>2. LockType' BY <1>1, LockKeeps DEF LockStep
<1>3. Stored' BY DEF Recorded
<1>4. \A q \in Proc \ {p} : Progress(q)' BY <1>1, <1>3, AsideKeeps DEF Steady
<1> QED BY <1>1, <1>2, <1>4 DEF IInv, Recorded

\* It ends.
LEMMA Returns ==
  ASSUME IInv, NEW p \in Proc, NEW o \in Outcomes, Return(p, o), Unname, History, Recorded',
         Aside \/ (Forward /\ lock \in {p, Nobody})
  PROVE  IInv'
<1>1. /\ CallType' /\ Steady(p) /\ pc'[p] = "idle" /\ named'[p] = 0 /\ mark'[p] = NoMarker
  BY ReturnCalls
<1>2. lock' = IF lock = p THEN Nobody ELSE lock BY DEF Return
<1>3. "idle" \notin Locked BY DEF Locked, Holding, RetentionHolding
<1>4. LockType' BY <1>1, <1>2, <1>3, HoldersLock, LockKeeps DEF LockStep
<1>5. Stored' BY DEF Recorded
<1>6. Progress(p)' BY <1>1, <1>5, IdleKeeps
<1>7. \A q \in Proc \ {p} : Progress(q)'
  <2>1. CASE Aside BY <1>1, <1>5, <2>1, AsideKeeps DEF Steady
  <2>2. CASE Forward /\ lock \in {p, Nobody}
    BY <1>1, <1>5, <2>2, OthersFree, FreeKeeps DEF Steady
  <2> QED BY <2>1, <2>2
<1> QED BY <1>1, <1>4, <1>6, <1>7 DEF IInv, Recorded

LEMMA QuietReturns ==
  ASSUME IInv, NEW p \in Proc, NEW o \in Outcomes \ {"retired"}, Return(p, o), Unname, History,
         UNCHANGED diskVars
  PROVE  IInv'
<1>1. Recorded BY DEF IInv, Recorded
<1>2. outcome' = [outcome EXCEPT ![p] = o] /\ outcome \in [Proc -> Outcomes]
  BY DEF Return, IInv, CallType
<1>3. Recorded' BY <1>1, <1>2, StutterRecords
<1>4. Aside BY <1>1, StutterAside DEF Recorded
<1> QED BY <1>3, <1>4, Returns

-----------------------------------------------------------------------------
(* Run and resume: before the first name.                                  *)

\* What the steps beside this module's actions leave as it was.
Apart == Unname /\ late' \in BOOLEAN

LEMMA RetireKeeps ==
  ASSUME IInv, Stored', Forward, NEW p \in Proc, pc[p] \in Unlocked \cup Holding,
         pc'[p] \in Unlocked \cup Holding, named'[p] = named[p], Retires(p)'
  PROVE  Progress(p)'
<1>1. Erases(p)' BY ErasesKeeps DEF Forgetting, Unlocked, Holding
<1>2. named[p] = 0 BY DEF IInv, Progress, Buries, Burying, Forgetting, Unlocked, Holding
<1>3. Buries(p)' BY <1>2 DEF Buries, Burying, Unlocked, Holding
<1> QED BY <1>1, <1>3 DEF Progress

\* A lock holder of run or resume, or who becomes it, goes on ...
LEMMA HoldGoes ==
  ASSUME IInv, NEW p \in Proc, NEW step \in Holding, Goto(p, step), Apart, Intends(p), History,
         (pc[p] \in Holding /\ lock' = lock) \/ (lock = Nobody /\ lock' = p /\ pc[p] \in Unlocked),
         Recorded', Forward, pc'[p] = step => Retires(p)'
  PROVE  IInv'
<1>1. step \in Steps \ {"idle"} /\ step \in Locked BY DEF Steps, Locked, Holding
<1>2. pc'[p] = step /\ named'[p] = named[p] BY <1>1, GotoCalls DEF Apart
<1>3. Progress(p)' BY <1>2, RetireKeeps DEF Recorded
<1>4. (pc[p] \in Locked /\ lock' = lock) \/ (lock = Nobody /\ lock' = p) BY DEF Locked
<1> QED BY <1>1, <1>3, <1>4, LockedGoes DEF Apart

\* ... and writes nothing.
LEMMA HoldReads ==
  ASSUME IInv, NEW p \in Proc, NEW step \in Holding, Goto(p, step), Apart, Intends(p), History,
         (pc[p] \in Holding /\ lock' = lock) \/ (lock = Nobody /\ lock' = p /\ pc[p] \in Unlocked),
         UNCHANGED diskVars, pc'[p] = step => Retires(p)'
  PROVE  IInv'
<1>1. Recorded BY DEF IInv, Recorded
<1>2. outcome' = outcome BY DEF Goto
<1>3. Recorded' BY <1>1, <1>2, StutterRecords
<1>4. Forward BY <1>1, StutterAside, AsideIsForward DEF Recorded
<1> QED BY <1>3, <1>4, HoldGoes

\* A command begins.
LEMMA Starts ==
  ASSUME IInv, NEW p \in Proc, pc[p] = "idle", NEW step \in Steps \ (Locked \cup {"idle"}),
         pc' = [pc EXCEPT ![p] = step], outcome' = [outcome EXCEPT ![p] = "none"],
         UNCHANGED <<lock, mark, trusts>>, History, Recorded', Aside,
         NEW g \in 0..MaxIncarnations, named' = [named EXCEPT ![p] = g],
         pc'[p] = step /\ named'[p] = g => Progress(p)'
  PROVE  IInv'
<1>1. CallType /\ pc[p] \notin Locked BY DEF IInv, Locked, Holding, RetentionHolding
<1>2. /\ pc' \in [Proc -> Steps] /\ pc'[p] = step /\ \A q \in Proc \ {p} : pc'[q] = pc[q]
      /\ named' \in [Proc -> 0..MaxIncarnations] /\ named'[p] = g
      /\ \A q \in Proc \ {p} : named'[q] = named[q]
      /\ outcome' \in [Proc -> Outcomes]
  BY <1>1 DEF CallType, Outcomes
<1>3. CallType' BY <1>1, <1>2 DEF CallType, History
<1>4. Steady(p) BY <1>2 DEF Steady, Same
<1>5. LockType' BY <1>1, <1>2, <1>4, LockKeeps DEF LockStep
<1>6. Stored' BY DEF Recorded
<1>7. \A q \in Proc \ {p} : Progress(q)' BY <1>4, <1>6, AsideKeeps DEF Steady
<1> QED BY <1>2, <1>3, <1>5, <1>7 DEF IInv, Recorded

LEMMA StartKeeps == ASSUME IInv, NEW p \in Proc, Start(p), Apart PROVE IInv'
<1>1. /\ pc[p] = "idle" /\ outcome' = [outcome EXCEPT ![p] = "none"]
      /\ UNCHANGED <<kind, diskVars, lock, mark, trusts, reused, changes>>
  BY DEF Start
<1>2. PICK step \in {"open", "review"} : pc' = [pc EXCEPT ![p] = step] BY DEF Start
<1>3. CallType /\ Recorded /\ Progress(p) /\ named[p] = 0 /\ mark[p] = NoMarker
  BY <1>1 DEF IInv, Recorded, Progress, Buries, Retires, Burying, Forgetting
<1>4. step \in Steps \ (Locked \cup {"idle"})
  BY DEF Steps, Locked, Unlocked, Holding, RetentionHolding
<1>5. History BY <1>1, <1>3 DEF Apart, History, CallType
<1>6. \A q \in Proc : outcome'[q] = "retired" => outcome[q] = "retired"
  BY <1>1, <1>3 DEF CallType
<1>7. Recorded' /\ Aside BY <1>1, <1>3, <1>5, <1>6, StutterRecords, StutterAside DEF Recorded
<1>8. named' = [named EXCEPT ![p] = 0] /\ 0 \in 0..MaxIncarnations
  <2>1. \A q \in Proc \ {p} : pc'[q] = pc[q] BY <1>2, <1>3 DEF CallType
  <2>2. pc'[p] = step /\ step # "idle" BY <1>2, <1>3 DEF CallType
  <2> QED BY <1>3, <2>1, <2>2, UnnameKeeps, MaxIncarnationsAssumption DEF Apart, CallType
<1>9. ASSUME pc'[p] = step, named'[p] = 0 PROVE Progress(p)'
  <2>1. mark'[p] = NoMarker BY <1>1, <1>3
  <2>2. pc'[p] \in Unlocked \cup Holding BY <1>9 DEF Unlocked
  <2>3. pc[p] \in Unlocked BY <1>1 DEF Unlocked
  <2>4. Retires(p)' BY <1>9, <2>1 DEF Retires, Begun, Marking
  <2>5. Forward BY <1>3, <1>7, AsideIsForward DEF Recorded
  <2> QED BY <1>3, <1>7, <1>9, <2>2, <2>3, <2>4, <2>5, RetireKeeps DEF Recorded
<1> QED BY <1>1, <1>2, <1>4, <1>5, <1>7, <1>8, <1>9, Starts

\* The reviews and the checks before the lock.
LEMMA ReviewKeeps == ASSUME IInv, NEW p \in Proc, Review(p) \/ CheckControl(p), Apart PROVE IInv'
<1>1. PICK step \in {"control", "init"} : Goto(p, step)
  BY DEF Review, CheckControl
<1>2. /\ pc[p] \in {"review", "control"}
      /\ UNCHANGED <<kind, diskVars, lock, mark, trusts, reused, changes>>
  BY DEF Review, CheckControl
<1>3. CallType /\ Recorded /\ Progress(p) /\ mark[p] = NoMarker /\ pc[p] \notin Locked
  BY <1>2 DEF IInv, Recorded, Progress, Retires, Locked, Holding, RetentionHolding
<1>4. step \in Steps \ (Locked \cup {"idle"})
  BY DEF Steps, Locked, Unlocked, Holding, RetentionHolding
<1>5. History /\ Intends(p) BY <1>2, <1>3 DEF Apart, History, CallType, Intends
<1>6. pc'[p] = step /\ named'[p] = named[p] /\ outcome' = outcome
  BY <1>1, <1>4, <1>5, GotoCalls DEF Apart
<1>7. Recorded' /\ Aside BY <1>2, <1>3, <1>5, <1>6, StutterRecords, StutterAside DEF Recorded
<1>8. Progress(p)'
  <2>1. Retires(p)' BY <1>2, <1>3, <1>6 DEF Retires, Begun, Marking
  <2>2. Forward BY <1>3, <1>7, AsideIsForward DEF Recorded
  <2>3. pc[p] \in Unlocked /\ pc'[p] \in Unlocked BY <1>2, <1>6 DEF Unlocked
  <2> QED BY <1>6, <1>7, <2>1, <2>2, <2>3, RetireKeeps DEF Recorded
<1> QED BY <1>1, <1>2, <1>3, <1>4, <1>5, <1>7, <1>8, AsideGoes DEF Apart

LEMMA TrustsFields ==
  ASSUME IInv, NEW p \in Proc, Trusts(p), UNCHANGED mark
  PROVE  Intends(p) /\ (~trusts'[p] => \A j \in surviving : j.log = disk.log)
<1>1. trusts \in [Proc -> BOOLEAN] BY DEF IInv, CallType
<1> DEFINE b == \E j \in surviving : j.log # disk.log
<1>2. trusts' = [trusts EXCEPT ![p] = b] /\ b \in BOOLEAN BY DEF Trusts
<1>3. ~b => \A j \in surviving : j.log = disk.log OBVIOUS
<1> HIDE DEF b
<1>4. trusts'[p] = b BY <1>1, <1>2
<1>5. Intends(p) BY <1>2 DEF Intends
<1> QED BY <1>3, <1>4, <1>5

LEMMA InitializeKeeps ==
  ASSUME IInv, NEW p \in Proc, Initialize(p), BoundedRetiring(p), Apart PROVE IInv'
<1>1. /\ pc[p] = "init" /\ lock = Nobody /\ lock' = p /\ UNCHANGED <<kind, mark, reused, changes>>
  BY DEF Initialize
<1>2. CallType /\ Recorded /\ Progress(p) /\ mark[p] = NoMarker /\ pc[p] \in Unlocked
  BY <1>1 DEF IInv, Recorded, Progress, Retires, Unlocked
<1>3. History BY <1>1, <1>2 DEF Apart, History, CallType
<1>4. CASE disk.root = "none" /\ MakeRoot /\ Goto(p, "tree") /\ UNCHANGED trusts
  <2>1. disk.gen <= MaxIncarnations
    <3>1. disk' = [disk EXCEPT !.root = "bare"] BY <1>4 DEF MakeRoot
    <3>2. disk'.root = "bare" /\ disk'.gen = disk.gen
      BY <1>2, <3>1, StoredFacts DEF Recorded, Images
    <3>3. disk'.root # "none" => disk'.gen \in 1..MaxIncarnations BY DEF BoundedRetiring
    <3> QED BY <3>2, <3>3
  <2>2. /\ disk'.root = "bare" /\ disk'.gen = disk.gen /\ disk'.erasing = disk.erasing
        /\ \A s \in surviving' : /\ s.gen = disk.gen /\ s.log = disk.log
                                 /\ \E j \in surviving : s.name = j.name
        /\ Stored' /\ (SealedEverywhere => SealedEverywhere')
    BY <1>2, <1>4, <2>1, MakeRootStored DEF Recorded
  <2>3. outcome' = outcome BY <1>4 DEF Goto
  <2>4. /\ \A s \in surviving', i \in 1..Files : \E j \in surviving : s.name[i] = j.name[i]
        /\ \A s \in surviving' : \E j \in surviving : s.log = j.log
        /\ disk \in surviving
    BY <1>2, <2>2 DEF Recorded, Stored
  <2>5. Recorded' BY <1>1, <1>2, <2>2, <2>3, <2>4, RecordsKeep
  <2>6. Forward BY <1>2, <2>2, <2>4, Generations DEF Forward, Recorded
  <2>7. Intends(p) BY <1>1, <1>4 DEF Intends
  <2>8. pc'[p] = "tree" => Retires(p)' BY <1>1, <1>2, <2>2 DEF Retires, Begun, Marking
  <2>9. "tree" \in Holding BY DEF Holding
  <2> QED BY <1>1, <1>2, <1>3, <1>4, <2>5, <2>6, <2>7, <2>8, <2>9, HoldGoes
<1>5. CASE Lockable(disk) /\ kind = "sources" /\ Goto(p, "tree") /\ UNCHANGED <<diskVars, trusts>>
  <2>1. Intends(p) BY <1>1, <1>5 DEF Intends
  <2>2. pc'[p] = "tree" => Retires(p)'
    BY <1>1, <1>2, <1>5 DEF Retires, Begun, Marking, diskVars, Lockable
  <2>3. "tree" \in Holding BY DEF Holding
  <2> QED BY <1>1, <1>2, <1>3, <1>5, <2>1, <2>2, <2>3, HoldReads
<1>6. CASE kind = "parents" /\ Readable /\ Goto(p, "pass") /\ Trusts(p) /\ UNCHANGED diskVars
  <2>1. Intends(p) /\ (~trusts'[p] => \A j \in surviving : j.log = disk.log)
    BY <1>1, <1>6, TrustsFields
  <2>2. pc'[p] = "pass" => Retires(p)'
    BY <1>6, <2>1 DEF Retires, Begun, Marking, diskVars, Readable, Loads
  <2>3. "pass" \in Holding BY DEF Holding
  <2> QED BY <1>1, <1>2, <1>3, <1>6, <2>1, <2>2, <2>3, HoldReads
<1> QED BY <1>4, <1>5, <1>6 DEF Initialize

\* What the lock holder of a run or a resume knows.
LEMMA HolderFacts ==
  ASSUME IInv
  PROVE  /\ Recorded /\ CallType /\ disk \in Images /\ disk \in surviving /\ disk.log \in Logs
         /\ \A p \in Proc : Retires(p) /\ Buries(p) /\ Erases(p)
  BY ImageFields DEF IInv, Recorded, Progress, Stored, Beside

LEMMA RootFits ==
  ASSUME NEW value \in {"bare", "kept", "tree", "intent", "noscratch", "headless"}
  PROVE  Fits("root", value) /\ "root" \in Writable
  BY DEF Fits, Writable

\* The directory of the operation gets or loses something, and stays.
LEMMA PutRootKeeps ==
  ASSUME IInv, disk.root # "none", History, outcome' = outcome,
         NEW value \in {"bare", "kept", "tree", "intent", "noscratch", "headless"},
         Put("root", value) \/ PutDurably("root", value)
  PROVE  Writes({"root"}) /\ disk'.root = value /\ Recorded' /\ Forward
<1>1. Stored /\ Recorded BY HolderFacts DEF Recorded
<1>2. Fits("root", value) /\ "root" \in Writable BY RootFits
<1>3. Writes({"root"}) /\ disk'["root"] = value BY <1>1, <1>2, PutShape, PutDurablyShape
<1>4. \A s \in surviving' : s \in surviving \/ s["root"] = value
  BY <1>1, <1>2, PutShape, PutDurablyShape
<1>5. Stored' /\ (SealedEverywhere => SealedEverywhere') BY <1>1, <1>3, <1>4, RootStored
<1>6. Recorded' BY <1>1, <1>3, <1>5, WritesRecord
<1>7. Forward BY <1>1, <1>3, WritesForward
<1> QED BY <1>3, <1>6, <1>7

LEMMA MakeTreeKeeps == ASSUME IInv, NEW p \in Proc, MakeTree(p), Apart PROVE IInv'
<1>1. /\ pc[p] = "tree" /\ UNCHANGED <<kind, lock, mark, trusts, reused, changes>>
  BY DEF MakeTree
<1>2. /\ CallType /\ Recorded /\ mark[p] = NoMarker /\ disk.root # "none" /\ pc[p] \in Holding
  BY <1>1, HolderFacts DEF Retires, Holding
<1>3. History /\ Intends(p) BY <1>1, <1>2 DEF Apart, History, CallType, Intends
<1>4. PICK step \in {"tree", "intent"} :
        /\ Goto(p, step)
        /\ \/ UNCHANGED diskVars
           \/ \E value \in {"bare", "kept", "tree", "intent", "noscratch", "headless"} : PutDurably("root", value)
  BY DEF MakeTree, Planted
<1>5. step \in Holding BY DEF Holding
<1>6. outcome' = outcome BY <1>4 DEF Goto
<1>7. CASE UNCHANGED diskVars
  <2>1. pc'[p] = step => Retires(p)'
    BY <1>1, <1>2, <1>7 DEF Retires, Begun, Marking, diskVars
  <2> QED BY <1>1, <1>2, <1>3, <1>4, <1>5, <1>7, <2>1, HoldReads
<1>8. ASSUME NEW value \in {"bare", "kept", "tree", "intent", "noscratch", "headless"},
             PutDurably("root", value)
      PROVE  IInv'
  <2>1. disk'.root = value /\ Recorded' /\ Forward
    BY <1>2, <1>3, <1>6, <1>8, PutRootKeeps
  <2>2. pc'[p] = step => Retires(p)'
    BY <1>1, <1>2, <2>1 DEF Retires, Begun, Marking
  <2> QED BY <1>1, <1>2, <1>3, <1>4, <1>5, <2>1, <2>2, HoldGoes
<1> QED BY <1>4, <1>7, <1>8

LEMMA WriteIntentKeeps == ASSUME IInv, NEW p \in Proc, WriteIntent(p), Apart PROVE IInv'
<1>1. /\ pc[p] = "intent" /\ UNCHANGED <<kind, lock, mark, trusts, reused, changes>>
      /\ Goto(p, "confirm") /\ outcome' = outcome
      /\ UNCHANGED diskVars \/ Put("root", "intent")
  BY DEF WriteIntent, Goto
<1>2. /\ CallType /\ Recorded /\ mark[p] = NoMarker /\ disk.root # "none" /\ pc[p] \in Holding
      /\ "confirm" \in Holding /\ NoMarker # Attempt /\ NoMarker # Complete
  BY <1>1, HolderFacts DEF Retires, Holding, NoMarker, Attempt, Complete
<1>3. History /\ Intends(p) BY <1>1, <1>2 DEF Apart, History, CallType, Intends
<1>4. CASE UNCHANGED diskVars
  <2>1. pc'[p] = "confirm" => Retires(p)'
    BY <1>1, <1>2, <1>4 DEF Retires, Begun, Marking, diskVars
  <2> QED BY <1>1, <1>2, <1>3, <1>4, <2>1, HoldReads
<1>5. CASE Put("root", "intent")
  <2>1. disk'.root = "intent" /\ Recorded' /\ Forward
    BY <1>1, <1>2, <1>3, <1>5, PutRootKeeps
  <2>2. pc'[p] = "confirm" => Retires(p)'
    BY <1>1, <1>2, <2>1 DEF Retires, Begun, Marking
  <2> QED BY <1>1, <1>2, <1>3, <2>1, <2>2, HoldGoes
<1> QED BY <1>1, <1>4, <1>5

\* A step that only reads while its invocation has the lock, or takes it.
LEMMA ReadsOn ==
  ASSUME IInv, NEW p \in Proc, NEW step \in Holding, Goto(p, step), Apart, UNCHANGED <<kind, diskVars, reused, changes>>,
         Intends(p), (pc[p] \in Holding /\ lock' = lock) \/ (lock = Nobody /\ lock' = p /\ pc[p] \in Unlocked),
         pc'[p] = step => Retires(p)'
  PROVE  IInv'
<1>1. History BY HolderFacts DEF Apart, History, CallType
<1> QED BY <1>1, HoldReads

LEMMA ReturnsQuietly ==
  ASSUME IInv, NEW p \in Proc, Return(p, "already") \/ Return(p, "none"), Apart,
         UNCHANGED <<kind, diskVars, reused, changes>>
  PROVE  IInv'
<1>1. History BY HolderFacts DEF Apart, History, CallType
<1>2. "already" \in Outcomes \ {"retired"} /\ "none" \in Outcomes \ {"retired"} BY DEF Outcomes
<1> QED BY <1>1, <1>2, QuietReturns DEF Apart

LEMMA OpenKeeps == ASSUME IInv, NEW p \in Proc, Open(p), Apart PROVE IInv'
<1>1. pc[p] = "open" /\ lock = Nobody /\ Readable /\ UNCHANGED <<kind, diskVars, reused, changes>>
  BY DEF Open
<1>2. CASE Return(p, "already") BY <1>1, <1>2, ReturnsQuietly
<1>3. CASE /\ lock' = p /\ Goto(p, IF kind = "sources" THEN "bind" ELSE "pass")
           /\ Trusts(p) /\ UNCHANGED mark
  <2>1. PICK step \in {"bind", "pass"} : Goto(p, step) BY <1>3
  <2>2. Intends(p) /\ (~trusts'[p] => \A j \in surviving : j.log = disk.log)
    BY <1>3, TrustsFields
  <2>3. pc'[p] = step => Retires(p)'
    BY <1>1, <2>2 DEF Retires, Begun, Marking, diskVars, Readable, Loads
  <2>4. step \in Holding /\ pc[p] \in Unlocked BY <1>1 DEF Holding, Unlocked
  <2> QED BY <1>1, <1>3, <2>1, <2>2, <2>3, <2>4, ReadsOn
<1> QED BY <1>2, <1>3 DEF Open

\* Bind, Pass, Absent, FindComplete: the names are where they can be.
LEMMA ObserveKeeps ==
  ASSUME IInv, NEW p \in Proc, Bind(p) \/ Pass(p) \/ Absent(p) \/ FindComplete(p), Apart
  PROVE  IInv'
<1>1. CASE FindComplete(p) BY <1>1, ReturnsQuietly DEF FindComplete
<1>2. CASE Bind(p) \/ Pass(p) \/ Absent(p)
  <2>1. PICK step \in {"pass", "next", "recover"} :
          /\ Goto(p, step)
          /\ step = "recover" => disk.log.deleted < Files /\ disk.log.attempted >= disk.log.deleted + 1
    BY <1>2 DEF Bind, Pass, Absent, Removed, Upcoming
  <2>2. /\ pc[p] \in {"bind", "pass", "next"}
        /\ UNCHANGED <<kind, diskVars, lock, mark, trusts, reused, changes>>
    BY <1>2 DEF Bind, Pass, Absent
  <2>3. step \in Holding /\ pc[p] \in Holding /\ pc[p] \in Begun BY <2>2 DEF Holding, Begun
  <2>4. Intends(p) BY <2>2 DEF Intends
  <2>5. disk.log.attempted \in Nat /\ disk.log.deleted \in Nat
    BY HolderFacts, FilesAssumption DEF Logs
  <2>6. Retires(p) BY HolderFacts
  <2>7. ASSUME pc'[p] = step PROVE Retires(p)'
    BY <2>1, <2>2, <2>3, <2>5, <2>6, <2>7 DEF Retires, Begun, Marking, diskVars
  <2> QED BY <2>1, <2>2, <2>3, <2>4, <2>7, ReadsOn
<1> QED BY <1>1, <1>2

LEMMA MarkersDiffer ==
  /\ NoMarker \in Markers /\ Attempt \in Markers /\ Complete \in Markers
  /\ Deleted("confirmed") \in Markers /\ Deleted("recovered") \in Markers
  /\ Attempt.dest = "attempt" /\ Complete.dest = "complete" /\ NoMarker.dest = "none"
  /\ Deleted("confirmed").dest = "deleted" /\ Deleted("recovered").dest = "deleted"
  /\ NoMarker # Attempt /\ NoMarker # Complete /\ Attempt # Complete
  /\ \A b \in {"confirmed", "recovered"} :
       Deleted(b) # NoMarker /\ Deleted(b) # Attempt /\ Deleted(b) # Complete
  BY DEF NoMarker, Markers, Attempt, Complete, Deleted

\* The next marker, or the removal that it allows.
LEMMA PresentKeeps == ASSUME IInv, NEW p \in Proc, Present(p), Apart PROVE IInv'
<1>1. /\ pc[p] = "next" /\ disk.log.deleted < Files
      /\ UNCHANGED <<kind, diskVars, lock, trusts, reused, changes>>
  BY DEF Present, Removed
<1>2. /\ CallType /\ Retires(p) /\ pc[p] \in Holding /\ pc[p] \in Begun
      /\ disk.log.attempted \in Nat /\ disk.log.deleted \in Nat
  BY <1>1, HolderFacts, FilesAssumption DEF Logs, Holding, Begun
<1>3. CASE disk.log.attempted < disk.log.deleted + 1 /\ Write(p, Attempt)
  <2>1. mark' = [mark EXCEPT ![p] = Attempt] /\ Goto(p, "stage") /\ "stage" \in Holding
    BY <1>3 DEF Write, Holding
  <2>2. Intends(p) /\ mark'[p] = Attempt BY <1>1, <1>2, <2>1, MarkersDiffer DEF Intends, CallType
  <2>3. ASSUME pc'[p] = "stage" PROVE Retires(p)'
    BY <1>1, <1>2, <1>3, <2>2, <2>3, MarkersDiffer DEF Retires, Begun, Marking, diskVars
  <2> QED BY <1>1, <1>2, <2>1, <2>2, <2>3, ReadsOn
<1>4. CASE /\ ~(disk.log.attempted < disk.log.deleted + 1)
           /\ mark' = [mark EXCEPT ![p] = NoMarker] /\ Goto(p, "unlink")
  <2>1. Intends(p) /\ mark'[p] = NoMarker /\ "unlink" \in Holding
    BY <1>1, <1>2, <1>4, MarkersDiffer DEF Intends, CallType, Holding
  <2>2. ASSUME pc'[p] = "unlink" PROVE Retires(p)'
    BY <1>1, <1>2, <1>4, <2>1, <2>2 DEF Retires, Begun, Marking, diskVars
  <2> QED BY <1>1, <1>2, <1>4, <2>1, <2>2, ReadsOn
<1> QED BY <1>3, <1>4 DEF Present, Upcoming

LEMMA FinishKeeps == ASSUME IInv, NEW p \in Proc, Finish(p), Apart PROVE IInv'
<1>1. /\ pc[p] = "next" /\ UNCHANGED <<kind, diskVars, lock, trusts, reused, changes>>
      /\ mark' = [mark EXCEPT ![p] = Complete] /\ Goto(p, "stage")
  BY DEF Finish, Write
<1>2. CallType /\ Retires(p) /\ pc[p] \in Holding /\ pc[p] \in Begun /\ "stage" \in Holding
  BY <1>1, HolderFacts DEF Holding, Begun
<1>3. Intends(p) /\ mark'[p] = Complete BY <1>1, <1>2, MarkersDiffer DEF Intends, CallType
<1>4. ASSUME pc'[p] = "stage" PROVE Retires(p)'
  BY <1>1, <1>2, <1>3, <1>4, MarkersDiffer DEF Retires, Begun, Marking, diskVars
<1> QED BY <1>1, <1>2, <1>3, <1>4, ReadsOn

-----------------------------------------------------------------------------
(* Run and resume: the removal of a name.                                  *)

\* The next name of a plan that is not done.
LEMMA NextName ==
  ASSUME IInv, disk.log.deleted < Files
  PROVE  /\ Upcoming \in 1..Files /\ Upcoming = disk.log.deleted + 1
         /\ disk.log.attempted \in Nat /\ disk.log.deleted \in Nat
  BY HolderFacts, FilesAssumption DEF Logs, Upcoming

LEMMA SyncNameKeeps ==
  ASSUME IInv, NEW i \in 1..Files, SyncName(i), History, outcome' = outcome, Gone(i)
  PROVE  /\ Recorded' /\ Forward /\ disk' = disk
         /\ \A s \in surviving' : s.name[i] \in Away
         /\ (\A j \in surviving : j.log = disk.log) => \A s \in surviving' : s.log = disk.log
<1>1. Recorded /\ Stored /\ disk \in surviving BY HolderFacts DEF Recorded
<1>2. /\ Writes({"name"}) /\ disk' = disk
      /\ \A s \in surviving' : \E j \in surviving :
           /\ s.log = j.log /\ s.name[i] = disk.name[i]
           /\ \A k \in 1..Files : k # i => s.name[k] = j.name[k]
  BY <1>1, SyncNameShape
<1>3. Stored' /\ (SealedEverywhere => SealedEverywhere') BY <1>1, <1>2, PlainStored
<1>4. \A s \in surviving', k \in 1..Files : \E j \in surviving : s.name[k] = j.name[k]
  BY <1>1, <1>2
<1>5. Recorded' BY <1>1, <1>2, <1>3, <1>4, RecordsKeep DEF History
<1>6. Forward BY <1>1, <1>2, WritesForward
<1>7. \A s \in surviving' : s.name[i] \in Away BY <1>2 DEF Gone, Away
<1> QED BY <1>2, <1>5, <1>6, <1>7

\* Recover, ConfirmUnlink: the absence is durable before it is recorded.
LEMMA RecordAbsenceKeeps ==
  ASSUME IInv, NEW p \in Proc, Recover(p) \/ ConfirmUnlink(p), Apart PROVE IInv'
<1>1. PICK basis \in {"confirmed", "recovered"} : Write(p, Deleted(basis))
  BY DEF Recover, ConfirmUnlink
<1>2. /\ pc[p] \in {"recover", "unlinked"} /\ Gone(Upcoming) /\ SyncName(Upcoming)
      /\ UNCHANGED <<kind, lock, trusts, reused, changes>>
  BY DEF Recover, ConfirmUnlink
<1>3. /\ CallType /\ Retires(p) /\ pc[p] \in Holding /\ pc[p] \in Begun /\ "stage" \in Holding
  BY <1>2, HolderFacts DEF Holding, Begun
<1>4. disk.log.deleted < Files BY <1>2, <1>3 DEF Retires
<1>5. mark' = [mark EXCEPT ![p] = Deleted(basis)] /\ Goto(p, "stage") /\ outcome' = outcome
  BY <1>1 DEF Write, Goto
<1>6. Intends(p) /\ mark'[p] = Deleted(basis)
  BY <1>2, <1>3, <1>5, MarkersDiffer DEF Intends, CallType
<1>7. History BY <1>2, <1>3 DEF Apart, History, CallType
<1>8. /\ Recorded' /\ Forward /\ disk' = disk
      /\ \A s \in surviving' : s.name[disk.log.deleted + 1] \in Away
      /\ (\A j \in surviving : j.log = disk.log) => \A s \in surviving' : s.log = disk.log
  BY <1>2, <1>4, <1>5, <1>7, NextName, SyncNameKeeps
<1>9. ASSUME pc'[p] = "stage" PROVE Retires(p)'
  BY <1>2, <1>3, <1>4, <1>6, <1>8, <1>9, MarkersDiffer DEF Retires, Begun, Marking
<1> QED BY <1>2, <1>3, <1>5, <1>6, <1>7, <1>8, <1>9, HoldGoes

\* The removal itself: every image has its attempt, unless somebody trusted one
\* that was not durable.
LEMMA UnlinkOurs ==
  ASSUME IInv, NEW p \in Proc, pc[p] = "unlink", PutName(Upcoming, "none"), outcome' = outcome,
         kind' = kind, changes' = changes, reused' = (reused \/ trusts[p])
  PROVE  /\ Recorded' /\ Forward
         /\ disk'.root = disk.root /\ disk'.tomb = disk.tomb /\ disk'.log = disk.log
         /\ (\A j \in surviving : j.log = disk.log) => \A s \in surviving' : s.log = disk.log
<1>1. Recorded /\ Stored /\ disk \in surviving /\ Retires(p) /\ pc[p] \in Begun
  BY HolderFacts DEF Recorded, Begun
<1>2. disk.log.deleted < Files /\ disk.log.attempted > disk.log.deleted BY <1>1 DEF Retires
<1>3. Upcoming \in 1..Files /\ Upcoming <= disk.log.attempted BY <1>2, NextName
<1> DEFINE i == Upcoming
<1>4. /\ Writes({"name"})
      /\ \A s \in surviving' : \E j \in surviving :
           /\ s.log = j.log /\ (s.name[i] = "none" \/ s.name[i] = j.name[i])
           /\ \A k \in 1..Files : k # i => s.name[k] = j.name[k]
  BY <1>1, <1>3, PutNameShape DEF Names
<1> HIDE DEF i
<1>5. Stored' /\ (SealedEverywhere => SealedEverywhere') BY <1>1, <1>4, PlainStored
<1>6. Forward BY <1>1, <1>4, WritesForward
<1>7. disk'.root = disk.root /\ disk'.tomb = disk.tomb /\ disk'.log = disk.log
  BY <1>4 DEF Writes, Keeps
<1>8. Deletions'
  <2>1. SUFFICES ASSUME NEW s \in surviving', NEW t \in surviving', NEW k \in 1..s.log.deleted
                 PROVE  t.name[k] \in Away
    BY DEF Deletions
  <2>2. PICK j \in surviving : s.log = j.log BY <1>4
  <2>3. k \in 1..Files
    BY <2>2, <1>1, StoredFacts, ImageFields, FilesAssumption DEF Logs
  <2>4. PICK u \in surviving : t.name[k] = "none" \/ t.name[k] = u.name[k] BY <1>4, <2>3
  <2> QED BY <1>1, <2>2, <2>4 DEF Recorded, Deletions, Away
<1>9. Attempts /\ ~trusts[p] => Attempts'
  <2>1. SUFFICES ASSUME Attempts, ~trusts[p], NEW s \in surviving', NEW t \in surviving',
                        NEW k \in 1..Files, t.name[k] = "none"
                 PROVE  k <= s.log.attempted \/ s.log.done
    BY DEF Attempts
  <2>2. PICK j \in surviving : s.log = j.log BY <1>4
  <2>3. \A u \in surviving : u.log = disk.log BY <1>1, <2>1 DEF Retires
  <2>4. CASE k = i BY <1>3, <2>2, <2>3, <2>4 DEF i
  <2>5. CASE k # i
    <3>1. PICK u \in surviving : t.name[k] = u.name[k] BY <1>4, <2>5
    <3> QED BY <2>1, <2>2, <3>1 DEF Attempts
  <2> QED BY <2>4, <2>5
<1>10. (\A j \in surviving : j.log.done) => \A s \in surviving' : s.log.done BY <1>4
<1>11. ~reused' => ~reused /\ ~trusts[p] OBVIOUS
<1>12. Accounts' BY <1>1, <1>5, <1>9, <1>10, <1>11 DEF Recorded, Accounts
<1>13. (\A j \in surviving : j.log = disk.log) => \A s \in surviving' : s.log = disk.log BY <1>4
<1> QED BY <1>5, <1>6, <1>7, <1>8, <1>12, <1>13 DEF Recorded

\* The history after a step that builds on what an invocation trusts.
LEMMA BuildsOn ==
  ASSUME IInv, NEW p \in Proc, Apart, kind' = kind, changes' = changes, reused' = (reused \/ trusts[p])
  PROVE  History
<1>1. trusts[p] \in BOOLEAN /\ reused \in BOOLEAN BY HolderFacts DEF CallType
<1>2. reused' \in BOOLEAN /\ (reused => reused') BY <1>1
<1> QED BY <1>2 DEF History, Apart

LEMMA UnlinkKeeps == ASSUME IInv, NEW p \in Proc, Unlink(p), Apart PROVE IInv'
<1>1. pc[p] = "unlink" /\ UNCHANGED <<kind, lock, mark, trusts, changes>> BY DEF Unlink
<1>2. /\ CallType /\ Retires(p) /\ pc[p] \in Holding /\ pc[p] \in Begun
      /\ "unlinked" \in Holding /\ "recover" \in Holding
  BY <1>1, HolderFacts DEF Holding, Begun
<1>3. Intends(p) BY <1>1 DEF Intends
<1>4. CASE PutName(Upcoming, "none") /\ Goto(p, "unlinked") /\ reused' = (reused \/ trusts[p])
  <2>1. outcome' = outcome /\ History BY <1>1, <1>4, BuildsOn DEF Goto
  <2>2. /\ Recorded' /\ Forward
        /\ disk'.root = disk.root /\ disk'.tomb = disk.tomb /\ disk'.log = disk.log
        /\ (\A j \in surviving : j.log = disk.log) => \A s \in surviving' : s.log = disk.log
    BY <1>1, <1>4, <2>1, UnlinkOurs
  <2>3. ASSUME pc'[p] = "unlinked" PROVE Retires(p)'
    BY <1>1, <1>2, <2>2, <2>3 DEF Retires, Begun, Marking
  <2> QED BY <1>1, <1>2, <1>3, <1>4, <2>1, <2>2, <2>3, HoldGoes
<1>5. CASE Goto(p, "recover") /\ UNCHANGED <<diskVars, reused>>
  <2>1. ASSUME pc'[p] = "recover" PROVE Retires(p)'
    BY <1>1, <1>2, <1>5, <2>1 DEF Retires, Begun, Marking, diskVars
  <2> QED BY <1>1, <1>2, <1>3, <1>5, <2>1, ReadsOn
<1> QED BY <1>4, <1>5 DEF Unlink

-----------------------------------------------------------------------------
(* Run and resume: commitMarker.                                           *)

LEMMA PutPendingKeeps ==
  ASSUME IInv, History, outcome' = outcome, NEW value \in Scratch,
         Put("pending", value) \/ PutDurably("pending", value)
  PROVE  /\ Recorded' /\ Forward
         /\ disk'.root = disk.root /\ disk'.tomb = disk.tomb /\ disk'.log = disk.log
         /\ \A s \in surviving' : \E j \in surviving : s.log = j.log /\ s.name = j.name
<1>1. Recorded /\ Stored BY HolderFacts DEF Recorded
<1>2. Fits("pending", value) /\ "pending" \in Writable BY DEF Fits, Writable
<1>3. Writes({"pending"}) BY <1>1, <1>2, PutShape, PutDurablyShape
<1>4. Stored' /\ (SealedEverywhere => SealedEverywhere') BY <1>1, <1>3, PlainStored
<1>5. Recorded' BY <1>1, <1>3, <1>4, WritesRecord
<1>6. Forward BY <1>1, <1>3, WritesForward
<1> QED BY <1>3, <1>5, <1>6 DEF Writes, Keeps

\* Between staging and publishing the scratch is all that changes.
LEMMA MarkingGoes ==
  ASSUME IInv, NEW p \in Proc, pc[p] \in Marking, NEW step \in Marking, Goto(p, step), Apart, History,
         UNCHANGED <<lock, mark, trusts>>,
         UNCHANGED diskVars \/ \E value \in Scratch : Put("pending", value) \/ PutDurably("pending", value)
  PROVE  IInv'
<1>1. /\ CallType /\ Retires(p) /\ pc[p] \in Holding /\ pc[p] \in Begun
      /\ step \in Holding /\ step \in Begun /\ outcome' = outcome
  BY HolderFacts DEF Holding, Begun, Marking, Goto
<1>2. Intends(p) BY DEF Intends
<1>3. CASE UNCHANGED diskVars
  <2>1. ASSUME pc'[p] = step PROVE Retires(p)'
    BY <1>1, <1>3, <2>1 DEF Retires, Marking, diskVars
  <2> QED BY <1>1, <1>2, <1>3, <2>1, HoldReads
<1>4. ASSUME NEW value \in Scratch, Put("pending", value) \/ PutDurably("pending", value) PROVE IInv'
  <2>1. /\ Recorded' /\ Forward
        /\ disk'.root = disk.root /\ disk'.tomb = disk.tomb /\ disk'.log = disk.log
        /\ \A s \in surviving' : \E j \in surviving : s.log = j.log /\ s.name = j.name
    BY <1>1, <1>4, PutPendingKeeps
  <2>2. (\A j \in surviving : j.log = disk.log) => \A s \in surviving' : s.log = disk.log BY <2>1
  <2>3. \A i : (\A j \in surviving : j.name[i] \in Away) => \A s \in surviving' : s.name[i] \in Away
    BY <2>1
  <2>4. ASSUME pc'[p] = step PROVE Retires(p)'
    BY <1>1, <2>1, <2>2, <2>3, <2>4 DEF Retires, Marking
  <2> QED BY <1>1, <1>2, <2>1, <2>4, HoldGoes
<1> QED BY <1>3, <1>4

LEMMA StageKeeps == ASSUME IInv, NEW p \in Proc, Stage(p), Apart PROVE IInv'
<1>1. pc[p] = "stage" /\ UNCHANGED <<kind, lock, mark, trusts, changes>> BY DEF Stage
<1>2. /\ pc[p] \in Marking /\ {"stage", "fill", "rename"} \subseteq Marking
      /\ mark[p] \in Markers /\ CallType
  BY <1>1, HolderFacts DEF Marking, CallType
<1>3. UNCHANGED reused => History BY <1>1, <1>2 DEF Apart, History, CallType
<1>4. NoScratch \in Scratch /\ [marker |-> mark[p], fill |-> "empty"] \in Scratch
  BY <1>2, MarkersDiffer DEF NoScratch, Scratch
<1>5. CASE /\ Put("pending", [marker |-> mark[p], fill |-> "empty"]) /\ Goto(p, "fill")
           /\ reused' = (reused \/ trusts[p])
  <2>1. History BY <1>1, <1>5, BuildsOn
  <2> QED BY <1>1, <1>2, <1>4, <1>5, <2>1, MarkingGoes
<1>6. CASE PutDurably("pending", NoScratch) /\ Goto(p, "stage") /\ UNCHANGED reused
  BY <1>1, <1>2, <1>3, <1>4, <1>6, MarkingGoes
<1>7. CASE Goto(p, "rename") /\ UNCHANGED <<diskVars, reused>>
  BY <1>1, <1>2, <1>3, <1>7, MarkingGoes
<1> QED BY <1>5, <1>6, <1>7 DEF Stage

LEMMA FillKeeps == ASSUME IInv, NEW p \in Proc, Fill(p), Apart PROVE IInv'
<1>1. /\ pc[p] = "fill" /\ UNCHANGED <<kind, lock, mark, trusts, reused, changes>>
  BY DEF Fill
<1>2. /\ pc[p] \in Marking /\ {"fill", "rename"} \subseteq Marking /\ CallType /\ disk.pending \in Scratch
  BY <1>1, HolderFacts, ImageFields DEF Marking
<1>3. History BY <1>1, <1>2 DEF Apart, History, CallType
<1>4. \A fill \in {"part", "whole"} : [disk.pending EXCEPT !.fill = fill] \in Scratch
  BY <1>2 DEF Scratch
<1>5. PICK step \in {"fill", "rename"}, value \in Scratch : Goto(p, step) /\ Put("pending", value)
  BY <1>4 DEF Fill
<1> QED BY <1>1, <1>2, <1>3, <1>5, MarkingGoes

\* A marker becomes visible, by one rename: what it says is so in every image.
LEMMA RenameShape ==
  ASSUME IInv, NEW p \in Proc, Rename(p)
  PROVE  LET log == Extended(disk.log, mark[p])
         IN  /\ Writes({"log", "pending"}) /\ disk'.log = log /\ log \in Logs
             /\ \A s \in surviving' : \E j \in surviving : s.name = j.name /\ (s.log = j.log \/ s.log = log)
<1> DEFINE log == Extended(disk.log, mark[p])
           published(j) == [j EXCEPT !.pending = NoScratch, !.log = log]
<1>1. /\ disk \in surviving /\ surviving \subseteq Images /\ disk.log \in Logs /\ Retires(p)
      /\ pc[p] = "rename" /\ pc[p] \in Marking
  BY HolderFacts, StoredFacts DEF Rename, Marking, Recorded
<1>2. disk' = published(disk) /\ surviving' = surviving \cup {published(j) : j \in surviving}
  BY DEF Rename
<1>3. log \in Logs
  <2>1. mark[p] \in {Attempt, Deleted("confirmed"), Deleted("recovered"), Complete} BY <1>1 DEF Retires
  <2>2. mark[p] # Complete => disk.log.deleted + 1 \in 0..Files
    BY <1>1, <2>1, MarkersDiffer, FilesAssumption DEF Retires, Logs
  <2>3. mark[p].dest \in {"attempt", "deleted", "complete"} /\ (mark[p].dest = "complete" => mark[p] = Complete)
    BY <2>1, MarkersDiffer
  <2>4. CASE mark[p].dest = "attempt" BY <1>1, <2>2, <2>4, MarkersDiffer DEF Extended, Logs
  <2>5. CASE mark[p].dest = "deleted" BY <1>1, <2>2, <2>5, MarkersDiffer DEF Extended, Logs
  <2>6. CASE mark[p].dest = "complete" BY <1>1, <2>6 DEF Extended, Logs
  <2> QED BY <2>3, <2>4, <2>5, <2>6
<1>4. NoScratch \in Scratch BY MarkersDiffer DEF NoScratch, Scratch
<1> HIDE DEF log
<1>5. \A j \in Images :
        /\ Keeps({"log", "pending"}, published(j), j) /\ Keeps({"log", "pending"}, j, j)
        /\ published(j).log = log /\ published(j).name = j.name
  BY <1>3, <1>4 DEF Images, Keeps
<1> HIDE DEF published
<1>6. disk' \in surviving' /\ \A s \in surviving' : \E j \in surviving : s = j \/ s = published(j)
  BY <1>1, <1>2
<1>7. Writes({"log", "pending"}) BY <1>1, <1>2, <1>5, <1>6 DEF Writes
<1>8. \A s \in surviving' : \E j \in surviving : s.name = j.name /\ (s.log = j.log \/ s.log = log)
  BY <1>1, <1>5, <1>6
<1> QED BY <1>1, <1>2, <1>3, <1>5, <1>7, <1>8 DEF log

\* What the new marker adds to the journal.
LEMMA ExtendedFields ==
  ASSUME IInv, NEW p \in Proc, pc[p] = "rename"
  PROVE  LET log == Extended(disk.log, mark[p])
         IN  /\ log.done = (disk.log.done \/ mark[p] = Complete)
             /\ log.deleted = (IF mark[p].dest = "deleted" THEN disk.log.deleted + 1 ELSE disk.log.deleted)
             /\ log.attempted = (IF mark[p] = Attempt THEN disk.log.deleted + 1 ELSE disk.log.attempted)
<1>1. Retires(p) /\ pc[p] \in Marking /\ disk.log \in Logs BY HolderFacts DEF Marking
<1>2. mark[p] \in {Attempt, Deleted("confirmed"), Deleted("recovered"), Complete} BY <1>1 DEF Retires
<1>3. CASE mark[p] = Attempt BY <1>1, <1>3, MarkersDiffer DEF Extended, Logs
<1>4. CASE mark[p] = Complete BY <1>1, <1>4, MarkersDiffer DEF Extended, Logs
<1>5. CASE mark[p] \in {Deleted("confirmed"), Deleted("recovered")}
  <2>1. mark[p].dest = "deleted" /\ mark[p] # Attempt /\ mark[p] # Complete BY <1>5, MarkersDiffer
  <2> QED BY <1>1, <2>1 DEF Extended, Logs
<1> QED BY <1>2, <1>3, <1>4, <1>5

LEMMA RenameRecords ==
  ASSUME IInv, NEW p \in Proc, Rename(p) PROVE Recorded' /\ Forward
<1> DEFINE log == Extended(disk.log, mark[p])
<1>1. /\ Recorded /\ Stored /\ disk \in surviving /\ disk.log \in Logs /\ Retires(p)
      /\ pc[p] = "rename" /\ pc[p] \in Marking /\ outcome' = outcome /\ UNCHANGED <<reused, changes>>
  BY HolderFacts DEF Recorded, Rename, Marking, Goto
<1>2. /\ Writes({"log", "pending"}) /\ disk'.log = log /\ log \in Logs
      /\ \A s \in surviving' : \E j \in surviving : s.name = j.name /\ (s.log = j.log \/ s.log = log)
  BY RenameShape
<1>3. /\ log.done = (disk.log.done \/ mark[p] = Complete)
      /\ log.deleted = (IF mark[p].dest = "deleted" THEN disk.log.deleted + 1 ELSE disk.log.deleted)
      /\ log.attempted = (IF mark[p] = Attempt THEN disk.log.deleted + 1 ELSE disk.log.attempted)
  BY <1>1, ExtendedFields
<1> HIDE DEF log
<1>4. Stored' /\ (SealedEverywhere => SealedEverywhere') BY <1>1, <1>2, PlainStored
<1>5. Forward BY <1>1, <1>2, WritesForward
<1>6. Deletions'
  <2>1. SUFFICES ASSUME NEW s \in surviving', NEW t \in surviving', NEW i \in 1..s.log.deleted
                 PROVE  t.name[i] \in Away
    BY DEF Deletions
  <2>2. PICK j \in surviving : s.log = j.log \/ s.log = log BY <1>2
  <2>3. PICK k \in surviving : t.name = k.name BY <1>2
  <2>4. CASE s.log = j.log BY <1>1, <2>3, <2>4 DEF Recorded, Deletions
  <2>5. CASE s.log = log
    <3>1. CASE i <= disk.log.deleted
      <4>1. i \in 1..disk.log.deleted BY <1>1, <3>1 DEF Logs
      <4> QED BY <1>1, <2>3, <4>1 DEF Recorded, Deletions
    <3>2. CASE ~(i <= disk.log.deleted)
      <4>1. mark[p].dest = "deleted" /\ i = disk.log.deleted + 1
        BY <1>1, <1>3, <2>5, <3>2, FilesAssumption DEF Logs
      <4> QED BY <1>1, <2>3, <4>1 DEF Retires
    <3> QED BY <3>1, <3>2
  <2> QED BY <2>2, <2>4, <2>5
<1>7. Attempts => Attempts'
  <2>1. SUFFICES ASSUME Attempts, NEW s \in surviving', NEW t \in surviving', NEW i \in 1..Files,
                        t.name[i] = "none"
                 PROVE  i <= s.log.attempted \/ s.log.done
    BY DEF Attempts
  <2>2. PICK j \in surviving : s.log = j.log \/ s.log = log BY <1>2
  <2>3. PICK k \in surviving : t.name = k.name BY <1>2
  <2>4. CASE s.log = j.log BY <2>1, <2>3, <2>4 DEF Attempts
  <2>5. CASE s.log = log
    <3>1. i <= disk.log.attempted \/ disk.log.done BY <1>1, <2>1, <2>3 DEF Attempts
    <3>2. disk.log.attempted \in Nat /\ disk.log.deleted \in Nat /\ log.attempted \in Nat /\ i \in Nat
      BY <1>1, <1>2, FilesAssumption DEF Logs
    <3>3. disk.log.attempted <= log.attempted
      BY <1>1, <1>3, <3>2 DEF Retires
    <3>4. i <= disk.log.attempted => i <= log.attempted BY <3>2, <3>3
    <3> QED BY <1>3, <2>5, <3>1, <3>4
  <2> QED BY <2>2, <2>4, <2>5
<1>8. (\A j \in surviving : j.log.done) => \A s \in surviving' : s.log.done
  BY <1>1, <1>2, <1>3
<1>9. Accounts' BY <1>1, <1>4, <1>7, <1>8 DEF Recorded, Accounts
<1> QED BY <1>4, <1>5, <1>6, <1>9 DEF Recorded

LEMMA RenameKeeps == ASSUME IInv, NEW p \in Proc, Rename(p), Apart PROVE IInv'
<1>1. /\ pc[p] = "rename" /\ UNCHANGED <<kind, lock, mark, trusts, reused, changes>> /\ Goto(p, "confirm")
  BY DEF Rename
<1>2. /\ CallType /\ Retires(p) /\ pc[p] \in Holding /\ pc[p] \in Begun /\ pc[p] \in Marking
      /\ "confirm" \in Holding /\ disk.log \in Logs
  BY <1>1, HolderFacts DEF Holding, Begun, Marking
<1>3. History /\ Intends(p) BY <1>1, <1>2 DEF Apart, History, CallType, Intends
<1>4. Recorded' /\ Forward BY RenameRecords
<1>5. disk'.root = disk.root /\ disk'.tomb = disk.tomb /\ disk'.log = Extended(disk.log, mark[p])
  BY RenameShape DEF Writes, Keeps
<1>6. /\ mark[p] = Complete => disk'.log.done
      /\ mark[p] = Attempt => disk'.log.deleted = disk.log.deleted /\ disk'.log.attempted = disk.log.deleted + 1
  BY <1>1, <1>5, ExtendedFields, MarkersDiffer
<1>7. disk.log.deleted \in Nat BY <1>2, FilesAssumption DEF Logs
<1>8. ASSUME pc'[p] = "confirm" PROVE Retires(p)'
  BY <1>1, <1>2, <1>5, <1>6, <1>7, <1>8 DEF Retires, Begun, Marking
<1> QED BY <1>1, <1>2, <1>3, <1>4, <1>8, HoldGoes

\* The directories are synced, and the invocation goes on with what is durable.
LEMMA ConfirmKeeps ==
  ASSUME IInv, NEW p \in Proc, Confirm(p), mark[p] # NoMarker \/ disk.tomb.marks = "none", Apart
  PROVE  IInv'
<1>1. pc[p] = "confirm" /\ SyncJournal /\ Continue(p) /\ UNCHANGED <<kind, reused, changes>>
  BY DEF Confirm
<1>2. /\ Recorded /\ CallType /\ Retires(p) /\ pc[p] \in Holding /\ pc[p] \in Locked
      /\ disk.log \in Logs /\ mark[p] \in Markers
  BY <1>1, HolderFacts DEF Holding, Locked, CallType
<1>3. disk.root # "none" /\ disk.tomb.marks = "none" BY <1>1, <1>2 DEF Retires
<1>4. History BY <1>1, <1>2 DEF Apart, History, CallType
<1>5. /\ Writes({"root", "log", "pending"}) /\ disk' = disk /\ \A s \in surviving' : s.log = disk.log
      /\ Stored' /\ (SealedEverywhere => SealedEverywhere')
  BY <1>1, <1>2, <1>3, SyncJournalStored DEF Recorded
<1>6. Forward BY <1>2, <1>3, <1>5, WritesForward DEF Recorded
<1>7. CASE mark[p] = Complete
  <2>1. Return(p, "retired") BY <1>1, <1>7 DEF Continue
  <2>2. disk.log.done BY <1>1, <1>2, <1>7 DEF Retires
  <2>3. Deletions' /\ (Attempts => Attempts')
    <3>1. disk \in surviving /\ \A s \in surviving' : \E j \in surviving : s.name = j.name
      BY <1>2, <1>5 DEF Recorded, Stored, Writes, Keeps
    <3>2. \A s \in surviving' : s.log.done /\ s.log = disk.log BY <1>5, <2>2
    <3>3. Deletions' BY <1>2, <3>1, <3>2 DEF Recorded, Deletions
    <3> QED BY <3>2, <3>3 DEF Attempts
  <2>4. Accounts' BY <1>1, <1>2, <1>5, <2>2, <2>3 DEF Recorded, Accounts
  <2>5. Recorded' BY <1>5, <2>3, <2>4 DEF Recorded
  <2>6. lock = p /\ "retired" \in Outcomes BY <1>2, HoldersLock DEF Outcomes
  <2> QED BY <1>4, <1>6, <2>1, <2>5, <2>6, Returns DEF Apart
<1>8. CASE mark[p] # Complete
  <2>1. /\ Goto(p, CASE mark[p] = NoMarker -> "pass" [] mark[p] = Attempt -> "unlink"
                     [] mark[p].dest = "deleted" -> "next")
        /\ trusts' = [trusts EXCEPT ![p] = FALSE] /\ UNCHANGED <<lock, mark>>
    BY <1>1, <1>8 DEF Continue
  <2>2. mark[p] \in {NoMarker, Attempt} \/ mark[p].dest = "deleted"
    BY <1>2, <1>8 DEF Markers, NoMarker, Attempt, Complete
  <2>3. PICK step \in {"pass", "unlink", "next"} :
          Goto(p, step) /\ (step = "unlink" => mark[p] = Attempt)
    BY <2>1, <2>2, MarkersDiffer
  <2>4. outcome' = outcome /\ Intends(p) BY <2>1 DEF Goto, Intends
  <2>5. Recorded' BY <1>1, <1>2, <1>3, <1>4, <2>4, JournalSyncRecords
  <2>6. ASSUME pc'[p] = step PROVE Retires(p)'
    BY <1>1, <1>2, <1>3, <1>5, <2>1, <2>3, <2>6 DEF Retires, Begun, Marking
  <2>7. step \in Holding BY DEF Holding
  <2> QED BY <1>2, <1>4, <1>6, <2>1, <2>3, <2>4, <2>5, <2>6, <2>7, HoldGoes
<1> QED BY <1>7, <1>8

LEMMA RefuseRetainedKeeps == ASSUME IInv, NEW p \in Proc, RefuseRetained(p), Apart PROVE IInv'
<1>1. pc[p] = "confirm" /\ SyncJournal /\ Return(p, "none") /\ UNCHANGED <<kind, reused, changes>>
  BY DEF RefuseRetained
<1>2. Recorded /\ CallType /\ Retires(p) /\ pc[p] \in Locked
  BY <1>1, HolderFacts DEF Holding, Locked
<1>3. disk.root # "none" BY <1>1, <1>2 DEF Retires
<1>4. History BY <1>1, <1>2 DEF Apart, History, CallType
<1>5. \A q \in Proc : outcome'[q] = "retired" => outcome[q] = "retired"
  BY <1>1, <1>2 DEF Return, CallType
<1>6. Recorded' BY <1>1, <1>2, <1>3, <1>4, <1>5, JournalSyncRecords
<1>7. Forward BY <1>1, <1>2, <1>3, SyncJournalStored, WritesForward DEF Recorded
<1>8. lock = p /\ "none" \in Outcomes BY <1>2, HoldersLock DEF Outcomes
<1> QED BY <1>1, <1>4, <1>6, <1>7, <1>8, Returns DEF Apart

LEMMA RetiringKeeps == ASSUME IInv, NEW p \in Proc, RetiringBeside(p), Apart PROVE IInv'
<1>1. CASE pc[p] = "confirm" /\ mark[p] = NoMarker /\ disk.tomb.marks # "none"
  BY <1>1, RefuseRetainedKeeps DEF RetiringBeside
<1>2. CASE ~(pc[p] = "confirm" /\ mark[p] = NoMarker /\ disk.tomb.marks # "none")
  <2>1. BoundedRetiring(p) BY <1>2 DEF RetiringBeside
  <2>2. CASE Confirm(p)
    <3>1. pc[p] = "confirm" BY <2>2 DEF Confirm
    <3> QED BY <1>2, <2>2, <3>1, ConfirmKeeps
  <2>3. CASE ~Confirm(p)
    BY <2>1, <2>3, ReviewKeeps, InitializeKeeps, MakeTreeKeeps, WriteIntentKeeps, OpenKeeps, ObserveKeeps,
       PresentKeeps, RecordAbsenceKeeps, UnlinkKeeps, FinishKeeps, StageKeeps, FillKeeps, RenameKeeps
       DEF BoundedRetiring, Retiring
  <2> QED BY <2>2, <2>3
<1> QED BY <1>1, <1>2

-----------------------------------------------------------------------------
(* Prune, and forget as far as its root intent.                            *)

\* What the steps beside a retention command leave as it was.
Quiet == Unname /\ UNCHANGED <<kind, late, changes>>

LEMMA QuietHistory ==
  ASSUME IInv, Quiet, reused' \in BOOLEAN, reused => reused' PROVE History
  BY HolderFacts DEF Quiet, History, CallType

\* A retention command knows nothing of a journal.
LEMMA RetainsNothing ==
  ASSUME NEW p \in Proc, pc'[p] \in RetentionUnlocked \cup RetentionHolding PROVE Retires(p)'
  BY DEF Retires, RetentionUnlocked, RetentionHolding, Begun, Marking

\* A retention command that has the lock, or takes it, goes on.
LEMMA RetainGoes ==
  ASSUME IInv, NEW p \in Proc, NEW step \in RetentionHolding, Goto(p, step), Quiet, UNCHANGED <<mark, trusts>>,
         History, (pc[p] \in Locked /\ lock' = lock) \/ (lock = Nobody /\ lock' = p),
         Recorded', Forward,
         pc'[p] = step /\ named'[p] = named[p] => Buries(p)' /\ (step = "erase" => Erases(p)')
  PROVE  IInv'
<1>1. step \in Locked /\ step \in Steps \ {"idle"} BY DEF Locked, Steps, RetentionHolding
<1>2. Intends(p) BY DEF Intends
<1>3. pc'[p] = step /\ named'[p] = named[p] BY <1>1, <1>2, GotoCalls DEF Quiet
<1>4. Retires(p)' BY <1>3, RetainsNothing
<1>5. step # "erase" => Erases(p)'
  BY <1>3, ErasesKeeps DEF Recorded, RetentionHolding, Forgetting
<1>6. Progress(p)' BY <1>3, <1>4, <1>5 DEF Progress
<1> QED BY <1>1, <1>2, <1>6, LockedGoes DEF Quiet

\* A tombstone is written.
LEMMA TombRecords ==
  ASSUME IInv, Writes({"tomb"}), Stored', SealedEverywhere => SealedEverywhere', History, outcome' = outcome
  PROVE  Recorded' /\ Forward /\ disk'.root = disk.root /\ disk'.gen = disk.gen
<1>1. Recorded /\ Stored BY HolderFacts DEF Recorded
<1>2. Recorded' BY <1>1, WritesRecord
<1>3. Forward BY <1>1, WritesForward
<1> QED BY <1>2, <1>3 DEF Writes, Keeps

LEMMA StageTombKeeps == ASSUME IInv, NEW p \in Proc, StageTomb(p), Quiet PROVE IInv'
<1>1. pc[p] = "tomb" /\ reused' = (reused \/ RestsOnUnsynced) BY DEF StageTomb
<1>2. /\ Recorded /\ Stored /\ CallType /\ Buries(p) /\ pc[p] \in Locked /\ disk.tomb \in Tombs
      /\ {"tomb", "tomb_fill", "tomb_commit"} \subseteq RetentionHolding
      /\ disk.root # "none" /\ disk.tomb.pending \in {"none", Target(p)}
      /\ IF named[p] = 0
         THEN disk.tomb.marks \in {"none", "dir"} \/ (disk.tomb.marks = "intent" /\ disk.root = "kept")
         ELSE disk.tomb.marks = "complete" /\ named[p] = disk.gen
  BY <1>1, HolderFacts, ImageFields DEF Recorded, Locked, RetentionHolding, Buries, Burying
<1>3. RestsOnUnsynced \in BOOLEAN BY DEF RestsOnUnsynced
<1>4. History BY <1>1, <1>2, <1>3, QuietHistory DEF CallType
<1>5. CASE disk.tomb.marks = "none" /\ PutDurably("tomb", [NoTomb EXCEPT !.marks = "dir"]) /\ Step(p, "tomb")
  <2> DEFINE made == [NoTomb EXCEPT !.marks = "dir"]
  <2>1. made \in Tombs /\ made.marks = "dir" /\ made.pending = "none" BY DEF NoTomb, Tombs
  <2> HIDE DEF made
  <2>2. /\ Writes({"tomb"}) /\ disk'.tomb = made /\ Stored' /\ (SealedEverywhere => SealedEverywhere')
    BY <1>2, <1>5, <2>1, PutTombDurablyStored DEF made
  <2>3. outcome' = outcome BY <1>5 DEF Step, Goto
  <2>4. Recorded' /\ Forward /\ disk'.root = disk.root /\ disk'.gen = disk.gen BY <1>4, <2>2, <2>3, TombRecords
  <2>5. ASSUME pc'[p] = "tomb", named'[p] = named[p] PROVE Buries(p)'
    BY <1>2, <1>5, <2>1, <2>2, <2>4, <2>5 DEF Buries, Burying
  <2> QED BY <1>2, <1>4, <1>5, <2>4, <2>5, RetainGoes DEF Step
<1>6. CASE /\ disk.tomb.marks # "none" /\ disk.tomb.pending = "none"
           /\ Put("tomb", [disk.tomb EXCEPT !.pending = Target(p)]) /\ Step(p, "tomb_fill")
  <2> DEFINE staged == [disk.tomb EXCEPT !.pending = Target(p)]
  <2>1. staged \in Tombs /\ staged.marks = disk.tomb.marks /\ staged.pending = Target(p)
    BY <1>2 DEF Tombs, Target
  <2> HIDE DEF staged
  <2>2. /\ Writes({"tomb"}) /\ disk'.tomb = staged /\ Stored' /\ (SealedEverywhere => SealedEverywhere')
    BY <1>2, <1>6, <2>1, PutTombStored DEF staged
  <2>3. outcome' = outcome BY <1>6 DEF Step, Goto
  <2>4. Recorded' /\ Forward /\ disk'.root = disk.root /\ disk'.gen = disk.gen BY <1>4, <2>2, <2>3, TombRecords
  <2>5. ASSUME pc'[p] = "tomb_fill", named'[p] = named[p] PROVE Buries(p)'
    <3>1. Target(p)' = Target(p) BY <2>1, <2>2, <2>5 DEF Target
    <3> QED BY <1>2, <1>6, <2>1, <2>2, <2>4, <2>5, <3>1 DEF Buries, Burying
  <2> QED BY <1>2, <1>4, <1>6, <2>4, <2>5, RetainGoes DEF Step
<1>7. CASE disk.tomb.pending # "none" /\ Read(p, "tomb_commit")
  <2>1. outcome' = outcome /\ UNCHANGED diskVars BY <1>7 DEF Read, Step, Goto
  <2>2. Recorded' /\ Forward
    BY <1>2, <1>4, <2>1, StutterRecords, StutterAside, AsideIsForward
  <2>3. disk.tomb.marks # "none" BY <1>2, <1>7, StoredFacts DEF Beside
  <2>4. ASSUME pc'[p] = "tomb_commit", named'[p] = named[p] PROVE Buries(p)'
    <3>1. Target(p)' = Target(p) BY <2>1, <2>4 DEF Target, diskVars
    <3> QED BY <1>2, <1>7, <2>1, <2>3, <2>4, <3>1 DEF Buries, Burying, diskVars
  <2> QED BY <1>2, <1>4, <1>7, <2>2, <2>4, RetainGoes DEF Read, Step
<1> QED BY <1>5, <1>6, <1>7 DEF StageTomb

LEMMA FillTombKeeps == ASSUME IInv, NEW p \in Proc, FillTomb(p), Quiet PROVE IInv'
<1>1. pc[p] = "tomb_fill" /\ Step(p, "tomb_commit") /\ UNCHANGED reused BY DEF FillTomb
<1>2. /\ Recorded /\ Stored /\ CallType /\ Buries(p) /\ pc[p] \in Locked /\ "tomb_commit" \in RetentionHolding
  BY <1>1, HolderFacts DEF Recorded, Locked, RetentionHolding
<1>3. History /\ outcome' = outcome BY <1>1, <1>2, QuietHistory DEF CallType, Step, Goto
<1>4. /\ Writes({"tomb"}) /\ Stored' /\ (SealedEverywhere => SealedEverywhere')
      /\ disk'.tomb.marks = disk.tomb.marks /\ disk'.tomb.pending = disk.tomb.pending
  BY <1>2, FillTombShape
<1>5. Recorded' /\ Forward /\ disk'.root = disk.root /\ disk'.gen = disk.gen BY <1>3, <1>4, TombRecords
<1>6. ASSUME pc'[p] = "tomb_commit", named'[p] = named[p] PROVE Buries(p)'
  <2>1. Target(p)' = Target(p) BY <1>4, <1>6 DEF Target
  <2> QED BY <1>1, <1>2, <1>4, <1>5, <1>6, <2>1 DEF Buries, Burying
<1> QED BY <1>1, <1>2, <1>3, <1>5, <1>6, RetainGoes DEF Step

LEMMA CommitTombKeeps == ASSUME IInv, NEW p \in Proc, CommitTomb(p), Quiet PROVE IInv'
<1>1. pc[p] = "tomb_commit" /\ Step(p, "tomb_confirm") /\ UNCHANGED reused BY DEF CommitTomb
<1>2. /\ Recorded /\ Stored /\ CallType /\ Buries(p) /\ pc[p] \in Locked /\ "tomb_confirm" \in RetentionHolding
      /\ disk.root # "none" /\ disk.tomb.marks # "none" /\ disk.tomb.pending = Target(p)
      /\ IF named[p] = 0
         THEN disk.tomb.marks \in {"none", "dir"} \/ (disk.tomb.marks = "intent" /\ disk.root = "kept")
         ELSE disk.tomb.marks = "complete" /\ named[p] = disk.gen
  BY <1>1, HolderFacts DEF Recorded, Locked, RetentionHolding, Buries, Burying
<1>3. History /\ outcome' = outcome BY <1>1, <1>2, QuietHistory DEF CallType, Step, Goto
<1>4. CASE named[p] = 0 /\ Put("tomb", [NoTomb EXCEPT !.marks = disk.tomb.pending])
  <2> DEFINE committed == [NoTomb EXCEPT !.marks = disk.tomb.pending]
  <2>1. /\ committed \in Tombs /\ committed.pending = "none"
        /\ committed.marks = (IF disk.tomb.marks = "intent" THEN "complete" ELSE "intent")
    BY <1>2, <1>4 DEF NoTomb, Tombs, Target
  <2>2. Put("tomb", committed) BY <1>4
  <2> HIDE DEF committed
  <2>3. /\ Writes({"tomb"}) /\ disk'.tomb = committed /\ Stored' /\ (SealedEverywhere => SealedEverywhere')
    BY <1>2, <2>1, <2>2, PutTombStored
  <2>4. Recorded' /\ Forward /\ disk'.root = disk.root /\ disk'.gen = disk.gen BY <1>3, <2>3, TombRecords
  <2>5. ASSUME pc'[p] = "tomb_confirm", named'[p] = named[p] PROVE Buries(p)'
    BY <1>2, <1>4, <2>1, <2>3, <2>4, <2>5 DEF Buries, Burying
  <2> QED BY <1>1, <1>2, <1>3, <2>4, <2>5, RetainGoes DEF Step
<1>5. CASE named[p] # 0
  <2>1. /\ Writes({"tomb", "erasing"}) /\ disk'.erasing = disk.gen
        /\ Stored' /\ (SealedEverywhere => SealedEverywhere')
    BY <1>2, <1>5, PublishForgetStored
  <2>2. Recorded' BY <1>2, <1>3, <2>1, WritesRecord
  <2>3. Forward BY <1>2, <2>1, WritesForward
  <2>4. disk'.root = disk.root /\ disk'.gen = disk.gen BY <2>1 DEF Writes, Keeps
  <2>5. ASSUME pc'[p] = "tomb_confirm", named'[p] = named[p] PROVE Buries(p)'
    BY <1>2, <1>5, <2>1, <2>4, <2>5 DEF Buries, Burying
  <2> QED BY <1>1, <1>2, <1>3, <2>2, <2>3, <2>5, RetainGoes DEF Step
<1> QED BY <1>4, <1>5 DEF CommitTomb

LEMMA SyncTombRecords ==
  ASSUME IInv, SyncTomb, disk.root # "none", History,
         \A q \in Proc : outcome'[q] = "retired" => outcome[q] = "retired"
  PROVE  Recorded' /\ Forward /\ disk' = disk /\ \A s \in surviving' : s.root = disk.root /\ s.tomb = disk.tomb
<1>1. Recorded /\ Stored BY HolderFacts DEF Recorded
<1>2. /\ Writes({"root", "tomb"}) /\ disk' = disk /\ Stored' /\ (SealedEverywhere => SealedEverywhere')
      /\ \A s \in surviving' : s.root = disk.root /\ s.tomb = disk.tomb
  BY <1>1, SyncTombStored
<1>3. Recorded' BY <1>1, <1>2, WritesRecord
<1>4. Forward BY <1>1, <1>2, WritesForward
<1> QED BY <1>2, <1>3, <1>4

LEMMA SyncTargetRecords ==
  ASSUME IInv, SyncTarget, History,
         \A q \in Proc : outcome'[q] = "retired" => outcome[q] = "retired"
  PROVE  /\ Recorded' /\ Aside /\ Forward /\ disk' = disk
         /\ \A s \in surviving' : s.root = disk.root /\ s.gen = disk.gen /\ s.erasing = disk.erasing
<1>1. Recorded /\ Stored BY HolderFacts DEF Recorded
<1>2. /\ Writes({"root", "gen", "erasing", "tomb"}) /\ disk' = disk
      /\ Stored' /\ (SealedEverywhere => SealedEverywhere')
      /\ \A s \in surviving' : s.root = disk.root /\ s.gen = disk.gen /\ s.erasing = disk.erasing
  BY <1>1, SyncTargetStored
<1>3. Recorded' BY <1>1, <1>2, WritesRecord
<1>4. Aside /\ Forward BY <1>1, SyncTargetAside, AsideIsForward
<1> QED BY <1>2, <1>3, <1>4

\* What a report other than that of a removal leaves of the reports.
LEMMA OtherOutcomes ==
  ASSUME IInv, NEW p \in Proc, NEW o \in Outcomes \ {"retired"}, outcome' = [outcome EXCEPT ![p] = o]
  PROVE  \A q \in Proc : outcome'[q] = "retired" => outcome[q] = "retired"
  BY HolderFacts DEF CallType

LEMMA ConfirmTombKeeps ==
  ASSUME IInv, NEW p \in Proc, ConfirmTomb(p), Quiet PROVE IInv'
<1>1. pc[p] = "tomb_confirm" /\ UNCHANGED reused BY DEF ConfirmTomb
<1>2. /\ Recorded /\ CallType /\ Buries(p) /\ Erases(p) /\ pc[p] \in Locked /\ "strip" \in RetentionHolding
      /\ "erase" \in RetentionHolding /\ disk.root # "none" /\ disk.gen \in Nat \ {0}
      /\ named[p] = 0 => disk.tomb.pending = "none"
      /\ named[p] # 0 => disk.erasing = disk.gen /\ named[p] = disk.gen
  BY <1>1, HolderFacts, Generations DEF Recorded, Locked, RetentionHolding, Buries, Burying
<1>3. History BY <1>1, <1>2, QuietHistory DEF CallType
<1>4. CASE named[p] = 0 /\ disk.tomb.marks = "intent" /\ SyncTomb /\ Step(p, "strip")
  <2>1. outcome' = outcome BY <1>4 DEF Step, Goto
  <2>2. Recorded' /\ Forward /\ disk' = disk /\ \A s \in surviving' : s.tomb = disk.tomb
    BY <1>2, <1>3, <1>4, <2>1, SyncTombRecords
  <2>3. ASSUME pc'[p] = "strip", named'[p] = named[p] PROVE Buries(p)'
    BY <1>2, <1>4, <2>2, <2>3 DEF Buries, Burying
  <2> QED BY <1>2, <1>3, <1>4, <2>2, <2>3, RetainGoes DEF Step
<1>5. CASE SyncTomb /\ Return(p, "pruned")
  <2>1. "pruned" \in Outcomes \ {"retired"} BY DEF Outcomes
  <2>2. \A q \in Proc : outcome'[q] = "retired" => outcome[q] = "retired"
    BY <1>5, <2>1, OtherOutcomes DEF Return
  <2>3. Recorded' /\ Forward BY <1>2, <1>3, <1>5, <2>2, SyncTombRecords
  <2>4. lock = p BY <1>2, HoldersLock
  <2> QED BY <1>3, <1>5, <2>1, <2>3, <2>4, Returns DEF Quiet
<1>6. CASE named[p] # 0 /\ SyncTarget /\ Step(p, "erase")
  <2>1. outcome' = outcome BY <1>6 DEF Step, Goto
  <2>2. /\ Recorded' /\ Forward /\ disk' = disk
        /\ \A s \in surviving' : s.gen = disk.gen /\ s.erasing = disk.erasing
    BY <1>3, <1>6, <2>1, SyncTargetRecords
  <2>3. ASSUME pc'[p] = "erase", named'[p] = named[p] PROVE Buries(p)' /\ Erases(p)'
    <3>1. Buries(p)' BY <1>2, <1>6, <2>3 DEF Buries, Burying, Forgetting
    <3>2. Erases(p)' BY <1>2, <1>6, <2>2, <2>3 DEF Erases
    <3> QED BY <3>1, <3>2
  <2> QED BY <1>2, <1>3, <1>6, <2>2, <2>3, RetainGoes DEF Step
<1> QED BY <1>4, <1>5, <1>6 DEF ConfirmTomb

LEMMA PruneOpensKeeps == ASSUME IInv, NEW p \in Proc, PruneOpens(p), Quiet PROVE IInv'
<1>1. pc[p] = "prune_open" /\ lock = Nobody /\ Lockable(disk) /\ UNCHANGED reused BY DEF PruneOpens
<1>2. /\ Recorded /\ CallType /\ Buries(p) /\ named[p] = 0 /\ disk.root # "none"
      /\ {"tomb", "strip"} \subseteq RetentionHolding
  BY <1>1, HolderFacts DEF RetentionHolding, Buries, Burying, Forgetting, Lockable
<1>3. History BY <1>1, <1>2, QuietHistory DEF CallType
<1>4. CASE Unsealed(disk) /\ lock' = p /\ Goto(p, "tomb") /\ UNCHANGED <<diskVars, mark, trusts>>
  <2>1. outcome' = outcome BY <1>4 DEF Goto
  <2>2. Recorded' /\ Forward
    BY <1>2, <1>3, <1>4, <2>1, StutterRecords, StutterAside, AsideIsForward DEF Recorded
  <2>3. disk.tomb.marks \in {"none", "dir"} /\ disk.tomb.pending \in {"none", "intent"}
    BY <1>4 DEF Unsealed
  <2>4. ASSUME pc'[p] = "tomb", named'[p] = named[p] PROVE Buries(p)'
    BY <1>2, <1>4, <2>3, <2>4 DEF Buries, Burying, Target, diskVars
  <2> QED BY <1>1, <1>2, <1>3, <1>4, <2>2, <2>4, RetainGoes
<1>5. CASE Sealed(disk) /\ lock' = p /\ Goto(p, "strip") /\ SyncTomb /\ UNCHANGED <<mark, trusts>>
  <2>1. outcome' = outcome BY <1>5 DEF Goto
  <2>2. Recorded' /\ Forward /\ disk' = disk /\ \A s \in surviving' : s.tomb = disk.tomb
    BY <1>2, <1>3, <1>5, <2>1, SyncTombRecords
  <2>3. ASSUME pc'[p] = "strip", named'[p] = named[p] PROVE Buries(p)'
    BY <1>2, <1>5, <2>2, <2>3 DEF Buries, Burying, Sealed
  <2> QED BY <1>1, <1>2, <1>3, <1>5, <2>2, <2>3, RetainGoes
<1>6. CASE SyncTomb /\ Return(p, "pruned")
  <2>1. "pruned" \in Outcomes \ {"retired"} BY DEF Outcomes
  <2>2. \A q \in Proc : outcome'[q] = "retired" => outcome[q] = "retired"
    BY <1>6, <2>1, OtherOutcomes DEF Return
  <2>3. Recorded' /\ Forward BY <1>2, <1>3, <1>6, <2>2, SyncTombRecords
  <2> QED BY <1>1, <1>3, <1>6, <2>1, <2>3, Returns DEF Quiet
<1> QED BY <1>4, <1>5, <1>6 DEF PruneOpens

\* A marker of the journal goes once the end is recorded elsewhere.
LEMMA PeeledFields ==
  ASSUME NEW log \in Logs, log # NoLog
  PROVE  /\ Peeled(log) \in Logs
         /\ log.deleted \in Nat /\ Peeled(log).deleted \in Nat /\ Peeled(log).deleted <= log.deleted
<1>1. log.attempted \in 0..Files /\ log.deleted \in 0..Files /\ log.done \in BOOLEAN /\ Files \in Nat
  BY FilesAssumption DEF Logs
<1>2. log = [attempted |-> log.attempted, deleted |-> log.deleted, done |-> log.done] BY DEF Logs
<1>3. CASE log.deleted > 0
  <2>1. log.deleted - 1 \in 0..Files /\ Peeled(log) = [log EXCEPT !.deleted = log.deleted - 1]
    BY <1>1, <1>3 DEF Peeled
  <2> QED BY <1>1, <2>1 DEF Logs
<1>4. CASE log.deleted = 0 /\ log.done
  <2>1. ~(log.deleted > 0) /\ log.done = TRUE BY <1>1, <1>4
  <2>2. Peeled(log) = [log EXCEPT !.done = FALSE] BY <1>4, <2>1 DEF Peeled
  <2>3. Peeled(log) = [attempted |-> log.attempted, deleted |-> log.deleted, done |-> FALSE]
    BY <1>2, <2>2
  <2> QED BY <1>1, <2>3 DEF Logs
<1>5. CASE log.deleted = 0 /\ ~log.done
  <2>1. log.done = FALSE BY <1>1, <1>5, Zenon
  <2>2. log.attempted # 0 BY <1>2, <1>5, <2>1 DEF NoLog
  <2>3. log.attempted - 1 \in 0..Files /\ Peeled(log) = [log EXCEPT !.attempted = log.attempted - 1]
    BY <1>1, <1>5, <2>2 DEF Peeled
  <2> QED BY <1>1, <1>5, <2>3 DEF Logs
<1> QED BY <1>1, <1>3, <1>4, <1>5

LEMMA PeelKeeps ==
  ASSUME IInv, PutDurably("log", Peeled(disk.log)), disk.log # NoLog, SealedEverywhere, History, outcome' = outcome
  PROVE  Writes({"log"}) /\ Recorded' /\ Forward
<1> DEFINE log == Peeled(disk.log)
<1>1. Recorded /\ Stored /\ disk \in surviving /\ disk.log \in Logs BY HolderFacts DEF Recorded
<1>2. log \in Logs /\ disk.log.deleted \in Nat /\ log.deleted \in Nat /\ log.deleted <= disk.log.deleted
  BY <1>1, PeeledFields
<1>3. PutDurably("log", log) OBVIOUS
<1> HIDE DEF log
<1>4. Fits("log", log) /\ "log" \in Writable BY <1>2 DEF Fits, Writable
<1>5. Writes({"log"}) /\ \A s \in surviving' : \E j \in surviving : Keeps({"log"}, s, j) /\ s["log"] = log
  BY <1>1, <1>3, <1>4, PutDurablyShape
<1>6. Stored' /\ SealedEverywhere' BY <1>1, <1>5, PlainStored
<1>7. \A s \in surviving' : s.log = log /\ \E j \in surviving : s.name = j.name BY <1>5 DEF Keeps
<1>8. Deletions'
  <2>1. SUFFICES ASSUME NEW s \in surviving', NEW t \in surviving', NEW i \in 1..s.log.deleted
                 PROVE  t.name[i] \in Away
    BY DEF Deletions
  <2>2. i \in 1..disk.log.deleted BY <1>2, <1>7
  <2>3. PICK k \in surviving : t.name = k.name BY <1>7
  <2> QED BY <1>1, <2>2, <2>3 DEF Recorded, Deletions
<1>9. Recorded' BY <1>6, <1>8 DEF Recorded, Accounts
<1>10. Forward BY <1>1, <1>5, WritesForward
<1> QED BY <1>5, <1>9, <1>10

LEMMA StripKeeps == ASSUME IInv, NEW p \in Proc, Strip(p), Quiet PROVE IInv'
<1>1. pc[p] = "strip" /\ UNCHANGED reused BY DEF Strip
<1>2. /\ Recorded /\ CallType /\ Buries(p) /\ pc[p] \in Locked /\ {"tomb", "strip"} \subseteq RetentionHolding
      /\ named[p] = 0 /\ disk.tomb.marks = "intent" /\ disk.tomb.pending = "none" /\ disk.root # "none"
      /\ \A j \in surviving : j.tomb = disk.tomb
  BY <1>1, HolderFacts DEF Locked, RetentionHolding, Buries, Burying, Forgetting
<1>3. History BY <1>1, <1>2, QuietHistory DEF CallType
<1>4. SealedEverywhere BY <1>2 DEF SealedEverywhere, Closed
<1>5. ASSUME NEW part \in {"root", "log"}, Writes({part}), disk'.root # "none", Recorded', Forward, Step(p, "strip")
      PROVE  IInv'
  <2>1. disk'.tomb = disk.tomb /\ \A s \in surviving' : s.tomb = disk.tomb
    BY <1>2, <1>5 DEF Writes, Keeps
  <2>2. ASSUME pc'[p] = "strip", named'[p] = named[p] PROVE Buries(p)'
    BY <1>2, <1>5, <2>1, <2>2 DEF Buries, Burying
  <2> QED BY <1>2, <1>3, <1>5, <2>2, RetainGoes DEF Step
<1>6. ASSUME NEW value \in {"noscratch", "headless", "kept"}, PutDurably("root", value), Step(p, "strip")
      PROVE  IInv'
  <2>1. outcome' = outcome BY <1>6 DEF Step, Goto
  <2>2. Writes({"root"}) /\ disk'.root = value /\ Recorded' /\ Forward
    BY <1>2, <1>3, <1>6, <2>1, PutRootKeeps
  <2> QED BY <1>5, <1>6, <2>2
<1>7. CASE disk.log # NoLog /\ PutDurably("log", Peeled(disk.log)) /\ Step(p, "strip")
  <2>1. outcome' = outcome BY <1>7 DEF Step, Goto
  <2>2. Writes({"log"}) /\ Recorded' /\ Forward BY <1>3, <1>4, <1>7, <2>1, PeelKeeps
  <2>3. disk'.root # "none" BY <1>2, <2>2 DEF Writes, Keeps
  <2> QED BY <1>5, <1>7, <2>2, <2>3
<1>8. CASE disk.root = "kept" /\ Read(p, "tomb")
  <2>1. outcome' = outcome /\ UNCHANGED diskVars BY <1>8 DEF Read, Step, Goto
  <2>2. Recorded' /\ Forward
    BY <1>2, <1>3, <2>1, StutterRecords, StutterAside, AsideIsForward DEF Recorded
  <2>3. ASSUME pc'[p] = "tomb", named'[p] = named[p] PROVE Buries(p)'
    BY <1>2, <1>8, <2>1, <2>3 DEF Buries, Burying, Target, diskVars
  <2> QED BY <1>2, <1>3, <1>8, <2>2, <2>3, RetainGoes DEF Read, Step
<1>9. disk.log.deleted > 0 => disk.log # NoLog BY DEF NoLog
<1> QED BY <1>1, <1>6, <1>7, <1>8, <1>9 DEF Strip

-----------------------------------------------------------------------------
(* Forget, once its root intent is there.                                  *)

\* An invocation that knows of no incarnation but the one it names.
LEMMA NamesKeep ==
  ASSUME IInv, Stored', Forward, NEW p \in Proc, named'[p] = named[p]
  PROVE  named[p] <= disk'.gen /\ (named[p] = disk'.gen => disk'.root # "none")
<1>1. Erases(p) /\ named[p] \in Nat /\ Stored
  BY HolderFacts, MaxIncarnationsAssumption DEF CallType, Recorded
<1>2. disk'.gen \in Nat /\ disk.gen \in Nat BY <1>1, Generations, ImageFields DEF Stored, Beside
<1> QED BY <1>1, <1>2 DEF Erases, Forward

\* Behind the root intent of a forget there is no tombstone to write.
LEMMA BehindIntent ==
  ASSUME NEW p \in Proc, pc'[p] \in Forgetting PROVE Buries(p)'
  BY DEF Buries, Burying, Forgetting

\* A forget goes on without the lock: beside its holder, or while it is free.
LEMMA ForgetGoes ==
  ASSUME IInv, NEW p \in Proc, pc[p] \in Forgetting,
         NEW step \in {"vanish", "look", "unmark", "report"}, Goto(p, step), Quiet, UNCHANGED <<mark, trusts>>,
         History, Recorded',
         \/ Aside /\ lock' = lock /\ pc[p] \notin Locked
         \/ Forward /\ lock = Nobody /\ lock' = lock
         \/ Forward /\ pc[p] \in Locked /\ lock' = Nobody,
         step \in {"look", "unmark", "report"} => \A s \in surviving' : named[p] < s.gen,
         step = "report" => disk'.erasing # named[p]
  PROVE  IInv'
<1>1. step \in Steps \ (Locked \cup {"idle"}) /\ step \in Forgetting /\ step \in RetentionUnlocked
  BY DEF Steps, Locked, Unlocked, Holding, RetentionUnlocked, RetentionHolding, Forgetting
<1>2. Intends(p) BY DEF Intends
<1>3. pc'[p] = step /\ named'[p] = named[p] BY <1>1, <1>2, GotoCalls DEF Quiet
<1>4. Stored /\ Stored' /\ Erases(p) BY HolderFacts DEF Recorded
<1>5. Forward BY <1>4, AsideIsForward
<1>6. named[p] # 0 BY <1>4 DEF Erases
<1>7. Erases(p)'
  <2>1. named'[p] <= disk'.gen /\ (named'[p] = disk'.gen => disk'.root # "none")
    BY <1>3, <1>4, <1>5, NamesKeep
  <2>2. pc'[p] \in {"look", "unmark", "report"} => \A s \in surviving' : named'[p] < s.gen BY <1>3
  <2>3. pc'[p] = "report" => disk'.erasing # named'[p] BY <1>3
  <2> QED BY <1>3, <1>6, <2>1, <2>2, <2>3 DEF Erases
<1>8. Progress(p)' BY <1>1, <1>3, <1>7, RetainsNothing, BehindIntent DEF Progress
<1> QED BY <1>1, <1>2, <1>5, <1>8, AsideGoes, FreeGoes DEF Quiet

LEMMA VanishesRecords ==
  ASSUME IInv, Vanishes, disk.root # "none", History, outcome' = outcome PROVE Recorded' /\ Forward
<1>1. Recorded /\ Stored /\ disk \in surviving BY HolderFacts DEF Recorded, Stored
<1>2. /\ Writes({"root", "gen"}) /\ disk'.gen = disk.gen + 1 /\ disk'.erasing = disk.erasing
      /\ \A s \in surviving' : s \in surviving \/ s.gen = disk.gen + 1
      /\ Stored' /\ (SealedEverywhere => SealedEverywhere')
  BY <1>1, VanishesStored
<1>3. Recorded' BY <1>1, <1>2, WritesRecord
<1>4. disk.gen \in Nat /\ \A j \in surviving : j.gen \in Nat BY <1>1, Generations
<1>5. \A s \in surviving' : \E j \in surviving : j.gen <= s.gen BY <1>1, <1>2, <1>4
<1>6. Forward BY <1>2, <1>4, <1>5 DEF Forward
<1> QED BY <1>3, <1>6

LEMMA EraseOpensKeeps == ASSUME IInv, NEW p \in Proc, EraseOpens(p), Quiet PROVE IInv'
<1>1. pc[p] = "erase_open" /\ UNCHANGED reused BY DEF EraseOpens
<1>2. /\ Recorded /\ CallType /\ Erases(p) /\ pc[p] \in Forgetting /\ pc[p] \notin Locked
      /\ "erase" \in RetentionHolding /\ named[p] # 0
  BY <1>1, HolderFacts DEF Locked, Holding, RetentionHolding, Forgetting, Erases
<1>3. History BY <1>1, <1>2, QuietHistory DEF CallType
<1>4. CASE disk.root = "none" /\ SyncTarget /\ Step(p, "vanish")
  <2>1. outcome' = outcome BY <1>4 DEF Step, Goto
  <2>2. Recorded' /\ Aside BY <1>3, <1>4, <2>1, SyncTargetRecords
  <2> QED BY <1>2, <1>3, <1>4, <2>2, ForgetGoes DEF Step
<1>5. CASE disk.root = "bare" /\ lock = Nobody /\ Vanishes /\ Step(p, "vanish")
  <2>1. outcome' = outcome BY <1>5 DEF Step, Goto
  <2>2. Recorded' /\ Forward BY <1>3, <1>5, <2>1, VanishesRecords
  <2> QED BY <1>2, <1>3, <1>5, <2>2, ForgetGoes DEF Step
<1>6. CASE /\ Lockable(disk) /\ disk.gen = named[p] /\ lock = Nobody /\ disk.erasing = named[p]
           /\ SyncTarget /\ lock' = p /\ Goto(p, "erase") /\ UNCHANGED <<mark, trusts>>
  <2>1. outcome' = outcome BY <1>6 DEF Goto
  <2>2. /\ Recorded' /\ Forward /\ disk' = disk
        /\ \A s \in surviving' : s.gen = disk.gen /\ s.erasing = disk.erasing
    BY <1>3, <1>6, <2>1, SyncTargetRecords
  <2>3. disk.gen \in Nat \ {0} BY <1>2, Generations DEF Recorded
  <2>4. ASSUME pc'[p] = "erase", named'[p] = named[p] PROVE Buries(p)' /\ Erases(p)'
    <3>1. Buries(p)' BY <2>4, BehindIntent DEF Forgetting
    <3>2. Erases(p)' BY <1>2, <1>6, <2>2, <2>3, <2>4 DEF Erases, Lockable
    <3> QED BY <3>1, <3>2
  <2> QED BY <1>2, <1>3, <1>6, <2>2, <2>4, RetainGoes
<1> QED BY <1>4, <1>5, <1>6 DEF EraseOpens

\* Nothing of the directory under the forget changes its identity.
LEMMA EraseGoes ==
  ASSUME IInv, NEW p \in Proc, pc[p] = "erase", NEW part \in {"root", "tomb"}, Writes({part}),
         disk'.root # "none", Recorded', Forward, Step(p, "erase"), Quiet, History
  PROVE  IInv'
<1>1. /\ Erases(p) /\ pc[p] \in Locked /\ "erase" \in RetentionHolding /\ Stored
      /\ pc[p] \in Forgetting
  BY HolderFacts DEF Locked, RetentionHolding, Recorded, Forgetting
<1>2. /\ named[p] = disk.gen /\ named[p] # 0 /\ \A j \in surviving : j.gen = disk.gen /\ j.erasing = disk.gen
  BY <1>1 DEF Erases
<1>3. disk'.gen = disk.gen /\ \A s \in surviving' : s.gen = disk.gen /\ s.erasing = disk.gen
  BY <1>2 DEF Writes, Keeps
<1>4. disk.gen \in Nat BY <1>1, Generations
<1>5. ASSUME pc'[p] = "erase", named'[p] = named[p] PROVE Buries(p)' /\ Erases(p)'
  <2>1. Buries(p)' BY <1>5, BehindIntent DEF Forgetting
  <2>2. Erases(p)' BY <1>2, <1>3, <1>4, <1>5 DEF Erases
  <2> QED BY <2>1, <2>2
<1> QED BY <1>1, <1>5, RetainGoes DEF Step

LEMMA EraseKeeps == ASSUME IInv, NEW p \in Proc, Erase(p), Quiet PROVE IInv'
<1>1. pc[p] = "erase" /\ disk.tomb.pending = "none" /\ UNCHANGED reused BY DEF Erase
<1>2. /\ Recorded /\ Stored /\ CallType /\ Erases(p) /\ pc[p] \in Locked /\ pc[p] \in Forgetting
      /\ disk.tomb \in Tombs
  BY <1>1, HolderFacts, ImageFields DEF Locked, RetentionHolding, Forgetting, Recorded
<1>3. History BY <1>1, <1>2, QuietHistory DEF CallType
<1>4. /\ named[p] = disk.gen /\ disk.root # "none"
      /\ \A j \in surviving : j.gen = disk.gen /\ j.erasing = disk.gen
  BY <1>1, <1>2 DEF Erases
<1>5. CASE /\ disk.tomb.marks # "none" /\ PutDurably("tomb", Exhumed(disk.tomb)) /\ Step(p, "erase")
  <2> DEFINE exhumed == Exhumed(disk.tomb)
  <2>1. exhumed \in Tombs /\ (exhumed.marks = "none" => exhumed.pending = "none")
    <3>1. disk.tomb.marks \in {"complete", "intent", "dir"} BY <1>2, <1>5 DEF Tombs
    <3>2. CASE disk.tomb.marks = "complete" BY <1>2, <3>2 DEF Exhumed, Tombs
    <3>3. CASE disk.tomb.marks = "intent" BY <1>2, <3>3 DEF Exhumed, Tombs
    <3>4. CASE disk.tomb.marks = "dir" BY <3>4 DEF Exhumed, NoTomb, Tombs
    <3> QED BY <3>1, <3>2, <3>3, <3>4
  <2>2. PutDurably("tomb", exhumed) BY <1>5
  <2> HIDE DEF exhumed
  <2>3. Writes({"tomb"}) /\ Stored' /\ (SealedEverywhere => SealedEverywhere')
    BY <1>2, <1>4, <2>1, <2>2, PutTombDurablyStored
  <2>4. outcome' = outcome BY <1>5 DEF Step, Goto
  <2>5. Recorded' /\ Forward /\ disk'.root = disk.root BY <1>3, <2>3, <2>4, TombRecords
  <2> QED BY <1>1, <1>3, <1>4, <1>5, <2>3, <2>5, EraseGoes
<1>6. CASE disk.root = "kept" /\ Put("root", "bare") /\ Step(p, "erase")
  <2>1. outcome' = outcome BY <1>6 DEF Step, Goto
  <2>2. Writes({"root"}) /\ disk'.root = "bare" /\ Recorded' /\ Forward
    BY <1>3, <1>4, <1>6, <2>1, PutRootKeeps
  <2> QED BY <1>1, <1>3, <1>6, <2>2, EraseGoes
<1>7. CASE Vanishes /\ lock' = Nobody /\ Goto(p, "vanish") /\ UNCHANGED <<mark, trusts>>
  <2>1. outcome' = outcome BY <1>7 DEF Goto
  <2>2. Recorded' /\ Forward BY <1>3, <1>4, <1>7, <2>1, VanishesRecords
  <2> QED BY <1>2, <1>3, <1>7, <2>2, ForgetGoes
<1> QED BY <1>5, <1>6, <1>7 DEF Erase

LEMMA VanishKeeps == ASSUME IInv, NEW p \in Proc, Vanish(p), Quiet PROVE IInv'
<1>1. /\ pc[p] = "vanish" /\ disk.root = "none" /\ SyncTarget /\ Step(p, "look") /\ UNCHANGED reused
  BY DEF Vanish
<1>2. /\ Recorded /\ CallType /\ Erases(p) /\ pc[p] \in Forgetting /\ pc[p] \notin Locked
      /\ disk.gen \in Nat /\ named[p] \in Nat
  BY <1>1, HolderFacts, Generations, MaxIncarnationsAssumption
     DEF Locked, Holding, RetentionHolding, Forgetting, Recorded, CallType
<1>3. History /\ outcome' = outcome BY <1>1, <1>2, QuietHistory DEF CallType, Step, Goto
<1>4. Recorded' /\ Aside /\ \A s \in surviving' : s.gen = disk.gen BY <1>1, <1>3, SyncTargetRecords
<1>5. named[p] < disk.gen BY <1>1, <1>2 DEF Erases
<1> QED BY <1>1, <1>2, <1>3, <1>4, <1>5, ForgetGoes DEF Step

LEMMA LookAgainKeeps == ASSUME IInv, NEW p \in Proc, LookAgain(p), Quiet PROVE IInv'
<1>1. pc[p] = "look" /\ Step(p, "unmark") /\ UNCHANGED diskVars /\ UNCHANGED reused
  BY DEF LookAgain, Read
<1>2. /\ Recorded /\ CallType /\ Erases(p) /\ pc[p] \in Forgetting /\ pc[p] \notin Locked
  BY <1>1, HolderFacts DEF Locked, Holding, RetentionHolding, Forgetting
<1>3. History /\ outcome' = outcome BY <1>1, <1>2, QuietHistory DEF CallType, Step, Goto
<1>4. Recorded' /\ Aside BY <1>1, <1>2, <1>3, StutterRecords, StutterAside DEF Recorded
<1>5. \A s \in surviving' : named[p] < s.gen BY <1>1, <1>2 DEF Erases, diskVars
<1> QED BY <1>1, <1>2, <1>3, <1>4, <1>5, ForgetGoes DEF Step

LEMMA UnmarkKeeps == ASSUME IInv, NEW p \in Proc, Unmark(p), Quiet PROVE IInv'
<1>1. /\ pc[p] = "unmark" /\ disk.erasing = named[p] /\ Put("erasing", 0) /\ Step(p, "report")
      /\ UNCHANGED reused
  BY DEF Unmark
<1>2. /\ Recorded /\ Stored /\ CallType /\ Erases(p) /\ pc[p] \in Forgetting /\ pc[p] \notin Locked
      /\ named[p] \in Nat \ {0} /\ disk \in surviving
  BY <1>1, HolderFacts, MaxIncarnationsAssumption
     DEF Locked, Holding, RetentionHolding, Forgetting, Recorded, CallType, Erases
<1>3. History /\ outcome' = outcome BY <1>1, <1>2, QuietHistory DEF CallType, Step, Goto
<1>4. \A j \in surviving : named[p] < j.gen /\ j.gen \in Nat BY <1>1, <1>2, Generations DEF Erases
<1>5. /\ Writes({"erasing"}) /\ disk'.erasing = 0 /\ Stored' /\ (SealedEverywhere => SealedEverywhere')
  BY <1>1, <1>2, <1>4, UnmarkStored
<1>6. Recorded' BY <1>2, <1>3, <1>5, WritesRecord
<1>7. /\ disk'.root = disk.root /\ disk'.log = disk.log /\ disk'.tomb = disk.tomb /\ disk'.gen = disk.gen
      /\ \A s \in surviving' : \E j \in surviving :
           s.log = j.log /\ s.tomb = j.tomb /\ s.gen = j.gen /\ s.name = j.name
  BY <1>5 DEF Writes, Keeps
<1>8. disk.erasing # disk.gen BY <1>1, <1>2, <1>4
<1>9. Aside
  <2>1. \A s \in surviving' : \E j \in surviving : s.name = j.name BY <1>7
  <2>2. \A i \in 1..Files :
          (\A j \in surviving : j.name[i] \in Away) => \A s \in surviving' : s.name[i] \in Away
    BY <2>1
  <2> QED BY <1>5, <1>7, <1>8, <2>2 DEF Aside
<1>10. \A s \in surviving' : named[p] < s.gen BY <1>4, <1>7
<1> QED BY <1>1, <1>2, <1>3, <1>5, <1>6, <1>9, <1>10, ForgetGoes DEF Step

LEMMA ReportForgottenKeeps == ASSUME IInv, NEW p \in Proc, ReportForgotten(p), Quiet PROVE IInv'
<1>1. SyncTarget /\ Return(p, "forgotten") /\ UNCHANGED reused BY DEF ReportForgotten
<1>2. "forgotten" \in Outcomes \ {"retired"} /\ CallType BY HolderFacts DEF Outcomes
<1>3. \A q \in Proc : outcome'[q] = "retired" => outcome[q] = "retired"
  BY <1>1, <1>2, OtherOutcomes DEF Return
<1>4. History BY <1>1, <1>2, QuietHistory DEF CallType
<1>5. Recorded' /\ Aside BY <1>1, <1>3, <1>4, SyncTargetRecords
<1> QED BY <1>1, <1>2, <1>4, <1>5, Returns DEF Quiet

LEMMA RetainingKeeps == ASSUME IInv, NEW p \in Proc, Retaining(p), Quiet PROVE IInv'
  BY StageTombKeeps, FillTombKeeps, CommitTombKeeps, ConfirmTombKeeps, PruneOpensKeeps, StripKeeps,
     EraseOpensKeeps, EraseKeeps, VanishKeeps, LookAgainKeeps, UnmarkKeeps, ReportForgottenKeeps DEF Retaining

-----------------------------------------------------------------------------
(* A retention command begins, and a forget takes the lock.                *)

LEMMA StartRetentionKeeps ==
  ASSUME IInv, NEW p \in Proc, StartRetention(p), UNCHANGED <<kind, late, changes>> PROVE IInv'
<1>1. /\ pc[p] = "idle" /\ outcome' = [outcome EXCEPT ![p] = "none"]
      /\ UNCHANGED <<lock, mark, trusts, reused>>
  BY DEF StartRetention
<1>2. /\ Recorded /\ Stored /\ CallType /\ Buries(p) /\ named[p] = 0 /\ "none" \in Outcomes \ {"retired"}
      /\ disk.gen \in Nat \ {0} /\ disk.erasing \in Nat /\ 0 \in 0..MaxIncarnations
  BY <1>1, HolderFacts, Generations, MaxIncarnationsAssumption
     DEF Buries, Burying, Forgetting, Recorded, Outcomes
<1>3. History BY <1>1, <1>2 DEF History, CallType
<1>4. \A q \in Proc : outcome'[q] = "retired" => outcome[q] = "retired"
  BY <1>1, <1>2, OtherOutcomes
<1>5. {"prune_open", "forget_open", "erase_open"} \subseteq Steps \ (Locked \cup {"idle"})
  BY DEF Steps, Locked, Unlocked, Holding, RetentionUnlocked, RetentionHolding
<1>6. ASSUME NEW step \in {"prune_open", "forget_open"}, pc' = [pc EXCEPT ![p] = step], UNCHANGED <<diskVars, named>>
      PROVE  IInv'
  <2>1. Recorded' /\ Aside BY <1>2, <1>3, <1>4, <1>6, StutterRecords, StutterAside
  <2>2. named' = [named EXCEPT ![p] = 0] BY <1>2, <1>6 DEF CallType
  <2>3. ASSUME pc'[p] = step, named'[p] = 0 PROVE Progress(p)'
    <3>1. Retires(p)' BY <2>3, RetainsNothing DEF RetentionUnlocked
    <3>2. Buries(p)' BY <2>3 DEF Buries, Burying
    <3>3. Erases(p)' BY <1>2, <1>6, <2>3 DEF Erases, Forgetting, diskVars
    <3> QED BY <3>1, <3>2, <3>3 DEF Progress
  <2> QED BY <1>1, <1>2, <1>3, <1>5, <1>6, <2>1, <2>2, <2>3, Starts
<1>7. CASE /\ disk.erasing # 0 /\ SyncTarget /\ pc' = [pc EXCEPT ![p] = "erase_open"]
           /\ named' = [named EXCEPT ![p] = disk.erasing]
  <2>1. Recorded' /\ Aside /\ disk' = disk BY <1>3, <1>4, <1>7, SyncTargetRecords
  <2>2. /\ disk.erasing \in 0..MaxIncarnations
        /\ disk.erasing < disk.gen \/ (disk.erasing = disk.gen /\ disk.root # "none")
    BY <1>2, StoredFacts, ImageFields DEF Beside
  <2>3. ASSUME pc'[p] = "erase_open", named'[p] = disk.erasing PROVE Progress(p)'
    <3>1. Retires(p)' BY <2>3, RetainsNothing DEF RetentionUnlocked
    <3>2. Buries(p)' BY <2>3, BehindIntent DEF Forgetting
    <3>3. Erases(p)' BY <1>2, <1>7, <2>1, <2>2, <2>3 DEF Erases
    <3> QED BY <3>1, <3>2, <3>3 DEF Progress
  <2> QED BY <1>1, <1>3, <1>5, <1>7, <2>1, <2>2, <2>3, Starts
<1> QED BY <1>6, <1>7 DEF StartRetention

LEMMA ForgetOpensKeeps ==
  ASSUME IInv, NEW p \in Proc, ForgetOpens(p), UNCHANGED <<kind, late, changes>> PROVE IInv'
<1>1. /\ pc[p] = "forget_open" /\ lock = Nobody /\ Lockable(disk) /\ Forgettable(disk)
      /\ lock' = p /\ named' = [named EXCEPT ![p] = disk.gen] /\ UNCHANGED <<mark, trusts, reused>>
  BY DEF ForgetOpens
<1>2. PICK step \in {"tomb", "erase"} :
        /\ Goto(p, step)
        /\ step = "tomb" => UNCHANGED diskVars
        /\ step = "erase" => disk.erasing = disk.gen /\ SyncTarget
  BY DEF ForgetOpens
<1>3. /\ Recorded /\ Stored /\ CallType /\ disk.root # "none" /\ disk.gen \in Nat \ {0}
      /\ disk.gen \in 0..MaxIncarnations
      /\ step \in RetentionHolding /\ step \in Locked /\ step \in Steps
  BY <1>1, HolderFacts, Generations, StoredFacts, MaxIncarnationsAssumption
     DEF Lockable, Recorded, RetentionHolding, Locked, Steps, Beside
<1>4. History BY <1>1, <1>3 DEF History, CallType
<1>5. outcome' = outcome /\ pc' = [pc EXCEPT ![p] = step] BY <1>2 DEF Goto
<1>6. /\ pc' \in [Proc -> Steps] /\ pc'[p] = step /\ \A q \in Proc \ {p} : pc'[q] = pc[q]
      /\ named' \in [Proc -> 0..MaxIncarnations] /\ named'[p] = disk.gen
      /\ \A q \in Proc \ {p} : named'[q] = named[q]
  BY <1>1, <1>3, <1>5 DEF CallType
<1>7. CallType' BY <1>1, <1>3, <1>4, <1>5, <1>6 DEF CallType, History
<1>8. Steady(p) BY <1>1, <1>6 DEF Steady, Same
<1>9. LockType' BY <1>1, <1>3, <1>6, <1>8, LockKeeps DEF LockStep
<1>10. Recorded' /\ Forward
  <2>1. CASE step = "tomb"
    BY <1>2, <1>3, <1>4, <1>5, <2>1, StutterRecords, StutterAside, AsideIsForward
  <2>2. CASE step = "erase" BY <1>2, <1>4, <1>5, <2>2, SyncTargetRecords
  <2> QED BY <2>1, <2>2
<1>11. Progress(p)'
  <2>1. Retires(p)' BY <1>3, <1>6, RetainsNothing
  <2>2. CASE step = "tomb"
    <3>1. disk.tomb.marks = "complete" /\ disk.tomb.pending \in {"none", "forget"}
      BY <1>1 DEF Forgettable, Tombstone
    <3>2. Buries(p)' BY <1>2, <1>3, <1>6, <2>2, <3>1 DEF Buries, Burying, Target, diskVars
    <3>3. Erases(p)' BY <1>2, <1>3, <1>6, <2>2 DEF Erases, Forgetting, diskVars
    <3> QED BY <2>1, <3>2, <3>3 DEF Progress
  <2>3. CASE step = "erase"
    <3>1. disk' = disk /\ \A s \in surviving' : s.gen = disk.gen /\ s.erasing = disk.erasing
      BY <1>2, <1>4, <1>5, <2>3, SyncTargetRecords
    <3>2. Buries(p)' BY <1>6, <2>3, BehindIntent DEF Forgetting
    <3>3. Erases(p)' BY <1>2, <1>3, <1>6, <2>3, <3>1 DEF Erases
    <3> QED BY <2>1, <3>2, <3>3 DEF Progress
  <2> QED BY <2>2, <2>3
<1>12. \A q \in Proc \ {p} : Progress(q)'
  BY <1>1, <1>8, <1>10, OthersFree, FreeKeeps DEF Steady, Recorded
<1> QED BY <1>7, <1>9, <1>10, <1>11, <1>12 DEF IInv, Recorded

-----------------------------------------------------------------------------
(* What may go wrong around an invocation.                                 *)

LEMMA PowerLossKeeps == ASSUME IInv, PowerLoss, Apart PROVE IInv'
<1>1. /\ disk' \in surviving /\ surviving' = {disk'} /\ lock' = Nobody
      /\ pc' = [p \in Proc |-> "idle"] /\ mark' = [p \in Proc |-> NoMarker]
      /\ trusts' = [p \in Proc |-> FALSE] /\ outcome' = [p \in Proc |-> "none"]
      /\ UNCHANGED <<kind, reused, changes>>
  BY DEF PowerLoss
<1>2. Recorded /\ CallType BY HolderFacts
<1>3. Stored' BY <1>1, <1>2, LossStored DEF Recorded
<1>4. SealedEverywhere => SealedEverywhere' BY <1>1 DEF SealedEverywhere
<1>5. Recorded' BY <1>1, <1>2, <1>3, <1>4, RecordsKeep
<1>6. named' = [p \in Proc |-> 0] BY <1>1 DEF Apart, Unname
<1>7. CallType'
  BY <1>1, <1>2, <1>6, MarkersDiffer, MaxIncarnationsAssumption
     DEF CallType, Apart, Steps, Unlocked, Outcomes
<1>8. LockType' BY <1>1, NobodyAssumption DEF LockType, Locked, Holding, RetentionHolding
<1>9. \A p \in Proc : Progress(p)' BY <1>1, <1>3, <1>6, IdleKeeps
<1> QED BY <1>5, <1>7, <1>8, <1>9 DEF IInv, Recorded

LEMMA StopKeeps == ASSUME IInv, NEW p \in Proc, Stop(p), Apart PROVE IInv'
  BY ReturnsQuietly DEF Stop

\* Somebody else changes a name: it stays away where its deletion is recorded.
LEMMA InterfereKeeps == ASSUME IInv, Interfere, Apart PROVE IInv'
<1>1. /\ changes < MaxChanges /\ changes' = changes + 1
      /\ UNCHANGED <<kind, lock, pc, mark, trusts, outcome, reused>>
  BY DEF Interfere, callVars
<1>2. PICK i \in 1..Files, to \in Names : <<disk.name[i], to>> \in Changes /\ PutName(i, to)
  BY DEF Interfere
<1>3. Recorded /\ Stored /\ CallType /\ disk \in surviving BY HolderFacts DEF Recorded
<1>4. disk.name[i] \in Away => to \in Away BY <1>2 DEF Changes, Away
<1>5. /\ Writes({"name"})
      /\ \A s \in surviving' : \E j \in surviving :
           /\ s.log = j.log /\ (s.name[i] = to \/ s.name[i] = j.name[i])
           /\ \A k \in 1..Files : k # i => s.name[k] = j.name[k]
  BY <1>2, <1>3, PutNameShape
<1>6. Stored' /\ (SealedEverywhere => SealedEverywhere') BY <1>3, <1>5, PlainStored
<1>7. \A k \in 1..Files :
        (\A j \in surviving : j.name[k] \in Away) => \A s \in surviving' : s.name[k] \in Away
  <2>1. SUFFICES ASSUME NEW k \in 1..Files, \A j \in surviving : j.name[k] \in Away, NEW s \in surviving'
                 PROVE  s.name[k] \in Away
    OBVIOUS
  <2> QED BY <1>3, <1>4, <1>5, <2>1
<1>8. Deletions'
  <2>1. SUFFICES ASSUME NEW s \in surviving', NEW t \in surviving', NEW k \in 1..s.log.deleted
                 PROVE  t.name[k] \in Away
    BY DEF Deletions
  <2>2. PICK j \in surviving : s.log = j.log BY <1>5
  <2>3. k \in 1..Files BY <1>3, <2>2, StoredFacts, ImageFields, FilesAssumption DEF Logs
  <2>4. \A u \in surviving : u.name[k] \in Away BY <1>3, <2>2 DEF Recorded, Deletions
  <2> QED BY <1>7, <2>3, <2>4
<1>9. changes' # 0 /\ changes' \in 0..MaxChanges BY <1>1, <1>3, MaxChangesAssumption DEF CallType
<1>10. (\A j \in surviving : j.log.done) => \A s \in surviving' : s.log.done BY <1>5
<1>11. Accounts' BY <1>1, <1>3, <1>6, <1>9, <1>10 DEF Recorded, Accounts
<1>12. Recorded' BY <1>6, <1>8, <1>11 DEF Recorded
<1>13. Aside
  <2>1. /\ disk'.root = disk.root /\ disk'.log = disk.log /\ disk'.tomb = disk.tomb /\ disk'.gen = disk.gen
        /\ disk'.erasing = disk.erasing
        /\ \A s \in surviving' : \E j \in surviving :
             s.log = j.log /\ s.tomb = j.tomb /\ s.gen = j.gen /\ s.erasing = j.erasing
    BY <1>5 DEF Writes, Keeps
  <2> QED BY <1>7, <2>1 DEF Aside
<1>14. named' = named
  BY <1>1, <1>3, HolderFacts DEF Apart, Unname, CallType, Buries, Burying, Forgetting
<1>15. CallType' BY <1>1, <1>3, <1>9, <1>14 DEF CallType, Apart
<1>16. LockType' BY <1>1 DEF IInv, LockType
<1>17. \A p \in Proc : Progress(p)' BY <1>1, <1>6, <1>13, <1>14, AsideKeeps DEF Same
<1> QED BY <1>12, <1>15, <1>16, <1>17 DEF IInv, Recorded

-----------------------------------------------------------------------------
(* Together.                                                               *)

\* Run and resume end with nothing under the name of a forget.
LEMMA RetiringUnnames ==
  ASSUME IInv, NEW p \in Proc, StartBelow(p) \/ RetiringBeside(p), UNCHANGED named PROVE Unname
<1>1. CallType /\ Buries(p) BY HolderFacts
<1>2. pc[p] \in Unlocked \cup Holding
  BY DEF StartBelow, Start, RetiringBeside, RefuseRetained, BoundedRetiring, Retiring,
         Review, CheckControl, Initialize, MakeTree, WriteIntent, Open, Bind, Pass, Present, Absent,
         Recover, Unlink, ConfirmUnlink, Finish, FindComplete, Stage, Fill, Rename, Confirm, Unlocked, Holding
<1>3. named[p] = 0 BY <1>1, <1>2 DEF Buries, Burying, Forgetting, Unlocked, Holding
<1>4. \E step : pc' = [pc EXCEPT ![p] = step]
  <2>1. StartBelow(p) \/ RefuseRetained(p) => \E step : pc' = [pc EXCEPT ![p] = step]
    BY DEF StartBelow, Start, RefuseRetained, Return
  <2>2. Review(p) \/ CheckControl(p) \/ Initialize(p) \/ MakeTree(p) \/ WriteIntent(p) \/ Open(p)
          => \E step : pc' = [pc EXCEPT ![p] = step]
    BY DEF Review, CheckControl, Initialize, MakeTree, WriteIntent, Open, Goto, Return
  <2>3. Bind(p) \/ Pass(p) \/ Present(p) \/ Absent(p) \/ Recover(p) \/ Unlink(p) \/ ConfirmUnlink(p)
          => \E step : pc' = [pc EXCEPT ![p] = step]
    BY DEF Bind, Pass, Present, Absent, Recover, Unlink, ConfirmUnlink, Goto, Write
  <2>4. Finish(p) \/ FindComplete(p) \/ Stage(p) \/ Fill(p) \/ Rename(p)
          => \E step : pc' = [pc EXCEPT ![p] = step]
    BY DEF Finish, FindComplete, Stage, Fill, Rename, Goto, Return, Write
  <2>5. Confirm(p) => \E step : pc' = [pc EXCEPT ![p] = step]
    BY DEF Confirm, Continue, Goto, Return
  <2> QED BY <2>1, <2>2, <2>3, <2>4, <2>5 DEF RetiringBeside, BoundedRetiring, Retiring
<1>5. \A q \in Proc \ {p} : pc'[q] = pc[q] BY <1>1, <1>4 DEF CallType
<1>6. \A q \in Proc : pc[q] = "idle" => named[q] = 0 BY HolderFacts DEF Buries, Burying, Forgetting
<1>7. \A q \in Proc : pc'[q] = "idle" => named[q] = 0 BY <1>3, <1>5, <1>6
<1> QED BY <1>1, <1>7 DEF Unname, CallType

LEMMA InitKeeps == ASSUME Init PROVE IInv
<1>1. disk = Reviewed /\ surviving = {Reviewed} BY DEF Init
<1>2. /\ Reviewed \in Images /\ Reviewed.root = "none" /\ Reviewed.gen = 1 /\ Reviewed.erasing = 0
      /\ Reviewed.log = NoLog /\ Reviewed.tomb.marks = "none" /\ Reviewed.tomb.pending = "none"
      /\ \A i \in 1..Files : Reviewed.name[i] = "ours"
  BY MarkersDiffer, FilesAssumption, MaxIncarnationsAssumption
     DEF Reviewed, Images, NoLog, Logs, NoScratch, Scratch, NoTomb, Tombs, Names
<1>3. Stored BY <1>1, <1>2 DEF Stored, Beside
<1>4. Deletions BY <1>1, <1>2 DEF Deletions, NoLog
<1>5. Attempts BY <1>1, <1>2 DEF Attempts
<1>6. Accounts BY <1>5 DEF Init, Accounts
<1>7. CallType
  <2>1. /\ kind \in Kinds /\ pc \in [Proc -> Steps] /\ mark \in [Proc -> Markers]
        /\ outcome \in [Proc -> Outcomes] /\ named \in [Proc -> 0..MaxIncarnations]
        /\ changes \in 0..MaxChanges
    BY MarkersDiffer, MaxIncarnationsAssumption, MaxChangesAssumption
       DEF Init, Steps, Unlocked, Outcomes
  <2>2. trusts \in [Proc -> BOOLEAN] /\ reused \in BOOLEAN /\ late \in BOOLEAN BY DEF Init
  <2> QED BY <2>1, <2>2 DEF CallType
<1>8. LockType BY NobodyAssumption DEF Init, LockType, Locked, Holding, RetentionHolding
<1>9. ASSUME NEW p \in Proc PROVE Progress(p)
  <2>1. pc[p] = "idle" /\ named[p] = 0 /\ mark[p] = NoMarker BY DEF Init
  <2> QED BY <1>1, <1>2, <2>1
          DEF Progress, Retires, Buries, Erases, Begun, Marking, Burying, Forgetting
<1> QED BY <1>3, <1>4, <1>6, <1>7, <1>8, <1>9 DEF IInv

LEMMA NextKeeps == ASSUME IInv, [Next]_retentionVars PROVE IInv'
<1>1. ASSUME NEW p \in Proc, StartBelow(p) \/ RetiringBeside(p), Belated, UNCHANGED named PROVE IInv'
  <2>1. Unname BY <1>1, RetiringUnnames
  <2>2. late' \in BOOLEAN BY <1>1, HolderFacts DEF Belated, CallType
  <2> QED BY <1>1, <2>1, <2>2, StartKeeps, RetiringKeeps DEF Apart, StartBelow
<1>2. ASSUME NEW p \in Proc, Retaining(p), Unname, UNCHANGED <<kind, late, changes>> PROVE IInv'
  BY <1>2, RetainingKeeps DEF Quiet
<1>3. ASSUME NEW p \in Proc, StartRetention(p) \/ ForgetOpens(p), UNCHANGED <<kind, late, changes>>
      PROVE  IInv'
  BY <1>3, StartRetentionKeeps, ForgetOpensKeeps
<1>4. ASSUME PowerLoss \/ BoundedInterfere \/ \E p \in Proc : Stop(p), Unname, UNCHANGED late PROVE IInv'
  <2>1. Apart BY <1>4, HolderFacts DEF Apart, CallType
  <2> QED BY <1>4, <2>1, PowerLossKeeps, InterfereKeeps, StopKeeps DEF BoundedInterfere
<1>5. CASE UNCHANGED retentionVars
  <2>1. /\ UNCHANGED diskVars /\ UNCHANGED <<kind, lock, pc, mark, trusts, outcome, reused, changes, named, late>>
    BY <1>5 DEF retentionVars, vars, diskVars, callVars
  <2>2. History BY <2>1, HolderFacts DEF History, CallType
  <2>3. Recorded' /\ Aside BY <2>1, <2>2, HolderFacts, StutterRecords, StutterAside DEF Recorded
  <2>4. \A p \in Proc : Progress(p)' BY <2>1, <2>3, AsideKeeps DEF Same, Recorded
  <2>5. CallType' /\ LockType' BY <2>1 DEF IInv, CallType, LockType
  <2> QED BY <2>3, <2>4, <2>5 DEF IInv, Recorded
<1> QED BY <1>1, <1>2, <1>3, <1>4, <1>5 DEF Next

LEMMA InvariantHolds == Spec => []IInv
<1>1. Init => IInv BY InitKeeps
<1>2. IInv /\ [Next]_retentionVars => IInv' BY NextKeeps
<1> QED BY <1>1, <1>2, PTL DEF Spec

\* Every variable stays within the sets that the code's types and constants give.
THEOREM RetireTypeCorrect == Spec => []TypeOK
<1>1. IInv => TypeOK
  <2>1. SUFFICES ASSUME IInv PROVE TypeOK OBVIOUS
  <2>2. disk \in Images /\ disk \in surviving /\ surviving \subseteq Images
    BY <2>1, HolderFacts, StoredFacts DEF Recorded
  <2>3. Steps = Unlocked \cup Holding \cup RetentionUnlocked \cup RetentionHolding BY DEF Steps, Locked
  <2>4. CallType /\ LockType BY <2>1 DEF IInv
  <2>5. \A p \in Proc : pc[p] \in Holding \cup RetentionHolding <=> lock = p BY <2>4 DEF LockType, Locked
  <2> QED BY <2>2, <2>3, <2>4, <2>5 DEF TypeOK, CallType, LockType, Outcomes
<1> QED BY <1>1, InvariantHolds, PTL

-----------------------------------------------------------------------------
(* Removals are honest.                                                    *)

LEMMA HonestRecords == ASSUME IInv PROVE Honest
<1>1. Recorded BY HolderFacts
<1>2. SUFFICES ASSUME NEW j \in surviving
               PROVE  /\ \A i \in 1..j.log.deleted : j.name[i] \notin {"ours", "filled"}
                      /\ \A p \in Proc : outcome[p] = "retired" => Ended(j)
                      /\ changes = 0 /\ ~reused =>
                           \A i \in 1..Files : j.name[i] = "none" => i <= j.log.attempted \/ Ended(j)
  BY DEF Honest
<1>3. \A i \in 1..j.log.deleted : j.name[i] \notin {"ours", "filled"}
  BY <1>1 DEF Recorded, Deletions, Away
<1>4. Closed(j) \/ j.log.done => Ended(j) BY DEF Closed, Ended
<1>5. SealedEverywhere => Closed(j) BY DEF SealedEverywhere
<1>6. \A p \in Proc : outcome[p] = "retired" => Ended(j) BY <1>1, <1>4, <1>5 DEF Recorded, Accounts
<1>7. Attempts => \A i \in 1..Files : j.name[i] = "none" => i <= j.log.attempted \/ j.log.done
  BY DEF Attempts
<1>8. changes = 0 /\ ~reused =>
        \A i \in 1..Files : j.name[i] = "none" => i <= j.log.attempted \/ Ended(j)
  BY <1>1, <1>4, <1>5, <1>7 DEF Recorded, Accounts
<1> QED BY <1>3, <1>6, <1>8

\* What only a removal does to a name: all other steps of an invocation leave them.
LEMMA OthersNames ==
  ASSUME disk \in Images, NEW part \in Writable, NEW value, Put(part, value) \/ PutDurably(part, value)
  PROVE  disk'.name = disk.name
<1>1. disk' = [disk EXCEPT ![part] = value] BY DEF Put, PutDurably
<1> QED BY <1>1 DEF Images, Writable

LEMMA RetiringNames ==
  ASSUME IInv, NEW p \in Proc, StartBelow(p) \/ RetiringBeside(p)
  PROVE  disk'.name = disk.name \/ Unlink(p)
<1>1. disk \in Images BY HolderFacts
<1>2. \A part \in Writable : \A value : Put(part, value) \/ PutDurably(part, value) => disk'.name = disk.name
  BY <1>1, OthersNames
<1>3. {"root", "pending"} \subseteq Writable BY DEF Writable
<1>4. StartBelow(p) \/ RefuseRetained(p) \/ Review(p) \/ CheckControl(p) \/ Open(p) \/ Bind(p) \/ Pass(p)
        \/ Present(p) \/ Absent(p) \/ Recover(p) \/ ConfirmUnlink(p) \/ Finish(p) \/ FindComplete(p) \/ Confirm(p)
        => disk' = disk
  BY DEF StartBelow, Start, RefuseRetained, Review, CheckControl, Open, Bind, Pass, Present, Absent, Recover,
         ConfirmUnlink, Finish, FindComplete, Confirm, SyncJournal, Sync, SyncName, diskVars
<1>5. MakeTree(p) \/ WriteIntent(p) \/ Stage(p) \/ Fill(p) => disk'.name = disk.name
  BY <1>2, <1>3 DEF MakeTree, WriteIntent, Stage, Fill, diskVars
<1>6. Initialize(p) => disk'.name = disk.name BY <1>1 DEF Initialize, MakeRoot, diskVars, Images
<1>7. Rename(p) => disk'.name = disk.name BY <1>1 DEF Rename, Images
<1> QED BY <1>4, <1>5, <1>6, <1>7 DEF RetiringBeside, BoundedRetiring, Retiring

LEMMA RetainingNames ==
  ASSUME IInv, NEW p \in Proc, Retaining(p) \/ StartRetention(p) \/ ForgetOpens(p)
  PROVE  disk'.name = disk.name
<1>1. disk \in Images BY HolderFacts
<1>2. \A part \in Writable : \A value : Put(part, value) \/ PutDurably(part, value) => disk'.name = disk.name
  BY <1>1, OthersNames
<1>3. Writable = {"root", "log", "pending", "tomb", "erasing"} BY DEF Writable
<1>4. ConfirmTomb(p) \/ PruneOpens(p) \/ Vanish(p) \/ LookAgain(p) \/ ReportForgotten(p)
        \/ StartRetention(p) \/ ForgetOpens(p) => disk' = disk
  BY DEF ConfirmTomb, PruneOpens, Vanish, LookAgain, ReportForgotten, StartRetention, ForgetOpens,
         SyncTarget, SyncTomb, Sync, Read, diskVars
<1>5. StageTomb(p) \/ Strip(p) \/ Unmark(p) => disk'.name = disk.name
  BY <1>2, <1>3 DEF StageTomb, Strip, Unmark, Read, diskVars
<1>6. FillTomb(p) => disk'.name = disk.name BY <1>1 DEF FillTomb, Images
<1>7. CommitTomb(p) => disk'.name = disk.name BY <1>1, <1>2, <1>3 DEF CommitTomb, Images
<1>8. Vanishes => disk'.name = disk.name BY <1>1 DEF Vanishes, Images
<1>9. EraseOpens(p) \/ Erase(p) => disk'.name = disk.name
  BY <1>2, <1>3, <1>8 DEF EraseOpens, Erase, SyncTarget, Sync
<1> QED BY <1>4, <1>5, <1>6, <1>7, <1>9 DEF Retaining

\* Which steps report the end of a prune or of a forget.
Silent == \A q \in Proc : ~Reports(q, "pruned") /\ ~Reports(q, "forgotten")

LEMMA GoesSilently ==
  ASSUME IInv, NEW p \in Proc, NEW step, step # "idle", pc' = [pc EXCEPT ![p] = step] PROVE Silent
<1>1. \A q \in Proc : pc[q] # "idle" => pc'[q] # "idle" BY HolderFacts DEF CallType
<1> QED BY <1>1 DEF Silent, Reports

LEMMA ReturnsSilently ==
  ASSUME IInv, NEW p \in Proc, NEW o \in {"none", "retired", "already"}, Return(p, o) PROVE Silent
<1>1. pc' = [pc EXCEPT ![p] = "idle"] /\ outcome' = [outcome EXCEPT ![p] = o] BY DEF Return
<1>2. \A q \in Proc : (pc[q] # "idle" => pc'[q] # "idle") \/ outcome'[q] = o
  BY <1>1, HolderFacts DEF CallType
<1> QED BY <1>2 DEF Silent, Reports

LEMMA RetiringSilently ==
  ASSUME IInv, NEW p \in Proc, StartBelow(p) \/ RetiringBeside(p) PROVE Silent
<1>1. \A step : step # "idle" /\ pc' = [pc EXCEPT ![p] = step] => Silent BY GoesSilently
<1>2. \A o \in {"none", "retired", "already"} : Return(p, o) => Silent BY ReturnsSilently
<1>3. StartBelow(p) \/ RefuseRetained(p) => Silent BY <1>1, <1>2 DEF StartBelow, Start, RefuseRetained
<1>4. Review(p) \/ CheckControl(p) \/ Initialize(p) \/ MakeTree(p) \/ WriteIntent(p) => Silent
  BY <1>1 DEF Review, CheckControl, Initialize, MakeTree, WriteIntent, Goto
<1>5. Open(p) \/ Bind(p) \/ Pass(p) \/ Present(p) \/ Absent(p) => Silent
  BY <1>1, <1>2 DEF Open, Bind, Pass, Present, Absent, Goto, Write
<1>6. Recover(p) \/ Unlink(p) \/ ConfirmUnlink(p) \/ Finish(p) \/ FindComplete(p) => Silent
  BY <1>1, <1>2 DEF Recover, Unlink, ConfirmUnlink, Finish, FindComplete, Goto, Write
<1>7. Stage(p) \/ Fill(p) \/ Rename(p) => Silent BY <1>1 DEF Stage, Fill, Rename, Goto
<1>8. Confirm(p) => Silent
  <2>1. mark[p] \in Markers BY HolderFacts DEF CallType
  <2>2. mark[p] \in {Complete, NoMarker, Attempt} \/ mark[p].dest = "deleted"
    BY <2>1 DEF Markers, NoMarker, Attempt, Complete
  <2>3. Confirm(p) => Return(p, "retired") \/ \E step \in {"pass", "unlink", "next"} : Goto(p, step)
    BY <2>2, MarkersDiffer DEF Confirm, Continue
  <2> QED BY <1>1, <1>2, <2>3 DEF Goto
<1> QED BY <1>3, <1>4, <1>5, <1>6, <1>7, <1>8 DEF RetiringBeside, BoundedRetiring, Retiring

\* What a prune and a forget report survives.
ReportsStay ==
  \A p \in Proc, j \in surviving' :
    /\ Reports(p, "pruned") => Retained(j)
    /\ Reports(p, "forgotten") => j.gen # named[p] /\ j.erasing # named[p]

LEMMA RetainingReports ==
  ASSUME IInv, NEW p \in Proc, Retaining(p) \/ StartRetention(p) \/ ForgetOpens(p) PROVE ReportsStay
<1>1. \A step : step # "idle" /\ pc' = [pc EXCEPT ![p] = step] => Silent BY GoesSilently
<1>2. Silent => ReportsStay BY DEF Silent, ReportsStay
<1>3. StartRetention(p) \/ ForgetOpens(p) => Silent BY <1>1 DEF StartRetention, ForgetOpens, Goto
<1>4. StageTomb(p) \/ FillTomb(p) \/ CommitTomb(p) \/ Strip(p) => Silent
  BY <1>1 DEF StageTomb, FillTomb, CommitTomb, Strip, Read, Step, Goto
<1>5. EraseOpens(p) \/ Erase(p) \/ Vanish(p) \/ LookAgain(p) \/ Unmark(p) => Silent
  BY <1>1 DEF EraseOpens, Erase, Vanish, LookAgain, Unmark, Read, Step, Goto
<1>6. Stored /\ Buries(p) /\ Erases(p) /\ disk \in surviving /\ CallType BY HolderFacts DEF Recorded
<1>7. ASSUME SyncTomb, Return(p, "pruned"), Retained(disk) PROVE ReportsStay
  <2>1. \A s \in surviving' : s.root = disk.root /\ s.tomb = disk.tomb
    BY <1>6, <1>7, SyncTombStored DEF Retained, Tombstone
  <2>2. \A s \in surviving' : Retained(s) BY <1>7, <2>1 DEF Retained, Tombstone
  <2>3. \A q \in Proc : ~Reports(q, "forgotten")
    <3>1. pc' = [pc EXCEPT ![p] = "idle"] /\ outcome' = [outcome EXCEPT ![p] = "pruned"] BY <1>7 DEF Return
    <3> QED BY <1>6, <3>1 DEF CallType, Reports
  <2> QED BY <2>2, <2>3 DEF ReportsStay
<1>8. ConfirmTomb(p) => ReportsStay
  <2>1. SUFFICES ASSUME ConfirmTomb(p), SyncTomb, Return(p, "pruned"), named[p] = 0, disk.tomb.marks = "complete"
                 PROVE  ReportsStay
    BY <1>1, <1>2 DEF ConfirmTomb, Step, Goto
  <2>2. Retained(disk) BY <1>6, <2>1 DEF ConfirmTomb, Buries, Retained, Tombstone
  <2> QED BY <1>7, <2>1, <2>2
<1>9. PruneOpens(p) => ReportsStay BY <1>1, <1>2, <1>7 DEF PruneOpens, Goto
<1>10. ReportForgotten(p) => ReportsStay
  <2>1. SUFFICES ASSUME ReportForgotten(p) PROVE ReportsStay OBVIOUS
  <2>2. /\ pc[p] = "report" /\ SyncTarget
        /\ pc' = [pc EXCEPT ![p] = "idle"] /\ outcome' = [outcome EXCEPT ![p] = "forgotten"]
    BY <2>1 DEF ReportForgotten, Return
  <2>3. \A q \in Proc : ~Reports(q, "pruned") /\ (Reports(q, "forgotten") => q = p)
    BY <1>6, <2>2 DEF CallType, Reports
  <2>4. \A s \in surviving' : s.gen = disk.gen /\ s.erasing = disk.erasing BY <1>6, <2>2, SyncTargetStored
  <2>5. named[p] < disk.gen /\ disk.erasing # named[p] /\ disk.gen \in Nat
    BY <1>6, <2>2, Generations DEF Erases
  <2> QED BY <2>3, <2>4, <2>5 DEF ReportsStay
<1> QED BY <1>2, <1>3, <1>4, <1>5, <1>8, <1>9, <1>10 DEF Retaining

\* One step: its records, the names, its report.
HonestStep ==
  /\ Honest'
  /\ \A i \in 1..Files : disk.name[i] \in {"other", "filled"} /\ disk'.name[i] = "none"
       => Interfere \/ PowerLoss
  /\ \A p \in Proc, j \in surviving' :
       /\ Reports(p, "pruned") => Retained(j)
       /\ Reports(p, "forgotten") => j.gen # named[p] /\ j.erasing # named[p]

LEMMA StepsHonest == ASSUME IInv, Next PROVE HonestStep
<1>1. IInv' BY NextKeeps
<1>2. Honest' BY <1>1, HonestRecords, PTL
<1>3. disk \in Images BY HolderFacts
<1>4. \A i \in 1..Files : disk.name[i] \in {"other", "filled"} /\ disk'.name[i] = "none" => Interfere \/ PowerLoss
  <2>1. SUFFICES ASSUME NEW i \in 1..Files, disk.name[i] \in {"other", "filled"}, disk'.name[i] = "none",
                        ~Interfere, ~PowerLoss
                 PROVE  FALSE
    OBVIOUS
  <2>2. PICK p \in Proc : \/ StartBelow(p) \/ RetiringBeside(p) \/ Retaining(p)
                          \/ StartRetention(p) \/ ForgetOpens(p) \/ Stop(p)
    BY <2>1 DEF Next, BoundedInterfere
  <2>3. disk'.name # disk.name BY <2>1
  <2>4. Unlink(p)
    BY <2>2, <2>3, RetiringNames, RetainingNames DEF Stop, diskVars
  <2>5. disk.name[Upcoming] = "ours" /\ PutName(Upcoming, "none")
    BY <2>3, <2>4 DEF Unlink, diskVars
  <2>6. Upcoming \in 1..Files
    BY <2>4, HolderFacts, NextName DEF Unlink, Retires
  <2>7. \A k \in 1..Files : k # Upcoming => disk'.name[k] = disk.name[k]
    BY <2>5, <2>6, PutNameShape, HolderFacts DEF Recorded, Names
  <2> QED BY <2>1, <2>5, <2>7
<1>5. ReportsStay
  <2>1. Silent => ReportsStay BY DEF Silent, ReportsStay
  <2>2. PowerLoss \/ Interfere => Silent
    BY DEF PowerLoss, Interfere, callVars, Silent, Reports
  <2>3. \A p \in Proc : Stop(p) => Silent BY ReturnsSilently DEF Stop
  <2> QED BY <2>1, <2>2, <2>3, RetiringSilently, RetainingReports DEF Next, BoundedInterfere
<1> QED BY <1>2, <1>4, <1>5 DEF HonestStep, ReportsStay

\* Every record of a removal is honest after every step, whatever a power loss
\* leaves; nothing but what was reviewed is removed; and what prune and forget
\* report is durable.
THEOREM RemovalsHonest == Spec => RemovalsAreHonest
<1>1. IInv /\ [Next]_retentionVars => [HonestStep]_retentionVars BY StepsHonest
<1>2. Spec => [][HonestStep]_retentionVars BY <1>1, InvariantHolds, PTL DEF Spec
<1> QED BY <1>2 DEF RemovalsAreHonest, HonestStep

-----------------------------------------------------------------------------
(* Only named causes block.  While nobody changes a name, builds on markers *)
(* that are not durable or comes late to a tombstone, every image is close  *)
(* to the disk: on the way to the same end, in the same burial, or behind   *)
(* the same forget (Behind).                                                *)

\* None of the named causes that are histories, and the first incarnation.
Undisturbed == changes = 0 /\ ~reused /\ ~late /\ \E j \in surviving : j.gen = 1

Plain == \A k \in surviving : \A i \in 1..Files : k.name[i] \in {"ours", "none"}
Vacant(i, all) == \A k \in all : k.name[i] = "none"

Ordered(log) == log.attempted \in log.deleted..(log.deleted + 1) /\ (log.done => log.deleted = Files)

\* The scratch is empty or is that of a marker which this journal may get next.
Suits(scratch, log, all) ==
  \/ scratch = NoScratch
  \/ /\ ~log.done
     /\ \/ scratch.marker = Attempt /\ log.deleted < Files /\ log.attempted = log.deleted
        \/ scratch.marker = Complete /\ log.deleted = Files
        \/ /\ scratch.marker = Deleted("recovered") /\ log.deleted < Files /\ log.attempted > log.deleted
           /\ Vacant(log.deleted + 1, all)
        \/ scratch.marker = Deleted("confirmed")

\* An image without a tombstone or a root intent, ...
Running(j, all) ==
  /\ j.tomb = NoTomb /\ j.erasing = 0
  /\ j.root \in {"none", "bare", "kept", "tree", "intent"}
  /\ j.root \in {"none", "bare", "kept"} => j.log = NoLog /\ j.pending = NoScratch
  /\ Ordered(j.log) /\ Suits(j.pending, j.log, all)

\* ... with a tombstone, ...
Laid(tomb, root) ==
  \/ tomb.marks = "dir" /\ tomb.pending \in {"none", "intent"} /\ root = "intent"
  \/ /\ tomb.marks = "intent" /\ tomb.pending \in {"none", "complete"}
     /\ root \in {"intent", "noscratch", "headless", "kept"}
  \/ tomb.marks = "complete" /\ tomb.pending \in {"none", "forget"} /\ root = "kept"

Burial(j) ==
  /\ j.erasing = 0 /\ j.pending = NoScratch /\ Laid(j.tomb, j.root)
  /\ j.root = "intent" => j.log.done /\ Ordered(j.log)

\* ... and with a root intent that names its directory.
Forgotten(j) ==
  /\ j.erasing = j.gen /\ j.tomb.pending \in {"none", "complete"}
  /\ j.root \in {"kept", "bare"}
  /\ j.tomb.marks = "none" \/ j.root = "bare" => j.tomb = NoTomb

Begins(d) == d.gen = 1 /\ d.erasing = 0 /\ d.tomb.marks = "none"
Sealing(d) == d.gen = 1 /\ d.erasing = 0 /\ d.tomb.marks # "none"
Erasing(d) == d.gen = 1 /\ d.erasing = 1

\* An image of the first incarnation beside the visible disk d.
Behind(j, d, all) ==
  \/ Begins(d) /\ Running(j, all) /\ (j.root = d.root \/ (j.root = "tree" /\ d.root = "intent"))
  \/ Sealing(d) /\ Burial(j) /\ j.root = d.root /\ j.log = d.log
  \/ /\ Erasing(d)
     /\ \/ Burial(j) /\ j.root = "kept" /\ d.root = "kept" /\ d.tomb.marks # "none"
        \/ Forgotten(j) /\ (d.root = "kept" => j.root = "kept") /\ (d.tomb.marks = "none" => j.tomb = NoTomb)
  \/ d.gen > 1 /\ Forgotten(j) /\ j.tomb = NoTomb

\* While the intent of the journal may be lost, so may all of its markers.
Rooted ==
  Begins(disk) => (\A j \in surviving : j.root = disk.root) \/ \E k \in surviving : k.log = NoLog

Sound == (\A j \in surviving : j.gen = 1 => Behind(j, disk, surviving)) /\ Plain /\ Rooted

\* What an invocation of run or resume relies on, ...
Runs(p) ==
  /\ pc[p] \in {"review", "control", "init", "tree", "intent"} /\ disk.root = "tree" => disk.log = NoLog
  /\ pc[p] = "intent" => disk.root \in {"tree", "intent"}
  /\ pc[p] \in Begun \cup {"confirm"} => disk.root = "intent"
  /\ pc[p] = "next" \/ (pc[p] = "confirm" /\ mark[p].dest = "deleted") => ~disk.log.done
  /\ pc[p] \in Marking =>
       /\ mark[p] = Complete => disk.log.deleted = Files /\ ~disk.log.done
       /\ mark[p].dest = "deleted" => disk.log.attempted > disk.log.deleted
  /\ pc[p] = "fill" => ~trusts[p]

\* ... and one of prune or forget.
Ends(p) ==
  /\ pc[p] \in Burying =>
       IF named[p] = 0
       THEN disk.tomb.marks \in {"none", "dir"} => disk.erasing = 0 /\ disk.root = "intent" /\ disk.log.done
       ELSE disk.erasing = 0
  /\ pc[p] = "erase_open" /\ named[p] = 1 => disk.erasing = 1

Courses == \A p \in Proc : Runs(p) /\ Ends(p)

\* A step without a disturbance.
Calmly == IInv /\ IInv' /\ Undisturbed /\ Undisturbed' /\ Sound /\ Courses

LEMMA CalmFacts ==
  ASSUME Calmly
  PROVE  /\ Recorded /\ Stored /\ Stored' /\ CallType /\ disk \in surviving /\ disk' \in surviving'
         /\ disk \in Images /\ disk' \in Images /\ disk.log \in Logs /\ disk.tomb \in Tombs
         /\ \A j \in surviving : j \in Images /\ (j.gen = 1 => Behind(j, disk, surviving))
         /\ \A s \in surviving' : s \in Images
         /\ disk.root # "none" => disk.gen = 1 /\ \A j \in surviving : j.gen = 1
         /\ disk'.root # "none" => disk'.gen = 1 /\ \A s \in surviving' : s.gen = 1
         /\ disk.gen = 1 => disk.erasing \in {0, 1} /\ \A j \in surviving : j.gen = 1
         /\ disk.erasing \in Nat /\ disk.gen \in Nat \ {0}
         /\ \A p \in Proc : Retires(p) /\ Buries(p) /\ Erases(p) /\ Runs(p) /\ Ends(p)
<1>1. Recorded /\ Stored /\ Stored' /\ CallType /\ disk \in surviving /\ disk' \in surviving'
  BY HolderFacts DEF Calmly, Recorded, IInv, Stored
<1>2. /\ \A j \in surviving : j \in Images /\ j.gen \in Nat \ {0} /\ Beside(j, disk)
      /\ \A s \in surviving' : s \in Images /\ s.gen \in Nat \ {0} /\ Beside(s, disk')
  BY <1>1, ImageFields DEF Stored, Beside
<1>3. (\E j \in surviving : j.gen = 1) /\ \E s \in surviving' : s.gen = 1 BY DEF Calmly, Undisturbed
<1>4. /\ disk.root # "none" => disk.gen = 1 /\ \A j \in surviving : j.gen = 1
      /\ disk'.root # "none" => disk'.gen = 1 /\ \A s \in surviving' : s.gen = 1
  BY <1>2, <1>3 DEF Beside
<1>5. disk.gen = 1 => disk.erasing \in {0, 1} /\ \A j \in surviving : j.gen = 1
  BY <1>1, <1>2, Generations DEF Beside
<1>6. \A j \in surviving : j.gen = 1 => Behind(j, disk, surviving) BY DEF Calmly, Sound
<1>7. \A p \in Proc : Retires(p) /\ Buries(p) /\ Erases(p) /\ Runs(p) /\ Ends(p)
  BY HolderFacts DEF Calmly, Courses
<1> QED BY <1>1, <1>2, <1>4, <1>5, <1>6, <1>7, Generations, ImageFields

-----------------------------------------------------------------------------
(* What the zones of the disk say of every image.                          *)

LEMMA InBegins ==
  ASSUME Calmly, Begins(disk)
  PROVE  /\ \A j \in surviving : /\ Running(j, surviving) /\ j.gen = 1
                                 /\ j.root = disk.root \/ (j.root = "tree" /\ disk.root = "intent")
         /\ Running(disk, surviving)
<1>1. \A j \in surviving : j.gen = 1 /\ Behind(j, disk, surviving) BY CalmFacts DEF Begins
<1>2. \A j \in surviving : /\ Running(j, surviving) /\ j.gen = 1
                           /\ j.root = disk.root \/ (j.root = "tree" /\ disk.root = "intent")
  BY <1>1 DEF Behind, Begins, Sealing, Erasing
<1> QED BY <1>2, CalmFacts

LEMMA InSealing ==
  ASSUME Calmly, Sealing(disk)
  PROVE  \A j \in surviving : Burial(j) /\ j.gen = 1 /\ j.root = disk.root /\ j.log = disk.log
<1>1. \A j \in surviving : j.gen = 1 /\ Behind(j, disk, surviving) BY CalmFacts DEF Sealing
<1> QED BY <1>1 DEF Behind, Begins, Sealing, Erasing

LEMMA InErasing ==
  ASSUME Calmly, Erasing(disk)
  PROVE  /\ Forgotten(disk)
         /\ \A j \in surviving :
              /\ j.gen = 1
              /\ \/ Burial(j) /\ j.root = "kept" /\ disk.root = "kept" /\ disk.tomb.marks # "none"
                 \/ Forgotten(j) /\ (disk.root = "kept" => j.root = "kept") /\ (disk.tomb.marks = "none" => j.tomb = NoTomb)
<1>1. \A j \in surviving : j.gen = 1 /\ Behind(j, disk, surviving) BY CalmFacts DEF Erasing
<1>2. \A j \in surviving :
        \/ Burial(j) /\ j.root = "kept" /\ disk.root = "kept" /\ disk.tomb.marks # "none"
        \/ Forgotten(j) /\ (disk.root = "kept" => j.root = "kept") /\ (disk.tomb.marks = "none" => j.tomb = NoTomb)
  BY <1>1 DEF Behind, Begins, Sealing, Erasing
<1>3. disk.erasing = 1 BY DEF Erasing
<1> QED BY <1>1, <1>2, <1>3, CalmFacts DEF Burial

\* Which zone the disk is in.
LEMMA ZoneOf ==
  ASSUME Calmly, disk.root # "none"
  PROVE  /\ Begins(disk) \/ Sealing(disk) \/ Erasing(disk)
         /\ disk.root \in {"tree"} => Begins(disk)
         /\ disk.root \in {"intent", "tree", "noscratch", "headless"} => disk.erasing = 0 /\ (Begins(disk) \/ Sealing(disk))
         /\ disk.root \in {"noscratch", "headless"} => Sealing(disk)
<1>1. Begins(disk) \/ Sealing(disk) \/ Erasing(disk) BY CalmFacts DEF Begins, Sealing, Erasing
<1>2. Erasing(disk) => disk.root \in {"kept", "bare"} BY InErasing DEF Forgotten
<1>3. Sealing(disk) => disk.root \in {"intent", "noscratch", "headless", "kept"}
  BY InSealing, CalmFacts DEF Burial, Laid
<1>4. Begins(disk) => disk.root \notin {"noscratch", "headless"} BY InBegins DEF Running
<1> QED BY <1>1, <1>2, <1>3, <1>4 DEF Begins, Sealing

\* A run that comes late changes nothing.
LEMMA NotLate ==
  ASSUME Calmly, Belated, disk' # disk PROVE disk.tomb.marks = "none" /\ disk.erasing = 0
  BY DEF Calmly, Undisturbed, Belated

\* What the images are behind a step.
LEMMA SoundBegins ==
  ASSUME Begins(disk'), Plain', Rooted',
         \A s \in surviving' : /\ Running(s, surviving')
                               /\ s.root = disk'.root \/ (s.root = "tree" /\ disk'.root = "intent")
  PROVE  Sound'
<1>1. \A s \in surviving' : Behind(s, disk', surviving') BY DEF Behind
<1> QED BY <1>1 DEF Sound

LEMMA SoundBeyond ==
  ASSUME Plain', ~Begins(disk'), \A s \in surviving' : s.gen = 1 => Behind(s, disk', surviving')
  PROVE  Sound'
  BY DEF Sound, Rooted

\* No image has a name that none had before.
NamesStay == \A s \in surviving' : \E j \in surviving : s.name = j.name
NamesGo == \A i \in 1..Files : Vacant(i, surviving) => Vacant(i, surviving')

LEMMA NamesStayGo ==
  ASSUME NamesStay PROVE NamesGo /\ (Plain => Plain')
  BY DEF NamesStay, NamesGo, Vacant, Plain

LEMMA WritesNames ==
  ASSUME NEW parts, Writes(parts), "name" \notin parts PROVE NamesStay
  BY DEF Writes, Keeps, NamesStay

LEMMA SuitsGoes ==
  ASSUME NEW scratch, NEW log \in Logs, NamesGo, Suits(scratch, log, surviving)
  PROVE  Suits(scratch, log, surviving')
<1>1. log.deleted < Files => log.deleted + 1 \in 1..Files BY FilesAssumption DEF Logs
<1> QED BY <1>1 DEF Suits, NamesGo

LEMMA RunningGoes ==
  ASSUME NamesGo, NEW j \in Images, Running(j, surviving), NEW s,
         s.root = j.root, s.log = j.log, s.pending = j.pending, s.tomb = j.tomb, s.erasing = j.erasing
  PROVE  Running(s, surviving')
<1>1. j.log \in Logs BY ImageFields
<1>2. Suits(j.pending, j.log, surviving') BY <1>1, SuitsGoes DEF Running
<1> QED BY <1>2 DEF Running
-----------------------------------------------------------------------------
(* What a calm step does to the invocations beside it.                     *)

\* The disk stays as it was, or its lock is the step's.
Spares(p) ==
  \/ disk' = disk
  \/ /\ lock \in {p, Nobody}
     /\ disk'.root = "tree" => disk'.log = NoLog \/ (disk.root = "tree" /\ disk'.log = disk.log)
     /\ disk'.erasing \in {disk.erasing, 1}

\* The images stay close, and p knows what it relies on.
Goes(p) == Sound' /\ Runs(p)' /\ Ends(p)' /\ Spares(p)

LEMMA OthersGo ==
  ASSUME Calmly, NEW p \in Proc, Steady(p), Spares(p)
  PROVE  \A q \in Proc \ {p} : Runs(q)' /\ Ends(q)'
<1>1. SUFFICES ASSUME NEW q \in Proc \ {p} PROVE Runs(q)' /\ Ends(q)' OBVIOUS
<1>2. Same(q) /\ Runs(q) /\ Ends(q) BY CalmFacts DEF Steady
<1>3. CASE disk' = disk BY <1>2, <1>3 DEF Same, Runs, Ends
<1>4. CASE lock \in {p, Nobody} /\ Spares(p) /\ disk' # disk
  <2>1. pc[q] \notin Locked BY <1>4, OthersFree DEF Calmly
  <2>2. pc[q] \notin {"tree", "intent", "confirm"} \cup Begun \cup Marking \cup Burying
    BY <2>1 DEF Locked, Holding, RetentionHolding, Begun, Marking, Burying
  <2>3. Runs(q)' BY <1>2, <1>4, <2>2 DEF Same, Runs, Spares, Begun, Marking
  <2>4. Ends(q)' BY <1>2, <1>4, <2>2 DEF Same, Ends, Spares
  <2> QED BY <2>3, <2>4
<1> QED BY <1>3, <1>4 DEF Spares

LEMMA StutterSound == ASSUME Calmly, UNCHANGED diskVars, NEW p \in Proc PROVE Sound' /\ Spares(p)
  BY DEF Calmly, Spares, diskVars, Sound, Plain, Rooted

LEMMA IdleGoes == ASSUME NEW p \in Proc, pc'[p] = "idle" PROVE Runs(p)' /\ Ends(p)'
  BY DEF Runs, Ends, Begun, Marking, Burying

LEMMA StepOf ==
  ASSUME Calmly, NEW p \in Proc, NEW step
  PROVE  pc' = [pc EXCEPT ![p] = step] => pc'[p] = step
  BY CalmFacts DEF CallType

LEMMA ReturnGoes ==
  ASSUME Calmly, NEW p \in Proc, NEW o, Return(p, o)
  PROVE  Runs(p)' /\ Ends(p)'
<1>1. pc'[p] = "idle" BY StepOf DEF Return
<1> QED BY <1>1, IdleGoes

\* A step of run or resume that writes nothing and comes to a place of its own.
LEMMA ReadsAlong ==
  ASSUME Calmly, NEW p \in Proc, UNCHANGED diskVars, NEW step \in Unlocked \cup Holding, Goto(p, step),
         pc'[p] = step => Runs(p)'
  PROVE  Goes(p)
<1>1. pc'[p] = step BY StepOf DEF Goto
<1>2. Ends(p)' BY <1>1 DEF Ends, Burying, Unlocked, Holding
<1> QED BY <1>1, <1>2, StutterSound DEF Goes

-----------------------------------------------------------------------------
(* Run and resume before the first name, while nothing disturbs them.      *)

LEMMA StartCalm == ASSUME Calmly, NEW p \in Proc, Start(p) PROVE Goes(p)
<1>1. UNCHANGED diskVars BY DEF Start
<1>2. PICK step \in {"open", "review"} :
        pc' = [pc EXCEPT ![p] = step] /\ (step = "review" => disk.root \in {"none", "intent"})
  BY DEF Start, Readable, Loads
<1>3. pc'[p] = step BY <1>2, StepOf
<1>4. Runs(p)' BY <1>1, <1>2, <1>3 DEF Runs, Begun, Marking, diskVars
<1>5. Ends(p)' BY <1>3 DEF Ends, Burying
<1> QED BY <1>1, <1>4, <1>5, StutterSound DEF Goes

LEMMA ReviewCalm == ASSUME Calmly, NEW p \in Proc, Review(p) \/ CheckControl(p) PROVE Goes(p)
<1>1. /\ UNCHANGED diskVars /\ pc[p] \in {"review", "control"}
      /\ \E step \in {"control", "init"} : Goto(p, step)
  BY DEF Review, CheckControl
<1>2. PICK step \in {"control", "init"} : Goto(p, step) BY <1>1
<1>3. Runs(p) /\ step \in Unlocked BY CalmFacts DEF Unlocked
<1>4. pc'[p] = step => Runs(p)' BY <1>1, <1>3 DEF Runs, Begun, Marking, diskVars
<1> QED BY <1>1, <1>2, <1>3, <1>4, ReadsAlong

\* The new directory is all there is of the operation.
LEMMA MakeRootCalm ==
  ASSUME Calmly, NEW p \in Proc, MakeRoot, disk.root = "none", lock = Nobody
  PROVE  Sound' /\ Spares(p) /\ disk'.root = "bare"
<1>1. disk \in Images /\ disk' = [disk EXCEPT !.root = "bare"] BY CalmFacts DEF MakeRoot
<1>2. /\ disk'.root = "bare" /\ disk'.log = disk.log /\ disk'.tomb = disk.tomb /\ disk'.gen = disk.gen
      /\ disk'.erasing = disk.erasing /\ disk'.pending = disk.pending
  BY <1>1 DEF Images
<1>3. disk.gen = 1 BY <1>2, CalmFacts
<1>4. Begins(disk)
  <2>1. Behind(disk, disk, surviving) BY <1>3, CalmFacts
  <2>2. disk.gen \in Nat BY CalmFacts
  <2> QED BY <1>3, <2>1, <2>2 DEF Behind, Sealing, Burial, Laid, Forgotten, Begins
<1>5. Running(disk, surviving) BY <1>4, InBegins
<1>6. \A s \in surviving' : \E j \in surviving :
        /\ s.root = "bare" /\ s.log = disk.log /\ s.tomb = disk.tomb /\ s.erasing = disk.erasing
        /\ s.pending = disk.pending /\ s.name = j.name
  <2>1. surviving' = {[disk' EXCEPT !.name = j.name] : j \in surviving} BY DEF MakeRoot
  <2>2. disk' \in Images BY CalmFacts
  <2> QED BY <1>2, <2>1, <2>2 DEF Images
<1>7. NamesStay BY <1>6 DEF NamesStay
<1>8. \A s \in surviving' : Running(s, surviving') BY <1>5, <1>6 DEF Running, Suits
<1>9. Rooted' BY <1>2, <1>6 DEF Rooted
<1>10. Plain' BY <1>7, NamesStayGo DEF Calmly, Sound
<1>11. Begins(disk') BY <1>2, <1>4 DEF Begins
<1>12. Sound' BY <1>2, <1>6, <1>8, <1>9, <1>10, <1>11, SoundBegins
<1> QED BY <1>2, <1>12 DEF Spares

LEMMA InitializeCalm == ASSUME Calmly, NEW p \in Proc, Initialize(p) PROVE Goes(p)
<1>1. pc[p] = "init" /\ lock = Nobody /\ Runs(p) BY CalmFacts DEF Initialize
<1>2. CASE disk.root = "none" /\ MakeRoot /\ Goto(p, "tree")
  <2>1. Sound' /\ Spares(p) /\ disk'.root = "bare" BY <1>1, <1>2, MakeRootCalm
  <2>2. pc'[p] = "tree" BY <1>2, StepOf DEF Goto
  <2>3. Runs(p)' /\ Ends(p)' BY <2>1, <2>2 DEF Runs, Ends, Begun, Marking, Burying
  <2> QED BY <2>1, <2>3 DEF Goes
<1>3. CASE Goto(p, "tree") /\ UNCHANGED diskVars
  <2>1. pc'[p] = "tree" => Runs(p)' BY <1>1, <1>3 DEF Runs, Begun, Marking, diskVars
  <2>2. "tree" \in Holding BY DEF Holding
  <2> QED BY <1>3, <2>1, <2>2, ReadsAlong
<1>4. CASE Readable /\ Goto(p, "pass") /\ UNCHANGED diskVars
  <2>1. pc'[p] = "pass" => Runs(p)' BY <1>4 DEF Runs, Begun, Marking, diskVars, Readable, Loads
  <2>2. "pass" \in Holding BY DEF Holding
  <2> QED BY <1>4, <2>1, <2>2, ReadsAlong
<1> QED BY <1>2, <1>3, <1>4 DEF Initialize

\* A directory of the operation's is made durably in every image.
LEMMA PutRootShape ==
  ASSUME Calmly, NEW value \in {"bare", "kept", "tree", "intent", "noscratch", "headless"},
         Put("root", value) \/ PutDurably("root", value)
  PROVE  /\ Writes({"root"}) /\ disk'.root = value /\ NamesStay /\ Plain'
         /\ disk'.log = disk.log /\ disk'.tomb = disk.tomb /\ disk'.gen = disk.gen
         /\ disk'.erasing = disk.erasing /\ disk'.pending = disk.pending
         /\ \A s \in surviving' : \E j \in surviving :
              /\ s.log = j.log /\ s.tomb = j.tomb /\ s.gen = j.gen /\ s.erasing = j.erasing /\ s.pending = j.pending
              /\ s.root = value \/ (Put("root", value) /\ s.root = j.root)
<1>1. Stored /\ Fits("root", value) /\ "root" \in Writable BY CalmFacts, RootFits
<1>2. Writes({"root"}) /\ disk'["root"] = value BY <1>1, PutShape, PutDurablyShape
<1>3. NamesStay BY <1>2, WritesNames
<1>4. Plain' BY <1>3, NamesStayGo DEF Calmly, Sound
<1>5. /\ disk'.log = disk.log /\ disk'.tomb = disk.tomb /\ disk'.gen = disk.gen
      /\ disk'.erasing = disk.erasing /\ disk'.pending = disk.pending
  BY <1>2 DEF Writes, Keeps
<1>6. \A s \in surviving' : (Put("root", value) /\ s \in surviving)
                            \/ \E j \in surviving : Keeps({"root"}, s, j) /\ s["root"] = value
  BY <1>1, PutShape, PutDurablyShape
<1>7. \A s \in surviving' : \E j \in surviving :
        /\ s.log = j.log /\ s.tomb = j.tomb /\ s.gen = j.gen /\ s.erasing = j.erasing /\ s.pending = j.pending
        /\ s.root = value \/ (Put("root", value) /\ s.root = j.root)
  BY <1>6 DEF Keeps
<1> QED BY <1>2, <1>3, <1>4, <1>5, <1>7

LEMMA MakeTreeCalm == ASSUME Calmly, NEW p \in Proc, MakeTree(p), Belated PROVE Goes(p)
<1>1. /\ pc[p] = "tree" /\ Runs(p) /\ lock = p /\ disk.root # "none"
  BY CalmFacts, HoldersLock DEF MakeTree, Retires, Locked, Holding, Calmly
<1>2. CASE UNCHANGED diskVars /\ disk.root \in {"tree", "intent"} /\ Goto(p, "intent")
  <2>1. pc'[p] = "intent" => Runs(p)' BY <1>1, <1>2 DEF Runs, Begun, Marking, diskVars
  <2>2. "intent" \in Holding BY DEF Holding
  <2> QED BY <1>2, <2>1, <2>2, ReadsAlong
<1>3. ASSUME NEW value \in {"kept", "tree", "intent"}, PutDurably("root", value), disk.root # value,
             disk.root = "noscratch" \/ (disk.root \in {"bare", "kept", "headless"} /\ value # "intent"),
             NEW step \in {"tree", "intent"}, Goto(p, step), step = "intent" => value \in {"tree", "intent"}
      PROVE  Goes(p)
  <2>1. /\ disk'.root = value /\ Plain' /\ NamesStay
        /\ disk'.log = disk.log /\ disk'.tomb = disk.tomb /\ disk'.gen = disk.gen
        /\ disk'.erasing = disk.erasing /\ disk'.pending = disk.pending
        /\ \A s \in surviving' : \E j \in surviving :
             /\ s.log = j.log /\ s.tomb = j.tomb /\ s.gen = j.gen /\ s.erasing = j.erasing /\ s.pending = j.pending
             /\ s.root = value \/ (Put("root", value) /\ s.root = j.root)
    BY <1>3, PutRootShape
  <2>2. disk' # disk /\ Begins(disk) BY <1>1, <1>3, <2>1, NotLate, CalmFacts DEF Begins
  <2>3. disk.root \in {"bare", "kept"} BY <1>1, <1>3, <2>2, ZoneOf DEF Begins, Sealing
  <2>4. \A j \in surviving : Running(j, surviving) /\ j.root = disk.root BY <2>2, <2>3, InBegins
  <2>5. \A s \in surviving' : s.root = value /\ \E j \in surviving : s.log = j.log /\ s.tomb = j.tomb
                              /\ s.erasing = j.erasing /\ s.pending = j.pending
    <3>1. surviving' = {[j EXCEPT !.root = value] : j \in surviving} BY <1>3 DEF PutDurably
    <3> QED BY <3>1, CalmFacts DEF Images
  <2>6. \A s \in surviving' : Running(s, surviving')
    <3>1. value \in {"kept", "tree"} BY <1>3, <2>3
    <3> QED BY <2>3, <2>4, <2>5, <3>1 DEF Running, Suits
  <2>7. Rooted' BY <2>1, <2>5 DEF Rooted
  <2>8. Begins(disk') BY <2>1, <2>2 DEF Begins
  <2>9. Sound' BY <2>1, <2>5, <2>6, <2>7, <2>8, SoundBegins
  <2>10. disk'.log = NoLog BY <2>1, <2>3, <2>4, CalmFacts DEF Running
  <2>11. pc'[p] = step BY <1>3, StepOf DEF Goto
  <2>12. Runs(p)' /\ Ends(p)'
    BY <1>3, <2>1, <2>10, <2>11 DEF Runs, Ends, Begun, Marking, Burying
  <2> QED BY <1>1, <2>1, <2>9, <2>10, <2>12 DEF Goes, Spares
<1> QED BY <1>2, <1>3 DEF MakeTree, Planted

LEMMA WriteIntentCalm == ASSUME Calmly, NEW p \in Proc, WriteIntent(p) PROVE Goes(p)
<1>1. /\ pc[p] = "intent" /\ Runs(p) /\ lock = p /\ disk.root \in {"tree", "intent"} /\ Goto(p, "confirm")
      /\ mark[p] = NoMarker /\ mark' = mark
  BY CalmFacts, HoldersLock DEF WriteIntent, Retires, Runs, Locked, Holding, Calmly
<1>2. pc'[p] = "confirm" BY <1>1, StepOf DEF Goto
<1>3. disk'.root = "intent" => Runs(p)' /\ Ends(p)'
  BY <1>1, <1>2, MarkersDiffer DEF Runs, Ends, Begun, Marking, Burying
<1>4. CASE UNCHANGED diskVars /\ disk.root = "intent"
  BY <1>3, <1>4, StutterSound DEF Goes, diskVars
<1>5. CASE Put("root", "intent") /\ disk.root = "tree"
  <2>1. /\ disk'.root = "intent" /\ Plain' /\ NamesStay
        /\ disk'.log = disk.log /\ disk'.tomb = disk.tomb /\ disk'.gen = disk.gen
        /\ disk'.erasing = disk.erasing
        /\ \A s \in surviving' : \E j \in surviving :
             /\ s.log = j.log /\ s.tomb = j.tomb /\ s.gen = j.gen /\ s.erasing = j.erasing /\ s.pending = j.pending
             /\ s.root \in {"intent", j.root}
    BY <1>5, PutRootShape
  <2>2. Begins(disk) BY <1>5, ZoneOf
  <2>3. \A j \in surviving : Running(j, surviving) /\ j.root = "tree" /\ j \in Images BY <1>5, <2>2, InBegins, CalmFacts
  <2>4. NamesGo BY <2>1, NamesStayGo
  <2>5. \A s \in surviving' : s.root \in {"tree", "intent"} /\ Running(s, surviving')
    <3>1. SUFFICES ASSUME NEW s \in surviving' PROVE s.root \in {"tree", "intent"} /\ Running(s, surviving') OBVIOUS
    <3>2. PICK j \in surviving :
             /\ s.log = j.log /\ s.tomb = j.tomb /\ s.erasing = j.erasing /\ s.pending = j.pending
             /\ s.root \in {"intent", j.root}
      BY <2>1
    <3>3. Suits(s.pending, s.log, surviving') BY <2>3, <2>4, <3>2, SuitsGoes, ImageFields DEF Running
    <3> QED BY <2>3, <3>2, <3>3 DEF Running
  <2>6. disk.log = NoLog BY <1>1, <1>5 DEF Runs
  <2>7. Rooted' BY <2>1, <2>6, CalmFacts DEF Rooted
  <2>8. Begins(disk') BY <2>1, <2>2 DEF Begins
  <2>9. Sound' BY <2>1, <2>5, <2>7, <2>8, SoundBegins
  <2> QED BY <1>1, <1>3, <2>1, <2>9 DEF Goes, Spares
<1> QED BY <1>1, <1>4, <1>5 DEF WriteIntent

LEMMA OpenCalm == ASSUME Calmly, NEW p \in Proc, Open(p) PROVE Goes(p)
<1>1. UNCHANGED diskVars /\ disk.root = "intent" BY DEF Open, Readable, Loads
<1>2. CASE Return(p, "already") BY <1>1, <1>2, ReturnGoes, StutterSound DEF Goes
<1>3. CASE \E step \in {"bind", "pass"} : Goto(p, step)
  <2>1. PICK step \in {"bind", "pass"} : Goto(p, step) BY <1>3
  <2>2. pc'[p] = step => Runs(p)' BY <1>1 DEF Runs, Begun, Marking, diskVars
  <2>3. step \in Holding BY DEF Holding
  <2> QED BY <1>1, <2>1, <2>2, <2>3, ReadsAlong
<1> QED BY <1>2, <1>3 DEF Open

-----------------------------------------------------------------------------
(* The names, one after the other.                                         *)

\* The journal is open: nothing of its end is there yet.
LEMMA InBegun ==
  ASSUME Calmly, NEW p \in Proc, pc[p] \in Begun \/ (pc[p] = "confirm" /\ mark[p] # NoMarker)
  PROVE  /\ disk.root = "intent" /\ Begins(disk) /\ lock = p /\ Runs(p) /\ Retires(p)
         /\ disk.log \in Logs /\ Running(disk, surviving)
<1>1. Runs(p) /\ Retires(p) /\ disk.log \in Logs BY CalmFacts
<1>2. disk.root = "intent" /\ disk.tomb.marks = "none" BY <1>1 DEF Runs, Retires
<1>3. Begins(disk) BY <1>2, ZoneOf DEF Sealing
<1>4. pc[p] \in Locked BY DEF Begun, Locked, Holding
<1>5. lock = p BY <1>4, HoldersLock DEF Calmly
<1> QED BY <1>1, <1>2, <1>3, <1>5, InBegins

LEMMA ObserveCalm ==
  ASSUME Calmly, NEW p \in Proc, Bind(p) \/ Pass(p) \/ Absent(p) \/ FindComplete(p)
  PROVE  Goes(p)
<1>1. CASE FindComplete(p)
  <2>1. UNCHANGED diskVars /\ Return(p, "already") BY <1>1 DEF FindComplete
  <2> QED BY <2>1, ReturnGoes, StutterSound DEF Goes
<1>2. CASE Bind(p) \/ Pass(p) \/ Absent(p)
  <2>1. PICK step \in {"pass", "next", "recover"} : Goto(p, step) /\ (step = "next" => ~disk.log.done)
    BY <1>2 DEF Bind, Pass, Absent
  <2>2. pc[p] \in Begun /\ UNCHANGED diskVars BY <1>2 DEF Bind, Pass, Absent, Begun
  <2>3. disk.root = "intent" BY <2>2, InBegun
  <2>4. pc'[p] = step => Runs(p)' BY <2>1, <2>2, <2>3 DEF Runs, Begun, Marking, diskVars
  <2>5. step \in Holding BY DEF Holding
  <2> QED BY <2>1, <2>2, <2>4, <2>5, ReadsAlong
<1> QED BY <1>1, <1>2

LEMMA PresentCalm == ASSUME Calmly, NEW p \in Proc, Present(p) \/ Finish(p) PROVE Goes(p)
<1>1. pc[p] = "next" /\ UNCHANGED diskVars BY DEF Present, Finish
<1>2. disk.root = "intent" /\ Runs(p) /\ ~disk.log.done BY <1>1, InBegun DEF Begun, Runs
<1>3. mark \in [Proc -> Markers] /\ {"stage", "unlink"} \subseteq Holding BY CalmFacts DEF CallType, Holding
<1>4. CASE Write(p, Attempt) \/ (Write(p, Complete) /\ disk.log.deleted = Files)
  <2>1. /\ Goto(p, "stage") /\ mark'[p] \in {Attempt, Complete}
        /\ mark'[p] = Complete => disk.log.deleted = Files
    BY <1>3, <1>4, MarkersDiffer DEF Write
  <2>2. pc'[p] = "stage" => Runs(p)'
    BY <1>1, <1>2, <2>1, MarkersDiffer DEF Runs, Begun, Marking, diskVars
  <2> QED BY <1>1, <1>3, <2>1, <2>2, ReadsAlong
<1>5. CASE Goto(p, "unlink")
  <2>1. pc'[p] = "unlink" => Runs(p)' BY <1>1, <1>2 DEF Runs, Begun, Marking, diskVars
  <2> QED BY <1>1, <1>3, <1>5, <2>1, ReadsAlong
<1> QED BY <1>4, <1>5 DEF Present, Finish, Removed

\* Names only go while the journal is open.
LEMMA NamesSound ==
  ASSUME Calmly, Begins(disk), disk.root = "intent", Writes({"name"}), NamesGo, Plain',
         \A j \in surviving : \E s \in surviving' : s.log = j.log
  PROVE  Sound'
<1>1. /\ disk'.root = disk.root /\ disk'.tomb = disk.tomb /\ disk'.gen = disk.gen /\ disk'.erasing = disk.erasing
  BY DEF Writes, Keeps
<1>2. \A s \in surviving' : \E j \in surviving :
        /\ s.root = j.root /\ s.log = j.log /\ s.pending = j.pending /\ s.tomb = j.tomb /\ s.erasing = j.erasing
  BY DEF Writes, Keeps
<1>3. \A j \in surviving : Running(j, surviving) /\ j \in Images /\ j.root \in {"tree", "intent"}
  BY InBegins, CalmFacts
<1>4. \A s \in surviving' : Running(s, surviving') /\ s.root \in {"tree", "intent"}
  BY <1>2, <1>3, RunningGoes
<1>5. Rooted'
  <2>1. CASE \A j \in surviving : j.root = disk.root BY <1>1, <1>2, <2>1 DEF Rooted
  <2>2. CASE \E k \in surviving : k.log = NoLog BY <2>2 DEF Rooted
  <2> QED BY <2>1, <2>2 DEF Calmly, Sound, Rooted
<1>6. Begins(disk') BY <1>1 DEF Begins
<1> QED BY <1>1, <1>4, <1>5, <1>6, SoundBegins

\* The absence of a name becomes durable.
LEMMA RecordAbsenceCalm ==
  ASSUME Calmly, NEW p \in Proc, Recover(p) \/ ConfirmUnlink(p)
  PROVE  Goes(p)
<1>1. PICK basis \in {"confirmed", "recovered"} : Write(p, Deleted(basis)) BY DEF Recover, ConfirmUnlink
<1>2. pc[p] \in {"recover", "unlinked"} /\ Gone(Upcoming) /\ SyncName(Upcoming) BY DEF Recover, ConfirmUnlink
<1>3. disk.root = "intent" /\ Begins(disk) /\ Retires(p) BY <1>2, InBegun DEF Begun
<1>4. disk.log.deleted < Files /\ disk.log.attempted > disk.log.deleted BY <1>2, <1>3 DEF Retires
<1>5. Upcoming \in 1..Files BY <1>4, NextName DEF Calmly
<1>6. /\ Writes({"name"}) /\ disk' = disk
      /\ \A s \in surviving' : \E j \in surviving :
           /\ s.log = j.log /\ s.name[Upcoming] = "none"
           /\ \A k \in 1..Files : k # Upcoming => s.name[k] = j.name[k]
  BY <1>2, <1>5, CalmFacts, SyncNameShape DEF Gone
<1>7. NamesGo BY <1>6 DEF NamesGo, Vacant
<1>8. Plain' BY <1>6 DEF Calmly, Sound, Plain
<1>9. \A j \in surviving : \E s \in surviving' : s.log = j.log
  <2>1. surviving' = {[j EXCEPT !.name[Upcoming] = disk.name[Upcoming]] : j \in surviving} BY <1>2 DEF SyncName
  <2>2. \A j \in surviving : [j EXCEPT !.name[Upcoming] = disk.name[Upcoming]].log = j.log
    BY CalmFacts DEF Images
  <2> QED BY <2>1, <2>2
<1>10. Sound' BY <1>3, <1>6, <1>7, <1>8, <1>9, NamesSound
<1>11. pc'[p] = "stage" /\ mark'[p] = Deleted(basis)
  BY <1>1, StepOf, CalmFacts, MarkersDiffer DEF Write, Goto, CallType
<1>12. Runs(p)' /\ Ends(p)'
  BY <1>3, <1>4, <1>6, <1>11, MarkersDiffer DEF Runs, Ends, Begun, Marking, Burying
<1> QED BY <1>6, <1>10, <1>12 DEF Goes, Spares

LEMMA UnlinkCalm == ASSUME Calmly, NEW p \in Proc, Unlink(p) PROVE Goes(p)
<1>1. pc[p] = "unlink" /\ UNCHANGED mark BY DEF Unlink
<1>2. disk.root = "intent" /\ Begins(disk) /\ Retires(p) /\ lock = p BY <1>1, InBegun DEF Begun
<1>3. CASE Goto(p, "recover") /\ UNCHANGED diskVars
  <2>1. pc'[p] = "recover" => Runs(p)' BY <1>2, <1>3 DEF Runs, Begun, Marking, diskVars
  <2>2. "recover" \in Holding BY DEF Holding
  <2> QED BY <1>3, <2>1, <2>2, ReadsAlong
<1>4. CASE PutName(Upcoming, "none") /\ Goto(p, "unlinked")
  <2>1. disk.log.deleted < Files BY <1>1, <1>2 DEF Retires
  <2>2. Upcoming \in 1..Files BY <2>1, NextName DEF Calmly
  <2>3. /\ Writes({"name"})
        /\ \A s \in surviving' : \E j \in surviving :
             /\ s.log = j.log /\ (s.name[Upcoming] = "none" \/ s.name[Upcoming] = j.name[Upcoming])
             /\ \A k \in 1..Files : k # Upcoming => s.name[k] = j.name[k]
    BY <1>4, <2>2, CalmFacts, PutNameShape DEF Names
  <2>4. \A s \in surviving' : \E j \in surviving : \A k \in 1..Files : s.name[k] \in {"none", j.name[k]}
    BY <2>3
  <2>5. NamesGo BY <2>4 DEF NamesGo, Vacant
  <2>6. Plain' BY <2>4 DEF Calmly, Sound, Plain
  <2>7. surviving \subseteq surviving' BY <1>4 DEF PutName
  <2>8. Sound' BY <1>2, <2>3, <2>5, <2>6, <2>7, NamesSound
  <2>9. disk'.root = disk.root /\ disk'.erasing = disk.erasing BY <2>3 DEF Writes, Keeps
  <2>10. pc'[p] = "unlinked" BY <1>4, StepOf DEF Goto
  <2>11. Runs(p)' /\ Ends(p)' BY <1>2, <2>9, <2>10 DEF Runs, Ends, Begun, Marking, Burying
  <2> QED BY <1>2, <2>8, <2>9, <2>11 DEF Goes, Spares
<1> QED BY <1>3, <1>4 DEF Unlink

-----------------------------------------------------------------------------
(* The markers.                                                            *)

\* The scratch changes to one that suits whatever journal a power loss leaves.
LEMMA PendingSound ==
  ASSUME Calmly, Begins(disk), disk.root = "intent", NEW value \in Scratch,
         Put("pending", value) \/ PutDurably("pending", value),
         \A j \in surviving : Suits(value, j.log, surviving)
  PROVE  /\ Sound' /\ disk'.root = disk.root /\ disk'.log = disk.log /\ disk'.erasing = disk.erasing
<1>1. Fits("pending", value) /\ "pending" \in Writable BY DEF Fits, Writable
<1>2. /\ Writes({"pending"}) /\ disk' \in surviving'
      /\ \A s \in surviving' : s \in surviving \/ \E j \in surviving : Keeps({"pending"}, s, j) /\ s["pending"] = value
  BY <1>1, CalmFacts, PutShape, PutDurablyShape
<1>3. /\ disk'.root = disk.root /\ disk'.tomb = disk.tomb /\ disk'.gen = disk.gen
      /\ disk'.erasing = disk.erasing /\ disk'.log = disk.log
  BY <1>2 DEF Writes, Keeps
<1>4. NamesGo /\ Plain' BY <1>2, WritesNames, NamesStayGo DEF Calmly, Sound
<1>5. \A j \in surviving : Running(j, surviving) /\ j \in Images /\ j.root \in {"tree", "intent"} /\ j.log \in Logs
  BY InBegins, CalmFacts, ImageFields
<1>6. ASSUME NEW s \in surviving' PROVE Running(s, surviving') /\ s.root \in {"tree", "intent"}
  <2>1. CASE s \in surviving BY <1>4, <1>5, <2>1, RunningGoes
  <2>2. ASSUME NEW j \in surviving, Keeps({"pending"}, s, j), s.pending = value
        PROVE  Running(s, surviving') /\ s.root \in {"tree", "intent"}
    <3>1. s.root = j.root /\ s.log = j.log /\ s.tomb = j.tomb /\ s.erasing = j.erasing BY <2>2 DEF Keeps
    <3>2. Suits(s.pending, s.log, surviving') BY <1>4, <1>5, <2>2, <3>1, SuitsGoes
    <3> QED BY <1>5, <3>1, <3>2 DEF Running
  <2> QED BY <1>2, <2>1, <2>2
<1>7. Rooted'
  <2>1. \A s \in surviving' : \E j \in surviving : s.root = j.root BY <1>2 DEF Writes, Keeps
  <2>2. \A j \in surviving : \E s \in surviving' : s.log = j.log
    <3>1. \A j \in surviving : j \in Images => [j EXCEPT !["pending"] = value].log = j.log BY DEF Images
    <3>2. \A j \in surviving : [j EXCEPT !["pending"] = value] \in surviving' BY DEF Put, PutDurably
    <3> QED BY <1>5, <3>1, <3>2
  <2>3. CASE \A j \in surviving : j.root = disk.root BY <1>3, <2>1, <2>3 DEF Rooted
  <2>4. CASE \E k \in surviving : k.log = NoLog BY <2>2, <2>4 DEF Rooted
  <2> QED BY <2>3, <2>4 DEF Calmly, Sound, Rooted
<1>8. Begins(disk') BY <1>3 DEF Begins
<1> QED BY <1>3, <1>4, <1>6, <1>7, <1>8, SoundBegins

\* What the marker that an invocation writes next adds suits the journal.
LEMMA MarkSuits ==
  ASSUME Calmly, NEW p \in Proc, pc[p] \in Marking, NEW scratch, scratch.marker = mark[p]
  PROVE  /\ Suits(scratch, disk.log, surviving)
         /\ Ordered(disk.log) /\ (mark[p] # Complete => ~disk.log.done)
<1>1. pc[p] \in Begun BY DEF Begun, Marking
<1>2. /\ Begins(disk) /\ Retires(p) /\ Runs(p) /\ Ordered(disk.log) /\ disk.log \in Logs
  BY <1>1, InBegun DEF Running
<1>3. /\ disk.log.attempted \in Nat /\ disk.log.deleted \in Nat /\ disk.log.deleted <= disk.log.attempted
      /\ disk.log.done => disk.log.deleted = Files
  BY <1>2, FilesAssumption DEF Ordered, Logs
<1>4. mark[p] \in {Attempt, Deleted("confirmed"), Deleted("recovered"), Complete} BY <1>2 DEF Retires
<1>5. CASE mark[p] = Attempt
  <2>1. disk.log.deleted < Files /\ disk.log.attempted <= disk.log.deleted BY <1>2, <1>5 DEF Retires
  <2>2. ~disk.log.done /\ disk.log.attempted = disk.log.deleted BY <1>3, <2>1, FilesAssumption
  <2> QED BY <1>2, <1>5, <2>1, <2>2 DEF Suits
<1>6. CASE mark[p] = Complete BY <1>2, <1>6 DEF Runs, Suits
<1>7. CASE mark[p] \in {Deleted("confirmed"), Deleted("recovered")}
  <2>1. mark[p].dest = "deleted" BY <1>7, MarkersDiffer
  <2>2. /\ disk.log.deleted < Files /\ disk.log.attempted > disk.log.deleted
        /\ \A k \in surviving : k.name[disk.log.deleted + 1] \in Away
    BY <1>2, <2>1 DEF Retires, Runs
  <2>3. disk.log.deleted + 1 \in 1..Files BY <1>3, <2>2, FilesAssumption
  <2>4. Vacant(disk.log.deleted + 1, surviving)
    BY <2>2, <2>3 DEF Calmly, Sound, Plain, Away, Vacant
  <2>5. ~disk.log.done BY <1>3, <2>2, FilesAssumption
  <2> QED BY <1>2, <1>7, <2>2, <2>4, <2>5 DEF Suits
<1> QED BY <1>4, <1>5, <1>6, <1>7

LEMMA StageCalm == ASSUME Calmly, NEW p \in Proc, Stage(p) PROVE Goes(p)
<1>1. /\ pc[p] = "stage" /\ mark' = mark /\ trusts' = trusts /\ {"stage", "fill", "rename"} \subseteq Holding
      /\ mark[p] \in Markers
  BY CalmFacts DEF Stage, Holding, CallType
<1>2. /\ disk.root = "intent" /\ Begins(disk) /\ Runs(p) /\ Retires(p) /\ lock = p
      /\ pc[p] \in Marking /\ pc[p] \in Begun
  BY <1>1, InBegun DEF Begun, Marking
<1>3. ASSUME NEW value \in Scratch, Put("pending", value) \/ PutDurably("pending", value),
             \A j \in surviving : Suits(value, j.log, surviving),
             NEW step \in {"stage", "fill"}, Goto(p, step), step = "fill" => ~trusts[p]
      PROVE  Goes(p)
  <2>1. /\ Sound' /\ disk'.root = disk.root /\ disk'.log = disk.log /\ disk'.erasing = disk.erasing
    BY <1>2, <1>3, PendingSound
  <2>2. pc'[p] = step BY <1>3, StepOf DEF Goto
  <2>3. Runs(p)' /\ Ends(p)'
    BY <1>1, <1>2, <1>3, <2>1, <2>2 DEF Runs, Ends, Begun, Marking, Burying
  <2> QED BY <1>2, <2>1, <2>3 DEF Goes, Spares
<1>4. CASE /\ Put("pending", [marker |-> mark[p], fill |-> "empty"]) /\ Goto(p, "fill")
           /\ reused' = (reused \/ trusts[p])
  <2>1. ~trusts[p] BY <1>4 DEF Calmly, Undisturbed
  <2>2. \A j \in surviving : j.log = disk.log BY <1>2, <2>1 DEF Retires
  <2>3. Suits([marker |-> mark[p], fill |-> "empty"], disk.log, surviving) BY <1>2, MarkSuits
  <2>4. [marker |-> mark[p], fill |-> "empty"] \in Scratch BY <1>1 DEF Scratch
  <2> QED BY <1>3, <1>4, <2>1, <2>2, <2>3, <2>4
<1>5. CASE PutDurably("pending", NoScratch) /\ Goto(p, "stage")
  <2>1. NoScratch \in Scratch /\ \A j \in surviving : Suits(NoScratch, j.log, surviving)
    BY MarkersDiffer DEF Scratch, NoScratch, Suits
  <2> QED BY <1>3, <1>5, <2>1
<1>6. CASE Goto(p, "rename") /\ UNCHANGED diskVars
  <2>1. pc'[p] = "rename" => Runs(p)' BY <1>1, <1>2, <1>6 DEF Runs, Begun, Marking, diskVars
  <2> QED BY <1>1, <1>6, <2>1, ReadsAlong
<1> QED BY <1>4, <1>5, <1>6 DEF Stage

LEMMA FillCalm == ASSUME Calmly, NEW p \in Proc, Fill(p) PROVE Goes(p)
<1>1. /\ pc[p] = "fill" /\ mark' = mark /\ trusts' = trusts /\ disk.pending.fill \in {"empty", "part"}
  BY DEF Fill
<1>2. /\ disk.root = "intent" /\ Begins(disk) /\ Runs(p) /\ Retires(p) /\ lock = p
      /\ pc[p] \in Marking /\ pc[p] \in Begun /\ Running(disk, surviving)
  BY <1>1, InBegun DEF Begun, Marking
<1>3. disk.pending \in Scratch BY CalmFacts, ImageFields
<1>4. PICK fill \in {"part", "whole"}, step \in {"fill", "rename"} :
        Put("pending", [disk.pending EXCEPT !.fill = fill]) /\ Goto(p, step)
  BY DEF Fill
<1> DEFINE filled == [disk.pending EXCEPT !.fill = fill]
<1>5. filled \in Scratch /\ filled.marker = disk.pending.marker BY <1>3 DEF Scratch
<1>6. Put("pending", filled) BY <1>4
<1> HIDE DEF filled
<1>7. ~trusts[p] /\ \A j \in surviving : j.log = disk.log BY <1>1, <1>2 DEF Runs, Retires
<1>8. disk.pending # NoScratch BY <1>1 DEF NoScratch
<1>9. Suits(filled, disk.log, surviving) BY <1>2, <1>5, <1>8 DEF Running, Suits
<1>10. /\ Sound' /\ disk'.root = disk.root /\ disk'.log = disk.log /\ disk'.erasing = disk.erasing
  BY <1>2, <1>5, <1>6, <1>7, <1>9, PendingSound
<1>11. pc'[p] = step BY <1>4, StepOf DEF Goto
<1>12. Runs(p)' /\ Ends(p)'
  BY <1>1, <1>2, <1>7, <1>10, <1>11 DEF Runs, Ends, Begun, Marking, Burying
<1> QED BY <1>2, <1>10, <1>12 DEF Goes, Spares

\* The marker becomes visible, in every journal that the step extends.
LEMMA RenameCalm == ASSUME Calmly, NEW p \in Proc, Rename(p) PROVE Goes(p)
<1> DEFINE log == Extended(disk.log, mark[p])
           published(j) == [j EXCEPT !.pending = NoScratch, !.log = log]
<1>1. pc[p] = "rename" /\ mark' = mark /\ Goto(p, "confirm") BY DEF Rename
<1>2. /\ disk.root = "intent" /\ Begins(disk) /\ Runs(p) /\ Retires(p) /\ lock = p
      /\ pc[p] \in Marking /\ pc[p] \in Begun /\ disk.log \in Logs
  BY <1>1, InBegun DEF Begun, Marking
<1>3. disk' = published(disk) /\ surviving' = surviving \cup {published(j) : j \in surviving} BY DEF Rename
<1>4. /\ log.done = (disk.log.done \/ mark[p] = Complete)
      /\ log.deleted = (IF mark[p].dest = "deleted" THEN disk.log.deleted + 1 ELSE disk.log.deleted)
      /\ log.attempted = (IF mark[p] = Attempt THEN disk.log.deleted + 1 ELSE disk.log.attempted)
  BY <1>1, ExtendedFields DEF Calmly
<1> HIDE DEF log
<1>5. Ordered(disk.log) /\ (mark[p] # Complete => ~disk.log.done)
  <2>1. [marker |-> mark[p]].marker = mark[p] OBVIOUS
  <2> QED BY <1>2, <2>1, MarkSuits
<1>6. Ordered(log)
  <2>1. /\ disk.log.attempted \in disk.log.deleted..(disk.log.deleted + 1) /\ disk.log.deleted \in Nat
        /\ disk.log.attempted \in Nat /\ Files \in Nat
    BY <1>2, <1>5, FilesAssumption DEF Ordered, Logs
  <2>2. mark[p] \in {Attempt, Deleted("confirmed"), Deleted("recovered"), Complete} BY <1>2 DEF Retires
  <2>3. CASE mark[p] = Attempt
    <3>1. ~log.done /\ log.deleted = disk.log.deleted /\ log.attempted = disk.log.deleted + 1
      BY <1>4, <1>5, <2>3, MarkersDiffer
    <3> QED BY <2>1, <3>1 DEF Ordered
  <2>4. CASE mark[p] = Complete
    <3>1. log.deleted = disk.log.deleted /\ log.attempted = disk.log.attempted /\ disk.log.deleted = Files
      BY <1>2, <1>4, <2>4, MarkersDiffer DEF Runs
    <3> QED BY <2>1, <3>1 DEF Ordered
  <2>5. CASE mark[p] \in {Deleted("confirmed"), Deleted("recovered")}
    <3>1. mark[p].dest = "deleted" /\ mark[p] # Attempt /\ mark[p] # Complete BY <2>5, MarkersDiffer
    <3>2. disk.log.attempted > disk.log.deleted BY <1>2, <3>1 DEF Runs
    <3>3. ~log.done /\ log.deleted = disk.log.deleted + 1 /\ log.attempted = disk.log.attempted
      BY <1>4, <1>5, <3>1
    <3> QED BY <2>1, <3>2, <3>3 DEF Ordered
  <2> QED BY <2>2, <2>3, <2>4, <2>5
<1>7. \A j \in surviving :
        /\ published(j).root = j.root /\ published(j).log = log /\ published(j).pending = NoScratch
        /\ published(j).tomb = j.tomb /\ published(j).erasing = j.erasing /\ published(j).gen = j.gen
        /\ published(j).name = j.name
  BY CalmFacts DEF Images
<1> HIDE DEF published
<1>8. NamesStay BY <1>3, <1>7 DEF NamesStay
<1>9. NamesGo /\ Plain' BY <1>8, NamesStayGo DEF Calmly, Sound
<1>10. disk \in surviving /\ \A j \in surviving : Running(j, surviving) /\ j \in Images /\ j.root \in {"tree", "intent"}
  BY <1>2, InBegins, CalmFacts
<1>11. ASSUME NEW s \in surviving' PROVE Running(s, surviving') /\ s.root \in {"tree", "intent"}
  <2>1. CASE s \in surviving BY <1>9, <1>10, <2>1, RunningGoes
  <2>2. ASSUME NEW j \in surviving, s = published(j) PROVE Running(s, surviving') /\ s.root \in {"tree", "intent"}
    BY <1>6, <1>7, <1>10, <2>2 DEF Running, Suits
  <2> QED BY <1>3, <2>1, <2>2
<1>12. Rooted'
  <2>1. CASE \A j \in surviving : j.root = disk.root BY <1>3, <1>7, <1>10, <2>1 DEF Rooted
  <2>2. CASE \E k \in surviving : k.log = NoLog BY <1>3, <2>2 DEF Rooted
  <2> QED BY <1>2, <2>1, <2>2 DEF Calmly, Sound, Rooted
<1>13. /\ disk'.root = "intent" /\ disk'.log = log /\ disk'.erasing = disk.erasing /\ Begins(disk')
  BY <1>2, <1>3, <1>7, <1>10 DEF Begins
<1>14. Sound' BY <1>9, <1>11, <1>12, <1>13, SoundBegins
<1>15. pc'[p] = "confirm" BY <1>1, StepOf DEF Goto
<1>16. mark[p].dest = "deleted" => ~log.done BY <1>4, <1>5, MarkersDiffer
<1>17. Runs(p)' /\ Ends(p)'
  BY <1>1, <1>13, <1>15, <1>16 DEF Runs, Ends, Begun, Marking, Burying
<1> QED BY <1>2, <1>13, <1>14, <1>17 DEF Goes, Spares

\* The journal is synced; what it says stays.
LEMMA JournalSyncSound ==
  ASSUME Calmly, SyncJournal, disk.root = "intent" PROVE Sound' /\ disk' = disk
<1>1. /\ Writes({"root", "log", "pending"}) /\ disk' = disk
      /\ \A s \in surviving' : \E j \in surviving :
           Keeps({"root", "log", "pending"}, s, j) /\ Takes({"root", "log", "pending"}, s, disk)
  BY CalmFacts, SyncShape DEF SyncJournal
<1>2. \A s \in surviving' : \E j \in surviving :
        /\ s.root = disk.root /\ s.log = disk.log /\ s.pending = disk.pending
        /\ s.tomb = j.tomb /\ s.gen = j.gen /\ s.erasing = j.erasing
  BY <1>1 DEF Keeps, Takes
<1>3. NamesGo /\ Plain' BY <1>1, WritesNames, NamesStayGo DEF Calmly, Sound
<1>4. CASE Begins(disk)
  <2>1. Running(disk, surviving) /\ disk.log \in Logs /\ \A j \in surviving : j.tomb = NoTomb /\ j.erasing = 0
    BY <1>4, InBegins, CalmFacts DEF Running
  <2>2. Suits(disk.pending, disk.log, surviving') BY <1>3, <2>1, SuitsGoes DEF Running
  <2>3. \A s \in surviving' : Running(s, surviving') /\ s.root = disk'.root
    BY <1>1, <1>2, <2>1, <2>2 DEF Running
  <2>4. Rooted' BY <2>3 DEF Rooted
  <2> QED BY <1>1, <1>3, <1>4, <2>3, <2>4, SoundBegins DEF Begins
<1>5. CASE Sealing(disk)
  <2>1. \A j \in surviving : Burial(j) /\ j.gen = 1 /\ j.root = disk.root /\ j.log = disk.log BY <1>5, InSealing
  <2>2. disk \in surviving BY CalmFacts
  <2>3. \A s \in surviving' : Burial(s) /\ s.root = disk.root /\ s.log = disk.log
    BY <1>2, <2>1, <2>2 DEF Burial
  <2>4. Sealing(disk') /\ ~Begins(disk') BY <1>1, <1>5 DEF Sealing, Begins
  <2>5. \A s \in surviving' : Behind(s, disk', surviving') BY <1>1, <2>3, <2>4 DEF Behind
  <2> QED BY <1>1, <1>3, <2>4, <2>5, SoundBeyond
<1> QED BY <1>1, <1>4, <1>5, ZoneOf

LEMMA ConfirmCalm == ASSUME Calmly, NEW p \in Proc, Confirm(p) PROVE Goes(p)
<1>1. pc[p] = "confirm" /\ SyncJournal /\ Continue(p) BY DEF Confirm
<1>2. /\ Runs(p) /\ disk.root = "intent" /\ mark \in [Proc -> Markers]
  BY <1>1, CalmFacts DEF Runs, CallType
<1>3. Sound' /\ disk' = disk BY <1>1, <1>2, JournalSyncSound
<1>4. CASE Return(p, "retired") BY <1>3, <1>4, ReturnGoes DEF Goes, Spares
<1>5. CASE mark[p] # Complete
  <2>1. mark[p] \in {NoMarker, Attempt} \/ mark[p].dest = "deleted"
    BY <1>2, <1>5 DEF Markers, NoMarker, Attempt, Complete
  <2>2. PICK step \in {"pass", "unlink", "next"} :
          Goto(p, step) /\ (step = "next" => mark[p].dest = "deleted")
    BY <1>1, <1>5, <2>1, MarkersDiffer DEF Continue
  <2>3. pc'[p] = step BY <2>2, StepOf DEF Goto
  <2>4. Runs(p)' /\ Ends(p)'
    BY <1>1, <1>2, <1>3, <2>2, <2>3 DEF Runs, Ends, Begun, Marking, Burying
  <2> QED BY <1>3, <2>4 DEF Goes, Spares
<1> QED BY <1>1, <1>4, <1>5 DEF Continue

LEMMA RefuseRetainedCalm == ASSUME Calmly, NEW p \in Proc, RefuseRetained(p) PROVE Goes(p)
<1>1. pc[p] = "confirm" /\ SyncJournal /\ Return(p, "none") BY DEF RefuseRetained
<1>2. Runs(p) /\ disk.root = "intent" BY <1>1, CalmFacts DEF Runs
<1>3. Sound' /\ disk' = disk BY <1>1, <1>2, JournalSyncSound
<1> QED BY <1>1, <1>3, ReturnGoes DEF Goes, Spares

LEMMA RetiringCalm ==
  ASSUME Calmly, NEW p \in Proc, StartBelow(p) \/ RetiringBeside(p), Belated PROVE Goes(p)
<1>1. StartBelow(p) => Goes(p) BY StartCalm DEF StartBelow
<1>2. RefuseRetained(p) => Goes(p) BY RefuseRetainedCalm
<1>3. Review(p) \/ CheckControl(p) \/ Initialize(p) \/ MakeTree(p) \/ WriteIntent(p) \/ Open(p) => Goes(p)
  BY ReviewCalm, InitializeCalm, MakeTreeCalm, WriteIntentCalm, OpenCalm
<1>4. Bind(p) \/ Pass(p) \/ Present(p) \/ Absent(p) \/ Recover(p) \/ Unlink(p) \/ ConfirmUnlink(p) => Goes(p)
  BY ObserveCalm, PresentCalm, RecordAbsenceCalm, UnlinkCalm
<1>5. Finish(p) \/ FindComplete(p) \/ Stage(p) \/ Fill(p) \/ Rename(p) \/ Confirm(p) => Goes(p)
  BY ObserveCalm, PresentCalm, StageCalm, FillCalm, RenameCalm, ConfirmCalm
<1> QED BY <1>1, <1>2, <1>3, <1>4, <1>5 DEF RetiringBeside, BoundedRetiring, Retiring

-----------------------------------------------------------------------------
(* Prune and forget, while nothing disturbs them.                          *)

\* A retention command goes on, with or without the lock.
LEMMA StepGoes ==
  ASSUME Calmly, NEW p \in Proc, NEW step \in RetentionUnlocked \cup RetentionHolding, Goto(p, step), Unname,
         Sound', Spares(p), pc'[p] = step /\ named'[p] = named[p] => Ends(p)'
  PROVE  Goes(p)
<1>1. pc' = [pc EXCEPT ![p] = step] /\ step # "idle" BY DEF Goto, RetentionUnlocked, RetentionHolding
<1>2. pc'[p] = step /\ \A q \in Proc \ {p} : pc'[q] = pc[q] BY <1>1, CalmFacts DEF CallType
<1>3. named'[p] = named[p] BY <1>1, <1>2, UnnameKeeps DEF Calmly
<1>4. Runs(p)' BY <1>2 DEF Runs, Begun, Marking, RetentionUnlocked, RetentionHolding
<1> QED BY <1>2, <1>3, <1>4 DEF Goes

\* The target root is synced while no directory went away.
LEMMA TargetSynced ==
  ASSUME Calmly, SyncTarget PROVE disk.gen = 1
<1>1. \A s \in surviving' : s.gen = disk.gen BY CalmFacts, SyncTargetStored
<1> QED BY <1>1 DEF Calmly, Undisturbed

LEMMA TargetSyncSound ==
  ASSUME Calmly, SyncTarget, disk.erasing # 0
  PROVE  Sound' /\ disk' = disk /\ disk.erasing = 1 /\ disk.gen = 1
<1>1. disk.gen = 1 /\ disk.erasing = 1 BY TargetSynced, CalmFacts
<1>2. Erasing(disk) BY <1>1 DEF Erasing
<1>3. /\ Writes({"root", "gen", "erasing", "tomb"}) /\ disk' = disk
      /\ \A s \in surviving' : /\ s.root = disk.root /\ s.gen = disk.gen /\ s.erasing = disk.erasing
                               /\ s.tomb = disk.tomb
  BY CalmFacts, SyncTargetStored
<1>4. Forgotten(disk) BY <1>2, InErasing
<1>5. Plain' BY <1>3, WritesNames, NamesStayGo DEF Calmly, Sound
<1>6. Erasing(disk') /\ ~Begins(disk') BY <1>1, <1>2, <1>3 DEF Begins
<1>7. \A s \in surviving' : Forgotten(s) /\ s.root = disk'.root /\ (disk'.tomb.marks = "none" => s.tomb = NoTomb)
  BY <1>3, <1>4 DEF Forgotten
<1>8. \A s \in surviving' : Behind(s, disk', surviving') BY <1>6, <1>7 DEF Behind
<1> QED BY <1>1, <1>3, <1>5, <1>6, <1>8, SoundBeyond

\* Where there is a tombstone.
LEMMA BuriedZone ==
  ASSUME Calmly, disk.root # "none", disk.tomb.marks # "none"
  PROVE  /\ disk.gen = 1
         /\ \/ Sealing(disk) /\ Burial(disk)
            \/ Erasing(disk) /\ Forgotten(disk) /\ disk.root = "kept"
<1>1. disk.gen = 1 /\ (Sealing(disk) \/ Erasing(disk)) BY ZoneOf, CalmFacts DEF Begins
<1>2. NoTomb.marks = "none" BY DEF NoTomb
<1>3. Erasing(disk) => Forgotten(disk) /\ disk.root = "kept" BY <1>2, InErasing DEF Forgotten
<1> QED BY <1>1, <1>3, InSealing, CalmFacts

\* The tombstone is synced with nothing staged in it.
LEMMA TombSyncSound ==
  ASSUME Calmly, SyncTomb, disk.root # "none", disk.tomb.pending = "none", disk.tomb.marks \in {"intent", "complete"}
  PROVE  Sound' /\ disk' = disk
<1>1. /\ Writes({"root", "tomb"}) /\ disk' = disk
      /\ \A s \in surviving' : \E j \in surviving :
           Keeps({"root", "tomb"}, s, j) /\ Takes({"root", "tomb"}, s, disk)
  BY CalmFacts, SyncShape DEF SyncTomb
<1>2. \A s \in surviving' : \E j \in surviving :
        /\ s.root = disk.root /\ s.tomb = disk.tomb
        /\ s.log = j.log /\ s.pending = j.pending /\ s.gen = j.gen /\ s.erasing = j.erasing
  BY <1>1 DEF Keeps, Takes
<1>3. Plain' BY <1>1, WritesNames, NamesStayGo DEF Calmly, Sound
<1>4. ~Begins(disk') BY <1>1 DEF Begins
<1>5. CASE Sealing(disk) /\ Burial(disk)
  <2>1. \A s \in surviving' : Burial(s) /\ s.root = disk.root /\ s.log = disk.log
    BY <1>2, <1>5, InSealing DEF Burial
  <2>2. \A s \in surviving' : Behind(s, disk', surviving') BY <1>1, <1>5, <2>1 DEF Behind
  <2> QED BY <1>1, <1>3, <1>4, <2>2, SoundBeyond
<1>6. CASE Erasing(disk) /\ Forgotten(disk) /\ disk.root = "kept"
  <2>1. Laid(disk.tomb, "kept") BY DEF Laid
  <2>2. ASSUME NEW s \in surviving' PROVE Behind(s, disk', surviving')
    <3>1. PICK j \in surviving :
            /\ s.root = disk.root /\ s.tomb = disk.tomb
            /\ s.log = j.log /\ s.pending = j.pending /\ s.gen = j.gen /\ s.erasing = j.erasing
      BY <1>2
    <3>2. Burial(j) => Burial(s) BY <1>6, <2>1, <3>1 DEF Burial
    <3>3. Forgotten(j) => Forgotten(s) BY <1>6, <3>1 DEF Forgotten
    <3> QED BY <1>1, <1>6, <3>1, <3>2, <3>3, InErasing DEF Behind
  <2> QED BY <1>1, <1>3, <1>4, <2>2, SoundBeyond
<1> QED BY <1>5, <1>6, BuriedZone

\* A tombstone is written over another, and that may be lost.
LEMMA TombSound ==
  ASSUME Calmly, disk.root # "none", disk.tomb.marks # "none", NEW value \in Tombs, Put("tomb", value),
         Laid(value, disk.root), disk.erasing # 0 => value.pending \in {"none", "complete"}
  PROVE  /\ Sound' /\ disk'.root = disk.root /\ disk'.erasing = disk.erasing /\ disk'.log = disk.log
         /\ disk'.tomb = value
<1>1. Fits("tomb", value) /\ "tomb" \in Writable BY DEF Fits, Writable
<1>2. /\ Writes({"tomb"}) /\ disk'["tomb"] = value
      /\ \A s \in surviving' : s \in surviving \/ \E j \in surviving : Keeps({"tomb"}, s, j) /\ s["tomb"] = value
  BY <1>1, CalmFacts, PutShape
<1>3. /\ disk'.root = disk.root /\ disk'.erasing = disk.erasing /\ disk'.log = disk.log /\ disk'.gen = disk.gen
      /\ disk'.tomb = value
  BY <1>2 DEF Writes, Keeps
<1>4. Plain' BY <1>2, WritesNames, NamesStayGo DEF Calmly, Sound
<1>5. value.marks # "none" BY DEF Laid
<1>6. ~Begins(disk') BY <1>3, <1>5 DEF Begins
<1>7. \A s \in surviving' : s \in surviving \/ \E j \in surviving :
        /\ s.root = j.root /\ s.log = j.log /\ s.pending = j.pending /\ s.gen = j.gen /\ s.erasing = j.erasing
        /\ s.tomb = value
  BY <1>2 DEF Keeps
<1>8. CASE Sealing(disk)
  <2>1. \A j \in surviving : Burial(j) /\ j.root = disk.root /\ j.log = disk.log BY <1>8, InSealing
  <2>2. \A s \in surviving' : Burial(s) /\ s.root = disk.root /\ s.log = disk.log
    BY <1>7, <2>1 DEF Burial
  <2>3. Sealing(disk') BY <1>3, <1>5, <1>8 DEF Sealing
  <2>4. \A s \in surviving' : Behind(s, disk', surviving') BY <1>3, <2>2, <2>3 DEF Behind
  <2> QED BY <1>3, <1>4, <1>6, <2>4, SoundBeyond
<1>9. CASE Erasing(disk) /\ disk.root = "kept"
  <2>1. Erasing(disk') /\ disk.erasing # 0 BY <1>3, <1>9 DEF Erasing
  <2>2. ASSUME NEW s \in surviving' PROVE Behind(s, disk', surviving')
    <3>1. CASE s \in surviving
      <4>1. \/ Burial(s) /\ s.root = "kept"
            \/ Forgotten(s) /\ (disk.root = "kept" => s.root = "kept")
        BY <1>9, <3>1, InErasing
      <4> QED BY <1>3, <1>5, <1>9, <2>1, <4>1 DEF Behind
    <3>2. ASSUME NEW j \in surviving, s.root = j.root, s.log = j.log, s.pending = j.pending, s.gen = j.gen,
                 s.erasing = j.erasing, s.tomb = value
          PROVE  Behind(s, disk', surviving')
      <4>1. j.root = "kept" /\ (Burial(j) \/ Forgotten(j)) BY <1>9, InErasing
      <4>2. Burial(s) \/ Forgotten(s) BY <1>5, <1>9, <2>1, <3>2, <4>1 DEF Burial, Forgotten
      <4> QED BY <1>3, <1>5, <1>9, <2>1, <3>2, <4>1, <4>2 DEF Behind
    <3> QED BY <1>7, <3>1, <3>2
  <2> QED BY <1>3, <1>4, <1>6, <2>2, SoundBeyond
<1> QED BY <1>3, <1>8, <1>9, BuriedZone

LEMMA StageTombCalm == ASSUME Calmly, NEW p \in Proc, StageTomb(p), Unname PROVE Goes(p)
<1>1. pc[p] = "tomb" /\ reused' = (reused \/ RestsOnUnsynced) BY DEF StageTomb
<1>2. /\ Buries(p) /\ Ends(p) /\ disk.tomb \in Tombs /\ lock = p /\ pc[p] \in Burying
      /\ {"tomb", "tomb_fill", "tomb_commit"} \subseteq RetentionUnlocked \cup RetentionHolding
  BY <1>1, CalmFacts, HoldersLock DEF Calmly, Locked, RetentionHolding, Burying
<1>3. /\ disk.root # "none"
      /\ IF named[p] = 0
         THEN disk.tomb.marks \in {"none", "dir"} \/ (disk.tomb.marks = "intent" /\ disk.root = "kept")
         ELSE disk.tomb.marks = "complete" /\ named[p] = disk.gen
      /\ IF named[p] = 0
         THEN disk.tomb.marks \in {"none", "dir"} => disk.erasing = 0 /\ disk.root = "intent" /\ disk.log.done
         ELSE disk.erasing = 0
  BY <1>2 DEF Buries, Ends
<1>4. CASE disk.tomb.marks = "none" /\ PutDurably("tomb", [NoTomb EXCEPT !.marks = "dir"]) /\ Step(p, "tomb")
  <2> DEFINE made == [NoTomb EXCEPT !.marks = "dir"]
  <2>1. made \in Tombs /\ made.marks = "dir" /\ made.pending = "none" BY DEF NoTomb, Tombs
  <2>2. PutDurably("tomb", made) BY <1>4
  <2> HIDE DEF made
  <2>3. Fits("tomb", made) /\ "tomb" \in Writable BY <2>1 DEF Fits, Writable
  <2>4. /\ Writes({"tomb"}) /\ disk'["tomb"] = made
        /\ \A s \in surviving' : \E j \in surviving : Keeps({"tomb"}, s, j) /\ s["tomb"] = made
    BY <2>2, <2>3, CalmFacts, PutDurablyShape
  <2>5. /\ disk'.root = disk.root /\ disk'.erasing = disk.erasing /\ disk'.log = disk.log /\ disk'.gen = disk.gen
        /\ disk'.tomb = made
    BY <2>4 DEF Writes, Keeps
  <2>6. Plain' BY <2>4, WritesNames, NamesStayGo DEF Calmly, Sound
  <2>7. Begins(disk) /\ disk.root = "intent" /\ disk.log.done /\ named[p] = 0
    BY <1>3, <1>4, CalmFacts DEF Begins
  <2>8. \A j \in surviving : j.log = disk.log
    BY <1>1, <1>4 DEF Calmly, Undisturbed, RestsOnUnsynced
  <2>9. \A j \in surviving : j.root = disk.root
    <3>1. ~NoLog.done BY DEF NoLog
    <3> QED BY <2>7, <2>8, <3>1 DEF Calmly, Sound, Rooted
  <2>10. \A j \in surviving : Running(j, surviving) BY <2>7, InBegins
  <2>11. \A s \in surviving' : Burial(s) /\ s.root = disk.root /\ s.log = disk.log
    <3>1. SUFFICES ASSUME NEW s \in surviving' PROVE Burial(s) /\ s.root = disk.root /\ s.log = disk.log
      OBVIOUS
    <3>2. PICK j \in surviving :
            s.root = j.root /\ s.log = j.log /\ s.pending = j.pending /\ s.erasing = j.erasing /\ s.tomb = made
      BY <2>4 DEF Keeps
    <3>3. Laid(s.tomb, "intent") BY <2>1, <3>2 DEF Laid
    <3>4. j.pending = NoScratch BY <2>7, <2>8, <2>10 DEF Running, Suits
    <3> QED BY <2>7, <2>8, <2>9, <2>10, <3>2, <3>3, <3>4 DEF Burial, Running
  <2>12. Sealing(disk') /\ ~Begins(disk') BY <2>1, <2>5, <2>7 DEF Sealing, Begins
  <2>13. \A s \in surviving' : Behind(s, disk', surviving') BY <2>5, <2>11, <2>12 DEF Behind
  <2>14. Sound' BY <2>6, <2>12, <2>13, SoundBeyond
  <2>15. pc'[p] = "tomb" /\ named'[p] = named[p] => Ends(p)' BY <1>3, <2>5, <2>7 DEF Ends, Burying
  <2>16. Spares(p) BY <1>2, <2>5 DEF Spares
  <2> QED BY <1>2, <1>4, <2>14, <2>15, <2>16, StepGoes DEF Step
<1>5. CASE /\ disk.tomb.marks # "none" /\ disk.tomb.pending = "none"
           /\ Put("tomb", [disk.tomb EXCEPT !.pending = Target(p)]) /\ Step(p, "tomb_fill")
  <2> DEFINE staged == [disk.tomb EXCEPT !.pending = Target(p)]
  <2>1. staged \in Tombs /\ staged.marks = disk.tomb.marks /\ staged.pending = Target(p)
    BY <1>2 DEF Tombs, Target
  <2>2. Put("tomb", staged) BY <1>5
  <2> HIDE DEF staged
  <2>3. \/ Sealing(disk) /\ Burial(disk)
        \/ Erasing(disk) /\ Forgotten(disk) /\ disk.root = "kept"
    BY <1>3, <1>5, BuriedZone
  <2>4. disk.erasing # 0 => disk.tomb.marks = "intent" /\ disk.root = "kept" /\ named[p] = 0
    BY <1>3, <1>5
  <2>5. Laid(staged, disk.root)
    <3>1. CASE Sealing(disk) /\ Burial(disk)
      <4>1. Laid(disk.tomb, disk.root) BY <3>1 DEF Burial
      <4> QED BY <1>3, <2>1, <4>1 DEF Laid, Target
    <3>2. CASE Erasing(disk) BY <2>1, <2>4, <3>2 DEF Laid, Target, Erasing
    <3> QED BY <2>3, <3>1, <3>2
  <2>6. disk.erasing # 0 => staged.pending \in {"none", "complete"} BY <2>1, <2>4 DEF Target
  <2>7. /\ Sound' /\ disk'.root = disk.root /\ disk'.erasing = disk.erasing /\ disk'.log = disk.log
        /\ disk'.tomb = staged
    BY <1>3, <1>5, <2>1, <2>2, <2>5, <2>6, TombSound
  <2>8. pc'[p] = "tomb_fill" /\ named'[p] = named[p] => Ends(p)' BY <1>3, <2>1, <2>7 DEF Ends, Burying
  <2>9. Spares(p) BY <1>2, <2>7 DEF Spares
  <2> QED BY <1>2, <1>5, <2>7, <2>8, <2>9, StepGoes DEF Step
<1>6. CASE Read(p, "tomb_commit")
  <2>1. UNCHANGED diskVars BY <1>6 DEF Read
  <2>2. pc'[p] = "tomb_commit" /\ named'[p] = named[p] => Ends(p)' BY <1>3, <2>1 DEF Ends, Burying, diskVars
  <2> QED BY <1>2, <1>6, <2>1, <2>2, StutterSound, StepGoes DEF Read, Step
<1> QED BY <1>4, <1>5, <1>6 DEF StageTomb

\* What the completion of staged bytes leaves of an image.
LEMMA FilledFields ==
  ASSUME NEW j \in Images
  PROVE  LET s == [j EXCEPT !.tomb.whole = (j.tomb.pending # "none")]
         IN  /\ s.root = j.root /\ s.log = j.log /\ s.pending = j.pending /\ s.name = j.name /\ s.gen = j.gen
             /\ s.erasing = j.erasing /\ s.tomb.marks = j.tomb.marks /\ s.tomb.pending = j.tomb.pending
             /\ j.tomb = NoTomb => s.tomb = NoTomb
<1> DEFINE s == [j EXCEPT !.tomb.whole = (j.tomb.pending # "none")]
<1>1. /\ s.root = j.root /\ s.log = j.log /\ s.pending = j.pending /\ s.name = j.name /\ s.gen = j.gen
      /\ s.erasing = j.erasing /\ s.tomb = [j.tomb EXCEPT !.whole = (j.tomb.pending # "none")]
  BY DEF Images
<1>2. j.tomb \in Tombs BY ImageFields
<1>3. s.tomb.marks = j.tomb.marks /\ s.tomb.pending = j.tomb.pending BY <1>1, <1>2 DEF Tombs
<1>4. j.tomb = NoTomb => s.tomb = NoTomb
  <2>1. SUFFICES ASSUME j.tomb = NoTomb PROVE s.tomb = NoTomb OBVIOUS
  <2>2. (j.tomb.pending # "none") = FALSE BY <2>1 DEF NoTomb
  <2>3. NoTomb = [NoTomb EXCEPT !.whole = FALSE]
    <3>1. \A t \in Tombs : t.whole = FALSE => t = [t EXCEPT !.whole = FALSE] BY DEF Tombs
    <3>2. NoTomb.whole = FALSE BY DEF NoTomb
    <3> QED BY <1>2, <2>1, <3>1, <3>2
  <2>4. s.tomb = [j.tomb EXCEPT !.whole = FALSE] BY <1>1, <2>2, Zenon
  <2> QED BY <2>1, <2>3, <2>4
<1> QED BY <1>1, <1>3, <1>4

LEMMA FillTombCalm == ASSUME Calmly, NEW p \in Proc, FillTomb(p), Unname PROVE Goes(p)
<1> DEFINE filled(j) == [j EXCEPT !.tomb.whole = (j.tomb.pending # "none")]
<1>1. /\ pc[p] = "tomb_fill" /\ Goto(p, "tomb_commit")
      /\ disk' = filled(disk) /\ surviving' = {filled(j) : j \in surviving}
  BY DEF FillTomb, Step
<1>2. /\ Buries(p) /\ Ends(p) /\ lock = p /\ pc[p] \in Burying
      /\ "tomb_commit" \in RetentionUnlocked \cup RetentionHolding
  BY <1>1, CalmFacts, HoldersLock DEF Calmly, Locked, RetentionHolding, Burying
<1>3. disk.root # "none" /\ disk.tomb.marks # "none" BY <1>1, <1>2 DEF Buries
<1>4. \A j \in surviving :
        LET s == filled(j)
        IN  /\ s.root = j.root /\ s.log = j.log /\ s.pending = j.pending /\ s.name = j.name /\ s.gen = j.gen
            /\ s.erasing = j.erasing /\ s.tomb.marks = j.tomb.marks /\ s.tomb.pending = j.tomb.pending
            /\ j.tomb = NoTomb => s.tomb = NoTomb
  BY CalmFacts, FilledFields
<1> HIDE DEF filled
<1>5. /\ disk'.root = disk.root /\ disk'.log = disk.log /\ disk'.gen = disk.gen /\ disk'.erasing = disk.erasing
      /\ disk'.tomb.marks = disk.tomb.marks
  BY <1>1, <1>4, CalmFacts
<1>6. NamesStay BY <1>1, <1>4 DEF NamesStay
<1>7. Plain' BY <1>6, NamesStayGo DEF Calmly, Sound
<1>8. \A j \in surviving : (Burial(j) => Burial(filled(j))) /\ (Forgotten(j) => Forgotten(filled(j)))
  <2>1. \A j \in surviving : Burial(j) => Burial(filled(j)) BY <1>4 DEF Burial, Laid
  <2>2. \A j \in surviving : Forgotten(j) => Forgotten(filled(j)) BY <1>4 DEF Forgotten
  <2> QED BY <2>1, <2>2
<1>9. \A s \in surviving' : Behind(s, disk', surviving')
  <2>1. SUFFICES ASSUME NEW j \in surviving PROVE Behind(filled(j), disk', surviving') BY <1>1
  <2>2. CASE Sealing(disk)
    <3>1. Sealing(disk') BY <1>5, <2>2 DEF Sealing
    <3> QED BY <1>4, <1>5, <1>8, <2>2, <3>1, InSealing DEF Behind
  <2>3. CASE Erasing(disk)
    <3>1. Erasing(disk') BY <1>5, <2>3 DEF Erasing
    <3>2. \/ Burial(j) /\ j.root = "kept" /\ disk.root = "kept"
          \/ Forgotten(j) /\ (disk.root = "kept" => j.root = "kept")
      BY <2>3, InErasing
    <3> QED BY <1>3, <1>4, <1>5, <1>8, <3>1, <3>2 DEF Behind
  <2> QED BY <1>3, <2>2, <2>3, BuriedZone
<1>10. ~Begins(disk') BY <1>3, <1>5 DEF Begins
<1>11. Sound' BY <1>7, <1>9, <1>10, SoundBeyond
<1>12. pc'[p] = "tomb_commit" /\ named'[p] = named[p] => Ends(p)' BY <1>2, <1>5 DEF Ends, Burying
<1>13. Spares(p) BY <1>2, <1>5 DEF Spares
<1> QED BY <1>1, <1>2, <1>11, <1>12, <1>13, StepGoes

LEMMA CommitTombCalm == ASSUME Calmly, NEW p \in Proc, CommitTomb(p), Unname PROVE Goes(p)
<1>1. pc[p] = "tomb_commit" /\ Goto(p, "tomb_confirm") BY DEF CommitTomb, Step
<1>2. /\ Buries(p) /\ Ends(p) /\ lock = p /\ pc[p] \in Burying
      /\ "tomb_confirm" \in RetentionUnlocked \cup RetentionHolding
  BY <1>1, CalmFacts, HoldersLock DEF Calmly, Locked, RetentionHolding, Burying
<1>3. /\ disk.root # "none" /\ disk.tomb.marks # "none" /\ disk.tomb.pending = Target(p)
      /\ IF named[p] = 0
         THEN disk.tomb.marks \in {"none", "dir"} \/ (disk.tomb.marks = "intent" /\ disk.root = "kept")
         ELSE disk.tomb.marks = "complete" /\ named[p] = disk.gen
      /\ named[p] = 0 /\ disk.tomb.marks \in {"none", "dir"} => disk.erasing = 0 /\ disk.root = "intent"
  BY <1>1, <1>2 DEF Buries, Ends
<1>4. pc'[p] = "tomb_confirm" => Ends(p)' BY DEF Ends, Burying
<1>5. CASE named[p] = 0 /\ Put("tomb", [NoTomb EXCEPT !.marks = disk.tomb.pending])
  <2> DEFINE committed == [NoTomb EXCEPT !.marks = disk.tomb.pending]
  <2>1. /\ committed \in Tombs /\ committed.pending = "none"
        /\ committed.marks = (IF disk.tomb.marks = "intent" THEN "complete" ELSE "intent")
    BY <1>3, <1>5 DEF NoTomb, Tombs, Target
  <2>2. Put("tomb", committed) BY <1>5
  <2> HIDE DEF committed
  <2>3. Laid(committed, disk.root) BY <1>3, <1>5, <2>1 DEF Laid
  <2>4. /\ Sound' /\ disk'.root = disk.root /\ disk'.erasing = disk.erasing /\ disk'.log = disk.log
    BY <1>3, <2>1, <2>2, <2>3, TombSound
  <2>5. Spares(p) BY <1>2, <2>4 DEF Spares
  <2> QED BY <1>1, <1>2, <1>4, <2>4, <2>5, StepGoes
<1>6. CASE named[p] # 0
  <2> DEFINE buried == [NoTomb EXCEPT !.marks = "complete"]
             published(j) == [j EXCEPT !.tomb = buried, !.erasing = disk.gen]
  <2>1. /\ disk' = published(disk) /\ surviving' = surviving \cup {published(j) : j \in surviving}
        /\ disk.erasing = 0
    BY <1>6 DEF CommitTomb
  <2>2. buried.marks = "complete" /\ buried.pending = "none" BY DEF NoTomb
  <2>3. \A j \in surviving :
          /\ published(j).root = j.root /\ published(j).tomb = buried /\ published(j).erasing = disk.gen
          /\ published(j).gen = j.gen /\ published(j).name = j.name /\ published(j).log = j.log
    BY CalmFacts DEF Images
  <2> HIDE DEF published, buried
  <2>4. Sealing(disk) /\ Burial(disk) BY <1>3, <2>1, BuriedZone DEF Erasing
  <2>5. disk.root = "kept" /\ disk.gen = 1 BY <1>3, <1>6, <2>4 DEF Burial, Laid, Sealing
  <2>6. \A j \in surviving : Burial(j) /\ j.gen = 1 /\ j.root = "kept" BY <2>4, <2>5, InSealing
  <2>7. /\ disk'.root = "kept" /\ disk'.erasing = 1 /\ disk'.gen = 1 /\ disk'.tomb.marks = "complete"
    BY <2>1, <2>2, <2>3, <2>5, CalmFacts
  <2>8. Erasing(disk') /\ ~Begins(disk') BY <2>7 DEF Erasing, Begins
  <2>9. \A j \in surviving : Forgotten(published(j)) /\ published(j).root = "kept"
    BY <2>2, <2>3, <2>5, <2>6 DEF Forgotten
  <2>10. \A s \in surviving' : Behind(s, disk', surviving')
    BY <2>1, <2>6, <2>7, <2>8, <2>9 DEF Behind
  <2>11. NamesStay BY <2>1, <2>3 DEF NamesStay
  <2>12. Sound' BY <2>8, <2>10, <2>11, NamesStayGo, SoundBeyond DEF Calmly, Sound
  <2>13. Spares(p) BY <1>2, <2>7 DEF Spares
  <2> QED BY <1>1, <1>2, <1>4, <2>12, <2>13, StepGoes
<1> QED BY <1>5, <1>6 DEF CommitTomb

LEMMA ConfirmTombCalm == ASSUME Calmly, NEW p \in Proc, ConfirmTomb(p), Unname PROVE Goes(p)
<1>1. pc[p] = "tomb_confirm" BY DEF ConfirmTomb
<1>2. /\ Buries(p) /\ {"strip", "erase"} \subseteq RetentionUnlocked \cup RetentionHolding
      /\ disk.gen \in Nat \ {0}
  BY CalmFacts DEF RetentionHolding
<1>3. /\ disk.root # "none" /\ (named[p] = 0 => disk.tomb.pending = "none")
      /\ named[p] # 0 => disk.erasing # 0
  BY <1>1, <1>2 DEF Buries
<1>4. CASE named[p] = 0 /\ disk.tomb.marks = "intent" /\ SyncTomb /\ Step(p, "strip")
  <2>1. Sound' /\ disk' = disk BY <1>3, <1>4, TombSyncSound
  <2>2. pc'[p] = "strip" => Ends(p)' BY DEF Ends, Burying
  <2> QED BY <1>2, <1>4, <2>1, <2>2, StepGoes DEF Step, Spares
<1>5. CASE named[p] = 0 /\ disk.tomb.marks = "complete" /\ SyncTomb /\ Return(p, "pruned")
  <2>1. Sound' /\ disk' = disk BY <1>3, <1>5, TombSyncSound
  <2> QED BY <1>5, <2>1, ReturnGoes DEF Goes, Spares
<1>6. CASE named[p] # 0 /\ SyncTarget /\ Step(p, "erase")
  <2>1. Sound' /\ disk' = disk BY <1>3, <1>6, TargetSyncSound
  <2>2. pc'[p] = "erase" => Ends(p)' BY DEF Ends, Burying
  <2> QED BY <1>2, <1>6, <2>1, <2>2, StepGoes DEF Step, Spares
<1> QED BY <1>4, <1>5, <1>6 DEF ConfirmTomb

LEMMA PruneOpensCalm == ASSUME Calmly, NEW p \in Proc, PruneOpens(p), Unname PROVE Goes(p)
<1>1. pc[p] = "prune_open" /\ lock = Nobody /\ disk.root # "none" BY DEF PruneOpens, Lockable
<1>2. named[p] = 0 /\ {"tomb", "strip"} \subseteq RetentionUnlocked \cup RetentionHolding
  BY <1>1, CalmFacts DEF Buries, Burying, Forgetting, RetentionHolding
<1>3. CASE Unsealed(disk) /\ Goto(p, "tomb") /\ UNCHANGED diskVars
  <2>1. disk.root = "intent" /\ disk.log.done BY <1>3 DEF Unsealed, Loads
  <2>2. disk.erasing = 0 BY <2>1, ZoneOf
  <2>3. pc'[p] = "tomb" /\ named'[p] = named[p] => Ends(p)' BY <1>2, <1>3, <2>1, <2>2 DEF Ends, Burying, diskVars
  <2> QED BY <1>2, <1>3, <2>3, StutterSound, StepGoes
<1>4. CASE Sealed(disk) /\ Goto(p, "strip") /\ SyncTomb
  <2>1. Sound' /\ disk' = disk BY <1>1, <1>4, TombSyncSound DEF Sealed
  <2>2. pc'[p] = "strip" => Ends(p)' BY DEF Ends, Burying
  <2> QED BY <1>2, <1>4, <2>1, <2>2, StepGoes DEF Spares
<1>5. CASE Retained(disk) /\ SyncTomb /\ Return(p, "pruned")
  <2>1. Sound' /\ disk' = disk BY <1>1, <1>5, TombSyncSound DEF Retained, Tombstone
  <2> QED BY <1>5, <2>1, ReturnGoes DEF Goes, Spares
<1> QED BY <1>3, <1>4, <1>5 DEF PruneOpens

\* The directory loses what only its journal needed, in every image.
LEMMA StrippedSound ==
  ASSUME Calmly, Sealing(disk), NEW part \in {"root", "log"}, NEW value, Fits(part, value), PutDurably(part, value),
         disk.tomb.marks = "intent", \A j \in surviving : j.tomb = disk.tomb,
         disk'.root \in {"noscratch", "headless", "kept"}
  PROVE  Sound' /\ disk'.erasing = disk.erasing
<1>1. part \in Writable BY DEF Writable
<1>2. /\ Writes({part}) /\ disk'[part] = value
      /\ \A s \in surviving' : \E j \in surviving : Keeps({part}, s, j) /\ s[part] = value
  BY <1>1, CalmFacts, PutDurablyShape
<1>3. /\ disk'.erasing = disk.erasing /\ disk'.tomb = disk.tomb /\ disk'.gen = disk.gen
      /\ "root" # part => disk'.root = disk.root
      /\ "log" # part => disk'.log = disk.log
  BY <1>2 DEF Writes, Keeps
<1>4. \A j \in surviving : Burial(j) /\ j.gen = 1 /\ j.root = disk.root /\ j.log = disk.log BY InSealing
<1>5. \A s \in surviving' : \E j \in surviving :
        /\ s.tomb = j.tomb /\ s.erasing = j.erasing /\ s.pending = j.pending
        /\ s.root = (IF part = "root" THEN value ELSE j.root)
        /\ s.log = (IF part = "log" THEN value ELSE j.log)
  BY <1>2 DEF Keeps
<1>6. disk'.root = (IF part = "root" THEN value ELSE disk.root)
      /\ disk'.log = (IF part = "log" THEN value ELSE disk.log)
  BY <1>2, <1>3
<1>7. \A s \in surviving' : s.tomb = disk.tomb /\ s.root = disk'.root /\ s.log = disk'.log
                            /\ s.erasing = 0 /\ s.pending = NoScratch
  BY <1>4, <1>5, <1>6 DEF Burial
<1>8. disk.tomb.pending \in {"none", "complete"} BY <1>4, CalmFacts DEF Burial, Laid
<1>9. \A s \in surviving' : Burial(s) BY <1>7, <1>8 DEF Burial, Laid
<1>10. Sealing(disk') /\ ~Begins(disk') BY <1>3 DEF Sealing, Begins
<1>11. \A s \in surviving' : Behind(s, disk', surviving') BY <1>7, <1>9, <1>10 DEF Behind
<1>12. Plain' BY <1>2, WritesNames, NamesStayGo DEF Calmly, Sound
<1> QED BY <1>3, <1>10, <1>11, <1>12, SoundBeyond

LEMMA StripCalm == ASSUME Calmly, NEW p \in Proc, Strip(p), Unname PROVE Goes(p)
<1>1. pc[p] = "strip" BY DEF Strip
<1>2. /\ Buries(p) /\ lock = p /\ {"tomb", "strip"} \subseteq RetentionUnlocked \cup RetentionHolding
      /\ disk \in Images /\ disk.log \in Logs
  BY <1>1, CalmFacts, HoldersLock DEF Calmly, Locked, RetentionHolding
<1>3. /\ disk.tomb.marks = "intent" /\ disk.tomb.pending = "none" /\ disk.root # "none"
      /\ \A j \in surviving : j.tomb = disk.tomb
  BY <1>1, <1>2 DEF Buries
<1>4. disk.root \in {"intent", "noscratch", "headless"} => Sealing(disk) BY <1>3, ZoneOf DEF Begins
<1>5. disk.root # "tree" BY <1>3, ZoneOf DEF Begins
<1>6. ASSUME disk.root \in {"intent", "noscratch", "headless"}, NEW part \in {"root", "log"}, NEW value,
             Fits(part, value), PutDurably(part, value), disk'.root \in {"noscratch", "headless", "kept"}, Step(p, "strip")
      PROVE  Goes(p)
  <2>1. Sound' /\ disk'.erasing = disk.erasing BY <1>3, <1>4, <1>6, StrippedSound
  <2>2. Spares(p) BY <1>2, <1>6, <2>1 DEF Spares
  <2>3. pc'[p] = "strip" => Ends(p)' BY DEF Ends, Burying
  <2> QED BY <1>2, <1>6, <2>1, <2>2, <2>3, StepGoes DEF Step
<1>7. ASSUME disk.root \in {"intent", "noscratch", "headless"}, NEW value \in {"noscratch", "headless", "kept"},
             PutDurably("root", value), Step(p, "strip")
      PROVE  Goes(p)
  <2>1. disk'.root = value BY <1>2, <1>7 DEF PutDurably, Images
  <2> QED BY <1>6, <1>7, <2>1, RootFits
<1>8. ASSUME disk.root \in {"noscratch", "headless"}, disk.log # NoLog, PutDurably("log", Peeled(disk.log)), Step(p, "strip")
      PROVE  Goes(p)
  <2>1. disk'.root = disk.root BY <1>2, <1>8 DEF PutDurably, Images
  <2>2. Fits("log", Peeled(disk.log)) BY <1>2, <1>8, PeeledFields DEF Fits
  <2> QED BY <1>6, <1>8, <2>1, <2>2
<1>9. CASE disk.root = "kept" /\ Read(p, "tomb")
  <2>1. UNCHANGED diskVars /\ Goto(p, "tomb") BY <1>9 DEF Read, Step
  <2>2. named[p] = 0 BY <1>1, <1>2 DEF Buries, Burying, Forgetting
  <2>3. pc'[p] = "tomb" /\ named'[p] = named[p] => Ends(p)' BY <1>3, <2>1, <2>2 DEF Ends, Burying, diskVars
  <2> QED BY <1>2, <2>1, <2>3, StutterSound, StepGoes
<1>10. disk.log.deleted > 0 => disk.log # NoLog BY DEF NoLog
<1> QED BY <1>5, <1>7, <1>8, <1>9, <1>10 DEF Strip

-----------------------------------------------------------------------------
(* Forget, while nothing disturbs it.                                      *)

\* The directory goes, and with it the first incarnation.
LEMMA VanishesSound ==
  ASSUME Calmly, Vanishes, Erasing(disk), disk.root = "bare"
  PROVE  Sound' /\ disk'.root = "none" /\ disk'.erasing = disk.erasing
<1>1. /\ Writes({"root", "gen"}) /\ disk'.gen = disk.gen + 1 /\ disk'.root = "none"
      /\ disk'.erasing = disk.erasing
      /\ \A s \in surviving' : s \in surviving \/ s.gen = disk.gen + 1
  BY CalmFacts, VanishesStored
<1>2. disk.gen = 1 BY DEF Erasing
<1>3. disk.tomb.marks = "none" BY InErasing DEF Forgotten, NoTomb
<1>4. \A j \in surviving : Forgotten(j) /\ j.tomb = NoTomb BY <1>3, InErasing
<1>5. \A s \in surviving' : s.gen = 1 => Behind(s, disk', surviving') BY <1>1, <1>2, <1>4 DEF Behind
<1>6. Plain' BY <1>1, WritesNames, NamesStayGo DEF Calmly, Sound
<1>7. ~Begins(disk') BY <1>1, <1>2 DEF Begins
<1> QED BY <1>1, <1>5, <1>6, <1>7, SoundBeyond

\* A forget that came after the first incarnation found nothing of it.
LEMMA NamesFirst ==
  ASSUME Calmly, NEW p \in Proc, pc[p] \in Forgetting
  PROVE  /\ named[p] \in Nat \ {0}
         /\ disk.gen = 1 => named[p] = 1 /\ disk.root # "none"
         /\ pc[p] \notin {"look", "unmark", "report"}
<1>1. Erases(p) /\ named[p] \in Nat /\ named[p] # 0 /\ disk.gen \in Nat
  BY CalmFacts, MaxIncarnationsAssumption DEF CallType, Erases
<1>2. PICK j \in surviving : j.gen = 1 BY DEF Calmly, Undisturbed
<1>3. disk.gen = 1 => named[p] = 1 /\ disk.root # "none" BY <1>1 DEF Erases
<1>4. pc[p] \notin {"look", "unmark", "report"} BY <1>1, <1>2 DEF Erases
<1> QED BY <1>1, <1>3, <1>4

LEMMA EraseOpensCalm == ASSUME Calmly, NEW p \in Proc, EraseOpens(p), Unname PROVE Goes(p)
<1>1. pc[p] = "erase_open" /\ pc[p] \in Forgetting BY DEF EraseOpens, Forgetting
<1>2. /\ Ends(p) /\ {"vanish", "erase"} \subseteq RetentionUnlocked \cup RetentionHolding
      /\ named[p] \in Nat \ {0} /\ (disk.gen = 1 => named[p] = 1 /\ disk.root # "none")
  BY <1>1, CalmFacts, NamesFirst DEF RetentionUnlocked, RetentionHolding
<1>3. ASSUME disk.root = "none", SyncTarget PROVE FALSE BY <1>2, <1>3, TargetSynced
<1>4. CASE disk.root = "bare" /\ lock = Nobody /\ Vanishes /\ Step(p, "vanish")
  <2>1. disk.gen = 1 /\ named[p] = 1 /\ disk.erasing = 1 BY <1>1, <1>2, <1>4, CalmFacts DEF Ends
  <2>2. Sound' /\ disk'.root = "none" /\ disk'.erasing = disk.erasing
    BY <1>4, <2>1, VanishesSound DEF Erasing
  <2>3. Spares(p) BY <1>4, <2>2 DEF Spares
  <2>4. pc'[p] = "vanish" => Ends(p)' BY DEF Ends, Burying
  <2> QED BY <1>2, <1>4, <2>2, <2>3, <2>4, StepGoes DEF Step
<1>5. CASE disk.erasing = named[p] /\ SyncTarget /\ Goto(p, "erase")
  <2>1. Sound' /\ disk' = disk BY <1>2, <1>5, TargetSyncSound
  <2>2. pc'[p] = "erase" => Ends(p)' BY DEF Ends, Burying
  <2> QED BY <1>2, <1>5, <2>1, <2>2, StepGoes DEF Spares
<1> QED BY <1>3, <1>4, <1>5 DEF EraseOpens

LEMMA EraseCalm == ASSUME Calmly, NEW p \in Proc, Erase(p), Unname PROVE Goes(p)
<1>1. pc[p] = "erase" /\ disk.tomb.pending = "none" BY DEF Erase
<1>2. /\ Erases(p) /\ lock = p /\ {"vanish", "erase"} \subseteq RetentionUnlocked \cup RetentionHolding
      /\ disk.tomb \in Tombs /\ disk.gen \in Nat /\ disk \in surviving
  BY <1>1, CalmFacts, HoldersLock DEF Calmly, Locked, RetentionUnlocked, RetentionHolding
<1>3. disk.gen = 1 /\ \A j \in surviving : j.gen = 1 /\ j.erasing = 1 BY <1>1, <1>2, CalmFacts DEF Erases
<1>4. Erasing(disk) BY <1>2, <1>3 DEF Erasing
<1>5. \A j \in surviving : /\ Forgotten(j) /\ (disk.root = "kept" => j.root = "kept")
                           /\ disk.tomb.marks = "none" => j.tomb = NoTomb
  BY <1>3, <1>4, InErasing DEF Burial
<1>6. \A step : pc'[p] = step /\ step \in {"erase", "vanish"} => Ends(p)' BY DEF Ends, Burying
<1>7. CASE disk.tomb.marks # "none" /\ PutDurably("tomb", Exhumed(disk.tomb)) /\ Step(p, "erase")
  <2> DEFINE exhumed == Exhumed(disk.tomb)
  <2>1. exhumed \in Tombs /\ exhumed.pending = "none" /\ (exhumed.marks = "none" => exhumed = NoTomb)
    <3>1. disk.tomb.marks \in {"complete", "intent", "dir"} BY <1>2, <1>7 DEF Tombs
    <3>2. CASE disk.tomb.marks = "complete" BY <1>1, <1>2, <3>2 DEF Exhumed, Tombs
    <3>3. CASE disk.tomb.marks = "intent" BY <1>1, <1>2, <3>3 DEF Exhumed, Tombs
    <3>4. CASE disk.tomb.marks = "dir" BY <3>4 DEF Exhumed, NoTomb, Tombs
    <3> QED BY <3>1, <3>2, <3>3, <3>4
  <2>2. PutDurably("tomb", exhumed) BY <1>7
  <2> HIDE DEF exhumed
  <2>3. Fits("tomb", exhumed) /\ "tomb" \in Writable BY <2>1 DEF Fits, Writable
  <2>4. /\ Writes({"tomb"}) /\ disk'["tomb"] = exhumed
        /\ \A s \in surviving' : \E j \in surviving : Keeps({"tomb"}, s, j) /\ s["tomb"] = exhumed
    BY <2>2, <2>3, CalmFacts, PutDurablyShape
  <2>5. disk'.root = disk.root /\ disk'.erasing = disk.erasing /\ disk'.gen = disk.gen /\ disk'.log = disk.log
    BY <2>4 DEF Writes, Keeps
  <2>6. disk.root = "kept" /\ NoTomb.marks = "none" BY <1>2, <1>5, <1>7 DEF Forgotten, NoTomb
  <2>7. \A s \in surviving' : Forgotten(s) /\ s.root = "kept" /\ s.tomb = exhumed
    <3>1. \A s \in surviving' : \E j \in surviving :
            s.root = j.root /\ s.gen = j.gen /\ s.erasing = j.erasing /\ s.tomb = exhumed
      BY <2>4 DEF Keeps
    <3> QED BY <1>5, <2>1, <2>6, <3>1 DEF Forgotten
  <2>8. Erasing(disk') /\ ~Begins(disk') BY <1>4, <2>5 DEF Erasing, Begins
  <2>9. \A s \in surviving' : Behind(s, disk', surviving') BY <2>1, <2>4, <2>7, <2>8 DEF Behind
  <2>10. Plain' BY <2>4, WritesNames, NamesStayGo DEF Calmly, Sound
  <2>11. Sound' BY <2>8, <2>9, <2>10, SoundBeyond
  <2>12. Spares(p) BY <1>2, <2>5 DEF Spares
  <2> QED BY <1>2, <1>6, <1>7, <2>11, <2>12, StepGoes DEF Step
<1>8. CASE disk.tomb.marks = "none" /\ disk.root = "kept" /\ Put("root", "bare") /\ Step(p, "erase")
  <2>1. /\ Writes({"root"}) /\ disk'.root = "bare" /\ Plain' /\ disk'.tomb = disk.tomb /\ disk'.gen = disk.gen
        /\ disk'.erasing = disk.erasing
        /\ \A s \in surviving' : \E j \in surviving :
             s.tomb = j.tomb /\ s.gen = j.gen /\ s.erasing = j.erasing /\ (s.root = "bare" \/ s.root = j.root)
    BY <1>8, PutRootShape
  <2>2. NoTomb.pending = "none" BY DEF NoTomb
  <2>3. \A s \in surviving' : Forgotten(s) /\ s.tomb = NoTomb BY <1>5, <1>8, <2>1, <2>2 DEF Forgotten
  <2>4. Erasing(disk') /\ ~Begins(disk') BY <1>4, <2>1 DEF Erasing, Begins
  <2>5. \A s \in surviving' : Behind(s, disk', surviving') BY <2>1, <2>3, <2>4 DEF Behind
  <2>6. Sound' BY <2>1, <2>4, <2>5, SoundBeyond
  <2>7. Spares(p) BY <1>2, <2>1 DEF Spares
  <2> QED BY <1>2, <1>6, <1>8, <2>6, <2>7, StepGoes DEF Step
<1>9. CASE disk.root = "bare" /\ Vanishes /\ Goto(p, "vanish")
  <2>1. Sound' /\ disk'.root = "none" /\ disk'.erasing = disk.erasing BY <1>4, <1>9, VanishesSound
  <2>2. Spares(p) BY <1>2, <2>1 DEF Spares
  <2> QED BY <1>2, <1>6, <1>9, <2>1, <2>2, StepGoes
<1> QED BY <1>7, <1>8, <1>9 DEF Erase

LEMMA RetainingCalm == ASSUME Calmly, NEW p \in Proc, Retaining(p), Unname PROVE Goes(p)
<1>1. Vanish(p) => FALSE BY TargetSynced, NamesFirst DEF Vanish, Forgetting
<1>2. LookAgain(p) \/ Unmark(p) \/ ReportForgotten(p) => FALSE
  BY NamesFirst DEF LookAgain, Unmark, ReportForgotten, Forgetting
<1> QED BY <1>1, <1>2, StageTombCalm, FillTombCalm, CommitTombCalm, ConfirmTombCalm, PruneOpensCalm, StripCalm,
           EraseOpensCalm, EraseCalm DEF Retaining

LEMMA StartRetentionCalm == ASSUME Calmly, NEW p \in Proc, StartRetention(p) PROVE Goes(p)
<1>1. PICK step \in {"prune_open", "forget_open", "erase_open"} :
        /\ pc' = [pc EXCEPT ![p] = step]
        /\ \/ UNCHANGED diskVars /\ step # "erase_open"
           \/ disk.erasing # 0 /\ SyncTarget
  BY DEF StartRetention
<1>2. pc'[p] = step BY <1>1, StepOf
<1>3. Runs(p)' BY <1>2 DEF Runs, Begun, Marking
<1>4. CASE UNCHANGED diskVars /\ step # "erase_open"
  <2>1. Ends(p)' BY <1>2, <1>4 DEF Ends, Burying
  <2> QED BY <1>3, <1>4, <2>1, StutterSound DEF Goes
<1>5. CASE disk.erasing # 0 /\ SyncTarget
  <2>1. Sound' /\ disk' = disk /\ disk.erasing = 1 BY <1>5, TargetSyncSound
  <2>2. Ends(p)' BY <1>2, <2>1 DEF Ends, Burying
  <2> QED BY <1>3, <2>1, <2>2 DEF Goes, Spares
<1> QED BY <1>1, <1>4, <1>5

LEMMA ForgetOpensCalm == ASSUME Calmly, NEW p \in Proc, ForgetOpens(p) PROVE Goes(p)
<1>1. PICK step \in {"tomb", "erase"} :
        /\ Goto(p, step) /\ named' = [named EXCEPT ![p] = disk.gen]
        /\ \/ disk.erasing = 0 /\ step = "tomb" /\ UNCHANGED diskVars
           \/ disk.erasing # 0 /\ step = "erase" /\ SyncTarget
  BY DEF ForgetOpens
<1>2. pc'[p] = step /\ named'[p] = disk.gen /\ disk.gen # 0 BY <1>1, StepOf, CalmFacts DEF Goto, CallType
<1>3. Runs(p)' BY <1>2 DEF Runs, Begun, Marking
<1>4. CASE disk.erasing = 0 /\ UNCHANGED diskVars
  <2>1. Ends(p)' BY <1>1, <1>2, <1>4 DEF Ends, Burying, diskVars
  <2> QED BY <1>3, <1>4, <2>1, StutterSound DEF Goes
<1>5. CASE disk.erasing # 0 /\ step = "erase" /\ SyncTarget
  <2>1. Sound' /\ disk' = disk BY <1>5, TargetSyncSound
  <2>2. Ends(p)' BY <1>2, <1>5 DEF Ends, Burying
  <2> QED BY <1>3, <2>1, <2>2 DEF Goes, Spares
<1> QED BY <1>1, <1>4, <1>5

-----------------------------------------------------------------------------
(* What may go wrong around a calm invocation.                             *)

LEMMA PowerLossCalm == ASSUME Calmly, PowerLoss PROVE Sound' /\ Courses'
<1>1. /\ disk' \in surviving /\ surviving' = {disk'} /\ pc' = [p \in Proc |-> "idle"]
      /\ disk'.gen = 1 /\ disk' \in Images
  BY CalmFacts DEF PowerLoss, Calmly, Undisturbed
<1>2. Courses' BY <1>1, IdleGoes DEF Courses
<1>3. NamesStay BY <1>1 DEF NamesStay
<1>4. NamesGo /\ Plain' BY <1>3, NamesStayGo DEF Calmly, Sound
<1>5. Behind(disk', disk, surviving) BY <1>1, CalmFacts
<1>6. CASE Running(disk', surviving)
  <2>1. Running(disk', surviving') BY <1>1, <1>4, <1>6, RunningGoes
  <2>2. Begins(disk') BY <1>1, <1>6 DEF Begins, Running, NoTomb
  <2>3. Rooted' BY <1>1 DEF Rooted
  <2> QED BY <1>1, <1>2, <1>4, <2>1, <2>2, <2>3, SoundBegins
<1>7. CASE Burial(disk')
  <2>1. Sealing(disk') /\ ~Begins(disk') BY <1>1, <1>7 DEF Sealing, Begins, Burial, Laid
  <2>2. Behind(disk', disk', surviving') BY <1>7, <2>1 DEF Behind
  <2> QED BY <1>1, <1>2, <1>4, <2>1, <2>2, SoundBeyond
<1>8. CASE Forgotten(disk')
  <2>1. Erasing(disk') /\ ~Begins(disk') BY <1>1, <1>8 DEF Erasing, Begins, Forgotten
  <2>2. Behind(disk', disk', surviving') BY <1>8, <2>1 DEF Behind, Forgotten
  <2> QED BY <1>1, <1>2, <1>4, <2>1, <2>2, SoundBeyond
<1> QED BY <1>5, <1>6, <1>7, <1>8 DEF Behind

\* An invocation ends, and what it had read is gone.
LEMMA StopCalm == ASSUME Calmly, NEW p \in Proc, Stop(p) PROVE Goes(p)
  BY ReturnGoes, StutterSound DEF Stop, Goes

-----------------------------------------------------------------------------
(* What was disturbed once remains so.                                     *)

\* A step of p: what the others have, and what they have read, stays.
Moves(p) ==
  /\ \E step : pc' = [pc EXCEPT ![p] = step]
  /\ mark' = mark \/ \E m : mark' = [mark EXCEPT ![p] = m]
  /\ trusts' = trusts \/ \E b : trusts' = [trusts EXCEPT ![p] = b]
  /\ reused => reused'

LEMMA GotoMoves ==
  ASSUME NEW p \in Proc, NEW step, Goto(p, step), UNCHANGED trusts,
         mark' = mark \/ \E m : mark' = [mark EXCEPT ![p] = m], reused => reused'
  PROVE  Moves(p)
  BY Zenon DEF Moves, Goto

LEMMA ReturnMoves ==
  ASSUME NEW p \in Proc, NEW o, Return(p, o), UNCHANGED reused PROVE Moves(p)
  BY Zenon DEF Moves, Return

LEMMA MovesSteady ==
  ASSUME IInv, NEW p \in Proc, Moves(p), Unname \/ \A q \in Proc \ {p} : named'[q] = named[q] PROVE Steady(p)
<1>1. CallType BY HolderFacts
<1>2. \A q \in Proc \ {p} : pc'[q] = pc[q] BY <1>1 DEF CallType, Moves
<1>3. \A q \in Proc \ {p} : mark'[q] = mark[q] BY <1>1 DEF CallType, Moves
<1>4. \A q \in Proc \ {p} : trusts'[q] = trusts[q]
  <2>1. trusts \in [Proc -> BOOLEAN] BY <1>1 DEF CallType
  <2> QED BY <2>1, Zenon DEF Moves
<1>5. \A q \in Proc \ {p} : named'[q] = named[q] BY <1>2, UnnameKeeps
<1> QED BY <1>2, <1>3, <1>4, <1>5 DEF Steady, Same

\* Building on what is not durable is never forgotten.
LEMMA Builds == ASSUME NEW b \in BOOLEAN, reused \in BOOLEAN, reused' = (reused \/ b) PROVE reused => reused'
  OBVIOUS

LEMMA RetiringMoves ==
  ASSUME IInv, NEW p \in Proc, StartBelow(p) \/ RetiringBeside(p) PROVE Moves(p) /\ changes' = changes
<1>1. trusts[p] \in BOOLEAN /\ reused \in BOOLEAN BY HolderFacts DEF CallType
<1>2. /\ changes' = changes
      /\ reused' = reused \/ reused' = (reused \/ trusts[p])
  <2>1. StartBelow(p) \/ RefuseRetained(p) \/ Review(p) \/ CheckControl(p) \/ Initialize(p) \/ MakeTree(p)
          => UNCHANGED <<reused, changes>>
    BY DEF StartBelow, Start, RefuseRetained, Review, CheckControl, Initialize, MakeTree
  <2>2. WriteIntent(p) \/ Open(p) \/ Bind(p) \/ Pass(p) \/ Absent(p) \/ Present(p) \/ Recover(p)
          => UNCHANGED <<reused, changes>>
    BY DEF WriteIntent, Open, Bind, Pass, Absent, Present, Recover
  <2>3. ConfirmUnlink(p) \/ Finish(p) \/ FindComplete(p) \/ Fill(p) \/ Rename(p) \/ Confirm(p)
          => UNCHANGED <<reused, changes>>
    BY DEF ConfirmUnlink, Finish, FindComplete, Fill, Rename, Confirm
  <2>4. Unlink(p) \/ Stage(p) => changes' = changes /\ (reused' = reused \/ reused' = (reused \/ trusts[p]))
    BY Zenon DEF Unlink, Stage
  <2> QED BY <2>1, <2>2, <2>3, <2>4 DEF RetiringBeside, BoundedRetiring, Retiring
<1>3. reused => reused' BY <1>1, <1>2, Builds
<1>4. SUFFICES /\ \E step : pc' = [pc EXCEPT ![p] = step]
               /\ mark' = mark \/ \E m : mark' = [mark EXCEPT ![p] = m]
               /\ trusts' = trusts \/ \E b : trusts' = [trusts EXCEPT ![p] = b]
  BY <1>2, <1>3, Zenon DEF Moves
<1>5. CASE StartBelow(p) BY <1>5, Zenon DEF StartBelow, Start
<1>6. CASE Review(p) \/ CheckControl(p) \/ MakeTree(p) \/ WriteIntent(p) \/ Bind(p) \/ Pass(p) \/ Absent(p)
  BY <1>6, Zenon DEF Review, CheckControl, MakeTree, WriteIntent, Bind, Pass, Absent, Goto
<1>7. CASE Initialize(p) BY <1>7, Zenon DEF Initialize, Trusts, Goto
<1>8. CASE Open(p) BY <1>8, Zenon DEF Open, Trusts, Goto, Return
<1>9. CASE Present(p) \/ Recover(p) \/ ConfirmUnlink(p) \/ Finish(p)
  BY <1>9, Zenon DEF Present, Recover, ConfirmUnlink, Finish, Write, Goto
<1>10. CASE Unlink(p) \/ Stage(p) \/ Fill(p) \/ Rename(p)
  BY <1>10, Zenon DEF Unlink, Stage, Fill, Rename, Goto
<1>11. CASE FindComplete(p) \/ RefuseRetained(p) BY <1>11, Zenon DEF FindComplete, RefuseRetained, Return
<1>12. CASE Confirm(p)
  <2>1. Continue(p) BY <1>12 DEF Confirm
  <2>2. CASE mark[p] = Complete BY <2>1, <2>2, Zenon DEF Continue, Return
  <2>3. CASE mark[p] # Complete BY <2>1, <2>3, Zenon DEF Continue, Goto
  <2> QED BY <2>2, <2>3
<1> QED BY <1>5, <1>6, <1>7, <1>8, <1>9, <1>10, <1>11, <1>12 DEF RetiringBeside, BoundedRetiring, Retiring

LEMMA RetainingMoves ==
  ASSUME IInv, NEW p \in Proc, Retaining(p) \/ StartRetention(p) \/ ForgetOpens(p) PROVE Moves(p)
<1>1. reused \in BOOLEAN /\ RestsOnUnsynced \in BOOLEAN BY HolderFacts DEF CallType, RestsOnUnsynced
<1>2. StageTomb(p) => Moves(p)
  <2>1. SUFFICES ASSUME StageTomb(p) PROVE Moves(p) OBVIOUS
  <2>2. reused' = (reused \/ RestsOnUnsynced) BY <2>1 DEF StageTomb
  <2>3. reused => reused' BY <1>1, <2>2, Builds
  <2>4. UNCHANGED <<mark, trusts>> /\ \E step : Goto(p, step) BY <2>1, Zenon DEF StageTomb, Step, Read
  <2> QED BY <2>3, <2>4, GotoMoves
<1>3. FillTomb(p) \/ CommitTomb(p) => Moves(p)
  <2>1. SUFFICES ASSUME FillTomb(p) \/ CommitTomb(p) PROVE Moves(p) OBVIOUS
  <2>2. UNCHANGED reused /\ (Step(p, "tomb_commit") \/ Step(p, "tomb_confirm")) BY <2>1 DEF FillTomb, CommitTomb
  <2> QED BY <2>2, GotoMoves DEF Step
<1>4. ConfirmTomb(p) \/ PruneOpens(p) => Moves(p)
  BY GotoMoves, ReturnMoves DEF ConfirmTomb, PruneOpens, Step
<1>5. Strip(p) => Moves(p) BY GotoMoves DEF Strip, Step, Read
<1>6. EraseOpens(p) \/ Erase(p) => Moves(p) BY GotoMoves DEF EraseOpens, Erase, Step
<1>7. Vanish(p) \/ LookAgain(p) \/ Unmark(p) => Moves(p) BY GotoMoves DEF Vanish, LookAgain, Unmark, Step, Read
<1>8. ReportForgotten(p) => Moves(p) BY ReturnMoves DEF ReportForgotten
<1>9. StartRetention(p) => Moves(p)
  <2>1. SUFFICES ASSUME StartRetention(p) PROVE Moves(p) OBVIOUS
  <2>2. mark' = mark /\ trusts' = trusts /\ reused' = reused BY <2>1 DEF StartRetention
  <2>3. \E step : pc' = [pc EXCEPT ![p] = step] BY <2>1, Zenon DEF StartRetention
  <2> QED BY <2>2, <2>3 DEF Moves
<1>10. ForgetOpens(p) => Moves(p) BY GotoMoves DEF ForgetOpens
<1> QED BY <1>2, <1>3, <1>4, <1>5, <1>6, <1>7, <1>8, <1>9, <1>10 DEF Retaining

-----------------------------------------------------------------------------
(* The first incarnation does not come back.                               *)

GensStay == \A s \in surviving' : \E j \in surviving : j.gen <= s.gen

LEMMA KeepsGens ==
  ASSUME Stored, NEW parts, Writes(parts), "gen" \notin parts PROVE GensStay
<1>1. \A j \in surviving : j.gen \in Nat BY Generations
<1>2. \A s \in surviving' : \E j \in surviving : s.gen = j.gen BY DEF Writes, Keeps
<1> QED BY <1>1, <1>2 DEF GensStay

LEMMA StutterGens == ASSUME Stored, UNCHANGED diskVars PROVE GensStay
<1>1. \A j \in surviving : j.gen \in Nat BY Generations
<1> QED BY <1>1 DEF diskVars, GensStay

LEMMA PutGens ==
  ASSUME Stored, NEW part \in Writable, NEW value, Put(part, value) \/ PutDurably(part, value) PROVE GensStay
<1>1. \A j \in surviving : j \in Images /\ j.gen \in Nat BY StoredFacts, Generations
<1>2. \A j \in surviving : [j EXCEPT ![part] = value].gen = j.gen BY <1>1 DEF Images, Writable
<1>3. \A s \in surviving' : s \in surviving \/ \E j \in surviving : s = [j EXCEPT ![part] = value]
  BY DEF Put, PutDurably
<1>4. \A s \in surviving' : \E j \in surviving : s.gen = j.gen BY <1>2, <1>3
<1> QED BY <1>1, <1>4 DEF GensStay

LEMMA SyncGens == ASSUME Stored, SyncJournal \/ SyncTomb \/ SyncTarget PROVE GensStay
<1>1. SyncJournal => GensStay BY SyncShape, KeepsGens DEF SyncJournal
<1>2. SyncTomb => GensStay BY SyncShape, KeepsGens DEF SyncTomb
<1>3. SyncTarget => GensStay
  <2>1. SUFFICES ASSUME SyncTarget PROVE GensStay OBVIOUS
  <2>2. \A s \in surviving' : s.gen = disk.gen BY <2>1, SyncTargetStored
  <2>3. disk.gen \in Nat /\ disk \in surviving BY Generations DEF Stored
  <2> QED BY <2>2, <2>3 DEF GensStay
<1> QED BY <1>1, <1>2, <1>3

LEMMA NameGens ==
  ASSUME Stored, NEW i \in 1..Files, SyncName(i) \/ PutName(i, "none") PROVE GensStay
  BY SyncNameShape, PutNameShape, KeepsGens DEF Names

LEMMA MakeRootGens == ASSUME Stored, MakeRoot PROVE GensStay
<1>1. disk \in Images /\ disk \in surviving /\ disk.gen \in Nat BY StoredFacts, Generations DEF Stored
<1>2. \A j \in surviving : [[disk EXCEPT !.root = "bare"] EXCEPT !.name = j.name].gen = disk.gen BY <1>1 DEF Images
<1>3. \A s \in surviving' : s.gen = disk.gen BY <1>2 DEF MakeRoot
<1> QED BY <1>1, <1>3 DEF GensStay

LEMMA RetiringGens ==
  ASSUME IInv, NEW p \in Proc, StartBelow(p) \/ RetiringBeside(p) PROVE GensStay
<1>1. Stored /\ Retires(p) /\ disk.log \in Logs /\ Writable = {"root", "log", "pending", "tomb", "erasing"}
  BY HolderFacts DEF Recorded, Writable
<1>2. pc[p] \in {"unlink", "unlinked", "recover"} => disk.log.deleted + 1 \in 1..Files
  BY <1>1, FilesAssumption DEF Retires, Logs
<1>3. StartBelow(p) \/ Review(p) \/ CheckControl(p) \/ Open(p) \/ Bind(p) \/ Pass(p) => GensStay
  BY <1>1, StutterGens DEF StartBelow, Start, Review, CheckControl, Open, Bind, Pass
<1>4. Present(p) \/ Absent(p) \/ Finish(p) \/ FindComplete(p) => GensStay
  BY <1>1, StutterGens DEF Present, Absent, Finish, FindComplete
<1>5. Initialize(p) => GensStay BY <1>1, StutterGens, MakeRootGens DEF Initialize
<1>6. MakeTree(p) \/ WriteIntent(p) => GensStay BY <1>1, StutterGens, PutGens DEF MakeTree, WriteIntent
<1>7. Recover(p) \/ ConfirmUnlink(p) \/ Unlink(p) => GensStay
  BY <1>1, <1>2, StutterGens, NameGens DEF Recover, ConfirmUnlink, Unlink, Upcoming
<1>8. Stage(p) \/ Fill(p) => GensStay BY <1>1, StutterGens, PutGens DEF Stage, Fill
<1>9. Rename(p) => GensStay BY <1>1, RenameShape, KeepsGens
<1>10. Confirm(p) \/ RefuseRetained(p) => GensStay BY <1>1, SyncGens DEF Confirm, RefuseRetained
<1> QED BY <1>3, <1>4, <1>5, <1>6, <1>7, <1>8, <1>9, <1>10 DEF RetiringBeside, BoundedRetiring, Retiring

LEMMA RetainingGens ==
  ASSUME IInv, NEW p \in Proc, Retaining(p) \/ StartRetention(p) \/ ForgetOpens(p) PROVE GensStay
<1>1. Stored /\ Erases(p) /\ disk \in Images /\ Writable = {"root", "log", "pending", "tomb", "erasing"}
  BY HolderFacts DEF Recorded, Writable
<1>2. StageTomb(p) => GensStay BY <1>1, StutterGens, PutGens DEF StageTomb, Read
<1>3. FillTomb(p) => GensStay
  <2>1. SUFFICES ASSUME FillTomb(p) PROVE GensStay OBVIOUS
  <2>2. Writes({"tomb"}) BY <1>1, <2>1, FillTombShape
  <2> QED BY <1>1, <2>2, KeepsGens
<1>4. CommitTomb(p) => GensStay
  <2>1. SUFFICES ASSUME CommitTomb(p) PROVE GensStay OBVIOUS
  <2>2. CASE Put("tomb", [NoTomb EXCEPT !.marks = disk.tomb.pending]) BY <1>1, <2>2, PutGens
  <2>3. CASE named[p] # 0
    <3> DEFINE published(j) == [j EXCEPT !.tomb = [NoTomb EXCEPT !.marks = "complete"], !.erasing = disk.gen]
    <3>1. surviving' = surviving \cup {published(j) : j \in surviving}
      BY <2>1, <2>3 DEF CommitTomb
    <3>2. \A j \in surviving : j \in Images /\ j.gen \in Nat BY <1>1, StoredFacts, Generations
    <3>3. \A j \in surviving : published(j).gen = j.gen BY <3>2 DEF Images
    <3> HIDE DEF published
    <3>4. \A s \in surviving' : \E j \in surviving : s.gen = j.gen BY <3>1, <3>3
    <3> QED BY <3>2, <3>4 DEF GensStay
  <2> QED BY <2>1, <2>2, <2>3 DEF CommitTomb
<1>5. ConfirmTomb(p) => GensStay BY <1>1, SyncGens DEF ConfirmTomb
<1>6. PruneOpens(p) => GensStay BY <1>1, StutterGens, SyncGens DEF PruneOpens
<1>7. Strip(p) => GensStay BY <1>1, StutterGens, PutGens DEF Strip, Read
<1>8. Vanishes /\ disk.root # "none" => GensStay
  <2>1. SUFFICES ASSUME Vanishes, disk.root # "none" PROVE GensStay OBVIOUS
  <2>2. disk \in surviving /\ \A j \in surviving : j.gen \in Nat BY <1>1, Generations DEF Stored
  <2>3. \A s \in surviving' : s \in surviving \/ s.gen = disk.gen + 1 BY <1>1, <2>1, VanishesStored
  <2>4. \A s \in surviving' : \E j \in surviving : s.gen = j.gen \/ s.gen = j.gen + 1 BY <2>2, <2>3
  <2> QED BY <2>2, <2>4 DEF GensStay
<1>9. EraseOpens(p) => GensStay BY <1>1, <1>8, SyncGens DEF EraseOpens
<1>10. Erase(p) => GensStay BY <1>1, <1>8, PutGens DEF Erase
<1>11. Vanish(p) \/ LookAgain(p) \/ Unmark(p) \/ ReportForgotten(p) => GensStay
  BY <1>1, StutterGens, SyncGens, PutGens DEF Vanish, LookAgain, Unmark, ReportForgotten, Read
<1>12. StartRetention(p) \/ ForgetOpens(p) => GensStay
  BY <1>1, StutterGens, SyncGens DEF StartRetention, ForgetOpens
<1> QED BY <1>2, <1>3, <1>4, <1>5, <1>6, <1>7, <1>9, <1>10, <1>11, <1>12 DEF Retaining

\* A disturbance is never taken back.
LEMMA NextUndisturbed ==
  ASSUME IInv, Next, Undisturbed' PROVE Undisturbed
<1>1. CallType BY HolderFacts
<1>2. changes' = 0 /\ reused' = FALSE /\ late' = FALSE BY DEF Undisturbed
<1>3. (\A j \in surviving : j.gen \in Nat \ {0}) /\ \E s \in surviving' : s.gen = 1
  BY HolderFacts, Generations DEF Recorded, Undisturbed
<1>4. GensStay => \E j \in surviving : j.gen = 1
  <2>1. SUFFICES ASSUME GensStay PROVE \E j \in surviving : j.gen = 1 OBVIOUS
  <2>2. PICK s \in surviving' : s.gen = 1 BY <1>3
  <2>3. PICK j \in surviving : j.gen <= s.gen BY <2>1 DEF GensStay
  <2> QED BY <1>3, <2>2, <2>3
<1>5. ASSUME NEW p \in Proc, StartBelow(p) \/ RetiringBeside(p), Belated PROVE Undisturbed
  <2>1. changes = 0 /\ ~reused BY <1>2, <1>5, RetiringMoves DEF Moves
  <2>2. ~late BY <1>1, <1>2, <1>5 DEF Belated, CallType
  <2>3. GensStay BY <1>5, RetiringGens
  <2> QED BY <1>4, <2>1, <2>2, <2>3 DEF Undisturbed
<1>6. ASSUME NEW p \in Proc, Retaining(p) \/ StartRetention(p) \/ ForgetOpens(p), UNCHANGED <<kind, late, changes>>
      PROVE  Undisturbed
  <2>1. ~reused BY <1>2, <1>6, RetainingMoves DEF Moves
  <2>2. GensStay BY <1>6, RetainingGens
  <2> QED BY <1>2, <1>4, <1>6, <2>1, <2>2 DEF Undisturbed
<1>7. ASSUME PowerLoss, UNCHANGED late PROVE Undisturbed
  <2>1. reused' = reused /\ changes' = changes /\ \A s \in surviving' : s \in surviving
    BY <1>7 DEF PowerLoss
  <2> QED BY <1>2, <1>3, <1>7, <2>1 DEF Undisturbed
<1>8. BoundedInterfere => FALSE
  <2>1. BoundedInterfere => changes' = changes + 1 BY DEF BoundedInterfere, Interfere
  <2> QED BY <1>1, <1>2, <2>1, MaxChangesAssumption DEF CallType
<1>9. ASSUME NEW p \in Proc, Stop(p), UNCHANGED late PROVE Undisturbed
  BY <1>2, <1>3, <1>9 DEF Stop, diskVars, Undisturbed
<1> QED BY <1>5, <1>6, <1>7, <1>8, <1>9 DEF Next

-----------------------------------------------------------------------------
(* Together.                                                               *)

Calm == Undisturbed => Sound /\ Courses

LEMMA CalmBegins == ASSUME Init PROVE Calm
<1>1. disk = Reviewed /\ surviving = {Reviewed} /\ pc = [p \in Proc |-> "idle"] BY DEF Init
<1>2. /\ Reviewed.root = "none" /\ Reviewed.gen = 1 /\ Reviewed.erasing = 0 /\ Reviewed.tomb = NoTomb
      /\ Reviewed.log = NoLog /\ Reviewed.pending = NoScratch
      /\ \A i \in 1..Files : Reviewed.name[i] = "ours"
  BY DEF Reviewed
<1>3. Begins(disk) BY <1>1, <1>2 DEF Begins, NoTomb
<1>4. Running(Reviewed, surviving)
  BY <1>2, FilesAssumption DEF Running, Ordered, Suits, NoLog
<1>5. Behind(Reviewed, disk, surviving) BY <1>1, <1>3, <1>4 DEF Behind
<1>6. Plain /\ Rooted BY <1>1, <1>2 DEF Plain, Rooted
<1>7. Sound BY <1>1, <1>5, <1>6 DEF Sound
<1>8. Courses BY <1>1 DEF Courses, Runs, Ends, Begun, Marking, Burying
<1> QED BY <1>7, <1>8 DEF Calm

\* A step of p keeps what all of them rely on.
LEMMA CoursesGo ==
  ASSUME Calmly, NEW p \in Proc, Goes(p), Steady(p) PROVE Sound' /\ Courses'
  BY OthersGo DEF Goes, Courses

LEMMA NextCalm == ASSUME IInv, Calm, [Next]_retentionVars PROVE Calm'
<1>1. IInv' BY NextKeeps
<1>2. CASE UNCHANGED retentionVars
  <2>1. UNCHANGED <<disk, surviving, pc, mark, trusts, reused, changes, named, late>>
    BY <1>2 DEF retentionVars, vars, diskVars, callVars
  <2>2. Undisturbed' = Undisturbed BY <2>1 DEF Undisturbed
  <2>3. Sound => Sound' BY <2>1 DEF Sound, Plain, Rooted
  <2>4. Courses => Courses' BY <2>1 DEF Courses, Runs, Ends
  <2> QED BY <2>2, <2>3, <2>4 DEF Calm
<1>3. CASE Next
  <2>1. SUFFICES ASSUME Undisturbed' PROVE Sound' /\ Courses' BY DEF Calm
  <2>2. Calmly BY <1>1, <1>3, <2>1, NextUndisturbed DEF Calm, Calmly
  <2>3. ASSUME NEW p \in Proc, StartBelow(p) \/ RetiringBeside(p), Belated, UNCHANGED named
        PROVE  Sound' /\ Courses'
    <3>1. Steady(p) BY <2>3, RetiringMoves, MovesSteady
    <3> QED BY <2>2, <2>3, <3>1, RetiringCalm, CoursesGo
  <2>4. ASSUME NEW p \in Proc, Retaining(p), Unname PROVE Sound' /\ Courses'
    <3>1. Steady(p) BY <2>4, RetainingMoves, MovesSteady
    <3> QED BY <2>2, <2>4, <3>1, RetainingCalm, CoursesGo
  <2>5. ASSUME NEW p \in Proc, StartRetention(p) \/ ForgetOpens(p) PROVE Sound' /\ Courses'
    <3>1. \A q \in Proc \ {p} : named'[q] = named[q]
      BY <2>5, HolderFacts DEF StartRetention, ForgetOpens, CallType
    <3>2. Steady(p) BY <2>5, <3>1, RetainingMoves, MovesSteady
    <3> QED BY <2>2, <2>5, <3>2, StartRetentionCalm, ForgetOpensCalm, CoursesGo
  <2>6. CASE PowerLoss BY <2>2, <2>6, PowerLossCalm
  <2>7. BoundedInterfere => FALSE
    <3>1. BoundedInterfere => changes' = changes + 1 BY DEF BoundedInterfere, Interfere
    <3> QED BY <2>2, <3>1 DEF Calmly, Undisturbed
  <2>8. ASSUME NEW p \in Proc, Stop(p), Unname PROVE Sound' /\ Courses'
    <3>1. Moves(p) BY <2>8, ReturnMoves DEF Stop
    <3>2. Steady(p) BY <2>8, <3>1, MovesSteady
    <3> QED BY <2>2, <2>8, <3>2, StopCalm, CoursesGo
  <2> QED BY <1>3, <2>3, <2>4, <2>5, <2>6, <2>7, <2>8 DEF Next
<1> QED BY <1>2, <1>3

-----------------------------------------------------------------------------
(* What the images near the disk allow.                                    *)

\* Resume goes on where the journal is under way.
LEMMA RunningGoesOn ==
  ASSUME IInv, Undisturbed, Sound, NEW j \in surviving, Running(j, surviving), j.root = "intent", j.gen = 1,
         j.pending.marker # Deleted("confirmed")
  PROVE  Resumable(j)
<1>1. j \in Images /\ j.log \in Logs /\ j.name \in [1..Files -> Names]
  BY HolderFacts, StoredFacts, ImageFields DEF Recorded
<1>2. /\ j.log.deleted \in 0..Files /\ j.log.attempted \in 0..Files /\ Files \in Nat
      /\ j.log.attempted \in j.log.deleted..(j.log.deleted + 1) /\ (j.log.done => j.log.deleted = Files)
  BY <1>1, FilesAssumption DEF Running, Ordered, Logs
<1>3. Loads(j) BY <1>2 DEF Loads
<1>4. \A i \in 1..Files : j.name[i] \in {"ours", "none"} BY DEF Sound, Plain
<1>5. Deletions /\ Accounts BY HolderFacts DEF Recorded
<1>6. ~Closed(j) BY DEF Closed, Running, NoTomb
<1>7. Attempts BY <1>5, <1>6 DEF Accounts, SealedEverywhere, Undisturbed
<1>8. ASSUME NEW i \in 1..Files, i <= j.log.deleted PROVE j.name[i] = "none"
  <2>1. i \in 1..j.log.deleted BY <1>2, <1>8
  <2> QED BY <1>4, <1>5, <2>1 DEF Deletions, Away
<1>9. ASSUME NEW i \in 1..Files, j.name[i] # "ours", ~j.log.done PROVE j.name[i] = "none" /\ i <= j.log.attempted
  BY <1>4, <1>7, <1>9 DEF Attempts
<1>10. ASSUME ~j.log.done, j.pending # NoScratch PROVE j.pending.marker = Wanted(j)
  <2>1. \/ j.pending.marker = Attempt /\ j.log.deleted < Files /\ j.log.attempted = j.log.deleted
        \/ j.pending.marker = Complete /\ j.log.deleted = Files
        \/ /\ j.pending.marker = Deleted("recovered") /\ j.log.deleted < Files /\ j.log.attempted > j.log.deleted
           /\ j.name[j.log.deleted + 1] = "none"
    BY <1>10 DEF Running, Suits, Vacant
  <2> QED BY <1>2, <2>1 DEF Wanted
<1> QED BY <1>3, <1>8, <1>9, <1>10 DEF Resumable

LEMMA BurialGoesOn ==
  ASSUME NEW j \in Images, Burial(j), ~NamedCause(j) PROVE CanGoOn(j)
<1>1. j.tomb.whole \in BOOLEAN BY ImageFields DEF Tombs
<1>2. /\ j.erasing = 0 /\ j.pending = NoScratch /\ Laid(j.tomb, j.root)
      /\ j.root = "intent" => Loads(j) /\ j.log.done
  BY DEF Burial, Ordered, Loads
<1>3. /\ j.tomb.pending = "none" \/ j.tomb.whole
      /\ j.tomb.pending # "complete" /\ ~(kind = "parents" /\ j.tomb.marks = "dir")
  BY <1>2 DEF NamedCause
<1>4. CASE j.tomb.marks = "dir" /\ j.tomb.pending \in {"none", "intent"} /\ j.root = "intent"
  BY <1>2, <1>3, <1>4 DEF CanGoOn, Prunable, Unsealed
<1>5. CASE j.tomb.marks = "intent" /\ j.tomb.pending \in {"none", "complete"}
  <2>1. Sealed(j) BY <1>2, <1>3, <1>5 DEF Sealed, Loads
  <2> QED BY <1>2, <1>5, <2>1 DEF CanGoOn, Prunable
<1>6. CASE j.tomb.marks = "complete" /\ j.tomb.pending \in {"none", "forget"} /\ j.root = "kept"
  BY <1>2, <1>3, <1>6 DEF CanGoOn, Forgettable, Tombstone
<1> QED BY <1>2, <1>4, <1>5, <1>6 DEF Laid

LEMMA CalmUnblocks == ASSUME IInv, Calm PROVE OnlyNamedCausesBlock
<1>1. SUFFICES ASSUME NEW j \in surviving, ~NamedCause(j) PROVE CanGoOn(j) BY DEF OnlyNamedCausesBlock
<1>2. j \in Images /\ j.gen \in Nat \ {0} /\ changes \in Nat
  BY HolderFacts, StoredFacts, Generations, MaxChangesAssumption DEF Recorded, CallType
<1>3. /\ changes = 0 /\ ~reused /\ ~late /\ j.gen = 1
      /\ j.pending.marker # Deleted("confirmed") /\ j.tomb.pending # "complete"
      /\ j.erasing = 0 /\ j.tomb.marks = "none" => j.root \notin {"bare", "kept", "tree"}
  BY <1>1, <1>2 DEF NamedCause
<1>4. Undisturbed BY <1>3 DEF Undisturbed
<1>5. Behind(j, disk, surviving) /\ Sound BY <1>3, <1>4 DEF Calm, Sound
<1>6. CASE Running(j, surviving)
  <2>1. j.erasing = 0 /\ j.tomb.marks = "none" /\ j.root \in {"none", "intent"} BY <1>3, <1>6 DEF Running, NoTomb
  <2>2. j.root = "intent" => Resumable(j) BY <1>3, <1>4, <1>5, <1>6, RunningGoesOn
  <2> QED BY <2>1, <2>2 DEF CanGoOn
<1>7. CASE Burial(j) BY <1>1, <1>2, <1>7, BurialGoesOn
<1>8. CASE Forgotten(j) BY <1>3, <1>8 DEF Forgotten, CanGoOn, Erasable
<1> QED BY <1>5, <1>6, <1>7, <1>8 DEF Behind

\* Whatever a power loss leaves, the command it interrupted can be repeated on,
\* or the operation never began, except for the named causes: for every number
\* of names and invocations.
THEOREM OnlyNamedCausesRemain == Spec => []OnlyNamedCausesBlock
<1>1. Init => IInv /\ Calm BY InitKeeps, CalmBegins
<1>2. IInv /\ Calm /\ [Next]_retentionVars => (IInv /\ Calm)' BY NextKeeps, NextCalm
<1>3. IInv /\ Calm => OnlyNamedCausesBlock BY CalmUnblocks
<1> QED BY <1>1, <1>2, <1>3, PTL DEF Spec
===============================================================================
