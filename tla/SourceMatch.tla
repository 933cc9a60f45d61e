----------------------------- MODULE SourceMatch -----------------------------
(***************************************************************************)
(* The search for the files a torrent was made from.  One invocation       *)
(* looks at the search roots (storage/inventory.go), or takes candidates   *)
(* from the storage index (seed/discover_index.go), keeps the files of a   *)
(* wanted size within its budgets (seed/discover.go), filters them by      *)
(* their v2 roots, assigns them to the manifest depth first while it       *)
(* compares v1 pieces, proves every layout it completes, and gives a       *)
(* verdict (metafile/match.go, metafile/verify.go).  Other programs change *)
(* files meanwhile and the time budget may run out at any step.            *)
(*                                                                         *)
(* Hashes are injective, so a piece or a root is the bytes it stands for.  *)
(* Every opener is bound to the identity, size and modification time that  *)
(* the inventory saw, so a file that has changed since cannot be opened:   *)
(* that a change shows in one of the three is an assumption of the code.   *)
(***************************************************************************)
EXTENDS Integers, Sequences, FiniteSets, SequencesExt

CONSTANTS
  Names,        \* the regular files under the roots, 1..n in the order of their sort keys
  Rank,         \* how well a name fits the manifest: smaller is tried first
  Jobs,         \* a torrent, the files on the disk, the limits and the scope:
                \* "live", "current", "history" or "explicit"
  PieceLength,
  MaxChanges    \* how often others change files

NoFile == 0
NoMatch == <<>>

VARIABLES
  job,          \* the torrent, the disk as it was, the limits and the scope
  changed,      \* names whose file others replaced, changed or removed
  changes,      \* how often they did
  cancelled,    \* the context ended
  pc,           \* what the invocation does next
  at,           \* the name, or the manifest entry, it is at
  inventory,    \* the candidates that are retained, in sort order
  scan,         \* why the inventory is incomplete
  byFile,       \* candidates of every manifest entry, best first
  reasons,      \* why matching is incomplete (StopReasons)
  roots,        \* the v2 cache: names whose root was read, or could not be
  kept,         \* what the filter has kept for the entry it is at
  path, next,   \* the choices made so far, and the choice to try next
  states, charged, verified,  \* statistics that the limits bound
  proof,        \* the pass of the final verification
  matches,      \* verified layouts
  outcome, authority,         \* the verdict, and the layout it hands on
  hashed,       \* ghost: bytes that were read or hashed
  steady        \* ghost: names that had not changed when the proof's last read ended

scanning == <<inventory, scan>>
prepared == <<byFile, roots, kept>>
search == <<path, next>>
spent == <<states, charged, hashed>>
found == <<verified, matches>>
verdict == <<outcome, authority>>
proving == <<proof, steady>>
world == <<job, changed, changes, cancelled>>
vars == <<world, pc, at, scanning, prepared, reasons, search, spent, found, verdict, proving>>
-----------------------------------------------------------------------------
Entries == 1..Len(job.torrent.files)
Entry(i) == job.torrent.files[i]
Size(i) == Len(Entry(i).data)
Virtual(i) == Entry(i).pad \/ Size(i) = 0
Physical == {i \in Entries : ~Virtual(i)}
V1 == job.torrent.version # "v2"
V2 == job.torrent.version # "v1"
Data(n) == job.disk[n].data
Limit == job.budget

Least(a, b) == IF a < b THEN a ELSE b
NotBelow0(a) == IF a < 0 THEN 0 ELSE a

\* The v1 stream that a layout gives, and the one the torrent was made from.
StreamOf(files) == FlattenSeq([i \in DOMAIN files |-> IF Virtual(i) THEN Entry(i).data ELSE Data(files[i])])
Stream == FlattenSeq([i \in Entries |-> Entry(i).data])

\* Every piece that the layout completes is the torrent's.
PiecesMatch(files) ==
  LET bytes == StreamOf(files)
      whole == Len(bytes) - (Len(bytes) % PieceLength)
  IN SubSeq(bytes, 1, whole) = SubSeq(Stream, 1, whole)

Init ==
  /\ job \in Jobs
  /\ IF job.scope \in {"live", "current"}
     THEN pc = "begin" /\ inventory = <<>> /\ scan = {}
     ELSE /\ pc = "prepare"
          /\ \E listed \in SUBSET Names : inventory = SetToSortSeq(listed, <)
          /\ scan \in {{}, {"max_candidates"}}
  /\ changed = {} /\ changes = 0 /\ cancelled = FALSE
  /\ at = 1 /\ byFile = [i \in Entries |-> <<>>] /\ reasons = scan
  /\ roots = [n \in Names |-> "unread"] /\ kept = <<>>
  /\ path = <<>> /\ next = 1 /\ states = 0 /\ charged = 0 /\ hashed = 0
  /\ verified = 0 /\ matches = <<>> /\ proof = "none" /\ steady = Names
  /\ outcome = "none" /\ authority = NoMatch
-----------------------------------------------------------------------------
\* Others replace or remove a file under one name, or write to it, which every
\* name of that file shows.  Only a file that was looked at matters: another
\* has the bytes the disk says when the inventory reaches it.
Change ==
  /\ changes < MaxChanges /\ pc \notin {"report", "done"}
  /\ \E n \in ToSet(inventory) \ changed :
       \/ changed' = changed \cup {n}
       \/ changed' = changed \cup {m \in Names : job.disk[m].node = job.disk[n].node}
  /\ changes' = changes + 1
  /\ UNCHANGED <<job, cancelled, pc, at, scanning, prepared, reasons, search, spent, found, verdict, proving>>

\* The time budget ends, or the user interrupts.
Cancel ==
  /\ ~cancelled /\ pc \notin {"report", "done"}
  /\ cancelled' = TRUE
  /\ UNCHANGED <<job, changed, changes, pc, at, scanning, prepared, reasons, search, spent, found, verdict, proving>>

\* Matching stops and the invocation reports.
Stop(reason) == reasons' = reasons \cup {reason} /\ pc' = "report"
-----------------------------------------------------------------------------
\* A manifest that needs more transitions than the budget has is refused before
\* anything is scanned; one with no file to find needs no scan.
Begin ==
  /\ pc = "begin"
  /\ IF Len(job.torrent.files) > Limit.states
     THEN Stop("max_candidate_states") /\ scan' = {"not_started_manifest_state_budget"}
     ELSE pc' = (IF Physical = {} THEN "prepare" ELSE "scan") /\ UNCHANGED <<scan, reasons>>
  /\ UNCHANGED <<world, at, inventory, prepared, search, spent, found, verdict, proving>>

\* Mutant of Known: names of one file are candidates of their own.
KnownNever(n) == FALSE

\* The live inventory has one candidate for a file with several names; the
\* index keeps every name.
Known(n) == job.scope = "live" /\ \E m \in ToSet(inventory) : job.disk[m].node = job.disk[n].node

\* Some entry has this size.
Wanted(n) == \E i \in Physical : Size(i) = Len(Data(n))

\* The next file is retained, or is of no use.
Examine ==
  /\ pc = "scan" /\ at \in Names /\ ~cancelled
  /\ IF ~Wanted(at) \/ Known(at) \/ at \in changed
     THEN at' = at + 1 /\ UNCHANGED <<pc, inventory, scan>>
     ELSE \/ /\ Len(inventory) < Limit.candidates
             /\ inventory' = Append(inventory, at) /\ at' = at + 1 /\ UNCHANGED <<pc, scan>>
          \/ /\ Len(inventory) >= Limit.candidates
             /\ scan' = scan \cup {"max_retained_candidates"} /\ pc' = "resolve" /\ UNCHANGED <<at, inventory>>
  /\ UNCHANGED <<world, prepared, reasons, search, spent, found, verdict, proving>>

\* A file or its directory cannot be inspected, or its directory is over a limit.
ExamineFails ==
  /\ pc = "scan" /\ at \in Names /\ ~cancelled
  /\ scan' = scan \cup {"scan_issue"} /\ at' = at + 1
  /\ UNCHANGED <<world, pc, inventory, prepared, reasons, search, spent, found, verdict, proving>>

ScanEnds ==
  /\ pc = "scan" /\ (cancelled \/ at \notin Names)
  /\ scan' = IF cancelled THEN scan \cup {"context_cancelled"} ELSE scan
  /\ pc' = "resolve"
  /\ UNCHANGED <<world, at, inventory, prepared, reasons, search, spent, found, verdict, proving>>

\* Candidates that changed since they were listed.
Lost == ToSet(inventory) \cap changed
Dropped == IF cancelled THEN {"context_cancelled"} ELSE IF Lost # {} THEN {"candidate_resolution_changed"} ELSE {}
Remaining == IF cancelled THEN <<>> ELSE SelectSeq(inventory, LAMBDA n : n \notin Lost)

\* A live search goes on with the others, and is incomplete.
ResolveLive ==
  /\ pc = "resolve" /\ job.scope = "live"
  /\ inventory' = Remaining /\ scan' = scan \cup Dropped
  /\ reasons' = reasons \cup (Dropped \ {"context_cancelled"})
  /\ pc' = "prepare"
  /\ UNCHANGED <<world, at, prepared, search, spent, found, verdict, proving>>

\* A search over an index that was refreshed in this invocation goes on only
\* when its list is complete and each file on it still is as it was listed.
ResolveIndexed ==
  /\ pc = "resolve" /\ job.scope = "current"
  /\ inventory' = Remaining /\ scan' = scan \cup Dropped
  /\ IF scan' # {} THEN Stop("current_candidate_search_incomplete") ELSE pc' = "prepare" /\ UNCHANGED reasons
  /\ UNCHANGED <<world, at, prepared, search, spent, found, verdict, proving>>
-----------------------------------------------------------------------------
Bucket(i) == SelectSeq(inventory, LAMBDA n : Len(Data(n)) = Size(i))

\* Edges to candidates that earlier entries have, and how many of this entry's
\* are considered: one more than the budget allows, to see that it is exceeded.
EdgesBefore(i) == MapThenSumSet(LAMBDA j : Len(Bucket(j)), {j \in Physical : j < i})
Considered(i) == Least(Len(Bucket(i)), NotBelow0(Limit.edges + 1 - EdgesBefore(i)))

\* Mutant of EdgesLeft: the last edge of the budget is not used.
EdgesLeftLess(i) == NotBelow0(Limit.edges - 1 - EdgesBefore(i))

EdgesLeft(i) == NotBelow0(Limit.edges - EdgesBefore(i))

\* The best of those considered, one more than may be kept.
Ranked(i) ==
  LET better(m, n) == Rank[m] < Rank[n] \/ (Rank[m] = Rank[n] /\ m < n)
      sorted == SortSeq(SubSeq(Bucket(i), 1, Considered(i)), better)
  IN SubSeq(sorted, 1, Least(Len(sorted), Limit.perFile + 1))

Retained(i) == SubSeq(Ranked(i), 1, Least(Len(Ranked(i)), Least(Limit.perFile, EdgesLeft(i))))

\* Mutant of PrepareCauses: a candidate that ranks too low is dropped silently.
PrepareCausesOfEdges ==
  {"max_candidate_edges" : i \in {j \in Physical : Considered(j) < Len(Bucket(j)) \/ Considered(j) > EdgesLeft(j)}}

PrepareCauses ==
  {"max_candidate_edges" : i \in {j \in Physical : Considered(j) < Len(Bucket(j)) \/ Considered(j) > EdgesLeft(j)}}
  \cup {"max_candidates_per_file" : i \in {j \in Physical : EdgesLeft(j) > 0 /\ Len(Ranked(j)) > Limit.perFile}}

Prepare ==
  /\ pc = "prepare"
  /\ IF Len(job.torrent.files) > Limit.states THEN Stop("max_candidate_states") /\ UNCHANGED byFile
     ELSE IF cancelled THEN Stop("context_cancelled") /\ UNCHANGED byFile
     ELSE /\ byFile' = [i \in Entries |-> IF Virtual(i) THEN <<NoFile>> ELSE Retained(i)]
          /\ reasons' = reasons \cup PrepareCauses
          /\ pc' = IF V2 THEN "filter" ELSE "choose"
  /\ at' = 1
  /\ UNCHANGED <<world, scanning, roots, kept, search, spent, found, verdict, proving>>
-----------------------------------------------------------------------------
\* Mutant of CanCharge: any work is allowed while some budget is left.
CanChargeLate(bytes) == charged < Limit.work

CanCharge(bytes) == bytes <= Limit.work - charged

\* The v2 root of a file stands for its bytes.
Root(n) == Data(n)

\* The root of a candidate is read once; a file that cannot be read any more is
\* no candidate, and says so once.
FilterCandidate ==
  /\ pc = "filter" /\ at \in Physical /\ next <= Len(byFile[at])
  /\ LET n == byFile[at][next]
         fits == Root(n) = Entry(at).data
         Keep == kept' = (IF fits THEN Append(kept, n) ELSE kept) /\ next' = next + 1
     IN \/ /\ roots[n] # "unread"
           /\ IF roots[n] = "read" THEN Keep ELSE next' = next + 1 /\ UNCHANGED kept
           /\ UNCHANGED <<pc, roots, reasons, charged, hashed>>
        \/ /\ roots[n] = "unread" /\ ~CanCharge(Size(at))
           /\ Stop("max_proof_work_bytes")
           /\ UNCHANGED <<roots, kept, next, charged, hashed>>
        \/ /\ roots[n] = "unread" /\ CanCharge(Size(at))
           /\ charged' = charged + Size(at)
           /\ IF cancelled
              THEN Stop("context_cancelled") /\ UNCHANGED <<roots, kept, next, hashed>>
              ELSE IF n \in changed
              THEN /\ reasons' = reasons \cup {"candidate_io_error"}
                   /\ roots' = [roots EXCEPT ![n] = "lost"] /\ next' = next + 1
                   /\ UNCHANGED <<pc, kept, hashed>>
              ELSE /\ roots' = [roots EXCEPT ![n] = "read"] /\ hashed' = hashed + Size(at)
                   /\ Keep /\ UNCHANGED <<pc, reasons>>
  /\ UNCHANGED <<world, at, scanning, byFile, path, states, found, verdict, proving>>

FilterEntryEnds ==
  /\ pc = "filter" /\ (at \notin Physical \/ next > Len(byFile[at]))
  /\ byFile' = IF at \in Physical THEN [byFile EXCEPT ![at] = kept] ELSE byFile
  /\ kept' = <<>> /\ next' = 1
  /\ IF at = Len(job.torrent.files) THEN pc' = "choose" /\ at' = 1 ELSE at' = at + 1 /\ UNCHANGED pc
  /\ UNCHANGED <<world, scanning, roots, reasons, path, spent, found, verdict, proving>>

\* With a manifest file that has no candidate there is nothing to search.
Choose ==
  /\ pc = "choose"
  /\ pc' = IF \E i \in Physical : byFile[i] = <<>> THEN "report" ELSE "search"
  /\ UNCHANGED <<world, at, scanning, prepared, reasons, search, spent, found, verdict, proving>>
-----------------------------------------------------------------------------
Chosen == [i \in DOMAIN path |-> byFile[i][path[i]]]
Depth == Len(path) + 1
Complete == Len(path) = Len(job.torrent.files)

\* The last choice is taken back and the next one tried; the first entry has no
\* choice before it, and the search ends.
Return ==
  IF path = <<>> THEN pc' = "report" /\ UNCHANGED search
  ELSE pc' = "search" /\ path' = Front(path) /\ next' = Last(path) + 1

\* A choice for the next entry is one transition and, where v1 pieces are
\* compared, the work of hashing it.  Padding and empty files have one choice.
Try ==
  /\ pc = "search" /\ ~Complete /\ next <= Len(byFile[Depth])
  /\ LET n == byFile[Depth][next]
         cost == IF V1 THEN Size(Depth) ELSE 0
         Push == path' = Append(path, next) /\ next' = 1
         Skip == next' = next + 1 /\ UNCHANGED path
     IN IF cancelled THEN Stop("context_cancelled") /\ UNCHANGED <<search, spent>>
        ELSE IF states >= Limit.states THEN Stop("max_candidate_states") /\ UNCHANGED <<search, spent>>
        ELSE /\ states' = states + 1
             /\ IF ~CanCharge(cost)
                THEN Stop("max_proof_work_bytes") /\ UNCHANGED <<search, charged, hashed>>
                ELSE /\ charged' = charged + cost
                     /\ IF V1 /\ n \in changed
                        THEN /\ reasons' = reasons \cup {"candidate_io_error"}
                             /\ Skip /\ UNCHANGED <<pc, hashed>>
                        ELSE /\ hashed' = hashed + cost
                             /\ IF V1 => PiecesMatch(Append(Chosen, n)) THEN Push ELSE Skip
                             /\ UNCHANGED <<pc, reasons>>
  /\ UNCHANGED <<world, at, scanning, prepared, found, verdict, proving>>

Backtrack ==
  /\ pc = "search" /\ ~Complete /\ next > Len(byFile[Depth])
  /\ Return
  /\ UNCHANGED <<world, at, scanning, prepared, reasons, spent, found, verdict, proving>>

\* Mutant of FullWork: padding, which is hashed, is not charged.
FullWorkOfFiles == MapThenSumSet(Size, {i \in Entries : ~Entry(i).pad})

\* The whole proof reads all content once more, and hashes padding for v1.
FullWork == MapThenSumSet(Size, {i \in Entries : V1 \/ ~Entry(i).pad})

Leaf ==
  /\ pc = "search" /\ Complete
  /\ IF cancelled THEN Stop("context_cancelled") /\ UNCHANGED <<at, search, charged, proof>>
     ELSE IF V1 /\ StreamOf(Chosen) # Stream
     THEN Return /\ UNCHANGED <<at, reasons, charged, proof>>
     ELSE IF ~CanCharge(FullWork)
     THEN Stop("max_proof_work_bytes") /\ UNCHANGED <<at, search, charged, proof>>
     ELSE /\ charged' = charged + FullWork /\ pc' = "verify" /\ proof' = "preflight" /\ at' = 1
          /\ UNCHANGED <<reasons, search>>
  /\ UNCHANGED <<world, scanning, prepared, states, hashed, found, verdict, steady>>
-----------------------------------------------------------------------------
\* Mutant of NextPass: files are not opened again after the reads.
NextPassUnstable == [preflight |-> "read", read |-> "end"]

NextPass == [preflight |-> "read", read |-> "stable", stable |-> "end"]

\* Every file of the layout is opened before, during and after the reads.
VerifyEntry ==
  /\ pc = "verify" /\ proof # "end"
  /\ IF cancelled /\ ~(proof = "stable" /\ Virtual(at))
     THEN Stop("context_cancelled") /\ UNCHANGED <<at, search, proof, hashed, steady>>
     ELSE IF Chosen[at] \in changed
     THEN /\ reasons' = reasons \cup {"candidate_io_error"} /\ Return
          /\ UNCHANGED <<at, proof, hashed, steady>>
     ELSE LET last == at = Len(job.torrent.files)
          IN /\ hashed' = hashed + (IF proof = "read" /\ (V1 \/ ~Entry(at).pad) THEN Size(at) ELSE 0)
             /\ at' = IF last THEN 1 ELSE at + 1
             /\ proof' = IF last THEN NextPass[proof] ELSE proof
             /\ steady' = IF last /\ proof = "read" THEN Names \ changed ELSE steady
             /\ UNCHANGED <<pc, reasons, search>>
  /\ UNCHANGED <<world, scanning, prepared, states, charged, found, verdict>>

PiecesProved == StreamOf(Chosen) = Stream
RootsProved == \A i \in Physical : Root(Chosen[i]) = Entry(i).data
Proved == (V1 => PiecesProved) /\ (V2 => RootsProved)

\* A verified layout is recorded unless there are too many; it still counts.
VerifyEnds ==
  /\ pc = "verify" /\ proof = "end"
  /\ IF ~Proved THEN Return /\ UNCHANGED <<reasons, found>>
     ELSE /\ verified' = verified + 1
          /\ IF verified >= Limit.layouts
             THEN Stop("max_verified_layouts") /\ UNCHANGED <<search, matches>>
             ELSE /\ matches' = Append(matches, [files |-> Chosen, steady |-> steady])
                  /\ Return /\ UNCHANGED reasons
  /\ proof' = "none"
  /\ UNCHANGED <<world, at, scanning, prepared, spent, verdict, steady>>
-----------------------------------------------------------------------------
Unresolved == scan # {} \/ reasons # {}

\* Mutant of LiveOutcome: only the scan has to be complete.
LiveOutcomeOfScan ==
  IF verified >= 2 THEN "verified_ambiguous"
  ELSE IF scan # {} THEN "incomplete"
  ELSE IF Len(matches) = 1 THEN "verified_unique"
  ELSE "not_found"

\* Two verified layouts are two, however the search ended; otherwise only a
\* complete search says that a layout is the only one or that there is none.
LiveOutcome ==
  IF verified >= 2 THEN "verified_ambiguous"
  ELSE IF Unresolved THEN "incomplete"
  ELSE IF Len(matches) = 1 THEN "verified_unique"
  ELSE "not_found"

\* A search of the roots hands its only layout on.
ReportSearch ==
  /\ pc = "report" /\ job.scope \in {"live", "current"}
  /\ outcome' = LiveOutcome
  /\ authority' = IF LiveOutcome = "verified_unique" THEN matches[1].files ELSE NoMatch
  /\ pc' = "done"
  /\ UNCHANGED <<world, at, scanning, prepared, reasons, search, spent, found, proving>>

\* A past inventory says nothing about other files.
ReportHistory ==
  /\ pc = "report" /\ job.scope = "history"
  /\ outcome' = "incomplete" /\ pc' = "done"
  /\ UNCHANGED <<world, at, scanning, prepared, reasons, search, spent, found, authority, proving>>

\* A layout that the user named, and that was verified now, may be used.
ReportSelected ==
  /\ pc = "report" /\ job.scope = "explicit"
  /\ \/ /\ \E k \in DOMAIN matches : authority' = matches[k].files
        /\ outcome' = "verified_selected"
     \/ outcome' = "incomplete" /\ UNCHANGED authority
  /\ pc' = "done"
  /\ UNCHANGED <<world, at, scanning, prepared, reasons, search, spent, found, proving>>

Next ==
  \/ Change \/ Cancel
  \/ Begin \/ Examine \/ ExamineFails \/ ScanEnds \/ ResolveLive \/ ResolveIndexed
  \/ Prepare \/ FilterCandidate \/ FilterEntryEnds \/ Choose
  \/ Try \/ Backtrack \/ Leaf \/ VerifyEntry \/ VerifyEnds
  \/ ReportSearch \/ ReportHistory \/ ReportSelected

\* The command runs on until it reports, or is killed and reports nothing.
Spec == Init /\ [][Next]_vars
-----------------------------------------------------------------------------
\* The variables have their types; the choices made exist, and no counter is
\* over its limit.
TypeOK ==
  /\ changed \subseteq Names /\ changes \in 0..MaxChanges /\ cancelled \in BOOLEAN
  /\ pc \in {"begin", "scan", "resolve", "prepare", "filter", "choose", "search", "verify", "report", "done"}
  /\ inventory \in Seq(Names) /\ IsFiniteSet(scan) /\ IsFiniteSet(reasons)
  /\ \A i \in Entries : byFile[i] \in Seq(Names \cup {NoFile})
  /\ roots \in [Names -> {"unread", "read", "lost"}] /\ kept \in Seq(Names)
  /\ \A i \in DOMAIN path : i \in Entries /\ path[i] \in DOMAIN byFile[i]
  /\ pc = "search" /\ ~Complete => next \in 1..Len(byFile[Depth]) + 1
  /\ states \in 0..Limit.states /\ charged \in 0..Limit.work
  /\ verified \in Len(matches)..Len(matches) + 1 /\ Len(matches) <= Limit.layouts
  /\ proof \in {"none", "preflight", "read", "stable", "end"} /\ steady \subseteq Names
  /\ outcome \in {"none", "verified_ambiguous", "verified_unique", "verified_selected", "incomplete", "not_found"}

\* The layouts that hold, file by file, the bytes the torrent was made from.
Right(names) ==
  {f \in [Entries -> names \cup {NoFile}] :
     \A i \in Entries : IF Virtual(i) THEN f[i] = NoFile ELSE f[i] # NoFile /\ Data(f[i]) = Entry(i).data}

\* A layout up to the names of one file, which only the live inventory knows to
\* be one.
Essence(f) == [i \in Entries |-> IF Virtual(i) \/ job.scope # "live" THEN f[i] ELSE job.disk[f[i]].node]
Essences(names) == {Essence(f) : f \in Right(names)}

\* Each match is right, differs from the others, and was there as a whole: when
\* the last byte of its proof had been read, none of its files had changed.
MatchesAreWitnessed ==
  /\ \A k \in DOMAIN matches :
       /\ matches[k].files \in Right(Names)
       /\ ToSet(matches[k].files) \subseteq matches[k].steady \cup {NoFile}
  /\ \A k, l \in DOMAIN matches : k # l => Essence(matches[k].files) # Essence(matches[l].files)

\* A verdict about the roots is true of every file that stayed as it was: there
\* is no layout when none is found, none but the one handed on when it is
\* unique, and two that differ when it is ambiguous.  Nothing but a verified
\* layout is handed on, and a past inventory decides nothing.
VerdictIsSound ==
  /\ MatchesAreWitnessed
  /\ pc = "done" =>
       /\ outcome = "not_found" => Right(Names \ changed) = {}
       /\ outcome = "verified_unique" => Essences(Names \ changed) \subseteq {Essence(authority)}
       /\ outcome = "verified_ambiguous" => Cardinality(Essences(Names)) >= 2
       /\ outcome \in {"verified_unique", "verified_selected"} => \E k \in DOMAIN matches : matches[k].files = authority
       /\ authority # NoMatch => outcome \in {"verified_unique", "verified_selected"}
       /\ job.scope \in {"history", "explicit"} => outcome \in {"incomplete", "verified_selected"}

\* The transitions of a search that leaves nothing out, and the work that the
\* filter, that search and the proof of every layout may need.
Partial(d) == FoldFunctionOnSet(LAMBDA a, b : a * b, 1, [i \in Entries |-> Len(byFile[i])], 1..d)
AllStates == MapThenSumSet(Partial, Entries)
AllWork ==
  (IF V2 THEN MapThenSumSet(LAMBDA n : Len(Data(n)), ToSet(inventory)) ELSE 0)
  + (IF V1 THEN MapThenSumSet(LAMBDA i : Partial(i) * Size(i), Entries) ELSE 0)
  + Partial(Len(job.torrent.files)) * FullWork

\* Nothing is read or hashed that was not charged, no budget is exceeded, and a
\* search is only called incomplete when a whole one would not have fitted, or
\* a file changed, or time ran out.
BudgetsAreExact ==
  /\ hashed <= charged /\ (job.scope \in {"live", "current"} => Len(inventory) <= Limit.candidates)
  /\ pc \in {"filter", "choose", "search", "verify"} =>
       /\ \A i \in Physical : Len(byFile[i]) <= Limit.perFile
       /\ MapThenSumSet(LAMBDA i : Len(byFile[i]), Physical) <= Limit.edges
  /\ "max_candidate_states" \in reasons => Len(job.torrent.files) > Limit.states \/ AllStates > Limit.states
  /\ "max_proof_work_bytes" \in reasons => AllWork > Limit.work
  /\ "max_candidate_edges" \in reasons => MapThenSumSet(LAMBDA i : Len(Bucket(i)), Physical) > Limit.edges
  /\ "max_candidates_per_file" \in reasons => \E i \in Physical : Len(Bucket(i)) > Limit.perFile
  /\ "max_verified_layouts" \in reasons => Cardinality(Essences(ToSet(inventory))) > Limit.layouts
  /\ reasons \cap {"candidate_io_error", "candidate_resolution_changed"} # {} => changes > 0
  /\ "context_cancelled" \in reasons => cancelled
=============================================================================
