---------------------------- MODULE MCSourceMatch ----------------------------
(***************************************************************************)
(* Three files of one or two bytes, pieces of two bytes, and manifests in  *)
(* which pieces cross files, files are equal, or entries are virtual.  The *)
(* first jobs have room for everything and every content of the files; the *)
(* others have a limit that is just met or just missed, a file with two    *)
(* names, or candidates from the index.                                    *)
(***************************************************************************)
EXTENDS SourceMatch

MCNames == 1..3

\* The last name in sort order fits best.
MCRank == <<1, 1, 0>>

File(data) == [data |-> data, pad |-> FALSE]
Pad == [data |-> <<0>>, pad |-> TRUE]

Crossing == <<File(<<1>>), File(<<0, 1>>)>>
Equal == <<File(<<1>>), File(<<1>>)>>
Padded == <<File(<<1>>), Pad, File(<<0, 1>>)>>

Torrent(version, files) == [version |-> version, files |-> files]

MCTorrents ==
  {Torrent("v1", Crossing), Torrent("v1", Equal), Torrent("v1", <<File(<<0>>), File(<<1>>)>>),
   Torrent("v1", Padded), Torrent("hybrid", Padded), Torrent("v2", Crossing),
   Torrent("v2", <<File(<<>>), File(<<1>>), File(<<1>>)>>), Torrent("hybrid", <<File(<<>>)>>)}

Bytes == {<<0>>, <<1>>, <<0, 1>>, <<1, 1>>}

\* Each name has a file of its own; the last two have one file.
Apart(data) == [n \in MCNames |-> [data |-> data[n], node |-> n]]
Linked(data) == [n \in MCNames |-> [data |-> IF n = 3 THEN data[2] ELSE data[n], node |-> IF n = 3 THEN 2 ELSE n]]

Room == [candidates |-> 3, perFile |-> 3, edges |-> 6, states |-> 20, layouts |-> 10, work |-> 60]

\* One limit is tight.
Tight ==
  {[Room EXCEPT !.candidates = 1], [Room EXCEPT !.perFile = 1], [Room EXCEPT !.perFile = 2],
   [Room EXCEPT !.edges = 1], [Room EXCEPT !.edges = 2], [Room EXCEPT !.edges = 3],
   [Room EXCEPT !.layouts = 1], [Room EXCEPT !.layouts = 2]}
  \cup {[Room EXCEPT !.states = s] : s \in {1, 2, 3, 6}}
  \cup {[Room EXCEPT !.work = w] : w \in {1, 2, 3, 5, 6, 8, 10}}

Job(torrent, disk, budget, scope) == [torrent |-> torrent, disk |-> disk, budget |-> budget, scope |-> scope]

\* Files that fit, in part fit, or fit twice.
Few == {<<<<1>>, <<0, 1>>, <<1, 1>>>>, <<<<1>>, <<1>>, <<0, 1>>>>, <<<<1>>, <<1>>, <<1>>>>, <<<<0>>, <<1>>, <<1>>>>}

MCJobs ==
  {Job(t, Apart(d), Room, "live") : t \in MCTorrents, d \in [MCNames -> Bytes]}
  \cup {Job(t, Linked(d), Room, s) : t \in MCTorrents, d \in Few, s \in {"live", "current"}}
  \cup {Job(t, Apart(d), b, "live") : t \in MCTorrents, d \in Few, b \in Tight}
  \cup {Job(t, Apart(d), b, s) : t \in MCTorrents, d \in Few,
          b \in {Room, [Room EXCEPT !.states = 2], [Room EXCEPT !.perFile = 1]}, s \in {"current", "history", "explicit"}}
=============================================================================
