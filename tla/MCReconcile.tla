----------------------------- MODULE MCReconcile -----------------------------
(***************************************************************************)
(* Two parents, at most two changes of the job, and one request of every   *)
(* kind: each source of the storage proof, and the histories that reports  *)
(* combine.                                                                *)
(***************************************************************************)
EXTENDS Reconcile

CONSTANTS a, b

Of(source, axes, extra) ==
  [source |-> source, axes |-> axes, client |-> "client" \in extra, mapping |-> "mapping" \in extra,
   files |-> "files" \in extra, binding |-> "binding" \in extra, detail |-> "detail" \in extra]

Client == {"client", "mapping", "files"}

MCDirs == {a, b}

MCRequests ==
  {Of("final", axes, Client) : axes \in
     {{"adoption"}, {"adoption", "activation", "stop"}, {"activation", "removal"},
      {"adoption", "activation", "retirement"}, {"activation", "stop", "retirement"},
      {"activation", "retirement", "cleanup"}}}
  \cup {Of(source, {}, Client) : source \in {"final", "search"}}
  \cup {Of("exact", {}, {"detail"}), Of("exact", {}, {"client", "mapping", "detail"}), Of("exact", {}, {"client"}),
        Of("index", {}, Client \cup {"binding"}), Of("refresh", {}, Client \cup {"binding", "detail"})}
=============================================================================
