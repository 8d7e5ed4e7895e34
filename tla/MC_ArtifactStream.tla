--------------------------- MODULE MC_ArtifactStream ---------------------------
(* A small instance of ArtifactStream: the worker of the second group of the first
   node, in a network of two nodes with two groups. *)
EXTENDS ArtifactStream

OneWorker == {<<0, 1>>}
================================================================================
