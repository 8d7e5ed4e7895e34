--------------------------- MODULE MC_KvReservation ----------------------------
(* Small instances of KvReservation: jobs, chats and blocks are model values. *)
EXTENDS KvReservation, TLC

\* Jobs are interchangeable, chats and the blocks outside InPlace too.
Symmetry == Permutations(Jobs) \cup Permutations(Chats) \cup Permutations(InPlace)
             \cup Permutations(Blocks \ InPlace)
================================================================================
