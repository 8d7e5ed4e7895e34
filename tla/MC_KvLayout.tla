------------------------------ MODULE MC_KvLayout ------------------------------
(* Small instances of KvLayout: the block sizes of the attention groups. *)
EXTENDS KvLayout

\* A group that is split in two, one with small blocks, one of odd size.
MixedGroups == {<<2, 4>>, <<2, 2>>, <<3, 3>>}
SplitGroup  == {<<2, 4>>}
================================================================================
