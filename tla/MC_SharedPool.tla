----------------------------- MODULE MC_SharedPool -----------------------------
(* Two chats with prompts of their own and a pool of three blocks, two of which an  *)
(* in-place forward writes; a lease takes two.                                      *)
EXTENDS SharedPool, TLC

CONSTANTS c1, c2, b1, b2, b3

MCChats == {c1, c2}
MCPrompt == [c \in MCChats |-> c]
MCBlocks == {b1, b2, b3}
MCInPlace == {b1, b2}

Symmetry == {f @@ g : f \in Permutations(MCChats), g \in Permutations(MCInPlace)}
================================================================================
