--------------------------- MODULE MC_GenerateQueue ----------------------------
(* Small instances of GenerateQueue: jobs are numbers, the first is the largest. *)
EXTENDS GenerateQueue

FirstIsLarge == [j \in Jobs |-> IF j = 1 THEN 2 ELSE 1]
================================================================================
