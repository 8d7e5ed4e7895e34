----------------------------- MODULE ExclusiveGate -----------------------------
(* What ADR-0013 promises of mining rounds, with no event loop in it: chat and
   completions are shut out BEFORE a round starts, at most one round owns the
   engine at a time, and the gate opens again only when no round owns it.  The
   detailed specification is MiningRound. *)
CONSTANT Rounds

VARIABLES gate,     \* TRUE: /v1/chat/completions and /v1/completions get a 503
          owners    \* the rounds that own the engine

vars == <<gate, owners>>

Init == gate = FALSE /\ owners = {}

Close == ~gate /\ gate' = TRUE /\ UNCHANGED owners

Start(r) == gate /\ owners = {} /\ owners' = {r} /\ UNCHANGED gate

Finish == owners # {} /\ owners' = {} /\ gate /\ gate' = FALSE

Open == owners = {} /\ gate /\ gate' = FALSE /\ UNCHANGED owners

Next == Close \/ (\E r \in Rounds : Start(r)) \/ Finish \/ Open

Spec == Init /\ [][Next]_vars
================================================================================
