-------------------------------- MODULE JobStore --------------------------------
(* What POST /generate with wait=false promises a client that waits for its answers,
   with no event loop in it: a job is accepted when all that is held then fits under
   the cap, jobs are run one at a time in the order they were accepted, a record
   never changes once the job is settled, only a settled one expires, and a /stop
   is one step that lets go of everything.  The detailed specification is
   GenerateQueue. *)
EXTENDS Sequences

CONSTANTS Jobs,
          Fits  \* the sets of jobs whose nonces fit under the cap together

VARIABLES line,     \* accepted jobs that wait, in order
          running,  \* the job that is run, as a set
          record    \* what GET answers of each job

vars == <<line, running, record>>

Settled == {"completed", "failed"}

Held == {line[i] : i \in DOMAIN line} \cup running

Init ==
  /\ line = <<>> /\ running = {}
  /\ record = [j \in Jobs |-> "new"]

Accept(j) ==
  /\ record[j] = "new" /\ Held \cup {j} \in Fits
  /\ line' = Append(line, j) /\ record' = [record EXCEPT ![j] = "queued"]
  /\ UNCHANGED running

Begin ==
  /\ running = {} /\ line # <<>>
  /\ running' = {Head(line)} /\ line' = Tail(line)
  /\ record' = [record EXCEPT ![Head(line)] = "running"]

Settle(status) ==
  /\ running # {} /\ running' = {} /\ UNCHANGED line
  /\ \E old \in SUBSET {j \in Jobs : record[j] \in Settled} :
       record' = [j \in Jobs |-> IF j \in running THEN status
                                 ELSE IF j \in old THEN "gone" ELSE record[j]]

Clear ==
  /\ line' = <<>> /\ running' = {}
  /\ record' = [j \in Jobs |-> IF record[j] = "new" THEN "new" ELSE "gone"]

Next == (\E j \in Jobs : Accept(j)) \/ Begin \/ (\E status \in Settled : Settle(status)) \/ Clear

Spec == Init /\ [][Next]_vars
================================================================================
