----------------------------- MODULE KvReservation -----------------------------
(* poc_reservation: how a /generate job gets KV blocks to validate on, or falls
   back to overwriting blocks in place, and how it gives them back.

   The frontend is one asyncio event loop (one action per stretch between two
   awaits).  The engine core is another process: it takes commands from a FIFO
   queue, so a call that was abandoned (timeout, cancellation) still executes.
   What the code asks of vLLM (the BlockPool, collective_rpc, abort) is modelled
   from its use; pool ids are those of free, leasable blocks. *)
EXTENDS Naturals, Sequences, FiniteSets, SequencesExt

CONSTANTS Jobs,        \* users of poc_reservation: queued jobs and wait=true requests
          Chats,       \* live inference requests
          Blocks,      \* the block pool, the null block left out
          Need,        \* batch_size * blocks_per_seq
          InPlace,     \* the blocks the legacy in-place layout overwrites
          MaxPolls,    \* borrows that fit before a deadline
          Chunks,      \* chunks of a job
          MayFail,     \* calls that may raise
          CancelAt,    \* suspension points where /stop may cancel a job
          None

ASSUME ReservationAssumption ==
  /\ Jobs \cap Chats = {} /\ None \notin Jobs \cup Chats
  /\ IsFiniteSet(Blocks) /\ InPlace \subseteq Blocks
  /\ Need \in Nat \ {0} /\ MaxPolls \in Nat /\ Chunks \in Nat \ {0}

VARIABLES
  lock, waiters,  \* _poc_reservation_lock: its holder and the FIFO of its waiters
  avail,          \* _borrow_available[engine_client]
  pc,             \* where each job is suspended
  reply,          \* the answer of the call a job waits for
  polls,          \* borrows since the deadline was set
  escalated,      \* inference was aborted to make room
  lease,          \* the lease a job knows it holds
  left,           \* chunks still to compute
  attempt,        \* failed returns
  leaked,         \* blocks reported by the "PoC LEAKED" log line
  calls,          \* the engine core's input queue
  own,            \* who holds a reference on each block, None if it is free
  chat,           \* where each inference request is in the engine core
  requests        \* output_processor.request_states: the requests an abort names

vars == <<lock, waiters, avail, pc, reply, polls, escalated, lease, left, attempt,
          leaked, calls, own, chat, requests>>

PreLease == {"probe", "borrow", "poll", "abort", "settle", "legacyAbort"}
Working  == {"reAbort", "forward"}
Leaving  == {"return", "returnSleep", "reset"}
Inside   == PreLease \cup Working \cup Leaving

Ops == {"probe", "borrow", "abort", "forward", "return", "reset", "add"}
Call == [op : Ops, by : Jobs \cup Chats, on : SUBSET (Blocks \cup Chats)]

TypeOK ==
  /\ lock \in Jobs \cup {None}
  /\ waiters \in Seq(Jobs)
  /\ avail \in {"unknown", "yes", "no"}
  /\ pc \in [Jobs -> {"idle", "lockWait", "over"} \cup Inside]
  /\ reply \in [Jobs -> {"none", "ok", "busy", "fail"}]
  /\ polls \in [Jobs -> Nat]
  /\ escalated \in [Jobs -> BOOLEAN]
  /\ lease \in [Jobs -> SUBSET Blocks]
  /\ left \in [Jobs -> Nat]
  /\ attempt \in [Jobs -> 0 .. 3]
  /\ leaked \in SUBSET Blocks
  /\ calls \in Seq(Call)
  /\ own \in [Blocks -> Jobs \cup Chats \cup {None}]
  /\ chat \in [Chats -> {"out", "sent", "waiting", "running", "over"}]
  /\ requests \in SUBSET Chats

\* A model without a usable lease (_NO_LEASE_MODEL_TYPES) never probes.
Init ==
  /\ lock = None /\ waiters = <<>>
  /\ avail \in {"unknown", "no"}
  /\ pc = [j \in Jobs |-> "idle"]
  /\ reply = [j \in Jobs |-> "none"]
  /\ polls = [j \in Jobs |-> 0]
  /\ escalated = [j \in Jobs |-> FALSE]
  /\ lease = [j \in Jobs |-> {}]
  /\ left = [j \in Jobs |-> Chunks]
  /\ attempt = [j \in Jobs |-> 0]
  /\ leaked = {}
  /\ calls = <<>>
  /\ own = [b \in Blocks |-> None]
  /\ chat = [c \in Chats |-> "out"]
  /\ requests = {}

Free == {b \in Blocks : own[b] = None}

Await(j, point) == pc' = [pc EXCEPT ![j] = point]

\* Job j sends a call and is suspended at a point.
Send(j, op, on, point) ==
  /\ calls' = Append(calls, [op |-> op, by |-> j, on |-> on])
  /\ reply' = [reply EXCEPT ![j] = "none"]
  /\ Await(j, point)

\* The lock goes to the waiter that came first.
Release ==
  /\ lock' = IF waiters = <<>> THEN None ELSE Head(waiters)
  /\ waiters' = IF waiters = <<>> THEN <<>> ELSE Tail(waiters)

Leave(j) == Release /\ Await(j, "over") /\ UNCHANGED <<calls, reply, requests>>

--------------------------------------------------------------------------------
(* Into the lock, and to a lease or the in-place path. *)

Borrow(j) == Send(j, "borrow", {}, "borrow") /\ UNCHANGED requests

\* abort_all_requests; with nothing in flight it returns without suspending.
AbortAll(j, point) ==
  requests # {} /\ Send(j, "abort", requests, point) /\ requests' = {}

\* The first chunk or the next one: on the lease, or in place after a re-abort.
NextChunk(j, blocks) ==
  \/ blocks # {} /\ Send(j, "forward", blocks, "forward") /\ UNCHANGED requests
  \/ blocks = {} /\ AbortAll(j, "reAbort")
  \/ blocks = {} /\ requests = {} /\ Send(j, "forward", InPlace, "forward") /\ UNCHANGED requests

\* poc_reservation with the lock held and the verdict v on borrowing known or not.
Decide(j, v) ==
  \/ v = "yes" /\ Borrow(j)
  \/ v = "no" /\ AbortAll(j, "legacyAbort")
  \/ v = "no" /\ requests = {} /\ NextChunk(j, {})
  \/ v = "unknown" /\ Send(j, "probe", {}, "probe") /\ UNCHANGED requests

\* The escalation of reserve_poc_blocks, up to the settling sleep.
Escalate(j) ==
  \/ AbortAll(j, "abort")
  \/ requests = {} /\ Await(j, "settle") /\ UNCHANGED <<calls, reply, requests>>

Enter(j) ==
  /\ pc[j] = "idle"
  /\ \/ /\ lock = None
        /\ lock' = j /\ Decide(j, avail) /\ UNCHANGED waiters
     \/ /\ lock # None
        /\ waiters' = Append(waiters, j)
        /\ Await(j, "lockWait") /\ UNCHANGED <<lock, calls, reply, requests>>
  /\ UNCHANGED <<avail, polls, escalated, lease, left, attempt, leaked, own, chat>>

LockGranted(j) ==
  /\ pc[j] = "lockWait" /\ lock = j
  /\ Decide(j, avail)
  /\ UNCHANGED <<lock, waiters, avail, polls, escalated, lease, left, attempt, leaked, own, chat>>

\* The verdict is cached for the engine client's lifetime, a failure too.
ProbeAnswer(j) ==
  /\ pc[j] = "probe" /\ reply[j] # "none"
  /\ avail' = IF reply[j] = "ok" THEN "yes" ELSE "no"
  /\ Decide(j, avail')
  /\ UNCHANGED <<lock, waiters, polls, escalated, lease, left, attempt, leaked, own, chat>>

BorrowGranted(j) ==
  /\ pc[j] = "borrow" /\ reply[j] = "ok"
  /\ lease' = [lease EXCEPT ![j] = {b \in Blocks : own[b] = j}]
  /\ NextChunk(j, lease'[j])
  /\ UNCHANGED <<lock, waiters, avail, polls, escalated, left, attempt, leaked, own, chat>>

\* The pool is busy and the deadline is not over.
BorrowPoll(j) ==
  /\ pc[j] = "borrow" /\ reply[j] = "busy" /\ polls[j] < MaxPolls
  /\ polls' = [polls EXCEPT ![j] = @ + 1]
  /\ Await(j, "poll")
  /\ UNCHANGED <<lock, waiters, avail, reply, escalated, lease, left, attempt, leaked, calls, own,
                 chat, requests>>

PollWake(j) ==
  /\ pc[j] = "poll"
  /\ Borrow(j)
  /\ UNCHANGED <<lock, waiters, avail, polls, escalated, lease, left, attempt, leaked, own, chat>>

\* No lease in time, or the call raises: escalate once, then work in place.
BorrowGivenUp(j) ==
  /\ pc[j] = "borrow" /\ reply[j] \in {"busy", "fail"}
  /\ IF escalated[j] THEN NextChunk(j, {}) ELSE Escalate(j)
  /\ escalated' = [escalated EXCEPT ![j] = escalated[j] \/ reply[j] = "fail"]
  /\ UNCHANGED <<lock, waiters, avail, polls, lease, left, attempt, leaked, own, chat>>

\* abort() returns once its message is sent.
AbortSent(j) ==
  /\ \/ pc[j] = "abort" /\ Await(j, "settle") /\ UNCHANGED <<calls, reply, requests>>
     \/ pc[j] = "legacyAbort" /\ NextChunk(j, {})
     \/ pc[j] = "reAbort" /\ Send(j, "forward", InPlace, "forward") /\ UNCHANGED requests
  /\ UNCHANGED <<lock, waiters, avail, polls, escalated, lease, left, attempt, leaked, own, chat>>

\* A broken RPC surface is not asked again.
SettleWake(j) ==
  /\ pc[j] = "settle"
  /\ IF escalated[j] THEN NextChunk(j, {}) ELSE Borrow(j)
  /\ escalated' = [escalated EXCEPT ![j] = TRUE]
  /\ polls' = [polls EXCEPT ![j] = 0]
  /\ UNCHANGED <<lock, waiters, avail, lease, left, attempt, leaked, own, chat>>

--------------------------------------------------------------------------------
(* The forwards, and out of the reservation. *)

\* The finally block of poc_reservation.
Finally(j) ==
  /\ IF lease[j] # {} THEN Send(j, "return", lease[j], "return") ELSE Send(j, "reset", {}, "reset")
  /\ UNCHANGED requests

ChunkDone(j) ==
  /\ pc[j] = "forward" /\ reply[j] = "ok"
  /\ left' = [left EXCEPT ![j] = @ - 1]
  /\ IF left[j] = 1 THEN Finally(j) ELSE NextChunk(j, lease[j])
  /\ UNCHANGED <<lock, waiters, avail, polls, escalated, lease, attempt, leaked, own, chat>>

\* The forward raises or times out; a call that timed out stays in the queue.
ChunkFails(j) ==
  /\ pc[j] = "forward" /\ reply[j] \in {"none", "fail"}
  /\ "forward" \in MayFail
  /\ Finally(j)
  /\ UNCHANGED <<lock, waiters, avail, polls, escalated, lease, left, attempt, leaked, own, chat>>

Returned(j) ==
  /\ pc[j] \in {"return", "reset"} /\ reply[j] = "ok"
  /\ Leave(j)
  /\ UNCHANGED <<avail, polls, escalated, lease, left, attempt, leaked, own, chat>>

\* Mutant: the attempts are not counted.
ReturnFailsUncounted(j) ==
  /\ pc[j] = "return" /\ reply[j] = "fail"
  /\ Await(j, "returnSleep")
  /\ UNCHANGED <<lock, waiters, avail, reply, polls, escalated, lease, left, attempt, leaked, calls,
                 own, chat, requests>>

ReturnFails(j) ==
  /\ pc[j] = "return" /\ reply[j] = "fail"
  /\ attempt' = [attempt EXCEPT ![j] = @ + 1]
  /\ Await(j, "returnSleep")
  /\ UNCHANGED <<lock, waiters, avail, reply, polls, escalated, lease, left, leaked, calls, own,
                 chat, requests>>

\* Mutant: the last failure is swallowed.
ReturnAgainSilent(j) ==
  /\ pc[j] = "returnSleep"
  /\ \/ /\ attempt[j] < 3 /\ Send(j, "return", lease[j], "return")
        /\ UNCHANGED <<lock, waiters, requests>>
     \/ attempt[j] = 3 /\ Leave(j)
  /\ UNCHANGED <<avail, polls, escalated, lease, left, attempt, leaked, own, chat>>

\* Three attempts, then the leak is reported.
ReturnAgain(j) ==
  /\ pc[j] = "returnSleep"
  /\ \/ /\ attempt[j] < 3 /\ Send(j, "return", lease[j], "return")
        /\ UNCHANGED <<lock, waiters, leaked, requests>>
     \/ attempt[j] = 3 /\ Leave(j) /\ leaked' = leaked \cup lease[j]
  /\ UNCHANGED <<avail, polls, escalated, lease, left, attempt, own, chat>>

\* Mutant: a waiter that is cancelled passes the lock on as if it held it.
CancelReleases(j) ==
  /\ pc[j] \in CancelAt
  /\ \/ pc[j] = "lockWait" /\ Leave(j)
     \/ pc[j] \in Working /\ Finally(j) /\ UNCHANGED <<lock, waiters>>
  /\ UNCHANGED <<avail, polls, escalated, lease, left, attempt, leaked, own, chat>>

\* Mutant: a job that is cancelled in a forward skips the finally block.
CancelSkipsFinally(j) ==
  /\ pc[j] \in CancelAt \cap Working
  /\ Leave(j)
  /\ UNCHANGED <<avail, polls, escalated, lease, left, attempt, leaked, own, chat>>

(* /stop cancels the queue worker.  Before the try of poc_reservation nothing is
   undone; in a forward the job fails and its finally block runs; in the finally
   block itself the cancellation ends it. *)
Cancel(j) ==
  /\ pc[j] \in CancelAt
  /\ \/ /\ pc[j] = "lockWait" /\ lock # j
        /\ \E n \in DOMAIN waiters : waiters[n] = j /\ waiters' = RemoveAt(waiters, n)
        /\ Await(j, "over") /\ UNCHANGED <<lock, calls, reply, requests>>
     \/ pc[j] = "lockWait" /\ lock = j /\ Leave(j)
     \/ pc[j] \in PreLease /\ Leave(j)
     \/ pc[j] \in Working /\ Finally(j) /\ UNCHANGED <<lock, waiters>>
     \/ pc[j] \in Leaving /\ Leave(j)
  /\ UNCHANGED <<avail, polls, escalated, lease, left, attempt, leaked, own, chat>>

--------------------------------------------------------------------------------
(* The engine core (external): commands in order, and the scheduler. *)

Head1 == Head(calls)

\* An answer reaches the job only if it still waits for this call.
Answer(r) ==
  reply' = IF pc[Head1.by] = Head1.op THEN [reply EXCEPT ![Head1.by] = r] ELSE reply

Executes(ops) == calls # <<>> /\ Head1.op \in ops /\ calls' = Tail(calls)

Frontend == <<lock, waiters, avail, pc, polls, escalated, lease, left, attempt, leaked>>

EngineFails ==
  /\ Executes(MayFail \cap {"probe", "borrow", "forward", "return"})
  /\ Answer("fail")
  /\ UNCHANGED <<own, chat, requests>> /\ UNCHANGED Frontend

\* Answers that change nothing in the pool; a forward writes the blocks Head1.on.
EngineAnswers ==
  /\ Executes({"probe", "forward", "reset"})
  /\ Answer("ok")
  /\ UNCHANGED <<own, chat, requests>> /\ UNCHANGED Frontend

EngineLends ==
  /\ Executes({"borrow"})
  /\ \/ /\ Cardinality(Free) < Need
        /\ Answer("busy") /\ UNCHANGED own
     \/ \E S \in SUBSET Free :
          /\ Cardinality(S) = Need
          /\ own' = [b \in Blocks |-> IF b \in S THEN Head1.by ELSE own[b]]
          /\ Answer("ok")
  /\ UNCHANGED <<chat, requests>> /\ UNCHANGED Frontend

EngineTakesBack ==
  /\ Executes({"return"})
  /\ own' = [b \in Blocks |-> IF b \in Head1.on THEN None ELSE own[b]]
  /\ Answer("ok")
  /\ UNCHANGED <<chat, requests>> /\ UNCHANGED Frontend

Drop(cs) ==
  /\ own' = [b \in Blocks |-> IF own[b] \in cs THEN None ELSE own[b]]
  /\ chat' = [c \in Chats |-> IF c \in cs THEN "over" ELSE chat[c]]

EngineAborts ==
  /\ Executes({"abort"})
  /\ Drop(Head1.on)
  /\ UNCHANGED <<reply, requests>> /\ UNCHANGED Frontend

EngineAdds ==
  /\ Executes({"add"})
  /\ chat' = [chat EXCEPT ![Head1.by] = IF @ = "sent" THEN "waiting" ELSE @]
  /\ UNCHANGED <<own, reply, requests>> /\ UNCHANGED Frontend

\* /v1/chat/completions: the gate is open while validations run.
ChatArrives(c) ==
  /\ chat[c] = "out"
  /\ chat' = [chat EXCEPT ![c] = "sent"]
  /\ calls' = Append(calls, [op |-> "add", by |-> c, on |-> {}])
  /\ requests' = requests \cup {c}
  /\ UNCHANGED <<own, reply>> /\ UNCHANGED Frontend

Schedule(c) ==
  /\ chat[c] = "waiting"
  /\ \E b \in Free : own' = [own EXCEPT ![b] = c]
  /\ chat' = [chat EXCEPT ![c] = "running"]
  /\ UNCHANGED <<calls, reply, requests>> /\ UNCHANGED Frontend

Finish(c) ==
  /\ chat[c] = "running"
  /\ Drop({c})
  /\ requests' = requests \ {c}
  /\ UNCHANGED <<calls, reply>> /\ UNCHANGED Frontend

JobStep(j) ==
  \/ LockGranted(j) \/ ProbeAnswer(j)
  \/ BorrowGranted(j) \/ BorrowPoll(j) \/ PollWake(j) \/ BorrowGivenUp(j)
  \/ AbortSent(j) \/ SettleWake(j)
  \/ ChunkDone(j) \/ ChunkFails(j)
  \/ Returned(j) \/ ReturnFails(j) \/ ReturnAgain(j)

EngineStep ==
  \/ EngineFails \/ EngineAnswers \/ EngineLends \/ EngineTakesBack
  \/ EngineAborts \/ EngineAdds

ChatStep(c) == ChatArrives(c) \/ Schedule(c) \/ Finish(c)

Next ==
  \/ \E j \in Jobs : Enter(j) \/ JobStep(j) \/ Cancel(j)
  \/ EngineStep
  \/ \E c \in Chats : ChatStep(c)

Spec == Init /\ [][Next]_vars

\* The loop resumes whom it can; the engine core works its queue off.
Fairness == (\A j \in Jobs : WF_vars(JobStep(j))) /\ WF_vars(EngineStep)

FairSpec == Spec /\ Fairness

--------------------------------------------------------------------------------
(* Properties. *)

ReturnPending(b) == \E n \in DOMAIN calls : calls[n].op = "return" /\ b \in calls[n].on

(* The lock serialises validations: whoever probes, borrows, forwards or returns
   holds it, so a request never works beside another one. *)
OnlyTheHolderWorks == \A j \in Jobs : pc[j] \in Inside => lock = j

(* A leased block goes back or is reported: while a job holds blocks in the pool
   it is on its way to return them, the return is in the engine's queue, or the
   "PoC LEAKED" line was logged (_return_lease_with_retry). *)
NoSilentLeak ==
  \A b \in Blocks : own[b] \in Jobs =>
    \/ pc[own[b]] \in {"borrow", "forward", "return", "returnSleep"}
    \/ b \in leaked
    \/ ReturnPending(b)

(* "queued validations WAIT instead of each tripping the abort-inference
   escalation": when the engine core answers a borrow, no other validation's lease
   is in its way, so a busy answer means that inference holds the pool. *)
BusyMeansInference ==
  calls # <<>> /\ Head1.op = "borrow" => \A b \in Blocks : own[b] \in Jobs => b \in leaked

(* Whoever asks for the lock gets through the reservation: the wait for those in
   front, the polling, the escalation and the retried return all end. *)
EveryJobGetsThrough == \A j \in Jobs : pc[j] # "idle" ~> pc[j] = "over"
================================================================================
