----------------------------- MODULE GenerateQueue -----------------------------
(* POST /generate with wait=false: the queue singleton with its nonce cap and its
   result records, the worker task that works the jobs off, the callback queue
   that posts their results, and the /stop requests that tear all of it down.

   One asyncio event loop.  The locks of the queue are never waited for (no await
   under them suspends), so enqueue and clear_all are single steps; every await of
   stop_worker is taken as a suspension.  A queue is named by the job whose
   request created it, and a worker and a callback queue by the job whose request
   started the worker that made it. *)
EXTENDS Integers, Sequences, FiniteSets, SequencesExt, FiniteSetsExt

CONSTANTS Jobs,       \* the /generate requests with wait=false
          Urls,       \* those with a callback url
          Stops,      \* the /stop requests
          Size,       \* nonces of each job
          Cap,        \* POC_MAX_QUEUED_NONCES
          Posts,      \* POC_CALLBACK_MAX_CONCURRENT
          MaxRetries, \* POC_CALLBACK_MAX_RETRIES
          CbCap,      \* POC_CALLBACK_QUEUE_SIZE
          Overlap,    \* TRUE: requests are accepted while a /stop is unanswered
          None

ASSUME QueueAssumption ==
  /\ None \notin Jobs /\ Urls \subseteq Jobs /\ IsFiniteSet(Jobs)
  /\ Size \in [Jobs -> Nat \ {0}] /\ Cap \in Nat
  /\ Posts \in Nat \ {0} /\ MaxRetries \in Nat \ {0} /\ CbCap \in Nat \ {0}
  /\ Overlap \in BOOLEAN

VARIABLES
  inst,       \* _queue_instance
  queue,      \* _queue of each instance
  total,      \* _queued_nonces
  result,     \* status of each job's record, "none" if there is none
  home,       \* the instance that accepted the job
  stopEvent,  \* _stop_event
  task,       \* _worker_task
  pc,         \* where each worker is suspended
  of,         \* the instance a worker works for
  job,        \* the job it works on
  cancelled,  \* its task was cancelled and has not noticed yet
  mining,     \* _is_generation_active
  own,        \* GenerateQueue._callback_queue of each instance
  shared,     \* the callback queue singleton
  cbWorker,   \* the worker task of each callback queue
  pending,    \* its deque
  cb,         \* where each job's callback is
  via,        \* the callback queue it was given to
  attempt,    \* posts begun
  stop,       \* where each /stop is suspended
  target,     \* the instance it stops
  awaits      \* the worker, or the callback queue, it waits for

queueVars  == <<inst, queue, total, result, home, stopEvent, task>>
workerVars == <<pc, of, job, cancelled>>
cbVars     == <<own, shared, cbWorker, pending, cb, via, attempt>>
stopVars   == <<stop, target, awaits>>
vars == <<queueVars, workerVars, mining, cbVars, stopVars>>

JobOrNone == Jobs \cup {None}
Settled == {"completed", "failed"}
Alive(w) == w # None /\ pc[w] \notin {"none", "over"}

TypeOK ==
  /\ inst \in JobOrNone /\ home \in [Jobs -> JobOrNone]
  /\ queue \in [Jobs -> Seq(Jobs)] /\ total \in [Jobs -> Nat]
  /\ result \in [Jobs -> {"none", "queued", "running"} \cup Settled]
  /\ stopEvent \in [Jobs -> BOOLEAN] /\ task \in [Jobs -> JobOrNone]
  /\ pc \in [Jobs -> {"none", "new", "get", "poll", "work", "unwind", "over"}]
  /\ of \in [Jobs -> JobOrNone] /\ job \in [Jobs -> JobOrNone]
  /\ cancelled \in [Jobs -> BOOLEAN] /\ mining \in BOOLEAN
  /\ own \in [Jobs -> JobOrNone] /\ shared \in JobOrNone
  /\ cbWorker \in [Jobs -> {"none", "run", "over"}]
  /\ \A c \in Jobs : pending[c] \in Seq(Jobs) /\ Len(pending[c]) <= CbCap
  /\ cb \in [Jobs -> {"none", "queued", "ready", "posting", "delivered", "givenUp", "dropped",
                      "skipped", "cut"}]
  /\ via \in [Jobs -> JobOrNone] /\ attempt \in [Jobs -> 0 .. MaxRetries]
  /\ stop \in [Stops -> {"idle", "worker", "cbWorker", "cbSends", "clearWorker", "clearSends", "over"}]
  /\ target \in [Stops -> JobOrNone] /\ awaits \in [Stops -> JobOrNone]

Init ==
  /\ inst = None /\ home = [j \in Jobs |-> None]
  /\ queue = [j \in Jobs |-> <<>>] /\ total = [j \in Jobs |-> 0]
  /\ result = [j \in Jobs |-> "none"]
  /\ stopEvent = [j \in Jobs |-> FALSE] /\ task = home
  /\ pc = [j \in Jobs |-> "none"] /\ of = home /\ job = home
  /\ cancelled = stopEvent /\ mining = FALSE
  /\ own = home /\ shared = None
  /\ cbWorker = pc /\ pending = queue /\ cb = pc /\ via = home /\ attempt = total
  /\ stop = [s \in Stops |-> "idle"]
  /\ target = [s \in Stops |-> None] /\ awaits = target

Stopping == \E s \in Stops : stop[s] \notin {"idle", "over"}

--------------------------------------------------------------------------------
(* POST /generate. *)

ensure_worker_running(q, j) ==
  IF Alive(task[q]) THEN UNCHANGED <<stopEvent, task, pc, of>>
  ELSE /\ stopEvent' = [stopEvent EXCEPT ![q] = FALSE]
       /\ task' = [task EXCEPT ![q] = j]
       /\ pc' = [pc EXCEPT ![j] = "new"] /\ of' = [of EXCEPT ![j] = q]

\* get_queue, enqueue, ensure_worker_running; a job over the cap gets a 429.
Generate(j) ==
  /\ home[j] = None /\ j # inst /\ (Stopping => Overlap)
  /\ LET q == IF inst = None THEN j ELSE inst IN
       /\ inst' = q
       /\ \/ /\ total[q] + Size[j] <= Cap
             /\ total' = [total EXCEPT ![q] = @ + Size[j]]
             /\ result' = [result EXCEPT ![j] = "queued"]
             /\ home' = [home EXCEPT ![j] = q]
             /\ queue' = [queue EXCEPT ![q] = Append(@, j)]
             /\ ensure_worker_running(q, j)
          \/ /\ total[q] + Size[j] > Cap
             /\ UNCHANGED <<total, result, home, queue, stopEvent, task, pc, of>>
  /\ UNCHANGED <<job, cancelled, mining, cbVars, stopVars>>

--------------------------------------------------------------------------------
(* _worker_loop. *)

\* Mutant: the job's nonces are not given back.
FinishKeepsNonces(w) ==
  /\ UNCHANGED total
  /\ job' = [job EXCEPT ![w] = None]

\* Mutant: the nonces of a job that clear_all has cleared are subtracted again.
FinishUnclamped(w) ==
  /\ total' = [total EXCEPT ![of[w]] = @ - Size[job[w]]]
  /\ job' = [job EXCEPT ![w] = None]

\* The finally block.
Finish(w) ==
  /\ total' = [total EXCEPT ![of[w]] = Max({0, @ - Size[job[w]]})]
  /\ job' = [job EXCEPT ![w] = None]

\* Another turn of the loop, unless stop_event is set.
LoopHead(w) == pc' = [pc EXCEPT ![w] = IF stopEvent[of[w]] THEN "over" ELSE "get"]

Leaves(w) == pc' = [pc EXCEPT ![w] = "over"]

\* Mutant: old records expire whatever their status.
RecordForgets(w, status) ==
  LET known == [result EXCEPT ![job[w]] = IF @ = "none" THEN @ ELSE status]
  IN  \E old \in SUBSET {j \in Jobs : home[j] = of[w]} :
        result' = [j \in Jobs |-> IF j \in old THEN "none" ELSE known[j]]

\* The record of w's job, if it is still there, gets a status; old ones expire.
Record(w, status) ==
  LET known == [result EXCEPT ![job[w]] = IF @ = "none" THEN @ ELSE status]
  IN  \E old \in SUBSET {j \in Jobs : home[j] = of[w] /\ result[j] \in Settled} :
        result' = [j \in Jobs |-> IF j \in old THEN "none" ELSE known[j]]

\* get_callback_queue and CallbackQueue.start; a task cancelled before is over.
WorkerStarts(w) ==
  /\ pc[w] = "new"
  /\ LET c == IF shared = None THEN w ELSE shared IN
       \/ /\ ~cancelled[w]
          /\ shared' = c /\ own' = [own EXCEPT ![of[w]] = c]
          /\ cbWorker' = [cbWorker EXCEPT ![c] = "run"]
          /\ LoopHead(w)
       \/ cancelled[w] /\ Leaves(w) /\ UNCHANGED <<shared, own, cbWorker>>
  /\ UNCHANGED <<queueVars, of, job, cancelled, mining, pending, cb, via, attempt, stopVars>>

\* A job is there: mining goes first, and a stop_event ends the loop.
Take(w) ==
  /\ pc[w] = "get" /\ ~cancelled[w] /\ queue[of[w]] # <<>>
  /\ LET j == Head(queue[of[w]]) IN
       /\ job' = [job EXCEPT ![w] = j]
       /\ result' = [result EXCEPT ![j] = IF @ = "none" THEN @ ELSE "running"]
  /\ queue' = [queue EXCEPT ![of[w]] = Tail(@)]
  /\ pc' = [pc EXCEPT ![w] = IF mining \/ stopEvent[of[w]] THEN "poll" ELSE "work"]
  /\ UNCHANGED <<inst, total, home, stopEvent, task, of, cancelled, mining, cbVars, stopVars>>

\* queue.get times out every second.
IdleExit(w) ==
  /\ pc[w] = "get" /\ (cancelled[w] \/ stopEvent[of[w]])
  /\ Leaves(w)
  /\ UNCHANGED <<queueVars, of, job, cancelled, mining, cbVars, stopVars>>

\* The wait for a mining round is over.
PollEnds(w) ==
  /\ pc[w] = "poll" /\ ~cancelled[w] /\ ~stopEvent[of[w]] /\ ~mining
  /\ pc' = [pc EXCEPT ![w] = "work"]
  /\ UNCHANGED <<queueVars, of, job, cancelled, mining, cbVars, stopVars>>

PollExit(w) ==
  /\ pc[w] = "poll" /\ (cancelled[w] \/ stopEvent[of[w]])
  /\ Finish(w) /\ Leaves(w)
  /\ UNCHANGED <<inst, queue, result, home, stopEvent, task, of, cancelled, mining, cbVars, stopVars>>

\* _enqueue_callback and CallbackQueue.enqueue, which drops the oldest.
GiveToCallbackQueue(j, c) ==
  /\ IF c = None THEN cb' = [cb EXCEPT ![j] = "skipped"] /\ UNCHANGED <<pending, via>>
     ELSE LET full == Len(pending[c]) >= CbCap IN
       /\ via' = [via EXCEPT ![j] = c]
       /\ pending' = [pending EXCEPT ![c] = Append(IF full THEN Tail(@) ELSE @, j)]
       /\ cb' = [k \in Jobs |-> IF k = j THEN "queued"
                                ELSE IF full /\ k = Head(pending[c]) THEN "dropped" ELSE cb[k]]
  /\ UNCHANGED <<own, shared, cbWorker, attempt>>

\* _process_job returns.
Complete(w) ==
  /\ pc[w] = "work" /\ ~cancelled[w] /\ ~stopEvent[of[w]]
  /\ Record(w, "completed") /\ Finish(w) /\ LoopHead(w)
  /\ \/ job[w] \in Urls /\ GiveToCallbackQueue(job[w], own[of[w]])
     \/ job[w] \notin Urls /\ UNCHANGED cbVars
  /\ UNCHANGED <<inst, queue, home, stopEvent, task, of, cancelled, mining, stopVars>>

\* Mutant: an exception ends the loop.
FailEndsLoop(w) ==
  /\ pc[w] = "work" /\ ~cancelled[w]
  /\ Record(w, "failed") /\ Finish(w) /\ Leaves(w)
  /\ UNCHANGED <<inst, queue, home, stopEvent, task, of, cancelled, mining, cbVars, stopVars>>

\* _process_job raises: a timeout, an RPC error, or "Job cancelled".
Fail(w) ==
  /\ pc[w] = "work" /\ ~cancelled[w]
  /\ Record(w, "failed") /\ Finish(w) /\ LoopHead(w)
  /\ UNCHANGED <<inst, queue, home, stopEvent, task, of, cancelled, mining, cbVars, stopVars>>

\* The cancellation is delivered; the reservation still returns its lease.
CancelWork(w) ==
  /\ pc[w] = "work" /\ cancelled[w]
  /\ pc' = [pc EXCEPT ![w] = "unwind"] /\ cancelled' = [cancelled EXCEPT ![w] = FALSE]
  /\ UNCHANGED <<queueVars, of, job, mining, cbVars, stopVars>>

\* In an RPC the cancellation has become "Job cancelled", elsewhere it ends the loop.
Unwound(w) ==
  /\ pc[w] = "unwind"
  /\ \/ Record(w, "failed") /\ LoopHead(w)
     \/ UNCHANGED result /\ Leaves(w)
  /\ Finish(w)
  /\ UNCHANGED <<inst, queue, home, stopEvent, task, of, cancelled, mining, cbVars, stopVars>>

--------------------------------------------------------------------------------
(* CallbackQueue. *)

CbFrame == UNCHANGED <<queueVars, workerVars, mining, own, shared, via, stopVars>>

\* The worker of a callback queue makes a task of everything that is queued.
Dispatch(c) ==
  /\ cbWorker[c] = "run" /\ ~stopEvent[of[c]] /\ pending[c] # <<>>
  /\ cb' = [j \in Jobs |-> IF j \in ToSet(pending[c]) THEN "ready" ELSE cb[j]]
  /\ pending' = [pending EXCEPT ![c] = <<>>]
  /\ UNCHANGED <<cbWorker, attempt>> /\ CbFrame

DispatcherExits(c) ==
  /\ cbWorker[c] = "run" /\ stopEvent[of[c]]
  /\ cbWorker' = [cbWorker EXCEPT ![c] = "over"]
  /\ UNCHANGED <<pending, cb, attempt>> /\ CbFrame

\* _send_with_retry gets the semaphore, which it keeps through its retries.
SendBegins(j) ==
  /\ cb[j] = "ready"
  /\ Cardinality({k \in Jobs : cb[k] = "posting" /\ via[k] = via[j]}) < Posts
  /\ cb' = [cb EXCEPT ![j] = IF stopEvent[of[via[j]]] THEN "cut" ELSE "posting"]
  /\ attempt' = [attempt EXCEPT ![j] = 1]
  /\ UNCHANGED <<cbWorker, pending>> /\ CbFrame

SendSucceeds(j) ==
  /\ cb[j] = "posting"
  /\ cb' = [cb EXCEPT ![j] = "delivered"]
  /\ UNCHANGED <<cbWorker, pending, attempt>> /\ CbFrame

\* Mutant: a callback whose last attempt fails begins again.
SendFailsBeginsAgain(j) ==
  /\ cb[j] = "posting"
  /\ \/ attempt[j] = MaxRetries /\ cb' = [cb EXCEPT ![j] = "ready"] /\ UNCHANGED attempt
     \/ attempt[j] < MaxRetries /\ attempt' = [attempt EXCEPT ![j] = @ + 1] /\ UNCHANGED cb
  /\ UNCHANGED <<cbWorker, pending>> /\ CbFrame

SendFails(j) ==
  /\ cb[j] = "posting"
  /\ \/ /\ attempt[j] = MaxRetries
        /\ cb' = [cb EXCEPT ![j] = "givenUp"] /\ UNCHANGED attempt
     \/ /\ attempt[j] < MaxRetries
        /\ attempt' = [attempt EXCEPT ![j] = @ + 1]
        /\ cb' = [cb EXCEPT ![j] = IF stopEvent[of[via[j]]] THEN "cut" ELSE @]
  /\ UNCHANGED <<cbWorker, pending>> /\ CbFrame

--------------------------------------------------------------------------------
(* POST /stop: clear_queue. *)

At(s, point, waits) == stop' = [stop EXCEPT ![s] = point] /\ awaits' = [awaits EXCEPT ![s] = waits]

\* Mutant: the worker is cancelled and not told to stop.
ClearedUnsignalled(q) ==
  /\ queue' = [queue EXCEPT ![q] = <<>>]
  /\ total' = [total EXCEPT ![q] = 0]
  /\ result' = [j \in Jobs |-> IF home[j] = q THEN "none" ELSE result[j]]
  /\ UNCHANGED stopEvent

Cleared(q) ==
  /\ queue' = [queue EXCEPT ![q] = <<>>]
  /\ total' = [total EXCEPT ![q] = 0]
  /\ result' = [j \in Jobs |-> IF home[j] = q THEN "none" ELSE result[j]]
  /\ stopEvent' = [stopEvent EXCEPT ![q] = TRUE]

\* CallbackQueue.stop up to its first await: the worker is cancelled.
StopDispatcher(s, c, point) ==
  /\ cbWorker' = [cbWorker EXCEPT ![c] = IF @ = "run" THEN "over" ELSE @]
  /\ At(s, point, c)

\* clear_callback_queue, or the end of clear_queue.
ClearCallbacks(s) ==
  \/ shared # None /\ StopDispatcher(s, shared, "clearWorker") /\ UNCHANGED inst
  \/ shared = None /\ At(s, "over", None) /\ inst' = None /\ UNCHANGED cbWorker

\* The part of stop_worker after the worker.
StopCallbacks(s) ==
  \/ own[target'[s]] # None /\ StopDispatcher(s, own[target'[s]], "cbWorker") /\ UNCHANGED inst
  \/ own[target'[s]] = None /\ ClearCallbacks(s)

\* The mining round was cancelled before.
StopBegins(s) ==
  /\ stop[s] = "idle" /\ inst # None
  /\ target' = [target EXCEPT ![s] = inst]
  /\ Cleared(inst) /\ mining' = FALSE
  /\ LET w == task[inst] IN
       \/ /\ Alive(w)
          /\ cancelled' = [cancelled EXCEPT ![w] = TRUE]
          /\ At(s, "worker", w) /\ UNCHANGED <<inst, cbWorker>>
       \/ /\ ~Alive(w)
          /\ StopCallbacks(s) /\ UNCHANGED cancelled
  /\ UNCHANGED <<home, task, pc, of, job, own, shared, pending, cb, via, attempt>>

StopNothing(s) ==
  /\ stop[s] = "idle" /\ inst = None
  /\ At(s, "over", None) /\ mining' = FALSE
  /\ UNCHANGED <<queueVars, workerVars, cbVars, target>>

WorkerStopped(s) ==
  /\ stop[s] = "worker" /\ ~Alive(awaits[s])
  /\ task' = [task EXCEPT ![target[s]] = None]
  /\ UNCHANGED target /\ StopCallbacks(s)
  /\ UNCHANGED <<queue, total, result, home, stopEvent, workerVars, mining, own, shared, pending, cb,
                 via, attempt>>

\* Mutant: the send tasks are not cancelled.
SendsGoOn(s) ==
  /\ stop[s] \in {"cbWorker", "clearWorker"}
  /\ At(s, IF stop[s] = "cbWorker" THEN "cbSends" ELSE "clearSends", awaits[s])
  /\ UNCHANGED <<queueVars, workerVars, mining, cbVars, target>>

\* The sends are cancelled; a post may have arrived.
SendsCancelled(s) ==
  /\ stop[s] \in {"cbWorker", "clearWorker"}
  /\ At(s, IF stop[s] = "cbWorker" THEN "cbSends" ELSE "clearSends", awaits[s])
  /\ cb' = [j \in Jobs |-> IF via[j] = awaits[s] /\ cb[j] \in {"ready", "posting"} THEN "cut" ELSE cb[j]]
  /\ UNCHANGED <<queueVars, workerVars, mining, own, shared, cbWorker, pending, via, attempt, target>>

\* The deque is cleared and the callback queue forgotten.
CallbacksStopped(s) ==
  /\ stop[s] \in {"cbSends", "clearSends"}
  /\ pending' = [pending EXCEPT ![awaits[s]] = <<>>]
  /\ cb' = [j \in Jobs |-> IF j \in ToSet(pending[awaits[s]]) THEN "cut" ELSE cb[j]]
  /\ UNCHANGED target
  /\ \/ /\ stop[s] = "cbSends"
        /\ own' = [own EXCEPT ![target[s]] = None]
        /\ ClearCallbacks(s) /\ UNCHANGED shared
     \/ /\ stop[s] = "clearSends"
        /\ shared' = None /\ inst' = None
        /\ At(s, "over", None) /\ UNCHANGED <<own, cbWorker>>
  /\ UNCHANGED <<queue, total, result, home, stopEvent, task, workerVars, mining, via, attempt>>

\* A round starts, or ends by a crash; /stop ends it too.
Mining == mining' = ~mining /\ UNCHANGED <<queueVars, workerVars, cbVars, stopVars>>

--------------------------------------------------------------------------------
WorkerStep(w) ==
  \/ WorkerStarts(w) \/ Take(w) \/ IdleExit(w) \/ PollEnds(w) \/ PollExit(w)
  \/ Complete(w) \/ Fail(w) \/ CancelWork(w) \/ Unwound(w)

CallbackStep(c) == Dispatch(c) \/ DispatcherExits(c)

SendStep(j) == SendBegins(j) \/ SendSucceeds(j) \/ SendFails(j)

StopStep(s) == WorkerStopped(s) \/ SendsCancelled(s) \/ CallbacksStopped(s)

Next ==
  \/ \E j \in Jobs : Generate(j) \/ WorkerStep(j) \/ CallbackStep(j) \/ SendStep(j)
  \/ \E s \in Stops : StopBegins(s) \/ StopNothing(s) \/ StopStep(s)
  \/ Mining

Spec == Init /\ [][Next]_vars

(* The loop runs every task that can go on; an RPC answers or times out, and so
   does a post. *)
Fairness ==
  /\ \A j \in Jobs : WF_vars(WorkerStep(j)) /\ WF_vars(CallbackStep(j)) /\ WF_vars(SendStep(j))
  /\ \A s \in Stops : WF_vars(StopStep(s))

FairSpec == Spec /\ Fairness
--------------------------------------------------------------------------------
(* Properties. *)

Held(q) == ToSet(queue[q]) \cup {job[w] : w \in {v \in Jobs : of[v] = q /\ job[v] # None}}

(* The cap holds: what _queued_nonces counts is what is queued or being worked on,
   through failures, polls and cancellations, so a full queue drains and an
   accepted job always fits. *)
CapCounts ==
  inst # None /\ ~Stopping =>
    total[inst] = MapThenSumSet(LAMBDA j : Size[j], Held(inst)) /\ total[inst] <= Cap

(* A /stop leaves nothing behind: once the singleton is gone no worker works, no
   callback queue dispatches and nothing is being posted. *)
StoppedIsQuiet ==
  inst = None => \A j \in Jobs : ~Alive(j) /\ cbWorker[j] # "run" /\ cb[j] \notin {"queued", "ready", "posting"}

Visible(j) == inst # None /\ inst = home[j] /\ result[j] # "none"

(* "Pull the result later via GET": the record of a queued job goes only when the
   job is settled (and old), or with a /stop that came after the job. *)
RecordsLast ==
  [][\A j \in Jobs : Visible(j) /\ ~Visible(j)' =>
       result[j] \in Settled \/ \E s \in Stops : stop[s] = "idle" /\ stop'[s] # "idle"]_vars

(* What a client sees of the store: the queue and the record of the singleton, and the
   job of its worker unless a /stop has let go of it. *)
Store == INSTANCE JobStore WITH
           Fits <- {S \in SUBSET Jobs : MapThenSumSet(LAMBDA j : Size[j], S) <= Cap},
           line <- IF inst = None THEN <<>> ELSE queue[inst],
           running <- {job[w] : w \in {v \in Jobs : job[v] # None /\ ~Stopping}},
           record <- [j \in Jobs |-> IF home[j] = None THEN "new"
                                     ELSE IF Visible(j) THEN result[j] ELSE "gone"]

(* The queue, its worker and the stops implement the store of JobStore: the awaits of
   a worker, of a failing job and of clear_queue never show a client a job run out of
   turn or twice, a settled record that changes, or a half cleared queue. *)
RefinesJobStore == Store!Spec

(* A queued job is completed, failed or cleared, if mining does not go on for
   ever: neither a worker's end nor a failed job strands those behind it. *)
EveryJobSettles ==
  <>[]~mining => \A j \in Jobs : result[j] = "queued" ~> result[j] \notin {"queued", "running"}

(* A job's callback is delivered or given up by a rule: slow urls that hold the
   semaphore do not starve the others. *)
EveryCallbackSettles ==
  \A j \in Jobs : cb[j] = "queued" ~> cb[j] \in {"delivered", "givenUp", "dropped", "cut"}

(* A /stop is answered, whatever the worker and the posts it waits for are doing
   when it cancels them. *)
EveryStopEnds == \A s \in Stops : stop[s] # "idle" ~> stop[s] = "over"
================================================================================
