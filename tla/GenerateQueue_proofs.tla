-------------------------- MODULE GenerateQueue_proofs --------------------------
(* Proofs about the job queue, for any jobs, sizes, caps and stops: the types, with  *)
(* the clamped counter of nonces; and, when no request is accepted while a /stop is  *)
(* unanswered, that records last, that a stop leaves nothing behind, that the        *)
(* counter counts the nonces of the jobs that are queued or worked on, and that the  *)
(* queue implements the abstract store of JobStore.                                  *)
EXTENDS GenerateQueue, Induction

(* The types, variable by variable group, and what a worker at work has in hand. *)
QueueTypes ==
  /\ inst \in JobOrNone /\ home \in [Jobs -> JobOrNone]
  /\ queue \in [Jobs -> Seq(Jobs)] /\ total \in [Jobs -> Nat]
  /\ result \in [Jobs -> {"none", "queued", "running"} \cup Settled]
  /\ stopEvent \in [Jobs -> BOOLEAN] /\ task \in [Jobs -> JobOrNone]

WorkerTypes ==
  /\ pc \in [Jobs -> {"none", "new", "get", "poll", "work", "unwind", "over"}]
  /\ of \in [Jobs -> JobOrNone] /\ job \in [Jobs -> JobOrNone]
  /\ cancelled \in [Jobs -> BOOLEAN] /\ mining \in BOOLEAN

InHand ==
  \A w \in Jobs :
    /\ Alive(w) => of[w] \in Jobs
    /\ pc[w] \in {"poll", "work", "unwind"} => job[w] \in Jobs

CallbackTypes ==
  /\ own \in [Jobs -> JobOrNone] /\ shared \in JobOrNone
  /\ cbWorker \in [Jobs -> {"none", "run", "over"}]
  /\ DOMAIN pending = Jobs
  /\ \A c \in Jobs : pending[c] \in Seq(Jobs) /\ Len(pending[c]) <= CbCap
  /\ cb \in [Jobs -> {"none", "queued", "ready", "posting", "delivered", "givenUp", "dropped",
                      "skipped", "cut"}]
  /\ via \in [Jobs -> JobOrNone] /\ attempt \in [Jobs -> 0 .. MaxRetries]

StopTypes ==
  /\ stop \in [Stops -> {"idle", "worker", "cbWorker", "cbSends", "clearWorker", "clearSends", "over"}]
  /\ target \in [Stops -> JobOrNone] /\ awaits \in [Stops -> JobOrNone]
  /\ \A s \in Stops :
       /\ stop[s] \notin {"idle", "over"} => target[s] \in Jobs
       /\ stop[s] \in {"cbWorker", "cbSends", "clearWorker", "clearSends"} => awaits[s] \in Jobs

QTypes == QueueTypes /\ WorkerTypes /\ InHand /\ CallbackTypes /\ StopTypes

LEMMA QTypesTypeOK == QTypes => TypeOK
  BY DEF QTypes, QueueTypes, WorkerTypes, CallbackTypes, StopTypes, TypeOK

LEMMA QTypesInit == Init => QTypes
<1> SUFFICES ASSUME Init PROVE QTypes
  OBVIOUS
<1> USE QueueAssumption DEF Init, JobOrNone
<1>1. QueueTypes
  BY DEF QueueTypes
<1>2. WorkerTypes /\ InHand
  BY DEF WorkerTypes, InHand, Alive
<1>3. CallbackTypes
  BY DEF CallbackTypes
<1>4. StopTypes
  BY DEF StopTypes
<1> QED BY <1>1, <1>2, <1>3, <1>4 DEF QTypes

--------------------------------------------------------------------------------
(* What the parts of the worker's actions do. *)

(* The larger of 0 and a number, as the finally block clamps the counter. *)
LEMMA MaxOfTwo == ASSUME NEW x \in Int PROVE Max({0, x}) = IF x >= 0 THEN x ELSE 0
<1> DEFINE m == IF x >= 0 THEN x ELSE 0
<1>1. m \in {0, x} /\ \A z \in {0, x} : m >= z
  OBVIOUS
<1>2. \A y \in {0, x} : (\A z \in {0, x} : y >= z) => y = m
  OBVIOUS
<1> HIDE DEF m
<1>3. Max({0, x}) = m
  BY <1>1, <1>2 DEF Max
<1> QED BY <1>3 DEF m

LEMMA Clamped == ASSUME NEW x \in Int PROVE Max({0, x}) \in Nat
<1>1. Max({0, x}) = IF x >= 0 THEN x ELSE 0
  BY MaxOfTwo
<1> QED BY <1>1

LEMMA FinishFacts ==
  ASSUME QTypes, NEW w \in Jobs, pc[w] \in {"poll", "work", "unwind"}, Finish(w)
  PROVE  /\ total' \in [Jobs -> Nat] /\ job' \in [Jobs -> JobOrNone]
         /\ \A v \in Jobs : v # w => job'[v] = job[v]
<1>1. job[w] \in Jobs /\ of[w] \in Jobs
  BY QueueAssumption DEF QTypes, InHand, Alive
<1>2. Size[job[w]] \in Nat /\ total \in [Jobs -> Nat]
  BY <1>1, QueueAssumption DEF QTypes, QueueTypes
<1>3. total[of[w]] - Size[job[w]] \in Int
  BY <1>1, <1>2
<1>4. Max({0, total[of[w]] - Size[job[w]]}) \in Nat
  BY <1>3, Clamped
<1>5. total' = [total EXCEPT ![of[w]] = Max({0, total[of[w]] - Size[job[w]]})]
  BY DEF Finish
<1>6. total' \in [Jobs -> Nat]
  BY <1>2, <1>4, <1>5
<1>7. job' = [job EXCEPT ![w] = None] /\ job \in [Jobs -> JobOrNone]
  BY DEF Finish, QTypes, WorkerTypes
<1> QED BY <1>6, <1>7 DEF JobOrNone

(* A record that expired or was cleared stays away, and only settled ones expire. *)
LEMMA RecordFacts ==
  ASSUME QTypes, NEW w \in Jobs, NEW status \in Settled, Record(w, status)
  PROVE  /\ result' \in [Jobs -> {"none", "queued", "running"} \cup Settled]
         /\ \A j \in Jobs : /\ result[j] = "none" => result'[j] = "none"
                            /\ result'[j] = "none" => result[j] \in Settled \cup {"none"}
<1>1. result \in [Jobs -> {"none", "queued", "running"} \cup Settled]
  BY DEF QTypes, QueueTypes
<1> DEFINE known == [result EXCEPT ![job[w]] = IF @ = "none" THEN @ ELSE status]
<1>2. /\ known \in [Jobs -> {"none", "queued", "running"} \cup Settled]
      /\ \A j \in Jobs : known[j] = "none" <=> result[j] = "none"
  BY <1>1 DEF Settled
<1>3. PICK old \in SUBSET {j \in Jobs : home[j] = of[w] /\ result[j] \in Settled} :
        result' = [j \in Jobs |-> IF j \in old THEN "none" ELSE known[j]]
  BY DEF Record
<1> HIDE DEF known
<1> QED BY <1>2, <1>3

LEMMA LoopHeadFacts ==
  ASSUME QTypes, NEW w \in Jobs, LoopHead(w) \/ Leaves(w)
  PROVE  /\ pc' \in [Jobs -> {"none", "new", "get", "poll", "work", "unwind", "over"}]
         /\ pc'[w] \in {"get", "over"} /\ \A v \in Jobs : v # w => pc'[v] = pc[v]
  BY DEF QTypes, WorkerTypes, LoopHead, Leaves

(* A full deque drops its oldest job; the one that is given is in it afterwards. *)
LEMMA GiveFacts ==
  ASSUME QTypes, NEW j \in Jobs, NEW c \in JobOrNone, GiveToCallbackQueue(j, c)
  PROVE  /\ CallbackTypes' /\ UNCHANGED <<own, shared, cbWorker, attempt>>
         /\ c = None => UNCHANGED <<pending, via>> /\ \A k \in Jobs : cb'[k] = IF k = j THEN "skipped" ELSE cb[k]
         /\ c # None =>
              /\ \A d \in Jobs : d # c => pending'[d] = pending[d]
              /\ j \in ToSet(pending'[c])
              /\ \A k \in ToSet(pending'[c]) : k = j \/ k \in ToSet(pending[c])
              /\ \A k \in Jobs : via'[k] = IF k = j THEN c ELSE via[k]
              /\ \A k \in Jobs : k # j => cb'[k] \in {cb[k], "dropped"}
              /\ \A k \in ToSet(pending[c]) :
                   k \in ToSet(pending'[c]) \/ (k \in Jobs => cb'[k] = "dropped" \/ k = j)
<1>1. CallbackTypes
  BY DEF QTypes
<1>2. UNCHANGED <<own, shared, cbWorker, attempt>>
  BY DEF GiveToCallbackQueue
<1>3. CASE c = None
  <2>1. cb' = [cb EXCEPT ![j] = "skipped"] /\ UNCHANGED <<pending, via>>
    BY <1>3 DEF GiveToCallbackQueue
  <2>2. \A k \in Jobs : cb'[k] = IF k = j THEN "skipped" ELSE cb[k]
    BY <1>1, <2>1 DEF CallbackTypes
  <2>3. CallbackTypes'
    BY <1>1, <1>2, <2>1 DEF CallbackTypes
  <2> QED BY <1>2, <1>3, <2>1, <2>2, <2>3
<1>4. CASE c # None
  <2> DEFINE full == Len(pending[c]) >= CbCap
             rest == IF full THEN Tail(pending[c]) ELSE pending[c]
  <2>1. c \in Jobs /\ pending[c] \in Seq(Jobs) /\ Len(pending[c]) <= CbCap /\ CbCap \in Nat \ {0}
    BY <1>1, <1>4, QueueAssumption DEF JobOrNone, CallbackTypes
  <2>2. /\ via' = [via EXCEPT ![j] = c]
        /\ pending' = [pending EXCEPT ![c] = Append(rest, j)]
        /\ cb' = [k \in Jobs |-> IF k = j THEN "queued"
                                 ELSE IF full /\ k = Head(pending[c]) THEN "dropped" ELSE cb[k]]
    BY <1>4 DEF GiveToCallbackQueue
  <2>3. /\ rest \in Seq(Jobs) /\ Len(rest) < CbCap
        /\ \A k \in ToSet(pending[c]) : k \in ToSet(rest) \/ (full /\ k = Head(pending[c]))
        /\ \A k \in ToSet(rest) : k \in ToSet(pending[c])
    <3>1. CASE full
      <4>1. pending[c] # <<>>
        BY <2>1, <3>1
      <4>2. rest = Tail(pending[c])
        BY <3>1
      <4>3. /\ rest \in Seq(Jobs) /\ Len(rest) = Len(pending[c]) - 1
            /\ \A i \in 1..Len(rest) : rest[i] = pending[c][i + 1]
        BY <2>1, <4>1, <4>2, HeadTailProperties
      <4>4. Head(pending[c]) = pending[c][1] /\ Len(pending[c]) \in Nat
        BY <2>1, <4>1
      <4> HIDE DEF rest
      <4>5. \A i \in DOMAIN pending[c] : i # 1 => i - 1 \in DOMAIN rest /\ pending[c][i] = rest[i - 1]
        BY <2>1, <4>3, <4>4
      <4>6. \A i \in DOMAIN rest : i + 1 \in DOMAIN pending[c]
        BY <2>1, <4>3, <4>4
      <4>7. \A k \in ToSet(pending[c]) : k \in ToSet(rest) \/ k = Head(pending[c])
        BY <4>4, <4>5 DEF ToSet
      <4>8. \A k \in ToSet(rest) : k \in ToSet(pending[c])
        <5> SUFFICES ASSUME NEW i \in DOMAIN rest PROVE rest[i] \in ToSet(pending[c])
          BY DEF ToSet
        <5>1. i + 1 \in DOMAIN pending[c] /\ rest[i] = pending[c][i + 1]
          BY <4>3, <4>6
        <5> QED BY <5>1 DEF ToSet
      <4>9. Len(rest) < CbCap
        BY <2>1, <4>3, <4>4
      <4> QED BY <3>1, <4>3, <4>7, <4>8, <4>9
    <3>2. CASE ~full
      BY <2>1, <3>2
    <3> QED BY <3>1, <3>2
  <2> HIDE DEF rest, full
  <2>4. /\ Append(rest, j) \in Seq(Jobs) /\ Len(Append(rest, j)) <= CbCap
        /\ ToSet(Append(rest, j)) = ToSet(rest) \cup {j}
    <3>1. /\ Append(rest, j) \in Seq(Jobs) /\ Len(Append(rest, j)) = Len(rest) + 1 /\ Len(rest) \in Nat
          /\ \A i \in 1..Len(rest) : Append(rest, j)[i] = rest[i]
          /\ Append(rest, j)[Len(rest) + 1] = j
      BY <2>3, AppendProperties
    <3>2. DOMAIN Append(rest, j) = 1..(Len(rest) + 1) /\ DOMAIN rest = 1..Len(rest)
      BY <2>3, <3>1
    <3> QED BY <2>1, <2>3, <3>1, <3>2 DEF ToSet
  <2>5. pending'[c] = Append(rest, j) /\ \A d \in Jobs : d # c => pending'[d] = pending[d]
    BY <1>1, <2>1, <2>2 DEF CallbackTypes
  <2>6. CallbackTypes'
    <3>1. /\ via' \in [Jobs -> JobOrNone]
          /\ cb' \in [Jobs -> {"none", "queued", "ready", "posting", "delivered", "givenUp", "dropped",
                      "skipped", "cut"}]
      BY <1>1, <2>2 DEF CallbackTypes
    <3>2. DOMAIN pending' = Jobs /\ \A d \in Jobs : pending'[d] \in Seq(Jobs) /\ Len(pending'[d]) <= CbCap
      BY <1>1, <2>2, <2>4, <2>5 DEF CallbackTypes
    <3> QED BY <1>1, <1>2, <3>1, <3>2 DEF CallbackTypes
  <2>7. /\ j \in ToSet(pending'[c])
        /\ \A k \in ToSet(pending'[c]) : k = j \/ k \in ToSet(pending[c])
    BY <2>3, <2>4, <2>5
  <2>8. /\ \A k \in Jobs : via'[k] = IF k = j THEN c ELSE via[k]
        /\ \A k \in Jobs : k # j => cb'[k] \in {cb[k], "dropped"}
    BY <1>1, <2>2 DEF CallbackTypes
  <2>9. \A k \in ToSet(pending[c]) :
          k \in ToSet(pending'[c]) \/ (k \in Jobs => cb'[k] = "dropped" \/ k = j)
    BY <2>2, <2>3, <2>4, <2>5
  <2> QED BY <1>2, <1>4, <2>5, <2>6, <2>7, <2>8, <2>9
<1> QED BY <1>3, <1>4

--------------------------------------------------------------------------------
(* Types: the requests and the worker. *)

LEMMA GenerateTypes == ASSUME QTypes, NEW j \in Jobs, Generate(j) PROVE QTypes'
<1> USE QueueAssumption
<1> DEFINE q == IF inst = None THEN j ELSE inst
<1>1. q \in Jobs /\ inst' = q
  BY DEF QTypes, QueueTypes, JobOrNone, Generate
<1>2. UNCHANGED <<job, cancelled, mining, cbVars, stopVars>>
  BY DEF Generate
<1>3. CallbackTypes' /\ StopTypes'
  BY <1>2 DEF QTypes, CallbackTypes, StopTypes, cbVars, stopVars
<1>4. CASE total[q] + Size[j] <= Cap
  <2>1. /\ total' = [total EXCEPT ![q] = @ + Size[j]]
        /\ result' = [result EXCEPT ![j] = "queued"]
        /\ home' = [home EXCEPT ![j] = q]
        /\ queue' = [queue EXCEPT ![q] = Append(@, j)]
        /\ ensure_worker_running(q, j)
    <3>1. ~(total[q] + Size[j] > Cap)
      BY <1>1, <1>4 DEF QTypes, QueueTypes
    <3> QED BY <3>1 DEF Generate
  <2> HIDE DEF q
  <2>2. total' \in [Jobs -> Nat] /\ result' \in [Jobs -> {"none", "queued", "running"} \cup Settled]
    BY <1>1, <2>1 DEF QTypes, QueueTypes
  <2>3. home' \in [Jobs -> JobOrNone] /\ inst' \in JobOrNone /\ queue' \in [Jobs -> Seq(Jobs)]
    BY <1>1, <2>1 DEF QTypes, QueueTypes, JobOrNone
  <2>4. CASE Alive(task[q])
    BY <1>2, <1>3, <2>1, <2>2, <2>3, <2>4
       DEF ensure_worker_running, QTypes, QueueTypes, WorkerTypes, InHand, Alive
  <2>5. CASE ~Alive(task[q])
    <3>1. /\ stopEvent' = [stopEvent EXCEPT ![q] = FALSE]
          /\ task' = [task EXCEPT ![q] = j]
          /\ pc' = [pc EXCEPT ![j] = "new"] /\ of' = [of EXCEPT ![j] = q]
      BY <2>1, <2>5 DEF ensure_worker_running
    <3>2. QueueTypes'
      BY <1>1, <2>2, <2>3, <3>1 DEF QTypes, QueueTypes, JobOrNone
    <3>3. WorkerTypes'
      BY <1>1, <1>2, <3>1 DEF QTypes, WorkerTypes, JobOrNone
    <3>4. InHand'
      BY <1>1, <1>2, <3>1 DEF QTypes, WorkerTypes, InHand, Alive
    <3> QED BY <1>3, <3>2, <3>3, <3>4 DEF QTypes
  <2> QED BY <2>4, <2>5
<1>5. CASE ~(total[q] + Size[j] <= Cap)
  <2>1. UNCHANGED <<total, result, home, queue, stopEvent, task, pc, of>>
    BY <1>5 DEF Generate
  <2>2. QueueTypes' /\ WorkerTypes' /\ InHand'
    BY <1>1, <1>2, <2>1 DEF QTypes, QueueTypes, WorkerTypes, InHand, Alive, JobOrNone
  <2> QED BY <1>3, <2>2 DEF QTypes
<1> QED BY <1>4, <1>5

(* A worker that ends a job, well or not, or starts over. *)
LEMMA WorkerTypesKept ==
  ASSUME QTypes, NEW w \in Jobs, LoopHead(w) \/ Leaves(w), UNCHANGED <<of, cancelled, mining>>,
         \/ UNCHANGED <<total, job>>
         \/ pc[w] \in {"poll", "work", "unwind"} /\ Finish(w),
         result' \in [Jobs -> {"none", "queued", "running"} \cup Settled],
         UNCHANGED <<inst, home, queue, stopEvent, task, stopVars>>,
         CallbackTypes', pc[w] \notin {"none", "over"}
  PROVE  QTypes'
<1>1. /\ pc' \in [Jobs -> {"none", "new", "get", "poll", "work", "unwind", "over"}]
      /\ pc'[w] \in {"get", "over"} /\ \A v \in Jobs : v # w => pc'[v] = pc[v]
  BY LoopHeadFacts
<1>2. /\ total' \in [Jobs -> Nat] /\ job' \in [Jobs -> JobOrNone]
      /\ \A v \in Jobs : v # w => job'[v] = job[v]
  <2>1. CASE UNCHANGED <<total, job>>
    BY <2>1 DEF QTypes, QueueTypes, WorkerTypes
  <2>2. CASE pc[w] \in {"poll", "work", "unwind"} /\ Finish(w)
    BY <2>2, FinishFacts
  <2> QED BY <2>1, <2>2
<1>3. QueueTypes'
  BY <1>2 DEF QTypes, QueueTypes
<1>4. WorkerTypes'
  BY <1>1, <1>2 DEF QTypes, WorkerTypes
<1>5. InHand'
  BY <1>1, <1>2, QueueAssumption DEF QTypes, InHand, Alive
<1>6. StopTypes'
  BY DEF QTypes, StopTypes, stopVars
<1> QED BY <1>3, <1>4, <1>5, <1>6 DEF QTypes

LEMMA WorkerStepTypes == ASSUME QTypes, NEW w \in Jobs, WorkerStep(w) PROVE QTypes'
<1> USE QueueAssumption
<1>0. result \in [Jobs -> {"none", "queued", "running"} \cup Settled] /\ CallbackTypes
  BY DEF QTypes, QueueTypes
<1>1. CASE WorkerStarts(w)
  <2>1. of[w] \in Jobs /\ UNCHANGED <<queueVars, of, job, cancelled, mining, pending, cb, via, attempt, stopVars>>
    BY <1>1 DEF WorkerStarts, QTypes, InHand, Alive
  <2>2. CallbackTypes'
    <3>1. CASE UNCHANGED <<shared, own, cbWorker>>
      BY <1>0, <2>1, <3>1 DEF CallbackTypes
    <3>2. CASE /\ shared' = IF shared = None THEN w ELSE shared
               /\ own' = [own EXCEPT ![of[w]] = shared']
               /\ cbWorker' = [cbWorker EXCEPT ![shared'] = "run"]
      <4>1. shared' \in Jobs
        BY <1>0, <3>2 DEF CallbackTypes, JobOrNone
      <4>2. /\ own' \in [Jobs -> JobOrNone]
            /\ cbWorker' \in [Jobs -> {"none", "run", "over"}]
        BY <1>0, <3>2, <4>1 DEF CallbackTypes, JobOrNone
      <4> QED BY <1>0, <2>1, <4>1, <4>2 DEF CallbackTypes, JobOrNone
    <3> QED BY <1>1, <3>1, <3>2 DEF WorkerStarts
  <2> QED BY <1>0, <1>1, <2>1, <2>2, WorkerTypesKept DEF WorkerStarts, queueVars
<1>2. CASE Take(w)
  <2>1. /\ of[w] \in Jobs /\ queue[of[w]] \in Seq(Jobs) /\ queue[of[w]] # <<>>
        /\ UNCHANGED <<inst, total, home, stopEvent, task, of, cancelled, mining, cbVars, stopVars>>
    BY <1>2 DEF Take, QTypes, QueueTypes, InHand, Alive
  <2>2. Head(queue[of[w]]) \in Jobs /\ Tail(queue[of[w]]) \in Seq(Jobs)
    BY <2>1, HeadTailProperties
  <2>3. QueueTypes'
    <3>1. result' \in [Jobs -> {"none", "queued", "running"} \cup Settled]
      BY <1>0, <1>2, <2>2 DEF Take
    <3>2. queue' \in [Jobs -> Seq(Jobs)]
      BY <1>2, <2>1, <2>2 DEF Take, QTypes, QueueTypes
    <3> QED BY <2>1, <3>1, <3>2 DEF QTypes, QueueTypes
  <2>4. /\ job' = [job EXCEPT ![w] = Head(queue[of[w]])]
        /\ pc' = [pc EXCEPT ![w] = IF mining \/ stopEvent[of[w]] THEN "poll" ELSE "work"]
    BY <1>2 DEF Take
  <2>5. WorkerTypes' /\ InHand'
    BY <2>1, <2>2, <2>4 DEF QTypes, WorkerTypes, InHand, Alive, JobOrNone
  <2>6. CallbackTypes' /\ StopTypes'
    BY <2>1 DEF QTypes, CallbackTypes, StopTypes, cbVars, stopVars
  <2> QED BY <2>3, <2>5, <2>6 DEF QTypes
<1>3. CASE IdleExit(w)
  BY <1>0, <1>3, WorkerTypesKept DEF IdleExit, queueVars, cbVars, CallbackTypes
<1>4. CASE PollEnds(w)
  <2>1. /\ pc' = [pc EXCEPT ![w] = "work"] /\ pc[w] = "poll"
        /\ UNCHANGED <<queueVars, of, job, cancelled, mining, cbVars, stopVars>>
    BY <1>4 DEF PollEnds
  <2>2. WorkerTypes' /\ InHand'
    BY <2>1 DEF QTypes, WorkerTypes, InHand, Alive
  <2>3. QueueTypes' /\ CallbackTypes' /\ StopTypes'
    BY <2>1 DEF QTypes, QueueTypes, CallbackTypes, StopTypes, queueVars, cbVars, stopVars
  <2> QED BY <2>2, <2>3 DEF QTypes
<1>5. CASE PollExit(w)
  BY <1>0, <1>5, WorkerTypesKept DEF PollExit, cbVars, CallbackTypes
<1>6. CASE Complete(w)
  <2>1. CallbackTypes'
    <3>1. CASE job[w] \in Urls /\ GiveToCallbackQueue(job[w], own[of[w]])
      <4>1. job[w] \in Jobs /\ own[of[w]] \in JobOrNone
        BY <1>6 DEF Complete, QTypes, InHand, Alive, CallbackTypes
      <4> QED BY <3>1, <4>1, GiveFacts
    <3>2. CASE UNCHANGED cbVars
      BY <1>0, <3>2 DEF cbVars, CallbackTypes
    <3> QED BY <1>6, <3>1, <3>2 DEF Complete
  <2>2. result' \in [Jobs -> {"none", "queued", "running"} \cup Settled]
    BY <1>6, RecordFacts DEF Complete, Settled
  <2> QED BY <1>6, <2>1, <2>2, WorkerTypesKept DEF Complete
<1>7. CASE Fail(w)
  <2>1. result' \in [Jobs -> {"none", "queued", "running"} \cup Settled]
    BY <1>7, RecordFacts DEF Fail, Settled
  <2>2. CallbackTypes'
    BY <1>0, <1>7 DEF Fail, cbVars, CallbackTypes
  <2> QED BY <1>7, <2>1, <2>2, WorkerTypesKept DEF Fail
<1>8. CASE CancelWork(w)
  <2>1. /\ pc' = [pc EXCEPT ![w] = "unwind"] /\ cancelled' = [cancelled EXCEPT ![w] = FALSE]
        /\ pc[w] = "work" /\ UNCHANGED <<queueVars, of, job, mining, cbVars, stopVars>>
    BY <1>8 DEF CancelWork
  <2>2. WorkerTypes' /\ InHand'
    BY <2>1 DEF QTypes, WorkerTypes, InHand, Alive
  <2>3. QueueTypes' /\ CallbackTypes' /\ StopTypes'
    BY <2>1 DEF QTypes, QueueTypes, CallbackTypes, StopTypes, queueVars, cbVars, stopVars
  <2> QED BY <2>2, <2>3 DEF QTypes
<1>9. CASE Unwound(w)
  <2>1. result' \in [Jobs -> {"none", "queued", "running"} \cup Settled]
    BY <1>0, <1>9, RecordFacts DEF Unwound, Settled
  <2>2. CallbackTypes'
    BY <1>0, <1>9 DEF Unwound, cbVars, CallbackTypes
  <2> QED BY <1>9, <2>1, <2>2, WorkerTypesKept DEF Unwound
<1> QED BY <1>1, <1>2, <1>3, <1>4, <1>5, <1>6, <1>7, <1>8, <1>9 DEF WorkerStep

--------------------------------------------------------------------------------
(* Types: the callback queues and the stops. *)

LEMMA CallbackStepTypes ==
  ASSUME QTypes, NEW c \in Jobs, CallbackStep(c) \/ SendStep(c) PROVE QTypes'
<1> USE QueueAssumption
<1>0. CallbackTypes /\ MaxRetries >= 1
  BY DEF QTypes
<1>1. UNCHANGED <<queueVars, workerVars, mining, own, shared, via, stopVars>>
  BY DEF CallbackStep, SendStep, Dispatch, DispatcherExits, SendBegins, SendSucceeds, SendFails, CbFrame
<1>2. QueueTypes' /\ WorkerTypes' /\ InHand' /\ StopTypes'
  BY <1>1 DEF QTypes, QueueTypes, WorkerTypes, InHand, Alive, StopTypes, queueVars, workerVars, stopVars
<1>3. CallbackTypes'
  <2>1. CASE Dispatch(c)
    BY <1>0, <1>1, <2>1 DEF Dispatch, CallbackTypes
  <2>2. CASE DispatcherExits(c)
    BY <1>0, <1>1, <2>2 DEF DispatcherExits, CallbackTypes
  <2>3. CASE SendBegins(c)
    BY <1>0, <1>1, <2>3 DEF SendBegins, CallbackTypes
  <2>4. CASE SendSucceeds(c)
    BY <1>0, <1>1, <2>4 DEF SendSucceeds, CallbackTypes
  <2>5. CASE SendFails(c)
    <3>1. attempt' \in [Jobs -> 0 .. MaxRetries]
      <4>1. attempt \in [Jobs -> 0 .. MaxRetries] /\ attempt[c] \in 0 .. MaxRetries
        BY <1>0 DEF CallbackTypes
      <4>2. CASE UNCHANGED attempt
        BY <4>1, <4>2
      <4>3. CASE attempt[c] < MaxRetries /\ attempt' = [attempt EXCEPT ![c] = @ + 1]
        <5>1. attempt[c] + 1 \in 0 .. MaxRetries
          BY <4>1, <4>3
        <5> QED BY <4>1, <4>3, <5>1
      <4> QED BY <2>5, <4>2, <4>3 DEF SendFails
    <3>2. cb' \in [Jobs -> {"none", "queued", "ready", "posting", "delivered", "givenUp", "dropped",
                            "skipped", "cut"}]
      BY <1>0, <2>5 DEF SendFails, CallbackTypes
    <3> QED BY <1>0, <1>1, <2>5, <3>1, <3>2 DEF SendFails, CallbackTypes
  <2> QED BY <2>1, <2>2, <2>3, <2>4, <2>5 DEF CallbackStep, SendStep
<1> QED BY <1>2, <1>3 DEF QTypes

(* The part of a stop that goes from one thing it waits for to the next. *)
ClearingPoints == {"cbWorker", "clearWorker", "over"}

LEMMA StopCallbacksFacts ==
  ASSUME QTypes, NEW s \in Stops, target'[s] \in Jobs,
         StopCallbacks(s) \/ ClearCallbacks(s),
         target' \in [Stops -> JobOrNone], \A r \in Stops : r # s => target'[r] = target[r]
  PROVE  /\ inst' \in {inst, None} /\ cbWorker' \in [Jobs -> {"none", "run", "over"}] /\ StopTypes'
         /\ stop'[s] \in ClearingPoints
         /\ \A r \in Stops : r # s => stop'[r] = stop[r] /\ awaits'[r] = awaits[r]
         /\ stop'[s] # "over" => /\ inst' = inst /\ awaits'[s] \in Jobs
                                 /\ cbWorker'[awaits'[s]] # "run"
         /\ \A c \in Jobs : cbWorker'[c] = "run" => cbWorker[c] = "run"
         /\ stop'[s] = "over" => inst' = None /\ shared = None
         /\ stop'[s] = "clearWorker" => shared # None /\ awaits'[s] = shared
         /\ stop'[s] # "cbWorker" => own[target'[s]] = None \/ ClearCallbacks(s)
<1>1. /\ cbWorker \in [Jobs -> {"none", "run", "over"}] /\ shared \in JobOrNone
      /\ own \in [Jobs -> JobOrNone] /\ StopTypes
  BY DEF QTypes, CallbackTypes
<1>2. ASSUME NEW point \in ClearingPoints, NEW waits \in JobOrNone, At(s, point, waits)
      PROVE  /\ stop'[s] = point /\ awaits'[s] = waits
             /\ \A r \in Stops : r # s => stop'[r] = stop[r] /\ awaits'[r] = awaits[r]
             /\ point = "over" \/ waits \in Jobs => StopTypes'
  <2>1. /\ stop'[s] = point /\ awaits'[s] = waits
        /\ \A r \in Stops : r # s => stop'[r] = stop[r] /\ awaits'[r] = awaits[r]
    BY <1>1, <1>2 DEF At, StopTypes
  <2>2. /\ stop' \in [Stops -> {"idle", "worker", "cbWorker", "cbSends", "clearWorker", "clearSends", "over"}]
        /\ awaits' \in [Stops -> JobOrNone]
    BY <1>1, <1>2 DEF At, StopTypes, ClearingPoints
  <2>3. ASSUME point = "over" \/ waits \in Jobs PROVE StopTypes'
    BY <1>1, <2>1, <2>2, <2>3 DEF StopTypes, ClearingPoints
  <2> QED BY <2>1, <2>3
<1>3. CASE ClearCallbacks(s)
  <2>1. CASE shared # None
    <3>1. /\ shared \in Jobs /\ At(s, "clearWorker", shared) /\ inst' = inst
          /\ cbWorker' = [cbWorker EXCEPT ![shared] = IF @ = "run" THEN "over" ELSE @]
      BY <1>1, <1>3, <2>1 DEF ClearCallbacks, StopDispatcher, JobOrNone
    <3>2. /\ cbWorker' \in [Jobs -> {"none", "run", "over"}] /\ cbWorker'[shared] # "run"
          /\ \A c \in Jobs : cbWorker'[c] = "run" => cbWorker[c] = "run"
      BY <1>1, <3>1
    <3>3. "clearWorker" \in ClearingPoints
      BY DEF ClearingPoints
    <3> QED BY <1>1, <1>2, <1>3, <2>1, <3>1, <3>2, <3>3
  <2>2. CASE shared = None
    <3>1. At(s, "over", None) /\ inst' = None /\ cbWorker' = cbWorker
      BY <1>3, <2>2 DEF ClearCallbacks
    <3>2. "over" \in ClearingPoints /\ None \in JobOrNone
      BY DEF ClearingPoints, JobOrNone
    <3> QED BY <1>1, <1>2, <1>3, <2>2, <3>1, <3>2
  <2> QED BY <2>1, <2>2
<1>4. CASE own[target'[s]] # None /\ StopDispatcher(s, own[target'[s]], "cbWorker") /\ UNCHANGED inst
  <2>1. PICK c : c = own[target'[s]]
    OBVIOUS
  <2>2. c \in Jobs
    BY <1>1, <1>4, <2>1 DEF JobOrNone
  <2>3. /\ At(s, "cbWorker", c) /\ inst' = inst
        /\ cbWorker' = [cbWorker EXCEPT ![c] = IF @ = "run" THEN "over" ELSE @]
    BY <1>4, <2>1 DEF StopDispatcher
  <2>4. /\ cbWorker' \in [Jobs -> {"none", "run", "over"}] /\ cbWorker'[c] # "run"
        /\ \A d \in Jobs : cbWorker'[d] = "run" => cbWorker[d] = "run"
    BY <1>1, <2>2, <2>3
  <2>5. "cbWorker" \in ClearingPoints /\ c \in JobOrNone
    BY <2>2 DEF ClearingPoints, JobOrNone
  <2> QED BY <1>1, <1>2, <2>2, <2>3, <2>4, <2>5
<1>5. StopCallbacks(s) => <1>4!1 \/ (own[target'[s]] = None /\ ClearCallbacks(s))
  BY DEF StopCallbacks
<1> QED BY <1>3, <1>4, <1>5

LEMMA StopStepTypes ==
  ASSUME QTypes, NEW s \in Stops, StopBegins(s) \/ StopNothing(s) \/ StopStep(s) PROVE QTypes'
<1> USE QueueAssumption
<1>0. QueueTypes /\ WorkerTypes /\ InHand /\ CallbackTypes /\ StopTypes
  BY DEF QTypes
<1>1. UNCHANGED <<home, pc, of, job, via, attempt>> /\ mining' \in BOOLEAN
  BY <1>0 DEF StopBegins, StopNothing, StopStep, WorkerStopped, SendsCancelled, CallbacksStopped,
              queueVars, workerVars, cbVars, WorkerTypes
<1>2. CASE StopNothing(s)
  <2>1. /\ UNCHANGED <<queueVars, workerVars, cbVars, target>>
        /\ stop' = [stop EXCEPT ![s] = "over"] /\ awaits' = [awaits EXCEPT ![s] = None]
    BY <1>2 DEF StopNothing, At
  <2>2. StopTypes'
    BY <1>0, <2>1 DEF StopTypes, JobOrNone
  <2>3. QueueTypes' /\ WorkerTypes' /\ InHand' /\ CallbackTypes'
    BY <1>0, <1>1, <2>1 DEF QueueTypes, WorkerTypes, InHand, Alive, CallbackTypes, queueVars,
                       workerVars, cbVars
  <2> QED BY <2>2, <2>3 DEF QTypes
<1>3. CASE StopBegins(s)
  <2> DEFINE w == task[inst]
  <2>1. /\ inst \in Jobs /\ w \in JobOrNone /\ target' = [target EXCEPT ![s] = inst]
        /\ UNCHANGED <<home, task, pc, of, job, own, shared, pending, cb, via, attempt>>
    BY <1>0, <1>3 DEF StopBegins, QueueTypes, JobOrNone
  <2>2. target' \in [Stops -> JobOrNone] /\ target'[s] = inst /\ \A r \in Stops : r # s => target'[r] = target[r]
    BY <1>0, <2>1 DEF StopTypes, JobOrNone
  <2>3. /\ queue' \in [Jobs -> Seq(Jobs)] /\ total' \in [Jobs -> Nat]
        /\ result' \in [Jobs -> {"none", "queued", "running"} \cup Settled]
        /\ stopEvent' \in [Jobs -> BOOLEAN]
    <3>1. <<>> \in Seq(Jobs)
      OBVIOUS
    <3> QED BY <1>0, <1>3, <2>1, <3>1 DEF StopBegins, Cleared, QueueTypes
  <2>4. CASE Alive(w) /\ cancelled' = [cancelled EXCEPT ![w] = TRUE] /\ At(s, "worker", w) /\ UNCHANGED <<inst, cbWorker>>
    <3>1. QueueTypes' /\ WorkerTypes' /\ InHand' /\ CallbackTypes'
      BY <1>0, <1>1, <2>1, <2>3, <2>4 DEF QueueTypes, WorkerTypes, InHand, Alive, CallbackTypes
    <3>2. StopTypes'
      BY <1>0, <2>1, <2>2, <2>4 DEF StopTypes, At
    <3> QED BY <3>1, <3>2 DEF QTypes
  <2>5. CASE StopCallbacks(s) /\ UNCHANGED cancelled
    <3>1. inst' \in {inst, None} /\ cbWorker' \in [Jobs -> {"none", "run", "over"}] /\ StopTypes'
      BY <2>1, <2>2, <2>5, StopCallbacksFacts
    <3>2. QueueTypes' /\ WorkerTypes' /\ InHand' /\ CallbackTypes'
      BY <1>0, <1>1, <2>1, <2>3, <2>5, <3>1
         DEF QueueTypes, WorkerTypes, InHand, Alive, CallbackTypes, JobOrNone
    <3> QED BY <3>1, <3>2 DEF QTypes
  <2> QED BY <1>3, <2>4, <2>5 DEF StopBegins
<1>4. CASE WorkerStopped(s)
  <2>1. /\ task' = [task EXCEPT ![target[s]] = None] /\ target' = target /\ StopCallbacks(s)
        /\ UNCHANGED <<queue, total, result, home, stopEvent, workerVars, mining, own, shared, pending, cb,
                       via, attempt>>
    BY <1>4 DEF WorkerStopped
  <2>2. target[s] \in Jobs /\ target' \in [Stops -> JobOrNone]
    BY <1>0, <1>4, <2>1 DEF WorkerStopped, StopTypes
  <2>3. inst' \in {inst, None} /\ cbWorker' \in [Jobs -> {"none", "run", "over"}] /\ StopTypes'
    BY <2>1, <2>2, StopCallbacksFacts
  <2>4. QueueTypes' /\ WorkerTypes' /\ InHand' /\ CallbackTypes'
    BY <1>0, <2>1, <2>2, <2>3
       DEF QueueTypes, WorkerTypes, InHand, Alive, CallbackTypes, JobOrNone, workerVars
  <2> QED BY <2>3, <2>4 DEF QTypes
<1>5. CASE SendsCancelled(s)
  <2>1. /\ UNCHANGED <<queueVars, workerVars, mining, own, shared, cbWorker, pending, via, attempt, target>>
        /\ stop' = [stop EXCEPT ![s] = IF stop[s] = "cbWorker" THEN "cbSends" ELSE "clearSends"]
        /\ awaits' = [awaits EXCEPT ![s] = awaits[s]]
        /\ cb' = [j \in Jobs |-> IF via[j] = awaits[s] /\ cb[j] \in {"ready", "posting"} THEN "cut" ELSE cb[j]]
        /\ stop[s] \in {"cbWorker", "clearWorker"}
    BY <1>5 DEF SendsCancelled, At
  <2>2. StopTypes'
    BY <1>0, <2>1 DEF StopTypes
  <2>3. QueueTypes' /\ WorkerTypes' /\ InHand' /\ CallbackTypes'
    BY <1>0, <2>1 DEF QueueTypes, WorkerTypes, InHand, Alive, CallbackTypes, queueVars, workerVars
  <2> QED BY <2>2, <2>3 DEF QTypes
<1>6. CASE CallbacksStopped(s)
  <2>1. /\ UNCHANGED <<queue, total, result, home, stopEvent, task, workerVars, mining, via, attempt, target>>
        /\ pending' = [pending EXCEPT ![awaits[s]] = <<>>]
        /\ cb' = [j \in Jobs |-> IF j \in ToSet(pending[awaits[s]]) THEN "cut" ELSE cb[j]]
        /\ target[s] \in Jobs /\ awaits[s] \in Jobs
    BY <1>0, <1>6 DEF CallbacksStopped, StopTypes
  <2>2. /\ inst' \in {inst, None} /\ cbWorker' \in [Jobs -> {"none", "run", "over"}]
        /\ own' \in [Jobs -> JobOrNone] /\ shared' \in JobOrNone /\ StopTypes'
    <3>1. CASE own' = [own EXCEPT ![target[s]] = None] /\ ClearCallbacks(s) /\ UNCHANGED shared
      <4>1. inst' \in {inst, None} /\ cbWorker' \in [Jobs -> {"none", "run", "over"}] /\ StopTypes'
        <5>1. target'[s] \in Jobs /\ target' \in [Stops -> JobOrNone]
          BY <1>0, <2>1 DEF StopTypes
        <5> QED BY <2>1, <3>1, <5>1, StopCallbacksFacts
      <4> QED BY <1>0, <3>1, <4>1 DEF CallbackTypes, JobOrNone
    <3>2. CASE shared' = None /\ inst' = None /\ At(s, "over", None) /\ UNCHANGED <<own, cbWorker>>
      <4>1. StopTypes'
        BY <1>0, <2>1, <3>2 DEF StopTypes, At, JobOrNone
      <4> QED BY <1>0, <3>2, <4>1 DEF CallbackTypes, JobOrNone
    <3> QED BY <1>6, <3>1, <3>2 DEF CallbacksStopped
  <2>3. QueueTypes' /\ WorkerTypes' /\ InHand'
    BY <1>0, <2>1, <2>2 DEF QueueTypes, WorkerTypes, InHand, Alive, JobOrNone, workerVars
  <2>4. CallbackTypes'
    <3>1. \A c \in Jobs : pending'[c] \in Seq(Jobs) /\ Len(pending'[c]) <= CbCap
      BY <1>0, <2>1 DEF CallbackTypes
    <3> QED BY <1>0, <2>1, <2>2, <3>1 DEF CallbackTypes
  <2> QED BY <2>2, <2>3, <2>4 DEF QTypes
<1> QED BY <1>2, <1>3, <1>4, <1>5, <1>6 DEF StopStep

LEMMA QTypesStep == QTypes /\ [Next]_vars => QTypes'
<1> SUFFICES ASSUME QTypes, [Next]_vars PROVE QTypes'
  OBVIOUS
<1>1. ASSUME NEW j \in Jobs, Generate(j) \/ WorkerStep(j) \/ CallbackStep(j) \/ SendStep(j)
      PROVE  QTypes'
  BY <1>1, GenerateTypes, WorkerStepTypes, CallbackStepTypes
<1>2. ASSUME NEW s \in Stops, StopBegins(s) \/ StopNothing(s) \/ StopStep(s) PROVE QTypes'
  BY <1>2, StopStepTypes
<1>3. CASE Mining \/ UNCHANGED vars
  <2>1. UNCHANGED <<queueVars, workerVars, cbVars, stopVars>> /\ mining' \in BOOLEAN
    BY <1>3 DEF Mining, vars, QTypes, WorkerTypes
  <2> QED BY <2>1 DEF QTypes, QueueTypes, WorkerTypes, InHand, Alive, CallbackTypes, StopTypes,
                      queueVars, workerVars, cbVars, stopVars
<1> QED BY <1>1, <1>2, <1>3 DEF Next

(* Every variable of the queue, the workers, the callbacks and the stops has its      *)
(* type, for any sizes and any overlap: the count of nonces never goes below zero, a  *)
(* deque never above its bound, an attempt never above the retries.                   *)
THEOREM JobQueueTypes == Spec => []TypeOK
<1>1. Spec => []QTypes
  BY QTypesInit, QTypesStep, PTL DEF Spec
<1> QED BY <1>1, QTypesTypeOK, PTL

--------------------------------------------------------------------------------
(* What a /stop tears down, when nothing is accepted meanwhile. *)

CallbacksPoints == {"cbWorker", "cbSends", "clearWorker", "clearSends"}

(* One worker can be alive, the one the singleton knows; a stop that is past waiting  *)
(* for it finds none.                                                                 *)
OneWorker ==
  \A w \in Jobs : Alive(w) => inst # None /\ of[w] = inst /\ task[inst] = w

StopsIt ==
  \A s \in Stops : stop[s] \notin {"idle", "over"} =>
    /\ inst \in {None, target[s]}
    /\ \A w \in Jobs : Alive(w) => stop[s] = "worker" /\ awaits[s] = w

(* The callback queue that dispatches, holds callbacks or posts is the singleton. *)
OneDispatcher ==
  \A c \in Jobs : cbWorker[c] = "run" \/ ToSet(pending[c]) # {} => c = shared

Owned == \A q \in Jobs : own[q] # None => q = inst /\ own[q] = shared

Posting ==
  /\ \A j \in Jobs : cb[j] \in {"queued", "ready", "posting"} => shared # None /\ via[j] = shared
  /\ \A j \in Jobs : cb[j] = "queued" => j \in ToSet(pending[shared])
  /\ \A c \in Jobs : \A j \in ToSet(pending[c]) : via[j] = c

SharedLives == inst = None => shared = None

(* What a stop has ended does not come back before it is done. *)
Ended ==
  \A s \in Stops :
    /\ stop[s] \in CallbacksPoints => cbWorker[awaits[s]] # "run"
    /\ stop[s] \in {"clearWorker", "clearSends"} =>
         shared \in {None, awaits[s]} /\ \A q \in Jobs : own[q] = None
    /\ stop[s] \in {"cbSends", "clearSends"} =>
         \A j \in Jobs : via[j] = awaits[s] => cb[j] \notin {"ready", "posting"}

(* The records of the instance that is being stopped are gone. *)
Erased ==
  Stopping /\ inst # None => \A j \in Jobs : home[j] = inst => result[j] = "none"

QuietInv ==
  QTypes /\ OneWorker /\ StopsIt /\ OneDispatcher /\ Owned /\ Posting /\ SharedLives /\ Ended /\ Erased

LEMMA EmptyDeque == ToSet(<<>>) = {}
  BY DEF ToSet

LEMMA QuietInit == Init => QuietInv
<1> SUFFICES ASSUME Init PROVE QuietInv
  OBVIOUS
<1>1. QTypes
  BY QTypesInit
<1>2. /\ \A c \in Jobs : pending[c] = <<>> /\ ToSet(pending[c]) = {}
      /\ \A j \in Jobs : pc[j] = "none" /\ cbWorker[j] = "none" /\ cb[j] = "none" /\ own[j] = None
      /\ \A s \in Stops : stop[s] = "idle"
      /\ inst = None /\ shared = None
  BY EmptyDeque DEF Init
<1>3. OneWorker /\ StopsIt /\ OneDispatcher
  BY <1>2 DEF OneWorker, StopsIt, OneDispatcher, Alive
<1>4. Owned /\ Posting /\ SharedLives /\ Ended /\ Erased
  BY <1>2 DEF Owned, Posting, SharedLives, Ended, Erased, CallbacksPoints
<1> QED BY <1>1, <1>3, <1>4 DEF QuietInv

(* A request that is accepted finds no stop under way. *)
LEMMA GenerateQuiet ==
  ASSUME Overlap = FALSE, QuietInv, NEW j \in Jobs, Generate(j) PROVE QuietInv'
<1> USE QueueAssumption DEF QuietInv
<1> DEFINE q == IF inst = None THEN j ELSE inst
<1>1. q \in Jobs /\ inst' = q /\ QTypes' /\ j # inst /\ home[j] = None
  BY GenerateTypes DEF QTypes, QueueTypes, JobOrNone, Generate
<1>2. /\ UNCHANGED <<job, cancelled, mining, own, shared, cbWorker, pending, cb, via, attempt, stop, target, awaits>>
      /\ \A s \in Stops : stop[s] \in {"idle", "over"}
  BY DEF Generate, cbVars, stopVars, Stopping
<1>3. OneWorker'
  <2>1. CASE UNCHANGED <<task, pc, of>>
    <3>1. \A w \in Jobs : Alive(w)' => Alive(w)
      BY <2>1 DEF Alive
    <3> QED BY <1>1, <2>1, <3>1 DEF OneWorker
  <2>2. CASE ~Alive(task[q]) /\ task' = [task EXCEPT ![q] = j] /\ pc' = [pc EXCEPT ![j] = "new"] /\ of' = [of EXCEPT ![j] = q]
    <3>1. \A w \in Jobs : ~Alive(w)
      BY <2>2 DEF OneWorker
    <3>2. \A w \in Jobs : Alive(w)' => w = j
      BY <2>2, <3>1 DEF Alive, QTypes, WorkerTypes
    <3>3. of'[j] = q /\ task'[q] = j
      BY <1>1, <2>2 DEF QTypes, QueueTypes, WorkerTypes
    <3> QED BY <1>1, <3>2, <3>3 DEF OneWorker
  <2> QED BY <2>1, <2>2 DEF Generate, ensure_worker_running
<1>4. StopsIt' /\ Ended' /\ Erased'
  BY <1>2 DEF StopsIt, Ended, Erased, CallbacksPoints, Stopping
<1>5. OneDispatcher' /\ Posting'
  BY <1>2 DEF OneDispatcher, Posting
<1>6. Owned'
  BY <1>1, <1>2 DEF Owned
<1>7. SharedLives'
  BY <1>1
     DEF SharedLives
<1> QED BY <1>1, <1>3, <1>4, <1>5, <1>6, <1>7

(* What a step of the worker means for the stops: it is alive, so the callback queues *)
(* are not being torn down yet.                                                       *)
LEMMA WorkerContext ==
  ASSUME QuietInv, NEW w \in Jobs, Alive(w)
  PROVE  /\ inst \in Jobs /\ of[w] = inst /\ inst # None /\ own[inst] \in {None, shared}
         /\ \A v \in Jobs : Alive(v) => v = w
         /\ \A s \in Stops : stop[s] \notin CallbacksPoints
<1>1. inst # None /\ of[w] = inst /\ \A v \in Jobs : Alive(v) => v = w
  BY DEF QuietInv, OneWorker
<1>2. inst \in Jobs
  BY <1>1 DEF QuietInv, QTypes, QueueTypes, JobOrNone
<1> QED BY <1>1, <1>2 DEF QuietInv, StopsIt, Owned, CallbacksPoints

(* A worker that goes on or leaves, without the callback queues. *)
LEMMA WorkerQuiet ==
  ASSUME QuietInv, QTypes', NEW w \in Jobs, Alive(w),
         UNCHANGED <<inst, home, stop, target, awaits, task, of, cbVars>>,
         \A v \in Jobs : v # w => pc'[v] = pc[v],
         \A j \in Jobs : result[j] = "none" => result'[j] = "none"
  PROVE  QuietInv'
<1> USE DEF QuietInv
<1>1. \A v \in Jobs : Alive(v)' => Alive(v)
  BY DEF Alive
<1>2. OneWorker' /\ StopsIt'
  BY <1>1 DEF OneWorker, StopsIt
<1>3. OneDispatcher' /\ Owned' /\ Posting' /\ SharedLives' /\ Ended'
  BY DEF OneDispatcher, Owned, Posting, SharedLives, Ended, cbVars
<1>4. Erased'
  BY DEF Erased, Stopping
<1> QED BY <1>2, <1>3, <1>4

LEMMA WorkerStepQuiet ==
  ASSUME QuietInv, NEW w \in Jobs, WorkerStep(w) PROVE QuietInv'
<1> USE QueueAssumption DEF QuietInv
<1>1. QTypes' /\ Alive(w)
  BY WorkerStepTypes DEF WorkerStep, WorkerStarts, Take, IdleExit, PollEnds, PollExit, Complete, Fail,
     CancelWork, Unwound, Alive
<1>2. UNCHANGED <<inst, home, stop, target, awaits, task, of>>
  BY DEF WorkerStep, WorkerStarts, Take, IdleExit, PollEnds, PollExit, Complete, Fail,
     CancelWork, Unwound, queueVars, stopVars
<1>3. \A v \in Jobs : v # w => pc'[v] = pc[v]
  BY LoopHeadFacts DEF WorkerStep, WorkerStarts, Take, IdleExit, PollEnds, PollExit, Complete, Fail,
     CancelWork, Unwound, QTypes, WorkerTypes
<1>4. \A j \in Jobs : result[j] = "none" => result'[j] = "none"
  <2>1. CASE WorkerStarts(w) \/ IdleExit(w) \/ PollEnds(w) \/ PollExit(w) \/ CancelWork(w) \/ UNCHANGED result
    BY <2>1 DEF WorkerStarts, IdleExit, PollEnds, PollExit, CancelWork, queueVars
  <2>2. CASE Take(w)
    BY <2>2 DEF Take, QTypes, QueueTypes
  <2>3. CASE \E status \in Settled : Record(w, status)
    BY <2>3, RecordFacts
  <2>4. "completed" \in Settled /\ "failed" \in Settled
    BY DEF Settled
  <2> QED BY <2>1, <2>2, <2>3, <2>4 DEF WorkerStep, Complete, Fail, Unwound
<1>5. CASE UNCHANGED cbVars
  BY <1>1, <1>2, <1>3, <1>4, <1>5, WorkerQuiet
<1>6. CASE WorkerStarts(w) /\ ~UNCHANGED <<shared, own, cbWorker>>
  <2>1. /\ shared' = IF shared = None THEN w ELSE shared
        /\ own' = [own EXCEPT ![of[w]] = shared']
        /\ cbWorker' = [cbWorker EXCEPT ![shared'] = "run"]
        /\ UNCHANGED <<pending, cb, via, attempt>>
    BY <1>6 DEF WorkerStarts
  <2>2. /\ inst \in Jobs /\ of[w] = inst /\ inst # None
        /\ \A s \in Stops : stop[s] \notin CallbacksPoints
    BY <1>1, WorkerContext
  <2>3. shared' \in Jobs /\ (shared = None \/ shared' = shared)
    BY <2>1 DEF QTypes, CallbackTypes, JobOrNone
  <2>4. \A v \in Jobs : Alive(v)' => Alive(v)
    BY <1>1, <1>3 DEF Alive
  <2>5. OneWorker' /\ StopsIt'
    BY <1>2, <2>4 DEF OneWorker, StopsIt
  <2>6. OneDispatcher'
    BY <2>1, <2>3 DEF OneDispatcher, QTypes, CallbackTypes
  <2>7. Owned'
    BY <1>2, <2>1, <2>2, <2>3 DEF Owned, QTypes, CallbackTypes
  <2>8. Posting'
    BY <2>1, <2>3 DEF Posting
  <2>9. SharedLives' /\ Ended'
    BY <1>2, <2>2 DEF SharedLives, Ended, CallbacksPoints
  <2>10. Erased'
    BY <1>2, <1>4 DEF Erased, Stopping
  <2> QED BY <1>1, <2>5, <2>6, <2>7, <2>8, <2>9, <2>10
<1>7. CASE Complete(w) /\ ~UNCHANGED cbVars
  <2>1. /\ inst \in Jobs /\ of[w] = inst /\ inst # None /\ own[inst] \in {None, shared}
        /\ \A s \in Stops : stop[s] \notin CallbacksPoints
    BY <1>1, WorkerContext
  <2>2. PICK k \in Jobs, c \in JobOrNone :
          c \in {None, shared} /\ GiveToCallbackQueue(k, c)
    <3>1. job[w] \in Jobs /\ own[of[w]] \in JobOrNone
      BY <1>7 DEF Complete, QTypes, InHand, Alive, CallbackTypes
    <3>2. GiveToCallbackQueue(job[w], own[of[w]])
      BY <1>7 DEF Complete
    <3> QED BY <2>1, <3>1, <3>2
  <2>3. /\ UNCHANGED <<own, shared, cbWorker, attempt>>
        /\ c = None => UNCHANGED <<pending, via>> /\ \A i \in Jobs : cb'[i] = IF i = k THEN "skipped" ELSE cb[i]
        /\ c # None =>
              /\ \A d \in Jobs : d # c => pending'[d] = pending[d]
              /\ k \in ToSet(pending'[c])
              /\ \A i \in ToSet(pending'[c]) : i = k \/ i \in ToSet(pending[c])
              /\ \A i \in Jobs : via'[i] = IF i = k THEN c ELSE via[i]
              /\ \A i \in Jobs : i # k => cb'[i] \in {cb[i], "dropped"}
              /\ \A i \in ToSet(pending[c]) :
                   i \in ToSet(pending'[c]) \/ (i \in Jobs => cb'[i] = "dropped" \/ i = k)
    BY <2>2, GiveFacts
  <2>4. \A v \in Jobs : Alive(v)' => Alive(v)
    BY <1>1, <1>3 DEF Alive
  <2>5. OneWorker' /\ StopsIt'
    BY <1>2, <2>4 DEF OneWorker, StopsIt
  <2>6. OneDispatcher' /\ Owned' /\ SharedLives'
    BY <1>2, <2>1, <2>2, <2>3 DEF OneDispatcher, Owned, SharedLives
  <2>7. Posting'
    <3>1. CASE c = None
      BY <2>3, <3>1 DEF Posting
    <3>2. CASE c # None
      <4>0. c = shared /\ c \in Jobs /\ \A d \in Jobs : ToSet(pending[d]) \subseteq Jobs
        <5>1. \A d \in Jobs : pending[d] \in Seq(Jobs)
          BY DEF QTypes, CallbackTypes
        <5> QED BY <2>2, <3>2, <5>1 DEF ToSet, JobOrNone
      <4>1. \A i \in Jobs : cb'[i] \in {"queued", "ready", "posting"} => via'[i] = shared
        BY <2>3, <3>2, <4>0 DEF Posting
      <4>2. \A i \in Jobs : cb'[i] = "queued" => i \in ToSet(pending'[shared])
        BY <2>3, <3>2, <4>0 DEF Posting
      <4>3. \A d \in Jobs : \A i \in ToSet(pending'[d]) : via'[i] = d
        <5>1. ASSUME NEW d \in Jobs, d # c, NEW i \in ToSet(pending'[d]) PROVE via'[i] = d
          BY <2>3, <4>0, <5>1 DEF OneDispatcher
        <5>2. \A i \in ToSet(pending'[c]) : via'[i] = c
          BY <2>3, <3>2, <4>0 DEF Posting
        <5> QED BY <5>1, <5>2
      <4> QED BY <2>3, <3>2, <4>0, <4>1, <4>2, <4>3 DEF Posting
    <3> QED BY <3>1, <3>2
  <2>8. Ended'
    BY <1>2, <2>1 DEF Ended, CallbacksPoints
  <2>9. Erased'
    BY <1>2, <1>4 DEF Erased, Stopping
  <2> QED BY <1>1, <2>5, <2>6, <2>7, <2>8, <2>9
<1>8. \/ UNCHANGED cbVars
      \/ WorkerStarts(w) /\ ~UNCHANGED <<shared, own, cbWorker>>
      \/ Complete(w) /\ ~UNCHANGED cbVars
  BY DEF WorkerStep, WorkerStarts, Take, IdleExit, PollEnds, PollExit, Complete, Fail,
     CancelWork, Unwound, cbVars
<1> QED BY <1>5, <1>6, <1>7, <1>8

(* A callback moves on, or the dispatcher of the singleton takes the deque. *)
LEMMA CallbackQuiet ==
  ASSUME QuietInv, NEW c \in Jobs, CallbackStep(c) \/ SendStep(c) PROVE QuietInv'
<1> USE QueueAssumption DEF QuietInv
<1>1. QTypes' /\ CallbackTypes /\ StopTypes
  BY CallbackStepTypes DEF QTypes
<1>2. UNCHANGED <<queueVars, workerVars, mining, own, shared, via, stopVars>>
  BY DEF CallbackStep, SendStep, Dispatch, DispatcherExits, SendBegins, SendSucceeds, SendFails, CbFrame
<1>3. OneWorker' /\ StopsIt' /\ Owned' /\ SharedLives' /\ Erased'
  BY <1>2 DEF OneWorker, StopsIt, Owned, SharedLives, Erased, Alive, Stopping, queueVars, workerVars, stopVars
<1>4. CASE Dispatch(c)
  <2>1. /\ cbWorker[c] = "run" /\ c = shared /\ cbWorker' = cbWorker
        /\ cb' = [j \in Jobs |-> IF j \in ToSet(pending[c]) THEN "ready" ELSE cb[j]]
        /\ pending' = [pending EXCEPT ![c] = <<>>]
    BY <1>4 DEF Dispatch, OneDispatcher
  <2>2. pending'[c] = <<>> /\ \A d \in Jobs : d # c => pending'[d] = pending[d]
    BY <1>1, <2>1 DEF CallbackTypes
  <2>3. OneDispatcher'
    BY <1>2, <2>1, <2>2, EmptyDeque DEF OneDispatcher
  <2>4. Posting'
    <3>1. \A j \in Jobs : cb'[j] \in {"queued", "ready", "posting"} => shared' # None /\ via'[j] = shared'
      BY <1>2, <2>1 DEF Posting
    <3>2. \A j \in Jobs : cb'[j] # "queued"
      BY <1>2, <2>1 DEF Posting
    <3>3. \A d \in Jobs : \A j \in ToSet(pending'[d]) : via'[j] = d
      BY <1>2, <2>2, EmptyDeque DEF Posting
    <3> QED BY <3>1, <3>2, <3>3 DEF Posting
  <2>5. Ended'
    <3>1. ASSUME NEW s \in Stops, stop[s] \in CallbacksPoints PROVE awaits[s] # c
      BY <2>1, <3>1 DEF Ended
    <3>2. \A j \in Jobs : cb'[j] \in {"ready", "posting"} => via[j] = c \/ cb[j] \in {"ready", "posting"}
      BY <2>1 DEF Posting
    <3> QED BY <1>2, <2>1, <3>1, <3>2 DEF Ended, CallbacksPoints, stopVars
  <2> QED BY <1>1, <1>3, <2>3, <2>4, <2>5
<1>5. CASE DispatcherExits(c)
  <2>1. /\ cbWorker' = [cbWorker EXCEPT ![c] = "over"]
        /\ UNCHANGED <<pending, cb>>
    BY <1>5 DEF DispatcherExits
  <2>2. \A d \in Jobs : cbWorker'[d] = "run" => cbWorker[d] = "run"
    BY <1>1, <2>1 DEF CallbackTypes
  <2>3. OneDispatcher' /\ Posting'
    BY <1>2, <2>1, <2>2 DEF OneDispatcher, Posting
  <2>4. \A s \in Stops : stop[s] \in CallbacksPoints => awaits[s] \in Jobs
    BY <1>1 DEF StopTypes, CallbacksPoints
  <2>5. Ended'
    BY <1>2, <2>1, <2>2, <2>4 DEF Ended, stopVars
  <2> QED BY <1>1, <1>3, <2>3, <2>5
<1>6. CASE SendStep(c)
  <2>1. /\ UNCHANGED <<cbWorker, pending>> /\ cb[c] \in {"ready", "posting"}
        /\ cb'[c] # "queued" /\ \A j \in Jobs : j # c => cb'[j] = cb[j]
    BY <1>1, <1>6 DEF SendStep, SendBegins, SendSucceeds, SendFails, CallbackTypes
  <2>2. OneDispatcher' /\ Posting'
    BY <1>2, <2>1 DEF OneDispatcher, Posting
  <2>3. Ended'
    BY <1>2, <2>1 DEF Ended, stopVars
  <2> QED BY <1>1, <1>3, <2>2, <2>3
<1> QED BY <1>4, <1>5, <1>6 DEF CallbackStep

--------------------------------------------------------------------------------
(* The teardown: no worker is alive and the stop goes from one thing to the next. *)
LEMMA TornDown ==
  ASSUME QuietInv, QTypes', NEW s \in Stops,
         \A w \in Jobs : ~Alive(w),
         UNCHANGED <<home, pc, via, shared>>,
         inst \in {None, target'[s]}, stop'[s] \in ClearingPoints,
         stop'[s] = "over" => inst' = None /\ shared = None,
         stop'[s] # "over" => inst' = inst /\ cbWorker'[awaits'[s]] # "run",
         stop'[s] = "clearWorker" => awaits'[s] = shared /\ \A q \in Jobs : own'[q] = None,
         \A r \in Stops : r # s => stop'[r] = stop[r] /\ awaits'[r] = awaits[r] /\ target'[r] = target[r],
         \A q \in Jobs : own'[q] \in {own[q], None},
         \A c \in Jobs : cbWorker'[c] = "run" => cbWorker[c] = "run",
         \A c \in Jobs : pending'[c] \in {pending[c], <<>>},
         \A j \in Jobs : cb'[j] \in {cb[j], "cut"},
         \A j \in Jobs : cb'[j] = "queued" => j \in ToSet(pending'[shared]),
         inst # None => \A j \in Jobs : home[j] = inst => result'[j] = "none"
  PROVE  QuietInv'
<1> USE QueueAssumption DEF QuietInv
<1>0. StopTypes /\ inst' \in {inst, None}
  BY DEF QTypes
<1>1. \A w \in Jobs : ~Alive(w)'
  BY DEF Alive
<1>2. OneWorker' /\ StopsIt'
  <2>1. \A r \in Stops : stop'[r] \notin {"idle", "over"} => inst' \in {None, target'[r]}
    BY <1>0 DEF StopsIt, ClearingPoints
  <2> QED BY <1>1, <2>1 DEF OneWorker, StopsIt
<1>3. OneDispatcher' /\ Posting'
  <2>1. \A c \in Jobs : \A j \in ToSet(pending'[c]) : j \in ToSet(pending[c])
    BY EmptyDeque
  <2>2. OneDispatcher'
    BY <2>1 DEF OneDispatcher
  <2>3. Posting'
    BY <2>1 DEF Posting
  <2> QED BY <2>2, <2>3
<1>4. Owned' /\ SharedLives'
  BY DEF Owned, SharedLives
<1>5. Ended'
  <2>1. ASSUME NEW r \in Stops, r # s
        PROVE  /\ stop'[r] \in CallbacksPoints => cbWorker'[awaits'[r]] # "run"
               /\ stop'[r] \in {"clearWorker", "clearSends"} =>
                    shared' \in {None, awaits'[r]} /\ \A q \in Jobs : own'[q] = None
               /\ stop'[r] \in {"cbSends", "clearSends"} =>
                    \A j \in Jobs : via'[j] = awaits'[r] => cb'[j] \notin {"ready", "posting"}
    <3>1. stop[r] \in CallbacksPoints => awaits[r] \in Jobs
      BY <1>0 DEF StopTypes, CallbacksPoints
    <3> QED BY <2>1, <3>1 DEF Ended
  <2>2. stop'[s] \in {"cbWorker", "clearWorker", "over"}
    BY DEF ClearingPoints
  <2> QED BY <2>1, <2>2 DEF Ended, CallbacksPoints
<1>6. Erased'
  BY <1>0 DEF Erased
<1> QED BY <1>2, <1>3, <1>4, <1>5, <1>6

(* Once the instance being stopped has no callback queue, none has. *)
LEMMA NoneOwned ==
  ASSUME QuietInv, NEW q \in Jobs, inst \in {None, q}
  PROVE  \A p \in Jobs : p # q \/ own[q] = None => own[p] = None
  BY DEF QuietInv, Owned, SharedLives

LEMMA StopBeginsQuiet ==
  ASSUME QuietInv, NEW s \in Stops, StopBegins(s) PROVE QuietInv'
<1> USE QueueAssumption DEF QuietInv
<1>1. QTypes' /\ StopTypes /\ QueueTypes /\ CallbackTypes
  BY StopStepTypes DEF QTypes
<1>2. /\ inst \in Jobs /\ inst # None /\ stop[s] = "idle"
      /\ target' = [target EXCEPT ![s] = inst]
      /\ result' = [j \in Jobs |-> IF home[j] = inst THEN "none" ELSE result[j]]
      /\ UNCHANGED <<home, task, pc, of, job, own, shared, pending, cb, via, attempt>>
  BY <1>1 DEF StopBegins, Cleared, QueueTypes, JobOrNone
<1>3. target'[s] = inst /\ \A r \in Stops : r # s => target'[r] = target[r]
  BY <1>1, <1>2 DEF StopTypes
<1>4. \A w \in Jobs : Alive(w)' <=> Alive(w)
  BY <1>2 DEF Alive
<1>5. CASE Alive(task[inst]) /\ At(s, "worker", task[inst]) /\ UNCHANGED <<inst, cbWorker>>
  <2>1. /\ stop'[s] = "worker" /\ awaits'[s] = task[inst]
        /\ \A r \in Stops : r # s => stop'[r] = stop[r] /\ awaits'[r] = awaits[r]
    BY <1>1, <1>5 DEF At, StopTypes
  <2>2. OneWorker' /\ StopsIt'
    BY <1>2, <1>3, <1>4, <1>5, <2>1 DEF OneWorker, StopsIt
  <2>3. OneDispatcher' /\ Posting' /\ Owned' /\ SharedLives'
    BY <1>2, <1>5 DEF OneDispatcher, Posting, Owned, SharedLives
  <2>4. Ended'
    BY <1>2, <1>5, <2>1 DEF Ended, CallbacksPoints
  <2>5. Erased'
    BY <1>2, <1>5 DEF Erased
  <2> QED BY <1>1, <2>2, <2>3, <2>4, <2>5
<1>6. CASE ~Alive(task[inst]) /\ StopCallbacks(s)
  <2>1. \A w \in Jobs : ~Alive(w)
    BY <1>6 DEF OneWorker
  <2>2. target' \in [Stops -> JobOrNone]
    BY <1>1 DEF QTypes, StopTypes
  <2>3. /\ stop'[s] \in ClearingPoints
        /\ \A r \in Stops : r # s => stop'[r] = stop[r] /\ awaits'[r] = awaits[r]
        /\ stop'[s] # "over" => inst' = inst /\ awaits'[s] \in Jobs /\ cbWorker'[awaits'[s]] # "run"
        /\ \A c \in Jobs : cbWorker'[c] = "run" => cbWorker[c] = "run"
        /\ stop'[s] = "over" => inst' = None /\ shared = None
        /\ stop'[s] = "clearWorker" => shared # None /\ awaits'[s] = shared
    BY <1>2, <1>3, <1>6, <2>2, StopCallbacksFacts
  <2>4. stop'[s] = "clearWorker" => \A q \in Jobs : own[q] = None
    <3>1. stop'[s] = "clearWorker" => own[inst] = None
      BY <1>1, <1>3, <1>6 DEF StopCallbacks, StopDispatcher, At, StopTypes
    <3> QED BY <1>2, <3>1, NoneOwned
  <2>5. \A j \in Jobs : cb'[j] = "queued" => j \in ToSet(pending'[shared])
    BY <1>2 DEF Posting
  <2>6. \A j \in Jobs : home[j] = inst => result'[j] = "none"
    BY <1>2
  <2> QED BY <1>1, <1>2, <1>3, <2>1, <2>3, <2>4, <2>5, <2>6, TornDown
<1> QED BY <1>5, <1>6 DEF StopBegins

LEMMA StopStepQuiet ==
  ASSUME QuietInv, NEW s \in Stops, StopNothing(s) \/ StopStep(s) PROVE QuietInv'
<1> USE QueueAssumption DEF QuietInv
<1>1. QTypes' /\ StopTypes /\ QueueTypes /\ CallbackTypes
  BY StopStepTypes DEF QTypes
<1>2. CASE StopNothing(s)
  <2>1. /\ UNCHANGED <<queueVars, workerVars, cbVars, target>> /\ inst = None
        /\ stop'[s] = "over"
        /\ \A r \in Stops : r # s => stop'[r] = stop[r] /\ awaits'[r] = awaits[r]
    BY <1>1, <1>2 DEF StopNothing, At, StopTypes
  <2>2. OneWorker' /\ OneDispatcher' /\ Posting' /\ Owned' /\ SharedLives' /\ Erased'
    BY <2>1 DEF OneWorker, OneDispatcher, Posting, Owned, SharedLives, Erased, Alive, queueVars,
                workerVars, cbVars
  <2>3. StopsIt' /\ Ended'
    BY <2>1 DEF StopsIt, Ended, Alive, CallbacksPoints, queueVars, workerVars, cbVars
  <2> QED BY <1>1, <2>2, <2>3
<1>3. CASE WorkerStopped(s)
  <2>1. /\ UNCHANGED <<queue, total, result, home, stopEvent, workerVars, mining, own, shared, pending, cb,
                       via, attempt, target>>
        /\ stop[s] = "worker" /\ ~Alive(awaits[s]) /\ StopCallbacks(s)
    BY <1>3 DEF WorkerStopped
  <2>2. \A w \in Jobs : ~Alive(w)
    BY <2>1 DEF StopsIt
  <2>3. target[s] \in Jobs /\ target'[s] = target[s] /\ inst \in {None, target[s]}
    BY <1>1, <2>1 DEF StopTypes, StopsIt
  <2>4. target' \in [Stops -> JobOrNone] /\ \A r \in Stops : r # s => target'[r] = target[r]
    BY <1>1, <2>1 DEF StopTypes
  <2>5. /\ stop'[s] \in ClearingPoints
        /\ \A r \in Stops : r # s => stop'[r] = stop[r] /\ awaits'[r] = awaits[r]
        /\ stop'[s] # "over" => inst' = inst /\ awaits'[s] \in Jobs /\ cbWorker'[awaits'[s]] # "run"
        /\ \A c \in Jobs : cbWorker'[c] = "run" => cbWorker[c] = "run"
        /\ stop'[s] = "over" => inst' = None /\ shared = None
        /\ stop'[s] = "clearWorker" => shared # None /\ awaits'[s] = shared
    BY <2>1, <2>3, <2>4, StopCallbacksFacts
  <2>6. stop'[s] = "clearWorker" => \A q \in Jobs : own[q] = None
    <3>1. stop'[s] = "clearWorker" => own[target[s]] = None
      BY <1>1, <2>1, <2>3 DEF StopCallbacks, StopDispatcher, At, StopTypes
    <3> QED BY <2>3, <3>1, NoneOwned
  <2>7. \A j \in Jobs : cb'[j] = "queued" => j \in ToSet(pending'[shared])
    BY <2>1 DEF Posting
  <2>8. inst # None => \A j \in Jobs : home[j] = inst => result'[j] = "none"
    BY <2>1 DEF Erased, Stopping
  <2> QED BY <1>1, <2>1, <2>2, <2>3, <2>4, <2>5, <2>6, <2>7, <2>8, TornDown DEF workerVars
<1>4. CASE SendsCancelled(s)
  <2>1. /\ UNCHANGED <<queueVars, workerVars, mining, own, shared, cbWorker, pending, via, attempt, target>>
        /\ stop[s] \in {"cbWorker", "clearWorker"}
        /\ stop'[s] = IF stop[s] = "cbWorker" THEN "cbSends" ELSE "clearSends"
        /\ awaits' = awaits
        /\ \A r \in Stops : r # s => stop'[r] = stop[r]
        /\ cb' = [j \in Jobs |-> IF via[j] = awaits[s] /\ cb[j] \in {"ready", "posting"} THEN "cut" ELSE cb[j]]
    BY <1>1, <1>4 DEF SendsCancelled, At, StopTypes
  <2>2. OneWorker' /\ OneDispatcher' /\ Owned' /\ SharedLives'
    BY <2>1 DEF OneWorker, OneDispatcher, Owned, SharedLives, Alive, queueVars, workerVars
  <2>3. StopsIt'
    BY <2>1 DEF StopsIt, Alive, queueVars, workerVars
  <2>4. Posting'
    BY <2>1 DEF Posting
  <2>5. Ended'
    BY <2>1 DEF Ended, CallbacksPoints
  <2>6. Erased'
    BY <2>1 DEF Erased, Stopping, queueVars
  <2> QED BY <1>1, <2>2, <2>3, <2>4, <2>5, <2>6
<1>5. CASE CallbacksStopped(s)
  <2>1. /\ UNCHANGED <<queue, total, result, home, stopEvent, task, workerVars, mining, via, attempt, target>>
        /\ pending' = [pending EXCEPT ![awaits[s]] = <<>>]
        /\ cb' = [j \in Jobs |-> IF j \in ToSet(pending[awaits[s]]) THEN "cut" ELSE cb[j]]
        /\ stop[s] \in {"cbSends", "clearSends"}
    BY <1>5 DEF CallbacksStopped
  <2>2. /\ target[s] \in Jobs /\ target'[s] = target[s] /\ inst \in {None, target[s]} /\ awaits[s] \in Jobs
        /\ \A w \in Jobs : ~Alive(w)
    BY <1>1, <2>1 DEF StopTypes, StopsIt
  <2>3. target' \in [Stops -> JobOrNone] /\ \A r \in Stops : r # s => target'[r] = target[r]
    BY <1>1, <2>1 DEF StopTypes
  <2>4. pending'[awaits[s]] = <<>> /\ \A c \in Jobs : c # awaits[s] => pending'[c] = pending[c]
    BY <1>1, <2>1, <2>2 DEF CallbackTypes
  <2>5. \A j \in Jobs : cb'[j] = "queued" => j \in ToSet(pending'[shared]) /\ shared # awaits[s]
    <3>1. \A j \in Jobs : cb'[j] = "queued" => cb[j] = "queued" /\ j \notin ToSet(pending[awaits[s]])
      BY <2>1
    <3>2. \A j \in Jobs : cb[j] = "queued" => shared \in Jobs /\ j \in ToSet(pending[shared])
      BY <1>1 DEF Posting, CallbackTypes, JobOrNone
    <3> QED BY <2>4, <3>1, <3>2
  <2>6. inst # None => \A j \in Jobs : home[j] = inst => result'[j] = "none"
    BY <2>1 DEF Erased, Stopping
  <2>7. CASE own' = [own EXCEPT ![target[s]] = None] /\ ClearCallbacks(s) /\ UNCHANGED shared
    <3>1. /\ stop'[s] \in ClearingPoints
          /\ \A r \in Stops : r # s => stop'[r] = stop[r] /\ awaits'[r] = awaits[r]
          /\ stop'[s] # "over" => inst' = inst /\ awaits'[s] \in Jobs /\ cbWorker'[awaits'[s]] # "run"
          /\ \A c \in Jobs : cbWorker'[c] = "run" => cbWorker[c] = "run"
          /\ stop'[s] = "over" => inst' = None /\ shared = None
          /\ stop'[s] = "clearWorker" => shared # None /\ awaits'[s] = shared
      BY <2>2, <2>3, <2>7, StopCallbacksFacts
    <3>2. \A q \in Jobs : own'[q] = None
      BY <1>1, <2>2, <2>7, NoneOwned DEF CallbackTypes
    <3>3. \A c \in Jobs : pending'[c] \in {pending[c], <<>>}
      BY <2>4
    <3> QED BY <1>1, <2>1, <2>2, <2>3, <2>5, <2>6, <2>7, <3>1, <3>2, <3>3, TornDown DEF workerVars
  <2>8. CASE /\ stop[s] = "clearSends" /\ shared' = None /\ inst' = None
             /\ At(s, "over", None) /\ UNCHANGED <<own, cbWorker>>
    <3>1. stop'[s] = "over" /\ \A r \in Stops : r # s => stop'[r] = stop[r] /\ awaits'[r] = awaits[r]
      BY <1>1, <2>8 DEF At, StopTypes
    <3>2. /\ shared \in {None, awaits[s]} /\ \A q \in Jobs : own[q] = None
          /\ cbWorker[awaits[s]] # "run"
          /\ \A j \in Jobs : via[j] = awaits[s] => cb[j] \notin {"ready", "posting"}
      BY <2>8 DEF Ended, CallbacksPoints
    <3>3. \A j \in Jobs : cb'[j] \notin {"queued", "ready", "posting"}
      BY <2>1, <2>5, <3>2 DEF Posting
    <3>4. \A c \in Jobs : cbWorker[c] # "run" /\ ToSet(pending'[c]) = {}
      BY <2>4, <3>2, EmptyDeque DEF OneDispatcher
    <3>5. \A w \in Jobs : ~Alive(w)'
      BY <2>1, <2>2 DEF Alive, workerVars
    <3>6. OneWorker' /\ StopsIt' /\ OneDispatcher' /\ Owned' /\ SharedLives' /\ Erased'
      BY <2>8, <3>2, <3>4, <3>5 DEF OneWorker, StopsIt, OneDispatcher, Owned, SharedLives, Erased
    <3>7. Posting' /\ Ended'
      BY <2>8, <3>1, <3>2, <3>3, <3>4 DEF Posting, Ended, CallbacksPoints
    <3> QED BY <1>1, <3>6, <3>7
  <2> QED BY <1>5, <2>7, <2>8 DEF CallbacksStopped
<1> QED BY <1>2, <1>3, <1>4, <1>5 DEF StopStep

LEMMA QuietStep ==
  ASSUME Overlap = FALSE PROVE QuietInv /\ [Next]_vars => QuietInv'
<1> SUFFICES ASSUME QuietInv, [Next]_vars PROVE QuietInv'
  OBVIOUS
<1>1. ASSUME NEW j \in Jobs, Generate(j) \/ WorkerStep(j) \/ CallbackStep(j) \/ SendStep(j)
      PROVE  QuietInv'
  BY <1>1, GenerateQuiet, WorkerStepQuiet, CallbackQuiet
<1>2. ASSUME NEW s \in Stops, StopBegins(s) \/ StopNothing(s) \/ StopStep(s) PROVE QuietInv'
  BY <1>2, StopBeginsQuiet, StopStepQuiet
<1>3. CASE Mining \/ UNCHANGED vars
  <2>1. UNCHANGED <<queueVars, workerVars, cbVars, stopVars>>
    BY <1>3 DEF Mining, vars
  <2>2. QTypes'
    BY <1>3, QTypesStep DEF QuietInv, Next
  <2> QED BY <2>1, <2>2
          DEF QuietInv, OneWorker, StopsIt, OneDispatcher, Owned, Posting, SharedLives, Ended, Erased,
              Stopping, Alive, queueVars, workerVars, cbVars, stopVars
<1> QED BY <1>1, <1>2, <1>3 DEF Next

(* When no request is accepted while a /stop is unanswered, a /stop leaves nothing    *)
(* behind, whatever the worker, the dispatcher and the posts were doing and however   *)
(* many stops overlap.                                                                *)
THEOREM StopIsQuiet == ASSUME Overlap = FALSE PROVE Spec => []StoppedIsQuiet
<1>1. Spec => []QuietInv
  <2>1. QuietInv /\ [Next]_vars => QuietInv'
    BY QuietStep
  <2> QED BY <2>1, QuietInit, PTL DEF Spec
<1>2. QuietInv => StoppedIsQuiet
  <2> SUFFICES ASSUME QuietInv, inst = None, NEW j \in Jobs
               PROVE  ~Alive(j) /\ cbWorker[j] # "run" /\ cb[j] \notin {"queued", "ready", "posting"}
    BY DEF StoppedIsQuiet
  <2>1. shared = None
    BY DEF QuietInv, SharedLives
  <2>2. j # None
    BY QueueAssumption
  <2> QED BY <2>1, <2>2 DEF QuietInv, OneWorker, OneDispatcher, Posting
<1> QED BY <1>1, <1>2, PTL

LEMMA KeepsRecords ==
  ASSUME QuietInv, QuietInv', Next, NEW j \in Jobs, Visible(j), ~Visible(j)'
  PROVE  result[j] \in Settled \/ \E s \in Stops : stop[s] = "idle" /\ stop'[s] # "idle"
<1> USE QueueAssumption
<1>1. /\ QTypes /\ inst # None /\ inst = home[j] /\ result[j] # "none" /\ ~Stopping
  BY DEF Visible, QuietInv, Erased
<1>2. ASSUME NEW k \in Jobs, Generate(k) PROVE FALSE
  <2>1. inst' = inst /\ home[k] = None /\ k # j
    BY <1>1, <1>2 DEF Generate
  <2>2. home'[j] = home[j] /\ result'[j] = result[j]
    BY <1>1, <1>2, <2>1 DEF Generate, QTypes, QueueTypes
  <2> QED BY <1>1, <2>1, <2>2 DEF Visible
<1>3. ASSUME NEW w \in Jobs, WorkerStep(w) PROVE result[j] \in Settled
  <2>1. inst' = inst /\ home' = home
    BY <1>3 DEF WorkerStep, WorkerStarts, Take, IdleExit, PollEnds, PollExit, Complete, Fail,
       CancelWork, Unwound, queueVars
  <2>2. result'[j] = "none"
    BY <1>1, <2>1 DEF Visible
  <2>3. CASE Take(w)
    BY <1>1, <2>2, <2>3 DEF Take, QTypes, QueueTypes
  <2>4. CASE UNCHANGED result
    BY <1>1, <2>2, <2>4
  <2>5. CASE \E status \in Settled : Record(w, status)
    BY <1>1, <2>2, <2>5, RecordFacts
  <2>6. "completed" \in Settled /\ "failed" \in Settled
    BY DEF Settled
  <2> QED BY <1>3, <2>3, <2>4, <2>5, <2>6
          DEF WorkerStep, WorkerStarts, IdleExit, PollEnds, PollExit, Complete, Fail, CancelWork,
              Unwound, queueVars
<1>4. ASSUME NEW c \in Jobs, CallbackStep(c) \/ SendStep(c) PROVE FALSE
  <2>1. inst' = inst /\ home' = home /\ result' = result
    BY <1>4 DEF CallbackStep, SendStep, Dispatch, DispatcherExits, SendBegins, SendSucceeds, SendFails,
                CbFrame, queueVars
  <2> QED BY <1>1, <2>1 DEF Visible
<1>5. ASSUME NEW s \in Stops, StopBegins(s) \/ StopNothing(s) \/ StopStep(s)
      PROVE  stop[s] = "idle" /\ stop'[s] # "idle"
  <2>1. stop[s] \in {"idle", "over"}
    BY <1>1 DEF Stopping
  <2>2. StopBegins(s)
    BY <1>1, <1>5, <2>1 DEF StopNothing, StopStep, WorkerStopped, SendsCancelled, CallbacksStopped
  <2> QED BY <1>1, <2>2
          DEF StopBegins, StopCallbacks, ClearCallbacks, StopDispatcher, At, QTypes, StopTypes
<1>6. ASSUME Mining PROVE FALSE
  BY <1>1, <1>6 DEF Mining, queueVars, Visible
<1> QED BY <1>2, <1>3, <1>4, <1>5, <1>6 DEF Next

(* When no request is accepted while a /stop is unanswered, the record of a job goes  *)
(* only when the job is settled or with a /stop that begins after it was queued.      *)
THEOREM RecordsAreKept == ASSUME Overlap = FALSE PROVE Spec => RecordsLast
<1>1. QuietInv /\ [Next]_vars => QuietInv'
  BY QuietStep
<1>2. QuietInv /\ QuietInv' /\ [Next]_vars =>
        [\A j \in Jobs : Visible(j) /\ ~Visible(j)' =>
           result[j] \in Settled \/ \E s \in Stops : stop[s] = "idle" /\ stop'[s] # "idle"]_vars
  BY KeepsRecords
<1> QED BY <1>1, <1>2, QuietInit, PTL DEF Spec, RecordsLast

--------------------------------------------------------------------------------
(* What the counter of nonces counts, when nothing is accepted during a /stop. *)

(* The nonces of a set of jobs. *)
NoncesOf(T) == SumOf(Size, T)

(* An accepted job is queued once, or a worker has it. *)
Once ==
  /\ \A q \in Jobs : \A i, k \in 1..Len(queue[q]) : queue[q][i] = queue[q][k] => i = k
  /\ \A q \in Jobs : \A j \in ToSet(queue[q]) : home[j] # None
  /\ \A w \in Jobs : job[w] # None =>
       /\ pc[w] \in {"poll", "work", "unwind"}
       /\ home[job[w]] # None /\ job[w] \notin ToSet(queue[of[w]])

(* An instance that is being stopped, or is not the singleton, is empty. *)
Emptied == \A q \in Jobs : q # inst \/ Stopping => total[q] = 0 /\ queue[q] = <<>>

Counted ==
  inst # None /\ ~Stopping =>
    \A T \in SUBSET Jobs : T = Held(inst) => total[inst] = NoncesOf(T) /\ total[inst] <= Cap

CapInv == QuietInv /\ Once /\ Emptied /\ Counted

LEMMA NoncesOfJobs ==
  ASSUME NEW T \in SUBSET Jobs
  PROVE  /\ NoncesOf(T) \in Nat
         /\ T = {} => NoncesOf(T) = 0
         /\ \A j \in T : NoncesOf(T) = Size[j] + NoncesOf(T \ {j})
<1>1. IsFiniteSet(T) /\ \A j \in T : Size[j] \in Nat
  BY QueueAssumption, FS_Subset
<1> QED BY <1>1, SumOfSet DEF NoncesOf

(* The members of a queue: what is appended, and what is left of it. *)
LEMMA QueueMembers ==
  ASSUME NEW s \in Seq(Jobs)
  PROVE  /\ ToSet(s) \subseteq Jobs
         /\ \A j \in Jobs : ToSet(Append(s, j)) = ToSet(s) \cup {j}
         /\ s # <<>> => Head(s) \in Jobs /\ Tail(s) \in Seq(Jobs) /\ ToSet(s) = {Head(s)} \cup ToSet(Tail(s))
<1>1. DOMAIN s = 1..Len(s) /\ Len(s) \in Nat /\ \A i \in 1..Len(s) : s[i] \in Jobs
  BY LenProperties, ElementOfSeq
<1>2. ToSet(s) \subseteq Jobs
  BY <1>1 DEF ToSet
<1>3. ASSUME NEW j \in Jobs PROVE ToSet(Append(s, j)) = ToSet(s) \cup {j}
  <2>1. /\ DOMAIN Append(s, j) = 1..(Len(s) + 1)
        /\ \A i \in 1..Len(s) : Append(s, j)[i] = s[i]
        /\ Append(s, j)[Len(s) + 1] = j
    BY <1>1, AppendProperties
  <2>2. \A i \in 1..(Len(s) + 1) : i \in 1..Len(s) \/ i = Len(s) + 1
    BY <1>1
  <2>3. 1..Len(s) \subseteq 1..(Len(s) + 1) /\ Len(s) + 1 \in 1..(Len(s) + 1)
    BY <1>1
  <2> HIDE DEF ToSet
  <2>4. ASSUME NEW x PROVE x \in ToSet(Append(s, j)) <=> x \in ToSet(s) \/ x = j
    <3>1. x \in ToSet(Append(s, j)) <=> \E i \in 1..(Len(s) + 1) : Append(s, j)[i] = x
      BY <2>1 DEF ToSet
    <3>2. x \in ToSet(s) <=> \E i \in 1..Len(s) : s[i] = x
      BY <1>1 DEF ToSet
    <3> QED BY <2>1, <2>2, <2>3, <3>1, <3>2
  <2> QED BY <2>4
<1>4. ASSUME s # <<>>
      PROVE  Head(s) \in Jobs /\ Tail(s) \in Seq(Jobs) /\ ToSet(s) = {Head(s)} \cup ToSet(Tail(s))
  <2>1. /\ Head(s) = s[1] /\ Tail(s) \in Seq(Jobs) /\ Len(Tail(s)) = Len(s) - 1 /\ Len(s) >= 1
        /\ \A i \in 1..Len(Tail(s)) : Tail(s)[i] = s[i + 1]
    BY <1>1, <1>4, HeadTailProperties, EmptySeq
  <2>2. DOMAIN Tail(s) = 1..(Len(s) - 1)
    BY <2>1, LenProperties
  <2>3. ASSUME NEW x PROVE x \in ToSet(s) <=> x = Head(s) \/ x \in ToSet(Tail(s))
    <3>1. x \in ToSet(s) <=> \E i \in 1..Len(s) : s[i] = x
      BY <1>1 DEF ToSet
    <3>2. x \in ToSet(Tail(s)) <=> \E i \in 1..(Len(s) - 1) : s[i + 1] = x
      BY <2>1, <2>2 DEF ToSet
    <3>3. \A i \in 1..Len(s) : i = 1 \/ (i - 1 \in 1..(Len(s) - 1) /\ (i - 1) + 1 = i)
      BY <1>1
    <3>4. \A i \in 1..(Len(s) - 1) : i + 1 \in 1..Len(s)
      BY <1>1
    <3>5. 1 \in 1..Len(s)
      BY <1>1, <2>1
    <3>6. ASSUME x \in ToSet(s) PROVE x = Head(s) \/ x \in ToSet(Tail(s))
      BY <2>1, <3>1, <3>2, <3>3, <3>6
    <3>7. ASSUME x = Head(s) \/ x \in ToSet(Tail(s)) PROVE x \in ToSet(s)
      BY <2>1, <3>1, <3>2, <3>4, <3>5, <3>7
    <3> QED BY <3>6, <3>7
  <2>4. s[1] \in Jobs
    BY <1>1, <2>1
  <2> QED BY <2>1, <2>3, <2>4
<1> QED BY <1>2, <1>3, <1>4

LEMMA CapInit == Init => CapInv
<1> SUFFICES ASSUME Init PROVE CapInv
  OBVIOUS
<1>1. inst = None /\ \A q \in Jobs : queue[q] = <<>> /\ total[q] = 0 /\ job[q] = None
  BY DEF Init
<1>2. Once
  BY <1>1, EmptyDeque DEF Once
<1>3. Emptied /\ Counted
  BY <1>1 DEF Emptied, Counted
<1> QED BY <1>2, <1>3, QuietInit DEF CapInv

(* What the singleton holds: what is queued, and what the one worker has. *)
LEMMA HeldBy ==
  ASSUME CapInv, inst # None
  PROVE  /\ Held(inst) \in SUBSET Jobs
         /\ (\A w \in Jobs : job[w] = None) => Held(inst) = ToSet(queue[inst])
         /\ \A w \in Jobs : job[w] # None =>
              Held(inst) = ToSet(queue[inst]) \cup {job[w]} /\ job[w] \notin ToSet(queue[inst])
<1> USE DEF CapInv
<1>1. QTypes /\ inst \in Jobs /\ queue[inst] \in Seq(Jobs) /\ \A w \in Jobs : job[w] \in JobOrNone
  BY DEF QuietInv, QTypes, QueueTypes, WorkerTypes, JobOrNone
<1>2. ToSet(queue[inst]) \subseteq Jobs
  BY <1>1, QueueMembers
<1>3. \A x : x \in Held(inst) <=> x \in ToSet(queue[inst])
                                  \/ \E v \in Jobs : of[v] = inst /\ job[v] # None /\ x = job[v]
  BY DEF Held
<1>4. \A w \in Jobs : job[w] # None =>
        Alive(w) /\ of[w] = inst /\ job[w] \notin ToSet(queue[inst])
  <2>1. \A w \in Jobs : job[w] # None => Alive(w)
    BY QueueAssumption DEF Once, Alive
  <2> QED BY <2>1 DEF Once, QuietInv, OneWorker
<1>5. \A v, w \in Jobs : job[v] # None /\ job[w] # None => v = w
  <2>1. \A v, w \in Jobs : Alive(v) /\ Alive(w) => v = w
    BY DEF QuietInv, OneWorker
  <2> QED BY <1>4, <2>1
<1>6. Held(inst) \in SUBSET Jobs
  BY <1>1, <1>2, <1>3 DEF JobOrNone
<1>7. ASSUME \A w \in Jobs : job[w] = None PROVE Held(inst) = ToSet(queue[inst])
  BY <1>3, <1>7
<1>8. ASSUME NEW w \in Jobs, job[w] # None PROVE Held(inst) = ToSet(queue[inst]) \cup {job[w]}
  <2>1. \A x : x \in Held(inst) <=> x \in ToSet(queue[inst]) \/ x = job[w]
    BY <1>3, <1>4, <1>5, <1>8
  <2> QED BY <2>1
<1> QED BY <1>4, <1>6, <1>7, <1>8

(* A step that changes neither the queues nor what the workers have. *)
LEMMA CapFrame ==
  ASSUME CapInv, QuietInv', UNCHANGED <<inst, queue, total, home, of, job>>, Stopping' <=> Stopping,
         \A w \in Jobs : pc[w] \in {"poll", "work", "unwind"} => pc'[w] \in {"poll", "work", "unwind"}
  PROVE  CapInv'
<1>1. Once'
  BY DEF CapInv, Once
<1>2. Emptied'
  BY DEF CapInv, Emptied
<1>3. Counted'
  <2>1. Held(inst)' = Held(inst)
    BY DEF Held
  <2> QED BY <2>1 DEF CapInv, Counted
<1> QED BY <1>1, <1>2, <1>3 DEF CapInv

(* A request that is accepted adds its nonces, those of a rejected one do not count. *)
LEMMA GenerateCap ==
  ASSUME Overlap = FALSE, CapInv, NEW j \in Jobs, Generate(j) PROVE CapInv'
<1> USE QueueAssumption DEF CapInv
<1> DEFINE q == IF inst = None THEN j ELSE inst
<1>1. QTypes /\ q \in Jobs /\ inst' = q /\ home[j] = None /\ ~Stopping /\ UNCHANGED <<job, stop>>
  BY DEF QuietInv, QTypes, QueueTypes, JobOrNone, Generate, stopVars
<1>2. QuietInv' /\ ~Stopping'
  BY <1>1, GenerateQuiet DEF Stopping
<1>3. \A w \in Jobs : job[w] # None => Alive(w) /\ of[w] = inst /\ inst # None
  <2>1. \A w \in Jobs : job[w] # None => Alive(w)
    BY DEF Once, Alive
  <2> QED BY <2>1 DEF QuietInv, OneWorker
<1>4. /\ queue[q] \in Seq(Jobs) /\ total[q] \in Nat /\ Size[j] \in Nat
      /\ inst = None => total[q] = 0 /\ queue[q] = <<>>
  BY <1>1 DEF QTypes, QueueTypes, Emptied
<1>5. ToSet(queue[q]) \subseteq Jobs /\ j \notin ToSet(queue[q]) /\ ToSet(<<>>) = {}
  BY <1>1, <1>4, QueueMembers, EmptyDeque DEF Once
<1>6. total[q] <= Cap /\ \A T \in SUBSET Jobs :
        (inst # None /\ T = Held(inst)) \/ (inst = None /\ T = {}) => total[q] = NoncesOf(T)
  <2>1. CASE inst = None
    <3>1. {} \in SUBSET Jobs
      OBVIOUS
    <3>2. NoncesOf({}) = 0
      BY <3>1, NoncesOfJobs
    <3>3. total[q] = 0 /\ 0 <= Cap
      BY <1>4, <2>1
    <3> HIDE DEF q
    <3> QED BY <2>1, <3>2, <3>3
  <2>2. CASE inst # None
    <3>1. Held(inst) \in SUBSET Jobs
      BY <2>2, HeldBy
    <3>2. \A T \in SUBSET Jobs : T = Held(inst) => total[inst] = NoncesOf(T) /\ total[inst] <= Cap
      BY <1>1, <2>2 DEF Counted
    <3>3. PICK U \in SUBSET Jobs : U = Held(inst)
      BY <3>1
    <3>4. total[inst] <= Cap
      BY <3>2, <3>3
    <3> QED BY <2>2, <3>2, <3>4
  <2> QED BY <2>1, <2>2
<1>7. CASE UNCHANGED <<total, result, home, queue, stopEvent, task, pc, of>>
  <2>1. Once'
    BY <1>1, <1>7 DEF Once
  <2>2. Emptied'
    BY <1>1, <1>2, <1>7 DEF Emptied
  <2>3. Counted'
    <3>1. CASE inst = None
      <4>1. inst' = q /\ queue'[q] = <<>> /\ \A w \in Jobs : job'[w] = None
        BY <1>1, <1>3, <1>4, <1>7, <3>1
      <4>2. Held(inst)' = {}
        BY <1>5, <4>1 DEF Held
      <4> QED BY <1>1, <1>6, <1>7, <3>1, <4>2 DEF Counted
    <3>2. CASE inst # None
      <4>1. Held(inst)' = Held(inst)
        BY <1>1, <1>7, <3>2 DEF Held
      <4> QED BY <1>1, <1>6, <1>7, <3>2, <4>1 DEF Counted
    <3> QED BY <3>1, <3>2
  <2> QED BY <1>2, <2>1, <2>2, <2>3
<1>8. CASE /\ total[q] + Size[j] <= Cap
           /\ total' = [total EXCEPT ![q] = @ + Size[j]]
           /\ home' = [home EXCEPT ![j] = q]
           /\ queue' = [queue EXCEPT ![q] = Append(@, j)]
           /\ ensure_worker_running(q, j)
  <2>1. /\ queue'[q] = Append(queue[q], j) /\ total'[q] = total[q] + Size[j]
        /\ \A p \in Jobs : p # q => queue'[p] = queue[p] /\ total'[p] = total[p]
        /\ home'[j] = q /\ \A k \in Jobs : home[k] # None => home'[k] # None
    BY <1>1, <1>8 DEF QTypes, QueueTypes
  <2>2. \A w \in Jobs : job[w] # None => pc'[w] = pc[w] /\ of'[w] = of[w] /\ of[w] = q
    <3>1. CASE UNCHANGED <<pc, of>>
      BY <1>3, <3>1
    <3>2. CASE /\ ~Alive(task[q]) /\ pc' = [pc EXCEPT ![j] = "new"] /\ of' = [of EXCEPT ![j] = q]
      <4>1. \A w \in Jobs : ~Alive(w)
        BY <3>2 DEF QuietInv, OneWorker
      <4> QED BY <1>3, <4>1
    <3> QED BY <1>8, <3>1, <3>2 DEF ensure_worker_running
  <2>3. ToSet(queue'[q]) = ToSet(queue[q]) \cup {j}
    BY <1>4, <2>1, QueueMembers
  <2>4. Once'
    <3>1. ASSUME NEW p \in Jobs, NEW i \in 1..Len(queue'[p]), NEW k \in 1..Len(queue'[p]),
                 queue'[p][i] = queue'[p][k]
          PROVE  i = k
      <4>1. CASE p # q
        BY <2>1, <3>1, <4>1 DEF Once
      <4>2. CASE p = q
        <5>1. PICK s \in Seq(Jobs) : s = queue[q]
          BY <1>4
        <5>2. /\ queue'[p] = Append(s, j) /\ j \notin ToSet(s)
              /\ \A a, b \in 1..Len(s) : s[a] = s[b] => a = b
          BY <1>1, <1>5, <2>1, <4>2, <5>1 DEF Once
        <5>3. /\ Len(s) \in Nat /\ Len(Append(s, j)) = Len(s) + 1
              /\ Append(s, j)[Len(s) + 1] = j
              /\ \A a \in 1..Len(s) : Append(s, j)[a] = s[a] /\ s[a] # j
          <6>1. \A a \in 1..Len(s) : s[a] \in ToSet(s)
            BY LenProperties DEF ToSet
          <6> QED BY <5>2, <6>1, AppendProperties, LenProperties
        <5>4. \A a \in 1..(Len(s) + 1) : a \in 1..Len(s) \/ a = Len(s) + 1
          BY <5>3
        <5> QED BY <3>1, <5>2, <5>3, <5>4
      <4> QED BY <4>1, <4>2
    <3>2. ASSUME NEW p \in Jobs, NEW k \in ToSet(queue'[p]) PROVE home'[k] # None
      <4>1. CASE p # q
        <5>1. k \in ToSet(queue[p]) /\ queue[p] \in Seq(Jobs)
          BY <1>1, <2>1, <3>2, <4>1 DEF QTypes, QueueTypes
        <5>2. k \in Jobs
          BY <5>1, QueueMembers
        <5> QED BY <2>1, <5>1, <5>2 DEF Once
      <4>2. CASE p = q
        BY <1>1, <1>5, <2>1, <2>3, <3>2, <4>2, ZenonT(40) DEF Once
      <4> QED BY <4>1, <4>2
    <3>3. ASSUME NEW w \in Jobs, job'[w] # None
          PROVE  /\ pc'[w] \in {"poll", "work", "unwind"}
                 /\ home'[job'[w]] # None /\ job'[w] \notin ToSet(queue'[of'[w]])
      <4>1. job'[w] = job[w] /\ job[w] \in Jobs
        BY <1>1, <3>3 DEF QTypes, WorkerTypes, JobOrNone
      <4>2. /\ pc[w] \in {"poll", "work", "unwind"} /\ home[job[w]] # None
            /\ job[w] \notin ToSet(queue[of[w]])
        BY <3>3, <4>1 DEF Once
      <4>3. pc'[w] \in {"poll", "work", "unwind"} /\ home'[job'[w]] # None
        BY <2>1, <2>2, <3>3, <4>1, <4>2
      <4>4. of'[w] = q /\ job[w] # j /\ job[w] \notin ToSet(queue[q])
        BY <1>1, <2>2, <3>3, <4>1, <4>2
      <4> QED BY <2>3, <4>1, <4>3, <4>4
    <3> QED BY <3>1, <3>2, <3>3 DEF Once
  <2>5. Emptied'
    BY <1>1, <1>2, <2>1 DEF Emptied
  <2>6. Counted'
    <3>1. CASE inst = None
      <4>1. \A w \in Jobs : job'[w] = None
        BY <1>1, <1>3, <3>1
      <4>2. Held(inst)' = {j}
        BY <1>1, <1>4, <1>5, <2>3, <3>1, <4>1 DEF Held
      <4>3. NoncesOf({j}) = Size[j] + NoncesOf({j} \ {j}) /\ {j} \ {j} = {} /\ NoncesOf({}) = 0
        <5>1. {j} \in SUBSET Jobs /\ {} \in SUBSET Jobs
          OBVIOUS
        <5> QED BY <5>1, NoncesOfJobs
      <4>4. total[q] = 0 /\ NoncesOf({j}) = Size[j] + 0
        BY <1>4, <3>1, <4>3
      <4> QED BY <1>1, <1>4, <1>8, <2>1, <4>2, <4>4 DEF Counted
    <3>2. CASE inst # None
      <4>1. PICK T \in SUBSET Jobs : T = Held(inst)
        BY <3>2, HeldBy
      <4>2. total[q] = NoncesOf(T) /\ T \cup {j} \in SUBSET Jobs
        BY <1>6, <3>2, <4>1
      <4>3. j \notin T
        <5>1. \A w \in Jobs : job[w] # None => job[w] # j
          BY <1>1 DEF Once
        <5> QED BY <1>5, <3>2, <4>1, <5>1 DEF Held
      <4>4. Held(inst)' = T \cup {j}
        <5>1. \A w \in Jobs : job'[w] = job[w] /\ (job[w] # None => of'[w] = of[w])
          BY <1>1, <2>2
        <5>2. of \in [Jobs -> JobOrNone] /\ inst' = inst /\ q = inst
          BY <1>1, <3>2 DEF QTypes, WorkerTypes
        <5>3. \A x : x \in {job'[w] : w \in {v \in Jobs : of'[v] = inst /\ job'[v] # None}} <=>
                    x \in {job[w] : w \in {v \in Jobs : of[v] = inst /\ job[v] # None}}
          BY <2>2, <5>1, <5>2
        <5> QED BY <2>3, <4>1, <5>2, <5>3 DEF Held
      <4>5. NoncesOf(T \cup {j}) = Size[j] + NoncesOf((T \cup {j}) \ {j}) /\ (T \cup {j}) \ {j} = T
        BY <4>2, <4>3, NoncesOfJobs
      <4>6. total'[q] = NoncesOf(T \cup {j})
        <5>1. PICK n \in Nat : n = total[q] /\ n = NoncesOf(T)
          BY <1>4, <4>2
        <5>2. total'[q] = n + Size[j]
          BY <2>1, <5>1
        <5>3. NoncesOf(T \cup {j}) = Size[j] + n
          BY <4>5, <5>1
        <5> QED BY <1>4, <5>2, <5>3
      <4> QED BY <1>1, <1>8, <2>1, <4>4, <4>6 DEF Counted
    <3> QED BY <3>1, <3>2
  <2> QED BY <1>2, <2>4, <2>5, <2>6
<1> QED BY <1>7, <1>8 DEF Generate

(* The worker takes a job from the queue: it is the singleton's all the same. *)
LEMMA TakeCap ==
  ASSUME CapInv, QuietInv', NEW w \in Jobs, Take(w) PROVE CapInv'
<1> USE QueueAssumption DEF CapInv
<1>1. /\ QTypes /\ Alive(w) /\ inst \in Jobs /\ inst # None /\ of[w] = inst
      /\ \A v \in Jobs : Alive(v) => v = w
  <2>1. Alive(w)
    BY DEF Take, Alive
  <2> QED BY <2>1, WorkerContext DEF QuietInv
<1>2. \A v \in Jobs : job[v] = None
  <2>1. \A v \in Jobs : job[v] # None => Alive(v) /\ pc[v] # "get"
    BY DEF Once, Alive
  <2> QED BY <1>1, <2>1 DEF Take
<1>3. PICK s \in Seq(Jobs) : s = queue[inst] /\ s # <<>>
  BY <1>1 DEF Take, QTypes, QueueTypes
<1>4. PICK j : j = Head(s)
  OBVIOUS
<1>5. /\ ToSet(s) \subseteq Jobs /\ j \in Jobs /\ Tail(s) \in Seq(Jobs)
      /\ ToSet(s) = {j} \cup ToSet(Tail(s))
  BY <1>3, <1>4, QueueMembers
<1>6. /\ job'[w] = j /\ \A v \in Jobs : v # w => job'[v] = None
      /\ queue'[inst] = Tail(s) /\ \A p \in Jobs : p # inst => queue'[p] = queue[p]
      /\ pc'[w] \in {"poll", "work", "unwind"}
      /\ UNCHANGED <<inst, total, home, of, stop>>
  BY <1>1, <1>2, <1>3, <1>4 DEF Take, QTypes, QueueTypes, WorkerTypes, stopVars
<1>7. /\ \A i, k \in 1..Len(Tail(s)) : Tail(s)[i] = Tail(s)[k] => i = k
      /\ j \notin ToSet(Tail(s))
  <2>1. \A i, k \in 1..Len(s) : s[i] = s[k] => i = k
    BY <1>1, <1>3 DEF Once
  <2>2. /\ Len(s) \in Nat /\ Len(Tail(s)) = Len(s) - 1 /\ j = s[1] /\ 1 <= Len(s)
        /\ \A i \in 1..Len(Tail(s)) : Tail(s)[i] = s[i + 1]
    BY <1>3, <1>4, HeadTailProperties, EmptySeq, LenProperties
  <2>3. \A i \in 1..Len(Tail(s)) : i \in Nat /\ i + 1 \in 1..Len(s) /\ i + 1 # 1
    BY <2>2
  <2>4. ASSUME NEW i \in 1..Len(Tail(s)), NEW k \in 1..Len(Tail(s)), Tail(s)[i] = Tail(s)[k] PROVE i = k
    <3>1. i + 1 = k + 1 /\ i \in Nat /\ k \in Nat
      BY <2>1, <2>2, <2>3, <2>4
    <3> QED BY <3>1
  <2>5. j \notin ToSet(Tail(s))
    <3>1. DOMAIN Tail(s) = 1..Len(Tail(s))
      BY <1>5, LenProperties
    <3>2. 1 \in 1..Len(s)
      BY <2>2
    <3>3. \A i \in 1..Len(Tail(s)) : Tail(s)[i] # j
      BY <2>1, <2>2, <2>3, <3>2
    <3> QED BY <3>1, <3>3 DEF ToSet
  <2> QED BY <2>4, <2>5
<1>8. Once'
  <2>1. \A p \in Jobs : \A i, k \in 1..Len(queue'[p]) : queue'[p][i] = queue'[p][k] => i = k
    BY <1>6, <1>7, ZenonT(40) DEF Once
  <2>2. \A p \in Jobs : ToSet(queue'[p]) \subseteq ToSet(queue[p])
    BY <1>3, <1>5, <1>6
  <2>3. \A p \in Jobs : \A k \in ToSet(queue'[p]) : home'[k] # None
    BY <1>6, <2>2 DEF Once
  <2>4. home[j] # None
    BY <1>1, <1>3, <1>5 DEF Once
  <2> QED BY <1>1, <1>6, <1>7, <2>1, <2>3, <2>4 DEF Once
<1>9. Emptied'
  <2>1. ~Stopping
    BY <1>1, <1>3 DEF Emptied
  <2> QED BY <1>6, <2>1 DEF Emptied, Stopping
<1>10. Counted'
  <2>1. Held(inst) = ToSet(s)
    BY <1>1, <1>2, <1>3, HeldBy
  <2>2. \A x : x \in Held(inst)' <=> x \in ToSet(Tail(s)) \/ x = j
    <3>1. \A x : x \in Held(inst)' <=> x \in ToSet(queue'[inst]) \/
                    \E v \in Jobs : of'[v] = inst /\ job'[v] # None /\ x = job'[v]
      BY <1>6 DEF Held
    <3> QED BY <1>1, <1>5, <1>6, <3>1
  <2>3. Held(inst)' = Held(inst)
    BY <1>5, <2>1, <2>2
  <2> QED BY <1>6, <2>3 DEF Counted, Stopping
<1> QED BY <1>8, <1>9, <1>10

(* The worker is done with its job: its nonces are given back, and never those of a  *)
(* job that a stop has cleared.                                                       *)
LEMMA FinishCap ==
  ASSUME CapInv, QuietInv', NEW w \in Jobs, pc[w] \in {"poll", "work", "unwind"}, Finish(w),
         UNCHANGED <<inst, queue, home, of, stop>>, \A v \in Jobs : v # w => pc'[v] = pc[v]
  PROVE  CapInv'
<1> USE QueueAssumption DEF CapInv
<1>1. /\ QTypes /\ inst \in Jobs /\ inst # None /\ of[w] = inst
      /\ \A v \in Jobs : Alive(v) => v = w
  <2>1. Alive(w)
    BY DEF Alive
  <2> QED BY <2>1, WorkerContext DEF QuietInv
<1>2. job[w] \in Jobs /\ job[w] # None /\ \A v \in Jobs : v # w => job[v] = None
  <2>1. \A v \in Jobs : job[v] # None => Alive(v)
    BY DEF Once, Alive
  <2> QED BY <1>1, <2>1 DEF QTypes, InHand
<1>3. \A v \in Jobs : job'[v] = None
  BY <1>1, <1>2 DEF Finish, QTypes, WorkerTypes
<1>4. PICK n \in Nat : n = total[inst]
  BY <1>1 DEF QTypes, QueueTypes
<1>5. PICK k \in Nat : k = Size[job[w]]
  BY <1>2
<1>6. /\ total'[inst] = Max({0, n - k})
      /\ \A q \in Jobs : q # inst => total'[q] = total[q]
  BY <1>1, <1>4, <1>5 DEF Finish, QTypes, QueueTypes
<1>7. Once'
  BY <1>3 DEF Once
<1>8. Stopping' <=> Stopping
  BY DEF Stopping
<1>9. Emptied'
  <2>1. ASSUME Stopping PROVE total'[inst] = 0
    <3>1. n = 0
      BY <1>1, <1>4, <2>1 DEF Emptied
    <3> QED BY <1>6, <3>1, MaxOfTwo
  <2> QED BY <1>1, <1>6, <1>8, <2>1 DEF Emptied
<1>10. Counted'
  <2> SUFFICES ASSUME ~Stopping, NEW T \in SUBSET Jobs, T = Held(inst)'
               PROVE  total'[inst] = NoncesOf(T) /\ total'[inst] <= Cap
    BY <1>8 DEF Counted
  <2>1. T = ToSet(queue[inst])
    BY <1>3 DEF Held
  <2>2. PICK U \in SUBSET Jobs : U = Held(inst)
    BY <1>1, HeldBy
  <2>3. U = T \cup {job[w]} /\ job[w] \notin T
    BY <1>1, <1>2, <2>1, <2>2, HeldBy
  <2>4. n = NoncesOf(U) /\ n <= Cap
    BY <1>1, <1>4, <2>2 DEF Counted
  <2>5. NoncesOf(U) = k + NoncesOf(T) /\ NoncesOf(T) \in Nat
    <3>1. job[w] \in U /\ U \ {job[w]} = T
      BY <2>3
    <3> QED BY <1>5, <3>1, NoncesOfJobs
  <2>6. PICK m \in Nat : m = NoncesOf(T)
    BY <2>5
  <2>7. n - k = m /\ m <= Cap
    BY <2>4, <2>5, <2>6
  <2>8. total'[inst] = m
    BY <1>6, <2>7, MaxOfTwo
  <2> QED BY <2>6, <2>7, <2>8
<1> QED BY <1>7, <1>9, <1>10

LEMMA WorkerCap ==
  ASSUME CapInv, NEW w \in Jobs, WorkerStep(w) PROVE CapInv'
<1>1. QuietInv' /\ QTypes
  BY WorkerStepQuiet DEF CapInv, QuietInv
<1>2. CASE Take(w)
  BY <1>1, <1>2, TakeCap
<1>3. CASE WorkerStarts(w) \/ IdleExit(w) \/ PollEnds(w) \/ CancelWork(w)
  <2>1. UNCHANGED <<inst, queue, total, home, of, job, stop>>
    BY <1>3 DEF WorkerStarts, IdleExit, PollEnds, CancelWork, queueVars, stopVars
  <2>2. ASSUME NEW v \in Jobs, pc[v] \in {"poll", "work", "unwind"}
        PROVE  pc'[v] \in {"poll", "work", "unwind"}
    BY <1>1, <1>3, <2>2
       DEF WorkerStarts, IdleExit, PollEnds, CancelWork, LoopHead, Leaves, QTypes, WorkerTypes
  <2> QED BY <1>1, <2>1, <2>2, CapFrame DEF Stopping
<1>4. CASE PollExit(w) \/ Complete(w) \/ Fail(w) \/ Unwound(w)
  <2>1. /\ pc[w] \in {"poll", "work", "unwind"} /\ Finish(w)
        /\ UNCHANGED <<inst, queue, home, of, stop>>
    BY <1>4 DEF PollExit, Complete, Fail, Unwound, stopVars
  <2>2. LoopHead(w) \/ Leaves(w)
    BY <1>4 DEF PollExit, Complete, Fail, Unwound
  <2> QED BY <1>1, <2>1, <2>2, FinishCap, LoopHeadFacts
<1> QED BY <1>2, <1>3, <1>4 DEF WorkerStep

(* A stop goes on, or it is over and the singleton is forgotten. *)
LEMMA StopGoesOn ==
  ASSUME QTypes, NEW s \in Stops, StopBegins(s) \/ StopNothing(s) \/ StopStep(s)
  PROVE  /\ UNCHANGED <<home, pc, of, job>> /\ inst' \in {inst, None}
         /\ inst' = None \/ stop'[s] \notin {"idle", "over"}
<1>1. StopTypes
  BY DEF QTypes
<1>2. UNCHANGED <<home, pc, of, job>> /\ inst' \in {inst, None}
  BY DEF StopBegins, StopNothing, StopStep, WorkerStopped, SendsCancelled, CallbacksStopped,
     StopCallbacks, ClearCallbacks, workerVars, queueVars
<1>3. inst' = None \/ stop'[s] \notin {"idle", "over"}
  <2>1. CASE StopNothing(s)
    BY <2>1 DEF StopNothing, queueVars
  <2>2. CASE SendsCancelled(s)
    BY <1>1, <2>2 DEF SendsCancelled, At, StopTypes
  <2>3. CASE StopCallbacks(s) \/ ClearCallbacks(s) \/ (At(s, "over", None) /\ inst' = None)
    BY <1>1, <2>3 DEF StopCallbacks, ClearCallbacks, StopDispatcher, At, StopTypes
  <2>4. ASSUME NEW w, At(s, "worker", w) PROVE stop'[s] \notin {"idle", "over"}
    BY <1>1, <2>4 DEF At, StopTypes
  <2>5. CASE StopBegins(s)
    BY <2>3, <2>4, <2>5 DEF StopBegins
  <2>6. CASE WorkerStopped(s) \/ CallbacksStopped(s)
    BY <2>3, <2>6 DEF WorkerStopped, CallbacksStopped
  <2> QED BY <2>1, <2>2, <2>5, <2>6 DEF StopStep
<1> QED BY <1>2, <1>3

(* A stop empties the instance, and forgets it in the end. *)
LEMMA StopCap ==
  ASSUME CapInv, NEW s \in Stops, StopBegins(s) \/ StopNothing(s) \/ StopStep(s) PROVE CapInv'
<1> USE QueueAssumption DEF CapInv
<1>1. QuietInv' /\ QTypes /\ StopTypes /\ StopTypes'
  BY StopBeginsQuiet, StopStepQuiet DEF QuietInv, QTypes
<1>2. UNCHANGED <<home, pc, of, job>> /\ inst' \in {inst, None}
  BY <1>1, StopGoesOn
<1>3. inst' = None \/ stop'[s] \notin {"idle", "over"}
  BY <1>1, StopGoesOn
<1>4. Counted'
  BY <1>3 DEF Counted, Stopping
<1>5. CASE StopBegins(s)
  <2>1. /\ inst \in Jobs /\ inst # None
        /\ queue' = [queue EXCEPT ![inst] = <<>>] /\ total' = [total EXCEPT ![inst] = 0]
    BY <1>1, <1>5 DEF StopBegins, Cleared, QTypes, QueueTypes, JobOrNone
  <2>2. /\ queue'[inst] = <<>> /\ total'[inst] = 0
        /\ \A q \in Jobs : q # inst => queue'[q] = queue[q] /\ total'[q] = total[q]
    BY <1>1, <2>1 DEF QTypes, QueueTypes
  <2>3. \A q \in Jobs : total'[q] = 0 /\ queue'[q] = <<>>
    BY <2>2 DEF Emptied
  <2>4. \A q \in Jobs : ToSet(queue'[q]) = {} /\ Len(queue'[q]) = 0
    BY <2>3, EmptyDeque
  <2>5. Once'
    <3>1. \A q \in Jobs : \A i \in 1..Len(queue'[q]) : FALSE
      BY <2>4
    <3>2. ASSUME NEW w \in Jobs, job'[w] # None
          PROVE  /\ pc'[w] \in {"poll", "work", "unwind"} /\ home'[job'[w]] # None
                 /\ of'[w] \in Jobs
      BY <1>1, <1>2, <3>2 DEF Once, QTypes, InHand, Alive
    <3> QED BY <2>4, <3>1, <3>2 DEF Once
  <2>6. Emptied'
    BY <2>3 DEF Emptied
  <2> QED BY <1>1, <1>4, <2>5, <2>6
<1>6. CASE StopNothing(s) \/ StopStep(s)
  <2>1. UNCHANGED <<queue, total>> /\ (inst = None \/ Stopping)
    BY <1>6 DEF StopNothing, StopStep, WorkerStopped, SendsCancelled, CallbacksStopped, Stopping, queueVars
  <2>2. \A q \in Jobs : total'[q] = 0 /\ queue'[q] = <<>>
    BY <2>1 DEF Emptied
  <2>3. Once'
    BY <1>2, <2>1 DEF Once
  <2>4. Emptied'
    BY <2>2 DEF Emptied
  <2> QED BY <1>1, <1>4, <2>3, <2>4
<1> QED BY <1>5, <1>6

LEMMA CapStep ==
  ASSUME Overlap = FALSE PROVE CapInv /\ [Next]_vars => CapInv'
<1> SUFFICES ASSUME CapInv, [Next]_vars PROVE CapInv'
  OBVIOUS
<1>1. ASSUME NEW j \in Jobs, CallbackStep(j) \/ SendStep(j) PROVE CapInv'
  <2>1. QuietInv'
    BY <1>1, CallbackQuiet DEF CapInv
  <2>2. UNCHANGED <<inst, queue, total, home, of, job, pc, stop>>
    BY <1>1 DEF CallbackStep, SendStep, Dispatch, DispatcherExits, SendBegins, SendSucceeds, SendFails,
                CbFrame, queueVars, workerVars, stopVars
  <2> QED BY <2>1, <2>2, CapFrame DEF Stopping
<1>2. ASSUME NEW j \in Jobs, Generate(j) \/ WorkerStep(j) PROVE CapInv'
  BY <1>2, GenerateCap, WorkerCap
<1>3. ASSUME NEW s \in Stops, StopBegins(s) \/ StopNothing(s) \/ StopStep(s) PROVE CapInv'
  BY <1>3, StopCap
<1>4. CASE Mining \/ UNCHANGED vars
  <2>1. UNCHANGED <<inst, queue, total, home, of, job, pc, stop>>
    BY <1>4 DEF Mining, vars, queueVars, workerVars, stopVars
  <2>2. QuietInv'
    BY <1>4, QuietStep DEF CapInv, Next
  <2> QED BY <2>1, <2>2, CapFrame DEF Stopping
<1> QED BY <1>1, <1>2, <1>3, <1>4 DEF Next

(* When no request is accepted while a /stop is unanswered, the counter of nonces is  *)
(* the sum over the jobs that are queued or worked on, and never above the cap: the    *)
(* clamp of the finally block hides no job's nonces and no nonces stay behind.         *)
THEOREM CapHolds == ASSUME Overlap = FALSE PROVE Spec => []CapCounts
<1>1. Spec => []CapInv
  <2>1. CapInv /\ [Next]_vars => CapInv'
    BY CapStep
  <2> QED BY <2>1, CapInit, PTL DEF Spec
<1>2. CapInv => CapCounts
  <2> SUFFICES ASSUME CapInv, inst # None, ~Stopping
               PROVE  total[inst] = SumOf(Size, Held(inst)) /\ total[inst] <= Cap
    BY DEF CapCounts, SumOf
  <2>1. PICK T \in SUBSET Jobs : T = Held(inst)
    BY HeldBy
  <2> QED BY <2>1 DEF CapInv, Counted, NoncesOf
<1> QED BY <1>1, <1>2, PTL

--------------------------------------------------------------------------------
(* The abstract store, when nothing is accepted during a /stop. *)

(* Who has not been accepted started nothing. *)
Unstarted == \A j \in Jobs : home[j] = None => pc[j] = "none" /\ ~cancelled[j]

(* Without a stop nothing makes the worker leave a job. *)
Undisturbed ==
  ~Stopping => \A w \in Jobs : Alive(w) => ~cancelled[w] /\ pc[w] # "unwind" /\ ~stopEvent[of[w]]

(* What the singleton holds has its record there. *)
Filed ==
  inst # None /\ ~Stopping =>
    /\ \A j \in ToSet(queue[inst]) : home[j] = inst /\ result[j] = "queued"
    /\ \A w \in Jobs : job[w] # None => home[job[w]] = inst /\ result[job[w]] = "running"

(* An instance that is gone has no records. *)
Forgotten == \A j \in Jobs : home[j] # None /\ home[j] # inst => result[j] = "none"

StoreInv == CapInv /\ Unstarted /\ Undisturbed /\ Filed /\ Forgotten

(* The refinement mapping. *)
Line == IF inst = None THEN <<>> ELSE queue[inst]
Running == {job[w] : w \in {v \in Jobs : job[v] # None /\ ~Stopping}}
RecordOf(j) == IF home[j] = None THEN "new" ELSE IF Visible(j) THEN result[j] ELSE "gone"

LEMMA StoreInit == Init => StoreInv
<1> SUFFICES ASSUME Init PROVE StoreInv
  OBVIOUS
<1>1. /\ inst = None /\ \A j \in Jobs : home[j] = None /\ pc[j] = "none" /\ ~cancelled[j]
  BY DEF Init
<1>2. Unstarted /\ Undisturbed /\ Filed /\ Forgotten
  BY <1>1 DEF Unstarted, Undisturbed, Filed, Forgotten, Alive
<1> QED BY <1>2, CapInit DEF StoreInv

(* Who has a job is the one worker that is alive. *)
LEMMA WhoWorks ==
  ASSUME CapInv
  PROVE  /\ \A w \in Jobs : job[w] # None => Alive(w) /\ inst # None /\ of[w] = inst /\ job[w] \in Jobs
         /\ \A v, w \in Jobs : Alive(v) /\ Alive(w) => v = w
<1>1. \A w \in Jobs : job[w] # None => Alive(w)
  BY QueueAssumption DEF CapInv, Once, Alive
<1>2. \A w \in Jobs : job[w] \in JobOrNone
  BY DEF CapInv, QuietInv, QTypes, WorkerTypes
<1> QED BY <1>1, <1>2 DEF CapInv, QuietInv, OneWorker, JobOrNone

(* Nothing is held while the store is torn down, and nothing can be pulled. *)
NothingHeld == Line = <<>> /\ Running = {} /\ \A j \in Jobs : ~Visible(j)

LEMMA LetGo == StoreInv /\ (Stopping \/ inst = None) => NothingHeld
<1> SUFFICES ASSUME StoreInv, Stopping \/ inst = None PROVE NothingHeld
  OBVIOUS
<1>1. Line = <<>>
  <2>1. inst \in JobOrNone
    BY DEF StoreInv, CapInv, QuietInv, QTypes, QueueTypes
  <2> QED BY <2>1 DEF Line, StoreInv, CapInv, Emptied, JobOrNone
<1>2. Running = {}
  <2>1. \A w \in Jobs : ~(job[w] # None /\ ~Stopping)
    BY WhoWorks DEF StoreInv
  <2> QED BY <2>1 DEF Running
<1>3. \A j \in Jobs : ~Visible(j)
  BY DEF Visible, StoreInv, CapInv, QuietInv, Erased
<1> QED BY <1>1, <1>2, <1>3 DEF NothingHeld

LEMMA LetGoNext == (StoreInv /\ (Stopping \/ inst = None) => NothingHeld)'
  BY LetGo, PTL

LEMMA RunningOne ==
  ASSUME CapInv
  PROVE  /\ \A w \in Jobs : job[w] # None /\ ~Stopping => Running = {job[w]}
         /\ (\A w \in Jobs : job[w] = None) => Running = {}
         /\ inst # None /\ ~Stopping => Held(inst) = ToSet(Line) \cup Running
<1>1. ASSUME NEW w \in Jobs, job[w] # None, ~Stopping PROVE Running = {job[w]}
  <2>1. \A v \in Jobs : job[v] # None => v = w
    BY <1>1, WhoWorks
  <2> QED BY <1>1, <2>1 DEF Running
<1>2. (\A w \in Jobs : job[w] = None) => Running = {}
  BY DEF Running
<1>3. ASSUME inst # None, ~Stopping PROVE Held(inst) = ToSet(Line) \cup Running
  <2>1. \A w \in Jobs : job[w] # None => of[w] = inst
    BY WhoWorks
  <2>2. Running = {job[w] : w \in {v \in Jobs : of[v] = inst /\ job[v] # None}}
    BY <1>3, <2>1 DEF Running
  <2>3. Line = queue[inst]
    BY <1>3 DEF Line
  <2> QED BY <2>2, <2>3 DEF Held
<1> QED BY <1>1, <1>2, <1>3

LEMMA HeldNext ==
  (CapInv /\ inst # None /\ ~Stopping =>
     Held(inst) = ToSet(Line) \cup Running /\ \E T \in SUBSET Jobs : T = Held(inst))'
<1>1. CapInv /\ inst # None /\ ~Stopping =>
        Held(inst) = ToSet(Line) \cup Running /\ \E T \in SUBSET Jobs : T = Held(inst)
  BY RunningOne, HeldBy
<1> QED BY <1>1, PTL

(* The invariant, request by request and step by step. *)
LEMMA GenerateStore ==
  ASSUME Overlap = FALSE, StoreInv, NEW j \in Jobs, Generate(j) PROVE StoreInv'
<1> USE QueueAssumption DEF StoreInv
<1> DEFINE q == IF inst = None THEN j ELSE inst
<1>1. /\ CapInv' /\ QTypes /\ q \in Jobs /\ inst' = q /\ home[j] = None /\ ~Stopping
      /\ UNCHANGED <<job, cancelled, stop>>
  BY GenerateCap DEF CapInv, QuietInv, QTypes, QueueTypes, JobOrNone, Generate, stopVars
<1>2. /\ queue[q] \in Seq(Jobs) /\ (inst = None => queue[q] = <<>>) /\ ToSet(queue[q]) \subseteq Jobs
  <2>1. queue[q] \in Seq(Jobs) /\ (inst = None => queue[q] = <<>>)
    BY <1>1 DEF CapInv, Emptied, QTypes, QueueTypes
  <2> QED BY <2>1, QueueMembers
<1>3. \A w \in Jobs : job[w] # None => inst # None /\ job[w] \in Jobs
  BY WhoWorks
<1>4. /\ \A k \in ToSet(queue[q]) : home[k] = q /\ result[k] = "queued"
      /\ \A w \in Jobs : job[w] # None => home[job[w]] = q /\ result[job[w]] = "running"
  <2>1. CASE inst = None
    BY <1>2, <1>3, <2>1, EmptyDeque
  <2>2. CASE inst # None
    BY <1>1, <2>2 DEF Filed
  <2> QED BY <2>1, <2>2
<1>5. CASE UNCHANGED <<total, result, home, queue, stopEvent, task, pc, of>>
  <2>1. Unstarted' /\ Undisturbed' /\ Forgotten'
    BY <1>1, <1>5 DEF Unstarted, Undisturbed, Forgotten, Alive, Stopping
  <2>2. Filed'
    BY <1>1, <1>4, <1>5 DEF Filed
  <2> QED BY <1>1, <2>1, <2>2
<1>6. CASE /\ result' = [result EXCEPT ![j] = "queued"]
           /\ home' = [home EXCEPT ![j] = q]
           /\ queue' = [queue EXCEPT ![q] = Append(@, j)]
           /\ ensure_worker_running(q, j)
  <2>1. /\ home'[j] = q /\ result'[j] = "queued" /\ queue'[q] = Append(queue[q], j)
        /\ \A k \in Jobs : k # j => home'[k] = home[k] /\ result'[k] = result[k]
    BY <1>1, <1>6 DEF QTypes, QueueTypes
  <2>2. ToSet(queue'[q]) = ToSet(queue[q]) \cup {j}
    BY <1>2, <2>1, QueueMembers
  <2>3. Filed'
    <3>1. \A k \in ToSet(queue'[q]) : home'[k] = q /\ result'[k] = "queued"
      BY <1>1, <1>2, <1>4, <2>1, <2>2
    <3>2. \A w \in Jobs : job[w] # None => home'[job[w]] = q /\ result'[job[w]] = "running"
      BY <1>1, <1>3, <1>4, <2>1
    <3> QED BY <1>1, <3>1, <3>2 DEF Filed
  <2>4. Forgotten'
    BY <1>1, <2>1 DEF Forgotten
  <2>5. Unstarted' /\ Undisturbed'
    <3>1. CASE UNCHANGED <<stopEvent, task, pc, of>>
      BY <1>1, <2>1, <3>1 DEF Unstarted, Undisturbed, Alive, Stopping
    <3>2. CASE /\ ~Alive(task[q]) /\ stopEvent' = [stopEvent EXCEPT ![q] = FALSE]
               /\ pc' = [pc EXCEPT ![j] = "new"] /\ of' = [of EXCEPT ![j] = q]
      <4>1. \A w \in Jobs : ~Alive(w)
        BY <3>2 DEF CapInv, QuietInv, OneWorker
      <4>2. pc'[j] = "new" /\ of'[j] = q /\ stopEvent'[q] = FALSE /\ \A w \in Jobs : w # j => pc'[w] = pc[w]
        BY <1>1, <3>2 DEF QTypes, QueueTypes, WorkerTypes
      <4>3. \A w \in Jobs : Alive(w)' => w = j
        BY <4>1, <4>2 DEF Alive
      <4>4. ~cancelled[j]
        BY <1>1 DEF Unstarted
      <4>5. Unstarted'
        BY <1>1, <2>1, <4>2 DEF Unstarted
      <4>6. Undisturbed'
        BY <1>1, <4>2, <4>3, <4>4 DEF Undisturbed
      <4> QED BY <4>5, <4>6
    <3> QED BY <1>6, <3>1, <3>2 DEF ensure_worker_running
  <2> QED BY <1>1, <2>3, <2>4, <2>5
<1> QED BY <1>5, <1>6 DEF Generate

(* The record of w's job gets the status, some that are settled go, no other changes. *)
LEMMA RecordSettles ==
  ASSUME QTypes, NEW w \in Jobs, NEW status \in Settled, Record(w, status), job[w] \in Jobs,
         result[job[w]] = "running"
  PROVE  /\ result'[job[w]] = status
         /\ \E old \in SUBSET {j \in Jobs : home[j] = of[w] /\ result[j] \in Settled} :
              \A j \in Jobs : j # job[w] => result'[j] = IF j \in old THEN "none" ELSE result[j]
<1>1. result \in [Jobs -> {"none", "queued", "running"} \cup Settled]
  BY DEF QTypes, QueueTypes
<1> DEFINE known == [result EXCEPT ![job[w]] = IF @ = "none" THEN @ ELSE status]
<1>2. known[job[w]] = status /\ \A j \in Jobs : j # job[w] => known[j] = result[j]
  BY <1>1
<1>3. PICK old \in SUBSET {j \in Jobs : home[j] = of[w] /\ result[j] \in Settled} :
        result' = [j \in Jobs |-> IF j \in old THEN "none" ELSE known[j]]
  BY DEF Record
<1>4. job[w] \notin old
  BY <1>3 DEF Settled
<1> HIDE DEF known
<1> QED BY <1>2, <1>3, <1>4

(* Without a stop the worker starts, takes a job, waits for a round or settles the job. *)
LEMMA UndisturbedStep ==
  ASSUME StoreInv, NEW w \in Jobs, WorkerStep(w), ~Stopping
  PROVE  \/ WorkerStarts(w) \/ PollEnds(w)
         \/ Take(w) /\ \A v \in Jobs : job[v] = None
         \/ /\ \E status \in Settled : Record(w, status)
            /\ Finish(w) /\ UNCHANGED queue
            /\ job[w] \in Jobs /\ job[w] # None
<1>1. Alive(w)
  BY QueueAssumption
     DEF WorkerStep, WorkerStarts, Take, IdleExit, PollEnds, PollExit, Complete, Fail,
         CancelWork, Unwound, Alive
<1>2. ~cancelled[w] /\ pc[w] # "unwind" /\ ~stopEvent[of[w]]
  BY <1>1 DEF StoreInv, Undisturbed
<1>3. CASE Take(w)
  <2>1. pc[w] = "get"
    BY <1>3 DEF Take
  <2>2. \A v \in Jobs : job[v] # None => v = w /\ pc[v] # "get"
    BY <1>1, WhoWorks DEF StoreInv, CapInv, Once
  <2> QED BY <1>3, <2>1, <2>2
<1>4. CASE Complete(w) \/ Fail(w)
  <2>1. job[w] \in Jobs /\ job[w] # None
    BY <1>4, QueueAssumption DEF Complete, Fail, StoreInv, CapInv, QuietInv, QTypes, InHand
  <2>2. "completed" \in Settled /\ "failed" \in Settled
    BY DEF Settled
  <2>3. (Record(w, "completed") \/ Record(w, "failed")) /\ Finish(w) /\ UNCHANGED queue
    BY <1>4 DEF Complete, Fail
  <2> QED BY <2>1, <2>2, <2>3
<1> QED BY <1>2, <1>3, <1>4
        DEF WorkerStep, IdleExit, PollExit, CancelWork, Unwound

LEMMA WorkerStore ==
  ASSUME StoreInv, NEW w \in Jobs, WorkerStep(w) PROVE StoreInv'
<1> USE QueueAssumption DEF StoreInv
<1>1. CapInv' /\ QTypes /\ QuietInv
  BY WorkerCap DEF CapInv, QuietInv
<1>2. /\ UNCHANGED <<inst, home, stop, of, stopEvent>> /\ (Stopping' <=> Stopping)
      /\ Alive(w) /\ inst # None /\ inst \in Jobs /\ of[w] = inst
  <2>1. UNCHANGED <<inst, home, stop, of, stopEvent>> /\ Alive(w)
    BY DEF WorkerStep, WorkerStarts, Take, IdleExit, PollEnds, PollExit, Complete, Fail,
       CancelWork, Unwound, queueVars, stopVars, Alive
  <2> QED BY <1>1, <2>1, WorkerContext DEF Stopping
<1>3. /\ \A v \in Jobs : v # w => pc'[v] = pc[v] /\ cancelled'[v] = cancelled[v]
      /\ cancelled'[w] => cancelled[w]
  BY <1>1, LoopHeadFacts
     DEF WorkerStep, WorkerStarts, Take, IdleExit, PollEnds, PollExit, Complete, Fail,
         CancelWork, Unwound, QTypes, WorkerTypes
<1>4. \A j \in Jobs : result[j] = "none" => result'[j] = "none"
  <2>1. CASE Take(w)
    BY <1>1, <2>1 DEF Take, QTypes, QueueTypes
  <2>2. CASE UNCHANGED result
    BY <2>2
  <2>3. CASE \E status \in Settled : Record(w, status)
    BY <1>1, <2>3, RecordFacts
  <2>4. "completed" \in Settled /\ "failed" \in Settled
    BY DEF Settled
  <2> QED BY <2>1, <2>2, <2>3, <2>4
          DEF WorkerStep, WorkerStarts, IdleExit, PollEnds, PollExit, Complete, Fail, CancelWork,
              Unwound, queueVars
<1>5. Unstarted'
  <2>1. home[w] # None
    BY <1>2 DEF Unstarted, Alive
  <2> QED BY <1>2, <1>3, <2>1 DEF Unstarted
<1>6. Forgotten'
  BY <1>2, <1>4 DEF Forgotten
<1>7. CASE Stopping
  BY <1>1, <1>2, <1>5, <1>6, <1>7 DEF Undisturbed, Filed
<1>8. CASE ~Stopping
  <2>1. \A v \in Jobs : Alive(v)' => Alive(v)
    BY <1>2, <1>3 DEF Alive
  <2>2. ~cancelled[w] /\ pc[w] # "unwind" /\ ~stopEvent[inst]
    BY <1>2, <1>8 DEF Undisturbed
  <2>3. pc'[w] # "unwind"
    BY <1>1, <2>2, LoopHeadFacts
       DEF WorkerStep, WorkerStarts, Take, IdleExit, PollEnds, PollExit, Complete, Fail,
           CancelWork, Unwound, QTypes, WorkerTypes
  <2>4. Undisturbed'
    BY <1>2, <1>3, <1>8, <2>1, <2>2, <2>3 DEF Undisturbed
  <2>5. queue[inst] \in Seq(Jobs) /\ ToSet(queue[inst]) \subseteq Jobs
    BY <1>1, <1>2, QueueMembers DEF QTypes, QueueTypes
  <2>6. /\ \A j \in ToSet(queue[inst]) : home[j] = inst /\ result[j] = "queued"
        /\ \A v \in Jobs : job[v] # None => home[job[v]] = inst /\ result[job[v]] = "running"
    BY <1>2, <1>8 DEF Filed
  <2>7. CASE WorkerStarts(w) \/ PollEnds(w)
    <3>1. UNCHANGED <<queue, result, job>>
      BY <2>7 DEF WorkerStarts, PollEnds, queueVars
    <3> QED BY <1>1, <1>2, <1>5, <1>6, <2>4, <2>6, <3>1 DEF Filed
  <2>8. CASE Take(w) /\ \A v \in Jobs : job[v] = None
    <3>1. PICK s \in Seq(Jobs) : s = queue[inst] /\ s # <<>>
      BY <1>2, <2>5, <2>8 DEF Take
    <3>2. Head(s) \in Jobs /\ ToSet(s) = {Head(s)} \cup ToSet(Tail(s))
      BY <3>1, QueueMembers
    <3>3. /\ queue'[inst] = Tail(s) /\ job'[w] = Head(s)
          /\ \A v \in Jobs : v # w => job'[v] = None
          /\ result'[Head(s)] = "running" /\ \A j \in Jobs : j # Head(s) => result'[j] = result[j]
      BY <1>1, <1>2, <2>6, <2>8, <3>1, <3>2 DEF Take, QTypes, QueueTypes, WorkerTypes
    <3>4. Head(s) \notin ToSet(Tail(s))
      BY <1>1, <1>2, <3>2, <3>3, ZenonT(40) DEF CapInv, Once
    <3>5. Filed'
      BY <1>2, <2>5, <2>6, <3>1, <3>2, <3>3, <3>4, SMTT(30) DEF Filed
    <3> QED BY <1>1, <1>5, <1>6, <2>4, <3>5
  <2>9. CASE /\ \E status \in Settled : Record(w, status)
             /\ Finish(w) /\ UNCHANGED queue
             /\ job[w] \in Jobs /\ job[w] # None
    <3>1. \A v \in Jobs : job'[v] = None
      BY <1>1, <1>2, <2>9, WhoWorks DEF Finish, QTypes, WorkerTypes
    <3>2. PICK status \in Settled : Record(w, status)
      BY <2>9
    <3>3. PICK old \in SUBSET {j \in Jobs : home[j] = of[w] /\ result[j] \in Settled} :
            \A j \in Jobs : j # job[w] => result'[j] = IF j \in old THEN "none" ELSE result[j]
      BY <1>1, <2>6, <2>9, <3>2, RecordSettles
    <3>4. job[w] \notin ToSet(queue[inst])
      BY <1>2, <2>9 DEF CapInv, Once
    <3>5. \A j \in ToSet(queue[inst]) : result'[j] = "queued"
      <4>1. \A j \in ToSet(queue[inst]) : j \notin old
        BY <2>6, <3>3 DEF Settled
      <4> QED BY <2>5, <2>6, <3>3, <3>4, <4>1
    <3>6. Filed'
      BY <1>2, <2>6, <2>9, <3>1, <3>5 DEF Filed
    <3> QED BY <1>1, <1>5, <1>6, <2>4, <3>6
  <2> QED BY <1>8, <2>7, <2>8, <2>9, UndisturbedStep
<1> QED BY <1>7, <1>8

LEMMA StopStore ==
  ASSUME StoreInv, NEW s \in Stops, StopBegins(s) \/ StopNothing(s) \/ StopStep(s)
  PROVE  StoreInv' /\ UNCHANGED home /\ (Stopping' \/ inst' = None)
<1> USE QueueAssumption DEF StoreInv
<1>1. CapInv' /\ QuietInv /\ QuietInv' /\ QTypes
  BY StopCap DEF CapInv, QuietInv
<1>2. /\ UNCHANGED <<home, pc, of, job>> /\ inst' \in {inst, None}
      /\ inst' = None \/ stop'[s] \notin {"idle", "over"}
  BY <1>1, StopGoesOn
<1>3. Stopping' \/ inst' = None
  BY <1>2 DEF Stopping
<1>4. Filed'
  BY <1>3 DEF Filed
<1>5. Undisturbed'
  <2>1. inst' = None => \A w \in Jobs : ~Alive(w)'
    BY <1>1 DEF QuietInv, OneWorker
  <2> QED BY <1>3, <2>1 DEF Undisturbed
<1>6. Unstarted'
  <2>1. CASE UNCHANGED cancelled
    BY <1>2, <2>1 DEF Unstarted
  <2>2. ASSUME NEW w \in Jobs, Alive(w), cancelled' = [cancelled EXCEPT ![w] = TRUE] PROVE Unstarted'
    <3>1. home[w] # None
      BY <2>2 DEF Unstarted, Alive
    <3>2. \A v \in Jobs : v # w => cancelled'[v] = cancelled[v]
      BY <1>1, <2>2 DEF QTypes, WorkerTypes
    <3> QED BY <1>2, <3>1, <3>2 DEF Unstarted
  <2>3. CASE StopBegins(s)
    <3>1. inst \in Jobs /\ task[inst] \in JobOrNone
      BY <1>1, <2>3 DEF StopBegins, QTypes, QueueTypes, JobOrNone
    <3>2. Alive(task[inst]) => task[inst] \in Jobs
      BY <3>1 DEF Alive, JobOrNone
    <3> QED BY <2>1, <2>2, <2>3, <3>2 DEF StopBegins
  <2>4. CASE StopNothing(s) \/ StopStep(s)
    BY <2>1, <2>4 DEF StopNothing, StopStep, WorkerStopped, SendsCancelled, CallbacksStopped, workerVars
  <2> QED BY <2>3, <2>4
<1>7. Forgotten'
  <2>1. \A j \in Jobs : result[j] = "none" => result'[j] = "none"
    BY DEF StopBegins, Cleared, StopNothing, StopStep, WorkerStopped, SendsCancelled, CallbacksStopped, queueVars
  <2>2. ASSUME NEW j \in Jobs, home[j] # None, home[j] = inst, inst' = None PROVE result'[j] = "none"
    <3>1. CASE StopBegins(s)
      BY <2>2, <3>1 DEF StopBegins, Cleared
    <3>2. CASE StopNothing(s)
      BY <2>2, <3>2 DEF StopNothing
    <3>3. CASE StopStep(s)
      <4>1. Stopping
        BY <3>3 DEF StopStep, WorkerStopped, SendsCancelled, CallbacksStopped, Stopping
      <4> QED BY <1>1, <2>1, <2>2, <4>1 DEF QuietInv, Erased
    <3> QED BY <3>1, <3>2, <3>3
  <2> QED BY <1>2, <2>1, <2>2 DEF Forgotten
<1> QED BY <1>1, <1>2, <1>3, <1>4, <1>5, <1>6, <1>7

(* What the store does not see. *)
storeVars == <<inst, queue, result, home, stopEvent, pc, of, job, cancelled, stop>>

LEMMA UnseenSteps ==
  ASSUME \/ \E j \in Jobs : CallbackStep(j) \/ SendStep(j)
         \/ Mining \/ UNCHANGED vars
  PROVE  UNCHANGED storeVars
<1>1. CASE \E j \in Jobs : CallbackStep(j) \/ SendStep(j)
  BY <1>1 DEF CallbackStep, SendStep, Dispatch, DispatcherExits, SendBegins, SendSucceeds, SendFails,
              CbFrame, queueVars, workerVars, stopVars, storeVars
<1>2. CASE Mining \/ UNCHANGED vars
  BY <1>2 DEF Mining, vars, queueVars, workerVars, stopVars, storeVars
<1> QED BY <1>1, <1>2

LEMMA StoreStep ==
  ASSUME Overlap = FALSE PROVE StoreInv /\ [Next]_vars => StoreInv'
<1> SUFFICES ASSUME StoreInv, [Next]_vars PROVE StoreInv'
  OBVIOUS
<1>1. ASSUME NEW j \in Jobs, Generate(j) \/ WorkerStep(j) PROVE StoreInv'
  BY <1>1, GenerateStore, WorkerStore
<1>2. ASSUME NEW s \in Stops, StopBegins(s) \/ StopNothing(s) \/ StopStep(s) PROVE StoreInv'
  BY <1>2, StopStore
<1>3. CASE UNCHANGED storeVars
  <2>1. CapInv'
    BY CapStep DEF StoreInv
  <2> QED BY <1>3, <2>1
          DEF StoreInv, Unstarted, Undisturbed, Filed, Forgotten, Alive, Stopping, storeVars
<1> QED BY <1>1, <1>2, <1>3, UnseenSteps DEF Next

--------------------------------------------------------------------------------
(* Every step is a step of the store or one it does not see. *)

LEMMA IsClear ==
  ASSUME StoreInv, StoreInv', UNCHANGED home, Stopping' \/ inst' = None
  PROVE  Store!Clear
<1>1. Line' = <<>> /\ Running' = {} /\ \A j \in Jobs : ~Visible(j)'
  BY LetGoNext DEF NothingHeld
<1>2. \A j \in Jobs : RecordOf(j)' = IF RecordOf(j) = "new" THEN "new" ELSE "gone"
  <2>1. \A j \in Jobs : result[j] # "new"
    BY DEF StoreInv, CapInv, QuietInv, QTypes, QueueTypes, Settled
  <2> QED BY <1>1, <2>1 DEF RecordOf
<1> QED BY <1>1, <1>2 DEF Store!Clear, Line, Running, RecordOf

LEMMA IsStutter ==
  ASSUME Line' = Line, Running' = Running, \A j \in Jobs : RecordOf(j)' = RecordOf(j)
  PROVE  UNCHANGED Store!vars
<1>1. [j \in Jobs |-> RecordOf(j)]' = [j \in Jobs |-> RecordOf(j)]
  OBVIOUS
<1> QED BY <1>1 DEF Store!vars, Line, Running, RecordOf

LEMMA GenerateIsAccept ==
  ASSUME Overlap = FALSE, StoreInv, NEW j \in Jobs, Generate(j)
  PROVE  Store!Accept(j) \/ UNCHANGED Store!vars
<1> USE QueueAssumption DEF StoreInv
<1> DEFINE q == IF inst = None THEN j ELSE inst
<1>1. /\ CapInv' /\ QTypes /\ q \in Jobs /\ q # None /\ inst' = q /\ home[j] = None /\ ~Stopping /\ ~Stopping'
      /\ UNCHANGED <<job, stop>>
  BY GenerateCap DEF CapInv, QuietInv, QTypes, QueueTypes, JobOrNone, Generate, stopVars, Stopping
<1>2. Line = queue[q] /\ Line' = queue'[q]
  BY <1>1 DEF Line, CapInv, Emptied
<1>3. Running' = Running
  BY <1>1 DEF Running
<1>4. \A k \in Jobs : home[k] # None => (Visible(k) <=> home[k] = q /\ result[k] # "none")
  BY <1>1 DEF Visible, Forgotten
<1>5. \A k \in Jobs : home'[k] = home[k] /\ result'[k] = result[k] => RecordOf(k)' = RecordOf(k)
  BY <1>1, <1>4 DEF RecordOf, Visible
<1>6. CASE UNCHANGED <<result, home, queue>>
  BY <1>2, <1>3, <1>5, <1>6, IsStutter
<1>7. CASE /\ result' = [result EXCEPT ![j] = "queued"]
           /\ home' = [home EXCEPT ![j] = q]
           /\ queue' = [queue EXCEPT ![q] = Append(@, j)]
  <2>1. /\ home'[j] = q /\ result'[j] = "queued" /\ queue'[q] = Append(queue[q], j)
        /\ \A k \in Jobs : k # j => home'[k] = home[k] /\ result'[k] = result[k]
        /\ queue[q] \in Seq(Jobs)
    BY <1>1, <1>7 DEF QTypes, QueueTypes
  <2>2. /\ RecordOf(j) = "new" /\ RecordOf(j)' = "queued"
        /\ \A k \in Jobs : k # j => RecordOf(k)' = RecordOf(k)
    BY <1>1, <1>5, <2>1 DEF RecordOf, Visible
  <2>3. Line' = Append(Line, j) /\ ToSet(Line') = ToSet(Line) \cup {j}
    BY <1>2, <2>1, QueueMembers
  <2>4. /\ SumOf(Size, ToSet(Line) \cup Running \cup {j}) <= Cap
        /\ ToSet(Line) \cup Running \cup {j} \in SUBSET Jobs
    <3>1. (Held(inst) = ToSet(Line) \cup Running /\ \E T \in SUBSET Jobs : T = Held(inst))'
      BY <1>1, HeldNext
    <3>3. (Held(inst))' = ToSet(Line) \cup Running \cup {j}
      BY <1>3, <2>3, <3>1
    <3>4. (\A T \in SUBSET Jobs : T = Held(inst) => total[inst] = NoncesOf(T) /\ total[inst] <= Cap)'
      BY <1>1 DEF CapInv, Counted
    <3> QED BY <3>1, <3>3, <3>4 DEF NoncesOf
  <2>5. {Line[i] : i \in DOMAIN Line} \cup Running \cup {j}
          \in {S \in SUBSET Jobs : MapThenSumSet(LAMBDA k : Size[k], S) <= Cap}
    BY <2>4 DEF SumOf, ToSet
  <2>6. [k \in Jobs |-> RecordOf(k)]' = [[k \in Jobs |-> RecordOf(k)] EXCEPT ![j] = "queued"]
    BY <2>2
  <2>7. Store!Accept(j)
    BY <1>3, <2>2, <2>3, <2>5, <2>6 DEF Store!Accept, Store!Held, Line, Running, RecordOf
  <2> QED BY <2>7
<1> QED BY <1>6, <1>7 DEF Generate

LEMMA WorkerStepMaps ==
  ASSUME StoreInv, NEW w \in Jobs, WorkerStep(w)
  PROVE  \/ Store!Clear \/ Store!Begin \/ \E status \in Settled : Store!Settle(status)
         \/ UNCHANGED Store!vars
<1> USE QueueAssumption DEF StoreInv
<1>1. StoreInv' /\ CapInv /\ QTypes
  BY WorkerStore DEF CapInv, QuietInv
<1>2. /\ UNCHANGED <<inst, home, stop, of>> /\ (Stopping' <=> Stopping)
      /\ inst # None /\ inst \in Jobs /\ of[w] = inst
  <2>1. UNCHANGED <<inst, home, stop, of>> /\ Alive(w)
    BY DEF WorkerStep, WorkerStarts, Take, IdleExit, PollEnds, PollExit, Complete, Fail,
       CancelWork, Unwound, queueVars, stopVars, Alive
  <2> QED BY <1>1, <2>1, WorkerContext DEF Stopping, CapInv
<1>3. CASE Stopping
  BY <1>1, <1>2, <1>3, IsClear
<1>4. CASE ~Stopping
  <2>1. Line = queue[inst] /\ Line' = queue'[inst] /\ queue[inst] \in Seq(Jobs)
    BY <1>1, <1>2 DEF Line, QTypes, QueueTypes
  <2>2. /\ \A j \in ToSet(queue[inst]) : home[j] = inst /\ result[j] = "queued"
        /\ \A v \in Jobs : job[v] # None => home[job[v]] = inst /\ result[job[v]] = "running"
    BY <1>2, <1>4 DEF Filed
  <2>3. \A j \in Jobs : result'[j] = result[j] => RecordOf(j)' = RecordOf(j)
    BY <1>2 DEF RecordOf, Visible
  <2>4. CASE WorkerStarts(w) \/ PollEnds(w)
    <3>1. UNCHANGED <<queue, result, job>>
      BY <2>4 DEF WorkerStarts, PollEnds, queueVars
    <3>2. Running' = Running
      BY <1>2, <3>1 DEF Running
    <3> QED BY <2>1, <2>3, <3>1, <3>2, IsStutter
  <2>5. CASE Take(w) /\ \A v \in Jobs : job[v] = None
    <3>1. PICK s \in Seq(Jobs) : s = queue[inst] /\ s # <<>>
      BY <1>2, <2>1, <2>5 DEF Take
    <3>2. Head(s) \in Jobs /\ Head(s) \in ToSet(s)
      BY <3>1, QueueMembers
    <3>3. /\ queue'[inst] = Tail(s) /\ job'[w] = Head(s)
          /\ \A v \in Jobs : v # w => job'[v] = None
          /\ result'[Head(s)] = "running" /\ \A j \in Jobs : j # Head(s) => result'[j] = result[j]
      BY <1>1, <1>2, <2>2, <2>5, <3>1, <3>2, SMTT(30) DEF Take, QTypes, QueueTypes, WorkerTypes
    <3>4. Running = {} /\ Running' = {Head(s)}
      BY <1>2, <1>4, <2>5, <3>2, <3>3 DEF Running
    <3>5. /\ RecordOf(Head(s))' = "running"
          /\ \A j \in Jobs : j # Head(s) => RecordOf(j)' = RecordOf(j)
      BY <1>2, <2>2, <2>3, <3>1, <3>2, <3>3 DEF RecordOf, Visible
    <3>6. [j \in Jobs |-> RecordOf(j)]' = [[j \in Jobs |-> RecordOf(j)] EXCEPT ![Head(s)] = "running"]
      BY <3>5
    <3>7. Line = s /\ Line' = Tail(s)
      BY <2>1, <3>1, <3>3
    <3>8. Store!Begin
      <4>1. /\ Running = {} /\ Line # <<>>
            /\ Running' = {Head(Line)} /\ Line' = Tail(Line)
            /\ [j \in Jobs |-> RecordOf(j)]' = [[j \in Jobs |-> RecordOf(j)] EXCEPT ![Head(Line)] = "running"]
        BY <3>1, <3>4, <3>6, <3>7
      <4> QED BY <4>1 DEF Store!Begin, Line, Running, RecordOf
    <3> QED BY <3>8
  <2>6. CASE /\ \E status \in Settled : Record(w, status)
             /\ Finish(w) /\ UNCHANGED queue
             /\ job[w] \in Jobs /\ job[w] # None
    <3>1. \A v \in Jobs : job'[v] = None
      BY <1>1, <1>2, <2>6, WhoWorks DEF Finish, QTypes, WorkerTypes
    <3>2. PICK status \in Settled : Record(w, status)
      BY <2>6
    <3>3. /\ result'[job[w]] = status /\ result[job[w]] = "running" /\ home[job[w]] = inst
          /\ \E old \in SUBSET {j \in Jobs : home[j] = of[w] /\ result[j] \in Settled} :
               \A j \in Jobs : j # job[w] => result'[j] = IF j \in old THEN "none" ELSE result[j]
      BY <1>1, <2>2, <2>6, <3>2, RecordSettles
    <3>4. PICK old \in SUBSET {j \in Jobs : home[j] = of[w] /\ result[j] \in Settled} :
            \A j \in Jobs : j # job[w] => result'[j] = IF j \in old THEN "none" ELSE result[j]
      BY <3>3
    <3>5. Running = {job[w]} /\ Running' = {} /\ Line' = Line
      <4>1. Running = {job[w]}
        BY <1>1, <1>4, <2>6, RunningOne
      <4>2. Running' = {}
        BY <3>1 DEF Running
      <4>3. Line' = Line
        BY <2>1, <2>6
      <4> QED BY <4>1, <4>2, <4>3
    <3>6. \A j \in old : RecordOf(j) \in Settled /\ RecordOf(j)' = "gone" /\ j # job[w]
      BY <1>2, <3>3, <3>4 DEF RecordOf, Visible, Settled
    <3>7. \A j \in Jobs : j = job[w] => RecordOf(j)' = status
      BY <1>2, <2>6, <3>3 DEF RecordOf, Visible, Settled
    <3>8. \A j \in Jobs : RecordOf(j)' = IF j \in Running THEN status
                                         ELSE IF j \in old THEN "gone" ELSE RecordOf(j)
      BY <2>3, <3>4, <3>5, <3>6, <3>7
    <3>9. old \in SUBSET {j \in Jobs : [k \in Jobs |-> RecordOf(k)][j] \in Store!Settled}
      BY <3>6 DEF Settled, Store!Settled
    <3>10. [j \in Jobs |-> RecordOf(j)]' = [j \in Jobs |-> IF j \in Running THEN status
                                                       ELSE IF j \in old THEN "gone"
                                                       ELSE [k \in Jobs |-> RecordOf(k)][j]]
      BY <3>8
    <3>11. Store!Settle(status)
      BY <3>5, <3>9, <3>10 DEF Store!Settle, Line, Running, RecordOf
    <3> QED BY <3>2, <3>11
  <2> QED BY <1>4, <2>4, <2>5, <2>6, UndisturbedStep
<1> QED BY <1>3, <1>4

(* When no request is accepted while a /stop is unanswered, the queue, its worker,     *)
(* failures, cancellations and stops implement the store of JobStore.                 *)
THEOREM ImplementsJobStore == ASSUME Overlap = FALSE PROVE Spec => RefinesJobStore
<1>1. Init => Store!Init
  <2> SUFFICES ASSUME Init PROVE Store!Init
    OBVIOUS
  <2>1. /\ Line = <<>> /\ \A j \in Jobs : RecordOf(j) = "new" /\ job[j] = None
    BY DEF Init, Line, RecordOf
  <2>2. Running = {}
    BY <2>1 DEF Running
  <2>3. [j \in Jobs |-> RecordOf(j)] = [j \in Jobs |-> "new"]
    BY <2>1
  <2> QED BY <2>1, <2>2, <2>3 DEF Store!Init, Line, Running, RecordOf
<1>2. StoreInv /\ [Next]_vars => StoreInv'
  BY StoreStep
<1>3. StoreInv /\ StoreInv' /\ [Next]_vars => [Store!Next]_(Store!vars)
  <2> SUFFICES ASSUME StoreInv, StoreInv', [Next]_vars PROVE [Store!Next]_(Store!vars)
    OBVIOUS
  <2>1. ASSUME NEW j \in Jobs, Generate(j) PROVE Store!Next \/ UNCHANGED Store!vars
    BY <2>1, GenerateIsAccept DEF Store!Next
  <2>2. ASSUME NEW w \in Jobs, WorkerStep(w) PROVE Store!Next \/ UNCHANGED Store!vars
    BY <2>2, WorkerStepMaps DEF Store!Next, Settled, Store!Settled
  <2>3. ASSUME NEW s \in Stops, StopBegins(s) \/ StopNothing(s) \/ StopStep(s) PROVE Store!Next
    <3>1. Store!Clear
      BY <2>3, StopStore, IsClear
    <3> QED BY <3>1 DEF Store!Next
  <2>4. CASE UNCHANGED storeVars
    <3>1. Line' = Line /\ Running' = Running /\ \A j \in Jobs : RecordOf(j)' = RecordOf(j)
      BY <2>4 DEF storeVars, Line, Running, RecordOf, Visible, Stopping
    <3> QED BY <3>1, IsStutter
  <2> QED BY <2>1, <2>2, <2>3, <2>4, UnseenSteps DEF Next
<1> QED BY <1>1, <1>2, <1>3, StoreInit, PTL DEF Spec, RefinesJobStore, Store!Spec

--------------------------------------------------------------------------------
(* What the waits of the queue rest on, when nothing is accepted during a /stop. *)

(* A queue that holds jobs has a worker, and nothing makes it leave. *)
Served ==
  inst # None /\ ~Stopping /\ queue[inst] # <<>> =>
    \E w \in Jobs : /\ Alive(w) /\ task[inst] = w /\ of[w] = inst
                   /\ ~cancelled[w] /\ ~stopEvent[inst]

(* A worker that is alive during a stop has been told to stop. *)
Heard == \A w \in Jobs : Stopping /\ Alive(w) => stopEvent[of[w]]

Fed == inst # None /\ ~Stopping /\ queue[inst] # <<>> => \E w \in Jobs : Alive(w)

Told == Stopping /\ inst # None => stopEvent[inst]

ServedInv == StoreInv /\ Fed /\ Told

LEMMA ServedFacts == ServedInv => Served /\ Heard
<1> SUFFICES ASSUME ServedInv PROVE Served /\ Heard
  OBVIOUS
<1>1. OneWorker /\ Undisturbed
  BY DEF ServedInv, StoreInv, CapInv, QuietInv
<1>2. Served
  BY <1>1 DEF ServedInv, Fed, OneWorker, Undisturbed, Served
<1>3. Heard
  BY <1>1 DEF ServedInv, Told, OneWorker, Heard
<1> QED BY <1>2, <1>3

(* A job that is accepted finds a worker or starts one. *)
LEMMA GenerateServed ==
  ASSUME Overlap = FALSE, ServedInv, NEW j \in Jobs, Generate(j) PROVE Fed' /\ Told'
<1> USE QueueAssumption
<1> DEFINE q == IF inst = None THEN j ELSE inst
<1>1. QTypes /\ q \in Jobs /\ inst' = q /\ ~Stopping /\ ~Stopping'
  BY DEF ServedInv, StoreInv, CapInv, QuietInv, QTypes, QueueTypes, JobOrNone, Generate,
         Stopping, stopVars
<1>2. CASE Alive(task[q]) /\ UNCHANGED pc
  <2>1. task[q] \in Jobs
    BY <1>1, <1>2 DEF QTypes, QueueTypes, JobOrNone, Alive
  <2> QED BY <1>1, <1>2, <2>1 DEF Fed, Told, Alive
<1>3. CASE pc' = [pc EXCEPT ![j] = "new"]
  <2>1. Alive(j)'
    BY <1>1, <1>3 DEF QTypes, WorkerTypes, Alive
  <2> QED BY <1>1, <2>1 DEF Fed, Told
<1>4. CASE UNCHANGED <<queue, pc>>
  <2>1. inst = None => queue[q] = <<>>
    BY <1>1 DEF ServedInv, StoreInv, CapInv, Emptied
  <2>2. inst # None => q = inst
    OBVIOUS
  <2>3. \A w \in Jobs : Alive(w)' <=> Alive(w)
    BY <1>4 DEF Alive
  <2> QED BY <1>1, <1>4, <2>1, <2>2, <2>3 DEF ServedInv, Fed, Told
<1> QED BY <1>2, <1>3, <1>4 DEF Generate, ensure_worker_running

(* Without a stop the worker goes on. *)
LEMMA WorkerServed ==
  ASSUME ServedInv, NEW w \in Jobs, WorkerStep(w) PROVE Fed' /\ Told'
<1> USE QueueAssumption
<1>1. /\ UNCHANGED <<inst, stop, of, stopEvent>> /\ (Stopping' <=> Stopping) /\ Alive(w)
      /\ QTypes /\ Undisturbed
  <2>1. UNCHANGED <<inst, stop, of, stopEvent>> /\ Alive(w)
    BY DEF WorkerStep, WorkerStarts, Take, IdleExit, PollEnds, PollExit, Complete, Fail,
           CancelWork, Unwound, queueVars, stopVars, Alive
  <2> QED BY <2>1 DEF Stopping, ServedInv, StoreInv, CapInv, QuietInv
<1>2. Told'
  BY <1>1 DEF ServedInv, Told
<1>3. CASE Stopping
  BY <1>1, <1>2, <1>3 DEF Fed
<1>4. CASE ~Stopping
  <2>1. ~cancelled[w] /\ pc[w] # "unwind" /\ ~stopEvent[of[w]]
    BY <1>1, <1>4 DEF Undisturbed
  <2>2. WorkerStarts(w) \/ Take(w) \/ PollEnds(w) \/ Complete(w) \/ Fail(w)
    BY <2>1 DEF WorkerStep, IdleExit, PollExit, CancelWork, Unwound
  <2>3. pc'[w] \in {"get", "poll", "work"}
    BY <1>1, <2>1, <2>2
       DEF WorkerStarts, Take, PollEnds, Complete, Fail, LoopHead, QTypes, WorkerTypes
  <2>4. Alive(w)'
    BY <2>3 DEF Alive
  <2> QED BY <1>2, <2>4 DEF Fed
<1> QED BY <1>3, <1>4

(* A stop tells the worker of the singleton before it waits for anything. *)
LEMMA StopServed ==
  ASSUME ServedInv, NEW s \in Stops, StopBegins(s) \/ StopNothing(s) \/ StopStep(s)
  PROVE  Fed' /\ Told'
<1>1. QTypes
  BY DEF ServedInv, StoreInv, CapInv, QuietInv
<1>2. inst' \in {inst, None} /\ (inst' = None \/ stop'[s] \notin {"idle", "over"})
  BY <1>1, StopGoesOn
<1>3. Fed'
  BY <1>2 DEF Fed, Stopping
<1>4. inst # None => stopEvent'[inst]
  <2>1. CASE StopBegins(s)
    BY <1>1, <2>1 DEF StopBegins, Cleared, QTypes, QueueTypes, JobOrNone
  <2>2. CASE StopNothing(s)
    BY <2>2 DEF StopNothing
  <2>3. CASE StopStep(s)
    <3>1. UNCHANGED stopEvent /\ Stopping
      BY <2>3 DEF StopStep, WorkerStopped, SendsCancelled, CallbacksStopped, Stopping, queueVars
    <3> QED BY <3>1 DEF ServedInv, Told
  <2> QED BY <2>1, <2>2, <2>3
<1>5. Told'
  BY <1>2, <1>4 DEF Told
<1> QED BY <1>3, <1>5

LEMMA ServedAlways == ASSUME Overlap = FALSE PROVE Spec => []ServedInv
<1>1. Init => ServedInv
  <2> SUFFICES ASSUME Init PROVE ServedInv
    OBVIOUS
  <2>1. inst = None
    BY DEF Init
  <2> QED BY <2>1, StoreInit DEF ServedInv, Fed, Told
<1>2. ServedInv /\ [Next]_vars => ServedInv'
  <2> SUFFICES ASSUME ServedInv, [Next]_vars PROVE ServedInv'
    OBVIOUS
  <2>1. StoreInv'
    BY StoreStep DEF ServedInv
  <2>2. ASSUME NEW j \in Jobs, Generate(j) \/ WorkerStep(j) PROVE Fed' /\ Told'
    BY <2>2, GenerateServed, WorkerServed
  <2>3. ASSUME NEW s \in Stops, StopBegins(s) \/ StopNothing(s) \/ StopStep(s) PROVE Fed' /\ Told'
    BY <2>3, StopServed
  <2>4. ASSUME UNCHANGED storeVars PROVE Fed' /\ Told'
    <3>1. /\ UNCHANGED <<inst, queue, stopEvent>> /\ (Stopping' <=> Stopping)
          /\ \A w \in Jobs : Alive(w)' <=> Alive(w)
      BY <2>4 DEF Alive, Stopping, storeVars
    <3> QED BY <3>1 DEF ServedInv, Fed, Told
  <2> QED BY <2>1, <2>2, <2>3, <2>4, UnseenSteps DEF Next, ServedInv
<1> QED BY <1>1, <1>2, PTL DEF Spec

(* No queued job is stranded: outside a /stop the singleton's queue is empty or its
   worker is alive, not cancelled and not told to stop (ensure_worker_running after
   each enqueue; _worker_loop leaves only for a stop, a failed job does not end it). *)
THEOREM NoJobIsStranded == ASSUME Overlap = FALSE PROVE Spec => []Served
  BY ServedAlways, ServedFacts, PTL

(* clear_queue waits for no worker that was not told to stop: while a /stop is being
   handled, the stop_event of whatever worker is alive is set, so its loop ends at
   its next head, poll or get. *)
THEOREM WorkerHearsTheStop == ASSUME Overlap = FALSE PROVE Spec => []Heard
  BY ServedAlways, ServedFacts, PTL
=================================================================================
