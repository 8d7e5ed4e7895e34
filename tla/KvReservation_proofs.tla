------------------------- MODULE KvReservation_proofs --------------------------
(* Proofs about KvReservation, for any number of jobs, chats and blocks: its types;
   that only the holder of _poc_reservation_lock works; that no block is lost
   without a report; and that a busy answer is about inference. *)
EXTENDS KvReservation, SequenceTheorems, TLAPS

\* What bounds the counters: the failed returns and the chunks left.
Counted ==
  \A j \in Jobs :
    /\ pc[j] \notin Leaving \cup {"over"} => attempt[j] = 0 /\ left[j] # 0
    /\ pc[j] = "return" => attempt[j] < 3

KInv == TypeOK /\ Counted /\ OnlyTheHolderWorks

\* Job j is now suspended at one of some points.
MovesTo(j, points) == \E p \in points : pc' = [pc EXCEPT ![j] = p]

\* The variables that sending a call changes keep their types.
ConversationOK ==
  /\ reply' \in [Jobs -> {"none", "ok", "busy", "fail"}]
  /\ calls' \in Seq(Call)
  /\ requests' \in SUBSET Chats

(* Send appends a call of the right shape to the engine core's queue. *)
LEMMA SendOK ==
  ASSUME TypeOK, NEW j \in Jobs, NEW op \in Ops, NEW on \in SUBSET (Blocks \cup Chats),
         NEW point, Send(j, op, on, point)
  PROVE  /\ reply' \in [Jobs -> {"none", "ok", "busy", "fail"}]
         /\ calls' \in Seq(Call)
         /\ MovesTo(j, {point})
<1>1. [op |-> op, by |-> j, on |-> on] \in Call
  BY DEF Call
<1>2. calls' \in Seq(Call)
  BY <1>1, AppendProperties DEF TypeOK, Send
<1>3. reply' \in [Jobs -> {"none", "ok", "busy", "fail"}]
  BY DEF TypeOK, Send
<1> QED BY <1>2, <1>3 DEF Send, MovesTo, Await

(* abort_all_requests sends one call that names inference requests only. *)
LEMMA AbortAllOK ==
  ASSUME TypeOK, NEW j \in Jobs, NEW point, AbortAll(j, point)
  PROVE  ConversationOK /\ MovesTo(j, {point})
<1>1. /\ requests \in SUBSET (Blocks \cup Chats)
      /\ "abort" \in Ops
  BY DEF TypeOK, Ops
<1>2. Send(j, "abort", requests, point) /\ requests' = {}
  BY DEF AbortAll
<1> QED BY <1>1, <1>2, SendOK DEF ConversationOK

(* A borrow is one call to the engine core. *)
LEMMA BorrowOK ==
  ASSUME TypeOK, NEW j \in Jobs, Borrow(j)
  PROVE  ConversationOK /\ MovesTo(j, {"borrow"})
<1>1. "borrow" \in Ops /\ {} \in SUBSET (Blocks \cup Chats)
  BY DEF Ops
<1> QED BY <1>1, SendOK DEF Borrow, ConversationOK, TypeOK

(* A chunk starts with a forward, or with the abort in front of it. *)
LEMMA NextChunkOK ==
  ASSUME TypeOK, NEW j \in Jobs, NEW blocks \in SUBSET Blocks, NextChunk(j, blocks)
  PROVE  ConversationOK /\ MovesTo(j, Working)
<1>1. /\ "forward" \in Ops
      /\ blocks \in SUBSET (Blocks \cup Chats) /\ InPlace \in SUBSET (Blocks \cup Chats)
      /\ requests \in SUBSET Chats
  BY ReservationAssumption DEF Ops, TypeOK
<1>2. CASE AbortAll(j, "reAbort")
  BY <1>2, AbortAllOK DEF MovesTo, Working
<1>3. CASE Send(j, "forward", blocks, "forward") /\ UNCHANGED requests
  <2>1. MovesTo(j, {"forward"}) /\ ConversationOK
    BY <1>1, <1>3, SendOK, Zenon DEF ConversationOK
  <2> QED BY <2>1 DEF MovesTo, Working
<1>4. CASE Send(j, "forward", InPlace, "forward") /\ UNCHANGED requests
  <2>1. MovesTo(j, {"forward"}) /\ ConversationOK
    BY <1>1, <1>4, SendOK, Zenon DEF ConversationOK
  <2> QED BY <2>1 DEF MovesTo, Working
<1> QED BY <1>2, <1>3, <1>4 DEF NextChunk

(* With the lock, a job goes on to a lease or to a chunk, never out. *)
LEMMA DecideOK ==
  ASSUME TypeOK, NEW j \in Jobs, NEW v, Decide(j, v)
  PROVE  ConversationOK /\ MovesTo(j, PreLease \cup Working)
<1>1. "probe" \in Ops /\ {} \in SUBSET (Blocks \cup Chats) /\ {} \in SUBSET Blocks
      /\ requests \in SUBSET Chats
  BY DEF Ops, TypeOK
<1>2. CASE Borrow(j)
  BY <1>2, BorrowOK DEF MovesTo, PreLease
<1>3. CASE AbortAll(j, "legacyAbort")
  BY <1>3, AbortAllOK DEF MovesTo, PreLease
<1>4. CASE NextChunk(j, {})
  BY <1>1, <1>4, NextChunkOK DEF MovesTo
<1>5. CASE Send(j, "probe", {}, "probe") /\ UNCHANGED requests
  <2>1. MovesTo(j, {"probe"}) /\ ConversationOK
    BY <1>1, <1>5, SendOK, Zenon DEF ConversationOK
  <2> QED BY <2>1 DEF MovesTo, PreLease
<1> QED BY <1>2, <1>3, <1>4, <1>5 DEF Decide

(* The escalation of reserve_poc_blocks ends in its settling sleep. *)
LEMMA EscalateOK ==
  ASSUME TypeOK, NEW j \in Jobs, Escalate(j)
  PROVE  ConversationOK /\ MovesTo(j, PreLease)
<1>1. CASE AbortAll(j, "abort")
  BY <1>1, AbortAllOK DEF MovesTo, PreLease
<1>2. CASE Await(j, "settle") /\ UNCHANGED <<calls, reply, requests>>
  BY <1>2 DEF ConversationOK, MovesTo, PreLease, Await, TypeOK
<1> QED BY <1>1, <1>2 DEF Escalate

(* The finally block of poc_reservation sends one call and keeps the lock. *)
LEMMA FinallyOK ==
  ASSUME TypeOK, NEW j \in Jobs, Finally(j)
  PROVE  ConversationOK /\ MovesTo(j, {"return", "reset"})
<1>1. /\ "return" \in Ops /\ "reset" \in Ops /\ {} \in SUBSET (Blocks \cup Chats)
      /\ lease[j] \in SUBSET (Blocks \cup Chats) /\ requests \in SUBSET Chats
  BY DEF Ops, TypeOK
<1>2. CASE Send(j, "return", lease[j], "return")
  <2>1. MovesTo(j, {"return"}) /\ ConversationOK
    BY <1>1, <1>2, SendOK, Zenon DEF ConversationOK, Finally
  <2> QED BY <2>1 DEF MovesTo
<1>3. CASE Send(j, "reset", {}, "reset")
  <2>1. MovesTo(j, {"reset"}) /\ ConversationOK
    BY <1>1, <1>3, SendOK, Zenon DEF ConversationOK, Finally
  <2> QED BY <2>1 DEF MovesTo
<1> QED BY <1>2, <1>3 DEF Finally

(* Leaving hands the lock to a waiter or frees it. *)
LEMMA LeaveOK ==
  ASSUME TypeOK, NEW j \in Jobs, Leave(j)
  PROVE  /\ ConversationOK /\ MovesTo(j, {"over"})
         /\ lock' \in Jobs \cup {None} /\ waiters' \in Seq(Jobs)
<1>1. ConversationOK /\ MovesTo(j, {"over"})
  BY DEF Leave, ConversationOK, MovesTo, Await, TypeOK
<1>2. waiters # <<>> => Head(waiters) \in Jobs /\ Tail(waiters) \in Seq(Jobs)
  BY HeadTailProperties DEF TypeOK
<1>3. lock' \in Jobs \cup {None} /\ waiters' \in Seq(Jobs)
  BY <1>2 DEF Leave, Release, TypeOK
<1> QED BY <1>1, <1>3

(* A job on its way to a lease or between chunks keeps the invariant when it has
   the lock, or takes it while it is free. *)
LEMMA GoesOn ==
  ASSUME KInv, NEW j \in Jobs,
         ConversationOK, MovesTo(j, PreLease \cup Working),
         pc[j] \notin Leaving \cup {"over"},
         lock \in {j, None}, lock' = j, waiters' = waiters,
         avail' \in {"unknown", "yes", "no"}, polls' \in [Jobs -> Nat],
         escalated' \in [Jobs -> BOOLEAN], lease' \in [Jobs -> SUBSET Blocks],
         UNCHANGED <<left, attempt, leaked, own, chat>>
  PROVE  KInv'
<1>1. PICK p \in PreLease \cup Working : pc' = [pc EXCEPT ![j] = p]
  BY DEF MovesTo
<1>2. pc' \in [Jobs -> {"idle", "lockWait", "over"} \cup Inside]
  BY <1>1 DEF KInv, TypeOK, Inside
<1>3. TypeOK'
  BY <1>2 DEF KInv, TypeOK, ConversationOK
<1>4. p \notin Leaving \cup {"over"} /\ p # "return"
  BY DEF PreLease, Working, Leaving
<1>5. Counted'
  BY <1>1, <1>4 DEF KInv, Counted, TypeOK
<1>6. OnlyTheHolderWorks'
  BY <1>1, ReservationAssumption DEF KInv, OnlyTheHolderWorks, TypeOK
<1> QED BY <1>3, <1>5, <1>6 DEF KInv

(* A job that enters its finally block keeps the lock and has attempts left. *)
LEMMA GoesOut ==
  ASSUME KInv, NEW j \in Jobs,
         ConversationOK, MovesTo(j, {"return", "reset"}),
         pc[j] \in Working, left' \in [Jobs -> Nat],
         \A k \in Jobs \ {j} : left'[k] = left[k],
         UNCHANGED <<lock, waiters, avail, polls, escalated, lease, attempt, leaked, own, chat>>
  PROVE  KInv'
<1>1. PICK p \in {"return", "reset"} : pc' = [pc EXCEPT ![j] = p]
  BY DEF MovesTo
<1>2. pc' \in [Jobs -> {"idle", "lockWait", "over"} \cup Inside]
  BY <1>1 DEF KInv, TypeOK, Inside, Leaving
<1>3. TypeOK'
  BY <1>2 DEF KInv, TypeOK, ConversationOK
<1>4. attempt[j] = 0 /\ lock = j
  BY DEF KInv, Counted, OnlyTheHolderWorks, Working, Leaving, Inside
<1>5. Counted'
  BY <1>1, <1>4, SMTT(30) DEF KInv, Counted, TypeOK, Leaving
<1>6. OnlyTheHolderWorks'
  BY <1>1, <1>4 DEF KInv, OnlyTheHolderWorks, TypeOK
<1> QED BY <1>3, <1>5, <1>6 DEF KInv

(* The holder that leaves passes the lock on and nobody else was working. *)
LEMMA GoesAway ==
  ASSUME KInv, NEW j \in Jobs, lock = j, Leave(j), leaked' \in SUBSET Blocks,
         UNCHANGED <<avail, polls, escalated, lease, left, attempt, own, chat>>
  PROVE  KInv'
<1>1. /\ pc' = [pc EXCEPT ![j] = "over"] /\ ConversationOK
      /\ lock' \in Jobs \cup {None} /\ waiters' \in Seq(Jobs)
  BY LeaveOK DEF MovesTo, KInv
<1>2. TypeOK'
  BY <1>1 DEF KInv, TypeOK, ConversationOK
<1>3. Counted'
  BY <1>1 DEF KInv, Counted, TypeOK
<1>4. OnlyTheHolderWorks'
  BY <1>1 DEF KInv, OnlyTheHolderWorks, TypeOK, Inside, PreLease, Working, Leaving
<1> QED BY <1>2, <1>3, <1>4 DEF KInv

(* The engine core moves no job: it answers calls, and takes them off its queue. *)
LEMMA EngineKeepsJobs ==
  ASSUME KInv, UNCHANGED Frontend,
         reply' \in [Jobs -> {"none", "ok", "busy", "fail"}], calls' \in Seq(Call),
         requests' \in SUBSET Chats, own' \in [Blocks -> Jobs \cup Chats \cup {None}],
         chat' \in [Chats -> {"out", "sent", "waiting", "running", "over"}]
  PROVE  KInv'
<1>1. TypeOK'
  BY DEF KInv, TypeOK, Frontend
<1>2. Counted' /\ OnlyTheHolderWorks'
  BY DEF KInv, Counted, OnlyTheHolderWorks, Frontend
<1> QED BY <1>1, <1>2 DEF KInv

(* Every step of a job keeps the invariant. *)
LEMMA JobStepInv ==
  ASSUME KInv, NEW j \in Jobs, JobStep(j)
  PROVE  KInv'
<1> USE DEF KInv
<1>0. /\ \A points : MovesTo(j, points) /\ points \subseteq PreLease \cup Working
                     => MovesTo(j, PreLease \cup Working)
      /\ pc[j] \in Inside => lock = j
      /\ lease[j] \in SUBSET Blocks /\ {} \in SUBSET Blocks
  BY DEF MovesTo, OnlyTheHolderWorks, TypeOK
<1>1. CASE LockGranted(j)
  BY <1>1, DecideOK, GoesOn DEF LockGranted, TypeOK, Leaving
<1>2. CASE ProbeAnswer(j)
  <2>1. ConversationOK /\ MovesTo(j, PreLease \cup Working)
    BY <1>2, DecideOK DEF ProbeAnswer
  <2> QED BY <1>0, <1>2, <2>1, GoesOn DEF ProbeAnswer, TypeOK, Leaving, Inside, PreLease
<1>3. CASE BorrowGranted(j)
  <2>1. /\ lease'[j] = {b \in Blocks : own[b] = j}
        /\ lease' \in [Jobs -> SUBSET Blocks]
    BY <1>3 DEF BorrowGranted, TypeOK
  <2>2. ConversationOK /\ MovesTo(j, PreLease \cup Working)
    BY <1>0, <1>3, <2>1, NextChunkOK DEF BorrowGranted
  <2> QED BY <1>0, <1>3, <2>1, <2>2, GoesOn DEF BorrowGranted, TypeOK, Leaving, Inside, PreLease
<1>4. CASE BorrowPoll(j)
  <2>1. ConversationOK /\ MovesTo(j, PreLease \cup Working)
    BY <1>4 DEF BorrowPoll, ConversationOK, MovesTo, Await, TypeOK, PreLease
  <2>2. polls' \in [Jobs -> Nat]
    BY <1>4 DEF BorrowPoll, TypeOK
  <2> QED BY <1>0, <1>4, <2>1, <2>2, GoesOn DEF BorrowPoll, TypeOK, Leaving, Inside, PreLease
<1>5. CASE PollWake(j)
  <2>1. ConversationOK /\ MovesTo(j, PreLease \cup Working)
    BY <1>0, <1>5, BorrowOK DEF PollWake, PreLease
  <2> QED BY <1>0, <1>5, <2>1, GoesOn DEF PollWake, TypeOK, Leaving, Inside, PreLease
<1>6. CASE BorrowGivenUp(j)
  <2>1. ConversationOK /\ MovesTo(j, PreLease \cup Working)
    BY <1>0, <1>6, NextChunkOK, EscalateOK DEF BorrowGivenUp
  <2> QED BY <1>0, <1>6, <2>1, GoesOn DEF BorrowGivenUp, TypeOK, Leaving, Inside, PreLease
<1>7. CASE AbortSent(j)
  <2>1. ASSUME pc[j] = "abort" /\ Await(j, "settle") /\ UNCHANGED <<calls, reply, requests>>
       PROVE ConversationOK /\ MovesTo(j, PreLease \cup Working)
    <3>1. ConversationOK
      BY <2>1 DEF ConversationOK, TypeOK
    <3>2. MovesTo(j, PreLease \cup Working)
      BY <2>1 DEF MovesTo, Await, PreLease
    <3> QED BY <3>1, <3>2
  <2>2. ASSUME pc[j] = "legacyAbort" /\ NextChunk(j, {})
       PROVE ConversationOK /\ MovesTo(j, PreLease \cup Working)
    BY <1>0, <2>2, NextChunkOK
  <2>3. ASSUME pc[j] = "reAbort" /\ Send(j, "forward", InPlace, "forward") /\ UNCHANGED requests
       PROVE ConversationOK /\ MovesTo(j, PreLease \cup Working)
    <3>1. "forward" \in Ops /\ InPlace \in SUBSET (Blocks \cup Chats)
      BY ReservationAssumption DEF Ops
    <3>2. requests' \in SUBSET Chats
      BY <2>3 DEF TypeOK
    <3>3. ConversationOK /\ MovesTo(j, {"forward"})
      BY <2>3, <3>1, <3>2, SendOK, Zenon DEF ConversationOK
    <3>4. MovesTo(j, PreLease \cup Working)
      BY <3>3 DEF MovesTo, Working
    <3> QED BY <3>3, <3>4
  <2>4. ConversationOK /\ MovesTo(j, PreLease \cup Working)
    BY <1>7, <2>1, <2>2, <2>3, Zenon DEF AbortSent
  <2>5. pc[j] \in Inside /\ pc[j] \notin Leaving \cup {"over"}
    BY <1>7 DEF AbortSent, Inside, PreLease, Working, Leaving
  <2> QED BY <1>0, <1>7, <2>4, <2>5, GoesOn DEF AbortSent, TypeOK
<1>8. CASE SettleWake(j)
  <2>1. ConversationOK /\ MovesTo(j, PreLease \cup Working)
    BY <1>0, <1>8, NextChunkOK, BorrowOK DEF SettleWake, PreLease
  <2> QED BY <1>0, <1>8, <2>1, GoesOn DEF SettleWake, TypeOK, Leaving, Inside, PreLease
<1>9. CASE ChunkDone(j)
  <2>1. left[j] \in Nat \ {0}
    BY <1>9 DEF ChunkDone, Counted, TypeOK, Leaving
  <2>2. left' \in [Jobs -> Nat]
    BY <1>9, <2>1 DEF ChunkDone, TypeOK
  <2>3. CASE left[j] = 1
    BY <1>9, <2>2, <2>3, FinallyOK, GoesOut DEF ChunkDone, TypeOK, Working
  <2>4. CASE left[j] # 1
    <3>1. ConversationOK /\ MovesTo(j, Working)
      BY <1>0, <1>9, <2>4, NextChunkOK DEF ChunkDone
    <3>2. PICK p \in Working : pc' = [pc EXCEPT ![j] = p]
      BY <3>1 DEF MovesTo
    <3>3. lock = j /\ pc' \in [Jobs -> {"idle", "lockWait", "over"} \cup Inside]
      BY <1>0, <1>9, <3>2 DEF ChunkDone, TypeOK, Inside, Working
    <3>4. TypeOK'
      BY <1>9, <2>2, <3>1, <3>3 DEF ChunkDone, TypeOK, ConversationOK
    <3>5. left'[j] # 0 /\ p \notin Leaving \cup {"over"}
      BY <1>9, <2>1, <2>4 DEF ChunkDone, TypeOK, Working, Leaving
    <3>6. Counted'
      BY <1>9, <3>2, <3>5 DEF ChunkDone, Counted, TypeOK, Leaving
    <3>7. OnlyTheHolderWorks'
      BY <1>9, <3>2, <3>3 DEF ChunkDone, OnlyTheHolderWorks, TypeOK
    <3> QED BY <3>4, <3>6, <3>7
  <2> QED BY <2>3, <2>4
<1>10. CASE ChunkFails(j)
  BY <1>10, FinallyOK, GoesOut DEF ChunkFails, TypeOK, Working
<1>11. CASE Returned(j)
  BY <1>0, <1>11, GoesAway DEF Returned, TypeOK, Inside, Leaving
<1>12. CASE ReturnFails(j)
  <2>1. attempt[j] \in 0 .. 2 /\ lock = j
    BY <1>0, <1>12 DEF ReturnFails, Counted, TypeOK, Inside, Leaving
  <2>2. TypeOK'
    BY <1>12, <2>1 DEF ReturnFails, TypeOK, Await, Inside, Leaving
  <2>3. Counted' /\ OnlyTheHolderWorks'
    BY <1>12, <2>1 DEF ReturnFails, Counted, OnlyTheHolderWorks, TypeOK, Await, Leaving
  <2> QED BY <2>2, <2>3
<1>13. CASE ReturnAgain(j)
  <2>0. lock = j
    BY <1>0, <1>13 DEF ReturnAgain, Inside, Leaving
  <2>1. CASE /\ attempt[j] < 3 /\ Send(j, "return", lease[j], "return")
             /\ UNCHANGED <<lock, waiters, leaked, requests>>
    <3>1. "return" \in Ops /\ lease[j] \in SUBSET (Blocks \cup Chats) /\ requests' \in SUBSET Chats
      BY <2>1 DEF Ops, TypeOK
    <3>2. ConversationOK /\ MovesTo(j, {"return"})
      BY <2>1, <3>1, SendOK, Zenon DEF ConversationOK
    <3>3. pc' = [pc EXCEPT ![j] = "return"]
      BY <3>2 DEF MovesTo
    <3>4. TypeOK'
      BY <1>13, <2>1, <3>2, <3>3 DEF ReturnAgain, TypeOK, ConversationOK, Inside, Leaving
    <3>5. Counted' /\ OnlyTheHolderWorks'
      BY <1>13, <2>0, <2>1, <3>3 DEF ReturnAgain, Counted, OnlyTheHolderWorks, TypeOK, Leaving
    <3> QED BY <3>4, <3>5
  <2>2. CASE attempt[j] = 3 /\ Leave(j) /\ leaked' = leaked \cup lease[j]
    <3>1. leaked' \in SUBSET Blocks
      BY <1>0, <2>2 DEF TypeOK
    <3> QED BY <1>13, <2>0, <2>2, <3>1, GoesAway DEF ReturnAgain
  <2> QED BY <1>13, <2>1, <2>2 DEF ReturnAgain
<1> QED BY <1>1, <1>2, <1>3, <1>4, <1>5, <1>6, <1>7, <1>8, <1>9, <1>10, <1>11, <1>12, <1>13 DEF JobStep

(* A job that asks for the lock takes it when it is free, or waits behind. *)
LEMMA EnterInv ==
  ASSUME KInv, NEW j \in Jobs, Enter(j)
  PROVE  KInv'
<1> USE DEF KInv
<1>1. CASE lock = None /\ lock' = j /\ Decide(j, avail) /\ UNCHANGED waiters
  BY <1>1, DecideOK, GoesOn DEF Enter, TypeOK, Leaving
<1>2. CASE /\ lock # None /\ waiters' = Append(waiters, j)
           /\ Await(j, "lockWait") /\ UNCHANGED <<lock, calls, reply, requests>>
  <2>1. waiters' \in Seq(Jobs)
    BY <1>2, AppendProperties DEF TypeOK
  <2>2. TypeOK'
    BY <1>2, <2>1 DEF Enter, TypeOK, Await
  <2>3. Counted' /\ OnlyTheHolderWorks'
    BY <1>2 DEF Enter, Counted, OnlyTheHolderWorks, TypeOK, Await, Inside, PreLease, Working, Leaving
  <2> QED BY <2>2, <2>3
<1> QED BY <1>1, <1>2 DEF Enter

(* A cancellation takes a waiter out of the queue, or lets the holder go. *)
LEMMA CancelInv ==
  ASSUME KInv, NEW j \in Jobs, Cancel(j)
  PROVE  KInv'
<1> USE DEF KInv
<1>0. leaked' \in SUBSET Blocks /\ (pc[j] \in Inside => lock = j)
  BY DEF Cancel, TypeOK, OnlyTheHolderWorks
<1>1. CASE /\ pc[j] = "lockWait" /\ lock # j
           /\ \E n \in DOMAIN waiters : waiters[n] = j /\ waiters' = RemoveAt(waiters, n)
           /\ Await(j, "over") /\ UNCHANGED <<lock, calls, reply, requests>>
  <2>1. PICK n \in DOMAIN waiters : waiters' = RemoveAt(waiters, n)
    BY <1>1
  <2>2. n \in 1 .. Len(waiters) /\ Len(waiters) \in Nat
    BY <2>1 DEF TypeOK
  <2>3. /\ \A i \in 1 .. (n - 1) : waiters[i] \in Jobs
        /\ \A i \in (n + 1) .. Len(waiters) : waiters[i] \in Jobs
    <3>1. \A i \in 1 .. Len(waiters) : waiters[i] \in Jobs
      BY DEF TypeOK
    <3>2. /\ \A i \in 1 .. (n - 1) : i \in 1 .. Len(waiters)
          /\ \A i \in (n + 1) .. Len(waiters) : i \in 1 .. Len(waiters)
      BY <2>2
    <3> QED BY <3>1, <3>2, Zenon
  <2>4. /\ SubSeq(waiters, 1, n - 1) \in Seq(Jobs)
        /\ SubSeq(waiters, n + 1, Len(waiters)) \in Seq(Jobs)
    <3>1. n - 1 \in Int /\ n + 1 \in Int /\ Len(waiters) \in Int /\ 1 \in Int
      BY <2>2
    <3>2. SubSeq(waiters, 1, n - 1) \in Seq(Jobs)
      BY <2>3, <3>1, SubSeqProperties, Zenon
    <3>3. SubSeq(waiters, n + 1, Len(waiters)) \in Seq(Jobs)
      BY <2>3, <3>1, SubSeqProperties, Zenon
    <3> QED BY <3>2, <3>3
  <2>5. waiters' \in Seq(Jobs)
    BY <2>1, <2>4, ConcatProperties DEF RemoveAt
  <2>6. TypeOK'
    BY <1>1, <2>5 DEF Cancel, TypeOK, Await
  <2>7. Counted' /\ OnlyTheHolderWorks'
    BY <1>1 DEF Cancel, Counted, OnlyTheHolderWorks, TypeOK, Await, Inside, PreLease, Working, Leaving
  <2> QED BY <2>6, <2>7
<1>2. CASE lock = j /\ Leave(j)
  BY <1>0, <1>2, GoesAway DEF Cancel
<1>3. CASE pc[j] \in Working /\ Finally(j) /\ UNCHANGED <<lock, waiters>>
  BY <1>3, FinallyOK, GoesOut DEF Cancel, TypeOK
<1> QED BY <1>0, <1>1, <1>2, <1>3 DEF Cancel, Inside

(* The engine core's steps keep the types of what it answers and owns. *)
LEMMA EngineStepInv ==
  ASSUME KInv, EngineStep
  PROVE  KInv'
<1> USE DEF KInv
<1>1. UNCHANGED Frontend /\ calls # <<>> /\ calls' = Tail(calls)
  BY DEF EngineStep, EngineFails, EngineAnswers, EngineLends, EngineTakesBack, EngineAborts,
         EngineAdds, Executes
<1>2. calls' \in Seq(Call) /\ Head1 \in Call
  BY <1>1, HeadTailProperties DEF TypeOK, Head1
<1>3. Head1.by \in Jobs \cup Chats
  BY <1>2 DEF Call
<1>4. ASSUME NEW r \in {"none", "ok", "busy", "fail"}, Answer(r)
      PROVE  reply' \in [Jobs -> {"none", "ok", "busy", "fail"}]
  BY <1>4 DEF Answer, TypeOK
<1>5. ASSUME NEW cs, Drop(cs)
      PROVE  /\ own' \in [Blocks -> Jobs \cup Chats \cup {None}]
             /\ chat' \in [Chats -> {"out", "sent", "waiting", "running", "over"}]
  BY <1>5 DEF Drop, TypeOK
<1>6. reply' \in [Jobs -> {"none", "ok", "busy", "fail"}] /\ requests' \in SUBSET Chats
  <2>1. /\ UNCHANGED requests
        /\ UNCHANGED reply \/ Answer("ok") \/ Answer("busy") \/ Answer("fail")
    BY DEF EngineStep, EngineFails, EngineAnswers, EngineLends, EngineTakesBack, EngineAborts,
           EngineAdds
  <2> QED BY <1>4, <2>1 DEF TypeOK
<1>7. own' \in [Blocks -> Jobs \cup Chats \cup {None}]
  BY <1>3, <1>5 DEF EngineStep, EngineFails, EngineAnswers, EngineLends, EngineTakesBack,
         EngineAborts, EngineAdds, TypeOK
<1>8. chat' \in [Chats -> {"out", "sent", "waiting", "running", "over"}]
  BY <1>5 DEF EngineStep, EngineFails, EngineAnswers, EngineLends, EngineTakesBack,
         EngineAborts, EngineAdds, TypeOK
<1> QED BY <1>1, <1>2, <1>6, <1>7, <1>8, EngineKeepsJobs

(* Inference requests come, run and end beside the jobs. *)
LEMMA ChatStepInv ==
  ASSUME KInv, NEW c \in Chats, ChatStep(c)
  PROVE  KInv'
<1> USE DEF KInv
<1>1. CASE ChatArrives(c)
  <2>1. [op |-> "add", by |-> c, on |-> {}] \in Call
    BY DEF Call, Ops
  <2>2. calls' \in Seq(Call)
    BY <1>1, <2>1, AppendProperties DEF ChatArrives, TypeOK
  <2> QED BY <1>1, <2>2, EngineKeepsJobs DEF ChatArrives, TypeOK
<1>2. CASE Schedule(c)
  BY <1>2, EngineKeepsJobs DEF Schedule, TypeOK
<1>3. CASE Finish(c)
  BY <1>3, EngineKeepsJobs DEF Finish, Drop, TypeOK
<1> QED BY <1>1, <1>2, <1>3 DEF ChatStep

(* KInv is inductive: every step of a job, of the engine core or of a chat that
   starts where it holds ends where it holds. *)
THEOREM KInvInductive == Spec => []KInv
<1>1. Init => KInv
  <2> SUFFICES ASSUME Init PROVE KInv
    OBVIOUS
  <2>1. TypeOK
    BY ReservationAssumption DEF Init, TypeOK
  <2>2. Counted /\ OnlyTheHolderWorks
    BY ReservationAssumption
       DEF Init, Counted, OnlyTheHolderWorks, Inside, PreLease, Working, Leaving
  <2> QED BY <2>1, <2>2 DEF KInv
<1>2. KInv /\ [Next]_vars => KInv'
  <2> SUFFICES ASSUME KInv, [Next]_vars PROVE KInv'
    OBVIOUS
  <2>1. CASE UNCHANGED vars
    BY <2>1 DEF vars, KInv, TypeOK, Counted, OnlyTheHolderWorks
  <2> QED BY <2>1, EnterInv, JobStepInv, CancelInv, EngineStepInv, ChatStepInv DEF Next
<1> QED BY <1>1, <1>2, PTL DEF Spec

(* Every variable keeps its type; the return is tried at most three times. *)
THEOREM ReservationTypes == Spec => []TypeOK
BY KInvInductive, PTL DEF KInv

(* "the FIFO asyncio.Lock serializes validations": only the job that holds
   _poc_reservation_lock probes, borrows, forwards or returns, for any number of
   jobs and wherever they fail, time out or are cancelled. *)
THEOREM LockSerialises == Spec => []OnlyTheHolderWorks
BY KInvInductive, PTL DEF KInv

--------------------------------------------------------------------------------
(* Who holds blocks in the pool, when jobs are cancelled only while they wait for the
   lock or compute: elsewhere a cancellation loses blocks, as run kv_cancel_leaks shows. *)

Pending == {"borrow", "return"}

\* Block b is in the pool for job j, and j knows or the log does.
Tenant(j, b) ==
  \/ pc[j] = "borrow" /\ reply[j] = "ok"
  \/ pc[j] \in {"forward", "returnSleep"} /\ b \in lease[j]
  \/ pc[j] = "return" /\ reply[j] # "ok" /\ b \in lease[j]
  \/ pc[j] = "over" /\ b \in leaked

Tenancy == \A j \in Jobs, b \in Blocks : own[b] = j => Tenant(j, b)

\* One borrow or return is in the engine's queue, of a job that waits for its answer.
Asked ==
  \A n \in DOMAIN calls : calls[n].op \in Pending =>
    /\ calls[n].by \in Jobs
    /\ pc[calls[n].by] = calls[n].op /\ reply[calls[n].by] = "none"
    /\ calls[n].op = "return" => calls[n].on = lease[calls[n].by]
    /\ \A m \in DOMAIN calls : calls[m].op \in Pending => m = n

NothingAsked == \A n \in DOMAIN calls : calls[n].op \notin Pending

TInv == KInv /\ Tenancy /\ Asked

\* The job waits for no borrow and no return.
Idle(j) == pc[j] \notin Pending \/ reply[j] # "none"

\* A call as the jobs send them: of a job that will wait for a borrow or a return.
Sends(j) ==
  \E op \in Ops, on \in SUBSET (Blocks \cup Chats), point \in Inside :
    /\ Send(j, op, on, point)
    /\ op \in Pending => op = point
    /\ op = "return" => on = lease'[j]

Stays(j) == UNCHANGED <<calls, reply>> /\ \E p \in {"over", "lockWait"} \cup Inside : Await(j, p)

LEMMA HolderAskedNothing ==
  ASSUME TInv, NEW j \in Jobs, lock \in {None, j}, Idle(j) PROVE NothingAsked
<1> SUFFICES ASSUME NEW n \in DOMAIN calls, calls[n].op \in Pending PROVE FALSE
  BY DEF NothingAsked
<1>1. calls[n].by \in Jobs /\ pc[calls[n].by] \in Pending /\ reply[calls[n].by] = "none"
  BY DEF TInv, Asked
<1>2. pc[calls[n].by] \in Inside
  BY <1>1 DEF Pending, Inside, PreLease, Leaving
<1>3. lock = calls[n].by
  BY <1>1, <1>2 DEF TInv, KInv, OnlyTheHolderWorks
<1> QED BY <1>1, <1>3, ReservationAssumption DEF Idle

\* A step of the holder, or of the job that takes the lock.
LEMMA HolderStep ==
  ASSUME TInv, KInv', NEW j \in Jobs, lock \in {None, j}, Idle(j), Sends(j) \/ Stays(j),
         own' = own, leaked \subseteq leaked', \A k \in Jobs : k # j => lease'[k] = lease[k],
         \A b \in Blocks : own[b] = j => Tenant(j, b)'
  PROVE  TInv'
<1>0. TypeOK /\ TypeOK' /\ NothingAsked
  BY HolderAskedNothing DEF TInv, KInv
<1>1. \A k \in Jobs : k # j => pc'[k] = pc[k] /\ reply'[k] = reply[k]
  BY <1>0 DEF Sends, Stays, Send, Await, TypeOK
<1>2. Tenancy'
  <2> SUFFICES ASSUME NEW k \in Jobs, NEW b \in Blocks, own[b] = k PROVE Tenant(k, b)'
    BY DEF Tenancy
  <2>1. CASE k = j
    BY <2>1
  <2>2. CASE k # j
    BY <1>1, <2>2 DEF TInv, Tenancy, Tenant
  <2> QED BY <2>1, <2>2
<1>3. Asked'
  <2>1. CASE Stays(j)
    BY <1>0, <2>1 DEF Stays, Asked, NothingAsked
  <2>2. CASE Sends(j)
    <3>1. PICK op \in Ops, on \in SUBSET (Blocks \cup Chats), point \in Inside :
            /\ Send(j, op, on, point)
            /\ op \in Pending => op = point
            /\ op = "return" => on = lease'[j]
      BY <2>2 DEF Sends
    <3>2. PICK call : call = [op |-> op, by |-> j, on |-> on]
      OBVIOUS
    <3>3. call \in Call /\ call.op = op /\ call.by = j /\ call.on = on
      BY <3>2 DEF Call
    <3>4. calls' = Append(calls, call) /\ pc'[j] = point /\ reply'[j] = "none"
      BY <1>0, <3>1, <3>2 DEF Send, Await, TypeOK
    <3>5. /\ Len(calls) \in Nat /\ DOMAIN calls = 1 .. Len(calls)
          /\ DOMAIN calls' = 1 .. Len(calls) + 1
          /\ \A n \in 1 .. Len(calls) : calls'[n] = calls[n]
          /\ calls'[Len(calls) + 1] = call
      BY <1>0, <3>3, <3>4, AppendProperties DEF TypeOK
    <3>6. \A n \in DOMAIN calls' : calls'[n].op \in Pending => n = Len(calls) + 1
      BY <1>0, <3>5 DEF NothingAsked
    <3> QED BY <3>1, <3>3, <3>4, <3>5, <3>6 DEF Asked
  <2> QED BY <2>1, <2>2
<1> QED BY <1>2, <1>3 DEF TInv

(* How the parts of a job's actions send. *)
LEMMA NextChunkSends ==
  ASSUME TypeOK, NEW j \in Jobs, NEW blocks \in SUBSET Blocks, NextChunk(j, blocks)
  PROVE  Sends(j) /\ (blocks # {} => pc'[j] = "forward")
<1>1. /\ {"forward", "abort"} \subseteq Ops /\ {"forward", "reAbort"} \subseteq Inside
      /\ blocks \in SUBSET (Blocks \cup Chats) /\ InPlace \in SUBSET (Blocks \cup Chats)
      /\ requests \in SUBSET (Blocks \cup Chats) /\ "forward" \notin Pending /\ "abort" \notin Pending
      /\ "forward" # "return" /\ "abort" # "return"
  BY ReservationAssumption DEF Ops, Inside, Working, TypeOK, Pending
<1>2. CASE blocks # {} /\ Send(j, "forward", blocks, "forward")
  BY <1>1, <1>2 DEF Sends, Send, Await, TypeOK
<1>3. CASE blocks = {} /\ Send(j, "abort", requests, "reAbort")
  BY <1>1, <1>3 DEF Sends
<1>4. CASE blocks = {} /\ Send(j, "forward", InPlace, "forward")
  BY <1>1, <1>4 DEF Sends
<1> QED BY <1>2, <1>3, <1>4 DEF NextChunk, AbortAll

LEMMA AbortAllSends ==
  ASSUME TypeOK, NEW j \in Jobs, NEW point \in Inside, AbortAll(j, point) PROVE Sends(j)
<1>1. "abort" \in Ops /\ requests \in SUBSET (Blocks \cup Chats) /\ "abort" \notin Pending
      /\ "abort" # "return"
  BY DEF Ops, TypeOK, Pending
<1> QED BY <1>1 DEF AbortAll, Sends

LEMMA BorrowSends ==
  ASSUME NEW j \in Jobs, Borrow(j) PROVE Sends(j)
<1>1. "borrow" \in Ops /\ {} \in SUBSET (Blocks \cup Chats) /\ "borrow" \in Inside /\ "borrow" # "return"
  BY DEF Ops, Inside, PreLease
<1> QED BY <1>1 DEF Borrow, Sends

LEMMA DecideSends ==
  ASSUME TypeOK, NEW j \in Jobs, NEW v, Decide(j, v) PROVE Sends(j)
<1>1. /\ "probe" \in Ops /\ {} \in SUBSET (Blocks \cup Chats) /\ "probe" \in Inside /\ "probe" \notin Pending
      /\ "legacyAbort" \in Inside /\ {} \in SUBSET Blocks /\ "probe" # "return"
  BY DEF Ops, Inside, PreLease, Pending
<1>2. CASE Send(j, "probe", {}, "probe")
  BY <1>1, <1>2 DEF Sends
<1> QED BY <1>1, <1>2, NextChunkSends, AbortAllSends, BorrowSends DEF Decide

(* The finally block: whoever has a lease asks for its return. *)
LEMMA FinallySends ==
  ASSUME TypeOK, NEW j \in Jobs, Finally(j), lease' = lease
  PROVE  Sends(j) /\ (lease[j] # {} => pc'[j] = "return" /\ reply'[j] = "none")
<1>1. /\ {"return", "reset"} \subseteq Ops /\ {"return", "reset"} \subseteq Inside
      /\ {} \in SUBSET (Blocks \cup Chats) /\ lease[j] \in SUBSET (Blocks \cup Chats)
      /\ "reset" \notin Pending /\ "reset" # "return"
  BY DEF Ops, Inside, Leaving, TypeOK, Pending
<1>2. CASE lease[j] # {} /\ Send(j, "return", lease[j], "return")
  BY <1>1, <1>2 DEF Sends, Send, Await, TypeOK
<1>3. CASE lease[j] = {} /\ Send(j, "reset", {}, "reset")
  BY <1>1, <1>3 DEF Sends
<1> QED BY <1>2, <1>3 DEF Finally

(* A job that is suspended where it knows of no block, or was refused, has none. *)
LEMMA NoTenant ==
  ASSUME TInv, NEW j \in Jobs,
         \/ pc[j] \in {"idle", "lockWait", "reset"} \cup (PreLease \ {"borrow"}) \cup {"reAbort"}
         \/ pc[j] = "borrow" /\ reply[j] # "ok"
         \/ pc[j] = "return" /\ reply[j] = "ok"
         \/ pc[j] = "forward" /\ lease[j] = {}
  PROVE  \A b \in Blocks : own[b] # j
  BY DEF TInv, Tenancy, Tenant, PreLease

LEMMA JobStepTenancy ==
  ASSUME TInv, NEW j \in Jobs, JobStep(j) PROVE TInv'
<1>0. KInv /\ KInv' /\ TypeOK /\ TypeOK' /\ {} \in SUBSET Blocks
  BY JobStepInv DEF TInv, KInv
<1>1. /\ own' = own /\ leaked \subseteq leaked' /\ \A k \in Jobs : k # j => lease'[k] = lease[k]
  BY <1>0 DEF JobStep, LockGranted, ProbeAnswer, BorrowGranted, BorrowPoll, PollWake, BorrowGivenUp, AbortSent,
     SettleWake, ChunkDone, ChunkFails, Returned, ReturnFails, ReturnAgain, TypeOK
<1>2. pc[j] \in {"lockWait"} \cup Inside /\ (pc[j] = "lockWait" => lock = j)
  BY DEF JobStep, LockGranted, ProbeAnswer, BorrowGranted, BorrowPoll, PollWake, BorrowGivenUp, AbortSent,
     SettleWake, ChunkDone, ChunkFails, Returned, ReturnFails, ReturnAgain, Inside, PreLease, Working, Leaving
<1>3. lock = j
  BY <1>2 DEF TInv, KInv, OnlyTheHolderWorks
<1>4. ASSUME Idle(j), Sends(j) \/ Stays(j), \A b \in Blocks : own[b] = j => Tenant(j, b)' PROVE TInv'
  BY <1>0, <1>1, <1>3, <1>4, HolderStep
<1>5. CASE LockGranted(j)
  <2>1. Idle(j) /\ Sends(j)
    BY <1>0, <1>5, DecideSends DEF LockGranted, Idle, Pending
  <2>2. \A b \in Blocks : own[b] # j
    BY <1>5, NoTenant DEF LockGranted
  <2> QED BY <1>4, <2>1, <2>2
<1>6. CASE ProbeAnswer(j)
  <2>1. Idle(j) /\ Sends(j)
    BY <1>0, <1>6, DecideSends DEF ProbeAnswer, Idle, Pending
  <2>2. \A b \in Blocks : own[b] # j
    BY <1>6, NoTenant DEF ProbeAnswer, PreLease
  <2> QED BY <1>4, <2>1, <2>2
<1>7. CASE BorrowGranted(j)
  <2>1. lease'[j] = {b \in Blocks : own[b] = j}
    BY <1>0, <1>7 DEF BorrowGranted, TypeOK
  <2>2. Sends(j) /\ (lease'[j] # {} => pc'[j] = "forward")
    BY <1>0, <1>7, <2>1, NextChunkSends DEF BorrowGranted
  <2>3. \A b \in Blocks : own[b] = j => Tenant(j, b)'
    BY <2>1, <2>2 DEF Tenant
  <2>4. Idle(j)
    BY <1>7 DEF BorrowGranted, Idle
  <2> QED BY <1>4, <2>2, <2>3, <2>4
<1>8. CASE BorrowPoll(j)
  <2>1. Idle(j) /\ Stays(j)
    BY <1>8 DEF BorrowPoll, Idle, Stays, Inside, PreLease
  <2>2. \A b \in Blocks : own[b] # j
    BY <1>8, NoTenant DEF BorrowPoll
  <2> QED BY <1>4, <2>1, <2>2
<1>9. CASE PollWake(j)
  <2>1. Idle(j) /\ Sends(j)
    BY <1>9, BorrowSends DEF PollWake, Idle, Pending
  <2>2. \A b \in Blocks : own[b] # j
    BY <1>9, NoTenant DEF PollWake, PreLease
  <2> QED BY <1>4, <2>1, <2>2
<1>10. CASE BorrowGivenUp(j)
  <2>1. Idle(j)
    BY <1>10 DEF BorrowGivenUp, Idle
  <2>2. Sends(j) \/ Stays(j)
    <3>1. "abort" \in Inside /\ "settle" \in Inside
      BY DEF Inside, PreLease
    <3>2. NextChunk(j, {}) => Sends(j)
      BY <1>0, NextChunkSends
    <3>3. AbortAll(j, "abort") => Sends(j)
      BY <1>0, <3>1, AbortAllSends
    <3> QED BY <1>10, <3>1, <3>2, <3>3 DEF BorrowGivenUp, Escalate, Stays
  <2>3. \A b \in Blocks : own[b] # j
    BY <1>10, NoTenant DEF BorrowGivenUp
  <2> QED BY <1>4, <2>1, <2>2, <2>3
<1>11. CASE AbortSent(j)
  <2>1. pc[j] \in {"abort", "legacyAbort", "reAbort"}
    BY <1>11 DEF AbortSent
  <2>2. Sends(j) \/ Stays(j)
    <3>1. /\ "settle" \in Inside /\ "forward" \in Ops /\ "forward" \in Inside /\ "forward" \notin Pending
          /\ InPlace \in SUBSET (Blocks \cup Chats) /\ "forward" # "return"
      BY ReservationAssumption DEF Inside, PreLease, Working, Ops, Pending
    <3>2. CASE Await(j, "settle") /\ UNCHANGED <<calls, reply>>
      BY <3>1, <3>2 DEF Stays
    <3>3. CASE NextChunk(j, {})
      BY <1>0, <3>3, NextChunkSends
    <3>4. CASE Send(j, "forward", InPlace, "forward")
      BY <3>1, <3>4 DEF Sends
    <3> QED BY <1>11, <3>2, <3>3, <3>4 DEF AbortSent
  <2>3. Idle(j)
    BY <2>1 DEF Idle, Pending
  <2>4. \A b \in Blocks : own[b] # j
    BY <2>1, NoTenant DEF PreLease
  <2> QED BY <1>4, <2>2, <2>3, <2>4
<1>12. CASE SettleWake(j)
  <2>1. Idle(j) /\ Sends(j)
    BY <1>0, <1>12, NextChunkSends, BorrowSends DEF SettleWake, Idle, Pending
  <2>2. \A b \in Blocks : own[b] # j
    BY <1>12, NoTenant DEF SettleWake, PreLease
  <2> QED BY <1>4, <2>1, <2>2
<1>13. CASE ChunkDone(j) \/ ChunkFails(j)
  <2>1. pc[j] = "forward" /\ Idle(j) /\ lease' = lease
    BY <1>13 DEF ChunkDone, ChunkFails, Idle, Pending
  <2>2. \A b \in Blocks : own[b] = j => b \in lease[j]
    BY <2>1 DEF TInv, Tenancy, Tenant
  <2>3. CASE Finally(j)
    <3>1. Sends(j) /\ (lease[j] # {} => pc'[j] = "return" /\ reply'[j] = "none")
      BY <1>0, <2>1, <2>3, FinallySends
    <3>2. \A b \in Blocks : own[b] = j => Tenant(j, b)'
      BY <2>1, <2>2, <3>1 DEF Tenant
    <3> QED BY <1>4, <2>1, <3>1, <3>2
  <2>4. CASE NextChunk(j, lease[j])
    <3>1. Sends(j) /\ (lease[j] # {} => pc'[j] = "forward")
      BY <1>0, <2>4, NextChunkSends DEF TypeOK
    <3>2. \A b \in Blocks : own[b] = j => Tenant(j, b)'
      BY <2>1, <2>2, <3>1 DEF Tenant
    <3> QED BY <1>4, <2>1, <3>1, <3>2
  <2> QED BY <1>13, <2>3, <2>4 DEF ChunkDone, ChunkFails
<1>14. CASE Returned(j)
  <2>1. Idle(j) /\ Stays(j)
    BY <1>14 DEF Returned, Leave, Idle, Stays
  <2>2. \A b \in Blocks : own[b] # j
    BY <1>14, NoTenant DEF Returned
  <2> QED BY <1>4, <2>1, <2>2
<1>15. CASE ReturnFails(j)
  <2>1. Idle(j) /\ Stays(j)
    BY <1>15 DEF ReturnFails, Idle, Stays, Inside, Leaving
  <2>2. pc'[j] = "returnSleep" /\ pc[j] = "return" /\ lease' = lease
    BY <1>0, <1>15 DEF ReturnFails, Await, TypeOK
  <2>3. \A b \in Blocks : own[b] = j => Tenant(j, b)'
    BY <2>2 DEF TInv, Tenancy, Tenant
  <2> QED BY <1>4, <2>1, <2>3
<1>16. CASE ReturnAgain(j)
  <2>1. pc[j] = "returnSleep" /\ lease' = lease /\ Idle(j)
    BY <1>16 DEF ReturnAgain, Idle, Pending
  <2>2. \A b \in Blocks : own[b] = j => b \in lease[j]
    BY <2>1 DEF TInv, Tenancy, Tenant
  <2>3. CASE Send(j, "return", lease[j], "return")
    <3>1. "return" \in Ops /\ "return" \in Inside /\ lease[j] \in SUBSET (Blocks \cup Chats)
      BY <1>0 DEF Ops, Inside, Leaving, TypeOK
    <3>2. Sends(j)
      BY <2>1, <2>3, <3>1 DEF Sends
    <3>3. pc'[j] = "return" /\ reply'[j] = "none"
      BY <1>0, <2>3 DEF Send, Await, TypeOK
    <3>4. \A b \in Blocks : own[b] = j => Tenant(j, b)'
      BY <2>1, <2>2, <3>3 DEF Tenant
    <3> QED BY <1>4, <2>1, <3>2, <3>4
  <2>4. CASE Leave(j) /\ leaked' = leaked \cup lease[j]
    <3>1. Stays(j) /\ pc'[j] = "over"
      BY <1>0, <2>4 DEF Leave, Stays, Await, TypeOK
    <3>2. \A b \in Blocks : own[b] = j => Tenant(j, b)'
      BY <2>2, <2>4, <3>1 DEF Tenant
    <3> QED BY <1>4, <2>1, <3>1, <3>2
  <2> QED BY <1>16, <2>3, <2>4 DEF ReturnAgain
<1> QED BY <1>5, <1>6, <1>7, <1>8, <1>9, <1>10, <1>11, <1>12, <1>13, <1>14, <1>15, <1>16 DEF JobStep

\* A job that only waits for the lock neither owns a block nor has asked for one.
LEMMA BystanderTenancy ==
  ASSUME TInv, KInv', NEW j \in Jobs, pc[j] \in {"idle", "lockWait"},
         \E p \in {"lockWait", "over"} : Await(j, p),
         UNCHANGED <<calls, reply, lease, own, leaked>>
  PROVE  TInv'
<1>1. \A b \in Blocks : own[b] # j
  BY NoTenant
<1>2. \A k \in Jobs : k # j => pc'[k] = pc[k]
  BY DEF Await, TInv, KInv, TypeOK
<1>3. Tenancy'
  BY <1>1, <1>2 DEF TInv, Tenancy, Tenant
<1>4. Asked'
  BY <1>2 DEF TInv, Asked, Pending
<1> QED BY <1>3, <1>4 DEF TInv

LEMMA EnterTenancy ==
  ASSUME TInv, NEW j \in Jobs, Enter(j) PROVE TInv'
<1>1. KInv' /\ TypeOK /\ pc[j] = "idle" /\ UNCHANGED <<lease, own, leaked>>
  BY EnterInv DEF TInv, KInv, Enter
<1>2. \A b \in Blocks : own[b] # j
  BY <1>1, NoTenant
<1>3. CASE lock = None /\ Decide(j, avail)
  BY <1>1, <1>2, <1>3, DecideSends, HolderStep DEF Idle, Pending
<1>4. CASE Await(j, "lockWait") /\ UNCHANGED <<calls, reply>>
  BY <1>1, <1>4, BystanderTenancy
<1> QED BY <1>3, <1>4 DEF Enter

LEMMA CancelTenancy ==
  ASSUME CancelAt \subseteq {"lockWait"} \cup Working, TInv, NEW j \in Jobs, Cancel(j) PROVE TInv'
<1>1. KInv' /\ TypeOK /\ UNCHANGED <<lease, own, leaked>> /\ pc[j] \in {"lockWait"} \cup Working
  BY CancelInv DEF TInv, KInv, Cancel
<1>2. CASE pc[j] = "lockWait"
  BY <1>1, <1>2, BystanderTenancy DEF Cancel, Leave, Working, Inside, PreLease, Leaving
<1>3. CASE pc[j] \in Working
  <2>1. Finally(j) /\ Idle(j)
    BY <1>3 DEF Cancel, Working, PreLease, Leaving, Idle, Pending
  <2>2. lock = j
    BY <1>3 DEF TInv, KInv, OnlyTheHolderWorks, Inside
  <2>3. Sends(j) /\ (lease[j] # {} => pc'[j] = "return" /\ reply'[j] = "none")
    BY <1>1, <2>1, FinallySends
  <2>4. \A b \in Blocks : own[b] = j => b \in lease[j]
    BY <1>3 DEF TInv, Tenancy, Tenant, Working
  <2>5. \A b \in Blocks : own[b] = j => Tenant(j, b)'
    BY <1>1, <2>3, <2>4 DEF Tenant
  <2> QED BY <1>1, <2>1, <2>2, <2>3, <2>5, HolderStep
<1> QED BY <1>1, <1>2, <1>3

(* The engine core: it lends to the job that waits for the answer, and takes back all
   that the job has. *)
LEMMA EngineStepTenancy ==
  ASSUME TInv, EngineStep PROVE TInv'
<1>0. KInv' /\ TypeOK /\ UNCHANGED Frontend /\ calls # <<>> /\ calls' = Tail(calls)
  BY EngineStepInv DEF TInv, KInv, EngineStep, EngineFails, EngineAnswers, EngineLends, EngineTakesBack,
     EngineAborts, EngineAdds, Executes
<1>1. /\ Len(calls) \in Nat /\ DOMAIN calls = 1 .. Len(calls) /\ 1 \in DOMAIN calls
      /\ Head1 = calls[1] /\ Head1 \in Call
      /\ \A n \in DOMAIN calls' : n + 1 \in DOMAIN calls /\ n + 1 # 1 /\ calls'[n] = calls[n + 1]
      /\ \A n, m \in DOMAIN calls' : n + 1 = m + 1 => n = m
  <2>1. /\ Len(calls') = Len(calls) - 1 /\ calls' \in Seq(Call)
        /\ \A n \in 1 .. Len(calls') : calls'[n] = calls[n + 1]
    BY <1>0, HeadTailProperties DEF TypeOK
  <2>2. Len(calls) \in Nat \ {0} /\ DOMAIN calls = 1 .. Len(calls) /\ DOMAIN calls' = 1 .. Len(calls')
    BY <1>0, <2>1 DEF TypeOK
  <2>3. Head1 = calls[1] /\ Head1 \in Call
    BY <1>0, <2>2, HeadTailProperties DEF TypeOK, Head1
  <2> QED BY <2>1, <2>2, <2>3
<1>2. UNCHANGED <<pc, lease, leaked>>
  BY <1>0 DEF Frontend
\* The call that is executed asks for blocks, or leaves those that do alone.
<1>3. Head1.op \in Pending =>
        /\ Head1.by \in Jobs /\ pc[Head1.by] = Head1.op /\ reply[Head1.by] = "none"
        /\ Head1.op = "return" => Head1.on = lease[Head1.by]
        /\ \A n \in DOMAIN calls' : calls'[n].op \notin Pending
  BY <1>1 DEF TInv, Asked
<1>4. UNCHANGED reply \/ \E r \in {"ok", "busy", "fail"} : Answer(r)
  BY DEF EngineStep, EngineFails, EngineAnswers, EngineLends, EngineTakesBack, EngineAborts, EngineAdds
<1>5. \A k \in Jobs : reply'[k] = reply[k] \/ (k = Head1.by /\ pc[k] = Head1.op)
  BY <1>0, <1>4 DEF Answer, TypeOK
<1>6. Asked'
  <2>1. CASE Head1.op \in Pending
    BY <1>3, <2>1 DEF Asked
  <2>2. CASE Head1.op \notin Pending
    BY <1>1, <1>2, <1>5, <2>2 DEF TInv, Asked
  <2> QED BY <2>1, <2>2
<1>7. CASE Head1.op \notin Pending
  <2>1. \A b \in Blocks : own'[b] \in Jobs => own'[b] = own[b]
    BY <1>0, <1>7, ReservationAssumption
       DEF EngineStep, EngineFails, EngineAnswers, EngineLends, EngineTakesBack,
           EngineAborts, EngineAdds, Executes, Drop, Pending, TypeOK
  <2>2. Tenancy'
    BY <1>2, <1>5, <1>7, <2>1 DEF TInv, Tenancy, Tenant, Pending
  <2> QED BY <1>0, <1>6, <2>2 DEF TInv
<1>8. CASE EngineFails /\ Head1.op \in Pending
  <2>1. own' = own /\ reply' = [reply EXCEPT ![Head1.by] = "fail"]
    BY <1>3, <1>8 DEF EngineFails, Answer
  <2>2. reply'[Head1.by] = "fail" /\ \A k \in Jobs : k # Head1.by => reply'[k] = reply[k]
    BY <1>0, <1>3, <1>8, <2>1 DEF TypeOK
  <2>3. Tenancy'
    BY <1>2, <1>3, <1>8, <2>1, <2>2 DEF TInv, Tenancy, Tenant, Pending
  <2> QED BY <1>0, <1>6, <2>3 DEF TInv
<1>9. CASE EngineLends
  <2>1. Head1.op = "borrow"
    BY <1>9 DEF EngineLends, Executes
  <2>2. PICK k \in Jobs : k = Head1.by /\ pc[k] = "borrow" /\ reply[k] = "none"
    BY <1>3, <2>1 DEF Pending
  <2>3. \A b \in Blocks : own[b] # k
    BY <2>2, NoTenant
  <2>4. \A i \in Jobs : i # k => reply'[i] = reply[i]
    BY <1>5, <2>2
  <2>5. CASE own' = own
    BY <1>0, <1>2, <1>6, <2>3, <2>4, <2>5 DEF TInv, Tenancy, Tenant
  <2>6. CASE Answer("ok") /\ \E S \in SUBSET Free : own' = [b \in Blocks |-> IF b \in S THEN Head1.by ELSE own[b]]
    <3>1. reply'[k] = "ok"
      BY <1>0, <2>1, <2>2, <2>6 DEF Answer, TypeOK
    <3>2. \A b \in Blocks : own'[b] \in {k, own[b]}
      BY <2>2, <2>6
    <3> QED BY <1>0, <1>2, <1>6, <2>2, <2>3, <2>4, <3>1, <3>2 DEF TInv, Tenancy, Tenant
  <2> QED BY <1>9, <2>5, <2>6 DEF EngineLends
<1>10. CASE EngineTakesBack
  <2>1. Head1.op = "return" /\ own' = [b \in Blocks |-> IF b \in Head1.on THEN None ELSE own[b]]
    BY <1>10 DEF EngineTakesBack, Executes
  <2>2. PICK k \in Jobs : k = Head1.by /\ pc[k] = "return" /\ reply[k] = "none" /\ Head1.on = lease[k]
    BY <1>3, <2>1 DEF Pending
  <2>3. \A b \in Blocks : own'[b] # k
    BY <2>1, <2>2, ReservationAssumption DEF TInv, Tenancy, Tenant
  <2>4. \A i \in Jobs : i # k => reply'[i] = reply[i]
    BY <1>5, <2>2
  <2>5. \A b \in Blocks : own'[b] \in {None, own[b]}
    BY <2>1
  <2> QED BY <1>0, <1>2, <1>6, <2>3, <2>4, <2>5, ReservationAssumption DEF TInv, Tenancy, Tenant
<1>11. Head1.op \in Pending => EngineFails \/ EngineLends \/ EngineTakesBack
  BY DEF EngineStep, EngineAnswers, EngineAborts, EngineAdds, Executes, Pending
<1> QED BY <1>7, <1>8, <1>9, <1>10, <1>11

LEMMA ChatStepTenancy ==
  ASSUME TInv, NEW c \in Chats, ChatStep(c) PROVE TInv'
<1>1. KInv' /\ TypeOK /\ UNCHANGED <<pc, lease, leaked, reply>>
  BY ChatStepInv DEF TInv, KInv, ChatStep, ChatArrives, Schedule, Finish, Frontend
<1>2. \A b \in Blocks : own'[b] \in Jobs => own'[b] = own[b]
  BY <1>1, ReservationAssumption DEF ChatStep, ChatArrives, Schedule, Finish, Drop, TypeOK
<1>3. Tenancy'
  BY <1>1, <1>2 DEF TInv, Tenancy, Tenant
<1>4. CASE calls' = calls
  BY <1>1, <1>3, <1>4 DEF TInv, Asked
<1>5. CASE ChatArrives(c)
  <2>1. PICK call : call = [op |-> "add", by |-> c, on |-> {}]
    OBVIOUS
  <2>2. call \in Call /\ call.op = "add" /\ calls' = Append(calls, call)
    BY <1>5, <2>1 DEF ChatArrives, Call, Ops
  <2>3. /\ Len(calls) \in Nat /\ DOMAIN calls = 1 .. Len(calls)
        /\ DOMAIN calls' = 1 .. Len(calls) + 1
        /\ \A n \in 1 .. Len(calls) : calls'[n] = calls[n]
        /\ calls'[Len(calls) + 1] = call
    BY <1>1, <2>2, AppendProperties DEF TypeOK
  <2>4. \A n \in DOMAIN calls' : calls'[n].op \in Pending => n \in DOMAIN calls /\ calls'[n] = calls[n]
    BY <2>2, <2>3 DEF Pending
  <2> QED BY <1>1, <1>3, <2>4 DEF TInv, Asked
<1> QED BY <1>4, <1>5 DEF ChatStep, Schedule, Finish

LEMMA TInvInvariant ==
  ASSUME CancelAt \subseteq {"lockWait"} \cup Working PROVE Spec => []TInv
<1>1. Init => TInv
  <2> SUFFICES ASSUME Init PROVE TInv
    OBVIOUS
  <2>1. TypeOK
    BY ReservationAssumption DEF Init, TypeOK
  <2>2. Counted /\ OnlyTheHolderWorks
    BY ReservationAssumption
       DEF Init, Counted, OnlyTheHolderWorks, Inside, PreLease, Working, Leaving
  <2>3. Tenancy /\ Asked
    BY ReservationAssumption DEF Init, Tenancy, Asked
  <2> QED BY <2>1, <2>2, <2>3 DEF TInv, KInv
<1>2. TInv /\ [Next]_vars => TInv'
  <2> SUFFICES ASSUME TInv, [Next]_vars PROVE TInv'
    OBVIOUS
  <2>1. CASE UNCHANGED vars
    BY <2>1 DEF vars, TInv, KInv, TypeOK, Counted, OnlyTheHolderWorks, Tenancy, Tenant, Asked
  <2> QED BY <2>1, EnterTenancy, JobStepTenancy, CancelTenancy, EngineStepTenancy, ChatStepTenancy DEF Next
<1> QED BY <1>1, <1>2, PTL DEF Spec

(* "Block return is structurally guaranteed": if jobs are cancelled only while they
   wait for the lock or compute, every block that is in the pool for a job is with a
   job that will return it, or was reported; for any failures, sizes and timeouts. *)
THEOREM NoBlockIsLost ==
  ASSUME CancelAt \subseteq {"lockWait"} \cup Working PROVE Spec => []NoSilentLeak
<1>1. TInv => NoSilentLeak
  BY DEF TInv, Tenancy, Tenant, NoSilentLeak
<1> QED BY <1>1, TInvInvariant, PTL

(* Under the same cancellations a borrow that is answered "busy" met inference, never
   another validation whose blocks are not already reported as lost. *)
THEOREM BusyIsInference ==
  ASSUME CancelAt \subseteq {"lockWait"} \cup Working PROVE Spec => []BusyMeansInference
<1>1. TInv => BusyMeansInference
  <2> SUFFICES ASSUME TInv, calls # <<>>, Head1.op = "borrow", NEW b \in Blocks, own[b] \in Jobs
               PROVE  b \in leaked
    BY DEF BusyMeansInference
  <2>1. 1 \in DOMAIN calls /\ Head1 = calls[1]
    BY DEF TInv, KInv, TypeOK, Head1
  <2>2. Head1.by \in Jobs /\ pc[Head1.by] = "borrow" /\ reply[Head1.by] = "none"
    BY <2>1 DEF TInv, Asked, Pending
  <2>3. lock = Head1.by /\ \A j \in Jobs : pc[j] \in Inside => j = lock
    BY <2>2 DEF TInv, KInv, OnlyTheHolderWorks, Inside, PreLease
  <2>4. Tenant(own[b], b)
    BY DEF TInv, Tenancy
  <2> QED BY <2>2, <2>3, <2>4 DEF Tenant, Inside, PreLease, Working, Leaving
<1> QED BY <1>1, TInvInvariant, PTL

================================================================================
