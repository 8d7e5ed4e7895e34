--------------------------- MODULE SharedPool_proofs ---------------------------
(* Proofs about the shared pool, for any chats, pool, rounds, forwards and failures: *)
(* the types; that a leased forward finds its blocks private however late it runs;   *)
(* that an in-place forward finds every request that was aborted for it gone; and    *)
(* that what a forward did to the prefix cache is undone before the cache is used    *)
(* again.  All rest on the order of the engine core's queue, so the invariants       *)
(* relate positions in it.                                                           *)
EXTENDS SharedPool, SequenceTheorems, TLAPS

Ops ==
  {"abort", "forward", "leased", "borrow", "return", "reset", "resetRunning", "add"}

CallType ==
  [op : Ops, by : Users \cup Chats \cup {"nobody"}, on : SUBSET (Blocks \cup Chats),
   spared : SUBSET Chats]

Shape ==
  /\ calls \in Seq(CallType)
  /\ DOMAIN point = Users /\ DOMAIN chat = Chats
  /\ DOMAIN refs = Blocks /\ DOMAIN hash = Blocks /\ lease \subseteq Blocks
  /\ requests \subseteq Chats /\ known \in [Users -> SUBSET Chats]
  /\ \A i \in DOMAIN calls : calls[i].op = "abort" => calls[i].on \subseteq Chats

(* Blocks on loan are the job's alone and stand for no prefix. *)
Own == \A b \in Blocks : Job \in refs[b] => refs[b] = {Job} /\ hash[b] = None

(* Leased forwards that are still queued write blocks on loan, and a return is       *)
(* queued behind them.                                                               *)
Backed ==
  \A i \in DOMAIN calls : calls[i].op = "leased" =>
    \A b \in calls[i].on : b \in Blocks /\ Job \in refs[b]

ReturnsLast ==
  \A i, k \in DOMAIN calls : calls[i].op = "leased" /\ calls[k].op = "return" => i < k

(* A validation that gave its lease up, or never had one to give. *)
Leaving == {"return", "over"}

OnLoan ==
  point[Job] \notin Leaving =>
    /\ \A b \in lease : Job \in refs[b]
    /\ \A i \in DOMAIN calls : calls[i].op # "return"

LeaseInv == Own /\ Backed /\ ReturnsLast /\ OnLoan

(* A chat before the engine client knows it, and one the engine core may work on.    *)
Early == {"out", "refused", "admitted"}
Late == {"sent", "waiting", "running"}

AbortsAt(k, c) == calls[k].op = "abort" /\ c \in calls[k].on

(* When the calls before position n are done, the chat is over.                      *)
AbortedBefore(c, n) ==
  chat[c] = "over" \/ \E k \in DOMAIN calls : k < n /\ AbortsAt(k, c)

(* A chat is added once, and before it is aborted.                                   *)
AddedOnce ==
  /\ \A i \in DOMAIN calls : calls[i].op = "add" => calls[i].by \in Chats /\ chat[calls[i].by] = "sent"
  /\ \A i, k \in DOMAIN calls :
       calls[i].op = "add" /\ calls[k].op = "add" /\ calls[i].by = calls[k].by => i = k
  /\ \A i, k \in DOMAIN calls :
       calls[i].op = "add" /\ AbortsAt(k, calls[i].by) => i < k

Admitted ==
  /\ \A c \in requests : chat[c] \notin Early
  /\ \A k \in DOMAIN calls : \A c \in Chats : AbortsAt(k, c) => chat[c] \notin Early

Tracked ==
  \A c \in Chats : chat[c] \in Late => c \in requests \/ \E k \in DOMAIN calls : AbortsAt(k, c)

Spared ==
  \A i \in DOMAIN calls : calls[i].op = "forward" =>
    \A c \in calls[i].spared : AbortedBefore(c, i)

Known == \A u \in Users : \A c \in known[u] : AbortedBefore(c, Len(calls) + 1)

ChatInv == AddedOnce /\ Admitted /\ Tracked /\ Spared /\ Known

PoolInv == Shape /\ LeaseInv /\ ChatInv

--------------------------------------------------------------------------------
(* What a step does to the queue. *)

LEMMA SendFacts ==
  ASSUME Shape, NEW u \in Users, NEW call \in CallType, NEW where, Send(u, call, where)
  PROVE  /\ calls' \in Seq(CallType) /\ Len(calls) \in Nat /\ Len(calls') = Len(calls) + 1
         /\ DOMAIN calls = 1..Len(calls) /\ DOMAIN calls' = 1..(Len(calls) + 1)
         /\ calls'[Len(calls) + 1] = call
         /\ \A i \in DOMAIN calls :
              /\ calls'[i].op = calls[i].op /\ calls'[i].on = calls[i].on
              /\ calls'[i].spared = calls[i].spared
              /\ calls[i].by \in Chats => calls'[i].by = calls[i].by
         /\ DOMAIN point' = Users
         /\ \A v \in Users : point'[v] = IF v = u THEN where ELSE point[v]
<1> DEFINE old == Abandoned(u)
<1>1. calls \in Seq(CallType) /\ DOMAIN point = Users
  BY DEF Shape
<1>2. Len(calls) \in Nat /\ DOMAIN calls = 1..Len(calls)
  BY <1>1
<1>3. ASSUME NEW i \in DOMAIN calls
      PROVE  /\ old[i] \in CallType
             /\ old[i].op = calls[i].op /\ old[i].on = calls[i].on
             /\ old[i].spared = calls[i].spared
             /\ calls[i].by \in Chats => old[i].by = calls[i].by
  <2>1. calls[i] \in CallType
    BY <1>1, <1>2
  <2>2. CASE calls[i].by = u
    <3>1. old[i] = [calls[i] EXCEPT !.by = "nobody"]
      BY <2>2 DEF Abandoned
    <3>2. calls[i].by \notin Chats
      BY <2>2, PoolAssumption
    <3> QED BY <2>1, <3>1, <3>2 DEF CallType
  <2>3. CASE calls[i].by # u
    <3>1. old[i] = calls[i]
      BY <2>3 DEF Abandoned
    <3> QED BY <2>1, <3>1
  <2> QED BY <2>2, <2>3
<1>4. DOMAIN old = 1..Len(calls)
  BY <1>2 DEF Abandoned
<1>5. calls' = Append(old, call)
  BY DEF Send
<1> HIDE DEF old
<1>6. old \in Seq(CallType) /\ Len(old) = Len(calls)
  <2>1. old \in [1..Len(calls) -> CallType]
    <3>1. old = [i \in DOMAIN calls |-> old[i]]
      BY DEF old, Abandoned
    <3> QED BY <1>2, <1>3, <3>1
  <2> QED BY <1>2, <2>1, SeqDef
<1>7. /\ calls' \in Seq(CallType) /\ Len(calls') = Len(calls) + 1
      /\ calls'[Len(calls) + 1] = call
      /\ \A i \in 1..Len(calls) : calls'[i] = old[i]
  BY <1>5, <1>6, AppendProperties
<1>8. DOMAIN calls' = 1..(Len(calls) + 1)
  BY <1>7
<1>9. DOMAIN point' = Users /\ \A v \in Users : point'[v] = IF v = u THEN where ELSE point[v]
  BY <1>1 DEF Send, Await
<1> QED BY <1>2, <1>3, <1>7, <1>8, <1>9

LEMMA ExecutesFacts ==
  ASSUME Shape, calls # <<>>, calls' = Tail(calls)
  PROVE  /\ calls' \in Seq(CallType) /\ Len(calls) \in Nat \ {0} /\ Len(calls') = Len(calls) - 1
         /\ DOMAIN calls = 1..Len(calls) /\ DOMAIN calls' = 1..(Len(calls) - 1)
         /\ 1 \in DOMAIN calls /\ First = calls[1] /\ First \in CallType
         /\ \A i \in DOMAIN calls' : i + 1 \in DOMAIN calls /\ calls'[i] = calls[i + 1]
<1>1. calls \in Seq(CallType)
  BY DEF Shape
<1>2. Len(calls) \in Nat \ {0} /\ DOMAIN calls = 1..Len(calls)
  BY <1>1, EmptySeq
<1>3. /\ calls' \in Seq(CallType) /\ Len(calls') = Len(calls) - 1
      /\ \A i \in 1..(Len(calls) - 1) : calls'[i] = calls[i + 1]
      /\ First = calls[1] /\ First \in CallType
  BY <1>1, HeadTailProperties DEF First
<1> QED BY <1>2, <1>3

--------------------------------------------------------------------------------
(* A user of the pool sends a call, or goes on without one. *)

(* The lease, the queue's shape and the order of adds and aborts survive every call. *)
LEMMA SendKeepsLeases ==
  ASSUME PoolInv, NEW u \in Users, NEW call \in CallType, NEW where, Send(u, call, where),
         UNCHANGED <<lease, chat, refs, hash>>,
         requests' \subseteq Chats, known' \in [Users -> SUBSET Chats],
         call.op # "add", call.op = "abort" => call.on \subseteq Chats,
         u = Job => point[Job] \notin Leaving,
         call.op = "leased" => u = Job /\ call.on \subseteq lease,
         call.op = "return" => u = Job /\ where \in Leaving
  PROVE  Shape' /\ LeaseInv' /\ AddedOnce'
<1> USE DEF PoolInv
<1>0. PICK n : n = Len(calls)
  OBVIOUS
<1>1. /\ calls' \in Seq(CallType) /\ n \in Nat /\ Len(calls') = n + 1
      /\ DOMAIN calls = 1..n /\ DOMAIN calls' = 1..(n + 1) /\ calls'[n + 1] = call
      /\ \A i \in DOMAIN calls :
           /\ calls'[i].op = calls[i].op /\ calls'[i].on = calls[i].on
           /\ calls'[i].spared = calls[i].spared
           /\ calls[i].by \in Chats => calls'[i].by = calls[i].by
      /\ DOMAIN point' = Users
      /\ \A v \in Users : point'[v] = IF v = u THEN where ELSE point[v]
  BY <1>0, SendFacts
<1>2. \A i \in DOMAIN calls' : i \in DOMAIN calls \/ i = n + 1
  BY <1>1
<1>3. Job \in Users
  BY DEF Users
<1>4. Shape'
  BY <1>1, <1>2 DEF Shape
<1>5. Own' /\ Backed'
  <2>1. call.op = "leased" => \A b \in call.on : b \in Blocks /\ Job \in refs[b]
    BY DEF LeaseInv, OnLoan, Shape
  <2>2. Own'
    BY DEF LeaseInv, Own
  <2>3. Backed'
    BY <1>1, <1>2, <2>1 DEF LeaseInv, Backed
  <2> QED BY <2>2, <2>3
<1>6. OnLoan'
  <2>1. ASSUME point'[Job] \notin Leaving PROVE point[Job] \notin Leaving /\ call.op # "return"
    BY <1>1, <1>3, <2>1
  <2>2. ASSUME point'[Job] \notin Leaving, NEW i \in DOMAIN calls' PROVE calls'[i].op # "return"
    BY <1>1, <1>2, <2>1, <2>2 DEF LeaseInv, OnLoan
  <2> QED BY <2>1, <2>2 DEF LeaseInv, OnLoan
<1>7. ReturnsLast'
  <2> SUFFICES ASSUME NEW i \in DOMAIN calls', NEW k \in DOMAIN calls',
                      calls'[i].op = "leased", calls'[k].op = "return"
               PROVE  i < k
    BY DEF ReturnsLast
  <2>1. CASE i = n + 1
    <3>1. u = Job /\ point[Job] \notin Leaving /\ k # n + 1
      BY <1>1, <2>1
    <3>2. k \in DOMAIN calls /\ calls[k].op = "return"
      BY <1>1, <1>2, <3>1
    <3> QED BY <3>1, <3>2 DEF LeaseInv, OnLoan
  <2>2. CASE i # n + 1 /\ k = n + 1
    BY <1>1, <1>2, <2>2
  <2>3. CASE i # n + 1 /\ k # n + 1
    BY <1>1, <1>2, <2>3 DEF LeaseInv, ReturnsLast
  <2> QED BY <2>1, <2>2, <2>3
<1>8. AddedOnce'
  <2>1. \A i \in DOMAIN calls' : calls'[i].op = "add" =>
          i \in DOMAIN calls /\ calls[i].op = "add" /\ calls'[i].by = calls[i].by
    BY <1>1, <1>2 DEF ChatInv, AddedOnce
  <2>2. \A i \in DOMAIN calls' : calls'[i].op = "add" =>
          calls'[i].by \in Chats /\ chat[calls'[i].by] = "sent"
    BY <2>1 DEF ChatInv, AddedOnce
  <2>3. \A i, k \in DOMAIN calls' :
          calls'[i].op = "add" /\ calls'[k].op = "add" /\ calls'[i].by = calls'[k].by => i = k
    BY <2>1 DEF ChatInv, AddedOnce
  <2>4. ASSUME NEW i \in DOMAIN calls', NEW k \in DOMAIN calls', calls'[i].op = "add",
               calls'[k].op = "abort", calls'[i].by \in calls'[k].on
        PROVE  i < k
    <3>1. CASE k = n + 1
      BY <1>1, <2>1, <2>4, <3>1
    <3>2. CASE k # n + 1
      BY <1>1, <1>2, <2>1, <2>4, <3>2 DEF ChatInv, AddedOnce, AbortsAt
    <3> QED BY <3>1, <3>2
  <2> QED BY <2>2, <2>3, <2>4 DEF AddedOnce, AbortsAt
<1> QED BY <1>4, <1>5, <1>6, <1>7, <1>8 DEF LeaseInv

(* A call that is no abort. *)
LEMMA SendKeeps ==
  ASSUME PoolInv, NEW u \in Users, NEW call \in CallType, NEW where, Send(u, call, where),
         UNCHANGED <<lease, requests, known, chat, refs, hash>>,
         call.op \notin {"abort", "add"},
         u = Job => point[Job] \notin Leaving,
         call.op = "leased" => u = Job /\ call.on \subseteq lease,
         call.op = "return" => u = Job /\ where \in Leaving,
         call.op = "forward" => call.spared \subseteq known[u]
  PROVE  PoolInv'
<1> USE DEF PoolInv
<1>0. PICK n : n = Len(calls)
  OBVIOUS
<1>1. /\ n \in Nat /\ Len(calls') = n + 1
      /\ DOMAIN calls = 1..n /\ DOMAIN calls' = 1..(n + 1) /\ calls'[n + 1] = call
      /\ \A i \in DOMAIN calls :
           /\ calls'[i].op = calls[i].op /\ calls'[i].on = calls[i].on
           /\ calls'[i].spared = calls[i].spared
  BY <1>0, SendFacts
<1>2. \A i \in DOMAIN calls' : i \in DOMAIN calls \/ i = n + 1
  BY <1>1
<1>3. Shape' /\ LeaseInv' /\ AddedOnce'
  <2>1. requests' \subseteq Chats /\ known' \in [Users -> SUBSET Chats]
    BY DEF Shape
  <2> QED BY <2>1, SendKeepsLeases
<1>4. ASSUME NEW c, NEW m, AbortedBefore(c, m) PROVE AbortedBefore(c, m)'
  BY <1>1, <1>4 DEF AbortedBefore, AbortsAt
<1>5. Admitted' /\ Tracked'
  BY <1>1, <1>2 DEF ChatInv, Admitted, Tracked, AbortsAt
<1>6. Spared'
  <2>1. \A c \in known[u] : AbortedBefore(c, n + 1)'
    BY <1>0, <1>4 DEF ChatInv, Known
  <2>2. ASSUME NEW i \in DOMAIN calls, calls'[i].op = "forward", NEW c \in calls'[i].spared
        PROVE  AbortedBefore(c, i)'
    BY <1>1, <1>4, <2>2 DEF ChatInv, Spared
  <2>3. ASSUME calls'[n + 1].op = "forward", NEW c \in calls'[n + 1].spared
        PROVE  AbortedBefore(c, n + 1)'
    BY <1>1, <2>1, <2>3
  <2> QED BY <1>2, <2>2, <2>3 DEF Spared
<1>7. Known'
  <2>1. ASSUME NEW v \in Users, NEW c \in known[v] PROVE AbortedBefore(c, n + 2)'
    <3>1. AbortedBefore(c, n + 1)
      BY <1>0 DEF ChatInv, Known
    <3>2. AbortedBefore(c, n + 2)
      BY <1>1, <3>1 DEF AbortedBefore
    <3> QED BY <1>4, <3>2
  <2>2. Len(calls') + 1 = n + 2
    BY <1>1
  <2> QED BY <2>1, <2>2 DEF Known
<1> QED BY <1>3, <1>5, <1>6, <1>7 DEF ChatInv

(* The abort: whoever was with the engine is over once it has run. *)
LEMMA AbortAllKeeps ==
  ASSUME PoolInv, NEW u \in Users, NEW where, AbortAll(u, where),
         UNCHANGED <<lease, chat, refs, hash>>,
         u = Job => point[Job] \notin Leaving
  PROVE  PoolInv'
<1> USE DEF PoolInv
<1>0. PICK n, asked : n = Len(calls) /\ asked = requests
  OBVIOUS
<1> DEFINE call == [op |-> "abort", by |-> u, on |-> asked, spared |-> {}]
<1>1. call \in CallType /\ asked \subseteq Chats
  <2>1. asked \subseteq Chats
    BY <1>0 DEF Shape
  <2>2. asked \in SUBSET (Blocks \cup Chats) /\ {} \in SUBSET Chats
    BY <2>1
  <2>3. "abort" \in Ops /\ u \in Users \cup Chats \cup {"nobody"}
    BY DEF Ops
  <2>4. call \in CallType
    BY <2>2, <2>3, Zenon DEF CallType
  <2> QED BY <2>1, <2>4
<1>2. /\ Send(u, call, where) /\ requests' = {}
      /\ known' \in [Users -> SUBSET Chats]
      /\ \A v \in Users : known'[v] = IF v = u THEN WithEngine ELSE known[v]
  BY <1>0 DEF AbortAll, Call, Shape, WithEngine
<1>3. /\ n \in Nat /\ Len(calls') = n + 1
      /\ DOMAIN calls = 1..n /\ DOMAIN calls' = 1..(n + 1) /\ calls'[n + 1] = call
      /\ \A i \in DOMAIN calls :
           /\ calls'[i].op = calls[i].op /\ calls'[i].on = calls[i].on
           /\ calls'[i].spared = calls[i].spared
  BY <1>0, <1>1, <1>2, SendFacts
<1>4. Shape' /\ LeaseInv' /\ AddedOnce'
  <2>1. call.op = "abort" /\ call.on \subseteq Chats
    BY <1>1
  <2> HIDE DEF call
  <2> QED BY <1>1, <1>2, <2>1, SendKeepsLeases
<1>5. \A i \in DOMAIN calls' : i \in DOMAIN calls \/ i = n + 1
  BY <1>3
<1>6. \A c \in requests : AbortsAt(n + 1, c)'
  BY <1>0, <1>3 DEF AbortsAt
<1>7. ASSUME NEW c, NEW m, AbortedBefore(c, m) PROVE AbortedBefore(c, m)'
  BY <1>3, <1>7 DEF AbortedBefore, AbortsAt
<1>8. \A k \in DOMAIN calls : \A c : AbortsAt(k, c) => AbortsAt(k, c)'
  BY <1>3 DEF AbortsAt
<1>9. Admitted'
  <2>1. ASSUME NEW k \in DOMAIN calls', NEW c \in Chats, AbortsAt(k, c)' PROVE chat[c] \notin Early
    <3>1. CASE k = n + 1
      BY <1>0, <1>3, <2>1, <3>1 DEF AbortsAt, ChatInv, Admitted
    <3>2. CASE k # n + 1
      BY <1>3, <1>5, <2>1, <3>2 DEF AbortsAt, ChatInv, Admitted
    <3> QED BY <3>1, <3>2
  <2> QED BY <1>2, <2>1 DEF Admitted
<1>10. \A c \in Chats : chat[c] \in Late => \E k \in 1..(n + 1) : AbortsAt(k, c)'
  <2> SUFFICES ASSUME NEW c \in Chats, chat[c] \in Late PROVE \E k \in 1..(n + 1) : AbortsAt(k, c)'
    OBVIOUS
  <2>1. CASE c \in requests
    BY <1>3, <1>6, <2>1
  <2>2. CASE \E k \in DOMAIN calls : AbortsAt(k, c)
    BY <1>3, <1>8, <2>2
  <2> QED BY <2>1, <2>2 DEF ChatInv, Tracked
<1>11. Tracked'
  BY <1>3, <1>10 DEF Tracked
<1>12. Spared'
  <2>1. ASSUME NEW i \in DOMAIN calls, calls'[i].op = "forward", NEW c \in calls'[i].spared
        PROVE  AbortedBefore(c, i)'
    BY <1>3, <1>7, <2>1 DEF ChatInv, Spared
  <2>2. calls'[n + 1].op # "forward"
    BY <1>3
  <2> QED BY <1>5, <2>1, <2>2 DEF Spared
<1>13. Known'
  <2>1. ASSUME NEW v \in Users, NEW c \in known'[v] PROVE AbortedBefore(c, n + 2)'
    <3>1. CASE v = u
      <4>1. c \in Chats /\ chat[c] \in Late
        BY <1>2, <2>1, <3>1 DEF WithEngine, Late
      <4>2. PICK k \in 1..(n + 1) : AbortsAt(k, c)'
        BY <1>10, <4>1
      <4>3. k < n + 2 /\ k \in DOMAIN calls'
        BY <1>3
      <4> QED BY <4>2, <4>3 DEF AbortedBefore
    <3>2. CASE v # u
      <4>1. AbortedBefore(c, n + 1)
        BY <1>0, <1>2, <2>1, <3>2 DEF ChatInv, Known
      <4>2. AbortedBefore(c, n + 2)
        BY <1>3, <4>1 DEF AbortedBefore
      <4> QED BY <1>7, <4>2
    <3> QED BY <3>1, <3>2
  <2>2. Len(calls') + 1 = n + 2
    BY <1>3
  <2> QED BY <2>1, <2>2 DEF Known
<1> QED BY <1>4, <1>9, <1>11, <1>12, <1>13 DEF ChatInv

--------------------------------------------------------------------------------
(* Steps that leave the queue alone. *)

(* How the chats may move while the queue stands still or loses its first call. *)
Settled(c) ==
  /\ chat[c] = "over" => chat'[c] = "over"
  /\ chat'[c] \in Early <=> chat[c] \in Early
  /\ chat'[c] \in Late => chat[c] \in Late

LEMMA QuietKeeps ==
  ASSUME PoolInv, UNCHANGED <<calls, known>>,
         DOMAIN point' = Users, DOMAIN chat' = Chats, DOMAIN refs' = Blocks, DOMAIN hash' = Blocks,
         lease' \subseteq Blocks, requests' \subseteq requests,
         Own', \A b \in Blocks : Job \in refs[b] => Job \in refs'[b],
         point'[Job] \notin Leaving => point[Job] \notin Leaving /\ \A b \in lease' : Job \in refs[b],
         \A c \in Chats : /\ Settled(c)
                          /\ chat[c] = "sent" => chat'[c] = "sent"
                          /\ chat'[c] \in Late /\ c \in requests => c \in requests'
  PROVE  PoolInv'
<1> USE DEF PoolInv
<1>1. Shape'
  BY DEF Shape
<1>2. LeaseInv'
  <2>1. Backed'
    BY DEF LeaseInv, Backed
  <2>2. ReturnsLast'
    BY DEF LeaseInv, ReturnsLast
  <2>3. OnLoan'
    BY DEF LeaseInv, OnLoan, Shape
  <2> QED BY <2>1, <2>2, <2>3 DEF LeaseInv
<1>3. \A k, c : AbortsAt(k, c)' <=> AbortsAt(k, c)
  BY DEF AbortsAt
<1>4. ASSUME NEW c \in Chats, NEW m, AbortedBefore(c, m) PROVE AbortedBefore(c, m)'
  BY <1>4 DEF AbortedBefore, AbortsAt, Settled
<1>5. AddedOnce'
  BY DEF ChatInv, AddedOnce, AbortsAt
<1>6. Admitted'
  BY <1>3 DEF ChatInv, Admitted, Settled, Shape
<1>7. Tracked'
  <2> SUFFICES ASSUME NEW c \in Chats, chat'[c] \in Late
               PROVE  c \in requests' \/ \E k \in DOMAIN calls : AbortsAt(k, c)'
    BY DEF Tracked
  <2>1. c \in requests \/ \E k \in DOMAIN calls : AbortsAt(k, c)
    BY DEF ChatInv, Tracked, Settled
  <2> QED BY <1>3, <2>1
<1>8. Spared'
  <2> SUFFICES ASSUME NEW i \in DOMAIN calls, calls[i].op = "forward", NEW c \in calls[i].spared
               PROVE  AbortedBefore(c, i)'
    BY DEF Spared
  <2>1. c \in Chats
    <3>1. calls[i] \in CallType
      BY DEF Shape
    <3> QED BY <3>1 DEF CallType
  <2> QED BY <1>4, <2>1 DEF ChatInv, Spared
<1>9. Known'
  <2>0. PICK n : n = Len(calls)
    OBVIOUS
  <2> SUFFICES ASSUME NEW u \in Users, NEW c \in known[u] PROVE AbortedBefore(c, n + 1)'
    BY <2>0 DEF Known
  <2>1. c \in Chats
    BY DEF Shape
  <2> QED BY <1>4, <2>0, <2>1 DEF ChatInv, Known
<1> QED BY <1>1, <1>2, <1>5, <1>6, <1>7, <1>8, <1>9 DEF ChatInv

(* A user of the pool goes on without a call. *)
LEMMA AwaitKeeps ==
  ASSUME PoolInv, NEW u \in Users, NEW where, Await(u, where), SendsNothing,
         UNCHANGED <<lease, requests, known, chat, refs, hash>>,
         u = Job /\ where \notin Leaving => point[Job] \notin Leaving
  PROVE  PoolInv'
<1>1. DOMAIN point' = Users /\ \A v \in Users : point'[v] = IF v = u THEN where ELSE point[v]
  BY DEF PoolInv, Shape, Await
<1>2. Job \in Users
  BY DEF Users
<1>3. point'[Job] \notin Leaving => point[Job] \notin Leaving /\ \A b \in lease' : Job \in refs[b]
  BY <1>1, <1>2 DEF PoolInv, LeaseInv, OnLoan
<1>4. Own'
  BY DEF PoolInv, LeaseInv, Own
<1>5. calls' = calls
  BY DEF SendsNothing
<1>6. \A c \in Chats : Settled(c)
  BY DEF Settled
<1>7. /\ DOMAIN chat' = Chats /\ DOMAIN refs' = Blocks /\ DOMAIN hash' = Blocks
      /\ lease' \subseteq Blocks
  BY DEF PoolInv, Shape
<1> QED BY <1>1, <1>3, <1>4, <1>5, <1>6, <1>7, QuietKeeps

--------------------------------------------------------------------------------
(* The engine core executes the first call. *)

LEMMA PopKeeps ==
  ASSUME PoolInv, calls # <<>>, calls' = Tail(calls), UNCHANGED <<point, lease, requests, known>>,
         DOMAIN chat' = Chats, DOMAIN refs' = Blocks, DOMAIN hash' = Blocks, Own',
         First.op = "return" \/ \A b \in Blocks : Job \in refs[b] => Job \in refs'[b],
         \A c \in Chats :
           /\ Settled(c)
           /\ AbortsAt(1, c) => chat'[c] = "over"
           /\ chat[c] = "sent" => \/ chat'[c] = "sent" \/ AbortsAt(1, c)
                                  \/ First.op = "add" /\ First.by = c
  PROVE  PoolInv'
<1> USE DEF PoolInv
<1>0. PICK n : n = Len(calls)
  OBVIOUS
<1>1. /\ calls' \in Seq(CallType) /\ n \in Nat \ {0} /\ Len(calls') = n - 1
      /\ DOMAIN calls = 1..n /\ DOMAIN calls' = 1..(n - 1)
      /\ 1 \in DOMAIN calls /\ First = calls[1]
      /\ \A i \in DOMAIN calls' : i + 1 \in DOMAIN calls /\ calls'[i] = calls[i + 1]
  BY <1>0, ExecutesFacts
<1>2. \A k \in DOMAIN calls' : \A c : AbortsAt(k, c)' <=> AbortsAt(k + 1, c)
  BY <1>1 DEF AbortsAt
<1>3. \A k \in DOMAIN calls : k # 1 => k - 1 \in DOMAIN calls' /\ calls'[k - 1] = calls[k]
  BY <1>1
<1>4. ASSUME NEW k \in DOMAIN calls, k # 1, NEW c, AbortsAt(k, c)
      PROVE  k - 1 \in DOMAIN calls' /\ AbortsAt(k - 1, c)'
  BY <1>3, <1>4 DEF AbortsAt
<1>5. ASSUME NEW c \in Chats, NEW m \in 1..(n + 1), AbortedBefore(c, m) PROVE AbortedBefore(c, m - 1)'
  <2>1. CASE chat[c] = "over"
    BY <2>1 DEF AbortedBefore, Settled
  <2>2. CASE \E k \in DOMAIN calls : k < m /\ AbortsAt(k, c)
    <3>1. PICK k \in DOMAIN calls : k < m /\ AbortsAt(k, c)
      BY <2>2
    <3>2. CASE k = 1
      BY <3>1, <3>2 DEF AbortedBefore
    <3>3. CASE k # 1
      <4>1. k - 1 \in DOMAIN calls' /\ AbortsAt(k - 1, c)' /\ k - 1 < m - 1
        BY <1>1, <1>4, <3>1, <3>3
      <4> QED BY <4>1 DEF AbortedBefore
    <3> QED BY <3>2, <3>3
  <2> QED BY <1>5, <2>1, <2>2 DEF AbortedBefore
<1>6. Shape'
  BY <1>1 DEF Shape
<1>7. LeaseInv'
  <2>1. Backed'
    <3> SUFFICES ASSUME NEW i \in DOMAIN calls', calls'[i].op = "leased", NEW b \in calls'[i].on
                 PROVE  b \in Blocks /\ Job \in refs'[b]
      BY DEF Backed
    <3>1. i + 1 \in DOMAIN calls /\ calls[i + 1].op = "leased" /\ b \in calls[i + 1].on /\ i \in 1..(n - 1)
      BY <1>1
    <3>2. First.op # "return"
      BY <1>1, <3>1 DEF LeaseInv, ReturnsLast
    <3> QED BY <3>1, <3>2 DEF LeaseInv, Backed
  <2>2. ReturnsLast'
    BY <1>1 DEF LeaseInv, ReturnsLast
  <2>3. OnLoan'
    <3> SUFFICES ASSUME point[Job] \notin Leaving
                 PROVE  /\ \A b \in lease : Job \in refs'[b]
                        /\ \A i \in DOMAIN calls' : calls'[i].op # "return"
      BY DEF OnLoan
    <3>1. First.op # "return" /\ \A b \in lease : Job \in refs[b]
      BY <1>1 DEF LeaseInv, OnLoan
    <3>2. \A b \in lease : Job \in refs'[b]
      BY <3>1 DEF Shape
    <3>3. \A i \in DOMAIN calls' : calls'[i].op # "return"
      BY <1>1 DEF LeaseInv, OnLoan
    <3> QED BY <3>2, <3>3
  <2> QED BY <2>1, <2>2, <2>3 DEF LeaseInv
<1>8. AddedOnce'
  <2>1. ASSUME NEW i \in DOMAIN calls', calls'[i].op = "add"
        PROVE  calls'[i].by \in Chats /\ chat'[calls'[i].by] = "sent"
    <3>1. /\ i + 1 \in DOMAIN calls /\ calls'[i] = calls[i + 1] /\ i + 1 # 1 /\ ~(i + 1 < 1)
      BY <1>1
    <3>2. calls'[i].by \in Chats /\ chat[calls'[i].by] = "sent"
      BY <2>1, <3>1 DEF ChatInv, AddedOnce
    <3>3. ~AbortsAt(1, calls'[i].by)
      BY <1>1, <2>1, <3>1 DEF ChatInv, AddedOnce
    <3>4. ~(First.op = "add" /\ First.by = calls'[i].by)
      BY <1>1, <2>1, <3>1 DEF ChatInv, AddedOnce
    <3> QED BY <3>2, <3>3, <3>4
  <2>2. \A i, k \in DOMAIN calls' :
          calls'[i].op = "add" /\ calls'[k].op = "add" /\ calls'[i].by = calls'[k].by => i = k
    BY <1>1 DEF ChatInv, AddedOnce
  <2>3. \A i, k \in DOMAIN calls' :
          calls'[i].op = "add" /\ calls'[k].op = "abort" /\ calls'[i].by \in calls'[k].on => i < k
    BY <1>1 DEF ChatInv, AddedOnce, AbortsAt
  <2> QED BY <2>1, <2>2, <2>3 DEF AddedOnce, AbortsAt
<1>9. Admitted'
  <2>1. \A c \in requests : chat'[c] \notin Early
    BY DEF ChatInv, Admitted, Settled, Shape
  <2>2. \A k \in DOMAIN calls' : \A c \in Chats : AbortsAt(k, c)' => chat'[c] \notin Early
    BY <1>1, <1>2 DEF ChatInv, Admitted, Settled
  <2> QED BY <2>1, <2>2 DEF Admitted
<1>10. Tracked'
  <2> SUFFICES ASSUME NEW c \in Chats, chat'[c] \in Late
               PROVE  c \in requests \/ \E k \in DOMAIN calls' : AbortsAt(k, c)'
    BY DEF Tracked
  <2>1. c \in requests \/ \E k \in DOMAIN calls : AbortsAt(k, c)
    BY DEF ChatInv, Tracked, Settled
  <2>2. ~AbortsAt(1, c)
    BY DEF Late
  <2> QED BY <1>4, <2>1, <2>2
<1>11. Spared'
  <2> SUFFICES ASSUME NEW i \in DOMAIN calls', calls'[i].op = "forward", NEW c \in calls'[i].spared
               PROVE  AbortedBefore(c, i)'
    BY DEF Spared
  <2>1. i + 1 \in DOMAIN calls /\ calls'[i] = calls[i + 1] /\ i + 1 \in 1..(n + 1) /\ i + 1 - 1 = i
    BY <1>1
  <2>2. c \in Chats
    <3>1. calls[i + 1] \in CallType
      BY <2>1 DEF Shape
    <3> QED BY <2>1, <3>1 DEF CallType
  <2>3. AbortedBefore(c, i + 1)
    BY <2>1 DEF ChatInv, Spared
  <2>4. AbortedBefore(c, i + 1 - 1)'
    BY <1>5, <2>1, <2>2, <2>3
  <2> QED BY <2>1, <2>4
<1>12. Known'
  <2> SUFFICES ASSUME NEW u \in Users, NEW c \in known[u] PROVE AbortedBefore(c, n)'
    BY <1>1 DEF Known
  <2>1. PICK m \in 1..(n + 1) : m = n + 1 /\ m - 1 = n
    BY <1>1
  <2>2. c \in Chats /\ AbortedBefore(c, m)
    BY <1>0, <2>1 DEF ChatInv, Known, Shape
  <2>3. AbortedBefore(c, m - 1)'
    BY <1>5, <2>2
  <2> QED BY <2>1, <2>3
<1> QED BY <1>6, <1>7, <1>8, <1>9, <1>10, <1>11, <1>12 DEF ChatInv

--------------------------------------------------------------------------------
(* The actions. *)

LEMMA JobIsNoChat == Job \in Users /\ Round \in Users /\ Job # Round /\ Job \notin Chats
  BY PoolAssumption DEF Users, Job, Round

(* Steps that give references up keep the blocks on loan apart. *)
LEMMA ReleaseKeepsOwn ==
  ASSUME PoolInv, NEW users, Release(users), UNCHANGED hash, users \subseteq Chats \/ users = {Job}
  PROVE  /\ DOMAIN refs' = Blocks /\ Own'
         /\ users # {Job} => \A b \in Blocks : Job \in refs[b] => Job \in refs'[b]
  BY JobIsNoChat DEF PoolInv, LeaseInv, Own, Release

LEMMA CallsAreTyped ==
  ASSUME NEW u \in Users, NEW op \in Ops, NEW on, on \subseteq Blocks, NEW spared,
         spared \subseteq Chats
  PROVE  /\ Call(op, u, on, spared) \in CallType
         /\ Call(op, u, on, spared).op = op /\ Call(op, u, on, spared).on = on
         /\ Call(op, u, on, spared).spared = spared
<1>1. on \in SUBSET (Blocks \cup Chats) /\ spared \in SUBSET Chats
  OBVIOUS
<1>2. u \in Users \cup Chats \cup {"nobody"}
  OBVIOUS
<1>3. [op |-> op, by |-> u, on |-> on, spared |-> spared] \in CallType
  BY <1>1, <1>2, Zenon DEF CallType
<1> QED BY <1>3 DEF Call

(* A call of a user that is neither an abort nor an add. *)
LEMMA CallKeeps ==
  ASSUME PoolInv, NEW u \in Users, NEW op \in Ops \ {"abort", "add"},
         NEW on, on \subseteq Blocks, NEW spared, spared \subseteq Chats, NEW where,
         Send(u, Call(op, u, on, spared), where),
         UNCHANGED <<lease, requests, known, chat, refs, hash>>,
         u = Job => point[Job] \notin Leaving,
         op = "leased" => u = Job /\ on \subseteq lease,
         op = "return" => u = Job /\ where \in Leaving,
         op = "forward" => spared \subseteq known[u]
  PROVE  PoolInv'
<1> DEFINE call == Call(op, u, on, spared)
<1>1. call \in CallType /\ call.op = op /\ call.on = on /\ call.spared = spared
  BY CallsAreTyped
<1>2. Send(u, call, where)
  OBVIOUS
<1> HIDE DEF call
<1>3. /\ call.op \notin {"abort", "add"}
      /\ call.op = "leased" => u = Job /\ call.on \subseteq lease
      /\ call.op = "return" => u = Job /\ where \in Leaving
      /\ call.op = "forward" => call.spared \subseteq known[u]
  BY <1>1
<1> QED BY <1>1, <1>2, <1>3, SendKeeps

LEMMA ResetKeeps ==
  ASSUME PoolInv, NEW u \in Users, NEW op \in {"reset", "resetRunning"}, ResetCache(u, op),
         UNCHANGED <<lease, requests, known, chat, refs, hash>>,
         u = Job => point[Job] \notin Leaving
  PROVE  PoolInv'
<1>1. op \in Ops \ {"abort", "add"} /\ op \notin {"leased", "return", "forward"}
  BY DEF Ops
<1>2. Send(u, Call(op, u, {}, {}), op)
  BY DEF ResetCache
<1>3. {} \subseteq Blocks /\ {} \subseteq Chats
  OBVIOUS
<1> QED BY <1>1, <1>2, <1>3, CallKeeps

LEMMA AbortsAndAwaitsKeeps ==
  ASSUME PoolInv, NEW u \in Users, NEW where, NEW next, AbortsAndAwaits(u, where, next),
         UNCHANGED <<lease, chat, refs, hash>>,
         u = Job => point[Job] \notin Leaving
  PROVE  PoolInv'
<1>1. CASE AbortAll(u, where)
  BY <1>1, AbortAllKeeps
<1>2. CASE Await(u, next) /\ SendsNothing /\ UNCHANGED <<known, requests>>
  BY <1>2, AwaitKeeps
<1> QED BY <1>1, <1>2 DEF AbortsAndAwaits

LEMMA InPlaceChunkKeeps ==
  ASSUME PoolInv, NEW u \in Users, InPlaceChunk(u),
         UNCHANGED <<lease, chat, refs, hash>>,
         u = Job => point[Job] \notin Leaving
  PROVE  PoolInv'
<1>1. CASE AbortAll(u, "reAbort")
  BY <1>1, AbortAllKeeps
<1>2. CASE Send(u, Call("forward", u, InPlace, {}), "forward") /\ UNCHANGED <<known, requests>>
  <2>1. "forward" \in Ops \ {"abort", "add"} /\ InPlace \subseteq Blocks /\ {} \subseteq Chats
    BY PoolAssumption DEF Ops
  <2>2. {} \subseteq known[u]
    OBVIOUS
  <2> QED BY <1>2, <2>1, <2>2, CallKeeps
<1> QED BY <1>1, <1>2 DEF InPlaceChunk

LEMMA RoundKeeps == PoolInv /\ RoundStep => PoolInv'
<1> SUFFICES ASSUME PoolInv, RoundStep PROVE PoolInv'
  OBVIOUS
<1> USE JobIsNoChat DEF pool
<1>1. CASE RoundBegins
  BY <1>1, AbortsAndAwaitsKeeps DEF RoundBegins
<1>2. CASE RoundSpawned
  BY <1>2, AwaitKeeps DEF RoundSpawned, SendsNothing
<1>3. CASE RoundForward
  BY <1>3, InPlaceChunkKeeps DEF RoundForward
<1>4. CASE RoundStopped
  <2>1. UNCHANGED <<lease, requests, known, chat, refs, hash>>
    BY <1>4 DEF RoundStopped
  <2>2. CASE Await(Round, "done") /\ SendsNothing
    BY <2>1, <2>2, AwaitKeeps
  <2>3. CASE ResetCache(Round, "reset")
    BY <2>1, <2>3, ResetKeeps
  <2> QED BY <1>4, <2>2, <2>3 DEF RoundStopped
<1>5. CASE RoundCrashes
  BY <1>5, ResetKeeps DEF RoundCrashes
<1>6. CASE RoundDone
  BY <1>6, AwaitKeeps DEF RoundDone, SendsNothing
<1> QED BY <1>1, <1>2, <1>3, <1>4, <1>5, <1>6 DEF RoundStep

LEMMA JobKeeps == PoolInv /\ JobStep => PoolInv'
<1> SUFFICES ASSUME PoolInv, JobStep PROVE PoolInv'
  OBVIOUS
<1> USE JobIsNoChat DEF pool
<1>0. {} \subseteq Blocks /\ {} \subseteq Chats /\ {"borrow", "leased", "return"} \subseteq Ops \ {"abort", "add"}
  BY DEF Ops
<1>1. CASE JobBegins
  <2>1. UNCHANGED <<lease, chat, refs, hash>> /\ point[Job] \notin Leaving
    BY <1>1 DEF JobBegins, Leaving
  <2>2. CASE Send(Job, Call("borrow", Job, {}, {}), "borrow") /\ UNCHANGED <<known, requests>>
    BY <1>0, <2>1, <2>2, CallKeeps
  <2>3. CASE AbortsAndAwaits(Job, "legacyAbort", "chunk")
    BY <2>1, <2>3, AbortsAndAwaitsKeeps
  <2> QED BY <1>1, <2>2, <2>3 DEF JobBegins
<1>2. CASE JobBorrows
  <2>1. /\ DOMAIN point' = Users /\ point[Job] \notin Leaving
        /\ lease' \subseteq Blocks /\ \A b \in lease' : Job \in refs[b]
    BY <1>2 DEF JobBorrows, Await, Leaving, PoolInv, Shape
  <2>2. UNCHANGED <<calls, known, requests, chat, refs, hash>>
    BY <1>2 DEF JobBorrows
  <2>3. Own' /\ \A c \in Chats : Settled(c)
    BY <2>2 DEF PoolInv, LeaseInv, Own, Settled
  <2>4. DOMAIN chat' = Chats /\ DOMAIN refs' = Blocks /\ DOMAIN hash' = Blocks
    BY <2>2 DEF PoolInv, Shape
  <2> QED BY <2>1, <2>2, <2>3, <2>4, QuietKeeps
<1>3. CASE JobEscalates
  <2>1. UNCHANGED <<lease, chat, refs, hash>> /\ point[Job] \notin Leaving
    BY <1>3 DEF JobEscalates, Leaving
  <2>2. CASE AbortsAndAwaits(Job, "escalated", "escalated")
    BY <2>1, <2>2, AbortsAndAwaitsKeeps
  <2>3. CASE Await(Job, "chunk") /\ SendsNothing /\ UNCHANGED <<known, requests>>
    BY <2>1, <2>3, AwaitKeeps
  <2> QED BY <1>3, <2>2, <2>3 DEF JobEscalates
<1>4. CASE JobEscalated
  <2>1. UNCHANGED <<lease, known, chat, requests, refs, hash>> /\ point[Job] \notin Leaving
    BY <1>4 DEF JobEscalated, Leaving
  <2>2. CASE Await(Job, "chunk") /\ SendsNothing
    BY <2>1, <2>2, AwaitKeeps
  <2>3. CASE Send(Job, Call("borrow", Job, {}, {}), "reborrow")
    BY <1>0, <2>1, <2>3, CallKeeps
  <2> QED BY <1>4, <2>2, <2>3 DEF JobEscalated
<1>5. CASE JobChunk
  <2>1. UNCHANGED <<lease, chat, refs, hash>> /\ point[Job] \notin Leaving
    BY <1>5 DEF JobChunk, Leaving
  <2>2. CASE Send(Job, Call("leased", Job, lease, {}), "forward") /\ UNCHANGED <<known, requests>>
    <3>1. PICK lent : lent = lease
      OBVIOUS
    <3>2. lent \subseteq Blocks /\ lent \subseteq lease
      BY <3>1 DEF PoolInv, Shape
    <3>3. Send(Job, Call("leased", Job, lent, {}), "forward")
      BY <2>2, <3>1
    <3> QED BY <1>0, <2>1, <2>2, <3>2, <3>3, CallKeeps
  <2>3. CASE InPlaceChunk(Job)
    BY <2>1, <2>3, InPlaceChunkKeeps
  <2> QED BY <1>5, <2>2, <2>3 DEF JobChunk
<1>6. CASE JobChunkEnds
  <2>1. /\ UNCHANGED <<lease, known, chat, requests, refs, hash>> /\ point[Job] \notin Leaving
        /\ "return" \in Leaving
    BY <1>6 DEF JobChunkEnds, Leaving
  <2>2. CASE Await(Job, "chunk") /\ SendsNothing
    BY <2>1, <2>2, AwaitKeeps
  <2>3. CASE JobLeaves /\ lease = {}
    BY <2>1, <2>3, ResetKeeps DEF JobLeaves
  <2>4. CASE JobLeaves /\ lease # {}
    <3>1. PICK lent : lent = lease
      OBVIOUS
    <3>2. lent \subseteq Blocks
      BY <3>1 DEF PoolInv, Shape
    <3>3. Send(Job, Call("return", Job, lent, {}), "return")
      BY <2>4, <3>1 DEF JobLeaves
    <3> QED BY <1>0, <2>1, <3>2, <3>3, CallKeeps
  <2> QED BY <1>6, <2>2, <2>3, <2>4 DEF JobChunkEnds
<1>7. CASE JobReturned
  <2>1. /\ DOMAIN point' = Users /\ point'[Job] \in Leaving /\ lease' = {}
    BY <1>7 DEF JobReturned, Await, Leaving, PoolInv, Shape
  <2>2. UNCHANGED <<calls, known, requests, chat, refs, hash>>
    BY <1>7 DEF JobReturned
  <2>3. Own' /\ \A c \in Chats : Settled(c)
    BY <2>2 DEF PoolInv, LeaseInv, Own, Settled
  <2>4. DOMAIN chat' = Chats /\ DOMAIN refs' = Blocks /\ DOMAIN hash' = Blocks
    BY <2>2 DEF PoolInv, Shape
  <2> QED BY <2>1, <2>2, <2>3, <2>4, QuietKeeps
<1> QED BY <1>1, <1>2, <1>3, <1>4, <1>5, <1>6, <1>7 DEF JobStep

LEMMA BothKeep ==
  ASSUME PoolInv, NEW u \in Users, Reaborted(u) \/ ResetAnswered(u) PROVE PoolInv'
<1> USE JobIsNoChat DEF pool
<1>1. CASE Reaborted(u)
  <2>1. /\ UNCHANGED <<lease, known, chat, requests, refs, hash>>
        /\ u = Job => point[Job] \notin Leaving
    BY <1>1 DEF Reaborted, Leaving
  <2>2. PICK spared : spared = known[u]
    OBVIOUS
  <2>3. spared \subseteq Chats /\ spared \subseteq known[u]
    BY <2>2 DEF PoolInv, Shape
  <2>4. Send(u, Call("forward", u, InPlace, spared), "forward")
    BY <1>1, <2>2 DEF Reaborted
  <2>5. "forward" \in Ops \ {"abort", "add"} /\ InPlace \subseteq Blocks
    BY PoolAssumption DEF Ops
  <2> QED BY <2>1, <2>3, <2>4, <2>5, CallKeeps
<1>2. CASE ResetAnswered(u)
  <2>1. UNCHANGED <<lease, known, chat, requests, refs, hash>>
    BY <1>2 DEF ResetAnswered
  <2>2. u = Job => point[Job] \notin Leaving
    BY <1>2 DEF ResetAnswered, Leaving
  <2>3. CASE ResetCache(u, "resetRunning")
    BY <2>1, <2>2, <2>3, ResetKeeps
  <2>4. CASE Ends(u) /\ SendsNothing
    BY <2>1, <2>2, <2>4, AwaitKeeps DEF Ends
  <2> QED BY <1>2, <2>3, <2>4 DEF ResetAnswered
<1> QED BY <1>1, <1>2

(* A request the engine client takes: it was unknown, so nothing queued aborts it. *)
LEMMA AddKeeps ==
  ASSUME PoolInv, NEW c \in Chats, AddRequest(c) PROVE PoolInv'
<1> USE DEF PoolInv, pool, frontend
<1>0. PICK n : n = Len(calls)
  OBVIOUS
<1> DEFINE call == Call("add", c, {}, {})
<1>1. call \in CallType /\ call.op = "add" /\ call.by = c /\ call.on = {} /\ call.spared = {}
  <2>1. "add" \in Ops /\ {} \in SUBSET (Blocks \cup Chats) /\ {} \in SUBSET Chats
    BY DEF Ops
  <2>2. [op |-> "add", by |-> c, on |-> {}, spared |-> {}] \in CallType
    BY <2>1, Zenon DEF CallType
  <2> QED BY <2>2 DEF Call
<1>2. /\ calls' = Append(calls, call) /\ requests' = requests \cup {c} /\ chat[c] = "admitted"
      /\ chat' = [chat EXCEPT ![c] = "sent"]
      /\ UNCHANGED <<point, lease, known, refs, hash>>
  BY DEF AddRequest
<1> HIDE DEF call
<1>3. /\ calls' \in Seq(CallType) /\ n \in Nat /\ Len(calls') = n + 1
      /\ DOMAIN calls = 1..n /\ DOMAIN calls' = 1..(n + 1) /\ calls'[n + 1] = call
      /\ \A i \in DOMAIN calls : calls'[i] = calls[i]
  BY <1>0, <1>1, <1>2, AppendProperties DEF Shape
<1>4. \A i \in DOMAIN calls' : i \in DOMAIN calls \/ i = n + 1
  BY <1>3
<1>5. /\ DOMAIN chat' = Chats /\ chat'[c] = "sent"
      /\ \A d \in Chats : d # c => chat'[d] = chat[d]
  BY <1>2 DEF Shape
<1>6. Shape'
  BY <1>1, <1>2, <1>3, <1>4, <1>5 DEF Shape
<1>7. LeaseInv'
  <2>1. Own' /\ Backed'
    BY <1>1, <1>2, <1>3, <1>4 DEF LeaseInv, Own, Backed
  <2>2. ReturnsLast'
    BY <1>1, <1>3, <1>4 DEF LeaseInv, ReturnsLast
  <2>3. OnLoan'
    BY <1>1, <1>2, <1>3, <1>4 DEF LeaseInv, OnLoan
  <2> QED BY <2>1, <2>2, <2>3 DEF LeaseInv
<1>8. /\ \A k \in DOMAIN calls' : \A d : AbortsAt(k, d)' => k \in DOMAIN calls /\ AbortsAt(k, d)
      /\ \A k \in DOMAIN calls : \A d : AbortsAt(k, d) => AbortsAt(k, d)'
  BY <1>1, <1>3, <1>4 DEF AbortsAt
<1>9. ASSUME NEW d \in Chats, NEW m, AbortedBefore(d, m) PROVE AbortedBefore(d, m)'
  <2>1. CASE chat[d] = "over"
    BY <1>2, <1>5, <2>1 DEF AbortedBefore
  <2>2. CASE \E k \in DOMAIN calls : k < m /\ AbortsAt(k, d)
    BY <1>3, <1>8, <2>2 DEF AbortedBefore
  <2> QED BY <1>9, <2>1, <2>2 DEF AbortedBefore
<1>10. \A k \in DOMAIN calls : ~AbortsAt(k, c)
  BY <1>2 DEF ChatInv, Admitted, Early
<1>11. AddedOnce'
  <2>1. ASSUME NEW i \in DOMAIN calls, calls'[i].op = "add"
        PROVE  calls'[i].by \in Chats /\ chat'[calls'[i].by] = "sent" /\ calls'[i].by # c
    <3>1. calls[i].by \in Chats /\ chat[calls[i].by] = "sent"
      BY <1>3, <2>1 DEF ChatInv, AddedOnce
    <3>2. calls[i].by # c
      BY <1>2, <3>1
    <3> QED BY <1>3, <1>5, <3>1, <3>2
  <2>2. \A i \in DOMAIN calls' : calls'[i].op = "add" =>
          calls'[i].by \in Chats /\ chat'[calls'[i].by] = "sent"
    BY <1>1, <1>3, <1>4, <1>5, <2>1
  <2>3. \A i, k \in DOMAIN calls' :
          calls'[i].op = "add" /\ calls'[k].op = "add" /\ calls'[i].by = calls'[k].by => i = k
    BY <1>1, <1>3, <1>4, <2>1 DEF ChatInv, AddedOnce
  <2>4. ASSUME NEW i \in DOMAIN calls', NEW k \in DOMAIN calls', calls'[i].op = "add",
               calls'[k].op = "abort", calls'[i].by \in calls'[k].on
        PROVE  i < k
    <3>1. k \in DOMAIN calls /\ calls[k] = calls'[k]
      BY <1>1, <1>3, <1>4, <2>4
    <3>2. AbortsAt(k, calls'[i].by)
      BY <2>4, <3>1 DEF AbortsAt
    <3>3. i # n + 1
      BY <1>1, <1>3, <1>10, <3>1, <3>2
    <3>4. i \in DOMAIN calls /\ calls[i] = calls'[i]
      BY <1>3, <1>4, <3>3
    <3> QED BY <2>4, <3>1, <3>2, <3>4 DEF ChatInv, AddedOnce
  <2> QED BY <2>2, <2>3, <2>4 DEF AddedOnce, AbortsAt
<1>12. Admitted'
  <2>1. \A d \in requests' : chat'[d] \notin Early
    BY <1>2, <1>5 DEF ChatInv, Admitted, Early, Shape
  <2>2. \A k \in DOMAIN calls' : \A d \in Chats : AbortsAt(k, d)' => chat'[d] \notin Early
    BY <1>5, <1>8, <1>10 DEF ChatInv, Admitted
  <2> QED BY <2>1, <2>2 DEF Admitted
<1>13. Tracked'
  <2> SUFFICES ASSUME NEW d \in Chats, chat'[d] \in Late
               PROVE  d \in requests' \/ \E k \in DOMAIN calls' : AbortsAt(k, d)'
    BY DEF Tracked
  <2>1. CASE d = c
    BY <1>2, <2>1
  <2>2. CASE d # c
    <3>1. d \in requests \/ \E k \in DOMAIN calls : AbortsAt(k, d)
      BY <1>5, <2>2 DEF ChatInv, Tracked
    <3>2. DOMAIN calls \subseteq DOMAIN calls'
      BY <1>3
    <3> QED BY <1>2, <1>8, <3>1, <3>2
  <2> QED BY <2>1, <2>2
<1>14. Spared'
  <2> SUFFICES ASSUME NEW i \in DOMAIN calls', calls'[i].op = "forward", NEW d \in calls'[i].spared
               PROVE  AbortedBefore(d, i)'
    BY DEF Spared
  <2>1. i \in DOMAIN calls /\ calls[i] = calls'[i]
    BY <1>1, <1>3, <1>4
  <2>2. d \in Chats
    <3>1. calls[i] \in CallType
      BY <2>1 DEF Shape
    <3> QED BY <2>1, <3>1 DEF CallType
  <2> QED BY <1>9, <2>1, <2>2 DEF ChatInv, Spared
<1>15. Known'
  <2> SUFFICES ASSUME NEW u \in Users, NEW d \in known[u] PROVE AbortedBefore(d, n + 2)'
    <3>1. Len(calls') + 1 = n + 2
      BY <1>3
    <3> QED BY <1>2, <3>1 DEF Known
  <2>1. d \in Chats /\ AbortedBefore(d, n + 1)
    BY <1>0 DEF ChatInv, Known, Shape
  <2>2. AbortedBefore(d, n + 2)
    BY <1>3, <2>1 DEF AbortedBefore
  <2> QED BY <1>9, <2>1, <2>2
<1> QED BY <1>6, <1>7, <1>11, <1>12, <1>13, <1>14, <1>15 DEF ChatInv

LEMMA ChatKeeps ==
  ASSUME PoolInv, NEW c \in Chats, ChatStep(c) PROVE PoolInv'
<1> USE JobIsNoChat DEF pool, frontend
<1>1. CASE Dispatch(c)
  <2>1. UNCHANGED <<calls, known, point, lease, requests, refs, hash>>
    BY <1>1 DEF Dispatch
  <2>2. DOMAIN chat' = Chats /\ DOMAIN point' = Users /\ DOMAIN refs' = Blocks /\ DOMAIN hash' = Blocks
    BY <1>1, <2>1 DEF Dispatch, PoolInv, Shape
  <2>3. \A d \in Chats : /\ Settled(d)
                         /\ chat[d] = "sent" => chat'[d] = "sent"
    BY <1>1 DEF Dispatch, Settled, Early, Late, PoolInv, Shape
  <2>4. Own' /\ lease' \subseteq Blocks
    BY <2>1 DEF PoolInv, LeaseInv, Own, Shape
  <2>5. point'[Job] \notin Leaving => point[Job] \notin Leaving /\ \A b \in lease' : Job \in refs[b]
    BY <2>1 DEF PoolInv, LeaseInv, OnLoan
  <2> QED BY <2>1, <2>2, <2>3, <2>4, <2>5, QuietKeeps
<1>2. CASE AddRequest(c)
  BY <1>2, AddKeeps
<1>3. CASE Schedule(c)
  <2>1. UNCHANGED <<calls, known, point, lease, requests>> /\ chat[c] = "waiting"
    BY <1>3 DEF Schedule
  <2>2. DOMAIN chat' = Chats /\ DOMAIN point' = Users /\ DOMAIN refs' = Blocks /\ DOMAIN hash' = Blocks
    BY <1>3, <2>1 DEF Schedule, PoolInv, Shape
  <2>3. \A d \in Chats : /\ Settled(d)
                         /\ chat[d] = "sent" => chat'[d] = "sent"
    BY <1>3 DEF Schedule, Settled, Early, Late, PoolInv, Shape
  <2>4. Own' /\ \A d \in Blocks : Job \in refs[d] => Job \in refs'[d]
    <3>0. Prompt[c] # None /\ Job # c
      BY PoolAssumption
    <3>1. PICK b \in Blocks :
       \/ hash[b] = Prompt[c] /\ refs' = [refs EXCEPT ![b] = @ \cup {c}] /\ UNCHANGED hash
       \/ refs[b] = {} /\ refs' = [refs EXCEPT ![b] = {c}] /\ hash' = [hash EXCEPT ![b] = Prompt[c]]
      BY <1>3 DEF Schedule
    <3>2. Job \notin refs[b] /\ Job \notin refs'[b]
      BY <3>0, <3>1 DEF PoolInv, LeaseInv, Own, Shape
    <3>3. \A d \in Blocks : d # b => refs'[d] = refs[d] /\ hash'[d] = hash[d]
      BY <3>1 DEF PoolInv, Shape
    <3> QED BY <3>2, <3>3 DEF PoolInv, LeaseInv, Own
  <2>5. point'[Job] \notin Leaving => point[Job] \notin Leaving /\ \A b \in lease' : Job \in refs[b]
    BY <2>1 DEF PoolInv, LeaseInv, OnLoan
  <2>6. lease' \subseteq Blocks
    BY <2>1 DEF PoolInv, Shape
  <2> QED BY <2>1, <2>2, <2>3, <2>4, <2>5, <2>6, QuietKeeps
<1>4. CASE Finish(c)
  <2>1. UNCHANGED <<calls, known, point, lease, hash>> /\ chat[c] = "running" /\ requests' = requests \ {c}
    BY <1>4 DEF Finish
  <2>2. DOMAIN chat' = Chats /\ DOMAIN point' = Users /\ DOMAIN hash' = Blocks
    BY <1>4, <2>1 DEF Finish, PoolInv, Shape
  <2>3. \A d \in Chats : /\ Settled(d)
                         /\ chat[d] = "sent" => chat'[d] = "sent"
                         /\ chat'[d] \in Late /\ d \in requests => d \in requests'
    BY <1>4, <2>1 DEF Finish, Settled, Early, Late, PoolInv, Shape
  <2>4. /\ DOMAIN refs' = Blocks /\ Own'
        /\ \A b \in Blocks : Job \in refs[b] => Job \in refs'[b]
    <3>1. PICK users : users = {c}
      OBVIOUS
    <3>2. Release(users) /\ UNCHANGED hash /\ users \subseteq Chats /\ users # {Job}
      BY <1>4, <2>1, <3>1 DEF Finish
    <3> QED BY <3>2, ReleaseKeepsOwn
  <2>5. point'[Job] \notin Leaving => point[Job] \notin Leaving /\ \A b \in lease' : Job \in refs[b]
    BY <2>1 DEF PoolInv, LeaseInv, OnLoan
  <2>6. lease' \subseteq Blocks
    BY <2>1 DEF PoolInv, Shape
  <2> QED BY <2>1, <2>2, <2>3, <2>4, <2>5, <2>6, QuietKeeps
<1> QED BY <1>1, <1>2, <1>3, <1>4 DEF ChatStep

(* What every step of the engine core leaves alone, and where the first call stands. *)
LEMMA FirstFacts ==
  ASSUME PoolInv, calls # <<>>
  PROVE  /\ 1 \in DOMAIN calls /\ First = calls[1] /\ First.on \subseteq Blocks \cup Chats
         /\ First.spared \subseteq Chats
         /\ \A c : AbortsAt(1, c) <=> First.op = "abort" /\ c \in First.on
<1>1. 1 \in DOMAIN calls /\ First = calls[1]
  BY EmptySeq DEF PoolInv, Shape, First
<1>2. calls[1] \in CallType
  BY <1>1 DEF PoolInv, Shape
<1> QED BY <1>1, <1>2 DEF CallType, AbortsAt

(* A call that moves no request but to preempt it. *)
LEMMA PopSparesChats ==
  ASSUME PoolInv, NEW op, Executes(op), op # "abort", op # "add",
         UNCHANGED <<point, lease, requests, known>>,
         \/ chat' = chat
         \/ chat' = [c \in Chats |-> IF chat[c] = "running" THEN "waiting" ELSE chat[c]],
         DOMAIN refs' = Blocks, DOMAIN hash' = Blocks, Own',
         op = "return" \/ \A b \in Blocks : Job \in refs[b] => Job \in refs'[b]
  PROVE  PoolInv'
<1>1. calls # <<>> /\ calls' = Tail(calls) /\ First.op = op
  BY DEF Executes
<1>2. \A c : ~AbortsAt(1, c)
  BY <1>1, FirstFacts
<1>3. DOMAIN chat' = Chats
  BY DEF PoolInv, Shape
<1>4. \A c \in Chats : /\ Settled(c)
                       /\ AbortsAt(1, c) => chat'[c] = "over"
                       /\ chat[c] = "sent" => \/ chat'[c] = "sent" \/ AbortsAt(1, c)
                                              \/ First.op = "add" /\ First.by = c
  BY <1>2 DEF Settled, Early, Late
<1> QED BY <1>1, <1>3, <1>4, PopKeeps

LEMMA EngineKeeps == PoolInv /\ EngineStep => PoolInv'
<1> SUFFICES ASSUME PoolInv, EngineStep PROVE PoolInv'
  OBVIOUS
<1> USE JobIsNoChat DEF pool, frontend
<1>0. /\ DOMAIN chat = Chats /\ DOMAIN refs = Blocks /\ DOMAIN hash = Blocks /\ Own
  BY DEF PoolInv, Shape, LeaseInv
<1>1. CASE EngineAdds
  <2>1. /\ calls # <<>> /\ calls' = Tail(calls) /\ First.op = "add"
        /\ chat' = [chat EXCEPT ![First.by] = "waiting"]
        /\ UNCHANGED <<point, lease, requests, known, refs, hash>>
    BY <1>1 DEF EngineAdds, Executes
  <2>2. First.by \in Chats /\ chat[First.by] = "sent"
    BY <2>1, FirstFacts DEF PoolInv, ChatInv, AddedOnce
  <2>3. \A c : ~AbortsAt(1, c)
    BY <2>1, FirstFacts
  <2>4. \A c \in Chats : /\ Settled(c)
                         /\ AbortsAt(1, c) => chat'[c] = "over"
                         /\ chat[c] = "sent" => \/ chat'[c] = "sent" \/ AbortsAt(1, c)
                                                \/ First.op = "add" /\ First.by = c
    BY <1>0, <2>1, <2>2, <2>3 DEF Settled, Early, Late
  <2>5. DOMAIN chat' = Chats /\ DOMAIN refs' = Blocks /\ DOMAIN hash' = Blocks
    BY <1>0, <2>1
  <2>6. Own' /\ \A b \in Blocks : Job \in refs[b] => Job \in refs'[b]
    BY <1>0, <2>1 DEF Own
  <2> QED BY <2>1, <2>4, <2>5, <2>6, PopKeeps
<1>2. CASE EngineAborts
  <2>1. /\ calls # <<>> /\ calls' = Tail(calls) /\ First.op = "abort"
        /\ chat' = [c \in Chats |-> IF c \in First.on THEN "over" ELSE chat[c]]
        /\ Release(First.on) /\ UNCHANGED <<point, lease, requests, known, hash>>
    BY <1>2 DEF EngineAborts, Executes
  <2>2. PICK users : users = First.on
    OBVIOUS
  <2>3. users \subseteq Chats
    BY <2>1, <2>2, FirstFacts DEF PoolInv, Shape
  <2>4. Release(users) /\ users # {Job}
    BY <2>1, <2>2, <2>3
  <2>5. DOMAIN refs' = Blocks /\ Own' /\ \A b \in Blocks : Job \in refs[b] => Job \in refs'[b]
    BY <2>1, <2>3, <2>4, ReleaseKeepsOwn
  <2>6. \A c : AbortsAt(1, c) <=> c \in First.on
    BY <2>1, FirstFacts
  <2>7. \A c \in Chats : AbortsAt(1, c) => chat[c] \notin Early
    BY <2>1, FirstFacts DEF PoolInv, ChatInv, Admitted
  <2>8. \A c \in Chats : /\ Settled(c)
                         /\ AbortsAt(1, c) => chat'[c] = "over"
                         /\ chat[c] = "sent" => \/ chat'[c] = "sent" \/ AbortsAt(1, c)
                                                \/ First.op = "add" /\ First.by = c
    BY <2>1, <2>6, <2>7 DEF Settled, Early, Late
  <2>9. DOMAIN chat' = Chats /\ DOMAIN hash' = Blocks
    BY <1>0, <2>1
  <2> QED BY <2>1, <2>5, <2>8, <2>9, PopKeeps
<1>3. CASE EngineForwards
  <2>1. UNCHANGED <<point, lease, requests, known, chat, refs, hash>>
    BY <1>3 DEF EngineForwards
  <2>2. Own' /\ \A b \in Blocks : Job \in refs[b] => Job \in refs'[b]
    BY <1>0, <2>1 DEF Own
  <2>3. DOMAIN refs' = Blocks /\ DOMAIN hash' = Blocks
    BY <1>0, <2>1
  <2>4. CASE Executes("forward")
    BY <2>1, <2>2, <2>3, <2>4, PopSparesChats
  <2>5. CASE Executes("leased")
    BY <2>1, <2>2, <2>3, <2>5, PopSparesChats
  <2> QED BY <1>3, <2>4, <2>5 DEF EngineForwards
<1>4. CASE EngineLends
  <2>1. Executes("borrow") /\ UNCHANGED <<point, lease, requests, known, chat>>
    BY <1>4 DEF EngineLends
  <2>2. CASE UNCHANGED <<refs, hash>>
    <3>1. Own' /\ \A b \in Blocks : Job \in refs[b] => Job \in refs'[b]
      BY <1>0, <2>2 DEF Own
    <3>2. DOMAIN refs' = Blocks /\ DOMAIN hash' = Blocks
      BY <1>0, <2>2
    <3> QED BY <2>1, <3>1, <3>2, PopSparesChats
  <2>3. CASE \E lent \in SUBSET Lendable :
               /\ refs' = [b \in Blocks |-> IF b \in lent THEN refs[b] \cup {Job} ELSE refs[b]]
               /\ Lent(lent)
    <3>1. PICK lent \in SUBSET Lendable :
               /\ refs' = [b \in Blocks |-> IF b \in lent THEN refs[b] \cup {Job} ELSE refs[b]]
               /\ hash' = [b \in Blocks |-> IF b \in lent THEN None ELSE hash[b]]
      BY <2>3 DEF Lent
    <3>2. \A b \in lent : refs[b] = {}
      BY DEF Lendable, Free
    <3>3. Own' /\ \A b \in Blocks : Job \in refs[b] => Job \in refs'[b]
      BY <1>0, <3>1, <3>2 DEF Own
    <3>4. DOMAIN refs' = Blocks /\ DOMAIN hash' = Blocks
      BY <3>1
    <3> QED BY <2>1, <3>3, <3>4, PopSparesChats
  <2> QED BY <1>4, <2>2, <2>3 DEF EngineLends
<1>5. CASE EngineTakesBack
  <2>1. Executes("return") /\ UNCHANGED <<point, lease, requests, known, chat, hash>> /\ Release({Job})
    BY <1>5 DEF EngineTakesBack
  <2>2. DOMAIN refs' = Blocks /\ Own'
    BY <2>1, ReleaseKeepsOwn
  <2>3. DOMAIN hash' = Blocks
    BY <1>0, <2>1
  <2> QED BY <2>1, <2>2, <2>3, PopSparesChats
<1>6. CASE EngineResets
  <2>1. Executes("reset") /\ UNCHANGED <<point, lease, requests, known, chat, refs>>
    BY <1>6 DEF EngineResets
  <2>2. hash' = [b \in Blocks |-> None] \/ UNCHANGED hash
    BY <1>6 DEF EngineResets, DropsHashes
  <2>3. Own' /\ \A b \in Blocks : Job \in refs[b] => Job \in refs'[b]
    BY <1>0, <2>1, <2>2 DEF Own
  <2>4. DOMAIN refs' = Blocks /\ DOMAIN hash' = Blocks
    BY <1>0, <2>1, <2>2
  <2> QED BY <2>1, <2>3, <2>4, PopSparesChats
<1>7. CASE EnginePreempts
  <2>1. /\ Executes("resetRunning") /\ UNCHANGED <<point, lease, requests, known>>
        /\ chat' = [c \in Chats |-> IF chat[c] = "running" THEN "waiting" ELSE chat[c]]
        /\ refs' = [b \in Blocks |-> refs[b] \ Chats]
    BY <1>7 DEF EnginePreempts, Release
  <2>2. hash' = [b \in Blocks |-> None] \/ UNCHANGED hash
    BY <1>7 DEF EnginePreempts, DropsHashes
  <2>3. Own' /\ \A b \in Blocks : Job \in refs[b] => Job \in refs'[b]
    BY <1>0, <2>1, <2>2 DEF Own
  <2>4. DOMAIN refs' = Blocks /\ DOMAIN hash' = Blocks
    BY <1>0, <2>1, <2>2
  <2> QED BY <2>1, <2>3, <2>4, PopSparesChats
<1>8. CASE EngineResetRaises
  <2>1. UNCHANGED <<point, lease, requests, known, chat, refs, hash>>
    BY <1>8 DEF EngineResetRaises
  <2>2. Own' /\ \A b \in Blocks : Job \in refs[b] => Job \in refs'[b]
    BY <1>0, <2>1 DEF Own
  <2>3. DOMAIN refs' = Blocks /\ DOMAIN hash' = Blocks
    BY <1>0, <2>1
  <2>4. CASE Executes("reset")
    BY <2>1, <2>2, <2>3, <2>4, PopSparesChats
  <2>5. CASE Executes("resetRunning")
    BY <2>1, <2>2, <2>3, <2>5, PopSparesChats
  <2> QED BY <1>8, <2>4, <2>5 DEF EngineResetRaises
<1> QED BY <1>1, <1>2, <1>3, <1>4, <1>5, <1>6, <1>7, <1>8 DEF EngineStep

--------------------------------------------------------------------------------
(* The specification. *)

LEMMA PoolInit == Init => PoolInv
<1> SUFFICES ASSUME Init PROVE PoolInv
  OBVIOUS
<1>1. calls \in Seq(CallType) /\ DOMAIN calls = {} /\ Len(calls) = 0
  BY DEF Init
<1>2. Shape
  BY <1>1 DEF Init, Shape
<1>3. LeaseInv
  BY <1>1 DEF Init, LeaseInv, Own, Backed, ReturnsLast, OnLoan
<1>4. ChatInv
  BY <1>1 DEF Init, ChatInv, AddedOnce, Admitted, Tracked, Spared, Known, Late
<1> QED BY <1>2, <1>3, <1>4 DEF PoolInv

LEMMA PoolStep == PoolInv /\ [Next]_vars => PoolInv'
<1> SUFFICES ASSUME PoolInv, [Next]_vars PROVE PoolInv'
  OBVIOUS
<1>1. CASE RoundStep
  BY <1>1, RoundKeeps
<1>2. CASE JobStep
  BY <1>2, JobKeeps
<1>3. CASE EngineStep
  BY <1>3, EngineKeeps
<1>4. CASE \E u \in Users : Reaborted(u) \/ ResetAnswered(u)
  BY <1>4, BothKeep
<1>5. CASE \E c \in Chats : ChatStep(c)
  BY <1>5, ChatKeeps
<1>6. CASE UNCHANGED vars
  <2>1. UNCHANGED <<calls, known, point, lease, requests, chat, refs, hash>>
    BY <1>6 DEF vars, frontend, pool
  <2>2. Own' /\ \A c \in Chats : Settled(c)
    BY <2>1 DEF PoolInv, LeaseInv, Own, Settled
  <2>3. /\ DOMAIN point' = Users /\ DOMAIN chat' = Chats /\ DOMAIN refs' = Blocks
        /\ DOMAIN hash' = Blocks /\ lease' \subseteq Blocks
    BY <2>1 DEF PoolInv, Shape
  <2>4. point'[Job] \notin Leaving => point[Job] \notin Leaving /\ \A b \in lease' : Job \in refs[b]
    BY <2>1 DEF PoolInv, LeaseInv, OnLoan
  <2> QED BY <2>1, <2>2, <2>3, <2>4, QuietKeeps
<1> QED BY <1>1, <1>2, <1>3, <1>4, <1>5, <1>6 DEF Next

(* The invariant on the engine's queue, the loans and the requests survives every     *)
(* action of both users of the pool, of chat and of the engine core.                 *)
THEOREM PoolAlways == Spec => []PoolInv
  BY PoolInit, PoolStep, PTL DEF Spec

(* A leased forward, however late it runs and even when nobody awaits it any more,   *)
(* finds its blocks referenced by nobody else and standing for no prefix: the return *)
(* that would free them is queued behind it (reservation.py:11-16).                  *)
THEOREM LeasePrivate == Spec => []LeaseIsPrivate
<1>1. PoolInv => LeaseIsPrivate
  <2> SUFFICES ASSUME PoolInv, calls # <<>>, First.op = "leased", NEW b \in First.on
               PROVE  refs[b] = {Job} /\ hash[b] = None
    BY DEF LeaseIsPrivate
  <2>1. b \in Blocks /\ Job \in refs[b]
    BY FirstFacts DEF PoolInv, LeaseInv, Backed
  <2> QED BY <2>1 DEF PoolInv, LeaseInv, Own
<1> QED BY <1>1, PoolAlways, PTL

(* When an in-place forward writes over blocks 1..N, every request that was with the *)
(* engine when inference was aborted for it is gone: its abort is queued before the  *)
(* forward and behind the request's own arrival (routes.py:80-90).                   *)
THEOREM NewcomersOnly == Spec => []OnlyNewcomersAreOverwritten
<1>1. PoolInv => OnlyNewcomersAreOverwritten
  <2> SUFFICES ASSUME PoolInv, calls # <<>>, First.op = "forward", NEW c \in First.spared
               PROVE  chat[c] = "over"
    BY DEF OnlyNewcomersAreOverwritten
  <2>1. AbortedBefore(c, 1)
    BY FirstFacts DEF PoolInv, ChatInv, Spared
  <2>2. \A k \in DOMAIN calls : ~(k < 1)
    BY DEF PoolInv, Shape
  <2> QED BY <2>1, <2>2 DEF AbortedBefore
<1> QED BY <1>1, PoolAlways, PTL

--------------------------------------------------------------------------------
(* Whose answer it is: a user of the pool has at most one call in the queue, and     *)
(* what answers it awaits come from that call.                                       *)

ByUser(k, u) == k \in DOMAIN calls /\ calls[k].by = u

Once == \A u \in Users : \A j, k \in DOMAIN calls : ByUser(j, u) /\ ByUser(k, u) => j = k

Unanswered == \A u \in Users : \A k \in DOMAIN calls : ByUser(k, u) => reply[u] = "none"

Replies == {"none", "ok", "no", "fail"}

TurnInv ==
  /\ point \in [Users -> Points] /\ reply \in [Users -> Replies]
  /\ Once /\ Unanswered

Resets == {"reset", "resetRunning"}
Borrowing == {"borrow", "reborrow"}

(* A step of a user: it sends a call and awaits the answer at a place that fits the  *)
(* call, or it goes on without one.                                                  *)
SendsTo(u, where) ==
  \E call \in CallType :
    /\ call.by = u /\ Send(u, call, where)
    /\ call.op = "borrow" => u = Job /\ where \in Borrowing
    /\ call.op = "forward" => where = "forward" /\ (u = Job => lease' = {})
    /\ where \in Resets => call.op \in Resets
    /\ where \in Borrowing => call.op = "borrow"

GoesTo(u, where) ==
  /\ Await(u, where) /\ SendsNothing
  /\ where \notin Resets \cup Borrowing

Moves(u) ==
  /\ \E where \in Points : SendsTo(u, where) \/ GoesTo(u, where)
  /\ UNCHANGED <<chat, pool>>

(* Who sent which call survives, but for those the sender gave up. *)
LEMMA SendTurns ==
  ASSUME PoolInv, TurnInv, NEW u \in Users, NEW call \in CallType, NEW where, call.by = u,
         Send(u, call, where)
  PROVE  /\ \A k, v : v \in Users =>
              (ByUser(k, v)' <=> IF v = u THEN k = Len(calls) + 1 ELSE ByUser(k, v))
         /\ \A v \in Users : reply'[v] = IF v = u THEN "none" ELSE reply[v]
         /\ reply' \in [Users -> Replies]
<1>0. PICK n : n = Len(calls)
  OBVIOUS
<1> DEFINE old == Abandoned(u)
<1>1. /\ n \in Nat /\ DOMAIN calls = 1..n /\ DOMAIN calls' = 1..(n + 1) /\ calls'[n + 1] = call
  BY <1>0, SendFacts DEF PoolInv
<1>2. \A i \in 1..n : calls'[i].by = IF calls[i].by = u THEN "nobody" ELSE calls[i].by
  <2>1. calls \in Seq(CallType)
    BY DEF PoolInv, Shape
  <2>2. calls' = Append(old, call)
    BY DEF Send
  <2>3. /\ DOMAIN old = 1..n
        /\ \A i \in 1..n : old[i] = IF calls[i].by = u THEN [calls[i] EXCEPT !.by = "nobody"] ELSE calls[i]
    BY <1>1 DEF Abandoned
  <2>4. \A i \in 1..n : calls[i] \in CallType
    BY <1>1, <2>1
  <2>5. \A i \in 1..n : old[i].by = IF calls[i].by = u THEN "nobody" ELSE calls[i].by
    BY <2>3, <2>4 DEF CallType
  <2>6. \A i \in 1..n : calls'[i] = old[i]
    <3>1. Len(old) = n
      BY <1>1, <2>3
    <3> HIDE DEF old
    <3> QED BY <1>1, <2>2, <2>3, <3>1
  <2> QED BY <2>5, <2>6
<1>3. "nobody" \notin Users
  BY DEF Users, Round, Job
<1>4. ASSUME NEW k, NEW v \in Users
      PROVE ByUser(k, v)' <=> IF v = u THEN k = n + 1 ELSE ByUser(k, v)
  <2>1. CASE k = n + 1
    BY <1>1, <2>1 DEF ByUser
  <2>2. CASE k # n + 1
    BY <1>1, <1>2, <1>3, <2>2 DEF ByUser
  <2> QED BY <2>1, <2>2
<1>5. reply' = [reply EXCEPT ![u] = "none"]
  BY DEF Send
<1>6. reply' \in [Users -> Replies] /\ \A v \in Users : reply'[v] = IF v = u THEN "none" ELSE reply[v]
  BY <1>5 DEF TurnInv, Replies
<1> QED BY <1>0, <1>4, <1>6

LEMMA MovesKeepTurns ==
  ASSUME PoolInv, TurnInv, NEW u \in Users, Moves(u)
  PROVE  TurnInv'
<1>1. PICK where \in Points : SendsTo(u, where) \/ GoesTo(u, where)
  BY DEF Moves
<1>2. CASE GoesTo(u, where)
  <2>1. UNCHANGED <<calls, reply>> /\ point' = [point EXCEPT ![u] = where]
    BY <1>2 DEF GoesTo, Await, SendsNothing
  <2> QED BY <2>1 DEF TurnInv, Once, Unanswered, ByUser
<1>3. CASE SendsTo(u, where)
  <2>1. PICK call \in CallType : call.by = u /\ Send(u, call, where)
    BY <1>3 DEF SendsTo
  <2>2. point' \in [Users -> Points]
    BY <2>1 DEF Send, Await, TurnInv
  <2>3. /\ \A k, v : v \in Users =>
              (ByUser(k, v)' <=> IF v = u THEN k = Len(calls) + 1 ELSE ByUser(k, v))
        /\ \A v \in Users : reply'[v] = IF v = u THEN "none" ELSE reply[v]
        /\ reply' \in [Users -> Replies]
    BY <2>1, SendTurns
  <2>4. Once'
    <3> SUFFICES ASSUME NEW v \in Users, NEW j, NEW k, ByUser(j, v)', ByUser(k, v)' PROVE j = k
      BY DEF Once
    <3>1. CASE v = u
      BY <2>3, <3>1
    <3>2. CASE v # u
      <4>1. ByUser(j, v) /\ ByUser(k, v)
        BY <2>3, <3>2
      <4> QED BY <4>1 DEF TurnInv, Once, ByUser
    <3> QED BY <3>1, <3>2
  <2>5. Unanswered'
    <3> SUFFICES ASSUME NEW v \in Users, NEW k, ByUser(k, v)' PROVE reply'[v] = "none"
      BY DEF Unanswered
    <3>1. CASE v = u
      BY <2>3, <3>1
    <3>2. CASE v # u
      <4>1. ByUser(k, v)
        BY <2>3, <3>2
      <4> QED BY <2>3, <3>2, <4>1 DEF TurnInv, Unanswered, ByUser
    <3> QED BY <3>1, <3>2
  <2> QED BY <2>2, <2>3, <2>4, <2>5 DEF TurnInv
<1> QED BY <1>1, <1>2, <1>3

(* The engine core executes the first call and may answer it. *)
Pops(op) ==
  /\ Executes(op) /\ UNCHANGED frontend
  /\ reply' = reply \/ \E r \in {"ok", "no", "fail"} : Answers(r)

LEMMA PopTurns ==
  ASSUME PoolInv, TurnInv, NEW op, Pops(op)
  PROVE  /\ \A k, v : ByUser(k, v)' => k \in Nat /\ k + 1 # 1 /\ ByUser(k + 1, v)
         /\ \A v \in Users : reply'[v] = reply[v] \/ ByUser(1, v)
         /\ reply' \in [Users -> Replies]
<1>0. PICK n : n = Len(calls)
  OBVIOUS
<1>1. calls # <<>> /\ calls' = Tail(calls)
  BY DEF Pops, Executes
<1>2. /\ n \in Nat \ {0} /\ DOMAIN calls = 1..n /\ DOMAIN calls' = 1..(n - 1)
      /\ 1 \in DOMAIN calls /\ First = calls[1]
      /\ \A i \in DOMAIN calls' : i + 1 \in DOMAIN calls /\ calls'[i] = calls[i + 1]
  BY <1>0, <1>1, ExecutesFacts DEF PoolInv
<1>3. ASSUME NEW k, NEW v, ByUser(k, v)' PROVE k \in Nat /\ k + 1 # 1 /\ ByUser(k + 1, v)
  BY <1>2, <1>3 DEF ByUser
<1>4. CASE reply' = reply
  BY <1>3, <1>4 DEF TurnInv
<1>5. CASE \E r \in {"ok", "no", "fail"} : Answers(r)
  <2>1. PICK r \in {"ok", "no", "fail"} : Answers(r)
    BY <1>5
  <2>2. CASE First.by \in Users
    BY <1>2, <1>3, <2>1, <2>2 DEF Answers, TurnInv, ByUser, Replies
  <2>3. CASE First.by \notin Users
    BY <1>3, <2>1, <2>3 DEF Answers, TurnInv
  <2> QED BY <2>2, <2>3
<1> QED BY <1>4, <1>5 DEF Pops

LEMMA PopKeepsTurns ==
  ASSUME PoolInv, TurnInv, NEW op, Pops(op)
  PROVE  TurnInv'
<1>1. /\ \A k, v : ByUser(k, v)' => k \in Nat /\ k + 1 # 1 /\ ByUser(k + 1, v)
      /\ \A v \in Users : reply'[v] = reply[v] \/ ByUser(1, v)
      /\ reply' \in [Users -> Replies]
  BY PopTurns
<1>2. point' = point
  BY DEF Pops, frontend
<1>3. Once'
  <2> SUFFICES ASSUME NEW v \in Users, NEW j, NEW k, ByUser(j, v)', ByUser(k, v)' PROVE j = k
    BY DEF Once
  <2>1. j \in Nat /\ k \in Nat /\ ByUser(j + 1, v) /\ ByUser(k + 1, v)
    BY <1>1
  <2>2. j + 1 = k + 1
    BY <2>1 DEF TurnInv, Once, ByUser
  <2> QED BY <2>1, <2>2
<1>4. Unanswered'
  <2> SUFFICES ASSUME NEW v \in Users, NEW k, ByUser(k, v)' PROVE reply'[v] = "none"
    BY DEF Unanswered
  <2>1. k \in Nat /\ k + 1 # 1 /\ ByUser(k + 1, v)
    BY <1>1
  <2>2. ~ByUser(1, v)
    BY <2>1 DEF TurnInv, Once, ByUser
  <2>3. reply[v] = "none"
    BY <2>1 DEF TurnInv, Unanswered, ByUser
  <2> QED BY <1>1, <2>2, <2>3
<1> QED BY <1>1, <1>2, <1>3, <1>4 DEF TurnInv

--------------------------------------------------------------------------------
(* What a step of a user leaves behind: the lease it has, and whether it is still    *)
(* at work in place.                                                                 *)

Mine == {b \in Blocks : Job \in refs[b]}
Holding == {"chunk", "forward", "return"}
Unlent == {"none", "legacyAbort", "escalated"}

(* The job has a whole lease or none, and none before the answer to its request.     *)
LendInv ==
  /\ lease # {} => point[Job] \in Holding
  /\ Mine # {} => Cardinality(Mine) = Need
  /\ point[Job] \in Unlent => Mine = {}
  /\ point[Job] \in Borrowing /\ reply[Job] # "ok" => Mine = {}
  /\ \A k \in DOMAIN calls : calls[k].op = "borrow" => calls[k].by = Job /\ point[Job] \in Borrowing

(* u works in place: from the call before the forward to the answer of the reset.    *)
InPlaceAt(u) ==
  /\ point[u] \in {"reAbort", "forward"} \cup Resets \cup (IF u = Job THEN {"chunk"} ELSE {})
  /\ u = Job => lease = {}

(* A round that crashed has its forwards behind it, and /stop may cut its reset.      *)
Crashed(u) == u = Round /\ registered /\ point[u] \in Resets

Attends(u) == InPlaceAt(u) /\ ~Crashed(u)

(* Until the reset has succeeded the cache may hold blocks that u wrote.              *)
Dirties(u) == InPlaceAt(u) /\ ~(point[u] \in Resets /\ reply[u] = "ok")

StepOf(u) ==
  /\ Moves(u)
  /\ u = Round => lease' = lease
  /\ u = Job => /\ registered' = registered
                /\ point[Job] \in Borrowing => reply[Job] # "none"
                /\ point'[Job] \in Unlent \cup Borrowing => Mine = {}
  /\ lease' # {} => point'[Job] \in Holding
  /\ Attends(u) /\ reply[u] = "none" => Attends(u)'
  /\ excuse' = "none" => excuse = "none" /\ (Dirties(u) => Dirties(u)')

At(u, where) ==
  /\ point'[u] = where
  /\ \A v \in Users : v # u => point'[v] = point[v]

LEMMA AwaitMoves ==
  ASSUME TurnInv, NEW u \in Users, NEW where \in Points \ (Resets \cup Borrowing),
         Await(u, where), SendsNothing, UNCHANGED <<chat, pool>>
  PROVE  Moves(u) /\ At(u, where) /\ reply' = reply
<1>1. Moves(u)
  BY DEF Moves, GoesTo
<1>2. At(u, where)
  BY DEF Await, At, TurnInv
<1> QED BY <1>1, <1>2 DEF SendsNothing

LEMMA CallMoves ==
  ASSUME TurnInv, NEW u \in Users, NEW op \in Ops, NEW on, on \subseteq Blocks \cup Chats,
         NEW spared, spared \subseteq Chats, NEW where \in Points,
         Send(u, Call(op, u, on, spared), where), UNCHANGED <<chat, pool>>,
         op = "borrow" => u = Job /\ where \in Borrowing,
         op = "forward" => where = "forward" /\ (u = Job => lease' = {}),
         where \in Resets => op \in Resets,
         where \in Borrowing => op = "borrow"
  PROVE  Moves(u) /\ At(u, where) /\ reply'[u] = "none"
<1> DEFINE call == [op |-> op, by |-> u, on |-> on, spared |-> spared]
<1>1. on \in SUBSET (Blocks \cup Chats) /\ spared \in SUBSET Chats /\ u \in Users \cup Chats \cup {"nobody"}
  OBVIOUS
<1>2. call \in CallType
  BY <1>1, Zenon DEF CallType
<1>3. Send(u, call, where) /\ call.by = u /\ call.op = op
  BY DEF Call
<1> HIDE DEF call
<1>4. SendsTo(u, where)
  BY <1>2, <1>3 DEF SendsTo
<1>5. At(u, where) /\ reply'[u] = "none"
  BY <1>3 DEF Send, Await, At, TurnInv
<1> QED BY <1>4, <1>5 DEF Moves

LEMMA ResetMoves ==
  ASSUME TurnInv, NEW u \in Users, NEW op \in Resets, ResetCache(u, op), UNCHANGED <<chat, pool>>
  PROVE  Moves(u) /\ At(u, op) /\ reply'[u] = "none"
<1>1. op \in Ops /\ op \in Points /\ op \notin {"borrow", "forward"} /\ op \notin Borrowing
  BY DEF Resets, Ops, Points, Borrowing
<1>2. Send(u, Call(op, u, {}, {}), op) /\ {} \subseteq Blocks \cup Chats /\ {} \subseteq Chats
  BY DEF ResetCache
<1> QED BY <1>1, <1>2, CallMoves

LEMMA AbortMoves ==
  ASSUME PoolInv, TurnInv, NEW u \in Users, NEW where \in Points \ (Resets \cup Borrowing),
         AbortAll(u, where), UNCHANGED <<chat, pool>>
  PROVE  Moves(u) /\ At(u, where) /\ reply'[u] = "none"
<1>1. PICK on : on = requests
  OBVIOUS
<1>2. Send(u, Call("abort", u, on, {}), where)
  BY <1>1 DEF AbortAll
<1>3. on \subseteq Blocks \cup Chats /\ {} \subseteq Chats /\ "abort" \in Ops
  BY <1>1 DEF PoolInv, Shape, Ops
<1> QED BY <1>2, <1>3, CallMoves

LEMMA AbortsAndAwaitsMoves ==
  ASSUME PoolInv, TurnInv, NEW u \in Users, NEW where \in Points \ (Resets \cup Borrowing),
         NEW next \in Points \ (Resets \cup Borrowing),
         AbortsAndAwaits(u, where, next), UNCHANGED <<chat, pool>>
  PROVE  Moves(u) /\ (At(u, where) \/ At(u, next))
<1>1. CASE AbortAll(u, where)
  BY <1>1, AbortMoves
<1>2. CASE Await(u, next) /\ SendsNothing
  BY <1>2, AwaitMoves
<1> QED BY <1>1, <1>2 DEF AbortsAndAwaits

LEMMA InPlaceChunkMoves ==
  ASSUME PoolInv, TurnInv, NEW u \in Users, InPlaceChunk(u), UNCHANGED <<chat, pool>>,
         u = Job => lease' = {}
  PROVE  Moves(u) /\ \E where \in {"reAbort", "forward"} : At(u, where)
<1>1. {"reAbort", "forward"} \subseteq Points \ (Resets \cup Borrowing)
  BY DEF Points, Resets, Borrowing
<1>2. CASE AbortAll(u, "reAbort")
  BY <1>1, <1>2, AbortMoves
<1>3. CASE Send(u, Call("forward", u, InPlace, {}), "forward")
  <2>1. "forward" \in Ops /\ InPlace \subseteq Blocks \cup Chats /\ {} \subseteq Chats /\ "forward" # "borrow"
    BY PoolAssumption DEF Ops
  <2> QED BY <1>1, <1>3, <2>1, CallMoves
<1> QED BY <1>2, <1>3 DEF InPlaceChunk

--------------------------------------------------------------------------------
LEMMA RoundSteps ==
  ASSUME PoolInv, TurnInv, LendInv, RoundStep
  PROVE  StepOf(Round)
<1> USE JobIsNoChat
<1> DEFINE Rest == /\ lease' = lease
                   /\ lease' # {} => point'[Job] \in Holding
                   /\ Attends(Round) /\ reply[Round] = "none" => Attends(Round)'
                   /\ excuse' = "none" => excuse = "none" /\ (Dirties(Round) => Dirties(Round)')
<1>1. {"initAbort", "ready", "spawned", "done", "none"} \subseteq Points \ (Resets \cup Borrowing)
  BY DEF Points, Resets, Borrowing
<1>2. Moves(Round) /\ Rest => StepOf(Round)
  BY DEF StepOf
<1>3. At(Round, point'[Round]) /\ lease' = lease => (lease' # {} => point'[Job] \in Holding)
  BY DEF LendInv, At
<1>4. CASE RoundBegins
  <2>1. Moves(Round) /\ \E where \in {"initAbort", "ready"} : At(Round, where)
    BY <1>1, <1>4, AbortsAndAwaitsMoves DEF RoundBegins
  <2>2. point[Round] = "none" /\ UNCHANGED <<lease, excuse>>
    BY <1>4 DEF RoundBegins
  <2>3. Rest
    BY <1>3, <2>1, <2>2 DEF At, Attends, Dirties, InPlaceAt, Resets
  <2> QED BY <1>2, <2>1, <2>3
<1>5. CASE RoundSpawned
  <2>1. Moves(Round) /\ At(Round, "spawned")
    BY <1>1, <1>5, AwaitMoves DEF RoundSpawned, SendsNothing
  <2>2. point[Round] \in {"initAbort", "ready"} /\ UNCHANGED <<lease, excuse>>
    BY <1>5 DEF RoundSpawned
  <2>3. Rest
    BY <1>3, <2>1, <2>2 DEF At, Attends, Dirties, InPlaceAt, Resets
  <2> QED BY <1>2, <2>1, <2>3
<1>6. CASE RoundForward
  <2>1. Moves(Round) /\ \E where \in {"reAbort", "forward"} : At(Round, where)
    BY <1>6, InPlaceChunkMoves DEF RoundForward
  <2>2. UNCHANGED <<lease, excuse>>
    BY <1>6 DEF RoundForward
  <2>3. Rest
    BY <1>3, <2>1, <2>2 DEF At, Attends, Dirties, InPlaceAt, Crashed, Resets
  <2> QED BY <1>2, <2>1, <2>3
<1>7. CASE RoundStopped
  <2>1. registered /\ registered' = FALSE /\ UNCHANGED <<lease, chat, pool>>
    BY <1>7 DEF RoundStopped
  <2>2. CASE point[Round] = "spawned" /\ Await(Round, "done") /\ SendsNothing /\ UNCHANGED excuse
    <3>1. Moves(Round) /\ At(Round, "done")
      BY <1>1, <2>1, <2>2, AwaitMoves
    <3>2. Rest
      BY <1>3, <2>1, <2>2, <3>1 DEF At, Attends, Dirties, InPlaceAt, Resets
    <3> QED BY <1>2, <3>1, <3>2
  <2>3. CASE /\ point[Round] \in {"reAbort", "forward"}
             /\ ResetCache(Round, "reset") /\ UNCHANGED excuse
    <3>1. Moves(Round) /\ At(Round, "reset") /\ reply'[Round] = "none"
      BY <2>1, <2>3, ResetMoves DEF Resets
    <3>2. Rest
      BY <1>3, <2>1, <2>3, <3>1 DEF At, Attends, Dirties, InPlaceAt, Crashed, Resets
    <3> QED BY <1>2, <3>1, <3>2
  <2>4. CASE /\ point[Round] \in {"reset", "resetRunning"} /\ Await(Round, "done")
             /\ SendsNothing /\ excuse' = "cut"
    <3>1. Moves(Round) /\ At(Round, "done")
      BY <1>1, <2>1, <2>4, AwaitMoves
    <3>2. Rest
      BY <1>3, <2>1, <2>4, <3>1 DEF At, Attends, InPlaceAt, Crashed, Resets
    <3> QED BY <1>2, <3>1, <3>2
  <2> QED BY <1>7, <2>2, <2>3, <2>4 DEF RoundStopped
<1>8. CASE RoundCrashes
  <2>1. Moves(Round) /\ At(Round, "reset") /\ reply'[Round] = "none"
    BY <1>8, ResetMoves DEF RoundCrashes, Resets
  <2>2. reply[Round] = "fail" /\ UNCHANGED <<lease, excuse>>
    BY <1>8 DEF RoundCrashes
  <2>3. Rest
    BY <1>3, <2>1, <2>2 DEF At, Attends, Dirties, InPlaceAt, Resets
  <2> QED BY <1>2, <2>1, <2>3
<1>9. CASE RoundDone
  <2>1. Moves(Round) /\ At(Round, "none")
    BY <1>1, <1>9, AwaitMoves DEF RoundDone, SendsNothing
  <2>2. point[Round] = "done" /\ UNCHANGED <<lease, excuse>>
    BY <1>9 DEF RoundDone
  <2>3. Rest
    BY <1>3, <2>1, <2>2 DEF At, Attends, Dirties, InPlaceAt, Resets
  <2> QED BY <1>2, <2>1, <2>3
<1> QED BY <1>4, <1>5, <1>6, <1>7, <1>8, <1>9 DEF RoundStep

LEMMA JobSteps ==
  ASSUME PoolInv, TurnInv, LendInv, JobStep
  PROVE  StepOf(Job)
<1> USE JobIsNoChat
<1> DEFINE Rest == /\ registered' = registered
                   /\ point[Job] \in Borrowing => reply[Job] # "none"
                   /\ point'[Job] \in Unlent \cup Borrowing => Mine = {}
                   /\ lease' # {} => point'[Job] \in Holding
                   /\ Attends(Job) /\ reply[Job] = "none" => Attends(Job)'
                   /\ excuse' = "none" => excuse = "none" /\ (Dirties(Job) => Dirties(Job)')
<1>0. {} \subseteq Blocks \cup Chats /\ {} \subseteq Chats /\ {"borrow", "leased", "return"} \subseteq Ops
  BY DEF Ops
<1>1. {"legacyAbort", "escalated", "chunk", "over"} \subseteq Points \ (Resets \cup Borrowing)
  BY DEF Points, Resets, Borrowing
<1>2. Moves(Job) /\ Rest => StepOf(Job)
  BY DEF StepOf
<1>4. CASE JobBegins
  <2>1. point[Job] = "none" /\ UNCHANGED <<registered, lease, excuse, chat, pool>>
    BY <1>4 DEF JobBegins
  <2>2. Moves(Job) /\ \E where \in {"borrow", "legacyAbort", "chunk"} : At(Job, where)
    <3>1. CASE Send(Job, Call("borrow", Job, {}, {}), "borrow")
      <4>1. "borrow" \in Points /\ "borrow" \in Borrowing /\ "borrow" \notin Resets /\ "borrow" # "forward"
        BY DEF Points, Borrowing, Resets
      <4> QED BY <1>0, <2>1, <3>1, <4>1, CallMoves
    <3>2. CASE AbortsAndAwaits(Job, "legacyAbort", "chunk")
      BY <1>1, <2>1, <3>2, AbortsAndAwaitsMoves
    <3> QED BY <1>4, <3>1, <3>2 DEF JobBegins
  <2>3. Rest
    BY <2>1, <2>2 DEF LendInv, At, Attends, Dirties, InPlaceAt, Resets, Borrowing, Unlent, Holding
  <2> QED BY <1>2, <2>2, <2>3
<1>5. CASE JobBorrows
  <2>1. /\ point[Job] \in {"borrow", "reborrow"} /\ reply[Job] = "ok"
        /\ UNCHANGED <<registered, excuse>>
    BY <1>5 DEF JobBorrows
  <2>2. Moves(Job) /\ At(Job, "chunk")
    BY <1>1, <1>5, AwaitMoves DEF JobBorrows, SendsNothing
  <2>3. Rest
    BY <2>1, <2>2 DEF LendInv, At, Attends, Dirties, InPlaceAt, Resets, Borrowing, Unlent, Holding
  <2> QED BY <1>2, <2>2, <2>3
<1>6. CASE JobEscalates
  <2>1. /\ point[Job] \in {"borrow", "reborrow"} /\ reply[Job] = "no"
        /\ UNCHANGED <<registered, lease, excuse, chat, pool>>
    BY <1>6 DEF JobEscalates
  <2>2. Moves(Job) /\ \E where \in {"escalated", "chunk"} : At(Job, where)
    <3>1. CASE AbortsAndAwaits(Job, "escalated", "escalated")
      BY <1>1, <2>1, <3>1, AbortsAndAwaitsMoves
    <3>2. CASE Await(Job, "chunk") /\ SendsNothing
      BY <1>1, <2>1, <3>2, AwaitMoves
    <3> QED BY <1>6, <3>1, <3>2 DEF JobEscalates
  <2>3. Rest
    BY <2>1, <2>2 DEF LendInv, At, Attends, Dirties, InPlaceAt, Resets, Borrowing, Unlent, Holding
  <2> QED BY <1>2, <2>2, <2>3
<1>7. CASE JobEscalated
  <2>1. UNCHANGED <<registered, lease, excuse, chat, pool>>
    BY <1>7 DEF JobEscalated
  <2>2. CASE point[Job] = "legacyAbort" /\ Await(Job, "chunk") /\ SendsNothing
    <3>1. Moves(Job) /\ At(Job, "chunk")
      BY <1>1, <2>1, <2>2, AwaitMoves
    <3>2. Rest
      BY <2>1, <2>2, <3>1 DEF LendInv, At, Attends, Dirties, InPlaceAt, Resets, Borrowing, Unlent, Holding
    <3> QED BY <1>2, <3>1, <3>2
  <2>3. CASE point[Job] = "escalated" /\ Send(Job, Call("borrow", Job, {}, {}), "reborrow")
    <3>1. /\ "reborrow" \in Points /\ "reborrow" \in Borrowing /\ "reborrow" \notin Resets
          /\ "borrow" # "forward"
      BY DEF Points, Borrowing, Resets
    <3>2. Moves(Job) /\ At(Job, "reborrow")
      BY <1>0, <2>1, <2>3, <3>1, CallMoves
    <3>3. Rest
      BY <2>1, <2>3, <3>2 DEF LendInv, At, Attends, Dirties, InPlaceAt, Resets, Borrowing, Unlent, Holding
    <3> QED BY <1>2, <3>2, <3>3
  <2> QED BY <1>7, <2>2, <2>3 DEF JobEscalated
<1>8. CASE JobChunk
  <2>1. point[Job] = "chunk" /\ UNCHANGED <<registered, lease, excuse, chat, pool>>
    BY <1>8 DEF JobChunk
  <2>2. Moves(Job) /\ \E where \in {"reAbort", "forward"} : At(Job, where) /\ (lease # {} => where = "forward")
    <3>1. CASE lease # {} /\ Send(Job, Call("leased", Job, lease, {}), "forward")
      <4>1. PICK on : on = lease
        OBVIOUS
      <4>2. Send(Job, Call("leased", Job, on, {}), "forward") /\ on \subseteq Blocks \cup Chats
        BY <3>1, <4>1 DEF PoolInv, Shape
      <4>3. "forward" \in Points /\ "forward" \notin Resets \cup Borrowing /\ "leased" \notin {"borrow", "forward"}
        BY DEF Points, Borrowing, Resets
      <4> QED BY <1>0, <2>1, <4>2, <4>3, CallMoves
    <3>2. CASE lease = {} /\ InPlaceChunk(Job)
      BY <2>1, <3>2, InPlaceChunkMoves
    <3> QED BY <1>8, <3>1, <3>2 DEF JobChunk
  <2>3. Rest
    BY <2>1, <2>2 DEF At, Attends, Dirties, InPlaceAt, Crashed, Resets, Borrowing, Unlent, Holding
  <2> QED BY <1>2, <2>2, <2>3
<1>9. CASE JobChunkEnds
  <2>1. point[Job] = "forward" /\ UNCHANGED <<registered, lease, excuse, chat, pool>>
    BY <1>9 DEF JobChunkEnds
  <2>2. CASE Await(Job, "chunk") /\ SendsNothing
    <3>1. Moves(Job) /\ At(Job, "chunk")
      BY <1>1, <2>1, <2>2, AwaitMoves
    <3>2. Rest
      BY <2>1, <3>1 DEF At, Attends, Dirties, InPlaceAt, Crashed, Resets, Borrowing, Unlent, Holding
    <3> QED BY <1>2, <3>1, <3>2
  <2>3. CASE JobLeaves /\ lease = {}
    <3>1. Moves(Job) /\ At(Job, "reset") /\ reply'[Job] = "none"
      BY <2>1, <2>3, ResetMoves DEF JobLeaves, Resets
    <3>2. Rest
      BY <2>1, <2>3, <3>1 DEF At, Attends, Dirties, InPlaceAt, Crashed, Resets, Borrowing, Unlent, Holding
    <3> QED BY <1>2, <3>1, <3>2
  <2>4. CASE JobLeaves /\ lease # {}
    <3>1. PICK on : on = lease
      OBVIOUS
    <3>2. Send(Job, Call("return", Job, on, {}), "return") /\ on \subseteq Blocks \cup Chats
      BY <2>4, <3>1 DEF JobLeaves, PoolInv, Shape
    <3>3. "return" \in Points /\ "return" \notin Resets \cup Borrowing /\ "return" \notin {"borrow", "forward"}
      BY DEF Points, Borrowing, Resets
    <3>4. Moves(Job) /\ At(Job, "return")
      BY <1>0, <2>1, <3>2, <3>3, CallMoves
    <3>5. Rest
      BY <2>1, <2>4, <3>4 DEF At, Attends, Dirties, InPlaceAt, Resets, Borrowing, Unlent, Holding
    <3> QED BY <1>2, <3>4, <3>5
  <2> QED BY <1>9, <2>2, <2>3, <2>4 DEF JobChunkEnds
<1>10. CASE JobReturned
  <2>1. point[Job] = "return" /\ lease' = {} /\ UNCHANGED <<registered, excuse>>
    BY <1>10 DEF JobReturned
  <2>2. Moves(Job) /\ At(Job, "over")
    BY <1>1, <1>10, AwaitMoves DEF JobReturned, SendsNothing
  <2>3. Rest
    BY <2>1, <2>2 DEF At, Attends, Dirties, InPlaceAt, Resets, Borrowing, Unlent, Holding
  <2> QED BY <1>2, <2>2, <2>3
<1> QED BY <1>4, <1>5, <1>6, <1>7, <1>8, <1>9, <1>10 DEF JobStep

LEMMA BothStep ==
  ASSUME PoolInv, TurnInv, LendInv, NEW u \in Users, Reaborted(u) \/ ResetAnswered(u)
  PROVE  StepOf(u)
<1> USE JobIsNoChat
<1> DEFINE Rest == /\ UNCHANGED <<registered, lease>>
                   /\ u = Job => /\ point[Job] \notin Borrowing
                                 /\ point'[Job] \notin Unlent \cup Borrowing
                   /\ lease' # {} => point'[Job] \in Holding
                   /\ Attends(u) /\ reply[u] = "none" => Attends(u)'
                   /\ excuse' = "none" => excuse = "none" /\ (Dirties(u) => Dirties(u)')
<1>1. u \in {Round, Job}
  BY DEF Users
<1>2. Moves(u) /\ Rest => StepOf(u)
  BY DEF StepOf
<1>3. CASE Reaborted(u)
  <2>1. point[u] = "reAbort" /\ UNCHANGED <<registered, lease, excuse, chat, pool>>
    BY <1>3 DEF Reaborted
  <2>2. u = Job => lease' = {}
    BY <2>1 DEF LendInv, Holding
  <2>3. Moves(u) /\ At(u, "forward")
    <3>1. PICK spared : spared = known[u]
      OBVIOUS
    <3>2. Send(u, Call("forward", u, InPlace, spared), "forward") /\ spared \subseteq Chats
      BY <1>3, <3>1 DEF Reaborted, PoolInv, Shape
    <3>3. "forward" \in Ops /\ InPlace \subseteq Blocks \cup Chats /\ "forward" # "borrow"
      BY PoolAssumption DEF Ops
    <3>4. "forward" \in Points /\ "forward" \notin Resets \cup Borrowing
      BY DEF Points, Borrowing, Resets
    <3> QED BY <2>1, <2>2, <3>2, <3>3, <3>4, CallMoves
  <2>4. Rest
    BY <1>1, <2>1, <2>3 DEF LendInv, At, Attends, Dirties, InPlaceAt, Crashed, Resets, Borrowing, Unlent, Holding
  <2> QED BY <1>2, <2>3, <2>4
<1>4. CASE ResetAnswered(u)
  <2>1. point[u] \in Resets /\ reply[u] # "none" /\ UNCHANGED <<registered, lease, chat, pool>>
    BY <1>4 DEF ResetAnswered, Resets
  <2>2. CASE Ends(u) /\ SendsNothing /\ ((reply[u] = "ok" /\ UNCHANGED excuse) \/ excuse' = "reported")
    <3>1. PICK where : where = IF u = Round THEN "done" ELSE "over"
      OBVIOUS
    <3>2. where \in Points \ (Resets \cup Borrowing) /\ Await(u, where)
      BY <2>2, <3>1 DEF Ends, Points, Resets, Borrowing
    <3>3. Moves(u) /\ At(u, where)
      BY <2>1, <2>2, <3>2, AwaitMoves
    <3>4. Rest
      BY <1>1, <2>1, <2>2, <3>1, <3>3 DEF LendInv, At, Attends, Dirties, InPlaceAt, Resets, Borrowing, Unlent, Holding
    <3> QED BY <1>2, <3>3, <3>4
  <2>3. CASE reply[u] # "ok" /\ ResetCache(u, "resetRunning") /\ UNCHANGED excuse
    <3>1. Moves(u) /\ At(u, "resetRunning") /\ reply'[u] = "none"
      BY <2>1, <2>3, ResetMoves DEF Resets
    <3>2. Rest
      BY <1>1, <2>1, <2>3, <3>1 DEF LendInv, At, Attends, Dirties, InPlaceAt, Resets, Borrowing, Unlent, Holding
    <3> QED BY <1>2, <3>1, <3>2
  <2> QED BY <1>4, <2>2, <2>3 DEF ResetAnswered
<1> QED BY <1>3, <1>4

--------------------------------------------------------------------------------
(* What a user has of the pool. *)

LEMMA StepKeepsLending ==
  ASSUME PoolInv, TurnInv, LendInv, NEW u \in Users, StepOf(u)
  PROVE  LendInv'
<1> USE JobIsNoChat
<1>1. Mine' = Mine /\ u \in {Round, Job}
  BY DEF StepOf, Moves, pool, Mine, Users
<1>2. PICK where \in Points : SendsTo(u, where) \/ GoesTo(u, where)
  BY DEF StepOf, Moves
<1>3. \A v \in Users : point'[v] = IF v = u THEN where ELSE point[v]
  BY <1>2 DEF SendsTo, GoesTo, Send, Await, TurnInv
<1>4. u = Round => reply'[Job] = reply[Job]
  BY <1>2 DEF SendsTo, GoesTo, Send, SendsNothing, TurnInv
<1>5. u = Job => (point[Job] \in Borrowing => \A k \in DOMAIN calls : ~ByUser(k, Job))
  BY DEF StepOf, TurnInv, Unanswered
<1>6. \A k \in DOMAIN calls' : calls'[k].op = "borrow" => calls'[k].by = Job /\ point'[Job] \in Borrowing
  <2>1. CASE GoesTo(u, where)
    <3>1. calls' = calls
      BY <2>1 DEF GoesTo, SendsNothing
    <3> QED BY <1>1, <1>3, <1>5, <3>1 DEF LendInv, ByUser
  <2>2. CASE SendsTo(u, where)
    <3>1. PICK call \in CallType : /\ call.by = u /\ Send(u, call, where)
                                   /\ call.op = "borrow" => u = Job /\ where \in Borrowing
      BY <2>2 DEF SendsTo
    <3>2. PICK n : n = Len(calls)
      OBVIOUS
    <3>3. /\ DOMAIN calls' = 1..(n + 1) /\ DOMAIN calls = 1..n /\ n \in Nat /\ calls'[n + 1] = call
          /\ \A i \in DOMAIN calls : calls'[i].op = calls[i].op
      BY <3>1, <3>2, SendFacts DEF PoolInv
    <3>4. \A k, v : v \in Users => (ByUser(k, v)' <=> IF v = u THEN k = n + 1 ELSE ByUser(k, v))
      BY <3>1, <3>2, SendTurns
    <3>5. ASSUME NEW k \in DOMAIN calls', calls'[k].op = "borrow"
          PROVE  calls'[k].by = Job /\ point'[Job] \in Borrowing
      <4>1. CASE k = n + 1
        BY <1>3, <3>1, <3>3, <3>5, <4>1
      <4>2. CASE k # n + 1
        <5>1. k \in DOMAIN calls /\ calls[k].op = "borrow"
          BY <3>3, <3>5, <4>2
        <5>2. ByUser(k, Job) /\ point[Job] \in Borrowing
          BY <5>1 DEF LendInv, ByUser
        <5>3. u = Round
          BY <1>1, <1>5, <5>1, <5>2
        <5>4. ByUser(k, Job)'
          BY <3>4, <5>2, <5>3
        <5> QED BY <1>3, <5>2, <5>3, <5>4 DEF ByUser
      <4> QED BY <4>1, <4>2
    <3> QED BY <3>5
  <2> QED BY <1>2, <2>1, <2>2
<1>7. lease' # {} => point'[Job] \in Holding
  BY DEF StepOf
<1>8. CASE u = Round
  <2>1. point'[Job] = point[Job] /\ reply'[Job] = reply[Job]
    BY <1>3, <1>4, <1>8
  <2> QED BY <1>1, <1>6, <1>7, <2>1 DEF LendInv
<1>9. CASE u = Job
  <2>1. point'[Job] \in Unlent \cup Borrowing => Mine = {}
    BY <1>9 DEF StepOf
  <2> QED BY <1>1, <1>6, <1>7, <2>1 DEF LendInv
<1> QED BY <1>1, <1>8, <1>9

(* Chat sends nothing but requests, and takes no block on loan. *)
Grows ==
  /\ UNCHANGED <<frontend, excuse, reply>>
  /\ \A k \in DOMAIN calls : k \in DOMAIN calls' /\ calls'[k] = calls[k]
  /\ \A k \in DOMAIN calls' : k \in DOMAIN calls \/ (calls'[k].op = "add" /\ calls'[k].by \notin Users)

LEMMA ChatFacts ==
  ASSUME PoolInv, NEW c \in Chats, ChatStep(c)
  PROVE  Grows /\ Mine' = Mine
<1> USE JobIsNoChat
<1>0. DOMAIN refs = Blocks
  BY DEF PoolInv, Shape
<1>1. CASE AddRequest(c)
  <2>0. PICK n : n = Len(calls)
    OBVIOUS
  <2>1. calls \in Seq(CallType)
    BY DEF PoolInv, Shape
  <2>2. n \in Nat /\ DOMAIN calls = 1..n
    BY <2>0, <2>1
  <2>3. calls' = Append(calls, Call("add", c, {}, {}))
    BY <1>1 DEF AddRequest
  <2>4. /\ DOMAIN calls' = 1..(n + 1) /\ calls'[n + 1] = Call("add", c, {}, {})
        /\ \A k \in 1..n : calls'[k] = calls[k]
    BY <2>0, <2>1, <2>2, <2>3
  <2>5. c \notin Users
    BY PoolAssumption
  <2>6. Call("add", c, {}, {}).op = "add" /\ Call("add", c, {}, {}).by = c
    BY DEF Call
  <2>7. UNCHANGED <<frontend, excuse, reply, pool>>
    BY <1>1 DEF AddRequest
  <2> QED BY <2>2, <2>4, <2>5, <2>6, <2>7 DEF Grows, Mine, pool
<1>2. CASE Dispatch(c)
  <2>1. UNCHANGED <<frontend, excuse, reply, calls, pool>>
    BY <1>2 DEF Dispatch
  <2> QED BY <2>1 DEF Grows, Mine, pool
<1>3. CASE Schedule(c)
  <2>1. UNCHANGED <<frontend, excuse, reply, calls>>
    BY <1>3 DEF Schedule
  <2>2. PICK b \in Blocks : \/ refs' = [refs EXCEPT ![b] = @ \cup {c}]
                            \/ refs[b] = {} /\ refs' = [refs EXCEPT ![b] = {c}]
    BY <1>3 DEF Schedule
  <2>3. \A d \in Blocks : Job \in refs'[d] <=> Job \in refs[d]
    BY <1>0, <2>2
  <2> QED BY <2>1, <2>3 DEF Grows, Mine
<1>4. CASE Finish(c)
  <2>1. UNCHANGED <<frontend, excuse, reply, calls>>
    BY <1>4 DEF Finish
  <2>2. \A d \in Blocks : Job \in refs'[d] <=> Job \in refs[d]
    BY <1>4 DEF Finish, Release
  <2> QED BY <2>1, <2>2 DEF Grows, Mine
<1> QED BY <1>1, <1>2, <1>3, <1>4 DEF ChatStep

LEMMA GrowsKeeps ==
  ASSUME TurnInv, LendInv, Grows, Mine' = Mine
  PROVE  TurnInv' /\ LendInv'
<1>1. UNCHANGED <<point, lease, reply>>
  BY DEF Grows, frontend
<1>2. \A k, v : v \in Users /\ ByUser(k, v)' => ByUser(k, v)
  BY DEF Grows, ByUser
<1>3. TurnInv'
  BY <1>1, <1>2 DEF TurnInv, Once, Unanswered, ByUser
<1>4. \A k \in DOMAIN calls' : calls'[k].op = "borrow" => k \in DOMAIN calls /\ calls[k] = calls'[k]
  BY DEF Grows
<1>5. LendInv'
  BY <1>1, <1>4 DEF LendInv
<1> QED BY <1>3, <1>5

(* What the engine core does to the references. *)
LEMMA PopKeepsLending ==
  ASSUME PoolInv, TurnInv, LendInv, NEW op, Pops(op),
         \/ Mine' = Mine \/ Mine' = {}
         \/ op = "borrow" /\ Cardinality(Mine') = Need /\ reply'[Job] = "ok"
  PROVE  LendInv'
<1> USE JobIsNoChat
<1>0. UNCHANGED <<point, lease>>
  BY DEF Pops, frontend
<1>1. calls # <<>> /\ calls' = Tail(calls) /\ First.op = op
  BY DEF Pops, Executes
<1>2. /\ 1 \in DOMAIN calls /\ First = calls[1]
      /\ \A i \in DOMAIN calls' : i + 1 \in DOMAIN calls /\ calls'[i] = calls[i + 1]
  BY <1>1, ExecutesFacts DEF PoolInv
<1>3. \A k \in DOMAIN calls' : calls'[k].op = "borrow" => calls'[k].by = Job /\ point[Job] \in Borrowing
  BY <1>2 DEF LendInv
<1>4. reply'[Job] # "ok" => reply[Job] # "ok"
  <2>1. reply'[Job] = reply[Job] \/ ByUser(1, Job)
    BY PopTurns
  <2> QED BY <2>1 DEF TurnInv, Unanswered, ByUser
<1>5. op = "borrow" => point[Job] \in Borrowing
  BY <1>1, <1>2 DEF LendInv
<1>6. \A p : p \in Unlent => p \notin Borrowing
  BY DEF Unlent, Borrowing
<1> QED BY <1>0, <1>3, <1>4, <1>5, <1>6 DEF LendInv

LEMMA EngineTurns ==
  ASSUME PoolInv, TurnInv, LendInv, EngineStep
  PROVE  TurnInv' /\ LendInv'
<1> USE JobIsNoChat
<1>0. DOMAIN refs = Blocks
  BY DEF PoolInv, Shape
<1>1. ASSUME NEW op, Pops(op),
             \/ Mine' = Mine \/ Mine' = {}
             \/ op = "borrow" /\ Cardinality(Mine') = Need /\ reply'[Job] = "ok"
      PROVE  TurnInv' /\ LendInv'
  BY <1>1, PopKeepsTurns, PopKeepsLending
<1>2. refs' = refs => Mine' = Mine
  BY DEF Mine
<1>3. CASE EngineAdds
  <2>1. Pops("add") /\ Mine' = Mine
    BY <1>2, <1>3 DEF EngineAdds, Pops, pool
  <2> QED BY <1>1, <2>1
<1>4. CASE EngineAborts
  <2>1. First.on \subseteq Chats
    <3>1. calls # <<>> /\ First.op = "abort"
      BY <1>4 DEF EngineAborts, Executes
    <3>2. 1 \in DOMAIN calls /\ First = calls[1]
      BY <3>1, FirstFacts
    <3> QED BY <3>1, <3>2 DEF PoolInv, Shape
  <2>2. \A b \in Blocks : Job \in refs'[b] <=> Job \in refs[b]
    BY <1>4, <2>1 DEF EngineAborts, Release
  <2>3. Pops("abort") /\ Mine' = Mine
    BY <1>4, <2>2 DEF EngineAborts, Pops, Mine
  <2> QED BY <1>1, <2>3
<1>5. CASE EngineForwards
  <2>1. (Pops("forward") \/ Pops("leased")) /\ Mine' = Mine
    BY <1>2, <1>5 DEF EngineForwards, Pops
  <2> QED BY <1>1, <2>1
<1>6. CASE EngineLends
  <2>1. Pops("borrow")
    BY <1>6 DEF EngineLends, Pops
  <2>2. CASE UNCHANGED <<refs, hash>>
    BY <1>1, <1>2, <2>1, <2>2
  <2>3. CASE \E lent \in SUBSET Lendable :
               /\ WholeLease(lent) /\ Answers("ok")
               /\ refs' = [b \in Blocks |-> IF b \in lent THEN refs[b] \cup {Job} ELSE refs[b]]
    <3>1. PICK lent \in SUBSET Lendable :
               /\ WholeLease(lent) /\ Answers("ok")
               /\ refs' = [b \in Blocks |-> IF b \in lent THEN refs[b] \cup {Job} ELSE refs[b]]
      BY <2>3
    <3>2. ByUser(1, Job) /\ First.by = Job /\ point[Job] \in Borrowing
      <4>1. calls # <<>> /\ First.op = "borrow"
        BY <2>1 DEF Pops, Executes
      <4>2. 1 \in DOMAIN calls /\ First = calls[1]
        BY <4>1, FirstFacts
      <4> QED BY <4>1, <4>2 DEF LendInv, ByUser
    <3>3. Mine = {}
      BY <3>2 DEF LendInv, TurnInv, Unanswered, ByUser
    <3>4. reply'[Job] = "ok"
      BY <3>1, <3>2 DEF Answers, TurnInv
    <3>5. Mine' = lent
      BY <3>1, <3>3 DEF Mine, Lendable, Free
    <3> QED BY <1>1, <2>1, <3>1, <3>4, <3>5 DEF WholeLease
  <2> QED BY <1>6, <2>2, <2>3 DEF EngineLends
<1>7. CASE EngineTakesBack
  <2>1. Pops("return")
    BY <1>7 DEF EngineTakesBack, Pops
  <2>2. Mine' = {}
    BY <1>7 DEF EngineTakesBack, Release, Mine
  <2> QED BY <1>1, <2>1, <2>2
<1>8. CASE EngineResets
  <2>1. Pops("reset") /\ Mine' = Mine
    BY <1>2, <1>8 DEF EngineResets, DropsHashes, Pops
  <2> QED BY <1>1, <2>1
<1>9. CASE EnginePreempts
  <2>1. \A b \in Blocks : Job \in refs'[b] <=> Job \in refs[b]
    BY <1>9 DEF EnginePreempts, Release
  <2>2. Pops("resetRunning") /\ Mine' = Mine
    BY <1>9, <2>1 DEF EnginePreempts, DropsHashes, Pops, Mine
  <2> QED BY <1>1, <2>2
<1>10. CASE EngineResetRaises
  <2>1. (Pops("reset") \/ Pops("resetRunning")) /\ Mine' = Mine
    BY <1>2, <1>10 DEF EngineResetRaises, Pops, pool
  <2> QED BY <1>1, <2>1
<1> QED BY <1>3, <1>4, <1>5, <1>6, <1>7, <1>8, <1>9, <1>10 DEF EngineStep

UseInv == PoolInv /\ TurnInv /\ LendInv

LEMMA UseInit == Init => UseInv
<1> SUFFICES ASSUME Init PROVE UseInv
  OBVIOUS
<1>1. PoolInv
  BY PoolInit
<1>2. calls = <<>> /\ Mine = {} /\ point \in [Users -> {"none"}] /\ reply \in [Users -> {"none"}] /\ lease = {}
  BY DEF Init, Mine
<1>3. TurnInv
  BY <1>2 DEF TurnInv, Once, Unanswered, ByUser, Points, Replies
<1>4. LendInv
  BY <1>2 DEF LendInv
<1> QED BY <1>1, <1>3, <1>4 DEF UseInv

LEMMA UseStep == UseInv /\ [Next]_vars => UseInv'
<1> SUFFICES ASSUME UseInv, [Next]_vars PROVE UseInv'
  OBVIOUS
<1> USE JobIsNoChat DEF UseInv
<1>1. PoolInv'
  BY PoolStep
<1>2. ASSUME NEW u \in Users, StepOf(u) PROVE TurnInv' /\ LendInv'
  <2>1. TurnInv'
    BY <1>2, MovesKeepTurns DEF StepOf
  <2>2. LendInv'
    BY <1>2, StepKeepsLending
  <2> QED BY <2>1, <2>2
<1>3. TurnInv' /\ LendInv'
  <2>1. CASE RoundStep
    BY <1>2, <2>1, RoundSteps
  <2>2. CASE JobStep
    BY <1>2, <2>2, JobSteps
  <2>3. CASE EngineStep
    BY <2>3, EngineTurns
  <2>4. CASE \E u \in Users : Reaborted(u) \/ ResetAnswered(u)
    BY <1>2, <2>4, BothStep
  <2>5. CASE \E c \in Chats : ChatStep(c)
    BY <2>5, ChatFacts, GrowsKeeps
  <2>6. CASE UNCHANGED vars
    <3>1. Grows /\ Mine' = Mine
      BY <2>6 DEF vars, frontend, pool, Grows, Mine
    <3> QED BY <3>1, GrowsKeeps
  <2> QED BY <2>1, <2>2, <2>3, <2>4, <2>5, <2>6 DEF Next
<1> QED BY <1>1, <1>3

LEMMA UseAlways == Spec => []UseInv
  BY UseInit, UseStep, PTL DEF Spec

(* A user of the pool has at most one call in the queue that it awaits, and no       *)
(* answer yet while it has: a call that timed out can answer nobody, so no step of   *)
(* a round or a validation goes by the result of an earlier call.                    *)
THEOREM AnswersAreOwn == Spec => [](Once /\ Unanswered)
<1>1. UseInv => Once /\ Unanswered
  BY DEF UseInv, TurnInv
<1> QED BY <1>1, UseAlways, PTL

--------------------------------------------------------------------------------
(* Types of what the invariants so far do not say. *)

CountersOk ==
  /\ gate \in BOOLEAN /\ registered \in BOOLEAN /\ excuse \in {"none", "reported", "cut"}
  /\ rounds \in 0..MaxRounds /\ forwards \in 0..MaxForwards /\ left \in 0..Chunks

LeaseOk == lease = {} \/ (lease \subseteq Blocks /\ Cardinality(lease) = Need)

PoolOk ==
  /\ chat \in [Chats -> {"out", "refused", "admitted", "sent", "waiting", "running", "over"}]
  /\ refs \in [Blocks -> SUBSET (Chats \cup {Job})]
  /\ hash \in [Blocks -> {Prompt[c] : c \in Chats} \cup {None}]
  /\ holds \in [Blocks -> {Prompt[c] : c \in Chats} \cup {None, Garbage}]

LEMMA TypeParts ==
  ASSUME PoolInv, TurnInv PROVE TypeOK <=> CountersOk /\ LeaseOk /\ PoolOk
<1>1. known \in [Users -> SUBSET Chats] /\ requests \subseteq Chats
  BY DEF PoolInv, Shape
<1>2. (lease \in {{}} \cup {lent \in SUBSET Blocks : Cardinality(lent) = Need}) <=> LeaseOk
  BY DEF LeaseOk
<1>3. point \in [Users -> Points] /\ reply \in [Users -> {"none", "ok", "no", "fail"}]
  BY DEF TurnInv, Replies
<1> QED BY <1>1, <1>2, <1>3 DEF TypeOK, CountersOk, PoolOk

LEMMA UsersKeepTypes ==
  ASSUME UseInv, CountersOk, LeaseOk, PoolOk,
         RoundStep \/ JobStep \/ \E u \in Users : Reaborted(u) \/ ResetAnswered(u)
  PROVE  CountersOk' /\ LeaseOk' /\ PoolOk'
<1> USE DEF CountersOk, LeaseOk
<1>0. MaxRounds \in Nat /\ MaxForwards \in Nat /\ Chunks \in Nat
  BY PoolAssumption
<1>1. UNCHANGED <<chat, pool>> => PoolOk'
  BY DEF PoolOk, pool
<1>2. CASE RoundStep
  <2>1. CASE RoundBegins
    <3>1. /\ rounds < MaxRounds /\ rounds' = rounds + 1 /\ gate' = TRUE /\ registered' = FALSE
          /\ UNCHANGED <<lease, forwards, left, excuse, chat, pool>>
      BY <2>1 DEF RoundBegins
    <3>2. rounds' \in 0..MaxRounds
      BY <1>0, <3>1
    <3> QED BY <1>1, <3>1, <3>2
  <2>2. CASE RoundSpawned
    BY <1>1, <2>2 DEF RoundSpawned
  <2>3. CASE RoundForward
    BY <1>0, <1>1, <2>3 DEF RoundForward
  <2>4. CASE RoundStopped
    BY <1>1, <2>4 DEF RoundStopped
  <2>5. CASE RoundCrashes
    BY <1>1, <2>5 DEF RoundCrashes
  <2>6. CASE RoundDone
    BY <1>1, <2>6 DEF RoundDone
  <2> QED BY <1>2, <2>1, <2>2, <2>3, <2>4, <2>5, <2>6 DEF RoundStep
<1>3. CASE JobStep
  <2>1. CASE JobBegins
    BY <1>1, <2>1 DEF JobBegins
  <2>2. CASE JobBorrows
    <3>1. lease' = Mine /\ Mine \subseteq Blocks
      BY <2>2 DEF JobBorrows, Mine
    <3>2. LeaseOk'
      BY <3>1 DEF UseInv, LendInv
    <3>3. CountersOk'
      BY <2>2 DEF JobBorrows
    <3> QED BY <1>1, <2>2, <3>2, <3>3 DEF JobBorrows
  <2>3. CASE JobEscalates
    BY <1>1, <2>3 DEF JobEscalates
  <2>4. CASE JobEscalated
    BY <1>1, <2>4 DEF JobEscalated
  <2>5. CASE JobChunk
    BY <1>1, <2>5 DEF JobChunk
  <2>6. CASE JobChunkEnds
    BY <1>0, <1>1, <2>6 DEF JobChunkEnds
  <2>7. CASE JobReturned
    BY <1>1, <2>7 DEF JobReturned
  <2> QED BY <1>3, <2>1, <2>2, <2>3, <2>4, <2>5, <2>6, <2>7 DEF JobStep
<1>4. CASE \E u \in Users : Reaborted(u) \/ ResetAnswered(u)
  <2>1. PICK u \in Users : Reaborted(u) \/ ResetAnswered(u)
    BY <1>4
  <2>2. CASE Reaborted(u)
    BY <1>1, <2>2 DEF Reaborted
  <2>3. CASE ResetAnswered(u)
    BY <1>1, <2>3 DEF ResetAnswered
  <2> QED BY <2>1, <2>2, <2>3
<1> QED BY <1>2, <1>3, <1>4

LEMMA ChatKeepsTypes ==
  ASSUME UseInv, CountersOk, LeaseOk, PoolOk, NEW c \in Chats, ChatStep(c)
  PROVE  CountersOk' /\ LeaseOk' /\ PoolOk'
<1>1. UNCHANGED <<frontend, excuse>>
  BY DEF ChatStep, Dispatch, AddRequest, Schedule, Finish
<1>2. CountersOk' /\ LeaseOk'
  BY <1>1 DEF CountersOk, LeaseOk, frontend
<1>3. PoolOk'
  <2> USE DEF PoolOk, pool
  <2>1. CASE Dispatch(c)
    BY <2>1 DEF Dispatch
  <2>2. CASE AddRequest(c)
    BY <2>2 DEF AddRequest
  <2>3. CASE Schedule(c)
    <3>1. PICK b \in Blocks :
       \/ refs' = [refs EXCEPT ![b] = @ \cup {c}] /\ UNCHANGED <<hash, holds>>
       \/ /\ refs' = [refs EXCEPT ![b] = {c}]
          /\ hash' = [hash EXCEPT ![b] = Prompt[c]]
          /\ holds' = [holds EXCEPT ![b] = Prompt[c]]
      BY <2>3 DEF Schedule
    <3>2. chat' = [chat EXCEPT ![c] = "running"]
      BY <2>3 DEF Schedule
    <3> QED BY <3>1, <3>2
  <2>4. CASE Finish(c)
    BY <2>4 DEF Finish, Release
  <2> QED BY <2>1, <2>2, <2>3, <2>4 DEF ChatStep
<1> QED BY <1>2, <1>3

LEMMA EngineKeepsTypes ==
  ASSUME UseInv, CountersOk, LeaseOk, PoolOk, EngineStep
  PROVE  CountersOk' /\ LeaseOk' /\ PoolOk'
<1>1. UNCHANGED frontend /\ (excuse' = excuse \/ excuse' = "none")
  BY DEF EngineStep, EngineAdds, EngineAborts, EngineForwards, EngineLends, EngineTakesBack,
         EngineResets, EnginePreempts, EngineResetRaises, DropsHashes
<1>2. CountersOk' /\ LeaseOk'
  BY <1>1 DEF CountersOk, LeaseOk, frontend
<1>3. PoolOk'
  <2> USE DEF PoolOk, pool
  <2>1. CASE EngineAdds
    BY <2>1 DEF EngineAdds
  <2>2. CASE EngineAborts
    BY <2>2 DEF EngineAborts, Release
  <2>3. CASE EngineForwards
    BY <2>3 DEF EngineForwards
  <2>4. CASE EngineLends
    <3>1. CASE UNCHANGED <<refs, hash>>
      BY <2>4, <3>1 DEF EngineLends
    <3>2. CASE \E lent \in SUBSET Lendable :
          /\ refs' = [b \in Blocks |-> IF b \in lent THEN refs[b] \cup {Job} ELSE refs[b]]
          /\ hash' = [b \in Blocks |-> IF b \in lent THEN None ELSE hash[b]]
      BY <2>4, <3>2 DEF EngineLends
    <3> QED BY <2>4, <3>1, <3>2 DEF EngineLends, Lent
  <2>5. CASE EngineTakesBack
    BY <2>5 DEF EngineTakesBack, Release
  <2>6. CASE EngineResets
    BY <2>6 DEF EngineResets, DropsHashes
  <2>7. CASE EnginePreempts
    BY <2>7 DEF EnginePreempts, DropsHashes, Release
  <2>8. CASE EngineResetRaises
    BY <2>8 DEF EngineResetRaises
  <2> QED BY <2>1, <2>2, <2>3, <2>4, <2>5, <2>6, <2>7, <2>8 DEF EngineStep
<1> QED BY <1>2, <1>3

LEMMA TypeStep == UseInv /\ TypeOK /\ [Next]_vars => TypeOK'
<1> SUFFICES ASSUME UseInv, TypeOK, [Next]_vars PROVE TypeOK'
  OBVIOUS
<1>1. CountersOk /\ LeaseOk /\ PoolOk
  BY TypeParts DEF UseInv
<1>2. UseInv'
  BY UseStep
<1>3. CountersOk' /\ LeaseOk' /\ PoolOk'
  <2>1. CASE EngineStep
    BY <1>1, <2>1, EngineKeepsTypes
  <2>2. CASE RoundStep \/ JobStep \/ \E u \in Users : Reaborted(u) \/ ResetAnswered(u)
    BY <1>1, <2>2, UsersKeepTypes
  <2>3. CASE \E c \in Chats : ChatStep(c)
    BY <1>1, <2>3, ChatKeepsTypes
  <2>4. CASE UNCHANGED vars
    BY <1>1, <2>4 DEF CountersOk, LeaseOk, PoolOk, vars, frontend, pool
  <2> QED BY <2>1, <2>2, <2>3, <2>4 DEF Next
<1>4. known' \in [Users -> SUBSET Chats] /\ requests' \subseteq Chats
  BY <1>2 DEF UseInv, PoolInv, Shape
<1>5. point' \in [Users -> Points] /\ reply' \in [Users -> {"none", "ok", "no", "fail"}]
  BY <1>2 DEF UseInv, TurnInv, Replies
<1>6. lease' \in {{}} \cup {lent \in SUBSET Blocks : Cardinality(lent) = Need}
  BY <1>3 DEF LeaseOk
<1> QED BY <1>3, <1>4, <1>5, <1>6 DEF TypeOK, CountersOk, PoolOk

(* The shared pool keeps its types, and a validation has a whole lease or none:      *)
(* whoever answered its request, a timed-out call of its own cannot.                 *)
THEOREM PoolTypes == Spec => []TypeOK
<1>1. Init => TypeOK
  <2> SUFFICES ASSUME Init PROVE TypeOK
    OBVIOUS
  <2>1. PoolInv /\ TurnInv
    BY UseInit DEF UseInv
  <2>2. CountersOk
    <3>1. /\ gate = FALSE /\ registered = FALSE /\ excuse = "none"
          /\ rounds = 0 /\ forwards = 0 /\ left = Chunks
      BY DEF Init
    <3>2. MaxRounds \in Nat /\ MaxForwards \in Nat /\ Chunks \in Nat
      BY PoolAssumption
    <3>3. gate \in BOOLEAN /\ registered \in BOOLEAN
      BY <3>1
    <3>4. rounds \in 0..MaxRounds
      BY <3>1, <3>2
    <3>5. forwards \in 0..MaxForwards /\ left \in 0..Chunks
      BY <3>1, <3>2
    <3> QED BY <3>1, <3>3, <3>4, <3>5 DEF CountersOk
  <2>3. LeaseOk
    BY DEF Init, LeaseOk
  <2>4. PoolOk
    <3>1. chat \in [Chats -> {"out"}] /\ refs \in [Blocks -> {{}}]
      BY DEF Init
    <3>2. hash \in [Blocks -> {None}] /\ holds \in [Blocks -> {None}]
      BY DEF Init
    <3> QED BY <3>1, <3>2 DEF PoolOk
  <2> QED BY <2>1, <2>2, <2>3, <2>4, TypeParts
<1> QED BY <1>1, UseAlways, TypeStep, PTL DEF Spec

--------------------------------------------------------------------------------
(* The prefix cache after in-place work. *)

AwaitsReset ==
  \A u \in Users : \A k \in DOMAIN calls : ByUser(k, u) /\ point[u] \in Resets => calls[k].op \in Resets

(* A forward in the queue, also one that nobody awaits any more, has behind it a     *)
(* call of a user that is still at work in place, hence a reset to come.             *)
Attended ==
  \A i \in DOMAIN calls : calls[i].op = "forward" =>
    \E u \in Users : Attends(u) /\ \E k \in DOMAIN calls : k >= i /\ ByUser(k, u)

Clean == \A b \in Blocks : hash[b] # None => holds[b] = hash[b]

CleanOutside == excuse = "none" /\ (\A u \in Users : ~Dirties(u)) => Clean

ResetInv == AwaitsReset /\ Attended /\ CleanOutside

(* Where a user is, as far as another one's step can tell. *)
LEMMA OthersStand ==
  ASSUME TurnInv, NEW u \in Users, StepOf(u), NEW v \in Users, v # u
  PROVE  /\ point'[v] = point[v] /\ reply'[v] = reply[v]
         /\ Attends(v) => Attends(v)'
         /\ Dirties(v)' <=> Dirties(v)
<1> USE JobIsNoChat
<1>1. v \in {Round, Job} /\ u \in {Round, Job}
  BY DEF Users
<1>2. PICK where \in Points : SendsTo(u, where) \/ GoesTo(u, where)
  BY DEF StepOf, Moves
<1>3. point'[v] = point[v] /\ reply'[v] = reply[v]
  BY <1>2 DEF SendsTo, GoesTo, Send, Await, SendsNothing, TurnInv
<1>4. CASE v = Job
  <2>1. lease' = lease
    BY <1>1, <1>4 DEF StepOf
  <2> QED BY <1>3, <1>4, <2>1 DEF Attends, Dirties, InPlaceAt, Crashed
<1>5. CASE v = Round
  <2>1. registered' = registered
    BY <1>1, <1>5 DEF StepOf
  <2> QED BY <1>3, <1>5, <2>1 DEF Attends, Dirties, InPlaceAt, Crashed
<1> QED BY <1>1, <1>4, <1>5, <1>3

LEMMA StepKeepsReset ==
  ASSUME PoolInv, TurnInv, ResetInv, NEW u \in Users, StepOf(u)
  PROVE  ResetInv'
<1> USE JobIsNoChat
<1>0. PICK n : n = Len(calls)
  OBVIOUS
<1>1. PICK where \in Points : SendsTo(u, where) \/ GoesTo(u, where)
  BY DEF StepOf, Moves
<1>2. point'[u] = where
  BY <1>1 DEF SendsTo, GoesTo, Send, Await, TurnInv
<1>3. ASSUME NEW v \in Users, Attends(v), reply[v] = "none" PROVE Attends(v)'
  <2>1. CASE v = u
    BY <1>3, <2>1 DEF StepOf
  <2>2. CASE v # u
    BY <1>3, <2>2, OthersStand
  <2> QED BY <2>1, <2>2
<1>4. CleanOutside'
  <2>1. UNCHANGED <<hash, holds>>
    BY DEF StepOf, Moves, pool
  <2>2. excuse' = "none" => excuse = "none" /\ \A v \in Users : Dirties(v) => Dirties(v)'
    BY OthersStand DEF StepOf
  <2> QED BY <2>1, <2>2 DEF ResetInv, CleanOutside, Clean
<1>5. CASE GoesTo(u, where)
  <2>1. UNCHANGED <<calls, reply>> /\ where \notin Resets
    BY <1>5 DEF GoesTo, SendsNothing
  <2>2. \A k, v : ByUser(k, v)' <=> ByUser(k, v)
    BY <2>1 DEF ByUser
  <2>3. AwaitsReset'
    <3> SUFFICES ASSUME NEW v \in Users, NEW k \in DOMAIN calls', ByUser(k, v)', point'[v] \in Resets
                 PROVE  calls'[k].op \in Resets
      BY DEF AwaitsReset
    <3>1. v # u /\ ByUser(k, v)
      BY <1>2, <2>1, <2>2
    <3>2. point[v] \in Resets
      BY <3>1, OthersStand
    <3> QED BY <2>1, <3>1, <3>2 DEF ResetInv, AwaitsReset
  <2>4. Attended'
    <3> SUFFICES ASSUME NEW i \in DOMAIN calls', calls'[i].op = "forward"
                 PROVE  \E v \in Users : Attends(v)' /\ \E k \in DOMAIN calls' : k >= i /\ ByUser(k, v)'
      BY DEF Attended
    <3>1. PICK v \in Users : Attends(v) /\ \E k \in DOMAIN calls : k >= i /\ ByUser(k, v)
      BY <2>1 DEF ResetInv, Attended
    <3>2. reply[v] = "none"
      BY <3>1 DEF TurnInv, Unanswered
    <3> QED BY <1>3, <2>1, <2>2, <3>1, <3>2
  <2> QED BY <1>4, <2>3, <2>4 DEF ResetInv
<1>6. CASE SendsTo(u, where)
  <2>1. PICK call \in CallType :
          /\ call.by = u /\ Send(u, call, where)
          /\ call.op = "forward" => where = "forward" /\ (u = Job => lease' = {})
          /\ where \in Resets => call.op \in Resets
    BY <1>6 DEF SendsTo
  <2>2. /\ DOMAIN calls' = 1..(n + 1) /\ DOMAIN calls = 1..n /\ n \in Nat /\ calls'[n + 1] = call
        /\ \A i \in DOMAIN calls : calls'[i].op = calls[i].op
    BY <1>0, <2>1, SendFacts DEF PoolInv
  <2>3. \A k, v : v \in Users => (ByUser(k, v)' <=> IF v = u THEN k = n + 1 ELSE ByUser(k, v))
    BY <1>0, <2>1, SendTurns
  <2>4. AwaitsReset'
    <3> SUFFICES ASSUME NEW v \in Users, NEW k \in DOMAIN calls', ByUser(k, v)', point'[v] \in Resets
                 PROVE  calls'[k].op \in Resets
      BY DEF AwaitsReset
    <3>1. CASE v = u
      <4>1. k = n + 1
        BY <2>3, <3>1
      <4> QED BY <1>2, <2>1, <2>2, <3>1, <4>1
    <3>2. CASE v # u
      <4>1. ByUser(k, v) /\ point[v] \in Resets
        BY <2>3, <3>2, OthersStand
      <4>2. k \in DOMAIN calls
        BY <4>1 DEF ByUser
      <4>3. calls[k].op \in Resets
        BY <4>1, <4>2 DEF ResetInv, AwaitsReset
      <4> QED BY <2>2, <4>2, <4>3
    <3> QED BY <3>1, <3>2
  <2>5. Attended'
    <3> SUFFICES ASSUME NEW i \in DOMAIN calls', calls'[i].op = "forward"
                 PROVE  \E v \in Users : Attends(v)' /\ \E k \in DOMAIN calls' : k >= i /\ ByUser(k, v)'
      BY DEF Attended
    <3>1. n + 1 \in DOMAIN calls' /\ n + 1 >= i /\ ByUser(n + 1, u)'
      BY <2>2, <2>3
    <3>2. CASE i = n + 1
      <4>1. where = "forward" /\ (u = Job => lease' = {})
        BY <2>1, <2>2, <3>2
      <4>2. Attends(u)'
        BY <1>2, <4>1 DEF Attends, InPlaceAt, Crashed, Resets
      <4> QED BY <3>1, <4>2
    <3>3. CASE i # n + 1
      <4>1. i \in DOMAIN calls /\ calls[i].op = "forward"
        BY <2>2, <3>3
      <4>2. PICK v \in Users, k \in DOMAIN calls : Attends(v) /\ k >= i /\ ByUser(k, v)
        BY <4>1 DEF ResetInv, Attended
      <4>3. reply[v] = "none"
        BY <4>2 DEF TurnInv, Unanswered
      <4>4. Attends(v)'
        BY <1>3, <4>2, <4>3
      <4>5. CASE v = u
        BY <3>1, <4>4, <4>5
      <4>6. CASE v # u
        <5>1. ByUser(k, v)' /\ k \in DOMAIN calls'
          BY <2>2, <2>3, <4>2, <4>6
        <5> QED BY <4>2, <4>4, <5>1
      <4> QED BY <4>5, <4>6
    <3> QED BY <3>2, <3>3
  <2> QED BY <1>4, <2>4, <2>5 DEF ResetInv
<1> QED BY <1>1, <1>5, <1>6

(* Chat fills blocks with what their hash says. *)
LEMMA ChatKeepsReset ==
  ASSUME PoolInv, TurnInv, PoolOk, ResetInv, NEW c \in Chats, ChatStep(c)
  PROVE  ResetInv'
<1>1. Grows
  BY ChatFacts
<1>2. UNCHANGED <<point, lease, registered, reply, excuse>>
  BY <1>1 DEF Grows, frontend
<1>3. \A k \in DOMAIN calls : k \in DOMAIN calls' /\ calls'[k] = calls[k]
  BY <1>1 DEF Grows
<1>4. \A k \in DOMAIN calls' : \/ k \in DOMAIN calls
                               \/ calls'[k].op = "add" /\ calls'[k].by \notin Users
  BY <1>1 DEF Grows
<1>5. \A v \in Users : (Attends(v)' <=> Attends(v)) /\ (Dirties(v)' <=> Dirties(v))
  BY <1>2 DEF Attends, Dirties, InPlaceAt, Crashed
<1>6. AwaitsReset'
  BY <1>2, <1>3, <1>4 DEF ResetInv, AwaitsReset, ByUser
<1>7. Attended'
  <2> SUFFICES ASSUME NEW i \in DOMAIN calls', calls'[i].op = "forward"
               PROVE  \E v \in Users : Attends(v)' /\ \E k \in DOMAIN calls' : k >= i /\ ByUser(k, v)'
    BY DEF Attended
  <2>1. i \in DOMAIN calls /\ calls[i].op = "forward"
    BY <1>3, <1>4
  <2>2. PICK v \in Users, k \in DOMAIN calls : Attends(v) /\ k >= i /\ ByUser(k, v)
    BY <2>1 DEF ResetInv, Attended
  <2>3. k \in DOMAIN calls' /\ ByUser(k, v)'
    BY <1>3, <2>2 DEF ByUser
  <2> QED BY <1>5, <2>2, <2>3
<1>8. Clean => Clean'
  <2>1. CASE UNCHANGED <<hash, holds>>
    BY <2>1 DEF Clean
  <2>2. CASE \E b \in Blocks : /\ hash' = [hash EXCEPT ![b] = Prompt[c]]
                               /\ holds' = [holds EXCEPT ![b] = Prompt[c]]
    BY <2>2 DEF Clean, PoolOk
  <2> QED BY <2>1, <2>2 DEF ChatStep, Dispatch, AddRequest, Schedule, Finish, pool
<1>9. CleanOutside'
  BY <1>2, <1>5, <1>8 DEF ResetInv, CleanOutside
<1> QED BY <1>6, <1>7, <1>9 DEF ResetInv

(* The engine core executes a call: only the reset that u awaits ends its work.      *)
LEMMA PopKeepsReset ==
  ASSUME PoolInv, TurnInv, ResetInv, NEW op, Pops(op), op \in Ops,
         excuse' = excuse \/ Clean',
         \/ Clean'
         \/ op = "forward"
         \/ /\ Clean => Clean'
            /\ op \in Resets => \A v \in Users : (reply'[v] = "ok" => reply[v] = "ok")
  PROVE  ResetInv'
<1> USE JobIsNoChat
<1>1. calls # <<>> /\ calls' = Tail(calls) /\ First.op = op
  BY DEF Pops, Executes
<1>2. UNCHANGED <<point, lease, registered>>
  BY DEF Pops, frontend
<1>3. /\ 1 \in DOMAIN calls /\ First = calls[1]
      /\ \A i \in DOMAIN calls' : i \in Nat /\ i + 1 \in DOMAIN calls /\ calls'[i] = calls[i + 1]
      /\ \A i \in DOMAIN calls : i \in Nat /\ (i # 1 => i - 1 \in DOMAIN calls' /\ calls'[i - 1] = calls[i])
  BY <1>1, ExecutesFacts DEF PoolInv
<1>4. /\ \A k, v : ByUser(k, v)' => k \in Nat /\ k + 1 # 1 /\ ByUser(k + 1, v)
      /\ \A v \in Users : reply'[v] = reply[v] \/ ByUser(1, v)
  BY PopTurns
<1>5. \A v \in Users : Attends(v)' <=> Attends(v)
  BY <1>2 DEF Attends, InPlaceAt, Crashed
<1>6. AwaitsReset'
  <2> SUFFICES ASSUME NEW v \in Users, NEW k \in DOMAIN calls', ByUser(k, v)', point[v] \in Resets
               PROVE  calls'[k].op \in Resets
    BY <1>2 DEF AwaitsReset
  <2> QED BY <1>3, <1>4 DEF ResetInv, AwaitsReset
<1>7. Attended'
  <2> SUFFICES ASSUME NEW i \in DOMAIN calls', calls'[i].op = "forward"
               PROVE  \E v \in Users : Attends(v)' /\ \E k \in DOMAIN calls' : k >= i /\ ByUser(k, v)'
    BY DEF Attended
  <2>1. i \in Nat /\ i + 1 \in DOMAIN calls /\ calls[i + 1].op = "forward"
    BY <1>3
  <2>2. PICK v \in Users, k \in DOMAIN calls : Attends(v) /\ k >= i + 1 /\ ByUser(k, v)
    BY <2>1 DEF ResetInv, Attended
  <2>3. DOMAIN calls' = 1..(Len(calls) - 1) /\ i \in 1..(Len(calls) - 1)
    BY <1>1, ExecutesFacts DEF PoolInv
  <2>4. k \in Nat /\ k # 1
    BY <1>3, <2>2, <2>3
  <2>5. k - 1 \in DOMAIN calls' /\ calls'[k - 1] = calls[k] /\ k - 1 >= i
    BY <1>3, <2>1, <2>2, <2>4
  <2>6. ByUser(k - 1, v)'
    BY <2>2, <2>5 DEF ByUser
  <2> QED BY <1>5, <2>2, <2>5, <2>6
<1>8. ASSUME NEW v \in Users, Dirties(v), op \notin Resets \/ (reply'[v] = "ok" => reply[v] = "ok")
      PROVE  Dirties(v)'
  <2>1. InPlaceAt(v)' <=> InPlaceAt(v)
    BY <1>2 DEF InPlaceAt
  <2>2. CASE point[v] \notin Resets
    BY <1>2, <1>8, <2>1, <2>2 DEF Dirties
  <2>3. CASE point[v] \in Resets
    <3>1. reply[v] # "ok"
      BY <1>8, <2>3 DEF Dirties
    <3>2. op \notin Resets => ~ByUser(1, v)
      BY <1>1, <1>3, <2>3 DEF ResetInv, AwaitsReset
    <3>3. reply'[v] # "ok"
      BY <1>4, <1>8, <3>1, <3>2
    <3> QED BY <1>8, <2>1, <3>3 DEF Dirties
  <2> QED BY <2>2, <2>3
<1>9. CleanOutside'
  <2>1. CASE Clean'
    BY <2>1 DEF CleanOutside
  <2>2. CASE op = "forward"
    <3>1. PICK v \in Users, k \in DOMAIN calls : Attends(v) /\ k >= 1 /\ ByUser(k, v)
      BY <1>1, <1>3, <2>2 DEF ResetInv, Attended
    <3>2. reply[v] = "none"
      BY <3>1 DEF TurnInv, Unanswered
    <3>3. Dirties(v)
      BY <3>1, <3>2 DEF Attends, Dirties
    <3>4. op \notin Resets
      BY <2>2 DEF Resets
    <3>5. Dirties(v)'
      BY <1>8, <3>3, <3>4
    <3> QED BY <3>5 DEF CleanOutside
  <2>3. CASE /\ Clean => Clean'
             /\ op \in Resets => \A v \in Users : (reply'[v] = "ok" => reply[v] = "ok")
             /\ excuse' = excuse /\ ~Clean'
    <3> SUFFICES ASSUME excuse = "none", \A v \in Users : ~Dirties(v)' PROVE FALSE
      BY <2>3 DEF CleanOutside
    <3>1. \A v \in Users : ~Dirties(v)
      BY <1>8, <2>3
    <3>2. Clean
      BY <3>1 DEF ResetInv, CleanOutside
    <3> QED BY <2>3, <3>2
  <2> QED BY <2>1, <2>2, <2>3
<1> QED BY <1>6, <1>7, <1>9 DEF ResetInv

LEMMA EngineKeepsReset ==
  ASSUME PoolInv, TurnInv, PoolOk, ResetInv, EngineStep
  PROVE  ResetInv'
<1> USE JobIsNoChat DEF pool
<1>0. {"add", "abort", "forward", "leased", "borrow", "return", "reset", "resetRunning"} \subseteq Ops
  BY DEF Ops
<1>1. ASSUME NEW op \in Ops \ Resets, Pops(op), UNCHANGED excuse, op = "forward" \/ (Clean => Clean')
      PROVE  ResetInv'
  BY <1>1, PopKeepsReset
<1>2. ASSUME NEW op \in Ops, Pops(op), UNCHANGED <<excuse, hash, holds>>,
             \A v \in Users : (reply'[v] = "ok" => reply[v] = "ok")
      PROVE  ResetInv'
  <2>1. Clean => Clean'
    BY <1>2 DEF Clean
  <2> QED BY <1>2, <2>1, PopKeepsReset
<1>3. {"add", "abort", "forward", "leased", "borrow", "return"} \subseteq Ops \ Resets
  BY <1>0 DEF Resets
<1>4. UNCHANGED <<hash, holds>> => (Clean => Clean')
  BY DEF Clean
<1>5. ASSUME NEW r \in {"no", "fail"}, Answers(r)
      PROVE  \A v \in Users : (reply'[v] = "ok" => reply[v] = "ok")
  BY <1>5 DEF Answers, TurnInv
<1>6. CASE EngineAdds
  BY <1>1, <1>3, <1>4, <1>6 DEF EngineAdds, Pops
<1>7. CASE EngineAborts
  BY <1>1, <1>3, <1>4, <1>7 DEF EngineAborts, Pops
<1>8. CASE EngineForwards
  <2>1. UNCHANGED excuse
    BY <1>8 DEF EngineForwards
  <2>2. CASE Executes("forward")
    <3>1. Pops("forward")
      BY <1>8, <2>2 DEF EngineForwards, Pops
    <3> QED BY <1>1, <1>3, <2>1, <3>1
  <2>3. CASE Executes("leased")
    <3>1. Pops("leased")
      BY <1>8, <2>3 DEF EngineForwards, Pops
    <3>2. calls # <<>> /\ First.op = "leased"
      BY <2>3 DEF Executes
    <3>3. 1 \in DOMAIN calls /\ First = calls[1]
      BY <3>2, FirstFacts
    <3>4. \A b \in First.on : b \in Blocks /\ hash[b] = None
      BY <3>2, <3>3 DEF PoolInv, LeaseInv, Backed, Own
    <3>5. Clean => Clean'
      BY <1>8, <3>4 DEF EngineForwards, Clean
    <3> QED BY <1>1, <1>3, <2>1, <3>1, <3>5
  <2> QED BY <1>8, <2>2, <2>3 DEF EngineForwards
<1>9. CASE EngineLends
  <2>1. Pops("borrow") /\ UNCHANGED excuse
    BY <1>9 DEF EngineLends, Pops
  <2>2. \A b \in Blocks : hash'[b] = hash[b] \/ hash'[b] = None
    BY <1>9 DEF EngineLends, Lent
  <2>3. holds' = holds
    BY <1>9 DEF EngineLends
  <2>4. Clean => Clean'
    BY <2>2, <2>3 DEF Clean
  <2> QED BY <1>1, <1>3, <2>1, <2>4
<1>10. CASE EngineTakesBack
  BY <1>1, <1>3, <1>4, <1>10 DEF EngineTakesBack, Pops
<1>11. ASSUME NEW op \in Resets, Executes(op), UNCHANGED <<frontend, holds>>, NEW p, DropsHashes(p)
       PROVE  ResetInv'
  <2>0. op \in Ops
    BY <1>0 DEF Resets
  <2>1. CASE p
    <3>1. Pops(op)
      BY <1>11, <2>1 DEF DropsHashes, Pops
    <3>2. Clean'
      BY <1>11, <2>1 DEF DropsHashes, Clean
    <3> QED BY <2>0, <3>1, <3>2, PopKeepsReset
  <2>2. CASE ~p
    <3>1. Pops(op) /\ Answers("no") /\ UNCHANGED <<hash, excuse>>
      BY <1>11, <2>2 DEF DropsHashes, Pops
    <3> QED BY <1>2, <1>5, <1>11, <2>0, <3>1
  <2> QED BY <2>1, <2>2
<1>12. CASE EngineResets
  BY <1>11, <1>12 DEF EngineResets, Resets
<1>13. CASE EnginePreempts
  BY <1>11, <1>13 DEF EnginePreempts, Resets
<1>14. CASE EngineResetRaises
  <2>1. UNCHANGED <<frontend, excuse, hash, holds>> /\ Answers("fail")
    BY <1>14 DEF EngineResetRaises
  <2>2. Pops("reset") \/ Pops("resetRunning")
    BY <1>14, <2>1 DEF EngineResetRaises, Pops
  <2> QED BY <1>0, <1>2, <1>5, <2>1, <2>2
<1> QED BY <1>6, <1>7, <1>8, <1>9, <1>10, <1>12, <1>13, <1>14 DEF EngineStep

LEMMA ResetStep == UseInv /\ TypeOK /\ ResetInv /\ [Next]_vars => ResetInv'
<1> SUFFICES ASSUME UseInv, TypeOK, ResetInv, [Next]_vars PROVE ResetInv'
  OBVIOUS
<1> USE JobIsNoChat DEF UseInv
<1>0. PoolOk
  BY TypeParts
<1>1. CASE RoundStep
  BY <1>1, RoundSteps, StepKeepsReset
<1>2. CASE JobStep
  BY <1>2, JobSteps, StepKeepsReset
<1>3. CASE EngineStep
  BY <1>0, <1>3, EngineKeepsReset
<1>4. CASE \E u \in Users : Reaborted(u) \/ ResetAnswered(u)
  BY <1>4, BothStep, StepKeepsReset
<1>5. CASE \E c \in Chats : ChatStep(c)
  BY <1>0, <1>5, ChatKeepsReset
<1>6. CASE UNCHANGED vars
  <2>1. UNCHANGED <<point, lease, registered, reply, excuse, calls, hash, holds>>
    BY <1>6 DEF vars, frontend, pool
  <2>2. AwaitsReset'
    BY <2>1 DEF ResetInv, AwaitsReset, ByUser
  <2>3. Attended'
    BY <2>1 DEF ResetInv, Attended, Attends, InPlaceAt, Crashed, ByUser
  <2>4. CleanOutside'
    BY <2>1 DEF ResetInv, CleanOutside, Clean, Dirties, InPlaceAt
  <2> QED BY <2>2, <2>3, <2>4 DEF ResetInv
<1> QED BY <1>1, <1>2, <1>3, <1>4, <1>5, <1>6 DEF Next

(* However the engine's queue delays the forwards of rounds and validations, and     *)
(* whoever gave up on them, a cached prefix found when no in-place work is under way *)
(* is what its hash says, unless the reset's failure was logged or /stop cut it      *)
(* short and none has succeeded since (reservation.py:266-296, routes.py:80-90).     *)
THEOREM CacheClean == Spec => []CacheIsCleanWhenQuiet
<1>1. Init => ResetInv
  BY DEF Init, ResetInv, AwaitsReset, Attended, CleanOutside, Clean, ByUser
<1>2. UseInv /\ ResetInv => CacheIsCleanWhenQuiet
  <2> SUFFICES ASSUME UseInv, ResetInv, InPlaceWorkIsOver, excuse = "none" PROVE Clean
    BY DEF CacheIsCleanWhenQuiet, Clean
  <2>1. \A u \in Users : ~Dirties(u)
    BY JobIsNoChat DEF InPlaceWorkIsOver, Dirties, InPlaceAt, Resets, Users
  <2> QED BY <2>1 DEF ResetInv, CleanOutside
<1> QED BY <1>1, <1>2, UseAlways, PoolTypes, ResetStep, PTL DEF Spec

================================================================================
