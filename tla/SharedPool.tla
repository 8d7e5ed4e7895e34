------------------------------- MODULE SharedPool -------------------------------
(* Chat, mining and validation on one pool of KV blocks: the middleware that lets   *)
(* requests in or not, the aborts before in-place forwards, leases, and the prefix  *)
(* cache, whose hashes outlive what they stand for when PoC writes over a block.    *)
(* Composes what MiningRound and KvReservation keep apart; a user of the pool is    *)
(* the mining loop or one validation, and its lock, probe and polling are theirs.   *)
EXTENDS Naturals, Sequences, FiniteSets

CONSTANTS
  Chats,          \* inference requests
  Prompt,         \* chat -> the prefix its prompt begins with
  Blocks,         \* the pool without the null block
  InPlace,        \* the blocks 1..N of the in-place layout
  Need,           \* blocks of a lease
  MaxRounds,      \* bound: mining rounds
  MaxForwards,    \* bound: forwards of all rounds
  Chunks,         \* chunks of the validation
  Unsure,         \* calls that may fail: a subset of {"forward", "borrow", "reset"}
  None

Round == "round"
Job == "job"
Users == {Round, Job}

ASSUME PoolAssumption ==
  /\ IsFiniteSet(Blocks) /\ InPlace \subseteq Blocks /\ Need \in Nat \ {0}
  /\ MaxRounds \in Nat /\ MaxForwards \in Nat /\ Chunks \in Nat
  /\ Users \cap Chats = {} /\ None \notin {Prompt[c] : c \in Chats}

VARIABLES
  gate,       \* PoCGate._active
  registered, \* _poc_tasks holds the round
  point,      \* where a user of the pool is suspended
  reply,      \* the answer of the call it awaits
  lease,      \* the blocks the validation has on loan
  rounds, forwards, left,  \* rounds begun, their forwards, chunks the job still has
  known,      \* the chats that were with the engine when u aborted inference
  excuse,     \* why the prefix cache may still hold clobbered blocks
  chat,       \* where an inference request is
  requests,   \* output_processor.request_states
  calls,      \* the engine core's queue
  refs,       \* block -> who holds a reference on it
  hash,       \* block -> the prefix its cached hash stands for
  holds       \* block -> what its bytes are

frontend == <<gate, registered, point, lease, rounds, forwards, left, known>>
pool == <<refs, hash, holds>>
vars == <<frontend, excuse, reply, chat, requests, calls, pool>>

Garbage == "poc"

Init ==
  /\ gate = FALSE /\ registered = FALSE
  /\ point = [u \in Users |-> "none"] /\ reply = [u \in Users |-> "none"]
  /\ lease = {} /\ rounds = 0 /\ forwards = 0 /\ left = Chunks
  /\ known = [u \in Users |-> {}] /\ excuse = "none"
  /\ chat = [c \in Chats |-> "out"] /\ requests = {}
  /\ calls = <<>>
  /\ refs = [b \in Blocks |-> {}]
  /\ hash = [b \in Blocks |-> None]
  /\ holds = [b \in Blocks |-> None]

--------------------------------------------------------------------------------
(* Sending calls.                                                                   *)

(* A forward carries the chats it must not meet.                                     *)
Call(op, user, on, spared) == [op |-> op, by |-> user, on |-> on, spared |-> spared]

Await(u, where) == point' = [point EXCEPT ![u] = where]

(* A call that timed out stays in the engine's queue; nobody takes its answer. *)
Abandoned(u) ==
  [i \in DOMAIN calls |-> IF calls[i].by = u THEN [calls[i] EXCEPT !.by = "nobody"] ELSE calls[i]]

Send(u, call, where) ==
  /\ calls' = Append(Abandoned(u), call)
  /\ reply' = [reply EXCEPT ![u] = "none"]
  /\ Await(u, where)

SendsNothing == UNCHANGED <<reply, calls>>

WithEngine == {c \in Chats : chat[c] \in {"sent", "waiting", "running"}}

(* Mutant: abort() looks the internal ids up as external ones and finds none. *)
AbortsNothing(u, where) ==
  /\ Send(u, Call("abort", u, {}, {}), where)
  /\ known' = [known EXCEPT ![u] = WithEngine] /\ requests' = requests

(* abort_all_requests: the internal ids of request_states, in one call. *)
AbortAll(u, where) ==
  /\ Send(u, Call("abort", u, requests, {}), where)
  /\ known' = [known EXCEPT ![u] = WithEngine] /\ requests' = {}

(* With nothing to abort it returns at once. *)
AbortsAndAwaits(u, where, next) ==
  \/ requests # {} /\ AbortAll(u, where)
  \/ requests = {} /\ Await(u, next) /\ SendsNothing /\ UNCHANGED <<known, requests>>

(* _execute_poc_forward_rpc without a lease: abort again, then forward. *)
InPlaceChunk(u) ==
  \/ requests # {} /\ AbortAll(u, "reAbort")
  \/ requests = {} /\ Send(u, Call("forward", u, InPlace, {}), "forward") /\ UNCHANGED <<known, requests>>

ResetCache(u, op) == Send(u, Call(op, u, {}, {}), op)

--------------------------------------------------------------------------------
(* The mining round: gate, abort, loop, reset, gate.                                *)

RoundBegins ==
  /\ point[Round] = "none" /\ rounds < MaxRounds
  /\ gate' = TRUE /\ rounds' = rounds + 1 /\ registered' = FALSE
  /\ AbortsAndAwaits(Round, "initAbort", "ready")
  /\ UNCHANGED <<lease, forwards, left, excuse, chat, pool>>

RoundSpawned ==
  /\ point[Round] \in {"initAbort", "ready"}
  /\ registered' = TRUE /\ Await(Round, "spawned")
  /\ UNCHANGED <<gate, lease, rounds, forwards, left, known, excuse, reply, chat, requests, calls, pool>>

(* The next batch, or the same one after a timeout. *)
RoundForward ==
  /\ \/ point[Round] = "spawned"
     \/ point[Round] = "forward" /\ reply[Round] = "ok"
     \/ point[Round] = "forward" /\ "forward" \in Unsure /\ reply[Round] = "none"
  /\ forwards < MaxForwards /\ forwards' = forwards + 1
  /\ InPlaceChunk(Round)
  /\ UNCHANGED <<gate, registered, lease, rounds, left, excuse, chat, pool>>

(* /stop forgets the round and cancels it at an await: before its first step the     *)
(* loop's finally block never runs, and a reset that is under way is cut short.      *)
RoundStopped ==
  /\ registered /\ registered' = FALSE
  /\ \/ point[Round] = "spawned" /\ Await(Round, "done") /\ SendsNothing /\ UNCHANGED excuse
     \/ point[Round] \in {"reAbort", "forward"} /\ ResetCache(Round, "reset") /\ UNCHANGED excuse
     \/ /\ point[Round] \in {"reset", "resetRunning"} /\ Await(Round, "done")
        /\ SendsNothing /\ excuse' = "cut"
  /\ UNCHANGED <<gate, lease, rounds, forwards, left, known, chat, requests, pool>>

(* The forward's error ends the loop; _poc_tasks keeps the round. *)
RoundCrashes ==
  /\ point[Round] = "forward" /\ reply[Round] = "fail"
  /\ ResetCache(Round, "reset")
  /\ UNCHANGED <<gate, registered, lease, rounds, forwards, left, known, excuse, chat, requests, pool>>

(* _on_generation_done *)
RoundDone ==
  /\ point[Round] = "done"
  /\ gate' = FALSE /\ Await(Round, "none")
  /\ UNCHANGED <<registered, lease, rounds, forwards, left, known, excuse, reply, chat, requests, calls, pool>>

--------------------------------------------------------------------------------
(* The validation: on a lease, or in place after an abort.                          *)

(* _is_generation_active *)
Mining == registered /\ point[Round] \notin {"none", "done"}

JobBegins ==
  /\ point[Job] = "none" /\ left > 0 /\ ~Mining
  /\ \/ Send(Job, Call("borrow", Job, {}, {}), "borrow") /\ UNCHANGED <<known, requests>>
     \/ AbortsAndAwaits(Job, "legacyAbort", "chunk")
  /\ UNCHANGED <<gate, registered, lease, rounds, forwards, left, excuse, chat, pool>>

JobBorrows ==
  /\ point[Job] \in {"borrow", "reborrow"} /\ reply[Job] = "ok"
  /\ lease' = {b \in Blocks : Job \in refs[b]}
  /\ Await(Job, "chunk")
  /\ UNCHANGED <<gate, registered, rounds, forwards, left, known, excuse, reply, chat, requests, calls, pool>>

(* No room: abort inference and ask once more, then work in place. *)
JobEscalates ==
  /\ point[Job] \in {"borrow", "reborrow"} /\ reply[Job] = "no"
  /\ \/ point[Job] = "borrow" /\ AbortsAndAwaits(Job, "escalated", "escalated")
     \/ point[Job] = "reborrow" /\ Await(Job, "chunk") /\ SendsNothing /\ UNCHANGED <<known, requests>>
  /\ UNCHANGED <<gate, registered, lease, rounds, forwards, left, excuse, chat, pool>>

JobEscalated ==
  /\ \/ point[Job] = "legacyAbort" /\ Await(Job, "chunk") /\ SendsNothing
     \/ point[Job] = "escalated" /\ Send(Job, Call("borrow", Job, {}, {}), "reborrow")
  /\ UNCHANGED <<gate, registered, lease, rounds, forwards, left, known, excuse, chat, requests, pool>>

(* A chunk begins when no round mines; a lease is kept through the pause. *)
JobChunk ==
  /\ point[Job] = "chunk" /\ ~Mining
  /\ \/ lease # {} /\ Send(Job, Call("leased", Job, lease, {}), "forward") /\ UNCHANGED <<known, requests>>
     \/ lease = {} /\ InPlaceChunk(Job)
  /\ UNCHANGED <<gate, registered, lease, rounds, forwards, left, excuse, chat, pool>>

JobLeaves ==
  IF lease # {} THEN Send(Job, Call("return", Job, lease, {}), "return")
  ELSE ResetCache(Job, "reset")

(* The chunk was computed, or it raised or timed out: the finally block follows. *)
JobChunkEnds ==
  /\ point[Job] = "forward"
  /\ \/ reply[Job] = "ok" /\ left > 1 /\ left' = left - 1 /\ Await(Job, "chunk") /\ SendsNothing
     \/ reply[Job] = "ok" /\ left = 1 /\ left' = 0 /\ JobLeaves
     \/ "forward" \in Unsure /\ reply[Job] \in {"none", "fail"} /\ JobLeaves /\ UNCHANGED left
  /\ UNCHANGED <<gate, registered, lease, rounds, forwards, known, excuse, chat, requests, pool>>

JobReturned ==
  /\ point[Job] = "return" /\ reply[Job] = "ok"
  /\ lease' = {} /\ Await(Job, "over")
  /\ UNCHANGED <<gate, registered, rounds, forwards, left, known, excuse, reply, chat, requests, calls, pool>>

--------------------------------------------------------------------------------
(* Both users: the forward after the abort, and the reset of the prefix cache.      *)

Reaborted(u) ==
  /\ point[u] = "reAbort"
  /\ Send(u, Call("forward", u, InPlace, known[u]), "forward")
  /\ UNCHANGED <<gate, registered, lease, rounds, forwards, left, known, excuse, chat, requests, pool>>

Ends(u) == Await(u, IF u = Round THEN "done" ELSE "over")

(* Mutant: the failure of the first attempt ends it. *)
ResetAnsweredOnce(u) ==
  /\ point[u] \in {"reset", "resetRunning"} /\ reply[u] # "none"
  /\ Ends(u) /\ SendsNothing /\ UNCHANGED excuse
  /\ UNCHANGED <<gate, registered, lease, rounds, forwards, left, known, chat, requests, pool>>

(* reset_prefix_cache_after_inplace_poc: a second attempt preempts running requests; *)
(* a failure of both is reported.                                                    *)
ResetAnswered(u) ==
  /\ point[u] \in {"reset", "resetRunning"} /\ reply[u] # "none"
  /\ \/ reply[u] = "ok" /\ Ends(u) /\ SendsNothing /\ UNCHANGED excuse
     \/ reply[u] # "ok" /\ point[u] = "reset" /\ ResetCache(u, "resetRunning") /\ UNCHANGED excuse
     \/ /\ reply[u] # "ok" /\ point[u] = "resetRunning"
        /\ Ends(u) /\ SendsNothing /\ excuse' = "reported"
  /\ UNCHANGED <<gate, registered, lease, rounds, forwards, left, known, chat, requests, pool>>

--------------------------------------------------------------------------------
(* Chat: the middleware looks at the gate when a request comes; the engine client    *)
(* learns of it later.                                                               *)

Dispatch(c) ==
  /\ chat[c] = "out"
  /\ chat' = [chat EXCEPT ![c] = IF gate THEN "refused" ELSE "admitted"]
  /\ UNCHANGED <<frontend, excuse, reply, requests, calls, pool>>

AddRequest(c) ==
  /\ chat[c] = "admitted"
  /\ chat' = [chat EXCEPT ![c] = "sent"]
  /\ requests' = requests \cup {c}
  /\ calls' = Append(calls, Call("add", c, {}, {}))
  /\ UNCHANGED <<frontend, excuse, reply, pool>>

(* The scheduler: a cached prefix is shared, otherwise a free block is taken, its     *)
(* hash evicted, and filled.                                                          *)
Schedule(c) ==
  /\ chat[c] = "waiting"
  /\ \E b \in Blocks :
       \/ hash[b] = Prompt[c] /\ refs' = [refs EXCEPT ![b] = @ \cup {c}] /\ UNCHANGED <<hash, holds>>
       \/ /\ \A d \in Blocks : hash[d] # Prompt[c]
          /\ refs[b] = {} /\ refs' = [refs EXCEPT ![b] = {c}]
          /\ hash' = [hash EXCEPT ![b] = Prompt[c]]
          /\ holds' = [holds EXCEPT ![b] = Prompt[c]]
  /\ chat' = [chat EXCEPT ![c] = "running"]
  /\ UNCHANGED <<frontend, excuse, reply, requests, calls>>

(* free_blocks keeps the hash. *)
Release(users) == refs' = [b \in Blocks |-> refs[b] \ users]

Finish(c) ==
  /\ chat[c] = "running"
  /\ Release({c}) /\ chat' = [chat EXCEPT ![c] = "over"]
  /\ requests' = requests \ {c}
  /\ UNCHANGED <<frontend, excuse, reply, calls, hash, holds>>

--------------------------------------------------------------------------------
(* The engine core executes its queue in order. *)

First == Head(calls)
Executes(op) == calls # <<>> /\ First.op = op /\ calls' = Tail(calls)

Answers(r) ==
  reply' = IF First.by \in Users THEN [reply EXCEPT ![First.by] = r] ELSE reply

EngineAdds ==
  /\ Executes("add")
  /\ chat' = [chat EXCEPT ![First.by] = "waiting"]
  /\ UNCHANGED <<frontend, excuse, reply, requests, pool>>

EngineAborts ==
  /\ Executes("abort")
  /\ chat' = [c \in Chats |-> IF c \in First.on THEN "over" ELSE chat[c]]
  /\ Release(First.on)
  /\ UNCHANGED <<frontend, excuse, reply, requests, hash, holds>>

EngineForwards ==
  /\ (Executes("forward") \/ Executes("leased"))
  /\ holds' = [b \in Blocks |-> IF b \in First.on THEN Garbage ELSE holds[b]]
  /\ Answers("ok") \/ ("forward" \in Unsure /\ Answers("fail"))
  /\ UNCHANGED <<frontend, excuse, chat, requests, refs, hash>>

Free == {b \in Blocks : refs[b] = {}}

(* Mutant: the blocks are lent with the hashes they have. *)
LentWithHash(lent) == UNCHANGED hash

(* get_new_blocks evicts the hashes of the blocks it hands out. *)
Lent(lent) == hash' = [b \in Blocks |-> IF b \in lent THEN None ELSE hash[b]]

Lendable == Free

(* Mutant: a lease a null block slipped into is not rolled back. *)
LeaseOfSome(lent) == Cardinality(lent) \in 1..Need

WholeLease(lent) == Cardinality(lent) = Need

EngineLends ==
  /\ Executes("borrow")
  /\ \/ /\ Cardinality(Lendable) < Need \/ "borrow" \in Unsure
        /\ Answers("no") /\ UNCHANGED <<refs, hash>>
     \/ \E lent \in SUBSET Lendable :
          /\ WholeLease(lent)
          /\ refs' = [b \in Blocks |-> IF b \in lent THEN refs[b] \cup {Job} ELSE refs[b]]
          /\ Lent(lent) /\ Answers("ok")
  /\ UNCHANGED <<frontend, excuse, chat, requests, holds>>

EngineTakesBack ==
  /\ Executes("return")
  /\ Release({Job}) /\ Answers("ok")
  /\ UNCHANGED <<frontend, excuse, chat, requests, hash, holds>>

(* BlockPool.reset_prefix_cache drops nothing unless every block is free. *)
DropsHashes(possible) ==
  IF possible
  THEN hash' = [b \in Blocks |-> None] /\ excuse' = "none" /\ Answers("ok")
  ELSE Answers("no") /\ UNCHANGED <<hash, excuse>>

EngineResets ==
  /\ Executes("reset")
  /\ DropsHashes(Free = Blocks)
  /\ UNCHANGED <<frontend, chat, requests, refs, holds>>

(* reset_running_requests: what runs gives its blocks back and waits again. *)
EnginePreempts ==
  /\ Executes("resetRunning")
  /\ Release(Chats)
  /\ chat' = [c \in Chats |-> IF chat[c] = "running" THEN "waiting" ELSE chat[c]]
  /\ DropsHashes(\A b \in Blocks : refs[b] \subseteq Chats)
  /\ UNCHANGED <<frontend, requests, holds>>

EngineResetRaises ==
  /\ "reset" \in Unsure
  /\ (Executes("reset") \/ Executes("resetRunning"))
  /\ Answers("fail")
  /\ UNCHANGED <<frontend, excuse, chat, requests, pool>>

--------------------------------------------------------------------------------
RoundStep ==
  \/ RoundBegins \/ RoundSpawned \/ RoundForward
  \/ RoundStopped \/ RoundCrashes \/ RoundDone

JobStep ==
  \/ JobBegins \/ JobBorrows \/ JobEscalates \/ JobEscalated
  \/ JobChunk \/ JobChunkEnds \/ JobReturned

ChatStep(c) == Dispatch(c) \/ AddRequest(c) \/ Schedule(c) \/ Finish(c)

EngineStep ==
  \/ EngineAdds \/ EngineAborts \/ EngineForwards \/ EngineLends \/ EngineTakesBack
  \/ EngineResets \/ EnginePreempts \/ EngineResetRaises

Next ==
  \/ RoundStep \/ JobStep \/ EngineStep
  \/ \E u \in Users : Reaborted(u) \/ ResetAnswered(u)
  \/ \E c \in Chats : ChatStep(c)

Spec == Init /\ [][Next]_vars

--------------------------------------------------------------------------------
Points ==
  {"none", "initAbort", "ready", "spawned", "reAbort", "forward", "reset", "resetRunning", "done",
   "borrow", "legacyAbort", "escalated", "reborrow", "chunk", "return", "over"}

(* Types of the state; a validation has a whole lease or none. *)
TypeOK ==
  /\ gate \in BOOLEAN /\ registered \in BOOLEAN /\ excuse \in {"none", "reported", "cut"}
  /\ point \in [Users -> Points]
  /\ reply \in [Users -> {"none", "ok", "no", "fail"}]
  /\ lease \in {{}} \cup {lent \in SUBSET Blocks : Cardinality(lent) = Need}
  /\ rounds \in 0..MaxRounds /\ forwards \in 0..MaxForwards /\ left \in 0..Chunks
  /\ known \in [Users -> SUBSET Chats]
  /\ chat \in [Chats -> {"out", "refused", "admitted", "sent", "waiting", "running", "over"}]
  /\ requests \subseteq Chats
  /\ refs \in [Blocks -> SUBSET (Chats \cup {Job})]
  /\ hash \in [Blocks -> {Prompt[c] : c \in Chats} \cup {None}]
  /\ holds \in [Blocks -> {Prompt[c] : c \in Chats} \cup {None, Garbage}]

--------------------------------------------------------------------------------
(* What the pool's users promise one another.                                        *)

(* When an in-place forward writes over blocks 1..N, every request that was with the *)
(* engine when inference was aborted for it (routes.py:80-90) is gone, whatever was  *)
(* queued, scheduled or preempted in between: the only requests whose cache it may   *)
(* destroy are those that reached the engine after the abort.                        *)
OnlyNewcomersAreOverwritten ==
  calls # <<>> /\ First.op = "forward" => \A c \in First.spared : chat[c] = "over"

(* A leased forward, run as late as the engine likes and even when nobody waits for  *)
(* it any more, writes blocks that no request refers to and no prefix hash stands    *)
(* for: the safety contract of reservation.py:11-16.                                 *)
LeaseIsPrivate ==
  calls # <<>> /\ First.op = "leased" =>
    \A b \in First.on : refs[b] = {Job} /\ hash[b] = None

(* Between rounds and in-place validations every cached prefix is what its hash      *)
(* says, so a prefix hit never serves PoC bytes, unless the reset's failure was      *)
(* logged (reservation.py:293-296) or /stop cut the reset short, and no reset has    *)
(* succeeded since.                                                                  *)
InPlaceWorkIsOver ==
  /\ point[Round] = "none" /\ ~gate
  /\ point[Job] \in {"none", "borrow", "over"} \/ lease # {}

CacheIsCleanWhenQuiet ==
  InPlaceWorkIsOver /\ excuse = "none" =>
    \A b \in Blocks : hash[b] # None => holds[b] = hash[b]
================================================================================
