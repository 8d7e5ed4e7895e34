------------------------------ MODULE MiningRound ------------------------------
(* The life of a mining round: POST /init/generate, POST /stop, the generation
   task they create and cancel, its done-callback, its callback-sender task and
   the PoCGate all of them write.

   Everything runs on one asyncio event loop, so what a coroutine does between
   two awaits is one action here and an await that suspends is a value of a
   program counter.  An await of a task that is already done does not suspend.
   Each request is sent once; the round an /init/generate starts has its name. *)
CONSTANTS Inits,    \* the POST /init/generate requests (and their rounds)
          Stops,    \* the POST /stop requests
          Overlap,  \* "none": a request is sent after the previous answer;
                    \* "stop": or while only /stop requests are unanswered;
                    \* "all": at any time
          Compat,   \* what _compat.current() may do: TRUE returns, FALSE raises
          None      \* no round

ASSUME RoundAssumption ==
  /\ Inits \cap Stops = {} /\ None \notin Inits
  /\ Overlap \in {"none", "stop", "all"}
  /\ Compat \subseteq BOOLEAN

Handlers == Inits \cup Stops

VARIABLES
  entry,      \* _poc_tasks[app_id]: the registered round, or None
  gate,       \* PoCGate._active
  pc,         \* where each request handler is suspended, or how it answered
  victim,     \* the round whose tasks a handler popped and is cancelling
  gen,        \* gen_task of each round
  result,     \* how the generation coroutine leaves its loop
  cancelled,  \* gen_task.cancel() was called and is not delivered yet
  stopEvent,  \* the round's stop_event
  doneCb,     \* _on_generation_done is scheduled and has not run
  cb          \* callback_task of each round

vars == <<entry, gate, pc, victim, gen, result, cancelled, stopEvent, doneCb, cb>>

Suspended == {"awaitGen", "awaitCb", "abort", "teardown", "drain"}
Answered  == {"ok", "conflict", "error"}
Running   == {"ready", "forward", "backoff", "reset"}

TypeOK ==
  /\ entry \in Inits \cup {None}
  /\ gate \in BOOLEAN
  /\ pc \in [Handlers -> {"idle", "arrived"} \cup Suspended \cup Answered]
  /\ victim \in [Handlers -> Inits \cup {None}]
  /\ gen \in [Inits -> {"none", "done"} \cup Running]
  /\ result \in [Inits -> {"finished", "cancelled", "crashed"}]
  /\ cancelled \in [Inits -> BOOLEAN]
  /\ stopEvent \in [Inits -> BOOLEAN]
  /\ doneCb \in [Inits -> BOOLEAN]
  /\ cb \in [Inits -> {"none", "running", "done"}]

Init ==
  /\ entry = None
  /\ gate = FALSE
  /\ pc = [h \in Handlers |-> "idle"]
  /\ victim = [h \in Handlers |-> None]
  /\ gen = [r \in Inits |-> "none"]
  /\ result = [r \in Inits |-> "finished"]
  /\ cancelled = [r \in Inits |-> FALSE]
  /\ stopEvent = [r \in Inits |-> FALSE]
  /\ doneCb = [r \in Inits |-> FALSE]
  /\ cb = [r \in Inits |-> "none"]

Live(r) == gen[r] \in Running
InFlight(h) == pc[h] \notin {"idle"} \cup Answered

\* _is_generation_active
GenerationActive == entry # None /\ Live(entry)

--------------------------------------------------------------------------------
(* The request handlers. *)

(* The server accepts a request.  Its handler's first step is queued behind the
   callbacks that are scheduled already, so a request that comes while a
   done-callback is scheduled is as good as one that comes after it ran. *)
Arrive(h) ==
  /\ pc[h] = "idle"
  /\ \A k \in Handlers : InFlight(k) => Overlap = "all" \/ (Overlap = "stop" /\ k \in Stops)
  /\ \A r \in Inits : ~doneCb[r]
  /\ pc' = [pc EXCEPT ![h] = "arrived"]
  /\ UNCHANGED <<entry, gate, victim, gen, result, cancelled, stopEvent, doneCb, cb>>

\* Mutant: the error path of init_generate forgets to set stop_event.
ActivateUnsignalled(i, events, callbacks) ==
  \E url \in BOOLEAN, lookup \in Compat :
    /\ cb' = IF url THEN [callbacks EXCEPT ![i] = "running"] ELSE callbacks
    /\ stopEvent' = events
    /\ gate' = (url \/ lookup)
    /\ pc' = [pc EXCEPT ![i] = IF lookup THEN "abort"
                               ELSE IF url THEN "teardown" ELSE "error"]

(* init_generate from gate.activate to the suspension in abort_all_requests.
   The compat lookup may raise; then the callback task, if the request has a
   url, is waited for before the gate is deactivated. *)
Activate(i, events, callbacks) ==
  \E url \in BOOLEAN, lookup \in Compat :
    /\ cb' = IF url THEN [callbacks EXCEPT ![i] = "running"] ELSE callbacks
    /\ stopEvent' = IF url /\ ~lookup THEN [events EXCEPT ![i] = TRUE] ELSE events
    /\ gate' = (url \/ lookup)
    /\ pc' = [pc EXCEPT ![i] = IF lookup THEN "abort"
                               ELSE IF url THEN "teardown" ELSE "error"]

\* What a handler does when its _cancel_poc_tasks returns.
Proceed(h, events, callbacks) ==
  \/ /\ h \in Stops
     /\ pc' = [pc EXCEPT ![h] = "drain"]
     /\ stopEvent' = events /\ cb' = callbacks /\ UNCHANGED gate
  \/ h \in Inits /\ Activate(h, events, callbacks)

(* _cancel_poc_tasks after the await of gen_task of round r: the exception of a
   crashed task is raised again here, any other end goes on to callback_task. *)
AfterGen(h, r, events) ==
  \/ /\ result[r] = "crashed"
     /\ pc' = [pc EXCEPT ![h] = "error"]
     /\ stopEvent' = events /\ UNCHANGED <<gate, cb>>
  \/ /\ result[r] # "crashed" /\ cb[r] = "running"
     /\ pc' = [pc EXCEPT ![h] = "awaitCb"]
     /\ stopEvent' = events /\ UNCHANGED <<gate, cb>>
  \/ /\ result[r] # "crashed" /\ cb[r] # "running"
     /\ Proceed(h, events, cb)

\* A round is being generated: 409.
Conflict(i) ==
  /\ pc[i] = "arrived" /\ GenerationActive
  /\ pc' = [pc EXCEPT ![i] = "conflict"]
  /\ UNCHANGED <<entry, gate, victim, gen, result, cancelled, stopEvent, doneCb, cb>>

Accepted(h) == pc[h] = "arrived" /\ (h \in Inits => ~GenerationActive)

\* There is nothing to cancel.
BeginFresh(h) ==
  /\ Accepted(h) /\ entry = None
  /\ Proceed(h, stopEvent, cb)
  /\ UNCHANGED <<entry, victim, gen, result, cancelled, doneCb>>

\* Mutants of BeginCancel: the entry is read and not popped; the round is not
\* told to stop; gen_task is not awaited; the gate is opened before the cancel.
BeginCancelKeepsEntry(h) ==
  /\ Accepted(h) /\ entry # None /\ Live(entry)
  /\ victim' = [victim EXCEPT ![h] = entry]
  /\ stopEvent' = [stopEvent EXCEPT ![entry] = TRUE]
  /\ cancelled' = [cancelled EXCEPT ![entry] = TRUE]
  /\ pc' = [pc EXCEPT ![h] = "awaitGen"]
  /\ UNCHANGED <<entry, gate, gen, result, doneCb, cb>>

BeginCancelUnsignalled(h) ==
  /\ Accepted(h) /\ entry # None /\ Live(entry)
  /\ entry' = None
  /\ victim' = [victim EXCEPT ![h] = entry]
  /\ pc' = [pc EXCEPT ![h] = "awaitGen"]
  /\ UNCHANGED <<gate, gen, result, cancelled, stopEvent, doneCb, cb>>

BeginCancelUnawaited(h) ==
  /\ Accepted(h) /\ entry # None /\ Live(entry)
  /\ entry' = None
  /\ victim' = [victim EXCEPT ![h] = entry]
  /\ cancelled' = [cancelled EXCEPT ![entry] = TRUE]
  /\ Proceed(h, [stopEvent EXCEPT ![entry] = TRUE], cb)
  /\ UNCHANGED <<gen, result, doneCb>>

BeginCancelOpensGate(h) ==
  /\ Accepted(h) /\ entry # None /\ Live(entry)
  /\ entry' = None
  /\ victim' = [victim EXCEPT ![h] = entry]
  /\ stopEvent' = [stopEvent EXCEPT ![entry] = TRUE]
  /\ cancelled' = [cancelled EXCEPT ![entry] = TRUE]
  /\ pc' = [pc EXCEPT ![h] = "awaitGen"]
  /\ gate' = FALSE
  /\ UNCHANGED <<gen, result, doneCb, cb>>

\* The handler pops the entry and waits for the round it cancels.
BeginCancel(h) ==
  /\ Accepted(h) /\ entry # None /\ Live(entry)
  /\ entry' = None
  /\ victim' = [victim EXCEPT ![h] = entry]
  /\ stopEvent' = [stopEvent EXCEPT ![entry] = TRUE]
  /\ cancelled' = [cancelled EXCEPT ![entry] = TRUE]
  /\ pc' = [pc EXCEPT ![h] = "awaitGen"]
  /\ UNCHANGED <<gate, gen, result, doneCb, cb>>

\* The handler pops the entry of a round that has ended by itself.
BeginEnded(h) ==
  /\ Accepted(h) /\ entry # None /\ ~Live(entry)
  /\ entry' = None
  /\ victim' = [victim EXCEPT ![h] = entry]
  /\ AfterGen(h, entry, [stopEvent EXCEPT ![entry] = TRUE])
  /\ UNCHANGED <<gen, result, cancelled, doneCb>>

\* The done-callback was registered before the waiter: it has run by now.
GenAwaited(h) ==
  /\ pc[h] = "awaitGen" /\ gen[victim[h]] = "done" /\ ~doneCb[victim[h]]
  /\ AfterGen(h, victim[h], stopEvent)
  /\ UNCHANGED <<entry, victim, gen, result, cancelled, doneCb>>

CallbackAwaited(h) ==
  /\ pc[h] = "awaitCb"
  /\ Proceed(h, stopEvent, [cb EXCEPT ![victim[h]] = "done"])
  /\ UNCHANGED <<entry, victim, gen, result, cancelled, doneCb>>

\* Mutant: the round is spawned and not registered.
SpawnUnregistered(i) ==
  /\ pc[i] = "abort"
  /\ gen' = [gen EXCEPT ![i] = "ready"]
  /\ pc' = [pc EXCEPT ![i] = "ok"]
  /\ UNCHANGED <<entry, gate, victim, result, cancelled, stopEvent, doneCb, cb>>

\* abort_all_requests answers (it never raises): spawn, register, answer.
Spawn(i) ==
  /\ pc[i] = "abort"
  /\ gen' = [gen EXCEPT ![i] = "ready"]
  /\ entry' = i
  /\ pc' = [pc EXCEPT ![i] = "ok"]
  /\ UNCHANGED <<gate, victim, result, cancelled, stopEvent, doneCb, cb>>

\* Mutant: the error path does not deactivate the gate.
TeardownLeavesGate(i) ==
  /\ pc[i] = "teardown"
  /\ cb' = [cb EXCEPT ![i] = "done"]
  /\ pc' = [pc EXCEPT ![i] = "error"]
  /\ UNCHANGED <<entry, gate, victim, gen, result, cancelled, stopEvent, doneCb>>

\* The callback task has ended, or overran the wait and was cancelled.
Teardown(i) ==
  /\ pc[i] = "teardown"
  /\ cb' = [cb EXCEPT ![i] = "done"]
  /\ gate' = FALSE
  /\ pc' = [pc EXCEPT ![i] = "error"]
  /\ UNCHANGED <<entry, victim, gen, result, cancelled, stopEvent, doneCb>>

\* Mutant: deactivate stores None in _active.
StopAnswerNone(s) ==
  /\ pc[s] = "drain"
  /\ gate' = None
  /\ pc' = [pc EXCEPT ![s] = "ok"]
  /\ UNCHANGED <<entry, victim, gen, result, cancelled, stopEvent, doneCb, cb>>

\* clear_queue returns.
StopAnswer(s) ==
  /\ pc[s] = "drain"
  /\ gate' = FALSE
  /\ pc' = [pc EXCEPT ![s] = "ok"]
  /\ UNCHANGED <<entry, victim, gen, result, cancelled, stopEvent, doneCb, cb>>

--------------------------------------------------------------------------------
(* The tasks of round r. *)

GenMoves(r, to) ==
  /\ gen' = [gen EXCEPT ![r] = to]
  /\ UNCHANGED <<entry, gate, pc, victim, cancelled, stopEvent, cb>>

\* The loop head: another chunk unless stop_event is set.
LoopHead(r) == GenMoves(r, IF stopEvent[r] THEN "reset" ELSE "forward")

GenBegin(r) ==
  /\ gen[r] = "ready" /\ ~cancelled[r]
  /\ LoopHead(r) /\ UNCHANGED <<result, doneCb>>

\* A task cancelled before its first step ends without entering the coroutine.
GenNeverBegan(r) ==
  /\ gen[r] = "ready" /\ cancelled[r]
  /\ GenMoves(r, "done")
  /\ result' = [result EXCEPT ![r] = "cancelled"]
  /\ doneCb' = [doneCb EXCEPT ![r] = TRUE]

GenChunk(r) ==
  /\ gen[r] = "forward" /\ ~cancelled[r]
  /\ LoopHead(r) /\ UNCHANGED <<result, doneCb>>

GenTimeout(r) ==
  /\ gen[r] = "forward" /\ ~cancelled[r]
  /\ GenMoves(r, "backoff") /\ UNCHANGED <<result, doneCb>>

GenRetry(r) ==
  /\ gen[r] = "backoff" /\ ~cancelled[r]
  /\ LoopHead(r) /\ UNCHANGED <<result, doneCb>>

GenCrash(r) ==
  /\ gen[r] = "forward" /\ ~cancelled[r]
  /\ result' = [result EXCEPT ![r] = "crashed"]
  /\ GenMoves(r, "reset") /\ UNCHANGED doneCb

\* CancelledError inside the loop is swallowed and the finally block awaits.
GenCancelled(r) ==
  /\ gen[r] \in {"forward", "backoff"} /\ cancelled[r]
  /\ gen' = [gen EXCEPT ![r] = "reset"]
  /\ cancelled' = [cancelled EXCEPT ![r] = FALSE]
  /\ UNCHANGED <<entry, gate, pc, victim, result, stopEvent, doneCb, cb>>

\* The reset returns, or a cancellation lands in it and replaces what was raised.
GenEnd(r) ==
  /\ gen[r] = "reset"
  /\ result' = IF cancelled[r] THEN [result EXCEPT ![r] = "cancelled"] ELSE result
  /\ doneCb' = [doneCb EXCEPT ![r] = TRUE]
  /\ GenMoves(r, "done")

OnGenerationDone(r) ==
  /\ doneCb[r]
  /\ doneCb' = [doneCb EXCEPT ![r] = FALSE]
  /\ gate' = FALSE
  /\ UNCHANGED <<entry, pc, victim, gen, result, cancelled, stopEvent, cb>>

\* CallbackSender.run leaves its loop.
CallbackExit(r) ==
  /\ cb[r] = "running" /\ stopEvent[r]
  /\ cb' = [cb EXCEPT ![r] = "done"]
  /\ UNCHANGED <<entry, gate, pc, victim, gen, result, cancelled, stopEvent, doneCb>>

HandlerStep(h) ==
  \/ BeginFresh(h) \/ BeginCancel(h) \/ BeginEnded(h)
  \/ GenAwaited(h) \/ CallbackAwaited(h)

InitStep(i) == Conflict(i) \/ Spawn(i) \/ Teardown(i)

GenStep(r) ==
  \/ GenBegin(r) \/ GenNeverBegan(r) \/ GenChunk(r) \/ GenTimeout(r) \/ GenRetry(r)
  \/ GenCrash(r) \/ GenCancelled(r) \/ GenEnd(r)

Next ==
  \/ \E h \in Handlers : Arrive(h) \/ HandlerStep(h)
  \/ \E i \in Inits : InitStep(i) \/ GenStep(i) \/ OnGenerationDone(i) \/ CallbackExit(i)
  \/ \E s \in Stops : StopAnswer(s)

Spec == Init /\ [][Next]_vars

(* The loop runs every callback it was given; collective_rpc and the utility
   calls answer or time out, and a cancelled task is resumed. *)
Fairness ==
  /\ \A h \in Handlers : WF_vars(HandlerStep(h))
  /\ \A i \in Inits : /\ WF_vars(InitStep(i)) /\ WF_vars(GenStep(i))
                      /\ WF_vars(OnGenerationDone(i)) /\ WF_vars(CallbackExit(i))
  /\ \A s \in Stops : WF_vars(StopAnswer(s))

FairSpec == Spec /\ Fairness
--------------------------------------------------------------------------------
(* Properties that hold however requests overlap. *)

(* The gate never latches: while it shuts chat out, either an /init/generate is
   between activate and spawn, or a round exists whose done-callback will open
   the gate (the error path of init_generate, _on_generation_done). *)
GateNotLatched ==
  gate => \E r \in Inits : pc[r] \in {"abort", "teardown"} \/ Live(r) \/ doneCb[r]

(* _poc_tasks holds a running round or one that crashed, never one that a cancel
   already ended: _cancel_poc_tasks pops before it cancels. *)
RegisteredIsLiveOrCrashed ==
  entry # None => Live(entry) \/ (gen[entry] = "done" /\ result[entry] = "crashed")

(* Every /init/generate and every /stop is answered: no await in
   _cancel_poc_tasks or in the error path of init_generate waits for ever. *)
EveryRequestIsAnswered ==
  \A h \in Handlers : pc[h] = "arrived" ~> pc[h] \in Answered

--------------------------------------------------------------------------------
(* Properties that hold when a client waits for each answer (Overlap = "none"). *)

(* 409 "Already generating" and the awaits of _cancel_poc_tasks together keep two
   generation loops from forwarding at once. *)
AtMostOneRound == \A q, r \in Inits : Live(q) /\ Live(r) => q = r

(* ADR-0013, the gate is the single source of truth: while a round's task runs,
   its last reset included, chat and completions are shut out. *)
MiningBehindGate == \A r \in Inits : Live(r) \/ doneCb[r] => gate

(* A round that runs can be stopped: it is registered, or a handler that popped
   it is waiting for its end. *)
RoundIsReachable ==
  \A r \in Inits :
    Live(r) => \/ entry = r
               \/ \E s \in Stops : pc[s] = "awaitGen" /\ victim[s] = r

(* A callback loop is never orphaned: its round can still be cancelled, or is
   about to be registered, or its stop_event is set already. *)
CallbackLoopIsOwned ==
  \A r \in Inits : cb[r] = "running" => entry = r \/ pc[r] = "abort" \/ stopEvent[r]

(* POST /stop ends whatever was being mined when it came, even a round that is
   crashing meanwhile. *)
StopEndsRound ==
  \A s \in Stops, r \in Inits : (pc[s] = "arrived" /\ Live(r)) ~> ~Live(r)

(* ADR-0013 without the event loop. *)
Abstract == INSTANCE ExclusiveGate WITH
              Rounds <- Inits, owners <- {r \in Inits : Live(r) \/ doneCb[r]}

(* The handlers and tasks implement the exclusive gate of ExclusiveGate. *)
RefinesExclusiveGate == Abstract!Spec
================================================================================
