-------------------------- MODULE MiningRound_proofs ---------------------------
(* Proofs about MiningRound: its types, that the gate never latches however
   requests overlap, and that serialised requests keep one round behind it. *)
EXTENDS MiningRound, TLAPS

(* Every variable keeps its type: requests and rounds are registered, suspended
   and cancelled only in the ways init_generate and stop_round allow. *)
THEOREM TypeCorrect == Spec => []TypeOK
<1>1. Init => TypeOK
  <2> SUFFICES ASSUME Init PROVE TypeOK
    OBVIOUS
  <2>1. gate \in BOOLEAN
    BY DEF Init
  <2>2. /\ cancelled \in [Inits -> BOOLEAN]
        /\ stopEvent \in [Inits -> BOOLEAN]
        /\ doneCb \in [Inits -> BOOLEAN]
    BY DEF Init
  <2> QED BY <2>1, <2>2 DEF Init, TypeOK, Suspended, Answered, Running
<1>2. TypeOK /\ [Next]_vars => TypeOK'
  <2> SUFFICES ASSUME TypeOK, [Next]_vars PROVE TypeOK'
    OBVIOUS
  <2> USE DEF TypeOK, Suspended, Answered, Running
  <2>1. ASSUME NEW h \in Handlers, Arrive(h) PROVE TypeOK'
    BY <2>1 DEF Arrive
  <2>2. ASSUME NEW h \in Handlers, NEW ev \in [Inits -> BOOLEAN],
               NEW cbs \in [Inits -> {"none", "running", "done"}], Proceed(h, ev, cbs)
        PROVE  /\ gate' \in BOOLEAN
               /\ pc' \in [Handlers -> {"idle", "arrived"} \cup Suspended \cup Answered]
               /\ stopEvent' \in [Inits -> BOOLEAN]
               /\ cb' \in [Inits -> {"none", "running", "done"}]
    <3>1. CASE h \in Stops /\ pc' = [pc EXCEPT ![h] = "drain"] /\ stopEvent' = ev
               /\ cb' = cbs /\ gate' = gate
      BY <3>1 DEF Handlers
    <3>2. CASE h \in Inits /\ Activate(h, ev, cbs)
      <4>1. PICK url \in BOOLEAN, lookup \in Compat :
              /\ cb' = IF url THEN [cbs EXCEPT ![h] = "running"] ELSE cbs
              /\ stopEvent' = IF url /\ ~lookup THEN [ev EXCEPT ![h] = TRUE] ELSE ev
              /\ gate' = (url \/ lookup)
              /\ pc' = [pc EXCEPT ![h] = IF lookup THEN "abort"
                                         ELSE IF url THEN "teardown" ELSE "error"]
        BY <3>2 DEF Activate
      <4>2. gate' \in BOOLEAN
        BY <4>1
      <4> QED BY <3>2, <4>1, <4>2 DEF Handlers
    <3> QED BY <2>2, <3>1, <3>2 DEF Proceed
  <2>3. ASSUME NEW h \in Handlers, NEW r, NEW ev \in [Inits -> BOOLEAN],
               AfterGen(h, r, ev)
        PROVE  /\ gate' \in BOOLEAN
               /\ pc' \in [Handlers -> {"idle", "arrived"} \cup Suspended \cup Answered]
               /\ stopEvent' \in [Inits -> BOOLEAN]
               /\ cb' \in [Inits -> {"none", "running", "done"}]
    BY <2>2, <2>3 DEF AfterGen
  <2>4. ASSUME NEW h \in Handlers, HandlerStep(h) PROVE TypeOK'
    <3>1. CASE BeginFresh(h)
      BY <2>2, <3>1 DEF BeginFresh
    <3>2. CASE BeginCancel(h)
      BY <3>2 DEF BeginCancel
    <3>3. CASE BeginEnded(h)
      BY <2>3, <3>3 DEF BeginEnded
    <3>4. CASE GenAwaited(h)
      BY <2>3, <3>4 DEF GenAwaited
    <3>5. CASE CallbackAwaited(h)
      BY <2>2, <3>5 DEF CallbackAwaited
    <3> QED BY <2>4, <3>1, <3>2, <3>3, <3>4, <3>5 DEF HandlerStep
  <2>5. ASSUME NEW i \in Inits, InitStep(i) PROVE TypeOK'
    BY <2>5 DEF InitStep, Conflict, Spawn, Teardown
  <2>6. ASSUME NEW r \in Inits, GenStep(r) PROVE TypeOK'
    <3>1. CASE GenBegin(r)
      BY <3>1 DEF GenBegin, GenMoves, LoopHead
    <3>2. CASE GenNeverBegan(r)
      BY <3>2 DEF GenNeverBegan, GenMoves
    <3>3. CASE GenChunk(r)
      BY <3>3 DEF GenChunk, GenMoves, LoopHead
    <3>4. CASE GenTimeout(r)
      BY <3>4 DEF GenTimeout, GenMoves
    <3>5. CASE GenRetry(r)
      BY <3>5 DEF GenRetry, GenMoves, LoopHead
    <3>6. CASE GenCrash(r)
      BY <3>6 DEF GenCrash, GenMoves
    <3>7. CASE GenCancelled(r)
      BY <3>7 DEF GenCancelled
    <3>8. CASE GenEnd(r)
      BY <3>8 DEF GenEnd, GenMoves
    <3> QED BY <2>6, <3>1, <3>2, <3>3, <3>4, <3>5, <3>6, <3>7, <3>8 DEF GenStep
  <2>7. ASSUME NEW r \in Inits, OnGenerationDone(r) \/ CallbackExit(r) PROVE TypeOK'
    BY <2>7 DEF OnGenerationDone, CallbackExit
  <2>8. ASSUME NEW s \in Stops, StopAnswer(s) PROVE TypeOK'
    BY <2>8 DEF StopAnswer
  <2>9. CASE UNCHANGED vars
    BY <2>9 DEF vars
  <2> QED BY <2>1, <2>4, <2>5, <2>6, <2>7, <2>8, <2>9 DEF Next
<1> QED BY <1>1, <1>2, PTL DEF Spec

(* However requests overlap, the gate is never left shut: init_generate's error
   path and _on_generation_done open it after every gate.activate. *)
THEOREM GateOpens == Spec => []GateNotLatched
<1>1. Init => GateNotLatched
  BY DEF Init, GateNotLatched
<1>2. TypeOK /\ GateNotLatched /\ [Next]_vars => GateNotLatched'
  <2> SUFFICES ASSUME TypeOK, GateNotLatched, [Next]_vars PROVE GateNotLatched'
    OBVIOUS
  <2> USE RoundAssumption DEF TypeOK, Handlers, Suspended, Answered, Running, GateNotLatched, Live
  <2>1. ASSUME NEW h \in Handlers, Arrive(h) PROVE GateNotLatched'
    BY <2>1 DEF Arrive
  <2>2. ASSUME NEW h \in Handlers, NEW ev, NEW cbs, Proceed(h, ev, cbs),
               pc[h] \notin {"abort", "teardown"}, UNCHANGED <<gen, doneCb>>
        PROVE  GateNotLatched'
    <3>1. CASE h \in Stops /\ pc' = [pc EXCEPT ![h] = "drain"] /\ gate' = gate
      BY <2>2, <3>1
    <3>2. CASE h \in Inits /\ Activate(h, ev, cbs)
      <4>1. PICK url \in BOOLEAN, lookup \in Compat :
              /\ gate' = (url \/ lookup)
              /\ pc' = [pc EXCEPT ![h] = IF lookup THEN "abort"
                                         ELSE IF url THEN "teardown" ELSE "error"]
        BY <3>2 DEF Activate
      <4>2. CASE lookup
        BY <3>2, <4>1, <4>2
      <4>3. CASE ~lookup /\ url
        BY <3>2, <4>1, <4>3
      <4>4. CASE ~lookup /\ ~url
        BY <4>1, <4>4
      <4> QED BY <4>2, <4>3, <4>4
    <3> QED BY <2>2, <3>1, <3>2 DEF Proceed
  <2>3. ASSUME NEW h \in Handlers, NEW r, NEW ev, AfterGen(h, r, ev),
               pc[h] \notin {"abort", "teardown"}, UNCHANGED <<gen, doneCb>>
        PROVE  GateNotLatched'
    <3>1. CASE UNCHANGED gate /\ \E a \in {"error", "awaitCb"} : pc' = [pc EXCEPT ![h] = a]
      BY <2>3, <3>1
    <3>2. CASE Proceed(h, ev, cb)
      BY <2>2, <2>3, <3>2
    <3> QED BY <2>3, <3>1, <3>2 DEF AfterGen
  <2>4. ASSUME NEW h \in Handlers, HandlerStep(h) PROVE GateNotLatched'
    <3>1. CASE BeginFresh(h)
      BY <2>2, <3>1 DEF BeginFresh, Accepted
    <3>2. CASE BeginCancel(h)
      BY <3>2 DEF BeginCancel, Accepted
    <3>3. CASE BeginEnded(h)
      BY <2>3, <3>3 DEF BeginEnded, Accepted
    <3>4. CASE GenAwaited(h)
      BY <2>3, <3>4 DEF GenAwaited
    <3>5. CASE CallbackAwaited(h)
      BY <2>2, <3>5 DEF CallbackAwaited
    <3> QED BY <2>4, <3>1, <3>2, <3>3, <3>4, <3>5 DEF HandlerStep
  <2>5. ASSUME NEW i \in Inits, InitStep(i) PROVE GateNotLatched'
    <3>1. CASE Conflict(i)
      BY <3>1 DEF Conflict
    <3>2. CASE Spawn(i)
      BY <3>2 DEF Spawn
    <3>3. CASE Teardown(i)
      BY <3>3 DEF Teardown
    <3> QED BY <2>5, <3>1, <3>2, <3>3 DEF InitStep
  <2>6. ASSUME NEW r \in Inits, GenStep(r) PROVE GateNotLatched'
    <3>1. CASE GenBegin(r)
      BY <3>1 DEF GenBegin, GenMoves, LoopHead
    <3>2. CASE GenNeverBegan(r)
      BY <3>2 DEF GenNeverBegan, GenMoves
    <3>3. CASE GenChunk(r)
      BY <3>3 DEF GenChunk, GenMoves, LoopHead
    <3>4. CASE GenTimeout(r)
      BY <3>4 DEF GenTimeout, GenMoves
    <3>5. CASE GenRetry(r)
      BY <3>5 DEF GenRetry, GenMoves, LoopHead
    <3>6. CASE GenCrash(r)
      BY <3>6 DEF GenCrash, GenMoves
    <3>7. CASE GenCancelled(r)
      BY <3>7 DEF GenCancelled
    <3>8. CASE GenEnd(r)
      BY <3>8 DEF GenEnd, GenMoves
    <3> QED BY <2>6, <3>1, <3>2, <3>3, <3>4, <3>5, <3>6, <3>7, <3>8 DEF GenStep
  <2>7. ASSUME NEW r \in Inits, OnGenerationDone(r) \/ CallbackExit(r) PROVE GateNotLatched'
    <3>1. CASE OnGenerationDone(r)
      BY <3>1 DEF OnGenerationDone
    <3>2. CASE CallbackExit(r)
      BY <3>2 DEF CallbackExit
    <3> QED BY <2>7, <3>1, <3>2
  <2>8. ASSUME NEW s \in Stops, StopAnswer(s) PROVE GateNotLatched'
    BY <2>8 DEF StopAnswer
  <2>9. CASE UNCHANGED vars
    BY <2>9 DEF vars
  <2> QED BY <2>1, <2>4, <2>5, <2>6, <2>7, <2>8, <2>9 DEF Next
<1> QED BY <1>1, <1>2, TypeCorrect, PTL DEF Spec

--------------------------------------------------------------------------------
(* Serialised requests.  Claimed(r): round r owns the engine or its done-callback
   has still to open the gate. *)
Claimed(r) == Live(r) \/ doneCb[r]

\* A handler suspended where it holds the registry empty and the engine free.
Exclusive(h) == pc[h] \in {"abort", "teardown", "awaitCb", "drain"}

\* One request in flight, one claimed round, and the gate shut for both.
OneAtATime ==
  /\ \A h, k \in Handlers : InFlight(h) /\ InFlight(k) => h = k
  /\ \A q, r \in Inits : Claimed(q) /\ Claimed(r) => q = r
  /\ \A r \in Inits : Claimed(r) => gate
  /\ \A i \in Inits : pc[i] = "abort" => gate

\* Who knows the claimed round.
Known ==
  /\ RoundIsReachable
  /\ \A h \in Handlers : Exclusive(h) => entry = None /\ \A r \in Inits : ~Claimed(r)
  /\ \A h \in Handlers : pc[h] = "awaitGen" =>
       /\ h \in Stops /\ entry = None
       /\ \A r \in Inits : Claimed(r) => r = victim[h]
  /\ \A r \in Inits, h \in Handlers : doneCb[r] /\ pc[h] = "arrived" => entry = r

\* A registered round runs undisturbed or has crashed; a round not spawned is new.
Registered ==
  /\ RegisteredIsLiveOrCrashed
  /\ entry # None => /\ ~cancelled[entry] /\ ~stopEvent[entry]
                     /\ gen[entry] = "reset" => result[entry] = "crashed"
  /\ \A r \in Inits : doneCb[r] => gen[r] = "done"
  /\ \A i \in Inits : pc[i] # "ok" => gen[i] = "none"
  /\ \A i \in Inits : gen[i] = "none" =>
       /\ ~cancelled[i] /\ (stopEvent[i] => pc[i] \in {"teardown", "error"})

LEMMA RegisteredAlways == Spec => []Registered
<1> USE RoundAssumption DEF Handlers, Suspended, Answered, Running, Live
<1>1. Init => Registered
  BY DEF Init, Registered, RegisteredIsLiveOrCrashed
<1>2. TypeOK /\ Registered /\ TypeOK' /\ [Next]_vars => Registered'
  <2> SUFFICES ASSUME TypeOK, Registered, TypeOK', [Next]_vars PROVE Registered'
    OBVIOUS
  <2> USE DEF TypeOK, Registered, RegisteredIsLiveOrCrashed
  <2>1. ASSUME NEW h \in Handlers, HandlerStep(h) PROVE Registered'
    <3>1. CASE BeginFresh(h)
      BY <3>1 DEF BeginFresh, Accepted, Proceed, Activate
    <3>2. CASE BeginCancel(h)
      BY <3>2 DEF BeginCancel, Accepted, GenerationActive
    <3>3. CASE BeginEnded(h)
      BY <3>3 DEF BeginEnded, AfterGen, Accepted, Proceed, Activate
    <3>4. CASE GenAwaited(h)
      BY <3>4 DEF GenAwaited, AfterGen, Proceed, Activate
    <3>5. CASE CallbackAwaited(h)
      BY <3>5 DEF CallbackAwaited, Proceed, Activate
    <3> QED BY <2>1, <3>1, <3>2, <3>3, <3>4, <3>5 DEF HandlerStep
  <2>2. ASSUME NEW h \in Handlers,
               Arrive(h) \/ (h \in Inits /\ InitStep(h)) \/ (h \in Stops /\ StopAnswer(h))
        PROVE  Registered'
    BY <2>2 DEF Arrive, InitStep, Conflict, Spawn, Teardown, StopAnswer
  <2>3. ASSUME NEW r \in Inits, GenStep(r) PROVE Registered'
    <3>1. CASE GenNeverBegan(r) \/ GenCancelled(r) \/ GenEnd(r)
      BY <3>1 DEF GenNeverBegan, GenCancelled, GenEnd, GenMoves
    <3>2. CASE ~(GenNeverBegan(r) \/ GenCancelled(r) \/ GenEnd(r))
      BY <2>3, <3>2 DEF GenStep, GenBegin, GenChunk, GenTimeout, GenRetry, GenCrash, LoopHead, GenMoves
    <3> QED BY <3>1, <3>2
  <2>4. ASSUME NEW r \in Inits, OnGenerationDone(r) \/ CallbackExit(r) PROVE Registered'
    BY <2>4 DEF OnGenerationDone, CallbackExit
  <2>5. CASE UNCHANGED vars
    BY <2>5 DEF vars
  <2> HIDE DEF TypeOK, Registered
  <2> QED BY <2>1, <2>2, <2>3, <2>4, <2>5 DEF Next
<1> QED BY <1>1, <1>2, TypeCorrect, PTL DEF Spec

(* However requests overlap, a registered round runs undisturbed or has crashed: the
   entry is popped before its round is told to stop, and what is registered is new. *)
THEOREM RegistryIsTrue == Spec => []RegisteredIsLiveOrCrashed
<1>1. Registered => RegisteredIsLiveOrCrashed
  BY DEF Registered
<1> QED BY <1>1, RegisteredAlways, PTL

(* A handler that waits for a round has told it to stop, and the round is on its way
   out: its task ended, is in its last reset, or has a cancellation to be delivered. *)
Signalled ==
  \A h \in Handlers : pc[h] = "awaitGen" =>
    /\ victim[h] # None /\ stopEvent[victim[h]]
    /\ \/ gen[victim[h]] \in {"reset", "done"}
       \/ Live(victim[h]) /\ cancelled[victim[h]]

(* However requests overlap, _cancel_poc_tasks awaits no generation that it has not
   cancelled: no await of gen_task is for a round that still mines. *)
THEOREM WaitsAreSignalled == Spec => []Signalled
<1> USE RoundAssumption DEF Handlers, Suspended, Answered, Running, Live
<1>1. Init => Signalled
  BY DEF Init, Signalled
<1>2. TypeOK /\ Registered /\ Signalled /\ TypeOK' /\ [Next]_vars => Signalled'
  <2> SUFFICES ASSUME TypeOK, Registered, Signalled, TypeOK', [Next]_vars PROVE Signalled'
    OBVIOUS
  <2> USE DEF TypeOK, Signalled
  <2>1. ASSUME NEW h \in Handlers, HandlerStep(h) PROVE Signalled'
    <3>1. CASE BeginFresh(h)
      BY <3>1 DEF BeginFresh, Accepted, Proceed, Activate
    <3>2. CASE BeginCancel(h)
      BY <3>2 DEF BeginCancel, Accepted
    <3>3. CASE BeginEnded(h)
      BY <3>3 DEF BeginEnded, AfterGen, Accepted, Proceed, Activate
    <3>4. CASE GenAwaited(h)
      BY <3>4 DEF GenAwaited, AfterGen, Proceed, Activate
    <3>5. CASE CallbackAwaited(h)
      BY <3>5 DEF CallbackAwaited, Proceed, Activate
    <3> QED BY <2>1, <3>1, <3>2, <3>3, <3>4, <3>5 DEF HandlerStep
  <2>2. ASSUME NEW h \in Handlers,
               Arrive(h) \/ (h \in Inits /\ InitStep(h)) \/ (h \in Stops /\ StopAnswer(h))
        PROVE  Signalled'
    BY <2>2 DEF Arrive, InitStep, Conflict, Spawn, Teardown, StopAnswer, Registered
  <2>3. ASSUME NEW r \in Inits, GenStep(r) PROVE Signalled'
    <3>1. CASE GenNeverBegan(r) \/ GenCancelled(r) \/ GenEnd(r)
      BY <3>1 DEF GenNeverBegan, GenCancelled, GenEnd, GenMoves
    <3>2. CASE ~(GenNeverBegan(r) \/ GenCancelled(r) \/ GenEnd(r))
      BY <2>3, <3>2 DEF GenStep, GenBegin, GenChunk, GenTimeout, GenRetry, GenCrash, LoopHead, GenMoves
    <3> QED BY <3>1, <3>2
  <2>4. ASSUME NEW r \in Inits, OnGenerationDone(r) \/ CallbackExit(r) PROVE Signalled'
    BY <2>4 DEF OnGenerationDone, CallbackExit
  <2>5. CASE UNCHANGED vars
    BY <2>5 DEF vars
  <2> HIDE DEF TypeOK, Signalled
  <2> QED BY <2>1, <2>2, <2>3, <2>4, <2>5 DEF Next
<1> QED BY <1>1, <1>2, TypeCorrect, RegisteredAlways, PTL DEF Spec

SerialInv == TypeOK /\ OneAtATime /\ Known /\ Registered

\* Spawned or in flight, no round is claimed while the registry is empty.
LEMMA NothingClaimed ==
  ASSUME SerialInv, NEW h \in Handlers, pc[h] = "arrived", entry = None
  PROVE  \A r \in Inits : ~Claimed(r)
<1> USE RoundAssumption DEF TypeOK, Handlers, Suspended, Answered, Running
<1> SUFFICES ASSUME NEW r \in Inits, Claimed(r) PROVE FALSE
  OBVIOUS
<1>1. CASE Live(r)
  BY <1>1 DEF SerialInv, OneAtATime, Known, RoundIsReachable, InFlight
<1>2. CASE doneCb[r]
  BY <1>2 DEF SerialInv, Known
<1> QED BY <1>1, <1>2 DEF Claimed

\* From a state without a claimed round, a handler that proceeds keeps the invariant.
LEMMA ProceedKeeps ==
  ASSUME Overlap = "none", SerialInv, TypeOK', NEW h \in Handlers,
         InFlight(h), pc[h] # "abort", pc[h] # "teardown",
         NEW ev \in [Inits -> BOOLEAN], NEW cbs, Proceed(h, ev, cbs),
         ev = stopEvent, entry' = None, \A r \in Inits : ~Claimed(r),
         UNCHANGED <<victim, gen, result, cancelled, doneCb>>
  PROVE  SerialInv'
<1> USE RoundAssumption DEF TypeOK, Handlers, Suspended, Answered, Running, Claimed, Live
<1>1. PICK a \in {"drain", "abort", "teardown", "error"} :
        /\ pc' = [pc EXCEPT ![h] = a]
        /\ a = "abort" => gate'
        /\ h \in Inits \/ a = "drain"
        /\ h \in Stops => a = "drain"
  <2>1. CASE h \in Stops /\ pc' = [pc EXCEPT ![h] = "drain"]
    BY <2>1
  <2>2. CASE h \in Inits /\ Activate(h, ev, cbs)
    <3>1. PICK url \in BOOLEAN, lookup \in Compat :
            /\ gate' = (url \/ lookup)
            /\ pc' = [pc EXCEPT ![h] = IF lookup THEN "abort"
                                       ELSE IF url THEN "teardown" ELSE "error"]
      BY <2>2, ZenonT(30) DEF Activate
    <3>2. CASE lookup
      <4>1. pc' = [pc EXCEPT ![h] = "abort"] /\ gate'
        BY <3>1, <3>2
      <4> QED BY <2>2, <4>1
    <3>3. CASE ~lookup
      <4>1. PICK a \in {"teardown", "error"} : pc' = [pc EXCEPT ![h] = a]
        BY <3>1, <3>3
      <4> QED BY <2>2, <4>1
    <3> QED BY <3>2, <3>3
  <2> QED BY <2>1, <2>2 DEF Proceed
<1>2. \A i \in Inits : stopEvent'[i] => ev[i] \/ (i = h /\ pc'[h] = "teardown")
  <2>1. CASE h \in Stops /\ stopEvent' = ev
    BY <2>1
  <2>2. CASE h \in Inits /\ Activate(h, ev, cbs)
    <3>1. PICK url \in BOOLEAN, lookup \in Compat :
            /\ stopEvent' = IF url /\ ~lookup THEN [ev EXCEPT ![h] = TRUE] ELSE ev
            /\ pc' = [pc EXCEPT ![h] = IF lookup THEN "abort"
                                       ELSE IF url THEN "teardown" ELSE "error"]
      BY <2>2, ZenonT(30) DEF Activate
    <3>2. CASE url /\ ~lookup
      <4>1. stopEvent' = [ev EXCEPT ![h] = TRUE] /\ pc' = [pc EXCEPT ![h] = "teardown"]
        BY <3>1, <3>2
      <4> QED BY <2>2, <4>1
    <3>3. CASE ~(url /\ ~lookup)
      BY <3>1, <3>3
    <3> QED BY <3>2, <3>3
  <2> QED BY <2>1, <2>2 DEF Proceed
<1>3. \A k \in Handlers : k # h => ~InFlight(k) /\ pc'[k] = pc[k]
  BY <1>1 DEF SerialInv, OneAtATime
<1>4. OneAtATime'
  BY <1>1, <1>3 DEF SerialInv, OneAtATime, InFlight
<1>5. Known'
  BY <1>1, <1>3 DEF SerialInv, Known, RoundIsReachable, Exclusive, InFlight
<1>6. Registered'
  BY <1>1, <1>2, <1>3 DEF SerialInv, Registered, RegisteredIsLiveOrCrashed, InFlight
<1> QED BY <1>4, <1>5, <1>6 DEF SerialInv

\* A handler's step keeps the invariant.
LEMMA HandlerKeeps ==
  ASSUME Overlap = "none", SerialInv, TypeOK', NEW h \in Handlers, HandlerStep(h)
  PROVE  SerialInv'
<1> USE RoundAssumption DEF TypeOK, Handlers, Suspended, Answered, Running, InFlight
<1>1. CASE BeginFresh(h)
  BY <1>1, NothingClaimed, ProceedKeeps DEF BeginFresh, Accepted, SerialInv
<1>2. CASE BeginCancel(h)
  <2> USE DEF BeginCancel, Accepted, Claimed, Live, GenerationActive
  <2>1. h \in Stops
    BY <1>2
  <2>2. \A k \in Handlers : k # h => ~InFlight(k) /\ pc'[k] = pc[k]
    BY <1>2 DEF SerialInv, OneAtATime
  <2>3. OneAtATime'
    BY <1>2, <2>2 DEF SerialInv, OneAtATime
  <2>4. Known'
    BY <1>2, <2>1, <2>2 DEF SerialInv, OneAtATime, Known, RoundIsReachable, Exclusive
  <2>5. Registered'
    BY <1>2, <2>1, <2>2 DEF SerialInv, Registered, RegisteredIsLiveOrCrashed
  <2> QED BY <2>3, <2>4, <2>5 DEF SerialInv
<1>3. CASE BeginEnded(h)
  <2>1. result[entry] = "crashed" /\ pc' = [pc EXCEPT ![h] = "error"]
        /\ stopEvent' = [stopEvent EXCEPT ![entry] = TRUE] /\ UNCHANGED <<gate, cb>>
    BY <1>3 DEF BeginEnded, AfterGen, SerialInv, Registered, RegisteredIsLiveOrCrashed
  <2>2. \A k \in Handlers : k # h => ~InFlight(k) /\ pc'[k] = pc[k]
    BY <1>3, <2>1 DEF BeginEnded, Accepted, SerialInv, OneAtATime
  <2> USE DEF BeginEnded, Accepted, Claimed, Live
  <2>3. OneAtATime'
    BY <1>3, <2>1, <2>2 DEF SerialInv, OneAtATime
  <2>4. Known'
    BY <1>3, <2>1, <2>2 DEF SerialInv, OneAtATime, Known, RoundIsReachable, Exclusive
  <2>5. Registered'
    BY <1>3, <2>1, <2>2 DEF SerialInv, Registered, RegisteredIsLiveOrCrashed
  <2> QED BY <2>3, <2>4, <2>5 DEF SerialInv
<1>4. CASE GenAwaited(h) \/ CallbackAwaited(h)
  <2>1. entry = None /\ \A r \in Inits : ~Claimed(r)
    BY <1>4 DEF GenAwaited, CallbackAwaited, Claimed, Live, SerialInv, Known, Exclusive
  <2>2. CASE \E cbs : Proceed(h, stopEvent, cbs)
    <3>1. PICK cbs : Proceed(h, stopEvent, cbs)
      BY <2>2
    <3>2. /\ pc[h] = "awaitGen" \/ pc[h] = "awaitCb"
          /\ entry' = None /\ UNCHANGED <<victim, gen, result, cancelled, doneCb>>
      BY <1>4, <2>1 DEF GenAwaited, CallbackAwaited
    <3>3. stopEvent \in [Inits -> BOOLEAN] /\ InFlight(h)
      BY <3>2 DEF SerialInv
    <3> HIDE DEF TypeOK, Handlers, InFlight
    <3> QED BY <2>1, <3>1, <3>2, <3>3, ProceedKeeps
  <2>3. CASE /\ \E a \in {"error", "awaitCb"} : pc' = [pc EXCEPT ![h] = a]
             /\ UNCHANGED <<gate, stopEvent, cb>> /\ GenAwaited(h)
    <3>1. h \in Stops
      BY <2>3 DEF GenAwaited, SerialInv, Known
    <3>2. \A k \in Handlers : k # h => ~InFlight(k) /\ pc'[k] = pc[k]
      BY <2>3 DEF GenAwaited, SerialInv, OneAtATime
    <3> USE DEF GenAwaited, Claimed, Live
    <3>3. OneAtATime'
      BY <2>1, <2>3, <3>1, <3>2 DEF SerialInv, OneAtATime
    <3>4. Known'
      BY <2>1, <2>3, <3>1, <3>2 DEF SerialInv, Known, RoundIsReachable, Exclusive
    <3>5. Registered'
      BY <2>1, <2>3, <3>1, <3>2 DEF SerialInv, Registered, RegisteredIsLiveOrCrashed
    <3> QED BY <3>3, <3>4, <3>5 DEF SerialInv
  <2> QED BY <1>4, <2>2, <2>3 DEF GenAwaited, CallbackAwaited, AfterGen
<1> QED BY <1>1, <1>2, <1>3, <1>4 DEF HandlerStep

\* A step of a round's tasks keeps the invariant.
LEMMA TaskKeeps ==
  ASSUME SerialInv, TypeOK', NEW r \in Inits,
         GenStep(r) \/ OnGenerationDone(r) \/ CallbackExit(r)
  PROVE  SerialInv'
<1> USE RoundAssumption DEF TypeOK, Handlers, Suspended, Answered, Running, InFlight, Claimed, Live
<1>1. CASE GenBegin(r) \/ GenChunk(r) \/ GenRetry(r) \/ GenTimeout(r) \/ GenCrash(r)
  <2> USE DEF GenBegin, GenChunk, GenRetry, GenTimeout, GenCrash, LoopHead, GenMoves
  <2>1. OneAtATime'
    BY <1>1 DEF SerialInv, OneAtATime
  <2>2. Known'
    BY <1>1 DEF SerialInv, Known, RoundIsReachable, Exclusive
  <2>3. Registered'
    BY <1>1 DEF SerialInv, Registered, RegisteredIsLiveOrCrashed
  <2> QED BY <2>1, <2>2, <2>3 DEF SerialInv
<1>2. CASE GenCancelled(r)
  <2> USE DEF GenCancelled
  <2>1. OneAtATime'
    BY <1>2 DEF SerialInv, OneAtATime
  <2>2. Known'
    BY <1>2 DEF SerialInv, Known, RoundIsReachable, Exclusive
  <2>3. Registered'
    BY <1>2 DEF SerialInv, Registered, RegisteredIsLiveOrCrashed
  <2> QED BY <2>1, <2>2, <2>3 DEF SerialInv
<1>3. CASE GenNeverBegan(r) \/ GenEnd(r)
  <2> USE DEF GenNeverBegan, GenEnd, GenMoves
  <2>1. OneAtATime'
    BY <1>3 DEF SerialInv, OneAtATime
  <2>2. Known'
    BY <1>3, SMTT(30) DEF SerialInv, OneAtATime, Known, RoundIsReachable, Exclusive
  <2>3. Registered'
    BY <1>3 DEF SerialInv, Registered, RegisteredIsLiveOrCrashed
  <2> QED BY <2>1, <2>2, <2>3 DEF SerialInv
<1>4. CASE OnGenerationDone(r)
  <2> USE DEF OnGenerationDone
  <2>1. OneAtATime'
    BY <1>4 DEF SerialInv, OneAtATime, Known, Registered, Exclusive
  <2>2. Known'
    BY <1>4 DEF SerialInv, Known, RoundIsReachable, Exclusive
  <2>3. Registered'
    BY <1>4 DEF SerialInv, Registered, RegisteredIsLiveOrCrashed
  <2> QED BY <2>1, <2>2, <2>3 DEF SerialInv
<1>5. CASE CallbackExit(r)
  BY <1>5 DEF CallbackExit, SerialInv, OneAtATime, Known, Registered, Exclusive,
              RoundIsReachable, RegisteredIsLiveOrCrashed
<1> QED BY <1>1, <1>2, <1>3, <1>4, <1>5 DEF GenStep

\* A request comes in, or a handler other than a cancelling one moves.
LEMMA RequestKeeps ==
  ASSUME Overlap = "none", SerialInv, TypeOK', NEW h \in Handlers,
         \/ Arrive(h)
         \/ h \in Inits /\ InitStep(h)
         \/ h \in Stops /\ StopAnswer(h)
  PROVE  SerialInv'
<1> USE RoundAssumption DEF TypeOK, Handlers, Suspended, Answered, Running, InFlight, Claimed, Live
<1>1. \A k \in Handlers : k # h => ~InFlight(k) /\ pc'[k] = pc[k]
  BY DEF Arrive, InitStep, Conflict, Spawn, Teardown, StopAnswer, SerialInv, OneAtATime
<1>2. CASE Arrive(h)
  <2> USE DEF Arrive
  <2>1. OneAtATime'
    BY <1>1, <1>2 DEF SerialInv, OneAtATime
  <2>2. Known'
    BY <1>1, <1>2 DEF SerialInv, Known, RoundIsReachable, Exclusive
  <2>3. Registered'
    BY <1>1, <1>2 DEF SerialInv, Registered, RegisteredIsLiveOrCrashed
  <2> QED BY <2>1, <2>2, <2>3 DEF SerialInv
<1>3. CASE h \in Inits /\ (Conflict(h) \/ Teardown(h))
  <2> USE DEF Conflict, Teardown
  <2>1. OneAtATime'
    BY <1>1, <1>3 DEF SerialInv, OneAtATime, Known, Exclusive
  <2>2. Known'
    BY <1>1, <1>3 DEF SerialInv, Known, RoundIsReachable, Exclusive
  <2>3. Registered'
    BY <1>1, <1>3 DEF SerialInv, Registered, RegisteredIsLiveOrCrashed
  <2> QED BY <2>1, <2>2, <2>3 DEF SerialInv
<1>4. CASE h \in Inits /\ Spawn(h)
  <2> USE DEF Spawn
  <2>1. \A r \in Inits : ~Claimed(r)
    BY <1>4 DEF SerialInv, Known, Exclusive
  <2>2. OneAtATime'
    BY <1>1, <1>4, <2>1 DEF SerialInv, OneAtATime
  <2>3. Known'
    BY <1>1, <1>4, <2>1 DEF SerialInv, Known, RoundIsReachable, Exclusive
  <2>4. Registered'
    BY <1>1, <1>4, <2>1 DEF SerialInv, Registered, RegisteredIsLiveOrCrashed
  <2> QED BY <2>2, <2>3, <2>4 DEF SerialInv
<1>5. CASE h \in Stops /\ StopAnswer(h)
  <2> USE DEF StopAnswer
  <2>1. OneAtATime'
    BY <1>1, <1>5 DEF SerialInv, OneAtATime, Known, Exclusive
  <2>2. Known'
    BY <1>1, <1>5 DEF SerialInv, Known, RoundIsReachable, Exclusive
  <2>3. Registered'
    BY <1>1, <1>5 DEF SerialInv, Registered, RegisteredIsLiveOrCrashed
  <2> QED BY <2>1, <2>2, <2>3 DEF SerialInv
<1> QED BY <1>2, <1>3, <1>4, <1>5 DEF InitStep

(* When clients wait for answers, the invariant of the serial round holds: every
   step of a handler, a task or a done-callback keeps it. *)
LEMMA SerialInvInductive ==
  ASSUME Overlap = "none"
  PROVE  Spec => []SerialInv
<1>1. Init /\ TypeOK => SerialInv
  BY RoundAssumption DEF Init, SerialInv, OneAtATime, Known, Registered, InFlight, Claimed,
     Live, Running, Exclusive, RoundIsReachable, RegisteredIsLiveOrCrashed, Handlers
<1>2. SerialInv /\ TypeOK' /\ [Next]_vars => SerialInv'
  <2> SUFFICES ASSUME SerialInv, TypeOK', [Next]_vars PROVE SerialInv'
    OBVIOUS
  <2>1. CASE \E h \in Handlers : Arrive(h) \/ HandlerStep(h)
    BY <2>1, HandlerKeeps, RequestKeeps
  <2>2. CASE \E i \in Inits :
               InitStep(i) \/ GenStep(i) \/ OnGenerationDone(i) \/ CallbackExit(i)
    BY <2>2, TaskKeeps, RequestKeeps DEF Handlers
  <2>3. CASE \E s \in Stops : StopAnswer(s)
    BY <2>3, RequestKeeps DEF Handlers
  <2>4. CASE UNCHANGED vars
    BY <2>4 DEF vars, SerialInv, OneAtATime, Known, Registered, InFlight, Claimed, Live,
       Exclusive, RoundIsReachable, RegisteredIsLiveOrCrashed, TypeOK
  <2> QED BY <2>1, <2>2, <2>3, <2>4 DEF Next
<1> QED BY <1>1, <1>2, TypeCorrect, PTL DEF Spec

(* When clients wait for answers, the 409 check and the awaits of
   _cancel_poc_tasks keep two generation loops from running at once. *)
THEOREM OneRound == ASSUME Overlap = "none" PROVE Spec => []AtMostOneRound
<1>1. SerialInv => AtMostOneRound
  BY DEF SerialInv, OneAtATime, Claimed, AtMostOneRound
<1> QED BY <1>1, SerialInvInductive, PTL

(* ... and chat is shut out from the spawn of a round until its done-callback. *)
THEOREM GateShut == ASSUME Overlap = "none" PROVE Spec => []MiningBehindGate
<1>1. SerialInv => MiningBehindGate
  BY DEF SerialInv, OneAtATime, Claimed, MiningBehindGate
<1> QED BY <1>1, SerialInvInductive, PTL

(* ... and no running round is out of the reach of POST /stop. *)
THEOREM Reachable == ASSUME Overlap = "none" PROVE Spec => []RoundIsReachable
<1>1. SerialInv => RoundIsReachable
  BY DEF SerialInv, Known
<1> QED BY <1>1, SerialInvInductive, PTL

(* ... and a callback loop that runs can be reached through the registry or ends by
   itself: its round is registered, about to be, or was told to stop. *)
THEOREM NoLoopIsOrphaned == ASSUME Overlap = "none" PROVE Spec => []CallbackLoopIsOwned
<1> USE RoundAssumption DEF Handlers, CallbackLoopIsOwned
<1>1. Init => CallbackLoopIsOwned
  BY DEF Init
<1>2. SerialInv /\ CallbackLoopIsOwned /\ [Next]_vars => CallbackLoopIsOwned'
  <2> SUFFICES ASSUME SerialInv, CallbackLoopIsOwned, [Next]_vars PROVE CallbackLoopIsOwned'
    OBVIOUS
  <2> USE DEF SerialInv, TypeOK
  <2>1. ASSUME NEW h \in Handlers, HandlerStep(h) PROVE CallbackLoopIsOwned'
    <3>1. CASE BeginFresh(h)
      BY <3>1 DEF BeginFresh, Accepted, Proceed, Activate
    <3>2. CASE BeginCancel(h)
      BY <3>2 DEF BeginCancel, Accepted
    <3>3. CASE BeginEnded(h)
      BY <3>3 DEF BeginEnded, AfterGen, Accepted, Proceed, Activate
    <3>4. CASE GenAwaited(h)
      BY <3>4 DEF GenAwaited, AfterGen, Proceed, Activate
    <3>5. CASE CallbackAwaited(h)
      BY <3>5 DEF CallbackAwaited, Proceed, Activate
    <3> QED BY <2>1, <3>1, <3>2, <3>3, <3>4, <3>5 DEF HandlerStep
  <2>2. ASSUME NEW h \in Handlers,
               Arrive(h) \/ (h \in Inits /\ InitStep(h)) \/ (h \in Stops /\ StopAnswer(h))
        PROVE  CallbackLoopIsOwned'
    <3>1. pc[h] = "abort" => entry = None
      BY DEF Known, Exclusive
    <3> QED BY <2>2, <3>1 DEF Arrive, InitStep, Conflict, Spawn, Teardown, StopAnswer
  <2>3. ASSUME NEW r \in Inits, GenStep(r) \/ OnGenerationDone(r) \/ CallbackExit(r)
        PROVE  CallbackLoopIsOwned'
    BY <2>3 DEF GenStep, GenBegin, GenNeverBegan, GenChunk, GenTimeout, GenRetry, GenCrash,
       GenCancelled, GenEnd, LoopHead, GenMoves, OnGenerationDone, CallbackExit
  <2>4. CASE UNCHANGED vars
    BY <2>4 DEF vars
  <2> QED BY <2>1, <2>2, <2>3, <2>4 DEF Next
<1> QED BY <1>1, <1>2, SerialInvInductive, PTL DEF Spec

--------------------------------------------------------------------------------
(* The refinement.  Only Spawn and OnGenerationDone change who owns the engine;
   a handler moves the gate only while nobody does. *)
Owners == {r \in Inits : Claimed(r)}

(* A step of _cancel_poc_tasks ends no round and moves the gate only while no
   round is claimed. *)
LEMMA HandlerIsGateStep ==
  ASSUME SerialInv, NEW h \in Handlers, HandlerStep(h)
  PROVE  Owners' = Owners /\ (gate' = gate \/ Owners = {}) /\ gate' \in BOOLEAN
<1> USE DEF Owners, Claimed, Live
<1>1. UNCHANGED <<gen, doneCb>>
  BY DEF HandlerStep, BeginFresh, BeginCancel, BeginEnded, GenAwaited, CallbackAwaited
<1>2. Owners' = Owners
  BY <1>1
<1>3. ASSUME NEW k \in Handlers, NEW ev, NEW cbs, Proceed(k, ev, cbs) PROVE gate' \in BOOLEAN
  BY <1>3 DEF Proceed, Activate, SerialInv, TypeOK
<1>4. CASE BeginFresh(h)
  <2>1. \A r \in Inits : ~Claimed(r)
    BY <1>4, NothingClaimed DEF BeginFresh, Accepted
  <2> QED BY <1>2, <1>3, <1>4, <2>1 DEF BeginFresh
<1>5. CASE BeginCancel(h)
  BY <1>2, <1>5 DEF BeginCancel, SerialInv, TypeOK
<1>6. CASE BeginEnded(h)
  <2>1. gate' = gate
    BY <1>6 DEF BeginEnded, AfterGen, SerialInv, Registered, RegisteredIsLiveOrCrashed
  <2> QED BY <1>2, <2>1 DEF SerialInv, TypeOK
<1>7. CASE GenAwaited(h) \/ CallbackAwaited(h)
  <2>1. \A r \in Inits : ~Claimed(r)
    <3>1. CASE GenAwaited(h)
      BY <3>1 DEF GenAwaited, SerialInv, Known, Running
    <3>2. CASE CallbackAwaited(h)
      BY <3>2 DEF CallbackAwaited, SerialInv, Known, Exclusive
    <3> QED BY <1>7, <3>1, <3>2
  <2>2. gate' \in BOOLEAN
    <3>1. CASE gate' = gate
      BY <3>1 DEF SerialInv, TypeOK
    <3>2. CASE \E cbs : Proceed(h, stopEvent, cbs)
      BY <1>3, <3>2
    <3> QED BY <1>7, <3>1, <3>2 DEF GenAwaited, CallbackAwaited, AfterGen
  <2> QED BY <1>2, <2>1, <2>2
<1> QED BY <1>4, <1>5, <1>6, <1>7 DEF HandlerStep

(* When clients wait for answers, the handlers, tasks and done-callbacks of
   routes.py implement the exclusive gate that ADR-0013 asks for. *)
THEOREM ImplementsExclusiveGate ==
  ASSUME Overlap = "none" PROVE Spec => RefinesExclusiveGate
<1> USE DEF Owners, Claimed, Live
<1>1. Init => Abstract!Init
  BY DEF Init, Abstract!Init, Running
<1>2. SerialInv /\ [Next]_vars => [Abstract!Next]_(Abstract!vars)
  <2> SUFFICES ASSUME SerialInv, [Next]_vars PROVE [Abstract!Next]_(Abstract!vars)
    OBVIOUS
  <2> USE DEF Abstract!Next, Abstract!vars, Abstract!Close, Abstract!Open,
              Abstract!Start, Abstract!Finish
  <2>1. ASSUME Owners' = Owners, gate' = gate \/ Owners = {}, gate' \in BOOLEAN
        PROVE  [Abstract!Next]_(Abstract!vars)
    BY <2>1 DEF SerialInv, TypeOK
  <2>2. CASE \E h \in Handlers : HandlerStep(h)
    BY <2>1, <2>2, HandlerIsGateStep
  <2>3. CASE \E h \in Handlers : Arrive(h)
    BY <2>1, <2>3 DEF Arrive, SerialInv, TypeOK
  <2>4. CASE \E i \in Inits : Conflict(i) \/ Teardown(i)
    <3>1. PICK i \in Inits : Conflict(i) \/ Teardown(i)
      BY <2>4
    <3>2. /\ gen' = gen /\ doneCb' = doneCb
          /\ gate' = gate \/ gate' = FALSE
      BY <3>1 DEF Conflict, Teardown
    <3>4. Owners' = Owners
      BY <3>2
    <3>5. gate' \in BOOLEAN
      BY <3>2 DEF SerialInv, TypeOK
    <3>3. gate' = gate \/ Owners = {}
      BY <3>1 DEF Conflict, Teardown, SerialInv, Known, Exclusive, Handlers
    <3> QED BY <2>1, <3>3, <3>4, <3>5
  <2>5. CASE \E i \in Inits : Spawn(i)
    <3>1. PICK i \in Inits : Spawn(i)
      BY <2>5
    <3>2. Owners = {} /\ gate /\ gate' = gate
      BY <3>1 DEF Spawn, SerialInv, OneAtATime, Known, Exclusive, Handlers
    <3>3. Owners' = {i}
      BY <3>1, <3>2 DEF Spawn, SerialInv, TypeOK, Running
    <3> QED BY <3>2, <3>3
  <2>6. CASE \E r \in Inits : GenStep(r) \/ CallbackExit(r)
    <3>1. Owners' = Owners /\ gate' = gate
      BY <2>6, SMTT(30) DEF GenStep, GenBegin, GenNeverBegan, GenChunk, GenTimeout, GenRetry, GenCrash,
                  GenCancelled, GenEnd, GenMoves, LoopHead, CallbackExit, SerialInv, TypeOK, Running
    <3> QED BY <2>1, <3>1 DEF SerialInv, TypeOK
  <2>7. CASE \E r \in Inits : OnGenerationDone(r)
    <3>1. PICK r \in Inits : OnGenerationDone(r)
      BY <2>7
    <3>2. Owners = {r} /\ gate /\ gate' = FALSE
      BY <3>1 DEF OnGenerationDone, SerialInv, OneAtATime
    <3>3. Owners' = {}
      BY <3>1, <3>2 DEF OnGenerationDone, SerialInv, TypeOK, Registered, Running
    <3> QED BY <3>2, <3>3
  <2>8. CASE \E s \in Stops : StopAnswer(s)
    <3>1. PICK s \in Stops : StopAnswer(s)
      BY <2>8
    <3>2. Owners' = Owners /\ gate' \in BOOLEAN /\ Owners = {}
      BY <3>1 DEF StopAnswer, SerialInv, Known, Exclusive, Handlers
    <3> QED BY <2>1, <3>2
  <2>9. CASE UNCHANGED vars
    BY <2>1, <2>9 DEF vars, SerialInv, TypeOK
  <2> QED BY <2>2, <2>3, <2>4, <2>5, <2>6, <2>7, <2>8, <2>9 DEF Next, InitStep
<1> QED BY <1>1, <1>2, SerialInvInductive, PTL DEF Spec, RefinesExclusiveGate, Abstract!Spec
================================================================================
