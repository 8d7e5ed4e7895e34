------------------------------- MODULE Validation -------------------------------
(* POST /generate with wait=true (routes.py) and the verdict on the artifacts a     *)
(* prover claims (validation.py, data.py), on top of PocForward: the request waits   *)
(* while a round mines, computes its nonces chunk by chunk and compares.  Mining and *)
(* inference send calls of their own to the same ranks.                              *)
EXTENDS PocForward, Combinatorics

CONSTANTS
  Bodies,                     \* requests: [nonces, batch_size, claims]
  PNum, PDen,                 \* p_mismatch, the rate of mismatches of an honest node
  FraudNum, FraudDen,         \* fraud_threshold
  Granted,                    \* the leases a reservation may end with
  OwnHash, MiningHash, Key, MiningNonces,
  MaxRounds, MaxOthers        \* bounds: mining rounds; calls of mining and inference

ASSUME ValidationAssumption ==
  /\ PNum \in Nat /\ PDen \in Nat \ {0} /\ PNum <= PDen
  /\ Granted \subseteq Leases
  /\ FraudNum \in Nat /\ FraudDen \in Nat \ {0}
  /\ {OwnHash, MiningHash} \subseteq Hashes /\ OwnHash # MiningHash
  /\ Key \in Keys /\ MiningNonces \in Seq(Nonces) \ {<<>>}
  /\ \A b \in Bodies : b.nonces \in Seq(Nonces) /\ b.batch_size \in Int
  /\ MaxRounds \in Nat /\ MaxOthers \in Nat

VARIABLES
  mining, rounds, others,  \* _is_generation_active; calls that are not the request's
  point,                   \* where the handler is
  body, lease, next, sent, computed,  \* its locals; sent is the call it awaits
  response

requestVars == <<point, body, lease, next, sent, computed, response>>
environmentVars == <<mining, rounds, others>>
vars == <<forwardVars, environmentVars, requestVars>>

NoBody == [nonces |-> <<>>, batch_size |-> 1, claims |-> <<>>]
Nothing == [status |-> "none"]
Error(status) == [status |-> status]

Init ==
  /\ ForwardInit
  /\ mining = FALSE /\ rounds = 0 /\ others = 0
  /\ point = "none" /\ body = NoBody /\ lease = NoLease /\ next = 0 /\ sent = 0
  /\ computed = <<>> /\ response = Nothing

Responds(r) == point' = "done" /\ response' = r

--------------------------------------------------------------------------------
(* validation.py, data.py.  A claim is what the prover sent for a nonce: its own      *)
(* honest vector, one that is far from it, one of another shape, one with NaN, a      *)
(* string that cannot be decoded, or nothing; an honest claim is near the artifact if *)
(* that is the reference vector.                                                      *)

Near(claim, artifact) ==
  claim = "honest" /\ artifact.vector = Reference(OwnHash, Key, artifact.nonce)

Differs(claim, artifact) == claim \in {"shape", "nan"} \/ ~Near(claim, artifact)

(* Mutant: a claim that cannot be compared is skipped. *)
validate_comparable(artifacts, claims) ==
  Keep(artifacts, {i \in DOMAIN artifacts :
         LET a == artifacts[i] IN claims[a.nonce] = "far" /\ Differs(claims[a.nonce], a)})

validate_artifacts(artifacts, claims) ==
  Keep(artifacts, {i \in DOMAIN artifacts :
         LET a == artifacts[i] IN claims[a.nonce] # "empty" /\ Differs(claims[a.nonce], a)})

Power(b, n) ==
  LET of[k \in Nat] == IF k = 0 THEN 1 ELSE b * of[k - 1] IN of[n]

(* The weight of "at least m of n differ" under p_mismatch, in units of PDen^n. *)
Weight(m, n) ==
  MapThenSumSet(LAMBDA k : choose(n, k) * Power(PNum, k) * Power(PDen - PNum, n - k), m..n)

fraud_test(n_mismatch, n_total) ==
  n_total # 0 /\ Weight(n_mismatch, n_total) * FraudDen < FraudNum * Power(PDen, n_total)

Undecodable(artifacts, claims) ==
  \E i \in DOMAIN artifacts : claims[artifacts[i].nonce] = "garbled"

(* An exception of decode_vector is caught nowhere and ends the request. *)
run_validation(artifacts, claims, n_total) ==
  IF Undecodable(artifacts, claims) THEN Error("500") ELSE
  LET bad == validate_artifacts(artifacts, claims)
  IN [status |-> "verdict", n_total |-> n_total, n_mismatch |-> Len(bad),
      mismatch_nonces |-> [i \in DOMAIN bad |-> bad[i].nonce],
      fraud_detected |-> fraud_test(Len(bad), n_total)]

--------------------------------------------------------------------------------
(* The handler.  Claims must be about exactly the nonces of the request.              *)

Arrive ==
  /\ point = "none"
  /\ \E b \in Bodies :
       /\ body' = b
       /\ IF b.claims # <<>> /\ DOMAIN b.claims # Range(b.nonces)
          THEN Responds(Error("400"))
          ELSE point' = "wait" /\ UNCHANGED response
  /\ UNCHANGED <<forwardVars, environmentVars, lease, next, sent, computed>>

(* The number of chunks is a division, and the reservation leases blocks or does not. *)
Reserve ==
  /\ point = "wait" /\ ~mining
  /\ IF body.batch_size = 0
     THEN Responds(Error("500")) /\ UNCHANGED lease
     ELSE lease' \in Granted /\ point' = "chunk" /\ UNCHANGED response
  /\ UNCHANGED <<forwardVars, environmentVars, body, next, sent, computed>>

HasChunk == body.batch_size > 0 /\ next < Len(body.nonces)

Chunk == SubSeq(body.nonces, next + 1,
                IF next + body.batch_size < Len(body.nonces)
                THEN next + body.batch_size ELSE Len(body.nonces))

(* The poll sees no round; the call is sent when the engine core takes it. *)
ChunkBegins ==
  /\ point = "chunk" /\ HasChunk /\ ~mining
  /\ point' = "sending"
  /\ UNCHANGED <<forwardVars, environmentVars, body, lease, next, sent, computed, response>>

SendChunk ==
  /\ point = "sending"
  /\ Send(PocCall(OwnHash, Key, Chunk, lease))
  /\ point' = "await" /\ sent' = Len(calls) + 1
  /\ UNCHANGED <<abandoned, pc, args, installed, held, active, rows, chan, returned, mishaps, environmentVars, body, lease, next, computed, response>>

ChunkAnswered ==
  /\ point = "await" /\ Answered(sent) /\ ~Failed(sent)
  /\ computed' = computed \o Answer(sent)
  /\ next' = next + body.batch_size
  /\ point' = "chunk"
  /\ UNCHANGED <<forwardVars, environmentVars, body, lease, sent, response>>

(* Mutant: an error ends the handler without a response. *)
ChunkFailsSilently ==
  /\ point = "await" /\ (sent \in abandoned \/ Failed(sent))
  /\ point' = "done"
  /\ UNCHANGED <<forwardVars, environmentVars, body, lease, next, sent, computed, response>>

(* Mutant: a chunk without an answer is awaited for ever. *)
ChunkFailsLoudly ==
  /\ point = "await"
  /\ sent \notin abandoned /\ Failed(sent) /\ Responds(Error("503"))
  /\ UNCHANGED <<forwardVars, environmentVars, body, lease, next, sent, computed>>

(* An error of a rank is a RuntimeError, a timeout is not: 503 and 500. *)
ChunkFails ==
  /\ point = "await"
  /\ \/ sent \in abandoned /\ Responds(Error("500"))
     \/ sent \notin abandoned /\ Failed(sent) /\ Responds(Error("503"))
  /\ UNCHANGED <<forwardVars, environmentVars, body, lease, next, sent, computed>>

Verdict ==
  /\ point = "chunk" /\ ~HasChunk
  /\ Responds(IF body.claims = <<>>
              THEN [status |-> "artifacts", artifacts |-> computed]
              ELSE run_validation(computed, body.claims, Len(body.nonces)))
  /\ UNCHANGED <<forwardVars, environmentVars, body, lease, next, sent, computed>>

--------------------------------------------------------------------------------
(* Mining rounds and inference, as far as the ranks see them. *)

MiningStarts ==
  /\ ~mining /\ rounds < MaxRounds
  /\ mining' = TRUE /\ rounds' = rounds + 1
  /\ UNCHANGED <<forwardVars, others, requestVars>>

MiningEnds ==
  /\ mining /\ mining' = FALSE
  /\ UNCHANGED <<forwardVars, rounds, others, requestVars>>

OtherCall(call) ==
  /\ others < MaxOthers /\ others' = others + 1
  /\ Send(call)
  /\ UNCHANGED <<abandoned, pc, args, installed, held, active, rows, chan, returned, mishaps, mining, rounds, requestVars>>

Mine == mining /\ OtherCall(PocCall(MiningHash, Key, MiningNonces, NoLease))

Infer == OtherCall(StepCall)

Forward == ForwardStep /\ UNCHANGED <<environmentVars, requestVars>>

Handler ==
  Reserve \/ ChunkBegins \/ SendChunk \/ ChunkAnswered \/ ChunkFails \/ Verdict

Next == Arrive \/ Handler \/ MiningStarts \/ MiningEnds \/ Mine \/ Infer \/ Forward

Spec == Init /\ [][Next]_vars

FairSpec == Spec /\ ForwardFairness /\ WF_vars(Handler)

--------------------------------------------------------------------------------
(* Types of the handler's state and of the ranks'. *)
TypeOK ==
  /\ ForwardTypeOK
  /\ mining \in BOOLEAN /\ rounds \in 0..MaxRounds /\ others \in 0..MaxOthers
  /\ point \in {"none", "wait", "chunk", "sending", "await", "done"}
  /\ body \in Bodies \cup {NoBody} /\ lease \in Leases
  /\ next \in Nat /\ sent \in 0..Len(calls)
  /\ (point = "done") = (response # Nothing)

(* The verdict names exactly the nonces that were computed and whose claim is bad,    *)
(* and so never one whose prover was honest; no nonce oftener than it was asked for,  *)
(* so that the count stays within n_total; an honest prover is never a fraud; and a    *)
(* request no row of which was lost compares all that was claimed (validation.py).    *)
VerdictIsRight ==
  response.status = "verdict" =>
    LET had == {computed[i].nonce : i \in DOMAIN computed}
        named == Range(response.mismatch_nonces)
        Times(seq, n) == Cardinality({i \in DOMAIN seq : seq[i] = n})
    IN /\ named = {n \in had : body.claims[n] \notin {"honest", "empty"}}
       /\ \A n \in named : Times(response.mismatch_nonces, n) <= Times(body.nonces, n)
       /\ response.n_mismatch <= response.n_total
       /\ response.fraud_detected => named # {}
       /\ lost = 0 /\ body.batch_size > 0 => had = Range(body.nonces)

(* Every request is answered once no round mines any more: also when a rank that       *)
(* raised leaves the others waiting in a collective, or an answer is late.             *)
EveryValidationAnswers ==
  (<>[](~mining)) => (point = "wait" ~> point = "done")
================================================================================
