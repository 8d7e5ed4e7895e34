---------------------------- MODULE ArtifactStream -----------------------------
(* What a mining round computes and where it goes: every worker of the network
   runs _generation_loop over its own NonceIterator and hands the artifacts to a
   CallbackSender, whose task posts them to the round's url until they arrive or
   are given up.

   Both tasks of a worker run on one event loop; the url's server is external.
   An artifact is its nonce: the vector changes nothing here. *)
EXTENDS Integers, Sequences, FiniteSets, SequencesExt

CONSTANTS NNodes, NGroups,  \* node_count and n_groups, the same in every request
          Workers,          \* <<node_id, group_id>> of the workers that are watched
          BatchSize,
          MaxArtifacts,     \* POC_CALLBACK_MAX_ARTIFACTS
          MaxRetries,       \* POC_CALLBACK_MAX_RETRIES
          Limit             \* bound: nonces a worker takes

ASSUME StreamAssumption ==
  /\ NNodes \in Nat \ {0} /\ NGroups \in Nat \ {0}
  /\ Workers \subseteq (0 .. NNodes - 1) \X (0 .. NGroups - 1)
  /\ BatchSize \in Nat \ {0} /\ MaxArtifacts \in Nat \ {0} /\ MaxRetries \in Nat \ {0}
  /\ Limit \in Nat

VARIABLES
  x,        \* NonceIterator._current_x
  gen,      \* where the generation task is suspended
  nonces,   \* the batch of the forward under way, or the last one
  pending,  \* pending_nonces, <<>> for None
  stopped,  \* the round's stop_event
  sender,   \* where the callback task is suspended
  buffer,   \* CallbackSender._buffer
  payload,  \* the artifacts of _pending_payload, <<>> for None
  attempt,  \* retry_attempt
  got,      \* what the url's server received, in order
  dropped,  \* pushed out of the full buffer
  givenUp,  \* discarded after MaxRetries attempts
  rejected  \* left out of the answer: the vector had a NaN

vars == <<x, gen, nonces, pending, stopped, sender, buffer, payload, attempt, got, dropped, givenUp,
          rejected>>

--------------------------------------------------------------------------------
(* NonceIterator. *)

\* Mutant: the group's offset is not scaled by the number of nodes.
NonceUnscaled(w, i) == w[1] + w[2] + i * (NGroups * NNodes)

\* __next__ of the iterator of worker w with _current_x = i.
Nonce(w, i) == w[1] + w[2] * NNodes + i * (NGroups * NNodes)

\* The nonces a worker has taken.
Taken(w) == {Nonce(w, i) : i \in 0 .. x[w] - 1}

take(w, n) == [k \in 1 .. n |-> Nonce(w, x[w] + k - 1)]

--------------------------------------------------------------------------------
Carries(f) == DOMAIN f = Workers /\ \A w \in Workers : f[w] \in Seq(Taken(w))
Loses(f)   == DOMAIN f = Workers /\ \A w \in Workers : f[w] \in SUBSET Taken(w)

TypeOK ==
  /\ x \in [Workers -> Nat]
  /\ gen \in [Workers -> {"loop", "forward", "backoff", "reset", "done", "failReset", "failed"}]
  /\ stopped \in [Workers -> BOOLEAN]
  /\ sender \in [Workers -> {"sleep", "post", "done"}]
  /\ attempt \in [Workers -> 0 .. MaxRetries]
  /\ Carries(nonces) /\ Carries(pending) /\ Carries(buffer) /\ Carries(payload) /\ Carries(got)
  /\ Loses(dropped) /\ Loses(givenUp) /\ Loses(rejected)

Init ==
  /\ x = [w \in Workers |-> 0]
  /\ gen = [w \in Workers |-> "loop"]
  /\ stopped = [w \in Workers |-> FALSE]
  /\ sender = [w \in Workers |-> "sleep"]
  /\ attempt = [w \in Workers |-> 0]
  /\ nonces = [w \in Workers |-> <<>>] /\ pending = nonces
  /\ buffer = nonces /\ payload = nonces /\ got = nonces
  /\ dropped = [w \in Workers |-> {}] /\ givenUp = dropped /\ rejected = dropped

Elements(s) == {s[n] : n \in DOMAIN s}

--------------------------------------------------------------------------------
(* _generation_loop. *)

GenFrame == UNCHANGED <<stopped, sender, payload, attempt, got, givenUp>>

\* What is left of s when some elements are taken out.
Subsequences(s) ==
  UNION {{[k \in 1 .. n |-> s[f[k]]] :
             f \in {g \in [1 .. n -> 1 .. Len(s)] : \A a, b \in 1 .. n : a < b => g[a] < g[b]}} :
         n \in 0 .. Len(s)}

(* CallbackSender.add_artifacts: append, then drop the oldest over the cap.  The
   forward's answer leaves out the nonces whose vector had a NaN. *)
add_artifacts(w, artifacts) ==
  LET all == buffer[w] \o artifacts
      over == IF Len(all) > MaxArtifacts THEN Len(all) - MaxArtifacts ELSE 0
  IN  /\ buffer' = [buffer EXCEPT ![w] = SubSeq(all, over + 1, Len(all))]
      /\ dropped' = [dropped EXCEPT ![w] = @ \cup Elements(SubSeq(all, 1, over))]
      /\ rejected' = [rejected EXCEPT ![w] = @ \cup (Elements(nonces[w]) \ Elements(artifacts))]

\* Mutant: a batch that timed out is not kept for the retry.
ForwardTimesOutForgetful(w) ==
  /\ gen[w] = "forward"
  /\ gen' = [gen EXCEPT ![w] = "backoff"]
  /\ UNCHANGED <<x, nonces, pending, buffer, dropped, rejected>> /\ GenFrame

\* Mutant: the batch that was retried stays pending.
ForwardAnswersSticky(w) ==
  /\ gen[w] = "forward"
  /\ gen' = [gen EXCEPT ![w] = "loop"]
  /\ \E artifacts \in Subsequences(nonces[w]) : add_artifacts(w, artifacts)
  /\ UNCHANGED <<x, nonces, pending>> /\ GenFrame

\* The batch that timed out, or the next one; it is sent to every worker rank.
Forward(w) ==
  /\ gen[w] = "loop" /\ ~stopped[w]
  /\ \/ /\ pending[w] # <<>>
        /\ nonces' = [nonces EXCEPT ![w] = pending[w]] /\ UNCHANGED x
     \/ /\ pending[w] = <<>> /\ x[w] + BatchSize <= Limit
        /\ nonces' = [nonces EXCEPT ![w] = take(w, BatchSize)]
        /\ x' = [x EXCEPT ![w] = @ + BatchSize]
  /\ gen' = [gen EXCEPT ![w] = "forward"]
  /\ UNCHANGED <<pending, buffer, dropped, rejected>> /\ GenFrame

ForwardAnswers(w) ==
  /\ gen[w] = "forward"
  /\ gen' = [gen EXCEPT ![w] = "loop"]
  /\ pending' = [pending EXCEPT ![w] = <<>>]
  /\ \E artifacts \in Subsequences(nonces[w]) : add_artifacts(w, artifacts)
  /\ UNCHANGED <<x, nonces>> /\ GenFrame

ForwardTimesOut(w) ==
  /\ gen[w] = "forward"
  /\ gen' = [gen EXCEPT ![w] = "backoff"]
  /\ pending' = [pending EXCEPT ![w] = nonces[w]]
  /\ UNCHANGED <<x, nonces, buffer, dropped, rejected>> /\ GenFrame

BackoffEnds(w) ==
  /\ gen[w] = "backoff"
  /\ gen' = [gen EXCEPT ![w] = "loop"]
  /\ UNCHANGED <<x, nonces, pending, buffer, dropped, rejected>> /\ GenFrame

\* Any other exception ends the loop; the callback task goes on.
ForwardCrashes(w) ==
  /\ gen[w] = "forward"
  /\ gen' = [gen EXCEPT ![w] = "failReset"]
  /\ UNCHANGED <<x, nonces, pending, buffer, dropped, rejected>> /\ GenFrame

\* The prefix cache is reset (or fails to be) and the task ends.
ResetAnswers(w) ==
  /\ gen[w] \in {"reset", "failReset"}
  /\ gen' = [gen EXCEPT ![w] = IF @ = "reset" THEN "done" ELSE "failed"]
  /\ UNCHANGED <<x, nonces, pending, buffer, dropped, rejected>> /\ GenFrame

--------------------------------------------------------------------------------
(* CallbackSender.run and the url's server. *)

SendFrame == UNCHANGED <<x, gen, nonces, pending, stopped, dropped, rejected>>

(* The interval is over, or the backoff: the payload is posted again, or the
   buffer becomes the payload. *)
Post(w) ==
  /\ sender[w] = "sleep"
  /\ \/ /\ payload[w] = <<>> /\ buffer[w] # <<>>
        /\ payload' = [payload EXCEPT ![w] = buffer[w]]
        /\ buffer' = [buffer EXCEPT ![w] = <<>>]
        /\ attempt' = [attempt EXCEPT ![w] = 1]
     \/ /\ payload[w] # <<>>
        /\ attempt' = [attempt EXCEPT ![w] = @ + 1]
        /\ UNCHANGED <<payload, buffer>>
  /\ sender' = [sender EXCEPT ![w] = "post"]
  /\ UNCHANGED <<got, givenUp>> /\ SendFrame

Settled(w) ==
  /\ payload' = [payload EXCEPT ![w] = <<>>]
  /\ attempt' = [attempt EXCEPT ![w] = 0]

PostSucceeds(w) ==
  /\ sender[w] = "post"
  /\ got' = [got EXCEPT ![w] = @ \o payload[w]]
  /\ Settled(w)
  /\ sender' = [sender EXCEPT ![w] = "sleep"]
  /\ UNCHANGED <<buffer, givenUp>> /\ SendFrame

\* Mutant: a payload that failed goes back behind the newer artifacts.
PostFailsRequeues(w) ==
  /\ sender[w] = "post"
  /\ UNCHANGED <<got, givenUp>>
  /\ buffer' = [buffer EXCEPT ![w] = @ \o payload[w]]
  /\ Settled(w)
  /\ sender' = [sender EXCEPT ![w] = "sleep"]
  /\ SendFrame

\* Mutant: the retry counter starts again with every failure.
PostFailsUncounted(w) ==
  /\ sender[w] = "post"
  /\ \/ UNCHANGED got
     \/ got' = [got EXCEPT ![w] = @ \o payload[w]]
  /\ attempt' = [attempt EXCEPT ![w] = 0]
  /\ sender' = [sender EXCEPT ![w] = "sleep"]
  /\ UNCHANGED <<payload, givenUp, buffer>> /\ SendFrame

\* An error status, or no answer: the server may have received the payload.
PostFails(w) ==
  /\ sender[w] = "post"
  /\ \/ UNCHANGED got
     \/ got' = [got EXCEPT ![w] = @ \o payload[w]]
  /\ IF attempt[w] >= MaxRetries
       THEN Settled(w) /\ givenUp' = [givenUp EXCEPT ![w] = @ \cup Elements(payload[w])]
       ELSE UNCHANGED <<payload, attempt, givenUp>>
  /\ sender' = [sender EXCEPT ![w] = "sleep"]
  /\ UNCHANGED buffer /\ SendFrame

SenderStops(w) ==
  /\ sender[w] = "sleep" /\ stopped[w]
  /\ sender' = [sender EXCEPT ![w] = "done"]
  /\ UNCHANGED <<buffer, payload, attempt, got, givenUp>> /\ SendFrame

--------------------------------------------------------------------------------
(* /stop: _cancel_poc_tasks. *)

\* The event is set and the generation task cancelled wherever it is suspended.
StopBegins(w) ==
  /\ ~stopped[w]
  /\ stopped' = [stopped EXCEPT ![w] = TRUE]
  /\ gen' = [gen EXCEPT ![w] = CASE @ = "failed" -> "failed"
                                 [] @ = "failReset" -> "done"
                                 [] OTHER -> "reset"]
  /\ UNCHANGED <<x, nonces, pending, sender, buffer, payload, attempt, got, dropped, givenUp,
                 rejected>>

(* The generation task is over: a post is cancelled, arrived or not, and the
   sender is cleared.  After a crash the await raises and neither happens: the
   callback task leaves by the event. *)
StopEnds(w) ==
  /\ stopped[w] /\ gen[w] = "done"
  /\ \/ UNCHANGED got
     \/ sender[w] = "post" /\ got' = [got EXCEPT ![w] = @ \o payload[w]]
  /\ sender' = [sender EXCEPT ![w] = "done"]
  /\ buffer' = [buffer EXCEPT ![w] = <<>>]
  /\ payload' = [payload EXCEPT ![w] = <<>>]
  /\ UNCHANGED <<x, gen, nonces, pending, stopped, attempt, dropped, givenUp, rejected>>

--------------------------------------------------------------------------------
GenStep(w) ==
  \/ Forward(w) \/ ForwardAnswers(w) \/ ForwardTimesOut(w) \/ BackoffEnds(w)
  \/ ForwardCrashes(w) \/ ResetAnswers(w)

SendStep(w) == Post(w) \/ PostSucceeds(w) \/ PostFails(w) \/ SenderStops(w)

Next == \E w \in Workers : GenStep(w) \/ SendStep(w) \/ StopBegins(w) \/ StopEnds(w)

Spec == Init /\ [][Next]_vars

\* The event loop resumes the callback task, and every post ends (10 s timeout).
FairSpec == Spec /\ \A w \in Workers : WF_vars(SendStep(w))

--------------------------------------------------------------------------------
(* Properties. *)

InOrder(s) == \A m, n \in DOMAIN s : m < n => s[m] < s[n]

(* Until a stop no nonce is skipped or lost without a trace: what the iterator
   has handed out is being computed, waits to be sent, was sent, or was left out
   by one of three rules (a NaN, the full buffer, the last failed attempt). *)
NothingVanishes ==
  \A w \in Workers : ~stopped[w] =>
    Taken(w) =
      Elements(nonces[w]) \cup Elements(buffer[w]) \cup Elements(payload[w])
      \cup Elements(got[w]) \cup dropped[w] \cup givenUp[w] \cup rejected[w]

(* A retry never computes an artifact into the buffer twice, and never overtakes:
   what is being sent, what is buffered and what a forward computes follow each
   other in the order of the iterator. *)
PipelineInOrder ==
  \A w \in Workers :
    InOrder(payload[w] \o buffer[w] \o (IF gen[w] = "forward" THEN nonces[w] ELSE <<>>))

(* The server sees the artifacts in order: one that it sees for the first time
   is newer than all it has seen, so only a repeated payload looks back. *)
FirstSeenInOrder ==
  \A w \in Workers : \A n \in DOMAIN got[w] :
    \/ \E m \in 1 .. n - 1 : got[w][m] = got[w][n]
    \/ \A m \in 1 .. n - 1 : got[w][m] < got[w][n]

(* "network-wide disjoint nonce-partition scheme": a worker never computes or
   delivers, whatever it retries, a nonce that falls to another node or group of
   the network. *)
WorkersDisjoint ==
  \A w \in Workers : \A v \in ((0 .. NNodes - 1) \X (0 .. NGroups - 1)) \ {w} :
    \A i \in 0 .. Limit - 1 : Nonce(v, i) \notin Elements(nonces[w] \o got[w])

(* A buffered artifact is delivered, dropped by a rule, or cut off by a stop; the
   sender never sits on it for ever. *)
ArtifactsLeave ==
  \A w \in Workers : \A i \in 0 .. Limit - 1 :
    Nonce(w, i) \in Elements(buffer[w]) ~>
      Nonce(w, i) \in Elements(got[w]) \cup dropped[w] \cup givenUp[w] \/ stopped[w]
================================================================================
