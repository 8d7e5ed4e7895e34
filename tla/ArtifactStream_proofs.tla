------------------------- MODULE ArtifactStream_proofs -------------------------
(* Proofs about ArtifactStream: the nonce scheme partitions the naturals among
   the nodes and groups, and so no two workers ever work on the same nonce; until a
   stop no nonce of a worker is lost without a trace, and retries keep their order. *)
EXTENDS ArtifactStream, SequenceTheorems, TLAPS

(* Division with remainder is unique. *)
LEMMA DivisionUnique ==
  ASSUME NEW d \in Nat \ {0}, NEW a \in 0 .. d - 1, NEW b \in 0 .. d - 1,
         NEW p \in Nat, NEW q \in Nat, a + p * d = b + q * d
  PROVE  a = b /\ p = q
<1>1. ASSUME NEW m \in Nat, NEW n \in Nat, m < n PROVE n * d >= m * d + d
  <2>1. n * d = (m + (n - m)) * d
    BY <1>1
  <2>2. (m + (n - m)) * d = m * d + (n - m) * d
    BY <1>1
  <2>3. (n - m) * d >= d
    <3>1. n - m \in Nat \ {0}
      BY <1>1
    <3> QED BY <3>1
  <2> QED BY <2>1, <2>2, <2>3
<1>2. p * d \in Nat /\ q * d \in Nat
  OBVIOUS
<1>3. ~(p < q)
  BY <1>1, <1>2
<1>4. ~(q < p)
  BY <1>1, <1>2
<1> QED BY <1>3, <1>4

(* The formula of NonceIterator.__next__ in two divisions: by the number of nodes,
   and the quotient by the number of groups. *)
LEMMA NonceInTwoSteps ==
  ASSUME NEW n \in Nat, NEW g \in Nat, NEW i \in Nat
  PROVE  Nonce(<<n, g>>, i) = n + (g + i * NGroups) * NNodes
<1>1. NNodes \in Nat /\ NGroups \in Nat
  BY StreamAssumption
<1>2. i * (NGroups * NNodes) = (i * NGroups) * NNodes
  BY <1>1
<1>3. i * NGroups \in Nat
  BY <1>1
<1>4. (g + i * NGroups) * NNodes = g * NNodes + (i * NGroups) * NNodes
  BY <1>1, <1>3
<1>5. Nonce(<<n, g>>, i) = n + g * NNodes + i * (NGroups * NNodes)
  BY DEF Nonce
<1>6. g * NNodes \in Nat /\ (i * NGroups) * NNodes \in Nat
  BY <1>1, <1>3
<1> QED BY <1>2, <1>4, <1>5, <1>6

(* "network-wide disjoint nonce-partition scheme": a nonce belongs to one node,
   one group and one step of its iterator. *)
THEOREM NoncesDisjoint ==
  ASSUME NEW v \in (0 .. NNodes - 1) \X (0 .. NGroups - 1),
         NEW w \in (0 .. NNodes - 1) \X (0 .. NGroups - 1),
         NEW i \in Nat, NEW j \in Nat, Nonce(v, i) = Nonce(w, j)
  PROVE  v = w /\ i = j
<1>1. /\ v = <<v[1], v[2]>> /\ v[1] \in 0 .. NNodes - 1 /\ v[2] \in 0 .. NGroups - 1
      /\ w = <<w[1], w[2]>> /\ w[1] \in 0 .. NNodes - 1 /\ w[2] \in 0 .. NGroups - 1
      /\ NNodes \in Nat \ {0} /\ NGroups \in Nat \ {0}
  BY StreamAssumption
<1>2. /\ v[2] + i * NGroups \in Nat /\ w[2] + j * NGroups \in Nat
      /\ Nonce(v, i) = v[1] + (v[2] + i * NGroups) * NNodes
      /\ Nonce(w, j) = w[1] + (w[2] + j * NGroups) * NNodes
  <2>1. /\ v[1] \in Nat /\ v[2] \in Nat /\ w[1] \in Nat /\ w[2] \in Nat
        /\ i * NGroups \in Nat /\ j * NGroups \in Nat
    BY <1>1
  <2>2. /\ Nonce(<<v[1], v[2]>>, i) = v[1] + (v[2] + i * NGroups) * NNodes
        /\ Nonce(<<w[1], w[2]>>, j) = w[1] + (w[2] + j * NGroups) * NNodes
    BY <2>1, NonceInTwoSteps
  <2> QED BY <1>1, <2>1, <2>2
<1>3. v[1] = w[1] /\ v[2] + i * NGroups = w[2] + j * NGroups
  <2> DEFINE p == v[2] + i * NGroups
             q == w[2] + j * NGroups
  <2>1. p \in Nat /\ q \in Nat /\ v[1] + p * NNodes = w[1] + q * NNodes
    BY <1>2
  <2> HIDE DEF p, q
  <2>2. v[1] = w[1] /\ p = q
    BY <1>1, <2>1, DivisionUnique
  <2> QED BY <2>2 DEF p, q
<1>4. v[2] = w[2] /\ i = j
  BY <1>1, <1>3, DivisionUnique
<1> QED BY <1>1, <1>3, <1>4

(* "disjoint coverage across nodes/groups": when every node and every group takes
   part, no nonce is left out. *)
THEOREM NoncesCover ==
  ASSUME NEW k \in Nat
  PROVE  \E n \in 0 .. NNodes - 1, g \in 0 .. NGroups - 1, i \in Nat : Nonce(<<n, g>>, i) = k
<1>0. NNodes \in Nat \ {0} /\ NGroups \in Nat \ {0}
  BY StreamAssumption
<1> DEFINE q == k \div NNodes
<1>1. q \in Nat /\ k % NNodes \in 0 .. NNodes - 1 /\ k = (k % NNodes) + q * NNodes
  BY <1>0
<1>2. /\ q \div NGroups \in Nat /\ q % NGroups \in 0 .. NGroups - 1
      /\ q = (q % NGroups) + (q \div NGroups) * NGroups
  BY <1>0, <1>1
<1>3. Nonce(<<k % NNodes, q % NGroups>>, q \div NGroups) = k
  BY <1>1, <1>2, NonceInTwoSteps
<1> QED BY <1>1, <1>2, <1>3

\* A sender that sleeps has an attempt left.
AttemptLeft == \A w \in Workers : sender[w] = "sleep" => attempt[w] < MaxRetries

SInv == TypeOK /\ AttemptLeft

(* An iterator only moves on: what was taken stays taken. *)
LEMMA TakenGrows ==
  ASSUME NEW w \in Workers, x[w] \in Nat, x'[w] \in Nat, x'[w] >= x[w]
  PROVE  /\ Taken(w) \subseteq Taken(w)'
         /\ \A s \in Seq(Taken(w)) : s \in Seq(Taken(w)')
<1>1. Taken(w) \subseteq Taken(w)'
  BY DEF Taken
<1> QED BY <1>1

(* take hands out the next n nonces of the worker. *)
LEMMA TakeIsTaken ==
  ASSUME NEW w \in Workers, NEW n \in Nat, x[w] \in Nat, x'[w] = x[w] + n
  PROVE  take(w, n) \in Seq(Taken(w)')
<1>1. ASSUME NEW k \in 1 .. n PROVE Nonce(w, x[w] + k - 1) \in Taken(w)'
  <2>1. x[w] + k - 1 \in 0 .. x'[w] - 1
    OBVIOUS
  <2> QED BY <2>1 DEF Taken, Nonce
<1>2. take(w, n) \in [1 .. n -> Taken(w)']
  BY <1>1 DEF take
<1> QED BY <1>2

(* Cutting a sequence in two keeps its elements. *)
LEMMA CutKeeps ==
  ASSUME NEW S, NEW s \in Seq(S), NEW k \in 0 .. Len(s)
  PROVE  /\ SubSeq(s, k + 1, Len(s)) \in Seq(S)
         /\ Elements(SubSeq(s, 1, k)) \subseteq S
<1>1. Len(s) \in Nat /\ \A i \in 1 .. Len(s) : s[i] \in S
  OBVIOUS
<1>2. SubSeq(s, k + 1, Len(s)) \in Seq(S)
  <2>1. \A i \in k + 1 .. Len(s) : s[i] \in S
    BY <1>1
  <2>2. k + 1 \in Int /\ Len(s) \in Int
    BY <1>1
  <2> QED BY <2>1, <2>2, SubSeqProperties, Zenon
<1>3. SubSeq(s, 1, k) \in Seq(S)
  <2>1. \A i \in 1 .. k : s[i] \in S
    BY <1>1
  <2>2. 1 \in Int /\ k \in Int
    BY <1>1
  <2> QED BY <2>1, <2>2, SubSeqProperties, Zenon
<1>4. \A t \in Seq(S) : Elements(t) \subseteq S
  BY DEF Elements
<1> QED BY <1>2, <1>3, <1>4

\* What Carries and Loses say of a value after the step.
CarriesNext(g) == DOMAIN g = Workers /\ \A v \in Workers : g[v] \in Seq(Taken(v)')
LosesNext(g)   == DOMAIN g = Workers /\ \A v \in Workers : g[v] \in SUBSET (Taken(v)')

IteratorsGrow ==
  /\ x \in [Workers -> Nat] /\ x' \in [Workers -> Nat]
  /\ \A v \in Workers : x'[v] >= x[v]

(* What is carried stays carried, and so does what one worker adds to it. *)
LEMMA StillCarried ==
  ASSUME IteratorsGrow
  PROVE  /\ \A f : Carries(f) => CarriesNext(f)
         /\ \A f : Loses(f) => LosesNext(f)
         /\ \A f, w, s : Carries(f) /\ w \in Workers /\ s \in Seq(Taken(w)')
                        => CarriesNext([f EXCEPT ![w] = s])
         /\ \A f, w, s : Loses(f) /\ w \in Workers /\ s \in SUBSET (Taken(w)')
                        => LosesNext([f EXCEPT ![w] = s])
<1>1. ASSUME NEW w \in Workers
      PROVE  Taken(w) \subseteq Taken(w)' /\ \A s \in Seq(Taken(w)) : s \in Seq(Taken(w)')
  <2>1. x[w] \in Nat /\ x'[w] \in Nat /\ x'[w] >= x[w]
    BY DEF IteratorsGrow
  <2> QED BY <2>1, TakenGrows
<1>2. \A f : Carries(f) => CarriesNext(f)
  BY <1>1 DEF Carries, CarriesNext
<1>3. \A f : Loses(f) => LosesNext(f)
  BY <1>1 DEF Loses, LosesNext
<1>4. \A f, w, s : Carries(f) /\ w \in Workers /\ s \in Seq(Taken(w)')
                 => CarriesNext([f EXCEPT ![w] = s])
  BY <1>2 DEF Carries, CarriesNext
<1>5. \A f, w, s : Loses(f) /\ w \in Workers /\ s \in SUBSET (Taken(w)')
                 => LosesNext([f EXCEPT ![w] = s])
  BY <1>3 DEF Loses, LosesNext
<1> QED BY <1>2, <1>3, <1>4, <1>5

(* The types after a step, put together from what the step carries on. *)
LEMMA TypesNext ==
  ASSUME IteratorsGrow,
         gen' \in [Workers -> {"loop", "forward", "backoff", "reset", "done", "failReset", "failed"}],
         stopped' \in [Workers -> BOOLEAN], sender' \in [Workers -> {"sleep", "post", "done"}],
         attempt' \in [Workers -> 0 .. MaxRetries],
         CarriesNext(nonces'), CarriesNext(pending'), CarriesNext(buffer'),
         CarriesNext(payload'), CarriesNext(got'), LosesNext(dropped'), LosesNext(givenUp'),
         LosesNext(rejected'),
         AttemptLeft'
  PROVE  SInv'
BY DEF SInv, TypeOK, Carries, Loses, CarriesNext, LosesNext, IteratorsGrow

(* The elements of a subsequence are elements of the sequence. *)
LEMMA SubsequenceKeeps ==
  ASSUME NEW S, NEW s \in Seq(S), NEW t \in Subsequences(s)
  PROVE  t \in Seq(S)
<1>1. Len(s) \in Nat /\ \A i \in 1 .. Len(s) : s[i] \in S
  OBVIOUS
<1>2. PICK n \in 0 .. Len(s) : \E f \in [1 .. n -> 1 .. Len(s)] : t = [k \in 1 .. n |-> s[f[k]]]
  BY DEF Subsequences
<1>3. PICK f \in [1 .. n -> 1 .. Len(s)] : t = [k \in 1 .. n |-> s[f[k]]]
  BY <1>2
<1>4. t \in [1 .. n -> S] /\ n \in Nat
  BY <1>1, <1>3
<1> QED BY <1>4

(* add_artifacts keeps what it has, in the buffer or among what is left out. *)
LEMMA AddKeeps ==
  ASSUME SInv, NEW w \in Workers, ForwardAnswers(w)
  PROVE  CarriesNext(buffer') /\ LosesNext(dropped') /\ LosesNext(rejected')
<1>1. PICK artifacts \in Subsequences(nonces[w]) : add_artifacts(w, artifacts)
  BY DEF ForwardAnswers
<1> DEFINE all == buffer[w] \o artifacts
           over == IF Len(all) > MaxArtifacts THEN Len(all) - MaxArtifacts ELSE 0
<1>2. IteratorsGrow /\ Taken(w)' = Taken(w)
  BY DEF SInv, TypeOK, ForwardAnswers, IteratorsGrow, Taken
<1>3. /\ buffer[w] \in Seq(Taken(w)) /\ nonces[w] \in Seq(Taken(w))
      /\ Carries(buffer) /\ Loses(dropped) /\ Loses(rejected)
      /\ dropped[w] \in SUBSET Taken(w) /\ rejected[w] \in SUBSET Taken(w)
  BY DEF SInv, TypeOK, Carries, Loses
<1>4. all \in Seq(Taken(w)) /\ Len(all) \in Nat
  <2>1. artifacts \in Seq(Taken(w))
    BY <1>3, SubsequenceKeeps
  <2> QED BY <1>3, <2>1, ConcatProperties
<1>5. over \in 0 .. Len(all)
  <2>1. MaxArtifacts \in Nat
    BY StreamAssumption
  <2> HIDE DEF all
  <2> QED BY <1>4, <2>1
<1>6. /\ buffer' = [buffer EXCEPT ![w] = SubSeq(all, over + 1, Len(all))]
      /\ dropped' = [dropped EXCEPT ![w] = dropped[w] \cup Elements(SubSeq(all, 1, over))]
      /\ rejected' = [rejected EXCEPT ![w] = rejected[w] \cup (Elements(nonces[w]) \ Elements(artifacts))]
  BY <1>1 DEF add_artifacts
<1> HIDE DEF all, over
<1>7. /\ SubSeq(all, over + 1, Len(all)) \in Seq(Taken(w))
      /\ Elements(SubSeq(all, 1, over)) \subseteq Taken(w)
  BY <1>4, <1>5, CutKeeps
<1>8. Elements(nonces[w]) \subseteq Taken(w)
  BY <1>3 DEF Elements
<1>9. /\ SubSeq(all, over + 1, Len(all)) \in Seq(Taken(w)')
      /\ dropped[w] \cup Elements(SubSeq(all, 1, over)) \in SUBSET (Taken(w)')
      /\ rejected[w] \cup (Elements(nonces[w]) \ Elements(artifacts)) \in SUBSET (Taken(w)')
  BY <1>2, <1>3, <1>7, <1>8
<1>10. CarriesNext(buffer')
  BY <1>2, <1>3, <1>6, <1>9, StillCarried
<1>11. LosesNext(dropped')
  BY <1>2, <1>3, <1>6, <1>9, StillCarried
<1>12. LosesNext(rejected')
  BY <1>2, <1>3, <1>6, <1>9, StillCarried
<1> QED BY <1>10, <1>11, <1>12

(* The generation task keeps the types. *)
LEMMA GenStepInv ==
  ASSUME SInv, NEW w \in Workers, GenStep(w)
  PROVE  SInv'
<1>1. /\ Carries(nonces) /\ Carries(pending) /\ Carries(buffer) /\ Carries(payload)
      /\ Carries(got) /\ Loses(dropped) /\ Loses(givenUp) /\ Loses(rejected)
      /\ x \in [Workers -> Nat]
      /\ nonces[w] \in Seq(Taken(w)) /\ pending[w] \in Seq(Taken(w))
  BY DEF SInv, TypeOK, Carries
<1>2. /\ UNCHANGED <<stopped, sender, payload, attempt, got, givenUp>>
      /\ AttemptLeft'
      /\ gen' \in [Workers -> {"loop", "forward", "backoff", "reset", "done", "failReset", "failed"}]
      /\ stopped' \in [Workers -> BOOLEAN] /\ sender' \in [Workers -> {"sleep", "post", "done"}]
      /\ attempt' \in [Workers -> 0 .. MaxRetries]
  BY DEF SInv, TypeOK, AttemptLeft, GenStep, Forward, ForwardAnswers, ForwardTimesOut, BackoffEnds,
         ForwardCrashes, ResetAnswers, GenFrame
<1>3. IteratorsGrow
  <2>1. x' = x \/ x' = [x EXCEPT ![w] = @ + BatchSize]
    BY DEF GenStep, Forward, ForwardAnswers, ForwardTimesOut, BackoffEnds, ForwardCrashes, ResetAnswers
  <2>2. BatchSize \in Nat
    BY StreamAssumption
  <2> QED BY <1>1, <2>1, <2>2 DEF IteratorsGrow
<1>4. CarriesNext(payload') /\ CarriesNext(got') /\ LosesNext(givenUp')
  BY <1>1, <1>2, <1>3, StillCarried
<1>5. CASE Forward(w)
  <2>1. nonces' = [nonces EXCEPT ![w] = nonces'[w]] /\ nonces'[w] \in Seq(Taken(w)')
    <3>1. CASE pending[w] # <<>> /\ nonces' = [nonces EXCEPT ![w] = pending[w]] /\ UNCHANGED x
      BY <1>1, <3>1 DEF Carries, Taken
    <3>2. CASE /\ pending[w] = <<>> /\ nonces' = [nonces EXCEPT ![w] = take(w, BatchSize)]
               /\ x' = [x EXCEPT ![w] = @ + BatchSize]
      <4>1. BatchSize \in Nat /\ x[w] \in Nat /\ x'[w] = x[w] + BatchSize
        BY <1>1, <3>2, StreamAssumption
      <4>2. take(w, BatchSize) \in Seq(Taken(w)')
        BY <4>1, TakeIsTaken
      <4> QED BY <1>1, <3>2, <4>2 DEF Carries
    <3> QED BY <1>5, <3>1, <3>2 DEF Forward
  <2>2. CarriesNext(nonces')
    BY <1>1, <1>3, <2>1, StillCarried
  <2>3. CarriesNext(pending') /\ CarriesNext(buffer') /\ LosesNext(dropped') /\ LosesNext(rejected')
    BY <1>1, <1>3, <1>5, StillCarried DEF Forward
  <2> QED BY <1>2, <1>3, <1>4, <2>2, <2>3, TypesNext
<1>6. CASE ForwardAnswers(w)
  <2>1. CarriesNext(nonces')
    BY <1>1, <1>3, <1>6, StillCarried DEF ForwardAnswers
  <2>2. CarriesNext(pending')
    <3>1. <<>> \in Seq(Taken(w)') /\ pending' = [pending EXCEPT ![w] = <<>>]
      BY <1>6 DEF ForwardAnswers
    <3> QED BY <1>1, <1>3, <3>1, StillCarried
  <2> QED BY <1>2, <1>3, <1>4, <1>6, <2>1, <2>2, AddKeeps, TypesNext
<1>7. CASE ForwardTimesOut(w)
  <2>1. nonces[w] \in Seq(Taken(w)')
    BY <1>1, <1>7 DEF ForwardTimesOut, Taken
  <2>2. CarriesNext(pending')
    BY <1>1, <1>3, <1>7, <2>1, StillCarried DEF ForwardTimesOut
  <2>3. CarriesNext(nonces') /\ CarriesNext(buffer') /\ LosesNext(dropped') /\ LosesNext(rejected')
    BY <1>1, <1>3, <1>7, StillCarried DEF ForwardTimesOut
  <2> QED BY <1>2, <1>3, <1>4, <2>2, <2>3, TypesNext
<1>8. CASE BackoffEnds(w) \/ ForwardCrashes(w) \/ ResetAnswers(w)
  <2>1. /\ CarriesNext(pending') /\ CarriesNext(nonces') /\ CarriesNext(buffer')
        /\ LosesNext(dropped') /\ LosesNext(rejected')
    BY <1>1, <1>3, <1>8, StillCarried DEF BackoffEnds, ForwardCrashes, ResetAnswers
  <2> QED BY <1>2, <1>3, <1>4, <2>1, TypesNext
<1> QED BY <1>5, <1>6, <1>7, <1>8 DEF GenStep

(* The callback task and a stop take no nonce; what they move was carried. *)
LEMMA SendStepInv ==
  ASSUME SInv, NEW w \in Workers, SendStep(w) \/ StopBegins(w) \/ StopEnds(w)
  PROVE  SInv'
<1>1. /\ Carries(nonces) /\ Carries(pending) /\ Carries(buffer) /\ Carries(payload)
      /\ Carries(got) /\ Loses(dropped) /\ Loses(givenUp) /\ Loses(rejected)
      /\ x \in [Workers -> Nat] /\ MaxRetries \in Nat \ {0}
  BY StreamAssumption DEF SInv, TypeOK
<1>2. UNCHANGED <<x, nonces, pending, dropped, rejected>>
  BY DEF SendStep, Post, PostSucceeds, PostFails, SenderStops, SendFrame, StopBegins, StopEnds
<1>3. IteratorsGrow
  BY <1>1, <1>2 DEF IteratorsGrow
<1>4. CarriesNext(nonces') /\ CarriesNext(pending') /\ LosesNext(dropped') /\ LosesNext(rejected')
  BY <1>1, <1>2, <1>3, StillCarried
<1>5. /\ gen' \in [Workers -> {"loop", "forward", "backoff", "reset", "done", "failReset", "failed"}]
      /\ stopped' \in [Workers -> BOOLEAN] /\ sender' \in [Workers -> {"sleep", "post", "done"}]
  BY DEF SInv, TypeOK, SendStep, Post, PostSucceeds, PostFails, SenderStops, SendFrame, StopBegins,
         StopEnds
<1>6. attempt' \in [Workers -> 0 .. MaxRetries] /\ AttemptLeft'
  <2>1. attempt \in [Workers -> 0 .. MaxRetries] /\ AttemptLeft
        /\ sender \in [Workers -> {"sleep", "post", "done"}]
    BY DEF SInv, TypeOK
  <2>2. CASE Post(w)
    <3>1. PICK n \in 1 .. MaxRetries : attempt' = [attempt EXCEPT ![w] = n]
      <4>1. CASE attempt' = [attempt EXCEPT ![w] = 1]
        <5>1. 1 \in 1 .. MaxRetries
          BY <1>1
        <5> QED BY <4>1, <5>1
      <4>2. CASE attempt' = [attempt EXCEPT ![w] = @ + 1]
        <5>1. attempt[w] \in 0 .. MaxRetries /\ attempt[w] < MaxRetries
          BY <2>1, <2>2 DEF Post, AttemptLeft
        <5>2. attempt[w] + 1 \in 1 .. MaxRetries
          BY <1>1, <5>1
        <5> QED BY <4>2, <5>2
      <4> QED BY <2>2, <4>1, <4>2 DEF Post
    <3>2. attempt' \in [Workers -> 0 .. MaxRetries]
      BY <1>1, <2>1, <3>1
    <3>3. sender' = [sender EXCEPT ![w] = "post"]
      BY <2>2 DEF Post
    <3> QED BY <2>1, <3>1, <3>2, <3>3 DEF AttemptLeft
  <2>3. CASE PostSucceeds(w)
    BY <1>1, <2>1, <2>3 DEF PostSucceeds, Settled, AttemptLeft
  <2>4. CASE PostFails(w)
    <3>1. CASE attempt[w] >= MaxRetries
      <4>1. attempt' = [attempt EXCEPT ![w] = 0] /\ sender' = [sender EXCEPT ![w] = "sleep"]
        BY <2>4, <3>1 DEF PostFails, Settled
      <4>2. 0 \in 0 .. MaxRetries /\ 0 < MaxRetries
        BY <1>1
      <4> QED BY <2>1, <4>1, <4>2 DEF AttemptLeft
    <3>2. CASE ~(attempt[w] >= MaxRetries)
      <4>1. attempt[w] \in Nat /\ attempt' = attempt /\ sender' = [sender EXCEPT ![w] = "sleep"]
        BY <2>1, <2>4, <3>2 DEF PostFails
      <4>2. attempt[w] < MaxRetries
        BY <1>1, <3>2, <4>1
      <4> QED BY <2>1, <4>1, <4>2 DEF AttemptLeft
    <3> QED BY <3>1, <3>2
  <2>5. CASE SenderStops(w) \/ StopBegins(w) \/ StopEnds(w)
    BY <2>1, <2>5 DEF SenderStops, StopBegins, StopEnds, AttemptLeft
  <2> QED BY <2>2, <2>3, <2>4, <2>5 DEF SendStep
<1>7. /\ buffer[w] \in Seq(Taken(w)') /\ payload[w] \in Seq(Taken(w)') /\ <<>> \in Seq(Taken(w)')
      /\ got[w] \o payload[w] \in Seq(Taken(w)')
      /\ givenUp[w] \cup Elements(payload[w]) \in SUBSET (Taken(w)')
  <2>1. Taken(w)' = Taken(w)
    BY <1>2 DEF Taken
  <2>2. buffer[w] \in Seq(Taken(w)) /\ payload[w] \in Seq(Taken(w)) /\ got[w] \in Seq(Taken(w))
        /\ givenUp[w] \in SUBSET Taken(w)
    BY <1>1 DEF Carries, Loses
  <2>3. got[w] \o payload[w] \in Seq(Taken(w))
    BY <2>2, ConcatProperties
  <2>4. Elements(payload[w]) \subseteq Taken(w)
    BY <2>2 DEF Elements
  <2> QED BY <2>1, <2>2, <2>3, <2>4
<1>8. CarriesNext(buffer')
  <2>1. UNCHANGED buffer \/ buffer' = [buffer EXCEPT ![w] = <<>>]
    BY DEF SendStep, Post, PostSucceeds, PostFails, SenderStops, StopBegins, StopEnds
  <2>2. CASE UNCHANGED buffer
    BY <1>1, <1>3, <2>2, StillCarried
  <2>3. CASE buffer' = [buffer EXCEPT ![w] = <<>>]
    BY <1>1, <1>3, <1>7, <2>3, StillCarried
  <2> QED BY <2>1, <2>2, <2>3
<1>9. CarriesNext(payload')
  <2>1. \/ UNCHANGED payload \/ payload' = [payload EXCEPT ![w] = <<>>]
        \/ payload' = [payload EXCEPT ![w] = buffer[w]]
    BY DEF SendStep, Post, PostSucceeds, PostFails, Settled, SenderStops, StopBegins, StopEnds
  <2>2. CASE UNCHANGED payload
    BY <1>1, <1>3, <2>2, StillCarried
  <2>3. CASE payload' = [payload EXCEPT ![w] = <<>>]
    BY <1>1, <1>3, <1>7, <2>3, StillCarried
  <2>4. CASE payload' = [payload EXCEPT ![w] = buffer[w]]
    BY <1>1, <1>3, <1>7, <2>4, StillCarried
  <2> QED BY <2>1, <2>2, <2>3, <2>4
<1>10. CarriesNext(got')
  <2>1. UNCHANGED got \/ got' = [got EXCEPT ![w] = got[w] \o payload[w]]
    BY DEF SendStep, Post, PostSucceeds, PostFails, SenderStops, StopBegins, StopEnds
  <2>2. CASE UNCHANGED got
    BY <1>1, <1>3, <2>2, StillCarried
  <2>3. CASE got' = [got EXCEPT ![w] = got[w] \o payload[w]]
    BY <1>1, <1>3, <1>7, <2>3, StillCarried
  <2> QED BY <2>1, <2>2, <2>3
<1>11. LosesNext(givenUp')
  <2>1. UNCHANGED givenUp \/ givenUp' = [givenUp EXCEPT ![w] = givenUp[w] \cup Elements(payload[w])]
    BY DEF SendStep, Post, PostSucceeds, PostFails, SenderStops, StopBegins, StopEnds
  <2>2. CASE UNCHANGED givenUp
    BY <1>1, <1>3, <2>2, StillCarried
  <2>3. CASE givenUp' = [givenUp EXCEPT ![w] = givenUp[w] \cup Elements(payload[w])]
    BY <1>1, <1>3, <1>7, <2>3, StillCarried
  <2> QED BY <2>1, <2>2, <2>3
<1> QED BY <1>3, <1>4, <1>5, <1>6, <1>8, <1>9, <1>10, <1>11, TypesNext

(* SInv is inductive: every nonce in the pipeline of a worker, up to the server,
   is one its own iterator handed out. *)
THEOREM SInvInductive == Spec => []SInv
<1>1. Init => SInv
  <2> SUFFICES ASSUME Init PROVE SInv
    OBVIOUS
  <2>1. /\ Carries(nonces) /\ Carries(pending) /\ Carries(buffer) /\ Carries(payload)
        /\ Carries(got) /\ Loses(dropped) /\ Loses(givenUp) /\ Loses(rejected)
    BY DEF Init, Carries, Loses
  <2> QED BY <2>1, StreamAssumption DEF Init, SInv, TypeOK, AttemptLeft
<1>2. SInv /\ [Next]_vars => SInv'
  <2> SUFFICES ASSUME SInv, [Next]_vars PROVE SInv'
    OBVIOUS
  <2>1. CASE UNCHANGED vars
    BY <2>1 DEF vars, SInv, TypeOK, AttemptLeft, Carries, Loses, Taken
  <2> QED BY <2>1, GenStepInv, SendStepInv DEF Next
<1> QED BY <1>1, <1>2, PTL DEF Spec

(* Every artifact in a worker's pipeline carries a nonce of that worker, and a
   payload is never posted more than POC_CALLBACK_MAX_RETRIES times. *)
THEOREM StreamTypes == Spec => []TypeOK
BY SInvInductive, PTL DEF SInv

(* "network-wide disjoint nonce-partition scheme": for every number of nodes and
   groups, no worker ever computes or delivers a nonce of another place in the
   network. *)
THEOREM NetworkDisjoint == Spec => []WorkersDisjoint
<1>1. TypeOK => WorkersDisjoint
  <2> SUFFICES ASSUME TypeOK, NEW w \in Workers,
                      NEW v \in ((0 .. NNodes - 1) \X (0 .. NGroups - 1)) \ {w},
                      NEW i \in 0 .. Limit - 1, Nonce(v, i) \in Elements(nonces[w] \o got[w])
               PROVE  FALSE
    BY DEF WorkersDisjoint
  <2>1. ASSUME NEW u \in Workers
        PROVE  Elements(nonces[u] \o got[u]) \subseteq Taken(u)
    <3>1. nonces[u] \in Seq(Taken(u)) /\ got[u] \in Seq(Taken(u))
      BY DEF TypeOK, Carries
    <3>2. nonces[u] \o got[u] \in Seq(Taken(u))
      BY <3>1, ConcatProperties
    <3>3. \A s \in Seq(Taken(u)) : Elements(s) \subseteq Taken(u)
      BY DEF Elements
    <3> QED BY <3>2, <3>3
  <2>2. PICK j \in 0 .. x[w] - 1 : Nonce(v, i) = Nonce(w, j)
    BY <2>1 DEF Taken
  <2>3. i \in Nat /\ j \in Nat
    BY StreamAssumption DEF TypeOK
  <2>4. w \in (0 .. NNodes - 1) \X (0 .. NGroups - 1)
    BY StreamAssumption
  <2>5. v = w
    BY <2>2, <2>3, <2>4, NoncesDisjoint
  <2> QED BY <2>5
<1> QED BY <1>1, StreamTypes, PTL

--------------------------------------------------------------------------------
(* The pipeline: what became of every nonce that was taken, and in which order. *)

Before(A, B) == \A a \in A, b \in B : a < b

\* No new number is older than one that came before it.
FirstSeen(s) ==
  \A n \in DOMAIN s : \/ \E m \in 1 .. n - 1 : s[m] = s[n]
                      \/ \A m \in 1 .. n - 1 : s[m] < s[n]

LEMMA ConcatElements ==
  ASSUME NEW S, NEW s \in Seq(S), NEW t \in Seq(S)
  PROVE  Elements(s \o t) = Elements(s) \cup Elements(t)
<1>1. /\ s \o t \in Seq(S) /\ Len(s \o t) = Len(s) + Len(t) /\ Len(s) \in Nat /\ Len(t) \in Nat
      /\ \A i \in 1 .. Len(s) + Len(t) : (s \o t)[i] = IF i <= Len(s) THEN s[i] ELSE t[i - Len(s)]
  BY ConcatProperties
<1>2. DOMAIN s = 1 .. Len(s) /\ DOMAIN t = 1 .. Len(t) /\ DOMAIN (s \o t) = 1 .. Len(s) + Len(t)
  BY <1>1
<1>3. ASSUME NEW i \in DOMAIN s PROVE i \in DOMAIN (s \o t) /\ (s \o t)[i] = s[i]
  BY <1>1, <1>2
<1>4. ASSUME NEW i \in DOMAIN t
      PROVE  Len(s) + i \in DOMAIN (s \o t) /\ (s \o t)[Len(s) + i] = t[i]
  BY <1>1, <1>2
<1>5. ASSUME NEW i \in DOMAIN (s \o t)
      PROVE  (s \o t)[i] \in Elements(s) \cup Elements(t)
  <2>1. CASE i <= Len(s)
    BY <1>1, <1>2, <2>1 DEF Elements
  <2>2. CASE ~(i <= Len(s))
    <3>1. i - Len(s) \in DOMAIN t /\ (s \o t)[i] = t[i - Len(s)]
      BY <1>1, <1>2, <2>2
    <3> QED BY <3>1 DEF Elements
  <2> QED BY <2>1, <2>2
<1>6. Elements(s) \subseteq Elements(s \o t)
  BY <1>3 DEF Elements
<1>7. Elements(t) \subseteq Elements(s \o t)
  BY <1>4 DEF Elements
<1>8. Elements(s \o t) \subseteq Elements(s) \cup Elements(t)
  <2> SUFFICES ASSUME NEW i \in DOMAIN (s \o t) PROVE (s \o t)[i] \in Elements(s) \cup Elements(t)
    BY Zenon DEF Elements
  <2> QED BY <1>5
<1> QED BY <1>6, <1>7, <1>8

(* Two runs in order, one before the other, are one run in order; and a run that was
   never seen, or seen as a whole, may follow what was seen. *)
LEMMA ConcatOrder ==
  ASSUME NEW s \in Seq(Int), NEW t \in Seq(Int), InOrder(t)
  PROVE  /\ InOrder(s) /\ Before(Elements(s), Elements(t)) => InOrder(s \o t)
         /\ FirstSeen(s) /\ (Before(Elements(s), Elements(t)) \/ Elements(t) \subseteq Elements(s))
              => FirstSeen(s \o t)
<1> DEFINE u == s \o t
<1>1. /\ u \in Seq(Int) /\ Len(u) = Len(s) + Len(t) /\ Len(s) \in Nat /\ Len(t) \in Nat
      /\ \A i \in 1 .. Len(s) + Len(t) : u[i] = IF i <= Len(s) THEN s[i] ELSE t[i - Len(s)]
  BY ConcatProperties
<1>2. DOMAIN s = 1 .. Len(s) /\ DOMAIN t = 1 .. Len(t) /\ DOMAIN u = 1 .. Len(s) + Len(t)
  BY <1>1
<1> HIDE DEF u
<1>3. ASSUME NEW i \in DOMAIN u, i <= Len(s) PROVE i \in DOMAIN s /\ u[i] = s[i] /\ u[i] \in Elements(s)
  BY <1>1, <1>2, <1>3 DEF Elements
<1>4. ASSUME NEW i \in DOMAIN u, ~(i <= Len(s))
      PROVE  i - Len(s) \in DOMAIN t /\ u[i] = t[i - Len(s)] /\ u[i] \in Elements(t)
  <2>1. i - Len(s) \in DOMAIN t /\ u[i] = t[i - Len(s)]
    BY <1>1, <1>2, <1>4
  <2> QED BY <2>1 DEF Elements
<1>5. ASSUME Before(Elements(s), Elements(t)), NEW m \in DOMAIN u, NEW n \in DOMAIN u, m < n, ~(n <= Len(s))
      PROVE  u[m] < u[n]
  <2>1. CASE m <= Len(s)
    BY <1>3, <1>4, <1>5, <2>1 DEF Before
  <2>2. CASE ~(m <= Len(s))
    <3>1. m - Len(s) < n - Len(s)
      BY <1>1, <1>2, <1>5
    <3> QED BY <1>4, <1>5, <2>2, <3>1 DEF InOrder
  <2> QED BY <2>1, <2>2
<1>6. ASSUME InOrder(s), Before(Elements(s), Elements(t)) PROVE InOrder(u)
  <2> SUFFICES ASSUME NEW m \in DOMAIN u, NEW n \in DOMAIN u, m < n PROVE u[m] < u[n]
    BY DEF InOrder
  <2>1. CASE n <= Len(s)
    <3>1. m <= Len(s)
      BY <1>1, <1>2, <2>1
    <3> QED BY <1>3, <1>6, <2>1, <3>1 DEF InOrder
  <2>2. CASE ~(n <= Len(s))
    BY <1>5, <1>6, <2>2
  <2> QED BY <2>1, <2>2
<1>7. ASSUME FirstSeen(s), Before(Elements(s), Elements(t)) \/ Elements(t) \subseteq Elements(s)
      PROVE  FirstSeen(u)
  <2> SUFFICES ASSUME NEW n \in DOMAIN u
               PROVE  \/ \E m \in 1 .. n - 1 : u[m] = u[n]
                      \/ \A m \in 1 .. n - 1 : u[m] < u[n]
    BY DEF FirstSeen
  <2>0. \A m \in 1 .. n - 1 : m \in DOMAIN u /\ m < n /\ m \in Int
    BY <1>1, <1>2
  <2>1. CASE n <= Len(s)
    <3>1. n \in DOMAIN s /\ u[n] = s[n] /\ \A m \in 1 .. n - 1 : u[m] = s[m]
      <4>1. ASSUME NEW m \in 1 .. n - 1 PROVE m \in DOMAIN u /\ m <= Len(s)
        BY <1>1, <1>2, <2>0, <2>1
      <4>2. \A m \in 1 .. n - 1 : u[m] = s[m]
        BY <1>3, <4>1
      <4> QED BY <1>3, <2>1, <4>2
    <3> QED BY <1>7, <3>1 DEF FirstSeen
  <2>2. CASE ~(n <= Len(s)) /\ Before(Elements(s), Elements(t))
    BY <1>5, <2>0, <2>2
  <2>3. CASE ~(n <= Len(s)) /\ Elements(t) \subseteq Elements(s)
    <3>1. PICK m \in DOMAIN s : u[n] = s[m]
      BY <1>4, <2>3 DEF Elements
    <3>2. m \in 1 .. n - 1 /\ m \in DOMAIN u /\ m <= Len(s)
      <4>1. /\ Len(s) \in Nat /\ Len(t) \in Nat
            /\ m \in 1 .. Len(s) /\ n \in 1 .. Len(s) + Len(t)
        BY <1>1, <1>2
      <4>2. \A a, b \in Nat : \A i \in 1 .. a, k \in 1 .. a + b :
              ~(k <= a) => i \in 1 .. k - 1 /\ i \in 1 .. a + b /\ i <= a
        OBVIOUS
      <4> QED BY <1>2, <2>3, <4>1, <4>2
    <3>3. u[m] = s[m]
      BY <1>3, <3>2
    <3> QED BY <3>1, <3>2, <3>3
  <2> QED BY <1>7, <2>1, <2>2, <2>3
<1> QED BY <1>6, <1>7 DEF u

(* Cutting a run in two loses nothing and keeps the order of the rest. *)
LEMMA CutRest ==
  ASSUME NEW s \in Seq(Int), NEW k \in 0 .. Len(s)
  PROVE  /\ Elements(s) \subseteq Elements(SubSeq(s, 1, k)) \cup Elements(SubSeq(s, k + 1, Len(s)))
         /\ Elements(SubSeq(s, k + 1, Len(s))) \subseteq Elements(s)
         /\ InOrder(s) => InOrder(SubSeq(s, k + 1, Len(s)))
<1>0. Len(s) \in Nat /\ k \in Nat /\ k <= Len(s) /\ DOMAIN s = 1 .. Len(s)
  OBVIOUS
<1>1. /\ DOMAIN SubSeq(s, 1, k) = 1 .. k
      /\ \A i \in 1 .. k : SubSeq(s, 1, k)[i] = s[i]
  BY <1>0
<1> DEFINE r == SubSeq(s, k + 1, Len(s))
<1>2. /\ DOMAIN r = 1 .. Len(s) - k
      /\ \A i \in 1 .. Len(s) - k : r[i] = s[k + i]
  BY <1>0
<1> HIDE DEF r
<1>3. ASSUME NEW i \in DOMAIN s
      PROVE  s[i] \in Elements(SubSeq(s, 1, k)) \cup Elements(r)
  <2>1. CASE i <= k
    <3>1. i \in DOMAIN SubSeq(s, 1, k) /\ SubSeq(s, 1, k)[i] = s[i]
      BY <1>0, <1>1, <2>1
    <3> QED BY <3>1 DEF Elements
  <2>2. CASE ~(i <= k)
    <3>1. i - k \in DOMAIN r /\ r[i - k] = s[i]
      BY <1>0, <1>2, <2>2
    <3> QED BY <3>1 DEF Elements
  <2> QED BY <2>1, <2>2
<1>4. \A i \in DOMAIN r : k + i \in DOMAIN s /\ r[i] = s[k + i]
  BY <1>0, <1>2
<1>5. InOrder(s) => InOrder(r)
  <2> SUFFICES ASSUME InOrder(s), NEW m \in DOMAIN r, NEW n \in DOMAIN r, m < n PROVE r[m] < r[n]
    BY DEF InOrder
  <2>1. k + m < k + n
    BY <1>0, <1>2
  <2> QED BY <1>4, <2>1 DEF InOrder
<1>6. Elements(r) \subseteq Elements(s)
  BY <1>4 DEF Elements
<1> QED BY <1>3, <1>5, <1>6 DEF Elements, r

LEMMA SubsequenceOrder ==
  ASSUME NEW s \in Seq(Int), NEW t \in Subsequences(s)
  PROVE  Elements(t) \subseteq Elements(s) /\ (InOrder(s) => InOrder(t))
<1>1. PICK n \in 0 .. Len(s) :
        \E f \in [1 .. n -> 1 .. Len(s)] :
          (\A a, b \in 1 .. n : a < b => f[a] < f[b]) /\ t = [k \in 1 .. n |-> s[f[k]]]
  BY DEF Subsequences
<1>2. PICK f \in [1 .. n -> 1 .. Len(s)] :
        (\A a, b \in 1 .. n : a < b => f[a] < f[b]) /\ t = [k \in 1 .. n |-> s[f[k]]]
  BY <1>1
<1>3. DOMAIN t = 1 .. n /\ \A k \in 1 .. n : t[k] = s[f[k]] /\ f[k] \in DOMAIN s
  BY <1>2
<1> QED BY <1>2, <1>3 DEF Elements, InOrder

LEMMA NonceGrows ==
  ASSUME NEW w \in Workers, NEW i \in Nat, NEW j \in Nat
  PROVE  Nonce(w, i) \in Nat /\ (i < j => Nonce(w, i) < Nonce(w, j))
<1> DEFINE d == NGroups * NNodes
<1>1. w[1] \in Nat /\ w[2] \in Nat /\ NNodes \in Nat \ {0} /\ NGroups \in Nat \ {0}
  BY StreamAssumption
<1>2. d \in Nat \ {0} /\ w[2] * NNodes \in Nat
  BY <1>1
<1>3. Nonce(w, i) = w[1] + w[2] * NNodes + i * d /\ Nonce(w, j) = w[1] + w[2] * NNodes + j * d
  BY DEF Nonce
<1> HIDE DEF d
<1>4. i * d \in Nat /\ j * d \in Nat
  BY <1>2
<1>5. ASSUME i < j PROVE i * d < j * d
  <2>1. j * d = i * d + (j - i) * d
    <3>1. j = i + (j - i) /\ j - i \in Nat
      BY <1>5
    <3>2. (i + (j - i)) * d = i * d + (j - i) * d
      BY <1>2, <3>1
    <3> QED BY <3>1, <3>2
  <2>2. (j - i) * d >= d
    <3>1. j - i \in Nat \ {0}
      BY <1>5
    <3> QED BY <1>2, <3>1
  <2>3. d \in Nat \ {0} /\ (j - i) * d \in Nat
    <3>1. j - i \in Nat
      BY <1>5
    <3> QED BY <1>2, <3>1
  <2> QED BY <1>4, <2>1, <2>2, <2>3
<1>6. PICK base \in Nat : base = w[1] + w[2] * NNodes
  BY <1>1, <1>2
<1> QED BY <1>3, <1>4, <1>5, <1>6

(* The next batch continues the run of the iterator. *)
LEMMA TakeGoesOn ==
  ASSUME NEW w \in Workers, NEW n \in Nat, x[w] \in Nat, x'[w] = x[w] + n
  PROVE  /\ InOrder(take(w, n)) /\ Before(Taken(w), Elements(take(w, n)))
         /\ Taken(w)' \subseteq Taken(w) \cup Elements(take(w, n))
<1>1. DOMAIN take(w, n) = 1 .. n /\ \A k \in 1 .. n : take(w, n)[k] = Nonce(w, x[w] + k - 1) /\ x[w] + k - 1 \in Nat
  BY DEF take
<1>2. InOrder(take(w, n))
  <2> SUFFICES ASSUME NEW k \in 1 .. n, NEW m \in 1 .. n, k < m
               PROVE  Nonce(w, x[w] + k - 1) < Nonce(w, x[w] + m - 1)
    BY <1>1 DEF InOrder
  <2>1. x[w] + k - 1 < x[w] + m - 1
    OBVIOUS
  <2> QED BY <1>1, <2>1, NonceGrows
<1>3. Before(Taken(w), Elements(take(w, n)))
  <2> SUFFICES ASSUME NEW i \in 0 .. x[w] - 1, NEW k \in 1 .. n
               PROVE  Nonce(w, i) < Nonce(w, x[w] + k - 1)
    BY <1>1 DEF Before, Taken, Elements
  <2>1. i \in Nat /\ i < x[w] + k - 1
    OBVIOUS
  <2> QED BY <1>1, <2>1, NonceGrows
<1>4. ASSUME NEW i \in 0 .. x'[w] - 1 PROVE Nonce(w, i) \in Taken(w) \cup Elements(take(w, n))
  <2>1. CASE i < x[w]
    <3>1. i \in 0 .. x[w] - 1
      BY <2>1
    <3> QED BY <3>1 DEF Taken
  <2>2. CASE ~(i < x[w])
    <3>1. i - x[w] + 1 \in 1 .. n /\ x[w] + (i - x[w] + 1) - 1 = i
      BY <2>2
    <3>2. take(w, n)[i - x[w] + 1] = Nonce(w, i)
      BY <1>1, <3>1
    <3> QED BY <1>1, <3>1, <3>2 DEF Elements
  <2> QED BY <2>1, <2>2
<1>5. Taken(w)' = {Nonce(w, i) : i \in 0 .. x'[w] - 1}
  BY DEF Taken, Nonce
<1> QED BY <1>2, <1>3, <1>4, <1>5

\* What is being sent, what is buffered and what was seen follow each other.
Order(w) ==
  /\ InOrder(nonces[w]) /\ InOrder(buffer[w]) /\ InOrder(payload[w])
  /\ Before(Elements(payload[w]) \cup Elements(got[w]), Elements(buffer[w]))
  /\ \/ Before(Elements(got[w]), Elements(payload[w]))
     \/ Elements(payload[w]) \subseteq Elements(got[w])
  /\ FirstSeen(got[w])

\* A batch whose answer is still to come is newer than all of it, and is what a retry sends.
Uncommitted(w) == gen[w] \in {"forward", "backoff"} \/ (gen[w] = "loop" /\ pending[w] # <<>>)

BatchIsNew(w) ==
  /\ Uncommitted(w) =>
       Before(Elements(payload[w]) \cup Elements(got[w]) \cup Elements(buffer[w]), Elements(nonces[w]))
  /\ gen[w] = "backoff" => pending[w] = nonces[w]
  /\ gen[w] \in {"loop", "forward"} /\ pending[w] # <<>> => pending[w] = nonces[w]

\* Where the nonces of a batch are once it was answered.
Rest(w) == Elements(buffer[w]) \cup Elements(payload[w]) \cup Elements(got[w])
           \cup dropped[w] \cup givenUp[w] \cup rejected[w]

Traced(w) ==
  ~stopped[w] =>
    /\ Taken(w) \subseteq Elements(nonces[w]) \cup Rest(w)
    /\ gen[w] = "loop" /\ pending[w] = <<>> => Elements(nonces[w]) \subseteq Rest(w)

Flow(w) == Order(w) /\ BatchIsNew(w) /\ Traced(w)

FlowInv == SInv /\ \A w \in Workers : Flow(w)

LEMMA FlowTypes ==
  ASSUME SInv, NEW w \in Workers
  PROVE  /\ Taken(w) \subseteq Nat /\ x[w] \in Nat
         /\ nonces[w] \in Seq(Taken(w)) /\ buffer[w] \in Seq(Taken(w)) /\ payload[w] \in Seq(Taken(w))
         /\ got[w] \in Seq(Taken(w)) /\ pending[w] \in Seq(Taken(w))
         /\ nonces[w] \in Seq(Int) /\ buffer[w] \in Seq(Int) /\ payload[w] \in Seq(Int)
         /\ got[w] \in Seq(Int)
         /\ Elements(nonces[w]) \subseteq Taken(w)
         /\ Rest(w) \subseteq Taken(w)
<1>1. x[w] \in Nat
  BY DEF SInv, TypeOK
<1>2. Taken(w) \subseteq Nat
  <2> SUFFICES ASSUME NEW i \in 0 .. x[w] - 1 PROVE Nonce(w, i) \in Nat
    BY DEF Taken
  <2>1. i \in Nat
    BY <1>1
  <2> QED BY <2>1, NonceGrows
<1>3. /\ nonces[w] \in Seq(Taken(w)) /\ buffer[w] \in Seq(Taken(w)) /\ payload[w] \in Seq(Taken(w))
      /\ got[w] \in Seq(Taken(w)) /\ pending[w] \in Seq(Taken(w))
      /\ dropped[w] \subseteq Taken(w) /\ givenUp[w] \subseteq Taken(w) /\ rejected[w] \subseteq Taken(w)
  BY DEF SInv, TypeOK, Carries, Loses
<1>4. \A s \in Seq(Taken(w)) : s \in Seq(Int) /\ Elements(s) \subseteq Taken(w)
  BY <1>2 DEF Elements
<1> QED BY <1>1, <1>2, <1>3, <1>4 DEF Rest

LEMMA EmptyElements == Elements(<<>>) = {} /\ InOrder(<<>>)
  BY DEF Elements, InOrder

(* add_artifacts puts the answered batch behind the buffer and accounts for all of it. *)
LEMMA AddFlow ==
  ASSUME SInv, NEW w \in Workers, Flow(w), ForwardAnswers(w)
  PROVE  /\ InOrder(buffer'[w])
         /\ Elements(buffer'[w]) \subseteq Elements(buffer[w]) \cup Elements(nonces[w])
         /\ Elements(buffer[w]) \cup Elements(nonces[w]) \subseteq Elements(buffer'[w]) \cup dropped'[w] \cup rejected'[w]
         /\ dropped[w] \subseteq dropped'[w] /\ rejected[w] \subseteq rejected'[w]
<1>1. PICK artifacts \in Subsequences(nonces[w]) : add_artifacts(w, artifacts)
  BY DEF ForwardAnswers
<1>2. /\ nonces[w] \in Seq(Int) /\ buffer[w] \in Seq(Int) /\ artifacts \in Seq(Int)
      /\ Elements(artifacts) \subseteq Elements(nonces[w]) /\ InOrder(artifacts) /\ InOrder(buffer[w])
      /\ Before(Elements(buffer[w]), Elements(artifacts))
  <2>1. nonces[w] \in Seq(Int) /\ buffer[w] \in Seq(Int)
    BY FlowTypes
  <2>2. artifacts \in Seq(Int)
    BY <2>1, SubsequenceKeeps
  <2>3. Elements(artifacts) \subseteq Elements(nonces[w]) /\ InOrder(artifacts) /\ InOrder(buffer[w])
    BY <2>1, SubsequenceOrder DEF Flow, Order
  <2>4. Before(Elements(buffer[w]), Elements(nonces[w]))
    BY DEF Flow, BatchIsNew, Uncommitted, ForwardAnswers, Before
  <2> QED BY <2>1, <2>2, <2>3, <2>4 DEF Before
<1>3. PICK all : all = buffer[w] \o artifacts
  OBVIOUS
<1>4. /\ all \in Seq(Int) /\ Len(all) \in Nat /\ InOrder(all)
      /\ Elements(all) = Elements(buffer[w]) \cup Elements(artifacts)
  BY <1>2, <1>3, ConcatProperties, ConcatElements, ConcatOrder
<1>5. PICK over \in 0 .. Len(all) :
        /\ buffer' = [buffer EXCEPT ![w] = SubSeq(all, over + 1, Len(all))]
        /\ dropped' = [dropped EXCEPT ![w] = dropped[w] \cup Elements(SubSeq(all, 1, over))]
        /\ rejected' = [rejected EXCEPT ![w] = rejected[w] \cup (Elements(nonces[w]) \ Elements(artifacts))]
  <2>1. PICK n : n = IF Len(all) > MaxArtifacts THEN Len(all) - MaxArtifacts ELSE 0
    OBVIOUS
  <2>2. n \in 0 .. Len(all)
    BY <1>4, <2>1, StreamAssumption
  <2> QED BY <1>1, <1>3, <2>1, <2>2 DEF add_artifacts
<1>6. w \in DOMAIN buffer /\ w \in DOMAIN dropped /\ w \in DOMAIN rejected
  BY DEF SInv, TypeOK, Carries, Loses
<1>7. /\ buffer'[w] = SubSeq(all, over + 1, Len(all))
      /\ dropped'[w] = dropped[w] \cup Elements(SubSeq(all, 1, over))
      /\ rejected'[w] = rejected[w] \cup (Elements(nonces[w]) \ Elements(artifacts))
  BY <1>5, <1>6
<1>8. /\ Elements(all) \subseteq Elements(SubSeq(all, 1, over)) \cup Elements(buffer'[w])
      /\ Elements(buffer'[w]) \subseteq Elements(all) /\ InOrder(buffer'[w])
  BY <1>4, <1>7, CutRest
<1> QED BY <1>2, <1>4, <1>7, <1>8

(* The generation task keeps the flow of its worker. *)
LEMMA GenFlow ==
  ASSUME SInv, NEW w \in Workers, Flow(w), GenStep(w) PROVE Flow(w)'
<1> USE FlowTypes
<1>1. UNCHANGED <<stopped, payload, got, givenUp>>
  BY DEF GenStep, Forward, ForwardAnswers, ForwardTimesOut, BackoffEnds, ForwardCrashes, ResetAnswers, GenFrame
<1>2. /\ w \in DOMAIN gen /\ w \in DOMAIN nonces /\ w \in DOMAIN pending /\ w \in DOMAIN x
  BY DEF SInv, TypeOK, Carries
<1>3. CASE Forward(w) /\ pending[w] # <<>>
  <2>1. /\ gen[w] = "loop" /\ gen'[w] = "forward" /\ UNCHANGED <<pending, x, buffer, dropped, rejected>>
        /\ nonces'[w] = pending[w] /\ pending[w] = nonces[w]
    BY <1>2, <1>3 DEF Forward, Flow, BatchIsNew
  <2>2. Taken(w)' = Taken(w) /\ Rest(w)' = Rest(w)
    BY <1>1, <2>1 DEF Taken, Rest
  <2> QED BY <1>1, <1>3, <2>1, <2>2 DEF Flow, Order, BatchIsNew, Uncommitted, Traced
<1>4. CASE Forward(w) /\ pending[w] = <<>>
  <2>1. /\ gen[w] = "loop" /\ gen'[w] = "forward" /\ UNCHANGED <<pending, buffer, dropped, rejected>>
        /\ nonces'[w] = take(w, BatchSize) /\ x'[w] = x[w] + BatchSize
    BY <1>2, <1>4 DEF Forward
  <2>2. /\ InOrder(nonces'[w]) /\ Before(Taken(w), Elements(nonces'[w]))
        /\ Taken(w)' \subseteq Taken(w) \cup Elements(nonces'[w])
    BY <2>1, TakeGoesOn, StreamAssumption
  <2>3. Rest(w)' = Rest(w)
    BY <1>1, <2>1 DEF Rest
  <2>4. Order(w)'
    BY <1>1, <2>1, <2>2 DEF Flow, Order
  <2>5. BatchIsNew(w)'
    <3>1. Elements(payload[w]) \cup Elements(got[w]) \cup Elements(buffer[w]) \subseteq Taken(w)
      BY DEF Rest
    <3>2. Before(Elements(payload[w]) \cup Elements(got[w]) \cup Elements(buffer[w]), Elements(nonces'[w]))
      BY <2>2, <3>1 DEF Before
    <3> QED BY <1>1, <1>4, <2>1, <3>2 DEF BatchIsNew
  <2>6. Traced(w)'
    BY <1>1, <1>4, <2>1, <2>2, <2>3 DEF Flow, Traced
  <2> QED BY <2>4, <2>5, <2>6 DEF Flow
<1>5. CASE ForwardAnswers(w)
  <2>1. /\ gen[w] = "forward" /\ gen'[w] = "loop" /\ pending'[w] = <<>> /\ UNCHANGED <<x, nonces>>
    BY <1>2, <1>5 DEF ForwardAnswers
  <2>2. /\ InOrder(buffer'[w])
        /\ Elements(buffer'[w]) \subseteq Elements(buffer[w]) \cup Elements(nonces[w])
        /\ Elements(buffer[w]) \cup Elements(nonces[w]) \subseteq Elements(buffer'[w]) \cup dropped'[w] \cup rejected'[w]
        /\ dropped[w] \subseteq dropped'[w] /\ rejected[w] \subseteq rejected'[w]
    BY <1>5, AddFlow
  <2>3. Taken(w)' = Taken(w)
    BY <2>1 DEF Taken
  <2>4. Before(Elements(payload[w]) \cup Elements(got[w]), Elements(nonces[w]))
    BY <2>1 DEF Flow, BatchIsNew, Uncommitted, Before
  <2>5. Before(Elements(payload[w]) \cup Elements(got[w]), Elements(buffer'[w]))
    BY <2>2, <2>4 DEF Flow, Order, Before
  <2>6. Order(w)'
    BY <1>1, <2>1, <2>2, <2>5 DEF Flow, Order
  <2>7. BatchIsNew(w)'
    BY <2>1 DEF BatchIsNew, Uncommitted
  <2>8. Rest(w) \cup Elements(nonces[w]) \subseteq Rest(w)'
    BY <1>1, <2>2 DEF Rest
  <2>9. Traced(w)'
    BY <1>1, <2>1, <2>3, <2>8 DEF Flow, Traced
  <2> QED BY <2>6, <2>7, <2>9 DEF Flow
<1>6. CASE ForwardTimesOut(w) \/ BackoffEnds(w) \/ ForwardCrashes(w) \/ ResetAnswers(w)
  <2>1. /\ UNCHANGED <<x, nonces, buffer, dropped, rejected>>
        /\ \/ gen[w] = "forward" /\ gen'[w] = "backoff" /\ pending'[w] = nonces[w]
           \/ gen[w] = "backoff" /\ gen'[w] = "loop" /\ pending' = pending
           \/ gen'[w] \in {"failReset", "done", "failed"} /\ pending' = pending
    BY <1>2, <1>6 DEF ForwardTimesOut, BackoffEnds, ForwardCrashes, ResetAnswers
  <2>2. Taken(w)' = Taken(w) /\ Rest(w)' = Rest(w)
    BY <1>1, <2>1 DEF Taken, Rest
  <2>3. Order(w)'
    BY <1>1, <2>1 DEF Flow, Order
  <2>4. BatchIsNew(w)'
    BY <1>1, <2>1 DEF Flow, BatchIsNew, Uncommitted
  <2>5. Traced(w)'
    BY <1>1, <2>1, <2>2, EmptyElements DEF Flow, Traced, BatchIsNew
  <2> QED BY <2>3, <2>4, <2>5 DEF Flow
<1> QED BY <1>3, <1>4, <1>5, <1>6 DEF GenStep

(* The callback task and the stops keep it: a payload leaves for the server as a whole. *)
LEMMA SendFlow ==
  ASSUME SInv, NEW w \in Workers, Flow(w), SendStep(w) \/ StopBegins(w) \/ StopEnds(w) PROVE Flow(w)'
<1> USE FlowTypes
<1>1. UNCHANGED <<x, nonces, pending, dropped, rejected>> /\ Taken(w)' = Taken(w)
  BY DEF SendStep, Post, PostSucceeds, PostFails, SenderStops, StopBegins, StopEnds, SendFrame, Taken
<1>2. w \in DOMAIN gen /\ w \in DOMAIN stopped /\ w \in DOMAIN buffer /\ w \in DOMAIN payload
      /\ w \in DOMAIN got /\ w \in DOMAIN givenUp
  BY DEF SInv, TypeOK, Carries, Loses
<1>3. CASE Post(w)
  <2>1. /\ UNCHANGED <<gen, stopped, got, givenUp>>
        /\ \/ payload[w] = <<>> /\ payload'[w] = buffer[w] /\ buffer'[w] = <<>>
           \/ UNCHANGED <<payload, buffer>>
    BY <1>2, <1>3 DEF Post, SendFrame
  <2>2. Rest(w)' = Rest(w)
    BY <1>1, <2>1, EmptyElements DEF Rest
  <2>3. Order(w)'
    BY <1>1, <2>1, EmptyElements DEF Flow, Order, Before
  <2>4. BatchIsNew(w)'
    BY <1>1, <2>1, EmptyElements DEF Flow, BatchIsNew, Uncommitted, Before
  <2>5. Traced(w)'
    BY <1>1, <2>1, <2>2 DEF Flow, Traced
  <2> QED BY <2>3, <2>4, <2>5 DEF Flow
\* The payload may reach the server, and may be settled.
<1>4. ASSUME UNCHANGED <<gen, stopped>>, got'[w] \in {got[w], got[w] \o payload[w]},
             UNCHANGED buffer \/ (buffer'[w] = <<>> /\ stopped[w]),
             \/ payload'[w] = payload[w] /\ UNCHANGED givenUp
             \/ payload'[w] = <<>> /\ (\/ stopped[w]
                                       \/ got'[w] = got[w] \o payload[w] /\ UNCHANGED givenUp
                                       \/ givenUp'[w] = givenUp[w] \cup Elements(payload[w]))
      PROVE  Flow(w)'
  <2>1. /\ Elements(got[w] \o payload[w]) = Elements(got[w]) \cup Elements(payload[w])
        /\ FirstSeen(got[w] \o payload[w])
    <3>1. Elements(got[w] \o payload[w]) = Elements(got[w]) \cup Elements(payload[w])
      BY ConcatElements
    <3>2. FirstSeen(got[w] \o payload[w])
      BY ConcatOrder DEF Flow, Order
    <3> QED BY <3>1, <3>2
  <2>2. /\ Elements(payload'[w]) \subseteq Elements(payload[w]) /\ InOrder(payload'[w])
        /\ Elements(buffer'[w]) \subseteq Elements(buffer[w]) /\ InOrder(buffer'[w])
        /\ Elements(got'[w]) \subseteq Elements(got[w]) \cup Elements(payload[w])
    BY <1>4, <2>1, EmptyElements DEF Flow, Order
  <2>3. FirstSeen(got'[w])
    BY <1>4, <2>1 DEF Flow, Order
  <2>4. \/ Before(Elements(got'[w]), Elements(payload'[w]))
        \/ Elements(payload'[w]) \subseteq Elements(got'[w])
    <3>1. CASE payload'[w] = <<>>
      BY <3>1, EmptyElements DEF Before
    <3>2. CASE payload'[w] = payload[w] /\ got'[w] = got[w]
      BY <3>2 DEF Flow, Order
    <3>3. CASE payload'[w] = payload[w] /\ got'[w] = got[w] \o payload[w]
      BY <2>1, <3>3
    <3> QED BY <1>4, <3>1, <3>2, <3>3
  <2>5. Order(w)'
    BY <1>1, <2>2, <2>3, <2>4 DEF Flow, Order, Before
  <2>6. BatchIsNew(w)'
    BY <1>1, <1>4, <2>2 DEF Flow, BatchIsNew, Uncommitted, Before
  <2>7. ~stopped[w] => Rest(w) \subseteq Rest(w)'
    BY <1>1, <1>4, <2>1, EmptyElements DEF Rest
  <2>8. Traced(w)'
    BY <1>1, <1>4, <2>7 DEF Flow, Traced
  <2> QED BY <2>5, <2>6, <2>8 DEF Flow
<1>5. CASE PostSucceeds(w)
  <2>1. /\ UNCHANGED <<gen, stopped, buffer, givenUp>> /\ got'[w] = got[w] \o payload[w] /\ payload'[w] = <<>>
    BY <1>2, <1>5 DEF PostSucceeds, Settled, SendFrame
  <2> QED BY <1>4, <2>1
<1>6. CASE PostFails(w)
  <2>1. /\ UNCHANGED <<gen, stopped, buffer>> /\ got'[w] \in {got[w], got[w] \o payload[w]}
        /\ \/ payload'[w] = payload[w] /\ UNCHANGED givenUp
           \/ payload'[w] = <<>> /\ givenUp'[w] = givenUp[w] \cup Elements(payload[w])
    BY <1>2, <1>6 DEF PostFails, Settled, SendFrame
  <2> QED BY <1>4, <2>1
<1>7. CASE SenderStops(w)
  BY <1>4, <1>7 DEF SenderStops, SendFrame
<1>8. CASE StopEnds(w)
  <2>1. /\ UNCHANGED <<gen, stopped>> /\ got'[w] \in {got[w], got[w] \o payload[w]} /\ stopped[w]
        /\ buffer'[w] = <<>> /\ payload'[w] = <<>>
    BY <1>2, <1>8 DEF StopEnds
  <2> QED BY <1>4, <2>1
<1>9. CASE StopBegins(w)
  <2>1. /\ UNCHANGED <<buffer, payload, got>> /\ stopped'[w] = TRUE
        /\ gen'[w] \in {"failed", "done", "reset"}
    BY <1>2, <1>9 DEF StopBegins
  <2> QED BY <1>1, <2>1 DEF Flow, Order, BatchIsNew, Uncommitted, Traced
<1> QED BY <1>3, <1>5, <1>6, <1>7, <1>8, <1>9 DEF SendStep

\* A step of one worker leaves the others' pipelines alone.
LEMMA OthersFlow ==
  ASSUME SInv, NEW w \in Workers, NEW v \in Workers, v # w, Flow(v),
         GenStep(w) \/ SendStep(w) \/ StopBegins(w) \/ StopEnds(w)
  PROVE  Flow(v)'
<1>1. /\ v \in DOMAIN x /\ v \in DOMAIN gen /\ v \in DOMAIN stopped /\ v \in DOMAIN nonces
      /\ v \in DOMAIN pending /\ v \in DOMAIN buffer /\ v \in DOMAIN payload /\ v \in DOMAIN got
      /\ v \in DOMAIN dropped /\ v \in DOMAIN givenUp /\ v \in DOMAIN rejected
  BY DEF SInv, TypeOK, Carries, Loses
<1>2. /\ x'[v] = x[v] /\ gen'[v] = gen[v] /\ stopped'[v] = stopped[v] /\ nonces'[v] = nonces[v]
      /\ pending'[v] = pending[v] /\ buffer'[v] = buffer[v] /\ payload'[v] = payload[v]
      /\ got'[v] = got[v] /\ dropped'[v] = dropped[v] /\ givenUp'[v] = givenUp[v]
      /\ rejected'[v] = rejected[v]
  <2>1. CASE GenStep(w)
    BY <1>1, <2>1 DEF GenStep, Forward, ForwardAnswers, ForwardTimesOut, BackoffEnds, ForwardCrashes,
       ResetAnswers, GenFrame, add_artifacts
  <2>2. CASE SendStep(w)
    BY <1>1, <2>2 DEF SendStep, Post, PostSucceeds, PostFails, SenderStops, SendFrame, Settled
  <2>3. CASE StopBegins(w) \/ StopEnds(w)
    BY <1>1, <2>3 DEF StopBegins, StopEnds
  <2> QED BY <2>1, <2>2, <2>3
<1>3. Taken(v)' = Taken(v) /\ Rest(v)' = Rest(v)
  BY <1>2 DEF Taken, Rest
<1> QED BY <1>2, <1>3 DEF Flow, Order, BatchIsNew, Uncommitted, Traced

LEMMA FlowInvariant == Spec => []FlowInv
<1>1. Init => \A w \in Workers : Flow(w)
  <2> SUFFICES ASSUME Init, NEW w \in Workers PROVE Flow(w)
    OBVIOUS
  <2>1. /\ nonces[w] = <<>> /\ pending[w] = <<>> /\ buffer[w] = <<>> /\ payload[w] = <<>> /\ got[w] = <<>>
        /\ gen[w] = "loop" /\ x[w] = 0
    BY DEF Init
  <2>2. Taken(w) = {}
    BY <2>1 DEF Taken
  <2>3. FirstSeen(<<>>)
    BY DEF FirstSeen
  <2> QED BY <2>1, <2>2, <2>3, EmptyElements DEF Flow, Order, BatchIsNew, Uncommitted, Traced, Before
<1>2. SInv /\ (\A w \in Workers : Flow(w)) /\ [Next]_vars => (\A w \in Workers : Flow(w))'
  <2> SUFFICES ASSUME SInv, \A w \in Workers : Flow(w), [Next]_vars, NEW v \in Workers PROVE Flow(v)'
    OBVIOUS
  <2>1. CASE UNCHANGED vars
    BY <2>1 DEF vars, Flow, Order, BatchIsNew, Uncommitted, Traced, Taken, Rest
  <2>2. ASSUME NEW w \in Workers, GenStep(w) \/ SendStep(w) \/ StopBegins(w) \/ StopEnds(w)
        PROVE  Flow(v)'
    BY <2>2, GenFlow, SendFlow, OthersFlow
  <2> QED BY <2>1, <2>2 DEF Next
<1> QED BY <1>1, <1>2, SInvInductive, PTL DEF Spec, FlowInv

(* Until a stop every nonce that was taken is being computed, waits, was sent, or was
   left out by one of the three rules; through timeouts, retries and full buffers of
   any size. *)
THEOREM NothingIsLost == Spec => []NothingVanishes
<1>1. FlowInv => NothingVanishes
  <2> SUFFICES ASSUME FlowInv, NEW w \in Workers, ~stopped[w]
               PROVE  Taken(w) = Elements(nonces[w]) \cup Rest(w)
    BY DEF NothingVanishes, Rest
  <2>1. Elements(nonces[w]) \cup Rest(w) \subseteq Taken(w)
    BY FlowTypes DEF FlowInv
  <2> QED BY <2>1 DEF FlowInv, Flow, Traced
<1> QED BY <1>1, FlowInvariant, PTL

(* A retried batch is neither buffered twice nor overtaken. *)
THEOREM PipelineOrdered == Spec => []PipelineInOrder
<1>1. FlowInv => PipelineInOrder
  <2> SUFFICES ASSUME FlowInv, NEW w \in Workers
               PROVE  InOrder(payload[w] \o buffer[w] \o (IF gen[w] = "forward" THEN nonces[w] ELSE <<>>))
    BY DEF PipelineInOrder
  <2>1. Flow(w) /\ payload[w] \in Seq(Int) /\ buffer[w] \in Seq(Int) /\ nonces[w] \in Seq(Int)
    BY FlowTypes DEF FlowInv
  <2>2. PICK sent : sent = payload[w] \o buffer[w]
    OBVIOUS
  <2>3. /\ sent \in Seq(Int) /\ InOrder(sent)
        /\ Elements(sent) = Elements(payload[w]) \cup Elements(buffer[w])
    <3>1. Before(Elements(payload[w]), Elements(buffer[w]))
      BY <2>1 DEF Flow, Order, Before
    <3> QED BY <2>1, <2>2, <3>1, ConcatProperties, ConcatElements, ConcatOrder DEF Flow, Order
  <2>4. PICK batch : batch = IF gen[w] = "forward" THEN nonces[w] ELSE <<>>
    OBVIOUS
  <2>5. batch \in Seq(Int) /\ InOrder(batch) /\ Before(Elements(sent), Elements(batch))
    BY <2>1, <2>3, <2>4, EmptyElements DEF Flow, Order, BatchIsNew, Uncommitted, Before
  <2>6. InOrder(sent \o batch)
    BY <2>3, <2>5, ConcatOrder
  <2> QED BY <2>2, <2>4, <2>6
<1> QED BY <1>1, FlowInvariant, PTL

(* The server never sees an artifact for the first time after a newer one. *)
THEOREM SeenInOrder == Spec => []FirstSeenInOrder
<1>1. FlowInv => FirstSeenInOrder
  BY DEF FlowInv, Flow, Order, FirstSeen, FirstSeenInOrder
<1> QED BY <1>1, FlowInvariant, PTL

================================================================================
