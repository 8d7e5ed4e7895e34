--------------------------- MODULE Validation_proofs ---------------------------
(* Proofs about a validation, the ranks below it and the random inputs they derive,   *)
(* for every grid of ranks, whatever arguments a rank is handed, whichever ranks      *)
(* raise, and whatever calls of mining and inference come between:                    *)
(*   - the seeded rows: no entry repeats, batched and single rows agree;               *)
(*   - the ranks of a stage work with the arguments of the call they are in;           *)
(*   - the types of the forward and of the handler;                                    *)
(*   - outside a forward no layer hook's flag is up, so inference is spared;           *)
(*   - what a call answers are reference vectors of its nonces, as long as fewer       *)
(*     ranks raised than a stage has: in every stage a rank is left that kept step,    *)
(*     so that no batch is left over in a channel for a later call;                    *)
(*   - then the verdict is right: every collected artifact has a position of the       *)
(*     request to itself, and the weight of "at least none differ" is that of the      *)
(*     whole binomial distribution.                                                    *)
EXTENDS Validation, Induction

(* Half the entries, rounded up, and their mirror image. *)
LEMMA PairsHalve ==
  ASSUME NEW n \in Nat
  PROVE  Pairs(n) \in Nat /\ 2 * Pairs(n) \in {n, n + 1}
<1>1. (n + 1) % 2 \in {0, 1} /\ (n + 1) \div 2 \in Nat
  OBVIOUS
<1>2. n + 1 = 2 * ((n + 1) \div 2) + ((n + 1) % 2)
  OBVIOUS
<1> QED BY <1>1, <1>2 DEF Pairs

(* _normal: every entry takes its radius from the first half of the row's draws and *)
(* its angle from the draw opposite, so what is drawn suffices (gpu_random.py:122). *)
THEOREM EntryHasItsDraws ==
  ASSUME NEW seed, NEW n \in Nat, NEW i \in 0..(n - 1)
  PROVE  \E r \in 0..(Pairs(n) - 1) :
           /\ Normal(seed, n)[i].u1 = Hash(seed, r)
           /\ Normal(seed, n)[i].u2 = Hash(seed, Pairs(n) + r)
           /\ Pairs(n) + r \in 0..(2 * Pairs(n) - 1)
<1> DEFINE P == Pairs(n)
<1>1. P \in Nat /\ 2 * P \in {n, n + 1}
  BY PairsHalve
<1> HIDE DEF P
<1>2. CASE i < P
  <2>1. Normal(seed, n)[i] = Entry(Hash(seed, i), Hash(seed, P + i), "cos")
    BY <1>2 DEF Normal, P
  <2>2. i \in 0..(P - 1) /\ P + i \in 0..(2 * P - 1)
    BY <1>1, <1>2
  <2> QED BY <2>1, <2>2 DEF Entry, P
<1>3. CASE ~(i < P)
  <2>1. Normal(seed, n)[i] = Entry(Hash(seed, i - P), Hash(seed, i), "sin")
    BY <1>3 DEF Normal, P
  <2>2. i - P \in 0..(P - 1) /\ P + (i - P) = i /\ i \in 0..(2 * P - 1)
    BY <1>1, <1>3
  <2> QED BY <2>1, <2>2 DEF Entry, P
<1> QED BY <1>2, <1>3

(* No entry of a row repeats another: they differ in a draw or in the branch. *)
THEOREM EntriesDiffer ==
  ASSUME NEW seed, NEW n \in Nat, NEW i \in 0..(n - 1), NEW j \in 0..(n - 1),
         Normal(seed, n)[i] = Normal(seed, n)[j]
  PROVE  i = j
<1> DEFINE P == Pairs(n)
<1>1. P \in Nat
  BY PairsHalve
<1> HIDE DEF P
<1>2. ASSUME NEW m \in 0..(n - 1)
      PROVE  Normal(seed, n)[m] =
               IF m < P THEN Entry(Hash(seed, m), Hash(seed, P + m), "cos")
               ELSE Entry(Hash(seed, m - P), Hash(seed, m), "sin")
  BY DEF Normal, P
<1>3. ASSUME NEW a, NEW b, NEW c, NEW d, NEW x, NEW y, Entry(a, b, x) = Entry(c, d, y)
      PROVE  a = c /\ b = d /\ x = y
  BY <1>3 DEF Entry
<1>4. ASSUME NEW a, NEW b, Hash(seed, a) = Hash(seed, b) PROVE a = b
  BY <1>4 DEF Hash
<1>5. CASE i < P /\ j < P
  <2>1. Hash(seed, i) = Hash(seed, j)
    BY <1>2, <1>3, <1>5
  <2> QED BY <2>1, <1>4
<1>6. CASE ~(i < P) /\ ~(j < P)
  <2>1. Hash(seed, i) = Hash(seed, j)
    BY <1>2, <1>3, <1>6
  <2> QED BY <2>1, <1>4
<1>7. CASE (i < P) # (j < P)
  <2>1. "cos" = "sin"
    BY <1>2, <1>3, <1>7
  <2> QED BY <2>1
<1> QED BY <1>5, <1>6, <1>7

(* _batched_normal computes row by row what _normal computes: the cut and the       *)
(* concatenation put every entry in its place, for odd lengths too.                 *)
THEOREM BatchIsRowByRow ==
  ASSUME NEW seeds, NEW n \in Nat, NEW b \in DOMAIN seeds
  PROVE  BatchedNormal(seeds, n)[b] = Normal(seeds[b], n)
<1> DEFINE P == Pairs(n)
           Row == [i \in 0..(n - 1) |->
                     IF i < P THEN Entry(Hash(seeds[b], i), Hash(seeds[b], P + i), "cos")
                     ELSE Entry(Hash(seeds[b], i - P), Hash(seeds[b], P + (i - P)), "sin")]
           U == [i \in 0..(2 * P - 1) |-> Hash(seeds[b], i)]
           Z0 == [i \in 0..(P - 1) |-> Entry(U[i], U[P + i], "cos")]
           Z1 == [i \in 0..(P - 1) |-> Entry(U[i], U[P + i], "sin")]
<1>1. P \in Nat /\ 2 * P \in {n, n + 1}
  BY PairsHalve
<1>2. BatchedNormal(seeds, n)[b] = [i \in 0..(n - 1) |-> IF i < P THEN Z0[i] ELSE Z1[i - P]]
  BY DEF BatchedNormal
<1> HIDE DEF P
<1>3. ASSUME NEW r \in 0..(P - 1) PROVE U[r] = Hash(seeds[b], r) /\ U[P + r] = Hash(seeds[b], P + r)
  <2>1. r \in 0..(2 * P - 1) /\ P + r \in 0..(2 * P - 1)
    BY <1>1
  <2> QED BY <2>1
<1>4. ASSUME NEW r \in 0..(P - 1)
      PROVE  /\ Z0[r] = Entry(Hash(seeds[b], r), Hash(seeds[b], P + r), "cos")
             /\ Z1[r] = Entry(Hash(seeds[b], r), Hash(seeds[b], P + r), "sin")
  <2> HIDE DEF U
  <2> QED BY <1>3
<1> HIDE DEF U, Z0, Z1
<1>5. ASSUME NEW i \in 0..(n - 1)
      PROVE  (IF i < P THEN Z0[i] ELSE Z1[i - P]) = Row[i]
  <2>1. CASE i < P
    <3>1. i \in 0..(P - 1)
      BY <1>1, <2>1
    <3> QED BY <1>4, <2>1, <3>1
  <2>2. CASE ~(i < P)
    <3>1. i - P \in 0..(P - 1)
      BY <1>1, <2>2
    <3>2. Z1[i - P] = Entry(Hash(seeds[b], i - P), Hash(seeds[b], P + (i - P)), "sin")
      BY <1>4, <3>1
    <3> QED BY <2>2, <3>2
  <2> QED BY <2>1, <2>2
<1>6. BatchedNormal(seeds, n)[b] = Row
  BY <1>2, <1>5
<1>7. ASSUME NEW i \in 0..(n - 1) PROVE P + (i - P) = i
  BY <1>1
<1>8. Row = Normal(seeds[b], n)
  BY <1>7 DEF Normal, P
<1> QED BY <1>6, <1>8

(* Of two different nonces no entry of the inputs is the same. *)
THEOREM NoncesDiffer ==
  ASSUME NEW block_hash, NEW public_key, NEW n \in Nat, NEW nonces,
         NEW i \in DOMAIN nonces, NEW j \in DOMAIN nonces, nonces[i] # nonces[j],
         NEW s \in 0..(n - 1), NEW t \in 0..(n - 1)
  PROVE  Inputs(block_hash, public_key, nonces, n)[i][s] # Inputs(block_hash, public_key, nonces, n)[j][t]
<1> DEFINE A == InputSeed(block_hash, public_key, nonces[i])
           B == InputSeed(block_hash, public_key, nonces[j])
<1>1. A # B
  BY DEF InputSeed
<1>2. /\ Inputs(block_hash, public_key, nonces, n)[i] = Normal(A, n)
      /\ Inputs(block_hash, public_key, nonces, n)[j] = Normal(B, n)
  BY DEF Inputs
<1> HIDE DEF A, B
<1>3. \E r : Normal(A, n)[s].u1 = Hash(A, r)
  BY EntryHasItsDraws
<1>4. \E r : Normal(B, n)[t].u1 = Hash(B, r)
  BY EntryHasItsDraws
<1>5. ASSUME NEW r, NEW q PROVE Hash(A, r) # Hash(B, q)
  BY <1>1 DEF Hash
<1> QED BY <1>2, <1>3, <1>4, <1>5

--------------------------------------------------------------------------------
(* The segments of generate_inputs_concat_murmur. *)

(* The quotient of a number and a positive divisor. *)
LEMMA Quotient ==
  ASSUME NEW a \in Nat, NEW d \in Nat \ {0}
  PROVE  /\ a \div d \in Nat
         /\ (a \div d) * d <= a
         /\ a < (a \div d) * d + d
         /\ a - (a \div d) * d \in 0..(d - 1)
<1> DEFINE q == a \div d
<1>1. q \in Nat /\ a % d \in 0..(d - 1) /\ a = (a % d) + q * d
  OBVIOUS
<1>2. q * d \in Nat
  BY <1>1
<1> HIDE DEF q
<1>3. q \in Nat /\ q * d <= a /\ a < q * d + d /\ a - q * d \in 0..(d - 1)
  BY <1>1, <1>2
<1> QED BY <1>3 DEF q

(* Eight segments of that length hold the row. *)
LEMMA EightSuffice ==
  ASSUME NEW n \in Nat \ {0}
  PROVE  SegmentLength(n) \in Nat \ {0} /\ n <= 8 * SegmentLength(n)
<1>1. (n + 7) \div 8 \in Nat /\ n + 7 = 8 * ((n + 7) \div 8) + ((n + 7) % 8) /\ (n + 7) % 8 \in 0..7
  OBVIOUS
<1> QED BY <1>1 DEF SegmentLength

(* Every entry of the row lies in one of the eight segments, at a place that the     *)
(* segment fills: the concatenation has exactly n entries (gpu_random.py:152).      *)
THEOREM SegmentsTile ==
  ASSUME NEW n \in Nat \ {0}, NEW i \in 0..(n - 1)
  PROVE  /\ SegmentOf(n, i) \in Segments(n)
         /\ i - SegmentOf(n, i) * SegmentLength(n) \in 0..(Filled(n, SegmentOf(n, i)) - 1)
<1> DEFINE L == SegmentLength(n)
           k == SegmentOf(n, i)
<1>1. L \in Nat \ {0} /\ n <= 8 * L
  BY EightSuffice
<1>2. k \in Nat /\ k * L <= i /\ i < k * L + L /\ i - k * L \in 0..(L - 1)
  <2>1. k = i \div L
    BY DEF SegmentOf
  <2> HIDE DEF L, k
  <2>2. i \in Nat
    OBVIOUS
  <2> QED BY <1>1, <2>1, <2>2, Quotient
<1> HIDE DEF L, k
<1>3. k * L \in Nat
  BY <1>1, <1>2
<1>4. k < 8
  <2>1. SUFFICES ASSUME k >= 8 PROVE FALSE
    BY <1>2
  <2>2. k * L = 8 * L + (k - 8) * L
    <3>1. k = 8 + (k - 8) /\ k - 8 \in Nat
      BY <1>2, <2>1
    <3>2. (8 + (k - 8)) * L = 8 * L + (k - 8) * L
      BY <1>1, <3>1
    <3> QED BY <3>1, <3>2
  <2>3. (k - 8) * L \in Nat
    <3>1. k - 8 \in Nat
      BY <1>2, <2>1
    <3> QED BY <1>1, <3>1
  <2> QED BY <1>1, <1>2, <2>2, <2>3
<1>5. k \in SubSeeds /\ k * L < n
  BY <1>2, <1>3, <1>4 DEF SubSeeds
<1>6. k \in Segments(n)
  BY <1>5 DEF Segments, L
<1>7. Filled(n, k) = IF L < n - k * L THEN L ELSE n - k * L
  BY DEF Filled, L
<1>8. i - k * L \in 0..(Filled(n, k) - 1)
  BY <1>1, <1>2, <1>3, <1>5, <1>7
<1> QED BY <1>6, <1>8 DEF k, L

(* No entry of a concatenated row repeats another, neither in its own segment nor    *)
(* in one of the other seven.                                                        *)
THEOREM ConcatEntriesDiffer ==
  ASSUME NEW seed, NEW n \in Nat \ {0}, NEW i \in 0..(n - 1), NEW j \in 0..(n - 1),
         ConcatNormal(seed, n)[i] = ConcatNormal(seed, n)[j]
  PROVE  i = j
<1> DEFINE L == SegmentLength(n)
           k(m) == SegmentOf(n, m)
           At(m) == m - k(m) * L
           F(m) == Filled(n, k(m))
<1>1. ASSUME NEW m \in 0..(n - 1)
      PROVE  /\ ConcatNormal(seed, n)[m] = Normal(<<seed, k(m)>>, F(m))[At(m)]
             /\ k(m) \in Nat /\ k(m) * L \in Nat
             /\ At(m) \in 0..(F(m) - 1) /\ F(m) \in Nat
  <2>1. ConcatNormal(seed, n)[m] = Normal(<<seed, k(m)>>, F(m))[At(m)]
    BY DEF ConcatNormal
  <2>2. L \in Nat \ {0}
    BY EightSuffice
  <2>3. k(m) \in Segments(n) /\ At(m) \in 0..(F(m) - 1)
    BY SegmentsTile
  <2>4. k(m) \in Nat
    BY <2>3 DEF Segments, SubSeeds
  <2> HIDE DEF L, k
  <2>5. k(m) * L \in Nat
    BY <2>2, <2>4
  <2>6. F(m) \in Int
    BY <2>2, <2>5 DEF Filled, L
  <2> HIDE DEF At, F
  <2>7. F(m) \in Nat
    BY <2>3, <2>6
  <2> QED BY <2>1, <2>3, <2>4, <2>5, <2>7
<1> HIDE DEF L, k, F
<1>2. k(i) = k(j)
  <2> HIDE DEF At
  <2>1. \E r : Normal(<<seed, k(i)>>, F(i))[At(i)].u1 = Hash(<<seed, k(i)>>, r)
    BY <1>1, EntryHasItsDraws
  <2>2. \E r : Normal(<<seed, k(j)>>, F(j))[At(j)].u1 = Hash(<<seed, k(j)>>, r)
    BY <1>1, EntryHasItsDraws
  <2>3. ASSUME NEW r, NEW q, Hash(<<seed, k(i)>>, r) = Hash(<<seed, k(j)>>, q) PROVE k(i) = k(j)
    BY <2>3 DEF Hash
  <2> QED BY <1>1, <2>1, <2>2, <2>3
<1>3. F(i) = F(j)
  BY <1>2 DEF F
<1>4. At(i) = At(j)
  <2>1. At(i) \in 0..(F(i) - 1) /\ At(j) \in 0..(F(i) - 1) /\ F(i) \in Nat
    BY <1>1, <1>3
  <2>2. Normal(<<seed, k(i)>>, F(i))[At(i)] = Normal(<<seed, k(i)>>, F(i))[At(j)]
    BY <1>1, <1>2, <1>3
  <2> HIDE DEF At
  <2> QED BY <2>1, <2>2, EntriesDiffer
<1>5. k(i) * L = k(j) * L /\ k(i) * L \in Nat
  BY <1>1, <1>2
<1>6. i - k(i) * L = j - k(j) * L
  BY <1>4
<1> QED BY <1>5, <1>6

--------------------------------------------------------------------------------
(* Which call each rank is in, and what it was handed. *)

Entering == {"idle", "barrier"}
Syncing == {"receive", "barrier2"}
Working == {"synced", "ready", "forward", "computed"}

CallArgs(r) == [nonces |-> Call(r).nonces, lease |-> Call(r).lease]

(* How many calls a rank has entered with its stage: both barriers count. *)
Turn(r) == IF pc[r] \in Entering THEN Number(r) - 1 ELSE Number(r)

Lists ==
  /\ \E S : calls \in Seq(S)
  /\ \E S : returned \in [Ranks -> Seq(S)]

Shapes == pc \in [Ranks -> Points] /\ DOMAIN args = Ranks

Busy == \A r \in Ranks : pc[r] # "idle" => Number(r) \in DOMAIN calls

(* The ranks of a stage are in the same turn, and between the barriers together. *)
InStep ==
  \A r, s \in Ranks : r[2] = s[2] =>
    Turn(r) = Turn(s) /\ (pc[r] \in Syncing <=> pc[s] \in Syncing)

Handed ==
  \A r \in Ranks :
    pc[r] \in Agreed \/ (r = Driver(r) /\ pc[r] # "idle") => args[r] = CallArgs(r)

DriverSends == \A r \in Ranks : pc[r] = "receive" => r # Driver(r)

RanksInv == Lists /\ Shapes /\ Busy /\ InStep /\ Handed /\ DriverSends

--------------------------------------------------------------------------------
(* What appending a call, a result or a batch leaves as it is. *)

LEMMA Appended ==
  ASSUME NEW S, NEW s \in Seq(S), NEW x
  PROVE  /\ Append(s, x) \in Seq(S \cup {x})
         /\ Len(Append(s, x)) = Len(s) + 1
         /\ \A i \in 1..Len(s) : Append(s, x)[i] = s[i]
<1>1. s \in Seq(S \cup {x}) /\ x \in S \cup {x}
  BY SeqDef
<1> QED BY <1>1, AppendProperties

(* A stage has one driver, which is a rank of the stage. *)
LEMMA Drivers ==
  ASSUME NEW r \in Ranks
  PROVE  /\ Driver(r) \in Ranks /\ Driver(r)[2] = r[2] /\ Driver(Driver(r)) = Driver(r)
         /\ Tp = 1 => r = Driver(r) /\ \A s \in Ranks : s[2] = r[2] => s = r
<1>1. Tp \in Nat \ {0}
  BY ForwardAssumption
<1>2. \A s \in Ranks : s = <<s[1], s[2]>> /\ s[1] \in 0..(Tp - 1) /\ s[2] \in Stages
  BY DEF Ranks
<1>3. Driver(r) \in Ranks /\ Driver(r)[2] = r[2] /\ Driver(r)[1] = 0
  BY <1>1, <1>2 DEF Driver, Ranks
<1>4. Tp = 1 => \A s \in Ranks : s[1] = 0
  BY <1>2
<1> QED BY <1>2, <1>3, <1>4 DEF Driver

LEMMA Counting ==
  ASSUME Lists, NEW r \in Ranks
  PROVE  Number(r) \in Nat \ {0} /\ Len(calls) \in Nat /\ DOMAIN calls = 1..Len(calls)
<1>1. PICK S : returned \in [Ranks -> Seq(S)]
  BY DEF Lists
<1>2. PICK T : calls \in Seq(T)
  BY DEF Lists
<1>3. returned[r] \in Seq(S)
  BY <1>1
<1>4. Len(returned[r]) \in Nat
  BY <1>3
<1> QED BY <1>2, <1>4 DEF Number

(* A rank that returns has one result more; the others have what they had. *)
LEMMA ReturnCounts ==
  ASSUME Lists, NEW r \in Ranks, NEW result, calls' = calls,
         returned' = [returned EXCEPT ![r] = Append(@, result)]
  PROVE  /\ Lists'
         /\ Number(r)' = Number(r) + 1
         /\ \A s \in Ranks : s # r => Number(s)' = Number(s)
<1>1. PICK S : returned \in [Ranks -> Seq(S)]
  BY DEF Lists
<1>2. /\ Append(returned[r], result) \in Seq(S \cup {result})
      /\ Len(Append(returned[r], result)) = Len(returned[r]) + 1
  BY <1>1, Appended
<1>3. ASSUME NEW s \in Ranks PROVE returned[s] \in Seq(S \cup {result})
  <2>1. returned[s] \in Seq(S)
    BY <1>1
  <2> QED BY <2>1, SeqDef
<1>4. returned' \in [Ranks -> Seq(S \cup {result})]
  BY <1>1, <1>2, <1>3
<1>5. Lists'
  BY <1>4 DEF Lists
<1>6. Number(r)' = Number(r) + 1
  BY <1>1, <1>2 DEF Number
<1>7. \A s \in Ranks : s # r => Number(s)' = Number(s)
  BY <1>1 DEF Number
<1> QED BY <1>5, <1>6, <1>7

(* The same for all ranks of a stage at once. *)
LEMMA StageReturnCounts ==
  ASSUME Lists, NEW p \in Stages, NEW result, calls' = calls,
         returned' = [r \in Ranks |->
           IF r[2] = p THEN Append(returned[r], result[r]) ELSE returned[r]]
  PROVE  /\ Lists'
         /\ \A r \in Ranks : Number(r)' = IF r[2] = p THEN Number(r) + 1 ELSE Number(r)
<1>1. PICK S : returned \in [Ranks -> Seq(S)]
  BY DEF Lists
<1> DEFINE T == S \cup {result[r] : r \in Ranks}
<1>2. ASSUME NEW r \in Ranks
      PROVE  /\ returned[r] \in Seq(T)
             /\ Append(returned[r], result[r]) \in Seq(T)
             /\ Len(Append(returned[r], result[r])) = Len(returned[r]) + 1
  <2>1. returned[r] \in Seq(S)
    BY <1>1
  <2>2. returned[r] \in Seq(T)
    BY <2>1, SeqDef
  <2>3. result[r] \in T
    OBVIOUS
  <2> HIDE DEF T
  <2> QED BY <2>2, <2>3, AppendProperties
<1> HIDE DEF T
<1>3. returned' \in [Ranks -> Seq(T)]
  BY <1>2
<1>4. Lists'
  BY <1>3 DEF Lists
<1>5. ASSUME NEW r \in Ranks PROVE Number(r)' = IF r[2] = p THEN Number(r) + 1 ELSE Number(r)
  BY <1>2 DEF Number
<1> QED BY <1>4, <1>5
--------------------------------------------------------------------------------
(* The engine core's part. *)

LEMMA SendKeeps ==
  ASSUME RanksInv, NEW call, calls' = Append(calls, call), UNCHANGED <<pc, args, returned>>
  PROVE  RanksInv'
<1>1. PICK S : calls \in Seq(S)
  BY DEF RanksInv, Lists
<1>2. /\ calls' \in Seq(S \cup {call})
      /\ Len(calls') = Len(calls) + 1
      /\ \A i \in 1..Len(calls) : calls'[i] = calls[i]
  BY <1>1, Appended
<1>3. Lists'
  BY <1>2 DEF RanksInv, Lists
<1>4. ASSUME NEW r \in Ranks
      PROVE  /\ Number(r)' = Number(r) /\ Turn(r)' = Turn(r) /\ Driver(r)' = Driver(r)
             /\ Number(r) \in DOMAIN calls =>
                  Number(r) \in DOMAIN calls' /\ CallArgs(r)' = CallArgs(r)
  <2>1. Number(r)' = Number(r) /\ Turn(r)' = Turn(r)
    BY DEF Number, Turn
  <2>2. Driver(r)' = Driver(r)
    BY DEF Driver
  <2>3. ASSUME Number(r) \in DOMAIN calls
        PROVE  Number(r) \in DOMAIN calls' /\ calls'[Number(r)] = calls[Number(r)]
    BY <1>1, <1>2, <2>3
  <2>4. ASSUME Number(r) \in DOMAIN calls PROVE CallArgs(r)' = CallArgs(r)
    BY <2>1, <2>3, <2>4 DEF CallArgs, Call
  <2> QED BY <2>1, <2>2, <2>3, <2>4
<1>5. Shapes' /\ InStep' /\ DriverSends'
  BY <1>4 DEF RanksInv, Shapes, InStep, DriverSends
<1>6. Busy'
  BY <1>4 DEF RanksInv, Busy
<1>7. Handed'
  <2>1. ASSUME NEW r \in Ranks, pc[r] # "idle", args[r] = CallArgs(r) PROVE args'[r] = CallArgs(r)'
    BY <1>4, <2>1 DEF RanksInv, Busy
  <2>2. ASSUME NEW r \in Ranks, pc[r] \in Agreed PROVE pc[r] # "idle"
    BY <2>2 DEF Agreed
  <2> QED BY <1>4, <2>1, <2>2 DEF RanksInv, Handed
<1> QED BY <1>3, <1>5, <1>6, <1>7 DEF RanksInv

--------------------------------------------------------------------------------
(* The steps of one rank. *)

(* What a step that leaves calls and results alone leaves alone. *)
LEMMA Still ==
  ASSUME UNCHANGED <<calls, returned>>, NEW r
  PROVE  Number(r)' = Number(r) /\ CallArgs(r)' = CallArgs(r) /\ (Lists => Lists')
BY DEF Number, CallArgs, Call, Lists

LEMMA BeginKeeps == ASSUME RanksInv, NEW r \in Ranks, Begin(r) PROVE RanksInv'
<1>1. /\ pc[r] = "idle" /\ Number(r) \in DOMAIN calls
      /\ UNCHANGED <<calls, returned>>
      /\ pc' = [pc EXCEPT ![r] = IF Tp > 1 THEN "barrier" ELSE "synced"]
      /\ DOMAIN args' = Ranks /\ \A s \in Ranks : s # r => args'[s] = args[s]
      /\ r = Driver(r) => args'[r] = CallArgs(r)
  BY DEF Begin, Goto, RanksInv, Shapes, CallArgs
<1>2. Tp \in Nat \ {0} /\ pc \in [Ranks -> Points]
  BY ForwardAssumption DEF RanksInv, Shapes
<1>3. \A s \in Ranks : Number(s)' = Number(s) /\ CallArgs(s)' = CallArgs(s) /\ Number(s) \in Nat
  BY <1>1, Still, Counting DEF RanksInv
<1>4. Lists'
  BY <1>1, Still DEF RanksInv
<1>5. \A s \in Ranks : s # r => pc'[s] = pc[s]
  BY <1>1, <1>2
<1>6. CASE Tp > 1
  <2>1. pc'[r] = "barrier" /\ pc' \in [Ranks -> Points]
    BY <1>1, <1>2, <1>6 DEF Points
  <2>2. Shapes' /\ Busy' /\ DriverSends'
    BY <1>1, <1>3, <1>5, <2>1 DEF RanksInv, Shapes, Busy, DriverSends
  <2>3. Handed'
    BY <1>1, <1>3, <1>5, <2>1 DEF RanksInv, Handed, Agreed
  <2>4. \A s \in Ranks : Turn(s)' = Turn(s) /\ (pc'[s] \in Syncing <=> pc[s] \in Syncing)
    BY <1>1, <1>3, <1>5, <2>1 DEF Turn, Entering, Syncing
  <2>5. InStep'
    BY <2>4 DEF RanksInv, InStep
  <2> QED BY <1>4, <2>2, <2>3, <2>5 DEF RanksInv
<1>7. CASE Tp = 1
  <2>1. pc'[r] = "synced" /\ pc' \in [Ranks -> Points]
    BY <1>1, <1>2, <1>7 DEF Points
  <2>2. r = Driver(r) /\ \A s \in Ranks : s[2] = r[2] => s = r
    BY <1>7, Drivers
  <2>3. Shapes' /\ Busy' /\ DriverSends'
    BY <1>1, <1>3, <1>5, <2>1 DEF RanksInv, Shapes, Busy, DriverSends
  <2>4. Handed'
    BY <1>1, <1>3, <1>5, <2>1, <2>2 DEF RanksInv, Handed, Agreed
  <2>5. \A s \in Ranks : s # r => Turn(s)' = Turn(s) /\ (pc'[s] \in Syncing <=> pc[s] \in Syncing)
    BY <1>3, <1>5 DEF Turn
  <2>6. InStep'
    BY <2>2, <2>5 DEF RanksInv, InStep
  <2> QED BY <1>4, <2>3, <2>4, <2>6 DEF RanksInv
<1> QED BY <1>2, <1>6, <1>7

LEMMA ReceiveKeeps == ASSUME RanksInv, NEW r \in Ranks, Receive(r) PROVE RanksInv'
<1>1. /\ pc[r] = "receive" /\ UNCHANGED <<calls, returned>>
      /\ pc \in [Ranks -> Points] /\ pc' = [pc EXCEPT ![r] = "barrier2"]
      /\ DOMAIN args = Ranks /\ args' = [args EXCEPT ![r] = args[Driver(r)]]
  BY DEF Receive, Goto, RanksInv, Shapes
<1>2. /\ pc'[r] = "barrier2" /\ pc' \in [Ranks -> Points] /\ DOMAIN args' = Ranks
      /\ \A s \in Ranks : s # r => pc'[s] = pc[s] /\ args'[s] = args[s]
      /\ args'[r] = args[Driver(r)]
  BY <1>1 DEF Points
<1>3. \A s \in Ranks : Number(s)' = Number(s) /\ CallArgs(s)' = CallArgs(s)
  BY <1>1, Still
<1>4. Lists'
  BY <1>1, Still DEF RanksInv
<1>5. args[Driver(r)] = CallArgs(r)
  <2>1. /\ Driver(r) \in Ranks /\ Driver(r) = Driver(Driver(r)) /\ Driver(r)[2] = r[2]
    BY Drivers
  <2>2. pc[r] \in Syncing
    BY <1>1 DEF Syncing
  <2>3. pc[Driver(r)] \in Syncing /\ Turn(Driver(r)) = Turn(r)
    BY <2>1, <2>2 DEF RanksInv, InStep
  <2>4. Number(Driver(r)) = Number(r)
    BY <2>2, <2>3 DEF Turn, Entering, Syncing
  <2>5. CallArgs(Driver(r)) = CallArgs(r)
    BY <2>4 DEF CallArgs, Call
  <2>6. pc[Driver(r)] # "idle"
    BY <2>3 DEF Syncing
  <2> QED BY <2>1, <2>5, <2>6 DEF RanksInv, Handed
<1>6. Shapes' /\ Busy' /\ DriverSends'
  BY <1>1, <1>2, <1>3 DEF RanksInv, Shapes, Busy, DriverSends
<1>7. Handed'
  BY <1>2, <1>3, <1>5 DEF RanksInv, Handed
<1>8. \A s \in Ranks : Turn(s)' = Turn(s) /\ (pc'[s] \in Syncing <=> pc[s] \in Syncing)
  BY <1>1, <1>2, <1>3 DEF Turn, Entering, Syncing
<1>9. InStep'
  BY <1>8 DEF RanksInv, InStep
<1> QED BY <1>4, <1>6, <1>7, <1>9 DEF RanksInv

(* A rank goes on with its call after the second barrier. *)
LEMMA AdvanceKeeps ==
  ASSUME RanksInv, NEW r \in Ranks, pc[r] \in {"synced", "ready"}, NEW there \in {"ready", "forward"},
         Goto(r, there), UNCHANGED <<calls, returned, args>>
  PROVE  RanksInv'
<1>1. /\ pc[r] \in {"synced", "ready"} /\ UNCHANGED <<calls, returned, args>>
      /\ pc \in [Ranks -> Points] /\ pc' = [pc EXCEPT ![r] = there]
  BY DEF Goto, RanksInv, Shapes
<1>2. /\ pc'[r] \in {"ready", "forward"} /\ pc' \in [Ranks -> Points]
      /\ \A s \in Ranks : s # r => pc'[s] = pc[s]
  BY <1>1 DEF Points
<1>3. \A s \in Ranks : Number(s)' = Number(s) /\ CallArgs(s)' = CallArgs(s)
  BY <1>1, Still
<1>4. Lists'
  BY <1>1, Still DEF RanksInv
<1>5. Shapes' /\ Busy' /\ DriverSends'
  BY <1>1, <1>2, <1>3 DEF RanksInv, Shapes, Busy, DriverSends
<1>6. Handed'
  <2>1. pc[r] \in Agreed
    BY <1>1 DEF Agreed
  <2>2. args[r] = CallArgs(r)
    BY <2>1 DEF RanksInv, Handed
  <2> QED BY <1>1, <1>2, <1>3, <2>2 DEF RanksInv, Handed
<1>7. \A s \in Ranks : Turn(s)' = Turn(s) /\ (pc'[s] \in Syncing <=> pc[s] \in Syncing)
  BY <1>1, <1>2, <1>3 DEF Turn, Entering, Syncing
<1>8. InStep'
  BY <1>7 DEF RanksInv, InStep
<1> QED BY <1>4, <1>5, <1>6, <1>8 DEF RanksInv

(* A rank that returns, or raises, after the second barrier is ready for the next call. *)
LEMMA ReturnKeeps ==
  ASSUME RanksInv, NEW r \in Ranks, NEW result, pc[r] \in Working, Return(r, result),
         calls' = calls
  PROVE  RanksInv'
<1>1. /\ returned' = [returned EXCEPT ![r] = Append(@, result)]
      /\ pc \in [Ranks -> Points] /\ pc' = [pc EXCEPT ![r] = "idle"]
      /\ DOMAIN args = Ranks /\ args' = [args EXCEPT ![r] = NoArgs]
  BY DEF Return, Goto, RanksInv, Shapes
<1>2. /\ pc'[r] = "idle" /\ pc' \in [Ranks -> Points] /\ DOMAIN args' = Ranks
      /\ \A s \in Ranks : s # r => pc'[s] = pc[s] /\ args'[s] = args[s]
  BY <1>1 DEF Points
<1>3. /\ Lists' /\ Number(r)' = Number(r) + 1
      /\ \A s \in Ranks : s # r => Number(s)' = Number(s)
  BY <1>1, ReturnCounts DEF RanksInv
<1>4. \A s \in Ranks : s # r => CallArgs(s)' = CallArgs(s)
  BY <1>3 DEF CallArgs, Call
<1>5. Number(r) \in Nat
  BY Counting DEF RanksInv
<1>6. Shapes' /\ Busy' /\ DriverSends'
  BY <1>2, <1>3 DEF RanksInv, Shapes, Busy, DriverSends
<1>7. Handed'
  BY <1>2, <1>4 DEF RanksInv, Handed, Agreed
<1>8. Turn(r)' = Turn(r) /\ (pc'[r] \in Syncing <=> pc[r] \in Syncing)
  BY <1>2, <1>3, <1>5 DEF Turn, Entering, Syncing, Working
<1>9. \A s \in Ranks : s # r => Turn(s)' = Turn(s) /\ (pc'[s] \in Syncing <=> pc[s] \in Syncing)
  BY <1>2, <1>3 DEF Turn
<1>10. InStep'
  BY <1>8, <1>9 DEF RanksInv, InStep
<1> QED BY <1>3, <1>6, <1>7, <1>10 DEF RanksInv

--------------------------------------------------------------------------------
(* The steps of a stage. *)

LEMMA BarrierKeeps == ASSUME RanksInv, NEW p \in Stages, Barrier(p) PROVE RanksInv'
<1>1. /\ \A r \in Ranks : r[2] = p => pc[r] = "barrier"
      /\ UNCHANGED <<calls, returned, args>> /\ pc \in [Ranks -> Points]
      /\ pc' = [r \in Ranks |->
           IF r[2] # p THEN pc[r] ELSE IF r = Driver(r) THEN "barrier2" ELSE "receive"]
  BY DEF Barrier, StageAt, StageRanks, RanksInv, Shapes
<1>2. \A s \in Ranks : Number(s)' = Number(s) /\ CallArgs(s)' = CallArgs(s) /\ Number(s) \in Nat
  BY <1>1, Still, Counting DEF RanksInv
<1>3. Lists'
  BY <1>1, Still DEF RanksInv
<1>4. Shapes' /\ Busy' /\ DriverSends'
  BY <1>1, <1>2 DEF RanksInv, Shapes, Busy, DriverSends, Points
<1>5. Handed'
  BY <1>1, <1>2 DEF RanksInv, Handed, Agreed
<1>6. ASSUME NEW s \in Ranks
      PROVE  /\ s[2] # p => Turn(s)' = Turn(s) /\ (pc'[s] \in Syncing <=> pc[s] \in Syncing)
             /\ s[2] = p => Turn(s)' = Turn(s) + 1 /\ pc'[s] \in Syncing
  BY <1>1, <1>2 DEF Turn, Entering, Syncing
<1>7. InStep'
  BY <1>6 DEF RanksInv, InStep
<1> QED BY <1>3, <1>4, <1>5, <1>7 DEF RanksInv

LEMMA Barrier2Keeps == ASSUME RanksInv, NEW p \in Stages, Barrier2(p) PROVE RanksInv'
<1>1. /\ \A r \in Ranks : r[2] = p => pc[r] = "barrier2"
      /\ UNCHANGED <<calls, returned, args>> /\ pc \in [Ranks -> Points]
      /\ pc' = [r \in Ranks |-> IF r[2] = p THEN "synced" ELSE pc[r]]
  BY DEF Barrier2, StageAt, StageGoes, StageRanks, RanksInv, Shapes
<1>2. \A s \in Ranks : Number(s)' = Number(s) /\ CallArgs(s)' = CallArgs(s)
  BY <1>1, Still
<1>3. Lists'
  BY <1>1, Still DEF RanksInv
<1>4. Shapes' /\ Busy' /\ DriverSends'
  BY <1>1, <1>2 DEF RanksInv, Shapes, Busy, DriverSends, Points
<1>5. Handed'
  BY <1>1, <1>2 DEF RanksInv, Handed, Agreed
<1>6. ASSUME NEW s \in Ranks
      PROVE  /\ Turn(s)' = Turn(s)
             /\ s[2] # p => (pc'[s] \in Syncing <=> pc[s] \in Syncing)
             /\ s[2] = p => pc'[s] \notin Syncing
  BY <1>1, <1>2 DEF Turn, Entering, Syncing
<1>7. InStep'
  BY <1>6 DEF RanksInv, InStep
<1> QED BY <1>3, <1>4, <1>5, <1>7 DEF RanksInv

LEMMA ModelKeeps == ASSUME RanksInv, NEW p \in Stages, Model(p) PROVE RanksInv'
<1>1. /\ \A r \in Ranks : r[2] = p => pc[r] = "forward"
      /\ calls' = calls /\ pc \in [Ranks -> Points]
  BY DEF Model, StageAt, StageRanks, RanksInv, Shapes
<1>2. CASE p = Pp - 1
  <2>1. /\ pc' = [r \in Ranks |-> IF r[2] = p THEN "computed" ELSE pc[r]]
        /\ UNCHANGED <<returned, args>>
    BY <1>2 DEF Model, StageGoes
  <2>2. \A s \in Ranks : Number(s)' = Number(s) /\ CallArgs(s)' = CallArgs(s)
    BY <1>1, <2>1, Still
  <2>3. Lists'
    BY <1>1, <2>1, Still DEF RanksInv
  <2>4. Shapes' /\ Busy' /\ DriverSends'
    BY <1>1, <2>1, <2>2 DEF RanksInv, Shapes, Busy, DriverSends, Points
  <2>5. Handed'
    BY <1>1, <2>1, <2>2 DEF RanksInv, Handed, Agreed
  <2>6. \A s \in Ranks : Turn(s)' = Turn(s) /\ (pc'[s] \in Syncing <=> pc[s] \in Syncing)
    BY <1>1, <2>1, <2>2 DEF Turn, Entering, Syncing
  <2>7. InStep'
    BY <2>6 DEF RanksInv, InStep
  <2> QED BY <2>3, <2>4, <2>5, <2>7 DEF RanksInv
<1>3. CASE p # Pp - 1
  <2> DEFINE result == [r \in Ranks |-> Artifacts(<<>>)]
  <2>1. /\ pc' = [r \in Ranks |-> IF r[2] = p THEN "idle" ELSE pc[r]]
        /\ args' = [r \in Ranks |-> IF r[2] = p THEN NoArgs ELSE args[r]]
        /\ returned' = [r \in Ranks |->
             IF r[2] = p THEN Append(returned[r], result[r]) ELSE returned[r]]
    BY <1>3 DEF Model, StageGoes
  <2> HIDE DEF result
  <2>2. /\ Lists'
        /\ \A r \in Ranks : Number(r)' = IF r[2] = p THEN Number(r) + 1 ELSE Number(r)
    BY <1>1, <2>1, StageReturnCounts DEF RanksInv
  <2>3. \A s \in Ranks : s[2] # p => CallArgs(s)' = CallArgs(s)
    BY <1>1, <2>2 DEF CallArgs, Call
  <2>4. \A s \in Ranks : Number(s) \in Nat
    BY Counting DEF RanksInv
  <2>5. Shapes' /\ Busy' /\ DriverSends'
    BY <1>1, <2>1, <2>2 DEF RanksInv, Shapes, Busy, DriverSends, Points
  <2>6. Handed'
    BY <1>1, <2>1, <2>3 DEF RanksInv, Handed, Agreed
  <2>7. \A s \in Ranks : Turn(s)' = Turn(s) /\ (pc'[s] \in Syncing <=> pc[s] \in Syncing)
    BY <1>1, <2>1, <2>2, <2>4 DEF Turn, Entering, Syncing
  <2>8. InStep'
    BY <2>7 DEF RanksInv, InStep
  <2> QED BY <2>2, <2>5, <2>6, <2>8 DEF RanksInv
<1> QED BY <1>2, <1>3

LEMMA InferenceKeeps == ASSUME RanksInv, NEW p \in Stages, InferenceStep(p) PROVE RanksInv'
<1> DEFINE result == [r \in Ranks |-> Inference(Reflections(r) = <<>>)]
<1>1. /\ \A r \in Ranks : r[2] = p => pc[r] = "idle"
      /\ UNCHANGED <<calls, pc, args>>
      /\ returned' = [r \in Ranks |->
           IF r[2] = p THEN Append(returned[r], result[r]) ELSE returned[r]]
  BY DEF InferenceStep, StageAt, StageRanks
<1> HIDE DEF result
<1>2. /\ Lists'
      /\ \A r \in Ranks : Number(r)' = IF r[2] = p THEN Number(r) + 1 ELSE Number(r)
  BY <1>1, StageReturnCounts DEF RanksInv
<1>3. \A s \in Ranks : s[2] # p => CallArgs(s)' = CallArgs(s)
  BY <1>1, <1>2 DEF CallArgs, Call
<1>4. \A s \in Ranks : Number(s) \in Nat
  BY Counting DEF RanksInv
<1>5. Shapes' /\ Busy' /\ DriverSends'
  BY <1>1, <1>2 DEF RanksInv, Shapes, Busy, DriverSends
<1>6. Handed'
  BY <1>1, <1>3 DEF RanksInv, Handed, Agreed
<1>7. \A s \in Ranks : Turn(s)' = IF s[2] = p THEN Turn(s) + 1 ELSE Turn(s)
  <2>1. ASSUME NEW s \in Ranks, s[2] = p PROVE Turn(s)' = Turn(s) + 1
    <3>1. pc[s] \in Entering /\ pc' = pc
      BY <1>1, <2>1 DEF Entering
    <3>2. Turn(s) = Number(s) - 1 /\ Turn(s)' = Number(s)' - 1
      BY <3>1 DEF Turn
    <3>3. Number(s)' = Number(s) + 1 /\ Number(s) \in Nat
      BY <1>2, <1>4, <2>1
    <3> QED BY <3>2, <3>3
  <2>2. ASSUME NEW s \in Ranks, s[2] # p PROVE Turn(s)' = Turn(s)
    BY <1>1, <1>2, <2>2 DEF Turn
  <2> QED BY <2>1, <2>2
<1>8. InStep'
  BY <1>1, <1>7 DEF RanksInv, InStep
<1> QED BY <1>2, <1>5, <1>6, <1>8 DEF RanksInv

--------------------------------------------------------------------------------
(* The ranks agree. *)

LEMMA RanksInvInit == Init => RanksInv
<1> SUFFICES ASSUME Init PROVE RanksInv
  OBVIOUS
<1>1. /\ calls = <<>> /\ returned = [r \in Ranks |-> <<>>]
      /\ pc = [r \in Ranks |-> "idle"] /\ args = [r \in Ranks |-> NoArgs]
  BY DEF Init, ForwardInit
<1>2. Lists
  BY <1>1 DEF Lists
<1>3. Shapes /\ Busy /\ Handed /\ DriverSends
  BY <1>1 DEF Shapes, Points, Busy, Handed, Agreed, DriverSends
<1>4. \A r \in Ranks : Turn(r) = 0 /\ pc[r] \notin Syncing
  BY <1>1 DEF Turn, Number, Entering, Syncing
<1>5. InStep
  BY <1>4 DEF InStep
<1> QED BY <1>2, <1>3, <1>5 DEF RanksInv

LEMMA ForwardStepKeeps == RanksInv /\ ForwardStep => RanksInv'
<1> SUFFICES ASSUME RanksInv, ForwardStep PROVE RanksInv'
  OBVIOUS
<1>1. ASSUME NEW r \in Ranks, Begin(r) PROVE RanksInv'
  BY <1>1, BeginKeeps
<1>2. ASSUME NEW r \in Ranks, Receive(r) PROVE RanksInv'
  BY <1>2, ReceiveKeeps
<1>3. ASSUME NEW r \in Ranks, Prepare(r) PROVE RanksInv'
  <2>1. pc[r] = "synced" /\ Goto(r, "ready") /\ UNCHANGED <<calls, returned, args>>
    BY <1>3 DEF Prepare
  <2> QED BY <2>1, AdvanceKeeps
<1>4. ASSUME NEW r \in Ranks, Enter(r) PROVE RanksInv'
  <2>1. pc[r] = "ready" /\ Goto(r, "forward") /\ UNCHANGED <<calls, returned, args>>
    BY <1>4 DEF Enter
  <2> QED BY <2>1, AdvanceKeeps
<1>5. ASSUME NEW r \in Ranks, HooksRaise(r) \/ LayoutRaises(r) \/ ModelRaises(r) PROVE RanksInv'
  <2>1. pc[r] \in Working /\ Return(r, Raised) /\ calls' = calls
    BY <1>5 DEF HooksRaise, LayoutRaises, ModelRaises, Working
  <2> QED BY <2>1, ReturnKeeps
<1>6. ASSUME NEW r \in Ranks, Finish(r) PROVE RanksInv'
  <2>1. pc[r] \in Working /\ calls' = calls
    BY <1>6 DEF Finish, Working
  <2>2. PICK nan : Return(r, Artifacts(Derive(r, DOMAIN rows[r] \ nan)))
    BY <1>6 DEF Finish
  <2> QED BY <2>1, <2>2, ReturnKeeps
<1>7. ASSUME NEW p \in Stages, Barrier(p) PROVE RanksInv'
  BY <1>7, BarrierKeeps
<1>8. ASSUME NEW p \in Stages, Barrier2(p) PROVE RanksInv'
  BY <1>8, Barrier2Keeps
<1>9. ASSUME NEW p \in Stages, Model(p) PROVE RanksInv'
  BY <1>9, ModelKeeps
<1>10. ASSUME NEW p \in Stages, InferenceStep(p) PROVE RanksInv'
  BY <1>10, InferenceKeeps
<1>11. ASSUME Abandon PROVE RanksInv'
  <2>1. UNCHANGED <<calls, pc, args, returned>>
    BY <1>11 DEF Abandon
  <2> QED BY <2>1 DEF RanksInv, Lists, Shapes, Busy, InStep, Handed, DriverSends, Turn, Number,
                      CallArgs, Call
<1> QED BY <1>1, <1>2, <1>3, <1>4, <1>5, <1>6, <1>7, <1>8, <1>9, <1>10, <1>11
        DEF ForwardStep, RankStep, StageStep

LEMMA RanksInvNext == RanksInv /\ [Next]_vars => RanksInv'
<1> SUFFICES ASSUME RanksInv, [Next]_vars PROVE RanksInv'
  OBVIOUS
<1>1. ASSUME Forward PROVE RanksInv'
  BY <1>1, ForwardStepKeeps DEF Forward
<1>2. ASSUME SendChunk PROVE RanksInv'
  BY <1>2, SendKeeps DEF SendChunk, Send
<1>3. ASSUME Mine \/ Infer PROVE RanksInv'
  BY <1>3, SendKeeps DEF Mine, Infer, OtherCall, Send
<1>4. ASSUME UNCHANGED forwardVars PROVE RanksInv'
  <2>1. UNCHANGED <<calls, pc, args, returned>>
    BY <1>4 DEF forwardVars
  <2> QED BY <2>1 DEF RanksInv, Lists, Shapes, Busy, InStep, Handed, DriverSends, Turn, Number,
                      CallArgs, Call
<1>5. ASSUME Arrive \/ Reserve \/ ChunkBegins \/ ChunkAnswered \/ ChunkFails \/ Verdict
               \/ MiningStarts \/ MiningEnds \/ UNCHANGED vars
      PROVE  UNCHANGED forwardVars
  BY <1>5 DEF Arrive, Reserve, ChunkBegins, ChunkAnswered, ChunkFails, Verdict,
              MiningStarts, MiningEnds, vars
<1> QED BY <1>1, <1>2, <1>3, <1>4, <1>5 DEF Next, Handler

(* poc_model_runner.py:312: whatever arguments the ranks of a stage were handed, and  *)
(* whichever of them raised before, those past the second barrier lay out the nonces  *)
(* and the lease of the same call; for every grid, fault and sequence of calls.       *)
THEOREM RanksAgree == Spec => []TpRanksShareTheLayout
<1>1. RanksInv => TpRanksShareTheLayout
  BY DEF RanksInv, Handed, TpRanksShareTheLayout, CallArgs
<1> QED BY <1>1, RanksInvInit, RanksInvNext, PTL DEF Spec

--------------------------------------------------------------------------------
(* Types.  Beyond TypeOK: a batch of rows, in a rank or in a channel, is a finite     *)
(* sequence, so that the rows that are dropped can be counted; and a chunk is only    *)
(* sent for a batch size above zero, so that the position in the nonces stays a       *)
(* natural number.                                                                    *)

Sized(batch) == \E n \in Nat : DOMAIN batch = 1..n

Batches ==
  /\ DOMAIN rows = Ranks /\ \A r \in Ranks : Sized(rows[r])
  /\ \E S : (\A batch \in S : Sized(batch)) /\ chan \in [Ranks -> Seq(S)]

CallTypes == calls \in Seq(CallType) /\ abandoned \subseteq DOMAIN calls
ArgTypes == args \in [Ranks -> [nonces : Seq(Nonces), lease : Leases]]
HookTypes == held \in [Ranks -> Hashes \cup {NoHooks}] /\ active \in [Ranks -> BOOLEAN]
Counts ==
  /\ DOMAIN returned = Ranks
  /\ \A r \in Ranks : Len(returned[r]) \in 0..Len(calls)
Budget ==
  faults \in Nat /\ lost \in Nat /\ late \in Nat /\ faults + lost + late <= MaxMishaps

RankTypes ==
  CallTypes /\ ArgTypes /\ HookTypes /\ Counts /\ Budget /\ Batches

LEMMA ForwardTypes == RanksInv /\ RankTypes => ForwardTypeOK
BY DEF RanksInv, RankTypes, CallTypes, ArgTypes, HookTypes, Counts, Budget, Shapes, Busy,
       ForwardTypeOK

LEMMA CallIsTyped ==
  ASSUME CallTypes, NEW r \in Ranks, Number(r) \in DOMAIN calls
  PROVE  Call(r) \in CallType
<1>1. calls \in Seq(CallType)
  BY DEF CallTypes
<1>2. DOMAIN calls = 1..Len(calls)
  BY <1>1, LenProperties
<1>3. \A c \in 1..Len(calls) : calls[c] \in CallType
  BY <1>1, ElementOfSeq
<1> QED BY <1>2, <1>3 DEF Call

LEMMA NoArgsTyped == NoArgs \in [nonces : Seq(Nonces), lease : Leases]
<1>1. <<>> \in Seq(Nonces)
  BY EmptySeq
<1> QED BY <1>1, ForwardAssumption DEF NoArgs

LEMMA ArgsStayTyped ==
  ASSUME RanksInv, RankTypes, ForwardStep
  PROVE  ArgTypes'
<1> DEFINE T == [nonces : Seq(Nonces), lease : Leases]
<1>1. args \in [Ranks -> T] /\ CallTypes
  BY DEF RankTypes, ArgTypes
<1>2. NoArgs \in T
  BY NoArgsTyped
<1> HIDE DEF T
<1>3. ASSUME NEW r \in Ranks, Begin(r) PROVE args' \in [Ranks -> T]
  <2>1. Call(r) \in CallType
    BY <1>1, <1>3, CallIsTyped DEF Begin
  <2>2. PICK given \in {Call(r).lease} \cup (IF r = Driver(r) THEN {} ELSE Skews) :
          args' = [args EXCEPT ![r] = [nonces |-> Call(r).nonces, lease |-> given]]
    BY <1>3 DEF Begin
  <2>3. Call(r).nonces \in Seq(Nonces) /\ given \in Leases
    BY <2>1, <2>2, ForwardAssumption DEF CallType
  <2>4. [nonces |-> Call(r).nonces, lease |-> given] \in T
    BY <2>3 DEF T
  <2> QED BY <1>1, <2>2, <2>4
<1>4. ASSUME NEW r \in Ranks, Receive(r) PROVE args' \in [Ranks -> T]
  <2>1. args' = [args EXCEPT ![r] = args[Driver(r)]] /\ Driver(r) \in Ranks
    BY <1>4, Drivers DEF Receive
  <2> QED BY <1>1, <2>1
<1>5. ASSUME NEW r \in Ranks, NEW result, Return(r, result) PROVE args' \in [Ranks -> T]
  BY <1>1, <1>2, <1>5 DEF Return
<1>6. ASSUME NEW p \in Stages, Model(p) PROVE args' \in [Ranks -> T]
  <2>1. args' = args \/ args' = [r \in Ranks |-> IF r[2] = p THEN NoArgs ELSE args[r]]
    BY <1>6 DEF Model
  <2> QED BY <1>1, <1>2, <2>1
<1>7. ASSUME NEW r \in Ranks, RankStep(r) PROVE args' \in [Ranks -> T]
  <2>1. CASE Prepare(r) \/ Enter(r)
    BY <1>1, <2>1 DEF Prepare, Enter
  <2>2. CASE HooksRaise(r) \/ LayoutRaises(r)
    BY <1>5, <2>2 DEF HooksRaise, LayoutRaises
  <2>3. CASE ModelRaises(r)
    BY <1>5, <2>3 DEF ModelRaises
  <2>4. CASE Finish(r)
    BY <1>5, <2>4 DEF Finish
  <2> QED BY <1>3, <1>4, <1>7, <2>1, <2>2, <2>3, <2>4 DEF RankStep
<1>8. ASSUME NEW p \in Stages, StageStep(p) PROVE args' \in [Ranks -> T]
  <2>1. CASE Barrier(p) \/ Barrier2(p) \/ InferenceStep(p)
    BY <1>1, <2>1 DEF Barrier, Barrier2, InferenceStep
  <2> QED BY <1>6, <1>8, <2>1 DEF StageStep
<1>9. ASSUME Abandon PROVE args' \in [Ranks -> T]
  BY <1>1, <1>9 DEF Abandon
<1> QED BY <1>7, <1>8, <1>9 DEF ForwardStep, ArgTypes, T

LEMMA HooksStayTyped ==
  ASSUME RanksInv, RankTypes, ForwardStep
  PROVE  HookTypes'
<1>1. held \in [Ranks -> Hashes \cup {NoHooks}] /\ active \in [Ranks -> BOOLEAN] /\ CallTypes
  BY DEF RankTypes, HookTypes
<1>2. ASSUME NEW r \in Ranks, RankStep(r) PROVE HookTypes'
  <2>1. CASE Prepare(r)
    <3>1. Number(r) \in DOMAIN calls
      BY <2>1 DEF Prepare, RanksInv, Busy
    <3>2. Call(r).block_hash \in Hashes \cup {NoHooks}
      BY <1>1, <3>1, CallIsTyped DEF CallType
    <3>3. active' = active /\ (held' = held \/ held' = [held EXCEPT ![r] = Call(r).block_hash])
      BY <2>1 DEF Prepare, EnsureHooks
    <3> QED BY <1>1, <3>2, <3>3 DEF HookTypes
  <2>2. CASE Enter(r) \/ ModelRaises(r)
    <3>1. /\ held' = held
          /\ active' = [active EXCEPT ![r] = TRUE]
               \/ active' = [s \in Ranks |-> active[s] /\ s \notin {r}]
      BY <2>2 DEF Enter, ModelRaises, LowerFlag
    <3>2. CASE active' = [active EXCEPT ![r] = TRUE]
      BY <1>1, <3>1, <3>2 DEF HookTypes
    <3>3. CASE active' = [s \in Ranks |-> active[s] /\ s \notin {r}]
      <4>1. active' \in [Ranks -> BOOLEAN]
        BY <3>3
      <4> QED BY <1>1, <3>1, <4>1 DEF HookTypes
    <3> QED BY <3>1, <3>2, <3>3
  <2>3. CASE Begin(r) \/ Receive(r) \/ HooksRaise(r) \/ LayoutRaises(r) \/ Finish(r)
    <3>1. held' = held /\ active' = active
      BY <2>3 DEF Begin, Receive, HooksRaise, LayoutRaises, Finish
    <3> QED BY <1>1, <3>1 DEF HookTypes
  <2> QED BY <1>2, <2>1, <2>2, <2>3 DEF RankStep
<1>3. ASSUME NEW p \in Stages, StageStep(p) PROVE HookTypes'
  <2>1. CASE Model(p)
    <3>1. held' = held /\ active' \in [Ranks -> BOOLEAN]
      BY <2>1 DEF Model, LowerFlag
    <3> QED BY <1>1, <3>1 DEF HookTypes
  <2>2. CASE Barrier(p) \/ Barrier2(p) \/ InferenceStep(p)
    <3>1. held' = held /\ active' = active
      BY <2>2 DEF Barrier, Barrier2, InferenceStep
    <3> QED BY <1>1, <3>1 DEF HookTypes
  <2> QED BY <1>3, <2>1, <2>2 DEF StageStep
<1>4. ASSUME Abandon PROVE HookTypes'
  BY <1>1, <1>4 DEF Abandon, HookTypes
<1> QED BY <1>2, <1>3, <1>4 DEF ForwardStep

(* A rank returns once for a call it is in, or steps at one it has not done. *)
LEMMA CountsStay ==
  ASSUME RanksInv, RankTypes, ForwardStep
  PROVE  Counts'
<1>1. /\ DOMAIN returned = Ranks /\ Lists
      /\ \A r \in Ranks : Len(returned[r]) \in 0..Len(calls)
  BY DEF RanksInv, RankTypes, Counts
<1>2. Len(calls) \in Nat /\ DOMAIN calls = 1..Len(calls)
  <2>1. calls \in Seq(CallType)
    BY DEF RankTypes, CallTypes
  <2> QED BY <2>1, LenProperties
<1>3. ASSUME UNCHANGED <<calls, returned>> PROVE Counts'
  BY <1>1, <1>3 DEF Counts
<1>4. ASSUME NEW r \in Ranks, NEW result, pc[r] # "idle", Return(r, result), calls' = calls
      PROVE  Counts'
  <2>1. returned' = [returned EXCEPT ![r] = Append(@, result)]
    BY <1>4 DEF Return
  <2>2. /\ Number(r)' = Number(r) + 1
        /\ \A s \in Ranks : s # r => Number(s)' = Number(s)
    BY <1>1, <1>4, <2>1, ReturnCounts
  <2>3. Number(r) \in 1..Len(calls)
    BY <1>2, <1>4 DEF RanksInv, Busy
  <2>4. DOMAIN returned' = Ranks
    BY <1>1, <2>1
  <2>5. ASSUME NEW s \in Ranks, s # r PROVE Len(returned'[s]) \in 0..Len(calls)
    BY <1>1, <2>1, <2>5
  <2>6. \E S : returned' \in [Ranks -> Seq(S)]
    BY <1>1, <1>4, <2>1, ReturnCounts DEF Lists
  <2>7. Len(returned'[r]) \in Nat
    BY <2>6, LenProperties
  <2>8. Len(returned'[r]) = Number(r)
    BY <2>2, <2>3, <2>7 DEF Number
  <2> QED BY <1>2, <1>4, <2>3, <2>4, <2>5, <2>8 DEF Counts
<1>5. ASSUME NEW p \in Stages, NEW result, calls' = calls,
             \A r \in Ranks : r[2] = p => Number(r) \in DOMAIN calls,
             returned' = [r \in Ranks |->
               IF r[2] = p THEN Append(returned[r], result[r]) ELSE returned[r]]
      PROVE  Counts'
  <2>1. Lists' /\ \A r \in Ranks : Number(r)' = IF r[2] = p THEN Number(r) + 1 ELSE Number(r)
    BY <1>1, <1>5, StageReturnCounts
  <2>2. \E S : returned' \in [Ranks -> Seq(S)]
    BY <2>1 DEF Lists
  <2>3. ASSUME NEW s \in Ranks PROVE Len(returned'[s]) \in 0..Len(calls)
    <3>1. Len(returned'[s]) \in Nat
      BY <2>2, LenProperties
    <3>2. CASE s[2] = p
      <4>1. Number(s) \in 1..Len(calls) /\ Number(s)' = Number(s) + 1
        BY <1>2, <1>5, <2>1, <3>2
      <4>2. Len(returned'[s]) = Number(s)
        BY <3>1, <4>1 DEF Number
      <4> QED BY <1>2, <4>1, <4>2
    <3>3. CASE s[2] # p
      BY <1>1, <1>5, <3>3
    <3> QED BY <3>2, <3>3
  <2> QED BY <1>5, <2>3 DEF Counts
<1>6. ASSUME NEW r \in Ranks, RankStep(r) PROVE Counts'
  <2>1. CASE Begin(r) \/ Receive(r) \/ Prepare(r) \/ Enter(r)
    BY <1>3, <2>1 DEF Begin, Receive, Prepare, Enter
  <2>2. CASE HooksRaise(r) \/ LayoutRaises(r)
    BY <1>4, <2>2 DEF HooksRaise, LayoutRaises
  <2>3. CASE ModelRaises(r)
    BY <1>4, <2>3 DEF ModelRaises
  <2>4. CASE Finish(r)
    BY <1>4, <2>4 DEF Finish
  <2> QED BY <1>6, <2>1, <2>2, <2>3, <2>4 DEF RankStep
<1>7. ASSUME NEW p \in Stages, StageStep(p) PROVE Counts'
  <2>1. CASE Barrier(p) \/ Barrier2(p)
    BY <1>3, <2>1 DEF Barrier, Barrier2
  <2>2. CASE Model(p)
    <3>1. calls' = calls /\ \A r \in Ranks : r[2] = p => pc[r] = "forward"
      BY <2>2 DEF Model, StageAt, StageRanks
    <3>2. \A r \in Ranks : r[2] = p => Number(r) \in DOMAIN calls
      BY <3>1 DEF RanksInv, Busy
    <3>3. CASE p = Pp - 1
      BY <1>3, <2>2, <3>3 DEF Model
    <3>4. CASE p # Pp - 1
      <4> DEFINE result == [r \in Ranks |-> Artifacts(<<>>)]
      <4>1. returned' = [r \in Ranks |->
              IF r[2] = p THEN Append(returned[r], result[r]) ELSE returned[r]]
        BY <2>2, <3>4 DEF Model
      <4> HIDE DEF result
      <4> QED BY <1>5, <3>1, <3>2, <4>1
    <3> QED BY <3>3, <3>4
  <2>3. CASE InferenceStep(p)
    <3> DEFINE result == [r \in Ranks |-> Inference(Reflections(r) = <<>>)]
    <3>1. /\ calls' = calls
          /\ \A r \in Ranks : r[2] = p => Number(r) \in DOMAIN calls
          /\ returned' = [r \in Ranks |->
               IF r[2] = p THEN Append(returned[r], result[r]) ELSE returned[r]]
      BY <2>3 DEF InferenceStep, StageRanks
    <3> HIDE DEF result
    <3> QED BY <1>5, <3>1
  <2> QED BY <1>7, <2>1, <2>2, <2>3 DEF StageStep
<1>8. ASSUME Abandon PROVE Counts'
  BY <1>3, <1>8 DEF Abandon
<1> QED BY <1>6, <1>7, <1>8 DEF ForwardStep

--------------------------------------------------------------------------------
(* The types of what the steps of a rank and of a stage write. *)

LEMMA InputIsSized ==
  ASSUME RankTypes, NEW r \in Ranks, HasInput(r), NEW S, \A batch \in S : Sized(batch),
         chan \in [Ranks -> Seq(S)]
  PROVE  Sized(InputOf(r)) /\ (IF IsFirst(r) THEN chan[r] ELSE Tail(chan[r])) \in Seq(S)
  <2>1. CASE IsFirst(r)
    <3>1. args[r].nonces \in Seq(Nonces)
      BY DEF RankTypes, ArgTypes
    <3>2. DOMAIN InputOf(r) = 1..Len(args[r].nonces) /\ Len(args[r].nonces) \in Nat
      BY <2>1, <3>1, LenProperties DEF InputOf, GenerateInputs
    <3> QED BY <2>1, <3>2 DEF Sized
  <2>2. CASE ~IsFirst(r)
    <3>1. chan[r] \in Seq(S) /\ chan[r] # <<>>
      BY <2>2 DEF HasInput
    <3>2. Head(chan[r]) \in S /\ Tail(chan[r]) \in Seq(S)
      BY <3>1, HeadTailProperties
    <3> QED BY <2>2, <3>2 DEF InputOf
  <2> QED BY <2>1, <2>2

LEMMA EmptyIsSized == Sized(<<>>)
<1>1. DOMAIN <<>> = 1..0
  BY EmptySeq, LenProperties
<1> QED BY <1>1 DEF Sized

LEMMA BatchesStay ==
  ASSUME RanksInv, RankTypes, ForwardStep
  PROVE  Batches'
<1>1. DOMAIN rows = Ranks /\ \A r \in Ranks : Sized(rows[r])
  BY DEF RankTypes, Batches
<1>2. PICK S : (\A batch \in S : Sized(batch)) /\ chan \in [Ranks -> Seq(S)]
  BY DEF RankTypes, Batches
<1>3. ASSUME UNCHANGED rows PROVE DOMAIN rows' = Ranks /\ \A r \in Ranks : Sized(rows'[r])
  BY <1>1, <1>3
<1>4. ASSUME UNCHANGED <<rows, chan>> PROVE Batches'
  BY <1>1, <1>2, <1>4 DEF Batches
<1>5. ASSUME NEW r \in Ranks, NEW result, Return(r, result)
      PROVE  DOMAIN rows' = Ranks /\ \A s \in Ranks : Sized(rows'[s])
  <2>1. rows' = [rows EXCEPT ![r] = <<>>]
    BY <1>5 DEF Return
  <2> QED BY <1>1, <2>1, EmptyIsSized
<1>6. ASSUME NEW r \in Ranks, RankStep(r) PROVE Batches'
  <2>1. CASE Begin(r) \/ Receive(r) \/ Prepare(r)
    BY <1>4, <2>1 DEF Begin, Receive, Prepare
  <2>2. CASE HooksRaise(r) \/ LayoutRaises(r) \/ ModelRaises(r)
    <3>1. Return(r, Raised) /\ chan' = chan
      BY <2>2 DEF HooksRaise, LayoutRaises, ModelRaises
    <3> QED BY <1>2, <1>5, <3>1 DEF Batches
  <2>3. CASE Enter(r)
    <3> DEFINE rest == IF IsFirst(r) THEN chan[r] ELSE Tail(chan[r])
    <3>1. /\ rows' = [rows EXCEPT ![r] = InputOf(r)]
          /\ chan' = [chan EXCEPT ![r] = rest] /\ HasInput(r)
      BY <2>3 DEF Enter
    <3>2. Sized(InputOf(r)) /\ rest \in Seq(S)
      BY <1>2, <3>1, InputIsSized
    <3> HIDE DEF rest
    <3>3. chan' \in [Ranks -> Seq(S)]
      BY <1>2, <3>1, <3>2
    <3>4. DOMAIN rows' = Ranks /\ \A s \in Ranks : Sized(rows'[s])
      BY <1>1, <3>1, <3>2
    <3> QED BY <1>2, <3>3, <3>4 DEF Batches
  <2>4. CASE Finish(r)
    <3>1. chan' = chan /\ \E result : Return(r, result)
      BY <2>4 DEF Finish
    <3> QED BY <1>2, <1>5, <3>1 DEF Batches
  <2> QED BY <1>6, <2>1, <2>2, <2>3, <2>4 DEF RankStep
<1>7. ASSUME NEW p \in Stages, StageStep(p) PROVE Batches'
  <2>1. CASE Barrier(p) \/ Barrier2(p) \/ InferenceStep(p)
    BY <1>4, <2>1 DEF Barrier, Barrier2, InferenceStep
  <2>2. CASE Model(p)
    <3>2. \A r \in Ranks : Sized(Hidden(r))
      <4>1. \A r \in Ranks : DOMAIN Hidden(r) = DOMAIN rows[r]
        BY DEF Hidden
      <4> QED BY <1>1, <4>1 DEF Sized
    <3>3. CASE p = Pp - 1
      <4>1. /\ rows' = [r \in Ranks |-> IF r[2] = p THEN Hidden(r) ELSE rows[r]]
            /\ chan' = chan
        BY <2>2, <3>3 DEF Model
      <4>2. DOMAIN rows' = Ranks /\ \A r \in Ranks : Sized(rows'[r])
        BY <1>1, <3>2, <4>1
      <4> QED BY <1>2, <4>1, <4>2 DEF Batches
    <3>4. CASE p # Pp - 1
      <4> DEFINE T == S \cup {Hidden(r) : r \in {s \in Ranks : s[2] = p}}
      <4>1. /\ rows' = [r \in Ranks |-> IF r[2] = p THEN <<>> ELSE rows[r]]
            /\ chan' = [r \in Ranks |->
                 IF r[2] = p + 1 THEN Append(chan[r], Hidden(<<r[1], p>>)) ELSE chan[r]]
        BY <2>2, <3>4 DEF Model
      <4>2. /\ \A batch \in T : Sized(batch)
            /\ DOMAIN rows' = Ranks /\ \A r \in Ranks : Sized(rows'[r])
        BY <1>1, <1>2, <3>2, <4>1, EmptyIsSized
      <4>3. ASSUME NEW r \in Ranks PROVE Hidden(<<r[1], p>>) \in T
        <5>1. <<r[1], p>> \in Ranks
          BY DEF Ranks
        <5> QED BY <5>1
      <4>4. ASSUME NEW r \in Ranks PROVE chan[r] \in Seq(T)
        <5>1. chan[r] \in Seq(S)
          BY <1>2
        <5>2. S \subseteq T
          OBVIOUS
        <5> HIDE DEF T
        <5> QED BY <5>1, <5>2, SeqMonotonic
      <4> HIDE DEF T
      <4>5. \A r \in Ranks : Append(chan[r], Hidden(<<r[1], p>>)) \in Seq(T)
        BY <4>3, <4>4, AppendProperties
      <4>6. chan' \in [Ranks -> Seq(T)]
        BY <4>1, <4>4, <4>5
      <4> QED BY <4>2, <4>6 DEF Batches
    <3> QED BY <3>3, <3>4
  <2> QED BY <1>7, <2>1, <2>2 DEF StageStep
<1>8. ASSUME Abandon PROVE Batches'
  BY <1>4, <1>8 DEF Abandon
<1> QED BY <1>6, <1>7, <1>8 DEF ForwardStep

LEMMA BudgetStays ==
  ASSUME RanksInv, RankTypes, ForwardStep
  PROVE  Budget'
<1>1. Budget /\ MaxMishaps \in Nat
  BY ForwardAssumption DEF RankTypes
<1>2. ASSUME UNCHANGED mishaps PROVE Budget'
  BY <1>1, <1>2 DEF Budget, mishaps
<1>3. ASSUME NEW where, MayRaise(where) PROVE Budget'
  BY <1>1, <1>3 DEF MayRaise, Budget, Room
<1>4. ASSUME NEW r \in Ranks, Finish(r) PROVE Budget'
  <2>1. PICK nan \in SUBSET DOMAIN rows[r] :
          Room(Cardinality(nan)) /\ lost' = lost + Cardinality(nan)
    BY <1>4 DEF Finish
  <2>2. UNCHANGED <<faults, late>>
    BY <1>4 DEF Finish
  <2>3. PICK size \in Nat : DOMAIN rows[r] = 1..size
    BY DEF RankTypes, Batches, Sized
  <2>4. Cardinality(nan) \in Nat
    <3>1. IsFiniteSet(1..size) /\ nan \in SUBSET (1..size)
      BY <2>1, <2>3, FS_Interval
    <3>2. IsFiniteSet(nan)
      BY <3>1, FS_Subset
    <3> QED BY <3>2, FS_CardinalityType
  <2>5. \A n \in Nat : Room(n) /\ lost' = lost + n => Budget'
    BY <1>1, <2>2 DEF Budget, Room
  <2> QED BY <2>1, <2>4, <2>5
<1>5. ASSUME NEW r \in Ranks, RankStep(r) PROVE Budget'
  <2>1. CASE Begin(r) \/ Receive(r) \/ Prepare(r) \/ Enter(r)
    BY <1>2, <2>1 DEF Begin, Receive, Prepare, Enter
  <2>2. CASE HooksRaise(r) \/ LayoutRaises(r) \/ ModelRaises(r)
    BY <1>2, <1>3, <2>2 DEF HooksRaise, LayoutRaises, ModelRaises
  <2> QED BY <1>4, <1>5, <2>1, <2>2 DEF RankStep
<1>6. ASSUME NEW p \in Stages, StageStep(p) PROVE Budget'
  BY <1>2, <1>6 DEF StageStep, Barrier, Barrier2, Model, InferenceStep, mishaps
<1>7. ASSUME Abandon PROVE Budget'
  BY <1>1, <1>7 DEF Abandon, Room, Budget
<1> QED BY <1>5, <1>6, <1>7 DEF ForwardStep

LEMMA CallsStayTyped ==
  ASSUME RanksInv, RankTypes, ForwardStep
  PROVE  CallTypes' /\ calls' = calls
<1>1. calls \in Seq(CallType) /\ abandoned \subseteq DOMAIN calls
  BY DEF RankTypes, CallTypes
<1>2. ASSUME NEW r \in Ranks, RankStep(r) PROVE UNCHANGED <<calls, abandoned>>
  BY <1>2 DEF RankStep, Begin, Receive, Prepare, HooksRaise, LayoutRaises, Enter, ModelRaises,
              Finish
<1>3. ASSUME NEW p \in Stages, StageStep(p) PROVE UNCHANGED <<calls, abandoned>>
  BY <1>3 DEF StageStep, Barrier, Barrier2, Model, InferenceStep
<1>4. ASSUME Abandon PROVE CallTypes' /\ calls' = calls
  <2>1. calls # <<>> /\ calls' = calls /\ abandoned' = abandoned \cup {Len(calls)}
    BY <1>4 DEF Abandon
  <2>2. Len(calls) \in DOMAIN calls
    BY <1>1, <2>1, EmptySeq, LenProperties
  <2> QED BY <1>1, <2>1, <2>2 DEF CallTypes
<1>5. ASSUME UNCHANGED <<calls, abandoned>> PROVE CallTypes' /\ calls' = calls
  BY <1>1, <1>5 DEF CallTypes
<1> QED BY <1>2, <1>3, <1>4, <1>5 DEF ForwardStep

LEMMA StepKeepsRankTypes == RanksInv /\ RankTypes /\ ForwardStep => RankTypes' /\ calls' = calls
BY ArgsStayTyped, HooksStayTyped, CountsStay, BatchesStay, BudgetStays, CallsStayTyped
   DEF RankTypes

LEMMA SendKeepsRankTypes ==
  ASSUME RankTypes, NEW call \in CallType, calls' = Append(calls, call),
         UNCHANGED <<abandoned, args, held, active, rows, chan, returned, mishaps>>
  PROVE  RankTypes' /\ Len(calls') = Len(calls) + 1
<1>1. calls \in Seq(CallType) /\ abandoned \subseteq DOMAIN calls
  BY DEF RankTypes, CallTypes
<1>2. /\ calls' \in Seq(CallType) /\ Len(calls') = Len(calls) + 1
      /\ Len(calls) \in Nat /\ DOMAIN calls = 1..Len(calls) /\ DOMAIN calls' = 1..Len(calls')
  BY <1>1, AppendProperties, LenProperties
<1>3. CallTypes'
  BY <1>1, <1>2 DEF CallTypes
<1>4. Counts'
  BY <1>2 DEF RankTypes, Counts
<1>5. ArgTypes' /\ HookTypes' /\ Budget'
  BY DEF RankTypes, ArgTypes, HookTypes, Budget, mishaps
<1>6. Batches'
  BY DEF RankTypes, Batches
<1> QED BY <1>2, <1>3, <1>4, <1>5, <1>6 DEF RankTypes

LEMMA RankTypesStill ==
  ASSUME RankTypes, UNCHANGED forwardVars
  PROVE  RankTypes'
BY DEF RankTypes, CallTypes, ArgTypes, HookTypes, Counts, Budget, Batches, forwardVars

LEMMA RankTypesInit == Init => RankTypes
<1> SUFFICES ASSUME Init PROVE RankTypes
  OBVIOUS
<1>1. ForwardInit
  BY DEF Init
<1>2. CallTypes
  BY <1>1, EmptySeq DEF ForwardInit, CallTypes
<1>3. ArgTypes
  BY <1>1, NoArgsTyped DEF ForwardInit, ArgTypes
<1>4. HookTypes
  BY <1>1 DEF ForwardInit, HookTypes
<1>5. Counts
  BY <1>1, EmptySeq DEF ForwardInit, Counts
<1>6. Budget
  BY <1>1, ForwardAssumption DEF ForwardInit, Budget
<1>7. Batches
  <2>1. chan \in [Ranks -> Seq({})]
    BY <1>1, EmptySeq DEF ForwardInit
  <2> QED BY <1>1, <2>1, EmptyIsSized DEF ForwardInit, Batches
<1> QED BY <1>2, <1>3, <1>4, <1>5, <1>6, <1>7 DEF RankTypes

--------------------------------------------------------------------------------
(* The handler of the request. *)
RequestTypes ==
  /\ mining \in BOOLEAN /\ rounds \in 0..MaxRounds /\ others \in 0..MaxOthers
  /\ point \in {"none", "wait", "chunk", "sending", "await", "done"}
  /\ body \in Bodies \cup {NoBody} /\ lease \in Leases
  /\ next \in Nat /\ sent \in 0..Len(calls)
  /\ (point = "done") = (response # Nothing)

Advances == point \in {"sending", "await"} => body.batch_size > 0

ValidationTypes == RanksInv /\ RankTypes /\ RequestTypes /\ Advances

LEMMA BodyIsTyped ==
  ASSUME RequestTypes
  PROVE  body.nonces \in Seq(Nonces) /\ body.batch_size \in Int
<1>1. body \in Bodies \cup {NoBody}
  BY DEF RequestTypes
<1>2. <<>> \in Seq(Nonces)
  BY EmptySeq
<1>3. NoBody.nonces = <<>> /\ NoBody.batch_size = 1
  BY DEF NoBody
<1>4. ASSUME body \in Bodies PROVE body.nonces \in Seq(Nonces) /\ body.batch_size \in Int
  BY <1>4, ValidationAssumption
<1>5. ASSUME body = NoBody PROVE body.nonces \in Seq(Nonces) /\ body.batch_size \in Int
  <2>1. body.nonces \in Seq(Nonces)
    BY <1>2, <1>3, <1>5, Zenon
  <2>2. body.batch_size = 1
    BY <1>3, <1>5
  <2> QED BY <2>1, <2>2
<1> QED BY <1>1, <1>4, <1>5

LEMMA ChunkIsTyped ==
  ASSUME RequestTypes, Advances, point = "sending"
  PROVE  Chunk \in Seq(Nonces)
<1>1. body.nonces \in Seq(Nonces) /\ body.batch_size \in Nat \ {0} /\ next \in Nat
  BY BodyIsTyped DEF Advances, RequestTypes
<1>2. Len(body.nonces) \in Nat /\ \A i \in 1..Len(body.nonces) : body.nonces[i] \in Nonces
  BY <1>1, LenProperties, ElementOfSeq
<1> DEFINE last == IF next + body.batch_size < Len(body.nonces)
                   THEN next + body.batch_size ELSE Len(body.nonces)
<1>3. last \in Int /\ next + 1 \in Int /\ \A i \in (next + 1)..last : body.nonces[i] \in Nonces
  BY <1>1, <1>2
<1> HIDE DEF last
<1>4. SubSeq(body.nonces, next + 1, last) \in Seq(Nonces)
  BY <1>3, SubSeqProperties
<1> QED BY <1>4 DEF Chunk, last

LEMMA PocCallIsTyped ==
  ASSUME NEW h \in Hashes, NEW nonces \in Seq(Nonces), NEW blocks \in Leases
  PROVE  PocCall(h, Key, nonces, blocks) \in CallType
BY ValidationAssumption DEF PocCall, CallType

LEMMA StepCallIsTyped == StepCall \in CallType
<1>1. <<>> \in Seq(Nonces)
  BY EmptySeq
<1> QED BY <1>1, ForwardAssumption DEF StepCall, CallType

LEMMA ResponsesAnswer ==
  /\ \A status : Error(status) # Nothing <=> status # "none"
  /\ \A artifacts : [status |-> "artifacts", artifacts |-> artifacts] # Nothing
  /\ \A artifacts, claims, n : run_validation(artifacts, claims, n) # Nothing
<1>1. \A status : Error(status).status = status
  BY DEF Error
<1>2. Nothing.status = "none"
  BY DEF Nothing
<1>3. \A status : Error(status) # Nothing <=> status # "none"
  BY <1>1, <1>2 DEF Error, Nothing
<1>4. \A artifacts : [status |-> "artifacts", artifacts |-> artifacts] # Nothing
  BY <1>2
<1>5. ASSUME NEW artifacts, NEW claims, NEW n PROVE run_validation(artifacts, claims, n) # Nothing
  <2>1. run_validation(artifacts, claims, n) = Error("500")
          \/ run_validation(artifacts, claims, n).status = "verdict"
    BY DEF run_validation
  <2> QED BY <1>2, <1>3, <2>1
<1> QED BY <1>3, <1>4, <1>5

LEMMA RequestKeepsTypes ==
  ASSUME RequestTypes, Advances,
         Arrive \/ Reserve \/ ChunkBegins \/ ChunkAnswered \/ ChunkFails \/ Verdict
  PROVE  RequestTypes' /\ Advances' /\ UNCHANGED forwardVars
<1> DEFINE Places == {"none", "wait", "chunk", "sending", "await", "done"}
           Apart == UNCHANGED <<calls, mining, rounds, others, sent>>
           Where == point \in Places /\ (point = "done") = (response # Nothing)
<1>1. /\ mining \in BOOLEAN /\ rounds \in 0..MaxRounds /\ others \in 0..MaxOthers
      /\ body \in Bodies \cup {NoBody} /\ lease \in Leases
      /\ next \in Nat /\ sent \in 0..Len(calls) /\ Where
  BY DEF RequestTypes
<1>2. /\ UNCHANGED forwardVars /\ Apart
  BY DEF Arrive, Reserve, ChunkBegins, ChunkAnswered, ChunkFails, Verdict, forwardVars,
         environmentVars
<1>3. ASSUME Where', Advances', body' \in Bodies \cup {NoBody}, lease' \in Leases, next' \in Nat
      PROVE  RequestTypes' /\ Advances'
  BY <1>1, <1>2, <1>3 DEF RequestTypes
<1>4. ASSUME NEW status, status # "none", Responds(Error(status))
      PROVE  Where' /\ Advances'
  BY <1>4, ResponsesAnswer DEF Responds, Advances
<1>5. CASE Arrive
  <2>1. PICK b \in Bodies :
          /\ body' = b
          /\ IF b.claims # <<>> /\ DOMAIN b.claims # Range(b.nonces)
             THEN Responds(Error("400"))
             ELSE point' = "wait" /\ UNCHANGED response
    BY <1>5 DEF Arrive
  <2>2. /\ lease' = lease /\ next' = next /\ point = "none"
        /\ Responds(Error("400")) \/ (point' = "wait" /\ response' = response)
    BY <1>5, <2>1 DEF Arrive
  <2>3. ASSUME point' = "wait" /\ response' = response PROVE Where' /\ Advances'
    BY <1>1, <2>2, <2>3 DEF Advances
  <2>4. Where' /\ Advances'
    BY <1>4, <2>2, <2>3
  <2> QED BY <1>1, <1>2, <1>3, <2>1, <2>2, <2>4
<1>6. CASE Reserve
  <2>1. /\ body' = body /\ next' = next /\ point = "wait"
        /\ \/ Responds(Error("500")) /\ lease' = lease
           \/ lease' \in Granted /\ point' = "chunk" /\ response' = response
    BY <1>6 DEF Reserve
  <2>2. ASSUME point' = "chunk", response' = response PROVE Where' /\ Advances'
    BY <1>1, <2>1, <2>2 DEF Advances
  <2>3. Where' /\ Advances' /\ lease' \in Leases
    <3>1. CASE Responds(Error("500")) /\ lease' = lease
      BY <1>1, <1>4, <3>1
    <3>2. CASE lease' \in Granted /\ point' = "chunk" /\ response' = response
      BY <2>2, <3>2, ValidationAssumption
    <3> QED BY <2>1, <3>1, <3>2
  <2> QED BY <1>1, <1>2, <1>3, <2>1, <2>3
<1>7. CASE ChunkBegins
  <2>1. /\ UNCHANGED <<body, lease, next, response>> /\ point = "chunk" /\ point' = "sending"
        /\ body.batch_size > 0
    BY <1>7 DEF ChunkBegins, HasChunk
  <2>2. Where' /\ Advances'
    BY <1>1, <2>1 DEF Advances
  <2> QED BY <1>1, <1>2, <1>3, <2>1, <2>2
<1>8. CASE ChunkAnswered
  <2>1. /\ UNCHANGED <<body, lease, response>> /\ point = "await" /\ point' = "chunk"
        /\ next' = next + body.batch_size
    BY <1>8 DEF ChunkAnswered
  <2>2. Where' /\ Advances'
    BY <1>1, <2>1 DEF Advances
  <2>3. next' \in Nat
    BY <1>1, <2>1, BodyIsTyped DEF Advances
  <2> QED BY <1>1, <1>2, <1>3, <2>1, <2>2, <2>3
<1>9. CASE ChunkFails
  <2>1. UNCHANGED <<body, lease, next>> /\ (Responds(Error("500")) \/ Responds(Error("503")))
    BY <1>9 DEF ChunkFails
  <2>2. Where' /\ Advances'
    BY <1>4, <2>1
  <2> QED BY <1>1, <1>2, <1>3, <2>1, <2>2
<1>10. CASE Verdict
  <2>1. /\ UNCHANGED <<body, lease, next>> /\ point' = "done" /\ response' # Nothing
    BY <1>10, ResponsesAnswer DEF Verdict, Responds
  <2>2. Where' /\ Advances'
    BY <2>1 DEF Advances
  <2> QED BY <1>1, <1>2, <1>3, <2>1, <2>2
<1> QED BY <1>2, <1>5, <1>6, <1>7, <1>8, <1>9, <1>10

LEMMA ValidationTypesInit == Init => ValidationTypes
<1> SUFFICES ASSUME Init PROVE ValidationTypes
  OBVIOUS
<1>1. RanksInv /\ RankTypes
  BY RanksInvInit, RankTypesInit
<1>2. Len(calls) = 0
  BY EmptySeq DEF Init, ForwardInit
<1>3. rounds \in 0..MaxRounds /\ others \in 0..MaxOthers /\ next \in Nat /\ sent \in 0..Len(calls)
  BY <1>2, ValidationAssumption DEF Init
<1>4. mining \in BOOLEAN /\ lease \in Leases /\ point = "none" /\ response = Nothing
  BY ForwardAssumption DEF Init
<1>5. (point = "done") = (response # Nothing)
  BY <1>4
<1>6. RequestTypes
  BY <1>3, <1>4, <1>5 DEF Init, RequestTypes
<1> QED BY <1>1, <1>6 DEF ValidationTypes, Advances, Init

LEMMA ValidationTypesNext == ValidationTypes /\ [Next]_vars => ValidationTypes'
<1> SUFFICES ASSUME ValidationTypes, [Next]_vars PROVE ValidationTypes'
  OBVIOUS
<1>1. RanksInv /\ RankTypes /\ RequestTypes /\ Advances /\ RanksInv'
  BY RanksInvNext DEF ValidationTypes
<1>2. Len(calls) \in Nat
  BY <1>1, LenProperties DEF RankTypes, CallTypes
<1>3. CASE Forward
  <2>1. RankTypes' /\ calls' = calls /\ UNCHANGED <<environmentVars, requestVars>>
    BY <1>1, <1>3, StepKeepsRankTypes DEF Forward
  <2>2. RequestTypes' /\ Advances'
    BY <1>1, <2>1 DEF RequestTypes, Advances, environmentVars, requestVars
  <2> QED BY <1>1, <2>1, <2>2 DEF ValidationTypes
<1>4. CASE Arrive \/ Reserve \/ ChunkBegins \/ ChunkAnswered \/ ChunkFails \/ Verdict
  <2>1. RequestTypes' /\ Advances' /\ UNCHANGED forwardVars
    BY <1>1, <1>4, RequestKeepsTypes
  <2>2. RankTypes'
    BY <1>1, <2>1, RankTypesStill
  <2> QED BY <1>1, <2>1, <2>2 DEF ValidationTypes
<1>5. CASE SendChunk
  <2>1. /\ point = "sending" /\ point' = "await" /\ sent' = Len(calls) + 1
        /\ calls' = Append(calls, PocCall(OwnHash, Key, Chunk, lease))
        /\ UNCHANGED <<abandoned, args, held, active, rows, chan, returned, mishaps>>
        /\ UNCHANGED <<mining, rounds, others, body, lease, next, response>>
    BY <1>5 DEF SendChunk, Send, environmentVars
  <2>2. PocCall(OwnHash, Key, Chunk, lease) \in CallType
    BY <1>1, <2>1, ChunkIsTyped, PocCallIsTyped, ValidationAssumption DEF RequestTypes
  <2>3. RankTypes' /\ Len(calls') = Len(calls) + 1
    BY <1>1, <2>1, <2>2, SendKeepsRankTypes
  <2>4. sent' \in 0..Len(calls')
    BY <1>2, <2>1, <2>3
  <2>5. (point' = "done") = (response' # Nothing)
    BY <1>1, <2>1 DEF RequestTypes
  <2>6. RequestTypes'
    BY <1>1, <2>1, <2>4, <2>5 DEF RequestTypes
  <2>7. Advances'
    BY <1>1, <2>1 DEF Advances
  <2> QED BY <1>1, <2>3, <2>6, <2>7 DEF ValidationTypes
<1>6. CASE Mine \/ Infer
  <2>1. PICK call \in CallType : calls' = Append(calls, call)
    <3>1. PocCall(MiningHash, Key, MiningNonces, NoLease) \in CallType
      BY PocCallIsTyped, ValidationAssumption, ForwardAssumption
    <3> QED BY <1>6, <3>1, StepCallIsTyped DEF Mine, Infer, OtherCall, Send
  <2>2. /\ UNCHANGED <<abandoned, args, held, active, rows, chan, returned, mishaps>>
        /\ UNCHANGED <<mining, rounds, point, body, lease, next, sent, response>>
        /\ others < MaxOthers /\ others' = others + 1
    BY <1>6 DEF Mine, Infer, OtherCall, requestVars
  <2>3. RankTypes' /\ Len(calls') = Len(calls) + 1
    BY <1>1, <2>1, <2>2, SendKeepsRankTypes
  <2>4. sent' \in 0..Len(calls') /\ others' \in 0..MaxOthers
    BY <1>1, <1>2, <2>2, <2>3, ValidationAssumption DEF RequestTypes
  <2>5. (point' = "done") = (response' # Nothing)
    BY <1>1, <2>2 DEF RequestTypes
  <2>6. RequestTypes'
    BY <1>1, <2>2, <2>4, <2>5 DEF RequestTypes
  <2>7. Advances'
    BY <1>1, <2>2 DEF Advances
  <2> QED BY <1>1, <2>3, <2>6, <2>7 DEF ValidationTypes
<1>7. CASE MiningStarts \/ MiningEnds \/ UNCHANGED vars
  <2>1. /\ UNCHANGED forwardVars /\ UNCHANGED requestVars /\ others' = others
        /\ mining' = mining \/ mining' = TRUE \/ mining' = FALSE
        /\ rounds' = rounds \/ (rounds < MaxRounds /\ rounds' = rounds + 1)
    BY <1>7 DEF MiningStarts, MiningEnds, vars, environmentVars, requestVars
  <2>2. RankTypes' /\ calls' = calls
    BY <1>1, <2>1, RankTypesStill DEF forwardVars
  <2>3. rounds' \in 0..MaxRounds
    BY <1>1, <2>1, ValidationAssumption DEF RequestTypes
  <2>4. mining' \in BOOLEAN
    BY <1>1, <2>1 DEF RequestTypes
  <2>5. RequestTypes' /\ Advances'
    BY <1>1, <2>1, <2>2, <2>3, <2>4 DEF RequestTypes, Advances, requestVars
  <2> QED BY <1>1, <2>2, <2>5 DEF ValidationTypes
<1> QED BY <1>3, <1>4, <1>5, <1>6, <1>7 DEF Next, Handler

(* Every variable of the request, of the calls and of the ranks has its type; a rank is *)
(* never ahead of the calls; a response exists exactly when the handler is done.        *)
THEOREM ValidationTypesHold == Spec => []TypeOK
<1>1. ValidationTypes => TypeOK
  BY ForwardTypes DEF ValidationTypes, RequestTypes, TypeOK
<1> QED BY <1>1, ValidationTypesInit, ValidationTypesNext, PTL DEF Spec

--------------------------------------------------------------------------------
(* The flag of a rank is up exactly while it is in the forward, so that no hook acts in *)
(* an inference step, which all ranks of the stage enter between two calls.             *)
FlagTracks == \A r \in Ranks : active[r] <=> pc[r] = "forward"

Spared == FlagTracks /\ HooksSpareInference

(* Whatever hooks are on the layers, with the flag down they reflect nothing. *)
LEMMA HooksAreSilent ==
  ASSUME NEW r \in Ranks, ~active[r]
  PROVE  Reflections(r) = <<>>
<1> DEFINE seqs == [l \in 1..Layers |-> <<>>]
<1>1. Layers \in Nat
  BY ForwardAssumption
<1>2. seqs \in Seq(Seq({}))
  <2>1. <<>> \in Seq({})
    BY EmptySeq
  <2>2. seqs \in [1..Layers -> Seq({})]
    BY <2>1
  <2> QED BY <1>1, <2>2, SeqDef
<1>3. Reflections(r) = FlattenSeq(seqs)
  BY DEF Reflections
<1> HIDE DEF seqs
<1>4. FlattenSeq(seqs) \in Seq({})
  BY <1>2, FlattenMembers
<1>5. \A s \in Seq({}) : s = <<>>
  <2> SUFFICES ASSUME NEW s \in Seq({}), s # <<>> PROVE FALSE
    OBVIOUS
  <2>1. Head(s) \in {}
    BY HeadTailProperties
  <2> QED BY <2>1
<1> QED BY <1>3, <1>4, <1>5

LEMMA ReturnSpares ==
  ASSUME Lists, HooksSpareInference, NEW r \in Ranks, NEW result, result.plain = TRUE,
         \/ returned'[r] = returned[r]
         \/ returned'[r] = Append(returned[r], result)
  PROVE  \A c \in DOMAIN returned'[r] : returned'[r][c].plain
<1>1. PICK S : returned \in [Ranks -> Seq(S)]
  BY DEF Lists
<1>2. returned[r] \in Seq(S)
  BY <1>1
<1>3. \A c \in 1..Len(returned[r]) : returned[r][c].plain
  BY <1>2, LenProperties DEF HooksSpareInference
<1>4. CASE returned'[r] = Append(returned[r], result)
  <2>1. /\ DOMAIN returned'[r] = 1..(Len(returned[r]) + 1)
        /\ \A c \in 1..Len(returned[r]) : returned'[r][c] = returned[r][c]
        /\ returned'[r][Len(returned[r]) + 1] = result
        /\ Len(returned[r]) \in Nat
    BY <1>2, <1>4, AppendProperties, LenProperties
  <2>2. ASSUME NEW c \in 1..(Len(returned[r]) + 1) PROVE returned'[r][c].plain
    <3>1. c \in 1..Len(returned[r]) \/ c = Len(returned[r]) + 1
      BY <2>1
    <3>2. CASE c \in 1..Len(returned[r])
      BY <1>3, <2>1, <3>2
    <3>3. CASE c = Len(returned[r]) + 1
      BY <2>1, <3>3
    <3> QED BY <3>1, <3>2, <3>3
  <2> QED BY <2>1, <2>2
<1>5. CASE returned'[r] = returned[r]
  BY <1>5 DEF HooksSpareInference
<1> QED BY <1>4, <1>5

(* The flag follows the rank into the forward and out of it, also when it raises. *)
LEMMA FlagFollows ==
  ASSUME Shapes, HookTypes, FlagTracks, ForwardStep
  PROVE  FlagTracks'
<1>1. /\ \A r \in Ranks : active[r] <=> pc[r] = "forward"
      /\ pc \in [Ranks -> Points] /\ active \in [Ranks -> BOOLEAN]
  BY DEF FlagTracks, Shapes, HookTypes
<1>2. ASSUME NEW r \in Ranks, NEW there, pc' = [pc EXCEPT ![r] = there], there # "forward",
             pc[r] # "forward", active' = active
      PROVE  FlagTracks'
  BY <1>1, <1>2 DEF FlagTracks
<1>3. ASSUME NEW r \in Ranks, RankStep(r) PROVE FlagTracks'
  <2>1. CASE Begin(r)
    <3>1. /\ pc[r] = "idle" /\ active' = active
          /\ pc' = [pc EXCEPT ![r] = IF Tp > 1 THEN "barrier" ELSE "synced"]
      BY <2>1 DEF Begin, Goto
    <3> QED BY <1>2, <3>1
  <2>2. CASE Receive(r)
    BY <1>2, <2>2 DEF Receive, Goto
  <2>3. CASE Prepare(r)
    BY <1>2, <2>3 DEF Prepare, Goto
  <2>4. CASE HooksRaise(r) \/ LayoutRaises(r)
    BY <1>2, <2>4 DEF HooksRaise, LayoutRaises, Return, Goto
  <2>5. CASE Enter(r)
    <3>1. pc' = [pc EXCEPT ![r] = "forward"] /\ active' = [active EXCEPT ![r] = TRUE]
      BY <2>5 DEF Enter, Goto
    <3> QED BY <1>1, <3>1 DEF FlagTracks
  <2>6. CASE ModelRaises(r)
    <3>1. pc' = [pc EXCEPT ![r] = "idle"] /\ active' = [s \in Ranks |-> active[s] /\ s \notin {r}]
      BY <2>6 DEF ModelRaises, Return, Goto, LowerFlag
    <3>2. ASSUME NEW s \in Ranks PROVE active'[s] <=> pc'[s] = "forward"
      BY <1>1, <3>1
    <3> QED BY <3>2 DEF FlagTracks
  <2>7. CASE Finish(r)
    <3>1. pc[r] = "computed" /\ active' = active /\ pc' = [pc EXCEPT ![r] = "idle"]
      BY <2>7 DEF Finish, Return, Goto
    <3> QED BY <1>2, <3>1
  <2> QED BY <1>3, <2>1, <2>2, <2>3, <2>4, <2>5, <2>6, <2>7 DEF RankStep
<1>4. ASSUME NEW p \in Stages, StageStep(p) PROVE FlagTracks'
  <2>1. CASE Barrier(p)
    <3>1. /\ active' = active /\ \A r \in Ranks : r[2] = p => pc[r] = "barrier"
          /\ \A r \in Ranks : pc'[r] =
               IF r[2] # p THEN pc[r] ELSE IF r = Driver(r) THEN "barrier2" ELSE "receive"
      BY <2>1 DEF Barrier, StageAt, StageRanks
    <3> QED BY <1>1, <3>1 DEF FlagTracks
  <2>2. CASE Barrier2(p)
    <3>1. /\ active' = active /\ \A r \in Ranks : r[2] = p => pc[r] = "barrier2"
          /\ \A r \in Ranks : pc'[r] = IF r[2] = p THEN "synced" ELSE pc[r]
      BY <2>2 DEF Barrier2, StageAt, StageRanks, StageGoes
    <3> QED BY <1>1, <3>1 DEF FlagTracks
  <2>3. CASE Model(p)
    <3>1. /\ active' = [r \in Ranks |-> active[r] /\ r \notin StageRanks(p)]
          /\ \A r \in Ranks : pc'[r] = pc[r] \/ r[2] = p
          /\ \A r \in Ranks : r[2] = p => pc'[r] # "forward"
          /\ \A r \in Ranks : r[2] # p => pc'[r] = pc[r]
      BY <2>3 DEF Model, LowerFlag, StageGoes
    <3>2. ASSUME NEW r \in Ranks PROVE active'[r] <=> pc'[r] = "forward"
      BY <1>1, <3>1 DEF StageRanks
    <3> QED BY <3>2 DEF FlagTracks
  <2>4. CASE InferenceStep(p)
    BY <1>1, <2>4 DEF InferenceStep, FlagTracks
  <2> QED BY <1>4, <2>1, <2>2, <2>3, <2>4 DEF StageStep
<1>5. ASSUME Abandon PROVE FlagTracks'
  BY <1>1, <1>5 DEF Abandon, FlagTracks
<1> QED BY <1>3, <1>4, <1>5 DEF ForwardStep

LEMMA ForwardSpares ==
  ASSUME Lists, Shapes, HookTypes, Spared, ForwardStep
  PROVE  Spared'
<1>1. FlagTracks /\ HooksSpareInference
  BY DEF Spared
<1>2. PICK S : returned \in [Ranks -> Seq(S)]
  BY DEF Lists
<1>3. Raised.plain = TRUE /\ \A as : Artifacts(as).plain = TRUE
  BY DEF Raised, Artifacts
<1>5. ASSUME \A r \in Ranks : \E result : result.plain = TRUE /\
               (returned'[r] = returned[r] \/ returned'[r] = Append(returned[r], result))
      PROVE  HooksSpareInference'
  <2>1. ASSUME NEW r \in Ranks PROVE \A c \in DOMAIN returned'[r] : returned'[r][c].plain
    BY <1>1, <1>5, ReturnSpares
  <2> QED BY <2>1 DEF HooksSpareInference
<1>6. ASSUME NEW r \in Ranks, NEW result, result.plain = TRUE, Return(r, result)
      PROVE  HooksSpareInference'
  <2>1. returned' = [returned EXCEPT ![r] = Append(@, result)]
    BY <1>6 DEF Return
  <2> QED BY <1>2, <1>5, <1>6, <2>1
<1>7. ASSUME UNCHANGED returned PROVE HooksSpareInference'
  BY <1>1, <1>7 DEF HooksSpareInference
<1>8. ASSUME NEW r \in Ranks, RankStep(r) PROVE HooksSpareInference'
  <2>1. CASE Begin(r) \/ Receive(r) \/ Prepare(r) \/ Enter(r)
    BY <1>7, <2>1 DEF Begin, Receive, Prepare, Enter
  <2>2. CASE HooksRaise(r) \/ LayoutRaises(r) \/ ModelRaises(r)
    BY <1>3, <1>6, <2>2 DEF HooksRaise, LayoutRaises, ModelRaises
  <2>3. CASE Finish(r)
    <3>1. PICK as : Return(r, Artifacts(as))
      BY <2>3 DEF Finish
    <3> QED BY <1>3, <1>6, <3>1
  <2> QED BY <1>8, <2>1, <2>2, <2>3 DEF RankStep
<1>9. ASSUME NEW p \in Stages, StageStep(p) PROVE HooksSpareInference'
  <2>1. CASE Barrier(p) \/ Barrier2(p)
    BY <1>7, <2>1 DEF Barrier, Barrier2
  <2>2. CASE Model(p)
    <3>1. \/ returned' = returned
          \/ returned' = [r \in Ranks |->
               IF r[2] = p THEN Append(returned[r], Artifacts(<<>>)) ELSE returned[r]]
      BY <2>2 DEF Model
    <3> QED BY <1>3, <1>5, <1>7, <3>1
  <2>3. CASE InferenceStep(p)
    <3>1. /\ \A r \in Ranks : r[2] = p => pc[r] = "idle"
          /\ returned' = [r \in Ranks |->
               IF r[2] = p THEN Append(returned[r], Inference(Reflections(r) = <<>>)) ELSE returned[r]]
      BY <2>3 DEF InferenceStep, StageAt, StageRanks
    <3>2. ASSUME NEW r \in Ranks, r[2] = p PROVE Inference(Reflections(r) = <<>>).plain = TRUE
      <4>1. pc[r] # "forward"
        BY <3>1, <3>2
      <4>2. ~active[r]
        BY <1>1, <4>1 DEF FlagTracks
      <4>3. Reflections(r) = <<>>
        BY <4>2, HooksAreSilent
      <4> QED BY <4>3 DEF Inference
    <3>3. \A r \in Ranks : \E result : result.plain = TRUE /\
            (returned'[r] = returned[r] \/ returned'[r] = Append(returned[r], result))
      <4>1. ASSUME NEW r \in Ranks, r[2] # p
            PROVE  \E result : result.plain = TRUE /\
                     (returned'[r] = returned[r] \/ returned'[r] = Append(returned[r], result))
        BY <1>3, <3>1, <4>1
      <4>2. ASSUME NEW r \in Ranks, r[2] = p
            PROVE  \E result : result.plain = TRUE /\
                     (returned'[r] = returned[r] \/ returned'[r] = Append(returned[r], result))
        BY <3>1, <3>2, <4>2
      <4> QED BY <4>1, <4>2
    <3> QED BY <1>5, <3>3
  <2> QED BY <1>9, <2>1, <2>2, <2>3 DEF StageStep
<1>10. ASSUME Abandon PROVE HooksSpareInference'
  BY <1>7, <1>10 DEF Abandon
<1> QED BY <1>1, <1>8, <1>9, <1>10, FlagFollows DEF ForwardStep, Spared

LEMMA SparedInit == Init => Spared
BY EmptySeq DEF Init, ForwardInit, Spared, FlagTracks, HooksSpareInference

LEMMA SparedNext == ValidationTypes /\ Spared /\ [Next]_vars => Spared'
<1> SUFFICES ASSUME ValidationTypes, Spared, [Next]_vars PROVE Spared'
  OBVIOUS
<1>1. Lists /\ Shapes /\ HookTypes
  BY DEF ValidationTypes, RanksInv, RankTypes
<1>2. CASE Forward
  BY <1>1, <1>2, ForwardSpares DEF Forward
<1>3. CASE UNCHANGED <<pc, active, returned>>
  BY <1>3 DEF Spared, FlagTracks, HooksSpareInference
<1>4. CASE Arrive \/ Reserve \/ ChunkBegins \/ ChunkAnswered \/ ChunkFails \/ Verdict
             \/ MiningStarts \/ MiningEnds \/ UNCHANGED vars
  <2>1. UNCHANGED forwardVars
    BY <1>4 DEF Arrive, Reserve, ChunkBegins, ChunkAnswered, ChunkFails, Verdict,
                MiningStarts, MiningEnds, vars
  <2> QED BY <1>3, <2>1 DEF forwardVars
<1>5. CASE SendChunk \/ Mine \/ Infer
  BY <1>3, <1>5 DEF SendChunk, Mine, Infer, OtherCall
<1> QED BY <1>2, <1>4, <1>5 DEF Next, Handler

(* layer_hooks.py:24, "inference and PoC coexist without interference": whatever hooks   *)
(* rounds, present, past or half constructed, have left on the layers, no inference step  *)
(* is reflected; for every grid, fault and sequence of calls.                             *)
THEOREM InferenceIsSpared == Spec => []HooksSpareInference
<1>1. Spared => HooksSpareInference
  BY DEF Spared
<1> QED BY <1>1, SparedInit, SparedNext, ValidationTypesInit, ValidationTypesNext, PTL DEF Spec

--------------------------------------------------------------------------------
(* The union of the artifacts keeps the first of each nonce and leaves no nonce out. *)
LEMMA AddUnseenKeeps ==
  ASSUME NEW A, NEW u \in Seq(A), NEW x \in A
  PROVE  /\ AddUnseen(u, x) \in Seq(A)
         /\ \E i \in 1..Len(AddUnseen(u, x)) : AddUnseen(u, x)[i].nonce = x.nonce
         /\ \A j \in 1..Len(u) :
              \E i \in 1..Len(AddUnseen(u, x)) : AddUnseen(u, x)[i].nonce = u[j].nonce
<1>1. Len(u) \in Nat /\ DOMAIN u = 1..Len(u)
  BY LenProperties
<1>2. CASE \E i \in DOMAIN u : u[i].nonce = x.nonce
  <2>1. AddUnseen(u, x) = u
    BY <1>2 DEF AddUnseen
  <2> QED BY <1>1, <1>2, <2>1
<1>3. CASE ~\E i \in DOMAIN u : u[i].nonce = x.nonce
  <2>1. AddUnseen(u, x) = Append(u, x)
    BY <1>3 DEF AddUnseen
  <2>2. /\ Append(u, x) \in Seq(A) /\ Len(Append(u, x)) = Len(u) + 1
        /\ Append(u, x)[Len(u) + 1] = x
        /\ \A i \in 1..Len(u) : Append(u, x)[i] = u[i]
    BY AppendProperties
  <2>3. /\ Len(u) + 1 \in 1..(Len(u) + 1)
        /\ \A i \in 1..Len(u) : i \in 1..(Len(u) + 1)
    BY <1>1
  <2> HIDE DEF AddUnseen
  <2> QED BY <2>1, <2>2, <2>3
<1> QED BY <1>2, <1>3

(* The union has one artifact per nonce. *)
OnePerNonce(u) == \A i, j \in DOMAIN u : u[i].nonce = u[j].nonce => i = j

LEMMA AddUnseenIsOne ==
  ASSUME NEW A, NEW u \in Seq(A), NEW x \in A, OnePerNonce(u)
  PROVE  OnePerNonce(AddUnseen(u, x))
<1>1. CASE \E i \in DOMAIN u : u[i].nonce = x.nonce
  BY <1>1 DEF AddUnseen
<1>2. CASE ~\E i \in DOMAIN u : u[i].nonce = x.nonce
  <2>1. AddUnseen(u, x) = Append(u, x)
    BY <1>2 DEF AddUnseen
  <2>2. /\ DOMAIN Append(u, x) = 1..(Len(u) + 1) /\ Len(u) \in Nat /\ DOMAIN u = 1..Len(u)
        /\ Append(u, x)[Len(u) + 1] = x
        /\ \A i \in 1..Len(u) : Append(u, x)[i] = u[i]
    BY AppendProperties, LenProperties
  <2> DEFINE v == Append(u, x)
  <2> HIDE DEF v
  <2>3. ASSUME NEW i \in 1..(Len(u) + 1), NEW j \in 1..(Len(u) + 1), v[i].nonce = v[j].nonce
        PROVE  i = j
    <3>1. (i \in DOMAIN u \/ i = Len(u) + 1) /\ (j \in DOMAIN u \/ j = Len(u) + 1)
      BY <2>2
    <3>2. CASE i \in DOMAIN u /\ j \in DOMAIN u
      BY <2>2, <2>3, <3>2 DEF OnePerNonce, v
    <3>3. CASE i \in DOMAIN u /\ j = Len(u) + 1
      BY <1>2, <2>2, <2>3, <3>3 DEF v
    <3>4. CASE i = Len(u) + 1 /\ j \in DOMAIN u
      BY <1>2, <2>2, <2>3, <3>4 DEF v
    <3> QED BY <3>1, <3>2, <3>3, <3>4
  <2> QED BY <2>1, <2>2, <2>3 DEF OnePerNonce, v
<1> QED BY <1>1, <1>2

LEMMA MaxOfSubset ==
  ASSUME NEW n \in Nat, NEW s \in SUBSET (1..n), s # {}
  PROVE  Max(s) \in s
<1>1. IsFiniteSet(1..n)
  BY FS_Interval
<1>2. IsFiniteSet(s) /\ s \in SUBSET Nat
  <2>1. s \in SUBSET (1..n)
    OBVIOUS
  <2>2. IsFiniteSet(s)
    BY <1>1, <2>1, FS_Subset
  <2> QED BY <2>1, <2>2
<1>3. PICK x \in s : \A y \in s : y <= x
  BY <1>2, NatGreatest
<1>4. \A y \in s : x >= y
  BY <1>2, <1>3
<1> QED BY <1>3, <1>4 DEF Max

(* What FoldLeft computes on the way, for every set of positions. *)
LEMMA UnionRecursion ==
  ASSUME NEW A, NEW seq \in Seq(A)
  PROVE  \E f \in [SUBSET (1..Len(seq)) -> Seq(A)] : \A s \in SUBSET (1..Len(seq)) :
           f[s] = IF s = {} THEN <<>> ELSE AddUnseen(f[s \ {Max(s)}], seq[Max(s)])
<1>1. Len(seq) \in Nat /\ \A j \in 1..Len(seq) : seq[j] \in A
  BY LenProperties, ElementOfSeq
<1> DEFINE S == 1..Len(seq)
           pick == [s \in SUBSET S |-> Max(s)]
           step == [p \in S \X Seq(A) |-> AddUnseen(p[2], seq[p[1]])]
<1>2. IsFiniteSet(S)
  BY <1>1, FS_Interval
<1>3. \A s \in SUBSET S : pick[s] = Max(s)
  OBVIOUS
<1>4. \A s \in SUBSET S : s # {} => pick[s] \in s
  BY <1>1, <1>3, MaxOfSubset
<1>5. \A x \in S, v \in Seq(A) : step[<<x, v>>] = AddUnseen(v, seq[x])
  OBVIOUS
<1>6. ASSUME NEW x \in S, NEW v \in Seq(A) PROVE step[<<x, v>>] \in Seq(A)
  <2>1. seq[x] \in A
    BY <1>1
  <2>2. AddUnseen(v, seq[x]) \in Seq(A)
    BY <2>1, AddUnseenKeeps
  <2> QED BY <1>5, <2>2
<1>7. <<>> \in Seq(A)
  BY EmptySeq
<1>8. \A s \in SUBSET S : s # {} => pick[s] \in S /\ s \ {pick[s]} \in SUBSET S
  BY <1>4
<1> HIDE DEF S, pick, step, AddUnseen
<1>0. PickAndStep(S, Seq(A), <<>>, pick, step)
  BY <1>2, <1>4, <1>6, <1>7 DEF PickAndStep
<1>9. PICK f : Folds(f, S, Seq(A), <<>>, pick, step)
  BY <1>0, SetRecursion
<1>90. /\ f \in [SUBSET S -> Seq(A)]
      /\ \A s \in SUBSET S :
           f[s] = IF s = {} THEN <<>> ELSE step[<<pick[s], f[s \ {pick[s]}]>>]
  BY <1>9 DEF Folds
<1>10. ASSUME NEW s \in SUBSET S
       PROVE  f[s] = IF s = {} THEN <<>> ELSE AddUnseen(f[s \ {Max(s)}], seq[Max(s)])
  <2>1. CASE s = {}
    BY <1>90, <2>1
  <2>2. CASE s # {}
    <3>1. f[s] = step[<<pick[s], f[s \ {pick[s]}]>>]
      BY <1>90, <2>2
    <3>2. pick[s] \in S /\ f[s \ {pick[s]}] \in Seq(A)
      BY <1>8, <1>90, <2>2
    <3>3. f[s] = AddUnseen(f[s \ {pick[s]}], seq[pick[s]])
      BY <1>5, <3>1, <3>2
    <3> QED BY <1>3, <2>2, <3>3
  <2> QED BY <2>1, <2>2
<1> QED BY <1>90, <1>10 DEF S

LEMMA UnionOfArtifacts ==
  ASSUME NEW A, NEW seq \in Seq(A)
  PROVE  /\ FoldLeft(AddUnseen, <<>>, seq) \in Seq(A)
         /\ OnePerNonce(FoldLeft(AddUnseen, <<>>, seq))
         /\ \A j \in 1..Len(seq) : \E i \in 1..Len(FoldLeft(AddUnseen, <<>>, seq)) :
              FoldLeft(AddUnseen, <<>>, seq)[i].nonce = seq[j].nonce
<1> DEFINE n == Len(seq)
           Eq(f) == f = [s \in SUBSET (1..n) |->
                           IF s = {} THEN <<>> ELSE AddUnseen(f[s \ {Max(s)}], seq[Max(s)])]
           union == CHOOSE f : Eq(f)
<1>1. n \in Nat /\ DOMAIN seq = 1..n /\ \A j \in 1..n : seq[j] \in A
  BY LenProperties, ElementOfSeq
<1>2. Eq(union)
  <2>1. \E f : Eq(f)
    <3>1. PICK f \in [SUBSET (1..n) -> Seq(A)] : \A s \in SUBSET (1..n) :
             f[s] = IF s = {} THEN <<>> ELSE AddUnseen(f[s \ {Max(s)}], seq[Max(s)])
      BY UnionRecursion
    <3>2. Eq(f)
      BY <3>1
    <3> QED BY <3>2
  <2> HIDE DEF Eq
  <2> QED BY <2>1
<1>3. FoldLeft(AddUnseen, <<>>, seq) = union[1..n]
  BY <1>1 DEF FoldLeft, MapThenFoldSet
<1> HIDE DEF union, n
<1> DEFINE Has(k) == \A j \in 1..k : \E i \in 1..Len(union[1..k]) :
                        union[1..k][i].nonce = seq[j].nonce
           P == {k \in Nat : k <= n => union[1..k] \in Seq(A) /\ OnePerNonce(union[1..k]) /\ Has(k)}
<1>4. 0 \in P
  <2>1. 1..0 = {} /\ {} \in SUBSET (1..n)
    OBVIOUS
  <2>2. union[{}] = <<>>
    BY <1>2
  <2>3. <<>> \in Seq(A)
    BY EmptySeq
  <2>4. union[1..0] \in Seq(A)
    BY <2>1, <2>2, <2>3, Zenon
  <2>5. OnePerNonce(union[1..0])
    <3>1. DOMAIN <<>> = {}
      OBVIOUS
    <3>2. OnePerNonce(<<>>)
      BY <3>1 DEF OnePerNonce
    <3> QED BY <2>1, <2>2, <3>2, Zenon
  <2> QED BY <2>4, <2>5
<1>5. ASSUME NEW k \in Nat, k \in P PROVE k + 1 \in P
  <2> SUFFICES ASSUME k + 1 <= n
               PROVE  union[1..(k + 1)] \in Seq(A) /\ OnePerNonce(union[1..(k + 1)]) /\ Has(k + 1)
    OBVIOUS
  <2> DEFINE u == union[1..k]
             v == union[1..(k + 1)]
             x == seq[k + 1]
  <2>1. Max(1..(k + 1)) = k + 1
    BY MaxOfFirst
  <2>2. /\ (1..(k + 1)) \ {k + 1} = 1..k /\ 1..(k + 1) # {}
        /\ 1..(k + 1) \in SUBSET (1..n) /\ k + 1 \in 1..n /\ k <= n
    <3>1. \A j \in 1..(k + 1) : j \in 1..n
      BY <1>1
    <3>2. k + 1 \in 1..(k + 1) /\ k <= n
      BY <1>1
    <3>3. \A j : j \in 1..k <=> j \in 1..(k + 1) /\ j # k + 1
      OBVIOUS
    <3> QED BY <3>1, <3>2, <3>3, Zenon
  <2>3. v = AddUnseen(u, x)
    BY <1>2, <2>1, <2>2
  <2>4. /\ u \in Seq(A) /\ OnePerNonce(u)
        /\ \A j \in 1..k : \E i \in 1..Len(u) : u[i].nonce = seq[j].nonce
    BY <1>5, <2>2
  <2>5. x \in A
    BY <1>1, <2>2
  <2> HIDE DEF u, v, x
  <2>6. /\ v \in Seq(A)
        /\ \E i \in 1..Len(v) : v[i].nonce = x.nonce
        /\ \A j \in 1..Len(u) : \E i \in 1..Len(v) : v[i].nonce = u[j].nonce
    <3>1. u \in Seq(A) /\ x \in A
      BY <2>4, <2>5
    <3>2. AddUnseen(u, x) \in Seq(A)
      BY <3>1, AddUnseenKeeps
    <3>3. \E i \in 1..Len(AddUnseen(u, x)) : AddUnseen(u, x)[i].nonce = x.nonce
      BY <3>1, AddUnseenKeeps
    <3>4. \A j \in 1..Len(u) :
            \E i \in 1..Len(AddUnseen(u, x)) : AddUnseen(u, x)[i].nonce = u[j].nonce
      BY <3>1, AddUnseenKeeps
    <3> QED BY <2>3, <3>2, <3>3, <3>4, Zenon
  <2>7. ASSUME NEW j \in 1..(k + 1)
        PROVE  \E i \in 1..Len(v) : v[i].nonce = seq[j].nonce
    <3>1. CASE j \in 1..k
      BY <2>4, <2>6, <3>1
    <3>2. CASE j = k + 1
      BY <2>6, <3>2 DEF x
    <3>3. j \in 1..k \/ j = k + 1
      OBVIOUS
    <3> QED BY <3>1, <3>2, <3>3
  <2>8. OnePerNonce(v)
    BY <2>3, <2>4, <2>5, AddUnseenIsOne
  <2> QED BY <2>6, <2>7, <2>8 DEF v
<1> HIDE DEF P
<1>6. P = Nat
  <2>1. P \in SUBSET Nat
    BY DEF P
  <2> QED BY <1>4, <1>5, <2>1, SetInduction
<1>7. n \in P
  BY <1>1, <1>6
<1>8. union[1..n] \in Seq(A) /\ OnePerNonce(union[1..n]) /\ Has(n)
  BY <1>1, <1>7 DEF P
<1> QED BY <1>3, <1>8 DEF n

(* Keep takes each position of the set once, in order. *)
LEMMA KeepIsEnumeration ==
  ASSUME NEW clean \in SUBSET Nat, IsFiniteSet(clean), NEW seq
  PROVE  /\ Cardinality(clean) \in Nat /\ DOMAIN Keep(seq, clean) = 1..Cardinality(clean)
         /\ clean_idx(clean) \in [1..Cardinality(clean) -> clean]
         /\ \A i, j \in 1..Cardinality(clean) : i < j => clean_idx(clean)[i] < clean_idx(clean)[j]
         /\ \A x \in clean : \E i \in 1..Cardinality(clean) : clean_idx(clean)[i] = x
         /\ \A i \in 1..Cardinality(clean) : Keep(seq, clean)[i] = seq[clean_idx(clean)[i]]
<1>1. Cardinality(clean) \in Nat
  BY FS_CardinalityType
<1>2. \E f \in [1..Cardinality(clean) -> clean] : \A i, j \in DOMAIN f : i < j => f[i] < f[j]
  BY IncreasingExists DEF Increasing
<1>3. /\ clean_idx(clean) \in [1..Cardinality(clean) -> clean]
      /\ \A i, j \in DOMAIN clean_idx(clean) : i < j => clean_idx(clean)[i] < clean_idx(clean)[j]
  BY <1>2 DEF clean_idx
<1>4. \A x \in clean : \E i \in 1..Cardinality(clean) : clean_idx(clean)[i] = x
  BY <1>3, IncreasingIsBijective DEF Increasing
<1>5. /\ DOMAIN Keep(seq, clean) = 1..Cardinality(clean)
      /\ \A i \in 1..Cardinality(clean) : Keep(seq, clean)[i] = seq[clean_idx(clean)[i]]
  BY DEF Keep
<1>6. \A i, j \in 1..Cardinality(clean) : i < j => clean_idx(clean)[i] < clean_idx(clean)[j]
  BY <1>3
<1> QED BY <1>1, <1>3, <1>4, <1>5, <1>6

LEMMA KeepNothing ==
  ASSUME NEW seq
  PROVE  Keep(seq, {}) = <<>>
<1>1. Cardinality({}) = 0 /\ 1..0 = {}
  BY FS_EmptySet
<1>2. Keep(seq, {}) \in [1..0 -> {}]
  BY <1>1 DEF Keep
<1>3. Keep(seq, {}) \in Seq({}) /\ Len(Keep(seq, {})) = 0
  BY <1>2, SeqDef, LenProperties
<1> QED BY <1>3, EmptySeq

(* Reflections of one stage after those of the stages before it. *)
LEMMA SeedsFollow ==
  ASSUME NEW hash, NEW a \in Nat, NEW b \in Nat
  PROVE  [l \in 1..a |-> LayerSeed(hash, l)] \o [l \in 1..b |-> LayerSeed(hash, a + l)]
           = [l \in 1..(a + b) |-> LayerSeed(hash, l)]
<1> DEFINE S == {LayerSeed(hash, l) : l \in Nat}
           s == [l \in 1..a |-> LayerSeed(hash, l)]
           t == [l \in 1..b |-> LayerSeed(hash, a + l)]
           u == [l \in 1..(a + b) |-> LayerSeed(hash, l)]
<1>1. \A l \in Nat : LayerSeed(hash, l) \in S
  OBVIOUS
<1>2. s \in [1..a -> S] /\ t \in [1..b -> S] /\ u \in [1..(a + b) -> S]
  <2> HIDE DEF S
  <2> QED BY <1>1
<1>3. /\ \A l \in 1..a : s[l] = LayerSeed(hash, l)
      /\ \A l \in 1..b : t[l] = LayerSeed(hash, a + l)
      /\ \A l \in 1..(a + b) : u[l] = LayerSeed(hash, l)
  OBVIOUS
<1> HIDE DEF S, s, t, u
<1>4. s \in Seq(S) /\ t \in Seq(S) /\ u \in Seq(S) /\ Len(s) = a /\ Len(t) = b /\ Len(u) = a + b
  BY <1>2, SeqDef, LenProperties
<1>5. /\ s \o t \in Seq(S) /\ Len(s \o t) = a + b
      /\ \A i \in 1..(a + b) : (s \o t)[i] = IF i <= a THEN s[i] ELSE t[i - a]
  BY <1>4, ConcatProperties
<1>6. ASSUME NEW i \in 1..(a + b) PROVE (s \o t)[i] = u[i]
  <2>1. CASE i <= a
    <3>1. i \in 1..a
      BY <2>1
    <3> QED BY <1>3, <1>5, <2>1, <3>1
  <2>2. CASE ~(i <= a)
    <3>1. i - a \in 1..b /\ a + (i - a) = i
      BY <2>2
    <3>2. t[i - a] = LayerSeed(hash, a + (i - a))
      BY <1>3, <3>1
    <3>3. t[i - a] = LayerSeed(hash, i)
      BY <3>1, <3>2
    <3> QED BY <1>3, <1>5, <2>2, <3>3
  <2> QED BY <2>1, <2>2
<1>7. s \o t = u
  BY <1>4, <1>5, <1>6, SeqEqual
<1> QED BY <1>7 DEF s, t, u

--------------------------------------------------------------------------------
(* The control of a call that no rank has spoilt: where its ranks can be. *)

(* A rank one of whose calls ended with an error. *)
Bad(r) == \E c \in DOMAIN returned[r] : ~returned[r][c].ok
Halting == {"synced", "ready", "forward"}

PocOnly ==
  /\ \A c \in DOMAIN calls : calls[c].kind = "poc" => calls[c].block_hash \in Hashes
  /\ \A r \in Ranks : pc[r] # "idle" => Call(r).kind = "poc"

AtEnd == \A r \in Ranks : pc[r] = "computed" => r[2] = Pp - 1

LastWord ==
  \A r \in Ranks : \A c \in DOMAIN returned[r] :
    ~returned[r][c].ok => c = Len(returned[r]) /\ pc[r] \in Entering

Together ==
  \A r, s \in Ranks : r[2] = s[2] /\ ~Bad(r) /\ ~Bad(s) /\ pc[r] \in Halting => pc[s] \in Halting

Stuck ==
  \A r, s \in Ranks : r[2] = s[2] /\ Bad(r) /\ ~Bad(s) => pc[s] \in Halting

FewRaised == Cardinality({r \in Ranks : Bad(r)}) <= faults

Control == PocOnly /\ AtEnd /\ LastWord /\ Together /\ Stuck /\ FewRaised

LEMMA SameBad ==
  ASSUME NEW r \in Ranks, returned'[r] = returned[r]
  PROVE  Bad(r)' <=> Bad(r)
BY DEF Bad

LEMMA LongerBad ==
  ASSUME Lists, NEW r \in Ranks, NEW x, returned'[r] = Append(returned[r], x), x.ok \in BOOLEAN
  PROVE  /\ Bad(r)' <=> Bad(r) \/ ~x.ok
         /\ Len(returned[r]) \in Nat /\ Len(returned'[r]) = Len(returned[r]) + 1
         /\ DOMAIN returned[r] = 1..Len(returned[r])
         /\ DOMAIN returned'[r] = 1..(Len(returned[r]) + 1)
         /\ returned'[r][Len(returned[r]) + 1] = x
         /\ \A c \in 1..Len(returned[r]) : returned'[r][c] = returned[r][c]
<1>1. PICK S : returned \in [Ranks -> Seq(S)]
  BY DEF Lists
<1>2. returned[r] \in Seq(S)
  BY <1>1
<1>3. /\ DOMAIN returned[r] = 1..Len(returned[r])
      /\ DOMAIN returned'[r] = 1..(Len(returned[r]) + 1)
      /\ Len(returned'[r]) = Len(returned[r]) + 1
      /\ \A c \in 1..Len(returned[r]) : returned'[r][c] = returned[r][c]
      /\ returned'[r][Len(returned[r]) + 1] = x
      /\ Len(returned[r]) \in Nat
  BY <1>2, AppendProperties, LenProperties
<1> DEFINE m == Len(returned[r])
<1>4. \A c \in 1..(m + 1) : c \in 1..m \/ c = m + 1
  BY <1>3
<1>5. \A c \in 1..m : c \in 1..(m + 1)
  BY <1>3
<1>6. m + 1 \in 1..(m + 1)
  BY <1>3
<1> HIDE DEF m
<1>7. (\E c \in 1..(m + 1) : ~returned'[r][c].ok) <=> (\E c \in 1..m : ~returned[r][c].ok) \/ ~x.ok
  BY <1>3, <1>4, <1>5, <1>6 DEF m
<1>8. Bad(r)' <=> Bad(r) \/ ~x.ok
  BY <1>3, <1>7 DEF Bad, m
<1> QED BY <1>3, <1>8

LEMMA RanksFinite == IsFiniteSet(Ranks)
<1>1. IsFiniteSet(0..(Tp - 1)) /\ IsFiniteSet(Stages)
  BY ForwardAssumption, FS_Interval DEF Stages
<1> QED BY <1>1, FS_Product DEF Ranks

(* As long as fewer ranks raised than a stage has, each stage has one that did not. *)
LEMMA Survivor ==
  ASSUME FewRaised, faults \in Nat, faults < Tp, NEW p \in Stages
  PROVE  \E r \in Ranks : r[2] = p /\ ~Bad(r)
<1>1. Tp \in Nat \ {0} /\ Pp \in Nat \ {0}
  BY ForwardAssumption
<1> SUFFICES ASSUME \A r \in Ranks : r[2] = p => Bad(r) PROVE FALSE
  OBVIOUS
<1> DEFINE T == 0..(Tp - 1)
           B == {r \in Ranks : Bad(r)}
           f == [i \in T |-> <<i, p>>]
<1>2. IsFiniteSet(T) /\ Cardinality(T) = Tp
  <2>1. Cardinality(T) = (Tp - 1) - 0 + 1 /\ IsFiniteSet(T)
    BY <1>1, FS_Interval
  <2> QED BY <1>1, <2>1
<1>3. \A i \in T : <<i, p>> \in B
  <2>1. \A i \in T : <<i, p>> \in Ranks /\ <<i, p>>[2] = p
    BY DEF Ranks
  <2> QED BY <2>1
<1>4. f \in Injection(T, B)
  <2>1. f \in [T -> B]
    BY <1>3
  <2>2. \A i, j \in T : f[i] = f[j] => i = j
    BY <1>3
  <2> HIDE DEF f, T, B
  <2> QED BY <2>1, <2>2 DEF Injection, IsInjective
<1>5. IsFiniteSet(B)
  <2>1. B \in SUBSET Ranks
    OBVIOUS
  <2> HIDE DEF B
  <2> QED BY <2>1, RanksFinite, FS_Subset
<1>6. Cardinality(T) <= Cardinality(B)
  <2> HIDE DEF T, B, f
  <2> QED BY <1>4, <1>5, FS_Injection
<1>7. Cardinality(B) <= faults /\ Cardinality(B) \in Nat
  <2>1. Cardinality(B) \in Nat
    <3> HIDE DEF B
    <3> QED BY <1>5, FS_CardinalityType
  <2> QED BY <2>1 DEF FewRaised
<1> HIDE DEF T, B, f
<1> QED BY <1>1, <1>2, <1>6, <1>7

(* A collective step of a stage has no rank that raised. *)
LEMMA StageIsClean ==
  ASSUME Control, faults \in Nat, faults < Tp, NEW p \in Stages,
         \/ \A r \in Ranks : r[2] = p => pc[r] \notin Halting
         \/ \A r \in Ranks : r[2] = p => pc[r] \notin Entering,
         NEW r \in Ranks, r[2] = p
  PROVE  ~Bad(r)
<1>1. CASE \A s \in Ranks : s[2] = p => pc[s] \notin Halting
  <2>1. PICK s \in Ranks : s[2] = p /\ ~Bad(s)
    BY Survivor DEF Control
  <2>2. Bad(r) => pc[s] \in Halting
    BY <2>1 DEF Control, Stuck
  <2> QED BY <1>1, <2>1, <2>2
<1>2. CASE \A s \in Ranks : s[2] = p => pc[s] \notin Entering
  BY <1>2 DEF Control, LastWord, Bad
<1> QED BY <1>1, <1>2

(* A step in which nobody raises, for the ranks one by one and the stages one by one. *)
LEMMA LastWordStays ==
  ASSUME Lists, LastWord,
         \A r \in Ranks :
           \/ returned'[r] = returned[r] /\ (Bad(r) => pc'[r] \in Entering)
           \/ ~Bad(r) /\ \E x : x.ok = TRUE /\ returned'[r] = Append(returned[r], x)
  PROVE  LastWord' /\ \A r \in Ranks : Bad(r)' <=> Bad(r)
<1>1. ASSUME NEW r \in Ranks
      PROVE  /\ Bad(r)' <=> Bad(r)
             /\ \A c \in DOMAIN returned'[r] : ~returned'[r][c].ok =>
                  c = Len(returned'[r]) /\ pc'[r] \in Entering
  <2>1. CASE returned'[r] = returned[r] /\ (Bad(r) => pc'[r] \in Entering)
    BY <2>1, SameBad DEF LastWord, Bad
  <2>2. CASE ~Bad(r) /\ \E x : x.ok = TRUE /\ returned'[r] = Append(returned[r], x)
    <3>1. PICK x : x.ok = TRUE /\ returned'[r] = Append(returned[r], x)
      BY <2>2
    <3>2. ~Bad(r)'
      BY <2>2, <3>1, LongerBad
    <3> QED BY <2>2, <3>2 DEF Bad
  <2> QED BY <1>1, <2>1, <2>2
<1> QED BY <1>1 DEF LastWord

LEMMA StuckStays ==
  ASSUME Together, Stuck, FewRaised, \A r \in Ranks : Bad(r)' <=> Bad(r), faults' = faults,
         \A r \in Ranks :
           \/ \A s \in Ranks : s[2] = r[2] => (pc'[s] \in Halting <=> pc[s] \in Halting)
           \/ \A s \in Ranks : s[2] = r[2] =>
                ~Bad(s) /\ (pc'[s] \in Halting <=> pc'[r] \in Halting)
  PROVE  Together' /\ Stuck' /\ FewRaised'
<1>1. FewRaised'
  <2>1. {r \in Ranks : Bad(r)'} = {r \in Ranks : Bad(r)}
    OBVIOUS
  <2> QED BY <2>1 DEF FewRaised, Ranks, Stages
<1>2. ASSUME NEW r \in Ranks, NEW s \in Ranks, r[2] = s[2], ~Bad(r), ~Bad(s), pc'[r] \in Halting
      PROVE  pc'[s] \in Halting
  BY <1>2 DEF Together
<1>3. ASSUME NEW r \in Ranks, NEW s \in Ranks, r[2] = s[2], Bad(r), ~Bad(s)
      PROVE  pc'[s] \in Halting
  BY <1>3 DEF Stuck
<1>4. Together'
  BY <1>2 DEF Together
<1>5. Stuck'
  BY <1>3 DEF Stuck
<1> QED BY <1>1, <1>4, <1>5

LEMMA PocOnlyStays ==
  ASSUME PocOnly, calls' = calls,
         \A r \in Ranks :
           \/ pc'[r] = "idle"
           \/ Number(r)' = Number(r) /\ (pc[r] # "idle" \/ Call(r).kind = "poc")
  PROVE  PocOnly'
<1>1. ASSUME NEW r \in Ranks, pc'[r] # "idle" PROVE Call(r)'.kind = "poc"
  BY <1>1 DEF PocOnly, Call
<1> QED BY <1>1 DEF PocOnly

LEMMA RaiseKeepsControl ==
  ASSUME RanksInv, Control, faults \in Nat, faults < Tp, calls' = calls, faults' = faults + 1,
         NEW r \in Ranks, pc[r] \in Halting, Return(r, Raised)
  PROVE  Control'
<1>1. /\ returned' = [returned EXCEPT ![r] = Append(@, Raised)] /\ pc' = [pc EXCEPT ![r] = "idle"]
      /\ pc \in [Ranks -> Points] /\ Lists /\ Raised.ok = FALSE
  BY DEF Return, Goto, RanksInv, Shapes, Raised
<1>2. PICK S : returned \in [Ranks -> Seq(S)]
  BY <1>1 DEF Lists
<1>3. /\ returned'[r] = Append(returned[r], Raised) /\ pc'[r] = "idle"
      /\ \A s \in Ranks : s # r => returned'[s] = returned[s] /\ pc'[s] = pc[s]
  BY <1>1, <1>2
<1>4. ~Bad(r)
  <2>1. pc[r] \notin Entering
    BY DEF Halting, Entering
  <2> QED BY <2>1 DEF Control, LastWord, Bad
<1>5. Bad(r)' /\ \A s \in Ranks : s # r => (Bad(s)' <=> Bad(s))
  BY <1>1, <1>3, LongerBad, SameBad
<1>6. LastWord'
  <2>1. ASSUME NEW c \in DOMAIN returned'[r], ~returned'[r][c].ok
        PROVE  c = Len(returned'[r]) /\ pc'[r] \in Entering
    <3>1. /\ DOMAIN returned[r] = 1..Len(returned[r]) /\ Len(returned[r]) \in Nat
          /\ Len(returned'[r]) = Len(returned[r]) + 1
          /\ DOMAIN returned'[r] = 1..(Len(returned[r]) + 1)
          /\ \A d \in 1..Len(returned[r]) : returned'[r][d] = returned[r][d]
      BY <1>1, <1>3, LongerBad
    <3>2. c \notin 1..Len(returned[r])
      BY <1>4, <2>1, <3>1 DEF Bad
    <3>3. c = Len(returned[r]) + 1
      BY <3>1, <3>2
    <3> QED BY <1>3, <3>1, <3>3 DEF Entering
  <2>2. ASSUME NEW s \in Ranks, s # r, NEW c \in DOMAIN returned'[s], ~returned'[s][c].ok
        PROVE  c = Len(returned'[s]) /\ pc'[s] \in Entering
    BY <1>3, <2>2 DEF Control, LastWord
  <2> QED BY <2>1, <2>2 DEF LastWord
<1>7. Together'
  BY <1>3, <1>5 DEF Control, Together
<1>8. Stuck'
  <2>1. ASSUME NEW s \in Ranks, r[2] = s[2], s # r, ~Bad(s) PROVE pc'[s] \in Halting
    BY <1>3, <1>4, <2>1 DEF Control, Together
  <2>2. ASSUME NEW q \in Ranks, NEW s \in Ranks, q # r, q[2] = s[2], Bad(q), ~Bad(s), s # r
        PROVE  pc'[s] \in Halting
    BY <1>3, <2>2 DEF Control, Stuck
  <2> QED BY <1>5, <2>1, <2>2 DEF Stuck
<1>9. FewRaised'
  <2> DEFINE B == {s \in Ranks : Bad(s)}
             C == {s \in Ranks : Bad(s)'}
  <2>1. C = B \cup {r}
    BY <1>5
  <2>2. Cardinality(B) <= faults /\ r \notin B
    BY <1>4 DEF Control, FewRaised
  <2>3. IsFiniteSet(B)
    <3>1. B \in SUBSET Ranks
      OBVIOUS
    <3> QED BY <3>1, RanksFinite, FS_Subset
  <2> HIDE DEF B, C
  <2>4. Cardinality(B \cup {r}) = Cardinality(B) + 1 /\ Cardinality(B) \in Nat
    BY <2>2, <2>3, FS_AddElement, FS_CardinalityType
  <2>5. Cardinality(C) <= faults'
    BY <2>1, <2>2, <2>4
  <2> QED BY <2>5 DEF C, FewRaised, Ranks, Stages
<1>10. PocOnly'
  <2>1. \A s \in Ranks : pc'[s] = "idle" \/ (Number(s)' = Number(s) /\ pc'[s] = pc[s])
    BY <1>3 DEF Number
  <2>2. \A s \in Ranks :
          \/ pc'[s] = "idle"
          \/ Number(s)' = Number(s) /\ (pc[s] # "idle" \/ Call(s).kind = "poc")
    BY <2>1
  <2> QED BY <2>2, PocOnlyStays DEF Control
<1>11. AtEnd'
  BY <1>3 DEF Control, AtEnd
<1> QED BY <1>6, <1>7, <1>8, <1>9, <1>10, <1>11 DEF Control

LEMMA RankStepKeepsControl ==
  ASSUME RanksInv, RankTypes, Control, faults' < Tp, NEW r \in Ranks, RankStep(r),
         pc[r] = "forward" => Fits(r)
  PROVE  Control'
<1>1. /\ Lists /\ pc \in [Ranks -> Points] /\ faults \in Nat /\ Tp \in Nat \ {0}
      /\ LastWord /\ Together /\ Stuck /\ FewRaised /\ PocOnly /\ AtEnd
  BY ForwardAssumption DEF RanksInv, Shapes, RankTypes, Budget, Control
<1>2. PICK S : returned \in [Ranks -> Seq(S)]
  BY <1>1 DEF Lists
<1>3. Bad(r) => pc[r] \in Entering
  BY DEF Control, LastWord, Bad
<1>4. ASSUME HooksRaise(r) \/ LayoutRaises(r) \/ ModelRaises(r) PROVE Control'
  <2>1. /\ pc[r] \in Halting /\ Return(r, Raised) /\ calls' = calls /\ faults' = faults + 1
    BY <1>4 DEF HooksRaise, LayoutRaises, ModelRaises, MayRaise, Halting
  <2> QED BY <1>1, <2>1, RaiseKeepsControl
<1>5. ASSUME \A s \in Ranks : s # r => pc'[s] = pc[s], UNCHANGED <<calls, returned, faults>>,
             Bad(r) => pc'[r] \in Entering, pc'[r] # "computed",
             pc[r] # "idle" \/ Call(r).kind = "poc",
             \/ pc'[r] \in Halting <=> pc[r] \in Halting
             \/ ~Bad(r) /\ \A s \in Ranks : s[2] = r[2] => s = r
      PROVE  Control'
  <2>2. LastWord' /\ \A s \in Ranks : Bad(s)' <=> Bad(s)
    <3>1. \A s \in Ranks : returned'[s] = returned[s] /\ (Bad(s) => pc'[s] \in Entering)
      BY <1>1, <1>5 DEF LastWord, Bad
    <3> QED BY <1>1, <3>1, LastWordStays
  <2>3. \A s \in Ranks :
           \/ \A q \in Ranks : q[2] = s[2] => (pc'[q] \in Halting <=> pc[q] \in Halting)
           \/ \A q \in Ranks : q[2] = s[2] => ~Bad(q) /\ (pc'[q] \in Halting <=> pc'[s] \in Halting)
    BY <1>5
  <2>4. Together' /\ Stuck' /\ FewRaised'
    BY <1>1, <1>5, <2>2, <2>3, StuckStays
  <2>5. PocOnly'
    <3>1. \A s \in Ranks : Number(s)' = Number(s) /\ (s # r => pc'[s] = pc[s])
      BY <1>5, Still
    <3>2. \A s \in Ranks : \/ pc'[s] = "idle"
                           \/ Number(s)' = Number(s) /\ (pc[s] # "idle" \/ Call(s).kind = "poc")
      BY <1>5, <3>1
    <3> QED BY <1>1, <1>5, <3>2, PocOnlyStays
  <2>6. AtEnd'
    BY <1>1, <1>5 DEF AtEnd
  <2> QED BY <2>2, <2>4, <2>5, <2>6 DEF Control
<1>6. CASE Begin(r)
  <2>1. /\ pc[r] = "idle" /\ Call(r).kind = "poc" /\ UNCHANGED <<calls, returned, faults>>
        /\ pc'[r] = IF Tp > 1 THEN "barrier" ELSE "synced"
        /\ \A s \in Ranks : s # r => pc'[s] = pc[s]
    BY <1>1, <1>6 DEF Begin, Goto, mishaps
  <2>2. CASE Tp > 1
    BY <1>5, <2>1, <2>2 DEF Entering, Halting
  <2>3. CASE Tp = 1
    <3>1. \A s \in Ranks : s[2] = r[2] => s = r
      BY <2>3, Drivers
    <3>2. r[2] \in Stages
      BY DEF Ranks
    <3>3. \E s \in Ranks : s[2] = r[2] /\ ~Bad(s)
      BY <1>1, <2>1, <3>2, Survivor
    <3>4. ~Bad(r) /\ pc'[r] = "synced"
      BY <2>1, <2>3, <3>1, <3>3
    <3> QED BY <1>5, <2>1, <3>1, <3>4
  <2> QED BY <1>1, <2>2, <2>3
<1>7. CASE Receive(r)
  <2>1. /\ pc[r] = "receive" /\ UNCHANGED <<calls, returned, faults>>
        /\ pc'[r] = "barrier2" /\ \A s \in Ranks : s # r => pc'[s] = pc[s]
    BY <1>1, <1>7 DEF Receive, Goto, mishaps
  <2>2. ~Bad(r)
    BY <1>3, <2>1 DEF Entering
  <2> QED BY <1>5, <2>1, <2>2 DEF Halting
<1>8. CASE Prepare(r) \/ Enter(r)
  <2>1. /\ pc[r] \in {"synced", "ready"} /\ UNCHANGED <<calls, returned, faults>>
        /\ pc'[r] \in {"ready", "forward"} /\ \A s \in Ranks : s # r => pc'[s] = pc[s]
    BY <1>1, <1>8 DEF Prepare, Enter, Goto, mishaps
  <2>2. ~Bad(r)
    BY <1>3, <2>1 DEF Entering
  <2> QED BY <1>5, <2>1, <2>2 DEF Halting
<1>9. CASE Finish(r)
  <2>1. pc[r] = "computed" /\ calls' = calls /\ faults' = faults
    BY <1>9 DEF Finish
  <2>2. PICK as : Return(r, Artifacts(as))
    BY <1>9 DEF Finish
  <2>3. /\ pc'[r] = "idle" /\ returned'[r] = Append(returned[r], Artifacts(as))
        /\ \A s \in Ranks : s # r => pc'[s] = pc[s] /\ returned'[s] = returned[s]
    BY <1>1, <1>2, <2>2 DEF Return, Goto
  <2>4. ~Bad(r)
    BY <1>3, <2>1 DEF Entering
  <2>5. Artifacts(as).ok = TRUE
    BY DEF Artifacts
  <2>6. LastWord' /\ \A s \in Ranks : Bad(s)' <=> Bad(s)
    <3>1. \A s \in Ranks : s # r => returned'[s] = returned[s] /\ (Bad(s) => pc'[s] \in Entering)
      BY <1>1, <2>3 DEF LastWord, Bad
    <3> QED BY <1>1, <2>3, <2>4, <2>5, <3>1, LastWordStays
  <2>7. \A s \in Ranks : pc'[s] \in Halting <=> pc[s] \in Halting
    BY <2>1, <2>3 DEF Halting
  <2>8. Together' /\ Stuck' /\ FewRaised'
    BY <1>1, <2>1, <2>6, <2>7, StuckStays
  <2>9. PocOnly'
    <3>1. \A s \in Ranks : \/ pc'[s] = "idle"
                           \/ Number(s)' = Number(s) /\ pc'[s] = pc[s]
      BY <2>3 DEF Number
    <3>2. \A s \in Ranks : \/ pc'[s] = "idle"
                           \/ Number(s)' = Number(s) /\ (pc[s] # "idle" \/ Call(s).kind = "poc")
      BY <3>1
    <3> QED BY <1>1, <2>1, <3>2, PocOnlyStays
  <2>10. AtEnd'
    BY <1>1, <2>3 DEF AtEnd
  <2> QED BY <2>6, <2>8, <2>9, <2>10 DEF Control
<1> QED BY <1>4, <1>6, <1>7, <1>8, <1>9 DEF RankStep

(* A rank of another stage stays as it is, those of the stage go on or return. *)
LEMMA StageStepKeepsControl ==
  ASSUME RanksInv, RankTypes, Control, faults' < Tp, NEW p \in Stages, StageStep(p)
  PROVE  Control'
<1>1. /\ Lists /\ pc \in [Ranks -> Points] /\ faults \in Nat /\ Tp \in Nat \ {0}
      /\ LastWord /\ Together /\ Stuck /\ FewRaised /\ PocOnly /\ AtEnd
  BY ForwardAssumption DEF RanksInv, Shapes, RankTypes, Budget, Control
<1>2. calls' = calls /\ faults' = faults
  BY DEF StageStep, Barrier, Barrier2, Model, InferenceStep, mishaps
<1>3. ASSUME \/ \A r \in Ranks : r[2] = p => pc[r] \notin Halting
             \/ \A r \in Ranks : r[2] = p => pc[r] \notin Entering,
             \A r \in Ranks : r[2] # p => pc'[r] = pc[r] /\ returned'[r] = returned[r],
             \A r \in Ranks : r[2] = p => pc'[r] # "computed" \/ p = Pp - 1,
             \A r \in Ranks : r[2] = p => pc[r] # "idle" \/ pc'[r] = "idle",
             \/ \A r \in Ranks : r[2] = p => pc'[r] \in Halting
             \/ \A r \in Ranks : r[2] = p => pc'[r] \notin Halting,
             \A r \in Ranks : r[2] = p =>
               \/ returned'[r] = returned[r]
               \/ /\ pc'[r] = "idle"
                  /\ \E x : x.ok = TRUE /\ returned'[r] = Append(returned[r], x)
      PROVE  Control'
  <2>1. \A r \in Ranks : r[2] = p => ~Bad(r)
    BY <1>1, <1>2, <1>3, StageIsClean
  <2>3. \A r \in Ranks :
          \/ returned'[r] = returned[r] /\ (Bad(r) => pc'[r] \in Entering)
          \/ ~Bad(r) /\ \E x : x.ok = TRUE /\ returned'[r] = Append(returned[r], x)
    <3>1. \A r \in Ranks : r[2] # p /\ Bad(r) => pc'[r] \in Entering
      BY <1>1, <1>3 DEF LastWord, Bad
    <3> QED BY <1>3, <2>1, <3>1
  <2>4. LastWord' /\ \A r \in Ranks : Bad(r)' <=> Bad(r)
    BY <1>1, <2>3, LastWordStays
  <2>5. \A r \in Ranks :
           \/ \A q \in Ranks : q[2] = r[2] => (pc'[q] \in Halting <=> pc[q] \in Halting)
           \/ \A q \in Ranks : q[2] = r[2] => ~Bad(q) /\ (pc'[q] \in Halting <=> pc'[r] \in Halting)
    BY <1>3, <2>1
  <2>6. Together' /\ Stuck' /\ FewRaised'
    BY <1>1, <1>2, <2>4, <2>5, StuckStays
  <2>7. \A r \in Ranks : returned'[r] = returned[r] => Number(r)' = Number(r)
    BY DEF Number
  <2>8. \A r \in Ranks :
           \/ pc'[r] = "idle"
           \/ Number(r)' = Number(r) /\ (pc[r] # "idle" \/ Call(r).kind = "poc")
    BY <1>3, <2>7
  <2>9. PocOnly'
    BY <1>1, <1>2, <2>8, PocOnlyStays
  <2>10. AtEnd'
    BY <1>1, <1>3 DEF AtEnd
  <2> QED BY <2>4, <2>6, <2>9, <2>10 DEF Control
<1>4. CASE Barrier(p)
  <2>1. /\ \A r \in Ranks : r[2] = p => pc[r] = "barrier" /\ pc'[r] \in {"barrier2", "receive"}
        /\ \A r \in Ranks : r[2] # p => pc'[r] = pc[r]
        /\ returned' = returned
    BY <1>4 DEF Barrier, StageAt, StageRanks
  <2> QED BY <1>3, <2>1 DEF Halting
<1>5. CASE Barrier2(p)
  <2>1. /\ \A r \in Ranks : r[2] = p => pc[r] = "barrier2" /\ pc'[r] = "synced"
        /\ \A r \in Ranks : r[2] # p => pc'[r] = pc[r]
        /\ returned' = returned
    BY <1>5 DEF Barrier2, StageAt, StageRanks, StageGoes
  <2> QED BY <1>3, <2>1 DEF Halting
<1>6. CASE Model(p) /\ p = Pp - 1
  <2>1. /\ \A r \in Ranks : r[2] = p => pc[r] = "forward" /\ pc'[r] = "computed"
        /\ \A r \in Ranks : r[2] # p => pc'[r] = pc[r]
        /\ returned' = returned
    BY <1>6 DEF Model, StageAt, StageRanks, StageGoes
  <2> QED BY <1>3, <1>6, <2>1 DEF Halting, Entering
<1>7. CASE Model(p) /\ p # Pp - 1
  <2>1. /\ \A r \in Ranks : r[2] = p =>
             /\ pc[r] = "forward" /\ pc'[r] = "idle"
             /\ returned'[r] = Append(returned[r], Artifacts(<<>>))
        /\ \A r \in Ranks : r[2] # p => pc'[r] = pc[r] /\ returned'[r] = returned[r]
    BY <1>7 DEF Model, StageAt, StageRanks, StageGoes
  <2>2. Artifacts(<<>>).ok = TRUE
    BY DEF Artifacts
  <2> QED BY <1>3, <2>1, <2>2 DEF Halting, Entering
<1>8. CASE InferenceStep(p)
  <2>1. /\ \A r \in Ranks : r[2] = p =>
             /\ pc[r] = "idle" /\ pc'[r] = "idle"
             /\ returned'[r] = Append(returned[r], Inference(Reflections(r) = <<>>))
        /\ \A r \in Ranks : r[2] # p => pc'[r] = pc[r] /\ returned'[r] = returned[r]
    BY <1>1, <1>8 DEF InferenceStep, StageAt, StageRanks
  <2>2. \A b : Inference(b).ok = TRUE
    BY DEF Inference
  <2> QED BY <1>3, <2>1, <2>2 DEF Halting
<1> QED BY <1>4, <1>5, <1>6, <1>7, <1>8 DEF StageStep

--------------------------------------------------------------------------------
(* What a rank holds and what is on its way to it: the rows of a call after n layers. *)
RowsOf(c, n) ==
  [i \in DOMAIN calls[c].nonces |->
     [input |-> InputSeed(calls[c].block_hash, calls[c].public_key, calls[c].nonces[i]),
      reflections |-> [l \in 1..n |-> LayerSeed(calls[c].block_hash, l)]]]

(* A channel carries the rows of a set of calls, in the order of the calls. *)
Carries(ch, set, n) ==
  \E src \in [1..Len(ch) -> set] :
    /\ \A i, j \in 1..Len(ch) : i < j => src[i] < src[j]
    /\ \A c \in set : \E i \in 1..Len(ch) : src[i] = c
    /\ \A i \in 1..Len(ch) : ch[i] = RowsOf(src[i], n)

LEMMA CarriesHead ==
  ASSUME NEW S, NEW ch \in Seq(S), NEW set \in SUBSET Nat, NEW n, Carries(ch, set, n),
         NEW m \in set, \A c \in set : m <= c
  PROVE  ch # <<>> /\ Head(ch) = RowsOf(m, n) /\ Carries(Tail(ch), set \ {m}, n)
<1>1. PICK src \in [1..Len(ch) -> set] :
         /\ \A i, j \in 1..Len(ch) : i < j => src[i] < src[j]
         /\ \A c \in set : \E i \in 1..Len(ch) : src[i] = c
         /\ \A i \in 1..Len(ch) : ch[i] = RowsOf(src[i], n)
  BY DEF Carries
<1>2. PICK k \in 1..Len(ch) : src[k] = m
  BY <1>1
<1>3. Len(ch) \in Nat /\ Len(ch) # 0 /\ 1 \in 1..Len(ch) /\ ch # <<>>
  BY <1>2, LenProperties, EmptySeq
<1>4. \A i \in 1..Len(ch) : src[i] \in set /\ src[i] \in Nat
  BY <1>1
<1>5. src[1] = m
  <2>1. ~(1 < k)
    BY <1>1, <1>2, <1>3, <1>4
  <2> QED BY <1>2, <2>1
<1>6. Head(ch) = RowsOf(m, n)
  <2>1. Head(ch) = ch[1]
    BY <1>3, HeadTailProperties
  <2> QED BY <1>1, <1>3, <1>5, <2>1
<1>7. /\ Tail(ch) \in Seq(S) /\ Len(Tail(ch)) = Len(ch) - 1
      /\ \A i \in 1..Len(Tail(ch)) : Tail(ch)[i] = ch[i + 1]
  BY <1>3, HeadTailProperties
<1> DEFINE k2 == Len(ch) - 1
           tail == [i \in 1..k2 |-> src[i + 1]]
<1>8. \A i \in 1..k2 : i + 1 \in 1..Len(ch) /\ tail[i] = src[i + 1] /\ 1 < i + 1
  BY <1>3
<1>9. tail \in [1..k2 -> set \ {m}]
  <2>1. \A i \in 1..k2 : src[i + 1] \in set \ {m}
    BY <1>1, <1>3, <1>4, <1>5, <1>8
  <2> QED BY <2>1
<1> HIDE DEF tail
<1>10. \A i, j \in 1..k2 : i < j => tail[i] < tail[j]
  <2> SUFFICES ASSUME NEW i \in 1..k2, NEW j \in 1..k2, i < j PROVE tail[i] < tail[j]
    OBVIOUS
  <2>1. i + 1 < j + 1
    OBVIOUS
  <2> QED BY <1>1, <1>8, <2>1
<1>11. \A c \in set \ {m} : \E i \in 1..k2 : tail[i] = c
  <2> SUFFICES ASSUME NEW c \in set \ {m} PROVE \E i \in 1..k2 : tail[i] = c
    OBVIOUS
  <2>1. PICK i \in 1..Len(ch) : src[i] = c
    BY <1>1
  <2>2. i # 1
    BY <1>5, <2>1
  <2>3. i - 1 \in 1..k2 /\ (i - 1) + 1 = i
    BY <1>3, <2>2
  <2>4. tail[i - 1] = src[i]
    BY <1>8, <2>3
  <2> QED BY <2>1, <2>3, <2>4
<1>12. \A i \in 1..k2 : Tail(ch)[i] = RowsOf(tail[i], n)
  BY <1>1, <1>7, <1>8
<1>13. Carries(Tail(ch), set \ {m}, n)
  <2>1. Len(Tail(ch)) = k2
    BY <1>7
  <2> HIDE DEF k2
  <2> QED BY <1>9, <1>10, <1>11, <1>12, <2>1 DEF Carries
<1> QED BY <1>3, <1>6, <1>13

LEMMA CarriesMore ==
  ASSUME NEW S, NEW ch \in Seq(S), NEW set \in SUBSET Nat, NEW n, Carries(ch, set, n),
         NEW m \in Nat, \A c \in set : c < m, NEW x, x = RowsOf(m, n)
  PROVE  Carries(Append(ch, x), set \cup {m}, n)
<1>1. PICK src \in [1..Len(ch) -> set] :
         /\ \A i, j \in 1..Len(ch) : i < j => src[i] < src[j]
         /\ \A c \in set : \E i \in 1..Len(ch) : src[i] = c
         /\ \A i \in 1..Len(ch) : ch[i] = RowsOf(src[i], n)
  BY DEF Carries
<1> DEFINE k == Len(ch)
           more == [i \in 1..(k + 1) |-> IF i <= k THEN src[i] ELSE m]
<1>2. /\ k \in Nat /\ Len(Append(ch, x)) = k + 1 /\ Append(ch, x)[k + 1] = x
      /\ \A i \in 1..k : Append(ch, x)[i] = ch[i]
  <2>1. Len(ch) \in Nat
    BY LenProperties
  <2>2. /\ Len(Append(ch, x)) = Len(ch) + 1 /\ \A i \in 1..Len(ch) : Append(ch, x)[i] = ch[i]
    BY Appended
  <2>3. ch \in Seq(S \cup {x}) /\ x \in S \cup {x}
    BY SeqDef
  <2>4. Append(ch, x)[Len(ch) + 1] = x
    BY <2>3, AppendProperties
  <2> QED BY <2>1, <2>2, <2>4
<1>3. /\ \A i \in 1..k : i \in 1..(k + 1) /\ more[i] = src[i] /\ src[i] \in set
      /\ k + 1 \in 1..(k + 1) /\ more[k + 1] = m /\ DOMAIN more = 1..(k + 1)
  BY <1>1, <1>2
<1>4. \A i \in 1..(k + 1) : i \in 1..k \/ i = k + 1
  BY <1>2
<1> HIDE DEF more, k
<1>5. more \in [1..(k + 1) -> set \cup {m}]
  <2>1. \A i \in 1..(k + 1) : more[i] \in set \cup {m}
    BY <1>3, <1>4
  <2>2. more = [i \in 1..(k + 1) |-> more[i]]
    BY DEF more
  <2> QED BY <2>1, <2>2
<1>6. ASSUME NEW i \in 1..(k + 1), NEW j \in 1..(k + 1), i < j PROVE more[i] < more[j]
  <2>1. i \in 1..k
    BY <1>2, <1>6
  <2>2. CASE j \in 1..k
    BY <1>1, <1>3, <1>6, <2>1, <2>2 DEF k
  <2>3. CASE j = k + 1
    BY <1>3, <2>1, <2>3
  <2> QED BY <1>4, <2>2, <2>3
<1>7. \A c \in set \cup {m} : \E i \in 1..(k + 1) : more[i] = c
  <2>1. ASSUME NEW c \in set PROVE \E i \in 1..(k + 1) : more[i] = c
    <3>1. PICK i \in 1..k : src[i] = c
      BY <1>1 DEF k
    <3> QED BY <1>3, <3>1
  <2> QED BY <1>3, <2>1
<1>8. ASSUME NEW i \in 1..(k + 1) PROVE Append(ch, x)[i] = RowsOf(more[i], n)
  <2>1. CASE i \in 1..k
    BY <1>1, <1>2, <1>3, <2>1 DEF k
  <2>2. CASE i = k + 1
    BY <1>2, <1>3, <2>2
  <2> QED BY <1>4, <2>1, <2>2
<1> QED BY <1>2, <1>5, <1>6, <1>7, <1>8 DEF Carries

HooksOf(hash) == IF hash = NoHooks THEN <<>> ELSE <<[block_hash |-> hash, owned |-> TRUE]>>

(* A layer has one hook, of the round the worker holds, or none before the first. *)
HookRight(r) ==
  ~Bad(r) =>
    /\ \A l \in LayersOf(r) : installed[r][l] = HooksOf(held[r])
    /\ pc[r] \in {"ready", "forward", "computed"} => held[r] = Call(r).block_hash

HooksRight == DOMAIN installed = Ranks /\ \A r \in Ranks : HookRight(r)

Before(r) == <<r[1], r[2] - 1>>
Done(r) == IF Bad(r) THEN Len(returned[r]) - 1 ELSE Len(returned[r])
ReadUpTo(r) == IF pc[r] \in {"forward", "computed"} THEN Number(r) ELSE Len(returned[r])
PocUpTo(n) == {c \in 1..n : calls[c].kind = "poc"}

(* A rank took tensors only of calls the rank before it has done, the rest is on its way. *)
TensorRight(r) ==
  ~Bad(r) /\ r[2] # 0 =>
    /\ PocUpTo(ReadUpTo(r)) \subseteq PocUpTo(Done(Before(r)))
    /\ Carries(chan[r], PocUpTo(Done(Before(r))) \ PocUpTo(ReadUpTo(r)), r[2] * Layers)

TensorsRight == \A r \in Ranks : TensorRight(r)

(* A rank that is in the forward holds its input, one that left it the last hidden states. *)
Through(r) == IF pc[r] = "forward" THEN r[2] * Layers ELSE Pp * Layers

RowsRight ==
  \A r \in Ranks :
    pc[r] \in {"forward", "computed"} => rows[r] = RowsOf(Number(r), Through(r))

ArtifactRight(c, a) ==
  /\ a.nonce \in Range(calls[c].nonces)
  /\ a.vector = Reference(calls[c].block_hash, calls[c].public_key, a.nonce)

ResultRight(r, c, result) ==
  /\ \E S : result.artifacts \in Seq(S)
  /\ \A i \in DOMAIN result.artifacts : ArtifactRight(c, result.artifacts[i])
  /\ r[2] = Pp - 1 /\ result.ok /\ lost = 0 =>
       \A n \in Range(calls[c].nonces) :
         \E i \in DOMAIN result.artifacts : result.artifacts[i].nonce = n

ResultsRight ==
  \A r \in Ranks : \A c \in DOMAIN returned[r] :
    calls[c].kind = "poc" => ResultRight(r, c, returned[r][c])

Data == HooksRight /\ TensorsRight /\ RowsRight /\ ResultsRight

--------------------------------------------------------------------------------
(* What each step keeps of the data: hooks, tensors, rows and results. *)

LEMMA StageNumbers ==
  ASSUME NEW r \in Ranks
  PROVE  /\ r[2] \in Nat /\ r[2] <= Pp - 1 /\ Layers \in Nat /\ Pp \in Nat \ {0}
         /\ r[2] * Layers \in Nat /\ (r[2] + 1) * Layers = r[2] * Layers + Layers
         /\ r[2] # 0 => Before(r) \in Ranks /\ Before(r)[2] + 1 = r[2] /\ Before(r)[2] # Pp - 1
         /\ r[2] # 0 => \A s \in Ranks : s[1] = r[1] /\ s[2] = r[2] - 1 => s = Before(r)
         /\ r = <<r[1], r[2]>>
<1>1. Layers \in Nat /\ Pp \in Nat \ {0} /\ Tp \in Nat \ {0}
  BY ForwardAssumption
<1>2. r = <<r[1], r[2]>> /\ r[1] \in 0..(Tp - 1) /\ r[2] \in 0..(Pp - 1)
  BY DEF Ranks, Stages
<1>3. r[2] \in Nat /\ r[2] <= Pp - 1
  BY <1>1, <1>2
<1>4. r[2] * Layers \in Nat
  BY <1>1, <1>3
<1>5. (r[2] + 1) * Layers = r[2] * Layers + Layers
  BY <1>1, <1>3
<1>6. r[2] # 0 => Before(r) \in Ranks /\ Before(r)[2] + 1 = r[2] /\ Before(r)[2] # Pp - 1
  BY <1>1, <1>2 DEF Before, Ranks, Stages
<1>7. \A s \in Ranks : s = <<s[1], s[2]>>
  BY DEF Ranks
<1> QED BY <1>1, <1>2, <1>3, <1>4, <1>5, <1>6, <1>7 DEF Before

(* A rank with the right hooks that reflects rows of its call gives rows of its call. *)
LEMMA HiddenIsRight ==
  ASSUME HooksRight, FlagTracks, NEW r \in Ranks, ~Bad(r), pc[r] = "forward",
         Call(r).block_hash \in Hashes, rows[r] = RowsOf(Number(r), r[2] * Layers)
  PROVE  Hidden(r) = RowsOf(Number(r), (r[2] + 1) * Layers)
<1> DEFINE hash == Call(r).block_hash
           a == r[2] * Layers
<1>1. /\ a \in Nat /\ Layers \in Nat /\ (r[2] + 1) * Layers = a + Layers
      /\ LayersOf(r) = (a + 1)..(a + Layers)
  <2>1. /\ r[2] * Layers \in Nat /\ Layers \in Nat
        /\ (r[2] + 1) * Layers = r[2] * Layers + Layers
    BY StageNumbers
  <2> QED BY <2>1 DEF LayersOf
<1>2. hash # NoHooks
  BY ForwardAssumption DEF NoHooks
<1>3. \A l \in 1..Layers : installed[r][a + l] = <<[block_hash |-> hash, owned |-> TRUE]>>
  <2>1. \A l \in 1..Layers : a + l \in LayersOf(r)
    BY <1>1
  <2>2. held[r] = hash
    BY DEF HooksRight, HookRight
  <2> HIDE DEF a, hash
  <2> QED BY <1>2, <2>1, <2>2 DEF HooksRight, HookRight, HooksOf
<1> DEFINE seqs == [l \in 1..Layers |->
                      [i \in DOMAIN installed[r][a + l] |->
                         LayerSeed(installed[r][a + l][i].block_hash, a + l)]]
           T == {LayerSeed(hash, m) : m \in Nat}
<1>4. \A l \in 1..Layers : seqs[l] = <<LayerSeed(hash, a + l)>>
  <2> HIDE DEF a, hash
  <2> QED BY <1>3
<1>5. \A l \in 1..Layers : a + l \in Nat
  BY <1>1
<1>6. \A l \in 1..Layers : seqs[l] \in Seq(T) /\ Len(seqs[l]) = 1 /\ seqs[l][1] = LayerSeed(hash, a + l)
  <2>1. \A m \in Nat : LayerSeed(hash, m) \in T
    OBVIOUS
  <2> HIDE DEF seqs, T, a, hash
  <2>2. \A x \in T : <<x>> \in Seq(T) /\ Len(<<x>>) = 1 /\ <<x>>[1] = x
    OBVIOUS
  <2> QED BY <1>4, <1>5, <2>1, <2>2
<1>7. DOMAIN seqs = 1..Layers
  OBVIOUS
<1>75. seqs = [l \in 1..Layers |-> seqs[l]]
  OBVIOUS
<1> HIDE DEF seqs, T
<1>8. seqs \in Seq(Seq(T)) /\ Len(seqs) = Layers
  <2>1. seqs \in [1..Layers -> Seq(T)]
    <3> HIDE DEF a, hash
    <3>1. \A l \in 1..Layers : seqs[l] \in Seq(T)
      BY <1>6
    <3> QED BY <1>75, <3>1
  <2> QED BY <1>1, <2>1, SeqDef, LenProperties
<1>9. FlattenSeq(seqs) = [l \in 1..Layers |-> LayerSeed(hash, a + l)]
  <2>1. FlattenSeq(seqs) = [l \in 1..Layers |-> seqs[l][1]]
    BY <1>6, <1>8, FlattenSingles
  <2> HIDE DEF a, hash
  <2> QED BY <1>6, <2>1
<1>10. Reflections(r) = [l \in 1..Layers |-> LayerSeed(hash, a + l)]
  BY <1>9 DEF Reflections, FlagTracks, seqs
<1>11. [l \in 1..a |-> LayerSeed(hash, l)] \o Reflections(r)
         = [l \in 1..(a + Layers) |-> LayerSeed(hash, l)]
  <2> HIDE DEF a, hash
  <2>1. [l \in 1..a |-> LayerSeed(hash, l)] \o [l \in 1..Layers |-> LayerSeed(hash, a + l)]
           = [l \in 1..(a + Layers) |-> LayerSeed(hash, l)]
    BY <1>1, SeedsFollow
  <2> QED BY <1>10, <2>1
<1> DEFINE before == [l \in 1..a |-> LayerSeed(hash, l)]
           after == [l \in 1..((r[2] + 1) * Layers) |-> LayerSeed(hash, l)]
           N == DOMAIN calls[Number(r)].nonces
           in == [i \in N |-> InputSeed(calls[Number(r)].block_hash, calls[Number(r)].public_key,
                                       calls[Number(r)].nonces[i])]
<1>12. before \o Reflections(r) = after
  BY <1>1, <1>11
<1>13. rows[r] = [i \in N |-> [input |-> in[i], reflections |-> before]]
  BY DEF RowsOf, Call
<1>14. RowsOf(Number(r), (r[2] + 1) * Layers) = [i \in N |-> [input |-> in[i], reflections |-> after]]
  BY DEF RowsOf, Call
<1> HIDE DEF before, after, N, in, a, hash
<1>15. DOMAIN rows[r] = N
  BY <1>13
<1>16. \A i \in N : rows[r][i] = [input |-> in[i], reflections |-> before]
  BY <1>13
<1>17. \A x : [[input |-> x, reflections |-> before] EXCEPT !.reflections = before \o Reflections(r)]
                = [input |-> x, reflections |-> after]
  BY <1>12
<1>18. Hidden(r) = [i \in N |-> [rows[r][i] EXCEPT !.reflections = rows[r][i].reflections \o Reflections(r)]]
  BY <1>15 DEF Hidden
<1>19. \A i \in N : [rows[r][i] EXCEPT !.reflections = rows[r][i].reflections \o Reflections(r)]
                     = [input |-> in[i], reflections |-> after]
  <2> SUFFICES ASSUME NEW i \in N
      PROVE [rows[r][i] EXCEPT !.reflections = rows[r][i].reflections \o Reflections(r)]
                     = [input |-> in[i], reflections |-> after]
    OBVIOUS
  <2>2. rows[r][i] = [input |-> in[i], reflections |-> before]
    BY <1>16
  <2>3. \A x : [input |-> x, reflections |-> before].reflections = before
    OBVIOUS
  <2>1. rows[r][i].reflections = before
    BY <2>2, <2>3, Zenon
  <2> QED BY <1>17, <2>1, <2>2
<1> QED BY <1>14, <1>18, <1>19

LEMMA RankNumbers ==
  ASSUME RanksInv, RankTypes, NEW r \in Ranks
  PROVE  /\ Len(calls) \in Nat /\ DOMAIN calls = 1..Len(calls)
         /\ Len(returned[r]) \in 0..Len(calls) /\ DOMAIN returned[r] = 1..Len(returned[r])
         /\ Number(r) = Len(returned[r]) + 1
         /\ ReadUpTo(r) \in 0..Len(calls)
         /\ Done(r) \in 0..Len(returned[r]) /\ (~Bad(r) => Done(r) = Len(returned[r]))
<1>1. Len(calls) \in Nat /\ DOMAIN calls = 1..Len(calls) /\ Len(returned[r]) \in 0..Len(calls)
  BY Counting DEF RanksInv, RankTypes, Counts
<1>2. PICK S : returned \in [Ranks -> Seq(S)]
  BY DEF RanksInv, Lists
<1>3. DOMAIN returned[r] = 1..Len(returned[r])
  <2>1. returned[r] \in Seq(S)
    BY <1>2
  <2> QED BY <2>1, LenProperties
<1>4. ReadUpTo(r) \in 0..Len(calls)
  BY <1>1 DEF ReadUpTo, Number, RanksInv, Busy
<1>5. Done(r) \in 0..Len(returned[r]) /\ (~Bad(r) => Done(r) = Len(returned[r]))
  <2>1. Bad(r) => Len(returned[r]) # 0
    BY <1>1, <1>3 DEF Bad
  <2>2. Len(returned[r]) \in Nat
    BY <1>1
  <2> QED BY <2>1, <2>2 DEF Done
<1> QED BY <1>1, <1>3, <1>4, <1>5 DEF Number

(* What a rank that stays where it is holds stays right. *)
LEMMA HeldRowsStay ==
  ASSUME NEW r \in Ranks, rows[r] = RowsOf(Number(r), Through(r)), rows'[r] = rows[r],
         pc'[r] = pc[r], calls' = calls, Number(r)' = Number(r)
  PROVE  rows'[r] = RowsOf(Number(r), Through(r))'
<1>1. Through(r)' = Through(r)
  BY DEF Through
<1> QED BY <1>1 DEF RowsOf

LEMMA RowsStay ==
  ASSUME NEW c, NEW n, calls'[c] = calls[c]
  PROVE  RowsOf(c, n)' = RowsOf(c, n)
BY DEF RowsOf

(* Calls that are sent or given up change nothing of what the ranks have. *)
LEMMA SendKeepsData ==
  ASSUME RanksInv, RankTypes, Control, Data,
         UNCHANGED <<pc, installed, held, rows, chan, returned, faults, lost>>,
         \A c \in DOMAIN calls : calls'[c] = calls[c],
         \A c \in DOMAIN calls' : calls'[c].kind = "poc" => calls'[c].block_hash \in Hashes
  PROVE  Control' /\ Data'
<1>1. \A r \in Ranks : pc[r] # "idle" => Call(r)' = Call(r) /\ Number(r) \in DOMAIN calls /\ Number(r)' = Number(r)
  BY DEF RanksInv, Busy, Call, Number
<1>2. \A r \in Ranks : Bad(r)' <=> Bad(r)
  BY DEF Bad
<1>3. Control'
  <2>1. PocOnly'
    BY <1>1 DEF Control, PocOnly
  <2>2. AtEnd' /\ LastWord'
    BY DEF Control, AtEnd, LastWord
  <2>3. Together' /\ Stuck'
    BY <1>2 DEF Control, Together, Stuck
  <2>4. {r \in Ranks : Bad(r)'} = {r \in Ranks : Bad(r)}
    BY <1>2
  <2>5. FewRaised'
    BY <2>4 DEF Control, FewRaised, Ranks, Stages
  <2> QED BY <2>1, <2>2, <2>3, <2>5 DEF Control
<1>4. ASSUME NEW r \in Ranks PROVE HookRight(r)'
  BY <1>1, <1>2 DEF Data, HooksRight, HookRight
<1>5. ASSUME NEW r \in Ranks PROVE TensorRight(r)'
  <2>1. SUFFICES ASSUME ~Bad(r)', r[2] # 0 PROVE TensorRight(r)'
    BY DEF TensorRight
  <2>2. Before(r) \in Ranks
    BY <2>1, StageNumbers
  <2> DEFINE b == Before(r)
             n == ReadUpTo(r)
             m == Done(b)
             set == PocUpTo(m) \ PocUpTo(n)
             k == r[2] * Layers
  <2>3. /\ n \in 0..Len(calls) /\ m \in 0..Len(returned[b]) /\ Len(returned[b]) \in 0..Len(calls)
        /\ DOMAIN calls = 1..Len(calls) /\ Len(calls) \in Nat
    BY <2>2, RankNumbers
  <2>4. \A c : c \in 1..n \/ c \in 1..m => c \in DOMAIN calls
    BY <2>3
  <2>5. ReadUpTo(r)' = n /\ Done(b)' = m
    BY <1>2, <2>2 DEF ReadUpTo, Done, Number
  <2>6. PocUpTo(ReadUpTo(r))' = PocUpTo(n) /\ PocUpTo(Done(Before(r)))' = PocUpTo(m)
    BY <2>4, <2>5 DEF PocUpTo, Before
  <2>7. PocUpTo(n) \subseteq PocUpTo(m) /\ Carries(chan[r], set, k)
    BY <1>2, <2>1 DEF Data, TensorsRight, TensorRight
  <2>8. \A c \in set : calls'[c] = calls[c]
    BY <2>4 DEF PocUpTo
  <2> HIDE DEF set, n, m, b, k
  <2>9. PICK src \in [1..Len(chan[r]) -> set] :
           /\ \A i, j \in 1..Len(chan[r]) : i < j => src[i] < src[j]
           /\ \A c \in set : \E i \in 1..Len(chan[r]) : src[i] = c
           /\ \A i \in 1..Len(chan[r]) : chan[r][i] = RowsOf(src[i], k)
    BY <2>7 DEF Carries
  <2>10. \A i \in 1..Len(chan[r]) : RowsOf(src[i], k) = RowsOf(src[i], k)'
    <3> SUFFICES ASSUME NEW i \in 1..Len(chan[r]) PROVE RowsOf(src[i], k) = RowsOf(src[i], k)'
      OBVIOUS
    <3>1. src[i] \in set
      BY <2>9
    <3>2. calls'[src[i]] = calls[src[i]]
      BY <2>8, <3>1
    <3> QED BY <3>2, RowsStay DEF k
  <2>11. Carries(chan[r], set, k)'
    BY <2>6, <2>9, <2>10 DEF Carries, set, k, n, m, b
  <2> QED BY <2>6, <2>7, <2>11 DEF TensorRight, set, k, n, m, b
<1>6. ASSUME NEW r \in Ranks, pc'[r] \in {"forward", "computed"}
      PROVE  rows'[r] = RowsOf(Number(r), Through(r))'
  BY <1>1, <1>6 DEF Data, RowsRight, RowsOf, Through
<1>7. ASSUME NEW r \in Ranks, NEW c \in DOMAIN returned'[r], calls'[c].kind = "poc"
      PROVE  ResultRight(r, c, returned[r][c])'
  <2>1. c \in DOMAIN calls /\ c \in DOMAIN returned[r]
    <3>1. DOMAIN returned[r] = 1..Len(returned[r]) /\ Len(returned[r]) \in 0..Len(calls) /\ DOMAIN calls = 1..Len(calls) /\ Len(calls) \in Nat
      BY RankNumbers
    <3> QED BY <3>1
  <2>2. calls'[c] = calls[c]
    BY <2>1
  <2>3. ResultRight(r, c, returned[r][c])
    BY <1>7, <2>1, <2>2 DEF Data, ResultsRight
  <2> QED BY <2>2, <2>3 DEF ResultRight, ArtifactRight
<1> QED BY <1>3, <1>4, <1>5, <1>6, <1>7 DEF Data, HooksRight, TensorsRight, RowsRight, ResultsRight

(* What a step of other ranks leaves of a rank's own part. *)
LEMMA HookStays ==
  ASSUME NEW r \in Ranks, HookRight(r), Bad(r) => Bad(r)', installed'[r] = installed[r],
         held'[r] = held[r],
         pc'[r] \in {"ready", "forward", "computed"} => pc[r] \in {"ready", "forward", "computed"} /\ Call(r)' = Call(r)
  PROVE  HookRight(r)'
BY DEF HookRight

LEMMA TensorStays ==
  ASSUME NEW r \in Ranks, TensorRight(r), Bad(r) => Bad(r)', calls' = calls, chan'[r] = chan[r],
         PocUpTo(ReadUpTo(r))' = PocUpTo(ReadUpTo(r)),
         r[2] # 0 => PocUpTo(Done(Before(r)))' = PocUpTo(Done(Before(r)))
  PROVE  TensorRight(r)'
<1> SUFFICES ASSUME ~Bad(r)', r[2] # 0 PROVE TensorRight(r)'
  BY DEF TensorRight
<1> DEFINE n == PocUpTo(ReadUpTo(r))
           m == PocUpTo(Done(Before(r)))
           k == r[2] * Layers
<1>1. n \subseteq m /\ Carries(chan[r], m \ n, k)
  BY DEF TensorRight
<1>2. n' = n /\ m' = m
  OBVIOUS
<1> HIDE DEF n, m
<1>3. \A c : RowsOf(c, k)' = RowsOf(c, k)
  BY RowsStay DEF k
<1> HIDE DEF k
<1>4. PICK src \in [1..Len(chan[r]) -> m \ n] :
         /\ \A i, j \in 1..Len(chan[r]) : i < j => src[i] < src[j]
         /\ \A c \in m \ n : \E i \in 1..Len(chan[r]) : src[i] = c
         /\ \A i \in 1..Len(chan[r]) : chan[r][i] = RowsOf(src[i], k)
  BY <1>1 DEF Carries
<1>5. \A i \in 1..Len(chan[r]) : chan[r][i] = RowsOf(src[i], k)'
  <2> SUFFICES ASSUME NEW i \in 1..Len(chan[r]) PROVE chan[r][i] = RowsOf(src[i], k)'
    OBVIOUS
  <2>1. RowsOf(src[i], k)' = RowsOf(src[i], k)
    BY <1>3
  <2> QED BY <1>4, <2>1
<1>6. Carries(chan[r], m \ n, k)'
  BY <1>2, <1>4, <1>5 DEF Carries, k
<1> QED BY <1>1, <1>2, <1>6 DEF TensorRight, n, m, k

(* A result that is right stays right while no more rows are lost. *)
LEMMA ResultsStay ==
  ASSUME ResultsRight, calls' = calls, lost \in Nat, lost' \in Nat, lost <= lost', NEW r \in Ranks,
         \/ returned'[r] = returned[r]
         \/ \E x : /\ returned'[r] = Append(returned[r], x)
                   /\ \E S : returned[r] \in Seq(S)
                   /\ \A c : c = Number(r) /\ calls[c].kind = "poc" => ResultRight(r, c, x)'
  PROVE  \A c \in DOMAIN returned'[r] :
           calls'[c].kind = "poc" => ResultRight(r, c, returned[r][c])'
<1>1. ASSUME NEW c \in DOMAIN returned[r], calls[c].kind = "poc", returned'[r][c] = returned[r][c]
      PROVE  ResultRight(r, c, returned[r][c])'
  <2>1. ResultRight(r, c, returned[r][c])
    BY <1>1 DEF ResultsRight
  <2>2. lost' = 0 => lost = 0
    OBVIOUS
  <2> QED BY <1>1, <2>1, <2>2 DEF ResultRight, ArtifactRight
<1>2. CASE returned'[r] = returned[r]
  BY <1>1, <1>2
<1>3. CASE \E x : /\ returned'[r] = Append(returned[r], x)
                  /\ \E S : returned[r] \in Seq(S)
                  /\ \A c : c = Number(r) /\ calls[c].kind = "poc" => ResultRight(r, c, x)'
  <2>1. PICK x, S : /\ returned'[r] = Append(returned[r], x)
                    /\ returned[r] \in Seq(S)
                    /\ \A c : c = Number(r) /\ calls[c].kind = "poc" => ResultRight(r, c, x)'
    BY <1>3
  <2>2. /\ Len(returned[r]) \in Nat /\ DOMAIN returned[r] = 1..Len(returned[r])
        /\ returned'[r] \in Seq(S \cup {x}) /\ Len(returned'[r]) = Len(returned[r]) + 1
        /\ \A i \in 1..Len(returned[r]) : returned'[r][i] = returned[r][i]
    BY <2>1, Appended, LenProperties
  <2>3. returned'[r][Len(returned[r]) + 1] = x
    <3>1. returned[r] \in Seq(S \cup {x}) /\ x \in S \cup {x}
      BY <2>1, SeqDef
    <3> QED BY <2>1, <3>1, AppendProperties
  <2>4. DOMAIN returned'[r] = 1..(Len(returned[r]) + 1)
    BY <2>2, LenProperties
  <2> SUFFICES ASSUME NEW c \in DOMAIN returned'[r], calls[c].kind = "poc"
               PROVE  ResultRight(r, c, returned[r][c])'
    OBVIOUS
  <2>5. CASE c \in 1..Len(returned[r])
    BY <1>1, <2>2, <2>5
  <2>6. CASE c = Len(returned[r]) + 1
    <3>1. Number(r) = c
      BY <2>6 DEF Number
    <3>2. ResultRight(r, c, x)'
      BY <2>1, <3>1
    <3>3. returned'[r][c] = x
      BY <2>3, <2>6
    <3> QED BY <3>1, <3>2, <3>3 DEF ResultRight, ArtifactRight
  <2> QED BY <2>2, <2>4, <2>5, <2>6
<1> QED BY <1>2, <1>3

(* A step that only moves ranks from point to point, none of them to or from where it has rows. *)
LEMMA WaitKeepsData ==
  ASSUME RankTypes, Data, UNCHANGED <<calls, rows, chan, returned, lost>>,
         \A r \in Ranks :
           \/ pc'[r] = pc[r]
           \/ pc[r] \notin {"forward", "computed"} /\ pc'[r] \notin {"forward", "computed"}
  PROVE  TensorsRight' /\ RowsRight' /\ ResultsRight' /\ \A r \in Ranks : Bad(r)' <=> Bad(r)
<1>1. \A r \in Ranks : Bad(r)' <=> Bad(r)
  BY DEF Bad
<1>2. ASSUME NEW r \in Ranks PROVE TensorRight(r)'
  <2>1. ReadUpTo(r)' = ReadUpTo(r)
    BY DEF ReadUpTo, Number
  <2>2. r[2] # 0 => Done(Before(r))' = Done(Before(r))
    <3> SUFFICES ASSUME r[2] # 0 PROVE Done(Before(r))' = Done(Before(r))
      OBVIOUS
    <3>1. Before(r) \in Ranks
      BY StageNumbers
    <3>2. Bad(Before(r))' <=> Bad(Before(r))
      BY <1>1, <3>1
    <3> QED BY <3>2 DEF Done, Before
  <2>3. PocUpTo(ReadUpTo(r))' = PocUpTo(ReadUpTo(r))
    BY <2>1 DEF PocUpTo
  <2>4. r[2] # 0 => PocUpTo(Done(Before(r)))' = PocUpTo(Done(Before(r)))
    BY <2>2 DEF PocUpTo
  <2>5. TensorRight(r)
    BY DEF Data, TensorsRight
  <2> QED BY <1>1, <2>3, <2>4, <2>5, TensorStays
<1>3. ASSUME NEW r \in Ranks, pc'[r] \in {"forward", "computed"}
      PROVE  rows'[r] = RowsOf(Number(r), Through(r))'
  <2>1. rows[r] = RowsOf(Number(r), Through(r)) /\ pc'[r] = pc[r]
    BY <1>3 DEF Data, RowsRight
  <2>2. Number(r)' = Number(r)
    BY DEF Number
  <2> QED BY <2>1, <2>2, HeldRowsStay
<1>4. ASSUME NEW r \in Ranks, NEW c \in DOMAIN returned'[r], calls'[c].kind = "poc"
      PROVE  ResultRight(r, c, returned[r][c])'
  <2>1. lost \in Nat /\ lost' \in Nat /\ lost <= lost'
    BY DEF RankTypes, Budget
  <2> QED BY <1>4, <2>1, ResultsStay DEF Data
<1> QED BY <1>1, <1>2, <1>3, <1>4 DEF TensorsRight, RowsRight, ResultsRight

(* A rank that raises: its last call does not count as done. *)
LEMMA RaiseKeepsData ==
  ASSUME RanksInv, RankTypes, Control, Data, NEW r \in Ranks, pc[r] \in Halting, Return(r, Raised),
         UNCHANGED <<calls, held, lost>>,
         DOMAIN installed' = Ranks, \A s \in Ranks : s # r => installed'[s] = installed[s],
         \A s \in Ranks : s # r => chan'[s] = chan[s]
  PROVE  Data'
<1>1. PICK S : returned \in [Ranks -> Seq(S)]
  BY DEF RanksInv, Lists
<1>2. /\ returned' = [returned EXCEPT ![r] = Append(@, Raised)]
      /\ rows' = [rows EXCEPT ![r] = <<>>] /\ pc' = [pc EXCEPT ![r] = "idle"]
      /\ pc \in [Ranks -> Points] /\ DOMAIN rows = Ranks
  BY DEF Return, Goto, RanksInv, Shapes, RankTypes, Batches
<1>3. /\ returned'[r] = Append(returned[r], Raised) /\ pc'[r] = "idle"
      /\ \A s \in Ranks : s # r => returned'[s] = returned[s] /\ pc'[s] = pc[s] /\ rows'[s] = rows[s]
  BY <1>1, <1>2
<1>4. ~Bad(r) /\ Bad(r)'
  <2>1. ~Bad(r)
    BY DEF Control, LastWord, Bad, Halting, Entering
  <2>2. Raised.ok = FALSE /\ Raised.artifacts = <<>>
    BY DEF Raised
  <2>3. Lists
    BY DEF RanksInv
  <2> QED BY <1>3, <2>1, <2>2, <2>3, LongerBad
<1>5. \A s \in Ranks : s # r => (Bad(s)' <=> Bad(s))
  BY <1>3, SameBad
<1>6. ASSUME NEW s \in Ranks PROVE Done(s)' = Done(s)
  <2>1. CASE s = r
    <3>1. Lists /\ Raised.ok \in BOOLEAN
      BY DEF RanksInv, Raised
    <3>2. Len(returned'[r]) = Len(returned[r]) + 1 /\ Len(returned[r]) \in Nat
      BY <1>3, <3>1, LongerBad
    <3> QED BY <1>4, <2>1, <3>2 DEF Done
  <2>2. CASE s # r
    BY <1>3, <1>5, <2>2 DEF Done
  <2> QED BY <2>1, <2>2
<1>7. \A s \in Ranks : s # r => Number(s)' = Number(s) /\ Call(s)' = Call(s) /\ ReadUpTo(s)' = ReadUpTo(s)
  BY <1>3 DEF Number, Call, ReadUpTo
<1>8. ASSUME NEW s \in Ranks PROVE HookRight(s)' /\ TensorRight(s)'
  <2>1. CASE s = r
    BY <1>4, <2>1 DEF HookRight, TensorRight
  <2>2. CASE s # r
    <3>1. HookRight(s) /\ TensorRight(s)
      BY DEF Data, HooksRight, TensorsRight
    <3>2. HookRight(s)'
      BY <1>3, <1>5, <1>7, <2>2, <3>1, HookStays
    <3>3. PocUpTo(ReadUpTo(s))' = PocUpTo(ReadUpTo(s))
      BY <1>7, <2>2 DEF PocUpTo
    <3>4. s[2] # 0 => PocUpTo(Done(Before(s)))' = PocUpTo(Done(Before(s)))
      <4> SUFFICES ASSUME s[2] # 0 PROVE PocUpTo(Done(Before(s)))' = PocUpTo(Done(Before(s)))
        OBVIOUS
      <4>1. Before(s) \in Ranks
        BY StageNumbers
      <4>2. Done(Before(s))' = Done(Before(s))
        BY <1>6, <4>1 DEF Before
      <4> QED BY <4>2 DEF PocUpTo
    <3>5. TensorRight(s)'
      BY <1>5, <2>2, <3>1, <3>3, <3>4, TensorStays
    <3> QED BY <3>2, <3>5
  <2> QED BY <2>1, <2>2
<1>9. ASSUME NEW s \in Ranks, pc'[s] \in {"forward", "computed"}
      PROVE  rows'[s] = RowsOf(Number(s), Through(s))'
  <2>1. s # r
    BY <1>3, <1>9
  <2>2. rows[s] = RowsOf(Number(s), Through(s))
    BY <1>3, <1>9, <2>1 DEF Data, RowsRight
  <2> QED BY <1>3, <1>7, <2>1, <2>2, HeldRowsStay
<1>10. ASSUME NEW s \in Ranks, NEW c \in DOMAIN returned'[s], calls'[c].kind = "poc"
       PROVE  ResultRight(s, c, returned[s][c])'
  <2>1. lost \in Nat /\ lost' \in Nat /\ lost <= lost'
    BY DEF RankTypes, Budget
  <2>2. \A c2 : ResultRight(s, c2, Raised)'
    <3>1. <<>> \in Seq({}) /\ DOMAIN <<>> = {}
      OBVIOUS
    <3> QED BY <3>1 DEF ResultRight, Raised
  <2>3. \/ returned'[s] = returned[s]
        \/ returned'[s] = Append(returned[s], Raised) /\ returned[s] \in Seq(S)
    BY <1>1, <1>3
  <2> QED BY <1>10, <2>1, <2>2, <2>3, ResultsStay DEF Data
<1> QED BY <1>8, <1>9, <1>10 DEF Data, HooksRight, TensorsRight, RowsRight, ResultsRight

(* A rank on the last stage derives reference vectors of its call's nonces. *)
LEMMA DeriveIsRight ==
  ASSUME RanksInv, RankTypes, Control, Data, NEW r \in Ranks, pc[r] = "computed",
         NEW nan \in SUBSET DOMAIN rows[r], calls' = calls, lost' = lost + Cardinality(nan),
         NEW c, c = Number(r), NEW x, x = Artifacts(Derive(r, DOMAIN rows[r] \ nan))
  PROVE  ResultRight(r, c, x)' /\ Cardinality(nan) \in Nat
<1> DEFINE nonces == calls[c].nonces
           hash == calls[c].block_hash
           key == calls[c].public_key
           clean == DOMAIN rows[r] \ nan
           index == clean_idx(clean)
           k == Cardinality(clean)
           layers == Pp * Layers
           Seeds(n) == [input |-> InputSeed(hash, key, n),
                        reflections |-> [l \in 1..layers |-> LayerSeed(hash, l)]]
           Art(n) == [nonce |-> n, vector |-> Reference(hash, key, n)]
           T == {Art(n) : n \in Range(nonces)}
<1>1. calls[c] \in CallType /\ Call(r) = calls[c]
  <2>1. Number(r) \in DOMAIN calls
    BY DEF RanksInv, Busy
  <2> QED BY <2>1, CallIsTyped DEF RankTypes, Call
<1>2. nonces \in Seq(Nonces)
  BY <1>1 DEF CallType
<1>3. DOMAIN nonces = 1..Len(nonces) /\ Len(nonces) \in Nat
  BY <1>2, LenProperties
<1>4. rows[r] = [i \in DOMAIN nonces |-> Seeds(nonces[i])]
  BY DEF Data, RowsRight, RowsOf, Through
<1>5. DOMAIN rows[r] = 1..Len(nonces) /\ \A i \in DOMAIN nonces : rows[r][i] = Seeds(nonces[i])
  BY <1>3, <1>4
<1>6. args[r].nonces = nonces
  <2>1. args[r] = CallArgs(r)
    BY DEF RanksInv, Handed, Agreed
  <2> QED BY <1>1, <2>1 DEF CallArgs
<1>7. IsFiniteSet(DOMAIN rows[r]) /\ IsFiniteSet(nan) /\ IsFiniteSet(clean) /\ clean \in SUBSET Nat
  <2>1. IsFiniteSet(1..Len(nonces)) /\ 1..Len(nonces) \in SUBSET Nat
    <3>1. PICK n \in Nat : n = Len(nonces)
      BY <1>3
    <3>2. IsFiniteSet(1..n) /\ 1..n \in SUBSET Nat
      BY FS_Interval
    <3> QED BY <3>1, <3>2
  <2>2. nan \in SUBSET (1..Len(nonces)) /\ clean \in SUBSET (1..Len(nonces))
    BY <1>5
  <2> QED BY <1>5, <2>1, <2>2, FS_Subset
<1>8. Cardinality(nan) \in Nat
  BY <1>7, FS_CardinalityType
<1> HIDE DEF index, k
<1>9. /\ k \in Nat /\ index \in [1..k -> clean] /\ \A y \in clean : \E i \in 1..k : index[i] = y
      /\ DOMAIN Keep(nonces, clean) = 1..k /\ DOMAIN Keep(rows[r], clean) = 1..k
      /\ \A i \in 1..k : Keep(nonces, clean)[i] = nonces[index[i]] /\ Keep(rows[r], clean)[i] = rows[r][index[i]]
  <2> HIDE DEF nonces, clean
  <2>1. clean \in SUBSET Nat /\ IsFiniteSet(clean)
    BY <1>7
  <2> QED BY <2>1, KeepIsEnumeration DEF index, k
<1>10. \A i \in 1..k : index[i] \in DOMAIN nonces /\ index[i] \in clean
  BY <1>3, <1>5, <1>9
<1> DEFINE found == Derive(r, clean)
<1>11. DOMAIN found = 1..k /\ \A i \in 1..k : found[i] = Art(nonces[index[i]])
  <2>1. found = [i \in 1..k |->
                   [nonce |-> Keep(nonces, clean)[i],
                    vector |-> Vector(Keep(rows[r], clean)[i], hash, key, Keep(nonces, clean)[i])]]
    <3> HIDE DEF nonces, clean, hash, key
    <3> QED BY <1>1, <1>6, <1>9 DEF Derive, hash, key
  <2>2. \A i \in 1..k : rows[r][index[i]] = Seeds(nonces[index[i]])
    BY <1>5, <1>10
  <2>3. \A n : Reference(hash, key, n) = Vector(Seeds(n), hash, key, n)
    BY DEF Reference
  <2> HIDE DEF nonces, clean, hash, key, found, Seeds
  <2>4. \A i \in 1..k : found[i] = [nonce |-> nonces[index[i]], vector |-> Vector(Seeds(nonces[index[i]]), hash, key, nonces[index[i]])]
    BY <1>9, <2>1, <2>2
  <2>5. DOMAIN found = 1..k
    BY <2>1
  <2> QED BY <2>3, <2>4, <2>5
<1>12. x.artifacts = found /\ x.ok = TRUE
  BY DEF Artifacts
<1> HIDE DEF found, Art, nonces, hash, key, clean, T
<1>13. \A i \in 1..k : nonces[index[i]] \in Range(nonces) /\ found[i] \in T
  BY <1>10, <1>11 DEF Range, T
<1>14. found \in Seq(T)
  <2>1. found \in [1..k -> T]
    <3>1. found = [i \in 1..k |-> found[i]]
      <4>1. DOMAIN found = 1..k
        BY <1>11
      <4>2. \E f : found = [i \in DOMAIN f |-> found[i]] /\ DOMAIN found = DOMAIN f
        BY <1>11 DEF found, Derive, Zenon
      <4> QED BY <4>1, <4>2
    <3> QED BY <1>13, <3>1
  <2> QED BY <1>9, <2>1, SeqDef
<1>15. \A i \in 1..k : ArtifactRight(c, found[i])
  <2>1. \A i \in 1..k : found[i].nonce = nonces[index[i]] /\ found[i].vector = Reference(hash, key, nonces[index[i]])
    BY <1>11 DEF Art
  <2> QED BY <1>13, <2>1 DEF ArtifactRight, nonces, hash, key
<1>16. ASSUME lost' = 0, NEW n \in Range(nonces) PROVE \E i \in 1..k : found[i].nonce = n
  <2>1. lost \in Nat /\ Cardinality(nan) = 0
    BY <1>8, <1>16 DEF RankTypes, Budget
  <2>2. nan = {}
    BY <1>7, <2>1, FS_EmptySet
  <2>3. PICK j \in DOMAIN nonces : nonces[j] = n
    BY DEF Range
  <2>4. j \in clean
    BY <1>3, <1>5, <2>2, <2>3 DEF clean
  <2>5. PICK i \in 1..k : index[i] = j
    BY <1>9, <2>4
  <2>6. found[i].nonce = nonces[index[i]]
    BY <1>11 DEF Art
  <2> QED BY <2>3, <2>5, <2>6
<1>17. DOMAIN found = 1..k
  BY <1>11
<1>18. \A i \in DOMAIN x.artifacts : ArtifactRight(c, x.artifacts[i])'
  BY <1>12, <1>15, <1>17 DEF ArtifactRight
<1>19. \E U : x.artifacts \in Seq(U)
  BY <1>12, <1>14
<1>20. lost' = 0 => \A n \in Range(calls'[c].nonces) : \E i \in DOMAIN x.artifacts : x.artifacts[i].nonce = n
  BY <1>12, <1>16, <1>17 DEF nonces
<1>21. ResultRight(r, c, x)'
  BY <1>18, <1>19, <1>20 DEF ResultRight
<1> QED BY <1>8, <1>21

LEMMA FinishKeepsData ==
  ASSUME RanksInv, RankTypes, Control, Data, NEW r \in Ranks, Finish(r)
  PROVE  Data'
<1>1. PICK nan \in SUBSET DOMAIN rows[r] :
         /\ lost' = lost + Cardinality(nan)
         /\ Return(r, Artifacts(Derive(r, DOMAIN rows[r] \ nan)))
  BY DEF Finish
<1>2. pc[r] = "computed" /\ calls' = calls /\ UNCHANGED <<installed, held, chan>>
  BY DEF Finish
<1>3. PICK x : x = Artifacts(Derive(r, DOMAIN rows[r] \ nan))
  OBVIOUS
<1>4. PICK S : returned \in [Ranks -> Seq(S)]
  BY DEF RanksInv, Lists
<1>5. /\ returned' = [returned EXCEPT ![r] = Append(@, x)]
      /\ rows' = [rows EXCEPT ![r] = <<>>] /\ pc' = [pc EXCEPT ![r] = "idle"]
      /\ pc \in [Ranks -> Points] /\ DOMAIN rows = Ranks
  BY <1>1, <1>3 DEF Return, Goto, RanksInv, Shapes, RankTypes, Batches
<1>6. /\ returned'[r] = Append(returned[r], x) /\ pc'[r] = "idle"
      /\ \A s \in Ranks : s # r => returned'[s] = returned[s] /\ pc'[s] = pc[s] /\ rows'[s] = rows[s]
  BY <1>4, <1>5
<1>7. \A c : c = Number(r) => ResultRight(r, c, x)'
  BY <1>1, <1>2, <1>3, DeriveIsRight
<1>8. Cardinality(nan) \in Nat
  BY <1>1, <1>2, DeriveIsRight
<1>9. x.ok = TRUE
  BY <1>3 DEF Artifacts
<1>10. ~Bad(r) /\ ~Bad(r)' /\ Len(returned'[r]) = Len(returned[r]) + 1
  <2>1. ~Bad(r)
    BY <1>2 DEF Control, LastWord, Bad, Entering
  <2>2. Lists
    BY DEF RanksInv
  <2> QED BY <1>6, <1>9, <2>1, <2>2, LongerBad
<1>11. \A s \in Ranks : Bad(s)' <=> Bad(s)
  BY <1>6, <1>10, SameBad
<1>12. \A s \in Ranks : s # r => Number(s)' = Number(s) /\ Call(s)' = Call(s) /\ Done(s)' = Done(s)
  BY <1>2, <1>6, <1>11 DEF Number, Call, Done
<1>13. \A s \in Ranks : ReadUpTo(s)' = ReadUpTo(s)
  <2>1. ReadUpTo(r)' = ReadUpTo(r)
    BY <1>2, <1>6, <1>10 DEF ReadUpTo, Number
  <2> QED BY <1>6, <2>1 DEF ReadUpTo, Number
<1>14. ASSUME NEW s \in Ranks PROVE HookRight(s)' /\ TensorRight(s)'
  <2>1. HookRight(s) /\ TensorRight(s)
    BY DEF Data, HooksRight, TensorsRight
  <2>2. pc'[s] \in {"ready", "forward", "computed"} => pc[s] \in {"ready", "forward", "computed"} /\ Call(s)' = Call(s)
    BY <1>6, <1>12
  <2>3. HookRight(s)'
    BY <1>2, <1>11, <2>1, <2>2, HookStays
  <2>4. PocUpTo(ReadUpTo(s))' = PocUpTo(ReadUpTo(s))
    BY <1>2, <1>13 DEF PocUpTo
  <2>5. s[2] # 0 => PocUpTo(Done(Before(s)))' = PocUpTo(Done(Before(s)))
    <3> SUFFICES ASSUME s[2] # 0 PROVE PocUpTo(Done(Before(s)))' = PocUpTo(Done(Before(s)))
      OBVIOUS
    <3>1. Before(s) \in Ranks /\ Before(s)[2] # Pp - 1
      BY StageNumbers
    <3>2. Before(s) # r
      BY <1>2, <3>1 DEF Control, AtEnd
    <3>3. Done(Before(s))' = Done(Before(s))
      BY <1>12, <3>1, <3>2 DEF Before
    <3> QED BY <1>2, <3>3 DEF PocUpTo
  <2>6. TensorRight(s)'
    BY <1>2, <1>11, <2>1, <2>4, <2>5, TensorStays
  <2> QED BY <2>3, <2>6
<1>15. ASSUME NEW s \in Ranks, pc'[s] \in {"forward", "computed"}
      PROVE  rows'[s] = RowsOf(Number(s), Through(s))'
  <2>1. s # r
    BY <1>6, <1>15
  <2>2. rows[s] = RowsOf(Number(s), Through(s))
    BY <1>6, <1>15, <2>1 DEF Data, RowsRight
  <2> QED BY <1>2, <1>6, <1>12, <2>1, <2>2, HeldRowsStay
<1>16. ASSUME NEW s \in Ranks, NEW c \in DOMAIN returned'[s], calls'[c].kind = "poc"
       PROVE  ResultRight(s, c, returned[s][c])'
  <2>1. lost \in Nat /\ lost' \in Nat /\ lost <= lost'
    BY <1>1, <1>8 DEF RankTypes, Budget
  <2>2. CASE s = r
    <3>1. \E S2 : returned[r] \in Seq(S2)
      BY <1>4
    <3> QED BY <1>2, <1>6, <1>7, <1>16, <2>1, <2>2, <3>1, ResultsStay DEF Data
  <2>3. CASE s # r
    BY <1>2, <1>6, <1>16, <2>1, <2>3, ResultsStay DEF Data
  <2> QED BY <2>2, <2>3
<1>17. DOMAIN installed' = Ranks
  BY <1>2 DEF Data, HooksRight
<1> QED BY <1>14, <1>15, <1>16, <1>17 DEF Data, HooksRight, TensorsRight, RowsRight, ResultsRight

(* Layer hooks: whatever the rank held goes, the round's own hook comes. *)
LEMMA EnsureHooksIsRight ==
  ASSUME HooksRight, HookTypes, NEW r \in Ranks, ~Bad(r), EnsureHooks(r),
         Call(r).block_hash \in Hashes
  PROVE  /\ DOMAIN installed' = Ranks /\ held'[r] = Call(r).block_hash
         /\ \A l \in LayersOf(r) : installed'[r][l] = HooksOf(held'[r])
         /\ \A s \in Ranks : s # r => installed'[s] = installed[s] /\ held'[s] = held[s]
<1>1. DOMAIN installed = Ranks /\ \A l \in LayersOf(r) : installed[r][l] = HooksOf(held[r])
  BY DEF HooksRight, HookRight
<1>2. CASE held[r] = Call(r).block_hash
  BY <1>1, <1>2 DEF EnsureHooks
<1>3. CASE held[r] # Call(r).block_hash
  <2>1. /\ installed' = [installed EXCEPT ![r] = Registered(r, LayersOf(r), TRUE)]
        /\ held' = [held EXCEPT ![r] = Call(r).block_hash]
    BY <1>3 DEF EnsureHooks
  <2>2. held'[r] = Call(r).block_hash /\ \A s \in Ranks : s # r => held'[s] = held[s]
    BY <2>1 DEF HookTypes
  <2>3. /\ DOMAIN installed' = Ranks /\ installed'[r] = Registered(r, LayersOf(r), TRUE)
        /\ \A s \in Ranks : s # r => installed'[s] = installed[s]
    BY <1>1, <2>1
  <2> DEFINE hash == Call(r).block_hash
             hook == [block_hash |-> hash, owned |-> TRUE]
  <2>4. ASSUME NEW l \in LayersOf(r) PROVE Detached(r)[l] = <<>>
    <3>1. \A i \in DOMAIN installed[r][l] : installed[r][l][i].owned
      <4>1. installed[r][l] = <<>> \/ installed[r][l] = <<[block_hash |-> held[r], owned |-> TRUE]>>
        BY <1>1 DEF HooksOf
      <4> QED BY <4>1
    <3>2. {i \in DOMAIN installed[r][l] : ~installed[r][l][i].owned} = {}
      BY <3>1
    <3>3. Detached(r)[l] = Keep(installed[r][l], {i \in DOMAIN installed[r][l] : ~installed[r][l][i].owned})
      BY DEF Detached
    <3> QED BY <3>2, <3>3, KeepNothing
  <2>5. ASSUME NEW l \in LayersOf(r) PROVE Registered(r, LayersOf(r), TRUE)[l] = <<hook>>
    <3>1. Registered(r, LayersOf(r), TRUE)[l] = Append(Detached(r)[l], hook)
      BY DEF Registered
    <3> HIDE DEF hook
    <3>2. Append(<<>>, hook) = <<hook>>
      OBVIOUS
    <3> QED BY <2>4, <3>1, <3>2
  <2>6. hash # NoHooks
    BY ForwardAssumption DEF NoHooks
  <2>7. \A l \in LayersOf(r) : installed'[r][l] = HooksOf(held'[r])
    BY <2>2, <2>3, <2>5, <2>6 DEF HooksOf
  <2> QED BY <2>2, <2>3, <2>7
<1> QED BY <1>2, <1>3

LEMMA PocCallOf ==
  ASSUME RanksInv, PocOnly, NEW r \in Ranks, pc[r] # "idle"
  PROVE  Number(r) \in DOMAIN calls /\ Call(r).kind = "poc" /\ Call(r).block_hash \in Hashes
BY DEF RanksInv, Busy, PocOnly, Call

LEMMA PocMore ==
  ASSUME NEW n \in Nat
  PROVE  PocUpTo(n + 1) = IF calls[n + 1].kind = "poc" THEN PocUpTo(n) \cup {n + 1} ELSE PocUpTo(n)
<1>1. \A c : c \in 1..(n + 1) <=> c \in 1..n \/ c = n + 1
  OBVIOUS
<1> QED BY <1>1 DEF PocUpTo

(* The ranks of a stage that did not raise return one more result. *)
LEMMA StageReturns ==
  ASSUME RanksInv, NEW r \in Ranks, ~Bad(r), NEW x, x.ok = TRUE,
         returned'[r] = Append(returned[r], x)
  PROVE  /\ ~Bad(r)' /\ Done(r) = Len(returned[r]) /\ Done(r)' = Len(returned[r]) + 1
         /\ Number(r)' = Number(r) + 1 /\ Len(returned'[r]) = Len(returned[r]) + 1
         /\ Len(returned[r]) \in Nat /\ \E S : returned[r] \in Seq(S)
<1>1. Lists
  BY DEF RanksInv
<1>2. ~Bad(r)' /\ Len(returned'[r]) = Len(returned[r]) + 1 /\ Len(returned[r]) \in Nat
  BY <1>1, LongerBad
<1>3. \E S : returned[r] \in Seq(S)
  <2>1. PICK S : returned \in [Ranks -> Seq(S)]
    BY <1>1 DEF Lists
  <2> QED BY <2>1
<1> QED BY <1>2, <1>3 DEF Done, Number

LEMMA InferenceKeepsData ==
  ASSUME RanksInv, RankTypes, Control, Data, faults' < Tp, NEW p \in Stages, InferenceStep(p)
  PROVE  Data'
<1>1. /\ UNCHANGED <<calls, pc, installed, held, rows, chan, faults, lost>>
      /\ \A r \in Ranks : r[2] = p => pc[r] = "idle" /\ Call(r).kind = "step"
  BY DEF InferenceStep, StageAt, StageRanks
<1>2. \A r \in Ranks : r[2] = p => ~Bad(r)
  <2>1. \A r \in Ranks : r[2] = p => pc[r] \notin Halting
    BY <1>1 DEF Halting
  <2>2. faults \in Nat /\ faults < Tp
    BY <1>1 DEF RankTypes, Budget
  <2> QED BY <2>1, <2>2, StageIsClean
<1>3. \A r \in Ranks : IF r[2] = p THEN returned'[r] = Append(returned[r], Inference(Reflections(r) = <<>>))
                       ELSE returned'[r] = returned[r]
  BY DEF InferenceStep
<1>4. \A r \in Ranks : Inference(Reflections(r) = <<>>).ok = TRUE
  BY DEF Inference
<1>5. ASSUME NEW r \in Ranks, r[2] = p
      PROVE  /\ ~Bad(r)' /\ Done(r) = Len(returned[r]) /\ Done(r)' = Len(returned[r]) + 1
             /\ Number(r)' = Number(r) + 1 /\ Len(returned'[r]) = Len(returned[r]) + 1
             /\ Len(returned[r]) \in Nat /\ \E S : returned[r] \in Seq(S)
  BY <1>2, <1>3, <1>4, <1>5, StageReturns
<1>6. \A r \in Ranks : Bad(r)' <=> Bad(r)
  <2>1. ASSUME NEW r \in Ranks, r[2] # p PROVE Bad(r)' <=> Bad(r)
    BY <1>3, <2>1, SameBad
  <2> QED BY <1>2, <1>5, <2>1
<1>7. ASSUME NEW r \in Ranks, r[2] # p
      PROVE  Done(r)' = Done(r) /\ ReadUpTo(r)' = ReadUpTo(r) /\ Number(r)' = Number(r)
  BY <1>1, <1>3, <1>6, <1>7 DEF Done, ReadUpTo, Number
<1>8. ASSUME NEW r \in Ranks, r[2] = p
      PROVE  calls[Len(returned[r]) + 1].kind = "step"
  BY <1>1, <1>8 DEF Call, Number
<1>9. ASSUME NEW r \in Ranks
      PROVE PocUpTo(ReadUpTo(r))' = PocUpTo(ReadUpTo(r)) /\ PocUpTo(Done(r))' = PocUpTo(Done(r))
  <2>1. CASE r[2] = p
    <3>1. ReadUpTo(r) = Len(returned[r]) /\ ReadUpTo(r)' = Len(returned[r]) + 1
      BY <1>1, <1>5, <2>1 DEF ReadUpTo
    <3>2. PocUpTo(Len(returned[r]) + 1) = PocUpTo(Len(returned[r]))
      BY <1>5, <1>8, <2>1, PocMore
    <3>3. PocUpTo(ReadUpTo(r))' = PocUpTo(Len(returned[r]) + 1) /\ PocUpTo(Done(r))' = PocUpTo(Len(returned[r]) + 1)
      BY <1>1, <1>5, <2>1, <3>1 DEF PocUpTo
    <3> QED BY <1>5, <2>1, <3>1, <3>2, <3>3
  <2>2. CASE r[2] # p
    BY <1>1, <1>7, <2>2 DEF PocUpTo
  <2> QED BY <2>1, <2>2
<1>10. ASSUME NEW r \in Ranks PROVE HookRight(r)' /\ TensorRight(r)'
  <2>1. HookRight(r) /\ TensorRight(r)
    BY DEF Data, HooksRight, TensorsRight
  <2>2. pc'[r] \in {"ready", "forward", "computed"} => pc[r] \in {"ready", "forward", "computed"} /\ Call(r)' = Call(r)
    BY <1>1, <1>7 DEF Call
  <2>3. HookRight(r)'
    BY <1>1, <1>6, <2>1, <2>2, HookStays
  <2>4. r[2] # 0 => PocUpTo(Done(Before(r)))' = PocUpTo(Done(Before(r)))
    BY <1>9, StageNumbers DEF Before
  <2>5. TensorRight(r)'
    BY <1>1, <1>6, <1>9, <2>1, <2>4, TensorStays
  <2> QED BY <2>3, <2>5
<1>11. ASSUME NEW r \in Ranks, pc'[r] \in {"forward", "computed"}
      PROVE  rows'[r] = RowsOf(Number(r), Through(r))'
  <2>1. r[2] # p
    BY <1>1, <1>11
  <2>2. rows[r] = RowsOf(Number(r), Through(r))
    BY <1>1, <1>11 DEF Data, RowsRight
  <2> QED BY <1>1, <1>7, <2>1, <2>2, HeldRowsStay
<1>12. ASSUME NEW r \in Ranks, NEW c \in DOMAIN returned'[r], calls'[c].kind = "poc"
       PROVE  ResultRight(r, c, returned[r][c])'
  <2>1. lost \in Nat /\ lost' \in Nat /\ lost <= lost'
    BY <1>1 DEF RankTypes, Budget
  <2>2. CASE r[2] = p
    <3>1. /\ returned'[r] = Append(returned[r], Inference(Reflections(r) = <<>>))
          /\ \E S : returned[r] \in Seq(S)
          /\ \A c2 : c2 = Number(r) => calls[c2].kind # "poc"
      BY <1>1, <1>3, <1>5, <2>2 DEF Call
    <3>2. PICK x : x = Inference(Reflections(r) = <<>>)
      OBVIOUS
    <3>3. returned'[r] = Append(returned[r], x)
      BY <3>1, <3>2
    <3>4. \A c2 : c2 = Number(r) /\ calls[c2].kind = "poc" => ResultRight(r, c2, x)'
      BY <3>1
    <3>5. ResultsRight /\ calls' = calls /\ \E S : returned[r] \in Seq(S)
      BY <1>1, <3>1 DEF Data
    <3> QED BY <1>12, <2>1, <3>3, <3>4, <3>5, ResultsStay
  <2>3. CASE r[2] # p
    BY <1>1, <1>3, <1>12, <2>1, <2>3, ResultsStay DEF Data
  <2> QED BY <2>2, <2>3
<1>13. DOMAIN installed' = Ranks
  BY <1>1 DEF Data, HooksRight
<1> QED BY <1>10, <1>11, <1>12, <1>13 DEF Data, HooksRight, TensorsRight, RowsRight, ResultsRight

(* The tensors a rank takes are those of the call it works on. *)
LEMMA InputIsRight ==
  ASSUME RanksInv, RankTypes, Control, Data, NEW r \in Ranks, ~Bad(r), pc[r] = "ready", HasInput(r)
  PROVE  /\ InputOf(r) = RowsOf(Number(r), r[2] * Layers)
         /\ r[2] # 0 =>
              LET done == PocUpTo(Done(Before(r)))
                  taken == PocUpTo(Number(r))
              IN taken \subseteq done /\ Carries(Tail(chan[r]), done \ taken, r[2] * Layers)
<1>1. Number(r) \in DOMAIN calls /\ Call(r).kind = "poc" /\ pc[r] # "idle"
  BY PocCallOf DEF Control
<1>2. CASE IsFirst(r)
  <2>1. r[2] = 0 /\ r[2] * Layers = 0
    BY <1>2, ForwardAssumption DEF IsFirst
  <2>2. args[r].nonces = Call(r).nonces
    <3>1. args[r] = CallArgs(r)
      BY DEF RanksInv, Handed, Agreed
    <3> QED BY <3>1 DEF CallArgs
  <2>3. \A h : [l \in 1..0 |-> LayerSeed(h, l)] = <<>>
    <3> SUFFICES ASSUME NEW h PROVE [l \in 1..0 |-> LayerSeed(h, l)] = <<>>
      OBVIOUS
    <3>1. 1..0 = {}
      OBVIOUS
    <3>2. [l \in 1..0 |-> LayerSeed(h, l)] \in [1..0 -> {}]
      BY <3>1
    <3> DEFINE e == [l \in 1..0 |-> LayerSeed(h, l)]
    <3> HIDE DEF e
    <3>3. e \in Seq({}) /\ Len(e) = 0
      <4>1. e \in [1..0 -> {}]
        BY <3>2 DEF e
      <4> QED BY <4>1, SeqDef, LenProperties
    <3>4. e = <<>>
      BY <3>3, EmptySeq
    <3> QED BY <3>4 DEF e
  <2> DEFINE c == Call(r)
             In(i) == InputSeed(c.block_hash, c.public_key, c.nonces[i])
             none == [l \in 1..0 |-> LayerSeed(c.block_hash, l)]
  <2>4. none = <<>>
    BY <2>3
  <2>5. InputOf(r) = [i \in DOMAIN c.nonces |-> [input |-> In(i), reflections |-> <<>>]]
    BY <1>2, <2>2 DEF InputOf, GenerateInputs
  <2>6. RowsOf(Number(r), r[2] * Layers) = [i \in DOMAIN c.nonces |-> [input |-> In(i), reflections |-> none]]
    BY <2>1 DEF RowsOf, Call
  <2> HIDE DEF none, In, c
  <2>7. InputOf(r) = RowsOf(Number(r), r[2] * Layers)
    BY <2>4, <2>5, <2>6
  <2> QED BY <2>1, <2>7
<1>3. CASE ~IsFirst(r)
  <2> DEFINE n == Len(returned[r])
             b == Before(r)
             done == PocUpTo(Done(b))
             set == done \ PocUpTo(n)
             k == r[2] * Layers
  <2>1. r[2] # 0 /\ chan[r] # <<>> /\ b \in Ranks
    BY <1>3, StageNumbers DEF HasInput, IsFirst
  <2>2. /\ n \in Nat /\ Number(r) = n + 1 /\ Done(b) \in Nat
    BY <2>1, RankNumbers
  <2>3. ReadUpTo(r) = n
    BY DEF ReadUpTo
  <2>4. PocUpTo(n) \subseteq done /\ Carries(chan[r], set, k)
    BY <2>1, <2>3 DEF Data, TensorsRight, TensorRight
  <2>5. PICK S : chan[r] \in Seq(S)
    <3>1. PICK S : chan \in [Ranks -> Seq(S)]
      BY DEF RankTypes, Batches
    <3> QED BY <3>1
  <2>6. set \in SUBSET Nat
    BY DEF PocUpTo
  <2>7. \E c : c \in set
    <3>1. PICK src \in [1..Len(chan[r]) -> set] : TRUE
      BY <2>4 DEF Carries
    <3>2. Len(chan[r]) \in Nat /\ Len(chan[r]) # 0
      BY <2>1, <2>5, LenProperties, EmptySeq
    <3>3. 1 \in 1..Len(chan[r])
      BY <3>2
    <3> HIDE DEF set
    <3> QED BY <3>1, <3>3
  <2>8. \A c \in set : c \in Nat /\ n + 1 <= c /\ c <= Done(b)
    BY <2>2 DEF PocUpTo
  <2>9. n + 1 \in done
    <3>1. n + 1 \in 1..Done(b)
      BY <2>2, <2>7, <2>8
    <3>2. calls[n + 1].kind = "poc"
      BY <1>1, <2>2 DEF Call
    <3> QED BY <3>1, <3>2 DEF PocUpTo
  <2>10. n + 1 \in set
    BY <2>2, <2>9 DEF PocUpTo
  <2>11. Head(chan[r]) = RowsOf(n + 1, k) /\ Carries(Tail(chan[r]), set \ {n + 1}, k)
    <3> HIDE DEF set, k, n
    <3> QED BY <2>4, <2>5, <2>6, <2>8, <2>10, CarriesHead
  <2>12. PocUpTo(n + 1) = PocUpTo(n) \cup {n + 1}
    BY <1>1, <2>2, PocMore DEF Call
  <2>13. set \ {n + 1} = done \ PocUpTo(n + 1)
    BY <2>12
  <2>14. InputOf(r) = Head(chan[r])
    BY <1>3 DEF InputOf
  <2>15. PocUpTo(n + 1) \subseteq done
    BY <2>4, <2>9, <2>12
  <2> HIDE DEF set, done, k, n, b
  <2> QED BY <2>2, <2>11, <2>13, <2>14, <2>15 DEF done, b, k
<1> QED BY <1>2, <1>3

LEMMA TensorBecomes ==
  ASSUME NEW r \in Ranks, calls' = calls, NEW n, NEW m, NEW ch, ch = chan'[r],
         PocUpTo(ReadUpTo(r))' = n, PocUpTo(Done(Before(r)))' = m,
         n \subseteq m, Carries(ch, m \ n, r[2] * Layers)
  PROVE  TensorRight(r)'
<1> DEFINE k == r[2] * Layers
<1>1. \A c : RowsOf(c, k)' = RowsOf(c, k)
  BY RowsStay DEF k
<1> HIDE DEF k
<1>2. PICK src \in [1..Len(ch) -> m \ n] :
         /\ \A i, j \in 1..Len(ch) : i < j => src[i] < src[j]
         /\ \A c \in m \ n : \E i \in 1..Len(ch) : src[i] = c
         /\ \A i \in 1..Len(ch) : ch[i] = RowsOf(src[i], k)
  BY DEF Carries, k
<1>3. \A i \in 1..Len(ch) : ch[i] = RowsOf(src[i], k)'
  <2> SUFFICES ASSUME NEW i \in 1..Len(ch) PROVE ch[i] = RowsOf(src[i], k)'
    OBVIOUS
  <2>1. RowsOf(src[i], k)' = RowsOf(src[i], k)
    BY <1>1
  <2> QED BY <1>2, <2>1
<1>4. Carries(chan[r], PocUpTo(Done(Before(r))) \ PocUpTo(ReadUpTo(r)), k)'
  BY <1>2, <1>3 DEF Carries, k
<1>5. (PocUpTo(ReadUpTo(r)) \subseteq PocUpTo(Done(Before(r))))'
  OBVIOUS
<1> QED BY <1>4, <1>5 DEF TensorRight, k

(* A rank takes its input: one tensor less is on its way to it. *)
LEMMA EnterKeepsData ==
  ASSUME RanksInv, RankTypes, Control, Data, NEW r \in Ranks, Enter(r)
  PROVE  Data'
<1>1. /\ pc[r] = "ready" /\ HasInput(r) /\ UNCHANGED <<calls, installed, held, returned, lost>>
      /\ rows' = [rows EXCEPT ![r] = InputOf(r)] /\ pc' = [pc EXCEPT ![r] = "forward"]
      /\ chan' = [chan EXCEPT ![r] = IF IsFirst(r) THEN @ ELSE Tail(@)]
  BY DEF Enter, Goto, mishaps
<1>2. /\ pc'[r] = "forward" /\ rows'[r] = InputOf(r) /\ (~IsFirst(r) => chan'[r] = Tail(chan[r]))
      /\ \A s \in Ranks : s # r => pc'[s] = pc[s] /\ rows'[s] = rows[s] /\ chan'[s] = chan[s]
  BY <1>1 DEF RanksInv, Shapes, RankTypes, Batches
<1>3. ~Bad(r) /\ \A s \in Ranks : Bad(s)' <=> Bad(s)
  BY <1>1 DEF Control, LastWord, Bad, Entering
<1>4. \A s \in Ranks : Number(s)' = Number(s) /\ Call(s)' = Call(s) /\ Done(s)' = Done(s)
  BY <1>1, <1>3 DEF Number, Call, Done
<1>5. ASSUME NEW s \in Ranks, s[2] # 0 PROVE PocUpTo(Done(Before(s)))' = PocUpTo(Done(Before(s)))
  <2>1. Before(s) \in Ranks
    BY <1>5, StageNumbers
  <2>2. Done(Before(s))' = Done(Before(s))
    BY <1>4, <2>1 DEF Before
  <2> QED BY <1>1, <2>2 DEF PocUpTo
<1>6. ASSUME NEW s \in Ranks PROVE HookRight(s)'
  <2>1. HookRight(s)
    BY DEF Data, HooksRight
  <2>2. pc'[s] \in {"ready", "forward", "computed"} =>
          pc[s] \in {"ready", "forward", "computed"} /\ Call(s)' = Call(s)
    BY <1>1, <1>2, <1>4
  <2> QED BY <1>1, <1>3, <2>1, <2>2, HookStays
<1>7. InputOf(r) = RowsOf(Number(r), r[2] * Layers)
  BY <1>1, <1>3, InputIsRight
<1>8. ASSUME r[2] # 0 PROVE TensorRight(r)'
  <2> DEFINE done == PocUpTo(Done(Before(r)))
             taken == PocUpTo(Number(r))
  <2>1. taken \subseteq done /\ Carries(Tail(chan[r]), done \ taken, r[2] * Layers)
    BY <1>1, <1>3, <1>8, InputIsRight
  <2>2. PICK n, m, ch : n = taken /\ m = done /\ ch = Tail(chan[r])
    OBVIOUS
  <2>3. ReadUpTo(r)' = Number(r)
    BY <1>2, <1>4 DEF ReadUpTo
  <2>4. PocUpTo(ReadUpTo(r))' = n
    BY <1>1, <2>2, <2>3 DEF PocUpTo
  <2>5. PocUpTo(Done(Before(r)))' = m
    BY <1>5, <1>8, <2>2
  <2>6. ch = chan'[r] /\ n \subseteq m /\ Carries(ch, m \ n, r[2] * Layers)
    BY <1>2, <1>8, <2>1, <2>2 DEF IsFirst
  <2> QED BY <1>1, <2>4, <2>5, <2>6, TensorBecomes
<1>9. ASSUME NEW s \in Ranks PROVE TensorRight(s)'
  <2>1. CASE s = r /\ r[2] = 0
    BY <2>1 DEF TensorRight
  <2>2. CASE s # r
    <3>1. TensorRight(s) /\ ReadUpTo(s)' = ReadUpTo(s)
      BY <1>1, <1>2, <1>4, <2>2 DEF Data, TensorsRight, ReadUpTo
    <3>2. PocUpTo(ReadUpTo(s))' = PocUpTo(ReadUpTo(s))
      BY <1>1, <3>1 DEF PocUpTo
    <3> QED BY <1>1, <1>2, <1>3, <1>5, <2>2, <3>1, <3>2, TensorStays
  <2> QED BY <1>8, <2>1, <2>2
<1>10. ASSUME NEW s \in Ranks, pc'[s] \in {"forward", "computed"}
       PROVE  rows'[s] = RowsOf(Number(s), Through(s))'
  <2>1. CASE s = r
    BY <1>1, <1>2, <1>4, <1>7, <2>1 DEF RowsOf, Through
  <2>2. CASE s # r
    <3>1. rows[s] = RowsOf(Number(s), Through(s))
      BY <1>2, <1>10, <2>2 DEF Data, RowsRight
    <3> QED BY <1>1, <1>2, <1>4, <2>2, <3>1, HeldRowsStay
  <2> QED BY <2>1, <2>2
<1>11. ASSUME NEW s \in Ranks, NEW c \in DOMAIN returned'[s], calls'[c].kind = "poc"
       PROVE  ResultRight(s, c, returned[s][c])'
  <2>1. lost \in Nat /\ lost' \in Nat /\ lost <= lost'
    BY <1>1 DEF RankTypes, Budget
  <2> QED BY <1>1, <1>11, <2>1, ResultsStay DEF Data
<1>12. DOMAIN installed' = Ranks
  BY <1>1 DEF Data, HooksRight
<1> QED BY <1>6, <1>9, <1>10, <1>11, <1>12 DEF Data, HooksRight, TensorsRight, RowsRight, ResultsRight

(* The input of a rank that did not raise fits its call. *)
LEMMA InputFits ==
  ASSUME RanksInv, Data, NEW r \in Ranks, pc[r] = "forward"
  PROVE  Fits(r)
<1>1. args[r].nonces = calls[Number(r)].nonces
  <2>1. args[r] = CallArgs(r)
    BY DEF RanksInv, Handed, Agreed
  <2> QED BY <2>1 DEF CallArgs, Call
<1>2. DOMAIN rows[r] = DOMAIN calls[Number(r)].nonces
  BY DEF Data, RowsRight, RowsOf
<1> QED BY <1>1, <1>2 DEF Fits

LEMMA RankStepKeepsData ==
  ASSUME RanksInv, RankTypes, Control, Data, NEW r \in Ranks, RankStep(r)
  PROVE  Data'
<1>1. pc \in [Ranks -> Points] /\ DOMAIN installed = Ranks /\ \A s \in Ranks : HookRight(s)
  BY DEF RanksInv, Shapes, Data, HooksRight
<1>2. CASE Begin(r) \/ Receive(r)
  <2>1. UNCHANGED <<calls, installed, held, rows, chan, returned, lost>>
    BY <1>2 DEF Begin, Receive, mishaps
  <2>2. \E where \in {"barrier", "synced", "barrier2"} : pc' = [pc EXCEPT ![r] = where]
    BY <1>2 DEF Begin, Receive, Goto
  <2>3. pc[r] \notin {"forward", "computed"}
    BY <1>2 DEF Begin, Receive
  <2>4. /\ pc'[r] \notin {"ready", "forward", "computed"}
        /\ \A s \in Ranks : s # r => pc'[s] = pc[s]
    BY <1>1, <2>2
  <2>5. \A s \in Ranks :
          \/ pc'[s] = pc[s]
          \/ pc[s] \notin {"forward", "computed"} /\ pc'[s] \notin {"forward", "computed"}
    BY <2>3, <2>4
  <2>6. TensorsRight' /\ RowsRight' /\ ResultsRight' /\ \A s \in Ranks : Bad(s)' <=> Bad(s)
    BY <2>1, <2>5, WaitKeepsData
  <2>7. ASSUME NEW s \in Ranks PROVE HookRight(s)'
    <3>1. Call(s)' = Call(s)
      BY <2>1 DEF Call, Number
    <3>2. pc'[s] \in {"ready", "forward", "computed"} => pc[s] \in {"ready", "forward", "computed"}
      BY <2>4
    <3> QED BY <1>1, <2>1, <2>6, <3>1, <3>2, HookStays
  <2> QED BY <1>1, <2>1, <2>6, <2>7 DEF Data, HooksRight
<1>3. CASE Prepare(r)
  <2>1. /\ UNCHANGED <<calls, rows, chan, returned, lost>> /\ EnsureHooks(r)
        /\ pc' = [pc EXCEPT ![r] = "ready"] /\ pc[r] = "synced"
    BY <1>3 DEF Prepare, Goto, mishaps
  <2>2. pc'[r] = "ready" /\ \A s \in Ranks : s # r => pc'[s] = pc[s]
    BY <1>1, <2>1
  <2>3. \A s \in Ranks :
          \/ pc'[s] = pc[s]
          \/ pc[s] \notin {"forward", "computed"} /\ pc'[s] \notin {"forward", "computed"}
    BY <2>1, <2>2
  <2>4. TensorsRight' /\ RowsRight' /\ ResultsRight' /\ \A s \in Ranks : Bad(s)' <=> Bad(s)
    BY <2>1, <2>3, WaitKeepsData
  <2>5. ~Bad(r)
    BY <2>1 DEF Control, LastWord, Bad, Entering
  <2>6. Call(r).block_hash \in Hashes
    BY <2>1, PocCallOf DEF Control
  <2>7. /\ DOMAIN installed' = Ranks /\ held'[r] = Call(r).block_hash
        /\ \A l \in LayersOf(r) : installed'[r][l] = HooksOf(held'[r])
        /\ \A s \in Ranks : s # r => installed'[s] = installed[s] /\ held'[s] = held[s]
    BY <2>1, <2>5, <2>6, EnsureHooksIsRight DEF Data, RankTypes
  <2>8. \A s \in Ranks : Call(s)' = Call(s)
    BY <2>1 DEF Call, Number
  <2>9. ASSUME NEW s \in Ranks PROVE HookRight(s)'
    <3>1. CASE s = r
      <4>1. held'[r] = Call(r)'.block_hash
        BY <2>7, <2>8
      <4> QED BY <2>7, <3>1, <4>1 DEF HookRight
    <3>2. CASE s # r
      BY <1>1, <2>2, <2>4, <2>7, <2>8, <3>2, HookStays
    <3> QED BY <3>1, <3>2
  <2> QED BY <2>4, <2>7, <2>9 DEF Data, HooksRight
<1>4. CASE HooksRaise(r)
  <2>1. /\ pc[r] = "synced" /\ Return(r, Raised) /\ UNCHANGED <<calls, held, lost, chan>>
        /\ \E hooks : installed' = [installed EXCEPT ![r] = hooks]
    BY <1>4 DEF HooksRaise, MayRaise
  <2>2. DOMAIN installed' = Ranks /\ \A s \in Ranks : s # r => installed'[s] = installed[s]
    BY <1>1, <2>1
  <2> QED BY <2>1, <2>2, RaiseKeepsData DEF Halting
<1>5. CASE LayoutRaises(r) \/ ModelRaises(r)
  <2>1. /\ pc[r] \in {"ready", "forward"} /\ Return(r, Raised)
        /\ UNCHANGED <<calls, held, lost, installed, chan>>
    BY <1>5 DEF LayoutRaises, ModelRaises, MayRaise, mishaps
  <2> QED BY <1>1, <2>1, RaiseKeepsData DEF Halting
<1>6. CASE Enter(r)
  BY <1>6, EnterKeepsData
<1>7. CASE Finish(r)
  BY <1>7, FinishKeepsData
<1> QED BY <1>2, <1>3, <1>4, <1>5, <1>6, <1>7 DEF RankStep

(* The ranks of a stage run their layers together. *)
LEMMA ModelKeepsData ==
  ASSUME RanksInv, RankTypes, FlagTracks, Control, Data, faults' < Tp, NEW p \in Stages, Model(p)
  PROVE  Data'
<1>1. /\ UNCHANGED <<calls, installed, held, faults, lost>>
      /\ \A r \in Ranks : r[2] = p => pc[r] = "forward"
  BY DEF Model, StageAt, StageRanks
<1>2. \A r \in Ranks : r[2] = p => ~Bad(r)
  <2>1. \A r \in Ranks : r[2] = p => pc[r] \notin Entering
    BY <1>1 DEF Entering
  <2>2. faults \in Nat /\ faults < Tp
    BY <1>1 DEF RankTypes, Budget
  <2> QED BY <2>1, <2>2, StageIsClean
<1>3. ASSUME NEW r \in Ranks, r[2] = p PROVE Hidden(r) = RowsOf(Number(r), (r[2] + 1) * Layers)
  <2>1. Call(r).block_hash \in Hashes
    BY <1>1, <1>3, PocCallOf DEF Control
  <2>2. rows[r] = RowsOf(Number(r), r[2] * Layers)
    BY <1>1, <1>3 DEF Data, RowsRight, Through
  <2> QED BY <1>1, <1>2, <1>3, <2>1, <2>2, HiddenIsRight DEF Data
<1>4. \A r \in Ranks : r[2] # p => pc'[r] = pc[r] /\ rows'[r] = rows[r] /\ returned'[r] = returned[r]
  BY DEF Model, StageGoes, RankTypes, Batches
<1>5. \A r \in Ranks : r[2] # p + 1 => chan'[r] = chan[r]
  BY DEF Model, RankTypes, Batches
<1>7. ASSUME p = Pp - 1
      PROVE  /\ \A r \in Ranks : r[2] = p => pc'[r] = "computed" /\ rows'[r] = Hidden(r)
             /\ returned' = returned
  BY <1>7 DEF Model, StageGoes
<1>8. ASSUME p # Pp - 1
      PROVE  /\ \A r \in Ranks : r[2] = p => pc'[r] = "idle" /\ returned'[r] = Append(returned[r], Artifacts(<<>>))
             /\ \A r \in Ranks : r[2] = p + 1 => chan'[r] = Append(chan[r], Hidden(<<r[1], p>>))
  BY <1>8 DEF Model, StageGoes
<1>9. ASSUME NEW r \in Ranks, r[2] = p, p # Pp - 1
      PROVE  /\ ~Bad(r)' /\ Done(r) = Len(returned[r]) /\ Done(r)' = Len(returned[r]) + 1
             /\ Number(r)' = Number(r) + 1 /\ Len(returned'[r]) = Len(returned[r]) + 1
             /\ Len(returned[r]) \in Nat /\ \E S : returned[r] \in Seq(S)
  <2>1. Artifacts(<<>>).ok = TRUE
    BY DEF Artifacts
  <2>2. PICK x : x = Artifacts(<<>>)
    OBVIOUS
  <2> QED BY <1>2, <1>8, <1>9, <2>1, <2>2, StageReturns
<1>10. \A r \in Ranks : Bad(r)' <=> Bad(r)
  <2>1. ASSUME NEW r \in Ranks, returned'[r] = returned[r] PROVE Bad(r)' <=> Bad(r)
    BY <2>1, SameBad
  <2>2. ASSUME NEW r \in Ranks PROVE Bad(r)' <=> Bad(r)
    <3>1. CASE r[2] # p
      BY <1>4, <2>1, <3>1
    <3>2. CASE r[2] = p /\ p = Pp - 1
      BY <1>7, <2>1, <3>2
    <3>3. CASE r[2] = p /\ p # Pp - 1
      BY <1>2, <1>9, <3>3
    <3> QED BY <3>1, <3>2, <3>3
  <2> QED BY <2>2
<1>11. ASSUME NEW r \in Ranks, r[2] # p
       PROVE  Done(r)' = Done(r) /\ ReadUpTo(r)' = ReadUpTo(r) /\ Number(r)' = Number(r)
  BY <1>4, <1>10, <1>11 DEF Done, ReadUpTo, Number
<1>12. ASSUME NEW r \in Ranks PROVE ReadUpTo(r)' = ReadUpTo(r)
  <2>1. CASE r[2] = p /\ p = Pp - 1
    BY <1>1, <1>7, <2>1 DEF ReadUpTo, Number
  <2>2. CASE r[2] = p /\ p # Pp - 1
    BY <1>1, <1>8, <1>9, <2>2 DEF ReadUpTo, Number
  <2> QED BY <1>11, <2>1, <2>2
<1>13. ASSUME NEW r \in Ranks PROVE HookRight(r)'
  <2>1. HookRight(r)
    BY DEF Data, HooksRight
  <2>2. pc'[r] \in {"ready", "forward", "computed"} => pc[r] \in {"ready", "forward", "computed"} /\ Call(r)' = Call(r)
    <3>1. CASE r[2] # p
      BY <1>1, <1>4, <1>11, <3>1 DEF Call
    <3>2. CASE r[2] = p /\ p = Pp - 1
      BY <1>1, <1>7, <3>2 DEF Call, Number
    <3>3. CASE r[2] = p /\ p # Pp - 1
      BY <1>8, <3>3
    <3> QED BY <3>1, <3>2, <3>3
  <2> QED BY <1>1, <1>10, <2>1, <2>2, HookStays
<1>15. ASSUME NEW r \in Ranks, r[2] = p + 1, p # Pp - 1, ~Bad(r) PROVE TensorRight(r)'
  <2> DEFINE b == Before(r)
             done == PocUpTo(Done(b))
             taken == PocUpTo(ReadUpTo(r))
             k == r[2] * Layers
  <2>1. p \in Nat /\ r[2] # 0 /\ r[2] # p
    BY <1>15, ForwardAssumption DEF Stages
  <2>2. b \in Ranks /\ b[2] = p /\ b = <<r[1], p>>
    <3>1. b \in Ranks /\ b[2] + 1 = r[2]
      BY <2>1, StageNumbers
    <3>2. b = <<r[1], r[2] - 1>> /\ r[2] - 1 = p
      BY <1>15, <2>1 DEF Before
    <3> QED BY <3>1, <3>2
  <2>3. taken \subseteq done /\ Carries(chan[r], done \ taken, k)
    BY <1>15, <2>1 DEF Data, TensorsRight, TensorRight
  <2>4. Hidden(b) = RowsOf(Number(b), k)
    BY <1>3, <1>15, <2>2
  <2>5. /\ Done(b) = Len(returned[b]) /\ Done(b) \in Nat /\ Number(b) = Done(b) + 1
        /\ Done(b)' = Number(b) /\ calls[Number(b)].kind = "poc"
    <3>1. Call(b).kind = "poc"
      BY <1>1, <2>2, PocCallOf DEF Control
    <3>2. /\ Done(b) = Len(returned[b]) /\ Done(b)' = Len(returned[b]) + 1 /\ Len(returned[b]) \in Nat
      BY <1>9, <1>15, <2>2
    <3> QED BY <3>1, <3>2 DEF Call, Number
  <2>6. PocUpTo(Number(b)) = done \cup {Number(b)}
    BY <2>5, PocMore
  <2>7. \A c \in done : c \in Nat /\ c < Number(b)
    BY <2>5 DEF PocUpTo
  <2>8. Number(b) \notin taken
    BY <2>3, <2>5, <2>7
  <2>9. (done \cup {Number(b)}) \ taken = (done \ taken) \cup {Number(b)}
    BY <2>8
  <2>10. PICK S : chan[r] \in Seq(S)
    <3>1. PICK S : chan \in [Ranks -> Seq(S)]
      BY DEF RankTypes, Batches
    <3> QED BY <3>1
  <2>11. done \ taken \in SUBSET Nat /\ \A c \in done \ taken : c < Number(b)
    BY <2>7
  <2>12. Carries(Append(chan[r], Hidden(b)), (done \ taken) \cup {Number(b)}, k)
    <3> HIDE DEF done, taken, k, b
    <3>1. Number(b) \in Nat
      BY <2>5
    <3> QED BY <2>3, <2>4, <2>10, <2>11, <3>1, CarriesMore
  <2>13. PICK n, m, ch : n = taken /\ m = done \cup {Number(b)} /\ ch = Append(chan[r], Hidden(b))
    OBVIOUS
  <2>14. ReadUpTo(r)' = ReadUpTo(r)
    BY <1>11, <2>1
  <2>15. PocUpTo(ReadUpTo(r))' = n
    BY <1>1, <2>13, <2>14 DEF PocUpTo
  <2>16. PocUpTo(Done(Before(r)))' = m
    <3>1. Done(Before(r))' = Number(b)
      BY <2>5 DEF Before
    <3>2. PocUpTo(Done(Before(r)))' = PocUpTo(Number(b))
      BY <1>1, <3>1 DEF PocUpTo
    <3> QED BY <2>6, <2>13, <3>2
  <2>17. ch = chan'[r] /\ n \subseteq m /\ Carries(ch, m \ n, r[2] * Layers)
    BY <1>8, <1>15, <2>2, <2>3, <2>9, <2>12, <2>13
  <2> QED BY <1>1, <2>15, <2>16, <2>17, TensorBecomes
<1>16. ASSUME NEW r \in Ranks, r[2] # p + 1 PROVE TensorRight(r)'
  <2>1. PocUpTo(ReadUpTo(r))' = PocUpTo(ReadUpTo(r))
    BY <1>1, <1>12 DEF PocUpTo
  <2>2. r[2] # 0 => PocUpTo(Done(Before(r)))' = PocUpTo(Done(Before(r)))
    <3> SUFFICES ASSUME r[2] # 0 PROVE PocUpTo(Done(Before(r)))' = PocUpTo(Done(Before(r)))
      OBVIOUS
    <3>1. Before(r) \in Ranks /\ Before(r)[2] + 1 = r[2]
      BY StageNumbers
    <3>2. Before(r)[2] # p
      BY <1>16, <3>1
    <3>3. Done(Before(r))' = Done(Before(r))
      BY <1>11, <3>1, <3>2 DEF Before
    <3> QED BY <1>1, <3>3 DEF PocUpTo
  <2>3. TensorRight(r)
    BY DEF Data, TensorsRight
  <2> QED BY <1>1, <1>5, <1>10, <1>16, <2>1, <2>2, <2>3, TensorStays
<1>17. ASSUME NEW r \in Ranks PROVE TensorRight(r)'
  <2>1. CASE r[2] = 0 \/ Bad(r)
    BY <1>10, <2>1 DEF TensorRight
  <2>2. r[2] = p + 1 => p # Pp - 1
    BY ForwardAssumption, StageNumbers DEF Stages
  <2> QED BY <1>15, <1>16, <2>1, <2>2
<1>18. ASSUME NEW r \in Ranks, pc'[r] \in {"forward", "computed"}
      PROVE  rows'[r] = RowsOf(Number(r), Through(r))'
  <2>1. CASE r[2] # p
    <3>1. rows[r] = RowsOf(Number(r), Through(r))
      BY <1>4, <1>18, <2>1 DEF Data, RowsRight
    <3> QED BY <1>1, <1>4, <1>11, <2>1, <3>1, HeldRowsStay
  <2>2. CASE r[2] = p
    <3>1. p = Pp - 1
      BY <1>8, <1>18, <2>2
    <3>2. r[2] + 1 = Pp
      BY <2>2, <3>1, ForwardAssumption
    <3>3. rows'[r] = RowsOf(Number(r), Pp * Layers)
      BY <1>3, <1>7, <2>2, <3>1, <3>2
    <3>4. Number(r)' = Number(r) /\ Through(r)' = Pp * Layers
      BY <1>7, <2>2, <3>1 DEF Number, Through
    <3> QED BY <1>1, <3>3, <3>4 DEF RowsOf
  <2> QED BY <2>1, <2>2
<1>19. ASSUME NEW r \in Ranks, NEW c \in DOMAIN returned'[r], calls'[c].kind = "poc"
       PROVE  ResultRight(r, c, returned[r][c])'
  <2>1. lost \in Nat /\ lost' \in Nat /\ lost <= lost'
    BY <1>1 DEF RankTypes, Budget
  <2>2. CASE r[2] = p /\ p # Pp - 1
    <3>1. PICK x : x = Artifacts(<<>>)
      OBVIOUS
    <3>2. returned'[r] = Append(returned[r], x) /\ \E S : returned[r] \in Seq(S)
      BY <1>8, <1>9, <2>2, <3>1
    <3>3. \A c2 : ResultRight(r, c2, x)'
      <4>1. <<>> \in Seq({}) /\ DOMAIN <<>> = {} /\ x.artifacts = <<>>
        BY <3>1 DEF Artifacts
      <4> QED BY <2>2, <4>1 DEF ResultRight
    <3> QED BY <1>1, <1>19, <2>1, <3>2, <3>3, ResultsStay DEF Data
  <2>3. CASE ~(r[2] = p /\ p # Pp - 1)
    <3>1. returned'[r] = returned[r]
      BY <1>4, <1>7, <2>3
    <3> QED BY <1>1, <1>19, <2>1, <3>1, ResultsStay DEF Data
  <2> QED BY <2>2, <2>3
<1>20. DOMAIN installed' = Ranks
  BY <1>1 DEF Data, HooksRight
<1> QED BY <1>13, <1>17, <1>18, <1>19, <1>20 DEF Data, HooksRight, TensorsRight, RowsRight, ResultsRight

LEMMA StageStepKeepsData ==
  ASSUME RanksInv, RankTypes, FlagTracks, Control, Data, faults' < Tp, NEW p \in Stages,
         StageStep(p)
  PROVE  Data'
<1>1. CASE Barrier(p) \/ Barrier2(p)
  <2>1. UNCHANGED <<calls, installed, held, rows, chan, returned, lost>>
    BY <1>1 DEF Barrier, Barrier2, mishaps
  <2>2. \A r \in Ranks : \/ pc'[r] = pc[r]
                         \/ /\ pc[r] \in {"barrier", "barrier2"}
                            /\ pc'[r] \in {"receive", "barrier2", "synced"}
    BY <1>1 DEF Barrier, Barrier2, StageAt, StageGoes, StageRanks
  <2>3. \A r \in Ranks :
          \/ pc'[r] = pc[r]
          \/ pc[r] \notin {"forward", "computed"} /\ pc'[r] \notin {"forward", "computed"}
    BY <2>2
  <2>4. TensorsRight' /\ RowsRight' /\ ResultsRight' /\ \A r \in Ranks : Bad(r)' <=> Bad(r)
    BY <2>1, <2>3, WaitKeepsData
  <2>5. ASSUME NEW r \in Ranks PROVE HookRight(r)'
    <3>1. HookRight(r)
      BY DEF Data, HooksRight
    <3>2. pc'[r] \in {"ready", "forward", "computed"} => pc[r] \in {"ready", "forward", "computed"} /\ Call(r)' = Call(r)
      BY <2>1, <2>2 DEF Call, Number
    <3> QED BY <2>1, <2>4, <3>1, <3>2, HookStays
  <2> QED BY <2>1, <2>4, <2>5 DEF Data, HooksRight
<1>2. CASE InferenceStep(p)
  BY <1>2, InferenceKeepsData
<1>3. CASE Model(p)
  BY <1>3, ModelKeepsData
<1> QED BY <1>1, <1>2, <1>3 DEF StageStep

--------------------------------------------------------------------------------
(* As long as fewer ranks raised than a stage has. *)
Repro == faults < Tp => Control /\ Data

LEMMA ReproInit == Init => Repro
<1> SUFFICES ASSUME Init PROVE Control /\ Data
  BY DEF Repro
<1>1. /\ calls = <<>> /\ faults = 0 /\ lost = 0
      /\ pc = [r \in Ranks |-> "idle"] /\ held = [r \in Ranks |-> NoHooks]
      /\ installed = [r \in Ranks |-> [l \in LayersOf(r) |-> <<>>]]
      /\ chan = [r \in Ranks |-> <<>>] /\ returned = [r \in Ranks |-> <<>>]
  BY DEF Init, ForwardInit
<1>2. \A r \in Ranks : returned[r] = <<>> /\ DOMAIN returned[r] = {} /\ Len(returned[r]) = 0 /\ ~Bad(r)
  BY <1>1 DEF Bad
<1>3. FewRaised
  <2>1. {r \in Ranks : Bad(r)} = {}
    BY <1>2
  <2>2. Cardinality({r \in Ranks : Bad(r)}) = 0
    BY <2>1, FS_EmptySet, Zenon
  <2> QED BY <1>1, <2>2 DEF FewRaised
<1>4. Control
  BY <1>1, <1>2, <1>3 DEF Control, PocOnly, AtEnd, LastWord, Together, Stuck, Halting
<1>5. HooksRight
  BY <1>1 DEF HooksRight, HookRight, HooksOf
<1>6. ASSUME NEW r \in Ranks, r[2] # 0 PROVE TensorRight(r)
  <2>1. Before(r) \in Ranks
    BY <1>6, StageNumbers
  <2>2. ReadUpTo(r) = 0 /\ Done(Before(r)) = 0
    BY <1>1, <1>2, <2>1 DEF ReadUpTo, Done
  <2>3. PocUpTo(0) = {}
    BY DEF PocUpTo
  <2>4. chan[r] = <<>> /\ Len(<<>>) = 0 /\ 1..0 = {}
    BY <1>1
  <2>5. [i \in {} |-> 0] \in [{} -> {}]
    OBVIOUS
  <2>6. Carries(<<>>, {}, r[2] * Layers)
    BY <2>4, <2>5 DEF Carries
  <2> QED BY <2>2, <2>3, <2>4, <2>6 DEF TensorRight
<1>7. TensorsRight
  BY <1>6 DEF TensorsRight, TensorRight
<1>8. RowsRight /\ ResultsRight
  BY <1>1, <1>2 DEF RowsRight, ResultsRight
<1> QED BY <1>4, <1>5, <1>7, <1>8 DEF Data

LEMMA FaultsGrow ==
  ASSUME RankTypes, [Next]_vars
  PROVE  faults \in Nat /\ (faults' = faults \/ faults' = faults + 1)
<1>1. faults \in Nat
  BY DEF RankTypes, Budget
<1>2. ASSUME NEW r \in Ranks, RankStep(r) PROVE faults' = faults \/ faults' = faults + 1
  BY <1>2 DEF RankStep, Begin, Receive, Prepare, HooksRaise, LayoutRaises, Enter, ModelRaises, Finish,
              MayRaise, mishaps
<1>3. ASSUME NEW p \in Stages, StageStep(p) PROVE faults' = faults
  BY <1>3 DEF StageStep, Barrier, Barrier2, Model, InferenceStep, mishaps
<1>4. Abandon => faults' = faults
  BY DEF Abandon
<1>5. Forward => faults' = faults \/ faults' = faults + 1
  BY <1>2, <1>3, <1>4 DEF Forward, ForwardStep
<1>6. SendChunk \/ Mine \/ Infer => faults' = faults
  BY DEF SendChunk, Mine, Infer, OtherCall, mishaps
<1>7. Arrive \/ Reserve \/ ChunkBegins \/ ChunkAnswered \/ ChunkFails \/ Verdict
        \/ MiningStarts \/ MiningEnds \/ UNCHANGED vars => UNCHANGED forwardVars
  BY DEF Arrive, Reserve, ChunkBegins, ChunkAnswered, ChunkFails, Verdict,
         MiningStarts, MiningEnds, vars
<1>8. UNCHANGED forwardVars => faults' = faults
  BY DEF forwardVars
<1>9. faults' = faults \/ faults' = faults + 1
  BY <1>5, <1>6, <1>7, <1>8 DEF Next, Handler
<1> QED BY <1>1, <1>9

LEMMA ReproNext == ValidationTypes /\ Spared /\ Repro /\ [Next]_vars => Repro'
<1> SUFFICES ASSUME ValidationTypes, Spared, Repro, [Next]_vars, faults' < Tp
             PROVE  Control' /\ Data'
  BY DEF Repro
<1>1. RanksInv /\ RankTypes /\ FlagTracks
  BY DEF ValidationTypes, Spared
<1>2. Control /\ Data
  <2>1. faults < Tp
    BY <1>1, FaultsGrow, ForwardAssumption
  <2> QED BY <2>1 DEF Repro
<1>3. ASSUME NEW r \in Ranks, RankStep(r) PROVE Control' /\ Data'
  BY <1>1, <1>2, <1>3, InputFits, RankStepKeepsControl, RankStepKeepsData
<1>4. ASSUME NEW p \in Stages, StageStep(p) PROVE Control' /\ Data'
  BY <1>1, <1>2, <1>4, StageStepKeepsControl, StageStepKeepsData
<1>5. /\ Len(calls) \in Nat /\ DOMAIN calls = 1..Len(calls) /\ calls \in Seq(CallType)
      /\ \A c \in DOMAIN calls : calls[c].kind = "poc" => calls[c].block_hash \in Hashes
  BY <1>1, <1>2, LenProperties DEF RankTypes, CallTypes, Control, PocOnly
<1>6. ASSUME UNCHANGED <<calls, pc, installed, held, rows, chan, returned, faults, lost>>
      PROVE  Control' /\ Data'
  BY <1>1, <1>2, <1>5, <1>6, SendKeepsData
<1>7. ASSUME NEW call, calls' = Append(calls, call), call.kind = "poc" => call.block_hash \in Hashes,
             UNCHANGED <<pc, installed, held, rows, chan, returned, faults, lost>>
      PROVE  Control' /\ Data'
  <2>1. /\ Len(calls') = Len(calls) + 1 /\ DOMAIN calls' = 1..(Len(calls) + 1)
        /\ \A c \in 1..Len(calls) : calls'[c] = calls[c]
        /\ calls'[Len(calls) + 1] = call
    <3>1. calls \in Seq(CallType \cup {call}) /\ call \in CallType \cup {call}
      BY <1>5, SeqDef
    <3> QED BY <1>7, <3>1, AppendProperties, LenProperties
  <2>2. ASSUME NEW c \in DOMAIN calls' PROVE calls'[c].kind = "poc" => calls'[c].block_hash \in Hashes
    <3>1. c \in 1..Len(calls) \/ c = Len(calls) + 1
      BY <1>5, <2>1
    <3> QED BY <1>5, <1>7, <2>1, <3>1
  <2> QED BY <1>1, <1>2, <1>5, <1>7, <2>1, <2>2, SendKeepsData
<1>8. CASE Forward
  <2>1. Abandon => UNCHANGED <<calls, pc, installed, held, rows, chan, returned, faults, lost>>
    BY DEF Abandon
  <2> QED BY <1>3, <1>4, <1>6, <1>8, <2>1 DEF Forward, ForwardStep
<1>9. CASE SendChunk
  <2>1. PocCall(OwnHash, Key, Chunk, lease).block_hash \in Hashes
    BY ValidationAssumption DEF PocCall
  <2>2. /\ calls' = Append(calls, PocCall(OwnHash, Key, Chunk, lease))
        /\ UNCHANGED <<pc, installed, held, rows, chan, returned, faults, lost>>
    BY <1>9 DEF SendChunk, Send, mishaps
  <2> QED BY <1>7, <2>1, <2>2
<1>10. CASE Mine \/ Infer
  <2>1. PocCall(MiningHash, Key, MiningNonces, NoLease).block_hash \in Hashes
    BY ValidationAssumption DEF PocCall
  <2>2. StepCall.kind # "poc"
    BY DEF StepCall
  <2>3. /\ \/ calls' = Append(calls, PocCall(MiningHash, Key, MiningNonces, NoLease))
           \/ calls' = Append(calls, StepCall)
        /\ UNCHANGED <<pc, installed, held, rows, chan, returned, faults, lost>>
    BY <1>10 DEF Mine, Infer, OtherCall, Send, mishaps
  <2> QED BY <1>7, <2>1, <2>2, <2>3
<1>11. CASE Arrive \/ Reserve \/ ChunkBegins \/ ChunkAnswered \/ ChunkFails \/ Verdict
              \/ MiningStarts \/ MiningEnds \/ UNCHANGED vars
  <2>1. UNCHANGED forwardVars
    BY <1>11 DEF Arrive, Reserve, ChunkBegins, ChunkAnswered, ChunkFails, Verdict,
                 MiningStarts, MiningEnds, vars
  <2> QED BY <1>6, <2>1 DEF forwardVars
<1> QED BY <1>8, <1>9, <1>10, <1>11 DEF Next, Handler

(* Every entry of the order of the answer is a rank, and a rank of the last stage is one. *)
LEMMA RankOrderIsRight ==
  /\ Tp * Pp \in Nat /\ DOMAIN RankOrder = 1..(Tp * Pp)
  /\ \A i \in 1..(Tp * Pp) : RankOrder[i] \in Ranks
  /\ <<0, Pp - 1>> \in Ranks /\ \E i \in 1..(Tp * Pp) : RankOrder[i] = <<0, Pp - 1>>
<1>1. Tp \in Nat \ {0} /\ Pp \in Nat \ {0}
  BY ForwardAssumption
<1>2. Tp * Pp \in Nat
  BY <1>1
<1>3. ASSUME NEW i \in 1..(Tp * Pp) PROVE RankOrder[i] \in Ranks
  <2> DEFINE a == i - 1
             q == a \div Tp
  <2>1. a \in Nat /\ a < Tp * Pp
    BY <1>2
  <2>2. q \in Nat /\ a % Tp \in 0..(Tp - 1) /\ a = (a % Tp) + q * Tp
    <3> HIDE DEF a
    <3> QED BY <1>1, <2>1, DivMod
  <2>3. RankOrder[i] = <<a % Tp, q>>
    BY DEF RankOrder
  <2> HIDE DEF a, q
  <2>4. q <= Pp - 1
    <3> SUFFICES ASSUME ~(q <= Pp - 1) PROVE FALSE
      OBVIOUS
    <3>1. q - Pp \in Nat
      BY <1>1, <2>2
    <3>2. q * Tp = Tp * Pp + (q - Pp) * Tp
      <4>1. q = Pp + (q - Pp)
        BY <1>1, <2>2
      <4>2. (Pp + (q - Pp)) * Tp = Pp * Tp + (q - Pp) * Tp
        BY <1>1, <3>1
      <4> QED BY <1>1, <4>1, <4>2
    <3>3. (q - Pp) * Tp \in Nat
      BY <1>1, <3>1
    <3> QED BY <1>2, <2>1, <2>2, <3>2, <3>3
  <2> QED BY <1>1, <2>2, <2>3, <2>4 DEF Ranks, Stages
<1>4. <<0, Pp - 1>> \in Ranks
  BY <1>1 DEF Ranks, Stages
<1>5. \E i \in 1..(Tp * Pp) : RankOrder[i] = <<0, Pp - 1>>
  <2> DEFINE a == (Pp - 1) * Tp
             q == a \div Tp
             m == a % Tp
  <2>1. a \in Nat /\ Tp * Pp = a + Tp
    BY <1>1
  <2>2. q \in Nat /\ m \in 0..(Tp - 1) /\ a = m + q * Tp
    <3> HIDE DEF a
    <3> QED BY <1>1, <2>1, DivMod
  <2>3. (Pp - 1) * Tp = m + q * Tp
    BY <2>2
  <2>4. RankOrder[a + 1] = <<m, q>> /\ a + 1 \in 1..(Tp * Pp)
    <3>1. (a + 1) - 1 = a /\ a + 1 \in 1..(Tp * Pp)
      BY <1>1, <1>2, <2>1
    <3> QED BY <3>1 DEF RankOrder
  <2> HIDE DEF a, q, m
  <2>5. q = Pp - 1 /\ m = 0
    <3>1. q < Pp - 1 \/ q > Pp - 1 \/ q = Pp - 1
      BY <1>1, <2>2
    <3>2. CASE q < Pp - 1
      <4>1. (Pp - 1 - q) - 1 \in Nat
        BY <1>1, <2>2, <3>2
      <4>2. (Pp - 1) * Tp = q * Tp + Tp + ((Pp - 1 - q) - 1) * Tp
        <5>1. Pp - 1 = q + 1 + ((Pp - 1 - q) - 1)
          BY <1>1, <2>2
        <5>2. (q + 1 + ((Pp - 1 - q) - 1)) * Tp = q * Tp + Tp + ((Pp - 1 - q) - 1) * Tp
          BY <1>1, <2>2, <4>1
        <5> QED BY <5>1, <5>2
      <4>3. ((Pp - 1 - q) - 1) * Tp \in Nat /\ q * Tp \in Nat
        BY <1>1, <2>2, <4>1
      <4> QED BY <1>1, <2>2, <2>3, <4>2, <4>3
    <3>3. CASE q > Pp - 1
      <4>1. q - Pp \in Nat
        BY <1>1, <2>2, <3>3
      <4>2. q * Tp = (Pp - 1) * Tp + Tp + (q - Pp) * Tp
        <5>1. q = (Pp - 1) + 1 + (q - Pp)
          BY <1>1, <2>2
        <5>2. ((Pp - 1) + 1 + (q - Pp)) * Tp = (Pp - 1) * Tp + Tp + (q - Pp) * Tp
          BY <1>1, <2>2, <4>1
        <5> QED BY <5>1, <5>2
      <4>3. (q - Pp) * Tp \in Nat /\ (Pp - 1) * Tp \in Nat
        BY <1>1, <4>1
      <4> QED BY <1>1, <2>2, <2>3, <4>2, <4>3
    <3>4. CASE q = Pp - 1
      BY <1>1, <2>2, <2>3, <3>4
    <3> QED BY <3>1, <3>2, <3>3, <3>4
  <2> QED BY <2>4, <2>5
<1> QED BY <1>2, <1>3, <1>4, <1>5 DEF RankOrder

(* An answer without an error is made of what every rank returned. *)
LEMMA AnswerIsRight ==
  ASSUME RankTypes, RanksInv, ResultsRight, NEW c \in DOMAIN calls,
         calls[c].kind = "poc", Answered(c), ~Failed(c)
  PROVE  /\ \E A : Answer(c) \in Seq(A)
         /\ OnePerNonce(Answer(c))
         /\ \A i \in DOMAIN Answer(c) : ArtifactRight(c, Answer(c)[i])
         /\ lost = 0 => \A m \in Range(calls[c].nonces) :
                         \E i \in DOMAIN Answer(c) : Answer(c)[i].nonce = m
<1>1. Returned(c) = Ranks
  BY DEF Answered
<1>2. ASSUME NEW r \in Ranks
      PROVE  ResultRight(r, c, returned[r][c]) /\ returned[r][c].ok
  <2>1. Len(returned[r]) >= c /\ r \in Returned(c)
    BY <1>1, <1>2 DEF Returned
  <2>2. c \in DOMAIN returned[r]
    BY <2>1, RankNumbers
  <2> QED BY <2>1, <2>2 DEF ResultsRight, Failed
<1> DEFINE parts == [i \in DOMAIN RankOrder |-> returned[RankOrder[i]][c].artifacts]
           A == UNION {Range(returned[r][c].artifacts) : r \in Ranks}
           n == Tp * Pp
<1>3. \A a \in A : ArtifactRight(c, a)
  <2> SUFFICES ASSUME NEW r \in Ranks, NEW a \in Range(returned[r][c].artifacts)
               PROVE  ArtifactRight(c, a)
    OBVIOUS
  <2>1. PICK i \in DOMAIN returned[r][c].artifacts : a = returned[r][c].artifacts[i]
    BY DEF Range
  <2> QED BY <1>2, <2>1 DEF ResultRight
<1>4. ASSUME NEW r \in Ranks
      PROVE  /\ returned[r][c].artifacts \in Seq(A)
             /\ DOMAIN returned[r][c].artifacts = 1..Len(returned[r][c].artifacts)
  <2> DEFINE as == returned[r][c].artifacts
  <2>1. PICK S : as \in Seq(S)
    BY <1>2 DEF ResultRight
  <2>2. Range(as) \subseteq A
    OBVIOUS
  <2> HIDE DEF A, as
  <2>3. DOMAIN as = 1..Len(as) /\ Len(as) \in Nat /\ as \in [1..Len(as) -> S]
    BY <2>1, LenProperties
  <2>4. \A i \in 1..Len(as) : as[i] \in A
    BY <2>2, <2>3 DEF Range
  <2>5. as \in [1..Len(as) -> A]
    BY <2>3, <2>4
  <2>6. as \in Seq(A)
    <3>1. \A k \in Nat : \A f \in [1..k -> A] : f \in Seq(A)
      BY SeqDef
    <3> QED BY <2>3, <2>5, <3>1
  <2> QED BY <2>3, <2>6 DEF as
<1>5. parts \in [1..n -> Seq(A)] /\ \A i \in 1..n : parts[i] = returned[RankOrder[i]][c].artifacts
  <2> HIDE DEF A
  <2> QED BY <1>4, RankOrderIsRight
<1> HIDE DEF parts, A, n
<1>6. parts \in Seq(Seq(A)) /\ Len(parts) = n
  BY <1>5, RankOrderIsRight, SeqDef, LenProperties DEF n
<1> DEFINE flat == FlattenSeq(parts)
           answer == FoldLeft(AddUnseen, <<>>, flat)
<1>7. Answer(c) = answer
  BY DEF Answer, parts
<1>8. /\ flat \in Seq(A)
      /\ \A x : (\E i \in 1..Len(flat) : flat[i] = x)
                  <=> \E k \in 1..Len(parts) : \E j \in 1..Len(parts[k]) : parts[k][j] = x
  BY <1>6, FlattenMembers, ZenonT(40)
<1> HIDE DEF flat
<1>9. /\ answer \in Seq(A) /\ OnePerNonce(answer)
      /\ \A j \in 1..Len(flat) : \E i \in 1..Len(answer) : answer[i].nonce = flat[j].nonce
  BY <1>8, UnionOfArtifacts
<1> HIDE DEF answer
<1>10. DOMAIN answer = 1..Len(answer) /\ \A i \in 1..Len(answer) : answer[i] \in A
  BY <1>9, LenProperties, ElementOfSeq
<1>11. \A i \in DOMAIN answer : ArtifactRight(c, answer[i])
  BY <1>3, <1>10
<1>12. ASSUME lost = 0, NEW m \in Range(calls[c].nonces)
       PROVE  \E i \in DOMAIN answer : answer[i].nonce = m
  <2>1. PICK k \in 1..n : RankOrder[k] = <<0, Pp - 1>>
    BY RankOrderIsRight DEF n
  <2> DEFINE r == <<0, Pp - 1>>
             as == returned[r][c].artifacts
  <2>2. r \in Ranks /\ r[2] = Pp - 1
    BY RankOrderIsRight
  <2>3. PICK j \in DOMAIN as : as[j].nonce = m
    BY <1>2, <1>12, <2>2 DEF ResultRight
  <2>4. j \in 1..Len(as) /\ parts[k] = as
    BY <1>4, <1>5, <2>1, <2>2, <2>3
  <2> HIDE DEF as
  <2>5. \E i \in 1..Len(flat) : flat[i] = as[j]
    BY <1>6, <1>8, <2>1, <2>4
  <2> QED BY <1>9, <1>10, <2>3, <2>5
<1> QED BY <1>7, <1>9, <1>11, <1>12

LEMMA AnswersAreRight ==
  RankTypes /\ RanksInv /\ ResultsRight => ArtifactsAreReproducible
<1> SUFFICES ASSUME RankTypes, RanksInv, ResultsRight, NEW c \in DOMAIN calls,
                    calls[c].kind = "poc", Answered(c), ~Failed(c)
             PROVE  LET answer == Answer(c)
                        nonces == {answer[i].nonce : i \in DOMAIN answer}
                    IN /\ \A i \in DOMAIN answer :
                            answer[i].vector =
                              Reference(calls[c].block_hash, calls[c].public_key, answer[i].nonce)
                       /\ nonces \subseteq Range(calls[c].nonces)
                       /\ lost = 0 => nonces = Range(calls[c].nonces)
  BY DEF ArtifactsAreReproducible
<1> DEFINE answer == Answer(c)
           nonces == {answer[i].nonce : i \in DOMAIN answer}
<1>1. /\ \A i \in DOMAIN answer : ArtifactRight(c, answer[i])
      /\ lost = 0 => \A m \in Range(calls[c].nonces) : \E i \in DOMAIN answer : answer[i].nonce = m
  BY AnswerIsRight
<1> HIDE DEF answer
<1>2. /\ \A i \in DOMAIN answer :
           answer[i].vector = Reference(calls[c].block_hash, calls[c].public_key, answer[i].nonce)
      /\ nonces \subseteq Range(calls[c].nonces)
  BY <1>1 DEF ArtifactRight
<1>3. lost = 0 => nonces = Range(calls[c].nonces)
  <2>1. lost = 0 => Range(calls[c].nonces) \subseteq nonces
    BY <1>1
  <2> QED BY <1>2, <2>1
<1> QED BY <1>2, <1>3 DEF answer

(* gpu_random.py:3, routes.py:108: whatever rounds, late calls and inference steps came   *)
(* before it, whichever ranks raised and whatever rows were NaN, an answer holds reference *)
(* vectors of the call's nonces, all of them if no row was; for every grid, as long as     *)
(* fewer ranks raised than a stage has.                                                    *)
THEOREM AnswersAreReproducible == Spec => [](faults < Tp => ArtifactsAreReproducible)
<1>1. ValidationTypes /\ Repro => (faults < Tp => ArtifactsAreReproducible)
  BY AnswersAreRight DEF ValidationTypes, Repro, Data
<1> QED BY <1>1, ReproInit, ReproNext, SparedInit, SparedNext, ValidationTypesInit,
           ValidationTypesNext, PTL DEF Spec

(* No rank can raise, or only so few can. *)
Harmless == FaultAt = {} => faults = 0

LEMMA HarmlessInit == Init => Harmless
BY DEF Init, ForwardInit, Harmless

LEMMA HarmlessNext == Harmless /\ [Next]_vars => Harmless'
<1> SUFFICES ASSUME FaultAt = {}, faults = 0, [Next]_vars PROVE faults' = 0
  BY DEF Harmless
<1>1. ASSUME NEW r \in Ranks, RankStep(r) PROVE faults' = faults
  BY <1>1 DEF RankStep, Begin, Receive, Prepare, HooksRaise, LayoutRaises, Enter, ModelRaises, Finish,
              MayRaise, mishaps
<1>2. ASSUME NEW p \in Stages, StageStep(p) PROVE faults' = faults
  BY <1>2 DEF StageStep, Barrier, Barrier2, Model, InferenceStep, mishaps
<1>3. Abandon => faults' = faults
  BY DEF Abandon
<1>4. Forward => faults' = faults
  BY <1>1, <1>2, <1>3 DEF Forward, ForwardStep
<1>5. SendChunk \/ Mine \/ Infer => faults' = faults
  BY DEF SendChunk, Mine, Infer, OtherCall, mishaps
<1>6. Arrive \/ Reserve \/ ChunkBegins \/ ChunkAnswered \/ ChunkFails \/ Verdict
        \/ MiningStarts \/ MiningEnds \/ UNCHANGED vars => UNCHANGED forwardVars
  BY DEF Arrive, Reserve, ChunkBegins, ChunkAnswered, ChunkFails, Verdict,
         MiningStarts, MiningEnds, vars
<1>7. UNCHANGED forwardVars => faults' = faults
  BY DEF forwardVars
<1> QED BY <1>4, <1>5, <1>6, <1>7 DEF Next, Handler

LEMMA FewFaults ==
  ASSUME FaultAt = {} \/ MaxMishaps < Tp, ValidationTypes, Harmless
  PROVE  faults < Tp
BY ForwardAssumption DEF ValidationTypes, RankTypes, Budget, Harmless

(* The same without a condition on the state: no rank can raise, or fewer can than a stage *)
(* has.                                                                                    *)
THEOREM FewFaultsReproduce ==
  ASSUME FaultAt = {} \/ MaxMishaps < Tp
  PROVE  Spec => []ArtifactsAreReproducible
<1>1. ValidationTypes /\ Repro /\ Harmless => ArtifactsAreReproducible
  BY FewFaults, AnswersAreRight DEF ValidationTypes, Repro, Data
<1> QED BY <1>1, HarmlessInit, HarmlessNext, ReproInit, ReproNext, SparedInit, SparedNext,
           ValidationTypesInit, ValidationTypesNext, PTL DEF Spec

--------------------------------------------------------------------------------
(* The test of validation.py: binomial coefficients, powers and the sum of all terms. *)

LEMMA Factorials ==
  /\ \A n \in Nat : factorial[n] \in Nat \ {0}
  /\ factorial[0] = 1
  /\ \A n \in Nat : factorial[n + 1] = (n + 1) * factorial[n]
<1> DEFINE step == [p \in Nat \X Nat |-> p[1] * p[2]]
           Eq(f) == f = [n \in Nat |-> IF n = 0 THEN 1 ELSE n * f[n - 1]]
<1>1. step \in [Nat \X Nat -> Nat] /\ \A n, v \in Nat : step[<<n, v>>] = n * v
  OBVIOUS
<1> HIDE DEF step
<1>2. PICK f : Recurs(f, Nat, 1, step)
  BY <1>1, NatRecursion
<1>3. f \in [Nat -> Nat] /\ \A n \in Nat : f[n] = IF n = 0 THEN 1 ELSE step[<<n, f[n - 1]>>]
  BY <1>2 DEF Recurs
<1>4. Eq(f)
  <2>1. ASSUME NEW n \in Nat PROVE f[n] = IF n = 0 THEN 1 ELSE n * f[n - 1]
    <3>1. CASE n = 0
      BY <1>3, <3>1
    <3>2. CASE n # 0
      <4>1. n - 1 \in Nat /\ f[n - 1] \in Nat
        BY <1>3, <3>2
      <4>2. f[n] = step[<<n, f[n - 1]>>]
        BY <1>3, <3>2
      <4> QED BY <1>1, <3>2, <4>1, <4>2
    <3> QED BY <3>1, <3>2
  <2> QED BY <1>3, <2>1
<1>5. Eq(factorial)
  <2>1. factorial = CHOOSE g : Eq(g)
    BY DEF factorial
  <2> HIDE DEF Eq
  <2> QED BY <1>4, <2>1
<1>6. /\ DOMAIN factorial = Nat
      /\ \A n \in Nat : factorial[n] = IF n = 0 THEN 1 ELSE n * factorial[n - 1]
  <2>1. \A g : Eq(g) => DOMAIN g = Nat /\ \A n \in Nat : g[n] = IF n = 0 THEN 1 ELSE n * g[n - 1]
    OBVIOUS
  <2> HIDE DEF Eq
  <2> QED BY <1>5, <2>1
<1>7. factorial[0] = 1 /\ \A n \in Nat : factorial[n + 1] = (n + 1) * factorial[n]
  BY <1>6
<1>8. \A n \in Nat : factorial[n] \in Nat \ {0}
  <2> DEFINE Q == {n \in Nat : factorial[n] \in Nat \ {0}}
  <2>1. 0 \in Q
    BY <1>7
  <2>2. ASSUME NEW n \in Nat, n \in Q PROVE n + 1 \in Q
    <3>1. PICK v \in Nat \ {0} : factorial[n] = v
      BY <2>2
    <3>2. (n + 1) * v \in Nat /\ (n + 1) * v = n * v + v /\ n * v \in Nat
      OBVIOUS
    <3>3. n + 1 \in Nat /\ factorial[n + 1] = (n + 1) * v
      BY <1>7, <3>1
    <3>4. (n + 1) * v \in Nat \ {0}
      BY <3>2
    <3> QED BY <3>3, <3>4
  <2>3. Q = Nat
    <3>1. Q \in SUBSET Nat
      OBVIOUS
    <3> HIDE DEF Q
    <3> QED BY <2>1, <2>2, <3>1, SetInduction
  <2> QED BY <2>3
<1> QED BY <1>7, <1>8

(* Division undoes a multiplication. *)
LEMMA QuotientOf ==
  ASSUME NEW c \in Nat, NEW d \in Nat \ {0}
  PROVE  (c * d) \div d = c
<1> DEFINE q == (c * d) \div d
           r == (c * d) % d
<1>1. c * d \in Nat
  OBVIOUS
<1>2. q \in Nat /\ r \in 0..d - 1 /\ c * d = r + q * d
  BY <1>1, DivMod
<1> HIDE DEF q, r
<1>3. CASE c < q
  <2>1. PICK e \in Nat \ {0} : q = c + e
    <3>1. q - c \in Nat \ {0} /\ q = c + (q - c)
      BY <1>2, <1>3
    <3> QED BY <3>1
  <2>2. q * d = c * d + e * d /\ e * d >= d /\ e * d \in Nat
    <3>1. (c + e) * d = c * d + e * d
      OBVIOUS
    <3>2. PICK g \in Nat : e = g + 1
      <4>1. e - 1 \in Nat /\ e = (e - 1) + 1
        OBVIOUS
      <4> QED BY <4>1
    <3>3. (g + 1) * d = g * d + d /\ g * d \in Nat
      OBVIOUS
    <3> QED BY <2>1, <3>1, <3>2, <3>3
  <2> QED BY <1>1, <1>2, <2>2
<1>4. CASE q < c
  <2>1. PICK e \in Nat \ {0} : c = q + e
    <3>1. c - q \in Nat \ {0} /\ c = q + (c - q)
      BY <1>2, <1>4
    <3> QED BY <3>1
  <2>2. c * d = q * d + e * d /\ e * d >= d /\ e * d \in Nat /\ q * d \in Nat
    <3>1. (q + e) * d = q * d + e * d /\ q * d \in Nat
      BY <1>2
    <3>2. PICK g \in Nat : e = g + 1
      <4>1. e - 1 \in Nat /\ e = (e - 1) + 1
        OBVIOUS
      <4> QED BY <4>1
    <3>3. (g + 1) * d = g * d + d /\ g * d \in Nat
      OBVIOUS
    <3> QED BY <2>1, <3>1, <3>2, <3>3
  <2> QED BY <1>1, <1>2, <2>2
<1> QED BY <1>2, <1>3, <1>4 DEF q

(* The coefficient is a natural number, and the product of the factorials divides. *)
LEMMA ChooseIs ==
  ASSUME NEW n \in Nat, NEW k \in 0..n, NEW c \in Nat,
         factorial[n] = c * (factorial[k] * factorial[n - k])
  PROVE  choose(n, k) = c
<1>1. n - k \in Nat /\ k \in Nat
  OBVIOUS
<1>2. PICK a \in Nat \ {0}, b \in Nat \ {0} : factorial[k] = a /\ factorial[n - k] = b
  BY <1>1, Factorials
<1>3. PICK d : d = a * b
  OBVIOUS
<1>4. d \in Nat \ {0}
  BY <1>3
<1>5. choose(n, k) = (c * d) \div d
  BY <1>2, <1>3 DEF choose
<1> QED BY <1>4, <1>5, QuotientOf

(* Pascal's rule, for the numbers that divide. *)
Divides(n, k, c) == factorial[n] = c * (factorial[k] * factorial[n - k])

LEMMA DividesEnds ==
  ASSUME NEW n \in Nat
  PROVE  Divides(n, 0, 1) /\ Divides(n, n, 1)
<1>1. n - 0 = n /\ n - n = 0 /\ factorial[0] = 1
  BY Factorials
<1>2. PICK a \in Nat : factorial[n] = a
  BY Factorials
<1>3. a = 1 * (1 * a) /\ a = 1 * (a * 1)
  OBVIOUS
<1> QED BY <1>1, <1>2, <1>3 DEF Divides

LEMMA DividesNext ==
  ASSUME NEW n \in Nat, NEW k \in 1..n, NEW c \in Nat, NEW d \in Nat,
         Divides(n, k, c), Divides(n, k - 1, d)
  PROVE  Divides(n + 1, k, c + d)
<1>1. PICK i \in Nat, j \in Nat : k = i + 1 /\ n = i + 1 + j
  <2>1. k - 1 \in Nat /\ n - k \in Nat /\ k = (k - 1) + 1 /\ n = (k - 1) + 1 + (n - k)
    OBVIOUS
  <2> QED BY <2>1
<1>2. /\ n - k = j /\ k - 1 = i /\ n - (k - 1) = j + 1 /\ (n + 1) - k = j + 1
  BY <1>1
<1>3. PICK a \in Nat, b \in Nat : factorial[i] = a /\ factorial[j] = b
  BY Factorials
<1>4. factorial[i + 1] = (i + 1) * a /\ factorial[j + 1] = (j + 1) * b
  BY <1>3, Factorials
<1>5. PICK f \in Nat : factorial[n] = f
  BY Factorials
<1>6. factorial[n + 1] = (n + 1) * f
  BY <1>5, Factorials
<1>7. f = c * (((i + 1) * a) * b) /\ f = d * (a * ((j + 1) * b))
  BY <1>1, <1>2, <1>3, <1>4, <1>5 DEF Divides
<1>8. (n + 1) * f = (c + d) * (((i + 1) * a) * ((j + 1) * b))
  <2>1. PICK m \in Nat : m = a * b
    OBVIOUS
  <2>2. f = c * ((i + 1) * m) /\ f = d * ((j + 1) * m)
    <3>1. ((i + 1) * a) * b = (i + 1) * (a * b) /\ a * ((j + 1) * b) = (j + 1) * (a * b)
      OBVIOUS
    <3> QED BY <1>7, <2>1, <3>1
  <2>3. (n + 1) * f = (j + 1) * f + (i + 1) * f
    <3>1. n + 1 = (j + 1) + (i + 1)
      BY <1>1
    <3>2. ((j + 1) + (i + 1)) * f = (j + 1) * f + (i + 1) * f
      OBVIOUS
    <3> QED BY <3>1, <3>2
  <2>4. PICK w \in Nat : w = (i + 1) * ((j + 1) * m)
    OBVIOUS
  <2>5. (j + 1) * f = c * w
    <3>1. (j + 1) * (c * ((i + 1) * m)) = c * ((i + 1) * ((j + 1) * m))
      OBVIOUS
    <3> QED BY <2>2, <2>4, <3>1
  <2>6. (i + 1) * f = d * w
    <3>1. (i + 1) * (d * ((j + 1) * m)) = d * ((i + 1) * ((j + 1) * m))
      OBVIOUS
    <3> QED BY <2>2, <2>4, <3>1
  <2>7. ((i + 1) * a) * ((j + 1) * b) = w
    <3>1. ((i + 1) * a) * ((j + 1) * b) = (i + 1) * ((j + 1) * (a * b))
      OBVIOUS
    <3> QED BY <2>1, <2>4, <3>1
  <2>8. (c + d) * w = c * w + d * w
    OBVIOUS
  <2> QED BY <2>3, <2>5, <2>6, <2>7, <2>8
<1>9. factorial[n + 1] = (c + d) * (factorial[k] * factorial[(n + 1) - k])
  BY <1>1, <1>2, <1>4, <1>6, <1>8
<1> QED BY <1>9 DEF Divides

LEMMA Coefficients ==
  ASSUME NEW n \in Nat
  PROVE  \A k \in 0..n : choose(n, k) \in Nat /\ Divides(n, k, choose(n, k))
<1> DEFINE P == {m \in Nat : \A k \in 0..m : \E c \in Nat : Divides(m, k, c)}
<1>1. 0 \in P
  BY DividesEnds
<1>2. ASSUME NEW m \in Nat, m \in P PROVE m + 1 \in P
  <2> SUFFICES ASSUME NEW k \in 0..(m + 1) PROVE \E c \in Nat : Divides(m + 1, k, c)
    OBVIOUS
  <2>1. CASE k = 0 \/ k = m + 1
    BY <2>1, DividesEnds
  <2>2. CASE k \in 1..m
    <3>1. k \in 0..m /\ k - 1 \in 0..m
      BY <2>2
    <3>2. PICK c \in Nat, d \in Nat : Divides(m, k, c) /\ Divides(m, k - 1, d)
      BY <1>2, <3>1
    <3>3. Divides(m + 1, k, c + d) /\ c + d \in Nat
      BY <2>2, <3>2, DividesNext
    <3> QED BY <3>3
  <2> QED BY <2>1, <2>2
<1>3. P = Nat
  <2>1. P \in SUBSET Nat
    OBVIOUS
  <2> HIDE DEF P
  <2> QED BY <1>1, <1>2, <2>1, SetInduction
<1> SUFFICES ASSUME NEW k \in 0..n PROVE choose(n, k) \in Nat /\ Divides(n, k, choose(n, k))
  OBVIOUS
<1>4. PICK c \in Nat : Divides(n, k, c)
  <2>1. n \in P
    <3> HIDE DEF P
    <3> QED BY <1>3
  <2> QED BY <2>1
<1>5. choose(n, k) = c
  BY <1>4, ChooseIs DEF Divides
<1> QED BY <1>4, <1>5

LEMMA Pascal ==
  ASSUME NEW n \in Nat
  PROVE  /\ choose(n, 0) = 1 /\ choose(n, n) = 1
         /\ \A k \in 1..n : choose(n + 1, k) = choose(n, k) + choose(n, k - 1)
<1>1. choose(n, 0) = 1 /\ choose(n, n) = 1
  BY DividesEnds, ChooseIs DEF Divides
<1>2. ASSUME NEW k \in 1..n PROVE choose(n + 1, k) = choose(n, k) + choose(n, k - 1)
  <2>1. k \in 0..n /\ k - 1 \in 0..n /\ k \in 0..(n + 1)
    OBVIOUS
  <2>2. PICK c \in Nat, d \in Nat :
          c = choose(n, k) /\ d = choose(n, k - 1) /\ Divides(n, k, c) /\ Divides(n, k - 1, d)
    BY <2>1, Coefficients
  <2>3. Divides(n + 1, k, c + d) /\ c + d \in Nat
    BY <2>2, DividesNext
  <2>4. choose(n + 1, k) = c + d
    BY <2>1, <2>3, ChooseIs DEF Divides
  <2> QED BY <2>2, <2>4
<1> QED BY <1>1, <1>2

(* The binomial theorem, from the sums of the first terms of two rows. *)
LEMMA Powers ==
  ASSUME NEW b \in Nat
  PROVE  /\ \A n \in Nat : Power(b, n) \in Nat
         /\ Power(b, 0) = 1
         /\ \A n \in Nat : Power(b, n + 1) = b * Power(b, n)
<1> DEFINE step == [p \in Nat \X Nat |-> b * p[2]]
           Eq(f) == f = [n \in Nat |-> IF n = 0 THEN 1 ELSE b * f[n - 1]]
           powers == CHOOSE f : Eq(f)
<1>1. step \in [Nat \X Nat -> Nat] /\ \A n, v \in Nat : step[<<n, v>>] = b * v
  OBVIOUS
<1> HIDE DEF step
<1>2. PICK f : Recurs(f, Nat, 1, step)
  BY <1>1, NatRecursion
<1>3. f \in [Nat -> Nat] /\ \A n \in Nat : f[n] = IF n = 0 THEN 1 ELSE step[<<n, f[n - 1]>>]
  BY <1>2 DEF Recurs
<1>4. Eq(f)
  <2>1. ASSUME NEW n \in Nat PROVE f[n] = IF n = 0 THEN 1 ELSE b * f[n - 1]
    <3>1. CASE n = 0
      BY <1>3, <3>1
    <3>2. CASE n # 0
      <4>1. n - 1 \in Nat /\ f[n - 1] \in Nat
        BY <1>3, <3>2
      <4>2. f[n] = step[<<n, f[n - 1]>>]
        BY <1>3, <3>2
      <4> QED BY <1>1, <3>2, <4>1, <4>2
    <3> QED BY <3>1, <3>2
  <2> QED BY <1>3, <2>1
<1>5. \A n : Power(b, n) = powers[n]
  BY DEF Power
<1>6. Eq(powers)
  <2> HIDE DEF Eq
  <2> QED BY <1>4
<1>7. \A n \in Nat : powers[n] = IF n = 0 THEN 1 ELSE b * powers[n - 1]
  <2>1. \A g : Eq(g) => \A n \in Nat : g[n] = IF n = 0 THEN 1 ELSE b * g[n - 1]
    OBVIOUS
  <2> HIDE DEF Eq, powers
  <2> QED BY <1>6, <2>1
<1> HIDE DEF powers
<1>8. powers[0] = 1 /\ \A n \in Nat : powers[n + 1] = b * powers[n]
  BY <1>7
<1>9. \A n \in Nat : powers[n] \in Nat
  <2> DEFINE Q == {n \in Nat : powers[n] \in Nat}
  <2>1. 0 \in Q
    BY <1>8
  <2>2. ASSUME NEW n \in Nat, n \in Q PROVE n + 1 \in Q
    <3>1. PICK v \in Nat : powers[n] = v
      BY <2>2
    <3>2. n + 1 \in Nat /\ powers[n + 1] = b * v
      BY <1>8, <3>1
    <3>3. b * v \in Nat
      OBVIOUS
    <3> QED BY <3>2, <3>3
  <2>3. Q = Nat
    <3>1. Q \in SUBSET Nat
      OBVIOUS
    <3> HIDE DEF Q
    <3> QED BY <2>1, <2>2, <3>1, SetInduction
  <2> QED BY <2>3
<1> QED BY <1>5, <1>8, <1>9

(* A term of the binomial expansion, and the sum of the first terms. *)
Term(p, q, n, k) == choose(n, k) * Power(p, k) * Power(q, n - k)

Terms(p, q, n) == [k \in 0..n |-> Term(p, q, n, k)]

LEMMA TermIsNat ==
  ASSUME NEW p \in Nat, NEW q \in Nat, NEW n \in Nat, NEW k \in 0..n
  PROVE  Term(p, q, n, k) \in Nat
<1>1. choose(n, k) \in Nat /\ Power(p, k) \in Nat /\ Power(q, n - k) \in Nat
  <2>1. k \in Nat /\ n - k \in Nat
    OBVIOUS
  <2> QED BY <2>1, Coefficients, Powers
<1>2. PICK c \in Nat, a \in Nat, b \in Nat : c = choose(n, k) /\ a = Power(p, k) /\ b = Power(q, n - k)
  BY <1>1
<1>3. c * a * b \in Nat
  OBVIOUS
<1> QED BY <1>2, <1>3 DEF Term

LEMMA TermEnds ==
  ASSUME NEW p \in Nat, NEW q \in Nat, NEW n \in Nat
  PROVE  Term(p, q, n, 0) = Power(q, n) /\ Term(p, q, n, n) = Power(p, n)
<1>1. choose(n, 0) = 1 /\ choose(n, n) = 1 /\ n - 0 = n /\ n - n = 0
  BY Pascal
<1>2. PICK a \in Nat, b \in Nat : a = Power(p, n) /\ b = Power(q, n)
  BY Powers
<1>3. Power(p, 0) = 1 /\ Power(q, 0) = 1
  BY Powers
<1>4. 1 * 1 * b = b /\ 1 * a * 1 = a
  OBVIOUS
<1> QED BY <1>1, <1>2, <1>3, <1>4 DEF Term

LEMMA TermNext ==
  ASSUME NEW p \in Nat, NEW q \in Nat, NEW n \in Nat, NEW k \in Nat, k + 1 <= n
  PROVE  Term(p, q, n + 1, k + 1) = q * Term(p, q, n, k + 1) + p * Term(p, q, n, k)
<1>1. PICK j \in Nat : n = k + 1 + j
  <2>1. n - (k + 1) \in Nat /\ n = k + 1 + (n - (k + 1))
    OBVIOUS
  <2> QED BY <2>1
<1>2. k \in 0..n /\ k + 1 \in 1..n /\ k + 1 \in 0..n /\ (k + 1) - 1 = k
      /\ (n + 1) - (k + 1) = j + 1 /\ n - (k + 1) = j /\ n - k = j + 1
  BY <1>1
<1>3. PICK c \in Nat, d \in Nat : c = choose(n, k + 1) /\ d = choose(n, k)
  BY <1>2, Coefficients
<1>4. choose(n + 1, k + 1) = c + d
  BY <1>2, <1>3, Pascal
<1>5. PICK a \in Nat, b \in Nat : a = Power(p, k) /\ b = Power(q, j)
  BY Powers
<1>6. Power(p, k + 1) = p * a /\ Power(q, j + 1) = q * b
  BY <1>5, Powers
<1>7. Term(p, q, n + 1, k + 1) = (c + d) * (p * a) * (q * b)
  BY <1>2, <1>4, <1>6 DEF Term
<1>8. Term(p, q, n, k + 1) = c * (p * a) * b /\ Term(p, q, n, k) = d * a * (q * b)
  BY <1>2, <1>3, <1>5, <1>6 DEF Term
<1>9. (c + d) * (p * a) * (q * b) = q * (c * (p * a) * b) + p * (d * a * (q * b))
  OBVIOUS
<1> QED BY <1>7, <1>8, <1>9

LEMMA FirstTerms ==
  ASSUME NEW p \in Nat, NEW q \in Nat, NEW n \in Nat
  PROVE  /\ \A m \in 0..n : SumOf(Terms(p, q, n), 0..m) \in Nat
         /\ SumOf(Terms(p, q, n), 0..0) = Term(p, q, n, 0)
         /\ \A m \in Nat : m + 1 <= n =>
              SumOf(Terms(p, q, n), 0..(m + 1)) = Term(p, q, n, m + 1) + SumOf(Terms(p, q, n), 0..m)
<1> DEFINE f == Terms(p, q, n)
<1>1. \A k \in 0..n : f[k] = Term(p, q, n, k) /\ f[k] \in Nat
  BY TermIsNat DEF Terms
<1> HIDE DEF f
<1>2. ASSUME NEW m \in 0..n
      PROVE  /\ SumOf(f, 0..m) \in Nat
             /\ \A x \in 0..m : SumOf(f, 0..m) = f[x] + SumOf(f, (0..m) \ {x})
  <2>1. IsFiniteSet(0..m)
    BY FS_Interval
  <2>2. \A x \in 0..m : f[x] \in Nat
    BY <1>1
  <2> QED BY <2>1, <2>2, SumOfSet
<1>3. SumOf(f, 0..0) = Term(p, q, n, 0)
  <2>1. 0 \in 0..n /\ 0 \in 0..0 /\ (0..0) \ {0} = {}
    OBVIOUS
  <2>2. SumOf(f, 0..0) = f[0] + SumOf(f, (0..0) \ {0})
    BY <1>2, <2>1
  <2>3. SumOf(f, {}) = 0
    BY FS_EmptySet, SumOfSet
  <2>4. f[0] \in Nat /\ f[0] = Term(p, q, n, 0)
    BY <1>1, <2>1
  <2> QED BY <2>1, <2>2, <2>3, <2>4
<1>4. ASSUME NEW m \in Nat, m + 1 <= n
      PROVE  SumOf(f, 0..(m + 1)) = Term(p, q, n, m + 1) + SumOf(f, 0..m)
  <2>1. m + 1 \in 0..n /\ m + 1 \in 0..(m + 1) /\ (0..(m + 1)) \ {m + 1} = 0..m
    BY <1>4
  <2>2. SumOf(f, 0..(m + 1)) = f[m + 1] + SumOf(f, (0..(m + 1)) \ {m + 1})
    BY <1>2, <2>1
  <2> QED BY <1>1, <2>1, <2>2
<1> QED BY <1>2, <1>3, <1>4 DEF f

LEMMA PartialSums ==
  ASSUME NEW p \in Nat, NEW q \in Nat, NEW n \in Nat
  PROVE  \A m \in 0..n :
           SumOf(Terms(p, q, n + 1), 0..m) + p * Term(p, q, n, m)
             = (p + q) * SumOf(Terms(p, q, n), 0..m)
<1> DEFINE S(m) == SumOf(Terms(p, q, n), 0..m)
           R(m) == SumOf(Terms(p, q, n + 1), 0..m)
           T(k) == Term(p, q, n, k)
           P == {m \in Nat : m <= n => R(m) + p * T(m) = (p + q) * S(m)}
<1>1. \A m \in 0..n : S(m) \in Nat /\ R(m) \in Nat /\ T(m) \in Nat
  <2>1. n + 1 \in Nat /\ \A m \in 0..n : m \in 0..(n + 1)
    OBVIOUS
  <2>2. \A m \in 0..(n + 1) : SumOf(Terms(p, q, n + 1), 0..m) \in Nat
    BY <2>1, FirstTerms
  <2> QED BY <2>1, <2>2, FirstTerms, TermIsNat
<1>2. 0 \in P
  <2>1. PICK a \in Nat : a = Power(q, n)
    BY Powers
  <2>2. S(0) = a /\ T(0) = a
    <3>1. SumOf(Terms(p, q, n), 0..0) = Term(p, q, n, 0)
      BY FirstTerms
    <3>2. Term(p, q, n, 0) = Power(q, n)
      BY TermEnds
    <3> QED BY <2>1, <3>1, <3>2
  <2>3. R(0) = q * a
    <3>1. n + 1 \in Nat
      OBVIOUS
    <3>2. SumOf(Terms(p, q, n + 1), 0..0) = Power(q, n + 1)
      BY <3>1, FirstTerms, TermEnds
    <3> QED BY <2>1, <3>2, Powers
  <2>4. q * a + p * a = (p + q) * a
    OBVIOUS
  <2> HIDE DEF R, S, T
  <2> QED BY <2>2, <2>3, <2>4
<1>3. ASSUME NEW m \in Nat, m \in P PROVE m + 1 \in P
  <2> SUFFICES ASSUME m + 1 <= n PROVE R(m + 1) + p * T(m + 1) = (p + q) * S(m + 1)
    OBVIOUS
  <2>1. m \in 0..n /\ m + 1 \in 0..n /\ n + 1 \in Nat /\ m + 1 <= n + 1
    OBVIOUS
  <2>2. PICK r \in Nat, s \in Nat, t \in Nat, u \in Nat :
          r = R(m) /\ s = S(m) /\ t = T(m) /\ u = T(m + 1)
    <3> HIDE DEF R, S, T
    <3> QED BY <1>1, <2>1
  <2>3. r + p * t = (p + q) * s
    <3> HIDE DEF R, S, T
    <3> QED BY <1>3, <2>1, <2>2
  <2>4. S(m + 1) = u + s
    BY <2>1, <2>2, FirstTerms, SMTT(30)
  <2>5. R(m + 1) = (q * u + p * t) + r
    <3>1. Term(p, q, n + 1, m + 1) = q * u + p * t
      BY <2>1, <2>2, TermNext, SMTT(30)
    <3>2. R(m + 1) = Term(p, q, n + 1, m + 1) + R(m)
      BY <2>1, FirstTerms
    <3> QED BY <2>2, <3>1, <3>2
  <2>6. ((q * u + p * t) + r) + p * u = (p + q) * (u + s)
    <3>1. (p + q) * (u + s) = (p * u + q * u) + (p + q) * s
      OBVIOUS
    <3> QED BY <2>3, <3>1
  <2> HIDE DEF R, S, T
  <2> QED BY <2>2, <2>4, <2>5, <2>6
<1>4. P = Nat
  <2>1. P \in SUBSET Nat
    <3> HIDE DEF R, S, T
    <3> QED OBVIOUS
  <2> HIDE DEF P
  <2> QED BY <1>2, <1>3, <2>1, SetInduction
<1> HIDE DEF R, S, T
<1>5. ASSUME NEW m \in 0..n PROVE R(m) + p * T(m) = (p + q) * S(m)
  <2>1. m \in P /\ m <= n
    <3> HIDE DEF P
    <3> QED BY <1>4
  <2> QED BY <2>1
<1> QED BY <1>5 DEF R, S, T

(* The binomial theorem. *)
LEMMA Binomial ==
  ASSUME NEW p \in Nat, NEW q \in Nat, NEW n \in Nat
  PROVE  SumOf(Terms(p, q, n), 0..n) = Power(p + q, n)
<1> DEFINE S(m) == SumOf(Terms(p, q, m), 0..m)
           P == {m \in Nat : S(m) = Power(p + q, m)}
<1>0. p + q \in Nat
  OBVIOUS
<1>1. 0 \in P
  <2>1. Power(p + q, 0) = 1 /\ Power(q, 0) = 1
    BY <1>0, Powers
  <2>2. S(0) = 1
    BY <2>1, FirstTerms, TermEnds
  <2> HIDE DEF S
  <2> QED BY <2>1, <2>2
<1>2. ASSUME NEW m \in Nat, m \in P PROVE m + 1 \in P
  <2>1. m \in 0..m /\ m + 1 \in Nat /\ m \in 0..(m + 1) /\ m + 1 <= m + 1
    OBVIOUS
  <2>2. PICK s \in Nat, r \in Nat, a \in Nat :
          s = S(m) /\ r = SumOf(Terms(p, q, m + 1), 0..m) /\ a = Power(p, m)
    <3>1. S(m) \in Nat
      BY <2>1, FirstTerms
    <3>2. SumOf(Terms(p, q, m + 1), 0..m) \in Nat
      BY <2>1, FirstTerms
    <3>3. Power(p, m) \in Nat
      BY Powers
    <3> HIDE DEF S
    <3> QED BY <3>1, <3>2, <3>3
  <2>3. Term(p, q, m, m) = a /\ Term(p, q, m + 1, m + 1) = p * a
    <3>1. Term(p, q, m, m) = a
      BY <2>2, TermEnds
    <3>2. Term(p, q, m + 1, m + 1) = Power(p, m + 1)
      BY <2>1, TermEnds
    <3>3. Power(p, m + 1) = p * a
      BY <2>2, Powers
    <3> QED BY <3>1, <3>2, <3>3
  <2>4. r + p * a = (p + q) * s
    <3>1. SumOf(Terms(p, q, m + 1), 0..m) + p * Term(p, q, m, m) = (p + q) * SumOf(Terms(p, q, m), 0..m)
      BY <2>1, PartialSums
    <3> QED BY <2>2, <2>3, <3>1
  <2>5. S(m + 1) = p * a + r
    <3>1. SumOf(Terms(p, q, m + 1), 0..(m + 1)) = Term(p, q, m + 1, m + 1) + SumOf(Terms(p, q, m + 1), 0..m)
      BY <2>1, FirstTerms
    <3> QED BY <2>2, <2>3, <3>1
  <2>6. Power(p + q, m + 1) = (p + q) * s
    <3>1. Power(p + q, m) = s
      <4> HIDE DEF S
      <4> QED BY <1>2, <2>2
    <3> QED BY <1>0, <3>1, Powers
  <2>7. p * a + r = r + p * a
    <3>1. p * a \in Nat
      OBVIOUS
    <3> QED BY <3>1
  <2> HIDE DEF S
  <2> QED BY <2>1, <2>4, <2>5, <2>6, <2>7
<1>3. P = Nat
  <2>1. P \in SUBSET Nat
    <3> HIDE DEF S
    <3> QED OBVIOUS
  <2> HIDE DEF P
  <2> QED BY <1>1, <1>2, <2>1, SetInduction
<1>4. n \in P
  <2> HIDE DEF P
  <2> QED BY <1>3
<1> HIDE DEF S
<1>5. S(n) = Power(p + q, n)
  BY <1>4
<1> QED BY <1>5 DEF S

LEMMA WeightIsSum ==
  ASSUME NEW n \in Nat
  PROVE  Weight(0, n) = SumOf(Terms(PNum, PDen - PNum, n), 0..n)
<1> DEFINE q == PDen - PNum
           f == Terms(PNum, q, n)
           S == 0..n
           Eq(g) == g = [s \in SUBSET S |->
                           IF s = {} THEN 0
                           ELSE choose(n, AnyOf(s)) * Power(PNum, AnyOf(s))
                                  * Power(PDen - PNum, n - AnyOf(s)) + g[s \ {AnyOf(s)}]]
           sums == CHOOSE g : Eq(g)
<1>1. PNum \in Nat /\ q \in Nat
  BY ValidationAssumption
<1>2. \A k \in S : /\ f[k] = choose(n, k) * Power(PNum, k) * Power(PDen - PNum, n - k)
                   /\ f[k] \in Nat
  <2>1. \A k \in 0..n : f[k] = Term(PNum, q, n, k)
    BY DEF Terms
  <2>2. \A k \in 0..n : Term(PNum, q, n, k) \in Nat
    <3> HIDE DEF q
    <3> QED BY <1>1, TermIsNat
  <2> QED BY <2>1, <2>2 DEF Term
<1>3. \A s \in SUBSET S : s # {} => AnyOf(s) \in S
  BY DEF AnyOf
<1>4. IsFiniteSet(S)
  BY FS_Interval
<1>5. Weight(0, n) = sums[S]
  BY DEF Weight, MapThenSumSet, MapThenFoldSet, AnyOf
<1> HIDE DEF f, S, q
<1>6. \A g : Eq(g) <=> Sums(g, f, S)
  <2> SUFFICES ASSUME NEW g PROVE Eq(g) <=> Sums(g, f, S)
    OBVIOUS
  <2> DEFINE u == [s \in SUBSET S |->
                     IF s = {} THEN 0
                     ELSE choose(n, AnyOf(s)) * Power(PNum, AnyOf(s))
                            * Power(PDen - PNum, n - AnyOf(s)) + g[s \ {AnyOf(s)}]]
             v == [s \in SUBSET S |-> IF s = {} THEN 0 ELSE f[AnyOf(s)] + g[s \ {AnyOf(s)}]]
  <2>1. u = v
    <3> HIDE DEF AnyOf
    <3>1. ASSUME NEW s \in SUBSET S, s # {}
          PROVE  choose(n, AnyOf(s)) * Power(PNum, AnyOf(s)) * Power(PDen - PNum, n - AnyOf(s))
                   = f[AnyOf(s)]
      BY <1>2, <1>3, <3>1
    <3> QED BY <3>1
  <2>2. (Eq(g) <=> g = u) /\ (Sums(g, f, S) <=> g = v)
    BY DEF Sums
  <2> HIDE DEF Eq, u, v
  <2> QED BY <2>1, <2>2
<1> HIDE DEF Eq
<1>7. PICK g : Sums(g, f, S) /\ SumOf(f, S) = g[S]
  <2>1. \E g : Sums(g, f, S)
    BY <1>2, <1>4, SumsExist
  <2> QED BY <2>1, SumIsOne
<1>8. Sums(sums, f, S)
  BY <1>6, <1>7
<1> HIDE DEF sums
<1>9. sums[S] = g[S]
  BY <1>4, <1>7, <1>8, SumsAgree
<1> QED BY <1>5, <1>7, <1>9 DEF f, S, q

(* A batch without a mismatch has weight one: no threshold within one marks it. *)
LEMMA NoMismatchNoFraud ==
  ASSUME FraudNum <= FraudDen, NEW n \in Nat
  PROVE  ~fraud_test(0, n)
<1>1. PNum \in Nat /\ PDen - PNum \in Nat /\ PNum + (PDen - PNum) = PDen /\ PDen \in Nat
      /\ FraudNum \in Nat /\ FraudDen \in Nat
  BY ValidationAssumption
<1>2. SumOf(Terms(PNum, PDen - PNum, n), 0..n) = Power(PNum + (PDen - PNum), n)
  BY <1>1, Binomial
<1>3. PICK w \in Nat : w = Power(PDen, n)
  BY <1>1, Powers
<1>4. Weight(0, n) = w
  BY <1>1, <1>2, <1>3, WeightIsSum
<1>5. ~(w * FraudDen < FraudNum * w)
  <2>1. PICK d \in Nat : FraudDen = FraudNum + d
    <3>1. FraudDen - FraudNum \in Nat /\ FraudDen = FraudNum + (FraudDen - FraudNum)
      BY <1>1
    <3> QED BY <3>1
  <2>2. w * (FraudNum + d) = FraudNum * w + w * d /\ w * d \in Nat /\ FraudNum * w \in Nat
    BY <1>1
  <2> QED BY <2>1, <2>2
<1> QED BY <1>3, <1>4, <1>5 DEF fraud_test

--------------------------------------------------------------------------------
(* The request: what was collected so far, and the call it awaits.                     *)

(* The positions of the request whose chunks were answered. *)
Reached == {p \in DOMAIN body.nonces : p <= next}

(* Every artifact has a position of its own, which asked for its nonce. *)
Places(g) ==
  /\ g \in [DOMAIN computed -> Reached]
  /\ \A i, j \in DOMAIN computed : g[i] = g[j] => i = j
  /\ \A i \in DOMAIN computed : computed[i].nonce = body.nonces[g[i]]

Genuine ==
  \A i \in DOMAIN computed : computed[i].vector = Reference(OwnHash, Key, computed[i].nonce)

Whole ==
  lost = 0 => \A p \in Reached : \E i \in DOMAIN computed : computed[i].nonce = body.nonces[p]

Collected == (\E A : computed \in Seq(A)) /\ (\E g : Places(g)) /\ Genuine /\ Whole

Fresh == point = "none" => computed = <<>> /\ next = 0

AwaitsChunk ==
  point = "await" => sent \in DOMAIN calls /\ calls[sent] = PocCall(OwnHash, Key, Chunk, lease)

Stands ==
  response.status = "verdict" =>
    /\ point = "done" /\ ~HasChunk
    /\ response = run_validation(computed, body.claims, Len(body.nonces))

VerdictInv ==
  Fresh /\ AwaitsChunk /\ Stands /\ (faults < Tp /\ point # "none" => Collected)

(* The positions of a chunk of k after the first a, which ends at last. *)
ChunkEnds(q, a, k, last) ==
  (a + k < Len(q) /\ last = a + k) \/ (a + k >= Len(q) /\ last = Len(q))

ReadsChunk(q, a, k, last) ==
  /\ last <= Len(q) /\ last <= a + k
  /\ \A n : n \in Range(SubSeq(q, a + 1, last)) <=> \E p \in (a + 1)..last : n = q[p]
  /\ \A p \in DOMAIN q : p <= a + k <=> p <= a \/ p \in (a + 1)..last

LEMMA ChunkIsRead ==
  ASSUME NEW s, NEW q \in Seq(s), NEW a \in Nat, NEW k \in Nat, k > 0,
         NEW last \in Nat, ChunkEnds(q, a, k, last)
  PROVE  ReadsChunk(q, a, k, last)
<1> DEFINE read == SubSeq(q, a + 1, last)
<1>1. Len(q) \in Nat /\ DOMAIN q = 1..Len(q)
  BY LenProperties
<1>2. last <= Len(q) /\ last <= a + k
      /\ \A p \in DOMAIN q : p <= a + k <=> p <= a \/ p \in (a + 1)..last
  <2>1. PICK m \in Nat : m = Len(q)
    BY <1>1
  <2>2. (a + k < m /\ last = a + k) \/ (a + k >= m /\ last = m)
    BY <2>1 DEF ChunkEnds
  <2>3. last <= m /\ last <= a + k
    BY <2>2
  <2>4. \A p \in 1..m : p <= a + k <=> p <= a \/ p \in (a + 1)..last
    BY <2>2
  <2> QED BY <1>1, <2>1, <2>3, <2>4
<1>3. CASE last >= a
  <2>1. /\ DOMAIN read = 1..(last - a)
        /\ \A i \in 1..(last - a) : read[i] = q[a + i]
    <3>1. last - (a + 1) + 1 = last - a /\ a + 1 \in Int /\ last \in Int /\ a + 1 <= last + 1
      BY <1>2, <1>3
    <3>2. \A i \in (a + 1)..last : q[i] \in s
      <4>0. last <= Len(q) /\ Len(q) \in Nat
        BY <1>1, <1>2
      <4>1. \A i \in (a + 1)..last : i \in 1..Len(q)
        BY <4>0
      <4> QED BY <4>1, ElementOfSeq
    <3>3. /\ read \in Seq(s) /\ Len(read) = IF a + 1 <= last THEN last - (a + 1) + 1 ELSE 0
          /\ \A i \in 1..(last - (a + 1) + 1) : read[i] = q[a + 1 + i - 1]
      BY <3>1, <3>2, SubSeqProperties
    <3>4. Len(read) = last - a
      BY <1>2, <3>1, <3>3
    <3>5. \A i \in 1..(last - a) : a + 1 + i - 1 = a + i
      BY <1>2
    <3> QED BY <3>1, <3>3, <3>4, <3>5, LenProperties
  <2> HIDE DEF read
  <2>2. ASSUME NEW n PROVE n \in Range(read) <=> \E p \in (a + 1)..last : n = q[p]
    <3>1. ASSUME n \in Range(read) PROVE \E p \in (a + 1)..last : n = q[p]
      <4>1. PICK i \in 1..(last - a) : n = read[i]
        BY <2>1, <3>1 DEF Range
      <4>2. a + i \in (a + 1)..last
        BY <1>2
      <4> QED BY <2>1, <4>1, <4>2
    <3>2. ASSUME NEW p \in (a + 1)..last, n = q[p] PROVE n \in Range(read)
      <4>1. p - a \in 1..(last - a) /\ a + (p - a) = p
        BY <1>2
      <4>2. read[p - a] = q[a + (p - a)]
        BY <2>1, <4>1
      <4> QED BY <2>1, <3>2, <4>1, <4>2 DEF Range
    <3> QED BY <3>1, <3>2
  <2> QED BY <1>2, <2>2 DEF read, ReadsChunk
<1>4. CASE last < a
  <2>1. (a + 1)..last = {} /\ 1..(last - (a + 1) + 1) = {}
    BY <1>2, <1>4
  <2> HIDE DEF read
  <2>2. DOMAIN read = {}
    <3>1. a + 1 \in Int /\ last \in Int /\ \A i \in (a + 1)..last : q[i] \in s
      BY <1>2, <2>1
    <3>2. read \in Seq(s) /\ Len(read) = 0
      BY <1>2, <1>4, <3>1, SubSeqProperties DEF read
    <3> QED BY <3>2, LenProperties
  <2>3. \A n : n \in Range(read) <=> \E p \in (a + 1)..last : n = q[p]
    BY <2>1, <2>2 DEF Range
  <2> QED BY <1>2, <2>3 DEF read, ReadsChunk
<1>5. last >= a \/ last < a
  BY <1>2
<1> QED BY <1>3, <1>4, <1>5

(* The artifacts of an answer go to positions of its chunk, which are all new. *)
LEMMA AnswerExtends ==
  ASSUME ValidationTypes, Data, Collected, AwaitsChunk, ChunkAnswered
  PROVE  Collected'
<1> DEFINE q == body.nonces
           n == next + body.batch_size
           art == Answer(sent)
           k == Len(computed)
<1>1. /\ point = "await" /\ Answered(sent) /\ ~Failed(sent)
      /\ computed' = computed \o art /\ next' = n
      /\ body' = body /\ lost' = lost /\ calls' = calls
  BY DEF ChunkAnswered, forwardVars
<1>2. /\ RanksInv /\ RankTypes /\ RequestTypes /\ ResultsRight
      /\ q \in Seq(Nonces) /\ body.batch_size \in Int /\ body.batch_size > 0 /\ next \in Nat
  BY <1>1, BodyIsTyped DEF ValidationTypes, Advances, RequestTypes, Data
<1>3. PICK last \in Nat : last = IF n < Len(q) THEN n ELSE Len(q)
  <2>1. (IF n < Len(q) THEN n ELSE Len(q)) \in Nat
    BY <1>2, LenProperties
  <2> QED BY <2>1
<1> DEFINE new == (next + 1)..last
<1>30. /\ sent \in DOMAIN calls /\ calls[sent].kind = "poc"
       /\ calls[sent].block_hash = OwnHash /\ calls[sent].public_key = Key
       /\ calls[sent].nonces = SubSeq(q, next + 1, last)
  BY <1>1, <1>3 DEF AwaitsChunk, PocCall, Chunk
<1>4. /\ last \in Nat /\ last <= Len(q) /\ last <= n
      /\ \A m : m \in Range(calls[sent].nonces) <=> \E p \in new : m = q[p]
      /\ \A p \in DOMAIN q : p <= n <=> p <= next \/ p \in new
  <2>1. PICK m \in Nat \ {0} : m = body.batch_size
    BY <1>2
  <2>2. PICK a \in Nat : a = next
    BY <1>2
  <2>3. ChunkEnds(q, a, m, last) /\ m > 0
    <3>1. Len(q) \in Nat
      BY <1>2, LenProperties
    <3> QED BY <1>3, <2>1, <2>2, <3>1 DEF ChunkEnds
  <2> HIDE DEF q
  <2>4. ReadsChunk(q, a, m, last)
    BY <1>2, <2>3, ChunkIsRead
  <2> QED BY <1>30, <2>1, <2>2, <2>4 DEF ReadsChunk
<1>5. /\ \E A : art \in Seq(A)
      /\ OnePerNonce(art)
      /\ \A i \in DOMAIN art : ArtifactRight(sent, art[i])
      /\ lost = 0 => \A m \in Range(calls[sent].nonces) : \E i \in DOMAIN art : art[i].nonce = m
  BY <1>1, <1>2, <1>30, AnswerIsRight
<1>6. DOMAIN q = 1..Len(q) /\ Len(q) \in Nat /\ new \in SUBSET (DOMAIN q) /\ n \in Nat
  <2>1. DOMAIN q = 1..Len(q) /\ Len(q) \in Nat /\ n \in Nat
    BY <1>2, LenProperties
  <2> QED BY <1>2, <1>4, <2>1
<1> HIDE DEF art
<1>7. /\ DOMAIN computed = 1..k /\ k \in Nat
      /\ DOMAIN art = 1..Len(art) /\ Len(art) \in Nat
      /\ DOMAIN computed' = 1..(k + Len(art))
      /\ \E A : computed' \in Seq(A)
      /\ \A i \in 1..k : computed'[i] = computed[i]
      /\ \A i \in 1..Len(art) : computed'[k + i] = art[i]
  <2>1. PICK A : computed \in Seq(A)
    BY DEF Collected
  <2>2. PICK B : art \in Seq(B)
    BY <1>5
  <2>3. computed \in Seq(A \cup B) /\ art \in Seq(A \cup B)
    BY <2>1, <2>2
  <2>4. computed \o art \in Seq(A \cup B) /\ Len(computed \o art) = k + Len(art)
    BY <2>3, ConcatProperties
  <2>5. \A i \in 1..(k + Len(art)) :
          (computed \o art)[i] = IF i <= k THEN computed[i] ELSE art[i - k]
    BY <2>3, ConcatProperties
  <2>6. DOMAIN computed = 1..k /\ k \in Nat /\ DOMAIN art = 1..Len(art) /\ Len(art) \in Nat
    BY <2>1, <2>2, LenProperties
  <2>7. DOMAIN (computed \o art) = 1..(k + Len(art))
    BY <2>4, LenProperties
  <2>8. \A i \in 1..k : (computed \o art)[i] = computed[i]
    BY <2>5, <2>6
  <2>9. \A i \in 1..Len(art) : (computed \o art)[k + i] = art[i]
    <3> TAKE i \in 1..Len(art)
    <3>1. k + i \in 1..(k + Len(art)) /\ ~(k + i <= k) /\ k + i - k = i
      BY <2>6
    <3> QED BY <2>5, <3>1
  <2> QED BY <1>1, <2>4, <2>6, <2>7, <2>8, <2>9
<1>8. /\ \A i \in DOMAIN art : \E p \in new : art[i].nonce = q[p]
      /\ \A i \in DOMAIN art : art[i].vector = Reference(OwnHash, Key, art[i].nonce)
  BY <1>30, <1>4, <1>5 DEF ArtifactRight
<1>9. Reached' = {p \in DOMAIN q : p <= n}
  BY <1>1 DEF Reached
<1>10. \A p : p \in Reached' <=> p \in Reached \/ p \in new
  BY <1>4, <1>6, <1>9 DEF Reached
<1>11. \A p \in Reached : p \notin new
  BY <1>2, <1>4, <1>6 DEF Reached
<1> HIDE DEF n, new, k
<1>12. \E h : Places(h)'
  <2>1. PICK g : Places(g)
    BY DEF Collected
  <2> DEFINE at(i) == CHOOSE p \in new : art[i].nonce = q[p]
             h == [i \in 1..(k + Len(art)) |-> IF i <= k THEN g[i] ELSE at(i - k)]
  <2>2. \A i \in DOMAIN art : at(i) \in new /\ art[i].nonce = q[at(i)]
    BY <1>8
  <2> HIDE DEF at
  <2>3. ASSUME NEW i \in 1..(k + Len(art))
        PROVE  \/ i \in DOMAIN computed /\ h[i] = g[i] /\ h[i] \in Reached
                  /\ computed'[i] = computed[i]
               \/ i - k \in DOMAIN art /\ h[i] = at(i - k) /\ h[i] \in new
                  /\ computed'[i] = art[i - k]
    <3>1. CASE i <= k
      <4>1. i \in 1..k /\ h[i] = g[i]
        BY <1>7, <3>1
      <4> QED BY <1>7, <2>1, <4>1 DEF Places
    <3>2. CASE ~(i <= k)
      <4>1. i - k \in 1..Len(art) /\ k + (i - k) = i /\ h[i] = at(i - k)
        BY <1>7, <3>2
      <4> QED BY <1>7, <2>2, <4>1
    <3> QED BY <3>1, <3>2
  <2>4. h \in [1..(k + Len(art)) -> Reached']
    <3>1. \A i \in 1..(k + Len(art)) : h[i] \in Reached'
      BY <1>10, <2>3
    <3> QED BY <3>1
  <2> HIDE DEF h
  <2>5. ASSUME NEW i \in 1..(k + Len(art)), NEW j \in 1..(k + Len(art)), h[i] = h[j]
        PROVE  i = j
    <3>1. CASE i \in DOMAIN computed /\ h[i] = g[i] /\ h[i] \in Reached
      <4>1. h[j] \notin new
        BY <1>11, <2>5, <3>1
      <4>2. j \in DOMAIN computed /\ h[j] = g[j]
        BY <2>3, <4>1
      <4> QED BY <2>1, <2>5, <3>1, <4>2 DEF Places
    <3>2. CASE i - k \in DOMAIN art /\ h[i] = at(i - k) /\ h[i] \in new
      <4>1. h[j] \notin Reached
        BY <1>11, <2>5, <3>2
      <4>2. j - k \in DOMAIN art /\ h[j] = at(j - k)
        BY <2>3, <4>1
      <4>3. art[i - k].nonce = art[j - k].nonce
        BY <2>2, <2>5, <3>2, <4>2
      <4>4. i - k = j - k
        BY <1>5, <3>2, <4>2, <4>3 DEF OnePerNonce
      <4> QED BY <1>7, <4>4
    <3> QED BY <2>3, <3>1, <3>2
  <2>6. ASSUME NEW i \in 1..(k + Len(art)) PROVE computed'[i].nonce = q[h[i]]
    BY <2>1, <2>2, <2>3 DEF Places
  <2>7. PICK f : f = h
    OBVIOUS
  <2>8. Places(f)'
    BY <1>1, <1>7, <2>4, <2>5, <2>6, <2>7 DEF Places
  <2> QED BY <2>8
<1>13. Genuine'
  <2> SUFFICES ASSUME NEW i \in 1..(k + Len(art))
               PROVE  computed'[i].vector = Reference(OwnHash, Key, computed'[i].nonce)
    BY <1>7 DEF Genuine
  <2>1. CASE i \in 1..k
    <3>1. computed[i].vector = Reference(OwnHash, Key, computed[i].nonce)
      BY <1>7, <2>1 DEF Collected, Genuine
    <3> QED BY <1>7, <2>1, <3>1
  <2>2. CASE i - k \in 1..Len(art)
    <3>1. k + (i - k) = i /\ i - k \in DOMAIN art
      BY <1>7, <2>2
    <3>2. computed'[i] = art[i - k]
      BY <1>7, <2>2, <3>1
    <3> QED BY <1>8, <3>1, <3>2
  <2>3. i \in 1..k \/ i - k \in 1..Len(art)
    BY <1>7
  <2> QED BY <2>1, <2>2, <2>3
<1>14. Whole'
  <2> SUFFICES ASSUME lost = 0, NEW p \in Reached'
               PROVE  \E i \in DOMAIN computed' : computed'[i].nonce = q[p]
    BY <1>1 DEF Whole
  <2>1. CASE p \in Reached
    <3>1. PICK i \in DOMAIN computed : computed[i].nonce = q[p]
      BY <2>1 DEF Collected, Whole
    <3>2. i \in 1..k /\ i \in 1..(k + Len(art))
      BY <1>7, <3>1
    <3> QED BY <1>7, <3>1, <3>2
  <2>2. CASE p \in new
    <3>1. PICK i \in DOMAIN art : art[i].nonce = q[p]
      BY <1>4, <1>5, <2>2
    <3>2. i \in 1..Len(art) /\ k + i \in 1..(k + Len(art))
      BY <1>7, <3>1
    <3> QED BY <1>7, <3>1, <3>2
  <2> QED BY <1>10, <2>1, <2>2
<1> QED BY <1>7, <1>12, <1>13, <1>14 DEF Collected

LEMMA LostGrows ==
  ASSUME RankTypes, [Next]_vars
  PROVE  lost' = 0 => lost = 0
<1>1. lost \in Nat
  BY DEF RankTypes, Budget
<1>2. ASSUME NEW r \in Ranks, Finish(r) PROVE lost' = 0 => lost = 0
  <2>1. PICK nan \in SUBSET DOMAIN rows[r] : lost' = lost + Cardinality(nan)
    BY <1>2 DEF Finish
  <2>2. PICK size \in Nat : DOMAIN rows[r] = 1..size
    BY DEF RankTypes, Batches, Sized
  <2>3. IsFiniteSet(1..size) /\ nan \in SUBSET (1..size)
    BY <2>1, <2>2, FS_Interval
  <2>4. IsFiniteSet(nan)
    BY <2>3, FS_Subset
  <2>5. Cardinality(nan) \in Nat
    BY <2>4, FS_CardinalityType
  <2> QED BY <1>1, <2>1, <2>5
<1>3. ASSUME NEW r \in Ranks, RankStep(r) PROVE lost' = lost \/ Finish(r)
  BY <1>3 DEF RankStep, Begin, Receive, Prepare, HooksRaise, LayoutRaises, Enter, ModelRaises,
              MayRaise, mishaps
<1>4. ASSUME NEW p \in Stages, StageStep(p) PROVE lost' = lost
  BY <1>4 DEF StageStep, Barrier, Barrier2, Model, InferenceStep, mishaps
<1>5. Abandon => lost' = lost
  BY DEF Abandon
<1>6. Forward => (lost' = 0 => lost = 0)
  BY <1>2, <1>3, <1>4, <1>5 DEF Forward, ForwardStep
<1>7. SendChunk \/ Mine \/ Infer => lost' = lost
  BY DEF SendChunk, Mine, Infer, OtherCall, mishaps
<1>8. Arrive \/ Reserve \/ ChunkBegins \/ ChunkAnswered \/ ChunkFails \/ Verdict
        \/ MiningStarts \/ MiningEnds \/ UNCHANGED vars => UNCHANGED forwardVars
  BY DEF Arrive, Reserve, ChunkBegins, ChunkAnswered, ChunkFails, Verdict,
         MiningStarts, MiningEnds, vars
<1>9. UNCHANGED forwardVars => lost' = lost
  BY DEF forwardVars
<1> QED BY <1>6, <1>7, <1>8, <1>9 DEF Next, Handler

(* A call that is sent leaves the earlier ones where they are. *)
LEMMA CallsAppended ==
  ASSUME RankTypes, NEW call, calls' = Append(calls, call)
  PROVE  /\ DOMAIN calls \subseteq DOMAIN calls' /\ \A c \in DOMAIN calls : calls'[c] = calls[c]
         /\ Len(calls) + 1 \in DOMAIN calls' /\ calls'[Len(calls) + 1] = call
<1>1. calls \in Seq(CallType)
  BY DEF RankTypes, CallTypes
<1>2. calls \in Seq(CallType \cup {call}) /\ call \in CallType \cup {call}
  BY <1>1, SeqDef
<1>3. /\ Append(calls, call) \in Seq(CallType \cup {call})
      /\ Len(Append(calls, call)) = Len(calls) + 1
      /\ \A c \in 1..Len(calls) : Append(calls, call)[c] = calls[c]
      /\ Append(calls, call)[Len(calls) + 1] = call
  BY <1>2, AppendProperties
<1>4. Len(calls) \in Nat /\ DOMAIN calls = 1..Len(calls) /\ DOMAIN calls' = 1..(Len(calls) + 1)
  BY <1>1, <1>3, LenProperties
<1> QED BY <1>3, <1>4

(* What neither answers nor begins the request leaves its results alone. *)
LEMMA OthersKeepVerdict ==
  ASSUME RankTypes, VerdictInv, [Next]_vars, UNCHANGED requestVars,
         \/ calls' = calls
         \/ \E call : calls' = Append(calls, call)
  PROVE  VerdictInv'
<1>1. UNCHANGED <<point, body, lease, next, sent, computed, response>>
  BY DEF requestVars
<1>2. Fresh' /\ Stands'
  BY <1>1 DEF VerdictInv, Fresh, Stands, HasChunk
<1>3. AwaitsChunk'
  <2>1. DOMAIN calls \subseteq DOMAIN calls' /\ \A c \in DOMAIN calls : calls'[c] = calls[c]
    BY CallsAppended
  <2> QED BY <1>1, <2>1 DEF VerdictInv, AwaitsChunk, Chunk
<1>4. ASSUME faults' < Tp, point' # "none" PROVE Collected'
  <2>1. Collected
    <3>1. faults < Tp
      BY <1>4, FaultsGrow, ForwardAssumption
    <3> QED BY <1>1, <1>4, <3>1 DEF VerdictInv
  <2>2. Reached' = Reached /\ computed' = computed
    BY <1>1 DEF Reached
  <2>3. Genuine' /\ Whole'
    BY <1>1, <2>1, <2>2, LostGrows DEF Collected, Genuine, Whole
  <2>4. \A g : Places(g) => Places(g)'
    BY <1>1, <2>2 DEF Places
  <2> QED BY <2>1, <2>2, <2>3, <2>4 DEF Collected
<1> QED BY <1>2, <1>3, <1>4 DEF VerdictInv

LEMMA VerdictInvInit == Init => VerdictInv
<1> SUFFICES ASSUME Init PROVE VerdictInv
  OBVIOUS
<1>1. point = "none" /\ computed = <<>> /\ next = 0 /\ response.status = "none"
  BY DEF Init, Nothing
<1> QED BY <1>1 DEF VerdictInv, Fresh, AwaitsChunk, Stands

LEMMA ArriveKeepsVerdict ==
  ASSUME ValidationTypes, VerdictInv, Arrive
  PROVE  VerdictInv'
<1>1. /\ point = "none" /\ computed = <<>> /\ next = 0
      /\ computed' = computed /\ next' = next
      /\ body' \in Bodies /\ point' \in {"wait", "done"}
      /\ response' = response \/ response' = Error("400")
  BY DEF Arrive, VerdictInv, Fresh, Responds
<1>2. Fresh' /\ AwaitsChunk' /\ Stands'
  BY <1>1 DEF VerdictInv, Fresh, AwaitsChunk, Stands, Error
<1>3. DOMAIN computed' = {} /\ computed' \in Seq({})
  <2>1. DOMAIN <<>> = {} /\ <<>> \in Seq({})
    BY EmptySeq
  <2> QED BY <1>1, <2>1, Zenon
<1>4. Reached' = {}
  <2>1. body'.nonces \in Seq(Nonces)
    BY <1>1, ValidationAssumption
  <2>2. \A p \in DOMAIN body'.nonces : p \in Nat /\ p >= 1
    BY <2>1, LenProperties
  <2> QED BY <1>1, <2>2 DEF Reached
<1>5. [i \in {} |-> 0] \in [{} -> {}]
  OBVIOUS
<1>6. Places([i \in {} |-> 0])'
  BY <1>3, <1>4, <1>5 DEF Places
<1>7. Collected'
  BY <1>3, <1>4, <1>6 DEF Collected, Genuine, Whole
<1> QED BY <1>2, <1>7 DEF VerdictInv

(* The handler's steps that compute nothing. *)
LEMMA HandlerKeepsVerdict ==
  ASSUME ValidationTypes, VerdictInv,
         Reserve \/ ChunkBegins \/ SendChunk \/ ChunkFails \/ Verdict
  PROVE  VerdictInv'
<1>1. /\ UNCHANGED <<body, next, computed, faults, lost>>
      /\ point # "none" /\ point # "done" /\ point' # "none"
  BY DEF Reserve, ChunkBegins, SendChunk, ChunkFails, Verdict, Responds, forwardVars, mishaps
<1>2. Fresh'
  BY <1>1 DEF Fresh
<1>3. ASSUME faults' < Tp PROVE Collected'
  <2>1. Collected
    BY <1>1, <1>3 DEF VerdictInv
  <2>2. Reached' = Reached
    BY <1>1 DEF Reached
  <2>3. \A g : Places(g) => Places(g)'
    BY <1>1, <2>2 DEF Places
  <2> QED BY <1>1, <2>1, <2>2, <2>3 DEF Collected, Genuine, Whole
<1>4. AwaitsChunk'
  <2>1. CASE SendChunk
    <3>1. /\ calls' = Append(calls, PocCall(OwnHash, Key, Chunk, lease))
          /\ sent' = Len(calls) + 1 /\ lease' = lease /\ Chunk' = Chunk
      BY <2>1 DEF SendChunk, Send, Chunk
    <3>2. RankTypes
      BY DEF ValidationTypes
    <3>3. sent' \in DOMAIN calls' /\ calls'[sent'] = PocCall(OwnHash, Key, Chunk, lease)
      BY <3>1, <3>2, CallsAppended
    <3> QED BY <3>1, <3>3 DEF AwaitsChunk
  <2>2. CASE Reserve \/ ChunkBegins \/ ChunkFails \/ Verdict
    <3>1. point' # "await"
      BY <2>2 DEF Reserve, ChunkBegins, ChunkFails, Verdict, Responds
    <3> QED BY <3>1 DEF AwaitsChunk
  <2> QED BY <2>1, <2>2
<1>5. Stands'
  <2>1. response.status # "verdict"
    BY <1>1 DEF VerdictInv, Stands
  <2>2. CASE ~Verdict
    <3>1. response' = response \/ response' = Error("500") \/ response' = Error("503")
      BY <2>2 DEF Reserve, ChunkBegins, SendChunk, ChunkFails, Responds
    <3> QED BY <2>1, <3>1 DEF Stands, Error
  <2>3. CASE Verdict
    <3>1. /\ point' = "done" /\ ~HasChunk /\ HasChunk' = HasChunk
          /\ \/ response' = [status |-> "artifacts", artifacts |-> computed]
             \/ response' = run_validation(computed, body.claims, Len(body.nonces))
      BY <1>1, <2>3 DEF Verdict, Responds, HasChunk
    <3> QED BY <1>1, <3>1 DEF Stands
  <2> QED BY <2>2, <2>3
<1> QED BY <1>2, <1>3, <1>4, <1>5 DEF VerdictInv

LEMMA VerdictInvNext ==
  ValidationTypes /\ Repro /\ VerdictInv /\ [Next]_vars => VerdictInv'
<1> SUFFICES ASSUME ValidationTypes, Repro, VerdictInv, [Next]_vars PROVE VerdictInv'
  OBVIOUS
<1>1. RankTypes /\ RanksInv
  BY DEF ValidationTypes
<1>2. CASE Forward \/ MiningStarts \/ MiningEnds \/ UNCHANGED vars
  <2>1. UNCHANGED requestVars
    BY <1>2 DEF Forward, MiningStarts, MiningEnds, vars
  <2>2. calls' = calls
    BY <1>1, <1>2, CallsStayTyped DEF Forward, MiningStarts, MiningEnds, vars, forwardVars
  <2> QED BY <1>1, <2>1, <2>2, OthersKeepVerdict
<1>3. CASE Mine \/ Infer
  <2>1. UNCHANGED requestVars /\ \E call : calls' = Append(calls, call)
    BY <1>3 DEF Mine, Infer, OtherCall, Send
  <2> QED BY <1>1, <2>1, OthersKeepVerdict
<1>4. CASE ChunkAnswered
  <2>1. /\ point = "await" /\ point' = "chunk"
        /\ UNCHANGED <<faults, lost, response>>
    BY <1>4 DEF ChunkAnswered, forwardVars
  <2>2. Fresh' /\ AwaitsChunk' /\ Stands'
    BY <2>1 DEF VerdictInv, Fresh, AwaitsChunk, Stands
  <2>3. ASSUME faults' < Tp PROVE Collected'
    <3>1. Data /\ Collected
      BY <2>1, <2>3 DEF Repro, VerdictInv
    <3> QED BY <1>4, <3>1, AnswerExtends DEF VerdictInv
  <2> QED BY <2>2, <2>3 DEF VerdictInv
<1> QED BY <1>2, <1>3, <1>4, ArriveKeepsVerdict, HandlerKeepsVerdict DEF Next, Handler

(* A sequence whose entries have places of their own is no longer than the places. *)
LEMMA NoOftener ==
  ASSUME NEW S, NEW T, IsFiniteSet(T), NEW f \in [S -> T],
         \A i, j \in S : f[i] = f[j] => i = j
  PROVE  IsFiniteSet(S) /\ Cardinality(S) <= Cardinality(T)
<1>1. f \in Injection(S, T)
  BY DEF Injection, IsInjective
<1> QED BY <1>1, FS_Injection

LEMMA VerdictHolds ==
  ASSUME ValidationTypes, VerdictInv, faults < Tp, FraudNum <= FraudDen
  PROVE  VerdictIsRight
<1> DEFINE q == body.nonces
           claims == body.claims
           bad == {i \in DOMAIN computed : LET a == computed[i]
                                           IN claims[a.nonce] # "empty" /\ Differs(claims[a.nonce], a)}
           k == Cardinality(bad)
           idx == clean_idx(bad)
           mm == response.mismatch_nonces
           had == {computed[i].nonce : i \in DOMAIN computed}
           named == Range(mm)
           Times(seq, n) == Cardinality({i \in DOMAIN seq : seq[i] = n})
<1> SUFFICES ASSUME response.status = "verdict"
             PROVE  /\ named = {n \in had : claims[n] \notin {"honest", "empty"}}
                    /\ \A n \in named : Times(mm, n) <= Times(q, n)
                    /\ response.n_mismatch <= response.n_total
                    /\ response.fraud_detected => named # {}
                    /\ lost = 0 /\ body.batch_size > 0 => had = Range(q)
  BY DEF VerdictIsRight
<1>1. /\ point = "done" /\ ~HasChunk /\ Collected
      /\ response = run_validation(computed, claims, Len(q))
  BY DEF VerdictInv, Stands
<1>2. PICK g : Places(g)
  BY <1>1 DEF Collected
<1>3. /\ q \in Seq(Nonces) /\ DOMAIN q = 1..Len(q) /\ Len(q) \in Nat
      /\ body.batch_size \in Int /\ next \in Nat
  BY BodyIsTyped, LenProperties DEF ValidationTypes, RequestTypes
<1>4. IsFiniteSet(DOMAIN q) /\ Cardinality(DOMAIN q) = Len(q)
  BY <1>3, FS_Interval
<1>5. /\ \A i \in DOMAIN computed : g[i] \in DOMAIN q /\ computed[i].nonce = q[g[i]]
      /\ \A i, j \in DOMAIN computed : g[i] = g[j] => i = j
  BY <1>2 DEF Places, Reached
<1>6. /\ \E A : computed \in Seq(A)
      /\ \A i \in DOMAIN computed : computed[i].vector = Reference(OwnHash, Key, computed[i].nonce)
  BY <1>1 DEF Collected, Genuine
<1>7. DOMAIN computed \in SUBSET Nat
  BY <1>6, LenProperties
<1>8. \A i : i \in bad <=> i \in DOMAIN computed /\ claims[computed[i].nonce] \notin {"honest", "empty"}
  BY <1>6 DEF Differs, Near
<1>9. validate_artifacts(computed, claims) = Keep(computed, bad)
  BY DEF validate_artifacts
<1>95. ~Undecodable(computed, claims)
  BY <1>1 DEF run_validation, Error
<1> HIDE DEF bad
<1>10. IsFiniteSet(bad) /\ k <= Len(q) /\ bad \in SUBSET Nat
  <2>1. [i \in bad |-> g[i]] \in [bad -> DOMAIN q]
    BY <1>5, <1>8
  <2>2. \A i, j \in bad : [x \in bad |-> g[x]][i] = [x \in bad |-> g[x]][j] => i = j
    BY <1>5, <1>8
  <2>3. IsFiniteSet(bad) /\ Cardinality(bad) <= Cardinality(DOMAIN q)
    BY <1>4, <2>1, <2>2, NoOftener
  <2> QED BY <1>4, <1>7, <1>8, <2>3
<1>11. /\ k \in Nat /\ DOMAIN Keep(computed, bad) = 1..k
       /\ idx \in [1..k -> bad]
       /\ \A i, j \in 1..k : i < j => idx[i] < idx[j]
       /\ \A x \in bad : \E i \in 1..k : idx[i] = x
       /\ \A i \in 1..k : Keep(computed, bad)[i] = computed[idx[i]]
  BY <1>10, KeepIsEnumeration
<1>12. Len(Keep(computed, bad)) = k
  <2>1. Keep(computed, bad) = [i \in 1..k |-> computed[idx[i]]]
    BY DEF Keep
  <2>2. Keep(computed, bad) \in [1..k -> {computed[i] : i \in bad}]
    BY <1>11, <2>1
  <2>3. Keep(computed, bad) \in Seq({computed[i] : i \in bad})
    BY <1>11, <2>2, SeqDef
  <2> QED BY <1>11, <2>3, LenProperties
<1>13. /\ response.n_mismatch = k /\ response.n_total = Len(q)
       /\ mm = [i \in 1..k |-> computed[idx[i]].nonce]
       /\ response.fraud_detected = fraud_test(k, Len(q))
  <2>1. response = [status |-> "verdict", n_total |-> Len(q), n_mismatch |-> k,
                    mismatch_nonces |-> [i \in DOMAIN Keep(computed, bad) |-> Keep(computed, bad)[i].nonce],
                    fraud_detected |-> fraud_test(k, Len(q))]
    BY <1>1, <1>9, <1>95, <1>12 DEF run_validation
  <2>2. [i \in DOMAIN Keep(computed, bad) |-> Keep(computed, bad)[i].nonce]
          = [i \in 1..k |-> computed[idx[i]].nonce]
    <3>1. \A i \in 1..k : Keep(computed, bad)[i].nonce = computed[idx[i]].nonce
      BY <1>11
    <3> QED BY <1>11, <3>1
  <2> QED BY <2>1, <2>2
<1>14. \A i, j \in 1..k : idx[i] = idx[j] => i = j
  <2> SUFFICES ASSUME NEW i \in 1..k, NEW j \in 1..k, idx[i] = idx[j] PROVE i = j
    OBVIOUS
  <2>1. idx[i] \in Nat /\ idx[j] \in Nat
    BY <1>10, <1>11
  <2>2. ~(i < j) /\ ~(j < i)
    BY <1>11, <2>1
  <2> QED BY <1>11, <2>2
<1> HIDE DEF k, idx, mm
<1>15. named = {n \in had : claims[n] \notin {"honest", "empty"}}
  <2>1. \A n : n \in named <=> \E i \in 1..k : n = computed[idx[i]].nonce
    BY <1>13 DEF Range
  <2>2. \A n : n \in named <=> \E i \in bad : n = computed[i].nonce
    BY <1>11, <2>1
  <2> QED BY <1>8, <2>2
<1>16. ASSUME NEW n PROVE Times(mm, n) <= Times(q, n)
  <2> DEFINE S == {i \in DOMAIN mm : mm[i] = n}
             T == {p \in DOMAIN q : q[p] = n}
             f == [i \in S |-> g[idx[i]]]
  <2>1. \A i \in S : i \in 1..k /\ idx[i] \in DOMAIN computed /\ computed[idx[i]].nonce = n
    BY <1>8, <1>11, <1>13
  <2>2. \A i \in S : g[idx[i]] \in T
    BY <1>5, <2>1
  <2>3. \A i, j \in S : g[idx[i]] = g[idx[j]] => i = j
    BY <1>5, <1>14, <2>1
  <2>4. IsFiniteSet(T)
    BY <1>4, FS_Subset
  <2> HIDE DEF S, T
  <2>5. f \in [S -> T] /\ \A i, j \in S : f[i] = f[j] => i = j
    BY <2>2, <2>3
  <2>6. Cardinality(S) <= Cardinality(T)
    BY <2>4, <2>5, NoOftener
  <2> QED BY <2>6 DEF S, T
<1>17. response.n_mismatch <= response.n_total
  BY <1>10, <1>13 DEF k
<1>18. response.fraud_detected => named # {}
  <2> SUFFICES ASSUME named = {} PROVE ~fraud_test(k, Len(q))
    BY <1>13
  <2>1. bad = {}
    BY <1>8, <1>15
  <2>2. k = 0
    BY <2>1, FS_EmptySet DEF k
  <2> QED BY <1>3, <2>2, NoMismatchNoFraud
<1>19. ASSUME lost = 0, body.batch_size > 0 PROVE had = Range(q)
  <2>1. \A p \in DOMAIN q : p <= next
    BY <1>1, <1>3, <1>19 DEF HasChunk
  <2>2. \A p \in DOMAIN q : \E i \in DOMAIN computed : computed[i].nonce = q[p]
    BY <1>1, <1>19, <2>1 DEF Collected, Whole, Reached
  <2> QED BY <1>5, <2>2 DEF Range
<1> QED BY <1>15, <1>16, <1>17, <1>18, <1>19

(* validation.py: a verdict names exactly the nonces that were computed and whose claim is *)
(* bad, none oftener than it was asked for; with no mismatch there is no fraud, and with no *)
(* row lost all that was claimed is compared; for every request whose fraud_threshold is at *)
(* most one, as long as fewer ranks raised than a stage has.                                *)
THEOREM VerdictsAreRight ==
  ASSUME FraudNum <= FraudDen
  PROVE  Spec => [](faults < Tp => VerdictIsRight)
<1>1. ValidationTypes /\ VerdictInv => (faults < Tp => VerdictIsRight)
  BY VerdictHolds
<1> QED BY <1>1, ReproInit, ReproNext, SparedInit, SparedNext, VerdictInvInit,
           VerdictInvNext, ValidationTypesInit, ValidationTypesNext, PTL DEF Spec

(* The same without a condition on the state: no rank can raise, or fewer can than a stage *)
(* has.                                                                                    *)
THEOREM FewFaultsJudgeRight ==
  ASSUME FraudNum <= FraudDen, FaultAt = {} \/ MaxMishaps < Tp
  PROVE  Spec => []VerdictIsRight
<1>1. ValidationTypes /\ VerdictInv /\ Harmless => VerdictIsRight
  BY FewFaults, VerdictHolds
<1> QED BY <1>1, HarmlessInit, HarmlessNext, ReproInit, ReproNext, SparedInit, SparedNext, VerdictInvInit,
           VerdictInvNext, ValidationTypesInit, ValidationTypesNext, PTL DEF Spec
================================================================================
