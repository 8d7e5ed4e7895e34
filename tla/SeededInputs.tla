------------------------------ MODULE SeededInputs ------------------------------
(* The seeded random numbers of the PoC forward (gpu_random.py): which draws of   *)
(* the hash stream make which entry of which row.  Prover and validator derive    *)
(* them independently, so what has to be right is the indexing and that a row     *)
(* depends on nothing but its own nonce; the numbers themselves are not modelled. *)
(* A seed is the tuple its string is built from, a draw <<seed, index>> is one    *)
(* 32-bit hash, and an entry names the two draws and the branch it is made of.    *)
EXTENDS Integers, Sequences

SubSeeds == 0..7   \* a SHA-256 digest is eight 32-bit numbers

InputSeed(block_hash, public_key, nonce) == <<"nonce", block_hash, public_key, nonce>>

PickSeed(block_hash, public_key, nonce, k) == <<"pick", block_hash, public_key, nonce, k>>

HaarSeed(block_hash, public_key, nonce, k, j) ==
  <<"haar_hh", block_hash, public_key, nonce, k, j>>

LayerSeed(block_hash, layer) == <<"householder", block_hash, layer>>

(* _seed_from_string keeps the first 32 bits of the digest of a seed's string. *)
Hash(seed, index) == <<seed, index>>

Pairs(n) == (n + 1) \div 2

(* Box-Muller: the radius comes from draw u1, the angle from draw u2. *)
Entry(u1, u2, branch) == [u1 |-> u1, u2 |-> u2, branch |-> branch]

(* _normal: the first half of the draws are the radii, the second half the angles; *)
(* the cosines come first, the sines follow, an odd n drops the last sine.         *)
Normal(seed, n) ==
  [i \in 0..(n - 1) |->
     IF i < Pairs(n)
     THEN Entry(Hash(seed, i), Hash(seed, Pairs(n) + i), "cos")
     ELSE Entry(Hash(seed, i - Pairs(n)), Hash(seed, i), "sin")]

(* _batched_normal: one row of draws per seed, cut in two halves whose cosines and *)
(* sines are concatenated column by column.                                        *)
BatchedNormal(seeds, n) ==
  LET u  == [b \in DOMAIN seeds |-> [i \in 0..(2 * Pairs(n) - 1) |-> Hash(seeds[b], i)]]
      z0 == [b \in DOMAIN seeds |->
               [i \in 0..(Pairs(n) - 1) |-> Entry(u[b][i], u[b][Pairs(n) + i], "cos")]]
      z1 == [b \in DOMAIN seeds |->
               [i \in 0..(Pairs(n) - 1) |-> Entry(u[b][i], u[b][Pairs(n) + i], "sin")]]
  IN [b \in DOMAIN seeds |->
        [i \in 0..(n - 1) |-> IF i < Pairs(n) THEN z0[b][i] ELSE z1[b][i - Pairs(n)]]]

(* generate_inputs: a row per nonce, seq_len * dim entries long. *)
Inputs(block_hash, public_key, nonces, n) ==
  [i \in DOMAIN nonces |-> Normal(InputSeed(block_hash, public_key, nonces[i]), n)]

(* generate_inputs_concat_murmur: eight sub-seeds, each fills a segment. *)
SegmentLength(n) == (n + 7) \div 8

Segments(n) == {k \in SubSeeds : k * SegmentLength(n) < n}

Filled(n, k) ==
  LET rest == n - k * SegmentLength(n)
  IN IF SegmentLength(n) < rest THEN SegmentLength(n) ELSE rest

SegmentOf(n, i) == i \div SegmentLength(n)

ConcatNormal(seed, n) ==
  [i \in 0..(n - 1) |->
     LET k == SegmentOf(n, i)
     IN Normal(<<seed, k>>, Filled(n, k))[i - k * SegmentLength(n)]]

InputsConcat(block_hash, public_key, nonces, n) ==
  [i \in DOMAIN nonces |-> ConcatNormal(InputSeed(block_hash, public_key, nonces[i]), n)]

(* derive_pseudo_input_ids: one draw per token, for architectures that route by id. *)
PseudoInputIds(block_hash, public_key, nonces, seq_len) ==
  [i \in DOMAIN nonces |->
     [t \in 0..(seq_len - 1) |->
        Hash(InputSeed(block_hash, public_key, nonces[i]) \o <<"input_ids">>, t)]]

(* random_pick_indices: the k dimensions of smallest score; here the scores.       *)
PickScores(block_hash, public_key, nonces, dim, k) ==
  [i \in DOMAIN nonces |->
     [d \in 0..(dim - 1) |-> Hash(PickSeed(block_hash, public_key, nonces[i], k), d)]]

(* apply_haar_rotation: k - 1 reflections, each along a batch of normal vectors. *)
HaarVectors(block_hash, public_key, nonces, k) ==
  [j \in 0..(k - 2) |->
     BatchedNormal([i \in DOMAIN nonces |-> HaarSeed(block_hash, public_key, nonces[i], k, j)], k)]
================================================================================
