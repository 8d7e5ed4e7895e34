------------------------------- MODULE KvLayout --------------------------------
(* Where a PoC forward writes and reads K/V: a lease that the engine core cuts
   out of the one block pool, and the slot mapping and block table that the
   worker derives from it (or without one, in place) for every attention group.

   The pool is shared by all groups: in a group with manager block m, pool block
   b is the slot range b*m .. b*m+m-1 and the kernel blocks b*r .. b*r+r-1, with
   r = m/g and g the group's kernel block.  Other requests take and free blocks
   all the time. *)
EXTENDS Integers, Sequences, FiniteSets, Functions

CONSTANTS NumBlocks,  \* pool blocks 0 .. NumBlocks-1; 0 is the null block
          Groups,     \* <<g, m>> of each attention group
          MaxBatch,   \* bound: nonces of a forward
          MaxSeq      \* bound: tokens of a nonce

(* vLLM splits a manager block evenly into kernel blocks. *)
ASSUME LayoutAssumption ==
  /\ NumBlocks \in Nat \ {0} /\ MaxBatch \in Nat /\ MaxSeq \in Nat
  /\ IsFiniteSet(Groups) /\ Groups # {}
  /\ Groups \subseteq (Nat \ {0}) \X (Nat \ {0})
  /\ \A G \in Groups : G[2] % G[1] = 0

VARIABLES
  live,     \* the pool blocks of inference requests
  lease,    \* block_ids, <<>> on the in-place path
  stripe,   \* blocks_per_seq
  lent,     \* num_nonces and seq_len the reservation asked for, <<0, 0>> if none
  batch,    \* nonces of the chunk being laid out
  layouts,  \* of the groups laid out so far: slot mapping and block table
  failed    \* a guard of _borrowed_layout raised

vars == <<live, lease, stripe, lent, batch, layouts, failed>>

Pool == 1 .. NumBlocks - 1

CeilDiv(a, b) == (a + b - 1) \div b

TypeOK ==
  /\ live \in SUBSET Pool
  /\ lease \in Seq(Pool)
  /\ stripe \in Nat
  /\ lent \in Nat \X Nat
  /\ batch \in 0 .. lent[1]
  /\ DOMAIN layouts \subseteq Groups
  /\ failed \in BOOLEAN

Init ==
  /\ live \in SUBSET Pool
  /\ lease = <<>> /\ stripe = 0 /\ lent = <<0, 0>>
  /\ batch = 0 /\ layouts = <<>> /\ failed = FALSE

--------------------------------------------------------------------------------
(* The layouts: slots by sequence and token, kernel block ids by sequence and
   table column, all counted from 0. *)

Cells(n, w) == (0 .. n - 1) \X (0 .. w - 1)

\* Mutant: the lanes follow each other without the stripe.
LanePacked(i, k) == lease[i + k + 1]

\* Block k of the lane of sequence i.
Lane(i, k) == lease[i * stripe + k + 1]

\* Mutant: a pool id is used as a kernel id in the slots.
BorrowedRaw(g, m, n, s) ==
  [slots |-> [p \in Cells(n, s) |-> Lane(p[1], p[2] \div m) * g + (p[2] % g)],
   table |-> [p \in Cells(n, CeilDiv(s, m) * (m \div g)) |-> Lane(p[1], p[2] \div (m \div g))]]

\* Mutant: ... in the table only.
BorrowedRawTable(g, m, n, s) ==
  [slots |-> [p \in Cells(n, s) |-> Lane(p[1], p[2] \div m) * m + (p[2] % m)],
   table |-> [p \in Cells(n, CeilDiv(s, m) * (m \div g)) |-> Lane(p[1], p[2] \div (m \div g))]]

\* _borrowed_layout, the guards passed.
Borrowed(g, m, n, s) ==
  LET r == m \div g
  IN  [slots |-> [p \in Cells(n, s) |-> Lane(p[1], p[2] \div m) * m + (p[2] % m)],
       table |-> [p \in Cells(n, CeilDiv(s, m) * r) |-> Lane(p[1], p[2] \div r) * r + (p[2] % r)]]

\* _inplace_layout: kernel blocks 1, 2, ... in the order of the sequences.
InPlace(g, n, s) ==
  LET bps == CeilDiv(s, g)
  IN  [slots |-> [p \in Cells(n, s) |-> g + p[1] * (bps * g) + p[2]],
       table |-> [p \in Cells(n, bps) |-> 1 + p[1] * bps + p[2]]]

--------------------------------------------------------------------------------
(* The engine core. *)

Free == Pool \ (live \cup Range(lease))

\* ceil(seq_len / block_size_g) of every group, and the largest.
BlocksPerSeq(s) == {CeilDiv(s, G[2]) : G \in Groups}

\* Mutant: sized for one group, as the frontend's cache_config.block_size does.
SmallestOf(S) == {b \in S : \A c \in S : b <= c}

MaxOf(S) == {b \in S : \A c \in S : c <= b}

Idle == lent = <<0, 0>>

\* gonka_poc_borrow_blocks: any free blocks, in any order.
Borrow(n, s) ==
  /\ Idle
  /\ \E b \in MaxOf(BlocksPerSeq(s)) :
       /\ stripe' = b
       /\ n * b > 0 /\ n * b <= Cardinality(Free)
       /\ \E ids \in [1 .. n * b -> Free] : IsInjective(ids) /\ lease' = ids
  /\ lent' = <<n, s>>
  /\ UNCHANGED <<live, batch, layouts, failed>>

\* A mining round, or a validation that got no lease.
WorkInPlace(n, s) ==
  /\ Idle
  /\ lent' = <<n, s>>
  /\ UNCHANGED <<live, lease, stripe, batch, layouts, failed>>

\* No forward is under way: the engine core runs one call at a time.
Settled == batch = 0 \/ failed \/ DOMAIN layouts = Groups

\* The reservation is over; the lease, if there is one, is returned.
Return ==
  /\ ~Idle /\ Settled
  /\ lease' = <<>> /\ stripe' = 0 /\ lent' = <<0, 0>>
  /\ batch' = 0 /\ layouts' = <<>> /\ failed' = FALSE
  /\ UNCHANGED live

Allocate(b) == b \in Free /\ live' = live \cup {b}
                /\ UNCHANGED <<lease, stripe, lent, batch, layouts, failed>>

Release(b) == b \in live /\ live' = live \ {b}
               /\ UNCHANGED <<lease, stripe, lent, batch, layouts, failed>>

--------------------------------------------------------------------------------
(* The worker: _create_v1_attn_metadata for each chunk. *)

\* The chunks of a job are of its batch size, the last one may be shorter.
Chunk(n) ==
  /\ ~Idle /\ Settled /\ n \in 1 .. lent[1]
  /\ batch' = n /\ layouts' = <<>> /\ failed' = FALSE
  /\ UNCHANGED <<live, lease, stripe, lent>>

\* The guards of _borrowed_layout.
Fits(g, m, n, s) ==
  /\ m % g = 0
  /\ CeilDiv(s, m) <= stripe
  /\ n * stripe <= Len(lease)

Layout(G) ==
  IF lease = <<>> THEN InPlace(G[1], batch, lent[2]) ELSE Borrowed(G[1], G[2], batch, lent[2])

\* _layout_for_block_size, once for each <<g, m>>; a guard that fails raises.
LayOut(G) ==
  /\ batch > 0 /\ ~failed /\ G \notin DOMAIN layouts
  /\ failed' = (lease # <<>> /\ ~Fits(G[1], G[2], batch, lent[2]))
  /\ layouts' = IF failed' THEN layouts
                ELSE [H \in DOMAIN layouts \cup {G} |-> IF H = G THEN Layout(G) ELSE layouts[H]]
  /\ UNCHANGED <<live, lease, stripe, lent, batch>>

Next ==
  \/ \E n \in 1 .. MaxBatch, s \in 1 .. MaxSeq : Borrow(n, s) \/ WorkInPlace(n, s)
  \/ Return
  \/ \E b \in Pool : Allocate(b) \/ Release(b)
  \/ \E n \in 1 .. MaxBatch : Chunk(n)
  \/ \E G \in Groups : LayOut(G)

Spec == Init /\ [][Next]_vars

--------------------------------------------------------------------------------
(* Properties. *)

Tokens == Cells(batch, lent[2])

(* "validation runs on pool blocks that are provably disjoint from live
   inference": every slot written on a lease, and every kernel block its tables
   name, lies in a leased pool block and in no block of an inference request. *)
LeaseOnly ==
  lease # <<>> => \A G \in DOMAIN layouts :
    LET touched == {layouts[G].slots[p] \div G[2] : p \in DOMAIN layouts[G].slots}
                   \cup {(layouts[G].table[p] * G[1]) \div G[2] : p \in DOMAIN layouts[G].table}
    IN  touched \subseteq Range(lease) \ live

(* "write via slot_mapping, read via block_table": in every group the address a
   kernel derives from the table for a token is the slot the token is written to. *)
ReadsWhatItWrites ==
  \A G \in DOMAIN layouts : \A p \in Tokens :
    layouts[G].table[<<p[1], p[2] \div G[1]>>] * G[1] + (p[2] % G[1]) = layouts[G].slots[p]

(* No two tokens of a forward share a slot. *)
SlotsDistinct ==
  \A G \in DOMAIN layouts : \A p, q \in Tokens :
    layouts[G].slots[p] = layouts[G].slots[q] => p = q

(* The lease that the engine core sizes is large enough for every group of the
   worker and every chunk: the guards of _borrowed_layout never raise. *)
LeaseFitsEveryGroup == ~failed

(* "Block 0 is never used: it is vLLM's null block": no slot of an in-place
   forward lies in pool block 0. *)
NullBlockUntouched ==
  \A G \in DOMAIN layouts : \A p \in Tokens : layouts[G].slots[p] \div G[2] # 0
================================================================================
