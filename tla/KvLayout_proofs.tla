---------------------------- MODULE KvLayout_proofs ----------------------------
(* Proofs about KvLayout: for every pool, every choice of leased blocks and all
   block sizes, a forward on a lease touches leased blocks only, reads back what
   it wrote, and no two of its tokens collide. *)
EXTENDS KvLayout, Induction

(* A number has one quotient and one remainder. *)
LEMMA DivisionUnique ==
  ASSUME NEW d \in Nat \ {0}, NEW a \in 0 .. d - 1, NEW b \in 0 .. d - 1,
         NEW p \in Nat, NEW q \in Nat, a + p * d = b + q * d
  PROVE  a = b /\ p = q
<1>1. ASSUME NEW m \in Nat, NEW n \in Nat, m < n PROVE n * d >= m * d + d
  <2>1. n * d = (m + (n - m)) * d
    BY <1>1
  <2>2. (m + (n - m)) * d = m * d + (n - m) * d
    BY <1>1
  <2>3. (n - m) * d >= d
    <3>1. n - m \in Nat \ {0}
      BY <1>1
    <3> QED BY <3>1
  <2> QED BY <2>1, <2>2, <2>3
<1>2. p * d \in Nat /\ q * d \in Nat
  OBVIOUS
<1>3. ~(p < q)
  BY <1>1, <1>2
<1>4. ~(q < p)
  BY <1>1, <1>2
<1> QED BY <1>3, <1>4

(* ... and stays so behind a common offset. *)
LEMMA SameOffset ==
  ASSUME NEW g \in Nat, NEW w \in Nat \ {0}, NEW i \in Nat, NEW j \in Nat,
         NEW t \in 0 .. w - 1, NEW u \in 0 .. w - 1, g + i * w + t = g + j * w + u
  PROVE  t = u /\ i = j
<1>1. i * w \in Nat /\ j * w \in Nat
  OBVIOUS
<1>2. t + i * w = u + j * w
  BY <1>1
<1> QED BY <1>2, DivisionUnique

(* The inverse: quotient and remainder of a number that is put together. *)
LEMMA PutTogether ==
  ASSUME NEW d \in Nat \ {0}, NEW q \in Nat, NEW b \in 0 .. d - 1
  PROVE  b + q * d \in Nat /\ (b + q * d) \div d = q /\ (b + q * d) % d = b
<1> DEFINE a == b + q * d
<1>1. a \in Nat
  <2>1. q * d \in Nat
    OBVIOUS
  <2> QED BY <2>1
<1>2. a \div d \in Nat /\ a % d \in 0 .. d - 1 /\ a = (a % d) + (a \div d) * d
  BY <1>1, DivMod
<1>3. (a % d) + (a \div d) * d = b + q * d
  BY <1>2
<1> HIDE DEF a
<1>4. a % d = b /\ a \div d = q
  BY <1>2, <1>3, DivisionUnique
<1> QED BY <1>1, <1>4 DEF a

(* A product keeps the order of a factor. *)
LEMMA Monotonic ==
  ASSUME NEW a \in Nat, NEW b \in Nat, NEW d \in Nat, a <= b
  PROVE  a * d <= b * d
<1>1. b * d = a * d + (b - a) * d
  <2>1. b = a + (b - a) /\ b - a \in Nat
    OBVIOUS
  <2>2. (a + (b - a)) * d = a * d + (b - a) * d
    BY <2>1
  <2> QED BY <2>1, <2>2
<1>2. (b - a) * d \in Nat /\ a * d \in Nat
  <2>1. b - a \in Nat
    OBVIOUS
  <2> QED BY <2>1
<1> QED BY <1>1, <1>2

(* ceil(s/d) blocks of d hold s tokens. *)
LEMMA CeilCovers ==
  ASSUME NEW s \in Nat, NEW d \in Nat \ {0}
  PROVE  CeilDiv(s, d) \in Nat /\ CeilDiv(s, d) * d \in Nat /\ CeilDiv(s, d) * d >= s
<1> DEFINE c == CeilDiv(s, d)
<1>1. s + d - 1 \in Nat
  OBVIOUS
<1>2. c \in Nat /\ s + d - 1 = ((s + d - 1) % d) + c * d /\ (s + d - 1) % d \in 0 .. d - 1
  BY <1>1, DivMod DEF CeilDiv
<1> HIDE DEF c
<1>3. c * d \in Nat
  BY <1>2
<1>4. c \in Nat /\ c * d \in Nat /\ c * d >= s
  BY <1>2, <1>3
<1> QED BY <1>4 DEF c

(* A token below s falls into one of the first ceil(s/d) blocks. *)
LEMMA TokenBlock ==
  ASSUME NEW s \in Nat, NEW d \in Nat \ {0}, NEW t \in 0 .. s - 1
  PROVE  t \div d \in 0 .. CeilDiv(s, d) - 1
<1> DEFINE c == CeilDiv(s, d)
           q == t \div d
<1>1. c \in Nat /\ c * d \in Nat /\ c * d >= s
  BY CeilCovers
<1>2. t \in Nat
  OBVIOUS
<1>3. q \in Nat /\ t = (t % d) + q * d /\ t % d \in 0 .. d - 1
  BY <1>2, DivMod
<1> HIDE DEF c, q
<1>4. ASSUME c <= q PROVE FALSE
  <2>1. c * d <= q * d
    BY <1>1, <1>3, <1>4, Monotonic
  <2>2. q * d \in Nat
    BY <1>3
  <2> QED BY <1>1, <1>3, <2>1, <2>2
<1>5. q \in 0 .. c - 1
  BY <1>1, <1>3, <1>4
<1> QED BY <1>5 DEF c, q

(* Dividing by g and the quotient by r is dividing by r*g. *)
LEMMA SplitToken ==
  ASSUME NEW t \in Nat, NEW g \in Nat \ {0}, NEW r \in Nat \ {0}
  PROVE  /\ (t \div g) \div r = t \div (r * g)
         /\ (t % g) + ((t \div g) % r) * g = t % (r * g)
<1> DEFINE k == t \div g
           a == t % g
           q == k \div r
           c == k % r
           m == r * g
<1>1. k \in Nat /\ a \in 0 .. g - 1 /\ t = a + k * g
  BY DivMod
<1>2. q \in Nat /\ c \in 0 .. r - 1 /\ k = c + q * r
  BY <1>1, DivMod
<1>3. m \in Nat \ {0}
  OBVIOUS
<1> HIDE DEF k, a, q, c
<1>4. t = (a + c * g) + q * m
  <2>1. (c + q * r) * g = c * g + (q * r) * g
    BY <1>2
  <2>2. (q * r) * g = q * (r * g)
    BY <1>2
  <2>3. (q * r) * g \in Nat /\ c * g \in Nat
    BY <1>2
  <2> QED BY <1>1, <1>2, <2>1, <2>2, <2>3
<1>5. a + c * g \in 0 .. m - 1
  <2>1. c + 1 <= r /\ c + 1 \in Nat
    BY <1>2
  <2>2. (c + 1) * g <= r * g
    BY <2>1, Monotonic
  <2>3. (c + 1) * g = c * g + g /\ c * g \in Nat
    BY <1>2
  <2> QED BY <1>1, <2>2, <2>3
<1> HIDE DEF m
<1>6. t \div m = q /\ t % m = a + c * g
  BY <1>2, <1>3, <1>4, <1>5, PutTogether
<1> QED BY <1>6 DEF k, a, q, c, m

--------------------------------------------------------------------------------
(* The invariant: the lease is a set of distinct blocks that no request holds,
   sized for every group, and what is laid out belongs to the current chunk. *)

Sized ==
  lease # <<>> =>
    /\ Len(lease) = lent[1] * stripe
    /\ \A G \in Groups : CeilDiv(lent[2], G[2]) <= stripe

Current ==
  /\ Idle => lease = <<>>
  /\ batch = 0 => DOMAIN layouts = {}
  /\ \A G \in DOMAIN layouts : layouts[G] = Layout(G)

LInv ==
  /\ TypeOK /\ ~failed
  /\ IsInjective(lease) /\ Range(lease) \cap live = {}
  /\ Sized /\ Current

(* The block sizes of a group: m is r kernel blocks of g. *)
LEMMA GroupSizes ==
  ASSUME NEW G \in Groups
  PROVE  /\ G = <<G[1], G[2]>> /\ G[1] \in Nat \ {0} /\ G[2] \in Nat \ {0}
         /\ G[2] \div G[1] \in Nat \ {0} /\ G[2] = (G[2] \div G[1]) * G[1]
<1>1. G = <<G[1], G[2]>> /\ G[1] \in Nat \ {0} /\ G[2] \in Nat \ {0} /\ G[2] % G[1] = 0
  BY LayoutAssumption
<1>2. G[2] \div G[1] \in Nat /\ G[2] = (G[2] % G[1]) + (G[2] \div G[1]) * G[1]
  BY <1>1, DivMod
<1> DEFINE r == G[2] \div G[1]
           g == G[1]
           m == G[2]
<1>3. r \in Nat /\ m = 0 + r * g /\ g \in Nat \ {0} /\ m \in Nat \ {0}
  BY <1>1, <1>2
<1> HIDE DEF r, g, m
<1>4. r # 0 /\ m = r * g
  BY <1>3
<1> QED BY <1>1, <1>2, <1>4 DEF r, g, m

(* Nothing is leased and nothing laid out at first. *)
LEMMA InitInv == Init => LInv
<1> SUFFICES ASSUME Init PROVE LInv
  OBVIOUS
<1>1. lease = <<>> /\ Range(lease) = {} /\ DOMAIN layouts = {}
  BY DEF Init, Range
<1>2. lease \in Seq(Pool) /\ lent[1] = 0 /\ lent \in Nat \X Nat /\ batch \in 0 .. lent[1]
  BY DEF Init
<1>3. TypeOK /\ ~failed
  BY <1>1, <1>2 DEF Init, TypeOK
<1>4. IsInjective(lease) /\ Sized /\ Current
  BY <1>1 DEF Init, IsInjective, Sized, Current
<1> QED BY <1>1, <1>3, <1>4 DEF LInv

(* The engine core lends distinct free blocks, enough for the largest group. *)
LEMMA BorrowInv ==
  ASSUME LInv, NEW n \in 1 .. MaxBatch, NEW s \in 1 .. MaxSeq, Borrow(n, s)
  PROVE  LInv'
<1>0. n \in Nat /\ s \in Nat
  BY LayoutAssumption
<1>1. PICK b \in MaxOf(BlocksPerSeq(s)) :
        /\ stripe' = b
        /\ n * b > 0 /\ n * b <= Cardinality(Free)
        /\ \E ids \in [1 .. n * b -> Free] : IsInjective(ids) /\ lease' = ids
  BY DEF Borrow
<1>2. b \in Nat /\ \A G \in Groups : CeilDiv(s, G[2]) <= b
  BY <1>0, GroupSizes, CeilCovers DEF MaxOf, BlocksPerSeq
<1>3. lease' \in [1 .. n * b -> Free] /\ IsInjective(lease')
  BY <1>1
<1>4. n * b \in Nat
  BY <1>0, <1>2
<1>5. lease' \in Seq(Pool) /\ Len(lease') = n * b /\ lease' # <<>>
  BY <1>1, <1>3, <1>4 DEF Free
<1>6. Range(lease') \subseteq Free
  BY <1>3 DEF Range
<1>7. lent = <<0, 0>> /\ lent' = <<n, s>> /\ UNCHANGED <<live, batch, layouts, failed>>
  BY DEF Borrow, Idle
<1>8. batch = 0 /\ DOMAIN layouts = {}
  BY <1>7 DEF LInv, TypeOK, Current
<1>9. TypeOK'
  BY <1>0, <1>1, <1>2, <1>5, <1>7, <1>8 DEF LInv, TypeOK
<1>10. Range(lease') \cap live' = {}
  BY <1>6, <1>7 DEF Free
<1>11. Sized'
  BY <1>1, <1>2, <1>5, <1>7 DEF Sized
<1>12. Current'
  BY <1>0, <1>7, <1>8 DEF Current, Idle
<1> QED BY <1>3, <1>7, <1>9, <1>10, <1>11, <1>12 DEF LInv

(* A lease that holds the largest group's blocks fits every group and every
   chunk: no guard raises. *)
LEMMA LayOutInv ==
  ASSUME LInv, NEW G \in Groups, LayOut(G)
  PROVE  LInv'
<1>1. UNCHANGED <<live, lease, stripe, lent, batch>> /\ batch > 0
  BY DEF LayOut
<1>2. ASSUME lease # <<>> PROVE Fits(G[1], G[2], batch, lent[2])
  <2>1. G[2] % G[1] = 0 /\ CeilDiv(lent[2], G[2]) <= stripe /\ Len(lease) = lent[1] * stripe
    BY <1>2, LayoutAssumption DEF LInv, Sized
  <2>2. batch \in Nat /\ lent[1] \in Nat /\ stripe \in Nat /\ batch <= lent[1]
    BY DEF LInv, TypeOK
  <2>3. batch * stripe <= lent[1] * stripe
    BY <2>2, Monotonic
  <2> QED BY <2>1, <2>3 DEF Fits
<1>3. failed' = FALSE
  BY <1>2 DEF LayOut
<1>4. layouts' = [H \in DOMAIN layouts \cup {G} |-> IF H = G THEN Layout(G) ELSE layouts[H]]
  BY <1>3 DEF LayOut
<1>5. \A H : Layout(H)' = Layout(H)
  BY <1>1 DEF Layout, Borrowed, Lane
<1>6. Current'
  BY <1>1, <1>4, <1>5 DEF LInv, TypeOK, Current, Idle
<1> QED BY <1>1, <1>3, <1>4, <1>6 DEF LInv, TypeOK, Sized, IsInjective, Range

(* LInv is inductive: borrowing, laying out, returning and the requests that
   take and free blocks meanwhile all keep it. *)
THEOREM LInvInductive == Spec => []LInv
<1>1. LInv /\ [Next]_vars => LInv'
  <2> SUFFICES ASSUME LInv, [Next]_vars PROVE LInv'
    OBVIOUS
  <2>1. ASSUME NEW n \in 1 .. MaxBatch, NEW s \in 1 .. MaxSeq, WorkInPlace(n, s) PROVE LInv'
    <3>1. n \in Nat /\ s \in Nat
      BY LayoutAssumption
    <3>2. /\ lent = <<0, 0>> /\ lent' = <<n, s>> /\ lease = <<>> /\ batch = 0 /\ DOMAIN layouts = {}
          /\ UNCHANGED <<live, lease, stripe, batch, layouts, failed>>
      BY <2>1 DEF WorkInPlace, Idle, LInv, TypeOK, Current
    <3>3. TypeOK' /\ ~failed'
      BY <3>1, <3>2 DEF LInv, TypeOK
    <3>4. IsInjective(lease') /\ Range(lease') \cap live' = {} /\ Sized' /\ Current'
      BY <3>2 DEF LInv, IsInjective, Range, Sized, Current
    <3> QED BY <3>3, <3>4 DEF LInv
  <2>2. CASE Return
    <3>1. /\ lease' = <<>> /\ stripe' = 0 /\ lent' = <<0, 0>> /\ batch' = 0 /\ layouts' = <<>>
          /\ failed' = FALSE /\ live' = live
      BY <2>2 DEF Return
    <3>2. Range(lease') = {} /\ DOMAIN layouts' = {}
      BY <3>1 DEF Range
    <3>3. lease' \in Seq(Pool) /\ lent'[1] = 0 /\ lent' \in Nat \X Nat /\ batch' \in 0 .. lent'[1]
      BY <3>1
    <3>4. TypeOK' /\ ~failed'
      BY <3>1, <3>2, <3>3 DEF LInv, TypeOK
    <3>5. IsInjective(lease') /\ Sized' /\ Current'
      BY <3>1, <3>2 DEF IsInjective, Sized, Current
    <3> QED BY <3>2, <3>4, <3>5 DEF LInv
  <2>3. ASSUME NEW b \in Pool, Allocate(b) \/ Release(b) PROVE LInv'
    <3>1. /\ UNCHANGED <<lease, stripe, lent, batch, layouts, failed>>
          /\ live' \subseteq Pool /\ Range(lease) \cap live' = {}
      BY <2>3 DEF Allocate, Release, Free, LInv, TypeOK
    <3>2. \A H : Layout(H)' = Layout(H)
      BY <3>1 DEF Layout, Borrowed, Lane
    <3> QED BY <3>1, <3>2 DEF LInv, TypeOK, Sized, Current, Idle, IsInjective, Range
  <2>4. ASSUME NEW n \in 1 .. MaxBatch, Chunk(n) PROVE LInv'
    <3>1. /\ UNCHANGED <<live, lease, stripe, lent>> /\ ~Idle /\ n \in 1 .. lent[1]
          /\ batch' = n /\ layouts' = <<>> /\ failed' = FALSE
      BY <2>4 DEF Chunk
    <3>2. DOMAIN layouts' = {}
      BY <3>1
    <3>3. lent[1] \in Nat /\ n \in 0 .. lent[1]
      BY <3>1 DEF LInv, TypeOK
    <3>4. TypeOK' /\ ~failed'
      BY <3>1, <3>2, <3>3 DEF LInv, TypeOK
    <3>5. IsInjective(lease') /\ Range(lease') \cap live' = {} /\ Sized'
      BY <3>1 DEF LInv, IsInjective, Range, Sized
    <3>6. Current'
      BY <3>1, <3>2, <3>3 DEF LInv, Current, Idle
    <3> QED BY <3>4, <3>5, <3>6 DEF LInv
  <2>5. CASE UNCHANGED vars
    <3>1. \A H : Layout(H)' = Layout(H)
      BY <2>5 DEF vars, Layout, Borrowed, Lane
    <3> QED BY <2>5, <3>1 DEF vars, LInv, TypeOK, Sized, Current, Idle, IsInjective, Range
  <2> QED BY <2>1, <2>2, <2>3, <2>4, <2>5, BorrowInv, LayOutInv DEF Next
<1> QED BY <1>1, InitInv, PTL DEF Spec

(* Every variable keeps its type: a lease is a sequence of pool blocks and never
   holds the null block. *)
THEOREM LayoutTypes == Spec => []TypeOK
BY LInvInductive, PTL DEF LInv

(* The lease that gonka_poc_borrow_blocks sizes in the engine core satisfies the
   guards of _borrowed_layout in the worker for every group. *)
THEOREM LeaseFits == Spec => []LeaseFitsEveryGroup
<1>1. LInv => LeaseFitsEveryGroup
  BY DEF LInv, LeaseFitsEveryGroup
<1> QED BY <1>1, LInvInductive, PTL

--------------------------------------------------------------------------------
(* Addresses. *)

(* What is known of every group that is laid out. *)
LEMMA Known ==
  ASSUME LInv, NEW G \in DOMAIN layouts
  PROVE  /\ G \in Groups /\ layouts[G] = Layout(G)
         /\ batch \in Nat /\ lent[1] \in Nat /\ lent[2] \in Nat /\ stripe \in Nat
         /\ batch <= lent[1]
BY DEF LInv, TypeOK, Current

(* The lane of a sequence lies in the lease, and no two lanes share a block. *)
LEMMA LaneInLease ==
  ASSUME LInv, lease # <<>>, NEW i \in 0 .. batch - 1, NEW k \in 0 .. stripe - 1
  PROVE  /\ i * stripe + k + 1 \in DOMAIN lease
         /\ Lane(i, k) \in Range(lease) /\ Lane(i, k) \in Nat
<1>1. /\ batch \in Nat /\ lent[1] \in Nat /\ stripe \in Nat /\ batch <= lent[1]
      /\ lease \in Seq(Pool) /\ Len(lease) = lent[1] * stripe
  BY DEF LInv, TypeOK, Sized
<1>2. i + 1 \in Nat /\ i \in Nat /\ k \in Nat /\ i + 1 <= lent[1]
  BY <1>1
<1>3. (i + 1) * stripe <= lent[1] * stripe
  BY <1>1, <1>2, Monotonic
<1>4. (i + 1) * stripe = i * stripe + stripe /\ i * stripe \in Nat
  BY <1>1, <1>2
<1>5. i * stripe + k + 1 \in 1 .. Len(lease)
  BY <1>1, <1>2, <1>3, <1>4
<1>6. DOMAIN lease = 1 .. Len(lease) /\ \A n \in 1 .. Len(lease) : lease[n] \in Pool
  BY <1>1
<1>7. Pool \subseteq Nat
  BY LayoutAssumption DEF Pool
<1> QED BY <1>5, <1>6, <1>7 DEF Lane, Range

(* The blocks of a lease are distinct, so no two stripes share one. *)
LEMMA LanesDistinct ==
  ASSUME LInv, lease # <<>>,
         NEW i \in 0 .. batch - 1, NEW k \in 0 .. stripe - 1,
         NEW j \in 0 .. batch - 1, NEW l \in 0 .. stripe - 1,
         Lane(i, k) = Lane(j, l)
  PROVE  i = j /\ k = l
<1>1. stripe \in Nat \ {0} /\ i \in Nat /\ j \in Nat
  BY DEF LInv, TypeOK
<1>2. i * stripe + k + 1 = j * stripe + l + 1
  BY LaneInLease DEF LInv, IsInjective, Lane
<1>3. k + i * stripe = l + j * stripe
  <2>1. i * stripe \in Nat /\ j * stripe \in Nat
    BY <1>1
  <2> QED BY <1>2, <2>1
<1> QED BY <1>1, <1>3, DivisionUnique

(* The slot of a token on a lease: its pool block and the offset in it. *)
LEMMA BorrowedSlot ==
  ASSUME LInv, lease # <<>>, NEW G \in DOMAIN layouts, NEW p \in Tokens
  PROVE  LET m == G[2] IN
         /\ p[2] \div m \in 0 .. stripe - 1 /\ p[2] % m \in 0 .. m - 1
         /\ layouts[G].slots[p] = (p[2] % m) + Lane(p[1], p[2] \div m) * m
<1> DEFINE m == G[2]
           q == p[2] \div m
<1>1. /\ G \in Groups /\ layouts[G] = Layout(G) /\ m \in Nat \ {0}
      /\ lent[2] \in Nat /\ stripe \in Nat
  BY Known, GroupSizes
<1>2. p[1] \in 0 .. batch - 1 /\ p[2] \in 0 .. lent[2] - 1 /\ p[2] \in Nat
  BY <1>1 DEF Tokens, Cells
<1>3. q \in 0 .. CeilDiv(lent[2], m) - 1 /\ CeilDiv(lent[2], m) \in Nat
  BY <1>1, <1>2, TokenBlock, CeilCovers
<1>4. CeilDiv(lent[2], m) <= stripe
  BY <1>1 DEF LInv, Sized
<1>5. q \in 0 .. stripe - 1
  <2> HIDE DEF q, m
  <2> QED BY <1>1, <1>3, <1>4
<1>6. p[2] % m \in 0 .. m - 1
  BY <1>1, <1>2, DivMod
<1>7. layouts[G].slots[p] = Lane(p[1], q) * m + (p[2] % m)
  BY <1>1 DEF Layout, Borrowed, Tokens
<1>8. Lane(p[1], q) \in Nat
  BY <1>2, <1>5, LaneInLease
<1>9. Lane(p[1], q) * m \in Nat
  <2> HIDE DEF q
  <2> QED BY <1>1, <1>8
<1> QED BY <1>5, <1>6, <1>7, <1>9

(* The table entry of a column: its pool block and the kernel block in it. *)
LEMMA BorrowedEntry ==
  ASSUME LInv, lease # <<>>, NEW G \in DOMAIN layouts, NEW p \in DOMAIN layouts[G].table
  PROVE  LET r == G[2] \div G[1] IN
         /\ p[1] \in 0 .. batch - 1 /\ p[2] \in Nat
         /\ p[2] \div r \in 0 .. stripe - 1 /\ p[2] % r \in 0 .. r - 1
         /\ layouts[G].table[p] = (p[2] % r) + Lane(p[1], p[2] \div r) * r
<1> DEFINE m == G[2]
           r == G[2] \div G[1]
           c == CeilDiv(lent[2], m)
           q == p[2] \div r
<1>1. /\ G \in Groups /\ layouts[G] = Layout(G) /\ m \in Nat \ {0} /\ r \in Nat \ {0}
      /\ lent[2] \in Nat /\ stripe \in Nat /\ batch \in Nat
  BY Known, GroupSizes
<1>2. layouts[G] = Borrowed(G[1], m, batch, lent[2])
  BY <1>1 DEF Layout
<1>3. c \in Nat /\ c <= stripe
  BY <1>1, CeilCovers DEF LInv, Sized
<1>4. p \in Cells(batch, c * r) /\ layouts[G].table[p] = Lane(p[1], q) * r + (p[2] % r)
  BY <1>2 DEF Borrowed
<1> HIDE DEF c, r, m
<1>5. c * r \in Nat
  BY <1>1, <1>3
<1>6. p[1] \in 0 .. batch - 1 /\ p[2] \in 0 .. c * r - 1 /\ p[2] \in Nat
  BY <1>4, <1>5 DEF Cells
<1>7. q \in Nat /\ p[2] = (p[2] % r) + q * r /\ p[2] % r \in 0 .. r - 1
  BY <1>1, <1>6, DivMod
<1> HIDE DEF q
<1>8. q < c
  <2>1. ASSUME c <= q PROVE FALSE
    <3>1. c * r <= q * r
      BY <1>1, <1>3, <1>7, <2>1, Monotonic
    <3>2. q * r \in Nat
      BY <1>1, <1>7
    <3> QED BY <1>5, <1>6, <1>7, <3>1, <3>2
  <2> QED BY <1>3, <1>7, <2>1
<1>9. q \in 0 .. stripe - 1
  BY <1>1, <1>3, <1>7, <1>8
<1>10. Lane(p[1], q) \in Nat
  BY <1>6, <1>9, LaneInLease
<1>11. Lane(p[1], q) * r \in Nat
  BY <1>1, <1>10
<1> QED BY <1>4, <1>6, <1>7, <1>9, <1>11 DEF r, q

(* "disjoint from live inference": on a lease every slot and every table entry
   lies in a leased block. *)
THEOREM TouchesItsLease == Spec => []LeaseOnly
<1>1. LInv => LeaseOnly
  <2> SUFFICES ASSUME LInv, lease # <<>>, NEW G \in DOMAIN layouts
               PROVE  /\ \A p \in DOMAIN layouts[G].slots : layouts[G].slots[p] \div G[2] \in Range(lease)
                      /\ \A p \in DOMAIN layouts[G].table :
                            (layouts[G].table[p] * G[1]) \div G[2] \in Range(lease)
    BY DEF LeaseOnly, LInv
  <2>1. /\ G[1] \in Nat \ {0} /\ G[2] \in Nat \ {0} /\ G[2] \div G[1] \in Nat \ {0}
        /\ G[2] = (G[2] \div G[1]) * G[1] /\ layouts[G] = Borrowed(G[1], G[2], batch, lent[2])
    BY Known, GroupSizes DEF Layout
  <2>2. ASSUME NEW p \in DOMAIN layouts[G].slots
        PROVE  layouts[G].slots[p] \div G[2] \in Range(lease)
    <3>1. p \in Tokens /\ p[1] \in 0 .. batch - 1
      BY <2>1, <2>2 DEF Borrowed, Tokens, Cells
    <3> DEFINE b == Lane(p[1], p[2] \div G[2])
               o == p[2] % G[2]
    <3>2. /\ p[2] \div G[2] \in 0 .. stripe - 1 /\ o \in 0 .. G[2] - 1
          /\ layouts[G].slots[p] = o + b * G[2]
      BY <3>1, BorrowedSlot
    <3>3. b \in Range(lease) /\ b \in Nat
      BY <3>1, <3>2, LaneInLease
    <3> HIDE DEF b, o
    <3>4. (o + b * G[2]) \div G[2] = b
      BY <2>1, <3>2, <3>3, PutTogether
    <3> QED BY <3>2, <3>3, <3>4
  <2>3. ASSUME NEW p \in DOMAIN layouts[G].table
        PROVE  (layouts[G].table[p] * G[1]) \div G[2] \in Range(lease)
    <3> DEFINE r == G[2] \div G[1]
               b == Lane(p[1], p[2] \div r)
               c == p[2] % r
    <3>1. /\ p[1] \in 0 .. batch - 1 /\ p[2] \div r \in 0 .. stripe - 1
          /\ c \in 0 .. r - 1 /\ layouts[G].table[p] = c + b * r
      BY <2>3, BorrowedEntry
    <3>2. b \in Range(lease) /\ b \in Nat
      BY <3>1, LaneInLease
    <3>3. r \in Nat \ {0} /\ G[2] = r * G[1]
      BY <2>1
    <3> HIDE DEF r, b, c
    <3>4. (c + b * r) * G[1] = c * G[1] + b * G[2]
      <4>1. (c + b * r) * G[1] = c * G[1] + (b * r) * G[1]
        BY <2>1, <3>1, <3>2, <3>3
      <4>2. (b * r) * G[1] = b * (r * G[1])
        BY <2>1, <3>2, <3>3
      <4> QED BY <3>3, <4>1, <4>2
    <3>5. c * G[1] \in 0 .. G[2] - 1
      <4>1. c \in Nat /\ c + 1 \in Nat /\ c + 1 <= r /\ r \in Nat /\ G[1] \in Nat
        BY <2>1, <3>1, <3>3
      <4>2. (c + 1) * G[1] <= r * G[1]
        BY <4>1, Monotonic
      <4>3. (c + 1) * G[1] = c * G[1] + G[1] /\ c * G[1] \in Nat
        BY <4>1
      <4> QED BY <2>1, <3>3, <4>2, <4>3
    <3>6. (c * G[1] + b * G[2]) \div G[2] = b
      BY <2>1, <3>2, <3>5, PutTogether
    <3> QED BY <3>1, <3>2, <3>4, <3>6
  <2> QED BY <2>2, <2>3
<1> QED BY <1>1, LInvInductive, PTL

(* The slot of a token and the column of its block in place. *)
LEMMA InPlaceSlot ==
  ASSUME LInv, lease = <<>>, NEW G \in DOMAIN layouts, NEW p \in Tokens
  PROVE  LET w == CeilDiv(lent[2], G[1]) * G[1] IN
         /\ w \in Nat \ {0} /\ p[1] \in Nat /\ p[2] \in 0 .. w - 1
         /\ layouts[G].slots[p] = G[1] + p[1] * w + p[2]
<1> DEFINE w == CeilDiv(lent[2], G[1]) * G[1]
<1>1. /\ G \in Groups /\ layouts[G] = InPlace(G[1], batch, lent[2]) /\ G[1] \in Nat \ {0}
      /\ lent[2] \in Nat /\ batch \in Nat
  BY Known, GroupSizes DEF Layout
<1>2. p[1] \in 0 .. batch - 1 /\ p[2] \in 0 .. lent[2] - 1
  BY DEF Tokens, Cells
<1>3. w \in Nat /\ w >= lent[2]
  BY <1>1, CeilCovers
<1>4. layouts[G].slots[p] = G[1] + p[1] * w + p[2]
  BY <1>1 DEF InPlace, Tokens
<1> HIDE DEF w
<1>5. w \in Nat \ {0} /\ p[1] \in Nat /\ p[2] \in 0 .. w - 1
  BY <1>1, <1>2, <1>3
<1> QED BY <1>4, <1>5 DEF w

(* No two tokens of a forward share a slot, on a lease or in place, whatever the
   block sizes. *)
THEOREM NoCollision == Spec => []SlotsDistinct
<1>1. LInv => SlotsDistinct
  <2> SUFFICES ASSUME LInv, NEW G \in DOMAIN layouts, NEW p \in Tokens, NEW q \in Tokens,
                      layouts[G].slots[p] = layouts[G].slots[q]
               PROVE  p = q
    BY DEF SlotsDistinct
  <2>1. /\ p = <<p[1], p[2]>> /\ p[1] \in 0 .. batch - 1 /\ p[2] \in Nat
        /\ q = <<q[1], q[2]>> /\ q[1] \in 0 .. batch - 1 /\ q[2] \in Nat
    BY Known DEF Tokens, Cells
  <2>2. G[1] \in Nat \ {0} /\ G[2] \in Nat \ {0}
    BY Known, GroupSizes
  <2>3. CASE lease # <<>>
    <3> DEFINE m == G[2]
               a == p[2] \div m
               b == q[2] \div m
               o == p[2] % m
               u == q[2] % m
               x == Lane(p[1], a)
               y == Lane(q[1], b)
    <3>1. a \in 0 .. stripe - 1 /\ o \in 0 .. m - 1 /\ layouts[G].slots[p] = o + x * m
      BY <2>3, BorrowedSlot
    <3>2. b \in 0 .. stripe - 1 /\ u \in 0 .. m - 1 /\ layouts[G].slots[q] = u + y * m
      BY <2>3, BorrowedSlot
    <3>3. x \in Nat /\ y \in Nat
      BY <2>1, <2>3, <3>1, <3>2, LaneInLease
    <3>4. p[2] = o + a * m /\ q[2] = u + b * m
      BY <2>1, <2>2, DivMod
    <3>5. m \in Nat \ {0} /\ o + x * m = u + y * m
      BY <2>2, <3>1, <3>2
    <3> HIDE DEF a, b, o, u, x, y, m
    <3>6. o = u /\ x = y
      BY <3>1, <3>2, <3>3, <3>5, DivisionUnique
    <3>7. p[1] = q[1] /\ a = b
      BY <2>1, <2>3, <3>1, <3>2, <3>6, LanesDistinct DEF x, y
    <3> QED BY <2>1, <3>4, <3>6, <3>7
  <2>4. CASE lease = <<>>
    <3> DEFINE w == CeilDiv(lent[2], G[1]) * G[1]
    <3>1. /\ w \in Nat \ {0} /\ p[1] \in Nat /\ p[2] \in 0 .. w - 1
          /\ layouts[G].slots[p] = G[1] + p[1] * w + p[2]
      BY <2>4, InPlaceSlot
    <3>2. q[1] \in Nat /\ q[2] \in 0 .. w - 1 /\ layouts[G].slots[q] = G[1] + q[1] * w + q[2]
      BY <2>4, InPlaceSlot
    <3> HIDE DEF w
    <3>3. p[2] = q[2] /\ p[1] = q[1]
      <4> DEFINE i == p[1]
                 t == p[2]
                 j == q[1]
                 u == q[2]
                 g == G[1]
      <4>1. /\ g \in Nat /\ w \in Nat \ {0} /\ i \in Nat /\ j \in Nat
            /\ t \in 0 .. w - 1 /\ u \in 0 .. w - 1
        BY <2>2, <3>1, <3>2
      <4>2. g + i * w + t = g + j * w + u
        BY <3>1, <3>2
      <4> HIDE DEF i, t, j, u, g
      <4>3. t = u /\ i = j
        BY <4>1, <4>2, SameOffset
      <4> QED BY <4>3 DEF i, t, j, u
    <3> QED BY <2>1, <3>3
  <2> QED BY <2>3, <2>4
<1> QED BY <1>1, LInvInductive, PTL

(* The column of a token's kernel block is in the table. *)
LEMMA ColumnInTable ==
  ASSUME LInv, lease # <<>>, NEW G \in DOMAIN layouts, NEW p \in Tokens
  PROVE  <<p[1], p[2] \div G[1]>> \in DOMAIN layouts[G].table
<1> DEFINE m == G[2]
           g == G[1]
           r == m \div g
           C == CeilDiv(lent[2], m)
           k == p[2] \div g
           q == k \div r
           c == k % r
<1>1. /\ layouts[G] = Borrowed(g, m, batch, lent[2]) /\ G \in Groups
      /\ lent[2] \in Nat /\ m \in Nat \ {0} /\ g \in Nat \ {0} /\ r \in Nat \ {0} /\ m = r * g
  BY Known, GroupSizes DEF Layout
<1>2. p[1] \in 0 .. batch - 1 /\ p[2] \in 0 .. lent[2] - 1 /\ p[2] \in Nat
  BY <1>1 DEF Tokens, Cells
<1>3. p[2] \div m \in 0 .. C - 1 /\ C \in Nat
  BY <1>1, <1>2, TokenBlock, CeilCovers
<1>4. k \in Nat
  BY <1>1, <1>2, DivMod
<1>5. q = p[2] \div m
  <2>1. q = p[2] \div (r * g)
    <3> HIDE DEF r
    <3> QED BY <1>1, <1>2, SplitToken
  <2> QED BY <1>1, <2>1
<1>6. q \in Nat /\ k = c + q * r /\ c \in 0 .. r - 1
  BY <1>1, <1>4, DivMod
<1>7. DOMAIN layouts[G].table = Cells(batch, C * r)
  BY <1>1 DEF Borrowed
<1>8. q \in 0 .. C - 1
  BY <1>3, <1>5
<1> HIDE DEF r, C, q, c, k
<1>9. q + 1 \in Nat /\ q + 1 <= C /\ C \in Nat /\ r \in Nat
  BY <1>1, <1>3, <1>6, <1>8
<1>10. (q + 1) * r <= C * r
  BY <1>9, Monotonic
<1>11. (q + 1) * r = q * r + r /\ q * r \in Nat /\ C * r \in Nat
  BY <1>6, <1>9
<1>12. k \in 0 .. C * r - 1
  BY <1>1, <1>4, <1>6, <1>9, <1>10, <1>11
<1> QED BY <1>2, <1>7, <1>12 DEF Cells, k

(* "write via slot_mapping, read via block_table": for every kernel split the two
   paths of the address translation agree. *)
THEOREM AddressesAgree == Spec => []ReadsWhatItWrites
<1>1. LInv => ReadsWhatItWrites
  <2> SUFFICES ASSUME LInv, NEW G \in DOMAIN layouts, NEW p \in Tokens
               PROVE  layouts[G].table[<<p[1], p[2] \div G[1]>>] * G[1] + (p[2] % G[1])
                      = layouts[G].slots[p]
    BY DEF ReadsWhatItWrites
  <2> DEFINE g == G[1]
             m == G[2]
             r == m \div g
             t == p[2]
             k == t \div g
             a == t % g
  <2>1. /\ G \in Groups /\ g \in Nat \ {0} /\ m \in Nat \ {0} /\ r \in Nat \ {0} /\ m = r * g
        /\ p[1] \in 0 .. batch - 1 /\ t \in 0 .. lent[2] - 1 /\ t \in Nat /\ lent[2] \in Nat
    BY Known, GroupSizes DEF Tokens, Cells
  <2>2. k \in Nat /\ a \in 0 .. g - 1 /\ t = a + k * g
    BY <2>1, DivMod
  <2>3. CASE lease # <<>>
    <3> DEFINE b == Lane(p[1], k \div r)
               c == k % r
    <3>1. <<p[1], k>> \in DOMAIN layouts[G].table
      BY <2>3, ColumnInTable
    <3>2. /\ k \div r \in 0 .. stripe - 1 /\ c \in 0 .. r - 1
          /\ layouts[G].table[<<p[1], k>>] = c + b * r
      BY <2>3, <3>1, BorrowedEntry
    <3>3. k \div r = t \div m /\ a + c * g = t % m
      BY <2>1, SplitToken
    <3>4. layouts[G].slots[p] = (t % m) + Lane(p[1], t \div m) * m
      BY <2>3, BorrowedSlot
    <3>5. layouts[G].slots[p] = (a + c * g) + b * m
      BY <3>3, <3>4
    <3>6. b \in Nat
      BY <2>1, <2>3, <3>2, LaneInLease
    <3> HIDE DEF b, c, a, k, r, m, g, t
    <3>7. c \in Nat /\ r \in Nat /\ g \in Nat /\ a \in Nat
      BY <2>1, <2>2, <3>2
    <3>8. (c + b * r) * g = c * g + (b * r) * g /\ (b * r) * g = b * (r * g)
      BY <3>6, <3>7
    <3>9. c * g \in Nat /\ b * (r * g) \in Nat
      BY <3>6, <3>7
    <3>10. (c + b * r) * g + a = (a + c * g) + b * m
      BY <2>1, <3>7, <3>8, <3>9
    <3> QED BY <3>2, <3>5, <3>10 DEF k, a, g, t
  <2>4. CASE lease = <<>>
    <3> DEFINE C == CeilDiv(lent[2], g)
               i == p[1]
    <3>1. layouts[G] = InPlace(g, batch, lent[2])
      BY <2>4, Known DEF Layout
    <3>2. k \in 0 .. C - 1 /\ C \in Nat
      BY <2>1, TokenBlock, CeilCovers
    <3>3. layouts[G].table[<<i, k>>] = 1 + i * C + k
      BY <2>1, <3>1, <3>2 DEF InPlace, Cells
    <3>4. layouts[G].slots[p] = g + i * (C * g) + t
      BY <2>4, InPlaceSlot
    <3>5. i \in Nat
      BY <2>1
    <3> HIDE DEF C, i, a, k, g, t
    <3>6. i * C \in Nat /\ g \in Nat /\ a \in Nat
      BY <2>1, <2>2, <3>2, <3>5
    <3>7. (1 + i * C + k) * g = g + (i * C) * g + k * g
      BY <2>2, <3>6
    <3>8. (i * C) * g = i * (C * g)
      BY <3>2, <3>5, <3>6
    <3>9. (i * C) * g \in Nat /\ k * g \in Nat
      BY <2>2, <3>6
    <3>10. (1 + i * C + k) * g + a = g + i * (C * g) + t
      BY <2>2, <3>6, <3>7, <3>8, <3>9
    <3> QED BY <3>3, <3>4, <3>10 DEF k, a, g, t, i
  <2> QED BY <2>3, <2>4
<1> QED BY <1>1, LInvInductive, PTL
================================================================================
