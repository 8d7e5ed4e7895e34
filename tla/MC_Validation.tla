----------------------------- MODULE MC_Validation ------------------------------
(* A small instance of Validation: claims of every kind, a nonce asked for twice,  *)
(* claims about other nonces, and batch sizes of two, one, zero and less.          *)
EXTENDS Validation

Body(nonces, batch_size, claims) ==
  [nonces |-> nonces, batch_size |-> batch_size, claims |-> claims]

TestBodies ==
  { Body(<<1, 2, 1>>, 2, (1 :> "nan") @@ (2 :> "honest")),
    Body(<<1, 2>>, 2, (1 :> "far") @@ (2 :> "empty")),
    Body(<<1, 2>>, 0, [n \in {1, 2} |-> "far"]),
    Body(<<1, 2>>, -1, [n \in {1, 2} |-> "far"]),
    Body(<<1, 2>>, 2, [n \in {1} |-> "shape"]),
    Body(<<2>>, 1, [n \in {2} |-> "garbled"]),
    Body(<<2>>, 1, [n \in {2} |-> "honest"]),
    Body(<<1, 2>>, -1, <<>>) }

MiningBatch == <<4>>
================================================================================
