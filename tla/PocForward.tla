------------------------------- MODULE PocForward -------------------------------
(* The PoC forward on the worker ranks: every collective_rpc call goes to all     *)
(* ranks of a Tp x Pp grid, in order.  The ranks of one pipeline stage agree on   *)
(* the arguments by barrier, broadcast, barrier (poc_model_runner.py), install the *)
(* round's layer hooks (layer_hooks.py), and run the model; tensors go from stage  *)
(* to stage through a channel; the last stage drops rows with NaN and derives the  *)
(* artifacts.  The router takes the union of what the ranks return (routes.py).    *)
(* A vector is the term it is computed from: seeds and reflections, no numbers.    *)
EXTENDS SeededInputs, SequencesExt, FiniteSets

CONSTANTS
  Tp, Pp,         \* ranks per stage, stages
  Layers,         \* transformer layers of one stage
  KDim,           \* dimension of an artifact
  Hashes, Keys,   \* block hashes, public keys
  Nonces, Leases, \* values an argument of a call can take
  NoLease,        \* None: in-place layout
  Skews,          \* leases a rank may be handed instead of the call's (see Begin)
  FaultAt,        \* where a rank may raise: a subset of {"hooks", "layout", "model"}
  MaxMishaps      \* bound: ranks that raise, rows with NaN, answers that are late

ASSUME ForwardAssumption ==
  /\ Tp \in Nat \ {0} /\ Pp \in Nat \ {0}
  /\ Layers \in Nat /\ KDim \in Nat \ {0}
  /\ MaxMishaps \in Nat
  /\ NoLease \in Leases /\ Skews \subseteq Leases
  /\ "none" \notin Hashes     \* NoHooks

Stages == 0..(Pp - 1)
Ranks == (0..(Tp - 1)) \X Stages     \* <<rank in the TP group, stage>>
StageRanks(p) == {r \in Ranks : r[2] = p}
Driver(r) == <<0, r[2]>>
IsFirst(r) == r[2] = 0
LayersOf(r) == (r[2] * Layers + 1)..((r[2] + 1) * Layers)

VARIABLES
  calls,      \* the calls the engine core has sent to the ranks, oldest first
  abandoned,  \* calls whose timeout ended the wait for them
  pc,         \* where a rank is in execute_poc_forward
  args,       \* the nonces and the lease a rank works with
  installed,  \* rank -> layer -> forward hooks on that layer, oldest first
  held,       \* worker._poc_layer_hooks: the block hash of the last hook object
  active,     \* _poc_forward_active_flag
  rows,       \* the hidden states of a rank, one term per nonce
  chan,       \* tensors sent to a rank by the one before it in the pipeline
  returned,   \* what a rank has returned, one entry per call
  faults, lost, late  \* ranks that raised, rows lost to NaN, calls given up too soon

forwardVars == <<calls, abandoned, pc, args, installed, held, active, rows, chan, returned,
                 faults, lost, late>>

mishaps == <<faults, lost, late>>
Room(n) == faults + lost + late + n <= MaxMishaps

NoHooks == "none"
Raised == [ok |-> FALSE, artifacts |-> <<>>, plain |-> TRUE]
Artifacts(as) == [ok |-> TRUE, artifacts |-> as, plain |-> TRUE]
Inference(plain) == [ok |-> TRUE, artifacts |-> <<>>, plain |-> plain]

PocCall(block_hash, public_key, nonces, lease) ==
  [kind |-> "poc", block_hash |-> block_hash, public_key |-> public_key, nonces |-> nonces,
   lease |-> lease]
StepCall ==
  [kind |-> "step", block_hash |-> NoHooks, public_key |-> NoHooks, nonces |-> <<>>,
   lease |-> NoLease]

Number(r) == Len(returned[r]) + 1   \* the call a rank works on, or waits for
Call(r) == calls[Number(r)]
NoArgs == [nonces |-> <<>>, lease |-> NoLease]

ForwardInit ==
  /\ calls = <<>> /\ abandoned = {}
  /\ pc = [r \in Ranks |-> "idle"]
  /\ args = [r \in Ranks |-> NoArgs]
  /\ installed = [r \in Ranks |-> [l \in LayersOf(r) |-> <<>>]]
  /\ held = [r \in Ranks |-> NoHooks]
  /\ active = [r \in Ranks |-> FALSE]
  /\ rows = [r \in Ranks |-> <<>>]
  /\ chan = [r \in Ranks |-> <<>>]
  /\ returned = [r \in Ranks |-> <<>>]
  /\ faults = 0 /\ lost = 0 /\ late = 0

--------------------------------------------------------------------------------
(* The engine core and its executor (external): one call at a time, given up when  *)
(* its timeout fires; an answer is what all ranks returned, or the first error.    *)

Returned(c) == {r \in Ranks : Len(returned[r]) >= c}
Failed(c) == \E r \in Returned(c) : ~returned[r][c].ok
Answered(c) == c \notin abandoned /\ (Returned(c) = Ranks \/ Failed(c))
Over(c) == c \in abandoned \/ Returned(c) = Ranks \/ Failed(c)
Idle == \A c \in DOMAIN calls : Over(c)

Send(call) == Idle /\ calls' = Append(calls, call)

(* A rank that raised may have left others waiting: then only the timeout ends the    *)
(* wait.  Before that, a timeout is that of a call whose answer is late.              *)
Abandon ==
  /\ calls # <<>> /\ ~Over(Len(calls))
  /\ abandoned' = abandoned \cup {Len(calls)}
  /\ \/ faults > 0 /\ UNCHANGED late
     \/ faults = 0 /\ Room(1) /\ late' = late + 1
  /\ UNCHANGED <<calls, pc, args, installed, held, active, rows, chan, returned, faults, lost>>

(* The answer lists the ranks in the order of their numbers. *)
RankOrder == [i \in 1..(Tp * Pp) |-> <<(i - 1) % Tp, (i - 1) \div Tp>>]

(* _execute_poc_forward_rpc: the union of the artifacts, the first of each nonce. *)
AddUnseen(artifacts, art) ==
  IF \E i \in DOMAIN artifacts : artifacts[i].nonce = art.nonce
  THEN artifacts ELSE Append(artifacts, art)

Answer(c) ==
  FoldLeft(AddUnseen, <<>>,
           FlattenSeq([i \in DOMAIN RankOrder |-> returned[RankOrder[i]][c].artifacts]))

--------------------------------------------------------------------------------
(* TP sync: every rank of a stage works with the driver's nonces and lease.        *)

StageAt(p, where) == \A r \in StageRanks(p) : pc[r] = where
Goto(r, where) == pc' = [pc EXCEPT ![r] = where]
StageGoes(p, where) == pc' = [r \in Ranks |-> IF r[2] = p THEN where ELSE pc[r]]

(* execute_poc_forward on one rank.  Its comment fears that the delivery of the    *)
(* arguments skews: a rank other than the driver may be handed another lease.      *)
Begin(r) ==
  /\ pc[r] = "idle" /\ Number(r) \in DOMAIN calls /\ Call(r).kind = "poc"
  /\ \E lease \in {Call(r).lease} \cup (IF r = Driver(r) THEN {} ELSE Skews) :
       args' = [args EXCEPT ![r] = [nonces |-> Call(r).nonces, lease |-> lease]]
  /\ Goto(r, IF Tp > 1 THEN "barrier" ELSE "synced")
  /\ UNCHANGED <<calls, abandoned, installed, held, active, rows, chan, returned, mishaps>>

(* The first barrier; the driver goes on to broadcast and waits at the second. *)
Barrier(p) ==
  /\ StageAt(p, "barrier")
  /\ pc' = [r \in Ranks |->
       IF r[2] # p THEN pc[r] ELSE IF r = Driver(r) THEN "barrier2" ELSE "receive"]
  /\ UNCHANGED <<calls, abandoned, args, installed, held, active, rows, chan, returned, mishaps>>

(* Mutant: only the nonces are taken from the broadcast. *)
ReceiveNoncesOnly(r) ==
  /\ pc[r] = "receive"
  /\ args' = [args EXCEPT ![r].nonces = args[Driver(r)].nonces]
  /\ Goto(r, "barrier2")
  /\ UNCHANGED <<calls, abandoned, installed, held, active, rows, chan, returned, mishaps>>

Receive(r) ==
  /\ pc[r] = "receive"
  /\ args' = [args EXCEPT ![r] = args[Driver(r)]]
  /\ Goto(r, "barrier2")
  /\ UNCHANGED <<calls, abandoned, installed, held, active, rows, chan, returned, mishaps>>

Barrier2(p) ==
  /\ StageAt(p, "barrier2")
  /\ StageGoes(p, "synced")
  /\ UNCHANGED <<calls, abandoned, args, installed, held, active, rows, chan, returned, mishaps>>

--------------------------------------------------------------------------------
(* The positions of a set in their order, and the entries of a sequence at them. *)
clean_idx(clean) ==
  CHOOSE f \in [1..Cardinality(clean) -> clean] : \A i, j \in DOMAIN f : i < j => f[i] < f[j]

Keep(seq, clean) == [i \in 1..Cardinality(clean) |-> seq[clean_idx(clean)[i]]]

(* _ensure_layer_hooks: a hook object of the same hash stays; another is detached   *)
(* and a new one registers a hook on every layer.  An entry is owned by the object  *)
(* the worker holds, unless its constructor did not come to its end.                *)

Detached(r) ==
  [l \in LayersOf(r) |->
     Keep(installed[r][l], {i \in DOMAIN installed[r][l] : ~installed[r][l][i].owned})]

Registered(r, layers, owned) ==
  [l \in LayersOf(r) |->
     IF l \in layers
     THEN Append(Detached(r)[l], [block_hash |-> Call(r).block_hash, owned |-> owned])
     ELSE Detached(r)[l]]

(* Mutant: the hook object of an earlier round is kept. *)
EnsureAnyHooks(r) ==
  IF held[r] # NoHooks
  THEN UNCHANGED <<installed, held>>
  ELSE /\ installed' = [installed EXCEPT ![r] = Registered(r, LayersOf(r), TRUE)]
       /\ held' = [held EXCEPT ![r] = Call(r).block_hash]

EnsureHooks(r) ==
  IF held[r] = Call(r).block_hash
  THEN UNCHANGED <<installed, held>>
  ELSE /\ installed' = [installed EXCEPT ![r] = Registered(r, LayersOf(r), TRUE)]
       /\ held' = [held EXCEPT ![r] = Call(r).block_hash]

Prepare(r) ==
  /\ pc[r] = "synced"
  /\ EnsureHooks(r)
  /\ Goto(r, "ready")
  /\ UNCHANGED <<calls, abandoned, args, active, rows, chan, returned, mishaps>>

Return(r, result) ==
  /\ returned' = [returned EXCEPT ![r] = Append(@, result)]
  /\ rows' = [rows EXCEPT ![r] = <<>>]
  /\ args' = [args EXCEPT ![r] = NoArgs]
  /\ Goto(r, "idle")

MayRaise(where) ==
  where \in FaultAt /\ Room(1) /\ faults' = faults + 1 /\ UNCHANGED <<lost, late>>

(* The constructor raises (out of device memory, say) after some of the layers.    *)
HooksRaise(r) ==
  /\ pc[r] = "synced" /\ held[r] # Call(r).block_hash
  /\ MayRaise("hooks")
  /\ \E n \in 0..(Layers - 1) :
       installed' = [installed EXCEPT ![r] =
         Registered(r, {l \in LayersOf(r) : l <= r[2] * Layers + n}, FALSE)]
  /\ Return(r, Raised)
  /\ UNCHANGED <<calls, abandoned, held, active, chan>>

--------------------------------------------------------------------------------
(* The model: inputs on the first stage, received tensors on the others; then the  *)
(* layers, whose hooks reflect while the flag is up.                                *)

(* The layout, the attention metadata or the inputs raise: a tensor sent to the rank *)
(* is still in its channel.                                                         *)
LayoutRaises(r) ==
  /\ pc[r] = "ready"
  /\ MayRaise("layout")
  /\ Return(r, Raised)
  /\ UNCHANGED <<calls, abandoned, installed, held, active, chan>>

GenerateInputs(block_hash, public_key, nonces) ==
  [i \in DOMAIN nonces |->
     [input |-> InputSeed(block_hash, public_key, nonces[i]), reflections |-> <<>>]]

HasInput(r) == IsFirst(r) \/ chan[r] # <<>>

InputOf(r) ==
  IF IsFirst(r)
  THEN GenerateInputs(Call(r).block_hash, Call(r).public_key, args[r].nonces)
  ELSE Head(chan[r])

(* A rank takes its input and enters poc_forward_context, which raises the flag.    *)
Enter(r) ==
  /\ pc[r] = "ready" /\ HasInput(r)
  /\ rows' = [rows EXCEPT ![r] = InputOf(r)]
  /\ chan' = [chan EXCEPT ![r] = IF IsFirst(r) THEN @ ELSE Tail(@)]
  /\ active' = [active EXCEPT ![r] = TRUE]
  /\ Goto(r, "forward")
  /\ UNCHANGED <<calls, abandoned, args, installed, held, returned, mishaps>>

(* What the hooks on a rank do to the hidden states, layer by layer: nothing at all  *)
(* unless the flag is up.                                                           *)
Reflections(r) ==
  FlattenSeq([l \in 1..Layers |->
    LET layer == r[2] * Layers + l
    IN IF active[r]
       THEN [i \in DOMAIN installed[r][layer] |->
               LayerSeed(installed[r][layer][i].block_hash, layer)]
       ELSE <<>>])

(* Mutant: the context has no end, and its flag is up until the process ends. *)
FlagStaysUp(R) == UNCHANGED active

(* poc_forward_context lowers the flag however the forward of these ranks ends. *)
LowerFlag(R) == active' = [r \in Ranks |-> active[r] /\ r \notin R]

(* The hidden states a rank has after the layers of its stage. *)
Hidden(r) ==
  [i \in DOMAIN rows[r] |-> [rows[r][i] EXCEPT !.reflections = @ \o Reflections(r)]]

(* The model (external) takes hidden states of as many rows as its call has nonces. *)
Fits(r) == DOMAIN rows[r] = DOMAIN args[r].nonces

(* The layers of a stage are collective operations of its ranks.  A rank of a stage   *)
(* that is not the last sends its tensors on and returns no artifacts.                *)
Model(p) ==
  /\ StageAt(p, "forward") /\ \A r \in StageRanks(p) : Fits(r)
  /\ LowerFlag(StageRanks(p))
  /\ IF p = Pp - 1
     THEN /\ rows' = [r \in Ranks |-> IF r[2] = p THEN Hidden(r) ELSE rows[r]]
          /\ StageGoes(p, "computed")
          /\ UNCHANGED <<args, chan, returned>>
     ELSE /\ chan' = [r \in Ranks |->
               IF r[2] = p + 1 THEN Append(chan[r], Hidden(<<r[1], p>>)) ELSE chan[r]]
          /\ returned' = [r \in Ranks |->
               IF r[2] = p THEN Append(returned[r], Artifacts(<<>>)) ELSE returned[r]]
          /\ rows' = [r \in Ranks |-> IF r[2] = p THEN <<>> ELSE rows[r]]
          /\ args' = [r \in Ranks |-> IF r[2] = p THEN NoArgs ELSE args[r]]
          /\ StageGoes(p, "idle")
  /\ UNCHANGED <<calls, abandoned, installed, held, faults, lost, late>>

(* Raised inside the context; the other ranks of the stage wait for this one, with   *)
(* their flags up.                                                                  *)
ModelRaises(r) ==
  /\ pc[r] = "forward"
  /\ IF Fits(r) THEN MayRaise("model") ELSE UNCHANGED mishaps
  /\ LowerFlag({r})
  /\ Return(r, Raised)
  /\ UNCHANGED <<calls, abandoned, installed, held, chan>>

Vector(row, block_hash, public_key, nonce) ==
  [row |-> row, pick |-> PickSeed(block_hash, public_key, nonce, KDim),
   haar |-> [j \in 0..(KDim - 2) |-> HaarSeed(block_hash, public_key, nonce, KDim, j)]]

(* Rows with NaN leave with their nonces (hidden states before, FP16 vectors after  *)
(* pick and rotation, whose seeds are those of the nonces that stay).                *)
Derive(r, clean) ==
  LET nonces == Keep(args[r].nonces, clean)
      hidden == Keep(rows[r], clean)
  IN [i \in DOMAIN nonces |->
        [nonce |-> nonces[i],
         vector |-> Vector(hidden[i], Call(r).block_hash, Call(r).public_key, nonces[i])]]

Finish(r) ==
  /\ pc[r] = "computed"
  /\ \E nan \in SUBSET DOMAIN rows[r] :
       /\ Room(Cardinality(nan))
       /\ lost' = lost + Cardinality(nan)
       /\ Return(r, Artifacts(Derive(r, DOMAIN rows[r] \ nan)))
  /\ UNCHANGED <<calls, abandoned, installed, held, active, chan, faults, late>>

(* An inference step runs the same model, hooks included, on the ranks of a stage. *)
InferenceStep(p) ==
  /\ StageAt(p, "idle")
  /\ \A r \in StageRanks(p) : Number(r) \in DOMAIN calls /\ Call(r).kind = "step"
  /\ returned' = [r \in Ranks |->
       IF r[2] = p THEN Append(returned[r], Inference(Reflections(r) = <<>>)) ELSE returned[r]]
  /\ UNCHANGED <<calls, abandoned, pc, args, installed, held, active, rows, chan, faults, lost, late>>

--------------------------------------------------------------------------------
RankStep(r) ==
  \/ Begin(r) \/ Receive(r) \/ Prepare(r) \/ HooksRaise(r) \/ LayoutRaises(r)
  \/ Enter(r) \/ ModelRaises(r) \/ Finish(r)

StageStep(p) == Barrier(p) \/ Barrier2(p) \/ Model(p) \/ InferenceStep(p)

ForwardStep == (\E r \in Ranks : RankStep(r)) \/ (\E p \in Stages : StageStep(p)) \/ Abandon

(* A rank that can run runs, a collective all have reached ends, a timeout fires.   *)
ForwardFairness ==
  /\ \A r \in Ranks : WF_forwardVars(RankStep(r))
  /\ \A p \in Stages : WF_forwardVars(StageStep(p))
  /\ WF_forwardVars(Abandon)

--------------------------------------------------------------------------------
Points == {"idle", "barrier", "receive", "barrier2", "synced", "ready", "forward", "computed"}
Agreed == {"barrier2", "synced", "ready", "forward", "computed"}

CallType ==
  [kind : {"poc", "step"}, block_hash : Hashes \cup {NoHooks},
   public_key : Keys \cup {NoHooks}, nonces : Seq(Nonces), lease : Leases]

(* Types; a rank is never ahead of the calls, and rows exist from input to result. *)
ForwardTypeOK ==
  /\ calls \in Seq(CallType)
  /\ abandoned \subseteq DOMAIN calls
  /\ pc \in [Ranks -> Points]
  /\ args \in [Ranks -> [nonces : Seq(Nonces), lease : Leases]]
  /\ held \in [Ranks -> Hashes \cup {NoHooks}]
  /\ active \in [Ranks -> BOOLEAN]
  /\ DOMAIN returned = Ranks
  /\ \A r \in Ranks :
       /\ Len(returned[r]) \in 0..Len(calls)
       /\ pc[r] # "idle" => Number(r) \in DOMAIN calls
  /\ faults \in Nat /\ lost \in Nat /\ late \in Nat /\ faults + lost + late <= MaxMishaps

(* poc_model_runner.py:312: once a rank has synchronised it lays out the nonces and   *)
(* the lease of the call it was sent, the ones the other ranks of its stage use,      *)
(* whatever arguments the rank was handed.                                            *)
TpRanksShareTheLayout ==
  \A r \in Ranks : pc[r] \in Agreed =>
    args[r] = [nonces |-> Call(r).nonces, lease |-> Call(r).lease]

(* What a vector is by definition: the nonce's own input, one reflection per layer of *)
(* the call's block hash, the nonce's own pick and rotation.                          *)
Reference(block_hash, public_key, nonce) ==
  Vector([input |-> InputSeed(block_hash, public_key, nonce),
          reflections |-> [l \in 1..(Pp * Layers) |-> LayerSeed(block_hash, l)]],
         block_hash, public_key, nonce)

(* An answer holds reference vectors of the call's nonces, whatever rounds, late calls *)
(* and inference steps came before it and whatever rows of the batch were NaN; and it  *)
(* holds all of them if no row was (gpu_random.py:3, routes.py:108).  A rank that      *)
(* raises is no threat to it as long as a peer of its stage did not: the peer waits in *)
(* a collective, and no later call gets an answer.                                     *)
ArtifactsAreReproducible ==
  \A c \in DOMAIN calls :
    calls[c].kind = "poc" /\ Answered(c) /\ ~Failed(c) =>
      LET answer == Answer(c)
          nonces == {answer[i].nonce : i \in DOMAIN answer}
      IN /\ \A i \in DOMAIN answer :
              answer[i].vector =
                Reference(calls[c].block_hash, calls[c].public_key, answer[i].nonce)
         /\ nonces \subseteq Range(calls[c].nonces)
         /\ lost = 0 => nonces = Range(calls[c].nonces)

(* layer_hooks.py:24: "inference and PoC coexist without interference": the hooks of  *)
(* past rounds stay on the layers, and the flag that rouses them goes up on every rank *)
(* of a stage; yet no inference step of the stage, before, after or behind a forward   *)
(* that raised, has its hidden states reflected.                                       *)
HooksSpareInference ==
  \A r \in Ranks : \A c \in DOMAIN returned[r] : returned[r][c].plain
================================================================================
