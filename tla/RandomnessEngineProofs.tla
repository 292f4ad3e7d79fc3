---------------------- MODULE RandomnessEngineProofs ----------------------
(***************************************************************************)
(* Theorems about RandomnessEngine, for every value of its constants: its  *)
(* invariants, and that it implements PrecommitOracle.                     *)
(***************************************************************************)
EXTENDS RandomnessEngine, SequenceTheorems, TLAPS

(* A batch is a non-empty sequence of commitments, and so is its stamped   *)
(* form a sequence of inventory entries.                                   *)
LEMMA BatchType ==
  ASSUME NEW batch \in Batches, batch # <<>>, NEW b \in Nat, batch \in Seq(Commitments)
  PROVE  LET stamped == [i \in DOMAIN batch |-> [commitment |-> batch[i], block |-> b]]
         IN  stamped \in Seq(Entry) /\ Len(stamped) = Len(batch) /\ stamped # <<>>
<1> DEFINE stamped == [i \in DOMAIN batch |-> [commitment |-> batch[i], block |-> b]]
<1>1. DOMAIN batch = 1 .. Len(batch) /\ Len(batch) \in Nat
  OBVIOUS
<1>2. \A i \in 1 .. Len(batch) : [commitment |-> batch[i], block |-> b] \in Entry
  BY DEF Entry
<1>3. stamped \in [1 .. Len(batch) -> Entry]
  BY <1>1, <1>2
<1> QED
  BY <1>1, <1>3

(* The contract starts well typed.                                         *)
LEMMA TypeInit == Init => TypeOK
<1> SUFFICES ASSUME Init PROVE TypeOK
  OBVIOUS
<1>1. NoEntry \in Entry /\ NoRequest \in Request
  BY DEF NoEntry, NoRequest, Entry, Request
<1>2. SwitchType
  BY Zenon DEF Init, SwitchType
<1>3. RoleType /\ ChainType /\ InventoryType
  BY <1>1 DEF Init, RoleType, ChainType, InventoryType
<1>4. RequestType /\ LogType
  BY <1>1 DEF Init, RequestType, LogType
<1> QED
  BY <1>2, <1>3, <1>4 DEF TypeOK

(* Every transaction of the contract leaves it well typed.                 *)
LEMMA TypeStep == TypeOK /\ [Next]_vars => TypeOK'
<1> SUFFICES ASSUME TypeOK, [Next]_vars PROVE TypeOK'
  OBVIOUS
<1> USE DEF TypeOK
<1>1. CASE NextBlock
  <2>1. ChainType'
    BY <1>1, BoundsAssumption DEF NextBlock, ChainType
  <2> QED
    BY <1>1, <2>1 DEF NextBlock, admin, inventory, requestVars, log,
                      SwitchType, RoleType, InventoryType, RequestType, LogType
<1>2. ASSUME NEW q \in Requesters, NEW allow \in BOOLEAN,
             SetRequesterAuthorization(q, allow)
      PROVE  TypeOK'
  <2>1. RoleType'
    BY <1>2 DEF SetRequesterAuthorization, RoleType
  <2> QED
    BY <1>2, <2>1 DEF SetRequesterAuthorization, chain, inventory, requestVars, log,
                      SwitchType, ChainType, InventoryType, RequestType, LogType
<1>3. ASSUME NEW f \in Fulfillers, SetFulfiller(f) PROVE TypeOK'
  BY <1>3 DEF SetFulfiller, chain, inventory, requestVars, log,
              SwitchType, RoleType, ChainType, InventoryType, RequestType, LogType
<1>4. ASSUME NEW required \in BOOLEAN, SetPrecommitRequired(required) PROVE TypeOK'
  <2>1. SwitchType'
    BY <1>4, Zenon DEF SetPrecommitRequired, SwitchType
  <2> QED
    BY <1>4, <2>1 DEF SetPrecommitRequired, chain, inventory, requestVars, log,
                      RoleType, ChainType, InventoryType, RequestType, LogType
<1>5. CASE Pause \/ Unpause
  <2>1. SwitchType'
    BY <1>5, Zenon DEF Pause, Unpause, SwitchType
  <2> QED
    BY <1>5, <2>1 DEF Pause, Unpause, chain, inventory, requestVars, log,
                      RoleType, ChainType, InventoryType, RequestType, LogType
<1>6. ASSUME NEW r \in RequestIds, NEW old \in Commitments \cup {NoCommitment},
             NEW new \in Commitments, RecoverStaleRequestCommitment(r, old, new)
      PROVE  TypeOK'
  <2>1. requests' \in [RequestIds -> Request]
    BY <1>6 DEF RecoverStaleRequestCommitment, RequestType, Request
  <2>2. RequestType' /\ InventoryType' /\ LogType'
    BY <1>6, <2>1 DEF RecoverStaleRequestCommitment, RequestType, InventoryType,
                      LogType, ChainType
  <2> QED
    BY <1>6, <2>2 DEF RecoverStaleRequestCommitment, chain, admin,
                      SwitchType, RoleType, ChainType
<1>7. ASSUME NEW f \in Fulfillers, NEW batch \in Batches, CommitRandomnessBatch(f, batch)
      PROVE  TypeOK'
  <2> DEFINE stamped == [i \in DOMAIN batch |-> [commitment |-> batch[i], block |-> block]]
  <2>1. batch \in Seq(Commitments) /\ batch # <<>>
    BY <1>7, BoundsAssumption DEF CommitRandomnessBatch, Batches
  <2>2. stamped \in Seq(Entry) /\ stamped # <<>>
    BY <2>1, BatchType DEF ChainType
  <2>3. InventoryType'
    <3> HIDE DEF stamped
    <3>1. front' \in Entry /\ queued' \in Seq(Entry)
      <4>1. \/ front' = Head(stamped) /\ queued' = queued \o Tail(stamped)
            \/ queued' = queued \o stamped /\ front' = front
        BY <1>7 DEF CommitRandomnessBatch, stamped
      <4>2. /\ Head(stamped) \in Entry /\ Tail(stamped) \in Seq(Entry)
            /\ queued \o Tail(stamped) \in Seq(Entry) /\ queued \o stamped \in Seq(Entry)
        BY <2>2, HeadTailProperties, ConcatProperties DEF InventoryType
      <4> QED
        BY <4>1, <4>2 DEF InventoryType
    <3> QED
      BY <1>7, <2>1, <3>1 DEF CommitRandomnessBatch, InventoryType
  <2>4. LogType'
    BY <1>7 DEF CommitRandomnessBatch, LogType, ChainType
  <2> QED
    BY <1>7, <2>3, <2>4 DEF CommitRandomnessBatch, chain, admin, requestVars,
                            SwitchType, RoleType, ChainType, RequestType
<1>8. ASSUME NEW f \in Fulfillers, NEW r \in RequestIds, NEW w \in Words,
             FulfillRandomness(f, r, w)
      PROVE  TypeOK'
  <2>1. requests' \in [RequestIds -> Request]
    <3>1. requests[r] \in Request /\ clock \in Nat
      BY <1>8 DEF FulfillRandomness, RequestType, ChainType
    <3>2. [requests[r] EXCEPT !.fulfilledAt = clock, !.word = w] \in Request
      BY <3>1 DEF Request
    <3>3. requests' = [requests EXCEPT ![r] = [requests[r] EXCEPT !.fulfilledAt = clock, !.word = w]]
      BY <1>8, Zenon DEF FulfillRandomness
    <3> QED BY <3>2, <3>3 DEF RequestType
  <2>2. RequestType'
    BY <1>8, <2>1 DEF FulfillRandomness, RequestType
  <2> QED
    BY <1>8, <2>2 DEF FulfillRandomness, chain, admin, inventory, log,
                      SwitchType, RoleType, ChainType, InventoryType, LogType
<1>9. ASSUME NEW q \in Requesters, NEW g \in BOOLEAN, RequestRandomness(q, g)
      PROVE  TypeOK'
  <2>1. front' \in Entry /\ queued' \in Seq(Entry)
    <3>1. NoEntry \in Entry
      BY DEF NoEntry, Entry
    <3>2. queued # <<>> => Head(queued) \in Entry /\ Tail(queued) \in Seq(Entry)
      BY HeadTailProperties DEF InventoryType
    <3>3. \/ front' = Head(queued) /\ queued' = Tail(queued) /\ queued # <<>>
          \/ front' = NoEntry /\ queued' = queued
          \/ front' = front /\ queued' = queued
      BY <1>9 DEF RequestRandomness, AdvanceFront
    <3> QED
      BY <3>1, <3>2, <3>3 DEF InventoryType
  <2>2. requests' \in [RequestIds -> Request]
    <3> DEFINE c == IF NeedsPrecommit(g) THEN front.commitment ELSE NoCommitment
               new == [requester |-> q, commitment |-> c,
                       createdAt |-> clock, fulfilledAt |-> 0, word |-> NoWord]
    <3>1. c \in Commitments \cup {NoCommitment}
      BY DEF InventoryType, Entry
    <3>2. new \in Request
      BY <3>1 DEF Request, ChainType
    <3> HIDE DEF new
    <3>3. requests' = [requests EXCEPT ![nextRequestId] = new]
      BY <1>9 DEF RequestRandomness, new
    <3> QED
      BY <3>2, <3>3 DEF RequestType
  <2>3. RequestType'
    <3>1. snapshotRequired' \in SUBSET RequestIds
      BY <1>9 DEF RequestRandomness, RequestType
    <3>2. nextRequestId' \in Nat \ {0}
      BY <1>9 DEF RequestRandomness, RequestType
    <3> QED
      BY <1>9, <2>2, <3>1, <3>2 DEF RequestRandomness, RequestType
  <2>4. InventoryType' /\ LogType'
    BY <1>9, <2>1 DEF RequestRandomness, InventoryType, LogType, ChainType
  <2> QED
    BY <1>9, <2>3, <2>4 DEF RequestRandomness, chain, admin,
                            SwitchType, RoleType, ChainType
<1>10. ASSUME NEW q \in Requesters, NEW r \in RequestIds, NEW s \in Snapshots,
              SealBattleSnapshot(q, r, s)
       PROVE  TypeOK'
  <2>1. RequestType'
    BY <1>10 DEF SealBattleSnapshot, RequestType
  <2> QED
    BY <1>10, <2>1 DEF SealBattleSnapshot, chain, admin, inventory, log,
                       SwitchType, RoleType, ChainType, InventoryType, LogType
<1>11. CASE UNCHANGED vars
  BY <1>11 DEF vars, chain, admin, inventory, requestVars, log,
               SwitchType, RoleType, ChainType, InventoryType, RequestType, LogType
<1> QED
  BY <1>1, <1>2, <1>3, <1>4, <1>5, <1>6, <1>7, <1>8, <1>9, <1>10, <1>11
  DEF Next, OwnerStep, FulfillerStep, RequesterStep

(* Every reachable state has the declared types. *)
THEOREM TypeCorrect == Spec => []TypeOK
  BY TypeInit, TypeStep, PTL DEF Spec

-----------------------------------------------------------------------------
(* The inductive invariant, in four parts.                                 *)

\* The used set is what the event log says was committed, in the past.
LogInv ==
    \A c \in Commitments : (c \in used <=> committedAt[c] # 0) /\ committedAt[c] <= block

\* The slots of the FIFO hold different used commitments, each with the
\* block of its event, in the order of those blocks.
SlotInv ==
    /\ front.commitment = NoCommitment => front = NoEntry /\ queued = <<>>
    /\ front.commitment # NoCommitment =>
           front.commitment \in used /\ front.block = committedAt[front.commitment]
    /\ \A i \in 1 .. Len(queued) :
           /\ queued[i].commitment \in used
           /\ queued[i].block = committedAt[queued[i].commitment]
           /\ queued[i].commitment # front.commitment
           /\ front.block <= queued[i].block
    /\ \A i, j \in 1 .. Len(queued) :
           i < j => /\ queued[i].commitment # queued[j].commitment
                    /\ queued[i].block <= queued[j].block
    /\ InventoryCount <= MaxInventory

\* A request is blank until its number is drawn; a bound commitment is used,
\* has left the inventory, and binds one request only.
BindingInv ==
    \A r \in RequestIds :
        /\ Known(r) <=> r < nextRequestId
        /\ ~Known(r) => requests[r] = NoRequest /\ ~Gated(r)
        /\ requests[r].commitment # NoCommitment =>
               /\ requests[r].commitment \in used
               /\ requests[r].commitment # front.commitment
               /\ \A i \in 1 .. Len(queued) : requests[r].commitment # queued[i].commitment
               /\ \A s \in RequestIds : r # s => requests[r].commitment # requests[s].commitment

BattleInv ==
    \A r \in RequestIds : Gated(r) =>
        /\ requests[r].commitment \in used
        /\ committedAt[requests[r].commitment] < requestedAt[r]
        /\ Fulfilled(r) => Sealed(r) /\ requests[r].commitment = Commitment(requests[r].word)

IInv == TypeOK /\ LogInv /\ SlotInv /\ BindingInv /\ BattleInv

(* Steps that leave the inventory, the requests and the log alone keep the *)
(* invariant, also when the block number grows.                            *)
LEMMA QuietSteps ==
  ASSUME TypeOK, IInv, TypeOK', block' >= block,
         UNCHANGED <<inventory, requestVars, log>>
  PROVE  IInv'
<1>1. LogInv'
  BY DEF IInv, LogInv, TypeOK, LogType, ChainType, inventory, log
<1>2. SlotInv'
  BY DEF IInv, SlotInv, InventoryCount, inventory, log
<1>3. BindingInv' /\ BattleInv'
  BY DEF IInv, BindingInv, BattleInv, Known, Gated, Fulfilled, Sealed,
         inventory, requestVars, log
<1> QED
  BY <1>1, <1>2, <1>3 DEF IInv

(* The owner's re-precommit brings in a commitment nobody used.            *)
LEMMA RecoverStep ==
  ASSUME TypeOK, IInv, TypeOK', NEW r \in RequestIds, NEW old, NEW new \in Commitments,
         RecoverStaleRequestCommitment(r, old, new)
  PROVE  IInv'
<1> USE DEF TypeOK, IInv, RecoverStaleRequestCommitment, chain, admin
<1>1. LogInv'
  BY DEF LogInv, LogType, ChainType, InventoryType
<1>2. SlotInv'
  BY DEF SlotInv, InventoryCount, LogInv, LogType, InventoryType
<1>3. requests' = [requests EXCEPT ![r] = [requests[r] EXCEPT !.commitment = new]]
  BY DEF RequestType, Request
<1>4. \A s \in RequestIds :
        /\ requests'[s].requester = requests[s].requester
        /\ requests'[s].commitment = IF s = r THEN new ELSE requests[s].commitment
        /\ s # r => requests'[s] = requests[s]
  BY <1>3 DEF RequestType, Request
<1>5. new \notin used /\ new # NoCommitment /\ used' = used \cup {new}
  OBVIOUS
<1>6. BindingInv'
  <2> SUFFICES ASSUME NEW t \in RequestIds
               PROVE  /\ Known(t)' <=> t < nextRequestId'
                      /\ ~Known(t)' => requests'[t] = NoRequest /\ ~Gated(t)'
                      /\ requests'[t].commitment # NoCommitment =>
                           /\ requests'[t].commitment \in used'
                           /\ requests'[t].commitment # front'.commitment
                           /\ \A i \in 1 .. Len(queued') :
                                requests'[t].commitment # queued'[i].commitment
                           /\ \A s \in RequestIds :
                                t # s => requests'[t].commitment # requests'[s].commitment
    BY DEF BindingInv
  <2>1. /\ Known(t)' <=> t < nextRequestId'
        /\ ~Known(t)' => requests'[t] = NoRequest /\ ~Gated(t)'
    BY <1>4 DEF BindingInv, Known, Gated
  <2>2. CASE t = r
    BY <1>4, <1>5, <2>1, <2>2 DEF BindingInv, SlotInv, InventoryType
  <2>3. CASE t # r
    BY <1>4, <1>5, <2>1, <2>3 DEF BindingInv
  <2> QED
    BY <2>2, <2>3
<1>7. BattleInv'
  BY <1>4, <1>5 DEF BattleInv, Gated, Fulfilled, Sealed, LogType, InventoryType
<1> QED
  BY <1>1, <1>2, <1>6, <1>7

(* A reveal fills in a word and a time; nothing is bound anew.             *)
LEMMA FulfillStep ==
  ASSUME TypeOK, IInv, TypeOK', NEW f, NEW r \in RequestIds, NEW w \in Words,
         FulfillRandomness(f, r, w)
  PROVE  IInv'
<1>1. /\ front' = front /\ queued' = queued /\ used' = used /\ block' = block
      /\ committedAt' = committedAt /\ requestedAt' = requestedAt
      /\ nextRequestId' = nextRequestId
      /\ snapshotRequired' = snapshotRequired /\ snapshotHash' = snapshotHash
  BY DEF FulfillRandomness, chain, inventory, log
<1>2. \A s \in RequestIds :
        /\ requests'[s].requester = requests[s].requester
        /\ requests'[s].commitment = requests[s].commitment
        /\ s # r => requests'[s] = requests[s]
        /\ s = r => requests'[s].word = w
  <2>1. requests' = [requests EXCEPT ![r] =
                       [requests[r] EXCEPT !.fulfilledAt = clock, !.word = w]]
    BY DEF FulfillRandomness, TypeOK, RequestType, Request
  <2> QED
    BY <2>1 DEF TypeOK, RequestType, Request
<1>3. LogInv' /\ SlotInv'
  BY <1>1 DEF IInv, LogInv, SlotInv, InventoryCount
<1>4. BindingInv'
  <2>1. Known(r)
    BY DEF FulfillRandomness
  <2> QED
    BY <1>1, <1>2, <2>1 DEF IInv, BindingInv, Known, Gated
<1>5. BattleInv'
  <2>1. Gated(r) => Sealed(r) /\ requests[r].commitment = Commitment(w)
    BY ZeroAssumption DEF FulfillRandomness, IInv, BattleInv, TypeOK, InventoryType
  <2>2. \A t \in RequestIds : Gated(t) =>
          /\ requests[t].commitment \in used
          /\ committedAt[requests[t].commitment] < requestedAt[t]
          /\ Fulfilled(t) => Sealed(t) /\ requests[t].commitment = Commitment(requests[t].word)
    BY DEF IInv, BattleInv
  <2> QED
    BY <1>1, <1>2, <2>1, <2>2 DEF BattleInv, Gated, Fulfilled, Sealed
<1> QED
  BY <1>3, <1>4, <1>5 DEF IInv

(* A seal touches the snapshots only.                                      *)
LEMMA SealStep ==
  ASSUME TypeOK, IInv, TypeOK', NEW q, NEW r \in RequestIds, NEW s \in Snapshots,
         SealBattleSnapshot(q, r, s)
  PROVE  IInv'
<1> USE DEF TypeOK, IInv, SealBattleSnapshot, chain, admin, inventory, log
<1>1. LogInv' /\ SlotInv'
  BY DEF LogInv, SlotInv, InventoryCount
<1>2. BindingInv'
  BY DEF BindingInv, Known, Gated
<1>3. BattleInv'
  BY DEF BattleInv, Gated, Fulfilled, Sealed, RequestType
<1> QED
  BY <1>1, <1>2, <1>3

(* A request takes the front commitment out of the inventory, or, with     *)
(* precommits off, takes none.                                             *)
LEMMA RequestStep ==
  ASSUME TypeOK, IInv, TypeOK', NEW q \in Requesters, NEW g \in BOOLEAN,
         RequestRandomness(q, g)
  PROVE  IInv'
<1> DEFINE r == nextRequestId
           c == IF NeedsPrecommit(g) THEN front.commitment ELSE NoCommitment
<1>1. /\ used' = used /\ block' = block /\ committedAt' = committedAt
      /\ nextRequestId' = r + 1 /\ r \in RequestIds /\ r \in Nat
      /\ snapshotRequired' = IF g THEN snapshotRequired \cup {r} ELSE snapshotRequired
      /\ snapshotHash' = snapshotHash
      /\ requestedAt' = [requestedAt EXCEPT ![r] = block]
      /\ requestedAt'[r] = block
      /\ \A s \in RequestIds : s # r => requestedAt'[s] = requestedAt[s]
  BY DEF RequestRandomness, chain, TypeOK, RequestType, LogType
<1>2. /\ \A s \in RequestIds : s # r => requests'[s] = requests[s]
      /\ requests'[r].requester = q /\ requests'[r].commitment = c
      /\ requests'[r].fulfilledAt = 0
  BY <1>1 DEF RequestRandomness, TypeOK, RequestType
<1>3. ~Known(r) /\ requests[r] = NoRequest /\ ~Gated(r)
  BY <1>1 DEF IInv, BindingInv
<1>4. \/ /\ c # NoCommitment /\ c = front.commitment /\ front.block < block
         /\ queued # <<>> /\ front' = Head(queued) /\ queued' = Tail(queued)
      \/ /\ c # NoCommitment /\ c = front.commitment /\ front.block < block
         /\ queued = <<>> /\ front' = NoEntry /\ queued' = queued
      \/ c = NoCommitment /\ ~g /\ front' = front /\ queued' = queued
  <2>1. CASE NeedsPrecommit(g)
    BY <2>1 DEF RequestRandomness, FrontReady, AdvanceFront, TypeOK, ChainType,
                InventoryType, Entry
  <2>2. CASE ~NeedsPrecommit(g)
    BY <2>2 DEF RequestRandomness, NeedsPrecommit
  <2> QED
    BY <2>1, <2>2
<1>5. queued # <<>> =>
        /\ Head(queued) = queued[1] /\ Len(queued) \in Nat \ {0}
        /\ Len(Tail(queued)) = Len(queued) - 1
        /\ \A i \in 1 .. Len(Tail(queued)) : Tail(queued)[i] = queued[i + 1]
  BY HeadTailProperties, EmptySeq DEF TypeOK, InventoryType
<1>6. queued \in Seq(Entry) /\ Len(queued) \in Nat /\ Len(<<>>) = 0 /\ used \subseteq Commitments
      /\ front \in Entry
  BY EmptySeq, LenProperties DEF TypeOK, InventoryType
<1>7. NoEntry.commitment = NoCommitment /\ NoRequest.commitment = NoCommitment
      /\ NoEntry.block = 0
  BY DEF NoEntry, NoRequest
<1>8. LogInv'
  BY <1>1 DEF IInv, LogInv
<1>9. SlotInv'
  <2>1. CASE c # NoCommitment /\ queued # <<>>
    <3>1. front' = queued[1] /\ Len(queued') = Len(queued) - 1
          /\ \A i \in 1 .. Len(queued') : queued'[i] = queued[i + 1]
      BY <1>4, <1>5, <2>1
    <3>2. front'.commitment # NoCommitment
      BY <3>1, <1>5, <1>6, <2>1, ZeroAssumption DEF IInv, SlotInv
    <3>3. /\ front'.commitment \in used' /\ front'.block = committedAt'[front'.commitment]
          /\ \A i \in 1 .. Len(queued') :
                 /\ queued'[i].commitment \in used'
                 /\ queued'[i].block = committedAt'[queued'[i].commitment]
                 /\ queued'[i].commitment # front'.commitment
                 /\ front'.block <= queued'[i].block
      BY <1>1, <1>5, <1>6, <2>1, <3>1 DEF IInv, SlotInv
    <3>4. \A i, j \in 1 .. Len(queued') :
             i < j => /\ queued'[i].commitment # queued'[j].commitment
                      /\ queued'[i].block <= queued'[j].block
      <4> SUFFICES ASSUME NEW i \in 1 .. Len(queued'), NEW j \in 1 .. Len(queued'), i < j
                   PROVE  /\ queued'[i].commitment # queued'[j].commitment
                          /\ queued'[i].block <= queued'[j].block
        OBVIOUS
      <4>1. i + 1 \in 1 .. Len(queued) /\ j + 1 \in 1 .. Len(queued) /\ i + 1 < j + 1
        BY <1>6, <3>1
      <4>2. \A a, b \in 1 .. Len(queued) :
              a < b => /\ queued[a].commitment # queued[b].commitment
                       /\ queued[a].block <= queued[b].block
        BY DEF IInv, SlotInv
      <4>3. queued'[i] = queued[i + 1] /\ queued'[j] = queued[j + 1]
        BY <3>1
      <4> QED
        BY <4>1, <4>2, <4>3
    <3>5. InventoryCount' <= MaxInventory
      <4>1. InventoryCount = 1 + Len(queued) /\ InventoryCount <= MaxInventory
        BY <1>4, <2>1 DEF IInv, SlotInv, InventoryCount
      <4>2. InventoryCount' = 1 + Len(queued')
        BY <3>2 DEF InventoryCount
      <4> QED
        BY <1>6, <3>1, <4>1, <4>2, BoundsAssumption
    <3> QED
      BY <3>2, <3>3, <3>4, <3>5 DEF SlotInv
  <2>2. CASE c # NoCommitment /\ queued = <<>>
    BY <1>4, <1>6, <1>7, <2>2, BoundsAssumption DEF SlotInv, InventoryCount
  <2>3. CASE c = NoCommitment
    BY <1>1, <1>4, <2>3 DEF IInv, SlotInv, InventoryCount
  <2> QED
    BY <2>1, <2>2, <2>3
<1>10. c # NoCommitment =>
         /\ c \in used /\ committedAt[c] < block /\ c # front'.commitment
         /\ \A i \in 1 .. Len(queued') : c # queued'[i].commitment
  BY <1>4, <1>5, <1>6, <1>7 DEF IInv, SlotInv
<1>11. \A s \in RequestIds : requests[s].commitment # NoCommitment =>
         /\ requests[s].commitment # c
         /\ requests[s].commitment # front'.commitment
         /\ \A i \in 1 .. Len(queued') : requests[s].commitment # queued'[i].commitment
  BY <1>4, <1>5, <1>6, <1>7, SMTT(30) DEF IInv, BindingInv
<1>12. BindingInv'
  <2> SUFFICES ASSUME NEW t \in RequestIds
               PROVE  /\ Known(t)' <=> t < nextRequestId'
                      /\ ~Known(t)' => requests'[t] = NoRequest /\ ~Gated(t)'
                      /\ requests'[t].commitment # NoCommitment =>
                           /\ requests'[t].commitment \in used'
                           /\ requests'[t].commitment # front'.commitment
                           /\ \A i \in 1 .. Len(queued') :
                                requests'[t].commitment # queued'[i].commitment
                           /\ \A s \in RequestIds :
                                t # s => requests'[t].commitment # requests'[s].commitment
    BY DEF BindingInv
  <2>1. CASE t = r
    <3>1. Known(t)'
      BY <1>2, <2>1, ZeroAssumption DEF Known
    <3>2. requests'[t].commitment = c /\ t < nextRequestId'
      BY <1>1, <1>2, <2>1
    <3> HIDE DEF c
    <3> QED
      BY <1>1, <1>2, <1>10, <1>11, <2>1, <3>1, <3>2
  <2>2. CASE t # r
    <3>1. requests'[t] = requests[t] /\ (Known(t)' <=> Known(t)) /\ (Gated(t)' <=> Gated(t))
      BY <1>1, <1>2, <2>2 DEF Known, Gated
    <3>2. t < nextRequestId <=> t < nextRequestId'
      BY <1>1, <2>2 DEF RequestIds
    <3>3. \A s \in RequestIds : requests'[s].commitment \in {c, requests[s].commitment}
                                /\ (s # r => requests'[s].commitment = requests[s].commitment)
      BY <1>2
    <3> HIDE DEF c
    <3> QED
      BY <1>1, <1>11, <3>1, <3>2, <3>3 DEF IInv, BindingInv
  <2> QED
    BY <2>1, <2>2
<1>13. BattleInv'
  <2> SUFFICES ASSUME NEW t \in RequestIds, Gated(t)'
               PROVE  /\ requests'[t].commitment \in used'
                      /\ committedAt'[requests'[t].commitment] < requestedAt'[t]
                      /\ Fulfilled(t)' => /\ Sealed(t)'
                                          /\ requests'[t].commitment = Commitment(requests'[t].word)
    BY DEF BattleInv
  <2>1. CASE t = r
    <3>1. g /\ ~Fulfilled(t)'
      BY <1>1, <1>2, <1>3, <2>1 DEF Gated, Fulfilled
    <3>2. c # NoCommitment
      BY <1>4, <3>1
    <3> QED
      BY <1>1, <1>2, <1>10, <2>1, <3>1, <3>2
  <2>2. CASE t # r
    <3>1. /\ Gated(t) /\ requests'[t] = requests[t] /\ requestedAt'[t] = requestedAt[t]
          /\ snapshotHash'[t] = snapshotHash[t]
      BY <1>1, <1>2, <2>2 DEF Gated
    <3> QED
      BY <1>1, <3>1 DEF IInv, BattleInv, Fulfilled, Sealed
  <2> QED
    BY <2>1, <2>2
<1> QED
  BY <1>8, <1>9, <1>12, <1>13 DEF IInv

(* Where a batch goes: into the empty front and the queue behind it, or to *)
(* the end of the queue.                                                   *)
LEMMA CommitShape ==
  ASSUME IInv, NEW f, NEW batch \in Batches, CommitRandomnessBatch(f, batch)
  PROVE  LET stamped == [i \in DOMAIN batch |-> [commitment |-> batch[i], block |-> block]]
             m == Len(queued)
             n == Len(batch)
         IN  \/ /\ front.commitment = NoCommitment /\ front' = stamped[1]
                /\ Len(queued') = n - 1
                /\ \A i \in 1 .. n - 1 : queued'[i] = stamped[i + 1]
             \/ /\ front.commitment # NoCommitment /\ front' = front
                /\ Len(queued') = m + n
                /\ \A i \in 1 .. m : queued'[i] = queued[i]
                /\ \A i \in m + 1 .. m + n : queued'[i] = stamped[i - m]
<1> DEFINE stamped == [i \in DOMAIN batch |-> [commitment |-> batch[i], block |-> block]]
           m == Len(queued)
           n == Len(batch)
<1>1. batch \in Seq(Commitments) /\ batch # <<>> /\ n \in Nat \ {0} /\ m \in Nat
  BY BoundsAssumption, EmptySeq, LenProperties
     DEF CommitRandomnessBatch, Batches, IInv, TypeOK, InventoryType
<1>2. stamped \in Seq(Entry) /\ stamped # <<>> /\ Len(stamped) = n
  BY <1>1, BatchType DEF IInv, TypeOK, ChainType
<1>3. queued \in Seq(Entry)
  BY DEF IInv, TypeOK, InventoryType
<1> SUFFICES \/ /\ front.commitment = NoCommitment /\ front' = stamped[1]
                /\ Len(queued') = n - 1
                /\ \A i \in 1 .. n - 1 : queued'[i] = stamped[i + 1]
             \/ /\ front.commitment # NoCommitment /\ front' = front
                /\ Len(queued') = m + n
                /\ \A i \in 1 .. m : queued'[i] = queued[i]
                /\ \A i \in m + 1 .. m + n : queued'[i] = stamped[i - m]
  OBVIOUS
<1> HIDE DEF stamped
<1>4. /\ Head(stamped) = stamped[1] /\ Tail(stamped) \in Seq(Entry)
      /\ Len(Tail(stamped)) = n - 1
      /\ \A i \in 1 .. n - 1 : Tail(stamped)[i] = stamped[i + 1]
      /\ <<>> \o Tail(stamped) = Tail(stamped)
  BY <1>2, HeadTailProperties, ConcatEmptySeq
<1>5. /\ Len(queued \o stamped) = m + n
      /\ \A i \in 1 .. m + n :
           (queued \o stamped)[i] = IF i <= m THEN queued[i] ELSE stamped[i - m]
  <2> HIDE DEF m, n
  <2>1. /\ Len(queued \o stamped) = Len(queued) + Len(stamped)
        /\ \A i \in 1 .. Len(queued) + Len(stamped) :
             (queued \o stamped)[i] = IF i <= Len(queued) THEN queued[i]
                                      ELSE stamped[i - Len(queued)]
    BY <1>2, <1>3, ConcatProperties
  <2> QED
    BY <1>2, <2>1 DEF m
<1>6. CASE front.commitment = NoCommitment
  <2>1. front' = Head(stamped) /\ queued' = queued \o Tail(stamped)
    BY <1>6 DEF CommitRandomnessBatch, stamped
  <2>2. queued = <<>>
    BY <1>6 DEF IInv, SlotInv
  <2> QED
    BY <1>4, <1>6, <2>1, <2>2
<1>7. CASE front.commitment # NoCommitment
  <2>1. queued' = queued \o stamped /\ front' = front
    BY <1>7 DEF CommitRandomnessBatch, stamped
  <2> HIDE DEF m, n
  <2>2. \A i \in 1 .. m : i \in 1 .. m + n /\ i <= m
    BY <1>1, <1>3
  <2>3. \A i \in m + 1 .. m + n : i \in 1 .. m + n /\ ~(i <= m)
    BY <1>1, <1>3
  <2> QED
    BY <1>5, <1>7, <2>1, <2>2, <2>3
<1> QED
  BY <1>6, <1>7

(* A batch brings in commitments nobody used, behind all the others.       *)
LEMMA CommitStep ==
  ASSUME TypeOK, IInv, TypeOK', NEW f, NEW batch \in Batches, CommitRandomnessBatch(f, batch)
  PROVE  IInv'
<1> DEFINE stamped == [i \in DOMAIN batch |-> [commitment |-> batch[i], block |-> block]]
           m == Len(queued)
           n == Len(batch)
<1>1. /\ requests' = requests /\ nextRequestId' = nextRequestId /\ requestedAt' = requestedAt
      /\ snapshotRequired' = snapshotRequired /\ snapshotHash' = snapshotHash
      /\ block' = block
      /\ used' = used \cup {batch[i] : i \in DOMAIN batch}
      /\ \A c \in Commitments : committedAt'[c] = IF \E i \in DOMAIN batch : batch[i] = c
                                                 THEN block ELSE committedAt[c]
  BY DEF CommitRandomnessBatch, chain, requestVars
<1>2. /\ batch \in Seq(Commitments) /\ batch # <<>>
      /\ \A i \in 1 .. n : /\ batch[i] \in Commitments /\ batch[i] \notin used
      /\ \A i, j \in 1 .. n : i # j => batch[i] # batch[j]
      /\ InventoryCount + n <= MaxInventory
      /\ DOMAIN batch = 1 .. n /\ n \in Nat \ {0}
  BY BoundsAssumption, EmptySeq, LenProperties DEF CommitRandomnessBatch, MayCommit, Batches
<1>3. /\ stamped \in Seq(Entry) /\ stamped # <<>> /\ Len(stamped) = n
      /\ \A i \in 1 .. n : stamped[i].commitment = batch[i] /\ stamped[i].block = block
  BY <1>2, BatchType DEF TypeOK, ChainType
<1>4. queued \in Seq(Entry) /\ m \in Nat /\ used \subseteq Commitments /\ front \in Entry
      /\ block \in Nat \ {0} /\ (\A i \in 1 .. m : queued[i] \in Entry)
  BY EmptySeq, LenProperties, ElementOfSeq DEF TypeOK, InventoryType, ChainType
<1>5. /\ \A i \in 1 .. n : batch[i] \in used' /\ batch[i] # NoCommitment
                           /\ committedAt'[batch[i]] = block
      /\ \A c \in used : c \in used' /\ committedAt'[c] = committedAt[c]
                         /\ \A i \in 1 .. n : batch[i] # c
      /\ \A c \in Commitments : c \in used' => c \in used \/ \E i \in 1 .. n : batch[i] = c
  BY <1>1, <1>2, <1>4, ZeroAssumption
<1>6. LogInv'
  <2> SUFFICES ASSUME NEW c \in Commitments
               PROVE  (c \in used' <=> committedAt'[c] # 0) /\ committedAt'[c] <= block'
    BY DEF LogInv
  <2>1. (c \in used <=> committedAt[c] # 0) /\ committedAt[c] <= block
    BY DEF IInv, LogInv
  <2>2. CASE \E i \in DOMAIN batch : batch[i] = c
    BY <1>1, <1>4, <2>2
  <2>3. CASE ~\E i \in DOMAIN batch : batch[i] = c
    BY <1>1, <2>1, <2>3
  <2> QED
    BY <2>2, <2>3
<1>7. \/ /\ front.commitment = NoCommitment /\ front' = stamped[1]
         /\ Len(queued') = n - 1
         /\ \A i \in 1 .. n - 1 : queued'[i] = stamped[i + 1]
      \/ /\ front.commitment # NoCommitment /\ front' = front
         /\ Len(queued') = m + n
         /\ \A i \in 1 .. m : queued'[i] = queued[i]
         /\ \A i \in m + 1 .. m + n : queued'[i] = stamped[i - m]
  BY CommitShape
<1> HIDE DEF stamped, m, n
<1>8. front.commitment = NoCommitment => queued = <<>> /\ m = 0
  BY EmptySeq DEF IInv, SlotInv, m
\* Every slot of the new inventory is an old one or a new one, by position.
<1>9. SlotInv'
  <2>1. CASE front.commitment = NoCommitment
    <3>1. front' = stamped[1] /\ Len(queued') = n - 1
          /\ \A i \in 1 .. n - 1 : queued'[i] = stamped[i + 1]
      BY <1>7, <2>1
    <3>2. front'.commitment = batch[1] /\ front'.block = block
          /\ \A i \in 1 .. n - 1 : /\ queued'[i].commitment = batch[i + 1]
                                   /\ queued'[i].block = block
      BY <1>2, <1>3, <3>1
    <3>3. /\ front'.commitment # NoCommitment /\ front'.commitment \in used'
          /\ front'.block = committedAt'[front'.commitment]
      BY <1>2, <1>5, <3>2
    <3>4. \A i \in 1 .. Len(queued') :
             /\ queued'[i].commitment \in used'
             /\ queued'[i].block = committedAt'[queued'[i].commitment]
             /\ queued'[i].commitment # front'.commitment
             /\ front'.block <= queued'[i].block
      BY <1>2, <1>4, <1>5, <3>1, <3>2
    <3>5. \A i, j \in 1 .. Len(queued') :
             i < j => /\ queued'[i].commitment # queued'[j].commitment
                      /\ queued'[i].block <= queued'[j].block
      <4> SUFFICES ASSUME NEW i \in 1 .. n - 1, NEW j \in 1 .. n - 1, i < j
                   PROVE  /\ queued'[i].commitment # queued'[j].commitment
                          /\ queued'[i].block <= queued'[j].block
        BY <3>1
      <4>1. i + 1 \in 1 .. n /\ j + 1 \in 1 .. n /\ i + 1 # j + 1
        BY <1>2
      <4> QED
        BY <1>2, <1>4, <3>2, <4>1
    <3>6. InventoryCount' = n /\ InventoryCount = 0
      BY <1>2, <2>1, <3>1, <3>3 DEF InventoryCount
    <3> QED
      BY <1>2, <3>3, <3>4, <3>5, <3>6 DEF SlotInv
  <2>2. CASE front.commitment # NoCommitment
    <3>1. /\ front' = front /\ Len(queued') = m + n
          /\ \A i \in 1 .. m : queued'[i] = queued[i]
          /\ \A i \in m + 1 .. m + n : queued'[i] = stamped[i - m]
      BY <1>7, <2>2
    <3>2. \A i \in m + 1 .. m + n : /\ i - m \in 1 .. n
                                    /\ queued'[i].commitment = batch[i - m]
                                    /\ queued'[i].block = block
      BY <1>2, <1>3, <1>4, <3>1
    <3>3. /\ front.commitment \in used /\ front.block = committedAt[front.commitment]
          /\ front.block <= block
      BY <1>4, <2>2 DEF IInv, SlotInv, LogInv
    <3>4. \A i \in 1 .. m :
             /\ queued[i].commitment \in used
             /\ queued[i].block = committedAt[queued[i].commitment]
             /\ queued[i].commitment # front.commitment
             /\ front.block <= queued[i].block
             /\ queued[i].block <= block
      BY <1>4 DEF IInv, SlotInv, LogInv, m
    <3>5. \A i \in 1 .. Len(queued') :
             /\ queued'[i].commitment \in used'
             /\ queued'[i].block = committedAt'[queued'[i].commitment]
             /\ queued'[i].commitment # front'.commitment
             /\ front'.block <= queued'[i].block
      <4> SUFFICES ASSUME NEW i \in 1 .. m + n
                   PROVE  /\ queued'[i].commitment \in used'
                          /\ queued'[i].block = committedAt'[queued'[i].commitment]
                          /\ queued'[i].commitment # front.commitment
                          /\ front.block <= queued'[i].block
        BY <3>1
      <4>1. CASE i \in 1 .. m
        BY <1>5, <3>1, <3>4, <4>1
      <4>2. CASE i \in m + 1 .. m + n
        BY <1>5, <3>2, <3>3, <4>2
      <4> QED
        BY <1>2, <1>4, <4>1, <4>2
    <3>6. \A i, j \in 1 .. Len(queued') :
             i < j => /\ queued'[i].commitment # queued'[j].commitment
                      /\ queued'[i].block <= queued'[j].block
      <4> SUFFICES ASSUME NEW i \in 1 .. m + n, NEW j \in 1 .. m + n, i < j
                   PROVE  /\ queued'[i].commitment # queued'[j].commitment
                          /\ queued'[i].block <= queued'[j].block
        BY <3>1
      <4>1. CASE i \in 1 .. m /\ j \in 1 .. m
        BY <3>1, <4>1 DEF IInv, SlotInv, m
      <4>2. CASE i \in 1 .. m /\ j \in m + 1 .. m + n
        BY <1>5, <3>1, <3>2, <3>4, <4>2
      <4>3. CASE i \in m + 1 .. m + n /\ j \in m + 1 .. m + n
        <5>1. i - m # j - m
          BY <1>2, <1>4
        <5> QED
          BY <1>2, <1>4, <3>2, <4>3, <5>1
      <4> QED
        BY <1>2, <1>4, <4>1, <4>2, <4>3
    <3>7. InventoryCount' = InventoryCount + n
      BY <1>2, <1>4, <2>2, <3>1 DEF InventoryCount, m
    <3> QED
      BY <1>2, <1>5, <2>2, <3>1, <3>3, <3>5, <3>6, <3>7 DEF SlotInv
  <2> QED
    BY <2>1, <2>2
\* A bound commitment was used before, so it is none of the batch.
<1>10. \A c \in used : c # front.commitment /\ (\A i \in 1 .. m : c # queued[i].commitment) =>
         c # front'.commitment /\ \A i \in 1 .. Len(queued') : c # queued'[i].commitment
  <2> SUFFICES ASSUME NEW c \in used, c # front.commitment,
                      \A i \in 1 .. m : c # queued[i].commitment
               PROVE  /\ c # front'.commitment
                      /\ \A i \in 1 .. Len(queued') : c # queued'[i].commitment
    OBVIOUS
  <2>1. \A i \in 1 .. n : stamped[i].commitment # c
    BY <1>3, <1>5
  <2>2. CASE front.commitment = NoCommitment
    <3>1. front' = stamped[1] /\ Len(queued') = n - 1
          /\ \A i \in 1 .. n - 1 : queued'[i] = stamped[i + 1]
      BY <1>7, <2>2
    <3> QED
      BY <1>2, <2>1, <3>1
  <2>3. CASE front.commitment # NoCommitment
    <3>1. /\ front' = front /\ Len(queued') = m + n
          /\ \A i \in 1 .. m : queued'[i] = queued[i]
          /\ \A i \in m + 1 .. m + n : queued'[i] = stamped[i - m]
      BY <1>7, <2>3
    <3>2. \A i \in m + 1 .. m + n : i - m \in 1 .. n
      BY <1>2, <1>4
    <3>3. \A i \in 1 .. m + n : i \in 1 .. m \/ i \in m + 1 .. m + n
      BY <1>2, <1>4
    <3> QED
      BY <2>1, <3>1, <3>2, <3>3
  <2> QED
    BY <2>2, <2>3
<1>11. BindingInv'
  BY <1>1, <1>5, <1>10 DEF IInv, BindingInv, Known, Gated, m
<1>12. BattleInv'
  BY <1>1, <1>5 DEF IInv, BattleInv, Gated, Fulfilled, Sealed
<1> QED
  BY <1>6, <1>9, <1>11, <1>12 DEF IInv

(* Every transaction of the contract keeps the inductive invariant.        *)
LEMMA Inductive == IInv /\ [Next]_vars => IInv'
<1> SUFFICES ASSUME IInv, [Next]_vars PROVE IInv'
  OBVIOUS
<1>1. TypeOK /\ TypeOK'
  BY TypeStep DEF IInv
<1>2. block \in Nat
  BY <1>1 DEF TypeOK, ChainType
<1>3. CASE NextBlock
  <2>1. block' >= block /\ UNCHANGED <<inventory, requestVars, log>>
    BY <1>2, <1>3 DEF NextBlock
  <2> QED
    BY <1>1, <2>1, QuietSteps
<1>4. ASSUME NEW q \in Requesters, NEW allow \in BOOLEAN, SetRequesterAuthorization(q, allow)
      PROVE  IInv'
  <2>1. block' >= block /\ UNCHANGED <<inventory, requestVars, log>>
    BY <1>2, <1>4 DEF SetRequesterAuthorization, chain
  <2> QED
    BY <1>1, <2>1, QuietSteps
<1>5. ASSUME NEW f \in Fulfillers, SetFulfiller(f) PROVE IInv'
  <2>1. block' >= block /\ UNCHANGED <<inventory, requestVars, log>>
    BY <1>2, <1>5 DEF SetFulfiller, chain
  <2> QED
    BY <1>1, <2>1, QuietSteps
<1>6. ASSUME NEW required \in BOOLEAN, SetPrecommitRequired(required) PROVE IInv'
  <2>1. block' >= block /\ UNCHANGED <<inventory, requestVars, log>>
    BY <1>2, <1>6 DEF SetPrecommitRequired, chain
  <2> QED
    BY <1>1, <2>1, QuietSteps
<1>7. CASE Pause \/ Unpause
  <2>1. block' >= block /\ UNCHANGED <<inventory, requestVars, log>>
    BY <1>2, <1>7 DEF Pause, Unpause, chain
  <2> QED
    BY <1>1, <2>1, QuietSteps
<1>8. CASE UNCHANGED vars
  <2>1. block' >= block /\ UNCHANGED <<inventory, requestVars, log>>
    BY <1>2, <1>8 DEF vars, chain
  <2> QED
    BY <1>1, <2>1, QuietSteps
<1>9. CASE OwnerStep
  BY <1>1, <1>4, <1>5, <1>6, <1>7, <1>9, RecoverStep DEF OwnerStep
<1>10. CASE FulfillerStep
  BY <1>1, <1>10, CommitStep, FulfillStep DEF FulfillerStep
<1>11. CASE RequesterStep
  BY <1>1, <1>11, RequestStep, SealStep DEF RequesterStep
<1> QED
  BY <1>3, <1>8, <1>9, <1>10, <1>11 DEF Next

(* A freshly initialised contract satisfies the inductive invariant.       *)
LEMMA InitIInv == Init => IInv
<1> SUFFICES ASSUME Init PROVE IInv
  OBVIOUS
<1>1. TypeOK
  BY TypeInit
<1>2. Len(queued) = 0 /\ front = NoEntry /\ used = {} /\ snapshotRequired = {}
      /\ nextRequestId = 1 /\ NoEntry.commitment = NoCommitment
  BY EmptySeq DEF Init, NoEntry
<1>3. LogInv
  BY DEF Init, LogInv
<1>4. SlotInv
  BY <1>2, BoundsAssumption DEF Init, SlotInv, InventoryCount
<1>5. BindingInv
  <2>1. \A r \in RequestIds : requests[r] = NoRequest /\ ~(r < 1)
    BY DEF Init, RequestIds
  <2> QED
    BY <1>2, <2>1 DEF BindingInv, Known, Gated, NoRequest
<1>6. BattleInv
  BY <1>2 DEF BattleInv, Gated
<1> QED
  BY <1>1, <1>3, <1>4, <1>5, <1>6 DEF IInv

(* The inductive invariant of RandomnessEngine.sol holds in every          *)
(* reachable state: each commitment that was ever posted is marked used,   *)
(* carries its block, and is in one place only.                            *)
THEOREM Invariant == Spec => []IInv
  BY InitIInv, Inductive, PTL DEF Spec

-----------------------------------------------------------------------------
(* The properties of the contract.                                         *)

(* The entries of a non-empty inventory: the front, then the queue.         *)
LEMMA EntriesShape ==
  ASSUME IInv, front.commitment # NoCommitment
  PROVE  /\ Len(queued) \in Nat
         /\ DOMAIN InventoryEntries = 1 .. Len(queued) + 1
         /\ Len(InventoryEntries) = Len(queued) + 1
         /\ \A i \in 1 .. Len(queued) + 1 :
               InventoryEntries[i] = IF i = 1 THEN front ELSE queued[i - 1]
         /\ \A i \in 1 .. Len(queued) + 1 : i # 1 => i - 1 \in 1 .. Len(queued)
<1>1. queued \in Seq(Entry) /\ front \in Entry /\ Len(queued) \in Nat
  BY LenProperties DEF IInv, TypeOK, InventoryType
<1>2. <<front>> \in Seq(Entry) /\ Len(<<front>>) = 1 /\ <<front>>[1] = front
  BY <1>1
<1>3. InventoryEntries = <<front>> \o queued
  BY DEF InventoryEntries
<1>4. \A i \in 1 .. Len(queued) + 1 : i # 1 => i - 1 \in 1 .. Len(queued)
  BY <1>1
<1> QED
  BY <1>1, <1>2, <1>3, <1>4, ConcatProperties, LenProperties

(* No commitment is ever in two inventory slots, in a slot and a request,  *)
(* or in two requests.                                                     *)
THEOREM OneRequestPerCommitment == Spec => []CommitmentServesOneRequest
<1>1. IInv => CommitmentServesOneRequest
  <2> SUFFICES ASSUME IInv PROVE CommitmentServesOneRequest
    OBVIOUS
  <2>2. CASE front.commitment = NoCommitment
    <3>1. InventoryEntries = <<>> /\ DOMAIN InventoryEntries = {}
      BY <2>2 DEF IInv, SlotInv, InventoryEntries
    <3> QED
      BY <3>1 DEF IInv, BindingInv, CommitmentServesOneRequest
  <2>3. CASE front.commitment # NoCommitment
    <3>2. /\ Len(queued) \in Nat
          /\ DOMAIN InventoryEntries = 1 .. Len(queued) + 1
          /\ \A i \in 1 .. Len(queued) + 1 :
                InventoryEntries[i] = IF i = 1 THEN front ELSE queued[i - 1]
      BY <2>3, EntriesShape
    <3>3. \A i \in 1 .. Len(queued) + 1 : i # 1 => i - 1 \in 1 .. Len(queued)
      BY <2>3, EntriesShape
    <3>4. /\ \A i \in 1 .. Len(queued) : queued[i].commitment # front.commitment
          /\ \A i, j \in 1 .. Len(queued) :
               i < j => queued[i].commitment # queued[j].commitment
      BY DEF IInv, SlotInv
    <3>5. ASSUME NEW i \in 1 .. Len(queued) + 1, NEW j \in 1 .. Len(queued) + 1, i # j
          PROVE  InventoryEntries[i].commitment # InventoryEntries[j].commitment
      <4>1. CASE i = 1 \/ j = 1
        BY <3>2, <3>3, <3>4, <3>5, <4>1
      <4>2. CASE i # 1 /\ j # 1
        <5>1. /\ i - 1 \in 1 .. Len(queued) /\ j - 1 \in 1 .. Len(queued)
              /\ i - 1 < j - 1 \/ j - 1 < i - 1
          BY <3>2, <3>5, <4>2
        <5> QED
          BY <3>2, <3>4, <4>2, <5>1
      <4> QED
        BY <4>1, <4>2
    <3>6. ASSUME NEW r \in RequestIds, requests[r].commitment # NoCommitment
          PROVE  /\ \A i \in DOMAIN InventoryEntries :
                        InventoryEntries[i].commitment # requests[r].commitment
                 /\ \A s \in RequestIds :
                        r # s => requests[s].commitment # requests[r].commitment
      <4>1. /\ requests[r].commitment # front.commitment
            /\ \A i \in 1 .. Len(queued) : requests[r].commitment # queued[i].commitment
            /\ \A s \in RequestIds : r # s => requests[r].commitment # requests[s].commitment
        BY <3>6 DEF IInv, BindingInv
      <4> QED
        BY <3>2, <3>3, <4>1
    <3> QED
      BY <3>2, <3>5, <3>6 DEF CommitmentServesOneRequest
  <2> QED
    BY <2>2, <2>3
<1> QED
  BY <1>1, Invariant, PTL

(* The FIFO has no hole, is in the order of the commits' blocks, and keeps *)
(* the limit.                                                              *)
THEOREM FifoIsWellFormed == Spec => []FifoWellFormed
<1>1. IInv => FifoWellFormed
  <2> SUFFICES ASSUME IInv PROVE FifoWellFormed
    OBVIOUS
  <2>1. CASE front.commitment = NoCommitment
    <3>1. InventoryEntries = <<>> /\ DOMAIN InventoryEntries = {} /\ Len(InventoryEntries) = 0
      BY <2>1, EmptySeq DEF IInv, SlotInv, InventoryEntries
    <3> QED
      BY <2>1, <3>1, BoundsAssumption DEF IInv, SlotInv, FifoWellFormed
  <2>2. CASE front.commitment # NoCommitment
    <3>1. /\ Len(queued) \in Nat
          /\ DOMAIN InventoryEntries = 1 .. Len(queued) + 1
          /\ \A i \in 1 .. Len(queued) + 1 :
                InventoryEntries[i] = IF i = 1 THEN front ELSE queued[i - 1]
          /\ \A i \in 1 .. Len(queued) + 1 : i # 1 => i - 1 \in 1 .. Len(queued)
      BY <2>2, EntriesShape
    <3>2. Len(InventoryEntries) <= MaxInventory
      <4>1. Len(InventoryEntries) = 1 + Len(queued)
        BY <2>2, <3>1, EntriesShape
      <4> QED
        BY <2>2, <4>1 DEF IInv, SlotInv, InventoryCount
    <3>3. /\ \A i \in 1 .. Len(queued) : front.block <= queued[i].block
          /\ \A i, j \in 1 .. Len(queued) : i < j => queued[i].block <= queued[j].block
      BY DEF IInv, SlotInv
    <3>4. ASSUME NEW i \in 1 .. Len(queued) + 1, NEW j \in 1 .. Len(queued) + 1, i < j
          PROVE  InventoryEntries[i].block <= InventoryEntries[j].block
      <4>1. j # 1 /\ j - 1 \in 1 .. Len(queued)
        BY <3>1, <3>4
      <4>2. CASE i = 1
        BY <3>1, <3>3, <4>1, <4>2
      <4>3. CASE i # 1
        <5>1. i - 1 \in 1 .. Len(queued) /\ i - 1 < j - 1
          BY <3>1, <3>4, <4>3
        <5> QED
          BY <3>1, <3>3, <4>1, <4>3, <5>1
      <4> QED
        BY <4>2, <4>3
    <3> QED
      BY <2>2, <3>1, <3>2, <3>4 DEF FifoWellFormed
  <2> QED
    BY <2>1, <2>2
<1> QED
  BY <1>1, Invariant, PTL

(* A gated battle's word was committed in a block strictly before the one  *)
(* of its request, and is only out once its snapshot is sealed.            *)
THEOREM BattleWordFixed == Spec => []BattleWordFixedInAdvance
<1>1. IInv => BattleWordFixedInAdvance
  BY DEF IInv, BattleInv, LogInv, TypeOK, InventoryType, LogType, BattleWordFixedInAdvance
<1> QED
  BY <1>1, Invariant, PTL

(* Fulfilled requests, the commitments of gated requests and sealed        *)
(* snapshots never change.                                                 *)
THEOREM SettledIsFinal == Spec => SettledRequestsAreFinal
<1> DEFINE Final == \A r \in RequestIds :
         /\ Fulfilled(r) => requests'[r] = requests[r]
         /\ Gated(r) => requests'[r].commitment = requests[r].commitment /\ Gated(r)'
         /\ Sealed(r) => snapshotHash'[r] = snapshotHash[r]
<1>1. IInv /\ [Next]_vars => Final
  <2> SUFFICES ASSUME IInv, [Next]_vars, NEW t \in RequestIds
               PROVE  /\ Fulfilled(t) => requests'[t] = requests[t]
                      /\ Gated(t) => requests'[t].commitment = requests[t].commitment /\ Gated(t)'
                      /\ Sealed(t) => snapshotHash'[t] = snapshotHash[t]
    OBVIOUS
  <2>1. CASE UNCHANGED requestVars
    BY <2>1 DEF requestVars, Gated
  <2>2. ASSUME NEW r \in RequestIds, NEW old, NEW new,
               RecoverStaleRequestCommitment(r, old, new)
        PROVE  /\ t # r => requests'[t] = requests[t]
               /\ ~Fulfilled(r) /\ ~Gated(r)
               /\ UNCHANGED <<snapshotRequired, snapshotHash>>
    BY <2>2 DEF RecoverStaleRequestCommitment, IInv, TypeOK, RequestType
  <2>3. ASSUME NEW f, NEW r \in RequestIds, NEW w, FulfillRandomness(f, r, w)
        PROVE  /\ t # r => requests'[t] = requests[t]
               /\ ~Fulfilled(r) /\ requests'[t].commitment = requests[t].commitment
               /\ UNCHANGED <<snapshotRequired, snapshotHash>>
    BY <2>3 DEF FulfillRandomness, IInv, TypeOK, RequestType, Request
  <2>4. ASSUME NEW q, NEW g \in BOOLEAN, RequestRandomness(q, g)
        PROVE  /\ requests'[t] = requests[t] \/ (~Fulfilled(t) /\ ~Gated(t))
               /\ snapshotHash' = snapshotHash /\ snapshotRequired \subseteq snapshotRequired'
    <3>1. ~Fulfilled(nextRequestId) /\ ~Gated(nextRequestId)
      BY <2>4 DEF RequestRandomness, IInv, BindingInv, Fulfilled, NoRequest, RequestIds
    <3>2. t # nextRequestId => requests'[t] = requests[t]
      BY <2>4 DEF RequestRandomness, IInv, TypeOK, RequestType
    <3> QED
      <4>1. snapshotHash' = snapshotHash /\ snapshotRequired \subseteq snapshotRequired'
        <5>1. /\ snapshotHash' = snapshotHash
              /\ snapshotRequired' = IF g THEN snapshotRequired \cup {nextRequestId}
                                     ELSE snapshotRequired
          BY <2>4 DEF RequestRandomness
        <5> QED
          BY <5>1
      <4> QED
        BY <3>1, <3>2, <4>1 DEF Fulfilled, Gated
  <2>5. ASSUME NEW q, NEW r \in RequestIds, NEW s, SealBattleSnapshot(q, r, s)
        PROVE  /\ requests' = requests /\ snapshotRequired' = snapshotRequired
               /\ Sealed(t) => snapshotHash'[t] = snapshotHash[t]
    BY <2>5 DEF SealBattleSnapshot, Sealed, IInv, TypeOK, RequestType
  <2>6. CASE OwnerStep
    <3>1. CASE \E r \in RequestIds, old \in Commitments \cup {NoCommitment}, new \in Commitments :
                 RecoverStaleRequestCommitment(r, old, new)
      BY <2>2, <3>1 DEF Gated
    <3>2. CASE UNCHANGED requestVars
      BY <2>1, <3>2
    <3> QED
      BY <2>6, <3>1, <3>2 DEF OwnerStep, SetRequesterAuthorization, SetFulfiller,
                              SetPrecommitRequired, Pause, Unpause
  <2>7. CASE FulfillerStep
    <3>1. CASE \E f \in Fulfillers, batch \in Batches : CommitRandomnessBatch(f, batch)
      BY <2>1, <3>1 DEF CommitRandomnessBatch
    <3>2. CASE \E f \in Fulfillers, r \in RequestIds, w \in Words : FulfillRandomness(f, r, w)
      BY <2>3, <3>2 DEF Gated
    <3> QED
      BY <2>7, <3>1, <3>2 DEF FulfillerStep
  <2>8. CASE RequesterStep
    BY <2>4, <2>5, <2>8 DEF RequesterStep, Gated
  <2> QED
    BY <2>1, <2>6, <2>7, <2>8 DEF Next, NextBlock, vars
<1> QED
  BY <1>1, Invariant, PTL DEF Spec, SettledRequestsAreFinal

(* The inventory that a consuming request leaves is the old queue.         *)
LEMMA EntriesAfterDraw ==
  ASSUME IInv, FrontReady, AdvanceFront
  PROVE  \A i \in DOMAIN InventoryEntries' :
           i \in 1 .. Len(queued) /\ InventoryEntries'[i] = queued[i]
<1>1. queued \in Seq(Entry) /\ Len(queued) \in Nat
  BY LenProperties DEF IInv, TypeOK, InventoryType
<1>2. CASE queued = <<>>
  <2>1. front' = NoEntry /\ queued' = <<>>
    BY <1>2 DEF AdvanceFront
  <2>2. InventoryEntries' = <<>>
    BY <2>1 DEF InventoryEntries, NoEntry
  <2> QED
    BY <2>2
<1>3. CASE queued # <<>>
  <2>1. /\ front' = queued[1] /\ queued' = Tail(queued) /\ Len(queued) \in Nat \ {0}
        /\ Tail(queued) \in Seq(Entry) /\ Len(Tail(queued)) = Len(queued) - 1
        /\ \A i \in 1 .. Len(queued) - 1 : Tail(queued)[i] = queued[i + 1]
    BY <1>1, <1>3, HeadTailProperties, EmptySeq, LenProperties DEF AdvanceFront
  <2>2. queued[1] \in Entry /\ queued[1].commitment # NoCommitment
    <3>1. 1 \in 1 .. Len(queued)
      BY <2>1
    <3> QED
      BY <1>1, <3>1, ElementOfSeq, ZeroAssumption DEF IInv, SlotInv, TypeOK, InventoryType
  <2>3. InventoryEntries' = <<queued[1]>> \o Tail(queued)
    BY <2>1, <2>2 DEF InventoryEntries
  <2>4. <<queued[1]>> \in Seq(Entry) /\ Len(<<queued[1]>>) = 1 /\ <<queued[1]>>[1] = queued[1]
    BY <2>2
  <2>5. /\ DOMAIN InventoryEntries' = 1 .. Len(queued)
        /\ \A i \in 1 .. Len(queued) :
             InventoryEntries'[i] = IF i = 1 THEN queued[1] ELSE Tail(queued)[i - 1]
    BY <2>1, <2>3, <2>4, ConcatProperties, LenProperties
  <2>6. \A i \in 1 .. Len(queued) : i # 1 => i - 1 \in 1 .. Len(queued) - 1
    BY <2>1
  <2> QED
    BY <2>1, <2>5, <2>6
<1> QED
  BY <1>2, <1>3

(* A request draws the commitment that waits longest.                      *)
THEOREM DrawsTheOldest == Spec => OldestCommitmentFirst
<1> DEFINE Oldest == \A r \in RequestIds :
        ~Known(r) /\ Known(r)' /\ requests'[r].commitment # NoCommitment =>
          \A i \in DOMAIN InventoryEntries' :
              committedAt[requests'[r].commitment] <= InventoryEntries'[i].block
<1>1. IInv /\ [Next]_vars => Oldest
  <2> SUFFICES ASSUME IInv, [Next]_vars, NEW t \in RequestIds, ~Known(t), Known(t)',
                      requests'[t].commitment # NoCommitment,
                      NEW i \in DOMAIN InventoryEntries'
               PROVE  committedAt[requests'[t].commitment] <= InventoryEntries'[i].block
    OBVIOUS
  <2>1. PICK q \in Requesters, g \in BOOLEAN : RequestRandomness(q, g)
    <3>1. CASE UNCHANGED requestVars
      BY <3>1 DEF requestVars, Known
    <3>2. ASSUME NEW r \in RequestIds, NEW old, NEW new, RecoverStaleRequestCommitment(r, old, new)
          PROVE  FALSE
      <4>1. \A s \in RequestIds : requests'[s].requester = requests[s].requester
        BY <3>2 DEF RecoverStaleRequestCommitment, IInv, TypeOK, RequestType, Request
      <4> QED
        BY <4>1 DEF Known
    <3>3. ASSUME NEW f, NEW r \in RequestIds, NEW w, FulfillRandomness(f, r, w)
          PROVE  FALSE
      <4>1. \A s \in RequestIds : requests'[s].requester = requests[s].requester
        BY <3>3 DEF FulfillRandomness, IInv, TypeOK, RequestType, Request
      <4> QED
        BY <4>1 DEF Known
    <3>4. ASSUME NEW q, NEW r, NEW s, SealBattleSnapshot(q, r, s) PROVE FALSE
      BY <3>4 DEF SealBattleSnapshot, Known
    <3>5. CASE OwnerStep
      BY <3>1, <3>2, <3>5 DEF OwnerStep, SetRequesterAuthorization, SetFulfiller,
                              SetPrecommitRequired, Pause, Unpause
    <3>6. CASE FulfillerStep
      BY <3>1, <3>3, <3>6 DEF FulfillerStep, CommitRandomnessBatch
    <3>7. CASE RequesterStep
      BY <3>4, <3>7 DEF RequesterStep
    <3> QED
      BY <3>1, <3>5, <3>6, <3>7 DEF Next, NextBlock, vars
  <2> DEFINE c == IF NeedsPrecommit(g) THEN front.commitment ELSE NoCommitment
  <2>2. /\ requests' = [requests EXCEPT ![nextRequestId] =
                          [requester |-> q, commitment |-> c,
                           createdAt |-> clock, fulfilledAt |-> 0, word |-> NoWord]]
        /\ NeedsPrecommit(g) => FrontReady /\ AdvanceFront
    BY <2>1 DEF RequestRandomness
  <2> HIDE DEF c
  <2>3. t = nextRequestId /\ requests'[t].commitment = c
    BY <2>2 DEF Known, IInv, TypeOK, RequestType
  <2>4. NeedsPrecommit(g) /\ c = front.commitment /\ c # NoCommitment
    BY <2>3 DEF c
  <2>5. committedAt[requests'[t].commitment] = front.block
    BY <2>3, <2>4 DEF IInv, SlotInv
  <2>6. i \in 1 .. Len(queued) /\ InventoryEntries'[i] = queued[i]
    BY <2>2, <2>4, EntriesAfterDraw
  <2>7. front.block <= queued[i].block
    BY <2>6 DEF IInv, SlotInv
  <2> QED
    BY <2>5, <2>6, <2>7
<1> QED
  BY <1>1, Invariant, PTL DEF Spec, OldestCommitmentFirst

-----------------------------------------------------------------------------
(* RandomnessEngine implements PrecommitOracle.                            *)

(* What the refinement needs beside IInv.                                  *)

\* An unanswered request has no word, and an unused number no recovery.
WordInv ==
    \A r \in RequestIds :
        /\ ~Fulfilled(r) => requests[r].word = NoWord
        /\ ~Known(r) => ~Recovered(r)

\* A bound commitment is of an earlier block, unless the request waits with a
\* recovered one, whose block is the one that fulfilment waits for.
AgeInv ==
    \A r \in RequestIds : requests[r].commitment # NoCommitment =>
        IF Recovered(r) THEN committedAt[requests[r].commitment] = recoveryBlock[r]
        ELSE committedAt[requests[r].commitment] < block

RInv == IInv /\ WordInv /\ AgeInv

(* A block number that grows, with the requests as they are, keeps both.   *)
LEMMA QuietAge ==
  ASSUME IInv, WordInv, AgeInv, TypeOK', block' >= block, UNCHANGED <<requests, recoveryBlock>>,
         \A c \in used : committedAt'[c] = committedAt[c]
  PROVE  WordInv' /\ AgeInv'
<1>1. WordInv'
  BY DEF WordInv, Fulfilled, Known, Recovered
<1>2. ASSUME NEW r \in RequestIds, requests[r].commitment # NoCommitment
      PROVE  IF Recovered(r) THEN committedAt'[requests[r].commitment] = recoveryBlock[r]
             ELSE committedAt'[requests[r].commitment] < block'
  <2>1. requests[r].commitment \in used /\ requests[r].commitment \in Commitments
    BY <1>2 DEF IInv, BindingInv, TypeOK, InventoryType
  <2>2. committedAt'[requests[r].commitment] = committedAt[requests[r].commitment]
    BY <2>1
  <2>3. /\ committedAt[requests[r].commitment] \in Nat
        /\ block \in Nat /\ block' \in Nat
    BY <2>1 DEF IInv, TypeOK, LogType, ChainType
  <2> QED
    BY <1>2, <2>2, <2>3 DEF AgeInv
<1> QED
  BY <1>1, <1>2 DEF AgeInv, Recovered

(* Each transaction keeps both: a recovery, a fulfilment and a request     *)
(* change one request, a commit only commitments nobody had.               *)
LEMMA AgeStep == RInv /\ [Next]_vars => RInv'
<1> SUFFICES ASSUME IInv, WordInv, AgeInv, [Next]_vars PROVE RInv'
  BY DEF RInv
<1>1. IInv' /\ TypeOK /\ TypeOK'
  BY Inductive DEF IInv
<1>2. block \in Nat /\ block # 0 /\ clock # 0
  BY <1>1 DEF TypeOK, ChainType
<1>3. CASE block' >= block /\ UNCHANGED <<requests, recoveryBlock, committedAt>>
  BY <1>1, <1>3, QuietAge DEF RInv
<1>4. ASSUME NEW f, NEW batch \in Batches, CommitRandomnessBatch(f, batch) PROVE RInv'
  <2>1. block' >= block /\ UNCHANGED <<requests, recoveryBlock>>
    BY <1>2, <1>4 DEF CommitRandomnessBatch, chain, requestVars
  <2>2. ASSUME NEW c \in used PROVE committedAt'[c] = committedAt[c]
    <3>1. c \in Commitments
      BY <1>1, <2>2 DEF TypeOK, InventoryType
    <3>2. ~\E i \in DOMAIN batch : batch[i] = c
      BY <1>4, <2>2 DEF CommitRandomnessBatch, MayCommit
    <3> QED
      BY <1>4, <3>1, <3>2 DEF CommitRandomnessBatch
  <2> QED
    BY <1>1, <2>1, <2>2, QuietAge DEF RInv
<1>5. ASSUME NEW r \in RequestIds, NEW old, NEW new \in Commitments,
             RecoverStaleRequestCommitment(r, old, new)
      PROVE  RInv'
  <2>1. /\ requests' = [requests EXCEPT ![r].commitment = new]
        /\ recoveryBlock' = [recoveryBlock EXCEPT ![r] = block]
        /\ committedAt' = [committedAt EXCEPT ![new] = block]
        /\ block' = block /\ new \notin used
    BY <1>5 DEF RecoverStaleRequestCommitment, chain
  <2>2. /\ requests'[r].commitment = new /\ recoveryBlock'[r] = block
        /\ committedAt'[new] = block
        /\ requests'[r].word = requests[r].word
        /\ requests'[r].fulfilledAt = requests[r].fulfilledAt
        /\ requests'[r].requester = requests[r].requester /\ Known(r)
    BY <1>1, <1>5, <2>1 DEF TypeOK, RequestType, LogType, Request, RecoverStaleRequestCommitment
  <2>3. ASSUME NEW t \in RequestIds, t # r
        PROVE  requests'[t] = requests[t] /\ recoveryBlock'[t] = recoveryBlock[t]
    BY <1>1, <2>1, <2>3 DEF TypeOK, RequestType
  <2>4. ASSUME NEW t \in RequestIds, requests[t].commitment # NoCommitment
        PROVE  committedAt'[requests[t].commitment] = committedAt[requests[t].commitment]
    <3>1. requests[t].commitment \in used /\ requests[t].commitment \in Commitments
      BY <2>4 DEF IInv, BindingInv, TypeOK, InventoryType
    <3> QED
      BY <1>1, <2>1, <3>1 DEF TypeOK, LogType
  <2>5. WordInv'
    BY <2>2, <2>3 DEF WordInv, Fulfilled, Known, Recovered
  <2>6. AgeInv'
    <3> SUFFICES ASSUME NEW t \in RequestIds, requests'[t].commitment # NoCommitment
                 PROVE  IF recoveryBlock'[t] # 0
                        THEN committedAt'[requests'[t].commitment] = recoveryBlock'[t]
                        ELSE committedAt'[requests'[t].commitment] < block'
      BY DEF AgeInv, Recovered
    <3>1. CASE t = r
      BY <1>2, <2>2, <3>1
    <3>2. CASE t # r
      BY <2>1, <2>3, <2>4, <3>2 DEF AgeInv, Recovered
    <3> QED
      BY <3>1, <3>2
  <2> QED
    BY <1>1, <2>5, <2>6 DEF RInv
<1>6. ASSUME NEW f, NEW r \in RequestIds, NEW w \in Words, FulfillRandomness(f, r, w)
      PROVE  RInv'
  <2>1. /\ requests' = [requests EXCEPT ![r].fulfilledAt = clock, ![r].word = w]
        /\ recoveryBlock' = [recoveryBlock EXCEPT ![r] = 0]
        /\ committedAt' = committedAt /\ block' = block
        /\ Recovered(r) => block > recoveryBlock[r]
    BY <1>6 DEF FulfillRandomness, chain, log
  <2>2. /\ requests'[r].commitment = requests[r].commitment
        /\ requests'[r].fulfilledAt # 0
        /\ recoveryBlock'[r] = 0
    BY <1>1, <1>2, <2>1 DEF TypeOK, RequestType, Request
  <2>3. ASSUME NEW t \in RequestIds, t # r
        PROVE  requests'[t] = requests[t] /\ recoveryBlock'[t] = recoveryBlock[t]
    BY <1>1, <2>1, <2>3 DEF TypeOK, RequestType
  <2>4. WordInv'
    BY <2>2, <2>3 DEF WordInv, Fulfilled, Known, Recovered
  <2>5. AgeInv'
    <3> SUFFICES ASSUME NEW t \in RequestIds, requests'[t].commitment # NoCommitment
                 PROVE  IF recoveryBlock'[t] # 0
                        THEN committedAt'[requests'[t].commitment] = recoveryBlock'[t]
                        ELSE committedAt'[requests'[t].commitment] < block'
      BY DEF AgeInv, Recovered
    <3>1. CASE t = r
      BY <2>1, <2>2, <3>1 DEF AgeInv, Recovered
    <3>2. CASE t # r
      BY <2>1, <2>3, <3>2 DEF AgeInv, Recovered
    <3> QED
      BY <3>1, <3>2
  <2> QED
    BY <1>1, <2>4, <2>5 DEF RInv
<1>7. ASSUME NEW q \in Requesters, NEW g \in BOOLEAN, RequestRandomness(q, g) PROVE RInv'
  <2> DEFINE r == nextRequestId
             c == IF NeedsPrecommit(g) THEN front.commitment ELSE NoCommitment
  <2>1. /\ r \in RequestIds
        /\ NeedsPrecommit(g) => FrontReady
        /\ requests' = [requests EXCEPT ![r] =
                          [requester |-> q, commitment |-> c,
                           createdAt |-> clock, fulfilledAt |-> 0, word |-> NoWord]]
        /\ recoveryBlock' = recoveryBlock /\ committedAt' = committedAt /\ block' = block
    BY <1>7 DEF RequestRandomness, chain
  <2> HIDE DEF c
  <2>2. /\ requests'[r].commitment = c /\ requests'[r].word = NoWord
        /\ requests'[r].requester = q
        /\ \A t \in RequestIds : t # r => requests'[t] = requests[t]
    BY <1>1, <2>1 DEF TypeOK, RequestType
  <2>3. c # NoCommitment => committedAt[c] < block
    BY <1>1, <2>1 DEF c, FrontReady, IInv, SlotInv, TypeOK, InventoryType, Entry
  <2>4. recoveryBlock[r] = 0
    <3>1. ~Known(r)
      BY <1>1, <2>1 DEF IInv, BindingInv, TypeOK, RequestType, RequestIds
    <3> QED
      BY <2>1, <3>1 DEF WordInv, Recovered
  <2>5. WordInv'
    <3>1. q # NoOne
      BY ZeroAssumption
    <3> QED
      BY <2>1, <2>2, <3>1 DEF WordInv, Fulfilled, Known, Recovered
  <2>6. AgeInv'
    <3> SUFFICES ASSUME NEW t \in RequestIds, requests'[t].commitment # NoCommitment
                 PROVE  IF recoveryBlock'[t] # 0
                        THEN committedAt'[requests'[t].commitment] = recoveryBlock'[t]
                        ELSE committedAt'[requests'[t].commitment] < block'
      BY DEF AgeInv, Recovered
    <3>1. CASE t = r
      BY <2>1, <2>2, <2>3, <2>4, <3>1
    <3>2. CASE t # r
      BY <2>1, <2>2, <3>2 DEF AgeInv, Recovered
    <3> QED
      BY <3>1, <3>2
  <2> QED
    BY <1>1, <2>5, <2>6 DEF RInv
<1>8. CASE NextBlock
  BY <1>2, <1>3, <1>8 DEF NextBlock, requestVars, log
<1>9. CASE OwnerStep
  <2>1. CASE \E r \in RequestIds, old \in Commitments \cup {NoCommitment}, new \in Commitments :
               RecoverStaleRequestCommitment(r, old, new)
    BY <1>5, <2>1
  <2>2. CASE UNCHANGED <<chain, requestVars, log>>
    BY <1>2, <1>3, <2>2 DEF chain, requestVars, log
  <2> QED
    BY <1>9, <2>1, <2>2 DEF OwnerStep, SetRequesterAuthorization, SetFulfiller,
                            SetPrecommitRequired, Pause, Unpause
<1>10. CASE FulfillerStep
  BY <1>4, <1>6, <1>10 DEF FulfillerStep
<1>11. ASSUME NEW q, NEW r, NEW s, SealBattleSnapshot(q, r, s) PROVE RInv'
  BY <1>2, <1>3, <1>11 DEF SealBattleSnapshot, chain, log
<1>12. CASE RequesterStep
  BY <1>7, <1>11, <1>12 DEF RequesterStep
<1>13. CASE UNCHANGED vars
  BY <1>2, <1>3, <1>13 DEF vars, chain, requestVars, log
<1> QED
  BY <1>8, <1>9, <1>10, <1>12, <1>13 DEF Next

(* The two hold from the start.                                            *)
LEMMA AgeInit == Init => RInv
<1> SUFFICES ASSUME Init PROVE RInv
  OBVIOUS
<1>1. IInv
  BY InitIInv
<1>2. \A r \in RequestIds : requests[r] = NoRequest /\ recoveryBlock[r] = 0
  BY DEF Init
<1> QED
  BY <1>1, <1>2 DEF RInv, WordInv, AgeInv, Recovered, NoRequest

-----------------------------------------------------------------------------
(* The refinement mapping, by name.                                        *)

Spent == {c \in used : c \notin InventoryCommitments}
Bound == [r \in RequestIds |-> IF Known(r) THEN requests[r].commitment ELSE NoOne]
SealedRequests == {r \in RequestIds : Sealed(r)}
RevealedWords == [r \in RequestIds |-> requests[r].word]

(* A fresh contract is a fresh oracle.                                     *)
LEMMA OracleInit == Init => Oracle!Init
<1> SUFFICES ASSUME Init PROVE Oracle!Init
  OBVIOUS
<1>1. \A r \in RequestIds : requests[r] = NoRequest /\ ~Known(r) /\ ~Sealed(r)
  BY DEF Init, Known, Sealed, NoRequest
<1>2. Spent = {}
  BY DEF Init, Spent
<1>3. /\ Bound = [r \in RequestIds |-> NoOne]
      /\ SealedRequests = {}
      /\ RevealedWords = [r \in RequestIds |-> NoWord]
  BY <1>1 DEF Bound, SealedRequests, RevealedWords, NoRequest
<1>4. /\ block = 1 /\ snapshotRequired = {}
      /\ committedAt = [c \in Commitments |-> 0]
  BY DEF Init
<1> QED
  BY <1>2, <1>3, <1>4 DEF Oracle!Init, Oracle!Commitments, Commitments, Spent, Bound,
                          SealedRequests, RevealedWords

(* What the oracle sees of a request that does not change.                 *)
LEMMA SameView ==
  ASSUME UNCHANGED requestVars
  PROVE  /\ Bound' = Bound /\ SealedRequests' = SealedRequests
         /\ RevealedWords' = RevealedWords /\ snapshotRequired' = snapshotRequired
  BY DEF requestVars, Bound, SealedRequests, RevealedWords, Known, Sealed

(* What left the inventory, while the inventory stays.                     *)
LEMMA SameSpent == ASSUME UNCHANGED inventory PROVE Spent' = Spent
  BY DEF inventory, Spent, InventoryCommitments

(* Roles, switches and pauses are none of the oracle's business.           *)
LEMMA QuietMap ==
  ASSUME UNCHANGED <<inventory, requestVars, committedAt, block>>
  PROVE  UNCHANGED Oracle!vars
<1>1. /\ Bound' = Bound /\ SealedRequests' = SealedRequests
      /\ RevealedWords' = RevealedWords /\ snapshotRequired' = snapshotRequired
  BY SameView
<1>2. Spent' = Spent
  BY SameSpent
<1> QED
  BY <1>1, <1>2 DEF Oracle!vars, Spent, Bound, SealedRequests, RevealedWords

(* A block of the chain is a tick of the oracle.                           *)
LEMMA TickMap == ASSUME NextBlock PROVE Oracle!Tick
<1>1. /\ Bound' = Bound /\ SealedRequests' = SealedRequests
      /\ RevealedWords' = RevealedWords /\ snapshotRequired' = snapshotRequired
  BY SameView DEF NextBlock
<1>2. Spent' = Spent
  BY SameSpent DEF NextBlock
<1>3. block' = block + 1 /\ committedAt' = committedAt
  BY DEF NextBlock, log
<1> QED
  BY <1>1, <1>2, <1>3 DEF Oracle!Tick, Spent, Bound, SealedRequests, RevealedWords

(* A seal of the contract is one of the oracle.                            *)
LEMMA SealMap ==
  ASSUME TypeOK, NEW q, NEW r \in RequestIds, NEW s \in Snapshots, SealBattleSnapshot(q, r, s)
  PROVE  Oracle!Seal(r)
<1>1. /\ Gated(r) /\ snapshotHash' = [snapshotHash EXCEPT ![r] = s]
      /\ UNCHANGED <<block, front, queued, used, requests, snapshotRequired, committedAt>>
  BY DEF SealBattleSnapshot, chain, inventory, log
<1>2. SealedRequests' = SealedRequests \cup {r}
  <2>1. s # NoSnapshot
    BY ZeroAssumption
  <2>2. snapshotHash'[r] = s /\ \A t \in RequestIds : t # r => snapshotHash'[t] = snapshotHash[t]
    BY <1>1 DEF TypeOK, RequestType
  <2> QED
    BY <2>1, <2>2 DEF SealedRequests, Sealed
<1>3. Spent' = Spent
  BY <1>1, SameSpent DEF inventory
<1>4. Bound' = Bound /\ RevealedWords' = RevealedWords
  BY <1>1 DEF Bound, RevealedWords, Known
<1> QED
  BY <1>1, <1>2, <1>3, <1>4 DEF Oracle!Seal, Gated, Spent, Bound, SealedRequests, RevealedWords

(* A fulfilment reveals the word that the request is bound to.             *)
LEMMA RevealMap ==
  ASSUME RInv, NEW f, NEW r \in RequestIds, NEW w \in Words, FulfillRandomness(f, r, w)
  PROVE  Oracle!Reveal(r, w)
<1>1. /\ Known(r) /\ ~Fulfilled(r) /\ (Gated(r) => Sealed(r))
      /\ Recovered(r) => block > recoveryBlock[r]
      /\ requests[r].commitment = NoCommitment \/ requests[r].commitment = Commitment(w)
      /\ requests' = [requests EXCEPT ![r].fulfilledAt = clock, ![r].word = w]
      /\ UNCHANGED <<block, front, queued, used, snapshotRequired, snapshotHash, committedAt>>
  BY DEF FulfillRandomness, chain, inventory, log
<1>2. TypeOK
  BY DEF RInv, IInv
<1>3. /\ requests'[r].word = w /\ requests'[r].commitment = requests[r].commitment
      /\ requests'[r].requester = requests[r].requester
      /\ \A t \in RequestIds : t # r => requests'[t] = requests[t]
  BY <1>1, <1>2 DEF TypeOK, RequestType, Request
<1>4. Bound' = Bound
  BY <1>3 DEF Bound, Known
<1>5. RevealedWords' = [RevealedWords EXCEPT ![r] = w]
  BY <1>3 DEF RevealedWords
<1>6. Spent' = Spent /\ SealedRequests' = SealedRequests
  BY <1>1, SameSpent DEF inventory, SealedRequests, Sealed
<1>7. Bound[r] = requests[r].commitment /\ RevealedWords[r] = NoWord
  BY <1>1 DEF Bound, RevealedWords, RInv, WordInv
<1>8. requests[r].commitment # NoCommitment => committedAt[requests[r].commitment] < block
  <2> SUFFICES ASSUME requests[r].commitment # NoCommitment
               PROVE  committedAt[requests[r].commitment] < block
    OBVIOUS
  <2> QED
    BY <1>1 DEF RInv, AgeInv
<1>9. r \in snapshotRequired => r \in SealedRequests
  BY <1>1 DEF Gated, SealedRequests
<1> QED
  BY <1>1, <1>4, <1>5, <1>6, <1>7, <1>8, <1>9
     DEF Oracle!Reveal, Spent, Bound, SealedRequests, RevealedWords

(* The owner's recovery binds an ungated, unanswered request anew.         *)
LEMMA RecoverMap ==
  ASSUME RInv, NEW r \in RequestIds, NEW old, NEW new \in Commitments,
         RecoverStaleRequestCommitment(r, old, new)
  PROVE  Oracle!Rebind(r, new)
<1>1. /\ Known(r) /\ ~Fulfilled(r) /\ ~Gated(r)
      /\ new \notin used /\ used' = used \cup {new}
      /\ requests' = [requests EXCEPT ![r].commitment = new]
      /\ committedAt' = [committedAt EXCEPT ![new] = block]
      /\ UNCHANGED <<block, front, queued, snapshotRequired, snapshotHash>>
  BY DEF RecoverStaleRequestCommitment, chain
<1>2. TypeOK /\ LogInv /\ SlotInv
  BY DEF RInv, IInv
<1>3. /\ requests'[r].commitment = new /\ requests'[r].word = requests[r].word
      /\ requests'[r].requester = requests[r].requester
      /\ \A t \in RequestIds : t # r => requests'[t] = requests[t]
  BY <1>1, <1>2 DEF TypeOK, RequestType, Request
<1>4. Bound' = [Bound EXCEPT ![r] = new]
  <2>1. \A t \in RequestIds : Known(t)' <=> Known(t)
    BY <1>3 DEF Known
  <2>2. \A t \in RequestIds :
          Bound'[t] = IF t = r THEN new ELSE IF Known(t) THEN requests[t].commitment ELSE NoOne
    BY <1>1, <1>3, <2>1 DEF Bound
  <2> QED
    BY <2>2 DEF Bound
<1>5. RevealedWords' = RevealedWords /\ SealedRequests' = SealedRequests
  BY <1>1, <1>3 DEF RevealedWords, SealedRequests, Sealed
<1>6. Spent' = Spent \cup {new}
  <2>1. InventoryCommitments' = InventoryCommitments
    BY <1>1 DEF InventoryCommitments
  <2>2. new \notin InventoryCommitments
    <3>1. new # NoCommitment
      BY ZeroAssumption
    <3>2. \A i \in DOMAIN queued : queued[i].commitment # new
      <4>1. DOMAIN queued = 1 .. Len(queued)
        BY <1>2 DEF TypeOK, InventoryType
      <4> QED
        BY <1>1, <1>2, <4>1 DEF SlotInv
    <3>3. front.commitment # new
      BY <1>1, <1>2, <3>1 DEF SlotInv
    <3> QED
      BY <3>2, <3>3 DEF InventoryCommitments
  <2> QED
    BY <1>1, <2>1, <2>2 DEF Spent
<1>7. committedAt[new] = 0
  BY <1>1, <1>2 DEF LogInv
<1>8. Bound[r] # NoOne /\ RevealedWords[r] = NoWord
  <2>1. requests[r].commitment \in Commitments \cup {NoCommitment}
    BY <1>2 DEF TypeOK, RequestType, Request
  <2> QED
    BY <1>1, <2>1, ZeroAssumption DEF Bound, RevealedWords, RInv, WordInv
<1> QED
  BY <1>1, <1>4, <1>5, <1>6, <1>7, <1>8
     DEF Oracle!Rebind, Gated, Spent, Bound, SealedRequests, RevealedWords

(* A batch posts its commitments; all of them wait in the inventory.       *)
LEMMA CommitMap ==
  ASSUME RInv, NEW f \in Fulfillers, NEW batch \in Batches, CommitRandomnessBatch(f, batch)
  PROVE  \E S \in SUBSET Commitments : Oracle!Post(S)
<1> DEFINE S == {batch[i] : i \in DOMAIN batch}
<1>1. TypeOK /\ LogInv
  BY DEF RInv, IInv
<1>2. /\ S \subseteq Commitments
      /\ \A c \in S : c \notin used /\ committedAt[c] = 0
  BY <1>1 DEF CommitRandomnessBatch, MayCommit, LogInv
<1>3. /\ used' = used \cup S
      /\ committedAt' = [c \in Commitments |-> IF c \in S THEN block ELSE committedAt[c]]
      /\ UNCHANGED requestVars /\ block' = block
  BY DEF CommitRandomnessBatch, chain
<1>4. Spent' = Spent
  <2> DEFINE m == Len(queued)
             n == Len(batch)
             stamped == [i \in DOMAIN batch |-> [commitment |-> batch[i], block |-> block]]
  <2>1. /\ DOMAIN batch = 1 .. n /\ n \in Nat \ {0} /\ m \in Nat
        /\ DOMAIN queued = 1 .. m /\ DOMAIN queued' = 1 .. Len(queued')
        /\ \A i \in 1 .. n : stamped[i].commitment = batch[i]
    <3>1. TypeOK'
      BY TypeStep, <1>1 DEF Next, FulfillerStep
    <3> QED
      BY <1>1, <3>1, BoundsAssumption, EmptySeq, LenProperties
         DEF CommitRandomnessBatch, Batches, TypeOK, InventoryType
  <2>2. \/ /\ front.commitment = NoCommitment /\ queued = <<>> /\ front' = stamped[1]
           /\ Len(queued') = n - 1
           /\ \A i \in 1 .. n - 1 : queued'[i] = stamped[i + 1]
        \/ /\ front' = front
           /\ Len(queued') = m + n
           /\ \A i \in 1 .. m : queued'[i] = queued[i]
           /\ \A i \in m + 1 .. m + n : queued'[i] = stamped[i - m]
    BY CommitShape DEF RInv, IInv, SlotInv
  <2> HIDE DEF m, n, stamped
  <2>3. /\ InventoryCommitments' \subseteq S \cup InventoryCommitments
        /\ S \subseteq InventoryCommitments'
        /\ InventoryCommitments \subseteq InventoryCommitments' \cup {NoCommitment}
    <3>1. CASE queued = <<>> /\ front.commitment = NoCommitment /\ front' = stamped[1]
               /\ Len(queued') = n - 1
               /\ \A i \in 1 .. n - 1 : queued'[i] = stamped[i + 1]
      <4>1. InventoryCommitments = {NoCommitment}
        BY <3>1, <2>1, EmptySeq DEF InventoryCommitments, m
      <4>2. /\ front'.commitment = batch[1]
            /\ \A i \in 1 .. n - 1 : i + 1 \in 1 .. n /\ queued'[i].commitment = batch[i + 1]
        BY <2>1, <3>1
      <4>3. \A i \in 1 .. n : i = 1 \/ (i - 1 \in 1 .. n - 1 /\ queued'[i - 1].commitment = batch[i])
        BY <2>1, <3>1
      <4>4. InventoryCommitments' =
              {front'.commitment} \cup {queued'[i].commitment : i \in 1 .. n - 1}
        BY <2>1, <3>1 DEF InventoryCommitments
      <4>5. S = {batch[i] : i \in 1 .. n} /\ 1 \in 1 .. n
        BY <2>1
      <4>6. InventoryCommitments' \subseteq S
        BY <4>2, <4>4, <4>5
      <4>7. S \subseteq InventoryCommitments'
        <5> SUFFICES ASSUME NEW i \in 1 .. n PROVE batch[i] \in InventoryCommitments'
          BY <4>5
        <5> QED
          BY <4>2, <4>3, <4>4
      <4> QED
        BY <4>1, <4>6, <4>7
    <3>2. CASE front' = front /\ Len(queued') = m + n
               /\ (\A i \in 1 .. m : queued'[i] = queued[i])
               /\ \A i \in m + 1 .. m + n : queued'[i] = stamped[i - m]
      <4>1. \A i \in 1 .. n : i + m \in 1 .. m + n /\ queued'[i + m].commitment = batch[i]
        <5> SUFFICES ASSUME NEW i \in 1 .. n
                     PROVE  i + m \in 1 .. m + n /\ queued'[i + m].commitment = batch[i]
          OBVIOUS
        <5>1. i + m \in m + 1 .. m + n /\ (i + m) - m = i /\ i + m \in 1 .. m + n
          BY <2>1
        <5> QED
          BY <2>1, <3>2, <5>1
      <4>2. \A i \in 1 .. m + n : i \in 1 .. m \/ (i - m \in 1 .. n /\ i \in m + 1 .. m + n)
        BY <2>1
      <4>3. \A i \in 1 .. m : i \in 1 .. m + n
        BY <2>1
      <4>4. InventoryCommitments' \subseteq S \cup InventoryCommitments
        BY <2>1, <3>2, <4>2 DEF InventoryCommitments
      <4>5. S \subseteq InventoryCommitments'
        BY <2>1, <3>2, <4>1 DEF InventoryCommitments
      <4>6. InventoryCommitments \subseteq InventoryCommitments'
        BY <2>1, <3>2, <4>3 DEF InventoryCommitments
      <4> QED
        BY <4>4, <4>5, <4>6
    <3> QED
      BY <2>2, <3>1, <3>2
  <2>4. NoCommitment \notin used \cup S
    BY <1>1, <1>2, ZeroAssumption DEF TypeOK, InventoryType
  <2> HIDE DEF S
  <2> QED
    BY <1>2, <1>3, <2>3, <2>4 DEF Spent
<1>5. /\ Bound' = Bound /\ SealedRequests' = SealedRequests
      /\ RevealedWords' = RevealedWords /\ snapshotRequired' = snapshotRequired
  BY <1>3, SameView
<1>6. Oracle!Post(S)
  <2> HIDE DEF S
  <2> QED
    BY <1>2, <1>3, <1>4, <1>5
       DEF Oracle!Post, Oracle!Commitments, Commitments, Spent, Bound, SealedRequests, RevealedWords
<1> QED
  BY <1>2, <1>6

(* A request that consumes the front takes it out of the inventory; one    *)
(* that needs no commitment asks openly.                                   *)
LEMMA RequestMap ==
  ASSUME RInv, NEW q \in Requesters, NEW g \in BOOLEAN, RequestRandomness(q, g),
         NEW r \in RequestIds, r = nextRequestId
  PROVE  (\E c \in Commitments : Oracle!Bind(r, c, g)) \/ Oracle!AskOpenly(r)
<1> DEFINE k == IF NeedsPrecommit(g) THEN front.commitment ELSE NoCommitment
<1>1. /\ r \in Nat
      /\ requests' = [requests EXCEPT ![r] =
                         [requester |-> q, commitment |-> k,
                          createdAt |-> clock, fulfilledAt |-> 0, word |-> NoWord]]
      /\ snapshotRequired' = IF g THEN snapshotRequired \cup {r} ELSE snapshotRequired
      /\ UNCHANGED <<block, used, snapshotHash, committedAt>>
  BY DEF RequestRandomness, chain, RequestIds
<1>2. TypeOK /\ LogInv /\ SlotInv /\ BindingInv
  BY DEF RInv, IInv
<1>3. requests[r] = NoRequest /\ ~Known(r)
  BY <1>1, <1>2 DEF BindingInv
<1> HIDE DEF k
<1>4. /\ requests'[r].requester = q /\ requests'[r].commitment = k /\ requests'[r].word = NoWord
      /\ \A t \in RequestIds : t # r => requests'[t] = requests[t]
  BY <1>1, <1>2 DEF TypeOK, RequestType
<1>5. Bound[r] = NoOne /\ Bound' = [Bound EXCEPT ![r] = k]
  <2>1. Bound[r] = NoOne
    BY <1>1, <1>3 DEF Bound
  <2>2. Known(r)' /\ \A t \in RequestIds : t # r => (Known(t)' <=> Known(t))
    BY <1>4, ZeroAssumption DEF Known
  <2>3. ASSUME NEW t \in RequestIds
        PROVE  Bound'[t] = IF t = r THEN k ELSE Bound[t]
    <3>1. CASE t = r
      BY <1>4, <2>2, <3>1 DEF Bound
    <3>2. CASE t # r
      BY <1>4, <2>2, <3>2 DEF Bound
    <3> QED
      BY <3>1, <3>2
  <2> QED
    <3>1. /\ Bound = [t \in RequestIds |-> Bound[t]]
          /\ Bound' = [t \in RequestIds |-> Bound'[t]]
      BY DEF Bound
    <3> QED
      BY <2>1, <2>3, <3>1
<1>6. RevealedWords' = RevealedWords /\ SealedRequests' = SealedRequests
  <2>1. requests[r].word = NoWord
    BY <1>3 DEF NoRequest
  <2>2. \A t \in RequestIds : requests'[t].word = requests[t].word
    BY <1>4, <2>1
  <2> QED
    BY <1>1, <2>2 DEF RevealedWords, SealedRequests, Sealed
<1>7. CASE NeedsPrecommit(g)
  <2> DEFINE c == front.commitment
  <2>1. /\ c # NoCommitment /\ front.block < block /\ k = c
        /\ \/ queued # <<>> /\ front' = Head(queued) /\ queued' = Tail(queued)
           \/ queued = <<>> /\ front' = NoEntry /\ queued' = queued
    BY <1>2, <1>7 DEF RequestRandomness, FrontReady, AdvanceFront, TypeOK, ChainType,
                      InventoryType, Entry, k
  <2>2. c \in used /\ c \in Commitments /\ committedAt[c] = front.block /\ committedAt[c] \in Nat
    BY <1>2, <2>1 DEF SlotInv, TypeOK, InventoryType, LogType
  <2>3. 0 < committedAt[c] /\ committedAt[c] < block
    BY <1>2, <2>1, <2>2 DEF LogInv
  <2>4. c \notin Spent
    BY DEF Spent, InventoryCommitments
  <2>5. \A d \in used : d \in InventoryCommitments' <=> (d \in InventoryCommitments /\ d # c)
    <3>1. /\ DOMAIN queued = 1 .. Len(queued) /\ Len(queued) \in Nat
          /\ \A i \in 1 .. Len(queued) : queued[i].commitment # c
      BY <1>2 DEF SlotInv, TypeOK, InventoryType
    <3>2. CASE queued # <<>> /\ front' = Head(queued) /\ queued' = Tail(queued)
      <4>1. /\ front' = queued[1] /\ Len(queued) \in Nat \ {0}
            /\ DOMAIN queued' = 1 .. Len(queued) - 1
            /\ \A i \in 1 .. Len(queued) - 1 : queued'[i] = queued[i + 1]
        BY <1>2, <3>2, HeadTailProperties, EmptySeq, LenProperties DEF TypeOK, InventoryType
      <4>2. \A i \in 1 .. Len(queued) :
              i = 1 \/ (i - 1 \in 1 .. Len(queued) - 1 /\ queued'[i - 1] = queued[i])
        BY <4>1
      <4>3. 1 \in 1 .. Len(queued) /\ \A i \in 1 .. Len(queued) - 1 : i + 1 \in 1 .. Len(queued)
        BY <4>1
      <4>4. InventoryCommitments' = {queued[i].commitment : i \in 1 .. Len(queued)}
        <5>1. InventoryCommitments' =
                {front'.commitment} \cup {queued'[i].commitment : i \in 1 .. Len(queued) - 1}
          BY <4>1 DEF InventoryCommitments
        <5>2. InventoryCommitments' \subseteq {queued[i].commitment : i \in 1 .. Len(queued)}
          BY <4>1, <4>3, <5>1
        <5>3. \A i \in 1 .. Len(queued) : queued[i].commitment \in InventoryCommitments'
          BY <4>1, <4>2, <5>1
        <5> QED
          BY <5>2, <5>3
      <4>5. InventoryCommitments = {c} \cup {queued[i].commitment : i \in 1 .. Len(queued)}
        BY <3>1 DEF InventoryCommitments
      <4> QED
        BY <3>1, <4>4, <4>5
    <3>3. CASE queued = <<>> /\ front' = NoEntry /\ queued' = queued
      <4>1. InventoryCommitments = {c} /\ InventoryCommitments' = {NoCommitment}
        BY <3>1, <3>3, EmptySeq DEF InventoryCommitments, NoEntry
      <4>2. NoCommitment \notin used
        BY <1>2, ZeroAssumption DEF TypeOK, InventoryType
      <4> QED
        BY <4>1, <4>2
    <3> QED
      BY <2>1, <3>2, <3>3
  <2>6. Spent' = Spent \cup {c}
    BY <1>1, <2>2, <2>5 DEF Spent
  <2>7. Oracle!Bind(r, c, g)
    <3> HIDE DEF c
    <3> QED
      BY <1>1, <1>5, <1>6, <2>1, <2>3, <2>4, <2>6
         DEF Oracle!Bind, Spent, Bound, SealedRequests, RevealedWords
  <2> QED
    BY <2>2, <2>7
<1>8. CASE ~NeedsPrecommit(g)
  <2>1. k = NoCommitment /\ ~g /\ UNCHANGED <<front, queued>>
    BY <1>8 DEF k, RequestRandomness, NeedsPrecommit
  <2>2. Spent' = Spent
    BY <1>1, <2>1, SameSpent DEF inventory
  <2>3. Oracle!AskOpenly(r)
    BY <1>1, <1>5, <1>6, <2>1, <2>2
       DEF Oracle!AskOpenly, Spent, Bound, SealedRequests, RevealedWords
  <2> QED
    BY <2>3
<1> QED
  BY <1>7, <1>8

(* Each transaction of the contract is a step of the oracle, or none.      *)
LEMMA StepMap == RInv /\ [Next]_vars => [Oracle!Next]_(Oracle!vars)
<1> SUFFICES ASSUME RInv, [Next]_vars PROVE Oracle!Next \/ UNCHANGED Oracle!vars
  OBVIOUS
<1>1. TypeOK /\ Oracle!Commitments = Commitments
  BY DEF RInv, IInv, Oracle!Commitments, Commitments
<1>2. CASE NextBlock
  BY <1>2, TickMap DEF Oracle!Next
<1>3. CASE OwnerStep
  <2>1. CASE \E r \in RequestIds, old \in Commitments \cup {NoCommitment}, new \in Commitments :
               RecoverStaleRequestCommitment(r, old, new)
    BY <1>1, <2>1, RecoverMap DEF Oracle!Next
  <2>2. CASE UNCHANGED <<inventory, requestVars, committedAt, block>>
    BY <2>2, QuietMap
  <2> QED
    BY <1>3, <2>1, <2>2 DEF OwnerStep, SetRequesterAuthorization, SetFulfiller,
                            SetPrecommitRequired, Pause, Unpause, chain, log
<1>4. CASE FulfillerStep
  BY <1>1, <1>4, CommitMap, RevealMap DEF FulfillerStep, Oracle!Next
<1>5. CASE RequesterStep
  <2>1. CASE \E q \in Requesters, g \in BOOLEAN : RequestRandomness(q, g)
    <3>1. PICK q \in Requesters, g \in BOOLEAN : RequestRandomness(q, g)
      BY <2>1
    <3>2. PICK r \in RequestIds : r = nextRequestId
      BY <3>1 DEF RequestRandomness
    <3>3. (\E c \in Commitments : Oracle!Bind(r, c, g)) \/ Oracle!AskOpenly(r)
      BY <3>1, <3>2, RequestMap
    <3> QED
      BY <1>1, <3>3 DEF Oracle!Next
  <2>2. CASE \E q \in Requesters, r \in RequestIds, s \in Snapshots : SealBattleSnapshot(q, r, s)
    BY <1>1, <2>2, SealMap DEF Oracle!Next
  <2> QED
    BY <1>5, <2>1, <2>2 DEF RequesterStep
<1>6. CASE UNCHANGED vars
  BY <1>6, QuietMap DEF vars, chain, log
<1> QED
  BY <1>2, <1>3, <1>4, <1>5, <1>6 DEF Next

(* Every behaviour of RandomnessEngine.sol is a behaviour of the abstract  *)
(* oracle: commits post, requests bind the oldest unspent commitment of an *)
(* earlier block, recoveries rebind, seals and reveals follow, and nothing *)
(* the owner or the fulfiller does in between shows.                       *)
THEOREM EngineImplementsOracle == Spec => ImplementsOracle
<1>1. Init => Oracle!Init /\ RInv
  BY OracleInit, AgeInit
<1>2. RInv /\ [Next]_vars => RInv' /\ [Oracle!Next]_(Oracle!vars)
  BY AgeStep, StepMap
<1> QED
  BY <1>1, <1>2, PTL DEF Spec, ImplementsOracle, Oracle!Spec

=============================================================================
