------------------------- MODULE RandomnessEngine -------------------------
(***************************************************************************)
(* The on-chain randomness oracle of packages/contracts/src/               *)
(* RandomnessEngine.sol.  The off-chain fulfiller posts commitments to     *)
(* random words into a bounded FIFO inventory; a game module that needs    *)
(* randomness consumes the front commitment; the fulfiller later reveals   *)
(* the word.  Battle requests are "gated": the reveal waits until the      *)
(* requester has sealed the battle snapshot.  The owner may re-precommit a *)
(* request whose secret was lost.                                          *)
(*                                                                         *)
(* One action per external function.  A transaction that would revert is   *)
(* an action that is not enabled.                                          *)
(***************************************************************************)
EXTENDS Naturals, Sequences, FiniteSets

CONSTANTS
    Words,          \* the non-zero random words
    Fulfillers,     \* the accounts the owner may appoint as fulfiller
    Requesters,     \* the contracts that may ask for randomness
    Snapshots,      \* the non-zero battle snapshot hashes
    NoOne, NoWord, NoCommitment, NoSnapshot,    \* Solidity's zero values
    MaxInventory,   \* MAX_COMMITMENT_INVENTORY, 16 in the source
    StaleDelay,     \* STALE_REQUEST_RECOVERY_DELAY, one hour in the source
    BlockGaps,      \* how far block.timestamp may move from block to block
    MaxRequests,    \* bound: the requests a behaviour may make
    MaxBlock,       \* bound: the blocks a behaviour may reach
    MaxBatch        \* bound: the commitments in one batch

ASSUME BoundsAssumption ==
    /\ MaxInventory \in Nat \ {0} /\ StaleDelay \in Nat
    /\ MaxRequests \in Nat /\ MaxBlock \in Nat /\ MaxBatch \in Nat
    /\ BlockGaps \subseteq Nat \ {0}

\* randomnessCommitment(): a keccak256 under a domain separator, modelled as
\* an injective constructor (no two words share a commitment).
Commitment(w) == <<"veydrift.randomness-commitment.v1", w>>

Commitments == {Commitment(w) : w \in Words}
RequestIds == 1 .. MaxRequests

ASSUME ZeroAssumption ==
    /\ NoOne \notin Requesters \cup Fulfillers
    /\ NoWord \notin Words
    /\ NoCommitment \notin Commitments
    /\ NoOne \notin Commitments \cup {NoCommitment}
    /\ NoSnapshot \notin Snapshots

VARIABLES
    block,              \* block.number
    clock,              \* block.timestamp
    paused,             \* PausableUpgradeable
    fulfiller,
    precommitRequired,
    authorized,         \* the set authorizedRequesters maps to true
    front,              \* pendingCommitment with pendingCommitmentBlock
    queued,             \* _queuedCommitments[_head .. _tail - 1], with blocks
    used,               \* the set usedCommitment maps to true
    nextRequestId,
    requests,           \* _requests
    recoveryBlock,      \* _recoveryCommitmentBlocks, 0 when none
    snapshotRequired,   \* battleRequestPolicy: the gated requests,
    snapshotHash,       \* and the sealed snapshots
    committedAt,        \* the event log: block of RandomnessCommitted or of
                        \* StaleRandomnessRequestRecovered, 0 when absent
    requestedAt         \* the event log: block of RandomnessRequested

admin == <<paused, fulfiller, precommitRequired, authorized>>
chain == <<block, clock>>
inventory == <<front, queued, used>>
requestVars == <<nextRequestId, requests, recoveryBlock, snapshotRequired, snapshotHash>>
log == <<committedAt, requestedAt>>
vars == <<chain, admin, inventory, requestVars, log>>

NoEntry == [commitment |-> NoCommitment, block |-> 0]
NoRequest == [requester |-> NoOne, commitment |-> NoCommitment,
              createdAt |-> 0, fulfilledAt |-> 0, word |-> NoWord]

Entry == [commitment : Commitments \cup {NoCommitment}, block : Nat]
Request == [requester : Requesters \cup {NoOne},
            commitment : Commitments \cup {NoCommitment},
            createdAt : Nat, fulfilledAt : Nat, word : Words \cup {NoWord}]

RequestType ==
    /\ nextRequestId \in Nat \ {0}
    /\ requests \in [RequestIds -> Request]
    /\ recoveryBlock \in [RequestIds -> Nat]
    /\ snapshotRequired \in SUBSET RequestIds
    /\ snapshotHash \in [RequestIds -> Snapshots \cup {NoSnapshot}]

SwitchType == paused \in BOOLEAN /\ precommitRequired \in BOOLEAN
RoleType == fulfiller \in Fulfillers /\ authorized \in SUBSET Requesters
ChainType == block \in Nat \ {0} /\ clock \in Nat \ {0}
InventoryType == front \in Entry /\ queued \in Seq(Entry) /\ used \in SUBSET Commitments
LogType == committedAt \in [Commitments -> Nat] /\ requestedAt \in [RequestIds -> Nat]

TypeOK ==
    SwitchType /\ RoleType /\ ChainType /\ InventoryType /\ RequestType /\ LogType

-----------------------------------------------------------------------------
Known(r) == requests[r].requester # NoOne
Fulfilled(r) == requests[r].fulfilledAt # 0
Gated(r) == r \in snapshotRequired
Sealed(r) == snapshotHash[r] # NoSnapshot
Recovered(r) == recoveryBlock[r] # 0

InventoryCount ==
    IF front.commitment = NoCommitment THEN 0 ELSE 1 + Len(queued)

\* Every commitment of the inventory, the front included.
InventoryCommitments ==
    {front.commitment} \cup {queued[i].commitment : i \in DOMAIN queued}

\* Mutant of MayCommit: the usedCommitment check is lost.
MayCommit_ForgetsUsed(batch) ==
    /\ \A i \in DOMAIN batch : batch[i] \in Commitments /\ batch[i] \notin InventoryCommitments
    /\ \A i, j \in DOMAIN batch : i # j => batch[i] # batch[j]
    /\ InventoryCount + Len(batch) <= MaxInventory

\* commitRandomnessBatch reverts as a whole when one commitment is zero,
\* already in the inventory, over the limit, or ever used before; a
\* duplicate inside the batch is caught by the same checks.
MayCommit(batch) ==
    /\ \A i \in DOMAIN batch : /\ batch[i] \in Commitments
                               /\ batch[i] \notin InventoryCommitments
                               /\ batch[i] \notin used
    /\ \A i, j \in DOMAIN batch : i # j => batch[i] # batch[j]
    /\ InventoryCount + Len(batch) <= MaxInventory

\* Mutant of NeedsPrecommit: a battle request follows the owner's switch.
NeedsPrecommit_BySwitch(gated) == precommitRequired

\* The requester's transaction consumes the front of the inventory, unless
\* precommits are off and the request does not force one.
NeedsPrecommit(gated) == gated \/ precommitRequired

\* Mutant of FrontReady: a commitment of the same block is accepted.
FrontReady_SameBlock == front.commitment # NoCommitment /\ block >= front.block

FrontReady ==
    /\ front.commitment # NoCommitment
    /\ block > front.block

\* Mutant of AdvanceFront: the last queued commitment is left behind an empty front.
AdvanceFront_LeavesHole ==
    IF Len(queued) > 1
    THEN front' = Head(queued) /\ queued' = Tail(queued)
    ELSE front' = NoEntry /\ UNCHANGED queued

AdvanceFront ==
    IF queued # <<>>
    THEN front' = Head(queued) /\ queued' = Tail(queued)
    ELSE front' = NoEntry /\ UNCHANGED queued

Init ==
    /\ block = 1
    /\ clock = 1
    /\ paused = FALSE
    /\ fulfiller \in Fulfillers
    /\ precommitRequired = TRUE
    /\ authorized = {}
    /\ front = NoEntry
    /\ queued = <<>>
    /\ used = {}
    /\ nextRequestId = 1
    /\ requests = [r \in RequestIds |-> NoRequest]
    /\ recoveryBlock = [r \in RequestIds |-> 0]
    /\ snapshotRequired = {}
    /\ snapshotHash = [r \in RequestIds |-> NoSnapshot]
    /\ committedAt = [c \in Commitments |-> 0]
    /\ requestedAt = [r \in RequestIds |-> 0]

-----------------------------------------------------------------------------
\* The chain makes its next block.
NextBlock ==
    /\ block < MaxBlock
    /\ block' = block + 1
    /\ \E gap \in BlockGaps : clock' = clock + gap
    /\ UNCHANGED <<admin, inventory, requestVars, log>>

-----------------------------------------------------------------------------
(* The owner's functions. *)

SetRequesterAuthorization(q, allow) ==
    /\ authorized' = IF allow THEN authorized \cup {q} ELSE authorized \ {q}
    /\ UNCHANGED <<paused, fulfiller, precommitRequired>>
    /\ UNCHANGED <<chain, inventory, requestVars, log>>

\* Mutant of SetFulfiller: the zero address is accepted.
SetFulfiller_AcceptsZero(f) ==
    /\ fulfiller' \in {f, NoOne}
    /\ UNCHANGED <<paused, precommitRequired, authorized>>
    /\ UNCHANGED <<chain, inventory, requestVars, log>>

SetFulfiller(f) ==
    /\ fulfiller' = f
    /\ UNCHANGED <<paused, precommitRequired, authorized>>
    /\ UNCHANGED <<chain, inventory, requestVars, log>>

SetPrecommitRequired(required) ==
    /\ precommitRequired' = required
    /\ UNCHANGED <<paused, fulfiller, authorized>>
    /\ UNCHANGED <<chain, inventory, requestVars, log>>

Pause ==
    /\ ~paused
    /\ paused' = TRUE
    /\ UNCHANGED <<fulfiller, precommitRequired, authorized>>
    /\ UNCHANGED <<chain, inventory, requestVars, log>>

Unpause ==
    /\ paused
    /\ paused' = FALSE
    /\ UNCHANGED <<fulfiller, precommitRequired, authorized>>
    /\ UNCHANGED <<chain, inventory, requestVars, log>>

\* recoverStaleRequestCommitment: re-precommit an ungated request whose
\* secret was lost.  It works while paused, at most once per request.
RecoverStaleRequestCommitment(r, expected, replacement) ==
    /\ replacement # NoCommitment
    /\ Known(r) /\ ~Fulfilled(r) /\ ~Gated(r) /\ ~Recovered(r)
    /\ requests[r].commitment = expected
    /\ replacement \notin used
    /\ clock >= requests[r].createdAt + StaleDelay
    /\ used' = used \cup {replacement}
    /\ requests' = [requests EXCEPT ![r].commitment = replacement]
    /\ recoveryBlock' = [recoveryBlock EXCEPT ![r] = block]
    /\ committedAt' = [committedAt EXCEPT ![replacement] = block]
    /\ UNCHANGED <<chain, admin, front, queued, nextRequestId, snapshotRequired,
                   snapshotHash, requestedAt>>

-----------------------------------------------------------------------------
(* The fulfiller's functions. *)

\* commitRandomnessBatch; a batch of one is commitRandomness, and an empty
\* one changes nothing.
CommitRandomnessBatch(caller, batch) ==
    LET stamped == [i \in DOMAIN batch |-> [commitment |-> batch[i], block |-> block]]
    IN  /\ ~paused
        /\ caller = fulfiller
        /\ batch # <<>>
        /\ MayCommit(batch)
        /\ IF front.commitment = NoCommitment
           THEN front' = Head(stamped) /\ queued' = queued \o Tail(stamped)
           ELSE queued' = queued \o stamped /\ UNCHANGED front
        /\ used' = used \cup {batch[i] : i \in DOMAIN batch}
        /\ committedAt' = [c \in Commitments |->
                             IF \E i \in DOMAIN batch : batch[i] = c
                             THEN block ELSE committedAt[c]]
        /\ UNCHANGED <<chain, admin, requestVars, requestedAt>>

FulfillRandomness(caller, r, w) ==
    /\ ~paused
    /\ caller = fulfiller
    /\ Known(r) /\ ~Fulfilled(r)
    /\ Gated(r) => Sealed(r)
    /\ Recovered(r) => block > recoveryBlock[r]
    /\ \/ requests[r].commitment = NoCommitment
       \/ requests[r].commitment = Commitment(w)
    /\ requests' = [requests EXCEPT ![r].fulfilledAt = clock, ![r].word = w]
    /\ recoveryBlock' = [recoveryBlock EXCEPT ![r] = 0]
    /\ UNCHANGED <<chain, admin, inventory, nextRequestId, snapshotRequired,
                   snapshotHash, log>>

-----------------------------------------------------------------------------
(* The requesters' functions. *)

\* requestRandomness (gated = FALSE) and requestBattleRandomness (TRUE).
RequestRandomness(caller, gated) ==
    LET r == nextRequestId
        c == IF NeedsPrecommit(gated) THEN front.commitment ELSE NoCommitment
    IN  /\ ~paused
        /\ caller \in authorized
        /\ r \in RequestIds
        /\ IF NeedsPrecommit(gated)
           THEN FrontReady /\ AdvanceFront
           ELSE UNCHANGED <<front, queued>>
        /\ nextRequestId' = nextRequestId + 1
        /\ requests' = [requests EXCEPT ![r] =
                          [requester |-> caller, commitment |-> c,
                           createdAt |-> clock, fulfilledAt |-> 0, word |-> NoWord]]
        /\ snapshotRequired' = IF gated THEN snapshotRequired \cup {r} ELSE snapshotRequired
        /\ requestedAt' = [requestedAt EXCEPT ![r] = block]
        /\ UNCHANGED <<chain, admin, used, recoveryBlock, snapshotHash, committedAt>>

\* Mutant of SealBattleSnapshot: a later seal replaces the snapshot.
SealBattleSnapshot_Replaces(caller, r, snapshot) ==
    /\ ~paused
    /\ Known(r) /\ requests[r].requester = caller
    /\ Gated(r)
    /\ snapshotHash' = [snapshotHash EXCEPT ![r] = snapshot]
    /\ UNCHANGED <<chain, admin, inventory, nextRequestId, requests, recoveryBlock,
                   snapshotRequired, log>>

\* sealBattleSnapshot: the original requester, authorised or not; a retry
\* with the sealed hash changes nothing, another hash reverts.
SealBattleSnapshot(caller, r, snapshot) ==
    /\ ~paused
    /\ Known(r) /\ requests[r].requester = caller
    /\ Gated(r)
    /\ snapshot # NoSnapshot
    /\ snapshotHash[r] \in {NoSnapshot, snapshot}
    /\ snapshotHash' = [snapshotHash EXCEPT ![r] = snapshot]
    /\ UNCHANGED <<chain, admin, inventory, nextRequestId, requests, recoveryBlock,
                   snapshotRequired, log>>

-----------------------------------------------------------------------------
Batches == UNION {[1 .. n -> Commitments] : n \in 1 .. MaxBatch}

OwnerStep ==
    \/ \E q \in Requesters, allow \in BOOLEAN : SetRequesterAuthorization(q, allow)
    \/ \E f \in Fulfillers : SetFulfiller(f)
    \/ \E required \in BOOLEAN : SetPrecommitRequired(required)
    \/ Pause
    \/ Unpause
    \/ \E r \in RequestIds, old \in Commitments \cup {NoCommitment}, new \in Commitments :
           RecoverStaleRequestCommitment(r, old, new)

FulfillerStep ==
    \/ \E f \in Fulfillers, batch \in Batches : CommitRandomnessBatch(f, batch)
    \/ \E f \in Fulfillers, r \in RequestIds, w \in Words : FulfillRandomness(f, r, w)

RequesterStep ==
    \/ \E q \in Requesters, gated \in BOOLEAN : RequestRandomness(q, gated)
    \/ \E q \in Requesters, r \in RequestIds, s \in Snapshots : SealBattleSnapshot(q, r, s)

Next == NextBlock \/ OwnerStep \/ FulfillerStep \/ RequesterStep

Spec == Init /\ [][Next]_vars

-----------------------------------------------------------------------------
(* Safety. *)

\* One commitment stands in one place: no two inventory slots, no two
\* requests, and no slot and a request share it, whatever the owner recovers
\* and whoever the fulfiller is.
InventoryEntries ==
    IF front.commitment = NoCommitment THEN queued ELSE <<front>> \o queued

CommitmentServesOneRequest ==
    /\ \A i, j \in DOMAIN InventoryEntries :
           i # j => InventoryEntries[i].commitment # InventoryEntries[j].commitment
    /\ \A r \in RequestIds : requests[r].commitment # NoCommitment =>
           /\ \A i \in DOMAIN InventoryEntries :
                  InventoryEntries[i].commitment # requests[r].commitment
           /\ \A s \in RequestIds :
                  r # s => requests[s].commitment # requests[r].commitment

\* The FIFO has no hole: the front slot is empty only when the queue behind
\* it is, entries stand in commit order, and the limit holds.
FifoWellFormed ==
    /\ front.commitment = NoCommitment => front = NoEntry /\ queued = <<>>
    /\ Len(InventoryEntries) <= MaxInventory
    /\ \A i, j \in DOMAIN InventoryEntries :
           i < j => InventoryEntries[i].block <= InventoryEntries[j].block

\* The word of a gated battle was fixed before the battle asked for it, in a
\* strictly earlier block, and is out only after its snapshot was sealed: no
\* owner recovery, precommit switch, pause or key rotation in between can
\* break the order commit < request < seal <= reveal.
BattleWordFixedInAdvance ==
    \A r \in RequestIds : Gated(r) =>
        /\ requests[r].commitment \in Commitments
        /\ 0 < committedAt[requests[r].commitment]
        /\ committedAt[requests[r].commitment] < requestedAt[r]
        /\ Fulfilled(r) => Sealed(r) /\ requests[r].commitment = Commitment(requests[r].word)

(* Action properties. *)

\* What the comment on usedCommitment says, literally: a request that is made
\* after a word was revealed is not bound to that word.
RevealedWordNeverBoundLater ==
    [][\A r, s \in RequestIds : Fulfilled(r) /\ ~Known(s) /\ Known(s)' =>
         requests'[s].commitment # Commitment(requests[r].word)]_vars

\* A fulfilled request is final, a gated request keeps its commitment from
\* birth, and a sealed snapshot is never replaced, not even by its own
\* requester after it saw the word.
SettledRequestsAreFinal ==
    [][\A r \in RequestIds :
         /\ Fulfilled(r) => requests'[r] = requests[r]
         /\ Gated(r) => requests'[r].commitment = requests[r].commitment /\ Gated(r)'
         /\ Sealed(r) => snapshotHash'[r] = snapshotHash[r]]_vars

\* Requests draw commitments oldest first: the commitment a new request
\* binds is no younger than any that stays in the inventory.
OldestCommitmentFirst ==
    [][\A r \in RequestIds : ~Known(r) /\ Known(r)' /\ requests'[r].commitment # NoCommitment =>
         \A i \in DOMAIN InventoryEntries' :
             committedAt[requests'[r].commitment] <= InventoryEntries'[i].block]_vars
(* Refinement: the contract keeps the promises of PrecommitOracle. *)

Oracle == INSTANCE PrecommitOracle WITH
    Requests <- RequestIds,
    Open <- NoCommitment,
    Unbound <- NoOne,
    now <- block,
    posted <- committedAt,
    spent <- {c \in used : c \notin InventoryCommitments},
    bound <- [r \in RequestIds |-> IF Known(r) THEN requests[r].commitment ELSE NoOne],
    gated <- snapshotRequired,
    sealed <- {r \in RequestIds : Sealed(r)},
    word <- [r \in RequestIds |-> requests[r].word]

\* Every behaviour of the contract is a behaviour of the abstract oracle: the
\* FIFO inventory, the used set, the recovery block and the policies together
\* give each request its own earlier commitment and hold gated reveals back.
ImplementsOracle == Oracle!Spec

=============================================================================
