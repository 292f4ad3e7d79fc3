------------------------ MODULE RandomnessCommitter ------------------------
(***************************************************************************)
(* The off-chain half of the randomness oracle: RandomnessCommitmentWorker *)
(* and SqliteRandomnessCommitmentStore (apps/backend/src/randomness.ts)    *)
(* with their chain client (randomnessCommitter.ts).  A few replicas share *)
(* one SQLite store; the one that holds the store's lease runs a tick:     *)
(* load the secrets, refill the on-chain inventory, journal the requests,  *)
(* reveal the consumed words, and erase the finalized ones.                *)
(*                                                                         *)
(* The environment: transactions that were sent may be mined at any later  *)
(* time, blocks that are not final may be reorganised away, RPC calls may  *)
(* fail after they took effect, and processes may crash between any two    *)
(* steps.  RandomnessEngine models the contract in full; here it is        *)
(* reduced to the parts that the worker reads (no block numbers, roles or  *)
(* owner functions; precommits are required).                              *)
(*                                                                         *)
(* A commitment and its secret word are one number, in order of creation.  *)
(***************************************************************************)
EXTENDS Naturals, Sequences, FiniteSets, Functions, FiniteSetsExt

CONSTANTS
    Replicas,       \* the backend processes of a rolling deployment
    Target,         \* targetCommitments
    MaxInventory,   \* MAX_COMMITMENT_INVENTORY
    MaxWords,       \* bound: the random words a behaviour may draw
    MaxRequests,    \* bound: the requests on chain
    MaxFaults       \* bound: crashes, stalls, reorganisations and failed calls

ASSUME ConstantsAssumption ==
    /\ Target \in 1 .. MaxInventory
    /\ MaxWords \in Nat /\ MaxRequests \in Nat /\ MaxFaults \in Nat

Words == 1 .. MaxWords
RequestIds == 1 .. MaxRequests

Free == "free"          \* no row in randomness_committer_lease
Orphan == "orphan"      \* the row of a holder that crashed
ASSUME LeaseAssumption == Free \notin Replicas /\ Orphan \notin Replicas

VARIABLES
    chain,      \* the engine's state at the latest block
    final,      \* the engine's state at the finalized block
    batches,    \* the commitRandomnessBatch transactions ever sent
    reveals,    \* the fulfillRandomness transactions ever sent
    lease,      \* randomness_committer_lease: its holder, Orphan or Free
    expired,    \* is the expiry time of the lease's row past?
    db,         \* randomness_commitments and randomness_pending_reveals
    local,      \* each replica's tick: its step and its copies of the tables
    failures,   \* each process's list of failed reveals: the commitment asked for
    nextWord,   \* the next word secureRandomUint256 draws
    faults,     \* how many faults happened
    overwritten \* history: did a replica save tables that are no longer its own?

tables == <<db, overwritten>>
vars == <<chain, final, batches, reveals, lease, expired, db, local, failures,
          nextWord, faults, overwritten>>

-----------------------------------------------------------------------------
(* The engine, as far as the worker sees it. *)

EmptyChain == [inventory |-> <<>>, used |-> {}, requests |-> <<>>]

Requested(ch, r) == r \in DOMAIN ch.requests
Unfulfilled(ch) == {r \in DOMAIN ch.requests : ~ch.requests[r].fulfilled}
AwaitingSnapshot(ch, r) == ch.requests[r].gated /\ ~ch.requests[r].sealed

AcceptsBatch(ch, batch) ==
    /\ Range(batch) \cap ch.used = {}
    /\ Len(ch.inventory) + Len(batch) <= MaxInventory

AcceptsReveal(ch, r, w) ==
    /\ r \in Unfulfilled(ch)
    /\ ch.requests[r].commitment = w
    /\ ~AwaitingSnapshot(ch, r)

-----------------------------------------------------------------------------
(* The store and the worker's copies of it. *)

\* A row of randomness_pending_reveals: the commitment of the request, and
\* the state of the record copied with it, if the worker had the word.
RecordCopies == {"missing", "staged", "committed"}
NoReveal == [commitment |-> 0, record |-> "missing"]
Journal == [RequestIds -> [commitment : {0} \cup Words, record : RecordCopies]]
EmptyJournal == [r \in RequestIds |-> NoReveal]

\* `records' are the words a table or a copy holds; `staged' are those of
\* them with committedAtBlock = null.
EmptyTables == [records |-> {}, staged |-> {}, journal |-> EmptyJournal]

IdleTick == [step |-> "idle", records |-> {}, staged |-> {},
             journal |-> EmptyJournal, batch |-> <<>>, todo |-> {}]

Steps == {"idle", "refill", "stage", "commit", "confirm", "journal", "checkpoint",
          "reveal", "save", "saveReveals"}

\* No request of this process failed.
NoFailures == [r \in RequestIds |-> 0]

Journaled(j) == {r \in RequestIds : j[r].commitment # 0}
CopiedRecords(j, states) == {j[r].commitment : r \in {s \in RequestIds : j[s].record \in states}}

\* What survives a crash: the words of either table.
Durable == db.records \cup CopiedRecords(db.journal, {"staged", "committed"})

TypeOK ==
    /\ \A ch \in {chain, final} :
           /\ ch.inventory \in Seq(Words) /\ ch.used \subseteq Words
           /\ ch.requests \in Seq([commitment : Words, gated : BOOLEAN,
                                   sealed : BOOLEAN, fulfilled : BOOLEAN])
    /\ batches \subseteq Seq(Words)
    /\ reveals \subseteq RequestIds \X Words
    /\ lease \in Replicas \cup {Free, Orphan} /\ expired \in BOOLEAN
    /\ db.staged \subseteq db.records /\ db.records \subseteq Words /\ db.journal \in Journal
    /\ \A p \in Replicas :
           /\ local[p].step \in Steps
           /\ local[p].staged \subseteq local[p].records
           /\ local[p].records \subseteq 1 .. nextWord - 1
           /\ local[p].journal \in Journal
           /\ local[p].batch \in Seq(local[p].records)
           /\ local[p].todo \subseteq RequestIds
    /\ failures \in [Replicas -> [RequestIds -> {0} \cup Words]]
    /\ nextWord \in 1 .. MaxWords + 1
    /\ faults \in 0 .. MaxFaults /\ overwritten \in BOOLEAN

Init ==
    /\ chain = EmptyChain
    /\ final = EmptyChain
    /\ batches = {}
    /\ reveals = {}
    /\ lease = Free
    /\ expired = FALSE
    /\ db = EmptyTables
    /\ local = [p \in Replicas |-> IdleTick]
    /\ failures = [p \in Replicas |-> NoFailures]
    /\ nextWord = 1
    /\ faults = 0
    /\ overwritten = FALSE

-----------------------------------------------------------------------------
(* The chain and its other users. *)

\* A game module draws the front commitment for a request.
Request(gated) ==
    /\ Len(chain.requests) < MaxRequests
    /\ chain.inventory # <<>>
    /\ chain' = [chain EXCEPT
                   !.inventory = Tail(@),
                   !.requests = Append(@, [commitment |-> Head(chain.inventory),
                                           gated |-> gated, sealed |-> FALSE,
                                           fulfilled |-> FALSE])]
    /\ UNCHANGED <<final, batches, reveals, lease, expired, tables, local, failures, nextWord, faults>>

Seal(r) ==
    /\ Requested(chain, r) /\ AwaitingSnapshot(chain, r)
    /\ chain' = [chain EXCEPT !.requests[r].sealed = TRUE]
    /\ UNCHANGED <<final, batches, reveals, lease, expired, tables, local, failures, nextWord, faults>>

MineBatch(batch) ==
    /\ batch \in batches
    /\ AcceptsBatch(chain, batch)
    /\ chain' = [chain EXCEPT !.inventory = @ \o batch, !.used = @ \cup Range(batch)]
    /\ UNCHANGED <<final, batches, reveals, lease, expired, tables, local, failures, nextWord, faults>>

MineReveal(r, w) ==
    /\ <<r, w>> \in reveals
    /\ AcceptsReveal(chain, r, w)
    /\ chain' = [chain EXCEPT !.requests[r].fulfilled = TRUE]
    /\ UNCHANGED <<final, batches, reveals, lease, expired, tables, local, failures, nextWord, faults>>

Finalize ==
    /\ final # chain
    /\ final' = chain
    /\ UNCHANGED <<chain, batches, reveals, lease, expired, tables, local, failures, nextWord, faults>>

\* The blocks after the finalized one are replaced.  Their transactions may
\* be mined again, in another order, or never.
Reorganise ==
    /\ chain # final /\ faults < MaxFaults
    /\ chain' = final
    /\ faults' = faults + 1
    /\ UNCHANGED <<final, batches, reveals, lease, expired, tables, local, failures, nextWord>>

-----------------------------------------------------------------------------
(* The lease: acquireLease, renewLease, and the release in withExclusiveLock. *)

Active(p) == local[p].step # "idle"
Saving(p) == local[p].step \in {"stage", "checkpoint", "save", "saveReveals"}

\* A save does not look at the lease: is the table of another holder replaced?
SaveOf(p) == overwritten' = (overwritten \/ lease # p)

\* A tick starts when the lease is won, from the durable tables; the
\* journal's record copies replace the rows of the records table.
BeginTick(p) ==
    LET copied == CopiedRecords(db.journal, {"staged", "committed"})
        staged == (db.staged \ copied) \cup CopiedRecords(db.journal, {"staged"})
    IN  /\ ~Active(p)
        /\ lease = Free \/ expired
        /\ lease' = p /\ expired' = FALSE
        /\ local' = [local EXCEPT ![p] = [IdleTick EXCEPT
                       !.step = "refill", !.records = db.records \cup copied,
                       !.staged = staged, !.journal = db.journal]]
        /\ UNCHANGED <<chain, final, batches, reveals, tables, failures, nextWord, faults>>

\* The row expires 90 s after the last renewal.  A live holder renews it
\* every 15 s, so only a crashed holder's row expires, or a stalled one's:
\* a process may stall at any point of its tick.
ExpireLease ==
    /\ ~expired
    /\ \/ lease = Orphan /\ UNCHANGED faults
       \/ lease \in Replicas /\ faults < MaxFaults /\ faults' = faults + 1
    /\ expired' = TRUE
    /\ UNCHANGED <<chain, final, batches, reveals, lease, tables, local, failures, nextWord>>

\* The renewal timer of a stalled process extends an expired row that is
\* still its own ...
RenewLease(p) ==
    /\ lease = p /\ expired
    /\ expired' = FALSE
    /\ UNCHANGED <<chain, final, batches, reveals, lease, tables, local, failures, nextWord, faults>>

\* ... and ends the process when the row is another's (the timer throws).
LeaseLost(p) ==
    /\ Active(p) /\ lease # p
    /\ local' = [local EXCEPT ![p] = IdleTick]
    /\ failures' = [failures EXCEPT ![p] = NoFailures]
    /\ UNCHANGED <<chain, final, batches, reveals, lease, expired, tables, nextWord, faults>>

\* The timer runs before any step of the tick that waits for the chain, but
\* not between a chain read and the save that follows it without a wait.
MayContinue(p) == (lease = p /\ ~expired) \/ Saving(p)

Crash(p) ==
    /\ Active(p) /\ faults < MaxFaults
    /\ local' = [local EXCEPT ![p] = IdleTick]
    /\ lease' = IF lease = p THEN Orphan ELSE lease
    /\ failures' = [failures EXCEPT ![p] = NoFailures]
    /\ faults' = faults + 1
    /\ UNCHANGED <<chain, final, batches, reveals, expired, tables, nextWord>>

\* The end of withExclusiveLock: DELETE ... WHERE holder = ? leaves another
\* holder's row alone.
EndTick(p) ==
    /\ local' = [local EXCEPT ![p] = IdleTick]
    /\ lease' = IF lease = p THEN Free ELSE lease
    /\ expired' = (expired /\ lease # p)

\* A read of the chain or a save fails where the tick does not catch it: the
\* tick is rejected, and the lease released.
TickFails(p) ==
    /\ local[p].step \in {"refill", "journal", "checkpoint", "save", "saveReveals"}
    /\ faults < MaxFaults /\ faults' = faults + 1
    /\ EndTick(p)
    /\ UNCHANGED <<chain, final, batches, reveals, tables, failures, nextWord>>

-----------------------------------------------------------------------------
(* The tick: tickWithFreshStore. *)

\* Mutant of Reconciled: the inventory does not mark its words as committed.
Reconciled_Never(p) == local[p].staged

\* reconcileInventoryRecords: what stands in the inventory is committed.
Reconciled(p) == local[p].staged \ Range(chain.inventory)

\* The first n of a set of words, oldest first.
Oldest(S, n) == {w \in S : Cardinality({v \in S : v < w}) < n}
InOrder(S) == [i \in 1 .. Cardinality(S) |->
                 CHOOSE w \in S : Cardinality({v \in S : v < w}) = i - 1]

\* Read the inventory; when it is short, choose the oldest uncommitted words
\* and draw fresh ones (commitNextWords, up to its last computeCommitment).
Refill(p) ==
    LET short == IF Len(chain.inventory) < Target THEN Target - Len(chain.inventory) ELSE 0
        retried == Oldest(Reconciled(p), short)
        drawn == nextWord .. nextWord + (short - Cardinality(retried)) - 1
    IN  /\ local[p].step = "refill"
        /\ drawn \subseteq Words
        /\ nextWord' = nextWord + Cardinality(drawn)
        /\ local' = [local EXCEPT ![p] = [local[p] EXCEPT
                       !.step = IF short > 0 THEN "stage" ELSE "journal",
                       !.records = @ \cup drawn, !.staged = Reconciled(p) \cup drawn,
                       !.batch = InOrder(retried \cup drawn)]]
        /\ UNCHANGED <<chain, final, batches, reveals, lease, expired, tables, failures, faults>>

\* Save every word before anything is broadcast.
StageWords(p) ==
    /\ local[p].step = "stage"
    /\ db' = [db EXCEPT !.records = local[p].records, !.staged = local[p].staged]
    /\ SaveOf(p)
    /\ local' = [local EXCEPT ![p].step = "commit"]
    /\ UNCHANGED <<chain, final, batches, reveals, lease, expired, failures, nextWord, faults>>

\* commitRandomnessBatch: the transaction coordinator identifies the batch
\* by its content, so a batch that was sent before is only confirmed again.
SendBatch(p) ==
    LET batch == local[p].batch
    IN  /\ local[p].step = "commit"
        /\ batch \in batches \/ AcceptsBatch(chain, batch)
        /\ batches' = batches \cup {batch}
        /\ local' = [local EXCEPT ![p].step = "confirm"]
        /\ UNCHANGED <<chain, final, reveals, lease, expired, tables, failures, nextWord, faults>>

\* Mutant of BatchReverts: the error ends the tick instead of its first half.
BatchReverts_EndsTick(p) ==
    /\ local[p].step = "commit"
    /\ local[p].batch \notin batches /\ ~AcceptsBatch(chain, local[p].batch)
    /\ local' = [local EXCEPT ![p].step = "save"]
    /\ UNCHANGED <<chain, final, batches, reveals, lease, expired, tables, failures, nextWord, faults>>

\* The batch would revert, so it is not sent; the tick records the error.
BatchReverts(p) ==
    /\ local[p].step = "commit"
    /\ local[p].batch \notin batches /\ ~AcceptsBatch(chain, local[p].batch)
    /\ local' = [local EXCEPT ![p].step = "journal"]
    /\ UNCHANGED <<chain, final, batches, reveals, lease, expired, tables, failures, nextWord, faults>>

BatchConfirmed(p) ==
    /\ local[p].step = "confirm"
    /\ Range(local[p].batch) \subseteq chain.used
    /\ local' = [local EXCEPT ![p].step = "journal",
                              ![p].staged = @ \ Range(local[p].batch)]
    /\ UNCHANGED <<chain, final, batches, reveals, lease, expired, tables, failures, nextWord, faults>>

\* Mutant of BatchUnconfirmed: a batch without a receipt is forgotten.
BatchUnconfirmed_Forgets(p) ==
    LET batch == Range(local[p].batch)
    IN  /\ local[p].step \in {"stage", "commit", "confirm"} /\ faults < MaxFaults
        /\ faults' = faults + 1
        /\ local' = [local EXCEPT ![p] = [local[p] EXCEPT !.step = "journal",
                       !.records = @ \ batch, !.staged = @ \ batch]]
        /\ UNCHANGED <<chain, final, batches, reveals, lease, expired, tables, failures, nextWord>>

\* A call or the save fails before or after the send, or the receipt does not
\* come: the tick goes on.
BatchUnconfirmed(p) ==
    /\ \/ local[p].step \in {"stage", "commit", "confirm"} /\ faults < MaxFaults /\ faults' = faults + 1
       \/ /\ local[p].step = "confirm"
          /\ ~(Range(local[p].batch) \subseteq chain.used)
          /\ ~AcceptsBatch(chain, local[p].batch)
          /\ UNCHANGED faults
    /\ local' = [local EXCEPT ![p].step = "journal"]
    /\ UNCHANGED <<chain, final, batches, reveals, lease, expired, tables, failures, nextWord>>

Failed(p) == {r \in RequestIds : failures[p][r] # 0}

\* Discovery finds candidates; the journal and the failures keep the others.
PendingRequests(p) ==
    Journaled(local[p].journal) \cup Failed(p) \cup Unfulfilled(chain)

\* After a refill, reconcile with a second read of the inventory; then copy
\* every pending request with its word to the journal.
JournalRequests(p) ==
    LET staged == IF local[p].batch # <<>> THEN Reconciled(p) ELSE local[p].staged
        pending == PendingRequests(p)
        commitment(r) == IF r \in Unfulfilled(chain) THEN chain.requests[r].commitment
                         ELSE IF failures[p][r] # 0 THEN failures[p][r]
                         ELSE local[p].journal[r].commitment
        copy(w) == IF w \notin local[p].records THEN "missing"
                   ELSE IF w \in staged THEN "staged" ELSE "committed"
        journal == [r \in RequestIds |->
                      IF r \in pending
                      THEN [commitment |-> commitment(r), record |-> copy(commitment(r))]
                      ELSE local[p].journal[r]]
    IN  /\ local[p].step = "journal"
        /\ local' = [local EXCEPT ![p] = [local[p] EXCEPT
                       !.step = "checkpoint", !.staged = staged, !.batch = <<>>,
                       !.journal = journal, !.todo = pending]]
        /\ UNCHANGED <<chain, final, batches, reveals, lease, expired, tables, failures, nextWord, faults>>

\* Mutant of Checkpoint: the journal is left to the end of the tick.
Checkpoint_Deferred(p) ==
    /\ local[p].step = "checkpoint"
    /\ local' = [local EXCEPT ![p].step = "reveal"]
    /\ UNCHANGED <<chain, final, batches, reveals, lease, expired, tables, failures, nextWord, faults>>

\* The journal is saved before any reveal.
Checkpoint(p) ==
    /\ local[p].step = "checkpoint"
    /\ db' = [db EXCEPT !.journal = local[p].journal]
    /\ SaveOf(p)
    /\ local' = [local EXCEPT ![p].step = "reveal"]
    /\ UNCHANGED <<chain, final, batches, reveals, lease, expired, failures, nextWord, faults>>

\* One turn of the loop in revealConsumedCommitments: a request that is done,
\* waits for its seal, or has no known word is passed over; it stays among the
\* failures until the latest block shows it fulfilled.
RevealNext(p) ==
    LET r == Min(local[p].todo)
        w == local[p].journal[r].commitment
        done == Requested(chain, r) /\ chain.requests[r].fulfilled
        waits == Requested(chain, r) /\ ~done /\ AwaitingSnapshot(chain, r)
        ready == w \in local[p].records /\ AcceptsReveal(chain, r, w)
        failed == IF done THEN {0} ELSE IF waits THEN {failures[p][r]}
                  ELSE IF ready THEN {0, w} ELSE {w}
    IN  /\ local[p].step = "reveal" /\ local[p].todo # {}
        /\ \/ reveals' = (IF ready THEN reveals \cup {<<r, w>>} ELSE reveals) /\ UNCHANGED faults
           \/ ready /\ faults < MaxFaults /\ faults' = faults + 1 /\ UNCHANGED reveals
        /\ \E f \in failed : failures' = [failures EXCEPT ![p][r] = f]
        /\ local' = [local EXCEPT ![p].todo = @ \ {r}]
        /\ UNCHANGED <<chain, final, batches, lease, expired, tables, nextWord>>

\* Mutant of Retired: the latest block is taken for a final one.
Retired_AtLatest(p) ==
    {r \in Journaled(local[p].journal) :
        Requested(chain, r) /\ chain.requests[r].fulfilled}

\* pruneFinalizedRecords: a word may go when the finalized state shows its
\* request fulfilled with the same commitment.  A tick looks at up to 8
\* journal rows, more than any instance here has.
Retired(p) ==
    {r \in Journaled(local[p].journal) :
        /\ Requested(final, r) /\ final.requests[r].fulfilled
        /\ local[p].journal[r].record # "missing" =>
               final.requests[r].commitment = local[p].journal[r].commitment}

\* Mutant of Prune: an erased word stays among the staged ones.
Prune_KeepsStaged(p) ==
    LET erased == {local[p].journal[r].commitment : r \in Retired(p)}
    IN  /\ local[p].step = "reveal" /\ local[p].todo = {}
        /\ local' = [local EXCEPT ![p] = [local[p] EXCEPT
                       !.step = "save", !.records = @ \ erased,
                       !.journal = [r \in RequestIds |->
                                      IF r \in Retired(p) THEN NoReveal ELSE @[r]]]]
        /\ UNCHANGED <<chain, final, batches, reveals, lease, expired, tables, failures, nextWord, faults>>

Prune(p) ==
    LET erased == {local[p].journal[r].commitment : r \in Retired(p)}
    IN  /\ local[p].step = "reveal" /\ local[p].todo = {}
        /\ local' = [local EXCEPT ![p] = [local[p] EXCEPT
                       !.step = "save", !.records = @ \ erased, !.staged = @ \ erased,
                       !.journal = [r \in RequestIds |->
                                      IF r \in Retired(p) THEN NoReveal ELSE @[r]]]]
        /\ failures' = [failures EXCEPT ![p] = [r \in RequestIds |->
                                                  IF r \in Retired(p) THEN 0 ELSE @[r]]]
        /\ UNCHANGED <<chain, final, batches, reveals, lease, expired, tables, nextWord, faults>>

\* save(): the whole table becomes the worker's copy.
Save(p) ==
    /\ local[p].step = "save"
    /\ db' = [db EXCEPT !.records = local[p].records, !.staged = local[p].staged]
    /\ SaveOf(p)
    /\ local' = [local EXCEPT ![p].step = "saveReveals"]
    /\ UNCHANGED <<chain, final, batches, reveals, lease, expired, failures, nextWord, faults>>

\* saveReveals(), the end of the tick, and the release of the lease.
SaveReveals(p) ==
    /\ local[p].step = "saveReveals"
    /\ db' = [db EXCEPT !.journal = local[p].journal]
    /\ SaveOf(p)
    /\ EndTick(p)
    /\ UNCHANGED <<chain, final, batches, reveals, failures, nextWord, faults>>

-----------------------------------------------------------------------------
Tick(p) ==
    /\ MayContinue(p)
    /\ \/ Refill(p) \/ StageWords(p) \/ SendBatch(p) \/ BatchReverts(p)
       \/ BatchConfirmed(p) \/ BatchUnconfirmed(p) \/ JournalRequests(p) \/ Checkpoint(p)
       \/ RevealNext(p) \/ Prune(p) \/ Save(p) \/ SaveReveals(p) \/ TickFails(p)

Mine ==
    \/ \E batch \in batches : MineBatch(batch)
    \/ \E r \in RequestIds, w \in Words : MineReveal(r, w)

Next ==
    \/ \E gated \in BOOLEAN : Request(gated)
    \/ \E r \in RequestIds : Seal(r)
    \/ Mine \/ Finalize \/ Reorganise \/ ExpireLease
    \/ \E p \in Replicas : BeginTick(p) \/ RenewLease(p) \/ LeaseLost(p) \/ Crash(p) \/ Tick(p)

Spec == Init /\ [][Next]_vars

\* Ticks run to their end unless the process crashes, a stalled process wakes
\* up, an orphaned lease expires, some replica's timer starts the next tick, transactions that
\* would succeed are mined, and blocks become final.
Fairness ==
    /\ \A p \in Replicas : WF_vars(Tick(p))
    /\ WF_vars(\E p \in Replicas : BeginTick(p))
    /\ WF_vars(lease = Orphan /\ ExpireLease)
    /\ \A p \in Replicas : WF_vars(RenewLease(p) \/ LeaseLost(p))
    /\ WF_vars(Mine)
    /\ WF_vars(Finalize)

FairSpec == Spec /\ Fairness

\* Every fleet arrives, and the game seals its battle.
SealingSpec == FairSpec /\ \A r \in RequestIds : WF_vars(Seal(r))

-----------------------------------------------------------------------------
(* Safety. *)

\* The words the chain may still ask for: those of commitments in the
\* inventory, of requests that are not fulfilled in the finalized state (a
\* reorganisation may undo the rest), and of batches that may yet be mined.
Needed ==
    (UNION {Range(ch.inventory) : ch \in {chain, final}})
      \cup {chain.requests[r].commitment :
              r \in {s \in DOMAIN chain.requests :
                       ~(Requested(final, s) /\ final.requests[s].fulfilled)}}
      \cup (UNION {Range(batch) : batch \in {b \in batches : AcceptsBatch(final, b)}})

AllOnDisk == Needed \subseteq Durable

\* No crash, stall, reorganisation, ambiguous send or hand-over between
\* replicas leaves the chain with a commitment whose word is not on disk, until
\* a replica saves after its lease went to another.
SecretsDurable == overwritten \/ AllOnDisk

\* "A rolling replica cannot overwrite another replica's committed secrets"
\* (randomness.ts:389): the same, without the exception.
SecretsNeverOverwritten == AllOnDisk

\* A request whose word was broadcast stays in the journal, for whichever
\* replica ticks next, until the finalized block shows it fulfilled: neither
\* a receipt, nor that the chain lists it no more, nor a crash between the two
\* saves ends the retries.
BroadcastsStayJournaled ==
    overwritten \/ \A reveal \in reveals :
        \/ reveal[1] \in Journaled(db.journal)
        \/ Requested(final, reveal[1]) /\ final.requests[reveal[1]].fulfilled

(* Liveness. *)

Revealable(r) == Requested(chain, r) /\ ~AwaitingSnapshot(chain, r)
Settled(r) == ~Requested(chain, r) \/ chain.requests[r].fulfilled

\* A request that may be revealed is revealed, whatever crashed or stalled
\* before, unless a stalled replica overwrote the tables.
RevealablesRevealed == \A r \in RequestIds : Revealable(r) ~> (Settled(r) \/ overwritten)

\* The inventory comes back to its target after every draw, with the same
\* exception: a used word that came back into the table would be offered again
\* for ever.
InventoryRefilled == []<>(Len(chain.inventory) >= Target \/ overwritten)

=============================================================================
