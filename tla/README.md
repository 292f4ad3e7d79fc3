# Verification of Veydrift

Veydrift is a strategy game whose state lives in contracts on an OP-stack chain
(`packages/contracts`) and is driven by services off it: a backend that indexes
the chain, resolves due missions, posts randomness and referees battles
(`apps/backend`), smaller keepers and listeners beside it, and a web client. The
modules here model the parts in which several actors meet over a state none of them
controls alone: the contracts, the backend's database, the signer's nonces and the
chain's reorganisations. TLC checks them on small instances; TLAPS proves, for every
size, every safety property that the passing runs check: of the randomness engine (its
refinement included), of the worker that feeds it, of the backend's signer, of the
battles, of the game's books and its reserve, of the alliances, of the indexer and of the
burn listener. Liveness stays with TLC.

All paths below are relative to the repository; `backend/` stands for
`apps/backend/src/` and `contracts/` for `packages/contracts/src/`.

    tlc -workers 2 -config MCRandomnessEngine.cfg MCRandomnessEngine   # a run
    tlapm RandomnessEngineProofs.tla                                   # the proofs
    tlapm ResourceLedgerProofs.tla                                     # the books and the reserve
    tlapm RandomnessCommitterProofs.tla                                # the worker
    tlapm ResolverTransactionsProofs.tla                               # the signer
    tlapm RefereeBattleProofs.tla                                      # the battles
    tlapm AlliancesProofs.tla                                          # the alliances
    tlapm ChainSyncProofs.tla                                          # the indexer
    tlapm ChickenBurnsProofs.tla                                       # the burn listener

## 1. Inventory

| Component | Where | State it keeps | Operations | Models |
|---|---|---|---|---|
| Randomness engine | `contracts/RandomnessEngine.sol` | FIFO of commitments, used set, requests, battle seals, pause and policy | commit batch, request, battle request, seal, fulfil, recover, owner switches | `RandomnessEngine`, `PrecommitOracle`, `RandomnessEngineProofs` |
| Randomness committer | `backend/randomness.ts`, `randomnessClient.ts` | SQLite: words, staged words, reveal journal, lease row | one tick: refill, commit, journal, reveal, prune, save; lease | `RandomnessCommitter`, `RandomnessCommitterProofs` |
| Resolver transaction coordinator | `backend/resolverTransactions.ts`, `resolverTransactionJournal.ts`, `resolverTransactionRecovery.ts` | SQLite: lease, send fence, allocations, nonce reservations, batch intents, prepared envelopes, markers | plan, reserve, sign, mark, send, resend, supersede, prevent, retire, recover; plain sends | `ResolverTransactions`, `ResolverTransactionsProofs` |
| Referee battle contracts | `contracts/libraries/VeydriftRefereeBattle.sol`, `contracts/VeydriftReferee*Module.sol`, `contracts/VeydriftStagedCombatModule.sol` | job, header, roster digest, snapshot hash, result application | launch, prepare steps, seal, await, submit result, apply leaves, reset, void | `RefereeBattle`, `RefereeBattleProofs` |
| Combat contracts | `contracts/VeydriftCombat*Module.sol`, `VeydriftDefenseHoldModule.sol`, `VeydriftAcsAttackModule.sol` | protection verdicts, body locks, holds, losses, loot and debris | protect, join, hold, rounds, plunder, missiles | `RefereeBattle` and `ResourceLedger` in part |
| Game core and storage | `contracts/Veydrift*.sol` | planets, queues, fleets, research, resources | build, research, send, resolve, recall, batch transport, colonise | in part: `RefereeBattle` (missions at one body), `ResourceLedger` (what every operation moves), `Alliances` (production under a bonus) |
| Moon system | `contracts/VeydriftMoon*.sol` | moons, gates, phalanx | creation, destruction, jumps | `ResourceLedger` and `ChickenBurns` in part |
| Alliances and referrals | `contracts/VeydriftAlliance*.sol`, `VeydriftPaidAllianceInvites.sol` | membership four times over, join requests, wars and their snapshots, paid invites | found, import, invite, join, leave, kick, transfer, declare, end, buy, redeem | `Alliances`, without referrals, and `AlliancesProofs` |
| Resource reserves, Rift, launch | `contracts/*Reserve*`, `*Rift*` | reserves, deposits, withdrawals | deposit, withdraw, settle | `ResourceLedger`, `ResourceLedgerProofs` |
| State migration | `contracts/*Migration*`, `scripts/` | one-off | operator run | no |
| Lenses, catalog, formulas | `contracts/*Lens*`, `libraries/*Formulas*` | none | reads, tables | no |
| Mission resolver | `backend/missionResolution.ts`, `missionBatch.ts` | due missions, deferred retries | scan, simulate, batch, submit, split | planned, over `ResolverTransactions` |
| Battle referee service | `backend/battleReferee.ts`, `packages/battle-oracle` | computed results, leaf cursors | watch, compute, submit, apply | planned, over `RefereeBattle` |
| Indexer and chain sync | `backend/chainSync.ts`, `indexer.ts` | SQLite projection, watermarks | poll, commit, drain removals, repair | `ChainSync`, `ChainSyncProofs` |
| API server and read side | `backend/server.ts`, `workerPool.ts`, `walCheckpointer.ts`, `sharedResponseCache.ts` | caches, worker queue, WAL | request, refresh, checkpoint | planned: caches and worker pool |
| Battle keeper | `apps/battle-keeper` | pending battles | scan, resolve | planned |
| Chicken burn listener | `apps/chicken-burn-listener` | a JSON file: scanned block, processed burns | scan, grant, save | `ChickenBurns`, `ChickenBurnsProofs` |
| Frontend | `apps/frontend` | wallet transactions, view store | send, recover, reconcile | planned: `walletRecovery`, the data store |
| Statistics app, shared packages, scripts | `apps/stats`, `packages/universe`, `packages/api-types`, `scripts/` | none of the running system | | no |

### How they interact

A player's transaction sends a fleet. When it is due, the mission resolver asks the
**transaction coordinator** to sign a batch of `resolveMission` calls. An attack
prepares a battle on chain over many transactions; in the first of them the battle
module asks the **randomness engine** for a gated word, and at the end it *seals* a
hash of everything the battle depends on. The **committer** keeps the engine's
inventory of commitments filled and reveals a word only after its seal. The
**battle referee** computes the fight off chain from the sealed inputs and the word,
and returns it as a header and a list of leaves that the contract applies in pieces.
The **indexer** follows all of it from events. Backend processes overlap during a
rollout: they share one SQLite file and one signing key, and have no other way to
agree than rows in that file.

### What is hard about it

* The contract's callers interleave in any order, and blocks order them anew after
  a reorganisation.
* A backend process may stop between any two awaits, and between any two commits of
  its database; the coordinator mixes commits that survive a power loss with
  commits that need not.
* A send has three outcomes: accepted, refused, unknown. An unknown one may be mined
  an hour later.
* A lease (90 s) is only a row. Its holder may stall past it and go on.
* One nonce of the signer is one slot of a strict order: whatever holds it holds all
  later transactions.

`PROJECT.json` lists the sharpest of these under `hazards`, at the line of code where each
one bites, with the properties that would catch it. Hazards that no property covers, and why:

| Where | What | Why no property |
|---|---|---|
| `backend/resolverTransactions.ts:1318` | a reservation whose signer died stays without a result and holds every writer | documented choice; `SentIsProven` names the state |
| `backend/resolverTransactions.ts:1781` | a quote expires between its check and the ready marker | the model has the step; no text forbids it |
| `backend/resolverTransactions.ts:1806` | a plain send is not fenced | `OneSendOutstanding` excepts the plain sends of a process that lost the lease; see section 5 |
| `backend/resolverTransactions.ts:861` | a reorganisation moves the highest proven batch into another block: the frontier check fails from then on | documented as fail-closed (`docs/mission-resolver-reliability.md:110`) |
| `backend/resolverTransactions.ts:1570` | after a reorganisation a dropped plain transaction is replaced at a nonce of the journal | `PlainAboveHistory` excepts what was decided on a chain that a reorganisation has replaced since, and sends of a process that lost the lease; no text promises more |
| `contracts/libraries/VeydriftRefereeSettlement.sol:130` | a wrong result whose first leaves were applied can be neither reset nor voided | a stated limit; `BattlesEnd` excepts it |
| `contracts/VeydriftPlanetManagementModule.sol:212` | an abandoned planet leaves its moon's resources and its debris counted | no counter is wrong, the reserve only stays tied up |
| `contracts/VeydriftAllianceSystem.sol:560`, `:586` | a standing invite outlives the membership; an alliance without an owner | no text forbids them; the books stay right |
| `backend/chainSync.ts:1027` | a handler that throws loses the removal notices behind it | `SafeIsExact` names these rows (`missed`); nothing brings the notices back |
| `backend/indexer.ts:5292` | a removal notice older than the overlap wipes a canonical row | `SafeIsExact` names these logs (`late`), see `ChainSync` in section 3 |
| `backend/indexer.ts:5495` | a log of the game of a kind that is not restored stays removed when it is mined again | `SafeIsExact` claims liveness of the restored kinds only; see section 5 |
| `apps/chicken-burn-listener/src/source.ts:133` | a burn that the game refuses holds all behind it | `EveryBurnGranted` names the case |
| `apps/chicken-burn-listener/src/source.ts:115` | the first run's pass without lookback; a configured start block that was raised above the stored one | `NoneSkipped` speaks of a listener with a stored block, and of the burns from the start block on |
| `apps/chicken-burn-listener/src/source.ts:250` | a null answer for the transaction of a fallback log drops the burn, and the scanned block moves on | `NoneSkipped` and `EveryBurnGranted` name these burns (`unseen`); see section 5 |
| `apps/chicken-burn-listener/src/grant.ts:156` | a grant is believed after one block, and a reorganisation of the game chain may undo it | `NoneSkipped` and `EveryBurnGranted` name these burns (`undone`) |

### What makes each component correct

* *Engine*: a commitment serves one request; a battle's word was fixed before the
  battle was requested and comes out after the battle was sealed; what is settled
  stays so; the oldest commitment goes first.
* *Committer*: a word the chain may still ask for is on disk; none is lost, none is
  published early; the inventory recovers.
* *Coordinator*: one operation per nonce; one outstanding send; nothing on the
  network that the journal does not know; nothing prevented is ever sent; a batch
  that was sent is proven in the end.
* *Referee battle*: the seed is unknown while the roster is still open; the roster
  is what was sealed; each row's losses are applied exactly once and in order; one
  result is applied, as a whole; a battle's body is released at its end.
* *Mission resolver*: a due mission is resolved once; one failing mission does not
  hold the others of its batch.
* *Chain sync*: what is served is exactly the chain up to the watermark; every
  disturbance ends, and every change is announced.
* *Books*: the counters of what circulates and what is locked are the sums of the
  accounts they stand for, and the tokens held cover them.
* *Alliances*: the copies of a roster agree; a war's exceptions are for those who were
  there when it was declared; late production earns by the membership it was made under.
* *Caches, worker pool*: no answer older than its bound; each request is answered
  once.
* *Keepers and listeners*: nothing is recorded as done that was not; progress past a failing item.

## 2. Plan

The order follows what would hurt most: first the randomness that decides battles,
then the key that signs for the backend, then the battles themselves.

| Stage | Module | Models | State |
|---|---|---|---|
| A | `RandomnessEngine`, `PrecommitOracle`, `RandomnessEngineProofs` | the oracle contract, its promise, the proofs | done |
| B | `RandomnessCommitter`, `RandomnessCommitterProofs` | the worker that feeds the oracle | done |
| C | `ResolverTransactions`, `ResolverTransactionsProofs` | the signer's journal | done but for the operators' procedures |
| D | `RefereeBattle`, `RefereeBattleProofs` | missions and battles at one body | done but for the economics |
| E | `ResourceLedger`, `ResourceLedgerProofs` | reserves, the Rift, and every operation of the game as far as it moves resources | done |
| F | `Alliances`, `AlliancesProofs` | rosters, wars, paid invites and their bonus | done but for referrals |
| G | `ChainSync`, `ChainSyncProofs` | `chainSync.ts` and the watermark of `indexer.ts` | done but for failover and special scans |
| H | `ChickenBurns`, `ChickenBurnsProofs` | the chicken burn listener | done |
| I | mission resolver | `missionResolution.ts`, `missionBatch.ts`: scan, simulate, split, defer | next; on top of an abstract coordinator |
| J | battle referee service, battle keeper | `battleReferee.ts`, `battle-keeper`: watch, compute, submit, apply after a restart | next; on top of phases 16 to 11 of `RefereeBattle` |
| K | read side | `workerPool.ts`, `sharedResponseCache.ts`, `cachedReader.ts`, `walCheckpointer.ts` | planned |
| L | clients | `walletRecovery.ts`, `backendDataStore.ts`, the L1 RPC failover | planned |

*Abstract specifications.* `PrecommitOracle` is the promise of the engine. Two more
are worth stating: a signer that spends each nonce on one operation, for
`ResolverTransactions` to implement and for I to stand on; and a battle in four steps
(closed roster, word, result, return), for `RefereeBattle` to implement and for J.

*Theorems.* Those of section 6; next, those of the modules still planned. The modules
are written for it: no module has a `RECURSIVE` operator, constants
carry named assumptions, each operation is one action.

## 3. The modules and the code

Every definition that stands for code has its lines in `PROJECT.json` under `map`.
Definitions whose names have an underscore in the middle (`Dispatch_Fenceless`) are
*mutants*: the same operation with one plausible mistake, there to show that the
property beside them can fail. No specification uses them.

### RandomnessEngine

State: the storage of `RandomnessEngine.sol`. The front slot and the queue are kept
apart as in the code; solidity mappings to `bool` are sets; `committedAt` and
`requestedAt` are the event log. One action per external function, one transaction
per step; a call that would revert is not enabled. `Commitment(w)` is injective, as
`keccak256` is taken to be. The block number and the time stamp move in `NextBlock`.
Left out: UUPS upgrades, two-step ownership, views, `renounceOwnership`.

`PrecommitOracle` has no inventory, roles or pauses. Its state is mapped from the
engine's in `ImplementsOracle` (the last definition of `RandomnessEngine`).

### RandomnessCommitter

`db` holds the tables of `SqliteRandomnessCommitmentStore`, `local` each replica's
copies and its place in `tickWithFreshStore`, `lease` and `expired` the lease row. A
step ends where the code awaits the chain or commits to SQLite, so that another
process or a crash can come between. Transactions that were sent are in `batches`
and `reveals` and may be mined at any later time, also when the worker believes that
they failed; `Reorganise` puts the chain back to the final one. `StageWords` is the refill
of the table in memory, which stays there while the tick awaits the chain;
only `Checkpoint` saves it. `failures` are the reveals that failed lately and wait
(`this.failures`), and `TickFails` is a read of the chain that throws, anywhere in the tick.
A save never looks at the lease: the history `overwritten` says that one came after the
lease of its process went to another (section 5), and the properties except what follows
from it. The legacy fulfil-only worker, the readiness file and the status report are left
out.

### ResolverTransactions

`db` is the journal as running processes see it and `synced` as a power loss leaves
it: commits with `synchronous = FULL` move the first into the second, the others do
not. `local[p]` is the place of process `p` in `submitWithLease` or
`reconcileIntents`. Envelopes are numbers in the order of signing; `sent`, `pool`,
`chain` and `final` are what the network knows of them. `outstanding` has the sends
whose outcome the process still awaits; a crash does not recall them. Fees, quotes
(but for their expiry), the audit rows, the limits of storage, and the operators'
procedures (`resolverNonceRecovery.ts` and the legacy same-nonce recovery) are left out.

`acquireLease` looks whether there is a fence before its transaction, to decide how that
one commits: `Look` is the first, `Acquire` or `LooksAgain` the second, and other processes
go on in between. `overlooked` is a history: a transaction that did not commit with `FULL`
deleted a fence that came after the look.

### RefereeBattle

One body and the missions to and from it; a mission's id is its place in the order of
launches. `battle[id]` puts together the four records the code keeps of a battle: the
staged battle (`phase`, `cursor`, the two lengths, `enrolled`, `blocked`), the
referee's job (`job`, `rows`), the engine's request, and the result's application.
`linked[id]` is the list that the contract keeps of the fleets that joined or defend
against an attack, `stationed` that of the fleets holding at the body.
`Stage(id, n)` is a call of `resolveFleetMission` that finds phase `n`; a call does
several stages while its gas lasts, which adds no behaviour, since each stage is
committed or reverted on its own. `RefereeStage` is the routing of
`VeydriftCombatModule`: the phases before the result go to the referee's module, and
those after it, or of a bypassed battle, to the staged one.

The data is cut down to what the properties tell apart. A fleet has one lane of
ships, a body has `Lanes`; a row loses all of its units or none. A result is a set of
rows that lose, and how many leaves of it apply: an honest one applies to its end, a
wrong one fails at its first or last leaf. `Protect` chooses its verdict freely.
`BeginBattle` waits for a ready commitment, as the call reverts without one. `AcsDefend`
stands for `Intercept`. Left out: loot, debris, repair, moons, the pause, battles of
older versions and missions that were launched before the chronology existed; other
bodies are only where fleets go and come from.

The resolver, the referee service and the fulfiller are present as callers that act when
they can; what they do internally is not part of this module.

### ResourceLedger

The contract holds tokens (`reserve`), and two counters say what they stand for:
`internal` for what circulates, `locked` for what waits in rift extractions. No code
keeps a sum; some fifteen modules move the counters by hand. The module has one action
for every operation that moves resources, whichever contract it is in: owner's deposits
and releases, production and the treasury's bonus, spending, moons, the Rift, planets
given up, fleets with their cargo, and a battle from the fight over plunder, the raid
on the target's extraction and the shares of the loot to the cargo that is lost with its
fleet.
Times, costs and units are arbitrary. A mission is cut down to where its cargo is and
where it can go; the stages of a battle are those of `RefereeBattle` that touch a
resource. An operation settles the production of its planet first, which is a step of
its own and may come at any time.

Seen while modelling: `abandonPlanet` leaves the resources of a moon and of the debris
counted, but nobody can reach them again; `discardSingleStartedPlanet` does the same for
a moon. `raidRift` skips the capacity check on purpose, since what it takes was
counted before. The shares of the loot are each pro rata of what is left, so that the last
one takes what rounding leaves.

### Alliances

A roster is kept as each player's membership, a list, the places in the list and a
count; a join request three times. `SwapAndPop` is the removal from such a list.
`Capture` freezes both rosters when a war is declared; a frozen record counts only under
the number of the war (`snapshot`), and `WarException` is the test that attack
protection makes. `Produce`, `Collect` and `Cut` are the part of the game that the bonus
of a paid invite rests on: production is settled late, so each change of membership
settles it first, and also cuts it at the arrival of an attack. `ImportAlliance` and
`ImportDiplomacy` are the imports from the past game by the contract's owner. The second asks for
no officer and looks at no war: it ends one that is on. An import may leave a gap
below it, above which the next alliance is founded (`NextAllianceId`). Left out: wars and
defence intents from before the snapshots, profiles, referrals, prices.

Seen while modelling: an invite outlives the invited player's joining by request, so a
member who was kicked can come back by it; and an owner who leaves last leaves an
alliance active that nobody owns, which whoever holds an open invite can still join. No
text forbids either.

### ChainSync

`blocks` are the chain and its forks, each block known by its hash; `rows` is the ledger
of logs in the database. A pass is `ReadHead`, `CheckAnchor`, `Fetch`, `Commit`,
then `Repair` and `PublishRepaired` if a removal of a queue's completion takes canonical
reads; a step ends where `poll` awaits the node. `Commit` is one database transaction:
it retires what the overlap does not show, applies what it does, and records the
watermark (`Publish`). `Drain` takes the notices that the websocket brought. The memory
of the process (`handled`, `cursor`, `removals`, `repairs`, `event`) is lost in a
`Crash`; what a failing handler puts back is `RolledBack`. Logs of the game are retired
by the overlap, logs of other contracts by notices only.

Some logs come back when they were removed and are mined again, and some do not:
`Restored` are those of the kinds that the indexer lists (`backend/indexer.ts:5329`), and a
row of another kind stays removed (`:5495`). A notice marks its row removed whatever
block it is of (`:5292`); if the log has found another place since, and that place has left
the overlap, no pass fetches the row again. The history `late` has the logs with such a
notice.

Three bounds shape the behaviours. A reorganisation is no deeper than the overlap, which is
64 blocks in the code (`GENERIC_POLL_REPLAY_BLOCKS`, `backend/chainSync.ts:80`); nothing
there checks it, and it is the one hypothesis about the chain that the proofs share. A chain
returns to an earlier branch only between passes. Blocks and faults share one `Budget`, and
the logs of one behaviour are one of the sets of `Together`; both are bounds of the instance.

Seen while modelling, none of it a violation of a stated property:

* A removal notice deletes the watermark, so the next pass has no anchor to compare and
  clears the pending `removedLog` itself: a real reorganisation is then not kept blocked,
  which `docs/backend-indexer.md:37` can be read to promise.
* Logs of other contracts stay live until their own notices come, or for good when those
  were lost. A removed log of some of them is not reinstated when the same transaction is
  mined again.
* A removal by notice alone announces no event to clients.
* A pending `removedLog` masks a later `anchorChanged` or `headChanged`.
* `liveRemovedLogs` is emptied before its logs are applied; a handler that throws loses
  the rest.

### ChickenBurns

`pass` holds the passes that the timer and the websocket start, and which overlap over one
store: its memory is `processed` and `scanned`, its file is written beside and renamed.
`disk` and `tmp` are the state file and the one beside it; a pass keeps the file it has opened
also when another has renamed it (`Moved`), so that two passes that write one file, or a
rename that takes another's half-written text, are seen for what they are. What a pass writes
is the memory as it was before the file was opened (`Save`), which may be stale by then. The
logs of one block come in any order. The game's side is
`grantMoonFromChickenBurn`: `Grantable` is its guard and `MineGrant` its effect, which may
come after its sender died. A burn of a planet that refuses ends each pass at its block:
`EveryBurnGranted` names it, as it names a crash at the moment when the state file is torn,
since `load()` then throws until somebody repairs it.

`HandleRawLog` takes one log of a chunk. A burn of `Fallback` is told by a bare `Transfer`,
and its planet is read from the transaction; if the node does not know that (a null answer),
the burn is dropped and the pass goes on: the history `unseen`. A grant is believed after one
block. `Undo` takes it back, and the transaction is lost or in flight again: the history
`undone`. `FromBlock` takes the larger of the stored block's successor and the configured
`StartBlock`, so `First` is where the listener's duty begins. `CallFails` ends a pass of the
timer, whose error is caught. The pass of a websocket message is started by a bare `void`
(`apps/chicken-burn-listener/src/source.ts:159`, `:238`); its rejection is caught by nobody
and ends the process, which is a `Crash`.

`NoneSkipped` speaks of a listener with a stored block. On a first run there is none, and burns
may be skipped: a websocket message may start a pass without lookback before the startup pass
has planned, and moves the scanned block past what that one was to read
(`apps/chicken-burn-listener/src/source.ts:115`).

## 4. What TLC checks

Between them the passing runs fire every action.

| Run | Shows | Bounds, and why they are enough |
|---|---|---|
| `engine` | types; one request per commitment; the FIFO without holes; a battle's word fixed before the battle and revealed after its seal; settled requests final; the engine implements `PrecommitOracle` | 3 words and 3 slots: front, queue and a recovery commitment exist at once. 2 requests, so that one can take what the other had. 4 blocks: commit, request, stale, recover |
| `engine_reuse` | a finding, see 5 | |
| `committer` | a secret the chain may ask for is on disk; a request whose word was broadcast stays in the journal until it is finally fulfilled; every revealable request is revealed; the inventory comes back to its target; each of them until a stalled replica overwrites the tables | 2 replicas, 1 request, 6 words (three refills of 2, so the drawing bound stops none that the property needs), 1 fault of any kind at any step: a stall past the lease wherever the tick waits, before its saves too |
| `committer_stall` | a finding | |
| `resolver` | one batch per nonce; one send outstanding; what is on the network is in the journal; what was prevented is never sent; a cleared fence stays cleared | 2 processes, which look at the fence and acquire in two steps, 2 batches, 3 envelopes (a batch, its alternative, a successor), replaced after 1 unanswered resend, 1 fault of 7 kinds, power losses included, at any await |
| `resolver_live` | a plain transaction takes no nonce of the journal; a batch that was sent is proven | 1 process restarting, a batch and 2 plain transactions (one is replaced or cancelled, one comes after), 3 envelopes, a crash, a forgotten transaction or a failing call |
| `resolver_unknown` | a finding | |
| `referee` | the roster is complete and fixed after the seal; losses follow their rows; one whole result or none; impacts in order; battles end | 3 missions of any kinds: two attacks on one body with a hold between, or an attack with a defender and a joiner. 3 time units: a recall, an arrival and a hold's end can tie and can overtake. Lists of up to 3 scanned one at a time. 1 owner's step |
| `ledger` | the two counters are the sums of the accounts; each extraction pays what its planet has locked; the tokens held cover both | 2 players, a home with a moon and a colony, 2 missions at once (an attack and a fleet that joins, defends, or passes by), 2 tokens, each operation moves 1: an account can be emptied by another operation than the one that looked at it. Moons do not meet rifts, nor a withdrawn bonus two missions (`Together = FALSE`): all at once are too many states. The proofs close that gap |
| `alliances` | the copies of the rosters and join requests agree; the exceptions of a war are for the rosters of its declaration; late production earns by the membership it was made under | 3 interchangeable players and 2 alliances; 2 wars of one pair (the second number), or 1 paid invite: the two do not read each other's state, and both at once are too many states. 2 invites and requests open at a time while there is neither and everybody has a planet, one invite otherwise |
| `sync` | what is served is exactly the chain of the watermark; everything settles and is announced | a completion of a restored kind with a log of another contract of a kind that is not, or a log of the game that is not restored with one of another contract that is; 4 blocks with the base (forks of one block, and a log mined again), overlap 2, and a budget of 4 for blocks and faults |
| `burns` | nothing is recorded that is not granted; every confirmed burn is granted | 2 burns of 2 planets in one or two blocks, one of them told by a fallback log, 2 overlapping passes, chunks of one block, a start block above the stored one, up to 4 blocks, 1 fault: a crash, a failing call, a null answer, a grant undone, or a refusal |

Deadlock is checked where no bound ends the behaviours (`ledger`, `alliances`, `sync`); the
other models stop when their bounds are used up.

### Fairness

Safety properties need none. The runs with liveness properties assume:

* `committer`: ticks are started by a timer (`WF` of `BeginTick`) and go on (`Tick`); the
  lease row of a crashed process expires; a stalled process wakes up and its renewal timer
  runs; transactions that were sent are mined and become final; the game seals the battles
  it requested. All weak. The liveness of a reveal rests on the seal, which is the game's to
  do. Both properties except behaviours in which a stalled replica overwrote the tables.
* `resolver_live`: processes go on; leases expire; the signing service answers; something of
  the pool is mined. Strong fairness is used twice: a pass that comes upon a replayable
  intent again and again does replay it (the backoff of `replayIntent` delays but never
  forbids it), and a node that is offered an envelope again and again accepts it in the end.
  The property excepts `Stranded`: a reservation whose signer is gone without a result, a
  fence whose owner cannot be seen to be dead, an intent that the node rejected for good,
  all of which wait for an operator by design; and a nonce lost to another transaction,
  which is what `resolver_unknown` shows.
* `referee`: time passes; whatever can be resolved is resolved by the mission resolver or
  any player; the fulfiller reveals sealed words; the referee posts honest results and
  applies their leaves. All weak, and of the whole set of missions, not of each: the
  resolver picks its order. The property excepts an accepted wrong result.
* `sync`: the poller's loop goes on (`WF` of the steps of a pass) and arrived notices are
  drained. Mining and reorganisations need not go on, so the chain may rest.
* `burns`: the steps of each pass (the timer starts passes for ever), sent grants are mined,
  the platform restarts the process. All weak. A process that crashes for ever, as one that
  fails on each websocket message would, makes no progress: the bound on faults excludes it.

## 5. Where code and documents differ

* `engine_reuse`: while precommits are switched off, an uncommitted request accepts any
  word and marks nothing as used. It may publish the preimage of a commitment in the
  inventory, which a later request then binds. The comment at
  `contracts/RandomnessEngine.sol:66` excludes this.
* `committer_stall`: `save()` replaces the table of words and does not look at the lease. A
  replica that stalls for 90 s between its last chain read and its saves erases what its
  successor committed (`SecretsNeverOverwritten`); the comment at `backend/randomness.ts:389`
  excludes this. What else may follow: a word that was used comes back into the table and is
  offered in each batch, which the contract reverts, so that the inventory never refills.
* `resolver_unknown`: a plain submission that fails is recorded as rejected even if it
  reached the network, and its nonce goes to the next batch, whose intent can then never
  be proven; `docs/mission-resolver-reliability.md:5` says an unknown send holds the signer.

Each of the three has its run. Four more disagreements and gaps are stated
by the exceptions of a property instead:

* The plain path has no send fence. If its process stalls past the lease, two processes
  send one nonce, against the comment at `backend/resolverTransactions.ts:193`.
  `OneSendOutstanding` excepts the plain sends of a process that has lost the lease, and only
  those.
* `backend/resolverTransactions.ts:1945-1947` says that the transaction which clears a fence
  keeps the `FULL` commit. The look that decides this lies before the transaction: a fence that is
  raised, and whose owner dies, in between is deleted without one, and a power loss brings it
  back. `ClearedFenceStaysCleared` excepts it (`overlooked`).
* A burn whose fallback transaction the node does not know is dropped
  (`apps/chicken-burn-listener/src/source.ts:245-255`), and no later pass reads its block again.
  `NoneSkipped` excepts it (`unseen`).
* A log of a kind that `backend/indexer.ts:5329-5494` does not list (`PlanetRenamed`, say) is
  answered `duplicate` when it is mined again after a removal, and its row stays removed.
  `SafeIsExact` claims for it that it has a row, not that the row is live.

The comment at `contracts/VeydriftAllianceSystem.sol:828` says that the epoch of a membership
makes leaving and rejoining revoke the privilege of a war's roster. Nothing reads that epoch;
`contracts/VeydriftAllianceWarProtection.sol:267` says that members regain the privilege
when they rejoin, and `packages/contracts/test/VeydriftAllianceSystem.t.sol:1781` tests it.
`WarExceptionsAreFrozen` states what the code does and these two say.

One weakness is modelled and not a finding: `commitNextWords` offers the oldest words
first (`backend/randomness.ts:867`). After a batch that was mined but not marked, its
oldest word is offered again, and once a battle has drawn it every batch that holds it
reverts: the inventory stays short until that battle is sealed and its word revealed.
`InventoryRefilled` holds because the game seals its battles.

## 6. What is proved

`RandomnessEngineProofs` proves, with TLAPS, for all words, accounts, snapshots, delays,
limits and inventory sizes:

* `TypeCorrect`: `Spec => []TypeOK`.
* `Invariant`: `Spec => []IInv`, the inductive invariant.
* `OneRequestPerCommitment`: no commitment is in two places of the inventory, in the
  inventory and a request, or in two requests.
* `BattleWordFixed`: a gated request's commitment is of an earlier block, and its word
  came out after the seal and is the committed one.
* `FifoIsWellFormed`: the front slot and the queue behind it have no hole, stand in the
  order of the commits' blocks, and keep the limit.
* `DrawsTheOldest`: a request draws a commitment no younger than any that stays
  (`OldestCommitmentFirst`, which no run checks: the order in `FifoWellFormed`, which `engine`
  checks, is the part of it that can go wrong).
* `SettledIsFinal`: fulfilled requests, gated bindings and seals never change.

The last part of the module proves, on top of it, `EngineImplementsOracle`:
`Spec => ImplementsOracle`, that every behaviour of the contract is one of
`PrecommitOracle`.

Assumptions: `BoundsAssumption` and `ZeroAssumption` of `RandomnessEngine`, that is,
sizes are numbers and Solidity's zero values are no proper values; and that `Commitment`
is injective, which the model has by construction.

`OneRequestPerCommitment` is not inductive: nothing in it says that a new commitment is
not already in a slot or a request. `IInv` adds what the code relies on:
`LogInv` (the `used` mapping is exactly the history of commitments, none of it in the
future), `SlotInv` (slots hold distinct used commitments with the block of their event,
in the order of blocks), `BindingInv` (a request number not drawn yet is blank; a bound
commitment is used and has left the inventory), and `BattleInv`. Each of the five
operations that touch inventory or requests has its lemma (`RecoverStep`, `FulfillStep`,
`SealStep`, `RequestStep`, `CommitStep`); the others are `QuietSteps`.

The refinement needs two facts more, which `AgeStep` shows every transaction keeps:
`WordInv` (an unanswered request has no word, and a number not drawn has no recovery
block), and `AgeInv` (a bound commitment is of an earlier block, except after a recovery,
where its block is the one the reveal has to wait out). Without `AgeInv` the oracle's
promise that a revealed word was posted in an earlier block does not follow for the
request that the owner re-precommitted. Then each operation has a lemma that names its
abstract step: `TickMap`, `CommitMap` (`Post`), `RequestMap` (`Bind` or `AskOpenly`),
`RecoverMap` (`Rebind`), `SealMap`, `RevealMap`; `QuietMap` makes the owner's other
functions stutters. What `PrecommitOracle` calls spent is what was used and has left the
inventory, which is why `CommitMap` and `RequestMap` have to follow a commitment through
the two representations of the FIFO (`CommitShape`).

`ResourceLedgerProofs` proves, for any number of planets, players and missions, any rates
and any amounts:

* `TypeCorrect`: `Spec => []TypeOK`, in which no account, hold, debris field or counter
  is ever below zero.
* `AlwaysBacked`: `Spec => []ReserveBacked`, the tokens held cover what circulates and
  what is locked.
* `AlwaysConserved`: `Spec => []Conservation`, the counter of what circulates is the sum of
  what lies on all bodies, in debris, in holds and in loot not yet collected.
* `RiftsAlwaysLocked`: `Spec => []RiftsAreLocked`, the counter of what is locked is the sum
  over the planets, and each extraction pays what its planet has locked.
* `ClaimsAlwaysLocked`: `Spec => []ClaimsAreLocked`, the second half of it, on which the
  invariant rests.

It assumes only `LedgerConstants`: rates and bounds are numbers, homes are planets, and there
are finitely many planets (of infinitely many accounts there is no sum). The
inductive invariant is `Inv == AccountsOK /\ FleetsOK /\ ReserveBacked /\ Followers /\
Battles`. The first two are `TypeOK` and `ClaimsAreLocked` regrouped. The last two are
there because the loot of a battle is added to the cargo of a mission in a later
transaction than the plunder: the mission has to be still under way then. `Battles` says
that a battle has its attack and the lock of its body, and that those who share its loot
are among its attackers; `Followers`, that a fleet that joined an attack flies to the same
body, so that the lock which stops the attack from going home stops the joined fleet too.
Each operation of `Next` has its place in one of `ReservesStep`, `PlanetOpsStep`,
`LaunchesStep`, `FlightsStep` and the lemmas of the battle's stages (`FightStep`,
`RaidStep`, `ShareLootStep`, `RaidEndsStep`, `ReturnMemberStep`, `FinishStep`).

The two sums are folds (`MapThenFoldSet` of the community modules), and what a fold of any set
becomes when one addend changes calls for induction over the set, which the provers cannot do
with the library's theorems. The proof goes round it. `IsSummation(t, f, S)` says that `t`
gives every subset of `S` its sum: zero for none, otherwise the addend of the member that the
fold would pick plus the sum of the rest. That two summations agree (`SumsAgree`), that one
exists (`SumsExist`) and that the order does not matter (`AnyFirst`) is each shown by the
*smallest counterexample* (`SmallestSet`, from the library's fact that strict inclusion is well
founded): if it failed somewhere it would fail on a set of which no smaller part fails.
`TotalOfChange` is what the books use: when one addend changes, the sum changes by as much.
With this each operation keeps `Accounted`, the two equations and three facts they need:
`Emptied`, that a body out of play holds nothing (else what is founded there would find
resources nobody counts); `Origins`, that the planet a fleet came from is still in play when it
comes home; `Loots`, that a loot's record says what is still to be shared and is empty once all
have had their share. The last of these is arithmetic of the code's own rounding: whoever has
all the room that is left takes all the loot that is left (`LastTakesAll`).

### The worker

`RandomnessCommitterProofs` proves, for any number of replicas, words, requests and
faults:

* `Types`: `Spec => []TypeOK`.
* `Durability`: `Spec => []SecretsDurable`.
* `BroadcastsAreRetried`: `Spec => []BroadcastsStayJournaled`.

None has a hypothesis about stalls, crashes, reorganisations, failed calls or hand-overs of
the lease: they may come wherever the tick waits. Both properties hold until a replica saves
after its lease went to another (`overwritten`), and `committer_stall` shows that this
exception is needed.

`SecretsDurable` counts a batch on its way as needed while it fits into the finalized
inventory, which a later block may change. The invariant (`Inv`) therefore speaks of
`Owed`, which drops that condition, and adds what the tick relies on: what is owed is also
in the copy of the table that the holder of the lease will save (`Keeps`), a word has one
place on a chain, and the latest block continues the finalized one (`ChainInv`), without
which a reorganisation could bring a pruned word back. That a broadcast stays journaled
rests on the same clause: the entry that the tick writes before a reveal is in the copy of
whoever saves next (`Holds`), and it is pruned only by what is final.

### The signer

`ResolverTransactionsProofs` proves, for any number of processes, operations, envelopes and
faults, whichever of the seven kinds of faults may happen unless it says otherwise:

* `Types`: `Spec => []TypeOK`.
* `NoncesAreNotShared`: `Spec => []OneOperationPerNonce`.
* `Durability`: `Spec => []DurableBeforeBroadcast`.
* `WhatIsDestroyedWasNotSent`: `Spec => []PreventedNeverSent`.
* `FencesStayCleared`: `Spec => []ClearedFenceStaysCleared`, the fences excepted that an acquire
  overlooked.
* `SendsTakeTurns`: `Spec => []OneSendOutstanding`, plain sends excepted once their process has
  lost the lease.
* `PlainNoncesAreNew`: `Spec => PlainAboveHistory`, sends excepted that were decided on a chain
  reorganised since, or by a process that has lost the lease.

The exceptions are conditions on the state in which they hold, so no theorem assumes that a
fault does not happen. Section 5 says why they are needed.

The invariant is stated of *a journal* (`JournalOK(d)`), once of the one that processes see
and once of the one that a power loss leaves, with `SyncedOK` for what both must share:
then a power loss needs no proof of its own, and each write has to be shown good for either
way of committing it. `ReservationOK` says that a reservation is alone and above all
history, which is what keeps a nonce for one operation; `SentInJournal`, that whatever
left a process, or stands behind the fence, is exposed in the journal. `HolderOK` has the
facts that hold of the holder of the lease only: a process that lost it may go on with
what it remembers, and every write it then makes has to fail on the row of the lease.

### The battles

`RefereeBattleProofs` proves, for any number of lanes and missions, any durations, list
lengths and numbers of resets and voids:

* `Types`: `Spec => []TypeOK`.
* `RosterIsWhole`: `Spec => []RosterIsComplete`, the sealed roster is the body's whole
  force, each fleet once, with a row and the true count for each of its kinds of units.
* `RosterStays`: `Spec => RosterFixedOnceSealed`.
* `LossesAreOfRows`: `Spec => []LossesFollowRows`.
* `WholeResults`: `Spec => []AllOrNothing`.
* `OrderOfImpacts`: `Spec => []ImpactsInOrder`.

It assumes `BattleConstants`: durations, sizes and cutoffs are positive. The invariant
says that only the battle that has the body's lock is on (`LockOK`) and what is true of
that battle at each of its phases (`BattleOK`): `Progress`, the job, request and result of
the phase; `Scans`, where the cursor may stand and that the lists have the lengths that were
noted; `Enrolled`, that the roster has exactly those members that were looked at so far;
`RowsAreTrue`, that each row stands for units of its own and they are as many as it says,
less its loss; `RowsAreAll`, that whatever was looked at and has units has a row. `Enrolled`
and `RowsAreAll` are what makes the enrolment inductive over its calls: completeness at the
seal is the case in which everything was looked at. Two facts look foreign and are needed:
`Armed`, that an attack which has not yet enrolled a fleet has ships, so that a battle that
waits for its word has at least one row (with none, no leaf could ever finish it); and that
a hold returns no sooner than it ends, so that a recall keeps the order of events. That
nobody launches, recalls or comes home into the past of a battle rests on the lock for
players and on the order of events for fleets (`NobodyComesHome`, `OrderKept`). Each action
has its lemma, `PlayersStep` to `LeafStep`, `ReturnStep` and `FinishStep`.

### The alliances

`AlliancesProofs` proves, for any number of players, alliances, wars and paid invites:

* `Types`: `Spec => []TypeOK`.
* `BooksAgree`: `Spec => []RostersAgree`.
* `ExceptionsAreFrozen`: `Spec => []WarExceptionsAreFrozen`.
* `BonusIsByMembership`: `Spec => []BonusFollowsMembership`.

It assumes `AllianceConstants`: bounds are numbers, and there are finitely many players (a
list of members could not otherwise hold an alliance's). The invariant adds to the books
that their members' alliances are active (`RosterOK`), that no frozen record carries a
number above its pair's last war (`WarOK`; without it a new war could bring an old record
to life), and that an alliance which issued a paid invite stays active (`BonusOK`; without
it an import could take its number and make members of those who produce for it). An import of
relations empties the frozen rosters and the war's age, which keeps all of them.

### The indexer

`ChainSyncProofs` proves, for any logs, any overlap, and any number of blocks and faults:

* `Types`: `Spec => []TypeOK`.
* `Exact`: `Spec => []SafeIsExact`.
* `Invariant`: `Spec => []Inv`, on which both rest.

It assumes `ChainSyncConstants`: the two kinds of logs are disjoint, completions are logs of
the game, the overlap is at least one block. Which logs are restored, and when notices come,
is free. That a reorganisation is no deeper than the overlap is part of the action, as
section 3 says: it is the only hypothesis, and without it an overlap cannot be enough.
`SafeIsExact` compares the ledger with the block of the watermark, which the chain may have
left by then; its invariant compares it with the chain as it is. `ChainOK` says that hashes
fix their past: blocks which agree at a height hold the same logs up to it. `SettledOK` is
the heart: below the overlap with what was scanned, the live rows are the logs of the
present chain, so that what a pass does not fetch needs no look. A reorganisation keeps it
because it stays within the overlap, a crash because the cursor starts again at the highest
block of a row, and a removal notice because of `NoticesOK`, that a log with an untold
removal has no place below the overlap or is `late`. `PassOK` says what a pass may rely on
between two awaits: its logs are all those of its range if its head is still on the chain.
It is where a handler that failed, or a first block that is too high, would show.
`RepairsOK` and `AnchorOK` say that a removed completion is repaired or waits for it, and
that a current watermark is of a block that the ledger shows. The chain's three actions
share one lemma (`ChainStep`, over what `MineMoves`, `ReorganiseMoves` and `ReturnMoves` say
of them), the steps that leave the rows alone another (`QuietStep`); `DrainStep`,
`CommitStep` and `RepairStep` change rows.

### The burn listener

`ChickenBurnsProofs` proves, for any number of passes, burns, planets, blocks and faults, any
start block, lookback and size of chunks, and whichever burns are told by fallback logs:

* `Types`: `Spec => []TypeOK`.
* `NoBurnSkipped`: `Spec => []NoneSkipped`.
* `Invariant`: `Spec => []Inv`, on which both rest.

It assumes `ChickenBurnsConstants`: bounds are numbers, each burn names a planet, there is a
pass, and there are finitely many burns (the logs of a chunk are a list). `NoneSkipped`
speaks of the memory and of the state file, and neither is changed at one stroke: between
the burn that a pass was given and the text that a rename puts into place lie seven waits,
at each of which other passes go on. `Inv` says of every pass what it owes at its place
(`Clear`): before it fetches, that all below its chunk is accounted for (granted, undone
after it, or hidden by a null answer); from then on that each burn of its chunk is so or
among the logs it still has (`InHand`); while a text is on its way to a file, that what the
text claims is accounted for (`Backed`); and that a receipt of success is of a burn that was
granted. `Sound` says the same of both files, if they can be read. No clause mentions a
second pass, since all of them are stable under what others do: what is settled stays so
also when a grant is undone (`SettledStay`, `UndoStep`), and a new burn stands above the
confirmed head (`ClearStays`). `DropStep` is the one step that moves on without a grant; it
writes `unseen`. That the scanned block moves on only when no log is left is where the proof
would fail if an error were swallowed in the middle of a chunk, and that the file is written
by whoever has it open, wherever it is by then, costs one lemma (`WrittenSound`).

### What is only model-checked

* Liveness: `RevealablesRevealed`, `InventoryRefilled`, `SentIsProven`, `BattlesEnd`,
  `Settles` and `EveryBurnGranted`, since fairness and `ENABLED` are outside the prover.
* That each operation can happen at all (`ENABLED`): TLC's coverage of the runs.

The library's induction theorems take an operator as a parameter, which the provers cannot
instantiate; where the proofs need induction over a set (the sums of the books) they argue by
the smallest counterexample instead.

## 7. What is not modelled

* Contract upgrades, ownership transfer and migrations: done by operators, with the
  game paused.
* Formulas, costs and combat mathematics: large sequential arithmetic, tested by the
  repository against reference implementations. What they decide is chosen freely.
* Missiles, gate jumps, build queues, colonisation and referrals.
* The projection of events to rows (`indexer.ts`), HTTP routes, the client's views: data
  and presentation.
* The Uniswap pools and the token launch: external contracts.
* All that section 2 lists as next or planned.
