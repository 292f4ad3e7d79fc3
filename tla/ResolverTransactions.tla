------------------------ MODULE ResolverTransactions ------------------------
(***************************************************************************)
(* ResolverTransactionCoordinator (apps/backend/src/resolverTransactions   *)
(* .ts): the one place where the backend signs with the resolver key.      *)
(* Several processes share a SQLite journal; the one that holds the lease  *)
(* reconciles what is unresolved, and only then signs something new.       *)
(*                                                                         *)
(* A mission batch is prepared: its signature is reserved, retained,       *)
(* persisted as an intent, validated, and sent behind a durable send fence,*)
(* so that a crash never leaves an unknown envelope on the network.  An    *)
(* envelope that the chain accepts but never includes gets one alternative *)
(* with the same nonce.  The other writers (randomness, moons, battles)    *)
(* submit plain transactions without reservation, intent or fence.         *)
(*                                                                         *)
(* An envelope (a signed transaction) is its number in order of signing.   *)
(* Left out: the two operator procedures (recoverNonceGap and the legacy   *)
(* same-nonce recovery), audit rows, storage and retention limits.         *)
(***************************************************************************)
EXTENDS Naturals, Sequences, FiniteSets, Functions, FiniteSetsExt

CONSTANTS
    Processes,      \* the backend processes that share the journal
    BatchOps,       \* operations that are prepared (mission batches)
    PlainOps,       \* operations that are submitted (everything else)
    SupersedeAfter, \* supersedeAfterAttempts: sends before an alternative
    Faults,         \* which faults may happen
    MaxEnvelopes,   \* bound: envelopes signed
    MaxFaults       \* bound: faults

FaultKinds == {"crash", "stall", "power", "reorg", "drop", "reject", "fail"}

ASSUME ConstantsAssumption ==
    /\ SupersedeAfter \in Nat \ {0}
    /\ Faults \subseteq FaultKinds
    /\ MaxEnvelopes \in Nat /\ MaxFaults \in Nat
    /\ BatchOps \cap PlainOps = {}

Ops == BatchOps \cup PlainOps
Envelopes == 1 .. MaxEnvelopes
Nonces == 0 .. MaxEnvelopes

Free == "free"          \* no row in resolver_transaction_leases
Orphan == "orphan"      \* the row of a holder that is gone
NoOp == "none"          \* a pass on its own: reconcilePrepared
ASSUME NamesAssumption == {Free, Orphan} \cap Processes = {} /\ NoOp \notin Ops

VARIABLES
    envelopes,  \* what was signed: operation, nonce, and the original of an alternative
    sent,       \* the envelopes that left a process: each may be mined at any time
    pool,       \* those of them that the node holds as pending
    chain,      \* the mined envelopes by nonce, each with the epoch of its block
    final,      \* how many of them are final
    epoch,      \* how many reorganisations there were: blocks of two epochs differ
    db,         \* the journal as the processes see it
    synced,     \* the journal as a power loss would leave it
    overlooked, \* history: since the last FULL commit an acquire deleted a fence
                \* that it had not seen when it looked
    lease,      \* resolver_transaction_leases: its holder, Orphan or Free
    expired,    \* is the lease past its expiry time?
    local,      \* each process: the step it is at, and what it remembers
    outstanding,\* the sends a process waits for, as <<process, envelope>>
    faults      \* how many faults happened

signing == <<envelopes>>
network == <<sent, pool, chain, final, epoch>>
journal == <<db, synced, overlooked>>
leasing == <<lease, expired>>
vars == <<envelopes, sent, pool, chain, final, epoch, db, synced, overlooked, lease,
          expired, local, outstanding, faults>>

-----------------------------------------------------------------------------
(* Envelopes and the chain as the RPC node shows it. *)

Signed == DOMAIN envelopes
Op(e) == envelopes[e].op
Nonce(e) == envelopes[e].nonce
IsBatch(e) == Op(e) \in BatchOps

Latest == Len(chain)
Mined(e) == Nonce(e) < Latest /\ chain[Nonce(e) + 1].env = e
Final(e) == Nonce(e) < final /\ chain[Nonce(e) + 1].env = e

\* getTransactionCount("pending"): the first nonce the node knows no use of.
Pending == Min({n \in Latest .. MaxEnvelopes + 1 : \A e \in pool : Nonce(e) # n})

-----------------------------------------------------------------------------
(* The journal. *)

\* resolver_transaction_attempts.  Nothing tells an attempt that is over
\* (rejected, reverted, cancelled or retired) from one that never began.
AttemptStatuses == {"over", "allocating", "ambiguous", "submitted", "confirmed", "prevented"}
NoAttempt == [status |-> "over", nonce |-> 0, env |-> 0]

\* resolver_prepared_intents.  `epoch' stands for the receipt's block hash;
\* the signed bytes are in the row until it is finalized.
IntentStatuses == {"none", "pending", "prevented", "confirmed", "finalized", "superseded"}
ReplayStates == {"unvalidated", "ready", "retryable", "rejected"}
Intent == [status : IntentStatuses, replay : ReplayStates,
           attempts : 0 .. SupersedeAfter, epoch : 0 .. MaxFaults]
NoIntent == [status |-> "none", replay |-> "unvalidated", attempts |-> 0, epoch |-> 0]
NewIntent == [NoIntent EXCEPT !.status = "pending"]

\* resolver_signing_reservations that are not transferred, each with its row
\* of resolver_signing_results (env, 0 when there is none).  `signer' is the
\* process that called the key, or Orphan when that process is gone.
Reservation == [op : BatchOps, nonce : Nonces, original : {0} \cup Envelopes,
                env : {0} \cup Envelopes, signer : Processes \cup {Orphan}]

\* resolver_send_fences.  What the operating system knows of the owner is
\* kept with the row: running, dead, or on another host or boot.
NoFence == [owner |-> "nobody", by |-> Free, env |-> 0]

EmptyJournal == [attempts |-> [o \in Ops |-> NoAttempt], reserved |-> {},
                 intents |-> [e \in Envelopes |-> NoIntent], retired |-> {},
                 fence |-> NoFence]

Status(d, e) == d.intents[e].status
Unresolved(d) == {e \in Envelopes : Status(d, e) \in {"pending", "prevented"}}
Proven(d) == {e \in Envelopes : Status(d, e) \in {"confirmed", "finalized"}}

\* The row of an alternative names the original it supersedes.
Alternatives(d, e) == {f \in Signed : Status(d, f) # "none" /\ envelopes[f].original = e}

Record(d, op, status, nonce, env) ==
    [d EXCEPT !.attempts[op] = [status |-> status, nonce |-> nonce, env |-> env]]
Close(d, op) == [d EXCEPT !.attempts[op] = NoAttempt]

\* A commit with synchronous = FULL makes everything before it durable; one
\* under withoutCommitSync does not.  (Where no power is lost the difference
\* is not kept.)
Full(d) == db' = d /\ synced' = d /\ overlooked' = FALSE
Unsynced(d) == db' = d /\ synced' = IF "power" \in Faults THEN synced ELSE d
Normal(d) == Unsynced(d) /\ UNCHANGED overlooked

-----------------------------------------------------------------------------
(* Processes. *)

Idle == [step |-> "idle", op |-> NoOp, next |-> "done", nonce |-> 0, env |-> 0,
         epoch |-> 0, kind |-> "submit", target |-> NoOp, look |-> "none"]

PassSteps == {"begin", "read", "write", "replay", "planned", "signAlternative", "archive"}
SendSteps == {"ready", "dispatch", "sending", "sent"}
SubmitSteps == {"admit", "allocate", "reserve", "sign", "check"}
PlainSteps == {"plainSend", "plainSent", "plainConfirm"}
Steps == {"idle"} \cup PassSteps \cup SendSteps \cup SubmitSteps \cup PlainSteps

TypeOK ==
    /\ envelopes \in Seq([op : Ops, nonce : Nonces, original : {0} \cup Envelopes])
    /\ pool \subseteq sent /\ sent \subseteq Signed
    /\ chain \in Seq([env : Signed, epoch : 0 .. epoch])
    /\ final \in 0 .. Latest /\ epoch \in 0 .. MaxFaults
    /\ \A d \in {db, synced} :
           /\ d.attempts \in [Ops -> [status : AttemptStatuses, nonce : Nonces,
                                      env : {0} \cup Signed]]
           /\ \A o \in Ops : d.attempts[o].env # 0 <=>
                  d.attempts[o].status \in {"submitted", "confirmed", "prevented"}
           /\ d.reserved \subseteq Reservation
           /\ d.intents \in [Envelopes -> Intent]
           /\ \A e \in Envelopes : Status(d, e) # "none" => e \in Signed
           /\ d.retired \subseteq Signed
           /\ d.fence = NoFence \/
                /\ d.fence.owner \in {"running", "dead", "foreign"}
                /\ d.fence.by \in Processes /\ Status(d, d.fence.env) # "none"
    /\ lease \in Processes \cup {Free, Orphan} /\ expired \in BOOLEAN /\ overlooked \in BOOLEAN
    /\ \A p \in Processes : /\ local[p].step \in Steps /\ local[p].op \in Ops \cup {NoOp}
                             /\ local[p].look \in {"none", "open", "fenced"}
                             /\ local[p].epoch \in 0 .. epoch
    /\ outstanding \subseteq Processes \X Signed
    /\ faults \in 0 .. MaxFaults

Init ==
    /\ envelopes = <<>>
    /\ sent = {} /\ pool = {} /\ chain = <<>> /\ final = 0 /\ epoch = 0
    /\ db = EmptyJournal /\ synced = EmptyJournal /\ overlooked = FALSE
    /\ lease = Free /\ expired = FALSE
    /\ local = [p \in Processes |-> Idle]
    /\ outstanding = {}
    /\ faults = 0

At(p, step) == local[p].step = step
Fault(kind) == kind \in Faults /\ faults < MaxFaults /\ faults' = faults + 1

Owns(p) == lease = p /\ ~expired            \* assertLease
Goto(p, step) == local' = [local EXCEPT ![p].step = step] /\ UNCHANGED leasing

\* The end of an operation, by return or by exception: withLease's finally.
Ends(p) ==
    /\ local' = [local EXCEPT ![p] = Idle]
    /\ lease' = IF lease = p THEN Free ELSE lease
    /\ expired' = (expired /\ lease # p)

-----------------------------------------------------------------------------
(* The network. *)

\* A block includes an envelope; the node forgets what it replaces.
Mine(e) ==
    /\ e \in sent /\ Nonce(e) = Latest
    /\ chain' = Append(chain, [env |-> e, epoch |-> epoch])
    /\ pool' = {f \in pool : Nonce(f) > Nonce(e)}
    /\ UNCHANGED <<signing, sent, final, epoch, journal, leasing, local, outstanding, faults>>

Finalize ==
    /\ final < Latest
    /\ final' = Latest
    /\ UNCHANGED <<signing, sent, pool, chain, epoch, journal, leasing, local, outstanding, faults>>

\* The blocks that are not final are replaced; the node may or may not take
\* their envelopes back.
Reorganise ==
    /\ final < Latest /\ Fault("reorg")
    /\ chain' = SubSeq(chain, 1, final)
    /\ epoch' = epoch + 1
    /\ pool' \in {pool, pool \cup {chain[n].env : n \in final + 1 .. Latest}}
    /\ UNCHANGED <<signing, sent, final, journal, leasing, local, outstanding>>

\* The node forgets a pending envelope; another node may still hold it.
Drop(e) ==
    /\ e \in pool /\ Fault("drop")
    /\ pool' = pool \ {e}
    /\ UNCHANGED <<signing, sent, chain, final, epoch, journal, leasing, local, outstanding>>

-----------------------------------------------------------------------------
(* Leases, crashes and power losses. *)

\* Mutant of FenceOpen: an expired lease is taken for the end of the send.
FenceOpen_OnExpiry == db.fence = NoFence \/ expired \/ db.fence.owner = "dead"

\* assertNoOutstandingSend: only the proven exit of its owner clears a fence.
FenceOpen == db.fence = NoFence \/ db.fence.owner = "dead"

Looked(p, look) == local' = [local EXCEPT ![p].look = look] /\ UNCHANGED leasing

\* acquireLease looks whether there is a fence, outside its transaction: only
\* then the transaction commits with FULL.
Look(p) ==
    /\ At(p, "idle") /\ local[p].look = "none"
    /\ Looked(p, IF db.fence = NoFence THEN "open" ELSE "fenced")
    /\ UNCHANGED <<signing, network, journal, outstanding, faults>>

\* Mutant of Deletes: the fence is cleared without a FULL commit.
Deletes_Unsynced(p) == Normal([db EXCEPT !.fence = NoFence])

\* The transaction of an acquire deletes the fence of a dead owner, also one
\* that was raised, and whose owner died, since the look.
Deletes(p) ==
    LET cleared == [db EXCEPT !.fence = NoFence]
    IN  \/ local[p].look = "fenced" /\ Full(cleared)
        \/ /\ local[p].look = "open" /\ Unsynced(cleared)
           /\ overlooked' = (overlooked \/ db.fence # NoFence)

\* submit() or reconcilePrepared() wins the lease; a dead owner's fence goes.
Acquire(p, op) ==
    /\ At(p, "idle") /\ local[p].look # "none"
    /\ lease = Free \/ expired
    /\ FenceOpen /\ Deletes(p)
    /\ lease' = p /\ expired' = FALSE
    /\ local' = [local EXCEPT ![p] = [Idle EXCEPT
                   !.step = "begin", !.op = op, !.next = IF op = NoOp THEN "done" ELSE "admit"]]
    /\ UNCHANGED <<signing, network, outstanding, faults>>

\* The lease is held, and a dead owner's fence goes all the same; or the
\* fence stands.  It looks again, or gives up.
LooksAgain(p) ==
    /\ At(p, "idle") /\ local[p].look # "none"
    /\ Looked(p, "none")
    /\ \/ /\ FenceOpen /\ lease # Free /\ ~expired
          /\ IF db.fence = NoFence THEN UNCHANGED journal ELSE Deletes(p)
       \/ ~FenceOpen /\ UNCHANGED journal
    /\ UNCHANGED <<signing, network, outstanding, faults>>

\* A live holder renews its row every 15 s of the 90 s: only the row of a
\* holder that is gone expires, or that of a process that is stalled.
ExpireLease ==
    /\ ~expired
    /\ \/ lease = Orphan /\ UNCHANGED faults
       \/ lease \in Processes /\ Fault("stall")
    /\ expired' = TRUE
    /\ UNCHANGED <<signing, network, journal, lease, local, outstanding>>

RenewLease(p) ==
    /\ lease = p /\ expired
    /\ expired' = FALSE
    /\ UNCHANGED <<signing, network, journal, lease, local, outstanding, faults>>

\* A process that finds its lease lost stops where it is.
LeaseLost(p) ==
    /\ ~Owns(p)
    /\ local[p].step \in (PassSteps \cup SubmitSteps \cup PlainSteps \cup {"ready", "dispatch"})
                           \ {"plainSend", "plainSent"}
    /\ Ends(p)
    /\ UNCHANGED <<signing, network, journal, outstanding, faults>>

\* What becomes of the rows of a process that is gone.  Its successors see
\* that it exited, unless its PID namespace went with it or its PID is reused.
Without(d, p, owner) ==
    [d EXCEPT !.fence = IF @.by = p THEN [@ EXCEPT !.owner = owner] ELSE @,
              !.reserved = {[r EXCEPT !.signer = IF @ = p THEN Orphan ELSE @] : r \in @}]

Crash(p) ==
    /\ Fault("crash")
    /\ ~At(p, "idle") \/ db.fence.by = p
    /\ \E owner \in IF db.fence.by = p THEN {"dead", "foreign"} ELSE {"dead"} :
          db' = Without(db, p, owner) /\ synced' = Without(synced, p, owner)
    /\ local' = [local EXCEPT ![p] = Idle]
    /\ lease' = IF lease = p THEN Orphan ELSE lease
    /\ outstanding' = {s \in outstanding : s[1] # p}
    /\ UNCHANGED <<signing, network, overlooked, expired>>

\* The host stops: the journal goes back to its last synchronised commit, and
\* the owner of its fence belongs to another boot.
PowerLoss ==
    LET left == [synced EXCEPT
                   !.fence = IF @ = NoFence THEN @ ELSE [@ EXCEPT !.owner = "foreign"],
                   !.reserved = {[r EXCEPT !.signer = Orphan] : r \in @}]
    IN  /\ Fault("power")
        /\ Full(left)
        /\ local' = [p \in Processes |-> Idle]
        /\ lease' \in {Free, Orphan} /\ expired' = FALSE
        /\ outstanding' = {}
        /\ UNCHANGED <<signing, network>>

\* The file system writes the log back on its own.
Flush ==
    /\ "power" \in Faults /\ synced # db
    /\ Full(db)
    /\ UNCHANGED <<signing, network, leasing, local, outstanding, faults>>

-----------------------------------------------------------------------------
(* Signing.  The key is called outside any transaction; its result goes to  *)
(* the reservation whatever became of the pass that asked for it.           *)

Sign(r) ==
    LET e == Len(envelopes) + 1
    IN  /\ r \in db.reserved /\ r.env = 0 /\ r.signer \in Processes
        /\ e \in Envelopes
        /\ envelopes' = Append(envelopes, [op |-> r.op, nonce |-> r.nonce, original |-> r.original])
        /\ Normal([db EXCEPT !.reserved = (@ \ {r}) \cup {[r EXCEPT !.env = e]}])
        /\ UNCHANGED <<network, leasing, local, outstanding, faults>>

\* The reservation becomes an intent.
Transferred(d, r) == [d EXCEPT !.reserved = @ \ {r}, !.intents[r.env] = NewIntent]

-----------------------------------------------------------------------------
(* A reconciliation pass: reconcileIntents. *)

\* The proven intent with the highest nonce is still where it was included.
Canonical(e) == Mined(e) /\ chain[Nonce(e) + 1].epoch = db.intents[e].epoch
FrontierHolds ==
    \A e \in Proven(db) : (\A f \in Proven(db) : Nonce(f) <= Nonce(e)) => Canonical(e)

\* Mutant of Resumable: only the process that signed may go on.
Resumable_BySigner(r) ==
    r.original # 0 /\ r.env # 0 /\ r.signer # Orphan /\ Status(db, r.original) = "pending"

\* A signed alternative that a crash left untransferred is persisted now.
Resumable(r) == r.original # 0 /\ r.env # 0 /\ Status(db, r.original) = "pending"

ResumeAlternative(p) ==
    /\ At(p, "begin") /\ Owns(p)
    /\ \E r \in db.reserved : Resumable(r) /\ Normal(Transferred(db, r))
    /\ UNCHANGED <<signing, network, leasing, local, outstanding, faults>>

BeginPass(p) ==
    /\ At(p, "begin") /\ Owns(p)
    /\ db.reserved = {} /\ FrontierHolds
    /\ Goto(p, "read")
    /\ UNCHANGED <<signing, network, journal, outstanding, faults>>

\* The candidates of the lowest nonce that is not resolved.
Active ==
    {e \in Unresolved(db) : \A f \in Unresolved(db) : Nonce(e) <= Nonce(f)}

\* Of a pair only the alternative is sent again.
Resend == CHOOSE e \in Active : Alternatives(db, e) = {}

ReadReceipts(p) ==
    /\ At(p, "read") /\ Owns(p)
    /\ \/ /\ Active = {}
          /\ Goto(p, "archive")
       \/ /\ \A e \in Active : Status(db, e) = "pending" /\ ~Mined(e)
          /\ Active # {}
          /\ local' = [local EXCEPT ![p].step = "replay", ![p].env = Resend]
          /\ UNCHANGED leasing
       \/ \E e \in Active :
             /\ Mined(e) /\ \A f \in Active : Status(db, f) = "pending"
             /\ local' = [local EXCEPT ![p].step = "write", ![p].env = e,
                                       ![p].epoch = chain[Nonce(e) + 1].epoch]
             /\ UNCHANGED leasing
    /\ UNCHANGED <<signing, network, journal, outstanding, faults>>

\* What retirePrevented asks of the journal and of the chain.
Retirable(e) ==
    /\ Status(db, e) = "prevented"
    /\ db.intents[e].replay = "unvalidated" /\ db.intents[e].attempts = 0
    /\ db.attempts[Op(e)] = [status |-> "prevented", nonce |-> Nonce(e), env |-> e]
    /\ \A f \in Signed : Status(db, f) # "none" => Nonce(f) <= Nonce(e)
    /\ Latest = Nonce(e) /\ Pending = Nonce(e)
    /\ db.fence = NoFence

\* An envelope that was never sent is destroyed, and its nonce is free.
RetirePrevented(p) ==
    /\ At(p, "read") /\ Owns(p)
    /\ \E e \in Active :
          /\ Retirable(e)
          /\ Full([Close(db, Op(e)) EXCEPT
                     !.intents[e] = NoIntent, !.retired = @ \cup {e}])
    /\ UNCHANGED <<signing, network, leasing, local, outstanding, faults>>

\* The other candidate of a pair.
Siblings(d, e) ==
    {f \in Signed : Status(d, f) = "pending" /\ Nonce(f) = Nonce(e) /\ f # e
                      /\ (envelopes[f].original = e \/ envelopes[e].original = f)}

\* The receipt that was read becomes durable, after one more look at the
\* frontier; the other candidate is retired in the same transaction.
WriteReceipt(p) ==
    LET e == local[p].env
    IN  /\ At(p, "write") /\ Owns(p) /\ FrontierHolds
        /\ \A f \in Proven(db) : Nonce(f) # Nonce(e)
        /\ Normal([Record(db, Op(e), "confirmed", Nonce(e), e) EXCEPT
                     !.intents = [f \in Envelopes |->
                        IF f = e THEN [@[e] EXCEPT !.status = "confirmed", !.epoch = local[p].epoch]
                        ELSE IF f \in Siblings(db, e) THEN [@[f] EXCEPT !.status = "superseded"]
                        ELSE @[f]]])
        /\ local' = [local EXCEPT ![p].step = "read", ![p].env = 0, ![p].epoch = 0]
        /\ UNCHANGED <<signing, network, leasing, outstanding, faults>>

-----------------------------------------------------------------------------
(* Sending an intent again: replayIntent and supersedeIntent. *)

\* The original needs its durable ready marker; nothing is sent again after
\* a deterministic rejection, an inclusion, or an alternative.
Replayable(e) ==
    /\ \/ db.intents[e].replay \in {"ready", "retryable"}
       \/ db.intents[e].replay = "unvalidated" /\ envelopes[e].original # 0
    /\ Alternatives(db, e) = {} /\ ~Mined(e)

Replay(p) ==
    LET e == local[p].env
    IN  /\ At(p, "replay") /\ Owns(p) /\ Replayable(e)
        /\ local' = [local EXCEPT
              ![p].step = IF db.intents[e].replay = "unvalidated" THEN "ready" ELSE "dispatch",
              ![p].kind = IF @ = "supersede" THEN @ ELSE "replay"]
        /\ UNCHANGED <<signing, network, journal, leasing, outstanding, faults>>

\* No other intent at or after the nonce.
Exclusive(e) == \A f \in Signed : Status(db, f) # "none" => Nonce(f) < Nonce(e) \/ f = e

PlanAlternative(p) ==
    LET e == local[p].env
    IN  /\ At(p, "replay") /\ Owns(p) /\ Replayable(e)
        /\ envelopes[e].original = 0
        /\ db.intents[e].replay = "retryable" /\ db.intents[e].attempts >= SupersedeAfter
        /\ Exclusive(e) /\ Latest = Nonce(e)
        /\ Goto(p, "planned")
        /\ UNCHANGED <<signing, network, journal, outstanding, faults>>

\* No alternative can help now: the original is sent again.
PlanUnavailable(p) ==
    /\ At(p, "planned") /\ Owns(p)
    /\ local' = [local EXCEPT ![p].step = "dispatch", ![p].kind = "replay"]
    /\ UNCHANGED <<signing, network, journal, leasing, outstanding, faults>>

ReserveAlternative(p) ==
    LET e == local[p].env
    IN  /\ At(p, "planned") /\ Owns(p)
        /\ Exclusive(e) /\ db.reserved = {} /\ db.fence = NoFence
        /\ Status(db, e) = "pending"
        /\ Normal([db EXCEPT !.reserved = {[op |-> Op(e), nonce |-> Nonce(e),
                     original |-> e, env |-> 0, signer |-> p]}])
        /\ Goto(p, "signAlternative")
        /\ UNCHANGED <<signing, network, outstanding, faults>>

TransferAlternative(p) ==
    /\ At(p, "signAlternative") /\ Owns(p)
    /\ \E r \in db.reserved :
          /\ r.original = local[p].env /\ Resumable(r)
          /\ Normal(Transferred(db, r))
          /\ local' = [local EXCEPT ![p].step = "replay", ![p].env = r.env,
                                    ![p].kind = "supersede"]
    /\ UNCHANGED <<signing, network, leasing, outstanding, faults>>

\* Archival: what is final by now keeps its row but loses its bytes.  (A pass
\* looks at up to eight rows, more than any instance here has.)  A submission
\* goes on from the chain that the pass has seen.
Archive(p) ==
    /\ At(p, "archive") /\ Owns(p) /\ FrontierHolds
    /\ \A e \in Proven(db) : Status(db, e) = "confirmed" => Canonical(e)
    /\ Normal([db EXCEPT !.intents = [e \in Envelopes |->
                  IF Status(db, e) = "confirmed" /\ Final(e)
                  THEN [@[e] EXCEPT !.status = "finalized"] ELSE @[e]]])
    /\ \/ local[p].next = "done" /\ Ends(p)
       \/ /\ local[p].next = "admit"
          /\ local' = [local EXCEPT ![p].step = "admit", ![p].epoch = epoch]
          /\ UNCHANGED leasing
    /\ UNCHANGED <<signing, network, outstanding, faults>>

\* A pass that cannot go on fails; the next one starts over.
Blocked(p) ==
    \/ At(p, "begin") /\ (~FrontierHolds \/ \E r \in db.reserved : ~Resumable(r))
    \/ At(p, "read") /\ \E e \in Active : Status(db, e) = "prevented" /\ ~Retirable(e)
    \/ At(p, "write") /\ (~FrontierHolds \/ \E f \in Proven(db) : Nonce(f) = Nonce(local[p].env))
    \/ At(p, "replay") /\ (~Replayable(local[p].env) \/ db.intents[local[p].env].attempts > 0)
    \/ At(p, "archive") /\ \E e \in Proven(db) : ~Canonical(e)

PassBlocked(p) ==
    /\ Owns(p) /\ Blocked(p)
    /\ Ends(p)
    /\ UNCHANGED <<signing, network, journal, outstanding, faults>>

\* A read fails, or the pass reaches its deadline while it waits for the
\* chain, the key or the transport, which go on without it.
PassFails(p) ==
    /\ Owns(p) /\ Fault("fail")
    /\ local[p].step \in PassSteps \/ (At(p, "sent") /\ local[p].kind # "submit")
    /\ Ends(p)
    /\ UNCHANGED <<signing, network, journal, outstanding>>

\* The key fails: its reservation will never have a result.
KeyFails(p) ==
    /\ local[p].step \in {"sign", "signAlternative"} /\ Fault("fail")
    /\ \E r \in db.reserved :
          /\ r.signer = p /\ r.env = 0
          /\ Normal([db EXCEPT !.reserved = (@ \ {r}) \cup {[r EXCEPT !.signer = Orphan]}])
    /\ Ends(p)
    /\ UNCHANGED <<signing, network, outstanding>>

-----------------------------------------------------------------------------
(* One send: the ready marker, then sendPrepared. *)

\* The first validation of an envelope is over: `check' is the submission's,
\* `ready' that of an alternative in a pass.
MarkReady(p) ==
    LET e == local[p].env
        marked == [db EXCEPT !.intents[e].replay = "ready"]
    IN  /\ local[p].step \in {"check", "ready"} /\ Owns(p)
        /\ Status(db, e) = "pending" /\ db.intents[e].replay = "unvalidated"
        /\ \/ At(p, "check") /\ Normal(marked)
           \/ At(p, "ready") /\ Full(marked)
        /\ Goto(p, "dispatch")
        /\ UNCHANGED <<signing, network, outstanding, faults>>

\* The quote expires inside the transaction that would have used it, which is
\* rolled back.
QuoteExpires(p) ==
    /\ local[p].step \in {"check", "ready", "dispatch"} /\ Owns(p) /\ Fault("fail")
    /\ Ends(p)
    /\ UNCHANGED <<signing, network, journal, outstanding>>

\* Mutant of Dispatch: the fence is written under withoutCommitSync.
Dispatch_Unsynced(p) ==
    LET e == local[p].env
        attempts == Min({db.intents[e].attempts + 1, SupersedeAfter})
    IN  /\ At(p, "dispatch") /\ Owns(p)
        /\ Status(db, e) = "pending" /\ db.fence = NoFence
        /\ Normal([db EXCEPT !.intents[e].attempts = attempts,
                             !.intents[e].replay = "retryable",
                             !.fence = [owner |-> "running", by |-> p, env |-> e]])
        /\ Goto(p, "sending")
        /\ UNCHANGED <<signing, network, outstanding, faults>>

\* The fence and the count of sends, in one FULL commit before the send.
Dispatch(p) ==
    LET e == local[p].env
        attempts == Min({db.intents[e].attempts + 1, SupersedeAfter})
    IN  /\ At(p, "dispatch") /\ Owns(p)
        /\ Status(db, e) = "pending" /\ db.fence = NoFence
        /\ Full([db EXCEPT !.intents[e].attempts = attempts,
                           !.intents[e].replay = "retryable",
                           !.fence = [owner |-> "running", by |-> p, env |-> e]])
        /\ Goto(p, "sending")
        /\ UNCHANGED <<signing, network, outstanding, faults>>

\* The node may take an envelope into its pool in place of another.
Accepting(e) ==
    {pool} \cup IF Nonce(e) >= Latest
                THEN {{f \in pool : Nonce(f) # Nonce(e)} \cup {e}} ELSE {}

Invoke(p) ==
    /\ At(p, "sending") /\ Owns(p)
    /\ sent' = sent \cup {local[p].env}
    /\ pool' \in Accepting(local[p].env)
    /\ outstanding' = outstanding \cup {<<p, local[p].env>>}
    /\ Goto(p, "sent")
    /\ UNCHANGED <<signing, chain, final, epoch, journal, faults>>

\* The lease or the quote is over by now: the fence is taken back.
NotInvoked(p) ==
    /\ At(p, "sending")
    /\ IF Owns(p) THEN Fault("fail") ELSE UNCHANGED faults
    /\ Full([db EXCEPT !.fence = NoFence])
    /\ Ends(p)
    /\ UNCHANGED <<signing, network, outstanding>>

\* The transport settles, perhaps after the pass and the lease are gone: the
\* result is classified (a deterministic rejection, or an answer with another
\* hash, ends the resends) and the fence removed in one commit.  The first send
\* of an alternative ends the pass; a submission goes on with another pass.
Settle(p, e) ==
    LET cleared == [db EXCEPT !.fence = NoFence]
        replaying == local[p].kind = "replay"
    IN  /\ <<p, e>> \in outstanding /\ IsBatch(e)
        /\ outstanding' = outstanding \ {<<p, e>>}
        /\ \/ Full(cleared) /\ UNCHANGED faults
           \/ /\ e \notin pool /\ Fault("reject")
              /\ Full([cleared EXCEPT !.intents[e].replay =
                         IF Status(db, e) = "pending" THEN "rejected" ELSE @])
        /\ IF ~At(p, "sent") THEN UNCHANGED <<local, leasing>>
           ELSE IF ~Owns(p) \/ local[p].kind = "supersede" THEN Ends(p)
           ELSE /\ local' = [local EXCEPT ![p] = [Idle EXCEPT
                     !.step = IF replaying THEN "read" ELSE "begin",
                     !.next = IF replaying THEN local[p].next ELSE "done",
                     !.op = local[p].op]]
                /\ UNCHANGED leasing
        /\ UNCHANGED <<signing, network>>

-----------------------------------------------------------------------------
(* Submission after a pass: submitWithLease. *)

Attempt(p) == db.attempts[local[p].op]

\* assertPreparedAdmission.
Admitted(p) ==
    local[p].op \in BatchOps => db.reserved = {} /\ Unresolved(db) = {}

AdmitFresh(p) ==
    /\ At(p, "admit") /\ Owns(p) /\ Admitted(p)
    /\ Attempt(p).status \in {"over", "prevented"}
    /\ Goto(p, "allocate")
    /\ UNCHANGED <<signing, network, journal, outstanding, faults>>

\* A batch may be one part of a larger operation and is never complete.
AdmitConfirmed(p) ==
    /\ At(p, "admit") /\ Owns(p) /\ Admitted(p)
    /\ Attempt(p).status = "confirmed"
    /\ \/ /\ local[p].op \in PlainOps
          /\ Ends(p) /\ UNCHANGED journal
       \/ /\ Full(Close(db, local[p].op))
          /\ Goto(p, "allocate")
    /\ UNCHANGED <<signing, network, outstanding, faults>>

\* A crash left an allocation that may or may not have been sent.
AdmitUnknown(p) ==
    LET n == Attempt(p).nonce
    IN  /\ At(p, "admit") /\ Owns(p) /\ Admitted(p)
        /\ \/ /\ Attempt(p).status = "allocating"
              /\ IF Latest > n \/ Pending > n
                 THEN Full(Record(db, local[p].op, "ambiguous", n, 0)) /\ Ends(p)
                 ELSE Full(Close(db, local[p].op)) /\ Goto(p, "allocate")
           \/ /\ Attempt(p).status = "ambiguous"
              /\ IF Latest > n THEN Full(Close(db, local[p].op)) /\ Ends(p)
                 ELSE IF Pending > n THEN UNCHANGED journal /\ Ends(p)
                 ELSE Full(Close(db, local[p].op)) /\ Goto(p, "allocate")
        /\ UNCHANGED <<signing, network, outstanding, faults>>

\* Mutant of AdmitSubmitted: the nonce may have been used since.
AdmitSubmitted_AnyNonce(p) ==
    /\ At(p, "admit") /\ Owns(p) /\ Attempt(p).status = "submitted"
    /\ \/ UNCHANGED journal /\ Ends(p)
       \/ /\ local[p].op \in PlainOps
          /\ local' = [local EXCEPT ![p].step = "plainSend", ![p].kind = "replace",
                                    ![p].target = local[p].op, ![p].nonce = Attempt(p).nonce]
          /\ UNCHANGED <<journal, leasing>>
    /\ UNCHANGED <<signing, network, outstanding, faults>>

\* The generic path: confirm, or replace at the same nonce.  A batch has no
\* replacement writer.
AdmitSubmitted(p) ==
    /\ At(p, "admit") /\ Owns(p) /\ Admitted(p)
    /\ Attempt(p).status = "submitted"
    /\ \/ /\ Mined(Attempt(p).env)
          /\ \/ Full(Record(db, local[p].op, "confirmed", Attempt(p).nonce, Attempt(p).env))
             \/ Full(Close(db, local[p].op))                                \* reverted
          /\ Ends(p)
       \/ UNCHANGED journal /\ Ends(p)
       \/ /\ Latest <= Attempt(p).nonce /\ local[p].op \in PlainOps
          /\ local' = [local EXCEPT ![p].step = "plainSend", ![p].kind = "replace",
                                    ![p].target = local[p].op, ![p].nonce = Attempt(p).nonce]
          /\ UNCHANGED <<journal, leasing>>
    /\ UNCHANGED <<signing, network, outstanding, faults>>

\* Also when the journal or its window of active intents is full.
NotAdmitted(p) ==
    /\ At(p, "admit") /\ Owns(p)
    /\ IF Admitted(p) THEN Fault("fail") ELSE UNCHANGED faults
    /\ Ends(p)
    /\ UNCHANGED <<signing, network, journal, outstanding>>

\* Mutant of Retained: history at the nonce does not hold it.
Retained_Never == FALSE

\* A prepared intent at or after the nonce: the chain's count went back.
Retained == \E e \in Signed : Status(db, e) # "none" /\ Nonce(e) >= Pending

\* The bound on envelopes leaves room for an alternative.
Room == Len(envelopes) + 2 <= MaxEnvelopes

Allocate(p) ==
    /\ At(p, "allocate") /\ Owns(p)
    /\ Pending = Latest /\ ~Retained /\ Room
    /\ Full(Record(db, local[p].op, "allocating", Pending, 0))
    /\ local' = [local EXCEPT ![p].nonce = Pending,
          ![p].step = IF local[p].op \in BatchOps THEN "reserve" ELSE "plainSend",
          ![p].target = IF local[p].op \in BatchOps THEN NoOp ELSE local[p].op]
    /\ UNCHANGED <<signing, network, leasing, outstanding, faults>>

\* An earlier plain transaction of the signer is stuck: cancel it first.
CancelStale(p) ==
    /\ At(p, "allocate") /\ Owns(p) /\ Pending > Latest /\ local[p].op \in PlainOps
    /\ \E o \in Ops :
          /\ db.attempts[o].status = "submitted" /\ db.attempts[o].nonce = Latest
          /\ local' = [local EXCEPT ![p].step = "plainSend", ![p].kind = "cancel",
                                    ![p].target = o, ![p].nonce = Latest]
    /\ UNCHANGED <<signing, network, journal, leasing, outstanding, faults>>

NotAllocated(p) ==
    /\ At(p, "allocate") /\ Owns(p)
    /\ Pending > Latest \/ Retained \/ ~Room
    /\ Ends(p)
    /\ UNCHANGED <<signing, network, journal, outstanding, faults>>

-----------------------------------------------------------------------------
(* A prepared batch. *)

Allocating(p) == Attempt(p) = [status |-> "allocating", nonce |-> local[p].nonce, env |-> 0]

\* The batch is not worth sending any more: nothing was signed.
PrepareFails(p) ==
    /\ At(p, "reserve") /\ Owns(p)
    /\ Full(Close(db, local[p].op))
    /\ Ends(p)
    /\ UNCHANGED <<signing, network, outstanding, faults>>

Reserve(p) ==
    /\ At(p, "reserve") /\ Owns(p) /\ Allocating(p)
    /\ Normal([db EXCEPT !.reserved = @ \cup {[op |-> local[p].op, nonce |-> local[p].nonce,
                 original |-> 0, env |-> 0, signer |-> p]}])
    /\ Goto(p, "sign")
    /\ UNCHANGED <<signing, network, outstanding, faults>>

\* Mutant of Persist: the attempt is recorded without the hash.
Persist_Hashless(p) ==
    /\ At(p, "sign") /\ Owns(p) /\ Allocating(p)
    /\ \E r \in db.reserved :
          /\ r.op = local[p].op /\ r.nonce = local[p].nonce
          /\ r.original = 0 /\ r.env # 0 /\ r.signer = p
          /\ Normal(Record(Transferred(db, r), r.op, "submitted", r.nonce, 0))
          /\ local' = [local EXCEPT ![p].step = "check", ![p].env = r.env, ![p].nonce = 0]
    /\ UNCHANGED <<signing, network, leasing, outstanding, faults>>

Persist(p) ==
    /\ At(p, "sign") /\ Owns(p) /\ Allocating(p)
    /\ \E r \in db.reserved :
          /\ r.op = local[p].op /\ r.nonce = local[p].nonce
          /\ r.original = 0 /\ r.env # 0 /\ r.signer = p
          /\ Normal(Record(Transferred(db, r), r.op, "submitted", r.nonce, r.env))
          /\ local' = [local EXCEPT ![p].step = "check", ![p].env = r.env, ![p].nonce = 0]
    /\ UNCHANGED <<signing, network, leasing, outstanding, faults>>

\* Mutant of Prevent: the quote is looked at after the send as well.
Prevent_Late(p) ==
    LET e == local[p].env
    IN  /\ local[p].step \in {"check", "sent"} /\ Owns(p) /\ local[p].kind = "submit"
        /\ Attempt(p) = [status |-> "submitted", nonce |-> Nonce(e), env |-> e]
        /\ Status(db, e) = "pending"
        /\ Full([Record(db, Op(e), "prevented", Nonce(e), e) EXCEPT
                   !.intents[e].status = "prevented"])
        /\ Ends(p)
        /\ UNCHANGED <<signing, network, outstanding, faults>>

\* The quote expired before the first send: the envelope is never sent.
Prevent(p) ==
    LET e == local[p].env
    IN  /\ At(p, "check") /\ Owns(p)
        /\ Attempt(p) = [status |-> "submitted", nonce |-> Nonce(e), env |-> e]
        /\ Status(db, e) = "pending"
        /\ Full([Record(db, Op(e), "prevented", Nonce(e), e) EXCEPT
                   !.intents[e].status = "prevented"])
        /\ Ends(p)
        /\ UNCHANGED <<signing, network, outstanding, faults>>

-----------------------------------------------------------------------------
(* A plain transaction: submit, replace and cancelStale sign and send in one *)
(* call, after the last look at the lease.                                   *)

PlainSend(p) ==
    LET e == Len(envelopes) + 1
    IN  /\ At(p, "plainSend") /\ e \in Envelopes
        /\ envelopes' = Append(envelopes, [op |-> local[p].target, nonce |-> local[p].nonce,
                                           original |-> 0])
        /\ sent' = sent \cup {e}
        /\ pool' \in {pool} \cup
             IF local[p].nonce < Latest THEN {}
             ELSE {{f \in pool : Nonce(f) # local[p].nonce} \cup {e}}
        /\ outstanding' = outstanding \cup {<<p, e>>}
        /\ local' = [local EXCEPT ![p].step = "plainSent", ![p].env = e]
        /\ UNCHANGED <<chain, final, epoch, journal, leasing, faults>>

StartOver(p) ==
    /\ local' = [local EXCEPT ![p] = [Idle EXCEPT !.step = "allocate", !.op = local[p].op,
                                               !.epoch = local[p].epoch]]
    /\ UNCHANGED leasing

\* A failed submission gives its nonce back; a failed replacement or
\* cancellation changes nothing.
GivesUp(p) ==
    /\ IF local[p].kind = "submit" /\ Owns(p)
       THEN Full(Close(db, local[p].target))
       ELSE UNCHANGED journal
    /\ Ends(p)

\* The call fails before it signs (a quote, a gas estimate, a preflight) ...
PlainUnsent(p) ==
    /\ At(p, "plainSend")
    /\ GivesUp(p)
    /\ UNCHANGED <<signing, network, outstanding, faults>>

\* ... or its answer is an error, whatever the node did with the envelope.
PlainFails(p) ==
    /\ At(p, "plainSent")
    /\ <<p, local[p].env>> \in outstanding
    /\ outstanding' = outstanding \ {<<p, local[p].env>>}
    /\ \/ local[p].env \notin pool /\ UNCHANGED faults
       \/ local[p].env \in pool /\ Fault("fail")
    /\ \/ GivesUp(p)
       \/ /\ local[p].kind = "submit" /\ Owns(p)      \* underpriced: the nonce moved on
          /\ Pending > local[p].nonce
          /\ StartOver(p) /\ UNCHANGED journal
    /\ UNCHANGED <<signing, network>>

PlainAccepted(p) ==
    /\ At(p, "plainSent") /\ <<p, local[p].env>> \in outstanding
    /\ outstanding' = outstanding \ {<<p, local[p].env>>}
    /\ IF Owns(p)
       THEN /\ Full(Record(db, local[p].target, "submitted", local[p].nonce, local[p].env))
            /\ Goto(p, "plainConfirm")
       ELSE Ends(p) /\ UNCHANGED journal
    /\ UNCHANGED <<signing, network, faults>>

\* The receipt; after a cancellation the submission starts over.
PlainConfirmed(p) ==
    LET target == local[p].target
    IN  /\ At(p, "plainConfirm") /\ Owns(p) /\ Mined(local[p].env)
        /\ \/ Full(Close(db, target)) /\ Ends(p)                            \* reverted
           \/ /\ local[p].kind # "cancel"
              /\ Full(Record(db, target, "confirmed", local[p].nonce, local[p].env))
              /\ Ends(p)
           \/ local[p].kind = "cancel" /\ Full(Close(db, target)) /\ StartOver(p)
        /\ UNCHANGED <<signing, network, outstanding, faults>>

\* No receipt in time: the attempt stays submitted.
PlainUnconfirmed(p) ==
    /\ At(p, "plainConfirm") /\ Owns(p)
    /\ Ends(p)
    /\ UNCHANGED <<signing, network, journal, outstanding, faults>>

-----------------------------------------------------------------------------
Pass(p) ==
    \/ ResumeAlternative(p) \/ BeginPass(p) \/ ReadReceipts(p) \/ RetirePrevented(p)
    \/ WriteReceipt(p) \/ Replay(p) \/ PlanAlternative(p) \/ PlanUnavailable(p)
    \/ ReserveAlternative(p) \/ TransferAlternative(p) \/ Archive(p) \/ PassBlocked(p)

Send(p) ==
    \/ MarkReady(p) \/ QuoteExpires(p) \/ Dispatch(p) \/ Invoke(p) \/ NotInvoked(p)
    \/ \E e \in Signed : Settle(p, e)

Submit(p) ==
    \/ AdmitFresh(p) \/ AdmitConfirmed(p) \/ AdmitUnknown(p) \/ AdmitSubmitted(p)
    \/ NotAdmitted(p) \/ Allocate(p) \/ CancelStale(p) \/ NotAllocated(p)
    \/ PrepareFails(p) \/ Reserve(p) \/ Persist(p) \/ Prevent(p)

Plain(p) ==
    \/ PlainSend(p) \/ PlainUnsent(p) \/ PlainFails(p) \/ PlainAccepted(p)
    \/ PlainConfirmed(p) \/ PlainUnconfirmed(p)

Step(p) == Pass(p) \/ Send(p) \/ Submit(p) \/ Plain(p)

Next ==
    \/ \E p \in Processes :
          \/ \E op \in Ops \cup {NoOp} : Acquire(p, op)
          \/ Look(p) \/ LooksAgain(p) \/ Step(p) \/ PassFails(p) \/ KeyFails(p) \/ RenewLease(p) \/ LeaseLost(p) \/ Crash(p)
    \/ \E r \in db.reserved : Sign(r)
    \/ \E e \in Signed : Mine(e) \/ Drop(e)
    \/ Finalize \/ Reorganise \/ ExpireLease \/ PowerLoss \/ Flush

Spec == Init /\ [][Next]_vars

-----------------------------------------------------------------------------
(* Safety. *)

Batches == {e \in Signed : IsBatch(e)}

\* Every batch envelope on the network is in the journal that a power loss
\* leaves, with its bytes unless it is final: no crash between the four
\* unsynchronised commits and the send makes the signer forget what it sent.
DurableBeforeBroadcast ==
    \A e \in sent \cap Batches, d \in {db, synced} :
        Status(d, e) # "none" /\ (Status(d, e) = "finalized" => Final(e))

\* All the batch envelopes ever sent with one nonce are of one operation,
\* and at most two: an original and its alternative.
OneOperationPerNonce ==
    \A e, f \in sent \cap Batches : Nonce(e) = Nonce(f) =>
        e = f \/ envelopes[e].original = f \/ envelopes[f].original = e

\* At most one send is outstanding among all processes, also while a send
\* outlives its pass, its lease or its process; but for a plain send, which has
\* no fence, after its process has lost the lease.
OneSendOutstanding ==
    Cardinality({s \in outstanding : IsBatch(s[2]) \/ lease = s[1]}) <= 1

\* An envelope that was prevented or retired has not been sent and never is:
\* destroying its bytes and reusing its nonce is safe.
PreventedNeverSent ==
    \A e \in sent : e \notin db.retired /\ Status(db, e) # "prevented"

\* A fence that was cleared stays cleared after a power loss, where it would
\* be taken for that of another host and hold the signer for ever; but for the
\* fence of a process that raised it and died while an acquire was between its
\* look and its transaction, which the comment before the look overlooks.
ClearedFenceStaysCleared == synced.fence # NoFence => db.fence # NoFence \/ overlooked

\* A plain transaction never takes a nonce that the journal holds for a
\* batch, not even as the replacement of one that the node dropped; but for
\* what a process sends whose lease is another's, or that decided on a chain
\* which was reorganised since its pass.
PlainAboveHistory ==
    [][\A s \in outstanding' \ outstanding :
         /\ envelopes'[s[2]].op \in PlainOps
         /\ lease = s[1] /\ local[s[1]].epoch = epoch
         => \A f \in Envelopes : Status(db, f) # "none" => Nonce(f) < envelopes'[s[2]].nonce]_vars

\* The chain uses the nonce of an unresolved batch for that batch only; any
\* other use would leave its intent unresolved for ever.
NonceNotLost ==
    \A e \in sent \cap Batches : Nonce(e) < Latest => Op(chain[Nonce(e) + 1].env) = Op(e)

-----------------------------------------------------------------------------
(* Liveness. *)

\* Processes run their loops, transports and the key answer, the lease of a
\* process that is gone expires, a stalled process wakes up, the backoff before
\* a resend ends, the node takes an envelope that it is offered again and again, and a block takes what
\* the node holds.
LiveSpec ==
    /\ Spec
    /\ \A p \in Processes :
          WF_vars(Look(p) \/ LooksAgain(p) \/ \E op \in Ops \cup {NoOp} : Acquire(p, op))
    /\ \A p \in Processes : WF_vars(Step(p))
    /\ WF_vars(ExpireLease)
    /\ \A p \in Processes : WF_vars(RenewLease(p) \/ LeaseLost(p))
    /\ WF_vars(\E r \in db.reserved : Sign(r))
    /\ WF_vars(\E e \in pool : Mine(e))
    /\ SF_vars(\E p \in Processes : Replay(p) \/ PlanAlternative(p))
    /\ SF_vars(\E p \in Processes : Invoke(p) /\ local[p].env \in pool')

\* What waits for an operator by design: a reservation whose signer is gone
\* without a result, a fence whose owner cannot be seen to be dead, and an
\* intent that the node rejected for good; and a nonce lost to another
\* transaction, which NonceNotLost is about.
Stranded ==
    \/ \E r \in db.reserved : r.env = 0 /\ r.signer = Orphan
    \/ db.fence.owner = "foreign"
    \/ \E e \in Signed : db.intents[e].replay = "rejected"
    \/ ~NonceNotLost

\* A batch that was sent once is proven at last, itself or by its alternative,
\* whatever the node forgets and wherever the process crashes, unless the
\* crash leaves a state that waits for an operator.  (What was sent stays so:
\* this is "sent leads to proven", which TLC checks faster in this form.)
SentIsProven ==
    \A e \in Envelopes : []<>(e \in sent \cap Batches =>
        Stranded \/ Status(db, e) \in {"confirmed", "finalized", "superseded"})

=============================================================================
