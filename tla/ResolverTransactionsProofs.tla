--------------------- MODULE ResolverTransactionsProofs ---------------------
(***************************************************************************)
(* What the resolver's signer promises, for any number of processes,       *)
(* operations and envelopes and whatever faults happen: an envelope is in  *)
(* the durable journal before it is on the network, one nonce is never     *)
(* used for two operations, what was destroyed was never sent, a fence     *)
(* that was cleared is cleared for good unless an acquire overlooked it,   *)
(* and of the sends behind the fence and those of the holder of the lease  *)
(* at most one is outstanding.                                             *)
(*                                                                         *)
(* The journal comes in two copies, the one that processes see and the one *)
(* that a power loss leaves.  JournalOK is stated of a journal, so that    *)
(* what it says survives a power loss; HolderOK adds what the holder of    *)
(* the lease may rely on because nobody else writes.                       *)
(***************************************************************************)
EXTENDS ResolverTransactions, FiniteSetTheorems, SequenceTheorems, TLAPS

-----------------------------------------------------------------------------
(* The inductive invariant. *)

EnvelopeRow == [op : Ops, nonce : Nonces, original : {0} \cup Envelopes]

\* A nonce is below the number of the envelope that uses it, and an
\* alternative has the operation and the nonce of its original, an earlier one.
EnvelopesOK ==
    /\ envelopes \in Seq(EnvelopeRow) /\ Len(envelopes) <= MaxEnvelopes
    /\ \A e \in Signed :
          /\ Nonce(e) < e
          /\ envelopes[e].original # 0 =>
                /\ envelopes[e].original \in Signed /\ envelopes[e].original < e
                /\ Op(envelopes[e].original) = Op(e) /\ Nonce(envelopes[e].original) = Nonce(e)

NetworkOK ==
    /\ pool \subseteq sent /\ sent \subseteq Signed
    /\ chain \in Seq([env : sent, epoch : 0 .. epoch])
    /\ \A n \in DOMAIN chain : Nonce(chain[n].env) = n - 1
    /\ final \in 0 .. Latest
    /\ epoch \in Nat /\ faults \in 0 .. MaxFaults /\ epoch <= faults
    /\ lease \in Processes \cup {Free, Orphan} /\ expired \in BOOLEAN

\* Nonces that were in use when something was signed.
Used == 0 .. Len(envelopes)
Attempts == [Ops -> [status : AttemptStatuses, nonce : Used, env : {0} \cup Signed]]
Fences == {NoFence} \cup [owner : {"running", "dead", "foreign"}, by : Processes, env : Signed]

\* An envelope that may be on the network or is about to be.
Exposed(d, e) == Status(d, e) \notin {"none", "prevented"} /\ d.intents[e].replay # "unvalidated"

Journals == [attempts : Attempts, reserved : SUBSET Reservation,
             intents : [Envelopes -> Intent], retired : SUBSET Signed, fence : Fences]

RowsOK(d) == d \in Journals /\ \A r \in d.reserved : r.nonce \in Used

\* An attempt names its envelope, a batch only one of its own, and a batch
\* that is submitted waits in the intents.
AttemptsOK(d) ==
    \A o \in Ops :
       /\ d.attempts[o].env # 0 <=> d.attempts[o].status \in {"submitted", "confirmed", "prevented"}
       /\ o \in BatchOps /\ d.attempts[o].env # 0 => Op(d.attempts[o].env) = o
       /\ o \in BatchOps /\ d.attempts[o].status = "submitted" => Status(d, d.attempts[o].env) = "pending"

\* A reservation is alone; its result is of its kind and not used yet; and
\* its nonce is above all history, but for the original of an alternative.
ReservationOK(d, r) ==
    /\ \A s \in d.reserved : s = r
    /\ r.env # 0 =>
          /\ r.env \in Signed /\ r.env \notin sent /\ r.env \notin d.retired
          /\ envelopes[r.env] = [op |-> r.op, nonce |-> r.nonce, original |-> r.original]
          /\ Status(d, r.env) = "none"
    /\ r.original # 0 =>
          r.original \in Signed /\ Op(r.original) = r.op /\ Nonce(r.original) = r.nonce
    /\ \A f \in Signed : Status(d, f) # "none" => Nonce(f) < r.nonce \/ f = r.original

\* Of one nonce all intents are resolved or none is.
Waits(d, e) == Status(d, e) \in {"pending", "prevented"}

IntentsOK(d) ==
    /\ \A e \in Envelopes : Status(d, e) # "none" => e \in Signed /\ IsBatch(e)
    /\ \A e, f \in Signed : Status(d, e) # "none" /\ Status(d, f) # "none" /\ Nonce(e) = Nonce(f) =>
          e = f \/ envelopes[e].original = f \/ envelopes[f].original = e
    /\ \A e, f \in Signed : Waits(d, e) /\ Status(d, f) # "none" /\ Nonce(e) = Nonce(f) => Waits(d, f)
    /\ \A e \in Signed : Status(d, e) = "finalized" => Final(e)
    /\ \A e \in Signed : Status(d, e) = "superseded" =>
          \E f \in Signed : Status(d, f) \in {"confirmed", "finalized"} /\ Nonce(f) = Nonce(e)

\* What was sent, and what stands behind the fence, is in the journal.
SentInJournal(d) ==
    /\ \A e \in sent : IsBatch(e) => Exposed(d, e)
    /\ d.fence # NoFence => Exposed(d, d.fence.env)
    /\ \A e \in d.retired : e \notin sent /\ Status(d, e) = "none" /\ IsBatch(e)

JournalOK(d) ==
    /\ RowsOK(d) /\ AttemptsOK(d) /\ IntentsOK(d) /\ SentInJournal(d)
    /\ \A r \in d.reserved : ReservationOK(d, r)

\* A fence is raised, and an envelope retired, by FULL commits only.  A fence
\* is cleared by others only where an acquire overlooked it.
SyncedOK ==
    /\ db.retired = synced.retired
    /\ db.fence # NoFence => synced.fence = db.fence
    /\ ClearedFenceStaysCleared
    /\ overlooked \in BOOLEAN

Process == [step : Steps, op : Ops \cup {NoOp}, next : {"done", "admit"}, nonce : Used,
            env : {0} \cup Signed, epoch : 0 .. epoch, look : {"none", "open", "fenced"},
            kind : {"submit", "replay", "supersede", "replace", "cancel"}, target : Ops \cup {NoOp}]

\* The steps that have an envelope of a batch in hand.
BatchSteps == {"write", "replay", "planned", "signAlternative", "ready", "check",
               "dispatch", "sending", "sent"}

StateOK(t) ==
    /\ t.next = "admit" => t.op \in Ops
    /\ t.step \in SubmitSteps => t.op \in Ops
    /\ t.step \in {"reserve", "sign", "check"} => t.op \in BatchOps
    /\ t.step \in PlainSteps => t.op \in PlainOps /\ t.target \in PlainOps
    /\ t.step \in BatchSteps => t.env \in Signed /\ IsBatch(t.env)
    /\ t.step \in {"plainSent", "plainConfirm"} => t.env \in Signed

ProcessOK(p) == StateOK(local[p])
ProcessesOK == local \in [Processes -> Process] /\ \A p \in Processes : ProcessOK(p)

\* A send is behind its fence, which stands until the send settles or its
\* process is gone; a plain send is waited for.
SendOK(p) ==
    /\ At(p, "sending") => db.fence = [owner |-> "running", by |-> p, env |-> local[p].env]
    /\ \A e \in Signed : <<p, e>> \in outstanding =>
          IF IsBatch(e)
          THEN /\ db.fence = [owner |-> "running", by |-> p, env |-> e]
               /\ local[p].step \in {"idle", "sent"}
          ELSE At(p, "plainSent") /\ local[p].env = e

FenceOK == outstanding \subseteq Processes \X Signed /\ \A p \in Processes : SendOK(p)

\* What the holder of the lease may rely on: since it took the lease nobody
\* else has written to the intents or set a fence.
Holds(p) ==
    /\ local[p].step \notin {"idle", "sending", "sent"} => db.fence = NoFence
    /\ local[p].step \notin {"idle", "begin", "sign", "signAlternative"} => db.reserved = {}
    /\ local[p].step \in {"archive", "admit", "allocate"} \cup PlainSteps => Unresolved(db) = {}
    /\ At(p, "reserve") =>
          \A f \in Signed : Status(db, f) # "none" => Nonce(f) < local[p].nonce
    /\ At(p, "write") =>
          /\ Status(db, local[p].env) = "pending"
          /\ \A f \in Signed : Waits(db, f) /\ Nonce(f) = Nonce(local[p].env) => Status(db, f) = "pending"
    /\ At(p, "check") => db.intents[local[p].env].replay = "unvalidated"
    /\ local[p].step \in {"admit", "allocate"} \cup PlainSteps /\ local[p].epoch = epoch =>
          \A f \in Signed : Status(db, f) # "none" => Nonce(f) < Latest
    /\ At(p, "plainSend") /\ local[p].epoch = epoch =>
          \A f \in Signed : Status(db, f) # "none" => Nonce(f) < local[p].nonce

HolderOK == \A p \in Processes : lease = p => Holds(p)

TypeInv == EnvelopesOK /\ NetworkOK /\ ProcessesOK
Inv == TypeInv /\ JournalOK(db) /\ JournalOK(synced) /\ SyncedOK /\ FenceOK /\ HolderOK

-----------------------------------------------------------------------------
(* Numbers. *)

\* A nonempty set of nonces has a least one.
LEMMA LeastNonce ==
    ASSUME NEW S \in SUBSET Nat, S # {}
    PROVE  \E m \in S : \A n \in S : m <= n
<1> DEFINE Less == {ss \in Nat \X Nat : ss[1] < ss[2]}
<1>1. OpToRel(<, Nat) = Less
  BY Zenon DEF OpToRel
<1>2. IsWellFoundedOn(Less, Nat)
  BY <1>1, NatLessThanWellFounded, Zenon
<1>3. PICK m \in S : \A n \in S : ~ (<<n, m>> \in Less)
  <2> HIDE DEF Less
  <2> QED BY <1>2, WFMin, Zenon
<1>4. ASSUME NEW n \in S PROVE m <= n
  <2>1. m \in Nat /\ n \in Nat /\ <<n, m>> \in Nat \X Nat
    OBVIOUS
  <2> QED BY <1>3, <2>1
<1> QED BY <1>4

\* The smaller of two numbers is at most the second.
LEMMA SmallerOfTwo ==
    ASSUME NEW m \in Nat, NEW n \in Nat
    PROVE  Min({m, n}) \in 0 .. n
<1>1. \E x \in {m, n} : \A y \in {m, n} : x <= y
  OBVIOUS
<1> QED BY <1>1 DEF Min

\* As long as something waits, the pass has candidates.
LEMMA SomethingIsActive ==
    ASSUME Unresolved(db) # {}, \A e \in Unresolved(db) : e \in Signed /\ Nonce(e) \in Nat
    PROVE  Active # {}
<1> DEFINE S == {Nonce(e) : e \in Unresolved(db)}
<1>1. S \in SUBSET Nat /\ S # {}
  OBVIOUS
<1>2. PICK m \in S : \A n \in S : m <= n
  BY <1>1, LeastNonce
<1> QED BY <1>2 DEF Active

-----------------------------------------------------------------------------
(* Changes of a journal that keep it well formed. *)

\* Where the intents stay and no fence is set, what was said of the intents
\* and of what was sent stays.
LEMMA SameIntents ==
    ASSUME NEW d, NEW t, JournalOK(d), t.intents = d.intents, t.retired = d.retired,
           t.fence = NoFence \/ (d.fence # NoFence /\ t.fence.env = d.fence.env)
    PROVE  IntentsOK(t) /\ SentInJournal(t)
BY DEF JournalOK, IntentsOK, SentInJournal, Status, Waits, Exposed

\* The attempt of an operation is recorded.
LEMMA RecordKeeps ==
    ASSUME NEW d, JournalOK(d), NEW op \in Ops, NEW status \in AttemptStatuses, NEW nonce \in Used,
           NEW env \in {0} \cup Signed,
           env # 0 <=> status \in {"submitted", "confirmed", "prevented"},
           op \in BatchOps /\ env # 0 => Op(env) = op,
           op \in BatchOps /\ status = "submitted" => Status(d, env) = "pending"
    PROVE  JournalOK(Record(d, op, status, nonce, env))
<1> DEFINE t == Record(d, op, status, nonce, env)
           row == [status |-> status, nonce |-> nonce, env |-> env]
<1>1. /\ t.attempts = [d.attempts EXCEPT ![op] = row]
      /\ t.reserved = d.reserved /\ t.intents = d.intents /\ t.retired = d.retired /\ t.fence = d.fence
  BY DEF JournalOK, RowsOK, Journals, Record
<1>2. RowsOK(t)
  BY DEF JournalOK, RowsOK, Journals, Attempts, Record
<1> HIDE DEF t
<1>3. AttemptsOK(t)
  BY <1>1 DEF JournalOK, RowsOK, Journals, AttemptsOK, Attempts, Status
<1>4. IntentsOK(t) /\ SentInJournal(t)
  BY <1>1, SameIntents
<1>5. \A r \in t.reserved : ReservationOK(t, r)
  BY <1>1 DEF JournalOK, ReservationOK, Status
<1> QED BY <1>2, <1>3, <1>4, <1>5 DEF JournalOK, t

\* An attempt is closed.
LEMMA CloseKeeps ==
    ASSUME NEW d, JournalOK(d), NEW op \in Ops, EnvelopesOK
    PROVE  JournalOK(Close(d, op))
<1>1. 0 \in Used /\ "over" \in AttemptStatuses
  BY DEF Used, AttemptStatuses, EnvelopesOK
<1>2. JournalOK(Record(d, op, "over", 0, 0))
  BY <1>1, RecordKeeps
<1> QED BY <1>2 DEF Record, Close, NoAttempt

\* Reservations are set while the rest stays, and no fence is set.
LEMMA ReserveKeeps ==
    ASSUME NEW d, NEW t, JournalOK(d), t \in Journals,
           t.attempts = d.attempts, t.intents = d.intents, t.retired = d.retired,
           t.fence = NoFence \/ (d.fence # NoFence /\ t.fence.env = d.fence.env),
           \A r \in t.reserved : r.nonce \in Used /\ ReservationOK(t, r)
    PROVE  JournalOK(t)
<1>1. RowsOK(t)
  BY DEF RowsOK
<1>2. AttemptsOK(t)
  BY DEF JournalOK, AttemptsOK, Status
<1> QED BY <1>1, <1>2, SameIntents DEF JournalOK

\* The owners of reservations and of the fence change, as far as a journal
\* shows them.
LEMMA RelabelKeeps ==
    ASSUME NEW d, NEW t, JournalOK(d), t \in Journals,
           t.attempts = d.attempts, t.intents = d.intents, t.retired = d.retired,
           t.fence = NoFence \/ (d.fence # NoFence /\ t.fence.env = d.fence.env),
           \A r, s \in t.reserved : r = s,
           \A r \in t.reserved : \E q \in d.reserved :
              r.op = q.op /\ r.nonce = q.nonce /\ r.original = q.original /\ r.env = q.env
    PROVE  JournalOK(t)
<1>1. ASSUME NEW r \in t.reserved
      PROVE  r.nonce \in Used /\ ReservationOK(t, r)
  <2>1. PICK q \in d.reserved :
            r.op = q.op /\ r.nonce = q.nonce /\ r.original = q.original /\ r.env = q.env
    OBVIOUS
  <2>2. q.nonce \in Used /\ ReservationOK(d, q)
    BY DEF JournalOK, RowsOK
  <2> QED BY <2>1, <2>2 DEF ReservationOK, Status
<1> QED BY <1>1, ReserveKeeps

\* A signed reservation becomes an intent.
LEMMA TransferKeeps ==
    ASSUME NEW d, JournalOK(d), EnvelopesOK, NetworkOK, NEW r \in d.reserved, r.env # 0,
           r.original # 0 => Status(d, r.original) = "pending"
    PROVE  /\ JournalOK(Transferred(d, r))
           /\ Transferred(d, r).reserved = {}
           /\ Transferred(d, r).intents[r.env] = NewIntent
           /\ Transferred(d, r).attempts = d.attempts
           /\ Transferred(d, r).fence = d.fence
           /\ Transferred(d, r).retired = d.retired
           /\ r.env \in Signed /\ Op(r.env) = r.op /\ r.op \in BatchOps /\ Nonce(r.env) = r.nonce
<1> DEFINE t == Transferred(d, r)
           e == r.env
<1>1. /\ e \in Signed /\ e \notin sent /\ e \notin d.retired /\ Status(d, e) = "none"
      /\ envelopes[e] = [op |-> r.op, nonce |-> r.nonce, original |-> r.original]
      /\ r.op \in BatchOps /\ r \in Reservation
      /\ \A s \in d.reserved : s = r
      /\ \A f \in Signed : Status(d, f) # "none" => Nonce(f) < r.nonce \/ f = r.original
  BY DEF JournalOK, RowsOK, Journals, ReservationOK, Reservation
<1>2. Op(e) = r.op /\ Nonce(e) = r.nonce /\ IsBatch(e) /\ e \in Envelopes /\ r.nonce \in Nat
  BY <1>1 DEF Op, Nonce, IsBatch, Reservation, Nonces, Envelopes
<1>3. /\ t.attempts = d.attempts /\ t.reserved = {}
      /\ t.intents = [d.intents EXCEPT ![e] = NewIntent] /\ t.retired = d.retired /\ t.fence = d.fence
  BY <1>1 DEF JournalOK, RowsOK, Journals, Transferred
<1>4. NewIntent \in Intent /\ NewIntent.status = "pending"
  BY ConstantsAssumption
  DEF NewIntent, NoIntent, Intent, IntentStatuses, ReplayStates
<1>5. /\ t.intents[e] = NewIntent /\ Status(t, e) = "pending"
      /\ \A f \in Envelopes : f # e => t.intents[f] = d.intents[f] /\ Status(t, f) = Status(d, f)
  BY <1>2, <1>3, <1>4 DEF JournalOK, RowsOK, Journals, Status
<1>6. RowsOK(t)
  BY <1>1, <1>2, <1>3, <1>4 DEF JournalOK, RowsOK, Journals, Transferred
<1> HIDE DEF t, e
<1>7. Signed \subseteq Envelopes
  BY ConstantsAssumption DEF EnvelopesOK, Signed, Envelopes
<1>8. AttemptsOK(t)
  BY <1>1, <1>3, <1>5, <1>7 DEF JournalOK, AttemptsOK, RowsOK, Journals, Attempts
<1>9. IntentsOK(t)
  <2>1. ASSUME NEW f \in Signed, f # e, Status(d, f) # "none", Nonce(f) = Nonce(e)
        PROVE  envelopes[e].original = f /\ Status(d, f) = "pending"
    <3>1. ~(Nonce(f) < r.nonce)
      BY <1>2, <2>1
    <3>2. f = r.original
      BY <1>1, <2>1, <3>1
    <3>3. f # 0
      BY <1>7 DEF Envelopes
    <3>4. envelopes[e].original = r.original
      BY <1>1
    <3> QED BY <3>2, <3>3, <3>4
  <2> QED BY <1>1, <1>2, <1>5, <1>7, <2>1 DEF JournalOK, IntentsOK, Waits
<1>10. SentInJournal(t)
  <2>1. \A f \in Signed : Exposed(d, f) => Exposed(t, f)
    BY <1>1, <1>5, <1>7 DEF Exposed
  <2>2. d.fence # NoFence => d.fence.env \in Signed
    BY DEF JournalOK, RowsOK, Journals, Fences, NoFence
  <2>4. \A f \in sent : IsBatch(f) => Exposed(t, f)
    BY <2>1 DEF NetworkOK, JournalOK, SentInJournal
  <2> QED BY <1>1, <1>3, <1>5, <1>7, <2>1, <2>2, <2>4 DEF JournalOK, SentInJournal, RowsOK, Journals
<1> QED BY <1>1, <1>2, <1>3, <1>5, <1>6, <1>8, <1>9, <1>10 DEF JournalOK, t, e

\* A send or its result is noted in the intent, and the fence set or cleared.
LEMMA NoteKeeps ==
    ASSUME NEW d, NEW t, JournalOK(d), t \in Journals, EnvelopesOK, NetworkOK,
           t.attempts = d.attempts, t.reserved = d.reserved, t.retired = d.retired,
           \A f \in Envelopes :
              /\ t.intents[f].status = d.intents[f].status
              /\ d.intents[f].replay # "unvalidated" => t.intents[f].replay # "unvalidated",
           t.fence = NoFence \/ Exposed(t, t.fence.env)
    PROVE  JournalOK(t)
<1>1. \A f \in Envelopes : Status(t, f) = Status(d, f) /\ (Exposed(d, f) => Exposed(t, f))
  BY DEF Status, Exposed
<1>2. Signed \subseteq Envelopes
  BY ConstantsAssumption DEF EnvelopesOK, Signed, Envelopes
<1>3. AttemptsOK(t)
  BY <1>1, <1>2 DEF JournalOK, AttemptsOK, RowsOK, Journals, Attempts
<1>4. IntentsOK(t)
  BY <1>1, <1>2 DEF JournalOK, IntentsOK, Waits
<1>5. sent \subseteq Envelopes
  BY <1>2 DEF NetworkOK
<1>6. SentInJournal(t)
  BY <1>1, <1>2, <1>5 DEF JournalOK, SentInJournal, RowsOK, Journals
<1>7. \A r \in t.reserved : ReservationOK(t, r)
  BY <1>1, <1>2 DEF JournalOK, ReservationOK
<1>8. RowsOK(t)
  BY DEF JournalOK, RowsOK
<1> QED BY <1>3, <1>4, <1>6, <1>7, <1>8 DEF JournalOK

\* An envelope that was not validated yet is prevented.
LEMMA PreventKeeps ==
    ASSUME NEW d, NEW t, JournalOK(d), EnvelopesOK, NetworkOK, t \in Journals,
           NEW e \in Signed, IsBatch(e), Status(d, e) = "pending", ~Exposed(d, e),
           d.reserved = {}, t.reserved = {}, d.fence = NoFence, t.fence = NoFence,
           t.attempts = [d.attempts EXCEPT
                           ![Op(e)] = [status |-> "prevented", nonce |-> Nonce(e), env |-> e]],
           t.intents = [d.intents EXCEPT ![e].status = "prevented"],
           t.retired = d.retired
    PROVE  JournalOK(t)
<1>1. Signed \subseteq Envelopes
  BY ConstantsAssumption DEF EnvelopesOK, Signed, Envelopes
<1>2. e \in Envelopes /\ e # 0 /\ Op(e) \in Ops
  BY <1>1 DEF Envelopes, IsBatch, Ops
<1>3. /\ Status(t, e) = "prevented"
      /\ \A f \in Envelopes : f # e => t.intents[f] = d.intents[f] /\ Status(t, f) = Status(d, f)
  BY <1>2 DEF JournalOK, RowsOK, Journals, Intent, Status
<1>4. AttemptsOK(t)
  BY <1>1, <1>2, <1>3 DEF JournalOK, AttemptsOK, RowsOK, Journals, Attempts
<1>5. IntentsOK(t)
  BY <1>1, <1>3 DEF JournalOK, IntentsOK, Waits
<1>6. SentInJournal(t)
  <2>1. e \notin sent
    BY DEF JournalOK, SentInJournal
  <2>2. \A f \in Envelopes : f # e /\ Exposed(d, f) => Exposed(t, f)
    BY <1>3 DEF Exposed
  <2>3. \A f \in sent : IsBatch(f) => Exposed(t, f)
    BY <1>1, <2>1, <2>2 DEF NetworkOK, JournalOK, SentInJournal
  <2> QED BY <1>1, <1>3, <2>3 DEF JournalOK, SentInJournal, RowsOK, Journals
<1> QED BY <1>4, <1>5, <1>6 DEF JournalOK, RowsOK

\* An envelope that was prevented is destroyed, and its nonce is free.
LEMMA RetireKeeps ==
    ASSUME NEW d, NEW t, JournalOK(d), EnvelopesOK, NetworkOK, t \in Journals,
           NEW e \in Signed, Status(d, e) = "prevented",
           d.reserved = {}, t.reserved = {}, d.fence = NoFence, t.fence = NoFence,
           t.attempts = [d.attempts EXCEPT ![Op(e)] = NoAttempt],
           t.intents = [d.intents EXCEPT ![e] = NoIntent],
           t.retired = d.retired \cup {e}
    PROVE  JournalOK(t)
<1>1. Signed \subseteq Envelopes
  BY ConstantsAssumption DEF EnvelopesOK, Signed, Envelopes
<1>2. e \in Envelopes /\ IsBatch(e) /\ Op(e) \in Ops
  BY <1>1 DEF JournalOK, IntentsOK, IsBatch, Ops
<1>3. /\ Status(t, e) = "none"
      /\ \A f \in Envelopes : f # e => t.intents[f] = d.intents[f] /\ Status(t, f) = Status(d, f)
  BY <1>2 DEF JournalOK, RowsOK, Journals, Intent, Status, NoIntent
<1>4. AttemptsOK(t)
  BY <1>1, <1>2, <1>3 DEF JournalOK, AttemptsOK, RowsOK, Journals, Attempts, NoAttempt
<1>5. IntentsOK(t)
  BY <1>1, <1>3 DEF JournalOK, IntentsOK, Waits
<1>6. SentInJournal(t)
  <2>1. e \notin sent
    BY <1>2 DEF JournalOK, SentInJournal, Exposed
  <2>2. \A f \in Envelopes : f # e /\ Exposed(d, f) => Exposed(t, f)
    BY <1>3 DEF Exposed
  <2>3. \A f \in sent : IsBatch(f) => Exposed(t, f)
    BY <1>1, <2>1, <2>2 DEF NetworkOK, JournalOK, SentInJournal
  <2> QED BY <1>1, <1>2, <1>3, <2>1, <2>3 DEF JournalOK, SentInJournal, RowsOK, Journals
<1> QED BY <1>4, <1>5, <1>6 DEF JournalOK, RowsOK

\* The receipt of one candidate resolves both.
LEMMA ReceiptKeeps ==
    ASSUME NEW d, NEW t, JournalOK(d), EnvelopesOK, NetworkOK, t \in Journals,
           NEW e \in Signed, IsBatch(e), Status(d, e) = "pending",
           \A f \in Signed : Waits(d, f) /\ Nonce(f) = Nonce(e) => Status(d, f) = "pending",
           t.reserved = {}, d.fence = NoFence, t.fence = NoFence,
           t.attempts = [d.attempts EXCEPT
                           ![Op(e)] = [status |-> "confirmed", nonce |-> Nonce(e), env |-> e]],
           \A f \in Envelopes :
              /\ Status(t, f) = IF f = e THEN "confirmed"
                                ELSE IF f \in Siblings(d, e) THEN "superseded" ELSE Status(d, f)
              /\ t.intents[f].replay = d.intents[f].replay,
           t.retired = d.retired
    PROVE  JournalOK(t)
<1>1. Signed \subseteq Envelopes
  BY ConstantsAssumption DEF EnvelopesOK, Signed, Envelopes
<1>2. e \in Envelopes /\ e # 0 /\ Op(e) \in Ops
  BY <1>1 DEF Envelopes, IsBatch, Ops
<1>3. \A f \in Siblings(d, e) : /\ f \in Signed /\ f # e /\ Status(d, f) = "pending"
                                /\ Nonce(f) = Nonce(e) /\ Op(f) = Op(e)
  <2>1. \A f \in Siblings(d, e) : f # 0
    BY <1>1 DEF Siblings, Envelopes
  <2> QED BY <1>2, <2>1 DEF Siblings, EnvelopesOK
<1>4. AttemptsOK(t)
  <2> SUFFICES ASSUME NEW o \in Ops
               PROVE  /\ t.attempts[o].env # 0
                           <=> t.attempts[o].status \in {"submitted", "confirmed", "prevented"}
                      /\ o \in BatchOps /\ t.attempts[o].env # 0 => Op(t.attempts[o].env) = o
                      /\ o \in BatchOps /\ t.attempts[o].status = "submitted"
                           => Status(t, t.attempts[o].env) = "pending"
    BY DEF AttemptsOK
  <2>1. CASE o = Op(e)
    BY <1>2, <2>1 DEF JournalOK, RowsOK, Journals, Attempts
  <2>2. CASE o # Op(e)
    <3>1. t.attempts[o] = d.attempts[o] /\ d.attempts[o].env \in {0} \cup Signed
      BY <2>2 DEF JournalOK, RowsOK, Journals, Attempts
    <3> QED BY <1>1, <1>3, <2>2, <3>1 DEF JournalOK, AttemptsOK
  <2> QED BY <2>1, <2>2
<1>5. IntentsOK(t)
  <2>1. ASSUME NEW f \in Envelopes
        PROVE  /\ Status(t, f) # "none" <=> Status(d, f) # "none"
               /\ Waits(t, f) => Waits(d, f)
               /\ Status(t, f) = "finalized" => Status(d, f) = "finalized"
    BY <1>3 DEF Waits
  <2>2. ASSUME NEW f \in Signed, NEW g \in Signed,
               Waits(t, f), Status(t, g) # "none", Nonce(f) = Nonce(g)
        PROVE  Waits(t, g)
    <3>1. Waits(d, f) /\ Waits(d, g)
      BY <1>1, <2>1, <2>2 DEF JournalOK, IntentsOK
    <3>2. Nonce(f) # Nonce(e)
      <4> SUFFICES ASSUME Nonce(f) = Nonce(e) PROVE FALSE
        OBVIOUS
      <4>1. Status(d, f) = "pending" /\ f # e
        BY <1>1, <2>2, <3>1 DEF Waits
      <4>2. envelopes[f].original = e \/ envelopes[e].original = f
        BY <4>1 DEF JournalOK, IntentsOK
      <4>3. f \in Siblings(d, e)
        BY <4>1, <4>2 DEF Siblings
      <4> QED BY <1>1, <2>2, <4>1, <4>3 DEF Waits
    <3> QED BY <1>1, <1>3, <2>2, <3>1, <3>2 DEF Waits
  <2>3. ASSUME NEW f \in Signed, Status(t, f) = "superseded"
        PROVE  \E g \in Signed : Status(t, g) \in {"confirmed", "finalized"} /\ Nonce(g) = Nonce(f)
    <3>1. CASE Nonce(f) = Nonce(e)
      BY <1>1, <3>1
    <3>2. CASE Nonce(f) # Nonce(e)
      <4>1. Status(d, f) = "superseded"
        BY <1>1, <1>3, <2>3, <3>2
      <4>2. PICK g \in Signed : Status(d, g) \in {"confirmed", "finalized"} /\ Nonce(g) = Nonce(f)
        BY <4>1 DEF JournalOK, IntentsOK
      <4>3. Status(t, g) = Status(d, g)
        BY <1>1, <1>3, <3>2, <4>2
      <4> QED BY <4>2, <4>3
    <3> QED BY <3>1, <3>2
  <2> QED BY <1>1, <2>1, <2>2, <2>3 DEF JournalOK, IntentsOK
<1>6. SentInJournal(t)
  <2>1. \A f \in Envelopes : Exposed(d, f) => Exposed(t, f)
    BY <1>3 DEF Exposed
  <2>2. \A f \in sent : IsBatch(f) => Exposed(t, f)
    BY <1>1, <2>1 DEF NetworkOK, JournalOK, SentInJournal
  <2> QED BY <1>1, <1>3, <2>2 DEF JournalOK, SentInJournal, RowsOK, Journals
<1> QED BY <1>4, <1>5, <1>6 DEF JournalOK, RowsOK

\* What is final is archived.
LEMMA ArchiveKeeps ==
    ASSUME NEW d, NEW t, JournalOK(d), EnvelopesOK, NetworkOK, t \in Journals,
           t.attempts = d.attempts, t.reserved = {}, t.fence = NoFence, t.retired = d.retired,
           \A f \in Envelopes :
              /\ Status(t, f) = IF Status(d, f) = "confirmed" /\ Final(f) THEN "finalized" ELSE Status(d, f)
              /\ t.intents[f].replay = d.intents[f].replay
    PROVE  JournalOK(t)
<1>1. Signed \subseteq Envelopes
  BY ConstantsAssumption DEF EnvelopesOK, Signed, Envelopes
<1>2. AttemptsOK(t)
  BY <1>1 DEF JournalOK, AttemptsOK, RowsOK, Journals, Attempts
<1>3. \A f \in Envelopes : Waits(t, f) <=> Waits(d, f)
  BY DEF Waits
<1>4. IntentsOK(t)
  BY <1>1, <1>3 DEF JournalOK, IntentsOK
<1>5. \A f \in Envelopes : Exposed(d, f) => Exposed(t, f)
  BY DEF Exposed
<1>6. SentInJournal(t)
  BY <1>1, <1>5 DEF NetworkOK, JournalOK, SentInJournal, RowsOK, Journals
<1> QED BY <1>2, <1>4, <1>6 DEF JournalOK, RowsOK

-----------------------------------------------------------------------------
(* Changes around a journal that keep it well formed. *)

\* What was signed has an operation, a nonce and a number.
LEMMA SignedRows ==
    ASSUME EnvelopesOK
    PROVE  \A e \in Signed : /\ e \in Envelopes /\ envelopes[e] \in EnvelopeRow
                             /\ Op(e) \in Ops /\ Nonce(e) \in Nonces /\ Nonce(e) \in Nat
                             /\ Nonce(e) < e /\ e <= Len(envelopes) /\ Len(envelopes) \in Nat
<1>1. /\ Signed = 1 .. Len(envelopes) /\ Len(envelopes) \in 0 .. MaxEnvelopes
      /\ \A e \in Signed : envelopes[e] \in EnvelopeRow /\ Nonce(e) < e
  BY DEF EnvelopesOK, Signed
<1>2. MaxEnvelopes \in Nat
  BY ConstantsAssumption
<1>3. ASSUME NEW e \in Signed
      PROVE  Op(e) \in Ops /\ Nonce(e) \in Nonces
  BY <1>1 DEF EnvelopeRow, Op, Nonce
<1>4. Nonces \subseteq Nat
  BY <1>2 DEF Nonces
<1>5. ASSUME NEW e \in Signed
      PROVE  e \in Envelopes /\ e <= Len(envelopes) /\ Len(envelopes) \in Nat
  <2>1. Len(envelopes) \in Nat /\ Len(envelopes) <= MaxEnvelopes /\ e \in 1 .. Len(envelopes)
    BY <1>1, <1>2
  <2> QED BY <1>2, <2>1 DEF Envelopes
<1> QED BY <1>1, <1>3, <1>4, <1>5

\* What was mined was sent, and is where its nonce says.
LEMMA MinedRows ==
    ASSUME NetworkOK, NEW n \in DOMAIN chain
    PROVE  /\ chain[n].env \in sent /\ chain[n].env \in Signed
           /\ Nonce(chain[n].env) = n - 1 /\ chain[n].epoch \in 0 .. epoch
<1> DEFINE Block == [env : sent, epoch : 0 .. epoch]
<1>1. chain \in Seq(Block)
  BY DEF NetworkOK
<1>2. chain[n] \in Block
  <2> HIDE DEF Block
  <2> QED BY <1>1
<1> QED BY <1>2 DEF NetworkOK

\* The next nonce of the chain is not above what was signed.
LEMMA LatestIsUsed ==
    ASSUME EnvelopesOK, NetworkOK
    PROVE  Latest \in Nat /\ Latest \in Used
<1>1. Latest \in Nat /\ DOMAIN chain = 1 .. Latest /\ Len(envelopes) \in Nat
  BY DEF NetworkOK, Latest, EnvelopesOK
<1>2. CASE Latest = 0
  BY <1>1, <1>2 DEF Used
<1>3. CASE Latest > 0
  <2>1. Latest \in DOMAIN chain
    BY <1>1, <1>3
  <2>2. chain[Latest].env \in Signed /\ Nonce(chain[Latest].env) = Latest - 1
    BY <2>1, MinedRows
  <2>3. /\ Latest - 1 < chain[Latest].env /\ chain[Latest].env <= Len(envelopes)
        /\ chain[Latest].env \in Nat
    BY <2>2, SignedRows, ConstantsAssumption DEF Envelopes
  <2> QED BY <1>1, <2>3 DEF Used
<1> QED BY <1>1, <1>2, <1>3

\* The chain goes on, or loses what is not final.
LEMMA ChainMoves ==
    ASSUME NEW d, JournalOK(d), UNCHANGED <<envelopes, sent>>,
           \A e \in Signed : Final(e) => Final(e)',
           EnvelopesOK
    PROVE  JournalOK(d)'
<1>1. RowsOK(d)'
  BY DEF JournalOK, RowsOK, Journals, Attempts, Fences, Used, Signed
<1>2. AttemptsOK(d)'
  BY DEF JournalOK, AttemptsOK, Status, Op
<1>3. SentInJournal(d)'
  BY DEF JournalOK, SentInJournal, Exposed, Status, IsBatch, Op
<1>4. \A r \in d.reserved : ReservationOK(d, r)'
  BY DEF JournalOK, ReservationOK, Status, Op, Nonce, Signed
<1>5. \A e \in Signed : Nonce(e) \in Nat
  BY SignedRows
<1>6. IntentsOK(d)'
  BY <1>5 DEF JournalOK, IntentsOK, Status, Op, Nonce, Signed, Waits, IsBatch
<1> QED BY <1>1, <1>2, <1>3, <1>4, <1>6 DEF JournalOK

\* A journal stays well formed where nothing around it changes.
LEMMA NothingMoves ==
    ASSUME NEW d, JournalOK(d), UNCHANGED <<envelopes, sent, chain, final>>
    PROVE  JournalOK(d)'
<1>1. RowsOK(d)'
  BY DEF JournalOK, RowsOK, Journals, Attempts, Fences, Used, Signed
<1>2. AttemptsOK(d)'
  BY DEF JournalOK, AttemptsOK, Status, Op
<1>3. SentInJournal(d)'
  BY DEF JournalOK, SentInJournal, Exposed, Status, IsBatch, Op
<1>4. \A r \in d.reserved : ReservationOK(d, r)'
  BY DEF JournalOK, ReservationOK, Status, Op, Nonce, Signed
<1>5. IntentsOK(d)'
  BY DEF JournalOK, IntentsOK, Status, Op, Nonce, Signed, Waits, IsBatch, Final, Latest
<1> QED BY <1>1, <1>2, <1>3, <1>4, <1>5 DEF JournalOK

\* The envelope behind the fence is sent.
LEMMA SendMoves ==
    ASSUME NEW d, JournalOK(d), UNCHANGED <<envelopes, chain, final>>,
           d.fence # NoFence, sent' = sent \cup {d.fence.env}
    PROVE  JournalOK(d)'
<1>1. RowsOK(d)'
  BY DEF JournalOK, RowsOK, Journals, Attempts, Fences, Used, Signed
<1>2. AttemptsOK(d)'
  BY DEF JournalOK, AttemptsOK, Status, Op
<1>3. SentInJournal(d)'
  BY DEF JournalOK, SentInJournal, Exposed, Status, IsBatch, Op
<1>4. \A r \in d.reserved : ReservationOK(d, r)'
  BY DEF JournalOK, SentInJournal, Exposed, ReservationOK, Status, Op, Nonce, Signed
<1>5. IntentsOK(d)'
  BY DEF JournalOK, IntentsOK, Status, Op, Nonce, Signed, Waits, IsBatch, Final, Latest
<1> QED BY <1>1, <1>2, <1>3, <1>4, <1>5 DEF JournalOK

\* What is signed is appended to what was signed before.
LEMMA SignatureIsLast ==
    ASSUME EnvelopesOK, NEW row \in EnvelopeRow, envelopes' = Append(envelopes, row)
    PROVE  /\ Signed' = Signed \cup {Len(envelopes) + 1} /\ Len(envelopes) + 1 \notin Signed
           /\ \A e \in Signed : envelopes'[e] = envelopes[e]
           /\ envelopes'[Len(envelopes) + 1] = row
           /\ Len(envelopes) \in Nat /\ Len(envelopes)' = Len(envelopes) + 1
           /\ Signed = 1 .. Len(envelopes)
BY DEF EnvelopesOK, Signed

\* Something is signed, and a plain transaction is sent at once.
LEMMA SignatureMoves ==
    ASSUME NEW d, JournalOK(d), EnvelopesOK, NetworkOK, UNCHANGED <<chain, final>>,
           NEW row \in EnvelopeRow, envelopes' = Append(envelopes, row),
           NEW e \in Envelopes, e = Len(envelopes) + 1,
           sent' = sent \/ (row.op \in PlainOps /\ sent' = sent \cup {e})
    PROVE  JournalOK(d)'
<1>1. /\ Signed' = Signed \cup {e} /\ e \notin Signed
      /\ \A f \in Signed : envelopes'[f] = envelopes[f]
      /\ envelopes'[e] = row /\ Used \subseteq Used' /\ Signed = 1 .. Len(envelopes)
  BY SignatureIsLast DEF Used
<1>2. Status(d, e) = "none"
  BY <1>1 DEF JournalOK, IntentsOK
<1>3. \A f \in Signed : Op(f)' = Op(f) /\ Nonce(f)' = Nonce(f) /\ (IsBatch(f)' <=> IsBatch(f))
  BY <1>1 DEF Op, Nonce, IsBatch
<1>4. RowsOK(d)'
  BY <1>1 DEF JournalOK, RowsOK, Journals, Attempts, Fences
<1>5. AttemptsOK(d)'
  BY <1>1, <1>3 DEF JournalOK, AttemptsOK, RowsOK, Journals, Attempts, Status
<1>6. SentInJournal(d)'
  <2>1. row.op \in PlainOps => ~IsBatch(e)'
    BY <1>1, ConstantsAssumption DEF IsBatch, Op
  <2> QED BY <1>1, <1>3, <2>1 DEF JournalOK, SentInJournal, RowsOK, Journals, Exposed, Status, NetworkOK
<1>7. IntentsOK(d)'
  <2>1. \A f \in Signed : Final(f)' <=> Final(f)
    BY <1>3 DEF Final
  <2> QED BY <1>1, <1>2, <1>3, <2>1 DEF JournalOK, IntentsOK, Status, Waits, Latest
<1>8. ASSUME NEW r \in d.reserved PROVE ReservationOK(d, r)'
  <2>1. ReservationOK(d, r)
    BY DEF JournalOK
  <2>2. \A f \in Signed' : Status(d, f) # "none" => Nonce(f)' < r.nonce \/ f = r.original
    BY <1>1, <1>2, <1>3, <2>1 DEF ReservationOK
  <2>3. r.original # 0 =>
          r.original \in Signed' /\ Op(r.original)' = r.op /\ Nonce(r.original)' = r.nonce
    BY <1>1, <1>3, <2>1 DEF ReservationOK
  <2>4. r.env # 0 =>
          /\ r.env \in Signed' /\ r.env \notin sent' /\ r.env \notin d.retired
          /\ envelopes'[r.env] = [op |-> r.op, nonce |-> r.nonce, original |-> r.original]
          /\ Status(d, r.env) = "none"
    BY <1>1, <2>1 DEF ReservationOK
  <2> QED BY <2>1, <2>2, <2>3, <2>4 DEF ReservationOK, Status
<1> QED BY <1>4, <1>5, <1>6, <1>7, <1>8 DEF JournalOK

-----------------------------------------------------------------------------
(* The journals: every step keeps both copies well formed. *)

JournalsOK == JournalOK(db) /\ JournalOK(synced) /\ SyncedOK
around == <<envelopes, sent, chain, final>>

\* The journals are well formed at first.
LEMMA InitJournals == Init => JournalsOK
<1> SUFFICES ASSUME Init PROVE JournalsOK
  OBVIOUS
<1>1. db = EmptyJournal /\ synced = EmptyJournal /\ envelopes = <<>> /\ sent = {} /\ chain = <<>>
  BY DEF Init
<1> DEFINE d == EmptyJournal
<1>2. d \in Journals /\ d.reserved = {} /\ d.retired = {} /\ d.fence = NoFence
  BY <1>1, ConstantsAssumption
  DEF EmptyJournal, Journals, Attempts, NoAttempt, AttemptStatuses, Used, Intent, NoIntent,
      IntentStatuses, ReplayStates, Fences
<1>3. /\ \A o \in Ops : d.attempts[o].env = 0 /\ d.attempts[o].status = "over"
      /\ \A e \in Envelopes : Status(d, e) = "none"
  BY DEF EmptyJournal, NoAttempt, NoIntent, Status
<1>4. Signed = {}
  BY <1>1 DEF Signed
<1> HIDE DEF d
<1>5. JournalOK(d)
  BY <1>1, <1>2, <1>3, <1>4 DEF JournalOK, RowsOK, AttemptsOK, IntentsOK, SentInJournal
<1>6. overlooked = FALSE
  BY DEF Init
<1> QED BY <1>1, <1>5, <1>6 DEF JournalsOK, SyncedOK, ClearedFenceStaysCleared, d

\* A step that writes no journal, and changes nothing it names, keeps both.
LEMMA NoCommit ==
    ASSUME JournalsOK, UNCHANGED journal, UNCHANGED around
    PROVE  JournalsOK'
<1>1. JournalOK(db)' /\ JournalOK(synced)'
  BY NothingMoves DEF JournalsOK, journal, around
<1> QED BY <1>1 DEF JournalsOK, SyncedOK, ClearedFenceStaysCleared, journal

\* A commit of a well-formed journal keeps both copies, synced or not.
LEMMA CommitKeeps ==
    ASSUME JournalsOK, NEW d, JournalOK(d), UNCHANGED around,
           Full(d) \/ (Normal(d) /\ d.fence = db.fence /\ d.retired = db.retired)
    PROVE  JournalsOK'
<1>1. JournalOK(d)' /\ db' = d
  BY NothingMoves DEF around, Full, Normal, Unsynced
<1>2. synced' = d \/ synced' = synced
  BY DEF Full, Normal, Unsynced
<1>3. JournalOK(db)' /\ JournalOK(synced)'
  BY <1>1, <1>2, NothingMoves DEF JournalsOK, around
<1> QED BY <1>1, <1>3 DEF JournalsOK, SyncedOK, ClearedFenceStaysCleared, Full, Normal, Unsynced

\* What the types say of one process.
LEMMA ProcessFacts ==
    ASSUME ProcessesOK, NEW p \in Processes
    PROVE  local[p] \in Process /\ ProcessOK(p)
BY DEF ProcessesOK

\* The attempts of operations that are submitted.
LEMMA AttemptJournals ==
    ASSUME Inv, NEW p \in Processes,
           \/ AdmitConfirmed(p) \/ AdmitUnknown(p) \/ AdmitSubmitted(p) \/ Allocate(p)
           \/ PrepareFails(p) \/ PlainUnsent(p) \/ PlainFails(p) \/ PlainAccepted(p) \/ PlainConfirmed(p)
    PROVE  JournalsOK'
<1>1. JournalsOK /\ EnvelopesOK /\ db \in Journals
  BY DEF Inv, TypeInv, JournalsOK, JournalOK, RowsOK
<1>2. UNCHANGED around
  BY DEF AdmitConfirmed, AdmitUnknown, AdmitSubmitted, Allocate, PrepareFails, PlainUnsent,
         PlainFails, PlainAccepted, PlainConfirmed, around, network, signing
<1>3. local[p] \in Process /\ ProcessOK(p)
  BY ProcessFacts DEF Inv, TypeInv
<1>4. ASSUME NEW op \in Ops, Full(Close(db, op)) PROVE JournalsOK'
  BY <1>1, <1>2, <1>4, CloseKeeps, CommitKeeps DEF JournalsOK
<1>5. ASSUME NEW op \in Ops, NEW status \in AttemptStatuses, NEW nonce \in Used,
             NEW env \in {0} \cup Signed,
             env # 0 <=> status \in {"submitted", "confirmed", "prevented"},
             op \in BatchOps /\ env # 0 => Op(env) = op,
             op \in BatchOps /\ status = "submitted" => Status(db, env) = "pending",
             Full(Record(db, op, status, nonce, env))
      PROVE  JournalsOK'
  <2>1. JournalOK(Record(db, op, status, nonce, env))
    BY <1>1, <1>5, RecordKeeps DEF JournalsOK
  <2> QED BY <1>1, <1>2, <1>5, <2>1, CommitKeeps
<1>6. UNCHANGED journal => JournalsOK'
  BY <1>1, <1>2, NoCommit
<1>7. CASE AdmitConfirmed(p)
  BY <1>3, <1>4, <1>6, <1>7 DEF AdmitConfirmed, ProcessOK, StateOK, At, SubmitSteps
<1>8. CASE AdmitUnknown(p)
  <2>1. local[p].op \in Ops /\ Attempt(p).nonce \in Used /\ 0 \in Used
    BY <1>1, <1>3, <1>8 DEF AdmitUnknown, ProcessOK, StateOK, At, SubmitSteps, Journals, Attempts, Attempt, Used, EnvelopesOK
  <2> QED BY <1>4, <1>5, <1>6, <1>8, <2>1 DEF AdmitUnknown, AttemptStatuses
<1>9. CASE AdmitSubmitted(p)
  <2>1. /\ local[p].op \in Ops /\ Attempt(p).nonce \in Used
        /\ Attempt(p).env \in Signed /\ Attempt(p).env # 0
        /\ local[p].op \in BatchOps => Op(Attempt(p).env) = local[p].op
    BY <1>1, <1>3, <1>9
    DEF AdmitSubmitted, ProcessOK, StateOK, At, SubmitSteps, Journals, Attempts, Attempt, JournalsOK, JournalOK, AttemptsOK
  <2> QED BY <1>4, <1>5, <1>6, <1>9, <2>1 DEF AdmitSubmitted, AttemptStatuses
<1>10. CASE Allocate(p)
  <2>1. local[p].op \in Ops /\ Pending \in Used
    BY <1>1, <1>3, <1>10, LatestIsUsed
    DEF Allocate, ProcessOK, StateOK, At, SubmitSteps, Inv, TypeInv
  <2> QED BY <1>5, <1>10, <2>1 DEF Allocate, AttemptStatuses
<1>11. CASE PrepareFails(p)
  BY <1>3, <1>4, <1>11 DEF PrepareFails, ProcessOK, StateOK, At, SubmitSteps
<1>12. CASE PlainUnsent(p)
  BY <1>3, <1>4, <1>6, <1>12 DEF PlainUnsent, GivesUp, ProcessOK, StateOK, At, PlainSteps, Ops
<1>13. CASE PlainFails(p)
  BY <1>3, <1>4, <1>6, <1>13 DEF PlainFails, GivesUp, ProcessOK, StateOK, At, PlainSteps, Ops
<1>14. CASE PlainAccepted(p)
  <2>1. /\ local[p].target \in Ops /\ local[p].target \notin BatchOps
        /\ local[p].nonce \in Used /\ local[p].env \in Signed
    BY <1>3, <1>14, ConstantsAssumption DEF PlainAccepted, ProcessOK, StateOK, Process, At, PlainSteps, Ops
  <2>2. local[p].env # 0
    BY <1>1, <2>1, SignedRows DEF Envelopes
  <2> QED BY <1>5, <1>6, <1>14, <2>1, <2>2 DEF PlainAccepted, AttemptStatuses
<1>15. CASE PlainConfirmed(p)
  <2>1. /\ local[p].target \in Ops /\ local[p].target \notin BatchOps
        /\ local[p].nonce \in Used /\ local[p].env \in Signed
    BY <1>3, <1>15, ConstantsAssumption DEF PlainConfirmed, ProcessOK, StateOK, Process, At, PlainSteps, Ops
  <2>2. local[p].env # 0
    BY <1>1, <2>1, SignedRows DEF Envelopes
  <2> QED BY <1>4, <1>5, <1>15, <2>1, <2>2 DEF PlainConfirmed, AttemptStatuses
<1> QED BY <1>7, <1>8, <1>9, <1>10, <1>11, <1>12, <1>13, <1>14, <1>15

\* The network's own steps, and the two sends.
LEMMA NetworkJournals ==
    ASSUME Inv, (\E e \in Signed : Mine(e) \/ Drop(e)) \/ Finalize \/ Reorganise
    PROVE  JournalsOK'
<1>1. JournalsOK /\ EnvelopesOK /\ NetworkOK
  BY DEF Inv, TypeInv, JournalsOK
<1>2. UNCHANGED <<envelopes, sent, db, synced, overlooked>>
  BY DEF Mine, Drop, Finalize, Reorganise, signing, journal
<1>3. \A e \in Signed : Final(e) => Final(e)'
  <2>1. Latest \in Nat /\ final \in 0 .. Latest /\ \A e \in Signed : Nonce(e) \in Nat /\ Nonce(e)' = Nonce(e)
    BY <1>1, <1>2, SignedRows, LatestIsUsed DEF NetworkOK, Nonce
  <2>2. DOMAIN chain = 1 .. Latest /\ chain \in Seq([env : sent, epoch : 0 .. epoch])
    BY <1>1 DEF NetworkOK, Latest
  <2>3. ASSUME NEW e \in Signed, Mine(e) PROVE <1>3
    BY <2>1, <2>2, <2>3 DEF Mine, Latest, Final
  <2>4. ASSUME NEW e \in Signed, Drop(e) PROVE <1>3
    BY <2>1, <2>2, <2>4 DEF Drop, Latest, Final
  <2>5. CASE Finalize
    BY <2>1, <2>2, <2>5 DEF Finalize, Latest, Final
  <2>6. CASE Reorganise
    <3>1. Len(chain') = final /\ \A n \in 1 .. final : chain'[n] = chain[n]
      BY <2>1, <2>2, <2>6 DEF Reorganise, Latest
    <3> QED BY <2>1, <2>6, <3>1 DEF Reorganise, Fault, Latest, Final
  <2> QED BY <2>3, <2>4, <2>5, <2>6
<1>4. JournalOK(db)' /\ JournalOK(synced)'
  BY <1>1, <1>2, <1>3, ChainMoves DEF JournalsOK
<1> QED BY <1>1, <1>2, <1>4 DEF JournalsOK, SyncedOK, ClearedFenceStaysCleared

\* A send is of an envelope that the journals hold, so they stay well formed.
LEMMA SendJournals ==
    ASSUME Inv, NEW p \in Processes, Invoke(p) \/ PlainSend(p)
    PROVE  JournalsOK'
<1>1. JournalsOK /\ EnvelopesOK /\ NetworkOK /\ FenceOK /\ local[p] \in Process /\ ProcessOK(p)
  BY ProcessFacts DEF Inv, TypeInv, JournalsOK
<1>2. UNCHANGED <<db, synced, overlooked, chain, final>>
  BY DEF Invoke, PlainSend, journal
<1>3. CASE Invoke(p)
  <2>1. db.fence # NoFence /\ db.fence.env = local[p].env /\ synced.fence = db.fence
    <3>1. db.fence = [owner |-> "running", by |-> p, env |-> local[p].env]
      BY <1>1, <1>3 DEF Invoke, FenceOK, SendOK
    <3>2. db.fence.owner = "running" /\ db.fence.env = local[p].env /\ NoFence.owner = "nobody"
      BY <3>1 DEF NoFence
    <3> QED BY <1>1, <3>2 DEF JournalsOK, SyncedOK
  <2>2. JournalOK(db)' /\ JournalOK(synced)'
    BY <1>1, <1>2, <1>3, <2>1, SendMoves DEF JournalsOK, Invoke, signing
  <2> QED BY <1>1, <1>2, <2>2 DEF JournalsOK, SyncedOK, ClearedFenceStaysCleared
<1>4. CASE PlainSend(p)
  <2> DEFINE row == [op |-> local[p].target, nonce |-> local[p].nonce, original |-> 0]
  <2>1. PICK e \in Envelopes : /\ e = Len(envelopes) + 1 /\ envelopes' = Append(envelopes, row)
                               /\ sent' = sent \cup {e}
    BY <1>4 DEF PlainSend
  <2>2. row \in EnvelopeRow /\ row.op \in PlainOps
    <3>1. local[p].target \in PlainOps /\ local[p].nonce \in Used
      BY <1>1, <1>4 DEF PlainSend, ProcessOK, StateOK, Process, At, PlainSteps
    <3>2. Used \subseteq Nonces
      BY <1>1, ConstantsAssumption DEF EnvelopesOK, Used, Nonces
    <3> QED BY <3>1, <3>2 DEF EnvelopeRow, Ops
  <2> HIDE DEF row
  <2>3. JournalOK(db)' /\ JournalOK(synced)'
    BY <1>1, <1>2, <2>1, <2>2, SignatureMoves DEF JournalsOK
  <2> QED BY <1>1, <1>2, <2>3 DEF JournalsOK, SyncedOK, ClearedFenceStaysCleared
<1> QED BY <1>3, <1>4

\* The key's answer: the envelope is the reservation's.
LEMMA AnswerMoves ==
    ASSUME NEW d, JournalOK(d), EnvelopesOK, NetworkOK, UNCHANGED <<sent, chain, final>>,
           NEW r \in d.reserved, r.env = 0, NEW e \in Envelopes, e = Len(envelopes) + 1,
           envelopes' = Append(envelopes, [op |-> r.op, nonce |-> r.nonce, original |-> r.original]),
           NEW q, q = [r EXCEPT !.env = e],
           NEW t, t = [d EXCEPT !.reserved = (d.reserved \ {r}) \cup {q}]
    PROVE  JournalOK(t)'
<1> DEFINE row == [op |-> r.op, nonce |-> r.nonce, original |-> r.original]
<1>1. r \in Reservation /\ r.nonce \in Used /\ ReservationOK(d, r)
  BY DEF JournalOK, RowsOK, Journals
<1>2. row \in EnvelopeRow
  BY <1>1 DEF EnvelopeRow, Reservation, Ops
<1>3. JournalOK(d)'
  BY <1>2, SignatureMoves
<1>4. /\ Signed' = Signed \cup {e} /\ e \notin Signed /\ envelopes'[e] = row
  BY <1>2, SignatureIsLast
<1>5. /\ q.op = r.op /\ q.nonce = r.nonce /\ q.original = r.original /\ q.env = e
      /\ q \in Reservation
  BY <1>1 DEF Reservation
<1>6. d.reserved = {r}
  BY <1>1 DEF ReservationOK
<1>7. /\ t.reserved = {q} /\ t.attempts = d.attempts /\ t.intents = d.intents
      /\ t.retired = d.retired /\ t.fence = d.fence
  BY <1>6 DEF JournalOK, RowsOK, Journals
<1>8. RowsOK(t)'
  <2>1. RowsOK(d)'
    BY <1>3 DEF JournalOK
  <2>2. t \in Journals'
    BY <1>5, <1>6, <2>1 DEF RowsOK, Journals
  <2>3. r.nonce \in Used'
    BY <2>1 DEF RowsOK
  <2> QED BY <1>5, <1>7, <2>2, <2>3 DEF RowsOK
<1>9. AttemptsOK(t)' /\ IntentsOK(t)' /\ SentInJournal(t)'
  <2>1. AttemptsOK(d)' /\ IntentsOK(d)' /\ SentInJournal(d)'
    BY <1>3 DEF JournalOK
  <2>2. AttemptsOK(t)'
    BY <1>7, <2>1 DEF AttemptsOK, Status
  <2>3. IntentsOK(t)'
    <3>1. \A f : Status(t, f) = Status(d, f) /\ (Waits(t, f) <=> Waits(d, f))
      BY <1>7 DEF Status, Waits
    <3> QED BY <2>1, <3>1 DEF IntentsOK
  <2>4. SentInJournal(t)'
    BY <1>7, <2>1 DEF SentInJournal, Status, Exposed
  <2> QED BY <2>2, <2>3, <2>4
<1>10. ReservationOK(t, q)'
  <2>1. ReservationOK(d, r)'
    BY <1>3 DEF JournalOK
  <2>2. Status(d, e) = "none" /\ e \notin sent /\ e \notin d.retired
    BY <1>4 DEF JournalOK, IntentsOK, NetworkOK, RowsOK, Journals
  <2> QED BY <1>4, <1>5, <1>7, <2>1, <2>2 DEF ReservationOK, Status
<1> QED BY <1>7, <1>8, <1>9, <1>10 DEF JournalOK

\* A signature takes the place of its reservation.
LEMMA SignJournals ==
    ASSUME Inv, NEW r \in db.reserved, Sign(r)
    PROVE  JournalsOK'
<1>1. JournalsOK /\ EnvelopesOK /\ NetworkOK /\ UNCHANGED <<sent, chain, final>> /\ r.env = 0
  BY DEF Inv, TypeInv, JournalsOK, Sign, network
<1> DEFINE row == [op |-> r.op, nonce |-> r.nonce, original |-> r.original]
           t(e) == [db EXCEPT !.reserved = (db.reserved \ {r}) \cup {[r EXCEPT !.env = e]}]
<1>2. PICK e \in Envelopes : /\ e = Len(envelopes) + 1 /\ envelopes' = Append(envelopes, row)
                             /\ Normal(t(e))
  BY DEF Sign
<1>3. ASSUME NEW d, d = t(e) PROVE JournalOK(d)'
  BY <1>1, <1>2, <1>3, AnswerMoves DEF JournalsOK
<1>4. t(e).fence = db.fence /\ t(e).retired = db.retired
  BY <1>1 DEF JournalsOK, JournalOK, RowsOK, Journals
<1>5. JournalOK(synced)' \/ synced' = t(e)
  <2>1. row \in EnvelopeRow
    BY <1>1 DEF EnvelopeRow, Reservation, Ops, JournalsOK, JournalOK, RowsOK, Journals
  <2>2. ASSUME NEW d, JournalOK(d) PROVE JournalOK(d)'
    BY <1>1, <1>2, <2>1, <2>2, SignatureMoves
  <2> QED BY <1>1, <1>2, <2>2 DEF JournalsOK, Normal, Unsynced
<1> HIDE DEF t
<1>6. db' = t(e) /\ (synced' = synced \/ synced' = t(e)) /\ overlooked' = overlooked
  BY <1>2 DEF Normal, Unsynced
<1> QED BY <1>1, <1>3, <1>4, <1>5, <1>6 DEF JournalsOK, SyncedOK, ClearedFenceStaysCleared

\* A signature is reserved, or its reservation is given up.
LEMMA ReservationJournals ==
    ASSUME Inv, NEW p \in Processes, Reserve(p) \/ ReserveAlternative(p) \/ KeyFails(p)
    PROVE  JournalsOK'
<1>1. /\ JournalsOK /\ EnvelopesOK /\ NetworkOK /\ HolderOK /\ db \in Journals
      /\ local[p] \in Process /\ ProcessOK(p)
  BY ProcessFacts DEF Inv, TypeInv, JournalsOK, JournalOK, RowsOK
<1>2. UNCHANGED around
  BY DEF Reserve, ReserveAlternative, KeyFails, around, network, signing
<1>3. ASSUME NEW op \in BatchOps, NEW nonce \in Used, NEW original \in {0} \cup Signed,
             original # 0 => Op(original) = op /\ Nonce(original) = nonce,
             \A f \in Signed : Status(db, f) # "none" => Nonce(f) < nonce \/ f = original,
             db.reserved = {},
             Normal([db EXCEPT !.reserved =
                {[op |-> op, nonce |-> nonce, original |-> original, env |-> 0, signer |-> p]}])
      PROVE  JournalsOK'
  <2> DEFINE r == [op |-> op, nonce |-> nonce, original |-> original, env |-> 0, signer |-> p]
             t == [db EXCEPT !.reserved = {r}]
  <2>1. r \in Reservation
    <3>1. Used \subseteq Nonces
      BY <1>1, ConstantsAssumption DEF EnvelopesOK, Used, Nonces
    <3>2. original \in {0} \cup Envelopes
      BY <1>1, <1>3, SignedRows
    <3> QED BY <1>3, <3>1, <3>2 DEF Reservation
  <2>2. /\ t \in Journals /\ t.attempts = db.attempts /\ t.intents = db.intents
        /\ t.retired = db.retired /\ t.fence = db.fence /\ t.reserved = {r}
    BY <1>1, <2>1 DEF Journals
  <2>3. ReservationOK(t, r) /\ r.nonce \in Used
    <3> HIDE DEF t
    <3> QED BY <1>3, <2>2 DEF ReservationOK, Status
  <2>4. t.fence = NoFence \/ (db.fence # NoFence /\ t.fence.env = db.fence.env)
    BY <2>2
  <2> HIDE DEF r, t
  <2>5. JournalOK(t)
    BY <1>1, <2>2, <2>3, <2>4, ReserveKeeps DEF JournalsOK
  <2>6. Normal(t)
    BY <1>3 DEF t, r
  <2> QED BY <1>1, <1>2, <2>2, <2>5, <2>6, CommitKeeps
<1>4. CASE Reserve(p)
  <2>1. local[p].op \in BatchOps /\ local[p].nonce \in Used
    BY <1>1, <1>4 DEF Reserve, ProcessOK, StateOK, Process, At
  <2>2. db.reserved = {} /\ \A f \in Signed : Status(db, f) # "none" => Nonce(f) < local[p].nonce
    BY <1>1, <1>4 DEF Reserve, HolderOK, Holds, At, Owns
  <2> QED BY <1>3, <1>4, <2>1, <2>2 DEF Reserve
<1>5. CASE ReserveAlternative(p)
  <2>1. local[p].env \in Signed /\ Op(local[p].env) \in BatchOps /\ Nonce(local[p].env) \in Used
    <3>1. local[p].env \in Signed /\ IsBatch(local[p].env)
      BY <1>1, <1>5 DEF ReserveAlternative, ProcessOK, StateOK, At, BatchSteps
    <3>2. Nonce(local[p].env) \in Used
      BY <1>1, <3>1, SignedRows, ConstantsAssumption DEF Used, Envelopes
    <3> QED BY <3>1, <3>2 DEF IsBatch
  <2> QED BY <1>3, <1>5, <2>1 DEF ReserveAlternative, Exclusive
<1>6. CASE KeyFails(p)
  <2>1. PICK r \in db.reserved :
            Normal([db EXCEPT !.reserved = (db.reserved \ {r}) \cup {[r EXCEPT !.signer = Orphan]}])
    BY <1>6 DEF KeyFails
  <2> DEFINE t == [db EXCEPT !.reserved = (db.reserved \ {r}) \cup {[r EXCEPT !.signer = Orphan]}]
             q == [r EXCEPT !.signer = Orphan]
  <2>2. db.reserved = {r} /\ r \in Reservation
    <3>1. ReservationOK(db, r)
      BY <1>1 DEF JournalsOK, JournalOK
    <3> QED BY <1>1, <3>1 DEF ReservationOK, Journals
  <2>3. /\ q \in Reservation /\ q.op = r.op /\ q.nonce = r.nonce
        /\ q.original = r.original /\ q.env = r.env
    BY <2>2 DEF Reservation
  <2>4. /\ t \in Journals /\ t.attempts = db.attempts /\ t.intents = db.intents
        /\ t.retired = db.retired /\ t.fence = db.fence /\ t.reserved = {q}
    BY <1>1, <2>2, <2>3 DEF Journals
  <2>6. t.fence = NoFence \/ (db.fence # NoFence /\ t.fence.env = db.fence.env)
    BY <2>4
  <2> HIDE DEF t, q
  <2>7. JournalOK(t)
    BY <1>1, <2>2, <2>3, <2>4, <2>6, RelabelKeeps DEF JournalsOK
  <2>8. Normal(t)
    BY <2>1 DEF t
  <2> QED BY <1>1, <1>2, <2>4, <2>7, <2>8, CommitKeeps
<1> QED BY <1>4, <1>5, <1>6

\* What a crash leaves of a fence, and of a journal, is well formed.
FenceWithout(fence, p, owner) == IF fence.by = p THEN [fence EXCEPT !.owner = owner] ELSE fence

\* A journal from which a process is gone is well formed, and only its fence
\* and its reservation know of it.
LEMMA WithoutKeeps ==
    ASSUME NEW d, JournalOK(d), NEW p \in Processes, NEW owner \in {"dead", "foreign"}
    PROVE  /\ JournalOK(Without(d, p, owner)) /\ Without(d, p, owner).retired = d.retired
           /\ Without(d, p, owner).attempts = d.attempts /\ Without(d, p, owner).intents = d.intents
           /\ d.reserved = {} => Without(d, p, owner).reserved = {}
           /\ Without(d, p, owner).fence = FenceWithout(d.fence, p, owner)
<1> DEFINE t == Without(d, p, owner)
<1>1. d \in Journals
  BY DEF JournalOK, RowsOK
<1>2. /\ t.attempts = d.attempts /\ t.intents = d.intents /\ t.retired = d.retired
      /\ t.fence = IF d.fence.by = p THEN [d.fence EXCEPT !.owner = owner] ELSE d.fence
      /\ t.reserved = {[r EXCEPT !.signer = IF r.signer = p THEN Orphan ELSE r.signer] : r \in d.reserved}
  BY <1>1 DEF Without, Journals
<1>3. ASSUME NEW r \in t.reserved
      PROVE  /\ r \in Reservation
             /\ \E q \in d.reserved :
                   r.op = q.op /\ r.nonce = q.nonce /\ r.original = q.original /\ r.env = q.env
  <2>1. PICK q \in d.reserved : r = [q EXCEPT !.signer = IF q.signer = p THEN Orphan ELSE q.signer]
    BY <1>2
  <2>2. q \in Reservation
    BY <1>1 DEF Journals
  <2> QED BY <2>1, <2>2 DEF Reservation
<1>4. \A r, s \in t.reserved : r = s
  <2>1. \A r, s \in d.reserved : r = s
    BY DEF JournalOK, ReservationOK
  <2> QED BY <1>2, <2>1
<1>5. t.fence \in Fences /\ (t.fence = NoFence \/ (d.fence # NoFence /\ t.fence.env = d.fence.env))
  <2>1. CASE d.fence = NoFence
    <3>1. d.fence.by # p
      BY <2>1, NamesAssumption DEF NoFence
    <3> QED BY <1>2, <2>1, <3>1 DEF Fences
  <2>2. CASE d.fence # NoFence
    <3>1. d.fence \in [owner : {"running", "dead", "foreign"}, by : Processes, env : Signed]
      BY <1>1, <2>2 DEF Journals, Fences
    <3>2. /\ [d.fence EXCEPT !.owner = owner] \in Fences
          /\ [d.fence EXCEPT !.owner = owner].env = d.fence.env
      BY <3>1 DEF Fences
    <3> QED BY <1>1, <1>2, <2>2, <3>2 DEF Journals
  <2> QED BY <2>1, <2>2
<1>6. t \in Journals
  <2>1. t.reserved \subseteq Reservation
    BY <1>3
  <2> QED BY <1>1, <1>2, <1>5, <2>1 DEF Journals, Without
<1> HIDE DEF t
<1>7. JournalOK(t)
  BY <1>2, <1>3, <1>4, <1>5, <1>6, RelabelKeeps
<1> QED BY <1>2, <1>7 DEF t, FenceWithout

\* A fence that is cleared leaves the rest as it is.
LEMMA ClearedKeeps ==
    ASSUME JournalOK(db)
    PROVE  /\ JournalOK([db EXCEPT !.fence = NoFence])
           /\ [db EXCEPT !.fence = NoFence].fence = NoFence
           /\ [db EXCEPT !.fence = NoFence].reserved = db.reserved
           /\ [db EXCEPT !.fence = NoFence].intents = db.intents
           /\ [db EXCEPT !.fence = NoFence].retired = db.retired
<1> DEFINE t == [db EXCEPT !.fence = NoFence]
<1>1. /\ t \in Journals /\ t.attempts = db.attempts /\ t.intents = db.intents
      /\ t.retired = db.retired /\ t.fence = NoFence /\ t.reserved = db.reserved
  BY DEF JournalOK, RowsOK, Journals, Fences
<1> HIDE DEF t
<1>2. \A r, s \in t.reserved : r = s
  BY <1>1 DEF JournalOK, ReservationOK
<1>3. JournalOK(t)
  BY <1>1, <1>2, RelabelKeeps
<1> QED BY <1>1, <1>3 DEF t

\* Fences are cleared, processes and the host go, and the log is flushed.
LEMMA FenceJournals ==
    ASSUME Inv, \/ PowerLoss \/ Flush
                \/ \E p \in Processes :
                      \/ Look(p) \/ LooksAgain(p) \/ Crash(p) \/ NotInvoked(p)
                      \/ \E op \in Ops \cup {NoOp} : Acquire(p, op)
    PROVE  JournalsOK'
<1>1. JournalsOK
  BY DEF Inv, JournalsOK
<1>2. ASSUME UNCHANGED around, Full([db EXCEPT !.fence = NoFence]) PROVE JournalsOK'
  BY <1>1, <1>2, ClearedKeeps, CommitKeeps DEF JournalsOK
<1>3. CASE PowerLoss
  <2> DEFINE t == [synced EXCEPT
                     !.fence = IF @ = NoFence THEN @ ELSE [@ EXCEPT !.owner = "foreign"],
                     !.reserved = {[r EXCEPT !.signer = Orphan] : r \in @}]
  <2>1. synced \in Journals /\ JournalOK(synced)
    BY <1>1 DEF JournalsOK, JournalOK, RowsOK
  <2>2. /\ t.attempts = synced.attempts /\ t.intents = synced.intents /\ t.retired = synced.retired
        /\ t.fence = IF synced.fence = NoFence THEN NoFence ELSE [synced.fence EXCEPT !.owner = "foreign"]
        /\ t.reserved = {[r EXCEPT !.signer = Orphan] : r \in synced.reserved}
    BY <2>1 DEF Journals
  <2>3. ASSUME NEW r \in t.reserved
        PROVE  /\ r \in Reservation
               /\ \E q \in synced.reserved :
                     r.op = q.op /\ r.nonce = q.nonce /\ r.original = q.original /\ r.env = q.env
    <3>1. PICK q \in synced.reserved : r = [q EXCEPT !.signer = Orphan]
      BY <2>2
    <3>2. q \in Reservation
      BY <2>1 DEF Journals
    <3> QED BY <3>1, <3>2 DEF Reservation
  <2>4. \A r, s \in t.reserved : r = s
    <3>1. \A r, s \in synced.reserved : r = s
      BY <2>1 DEF JournalOK, ReservationOK
    <3> QED BY <2>2, <3>1
  <2>5. t.fence \in Fences /\ (t.fence = NoFence \/ (synced.fence # NoFence /\ t.fence.env = synced.fence.env))
    <3>1. CASE synced.fence = NoFence
      BY <2>2, <3>1 DEF Fences
    <3>2. CASE synced.fence # NoFence
      <4>1. synced.fence \in [owner : {"running", "dead", "foreign"}, by : Processes, env : Signed]
        BY <2>1, <3>2 DEF Journals, Fences
      <4>2. /\ [synced.fence EXCEPT !.owner = "foreign"] \in Fences
            /\ [synced.fence EXCEPT !.owner = "foreign"].env = synced.fence.env
        BY <4>1 DEF Fences
      <4> QED BY <2>2, <3>2, <4>2
    <3> QED BY <3>1, <3>2
  <2>6. t \in Journals
    <3>1. t.reserved \subseteq Reservation
      BY <2>3
    <3> QED BY <2>1, <2>2, <2>5, <3>1 DEF Journals
  <2>7. Full(t) /\ UNCHANGED around
    BY <1>3 DEF PowerLoss, around, network, signing
  <2> HIDE DEF t
  <2>8. JournalOK(t)
    BY <2>1, <2>2, <2>3, <2>4, <2>5, <2>6, RelabelKeeps
  <2> QED BY <1>1, <2>7, <2>8, CommitKeeps
<1>4. CASE Flush
  <2>1. UNCHANGED around /\ Full(db)
    BY <1>4 DEF Flush, around, network, signing
  <2> QED BY <1>1, <2>1, CommitKeeps DEF JournalsOK
<1>5. ASSUME NEW p \in Processes, Deletes(p), UNCHANGED around PROVE JournalsOK'
  <2>t. PICK t : t = [db EXCEPT !.fence = NoFence]
    OBVIOUS
  <2>1. JournalOK(t) /\ t.fence = NoFence /\ t.retired = db.retired
    BY <1>1, <2>t, ClearedKeeps DEF JournalsOK, JournalOK, RowsOK, Journals
  <2>2. CASE Full(t)
    BY <1>1, <1>5, <2>1, <2>2, CommitKeeps
  <2>3. CASE Unsynced(t) /\ overlooked' = (overlooked \/ db.fence # NoFence)
    <3>1. db' = t
      BY <2>3 DEF Unsynced
    <3>2. synced' = t \/ synced' = synced
      BY <2>3 DEF Unsynced
    <3>3. JournalOK(db)' /\ JournalOK(synced)'
      BY <1>1, <1>5, <2>1, <3>1, <3>2, NothingMoves DEF around, JournalsOK
    <3>4. overlooked' \in BOOLEAN /\ (overlooked' <=> overlooked \/ db.fence # NoFence)
      BY <1>1, <2>3 DEF JournalsOK, SyncedOK
    <3>5. synced'.fence # NoFence => overlooked'
      BY <1>1, <2>1, <3>2, <3>4 DEF JournalsOK, SyncedOK, ClearedFenceStaysCleared
    <3>6. db'.fence = NoFence /\ db'.retired = synced'.retired
      BY <1>1, <2>1, <3>1, <3>2 DEF JournalsOK, SyncedOK
    <3> QED BY <3>3, <3>4, <3>5, <3>6 DEF JournalsOK, SyncedOK, ClearedFenceStaysCleared
  <2> QED BY <1>5, <2>t, <2>2, <2>3 DEF Deletes
<1>9. ASSUME NEW p \in Processes, Look(p) \/ LooksAgain(p) PROVE JournalsOK'
  <2>1. UNCHANGED around /\ (UNCHANGED journal \/ Deletes(p))
    BY <1>9 DEF Look, LooksAgain, around, network, signing
  <2> QED BY <1>1, <1>5, <2>1, NoCommit
<1>6. ASSUME NEW p \in Processes, NotInvoked(p) PROVE JournalsOK'
  BY <1>2, <1>6 DEF NotInvoked, around, network, signing
<1>7. ASSUME NEW p \in Processes, NEW op \in Ops \cup {NoOp}, Acquire(p, op) PROVE JournalsOK'
  <2>1. UNCHANGED around
    BY <1>7 DEF Acquire, around, network, signing
  <2> QED BY <1>5, <1>7, <2>1 DEF Acquire
<1>8. ASSUME NEW p \in Processes, Crash(p) PROVE JournalsOK'
  <2>1. PICK owner \in {"dead", "foreign"} :
            db' = Without(db, p, owner) /\ synced' = Without(synced, p, owner)
    BY <1>8 DEF Crash
  <2>2. UNCHANGED around
    BY <1>8 DEF Crash, around, network, signing
  <2>3. PICK d, s : d = Without(db, p, owner) /\ s = Without(synced, p, owner)
    OBVIOUS
  <2>4. JournalOK(d) /\ JournalOK(s)
    BY <1>1, <2>3, WithoutKeeps DEF JournalsOK
  <2>5. /\ d.retired = s.retired /\ overlooked' = overlooked
        /\ d.fence # NoFence => s.fence = d.fence
        /\ s.fence # NoFence => d.fence # NoFence \/ overlooked
    <3>1. /\ d.fence = FenceWithout(db.fence, p, owner)
          /\ d.retired = db.retired
      BY <1>1, <2>3, WithoutKeeps DEF JournalsOK
    <3>2. /\ s.fence = FenceWithout(synced.fence, p, owner)
          /\ s.retired = synced.retired
      BY <1>1, <2>3, WithoutKeeps DEF JournalsOK
    <3>3. NoFence.by # p /\ FenceWithout(NoFence, p, owner) = NoFence
      BY NamesAssumption DEF NoFence, FenceWithout
    <3>4. FenceWithout(db.fence, p, owner) = NoFence => db.fence = NoFence
      <4>1. CASE db.fence # NoFence
        <5>1. db.fence \in [owner : {"running", "dead", "foreign"}, by : Processes, env : Signed]
          BY <1>1, <4>1 DEF JournalsOK, JournalOK, RowsOK, Journals, Fences
        <5>2. FenceWithout(db.fence, p, owner).by \in Processes
          BY <5>1 DEF FenceWithout
        <5>3. NoFence.by \notin Processes
          BY NamesAssumption DEF NoFence
        <5> QED BY <5>2, <5>3
      <4> QED BY <4>1
    <3>5. overlooked' = overlooked
      BY <1>8 DEF Crash
    <3> QED BY <1>1, <3>1, <3>2, <3>3, <3>4, <3>5 DEF JournalsOK, SyncedOK, ClearedFenceStaysCleared
  <2>6. JournalOK(d)' /\ JournalOK(s)'
    BY <2>2, <2>4, NothingMoves DEF around
  <2>7. db' = d /\ synced' = s /\ overlooked \in BOOLEAN
    BY <1>1, <2>1, <2>3 DEF JournalsOK, SyncedOK
  <2> QED BY <2>5, <2>6, <2>7 DEF JournalsOK, SyncedOK, ClearedFenceStaysCleared
<1> QED BY <1>3, <1>4, <1>6, <1>7, <1>8, <1>9

\* What every step of a process starts from.
Before(p) ==
    /\ JournalsOK /\ EnvelopesOK /\ NetworkOK /\ FenceOK /\ HolderOK /\ db \in Journals
    /\ p \in Processes /\ local[p] \in Process /\ ProcessOK(p) /\ ProcessesOK

\* The invariant gives what the steps of a process start from.
LEMMA InvBefore ==
    ASSUME Inv, NEW p \in Processes
    PROVE  Before(p)
BY ProcessFacts DEF Inv, TypeInv, JournalsOK, JournalOK, RowsOK, Before

\* A signature becomes an intent.
LEMMA TransferJournals ==
    ASSUME Inv, NEW p \in Processes, ResumeAlternative(p) \/ TransferAlternative(p) \/ Persist(p)
    PROVE  JournalsOK'
<1>1. Before(p)
  BY InvBefore
<1>2. UNCHANGED around
  BY DEF ResumeAlternative, TransferAlternative, Persist, around, network, signing
<1>3. ASSUME NEW r \in db.reserved, Resumable(r), Normal(Transferred(db, r)) PROVE JournalsOK'
  <2>1. r.env # 0 /\ (r.original # 0 => Status(db, r.original) = "pending")
    BY <1>3 DEF Resumable
  <2>2. PICK t : t = Transferred(db, r)
    OBVIOUS
  <2>3. JournalOK(t) /\ t.fence = db.fence /\ t.retired = db.retired
    BY <1>1, <2>1, <2>2, TransferKeeps DEF Before, JournalsOK
  <2> QED BY <1>1, <1>2, <1>3, <2>2, <2>3, CommitKeeps DEF Before
<1>4. CASE Persist(p)
  <2>1. PICK r \in db.reserved :
            /\ r.op = local[p].op /\ r.nonce = local[p].nonce
            /\ r.original = 0 /\ r.env # 0
            /\ Normal(Record(Transferred(db, r), r.op, "submitted", r.nonce, r.env))
    BY <1>4 DEF Persist
  <2>2. PICK t : t = Transferred(db, r)
    OBVIOUS
  <2>3. /\ JournalOK(t) /\ t.fence = db.fence /\ t.retired = db.retired
        /\ t.intents[r.env] = NewIntent
        /\ r.env \in Signed /\ Op(r.env) = r.op /\ r.op \in BatchOps
    BY <1>1, <2>1, <2>2, TransferKeeps DEF Before, JournalsOK
  <2>4. Status(t, r.env) = "pending"
    BY <2>3 DEF Status, NewIntent, NoIntent
  <2>5. r.nonce \in Used /\ r.op \in Ops
    BY <1>1, <2>3 DEF Before, JournalsOK, JournalOK, RowsOK, Ops
  <2>6. PICK u : u = Record(t, r.op, "submitted", r.nonce, r.env)
    OBVIOUS
  <2>7. JournalOK(u)
    BY <2>1, <2>3, <2>4, <2>5, <2>6, RecordKeeps DEF AttemptStatuses
  <2>8. u.fence = db.fence /\ u.retired = db.retired
    BY <2>3, <2>6 DEF Record, JournalOK, RowsOK, Journals
  <2> QED BY <1>1, <1>2, <2>1, <2>2, <2>6, <2>7, <2>8, CommitKeeps DEF Before
<1> QED BY <1>3, <1>4 DEF ResumeAlternative, TransferAlternative

\* A receipt, an archival, and what becomes of an envelope that was not sent.
LEMMA StatusJournals ==
    ASSUME Inv, NEW p \in Processes,
           WriteReceipt(p) \/ Archive(p) \/ RetirePrevented(p) \/ Prevent(p)
    PROVE  JournalsOK'
<1>1. Before(p)
  BY InvBefore
<1>2. UNCHANGED around
  BY DEF WriteReceipt, Archive, RetirePrevented, Prevent, around, network, signing
<1>3. lease = p /\ db.fence = NoFence /\ db.reserved = {} /\ JournalOK(db)
  BY <1>1 DEF Before, WriteReceipt, Archive, RetirePrevented, Prevent, HolderOK, Holds, At, Owns, JournalsOK
<1>4. db \in Journals /\ EnvelopesOK /\ NetworkOK /\ JournalsOK
  BY <1>1 DEF Before
<1>5. CASE WriteReceipt(p)
  <2> DEFINE e == local[p].env
             row == [status |-> "confirmed", nonce |-> Nonce(e), env |-> e]
             intents == [f \in Envelopes |->
                            IF f = e THEN [db.intents[e] EXCEPT !.status = "confirmed", !.epoch = local[p].epoch]
                            ELSE IF f \in Siblings(db, e) THEN [db.intents[f] EXCEPT !.status = "superseded"]
                            ELSE db.intents[f]]
             t == [Record(db, Op(e), "confirmed", Nonce(e), e) EXCEPT !.intents = intents]
  <2>1. /\ e \in Signed /\ IsBatch(e) /\ Status(db, e) = "pending"
        /\ \A f \in Signed : Waits(db, f) /\ Nonce(f) = Nonce(e) => Status(db, f) = "pending"
    BY <1>1, <1>3, <1>5 DEF Before, WriteReceipt, ProcessOK, StateOK, HolderOK, Holds, At, BatchSteps
  <2>2. Normal(t)
    <3>1. Record(db, Op(e), "confirmed", Nonce(e), e).intents = db.intents
      BY <1>4 DEF Record, Journals
    <3> QED BY <1>5, <3>1 DEF WriteReceipt
  <2>3. /\ e \in Envelopes /\ Nonce(e) \in Used /\ Op(e) \in Ops /\ local[p].epoch \in 0 .. MaxFaults
    <3>1. local[p].epoch \in 0 .. epoch /\ epoch \in Nat /\ epoch <= faults /\ faults \in 0 .. MaxFaults
      BY <1>1 DEF Before, Process, NetworkOK
    <3>2. local[p].epoch \in 0 .. MaxFaults
      BY <3>1, ConstantsAssumption
    <3> QED BY <1>4, <2>1, <3>2, SignedRows, ConstantsAssumption DEF Used, Envelopes
  <2>4. intents \in [Envelopes -> Intent]
    BY <1>4, <2>3, ZenonT(40) DEF Journals, Intent, IntentStatuses
  <2>5. \A f \in Envelopes :
           /\ intents[f].status = IF f = e THEN "confirmed"
                                  ELSE IF f \in Siblings(db, e) THEN "superseded" ELSE Status(db, f)
           /\ intents[f].replay = db.intents[f].replay
    BY <1>4, <2>3 DEF Journals, Intent, Status
  <2>6. row \in [status : AttemptStatuses, nonce : Used, env : {0} \cup Signed]
    BY <2>1, <2>3 DEF AttemptStatuses
  <2> HIDE DEF intents
  <2>7. /\ t.attempts = [db.attempts EXCEPT ![Op(e)] = row] /\ t.reserved = {}
        /\ t.intents = intents /\ t.retired = db.retired /\ t.fence = NoFence
    BY <1>3, <1>4 DEF Journals, Record
  <2>8. t \in Journals
    BY <1>4, <2>3, <2>4, <2>6 DEF Journals, Record, Attempts
  <2>9. PICK u : u = t
    OBVIOUS
  <2> HIDE DEF t
  <2>10. \A f \in Envelopes :
           /\ Status(u, f) = IF f = e THEN "confirmed"
                             ELSE IF f \in Siblings(db, e) THEN "superseded" ELSE Status(db, f)
           /\ u.intents[f].replay = db.intents[f].replay
    BY <2>5, <2>7, <2>9 DEF Status
  <2>11. JournalOK(u)
    <3> HIDE DEF e
    <3> QED BY <1>3, <1>4, <2>1, <2>7, <2>8, <2>9, <2>10, ReceiptKeeps
  <2> QED BY <1>2, <1>3, <1>4, <2>2, <2>7, <2>9, <2>11, CommitKeeps
<1>6. CASE Archive(p)
  <2> DEFINE intents == [f \in Envelopes |->
                            IF Status(db, f) = "confirmed" /\ Final(f)
                            THEN [db.intents[f] EXCEPT !.status = "finalized"] ELSE db.intents[f]]
             t == [db EXCEPT !.intents = intents]
  <2>1. Normal(t)
    BY <1>6 DEF Archive
  <2>2. intents \in [Envelopes -> Intent]
    BY <1>4 DEF Journals, Intent, IntentStatuses
  <2>3. \A f \in Envelopes :
           /\ intents[f].status =
                IF Status(db, f) = "confirmed" /\ Final(f) THEN "finalized" ELSE Status(db, f)
           /\ intents[f].replay = db.intents[f].replay
    BY <1>4 DEF Journals, Intent, Status
  <2> HIDE DEF intents
  <2>4. /\ t.attempts = db.attempts /\ t.reserved = {} /\ t.intents = intents
        /\ t.retired = db.retired /\ t.fence = NoFence /\ t \in Journals
    BY <1>3, <1>4, <2>2 DEF Journals
  <2>5. PICK u : u = t
    OBVIOUS
  <2> HIDE DEF t
  <2>6. \A f \in Envelopes :
           /\ Status(u, f) = IF Status(db, f) = "confirmed" /\ Final(f) THEN "finalized" ELSE Status(db, f)
           /\ u.intents[f].replay = db.intents[f].replay
    BY <2>3, <2>4, <2>5 DEF Status
  <2>7. JournalOK(u)
    BY <1>3, <1>4, <2>4, <2>5, <2>6, ArchiveKeeps
  <2> QED BY <1>2, <1>3, <1>4, <2>1, <2>4, <2>5, <2>7, CommitKeeps
<1>7. CASE RetirePrevented(p)
  <2>1. PICK e \in Active :
            /\ Status(db, e) = "prevented"
            /\ Full([Close(db, Op(e)) EXCEPT !.intents[e] = NoIntent, !.retired = @ \cup {e}])
    BY <1>7 DEF RetirePrevented, Retirable
  <2>2. e \in Signed /\ e \in Envelopes /\ Op(e) \in Ops
    BY <1>3, <1>4, <2>1, SignedRows DEF JournalOK, IntentsOK, Active, Unresolved
  <2> DEFINE t == [Close(db, Op(e)) EXCEPT !.intents[e] = NoIntent, !.retired = @ \cup {e}]
  <2>3. /\ t.attempts = [db.attempts EXCEPT ![Op(e)] = NoAttempt] /\ t.reserved = {}
        /\ t.intents = [db.intents EXCEPT ![e] = NoIntent]
        /\ t.retired = db.retired \cup {e} /\ t.fence = NoFence
    BY <1>3, <1>4 DEF Journals, Close
  <2>4. NoIntent \in Intent /\ NoAttempt \in [status : AttemptStatuses, nonce : Used, env : {0} \cup Signed]
    BY <1>4, ConstantsAssumption
    DEF NoIntent, Intent, IntentStatuses, ReplayStates, NoAttempt, AttemptStatuses, Used, EnvelopesOK
  <2>5. t \in Journals
    BY <1>4, <2>2, <2>4 DEF Journals, Close, Attempts
  <2>6. PICK u : u = t
    OBVIOUS
  <2> HIDE DEF t
  <2>7. JournalOK(u)
    BY <1>3, <1>4, <2>1, <2>2, <2>3, <2>5, <2>6, RetireKeeps
  <2> QED BY <1>2, <1>4, <2>1, <2>6, <2>7, CommitKeeps DEF t
<1>8. CASE Prevent(p)
  <2> DEFINE e == local[p].env
             t == [Record(db, Op(e), "prevented", Nonce(e), e) EXCEPT !.intents[e].status = "prevented"]
  <2>1. /\ e \in Signed /\ IsBatch(e) /\ Status(db, e) = "pending"
        /\ db.intents[e].replay = "unvalidated" /\ Full(t)
    BY <1>1, <1>3, <1>8 DEF Before, Prevent, ProcessOK, StateOK, HolderOK, Holds, At, BatchSteps
  <2>2. /\ e \in Envelopes /\ Nonce(e) \in Used /\ Op(e) \in Ops
    BY <1>4, <2>1, SignedRows, ConstantsAssumption DEF Used, Envelopes
  <2>3. /\ t.attempts = [db.attempts EXCEPT
                           ![Op(e)] = [status |-> "prevented", nonce |-> Nonce(e), env |-> e]]
        /\ t.reserved = {} /\ t.intents = [db.intents EXCEPT ![e].status = "prevented"]
        /\ t.retired = db.retired /\ t.fence = NoFence
    BY <1>3, <1>4 DEF Journals, Record
  <2>4. t \in Journals
    <3> DEFINE intents == [db.intents EXCEPT ![e].status = "prevented"]
    <3>1. intents \in [Envelopes -> Intent]
      BY <1>4, <2>2 DEF Journals, Intent, IntentStatuses
    <3>2. t = [Record(db, Op(e), "prevented", Nonce(e), e) EXCEPT !.intents = intents]
      BY <1>4 DEF Journals, Record
    <3>3. Record(db, Op(e), "prevented", Nonce(e), e) \in Journals
      BY <1>4, <2>1, <2>2 DEF Journals, Record, Attempts, AttemptStatuses
    <3> HIDE DEF intents, t
    <3> QED BY <3>1, <3>2, <3>3 DEF Journals
  <2>5. PICK u : u = t
    OBVIOUS
  <2>6. ~Exposed(db, e)
    BY <2>1 DEF Exposed
  <2> HIDE DEF t
  <2>7. JournalOK(u)
    <3> HIDE DEF e
    <3> QED BY <1>3, <1>4, <2>1, <2>3, <2>4, <2>5, <2>6, PreventKeeps
  <2> QED BY <1>2, <1>4, <2>1, <2>5, <2>7, CommitKeeps
<1> QED BY <1>5, <1>6, <1>7, <1>8

\* The ready marker, the send and its result.
LEMMA NoteJournals ==
    ASSUME Inv, NEW p \in Processes,
           MarkReady(p) \/ Dispatch(p) \/ \E e \in Signed : Settle(p, e)
    PROVE  JournalsOK'
<1>1. Before(p) /\ EnvelopesOK /\ NetworkOK /\ JournalsOK /\ JournalOK(db) /\ db \in Journals
  BY InvBefore DEF Before, JournalsOK
<1>2. UNCHANGED around
  BY DEF MarkReady, Dispatch, Settle, around, network, signing
<1>3. "ready" \in ReplayStates /\ "retryable" \in ReplayStates /\ "rejected" \in ReplayStates
  BY DEF ReplayStates
<1>4. ASSUME NEW t, t \in Journals,
             t.attempts = db.attempts, t.reserved = db.reserved, t.retired = db.retired,
             \A f \in Envelopes :
                /\ t.intents[f].status = db.intents[f].status
                /\ db.intents[f].replay # "unvalidated" => t.intents[f].replay # "unvalidated",
             t.fence = NoFence \/ Exposed(t, t.fence.env),
             Full(t) \/ (Normal(t) /\ t.fence = db.fence)
      PROVE  JournalsOK'
  <2>1. JournalOK(t)
    BY <1>1, <1>4, NoteKeeps
  <2> QED BY <1>1, <1>2, <1>4, <2>1, CommitKeeps
<1>5. CASE MarkReady(p)
  <2> DEFINE e == local[p].env
             t == [db EXCEPT !.intents[e].replay = "ready"]
             intents == [db.intents EXCEPT ![e].replay = "ready"]
  <2>1. e \in Envelopes /\ (Full(t) \/ Normal(t))
    BY <1>1, <1>5, SignedRows DEF MarkReady, Before, ProcessOK, StateOK, At, BatchSteps, JournalOK, IntentsOK
  <2>2. intents \in [Envelopes -> Intent]
    BY <1>1, <1>3, <2>1 DEF Journals, Intent
  <2>3. \A f \in Envelopes :
           /\ intents[f].status = db.intents[f].status
           /\ db.intents[f].replay # "unvalidated" => intents[f].replay # "unvalidated"
    BY <1>1, <2>1 DEF Journals, Intent
  <2>4. /\ t.attempts = db.attempts /\ t.reserved = db.reserved /\ t.retired = db.retired
        /\ t.fence = db.fence /\ t.intents = intents
    BY <1>1 DEF Journals
  <2>5. t = [db EXCEPT !.intents = intents]
    BY <1>1 DEF Journals
  <2> HIDE DEF intents
  <2>6. t \in Journals
    BY <1>1, <2>2, <2>5 DEF Journals
  <2>7. PICK u : u = t
    OBVIOUS
  <2> HIDE DEF t
  <2>8. u.fence = NoFence \/ Exposed(u, u.fence.env)
    <3>1. db.fence # NoFence => Exposed(db, db.fence.env) /\ db.fence.env \in Envelopes
      BY <1>1, SignedRows DEF JournalOK, SentInJournal, Journals, Fences
    <3> QED BY <2>3, <2>4, <2>7, <3>1 DEF Exposed, Status
  <2> QED BY <1>4, <2>1, <2>3, <2>4, <2>6, <2>7, <2>8
<1>6. CASE Dispatch(p)
  <2> DEFINE e == local[p].env
             attempts == Min({db.intents[e].attempts + 1, SupersedeAfter})
             fence == [owner |-> "running", by |-> p, env |-> e]
             row == [db.intents[e] EXCEPT !.attempts = attempts, !.replay = "retryable"]
             t == [db EXCEPT !.intents[e].attempts = attempts, !.intents[e].replay = "retryable",
                             !.fence = fence]
             intents == [db.intents EXCEPT ![e] = row]
  <2>1. e \in Signed /\ e \in Envelopes /\ Status(db, e) = "pending" /\ Full(t)
    BY <1>1, <1>6, SignedRows DEF Dispatch, Before, ProcessOK, StateOK, At, BatchSteps
  <2>2. attempts \in 0 .. SupersedeAfter
    <3>1. db.intents[e].attempts \in 0 .. SupersedeAfter /\ SupersedeAfter \in Nat
      BY <1>1, <2>1, ConstantsAssumption DEF Journals, Intent
    <3>2. db.intents[e].attempts + 1 \in Nat
      BY <3>1
    <3> QED BY <3>1, <3>2, SmallerOfTwo
  <2> HIDE DEF attempts
  <2>3. /\ row \in Intent /\ row.status = "pending" /\ row.replay = "retryable"
    BY <1>1, <1>3, <2>1, <2>2 DEF Journals, Intent, Status
  <2>4. t = [db EXCEPT !.intents = intents, !.fence = fence]
    BY <1>1, <2>1 DEF Journals
  <2>5. fence \in Fences
    BY <1>1, <2>1 DEF Fences, Before
  <2> HIDE DEF row, t, fence
  <2>6. /\ t.attempts = db.attempts /\ t.reserved = db.reserved /\ t.retired = db.retired
        /\ t.fence = fence /\ t.intents = intents /\ t \in Journals
    BY <1>1, <2>1, <2>3, <2>4, <2>5 DEF Journals
  <2>7. \A f \in Envelopes :
           /\ intents[f].status = db.intents[f].status
           /\ db.intents[f].replay # "unvalidated" => intents[f].replay # "unvalidated"
    BY <1>1, <2>1, <2>3 DEF Journals, Status
  <2>8. intents[e] = row /\ fence.env = e
    BY <1>1, <2>1 DEF Journals, fence
  <2>9. PICK u : u = t
    OBVIOUS
  <2>10. Exposed(u, u.fence.env)
    BY <2>3, <2>6, <2>8, <2>9 DEF Exposed, Status
  <2> HIDE DEF intents
  <2> QED BY <1>4, <2>1, <2>6, <2>7, <2>9, <2>10
<1>7. ASSUME NEW e \in Signed, Settle(p, e) PROVE JournalsOK'
  <2> DEFINE cleared == [db EXCEPT !.fence = NoFence]
             replay == IF Status(db, e) = "pending" THEN "rejected" ELSE db.intents[e].replay
             t == [cleared EXCEPT !.intents[e].replay = replay]
             intents == [db.intents EXCEPT ![e].replay = replay]
  <2>1. e \in Envelopes
    BY <1>1, SignedRows
  <2>2. cleared.intents = db.intents
    BY <1>1 DEF Journals
  <2>3. Full(cleared) \/ Full(t)
    <3>1. [cleared EXCEPT !.intents[e].replay = IF Status(db, e) = "pending" THEN "rejected" ELSE @] = t
      BY <2>2
    <3> QED BY <1>7, <3>1 DEF Settle
  <2>4. CASE Full(cleared)
    BY <1>1, <1>2, <2>4, ClearedKeeps, CommitKeeps
  <2>5. CASE Full(t)
    <3>1. replay \in ReplayStates /\ (db.intents[e].replay # "unvalidated" => replay # "unvalidated")
      BY <1>1, <1>3, <2>1 DEF Journals, Intent
    <3> HIDE DEF replay
    <3>2. intents \in [Envelopes -> Intent]
      BY <1>1, <2>1, <3>1 DEF Journals, Intent
    <3>3. \A f \in Envelopes :
             /\ intents[f].status = db.intents[f].status
             /\ db.intents[f].replay # "unvalidated" => intents[f].replay # "unvalidated"
      BY <1>1, <2>1, <3>1 DEF Journals, Intent
    <3>4. t = [db EXCEPT !.fence = NoFence, !.intents = intents]
      BY <1>1 DEF Journals
    <3> HIDE DEF intents, t
    <3>5. /\ t.attempts = db.attempts /\ t.reserved = db.reserved /\ t.retired = db.retired
          /\ t.fence = NoFence /\ t.intents = intents /\ t \in Journals
      BY <1>1, <3>2, <3>4 DEF Journals, Fences
    <3>6. PICK u : u = t
      OBVIOUS
    <3> QED BY <1>4, <2>5, <3>3, <3>5, <3>6
  <2> QED BY <2>3, <2>4, <2>5
<1> QED BY <1>5, <1>6, <1>7

\* The steps of a process that write nothing.
Quiet(p) ==
    \/ RenewLease(p) \/ LeaseLost(p) \/ BeginPass(p) \/ ReadReceipts(p) \/ Replay(p)
    \/ PlanAlternative(p) \/ PlanUnavailable(p) \/ PassBlocked(p) \/ PassFails(p) \/ QuoteExpires(p)
    \/ AdmitFresh(p) \/ NotAdmitted(p) \/ CancelStale(p) \/ NotAllocated(p) \/ PlainUnconfirmed(p)

\* What a quiet step leaves alone.
LEMMA QuietIsQuiet ==
    ASSUME NEW p \in Processes, Quiet(p)
    PROVE  UNCHANGED <<envelopes, sent, pool, chain, final, epoch, db, synced, overlooked, outstanding>>
BY DEF Quiet, RenewLease, LeaseLost, BeginPass, ReadReceipts, Replay, PlanAlternative,
       PlanUnavailable, PassBlocked, PassFails, QuoteExpires, AdmitFresh, NotAdmitted,
       CancelStale, NotAllocated, PlainUnconfirmed, signing, network, journal

\* Every step keeps the journals well formed.
LEMMA JournalStep == Inv /\ [Next]_vars => JournalsOK'
<1> SUFFICES ASSUME Inv, [Next]_vars PROVE JournalsOK'
  OBVIOUS
<1>1. JournalsOK
  BY DEF Inv, JournalsOK
<1>2. ASSUME NEW p \in Processes, Quiet(p) PROVE JournalsOK'
  BY <1>1, <1>2, QuietIsQuiet, NoCommit DEF around, journal
<1>3. ASSUME NEW p \in Processes, Pass(p) PROVE JournalsOK'
  BY <1>2, <1>3, TransferJournals, StatusJournals, ReservationJournals DEF Pass, Quiet
<1>4. ASSUME NEW p \in Processes, Send(p) PROVE JournalsOK'
  BY <1>2, <1>4, NoteJournals, SendJournals, FenceJournals DEF Send, Quiet
<1>5. ASSUME NEW p \in Processes, Submit(p) PROVE JournalsOK'
  BY <1>2, <1>5, AttemptJournals, ReservationJournals, TransferJournals, StatusJournals
  DEF Submit, Quiet
<1>6. ASSUME NEW p \in Processes, Plain(p) PROVE JournalsOK'
  BY <1>2, <1>6, AttemptJournals, SendJournals DEF Plain, Quiet
<1>7. CASE UNCHANGED vars
  BY <1>1, <1>7, NoCommit DEF vars, around, journal
<1>8. CASE ExpireLease
  BY <1>1, <1>8, NoCommit DEF ExpireLease, around, network, signing
<1>9. CASE Next
  BY <1>2, <1>3, <1>4, <1>5, <1>6, <1>8, <1>9, FenceJournals, NetworkJournals, SignJournals, ReservationJournals
  DEF Next, Step, Quiet
<1> QED BY <1>7, <1>9

-----------------------------------------------------------------------------
(* The processes: what a process remembers is always as its step needs it. *)

StateNext(p) ==
    /\ local' = [local EXCEPT ![p] = local'[p]]
    /\ local'[p] \in Process /\ StateOK(local'[p])

\* An idle process is well formed, and may start anything.
LEMMA IdleState ==
    ASSUME EnvelopesOK, NetworkOK
    PROVE  /\ Idle \in Process /\ StateOK(Idle) /\ Idle.step = "idle" /\ Idle.next = "done"
           /\ 0 \in Used
           /\ \A op \in Ops, n \in 0 .. epoch :
                 [Idle EXCEPT !.step = "allocate", !.op = op, !.epoch = n] \in Process
<1>1. 0 \in Used /\ 0 \in 0 .. epoch
  BY DEF EnvelopesOK, NetworkOK, Used
<1> QED BY <1>1, NamesAssumption
  DEF Idle, Process, Steps, StateOK, SubmitSteps, PlainSteps, BatchSteps, Ops

\* An operation that ends leaves an idle process.
LEMMA EndState ==
    ASSUME NEW p \in Processes, Before(p), Ends(p)
    PROVE  StateNext(p)
<1>1. local \in [Processes -> Process] /\ EnvelopesOK /\ NetworkOK
  BY DEF Before, ProcessesOK
<1>2. local' = [local EXCEPT ![p] = Idle] /\ local'[p] = Idle
  BY <1>1 DEF Ends
<1> QED BY <1>1, <1>2, IdleState DEF StateNext

\* The next step with the same memory.
LEMMA GotoState ==
    ASSUME NEW p \in Processes, Before(p), NEW step \in Steps, Goto(p, step),
           StateOK([local[p] EXCEPT !.step = step])
    PROVE  StateNext(p)
<1>1. local \in [Processes -> Process] /\ local[p] \in Process
  BY DEF Before, ProcessesOK
<1>2. /\ local' = [local EXCEPT ![p] = [local[p] EXCEPT !.step = step]]
      /\ local'[p] = [local[p] EXCEPT !.step = step]
  BY <1>1 DEF Goto
<1>3. [local[p] EXCEPT !.step = step] \in Process
  BY <1>1 DEF Process
<1> QED BY <1>2, <1>3 DEF StateNext

\* Of the candidates one has no alternative: it is the one that is sent again.
LEMMA ResendIsActive ==
    ASSUME EnvelopesOK, JournalOK(db), Active # {}
    PROVE  Resend \in Active
<1>1. \A e \in Unresolved(db) : e \in Signed /\ Waits(db, e)
  BY DEF Unresolved, Waits, Status, JournalOK, IntentsOK
<1>2. \A e \in Signed : Nonce(e) \in Nat /\ e \in Envelopes /\ e # 0 /\ e \in Nat
  BY SignedRows, ConstantsAssumption DEF Envelopes
<1>3. PICK e \in Active : TRUE
  OBVIOUS
<1>4. \E x \in Active : Alternatives(db, x) = {}
  <2>1. CASE Alternatives(db, e) = {}
    BY <1>3, <2>1
  <2>2. CASE Alternatives(db, e) # {}
    <3>1. PICK f \in Signed : Status(db, f) # "none" /\ envelopes[f].original = e
      BY <2>2 DEF Alternatives
    <3>2. e \in Signed /\ Waits(db, e) /\ e # 0
      BY <1>1, <1>2 DEF Active
    <3>3. Nonce(f) = Nonce(e) /\ e < f
      BY <3>1, <3>2 DEF EnvelopesOK
    <3>4. Waits(db, f)
      BY <3>1, <3>2, <3>3 DEF JournalOK, IntentsOK
    <3>5. f \in Active
      BY <1>2, <3>3, <3>4 DEF Active, Unresolved, Waits
    <3>6. ASSUME NEW g \in Alternatives(db, f) PROVE FALSE
      <4>1. g \in Signed /\ Status(db, g) # "none" /\ envelopes[g].original = f
        BY DEF Alternatives
      <4>2. Nonce(g) = Nonce(f) /\ f < g
        BY <1>2, <4>1 DEF EnvelopesOK
      <4>3. Status(db, e) # "none"
        BY <3>2 DEF Waits
      <4>4. g = e \/ envelopes[g].original = e \/ envelopes[e].original = g
        BY <3>2, <3>3, <4>1, <4>2, <4>3 DEF JournalOK, IntentsOK
      <4>5. envelopes[e].original = g => g < e
        BY <1>2, <3>2, <4>1 DEF EnvelopesOK
      <4>6. e \in Nat /\ f \in Nat /\ g \in Nat
        BY <1>2, <3>2, <4>1
      <4> QED BY <3>3, <4>1, <4>2, <4>4, <4>5, <4>6
    <3> QED BY <3>5, <3>6
  <2> QED BY <2>1, <2>2
<1> QED BY <1>4 DEF Resend

\* The step that a process goes to needs no more than it has.
LEMMA PassStates ==
    ASSUME NEW p \in Processes, Before(p), Pass(p)
    PROVE  StateNext(p)
<1>1. /\ local \in [Processes -> Process] /\ local[p] \in Process /\ StateOK(local[p])
      /\ EnvelopesOK /\ NetworkOK /\ JournalOK(db) /\ db \in Journals
  BY DEF Before, ProcessesOK, ProcessOK, JournalsOK
<1> USE DEF StateNext
<1>2. CASE ResumeAlternative(p) \/ RetirePrevented(p)
  <2>1. local' = local
    BY <1>2 DEF ResumeAlternative, RetirePrevented
  <2> QED BY <1>1, <2>1
<1>3. CASE BeginPass(p)
  <2>1. "read" \in Steps /\ Goto(p, "read")
    BY <1>3 DEF BeginPass, Steps, PassSteps
  <2>2. StateOK([local[p] EXCEPT !.step = "read"])
    BY <1>1 DEF StateOK, Process, SubmitSteps, PlainSteps, BatchSteps
  <2> QED BY <2>1, <2>2, GotoState
<1>4. CASE PassBlocked(p)
  BY <1>4, EndState DEF PassBlocked
<1>5. CASE Archive(p)
  <2>1. CASE local[p].next = "done"
    BY <1>5, <2>1, EndState DEF Archive
  <2>2. CASE local[p].next # "done"
    <3>1. local[p].next = "admit" /\ local[p].op \in Ops
      BY <1>1, <2>2 DEF Process, StateOK
    <3> DEFINE t == [local[p] EXCEPT !.step = "admit", !.epoch = epoch]
    <3>2. local' = [local EXCEPT ![p] = t]
      BY <1>1, <1>5, <2>2 DEF Archive
    <3>3. t \in Process
      <4>1. epoch \in 0 .. epoch
        BY <1>1 DEF NetworkOK
      <4> QED BY <1>1, <4>1 DEF Process, Steps, SubmitSteps
    <3>4. StateOK(t)
      BY <1>1, <3>1 DEF StateOK, Process, SubmitSteps, PlainSteps, BatchSteps
    <3> HIDE DEF t
    <3> QED BY <1>1, <3>2, <3>3, <3>4
  <2> QED BY <2>1, <2>2
<1>6. CASE PlanAlternative(p)
  <2>1. "planned" \in Steps /\ Goto(p, "planned") /\ local[p].step = "replay"
    BY <1>6 DEF PlanAlternative, Steps, PassSteps, At
  <2>2. StateOK([local[p] EXCEPT !.step = "planned"])
    BY <1>1, <2>1 DEF StateOK, Process, SubmitSteps, PlainSteps, BatchSteps
  <2> QED BY <2>1, <2>2, GotoState
<1>7. CASE ReserveAlternative(p)
  <2>1. "signAlternative" \in Steps /\ Goto(p, "signAlternative") /\ local[p].step = "planned"
    BY <1>7 DEF ReserveAlternative, Steps, PassSteps, At
  <2>2. StateOK([local[p] EXCEPT !.step = "signAlternative"])
    BY <1>1, <2>1 DEF StateOK, Process, SubmitSteps, PlainSteps, BatchSteps
  <2> QED BY <2>1, <2>2, GotoState
<1>8. CASE WriteReceipt(p)
  <2> DEFINE t == [local[p] EXCEPT !.step = "read", !.env = 0, !.epoch = 0]
  <2>1. local' = [local EXCEPT ![p] = t]
    BY <1>1, <1>8 DEF WriteReceipt
  <2>2. t \in Process
    <3>1. 0 \in 0 .. epoch
      BY <1>1 DEF NetworkOK
    <3> QED BY <1>1, <3>1 DEF Process, Steps, PassSteps
  <2>3. StateOK(t)
    BY <1>1 DEF StateOK, Process, SubmitSteps, PlainSteps, BatchSteps
  <2> HIDE DEF t
  <2> QED BY <1>1, <2>1, <2>2, <2>3
<1>9. CASE Replay(p)
  <2>1. PICK step \in {"ready", "dispatch"}, kind \in {"supersede", "replay"} :
            local' = [local EXCEPT ![p].step = step, ![p].kind = kind]
    BY <1>9 DEF Replay
  <2> DEFINE t == [local[p] EXCEPT !.step = step, !.kind = kind]
  <2>2. local' = [local EXCEPT ![p] = t]
    BY <1>1, <2>1
  <2>3. t \in Process
    BY <1>1 DEF Process, Steps, SendSteps
  <2>4. local[p].step = "replay"
    BY <1>9 DEF Replay, At
  <2>5. StateOK(t)
    BY <1>1, <2>4 DEF StateOK, Process, SubmitSteps, PlainSteps, BatchSteps
  <2> HIDE DEF t
  <2> QED BY <1>1, <2>2, <2>3, <2>5
<1>10. CASE PlanUnavailable(p)
  <2> DEFINE t == [local[p] EXCEPT !.step = "dispatch", !.kind = "replay"]
  <2>1. local' = [local EXCEPT ![p] = t] /\ local[p].step = "planned"
    BY <1>1, <1>10 DEF PlanUnavailable, At
  <2>2. t \in Process
    BY <1>1 DEF Process, Steps, SendSteps
  <2>3. StateOK(t)
    BY <1>1, <2>1 DEF StateOK, Process, SubmitSteps, PlainSteps, BatchSteps
  <2> HIDE DEF t
  <2> QED BY <1>1, <2>1, <2>2, <2>3
<1>11. CASE TransferAlternative(p)
  <2>1. PICK r \in db.reserved :
            /\ Resumable(r)
            /\ local' = [local EXCEPT ![p].step = "replay", ![p].env = r.env, ![p].kind = "supersede"]
    BY <1>11 DEF TransferAlternative
  <2> DEFINE t == [local[p] EXCEPT !.step = "replay", !.env = r.env, !.kind = "supersede"]
  <2>2. r.env \in Signed /\ IsBatch(r.env)
    BY <1>1, <2>1, TransferKeeps DEF Resumable, IsBatch
  <2>3. local' = [local EXCEPT ![p] = t]
    BY <1>1, <2>1
  <2>4. t \in Process
    BY <1>1, <2>2 DEF Process, Steps, PassSteps
  <2>5. StateOK(t)
    BY <1>1, <2>2 DEF StateOK, Process, SubmitSteps, PlainSteps, BatchSteps
  <2> HIDE DEF t
  <2> QED BY <1>1, <2>3, <2>4, <2>5
<1>12. CASE ReadReceipts(p)
  <2>1. CASE Goto(p, "archive")
    <3>1. "archive" \in Steps
      BY DEF Steps, PassSteps
    <3>2. StateOK([local[p] EXCEPT !.step = "archive"])
      BY <1>1 DEF StateOK, Process, SubmitSteps, PlainSteps, BatchSteps
    <3> QED BY <2>1, <3>1, <3>2, GotoState
  <2>2. \A e \in Active : e \in Signed /\ IsBatch(e) /\ e \in Envelopes
    BY <1>1 DEF Active, Unresolved, JournalOK, IntentsOK
  <2>3. CASE Active # {} /\ local' = [local EXCEPT ![p].step = "replay", ![p].env = Resend]
    <3> DEFINE t == [local[p] EXCEPT !.step = "replay", !.env = Resend]
    <3>1. Resend \in Signed /\ IsBatch(Resend)
      BY <1>1, <2>2, <2>3, ResendIsActive
    <3>2. local' = [local EXCEPT ![p] = t]
      BY <1>1, <2>3
    <3>3. t \in Process
      BY <1>1, <3>1 DEF Process, Steps, PassSteps
    <3>4. StateOK(t)
      BY <1>1, <3>1 DEF StateOK, Process, SubmitSteps, PlainSteps, BatchSteps
    <3> HIDE DEF t
    <3> QED BY <1>1, <3>2, <3>3, <3>4
  <2>4. ASSUME NEW e \in Active, Mined(e),
               local' = [local EXCEPT ![p].step = "write", ![p].env = e,
                                      ![p].epoch = chain[Nonce(e) + 1].epoch]
        PROVE  StateNext(p)
    <3> DEFINE t == [local[p] EXCEPT !.step = "write", !.env = e, !.epoch = chain[Nonce(e) + 1].epoch]
    <3>1. e \in Signed /\ IsBatch(e) /\ Nonce(e) < Latest /\ Nonce(e) \in Nat /\ Latest \in Nat
      BY <1>1, <2>2, <2>4, SignedRows, LatestIsUsed DEF Mined
    <3>2. Nonce(e) + 1 \in DOMAIN chain
      BY <1>1, <3>1 DEF NetworkOK, Latest
    <3>3. chain[Nonce(e) + 1].epoch \in 0 .. epoch
      BY <1>1, <3>2, MinedRows
    <3>4. local' = [local EXCEPT ![p] = t]
      BY <1>1, <2>4
    <3>5. t \in Process
      BY <1>1, <3>1, <3>3 DEF Process, Steps, PassSteps
    <3>6. StateOK(t)
      BY <1>1, <3>1 DEF StateOK, Process, SubmitSteps, PlainSteps, BatchSteps
    <3> HIDE DEF t
    <3> QED BY <1>1, <3>4, <3>5, <3>6
  <2> QED BY <1>12, <2>1, <2>3, <2>4 DEF ReadReceipts
<1> QED BY <1>2, <1>3, <1>4, <1>5, <1>6, <1>7, <1>8, <1>9, <1>10, <1>11, <1>12 DEF Pass

\* The steps of a send leave a process as its next step needs it.
LEMMA SendStates ==
    ASSUME NEW p \in Processes, Before(p), Send(p)
    PROVE  StateNext(p)
<1>1. /\ local \in [Processes -> Process] /\ local[p] \in Process /\ StateOK(local[p])
      /\ EnvelopesOK /\ JournalOK(db) /\ db \in Journals
  BY DEF Before, ProcessesOK, ProcessOK, JournalsOK
<1>n. NetworkOK
  BY DEF Before
<1> USE DEF StateNext
<1>2. CASE QuoteExpires(p) \/ NotInvoked(p)
  BY <1>2, EndState DEF QuoteExpires, NotInvoked
<1>3. CASE MarkReady(p)
  <2>1. "dispatch" \in Steps /\ Goto(p, "dispatch") /\ local[p].step \in {"check", "ready"}
    BY <1>3 DEF MarkReady, Steps, SendSteps
  <2>2. StateOK([local[p] EXCEPT !.step = "dispatch"])
    BY <1>1, <2>1 DEF StateOK, Process, SubmitSteps, PlainSteps, BatchSteps
  <2> QED BY <2>1, <2>2, GotoState
<1>4. CASE Dispatch(p)
  <2>1. "sending" \in Steps /\ Goto(p, "sending") /\ local[p].step = "dispatch"
    BY <1>4 DEF Dispatch, Steps, SendSteps, At
  <2>2. StateOK([local[p] EXCEPT !.step = "sending"])
    BY <1>1, <2>1 DEF StateOK, Process, SubmitSteps, PlainSteps, BatchSteps
  <2> QED BY <2>1, <2>2, GotoState
<1>5. CASE Invoke(p)
  <2>1. "sent" \in Steps /\ Goto(p, "sent") /\ local[p].step = "sending"
    BY <1>5 DEF Invoke, Steps, SendSteps, At
  <2>2. StateOK([local[p] EXCEPT !.step = "sent"])
    BY <1>1, <2>1 DEF StateOK, Process, SubmitSteps, PlainSteps, BatchSteps
  <2> QED BY <2>1, <2>2, GotoState
<1>6. ASSUME NEW e \in Signed, Settle(p, e) PROVE StateNext(p)
  <2>1. CASE local' = local
    BY <1>1, <2>1
  <2>2. CASE Ends(p)
    BY <2>2, EndState
  <2>3. ASSUME NEW step \in {"read", "begin"}, NEW next \in {local[p].next, "done"},
               local' = [local EXCEPT ![p] = [Idle EXCEPT !.step = step, !.next = next, !.op = local[p].op]]
        PROVE  StateNext(p)
    <3> DEFINE t == [Idle EXCEPT !.step = step, !.next = next, !.op = local[p].op]
    <3>1. t \in Process
      BY <1>1, <1>n, IdleState DEF Process, Steps, PassSteps
    <3>2. t.step = step /\ t.next = next /\ t.op = local[p].op
      BY IdleState, <1>1, <1>n DEF Process
    <3> HIDE DEF t
    <3>3. StateOK(t)
      BY <1>1, <3>2 DEF StateOK, SubmitSteps, PlainSteps, BatchSteps
    <3>4. local' = [local EXCEPT ![p] = t]
      BY <2>3 DEF t
    <3> QED BY <1>1, <3>1, <3>3, <3>4
  <2> QED BY <1>6, <2>1, <2>2, <2>3 DEF Settle
<1> QED BY <1>2, <1>3, <1>4, <1>5, <1>6 DEF Send

\* So does the way back to the allocation.
LEMMA StartOverState ==
    ASSUME NEW p \in Processes, Before(p), local[p].op \in Ops, StartOver(p)
    PROVE  StateNext(p) /\ local'[p].step = "allocate"
<1>1. local \in [Processes -> Process] /\ local[p] \in Process /\ EnvelopesOK /\ NetworkOK
  BY DEF Before, ProcessesOK
<1> DEFINE t == [Idle EXCEPT !.step = "allocate", !.op = local[p].op, !.epoch = local[p].epoch]
<1>2. t \in Process
  <2>1. local[p].epoch \in 0 .. epoch
    BY <1>1 DEF Process
  <2> QED BY <1>1, <2>1, IdleState
<1>3. t.step = "allocate" /\ t.next = "done" /\ t.op = local[p].op
  BY IdleState, <1>1 DEF Process
<1> HIDE DEF t
<1>4. StateOK(t)
  BY <1>3 DEF StateOK, SubmitSteps, PlainSteps, BatchSteps
<1>5. local' = [local EXCEPT ![p] = t]
  BY DEF StartOver, t
<1> QED BY <1>1, <1>2, <1>3, <1>4, <1>5 DEF StateNext

\* A plain operation takes up a nonce: its own, or that of another attempt.
LEMMA PlainState ==
    ASSUME NEW p \in Processes, Before(p), local[p].op \in PlainOps,
           NEW target \in PlainOps, NEW nonce \in Used, NEW kind \in {"submit", "replace", "cancel"},
           NEW t, t = [local[p] EXCEPT !.step = "plainSend", !.kind = kind, !.target = target, !.nonce = nonce],
           local' = [local EXCEPT ![p] = t]
    PROVE  StateNext(p)
<1>1. local \in [Processes -> Process] /\ local[p] \in Process /\ StateOK(local[p])
  BY DEF Before, ProcessesOK, ProcessOK
<1>2. t \in Process
  BY <1>1 DEF Process, Steps, PlainSteps, Ops
<1>3. /\ t.step = "plainSend" /\ t.op = local[p].op /\ t.target = target /\ t.next = local[p].next
  BY <1>1 DEF Process
<1>4. StateOK(t)
  BY <1>1, <1>3 DEF StateOK, SubmitSteps, PlainSteps, BatchSteps
<1> QED BY <1>1, <1>2, <1>4 DEF StateNext

\* So do the steps of a submission.
LEMMA SubmitStates ==
    ASSUME NEW p \in Processes, Before(p), Submit(p)
    PROVE  StateNext(p)
<1>1. /\ local \in [Processes -> Process] /\ local[p] \in Process /\ StateOK(local[p])
      /\ EnvelopesOK /\ NetworkOK /\ JournalOK(db) /\ db \in Journals
  BY DEF Before, ProcessesOK, ProcessOK, JournalsOK
<1> USE DEF StateNext
<1>2. CASE NotAdmitted(p) \/ NotAllocated(p) \/ PrepareFails(p) \/ Prevent(p)
  BY <1>2, EndState DEF NotAdmitted, NotAllocated, PrepareFails, Prevent
<1>3. ASSUME Goto(p, "allocate"), local[p].step = "admit" PROVE StateNext(p)
  <2>1. "allocate" \in Steps
    BY DEF Steps, SubmitSteps
  <2>2. StateOK([local[p] EXCEPT !.step = "allocate"])
    BY <1>1, <1>3 DEF StateOK, Process, SubmitSteps, PlainSteps, BatchSteps
  <2> QED BY <1>3, <2>1, <2>2, GotoState
<1>4. CASE AdmitFresh(p) \/ AdmitConfirmed(p) \/ AdmitUnknown(p)
  BY <1>3, <1>4, EndState DEF AdmitFresh, AdmitConfirmed, AdmitUnknown, At
<1>5. CASE AdmitSubmitted(p)
  <2>1. CASE Ends(p)
    BY <2>1, EndState
  <2>2. CASE /\ local[p].op \in PlainOps
             /\ local' = [local EXCEPT ![p].step = "plainSend", ![p].kind = "replace",
                                       ![p].target = local[p].op, ![p].nonce = Attempt(p).nonce]
    <3>1. PICK nonce : nonce = Attempt(p).nonce
      OBVIOUS
    <3>2. PICK op : op = local[p].op
      OBVIOUS
    <3>3. nonce \in Used /\ op \in PlainOps /\ local[p].op \in PlainOps
      BY <1>1, <2>2, <3>1, <3>2 DEF Journals, Attempts, Attempt, Ops
    <3>4. PICK t : t = [local[p] EXCEPT !.step = "plainSend", !.kind = "replace",
                                        !.target = op, !.nonce = nonce]
      OBVIOUS
    <3>5. local' = [local EXCEPT ![p] = t]
      BY <1>1, <2>2, <3>1, <3>2, <3>4
    <3> QED BY <3>3, <3>4, <3>5, PlainState
  <2> QED BY <1>5, <2>1, <2>2 DEF AdmitSubmitted
<1>6. CASE CancelStale(p)
  <2>1. PICK o \in Ops :
            /\ db.attempts[o].status = "submitted"
            /\ local' = [local EXCEPT ![p].step = "plainSend", ![p].kind = "cancel",
                                      ![p].target = o, ![p].nonce = Latest]
    BY <1>6 DEF CancelStale
  <2>2. Unresolved(db) = {}
    BY <1>6 DEF Before, HolderOK, Holds, CancelStale, At, Owns
  <2>3. o \in PlainOps
    <3>1. db.attempts[o].env \in {0} \cup Signed /\ db.attempts[o].env # 0
      BY <1>1, <2>1 DEF JournalOK, AttemptsOK, Journals, Attempts
    <3>2. o \in BatchOps => db.attempts[o].env \in Unresolved(db)
      BY <1>1, <2>1, <3>1, SignedRows DEF JournalOK, AttemptsOK, Unresolved
    <3> QED BY <2>2, <3>2 DEF Ops
  <2>4. PICK t : t = [local[p] EXCEPT !.step = "plainSend", !.kind = "cancel", !.target = o, !.nonce = Latest]
    OBVIOUS
  <2>5. local' = [local EXCEPT ![p] = t]
    BY <1>1, <2>1, <2>4
  <2>6. local[p].op \in PlainOps /\ Latest \in Used
    BY <1>1, <1>6, LatestIsUsed DEF CancelStale
  <2> QED BY <2>3, <2>4, <2>5, <2>6, PlainState
<1>7. CASE Allocate(p)
  <2>1. Pending \in Used /\ local[p].op \in Ops
    BY <1>1, <1>7, LatestIsUsed DEF Allocate, At, StateOK, SubmitSteps
  <2>2. CASE local[p].op \in BatchOps
    <3> DEFINE t == [local[p] EXCEPT !.nonce = Pending, !.step = "reserve", !.target = NoOp]
    <3>1. local' = [local EXCEPT ![p] = t]
      BY <1>1, <1>7, <2>2 DEF Allocate
    <3>2. t \in Process
      BY <1>1, <2>1 DEF Process, Steps, SubmitSteps
    <3>3. StateOK(t)
      BY <1>1, <2>1, <2>2 DEF StateOK, Process, SubmitSteps, PlainSteps, BatchSteps
    <3> HIDE DEF t
    <3> QED BY <1>1, <3>1, <3>2, <3>3
  <2>3. CASE local[p].op \notin BatchOps
    <3> DEFINE t == [local[p] EXCEPT !.nonce = Pending, !.step = "plainSend", !.target = local[p].op]
    <3>1. local' = [local EXCEPT ![p] = t] /\ local[p].op \in PlainOps
      BY <1>1, <1>7, <2>1, <2>3 DEF Allocate, Ops
    <3>2. t \in Process
      BY <1>1, <2>1 DEF Process, Steps, PlainSteps
    <3>3. StateOK(t)
      BY <1>1, <2>1, <3>1 DEF StateOK, Process, SubmitSteps, PlainSteps, BatchSteps
    <3> HIDE DEF t
    <3> QED BY <1>1, <3>1, <3>2, <3>3
  <2> QED BY <2>2, <2>3
<1>8. CASE Reserve(p)
  <2>1. "sign" \in Steps /\ Goto(p, "sign") /\ local[p].step = "reserve"
    BY <1>8 DEF Reserve, Steps, SubmitSteps, At
  <2>2. StateOK([local[p] EXCEPT !.step = "sign"])
    BY <1>1, <2>1 DEF StateOK, Process, SubmitSteps, PlainSteps, BatchSteps
  <2> QED BY <2>1, <2>2, GotoState
<1>9. CASE Persist(p)
  <2>1. PICK r \in db.reserved :
            /\ r.original = 0 /\ r.env # 0
            /\ local' = [local EXCEPT ![p].step = "check", ![p].env = r.env, ![p].nonce = 0]
    BY <1>9 DEF Persist
  <2>2. r.env \in Signed /\ IsBatch(r.env)
    BY <1>1, <2>1, TransferKeeps DEF IsBatch
  <2> DEFINE t == [local[p] EXCEPT !.step = "check", !.env = r.env, !.nonce = 0]
  <2>3. local' = [local EXCEPT ![p] = t] /\ local[p].step = "sign"
    BY <1>1, <1>9, <2>1 DEF Persist, At
  <2>4. t \in Process
    BY <1>1, <2>2, IdleState DEF Process, Steps, SubmitSteps
  <2>5. StateOK(t)
    BY <1>1, <2>2, <2>3 DEF StateOK, Process, SubmitSteps, PlainSteps, BatchSteps
  <2> HIDE DEF t
  <2> QED BY <1>1, <2>3, <2>4, <2>5
<1> QED BY <1>2, <1>4, <1>5, <1>6, <1>7, <1>8, <1>9 DEF Submit

\* A plain transaction ends, starts over, or waits for its receipt.
LEMMA PlainStates ==
    ASSUME NEW p \in Processes, Before(p),
           \/ PlainUnsent(p) \/ PlainFails(p) \/ PlainAccepted(p) \/ PlainConfirmed(p)
           \/ PlainUnconfirmed(p)
    PROVE  StateNext(p)
<1>1. /\ local \in [Processes -> Process] /\ local[p] \in Process /\ StateOK(local[p])
      /\ local[p].step \in PlainSteps /\ local[p].op \in Ops
  BY DEF Before, ProcessesOK, ProcessOK, StateOK, PlainUnsent, PlainFails, PlainAccepted,
         PlainConfirmed, PlainUnconfirmed, At, PlainSteps, Ops
<1>2. CASE Ends(p)
  BY <1>2, EndState
<1>3. CASE StartOver(p)
  BY <1>1, <1>3, StartOverState
<1>4. CASE Goto(p, "plainConfirm") /\ At(p, "plainSent")
  <2>1. "plainConfirm" \in Steps
    BY DEF Steps, PlainSteps
  <2>2. StateOK([local[p] EXCEPT !.step = "plainConfirm"])
    BY <1>1, <1>4 DEF At, StateOK, Process, SubmitSteps, PlainSteps, BatchSteps
  <2> QED BY <1>4, <2>1, <2>2, GotoState
<1> QED BY <1>2, <1>3, <1>4
        DEF PlainUnsent, PlainFails, PlainAccepted, PlainConfirmed, PlainUnconfirmed, GivesUp

\* A process that looks goes on being idle.
LEMMA LookState ==
    ASSUME NEW p \in Processes, Before(p), NEW look \in {"none", "open", "fenced"}, Looked(p, look)
    PROVE  /\ local' = [local EXCEPT ![p] = local'[p]]
           /\ local'[p] \in Process /\ StateOK(local'[p]) /\ local'[p].step = local[p].step
<1>1. local \in [Processes -> Process] /\ local[p] \in Process /\ StateOK(local[p])
  BY DEF Before, ProcessesOK, ProcessOK
<1> DEFINE t == [local[p] EXCEPT !.look = look]
<1>2. local' = [local EXCEPT ![p] = t]
  BY <1>1 DEF Looked
<1>3. /\ t \in Process
      /\ t.step = local[p].step /\ t.op = local[p].op /\ t.next = local[p].next
      /\ t.env = local[p].env /\ t.target = local[p].target
  BY <1>1 DEF Process
<1> HIDE DEF t
<1>4. StateOK(t)
  BY <1>1, <1>3 DEF StateOK
<1> QED BY <1>1, <1>2, <1>3, <1>4

\* A process that wins the lease begins with a pass.
LEMMA AcquireState ==
    ASSUME NEW p \in Processes, Before(p), NEW op \in Ops \cup {NoOp}, Acquire(p, op)
    PROVE  /\ local' = [local EXCEPT ![p] = local'[p]]
           /\ local'[p] \in Process /\ StateOK(local'[p]) /\ local'[p].step = "begin"
<1>1. local \in [Processes -> Process] /\ EnvelopesOK /\ NetworkOK
  BY DEF Before, ProcessesOK
<1>2. PICK next : next = IF op = NoOp THEN "done" ELSE "admit"
  OBVIOUS
<1> DEFINE t == [Idle EXCEPT !.step = "begin", !.op = op, !.next = next]
<1>3. local' = [local EXCEPT ![p] = t]
  BY <1>2 DEF Acquire
<1>4. t \in Process
  <2>1. next \in {"done", "admit"} /\ "begin" \in Steps
    BY <1>2 DEF Steps, PassSteps
  <2>2. Idle \in Process
    BY <1>1, IdleState
  <2> QED BY <2>1, <2>2 DEF Process
<1>5. t.step = "begin" /\ t.next = next /\ t.op = op
  BY <1>1, IdleState DEF Process
<1> HIDE DEF t
<1>6. StateOK(t)
  BY <1>2, <1>5, NamesAssumption DEF StateOK, SubmitSteps, PlainSteps, BatchSteps
<1> QED BY <1>1, <1>3, <1>4, <1>5, <1>6

-----------------------------------------------------------------------------
(* What was signed, and the chain. *)

\* The nonce of a reservation or of a plain transaction is in use or next.
LEMMA SignedOK ==
    ASSUME EnvelopesOK, NEW op \in Ops, NEW nonce \in Used, NEW original \in {0} \cup Signed,
           Len(envelopes) + 1 \in Envelopes,
           original # 0 => Op(original) = op /\ Nonce(original) = nonce,
           envelopes' = Append(envelopes, [op |-> op, nonce |-> nonce, original |-> original])
    PROVE  EnvelopesOK'
<1> DEFINE row == [op |-> op, nonce |-> nonce, original |-> original]
           e == Len(envelopes) + 1
<1>1. Len(envelopes) \in Nat /\ MaxEnvelopes \in Nat /\ e <= MaxEnvelopes /\ nonce \in Nat /\ nonce < e
  BY ConstantsAssumption DEF EnvelopesOK, Envelopes, Used
<1>2. Signed \subseteq Envelopes
  BY SignedRows
<1>3. row \in EnvelopeRow
  BY <1>1, <1>2 DEF EnvelopeRow, Nonces
<1>4. row.op = op /\ row.nonce = nonce /\ row.original = original
  OBVIOUS
<1> HIDE DEF row
<1>5. /\ Signed' = Signed \cup {e} /\ e \notin Signed
      /\ \A f \in Signed : envelopes'[f] = envelopes[f]
      /\ envelopes'[e] = row /\ Signed = 1 .. Len(envelopes) /\ Len(envelopes)' = e
  BY <1>3, SignatureIsLast DEF row
<1>6. envelopes' \in Seq(EnvelopeRow)
  BY <1>3 DEF EnvelopesOK, row
<1>7. ASSUME NEW f \in Signed'
      PROVE  /\ envelopes'[f].nonce < f
             /\ envelopes'[f].original # 0 =>
                   /\ envelopes'[f].original \in Signed' /\ envelopes'[f].original < f
                   /\ envelopes'[envelopes'[f].original].op = envelopes'[f].op
                   /\ envelopes'[envelopes'[f].original].nonce = envelopes'[f].nonce
  <2>1. PICK o : o = envelopes'[f].original
    OBVIOUS
  <2>2. CASE f \in Signed
    <3>1. envelopes'[f] = envelopes[f]
      BY <1>5, <2>2
    <3>2. /\ envelopes[f].nonce < f
          /\ o # 0 =>
                /\ o \in Signed /\ o < f
                /\ envelopes[o].op = envelopes[f].op /\ envelopes[o].nonce = envelopes[f].nonce
      BY <2>1, <2>2, <3>1 DEF EnvelopesOK, Op, Nonce
    <3>3. o \in Signed => envelopes'[o] = envelopes[o]
      BY <1>5
    <3> QED BY <1>5, <2>1, <3>1, <3>2, <3>3
  <2>3. CASE f = e
    <3>1. envelopes'[f] = row /\ o = original
      BY <1>4, <1>5, <2>1, <2>3
    <3>2. o # 0 => o \in Signed /\ envelopes[o].op = op /\ envelopes[o].nonce = nonce
      BY <3>1 DEF Op, Nonce
    <3>3. o \in Signed => o < e
      BY <1>1, <1>5
    <3>4. o \in Signed => envelopes'[o] = envelopes[o]
      BY <1>5
    <3> QED BY <1>1, <1>4, <1>5, <2>1, <2>3, <3>1, <3>2, <3>3, <3>4
  <2> QED BY <1>5, <2>2, <2>3
<1>8. Len(envelopes)' <= MaxEnvelopes
  BY <1>1, <1>5
<1> QED BY <1>6, <1>7, <1>8 DEF EnvelopesOK, Op, Nonce

\* The key signs what a reservation asks for.
LEMMA SignSigned ==
    ASSUME Inv, NEW r \in db.reserved, Sign(r)
    PROVE  EnvelopesOK' /\ (r.original # 0 => r.original \in Signed)
<1>1. EnvelopesOK /\ JournalOK(db) /\ r \in Reservation /\ r.nonce \in Used
  BY DEF Inv, TypeInv, JournalOK, RowsOK, Journals
<1>2. r.original # 0 => r.original \in Signed /\ Op(r.original) = r.op /\ Nonce(r.original) = r.nonce
  BY <1>1 DEF JournalOK, ReservationOK
<1>3. r.op \in Ops
  BY <1>1 DEF Reservation, Ops
<1>4. PICK op, nonce, original : op = r.op /\ nonce = r.nonce /\ original = r.original
  OBVIOUS
<1>5. envelopes' = Append(envelopes, [op |-> op, nonce |-> nonce, original |-> original])
  BY <1>4 DEF Sign
<1>6. Len(envelopes) + 1 \in Envelopes
  BY DEF Sign
<1>7. EnvelopesOK'
  BY <1>1, <1>2, <1>3, <1>4, <1>5, <1>6, SignedOK
<1> QED BY <1>2, <1>7

\* A plain operation signs with its own nonce.
LEMMA PlainSigned ==
    ASSUME NEW p \in Processes, Before(p), PlainSend(p)
    PROVE  /\ EnvelopesOK'
           /\ local[p].target \in PlainOps /\ local[p].nonce \in Used
<1>1. EnvelopesOK /\ local[p] \in Process /\ StateOK(local[p]) /\ local[p].step = "plainSend"
  BY DEF Before, ProcessOK, PlainSend, At
<1>2. local[p].target \in PlainOps /\ local[p].nonce \in Used
  BY <1>1 DEF StateOK, PlainSteps, Process
<1>3. PICK op, nonce : op = local[p].target /\ nonce = local[p].nonce
  OBVIOUS
<1>4. envelopes' = Append(envelopes, [op |-> op, nonce |-> nonce, original |-> 0])
  BY <1>3 DEF PlainSend
<1>5. Len(envelopes) + 1 \in Envelopes /\ op \in Ops /\ nonce \in Used
  BY <1>2, <1>3 DEF PlainSend, Ops
<1>6. EnvelopesOK'
  <2>1. PICK original : original = 0
    OBVIOUS
  <2> QED BY <1>1, <1>4, <1>5, <2>1, SignedOK
<1> QED BY <1>2, <1>6

\* Faults are counted, and a lease is left or kept.
Counted == faults' = faults \/ (faults < MaxFaults /\ faults' = faults + 1)
LeaseMoves(p) ==
    \/ UNCHANGED <<lease, expired>>
    \/ lease' = p /\ expired' = FALSE
    \/ lease' = (IF lease = p THEN Free ELSE lease) /\ expired' = (expired /\ lease # p)

\* What the steps of a process leave alone.
LEMMA PassFrame ==
    ASSUME NEW p \in Processes, Pass(p)
    PROVE  /\ UNCHANGED <<envelopes, sent, pool, chain, final, epoch, outstanding>>
           /\ Counted /\ LeaseMoves(p)
BY DEF Pass, ResumeAlternative, BeginPass, ReadReceipts, RetirePrevented, WriteReceipt, Replay,
       PlanAlternative, PlanUnavailable, ReserveAlternative, TransferAlternative, Archive,
       PassBlocked, Ends, Goto, signing, network, leasing, Counted, LeaseMoves

\* What the steps of a submission leave alone.
LEMMA SubmitFrame ==
    ASSUME NEW p \in Processes, Submit(p)
    PROVE  /\ UNCHANGED <<envelopes, sent, pool, chain, final, epoch, outstanding>>
           /\ Counted /\ LeaseMoves(p)
BY DEF Submit, AdmitFresh, AdmitConfirmed, AdmitUnknown, AdmitSubmitted, NotAdmitted, Allocate,
       CancelStale, NotAllocated, PrepareFails, Reserve, Persist, Prevent,
       Ends, Goto, signing, network, leasing, Fault, Counted, LeaseMoves

\* What the steps of a send leave alone.
LEMMA SendFrame ==
    ASSUME NEW p \in Processes, Send(p)
    PROVE  /\ UNCHANGED <<envelopes, chain, final, epoch>>
           /\ Invoke(p) \/ UNCHANGED <<sent, pool>>
           /\ Counted /\ LeaseMoves(p)
BY DEF Send, MarkReady, QuoteExpires, Dispatch, Invoke, NotInvoked, Settle,
       Ends, Goto, signing, network, leasing, Fault, Counted, LeaseMoves

\* What the steps of a plain transaction leave alone.
LEMMA PlainFrame ==
    ASSUME NEW p \in Processes, Plain(p)
    PROVE  /\ UNCHANGED <<chain, final, epoch>>
           /\ PlainSend(p) \/ UNCHANGED <<envelopes, sent, pool>>
           /\ Counted /\ LeaseMoves(p)
BY DEF Plain, PlainSend, PlainUnsent, PlainFails, PlainAccepted, PlainConfirmed, PlainUnconfirmed,
       GivesUp, StartOver, Ends, Goto, signing, network, leasing, Fault, Counted, LeaseMoves

\* The other things that happen to a process.
Others(p) ==
    \/ \E op \in Ops \cup {NoOp} : Acquire(p, op)
    \/ Look(p) \/ LooksAgain(p) \/ PassFails(p) \/ KeyFails(p) \/ RenewLease(p) \/ LeaseLost(p)

\* What the other steps of a process leave alone.
LEMMA OtherFrame ==
    ASSUME NEW p \in Processes, Others(p)
    PROVE  /\ UNCHANGED <<envelopes, sent, pool, chain, final, epoch, outstanding>>
           /\ Counted /\ LeaseMoves(p)
BY DEF Others, Look, LooksAgain, Looked, Acquire, PassFails, KeyFails, RenewLease, LeaseLost,
       Ends, Goto, signing, network, leasing, Fault, Counted, LeaseMoves

\* A step is one of a process, of the key, of the network or of the host.
LEMMA StepCases ==
    ASSUME [Next]_vars
    PROVE  \/ \E p \in Processes :
                 Pass(p) \/ Send(p) \/ Submit(p) \/ Plain(p) \/ Others(p) \/ Crash(p)
           \/ \E r \in db.reserved : Sign(r)
           \/ \E e \in Signed : Mine(e) \/ Drop(e)
           \/ Finalize \/ Reorganise \/ ExpireLease \/ PowerLoss \/ Flush \/ UNCHANGED vars
BY DEF Next, Step, Others

\* The environment signs nothing.
LEMMA WorldFrame ==
    ASSUME \/ \E p \in Processes : Crash(p)
           \/ \E e \in Signed : Mine(e) \/ Drop(e)
           \/ Finalize \/ Reorganise \/ ExpireLease \/ PowerLoss \/ Flush \/ UNCHANGED vars
    PROVE  UNCHANGED <<envelopes, sent>> /\ Counted
BY DEF Crash, Mine, Drop, Finalize, Reorganise, ExpireLease, PowerLoss, Flush, vars,
       signing, network, Fault, Counted

\* Whatever is signed is well formed.
LEMMA EnvelopesStep ==
    ASSUME Inv, [Next]_vars
    PROVE  EnvelopesOK'
<1>1. EnvelopesOK
  BY DEF Inv, TypeInv
<1>2. CASE UNCHANGED envelopes
  BY <1>1, <1>2 DEF EnvelopesOK, Signed, Op, Nonce
<1>3. ASSUME NEW p \in Processes, PlainSend(p) PROVE EnvelopesOK'
  BY <1>3, InvBefore, PlainSigned
<1>4. ASSUME NEW r \in db.reserved, Sign(r) PROVE EnvelopesOK'
  BY <1>4, SignSigned
<1>5. ASSUME NEW p \in Processes, Pass(p) \/ Send(p) \/ Submit(p) \/ Plain(p) \/ Others(p)
      PROVE  EnvelopesOK'
  BY <1>2, <1>3, <1>5, PassFrame, SendFrame, SubmitFrame, PlainFrame, OtherFrame
<1> QED BY <1>2, <1>4, <1>5, StepCases, WorldFrame

\* What is signed stays, and nothing else is forgotten.
Grows ==
    /\ Signed \subseteq Signed' /\ Used \subseteq Used' /\ Len(envelopes) <= Len(envelopes)'
    /\ \A e \in Signed : envelopes'[e] = envelopes[e]

\* No step forgets a signature or a nonce that was used.
LEMMA SignaturesStay ==
    ASSUME Inv, [Next]_vars
    PROVE  Grows
<1>1. EnvelopesOK
  BY DEF Inv, TypeInv
<1>2. CASE UNCHANGED envelopes
  BY <1>1, <1>2 DEF EnvelopesOK, Grows, Signed, Used
<1>3. ASSUME NEW row, envelopes' = Append(envelopes, row) PROVE Grows
  BY <1>1, <1>3 DEF EnvelopesOK, Grows, Signed, Used
<1>4. ASSUME NEW p \in Processes, PlainSend(p) PROVE Grows
  BY <1>3, <1>4 DEF PlainSend
<1>5. ASSUME NEW r \in db.reserved, Sign(r) PROVE Grows
  BY <1>3, <1>5 DEF Sign
<1>6. ASSUME NEW p \in Processes, Pass(p) \/ Send(p) \/ Submit(p) \/ Plain(p) \/ Others(p)
      PROVE  Grows
  BY <1>2, <1>4, <1>6, PassFrame, SendFrame, SubmitFrame, PlainFrame, OtherFrame
<1> QED BY <1>2, <1>5, <1>6, StepCases, WorldFrame

\* The count of faults and the row of the lease keep their types.
Row == lease \in Processes \cup {Free, Orphan} /\ expired \in BOOLEAN

\* The row of the lease keeps its types when the lease moves.
LEMMA RowMoves ==
    ASSUME Row, NEW p \in Processes, LeaseMoves(p)
    PROVE  Row'
BY DEF Row, LeaseMoves

\* The chain stays while something is sent or not.
LEMMA NetworkKeeps ==
    ASSUME NetworkOK, Grows, UNCHANGED <<chain, final, epoch>>, Counted, Row',
           sent \subseteq sent', sent' \subseteq Signed', pool' \subseteq sent'
    PROVE  NetworkOK'
<1>1. \A n \in DOMAIN chain : chain[n].env \in Signed /\ Nonce(chain[n].env) = n - 1
  BY MinedRows
<1>2. \A n \in DOMAIN chain : Nonce(chain[n].env)' = n - 1
  BY <1>1 DEF Grows, Nonce
<1>3. chain' \in Seq([env : sent', epoch : 0 .. epoch'])
  <2>1. PICK S, T : S = [env : sent, epoch : 0 .. epoch] /\ T = [env : sent', epoch : 0 .. epoch]
    OBVIOUS
  <2>2. S \subseteq T
    BY <2>1
  <2>3. chain \in Seq(S)
    BY <2>1 DEF NetworkOK
  <2>4. chain \in Seq(T)
    BY <2>2, <2>3, SeqMonotonic
  <2> QED BY <2>1, <2>4
<1>4. faults' \in 0 .. MaxFaults /\ epoch' \in Nat /\ epoch' <= faults' /\ final' \in 0 .. Latest'
  BY ConstantsAssumption DEF NetworkOK, Counted, Latest
<1> QED BY <1>2, <1>3, <1>4 DEF NetworkOK, Row

\* A block.
LEMMA MineKeeps ==
    ASSUME EnvelopesOK, NetworkOK, NEW e \in Signed, Mine(e)
    PROVE  NetworkOK' /\ Latest' = Latest + 1 /\ \A f \in Signed : Final(f) => Final(f)'
<1>1. /\ chain' = Append(chain, [env |-> e, epoch |-> epoch]) /\ e \in sent /\ Nonce(e) = Latest
      /\ pool' \subseteq pool
      /\ UNCHANGED <<envelopes, sent, final, epoch, lease, expired, faults>>
  BY DEF Mine, signing, leasing
<1> DEFINE Block == [env : sent, epoch : 0 .. epoch]
<1>2. [env |-> e, epoch |-> epoch] \in Block /\ chain \in Seq(Block)
  BY <1>1 DEF NetworkOK
<1>3. PICK block \in Block : block = [env |-> e, epoch |-> epoch]
  BY <1>2
<1> HIDE DEF Block
<1>4. /\ chain' \in Seq(Block) /\ Latest' = Latest + 1 /\ Latest \in Nat
      /\ DOMAIN chain = 1 .. Latest /\ DOMAIN chain' = 1 .. Latest + 1
      /\ \A n \in DOMAIN chain : chain'[n] = chain[n]
      /\ chain'[Latest + 1] = block
  BY <1>1, <1>2, <1>3 DEF Latest
<1>5. chain' \in Seq([env : sent', epoch : 0 .. epoch'])
  BY <1>1, <1>4 DEF Block
<1>6. \A n \in DOMAIN chain' : Nonce(chain'[n].env) = n - 1
  BY <1>1, <1>3, <1>4 DEF NetworkOK
<1>7. \A n \in DOMAIN chain' : envelopes'[chain'[n].env].nonce = n - 1
  BY <1>1, <1>6 DEF Nonce
<1>8. \A f \in Signed : Final(f) => Final(f)'
  BY <1>1, <1>4, SignedRows DEF Final, NetworkOK, Nonce
<1> QED BY <1>1, <1>4, <1>5, <1>7, <1>8 DEF NetworkOK, Signed, Nonce

\* A reorganisation.
LEMMA ReorganiseKeeps ==
    ASSUME EnvelopesOK, NetworkOK, Reorganise
    PROVE  NetworkOK'
<1>1. /\ chain' = SubSeq(chain, 1, final) /\ epoch' = epoch + 1 /\ faults' = faults + 1
      /\ faults < MaxFaults /\ final < Latest
      /\ UNCHANGED <<envelopes, sent, final, lease, expired>>
  BY DEF Reorganise, Fault, signing, leasing
<1>2. /\ chain \in Seq([env : sent, epoch : 0 .. epoch]) /\ final \in Nat
      /\ epoch \in Nat /\ Latest \in Nat /\ faults \in Nat
  BY DEF NetworkOK, Latest
<1> DEFINE Block == [env : sent, epoch : 0 .. epoch']
<1>3. \A n \in DOMAIN chain : chain[n] \in Block
  <2>1. PICK S : S = [env : sent, epoch : 0 .. epoch]
    OBVIOUS
  <2>2. chain \in Seq(S)
    BY <1>2, <2>1
  <2>3. \A n \in DOMAIN chain : chain[n] \in S
    BY <2>2
  <2>4. S \subseteq Block
    BY <1>1, <1>2, <2>1
  <2> QED BY <2>3, <2>4
<1> HIDE DEF Block
<1>4. /\ DOMAIN chain = 1 .. Latest /\ DOMAIN chain' = 1 .. final /\ Len(chain') = final
      /\ \A n \in 1 .. final : chain'[n] = chain[n] /\ n \in DOMAIN chain
  BY <1>1, <1>2 DEF Latest
<1>5. chain' \in Seq(Block)
  <2>1. \A n \in 1 .. final : chain[n] \in Block
    BY <1>3, <1>4
  <2> QED BY <1>1, <1>2, <2>1, SubSeqProperties
<1>6. \A n \in DOMAIN chain' : envelopes'[chain'[n].env].nonce = n - 1
  BY <1>1, <1>4 DEF NetworkOK, Nonce
<1>7. pool' \subseteq sent
  <2>1. {chain[n].env : n \in final + 1 .. Latest} \subseteq sent
    BY <1>2, <1>4, MinedRows
  <2> QED BY <2>1 DEF Reorganise, NetworkOK
<1>8. faults' \in 0 .. MaxFaults /\ epoch' \in Nat /\ epoch' <= faults' /\ final' \in 0 .. Latest'
  BY <1>1, <1>2, <1>4, ConstantsAssumption DEF NetworkOK, Latest
<1> QED BY <1>1, <1>5, <1>6, <1>7, <1>8 DEF NetworkOK, Block, Signed, Nonce

\* A plain transaction is signed and sent at once.
LEMMA PlainNetwork ==
    ASSUME NEW p \in Processes, Before(p), PlainSend(p), Grows
    PROVE  /\ sent' = sent \cup {Len(envelopes) + 1} /\ Len(envelopes) + 1 \in Signed'
           /\ sent' \subseteq Signed' /\ pool' \subseteq sent' /\ sent \subseteq sent'
<1>1. EnvelopesOK /\ NetworkOK
  BY DEF Before
<1>2. PICK e : e = Len(envelopes) + 1
  OBVIOUS
<1>3. /\ sent' = sent \cup {e}
      /\ pool' = pool \/ pool' = {f \in pool : Nonce(f) # local[p].nonce} \cup {e}
  BY <1>2 DEF PlainSend
<1>4. e \in Signed'
  BY <1>1, <1>2 DEF PlainSend, EnvelopesOK, Signed
<1> QED BY <1>1, <1>2, <1>3, <1>4 DEF NetworkOK, Grows

\* The envelope that is invoked is one that was signed.
LEMMA InvokeNetwork ==
    ASSUME NEW p \in Processes, Before(p), Invoke(p)
    PROVE  /\ sent' = sent \cup {local[p].env} /\ local[p].env \in Signed
           /\ sent' \subseteq Signed /\ pool' \subseteq sent' /\ sent \subseteq sent'
<1>1. NetworkOK /\ local[p].env \in Signed
  BY DEF Before, ProcessOK, StateOK, Invoke, At, BatchSteps
<1>2. PICK e : e = local[p].env
  OBVIOUS
<1>3. sent' = sent \cup {e} /\ (pool' = pool \/ pool' = {f \in pool : Nonce(f) # Nonce(e)} \cup {e})
  BY <1>2 DEF Invoke, Accepting
<1> QED BY <1>1, <1>2, <1>3 DEF NetworkOK

\* Every step keeps the network and the chain well formed.
LEMMA NetworkStep ==
    ASSUME Inv, [Next]_vars
    PROVE  NetworkOK'
<1>1. EnvelopesOK /\ NetworkOK /\ Row /\ Grows /\ sent \subseteq Signed /\ Signed \subseteq Signed'
      /\ pool \subseteq sent
  BY SignaturesStay DEF Inv, TypeInv, NetworkOK, Row, Grows
<1>2. ASSUME UNCHANGED <<chain, final, epoch, sent>>, pool' \subseteq pool, Counted, Row'
      PROVE  NetworkOK'
  BY <1>1, <1>2, NetworkKeeps
<1>3. ASSUME NEW p \in Processes, Pass(p) \/ Submit(p) \/ Others(p) PROVE NetworkOK'
  BY <1>1, <1>2, <1>3, PassFrame, SubmitFrame, OtherFrame, RowMoves
<1>4. ASSUME NEW p \in Processes, Send(p) PROVE NetworkOK'
  <2>1. CASE Invoke(p)
    <3>1. sent' \subseteq Signed' /\ pool' \subseteq sent' /\ sent \subseteq sent'
      BY <1>1, <2>1, InvokeNetwork, InvBefore
    <3> QED BY <1>1, <1>4, <3>1, SendFrame, RowMoves, NetworkKeeps
  <2>2. CASE ~Invoke(p)
    BY <1>1, <1>2, <1>4, <2>2, SendFrame, RowMoves
  <2> QED BY <2>1, <2>2
<1>5. ASSUME NEW p \in Processes, Plain(p) PROVE NetworkOK'
  <2>1. CASE PlainSend(p)
    <3>1. sent' \subseteq Signed' /\ pool' \subseteq sent' /\ sent \subseteq sent'
      BY <1>1, <2>1, PlainNetwork, InvBefore
    <3> QED BY <1>1, <1>5, <3>1, PlainFrame, RowMoves, NetworkKeeps
  <2>2. CASE ~PlainSend(p)
    BY <1>1, <1>2, <1>5, <2>2, PlainFrame, RowMoves
  <2> QED BY <2>1, <2>2
<1>6. ASSUME NEW p \in Processes, Crash(p) PROVE NetworkOK'
  <2>1. Row'
    BY <1>1, <1>6 DEF Row, Crash
  <2> QED BY <1>2, <1>6, <2>1, WorldFrame DEF Crash, network
<1>7. ASSUME NEW r \in db.reserved, Sign(r) PROVE NetworkOK'
  <2>1. Row' /\ Counted
    BY <1>1, <1>7 DEF Row, Counted, Sign, leasing
  <2> QED BY <1>2, <1>7, <2>1 DEF Sign, network
<1>8. ASSUME NEW e \in Signed, Mine(e) \/ Drop(e) PROVE NetworkOK'
  <2>1. CASE Mine(e)
    BY <1>1, <2>1, MineKeeps
  <2>2. CASE Drop(e)
    <3>1. Row' /\ Counted /\ UNCHANGED <<chain, final, epoch, sent>> /\ pool' \subseteq pool
      BY <1>1, <2>2 DEF Row, Counted, Drop, Fault, leasing
    <3> QED BY <1>2, <3>1
  <2> QED BY <1>8, <2>1, <2>2
<1>9. CASE Finalize
  <2>1. /\ final' = Latest /\ UNCHANGED <<envelopes, sent, pool, chain, epoch, lease, expired, faults>>
        /\ Latest \in Nat
    BY <1>1, <1>9 DEF Finalize, signing, leasing, NetworkOK, Latest
  <2>2. \A n \in DOMAIN chain' : envelopes'[chain'[n].env].nonce = n - 1
    BY <1>1, <2>1 DEF NetworkOK, Nonce
  <2>3. chain' \in Seq([env : sent', epoch : 0 .. epoch']) /\ final' \in 0 .. Latest'
    BY <1>1, <2>1 DEF NetworkOK, Latest
  <2> QED BY <1>1, <2>1, <2>2, <2>3 DEF NetworkOK, Signed, Nonce
<1>10. CASE Reorganise
  BY <1>1, <1>10, ReorganiseKeeps
<1>11. CASE ExpireLease \/ PowerLoss \/ Flush \/ UNCHANGED vars
  <2>1. Row' /\ Counted /\ UNCHANGED <<chain, final, epoch, sent, pool>>
    BY <1>1, <1>11 DEF Row, Counted, ExpireLease, PowerLoss, Flush, vars, Fault, leasing, network
  <2> QED BY <1>2, <2>1
<1> QED BY <1>3, <1>4, <1>5, <1>6, <1>7, <1>8, <1>9, <1>10, <1>11, StepCases

\* Within an epoch the chain only grows.
LEMMA ChainGrows ==
    ASSUME Inv, [Next]_vars, epoch' = epoch
    PROVE  Latest' >= Latest
<1>1. EnvelopesOK /\ NetworkOK /\ Latest \in Nat
  BY DEF Inv, TypeInv, NetworkOK, Latest
<1>2. CASE UNCHANGED chain
  BY <1>1, <1>2 DEF Latest
<1>3. ASSUME NEW e \in Signed, Mine(e) PROVE Latest' >= Latest
  BY <1>1, <1>3, MineKeeps
<1>4. ASSUME NEW p \in Processes, Pass(p) \/ Send(p) \/ Submit(p) \/ Plain(p) \/ Others(p)
      PROVE  Latest' >= Latest
  BY <1>2, <1>4, PassFrame, SendFrame, SubmitFrame, PlainFrame, OtherFrame
<1>5. ASSUME \/ \E p \in Processes : Crash(p)
             \/ \E r \in db.reserved : Sign(r)
             \/ \E e \in Signed : Drop(e)
             \/ Finalize \/ ExpireLease \/ PowerLoss \/ Flush \/ UNCHANGED vars
      PROVE  Latest' >= Latest
  BY <1>2, <1>5 DEF Crash, Sign, Drop, Finalize, ExpireLease, PowerLoss, Flush, vars, network
<1>6. ~Reorganise
  <2>1. epoch \in Nat /\ (Reorganise => epoch' = epoch + 1)
    BY <1>1 DEF NetworkOK, Reorganise
  <2> QED BY <2>1
<1> QED BY <1>3, <1>4, <1>5, <1>6, StepCases

\* Epochs are counted up.
LEMMA EpochGrows ==
    ASSUME Inv, [Next]_vars
    PROVE  epoch \in Nat /\ epoch' \in Nat /\ epoch' >= epoch
<1>1. epoch \in Nat /\ epoch' \in Nat
  BY NetworkStep DEF Inv, TypeInv, NetworkOK
<1>2. ASSUME NEW p \in Processes, Pass(p) \/ Send(p) \/ Submit(p) \/ Plain(p) \/ Others(p)
      PROVE  epoch' = epoch
  BY <1>2, PassFrame, SendFrame, SubmitFrame, PlainFrame, OtherFrame
<1>3. ASSUME \/ \E p \in Processes : Crash(p)
             \/ \E r \in db.reserved : Sign(r)
             \/ \E e \in Signed : Mine(e) \/ Drop(e)
             \/ Finalize \/ Reorganise \/ ExpireLease \/ PowerLoss \/ Flush \/ UNCHANGED vars
      PROVE  epoch' = epoch \/ epoch' = epoch + 1
  BY <1>3 DEF Crash, Sign, Mine, Drop, Finalize, Reorganise, ExpireLease, PowerLoss, Flush, vars, network
<1> QED BY <1>1, <1>2, <1>3, StepCases

-----------------------------------------------------------------------------
(* The processes stay well formed. *)

\* What a process remembers is as good in the next state.
LEMMA StateStays ==
    ASSUME Inv, [Next]_vars, NEW t \in Process, StateOK(t)
    PROVE  t \in Process' /\ StateOK(t)'
<1>1. Grows /\ EnvelopesOK /\ NetworkOK
  BY SignaturesStay DEF Inv, TypeInv
<1>2. \A e \in Signed : Op(e)' = Op(e) /\ Nonce(e)' = Nonce(e) /\ (IsBatch(e)' <=> IsBatch(e))
  BY <1>1 DEF Grows, Op, Nonce, IsBatch
<1>3. t \in Process'
  <2>1. 0 .. epoch \subseteq 0 .. epoch'
    BY EpochGrows
  <2> QED BY <1>1, <2>1 DEF Process, Grows
<1>8. /\ t.step \in BatchSteps => t.env \in Signed' /\ IsBatch(t.env)'
      /\ t.step \in {"plainSent", "plainConfirm"} => t.env \in Signed'
  BY <1>1, <1>2 DEF StateOK, Grows
<1> QED BY <1>3, <1>8 DEF StateOK

\* Every process but one stays; that one remembers what its step needs.
LEMMA ProcessMoves ==
    ASSUME Inv, [Next]_vars, NEW p \in Processes, local' = [local EXCEPT ![p] = local'[p]],
           local'[p] \in Process', StateOK(local[p])'
    PROVE  ProcessesOK'
<1>1. local \in [Processes -> Process] /\ \A q \in Processes : StateOK(local[q])
  BY DEF Inv, TypeInv, ProcessesOK, ProcessOK
<1>2. ASSUME NEW q \in Processes PROVE local'[q] \in Process' /\ StateOK(local[q])'
  <2>1. CASE q = p
    BY <2>1
  <2>2. CASE q # p
    <3>1. PICK t \in Process : t = local[q]
      BY <1>1
    <3>2. local'[q] = t /\ StateOK(t)
      BY <1>1, <2>2, <3>1
    <3>3. t \in Process' /\ StateOK(t)'
      BY <3>2, StateStays
    <3> QED BY <3>2, <3>3
  <2> QED BY <2>1, <2>2
<1>3. local' \in [Processes -> Process']
  <2>1. PICK T : T = Process'
    OBVIOUS
  <2>2. \A q \in Processes : local'[q] \in T
    BY <1>2, <2>1
  <2>3. local' = [q \in Processes |-> local'[q]]
    BY <1>1
  <2> QED BY <2>1, <2>2, <2>3
<1> QED BY <1>2, <1>3 DEF ProcessesOK, ProcessOK

\* A plain send remembers its envelope.
LEMMA PlainSendState ==
    ASSUME Inv, [Next]_vars, NEW p \in Processes, PlainSend(p)
    PROVE  ProcessesOK'
<1>1. Before(p) /\ Grows
  BY InvBefore, SignaturesStay
<1>2. /\ local \in [Processes -> Process] /\ local[p] \in Process /\ StateOK(local[p])
      /\ local[p].step = "plainSend"
  BY <1>1 DEF Before, ProcessesOK, ProcessOK, PlainSend, At
<1>3. PICK e : e = Len(envelopes) + 1
  OBVIOUS
<1>4. e \in Signed'
  BY <1>1, <1>3, PlainNetwork
<1>5. local[p] \in Process' /\ StateOK(local[p])
  BY <1>2, StateStays
<1> DEFINE t == [local[p] EXCEPT !.step = "plainSent", !.env = e]
<1>6. local' = [local EXCEPT ![p] = t] /\ local'[p] = t
  BY <1>2, <1>3 DEF PlainSend
<1>7. t \in Process'
  BY <1>4, <1>5 DEF Process, Steps, PlainSteps
<1>8. t.step = "plainSent" /\ t.env = e /\ t.next = local[p].next /\ t.op = local[p].op /\ t.target = local[p].target
  BY <1>2 DEF Process
<1> HIDE DEF t
<1>9. PICK u : u = t
  OBVIOUS
<1>10. StateOK(u)'
  BY <1>2, <1>4, <1>8, <1>9 DEF StateOK, SubmitSteps, PlainSteps, BatchSteps
<1>11. local'[p] = u
  BY <1>6, <1>9
<1>12. StateOK(local[p])'
  BY <1>10, <1>11
<1> QED BY <1>6, <1>7, <1>12, ProcessMoves

\* Every step leaves every process as its next step needs it.
LEMMA ProcessesStep ==
    ASSUME Inv, [Next]_vars
    PROVE  ProcessesOK'
<1>1. /\ local \in [Processes -> Process] /\ \A p \in Processes : StateOK(local[p])
      /\ EnvelopesOK /\ NetworkOK /\ \A p \in Processes : Before(p)
  BY InvBefore DEF Inv, TypeInv, ProcessesOK, ProcessOK
<1>2. ASSUME NEW p \in Processes, StateNext(p) PROVE ProcessesOK'
  <2>1. PICK t : t = local'[p]
    OBVIOUS
  <2>2. t \in Process' /\ StateOK(t)'
    BY <1>2, <2>1, StateStays DEF StateNext
  <2>3. StateOK(local[p])'
    BY <2>1, <2>2
  <2> QED BY <1>2, <2>1, <2>2, <2>3, ProcessMoves DEF StateNext
<1>3. ASSUME \A p \in Processes : local'[p] = local[p] \/ local'[p] = Idle,
             local' \in [Processes -> Process]
      PROVE  ProcessesOK'
  <2>1. ASSUME NEW p \in Processes PROVE local'[p] \in Process' /\ StateOK(local[p])'
    <3>1. PICK t : t = local'[p]
      OBVIOUS
    <3>2. t \in Process /\ StateOK(t)
      BY <1>1, <1>3, <3>1, IdleState
    <3>3. t \in Process' /\ StateOK(t)'
      BY <3>2, StateStays
    <3> QED BY <3>1, <3>3
  <2>2. local' \in [Processes -> Process']
    <3>1. PICK T : T = Process'
      OBVIOUS
    <3>2. local' \in [Processes -> T]
      BY <1>3, <2>1, <3>1
    <3> QED BY <3>1, <3>2
  <2> QED BY <2>1, <2>2 DEF ProcessesOK, ProcessOK
<1>4. CASE UNCHANGED local
  BY <1>1, <1>3, <1>4
<1>5. ASSUME NEW p \in Processes, Pass(p) \/ Send(p) \/ Submit(p) PROVE ProcessesOK'
  BY <1>1, <1>2, <1>5, PassStates, SendStates, SubmitStates
<1>6. ASSUME NEW p \in Processes, Plain(p) PROVE ProcessesOK'
  BY <1>1, <1>2, <1>6, PlainStates, PlainSendState DEF Plain
<1>7. ASSUME NEW p \in Processes, Others(p) PROVE ProcessesOK'
  <2>1. ASSUME NEW op \in Ops \cup {NoOp}, Acquire(p, op) PROVE ProcessesOK'
    BY <1>1, <1>2, <2>1, AcquireState DEF StateNext
  <2>2. CASE Ends(p)
    BY <1>1, <1>2, <2>2, EndState
  <2>3. ASSUME NEW look \in {"none", "open", "fenced"}, Looked(p, look) PROVE ProcessesOK'
    BY <1>1, <1>2, <2>3, LookState DEF StateNext
  <2> QED BY <1>4, <1>7, <2>1, <2>2, <2>3 DEF Others, Look, LooksAgain, PassFails, KeyFails, RenewLease, LeaseLost
<1>8. ASSUME NEW p \in Processes, Crash(p) PROVE ProcessesOK'
  <2>1. local' = [local EXCEPT ![p] = Idle]
    BY <1>8 DEF Crash
  <2> QED BY <1>1, <1>3, <2>1, IdleState
<1>9. CASE PowerLoss
  <2>1. local' = [p \in Processes |-> Idle]
    BY <1>9 DEF PowerLoss
  <2> QED BY <1>1, <1>3, <2>1, IdleState
<1>10. ASSUME \/ \E r \in db.reserved : Sign(r)
              \/ \E e \in Signed : Mine(e) \/ Drop(e)
              \/ Finalize \/ Reorganise \/ ExpireLease \/ Flush \/ UNCHANGED vars
       PROVE  ProcessesOK'
  BY <1>4, <1>10 DEF Sign, Mine, Drop, Finalize, Reorganise, ExpireLease, Flush, vars
<1> QED BY <1>5, <1>6, <1>7, <1>8, <1>9, <1>10, StepCases

-----------------------------------------------------------------------------
(* One step of a process, seen from the others: its lease, its step, and    *)
(* what it writes.                                                          *)

\* The lease is given back at the end only.
EndsOrKeeps(p) == Ends(p) \/ UNCHANGED leasing

\* A process that goes on keeps the lease as it is.
LEMMA LeaseEffect ==
    ASSUME NEW p \in Processes,
           Pass(p) \/ Send(p) \/ Submit(p) \/ Plain(p) \/ PassFails(p) \/ KeyFails(p) \/ LeaseLost(p)
    PROVE  EndsOrKeeps(p)
<1>1. CASE Pass(p)
  BY <1>1 DEF EndsOrKeeps, Pass, ResumeAlternative, BeginPass, ReadReceipts, RetirePrevented,
         WriteReceipt, Replay, PlanAlternative, PlanUnavailable, ReserveAlternative,
         TransferAlternative, Archive, PassBlocked, Goto
<1>2. CASE Send(p)
  BY <1>2 DEF EndsOrKeeps, Send, MarkReady, QuoteExpires, Dispatch, Invoke, NotInvoked, Settle, Goto
<1>3. CASE Submit(p)
  BY <1>3 DEF EndsOrKeeps, Submit, AdmitFresh, AdmitConfirmed, AdmitUnknown, AdmitSubmitted,
         NotAdmitted, Allocate, CancelStale, NotAllocated, PrepareFails, Reserve, Persist, Prevent, Goto
<1>4. CASE Plain(p)
  BY <1>4 DEF EndsOrKeeps, Plain, PlainSend, PlainUnsent, PlainFails, PlainAccepted, PlainConfirmed,
         PlainUnconfirmed, GivesUp, StartOver, Goto
<1>5. CASE PassFails(p) \/ KeyFails(p) \/ LeaseLost(p)
  BY <1>5 DEF EndsOrKeeps, PassFails, KeyFails, LeaseLost
<1> QED BY <1>1, <1>2, <1>3, <1>4, <1>5

\* The step of a pass that follows.
LEMMA PassGoes ==
    ASSUME NEW p \in Processes, Before(p), Pass(p)
    PROVE  /\ Owns(p) /\ local[p].step \in PassSteps
           /\ local'[p].step \in PassSteps \cup {"idle", "ready", "dispatch", "admit"}
<1>1. local \in [Processes -> Process] /\ local[p] \in Process /\ Idle.step = "idle"
  BY DEF Before, ProcessesOK, Idle
<1>2. Owns(p) /\ local[p].step \in PassSteps
  BY DEF Pass, ResumeAlternative, BeginPass, ReadReceipts, RetirePrevented, WriteReceipt, Replay,
         PlanAlternative, PlanUnavailable, ReserveAlternative, TransferAlternative, Archive,
         PassBlocked, Blocked, At, PassSteps
<1>3. CASE UNCHANGED local
  BY <1>2, <1>3
<1>4. CASE Ends(p)
  BY <1>1, <1>2, <1>4 DEF Ends
<1>5. ASSUME NEW step \in PassSteps \cup {"admit"}, Goto(p, step)
      PROVE  local'[p].step \in PassSteps \cup {"admit"}
  BY <1>1, <1>5 DEF Goto, Process
<1>6. CASE ReadReceipts(p)
  <2>1. ASSUME NEW env, local' = [local EXCEPT ![p].step = "replay", ![p].env = env]
        PROVE  local'[p].step = "replay"
    <3>1. local'[p] = [local[p] EXCEPT !.step = "replay", !.env = env]
      BY <1>1, <2>1
    <3> QED BY <1>1, <3>1 DEF Process
  <2>2. ASSUME NEW env, NEW block,
               local' = [local EXCEPT ![p].step = "write", ![p].env = env, ![p].epoch = block]
        PROVE  local'[p].step = "write"
    <3>1. local'[p] = [local[p] EXCEPT !.step = "write", !.env = env, !.epoch = block]
      BY <1>1, <2>2
    <3> QED BY <1>1, <3>1 DEF Process
  <2>3. \/ Goto(p, "archive")
        \/ \E env : local' = [local EXCEPT ![p].step = "replay", ![p].env = env]
        \/ \E env, block :
              local' = [local EXCEPT ![p].step = "write", ![p].env = env, ![p].epoch = block]
    BY <1>6, Zenon DEF ReadReceipts
  <2>4. CASE Goto(p, "archive")
    BY <1>2, <1>5, <2>4 DEF PassSteps
  <2>5. local'[p].step \in PassSteps \cup {"admit"}
    BY <2>1, <2>2, <2>3, <2>4, <1>5 DEF PassSteps
  <2> QED BY <1>2, <2>5
<1>7. CASE WriteReceipt(p) \/ TransferAlternative(p)
  <2>1. ASSUME WriteReceipt(p) PROVE local'[p].step = "read"
    <3>1. local'[p] = [local[p] EXCEPT !.step = "read", !.env = 0, !.epoch = 0]
      BY <1>1, <2>1 DEF WriteReceipt
    <3> QED BY <1>1, <3>1 DEF Process
  <2>2. ASSUME NEW env, local' = [local EXCEPT ![p].step = "replay", ![p].env = env, ![p].kind = "supersede"]
        PROVE  local'[p].step = "replay"
    <3>1. local'[p] = [local[p] EXCEPT !.step = "replay", !.env = env, !.kind = "supersede"]
      BY <1>1, <2>2
    <3> QED BY <1>1, <3>1 DEF Process
  <2> QED BY <1>2, <1>7, <2>1, <2>2 DEF TransferAlternative, PassSteps
<1>9. CASE Replay(p) \/ PlanUnavailable(p)
  <2>1. ASSUME NEW step \in {"ready", "dispatch"}, NEW kind,
               local' = [local EXCEPT ![p].step = step, ![p].kind = kind]
        PROVE  local'[p].step = step
    <3>1. local'[p] = [local[p] EXCEPT !.step = step, !.kind = kind]
      BY <1>1, <2>1
    <3> QED BY <1>1, <3>1 DEF Process
  <2> QED BY <1>2, <1>9, <2>1 DEF Replay, PlanUnavailable
<1>8. CASE BeginPass(p) \/ PlanAlternative(p) \/ ReserveAlternative(p)
  BY <1>2, <1>5, <1>8 DEF BeginPass, PlanAlternative, ReserveAlternative, PassSteps
<1>10. CASE Archive(p)
  <2>1. ASSUME local' = [local EXCEPT ![p].step = "admit", ![p].epoch = epoch]
        PROVE  local'[p].step = "admit"
    <3>1. local'[p] = [local[p] EXCEPT !.step = "admit", !.epoch = epoch]
      BY <1>1, <2>1
    <3> QED BY <1>1, <3>1 DEF Process
  <2> QED BY <1>2, <1>4, <1>10, <2>1 DEF Archive
<1> QED BY <1>2, <1>3, <1>4, <1>6, <1>7, <1>8, <1>9, <1>10 DEF Pass, ResumeAlternative, RetirePrevented, PassBlocked

\* The step of a submission that follows.
LEMMA SubmitGoes ==
    ASSUME NEW p \in Processes, Before(p), Submit(p)
    PROVE  /\ Owns(p) /\ local[p].step \in SubmitSteps
           /\ local'[p].step \in {"allocate", "reserve", "sign", "check", "idle", "plainSend"}
<1>1. local \in [Processes -> Process] /\ local[p] \in Process /\ Idle.step = "idle"
  BY DEF Before, ProcessesOK, Idle
<1>2. Owns(p) /\ local[p].step \in SubmitSteps
  BY DEF Submit, AdmitFresh, AdmitConfirmed, AdmitUnknown, AdmitSubmitted, NotAdmitted, Allocate,
         CancelStale, NotAllocated, PrepareFails, Reserve, Persist, Prevent, At, SubmitSteps
<1>3. CASE Ends(p)
  BY <1>1, <1>2, <1>3 DEF Ends
<1>4. ASSUME NEW step \in {"allocate", "sign"}, Goto(p, step)
      PROVE  local'[p].step \in {"allocate", "sign"}
  BY <1>1, <1>4 DEF Goto, Process
<1>5. CASE Allocate(p) \/ Persist(p)
  <2>1. ASSUME NEW step \in {"reserve", "plainSend"}, NEW target, NEW nonce,
               local' = [local EXCEPT ![p].nonce = nonce, ![p].step = step, ![p].target = target]
        PROVE  local'[p].step = step
    <3>1. local'[p] = [local[p] EXCEPT !.nonce = nonce, !.step = step, !.target = target]
      BY <1>1, <2>1
    <3> QED BY <1>1, <3>1 DEF Process
  <2>2. ASSUME NEW env, local' = [local EXCEPT ![p].step = "check", ![p].env = env, ![p].nonce = 0]
        PROVE  local'[p].step = "check"
    <3>1. local'[p] = [local[p] EXCEPT !.step = "check", !.env = env, !.nonce = 0]
      BY <1>1, <2>2
    <3> QED BY <1>1, <3>1 DEF Process
  <2> QED BY <1>2, <1>5, <2>1, <2>2 DEF Allocate, Persist
<1>6. CASE AdmitSubmitted(p) \/ CancelStale(p)
  <2>1. ASSUME NEW kind, NEW target, NEW nonce,
               local' = [local EXCEPT ![p].step = "plainSend", ![p].kind = kind,
                                      ![p].target = target, ![p].nonce = nonce]
        PROVE  local'[p].step = "plainSend"
    <3>1. local'[p] = [local[p] EXCEPT !.step = "plainSend", !.kind = kind, !.target = target, !.nonce = nonce]
      BY <1>1, <2>1
    <3> QED BY <1>1, <3>1 DEF Process
  <2>2. \/ Ends(p)
        \/ \E kind, target, nonce :
              local' = [local EXCEPT ![p].step = "plainSend", ![p].kind = kind,
                                     ![p].target = target, ![p].nonce = nonce]
    BY <1>6, ZenonT(40) DEF AdmitSubmitted, CancelStale
  <2> QED BY <1>2, <1>3, <2>1, <2>2
<1> QED BY <1>2, <1>3, <1>4, <1>5, <1>6
        DEF Submit, AdmitFresh, AdmitConfirmed, AdmitUnknown, NotAdmitted, NotAllocated,
            PrepareFails, Reserve, Prevent

\* A pass and a submission leave the fence to the sends.
LEMMA FenceStays ==
    ASSUME NEW p \in Processes, Before(p), Pass(p) \/ Submit(p)
    PROVE  db'.fence = db.fence
<1>1. db \in Journals
  BY DEF Before
<1>2. CASE UNCHANGED journal
  BY <1>2 DEF journal
<1>3. ASSUME NEW op, NEW status, NEW nonce, NEW env,
             Full(Record(db, op, status, nonce, env)) \/ Full(Close(db, op))
      PROVE  db'.fence = db.fence
  BY <1>1, <1>3 DEF Full, Record, Close, Journals
<1>4. ASSUME NEW r, Normal(Transferred(db, r)) PROVE db'.fence = db.fence
  BY <1>1, <1>4 DEF Normal, Unsynced, Transferred, Journals
<1>5. CASE Persist(p)
  <2>1. PICK r \in db.reserved : Normal(Record(Transferred(db, r), r.op, "submitted", r.nonce, r.env))
    BY <1>5 DEF Persist
  <2>2. PICK t : t = Transferred(db, r)
    OBVIOUS
  <2>3. t.fence = db.fence /\ "fence" \in DOMAIN t
    BY <1>1, <2>2 DEF Transferred, Journals
  <2> QED BY <2>1, <2>2, <2>3 DEF Normal, Unsynced, Record
<1>6. CASE Prevent(p)
  <2>1. PICK e : Full([Record(db, Op(e), "prevented", Nonce(e), e) EXCEPT !.intents[e].status = "prevented"])
    BY <1>6 DEF Prevent
  <2>2. PICK t : t = Record(db, Op(e), "prevented", Nonce(e), e)
    OBVIOUS
  <2>3. t.fence = db.fence /\ "fence" \in DOMAIN t
    BY <1>1, <2>2 DEF Record, Journals
  <2> QED BY <2>1, <2>2, <2>3 DEF Full
<1>7. CASE RetirePrevented(p)
  <2>1. PICK e : Full([Close(db, Op(e)) EXCEPT !.intents[e] = NoIntent, !.retired = @ \cup {e}])
    BY <1>7 DEF RetirePrevented
  <2>2. PICK t : t = Close(db, Op(e))
    OBVIOUS
  <2>3. t.fence = db.fence /\ "fence" \in DOMAIN t
    BY <1>1, <2>2 DEF Close, Journals
  <2> QED BY <2>1, <2>2, <2>3 DEF Full
<1>8. CASE WriteReceipt(p)
  <2>1. PICK e, intents : Normal([Record(db, Op(e), "confirmed", Nonce(e), e) EXCEPT !.intents = intents])
    BY <1>8 DEF WriteReceipt
  <2>2. PICK t : t = Record(db, Op(e), "confirmed", Nonce(e), e)
    OBVIOUS
  <2>3. t.fence = db.fence /\ "fence" \in DOMAIN t
    BY <1>1, <2>2 DEF Record, Journals
  <2> QED BY <2>1, <2>2, <2>3 DEF Normal, Unsynced
<1>9. CASE Reserve(p) \/ ReserveAlternative(p)
  <2>1. PICK reserved : Normal([db EXCEPT !.reserved = reserved])
    BY <1>9, <1>1 DEF Reserve, ReserveAlternative
  <2> QED BY <1>1, <2>1 DEF Normal, Unsynced, Journals
<1>10. CASE Archive(p)
  <2>1. PICK intents : Normal([db EXCEPT !.intents = intents])
    BY <1>10, <1>1 DEF Archive
  <2> QED BY <1>1, <2>1 DEF Normal, Unsynced, Journals
<1>11. CASE AdmitConfirmed(p) \/ AdmitUnknown(p) \/ AdmitSubmitted(p) \/ Allocate(p) \/ PrepareFails(p)
  BY <1>2, <1>3, <1>11 DEF AdmitConfirmed, AdmitUnknown, AdmitSubmitted, Allocate, PrepareFails
<1>12. CASE ResumeAlternative(p) \/ TransferAlternative(p)
  BY <1>4, <1>12 DEF ResumeAlternative, TransferAlternative
<1>13. CASE Quiet(p)
  BY <1>13, QuietIsQuiet
<1> QED BY <1>5, <1>6, <1>7, <1>8, <1>9, <1>10, <1>11, <1>12, <1>13 DEF Pass, Submit, Quiet

-----------------------------------------------------------------------------
(* The fence. *)

\* What the other processes send stays behind its fence, as only the fence of
\* p or of a process that is gone is touched.
LEMMA OthersSend ==
    ASSUME Inv, [Next]_vars, NEW p \in Processes, local' = [local EXCEPT ![p] = local'[p]],
           \A q \in Processes : \A e : q # p /\ <<q, e>> \in outstanding' => <<q, e>> \in outstanding,
           db'.fence = db.fence \/ db.fence = NoFence \/ db.fence.owner # "running" \/ db.fence.by = p,
           NEW q \in Processes, q # p
    PROVE  SendOK(q)'
<1>1. SendOK(q) /\ Grows /\ local \in [Processes -> Process] /\ outstanding \subseteq Processes \X Signed
  BY SignaturesStay DEF Inv, TypeInv, FenceOK, ProcessesOK
<1>2. local'[q] = local[q]
  BY <1>1
<1>3. \A f : [owner |-> "running", by |-> q, env |-> f] = db.fence => db'.fence = db.fence
  <2>1. NoFence.by # q
    BY NamesAssumption DEF NoFence
  <2> QED BY <2>1
<1>4. \A e \in Signed : IsBatch(e)' <=> IsBatch(e)
  BY <1>1 DEF IsBatch, Op, Grows
<1>5. ASSUME At(q, "sending") PROVE db'.fence = [owner |-> "running", by |-> q, env |-> local[q].env]
  BY <1>1, <1>3, <1>5 DEF SendOK
<1>6. ASSUME NEW e \in Signed', <<q, e>> \in outstanding'
      PROVE  IF IsBatch(e)'
             THEN /\ db'.fence = [owner |-> "running", by |-> q, env |-> e]
                  /\ local[q].step \in {"idle", "sent"}
             ELSE At(q, "plainSent") /\ local[q].env = e
  <2>1. <<q, e>> \in outstanding /\ e \in Signed
    BY <1>1, <1>6
  <2> QED BY <1>1, <1>3, <1>4, <2>1 DEF SendOK
<1> QED BY <1>2, <1>5, <1>6 DEF SendOK, At

\* The steps of p itself, unless it sends.
LEMMA FenceMoves ==
    ASSUME Inv, [Next]_vars, NEW p \in Processes, local' = [local EXCEPT ![p] = local'[p]],
           outstanding' \subseteq Processes \X Signed',
           \A q \in Processes : \A e : q # p /\ <<q, e>> \in outstanding' => <<q, e>> \in outstanding,
           db'.fence = db.fence \/ db.fence = NoFence \/ db.fence.owner # "running" \/ db.fence.by = p,
           SendOK(p)'
    PROVE  FenceOK'
BY OthersSend DEF FenceOK

\* A process that sends nothing has nothing outstanding.
LEMMA SendsNothing ==
    ASSUME FenceOK, NEW p \in Processes, local[p].step \notin {"idle", "sending", "sent", "plainSent"}
    PROVE  \A e : <<p, e>> \notin outstanding
BY DEF FenceOK, SendOK, At

\* A process with nothing outstanding that does not begin to send.
LEMMA FenceCalm ==
    ASSUME Inv, [Next]_vars, NEW p \in Processes, local' = [local EXCEPT ![p] = local'[p]],
           local[p].step \notin {"idle", "sending", "sent", "plainSent"}, local'[p].step # "sending",
           outstanding' = outstanding, db'.fence = db.fence
    PROVE  FenceOK'
<1>1. SendOK(p)'
  BY SendsNothing DEF Inv, SendOK, At
<1>2. outstanding' \subseteq Processes \X Signed'
  BY SignaturesStay DEF Inv, FenceOK, Grows
<1> QED BY <1>1, <1>2, FenceMoves

\* Nothing happens to the fence, to the processes or to what they send.
LEMMA FenceUnmoved ==
    ASSUME Inv, [Next]_vars, UNCHANGED <<local, outstanding>>, db'.fence = db.fence
    PROVE  FenceOK'
<1>1. Grows /\ FenceOK
  BY SignaturesStay DEF Inv
<1>2. \A e \in Signed : IsBatch(e)' <=> IsBatch(e)
  BY <1>1 DEF IsBatch, Op, Grows
<1>3. outstanding' \subseteq Processes \X Signed'
  BY <1>1 DEF FenceOK, Grows
<1>4. ASSUME NEW p \in Processes PROVE SendOK(p)'
  <2>1. \A e : <<p, e>> \in outstanding => e \in Signed
    BY <1>1 DEF FenceOK
  <2> QED BY <1>1, <1>2, <2>1 DEF FenceOK, SendOK, At
<1> QED BY <1>3, <1>4 DEF FenceOK

\* The steps of a send keep every send behind its fence.
LEMMA SendFences ==
    ASSUME Inv, [Next]_vars, NEW p \in Processes, Send(p)
    PROVE  FenceOK'
<1>1. /\ Before(p) /\ FenceOK /\ SendOK(p) /\ db \in Journals /\ Grows /\ EnvelopesOK
      /\ local \in [Processes -> Process] /\ local[p] \in Process /\ StateOK(local[p])
      /\ Idle.step = "idle"
  BY InvBefore, SignaturesStay DEF Before, ProcessOK, ProcessesOK, FenceOK, Idle
<1>2. local' = [local EXCEPT ![p] = local'[p]]
  BY <1>1, SendStates DEF StateNext
<1>3. outstanding \subseteq Processes \X Signed /\ UNCHANGED envelopes /\ Signed' = Signed
  BY <1>1, SendFrame DEF FenceOK, Signed
<1>4. \A e \in Signed : IsBatch(e)' <=> IsBatch(e)
  BY <1>3 DEF IsBatch, Op
<1>5. CASE MarkReady(p)
  <2>1. local[p].step \in {"check", "ready"} /\ local'[p].step = "dispatch" /\ outstanding' = outstanding
    BY <1>1, <1>5 DEF MarkReady, Goto, Process
  <2>2. PICK e : Normal([db EXCEPT !.intents[e].replay = "ready"]) \/ Full([db EXCEPT !.intents[e].replay = "ready"])
    BY <1>5 DEF MarkReady
  <2>3. db'.fence = db.fence
    BY <1>1, <2>2 DEF Normal, Unsynced, Full, Journals
  <2> QED BY <1>2, <2>1, <2>3, FenceCalm
<1>6. CASE QuoteExpires(p)
  <2>1. local'[p].step = "idle" /\ local[p].step \in {"check", "ready", "dispatch"} /\ UNCHANGED <<db, outstanding>>
    BY <1>1, <1>6 DEF QuoteExpires, Ends, journal
  <2> QED BY <1>2, <2>1, FenceCalm
<1>7. CASE Dispatch(p)
  <2>1. PICK e : e = local[p].env
    OBVIOUS
  <2>2. PICK fence : fence = [owner |-> "running", by |-> p, env |-> e]
    OBVIOUS
  <2>3. /\ local[p].step = "dispatch" /\ db.fence = NoFence /\ outstanding' = outstanding
        /\ \E n : db' = [db EXCEPT !.intents[e].attempts = n, !.intents[e].replay = "retryable", !.fence = fence]
    BY <1>7, <2>1, <2>2 DEF Dispatch, At, Full
  <2>4. db'.fence = fence
    <3>1. PICK n : db' = [db EXCEPT !.intents[e].attempts = n, !.intents[e].replay = "retryable", !.fence = fence]
      BY <2>3
    <3>2. \E t : "fence" \in DOMAIN t /\ db' = [t EXCEPT !.fence = fence]
      <4>1. PICK t : t = [db EXCEPT !.intents[e].attempts = n, !.intents[e].replay = "retryable"]
        OBVIOUS
      <4>2. "fence" \in DOMAIN t
        BY <1>1, <4>1 DEF Journals
      <4> QED BY <3>1, <4>1, <4>2
    <3> QED BY <3>2
  <2>5. local'[p].step = "sending" /\ local'[p].env = e
    BY <1>1, <1>7, <2>1 DEF Dispatch, Goto, Process
  <2>6. \A f : <<p, f>> \notin outstanding
    BY <1>1, <2>3, SendsNothing
  <2>7. SendOK(p)'
    BY <2>2, <2>3, <2>4, <2>5, <2>6 DEF SendOK, At
  <2> QED BY <1>2, <1>3, <2>3, <2>7, FenceMoves
<1>8. CASE Invoke(p)
  <2>1. PICK e : e = local[p].env
    OBVIOUS
  <2>2. /\ local[p].step = "sending" /\ outstanding' = outstanding \cup {<<p, e>>} /\ db' = db
        /\ db.fence = [owner |-> "running", by |-> p, env |-> e]
        /\ e \in Signed /\ IsBatch(e)
    BY <1>1, <1>8, <2>1 DEF Invoke, At, journal, SendOK, StateOK, BatchSteps
  <2>3. \A f \in Signed : <<p, f>> \notin outstanding
    BY <1>1, <2>2 DEF SendOK, At
  <2>4. local'[p].step = "sent"
    BY <1>1, <1>8 DEF Invoke, Goto, Process
  <2>5. SendOK(p)'
    BY <1>3, <1>4, <2>2, <2>3, <2>4 DEF SendOK, At
  <2> QED BY <1>2, <1>3, <2>2, <2>5, FenceMoves
<1>9. CASE NotInvoked(p)
  <2>1. /\ local[p].step = "sending" /\ outstanding' = outstanding /\ local'[p].step = "idle"
        /\ db.fence = [owner |-> "running", by |-> p, env |-> local[p].env]
    BY <1>1, <1>9 DEF NotInvoked, At, SendOK, Ends
  <2>2. \A f \in Signed : <<p, f>> \notin outstanding
    BY <1>1, <2>1 DEF SendOK, At
  <2>3. SendOK(p)'
    BY <1>3, <2>1, <2>2 DEF SendOK, At
  <2> QED BY <1>2, <1>3, <2>1, <2>3, FenceMoves
<1>10. ASSUME NEW e \in Signed, Settle(p, e) PROVE FenceOK'
  <2>1. <<p, e>> \in outstanding /\ IsBatch(e) /\ outstanding' = outstanding \ {<<p, e>>}
    BY <1>10 DEF Settle
  <2>2. db.fence = [owner |-> "running", by |-> p, env |-> e] /\ local[p].step \in {"idle", "sent"}
    BY <1>1, <2>1 DEF SendOK
  <2>3. \A f \in Signed : <<p, f>> \notin outstanding'
    <3>1. ASSUME NEW f \in Signed, <<p, f>> \in outstanding PROVE f = e
      <4>1. IsBatch(f)
        BY <1>1, <2>2, <3>1 DEF SendOK, At
      <4>2. db.fence = [owner |-> "running", by |-> p, env |-> f]
        BY <1>1, <3>1, <4>1 DEF SendOK
      <4> QED BY <2>2, <4>2
    <3> QED BY <2>1, <3>1
  <2>4. local'[p].step # "sending"
    <3>1. CASE local' = local
      BY <2>2, <3>1
    <3>2. CASE Ends(p)
      BY <1>1, <3>2 DEF Ends
    <3>3. ASSUME NEW step \in {"read", "begin"}, NEW next,
                 local' = [local EXCEPT ![p] = [Idle EXCEPT !.step = step, !.next = next, !.op = local[p].op]]
          PROVE  local'[p].step # "sending"
      BY <1>1, <3>3 DEF Idle
    <3> QED BY <1>10, <3>1, <3>2, <3>3 DEF Settle
  <2>5. SendOK(p)'
    BY <1>3, <2>3, <2>4 DEF SendOK, At
  <2> QED BY <1>2, <1>3, <2>1, <2>2, <2>5, FenceMoves
<1> QED BY <1>5, <1>6, <1>7, <1>8, <1>9, <1>10 DEF Send

\* So do the steps of a plain transaction.
LEMMA PlainFences ==
    ASSUME Inv, [Next]_vars, NEW p \in Processes, Plain(p)
    PROVE  FenceOK'
<1>1. /\ Before(p) /\ FenceOK /\ SendOK(p) /\ db \in Journals /\ Grows /\ EnvelopesOK
      /\ local \in [Processes -> Process] /\ local[p] \in Process /\ StateOK(local[p])
      /\ Idle.step = "idle" /\ outstanding \subseteq Processes \X Signed
  BY InvBefore, SignaturesStay DEF Before, ProcessOK, ProcessesOK, FenceOK, Idle
<1>2. \A e \in Signed : IsBatch(e)' <=> IsBatch(e)
  BY <1>1 DEF IsBatch, Op, Grows
<1>3. CASE PlainSend(p)
  <2>1. PICK e : e = Len(envelopes) + 1
    OBVIOUS
  <2>2. /\ local[p].step = "plainSend" /\ outstanding' = outstanding \cup {<<p, e>>} /\ db' = db
        /\ local' = [local EXCEPT ![p].step = "plainSent", ![p].env = e]
        /\ envelopes' = Append(envelopes, [op |-> local[p].target, nonce |-> local[p].nonce, original |-> 0])
    BY <1>3, <2>1 DEF PlainSend, At, journal
  <2>3. local'[p] = [local[p] EXCEPT !.step = "plainSent", !.env = e]
    BY <1>1, <2>2
  <2>4. local'[p].step = "plainSent" /\ local'[p].env = e /\ local' = [local EXCEPT ![p] = local'[p]]
    BY <1>1, <2>2, <2>3 DEF Process
  <2>5. e \in Signed' /\ local[p].target \in PlainOps
    BY <1>1, <1>3, <2>1, PlainNetwork, PlainSigned
  <2>6. ~IsBatch(e)'
    <3>1. envelopes'[e].op = local[p].target
      BY <1>1, <2>1, <2>2 DEF EnvelopesOK
    <3> QED BY <2>5, <3>1, ConstantsAssumption DEF IsBatch, Op
  <2>7. \A f : <<p, f>> \notin outstanding
    BY <1>1, <2>2, SendsNothing
  <2>8. SendOK(p)'
    BY <2>2, <2>4, <2>6, <2>7 DEF SendOK, At
  <2>9. outstanding' \subseteq Processes \X Signed'
    BY <1>1, <2>2, <2>5 DEF Grows
  <2> QED BY <2>2, <2>4, <2>8, <2>9, FenceMoves
<1>4. CASE ~PlainSend(p)
  <2>1. local' = [local EXCEPT ![p] = local'[p]]
    BY <1>1, <1>4, PlainStates DEF StateNext, Plain
  <2>2. db'.fence = db.fence
    <3>1. CASE UNCHANGED journal
      BY <3>1 DEF journal
    <3>2. ASSUME NEW op, NEW status, NEW nonce, NEW env,
                 Full(Record(db, op, status, nonce, env)) \/ Full(Close(db, op))
          PROVE  db'.fence = db.fence
      BY <1>1, <3>2 DEF Full, Record, Close, Journals
    <3> QED BY <1>4, <3>1, <3>2
            DEF Plain, PlainUnsent, PlainFails, PlainAccepted, PlainConfirmed, PlainUnconfirmed, GivesUp
  <2>3. local'[p].step # "sending"
    <3>1. CASE Ends(p)
      BY <1>1, <3>1 DEF Ends
    <3>2. CASE StartOver(p)
      BY <1>1, <3>2 DEF StartOver, Idle
    <3>3. CASE Goto(p, "plainConfirm")
      BY <1>1, <3>3 DEF Goto, Process
    <3> QED BY <1>4, <3>1, <3>2, <3>3
            DEF Plain, PlainUnsent, PlainFails, PlainAccepted, PlainConfirmed, PlainUnconfirmed, GivesUp
  <2>4. CASE PlainUnsent(p) \/ PlainConfirmed(p) \/ PlainUnconfirmed(p)
    <3>1. outstanding' = outstanding /\ local[p].step \in {"plainSend", "plainConfirm"}
      BY <2>4 DEF PlainUnsent, PlainConfirmed, PlainUnconfirmed, At
    <3> QED BY <2>1, <2>2, <2>3, <3>1, FenceCalm
  <2>5. CASE PlainFails(p) \/ PlainAccepted(p)
    <3>1. local[p].step = "plainSent" /\ outstanding' = outstanding \ {<<p, local[p].env>>}
      BY <2>5 DEF PlainFails, PlainAccepted, At
    <3>2. \A f : <<p, f>> \notin outstanding'
      <4>1. ASSUME NEW f, <<p, f>> \in outstanding PROVE f = local[p].env
        BY <1>1, <3>1, <4>1 DEF SendOK
      <4> QED BY <3>1, <4>1
    <3>3. SendOK(p)'
      BY <2>3, <3>2 DEF SendOK, At
    <3>4. outstanding' \subseteq Processes \X Signed'
      BY <1>1, <3>1 DEF Grows
    <3> QED BY <2>1, <2>2, <3>1, <3>3, <3>4, FenceMoves
  <2> QED BY <1>4, <2>4, <2>5 DEF Plain
<1> QED BY <1>3, <1>4

\* So do the other steps of a process.
LEMMA OtherFences ==
    ASSUME Inv, [Next]_vars, NEW p \in Processes, Others(p)
    PROVE  FenceOK'
<1>1. /\ Before(p) /\ FenceOK /\ SendOK(p) /\ db \in Journals /\ Grows /\ EnvelopesOK
      /\ local \in [Processes -> Process] /\ local[p] \in Process /\ StateOK(local[p])
      /\ Idle.step = "idle" /\ outstanding \subseteq Processes \X Signed
      /\ outstanding' = outstanding
  BY InvBefore, SignaturesStay, OtherFrame DEF Before, ProcessOK, ProcessesOK, FenceOK, Idle
<1>2. outstanding' \subseteq Processes \X Signed'
  BY <1>1 DEF Grows
<1>3. FenceOpen => db.fence = NoFence \/ db.fence.owner # "running"
  BY DEF FenceOpen
<1>4. ASSUME FenceOpen, At(p, "idle") PROVE \A e : <<p, e>> \notin outstanding
  <2>1. \A e \in Signed : db.fence # [owner |-> "running", by |-> p, env |-> e]
    BY <1>3, <1>4 DEF NoFence
  <2> QED BY <1>1, <1>4, <2>1 DEF SendOK, At
<1>5. ASSUME NEW op \in Ops \cup {NoOp}, Acquire(p, op) PROVE FenceOK'
  <2>1. local' = [local EXCEPT ![p] = local'[p]] /\ local'[p].step = "begin"
    BY <1>1, <1>5, AcquireState
  <2>2. SendOK(p)'
    BY <1>1, <1>4, <1>5, <2>1 DEF SendOK, At, Acquire
  <2> QED BY <1>1, <1>2, <1>3, <1>5, <2>1, <2>2, FenceMoves DEF Acquire
<1>6. ASSUME NEW look \in {"none", "open", "fenced"}, Looked(p, look), At(p, "idle"),
             UNCHANGED journal \/ FenceOpen
      PROVE  FenceOK'
  <2>1. local' = [local EXCEPT ![p] = local'[p]] /\ local'[p].step = "idle"
    BY <1>1, <1>6, LookState DEF At
  <2>2. \A e \in Signed : IsBatch(e)' <=> IsBatch(e)
    BY <1>1 DEF IsBatch, Op, Grows
  <2>3. CASE UNCHANGED journal
    <3>1. db' = db
      BY <2>3 DEF journal
    <3>2. SendOK(p)'
      BY <1>1, <1>6, <2>1, <2>2, <3>1 DEF SendOK, At
    <3> QED BY <1>1, <1>2, <2>1, <3>1, <3>2, FenceMoves
  <2>4. CASE FenceOpen
    <3>1. SendOK(p)'
      BY <1>1, <1>4, <1>6, <2>1, <2>4 DEF SendOK, At
    <3> QED BY <1>1, <1>2, <1>3, <2>1, <2>4, <3>1, FenceMoves
  <2> QED BY <1>6, <2>3, <2>4
<1>11. CASE Look(p) \/ LooksAgain(p)
  <2>1. PICK look \in {"none", "open", "fenced"} : Looked(p, look)
    BY <1>11 DEF Look, LooksAgain
  <2>2. At(p, "idle") /\ (UNCHANGED journal \/ FenceOpen)
    BY <1>11 DEF Look, LooksAgain
  <2> QED BY <1>6, <2>1, <2>2
<1>7. CASE RenewLease(p)
  BY <1>1, <1>7, FenceUnmoved DEF RenewLease, journal
<1>8. CASE LeaseLost(p)
  <2>1. local' = [local EXCEPT ![p] = local'[p]] /\ local'[p].step = "idle" /\ db' = db
    BY <1>1, <1>8 DEF LeaseLost, Ends, journal
  <2>2. local[p].step \notin {"idle", "sending", "sent", "plainSent"}
    BY <1>8 DEF LeaseLost, PassSteps, SubmitSteps, PlainSteps
  <2> QED BY <1>1, <2>1, <2>2, FenceCalm
<1>9. CASE KeyFails(p)
  <2>1. local' = [local EXCEPT ![p] = local'[p]] /\ local'[p].step = "idle"
    BY <1>1, <1>9 DEF KeyFails, Ends
  <2>2. local[p].step \notin {"idle", "sending", "sent", "plainSent"}
    BY <1>9 DEF KeyFails
  <2>3. PICK reserved : Normal([db EXCEPT !.reserved = reserved])
    BY <1>1, <1>9 DEF KeyFails
  <2>4. db'.fence = db.fence
    BY <1>1, <2>3 DEF Normal, Unsynced, Journals
  <2> QED BY <1>1, <2>1, <2>2, <2>4, FenceCalm
<1>10. CASE PassFails(p)
  <2>1. local' = [local EXCEPT ![p] = local'[p]] /\ local'[p].step = "idle" /\ db' = db
    BY <1>1, <1>10 DEF PassFails, Ends, journal
  <2>2. local[p].step \notin {"idle", "sending", "plainSent"}
    BY <1>10 DEF PassFails, PassSteps, At
  <2>3. \A e \in Signed : IsBatch(e)' <=> IsBatch(e)
    BY <1>1 DEF IsBatch, Op, Grows
  <2>4. SendOK(p)'
    BY <1>1, <2>1, <2>2, <2>3 DEF SendOK, At
  <2> QED BY <1>1, <1>2, <2>1, <2>4, FenceMoves
<1> QED BY <1>5, <1>7, <1>8, <1>9, <1>10, <1>11 DEF Others

\* A process that is gone, and a host that is gone.
LEMMA CrashFences ==
    ASSUME Inv, [Next]_vars, NEW p \in Processes, Crash(p)
    PROVE  FenceOK'
<1>1. /\ local \in [Processes -> Process] /\ Grows /\ outstanding \subseteq Processes \X Signed
      /\ db \in Journals /\ Idle.step = "idle"
  BY SignaturesStay, InvBefore DEF Inv, TypeInv, ProcessesOK, FenceOK, Before, Idle
<1>2. local' = [local EXCEPT ![p] = local'[p]] /\ local'[p].step = "idle"
      /\ outstanding' = {s \in outstanding : s[1] # p}
  BY <1>1 DEF Crash
<1>3. \A e : <<p, e>> \notin outstanding'
  BY <1>2
<1>4. SendOK(p)'
  BY <1>2, <1>3 DEF SendOK, At
<1>5. db'.fence = db.fence \/ db.fence.by = p
  <2>1. PICK owner : db' = Without(db, p, owner)
    BY DEF Crash
  <2>2. PICK fence, reserved : /\ db' = [db EXCEPT !.fence = fence, !.reserved = reserved]
                               /\ db.fence.by # p => fence = db.fence
    BY <1>1, <2>1 DEF Without
  <2> QED BY <1>1, <2>2 DEF Journals
<1>6. outstanding' \subseteq Processes \X Signed'
  BY <1>1, <1>2 DEF Grows
<1> QED BY <1>2, <1>4, <1>5, <1>6, FenceMoves

\* Every step keeps every send behind its fence, and every plain one awaited.
LEMMA FenceStep ==
    ASSUME Inv, [Next]_vars
    PROVE  FenceOK'
<1>1. ASSUME NEW p \in Processes, Pass(p) PROVE FenceOK'
  <2>1. Before(p) /\ local' = [local EXCEPT ![p] = local'[p]] /\ outstanding' = outstanding
    BY <1>1, InvBefore, PassStates, PassFrame DEF StateNext
  <2>2. /\ local[p].step \notin {"idle", "sending", "sent", "plainSent"} /\ local'[p].step # "sending"
        /\ db'.fence = db.fence
    BY <1>1, <2>1, PassGoes, FenceStays DEF PassSteps
  <2> QED BY <2>1, <2>2, FenceCalm
<1>2. ASSUME NEW p \in Processes, Submit(p) PROVE FenceOK'
  <2>1. Before(p) /\ local' = [local EXCEPT ![p] = local'[p]] /\ outstanding' = outstanding
    BY <1>2, InvBefore, SubmitStates, SubmitFrame DEF StateNext
  <2>2. /\ local[p].step \notin {"idle", "sending", "sent", "plainSent"} /\ local'[p].step # "sending"
        /\ db'.fence = db.fence
    BY <1>2, <2>1, SubmitGoes, FenceStays DEF SubmitSteps
  <2> QED BY <2>1, <2>2, FenceCalm
<1>3. ASSUME NEW p \in Processes, Send(p) \/ Plain(p) \/ Others(p) \/ Crash(p) PROVE FenceOK'
  BY <1>3, SendFences, PlainFences, OtherFences, CrashFences
<1>4. CASE PowerLoss
  <2>1. outstanding' = {} /\ \A p \in Processes : local'[p].step = "idle"
    BY <1>4 DEF PowerLoss, Idle
  <2> QED BY <2>1 DEF FenceOK, SendOK, At
<1>5. ASSUME NEW r \in db.reserved, Sign(r) PROVE FenceOK'
  <2>1. db \in Journals
    BY DEF Inv, JournalOK, RowsOK
  <2>2. PICK reserved : Normal([db EXCEPT !.reserved = reserved])
    BY <1>5, <2>1 DEF Sign
  <2>3. db'.fence = db.fence /\ UNCHANGED <<local, outstanding>>
    BY <1>5, <2>1, <2>2 DEF Normal, Unsynced, Journals, Sign
  <2> QED BY <2>3, FenceUnmoved
<1>6. ASSUME \/ \E e \in Signed : Mine(e) \/ Drop(e)
             \/ Finalize \/ Reorganise \/ ExpireLease \/ Flush \/ UNCHANGED vars
      PROVE  FenceOK'
  <2>1. UNCHANGED <<local, outstanding, db>>
    BY <1>6 DEF Mine, Drop, Finalize, Reorganise, ExpireLease, Flush, Full, vars, journal
  <2> QED BY <2>1, FenceUnmoved
<1> QED BY <1>1, <1>2, <1>3, <1>4, <1>5, <1>6, StepCases

-----------------------------------------------------------------------------
(* The holder of the lease. *)

\* A write, if any, to the attempts alone.
AttemptWrite ==
    \/ UNCHANGED journal
    \/ \E op, status, nonce, env : Full(Record(db, op, status, nonce, env))
    \/ \E op : Full(Close(db, op))

\* A write to the attempts leaves intents, reservations and the fence alone.
LEMMA AttemptWriteKeeps ==
    ASSUME db \in Journals, AttemptWrite
    PROVE  db'.intents = db.intents /\ db'.reserved = db.reserved /\ db'.fence = db.fence
BY DEF AttemptWrite, journal, Full, Record, Close, Journals

\* Where the intents stay, no envelope comes to have a row.
LEMMA RowsStay ==
    ASSUME Inv, [Next]_vars, db'.intents = db.intents
    PROVE  \A f \in Signed' : Status(db, f)' # "none" =>
              f \in Signed /\ Status(db, f) # "none" /\ Nonce(f)' = Nonce(f) /\ Nonce(f) \in Nat
<1>1. /\ Grows /\ EnvelopesOK /\ JournalOK(db)
      /\ \A e \in Signed : Nonce(e)' = Nonce(e) /\ Nonce(e) \in Nat
  BY SignaturesStay, SignedRows DEF Inv, TypeInv, Grows, Nonce
<1>2. Signed' \subseteq Envelopes
  <2>1. envelopes' \in Seq(EnvelopeRow) /\ Len(envelopes') <= MaxEnvelopes
    BY EnvelopesStep DEF EnvelopesOK
  <2>2. Signed' = 1 .. Len(envelopes') /\ Len(envelopes') \in Nat
    BY <2>1 DEF Signed
  <2> QED BY <2>1, <2>2, ConstantsAssumption DEF Envelopes
<1>3. \A f : Status(db, f)' = Status(db, f)
  BY DEF Status
<1>4. \A f \in Envelopes : Status(db, f) # "none" => f \in Signed
  BY <1>1 DEF JournalOK, IntentsOK
<1> QED BY <1>1, <1>2, <1>3, <1>4

\* What was below the chain's count at a pass is below it until the chain is
\* reorganised.
LEMMA HistoryStays ==
    ASSUME Inv, [Next]_vars, db'.intents = db.intents, NEW seen \in 0 .. epoch,
           seen = epoch => \A f \in Signed : Status(db, f) # "none" => Nonce(f) < Latest,
           seen = epoch'
    PROVE  /\ seen = epoch
           /\ \A f \in Signed' : Status(db, f)' # "none" => Nonce(f)' < Latest'
<1>1. seen = epoch /\ epoch' = epoch
  <2>1. epoch \in Nat /\ epoch' \in Nat /\ epoch' >= epoch
    BY EpochGrows
  <2> QED BY <2>1
<1>2. Latest \in Nat /\ Latest' \in Nat /\ Latest' >= Latest
  BY <1>1, ChainGrows, NetworkStep DEF Inv, TypeInv, NetworkOK, Latest
<1>3. ASSUME NEW f \in Signed', Status(db, f)' # "none" PROVE Nonce(f)' < Latest'
  <2>1. f \in Signed /\ Status(db, f) # "none" /\ Nonce(f)' = Nonce(f) /\ Nonce(f) \in Nat
    BY <1>3, RowsStay
  <2>2. Nonce(f) < Latest
    BY <1>1, <2>1
  <2> QED BY <1>2, <2>1, <2>2
<1> QED BY <1>1, <1>3

\* What a holder that does nothing relies on stays true.
LEMMA HoldsStill ==
    ASSUME Inv, [Next]_vars, NEW p \in Processes, Holds(p), local'[p] = local[p],
           db'.intents = db.intents, db'.fence = db.fence \/ db'.fence = NoFence,
           db.reserved = {} => db'.reserved = {}
    PROVE  Holds(p)'
<1>1. /\ Grows /\ EnvelopesOK /\ JournalOK(db) /\ StateOK(local[p])
      /\ \A e \in Signed : Nonce(e)' = Nonce(e)
  BY SignaturesStay, InvBefore DEF Inv, TypeInv, Before, ProcessOK, Grows, Nonce
<1>2. \A f \in Signed' : Status(db, f) # "none" => f \in Signed
  <2>1. Signed' \subseteq Envelopes
    <3>1. envelopes' \in Seq(EnvelopeRow) /\ Len(envelopes') <= MaxEnvelopes
      BY EnvelopesStep DEF EnvelopesOK
    <3>2. Signed' = 1 .. Len(envelopes') /\ Len(envelopes') \in Nat
      BY <3>1 DEF Signed
    <3> QED BY <3>1, <3>2, ConstantsAssumption DEF Envelopes
  <2> QED BY <1>1, <2>1 DEF JournalOK, IntentsOK
<1>3. \A f : Status(db, f)' = Status(db, f)
  BY DEF Status
<1>4. Unresolved(db)' = Unresolved(db)
  BY <1>3 DEF Unresolved
<1>5. \A f : Waits(db, f)' <=> Waits(db, f)
  BY <1>3 DEF Waits
<1>6. ASSUME NEW n, \A f \in Signed : Status(db, f) # "none" => Nonce(f) < n
      PROVE  \A f \in Signed' : Status(db, f)' # "none" => Nonce(f)' < n
  BY <1>1, <1>2, <1>3, <1>6
<1>7. ASSUME At(p, "write")
      PROVE  /\ Status(db, local[p].env)' = "pending"
             /\ \A f \in Signed' : Waits(db, f)' /\ Nonce(f)' = Nonce(local[p].env)' => Status(db, f)' = "pending"
  <2>1. PICK e : e = local[p].env
    OBVIOUS
  <2>2. e \in Signed /\ local'[p].env = e
    BY <1>1, <1>7, <2>1 DEF StateOK, At, BatchSteps
  <2>3. /\ Status(db, e) = "pending"
        /\ \A f \in Signed : Waits(db, f) /\ Nonce(f) = Nonce(e) => Status(db, f) = "pending"
    BY <1>7, <2>1 DEF Holds
  <2>4. \A f \in Signed' : Waits(db, f) => f \in Signed
    BY <1>2 DEF Waits
  <2>5. /\ Status(db, e)' = "pending"
        /\ \A f \in Signed' : Waits(db, f)' /\ Nonce(f)' = Nonce(e)' => Status(db, f)' = "pending"
    BY <1>1, <1>3, <1>5, <2>2, <2>3, <2>4
  <2> QED BY <2>2, <2>5
<1>8. At(p, "check") => db'.intents[local'[p].env].replay = "unvalidated"
  BY DEF Holds
<1>9. local[p].epoch \in 0 .. epoch
  BY DEF Inv, TypeInv, ProcessesOK, Process
<1>10. ASSUME local'[p].step \in {"admit", "allocate"} \cup PlainSteps, local'[p].epoch = epoch'
       PROVE  \A f \in Signed' : Status(db, f)' # "none" => Nonce(f)' < Latest'
  <2>1. local[p].epoch = epoch => \A f \in Signed : Status(db, f) # "none" => Nonce(f) < Latest
    BY <1>10 DEF Holds
  <2> QED BY <1>9, <1>10, <2>1, HistoryStays
<1>11. ASSUME At(p, "plainSend"), local'[p].epoch = epoch'
       PROVE  \A f \in Signed' : Status(db, f)' # "none" => Nonce(f)' < local'[p].nonce
  <2>1. local[p].epoch = epoch
    <3>1. "plainSend" \in PlainSteps
      BY DEF PlainSteps
    <3>2. local[p].epoch = epoch => \A f \in Signed : Status(db, f) # "none" => Nonce(f) < Latest
      BY <1>11, <3>1 DEF Holds, At
    <3> QED BY <1>9, <1>11, <3>2, HistoryStays
  <2>2. \A f \in Signed : Status(db, f) # "none" => Nonce(f) < local[p].nonce
    BY <1>11, <2>1 DEF Holds
  <2> QED BY <1>6, <2>2
<1>12. At(p, "reserve") => \A f \in Signed' : Status(db, f)' # "none" => Nonce(f)' < local'[p].nonce
  BY <1>6 DEF Holds
<1>13. /\ local'[p].step \notin {"idle", "sending", "sent"} => db'.fence = NoFence
       /\ local'[p].step \notin {"idle", "begin", "sign", "signAlternative"} => db'.reserved = {}
       /\ local'[p].step \in {"archive", "admit", "allocate"} \cup PlainSteps => Unresolved(db)' = {}
  BY <1>4 DEF Holds
<1> QED BY <1>7, <1>8, <1>10, <1>11, <1>12, <1>13 DEF Holds, At

\* The holder, if there is one, does nothing.
LEMMA GuestActs ==
    ASSUME Inv, [Next]_vars,
           \A q \in Processes : lease' = q => lease = q /\ local'[q] = local[q],
           db'.intents = db.intents, db'.fence = db.fence \/ db'.fence = NoFence,
           db.reserved = {} => db'.reserved = {}
    PROVE  HolderOK'
BY HoldsStill DEF Inv, HolderOK

\* The holder acts, and keeps the lease or not.
LEMMA OwnerActs ==
    ASSUME NEW p \in Processes, lease = p, EndsOrKeeps(p), UNCHANGED leasing => Holds(p)'
    PROVE  HolderOK'
<1>1. lease' = Free \/ Holds(p)'
  BY DEF EndsOrKeeps, Ends
<1>2. lease' \in {p, Free}
  BY DEF EndsOrKeeps, Ends, leasing
<1> QED BY <1>1, <1>2, NamesAssumption DEF HolderOK

\* What suffices at most steps.
LEMMA HoldsPlainly ==
    ASSUME NEW p \in Processes, db'.fence = NoFence, db'.reserved = {},
           local'[p].step \notin {"archive", "admit", "allocate", "reserve", "write", "check"} \cup PlainSteps
    PROVE  Holds(p)'
BY DEF Holds, At, PlainSteps

\* What a pass and a submission do to the reservations.
LEMMA ReservedStays ==
    ASSUME NEW p \in Processes, Before(p), Pass(p) \/ Submit(p), ~Reserve(p), ~ReserveAlternative(p)
    PROVE  db'.reserved = {} \/ db'.reserved = db.reserved
<1>1. db \in Journals /\ JournalOK(db) /\ EnvelopesOK /\ NetworkOK
  BY DEF Before, JournalsOK
<1>2. CASE AttemptWrite
  BY <1>1, <1>2, AttemptWriteKeeps
<1>3. ASSUME NEW r \in db.reserved, Resumable(r), Normal(Transferred(db, r))
      PROVE  db'.reserved = {}
  BY <1>1, <1>3, TransferKeeps DEF Resumable, Normal, Unsynced
<1>4. CASE Persist(p)
  <2>1. PICK r \in db.reserved : /\ r.env # 0 /\ r.original = 0
                                 /\ Normal(Record(Transferred(db, r), r.op, "submitted", r.nonce, r.env))
    BY <1>4 DEF Persist
  <2>2. PICK t : t = Transferred(db, r)
    OBVIOUS
  <2>3. t.reserved = {} /\ t \in Journals
    BY <1>1, <2>1, <2>2, TransferKeeps DEF JournalOK, RowsOK
  <2> QED BY <2>1, <2>2, <2>3 DEF Normal, Unsynced, Record, Journals
<1>5. CASE Prevent(p)
  <2>1. PICK e : Full([Record(db, Op(e), "prevented", Nonce(e), e) EXCEPT !.intents[e].status = "prevented"])
    BY <1>5 DEF Prevent
  <2>2. PICK t : t = Record(db, Op(e), "prevented", Nonce(e), e)
    OBVIOUS
  <2>3. t.reserved = db.reserved /\ "reserved" \in DOMAIN t
    BY <1>1, <2>2 DEF Record, Journals
  <2> QED BY <2>1, <2>2, <2>3 DEF Full
<1>6. CASE RetirePrevented(p)
  <2>1. PICK e : Full([Close(db, Op(e)) EXCEPT !.intents[e] = NoIntent, !.retired = @ \cup {e}])
    BY <1>6 DEF RetirePrevented
  <2>2. PICK t : t = Close(db, Op(e))
    OBVIOUS
  <2>3. t.reserved = db.reserved /\ "reserved" \in DOMAIN t
    BY <1>1, <2>2 DEF Close, Journals
  <2> QED BY <2>1, <2>2, <2>3 DEF Full
<1>7. CASE WriteReceipt(p)
  <2>1. PICK e, intents : Normal([Record(db, Op(e), "confirmed", Nonce(e), e) EXCEPT !.intents = intents])
    BY <1>7 DEF WriteReceipt
  <2>2. PICK t : t = Record(db, Op(e), "confirmed", Nonce(e), e)
    OBVIOUS
  <2>3. t.reserved = db.reserved /\ "reserved" \in DOMAIN t
    BY <1>1, <2>2 DEF Record, Journals
  <2> QED BY <2>1, <2>2, <2>3 DEF Normal, Unsynced
<1>8. CASE Archive(p)
  <2>1. PICK intents : Normal([db EXCEPT !.intents = intents])
    BY <1>8, <1>1 DEF Archive
  <2> QED BY <1>1, <2>1 DEF Normal, Unsynced, Journals
<1>9. CASE AdmitConfirmed(p) \/ AdmitUnknown(p) \/ AdmitSubmitted(p) \/ Allocate(p) \/ PrepareFails(p)
  <2>1. AttemptWrite
    BY <1>9, Zenon DEF AdmitConfirmed, AdmitUnknown, AdmitSubmitted, Allocate, PrepareFails, AttemptWrite
  <2> QED BY <1>2, <2>1
<1>10. CASE ResumeAlternative(p) \/ TransferAlternative(p)
  BY <1>3, <1>10 DEF ResumeAlternative, TransferAlternative
<1>11. CASE Quiet(p)
  BY <1>11, QuietIsQuiet
<1> QED BY <1>4, <1>5, <1>6, <1>7, <1>8, <1>9, <1>10, <1>11 DEF Pass, Submit, Quiet

\* A pass that ends has seen all that the journal knows below the chain's count.
LEMMA HistoryIsMined ==
    ASSUME EnvelopesOK, NetworkOK, JournalOK(db), Unresolved(db) = {},
           \A e \in Proven(db) : Status(db, e) = "confirmed" => Canonical(e)
    PROVE  \A f \in Signed : Status(db, f) # "none" => Nonce(f) < Latest
<1>1. \A f \in Signed : f \in Envelopes /\ Nonce(f) \in Nat
  BY SignedRows
<1>2. final \in Nat /\ Latest \in Nat /\ final <= Latest
  BY DEF NetworkOK, Latest
<1>3. ASSUME NEW f \in Signed, Status(db, f) \in {"confirmed", "finalized"} PROVE Nonce(f) < Latest
  <2>1. CASE Status(db, f) = "confirmed"
    BY <1>1, <1>3, <2>1 DEF Proven, Canonical, Mined
  <2>2. CASE Status(db, f) = "finalized"
    <3>1. Nonce(f) < final
      BY <2>2 DEF JournalOK, IntentsOK, Final
    <3> QED BY <1>1, <1>2, <3>1
  <2> QED BY <1>3, <2>1, <2>2
<1>4. ASSUME NEW f \in Signed, Status(db, f) # "none" PROVE Nonce(f) < Latest
  <2>1. Status(db, f) \in {"confirmed", "finalized", "superseded"}
    <3>1. db.intents[f] \in Intent
      BY <1>1 DEF JournalOK, RowsOK, Journals
    <3>2. Status(db, f) \in IntentStatuses
      BY <3>1 DEF Intent, Status
    <3>3. Status(db, f) \notin {"pending", "prevented"}
      BY <1>1 DEF Unresolved
    <3> QED BY <1>4, <3>2, <3>3 DEF IntentStatuses
  <2>2. CASE Status(db, f) = "superseded"
    <3>1. PICK g \in Signed : Status(db, g) \in {"confirmed", "finalized"} /\ Nonce(g) = Nonce(f)
      BY <2>2 DEF JournalOK, IntentsOK
    <3> QED BY <1>3, <3>1
  <2> QED BY <1>3, <2>1, <2>2
<1> QED BY <1>4

\* A pass keeps what the holder of the lease relies on.
LEMMA PassHolds ==
    ASSUME Inv, [Next]_vars, NEW p \in Processes, Pass(p)
    PROVE  HolderOK'
<1>1. /\ Before(p) /\ lease = p /\ EndsOrKeeps(p) /\ Holds(p) /\ EnvelopesOK /\ JournalOK(db)
      /\ local \in [Processes -> Process] /\ local[p] \in Process /\ db \in Journals
  BY InvBefore, PassGoes, LeaseEffect DEF Before, HolderOK, Owns, ProcessesOK, JournalsOK
<1> SUFFICES ASSUME UNCHANGED leasing PROVE Holds(p)'
  BY <1>1, OwnerActs
<1>2. /\ db'.fence = NoFence /\ local[p].step \in PassSteps
      /\ local'[p].step \in PassSteps \cup {"idle", "ready", "dispatch", "admit"}
  BY <1>1, FenceStays, PassGoes DEF Holds, PassSteps
<1>3. ASSUME db'.reserved = {}, local'[p].step \notin {"archive", "admit", "write"} PROVE Holds(p)'
  BY <1>2, <1>3, HoldsPlainly DEF PassSteps, PlainSteps
<1>4. CASE ResumeAlternative(p)
  <2>1. local'[p].step = "begin"
    BY <1>4 DEF ResumeAlternative, At
  <2> QED BY <1>2, <2>1 DEF Holds, At, PlainSteps
<1>5. CASE ReserveAlternative(p)
  <2>1. local'[p].step = "signAlternative"
    BY <1>1, <1>5 DEF ReserveAlternative, Goto, Process
  <2> QED BY <1>2, <2>1 DEF Holds, At, PlainSteps
<1>6. CASE Archive(p)
  <2>1. local[p].step = "archive" /\ db.reserved = {} /\ Unresolved(db) = {}
    BY <1>1, <1>6 DEF Archive, At, Holds
  <2>2. db'.reserved = {}
    BY <1>1, <1>6, <2>1, ReservedStays DEF Archive, Reserve, ReserveAlternative, At
  <2>3. PICK intents : /\ intents = [e \in Envelopes |->
                            IF Status(db, e) = "confirmed" /\ Final(e)
                            THEN [db.intents[e] EXCEPT !.status = "finalized"] ELSE db.intents[e]]
                       /\ db' = [db EXCEPT !.intents = intents]
    BY <1>1, <1>6 DEF Archive, Normal, Unsynced
  <2>4. db'.intents = intents
    BY <1>1, <2>3 DEF Journals
  <2>5. \A e \in Envelopes : intents[e].status \in {"finalized", Status(db, e)}
    <3>1. ASSUME NEW e \in Envelopes PROVE intents[e].status \in {"finalized", Status(db, e)}
      <4>1. db.intents[e] \in Intent
        BY <1>1 DEF Journals
      <4> QED BY <2>3, <4>1 DEF Intent, Status
    <3> QED BY <3>1
  <2>6. Unresolved(db)' = {}
    BY <2>1, <2>4, <2>5 DEF Unresolved, Status
  <2>7. CASE Ends(p)
    <3>1. local'[p].step = "idle"
      BY <1>1, <2>7 DEF Ends, Idle
    <3> QED BY <1>3, <2>2, <3>1
  <2>8. CASE local' = [local EXCEPT ![p].step = "admit", ![p].epoch = epoch]
    <3>1. local'[p].step = "admit"
      <4>1. local'[p] = [local[p] EXCEPT !.step = "admit", !.epoch = epoch]
        BY <1>1, <2>8
      <4> QED BY <1>1, <4>1 DEF Process
    <3>2. \A f \in Signed : Status(db, f) # "none" => Nonce(f) < Latest
      BY <1>1, <1>6, <2>1, HistoryIsMined DEF Archive, Before
    <3>3. UNCHANGED <<envelopes, chain>>
      BY <1>6 DEF Archive, signing, network
    <3>4. ASSUME NEW f \in Signed', Status(db, f)' # "none" PROVE Nonce(f)' < Latest'
      <4>1. f \in Signed /\ Nonce(f)' = Nonce(f) /\ Latest' = Latest /\ f \in Envelopes
        BY <1>1, <3>3, SignedRows DEF Signed, Nonce, Latest
      <4>2. Status(db, f) # "none"
        <5>1. Status(db, f)' = IF Status(db, f) = "confirmed" /\ Final(f) THEN intents[f].status
                               ELSE Status(db, f)
          BY <2>3, <2>4, <4>1 DEF Status
        <5> QED BY <3>4, <5>1
      <4> QED BY <3>2, <4>1, <4>2
    <3> QED BY <1>2, <2>2, <2>6, <3>1, <3>4 DEF Holds, At, PlainSteps
  <2> QED BY <1>6, <2>7, <2>8 DEF Archive
<1>7. CASE ReadReceipts(p)
  <2>1. local[p].step = "read" /\ db' = db /\ envelopes' = envelopes /\ db.reserved = {}
    BY <1>1, <1>7 DEF ReadReceipts, At, Holds, journal, signing
  <2>2. CASE Active = {} /\ Goto(p, "archive")
    <3>1. local'[p].step = "archive"
      BY <1>1, <2>2 DEF Goto, Process
    <3>2. \A e \in Unresolved(db) : e \in Signed /\ Nonce(e) \in Nat
      BY <1>1, SignedRows DEF Unresolved, JournalOK, IntentsOK
    <3>3. Unresolved(db) = {}
      BY <2>2, <3>2, SomethingIsActive
    <3>4. Unresolved(db)' = {}
      BY <2>1, <3>3 DEF Unresolved, Status
    <3> QED BY <1>2, <2>1, <3>1, <3>4 DEF Holds, At, PlainSteps
  <2>3. ASSUME NEW env, local' = [local EXCEPT ![p].step = "replay", ![p].env = env]
        PROVE  Holds(p)'
    <3>1. local'[p] = [local[p] EXCEPT !.step = "replay", !.env = env]
      BY <1>1, <2>3
    <3>2. local'[p].step = "replay"
      BY <1>1, <3>1 DEF Process
    <3> QED BY <1>3, <2>1, <3>2
  <2>4. ASSUME NEW e \in Active, \A f \in Active : Status(db, f) = "pending", NEW block,
               local' = [local EXCEPT ![p].step = "write", ![p].env = e, ![p].epoch = block]
        PROVE  Holds(p)'
    <3>1. local'[p] = [local[p] EXCEPT !.step = "write", !.env = e, !.epoch = block]
      BY <1>1, <2>4
    <3>2. local'[p].step = "write" /\ local'[p].env = e
      BY <1>1, <3>1 DEF Process
    <3>3. \A f \in Signed : Waits(db, f) /\ Nonce(f) = Nonce(e) => f \in Active
      BY <1>1, SignedRows DEF Active, Unresolved, Waits
    <3>4. Status(db, e)' = "pending"
      BY <2>1, <2>4 DEF Status
    <3>5. \A f \in Signed' : Waits(db, f)' /\ Nonce(f)' = Nonce(e)' => Status(db, f)' = "pending"
      BY <2>1, <2>4, <3>3 DEF Status, Waits, Signed, Nonce
    <3> QED BY <1>2, <2>1, <3>2, <3>4, <3>5 DEF Holds, At, PlainSteps
  <2>5. \/ Active = {} /\ Goto(p, "archive")
        \/ \E env : local' = [local EXCEPT ![p].step = "replay", ![p].env = env]
        \/ \E e \in Active : \E block :
              /\ \A f \in Active : Status(db, f) = "pending"
              /\ local' = [local EXCEPT ![p].step = "write", ![p].env = e, ![p].epoch = block]
    BY <1>7, Zenon DEF ReadReceipts
  <2> QED BY <2>2, <2>3, <2>4, <2>5
<1>8. CASE TransferAlternative(p)
  <2>1. PICK r \in db.reserved : /\ Resumable(r) /\ db' = Transferred(db, r)
                                 /\ local' = [local EXCEPT ![p].step = "replay", ![p].env = r.env, ![p].kind = "supersede"]
    BY <1>8 DEF TransferAlternative, Normal, Unsynced
  <2>2. db'.reserved = {}
    BY <1>1, <2>1, TransferKeeps DEF Resumable, Before
  <2>3. local'[p] = [local[p] EXCEPT !.step = "replay", !.env = r.env, !.kind = "supersede"]
    BY <1>1, <2>1
  <2>4. local'[p].step = "replay"
    BY <1>1, <2>3 DEF Process
  <2> QED BY <1>3, <2>2, <2>4
<1>9. CASE \/ BeginPass(p) \/ RetirePrevented(p) \/ WriteReceipt(p) \/ Replay(p)
           \/ PlanAlternative(p) \/ PlanUnavailable(p)
  <2>1. db.reserved = {}
    BY <1>1, <1>9 DEF BeginPass, RetirePrevented, WriteReceipt, Replay, PlanAlternative,
                      PlanUnavailable, At, Holds
  <2>2. db'.reserved = {}
    <3>1. CASE RetirePrevented(p) \/ WriteReceipt(p)
      BY <1>1, <2>1, <3>1, ReservedStays DEF RetirePrevented, WriteReceipt, Reserve, ReserveAlternative, At
    <3>2. CASE Quiet(p)
      BY <2>1, <3>2, QuietIsQuiet
    <3> QED BY <1>9, <3>1, <3>2 DEF Quiet
  <2>3. local'[p].step \notin {"archive", "admit", "write"}
    <3>1. CASE BeginPass(p) \/ PlanAlternative(p)
      BY <1>1, <3>1 DEF BeginPass, PlanAlternative, Goto, Process
    <3>2. CASE RetirePrevented(p)
      BY <3>2 DEF RetirePrevented, At
    <3>3. CASE WriteReceipt(p)
      <4>1. local'[p] = [local[p] EXCEPT !.step = "read", !.env = 0, !.epoch = 0]
        BY <1>1, <3>3 DEF WriteReceipt
      <4> QED BY <1>1, <4>1 DEF Process
    <3>4. CASE Replay(p) \/ PlanUnavailable(p)
      <4>1. PICK step \in {"ready", "dispatch"}, kind \in {"supersede", "replay"} :
                local' = [local EXCEPT ![p].step = step, ![p].kind = kind]
        BY <3>4 DEF Replay, PlanUnavailable
      <4>2. local'[p] = [local[p] EXCEPT !.step = step, !.kind = kind]
        BY <1>1, <4>1
      <4> QED BY <1>1, <4>2 DEF Process
    <3> QED BY <1>9, <3>1, <3>2, <3>3, <3>4
  <2> QED BY <1>3, <2>2, <2>3
<1>10. CASE PassBlocked(p)
  <2>1. local'[p].step = "idle"
    BY <1>1, <1>10 DEF PassBlocked, Ends, Idle
  <2> QED BY <2>1 DEF Holds, At, PlainSteps
<1> QED BY <1>4, <1>5, <1>6, <1>7, <1>8, <1>9, <1>10 DEF Pass

\* So does a submission.
LEMMA SubmitHolds ==
    ASSUME Inv, [Next]_vars, NEW p \in Processes, Submit(p)
    PROVE  HolderOK'
<1>1. /\ Before(p) /\ lease = p /\ EndsOrKeeps(p) /\ Holds(p) /\ EnvelopesOK /\ NetworkOK /\ JournalOK(db)
      /\ local \in [Processes -> Process] /\ local[p] \in Process /\ db \in Journals
  BY InvBefore, SubmitGoes, LeaseEffect DEF Before, HolderOK, Owns, ProcessesOK, JournalsOK
<1> SUFFICES ASSUME UNCHANGED leasing PROVE Holds(p)'
  BY <1>1, OwnerActs
<1>2. db'.fence = NoFence /\ local[p].step \in SubmitSteps /\ UNCHANGED <<envelopes, chain, epoch>>
  BY <1>1, FenceStays, SubmitGoes, SubmitFrame DEF Holds, SubmitSteps
<1>3. CASE Ends(p)
  <2>1. local'[p].step = "idle"
    BY <1>1, <1>3 DEF Ends, Idle
  <2> QED BY <2>1 DEF Holds, At, PlainSteps
<1>4. ASSUME db'.intents = db.intents PROVE Unresolved(db)' = Unresolved(db)
  BY <1>4 DEF Unresolved, Status
<1>5. ASSUME db'.intents = db.intents, NEW n,
             \A f \in Signed : Status(db, f) # "none" => Nonce(f) < n
      PROVE  \A f \in Signed' : Status(db, f)' # "none" => Nonce(f)' < n
  BY <1>2, <1>5 DEF Status, Signed, Nonce
<1>6. ASSUME local[p].step \in {"admit", "allocate"}, local[p].epoch = epoch
      PROVE  \A f \in Signed : Status(db, f) # "none" => Nonce(f) < Latest
  BY <1>1, <1>6 DEF Holds
<1>7. ASSUME AttemptWrite, local[p].step \in {"admit", "allocate"},
             local'[p].epoch = local[p].epoch,
             local'[p].step \in {"allocate", "plainSend"},
             local'[p].step = "plainSend" =>
                (local[p].epoch = epoch => \A f \in Signed : Status(db, f) # "none" => Nonce(f) < local'[p].nonce)
      PROVE  Holds(p)'
  <2>1. db'.intents = db.intents /\ db'.reserved = {} /\ Unresolved(db) = {}
    BY <1>1, <1>7, AttemptWriteKeeps DEF Holds
  <2>2. ASSUME local'[p].epoch = epoch'
        PROVE  /\ \A f \in Signed' : Status(db, f)' # "none" => Nonce(f)' < Latest
               /\ local'[p].step = "plainSend" =>
                    \A f \in Signed' : Status(db, f)' # "none" => Nonce(f)' < local'[p].nonce
    <3>1. local[p].epoch = epoch
      BY <1>2, <1>7, <2>2
    <3>2. \A f \in Signed : Status(db, f) # "none" => Nonce(f) < Latest
      BY <1>6, <1>7, <3>1
    <3>3. local'[p].step = "plainSend" =>
             \A f \in Signed : Status(db, f) # "none" => Nonce(f) < local'[p].nonce
      BY <1>7, <3>1
    <3> QED BY <1>5, <2>1, <3>2, <3>3
  <2>3. Latest' = Latest
    BY <1>2 DEF Latest
  <2>4. Unresolved(db)' = {}
    BY <1>4, <2>1
  <2> QED BY <1>2, <1>7, <2>1, <2>2, <2>3, <2>4 DEF Holds, At, PlainSteps
<1>8. ASSUME local[p].step \in {"admit", "allocate"}, local[p].epoch = epoch, NEW n \in Nat, Latest <= n
      PROVE  \A f \in Signed : Status(db, f) # "none" => Nonce(f) < n
  <2>1. Latest \in Nat
    BY <1>1, LatestIsUsed
  <2>2. \A f \in Signed : Nonce(f) \in Nat
    BY <1>1, SignedRows
  <2> QED BY <1>6, <1>8, <2>1, <2>2
<1>9. CASE AdmitFresh(p) \/ AdmitConfirmed(p) \/ AdmitUnknown(p)
  <2>1. AttemptWrite /\ local[p].step = "admit" /\ (Ends(p) \/ Goto(p, "allocate"))
    BY <1>9, Zenon DEF AdmitFresh, AdmitConfirmed, AdmitUnknown, AttemptWrite, At
  <2>2. Goto(p, "allocate") => local'[p].step = "allocate" /\ local'[p].epoch = local[p].epoch
    BY <1>1 DEF Goto, Process
  <2> QED BY <1>3, <1>7, <2>1, <2>2
<1>10. CASE AdmitSubmitted(p)
  <2>1. PICK nonce : nonce = Attempt(p).nonce
    OBVIOUS
  <2>2. \/ Ends(p)
        \/ /\ AttemptWrite /\ local[p].step = "admit" /\ Latest <= nonce /\ local[p].op \in Ops
           /\ \E kind, target :
                 local' = [local EXCEPT ![p].step = "plainSend", ![p].kind = kind,
                                        ![p].target = target, ![p].nonce = nonce]
    <3>1. CASE Ends(p)
      BY <3>1
    <3>2. CASE ~Ends(p)
      <4>1. /\ local[p].step = "admit" /\ UNCHANGED journal /\ Latest <= nonce /\ local[p].op \in PlainOps
            /\ local' = [local EXCEPT ![p].step = "plainSend", ![p].kind = "replace",
                                      ![p].target = local[p].op, ![p].nonce = nonce]
        BY <1>10, <2>1, <3>2 DEF AdmitSubmitted, At
      <4>2. \E kind, target :
               local' = [local EXCEPT ![p].step = "plainSend", ![p].kind = kind,
                                      ![p].target = target, ![p].nonce = nonce]
        BY <4>1, Zenon
      <4> QED BY <4>1, <4>2 DEF AttemptWrite, Ops
    <3> QED BY <3>1, <3>2
  <2>3. ASSUME AttemptWrite, local[p].step = "admit", Latest <= nonce, local[p].op \in Ops, NEW kind, NEW target,
               local' = [local EXCEPT ![p].step = "plainSend", ![p].kind = kind,
                                      ![p].target = target, ![p].nonce = nonce]
        PROVE  Holds(p)'
    <3>1. local'[p] = [local[p] EXCEPT !.step = "plainSend", !.kind = kind, !.target = target, !.nonce = nonce]
      BY <1>1, <2>3
    <3>2. local'[p].step = "plainSend" /\ local'[p].nonce = nonce /\ local'[p].epoch = local[p].epoch
      BY <1>1, <3>1 DEF Process
    <3>3. nonce \in Nat
      <4>1. nonce \in Used
        BY <1>1, <2>1, <2>3 DEF Journals, Attempts, Attempt
      <4> QED BY <1>1, <4>1 DEF Used, EnvelopesOK
    <3> QED BY <1>7, <1>8, <2>3, <3>2, <3>3
  <2> QED BY <1>3, <2>2, <2>3
<1>11. CASE CancelStale(p)
  <2>1. PICK target : local' = [local EXCEPT ![p].step = "plainSend", ![p].kind = "cancel",
                                             ![p].target = target, ![p].nonce = Latest]
    BY <1>11 DEF CancelStale
  <2>2. local'[p] = [local[p] EXCEPT !.step = "plainSend", !.kind = "cancel", !.target = target, !.nonce = Latest]
    BY <1>1, <2>1
  <2>3. /\ local'[p].step = "plainSend" /\ local'[p].nonce = Latest /\ Latest \in Nat
        /\ local'[p].epoch = local[p].epoch
    BY <1>1, <2>2, LatestIsUsed DEF Process
  <2>4. local[p].step = "allocate" /\ AttemptWrite
    BY <1>11 DEF CancelStale, At, AttemptWrite
  <2> QED BY <1>6, <1>7, <2>3, <2>4
<1>12. CASE Allocate(p)
  <2>1. PICK nonce : nonce = Pending
    OBVIOUS
  <2>2. nonce \in Nat
    <3>1. Pending \in Used
      BY <1>1, <1>12, LatestIsUsed DEF Allocate
    <3> QED BY <1>1, <2>1, <3>1 DEF Used, EnvelopesOK
  <2>3. /\ local[p].step = "allocate" /\ AttemptWrite
        /\ \A f \in Signed : Status(db, f) # "none" => ~(Nonce(f) >= nonce)
        /\ \E step \in {"reserve", "plainSend"} : \E target :
              local' = [local EXCEPT ![p].nonce = nonce, ![p].step = step, ![p].target = target]
    BY <1>12, <2>1 DEF Allocate, Retained, At, AttemptWrite
  <2>10. PICK step \in {"reserve", "plainSend"} :
            \E target : local' = [local EXCEPT ![p].nonce = nonce, ![p].step = step, ![p].target = target]
    BY <2>3
  <2>4. PICK target :
            local' = [local EXCEPT ![p].nonce = nonce, ![p].step = step, ![p].target = target]
    BY <2>10
  <2>5. local'[p] = [local[p] EXCEPT !.nonce = nonce, !.step = step, !.target = target]
    BY <1>1, <2>4
  <2>6. local'[p].step = step /\ local'[p].nonce = nonce /\ local'[p].epoch = local[p].epoch
    BY <1>1, <2>5 DEF Process
  <2>7. \A f \in Signed : Status(db, f) # "none" => Nonce(f) < nonce
    BY <1>1, <2>2, <2>3, SignedRows
  <2>8. db'.intents = db.intents /\ db'.reserved = {} /\ Unresolved(db) = {}
    BY <1>1, <2>3, AttemptWriteKeeps DEF Holds
  <2>9. CASE step = "reserve"
    BY <1>2, <1>5, <2>6, <2>7, <2>8, <2>9 DEF Holds, At, PlainSteps
  <2> QED BY <1>7, <2>3, <2>6, <2>7, <2>9
<1>13. CASE Reserve(p)
  <2>1. local'[p].step = "sign"
    BY <1>1, <1>13 DEF Reserve, Goto, Process
  <2> QED BY <1>2, <2>1 DEF Holds, At, PlainSteps
<1>14. CASE Persist(p)
  <2>1. PICK r \in db.reserved : /\ r.env # 0 /\ r.original = 0
                                 /\ db' = Record(Transferred(db, r), r.op, "submitted", r.nonce, r.env)
                                 /\ local' = [local EXCEPT ![p].step = "check", ![p].env = r.env, ![p].nonce = 0]
    BY <1>14 DEF Persist, Normal, Unsynced
  <2>2. PICK t : t = Transferred(db, r)
    OBVIOUS
  <2>3. t.reserved = {} /\ t.intents[r.env] = NewIntent /\ t \in Journals
    BY <1>1, <2>1, <2>2, TransferKeeps DEF JournalOK, RowsOK
  <2>4. db'.reserved = {} /\ db'.intents[r.env] = NewIntent
    BY <2>1, <2>2, <2>3 DEF Record, Journals
  <2>5. local'[p] = [local[p] EXCEPT !.step = "check", !.env = r.env, !.nonce = 0]
    BY <1>1, <2>1
  <2>6. local'[p].step = "check" /\ local'[p].env = r.env
    BY <1>1, <2>5 DEF Process
  <2>7. db'.intents[local'[p].env].replay = "unvalidated"
    BY <2>4, <2>6 DEF NewIntent, NoIntent
  <2> QED BY <1>2, <2>4, <2>6, <2>7 DEF Holds, At, PlainSteps
<1>15. CASE NotAdmitted(p) \/ NotAllocated(p) \/ PrepareFails(p) \/ Prevent(p)
  BY <1>3, <1>15 DEF NotAdmitted, NotAllocated, PrepareFails, Prevent
<1> QED BY <1>9, <1>10, <1>11, <1>12, <1>13, <1>14, <1>15 DEF Submit

\* So does a send.
LEMMA SendHolds ==
    ASSUME Inv, [Next]_vars, NEW p \in Processes, Send(p)
    PROVE  HolderOK'
<1>1. /\ Before(p) /\ FenceOK /\ SendOK(p) /\ EnvelopesOK /\ JournalOK(db) /\ EndsOrKeeps(p)
      /\ local \in [Processes -> Process] /\ local[p] \in Process /\ db \in Journals
      /\ local' = [local EXCEPT ![p] = local'[p]]
      /\ \A q \in Processes : lease = q => Holds(q)
  BY InvBefore, SendStates, LeaseEffect
  DEF Before, HolderOK, ProcessesOK, JournalsOK, FenceOK, StateNext
<1>2. \A q \in Processes : q # p => local'[q] = local[q]
  BY <1>1
<1>3. lease' = lease \/ (lease = p /\ lease' = Free)
  BY <1>1 DEF EndsOrKeeps, Ends, leasing
<1>4. Free \notin Processes
  BY NamesAssumption
<1>5. ASSUME Owns(p), local'[p].step \in {"dispatch", "sending", "sent", "idle"}, db'.reserved = db.reserved,
             local'[p].step = "dispatch" => db'.fence = NoFence, local[p].step \notin {"idle", "begin", "sign", "signAlternative"}
      PROVE  HolderOK'
  <2>1. lease = p /\ db.reserved = {}
    BY <1>1, <1>5 DEF Owns, Holds
  <2>2. Holds(p)'
    BY <1>5, <2>1 DEF Holds, At, PlainSteps
  <2> QED BY <1>1, <2>1, <2>2, OwnerActs
<1>6. CASE MarkReady(p)
  <2>1. local[p].step \in {"check", "ready"} /\ local'[p].step = "dispatch" /\ Owns(p)
    BY <1>1, <1>6 DEF MarkReady, Goto, Process
  <2>2. PICK e : db' = [db EXCEPT !.intents[e].replay = "ready"]
    BY <1>6 DEF MarkReady, Normal, Unsynced, Full
  <2>3. db'.fence = db.fence /\ db'.reserved = db.reserved
    BY <1>1, <2>2 DEF Journals
  <2>4. db.fence = NoFence
    BY <1>1, <2>1 DEF Owns, Holds
  <2> QED BY <1>5, <2>1, <2>3, <2>4
<1>7. CASE QuoteExpires(p)
  <2>1. local[p].step \in {"check", "ready", "dispatch"} /\ local'[p].step = "idle" /\ Owns(p) /\ db' = db
    BY <1>1, <1>7 DEF QuoteExpires, Ends, Idle, journal
  <2> QED BY <1>5, <2>1
<1>8. CASE Dispatch(p)
  <2>1. local[p].step = "dispatch" /\ local'[p].step = "sending" /\ Owns(p)
    BY <1>1, <1>8 DEF Dispatch, Goto, Process, At
  <2>2. PICK e, n, fence : db' = [db EXCEPT !.intents[e].attempts = n, !.intents[e].replay = "retryable", !.fence = fence]
    BY <1>8 DEF Dispatch, Full
  <2>3. PICK t : t = [db EXCEPT !.intents[e].attempts = n, !.intents[e].replay = "retryable"]
    OBVIOUS
  <2>4. db' = [t EXCEPT !.fence = fence]
    BY <2>2, <2>3
  <2>5. t.reserved = db.reserved /\ "reserved" \in DOMAIN t
    BY <1>1, <2>3 DEF Journals
  <2>6. db'.reserved = db.reserved
    BY <2>4, <2>5
  <2> QED BY <1>5, <2>1, <2>6
<1>9. CASE Invoke(p)
  <2>1. local[p].step = "sending" /\ local'[p].step = "sent" /\ Owns(p) /\ db' = db
    BY <1>1, <1>9 DEF Invoke, Goto, Process, At, journal
  <2> QED BY <1>5, <2>1
<1>10. CASE NotInvoked(p)
  <2>1. db' = [db EXCEPT !.fence = NoFence] /\ (lease = p => lease' = Free)
    BY <1>10 DEF NotInvoked, Full, Ends
  <2>2. db'.fence = NoFence /\ db'.intents = db.intents /\ db'.reserved = db.reserved
    BY <1>1, <2>1 DEF Journals
  <2>3. \A q \in Processes : lease' = q => lease = q /\ local'[q] = local[q]
    BY <1>2, <1>3, <1>4, <2>1
  <2> QED BY <2>2, <2>3, GuestActs
<1>11. ASSUME NEW e \in Signed, Settle(p, e) PROVE HolderOK'
  <2>1. <<p, e>> \in outstanding /\ IsBatch(e)
    BY <1>11 DEF Settle
  <2>2. db.fence = [owner |-> "running", by |-> p, env |-> e] /\ local[p].step \in {"idle", "sent"}
    BY <1>1, <2>1 DEF SendOK
  <2>3. db.fence # NoFence
    BY <2>2, NamesAssumption DEF NoFence
  <2>4. db'.fence = NoFence /\ db'.reserved = db.reserved
    <3>1. PICK t : t = [db EXCEPT !.fence = NoFence]
      OBVIOUS
    <3>2. t.fence = NoFence /\ t.reserved = db.reserved /\ {"fence", "reserved"} \subseteq DOMAIN t
      BY <1>1, <3>1 DEF Journals
    <3>3. db' = t \/ \E x : db' = [t EXCEPT !.intents[e].replay = x]
      BY <1>11, <3>1 DEF Settle, Full
    <3> QED BY <3>2, <3>3
  <2>5. ASSUME NEW q \in Processes, lease = q
        PROVE  /\ local[q].step \in {"idle", "sending", "sent"}
               /\ local[q].step # "idle" => db.reserved = {}
    BY <1>1, <2>3, <2>5 DEF Holds
  <2>6. ASSUME NEW q \in Processes, lease' = q, local'[q] = local[q] PROVE Holds(q)'
    BY <1>3, <1>4, <2>4, <2>5, <2>6 DEF Holds, At, PlainSteps
  <2>7. ASSUME lease' = p, local'[p] # local[p] PROVE Holds(p)'
    <3>1. lease = p
      BY <1>3, <1>4, <2>7
    <3>2. At(p, "sent") /\ db.reserved = {}
      BY <1>11, <2>5, <2>7, <3>1 DEF Settle, At
    <3>3. PICK step \in {"read", "begin"} : \E next :
             local' = [local EXCEPT ![p] = [Idle EXCEPT !.step = step, !.next = next, !.op = local[p].op]]
      <4>1. PICK kind : kind = local[p].kind
        OBVIOUS
      <4>2. \/ Ends(p)
            \/ local' = [local EXCEPT ![p] = [Idle EXCEPT
                     !.step = IF kind = "replay" THEN "read" ELSE "begin",
                     !.next = IF kind = "replay" THEN local[p].next ELSE "done",
                     !.op = local[p].op]]
        BY <1>11, <3>2, <4>1 DEF Settle
      <4>3. ~Ends(p)
        BY <1>4, <2>7, <3>1 DEF Ends
      <4> QED BY <4>2, <4>3
    <3>4. local'[p].step = step
      BY <1>1, <3>3 DEF Idle
    <3> QED BY <2>4, <3>2, <3>4 DEF Holds, At, PlainSteps
  <2> QED BY <1>2, <2>6, <2>7 DEF HolderOK
<1> QED BY <1>6, <1>7, <1>8, <1>9, <1>10, <1>11 DEF Send

\* So does a plain transaction.
LEMMA PlainHolds ==
    ASSUME Inv, [Next]_vars, NEW p \in Processes, Plain(p)
    PROVE  HolderOK'
<1>1. /\ Before(p) /\ EnvelopesOK /\ JournalOK(db) /\ EndsOrKeeps(p)
      /\ local \in [Processes -> Process] /\ local[p] \in Process /\ db \in Journals
      /\ \A q \in Processes : lease = q => Holds(q)
  BY InvBefore, LeaseEffect DEF Before, HolderOK, ProcessesOK, JournalsOK
<1>2. AttemptWrite
  BY Zenon DEF Plain, PlainSend, PlainUnsent, PlainFails, PlainAccepted, PlainConfirmed,
         PlainUnconfirmed, GivesUp, AttemptWrite
<1>3. db'.intents = db.intents /\ db'.reserved = db.reserved /\ db'.fence = db.fence
  BY <1>1, <1>2, AttemptWriteKeeps
<1>4. local[p].step \in PlainSteps
  BY DEF Plain, PlainSend, PlainUnsent, PlainFails, PlainAccepted, PlainConfirmed,
         PlainUnconfirmed, At, PlainSteps
<1>5. \A q \in Processes : q # p => local'[q] = local[q]
  BY <1>1 DEF Plain, PlainSend, PlainUnsent, PlainFails, PlainAccepted, PlainConfirmed,
         PlainUnconfirmed, GivesUp, StartOver, Goto, Ends
<1>6. lease' = lease \/ (lease = p /\ lease' = Free)
  BY <1>1 DEF EndsOrKeeps, Ends, leasing
<1>7. Free \notin Processes
  BY NamesAssumption
<1>8. CASE lease' # p
  <2>1. \A q \in Processes : lease' = q => lease = q /\ local'[q] = local[q]
    BY <1>5, <1>6, <1>7, <1>8
  <2> QED BY <1>3, <2>1, GuestActs
<1>9. CASE lease' = p
  <2>1. lease = p /\ Holds(p)
    BY <1>1, <1>6, <1>7, <1>9
  <2>2. db'.fence = NoFence /\ db'.reserved = {} /\ Unresolved(db) = {}
    BY <1>3, <1>4, <2>1 DEF Holds, PlainSteps
  <2>3. Unresolved(db)' = {}
    BY <1>3, <2>2 DEF Unresolved, Status
  <2>4. local'[p].step \in {"plainSent", "plainConfirm", "allocate"} /\ local'[p].epoch = local[p].epoch
    <3>1. CASE PlainSend(p)
      <4>1. PICK e : local' = [local EXCEPT ![p].step = "plainSent", ![p].env = e]
        BY <3>1 DEF PlainSend
      <4>2. local'[p] = [local[p] EXCEPT !.step = "plainSent", !.env = e]
        BY <1>1, <4>1
      <4> QED BY <1>1, <4>2 DEF Process
    <3>2. ~Ends(p)
      BY <1>7, <1>9, <2>1 DEF Ends
    <3>3. CASE StartOver(p)
      BY <1>1, <3>3 DEF StartOver, Idle
    <3>4. CASE Goto(p, "plainConfirm")
      BY <1>1, <3>4 DEF Goto, Process
    <3> QED BY <3>1, <3>2, <3>3, <3>4
            DEF Plain, PlainUnsent, PlainFails, PlainAccepted, PlainConfirmed, PlainUnconfirmed, GivesUp
  <2>5. local[p].epoch \in 0 .. epoch
    BY <1>1 DEF Process
  <2>6. local[p].epoch = epoch => \A f \in Signed : Status(db, f) # "none" => Nonce(f) < Latest
    BY <1>4, <2>1 DEF Holds
  <2>7. ASSUME local'[p].epoch = epoch'
        PROVE  \A f \in Signed' : Status(db, f)' # "none" => Nonce(f)' < Latest'
    BY <1>3, <2>4, <2>5, <2>6, <2>7, HistoryStays
  <2>8. Holds(p)'
    BY <2>2, <2>3, <2>4, <2>7 DEF Holds, At, PlainSteps
  <2> QED BY <1>9, <2>8 DEF HolderOK
<1> QED BY <1>8, <1>9

\* So do the other steps of a process.
LEMMA OtherHolds ==
    ASSUME Inv, [Next]_vars, NEW p \in Processes, Others(p)
    PROVE  HolderOK'
<1>1. /\ Before(p) /\ db \in Journals
      /\ local \in [Processes -> Process] /\ local[p] \in Process
      /\ \A q \in Processes : lease = q => Holds(q)
  BY InvBefore DEF Before, HolderOK, ProcessesOK
<1>2. Free \notin Processes
  BY NamesAssumption
<1>3. ASSUME NEW op \in Ops \cup {NoOp}, Acquire(p, op) PROVE HolderOK'
  <2>1. lease' = p /\ local'[p].step = "begin"
    BY <1>1, <1>3, AcquireState DEF Acquire
  <2>2. db'.fence = NoFence
    <3>1. db' = [db EXCEPT !.fence = NoFence]
      BY <1>3 DEF Acquire, Deletes, Full, Unsynced
    <3> QED BY <1>1, <3>1 DEF Journals
  <2>3. Holds(p)'
    BY <2>1, <2>2 DEF Holds, At, PlainSteps
  <2> QED BY <2>1, <2>3 DEF HolderOK
<1>4. CASE Look(p) \/ LooksAgain(p)
  <2>1. PICK look \in {"none", "open", "fenced"} : Looked(p, look)
    BY <1>4 DEF Look, LooksAgain
  <2>2. local'[p].step = "idle" /\ lease' = lease /\ \A q \in Processes : q # p => local'[q] = local[q]
    BY <1>1, <1>4, <2>1, LookState DEF Look, LooksAgain, Looked, At, leasing
  <2>3. db' = db \/ db' = [db EXCEPT !.fence = NoFence]
    BY <1>4 DEF Look, LooksAgain, Deletes, Full, Unsynced, journal
  <2>4. (db'.fence = db.fence \/ db'.fence = NoFence) /\ db'.intents = db.intents /\ db'.reserved = db.reserved
    BY <1>1, <2>3 DEF Journals
  <2>5. Holds(p)'
    BY <2>2 DEF Holds, At, PlainSteps
  <2>6. ASSUME NEW q \in Processes, lease' = q PROVE Holds(q)'
    BY <1>1, <2>2, <2>4, <2>5, <2>6, HoldsStill
  <2> QED BY <2>6 DEF HolderOK
<1>5. CASE RenewLease(p)
  BY <1>5, GuestActs DEF RenewLease, journal
<1>6. ASSUME Ends(p), db'.intents = db.intents, db'.fence = db.fence, db.reserved = {} => db'.reserved = {}
      PROVE  HolderOK'
  <2>1. \A q \in Processes : lease' = q => lease = q /\ local'[q] = local[q]
    BY <1>1, <1>2, <1>6 DEF Ends
  <2> QED BY <1>6, <2>1, GuestActs
<1>7. CASE PassFails(p) \/ LeaseLost(p)
  BY <1>6, <1>7 DEF PassFails, LeaseLost, journal
<1>8. CASE KeyFails(p)
  <2>1. PICK r, reserved : r \in db.reserved /\ Normal([db EXCEPT !.reserved = reserved])
    BY <1>1, <1>8 DEF KeyFails
  <2>2. db'.intents = db.intents /\ db'.fence = db.fence /\ db.reserved # {}
    BY <1>1, <2>1 DEF Normal, Unsynced, Journals
  <2> QED BY <1>6, <1>8, <2>2 DEF KeyFails
<1> QED BY <1>3, <1>4, <1>5, <1>7, <1>8 DEF Others

\* Every step keeps what the holder of the lease relies on.
LEMMA HolderStep ==
    ASSUME Inv, [Next]_vars
    PROVE  HolderOK'
<1>1. /\ db \in Journals /\ local \in [Processes -> Process]
  BY DEF Inv, TypeInv, JournalOK, RowsOK, ProcessesOK
<1>2. {Free, Orphan} \cap Processes = {}
  BY NamesAssumption
<1>3. ASSUME NEW p \in Processes, Crash(p) PROVE HolderOK'
  <2>1. PICK owner : db' = Without(db, p, owner)
    BY <1>3 DEF Crash
  <2>2. PICK fence, reserved : /\ db' = [db EXCEPT !.fence = fence, !.reserved = reserved]
                               /\ db.fence.by # p => fence = db.fence
                               /\ db.reserved = {} => reserved = {}
    BY <1>1, <2>1 DEF Without
  <2>3. db'.intents = db.intents /\ db'.fence = fence /\ db'.reserved = reserved
    BY <1>1, <2>2 DEF Journals
  <2>4. \A q \in Processes : lease' = q => lease = q /\ local'[q] = local[q]
    BY <1>1, <1>2, <1>3 DEF Crash
  <2>5. ASSUME NEW q \in Processes, lease' = q PROVE Holds(q)'
    <3>1. Holds(q) /\ lease = q /\ local'[q] = local[q]
      BY <2>4, <2>5 DEF Inv, HolderOK
    <3>2. CASE fence = db.fence
      BY <2>2, <2>3, <3>1, <3>2, HoldsStill
    <3>3. CASE fence # db.fence
      <4>1. db.fence # NoFence
        BY <2>2, <3>3, <1>2 DEF NoFence
      <4>2. local[q].step \in {"idle", "sending", "sent"} /\ (local[q].step # "idle" => db.reserved = {})
        BY <3>1, <4>1 DEF Holds
      <4> QED BY <2>2, <2>3, <3>1, <4>2 DEF Holds, At, PlainSteps
    <3> QED BY <3>2, <3>3
  <2> QED BY <2>5 DEF HolderOK
<1>4. CASE PowerLoss
  BY <1>2, <1>4 DEF PowerLoss, HolderOK
<1>5. ASSUME NEW r \in db.reserved, Sign(r) PROVE HolderOK'
  <2>1. PICK reserved : Normal([db EXCEPT !.reserved = reserved])
    BY <1>1, <1>5 DEF Sign
  <2>2. db'.intents = db.intents /\ db'.fence = db.fence /\ db.reserved # {}
    BY <1>1, <2>1 DEF Normal, Unsynced, Journals
  <2>3. UNCHANGED <<local, lease>>
    BY <1>5 DEF Sign, leasing
  <2> QED BY <2>2, <2>3, GuestActs
<1>6. ASSUME \/ \E e \in Signed : Mine(e) \/ Drop(e)
             \/ Finalize \/ Reorganise \/ ExpireLease \/ Flush \/ UNCHANGED vars
      PROVE  HolderOK'
  <2>1. UNCHANGED <<local, lease, db>>
    BY <1>6 DEF Mine, Drop, Finalize, Reorganise, ExpireLease, Flush, Full, vars, journal, leasing
  <2> QED BY <2>1, GuestActs
<1>7. ASSUME NEW p \in Processes, Pass(p) \/ Send(p) \/ Submit(p) \/ Plain(p) \/ Others(p)
      PROVE  HolderOK'
  BY <1>7, PassHolds, SendHolds, SubmitHolds, PlainHolds, OtherHolds
<1> QED BY <1>3, <1>4, <1>5, <1>6, <1>7, StepCases

-----------------------------------------------------------------------------
(* The invariant holds in every state, and what follows from it. *)

\* The invariant holds at first.
LEMMA InitInv == Init => Inv
<1> SUFFICES ASSUME Init PROVE Inv
  OBVIOUS
<1>1. JournalsOK
  BY InitJournals
<1>2. /\ envelopes = <<>> /\ sent = {} /\ pool = {} /\ chain = <<>> /\ final = 0 /\ epoch = 0
      /\ lease = Free /\ expired = FALSE /\ local = [p \in Processes |-> Idle] /\ outstanding = {}
      /\ faults = 0
  BY DEF Init
<1>3. EnvelopesOK
  BY <1>2, ConstantsAssumption DEF EnvelopesOK, Signed
<1>4. NetworkOK
  <2>1. PICK S : S = [env : sent, epoch : 0 .. epoch]
    OBVIOUS
  <2>2. chain \in Seq(S) /\ Latest = 0 /\ DOMAIN chain = {}
    BY <1>2, EmptySeq DEF Latest
  <2>3. chain \in Seq([env : sent, epoch : 0 .. epoch])
    BY <2>1, <2>2
  <2>4. \A k \in DOMAIN chain : Nonce(chain[k].env) = k - 1
    BY <2>2
  <2>5. /\ final \in 0 .. Latest /\ epoch \in Nat /\ faults \in 0 .. MaxFaults /\ epoch <= faults
    <3>1. MaxFaults \in Nat
      BY ConstantsAssumption
    <3>2. 0 \in 0 .. MaxFaults /\ 0 \in 0 .. 0
      BY <3>1
    <3> QED BY <1>2, <2>2, <3>2
  <2>6. pool \subseteq sent /\ sent \subseteq Signed
    BY <1>2
  <2>7. lease \in Processes \cup {Free, Orphan} /\ expired \in BOOLEAN
    BY <1>2
  <2> QED BY <1>2, <2>2, <2>3, <2>4, <2>5, <2>6, <2>7 DEF NetworkOK
<1>5. \A p \in Processes : local[p] = Idle /\ local[p].step = "idle"
  BY <1>2 DEF Idle
<1>6. ProcessesOK
  BY <1>2, <1>3, <1>4, <1>5, IdleState DEF ProcessesOK, ProcessOK
<1>7. FenceOK
  BY <1>2, <1>5 DEF FenceOK, SendOK, At
<1>8. HolderOK
  BY <1>2, <1>5, NamesAssumption DEF HolderOK, At
<1> QED BY <1>1, <1>3, <1>4, <1>6, <1>7, <1>8 DEF Inv, TypeInv, JournalsOK

\* Every step keeps the invariant.
LEMMA InvStep == Inv /\ [Next]_vars => Inv'
BY EnvelopesStep, NetworkStep, ProcessesStep, JournalStep, FenceStep, HolderStep
DEF Inv, TypeInv, JournalsOK

\* The invariant holds in every state.
LEMMA InvHolds == Spec => []Inv
<1>1. Inv /\ [Next]_vars => Inv'
  BY InvStep
<1> QED BY InitInv, <1>1, PTL DEF Spec

\* What TypeOK asks of a journal.
LEMMA JournalTypes ==
    ASSUME EnvelopesOK, NEW d, JournalOK(d)
    PROVE  /\ d.attempts \in [Ops -> [status : AttemptStatuses, nonce : Nonces,
                                      env : {0} \cup Signed]]
           /\ \A o \in Ops : d.attempts[o].env # 0 <=>
                  d.attempts[o].status \in {"submitted", "confirmed", "prevented"}
           /\ d.reserved \subseteq Reservation
           /\ d.intents \in [Envelopes -> Intent]
           /\ \A e \in Envelopes : Status(d, e) # "none" => e \in Signed
           /\ d.retired \subseteq Signed
           /\ d.fence = NoFence \/
                /\ d.fence.owner \in {"running", "dead", "foreign"}
                /\ d.fence.by \in Processes /\ Status(d, d.fence.env) # "none"
<1>1. Used \subseteq Nonces
  BY ConstantsAssumption DEF Used, Nonces, EnvelopesOK
<1>2. d \in Journals
  BY DEF JournalOK, RowsOK
<1>3. d.attempts \in [Ops -> [status : AttemptStatuses, nonce : Nonces, env : {0} \cup Signed]]
  BY <1>1, <1>2 DEF Journals, Attempts
<1>4. d.reserved \subseteq Reservation /\ d.intents \in [Envelopes -> Intent] /\ d.retired \subseteq Signed
  BY <1>2 DEF Journals
<1>5. d.fence = NoFence \/
        /\ d.fence.owner \in {"running", "dead", "foreign"}
        /\ d.fence.by \in Processes /\ Status(d, d.fence.env) # "none"
  BY <1>2 DEF Journals, Fences, JournalOK, SentInJournal, Exposed
<1> QED BY <1>3, <1>4, <1>5 DEF JournalOK, AttemptsOK, IntentsOK

\* The type invariant of the model follows.
LEMMA TypesHold ==
    ASSUME Inv
    PROVE  TypeOK
<1>1. /\ EnvelopesOK /\ NetworkOK /\ JournalOK(db) /\ JournalOK(synced) /\ ProcessesOK /\ FenceOK
  BY DEF Inv, TypeInv
<1>2. chain \in Seq([env : Signed, epoch : 0 .. epoch])
  <2>1. PICK S, T : S = [env : sent, epoch : 0 .. epoch] /\ T = [env : Signed, epoch : 0 .. epoch]
    OBVIOUS
  <2>2. S \subseteq T /\ chain \in Seq(S)
    BY <1>1, <2>1 DEF NetworkOK
  <2>3. chain \in Seq(T)
    BY <2>2, SeqMonotonic
  <2> QED BY <2>1, <2>3
<1>3. envelopes \in Seq([op : Ops, nonce : Nonces, original : {0} \cup Envelopes])
  BY <1>1 DEF EnvelopesOK, EnvelopeRow
<1>4. epoch \in 0 .. MaxFaults
  BY <1>1, ConstantsAssumption DEF NetworkOK
<1>5. \A p \in Processes : /\ local[p].step \in Steps /\ local[p].op \in Ops \cup {NoOp}
                            /\ local[p].look \in {"none", "open", "fenced"}
                            /\ local[p].epoch \in 0 .. epoch
  BY <1>1 DEF ProcessesOK, Process
<1>6. \A d \in {db, synced} :
        /\ d.attempts \in [Ops -> [status : AttemptStatuses, nonce : Nonces,
                                   env : {0} \cup Signed]]
        /\ \A o \in Ops : d.attempts[o].env # 0 <=>
               d.attempts[o].status \in {"submitted", "confirmed", "prevented"}
        /\ d.reserved \subseteq Reservation
        /\ d.intents \in [Envelopes -> Intent]
        /\ \A e \in Envelopes : Status(d, e) # "none" => e \in Signed
        /\ d.retired \subseteq Signed
        /\ d.fence = NoFence \/
             /\ d.fence.owner \in {"running", "dead", "foreign"}
             /\ d.fence.by \in Processes /\ Status(d, d.fence.env) # "none"
  BY <1>1, JournalTypes
<1>7. overlooked \in BOOLEAN
  BY DEF Inv, SyncedOK
<1> QED BY <1>1, <1>2, <1>3, <1>4, <1>5, <1>6, <1>7 DEF TypeOK, NetworkOK, FenceOK

\* Every variable has its type, in both copies of the journal.
THEOREM Types == Spec => []TypeOK
<1>1. Inv => TypeOK
  BY TypesHold
<1> QED BY <1>1, InvHolds, PTL

\* All the batch envelopes ever sent with one nonce are of one operation and
\* at most two: the ledger of nonces survives crashes, power losses, stalls,
\* reorganisations and failures of the key.
THEOREM NoncesAreNotShared == Spec => []OneOperationPerNonce
<1>1. ASSUME Inv PROVE OneOperationPerNonce
  <2>1. JournalOK(db) /\ sent \subseteq Signed
    BY <1>1 DEF Inv, TypeInv, NetworkOK
  <2>2. \A e \in sent \cap Batches : Status(db, e) # "none"
    BY <2>1 DEF JournalOK, SentInJournal, Exposed, Batches
  <2> QED BY <2>1, <2>2 DEF JournalOK, IntentsOK, OneOperationPerNonce
<1> QED BY <1>1, InvHolds, PTL

\* What is on the network is in both copies of the journal, with its bytes
\* unless it is final: no crash makes the signer forget what it sent.
THEOREM Durability == Spec => []DurableBeforeBroadcast
<1>1. ASSUME Inv PROVE DurableBeforeBroadcast
  <2>1. \A d \in {db, synced} : JournalOK(d)
    BY <1>1 DEF Inv
  <2>2. sent \subseteq Signed
    BY <1>1 DEF Inv, TypeInv, NetworkOK
  <2> QED BY <2>1, <2>2 DEF JournalOK, SentInJournal, IntentsOK, Exposed, Batches, DurableBeforeBroadcast
<1> QED BY <1>1, InvHolds, PTL

\* An envelope that was prevented or destroyed is not on the network.
THEOREM WhatIsDestroyedWasNotSent == Spec => []PreventedNeverSent
<1>1. ASSUME Inv PROVE PreventedNeverSent
  <2>1. JournalOK(db) /\ \A e \in sent : e \in Signed /\ e \in Envelopes
    BY <1>1, SignedRows DEF Inv, TypeInv, NetworkOK
  <2> QED BY <2>1 DEF JournalOK, SentInJournal, IntentsOK, Exposed, PreventedNeverSent
<1> QED BY <1>1, InvHolds, PTL

\* A fence that was cleared does not come back after a power loss, but for one
\* that was raised while an acquire was between its look and its transaction.
THEOREM FencesStayCleared == Spec => []ClearedFenceStaysCleared
<1>1. ASSUME Inv PROVE ClearedFenceStaysCleared
  BY <1>1 DEF Inv, SyncedOK
<1> QED BY <1>1, InvHolds, PTL

\* The sends that are behind the fence, and those of the process that holds
\* the lease, take turns, whatever stalls, crashes and is lost.
THEOREM SendsTakeTurns == Spec => []OneSendOutstanding
<1>1. ASSUME Inv PROVE OneSendOutstanding
  <2> DEFINE Turns == {s \in outstanding : IsBatch(s[2]) \/ lease = s[1]}
  <2>1. /\ outstanding \subseteq Processes \X Signed /\ \A p \in Processes : SendOK(p)
        /\ HolderOK
    BY <1>1 DEF Inv, TypeInv, FenceOK
  <2>2. ASSUME NEW p \in Processes, NEW e \in Signed, <<p, e>> \in outstanding
        PROVE  /\ IsBatch(e) => db.fence = [owner |-> "running", by |-> p, env |-> e]
               /\ ~IsBatch(e) => local[p].step = "plainSent" /\ local[p].env = e
    BY <2>1, <2>2 DEF SendOK, At
  <2>3. ASSUME NEW p \in Processes, lease = p, local[p].step = "plainSent"
        PROVE  db.fence = NoFence
    BY <2>1, <2>3 DEF HolderOK, Holds
  <2>4. ASSUME NEW p \in Processes, NEW q \in Processes, NEW e \in Signed, NEW f \in Signed,
               <<p, e>> \in outstanding, <<q, f>> \in outstanding,
               IsBatch(e) \/ lease = p, IsBatch(f) \/ lease = q
        PROVE  p = q /\ e = f
    <3>1. \A r \in Processes, g \in Signed :
             db.fence = [owner |-> "running", by |-> r, env |-> g] => db.fence # NoFence
      <4>1. NoFence.owner = "nobody"
        BY DEF NoFence
      <4> QED BY <4>1
    <3>2. CASE IsBatch(e) /\ IsBatch(f)
      <4>1. /\ db.fence = [owner |-> "running", by |-> p, env |-> e]
            /\ db.fence = [owner |-> "running", by |-> q, env |-> f]
        BY <2>2, <2>4, <3>2
      <4> QED BY <4>1
    <3>3. CASE IsBatch(e) /\ ~IsBatch(f)
      <4>1. db.fence = [owner |-> "running", by |-> p, env |-> e]
        BY <2>2, <2>4, <3>3
      <4>2. db.fence = NoFence
        BY <2>2, <2>3, <2>4, <3>3
      <4> QED BY <3>1, <4>1, <4>2
    <3>4. CASE ~IsBatch(e) /\ IsBatch(f)
      <4>1. db.fence = [owner |-> "running", by |-> q, env |-> f]
        BY <2>2, <2>4, <3>4
      <4>2. db.fence = NoFence
        BY <2>2, <2>3, <2>4, <3>4
      <4> QED BY <3>1, <4>1, <4>2
    <3>5. CASE ~IsBatch(e) /\ ~IsBatch(f)
      <4>1. local[p].env = e /\ local[q].env = f
        BY <2>2, <2>4, <3>5
      <4>2. p = q
        BY <2>4, <3>5
      <4> QED BY <4>1, <4>2
    <3> QED BY <3>2, <3>3, <3>4, <3>5
  <2>5. \A s, t \in Turns : s = t
    <3>1. ASSUME NEW s \in Turns, NEW t \in Turns PROVE s = t
      <4>1. /\ s = <<s[1], s[2]>> /\ s[1] \in Processes /\ s[2] \in Signed /\ s \in outstanding
            /\ IsBatch(s[2]) \/ lease = s[1]
        BY <2>1
      <4>2. /\ t = <<t[1], t[2]>> /\ t[1] \in Processes /\ t[2] \in Signed /\ t \in outstanding
            /\ IsBatch(t[2]) \/ lease = t[1]
        BY <2>1
      <4> QED BY <2>4, <4>1, <4>2
    <3> QED BY <3>1
  <2> HIDE DEF Turns
  <2>6. CASE Turns = {}
    BY <2>6, FS_EmptySet DEF OneSendOutstanding, Turns
  <2>7. CASE Turns # {}
    <3>1. PICK s : Turns = {s}
      BY <2>5, <2>7
    <3>2. Cardinality(Turns) = 1
      BY <3>1, FS_Singleton
    <3> QED BY <3>2 DEF OneSendOutstanding, Turns
  <2> QED BY <2>6, <2>7
<1> QED BY <1>1, InvHolds, PTL

\* A plain transaction that the holder of the lease sends does not take a
\* nonce that the journal holds for a batch, unless the chain was reorganised
\* since the pass that the choice was made on.
THEOREM PlainNoncesAreNew == Spec => PlainAboveHistory
<1> DEFINE Above == \A s \in outstanding' \ outstanding :
                       /\ envelopes'[s[2]].op \in PlainOps
                       /\ lease = s[1] /\ local[s[1]].epoch = epoch
                       => \A f \in Envelopes : Status(db, f) # "none" => Nonce(f) < envelopes'[s[2]].nonce
<1>1. ASSUME Inv, [Next]_vars PROVE Above
  <2>1. /\ EnvelopesOK /\ JournalOK(db) /\ HolderOK /\ local \in [Processes -> Process]
    BY <1>1 DEF Inv, TypeInv, ProcessesOK
  <2>2. CASE outstanding' \subseteq outstanding
    BY <2>2
  <2>3. ASSUME NEW p \in Processes, Invoke(p) PROVE Above
    <3>1. PICK e : e = local[p].env
      OBVIOUS
    <3>2. outstanding' = outstanding \cup {<<p, e>>} /\ envelopes' = envelopes
      BY <2>3, <3>1 DEF Invoke, signing
    <3>3. e \in Signed /\ IsBatch(e)
      BY <1>1, <2>3, <3>1, InvBefore DEF Before, ProcessOK, StateOK, Invoke, At, BatchSteps
    <3>4. envelopes[e].op \notin PlainOps
      BY <3>3, ConstantsAssumption DEF IsBatch, Op
    <3> QED BY <3>2, <3>4
  <2>4. ASSUME NEW p \in Processes, PlainSend(p) PROVE Above
    <3>1. PICK e : e = Len(envelopes) + 1
      OBVIOUS
    <3>2. /\ outstanding' = outstanding \cup {<<p, e>>} /\ local[p].step = "plainSend"
          /\ envelopes' = Append(envelopes, [op |-> local[p].target, nonce |-> local[p].nonce, original |-> 0])
      BY <2>4, <3>1 DEF PlainSend, At
    <3>3. envelopes'[e].nonce = local[p].nonce
      BY <2>1, <3>1, <3>2 DEF EnvelopesOK
    <3>4. ASSUME lease = p, local[p].epoch = epoch
          PROVE  \A f \in Signed : Status(db, f) # "none" => Nonce(f) < local[p].nonce
      BY <2>1, <3>2, <3>4 DEF HolderOK, Holds, At
    <3>5. \A f \in Envelopes : Status(db, f) # "none" => f \in Signed
      BY <2>1 DEF JournalOK, IntentsOK
    <3>6. ASSUME NEW s \in outstanding' \ outstanding, lease = s[1], local[s[1]].epoch = epoch,
                 NEW f \in Envelopes, Status(db, f) # "none"
          PROVE  Nonce(f) < envelopes'[s[2]].nonce
      <4>1. s[1] = p /\ s[2] = e
        BY <3>2
      <4>2. Nonce(f) < local[p].nonce
        BY <3>4, <3>5, <3>6, <4>1
      <4> QED BY <3>3, <4>1, <4>2
    <3> QED BY <3>6
  <2>5. ASSUME NEW p \in Processes, Pass(p) \/ Submit(p) \/ Others(p) PROVE outstanding' \subseteq outstanding
    BY <2>5, PassFrame, SubmitFrame, OtherFrame
  <2>6. ASSUME NEW p \in Processes, Send(p), ~Invoke(p) PROVE outstanding' \subseteq outstanding
    BY <2>6 DEF Send, MarkReady, QuoteExpires, Dispatch, NotInvoked, Settle
  <2>7. ASSUME NEW p \in Processes, Plain(p), ~PlainSend(p) PROVE outstanding' \subseteq outstanding
    BY <2>7 DEF Plain, PlainUnsent, PlainFails, PlainAccepted, PlainConfirmed, PlainUnconfirmed
  <2>8. ASSUME \/ \E p \in Processes : Crash(p)
               \/ \E r \in db.reserved : Sign(r)
               \/ \E e \in Signed : Mine(e) \/ Drop(e)
               \/ Finalize \/ Reorganise \/ ExpireLease \/ PowerLoss \/ Flush \/ UNCHANGED vars
        PROVE  outstanding' \subseteq outstanding
    BY <2>8 DEF Crash, Sign, Mine, Drop, Finalize, Reorganise, ExpireLease, PowerLoss, Flush, vars
  <2> HIDE DEF Above
  <2> QED BY <1>1, <2>2, <2>3, <2>4, <2>5, <2>6, <2>7, <2>8, StepCases
<1>2. Inv /\ [Next]_vars => [Above]_vars
  BY <1>1
<1> HIDE DEF Above
<1>3. Spec => [][Above]_vars
  BY <1>2, InvHolds, PTL DEF Spec
<1> QED BY <1>3 DEF PlainAboveHistory, Above

=============================================================================
