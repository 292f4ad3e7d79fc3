--------------------- MODULE RandomnessCommitterProofs ---------------------
(***************************************************************************)
(* No crash, stall, reorganisation, failed call or hand-over of the lease  *)
(* leaves the chain with a commitment whose word is not on disk, or a      *)
(* broadcast request out of the journal, for any number of replicas, words *)
(* and requests, until a replica saves after its lease went to another.  A *)
(* word may go only when it is dead: the finalized state shows it spent,   *)
(* and by the uniqueness of commitments nothing can ask for it again.      *)
(***************************************************************************)
EXTENDS RandomnessCommitter, FiniteSetTheorems, SequenceTheorems, TLAPS

USE DEF tables

\* The shape of the state, with what TypeOK leaves to the code: tables and
\* copies hold drawn words only, and a batch names each of its words once.
Request1 == [commitment : Words, gated : BOOLEAN, sealed : BOOLEAN, fulfilled : BOOLEAN]
Chain == {ch \in [inventory : Seq(Words), used : SUBSET Words, requests : Seq(Request1)] :
             Len(ch.requests) <= MaxRequests}
Tables == [records : SUBSET Words, staged : SUBSET Words, journal : Journal]
TickState == [step : Steps, records : SUBSET Words, staged : SUBSET Words,
              journal : Journal, batch : Seq(Words), todo : SUBSET RequestIds]
Drawn == 1 .. nextWord - 1
Copied(j) == CopiedRecords(j, {"staged", "committed"})

TickOK(t, D) ==
    /\ t \in TickState
    /\ t.staged \subseteq t.records /\ t.records \subseteq D /\ Copied(t.journal) \subseteq D
    /\ Range(t.batch) \subseteq t.records /\ IsInjective(t.batch)
    /\ t.step \in {"checkpoint", "reveal"} => t.batch = <<>>

ChainsOK == chain \in Chain /\ final \in Chain
SentOK ==
    /\ batches \subseteq Seq(Words) /\ \A b \in batches : IsInjective(b)
    /\ reveals \subseteq RequestIds \X Words
CountersOK ==
    /\ lease \in Replicas \cup {Free, Orphan} /\ expired \in BOOLEAN
    /\ nextWord \in 1 .. MaxWords + 1 /\ faults \in 0 .. MaxFaults
TablesOK ==
    /\ db \in Tables /\ db.staged \subseteq db.records
    /\ db.records \subseteq Drawn /\ Copied(db.journal) \subseteq Drawn
    /\ overwritten \in BOOLEAN
FailuresOK == failures \in [Replicas -> [RequestIds -> {0} \cup Words]]
TicksOK ==
    /\ local \in [Replicas -> TickState]
    /\ \A p \in Replicas : TickOK(local[p], Drawn)

\* Each word has one place on a chain: the inventory or one request.
WellFormed(ch) ==
    /\ IsInjective(ch.inventory) /\ Range(ch.inventory) \subseteq ch.used
    /\ \A r \in DOMAIN ch.requests :
          /\ ch.requests[r].commitment \in ch.used \ Range(ch.inventory)
          /\ \A s \in DOMAIN ch.requests :
                ch.requests[s].commitment = ch.requests[r].commitment => s = r

\* The latest block is a continuation of the finalized one.
Continues ==
    /\ final.used \subseteq chain.used
    /\ Len(final.requests) <= Len(chain.requests)
    /\ \A r \in DOMAIN final.requests :
          /\ chain.requests[r].commitment = final.requests[r].commitment
          /\ final.requests[r].fulfilled => chain.requests[r].fulfilled

ChainInv == WellFormed(chain) /\ WellFormed(final) /\ Continues

Spent(r) == r \in DOMAIN final.requests /\ final.requests[r].fulfilled

\* Needed, without the room that a batch finds in the inventory: a batch that
\* is too long for the finalized block may fit into the next one.
Owed ==
    (UNION {Range(ch.inventory) : ch \in {chain, final}})
      \cup {chain.requests[r].commitment : r \in {s \in DOMAIN chain.requests : ~Spent(s)}}
      \cup (UNION {Range(b) : b \in {c \in batches : Range(c) \cap final.used = {}}})

Holder(p) == lease = p /\ Active(p)

SpentOn(ch, r) == r \in DOMAIN ch.requests /\ ch.requests[r].fulfilled

\* A journal holds every request whose word was sent and is not spent.
Holds(j, sent, ch) == \A reveal \in sent : reveal[1] \in Journaled(j) \/ SpentOn(ch, reveal[1])

\* What is owed and broadcast is in the holder's copy; a batch that is about to
\* be sent is in the table; reveals are sent from a journal that was saved; and
\* the copies in the journal that a tick wrote say what the tick holds.
Keeps(p) ==
    /\ Holder(p) => Owed \subseteq local[p].records /\ Holds(local[p].journal, reveals, final)
    /\ Holder(p) /\ local[p].step = "commit" => Range(local[p].batch) \subseteq db.records
    /\ Holder(p) /\ local[p].step = "reveal" => db.journal = local[p].journal
    /\ local[p].step \in {"checkpoint", "reveal"} => \A r \in RequestIds :
          local[p].journal[r].record = "missing" =>
              local[p].journal[r].commitment \notin local[p].records

Kept ==
    /\ Owed \subseteq db.records /\ Holds(db.journal, reveals, final)
    /\ \A p \in Replicas : Keeps(p)

\* The tables are kept until a replica saves without the lease.
KeptInv == ~overwritten => Kept

TypeInv == ChainsOK /\ SentOK /\ CountersOK /\ TablesOK /\ FailuresOK /\ TicksOK
Inv == TypeInv /\ ChainInv /\ KeptInv
-----------------------------------------------------------------------------
(* The batch that a refill makes of a set of words. *)

\* Every place in the order of a finite set of numbers is taken, once: the
\* map of a word to the number of smaller ones is a bijection.
LEMMA EveryPlaceIsTaken ==
    ASSUME NEW S \in SUBSET Nat, IsFiniteSet(S)
    PROVE  /\ Cardinality(S) \in Nat
           /\ \A i \in 1 .. Cardinality(S) :
                \E w \in S : Cardinality({v \in S : v < w}) = i - 1
           /\ \A w \in S : Cardinality({v \in S : v < w}) + 1 \in 1 .. Cardinality(S)
           /\ \A v, w \in S : Cardinality({u \in S : u < v}) = Cardinality({u \in S : u < w}) => v = w
<1> DEFINE below(w) == {v \in S : v < w}
           n == Cardinality(S)
           T == 0 .. n - 1
           f == [w \in S |-> Cardinality(below(w))]
<1>1. n \in Nat
  BY FS_CardinalityType
<1>2. IsFiniteSet(T) /\ Cardinality(T) = n
  <2> HIDE DEF n
  <2>1. 0 \in Int /\ n - 1 \in Int
    BY <1>1
  <2>2. /\ IsFiniteSet(0 .. n - 1)
        /\ Cardinality(0 .. n - 1) = IF 0 > n - 1 THEN 0 ELSE (n - 1) - 0 + 1
    BY <2>1, FS_Interval, Zenon
  <2> QED BY <1>1, <2>2
<1>3. ASSUME NEW w \in S
      PROVE  IsFiniteSet(below(w)) /\ Cardinality(below(w)) \in T
  <2>1. below(w) \in SUBSET S /\ below(w) # S
    OBVIOUS
  <2>2. IsFiniteSet(below(w)) /\ Cardinality(below(w)) <= n /\ Cardinality(below(w)) # n
    BY <2>1, FS_Subset
  <2>3. Cardinality(below(w)) \in Nat
    BY <2>2, FS_CardinalityType
  <2> QED BY <1>1, <2>2, <2>3
<1>4. ASSUME NEW v \in S, NEW w \in S, v < w
      PROVE  Cardinality(below(v)) < Cardinality(below(w))
  <2>1. below(v) \in SUBSET below(w) /\ v \in below(w) /\ v \notin below(v)
    <3>1. v \in Nat /\ w \in Nat /\ v < w /\ ~(v < v)
      BY <1>4
    <3>2. ASSUME NEW u \in S, u < v PROVE u < w
      <4>1. u \in Nat
        OBVIOUS
      <4> QED BY <3>1, <3>2, <4>1
    <3> QED BY <3>1, <3>2
  <2>2. Cardinality(below(v)) <= Cardinality(below(w)) /\ Cardinality(below(v)) # Cardinality(below(w))
    BY <1>3, <2>1, FS_Subset
  <2> HIDE DEF below
  <2> QED BY <1>1, <1>3, <2>2
<1>5. \A v, w \in S : Cardinality(below(v)) = Cardinality(below(w)) => v = w
  <2> SUFFICES ASSUME NEW v \in S, NEW w \in S, v # w
               PROVE  Cardinality(below(v)) # Cardinality(below(w))
    OBVIOUS
  <2>1. v \in Nat /\ w \in Nat
    OBVIOUS
  <2>2. Cardinality(below(v)) \in Nat /\ Cardinality(below(w)) \in Nat
    BY <1>1, <1>3
  <2>3. CASE v < w
    BY <1>4, <2>2, <2>3
  <2>4. CASE w < v
    BY <1>4, <2>2, <2>4
  <2> QED BY <2>1, <2>3, <2>4
<1>6. f \in Injection(S, T)
  <2>1. f \in [S -> T]
    BY <1>3
  <2>2. IsInjective(f)
    BY <1>5 DEF IsInjective
  <2> QED BY <2>1, <2>2 DEF Injection
<1>7. f \in Surjection(S, T)
  BY <1>2, <1>6, FS_Injection
<1>8. ASSUME NEW i \in 1 .. n PROVE \E w \in S : Cardinality(below(w)) = i - 1
  <2>1. i - 1 \in T
    BY <1>1
  <2> QED BY <1>7, <2>1 DEF Surjection
<1>9. ASSUME NEW w \in S PROVE Cardinality(below(w)) + 1 \in 1 .. n
  BY <1>1, <1>3
<1> QED BY <1>1, <1>5, <1>8, <1>9

\* A finite set of words, listed in order, is a list without repetitions.
LEMMA InOrderIsAList ==
    ASSUME NEW S \in SUBSET Nat, IsFiniteSet(S)
    PROVE  InOrder(S) \in Seq(S) /\ Range(InOrder(S)) = S /\ IsInjective(InOrder(S))
<1> DEFINE place(w) == Cardinality({v \in S : v < w})
           n == Cardinality(S)
<1>1. /\ n \in Nat
      /\ \A i \in 1 .. n : \E w \in S : place(w) = i - 1
      /\ \A w \in S : place(w) + 1 \in 1 .. n /\ place(w) \in Nat
      /\ \A v, w \in S : place(v) = place(w) => v = w
  <2>1. \A w \in S : place(w) \in Nat
    <3> SUFFICES ASSUME NEW w \in S PROVE place(w) \in Nat
      OBVIOUS
    <3>1. {v \in S : v < w} \in SUBSET S
      OBVIOUS
    <3> QED BY <3>1, FS_Subset, FS_CardinalityType
  <2> QED BY <2>1, EveryPlaceIsTaken, ZenonT(40)
<1> HIDE DEF place, n
<1>2. InOrder(S) = [i \in 1 .. n |-> CHOOSE w \in S : place(w) = i - 1]
  BY DEF InOrder, place, n
<1>3. ASSUME NEW i \in 1 .. n
      PROVE  InOrder(S)[i] \in S /\ place(InOrder(S)[i]) = i - 1
  BY <1>1, <1>2
<1>4. InOrder(S) \in [1 .. n -> S]
  BY <1>2, <1>3
<1>5. InOrder(S) \in Seq(S)
  BY <1>1, <1>4
<1>6. ASSUME NEW w \in S PROVE w \in Range(InOrder(S))
  <2>1. place(w) + 1 \in 1 .. n /\ (place(w) + 1) - 1 = place(w)
    BY <1>1
  <2>2. InOrder(S)[place(w) + 1] = w
    BY <1>1, <1>3, <2>1
  <2> QED BY <1>4, <2>1, <2>2 DEF Range
<1>7. Range(InOrder(S)) = S
  BY <1>3, <1>4, <1>6 DEF Range
<1>8. IsInjective(InOrder(S))
  <2> SUFFICES ASSUME NEW i \in 1 .. n, NEW j \in 1 .. n, InOrder(S)[i] = InOrder(S)[j]
               PROVE  i = j
    BY <1>4 DEF IsInjective
  <2> QED BY <1>1, <1>3
<1> QED BY <1>5, <1>7, <1>8


\* A nonempty set of request numbers has a least one.
LEMMA LeastRequest ==
    ASSUME NEW S \in SUBSET RequestIds, S # {}
    PROVE  Min(S) \in S
<1>1. RequestIds \in SUBSET Nat /\ IsFiniteSet(RequestIds)
  BY ConstantsAssumption, FS_Interval DEF RequestIds
<1>2. S \in SUBSET Nat /\ IsFiniteSet(S)
  BY <1>1, FS_Subset
<1>3. Cardinality(S) \in Nat \ {0}
  BY <1>2, FS_CardinalityType, FS_EmptySet
<1>4. PICK w \in S : Cardinality({v \in S : v < w}) = 1 - 1
  BY <1>2, <1>3, EveryPlaceIsTaken
<1>5. {v \in S : v < w} = {}
  <2>1. IsFiniteSet({v \in S : v < w})
    BY <1>2, FS_Subset
  <2> QED BY <1>4, <2>1, FS_EmptySet
<1>6. \A v \in S : w <= v
  <2> SUFFICES ASSUME NEW v \in S PROVE w <= v
    OBVIOUS
  <2>1. v \in Nat /\ w \in Nat
    BY <1>2
  <2> QED BY <1>5, <2>1
<1> QED BY <1>6 DEF Min

-----------------------------------------------------------------------------
(* Types. *)

\* The types hold at first.
LEMMA InitTypes == Init => TypeInv
<1> SUFFICES ASSUME Init PROVE TypeInv
  OBVIOUS
<1>1. EmptyJournal \in Journal /\ Copied(EmptyJournal) = {}
  BY DEF EmptyJournal, Journal, NoReveal, RecordCopies, Copied, CopiedRecords
<1>2. Range(<<>>) = {} /\ IsInjective(<<>>)
  BY DEF Range, IsInjective
<1>3. EmptyChain \in Chain
  BY ConstantsAssumption DEF EmptyChain, Chain
<1>4. TickOK(IdleTick, Drawn)
  BY <1>1, <1>2 DEF TickOK, IdleTick, TickState, Steps
<1>5. TicksOK
  BY <1>4 DEF Init, TicksOK, TickOK
<1>6. TablesOK
  BY <1>1 DEF Init, EmptyTables, TablesOK, Tables
<1>7. CountersOK
  <2>1. 1 \in 1 .. MaxWords + 1 /\ 0 \in 0 .. MaxFaults
    BY ConstantsAssumption
  <2> QED BY <2>1 DEF Init, CountersOK
<1>8. ChainsOK /\ SentOK
  BY <1>3 DEF Init, ChainsOK, SentOK
<1>9. FailuresOK
  BY DEF Init, FailuresOK, NoFailures
<1> QED BY <1>5, <1>6, <1>7, <1>8, <1>9 DEF TypeInv

\* A step of one replica changes its own copies only.
LEMMA OneTick ==
    ASSUME TypeInv, NEW p \in Replicas, NEW t,
           local' = [local EXCEPT ![p] = t], nextWord' = nextWord, TickOK(t, Drawn)
    PROVE  TicksOK' /\ local'[p] = t /\ \A q \in Replicas \ {p} : local'[q] = local[q]
BY DEF TypeInv, TicksOK, TickOK, Drawn

\* A tick that goes on to its next step holds what it held.
LEMMA StepChange ==
    ASSUME TypeInv, NEW p \in Replicas, NEW s \in Steps,
           s = "reveal" => local[p].step = "checkpoint", s # "checkpoint",
           local' = [local EXCEPT ![p].step = s], nextWord' = nextWord
    PROVE  TicksOK' /\ local'[p] = [local[p] EXCEPT !.step = s]
<1> DEFINE t == [local[p] EXCEPT !.step = s]
<1>1. TickOK(local[p], Drawn) /\ local[p] \in TickState
  BY DEF TypeInv, TicksOK, TickOK
<1>2. /\ t \in TickState /\ t.staged = local[p].staged /\ t.records = local[p].records
      /\ t.batch = local[p].batch /\ t.journal = local[p].journal /\ t.step = s
  BY <1>1 DEF TickState
<1>3. TickOK(t, Drawn)
  <2> HIDE DEF t
  <2> QED BY <1>1, <1>2 DEF TickOK
<1>4. local' = [local EXCEPT ![p] = t]
  OBVIOUS
<1> HIDE DEF t
<1>5. TicksOK' /\ local'[p] = t
  BY <1>3, <1>4, OneTick
<1> QED BY <1>5 DEF t

\* What stays the same when a step does not touch it.
LEMMA TypesStay ==
    ASSUME TypeInv
    PROVE  /\ UNCHANGED <<chain, final>> => ChainsOK'
           /\ UNCHANGED <<batches, reveals>> => SentOK'
           /\ UNCHANGED <<lease, expired, nextWord, faults>> => CountersOK'
           /\ UNCHANGED <<tables, nextWord>> => TablesOK'
           /\ UNCHANGED <<local, nextWord>> => TicksOK'
           /\ UNCHANGED failures => FailuresOK'
BY DEF TypeInv, ChainsOK, SentOK, CountersOK, TablesOK, FailuresOK, TicksOK, TickOK, Drawn

\* The requests of a chain, one by one.
LEMMA RequestsAreTyped ==
    ASSUME NEW ch \in Chain
    PROVE  /\ ch.requests \in Seq(Request1)
           /\ Len(ch.requests) \in Nat /\ DOMAIN ch.requests = 1 .. Len(ch.requests)
           /\ DOMAIN ch.requests \subseteq RequestIds
           /\ \A r \in DOMAIN ch.requests : ch.requests[r] \in Request1
<1>1. ch.requests \in Seq(Request1) /\ Len(ch.requests) <= MaxRequests
  BY DEF Chain
<1>2. Len(ch.requests) \in Nat /\ DOMAIN ch.requests = 1 .. Len(ch.requests)
  BY <1>1, LenProperties
<1>3. \A r \in DOMAIN ch.requests : ch.requests[r] \in Request1
  BY <1>1, <1>2, ElementOfSeq
<1>4. DOMAIN ch.requests \subseteq RequestIds
  BY <1>1, <1>2, ConstantsAssumption DEF RequestIds
<1> QED BY <1>1, <1>2, <1>3, <1>4

\* A request that is replaced by one of the same form.
LEMMA RequestReplaced ==
    ASSUME ChainsOK, NEW r \in DOMAIN chain.requests, NEW e \in Request1,
           chain' = [chain EXCEPT !.requests[r] = e], final' = final
    PROVE  /\ ChainsOK'
           /\ chain'.inventory = chain.inventory /\ chain'.used = chain.used
           /\ DOMAIN chain'.requests = DOMAIN chain.requests
           /\ \A s \in DOMAIN chain.requests :
                 chain'.requests[s] = IF s = r THEN e ELSE chain.requests[s]
<1>1. chain.requests \in Seq(Request1) /\ DOMAIN chain.requests = 1 .. Len(chain.requests)
  BY LenProperties DEF ChainsOK, Chain
<1> DEFINE reqs == [chain.requests EXCEPT ![r] = e]
<1>2. /\ reqs \in Seq(Request1) /\ Len(reqs) = Len(chain.requests)
      /\ \A s \in DOMAIN chain.requests : reqs[s] = IF s = r THEN e ELSE chain.requests[s]
  BY <1>1, ExceptSeq
<1>3. DOMAIN reqs = DOMAIN chain.requests
  OBVIOUS
<1>4. chain' = [chain EXCEPT !.requests = reqs]
  OBVIOUS
<1> HIDE DEF reqs
<1> QED BY <1>1, <1>2, <1>3, <1>4 DEF ChainsOK, Chain

\* The engine keeps the form of a chain.
LEMMA ChainSteps ==
    ASSUME TypeInv
    PROVE  /\ \A gated \in BOOLEAN : Request(gated) => TypeInv'
           /\ \A r \in RequestIds : Seal(r) => TypeInv'
           /\ Mine \/ Finalize \/ Reorganise => TypeInv'
<1> USE DEF TypeInv
<1>1. ASSUME NEW gated \in BOOLEAN, Request(gated) PROVE TypeInv'
  <2> DEFINE drawn == [commitment |-> Head(chain.inventory), gated |-> gated, sealed |-> FALSE, fulfilled |-> FALSE]
  <2>1. chain.inventory \in Seq(Words) /\ chain.inventory # <<>> /\ chain.requests \in Seq(Request1)
    BY <1>1 DEF Request, ChainsOK, Chain
  <2>2. Tail(chain.inventory) \in Seq(Words) /\ drawn \in Request1
    BY <2>1, HeadTailProperties DEF Request1
  <2>3. /\ Append(chain.requests, drawn) \in Seq(Request1)
        /\ Len(Append(chain.requests, drawn)) = Len(chain.requests) + 1
    BY <2>1, <2>2, AppendProperties
  <2>4. Len(chain.requests) + 1 <= MaxRequests
    BY <1>1, <2>1, ConstantsAssumption, LenProperties DEF Request
  <2>5. chain' = [chain EXCEPT !.inventory = Tail(chain.inventory), !.requests = Append(chain.requests, drawn)]
    BY <1>1 DEF Request
  <2>6. ChainsOK'
    <3> HIDE DEF drawn
    <3> QED BY <1>1, <2>2, <2>3, <2>4, <2>5 DEF Request, ChainsOK, Chain
  <2> QED BY <1>1, <2>6, TypesStay DEF Request
<1>2. ASSUME NEW r \in RequestIds, Seal(r) PROVE TypeInv'
  <2>1. ChainsOK'
    <3>1. [chain.requests[r] EXCEPT !.sealed = TRUE] \in Request1
      BY <1>2, RequestsAreTyped DEF Seal, Requested, ChainsOK, Request1
    <3> QED BY <1>2, <3>1, RequestReplaced DEF Seal, Requested
  <2> QED BY <1>2, <2>1, TypesStay DEF Seal
<1>3. ASSUME NEW b \in batches, MineBatch(b) PROVE TypeInv'
  <2>1. b \in Seq(Words) /\ Range(b) \subseteq Words
    BY DEF SentOK, Range
  <2>2. chain.inventory \o b \in Seq(Words)
    BY <2>1, ConcatProperties DEF ChainsOK, Chain
  <2>3. ChainsOK'
    BY <1>3, <2>1, <2>2 DEF MineBatch, ChainsOK, Chain
  <2> QED BY <1>3, <2>3, TypesStay DEF MineBatch
<1>4. ASSUME NEW r \in RequestIds, NEW w \in Words, MineReveal(r, w) PROVE TypeInv'
  <2>1. ChainsOK'
    <3>1. r \in DOMAIN chain.requests /\ [chain.requests[r] EXCEPT !.fulfilled = TRUE] \in Request1
      BY <1>4, RequestsAreTyped DEF MineReveal, AcceptsReveal, Unfulfilled, ChainsOK, Request1
    <3> QED BY <1>4, <3>1, RequestReplaced DEF MineReveal
  <2> QED BY <1>4, <2>1, TypesStay DEF MineReveal
<1>5. ASSUME Finalize PROVE TypeInv'
  <2>1. ChainsOK'
    BY <1>5 DEF Finalize, ChainsOK
  <2> QED BY <1>5, <2>1, TypesStay DEF Finalize
<1>6. ASSUME Reorganise PROVE TypeInv'
  <2>1. ChainsOK' /\ CountersOK'
    BY <1>6, ConstantsAssumption DEF Reorganise, ChainsOK, CountersOK
  <2> QED BY <1>6, <2>1, TypesStay DEF Reorganise
<1> QED BY <1>1, <1>2, <1>3, <1>4, <1>5, <1>6 DEF Mine

\* The chain and the transactions are not the lease's.
LEMMA LeaseSteps ==
    ASSUME TypeInv
    PROVE  /\ ExpireLease => TypeInv'
           /\ \A p \in Replicas : BeginTick(p) \/ RenewLease(p) \/ LeaseLost(p) \/ Crash(p) => TypeInv'
<1> USE DEF TypeInv
<1>1. TickOK(IdleTick, Drawn)
  <2>1. EmptyJournal \in Journal /\ Copied(EmptyJournal) = {}
    BY DEF EmptyJournal, Journal, NoReveal, RecordCopies, Copied, CopiedRecords
  <2> QED BY <2>1 DEF TickOK, IdleTick, TickState, Steps, Range, IsInjective
<1>2. ASSUME ExpireLease PROVE TypeInv'
  <2>1. CountersOK'
    BY <1>2, ConstantsAssumption DEF ExpireLease, CountersOK
  <2> QED BY <1>2, <2>1, TypesStay DEF ExpireLease
<1>3. ASSUME NEW p \in Replicas, BeginTick(p) PROVE TypeInv'
  <2> DEFINE copied == Copied(db.journal)
             staged == (db.staged \ copied) \cup CopiedRecords(db.journal, {"staged"})
             t == [IdleTick EXCEPT !.step = "refill", !.records = db.records \cup copied,
                                   !.staged = staged, !.journal = db.journal]
  <2>1. CopiedRecords(db.journal, {"staged"}) \subseteq copied
    BY DEF Copied, CopiedRecords
  <2>2. copied \subseteq Words /\ staged \subseteq db.records \cup copied
    BY <2>1, ConstantsAssumption DEF TablesOK, CountersOK, Drawn, Words
  <2>3. TickOK(t, Drawn)
    BY <1>1, <2>2 DEF TickOK, TickState, IdleTick, Steps, TablesOK, Tables
  <2>4. local' = [local EXCEPT ![p] = t] /\ nextWord' = nextWord
    BY <1>3 DEF BeginTick, Copied
  <2> HIDE DEF t
  <2>5. TicksOK'
    BY <2>3, <2>4, OneTick
  <2>6. CountersOK'
    BY <1>3 DEF BeginTick, CountersOK
  <2> QED BY <1>3, <2>5, <2>6, TypesStay DEF BeginTick
<1>4. ASSUME NEW p \in Replicas, RenewLease(p) PROVE TypeInv'
  <2>1. CountersOK'
    BY <1>4 DEF RenewLease, CountersOK
  <2> QED BY <1>4, <2>1, TypesStay DEF RenewLease
<1>7. ASSUME NEW p \in Replicas, failures' = [failures EXCEPT ![p] = NoFailures]
      PROVE  FailuresOK'
  BY <1>7 DEF FailuresOK, NoFailures
<1>5. ASSUME NEW p \in Replicas, LeaseLost(p) PROVE TypeInv'
  <2>1. TicksOK'
    BY <1>1, <1>5, OneTick DEF LeaseLost
  <2> QED BY <1>5, <1>7, <2>1, TypesStay DEF LeaseLost
<1>6. ASSUME NEW p \in Replicas, Crash(p) PROVE TypeInv'
  <2>1. TicksOK'
    BY <1>1, <1>6, OneTick DEF Crash
  <2>2. CountersOK'
    BY <1>6, ConstantsAssumption DEF Crash, CountersOK
  <2> QED BY <1>6, <1>7, <2>1, <2>2, TypesStay DEF Crash
<1> QED BY <1>2, <1>3, <1>4, <1>5, <1>6

\* What a refill that is n words short has in hand: the words to retry are
\* staged, the drawn ones are new, and its batch lists both.
Retried(p, n) == Oldest(Reconciled(p), n)
NewlyDrawn(p, n) == nextWord .. nextWord + (n - Cardinality(Retried(p, n))) - 1
RefillBatch(p, n) == InOrder(Retried(p, n) \cup NewlyDrawn(p, n))

\* The batch of a refill: staged words that are tried again, then new ones.
LEMMA RefillFacts ==
    ASSUME TypeInv, NEW p \in Replicas, NEW n \in Nat, NewlyDrawn(p, n) \subseteq Words
    PROVE  /\ Retried(p, n) \subseteq local[p].staged /\ Reconciled(p) \subseteq local[p].staged
           /\ Cardinality(NewlyDrawn(p, n)) \in Nat
           /\ nextWord + Cardinality(NewlyDrawn(p, n)) \in 1 .. MaxWords + 1
           /\ NewlyDrawn(p, n) = nextWord .. nextWord + Cardinality(NewlyDrawn(p, n)) - 1
           /\ RefillBatch(p, n) \in Seq(Words) /\ IsInjective(RefillBatch(p, n))
           /\ Range(RefillBatch(p, n)) = Retried(p, n) \cup NewlyDrawn(p, n)
<1> DEFINE retried == Retried(p, n)
           drawn == NewlyDrawn(p, n)
           k == n - Cardinality(retried)
<1>1. retried \subseteq local[p].staged /\ Reconciled(p) \subseteq local[p].staged
  BY DEF Oldest, Reconciled, Retried
<1>2. retried \subseteq Words /\ nextWord \in 1 .. MaxWords + 1
  BY <1>1 DEF TypeInv, TicksOK, TickOK, TickState, CountersOK
<1>3. Words \in SUBSET Nat /\ IsFiniteSet(Words) /\ MaxWords \in Nat
  BY ConstantsAssumption, FS_Interval DEF Words
<1>4. IsFiniteSet(retried) /\ Cardinality(retried) \in Nat
  BY <1>2, <1>3, FS_Subset, FS_CardinalityType
<1>5. k \in Int
  BY <1>4
<1>6. /\ IsFiniteSet(drawn)
      /\ Cardinality(drawn) = IF nextWord > nextWord + k - 1 THEN 0 ELSE (nextWord + k - 1) - nextWord + 1
  <2>2. drawn = nextWord .. nextWord + k - 1
    BY DEF NewlyDrawn
  <2> HIDE DEF k, drawn
  <2>1. nextWord \in Int /\ nextWord + k - 1 \in Int
    BY <1>2, <1>3, <1>5
  <2> QED BY <2>1, <2>2, FS_Interval
<1>11. drawn = nextWord .. nextWord + k - 1 /\ drawn \subseteq Words
  BY DEF NewlyDrawn
<1> HIDE DEF k, drawn, retried
<1>7. Cardinality(drawn) = IF k > 0 THEN k ELSE 0
  BY <1>2, <1>5, <1>6
<1>8. drawn = nextWord .. nextWord + Cardinality(drawn) - 1
  <2>2. CASE k > 0
    BY <1>5, <1>7, <1>11, <2>2
  <2>3. CASE ~(k > 0)
    <3>1. nextWord .. nextWord + k - 1 = {} /\ nextWord .. nextWord + 0 - 1 = {}
      BY <1>2, <1>5, <2>3
    <3> QED BY <1>7, <1>11, <2>3, <3>1
  <2> QED BY <2>2, <2>3
<1>9. Cardinality(drawn) \in Nat /\ nextWord + Cardinality(drawn) \in 1 .. MaxWords + 1
  <2>1. CASE k > 0
    <3>1. nextWord + k - 1 \in drawn
      <4>1. nextWord + k - 1 \in nextWord .. nextWord + k - 1
        BY <1>2, <1>3, <1>5, <2>1
      <4> QED BY <1>11, <4>1
    <3>2. nextWord + k - 1 <= MaxWords
      BY <3>1, <1>3, <1>2, <1>5, <1>11 DEF Words
    <3> QED BY <1>2, <1>3, <1>5, <1>7, <2>1, <3>2
  <2>2. CASE ~(k > 0)
    BY <1>2, <1>3, <1>5, <1>7, <2>2
  <2> QED BY <2>1, <2>2
<1>10. /\ InOrder(retried \cup drawn) \in Seq(Words)
       /\ Range(InOrder(retried \cup drawn)) = retried \cup drawn
       /\ IsInjective(InOrder(retried \cup drawn))
  <2> DEFINE S == retried \cup drawn
  <2>1. S \in SUBSET Words /\ S \in SUBSET Nat /\ IsFiniteSet(S)
    BY <1>2, <1>3, <1>11, FS_Subset
  <2>2. InOrder(S) \in Seq(S) /\ Range(InOrder(S)) = S /\ IsInjective(InOrder(S))
    BY <2>1, InOrderIsAList
  <2>3. InOrder(S) \in Seq(Words)
    BY <2>1, <2>2, SeqMonotonic
  <2> QED BY <2>2, <2>3
<1> QED BY <1>1, <1>8, <1>9, <1>10 DEF RefillBatch, retried, drawn

\* A refill keeps the types, and the copies it starts from.
LEMMA RefillTypes ==
    ASSUME TypeInv, NEW p \in Replicas, Refill(p)
    PROVE  /\ TypeInv'
           /\ local[p].records \subseteq local'[p].records
           /\ Range(local'[p].batch) \subseteq local'[p].records
           /\ local'[p].step \in {"stage", "journal"}
           /\ \A q \in Replicas \ {p} : local'[q] = local[q]
           /\ local'[p].journal = local[p].journal
<1> DEFINE short == IF Len(chain.inventory) < Target THEN Target - Len(chain.inventory) ELSE 0
           retried == Retried(p, short)
           drawn == NewlyDrawn(p, short)
           records == local[p].records \cup drawn
           staged == Reconciled(p) \cup drawn
           batch == RefillBatch(p, short)
           t == [local[p] EXCEPT !.step = IF short > 0 THEN "stage" ELSE "journal",
                   !.records = records, !.staged = staged, !.batch = batch]
<1>1. short \in Nat
  <2>1. Len(chain.inventory) \in Nat
    BY LenProperties DEF TypeInv, ChainsOK, Chain
  <2> QED BY <2>1, ConstantsAssumption
<1>2. drawn \subseteq Words
  BY DEF Refill, NewlyDrawn, Retried
<1>3. /\ nextWord' = nextWord + Cardinality(drawn)
      /\ local' = [local EXCEPT ![p] = t]
      /\ UNCHANGED <<chain, final, batches, reveals, lease, expired, tables, failures, faults>>
  <2>1. local' = [local EXCEPT ![p] = [local[p] EXCEPT
                   !.step = IF short > 0 THEN "stage" ELSE "journal",
                   !.records = @ \cup drawn, !.staged = staged, !.batch = batch]]
    BY DEF Refill, NewlyDrawn, Retried, RefillBatch
  <2> QED BY <2>1 DEF Refill, NewlyDrawn, Retried, RefillBatch
<1> HIDE DEF short
<1>4. /\ retried \subseteq local[p].staged /\ Reconciled(p) \subseteq local[p].staged
      /\ Cardinality(drawn) \in Nat /\ nextWord + Cardinality(drawn) \in 1 .. MaxWords + 1
      /\ drawn = nextWord .. nextWord + Cardinality(drawn) - 1
      /\ batch \in Seq(Words) /\ Range(batch) = retried \cup drawn /\ IsInjective(batch)
  BY <1>1, <1>2, RefillFacts
<1> HIDE DEF retried, drawn, batch
<1>5. Drawn \subseteq Drawn' /\ drawn \subseteq Drawn' /\ CountersOK'
  <2>1. nextWord \in 1 .. MaxWords + 1
    BY DEF TypeInv, CountersOK
  <2>2. Drawn \subseteq Drawn' /\ drawn \subseteq Drawn'
    BY <1>3, <1>4, <2>1, ConstantsAssumption, SMTT(30) DEF Drawn
  <2> QED BY <1>3, <1>4, <2>2 DEF TypeInv, CountersOK
<1>6. TickOK(local[p], Drawn) /\ local \in [Replicas -> TickState]
  BY DEF TypeInv, TicksOK
<1>7. staged \subseteq records /\ records \subseteq Words /\ Range(batch) \subseteq records
  BY <1>2, <1>4, <1>6 DEF TickOK, TickState
<1> HIDE DEF staged, records
<1>8. /\ t \in TickState /\ t.staged = staged /\ t.records = records /\ t.batch = batch
      /\ t.journal = local[p].journal /\ t.step = IF short > 0 THEN "stage" ELSE "journal"
  BY <1>4, <1>6, <1>7 DEF TickState, Steps
<1> HIDE DEF t
<1>9. TickOK(t, Drawn')
  <2>1. records \subseteq Drawn' /\ Copied(t.journal) \subseteq Drawn'
    BY <1>5, <1>6, <1>8 DEF TickOK, records
  <2> QED BY <1>4, <1>7, <1>8, <2>1 DEF TickOK
<1>10. local'[p] = t /\ \A q \in Replicas \ {p} : local'[q] = local[q]
  BY <1>3, <1>6
<1>11. TicksOK'
  <2>1. \A q \in Replicas : TickOK(local[q], Drawn')
    BY <1>5 DEF TypeInv, TicksOK, TickOK
  <2>2. local' \in [Replicas -> TickState]
    BY <1>3, <1>6, <1>8
  <2>3. \A q \in Replicas : TickOK(local'[q], Drawn')
    BY <1>9, <1>10, <2>1
  <2> QED BY <2>2, <2>3 DEF TicksOK
<1>12. TablesOK'
  BY <1>3, <1>5 DEF TypeInv, TablesOK
<1>13. ChainsOK' /\ SentOK' /\ FailuresOK'
  BY <1>3, TypesStay
<1>14. TypeInv'
  BY <1>5, <1>11, <1>12, <1>13 DEF TypeInv
<1>15. local[p].records \subseteq local'[p].records /\ Range(local'[p].batch) \subseteq local'[p].records
  BY <1>7, <1>8, <1>10 DEF records
<1> QED BY <1>8, <1>10, <1>14, <1>15

\* The other steps of a tick.
LEMMA TickSteps ==
    ASSUME TypeInv, NEW p \in Replicas, Tick(p)
    PROVE  TypeInv'
<1> USE DEF TypeInv
<1>1. TickOK(local[p], Drawn) /\ local[p] \in TickState
  BY DEF TicksOK, TickOK
<1>2. Range(<<>>) = {} /\ IsInjective(<<>>)
  BY DEF Range, IsInjective
<1>3. ASSUME SendBatch(p) PROVE TypeInv'
  <2>1. SentOK'
    BY <1>1, <1>3 DEF SendBatch, SentOK, TickOK, TickState
  <2>2. TicksOK'
    BY <1>3, StepChange DEF SendBatch, Steps
  <2> QED BY <1>3, <2>1, <2>2, TypesStay DEF SendBatch
<1>4. ASSUME BatchReverts(p) PROVE TypeInv'
  <2>1. TicksOK'
    BY <1>4, StepChange DEF BatchReverts, Steps
  <2> QED BY <1>4, <2>1, TypesStay DEF BatchReverts
<1>5. ASSUME BatchConfirmed(p) PROVE TypeInv'
  <2> DEFINE t == [local[p] EXCEPT !.step = "journal", !.staged = @ \ Range(local[p].batch)]
  <2>1. TickOK(t, Drawn)
    BY <1>1 DEF TickOK, TickState, Steps
  <2>2. local' = [local EXCEPT ![p] = t] /\ nextWord' = nextWord
    BY <1>5 DEF BatchConfirmed, TicksOK
  <2> HIDE DEF t
  <2>3. TicksOK'
    BY <2>1, <2>2, OneTick
  <2> QED BY <1>5, <2>3, TypesStay DEF BatchConfirmed
<1>6. ASSUME BatchUnconfirmed(p) PROVE TypeInv'
  <2>1. TicksOK'
    BY <1>6, StepChange DEF BatchUnconfirmed, Steps
  <2>2. CountersOK'
    BY <1>6, ConstantsAssumption DEF BatchUnconfirmed, CountersOK
  <2> QED BY <1>6, <2>1, <2>2, TypesStay DEF BatchUnconfirmed
<1>7. ASSUME JournalRequests(p) PROVE TypeInv'
  <2> DEFINE staged == IF local[p].batch # <<>> THEN Reconciled(p) ELSE local[p].staged
             pending == PendingRequests(p)
             commitment(r) == IF r \in Unfulfilled(chain) THEN chain.requests[r].commitment
                              ELSE IF failures[p][r] # 0 THEN failures[p][r]
                              ELSE local[p].journal[r].commitment
             copy(w) == IF w \notin local[p].records THEN "missing"
                        ELSE IF w \in staged THEN "staged" ELSE "committed"
             journal == [r \in RequestIds |->
                           IF r \in pending
                           THEN [commitment |-> commitment(r), record |-> copy(commitment(r))]
                           ELSE local[p].journal[r]]
             t == [local[p] EXCEPT !.step = "checkpoint", !.staged = staged, !.batch = <<>>,
                                   !.journal = journal, !.todo = pending]
  <2>1. pending \subseteq RequestIds
    BY RequestsAreTyped DEF PendingRequests, Failed, Journaled, Unfulfilled, ChainsOK
  <2>2. \A r \in RequestIds : commitment(r) \in {0} \cup Words
    BY <1>1, RequestsAreTyped DEF Unfulfilled, ChainsOK, Request1, TickState, Journal, FailuresOK
  <2>3. \A w : copy(w) \in RecordCopies /\ (copy(w) # "missing" => w \in local[p].records)
    BY DEF RecordCopies
  <2>4. local' = [local EXCEPT ![p] = t]
    BY <1>7 DEF JournalRequests
  <2>5. staged \subseteq local[p].records
    BY <1>1 DEF TickOK, Reconciled
  <2> HIDE DEF staged, pending, commitment, copy
  <2>6. journal \in Journal
    BY <1>1, <2>2, <2>3 DEF TickState, Journal, RecordCopies
  <2>7. Copied(journal) \subseteq local[p].records \cup Copied(local[p].journal)
    BY <2>3 DEF Copied, CopiedRecords
  <2> HIDE DEF journal
  <2>11. /\ t \in TickState /\ t.records = local[p].records /\ t.staged = staged
         /\ t.batch = <<>> /\ t.journal = journal /\ t.step = "checkpoint"
    <3>1. <<>> \in Seq(Words) /\ staged \subseteq Words
      BY <1>1, <2>5 DEF TickState
    <3> QED BY <1>1, <2>1, <2>6, <3>1 DEF TickState, Steps
  <2>8. TickOK(t, Drawn)
    <3> HIDE DEF t
    <3> QED BY <1>1, <1>2, <2>5, <2>7, <2>11 DEF TickOK
  <2> HIDE DEF t
  <2>9. TicksOK'
    BY <1>7, <2>4, <2>8, OneTick DEF JournalRequests
  <2> QED BY <1>7, <2>9, TypesStay DEF JournalRequests
<1>8. ASSUME RevealNext(p) PROVE TypeInv'
  <2> DEFINE r == Min(local[p].todo)
             w == local[p].journal[r].commitment
  <2>1. r \in RequestIds
    BY <1>1, <1>8, LeastRequest DEF RevealNext, TickState
  <2>2. AcceptsReveal(chain, r, w) => <<r, w>> \in RequestIds \X Words
    BY <2>1, RequestsAreTyped DEF AcceptsReveal, Unfulfilled, ChainsOK, Request1
  <2>3. reveals' \subseteq reveals \cup {<<r, w>>} /\ (reveals' # reveals => AcceptsReveal(chain, r, w))
    BY <1>8 DEF RevealNext
  <2> HIDE DEF r, w
  <2>4. SentOK'
    BY <1>8, <2>2, <2>3 DEF RevealNext, SentOK
  <2>5. CountersOK'
    BY <1>8, ConstantsAssumption DEF RevealNext, CountersOK
  <2>6. local' = [local EXCEPT ![p].todo = @ \ {r}]
    BY <1>8 DEF RevealNext, r
  <2>7. TicksOK'
    <3> DEFINE t == [local[p] EXCEPT !.todo = @ \ {r}]
    <3>1. /\ t \in TickState /\ t.staged = local[p].staged /\ t.records = local[p].records
          /\ t.batch = local[p].batch /\ t.journal = local[p].journal /\ t.step = local[p].step
      BY <1>1 DEF TickState
    <3>2. local' = [local EXCEPT ![p] = t] /\ nextWord' = nextWord
      BY <1>8, <2>6 DEF RevealNext
    <3> HIDE DEF t
    <3>3. TickOK(t, Drawn)
      BY <1>1, <3>1 DEF TickOK
    <3> QED BY <3>2, <3>3, OneTick
  <2>8. FailuresOK'
    <3> DEFINE word == local[p].journal[Min(local[p].todo)].commitment
    <3>1. Min(local[p].todo) \in RequestIds
      BY <2>1 DEF r
    <3>2. word \in {0} \cup Words /\ failures[p][Min(local[p].todo)] \in {0} \cup Words
      BY <1>1, <3>1 DEF TickState, Journal, FailuresOK
    <3>3. PICK f : /\ f \in {0, word, failures[p][Min(local[p].todo)]}
                   /\ failures' = [failures EXCEPT ![p][Min(local[p].todo)] = f]
      BY <1>8, ZenonT(40) DEF RevealNext
    <3> HIDE DEF word
    <3> QED BY <3>1, <3>2, <3>3 DEF FailuresOK
  <2> QED BY <1>8, <2>4, <2>5, <2>7, <2>8, TypesStay DEF RevealNext
<1>9. ASSUME Prune(p) PROVE TypeInv'
  <2> DEFINE erased == {local[p].journal[r].commitment : r \in Retired(p)}
             journal == [r \in RequestIds |-> IF r \in Retired(p) THEN NoReveal ELSE local[p].journal[r]]
             t == [local[p] EXCEPT !.step = "save", !.records = @ \ erased, !.staged = @ \ erased,
                                   !.journal = journal]
  <2>1. local' = [local EXCEPT ![p] = t]
    BY <1>9 DEF Prune, TicksOK
  <2>2. journal \in Journal /\ Copied(journal) \subseteq Copied(local[p].journal)
    BY <1>1 DEF TickState, Journal, NoReveal, RecordCopies, Copied, CopiedRecords
  <2>3. local[p].batch = <<>>
    BY <1>1, <1>9 DEF Prune, TickOK
  <2> HIDE DEF erased, journal
  <2>4. TickOK(t, Drawn)
    BY <1>1, <1>2, <2>2, <2>3 DEF TickOK, TickState, Steps
  <2> HIDE DEF t
  <2>5. TicksOK'
    BY <1>9, <2>1, <2>4, OneTick DEF Prune
  <2>6. FailuresOK'
    <3>1. failures' = [failures EXCEPT ![p] = [r \in RequestIds |-> IF r \in Retired(p) THEN 0 ELSE failures[p][r]]]
      BY <1>9 DEF Prune, FailuresOK
    <3> QED BY <3>1 DEF FailuresOK
  <2> QED BY <1>9, <2>5, <2>6, TypesStay DEF Prune
<1>10. ASSUME Save(p) \/ StageWords(p) \/ Checkpoint(p) PROVE TypeInv'
  <2>1. TicksOK'
    <3>1. CASE Save(p) \/ StageWords(p)
      BY <3>1, StepChange DEF Save, StageWords, Steps
    <3>2. CASE Checkpoint(p)
      BY <3>2, StepChange DEF Checkpoint, Steps
    <3> QED BY <1>10, <3>1, <3>2
  <2>2. TablesOK'
    <3>1. overwritten' \in BOOLEAN
      BY <1>10 DEF Save, StageWords, Checkpoint, SaveOf, TablesOK
    <3>2. CASE Save(p) \/ StageWords(p)
      <4>1. db' = [db EXCEPT !.records = local[p].records, !.staged = local[p].staged] /\ nextWord' = nextWord
        BY <3>2 DEF Save, StageWords
      <4> QED BY <1>1, <3>1, <4>1 DEF TablesOK, Tables, TickOK, TickState, Drawn
    <3>3. CASE Checkpoint(p)
      <4>1. db' = [db EXCEPT !.journal = local[p].journal] /\ nextWord' = nextWord
        BY <3>3 DEF Checkpoint
      <4> QED BY <1>1, <3>1, <4>1 DEF TablesOK, Tables, TickOK, TickState, Drawn
    <3> QED BY <1>10, <3>2, <3>3
  <2>3. UNCHANGED <<chain, final, batches, reveals, lease, expired, failures, nextWord, faults>>
    BY <1>10 DEF Save, StageWords, Checkpoint
  <2> QED BY <2>1, <2>2, <2>3, TypesStay
<1>12. EndTick(p) /\ nextWord' = nextWord => TicksOK' /\ lease' \in Replicas \cup {Free, Orphan} /\ expired' \in BOOLEAN
  <2>1. TickOK(IdleTick, Drawn)
    <3>1. EmptyJournal \in Journal /\ Copied(EmptyJournal) = {}
      BY DEF EmptyJournal, Journal, NoReveal, RecordCopies, Copied, CopiedRecords
    <3> QED BY <1>2, <3>1 DEF TickOK, IdleTick, TickState, Steps
  <2> QED BY <2>1, OneTick DEF EndTick, CountersOK
<1>13. ASSUME TickFails(p) PROVE TypeInv'
  <2>1. TicksOK' /\ CountersOK'
    BY <1>12, <1>13, ConstantsAssumption DEF TickFails, CountersOK
  <2> QED BY <1>13, <2>1, TypesStay DEF TickFails
<1>11. ASSUME SaveReveals(p) PROVE TypeInv'
  <2>1. TablesOK'
    BY <1>1, <1>11 DEF SaveReveals, SaveOf, TablesOK, Tables, TickOK, TickState, Drawn
  <2>2. TicksOK' /\ CountersOK'
    BY <1>11, <1>12 DEF SaveReveals, CountersOK
  <2> QED BY <1>11, <2>1, <2>2, TypesStay DEF SaveReveals
<1> QED BY <1>3, <1>4, <1>5, <1>6, <1>7, <1>8, <1>9, <1>10, <1>11, <1>13, RefillTypes DEF Tick

\* Every step keeps the types.
LEMMA TypeStep == TypeInv /\ [Next]_vars => TypeInv'
<1> SUFFICES ASSUME TypeInv, [Next]_vars PROVE TypeInv'
  OBVIOUS
<1>1. CASE UNCHANGED vars
  BY <1>1, TypesStay DEF vars, TypeInv
<1> QED BY <1>1, ChainSteps, LeaseSteps, TickSteps DEF Next

\* The type invariant of the model follows.
LEMMA TypesGiveTypeOK == TypeInv => TypeOK
<1> SUFFICES ASSUME TypeInv PROVE TypeOK
  OBVIOUS
<1>1. \A p \in Replicas : TickOK(local[p], Drawn)
  BY DEF TypeInv, TicksOK
<1>2. ASSUME NEW p \in Replicas PROVE local[p].batch \in Seq(local[p].records)
  <2>1. local[p].batch \in Seq(Words) /\ Range(local[p].batch) \subseteq local[p].records
    BY <1>1 DEF TickOK, TickState
  <2>2. \A i \in 1 .. Len(local[p].batch) : local[p].batch[i] \in local[p].records
    BY <2>1, LenProperties DEF Range
  <2> QED BY <2>1, <2>2, LenProperties
<1>3. ASSUME NEW p \in Replicas
      PROVE  /\ local[p].step \in Steps /\ local[p].staged \subseteq local[p].records
             /\ local[p].records \subseteq 1 .. nextWord - 1
             /\ local[p].journal \in Journal /\ local[p].todo \subseteq RequestIds
  BY <1>1 DEF TickOK, TickState, Drawn
<1>4. ASSUME NEW ch \in Chain
      PROVE  /\ ch.inventory \in Seq(Words) /\ ch.used \subseteq Words
             /\ ch.requests \in Seq([commitment : Words, gated : BOOLEAN,
                                     sealed : BOOLEAN, fulfilled : BOOLEAN])
  BY DEF Chain, Request1
<1> QED BY <1>2, <1>3, <1>4 DEF TypeOK, TypeInv, ChainsOK, SentOK, CountersOK, TablesOK, FailuresOK, Tables

\* The tables and the copies of the secrets stay well formed through every
\* crash, hand-over and failed call.
THEOREM Types == Spec => []TypeOK
<1>1. Spec => []TypeInv
  BY InitTypes, TypeStep, PTL DEF Spec
<1> QED BY <1>1, TypesGiveTypeOK, PTL

-----------------------------------------------------------------------------
(* The chain: each commitment has one place. *)

\* A list without repetitions loses its first entry with its head.
LEMMA HeadAndTail ==
    ASSUME NEW s \in Seq(Words), s # <<>>, IsInjective(s)
    PROVE  /\ Head(s) \in Range(s) /\ Tail(s) \in Seq(Words) /\ IsInjective(Tail(s))
           /\ Range(Tail(s)) \subseteq Range(s) \ {Head(s)}
<1>1. /\ Len(s) \in Nat \ {0} /\ DOMAIN s = 1 .. Len(s)
      /\ Tail(s) \in Seq(Words) /\ Len(Tail(s)) = Len(s) - 1
      /\ \A i \in 1 .. Len(Tail(s)) : Tail(s)[i] = s[i + 1]
      /\ Head(s) = s[1]
  BY HeadTailProperties, LenProperties, EmptySeq
<1>2. DOMAIN Tail(s) = 1 .. Len(s) - 1
  BY <1>1, LenProperties
<1>3. Head(s) \in Range(s)
  BY <1>1 DEF Range
<1>4. \A i \in DOMAIN Tail(s) : i + 1 \in DOMAIN s /\ i + 1 # 1 /\ Tail(s)[i] = s[i + 1]
  BY <1>1, <1>2
<1>5. IsInjective(Tail(s))
  <2> SUFFICES ASSUME NEW i \in DOMAIN Tail(s), NEW j \in DOMAIN Tail(s), Tail(s)[i] = Tail(s)[j]
               PROVE  i = j
    BY DEF IsInjective
  <2>1. i + 1 = j + 1
    BY <1>4 DEF IsInjective
  <2> QED BY <1>1, <1>2, <2>1
<1>6. Range(Tail(s)) \subseteq Range(s) \ {Head(s)}
  <2> SUFFICES ASSUME NEW i \in DOMAIN Tail(s)
               PROVE  Tail(s)[i] \in Range(s) /\ Tail(s)[i] # Head(s)
    BY DEF Range
  <2>1. 1 \in DOMAIN s
    BY <1>1
  <2> QED BY <1>1, <1>4, <2>1 DEF Range, IsInjective
<1> QED BY <1>1, <1>3, <1>5, <1>6

\* Two lists without a common entry make one without repetitions.
LEMMA JoinedLists ==
    ASSUME NEW s \in Seq(Words), NEW t \in Seq(Words), IsInjective(s), IsInjective(t),
           Range(s) \cap Range(t) = {}
    PROVE  Range(s \o t) = Range(s) \cup Range(t) /\ IsInjective(s \o t)
<1>1. /\ Len(s) \in Nat /\ DOMAIN s = 1 .. Len(s) /\ Len(t) \in Nat /\ DOMAIN t = 1 .. Len(t)
      /\ DOMAIN (s \o t) = 1 .. Len(s) + Len(t)
      /\ \A i \in 1 .. Len(s) + Len(t) : (s \o t)[i] = IF i <= Len(s) THEN s[i] ELSE t[i - Len(s)]
  BY LenProperties, ConcatProperties
<1>2. ASSUME NEW i \in DOMAIN (s \o t)
      PROVE  IF i <= Len(s) THEN i \in DOMAIN s /\ (s \o t)[i] = s[i]
             ELSE i - Len(s) \in DOMAIN t /\ (s \o t)[i] = t[i - Len(s)]
  BY <1>1
<1>3. Range(s \o t) \subseteq Range(s) \cup Range(t)
  BY <1>2 DEF Range
<1>4. Range(s) \subseteq Range(s \o t)
  BY <1>1 DEF Range
<1>5. Range(t) \subseteq Range(s \o t)
  <2> SUFFICES ASSUME NEW j \in DOMAIN t PROVE t[j] \in Range(s \o t)
    BY DEF Range
  <2>1. /\ j + Len(s) \in DOMAIN (s \o t) /\ ~(j + Len(s) <= Len(s))
        /\ (j + Len(s)) - Len(s) = j
    BY <1>1
  <2>2. (s \o t)[j + Len(s)] = t[j]
    BY <1>1, <2>1
  <2> QED BY <2>1, <2>2 DEF Range
<1>6. IsInjective(s \o t)
  <2> SUFFICES ASSUME NEW i \in DOMAIN (s \o t), NEW j \in DOMAIN (s \o t), (s \o t)[i] = (s \o t)[j]
               PROVE  i = j
    BY DEF IsInjective
  <2>1. CASE i <= Len(s) /\ j <= Len(s)
    BY <1>2, <2>1 DEF IsInjective
  <2>2. CASE ~(i <= Len(s)) /\ ~(j <= Len(s))
    <3>1. i - Len(s) = j - Len(s)
      BY <1>2, <2>2 DEF IsInjective
    <3> QED BY <1>1, <3>1
  <2>3. CASE i <= Len(s) /\ ~(j <= Len(s))
    BY <1>2, <2>3 DEF Range
  <2>4. CASE ~(i <= Len(s)) /\ j <= Len(s)
    BY <1>2, <2>4 DEF Range
  <2> QED BY <2>1, <2>2, <2>3, <2>4
<1> QED BY <1>3, <1>4, <1>5, <1>6

\* What a request does to the latest block.
LEMMA RequestChain ==
    ASSUME TypeInv, WellFormed(chain), NEW gated \in BOOLEAN, Request(gated)
    PROVE  /\ chain'.inventory = Tail(chain.inventory) /\ chain'.used = chain.used
           /\ Range(chain'.inventory) \subseteq Range(chain.inventory) \ {Head(chain.inventory)}
           /\ Head(chain.inventory) \in Range(chain.inventory) /\ IsInjective(chain'.inventory)
           /\ Len(chain'.requests) = Len(chain.requests) + 1
           /\ DOMAIN chain'.requests = DOMAIN chain.requests \cup {Len(chain.requests) + 1}
           /\ \A r \in DOMAIN chain.requests :
                 r # Len(chain.requests) + 1 /\ chain'.requests[r] = chain.requests[r]
           /\ chain'.requests[Len(chain.requests) + 1] =
                 [commitment |-> Head(chain.inventory), gated |-> gated, sealed |-> FALSE, fulfilled |-> FALSE]
<1> DEFINE new == [commitment |-> Head(chain.inventory), gated |-> gated, sealed |-> FALSE, fulfilled |-> FALSE]
<1>1. /\ chain \in Chain /\ chain.inventory \in Seq(Words) /\ chain.inventory # <<>>
      /\ IsInjective(chain.inventory)
  BY DEF Request, TypeInv, ChainsOK, Chain, WellFormed
<1>2. /\ Head(chain.inventory) \in Range(chain.inventory)
      /\ Tail(chain.inventory) \in Seq(Words) /\ IsInjective(Tail(chain.inventory))
      /\ Range(Tail(chain.inventory)) \subseteq Range(chain.inventory) \ {Head(chain.inventory)}
  BY <1>1, HeadAndTail
<1>3. new \in Request1
  BY <1>1, <1>2, HeadTailProperties DEF Request1
<1>4. /\ chain.requests \in Seq(Request1) /\ Len(chain.requests) \in Nat
      /\ DOMAIN chain.requests = 1 .. Len(chain.requests)
  BY <1>1, RequestsAreTyped
<1>5. chain' = [chain EXCEPT !.inventory = Tail(chain.inventory), !.requests = Append(chain.requests, new)]
  BY DEF Request
<1> HIDE DEF new
<1>6. chain'.requests = Append(chain.requests, new) /\ chain'.inventory = Tail(chain.inventory) /\ chain'.used = chain.used
  BY <1>1, <1>5 DEF Chain
<1>7. /\ Append(chain.requests, new) \in Seq(Request1)
      /\ Len(Append(chain.requests, new)) = Len(chain.requests) + 1
      /\ \A i \in 1 .. Len(chain.requests) : Append(chain.requests, new)[i] = chain.requests[i]
      /\ Append(chain.requests, new)[Len(chain.requests) + 1] = new
  BY <1>3, <1>4, AppendProperties
<1>8. DOMAIN Append(chain.requests, new) = 1 .. Len(chain.requests) + 1
  BY <1>7, LenProperties
<1>9. /\ DOMAIN chain'.requests = DOMAIN chain.requests \cup {Len(chain.requests) + 1}
      /\ \A r \in DOMAIN chain.requests : r # Len(chain.requests) + 1 /\ chain'.requests[r] = chain.requests[r]
  BY <1>4, <1>6, <1>7, <1>8
<1> QED BY <1>2, <1>6, <1>7, <1>9 DEF new

\* What a seal and a reveal do to it.
LEMMA MarkChain ==
    ASSUME TypeInv, NEW r \in RequestIds, NEW w \in Words, Seal(r) \/ MineReveal(r, w)
    PROVE  /\ r \in DOMAIN chain.requests
           /\ chain'.inventory = chain.inventory /\ chain'.used = chain.used
           /\ DOMAIN chain'.requests = DOMAIN chain.requests
           /\ Len(chain'.requests) = Len(chain.requests)
           /\ \A s \in DOMAIN chain.requests :
                 /\ chain'.requests[s].commitment = chain.requests[s].commitment
                 /\ chain'.requests[s].gated = chain.requests[s].gated
                 /\ chain.requests[s].sealed => chain'.requests[s].sealed
                 /\ chain.requests[s].fulfilled => chain'.requests[s].fulfilled
           /\ UNCHANGED <<final, batches, reveals, lease, expired, tables, local, failures, nextWord, faults>>
<1> DEFINE e == IF Seal(r) THEN [chain.requests[r] EXCEPT !.sealed = TRUE]
                ELSE [chain.requests[r] EXCEPT !.fulfilled = TRUE]
<1>1. r \in DOMAIN chain.requests /\ chain \in Chain
  BY DEF Seal, MineReveal, Requested, AcceptsReveal, Unfulfilled, TypeInv, ChainsOK
<1>2. chain.requests[r] \in Request1
  BY <1>1, RequestsAreTyped
<1>3. /\ e \in Request1 /\ e.commitment = chain.requests[r].commitment /\ e.gated = chain.requests[r].gated
      /\ chain.requests[r].sealed => e.sealed
      /\ chain.requests[r].fulfilled => e.fulfilled
  BY <1>2 DEF Request1
<1>4. /\ chain' = [chain EXCEPT !.requests[r] = e]
      /\ UNCHANGED <<final, batches, reveals, lease, expired, tables, local, failures, nextWord, faults>>
  BY DEF Seal, MineReveal
<1> HIDE DEF e
<1>5. /\ ChainsOK' /\ chain'.inventory = chain.inventory /\ chain'.used = chain.used
      /\ DOMAIN chain'.requests = DOMAIN chain.requests
      /\ \A s \in DOMAIN chain.requests : chain'.requests[s] = IF s = r THEN e ELSE chain.requests[s]
  BY <1>1, <1>3, <1>4, RequestReplaced DEF TypeInv
<1>6. Len(chain'.requests) = Len(chain.requests)
  <2>1. /\ Len(chain.requests) \in Nat /\ DOMAIN chain.requests = 1 .. Len(chain.requests)
        /\ Len(chain'.requests) \in Nat /\ DOMAIN chain'.requests = 1 .. Len(chain'.requests)
    BY <1>5, RequestsAreTyped DEF TypeInv, ChainsOK
  <2> QED BY <1>5, <2>1
<1> QED BY <1>1, <1>3, <1>4, <1>5, <1>6

\* What a batch does to it.
LEMMA BatchChain ==
    ASSUME TypeInv, WellFormed(chain), NEW b \in batches, MineBatch(b)
    PROVE  /\ Range(b) \cap chain.used = {}
           /\ chain'.used = chain.used \cup Range(b) /\ chain'.requests = chain.requests
           /\ Range(chain'.inventory) = Range(chain.inventory) \cup Range(b)
           /\ IsInjective(chain'.inventory)
           /\ UNCHANGED <<final, batches, reveals, lease, expired, tables, local, failures, nextWord, faults>>
<1>1. b \in Seq(Words) /\ IsInjective(b) /\ chain \in Chain /\ chain.inventory \in Seq(Words)
  BY DEF TypeInv, SentOK, ChainsOK, Chain
<1>2. Range(b) \cap chain.used = {} /\ chain' = [chain EXCEPT !.inventory = @ \o b, !.used = @ \cup Range(b)]
  BY DEF MineBatch, AcceptsBatch
<1>3. chain'.used = chain.used \cup Range(b) /\ chain'.requests = chain.requests /\ chain'.inventory = chain.inventory \o b
  BY <1>1, <1>2 DEF Chain
<1>4. Range(chain.inventory \o b) = Range(chain.inventory) \cup Range(b) /\ IsInjective(chain.inventory \o b)
  BY <1>1, <1>2, JoinedLists DEF WellFormed
<1> QED BY <1>2, <1>3, <1>4 DEF MineBatch

\* Every step keeps a word in one place on the chain and on its finalized part.
LEMMA ChainStep == TypeInv /\ ChainInv /\ [Next]_vars => ChainInv'
<1> SUFFICES ASSUME TypeInv, ChainInv, [Next]_vars PROVE ChainInv'
  OBVIOUS
<1> USE DEF ChainInv
<1>1. ASSUME NEW gated \in BOOLEAN, Request(gated) PROVE ChainInv'
  <2>1. final' = final
    BY <1>1 DEF Request
  <2>2. WellFormed(chain)'
    <3> DEFINE n == Len(chain.requests) + 1
               inv == chain.inventory
               head == Head(inv)
    <3>1. /\ chain'.used = chain.used /\ IsInjective(chain'.inventory)
          /\ Range(chain'.inventory) \subseteq Range(inv) \ {head} /\ head \in Range(inv)
          /\ DOMAIN chain'.requests = DOMAIN chain.requests \cup {n}
          /\ \A r \in DOMAIN chain.requests : r # n /\ chain'.requests[r] = chain.requests[r]
          /\ chain'.requests[n].commitment = head
      <4>1. WellFormed(chain)
        OBVIOUS
      <4>2. chain'.requests[n] = [commitment |-> head, gated |-> gated, sealed |-> FALSE, fulfilled |-> FALSE]
        BY <1>1, <4>1, RequestChain
      <4>3. chain'.requests[n].commitment = head
        BY <4>2
      <4> QED BY <1>1, <4>1, <4>3, RequestChain
    <3> HIDE DEF n, head, inv
    <3>2. /\ Range(inv) \subseteq chain.used
          /\ \A r \in DOMAIN chain.requests :
                /\ chain.requests[r].commitment \in chain.used \ Range(inv)
                /\ \A s \in DOMAIN chain.requests :
                      chain.requests[s].commitment = chain.requests[r].commitment => s = r
      BY DEF WellFormed, inv
    <3>3. ASSUME NEW r \in DOMAIN chain'.requests
          PROVE  chain'.requests[r].commitment \in chain'.used \ Range(chain'.inventory)
      BY <3>1, <3>2
    <3>4. ASSUME NEW r \in DOMAIN chain'.requests, NEW s \in DOMAIN chain'.requests,
                 chain'.requests[s].commitment = chain'.requests[r].commitment
          PROVE  s = r
      BY <3>1, <3>2, <3>4
    <3> QED BY <3>1, <3>2, <3>3, <3>4 DEF WellFormed
  <2>3. WellFormed(final)'
    BY <2>1 DEF WellFormed
  <2>4. DOMAIN final.requests \subseteq DOMAIN chain.requests /\ Len(chain.requests) \in Nat
    BY RequestsAreTyped DEF TypeInv, ChainsOK, Continues
  <2>5. Len(final.requests) <= Len(chain'.requests)
    <3>1. Len(chain'.requests) = Len(chain.requests) + 1
      BY <1>1, RequestChain
    <3>2. Len(final.requests) \in Nat /\ Len(final.requests) <= Len(chain.requests)
      BY RequestsAreTyped DEF TypeInv, ChainsOK, Continues
    <3> QED BY <2>4, <3>1, <3>2
  <2>6. Continues'
    BY <1>1, <2>1, <2>4, <2>5, RequestChain DEF Continues
  <2> QED BY <2>2, <2>3, <2>6
<1>2. ASSUME NEW r \in RequestIds, NEW w \in Words, Seal(r) \/ MineReveal(r, w) PROVE ChainInv'
  <2>1. WellFormed(chain)' /\ WellFormed(final)'
    BY <1>2, MarkChain DEF WellFormed
  <2>2. DOMAIN final.requests \subseteq DOMAIN chain.requests
    BY RequestsAreTyped DEF TypeInv, ChainsOK, Continues
  <2>3. Continues'
    BY <1>2, <2>2, MarkChain DEF Continues
  <2> QED BY <2>1, <2>3
<1>3. ASSUME NEW b \in batches, MineBatch(b) PROVE ChainInv'
  <2>1. WellFormed(chain)' /\ WellFormed(final)'
    BY <1>3, BatchChain DEF WellFormed
  <2>2. Continues'
    BY <1>3, BatchChain DEF Continues
  <2> QED BY <2>1, <2>2
<1>4. ASSUME Finalize \/ Reorganise PROVE ChainInv'
  <2>1. chain' = final' /\ (final' = chain \/ final' = final)
    BY <1>4 DEF Finalize, Reorganise
  <2>2. WellFormed(chain)' /\ WellFormed(final)'
    BY <2>1 DEF WellFormed
  <2>3. Len(final'.requests) \in Nat
    BY <2>1, RequestsAreTyped DEF TypeInv, ChainsOK
  <2>4. Continues'
    BY <2>1, <2>3 DEF Continues
  <2> QED BY <2>2, <2>4
<1>5. ASSUME UNCHANGED <<chain, final>> PROVE ChainInv'
  BY <1>5 DEF WellFormed, Continues
<1>6. ASSUME NEW p \in Replicas, BeginTick(p) \/ RenewLease(p) \/ LeaseLost(p) \/ Crash(p) \/ Tick(p)
      PROVE  UNCHANGED <<chain, final>>
  BY <1>6 DEF BeginTick, RenewLease, LeaseLost, Crash, Tick, Refill, StageWords, SendBatch,
     BatchReverts, BatchConfirmed, BatchUnconfirmed, JournalRequests, Checkpoint, RevealNext, Prune,
     Save, SaveReveals, TickFails
<1>7. ASSUME NEW r \in RequestIds, Seal(r) PROVE ChainInv'
  <2>1. \A s \in DOMAIN chain.requests : chain.requests[s].commitment \in Words
    BY RequestsAreTyped DEF TypeInv, ChainsOK, Request1
  <2>2. chain.requests[r].commitment \in Words
    BY <1>7, <2>1 DEF Seal, Requested
  <2> QED BY <1>2, <1>7, <2>2
<1>8. CASE UNCHANGED vars
  BY <1>5, <1>8 DEF vars
<1>9. CASE ExpireLease
  BY <1>5, <1>9 DEF ExpireLease
<1> QED BY <1>1, <1>2, <1>3, <1>4, <1>5, <1>6, <1>7, <1>8, <1>9 DEF Next, Mine

-----------------------------------------------------------------------------
(* The lease: who steps holds it, but for the saves that do not look at it. *)

\* No replica is taken for the marks of a free or an orphaned lease.
LEMMA ReplicaIsNoRow ==
    ASSUME NEW p \in Replicas
    PROVE  p # Free /\ p # Orphan
BY LeaseAssumption

\* Who takes a step of its tick holds the lease, or saves without it and is
\* remembered, or fails to save and changes nothing that others see.
LEMMA StepsAreTheHolders ==
    ASSUME NEW p \in Replicas, Tick(p), ~overwritten'
    PROVE  Holder(p) \/ BatchUnconfirmed(p) \/ TickFails(p)
<1>1. CASE Saving(p)
  BY <1>1 DEF Tick, SaveOf, Saving, Holder, Active, Refill, StageWords, SendBatch, BatchReverts,
     BatchConfirmed, JournalRequests, Checkpoint, RevealNext, Prune, Save, SaveReveals
<1>2. CASE ~Saving(p)
  BY <1>2 DEF Tick, MayContinue, Saving, Holder, Active, Refill, StageWords, SendBatch, BatchReverts,
     BatchConfirmed, JournalRequests, Checkpoint, RevealNext, Prune, Save, SaveReveals
<1> QED BY <1>1, <1>2

\* What a step of a tick leaves to the other replicas, and to the chain.
LEMMA TickLease ==
    ASSUME TypeInv, NEW p \in Replicas, Tick(p)
    PROVE  /\ lease' = lease \/ (lease = p /\ lease' = Free)
           /\ \A q \in Replicas \ {p} : local'[q] = local[q]
           /\ UNCHANGED <<chain, final>>
           /\ overwritten => overwritten'
<1>1. local \in [Replicas -> TickState] /\ overwritten \in BOOLEAN
  BY DEF TypeInv, TicksOK, TablesOK
<1>2. CASE Refill(p)
  BY <1>2, RefillTypes DEF Refill
<1>3. CASE SendBatch(p) \/ BatchReverts(p) \/ BatchConfirmed(p) \/ BatchUnconfirmed(p)
  BY <1>1, <1>3 DEF SendBatch, BatchReverts, BatchConfirmed, BatchUnconfirmed
<1>4. CASE JournalRequests(p) \/ RevealNext(p)
  BY <1>1, <1>4 DEF JournalRequests, RevealNext
<1>5. CASE Prune(p)
  BY <1>1, <1>5 DEF Prune
<1>6. CASE StageWords(p) \/ Checkpoint(p) \/ Save(p)
  BY <1>1, <1>6 DEF StageWords, Checkpoint, Save, SaveOf
<1>7. CASE SaveReveals(p) \/ TickFails(p)
  BY <1>1, <1>7 DEF SaveReveals, TickFails, EndTick, SaveOf
<1> QED BY <1>2, <1>3, <1>4, <1>5, <1>6, <1>7 DEF Tick

\* The history only grows, and what is spent stays spent.
LEMMA HistoryStep ==
    ASSUME TypeInv, ChainInv, [Next]_vars
    PROVE  /\ overwritten => overwritten'
           /\ \A r : SpentOn(final, r) => SpentOn(final', r)
<1>1. CASE (\E gated \in BOOLEAN : Request(gated)) \/ (\E r \in RequestIds : Seal(r)) \/ Mine \/ UNCHANGED vars
  <2>1. UNCHANGED <<final, overwritten>>
    <3>1. CASE (\E gated \in BOOLEAN : Request(gated)) \/ (\E r \in RequestIds : Seal(r))
      BY <3>1 DEF Request, Seal
    <3>2. CASE Mine
      BY <3>2 DEF Mine, MineBatch, MineReveal
    <3>3. CASE UNCHANGED vars
      BY <3>3 DEF vars
    <3> QED BY <1>1, <3>1, <3>2, <3>3
  <2> QED BY <2>1
<1>2. CASE Finalize \/ Reorganise
  <2>1. DOMAIN final.requests \subseteq DOMAIN chain.requests
    BY RequestsAreTyped DEF TypeInv, ChainsOK, ChainInv, Continues
  <2> QED BY <1>2, <2>1 DEF Finalize, Reorganise, SpentOn, ChainInv, Continues
<1>3. CASE ExpireLease \/ (\E p \in Replicas : BeginTick(p) \/ RenewLease(p) \/ LeaseLost(p) \/ Crash(p))
  BY <1>3 DEF ExpireLease, BeginTick, RenewLease, LeaseLost, Crash
<1>4. CASE \E p \in Replicas : Tick(p)
  BY <1>4, TickLease
<1> QED BY <1>1, <1>2, <1>3, <1>4 DEF Next

-----------------------------------------------------------------------------
(* What is owed is kept. *)

\* What the chain may ask for depends on the chain and the batches sent.
LEMMA OwedStays ==
    ASSUME UNCHANGED <<chain, final, batches>>
    PROVE  Owed' = Owed
BY DEF Owed, Spent

\* The chain asks for nothing that it was not already owed.
LEMMA ChainOwesLess ==
    ASSUME TypeInv, ChainInv,
           \/ \E gated \in BOOLEAN : Request(gated)
           \/ \E r \in RequestIds : Seal(r)
           \/ Mine \/ Finalize \/ Reorganise
    PROVE  Owed' \subseteq Owed /\ UNCHANGED <<batches, reveals, tables, local, lease, expired>>
<1> USE DEF ChainInv
<1>1. DOMAIN final.requests \subseteq DOMAIN chain.requests
  BY RequestsAreTyped DEF TypeInv, ChainsOK, Continues
<1>2. ASSUME NEW gated \in BOOLEAN, Request(gated)
      PROVE  Owed' \subseteq Owed
  <2> DEFINE n == Len(chain.requests) + 1
  <2>1. UNCHANGED <<final, batches>>
    BY <1>2 DEF Request
  <2>2. /\ Range(chain'.inventory) \subseteq Range(chain.inventory)
        /\ Head(chain.inventory) \in Range(chain.inventory)
        /\ DOMAIN chain'.requests = DOMAIN chain.requests \cup {n}
        /\ \A r \in DOMAIN chain.requests : chain'.requests[r] = chain.requests[r]
        /\ chain'.requests[n].commitment = Head(chain.inventory)
    <3>1. WellFormed(chain)
      OBVIOUS
    <3>2. chain'.requests[n] = [commitment |-> Head(chain.inventory), gated |-> gated, sealed |-> FALSE, fulfilled |-> FALSE]
      BY <1>2, <3>1, RequestChain
    <3>3. chain'.requests[n].commitment = Head(chain.inventory)
      BY <3>2
    <3> QED BY <1>2, <3>1, <3>3, RequestChain
  <2> HIDE DEF n
  <2> QED BY <2>1, <2>2 DEF Owed, Spent
<1>3. ASSUME NEW r \in RequestIds, NEW w \in Words, Seal(r) \/ MineReveal(r, w)
      PROVE  Owed' \subseteq Owed
  BY <1>3, MarkChain DEF Owed, Spent
<1>4. ASSUME NEW b \in batches, MineBatch(b)
      PROVE  Owed' \subseteq Owed
  <2>1. Range(b) \cap final.used = {}
    BY <1>4, BatchChain DEF Continues
  <2> QED BY <1>4, <2>1, BatchChain DEF Owed, Spent
<1>5. ASSUME Finalize PROVE Owed' \subseteq Owed
  BY <1>5 DEF Finalize, Owed, Spent, Continues
<1>6. ASSUME Reorganise PROVE Owed' \subseteq Owed
  BY <1>1, <1>6 DEF Reorganise, Owed, Spent, Continues
<1>7. ASSUME NEW r \in RequestIds, Seal(r) PROVE Owed' \subseteq Owed
  <2>1. \A s \in DOMAIN chain.requests : chain.requests[s].commitment \in Words
    BY RequestsAreTyped DEF TypeInv, ChainsOK, Request1
  <2>2. chain.requests[r].commitment \in Words
    BY <1>7, <2>1 DEF Seal, Requested
  <2> QED BY <1>3, <1>7, <2>2
<1>8. Owed' \subseteq Owed
  BY <1>2, <1>3, <1>4, <1>5, <1>6, <1>7 DEF Mine
<1> QED BY <1>8 DEF Request, Seal, Mine, MineBatch, MineReveal, Finalize, Reorganise

\* The chain asks no more for the word of a request that is finally spent.
LEMMA SpentIsDead ==
    ASSUME TypeInv, ChainInv, NEW r, Spent(r)
    PROVE  final.requests[r].commitment \notin Owed
<1> DEFINE w == final.requests[r].commitment
<1>1. /\ r \in DOMAIN final.requests /\ r \in DOMAIN chain.requests
      /\ chain.requests[r].commitment = w
  BY RequestsAreTyped DEF Spent, TypeInv, ChainsOK, ChainInv, Continues
<1>2. w \in final.used /\ w \notin Range(final.inventory) /\ w \notin Range(chain.inventory)
  BY <1>1 DEF ChainInv, WellFormed
<1>3. \A s \in DOMAIN chain.requests : chain.requests[s].commitment = w => s = r
  BY <1>1 DEF ChainInv, WellFormed
<1> HIDE DEF w
<1>4. w \notin Owed
  BY <1>2, <1>3 DEF Owed
<1> QED BY <1>4 DEF w

\* A journal that loses no request but spent ones holds what was broadcast.
LEMMA StaysRetryable ==
    ASSUME NEW i, NEW j, NEW sent, NEW f, NEW g, Holds(i, sent, f),
           \A r : SpentOn(f, r) => SpentOn(g, r),
           \A r \in Journaled(i) : r \in Journaled(j) \/ SpentOn(f, r)
    PROVE  Holds(j, sent, g)
BY DEF Holds

\* A replica that neither steps nor holds the lease keeps what it has.
LEMMA OthersKeep ==
    ASSUME Kept, NEW q \in Replicas, local'[q] = local[q], \A r : SpentOn(final, r) => SpentOn(final', r),
           lease' # q \/ (lease = q /\ db' = db /\ reveals' = reveals /\ Owed' \subseteq Owed)
    PROVE  Keeps(q)'
<1>1. Keeps(q)
  BY DEF Kept
<1>2. CASE lease' # q
  BY <1>1, <1>2 DEF Keeps, Holder
<1>3. CASE lease = q /\ db' = db /\ reveals' = reveals /\ Owed' \subseteq Owed
  <2>1. Holder(q) => Holds(local[q].journal, reveals, final')
    BY <1>1, StaysRetryable DEF Keeps
  <2> QED BY <1>1, <1>3, <2>1 DEF Keeps, Holder, Active
<1> QED BY <1>2, <1>3

\* Steps outside the ticks.
LEMMA KeptOutsideTicks ==
    ASSUME TypeInv, ChainInv, Kept, [Next]_vars
    PROVE  /\ (\/ \E gated \in BOOLEAN : Request(gated)
               \/ \E r \in RequestIds : Seal(r)
               \/ Mine \/ Finalize \/ Reorganise \/ ExpireLease \/ UNCHANGED vars) => Kept'
           /\ \A p \in Replicas : BeginTick(p) \/ RenewLease(p) \/ LeaseLost(p) \/ Crash(p) => Kept'
<1>1. local \in [Replicas -> TickState] /\ \A r : SpentOn(final, r) => SpentOn(final', r)
  BY HistoryStep DEF TypeInv, TicksOK
<1>7. ASSUME db' = db, reveals' = reveals, Owed' \subseteq Owed
      PROVE  Owed' \subseteq db'.records /\ Holds(db'.journal, reveals', final')
  <2>1. Holds(db.journal, reveals, final')
    BY <1>1, StaysRetryable DEF Kept
  <2> QED BY <1>7, <2>1 DEF Kept
<1>2. ASSUME Owed' \subseteq Owed, UNCHANGED <<db, reveals, lease, local>> PROVE Kept'
  <2>1. \A q \in Replicas : Keeps(q)'
    BY <1>1, <1>2, OthersKeep
  <2> QED BY <1>2, <1>7, <2>1 DEF Kept
<1>3. ASSUME ExpireLease \/ UNCHANGED vars PROVE Kept'
  <2>1. Owed' = Owed
    BY <1>3, OwedStays DEF ExpireLease, vars
  <2> QED BY <1>2, <1>3, <2>1 DEF ExpireLease, vars
<1>4. ASSUME NEW p \in Replicas, RenewLease(p) PROVE Kept'
  BY <1>2, <1>4, OwedStays DEF RenewLease
<1>5. ASSUME NEW p \in Replicas, LeaseLost(p) \/ Crash(p) PROVE Kept'
  <2>1. /\ Owed' = Owed /\ db' = db /\ reveals' = reveals
        /\ local'[p] = IdleTick /\ (lease' = lease \/ lease' = Orphan)
        /\ \A q \in Replicas \ {p} : local'[q] = local[q]
    BY <1>1, <1>5, OwedStays DEF LeaseLost, Crash
  <2>2. Keeps(p)'
    BY <2>1 DEF Keeps, Holder, Active, IdleTick
  <2>3. \A q \in Replicas \ {p} : Keeps(q)'
    BY <1>1, <2>1, OthersKeep, ReplicaIsNoRow
  <2> QED BY <1>7, <2>1, <2>2, <2>3 DEF Kept
<1>6. ASSUME NEW p \in Replicas, BeginTick(p) PROVE Kept'
  <2>1. Owed' = Owed /\ db' = db /\ reveals' = reveals /\ lease' = p
    BY <1>6, OwedStays DEF BeginTick
  <2>2. /\ local'[p].step = "refill" /\ db.records \subseteq local'[p].records
        /\ local'[p].journal = db.journal
        /\ \A q \in Replicas \ {p} : local'[q] = local[q]
    BY <1>1, <1>6 DEF BeginTick, IdleTick
  <2>3. Keeps(p)'
    BY <1>7, <2>1, <2>2 DEF Keeps, Kept
  <2>4. \A q \in Replicas \ {p} : Keeps(q)'
    BY <1>1, <2>1, <2>2, OthersKeep
  <2> QED BY <1>7, <2>1, <2>3, <2>4 DEF Kept
<1> QED BY <1>2, <1>3, <1>4, <1>5, <1>6, ChainOwesLess

\* The steps of a tick that save or send: the holder's copy and the table stay
\* above what is owed and broadcast, since a prune erases dead words only.
LEMMA KeptByHolder ==
    ASSUME TypeInv, ChainInv, Kept, NEW p \in Replicas, Tick(p), Holder(p),
           \A r : SpentOn(final, r) => SpentOn(final', r)
    PROVE  Kept'
<1>1. TickOK(local[p], Drawn) /\ local \in [Replicas -> TickState] /\ db \in Tables
  BY DEF TypeInv, TicksOK, TablesOK
<1>2. lease = p
  BY DEF Holder
<1>3. /\ Owed \subseteq local[p].records /\ Owed \subseteq db.records
      /\ Holds(local[p].journal, reveals, final') /\ Holds(db.journal, reveals, final') /\ Keeps(p)
  <2>1. Holds(local[p].journal, reveals, final) /\ Holds(db.journal, reveals, final)
    BY DEF Kept, Keeps
  <2> QED BY <2>1, StaysRetryable DEF Kept, Keeps
<1>4. \A q \in Replicas \ {p} : local'[q] = local[q] /\ lease' # q
  BY <1>2, TickLease, ReplicaIsNoRow
<1>5. \A q \in Replicas \ {p} : Keeps(q)'
  BY <1>4, OthersKeep
<1>6. SUFFICES Owed' \subseteq db'.records /\ Holds(db'.journal, reveals', final') /\ Keeps(p)'
  BY <1>5 DEF Kept
<1>7. CASE Refill(p)
  <2>1. Owed' = Owed /\ db' = db /\ reveals' = reveals
    BY <1>7, OwedStays DEF Refill
  <2>2. /\ local[p].records \subseteq local'[p].records /\ local'[p].journal = local[p].journal
        /\ local'[p].step \in {"stage", "journal"}
    BY <1>7, RefillTypes
  <2> QED BY <1>3, <2>1, <2>2 DEF Keeps
<1>16. CASE StageWords(p)
  <2>1. Owed' = Owed /\ reveals' = reveals
    BY <1>16, OwedStays DEF StageWords
  <2>2. local' = [local EXCEPT ![p].step = "commit"]
    BY <1>16 DEF StageWords
  <2>3. /\ db'.records = local[p].records /\ db'.journal = db.journal
        /\ local'[p].step = "commit" /\ local'[p].records = local[p].records
        /\ local'[p].batch = local[p].batch /\ local'[p].journal = local[p].journal
    BY <1>1, <1>16, <2>2 DEF StageWords, TickState, Tables
  <2>4. Range(local[p].batch) \subseteq local[p].records
    BY <1>1 DEF TickOK
  <2> QED BY <1>3, <2>1, <2>3, <2>4 DEF Keeps
<1>8. CASE SendBatch(p)
  <2>1. Owed' \subseteq Owed \cup Range(local[p].batch)
    BY <1>8 DEF SendBatch, Owed, Spent
  <2>2. Range(local[p].batch) \subseteq db.records /\ Range(local[p].batch) \subseteq local[p].records
    BY <1>1, <1>3, <1>8 DEF SendBatch, Keeps, TickOK
  <2>3. local'[p] = [local[p] EXCEPT !.step = "confirm"] /\ db' = db /\ reveals' = reveals
    BY <1>1, <1>8 DEF SendBatch
  <2>4. /\ local'[p].step = "confirm" /\ local'[p].records = local[p].records
        /\ local'[p].journal = local[p].journal
    BY <1>1, <2>3 DEF TickState
  <2> QED BY <1>3, <2>1, <2>2, <2>3, <2>4 DEF Keeps
<1>9. CASE BatchReverts(p) \/ BatchConfirmed(p)
  <2>1. Owed' = Owed /\ db' = db /\ reveals' = reveals
    BY <1>9, OwedStays DEF BatchReverts, BatchConfirmed
  <2>2. /\ local'[p].step = "journal" /\ local'[p].records = local[p].records
        /\ local'[p].journal = local[p].journal
    BY <1>1, <1>9 DEF BatchReverts, BatchConfirmed, TickState
  <2> QED BY <1>3, <2>1, <2>2 DEF Keeps
<1>10. CASE JournalRequests(p)
  <2> DEFINE staged == IF local[p].batch # <<>> THEN Reconciled(p) ELSE local[p].staged
             pending == PendingRequests(p)
             commitment(r) == IF r \in Unfulfilled(chain) THEN chain.requests[r].commitment
                              ELSE IF failures[p][r] # 0 THEN failures[p][r]
                              ELSE local[p].journal[r].commitment
             copy(w) == IF w \notin local[p].records THEN "missing"
                        ELSE IF w \in staged THEN "staged" ELSE "committed"
             journal == [r \in RequestIds |->
                           IF r \in pending
                           THEN [commitment |-> commitment(r), record |-> copy(commitment(r))]
                           ELSE local[p].journal[r]]
             t == [local[p] EXCEPT !.step = "checkpoint", !.staged = staged, !.batch = <<>>,
                                   !.journal = journal, !.todo = pending]
  <2>1. Owed' = Owed /\ db' = db /\ reveals' = reveals
    BY <1>10, OwedStays DEF JournalRequests
  <2>2. local' = [local EXCEPT ![p] = t]
    BY <1>10 DEF JournalRequests
  <2>3. \A w : copy(w) = "missing" => w \notin local[p].records
    OBVIOUS
  <2>4. 0 \notin local[p].records /\ 0 \notin Words
    BY <1>1 DEF TickOK, Drawn, Words
  <2>8. \A r \in RequestIds \ pending : local[p].journal[r].commitment = 0
    BY DEF PendingRequests, Journaled
  <2>9. \A r \in Journaled(local[p].journal) : commitment(r) # 0
    BY <2>4, RequestsAreTyped DEF Journaled, Unfulfilled, TypeInv, ChainsOK, Request1
  <2>10. \A r \in Journaled(local[p].journal) : r \in RequestIds /\ r \in pending
    BY DEF PendingRequests, Journaled
  <2> HIDE DEF staged, pending, commitment, copy
  <2>5. \A r \in RequestIds : journal[r].record = "missing" => journal[r].commitment \notin local[p].records
    BY <2>3, <2>4, <2>8
  <2>11. \A r \in Journaled(local[p].journal) : r \in Journaled(journal)
    BY <2>9, <2>10 DEF Journaled
  <2> HIDE DEF journal
  <2>6. t.step = "checkpoint" /\ t.records = local[p].records /\ t.journal = journal
    BY <1>1 DEF TickState
  <2> HIDE DEF t
  <2>7. local'[p] = t
    BY <1>1, <2>2
  <2>12. Holds(journal, reveals, final')
    BY <1>3, <2>11 DEF Holds
  <2> QED BY <1>3, <2>1, <2>5, <2>6, <2>7, <2>12 DEF Keeps
<1>17. CASE Checkpoint(p)
  <2>1. Owed' = Owed /\ reveals' = reveals
    BY <1>17, OwedStays DEF Checkpoint
  <2>2. local' = [local EXCEPT ![p].step = "reveal"] /\ local[p].step = "checkpoint"
    BY <1>17 DEF Checkpoint
  <2>3. /\ db'.records = db.records /\ db'.journal = local[p].journal
        /\ local'[p].step = "reveal" /\ local'[p].records = local[p].records
        /\ local'[p].journal = local[p].journal
    BY <1>1, <1>17, <2>2 DEF Checkpoint, TickState, Tables
  <2> QED BY <1>3, <2>1, <2>2, <2>3 DEF Keeps
<1>11. CASE RevealNext(p)
  <2> DEFINE r == Min(local[p].todo)
             w == local[p].journal[r].commitment
  <2>1. Owed' = Owed /\ db' = db
    BY <1>11, OwedStays DEF RevealNext
  <2>2. /\ local'[p].step = "reveal" /\ local[p].step = "reveal"
        /\ local'[p].records = local[p].records /\ local'[p].journal = local[p].journal
    BY <1>1, <1>11 DEF RevealNext, TickState
  <2>3. db.journal = local[p].journal
    BY <1>3, <2>2 DEF Keeps
  <2>4. r \in RequestIds
    BY <1>1, <1>11, LeastRequest DEF RevealNext, TickState
  <2>5. AcceptsReveal(chain, r, w) => r \in Journaled(local[p].journal)
    BY <2>4, RequestsAreTyped DEF AcceptsReveal, Unfulfilled, Journaled, TypeInv, ChainsOK, Request1, Words
  <2>6. reveals' \subseteq reveals \cup {<<r, w>>} /\ (reveals' # reveals => AcceptsReveal(chain, r, w))
    BY <1>11 DEF RevealNext
  <2> HIDE DEF r, w
  <2>7. ASSUME NEW reveal \in reveals'
        PROVE  reveal[1] \in Journaled(local[p].journal) \/ SpentOn(final', reveal[1])
    BY <1>3, <2>5, <2>6 DEF Holds
  <2>8. Holds(local[p].journal, reveals', final')
    BY <2>7 DEF Holds
  <2> QED BY <1>3, <2>1, <2>2, <2>3, <2>8 DEF Keeps
<1>12. CASE Prune(p)
  <2> DEFINE erased == {local[p].journal[r].commitment : r \in Retired(p)}
             journal == [r \in RequestIds |-> IF r \in Retired(p) THEN NoReveal ELSE local[p].journal[r]]
  <2>1. Owed' = Owed /\ db' = db /\ reveals' = reveals
    BY <1>12, OwedStays DEF Prune
  <2>2. /\ local'[p].step = "save" /\ local'[p].records = local[p].records \ erased
        /\ local'[p].journal = journal
    BY <1>1, <1>12 DEF Prune, TickState
  <2>3. ASSUME NEW r \in Retired(p) PROVE local[p].journal[r].commitment \notin Owed /\ Spent(r)
    <3>1. r \in RequestIds /\ Spent(r)
      BY DEF Retired, Journaled, Requested, Spent
    <3>2. CASE local[p].journal[r].record = "missing"
      BY <1>3, <1>12, <3>1, <3>2 DEF Prune, Keeps
    <3>3. CASE local[p].journal[r].record # "missing"
      BY <3>1, <3>3, SpentIsDead DEF Retired
    <3> QED BY <3>1, <3>2, <3>3
  <2>4. \A r \in Journaled(local[p].journal) : r \in Journaled(journal) \/ SpentOn(final', r)
    <3>1. \A r \in Retired(p) : SpentOn(final', r)
      BY <2>3 DEF Spent, SpentOn
    <3> QED BY <3>1 DEF Journaled
  <2>5. Holds(journal, reveals, final')
    BY <1>3, <2>4 DEF Holds
  <2> HIDE DEF journal
  <2> QED BY <1>3, <2>1, <2>2, <2>3, <2>5 DEF Keeps
<1>13. CASE Save(p)
  <2>1. Owed' = Owed /\ reveals' = reveals
    BY <1>13, OwedStays DEF Save
  <2>2. /\ db'.records = local[p].records /\ db'.journal = db.journal
        /\ local'[p].step = "saveReveals" /\ local'[p].records = local[p].records
        /\ local'[p].journal = local[p].journal
    BY <1>1, <1>13 DEF Save, TickState, Tables
  <2> QED BY <1>3, <2>1, <2>2 DEF Keeps
<1>14. CASE SaveReveals(p)
  <2>1. Owed' = Owed /\ reveals' = reveals
    BY <1>14, OwedStays DEF SaveReveals
  <2>2. db'.records = db.records /\ db'.journal = local[p].journal /\ local'[p] = IdleTick
    BY <1>1, <1>14 DEF SaveReveals, EndTick, Tables
  <2> QED BY <1>3, <2>1, <2>2 DEF Keeps, Holder, Active, IdleTick
<1>18. CASE BatchUnconfirmed(p) \/ TickFails(p)
  <2>1. Owed' = Owed /\ db' = db /\ reveals' = reveals
    BY <1>18, OwedStays DEF BatchUnconfirmed, TickFails
  <2>2. CASE BatchUnconfirmed(p)
    <3>1. /\ local'[p].step = "journal" /\ local'[p].records = local[p].records
          /\ local'[p].journal = local[p].journal
      BY <1>1, <2>2 DEF BatchUnconfirmed, TickState
    <3> QED BY <1>3, <2>1, <3>1 DEF Keeps
  <2>3. CASE TickFails(p)
    <3>1. local'[p] = IdleTick
      BY <1>1, <2>3 DEF TickFails, EndTick
    <3> QED BY <1>3, <2>1, <3>1 DEF Keeps, Holder, Active, IdleTick
  <2> QED BY <1>18, <2>2, <2>3
<1> QED BY <1>7, <1>8, <1>9, <1>10, <1>11, <1>12, <1>13, <1>14, <1>16, <1>17, <1>18 DEF Tick

\* A replica without the lease can only fail, which touches its own copies.
LEMMA KeptByOthers ==
    ASSUME TypeInv, Kept, NEW p \in Replicas, Tick(p), ~Holder(p),
           BatchUnconfirmed(p) \/ TickFails(p), \A r : SpentOn(final, r) => SpentOn(final', r)
    PROVE  Kept'
<1>1. local \in [Replicas -> TickState]
  BY DEF TypeInv, TicksOK
<1>2. Owed' = Owed /\ db' = db /\ reveals' = reveals
  BY OwedStays DEF BatchUnconfirmed, TickFails
<1>3. lease # p /\ lease' = lease
  BY DEF Holder, Active, BatchUnconfirmed, TickFails, EndTick
<1>4. \A q \in Replicas \ {p} : Keeps(q)'
  BY <1>2, <1>3, TickLease, OthersKeep
<1>5. local'[p].step \in {"journal", "idle"}
  <2>1. CASE BatchUnconfirmed(p)
    BY <1>1, <2>1 DEF BatchUnconfirmed, TickState
  <2>2. CASE TickFails(p)
    BY <1>1, <2>2 DEF TickFails, EndTick, IdleTick
  <2> QED BY <2>1, <2>2
<1>6. Keeps(p)'
  BY <1>3, <1>5 DEF Keeps, Holder
<1>7. Holds(db.journal, reveals, final')
  <2>1. Holds(db.journal, reveals, final)
    BY DEF Kept
  <2> QED BY <2>1, StaysRetryable
<1> QED BY <1>2, <1>4, <1>6, <1>7 DEF Kept

\* What is kept is kept at first.
LEMMA InitKept == Init => ChainInv /\ KeptInv
<1> SUFFICES ASSUME Init PROVE ChainInv /\ KeptInv
  OBVIOUS
<1>1. Range(<<>>) = {} /\ IsInjective(<<>>) /\ Len(<<>>) = 0
  BY DEF Range, IsInjective
<1>2. WellFormed(EmptyChain)
  BY <1>1 DEF WellFormed, EmptyChain
<1>3. ChainInv
  BY <1>2 DEF Init, ChainInv, Continues, EmptyChain
<1>5. Owed = {} /\ reveals = {}
  BY <1>1 DEF Init, Owed, EmptyChain
<1>6. KeptInv
  BY <1>5 DEF Init, KeptInv, Kept, Keeps, Holds, Holder, Active, IdleTick
<1> QED BY <1>3, <1>6

\* Every step keeps the invariant.
LEMMA InvStep == Inv /\ [Next]_vars => Inv'
<1> SUFFICES ASSUME Inv, [Next]_vars PROVE Inv'
  OBVIOUS
<1>1. TypeInv' /\ ChainInv'
  BY TypeStep, ChainStep DEF Inv
<1>2. SUFFICES ASSUME ~overwritten' PROVE Kept'
  BY <1>1 DEF Inv, KeptInv
<1>3. Kept /\ \A r : SpentOn(final, r) => SpentOn(final', r)
  BY <1>2, HistoryStep DEF Inv, KeptInv
<1>4. ASSUME NEW p \in Replicas, Tick(p) PROVE Kept'
  <2>1. CASE Holder(p)
    BY <1>3, <1>4, <2>1, KeptByHolder DEF Inv
  <2>2. CASE ~Holder(p)
    BY <1>2, <1>3, <1>4, <2>2, StepsAreTheHolders, KeptByOthers DEF Inv
  <2> QED BY <2>1, <2>2
<1>5. ASSUME NEW p \in Replicas, BeginTick(p) \/ RenewLease(p) \/ LeaseLost(p) \/ Crash(p) PROVE Kept'
  BY <1>3, <1>5, KeptOutsideTicks DEF Inv
<1>6. ASSUME \/ \E gated \in BOOLEAN : Request(gated)
             \/ \E r \in RequestIds : Seal(r)
             \/ Mine \/ Finalize \/ Reorganise \/ ExpireLease \/ UNCHANGED vars
      PROVE  Kept'
  BY <1>3, <1>6, KeptOutsideTicks DEF Inv
<1> QED BY <1>4, <1>5, <1>6 DEF Next

\* What the chain may still ask for is among what it is owed.
LEMMA KeptIsDurable == Inv => SecretsDurable /\ BroadcastsStayJournaled
<1> SUFFICES ASSUME Inv, ~overwritten PROVE AllOnDisk /\ BroadcastsStayJournaled
  BY DEF SecretsDurable, BroadcastsStayJournaled
<1>1. Needed \subseteq Owed
  BY DEF Needed, Owed, Requested, Spent, AcceptsBatch
<1>2. Kept
  BY DEF Inv, KeptInv
<1>3. AllOnDisk
  BY <1>1, <1>2 DEF Kept, AllOnDisk, Durable
<1>4. BroadcastsStayJournaled
  BY <1>2 DEF Kept, Holds, SpentOn, Requested, BroadcastsStayJournaled
<1> QED BY <1>3, <1>4

\* The invariant holds always.
LEMMA Invariant == Spec => []Inv
<1>1. Init => Inv
  BY InitTypes, InitKept DEF Inv
<1>2. Inv /\ [Next]_vars => Inv'
  BY InvStep
<1> QED BY <1>1, <1>2, PTL DEF Spec

\* No crash, stall, reorganisation, failed call or hand-over of the lease leaves
\* the chain with a commitment whose word is not on disk, until a replica saves
\* after its lease went to another.
THEOREM Durability == Spec => []SecretsDurable
BY Invariant, KeptIsDurable, PTL

\* A request whose word was broadcast stays in the journal until the finalized
\* block shows it fulfilled, whichever replica ticks and whatever is replaced.
THEOREM BroadcastsAreRetried == Spec => []BroadcastsStayJournaled
BY Invariant, KeptIsDurable, PTL

=============================================================================
