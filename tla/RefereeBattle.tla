--------------------------- MODULE RefereeBattle ---------------------------
(***************************************************************************)
(* Attacks on one body (a planet or a moon), fought by the referee.        *)
(* Anybody may resolve a due mission; one call does one stage of a battle. *)
(* The first stage takes the body's lock.  The stages then enrol the       *)
(* residents, the leader, its linked fleets and the stationed fleets, one  *)
(* unit or fleet a call; the battle asks the randomness engine for a gated *)
(* word before it enrols and seals its roster after.  The revealed word is *)
(* the seed; the resolver posts the result, whose leaves are applied row   *)
(* by row; the fleets return and the lock is released.  Meanwhile players  *)
(* launch, join, recall and land fleets and the owner may reset or void.   *)
(* Left out: loot, debris, repair and moon data; the pause; battles of     *)
(* older versions; other bodies, from which the fleets come unhindered.    *)
(***************************************************************************)
EXTENDS Naturals, FiniteSets, SequencesExt

CONSTANTS
    Lanes,                  \* kinds of resident units, the first one ships
    Garrison, FleetSize,    \* units of each kind, ships of each fleet
    Flight, HoldTime,       \* duration of an attack's flight, and of a hold
    RecallCutoff, JoinCutoff, \* how long before the impact these end
    LinkedScan,             \* linked fleets looked at in one call
    MaxTime,                \* bound: the last moment
    MaxMissions,            \* bound: missions launched
    MaxOwnerSteps           \* bound: results reset and battles voided

ASSUME BattleConstants ==
    /\ {Lanes, Garrison, FleetSize, Flight, HoldTime, LinkedScan} \subseteq Nat \ {0}
    /\ {RecallCutoff, JoinCutoff} \subseteq Nat \ {0}
    /\ {MaxTime, MaxMissions, MaxOwnerSteps} \subseteq Nat

VARIABLES
    now,        \* block time
    missions,   \* all missions, by id in the order of their launch
    residents,  \* units of each lane on the body
    stationed,  \* ids of the fleets holding at the body (or on their way)
    linked,     \* ids of the fleets that joined, or defend against, each attack
    bodyLock,   \* id of the battle that holds the body, or 0
    battle,     \* battle of each attack
    ownerSteps

vars == <<now, missions, residents, stationed, linked, bodyLock, battle, ownerSteps>>
fleets == <<missions, residents, stationed, linked>>

AcsKinds == {"AcsAttack", "AcsDefend"}   \* AcsDefend stands for Intercept too
Kinds == {"Attack", "DefenseHold", "Transport"} \cup AcsKinds
Ids == 1 .. MaxMissions

NoResult == [lost |-> {}, good |-> 0]

\* job: the referee's phase.  begun: the header is written.  request: that
\* of the engine.  application, next, result: of the posted result.
NoBattle ==
    [phase |-> 0, cursor |-> 0, linkedLength |-> 0, stationedLength |-> 0,
     enrolled |-> <<>>, blocked |-> FALSE, rows |-> <<>>, job |-> "Preparing",
     request |-> "None", application |-> "Unaccepted", next |-> 0, result |-> NoResult]

Mission == [kind : Kinds, status : {"Outbound", "Returning", "Recalled", "Returned", "Resolved"},
            ships : Nat, departureAt : Nat, arrivalAt : Nat, holdUntil : Nat,
            returnAt : Nat, leader : Nat]
Row == [source : Nat, lane : 1 .. Lanes, side : {0, 1}, count : Nat \ {0}]

TypeOK ==
    /\ now \in Nat /\ ownerSteps \in 0 .. MaxOwnerSteps
    /\ missions \in Seq(Mission) /\ Len(missions) <= MaxMissions
    /\ residents \in [1 .. Lanes -> Nat]
    /\ stationed \in Seq(DOMAIN missions) /\ linked \in [Ids -> Seq(DOMAIN missions)]
    /\ bodyLock \in {0} \cup DOMAIN missions
    /\ DOMAIN battle = Ids
    /\ \A id \in Ids : LET b == battle[id] IN
        /\ DOMAIN b = DOMAIN NoBattle
        /\ b.phase \in {0, 1, 2, 3, 4, 5, 11, 12, 13, 14, 15, 16, 17}
        /\ {b.cursor, b.linkedLength, b.stationedLength, b.next} \subseteq Nat
        /\ b.enrolled \in Seq(DOMAIN missions) /\ b.rows \in Seq(Row) /\ b.blocked \in BOOLEAN
        /\ b.job \in {"Preparing", "AwaitingRandomness", "AwaitingResult", "Bypassed"}
        /\ b.request \in {"None", "Requested", "Sealed", "Revealed", "Consumed"}
        /\ b.application \in {"Unaccepted", "Applying", "Economics"}
        /\ b.result.lost \subseteq DOMAIN b.rows /\ b.result.good \in 0 .. Len(b.rows)

-----------------------------------------------------------------------------
(* Missions, and the order of the events at the body *)

Outbound(id) == missions[id].status = "Outbound"
Of(kinds) == {id \in DOMAIN missions : missions[id].kind \in kinds}
Attacks == Of({"Attack"})
Holds == Of({"DefenseHold"})
Active(id) == missions[id].status \in {"Outbound", "Returning", "Recalled"}

\* The attack has nothing to wait for but its own resolution.
Pending(id) == Outbound(id) /\ now >= missions[id].arrivalAt
NoPendingResolution == bodyLock = 0 /\ \A id \in Attacks : ~Pending(id)

Arrival(id) == <<missions[id].arrivalAt, 0, id>>
Homecoming(id) == <<missions[id].returnAt, 1, id>>
HoldEnd(id) == <<missions[id].holdUntil, 2, id>>

\* Linked fleets are part of their leader's event.
Events ==
    {Arrival(id) : id \in {a \in Attacks : Outbound(a)}}
    \cup {Homecoming(id) : id \in {t \in Of({"Transport"}) : Active(t)}}
    \cup {HoldEnd(id) : id \in {h \in Holds : Outbound(h)}}

Before(e, f) ==
    \/ e[1] < f[1]
    \/ e[1] = f[1] /\ e[2] < f[2]
    \/ e[1] = f[1] /\ e[2] = f[2] /\ e[3] < f[3]

\* Mutant of InTurn: the fleets that come home are not waited for.
InTurn_SkipsHomecomings(event) ==
    now >= event[1] /\ \A e \in Events : e[2] = 1 \/ ~Before(e, event)

\* Due, and nothing at the body comes before it.
InTurn(event) == now >= event[1] /\ \A e \in Events : ~Before(e, event)

MayResolve(id) == Outbound(id) /\ bodyLock \in {0, id}

\* endHold: the last fleet of the list takes the place of the removed one.
SwapAndPop(s, x) ==
    IF Contains(s, x)
    THEN Front([s EXCEPT ![SelectInSeq(s, LAMBDA y : y = x)] = Last(s)])
    ELSE s

-----------------------------------------------------------------------------
Init ==
    /\ now = 0 /\ bodyLock = 0 /\ ownerSteps = 0
    /\ missions = <<>> /\ stationed = <<>> /\ linked = [id \in Ids |-> <<>>]
    /\ residents = [l \in 1 .. Lanes |-> Garrison]
    /\ battle = [id \in Ids |-> NoBattle]

Tick == now < MaxTime /\ now' = now + 1 /\ UNCHANGED <<fleets, bodyLock, battle, ownerSteps>>

-----------------------------------------------------------------------------
(* What players do *)

MayLaunch == Len(missions) < MaxMissions /\ NoPendingResolution

Fleet(kind, arrivalAt, holdUntil, returnAt, leader) ==
    [kind |-> kind, status |-> "Outbound", ships |-> FleetSize, departureAt |-> now,
     arrivalAt |-> arrivalAt, holdUntil |-> holdUntil, returnAt |-> returnAt, leader |-> leader]

LaunchAttack ==
    /\ MayLaunch /\ now + Flight <= MaxTime
    /\ missions' = Append(missions, Fleet("Attack", now + Flight, 0, now + 2 * Flight, 0))
    /\ UNCHANGED <<now, residents, stationed, linked, bodyLock, battle, ownerSteps>>

\* A fleet arrives together with the attack it joins, or fights.
Join(kind, attack) ==
    /\ MayLaunch
    /\ Outbound(attack) /\ now < missions[attack].arrivalAt
    /\ kind = "AcsAttack" => now < missions[attack].arrivalAt - JoinCutoff
    /\ missions' = Append(missions,
            Fleet(kind, missions[attack].arrivalAt, 0, missions[attack].arrivalAt + 1, attack))
    /\ linked' = [linked EXCEPT ![attack] = Append(@, Len(missions'))]
    /\ UNCHANGED <<now, residents, stationed, bodyLock, battle, ownerSteps>>

LaunchDefenseHold ==
    LET until == now + 1 + HoldTime IN
    /\ MayLaunch /\ until <= MaxTime
    /\ missions' = Append(missions, Fleet("DefenseHold", now + 1, until, until + 1, 0))
    /\ stationed' = Append(stationed, Len(missions'))
    /\ UNCHANGED <<now, residents, linked, bodyLock, battle, ownerSteps>>

\* Residents leave for another body and will come back.
LaunchTransport ==
    /\ MayLaunch /\ now + 2 <= MaxTime
    /\ residents[1] >= FleetSize
    /\ missions' = Append(missions, Fleet("Transport", now + 1, 0, now + 2, 0))
    /\ residents' = [residents EXCEPT ![1] = @ - FleetSize]
    /\ UNCHANGED <<now, stationed, linked, bodyLock, battle, ownerSteps>>

RecallBack(id, time) == missions' = [missions EXCEPT ![id].status = "Recalled", ![id].returnAt = time]

RecallReturnTime(id) == now + (IF now > missions[id].departureAt THEN now - missions[id].departureAt ELSE 1)

RecallFleetMission(id) ==
    /\ id \notin Holds
    /\ Outbound(id) /\ NoPendingResolution
    /\ now + RecallCutoff <= missions[id].arrivalAt
    /\ RecallBack(id, RecallReturnTime(id))
    /\ UNCHANGED <<now, residents, stationed, linked, bodyLock, battle, ownerSteps>>

\* Mutant of RecallDefenseHold: the guard on the target is left out.
RecallDefenseHold_AnyTime(id) ==
    /\ id \in Holds
    /\ Outbound(id) /\ now < missions[id].holdUntil
    /\ RecallBack(id, now + 1)
    /\ stationed' = SwapAndPop(stationed, id)
    /\ UNCHANGED <<now, residents, linked, bodyLock, battle, ownerSteps>>

\* A hold may be recalled until it ends, also when it is stationed.
RecallDefenseHold(id) ==
    /\ id \in Holds
    /\ Outbound(id) /\ NoPendingResolution
    /\ now < missions[id].holdUntil
    /\ RecallBack(id, IF now < missions[id].arrivalAt THEN RecallReturnTime(id)
                      ELSE now + missions[id].returnAt - missions[id].holdUntil)
    /\ stationed' = SwapAndPop(stationed, id)
    /\ UNCHANGED <<now, residents, linked, bodyLock, battle, ownerSteps>>

-----------------------------------------------------------------------------
(* Resolution of what is not a battle *)

\* At the other end of its way, where nothing disturbs it.
TransportArrives(id) ==
    /\ id \in Of({"Transport"})
    /\ Outbound(id) /\ now >= missions[id].arrivalAt
    /\ missions' = [missions EXCEPT ![id].status = "Returning"]
    /\ UNCHANGED <<now, residents, stationed, linked, bodyLock, battle, ownerSteps>>

CompleteFleetMissionReturn(id) ==
    /\ id \in Of({"Transport"})
    /\ missions[id].status \in {"Returning", "Recalled"}
    /\ InTurn(Homecoming(id))
    /\ missions' = [missions EXCEPT ![id].status = "Returned"]
    /\ residents' = [residents EXCEPT ![1] = @ + missions[id].ships]
    /\ UNCHANGED <<now, stationed, linked, bodyLock, battle, ownerSteps>>

ResolveDefenseHold(id) ==
    /\ id \in Holds
    /\ MayResolve(id) /\ InTurn(HoldEnd(id))
    /\ missions' = [missions EXCEPT ![id].status = "Returning"]
    /\ stationed' = SwapAndPop(stationed, id)
    /\ UNCHANGED <<now, residents, linked, bodyLock, battle, ownerSteps>>

\* The leader was recalled, or its battle ended without this fleet.
ResolveLinked(id) ==
    /\ id \in Of(AcsKinds)
    /\ MayResolve(id) /\ ~Outbound(missions[id].leader)
    /\ InTurn(Arrival(id))
    /\ missions' = [missions EXCEPT ![id].status = "Returning"]
    /\ UNCHANGED <<now, residents, stationed, linked, bodyLock, battle, ownerSteps>>

-----------------------------------------------------------------------------
(* The stages of a battle: each is one call of resolveFleetMission *)

RefereeStage(id) == battle[id].job # "Bypassed" /\ battle[id].application # "Economics"
Stage(id, phase) == id \in Attacks /\ MayResolve(id) /\ battle[id].phase = phase
Advance(id, b) == battle' = [battle EXCEPT ![id] = b]

JoinedAttack(id, m) ==
    /\ missions[m].kind = "AcsAttack" /\ missions[m].leader = id
    /\ Outbound(m) /\ missions[m].arrivalAt <= missions[id].arrivalAt

QualifiedDefender(id, m) ==
    /\ Outbound(m) /\ missions[m].arrivalAt <= missions[id].arrivalAt
    /\ \/ missions[m].kind = "AcsDefend" /\ missions[m].leader = id
       \/ missions[m].kind = "DefenseHold" /\ missions[m].holdUntil >= missions[id].arrivalAt

\* Mutant of EnrollUnit: a lane without units gets a row.
EnrollUnit_Empty(b, source, lane, side, count) ==
    [b EXCEPT !.rows = Append(@, [source |-> source, lane |-> lane, side |-> side, count |-> count])]

EnrollUnit(b, source, lane, side, count) ==
    IF count = 0 THEN b
    ELSE [b EXCEPT !.rows = Append(@, [source |-> source, lane |-> lane, side |-> side, count |-> count])]

\* A bypassed battle lists its fleets, to send them home, and has no rows.
EnrollMission(b, m) ==
    LET listed == [b EXCEPT !.enrolled = Append(@, m)]
        side == IF missions[m].kind \in {"Attack", "AcsAttack"} THEN 0 ELSE 1
    IN  IF Contains(b.enrolled, m) THEN b
        ELSE IF b.job = "Bypassed" THEN listed
        ELSE EnrollUnit(listed, m, 1, side, missions[m].ships)

\* Chronology, then the lock and the lengths of the lists to be scanned.
TakeBody(id) ==
    /\ Stage(id, 0) /\ InTurn(Arrival(id))
    /\ bodyLock' = id
    /\ Advance(id, [battle[id] EXCEPT !.phase = 14, !.linkedLength = Len(linked[id]),
                                      !.stationedLength = Len(stationed)])
    /\ UNCHANGED <<now, fleets, ownerSteps>>

\* Allies, a target that is gone or a protected score: there is no fight.
Protect(id, blocked) ==
    /\ Stage(id, 14)
    /\ Advance(id, [battle[id] EXCEPT !.phase = 15, !.blocked = blocked,
                                      !.job = IF blocked THEN "Bypassed" ELSE @])
    /\ UNCHANGED <<now, fleets, bodyLock, ownerSteps>>

SettleProduction(id) ==
    /\ Stage(id, 15)
    /\ Advance(id, [battle[id] EXCEPT !.phase = IF RefereeStage(id) THEN 1 ELSE 3])
    /\ UNCHANGED <<now, fleets, bodyLock, ownerSteps>>

\* Mutant of BeginBattle: the header is sealed at once.
BeginBattle_Sealed(id) ==
    /\ Stage(id, 1) /\ RefereeStage(id)
    /\ Advance(id, [battle[id] EXCEPT !.phase = 2, !.request = "Sealed"])
    /\ UNCHANGED <<now, fleets, bodyLock, ownerSteps>>

\* Until the engine has a ready commitment the call reverts: this step waits.
BeginBattle(id) ==
    /\ Stage(id, 1) /\ RefereeStage(id)
    /\ Advance(id, [battle[id] EXCEPT !.phase = 2, !.request = "Requested"])
    /\ UNCHANGED <<now, fleets, bodyLock, ownerSteps>>

EnrollResidents(id) ==
    LET b == battle[id]
        unit == b.cursor + 1
        last == unit = Lanes
    IN  /\ Stage(id, 2)
        /\ Advance(id, [EnrollUnit(b, 0, unit, 1, residents[unit]) EXCEPT
                            !.cursor = IF last THEN 0 ELSE unit, !.phase = IF last THEN 3 ELSE 2])
        /\ UNCHANGED <<now, fleets, bodyLock, ownerSteps>>

EnrollLeader(id) ==
    /\ Stage(id, 3)
    /\ Advance(id, [EnrollMission(battle[id], id) EXCEPT !.phase = 4])
    /\ UNCHANGED <<now, fleets, bodyLock, ownerSteps>>

\* At most one enrolment a call, and LinkedScan fleets looked at.
EnrollLinked(id) ==
    LET b == battle[id]
        fits(i) == LET m == linked[id][i] IN
                    ~Contains(b.enrolled, m) /\ (JoinedAttack(id, m) \/ QualifiedDefender(id, m))
        end == Min({b.cursor + LinkedScan, b.linkedLength})
        found == {i \in b.cursor + 1 .. end : fits(i)}
        stop == IF found = {} THEN end ELSE Min(found)
        grown == IF found = {} THEN b ELSE EnrollMission(b, linked[id][stop])
        last == stop = b.linkedLength
    IN  /\ Stage(id, 4)
        /\ Advance(id, [grown EXCEPT !.cursor = IF last THEN 0 ELSE stop, !.phase = IF last THEN 5 ELSE 4])
        /\ UNCHANGED <<now, fleets, bodyLock, ownerSteps>>

EnrollStationed(id) ==
    LET b == battle[id]
        held == stationed[b.cursor + 1]
        grown == IF QualifiedDefender(id, held) THEN EnrollMission(b, held) ELSE b
    IN  /\ Stage(id, 5) /\ b.cursor < b.stationedLength
        /\ b.cursor < Len(stationed)            \* beyond its end the call reverts
        /\ Advance(id, [grown EXCEPT !.cursor = @ + 1])
        /\ UNCHANGED <<now, fleets, bodyLock, ownerSteps>>

SealRoster(id) ==
    LET b == [battle[id] EXCEPT !.cursor = 0] IN
    /\ Stage(id, 5) /\ battle[id].cursor >= battle[id].stationedLength
    /\ Advance(id, IF RefereeStage(id)
                   THEN [b EXCEPT !.phase = 16, !.job = "AwaitingRandomness", !.request = "Sealed"]
                   ELSE [b EXCEPT !.phase = 11])
    /\ UNCHANGED <<now, fleets, bodyLock, ownerSteps>>

AwaitResult(id) ==
    /\ Stage(id, 16) /\ RefereeStage(id)
    /\ battle[id].job = "AwaitingRandomness" /\ battle[id].request = "Revealed"
    /\ Advance(id, [battle[id] EXCEPT !.phase = 17, !.job = "AwaitingResult", !.request = "Consumed"])
    /\ UNCHANGED <<now, fleets, bodyLock, ownerSteps>>

\* The raid divides the loot and moves no fleet.
Raid(id) ==
    /\ Stage(id, 11) /\ ~RefereeStage(id)
    /\ Advance(id, [battle[id] EXCEPT !.phase = 12, !.cursor = 0])
    /\ UNCHANGED <<now, fleets, bodyLock, ownerSteps>>

\* A hold with ships left stays; one without leaves the stationed list.  The
\* time of the return is of no event at this body.
ReturnFleet(m) ==
    LET alive == missions[m].ships > 0
        hold == m \in Holds
    IN  /\ missions' = IF Outbound(m) /\ ~(hold /\ alive)
                       THEN [missions EXCEPT ![m].status = IF alive THEN "Returning" ELSE "Resolved"]
                       ELSE missions
        /\ stationed' = IF Outbound(m) /\ hold /\ ~alive THEN SwapAndPop(stationed, m) ELSE stationed
        /\ UNCHANGED <<residents, linked>>

ReturnMember(id) ==
    LET b == battle[id] IN
    /\ Stage(id, 12) /\ ~RefereeStage(id)
    /\ b.cursor < Len(b.enrolled)
    /\ IF b.enrolled[b.cursor + 1] = id THEN UNCHANGED fleets ELSE ReturnFleet(b.enrolled[b.cursor + 1])
    /\ Advance(id, [b EXCEPT !.cursor = @ + 1])
    /\ UNCHANGED <<now, bodyLock, ownerSteps>>

\* Nothing reads the lists of a finished battle: the model forgets them.
FinishBattle(id) ==
    /\ Stage(id, 12) /\ ~RefereeStage(id)
    /\ battle[id].cursor = Len(battle[id].enrolled)
    /\ ReturnFleet(id)
    /\ Advance(id, [NoBattle EXCEPT !.phase = 13, !.job = battle[id].job, !.request = battle[id].request,
                                    !.application = battle[id].application])
    /\ bodyLock' = 0
    /\ UNCHANGED <<now, ownerSteps>>

ResolveAttack(id) ==
    \/ TakeBody(id) \/ \E blocked \in BOOLEAN : Protect(id, blocked)
    \/ SettleProduction(id) \/ BeginBattle(id)
    \/ EnrollResidents(id) \/ EnrollLeader(id) \/ EnrollLinked(id) \/ EnrollStationed(id)
    \/ SealRoster(id) \/ AwaitResult(id)
    \/ Raid(id) \/ ReturnMember(id) \/ FinishBattle(id)

-----------------------------------------------------------------------------
(* The randomness engine, as far as a battle sees it *)

\* Of a gated request only after its seal.
RevealWord(id) ==
    /\ battle[id].request = "Sealed"
    /\ Advance(id, [battle[id] EXCEPT !.request = "Revealed"])
    /\ UNCHANGED <<now, fleets, bodyLock, ownerSteps>>

-----------------------------------------------------------------------------
(* The result.  A row loses all of its units or none: lost is the set of   *)
(* rows that lose, and good the number of leading leaves that apply, each  *)
(* matching its row and the chain.  A chain that does not end in its tail, *)
(* or totals that do not sum up, fail with the last leaf.                  *)

\* Losses enumerated: nobody, one row, or one whole side.
LossesOf(rows) ==
    {{}} \cup {{i} : i \in DOMAIN rows} \cup {{i \in DOMAIN rows : rows[i].side = s} : s \in {0, 1}}

SubmitBattleResult(id, result) ==
    LET b == battle[id] IN
    /\ b.phase = 17 /\ b.application = "Unaccepted" /\ b.job = "AwaitingResult"
    /\ Advance(id, [b EXCEPT !.application = "Applying", !.result = result])
    /\ UNCHANGED <<now, fleets, bodyLock, ownerSteps>>

HonestResult(id, lost) == SubmitBattleResult(id, [lost |-> lost, good |-> Len(battle[id].rows)])
\* A wrong result destroys everything, and fails with its first or last leaf.
WrongResult(id, good) ==
    SubmitBattleResult(id, [lost |-> DOMAIN battle[id].rows, good |-> good])

LessUnits(units, lost) == IF units > lost THEN units - lost ELSE 0

\* Mutant of ApplyLeaf: the tail and the totals are not compared at the end.
ApplyLeaf_NoTail(id) ==
    LET b == battle[id]
        k == b.next + 1
        row == b.rows[k]
        lost == IF k \in b.result.lost THEN row.count ELSE 0
        last == k = Len(b.rows)
    IN  /\ b.phase = 17 /\ b.application = "Applying"
        /\ k <= b.result.good \/ last
        /\ missions' = IF row.source = 0 THEN missions
                       ELSE [missions EXCEPT ![row.source].ships = LessUnits(@, lost)]
        /\ residents' = IF row.source # 0 THEN residents
                        ELSE [residents EXCEPT ![row.lane] = LessUnits(@, lost)]
        /\ Advance(id, [b EXCEPT !.next = k, !.cursor = 0,
                            !.application = IF last THEN "Economics" ELSE @,
                            !.phase = IF last THEN 11 ELSE @])
        /\ UNCHANGED <<now, stationed, linked, bodyLock, ownerSteps>>

\* One leaf; a call applies up to 32, or none if one of them fails.
ApplyLeaf(id) ==
    LET b == battle[id]
        k == b.next + 1
        row == b.rows[k]
        lost == IF k \in b.result.lost THEN row.count ELSE 0
        last == k = Len(b.rows)
    IN  /\ b.phase = 17 /\ b.application = "Applying"
        /\ k <= b.result.good
        /\ missions' = IF row.source = 0 THEN missions
                       ELSE [missions EXCEPT ![row.source].ships = LessUnits(@, lost)]
        /\ residents' = IF row.source # 0 THEN residents
                        ELSE [residents EXCEPT ![row.lane] = LessUnits(@, lost)]
        /\ Advance(id, [b EXCEPT !.next = k,
                            !.application = IF last THEN "Economics" ELSE @,
                            !.phase = IF last THEN 11 ELSE @,
                            !.cursor = IF last THEN 0 ELSE @])
        /\ UNCHANGED <<now, stationed, linked, bodyLock, ownerSteps>>

OwnerStep == ownerSteps < MaxOwnerSteps /\ ownerSteps' = ownerSteps + 1

\* Mutant of ResetBattleResult: also a result of which leaves were applied.
ResetBattleResult_Late(id) ==
    /\ OwnerStep
    /\ battle[id].application = "Applying"
    /\ Advance(id, [battle[id] EXCEPT !.application = "Unaccepted", !.result = NoResult, !.next = 0])
    /\ UNCHANGED <<now, fleets, bodyLock>>

ResetBattleResult(id) ==
    /\ OwnerStep
    /\ battle[id].application = "Applying" /\ battle[id].next = 0
    /\ Advance(id, [battle[id] EXCEPT !.application = "Unaccepted", !.result = NoResult])
    /\ UNCHANGED <<now, fleets, bodyLock>>

\* Mutant of VoidRefereeBattle: the job is not marked as bypassed.
VoidRefereeBattle_KeepsJob(id) ==
    /\ OwnerStep
    /\ battle[id].phase \in {16, 17} /\ battle[id].next = 0
    /\ Advance(id, [battle[id] EXCEPT !.application = "Unaccepted", !.result = NoResult,
                                      !.blocked = TRUE, !.phase = 11])
    /\ UNCHANGED <<now, fleets, bodyLock>>

VoidRefereeBattle(id) ==
    /\ OwnerStep
    /\ battle[id].phase \in {16, 17} /\ battle[id].next = 0
    /\ Advance(id, [battle[id] EXCEPT !.application = "Unaccepted", !.result = NoResult,
                                      !.job = "Bypassed", !.blocked = TRUE, !.phase = 11])
    /\ UNCHANGED <<now, fleets, bodyLock>>

-----------------------------------------------------------------------------
Players ==
    \/ \E a \in Attacks, kind \in AcsKinds : Join(kind, a)
    \/ LaunchAttack \/ LaunchDefenseHold \/ LaunchTransport
    \/ \E id \in DOMAIN missions : RecallFleetMission(id) \/ RecallDefenseHold(id)

Resolve(id) ==
    \/ TransportArrives(id) \/ CompleteFleetMissionReturn(id)
    \/ ResolveDefenseHold(id) \/ ResolveLinked(id) \/ ResolveAttack(id)

Referee(id) ==
    \/ \E lost \in LossesOf(battle[id].rows) : HonestResult(id, lost)
    \/ \E good \in {0, Len(battle[id].rows) - 1} : WrongResult(id, good)

Next ==
    \/ Tick \/ Players
    \/ \E id \in DOMAIN missions :
        Resolve(id) \/ RevealWord(id) \/ Referee(id) \/ ApplyLeaf(id)
            \/ ResetBattleResult(id) \/ VoidRefereeBattle(id)

\* Time passes.  The mission resolver, or anybody, resolves something as long
\* as something can be resolved.  The fulfiller reveals what is sealed, and
\* the referee posts and applies results.
Service(id) ==
    \/ RevealWord(id) \/ ApplyLeaf(id)
    \/ \E lost \in LossesOf(battle[id].rows) : HonestResult(id, lost)

Fairness ==
    /\ WF_vars(Tick)
    /\ WF_vars(\E id \in DOMAIN missions : Resolve(id))
    /\ WF_vars(\E id \in DOMAIN missions : Service(id))

Spec == Init /\ [][Next]_vars /\ Fairness

-----------------------------------------------------------------------------
(* Properties *)

Battling(id) == battle[id].phase \notin {0, 13}
Units(source, lane) == IF source = 0 THEN residents[lane] ELSE missions[source].ships

\* The roster that was sealed is the body's whole force and nothing else: the
\* leader, every fleet that joined, every defender and hold that is there at
\* the impact, each once, and, until losses apply, a row for each kind of
\* their units and of the residents', with its true count.  None of them has
\* left since, although their owners would like to.
RosterIsComplete ==
    \A id \in DOMAIN missions : LET b == battle[id] IN
        b.phase \in {16, 17} =>
            /\ IsInjective(b.enrolled)
            /\ ToSet(b.enrolled) = {id} \cup {m \in DOMAIN missions :
                                        JoinedAttack(id, m) \/ QualifiedDefender(id, m)}
            /\ b.next = 0 =>
                /\ IsInjective(b.rows)
                /\ {<<r.source, r.lane, r.count>> : r \in ToSet(b.rows)} =
                    {<<s, l, Units(s, l)>> : s \in {0}, l \in {k \in 1 .. Lanes : residents[k] > 0}}
                    \cup {<<m, 1, Units(m, 1)>> : m \in {k \in ToSet(b.enrolled) : missions[k].ships > 0}}

\* From the seal to the return, the units that are really there are those of
\* the row, less its loss once its leaf is applied: no leaf is applied twice,
\* skipped or undone, and nobody adds or takes units meanwhile, so that the
\* floor at zero never hides a difference.
LossesFollowRows ==
    \A id \in DOMAIN missions : LET b == battle[id] IN
        b.phase \in {16, 17, 11, 12} =>
            \A i \in DOMAIN b.rows :
                Units(b.rows[i].source, b.rows[i].lane) =
                    IF i <= b.next /\ i \in b.result.lost THEN 0 ELSE b.rows[i].count

\* A battle goes on to its economics with a whole result or with none: all
\* leaves of one result, or no leaf if it was protected or voided.
AllOrNothing ==
    \A id \in DOMAIN missions : LET b == battle[id] IN
        b.phase \in {11, 12} =>
            IF b.blocked THEN b.next = 0 /\ b.application = "Unaccepted"
            ELSE b.next = Len(b.rows) /\ b.result.good = Len(b.rows) /\ b.job = "AwaitingResult"

\* Once the seal allows the word to be revealed, the roster is what it is.
RosterFixedOnceSealed ==
    [][\A id \in DOMAIN missions :
        (battle[id].request \in {"Sealed", "Revealed", "Consumed"} /\ battle'[id].phase # 13)
            => /\ battle'[id].rows = battle[id].rows
               /\ battle'[id].enrolled = battle[id].enrolled]_vars

\* The battle of an impact starts only when all that should have happened at
\* the body before is done, and nothing is ever added to that past: not by a
\* recall, a late launch or a fleet coming home.
ImpactsInOrder ==
    \A id \in Attacks : Battling(id) => \A e \in Events : ~Before(e, Arrival(id))

\* A result that cannot be applied; before its first leaf the owner may help.
Stuck(id) == battle[id].application = "Applying" /\ battle[id].result.good < Len(battle[id].rows)

\* Due attacks are over in the end, also those that wait for another battle
\* at the body, unless the referee posted a wrong result.
BattlesEnd ==
    []<>((\A id \in Attacks : ~Pending(id)) \/ \E id \in Ids : Stuck(id))
=============================================================================
