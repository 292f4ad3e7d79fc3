------------------------ MODULE RefereeBattleProofs ------------------------
(***************************************************************************)
(* The sealed roster of a battle is complete and stays as it is, losses    *)
(* follow its rows, a result is applied whole or not at all, and impacts   *)
(* keep their order: for any number of lanes, fleets, battles and steps.   *)
(* The invariant says what holds at each phase of the one battle that has  *)
(* the body; no other battle is on.                                        *)
(***************************************************************************)
EXTENDS RefereeBattle, SequenceTheorems, WellFoundedInduction, TLAPS

Phases == {0, 1, 2, 3, 4, 5, 11, 12, 13, 14, 15, 16, 17}
Early == {14, 15, 1, 2, 3}          \* no fleet is enrolled yet
Gathering == Early \cup {4, 5}
Sealed == {16, 17}
Economic == {11, 12}

Battle ==
    [phase : Phases, cursor : Nat, linkedLength : Nat, stationedLength : Nat,
     enrolled : Seq(Nat), blocked : BOOLEAN, rows : Seq(Row),
     job : {"Preparing", "AwaitingRandomness", "AwaitingResult", "Bypassed"},
     request : {"None", "Requested", "Sealed", "Revealed", "Consumed"},
     application : {"Unaccepted", "Applying", "Economics"},
     next : Nat, result : [lost : SUBSET Nat, good : Nat]]

FleetTypes ==
    /\ now \in Nat
    /\ missions \in Seq(Mission) /\ Len(missions) <= MaxMissions
    /\ residents \in [1 .. Lanes -> Nat]
    /\ stationed \in Seq(Nat) /\ linked \in [Ids -> Seq(Nat)]

LockTypes == bodyLock \in {0} \cup Ids /\ battle \in [Ids -> Battle]

\* The lists hold the fleets they are meant for.
ListsOK ==
    /\ IsInjective(stationed)
    /\ ToSet(stationed) = {m \in Holds : Outbound(m)}
    /\ \A m \in Holds : Outbound(m) => missions[m].holdUntil <= missions[m].returnAt
    /\ \A a \in Ids : ToSet(linked[a]) = {m \in Of(AcsKinds) : missions[m].leader = a}

\* Who has not fought yet has its ships.
Armed == \A a \in Attacks : battle[a].phase \in {0} \cup Early => missions[a].ships > 0

NoneApplied(b) == b.next = 0 /\ b.application = "Unaccepted" /\ b.result = NoResult

\* A battle that has not begun, or is over.
Resting(b) ==
    /\ b.phase \in {0, 13}
    /\ b.phase = 0 => b = NoBattle
    /\ b.rows = <<>> /\ b.enrolled = <<>> /\ b.next = 0 /\ b.result = NoResult
    /\ b.application # "Applying"

\* Only the battle that holds the body is on, and nothing comes before it.
LockOK ==
    /\ \A id \in Ids : id # bodyLock => Resting(battle[id])
    /\ bodyLock # 0 =>
          /\ bodyLock \in Attacks /\ Outbound(bodyLock)
          /\ \A e \in Events : ~Before(e, Arrival(bodyLock))

-----------------------------------------------------------------------------
(* The battle that is on *)

ResultWithin(b) ==
    /\ b.next <= b.result.good /\ b.result.good <= Len(b.rows)
    /\ b.result.lost \subseteq 1 .. Len(b.rows)

\* Job, request, application and result at each phase.
Progress(b) ==
    /\ b.phase \in Gathering \cup Sealed \cup Economic
    /\ b.phase \in Gathering =>
          /\ NoneApplied(b)
          /\ b.job = IF b.blocked THEN "Bypassed" ELSE "Preparing"
          /\ b.request \in {"None", "Requested"}
    /\ b.phase \in {14, 1, 2} => ~b.blocked
    /\ b.phase \in Sealed => ~b.blocked
    /\ b.phase = 16 => NoneApplied(b) /\ b.job = "AwaitingRandomness"
    /\ b.phase = 17 =>
          /\ b.job = "AwaitingResult"
          /\ \/ NoneApplied(b)
             \/ b.application = "Applying" /\ b.next < Len(b.rows) /\ ResultWithin(b)
    /\ b.phase \in Economic =>
          \/ b.blocked /\ b.job = "Bypassed" /\ NoneApplied(b)
          \/ /\ ~b.blocked /\ b.job = "AwaitingResult" /\ b.application = "Economics"
             /\ ResultWithin(b) /\ b.next = Len(b.rows)

Scans(id, b) ==
    /\ b.phase \in Gathering =>
          b.linkedLength = Len(linked[id]) /\ b.stationedLength = Len(stationed)
    /\ b.phase \in {14, 15, 1, 3} => b.cursor = 0
    /\ b.phase = 2 => b.cursor < Lanes
    /\ b.phase = 4 => b.cursor <= b.linkedLength
    /\ b.phase = 5 => b.cursor <= b.stationedLength

Member(id, m) == JoinedAttack(id, m) \/ QualifiedDefender(id, m)

\* Who is enrolled is a member of the battle; m is one that was looked at.
LookedAt(id, b, m) ==
    CASE b.phase = 4 -> \E i \in 1 .. b.cursor : linked[id][i] = m
      [] b.phase = 5 -> m \in ToSet(linked[id]) \/ \E i \in 1 .. b.cursor : stationed[i] = m
      [] OTHER -> TRUE

Enrolled(id, b) ==
    /\ IsInjective(b.enrolled)
    /\ ToSet(b.enrolled) \subseteq DOMAIN missions
    /\ b.phase \in Early => b.enrolled = <<>>
    /\ b.phase \in {4, 5} \cup Sealed =>
          \A m \in DOMAIN missions :
              m \in ToSet(b.enrolled) <=> m = id \/ (Member(id, m) /\ LookedAt(id, b, m))

\* Resident lanes that were looked at.
Scanned(b) == IF b.phase \in {14, 15, 1} THEN 0 ELSE IF b.phase = 2 THEN b.cursor ELSE Lanes

Loss(b, i) == IF i <= b.next /\ i \in b.result.lost THEN 0 ELSE b.rows[i].count

\* Each row stands for units of its own, and they are as many as it says.
RowsAreTrue(b) ==
    /\ \A i, j \in DOMAIN b.rows :
          b.rows[i].source = b.rows[j].source /\ b.rows[i].lane = b.rows[j].lane => i = j
    /\ \A i \in DOMAIN b.rows :
          /\ \/ b.rows[i].source = 0 /\ b.rows[i].lane <= Scanned(b)
             \/ b.rows[i].source \in ToSet(b.enrolled) /\ b.rows[i].lane = 1
          /\ Units(b.rows[i].source, b.rows[i].lane) = Loss(b, i)

HasRow(b, source, lane) ==
    \E i \in DOMAIN b.rows : b.rows[i].source = source /\ b.rows[i].lane = lane

RowsAreAll(b) ==
    b.phase \in Gathering \cup Sealed =>
        IF b.blocked THEN b.rows = <<>>
        ELSE /\ b.phase \in {4, 5} \cup Sealed => b.rows # <<>>
             /\ b.next = 0 =>
                  /\ \A l \in 1 .. Scanned(b) : residents[l] > 0 => HasRow(b, 0, l)
                  /\ \A m \in ToSet(b.enrolled) : missions[m].ships > 0 => HasRow(b, m, 1)

BattleOK(id, b) ==
    Progress(b) /\ Scans(id, b) /\ Enrolled(id, b) /\ RowsAreTrue(b) /\ RowsAreAll(b)

Inv ==
    /\ FleetTypes /\ LockTypes /\ ownerSteps \in 0 .. MaxOwnerSteps
    /\ ListsOK /\ Armed /\ LockOK
    /\ bodyLock # 0 => BattleOK(bodyLock, battle[bodyLock])

-----------------------------------------------------------------------------
(* Lists *)

\* A set of numbers with a member has a least one.
LEMMA MinIsLeast ==
    ASSUME NEW S, S \subseteq Nat, S # {}
    PROVE  Min(S) \in S /\ \A n \in S : Min(S) <= n
<1> DEFINE Less == {ss \in Nat \X Nat : ss[1] < ss[2]}
<1>1. PICK m \in S : \A n \in S : ~ (<<n, m>> \in Less)
  <2>1. OpToRel(<, Nat) = Less
    BY Zenon DEF OpToRel
  <2>2. IsWellFoundedOn(Less, Nat)
    BY <2>1, NatLessThanWellFounded, Zenon
  <2> HIDE DEF Less
  <2> QED BY <2>2, WFMin, Zenon
<1>2. ASSUME NEW n \in S PROVE m <= n
  <2>1. m \in Nat /\ n \in Nat /\ <<n, m>> \in Nat \X Nat
    OBVIOUS
  <2> QED BY <1>1, <2>1
<1>3. \E x \in S : \A y \in S : x <= y
  BY <1>2
<1> QED BY <1>3 DEF Min

\* What a list holds after an entry is added.
LEMMA AppendedSet ==
    ASSUME NEW S, NEW s \in Seq(S), NEW e \in S
    PROVE  /\ ToSet(Append(s, e)) = ToSet(s) \cup {e}
           /\ IsInjective(s) /\ e \notin ToSet(s) => IsInjective(Append(s, e))
<1>1. PICK t : t = Append(s, e)
  OBVIOUS
<1>2. /\ Len(s) \in Nat /\ DOMAIN s = 1 .. Len(s) /\ DOMAIN t = 1 .. Len(s) + 1
      /\ \A i \in 1 .. Len(s) : t[i] = s[i]
      /\ t[Len(s) + 1] = e
  BY <1>1, AppendProperties, LenProperties
<1>3. ToSet(t) = ToSet(s) \cup {e}
  BY <1>2 DEF ToSet
<1>4. ASSUME IsInjective(s), e \notin ToSet(s) PROVE IsInjective(t)
  BY <1>2, <1>4 DEF ToSet, IsInjective
<1> QED BY <1>1, <1>3, <1>4

\* A list holds what is found in it.
LEMMA ContainsIsMember ==
    ASSUME NEW S, NEW s \in Seq(S), NEW x
    PROVE  Contains(s, x) <=> x \in ToSet(s)
<1>1. DOMAIN s = 1 .. Len(s)
  BY LenProperties
<1> QED BY <1>1 DEF Contains, ToSet

\* Swap and pop removes what it is asked to remove, and nothing else.
LEMMA PoppedSet ==
    ASSUME NEW s \in Seq(Nat), IsInjective(s), NEW x
    PROVE  /\ SwapAndPop(s, x) \in Seq(Nat) /\ IsInjective(SwapAndPop(s, x))
           /\ ToSet(SwapAndPop(s, x)) = ToSet(s) \ {x}
<1>0. PICK n \in Nat : n = Len(s)
  BY LenProperties
<1>1. n = Len(s) /\ n \in Nat /\ DOMAIN s = 1 .. n /\ \A i \in 1 .. n : s[i] \in Nat
  BY <1>0, LenProperties, ElementOfSeq
<1>2. CASE ~Contains(s, x)
  <2>1. SwapAndPop(s, x) = s /\ x \notin ToSet(s)
    BY <1>2, ContainsIsMember DEF SwapAndPop
  <2> QED BY <2>1
<1>3. CASE Contains(s, x)
  <2>1. PICK found : found = {i \in 1 .. Len(s) : s[i] = x}
    OBVIOUS
  <2>2. found # {} /\ found \subseteq Nat
    BY <1>1, <1>3, <2>1 DEF Contains
  <2>3. PICK k : k = Min(found)
    OBVIOUS
  <2>4. k \in 1 .. n /\ s[k] = x
    BY <1>1, <2>1, <2>2, <2>3, MinIsLeast
  <2>5. SelectInSeq(s, LAMBDA y : y = x) = k
    BY <2>1, <2>2, <2>3 DEF SelectInSeq
  <2>6. PICK last : last = s[n]
    OBVIOUS
  <2>7. last \in Nat /\ n - 1 \in Nat /\ 1 <= k /\ k <= n /\ k \in Nat
    BY <1>1, <2>4, <2>6
  <2>8. PICK t : t = [s EXCEPT ![k] = last]
    OBVIOUS
  <2>9. /\ t \in Seq(Nat) /\ Len(t) = n
        /\ \A j \in 1 .. n : t[j] = IF j = k THEN last ELSE s[j]
    BY <1>1, <2>4, <2>7, <2>8, ExceptSeq
  <2>10. PICK u : u = SubSeq(t, 1, n - 1)
    OBVIOUS
  <2>11. SwapAndPop(s, x) = u
    BY <1>1, <1>3, <2>5, <2>6, <2>8, <2>9, <2>10 DEF SwapAndPop, Front, Last
  <2>12. /\ u \in Seq(Nat) /\ Len(u) = n - 1
         /\ \A i \in 1 .. n - 1 : u[i] = t[i]
    <3>1. \A i \in 1 .. n - 1 : t[i] \in Nat
      BY <1>1, <2>7, <2>9, SMTT(30)
    <3>2. 1 \in Int /\ n - 1 \in Int
      BY <2>7
    <3>3. /\ u \in Seq(Nat) /\ Len(u) = IF 1 <= n - 1 THEN n - 1 - 1 + 1 ELSE 0
          /\ \A i \in 1 .. n - 1 - 1 + 1 : u[i] = t[1 + i - 1]
      BY <2>10, <3>1, <3>2, SubSeqProperties
    <3> QED BY <1>1, <2>7, <3>3
  <2>13. DOMAIN u = 1 .. n - 1
    BY <2>12, LenProperties
  <2>14. \A i \in 1 .. n - 1 : u[i] = IF i = k THEN s[n] ELSE s[i]
    BY <1>1, <2>6, <2>9, <2>12
  <2>15. \A i, j \in 1 .. n : s[i] = s[j] => i = j
    BY <1>1 DEF IsInjective
  <2>16. IsInjective(u)
    <3>1. ASSUME NEW i \in 1 .. n - 1, NEW j \in 1 .. n - 1, u[i] = u[j] PROVE i = j
      BY <1>1, <2>14, <2>15, <3>1, SMTT(30)
    <3> QED BY <2>13, <3>1 DEF IsInjective
  <2>17. ToSet(u) = ToSet(s) \ {x}
    <3>1. ASSUME NEW y \in ToSet(u) PROVE y \in ToSet(s) /\ y # x
      <4>1. PICK i \in 1 .. n - 1 : u[i] = y
        BY <2>13 DEF ToSet
      <4>2. i \in 1 .. n /\ i # n /\ n \in 1 .. n
        BY <1>1, <2>4
      <4>3. CASE i = k
        BY <1>1, <2>4, <2>14, <2>15, <4>1, <4>2, <4>3 DEF ToSet
      <4>4. CASE i # k
        BY <1>1, <2>4, <2>14, <2>15, <4>1, <4>2, <4>4 DEF ToSet
      <4> QED BY <4>3, <4>4
    <3>2. ASSUME NEW y \in ToSet(s), y # x PROVE y \in ToSet(u)
      <4>1. PICK i \in 1 .. n : s[i] = y
        BY <1>1 DEF ToSet
      <4>2. i # k
        BY <2>4, <3>2, <4>1
      <4>3. CASE i = n
        <5>1. k \in 1 .. n - 1 /\ u[k] = y
          BY <1>1, <2>4, <2>14, <4>1, <4>2, <4>3
        <5> QED BY <2>13, <5>1 DEF ToSet
      <4>4. CASE i # n
        <5>1. i \in 1 .. n - 1 /\ u[i] = y
          BY <1>1, <2>14, <4>1, <4>2, <4>4
        <5> QED BY <2>13, <5>1 DEF ToSet
      <4> QED BY <4>3, <4>4
    <3> QED BY <3>1, <3>2
  <2> QED BY <2>11, <2>12, <2>16, <2>17
<1> QED BY <1>2, <1>3

-----------------------------------------------------------------------------
(* Fleets come and go while no battle holds the body *)

\* Nothing has been launched yet.
LEMMA InitInv == Init => Inv
<1> SUFFICES ASSUME Init PROVE Inv
  OBVIOUS
<1> USE DEF Init
<1>1. NoBattle \in Battle
  BY DEF Battle, NoBattle, NoResult, Phases
<1>2. FleetTypes /\ LockTypes /\ ownerSteps \in 0 .. MaxOwnerSteps
  BY <1>1, BattleConstants DEF FleetTypes, LockTypes, Ids
<1>3. DOMAIN missions = {} /\ DOMAIN stationed = {} /\ \A a \in Ids : DOMAIN linked[a] = {}
  OBVIOUS
<1>4. ListsOK /\ Armed
  BY <1>3 DEF ListsOK, Armed, IsInjective, ToSet, Holds, Attacks, Of
<1>5. LockOK
  BY DEF LockOK, Resting, NoBattle, NoResult
<1> QED BY <1>2, <1>4, <1>5 DEF Inv

\* A step of the fleets alone, when there is no battle.
LEMMA FreeStep ==
    ASSUME Inv, bodyLock = 0, FleetTypes', ListsOK', Armed',
           UNCHANGED <<bodyLock, battle, ownerSteps>>
    PROVE  Inv'
<1>1. LockTypes' /\ ownerSteps' \in 0 .. MaxOwnerSteps
  BY DEF Inv, LockTypes
<1>2. LockOK'
  BY DEF Inv, LockOK, Resting
<1> QED BY <1>1, <1>2 DEF Inv

\* The missions are numbered in the order of their launch.
LEMMA MissionIds ==
    ASSUME Inv
    PROVE  /\ DOMAIN missions = 1 .. Len(missions) /\ Len(missions) \in Nat
           /\ DOMAIN missions \subseteq Ids
           /\ \A m \in DOMAIN missions : missions[m] \in Mission /\ m \in Nat /\ m # 0
<1>1. DOMAIN missions = 1 .. Len(missions) /\ Len(missions) \in Nat /\ Len(missions) <= MaxMissions
  BY LenProperties DEF Inv, FleetTypes
<1>2. \A m \in 1 .. Len(missions) : missions[m] \in Mission
  BY ElementOfSeq DEF Inv, FleetTypes
<1> QED BY <1>1, <1>2, BattleConstants DEF Ids

\* A fleet is launched; the lists take it in.
LEMMA LaunchStep ==
    ASSUME Inv, bodyLock = 0, Len(missions) < MaxMissions,
           NEW f \in Mission, f.ships > 0, f.status = "Outbound",
           f.kind = "DefenseHold" => f.holdUntil <= f.returnAt,
           missions' = Append(missions, f),
           stationed' = IF f.kind = "DefenseHold" THEN Append(stationed, Len(missions')) ELSE stationed,
           \/ f.kind \notin AcsKinds /\ linked' = linked
           \/ /\ f.kind \in AcsKinds /\ f.leader \in Ids
              /\ linked' = [linked EXCEPT ![f.leader] = Append(@, Len(missions'))],
           residents' \in [1 .. Lanes -> Nat],
           UNCHANGED <<now, bodyLock, battle, ownerSteps>>
    PROVE  Inv'
<1>1. PICK n : n = Len(missions')
  OBVIOUS
<1>2. missions \in Seq(Mission) /\ MaxMissions \in Nat
  BY BattleConstants DEF Inv, FleetTypes
<1>3. /\ n = Len(missions) + 1 /\ n \in Nat /\ n \in Ids /\ n \notin DOMAIN missions
      /\ missions' \in Seq(Mission) /\ Len(missions') <= MaxMissions
      /\ DOMAIN missions' = DOMAIN missions \cup {n}
      /\ missions'[n] = f
      /\ \A m \in DOMAIN missions : missions'[m] = missions[m]
  <2>1. PICK ms : ms = missions'
    OBVIOUS
  <2>2. /\ ms \in Seq(Mission) /\ Len(ms) = Len(missions) + 1 /\ ms[Len(missions) + 1] = f
        /\ \A m \in 1 .. Len(missions) : ms[m] = missions[m]
    BY <1>2, <2>1, AppendProperties
  <2>3. DOMAIN ms = 1 .. Len(ms)
    BY <2>2, LenProperties
  <2> QED BY <1>1, <1>2, <2>1, <2>2, <2>3, MissionIds DEF Ids
<1>4. /\ stationed' \in Seq(Nat) /\ IsInjective(stationed')
      /\ ToSet(stationed') = IF f.kind = "DefenseHold" THEN ToSet(stationed) \cup {n} ELSE ToSet(stationed)
  <2>1. stationed \in Seq(Nat) /\ IsInjective(stationed) /\ n \notin ToSet(stationed)
    BY <1>3 DEF Inv, FleetTypes, ListsOK, Holds, Of
  <2>2. PICK s : s = Append(stationed, n)
    OBVIOUS
  <2>3. s \in Seq(Nat) /\ ToSet(s) = ToSet(stationed) \cup {n} /\ IsInjective(s)
    <3>1. n \in Nat
      BY <1>3
    <3> QED BY <2>1, <2>2, <3>1, AppendedSet, AppendProperties
  <2>4. stationed' = IF f.kind = "DefenseHold" THEN s ELSE stationed
    BY <1>1, <2>2
  <2> QED BY <2>1, <2>3, <2>4
<1>5. /\ linked' \in [Ids -> Seq(Nat)]
      /\ \A a \in Ids : ToSet(linked'[a]) =
            IF f.kind \in AcsKinds /\ f.leader = a THEN ToSet(linked[a]) \cup {n} ELSE ToSet(linked[a])
  <2>1. linked \in [Ids -> Seq(Nat)]
    BY DEF Inv, FleetTypes
  <2>2. CASE f.kind \notin AcsKinds /\ linked' = linked
    BY <2>1, <2>2
  <2>3. CASE f.kind \in AcsKinds /\ f.leader \in Ids
             /\ linked' = [linked EXCEPT ![f.leader] = Append(@, Len(missions'))]
    <3>1. PICK s : s = Append(linked[f.leader], n)
      OBVIOUS
    <3>2. s \in Seq(Nat) /\ ToSet(s) = ToSet(linked[f.leader]) \cup {n}
      <4>1. PICK l : l = linked[f.leader]
        OBVIOUS
      <4>2. n \in Nat /\ l \in Seq(Nat) /\ s = Append(l, n)
        BY <1>3, <2>1, <2>3, <3>1, <4>1
      <4>3. s \in Seq(Nat) /\ ToSet(s) = ToSet(l) \cup {n}
        BY <4>2, AppendedSet, AppendProperties
      <4> QED BY <4>1, <4>3
    <3>3. linked' = [linked EXCEPT ![f.leader] = s]
      BY <1>1, <2>1, <2>3, <3>1
    <3> QED BY <2>1, <2>3, <3>2, <3>3
  <2> QED BY <2>2, <2>3
<1>6. FleetTypes'
  BY <1>3, <1>4, <1>5 DEF Inv, FleetTypes
<1>7. ListsOK'
  <2>1. Holds' = IF f.kind = "DefenseHold" THEN Holds \cup {n} ELSE Holds
    BY <1>3 DEF Holds, Of
  <2>2. ToSet(stationed') = {m \in Holds' : missions'[m].status = "Outbound"}
    <3>1. \A m \in Holds : m \in DOMAIN missions
      BY DEF Holds, Of
    <3> QED BY <1>3, <1>4, <2>1, <3>1 DEF Inv, ListsOK, Outbound
  <2>3. ASSUME NEW a \in Ids
        PROVE  ToSet(linked'[a]) = {m \in DOMAIN missions' :
                                        missions'[m].kind \in AcsKinds /\ missions'[m].leader = a}
    <3>1. ToSet(linked[a]) = {m \in DOMAIN missions : missions[m].kind \in AcsKinds /\ missions[m].leader = a}
      BY DEF Inv, ListsOK, Of
    <3> QED BY <1>3, <1>5, <3>1
  <2>4. \A a \in Ids : ToSet(linked'[a]) = {m \in Of(AcsKinds)' : missions'[m].leader = a}
    BY <2>3 DEF Of
  <2>5. \A m \in Holds' : missions'[m].status = "Outbound" => missions'[m].holdUntil <= missions'[m].returnAt
    <3>1. \A m \in Holds : m \in DOMAIN missions
      BY DEF Holds, Of
    <3> QED BY <1>3, <2>1, <3>1 DEF Inv, ListsOK, Outbound
  <2> QED BY <1>4, <2>2, <2>4, <2>5 DEF ListsOK, Outbound
<1>8. Armed'
  <2>1. ASSUME NEW a \in Attacks', battle'[a].phase \in {0} \cup Early PROVE missions'[a].ships > 0
    BY <1>3, <2>1 DEF Inv, Armed, Attacks, Of
  <2> QED BY <2>1 DEF Armed
<1> QED BY <1>6, <1>7, <1>8, FreeStep

\* A fleet sets out for home, is recalled or is over; a hold leaves its list.
LEMMA LeaveStep ==
    ASSUME Inv, NEW id \in DOMAIN missions, NEW x \in Mission,
           missions' = [missions EXCEPT ![id] = x],
           x.kind = missions[id].kind, x.leader = missions[id].leader, x.ships = missions[id].ships,
           x.kind = "DefenseHold" => x.status # "Outbound",
           stationed' = IF id \in Holds THEN SwapAndPop(stationed, id) ELSE stationed,
           residents' \in [1 .. Lanes -> Nat],
           UNCHANGED <<now, linked>>
    PROVE  /\ FleetTypes' /\ ListsOK'
           /\ battle' = battle => Armed'
           /\ DOMAIN missions' = DOMAIN missions
           /\ missions'[id] = x /\ \A m \in DOMAIN missions \ {id} : missions'[m] = missions[m]
<1>1. /\ missions' \in Seq(Mission) /\ Len(missions') = Len(missions)
      /\ DOMAIN missions' = DOMAIN missions
      /\ missions'[id] = x /\ \A m \in DOMAIN missions \ {id} : missions'[m] = missions[m]
  BY MissionIds, ExceptSeq DEF Inv, FleetTypes
<1>2. \A m \in DOMAIN missions : /\ missions'[m].kind = missions[m].kind
                                 /\ missions'[m].leader = missions[m].leader
                                 /\ missions'[m].ships = missions[m].ships
  BY <1>1
<1>3. /\ stationed' \in Seq(Nat) /\ IsInjective(stationed')
      /\ ToSet(stationed') = IF id \in Holds THEN ToSet(stationed) \ {id} ELSE ToSet(stationed)
  BY PoppedSet DEF Inv, FleetTypes, ListsOK
<1>4. FleetTypes'
  BY <1>1, <1>3 DEF Inv, FleetTypes
<1>5. Holds' = Holds /\ Of(AcsKinds)' = Of(AcsKinds) /\ Attacks' = Attacks
  BY <1>1, <1>2 DEF Holds, Of, Attacks
<1>6. ToSet(stationed') = {m \in Holds : missions'[m].status = "Outbound"}
  <2>1. \A m \in Holds : m \in DOMAIN missions /\ missions[m].kind = "DefenseHold"
    BY DEF Holds, Of
  <2>2. ToSet(stationed) = {m \in Holds : missions[m].status = "Outbound"}
    BY DEF Inv, ListsOK, Outbound
  <2> QED BY <1>1, <1>3, <2>1, <2>2
<1>7. \A a \in Ids : ToSet(linked'[a]) = {m \in Of(AcsKinds) : missions'[m].leader = a}
  BY <1>2 DEF Inv, ListsOK, Of
<1>8. ListsOK'
  <2>1. \A m \in Holds : missions'[m].status = "Outbound" => missions'[m].holdUntil <= missions'[m].returnAt
    <3>1. \A m \in Holds : m \in DOMAIN missions /\ missions[m].kind = "DefenseHold"
      BY DEF Holds, Of
    <3> QED BY <1>1, <3>1 DEF Inv, ListsOK, Outbound
  <2> QED BY <1>3, <1>5, <1>6, <1>7, <2>1 DEF ListsOK, Outbound
<1>9. ASSUME battle' = battle PROVE Armed'
  BY <1>2, <1>5, <1>9 DEF Inv, Armed, Attacks, Of
<1> QED BY <1>1, <1>4, <1>8, <1>9

\* What players do waits until no battle is on.
LEMMA PlayersStep == Inv /\ Players => Inv'
<1> SUFFICES ASSUME Inv, Players PROVE Inv'
  OBVIOUS
<1>t. /\ now \in Nat /\ residents \in [1 .. Lanes -> Nat] /\ Lanes \in Nat \ {0}
      /\ Flight \in Nat \ {0} /\ HoldTime \in Nat \ {0} /\ FleetSize \in Nat \ {0}
  BY BattleConstants DEF Inv, FleetTypes
<1>1. ASSUME NEW a \in Attacks, NEW kind \in AcsKinds, Join(kind, a) PROVE Inv'
  <2>1. a \in DOMAIN missions /\ a \in Ids /\ a \in Nat /\ missions[a].arrivalAt \in Nat
    BY MissionIds DEF Attacks, Of, Mission
  <2>2. PICK f : f = Fleet(kind, missions[a].arrivalAt, 0, missions[a].arrivalAt + 1, a)
    OBVIOUS
  <2>3. f \in Mission /\ f.ships > 0 /\ f.status = "Outbound" /\ f.kind = kind /\ f.leader = a
    <3>1. kind \in Kinds /\ missions[a].arrivalAt + 1 \in Nat /\ 0 \in Nat
      BY <2>1 DEF Kinds
    <3> QED BY <1>t, <2>1, <2>2, <3>1 DEF Fleet, Mission
  <2>4. kind \in AcsKinds /\ kind # "DefenseHold"
    BY DEF AcsKinds
  <2> QED BY <1>t, <1>1, <2>1, <2>2, <2>3, <2>4, LaunchStep DEF Join, MayLaunch, NoPendingResolution
<1>2. CASE LaunchAttack
  <2>1. PICK f : f = Fleet("Attack", now + Flight, 0, now + 2 * Flight, 0)
    OBVIOUS
  <2>2. f \in Mission /\ f.ships > 0 /\ f.status = "Outbound" /\ f.kind = "Attack"
    <3>1. now + Flight \in Nat /\ now + 2 * Flight \in Nat
      BY <1>t
    <3>2. "Attack" \in Kinds /\ 0 \in Nat
      BY DEF Kinds
    <3> QED BY <2>1, <3>1, <1>t, <3>2 DEF Fleet, Mission
  <2>3. "Attack" \notin AcsKinds
    BY DEF AcsKinds
  <2> QED BY <1>t, <1>2, <2>1, <2>2, <2>3, LaunchStep DEF LaunchAttack, MayLaunch, NoPendingResolution
<1>3. CASE LaunchDefenseHold
  <2>1. PICK f : f = Fleet("DefenseHold", now + 1, now + 1 + HoldTime, now + 1 + HoldTime + 1, 0)
    OBVIOUS
  <2>2. f \in Mission /\ f.ships > 0 /\ f.status = "Outbound" /\ f.kind = "DefenseHold"
        /\ f.holdUntil <= f.returnAt
    <3>1. now + 1 \in Nat /\ now + 1 + HoldTime \in Nat /\ now + 1 + HoldTime + 1 \in Nat
          /\ now + 1 + HoldTime <= now + 1 + HoldTime + 1
      BY <1>t
    <3>2. "DefenseHold" \in Kinds /\ 0 \in Nat
      BY DEF Kinds
    <3> QED BY <2>1, <3>1, <1>t, <3>2 DEF Fleet, Mission
  <2>3. "DefenseHold" \notin AcsKinds
    BY DEF AcsKinds
  <2> QED BY <1>t, <1>3, <2>1, <2>2, <2>3, LaunchStep DEF LaunchDefenseHold, MayLaunch, NoPendingResolution
<1>4. CASE LaunchTransport
  <2>1. PICK f : f = Fleet("Transport", now + 1, 0, now + 2, 0)
    OBVIOUS
  <2>2. f \in Mission /\ f.ships > 0 /\ f.status = "Outbound" /\ f.kind = "Transport"
    <3>1. now + 1 \in Nat /\ now + 2 \in Nat
      BY <1>t
    <3>2. "Transport" \in Kinds /\ 0 \in Nat
      BY DEF Kinds
    <3> QED BY <2>1, <3>1, <1>t, <3>2 DEF Fleet, Mission
  <2>3. "Transport" \notin AcsKinds
    BY DEF AcsKinds
  <2>4. residents' \in [1 .. Lanes -> Nat]
    BY <1>t, <1>4 DEF LaunchTransport
  <2> QED BY <1>4, <2>1, <2>2, <2>3, <2>4, LaunchStep DEF LaunchTransport, MayLaunch, NoPendingResolution
<1>5. ASSUME NEW id \in DOMAIN missions, RecallFleetMission(id) PROVE Inv'
  <2>1. PICK x : x = [missions[id] EXCEPT !.status = "Recalled", !.returnAt = RecallReturnTime(id)]
    OBVIOUS
  <2>2. missions[id] \in Mission
    BY MissionIds
  <2>3. RecallReturnTime(id) \in Nat
    BY <1>t, <2>2 DEF RecallReturnTime, Mission
  <2>4. /\ x \in Mission /\ x.kind = missions[id].kind /\ x.leader = missions[id].leader
        /\ x.ships = missions[id].ships /\ x.status = "Recalled"
    BY <2>1, <2>2, <2>3 DEF Mission
  <2>5. missions' = [missions EXCEPT ![id] = x]
    BY <1>5, <2>1 DEF RecallFleetMission, RecallBack
  <2>6. bodyLock = 0 /\ id \notin Holds /\ stationed' = stationed /\ residents' = residents
        /\ UNCHANGED <<now, linked, bodyLock, battle, ownerSteps>>
    BY <1>5 DEF RecallFleetMission, NoPendingResolution
  <2> QED BY <1>t, <2>4, <2>5, <2>6, LeaveStep, FreeStep
<1>6. ASSUME NEW id \in DOMAIN missions, RecallDefenseHold(id) PROVE Inv'
  <2>1. PICK time : time = IF now < missions[id].arrivalAt THEN RecallReturnTime(id)
                           ELSE now + missions[id].returnAt - missions[id].holdUntil
    OBVIOUS
  <2>2. PICK x : x = [missions[id] EXCEPT !.status = "Recalled", !.returnAt = time]
    OBVIOUS
  <2>3. missions[id] \in Mission
    BY MissionIds
  <2>4. time \in Nat
    <3>1. missions[id].holdUntil <= missions[id].returnAt
      BY <1>6 DEF RecallDefenseHold, Inv, ListsOK
    <3>2. /\ missions[id].holdUntil \in Nat /\ missions[id].returnAt \in Nat
          /\ missions[id].departureAt \in Nat
      BY <2>3 DEF Mission
    <3> QED BY <1>t, <2>1, <3>1, <3>2, SMTT(30) DEF RecallReturnTime
  <2>5. /\ x \in Mission /\ x.kind = missions[id].kind /\ x.leader = missions[id].leader
        /\ x.ships = missions[id].ships /\ x.status = "Recalled"
    BY <2>2, <2>3, <2>4 DEF Mission
  <2>6. missions' = [missions EXCEPT ![id] = x]
    BY <1>6, <2>1, <2>2 DEF RecallDefenseHold, RecallBack
  <2>7. bodyLock = 0 /\ id \in Holds /\ stationed' = SwapAndPop(stationed, id) /\ residents' = residents
        /\ UNCHANGED <<now, linked, bodyLock, battle, ownerSteps>>
    BY <1>6 DEF RecallDefenseHold, NoPendingResolution
  <2> QED BY <1>t, <2>5, <2>6, <2>7, LeaveStep, FreeStep
<1> QED BY <1>1, <1>2, <1>3, <1>4, <1>5, <1>6 DEF Players

-----------------------------------------------------------------------------
(* Time, and the fleets that do not fight *)

\* A battle does not notice a step that leaves its members, their ships, the
\* residents and the lists it still has to scan as they are.
LEMMA BattleCarry ==
    ASSUME NEW id, NEW b, BattleOK(id, b),
           DOMAIN missions' = DOMAIN missions,
           \A m \in DOMAIN missions : missions'[m].ships = missions[m].ships,
           b.phase \in {4, 5} \cup Sealed =>
              \A m \in DOMAIN missions : Member(id, m)' <=> Member(id, m),
           b.phase \in Gathering => stationed' = stationed,
           \A i \in DOMAIN b.rows : b.rows[i].source \in {0} \cup DOMAIN missions,
           UNCHANGED <<linked, residents>>
    PROVE  BattleOK(id, b)'
<1>1. Progress(b)'
  BY DEF BattleOK, Progress, NoneApplied, ResultWithin
<1>2. Scans(id, b)'
  BY DEF BattleOK, Scans
<1>3. \A m \in DOMAIN missions : b.phase \in {4, 5} => (LookedAt(id, b, m)' <=> LookedAt(id, b, m))
  BY DEF LookedAt, Gathering
<1>4. \A m \in DOMAIN missions : b.phase \in Sealed => LookedAt(id, b, m)' /\ LookedAt(id, b, m)
  BY DEF LookedAt, Sealed
<1>5. Enrolled(id, b)'
  <2>1. Enrolled(id, b)
    BY DEF BattleOK
  <2>2. b.phase \in {4, 5} \cup Sealed =>
          \A m \in DOMAIN missions :
              m \in ToSet(b.enrolled) <=> m = id \/ (Member(id, m)' /\ LookedAt(id, b, m)')
    BY <1>3, <1>4, <2>1 DEF Enrolled
  <2> QED BY <2>1, <2>2 DEF Enrolled
<1>6. RowsAreTrue(b)'
  <2>1. RowsAreTrue(b)
    BY DEF BattleOK
  <2>2. \A i \in DOMAIN b.rows :
            Units(b.rows[i].source, b.rows[i].lane)' = Units(b.rows[i].source, b.rows[i].lane)
    BY DEF Units
  <2> QED BY <2>1, <2>2 DEF RowsAreTrue
<1>7. RowsAreAll(b)'
  <2>1. ToSet(b.enrolled) \subseteq DOMAIN missions
    BY DEF BattleOK, Enrolled
  <2> QED BY <2>1 DEF BattleOK, RowsAreAll, HasRow
<1> QED BY <1>1, <1>2, <1>5, <1>6, <1>7 DEF BattleOK

\* Rows are of the residents or of fleets.
LEMMA RowSources ==
    ASSUME Inv, bodyLock # 0
    PROVE  \A i \in DOMAIN battle[bodyLock].rows :
              battle[bodyLock].rows[i].source \in {0} \cup DOMAIN missions
  BY DEF Inv, BattleOK, RowsAreTrue, Enrolled

\* While a battle is on, no fleet has its turn to come home.
LEMMA NobodyComesHome ==
    ASSUME Inv, NEW id \in DOMAIN missions, CompleteFleetMissionReturn(id)
    PROVE  bodyLock = 0
<1> SUFFICES ASSUME bodyLock # 0 PROVE FALSE
  OBVIOUS
<1>1. PICK a : a = bodyLock
  OBVIOUS
<1>2. /\ a \in Attacks /\ Outbound(a) /\ a \in DOMAIN missions
      /\ \A e \in Events : ~Before(e, Arrival(a))
  BY <1>1 DEF Inv, LockOK, Attacks, Of
<1>3. Arrival(a) \in Events
  BY <1>2 DEF Events
<1>4. Homecoming(id) \in Events
  BY DEF CompleteFleetMissionReturn, Active, Events
<1>5. ~Before(Arrival(a), Homecoming(id)) /\ ~Before(Homecoming(id), Arrival(a))
  BY <1>2, <1>3, <1>4 DEF CompleteFleetMissionReturn, InTurn
<1>6. missions[a].arrivalAt \in Nat /\ missions[id].returnAt \in Nat
  BY <1>2, MissionIds DEF Mission
<1>7. /\ Arrival(a)[1] = missions[a].arrivalAt /\ Arrival(a)[2] = 0
      /\ Homecoming(id)[1] = missions[id].returnAt /\ Homecoming(id)[2] = 1
  BY DEF Arrival, Homecoming
<1> QED BY <1>5, <1>6, <1>7 DEF Before

\* Fleets come home, holds end and linked fleets without a battle turn back.
LEMMA PeacefulStep ==
    ASSUME Inv, NEW id \in DOMAIN missions,
           CompleteFleetMissionReturn(id) \/ ResolveDefenseHold(id) \/ ResolveLinked(id)
    PROVE  Inv'
<1>1. missions[id] \in Mission /\ id \in Nat /\ id # 0
  BY MissionIds
<1>2. bodyLock # 0 => bodyLock \in Attacks
  BY DEF Inv, LockOK
<1>3. CASE CompleteFleetMissionReturn(id)
  <2>1. PICK x : x = [missions[id] EXCEPT !.status = "Returned"]
    OBVIOUS
  <2>2. /\ x \in Mission /\ x.kind = missions[id].kind /\ x.leader = missions[id].leader
        /\ x.ships = missions[id].ships /\ x.status = "Returned"
    BY <1>1, <2>1 DEF Mission
  <2>3. missions' = [missions EXCEPT ![id] = x]
    BY <1>3, <2>1 DEF CompleteFleetMissionReturn
  <2>4. bodyLock = 0 /\ id \notin Holds /\ stationed' = stationed
        /\ UNCHANGED <<now, linked, bodyLock, battle, ownerSteps>>
    BY <1>3, NobodyComesHome DEF CompleteFleetMissionReturn, Holds, Of
  <2>5. residents' \in [1 .. Lanes -> Nat]
    <3>1. missions[id].ships \in Nat /\ residents \in [1 .. Lanes -> Nat] /\ Lanes \in Nat \ {0}
      BY <1>1, BattleConstants DEF Mission, Inv, FleetTypes
    <3> QED BY <1>3, <3>1 DEF CompleteFleetMissionReturn
  <2> QED BY <2>2, <2>3, <2>4, <2>5, LeaveStep, FreeStep
<1>4. CASE ResolveDefenseHold(id)
  <2>1. PICK x : x = [missions[id] EXCEPT !.status = "Returning"]
    OBVIOUS
  <2>2. /\ x \in Mission /\ x.kind = missions[id].kind /\ x.leader = missions[id].leader
        /\ x.ships = missions[id].ships /\ x.status = "Returning"
    BY <1>1, <2>1 DEF Mission
  <2>3. missions' = [missions EXCEPT ![id] = x]
    BY <1>4, <2>1 DEF ResolveDefenseHold
  <2>4. bodyLock = 0 /\ id \in Holds /\ stationed' = SwapAndPop(stationed, id)
        /\ UNCHANGED <<now, residents, linked, bodyLock, battle, ownerSteps>>
    BY <1>2, <1>4 DEF ResolveDefenseHold, MayResolve, Holds, Attacks, Of
  <2>5. residents' \in [1 .. Lanes -> Nat]
    BY <2>4 DEF Inv, FleetTypes
  <2> QED BY <2>2, <2>3, <2>4, <2>5, LeaveStep, FreeStep
<1>5. CASE ResolveLinked(id)
  <2>1. PICK x : x = [missions[id] EXCEPT !.status = "Returning"]
    OBVIOUS
  <2>2. /\ x \in Mission /\ x.kind = missions[id].kind /\ x.leader = missions[id].leader
        /\ x.ships = missions[id].ships /\ x.status = "Returning"
    BY <1>1, <2>1 DEF Mission
  <2>3. missions' = [missions EXCEPT ![id] = x]
    BY <1>5, <2>1 DEF ResolveLinked
  <2>4. bodyLock = 0 /\ id \notin Holds /\ stationed' = stationed
        /\ UNCHANGED <<now, residents, linked, bodyLock, battle, ownerSteps>>
    BY <1>2, <1>5 DEF ResolveLinked, MayResolve, Holds, Attacks, Of, AcsKinds
  <2>5. residents' \in [1 .. Lanes -> Nat]
    BY <2>4 DEF Inv, FleetTypes
  <2> QED BY <2>2, <2>3, <2>4, <2>5, LeaveStep, FreeStep
<1> QED BY <1>3, <1>4, <1>5

\* When a fleet leaves, or is over, no event is added to the past of a battle.
LEMMA OrderKept ==
    ASSUME Inv, bodyLock # 0, NEW id \in DOMAIN missions, id # bodyLock, Outbound(id),
           NEW x \in Mission, missions' = [missions EXCEPT ![id] = x],
           x.kind = missions[id].kind, x.arrivalAt = missions[id].arrivalAt,
           x.returnAt = missions[id].returnAt, x.holdUntil = missions[id].holdUntil,
           x.status # "Outbound", bodyLock' = bodyLock,
           \A other \in Ids : other # bodyLock => Resting(battle'[other])
    PROVE  LockOK'
<1>1. PICK a : a = bodyLock
  OBVIOUS
<1>2. /\ DOMAIN missions' = DOMAIN missions
      /\ missions'[id] = x /\ \A m \in DOMAIN missions \ {id} : missions'[m] = missions[m]
  BY DEF Inv, FleetTypes
<1>3. \A m \in DOMAIN missions :
         /\ missions'[m].kind = missions[m].kind /\ missions'[m].arrivalAt = missions[m].arrivalAt
         /\ missions'[m].returnAt = missions[m].returnAt /\ missions'[m].holdUntil = missions[m].holdUntil
         /\ Outbound(m)' => Outbound(m)
         /\ Active(m)' => Active(m)
  BY <1>2 DEF Outbound, Active
<1>4. Attacks' = Attacks /\ Holds' = Holds /\ Of({"Transport"})' = Of({"Transport"})
  BY <1>2, <1>3 DEF Attacks, Holds, Of
<1>5. /\ a \in Attacks /\ Outbound(a) /\ a \in DOMAIN missions /\ a # id
      /\ \A e \in Events : ~Before(e, Arrival(a))
  BY <1>1 DEF Inv, LockOK, Attacks, Of
<1>6. \A m \in DOMAIN missions :
         /\ Arrival(m)' = Arrival(m) /\ Homecoming(m)' = Homecoming(m) /\ HoldEnd(m)' = HoldEnd(m)
  BY <1>3 DEF Arrival, Homecoming, HoldEnd
<1>7. Attacks \subseteq DOMAIN missions /\ Holds \subseteq DOMAIN missions
      /\ Of({"Transport"}) \subseteq DOMAIN missions
  BY DEF Attacks, Holds, Of
<1>8. ASSUME NEW e \in Events' PROVE e \in Events
  <2>1. CASE \E m \in Attacks' : Outbound(m)' /\ e = Arrival(m)'
    BY <1>3, <1>4, <1>6, <1>7, <2>1 DEF Events
  <2>2. CASE \E m \in Of({"Transport"})' : Active(m)' /\ e = Homecoming(m)'
    BY <1>3, <1>4, <1>6, <1>7, <2>2 DEF Events
  <2>3. CASE \E m \in Holds' : Outbound(m)' /\ e = HoldEnd(m)'
    BY <1>3, <1>4, <1>6, <1>7, <2>3 DEF Events
  <2> QED BY <2>1, <2>2, <2>3 DEF Events
<1>9. Outbound(a)'
  BY <1>2, <1>5 DEF Outbound
<1>10. \A other \in Ids : other # bodyLock' => Resting(battle'[other])
  OBVIOUS
<1>11. \A e \in Events' : ~Before(e, Arrival(a)')
  BY <1>5, <1>6, <1>8
<1>12. a \in Attacks' /\ a = bodyLock'
  BY <1>1, <1>4, <1>5
<1> QED BY <1>9, <1>10, <1>11, <1>12 DEF LockOK, Before, Arrival, Resting

\* A transport that turns round is as far from home as before.
LEMMA TransportStep ==
    ASSUME Inv, NEW id \in DOMAIN missions, TransportArrives(id)
    PROVE  Inv'
<1>1. PICK x : x = [missions[id] EXCEPT !.status = "Returning"]
  OBVIOUS
<1>2. missions[id] \in Mission /\ id \in Ids /\ id # 0
  BY MissionIds
<1>3. /\ x \in Mission /\ x.kind = missions[id].kind /\ x.leader = missions[id].leader
      /\ x.ships = missions[id].ships /\ x.status = "Returning"
      /\ x.arrivalAt = missions[id].arrivalAt /\ x.returnAt = missions[id].returnAt
      /\ x.holdUntil = missions[id].holdUntil
  BY <1>1, <1>2 DEF Mission
<1>4. missions' = [missions EXCEPT ![id] = x]
  BY <1>1 DEF TransportArrives
<1>5. /\ missions[id].kind = "Transport" /\ Outbound(id) /\ stationed' = stationed
      /\ UNCHANGED <<now, residents, linked, bodyLock, battle, ownerSteps>>
  BY DEF TransportArrives, Of
<1>6. id \notin Holds /\ id \notin Attacks
  BY <1>5 DEF Holds, Attacks, Of
<1>7. residents' \in [1 .. Lanes -> Nat]
  BY <1>5 DEF Inv, FleetTypes
<1>8. /\ FleetTypes' /\ ListsOK' /\ Armed'
      /\ DOMAIN missions' = DOMAIN missions
      /\ missions'[id] = x /\ \A m \in DOMAIN missions \ {id} : missions'[m] = missions[m]
  BY <1>3, <1>4, <1>5, <1>6, <1>7, LeaveStep
<1>9. CASE bodyLock = 0
  BY <1>5, <1>8, <1>9, FreeStep
<1>10. CASE bodyLock # 0
  <2>1. PICK a, b : a = bodyLock /\ b = battle[bodyLock]
    OBVIOUS
  <2>2. a \in Attacks /\ a # id /\ a \in DOMAIN missions
    BY <1>6, <1>10, <2>1 DEF Inv, LockOK, Attacks, Of
  <2>3. LockOK'
    <3>1. \A other \in Ids : other # bodyLock => Resting(battle'[other])
      BY <1>5 DEF Inv, LockOK
    <3> QED BY <1>3, <1>4, <1>5, <1>10, <2>1, <2>2, <3>1, OrderKept
  <2>4. \A m \in DOMAIN missions : Member(a, m)' <=> Member(a, m)
    <3>1. missions'[a] = missions[a]
      BY <1>8, <2>2
    <3>2. ~Member(a, id) /\ ~Member(a, id)'
      BY <1>3, <1>5, <1>8 DEF Member, JoinedAttack, QualifiedDefender
    <3> QED BY <1>8, <3>1, <3>2 DEF Member, JoinedAttack, QualifiedDefender, Outbound
  <2>5. BattleOK(a, b)'
    <3>1. BattleOK(a, b)
      BY <1>10, <2>1 DEF Inv
    <3>2. \A m \in DOMAIN missions : missions'[m].ships = missions[m].ships
      BY <1>3, <1>8
    <3>3. \A i \in DOMAIN b.rows : b.rows[i].source \in {0} \cup DOMAIN missions
      BY <1>10, <2>1, RowSources
    <3> QED BY <1>5, <1>8, <2>4, <3>1, <3>2, <3>3, BattleCarry
  <2>6. a = bodyLock' /\ b = battle'[bodyLock']
    BY <1>5, <2>1
  <2>7. LockTypes' /\ ownerSteps' \in 0 .. MaxOwnerSteps
    BY <1>5 DEF Inv, LockTypes
  <2> QED BY <1>8, <2>3, <2>5, <2>6, <2>7 DEF Inv
<1> QED BY <1>9, <1>10

\* What the invariant says does not depend on the time.
LEMMA TickStep == Inv /\ Tick => Inv'
<1> SUFFICES ASSUME Inv, Tick PROVE Inv'
  OBVIOUS
<1>1. UNCHANGED <<missions, residents, stationed, linked, bodyLock, battle, ownerSteps>> /\ now' = now + 1
  BY DEF Tick, fleets
<1>2. FleetTypes' /\ LockTypes' /\ ownerSteps' \in 0 .. MaxOwnerSteps
  BY <1>1 DEF Inv, FleetTypes, LockTypes
<1>3. ListsOK' /\ Armed'
  BY <1>1 DEF Inv, ListsOK, Armed, Holds, Attacks, Of, Outbound
<1>4. LockOK'
  <2>1. Attacks' = Attacks /\ Events' = Events
    BY <1>1 DEF Attacks, Holds, Of, Events, Outbound, Active, Arrival, Homecoming, HoldEnd
  <2> QED BY <1>1, <2>1 DEF Inv, LockOK, Outbound, Arrival, Before, Resting
<1>5. ASSUME bodyLock # 0 PROVE BattleOK(bodyLock, battle[bodyLock])'
  <2>1. PICK a, b : a = bodyLock /\ b = battle[bodyLock]
    OBVIOUS
  <2>2. BattleOK(a, b)
    BY <1>5, <2>1 DEF Inv
  <2>3. \A m \in DOMAIN missions : Member(a, m)' <=> Member(a, m)
    BY <1>1 DEF Member, JoinedAttack, QualifiedDefender, Outbound
  <2>4. \A i \in DOMAIN b.rows : b.rows[i].source \in {0} \cup DOMAIN missions
    BY <1>5, <2>1, RowSources
  <2>5. BattleOK(a, b)'
    BY <1>1, <2>2, <2>3, <2>4, BattleCarry
  <2> QED BY <1>1, <2>1, <2>5
<1> QED BY <1>1, <1>2, <1>3, <1>4, <1>5 DEF Inv

-----------------------------------------------------------------------------
(* Steps of the battle that leave the fleets alone *)

\* The rows of a battle, one by one.
LEMMA RowTypes ==
    ASSUME NEW b \in Battle
    PROVE  /\ b.rows \in Seq(Row) /\ Len(b.rows) \in Nat /\ DOMAIN b.rows = 1 .. Len(b.rows)
           /\ \A i \in DOMAIN b.rows :
                 /\ b.rows[i].source \in Nat /\ b.rows[i].lane \in Nat
                 /\ 1 <= b.rows[i].lane /\ b.rows[i].lane <= Lanes
                 /\ b.rows[i].count \in Nat /\ b.rows[i].count > 0
<1>1. b.rows \in Seq(Row)
  BY DEF Battle
<1>2. Len(b.rows) \in Nat /\ DOMAIN b.rows = 1 .. Len(b.rows)
  BY <1>1, LenProperties
<1>3. \A i \in DOMAIN b.rows : b.rows[i] \in Row
  BY <1>1, <1>2, ElementOfSeq
<1>4. ASSUME NEW r \in Row
      PROVE  /\ r.source \in Nat /\ r.lane \in Nat /\ 1 <= r.lane /\ r.lane <= Lanes
             /\ r.count \in Nat /\ r.count > 0
  <2>1. Lanes \in Nat /\ r.source \in Nat /\ r.lane \in 1 .. Lanes /\ r.count \in Nat \ {0}
    BY BattleConstants DEF Row
  <2> QED BY <2>1
<1> QED BY <1>1, <1>2, <1>3, <1>4

\* A list without an entry is empty.
LEMMA NoEntry ==
    ASSUME NEW S, NEW s \in Seq(S), \A i \in DOMAIN s : FALSE
    PROVE  s = <<>>
<1>1. DOMAIN s = 1 .. Len(s) /\ Len(s) \in Nat
  BY LenProperties
<1>2. Len(s) = 0
  BY <1>1
<1> QED BY <1>2, EmptySeq

\* The battle that takes part in a step of its own is the one that is on.
LEMMA BattleNow ==
    ASSUME Inv, NEW id \in Ids, battle[id].phase \notin {0, 13}
    PROVE  /\ bodyLock = id /\ id # 0 /\ id \in DOMAIN missions /\ missions[id].kind = "Attack"
           /\ battle[id] \in Battle /\ BattleOK(id, battle[id])
<1>1. id = bodyLock
  BY DEF Inv, LockOK, Resting
<1>2. id # 0
  BY DEF Ids
<1>3. id \in Attacks /\ BattleOK(id, battle[id])
  BY <1>1, <1>2 DEF Inv, LockOK
<1> QED BY <1>1, <1>2, <1>3 DEF Inv, LockTypes, Attacks, Of

\* Only the record of the battle changes.
LEMMA BattleStep ==
    ASSUME Inv, NEW id \in Ids, NEW b \in Battle, battle' = [battle EXCEPT ![id] = b],
           bodyLock \in {0, id}, bodyLock' = id, id \in Attacks, Outbound(id),
           \A e \in Events : ~Before(e, Arrival(id)),
           b.phase \in Early => battle[id].phase \in {0} \cup Early,
           BattleOK(id, b), UNCHANGED <<now, fleets>>, ownerSteps' \in 0 .. MaxOwnerSteps
    PROVE  Inv'
<1>1. UNCHANGED <<now, missions, residents, stationed, linked>>
  BY DEF fleets
<1>2. battle'[id] = b /\ battle' \in [Ids -> Battle] /\ \A other \in Ids \ {id} : battle'[other] = battle[other]
  BY DEF Inv, LockTypes
<1>3. FleetTypes' /\ LockTypes'
  BY <1>1, <1>2 DEF Inv, FleetTypes, LockTypes
<1>4. ListsOK'
  BY <1>1 DEF Inv, ListsOK, Holds, Of, Outbound
<1>5. Armed'
  <2>1. Attacks' = Attacks
    BY <1>1 DEF Attacks, Of
  <2>2. ASSUME NEW a \in Attacks, battle'[a].phase \in {0} \cup Early PROVE missions[a].ships > 0
    <3>1. a \in Ids
      BY MissionIds DEF Attacks, Of
    <3>2. CASE a = id
      <4>1. b.phase # 0
        BY DEF BattleOK, Progress, Gathering, Sealed, Economic, Early
      <4> QED BY <1>2, <2>2, <3>2, <4>1 DEF Inv, Armed
    <3>3. CASE a # id
      BY <1>2, <2>2, <3>1, <3>3 DEF Inv, Armed
    <3> QED BY <3>2, <3>3
  <2> QED BY <1>1, <2>1, <2>2 DEF Armed
<1>6. LockOK'
  <2>1. Attacks' = Attacks /\ Events' = Events
    BY <1>1 DEF Attacks, Holds, Of, Events, Outbound, Active, Arrival, Homecoming, HoldEnd
  <2>2. ASSUME NEW other \in Ids, other # id PROVE Resting(battle'[other])
    <3>1. other # 0
      BY DEF Ids
    <3> QED BY <1>2, <2>2, <3>1 DEF Inv, LockOK
  <2> QED BY <1>1, <2>1, <2>2 DEF LockOK, Outbound, Arrival, Before, Resting
<1>7. BattleOK(id, b)'
  <2>1. \A m \in DOMAIN missions : Member(id, m)' <=> Member(id, m)
    BY <1>1 DEF Member, JoinedAttack, QualifiedDefender, Outbound
  <2>2. \A i \in DOMAIN b.rows : b.rows[i].source \in {0} \cup DOMAIN missions
    BY DEF BattleOK, RowsAreTrue, Enrolled
  <2> QED BY <1>1, <2>1, <2>2, BattleCarry
<1> QED BY <1>2, <1>3, <1>4, <1>5, <1>6, <1>7 DEF Inv

\* The same for the battle that is on.
LEMMA StageStep ==
    ASSUME Inv, NEW id \in Ids, battle[id].phase \notin {0, 13},
           NEW b \in Battle, battle' = [battle EXCEPT ![id] = b], BattleOK(id, b),
           b.phase \in Early => battle[id].phase \in Early,
           UNCHANGED <<now, fleets, bodyLock>>, ownerSteps' \in 0 .. MaxOwnerSteps
    PROVE  Inv'
<1>1. bodyLock = id /\ id # 0
  BY BattleNow
<1>2. id \in Attacks /\ Outbound(id) /\ \A e \in Events : ~Before(e, Arrival(id))
  BY <1>1 DEF Inv, LockOK
<1> QED BY <1>1, <1>2, BattleStep

\* The battle begins with nothing enrolled.
LEMMA TakeBodyStep ==
    ASSUME Inv, NEW id \in DOMAIN missions, TakeBody(id)
    PROVE  Inv'
<1>1. id \in Ids /\ battle[id] \in Battle /\ id \in Attacks /\ Outbound(id)
  BY MissionIds DEF TakeBody, Stage, MayResolve, Inv, LockTypes
<1>2. battle[id] = NoBattle
  <2>1. battle[id].phase = 0
    BY DEF TakeBody, Stage
  <2>2. id = bodyLock => BattleOK(id, battle[id])
    BY <1>1, MissionIds DEF Inv
  <2>3. Resting(battle[id])
    BY <1>1, <2>1, <2>2 DEF Inv, LockOK, BattleOK, Progress, Gathering, Early, Sealed, Economic
  <2> QED BY <2>1, <2>3 DEF Resting
<1>3. PICK b : b = [battle[id] EXCEPT !.phase = 14, !.linkedLength = Len(linked[id]),
                                      !.stationedLength = Len(stationed)]
  OBVIOUS
<1>4. Len(linked[id]) \in Nat /\ Len(stationed) \in Nat
  BY <1>1, LenProperties DEF Inv, FleetTypes
<1>5. /\ b \in Battle
      /\ b.phase = 14 /\ b.linkedLength = Len(linked[id]) /\ b.stationedLength = Len(stationed)
      /\ b.cursor = 0 /\ b.enrolled = <<>> /\ b.rows = <<>> /\ ~b.blocked /\ b.job = "Preparing"
      /\ b.request = "None" /\ b.application = "Unaccepted" /\ b.next = 0 /\ b.result = NoResult
  <2>1. NoBattle \in Battle
    BY DEF Battle, NoBattle, NoResult, Phases
  <2>2. b \in Battle
    BY <1>2, <1>3, <1>4, <2>1 DEF Battle, Phases
  <2>3. /\ NoBattle.cursor = 0 /\ NoBattle.enrolled = <<>> /\ NoBattle.rows = <<>> /\ ~NoBattle.blocked
        /\ NoBattle.job = "Preparing" /\ NoBattle.request = "None"
        /\ NoBattle.application = "Unaccepted" /\ NoBattle.next = 0 /\ NoBattle.result = NoResult
    BY DEF NoBattle
  <2> QED BY <1>2, <1>3, <2>1, <2>2, <2>3 DEF Battle
<1>6. BattleOK(id, b)
  <2>1. DOMAIN b.enrolled = {} /\ DOMAIN b.rows = {}
    BY <1>5
  <2>2. Progress(b) /\ Scans(id, b)
    BY <1>5 DEF Progress, Scans, Gathering, Early, Sealed, Economic, NoneApplied
  <2>3. Enrolled(id, b)
    BY <1>5, <2>1 DEF Enrolled, Early, Sealed, IsInjective, ToSet
  <2>4. RowsAreTrue(b) /\ RowsAreAll(b)
    BY <1>5, <2>1 DEF RowsAreTrue, RowsAreAll, Scanned, Sealed, ToSet
  <2> QED BY <2>2, <2>3, <2>4 DEF BattleOK
<1>7. \A e \in Events : ~Before(e, Arrival(id))
  BY DEF TakeBody, InTurn
<1>8. /\ battle' = [battle EXCEPT ![id] = b] /\ bodyLock' = id /\ bodyLock \in {0, id}
      /\ UNCHANGED <<now, fleets, ownerSteps>>
  BY <1>3 DEF TakeBody, Advance, Stage, MayResolve
<1>9. battle[id].phase = 0 /\ ownerSteps' \in 0 .. MaxOwnerSteps
  BY <1>2, <1>8 DEF NoBattle, Inv
<1> QED BY <1>1, <1>5, <1>6, <1>7, <1>8, <1>9, BattleStep

\* A target that is protected has no rows.
LEMMA ProtectStep ==
    ASSUME Inv, NEW id \in DOMAIN missions, NEW blocked \in BOOLEAN, Protect(id, blocked)
    PROVE  Inv'
<1>1. id \in Ids /\ battle[id].phase = 14
  BY MissionIds DEF Protect, Stage
<1>2. PICK b : b = battle[id]
  OBVIOUS
<1>3. b \in Battle /\ b.phase = 14 /\ BattleOK(id, b)
  BY <1>1, <1>2, BattleNow
<1>4. PICK c : c = [b EXCEPT !.phase = 15, !.blocked = blocked, !.job = IF blocked THEN "Bypassed" ELSE @]
  OBVIOUS
<1>5. /\ c \in Battle /\ c.phase = 15 /\ c.blocked = blocked
      /\ c.job = IF blocked THEN "Bypassed" ELSE b.job
      /\ c.cursor = b.cursor /\ c.linkedLength = b.linkedLength /\ c.stationedLength = b.stationedLength
      /\ c.enrolled = b.enrolled /\ c.rows = b.rows /\ c.request = b.request
      /\ c.application = b.application /\ c.next = b.next /\ c.result = b.result
  BY <1>3, <1>4 DEF Battle, Phases
<1>6. Progress(c) /\ Scans(id, c)
  BY <1>3, <1>5 DEF BattleOK, Progress, Scans, Gathering, Early, Sealed, Economic, NoneApplied
<1>7. Enrolled(id, c)
  BY <1>3, <1>5 DEF BattleOK, Enrolled, Early, Sealed
<1>8. c.rows = <<>>
  <2>1. \A i \in DOMAIN b.rows : FALSE
    <3>1. /\ b.enrolled = <<>> /\ Scanned(b) = 0
      BY <1>3 DEF BattleOK, Enrolled, Early, Scanned
    <3>2. ToSet(b.enrolled) = {}
      BY <3>1 DEF ToSet
    <3>3. \A i \in DOMAIN b.rows : 1 <= b.rows[i].lane /\ b.rows[i].lane \in Nat
      BY <1>3, RowTypes
    <3> QED BY <1>3, <3>1, <3>2, <3>3 DEF BattleOK, RowsAreTrue
  <2>2. b.rows \in Seq(Row)
    BY <1>3 DEF Battle
  <2> QED BY <1>5, <2>1, <2>2, NoEntry
<1>9. RowsAreTrue(c) /\ RowsAreAll(c)
  <2>1. DOMAIN c.rows = {} /\ ToSet(c.enrolled) = {} /\ Scanned(c) = 0
    BY <1>3, <1>5, <1>8 DEF BattleOK, Enrolled, Early, ToSet, Scanned
  <2> QED BY <1>5, <1>8, <2>1 DEF RowsAreTrue, RowsAreAll, Sealed
<1>10. /\ battle' = [battle EXCEPT ![id] = c] /\ UNCHANGED <<now, fleets, bodyLock>>
       /\ ownerSteps' \in 0 .. MaxOwnerSteps
  BY <1>2, <1>4 DEF Protect, Advance, Inv
<1>11. BattleOK(id, c) /\ battle[id].phase \notin {0, 13} /\ battle[id].phase \in Early
  BY <1>1, <1>6, <1>7, <1>9 DEF BattleOK, Early
<1> QED BY <1>1, <1>5, <1>10, <1>11, StageStep

\* Without a fight the residents are not counted.
LEMMA SettleStep ==
    ASSUME Inv, NEW id \in DOMAIN missions, SettleProduction(id)
    PROVE  Inv'
<1>1. id \in Ids /\ battle[id].phase = 15
  BY MissionIds DEF SettleProduction, Stage
<1>2. PICK b : b = battle[id]
  OBVIOUS
<1>3. b \in Battle /\ b.phase = 15 /\ BattleOK(id, b)
  BY <1>1, <1>2, BattleNow
<1>4. PICK c : c = [b EXCEPT !.phase = IF RefereeStage(id) THEN 1 ELSE 3]
  OBVIOUS
<1>5. RefereeStage(id) <=> ~b.blocked
  BY <1>2, <1>3 DEF RefereeStage, BattleOK, Progress, Gathering, Early, NoneApplied
<1>6. /\ c \in Battle /\ c.phase = (IF ~b.blocked THEN 1 ELSE 3) /\ c.blocked = b.blocked /\ c.job = b.job
      /\ c.cursor = b.cursor /\ c.linkedLength = b.linkedLength /\ c.stationedLength = b.stationedLength
      /\ c.enrolled = b.enrolled /\ c.rows = b.rows /\ c.request = b.request
      /\ c.application = b.application /\ c.next = b.next /\ c.result = b.result
  BY <1>3, <1>4, <1>5 DEF Battle, Phases
<1>7. Progress(c) /\ Scans(id, c)
  BY <1>3, <1>6 DEF BattleOK, Progress, Scans, Gathering, Early, Sealed, Economic, NoneApplied
<1>8. Enrolled(id, c)
  BY <1>3, <1>6 DEF BattleOK, Enrolled, Early, Sealed
<1>9. RowsAreTrue(c) /\ RowsAreAll(c)
  <2>1. RowsAreTrue(b) /\ RowsAreAll(b) /\ ToSet(c.enrolled) = {}
    BY <1>3, <1>6 DEF BattleOK, Enrolled, Early, ToSet
  <2>2. CASE b.blocked
    <3>1. c.rows = <<>> /\ DOMAIN c.rows = {}
      BY <1>3, <1>6, <2>1, <2>2 DEF RowsAreAll, Gathering, Early
    <3> QED BY <1>6, <2>2, <3>1 DEF RowsAreTrue, RowsAreAll
  <2>3. CASE ~b.blocked
    <3>1. Scanned(c) = 0 /\ Scanned(b) = 0 /\ \A i \in DOMAIN b.rows : Loss(c, i) = Loss(b, i)
      BY <1>3, <1>6, <2>3 DEF Scanned, Loss
    <3>2. RowsAreTrue(c)
      BY <1>6, <2>1, <3>1 DEF RowsAreTrue
    <3>3. RowsAreAll(c)
      BY <1>6, <2>1, <2>3, <3>1 DEF RowsAreAll, Sealed
    <3> QED BY <3>2, <3>3
  <2> QED BY <2>2, <2>3
<1>10. /\ battle' = [battle EXCEPT ![id] = c] /\ UNCHANGED <<now, fleets, bodyLock>>
       /\ ownerSteps' \in 0 .. MaxOwnerSteps
  BY <1>2, <1>4 DEF SettleProduction, Advance, Inv
<1>11. BattleOK(id, c) /\ battle[id].phase \notin {0, 13} /\ battle[id].phase \in Early
  BY <1>1, <1>7, <1>8, <1>9 DEF BattleOK, Early
<1> QED BY <1>1, <1>6, <1>10, <1>11, StageStep

\* The header is written before anybody is enrolled.
LEMMA BeginStep ==
    ASSUME Inv, NEW id \in DOMAIN missions, BeginBattle(id)
    PROVE  Inv'
<1>1. id \in Ids /\ battle[id].phase = 1
  BY MissionIds DEF BeginBattle, Stage
<1>2. PICK b : b = battle[id]
  OBVIOUS
<1>3. b \in Battle /\ b.phase = 1 /\ BattleOK(id, b)
  BY <1>1, <1>2, BattleNow
<1>4. PICK c : c = [b EXCEPT !.phase = 2, !.request = "Requested"]
  OBVIOUS
<1>5. /\ c \in Battle /\ c.phase = 2 /\ c.blocked = b.blocked /\ c.job = b.job /\ c.request = "Requested"
      /\ c.cursor = b.cursor /\ c.linkedLength = b.linkedLength /\ c.stationedLength = b.stationedLength
      /\ c.enrolled = b.enrolled /\ c.rows = b.rows
      /\ c.application = b.application /\ c.next = b.next /\ c.result = b.result
  BY <1>3, <1>4 DEF Battle, Phases
<1>6. Progress(c)
  BY <1>3, <1>5 DEF BattleOK, Progress, Gathering, Early, Sealed, Economic, NoneApplied
<1>7. Scans(id, c)
  BY <1>3, <1>5, BattleConstants DEF BattleOK, Scans, Gathering, Early
<1>8. Enrolled(id, c)
  BY <1>3, <1>5 DEF BattleOK, Enrolled, Early, Sealed
<1>9. RowsAreTrue(c) /\ RowsAreAll(c)
  <2>1. RowsAreTrue(b) /\ RowsAreAll(b)
    BY <1>3 DEF BattleOK
  <2>2. b.cursor = 0 /\ ~b.blocked
    BY <1>3 DEF BattleOK, Scans, Progress
  <2>3. Scanned(c) = 0 /\ Scanned(b) = 0 /\ \A i \in DOMAIN b.rows : Loss(c, i) = Loss(b, i)
    BY <1>3, <1>5, <2>2 DEF Scanned, Loss
  <2>4. RowsAreTrue(c)
    BY <1>5, <2>1, <2>3 DEF RowsAreTrue
  <2>5. RowsAreAll(c)
    BY <1>3, <1>5, <2>1, <2>2, <2>3 DEF RowsAreAll, HasRow, Gathering, Early, Sealed
  <2> QED BY <2>4, <2>5
<1>10. /\ battle' = [battle EXCEPT ![id] = c] /\ UNCHANGED <<now, fleets, bodyLock>>
       /\ ownerSteps' \in 0 .. MaxOwnerSteps
  BY <1>2, <1>4 DEF BeginBattle, Advance, Inv
<1>11. BattleOK(id, c) /\ battle[id].phase \notin {0, 13} /\ battle[id].phase \in Early
  BY <1>1, <1>6, <1>7, <1>8, <1>9 DEF BattleOK, Early
<1> QED BY <1>1, <1>5, <1>10, <1>11, StageStep

-----------------------------------------------------------------------------
(* Enrolment *)

\* Rows that stand for different units.
Distinct(rows) ==
    \A i, j \in DOMAIN rows : rows[i].source = rows[j].source /\ rows[i].lane = rows[j].lane => i = j

\* What becomes of a battle when units are enrolled: n rows, and one more.
Gains(b, e, n, source, lane, count) ==
    /\ e \in Battle
    /\ e.phase = b.phase /\ e.cursor = b.cursor /\ e.blocked = b.blocked /\ e.job = b.job
    /\ e.linkedLength = b.linkedLength /\ e.stationedLength = b.stationedLength
    /\ e.request = b.request /\ e.enrolled = b.enrolled
    /\ e.application = b.application /\ e.next = b.next /\ e.result = b.result
    /\ n \in Nat /\ DOMAIN b.rows = 1 .. n
    /\ DOMAIN e.rows = (IF count = 0 THEN 1 .. n ELSE 1 .. n + 1)
    /\ \A i \in 1 .. n : e.rows[i] = b.rows[i]
    /\ count # 0 => /\ e.rows[n + 1].source = source /\ e.rows[n + 1].lane = lane
                    /\ e.rows[n + 1].count = count
    /\ Distinct(b.rows) /\ (\A i \in 1 .. n : b.rows[i].source # source \/ b.rows[i].lane # lane)
          => Distinct(e.rows)

\* Units that are there get a row of their own.
LEMMA UnitEnrolled ==
    ASSUME NEW b \in Battle, NEW source \in Nat, NEW lane \in 1 .. Lanes, NEW side \in {0, 1},
           NEW count \in Nat
    PROVE  Gains(b, EnrollUnit(b, source, lane, side, count), Len(b.rows), source, lane, count)
<1>0. PICK e, n : e = EnrollUnit(b, source, lane, side, count) /\ n = Len(b.rows)
  OBVIOUS
<1>1. PICK row : row = [source |-> source, lane |-> lane, side |-> side, count |-> count]
  OBVIOUS
<1>2. b.rows \in Seq(Row) /\ n \in Nat /\ DOMAIN b.rows = 1 .. n
  BY <1>0, RowTypes
<1>3. CASE count = 0
  <2>1. e = b
    BY <1>0, <1>3 DEF EnrollUnit
  <2> QED BY <1>0, <1>2, <1>3, <2>1 DEF Gains
<1>4. CASE count # 0
  <2>1. row \in Row /\ row.source = source /\ row.lane = lane /\ row.count = count
    BY <1>1, <1>4 DEF Row
  <2>2. PICK s : s = Append(b.rows, row)
    OBVIOUS
  <2>3. /\ s \in Seq(Row) /\ Len(s) = n + 1 /\ s[n + 1] = row /\ \A i \in 1 .. n : s[i] = b.rows[i]
    BY <1>2, <2>1, <2>2, AppendProperties
  <2>4. DOMAIN s = 1 .. n + 1
    BY <2>3, LenProperties
  <2>5. e = [b EXCEPT !.rows = s]
    BY <1>0, <1>1, <1>4, <2>2 DEF EnrollUnit
  <2>6. /\ e \in Battle /\ e.rows = s
        /\ e.phase = b.phase /\ e.cursor = b.cursor /\ e.blocked = b.blocked /\ e.job = b.job
        /\ e.linkedLength = b.linkedLength /\ e.stationedLength = b.stationedLength
        /\ e.request = b.request /\ e.enrolled = b.enrolled
        /\ e.application = b.application /\ e.next = b.next /\ e.result = b.result
    BY <2>3, <2>5 DEF Battle
  <2>7. ASSUME Distinct(b.rows), \A i \in 1 .. n : b.rows[i].source # source \/ b.rows[i].lane # lane
        PROVE  Distinct(s)
    <3>1. ASSUME NEW i \in 1 .. n + 1, NEW j \in 1 .. n + 1, s[i].source = s[j].source, s[i].lane = s[j].lane
          PROVE  i = j
      <4>1. CASE i \in 1 .. n /\ j \in 1 .. n
        BY <1>2, <2>3, <2>7, <3>1, <4>1 DEF Distinct
      <4>2. CASE i = n + 1 /\ j \in 1 .. n
        BY <2>1, <2>3, <2>7, <3>1, <4>2
      <4>3. CASE i \in 1 .. n /\ j = n + 1
        BY <2>1, <2>3, <2>7, <3>1, <4>3
      <4>4. CASE i = n + 1 /\ j = n + 1
        BY <4>4
      <4> QED BY <1>2, <4>1, <4>2, <4>3, <4>4
    <3> QED BY <2>4, <3>1 DEF Distinct
  <2> QED BY <1>0, <1>2, <1>4, <2>1, <2>3, <2>4, <2>6, <2>7 DEF Gains
<1> QED BY <1>3, <1>4

\* A lane with residents gets a row, with their number.
LEMMA ResidentsStep ==
    ASSUME Inv, NEW id \in DOMAIN missions, EnrollResidents(id)
    PROVE  Inv'
<1>1. id \in Ids /\ battle[id].phase = 2
  BY MissionIds DEF EnrollResidents, Stage
<1>2. PICK b : b = battle[id]
  OBVIOUS
<1>3. b \in Battle /\ b.phase = 2 /\ BattleOK(id, b)
  BY <1>1, <1>2, BattleNow
<1>4. PICK unit, count : unit = b.cursor + 1 /\ count = residents[unit]
  OBVIOUS
<1>5. /\ unit \in 1 .. Lanes /\ count \in Nat /\ Lanes \in Nat /\ b.cursor \in Nat /\ b.cursor < unit
      /\ ~b.blocked /\ b.next = 0 /\ b.enrolled = <<>> /\ ToSet(b.enrolled) = {} /\ Scanned(b) = b.cursor
  <2>1. b.cursor \in Nat /\ b.cursor < Lanes /\ Lanes \in Nat
    BY <1>3, BattleConstants DEF Battle, BattleOK, Scans
  <2>2. /\ ~b.blocked /\ b.next = 0 /\ b.enrolled = <<>> /\ Scanned(b) = b.cursor
    BY <1>3 DEF BattleOK, Progress, Enrolled, Gathering, Early, NoneApplied, Scanned
  <2> QED BY <1>4, <2>1, <2>2 DEF Inv, FleetTypes, ToSet
<1>6. PICK e, n : e = EnrollUnit(b, 0, unit, 1, count) /\ n = Len(b.rows)
  OBVIOUS
<1>7. PICK c : c = [e EXCEPT !.cursor = IF unit = Lanes THEN 0 ELSE unit, !.phase = IF unit = Lanes THEN 3 ELSE 2]
  OBVIOUS
<1>8. /\ e \in Battle
      /\ e.blocked = b.blocked /\ e.job = b.job
      /\ e.linkedLength = b.linkedLength /\ e.stationedLength = b.stationedLength
      /\ e.request = b.request /\ e.enrolled = b.enrolled
      /\ e.application = b.application /\ e.next = b.next /\ e.result = b.result
      /\ n \in Nat /\ DOMAIN b.rows = 1 .. n
      /\ DOMAIN e.rows = (IF count = 0 THEN 1 .. n ELSE 1 .. n + 1)
      /\ \A i \in 1 .. n : e.rows[i] = b.rows[i]
      /\ count # 0 => /\ e.rows[n + 1].source = 0 /\ e.rows[n + 1].lane = unit
                      /\ e.rows[n + 1].count = count
      /\ Distinct(b.rows) /\ (\A i \in 1 .. n : b.rows[i].source # 0 \/ b.rows[i].lane # unit)
            => Distinct(e.rows)
  <2>1. Gains(b, e, n, 0, unit, count)
    <3>1. 0 \in Nat /\ 1 \in {0, 1} /\ unit \in 1 .. Lanes /\ count \in Nat
      BY <1>5
    <3> QED BY <1>3, <1>6, <3>1, UnitEnrolled
  <2> QED BY <2>1 DEF Gains
<1>9. /\ c \in Battle /\ c.phase = (IF unit = Lanes THEN 3 ELSE 2)
      /\ c.cursor = (IF unit = Lanes THEN 0 ELSE unit)
      /\ c.rows = e.rows
      /\ c.blocked = e.blocked /\ c.job = e.job /\ c.request = e.request
      /\ c.linkedLength = e.linkedLength /\ c.stationedLength = e.stationedLength
      /\ c.enrolled = e.enrolled
      /\ c.application = e.application /\ c.next = e.next /\ c.result = e.result
  <2>1. PICK cursor, phase : /\ cursor = IF unit = Lanes THEN 0 ELSE unit
                             /\ phase = IF unit = Lanes THEN 3 ELSE 2
    OBVIOUS
  <2>2. cursor \in Nat /\ phase \in Phases
    BY <1>5, <2>1 DEF Phases
  <2>3. c = [e EXCEPT !.cursor = cursor, !.phase = phase]
    BY <1>7, <2>1
  <2>4. /\ c \in Battle /\ c.phase = phase /\ c.cursor = cursor /\ c.rows = e.rows
        /\ c.blocked = e.blocked /\ c.job = e.job /\ c.request = e.request
        /\ c.linkedLength = e.linkedLength /\ c.stationedLength = e.stationedLength
        /\ c.enrolled = e.enrolled
        /\ c.application = e.application /\ c.next = e.next /\ c.result = e.result
    BY <1>8, <2>2, <2>3 DEF Battle
  <2> QED BY <2>1, <2>4
<1>11. /\ c \in Battle /\ c.phase = (IF unit = Lanes THEN 3 ELSE 2)
       /\ c.cursor = (IF unit = Lanes THEN 0 ELSE unit)
       /\ c.blocked = b.blocked /\ c.job = b.job /\ c.request = b.request
       /\ c.linkedLength = b.linkedLength /\ c.stationedLength = b.stationedLength
       /\ c.enrolled = b.enrolled
       /\ c.application = b.application /\ c.next = b.next /\ c.result = b.result
  BY <1>8, <1>9
<1>12. Progress(c)
  BY <1>3, <1>11 DEF BattleOK, Progress, Gathering, Early, Sealed, Economic, NoneApplied
<1>13. Scans(id, c)
  BY <1>3, <1>5, <1>11 DEF BattleOK, Scans, Gathering, Early
<1>14. Enrolled(id, c)
  BY <1>3, <1>11 DEF BattleOK, Enrolled, Early, Sealed
<1>15. Scanned(c) = unit
  BY <1>5, <1>11 DEF Scanned
<1>17. /\ DOMAIN c.rows = (IF count = 0 THEN 1 .. n ELSE 1 .. n + 1)
       /\ \A i \in 1 .. n : c.rows[i] = b.rows[i]
       /\ count # 0 => /\ c.rows[n + 1].source = 0 /\ c.rows[n + 1].lane = unit
                       /\ c.rows[n + 1].count = count
  BY <1>8, <1>9
<1>18. ASSUME NEW i \in 1 .. n
       PROVE  /\ b.rows[i].source = 0 /\ b.rows[i].lane \in Nat /\ b.rows[i].lane <= b.cursor
              /\ Units(b.rows[i].source, b.rows[i].lane) = b.rows[i].count
  <2>1. Loss(b, i) = b.rows[i].count
    BY <1>5 DEF Loss
  <2>2. b.rows[i].lane \in Nat
    BY <1>3, <1>8, RowTypes
  <2> QED BY <1>3, <1>5, <1>8, <2>1, <2>2 DEF BattleOK, RowsAreTrue
<1>19. RowsAreTrue(c)
  <2>1. \A i \in DOMAIN c.rows : Loss(c, i) = c.rows[i].count
    BY <1>5, <1>8, <1>11, <1>17 DEF Loss
  <2>2. Units(0, unit) = count
    BY <1>4 DEF Units
  <2>3. ASSUME NEW i \in DOMAIN c.rows
        PROVE  /\ c.rows[i].source = 0 /\ c.rows[i].lane <= unit
               /\ Units(c.rows[i].source, c.rows[i].lane) = c.rows[i].count
    <3>1. CASE i \in 1 .. n
      BY <1>5, <1>17, <1>18, <3>1
    <3>2. CASE i \notin 1 .. n
      <4>1. count # 0 /\ i = n + 1
        BY <1>8, <1>17, <3>2
      <4> QED BY <1>5, <1>17, <2>2, <4>1
    <3> QED BY <3>1, <3>2
  <2>4. Distinct(c.rows)
    <3>1. Distinct(b.rows)
      BY <1>3 DEF BattleOK, RowsAreTrue, Distinct
    <3>2. \A i \in 1 .. n : b.rows[i].lane # unit
      BY <1>5, <1>18
    <3> QED BY <1>8, <1>9, <3>1, <3>2
  <2> QED BY <1>15, <2>1, <2>3, <2>4 DEF RowsAreTrue, Distinct
<1>20. RowsAreAll(c)
  <2>1. ASSUME NEW l \in 1 .. unit, residents[l] > 0 PROVE HasRow(c, 0, l)
    <3>1. CASE l = unit
      <4>1. count # 0 /\ n + 1 \in DOMAIN c.rows
        BY <1>4, <1>5, <1>8, <1>17, <2>1, <3>1
      <4> QED BY <1>17, <3>1, <4>1 DEF HasRow
    <3>2. CASE l # unit
      <4>1. l \in 1 .. Scanned(b)
        BY <1>4, <1>5, <3>2
      <4>2. HasRow(b, 0, l)
        BY <1>3, <1>5, <2>1, <4>1 DEF BattleOK, RowsAreAll, Gathering, Early
      <4> QED BY <1>8, <1>17, <4>2 DEF HasRow
    <3> QED BY <3>1, <3>2
  <2>2. c.phase \notin {4, 5} \cup Sealed
    BY <1>11 DEF Sealed
  <2> QED BY <1>5, <1>11, <1>15, <2>1, <2>2 DEF RowsAreAll
<1>21. /\ battle' = [battle EXCEPT ![id] = c] /\ UNCHANGED <<now, fleets, bodyLock>>
       /\ ownerSteps' \in 0 .. MaxOwnerSteps
  BY <1>2, <1>4, <1>6, <1>7 DEF EnrollResidents, Advance, Inv
<1>22. BattleOK(id, c) /\ battle[id].phase \notin {0, 13} /\ battle[id].phase \in Early
  BY <1>1, <1>12, <1>13, <1>14, <1>19, <1>20 DEF BattleOK, Early
<1> QED BY <1>1, <1>11, <1>21, <1>22, StageStep

\* The rows count all residents and every fleet that is enrolled.
Whole(b) ==
    IF b.blocked THEN b.rows = <<>>
    ELSE /\ \A l \in 1 .. Lanes : residents[l] > 0 => HasRow(b, 0, l)
         /\ \A m \in ToSet(b.enrolled) : missions[m].ships > 0 => HasRow(b, m, 1)

\* A battle whose roster may have grown.
Grown(b, e) ==
    /\ e \in Battle
    /\ e.phase = b.phase /\ e.cursor = b.cursor /\ e.blocked = b.blocked /\ e.job = b.job
    /\ e.linkedLength = b.linkedLength /\ e.stationedLength = b.stationedLength
    /\ e.request = b.request
    /\ e.application = b.application /\ e.next = b.next /\ e.result = b.result
    /\ IsInjective(e.enrolled) /\ ToSet(e.enrolled) \subseteq DOMAIN missions
    /\ RowsAreTrue(e) /\ Whole(e)

\* A fleet that is enrolled is listed once, and has a row if it has ships.
LEMMA MissionEnrolled ==
    ASSUME Inv, NEW b \in Battle, NEW m \in DOMAIN missions, Grown(b, b),
           b.phase \in {3, 4, 5}, b.next = 0, b.blocked <=> b.job = "Bypassed"
    PROVE  LET e == EnrollMission(b, m) IN
           /\ Grown(b, e) /\ ToSet(e.enrolled) = ToSet(b.enrolled) \cup {m}
           /\ b.rows # <<>> \/ (~b.blocked /\ b.enrolled = <<>> /\ missions[m].ships > 0) => e.rows # <<>>
<1>1. PICK e : e = EnrollMission(b, m)
  OBVIOUS
<1>2. b.enrolled \in Seq(Nat) /\ m \in Nat /\ m # 0 /\ missions[m].ships \in Nat
  BY MissionIds DEF Battle, Mission
<1>3. CASE Contains(b.enrolled, m)
  <2>1. e = b /\ m \in ToSet(b.enrolled)
    BY <1>1, <1>2, <1>3, ContainsIsMember DEF EnrollMission
  <2>2. b.enrolled # <<>>
    BY <2>1 DEF ToSet
  <2> QED BY <1>1, <2>1, <2>2
<1>4. CASE ~Contains(b.enrolled, m)
  <2>1. m \notin ToSet(b.enrolled)
    BY <1>2, <1>4, ContainsIsMember
  <2>2. PICK s : s = Append(b.enrolled, m)
    OBVIOUS
  <2>3. s \in Seq(Nat) /\ ToSet(s) = ToSet(b.enrolled) \cup {m} /\ IsInjective(s)
        /\ ToSet(s) \subseteq DOMAIN missions
    <3>1. IsInjective(b.enrolled) /\ ToSet(b.enrolled) \subseteq DOMAIN missions
      BY DEF Grown
    <3>2. s \in Seq(Nat)
      BY <1>2, <2>2, AppendProperties
    <3>3. ToSet(s) = ToSet(b.enrolled) \cup {m} /\ IsInjective(s)
      BY <1>2, <2>1, <2>2, <3>1, AppendedSet
    <3> QED BY <3>1, <3>2, <3>3
  <2>4. PICK l : l = [b EXCEPT !.enrolled = s]
    OBVIOUS
  <2>5. /\ l \in Battle /\ l.enrolled = s /\ l.rows = b.rows
        /\ l.phase = b.phase /\ l.cursor = b.cursor /\ l.blocked = b.blocked /\ l.job = b.job
        /\ l.linkedLength = b.linkedLength /\ l.stationedLength = b.stationedLength
        /\ l.request = b.request
        /\ l.application = b.application /\ l.next = b.next /\ l.result = b.result
    BY <2>3, <2>4 DEF Battle
  <2>6. Scanned(b) = Lanes /\ Scanned(l) = Lanes
    BY <2>5 DEF Scanned
  <2>7. CASE b.job = "Bypassed"
    <3>1. e = l
      BY <1>1, <1>4, <2>2, <2>4, <2>7 DEF EnrollMission
    <3>2. l.rows = <<>> /\ DOMAIN l.rows = {}
      BY <2>5, <2>7 DEF Grown, Whole
    <3>3. RowsAreTrue(l) /\ Whole(l)
      BY <2>5, <2>7, <3>2 DEF RowsAreTrue, Whole
    <3> QED BY <1>1, <2>3, <2>5, <2>7, <3>1, <3>2, <3>3 DEF Grown
  <2>8. CASE b.job # "Bypassed"
    <3>1. PICK side, count, n :
              /\ side = (IF missions[m].kind \in {"Attack", "AcsAttack"} THEN 0 ELSE 1)
              /\ count = missions[m].ships /\ n = Len(l.rows)
      OBVIOUS
    <3>2. e = EnrollUnit(l, m, 1, side, count)
      BY <1>1, <1>4, <2>2, <2>4, <2>8, <3>1 DEF EnrollMission
    <3>3. Gains(l, e, n, m, 1, count)
      <4>1. 1 \in 1 .. Lanes /\ side \in {0, 1} /\ count \in Nat
        BY <1>2, <3>1, BattleConstants
      <4> QED BY <1>2, <2>5, <3>1, <3>2, <4>1, UnitEnrolled
    <3>4. /\ e \in Battle /\ e.enrolled = s
          /\ e.phase = b.phase /\ e.cursor = b.cursor /\ e.blocked = b.blocked /\ e.job = b.job
          /\ e.linkedLength = b.linkedLength /\ e.stationedLength = b.stationedLength
          /\ e.request = b.request
          /\ e.application = b.application /\ e.next = b.next /\ e.result = b.result
      BY <2>5, <3>3 DEF Gains
    <3>5. /\ n \in Nat /\ DOMAIN b.rows = 1 .. n
          /\ DOMAIN e.rows = (IF count = 0 THEN 1 .. n ELSE 1 .. n + 1)
          /\ \A i \in 1 .. n : e.rows[i] = b.rows[i]
          /\ count # 0 => e.rows[n + 1].source = m /\ e.rows[n + 1].lane = 1 /\ e.rows[n + 1].count = count
      BY <2>5, <3>3 DEF Gains
    <3>6. ~b.blocked /\ RowsAreTrue(b) /\ Whole(b)
      BY <2>8 DEF Grown
    <3>7. \A i \in 1 .. n : b.rows[i].source # m
      BY <1>2, <2>1, <3>5, <3>6 DEF RowsAreTrue
    <3>8. \A i \in DOMAIN e.rows : Loss(e, i) = e.rows[i].count
      BY <3>4, <3>5 DEF Loss
    <3>9. Scanned(e) = Lanes
      BY <3>4 DEF Scanned
    <3>10. ASSUME NEW i \in DOMAIN e.rows
           PROVE  /\ \/ e.rows[i].source = 0 /\ e.rows[i].lane <= Scanned(e)
                     \/ e.rows[i].source \in ToSet(e.enrolled) /\ e.rows[i].lane = 1
                  /\ Units(e.rows[i].source, e.rows[i].lane) = e.rows[i].count
      <4>1. CASE i \in 1 .. n
        <5>1. Loss(b, i) = b.rows[i].count
          BY <3>5, <4>1 DEF Loss
        <5> QED BY <2>3, <2>6, <3>4, <3>5, <3>6, <3>9, <4>1, <5>1 DEF RowsAreTrue
      <4>2. CASE i \notin 1 .. n
        <5>1. count # 0 /\ i = n + 1
          BY <3>5, <4>2
        <5>2. e.rows[i].source = m /\ e.rows[i].lane = 1 /\ e.rows[i].count = count
          BY <3>5, <5>1
        <5>3. Units(m, 1) = count
          BY <1>2, <3>1 DEF Units
        <5> QED BY <2>3, <3>4, <5>2, <5>3
      <4> QED BY <4>1, <4>2
    <3>11. Distinct(e.rows)
      <4>1. Distinct(l.rows)
        BY <2>5, <3>6 DEF RowsAreTrue, Distinct
      <4> QED BY <2>5, <3>3, <3>7, <4>1 DEF Gains
    <3>12. RowsAreTrue(e)
      BY <3>8, <3>10, <3>11 DEF RowsAreTrue, Distinct
    <3>13. Whole(e)
      <4>1. ASSUME NEW source, NEW lane, HasRow(b, source, lane) PROVE HasRow(e, source, lane)
        BY <3>5, <4>1 DEF HasRow
      <4>2. count # 0 => HasRow(e, m, 1)
        BY <3>5 DEF HasRow
      <4> QED BY <1>2, <2>3, <3>1, <3>4, <3>6, <4>1, <4>2 DEF Whole
    <3>14. b.rows # <<>> \/ missions[m].ships > 0 => e.rows # <<>>
      <4>1. e.rows = <<>> => DOMAIN e.rows = {}
        OBVIOUS
      <4>2. b.rows # <<>> => n # 0
        BY <2>5, <3>1, RowTypes, EmptySeq
      <4> QED BY <1>2, <3>1, <3>5, <4>1, <4>2
    <3> QED BY <1>1, <2>3, <3>4, <3>12, <3>13, <3>14 DEF Grown
  <2> QED BY <2>7, <2>8
<1> QED BY <1>3, <1>4

\* The battle that enrols fleets has a roster that may grow.
LEMMA GrowsNow ==
    ASSUME Inv, NEW id \in Ids, NEW b, b = battle[id], b.phase \in {3, 4, 5}
    PROVE  /\ b \in Battle /\ BattleOK(id, b) /\ Grown(b, b) /\ b.next = 0
           /\ b.blocked <=> b.job = "Bypassed"
           /\ b.phase # 3 /\ ~b.blocked => b.rows # <<>>
           /\ b.linkedLength = Len(linked[id]) /\ b.stationedLength = Len(stationed)
           /\ id \in DOMAIN missions /\ missions[id].kind = "Attack" /\ id \in Attacks
<1>1. /\ b \in Battle /\ BattleOK(id, b) /\ id \in DOMAIN missions /\ missions[id].kind = "Attack"
  BY BattleNow
<1>2. b.phase \in Gathering
  BY DEF Gathering, Early
<1>3. /\ b.next = 0 /\ b.job = (IF b.blocked THEN "Bypassed" ELSE "Preparing")
      /\ b.linkedLength = Len(linked[id]) /\ b.stationedLength = Len(stationed)
  BY <1>1, <1>2 DEF BattleOK, Progress, NoneApplied, Scans
<1>4. b.blocked \in BOOLEAN
  BY <1>1 DEF Battle
<1>5. Scanned(b) = Lanes
  BY DEF Scanned
<1>6. Whole(b) /\ (b.phase # 3 /\ ~b.blocked => b.rows # <<>>)
  BY <1>1, <1>2, <1>3, <1>5 DEF BattleOK, RowsAreAll, Whole
<1>7. Grown(b, b)
  BY <1>1, <1>6 DEF BattleOK, Enrolled, Grown
<1> QED BY <1>1, <1>3, <1>4, <1>6, <1>7 DEF Attacks, Of

\* An enrolment that has looked as far as its cursor says.
LEMMA EnrolStep ==
    ASSUME Inv, NEW id \in Ids, NEW b, b = battle[id], b.phase \in {3, 4, 5},
           NEW e, Grown(b, e), b.blocked \/ e.rows # <<>>,
           NEW cursor \in Nat, NEW phase \in {4, 5},
           NEW c, c = [e EXCEPT !.cursor = cursor, !.phase = phase],
           phase = 4 => cursor <= Len(linked[id]), phase = 5 => cursor <= Len(stationed),
           \A m \in DOMAIN missions :
              m \in ToSet(e.enrolled) <=> m = id \/ (Member(id, m) /\ LookedAt(id, c, m)),
           battle' = [battle EXCEPT ![id] = c], UNCHANGED <<now, fleets, bodyLock, ownerSteps>>
    PROVE  Inv'
<1>1. /\ b \in Battle /\ BattleOK(id, b) /\ b.next = 0
      /\ b.linkedLength = Len(linked[id]) /\ b.stationedLength = Len(stationed)
  BY GrowsNow
<1>2. /\ c \in Battle /\ c.phase = phase /\ c.cursor = cursor
      /\ c.enrolled = e.enrolled /\ c.rows = e.rows
      /\ c.blocked = b.blocked /\ c.job = b.job
      /\ c.linkedLength = b.linkedLength /\ c.stationedLength = b.stationedLength
      /\ c.request = b.request
      /\ c.application = b.application /\ c.next = b.next /\ c.result = b.result
  BY DEF Grown, Battle, Phases
<1>3. Progress(c)
  BY <1>1, <1>2 DEF BattleOK, Progress, Gathering, Early, Sealed, Economic, NoneApplied
<1>4. Scans(id, c)
  BY <1>1, <1>2 DEF Scans
<1>5. Enrolled(id, c)
  BY <1>2 DEF Grown, Enrolled, Early
<1>6. Scanned(c) = Lanes /\ Scanned(e) = Lanes
  BY <1>2 DEF Scanned, Grown
<1>7. RowsAreTrue(c)
  <2>1. \A i \in DOMAIN e.rows : Loss(c, i) = Loss(e, i)
    BY <1>2 DEF Loss, Grown
  <2> QED BY <1>2, <1>6, <2>1 DEF Grown, RowsAreTrue
<1>8. RowsAreAll(c)
  BY <1>2, <1>6 DEF Grown, Whole, RowsAreAll, HasRow
<1>9. BattleOK(id, c) /\ battle[id].phase \notin {0, 13} /\ c.phase \notin Early
      /\ ownerSteps' \in 0 .. MaxOwnerSteps
  BY <1>2, <1>3, <1>4, <1>5, <1>7, <1>8 DEF BattleOK, Early, Inv
<1> QED BY <1>2, <1>9, StageStep

\* The leader is the first one.
LEMMA LeaderStep ==
    ASSUME Inv, NEW id \in DOMAIN missions, EnrollLeader(id)
    PROVE  Inv'
<1>1. id \in Ids /\ battle[id].phase = 3
  BY MissionIds DEF EnrollLeader, Stage
<1>2. PICK b : b = battle[id]
  OBVIOUS
<1>3. /\ b \in Battle /\ BattleOK(id, b) /\ Grown(b, b) /\ b.next = 0 /\ b.phase = 3
      /\ b.blocked <=> b.job = "Bypassed"
      /\ id \in Attacks
  BY <1>1, <1>2, GrowsNow
<1>4. b.enrolled = <<>> /\ ToSet(b.enrolled) = {} /\ b.cursor = 0
  BY <1>3 DEF BattleOK, Enrolled, Scans, Early, ToSet
<1>5. missions[id].ships > 0
  BY <1>1, <1>3 DEF Inv, Armed, Early
<1>6. PICK e : e = EnrollMission(b, id)
  OBVIOUS
<1>7. Grown(b, e) /\ ToSet(e.enrolled) = {id} /\ (b.blocked \/ e.rows # <<>>)
  <2>1. b.phase \in {3, 4, 5}
    BY <1>3
  <2> QED BY <1>3, <1>4, <1>5, <1>6, <2>1, MissionEnrolled
<1>8. PICK c : c = [e EXCEPT !.cursor = 0, !.phase = 4]
  OBVIOUS
<1>9. c.phase = 4 /\ c.cursor = 0 /\ [e EXCEPT !.phase = 4] = c
  BY <1>3, <1>4, <1>7, <1>8 DEF Grown, Battle
<1>10. \A m \in DOMAIN missions :
          m \in ToSet(e.enrolled) <=> m = id \/ (Member(id, m) /\ LookedAt(id, c, m))
  BY <1>7, <1>9 DEF LookedAt
<1>11. battle' = [battle EXCEPT ![id] = c] /\ UNCHANGED <<now, fleets, bodyLock, ownerSteps>>
  BY <1>2, <1>6, <1>9 DEF EnrollLeader, Advance
<1>12. Len(linked[id]) \in Nat
  BY <1>1, LenProperties DEF Inv, FleetTypes
<1> QED
  <2>1. PICK cursor \in Nat, phase \in {4, 5} : cursor = 0 /\ phase = 4
    OBVIOUS
  <2>2. /\ phase = 4 => cursor <= Len(linked[id])
        /\ phase = 5 => cursor <= Len(stationed)
        /\ c = [e EXCEPT !.cursor = cursor, !.phase = phase]
        /\ b.phase \in {3, 4, 5}
    BY <1>3, <1>8, <1>12, <2>1
  <2> QED BY <1>1, <1>2, <1>7, <1>10, <1>11, <2>1, <2>2, EnrolStep

\* What a list holds, by position.
LEMMA ListEntry ==
    ASSUME NEW s \in Seq(Nat)
    PROVE  /\ Len(s) \in Nat
           /\ \A i \in 1 .. Len(s) : s[i] \in ToSet(s)
           /\ \A m \in ToSet(s) : \E i \in 1 .. Len(s) : s[i] = m
<1>1. DOMAIN s = 1 .. Len(s) /\ Len(s) \in Nat
  BY LenProperties
<1> QED BY <1>1 DEF ToSet

\* Linked fleets that fit are enrolled one by one, and none is passed over.
LEMMA LinkedStep ==
    ASSUME Inv, NEW id \in DOMAIN missions, EnrollLinked(id)
    PROVE  Inv'
<1>1. id \in Ids /\ battle[id].phase = 4
  BY MissionIds DEF EnrollLinked, Stage
<1>2. PICK b, list : b = battle[id] /\ list = linked[id]
  OBVIOUS
<1>3. /\ b \in Battle /\ BattleOK(id, b) /\ Grown(b, b) /\ b.next = 0 /\ b.phase = 4
      /\ b.blocked <=> b.job = "Bypassed"
      /\ b.blocked \/ b.rows # <<>>
      /\ b.linkedLength = Len(list)
      /\ id \in Attacks
  BY <1>1, <1>2, GrowsNow
<1>4. /\ list \in Seq(Nat) /\ Len(list) \in Nat /\ ToSet(list) \subseteq DOMAIN missions
      /\ \A i \in 1 .. Len(list) : list[i] \in DOMAIN missions /\ list[i] # id
  <2>1. list \in Seq(Nat) /\ ToSet(list) = {m \in Of(AcsKinds) : missions[m].leader = id}
    BY <1>1, <1>2 DEF Inv, FleetTypes, ListsOK
  <2>2. \A m \in ToSet(list) : m \in DOMAIN missions /\ m # id
    BY <1>3, <2>1 DEF Of, AcsKinds, Attacks
  <2> QED BY <2>1, <2>2, ListEntry
<1>5. b.cursor \in Nat /\ b.cursor <= Len(list)
  BY <1>3 DEF Battle, BattleOK, Scans
<1>6. PICK end : end = Min({b.cursor + LinkedScan, b.linkedLength})
  OBVIOUS
<1>7. end \in Nat /\ b.cursor <= end /\ end <= Len(list)
  <2>1. PICK S : S = {b.cursor + LinkedScan, Len(list)}
    OBVIOUS
  <2>2. S \subseteq Nat /\ S # {} /\ LinkedScan \in Nat
    BY <1>4, <1>5, <2>1, BattleConstants, SMTT(30)
  <2>3. end = Min(S)
    BY <1>3, <1>6, <2>1
  <2>4. end \in S /\ \A n \in S : end <= n
    BY <2>2, <2>3, MinIsLeast
  <2> QED BY <1>4, <1>5, <2>1, <2>2, <2>4
<1>8. PICK found : found = {i \in b.cursor + 1 .. end :
                                ~Contains(b.enrolled, list[i]) /\ Member(id, list[i])}
  OBVIOUS
<1>9. PICK stop : stop = IF found = {} THEN end ELSE Min(found)
  OBVIOUS
<1>10. /\ stop \in Nat /\ b.cursor <= stop /\ stop <= end
       /\ found # {} => stop \in found
       /\ \A i \in found : stop <= i
  <2>1. CASE found = {}
    BY <1>7, <1>9, <2>1
  <2>2. CASE found # {}
    <3>1. found \subseteq Nat
      BY <1>5, <1>7, <1>8
    <3>2. stop \in found /\ \A i \in found : stop <= i
      BY <1>9, <2>2, <3>1, MinIsLeast
    <3> QED BY <1>5, <1>7, <1>8, <2>2, <3>2
  <2> QED BY <2>1, <2>2
<1>11. PICK e : e = IF found = {} THEN b ELSE EnrollMission(b, list[stop])
  OBVIOUS
<1>12. /\ Grown(b, e) /\ (b.blocked \/ e.rows # <<>>)
       /\ ToSet(e.enrolled) = IF found = {} THEN ToSet(b.enrolled) ELSE ToSet(b.enrolled) \cup {list[stop]}
  <2>1. CASE found = {}
    BY <1>3, <1>11, <2>1
  <2>2. CASE found # {}
    <3>1. PICK m : m = list[stop]
      OBVIOUS
    <3>2. m \in DOMAIN missions
      BY <1>4, <1>5, <1>7, <1>10, <1>8, <2>2, <3>1
    <3>3. b.phase \in {3, 4, 5} /\ e = EnrollMission(b, m)
      BY <1>3, <1>11, <2>2, <3>1
    <3>4. /\ Grown(b, e) /\ ToSet(e.enrolled) = ToSet(b.enrolled) \cup {m}
          /\ b.rows # <<>> => e.rows # <<>>
      BY <1>3, <3>2, <3>3, MissionEnrolled
    <3> QED BY <1>3, <2>2, <3>1, <3>4
  <2> QED BY <2>1, <2>2
<1>13. PICK cursor, phase : /\ cursor = IF stop = b.linkedLength THEN 0 ELSE stop
                            /\ phase = IF stop = b.linkedLength THEN 5 ELSE 4
  OBVIOUS
<1>14. PICK c : c = [e EXCEPT !.cursor = cursor, !.phase = phase]
  OBVIOUS
<1>15. c.phase = phase /\ c.cursor = cursor
  BY <1>12, <1>14 DEF Grown, Battle
<1>16. ASSUME NEW m \in DOMAIN missions
       PROVE  LookedAt(id, c, m) /\ Member(id, m) <=> Member(id, m) /\ \E i \in 1 .. stop : list[i] = m
  <2>1. CASE stop = Len(list)
    <3>1. phase = 5 /\ cursor = 0
      BY <1>3, <1>13, <2>1
    <3>2. LookedAt(id, c, m) <=> m \in ToSet(list)
      BY <1>2, <1>15, <3>1 DEF LookedAt
    <3> QED BY <1>4, <2>1, <3>2, ListEntry
  <2>2. CASE stop # Len(list)
    <3>1. phase = 4 /\ cursor = stop
      BY <1>3, <1>13, <2>2
    <3> QED BY <1>2, <1>15, <3>1 DEF LookedAt
  <2> QED BY <2>1, <2>2
<1>17. ASSUME NEW m \in DOMAIN missions
       PROVE  m \in ToSet(b.enrolled) <=>
                  m = id \/ (Member(id, m) /\ \E i \in 1 .. b.cursor : list[i] = m)
  <2>1. LookedAt(id, b, m) <=> \E i \in 1 .. b.cursor : list[i] = m
    BY <1>2, <1>3 DEF LookedAt
  <2> QED BY <1>3, <2>1 DEF BattleOK, Enrolled
<1>18. ASSUME NEW m \in DOMAIN missions
       PROVE  m \in ToSet(e.enrolled) <=>
                  m = id \/ (Member(id, m) /\ \E i \in 1 .. stop : list[i] = m)
  <2>1. ASSUME m \in ToSet(e.enrolled), m # id
        PROVE  Member(id, m) /\ \E i \in 1 .. stop : list[i] = m
    <3>1. CASE m \in ToSet(b.enrolled)
      <4>1. PICK i \in 1 .. b.cursor : list[i] = m
        BY <1>17, <2>1, <3>1
      <4>2. i \in 1 .. stop
        BY <1>5, <1>10
      <4> QED BY <1>17, <2>1, <3>1, <4>1, <4>2
    <3>2. CASE m \notin ToSet(b.enrolled)
      <4>1. found # {} /\ m = list[stop]
        BY <1>12, <2>1, <3>2
      <4>2. stop \in found /\ stop \in 1 .. stop
        BY <1>5, <1>8, <1>10, <4>1
      <4> QED BY <1>8, <4>1, <4>2
    <3> QED BY <3>1, <3>2
  <2>2. ASSUME Member(id, m), NEW i \in 1 .. stop, list[i] = m
        PROVE  m \in ToSet(e.enrolled)
    <3>1. ToSet(b.enrolled) \subseteq ToSet(e.enrolled)
      BY <1>12
    <3>2. CASE i <= b.cursor
      <4>1. i \in 1 .. b.cursor
        BY <1>5, <1>10, <3>2
      <4> QED BY <1>17, <2>2, <3>1, <4>1
    <3>3. CASE ~(i <= b.cursor)
      <4>1. i \in b.cursor + 1 .. end
        BY <1>5, <1>7, <1>10, <3>3
      <4>2. CASE Contains(b.enrolled, m)
        <5>1. b.enrolled \in Seq(Nat)
          BY <1>3 DEF Battle
        <5> QED BY <3>1, <4>2, <5>1, ContainsIsMember
      <4>3. CASE ~Contains(b.enrolled, m)
        <5>1. i \in found
          BY <1>8, <2>2, <4>1, <4>3
        <5>2. i = stop
          BY <1>10, <5>1
        <5> QED BY <1>12, <2>2, <5>1, <5>2
      <4> QED BY <4>2, <4>3
    <3> QED BY <3>2, <3>3
  <2>3. id \in ToSet(e.enrolled)
    BY <1>12, <1>17
  <2> QED BY <2>1, <2>2, <2>3
<1>19. \A m \in DOMAIN missions :
          m \in ToSet(e.enrolled) <=> m = id \/ (Member(id, m) /\ LookedAt(id, c, m))
  BY <1>16, <1>18
<1>20. battle' = [battle EXCEPT ![id] = c] /\ UNCHANGED <<now, fleets, bodyLock, ownerSteps>>
  <2>1. found = {i \in b.cursor + 1 .. end :
                    ~Contains(b.enrolled, linked[id][i])
                        /\ (JoinedAttack(id, linked[id][i]) \/ QualifiedDefender(id, linked[id][i]))}
    BY <1>2, <1>8 DEF Member
  <2> QED BY <1>2, <1>6, <1>9, <1>11, <1>13, <1>14, <2>1 DEF EnrollLinked, Advance
<1>21. /\ cursor \in Nat /\ phase \in {4, 5}
       /\ phase = 4 => cursor <= Len(linked[id])
       /\ phase = 5 => cursor <= Len(stationed)
       /\ b.phase \in {3, 4, 5}
  <2>1. Len(stationed) \in Nat
    BY LenProperties DEF Inv, FleetTypes
  <2> QED BY <1>2, <1>3, <1>4, <1>7, <1>10, <1>13, <2>1
<1> QED BY <1>1, <1>2, <1>12, <1>14, <1>19, <1>20, <1>21, EnrolStep

\* Every stationed fleet that qualifies is enrolled.
LEMMA StationedStep ==
    ASSUME Inv, NEW id \in DOMAIN missions, EnrollStationed(id)
    PROVE  Inv'
<1>1. id \in Ids /\ battle[id].phase = 5 /\ battle[id].cursor < Len(stationed)
  BY MissionIds DEF EnrollStationed, Stage
<1>2. PICK b, held : b = battle[id] /\ held = stationed[b.cursor + 1]
  OBVIOUS
<1>3. /\ b \in Battle /\ BattleOK(id, b) /\ Grown(b, b) /\ b.next = 0 /\ b.phase = 5
      /\ b.blocked <=> b.job = "Bypassed"
      /\ b.blocked \/ b.rows # <<>>
      /\ b.stationedLength = Len(stationed)
      /\ id \in Attacks
  BY <1>1, <1>2, GrowsNow
<1>4. PICK k : k = b.cursor + 1
  OBVIOUS
<1>5. /\ b.cursor \in Nat /\ k \in 1 .. Len(stationed) /\ Len(stationed) \in Nat
      /\ stationed \in Seq(Nat)
  <2>1. stationed \in Seq(Nat) /\ Len(stationed) \in Nat
    BY LenProperties DEF Inv, FleetTypes
  <2>2. b.cursor \in Nat
    BY <1>3 DEF Battle
  <2> QED BY <1>1, <1>2, <1>4, <2>1, <2>2
<1>6. held \in DOMAIN missions /\ missions[held].kind = "DefenseHold"
  <2>1. held \in ToSet(stationed)
    BY <1>2, <1>4, <1>5, ListEntry
  <2> QED BY <2>1 DEF Inv, ListsOK, Holds, Of
<1>7. Member(id, held) <=> QualifiedDefender(id, held)
  BY <1>6 DEF Member, JoinedAttack
<1>8. PICK e : e = IF Member(id, held) THEN EnrollMission(b, held) ELSE b
  OBVIOUS
<1>9. /\ Grown(b, e) /\ (b.blocked \/ e.rows # <<>>)
      /\ ToSet(e.enrolled) = IF Member(id, held) THEN ToSet(b.enrolled) \cup {held} ELSE ToSet(b.enrolled)
  <2>1. CASE ~Member(id, held)
    BY <1>3, <1>8, <2>1
  <2>2. CASE Member(id, held)
    <3>1. b.phase \in {3, 4, 5} /\ e = EnrollMission(b, held)
      BY <1>3, <1>8, <2>2
    <3>2. /\ Grown(b, e) /\ ToSet(e.enrolled) = ToSet(b.enrolled) \cup {held}
          /\ b.rows # <<>> => e.rows # <<>>
      BY <1>3, <1>6, <3>1, MissionEnrolled
    <3> QED BY <1>3, <2>2, <3>2
  <2> QED BY <2>1, <2>2
<1>10. e \in Battle /\ e.cursor = b.cursor /\ e.phase = 5
  BY <1>3, <1>9 DEF Grown
<1>11. PICK c : c = [e EXCEPT !.cursor = k, !.phase = 5]
  OBVIOUS
<1>12. c.phase = 5 /\ c.cursor = k /\ c = [e EXCEPT !.cursor = @ + 1]
  BY <1>4, <1>10, <1>11 DEF Battle
<1>13. ASSUME NEW m \in DOMAIN missions
       PROVE  m \in ToSet(e.enrolled) <=> m = id \/ (Member(id, m) /\ LookedAt(id, c, m))
  <2>1. LookedAt(id, b, m) <=> m \in ToSet(linked[id]) \/ \E i \in 1 .. b.cursor : stationed[i] = m
    BY <1>3 DEF LookedAt
  <2>2. LookedAt(id, c, m) <=> m \in ToSet(linked[id]) \/ \E i \in 1 .. k : stationed[i] = m
    BY <1>12 DEF LookedAt
  <2>3. (\E i \in 1 .. k : stationed[i] = m) <=> m = held \/ \E i \in 1 .. b.cursor : stationed[i] = m
    BY <1>2, <1>4, <1>5
  <2>4. m \in ToSet(b.enrolled) <=> m = id \/ (Member(id, m) /\ LookedAt(id, b, m))
    BY <1>3 DEF BattleOK, Enrolled
  <2> QED BY <1>9, <2>1, <2>2, <2>3, <2>4
<1>14. battle' = [battle EXCEPT ![id] = c] /\ UNCHANGED <<now, fleets, bodyLock, ownerSteps>>
  BY <1>2, <1>7, <1>8, <1>12 DEF EnrollStationed, Advance
<1> QED
  <2>1. PICK phase \in {4, 5} : phase = 5
    OBVIOUS
  <2>2. /\ k \in Nat
        /\ phase = 4 => k <= Len(linked[id])
        /\ phase = 5 => k <= Len(stationed)
        /\ c = [e EXCEPT !.cursor = k, !.phase = phase]
        /\ b.phase \in {3, 4, 5}
    BY <1>3, <1>5, <1>11, <2>1
  <2> QED BY <1>1, <1>2, <1>9, <1>13, <1>14, <2>1, <2>2, EnrolStep

-----------------------------------------------------------------------------
(* From the seal to the economics *)

\* A step of a battle whose roster is sealed, and stays.
LEMMA LateStep ==
    ASSUME Inv, NEW id \in Ids, NEW b, b = battle[id], b.phase \in Sealed \cup Economic,
           NEW c \in Battle, c.phase \in Sealed \cup Economic, c.phase \in Sealed => b.phase \in Sealed,
           c.enrolled = b.enrolled, c.rows = b.rows, Progress(c),
           \A i \in DOMAIN b.rows : Loss(c, i) = Loss(b, i),
           c.phase \in Sealed /\ c.next = 0 => b.next = 0,
           battle' = [battle EXCEPT ![id] = c], UNCHANGED <<now, fleets, bodyLock>>,
           ownerSteps' \in 0 .. MaxOwnerSteps
    PROVE  Inv'
<1>1. b.phase \notin {0, 13} /\ c.phase \notin Early
      /\ c.phase \notin Gathering /\ b.phase \notin Gathering
  BY DEF Sealed, Economic, Early, Gathering
<1>2. BattleOK(id, b)
  BY <1>1, BattleNow
<1>3. Scans(id, c)
  BY <1>1 DEF Scans, Gathering, Early
<1>4. Enrolled(id, c)
  <2>1. c.phase \in Sealed => \A m \in DOMAIN missions : LookedAt(id, c, m) /\ LookedAt(id, b, m)
    BY DEF LookedAt, Sealed
  <2>2. c.phase \notin {4, 5} /\ b.phase \notin {4, 5}
    BY <1>1 DEF Gathering
  <2> QED BY <1>1, <1>2, <2>1, <2>2 DEF BattleOK, Enrolled
<1>5. Scanned(b) = Lanes /\ Scanned(c) = Lanes
  BY DEF Scanned, Sealed, Economic
<1>6. RowsAreTrue(c)
  BY <1>2, <1>5 DEF BattleOK, RowsAreTrue
<1>7. RowsAreAll(c)
  <2>1. c.phase \in Sealed => ~c.blocked /\ ~b.blocked
    BY <1>2 DEF BattleOK, Progress
  <2> QED BY <1>1, <1>2, <1>5, <2>1 DEF BattleOK, RowsAreAll, HasRow
<1>8. BattleOK(id, c)
  BY <1>3, <1>4, <1>6, <1>7 DEF BattleOK
<1> QED BY <1>1, <1>8, StageStep

\* When everybody was looked at, the roster is the whole force.
LEMMA SealStep ==
    ASSUME Inv, NEW id \in DOMAIN missions, SealRoster(id)
    PROVE  Inv'
<1>1. id \in Ids /\ battle[id].phase = 5 /\ battle[id].cursor >= battle[id].stationedLength
  BY MissionIds DEF SealRoster, Stage
<1>2. PICK b : b = battle[id]
  OBVIOUS
<1>3. /\ b \in Battle /\ BattleOK(id, b) /\ b.phase = 5
      /\ b.stationedLength = Len(stationed)
  BY <1>1, <1>2, GrowsNow
<1>4. RefereeStage(id) <=> ~b.blocked
  BY <1>2, <1>3 DEF RefereeStage, BattleOK, Progress, Gathering, Early, NoneApplied
<1>5. PICK c : c = IF ~b.blocked
                   THEN [b EXCEPT !.cursor = 0, !.phase = 16, !.job = "AwaitingRandomness", !.request = "Sealed"]
                   ELSE [b EXCEPT !.cursor = 0, !.phase = 11]
  OBVIOUS
<1>6. /\ c \in Battle /\ c.phase = (IF ~b.blocked THEN 16 ELSE 11) /\ c.blocked = b.blocked
      /\ c.job = (IF ~b.blocked THEN "AwaitingRandomness" ELSE b.job)
      /\ c.enrolled = b.enrolled /\ c.rows = b.rows
      /\ c.application = b.application /\ c.next = b.next /\ c.result = b.result
  BY <1>3, <1>5 DEF Battle, Phases
<1>7. b.phase \in Gathering /\ c.phase \notin Gathering /\ c.phase \notin Early /\ b.next = 0
  BY <1>3, <1>6 DEF Gathering, Early, BattleOK, Progress, NoneApplied
<1>8. Progress(c)
  BY <1>3, <1>6, <1>7 DEF BattleOK, Progress, Gathering, Early, Sealed, Economic, NoneApplied
<1>9. Scans(id, c)
  BY <1>6, <1>7 DEF Scans
<1>10. ASSUME NEW m \in DOMAIN missions, Member(id, m) PROVE LookedAt(id, b, m)
  <2>1. \/ missions[m].kind \in AcsKinds /\ missions[m].leader = id
        \/ missions[m].kind = "DefenseHold" /\ Outbound(m)
    BY <1>10 DEF Member, JoinedAttack, QualifiedDefender, AcsKinds
  <2>2. CASE missions[m].kind \in AcsKinds /\ missions[m].leader = id
    <3>1. m \in ToSet(linked[id])
      BY <1>1, <2>2 DEF Inv, ListsOK, Of
    <3> QED BY <1>3, <3>1 DEF LookedAt
  <2>3. CASE missions[m].kind = "DefenseHold" /\ Outbound(m)
    <3>1. m \in ToSet(stationed) /\ stationed \in Seq(Nat)
      BY <2>3 DEF Inv, ListsOK, FleetTypes, Holds, Of
    <3>2. PICK i \in 1 .. Len(stationed) : stationed[i] = m
      BY <3>1, ListEntry
    <3>3. i \in 1 .. b.cursor
      <4>1. b.cursor \in Nat /\ Len(stationed) \in Nat /\ b.cursor >= Len(stationed)
        BY <1>1, <1>2, <1>3, <3>1, ListEntry DEF Battle
      <4> QED BY <4>1
    <3> QED BY <1>3, <3>2, <3>3 DEF LookedAt
  <2> QED BY <2>1, <2>2, <2>3
<1>11. Enrolled(id, c)
  <2>1. \A m \in DOMAIN missions : c.phase \in Sealed => LookedAt(id, c, m)
    BY DEF LookedAt, Sealed
  <2>2. c.phase \notin {4, 5}
    BY <1>6
  <2> QED BY <1>3, <1>6, <1>7, <1>10, <2>1, <2>2 DEF BattleOK, Enrolled
<1>12. Scanned(b) = Lanes /\ Scanned(c) = Lanes /\ \A i \in DOMAIN b.rows : Loss(c, i) = Loss(b, i)
  BY <1>3, <1>6 DEF Scanned, Loss
<1>13. RowsAreTrue(c)
  BY <1>3, <1>6, <1>12 DEF BattleOK, RowsAreTrue
<1>14. RowsAreAll(c)
  BY <1>3, <1>6, <1>7, <1>12 DEF BattleOK, RowsAreAll, HasRow
<1>15. battle' = [battle EXCEPT ![id] = c] /\ UNCHANGED <<now, fleets, bodyLock>>
       /\ ownerSteps' \in 0 .. MaxOwnerSteps
  <2>1. b.phase = 5 /\ b \in Battle
    BY <1>3
  <2>2. c = IF ~b.blocked
            THEN [[b EXCEPT !.cursor = 0] EXCEPT !.phase = 16, !.job = "AwaitingRandomness", !.request = "Sealed"]
            ELSE [[b EXCEPT !.cursor = 0] EXCEPT !.phase = 11]
    BY <1>5, <2>1 DEF Battle
  <2> QED BY <1>2, <1>4, <2>2 DEF SealRoster, Advance, Inv
<1>16. BattleOK(id, c) /\ battle[id].phase \notin {0, 13}
  BY <1>1, <1>8, <1>9, <1>11, <1>13, <1>14 DEF BattleOK
<1> QED BY <1>1, <1>6, <1>7, <1>15, <1>16, StageStep

\* The word is taken over.
LEMMA AwaitStep ==
    ASSUME Inv, NEW id \in DOMAIN missions, AwaitResult(id)
    PROVE  Inv'
<1>1. id \in Ids /\ battle[id].phase = 16
  BY MissionIds DEF AwaitResult, Stage
<1>2. PICK b : b = battle[id]
  OBVIOUS
<1>3. b \in Battle /\ BattleOK(id, b) /\ b.phase = 16
  BY <1>1, <1>2, BattleNow
<1>4. PICK c : c = [b EXCEPT !.phase = 17, !.job = "AwaitingResult", !.request = "Consumed"]
  OBVIOUS
<1>5. /\ c \in Battle /\ c.phase = 17 /\ c.blocked = b.blocked /\ c.job = "AwaitingResult"
      /\ c.enrolled = b.enrolled /\ c.rows = b.rows
      /\ c.application = b.application /\ c.next = b.next /\ c.result = b.result
  BY <1>3, <1>4 DEF Battle, Phases
<1>6. Progress(c)
  BY <1>3, <1>5 DEF BattleOK, Progress, Gathering, Early, Sealed, Economic, NoneApplied
<1>7. \A i \in DOMAIN b.rows : Loss(c, i) = Loss(b, i)
  BY <1>5 DEF Loss
<1>8. b.phase \in Sealed /\ c.phase \in Sealed
  BY <1>3, <1>5 DEF Sealed
<1>9. battle' = [battle EXCEPT ![id] = c] /\ UNCHANGED <<now, fleets, bodyLock>>
       /\ ownerSteps' \in 0 .. MaxOwnerSteps
  BY <1>2, <1>4 DEF AwaitResult, Advance, Inv
<1> QED BY <1>1, <1>2, <1>5, <1>6, <1>7, <1>8, <1>9, LateStep

\* The loot is divided.
LEMMA RaidStep ==
    ASSUME Inv, NEW id \in DOMAIN missions, Raid(id)
    PROVE  Inv'
<1>1. id \in Ids /\ battle[id].phase = 11
  BY MissionIds DEF Raid, Stage
<1>2. PICK b : b = battle[id]
  OBVIOUS
<1>3. b \in Battle /\ BattleOK(id, b) /\ b.phase = 11
  BY <1>1, <1>2, BattleNow
<1>4. PICK c : c = [b EXCEPT !.phase = 12, !.cursor = 0]
  OBVIOUS
<1>5. /\ c \in Battle /\ c.phase = 12 /\ c.blocked = b.blocked /\ c.job = b.job
      /\ c.enrolled = b.enrolled /\ c.rows = b.rows
      /\ c.application = b.application /\ c.next = b.next /\ c.result = b.result
  BY <1>3, <1>4 DEF Battle, Phases
<1>6. Progress(c)
  BY <1>3, <1>5 DEF BattleOK, Progress, Gathering, Early, Sealed, Economic, NoneApplied, ResultWithin
<1>7. \A i \in DOMAIN b.rows : Loss(c, i) = Loss(b, i)
  BY <1>5 DEF Loss
<1>8. b.phase \in Economic /\ c.phase \in Economic /\ c.phase \notin Sealed
  BY <1>3, <1>5 DEF Economic, Sealed
<1>9. battle' = [battle EXCEPT ![id] = c] /\ UNCHANGED <<now, fleets, bodyLock>>
       /\ ownerSteps' \in 0 .. MaxOwnerSteps
  BY <1>2, <1>4 DEF Raid, Advance, Inv
<1> QED BY <1>1, <1>2, <1>5, <1>6, <1>7, <1>8, <1>9, LateStep

\* The engine may answer also when the battle was voided, or is over.
LEMMA RevealStep ==
    ASSUME Inv, NEW id \in DOMAIN missions, RevealWord(id)
    PROVE  Inv'
<1>1. id \in Ids /\ battle[id].request = "Sealed"
  BY MissionIds DEF RevealWord
<1>2. PICK b : b = battle[id]
  OBVIOUS
<1>3. b \in Battle /\ b.request = "Sealed"
  BY <1>1, <1>2 DEF Inv, LockTypes
<1>4. PICK c : c = [b EXCEPT !.request = "Revealed"]
  OBVIOUS
<1>5. /\ c \in Battle /\ c.phase = b.phase /\ c.blocked = b.blocked /\ c.job = b.job
      /\ c.enrolled = b.enrolled /\ c.rows = b.rows
      /\ c.application = b.application /\ c.next = b.next /\ c.result = b.result
  BY <1>3, <1>4 DEF Battle
<1>6. battle' = [battle EXCEPT ![id] = c] /\ UNCHANGED <<now, fleets, bodyLock, ownerSteps>>
  BY <1>2, <1>4 DEF RevealWord, Advance
<1>7. CASE b.phase \in {0, 13}
  <2>1. id # bodyLock
    <3>1. BattleOK(id, b) => b.phase \notin {0, 13}
      BY DEF BattleOK, Progress, Gathering, Early, Sealed, Economic
    <3>2. id # 0
      BY <1>1 DEF Ids
    <3> QED BY <1>2, <1>7, <3>1, <3>2 DEF Inv
  <2>2. Resting(b)
    BY <1>1, <1>2, <2>1 DEF Inv, LockOK
  <2>3. b.phase = 13
    BY <1>3, <1>7, <2>2 DEF Resting, NoBattle
  <2>4. Resting(c)
    BY <1>5, <2>2, <2>3 DEF Resting
  <2>5. UNCHANGED <<now, missions, residents, stationed, linked, bodyLock, ownerSteps>>
    BY <1>6 DEF fleets
  <2>6. battle'[id] = c /\ battle' \in [Ids -> Battle] /\ \A other \in Ids \ {id} : battle'[other] = battle[other]
    BY <1>1, <1>5, <1>6 DEF Inv, LockTypes
  <2>7. FleetTypes' /\ LockTypes' /\ ownerSteps' \in 0 .. MaxOwnerSteps
    BY <2>5, <2>6 DEF Inv, FleetTypes, LockTypes
  <2>8. ListsOK'
    BY <2>5 DEF Inv, ListsOK, Holds, Of, Outbound
  <2>9. Armed'
    <3>1. Attacks' = Attacks /\ Attacks \subseteq Ids
      BY <2>5, MissionIds DEF Attacks, Of
    <3>2. c.phase \notin {0} \cup Early
      BY <1>5, <2>3 DEF Early
    <3> QED BY <2>5, <2>6, <3>1, <3>2 DEF Inv, Armed
  <2>10. LockOK'
    <3>1. Attacks' = Attacks /\ Events' = Events
      BY <2>5 DEF Attacks, Holds, Of, Events, Outbound, Active, Arrival, Homecoming, HoldEnd
    <3>2. ASSUME NEW other \in Ids, other # bodyLock PROVE Resting(battle'[other])
      BY <2>4, <2>6, <3>2 DEF Inv, LockOK
    <3> QED BY <2>5, <3>1, <3>2 DEF Inv, LockOK, Outbound, Arrival, Before, Resting
  <2>11. ASSUME bodyLock # 0 PROVE BattleOK(bodyLock, battle[bodyLock])'
    <3>1. PICK a, d : a = bodyLock /\ d = battle[bodyLock]
      OBVIOUS
    <3>2. BattleOK(a, d) /\ a \in Ids
      BY <2>11, <3>1 DEF Inv, LockTypes
    <3>3. \A m \in DOMAIN missions : Member(a, m)' <=> Member(a, m)
      BY <2>5 DEF Member, JoinedAttack, QualifiedDefender, Outbound
    <3>4. \A i \in DOMAIN d.rows : d.rows[i].source \in {0} \cup DOMAIN missions
      BY <2>11, <3>1, RowSources
    <3>5. BattleOK(a, d)'
      BY <2>5, <3>2, <3>3, <3>4, BattleCarry
    <3>6. a = bodyLock' /\ d = battle'[a]
      BY <2>1, <2>5, <2>6, <3>1, <3>2
    <3> QED BY <3>5, <3>6
  <2> QED BY <2>5, <2>7, <2>8, <2>9, <2>10, <2>11 DEF Inv
<1>8. CASE b.phase \notin {0, 13}
  <2>1. BattleOK(id, b)
    BY <1>1, <1>2, <1>8, BattleNow
  <2>2. b.phase \in Sealed \cup Economic
    BY <1>3, <2>1 DEF BattleOK, Progress
  <2>3. Progress(c)
    <3>1. c.phase \notin Gathering
      BY <1>5, <2>2 DEF Gathering, Early, Sealed, Economic
    <3> QED BY <1>5, <2>1, <3>1 DEF BattleOK, Progress, NoneApplied, ResultWithin
  <2>4. \A i \in DOMAIN b.rows : Loss(c, i) = Loss(b, i)
    BY <1>5 DEF Loss
  <2>5. UNCHANGED <<now, fleets, bodyLock>> /\ ownerSteps' \in 0 .. MaxOwnerSteps
    BY <1>6 DEF Inv
  <2> QED BY <1>1, <1>2, <1>5, <1>6, <2>2, <2>3, <2>4, <2>5, LateStep
<1> QED BY <1>7, <1>8

\* A result is posted once, and keeps within the rows.
LEMMA SubmitStep ==
    ASSUME Inv, NEW id \in DOMAIN missions, NEW result, SubmitBattleResult(id, result),
           result \in [lost : SUBSET DOMAIN battle[id].rows, good : Int],
           result.good = Len(battle[id].rows) \/ result.good \in {0, Len(battle[id].rows) - 1}
    PROVE  Inv'
<1>1. id \in Ids /\ battle[id].phase = 17
  BY MissionIds DEF SubmitBattleResult
<1>2. PICK b : b = battle[id]
  OBVIOUS
<1>3. b \in Battle /\ BattleOK(id, b) /\ b.phase = 17
  BY <1>1, <1>2, BattleNow
<1>4. PICK n : n = Len(b.rows)
  OBVIOUS
<1>5. n \in Nat /\ n > 0 /\ DOMAIN b.rows = 1 .. n
  <2>1. b.rows # <<>>
    BY <1>3 DEF BattleOK, Progress, RowsAreAll, Sealed
  <2> QED BY <1>3, <1>4, <2>1, RowTypes, EmptySeq
<1>6. b.next = 0 /\ b.job = "AwaitingResult"
  BY <1>2, <1>3 DEF SubmitBattleResult, BattleOK, Progress, NoneApplied
<1>7. result.lost \subseteq 1 .. n /\ result.good \in Nat /\ result.good <= n
      /\ result \in [lost : SUBSET Nat, good : Nat]
  BY <1>2, <1>4, <1>5
<1>8. PICK c : c = [b EXCEPT !.application = "Applying", !.result = result]
  OBVIOUS
<1>9. /\ c \in Battle /\ c.phase = 17 /\ c.blocked = b.blocked /\ c.job = b.job
      /\ c.enrolled = b.enrolled /\ c.rows = b.rows
      /\ c.application = "Applying" /\ c.next = 0 /\ c.result = result
  BY <1>3, <1>6, <1>7, <1>8 DEF Battle
<1>10. ResultWithin(c) /\ c.next < Len(c.rows)
  BY <1>4, <1>5, <1>7, <1>9 DEF ResultWithin
<1>11. Progress(c)
  BY <1>3, <1>9, <1>10 DEF BattleOK, Progress, Gathering, Early, Sealed, Economic
<1>12. \A i \in DOMAIN b.rows : Loss(c, i) = Loss(b, i)
  BY <1>5, <1>6, <1>9 DEF Loss
<1>13. b.phase \in Sealed /\ c.phase \in Sealed
  BY <1>3, <1>9 DEF Sealed
<1>14. battle' = [battle EXCEPT ![id] = c] /\ UNCHANGED <<now, fleets, bodyLock>>
       /\ ownerSteps' \in 0 .. MaxOwnerSteps
  BY <1>2, <1>8 DEF SubmitBattleResult, Advance, Inv
<1> QED BY <1>1, <1>2, <1>6, <1>9, <1>11, <1>12, <1>13, <1>14, LateStep

\* The referee posts a right or a wrong result.
LEMMA RefereeSteps ==
    ASSUME Inv, NEW id \in DOMAIN missions, Referee(id)
    PROVE  Inv'
<1>1. id \in Ids /\ battle[id] \in Battle
  BY MissionIds DEF Inv, LockTypes
<1>2. Len(battle[id].rows) \in Nat
  BY <1>1, RowTypes
<1>3. ASSUME NEW lost \in LossesOf(battle[id].rows), HonestResult(id, lost) PROVE Inv'
  <2>1. PICK result : result = [lost |-> lost, good |-> Len(battle[id].rows)]
    OBVIOUS
  <2>2. lost \subseteq DOMAIN battle[id].rows
    BY DEF LossesOf
  <2>3. SubmitBattleResult(id, result) /\ result.good = Len(battle[id].rows)
        /\ result \in [lost : SUBSET DOMAIN battle[id].rows, good : Int]
    BY <1>2, <1>3, <2>1, <2>2 DEF HonestResult
  <2> QED BY <2>3, SubmitStep
<1>4. ASSUME NEW good \in {0, Len(battle[id].rows) - 1}, WrongResult(id, good) PROVE Inv'
  <2>1. PICK result : result = [lost |-> DOMAIN battle[id].rows, good |-> good]
    OBVIOUS
  <2>2. SubmitBattleResult(id, result) /\ result.good \in {0, Len(battle[id].rows) - 1}
        /\ result \in [lost : SUBSET DOMAIN battle[id].rows, good : Int]
    BY <1>2, <1>4, <2>1 DEF WrongResult
  <2> QED BY <2>2, SubmitStep
<1> QED BY <1>3, <1>4 DEF Referee

\* A result of which nothing was applied is forgotten.
LEMMA ResetStep ==
    ASSUME Inv, NEW id \in DOMAIN missions, ResetBattleResult(id)
    PROVE  Inv'
<1>1. id \in Ids /\ battle[id].application = "Applying" /\ battle[id].next = 0
  BY MissionIds DEF ResetBattleResult
<1>2. PICK b : b = battle[id]
  OBVIOUS
<1>3. b \in Battle /\ BattleOK(id, b) /\ b.phase = 17
  <2>1. id = bodyLock
    BY <1>1 DEF Inv, LockOK, Resting
  <2>2. BattleOK(id, b) /\ b \in Battle
    BY <1>1, <1>2, <2>1 DEF Inv, LockTypes, Ids
  <2>3. b.phase = 17
    BY <1>1, <1>2, <2>2 DEF BattleOK, Progress, NoneApplied, Gathering, Sealed, Economic
  <2> QED BY <2>2, <2>3
<1>4. PICK c : c = [b EXCEPT !.application = "Unaccepted", !.result = NoResult]
  OBVIOUS
<1>5. NoResult \in [lost : SUBSET Nat, good : Nat]
  BY DEF NoResult
<1>6. /\ c \in Battle /\ c.phase = 17 /\ c.blocked = b.blocked /\ c.job = b.job
      /\ c.enrolled = b.enrolled /\ c.rows = b.rows
      /\ c.application = "Unaccepted" /\ c.next = 0 /\ b.next = 0 /\ c.result = NoResult
  BY <1>1, <1>2, <1>3, <1>4, <1>5 DEF Battle
<1>7. Progress(c)
  BY <1>3, <1>6 DEF BattleOK, Progress, Gathering, Early, Sealed, Economic, NoneApplied
<1>8. \A i \in DOMAIN b.rows : Loss(c, i) = Loss(b, i)
  <2>1. \A i \in DOMAIN b.rows : ~(i <= 0)
    BY <1>3, RowTypes
  <2> QED BY <1>6, <2>1 DEF Loss
<1>9. b.phase \in Sealed /\ c.phase \in Sealed
  BY <1>3, <1>6 DEF Sealed
<1>10. battle' = [battle EXCEPT ![id] = c] /\ UNCHANGED <<now, fleets, bodyLock>>
       /\ ownerSteps' \in 0 .. MaxOwnerSteps
  BY <1>2, <1>4, BattleConstants DEF ResetBattleResult, OwnerStep, Advance, Inv
<1> QED BY <1>1, <1>2, <1>6, <1>7, <1>8, <1>9, <1>10, LateStep

\* A battle is voided before anything was applied.
LEMMA VoidStep ==
    ASSUME Inv, NEW id \in DOMAIN missions, VoidRefereeBattle(id)
    PROVE  Inv'
<1>1. id \in Ids /\ battle[id].phase \in {16, 17} /\ battle[id].next = 0
  BY MissionIds DEF VoidRefereeBattle
<1>2. PICK b : b = battle[id]
  OBVIOUS
<1>3. b \in Battle /\ BattleOK(id, b) /\ b.phase \in {16, 17} /\ b.next = 0
  BY <1>1, <1>2, BattleNow
<1>4. PICK c : c = [b EXCEPT !.application = "Unaccepted", !.result = NoResult,
                             !.job = "Bypassed", !.blocked = TRUE, !.phase = 11]
  OBVIOUS
<1>5. NoResult \in [lost : SUBSET Nat, good : Nat] /\ 11 \in Phases
  BY DEF NoResult, Phases
<1>6. /\ c \in Battle /\ c.phase = 11 /\ c.blocked /\ c.job = "Bypassed"
      /\ c.enrolled = b.enrolled /\ c.rows = b.rows
      /\ c.application = "Unaccepted" /\ c.next = 0 /\ c.result = NoResult
  BY <1>3, <1>4, <1>5 DEF Battle
<1>7. Progress(c)
  BY <1>6 DEF Progress, Gathering, Early, Sealed, Economic, NoneApplied
<1>8. \A i \in DOMAIN b.rows : Loss(c, i) = Loss(b, i)
  <2>1. \A i \in DOMAIN b.rows : ~(i <= 0)
    BY <1>3, RowTypes
  <2> QED BY <1>3, <1>6, <2>1 DEF Loss
<1>9. b.phase \in Sealed /\ c.phase \in Economic /\ c.phase \notin Sealed
  BY <1>3, <1>6 DEF Sealed, Economic
<1>10. battle' = [battle EXCEPT ![id] = c] /\ UNCHANGED <<now, fleets, bodyLock>>
       /\ ownerSteps' \in 0 .. MaxOwnerSteps
  BY <1>2, <1>4, BattleConstants DEF VoidRefereeBattle, OwnerStep, Advance, Inv
<1> QED BY <1>1, <1>2, <1>6, <1>7, <1>8, <1>9, <1>10, LateStep

\* A leaf takes its row's units, all or none, and nobody else's.
LEMMA LeafStep ==
    ASSUME Inv, NEW id \in DOMAIN missions, ApplyLeaf(id)
    PROVE  Inv'
<1>1. id \in Ids /\ battle[id].phase = 17 /\ battle[id].application = "Applying"
  BY MissionIds DEF ApplyLeaf
<1>2. PICK b : b = battle[id]
  OBVIOUS
<1>3. b \in Battle /\ BattleOK(id, b) /\ b.phase = 17 /\ bodyLock = id /\ missions[id].kind = "Attack"
  BY <1>1, <1>2, BattleNow
<1>4. PICK n, k, row, lost :
         /\ n = Len(b.rows) /\ k = b.next + 1 /\ row = b.rows[k]
         /\ lost = IF k \in b.result.lost THEN row.count ELSE 0
  OBVIOUS
<1>5. /\ b.job = "AwaitingResult" /\ ResultWithin(b) /\ b.next < n /\ ~b.blocked
      /\ k <= b.result.good /\ b.result.good <= n
  <2>1. b.job = "AwaitingResult" /\ ResultWithin(b) /\ b.next < n /\ ~b.blocked
    BY <1>1, <1>2, <1>3, <1>4 DEF BattleOK, Progress, Sealed, NoneApplied
  <2> QED BY <1>2, <1>4, <2>1 DEF ApplyLeaf, ResultWithin
<1>6. /\ n \in Nat /\ b.next \in Nat /\ k \in 1 .. n /\ DOMAIN b.rows = 1 .. n
      /\ b.result \in [lost : SUBSET Nat, good : Nat]
      /\ row.source \in Nat /\ row.lane \in 1 .. Lanes /\ row.count \in Nat /\ row.count > 0
      /\ lost \in {0, row.count}
  <2>1. n \in Nat /\ b.next \in Nat /\ DOMAIN b.rows = 1 .. n
        /\ b.result \in [lost : SUBSET Nat, good : Nat]
    BY <1>3, <1>4, RowTypes DEF Battle
  <2>2. k \in 1 .. n
    BY <1>4, <1>5, <2>1
  <2>3. /\ row.source \in Nat /\ row.lane \in Nat /\ 1 <= row.lane /\ row.lane <= Lanes
        /\ row.count \in Nat /\ row.count > 0
    BY <1>3, <1>4, <2>1, <2>2, RowTypes
  <2>4. row.lane \in 1 .. Lanes
    BY <2>3, BattleConstants
  <2> QED BY <1>4, <2>1, <2>2, <2>3, <2>4
<1>7. PICK c : c = [b EXCEPT !.next = k, !.application = IF k = n THEN "Economics" ELSE @,
                             !.phase = IF k = n THEN 11 ELSE @, !.cursor = IF k = n THEN 0 ELSE @]
  OBVIOUS
<1>8. /\ c \in Battle /\ c.phase = (IF k = n THEN 11 ELSE 17)
      /\ c.application = (IF k = n THEN "Economics" ELSE "Applying")
      /\ c.blocked = b.blocked /\ c.job = b.job
      /\ c.enrolled = b.enrolled /\ c.rows = b.rows /\ c.next = k /\ c.result = b.result
  <2>1. PICK app, ph, cur : /\ app = (IF k = n THEN "Economics" ELSE b.application)
                            /\ ph = (IF k = n THEN 11 ELSE b.phase)
                            /\ cur = (IF k = n THEN 0 ELSE b.cursor)
    OBVIOUS
  <2>2. app \in {"Unaccepted", "Applying", "Economics"} /\ ph \in Phases /\ cur \in Nat /\ k \in Nat
    BY <1>3, <1>6, <2>1 DEF Battle, Phases
  <2>3. c = [b EXCEPT !.next = k, !.application = app, !.phase = ph, !.cursor = cur]
    BY <1>7, <2>1
  <2>4. /\ c \in Battle /\ c.phase = ph /\ c.application = app
        /\ c.blocked = b.blocked /\ c.job = b.job
        /\ c.enrolled = b.enrolled /\ c.rows = b.rows /\ c.next = k /\ c.result = b.result
    BY <1>3, <2>2, <2>3 DEF Battle
  <2> QED BY <1>1, <1>2, <1>3, <2>1, <2>4
<1>9. /\ missions' = IF row.source = 0 THEN missions
                     ELSE [missions EXCEPT ![row.source].ships = LessUnits(@, lost)]
      /\ residents' = IF row.source # 0 THEN residents
                      ELSE [residents EXCEPT ![row.lane] = LessUnits(@, lost)]
      /\ battle' = [battle EXCEPT ![id] = c]
      /\ UNCHANGED <<now, stationed, linked, bodyLock, ownerSteps>>
  BY <1>2, <1>4, <1>7 DEF ApplyLeaf, Advance
<1>10. /\ row.source = 0 \/ (row.source \in ToSet(b.enrolled) /\ row.lane = 1)
       /\ ToSet(b.enrolled) \subseteq DOMAIN missions
       /\ Units(row.source, row.lane) = row.count
       /\ Distinct(b.rows)
  <2>1. Loss(b, k) = row.count
    BY <1>4, <1>6 DEF Loss
  <2> QED BY <1>3, <1>4, <1>6, <2>1 DEF BattleOK, RowsAreTrue, Enrolled, Distinct
<1>11. row.source # 0 => row.source \in DOMAIN missions /\ missions[row.source].ships = row.count
  BY <1>10 DEF Units
<1>12. row.source = 0 => residents[row.lane] = row.count
  BY <1>10 DEF Units
<1>13. PICK left : left = IF k \in b.result.lost THEN 0 ELSE row.count
  OBVIOUS
<1>14. left \in Nat /\ LessUnits(row.count, lost) = left
  BY <1>4, <1>6, <1>13 DEF LessUnits
<1>15. /\ missions' \in Seq(Mission) /\ Len(missions') = Len(missions)
       /\ DOMAIN missions' = DOMAIN missions
       /\ row.source # 0 => missions'[row.source].ships = left
       /\ \A m \in DOMAIN missions :
             /\ missions'[m].kind = missions[m].kind /\ missions'[m].status = missions[m].status
             /\ missions'[m].leader = missions[m].leader /\ missions'[m].arrivalAt = missions[m].arrivalAt
             /\ missions'[m].returnAt = missions[m].returnAt /\ missions'[m].holdUntil = missions[m].holdUntil
             /\ m # row.source => missions'[m].ships = missions[m].ships
  <2>1. CASE row.source = 0
    BY <1>9, <2>1 DEF Inv, FleetTypes
  <2>2. CASE row.source # 0
    <3>1. PICK x : x = [missions[row.source] EXCEPT !.ships = left]
      OBVIOUS
    <3>2. missions' = [missions EXCEPT ![row.source] = x]
      BY <1>9, <1>11, <1>14, <2>2, <3>1
    <3>3. missions[row.source] \in Mission /\ missions \in Seq(Mission)
          /\ row.source \in 1 .. Len(missions) /\ DOMAIN missions = 1 .. Len(missions)
      BY <1>11, <2>2, MissionIds DEF Inv, FleetTypes
    <3>4. x \in Mission /\ x.ships = left
          /\ x.kind = missions[row.source].kind /\ x.status = missions[row.source].status
          /\ x.leader = missions[row.source].leader /\ x.arrivalAt = missions[row.source].arrivalAt
          /\ x.returnAt = missions[row.source].returnAt /\ x.holdUntil = missions[row.source].holdUntil
      BY <1>14, <3>1, <3>3 DEF Mission
    <3>5. PICK ms : ms = missions'
      OBVIOUS
    <3>6. /\ ms \in Seq(Mission) /\ Len(ms) = Len(missions)
          /\ \A m \in 1 .. Len(missions) : ms[m] = IF m = row.source THEN x ELSE missions[m]
      BY <3>2, <3>3, <3>4, <3>5, ExceptSeq
    <3>7. DOMAIN ms = DOMAIN missions
      BY <3>3, <3>6, LenProperties
    <3> QED BY <3>3, <3>4, <3>5, <3>6, <3>7
  <2> QED BY <2>1, <2>2
<1>16. /\ residents' \in [1 .. Lanes -> Nat]
       /\ row.source = 0 => residents'[row.lane] = left
       /\ \A l \in 1 .. Lanes : (row.source # 0 \/ l # row.lane) => residents'[l] = residents[l]
  <2>1. residents \in [1 .. Lanes -> Nat]
    BY DEF Inv, FleetTypes
  <2>2. row.source = 0 => residents' = [residents EXCEPT ![row.lane] = left]
    BY <1>6, <1>9, <1>12, <1>14, <2>1
  <2> QED BY <1>6, <1>9, <1>14, <2>1, <2>2
<1>17. battle'[id] = c /\ battle' \in [Ids -> Battle] /\ \A other \in Ids \ {id} : battle'[other] = battle[other]
  BY <1>1, <1>8, <1>9 DEF Inv, LockTypes
<1>18. FleetTypes' /\ LockTypes' /\ ownerSteps' \in 0 .. MaxOwnerSteps
  BY <1>9, <1>15, <1>16, <1>17 DEF Inv, FleetTypes, LockTypes
<1>19. Of(AcsKinds)' = Of(AcsKinds) /\ Holds' = Holds /\ Attacks' = Attacks
       /\ Of({"Transport"})' = Of({"Transport"})
  BY <1>15 DEF Of, Holds, Attacks
<1>20. \A m \in DOMAIN missions : (Outbound(m)' <=> Outbound(m)) /\ (Active(m)' <=> Active(m))
  BY <1>15 DEF Outbound, Active
<1>21. ListsOK'
  <2>1. {m \in Holds' : Outbound(m)'} = {m \in Holds : Outbound(m)}
    BY <1>19, <1>20 DEF Holds, Of
  <2>2. \A m \in Holds : Outbound(m)' => missions'[m].holdUntil <= missions'[m].returnAt
    BY <1>15, <1>20 DEF Inv, ListsOK, Holds, Of
  <2>3. \A a \in Ids : ToSet(linked'[a]) = {m \in Of(AcsKinds)' : missions'[m].leader = a}
    BY <1>9, <1>15, <1>19 DEF Inv, ListsOK, Of
  <2> QED BY <1>9, <1>19, <2>1, <2>2, <2>3 DEF Inv, ListsOK
<1>22. Armed'
  <2>1. ASSUME NEW a \in Attacks, battle'[a].phase \in {0} \cup Early PROVE missions'[a].ships > 0
    <3>1. a \in DOMAIN missions /\ a \in Ids /\ missions[a].kind = "Attack" /\ a # 0
      BY MissionIds DEF Attacks, Of
    <3>2. a # id
      BY <1>8, <1>17, <2>1 DEF Early
    <3>3. a \notin ToSet(b.enrolled)
      BY <1>3, <3>1, <3>2 DEF BattleOK, Enrolled, Member, JoinedAttack, QualifiedDefender, Sealed
    <3>4. missions'[a].ships = missions[a].ships
      BY <1>10, <1>15, <3>1, <3>3
    <3> QED BY <1>17, <2>1, <3>1, <3>2, <3>4 DEF Inv, Armed
  <2> QED BY <1>19, <2>1 DEF Armed
<1>23. LockOK'
  <2>1. \A m \in DOMAIN missions :
           /\ Arrival(m)' = Arrival(m) /\ Homecoming(m)' = Homecoming(m) /\ HoldEnd(m)' = HoldEnd(m)
    BY <1>15 DEF Arrival, Homecoming, HoldEnd
  <2>2. Attacks \subseteq DOMAIN missions /\ Holds \subseteq DOMAIN missions
        /\ Of({"Transport"}) \subseteq DOMAIN missions
    BY DEF Attacks, Holds, Of
  <2>3. Events' = Events
    <3>1. {Arrival(m)' : m \in {a \in Attacks' : Outbound(a)'}} = {Arrival(m) : m \in {a \in Attacks : Outbound(a)}}
      BY <1>19, <1>20, <2>1, <2>2
    <3>2. {Homecoming(m)' : m \in {t \in Of({"Transport"})' : Active(t)'}}
            = {Homecoming(m) : m \in {t \in Of({"Transport"}) : Active(t)}}
      BY <1>19, <1>20, <2>1, <2>2
    <3>3. {HoldEnd(m)' : m \in {h \in Holds' : Outbound(h)'}} = {HoldEnd(m) : m \in {h \in Holds : Outbound(h)}}
      BY <1>19, <1>20, <2>1, <2>2
    <3> QED BY <3>1, <3>2, <3>3 DEF Events
  <2>4. id \in Attacks /\ Outbound(id) /\ \A e \in Events : ~Before(e, Arrival(id))
    BY <1>3, MissionIds DEF Inv, LockOK
  <2>5. \A other \in Ids : other # id => Resting(battle'[other])
    BY <1>3, <1>17 DEF Inv, LockOK
  <2>6. bodyLock' = id /\ Outbound(id)' /\ id \in Attacks' /\ Arrival(id)' = Arrival(id)
    BY <1>3, <1>9, <1>19, <1>20, <2>1, <2>4
  <2> QED BY <2>3, <2>4, <2>5, <2>6 DEF LockOK, Before, Arrival, Resting
<1>24. Progress(c)
  <2>1. ResultWithin(c)
    BY <1>5, <1>6, <1>4, <1>8 DEF ResultWithin
  <2>2. k = n => c.next = Len(c.rows)
    BY <1>4, <1>8
  <2>3. k # n => c.next < Len(c.rows)
    BY <1>4, <1>6, <1>8
  <2> QED BY <1>5, <1>8, <2>1, <2>2, <2>3 DEF Progress, Gathering, Early, Sealed, Economic
<1>25. Scans(id, c)'
  BY <1>8 DEF Scans, Gathering, Early
<1>26. Enrolled(id, c)'
  <2>1. \A m \in DOMAIN missions : Member(id, m)' <=> Member(id, m)
    <3>1. \A m \in DOMAIN missions : (Outbound(m)' <=> Outbound(m)) /\ id \in DOMAIN missions
      BY <1>20
    <3> QED BY <1>15, <3>1 DEF Member, JoinedAttack, QualifiedDefender
  <2>2. \A m \in DOMAIN missions : LookedAt(id, c, m)' /\ LookedAt(id, b, m)
    BY <1>3, <1>8 DEF LookedAt
  <2>3. c.phase \notin Early /\ c.phase \notin {4, 5} /\ b.phase \in Sealed
    BY <1>3, <1>8 DEF Early, Sealed
  <2> QED BY <1>3, <1>8, <1>15, <2>1, <2>2, <2>3 DEF BattleOK, Enrolled
<1>27. RowsAreTrue(c)'
  <2>1. Scanned(b) = Lanes /\ Scanned(c) = Lanes
    BY <1>3, <1>8 DEF Scanned
  <2>2. ASSUME NEW i \in 1 .. n
        PROVE  Units(b.rows[i].source, b.rows[i].lane)' = Loss(c, i)
    <3>1. /\ b.rows[i].source = 0 \/ (b.rows[i].source \in ToSet(b.enrolled) /\ b.rows[i].lane = 1)
          /\ Units(b.rows[i].source, b.rows[i].lane) = Loss(b, i)
          /\ b.rows[i].lane \in 1 .. Lanes
      <4>1. b.rows[i].lane \in Nat /\ 1 <= b.rows[i].lane /\ b.rows[i].lane <= Lanes
        BY <1>3, <1>6, RowTypes
      <4>2. b.rows[i].lane \in 1 .. Lanes
        BY <4>1, BattleConstants
      <4> QED BY <1>3, <1>6, <4>2 DEF BattleOK, RowsAreTrue
    <3>2. CASE i = k
      <4>1. Units(row.source, row.lane)' = left
        BY <1>15, <1>16 DEF Units
      <4>2. Loss(c, k) = left
        BY <1>4, <1>6, <1>8, <1>13 DEF Loss
      <4> QED BY <1>4, <3>2, <4>1, <4>2
    <3>3. CASE i # k
      <4>1. b.rows[i].source # row.source \/ b.rows[i].lane # row.lane
        BY <1>4, <1>6, <1>10, <3>3 DEF Distinct
      <4>2. Loss(c, i) = Loss(b, i)
        BY <1>4, <1>6, <1>8, <3>3 DEF Loss
      <4>3. Units(b.rows[i].source, b.rows[i].lane)' = Units(b.rows[i].source, b.rows[i].lane)
        <5>1. CASE b.rows[i].source = 0
          BY <1>16, <3>1, <4>1, <5>1 DEF Units
        <5>2. CASE b.rows[i].source # 0
          <6>1. b.rows[i].source \in DOMAIN missions /\ b.rows[i].lane = 1
            BY <1>10, <3>1, <5>2
          <6>2. b.rows[i].source # row.source
            BY <1>10, <4>1, <5>2, <6>1
          <6> QED BY <1>15, <5>2, <6>1, <6>2 DEF Units
        <5> QED BY <5>1, <5>2
      <4> QED BY <3>1, <4>2, <4>3
    <3> QED BY <3>2, <3>3
  <2>3. \A i \in 1 .. n : \/ c.rows[i].source = 0 /\ c.rows[i].lane <= Scanned(c)
                          \/ c.rows[i].source \in ToSet(c.enrolled) /\ c.rows[i].lane = 1
    BY <1>3, <1>6, <1>8, <2>1 DEF BattleOK, RowsAreTrue
  <2>4. Distinct(c.rows) /\ DOMAIN c.rows = 1 .. n
    BY <1>6, <1>8, <1>10
  <2>5. \A i \in 1 .. n : Units(c.rows[i].source, c.rows[i].lane)' = Loss(c, i)
    BY <1>8, <2>2
  <2> QED BY <2>3, <2>4, <2>5 DEF RowsAreTrue, Distinct
<1>28. RowsAreAll(c)'
  <2>1. c.phase \in Gathering \cup Sealed => c.phase = 17 /\ ~c.blocked /\ c.rows # <<>> /\ c.next # 0
    <3>1. b.rows # <<>>
      BY <1>3, <1>5 DEF BattleOK, RowsAreAll, Sealed
    <3> QED BY <1>5, <1>6, <1>8, <3>1 DEF Gathering, Early, Sealed
  <2> QED BY <2>1 DEF RowsAreAll
<1>29. BattleOK(id, c)'
  BY <1>24, <1>25, <1>26, <1>27, <1>28 DEF BattleOK, Progress, NoneApplied, ResultWithin
<1>30. bodyLock' = id /\ battle'[bodyLock'] = c
  BY <1>3, <1>9, <1>17
<1> QED BY <1>18, <1>21, <1>22, <1>23, <1>29, <1>30 DEF Inv

-----------------------------------------------------------------------------
(* The way home *)

\* A fleet that is sent home leaves its list with no ship gained or lost.
LEMMA HomewardStep ==
    ASSUME Inv, NEW m \in DOMAIN missions, ReturnFleet(m), now' = now
    PROVE  /\ FleetTypes' /\ ListsOK' /\ Attacks' = Attacks /\ DOMAIN missions' = DOMAIN missions
           /\ \A k \in DOMAIN missions : missions'[k].ships = missions[k].ships
           /\ UNCHANGED <<residents, linked>>
           /\ \/ UNCHANGED <<missions, stationed>>
              \/ /\ Outbound(m)
                 /\ \E x \in Mission :
                      /\ missions' = [missions EXCEPT ![m] = x]
                      /\ x.kind = missions[m].kind /\ x.arrivalAt = missions[m].arrivalAt
                      /\ x.returnAt = missions[m].returnAt /\ x.holdUntil = missions[m].holdUntil
                      /\ x.status # "Outbound"
<1>1. UNCHANGED <<residents, linked>>
  BY DEF ReturnFleet
<1>2. missions[m] \in Mission
  BY MissionIds
<1>3. CASE ~Outbound(m) \/ (m \in Holds /\ missions[m].ships > 0)
  <2>1. UNCHANGED <<missions, stationed>>
    BY <1>3 DEF ReturnFleet
  <2>2. FleetTypes' /\ ListsOK' /\ Attacks' = Attacks
    BY <1>1, <2>1 DEF Inv, FleetTypes, ListsOK, Holds, Of, Outbound, Attacks
  <2> QED BY <1>1, <2>1, <2>2
<1>4. CASE Outbound(m) /\ ~(m \in Holds /\ missions[m].ships > 0)
  <2>1. PICK s : s = IF missions[m].ships > 0 THEN "Returning" ELSE "Resolved"
    OBVIOUS
  <2>2. PICK x : x = [missions[m] EXCEPT !.status = s]
    OBVIOUS
  <2>3. /\ x \in Mission /\ x.kind = missions[m].kind /\ x.leader = missions[m].leader
        /\ x.ships = missions[m].ships /\ x.status # "Outbound"
        /\ x.arrivalAt = missions[m].arrivalAt /\ x.returnAt = missions[m].returnAt
        /\ x.holdUntil = missions[m].holdUntil
    BY <1>2, <2>1, <2>2 DEF Mission
  <2>4. missions' = [missions EXCEPT ![m] = x]
    BY <1>4, <2>1, <2>2 DEF ReturnFleet
  <2>5. stationed' = IF m \in Holds THEN SwapAndPop(stationed, m) ELSE stationed
    BY <1>4 DEF ReturnFleet
  <2>6. residents' \in [1 .. Lanes -> Nat]
    BY <1>1 DEF Inv, FleetTypes
  <2>7. /\ FleetTypes' /\ ListsOK' /\ DOMAIN missions' = DOMAIN missions
        /\ missions'[m] = x /\ \A k \in DOMAIN missions \ {m} : missions'[k] = missions[k]
    BY <1>1, <2>3, <2>4, <2>5, <2>6, LeaveStep
  <2>8. Attacks' = Attacks
    BY <2>3, <2>7 DEF Attacks, Of
  <2>9. \A k \in DOMAIN missions : missions'[k].ships = missions[k].ships
    BY <2>3, <2>7
  <2> QED BY <1>1, <1>4, <2>3, <2>4, <2>7, <2>8, <2>9
<1> QED BY <1>3, <1>4

\* One of the enrolled fleets goes home; the leader waits for the end.
LEMMA ReturnStep ==
    ASSUME Inv, NEW id \in DOMAIN missions, ReturnMember(id)
    PROVE  Inv'
<1>1. id \in Ids /\ battle[id].phase = 12 /\ battle[id].cursor < Len(battle[id].enrolled)
  BY MissionIds DEF ReturnMember, Stage
<1>2. PICK b : b = battle[id]
  OBVIOUS
<1>3. b \in Battle /\ BattleOK(id, b) /\ b.phase = 12 /\ bodyLock = id /\ id # 0
  BY <1>1, <1>2, BattleNow
<1>4. PICK c : c = [b EXCEPT !.cursor = @ + 1]
  OBVIOUS
<1>5. /\ c \in Battle /\ c.phase = 12 /\ c.blocked = b.blocked /\ c.job = b.job
      /\ c.enrolled = b.enrolled /\ c.rows = b.rows
      /\ c.application = b.application /\ c.next = b.next /\ c.result = b.result
  <2>1. PICK k : k = b.cursor + 1
    OBVIOUS
  <2>2. b.cursor \in Nat
    BY <1>3 DEF Battle
  <2>3. k \in Nat
    BY <2>1, <2>2
  <2>4. c = [b EXCEPT !.cursor = k]
    BY <1>4, <2>1
  <2> QED BY <1>3, <2>3, <2>4 DEF Battle
<1>6. Progress(c)
  BY <1>3, <1>5 DEF BattleOK, Progress, Gathering, Early, Sealed, Economic, NoneApplied, ResultWithin
<1>7. \A i \in DOMAIN b.rows : Loss(c, i) = Loss(b, i)
  BY <1>5 DEF Loss
<1>8. b.phase \in Economic /\ c.phase \in Economic /\ c.phase \notin Sealed
      /\ c.phase \notin Gathering /\ c.phase \notin {4, 5} /\ c.phase \notin {0} \cup Early
  BY <1>3, <1>5 DEF Economic, Sealed, Gathering, Early
<1>9. battle' = [battle EXCEPT ![id] = c] /\ UNCHANGED <<now, bodyLock, ownerSteps>>
  BY <1>2, <1>4 DEF ReturnMember, Advance
<1>10. ownerSteps' \in 0 .. MaxOwnerSteps
  BY <1>9 DEF Inv
<1>11. PICK m : m = b.enrolled[b.cursor + 1]
  OBVIOUS
<1>12. CASE m = id
  <2>1. UNCHANGED <<now, fleets, bodyLock>>
    BY <1>2, <1>9, <1>11, <1>12 DEF ReturnMember
  <2> QED BY <1>1, <1>2, <1>5, <1>6, <1>7, <1>8, <1>9, <1>10, <2>1, LateStep
<1>13. CASE m # id
  <2>1. ReturnFleet(m) /\ now' = now
    BY <1>2, <1>9, <1>11, <1>13 DEF ReturnMember
  <2>2. m \in DOMAIN missions
    <3>1. b.enrolled \in Seq(Nat) /\ b.cursor \in Nat
      BY <1>3 DEF Battle
    <3>2. b.cursor + 1 \in DOMAIN b.enrolled
      BY <1>1, <1>2, <3>1, LenProperties
    <3> QED BY <1>3, <1>11, <3>2 DEF BattleOK, Enrolled, ToSet
  <2>3. /\ FleetTypes' /\ ListsOK' /\ Attacks' = Attacks /\ DOMAIN missions' = DOMAIN missions
        /\ \A k \in DOMAIN missions : missions'[k].ships = missions[k].ships
        /\ UNCHANGED <<residents, linked>>
    BY <2>1, <2>2, HomewardStep
  <2>4. battle'[id] = c /\ battle' \in [Ids -> Battle] /\ \A other \in Ids \ {id} : battle'[other] = battle[other]
    BY <1>1, <1>5, <1>9 DEF Inv, LockTypes
  <2>5. LockTypes'
    BY <1>9, <2>4 DEF Inv, LockTypes
  <2>6. Armed'
    <3>1. Attacks \subseteq Ids /\ Attacks \subseteq DOMAIN missions
      BY MissionIds DEF Attacks, Of
    <3> QED BY <1>8, <2>3, <2>4, <3>1 DEF Inv, Armed
  <2>7. \A other \in Ids : other # bodyLock => Resting(battle'[other])
    BY <1>3, <2>4 DEF Inv, LockOK
  <2>8. LockOK'
    <3>1. CASE UNCHANGED <<missions, stationed>>
      <4>1. Attacks' = Attacks /\ Events' = Events
        BY <3>1 DEF Attacks, Holds, Of, Events, Outbound, Active, Arrival, Homecoming, HoldEnd
      <4> QED BY <1>9, <2>7, <3>1, <4>1 DEF Inv, LockOK, Outbound, Arrival, Before, Resting
    <3>2. CASE ~UNCHANGED <<missions, stationed>>
      <4>1. PICK x \in Mission :
              /\ missions' = [missions EXCEPT ![m] = x]
              /\ x.kind = missions[m].kind /\ x.arrivalAt = missions[m].arrivalAt
              /\ x.returnAt = missions[m].returnAt /\ x.holdUntil = missions[m].holdUntil
              /\ x.status # "Outbound"
        BY <2>1, <2>2, <3>2, HomewardStep
      <4>2. Outbound(m)
        BY <2>1, <2>2, <3>2, HomewardStep
      <4>3. bodyLock # 0 /\ m # bodyLock /\ bodyLock' = bodyLock
        BY <1>3, <1>9, <1>13
      <4> QED BY <2>2, <2>7, <4>1, <4>2, <4>3, OrderKept
    <3> QED BY <3>1, <3>2
  <2>9. BattleOK(id, c)
    <3>1. Scans(id, c)
      BY <1>5, <1>8 DEF Scans, Gathering, Early
    <3>2. Enrolled(id, c)
      BY <1>3, <1>5, <1>8 DEF BattleOK, Enrolled
    <3>3. RowsAreTrue(c)
      <4>1. Scanned(b) = Lanes /\ Scanned(c) = Lanes
        BY <1>3, <1>5 DEF Scanned
      <4> QED BY <1>3, <1>5, <1>7, <4>1 DEF BattleOK, RowsAreTrue
    <3>4. RowsAreAll(c)
      BY <1>8 DEF RowsAreAll
    <3> QED BY <1>6, <3>1, <3>2, <3>3, <3>4 DEF BattleOK
  <2>10. \A i \in DOMAIN c.rows : c.rows[i].source \in {0} \cup DOMAIN missions
    BY <2>9 DEF BattleOK, RowsAreTrue, Enrolled
  <2>11. BattleOK(id, c)'
    BY <1>8, <2>3, <2>9, <2>10, BattleCarry
  <2>12. bodyLock' = id /\ battle'[bodyLock'] = c
    BY <1>3, <1>9, <2>4
  <2> QED BY <1>10, <2>3, <2>5, <2>6, <2>8, <2>11, <2>12 DEF Inv
<1> QED BY <1>12, <1>13

\* The leader goes home too, and the body is free.
LEMMA FinishStep ==
    ASSUME Inv, NEW id \in DOMAIN missions, FinishBattle(id)
    PROVE  Inv'
<1>1. id \in Ids /\ battle[id].phase = 12
  BY MissionIds DEF FinishBattle, Stage
<1>2. PICK b : b = battle[id]
  OBVIOUS
<1>3. b \in Battle /\ BattleOK(id, b) /\ b.phase = 12 /\ bodyLock = id /\ id # 0
  BY <1>1, <1>2, BattleNow
<1>4. PICK c : c = [NoBattle EXCEPT !.phase = 13, !.job = b.job, !.request = b.request,
                                    !.application = b.application]
  OBVIOUS
<1>5. c \in Battle /\ c.phase = 13 /\ c.application = b.application
      /\ c.rows = <<>> /\ c.enrolled = <<>> /\ c.next = 0 /\ c.result = NoResult
  <2>1. NoBattle \in Battle
    BY DEF Battle, NoBattle, NoResult, Phases
  <2>2. NoBattle.rows = <<>> /\ NoBattle.enrolled = <<>> /\ NoBattle.next = 0 /\ NoBattle.result = NoResult
    BY DEF NoBattle
  <2>3. 13 \in Phases
    BY DEF Phases
  <2> QED BY <1>3, <1>4, <2>1, <2>2, <2>3 DEF Battle
<1>6. Resting(c)
  <2>1. b.application # "Applying"
    BY <1>3 DEF BattleOK, Progress, Economic, NoneApplied
  <2> QED BY <1>5, <2>1 DEF Resting
<1>7. /\ battle' = [battle EXCEPT ![id] = c] /\ bodyLock' = 0 /\ UNCHANGED <<now, ownerSteps>>
      /\ ReturnFleet(id)
  BY <1>2, <1>4 DEF FinishBattle, Advance
<1>8. /\ FleetTypes' /\ ListsOK' /\ Attacks' = Attacks /\ DOMAIN missions' = DOMAIN missions
      /\ \A k \in DOMAIN missions : missions'[k].ships = missions[k].ships
  BY <1>7, HomewardStep
<1>9. battle'[id] = c /\ battle' \in [Ids -> Battle] /\ \A other \in Ids \ {id} : battle'[other] = battle[other]
  BY <1>1, <1>5, <1>7 DEF Inv, LockTypes
<1>10. LockTypes' /\ ownerSteps' \in 0 .. MaxOwnerSteps
  BY <1>7, <1>9 DEF Inv, LockTypes
<1>11. Armed'
  <2>1. Attacks \subseteq Ids /\ Attacks \subseteq DOMAIN missions
    BY MissionIds DEF Attacks, Of
  <2>2. c.phase \notin {0} \cup Early
    BY <1>5 DEF Early
  <2> QED BY <1>8, <1>9, <2>1, <2>2 DEF Inv, Armed
<1>12. LockOK'
  <2>1. \A other \in Ids : Resting(battle'[other])
    BY <1>3, <1>6, <1>9 DEF Inv, LockOK
  <2> QED BY <1>7, <2>1 DEF LockOK, Resting
<1> QED BY <1>7, <1>8, <1>10, <1>11, <1>12 DEF Inv

-----------------------------------------------------------------------------
(* The invariant *)

\* Every step keeps the invariant.
LEMMA InvStep == Inv /\ [Next]_vars => Inv'
<1> SUFFICES ASSUME Inv, [Next]_vars PROVE Inv'
  OBVIOUS
<1>1. CASE Tick
  BY <1>1, TickStep
<1>2. CASE Players
  BY <1>2, PlayersStep
<1>3. ASSUME NEW id \in DOMAIN missions, Resolve(id) PROVE Inv'
  <2>1. CASE TransportArrives(id)
    BY <2>1, TransportStep
  <2>2. CASE CompleteFleetMissionReturn(id) \/ ResolveDefenseHold(id) \/ ResolveLinked(id)
    BY <2>2, PeacefulStep
  <2>3. CASE ResolveAttack(id)
    <3>1. CASE TakeBody(id)
      BY <3>1, TakeBodyStep
    <3>2. CASE \E blocked \in BOOLEAN : Protect(id, blocked)
      BY <3>2, ProtectStep
    <3>3. CASE SettleProduction(id)
      BY <3>3, SettleStep
    <3>4. CASE BeginBattle(id)
      BY <3>4, BeginStep
    <3>5. CASE EnrollResidents(id)
      BY <3>5, ResidentsStep
    <3>6. CASE EnrollLeader(id)
      BY <3>6, LeaderStep
    <3>7. CASE EnrollLinked(id)
      BY <3>7, LinkedStep
    <3>8. CASE EnrollStationed(id)
      BY <3>8, StationedStep
    <3>9. CASE SealRoster(id)
      BY <3>9, SealStep
    <3>10. CASE AwaitResult(id)
      BY <3>10, AwaitStep
    <3>11. CASE Raid(id)
      BY <3>11, RaidStep
    <3>12. CASE ReturnMember(id)
      BY <3>12, ReturnStep
    <3>13. CASE FinishBattle(id)
      BY <3>13, FinishStep
    <3> QED BY <2>3, <3>1, <3>2, <3>3, <3>4, <3>5, <3>6, <3>7, <3>8, <3>9, <3>10, <3>11, <3>12, <3>13
            DEF ResolveAttack
  <2> QED BY <1>3, <2>1, <2>2, <2>3 DEF Resolve
<1>4. ASSUME NEW id \in DOMAIN missions,
             \/ RevealWord(id) \/ Referee(id) \/ ApplyLeaf(id)
             \/ ResetBattleResult(id) \/ VoidRefereeBattle(id)
      PROVE  Inv'
  BY <1>4, RevealStep, RefereeSteps, LeafStep, ResetStep, VoidStep
<1>5. CASE UNCHANGED vars
  <2>1. UNCHANGED <<now, missions, residents, stationed, linked, bodyLock, battle, ownerSteps>>
    BY <1>5 DEF vars
  <2>2. FleetTypes' /\ LockTypes' /\ ownerSteps' \in 0 .. MaxOwnerSteps
    BY <2>1 DEF Inv, FleetTypes, LockTypes
  <2>3. ListsOK' /\ Armed'
    BY <2>1 DEF Inv, ListsOK, Armed, Attacks, Holds, Of, Outbound
  <2>4. LockOK'
    <3>1. Attacks' = Attacks /\ Events' = Events
      BY <2>1 DEF Attacks, Holds, Of, Events, Outbound, Active, Arrival, Homecoming, HoldEnd
    <3> QED BY <2>1, <3>1 DEF Inv, LockOK, Outbound, Arrival, Before, Resting
  <2>5. ASSUME bodyLock # 0 PROVE BattleOK(bodyLock, battle[bodyLock])'
    <3>1. PICK a, b : a = bodyLock /\ b = battle[bodyLock]
      OBVIOUS
    <3>2. BattleOK(a, b)
      BY <2>5, <3>1 DEF Inv
    <3>3. \A m \in DOMAIN missions : Member(a, m)' <=> Member(a, m)
      BY <2>1 DEF Member, JoinedAttack, QualifiedDefender, Outbound
    <3>4. \A i \in DOMAIN b.rows : b.rows[i].source \in {0} \cup DOMAIN missions
      BY <3>2 DEF BattleOK, RowsAreTrue, Enrolled
    <3>5. BattleOK(a, b)'
      BY <2>1, <3>2, <3>3, <3>4, BattleCarry
    <3> QED BY <2>1, <3>1, <3>5
  <2> QED BY <2>1, <2>2, <2>3, <2>4, <2>5 DEF Inv
<1> QED BY <1>1, <1>2, <1>3, <1>4, <1>5 DEF Next

\* At every moment the one battle that is on is at its phase, and no other is.
THEOREM Invariant == Spec => []Inv
BY InitInv, InvStep, PTL DEF Spec

-----------------------------------------------------------------------------
(* What follows *)

\* A list is of what it holds.
LEMMA ListOf ==
    ASSUME NEW S, NEW T, NEW s \in Seq(S), ToSet(s) \subseteq T
    PROVE  s \in Seq(T)
<1>1. DOMAIN s = 1 .. Len(s) /\ Len(s) \in Nat /\ s = [i \in 1 .. Len(s) |-> s[i]]
  BY LenProperties
<1>2. \A i \in 1 .. Len(s) : s[i] \in T
  BY <1>1 DEF ToSet
<1> QED BY <1>1, <1>2, IsASeq

\* Every variable keeps its type, and battles name only missions that exist.
THEOREM Types == Spec => []TypeOK
<1>1. ASSUME Inv PROVE TypeOK
  <2>1. now \in Nat /\ ownerSteps \in 0 .. MaxOwnerSteps /\ missions \in Seq(Mission)
        /\ Len(missions) <= MaxMissions /\ residents \in [1 .. Lanes -> Nat]
    BY <1>1 DEF Inv, FleetTypes
  <2>2. stationed \in Seq(DOMAIN missions)
    <3>1. stationed \in Seq(Nat) /\ ToSet(stationed) \subseteq DOMAIN missions
      BY <1>1 DEF Inv, FleetTypes, ListsOK, Holds, Of
    <3> QED BY <3>1, ListOf
  <2>3. linked \in [Ids -> Seq(DOMAIN missions)]
    <3>1. linked \in [Ids -> Seq(Nat)] /\ \A a \in Ids : ToSet(linked[a]) \subseteq DOMAIN missions
      BY <1>1 DEF Inv, FleetTypes, ListsOK, Of
    <3>2. \A a \in Ids : linked[a] \in Seq(DOMAIN missions)
      BY <3>1, ListOf
    <3> QED BY <3>1, <3>2
  <2>4. bodyLock \in {0} \cup DOMAIN missions /\ DOMAIN battle = Ids
    BY <1>1 DEF Inv, LockTypes, LockOK, Attacks, Of
  <2>5. ASSUME NEW id \in Ids, NEW b, b = battle[id]
        PROVE  /\ DOMAIN b = DOMAIN NoBattle
               /\ b.phase \in {0, 1, 2, 3, 4, 5, 11, 12, 13, 14, 15, 16, 17}
               /\ {b.cursor, b.linkedLength, b.stationedLength, b.next} \subseteq Nat
               /\ b.enrolled \in Seq(DOMAIN missions) /\ b.rows \in Seq(Row) /\ b.blocked \in BOOLEAN
               /\ b.job \in {"Preparing", "AwaitingRandomness", "AwaitingResult", "Bypassed"}
               /\ b.request \in {"None", "Requested", "Sealed", "Revealed", "Consumed"}
               /\ b.application \in {"Unaccepted", "Applying", "Economics"}
               /\ b.result.lost \subseteq DOMAIN b.rows /\ b.result.good \in 0 .. Len(b.rows)
    <3>1. b \in Battle
      BY <1>1, <2>5 DEF Inv, LockTypes
    <3>2. DOMAIN b = DOMAIN NoBattle
      BY <3>1 DEF Battle, NoBattle
    <3>3. /\ b.phase \in Phases /\ b.cursor \in Nat /\ b.linkedLength \in Nat
          /\ b.stationedLength \in Nat /\ b.next \in Nat
          /\ b.enrolled \in Seq(Nat) /\ b.rows \in Seq(Row) /\ b.blocked \in BOOLEAN
          /\ b.job \in {"Preparing", "AwaitingRandomness", "AwaitingResult", "Bypassed"}
          /\ b.request \in {"None", "Requested", "Sealed", "Revealed", "Consumed"}
          /\ b.application \in {"Unaccepted", "Applying", "Economics"}
          /\ b.result \in [lost : SUBSET Nat, good : Nat]
      BY <3>1 DEF Battle
    <3>4. DOMAIN b.rows = 1 .. Len(b.rows) /\ Len(b.rows) \in Nat
      BY <3>1, RowTypes
    <3>5. ToSet(b.enrolled) \subseteq DOMAIN missions /\ (b.result = NoResult \/ ResultWithin(b))
      <4>1. CASE id = bodyLock
        <5>1. BattleOK(id, b)
          BY <1>1, <2>5, <4>1 DEF Inv, Ids
        <5> QED BY <5>1 DEF BattleOK, Enrolled, Progress, NoneApplied, Sealed
      <4>2. CASE id # bodyLock
        <5>1. b.enrolled = <<>> /\ b.result = NoResult
          BY <1>1, <2>5, <4>2 DEF Inv, LockOK, Resting
        <5> QED BY <5>1 DEF ToSet
      <4> QED BY <4>1, <4>2
    <3>6. b.enrolled \in Seq(DOMAIN missions)
      BY <3>3, <3>5, ListOf
    <3>7. b.result.lost \subseteq DOMAIN b.rows /\ b.result.good \in 0 .. Len(b.rows)
      BY <3>3, <3>4, <3>5 DEF ResultWithin, NoResult
    <3> QED BY <3>2, <3>3, <3>6, <3>7 DEF Phases
  <2> QED BY <2>1, <2>2, <2>3, <2>4, <2>5 DEF TypeOK
<1> QED BY <1>1, Invariant, PTL

\* The seal allows the word of a battle only when its roster is gathered.
LEMMA SealedPhase ==
    ASSUME Inv, NEW id \in Ids, battle[id].request \in {"Sealed", "Revealed", "Consumed"},
           battle[id].phase # 13
    PROVE  battle[id].phase \in Sealed \cup Economic
<1>1. CASE id = bodyLock
  <2>1. Progress(battle[id])
    BY <1>1 DEF Inv, BattleOK, Ids
  <2> QED BY <2>1 DEF Progress
<1>2. CASE id # bodyLock
  BY <1>2 DEF Inv, LockOK, Resting, NoBattle
<1> QED BY <1>1, <1>2

\* No step changes the roster of a battle that was sealed, until it is over.
LEMMA SealedStep ==
    ASSUME Inv, Next, NEW id \in DOMAIN missions, battle'[id].phase # 13,
           battle[id].request \in {"Sealed", "Revealed", "Consumed"}
    PROVE  battle'[id].rows = battle[id].rows /\ battle'[id].enrolled = battle[id].enrolled
<1> DEFINE Kept == battle'[id].rows = battle[id].rows /\ battle'[id].enrolled = battle[id].enrolled
<1>1. id \in Ids /\ battle \in [Ids -> Battle] /\ battle[id] \in Battle
  BY MissionIds DEF Inv, LockTypes
<1>2. battle[id].phase \in Sealed \cup Economic \cup {13}
  BY <1>1, SealedPhase
<1>3. ASSUME NEW a, NEW b, battle' = [battle EXCEPT ![a] = b],
             a = id => b.rows = battle[id].rows /\ b.enrolled = battle[id].enrolled
      PROVE  Kept
  BY <1>1, <1>3
<1>4. CASE battle' = battle
  BY <1>4
<1>5. CASE \E a \in DOMAIN missions : ResolveAttack(a)
  <2>1. PICK a \in DOMAIN missions : ResolveAttack(a)
    BY <1>5
  <2>2. CASE a # id
    <3>1. PICK b : battle' = [battle EXCEPT ![a] = b]
      BY <2>1 DEF ResolveAttack, TakeBody, Protect, SettleProduction, BeginBattle, EnrollResidents,
                  EnrollLeader, EnrollLinked, EnrollStationed, SealRoster, AwaitResult, Raid,
                  ReturnMember, FinishBattle, Advance
    <3> QED BY <1>3, <2>2, <3>1
  <2>3. CASE a = id
    <3>1. battle[id].phase \notin {0, 14, 15, 1, 2, 3, 4, 5}
      BY <1>2 DEF Sealed, Economic
    <3>2. \/ AwaitResult(id) \/ Raid(id) \/ ReturnMember(id) \/ FinishBattle(id)
      BY <2>1, <2>3, <3>1 DEF ResolveAttack, TakeBody, Protect, SettleProduction, BeginBattle,
                  EnrollResidents, EnrollLeader, EnrollLinked, EnrollStationed, SealRoster, Stage
    <3>3. CASE AwaitResult(id)
      BY <1>1, <3>3 DEF AwaitResult, Advance, Battle
    <3>4. CASE Raid(id)
      BY <1>1, <3>4 DEF Raid, Advance, Battle
    <3>5. CASE ReturnMember(id)
      BY <1>1, <3>5 DEF ReturnMember, Advance, Battle
    <3>6. CASE FinishBattle(id)
      <4>1. battle'[id].phase = 13
        BY <1>1, <3>6 DEF FinishBattle, Advance, NoBattle
      <4> QED BY <4>1
    <3> QED BY <3>2, <3>3, <3>4, <3>5, <3>6
  <2> QED BY <2>2, <2>3
<1>6. ASSUME NEW a \in DOMAIN missions,
             RevealWord(a) \/ Referee(a) \/ ApplyLeaf(a) \/ ResetBattleResult(a) \/ VoidRefereeBattle(a)
      PROVE  Kept
  <2>1. a \in Ids /\ battle[a] \in Battle
    BY MissionIds DEF Inv, LockTypes
  <2>2. CASE RevealWord(a)
    BY <1>1, <2>1, <2>2 DEF RevealWord, Advance, Battle
  <2>3. CASE Referee(a)
    <3>1. PICK result : SubmitBattleResult(a, result)
      BY <2>3 DEF Referee, HonestResult, WrongResult
    <3> QED BY <1>1, <2>1, <3>1 DEF SubmitBattleResult, Advance, Battle
  <2>4. CASE ApplyLeaf(a)
    BY <1>1, <2>1, <2>4 DEF ApplyLeaf, Advance, Battle
  <2>5. CASE ResetBattleResult(a)
    BY <1>1, <2>1, <2>5 DEF ResetBattleResult, Advance, Battle
  <2>6. CASE VoidRefereeBattle(a)
    BY <1>1, <2>1, <2>6 DEF VoidRefereeBattle, Advance, Battle
  <2> QED BY <1>6, <2>2, <2>3, <2>4, <2>5, <2>6
<1>7. CASE Tick \/ Players
  <2>1. battle' = battle
    BY <1>7 DEF Tick, Players, Join, LaunchAttack, LaunchDefenseHold, LaunchTransport,
                RecallFleetMission, RecallDefenseHold
  <2> QED BY <1>4, <2>1
<1>8. ASSUME NEW a \in DOMAIN missions,
             TransportArrives(a) \/ CompleteFleetMissionReturn(a) \/ ResolveDefenseHold(a) \/ ResolveLinked(a)
      PROVE  Kept
  <2>1. battle' = battle
    BY <1>8 DEF TransportArrives, CompleteFleetMissionReturn, ResolveDefenseHold, ResolveLinked
  <2> QED BY <1>4, <2>1
<1> QED BY <1>5, <1>6, <1>7, <1>8 DEF Next, Resolve

\* Whoever sees the word of a battle cannot change who fights in it: from the
\* seal on no step adds, drops or changes a row or a fleet of its roster.
THEOREM RosterStays == Spec => RosterFixedOnceSealed
<1>1. ASSUME Inv, [Next]_vars
      PROVE  [\A id \in DOMAIN missions :
                (battle[id].request \in {"Sealed", "Revealed", "Consumed"} /\ battle'[id].phase # 13)
                    => /\ battle'[id].rows = battle[id].rows
                       /\ battle'[id].enrolled = battle[id].enrolled]_vars
  <2>1. CASE Next
    BY <1>1, <2>1, SealedStep
  <2>2. CASE UNCHANGED vars
    BY <2>2
  <2> QED BY <1>1, <2>1, <2>2
<1> QED BY <1>1, Invariant, PTL DEF Spec, RosterFixedOnceSealed

\* An impact is fought when all that comes before it at the body is done, and
\* nothing is added to that past.
THEOREM OrderOfImpacts == Spec => []ImpactsInOrder
<1>1. ASSUME Inv PROVE ImpactsInOrder
  <2> SUFFICES ASSUME NEW id \in Attacks, Battling(id) PROVE \A e \in Events : ~Before(e, Arrival(id))
    BY DEF ImpactsInOrder
  <2>1. id \in Ids
    BY <1>1, MissionIds DEF Attacks, Of
  <2>2. id = bodyLock /\ id # 0
    BY <1>1, <2>1, BattleNow DEF Battling
  <2> QED BY <1>1, <2>2 DEF Inv, LockOK
<1> QED BY <1>1, Invariant, PTL

\* A battle goes on to its economics with all leaves of one result, or with
\* none if it was protected or voided.
THEOREM WholeResults == Spec => []AllOrNothing
<1>1. ASSUME Inv PROVE AllOrNothing
  <2> SUFFICES ASSUME NEW id \in DOMAIN missions, NEW b, b = battle[id], b.phase \in {11, 12}
               PROVE  IF b.blocked THEN b.next = 0 /\ b.application = "Unaccepted"
                      ELSE b.next = Len(b.rows) /\ b.result.good = Len(b.rows) /\ b.job = "AwaitingResult"
    BY DEF AllOrNothing
  <2>1. id \in Ids
    BY <1>1, MissionIds
  <2>2. Progress(b) /\ b \in Battle
    BY <1>1, <2>1, BattleNow DEF BattleOK
  <2>3. b.result.good \in Nat /\ Len(b.rows) \in Nat
    BY <2>2, RowTypes DEF Battle
  <2> QED BY <2>2, <2>3 DEF Progress, Economic, NoneApplied, ResultWithin
<1> QED BY <1>1, Invariant, PTL

\* From the seal to the return the units that are there are those of their
\* row, less its loss once its leaf is applied.
THEOREM LossesAreOfRows == Spec => []LossesFollowRows
<1>1. ASSUME Inv PROVE LossesFollowRows
  <2> SUFFICES ASSUME NEW id \in DOMAIN missions, NEW b, b = battle[id], b.phase \in {16, 17, 11, 12},
                      NEW i \in DOMAIN b.rows
               PROVE  Units(b.rows[i].source, b.rows[i].lane) =
                          IF i <= b.next /\ i \in b.result.lost THEN 0 ELSE b.rows[i].count
    BY DEF LossesFollowRows
  <2>1. id \in Ids
    BY <1>1, MissionIds
  <2>2. RowsAreTrue(b)
    BY <1>1, <2>1, BattleNow DEF BattleOK
  <2> QED BY <2>2 DEF RowsAreTrue, Loss
<1> QED BY <1>1, Invariant, PTL

\* The sealed roster is the body's whole force and nothing else, each fleet
\* once, with a row for each kind of units and their true count.
THEOREM RosterIsWhole == Spec => []RosterIsComplete
<1>1. ASSUME Inv PROVE RosterIsComplete
  <2> SUFFICES ASSUME NEW id \in DOMAIN missions, NEW b, b = battle[id], b.phase \in {16, 17}
               PROVE  /\ IsInjective(b.enrolled)
                      /\ ToSet(b.enrolled) = {id} \cup {m \in DOMAIN missions :
                                                  JoinedAttack(id, m) \/ QualifiedDefender(id, m)}
                      /\ b.next = 0 =>
                          /\ IsInjective(b.rows)
                          /\ {<<r.source, r.lane, r.count>> : r \in ToSet(b.rows)} =
                              {<<s, l, Units(s, l)>> : s \in {0}, l \in {k \in 1 .. Lanes : residents[k] > 0}}
                              \cup {<<m, 1, Units(m, 1)>> : m \in {k \in ToSet(b.enrolled) : missions[k].ships > 0}}
    BY DEF RosterIsComplete
  <2>1. id \in Ids
    BY <1>1, MissionIds
  <2>2. b \in Battle /\ BattleOK(id, b) /\ ~b.blocked /\ Scanned(b) = Lanes /\ b.phase \in Sealed
    BY <1>1, <2>1, BattleNow DEF BattleOK, Progress, Scanned, Sealed
  <2>3. ASSUME NEW m \in DOMAIN missions PROVE m \in ToSet(b.enrolled) <=> m = id \/ Member(id, m)
    <3>1. LookedAt(id, b, m)
      BY <2>2 DEF LookedAt, Sealed
    <3> QED BY <2>2, <3>1 DEF BattleOK, Enrolled
  <2>4. IsInjective(b.enrolled) /\ ToSet(b.enrolled) \subseteq DOMAIN missions
    BY <2>2 DEF BattleOK, Enrolled
  <2>5. ToSet(b.enrolled) = {id} \cup {m \in DOMAIN missions :
                                          JoinedAttack(id, m) \/ QualifiedDefender(id, m)}
    BY <2>3, <2>4 DEF Member
  <2>6. ASSUME b.next = 0
        PROVE  /\ IsInjective(b.rows)
               /\ {<<r.source, r.lane, r.count>> : r \in ToSet(b.rows)} =
                   {<<s, l, Units(s, l)>> : s \in {0}, l \in {k \in 1 .. Lanes : residents[k] > 0}}
                   \cup {<<m, 1, Units(m, 1)>> : m \in {k \in ToSet(b.enrolled) : missions[k].ships > 0}}
    <3> DEFINE Rows == {<<r.source, r.lane, r.count>> : r \in ToSet(b.rows)}
               Home == {<<s, l, Units(s, l)>> : s \in {0}, l \in {k \in 1 .. Lanes : residents[k] > 0}}
               Away == {<<m, 1, Units(m, 1)>> : m \in {k \in ToSet(b.enrolled) : missions[k].ships > 0}}
    <3>1. /\ DOMAIN b.rows = 1 .. Len(b.rows) /\ Len(b.rows) \in Nat
          /\ \A i \in DOMAIN b.rows :
                /\ b.rows[i].lane \in Nat /\ 1 <= b.rows[i].lane /\ b.rows[i].lane <= Lanes
                /\ b.rows[i].count \in Nat /\ b.rows[i].count > 0
      BY <2>2, RowTypes
    <3>2. \A i \in DOMAIN b.rows :
             /\ \/ b.rows[i].source = 0
                \/ b.rows[i].source \in ToSet(b.enrolled) /\ b.rows[i].lane = 1
             /\ Units(b.rows[i].source, b.rows[i].lane) = b.rows[i].count
      BY <2>2, <2>6, <3>1 DEF BattleOK, RowsAreTrue, Loss
    <3>3. IsInjective(b.rows)
      BY <2>2 DEF BattleOK, RowsAreTrue, IsInjective
    <3>4. /\ \A l \in 1 .. Lanes : residents[l] > 0 => HasRow(b, 0, l)
          /\ \A m \in ToSet(b.enrolled) : missions[m].ships > 0 => HasRow(b, m, 1)
      BY <2>2, <2>6 DEF BattleOK, RowsAreAll
    <3>5. 0 \notin DOMAIN missions /\ Lanes \in Nat
      BY <1>1, MissionIds, BattleConstants
    <3>6. ASSUME NEW i \in DOMAIN b.rows
          PROVE  <<b.rows[i].source, b.rows[i].lane, b.rows[i].count>> \in Home \cup Away
      <4>1. PICK s, l, n : s = b.rows[i].source /\ l = b.rows[i].lane /\ n = b.rows[i].count
        OBVIOUS
      <4>2. n > 0 /\ l \in 1 .. Lanes /\ Units(s, l) = n
        BY <3>1, <3>2, <3>5, <4>1
      <4>3. CASE s = 0
        <5>1. residents[l] > 0
          BY <4>2, <4>3 DEF Units
        <5> QED BY <4>1, <4>2, <4>3, <5>1
      <4>4. CASE s # 0
        <5>1. s \in ToSet(b.enrolled) /\ l = 1 /\ missions[s].ships > 0
          BY <3>2, <4>1, <4>2, <4>4 DEF Units
        <5> QED BY <4>1, <4>2, <5>1
      <4> QED BY <4>3, <4>4
    <3>7. ASSUME NEW s, NEW l, HasRow(b, s, l) PROVE <<s, l, Units(s, l)>> \in Rows
      <4>1. PICK i \in DOMAIN b.rows : b.rows[i].source = s /\ b.rows[i].lane = l
        BY <3>7 DEF HasRow
      <4>2. PICK r : r = b.rows[i]
        OBVIOUS
      <4>3. r \in ToSet(b.rows) /\ r.source = s /\ r.lane = l /\ r.count = Units(s, l)
        BY <3>2, <4>1, <4>2 DEF ToSet
      <4> QED BY <4>3
    <3>8. Rows \subseteq Home \cup Away
      BY <3>6 DEF ToSet
    <3>9. Home \subseteq Rows /\ Away \subseteq Rows
      BY <3>4, <3>7
    <3> QED BY <3>3, <3>8, <3>9
  <2> QED BY <2>4, <2>5, <2>6
<1> QED BY <1>1, Invariant, PTL

=============================================================================
