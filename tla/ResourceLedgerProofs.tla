------------------------ MODULE ResourceLedgerProofs ------------------------
(***************************************************************************)
(* The reserve always covers what circulates and what is locked, and the   *)
(* two counters are what the accounts hold, for any number of planets,     *)
(* missions and tokens.  The fleets come in because loot is added to a     *)
(* cargo: the mission must still be under way, which the lock on the body  *)
(* and the joined fleets' tie to their leader give.                        *)
(***************************************************************************)
EXTENDS ResourceLedger, FiniteSetTheorems, TLAPS

\* A fleet that joined an attack flies to the same body.
Followers ==
    \A m \in Ids : missions[m].leader # 0 =>
        /\ missions[m].kind \in {"AcsAttack", "AcsDefend"}
        /\ missions[missions[m].leader].kind = "Attack" => missions[m].to = missions[missions[m].leader].to

\* A battle has its attack and the lock, and who shares the loot is there.
Battles ==
    \A id \in Ids :
        /\ battle[id].phase # "none" =>
              missions[id].kind = "Attack" /\ bodyLock[missions[id].to[1]] = id
        /\ battle[id].phase \in {"loot", "share"} =>
              \A m \in Ids : battle[id].room[m] # 0 => m \in Attackers(id)

\* The type invariant in two halves, the first with the claims of the rifts.
AccountsOK ==
    /\ ClaimsAreLocked
    /\ {reserve, internal, locked} \subseteq Nat
    /\ bodies \subseteq Bodies /\ balance \in [Bodies -> Nat]
    /\ rift \in [Planets -> [active : BOOLEAN, amount : Nat]]
    /\ riftLocked \in [Planets -> Nat] /\ debris \in [Planets -> Nat]
    /\ treasury \in [balance : Nat, pending : Nat, carried : 0 .. BPS - 1]

FleetsOK ==
    /\ missions \in [Ids -> {NoMission} \cup
          [kind : Outward \cup {"homebound"}, from : Bodies, to : Bodies,
           leader : {0} \cup Ids, cargo : Nat]]
    /\ battle \in [Ids -> [phase : {"none", "loot", "share", "return"}, loot : Nat,
                           total : Nat, room : [Ids -> Nat], alive : SUBSET Ids]]
    /\ bodyLock \in [Planets -> {0} \cup Ids]

Inv == AccountsOK /\ FleetsOK /\ ReserveBacked /\ Followers /\ Battles

\* The types, in the parts that the steps change.
LEMMA TypeParts == TypeOK /\ ClaimsAreLocked <=> AccountsOK /\ FleetsOK
BY DEF TypeOK, AccountsOK, FleetsOK

\* Every body is a planet or the moon of one.
LEMMA BodiesAreOfPlanets ==
    ASSUME NEW b \in Bodies
    PROVE  b[1] \in Planets /\ Planet(b[1]) \in Bodies
BY LedgerConstants DEF Bodies, Planet

\* The lesser of two numbers.
LEMMA LeastIsLeast ==
    ASSUME NEW m \in Nat, NEW n \in Nat
    PROVE  Least(m, n) \in Nat /\ Least(m, n) <= m /\ Least(m, n) <= n
BY DEF Least

\* What is available is what the requirement leaves of the reserve.
LEMMA AvailableIsFree ==
    ASSUME AccountsOK, ReserveBacked
    PROVE  Available \in Nat /\ Requirement + Available = reserve
BY DEF AccountsOK, ReserveBacked, Available, Requirement

\* The treasury is paid no more than the reserve has free.
LEMMA BonusIsPaidFromFree ==
    ASSUME AccountsOK, NEW added \in Nat, NEW free \in Nat
    PROVE  /\ Bonus(added, free) \in [balance : Nat, pending : Nat, carried : 0 .. BPS - 1]
           /\ Bonus(added, free).balance - treasury.balance \in 0 .. free
<1> DEFINE scaled == added * BonusBps + treasury.carried
           owed == treasury.pending + scaled \div BPS
           paid == Least(owed, free)
<1>1. BPS \in Nat \ {0} /\ BonusBps \in Nat
  BY LedgerConstants
<1>2. treasury.carried \in Nat /\ treasury.pending \in Nat /\ treasury.balance \in Nat
  BY <1>1 DEF AccountsOK
<1>3. added * BonusBps \in Nat
  BY <1>1, SMT
<1>4. scaled \in Nat
  BY <1>2, <1>3
<1> HIDE DEF scaled
<1>5. scaled \div BPS \in Nat /\ scaled % BPS \in 0 .. BPS - 1
  BY <1>1, <1>4, SMT
<1>6. owed \in Nat
  BY <1>2, <1>5
<1> HIDE DEF owed
<1>7. paid \in Nat /\ paid <= owed /\ paid <= free
  BY <1>6, LeastIsLeast
<1> HIDE DEF paid
<1>8. Bonus(added, free) = [balance |-> treasury.balance + paid, pending |-> owed - paid, carried |-> scaled % BPS]
  BY DEF Bonus, paid, owed, scaled
<1> QED BY <1>2, <1>5, <1>6, <1>7, <1>8

-----------------------------------------------------------------------------
\* The books are empty when the game is deployed.
THEOREM InitInv == Init => Inv
<1> SUFFICES ASSUME Init PROVE Inv
  OBVIOUS
<1>1. AccountsOK
  BY LedgerConstants DEF Init, AccountsOK, ClaimsAreLocked, NoRift
<1>2. FleetsOK
  BY DEF Init, FleetsOK, NoBattle
<1>3. ReserveBacked
  BY DEF Init, ReserveBacked
<1>4. Followers
  BY DEF Init, Followers, NoMission
<1>5. Battles
  BY DEF Init, Battles, NoBattle
<1> QED BY <1>1, <1>2, <1>3, <1>4, <1>5 DEF Inv

-----------------------------------------------------------------------------
(* Steps that leave the fleets alone *)

\* Fleets and battles stay right while they stay as they are.
LEMMA FleetsStay ==
    ASSUME Inv, UNCHANGED fleets
    PROVE  FleetsOK' /\ Followers' /\ Battles'
<1> USE DEF Inv, fleets
<1>1. FleetsOK'
  BY DEF FleetsOK
<1>2. Followers'
  BY DEF Followers
<1>3. Battles'
  BY DEF Battles, Attackers
<1> QED BY <1>1, <1>2, <1>3

\* Deposits, withdrawals and claims keep the invariant.
LEMMA ReservesStep ==
    ASSUME Inv, Reserves
    PROVE  Inv'
<1>1. UNCHANGED <<counters, places, rifts, debris, fleets, treasury>>
  BY DEF Reserves, DepositReserves, ReleaseExcess, SetResourceToken
<1>2. reserve' \in Nat /\ Requirement <= reserve'
  <2>1. CASE \E n \in Steps : DepositReserves(n)
    BY <2>1, LedgerConstants DEF DepositReserves, Steps, Inv, AccountsOK, ReserveBacked, Requirement
  <2>2. CASE \E n \in Steps : ReleaseExcess(n)
    BY <2>2, LedgerConstants DEF ReleaseExcess, Steps, Inv, AccountsOK, Requirement
  <2>3. CASE \E held \in 0 .. MaxReserve : SetResourceToken(held)
    BY <2>3, LedgerConstants DEF SetResourceToken
  <2> QED BY <2>1, <2>2, <2>3 DEF Reserves
<1>3. AccountsOK'
  BY <1>1, <1>2 DEF Inv, AccountsOK, counters, places, rifts, ClaimsAreLocked
<1>4. ReserveBacked'
  BY <1>1, <1>2 DEF ReserveBacked, Requirement, counters
<1> QED BY <1>1, <1>3, <1>4, FleetsStay DEF Inv

\* The accounts of a step that moves one body's balance and the counter alike.
LEMMA MovesOneBody ==
    ASSUME AccountsOK, NEW b \in Bodies, NEW n \in Nat, NEW i,
           i \in Nat, internal' = i, balance' = [balance EXCEPT ![b] = n],
           UNCHANGED <<reserve, locked, bodies, rifts, debris, treasury>>
    PROVE  AccountsOK'
BY DEF AccountsOK, rifts, ClaimsAreLocked

\* What enters circulation is taken from what is available.
LEMMA IncreaseIsBacked ==
    ASSUME AccountsOK, ReserveBacked, NEW n \in Nat, Increase(n), UNCHANGED <<reserve, locked>>
    PROVE  internal' \in Nat /\ ReserveBacked'
BY DEF Increase, AccountsOK, ReserveBacked, Requirement

\* What leaves circulation frees what backed it.
LEMMA DecreaseIsBacked ==
    ASSUME AccountsOK, ReserveBacked, NEW n \in Nat, Decrease(n), UNCHANGED <<reserve, locked>>
    PROVE  internal' \in Nat /\ ReserveBacked'
BY DEF Decrease, AccountsOK, ReserveBacked

\* Production is credited no further than it is backed.
LEMMA SettleProductionStep ==
    ASSUME Inv, NEW p \in Planets, NEW produced \in 0 .. MaxStep, NEW burned \in 0 .. MaxStep,
           NEW member \in BOOLEAN, SettleProduction(p, produced, burned, member)
    PROVE  AccountsOK' /\ ReserveBacked'
<1> DEFINE left == balance[Planet(p)] - burned
           capped == IF left > StorageCap THEN left ELSE Least(left + produced, StorageCap)
           added == Least(capped - left, Available)
           free == reserve - (Requirement - burned + added)
           credited == IF member /\ added # 0 THEN Bonus(added, free) ELSE treasury
<1>1. /\ Planet(p) \in Bodies /\ balance[Planet(p)] \in Nat /\ produced \in Nat /\ burned \in Nat
      /\ StorageCap \in Nat /\ {reserve, internal, locked} \subseteq Nat
  BY LedgerConstants DEF Inv, AccountsOK, Bodies, Planet
<1>2. burned <= balance[Planet(p)] /\ burned <= internal
  BY DEF SettleProduction
<1>3. left \in Nat
  BY <1>1, <1>2
<1>4. balance' = [balance EXCEPT ![Planet(p)] = left + added]
  BY DEF SettleProduction
<1>5. treasury' = credited
  BY DEF SettleProduction
<1>6. internal' = internal - burned + added + (credited.balance - treasury.balance)
  BY DEF SettleProduction
<1>7. UNCHANGED <<reserve, locked, bodies, rifts, debris>>
  BY DEF SettleProduction
<1> HIDE DEF left
<1>8. capped - left \in Nat
  <2>1. CASE left > StorageCap
    BY <2>1, <1>3
  <2>2. CASE ~(left > StorageCap)
    <3>1. left + produced \in Nat
      BY <1>1, <1>3
    <3>2. Least(left + produced, StorageCap) \in Nat /\ Least(left + produced, StorageCap) >= left
      BY <3>1, <1>1, <1>3, <2>2 DEF Least
    <3> QED BY <3>2, <2>2, <1>3
  <2> QED BY <2>1, <2>2
<1> HIDE DEF capped
<1>9. Available \in Nat /\ Requirement + Available = reserve
  BY AvailableIsFree DEF Inv
<1>10. added \in Nat /\ added <= Available
  BY <1>8, <1>9, LeastIsLeast
<1> HIDE DEF added
<1>11. free \in Nat /\ internal + locked - burned + added + free = reserve
  BY <1>1, <1>2, <1>9, <1>10 DEF Requirement
<1> HIDE DEF free
<1>12. /\ credited \in [balance : Nat, pending : Nat, carried : 0 .. BPS - 1]
       /\ credited.balance - treasury.balance \in 0 .. free
  <2>1. CASE member /\ added # 0
    <3>1. credited = Bonus(added, free)
      BY <2>1
    <3> QED BY <3>1, <1>10, <1>11, BonusIsPaidFromFree DEF Inv
  <2>2. CASE ~(member /\ added # 0)
    BY <2>2, <1>11 DEF Inv, AccountsOK
  <2> QED BY <2>1, <2>2
<1> HIDE DEF credited
<1>13. internal' \in Nat /\ internal' + locked <= reserve
  BY <1>1, <1>2, <1>6, <1>10, <1>11, <1>12
<1>14. left + added \in Nat
  BY <1>3, <1>10
<1>15. AccountsOK'
  BY <1>1, <1>4, <1>5, <1>7, <1>12, <1>13, <1>14 DEF Inv, AccountsOK, rifts, ClaimsAreLocked
<1>16. ReserveBacked'
  BY <1>7, <1>13 DEF ReserveBacked
<1> QED BY <1>15, <1>16

\* What a planet does by itself keeps the invariant.
LEMMA PlanetOpsStep ==
    ASSUME Inv, NEW p \in Planets, PlanetOps(p)
    PROVE  Inv'
<1>0. AccountsOK /\ ReserveBacked /\ Planet(p) \in Bodies /\ {reserve, internal, locked} \subseteq Nat
  BY DEF Inv, AccountsOK, Bodies, Planet
<1> SUFFICES AccountsOK' /\ ReserveBacked' /\ UNCHANGED fleets
  BY FleetsStay DEF Inv
<1>1. CASE StartPlanet(p, Starting)
  <2>1. internal' \in Nat /\ ReserveBacked'
    BY <1>0, <1>1, LedgerConstants, IncreaseIsBacked DEF StartPlanet
  <2>2. AccountsOK'
    BY <1>0, <1>1, <2>1, LedgerConstants DEF StartPlanet, AccountsOK, ClaimsAreLocked, NoRift
  <2> QED BY <1>1, <2>1, <2>2 DEF StartPlanet
<1>2. CASE CreateMoon(p)
  <2>1. Moon(p) \in Bodies
    BY <1>2 DEF CreateMoon, Bodies, Moon
  <2> QED BY <1>0, <1>2, <2>1 DEF CreateMoon, AccountsOK, ReserveBacked, counters, rifts, ClaimsAreLocked
<1>3. CASE DestroyMoon(p)
  <2>1. Moon(p) \in Bodies /\ balance[Moon(p)] \in Nat
    BY <1>0, <1>3 DEF DestroyMoon, Usable, AccountsOK
  <2>2. internal' \in Nat /\ ReserveBacked'
    BY <1>0, <1>3, <2>1, DecreaseIsBacked DEF DestroyMoon
  <2> QED BY <1>0, <1>3, <2>1, <2>2 DEF DestroyMoon, AccountsOK, rifts, ClaimsAreLocked
<1>4. CASE FinalizeRift(p)
  <2>1. rift[p].amount \in Nat /\ riftLocked[p] \in Nat
    BY <1>0 DEF AccountsOK
  <2>2. {reserve', locked'} \subseteq Nat /\ riftLocked' \in [Planets -> Nat]
    BY <1>0, <1>4, <2>1 DEF FinalizeRift, AccountsOK
  <2>3. ReserveBacked'
    BY <1>0, <1>4, <2>1 DEF FinalizeRift, ReserveBacked
  <2> QED BY <1>0, <1>4, <2>2, <2>3 DEF FinalizeRift, AccountsOK, ClaimsAreLocked, NoRift, places
<1>5. CASE AbandonPlanet(p)
  BY <1>0, <1>5 DEF AbandonPlanet, AccountsOK, ReserveBacked, counters, rifts, ClaimsAreLocked
<1>6. CASE DiscardStarted(p)
  <2>1. balance[Planet(p)] \in Nat
    BY <1>0 DEF AccountsOK
  <2>2. internal' \in Nat /\ ReserveBacked'
    BY <1>0, <1>6, <2>1, DecreaseIsBacked DEF DiscardStarted
  <2> QED BY <1>0, <1>6, <2>2 DEF DiscardStarted, AccountsOK, ClaimsAreLocked, NoRift
<1>7. CASE \E produced, burned \in 0 .. MaxStep, member \in BOOLEAN :
             SettleProduction(p, produced, burned, member)
  <2>1. UNCHANGED fleets
    BY <1>7 DEF SettleProduction
  <2> QED BY <1>7, <2>1, SettleProductionStep
<1>8. ASSUME NEW n \in Steps, WithdrawBonus(p, n)
      PROVE  AccountsOK' /\ ReserveBacked' /\ UNCHANGED fleets
  <2>1. n \in Nat
    BY LedgerConstants DEF Steps
  <2>2. treasury' \in [balance : Nat, pending : Nat, carried : 0 .. BPS - 1]
    BY <1>0, <1>8, <2>1 DEF WithdrawBonus, AccountsOK
  <2> QED BY <1>0, <1>8, <2>1, <2>2 DEF WithdrawBonus, Credit, AccountsOK, ReserveBacked, counters, rifts, ClaimsAreLocked
<1>9. ASSUME NEW n \in Steps, CancelBuildingDemolition(p, n)
      PROVE  AccountsOK' /\ ReserveBacked' /\ UNCHANGED fleets
  <2>1. n \in Nat /\ balance[Planet(p)] \in Nat
    BY <1>0, LedgerConstants DEF Steps, AccountsOK
  <2>2. internal' \in Nat /\ ReserveBacked'
    BY <1>0, <1>9, <2>1, IncreaseIsBacked DEF CancelBuildingDemolition
  <2> QED BY <1>0, <1>9, <2>1, <2>2 DEF CancelBuildingDemolition, Credit, AccountsOK, rifts, ClaimsAreLocked
<1>10. ASSUME NEW n \in Steps, DepositMarketResource(p, n)
       PROVE  AccountsOK' /\ ReserveBacked' /\ UNCHANGED fleets
  <2>1. n \in Nat /\ balance[Planet(p)] \in Nat
    BY <1>0, LedgerConstants DEF Steps, AccountsOK
  <2> QED BY <1>0, <1>10, <2>1 DEF DepositMarketResource, Credit, AccountsOK, ReserveBacked, rifts, ClaimsAreLocked
<1>11. ASSUME NEW n \in Steps, GrantMoonResources(p, n)
       PROVE  AccountsOK' /\ ReserveBacked' /\ UNCHANGED fleets
  <2>1. n \in Nat /\ Moon(p) \in Bodies /\ balance[Moon(p)] \in Nat
    BY <1>0, <1>11, LedgerConstants DEF Steps, AccountsOK, GrantMoonResources, Usable
  <2>2. internal' \in Nat /\ ReserveBacked'
    BY <1>0, <1>11, <2>1, IncreaseIsBacked DEF GrantMoonResources
  <2> QED BY <1>0, <1>11, <2>1, <2>2 DEF GrantMoonResources, Credit, AccountsOK, rifts, ClaimsAreLocked
<1>12. ASSUME NEW n \in Steps, StartRift(p, n)
       PROVE  AccountsOK' /\ ReserveBacked' /\ UNCHANGED fleets
  <2>1. n \in Nat /\ balance[Planet(p)] \in Nat /\ riftLocked[p] \in Nat
    BY <1>0, LedgerConstants DEF Steps, AccountsOK
  <2>2. internal' \in Nat /\ locked' \in Nat /\ balance' \in [Bodies -> Nat]
    BY <1>0, <1>12, <2>1 DEF StartRift, Debit, Decrease, AccountsOK
  <2>3. ReserveBacked'
    BY <1>0, <1>12, <2>1 DEF StartRift, Decrease, ReserveBacked
  <2> QED BY <1>0, <1>12, <2>1, <2>2, <2>3 DEF StartRift, AccountsOK, ClaimsAreLocked
<1>13. ASSUME NEW n \in Steps, NEW b \in {Planet(p), Moon(p)} \cap bodies, Spend(b, n)
       PROVE  AccountsOK' /\ ReserveBacked' /\ UNCHANGED fleets
  <2>1. n \in Nat /\ b \in Bodies /\ balance[b] \in Nat
    BY <1>0, LedgerConstants DEF Steps, AccountsOK
  <2>2. internal' \in Nat /\ ReserveBacked'
    BY <1>0, <1>13, <2>1, DecreaseIsBacked DEF Spend
  <2> QED BY <1>0, <1>13, <2>1, <2>2 DEF Spend, Debit, AccountsOK, rifts, ClaimsAreLocked
<1> QED BY <1>1, <1>2, <1>3, <1>4, <1>5, <1>6, <1>7, <1>8, <1>9, <1>10, <1>11, <1>12, <1>13
        DEF PlanetOps

-----------------------------------------------------------------------------
(* Fleets *)

\* The missions of a step that starts, turns or ends one of them.
LEMMA MissionsOf ==
    ASSUME Inv, NEW id \in Ids, Active(id)
    PROVE  /\ missions[id] \in [kind : Outward \cup {"homebound"}, from : Bodies, to : Bodies,
                                 leader : {0} \cup Ids, cargo : Nat]
           /\ \A c \in Nat : Homeward(missions[id], c) \in
                [kind : Outward \cup {"homebound"}, from : Bodies, to : Bodies,
                 leader : {0} \cup Ids, cargo : Nat]
BY DEF Inv, FleetsOK, Active, Homeward

\* A fleet's leader is a mission, and its cargo a number.
LEMMA LeadersAreMissions ==
    ASSUME Inv, NEW id \in Ids
    PROVE  missions[id].leader \in {0} \cup Ids /\ missions[id].cargo \in Nat
<1>1. CASE Active(id)
  BY <1>1, MissionsOf
<1>2. CASE ~Active(id)
  BY <1>2 DEF Active, NoMission
<1> QED BY <1>1, <1>2

\* A launch moves cargo from the account to the fleet and burns its fuel.
LEMMA LaunchFleetStep ==
    ASSUME Inv, NEW from \in bodies, NEW to \in Bodies, NEW kind \in Outward, NEW leader \in {0} \cup Ids,
           NEW cargo \in Nat, NEW fuel \in Nat, NEW support \in Nat,
           leader # 0 => /\ kind \in {"AcsAttack", "AcsDefend"}
                         /\ missions[leader].kind = "Attack" /\ missions[leader].to = to,
           LaunchFleet(kind, from, to, leader, cargo, fuel, support)
    PROVE  Inv'
<1> DEFINE m == [kind |-> kind, from |-> from, to |-> to, leader |-> leader, cargo |-> cargo]
<1>1. PICK id \in Ids : /\ ~Active(id)
                         /\ \A x \in Ids : missions[x].leader # id
                         /\ missions' = [missions EXCEPT ![id] = m]
  BY DEF LaunchFleet
<1>2. UNCHANGED <<reserve, locked, bodies, rifts, debris, battle, bodyLock, treasury>>
  BY DEF LaunchFleet
<1>3. from \in Bodies /\ balance \in [Bodies -> Nat] /\ {reserve, internal, locked} \subseteq Nat
  BY DEF Inv, AccountsOK
<1>4. internal' \in Nat /\ ReserveBacked'
  BY <1>2, <1>3 DEF LaunchFleet, Inv, ReserveBacked
<1>5. balance' \in [Bodies -> Nat]
  <2> DEFINE paid == [balance EXCEPT ![to] = @ - support]
  <2>1. support <= balance[to] /\ cargo + fuel <= paid[from] /\ balance' = [paid EXCEPT ![from] = @ - (cargo + fuel)]
    BY DEF LaunchFleet
  <2>2. paid \in [Bodies -> Nat]
    BY <1>3, <2>1
  <2> HIDE DEF paid
  <2> QED BY <1>3, <2>1, <2>2
<1>6. AccountsOK'
  BY <1>2, <1>4, <1>5 DEF Inv, AccountsOK, rifts, ClaimsAreLocked
<1>7. m \in [kind : Outward \cup {"homebound"}, from : Bodies, to : Bodies, leader : {0} \cup Ids, cargo : Nat]
  BY <1>3
<1>8. FleetsOK'
  BY <1>1, <1>2, <1>7 DEF Inv, FleetsOK
<1>9. missions[id].kind = "none" /\ missions \in [Ids -> {missions[x] : x \in Ids}]
  BY <1>1 DEF Active, NoMission, Inv, FleetsOK
<1>10. leader # id
  <2>1. id # 0
    BY LedgerConstants DEF Ids
  <2> QED BY <1>9, <2>1
<1>11. \A x \in Ids : x # id => missions'[x] = missions[x]
  BY <1>1, <1>9
<1>12. missions'[id].kind = kind /\ missions'[id].leader = leader /\ missions'[id].to = to
  BY <1>1, <1>9
<1>13. Followers'
  <2> SUFFICES ASSUME NEW x \in Ids, missions'[x].leader # 0
               PROVE  /\ missions'[x].kind \in {"AcsAttack", "AcsDefend"}
                      /\ missions'[missions'[x].leader].kind = "Attack" =>
                            missions'[x].to = missions'[missions'[x].leader].to
    BY DEF Followers
  <2>1. CASE x = id
    BY <2>1, <1>10, <1>11, <1>12
  <2>2. CASE x # id
    <3>1. missions[x].leader # 0 /\ missions[x].leader # id
      BY <2>2, <1>1, <1>11
    <3>2. missions[x].leader \in Ids
      BY <3>1, LeadersAreMissions
    <3> QED BY <2>2, <3>1, <3>2, <1>11 DEF Inv, Followers
  <2> QED BY <2>1, <2>2
<1>14. Battles'
  <2> SUFFICES ASSUME NEW x \in Ids
               PROVE  /\ battle[x].phase # "none" =>
                            missions'[x].kind = "Attack" /\ bodyLock[missions'[x].to[1]] = x
                      /\ battle[x].phase \in {"loot", "share"} =>
                            \A y \in Ids : battle[x].room[y] # 0 => y \in Attackers(x)'
    BY <1>2 DEF Battles
  <2>1. battle[x].phase # "none" => x # id
    BY <1>9 DEF Inv, Battles
  <2>2. \A y \in Ids : y \in Attackers(x) /\ battle[x].phase # "none" => y \in Attackers(x)'
    BY <2>1, <1>9, <1>11 DEF Attackers
  <2> QED BY <2>1, <2>2, <1>11 DEF Inv, Battles
<1> QED BY <1>4, <1>6, <1>8, <1>13, <1>14 DEF Inv

\* Every launch keeps the invariant.
LEMMA LaunchesStep ==
    ASSUME Inv, Launches
    PROVE  Inv'
<1>1. 0 .. MaxStep \subseteq Nat /\ bodies \subseteq Bodies
  BY LedgerConstants DEF Inv, AccountsOK
<1>2. PICK from \in bodies :
         \/ \E kind \in {"Transport", "Deploy", "Attack", "DefenseHold", "Harvest"}, to \in bodies :
                LaunchMission(kind, from, to)
         \/ \E kind \in {"AcsAttack", "AcsDefend"}, id \in Ids : JoinAttack(kind, id, from)
  BY DEF Launches
<1>3. ASSUME NEW kind \in {"Transport", "Deploy", "Attack", "DefenseHold", "Harvest"}, NEW to \in bodies,
             LaunchMission(kind, from, to)
      PROVE  Inv'
  BY <1>1, <1>3, LaunchFleetStep DEF LaunchMission, Outward
<1>4. ASSUME NEW kind \in {"AcsAttack", "AcsDefend"}, NEW id \in Ids, JoinAttack(kind, id, from)
      PROVE  Inv'
  <2>1. missions[id].kind = "Attack" /\ id # 0
    BY <1>4 DEF JoinAttack, Ids
  <2>2. missions[id].to \in Bodies
    BY <2>1, MissionsOf DEF Active, NoMission
  <2> QED BY <1>1, <1>4, <2>1, <2>2, LaunchFleetStep DEF JoinAttack, Outward
<1> QED BY <1>2, <1>3, <1>4

\* A fleet that no battle holds may turn round or end.
LEMMA LeavesTheWay ==
    ASSUME Inv, NEW id \in Ids, NEW r,
           r \in {NoMission} \cup [kind : {"homebound"}, from : Bodies, to : Bodies, leader : {0}, cargo : Nat],
           \A x \in Ids : battle[x].phase # "none" => id # x,
           \A x \in Ids : battle[x].phase \in {"loot", "share"} => id \notin Attackers(x),
           missions' = [missions EXCEPT ![id] = r], UNCHANGED <<battle, bodyLock>>
    PROVE  FleetsOK' /\ Followers' /\ Battles'
<1>1. \A x \in Ids : x # id => missions'[x] = missions[x]
  BY DEF Inv, FleetsOK
<1>2. missions'[id] = r /\ r.leader = 0 /\ r.kind # "Attack"
  BY DEF Inv, FleetsOK, NoMission
<1>3. FleetsOK'
  BY DEF Inv, FleetsOK
<1>4. Followers'
  <2> SUFFICES ASSUME NEW x \in Ids, missions'[x].leader # 0
               PROVE  /\ missions'[x].kind \in {"AcsAttack", "AcsDefend"}
                      /\ missions'[missions'[x].leader].kind = "Attack" =>
                            missions'[x].to = missions'[missions'[x].leader].to
    BY DEF Followers
  <2>1. x # id
    BY <1>2
  <2>2. missions'[x] = missions[x] /\ missions[x].leader \in Ids
    BY <1>1, <2>1, LeadersAreMissions
  <2> QED BY <1>1, <1>2, <2>2 DEF Inv, Followers
<1>5. Battles'
  <2> SUFFICES ASSUME NEW x \in Ids
               PROVE  /\ battle[x].phase # "none" =>
                            missions'[x].kind = "Attack" /\ bodyLock[missions'[x].to[1]] = x
                      /\ battle[x].phase \in {"loot", "share"} =>
                            \A y \in Ids : battle[x].room[y] # 0 => y \in Attackers(x)'
    BY DEF Battles
  <2>1. battle[x].phase # "none" => missions'[x] = missions[x]
    BY <1>1
  <2>2. ASSUME NEW y \in Ids, y \in Attackers(x), battle[x].phase \in {"loot", "share"}
        PROVE  y \in Attackers(x)'
    <3>1. y # id
      BY <2>2
    <3>2. missions'[y] = missions[y]
      BY <1>1, <3>1
    <3> QED BY <2>2, <3>2 DEF Attackers
  <2> QED BY <2>1, <2>2 DEF Inv, Battles
<1> QED BY <1>3, <1>4, <1>5

\* A fleet that may turn round is in no battle.
LEMMA CalmFleetsAreFree ==
    ASSUME Inv, NEW id \in Ids, Outbound(id), Calm(id), NEW x \in Ids, battle[x].phase # "none"
    PROVE  id # x /\ id \notin Attackers(x)
<1>1. missions[x].kind = "Attack" /\ bodyLock[missions[x].to[1]] = x /\ x # 0
  BY LedgerConstants DEF Inv, Battles, Ids
<1>2. id # x
  BY <1>1 DEF Calm
<1>3. missions[id].leader = x => missions[id].to = missions[x].to
  BY <1>1 DEF Inv, Followers
<1> QED BY <1>1, <1>2, <1>3 DEF Calm, Attackers

\* A fleet on its way out holds its cargo.
LEMMA OutboundIsActive ==
    ASSUME NEW id \in Ids, Outbound(id)
    PROVE  Active(id)
BY DEF Outbound, Active, NoMission, Outward

\* A fleet outside of battles may turn round, with whatever it then carries.
LEMMA TurnsRound ==
    ASSUME Inv, NEW id \in Ids, Outbound(id), Calm(id), NEW c \in Nat, Turn(id, c),
           UNCHANGED <<battle, bodyLock>>
    PROVE  FleetsOK' /\ Followers' /\ Battles'
<1>1. Homeward(missions[id], c) \in [kind : {"homebound"}, from : Bodies, to : Bodies, leader : {0}, cargo : Nat]
  BY OutboundIsActive, MissionsOf DEF Homeward
<1>2. missions' = [missions EXCEPT ![id] = Homeward(missions[id], c)]
  BY DEF Turn, Inv, FleetsOK
<1> QED BY <1>1, <1>2, CalmFleetsAreFree, LeavesTheWay

\* Arrivals, returns, recalls and landings keep the invariant.
LEMMA FlightsStep ==
    ASSUME Inv, NEW id \in Ids, Flights(id)
    PROVE  Inv'
<1> USE DEF Inv
<1>0. /\ {reserve, internal, locked} \subseteq Nat /\ balance \in [Bodies -> Nat]
      /\ debris \in [Planets -> Nat] /\ missions[id].cargo \in Nat
  BY LeadersAreMissions DEF AccountsOK
<1>1. CASE Recall(id)
  <2>1. FleetsOK' /\ Followers' /\ Battles'
    BY <1>0, <1>1, TurnsRound DEF Recall
  <2> QED BY <1>1, <2>1 DEF Recall, AccountsOK, ReserveBacked, counters, places, rifts, ClaimsAreLocked
<1>2. CASE TurnBack(id)
  <2>1. FleetsOK' /\ Followers' /\ Battles'
    BY <1>0, <1>2, TurnsRound DEF TurnBack
  <2> QED BY <1>2, <2>1 DEF TurnBack, AccountsOK, ReserveBacked, counters, places, rifts, ClaimsAreLocked
<1>3. CASE TransportArrives(id)
  <2>1. FleetsOK' /\ Followers' /\ Battles'
    BY <1>3, TurnsRound DEF TransportArrives
  <2>2. balance' \in [Bodies -> Nat]
    BY <1>0, <1>3 DEF TransportArrives, Credit, AccountsOK
  <2> QED BY <1>3, <2>1, <2>2 DEF TransportArrives, AccountsOK, ReserveBacked, counters, rifts, ClaimsAreLocked
<1>4. CASE DeployArrives(id)
  <2>1. missions' = [missions EXCEPT ![id] = NoMission]
    BY <1>4 DEF DeployArrives, Over
  <2>2. FleetsOK' /\ Followers' /\ Battles'
    BY <1>4, <2>1, CalmFleetsAreFree, LeavesTheWay DEF DeployArrives
  <2>3. balance' \in [Bodies -> Nat]
    BY <1>0, <1>4 DEF DeployArrives, Credit, AccountsOK
  <2> QED BY <1>4, <2>2, <2>3 DEF DeployArrives, AccountsOK, ReserveBacked, counters, rifts, ClaimsAreLocked
<1>5. ASSUME NEW n \in 0 .. MaxStep, HarvestArrives(id, n)
      PROVE  Inv'
  <2>1. n \in Nat
    BY LedgerConstants
  <2>2. FleetsOK' /\ Followers' /\ Battles'
    <3>1. missions[id].cargo + n \in Nat
      BY <1>0, <2>1
    <3> QED BY <1>5, <3>1, TurnsRound DEF HarvestArrives
  <2>3. debris' \in [Planets -> Nat]
    <3> DEFINE p == missions[id].to[1]
    <3>1. n <= debris[p] /\ debris' = [debris EXCEPT ![p] = @ - n]
      BY <1>5 DEF HarvestArrives
    <3>2. p \in Planets
      <4>1. missions[id].to \in Bodies
        BY <1>5, MissionsOf, OutboundIsActive DEF HarvestArrives
      <4> QED BY <4>1, BodiesAreOfPlanets
    <3> HIDE DEF p
    <3>3. debris[p] \in Nat /\ debris[p] - n \in Nat
      BY <1>0, <2>1, <3>1, <3>2
    <3> QED BY <1>0, <3>1, <3>2, <3>3
  <2> QED BY <1>5, <2>2, <2>3 DEF HarvestArrives, AccountsOK, ReserveBacked, counters, places, rifts, ClaimsAreLocked
<1>6. CASE Land(id)
  <2>1. missions' = [missions EXCEPT ![id] = NoMission] /\ missions[id].kind = "homebound"
    BY <1>6 DEF Land, Over
  <2>2. /\ \A x \in Ids : battle[x].phase # "none" => id # x
        /\ \A x \in Ids : battle[x].phase \in {"loot", "share"} => id \notin Attackers(x)
    BY <2>1 DEF Battles, Attackers
  <2>3. FleetsOK' /\ Followers' /\ Battles'
    BY <1>6, <2>1, <2>2, LeavesTheWay DEF Land
  <2>4. balance' \in [Bodies -> Nat]
    <3> DEFINE m == missions[id]
               at == IF m.from \in bodies THEN m.from ELSE Planet(m.from[1])
    <3>1. balance' = [balance EXCEPT ![at] = @ + m.cargo]
      BY <1>6 DEF Land, Credit
    <3>2. m.cargo \in Nat
      BY <1>0
    <3>3. at \in Bodies
      <4>1. m.from \in Bodies
        BY <2>1, MissionsOf DEF Active, NoMission
      <4> QED BY <4>1, BodiesAreOfPlanets
    <3> HIDE DEF m, at
    <3>4. balance[at] + m.cargo \in Nat
      BY <1>0, <3>2, <3>3
    <3> QED BY <1>0, <3>1, <3>3, <3>4
  <2> QED BY <1>6, <2>3, <2>4 DEF Land, AccountsOK, ReserveBacked, counters, rifts, ClaimsAreLocked
<1> QED BY <1>1, <1>2, <1>3, <1>4, <1>5, <1>6 DEF Flights

-----------------------------------------------------------------------------
(* Battles *)

\* A step of one battle that keeps its attack, its lock and its sharers.
LEMMA BattleGoesOn ==
    ASSUME Inv, NEW id \in Ids, battle[id].phase # "none",
           NEW b, b \in [phase : {"loot", "share", "return"}, loot : Nat, total : Nat,
                         room : [Ids -> Nat], alive : SUBSET Ids],
           b.phase \in {"loot", "share"} =>
              battle[id].phase \in {"loot", "share"} /\ \A m \in Ids : b.room[m] # 0 => battle[id].room[m] # 0,
           battle' = [battle EXCEPT ![id] = b],
           missions' \in [Ids -> {NoMission} \cup
               [kind : Outward \cup {"homebound"}, from : Bodies, to : Bodies,
                leader : {0} \cup Ids, cargo : Nat]],
           \A m \in Ids : /\ missions'[m].kind = missions[m].kind /\ missions'[m].to = missions[m].to
                         /\ missions'[m].leader = missions[m].leader,
           UNCHANGED bodyLock
    PROVE  FleetsOK' /\ Followers' /\ Battles'
<1>1. FleetsOK'
  BY DEF Inv, FleetsOK
<1>2. Followers'
  <2> SUFFICES ASSUME NEW x \in Ids, missions'[x].leader # 0
               PROVE  /\ missions'[x].kind \in {"AcsAttack", "AcsDefend"}
                      /\ missions'[missions'[x].leader].kind = "Attack" =>
                            missions'[x].to = missions'[missions'[x].leader].to
    BY DEF Followers
  <2>1. missions'[x].leader = missions[x].leader /\ missions[x].leader \in Ids
    BY LeadersAreMissions
  <2> QED BY <2>1 DEF Inv, Followers
<1>3. battle'[id] = b /\ \A x \in Ids : x # id => battle'[x] = battle[x]
  BY DEF Inv, FleetsOK
<1>4. Battles'
  <2> SUFFICES ASSUME NEW x \in Ids
               PROVE  /\ battle'[x].phase # "none" =>
                            missions'[x].kind = "Attack" /\ bodyLock[missions'[x].to[1]] = x
                      /\ battle'[x].phase \in {"loot", "share"} =>
                            \A y \in Ids : battle'[x].room[y] # 0 => y \in Attackers(x)'
    BY DEF Battles
  <2>1. \A y \in Ids : y \in Attackers(x) => y \in Attackers(x)'
    BY DEF Attackers
  <2>2. battle'[x].phase # "none" => battle[x].phase # "none"
    BY <1>3
  <2>3. battle'[x].phase \in {"loot", "share"} =>
            battle[x].phase \in {"loot", "share"} /\ \A y \in Ids : battle'[x].room[y] # 0 => battle[x].room[y] # 0
    BY <1>3
  <2> QED BY <2>1, <2>2, <2>3 DEF Inv, Battles
<1> QED BY <1>1, <1>2, <1>4

\* The beginning of a battle keeps the invariant.
LEMMA FightStep ==
    ASSUME Inv, NEW id \in Ids, Fight(id)
    PROVE  Inv'
<1> DEFINE p == missions[id].to[1]
<1>0. PICK alive \in SUBSET Fighters(id) :
         \E measured \in [Attackers(id) \cap alive -> 0 .. MaxStep], total \in 0 .. Slots * MaxStep :
            /\ total = Sum(measured)
            /\ battle' = [battle EXCEPT ![id] =
                [phase |-> IF total = 0 THEN "return" ELSE "loot", loot |-> 0, total |-> total,
                 room |-> [m \in Ids |-> IF m \in DOMAIN measured THEN measured[m] ELSE 0],
                 alive |-> alive]]
  BY Zenon DEF Fight
<1>1. PICK measured \in [Attackers(id) \cap alive -> 0 .. MaxStep], total \in 0 .. Slots * MaxStep :
         battle' = [battle EXCEPT ![id] =
                [phase |-> IF total = 0 THEN "return" ELSE "loot", loot |-> 0, total |-> total,
                 room |-> [m \in Ids |-> IF m \in DOMAIN measured THEN measured[m] ELSE 0],
                 alive |-> alive]]
  BY <1>0
<1> DEFINE room == [m \in Ids |-> IF m \in DOMAIN measured THEN measured[m] ELSE 0]
           phase == IF total = 0 THEN "return" ELSE "loot"
           b == [phase |-> phase, loot |-> 0, total |-> total, room |-> room, alive |-> alive]
<1>2. /\ missions[id].kind = "Attack" /\ bodyLock[p] = 0 /\ bodyLock' = [bodyLock EXCEPT ![p] = id]
      /\ UNCHANGED <<reserve, counters, places, rifts, debris, missions, treasury>>
  BY DEF Fight, Calm
<1>3. battle' = [battle EXCEPT ![id] = b]
  BY <1>1
<1>4. Attackers(id) \subseteq Ids /\ Fighters(id) \subseteq Ids
  BY DEF Attackers, Fighters
<1>5. 0 .. MaxStep \subseteq Nat /\ total \in Nat
  BY LedgerConstants, SMT
<1>6. room \in [Ids -> Nat] /\ \A m \in Ids : room[m] # 0 => m \in Attackers(id)
  BY <1>5
<1> HIDE DEF room
<1>7. b \in [phase : {"none", "loot", "share", "return"}, loot : Nat, total : Nat,
             room : [Ids -> Nat], alive : SUBSET Ids]
  BY <1>4, <1>5, <1>6
<1>8. p \in Planets /\ missions[id].to \in Bodies
  <2>1. missions[id].to \in Bodies
    BY <1>2, MissionsOf DEF Active, NoMission
  <2> QED BY <2>1, BodiesAreOfPlanets
<1> HIDE DEF p
<1>9. FleetsOK'
  BY <1>2, <1>3, <1>7, <1>8 DEF Inv, FleetsOK
<1>10. Followers'
  BY <1>2 DEF Inv, Followers
<1>11. Battles'
  <2> SUFFICES ASSUME NEW x \in Ids
               PROVE  /\ battle'[x].phase # "none" =>
                            missions[x].kind = "Attack" /\ bodyLock'[missions[x].to[1]] = x
                      /\ battle'[x].phase \in {"loot", "share"} =>
                            \A y \in Ids : battle'[x].room[y] # 0 => y \in Attackers(x)
    BY <1>2 DEF Battles, Attackers
  <2>1. CASE x = id
    <3>1. battle'[x] = b
      BY <1>3, <2>1 DEF Inv, FleetsOK
    <3>2. bodyLock'[missions[x].to[1]] = x
      BY <1>2, <1>8, <2>1 DEF Inv, FleetsOK, p
    <3> QED BY <1>2, <1>6, <2>1, <3>1, <3>2
  <2>2. CASE x # id
    <3>1. battle'[x] = battle[x]
      BY <1>3, <2>2 DEF Inv, FleetsOK
    <3>2. battle[x].phase # "none" => missions[x].to[1] # p
      BY <1>2, LedgerConstants DEF Inv, Battles, Ids
    <3>3. battle[x].phase # "none" => missions[x].to[1] \in Planets
      BY MissionsOf, BodiesAreOfPlanets DEF Inv, Battles, Active, NoMission
    <3>4. battle[x].phase # "none" => bodyLock'[missions[x].to[1]] = bodyLock[missions[x].to[1]]
      BY <1>2, <3>2, <3>3 DEF Inv, FleetsOK
    <3> QED BY <3>1, <3>4 DEF Inv, Battles
  <2> QED BY <2>1, <2>2
<1> QED BY <1>2, <1>9, <1>10, <1>11 DEF Inv, AccountsOK, ReserveBacked, counters, places, rifts, ClaimsAreLocked

\* A raid moves what it takes from the planet into the loot.
LEMMA RaidStep ==
    ASSUME Inv, NEW id \in Ids, NEW plunder \in 0 .. MaxStep, Raid(id, plunder)
    PROVE  Inv'
<1> DEFINE to == missions[id].to
           room == battle[id].total
           taken == Least(room, plunder)
           torn == IF to[2] = "planet" THEN Least(room - taken, riftLocked[to[1]]) ELSE 0
           b == [battle[id] EXCEPT !.loot = taken + torn, !.phase = "share"]
<1>1. /\ battle[id].phase = "loot" /\ taken <= balance[to] /\ torn <= locked
      /\ balance' = [balance EXCEPT ![to] = @ - taken]
      /\ locked' = locked - torn /\ internal' = internal + torn
      /\ TearRift(to[1], torn)
      /\ UNCHANGED <<reserve, bodies, debris, missions, bodyLock, treasury>>
  BY DEF Raid, Debit
<1>2. battle' = [battle EXCEPT ![id] = b]
  <2>1. battle' = [battle EXCEPT ![id].loot = taken + torn, ![id].phase = "share"]
    BY DEF Raid
  <2> QED BY <2>1 DEF Inv, FleetsOK
<1>3. room \in Nat /\ plunder \in Nat
  BY LedgerConstants DEF Inv, FleetsOK
<1>4. to \in Bodies /\ to[1] \in Planets
  <2>1. missions[id].kind = "Attack"
    BY <1>1 DEF Inv, Battles
  <2>2. to \in Bodies
    BY <2>1, MissionsOf DEF Active, NoMission
  <2> QED BY <2>2, BodiesAreOfPlanets
<1>5. balance[to] \in Nat /\ riftLocked[to[1]] \in Nat /\ rift[to[1]].amount \in Nat
      /\ {reserve, internal, locked} \subseteq Nat
  BY <1>4 DEF Inv, AccountsOK
<1> HIDE DEF to, room
<1>6. taken \in Nat /\ taken <= room
  BY <1>3, LeastIsLeast
<1> HIDE DEF taken
<1>7. torn \in Nat /\ torn <= riftLocked[to[1]]
  <2>1. room - taken \in Nat
    BY <1>3, <1>6
  <2>2. Least(room - taken, riftLocked[to[1]]) \in Nat
        /\ Least(room - taken, riftLocked[to[1]]) <= riftLocked[to[1]]
    BY <1>5, <2>1, LeastIsLeast
  <2> QED BY <1>5, <2>2
<1> HIDE DEF torn
<1>8. b \in [phase : {"loot", "share", "return"}, loot : Nat, total : Nat, room : [Ids -> Nat], alive : SUBSET Ids]
      /\ b.room = battle[id].room
  <2>1. battle[id] \in [phase : {"none", "loot", "share", "return"}, loot : Nat, total : Nat,
                        room : [Ids -> Nat], alive : SUBSET Ids]
    BY DEF Inv, FleetsOK
  <2>2. taken + torn \in Nat
    BY <1>6, <1>7
  <2> QED BY <2>1, <2>2
<1> HIDE DEF b
<1>9. FleetsOK' /\ Followers' /\ Battles'
  BY <1>1, <1>2, <1>8, BattleGoesOn DEF Inv, FleetsOK
<1>10. balance' \in [Bodies -> Nat]
  BY <1>1, <1>4, <1>5, <1>6 DEF Inv, AccountsOK
<1>11. internal' \in Nat /\ locked' \in Nat /\ ReserveBacked'
  BY <1>1, <1>5, <1>7 DEF Inv, ReserveBacked
<1>12. riftLocked' \in [Planets -> Nat]
  BY <1>1, <1>4, <1>5, <1>7 DEF Inv, AccountsOK, TearRift
<1>13. rift' \in [Planets -> [active : BOOLEAN, amount : Nat]] /\ ClaimsAreLocked'
  <2> DEFINE p == to[1]
             e == [rift[p] EXCEPT !.amount = @ - torn]
  <2>1. rift[p] \in [active : BOOLEAN, amount : Nat] /\ rift[p].amount = riftLocked[p]
        /\ (~rift[p].active => riftLocked[p] = 0)
    BY <1>4 DEF Inv, AccountsOK, ClaimsAreLocked
  <2>2. rift' = [rift EXCEPT ![p] = e] /\ riftLocked' = [riftLocked EXCEPT ![p] = @ - torn]
    BY <1>1, <1>4 DEF TearRift, Inv, AccountsOK
  <2>3. riftLocked[p] - torn \in Nat /\ (riftLocked[p] = 0 => riftLocked[p] - torn = 0)
    BY <1>5, <1>7
  <2>4. e \in [active : BOOLEAN, amount : Nat] /\ e.amount = riftLocked[p] - torn
        /\ e.active = rift[p].active
    BY <2>1, <2>3
  <2> HIDE DEF e
  <2>5. rift' \in [Planets -> [active : BOOLEAN, amount : Nat]]
    BY <2>2, <2>4 DEF Inv, AccountsOK
  <2>6. ASSUME NEW q \in Planets
        PROVE  rift'[q].amount = riftLocked'[q] /\ (~rift'[q].active => rift'[q].amount = 0)
    <3>1. CASE q = p
      BY <3>1, <1>4, <2>1, <2>2, <2>3, <2>4 DEF Inv, AccountsOK
    <3>2. CASE q # p
      BY <3>2, <2>2 DEF Inv, AccountsOK, ClaimsAreLocked
    <3> QED BY <3>1, <3>2
  <2> QED BY <2>5, <2>6 DEF ClaimsAreLocked
<1>14. AccountsOK'
  BY <1>1, <1>10, <1>11, <1>12, <1>13 DEF Inv, AccountsOK
<1> QED BY <1>9, <1>11, <1>14 DEF Inv

\* A share moves from the loot to a fleet of the attackers.
LEMMA ShareLootStep ==
    ASSUME Inv, NEW id \in Ids, NEW m \in Ids, ShareLoot(id, m)
    PROVE  Inv'
<1> DEFINE b == battle[id]
           share == (b.loot * b.room[m]) \div b.total
           c == [phase |-> "share", loot |-> b.loot - share, total |-> b.total - b.room[m],
                 room |-> [b.room EXCEPT ![m] = 0], alive |-> b.alive]
           f == [missions[m] EXCEPT !.cargo = @ + share]
<1>1. /\ b.phase = "share" /\ b.room[m] # 0 /\ share <= b.loot /\ b.room[m] <= b.total
      /\ missions' = [missions EXCEPT ![m].cargo = @ + share]
      /\ UNCHANGED <<reserve, counters, places, rifts, debris, bodyLock, treasury>>
  BY DEF ShareLoot
<1>2. b \in [phase : {"none", "loot", "share", "return"}, loot : Nat, total : Nat, room : [Ids -> Nat], alive : SUBSET Ids]
  BY DEF Inv, FleetsOK
<1>3. battle' = [battle EXCEPT ![id] = c]
  BY DEF ShareLoot
<1>4. share \in Nat
  <2> DEFINE n == b.loot * b.room[m]
             d == b.total
  <2>1. b.loot \in Nat /\ b.room[m] \in Nat /\ d \in Nat /\ d # 0
    BY <1>1, <1>2
  <2>2. n \in Nat
    BY <2>1, SMT
  <2> HIDE DEF n, d
  <2>3. n \div d \in Nat
    BY <2>1, <2>2, SMT
  <2> QED BY <2>3 DEF n, d
<1> HIDE DEF share
<1>5. missions[m] \in [kind : Outward \cup {"homebound"}, from : Bodies, to : Bodies, leader : {0} \cup Ids, cargo : Nat]
  <2>1. m \in Attackers(id) /\ missions[id].kind = "Attack"
    BY <1>1 DEF Inv, Battles
  <2>2. missions[m].kind # "none"
    BY <2>1 DEF Attackers
  <2> QED BY <2>2, MissionsOf DEF Active, NoMission
<1>6. missions' = [missions EXCEPT ![m] = f]
  BY <1>1, <1>5 DEF Inv, FleetsOK
<1>7. /\ f \in [kind : Outward \cup {"homebound"}, from : Bodies, to : Bodies, leader : {0} \cup Ids, cargo : Nat]
      /\ f.kind = missions[m].kind /\ f.to = missions[m].to /\ f.leader = missions[m].leader
  BY <1>4, <1>5
<1> HIDE DEF f
<1>8. missions' \in [Ids -> {NoMission} \cup
               [kind : Outward \cup {"homebound"}, from : Bodies, to : Bodies,
                leader : {0} \cup Ids, cargo : Nat]]
  BY <1>6, <1>7 DEF Inv, FleetsOK
<1>9. \A x \in Ids : /\ missions'[x].kind = missions[x].kind /\ missions'[x].to = missions[x].to
                     /\ missions'[x].leader = missions[x].leader
  BY <1>6, <1>7 DEF Inv, FleetsOK
<1>10. c \in [phase : {"loot", "share", "return"}, loot : Nat, total : Nat, room : [Ids -> Nat], alive : SUBSET Ids]
       /\ \A x \in Ids : c.room[x] # 0 => b.room[x] # 0
  BY <1>1, <1>2, <1>4
<1> HIDE DEF c
<1>11. FleetsOK' /\ Followers' /\ Battles'
  BY <1>1, <1>3, <1>8, <1>9, <1>10, BattleGoesOn
<1> QED BY <1>1, <1>11 DEF Inv, AccountsOK, ReserveBacked, counters, places, rifts, ClaimsAreLocked

\* When no attacker has room left, the fleets go home.
LEMMA RaidEndsStep ==
    ASSUME Inv, NEW id \in Ids, RaidEnds(id)
    PROVE  Inv'
<1> DEFINE b == [battle[id] EXCEPT !.phase = "return"]
<1>1. /\ battle[id].phase = "share"
      /\ UNCHANGED <<reserve, counters, places, rifts, debris, missions, bodyLock, treasury>>
  BY DEF RaidEnds
<1>2. battle' = [battle EXCEPT ![id] = b]
  BY DEF RaidEnds, Inv, FleetsOK
<1>3. b \in [phase : {"loot", "share", "return"}, loot : Nat, total : Nat, room : [Ids -> Nat], alive : SUBSET Ids]
      /\ b.phase = "return"
  <2>1. battle[id] \in [phase : {"none", "loot", "share", "return"}, loot : Nat, total : Nat,
                        room : [Ids -> Nat], alive : SUBSET Ids]
    BY DEF Inv, FleetsOK
  <2> QED BY <2>1
<1> HIDE DEF b
<1>4. FleetsOK' /\ Followers' /\ Battles'
  BY <1>1, <1>2, <1>3, BattleGoesOn DEF Inv, FleetsOK
<1> QED BY <1>1, <1>4 DEF Inv, AccountsOK, ReserveBacked, counters, places, rifts, ClaimsAreLocked

\* What a lost fleet carried is lost with it, and no more.
LEMMA LostIsCargo ==
    ASSUME Inv, NEW id \in Ids, NEW m \in Ids, Outbound(m)
    PROVE  /\ Lost(id, m) \in Nat
           /\ \E r \in {NoMission} \cup [kind : {"homebound"}, from : Bodies, to : Bodies, leader : {0}, cargo : Nat] :
                 Homebound(id, m) = [missions EXCEPT ![m] = r]
<1>1. missions[m].cargo \in Nat
  BY LeadersAreMissions
<1>2. Homeward(missions[m], missions[m].cargo)
        \in [kind : {"homebound"}, from : Bodies, to : Bodies, leader : {0}, cargo : Nat]
  BY <1>1, OutboundIsActive, MissionsOf DEF Homeward
<1>3. CASE m \in battle[id].alive
  BY <1>1, <1>2, <1>3 DEF Lost, Homebound, Inv, FleetsOK
<1>4. CASE m \notin battle[id].alive
  BY <1>1, <1>4 DEF Lost, Homebound
<1> QED BY <1>3, <1>4

\* A fleet of the battle goes home with its share, or is lost.
LEMMA ReturnMemberStep ==
    ASSUME Inv, NEW id \in Ids, NEW m \in Ids, ReturnMember(id, m)
    PROVE  Inv'
<1>1. /\ battle[id].phase = "return" /\ m \in Fighters(id) /\ m # id
      /\ missions' = Homebound(id, m) /\ Decrease(Lost(id, m))
      /\ UNCHANGED <<reserve, locked, places, rifts, debris, battle, bodyLock, treasury>>
  BY DEF ReturnMember, Remaining
<1>2. /\ missions[m].kind \in {"AcsAttack", "AcsDefend", "DefenseHold"}
      /\ missions[m].kind \in {"AcsAttack", "AcsDefend"} => missions[m].leader = id
  <2>1. missions[m].leader = id \/ missions[m].kind = "DefenseHold"
    BY <1>1 DEF Fighters, Attackers
  <2>2. missions[m].leader = id => missions[m].kind \in {"AcsAttack", "AcsDefend"}
    BY LedgerConstants DEF Inv, Followers, Ids
  <2> QED BY <2>1, <2>2
<1>3. Outbound(m)
  BY <1>2 DEF Outbound, Outward
<1>4. PICK r \in {NoMission} \cup [kind : {"homebound"}, from : Bodies, to : Bodies, leader : {0}, cargo : Nat] :
         missions' = [missions EXCEPT ![m] = r]
  BY <1>1, <1>3, LostIsCargo
<1>5. \A x \in Ids : battle[x].phase # "none" => m # x
  BY <1>2 DEF Inv, Battles
<1>6. \A x \in Ids : battle[x].phase \in {"loot", "share"} => m \notin Attackers(x)
  <2> SUFFICES ASSUME NEW x \in Ids, battle[x].phase \in {"loot", "share"}, m \in Attackers(x)
               PROVE  FALSE
    OBVIOUS
  <2>1. x # id
    BY <1>1
  <2>2. m # x
    BY <1>5
  <2> QED BY <1>2, <2>1, <2>2 DEF Attackers
<1>7. FleetsOK' /\ Followers' /\ Battles'
  BY <1>1, <1>4, <1>5, <1>6, LeavesTheWay
<1>8. internal' \in Nat /\ ReserveBacked'
  BY <1>1, <1>3, LostIsCargo, DecreaseIsBacked DEF Inv
<1> QED BY <1>1, <1>7, <1>8 DEF Inv, AccountsOK, places, rifts, ClaimsAreLocked

\* The end of a battle frees its body and keeps the invariant.
LEMMA FinishStep ==
    ASSUME Inv, NEW id \in Ids, NEW wreck \in 0 .. MaxStep, Finish(id, wreck)
    PROVE  Inv'
<1> DEFINE p == missions[id].to[1]
           lost == Lost(id, id)
           scattered == Least(wreck, Available + lost)
<1>1. /\ battle[id].phase = "return" /\ Outbound(id) /\ lost <= internal
      /\ internal' = internal - lost + scattered
      /\ missions' = Homebound(id, id)
      /\ debris' = [debris EXCEPT ![p] = @ + scattered]
      /\ bodyLock' = [bodyLock EXCEPT ![p] = 0]
      /\ battle' = [battle EXCEPT ![id] = NoBattle]
      /\ UNCHANGED <<reserve, locked, places, rifts, treasury>>
  BY DEF Finish
<1>2. missions[id].kind = "Attack" /\ bodyLock[p] = id
  BY <1>1 DEF Inv, Battles
<1>3. p \in Planets
  BY <1>2, MissionsOf, BodiesAreOfPlanets DEF Active, NoMission
<1>4. lost \in Nat
  BY <1>1, LostIsCargo
<1>5. PICK r \in {NoMission} \cup [kind : {"homebound"}, from : Bodies, to : Bodies, leader : {0}, cargo : Nat] :
         missions' = [missions EXCEPT ![id] = r]
  BY <1>1, LostIsCargo
<1> HIDE DEF lost, p
<1>6. Available \in Nat /\ Requirement + Available = reserve
  BY AvailableIsFree DEF Inv
<1>7. wreck \in Nat /\ {reserve, internal, locked} \subseteq Nat
  BY LedgerConstants DEF Inv, AccountsOK
<1>8. scattered \in Nat /\ scattered <= Available + lost
  <2>1. Available + lost \in Nat
    BY <1>4, <1>6
  <2> QED BY <1>7, <2>1, LeastIsLeast
<1> HIDE DEF scattered
<1>9. internal' \in Nat /\ ReserveBacked'
  BY <1>1, <1>4, <1>6, <1>7, <1>8 DEF Requirement, ReserveBacked
<1>10. debris' \in [Planets -> Nat]
  <2>1. debris[p] \in Nat
    BY <1>3 DEF Inv, AccountsOK
  <2> QED BY <1>1, <1>3, <1>8, <2>1 DEF Inv, AccountsOK
<1>11. AccountsOK'
  BY <1>1, <1>9, <1>10 DEF Inv, AccountsOK, places, rifts, ClaimsAreLocked
<1>12. missions'[id] = r /\ r.leader = 0 /\ r.kind # "Attack" /\ \A x \in Ids : x # id => missions'[x] = missions[x]
  BY <1>5 DEF Inv, FleetsOK, NoMission
<1>13. FleetsOK'
  <2>1. missions' \in [Ids -> {NoMission} \cup
          [kind : Outward \cup {"homebound"}, from : Bodies, to : Bodies,
           leader : {0} \cup Ids, cargo : Nat]]
    BY <1>5 DEF Inv, FleetsOK
  <2>2. battle' \in [Ids -> [phase : {"none", "loot", "share", "return"}, loot : Nat,
                           total : Nat, room : [Ids -> Nat], alive : SUBSET Ids]]
    BY <1>1 DEF Inv, FleetsOK, NoBattle
  <2>3. bodyLock' \in [Planets -> {0} \cup Ids]
    BY <1>1 DEF Inv, FleetsOK
  <2> QED BY <2>1, <2>2, <2>3 DEF FleetsOK
<1>14. Followers'
  <2> SUFFICES ASSUME NEW x \in Ids, missions'[x].leader # 0
               PROVE  /\ missions'[x].kind \in {"AcsAttack", "AcsDefend"}
                      /\ missions'[missions'[x].leader].kind = "Attack" =>
                            missions'[x].to = missions'[missions'[x].leader].to
    BY DEF Followers
  <2>1. missions'[x] = missions[x] /\ missions[x].leader \in Ids
    BY <1>12, LeadersAreMissions
  <2> QED BY <1>12, <2>1 DEF Inv, Followers
<1>15. Battles'
  <2> SUFFICES ASSUME NEW x \in Ids
               PROVE  /\ battle'[x].phase # "none" =>
                            missions'[x].kind = "Attack" /\ bodyLock'[missions'[x].to[1]] = x
                      /\ battle'[x].phase \in {"loot", "share"} =>
                            \A y \in Ids : battle'[x].room[y] # 0 => y \in Attackers(x)'
    BY DEF Battles
  <2>1. CASE x = id
    <3>1. battle'[x].phase = "none"
      BY <1>1, <2>1 DEF Inv, FleetsOK, NoBattle
    <3> QED BY <3>1
  <2>2. CASE x # id
    <3>1. battle'[x] = battle[x] /\ missions'[x] = missions[x]
      BY <1>1, <1>12, <2>2 DEF Inv, FleetsOK
    <3>2. battle[x].phase # "none" => missions[x].kind = "Attack" /\ bodyLock[missions[x].to[1]] = x
      BY DEF Inv, Battles
    <3>3. battle[x].phase # "none" => missions[x].to[1] \in Planets
      BY <3>2, MissionsOf, BodiesAreOfPlanets DEF Active, NoMission
    <3>4. battle[x].phase # "none" => bodyLock'[missions[x].to[1]] = x
      BY <1>1, <1>2, <1>3, <2>2, <3>2, <3>3 DEF Inv, FleetsOK
    <3>5. ASSUME NEW y \in Ids, y \in Attackers(x)
          PROVE  y \in Attackers(x)'
      <4>1. y # id
        BY <1>2, <2>2, <3>5 DEF Attackers
      <4> QED BY <1>12, <3>5, <4>1 DEF Attackers
    <3> QED BY <3>1, <3>2, <3>4, <3>5 DEF Inv, Battles
  <2> QED BY <2>1, <2>2
<1> QED BY <1>9, <1>11, <1>13, <1>14, <1>15 DEF Inv

\* A step that changes nothing keeps the invariant.
LEMMA StutterStep ==
    ASSUME Inv, UNCHANGED vars
    PROVE  Inv'
<1>1. AccountsOK' /\ ReserveBacked' /\ UNCHANGED fleets
  BY DEF Inv, AccountsOK, ReserveBacked, vars, counters, places, rifts, ClaimsAreLocked
<1> QED BY <1>1, FleetsStay DEF Inv

\* Every step keeps the inductive invariant.
THEOREM NextInv == Inv /\ [Next]_vars => Inv'
<1> SUFFICES ASSUME Inv, [Next]_vars PROVE Inv'
  OBVIOUS
<1>1. CASE Reserves
  BY <1>1, ReservesStep
<1>2. CASE \E p \in Planets : PlanetOps(p)
  BY <1>2, PlanetOpsStep
<1>3. CASE Launches
  BY <1>3, LaunchesStep
<1>4. ASSUME NEW id \in Ids, Flights(id)
      PROVE  Inv'
  BY <1>4, FlightsStep
<1>5. ASSUME NEW id \in Ids, Stages(id)
      PROVE  Inv'
  BY <1>5, FightStep, RaidStep, ShareLootStep, RaidEndsStep, ReturnMemberStep, FinishStep DEF Stages
<1>6. CASE UNCHANGED vars
  BY <1>6, StutterStep
<1> QED BY <1>1, <1>2, <1>3, <1>4, <1>5, <1>6 DEF Next

\* The inductive invariant holds in every reachable state.
THEOREM Invariant == Spec => []Inv
BY InitInv, NextInv, PTL DEF Spec

\* Every account and every fleet is well typed at all times: no balance,
\* debris field, hold or counter is ever driven below zero.
THEOREM TypeCorrect == Spec => []TypeOK
<1>1. Inv => TypeOK
  BY TypeParts DEF Inv
<1> QED BY <1>1, Invariant, PTL

\* The tokens held always cover what circulates and what is locked.
THEOREM AlwaysBacked == Spec => []ReserveBacked
<1>1. Inv => ReserveBacked
  BY DEF Inv
<1> QED BY <1>1, Invariant, PTL

\* Each extraction pays out exactly what its planet has locked, also after any
\* number of raids: no battle is stranded by the two subtractions of a raid.
THEOREM ClaimsAlwaysLocked == Spec => []ClaimsAreLocked
<1>1. Inv => ClaimsAreLocked
  BY DEF Inv, AccountsOK
<1> QED BY <1>1, Invariant, PTL

-----------------------------------------------------------------------------
(* Sums over finite sets, as the fold of FiniteSetsExt computes them: one  *)
(* element after the other, each chosen arbitrarily.  The books need that   *)
(* the order does not matter and that what one account gains the total     *)
(* gains.  The library's laws of folds take the operation as a parameter;   *)
(* these are for sums, by smallest counterexample.                         *)

Pick(s) == CHOOSE x \in s : TRUE

\* t gives every subset of S its sum.
IsSummation(t, f, S) ==
    t = [s \in SUBSET S |-> IF s = {} THEN 0 ELSE f[Pick(s)] + t[s \ {Pick(s)}]]

Total(f, S) == (CHOOSE t : IsSummation(t, f, S))[S]

\* Among subsets of a finite set one is smallest: its parts are not among them.
LEMMA SmallestSet ==
    ASSUME NEW S, IsFiniteSet(S), NEW Q, Q \subseteq SUBSET S, Q # {}
    PROVE  \E s \in Q : \A x \in s : s \ {x} \notin Q
<1>1. IsWellFoundedOn(StrictSubsetOrdering(S), SUBSET S)
  BY FS_StrictSubsetOrderingWellFounded, FS_FiniteSubsetsOfFinite, Zenon
<1>2. PICK s \in Q : \A u \in Q : <<u, s>> \notin StrictSubsetOrdering(S)
  BY <1>1, WFMin, Zenon
<1>3. ASSUME NEW x \in s, s \ {x} \in Q PROVE FALSE
  <2>1. <<s \ {x}, s>> \in (SUBSET S) \X (SUBSET S)
    BY <1>3
  <2>2. <<s \ {x}, s>> \in StrictSubsetOrdering(S)
    BY <2>1 DEF StrictSubsetOrdering
  <2> QED BY <1>2, <1>3, <2>2
<1> QED BY <1>2, <1>3

\* What is chosen from a set is in it.
LEMMA PickIsIn ==
    ASSUME NEW s, s # {}
    PROVE  Pick(s) \in s
BY DEF Pick

\* A summation, unfolded once.
LEMMA SumUnfold ==
    ASSUME NEW S, NEW f, NEW t, IsSummation(t, f, S)
    PROVE  /\ {} \in SUBSET S /\ t[{}] = 0
           /\ \A s \in SUBSET S : s # {} => t[s] = f[Pick(s)] + t[s \ {Pick(s)}]
<1>1. \A s \in SUBSET S : t[s] = IF s = {} THEN 0 ELSE f[Pick(s)] + t[s \ {Pick(s)}]
  BY Zenon DEF IsSummation
<1> QED BY <1>1

\* Two summations agree wherever their functions do.
LEMMA SumsAgree ==
    ASSUME NEW S, NEW f, NEW t, IsSummation(t, f, S),
           NEW R, NEW g, NEW u, IsSummation(u, g, R),
           NEW A, IsFiniteSet(A), A \subseteq S, A \subseteq R, \A x \in A : f[x] = g[x]
    PROVE  t[A] = u[A]
<1> DEFINE Q == {s \in SUBSET A : t[s] # u[s]}
<1> SUFFICES ASSUME Q # {} PROVE FALSE
  BY DEF Q
<1>1. PICK s \in Q : \A x \in s : s \ {x} \notin Q
  BY SmallestSet
<1>2. s # {}
  BY SumUnfold
<1>3. Pick(s) \in s
  BY <1>2, PickIsIn
<1>4. t[s \ {Pick(s)}] = u[s \ {Pick(s)}]
  BY <1>1, <1>3
<1>5. t[s] = f[Pick(s)] + t[s \ {Pick(s)}] /\ u[s] = g[Pick(s)] + u[s \ {Pick(s)}]
  BY <1>2, SumUnfold
<1> QED BY <1>3, <1>4, <1>5

\* Every function has a summation over a finite set.
LEMMA SumsExist ==
    ASSUME NEW S, IsFiniteSet(S), NEW f
    PROVE  \E t : IsSummation(t, f, S)
<1> DEFINE Q == {s \in SUBSET S : ~ \E t : IsSummation(t, f, s)}
<1> SUFFICES ASSUME Q # {} PROVE FALSE
  BY DEF Q
<1>1. PICK s \in Q : \A x \in s : s \ {x} \notin Q
  BY SmallestSet
<1>2. IsFiniteSet(s) /\ s \subseteq S
  BY FS_Subset
<1> DEFINE Of(u) == CHOOSE t : IsSummation(t, f, u)
           t == [u \in SUBSET s |-> IF u = {} THEN 0 ELSE f[Pick(u)] + Of(u \ {Pick(u)})[u \ {Pick(u)}]]
<1>3. ASSUME NEW u \in SUBSET s, u # s
      PROVE  \E a : IsSummation(a, f, u)
  <2>1. PICK x \in s : x \notin u
    BY <1>3
  <2>2. PICK a : IsSummation(a, f, s \ {x})
    BY <1>1, <1>2
  <2> DEFINE b == [v \in SUBSET u |-> a[v]]
  <2>3. ASSUME NEW v \in SUBSET u
        PROVE  b[v] = IF v = {} THEN 0 ELSE f[Pick(v)] + b[v \ {Pick(v)}]
    <3>1. v \in SUBSET (s \ {x}) /\ v \ {Pick(v)} \in SUBSET u
      BY <2>1
    <3>2. a[{}] = 0 /\ \A w \in SUBSET (s \ {x}) : w # {} => a[w] = f[Pick(w)] + a[w \ {Pick(w)}]
      <4>1. IsSummation(a, f, s \ {x})
        BY <2>2
      <4> HIDE DEF b, Q
      <4> QED BY <4>1, SumUnfold
    <3> QED BY <3>1, <3>2
  <2>4. IsSummation(b, f, u)
    BY <2>3 DEF IsSummation
  <2> QED BY <2>4
<1>4. ASSUME NEW u \in SUBSET s, u # s
      PROVE  IsSummation(Of(u), f, u)
  BY <1>3, <1>4
<1> HIDE DEF Of
<1>5. ASSUME NEW u \in SUBSET s, u # s
      PROVE  Of(u)[u] = t[u]
  <2>1. CASE u = {}
    BY <1>4, <1>5, <2>1, SumUnfold
  <2>2. CASE u # {}
    <3> DEFINE v == u \ {Pick(u)}
    <3>1. Pick(u) \in u
      BY <2>2, PickIsIn
    <3>2. v \in SUBSET s /\ v # s /\ v \subseteq u /\ IsFiniteSet(v)
      BY <1>2, <3>1, FS_Subset
    <3>3. Of(u)[u] = f[Pick(u)] + Of(u)[v]
      BY <1>4, <1>5, <2>2, SumUnfold
    <3>4. IsSummation(Of(u), f, u) /\ IsSummation(Of(v), f, v)
      BY <1>4, <1>5, <3>2
    <3> HIDE DEF v
    <3>5. Of(u)[v] = Of(v)[v]
      BY <3>2, <3>4, SumsAgree
    <3>6. t[u] = f[Pick(u)] + Of(v)[v]
      BY <2>2 DEF v
    <3> QED BY <3>3, <3>5, <3>6
  <2> QED BY <2>1, <2>2
<1>6. ASSUME NEW u \in SUBSET s
      PROVE  t[u] = IF u = {} THEN 0 ELSE f[Pick(u)] + t[u \ {Pick(u)}]
  <2>1. CASE u = {}
    BY <2>1
  <2>2. CASE u # {}
    <3>1. Pick(u) \in u /\ u \ {Pick(u)} \in SUBSET s /\ u \ {Pick(u)} # s
      BY <2>2, PickIsIn
    <3>2. Of(u \ {Pick(u)})[u \ {Pick(u)}] = t[u \ {Pick(u)}]
      BY <3>1, <1>5
    <3> QED BY <2>2, <3>2
  <2> QED BY <2>1, <2>2
<1>7. IsSummation(t, f, s)
  BY <1>6 DEF IsSummation
<1> QED BY <1>7

\* The total is what a summation says of the whole set.
LEMMA TotalIsSum ==
    ASSUME NEW S, IsFiniteSet(S), NEW f
    PROVE  \E t : IsSummation(t, f, S) /\ Total(f, S) = t[S]
BY SumsExist DEF Total

\* Sums of whole numbers are whole numbers.
LEMMA SumsAreInt ==
    ASSUME NEW S, IsFiniteSet(S), NEW f, \A x \in S : f[x] \in Int,
           NEW t, IsSummation(t, f, S), NEW A, A \subseteq S
    PROVE  t[A] \in Int
<1> DEFINE Q == {s \in SUBSET S : t[s] \notin Int}
<1> SUFFICES ASSUME Q # {} PROVE FALSE
  BY DEF Q
<1>1. PICK s \in Q : \A x \in s : s \ {x} \notin Q
  BY SmallestSet
<1>2. s # {}
  <2>1. t[{}] = 0
    BY SumUnfold
  <2> QED BY <2>1
<1>3. Pick(s) \in s
  BY <1>2, PickIsIn
<1>4. t[s \ {Pick(s)}] \in Int /\ f[Pick(s)] \in Int
  BY <1>1, <1>3
<1>5. t[s] = f[Pick(s)] + t[s \ {Pick(s)}]
  BY <1>2, SumUnfold
<1> QED BY <1>4, <1>5

\* Any element may be taken first.
LEMMA AnyFirst ==
    ASSUME NEW S, IsFiniteSet(S), NEW f, \A x \in S : f[x] \in Int,
           NEW t, IsSummation(t, f, S), NEW A, A \subseteq S, NEW x \in A
    PROVE  t[A] = f[x] + t[A \ {x}]
<1> DEFINE Q == {s \in SUBSET S : \E y \in s : t[s] # f[y] + t[s \ {y}]}
<1> SUFFICES ASSUME Q # {} PROVE FALSE
  BY DEF Q
<1>1. PICK s \in Q : \A y \in s : s \ {y} \notin Q
  BY SmallestSet
<1>2. PICK y \in s : t[s] # f[y] + t[s \ {y}]
  OBVIOUS
<1> DEFINE c == Pick(s)
<1>3. c \in s /\ t[s] = f[c] + t[s \ {c}] /\ s \subseteq S
  BY <1>2, PickIsIn, SumUnfold
<1> HIDE DEF c
<1>4. c # y
  BY <1>2, <1>3
<1>5. t[s \ {c}] = f[y] + t[(s \ {c}) \ {y}]
  BY <1>1, <1>3, <1>4
<1>6. t[s \ {y}] = f[c] + t[(s \ {y}) \ {c}]
  BY <1>1, <1>3, <1>4
<1>7. (s \ {c}) \ {y} = (s \ {y}) \ {c}
  OBVIOUS
<1>8. PICK rest \in Int : rest = t[(s \ {y}) \ {c}]
  BY <1>3, SumsAreInt
<1>9. PICK m \in Int, n \in Int : m = f[c] /\ n = f[y]
  BY <1>3
<1>10. t[s] = m + (n + rest) /\ t[s] # n + (m + rest)
  BY <1>2, <1>3, <1>5, <1>6, <1>7, <1>8, <1>9, Zenon
<1> QED BY <1>10

\* Only the elements that count for something are summed.
LEMMA OnlySupportCounts ==
    ASSUME NEW S, IsFiniteSet(S), NEW f, \A x \in S : f[x] \in Int,
           NEW t, IsSummation(t, f, S), NEW A, A \subseteq S, \A x \in S \ A : f[x] = 0
    PROVE  t[S] = t[A]
<1> DEFINE Q == {s \in SUBSET S : t[s] # t[s \cap A]}
<1>0. S \cap A = A
  OBVIOUS
<1> SUFFICES ASSUME Q # {} PROVE FALSE
  BY <1>0 DEF Q
<1>1. PICK s \in Q : \A x \in s : s \ {x} \notin Q
  BY SmallestSet
<1>2. s \subseteq S /\ s # s \cap A
  OBVIOUS
<1>3. PICK x \in s : x \notin A
  BY <1>2
<1>4. t[s] = f[x] + t[s \ {x}] /\ f[x] = 0
  BY <1>2, <1>3, AnyFirst
<1>5. PICK rest \in Int : rest = t[s \ {x}]
  BY <1>2, SumsAreInt
<1>6. t[s \ {x}] = t[(s \ {x}) \cap A]
  BY <1>1, <1>2
<1>7. (s \ {x}) \cap A = s \cap A
  BY <1>3
<1>8. t[s] = 0 + rest /\ t[s \cap A] = rest
  BY <1>4, <1>5, <1>6, <1>7, Zenon
<1>9. t[s] # t[s \cap A]
  OBVIOUS
<1> QED BY <1>8, <1>9

\* The total of whole numbers is one.
LEMMA TotalIsInt ==
    ASSUME NEW S, IsFiniteSet(S), NEW f \in [S -> Int]
    PROVE  Total(f, S) \in Int
BY TotalIsSum, SumsAreInt

\* Nothing adds up to nothing.
LEMMA TotalOfZeros ==
    ASSUME NEW S, IsFiniteSet(S), NEW f \in [S -> Int], \A x \in S : f[x] = 0
    PROVE  Total(f, S) = 0
<1>1. PICK t : IsSummation(t, f, S) /\ Total(f, S) = t[S]
  BY TotalIsSum
<1>2. t[S] = t[{}]
  BY <1>1, OnlySupportCounts
<1> QED BY <1>1, <1>2, SumUnfold

\* What one account gains, the total gains.
LEMMA TotalOfChange ==
    ASSUME NEW S, IsFiniteSet(S), NEW f \in [S -> Int], NEW g \in [S -> Int],
           NEW x \in S, \A y \in S \ {x} : g[y] = f[y]
    PROVE  Total(g, S) = Total(f, S) - f[x] + g[x]
<1>1. PICK t : IsSummation(t, f, S) /\ Total(f, S) = t[S]
  BY TotalIsSum
<1>2. PICK u : IsSummation(u, g, S) /\ Total(g, S) = u[S]
  BY TotalIsSum
<1>3. t[S] = f[x] + t[S \ {x}]
  BY <1>1, AnyFirst
<1>4. u[S] = g[x] + u[S \ {x}]
  BY <1>2, AnyFirst
<1>5. t[S \ {x}] = u[S \ {x}]
  BY <1>1, <1>2, FS_Subset, SumsAgree
<1>6. t[S \ {x}] \in Int
  BY <1>1, SumsAreInt
<1> QED BY <1>1, <1>2, <1>3, <1>4, <1>5, <1>6

\* Accounts that hold nothing may be left out.
LEMMA TotalOfSupport ==
    ASSUME NEW S, IsFiniteSet(S), NEW f \in [S -> Int], NEW A, A \subseteq S,
           NEW g \in [A -> Int], \A x \in S : f[x] = IF x \in A THEN g[x] ELSE 0
    PROVE  Total(f, S) = Total(g, A)
<1>1. IsFiniteSet(A)
  BY FS_Subset
<1>2. PICK t : IsSummation(t, f, S) /\ Total(f, S) = t[S]
  BY TotalIsSum
<1>3. PICK u : IsSummation(u, g, A) /\ Total(g, A) = u[A]
  BY <1>1, TotalIsSum
<1>4. t[S] = t[A]
  BY <1>2, OnlySupportCounts
<1>5. t[A] = u[A]
  BY <1>1, <1>2, <1>3, SumsAgree
<1> QED BY <1>2, <1>3, <1>4, <1>5

-----------------------------------------------------------------------------
(* The books.  The counters are compared with totals over all accounts, so *)
(* beyond the types they need to know that what is overwritten or written  *)
(* off holds nothing: a body not in play, a loot that no longer counts.    *)

\* The accounts that are overwritten or abandoned are empty.
Emptied == \A b \in Bodies \ bodies : balance[b] = 0

\* The planet of a fleet's origin waits for it.
Origins == \A id \in Ids : Active(id) => Planet(missions[id].from[1]) \in bodies

\* Loot waits only while it is shared, and the last share takes all of it.
Loots ==
    \A id \in Ids :
        /\ battle[id].phase \notin {"share"} => battle[id].loot = 0
        /\ battle[id].phase \in {"loot", "share"} => battle[id].total = Total(battle[id].room, Ids)
        /\ battle[id].phase = "loot" => battle[id].total # 0
        /\ battle[id].phase = "share" /\ battle[id].total = 0 => battle[id].loot = 0

Cargo == [id \in Ids |-> missions[id].cargo]
Loot == [id \in Ids |-> battle[id].loot]

OnBodies == Total(balance, Bodies)
InDebris == Total(debris, Planets)
InHolds == Total(Cargo, Ids)
InLoot == Total(Loot, Ids)
InRifts == Total(riftLocked, Planets)

Accounted ==
    /\ Emptied /\ Origins /\ Loots
    /\ internal = OnBodies + InDebris + InHolds + InLoot + treasury.balance
    /\ locked = InRifts

\* The sum that the model computes is the total.
LEMMA SumIsTotal ==
    ASSUME NEW f
    PROVE  Sum(f) = Total(f, DOMAIN f)
BY DEF Sum, MapThenSumSet, MapThenFoldSet, Total, IsSummation, Pick

\* There are finitely many accounts.
LEMMA AccountsAreFinite == IsFiniteSet(Planets) /\ IsFiniteSet(Bodies) /\ IsFiniteSet(Ids)
<1>1. IsFiniteSet(Planets) /\ IsFiniteSet(Mooned)
  BY LedgerConstants, FS_Subset
<1>2. IsFiniteSet({"planet"}) /\ IsFiniteSet({"moon"})
  BY FS_Singleton
<1>3. IsFiniteSet(Planets \X {"planet"}) /\ IsFiniteSet(Mooned \X {"moon"})
  BY <1>1, <1>2, FS_Product
<1>4. IsFiniteSet(Bodies)
  BY <1>3, FS_Union DEF Bodies
<1>5. IsFiniteSet(Ids)
  BY LedgerConstants, FS_Interval DEF Ids
<1> QED BY <1>1, <1>4, <1>5

\* What the accounts hold are numbers.
LEMMA AccountsAreNumbers ==
    ASSUME Inv
    PROVE  /\ balance \in [Bodies -> Int] /\ debris \in [Planets -> Int] /\ riftLocked \in [Planets -> Int]
           /\ Cargo \in [Ids -> Int] /\ Loot \in [Ids -> Int]
           /\ {internal, locked, treasury.balance} \subseteq Nat
<1>1. /\ balance \in [Bodies -> Nat] /\ debris \in [Planets -> Nat] /\ riftLocked \in [Planets -> Nat]
      /\ {internal, locked, treasury.balance} \subseteq Nat
  BY DEF Inv, AccountsOK
<1>2. Cargo \in [Ids -> Int]
  BY LeadersAreMissions DEF Cargo
<1>3. Loot \in [Ids -> Int]
  BY DEF Loot, Inv, FleetsOK
<1> QED BY <1>1, <1>2, <1>3

\* And so are their totals.
LEMMA TotalsAreNumbers ==
    ASSUME Inv
    PROVE  {OnBodies, InDebris, InHolds, InLoot, InRifts} \subseteq Int
BY AccountsAreFinite, AccountsAreNumbers, TotalIsInt DEF OnBodies, InDebris, InHolds, InLoot, InRifts

\* A body that gains or loses moves the total of the bodies alike.
LEMMA BalanceMoves ==
    ASSUME Inv, Inv', NEW b \in Bodies, \A y \in Bodies \ {b} : balance'[y] = balance[y]
    PROVE  OnBodies' = OnBodies - balance[b] + balance'[b]
<1>1. IsFiniteSet(Bodies) /\ balance \in [Bodies -> Int] /\ balance' \in [Bodies -> Int]
  BY AccountsAreFinite, AccountsAreNumbers DEF Inv, AccountsOK
<1> QED BY <1>1, TotalOfChange DEF OnBodies

\* And so does a debris field,
LEMMA DebrisMoves ==
    ASSUME Inv, Inv', NEW p \in Planets, \A y \in Planets \ {p} : debris'[y] = debris[y]
    PROVE  InDebris' = InDebris - debris[p] + debris'[p]
<1>1. IsFiniteSet(Planets) /\ debris \in [Planets -> Int] /\ debris' \in [Planets -> Int]
  BY AccountsAreFinite, AccountsAreNumbers DEF Inv, AccountsOK
<1> QED BY <1>1, TotalOfChange DEF InDebris

\* a rift,
LEMMA RiftMoves ==
    ASSUME Inv, Inv', NEW p \in Planets, \A y \in Planets \ {p} : riftLocked'[y] = riftLocked[y]
    PROVE  InRifts' = InRifts - riftLocked[p] + riftLocked'[p]
<1>1. IsFiniteSet(Planets) /\ riftLocked \in [Planets -> Int] /\ riftLocked' \in [Planets -> Int]
  BY AccountsAreFinite, AccountsAreNumbers DEF Inv, AccountsOK
<1> QED BY <1>1, TotalOfChange DEF InRifts

\* the hold of a fleet
LEMMA CargoMoves ==
    ASSUME Inv, NEW id \in Ids, NEW r, r.cargo \in Int, missions' = [missions EXCEPT ![id] = r]
    PROVE  InHolds' = InHolds - missions[id].cargo + r.cargo
<1>1. IsFiniteSet(Ids) /\ Cargo \in [Ids -> Int]
  BY AccountsAreFinite, AccountsAreNumbers
<1>2. \A x \in Ids : Cargo[x] = missions[x].cargo /\ Cargo'[x] = missions'[x].cargo
  BY DEF Cargo
<1>3. missions'[id] = r /\ \A x \in Ids \ {id} : missions'[x] = missions[x]
  BY DEF Inv, FleetsOK
<1>4. Cargo' = [x \in Ids |-> Cargo'[x]] /\ \A x \in Ids : Cargo'[x] \in Int
  BY <1>1, <1>2, <1>3 DEF Cargo
<1>5. Cargo' \in [Ids -> Int]
  BY <1>4
<1>6. Cargo'[id] = r.cargo /\ \A x \in Ids \ {id} : Cargo'[x] = Cargo[x]
  BY <1>2, <1>3
<1>7. Total(Cargo', Ids) = Total(Cargo, Ids) - Cargo[id] + Cargo'[id]
  BY <1>1, <1>5, <1>6, TotalOfChange
<1> QED BY <1>2, <1>6, <1>7 DEF InHolds

\* and the loot of a battle.
LEMMA LootMoves ==
    ASSUME Inv, NEW id \in Ids, NEW b, b.loot \in Int, battle' = [battle EXCEPT ![id] = b]
    PROVE  InLoot' = InLoot - battle[id].loot + b.loot
<1>1. IsFiniteSet(Ids) /\ Loot \in [Ids -> Int]
  BY AccountsAreFinite, AccountsAreNumbers
<1>2. \A x \in Ids : Loot[x] = battle[x].loot /\ Loot'[x] = battle'[x].loot
  BY DEF Loot
<1>3. battle'[id] = b /\ \A x \in Ids \ {id} : battle'[x] = battle[x]
  BY DEF Inv, FleetsOK
<1>4. Loot' = [x \in Ids |-> Loot'[x]] /\ \A x \in Ids : Loot'[x] \in Int
  BY <1>1, <1>2, <1>3 DEF Loot
<1>5. Loot' \in [Ids -> Int]
  BY <1>4
<1>6. Loot'[id] = b.loot /\ \A x \in Ids \ {id} : Loot'[x] = Loot[x]
  BY <1>2, <1>3
<1>7. Total(Loot', Ids) = Total(Loot, Ids) - Loot[id] + Loot'[id]
  BY <1>1, <1>5, <1>6, TotalOfChange
<1> QED BY <1>2, <1>6, <1>7 DEF InLoot

\* The books are empty when the game is deployed.
LEMMA InitAccounted == Init => Accounted
<1> SUFFICES ASSUME Init PROVE Accounted
  OBVIOUS
<1>1. Inv
  BY InitInv
<1>2. Emptied /\ Origins
  BY DEF Init, Emptied, Origins, Active
<1>3. Loots
  BY DEF Init, Loots, NoBattle
<1>4. /\ \A b \in Bodies : balance[b] = 0
      /\ \A p \in Planets : debris[p] = 0 /\ riftLocked[p] = 0
      /\ \A id \in Ids : Cargo[id] = 0 /\ Loot[id] = 0
      /\ internal = 0 /\ locked = 0 /\ treasury.balance = 0
  BY DEF Init, Cargo, Loot, NoMission, NoBattle
<1>5. OnBodies = 0 /\ InDebris = 0 /\ InHolds = 0 /\ InLoot = 0 /\ InRifts = 0
  BY <1>1, <1>4, AccountsAreFinite, AccountsAreNumbers, TotalOfZeros
     DEF OnBodies, InDebris, InHolds, InLoot, InRifts
<1> QED BY <1>2, <1>3, <1>4, <1>5 DEF Accounted

\* The fleets' part of the books stays as long as the fleets do.
LEMMA FleetBooksStay ==
    ASSUME Loots, UNCHANGED fleets
    PROVE  Loots' /\ UNCHANGED <<InHolds, InLoot>>
<1>1. UNCHANGED <<missions, battle>>
  BY DEF fleets
<1>2. Loots'
  BY <1>1 DEF Loots
<1>3. UNCHANGED <<Cargo, Loot>>
  BY <1>1 DEF Cargo, Loot
<1> QED BY <1>2, <1>3 DEF InHolds, InLoot

\* What one body in play gains is put into circulation or paid by the treasury.
LEMMA OneBodyBooks ==
    ASSUME Inv, Inv', Accounted, NEW b \in bodies', bodies \subseteq bodies',
           \A x \in Bodies \ {b} : balance'[x] = balance[x], UNCHANGED <<fleets, debris>>,
           internal' = internal + (balance'[b] - balance[b]) + (treasury'.balance - treasury.balance),
           locked' = InRifts'
    PROVE  Accounted'
<1>1. b \in Bodies /\ bodies' \subseteq Bodies
  BY DEF Inv, AccountsOK
<1>2. Emptied'
  BY DEF Accounted, Emptied
<1>3. Origins'
  BY DEF Accounted, Origins, Active, fleets
<1>4. Loots' /\ InHolds' = InHolds /\ InLoot' = InLoot
  BY FleetBooksStay DEF Accounted
<1>5. InDebris' = InDebris
  BY DEF InDebris
<1>6. OnBodies' = OnBodies - balance[b] + balance'[b]
  BY <1>1, BalanceMoves
<1>7. {OnBodies, InDebris, InHolds, InLoot} \subseteq Int
  BY TotalsAreNumbers
<1>8. /\ {internal, treasury.balance, treasury'.balance} \subseteq Int
      /\ balance[b] \in Int /\ balance'[b] \in Int
  BY <1>1 DEF Inv, AccountsOK
<1>9. internal = OnBodies + InDebris + InHolds + InLoot + treasury.balance
  BY DEF Accounted
<1>10. internal' = OnBodies' + InDebris' + InHolds' + InLoot' + treasury'.balance
  BY <1>4, <1>5, <1>6, <1>7, <1>8, <1>9
<1> QED BY <1>2, <1>3, <1>4, <1>10 DEF Accounted

\* A body leaves the game with all that it holds, its fleets being home.
LEMMA BodyLeavesBooks ==
    ASSUME Inv, Inv', Accounted, NEW b \in Bodies, bodies' = bodies \ {b},
           balance'[b] = 0, \A x \in Bodies \ {b} : balance'[x] = balance[x],
           internal' = internal - balance[b], Origins',
           UNCHANGED <<fleets, debris, locked, riftLocked, treasury>>
    PROVE  Accounted'
<1>1. Emptied'
  BY DEF Accounted, Emptied
<1>2. Loots' /\ InHolds' = InHolds /\ InLoot' = InLoot
  BY FleetBooksStay DEF Accounted
<1>3. InDebris' = InDebris /\ InRifts' = InRifts
  BY DEF InDebris, InRifts
<1>4. OnBodies' = OnBodies - balance[b] + balance'[b]
  BY BalanceMoves
<1>5. {OnBodies, InDebris, InHolds, InLoot} \subseteq Int
  BY TotalsAreNumbers
<1>6. {internal, treasury.balance, balance[b]} \subseteq Int
  BY DEF Inv, AccountsOK
<1>7. internal = OnBodies + InDebris + InHolds + InLoot + treasury.balance
  BY DEF Accounted
<1>8. internal' = OnBodies' + InDebris' + InHolds' + InLoot' + treasury'.balance
  BY <1>2, <1>3, <1>4, <1>5, <1>6, <1>7
<1> QED BY <1>1, <1>2, <1>3, <1>8 DEF Accounted

\* Deposits, withdrawals and another token touch no account.
LEMMA ReservesAccounted ==
    ASSUME Accounted, Reserves
    PROVE  Accounted'
<1>1. UNCHANGED <<counters, places, rifts, debris, fleets, treasury>>
  BY DEF Reserves, DepositReserves, ReleaseExcess, SetResourceToken
<1>2. Loots' /\ UNCHANGED <<InHolds, InLoot>>
  BY <1>1, FleetBooksStay DEF Accounted
<1>3. UNCHANGED <<OnBodies, InDebris, InRifts>>
  BY <1>1 DEF OnBodies, InDebris, InRifts, places, rifts
<1> QED BY <1>1, <1>2, <1>3 DEF Accounted, Emptied, Origins, Active, counters, places, fleets

\* When a planet leaves, no fleet has it as its origin.
LEMMA QuietHasNoOrigins ==
    ASSUME Accounted, NEW p \in Planets, Quiet(p), bodies' = bodies \ {Planet(p)}, UNCHANGED fleets
    PROVE  Origins'
<1>1. \A id \in Ids : Active(id) => Planet(missions[id].from[1]) \in bodies /\ missions[id].from[1] # p
  BY DEF Accounted, Origins, Quiet
<1>2. \A q : q # p => Planet(q) # Planet(p)
  BY DEF Planet
<1> QED BY <1>1, <1>2 DEF Origins, Active, fleets

\* What a planet does by itself is booked.
LEMMA PlanetOpsAccounted ==
    ASSUME Inv, Inv', Accounted, NEW p \in Planets, PlanetOps(p)
    PROVE  Accounted'
<1>0. /\ Planet(p) \in Bodies /\ balance \in [Bodies -> Nat] /\ bodies \subseteq Bodies
      /\ {internal, locked, internal', locked'} \subseteq Nat /\ riftLocked \in [Planets -> Nat]
      /\ treasury.balance \in Nat /\ locked = InRifts
  BY DEF Inv, AccountsOK, Bodies, Planet, Accounted
<1>1. UNCHANGED riftLocked => InRifts' = InRifts
  BY DEF InRifts
<1>2. CASE StartPlanet(p, Starting)
  <2>1. Starting \in Nat /\ balance[Planet(p)] = 0
    BY <1>0, <1>2, LedgerConstants DEF StartPlanet, Accounted, Emptied
  <2>2. /\ bodies' = bodies \cup {Planet(p)} /\ UNCHANGED <<locked, riftLocked, debris, fleets, treasury>>
        /\ balance'[Planet(p)] = Starting /\ \A x \in Bodies \ {Planet(p)} : balance'[x] = balance[x]
        /\ internal' = internal + Starting
    BY <1>0, <1>2 DEF StartPlanet, Increase
  <2>3. internal' = internal + (balance'[Planet(p)] - balance[Planet(p)]) + (treasury'.balance - treasury.balance)
    BY <1>0, <2>1, <2>2
  <2> QED BY <1>0, <1>1, <2>2, <2>3, OneBodyBooks
<1>3. CASE CreateMoon(p)
  <2>1. /\ bodies' = bodies \cup {Moon(p)} /\ UNCHANGED <<internal, locked, balance, riftLocked, debris, fleets, treasury>>
        /\ Moon(p) \in Bodies
    BY <1>3 DEF CreateMoon, counters, rifts, Bodies, Moon
  <2>2. internal' = internal + (balance'[Moon(p)] - balance[Moon(p)]) + (treasury'.balance - treasury.balance)
    BY <1>0, <2>1
  <2> QED BY <1>0, <1>1, <2>1, <2>2, OneBodyBooks
<1>4. CASE DestroyMoon(p)
  <2>1. Moon(p) \in bodies /\ Moon(p) # Planet(p)
    BY <1>4 DEF DestroyMoon, Usable, Moon, Planet
  <2>2. /\ bodies' = bodies \ {Moon(p)} /\ UNCHANGED <<locked, riftLocked, debris, fleets, treasury>>
        /\ balance'[Moon(p)] = 0 /\ \A x \in Bodies \ {Moon(p)} : balance'[x] = balance[x]
        /\ internal' = internal - balance[Moon(p)]
    BY <1>0, <1>4, <2>1 DEF DestroyMoon, Decrease, rifts
  <2>3. \A q : Planet(q) # Moon(p)
    BY DEF Planet, Moon
  <2>4. Origins'
    BY <2>2, <2>3 DEF Accounted, Origins, Active, fleets
  <2> QED BY <1>0, <2>1, <2>2, <2>4, BodyLeavesBooks
<1>5. CASE FinalizeRift(p)
  <2> DEFINE n == rift[p].amount
  <2>1. /\ n \in Nat /\ locked' = locked - n /\ UNCHANGED <<internal, bodies, balance, debris, fleets, treasury>>
        /\ riftLocked'[p] = riftLocked[p] - n /\ \A x \in Planets \ {p} : riftLocked'[x] = riftLocked[x]
    BY <1>0, <1>5 DEF FinalizeRift, places, Inv, AccountsOK
  <2>2. InRifts' = InRifts - riftLocked[p] + riftLocked'[p]
    BY <2>1, RiftMoves
  <2> HIDE DEF n
  <2>3. locked' = InRifts' /\ riftLocked[p] \in Nat
    BY <1>0, <2>1, <2>2
  <2>4. Planet(p) \in bodies
    BY <1>5 DEF FinalizeRift, Free
  <2>5. internal' = internal + (balance'[Planet(p)] - balance[Planet(p)]) + (treasury'.balance - treasury.balance)
    BY <1>0, <2>1
  <2> QED BY <2>1, <2>3, <2>4, <2>5, OneBodyBooks
<1>6. CASE AbandonPlanet(p)
  <2>1. /\ bodies' = bodies \ {Planet(p)} /\ UNCHANGED <<internal, locked, balance, riftLocked, debris, fleets, treasury>>
        /\ balance[Planet(p)] = 0 /\ Quiet(p)
    BY <1>6 DEF AbandonPlanet, counters, rifts
  <2>2. internal' = internal - balance[Planet(p)] /\ balance'[Planet(p)] = 0
    BY <1>0, <2>1
  <2> QED BY <1>0, <2>1, <2>2, QuietHasNoOrigins, BodyLeavesBooks
<1>7. CASE DiscardStarted(p)
  <2>1. /\ bodies' = bodies \ {Planet(p)} /\ UNCHANGED <<locked, riftLocked, debris, fleets, treasury>>
        /\ balance'[Planet(p)] = 0 /\ \A x \in Bodies \ {Planet(p)} : balance'[x] = balance[x]
        /\ internal' = internal - balance[Planet(p)] /\ Quiet(p)
    BY <1>0, <1>7 DEF DiscardStarted, Decrease
  <2> QED BY <1>0, <2>1, QuietHasNoOrigins, BodyLeavesBooks
<1>8. ASSUME NEW produced \in 0 .. MaxStep, NEW burned \in 0 .. MaxStep, NEW member \in BOOLEAN,
             SettleProduction(p, produced, burned, member)
      PROVE  Accounted'
  <2> DEFINE left == balance[Planet(p)] - burned
             capped == IF left > StorageCap THEN left ELSE Least(left + produced, StorageCap)
             added == Least(capped - left, Available)
  <2>1. /\ Planet(p) \in bodies /\ UNCHANGED <<locked, bodies, riftLocked, debris, fleets>>
        /\ \A x \in Bodies \ {Planet(p)} : balance'[x] = balance[x]
        /\ balance'[Planet(p)] = left + added
        /\ internal' = internal - burned + added + (treasury'.balance - treasury.balance)
    BY <1>0, <1>8 DEF SettleProduction, Free, rifts
  <2>2. /\ burned \in Int /\ balance[Planet(p)] \in Int /\ balance'[Planet(p)] \in Int
        /\ treasury'.balance \in Int /\ left \in Int
    BY <1>0, LedgerConstants DEF Inv, AccountsOK
  <2>3. added \in Int
    <3>1. Available \in Int
      BY AvailableIsFree DEF Inv
    <3>2. capped \in Int
      BY <2>2, LedgerConstants DEF Least
    <3> HIDE DEF capped, left
    <3> QED BY <2>2, <3>1, <3>2 DEF Least
  <2> HIDE DEF added
  <2>4. internal' = internal + (balance'[Planet(p)] - balance[Planet(p)]) + (treasury'.balance - treasury.balance)
    BY <1>0, <2>1, <2>2, <2>3
  <2> QED BY <1>0, <1>1, <2>1, <2>4, OneBodyBooks
<1> USE LedgerConstants DEF Steps
<1>9. ASSUME NEW n \in Steps, WithdrawBonus(p, n)
      PROVE  Accounted'
  <2>1. /\ Planet(p) \in bodies /\ UNCHANGED <<internal, locked, bodies, riftLocked, debris, fleets>>
        /\ \A x \in Bodies \ {Planet(p)} : balance'[x] = balance[x]
        /\ balance'[Planet(p)] = balance[Planet(p)] + n /\ treasury'.balance = treasury.balance - n
    BY <1>0, <1>9 DEF WithdrawBonus, Credit, counters, rifts, Inv, AccountsOK
  <2>2. internal' = internal + (balance'[Planet(p)] - balance[Planet(p)]) + (treasury'.balance - treasury.balance)
    BY <1>0, <2>1
  <2> QED BY <1>0, <1>1, <2>1, <2>2, OneBodyBooks
<1>10. ASSUME NEW n \in Steps, CancelBuildingDemolition(p, n) \/ DepositMarketResource(p, n)
       PROVE  Accounted'
  <2>1. /\ Planet(p) \in bodies /\ UNCHANGED <<locked, bodies, riftLocked, debris, fleets, treasury>>
        /\ \A x \in Bodies \ {Planet(p)} : balance'[x] = balance[x]
        /\ balance'[Planet(p)] = balance[Planet(p)] + n /\ internal' = internal + n
    BY <1>0, <1>10 DEF CancelBuildingDemolition, DepositMarketResource, Free, Credit, Increase, rifts
  <2>2. internal' = internal + (balance'[Planet(p)] - balance[Planet(p)]) + (treasury'.balance - treasury.balance)
    BY <1>0, <2>1
  <2> QED BY <1>0, <1>1, <2>1, <2>2, OneBodyBooks
<1>11. ASSUME NEW n \in Steps, GrantMoonResources(p, n)
       PROVE  Accounted'
  <2>1. Moon(p) \in bodies /\ Moon(p) \in Bodies
    BY <1>0, <1>11 DEF GrantMoonResources, Usable
  <2>2. /\ UNCHANGED <<locked, bodies, riftLocked, debris, fleets, treasury>>
        /\ \A x \in Bodies \ {Moon(p)} : balance'[x] = balance[x]
        /\ balance'[Moon(p)] = balance[Moon(p)] + n /\ internal' = internal + n
    BY <1>0, <1>11, <2>1 DEF GrantMoonResources, Credit, Increase, rifts
  <2>3. internal' = internal + (balance'[Moon(p)] - balance[Moon(p)]) + (treasury'.balance - treasury.balance)
    BY <1>0, <2>1, <2>2
  <2> QED BY <1>0, <1>1, <2>1, <2>2, <2>3, OneBodyBooks
<1>12. ASSUME NEW n \in Steps, StartRift(p, n)
       PROVE  Accounted'
  <2>1. /\ Planet(p) \in bodies /\ UNCHANGED <<bodies, debris, fleets, treasury>>
        /\ \A x \in Bodies \ {Planet(p)} : balance'[x] = balance[x]
        /\ balance'[Planet(p)] = balance[Planet(p)] - n /\ internal' = internal - n /\ locked' = locked + n
        /\ riftLocked'[p] = riftLocked[p] + n /\ \A x \in Planets \ {p} : riftLocked'[x] = riftLocked[x]
    BY <1>0, <1>12 DEF StartRift, Free, Debit, Decrease
  <2>2. InRifts' = InRifts - riftLocked[p] + riftLocked'[p]
    BY <2>1, RiftMoves
  <2>3. locked' = InRifts'
    BY <1>0, <2>1, <2>2
  <2>4. internal' = internal + (balance'[Planet(p)] - balance[Planet(p)]) + (treasury'.balance - treasury.balance)
    BY <1>0, <2>1
  <2> QED BY <1>0, <2>1, <2>3, <2>4, OneBodyBooks
<1>13. ASSUME NEW n \in Steps, NEW b \in {Planet(p), Moon(p)} \cap bodies, Spend(b, n)
       PROVE  Accounted'
  <2>1. /\ b \in Bodies /\ UNCHANGED <<locked, bodies, riftLocked, debris, fleets, treasury>>
        /\ \A x \in Bodies \ {b} : balance'[x] = balance[x]
        /\ balance'[b] = balance[b] - n /\ internal' = internal - n
    BY <1>0, <1>13 DEF Spend, Debit, Decrease, rifts
  <2>2. internal' = internal + (balance'[b] - balance[b]) + (treasury'.balance - treasury.balance)
    BY <1>0, <2>1
  <2> QED BY <1>0, <1>1, <2>1, <2>2, OneBodyBooks
<1> QED BY <1>2, <1>3, <1>4, <1>5, <1>6, <1>7, <1>8, <1>9, <1>10, <1>11, <1>12, <1>13 DEF PlanetOps

-----------------------------------------------------------------------------
(* The books of fleets and battles *)

\* A mission that starts, turns or ends moves what is in the holds.
LEMMA MissionBooks ==
    ASSUME Inv, Accounted, NEW id \in Ids, NEW r, r.cargo \in Int, missions' = [missions EXCEPT ![id] = r],
           r = NoMission \/ Planet(r.from[1]) \in bodies, UNCHANGED bodies
    PROVE  Origins' /\ InHolds' = InHolds - missions[id].cargo + r.cargo
<1>1. missions'[id] = r /\ \A x \in Ids \ {id} : missions'[x] = missions[x]
  BY DEF Inv, FleetsOK
<1>2. Origins'
  BY <1>1 DEF Accounted, Origins, Active
<1> QED BY <1>2, CargoMoves

\* A step that leaves the battles alone leaves their loot alone.
LEMMA BattleBooksStay ==
    ASSUME Accounted, UNCHANGED battle
    PROVE  Loots' /\ InLoot' = InLoot
BY DEF Accounted, Loots, InLoot, Loot

\* A launch moves cargo into the hold of a fleet and burns the fuel.
LEMMA LaunchFleetAccounted ==
    ASSUME Inv, Inv', Accounted, NEW from \in bodies, NEW to \in Bodies, NEW kind, NEW leader,
           NEW cargo \in Nat, NEW fuel \in Nat, NEW support \in Nat,
           LaunchFleet(kind, from, to, leader, cargo, fuel, support)
    PROVE  Accounted'
<1> DEFINE m == [kind |-> kind, from |-> from, to |-> to, leader |-> leader, cargo |-> cargo]
           paid == [balance EXCEPT ![to] = @ - support]
<1>1. PICK id \in Ids : ~Active(id) /\ missions' = [missions EXCEPT ![id] = m]
  BY DEF LaunchFleet
<1>2. /\ balance' = [paid EXCEPT ![from] = @ - (cargo + fuel)]
      /\ Usable(from) /\ to \in bodies /\ internal' = internal - (fuel + support)
      /\ UNCHANGED <<locked, bodies, rifts, debris, battle, treasury>>
  BY DEF LaunchFleet, Usable
<1>3. from \in Bodies /\ balance \in [Bodies -> Nat] /\ balance' \in [Bodies -> Nat] /\ {internal, treasury.balance} \subseteq Nat
  BY DEF Inv, AccountsOK
<1>4. m.cargo = cargo /\ m.from = from
  OBVIOUS
<1> HIDE DEF m
<1>5. Planet(from[1]) \in bodies
  BY <1>2 DEF Usable, Free
<1>6. Origins' /\ InHolds' = InHolds - missions[id].cargo + cargo /\ missions[id].cargo = 0
  <2>1. Planet(m.from[1]) \in bodies /\ m.cargo \in Int /\ UNCHANGED bodies
    BY <1>2, <1>4, <1>5
  <2>2. Origins' /\ InHolds' = InHolds - missions[id].cargo + m.cargo
    BY <1>1, <2>1, MissionBooks
  <2> QED BY <1>1, <1>4, <2>2 DEF Active, NoMission
<1>7. Loots' /\ InLoot' = InLoot
  BY <1>2, BattleBooksStay
<1>8. InDebris' = InDebris /\ InRifts' = InRifts
  BY <1>2 DEF InDebris, InRifts, rifts
<1>9. OnBodies' = OnBodies - support - (cargo + fuel)
  <2>1. /\ paid \in [Bodies -> Int] /\ paid[to] = balance[to] - support
        /\ \A x \in Bodies \ {to} : paid[x] = balance[x]
    BY <1>3
  <2>2. /\ balance'[from] = paid[from] - (cargo + fuel)
        /\ \A x \in Bodies \ {from} : balance'[x] = paid[x]
    BY <1>2, <1>3, <2>1
  <2> HIDE DEF paid
  <2>3. PICK whole \in Int : whole = Total(paid, Bodies)
    BY <2>1, AccountsAreFinite, TotalIsInt
  <2>4. IsFiniteSet(Bodies) /\ balance \in [Bodies -> Int] /\ balance' \in [Bodies -> Int]
    BY <1>3, AccountsAreFinite
  <2>5. Total(paid, Bodies) = Total(balance, Bodies) - balance[to] + paid[to]
    BY <2>1, <2>4, TotalOfChange
  <2>6. ASSUME NEW f \in [Bodies -> Int], f[from] = paid[from] - (cargo + fuel),
               \A x \in Bodies \ {from} : f[x] = paid[x]
        PROVE  Total(f, Bodies) = Total(paid, Bodies) - paid[from] + f[from]
    BY <2>1, <2>4, <2>6, <1>3, TotalOfChange
  <2>7. OnBodies' = whole - paid[from] + balance'[from]
    BY <2>2, <2>3, <2>4, <2>6, Zenon DEF OnBodies
  <2>8. OnBodies \in Int /\ whole = OnBodies - balance[to] + paid[to]
    BY <2>3, <2>5, TotalsAreNumbers DEF OnBodies
  <2>9. balance[to] \in Int /\ paid[from] \in Int
    BY <1>3, <2>1
  <2> QED BY <2>1, <2>2, <2>7, <2>8, <2>9
<1>10. Emptied'
  <2>1. \A x \in Bodies : x # from /\ x # to => balance'[x] = balance[x]
    BY <1>2, <1>3
  <2> QED BY <1>2, <2>1 DEF Accounted, Emptied
<1>11. {OnBodies, InDebris, InHolds, InLoot} \subseteq Int
  BY TotalsAreNumbers
<1>12. internal = OnBodies + InDebris + InHolds + InLoot + treasury.balance
  BY DEF Accounted
<1>13. internal' = OnBodies' + InDebris' + InHolds' + InLoot' + treasury'.balance
  BY <1>2, <1>3, <1>6, <1>7, <1>8, <1>9, <1>11, <1>12
<1> QED BY <1>2, <1>6, <1>7, <1>8, <1>10, <1>13 DEF Accounted

\* Every launch is booked.
LEMMA LaunchesAccounted ==
    ASSUME Inv, Inv', Accounted, Launches
    PROVE  Accounted'
<1>1. 0 .. MaxStep \subseteq Nat /\ bodies \subseteq Bodies
  BY LedgerConstants DEF Inv, AccountsOK
<1>2. PICK from \in bodies :
         \/ \E kind \in {"Transport", "Deploy", "Attack", "DefenseHold", "Harvest"}, to \in bodies :
                LaunchMission(kind, from, to)
         \/ \E kind \in {"AcsAttack", "AcsDefend"}, id \in Ids : JoinAttack(kind, id, from)
  BY DEF Launches
<1>3. ASSUME NEW kind, NEW to \in bodies, LaunchMission(kind, from, to)
      PROVE  Accounted'
  BY <1>1, <1>3, LaunchFleetAccounted DEF LaunchMission
<1>4. ASSUME NEW kind, NEW id \in Ids, JoinAttack(kind, id, from)
      PROVE  Accounted'
  <2>1. missions[id].to \in Bodies
    BY <1>4, MissionsOf DEF JoinAttack, Active, NoMission
  <2> QED BY <1>1, <1>4, <2>1, LaunchFleetAccounted DEF JoinAttack
<1> QED BY <1>2, <1>3, <1>4

\* Arrivals, returns, recalls and landings move cargo, and burn nothing.
LEMMA FlightsAccounted ==
    ASSUME Inv, Inv', Accounted, NEW id \in Ids, Flights(id)
    PROVE  Accounted'
<1> DEFINE m == missions[id]
<1>1. Active(id) /\ UNCHANGED <<counters, bodies, rifts, battle, treasury>>
  BY OutboundIsActive DEF Flights, Recall, TurnBack, TransportArrives, DeployArrives, HarvestArrives, Land,
     places, Active, NoMission
<1>2. m.from \in Bodies /\ m.to \in Bodies /\ m.cargo \in Nat /\ Planet(m.from[1]) \in bodies
  BY <1>1, MissionsOf DEF Accounted, Origins
<1>3. PICK r : /\ missions' = [missions EXCEPT ![id] = r] /\ r.cargo \in Int
               /\ r = NoMission \/ r.from = m.from
               /\ \/ r.cargo = m.cargo /\ UNCHANGED <<balance, debris>>
                  \/ /\ r.cargo = 0 /\ UNCHANGED debris
                     /\ \E at \in bodies : balance' = [balance EXCEPT ![at] = @ + m.cargo]
                  \/ UNCHANGED balance /\ \E n \in Nat :
                        r.cargo = m.cargo + n /\ debris' = [debris EXCEPT ![m.to[1]] = @ - n]
  <2>1. ASSUME NEW c \in Nat
        PROVE  Homeward(m, c).cargo = c /\ Homeward(m, c).from = m.from /\ c \in Int
    BY DEF Homeward
  <2>2. NoMission.cargo = 0 /\ NoMission.cargo \in Int
    BY DEF NoMission
  <2>3. ASSUME NEW c, Turn(id, c)
        PROVE  missions' = [missions EXCEPT ![id] = Homeward(m, c)]
    BY <2>3 DEF Turn, Inv, FleetsOK
  <2>4. CASE Recall(id) \/ TurnBack(id)
    BY <1>2, <2>1, <2>3, <2>4 DEF Recall, TurnBack, places
  <2>5. CASE TransportArrives(id)
    BY <1>2, <2>1, <2>3, <2>5 DEF TransportArrives, Credit
  <2>6. CASE DeployArrives(id)
    <3>1. /\ missions' = [missions EXCEPT ![id] = NoMission] /\ UNCHANGED debris
          /\ m.to \in bodies /\ balance' = [balance EXCEPT ![m.to] = @ + m.cargo]
      BY <2>6 DEF DeployArrives, Credit, Over
    <3> QED BY <2>2, <3>1, Zenon
  <2>7. CASE \E n \in 0 .. MaxStep : HarvestArrives(id, n)
    <3>1. PICK n \in Nat : HarvestArrives(id, n)
      BY <2>7, LedgerConstants
    <3>2. m.cargo + n \in Nat
      BY <1>2
    <3> QED BY <1>2, <2>1, <2>3, <3>1, <3>2 DEF HarvestArrives, places
  <2>8. CASE Land(id)
    <3> DEFINE at == IF m.from \in bodies THEN m.from ELSE Planet(m.from[1])
    <3>1. /\ missions' = [missions EXCEPT ![id] = NoMission] /\ UNCHANGED debris
          /\ balance' = [balance EXCEPT ![at] = @ + m.cargo]
      BY <2>8 DEF Land, Credit, Over
    <3>2. at \in bodies
      BY <1>2
    <3> HIDE DEF at
    <3> QED BY <2>2, <3>1, <3>2, Zenon
  <2> QED BY <2>4, <2>5, <2>6, <2>7, <2>8 DEF Flights
<1>4. Origins' /\ InHolds' = InHolds - m.cargo + r.cargo
  BY <1>1, <1>2, <1>3, MissionBooks
<1>5. Loots' /\ InLoot' = InLoot /\ InRifts' = InRifts
  BY <1>1, BattleBooksStay DEF InRifts, rifts
<1> HIDE DEF m
<1>6. Emptied' /\ OnBodies' + InDebris' + r.cargo = OnBodies + InDebris + m.cargo
  <2>0. OnBodies \in Int /\ InDebris \in Int /\ balance \in [Bodies -> Nat] /\ debris \in [Planets -> Nat]
        /\ bodies \subseteq Bodies
    BY TotalsAreNumbers DEF Inv, AccountsOK
  <2>1. CASE r.cargo = m.cargo /\ UNCHANGED <<balance, debris>>
    BY <1>1, <2>1 DEF OnBodies, InDebris, Accounted, Emptied
  <2>2. CASE /\ r.cargo = 0 /\ UNCHANGED debris
             /\ \E at \in bodies : balance' = [balance EXCEPT ![at] = @ + m.cargo]
    <3>1. PICK at \in bodies : balance' = [balance EXCEPT ![at] = @ + m.cargo]
      BY <2>2
    <3>2. /\ balance'[at] = balance[at] + m.cargo /\ at \in Bodies
          /\ \A x \in Bodies \ {at} : balance'[x] = balance[x]
      BY <2>0, <3>1
    <3>3. OnBodies' = OnBodies - balance[at] + balance'[at]
      BY <3>2, BalanceMoves
    <3>4. InDebris' = InDebris
      BY <2>2 DEF InDebris
    <3>5. Emptied'
      BY <1>1, <3>2 DEF Accounted, Emptied
    <3>6. balance[at] \in Int /\ m.cargo \in Int
      BY <1>2, <2>0, <3>2
    <3> QED BY <2>0, <2>2, <3>2, <3>3, <3>4, <3>5, <3>6
  <2>3. CASE UNCHANGED balance /\ \E n \in Nat :
                r.cargo = m.cargo + n /\ debris' = [debris EXCEPT ![m.to[1]] = @ - n]
    <3> DEFINE p == m.to[1]
    <3>1. PICK n \in Nat : r.cargo = m.cargo + n /\ debris' = [debris EXCEPT ![p] = @ - n]
      BY <2>3
    <3>2. p \in Planets
      BY <1>2, BodiesAreOfPlanets
    <3> HIDE DEF p
    <3>3. /\ debris'[p] = debris[p] - n /\ \A x \in Planets \ {p} : debris'[x] = debris[x]
          /\ debris[p] \in Int /\ m.cargo \in Int
      BY <1>2, <2>0, <3>1, <3>2
    <3>4. InDebris' = InDebris - debris[p] + debris'[p]
      BY <3>2, <3>3, DebrisMoves
    <3>5. OnBodies' = OnBodies /\ Emptied'
      BY <1>1, <2>3 DEF OnBodies, Accounted, Emptied
    <3> QED BY <2>0, <3>1, <3>3, <3>4, <3>5
  <2> QED BY <1>3, <2>1, <2>2, <2>3 DEF m
<1>7. {OnBodies, InDebris, InHolds, InLoot, treasury.balance, m.cargo, r.cargo, OnBodies', InDebris'} \subseteq Int
  <2>1. OnBodies' \in Int /\ InDebris' \in Int
    BY AccountsAreFinite, TotalIsInt DEF OnBodies, InDebris, Inv, AccountsOK
  <2> QED BY <1>2, <1>3, <2>1, TotalsAreNumbers DEF Inv, AccountsOK
<1>8. internal = OnBodies + InDebris + InHolds + InLoot + treasury.balance /\ locked = InRifts
  BY DEF Accounted
<1>9. internal' = internal /\ locked' = locked /\ treasury' = treasury
  BY <1>1 DEF counters
<1>10. InHolds' = InHolds - m.cargo + r.cargo
  BY <1>4 DEF m
<1>11. internal' = OnBodies' + InDebris' + InHolds' + InLoot' + treasury'.balance
  BY <1>5, <1>6, <1>7, <1>8, <1>9, <1>10
<1> QED BY <1>4, <1>5, <1>6, <1>8, <1>9, <1>11 DEF Accounted

\* A battle's step moves its loot and keeps what is known of the others'.
LEMMA BattleBooks ==
    ASSUME Inv, Accounted, NEW id \in Ids, NEW b, b.loot \in Int, battle' = [battle EXCEPT ![id] = b],
           b.phase \notin {"share"} => b.loot = 0,
           b.phase \in {"loot", "share"} => b.total = Total(b.room, Ids),
           b.phase = "loot" => b.total # 0,
           b.phase = "share" /\ b.total = 0 => b.loot = 0
    PROVE  Loots' /\ InLoot' = InLoot - battle[id].loot + b.loot
<1>1. battle'[id] = b /\ \A x \in Ids : x # id => battle'[x] = battle[x]
  BY DEF Inv, FleetsOK
<1>2. Loots'
  BY <1>1 DEF Accounted, Loots
<1> QED BY <1>2, LootMoves

\* A step of the battles that leaves the places alone is booked as it moves the
\* fleets' part of the books.
LEMMA StageBooks ==
    ASSUME Inv, Accounted, UNCHANGED <<places, rifts, debris, locked, treasury>>, Origins', Loots',
           internal' = internal + (InHolds' - InHolds) + (InLoot' - InLoot),
           InHolds' \in Int, InLoot' \in Int
    PROVE  Accounted'
<1>1. UNCHANGED <<OnBodies, InDebris, InRifts>> /\ Emptied'
  BY DEF OnBodies, InDebris, InRifts, places, rifts, Accounted, Emptied
<1>2. {OnBodies, InDebris, InHolds, InLoot, internal, treasury.balance} \subseteq Int
  BY TotalsAreNumbers DEF Inv, AccountsOK
<1>3. internal = OnBodies + InDebris + InHolds + InLoot + treasury.balance /\ locked = InRifts
  BY DEF Accounted
<1>4. internal' = OnBodies' + InDebris' + InHolds' + InLoot' + treasury'.balance
  BY <1>1, <1>2, <1>3
<1> QED BY <1>1, <1>3, <1>4 DEF Accounted

\* A fight measures the room there is for loot.
LEMMA FightAccounted ==
    ASSUME Inv, Accounted, NEW id \in Ids, Fight(id)
    PROVE  Accounted'
<1>1. PICK alive \in SUBSET Fighters(id) :
         \E measured \in [Attackers(id) \cap alive -> 0 .. MaxStep], total \in 0 .. Slots * MaxStep :
            /\ total = Sum(measured)
            /\ battle' = [battle EXCEPT ![id] =
                [phase |-> IF total = 0 THEN "return" ELSE "loot", loot |-> 0, total |-> total,
                 room |-> [m \in Ids |-> IF m \in DOMAIN measured THEN measured[m] ELSE 0],
                 alive |-> alive]]
  BY Zenon DEF Fight
<1> DEFINE Sharers == Attackers(id) \cap alive
<1>2. PICK measured \in [Sharers -> 0 .. MaxStep], total \in 0 .. Slots * MaxStep :
            /\ total = Sum(measured)
            /\ battle' = [battle EXCEPT ![id] =
                [phase |-> IF total = 0 THEN "return" ELSE "loot", loot |-> 0, total |-> total,
                 room |-> [m \in Ids |-> IF m \in DOMAIN measured THEN measured[m] ELSE 0],
                 alive |-> alive]]
  BY <1>1, Zenon
<1> DEFINE room == [m \in Ids |-> IF m \in DOMAIN measured THEN measured[m] ELSE 0]
           phase == IF total = 0 THEN "return" ELSE "loot"
           b == [phase |-> phase, loot |-> 0, total |-> total, room |-> room, alive |-> alive]
<1>3. /\ missions[id].kind = "Attack" /\ bodyLock[missions[id].to[1]] = 0
      /\ UNCHANGED <<reserve, counters, places, rifts, debris, missions, treasury>>
  BY DEF Fight, Calm
<1>4. battle' = [battle EXCEPT ![id] = b]
  BY <1>2
<1>5. total = Total(room, Ids)
  <2>1. Sharers \subseteq Ids
    BY DEF Attackers
  <2>2. 0 .. MaxStep \subseteq Int
    OBVIOUS
  <2>3. measured \in [Sharers -> Int] /\ DOMAIN measured = Sharers
    BY <2>2
  <2>4. room \in [Ids -> Int] /\ \A x \in Ids : room[x] = IF x \in Sharers THEN measured[x] ELSE 0
    BY <2>3
  <2> HIDE DEF room, Sharers
  <2>5. Total(room, Ids) = Total(measured, Sharers)
    BY <2>1, <2>3, <2>4, AccountsAreFinite, TotalOfSupport
  <2>6. total = Total(measured, Sharers)
    BY <1>2, <2>3, SumIsTotal
  <2> QED BY <2>5, <2>6
<1> HIDE DEF room
<1>6. /\ b.loot = 0 /\ b.loot \in Int /\ b.phase \in {"loot", "return"}
      /\ b.total = Total(b.room, Ids) /\ (b.phase = "loot" => b.total # 0)
  BY <1>5
<1> HIDE DEF b
<1>7. battle[id].phase = "none"
  BY <1>3, LedgerConstants DEF Inv, Battles, Ids
<1>8. battle[id].loot = 0
  BY <1>7 DEF Accounted, Loots
<1>9. Loots' /\ InLoot' = InLoot - battle[id].loot + b.loot
  BY <1>4, <1>6, BattleBooks
<1>10. InLoot \in Int /\ InHolds \in Int /\ internal \in Int
  BY TotalsAreNumbers DEF Inv, AccountsOK
<1>11. Origins' /\ InHolds' = InHolds
  BY <1>3 DEF Accounted, Origins, Active, places, InHolds, Cargo
<1>12. internal' = internal + (InHolds' - InHolds) + (InLoot' - InLoot)
  BY <1>3, <1>6, <1>8, <1>9, <1>10, <1>11 DEF counters
<1>13. InHolds' \in Int /\ InLoot' \in Int
  BY <1>6, <1>8, <1>9, <1>10, <1>11
<1>14. UNCHANGED <<places, rifts, debris, locked, treasury>>
  BY <1>3 DEF counters
<1> QED BY <1>9, <1>11, <1>12, <1>13, <1>14, StageBooks

\* Whoever has all the room that is left takes all the loot that is left.
LEMMA LastTakesAll ==
    ASSUME NEW loot \in Nat, NEW n \in Nat, n # 0
    PROVE  (loot * n) \div n = loot
BY SMT

\* A share moves from the loot into a hold, and the last one empties the loot.
LEMMA ShareLootAccounted ==
    ASSUME Inv, Inv', Accounted, NEW id \in Ids, NEW m \in Ids, ShareLoot(id, m)
    PROVE  Accounted'
<1> DEFINE b == battle[id]
           share == (b.loot * b.room[m]) \div b.total
           room == [b.room EXCEPT ![m] = 0]
           c == [phase |-> "share", loot |-> b.loot - share, total |-> b.total - b.room[m],
                 room |-> room, alive |-> b.alive]
           f == [missions[m] EXCEPT !.cargo = @ + share]
<1>1. /\ b.phase = "share" /\ b.room[m] # 0 /\ b.room[m] <= b.total
      /\ missions' = [missions EXCEPT ![m].cargo = @ + share]
      /\ UNCHANGED <<reserve, counters, places, rifts, debris, bodyLock, treasury>>
      /\ battle' = [battle EXCEPT ![id] = c]
  BY DEF ShareLoot
<1>2. b \in [phase : {"none", "loot", "share", "return"}, loot : Nat, total : Nat, room : [Ids -> Nat], alive : SUBSET Ids]
  BY DEF Inv, FleetsOK
<1>3. b.loot \in Nat /\ b.room[m] \in Nat /\ b.total \in Nat /\ b.total # 0 /\ b.room \in [Ids -> Nat]
  BY <1>1, <1>2
<1>4. b.total = Total(b.room, Ids)
  BY <1>1 DEF Accounted, Loots
<1>5. b.total - b.room[m] = Total(room, Ids)
  <2>1. /\ b.room \in [Ids -> Int] /\ room \in [Ids -> Int] /\ room[m] = 0
        /\ \A x \in Ids \ {m} : room[x] = b.room[x]
    BY <1>3
  <2> HIDE DEF room
  <2>2. Total(room, Ids) = Total(b.room, Ids) - b.room[m] + room[m]
    BY <2>1, AccountsAreFinite, TotalOfChange
  <2> QED BY <1>3, <1>4, <2>1, <2>2
<1>6. share \in Int
  <2> DEFINE n == b.loot * b.room[m]
             d == b.total
  <2>1. n \in Nat /\ d \in Nat /\ d # 0
    BY <1>3, SMT
  <2> HIDE DEF n, d
  <2>2. n \div d \in Int
    BY <2>1, SMT
  <2> QED BY <2>2 DEF n, d
<1>7. b.total - b.room[m] = 0 => b.loot - share = 0
  <2> SUFFICES ASSUME b.total - b.room[m] = 0 PROVE b.loot - share = 0
    OBVIOUS
  <2>1. b.room[m] = b.total
    BY <1>3
  <2>2. share = (b.loot * b.total) \div b.total
    BY <2>1
  <2>3. (b.loot * b.total) \div b.total = b.loot
    BY <1>3, LastTakesAll
  <2> QED BY <1>3, <2>2, <2>3
<1> HIDE DEF share, room
<1>8. /\ c.loot = b.loot - share /\ c.loot \in Int /\ c.phase = "share"
      /\ c.total = Total(c.room, Ids) /\ (c.total = 0 => c.loot = 0)
  BY <1>3, <1>5, <1>6, <1>7
<1> HIDE DEF c
<1>9. Loots' /\ InLoot' = InLoot - battle[id].loot + c.loot
  BY <1>1, <1>8, BattleBooks
<1>10. Active(m) /\ missions[m].cargo \in Nat
  <2>1. m \in Attackers(id) /\ missions[id].kind = "Attack"
    BY <1>1 DEF Inv, Battles
  <2>2. missions[m].kind # "none"
    BY <2>1 DEF Attackers
  <2> QED BY <2>2, MissionsOf DEF Active, NoMission
<1>11. missions' = [missions EXCEPT ![m] = f]
  BY <1>1 DEF Inv, FleetsOK
<1>12. f.cargo = missions[m].cargo + share /\ f.from = missions[m].from /\ f.cargo \in Int
  <2>1. missions[m] \in [kind : Outward \cup {"homebound"}, from : Bodies, to : Bodies, leader : {0} \cup Ids, cargo : Nat]
    BY <1>10, MissionsOf
  <2> QED BY <1>6, <2>1
<1> HIDE DEF f
<1>13. Planet(f.from[1]) \in bodies /\ UNCHANGED bodies
  BY <1>1, <1>10, <1>12 DEF Accounted, Origins, places
<1>14. Origins' /\ InHolds' = InHolds - missions[m].cargo + f.cargo
  BY <1>11, <1>12, <1>13, MissionBooks
<1>15. {InLoot, InHolds, internal, share, missions[m].cargo, battle[id].loot} \subseteq Int
  BY <1>3, <1>6, <1>10, TotalsAreNumbers DEF Inv, AccountsOK
<1>16. internal' = internal + (InHolds' - InHolds) + (InLoot' - InLoot) /\ InHolds' \in Int /\ InLoot' \in Int
  <2>1. internal' = internal /\ c.loot = battle[id].loot - share
    BY <1>1, <1>8 DEF counters
  <2> QED BY <1>9, <1>12, <1>14, <1>15, <2>1
<1>17. UNCHANGED <<places, rifts, debris, locked, treasury>>
  BY <1>1 DEF counters
<1> QED BY <1>9, <1>14, <1>16, <1>17, StageBooks

\* A raid takes from the body and its rift what it puts into the loot.
LEMMA RaidAccounted ==
    ASSUME Inv, Inv', Accounted, NEW id \in Ids, NEW plunder \in 0 .. MaxStep, Raid(id, plunder)
    PROVE  Accounted'
<1> DEFINE to == missions[id].to
           room == battle[id].total
           taken == Least(room, plunder)
           torn == IF to[2] = "planet" THEN Least(room - taken, riftLocked[to[1]]) ELSE 0
           b == [battle[id] EXCEPT !.loot = taken + torn, !.phase = "share"]
<1>1. /\ battle[id].phase = "loot" /\ taken <= balance[to]
      /\ balance' = [balance EXCEPT ![to] = @ - taken]
      /\ locked' = locked - torn /\ internal' = internal + torn
      /\ riftLocked' = [riftLocked EXCEPT ![to[1]] = @ - torn]
      /\ UNCHANGED <<bodies, debris, missions, treasury>>
  BY DEF Raid, Debit, TearRift
<1>2. battle' = [battle EXCEPT ![id] = b]
  <2>1. battle' = [battle EXCEPT ![id].loot = taken + torn, ![id].phase = "share"]
    BY DEF Raid
  <2> QED BY <2>1 DEF Inv, FleetsOK
<1>3. room \in Nat /\ plunder \in Nat /\ room # 0 /\ room = Total(battle[id].room, Ids) /\ battle[id].loot = 0
  BY <1>1, LedgerConstants DEF Inv, FleetsOK, Accounted, Loots
<1>4. to \in Bodies /\ to[1] \in Planets
  <2>1. missions[id].kind = "Attack"
    BY <1>1 DEF Inv, Battles
  <2>2. to \in Bodies
    BY <2>1, MissionsOf DEF Active, NoMission
  <2> QED BY <2>2, BodiesAreOfPlanets
<1>5. balance \in [Bodies -> Nat] /\ riftLocked \in [Planets -> Nat] /\ bodies \subseteq Bodies
  BY DEF Inv, AccountsOK
<1>6. taken \in Nat /\ taken <= room
  BY <1>3, LeastIsLeast
<1>7. torn \in Nat
  <2>1. room - taken \in Nat /\ riftLocked[to[1]] \in Nat
    BY <1>3, <1>4, <1>5, <1>6
  <2> HIDE DEF room, taken
  <2> QED BY <2>1, LeastIsLeast
<1>8. /\ b.loot = taken + torn /\ b.loot \in Int /\ b.phase = "share"
      /\ b.total = Total(b.room, Ids) /\ b.total # 0
  <2>1. battle[id] \in [phase : {"none", "loot", "share", "return"}, loot : Nat, total : Nat,
                        room : [Ids -> Nat], alive : SUBSET Ids]
    BY DEF Inv, FleetsOK
  <2> HIDE DEF taken, torn
  <2> QED BY <1>3, <1>6, <1>7, <2>1
<1> HIDE DEF b, taken, torn, room
<1>9. Loots' /\ InLoot' = InLoot - battle[id].loot + b.loot
  BY <1>2, <1>8, BattleBooks
<1>10. /\ balance'[to] = balance[to] - taken /\ \A x \in Bodies \ {to} : balance'[x] = balance[x]
       /\ balance[to] \in Nat
  BY <1>1, <1>4, <1>5
<1>11. Emptied'
  <2>1. to \notin bodies => balance[to] = 0
    BY <1>4 DEF Accounted, Emptied
  <2>2. to \notin bodies => balance'[to] = 0
    BY <1>1, <1>6, <1>10, <2>1
  <2> QED BY <1>1, <1>10, <2>2 DEF Accounted, Emptied
<1>12. /\ riftLocked'[to[1]] = riftLocked[to[1]] - torn /\ riftLocked[to[1]] \in Nat
       /\ \A x \in Planets \ {to[1]} : riftLocked'[x] = riftLocked[x]
  BY <1>1, <1>4, <1>5
<1>13. OnBodies' = OnBodies - balance[to] + balance'[to]
  BY <1>4, <1>10, BalanceMoves
<1>14. InRifts' = InRifts - riftLocked[to[1]] + riftLocked'[to[1]]
  BY <1>4, <1>12, RiftMoves
<1>15. Origins' /\ InHolds' = InHolds /\ InDebris' = InDebris
  BY <1>1 DEF Accounted, Origins, Active, InHolds, Cargo, InDebris
<1>16. {OnBodies, InDebris, InHolds, InLoot, InRifts, internal, locked, treasury.balance} \subseteq Int
  BY TotalsAreNumbers DEF Inv, AccountsOK
<1>17. internal = OnBodies + InDebris + InHolds + InLoot + treasury.balance /\ locked = InRifts
  BY DEF Accounted
<1>18. locked' = InRifts'
  BY <1>1, <1>7, <1>12, <1>14, <1>16, <1>17
<1>19. internal' = OnBodies' + InDebris' + InHolds' + InLoot' + treasury'.balance
  <2>1. OnBodies' = OnBodies - taken /\ InLoot' = InLoot + taken + torn
    BY <1>3, <1>6, <1>7, <1>8, <1>9, <1>10, <1>13, <1>16
  <2> QED BY <1>1, <1>6, <1>7, <1>15, <1>16, <1>17, <2>1
<1> QED BY <1>9, <1>11, <1>15, <1>18, <1>19 DEF Accounted

\* When no room is left, no loot is left.
LEMMA RaidEndsAccounted ==
    ASSUME Inv, Accounted, NEW id \in Ids, RaidEnds(id)
    PROVE  Accounted'
<1> DEFINE b == [battle[id] EXCEPT !.phase = "return"]
<1>1. /\ battle[id].phase = "share" /\ \A m \in Ids : battle[id].room[m] = 0
      /\ UNCHANGED <<reserve, counters, places, rifts, debris, missions, bodyLock, treasury>>
  BY DEF RaidEnds
<1>2. battle' = [battle EXCEPT ![id] = b]
  BY DEF RaidEnds, Inv, FleetsOK
<1>3. battle[id] \in [phase : {"none", "loot", "share", "return"}, loot : Nat, total : Nat,
                      room : [Ids -> Nat], alive : SUBSET Ids]
  BY DEF Inv, FleetsOK
<1>4. battle[id].loot = 0
  <2>1. battle[id].total = Total(battle[id].room, Ids)
    BY <1>1 DEF Accounted, Loots
  <2>2. battle[id].room \in [Ids -> Int]
    BY <1>3
  <2>3. battle[id].total = 0
    BY <1>1, <2>1, <2>2, AccountsAreFinite, TotalOfZeros
  <2> QED BY <1>1, <2>3 DEF Accounted, Loots
<1>5. b.loot = 0 /\ b.loot \in Int /\ b.phase = "return"
  BY <1>3, <1>4
<1> HIDE DEF b
<1>6. Loots' /\ InLoot' = InLoot - battle[id].loot + b.loot
  BY <1>2, <1>5, BattleBooks
<1>7. Origins' /\ InHolds' = InHolds
  BY <1>1 DEF Accounted, Origins, Active, places, InHolds, Cargo
<1>8. InLoot \in Int /\ InHolds \in Int /\ internal \in Int
  BY TotalsAreNumbers DEF Inv, AccountsOK
<1>9. internal' = internal + (InHolds' - InHolds) + (InLoot' - InLoot) /\ InHolds' \in Int /\ InLoot' \in Int
  BY <1>1, <1>4, <1>5, <1>6, <1>7, <1>8 DEF counters
<1>10. UNCHANGED <<places, rifts, debris, locked, treasury>>
  BY <1>1 DEF counters
<1> QED BY <1>6, <1>7, <1>9, <1>10, StageBooks

\* A fleet leaves a battle with its hold, or its hold is written off.
LEMMA HomeboundBooks ==
    ASSUME Inv, Accounted, NEW id \in Ids, NEW m \in Ids, Outbound(m), missions' = Homebound(id, m),
           UNCHANGED bodies
    PROVE  Origins' /\ Lost(id, m) \in Nat /\ InHolds' = InHolds - Lost(id, m)
<1>1. missions[m].cargo \in Nat /\ Active(m) /\ InHolds \in Int
  BY LeadersAreMissions, OutboundIsActive, TotalsAreNumbers
<1>2. CASE m \in battle[id].alive
  <2> DEFINE r == Homeward(missions[m], missions[m].cargo)
  <2>1. /\ missions' = [missions EXCEPT ![m] = r] /\ Lost(id, m) = 0
        /\ r.cargo = missions[m].cargo /\ r.from = missions[m].from
    BY <1>2 DEF Homebound, Lost, Homeward, Inv, FleetsOK
  <2> HIDE DEF r
  <2>2. Planet(r.from[1]) \in bodies /\ r.cargo \in Int
    BY <1>1, <2>1 DEF Accounted, Origins
  <2>3. Origins' /\ InHolds' = InHolds - missions[m].cargo + r.cargo
    BY <2>1, <2>2, MissionBooks
  <2> QED BY <1>1, <2>1, <2>3
<1>3. CASE m \notin battle[id].alive
  <2>1. PICK r : /\ r = NoMission /\ r.cargo = 0 /\ r.cargo \in Int
                 /\ missions' = [missions EXCEPT ![m] = r] /\ Lost(id, m) = missions[m].cargo
    <3>1. missions' = [missions EXCEPT ![m] = NoMission] /\ Lost(id, m) = missions[m].cargo
      BY <1>3 DEF Homebound, Lost
    <3>2. NoMission.cargo = 0 /\ NoMission.cargo \in Int
      BY DEF NoMission
    <3> QED BY <3>1, <3>2, Zenon
  <2>2. Origins' /\ InHolds' = InHolds - missions[m].cargo + r.cargo
    BY <2>1, MissionBooks
  <2> QED BY <1>1, <2>1, <2>2
<1> QED BY <1>2, <1>3

\* What is lost with a fleet leaves circulation.
LEMMA ReturnMemberAccounted ==
    ASSUME Inv, Accounted, NEW id \in Ids, NEW m \in Ids, ReturnMember(id, m)
    PROVE  Accounted'
<1>1. /\ m \in Fighters(id) /\ m # id
      /\ missions' = Homebound(id, m) /\ internal' = internal - Lost(id, m)
      /\ UNCHANGED <<reserve, locked, places, rifts, debris, battle, bodyLock, treasury>>
  BY DEF ReturnMember, Remaining, Decrease
<1>2. Outbound(m)
  <2>1. missions[m].leader = id \/ missions[m].kind = "DefenseHold"
    BY <1>1 DEF Fighters, Attackers
  <2>2. missions[m].leader = id => missions[m].kind \in {"AcsAttack", "AcsDefend"}
    BY LedgerConstants DEF Inv, Followers, Ids
  <2> QED BY <2>1, <2>2 DEF Outbound, Outward
<1>3. Origins' /\ Lost(id, m) \in Nat /\ InHolds' = InHolds - Lost(id, m)
  BY <1>1, <1>2, HomeboundBooks DEF places
<1>4. Loots' /\ InLoot' = InLoot
  BY <1>1, BattleBooksStay
<1>5. InLoot \in Int /\ InHolds \in Int /\ internal \in Int
  BY TotalsAreNumbers DEF Inv, AccountsOK
<1>6. internal' = internal + (InHolds' - InHolds) + (InLoot' - InLoot) /\ InHolds' \in Int /\ InLoot' \in Int
  BY <1>1, <1>3, <1>4, <1>5
<1> QED BY <1>1, <1>3, <1>4, <1>6, StageBooks

\* The end of a battle books the debris and what is lost with the attack.
LEMMA FinishAccounted ==
    ASSUME Inv, Inv', Accounted, NEW id \in Ids, NEW wreck \in 0 .. MaxStep, Finish(id, wreck)
    PROVE  Accounted'
<1> DEFINE p == missions[id].to[1]
           lost == Lost(id, id)
           scattered == Least(wreck, Available + lost)
<1>1. /\ battle[id].phase = "return" /\ Outbound(id)
      /\ internal' = internal - lost + scattered /\ missions' = Homebound(id, id)
      /\ debris' = [debris EXCEPT ![p] = @ + scattered]
      /\ battle' = [battle EXCEPT ![id] = NoBattle]
      /\ UNCHANGED <<reserve, locked, places, rifts, treasury>>
  BY DEF Finish
<1>2. p \in Planets
  BY <1>1, OutboundIsActive, MissionsOf, BodiesAreOfPlanets
<1>3. Origins' /\ lost \in Nat /\ InHolds' = InHolds - lost
  BY <1>1, HomeboundBooks DEF places
<1> HIDE DEF lost, p
<1>4. scattered \in Nat
  <2>1. wreck \in Nat /\ Available + lost \in Nat
    BY <1>3, AvailableIsFree, LedgerConstants DEF Inv
  <2> QED BY <2>1, LeastIsLeast
<1> HIDE DEF scattered
<1>5. /\ debris'[p] = debris[p] + scattered /\ debris[p] \in Nat
      /\ \A x \in Planets \ {p} : debris'[x] = debris[x]
  BY <1>1, <1>2 DEF Inv, AccountsOK
<1>6. InDebris' = InDebris - debris[p] + debris'[p]
  BY <1>2, <1>5, DebrisMoves
<1>7. Loots' /\ InLoot' = InLoot - battle[id].loot + NoBattle.loot
  <2>1. NoBattle.loot = 0 /\ NoBattle.loot \in Int /\ NoBattle.phase = "none"
    BY DEF NoBattle
  <2> QED BY <1>1, <2>1, BattleBooks
<1>8. battle[id].loot = 0 /\ NoBattle.loot = 0
  BY <1>1 DEF Accounted, Loots, NoBattle
<1>9. UNCHANGED <<OnBodies, InRifts>> /\ Emptied'
  BY <1>1 DEF OnBodies, InRifts, places, rifts, Accounted, Emptied
<1>10. {OnBodies, InDebris, InHolds, InLoot, internal, treasury.balance} \subseteq Int
  BY TotalsAreNumbers DEF Inv, AccountsOK
<1>11. internal = OnBodies + InDebris + InHolds + InLoot + treasury.balance /\ locked = InRifts
  BY DEF Accounted
<1>12. internal' = OnBodies' + InDebris' + InHolds' + InLoot' + treasury'.balance
  <2>1. InDebris' = InDebris + scattered /\ InLoot' = InLoot
    BY <1>4, <1>5, <1>6, <1>7, <1>8, <1>10
  <2> QED BY <1>1, <1>3, <1>4, <1>9, <1>10, <1>11, <2>1
<1> QED BY <1>1, <1>3, <1>7, <1>9, <1>11, <1>12 DEF Accounted

\* Every step is booked.
THEOREM NextAccounted == Inv /\ Inv' /\ Accounted /\ [Next]_vars => Accounted'
<1> SUFFICES ASSUME Inv, Inv', Accounted, [Next]_vars PROVE Accounted'
  OBVIOUS
<1>1. CASE Reserves
  BY <1>1, ReservesAccounted
<1>2. CASE \E p \in Planets : PlanetOps(p)
  BY <1>2, PlanetOpsAccounted
<1>3. CASE Launches
  BY <1>3, LaunchesAccounted
<1>4. ASSUME NEW id \in Ids, Flights(id)
      PROVE  Accounted'
  BY <1>4, FlightsAccounted
<1>5. ASSUME NEW id \in Ids, Stages(id)
      PROVE  Accounted'
  BY <1>5, FightAccounted, RaidAccounted, ShareLootAccounted, RaidEndsAccounted,
     ReturnMemberAccounted, FinishAccounted DEF Stages
<1>6. CASE UNCHANGED vars
  BY <1>6 DEF vars, counters, places, rifts, fleets, Accounted, Emptied, Origins, Active, Loots,
     OnBodies, InDebris, InHolds, InLoot, InRifts, Cargo, Loot
<1> QED BY <1>1, <1>2, <1>3, <1>4, <1>5, <1>6 DEF Next

\* The books agree with the accounts in every reachable state.
THEOREM AlwaysAccounted == Spec => []Accounted
BY InitAccounted, NextAccounted, Invariant, PTL DEF Spec

\* What is counted as circulating is exactly what the bodies, the debris, the
\* holds, the loot and the treasury hold, after any number of operations,
\* launches, raids and battles: no settlement fails on an underflow.
THEOREM AlwaysConserved == Spec => []Conservation
<1>1. ASSUME Inv, Accounted PROVE Conservation
  <2>1. Sum(balance) = OnBodies /\ Sum(debris) = InDebris
    BY <1>1, SumIsTotal DEF OnBodies, InDebris, Inv, AccountsOK
  <2>2. Sum(Cargo) = InHolds /\ Sum(Loot) = InLoot
    <3>1. DOMAIN Cargo = Ids /\ DOMAIN Loot = Ids
      BY DEF Cargo, Loot
    <3> QED BY <3>1, SumIsTotal DEF InHolds, InLoot
  <2> QED BY <1>1, <2>1, <2>2 DEF Conservation, Accounted, Cargo, Loot
<1> QED BY <1>1, Invariant, AlwaysAccounted, PTL

\* What is counted as locked is exactly what the rifts hold, extraction by
\* extraction, also after raids that tore from them.
THEOREM RiftsAlwaysLocked == Spec => []RiftsAreLocked
<1>1. ASSUME Inv, Accounted PROVE RiftsAreLocked
  <2>1. Sum(riftLocked) = InRifts
    BY <1>1, SumIsTotal DEF InRifts, Inv, AccountsOK
  <2> QED BY <1>1, <2>1 DEF RiftsAreLocked, Accounted, Inv, AccountsOK
<1> QED BY <1>1, Invariant, AlwaysAccounted, PTL

=============================================================================
