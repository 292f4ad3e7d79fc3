--------------------------- MODULE ResourceLedger ---------------------------
(***************************************************************************)
(* The books of the game.  Every resource is backed by a token held by the *)
(* contract: internal counts what circulates in the game, on planets and   *)
(* moons, in the holds of fleets, in debris, in loot not yet shared out    *)
(* and in the treasury of the alliance; locked counts what waits in rift   *)
(* extractions.  Nothing keeps a sum over the accounts: each operation     *)
(* moves the two counters by hand, in some fifteen modules.                *)
(* One resource stands for the three, which are counted alike (production  *)
(* burns deuterium only: here the one resource).  Times, units and costs   *)
(* are arbitrary: what is due, what a battle does and what is paid is      *)
(* chosen freely.  An operation settles the production of its planet       *)
(* first: that is a step of its own, which anyone may take at any time.    *)
(***************************************************************************)
EXTENDS Integers, FiniteSetsExt

CONSTANTS
    Planets, Mooned,    \* planet ids, and those that may have a moon
    Players, OwnerOf,   \* who settles each planet
    Homes,              \* planets that may not be abandoned
    Starting,           \* resources of a new planet
    StorageCap,         \* what production fills a planet up to
    BonusBps, BPS,      \* the treasury's part of the production
    MaxBonus,           \* bound: bonus of the treasury, paid or owed
    MaxReserve,         \* bound: tokens in the contract
    MaxStep,            \* bound: resources moved by one operation
    Slots,              \* bound: missions under way at once
    Together            \* bound: do moons and rifts, two missions and a bonus meet?

ASSUME LedgerConstants ==
    /\ IsFiniteSet(Planets)
    /\ Homes \subseteq Planets /\ Mooned \subseteq Planets /\ OwnerOf \in [Planets -> Players]
    /\ {Starting, StorageCap, BonusBps, MaxBonus, MaxReserve, MaxStep, Slots} \subseteq Nat
    /\ BPS \in Nat \ {0}

VARIABLES
    reserve,            \* tokens that the contract holds
    internal, locked,   \* the two counters
    bodies,             \* planets and moons in play
    balance,            \* resources of each body
    rift,               \* extraction of each planet
    riftLocked,         \* what the rift of each planet has locked
    debris,             \* debris field of each planet
    missions, battle,   \* missions under way, and the battle of each attack
    bodyLock,           \* the attack that holds a planet and its moon, or 0
    treasury            \* paid invites: credited, pending and carried bonus

counters == <<internal, locked>>
places == <<bodies, balance>>
rifts == <<rift, riftLocked>>
fleets == <<missions, battle, bodyLock>>
vars == <<reserve, counters, places, rifts, debris, fleets, treasury>>

Bodies == (Planets \X {"planet"}) \cup (Mooned \X {"moon"})
Planet(p) == <<p, "planet">>
Moon(p) == <<p, "moon">>
Ids == 1 .. Slots
Steps == 1 .. MaxStep

NoRift == [active |-> FALSE, amount |-> 0]
\* A mission that is over leaves its slot; of one on its way home only the
\* origin and the cargo still matter.
NoMission == [kind |-> "none", from |-> <<>>, to |-> <<>>, leader |-> 0, cargo |-> 0]
Homeward(m, cargo) == [kind |-> "homebound", from |-> m.from, to |-> m.from, leader |-> 0, cargo |-> cargo]
Outward == {"Transport", "Deploy", "Attack", "AcsAttack", "AcsDefend", "DefenseHold", "Harvest"}
NoBattle == [phase |-> "none", loot |-> 0, total |-> 0, room |-> [id \in Ids |-> 0], alive |-> {}]

TypeOK ==
    /\ {reserve, internal, locked} \subseteq Nat
    /\ bodies \subseteq Bodies /\ balance \in [Bodies -> Nat]
    /\ rift \in [Planets -> [active : BOOLEAN, amount : Nat]]
    /\ riftLocked \in [Planets -> Nat] /\ debris \in [Planets -> Nat]
    /\ missions \in [Ids -> {NoMission} \cup
          [kind : Outward \cup {"homebound"}, from : Bodies, to : Bodies,
           leader : {0} \cup Ids, cargo : Nat]]
    /\ battle \in [Ids -> [phase : {"none", "loot", "share", "return"}, loot : Nat,
                           total : Nat, room : [Ids -> Nat], alive : SUBSET Ids]]
    /\ bodyLock \in [Planets -> {0} \cup Ids]
    /\ treasury \in [balance : Nat, pending : Nat, carried : 0 .. BPS - 1]

Init ==
    /\ reserve = 0 /\ internal = 0 /\ locked = 0
    /\ bodies = {} /\ balance = [b \in Bodies |-> 0]
    /\ rift = [p \in Planets |-> NoRift]
    /\ riftLocked = [p \in Planets |-> 0] /\ debris = [p \in Planets |-> 0]
    /\ missions = [id \in Ids |-> NoMission] /\ battle = [id \in Ids |-> NoBattle]
    /\ bodyLock = [p \in Planets |-> 0]
    /\ treasury = [balance |-> 0, pending |-> 0, carried |-> 0]

-----------------------------------------------------------------------------
Active(id) == missions[id] # NoMission
Outbound(id) == missions[id].kind \in Outward

(* Bounds. *)
RoomForBonus(owed) ==
    owed <= MaxBonus /\ (owed = 0 \/ Together \/ Cardinality({id \in Ids : Active(id)}) <= 1)
RoomForFleet ==
    treasury.balance + treasury.pending = 0 \/ Together \/ \A id \in Ids : ~Active(id)
RoomForMoon == Together \/ \A p \in Planets : riftLocked[p] = 0 /\ ~rift[p].active
RoomForRift == Together \/ \A p \in Mooned : Moon(p) \notin bodies

(* The two counters.  Subtractions are checked: they revert on underflow. *)

Requirement == internal + locked
Available == IF reserve > Requirement THEN reserve - Requirement ELSE 0
Least(m, n) == IF m < n THEN m ELSE n

Increase(n) ==
    /\ n = 0 \/ Requirement + n <= reserve
    /\ internal' = internal + n

Decrease(n) == n <= internal /\ internal' = internal - n

\* What the accounts of the game are credited and debited with.
Credit(b, n) == balance' = [balance EXCEPT ![b] = @ + n]
\* Mutant of Debit: a spend does not look at what is there.
Debit_Unchecked(b, n) == balance' = [balance EXCEPT ![b] = @ - n]
Debit(b, n) == n <= balance[b] /\ balance' = [balance EXCEPT ![b] = @ - n]

\* Actions at a planet or its moon wait for a battle there.
Free(p) == Planet(p) \in bodies /\ bodyLock[p] = 0
Usable(b) == b \in bodies /\ Free(b[1])

-----------------------------------------------------------------------------
(* The reserve *)

DepositReserves(n) ==
    /\ reserve + n <= MaxReserve
    /\ reserve' = reserve + n
    /\ UNCHANGED <<counters, places, rifts, debris, fleets, treasury>>

\* Mutant of ReleaseExcess: what the rifts have locked is not kept back.
ReleaseExcess_Locked(n) ==
    /\ n <= reserve /\ internal <= reserve - n
    /\ reserve' = reserve - n
    /\ UNCHANGED <<counters, places, rifts, debris, fleets, treasury>>

\* (The safety margin is the caller's.)
ReleaseExcess(n) ==
    /\ n <= reserve /\ Requirement <= reserve - n
    /\ reserve' = reserve - n
    /\ UNCHANGED <<counters, places, rifts, debris, fleets, treasury>>

\* Another token, of which the contract holds what it happens to hold.
SetResourceToken(held) ==
    /\ Requirement <= held
    /\ reserve' = held
    /\ UNCHANGED <<counters, places, rifts, debris, fleets, treasury>>

-----------------------------------------------------------------------------
(* Planets and moons *)

\* First settlement, a colony, or the import of a planet of the past game.
StartPlanet(p, n) ==
    /\ Planet(p) \notin bodies /\ riftLocked[p] = 0
    /\ Increase(n)
    /\ bodies' = bodies \cup {Planet(p)} /\ balance' = [balance EXCEPT ![Planet(p)] = n]
    /\ rift' = [rift EXCEPT ![p] = NoRift]
    /\ UNCHANGED <<reserve, locked, riftLocked, debris, fleets, treasury>>

\* The treasury's part of what was produced by a member who came by a paid
\* invite: the reserve pays on top, as far as it reaches, the rest stays owed.
Bonus(added, free) ==
    LET scaled == added * BonusBps + treasury.carried
        owed == treasury.pending + scaled \div BPS
        paid == Least(owed, free)
    IN  [balance |-> treasury.balance + paid, pending |-> owed - paid, carried |-> scaled % BPS]

\* Production is limited by the storage, then by what the reserve had free
\* before the burn.
SettleProduction(p, produced, burned, member) ==
    LET left == balance[Planet(p)] - burned
        capped == IF left > StorageCap THEN left ELSE Least(left + produced, StorageCap)
        added == Least(capped - left, Available)
        credited == IF member /\ added # 0
                    THEN Bonus(added, reserve - (Requirement - burned + added)) ELSE treasury
    IN  /\ Free(p)
        /\ burned <= balance[Planet(p)] /\ burned <= internal
        /\ RoomForBonus(credited.balance + credited.pending)          \* bound
        /\ balance' = [balance EXCEPT ![Planet(p)] = left + added]
        /\ treasury' = credited
        /\ internal' = internal - burned + added + (credited.balance - treasury.balance)
        /\ UNCHANGED <<reserve, locked, bodies, rifts, debris, fleets>>

\* Mutant of WithdrawBonus: the bonus is put into circulation a second time.
WithdrawBonus_Counted(p, n) ==
    /\ Planet(p) \in bodies /\ n <= treasury.balance
    /\ treasury' = [treasury EXCEPT !.balance = @ - n]
    /\ Credit(Planet(p), n) /\ Increase(n)
    /\ UNCHANGED <<reserve, locked, bodies, rifts, debris, fleets>>

\* Not held back by a battle at the planet.
WithdrawBonus(p, n) ==
    /\ Planet(p) \in bodies /\ n <= treasury.balance
    /\ treasury' = [treasury EXCEPT !.balance = @ - n]
    /\ Credit(Planet(p), n)
    /\ UNCHANGED <<reserve, counters, bodies, rifts, debris, fleets>>

\* Buildings, research, ships, defences, and the moon's.
Spend(b, n) ==
    /\ Usable(b)
    /\ Debit(b, n) /\ Decrease(n)
    /\ UNCHANGED <<reserve, locked, bodies, rifts, debris, fleets, treasury>>

\* A demolition that is called off pays its price back.
CancelBuildingDemolition(p, n) ==
    /\ Free(p)
    /\ Credit(Planet(p), n) /\ Increase(n)
    /\ UNCHANGED <<reserve, locked, bodies, rifts, debris, fleets, treasury>>

DepositMarketResource(p, n) ==
    /\ Free(p)
    /\ reserve + n <= MaxReserve
    /\ reserve' = reserve + n
    /\ internal' = internal + n /\ Credit(Planet(p), n)
    /\ UNCHANGED <<locked, bodies, rifts, debris, fleets, treasury>>

CreateMoon(p) ==
    /\ RoomForMoon                                                \* bound
    /\ p \in Mooned
    /\ Planet(p) \in bodies /\ Moon(p) \notin bodies
    /\ bodies' = bodies \cup {Moon(p)}
    /\ UNCHANGED <<reserve, counters, balance, rifts, debris, fleets, treasury>>

GrantMoonResources(p, n) ==
    /\ Usable(Moon(p))
    /\ Credit(Moon(p), n) /\ Increase(n)
    /\ UNCHANGED <<reserve, locked, bodies, rifts, debris, fleets, treasury>>

DestroyMoon(p) ==
    /\ Usable(Moon(p))
    /\ bodies' = bodies \ {Moon(p)}
    /\ balance' = [balance EXCEPT ![Moon(p)] = 0] /\ Decrease(balance[Moon(p)])
    /\ UNCHANGED <<reserve, locked, rifts, debris, fleets, treasury>>

-----------------------------------------------------------------------------
(* Rift extractions *)

StartRift(p, n) ==
    /\ RoomForRift                                                \* bound
    /\ Free(p) /\ ~rift[p].active
    /\ Debit(Planet(p), n) /\ Decrease(n)
    /\ locked' = locked + n
    /\ rift' = [rift EXCEPT ![p] = [active |-> TRUE, amount |-> n]]
    /\ riftLocked' = [riftLocked EXCEPT ![p] = @ + n]
    /\ UNCHANGED <<reserve, bodies, debris, fleets, treasury>>

FinalizeRift(p) ==
    LET n == rift[p].amount
    IN  /\ Free(p) /\ rift[p].active
        /\ n <= locked /\ n <= riftLocked[p] /\ n <= reserve
        /\ rift' = [rift EXCEPT ![p] = NoRift]
        /\ riftLocked' = [riftLocked EXCEPT ![p] = @ - n]
        /\ locked' = locked - n /\ reserve' = reserve - n
        /\ UNCHANGED <<internal, places, debris, fleets, treasury>>

\* Nothing of the owner is under way, and nothing comes to the planet.
Quiet(p) ==
    \A id \in Ids : Active(id) =>
        OwnerOf[missions[id].from[1]] # OwnerOf[p] /\ (Outbound(id) => missions[id].to[1] # p)

\* The moon, what it holds, and the debris field stay.
AbandonPlanet(p) ==
    /\ Free(p) /\ p \notin Homes /\ Quiet(p)
    /\ balance[Planet(p)] = 0 /\ riftLocked[p] = 0
    /\ bodies' = bodies \ {Planet(p)}
    /\ UNCHANGED <<reserve, counters, balance, rifts, debris, fleets, treasury>>

\* A started planet makes way for the import of the past game.
DiscardStarted(p) ==
    /\ Free(p) /\ p \in Homes /\ Quiet(p)
    /\ riftLocked[p] = 0
    /\ Decrease(balance[Planet(p)]) /\ balance' = [balance EXCEPT ![Planet(p)] = 0]
    /\ bodies' = bodies \ {Planet(p)}
    /\ rift' = [rift EXCEPT ![p] = NoRift]
    /\ UNCHANGED <<reserve, locked, riftLocked, debris, fleets, treasury>>

-----------------------------------------------------------------------------
(* Fleets *)

Master(b) == OwnerOf[b[1]]

\* Who may send what where: alliances are free to be as they like.
MaySend(kind, from, to) ==
    CASE kind \in {"Transport", "Deploy"} -> from # to /\ Master(from) = Master(to)
      [] kind \in {"Attack", "AcsAttack"} -> Master(from) # Master(to)
      [] kind = "AcsDefend" -> from[2] = "planet"
      [] kind = "DefenseHold" -> from # to /\ {from[2], to[2]} = {"planet"}
      [] kind = "Harvest" -> {from[2], to[2]} = {"planet"} /\ debris[to[1]] # 0

\* The fuel leaves the game, the cargo stays in it; the depot of the planet
\* that is defended pays a part of the fuel.
LaunchFleet(kind, from, to, leader, cargo, fuel, support) ==
    /\ LET paid == [balance EXCEPT ![to] = @ - support]
       IN  /\ support <= balance[to] /\ cargo + fuel <= paid[from]
           /\ balance' = [paid EXCEPT ![from] = @ - (cargo + fuel)]
    /\ support # 0 => kind \in {"AcsDefend", "DefenseHold"} /\ to[2] = "planet"
    /\ Usable(from) /\ Usable(to)
    /\ cargo + fuel + support <= internal
    /\ cargo = 0 \/ Requirement - (fuel + support) <= reserve
    /\ internal' = internal - (fuel + support)
    /\ \E id \in Ids :
          /\ ~Active(id) /\ \A m \in Ids : (m < id => Active(m)) /\ missions[m].leader # id
          /\ missions' = [missions EXCEPT ![id] =
                [kind |-> kind, from |-> from, to |-> to, leader |-> leader, cargo |-> cargo]]
    /\ UNCHANGED <<reserve, locked, bodies, rifts, debris, battle, bodyLock, treasury>>

LaunchMission(kind, from, to) ==
    /\ MaySend(kind, from, to)
    /\ \E cargo, fuel, support \in 0 .. MaxStep : LaunchFleet(kind, from, to, 0, cargo, fuel, support)

\* To an attack under way, on its side or against it.
JoinAttack(kind, id, from) ==
    /\ missions[id].kind = "Attack" /\ MaySend(kind, from, missions[id].to)
    /\ \E cargo, fuel, support \in 0 .. MaxStep :
          LaunchFleet(kind, from, missions[id].to, id, cargo, fuel, support)

Turn(id, cargo) == missions' = [missions EXCEPT ![id] = Homeward(@, cargo)]

Over(id) == missions' = [missions EXCEPT ![id] = NoMission]

\* The target must not be fought over, as for everything at the target.
Calm(id) == bodyLock[missions[id].to[1]] = 0

Recall(id) ==
    /\ Outbound(id) /\ Calm(id)
    /\ Turn(id, missions[id].cargo)
    /\ UNCHANGED <<reserve, counters, places, rifts, debris, battle, bodyLock, treasury>>

\* A fleet whose moon is gone or whose leader turned round, and a hold that
\* ends, go home with the cargo.
TurnBack(id) ==
    /\ Outbound(id) /\ Calm(id)
    /\ \/ missions[id].kind = "DefenseHold"
       \/ missions[id].kind \in {"Transport", "Deploy"} /\ missions[id].to \notin bodies
       \/ missions[id].kind \in {"AcsAttack", "AcsDefend"} /\ ~Outbound(missions[id].leader)
    /\ Turn(id, missions[id].cargo)
    /\ UNCHANGED <<reserve, counters, places, rifts, debris, battle, bodyLock, treasury>>

TransportArrives(id) ==
    LET m == missions[id]
    IN  /\ Outbound(id) /\ Calm(id) /\ m.kind = "Transport" /\ m.to \in bodies
        /\ Credit(m.to, m.cargo)
        /\ Turn(id, 0)
        /\ UNCHANGED <<reserve, counters, bodies, rifts, debris, battle, bodyLock, treasury>>

DeployArrives(id) ==
    LET m == missions[id]
    IN  /\ Outbound(id) /\ Calm(id) /\ m.kind = "Deploy" /\ m.to \in bodies
        /\ Credit(m.to, m.cargo) /\ Over(id)
        /\ UNCHANGED <<reserve, counters, bodies, rifts, debris, battle, bodyLock, treasury>>

HarvestArrives(id, n) ==
    LET p == missions[id].to[1]
    IN  /\ Outbound(id) /\ Calm(id) /\ missions[id].kind = "Harvest"
        /\ n <= debris[p]
        /\ debris' = [debris EXCEPT ![p] = @ - n]
        /\ Turn(id, missions[id].cargo + n)
        /\ UNCHANGED <<reserve, counters, places, rifts, battle, bodyLock, treasury>>

\* A fleet of a moon that is gone lands on the planet.
Land(id) ==
    LET m == missions[id]
        at == IF m.from \in bodies THEN m.from ELSE Planet(m.from[1])
    IN  /\ m.kind = "homebound" /\ bodyLock[at[1]] = 0
        /\ Credit(at, m.cargo) /\ Over(id)
        /\ UNCHANGED <<reserve, counters, bodies, rifts, debris, battle, bodyLock, treasury>>

-----------------------------------------------------------------------------
(* Battles: the stages after the fight *)

\* The attack, the fleets that joined it, and those that hold at the body.
Attackers(id) ==
    {id} \cup {m \in Ids : missions[m].kind = "AcsAttack" /\ missions[m].leader = id}
Fighters(id) ==
    Attackers(id) \cup {m \in Ids : missions[m].leader = id} \cup
    {m \in Ids : missions[m].kind = "DefenseHold" /\ missions[m].to = missions[id].to}

Sum(f) == MapThenSumSet(LAMBDA x : f[x], DOMAIN f)

\* Who survives is anyone's; the room left in the holds of the attackers is
\* measured if they win.
Fight(id) ==
    /\ missions[id].kind = "Attack" /\ Calm(id)
    /\ bodyLock' = [bodyLock EXCEPT ![missions[id].to[1]] = id]
    /\ \E alive \in SUBSET Fighters(id) :
       \E measured \in [Attackers(id) \cap alive -> 0 .. MaxStep], total \in 0 .. Slots * MaxStep :
          /\ total = Sum(measured)
          /\ battle' = [battle EXCEPT ![id] =
                [phase |-> IF total = 0 THEN "return" ELSE "loot", loot |-> 0, total |-> total,
                 room |-> [m \in Ids |-> IF m \in DOMAIN measured THEN measured[m] ELSE 0],
                 alive |-> alive]]
    /\ UNCHANGED <<reserve, counters, places, rifts, debris, missions, treasury>>

\* Mutant of TearRift: the extraction keeps its amount.
TearRift_KeepsClaim(p, n) == riftLocked' = [riftLocked EXCEPT ![p] = @ - n] /\ UNCHANGED rift

\* A raid takes from the lock and from the running extraction alike.
TearRift(p, n) ==
    /\ riftLocked' = [riftLocked EXCEPT ![p] = @ - n]
    /\ rift' = [rift EXCEPT ![p].amount = @ - n]

\* What is left on the body comes first, then the planet's rift, all of it;
\* the rate depends on who fights whom, and may be zero.
Raid(id, plunder) ==
    LET to == missions[id].to
        room == battle[id].total
        taken == Least(room, plunder)
        torn == IF to[2] = "planet" THEN Least(room - taken, riftLocked[to[1]]) ELSE 0
    IN  /\ battle[id].phase = "loot"
        /\ Debit(to, taken)
        /\ torn <= locked
        /\ locked' = locked - torn /\ internal' = internal + torn
        /\ TearRift(to[1], torn)
        /\ battle' = [battle EXCEPT ![id].loot = taken + torn, ![id].phase = "share"]
        /\ UNCHANGED <<reserve, bodies, debris, missions, bodyLock, treasury>>

\* Pro rata of what is left to share, so that the last takes the rest.
ShareLoot(id, m) ==
    LET b == battle[id]
        share == (b.loot * b.room[m]) \div b.total
    IN  /\ b.phase = "share" /\ b.room[m] # 0
        /\ share <= b.loot /\ b.room[m] <= b.total
        /\ battle' = [battle EXCEPT ![id] =
               [phase |-> "share", loot |-> b.loot - share, total |-> b.total - b.room[m],
                room |-> [b.room EXCEPT ![m] = 0], alive |-> b.alive]]
        /\ missions' = [missions EXCEPT ![m].cargo = @ + share]
        /\ UNCHANGED <<reserve, counters, places, rifts, debris, bodyLock, treasury>>

RaidEnds(id) ==
    /\ battle[id].phase = "share" /\ \A m \in Ids : battle[id].room[m] = 0
    /\ battle' = [battle EXCEPT ![id].phase = "return"]
    /\ UNCHANGED <<reserve, counters, places, rifts, debris, missions, bodyLock, treasury>>

\* A fleet without ships is over and its cargo lost, another goes home; a hold
\* that survived stays.
Homebound(id, m) ==
    IF m \in battle[id].alive THEN [missions EXCEPT ![m] = Homeward(@, missions[m].cargo)]
    ELSE [missions EXCEPT ![m] = NoMission]

Lost(id, m) == IF m \in battle[id].alive THEN 0 ELSE missions[m].cargo

Remaining(id) ==
    {m \in Fighters(id) \ {id} : missions[m].kind = "DefenseHold" => m \notin battle[id].alive}

ReturnMember(id, m) ==
    /\ battle[id].phase = "return" /\ m \in Remaining(id)
    /\ missions' = Homebound(id, m) /\ Decrease(Lost(id, m))
    /\ UNCHANGED <<reserve, locked, places, rifts, debris, battle, bodyLock, treasury>>

\* Debris is limited to what the reserve can back.
Finish(id, wreck) ==
    LET p == missions[id].to[1]
        scattered == Least(wreck, Available + Lost(id, id))
    IN  /\ battle[id].phase = "return" /\ Outbound(id) /\ Remaining(id) = {}
        /\ Lost(id, id) <= internal
        /\ internal' = internal - Lost(id, id) + scattered
        /\ missions' = Homebound(id, id)
        /\ debris' = [debris EXCEPT ![p] = @ + scattered]
        /\ bodyLock' = [bodyLock EXCEPT ![p] = 0]
        /\ battle' = [battle EXCEPT ![id] = NoBattle]
        /\ UNCHANGED <<reserve, locked, places, rifts, treasury>>

-----------------------------------------------------------------------------
Reserves ==
    \/ \E n \in Steps : DepositReserves(n) \/ ReleaseExcess(n)
    \/ \E held \in 0 .. MaxReserve : SetResourceToken(held)

PlanetOps(p) ==
    \/ StartPlanet(p, Starting) \/ CreateMoon(p) \/ DestroyMoon(p)
    \/ FinalizeRift(p) \/ AbandonPlanet(p) \/ DiscardStarted(p)
    \/ \E produced, burned \in 0 .. MaxStep, member \in BOOLEAN :
          \* Other settlements change nothing.
          (produced # 0 \/ (burned # 0 /\ ~member)) /\ SettleProduction(p, produced, burned, member)
    \/ \E n \in Steps :
          \/ WithdrawBonus(p, n) \/ CancelBuildingDemolition(p, n) \/ DepositMarketResource(p, n)
          \/ GrantMoonResources(p, n) \/ StartRift(p, n)
          \/ \E b \in {Planet(p), Moon(p)} \cap bodies : Spend(b, n)

Launches ==
    /\ \E id \in Ids : ~Active(id)
    /\ RoomForFleet                                               \* bound
    /\ \E from \in bodies :
          \/ \E kind \in {"Transport", "Deploy", "Attack", "DefenseHold", "Harvest"}, to \in bodies :
                LaunchMission(kind, from, to)
          \/ \E kind \in {"AcsAttack", "AcsDefend"}, id \in Ids : JoinAttack(kind, id, from)

Flights(id) ==
    \/ Recall(id) \/ TurnBack(id) \/ TransportArrives(id) \/ DeployArrives(id) \/ Land(id)
    \/ \E n \in 0 .. MaxStep : HarvestArrives(id, n)

Stages(id) ==
    \/ Fight(id)
    \/ \E plunder \in 0 .. MaxStep : Raid(id, plunder)
    \/ RaidEnds(id)
    \/ \E m \in Ids : ShareLoot(id, m) \/ ReturnMember(id, m)
    \/ \E wreck \in 0 .. MaxStep : Finish(id, wreck)

Next ==
    \/ Reserves
    \/ \E p \in Planets : PlanetOps(p)
    \/ Launches
    \/ \E id \in Ids : Flights(id) \/ Stages(id)

Spec == Init /\ [][Next]_vars

-----------------------------------------------------------------------------
(* Safety *)

\* What is counted as circulating is exactly what the accounts hold: on the
\* bodies, in debris, in the holds of live fleets, in loot not yet shared and in
\* the treasury.  No settlement can then fail on an underflow of the counter.
Conservation ==
    internal = Sum(balance) + Sum(debris)
             + Sum([id \in Ids |-> missions[id].cargo]) + Sum([id \in Ids |-> battle[id].loot])
             + treasury.balance

\* Each extraction pays out what its planet has locked, also after raids: a
\* raid can then take from both without an underflow that would strand a battle.
ClaimsAreLocked ==
    \A p \in Planets :
        rift[p].amount = riftLocked[p] /\ (~rift[p].active => rift[p].amount = 0)

\* What is counted as locked is exactly what the rifts hold.
RiftsAreLocked == locked = Sum(riftLocked) /\ ClaimsAreLocked

\* The contract always holds the tokens for all that circulates or is locked.
ReserveBacked == internal + locked <= reserve

=============================================================================
