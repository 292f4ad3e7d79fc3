----------------------------- MODULE Alliances -----------------------------
(***************************************************************************)
(* Alliances, their wars, and the paid invites.  A roster is kept four     *)
(* times: as the membership of each player, as a list, as the places in    *)
(* the list, and as a count; a join request three times.  A declaration of *)
(* war freezes both rosters, under a number that grows with each war of    *)
(* the pair; the exceptions from the protection of the weak are for those  *)
(* rosters only.  A player who came by a paid invite earns the alliance    *)
(* that issued it a part of what he produces while he is its member:       *)
(* production is settled late, so each change of a roster settles it first.*)
(* Batches of kicks and of role changes are the single ones, one after     *)
(* another.  Wars from before the snapshots are not modelled.              *)
(***************************************************************************)
EXTENDS Integers, FiniteSets, SequencesExt

CONSTANTS
    Players,
    LastAlliance,       \* bound: alliances ever created
    WarMinimum,         \* ticks before a war may be ended
    MaxWars, MaxPaid,   \* bounds: wars declared, and paid invites bought ...
    Together,           \* ... and whether both occur in one behaviour
    MaxPending          \* bound: invites and join requests open at once

ASSUME AllianceConstants ==
    /\ {LastAlliance, WarMinimum, MaxWars, MaxPaid, MaxPending} \subseteq Nat
    /\ IsFiniteSet(Players)

VARIABLES
    profile,            \* alliance -> active, owner and member count
    membership,         \* player -> alliance (or 0) and role
    memberList, memberIndex,
    invites,            \* open invites: <<player, alliance>>
    requestList, requestIndex, requested,
    diplomacy,          \* ordered pair -> status
    warAge,             \* ordered pair -> ticks since the declaration, or -1
    warDeclarer,        \* ordered pair -> who declared
    snapshot,           \* unordered pair -> number, and is the declarer too strong
    frozen,             \* unordered pair -> player -> number and side of the last record
    rosters,            \* history: pair at war -> the two rosters at the declaration
    home,               \* players with a planet
    paid,               \* alliance -> paid invites bought and not redeemed
    bought,             \* paid invites bought so far
    issuing,            \* player -> alliance whose paid invite he redeemed, or 0
    unsettled,          \* player -> kinds of production not settled yet
    arrived, fought     \* players with an arrived attack, and under attack

roster == <<profile, membership, memberList, memberIndex>>
requests == <<requestList, requestIndex, requested>>
wars == <<diplomacy, warAge, warDeclarer, snapshot, frozen, rosters>>
bonus == <<home, paid, bought, issuing>>
production == <<unsettled, arrived, fought>>
vars == <<roster, invites, requests, wars, bonus, production>>

Ids == 1 .. LastAlliance
OrderedPairs == {ab \in Ids \X Ids : ab[1] # ab[2]}
Pairs == {ab \in Ids \X Ids : ab[1] < ab[2]}
Key(a, b) == IF a < b THEN <<a, b>> ELSE <<b, a>>
Flip(ab) == <<ab[2], ab[1]>>
Roles == {"None", "Member", "Officer", "Owner"}
Outsider == [alliance |-> 0, role |-> "None"]
\* Production while a member of the issuing alliance or not, and whether an
\* attack had already arrived at the planet.
Production == [own : BOOLEAN, late : BOOLEAN]
NoRecord == [number |-> 0, side |-> 0]

Uniques == {s \in SeqOf(Players, Cardinality(Players)) : IsInjective(s)}

TypeOK ==
    /\ profile \in [Ids -> [active : BOOLEAN, owner : Players \cup {0}, count : Nat]]
    /\ membership \in [Players -> [alliance : {0} \cup Ids, role : Roles]]
    /\ memberList \in [Ids -> Uniques] /\ memberIndex \in [Ids -> [Players -> Nat]]
    /\ invites \subseteq Players \X Ids
    /\ requestList \in [Ids -> Uniques] /\ requestIndex \in [Ids -> [Players -> Nat]]
    /\ requested \subseteq Players \X Ids
    /\ diplomacy \in [OrderedPairs -> {"None", "Pact", "War"}]
    /\ warAge \in [OrderedPairs -> -1 .. WarMinimum]
    /\ warDeclarer \in [OrderedPairs -> {0} \cup Ids]
    /\ snapshot \in [Pairs -> [number : Nat, tooStrong : BOOLEAN]]
    /\ frozen \in [Pairs -> [Players -> [number : Nat, side : 0 .. 2]]]
    /\ rosters \in [Pairs -> [1 .. 2 -> SUBSET Players]]
    /\ home \subseteq Players /\ issuing \in [Players -> {0} \cup Ids]
    /\ paid \in [Ids -> 0 .. MaxPaid] /\ bought \in 0 .. MaxPaid
    /\ unsettled \in [Players -> SUBSET Production]
    /\ arrived \subseteq home /\ fought \subseteq arrived

Init ==
    /\ profile = [a \in Ids |-> [active |-> FALSE, owner |-> 0, count |-> 0]]
    /\ membership = [p \in Players |-> Outsider]
    /\ memberList = [a \in Ids |-> <<>>] /\ memberIndex = [a \in Ids |-> [p \in Players |-> 0]]
    /\ invites = {} /\ requested = {}
    /\ requestList = [a \in Ids |-> <<>>] /\ requestIndex = [a \in Ids |-> [p \in Players |-> 0]]
    /\ diplomacy = [ab \in OrderedPairs |-> "None"] /\ warAge = [ab \in OrderedPairs |-> -1]
    /\ warDeclarer = [ab \in OrderedPairs |-> 0]
    /\ snapshot = [ab \in Pairs |-> [number |-> 0, tooStrong |-> FALSE]]
    /\ frozen = [ab \in Pairs |-> [p \in Players |-> NoRecord]]
    /\ rosters = [ab \in Pairs |-> [side \in 1 .. 2 |-> {}]]
    /\ home \in {h \in SUBSET Players : Cardinality(Players \ h) <= 1}  \* bound
    /\ paid = [a \in Ids |-> 0] /\ bought = 0 /\ issuing = [p \in Players |-> 0]
    /\ unsettled = [p \in Players |-> {}] /\ arrived = {} /\ fought = {}

-----------------------------------------------------------------------------
In(p, a) == a # 0 /\ membership[p].alliance = a
\* Mutant of Free: it is not asked whether the player is a member already.
Free_Unasked(p) == p \in Players
Free(p) == membership[p].alliance = 0
Active(a) == a \in Ids /\ profile[a].active
IsOfficer(p, a) == Active(a) /\ In(p, a) /\ membership[p].role \in {"Officer", "Owner"}
IsOwner(p, a) == Active(a) /\ In(p, a) /\ membership[p].role = "Owner"
Wars == MapThenSumSet(LAMBDA key : snapshot[key].number, Pairs)
\* Bounds: wars, paid invites and what else is open are told apart.
Pending == Cardinality(invites) + Cardinality(requested)
Peaceful == Wars = 0 /\ bought = 0 /\ home = Players
RoomForWar ==
    /\ Wars < MaxWars
    /\ Together \/ (bought = 0 /\ home = Players /\ requested = {} /\ Pending < MaxPending)
RoomForPaid == bought < MaxPaid /\ (Together \/ (Wars = 0 /\ home # Players))
RoomForInvite == Pending < IF Together \/ Peaceful THEN MaxPending ELSE 1
RoomForRequest == Pending < MaxPending /\ (Together \/ Peaceful)

(* Production: what is earned, and when it is settled. *)

\* Never past an arrived attack, and not at all while it is being fought.
Cut(p) ==
    /\ p \notin fought
    /\ unsettled' = [unsettled EXCEPT ![p] = IF p \in arrived THEN {t \in @ : t.late} ELSE {}]

\* Only the production of those who came by a paid invite earns anything.
Produce(p) ==
    /\ p \in home /\ issuing[p] # 0
    /\ unsettled' = [unsettled EXCEPT ![p] = @ \cup
                        {[own |-> In(p, issuing[p]), late |-> p \in arrived]}]
    /\ UNCHANGED <<roster, invites, requests, wars, bonus, arrived, fought>>

Collect(p) ==
    /\ Cut(p)
    /\ UNCHANGED <<roster, invites, requests, wars, bonus, arrived, fought>>

\* An attack arrives; its battle settles the production up to the arrival and
\* holds the planet to its end.  (Bound: one attack at a time, on those whose
\* production is counted.)
AttackArrives(p) ==
    /\ p \in home \ arrived /\ issuing[p] # 0
    /\ arrived' = arrived \cup {p}
    /\ UNCHANGED <<roster, invites, requests, wars, bonus, unsettled, fought>>

BattleBegins(p) ==
    /\ p \in arrived /\ Cut(p)
    /\ fought' = fought \cup {p}
    /\ UNCHANGED <<roster, invites, requests, wars, bonus, arrived>>

BattleEnds(p) ==
    /\ p \in fought
    /\ fought' = fought \ {p} /\ arrived' = arrived \ {p}
    /\ UNCHANGED <<roster, invites, requests, wars, bonus, unsettled>>

-----------------------------------------------------------------------------
(* Rosters *)

Append1(list, index, p) == [list |-> Append(list, p), index |-> [index EXCEPT ![p] = Len(list) + 1]]

\* Mutant of SwapAndPop: the place of the moved entry is not corrected.
SwapAndPop_KeepsPlace(list, index, p) ==
    [list |-> Front([list EXCEPT ![index[p]] = Last(list)]), index |-> [index EXCEPT ![p] = 0]]

\* The last entry takes the place of the one that leaves.
SwapAndPop(list, index, p) ==
    [list |-> Front([list EXCEPT ![index[p]] = Last(list)]),
     index |-> [index EXCEPT ![Last(list)] = index[p], ![p] = 0]]

\* Mutant of AddMember: nothing is settled before the membership changes.
AddMember_Unsettled(a, p, role) ==
    LET grown == Append1(memberList[a], memberIndex[a], p)
    IN  /\ p \notin fought /\ UNCHANGED unsettled
        /\ membership' = [membership EXCEPT ![p] = [alliance |-> a, role |-> role]]
        /\ memberList' = [memberList EXCEPT ![a] = grown.list]
        /\ memberIndex' = [memberIndex EXCEPT ![a] = grown.index]

AddMember(a, p, role) ==
    LET grown == Append1(memberList[a], memberIndex[a], p)
    IN  /\ Cut(p)
        /\ membership' = [membership EXCEPT ![p] = [alliance |-> a, role |-> role]]
        /\ memberList' = [memberList EXCEPT ![a] = grown.list]
        /\ memberIndex' = [memberIndex EXCEPT ![a] = grown.index]

Joins(a, p) == AddMember(a, p, "Member") /\ profile' = [profile EXCEPT ![a].count = @ + 1]

RemoveMember(a, p) ==
    LET left == SwapAndPop(memberList[a], memberIndex[a], p)
    IN  /\ memberIndex[a][p] # 0 /\ Cut(p)
        /\ membership' = [membership EXCEPT ![p] = Outsider]
        /\ memberList' = [memberList EXCEPT ![a] = left.list]
        /\ memberIndex' = [memberIndex EXCEPT ![a] = left.index]
        /\ profile' = [profile EXCEPT ![a].count = @ - 1]
        /\ UNCHANGED <<invites, requests, wars, bonus, arrived, fought>>

\* One past the largest that was created or imported: no alliance is dissolved,
\* and an import may leave a gap below.
NextAllianceId(a) == (a = 1 \/ Active(a - 1)) /\ \A b \in Ids : Active(b) => b < a

CreateAlliance(p) ==
    /\ p \in home /\ Free(p)
    /\ \E a \in Ids :
          /\ NextAllianceId(a)
          /\ AddMember(a, p, "Owner")
          /\ profile' = [profile EXCEPT ![a] = [active |-> TRUE, owner |-> p, count |-> 1]]
    /\ UNCHANGED <<invites, requests, wars, bonus, arrived, fought>>

InviteMember(actor, a, p) ==
    /\ IsOfficer(actor, a) /\ p \in home /\ Free(p)
    /\ RoomForInvite                                              \* bound
    /\ invites' = invites \cup {<<p, a>>}
    /\ UNCHANGED <<roster, requests, wars, bonus, production>>

CancelInvite(actor, a, p) ==
    /\ IsOfficer(actor, a)
    /\ invites' = invites \ {<<p, a>>}
    /\ UNCHANGED <<roster, requests, wars, bonus, production>>

RemoveJoinRequest(a, p) ==
    LET left == SwapAndPop(requestList[a], requestIndex[a], p)
    IN  /\ requestIndex[a][p] # 0
        /\ requestList' = [requestList EXCEPT ![a] = left.list]
        /\ requestIndex' = [requestIndex EXCEPT ![a] = left.index]
        /\ requested' = requested \ {<<p, a>>}

\* (An invite is good as long as it stands, whoever gave it.)
AcceptInvite(p, a) ==
    /\ Active(a) /\ <<p, a>> \in invites /\ Free(p)
    /\ invites' = invites \ {<<p, a>>}
    /\ IF requestIndex[a][p] # 0 THEN RemoveJoinRequest(a, p) ELSE UNCHANGED requests
    /\ Joins(a, p)
    /\ UNCHANGED <<wars, bonus, arrived, fought>>

RequestJoin(p, a) ==
    LET grown == Append1(requestList[a], requestIndex[a], p)
    IN  /\ Active(a) /\ p \in home /\ Free(p)
        /\ RoomForRequest                                         \* bound
        /\ requested' = requested \cup {<<p, a>>}
        /\ IF requestIndex[a][p] = 0
           THEN /\ requestList' = [requestList EXCEPT ![a] = grown.list]
                /\ requestIndex' = [requestIndex EXCEPT ![a] = grown.index]
           ELSE UNCHANGED <<requestList, requestIndex>>
        /\ UNCHANGED <<roster, invites, wars, bonus, production>>

\* By the player, or by an officer.
DropJoinRequest(actor, a, p) ==
    /\ actor = p \/ IsOfficer(actor, a)
    /\ RemoveJoinRequest(a, p)
    /\ UNCHANGED <<roster, invites, wars, bonus, production>>

ApproveJoinRequest(actor, a, p) ==
    /\ IsOfficer(actor, a) /\ <<p, a>> \in requested /\ Free(p)
    /\ RemoveJoinRequest(a, p)
    /\ Joins(a, p)
    /\ UNCHANGED <<invites, wars, bonus, arrived, fought>>

KickMember(actor, a, p) ==
    /\ IsOfficer(actor, a) /\ In(p, a)
    /\ membership[p].role # "Owner"
    /\ membership[actor].role = "Officer" => membership[p].role = "Member"
    /\ RemoveMember(a, p)

LeaveAlliance(p) ==
    LET a == membership[p].alliance
    IN  /\ a # 0
        /\ membership[p].role = "Owner" => profile[a].count <= 1
        /\ RemoveMember(a, p)

SetMemberRole(actor, a, p, role) ==
    /\ IsOwner(actor, a) /\ In(p, a) /\ membership[p].role # "Owner"
    /\ membership' = [membership EXCEPT ![p].role = role]
    /\ UNCHANGED <<profile, memberList, memberIndex, invites, requests, wars, bonus, production>>

TransferOwnership(actor, a, p) ==
    /\ IsOwner(actor, a) /\ In(p, a) /\ membership[p].role = "Officer"
    /\ membership' = [membership EXCEPT ![actor].role = "Officer", ![p].role = "Owner"]
    /\ profile' = [profile EXCEPT ![a].owner = p]
    /\ UNCHANGED <<memberList, memberIndex, invites, requests, wars, bonus, production>>

\* The import of a roster of the past game: an owner and members of any role.
ImportAlliance(a, list, owner, officers) ==
    LET all == ToSet(list)
        role(p) == IF p = owner THEN "Owner" ELSE IF p \in officers THEN "Officer" ELSE "Member"
    IN  /\ ~profile[a].active /\ \A p \in all : Free(p)
        /\ profile' = [profile EXCEPT ![a] =
                          [active |-> TRUE, owner |-> owner, count |-> Len(list)]]
        /\ membership' = [p \in Players |-> IF p \in all THEN [alliance |-> a, role |-> role(p)]
                                            ELSE membership[p]]
        /\ memberList' = [memberList EXCEPT ![a] = list]
        /\ memberIndex' = [memberIndex EXCEPT ![a] = [p \in Players |->
                              IF p \in all THEN CHOOSE i \in DOMAIN list : list[i] = p ELSE 0]]
        /\ UNCHANGED <<invites, requests, wars, bonus, production>>

-----------------------------------------------------------------------------
(* Diplomacy *)

AtWar(a, b) == a # 0 /\ b # 0 /\ a # b /\ "War" \in {diplomacy[<<a, b>>], diplomacy[<<b, a>>]}

SetBoth(f, a, b, x) == [f EXCEPT ![<<a, b>>] = x, ![<<b, a>>] = x]

\* Mutant of Capture: the wars of a pair are not numbered.
Capture_Unnumbered(a, b, tooStrong) ==
    LET key == Key(a, b)
        side(p) == IF p \in ToSet(memberList[a]) THEN 1 ELSE 2
    IN  /\ snapshot' = [snapshot EXCEPT ![key] = [number |-> 1, tooStrong |-> tooStrong]]
        /\ frozen' = [frozen EXCEPT ![key] = [p \in Players |->
              IF p \in ToSet(memberList[a]) \cup ToSet(memberList[b])
              THEN [number |-> 1, side |-> side(p)] ELSE @[p]]]

\* The members of both sides are recorded under the number of this war; the
\* records of those who are no longer members stay, under an older number.
Capture(a, b, tooStrong) ==
    LET key == Key(a, b)
        number == snapshot[key].number + 1
        side(p) == IF p \in ToSet(memberList[a]) THEN 1 ELSE 2
    IN  /\ snapshot' = [snapshot EXCEPT ![key] = [number |-> number, tooStrong |-> tooStrong]]
        /\ frozen' = [frozen EXCEPT ![key] = [p \in Players |->
              IF p \in ToSet(memberList[a]) \cup ToSet(memberList[b])
              THEN [number |-> number, side |-> side(p)] ELSE @[p]]]

DeclareWar(actor, a, b, tooStrong) ==
    /\ IsOwner(actor, a) /\ Active(b) /\ a # b /\ ~AtWar(a, b)
    /\ RoomForWar                                                 \* bound
    /\ diplomacy' = [diplomacy EXCEPT ![<<a, b>>] = "War", ![<<b, a>>] = "None"]
    /\ warAge' = [warAge EXCEPT ![<<a, b>>] = 0, ![<<b, a>>] = -1]
    /\ warDeclarer' = SetBoth(warDeclarer, a, b, a)
    /\ Capture(a, b, tooStrong)
    /\ rosters' = [rosters EXCEPT ![Key(a, b)] =
                      [side \in 1 .. 2 |-> ToSet(memberList[IF side = 1 THEN a ELSE b])]]
    /\ UNCHANGED <<roster, invites, requests, bonus, production>>

\* Only the alliance that declared it ends a war, after its minimum time.
EndWar(actor, a, b) ==
    /\ IsOfficer(actor, a) /\ Active(b) /\ AtWar(a, b)
    /\ warDeclarer[<<a, b>>] = a
    /\ \E ab \in {<<a, b>>, <<b, a>>} : warAge[ab] = WarMinimum
    /\ diplomacy' = SetBoth(diplomacy, a, b, "None")
    /\ warAge' = SetBoth(warAge, a, b, -1) /\ warDeclarer' = SetBoth(warDeclarer, a, b, 0)
    /\ rosters' = [rosters EXCEPT ![Key(a, b)] = [side \in 1 .. 2 |-> {}]]
    /\ UNCHANGED <<roster, invites, requests, snapshot, frozen, bonus, production>>

\* Pacts and their end, while the two are not at war.
SetDiplomacy(actor, a, b, status) ==
    /\ IsOfficer(actor, a) /\ Active(b) /\ a # b /\ ~AtWar(a, b)
    /\ status = "Pact" => RoomForWar                              \* bound
    /\ diplomacy' = SetBoth(diplomacy, a, b, status)
    /\ warAge' = SetBoth(warAge, a, b, -1) /\ warDeclarer' = SetBoth(warDeclarer, a, b, 0)
    /\ UNCHANGED <<roster, invites, requests, snapshot, frozen, rosters, bonus, production>>

\* The import of the past game's relations, by the owner of the contract: it
\* asks for no officer and looks at no war, so it also ends one.
ImportDiplomacy(a, b, status) ==
    /\ Active(a) /\ Active(b) /\ a # b
    /\ status = "Pact" => RoomForWar                              \* bound
    /\ diplomacy' = SetBoth(diplomacy, a, b, status)
    /\ warAge' = SetBoth(warAge, a, b, -1) /\ warDeclarer' = SetBoth(warDeclarer, a, b, 0)
    /\ rosters' = [rosters EXCEPT ![Key(a, b)] = [side \in 1 .. 2 |-> {}]]
    /\ UNCHANGED <<roster, invites, requests, snapshot, frozen, bonus, production>>

Tick ==
    /\ warAge' = [ab \in OrderedPairs |-> IF warAge[ab] \in 0 .. WarMinimum - 1
                                          THEN warAge[ab] + 1 ELSE warAge[ab]]
    /\ UNCHANGED <<roster, invites, requests, diplomacy, warDeclarer, snapshot, frozen, rosters,
                   bonus, production>>

\* May the attacker attack the defender although he is much weaker?
WarException(attacker, defender) ==
    LET a == membership[attacker].alliance
        b == membership[defender].alliance
        declarer == warDeclarer[<<a, b>>]
        current(p, c) ==
            frozen[Key(a, b)][p] = [number |-> snapshot[Key(a, b)].number,
                                    side |-> IF c = declarer THEN 1 ELSE 2]
    IN  /\ AtWar(a, b) /\ declarer # 0 /\ snapshot[Key(a, b)].number # 0
        /\ current(attacker, a) /\ current(defender, b)
        /\ snapshot[Key(a, b)].tooStrong => b = declarer

-----------------------------------------------------------------------------
(* Paid invites *)

Buy(p) ==
    LET a == membership[p].alliance
    IN  /\ a # 0
        /\ RoomForPaid                                            \* bound
        /\ paid' = [paid EXCEPT ![a] = @ + 1] /\ bought' = bought + 1
        /\ UNCHANGED <<roster, invites, requests, wars, home, issuing, production>>

\* Redeeming an invite and the start of the first planet are one transaction.
Redeem(a, p) ==
    /\ paid[a] > 0 /\ Active(a)
    /\ p \notin home /\ Free(p)
    /\ paid' = [paid EXCEPT ![a] = @ - 1]
    /\ issuing' = [issuing EXCEPT ![p] = a]
    /\ home' = home \cup {p}
    /\ Joins(a, p)
    /\ UNCHANGED <<invites, requests, wars, bought, arrived, fought>>

-----------------------------------------------------------------------------
Rostering(actor, p, a) ==
    \/ InviteMember(actor, a, p) \/ CancelInvite(actor, a, p)
    \/ DropJoinRequest(actor, a, p) \/ ApproveJoinRequest(actor, a, p)
    \/ KickMember(actor, a, p) \/ TransferOwnership(actor, a, p)
    \/ \E role \in {"Member", "Officer"} : SetMemberRole(actor, a, p, role)

Alone(p) ==
    \/ CreateAlliance(p) \/ LeaveAlliance(p) \/ Buy(p)
    \/ Produce(p) \/ Collect(p) \/ AttackArrives(p) \/ BattleBegins(p) \/ BattleEnds(p)
    \/ \E a \in Ids : AcceptInvite(p, a) \/ RequestJoin(p, a) \/ Redeem(a, p)

Diplomacy(actor, a, b) ==
    \/ EndWar(actor, a, b)
    \/ \E status \in {"None", "Pact"} : SetDiplomacy(actor, a, b, status)
    \/ \E tooStrong \in BOOLEAN : DeclareWar(actor, a, b, tooStrong)

Import ==
    \E a \in {b \in Ids : ~Active(b)}, list \in {s \in Uniques : \A p \in ToSet(s) : Free(p)} :
    \E owner \in ToSet(list) :
        \E officers \in SUBSET (ToSet(list) \ {owner}) : ImportAlliance(a, list, owner, officers)

ImportRelation ==
    \E ab \in OrderedPairs, status \in {"None", "Pact"} : ImportDiplomacy(ab[1], ab[2], status)

Next ==
    \/ \E p \in Players : Alone(p)
    \/ \E actor, p \in Players, a \in Ids : Rostering(actor, p, a)
    \/ \E actor \in Players, ab \in OrderedPairs : Diplomacy(actor, ab[1], ab[2])
    \/ Import \/ ImportRelation \/ Tick

Spec == Init /\ [][Next]_vars

-----------------------------------------------------------------------------
(* Safety *)

Places(list, index) ==
    \A p \in Players : index[p] = IF p \in ToSet(list) THEN CHOOSE i \in DOMAIN list : list[i] = p ELSE 0

\* The four books of a roster and the three of the join requests agree, an
\* owner is the owner of the profile, and nobody else is: a member who is in the
\* list and not at his place could never leave or be kicked.
RostersAgree ==
    /\ \A a \in Ids :
          /\ Places(memberList[a], memberIndex[a]) /\ profile[a].count = Len(memberList[a])
          /\ ToSet(memberList[a]) = {p \in Players : In(p, a)}
          /\ Places(requestList[a], requestIndex[a])
          /\ ToSet(requestList[a]) = {p \in Players : <<p, a>> \in requested}
    /\ \A p \in Players : membership[p].role = "Owner" => profile[membership[p].alliance].owner = p

\* In a war exactly those may attack beyond the protection of the weak who are
\* now in the alliance in which the declaration found them, against the same on
\* the other side, and upwards only if the declarer was too strong: leaving,
\* changing sides, coming back, an end by import, later wars of the pair in
\* either direction and old records neither grant an exception nor take one.
\* (Who comes back has his exception again: VeydriftAllianceWarProtection.sol:267
\* says so, and the test at VeydriftAllianceSystem.t.sol:1781.  The comment of
\* membershipEpoch, VeydriftAllianceSystem.sol:828, says that the war module uses
\* the number to revoke it: nothing reads that number.)
WarExceptionsAreFrozen ==
    \A ab \in OrderedPairs, p, q \in Players :
        (In(p, ab[1]) /\ In(q, ab[2]) /\ AtWar(ab[1], ab[2])) =>
            LET declarer == warDeclarer[ab]
                then(x, c) == x \in rosters[Key(ab[1], ab[2])][IF c = declarer THEN 1 ELSE 2]
            IN  WarException(p, q) <=>
                    /\ then(p, ab[1]) /\ then(q, ab[2])
                    /\ snapshot[Key(ab[1], ab[2])].tooStrong => ab[2] = declarer

\* What is not settled yet was produced under the membership that will be asked
\* when it is settled, so the alliance gets the bonus of the time of membership,
\* except for what was produced behind an attack that waits for its battle.
BonusFollowsMembership ==
    \A p \in Players : \A t \in unsettled[p] : t.late \/ (t.own <=> In(p, issuing[p]))
=============================================================================
