-------------------------- MODULE AlliancesProofs --------------------------
(***************************************************************************)
(* The books of the rosters agree, the war exceptions are those of the     *)
(* declaration, and late production earns its bonus by the membership it   *)
(* was made under: for any number of players, alliances, wars and invites. *)
(***************************************************************************)
EXTENDS Alliances, FiniteSetTheorems, SequenceTheorems, TLAPS

\* A list without repetitions, and the places of its entries.
Listed(list, index) ==
    /\ list \in Seq(Players) /\ index \in [Players -> Nat]
    /\ \A i \in 1 .. Len(list) : index[list[i]] = i
    /\ \A p \in Players : index[p] # 0 => index[p] \in 1 .. Len(list) /\ list[index[p]] = p

Alliance(p) == membership[p].alliance

RosterLists == memberList \in [Ids -> Seq(Players)] /\ memberIndex \in [Ids -> [Players -> Nat]]
RequestLists == requestList \in [Ids -> Seq(Players)] /\ requestIndex \in [Ids -> [Players -> Nat]]

\* Who is a member anywhere is it in an active alliance, and is in its books.
RosterOK ==
    /\ profile \in [Ids -> [active : BOOLEAN, owner : Players \cup {0}, count : Nat]]
    /\ membership \in [Players -> [alliance : {0} \cup Ids, role : Roles]]
    /\ RosterLists
    /\ \A a \in Ids :
          /\ Listed(memberList[a], memberIndex[a]) /\ profile[a].count = Len(memberList[a])
          /\ \A p \in Players : memberIndex[a][p] # 0 <=> Alliance(p) = a
    /\ \A p \in Players :
          /\ Alliance(p) = 0 => membership[p].role = "None"
          /\ Alliance(p) # 0 => profile[Alliance(p)].active
          /\ membership[p].role = "Owner" => profile[Alliance(p)].owner = p

RequestsOK ==
    /\ invites \subseteq Players \X Ids /\ requested \subseteq Players \X Ids
    /\ RequestLists
    /\ \A a \in Ids :
          /\ Listed(requestList[a], requestIndex[a])
          /\ \A p \in Players : requestIndex[a][p] # 0 <=> <<p, a>> \in requested

\* No record is younger than the last war of its pair; while that goes on, the
\* records with its number are the rosters of the declaration.
WarOK(a, b) ==
    LET ab == <<a, b>>
        number == snapshot[ab].number
    IN  /\ \A p \in Players : frozen[ab][p].number <= number
        /\ AtWar(a, b) =>
              /\ number # 0
              /\ warDeclarer[ab] \in {a, b} /\ warDeclarer[<<b, a>>] = warDeclarer[ab]
              /\ \A p \in Players, side \in 1 .. 2 :
                    p \in rosters[ab][side] <=> frozen[ab][p] = [number |-> number, side |-> side]

WarsOK ==
    /\ diplomacy \in [OrderedPairs -> {"None", "Pact", "War"}]
    /\ warAge \in [OrderedPairs -> -1 .. WarMinimum]
    /\ warDeclarer \in [OrderedPairs -> {0} \cup Ids]
    /\ snapshot \in [Pairs -> [number : Nat, tooStrong : BOOLEAN]]
    /\ frozen \in [Pairs -> [Players -> [number : Nat, side : 0 .. 2]]]
    /\ rosters \in [Pairs -> [1 .. 2 -> SUBSET Players]]
    /\ \A a, b \in Ids : a < b => WarOK(a, b)

\* An alliance that has issued a paid invite stays active, so that an import
\* under its number cannot make members of those who produce for it.
BonusOK ==
    /\ home \subseteq Players /\ issuing \in [Players -> {0} \cup Ids]
    /\ paid \in [Ids -> Nat] /\ bought \in 0 .. MaxPaid /\ \A a \in Ids : paid[a] <= bought
    /\ unsettled \in [Players -> SUBSET Production]
    /\ arrived \subseteq home /\ fought \subseteq arrived
    /\ \A p \in Players :
          /\ issuing[p] # 0 => profile[issuing[p]].active
          /\ \A t \in unsettled[p] : t.late \/ (t.own <=> In(p, issuing[p]))

Inv == RosterOK /\ RequestsOK /\ WarsOK /\ BonusOK

-----------------------------------------------------------------------------
(* Lists with places *)

\* Appending one who is not in the list keeps it in order.
LEMMA AppendListed ==
    ASSUME NEW list, NEW index, Listed(list, index), NEW p \in Players, index[p] = 0
    PROVE  LET grown == Append1(list, index, p)
           IN  /\ Listed(grown.list, grown.index)
               /\ Len(grown.list) = Len(list) + 1
               /\ \A q \in Players : grown.index[q] # 0 <=> index[q] # 0 \/ q = p
<1>1. PICK l, x : l = Append(list, p) /\ x = [index EXCEPT ![p] = Len(list) + 1]
  OBVIOUS
<1>2. Append1(list, index, p).list = l /\ Append1(list, index, p).index = x
  BY <1>1 DEF Append1
<1>3. list \in Seq(Players) /\ index \in [Players -> Nat] /\ Len(list) \in Nat
  BY LenProperties DEF Listed
<1>4. /\ l \in Seq(Players) /\ Len(l) = Len(list) + 1
      /\ \A i \in 1 .. Len(list) : l[i] = list[i]
      /\ l[Len(list) + 1] = p
  BY <1>1, <1>3, AppendProperties
<1>5. x \in [Players -> Nat] /\ \A q \in Players : x[q] = IF q = p THEN Len(list) + 1 ELSE index[q]
  BY <1>1, <1>3
<1>6. \A i \in 1 .. Len(list) : list[i] # p /\ list[i] \in Players
  BY <1>3, ElementOfSeq DEF Listed
<1>7. ASSUME NEW i \in 1 .. Len(l) PROVE x[l[i]] = i
  <2>1. CASE i = Len(list) + 1
    BY <1>4, <1>5, <2>1
  <2>2. CASE i # Len(list) + 1
    <3>1. i \in 1 .. Len(list)
      BY <1>3, <1>4, <2>2
    <3>2. l[i] = list[i] /\ list[i] # p /\ list[i] \in Players
      BY <1>4, <1>6, <3>1
    <3>3. index[list[i]] = i
      BY <3>1 DEF Listed
    <3> QED BY <1>5, <3>2, <3>3
  <2> QED BY <2>1, <2>2
<1>8. ASSUME NEW q \in Players, x[q] # 0 PROVE x[q] \in 1 .. Len(l) /\ l[x[q]] = q
  <2>1. CASE q = p
    BY <1>3, <1>4, <1>5, <2>1
  <2>2. CASE q # p
    <3>1. x[q] \in 1 .. Len(list) /\ list[x[q]] = q
      BY <1>5, <1>8, <2>2 DEF Listed
    <3> QED BY <1>3, <1>4, <3>1
  <2> QED BY <2>1, <2>2
<1>9. Listed(l, x)
  BY <1>4, <1>5, <1>7, <1>8 DEF Listed
<1>10. \A q \in Players : x[q] # 0 <=> index[q] # 0 \/ q = p
  BY <1>3, <1>5
<1> QED BY <1>2, <1>4, <1>9, <1>10

\* So does the removal of an entry by putting the last one in its place.
LEMMA PopListed ==
    ASSUME NEW list, NEW index, Listed(list, index), NEW p \in Players, index[p] # 0
    PROVE  LET left == SwapAndPop(list, index, p)
           IN  /\ Listed(left.list, left.index)
               /\ Len(list) \in Nat \ {0} /\ Len(left.list) = Len(list) - 1
               /\ \A q \in Players : left.index[q] # 0 <=> index[q] # 0 /\ q # p
<1>1. PICK n, k, e : n = Len(list) /\ k = index[p] /\ e = Last(list)
  OBVIOUS
<1>2. PICK s : s = [list EXCEPT ![k] = e]
  OBVIOUS
<1>3. PICK l, x : l = Front(s) /\ x = [index EXCEPT ![e] = k, ![p] = 0]
  OBVIOUS
<1>4. SwapAndPop(list, index, p).list = l /\ SwapAndPop(list, index, p).index = x
  BY <1>1, <1>2, <1>3 DEF SwapAndPop
<1>5. list \in Seq(Players) /\ index \in [Players -> Nat] /\ n \in Nat
  BY <1>1, LenProperties DEF Listed
<1>6. k \in 1 .. n /\ list[k] = p
  BY <1>1 DEF Listed
<1>7. n \in 1 .. n /\ e = list[n] /\ e \in Players /\ index[e] = n
  BY <1>1, <1>5, <1>6, ElementOfSeq DEF Last, Listed
<1>8. /\ s \in Seq(Players) /\ Len(s) = n
      /\ \A i \in 1 .. n : s[i] = IF i = k THEN e ELSE list[i]
  BY <1>1, <1>2, <1>5, <1>6, <1>7, ExceptSeq
<1>9. /\ l \in Seq(Players) /\ Len(l) = n - 1
      /\ \A i \in 1 .. n - 1 : l[i] = IF i = k THEN e ELSE list[i]
  <2>1. n - 1 \in Int /\ 1 \in Int /\ \A i \in 1 .. n - 1 : s[i] \in Players
    BY <1>5, <1>8, ElementOfSeq
  <2>2. /\ SubSeq(s, 1, n - 1) \in Seq(Players)
        /\ Len(SubSeq(s, 1, n - 1)) = IF 1 <= n - 1 THEN n - 1 - 1 + 1 ELSE 0
        /\ \A i \in 1 .. n - 1 - 1 + 1 : SubSeq(s, 1, n - 1)[i] = s[1 + i - 1]
    BY <2>1, SubSeqProperties
  <2>3. l = SubSeq(s, 1, n - 1)
    BY <1>3, <1>8 DEF Front
  <2>4. Len(l) = n - 1
    BY <1>5, <1>7, <2>2, <2>3
  <2>5. \A i \in 1 .. n - 1 : l[i] = s[i]
    BY <1>5, <2>2, <2>3
  <2> QED BY <1>5, <1>8, <2>2, <2>3, <2>4, <2>5
<1>10. /\ x \in [Players -> Nat]
       /\ \A q \in Players : x[q] = IF q = p THEN 0 ELSE IF q = e THEN k ELSE index[q]
  BY <1>3, <1>5, <1>6, <1>7
<1>11. ASSUME NEW i \in 1 .. Len(l) PROVE x[l[i]] = i
  <2>1. i \in 1 .. n - 1 /\ i \in 1 .. n /\ index[list[i]] = i /\ list[i] \in Players
    BY <1>1, <1>5, <1>9, ElementOfSeq DEF Listed
  <2>2. CASE i = k
    <3>1. l[i] = e
      BY <1>5, <1>9, <2>2
    <3>2. e # p
      BY <1>1, <1>5, <1>6, <1>7, <1>9, <2>2
    <3> QED BY <1>7, <1>10, <2>2, <3>1, <3>2
  <2>3. CASE i # k
    <3>1. l[i] = list[i]
      BY <1>9, <2>1, <2>3
    <3>2. list[i] # p
      BY <1>1, <2>1, <2>3
    <3>3. list[i] # e
      <4>1. i # n
        BY <1>5, <2>1
      <4> QED BY <1>7, <2>1, <4>1
    <3> QED BY <1>10, <2>1, <3>1, <3>2, <3>3
  <2> QED BY <2>2, <2>3
<1>12. ASSUME NEW q \in Players, x[q] # 0 PROVE x[q] \in 1 .. Len(l) /\ l[x[q]] = q
  <2>1. q # p
    BY <1>10, <1>12
  <2>2. CASE q = e
    <3>1. k # n /\ k \in 1 .. n - 1
      BY <1>5, <1>6, <1>7, <2>1, <2>2
    <3> QED BY <1>9, <1>10, <2>1, <2>2, <3>1
  <2>3. CASE q # e
    <3>1. x[q] = index[q] /\ index[q] \in 1 .. n /\ list[index[q]] = q
      BY <1>1, <1>10, <1>12, <2>1, <2>3 DEF Listed
    <3>2. index[q] # n /\ index[q] # k
      BY <1>6, <1>7, <2>1, <2>3, <3>1
    <3>3. index[q] \in 1 .. n - 1
      BY <1>5, <3>1, <3>2
    <3> QED BY <1>9, <3>1, <3>2, <3>3
  <2> QED BY <2>2, <2>3
<1>13. Listed(l, x)
  BY <1>9, <1>10, <1>11, <1>12 DEF Listed
<1>14. \A q \in Players : x[q] # 0 <=> index[q] # 0 /\ q # p
  BY <1>5, <1>6, <1>7, <1>10
<1> QED BY <1>1, <1>4, <1>5, <1>7, <1>9, <1>13, <1>14

\* What the properties say of such a list.
LEMMA ListedPlaces ==
    ASSUME NEW list, NEW index, Listed(list, index)
    PROVE  /\ list \in Uniques
           /\ ToSet(list) = {p \in Players : index[p] # 0}
           /\ Places(list, index)
<1>1. /\ list \in Seq(Players) /\ index \in [Players -> Nat]
      /\ Len(list) \in Nat /\ DOMAIN list = 1 .. Len(list) /\ list \in [1 .. Len(list) -> Players]
  BY LenProperties DEF Listed
<1>2. IsInjective(list)
  BY <1>1 DEF Listed, IsInjective
<1>3. Len(list) <= Cardinality(Players) /\ Cardinality(Players) \in Nat
  <2>1. IsFiniteSet(Players) /\ list \in Injection(1 .. Len(list), Players)
    BY <1>1, <1>2, AllianceConstants DEF Injection
  <2>2. Cardinality(1 .. Len(list)) <= Cardinality(Players) /\ Cardinality(Players) \in Nat
    BY <2>1, FS_Injection, FS_CardinalityType
  <2>3. Cardinality(1 .. Len(list)) = Len(list)
    BY <1>1, FS_Interval
  <2> QED BY <2>2, <2>3
<1>4. list \in Uniques
  BY <1>1, <1>2, <1>3 DEF Uniques, SeqOf
<1>5. \A p \in Players : p \in ToSet(list) <=> index[p] # 0
  BY <1>1 DEF Listed, ToSet
<1>6. ToSet(list) = {p \in Players : index[p] # 0}
  BY <1>1, <1>5 DEF ToSet
<1>7. ASSUME NEW p \in Players, p \in ToSet(list)
      PROVE  index[p] = CHOOSE i \in DOMAIN list : list[i] = p
  <2>1. index[p] \in DOMAIN list /\ list[index[p]] = p
    BY <1>1, <1>5, <1>7 DEF Listed
  <2>2. \A i \in DOMAIN list : list[i] = p => i = index[p]
    BY <1>1 DEF Listed
  <2> QED BY <2>1, <2>2
<1> QED BY <1>4, <1>5, <1>6, <1>7 DEF Places

\* A list without repetitions, imported with the places of its entries.
LEMMA ImportListed ==
    ASSUME NEW list \in Uniques, NEW index,
           index = [p \in Players |-> IF p \in ToSet(list) THEN CHOOSE i \in DOMAIN list : list[i] = p
                                      ELSE 0]
    PROVE  Listed(list, index) /\ \A p \in Players : index[p] # 0 <=> p \in ToSet(list)
<1>1. IsInjective(list) /\ \E n \in Nat : list \in [1 .. n -> Players]
  <2>1. Cardinality(Players) \in Nat
    BY AllianceConstants, FS_CardinalityType
  <2> QED BY <2>1 DEF Uniques, SeqOf
<1>2. list \in Seq(Players)
  BY <1>1, SeqDef
<1>3. Len(list) \in Nat /\ DOMAIN list = 1 .. Len(list)
  BY <1>2, LenProperties
<1>4. ASSUME NEW i \in 1 .. Len(list) PROVE list[i] \in Players /\ index[list[i]] = i
  <2>1. list[i] \in Players /\ list[i] \in ToSet(list)
    BY <1>2, <1>3, ElementOfSeq DEF ToSet
  <2>2. \A j \in DOMAIN list : list[j] = list[i] => j = i
    BY <1>1, <1>3 DEF IsInjective
  <2>3. i = CHOOSE j \in DOMAIN list : list[j] = list[i]
    BY <1>3, <2>2
  <2> QED BY <2>1, <2>3
<1>5. ASSUME NEW p \in Players, p \in ToSet(list)
      PROVE  index[p] \in 1 .. Len(list) /\ index[p] # 0 /\ list[index[p]] = p
  <2>1. PICK i \in 1 .. Len(list) : list[i] = p
    BY <1>3, <1>5 DEF ToSet
  <2> QED BY <1>3, <1>4, <2>1
<1>6. \A p \in Players : index[p] # 0 <=> p \in ToSet(list)
  BY <1>5
<1>7. index \in [Players -> Nat]
  <2>1. \A p \in Players : index[p] \in Nat
    BY <1>3, <1>5
  <2> QED BY <2>1
<1> QED BY <1>2, <1>4, <1>5, <1>6, <1>7 DEF Listed

-----------------------------------------------------------------------------
(* The rosters *)

\* A player who is in no alliance joins one that is or becomes active.
LEMMA AddKeepsRoster ==
    ASSUME RosterOK, NEW a \in Ids, NEW p \in Players, NEW role \in {"Member", "Owner"},
           Free(p), AddMember(a, p, role),
           NEW x \in [active : BOOLEAN, owner : Players \cup {0}, count : Nat],
           profile' = [profile EXCEPT ![a] = x],
           x.active, x.count = Len(memberList[a]) + 1,
           IF role = "Owner" THEN x.owner = p /\ \A q \in Players : Alliance(q) # a
                             ELSE x.owner = profile[a].owner
    PROVE  /\ RosterOK'
           /\ \A q \in Players \ {p} : membership'[q] = membership[q]
           /\ \A b \in Ids : profile[b].active => profile'[b].active
<1>1. PICK list, index : list = memberList[a] /\ index = memberIndex[a]
  OBVIOUS
<1>2. Listed(list, index) /\ index[p] = 0 /\ Len(list) \in Nat
  <2>1. Listed(list, index) /\ (index[p] # 0 <=> Alliance(p) = a)
    BY <1>1 DEF RosterOK
  <2> QED BY <2>1, LenProperties DEF Listed, Free, Alliance, Ids
<1>3. PICK g : g = Append1(list, index, p)
  OBVIOUS
<1>4. /\ Listed(g.list, g.index) /\ Len(g.list) = Len(list) + 1
      /\ \A q \in Players : g.index[q] # 0 <=> index[q] # 0 \/ q = p
  BY <1>2, <1>3, AppendListed
<1>5. /\ membership' = [membership EXCEPT ![p] = [alliance |-> a, role |-> role]]
      /\ memberList' = [memberList EXCEPT ![a] = g.list]
      /\ memberIndex' = [memberIndex EXCEPT ![a] = g.index]
  BY <1>1, <1>3 DEF AddMember
<1>6. /\ membership' \in [Players -> [alliance : {0} \cup Ids, role : Roles]]
      /\ membership'[p].alliance = a /\ membership'[p].role = role
      /\ \A q \in Players \ {p} : membership'[q] = membership[q]
  BY <1>5 DEF RosterOK, Roles
<1>7. /\ memberList' \in [Ids -> Seq(Players)] /\ memberList'[a] = g.list
      /\ memberIndex' \in [Ids -> [Players -> Nat]] /\ memberIndex'[a] = g.index
      /\ \A b \in Ids \ {a} : memberList'[b] = memberList[b] /\ memberIndex'[b] = memberIndex[b]
  BY <1>4, <1>5 DEF RosterOK, RosterLists, Listed
<1>8. /\ profile' \in [Ids -> [active : BOOLEAN, owner : Players \cup {0}, count : Nat]]
      /\ profile'[a].active /\ profile'[a].count = Len(g.list)
      /\ \A b \in Ids \ {a} : profile'[b] = profile[b]
  <2>1. profile'[a] = x /\ x.count = Len(g.list)
    BY <1>1, <1>4 DEF RosterOK
  <2> QED BY <2>1 DEF RosterOK
<1>9. ASSUME NEW b \in Ids
      PROVE  Listed(memberList'[b], memberIndex'[b]) /\ profile'[b].count = Len(memberList'[b])
  <2>1. CASE b = a
    BY <1>4, <1>7, <1>8, <2>1
  <2>2. CASE b # a
    <3>1. /\ memberList'[b] = memberList[b] /\ memberIndex'[b] = memberIndex[b]
          /\ profile'[b] = profile[b]
      BY <1>7, <1>8, <2>2
    <3> QED BY <3>1 DEF RosterOK
  <2> QED BY <2>1, <2>2
<1>10. \A b \in Ids, q \in Players : memberIndex'[b][q] # 0 <=> membership'[q].alliance = b
  <2>1. ASSUME NEW b \in Ids, NEW q \in Players
        PROVE  memberIndex'[b][q] # 0 <=> membership'[q].alliance = b
    <3>1. (memberIndex[b][q] # 0 <=> membership[q].alliance = b) /\ membership[p].alliance = 0 /\ b # 0
      BY DEF RosterOK, Alliance, Free, Ids
    <3>2. CASE b = a
      BY <1>1, <1>4, <1>6, <1>7, <3>1, <3>2
    <3>3. CASE b # a
      BY <1>6, <1>7, <3>1, <3>3
    <3> QED BY <3>2, <3>3
  <2> QED BY <2>1
<1>11. ASSUME NEW q \in Players
       PROVE  /\ membership'[q].alliance = 0 => membership'[q].role = "None"
              /\ membership'[q].alliance # 0 => profile'[membership'[q].alliance].active
              /\ membership'[q].role = "Owner" => profile'[membership'[q].alliance].owner = q
  <2>1. CASE q = p
    BY <1>6, <1>8, <2>1 DEF Ids
  <2>2. CASE q # p
    <3>1. /\ membership'[q] = membership[q] /\ membership[q].alliance \in {0} \cup Ids
          /\ membership[q].alliance = 0 => membership[q].role = "None"
          /\ membership[q].alliance # 0 => profile[membership[q].alliance].active
          /\ membership[q].role = "Owner" => profile[membership[q].alliance].owner = q
      BY <1>6, <2>2 DEF RosterOK, Alliance
    <3>2. CASE membership[q].alliance = a
      BY <1>8, <3>1, <3>2 DEF Alliance
    <3>3. CASE membership[q].alliance # a
      BY <1>8, <3>1, <3>3
    <3> QED BY <3>2, <3>3
  <2> QED BY <2>1, <2>2
<1> QED BY <1>6, <1>7, <1>8, <1>9, <1>10, <1>11 DEF RosterOK, RosterLists, Alliance

\* Somebody leaves, or is kicked.
LEMMA RemoveKeepsRoster ==
    ASSUME RosterOK, NEW a \in Ids, NEW p \in Players, RemoveMember(a, p)
    PROVE  /\ RosterOK'
           /\ \A q \in Players \ {p} : membership'[q] = membership[q]
           /\ \A b \in Ids : profile[b].active => profile'[b].active
<1>1. PICK list, index : list = memberList[a] /\ index = memberIndex[a]
  OBVIOUS
<1>2. Listed(list, index) /\ index[p] # 0 /\ Alliance(p) = a /\ profile[a].count = Len(list)
  BY <1>1 DEF RosterOK, RemoveMember
<1>3. PICK g : g = SwapAndPop(list, index, p)
  OBVIOUS
<1>4. /\ Listed(g.list, g.index) /\ Len(list) \in Nat \ {0} /\ Len(g.list) = Len(list) - 1
      /\ \A q \in Players : g.index[q] # 0 <=> index[q] # 0 /\ q # p
  BY <1>2, <1>3, PopListed
<1>5. /\ membership' = [membership EXCEPT ![p] = Outsider]
      /\ memberList' = [memberList EXCEPT ![a] = g.list]
      /\ memberIndex' = [memberIndex EXCEPT ![a] = g.index]
      /\ profile' = [profile EXCEPT ![a].count = @ - 1]
  BY <1>1, <1>3 DEF RemoveMember
<1>6. /\ membership' \in [Players -> [alliance : {0} \cup Ids, role : Roles]]
      /\ membership'[p].alliance = 0 /\ membership'[p].role = "None"
      /\ \A q \in Players \ {p} : membership'[q] = membership[q]
  BY <1>5 DEF RosterOK, Roles, Outsider
<1>7. /\ memberList' \in [Ids -> Seq(Players)] /\ memberList'[a] = g.list
      /\ memberIndex' \in [Ids -> [Players -> Nat]] /\ memberIndex'[a] = g.index
      /\ \A b \in Ids \ {a} : memberList'[b] = memberList[b] /\ memberIndex'[b] = memberIndex[b]
  BY <1>4, <1>5 DEF RosterOK, RosterLists, Listed
<1>8. /\ profile' \in [Ids -> [active : BOOLEAN, owner : Players \cup {0}, count : Nat]]
      /\ profile'[a].count = Len(g.list)
      /\ \A b \in Ids : profile'[b].active = profile[b].active /\ profile'[b].owner = profile[b].owner
      /\ \A b \in Ids \ {a} : profile'[b] = profile[b]
  <2>1. PICK x : x = [profile[a] EXCEPT !.count = @ - 1]
    OBVIOUS
  <2>2. profile[a] \in [active : BOOLEAN, owner : Players \cup {0}, count : Nat]
    BY DEF RosterOK
  <2>3. /\ x \in [active : BOOLEAN, owner : Players \cup {0}, count : Nat]
        /\ x.count = Len(g.list) /\ x.active = profile[a].active /\ x.owner = profile[a].owner
    BY <1>2, <1>4, <2>1, <2>2
  <2>4. profile' = [profile EXCEPT ![a] = x]
    BY <1>5, <2>1 DEF RosterOK
  <2> QED BY <2>3, <2>4 DEF RosterOK
<1>9. \A b \in Ids : /\ Listed(memberList'[b], memberIndex'[b])
                     /\ profile'[b].count = Len(memberList'[b])
  BY <1>4, <1>7, <1>8 DEF RosterOK
<1>10. ASSUME NEW b \in Ids, NEW q \in Players
       PROVE  memberIndex'[b][q] # 0 <=> membership'[q].alliance = b
  <2>1. (memberIndex[b][q] # 0 <=> membership[q].alliance = b) /\ membership[p].alliance = a /\ b # 0
    BY <1>2 DEF RosterOK, Alliance, Ids
  <2>2. CASE b = a
    BY <1>1, <1>4, <1>6, <1>7, <2>1, <2>2
  <2>3. CASE b # a
    BY <1>6, <1>7, <2>1, <2>3
  <2> QED BY <2>2, <2>3
<1>11. ASSUME NEW q \in Players
       PROVE  /\ membership'[q].alliance = 0 => membership'[q].role = "None"
              /\ membership'[q].alliance # 0 => profile'[membership'[q].alliance].active
              /\ membership'[q].role = "Owner" => profile'[membership'[q].alliance].owner = q
  <2>1. CASE q = p
    BY <1>6, <2>1
  <2>2. CASE q # p
    <3>1. /\ membership'[q] = membership[q] /\ membership[q].alliance \in {0} \cup Ids
          /\ membership[q].alliance = 0 => membership[q].role = "None"
          /\ membership[q].alliance # 0 => profile[membership[q].alliance].active
          /\ membership[q].role = "Owner" => profile[membership[q].alliance].owner = q
      BY <1>6, <2>2 DEF RosterOK, Alliance
    <3>2. membership[q].role = "Owner" => membership[q].alliance # 0
      BY <3>1
    <3> QED BY <1>8, <3>1, <3>2
  <2> QED BY <2>1, <2>2
<1> QED BY <1>6, <1>7, <1>8, <1>9, <1>10, <1>11 DEF RosterOK, RosterLists, Alliance

\* Roles change within an alliance.
LEMMA RolesKeepRoster ==
    ASSUME RosterOK, NEW a \in Ids, NEW p \in Players, NEW actor \in Players,
           \/ TransferOwnership(actor, a, p)
           \/ \E role \in {"Member", "Officer"} : SetMemberRole(actor, a, p, role)
    PROVE  /\ RosterOK' /\ UNCHANGED <<memberList, memberIndex>>
           /\ \A q \in Players : membership'[q].alliance = membership[q].alliance
           /\ \A b \in Ids : profile'[b].active = profile[b].active
<1>1. CASE TransferOwnership(actor, a, p)
  <2>1. /\ membership[actor].alliance = a /\ membership[p].alliance = a /\ actor # p
        /\ membership[actor].role = "Owner" /\ profile[a].owner = actor
        /\ UNCHANGED <<memberList, memberIndex>>
    BY <1>1 DEF TransferOwnership, IsOwner, In, RosterOK, Alliance
  <2>2. PICK m : m = [membership EXCEPT ![actor].role = "Officer"]
    OBVIOUS
  <2>3. /\ m \in [Players -> [alliance : {0} \cup Ids, role : Roles]]
        /\ m[actor].role = "Officer" /\ m[actor].alliance = a
        /\ \A q \in Players \ {actor} : m[q] = membership[q]
    BY <2>1, <2>2 DEF RosterOK, Roles
  <2>4. membership' = [m EXCEPT ![p].role = "Owner"]
    BY <1>1, <2>1, <2>2 DEF TransferOwnership, RosterOK
  <2>5. /\ membership' \in [Players -> [alliance : {0} \cup Ids, role : Roles]]
        /\ \A q \in Players : membership'[q].alliance = membership[q].alliance
        /\ membership'[p].role = "Owner" /\ membership'[actor].role = "Officer"
        /\ \A q \in Players \ {p, actor} : membership'[q] = membership[q]
    BY <2>1, <2>3, <2>4 DEF Roles
  <2>6. /\ profile' \in [Ids -> [active : BOOLEAN, owner : Players \cup {0}, count : Nat]]
        /\ \A b \in Ids : profile'[b].active = profile[b].active /\ profile'[b].count = profile[b].count
        /\ profile'[a].owner = p /\ \A b \in Ids \ {a} : profile'[b] = profile[b]
    <3>1. PICK x : x = [profile[a] EXCEPT !.owner = p]
      OBVIOUS
    <3>2. profile[a] \in [active : BOOLEAN, owner : Players \cup {0}, count : Nat]
      BY DEF RosterOK
    <3>3. /\ x \in [active : BOOLEAN, owner : Players \cup {0}, count : Nat]
          /\ x.count = profile[a].count /\ x.active = profile[a].active /\ x.owner = p
      BY <3>1, <3>2
    <3>4. profile' = [profile EXCEPT ![a] = x]
      BY <1>1, <3>1 DEF TransferOwnership, RosterOK
    <3> QED BY <3>3, <3>4 DEF RosterOK
  <2>7. ASSUME NEW q \in Players
        PROVE  /\ membership'[q].alliance = 0 => membership'[q].role = "None"
               /\ membership'[q].alliance # 0 => profile'[membership'[q].alliance].active
               /\ membership'[q].role = "Owner" => profile'[membership'[q].alliance].owner = q
    <3>1. /\ membership[q].alliance \in {0} \cup Ids
          /\ membership[q].alliance = 0 => membership[q].role = "None"
          /\ membership[q].alliance # 0 => profile[membership[q].alliance].active
          /\ membership[q].role = "Owner" => profile[membership[q].alliance].owner = q
      BY DEF RosterOK, Alliance
    <3>2. a # 0
      BY DEF Ids
    <3>3. CASE q \in {p, actor}
      BY <2>1, <2>5, <2>6, <3>1, <3>2, <3>3
    <3>4. CASE q \notin {p, actor}
      <4>1. membership'[q] = membership[q]
        BY <2>5, <3>4
      <4>2. membership[q].role = "Owner" => membership[q].alliance # 0 /\ membership[q].alliance # a
        BY <2>1, <3>1, <3>4
      <4> QED BY <2>6, <3>1, <4>1, <4>2
    <3> QED BY <3>3, <3>4
  <2> QED BY <2>1, <2>5, <2>6, <2>7 DEF RosterOK, RosterLists, Alliance
<1>2. ASSUME NEW role \in {"Member", "Officer"}, SetMemberRole(actor, a, p, role)
      PROVE  /\ RosterOK' /\ UNCHANGED <<profile, memberList, memberIndex>>
             /\ \A q \in Players : membership'[q].alliance = membership[q].alliance
  <2>1. /\ membership[p].alliance = a /\ a # 0 /\ UNCHANGED <<profile, memberList, memberIndex>>
        /\ membership' = [membership EXCEPT ![p].role = role]
    BY <1>2 DEF SetMemberRole, In
  <2>2. /\ membership' \in [Players -> [alliance : {0} \cup Ids, role : Roles]]
        /\ \A q \in Players : membership'[q].alliance = membership[q].alliance
        /\ membership'[p].role = role
        /\ \A q \in Players \ {p} : membership'[q] = membership[q]
    BY <2>1 DEF RosterOK, Roles
  <2> QED BY <2>1, <2>2 DEF RosterOK, RosterLists, Alliance
<1> QED BY <1>1, <1>2

\* A new member enters all four books of the roster at once.
LEMMA JoinKeepsRoster ==
    ASSUME RosterOK, NEW a \in Ids, NEW p \in Players, profile[a].active, Free(p), Joins(a, p)
    PROVE  /\ RosterOK'
           /\ \A q \in Players \ {p} : membership'[q] = membership[q]
           /\ \A b \in Ids : profile[b].active => profile'[b].active
<1>1. PICK x : x = [profile[a] EXCEPT !.count = @ + 1]
  OBVIOUS
<1>2. /\ profile[a] \in [active : BOOLEAN, owner : Players \cup {0}, count : Nat]
      /\ profile[a].count = Len(memberList[a])
  BY DEF RosterOK
<1>3. /\ x \in [active : BOOLEAN, owner : Players \cup {0}, count : Nat]
      /\ x.active /\ x.count = Len(memberList[a]) + 1 /\ x.owner = profile[a].owner
  BY <1>1, <1>2
<1>4. profile' = [profile EXCEPT ![a] = x] /\ AddMember(a, p, "Member")
  BY <1>1 DEF Joins, RosterOK
<1> QED BY <1>3, <1>4, AddKeepsRoster

\* A new alliance starts with one member, its owner.
LEMMA CreateKeepsRoster ==
    ASSUME RosterOK, NEW p \in Players, CreateAlliance(p)
    PROVE  /\ RosterOK'
           /\ \A q \in Players \ {p} : membership'[q] = membership[q]
           /\ \A b \in Ids : profile[b].active => profile'[b].active
<1>1. PICK a \in Ids : /\ NextAllianceId(a)
                       /\ AddMember(a, p, "Owner")
                       /\ profile' = [profile EXCEPT ![a] = [active |-> TRUE, owner |-> p, count |-> 1]]
  BY DEF CreateAlliance
<1>2. Free(p) /\ ~profile[a].active
  <2>1. a \in Nat /\ ~(a < a)
    BY AllianceConstants DEF Ids
  <2> QED BY <1>1, <2>1 DEF CreateAlliance, NextAllianceId, Active
<1>3. \A q \in Players : Alliance(q) # a
  BY <1>2 DEF RosterOK, Ids
<1>4. Len(memberList[a]) = 0
  <2>1. Listed(memberList[a], memberIndex[a]) /\ \A q \in Players : memberIndex[a][q] = 0
    BY <1>3 DEF RosterOK
  <2>2. memberList[a] \in Seq(Players) /\ Len(memberList[a]) \in Nat
    BY <2>1, LenProperties DEF Listed
  <2>3. CASE Len(memberList[a]) # 0
    <3>1. 1 \in 1 .. Len(memberList[a])
      BY <2>2, <2>3
    <3>2. memberList[a][1] \in Players /\ memberIndex[a][memberList[a][1]] = 1
      BY <2>1, <2>2, <3>1, ElementOfSeq DEF Listed
    <3> QED BY <2>1, <3>2
  <2> QED BY <2>3
<1>5. PICK x : x = [active |-> TRUE, owner |-> p, count |-> 1]
  OBVIOUS
<1>6. /\ x \in [active : BOOLEAN, owner : Players \cup {0}, count : Nat]
      /\ x.active /\ x.count = Len(memberList[a]) + 1 /\ x.owner = p
  BY <1>4, <1>5
<1> QED BY <1>1, <1>2, <1>3, <1>5, <1>6, AddKeepsRoster

\* The roster of the past game comes under a number that is not taken.
LEMMA ImportKeepsRoster ==
    ASSUME RosterOK, NEW a \in Ids, NEW list \in Uniques, NEW owner \in ToSet(list),
           NEW officers \in SUBSET (ToSet(list) \ {owner}), ImportAlliance(a, list, owner, officers)
    PROVE  /\ RosterOK' /\ ~profile[a].active
           /\ \A q \in Players :
                 membership'[q] # membership[q] => membership[q].alliance = 0 /\ membership'[q].alliance = a
           /\ \A b \in Ids : profile[b].active => profile'[b].active
<1> DEFINE role(p) == IF p = owner THEN "Owner" ELSE IF p \in officers THEN "Officer" ELSE "Member"
<1>1. PICK all, index : /\ all = ToSet(list)
                        /\ index = [p \in Players |-> IF p \in ToSet(list)
                                      THEN CHOOSE i \in DOMAIN list : list[i] = p ELSE 0]
  OBVIOUS
<1>2. Listed(list, index) /\ \A p \in Players : index[p] # 0 <=> p \in all
  BY <1>1, ImportListed
<1>3. /\ ~profile[a].active /\ \A p \in all : Free(p)
      /\ profile' = [profile EXCEPT ![a] = [active |-> TRUE, owner |-> owner, count |-> Len(list)]]
      /\ membership' = [p \in Players |-> IF p \in all THEN [alliance |-> a, role |-> role(p)]
                                          ELSE membership[p]]
      /\ memberList' = [memberList EXCEPT ![a] = list]
      /\ memberIndex' = [memberIndex EXCEPT ![a] = index]
  BY <1>1 DEF ImportAlliance
<1>4. list \in Seq(Players) /\ Len(list) \in Nat /\ owner \in Players /\ owner \in all
      /\ DOMAIN list = 1 .. Len(list)
  BY <1>1, <1>2, LenProperties, ElementOfSeq DEF Listed, ToSet
<1>5. \A q \in Players : Alliance(q) # a
  BY <1>3 DEF RosterOK, Ids
<1>6. /\ membership' \in [Players -> [alliance : {0} \cup Ids, role : Roles]]
      /\ \A q \in Players : IF q \in all THEN membership'[q] = [alliance |-> a, role |-> role(q)]
                                         ELSE membership'[q] = membership[q]
  BY <1>3 DEF RosterOK, Roles
<1>7. /\ profile' \in [Ids -> [active : BOOLEAN, owner : Players \cup {0}, count : Nat]]
      /\ profile'[a].active /\ profile'[a].owner = owner /\ profile'[a].count = Len(list)
      /\ \A b \in Ids \ {a} : profile'[b] = profile[b]
  <2>1. PICK x : x = [active |-> TRUE, owner |-> owner, count |-> Len(list)]
    OBVIOUS
  <2>2. /\ x \in [active : BOOLEAN, owner : Players \cup {0}, count : Nat]
        /\ x.active /\ x.owner = owner /\ x.count = Len(list)
    BY <1>4, <2>1
  <2>3. profile' = [profile EXCEPT ![a] = x]
    BY <1>3, <2>1
  <2> QED BY <2>2, <2>3 DEF RosterOK
<1>8. /\ memberList' \in [Ids -> Seq(Players)] /\ memberList'[a] = list
      /\ memberIndex' \in [Ids -> [Players -> Nat]] /\ memberIndex'[a] = index
      /\ \A b \in Ids \ {a} : memberList'[b] = memberList[b] /\ memberIndex'[b] = memberIndex[b]
  BY <1>2, <1>3 DEF RosterOK, RosterLists, Listed
<1>9. \A b \in Ids : /\ Listed(memberList'[b], memberIndex'[b])
                     /\ profile'[b].count = Len(memberList'[b])
  BY <1>2, <1>7, <1>8 DEF RosterOK
<1>10. ASSUME NEW b \in Ids, NEW q \in Players
       PROVE  memberIndex'[b][q] # 0 <=> membership'[q].alliance = b
  <2>1. (memberIndex[b][q] # 0 <=> membership[q].alliance = b) /\ b # 0 /\ membership[q].alliance # a
        /\ (q \in all => membership[q].alliance = 0)
    BY <1>3, <1>5 DEF RosterOK, Alliance, Ids, Free
  <2>2. CASE b = a
    BY <1>2, <1>6, <1>8, <2>1, <2>2
  <2>3. CASE b # a
    BY <1>6, <1>8, <2>1, <2>3
  <2> QED BY <2>2, <2>3
<1>11. ASSUME NEW q \in Players
       PROVE  /\ membership'[q].alliance = 0 => membership'[q].role = "None"
              /\ membership'[q].alliance # 0 => profile'[membership'[q].alliance].active
              /\ membership'[q].role = "Owner" => profile'[membership'[q].alliance].owner = q
  <2>1. CASE q \in all
    <3>1. membership'[q].alliance = a /\ membership'[q].role = role(q) /\ a # 0
      BY <1>6, <2>1 DEF Ids
    <3>2. role(q) = "Owner" => q = owner
      OBVIOUS
    <3> QED BY <1>7, <3>1, <3>2
  <2>2. CASE q \notin all
    <3>1. /\ membership'[q] = membership[q] /\ membership[q].alliance \in {0} \cup Ids
          /\ membership[q].alliance = 0 => membership[q].role = "None"
          /\ membership[q].alliance # 0 => profile[membership[q].alliance].active
          /\ membership[q].role = "Owner" => profile[membership[q].alliance].owner = q
          /\ membership[q].alliance # a
      BY <1>5, <1>6, <2>2 DEF RosterOK, Alliance
    <3>2. membership[q].role = "Owner" => membership[q].alliance # 0
      BY <3>1
    <3> QED BY <1>7, <3>1, <3>2
  <2> QED BY <2>1, <2>2
<1>12. \A q \in Players :
          membership'[q] # membership[q] => membership[q].alliance = 0 /\ membership'[q].alliance = a
  BY <1>3, <1>6 DEF Free
<1> QED BY <1>3, <1>6, <1>7, <1>8, <1>9, <1>10, <1>11, <1>12 DEF RosterOK, RosterLists, Alliance

-----------------------------------------------------------------------------
(* The steps, by what they may change *)

\* A step changes a roster, after it settled the production of whom it moves ...
RosterStep ==
    \/ \E p \in Players : CreateAlliance(p) \/ LeaveAlliance(p)
    \/ \E p \in Players, a \in Ids : AcceptInvite(p, a) \/ Redeem(a, p)
    \/ \E actor, p \in Players, a \in Ids :
          ApproveJoinRequest(actor, a, p) \/ KickMember(actor, a, p)
    \/ \E actor, p \in Players, a \in Ids :
          \/ TransferOwnership(actor, a, p)
          \/ \E role \in {"Member", "Officer"} : SetMemberRole(actor, a, p, role)
    \/ Import

\* ... or leaves the rosters alone.
OtherStep ==
    \/ \E p \in Players : \/ Buy(p) \/ Produce(p) \/ Collect(p)
                          \/ AttackArrives(p) \/ BattleBegins(p) \/ BattleEnds(p)
    \/ \E p \in Players, a \in Ids : RequestJoin(p, a)
    \/ \E actor, p \in Players, a \in Ids :
          InviteMember(actor, a, p) \/ CancelInvite(actor, a, p) \/ DropJoinRequest(actor, a, p)
    \/ \E actor \in Players, ab \in OrderedPairs : Diplomacy(actor, ab[1], ab[2])
    \/ ImportRelation \/ Tick \/ UNCHANGED vars

\* A step either changes rosters and production, or something else.
LEMMA StepCases == [Next]_vars => RosterStep \/ OtherStep
<1>1. ASSUME NEW p \in Players, Alone(p) PROVE RosterStep \/ OtherStep
  BY <1>1 DEF Alone, RosterStep, OtherStep
<1>2. ASSUME NEW actor \in Players, NEW p \in Players, NEW a \in Ids, Rostering(actor, p, a)
      PROVE  RosterStep \/ OtherStep
  BY <1>2 DEF Rostering, RosterStep, OtherStep
<1> QED BY <1>1, <1>2 DEF Next, OtherStep, RosterStep

\* The steps of the second kind change neither memberships nor profiles.
LEMMA OthersKeepRoster == ASSUME OtherStep PROVE UNCHANGED roster
<1>1. ASSUME NEW p \in Players, \/ Buy(p) \/ Produce(p) \/ Collect(p)
                                \/ AttackArrives(p) \/ BattleBegins(p) \/ BattleEnds(p)
      PROVE  UNCHANGED roster
  BY <1>1 DEF Buy, Produce, Collect, AttackArrives, BattleBegins, BattleEnds
<1>2. ASSUME NEW p \in Players, NEW a \in Ids, RequestJoin(p, a) PROVE UNCHANGED roster
  BY <1>2 DEF RequestJoin
<1>3. ASSUME NEW actor \in Players, NEW p \in Players, NEW a \in Ids,
             InviteMember(actor, a, p) \/ CancelInvite(actor, a, p) \/ DropJoinRequest(actor, a, p)
      PROVE  UNCHANGED roster
  BY <1>3 DEF InviteMember, CancelInvite, DropJoinRequest
<1>4. ASSUME NEW actor \in Players, NEW a, NEW b, Diplomacy(actor, a, b) PROVE UNCHANGED roster
  BY <1>4 DEF Diplomacy, EndWar, SetDiplomacy, DeclareWar
<1>5. ASSUME ImportRelation PROVE UNCHANGED roster
  BY <1>5 DEF ImportRelation, ImportDiplomacy
<1> QED BY <1>1, <1>2, <1>3, <1>4, <1>5 DEF OtherStep, Tick, vars

\* What a change of a roster does to a player: nothing; or his production is
\* settled first; or he is imported into an alliance that issued no invite.
Moved(p) ==
    \/ /\ membership'[p].alliance = membership[p].alliance
       /\ unsettled'[p] = unsettled[p] /\ issuing'[p] = issuing[p]
    \/ \A t \in unsettled'[p] : t \in unsettled[p] /\ t.late
    \/ /\ membership[p].alliance = 0 /\ membership'[p].alliance \in Ids
       /\ ~profile[membership'[p].alliance].active
       /\ unsettled'[p] = unsettled[p] /\ issuing'[p] = issuing[p]

\* Settling leaves nothing but what is behind an arrived attack.
LEMMA CutMoves ==
    ASSUME BonusOK, NEW p \in Players, Cut(p),
           \A q \in Players \ {p} : membership'[q] = membership[q] /\ issuing'[q] = issuing[q]
    PROVE  \A q \in Players : Moved(q)
<1>1. unsettled \in [Players -> SUBSET Production]
  BY DEF BonusOK
<1>2. \A t \in unsettled'[p] : t \in unsettled[p] /\ t.late
  BY <1>1 DEF Cut
<1>3. \A q \in Players \ {p} : unsettled'[q] = unsettled[q]
  BY <1>1 DEF Cut
<1> QED BY <1>2, <1>3 DEF Moved

\* What a step on a roster keeps, and how it moves a player.
LEMMA RosterSteps ==
    ASSUME RosterOK, BonusOK, RosterStep
    PROVE  /\ RosterOK' /\ UNCHANGED <<wars, arrived, fought>>
           /\ \A b \in Ids : profile[b].active => profile'[b].active
           /\ \A p \in Players : Moved(p)
<1>1. ASSUME NEW p \in Players, CreateAlliance(p)
      PROVE  /\ RosterOK' /\ UNCHANGED <<wars, arrived, fought>>
             /\ \A b \in Ids : profile[b].active => profile'[b].active
             /\ \A q \in Players : Moved(q)
  <2>1. UNCHANGED <<wars, bonus, arrived, fought>> /\ Cut(p)
    BY <1>1 DEF CreateAlliance, AddMember
  <2>2. /\ RosterOK' /\ \A q \in Players \ {p} : membership'[q] = membership[q]
        /\ \A b \in Ids : profile[b].active => profile'[b].active
    BY <1>1, CreateKeepsRoster
  <2>3. \A q \in Players : Moved(q)
    BY <2>1, <2>2, CutMoves DEF bonus
  <2> QED BY <2>1, <2>2, <2>3
<1>2. ASSUME NEW p \in Players, NEW a \in Ids, RemoveMember(a, p)
      PROVE  /\ RosterOK' /\ UNCHANGED <<wars, arrived, fought>>
             /\ \A b \in Ids : profile[b].active => profile'[b].active
             /\ \A q \in Players : Moved(q)
  <2>1. UNCHANGED <<wars, bonus, arrived, fought>> /\ Cut(p)
    BY <1>2 DEF RemoveMember
  <2>2. /\ RosterOK' /\ \A q \in Players \ {p} : membership'[q] = membership[q]
        /\ \A b \in Ids : profile[b].active => profile'[b].active
    BY <1>2, RemoveKeepsRoster
  <2>3. \A q \in Players : Moved(q)
    BY <2>1, <2>2, CutMoves DEF bonus
  <2> QED BY <2>1, <2>2, <2>3
<1>3. ASSUME NEW p \in Players, NEW a \in Ids, Active(a), Free(p), Joins(a, p),
             UNCHANGED <<wars, arrived, fought>>, \A q \in Players \ {p} : issuing'[q] = issuing[q]
      PROVE  /\ RosterOK'
             /\ \A b \in Ids : profile[b].active => profile'[b].active
             /\ \A q \in Players : Moved(q)
  <2>1. Cut(p) /\ profile[a].active
    BY <1>3 DEF Joins, AddMember, Active
  <2>2. /\ RosterOK' /\ \A q \in Players \ {p} : membership'[q] = membership[q]
        /\ \A b \in Ids : profile[b].active => profile'[b].active
    BY <1>3, <2>1, JoinKeepsRoster
  <2>3. \A q \in Players : Moved(q)
    BY <1>3, <2>1, <2>2, CutMoves
  <2> QED BY <2>2, <2>3
<1>4. ASSUME NEW p \in Players, LeaveAlliance(p)
      PROVE  membership[p].alliance \in Ids /\ RemoveMember(membership[p].alliance, p)
  BY <1>4 DEF LeaveAlliance, RosterOK
<1>5. ASSUME NEW p \in Players, NEW a \in Ids, AcceptInvite(p, a)
      PROVE  /\ Active(a) /\ Free(p) /\ Joins(a, p) /\ UNCHANGED <<wars, arrived, fought>>
             /\ \A q \in Players \ {p} : issuing'[q] = issuing[q]
  BY <1>5 DEF AcceptInvite, bonus
<1>6. ASSUME NEW p \in Players, NEW a \in Ids, Redeem(a, p)
      PROVE  /\ Active(a) /\ Free(p) /\ Joins(a, p) /\ UNCHANGED <<wars, arrived, fought>>
             /\ \A q \in Players \ {p} : issuing'[q] = issuing[q]
  BY <1>6 DEF Redeem, BonusOK
<1>7. ASSUME NEW actor \in Players, NEW p \in Players, NEW a \in Ids, ApproveJoinRequest(actor, a, p)
      PROVE  /\ Active(a) /\ Free(p) /\ Joins(a, p) /\ UNCHANGED <<wars, arrived, fought>>
             /\ \A q \in Players \ {p} : issuing'[q] = issuing[q]
  BY <1>7 DEF ApproveJoinRequest, IsOfficer, bonus
<1>8. ASSUME NEW actor \in Players, NEW p \in Players, NEW a \in Ids, KickMember(actor, a, p)
      PROVE  RemoveMember(a, p)
  BY <1>8 DEF KickMember
<1>9. ASSUME NEW actor \in Players, NEW p \in Players, NEW a \in Ids,
             \/ TransferOwnership(actor, a, p)
             \/ \E role \in {"Member", "Officer"} : SetMemberRole(actor, a, p, role)
      PROVE  /\ RosterOK' /\ UNCHANGED <<wars, arrived, fought>>
             /\ \A b \in Ids : profile[b].active => profile'[b].active
             /\ \A q \in Players : Moved(q)
  <2>1. UNCHANGED <<wars, bonus, unsettled, arrived, fought>>
    BY <1>9 DEF TransferOwnership, SetMemberRole, production
  <2>2. /\ RosterOK' /\ \A q \in Players : membership'[q].alliance = membership[q].alliance
        /\ \A b \in Ids : profile'[b].active = profile[b].active
    BY <1>9, RolesKeepRoster
  <2> QED BY <2>1, <2>2 DEF Moved, bonus
<1>10. ASSUME NEW a \in Ids, NEW list \in Uniques, NEW owner \in ToSet(list),
              NEW officers \in SUBSET (ToSet(list) \ {owner}), ImportAlliance(a, list, owner, officers)
       PROVE  /\ RosterOK' /\ UNCHANGED <<wars, arrived, fought>>
              /\ \A b \in Ids : profile[b].active => profile'[b].active
              /\ \A q \in Players : Moved(q)
  <2>1. UNCHANGED <<wars, bonus, unsettled, arrived, fought>>
    BY <1>10 DEF ImportAlliance, production
  <2>2. /\ RosterOK' /\ ~profile[a].active
        /\ \A q \in Players :
              membership'[q] # membership[q] => membership[q].alliance = 0 /\ membership'[q].alliance = a
        /\ \A b \in Ids : profile[b].active => profile'[b].active
    BY <1>10, ImportKeepsRoster
  <2> QED BY <2>1, <2>2 DEF Moved, bonus
<1> QED BY <1>1, <1>2, <1>3, <1>4, <1>5, <1>6, <1>7, <1>8, <1>9, <1>10 DEF RosterStep, Import

\* The rosters stay right while nothing they are made of changes.
LEMMA RosterKept == ASSUME RosterOK, UNCHANGED roster PROVE RosterOK'
BY DEF RosterOK, RosterLists, roster, Alliance, Listed

-----------------------------------------------------------------------------
(* The bonus *)

\* The books of the invites stay in order when a roster changes.
LEMMA RosterStepTypes ==
    ASSUME BonusOK, RosterStep
    PROVE  /\ home \subseteq home' /\ home' \subseteq Players
           /\ issuing' \in [Players -> {0} \cup Ids]
           /\ paid' \in [Ids -> Nat] /\ bought' = bought /\ \A a \in Ids : paid'[a] <= paid[a]
           /\ unsettled' \in [Players -> SUBSET Production]
           /\ \A p \in Players : issuing'[p] = issuing[p] \/ profile[issuing'[p]].active
<1>1. ASSUME NEW p, Cut(p) PROVE unsettled' \in [Players -> SUBSET Production]
  BY <1>1 DEF Cut, BonusOK
<1>2. ASSUME UNCHANGED bonus
      PROVE  /\ home \subseteq home' /\ home' \subseteq Players
             /\ issuing' \in [Players -> {0} \cup Ids]
             /\ paid' \in [Ids -> Nat] /\ bought' = bought /\ \A a \in Ids : paid'[a] <= paid[a]
             /\ \A p \in Players : issuing'[p] = issuing[p]
  BY <1>2 DEF bonus, BonusOK
<1>3. ASSUME NEW p \in Players, NEW a \in Ids, Redeem(a, p)
      PROVE  /\ home \subseteq home' /\ home' \subseteq Players
             /\ issuing' \in [Players -> {0} \cup Ids]
             /\ paid' \in [Ids -> Nat] /\ bought' = bought /\ \A b \in Ids : paid'[b] <= paid[b]
             /\ \A q \in Players : issuing'[q] = issuing[q] \/ profile[issuing'[q]].active
             /\ Cut(p)
  BY <1>3 DEF Redeem, BonusOK, Active, Joins, AddMember
<1>4. ASSUME \/ \E p \in Players : CreateAlliance(p) \/ LeaveAlliance(p)
             \/ \E p \in Players, a \in Ids : AcceptInvite(p, a)
             \/ \E actor, p \in Players, a \in Ids :
                   ApproveJoinRequest(actor, a, p) \/ KickMember(actor, a, p)
      PROVE  UNCHANGED bonus /\ \E p \in Players : Cut(p)
  <2>1. ASSUME NEW p \in Players, CreateAlliance(p) PROVE UNCHANGED bonus /\ Cut(p)
    BY <2>1 DEF CreateAlliance, AddMember
  <2>2. ASSUME NEW p \in Players, NEW a, RemoveMember(a, p) PROVE UNCHANGED bonus /\ Cut(p)
    BY <2>2 DEF RemoveMember
  <2>3. ASSUME NEW p \in Players, NEW a \in Ids, AcceptInvite(p, a) PROVE UNCHANGED bonus /\ Cut(p)
    BY <2>3 DEF AcceptInvite, Joins, AddMember
  <2>4. ASSUME NEW actor, NEW p \in Players, NEW a \in Ids, ApproveJoinRequest(actor, a, p)
        PROVE  UNCHANGED bonus /\ Cut(p)
    BY <2>4 DEF ApproveJoinRequest, Joins, AddMember
  <2> QED BY <1>4, <2>1, <2>2, <2>3, <2>4 DEF LeaveAlliance, KickMember
<1>5. ASSUME \/ \E actor, p \in Players, a \in Ids :
                   \/ TransferOwnership(actor, a, p)
                   \/ \E role \in {"Member", "Officer"} : SetMemberRole(actor, a, p, role)
             \/ Import
      PROVE  UNCHANGED <<bonus, unsettled>>
  BY <1>5 DEF TransferOwnership, SetMemberRole, Import, ImportAlliance, production
<1>6. unsettled \in [Players -> SUBSET Production]
  BY DEF BonusOK
<1> QED BY <1>1, <1>2, <1>3, <1>4, <1>5, <1>6 DEF RosterStep

\* Who joins or leaves has its production settled before, or cannot.
LEMMA BonusAfterRoster ==
    ASSUME RosterOK, BonusOK, RosterStep
    PROVE  BonusOK'
<1>1. /\ RosterOK' /\ UNCHANGED <<arrived, fought>>
      /\ \A b \in Ids : profile[b].active => profile'[b].active
      /\ \A p \in Players : Moved(p)
  BY RosterSteps
<1>2. /\ home \subseteq home' /\ home' \subseteq Players
      /\ issuing' \in [Players -> {0} \cup Ids]
      /\ paid' \in [Ids -> Nat] /\ bought' = bought /\ \A a \in Ids : paid'[a] <= paid[a]
      /\ unsettled' \in [Players -> SUBSET Production]
      /\ \A p \in Players : issuing'[p] = issuing[p] \/ profile[issuing'[p]].active
  BY RosterStepTypes
<1>3. ASSUME NEW p \in Players
      PROVE  issuing'[p] # 0 => issuing'[p] \in Ids /\ profile[issuing'[p]].active
  BY <1>2 DEF BonusOK
<1>4. ASSUME NEW p \in Players, NEW t \in unsettled'[p]
      PROVE  t.late \/ (t.own <=> issuing'[p] # 0 /\ membership'[p].alliance = issuing'[p])
  <2>1. \A u \in unsettled[p] : u.late \/ (u.own <=> issuing[p] # 0 /\ membership[p].alliance = issuing[p])
    BY DEF BonusOK, In
  <2>2. CASE /\ membership'[p].alliance = membership[p].alliance
             /\ unsettled'[p] = unsettled[p] /\ issuing'[p] = issuing[p]
    BY <1>4, <2>1, <2>2
  <2>3. CASE \A u \in unsettled'[p] : u \in unsettled[p] /\ u.late
    BY <1>4, <2>3
  <2>4. CASE /\ membership[p].alliance = 0 /\ membership'[p].alliance \in Ids
             /\ ~profile[membership'[p].alliance].active
             /\ unsettled'[p] = unsettled[p] /\ issuing'[p] = issuing[p]
    <3>1. membership'[p].alliance # issuing'[p]
      BY <1>3, <2>4 DEF Ids
    <3>2. ~(issuing[p] # 0 /\ membership[p].alliance = issuing[p])
      BY <2>4
    <3> QED BY <1>4, <2>1, <2>4, <3>1, <3>2
  <2> QED BY <1>1, <2>2, <2>3, <2>4 DEF Moved
<1>5. \A a \in Ids : paid'[a] <= bought'
  BY <1>2 DEF BonusOK
<1>6. \A p \in Players : issuing'[p] # 0 => profile'[issuing'[p]].active
  BY <1>1, <1>3
<1> QED BY <1>1, <1>2, <1>4, <1>5, <1>6 DEF BonusOK, In

\* No other step makes production count for a wrong membership.
LEMMA BonusAfterOther ==
    ASSUME RosterOK, BonusOK, OtherStep
    PROVE  BonusOK'
<1> USE DEF BonusOK, In, Alliance
<1>1. UNCHANGED <<profile, membership>>
  BY OthersKeepRoster DEF roster
<1>2. ASSUME UNCHANGED <<bonus, arrived, fought>>, NEW p \in Players, Cut(p) PROVE BonusOK'
  <2>1. /\ unsettled' \in [Players -> SUBSET Production]
        /\ \A q \in Players : unsettled'[q] \subseteq unsettled[q]
    BY <1>2 DEF Cut
  <2> QED BY <1>1, <1>2, <2>1 DEF bonus
<1>3. ASSUME UNCHANGED <<bonus, production>> PROVE BonusOK'
  BY <1>1, <1>3 DEF bonus, production
<1>4. ASSUME NEW p \in Players, Produce(p) PROVE BonusOK'
  <2>1. PICK t : t = [own |-> In(p, issuing[p]), late |-> p \in arrived]
    OBVIOUS
  <2>2. t \in Production
    BY <2>1 DEF Production
  <2>3. /\ unsettled' = [unsettled EXCEPT ![p] = @ \cup {t}]
        /\ UNCHANGED <<bonus, arrived, fought>>
    BY <1>4, <2>1 DEF Produce
  <2>4. /\ unsettled' \in [Players -> SUBSET Production]
        /\ \A q \in Players : \A u \in unsettled'[q] : u \in unsettled[q] \/ (q = p /\ u = t)
    BY <2>2, <2>3
  <2>5. t.own <=> In(p, issuing[p])
    BY <2>1
  <2> QED BY <1>1, <2>3, <2>4, <2>5 DEF bonus
<1>5. ASSUME NEW p \in Players, Buy(p) PROVE BonusOK'
  <2>1. PICK a : a = membership[p].alliance
    OBVIOUS
  <2>2. /\ a \in Ids /\ bought < MaxPaid /\ paid' = [paid EXCEPT ![a] = @ + 1] /\ bought' = bought + 1
        /\ UNCHANGED <<production, home, issuing>>
    BY <1>5, <2>1 DEF Buy, RosterOK, RoomForPaid
  <2>3. MaxPaid \in Nat
    BY AllianceConstants
  <2>4. paid' \in [Ids -> Nat] /\ bought' \in 0 .. MaxPaid /\ \A b \in Ids : paid'[b] <= bought'
    BY <2>2, <2>3
  <2> QED BY <1>1, <2>2, <2>4 DEF production
<1>6. ASSUME NEW p \in Players, Collect(p) PROVE BonusOK'
  BY <1>2, <1>6 DEF Collect
<1>7. ASSUME NEW p \in Players, AttackArrives(p) \/ BattleEnds(p) PROVE BonusOK'
  BY <1>1, <1>7 DEF AttackArrives, BattleEnds, bonus
<1>8. ASSUME NEW p \in Players, BattleBegins(p) PROVE BonusOK'
  <2>1. /\ UNCHANGED <<bonus, arrived>> /\ Cut(p) /\ fought' = fought \cup {p} /\ p \in arrived
    BY <1>8 DEF BattleBegins
  <2>2. /\ unsettled' \in [Players -> SUBSET Production]
        /\ \A q \in Players : unsettled'[q] \subseteq unsettled[q]
    BY <2>1 DEF Cut
  <2> QED BY <1>1, <2>1, <2>2 DEF bonus
<1>9. ASSUME \/ \E p \in Players, a \in Ids : RequestJoin(p, a)
             \/ \E actor, p \in Players, a \in Ids :
                   InviteMember(actor, a, p) \/ CancelInvite(actor, a, p) \/ DropJoinRequest(actor, a, p)
             \/ ImportRelation \/ Tick \/ UNCHANGED vars
      PROVE  UNCHANGED <<bonus, production>>
  BY <1>9 DEF RequestJoin, InviteMember, CancelInvite, DropJoinRequest, ImportRelation, ImportDiplomacy,
              Tick, vars
<1>10. ASSUME NEW actor \in Players, NEW a, NEW b, Diplomacy(actor, a, b)
       PROVE  UNCHANGED <<bonus, production>>
  BY <1>10 DEF Diplomacy, EndWar, SetDiplomacy, DeclareWar
<1> HIDE DEF BonusOK, In, Alliance
<1> QED BY <1>3, <1>4, <1>5, <1>6, <1>7, <1>8, <1>9, <1>10 DEF OtherStep

-----------------------------------------------------------------------------
(* Invites and join requests *)

\* A request is dropped, approved, or used up by an invite.
LEMMA RemovalKeepsRequests ==
    ASSUME RequestsOK, NEW a \in Ids, NEW p \in Players, RemoveJoinRequest(a, p),
           invites' \subseteq invites
    PROVE  RequestsOK'
<1>1. PICK list, index : list = requestList[a] /\ index = requestIndex[a]
  OBVIOUS
<1>2. Listed(list, index) /\ index[p] # 0
  BY <1>1 DEF RequestsOK, RemoveJoinRequest
<1>3. PICK g : g = SwapAndPop(list, index, p)
  OBVIOUS
<1>4. Listed(g.list, g.index) /\ \A q \in Players : g.index[q] # 0 <=> index[q] # 0 /\ q # p
  BY <1>2, <1>3, PopListed
<1>5. /\ requestList' = [requestList EXCEPT ![a] = g.list]
      /\ requestIndex' = [requestIndex EXCEPT ![a] = g.index]
      /\ requested' = requested \ {<<p, a>>}
  BY <1>1, <1>3 DEF RemoveJoinRequest
<1>6. /\ requestList' \in [Ids -> Seq(Players)] /\ requestList'[a] = g.list
      /\ requestIndex' \in [Ids -> [Players -> Nat]] /\ requestIndex'[a] = g.index
      /\ \A b \in Ids \ {a} : requestList'[b] = requestList[b] /\ requestIndex'[b] = requestIndex[b]
  BY <1>4, <1>5 DEF RequestsOK, RequestLists, Listed
<1>7. ASSUME NEW b \in Ids
      PROVE  /\ Listed(requestList'[b], requestIndex'[b])
             /\ \A q \in Players : requestIndex'[b][q] # 0 <=> <<q, b>> \in requested'
  <2>1. CASE b = a
    BY <1>1, <1>4, <1>5, <1>6, <2>1 DEF RequestsOK
  <2>2. CASE b # a
    <3>1. \A q \in Players : <<q, b>> # <<p, a>>
      BY <2>2
    <3> QED BY <1>5, <1>6, <2>2, <3>1 DEF RequestsOK
  <2> QED BY <2>1, <2>2
<1> QED BY <1>5, <1>6, <1>7 DEF RequestsOK, RequestLists

\* A request enters the record, the list and the places at once.
LEMMA RequestKeepsRequests ==
    ASSUME RequestsOK, NEW a \in Ids, NEW p \in Players, RequestJoin(p, a)
    PROVE  RequestsOK'
<1>1. PICK list, index : list = requestList[a] /\ index = requestIndex[a]
  OBVIOUS
<1>2. Listed(list, index) /\ requested' = requested \cup {<<p, a>>} /\ invites' = invites
  BY <1>1 DEF RequestsOK, RequestJoin
<1>3. CASE index[p] # 0
  <2>1. UNCHANGED <<requestList, requestIndex>> /\ <<p, a>> \in requested
    BY <1>1, <1>3 DEF RequestJoin, RequestsOK
  <2>2. requested' = requested
    BY <1>2, <2>1
  <2> QED BY <1>2, <2>1, <2>2 DEF RequestsOK, RequestLists, Listed
<1>4. CASE index[p] = 0
  <2>1. PICK g : g = Append1(list, index, p)
    OBVIOUS
  <2>2. Listed(g.list, g.index) /\ \A q \in Players : g.index[q] # 0 <=> index[q] # 0 \/ q = p
    BY <1>2, <1>4, <2>1, AppendListed
  <2>3. /\ requestList' = [requestList EXCEPT ![a] = g.list]
        /\ requestIndex' = [requestIndex EXCEPT ![a] = g.index]
    BY <1>1, <1>4, <2>1 DEF RequestJoin
  <2>4. /\ requestList' \in [Ids -> Seq(Players)] /\ requestList'[a] = g.list
        /\ requestIndex' \in [Ids -> [Players -> Nat]] /\ requestIndex'[a] = g.index
        /\ \A b \in Ids \ {a} : requestList'[b] = requestList[b] /\ requestIndex'[b] = requestIndex[b]
    BY <2>2, <2>3 DEF RequestsOK, RequestLists, Listed
  <2>5. ASSUME NEW b \in Ids
        PROVE  /\ Listed(requestList'[b], requestIndex'[b])
               /\ \A q \in Players : requestIndex'[b][q] # 0 <=> <<q, b>> \in requested'
    <3>1. CASE b = a
      BY <1>1, <1>2, <2>2, <2>4, <3>1 DEF RequestsOK
    <3>2. CASE b # a
      <4>1. \A q \in Players : <<q, b>> # <<p, a>>
        BY <3>2
      <4> QED BY <1>2, <2>4, <3>2, <4>1 DEF RequestsOK
    <3> QED BY <3>1, <3>2
  <2> QED BY <1>2, <2>4, <2>5 DEF RequestsOK, RequestLists
<1> QED BY <1>3, <1>4

\* The join requests stay right while nothing they are made of changes.
LEMMA RequestsKept == ASSUME RequestsOK, UNCHANGED requests, invites' \subseteq Players \X Ids
                      PROVE  RequestsOK'
BY DEF RequestsOK, RequestLists, requests, Listed

\* Every step keeps the books of the join requests.
LEMMA RequestStep ==
    ASSUME RequestsOK, RosterStep \/ OtherStep
    PROVE  RequestsOK'
<1>1. ASSUME NEW p \in Players, NEW a \in Ids, AcceptInvite(p, a) PROVE RequestsOK'
  <2>1. invites' \subseteq invites /\ (RemoveJoinRequest(a, p) \/ UNCHANGED requests)
    BY <1>1 DEF AcceptInvite
  <2>2. invites' \subseteq Players \X Ids
    BY <2>1 DEF RequestsOK
  <2> QED BY <2>1, <2>2, RemovalKeepsRequests, RequestsKept
<1>2. ASSUME NEW actor, NEW p \in Players, NEW a \in Ids,
             DropJoinRequest(actor, a, p) \/ ApproveJoinRequest(actor, a, p)
      PROVE  RequestsOK'
  <2>1. RemoveJoinRequest(a, p) /\ invites' = invites
    BY <1>2 DEF DropJoinRequest, ApproveJoinRequest
  <2> QED BY <2>1, RemovalKeepsRequests
<1>3. ASSUME NEW actor, NEW p \in Players, NEW a \in Ids,
             InviteMember(actor, a, p) \/ CancelInvite(actor, a, p)
      PROVE  RequestsOK'
  <2>1. invites' \subseteq Players \X Ids /\ UNCHANGED requests
    BY <1>3 DEF InviteMember, CancelInvite, RequestsOK
  <2> QED BY <2>1, RequestsKept
<1>4. ASSUME UNCHANGED <<invites, requests>> PROVE RequestsOK'
  <2>1. invites' \subseteq Players \X Ids /\ UNCHANGED requests
    BY <1>4 DEF RequestsOK
  <2> QED BY <2>1, RequestsKept
<1>5. ASSUME \/ \E p \in Players : CreateAlliance(p) \/ LeaveAlliance(p)
             \/ \E p \in Players, a \in Ids : Redeem(a, p)
             \/ \E actor, p \in Players, a \in Ids : KickMember(actor, a, p)
      PROVE  UNCHANGED <<invites, requests>>
  BY <1>5 DEF CreateAlliance, LeaveAlliance, RemoveMember, Redeem, KickMember
<1>6. ASSUME \/ \E actor, p \in Players, a \in Ids :
                   \/ TransferOwnership(actor, a, p)
                   \/ \E role \in {"Member", "Officer"} : SetMemberRole(actor, a, p, role)
             \/ Import
      PROVE  UNCHANGED <<invites, requests>>
  BY <1>6 DEF TransferOwnership, SetMemberRole, Import, ImportAlliance
<1>7. ASSUME \/ \E p \in Players : \/ Buy(p) \/ Produce(p) \/ Collect(p)
                                   \/ AttackArrives(p) \/ BattleBegins(p) \/ BattleEnds(p)
             \/ ImportRelation \/ Tick \/ UNCHANGED vars
      PROVE  UNCHANGED <<invites, requests>>
  BY <1>7 DEF Buy, Produce, Collect, AttackArrives, BattleBegins, BattleEnds, ImportRelation,
              ImportDiplomacy, Tick, vars
<1>8. ASSUME NEW actor, NEW a, NEW b, Diplomacy(actor, a, b)
      PROVE  UNCHANGED <<invites, requests>>
  BY <1>8 DEF Diplomacy, EndWar, SetDiplomacy, DeclareWar
<1> QED BY <1>1, <1>2, <1>3, <1>4, <1>5, <1>6, <1>7, <1>8, RequestKeepsRequests DEF RosterStep, OtherStep

-----------------------------------------------------------------------------
(* The wars *)

\* The two orders of a pair.
LEMMA KeyOfPair ==
    ASSUME NEW a \in Ids, NEW b \in Ids, a # b
    PROVE  /\ Key(a, b) \in Pairs /\ Key(a, b) = Key(b, a)
           /\ <<a, b>> \in OrderedPairs /\ <<b, a>> \in OrderedPairs
           /\ \/ Key(a, b) = <<a, b>> /\ a < b
              \/ Key(a, b) = <<b, a>> /\ b < a
BY AllianceConstants DEF Key, Pairs, OrderedPairs, Ids

\* A pair whose books of the war a step leaves alone.
LEMMA WarKept ==
    ASSUME NEW a \in Ids, NEW b \in Ids, a < b, WarOK(a, b),
           diplomacy'[<<a, b>>] = diplomacy[<<a, b>>], diplomacy'[<<b, a>>] = diplomacy[<<b, a>>],
           warDeclarer'[<<a, b>>] = warDeclarer[<<a, b>>], warDeclarer'[<<b, a>>] = warDeclarer[<<b, a>>],
           snapshot'[<<a, b>>] = snapshot[<<a, b>>], frozen'[<<a, b>>] = frozen[<<a, b>>],
           rosters'[<<a, b>>] = rosters[<<a, b>>]
    PROVE  WarOK(a, b)'
BY DEF WarOK, AtWar

\* The list of an alliance names exactly the players that are in it.
LEMMA MembersOf ==
    ASSUME RosterOK, NEW a \in Ids
    PROVE  ToSet(memberList[a]) = {p \in Players : Alliance(p) = a}
<1>1. Listed(memberList[a], memberIndex[a]) /\ \A p \in Players : memberIndex[a][p] # 0 <=> Alliance(p) = a
  BY DEF RosterOK
<1>2. ToSet(memberList[a]) = {p \in Players : memberIndex[a][p] # 0}
  BY <1>1, ListedPlaces
<1> QED BY <1>1, <1>2

\* A declaration freezes the two rosters, which have nobody in common, under a
\* number that no record of the pair has.
LEMMA DeclarationFreezes ==
    ASSUME RosterOK, WarsOK, NEW actor, NEW a \in Ids, NEW b \in Ids, a # b,
           NEW tooStrong \in BOOLEAN, DeclareWar(actor, a, b, tooStrong)
    PROVE  WarsOK'
<1>1. PICK key, number : key = Key(a, b) /\ number = snapshot[Key(a, b)].number + 1
  OBVIOUS
<1>2. /\ key \in Pairs /\ <<a, b>> \in OrderedPairs /\ <<b, a>> \in OrderedPairs
      /\ \/ key = <<a, b>> /\ a < b
         \/ key = <<b, a>> /\ b < a
  BY <1>1, KeyOfPair
<1>3. snapshot[key] \in [number : Nat, tooStrong : BOOLEAN] /\ number \in Nat \ {0}
      /\ number = snapshot[key].number + 1
  BY <1>1, <1>2 DEF WarsOK
<1>4. PICK A, B : A = ToSet(memberList[a]) /\ B = ToSet(memberList[b])
  OBVIOUS
<1>5. A \subseteq Players /\ B \subseteq Players /\ A \cap B = {}
  <2>1. A = {p \in Players : Alliance(p) = a} /\ B = {p \in Players : Alliance(p) = b}
    BY <1>4, MembersOf
  <2> QED BY <2>1
<1>6. PICK record, sides :
         /\ record = [p \in Players |->
                        IF p \in A \cup B THEN [number |-> number, side |-> IF p \in A THEN 1 ELSE 2]
                        ELSE frozen[key][p]]
         /\ sides = [side \in 1 .. 2 |-> IF side = 1 THEN A ELSE B]
  OBVIOUS
<1>7. /\ diplomacy' = [diplomacy EXCEPT ![<<a, b>>] = "War", ![<<b, a>>] = "None"]
      /\ warAge' = [warAge EXCEPT ![<<a, b>>] = 0, ![<<b, a>>] = -1]
      /\ warDeclarer' = [warDeclarer EXCEPT ![<<a, b>>] = a, ![<<b, a>>] = a]
      /\ snapshot' = [snapshot EXCEPT ![key] = [number |-> number, tooStrong |-> tooStrong]]
  BY <1>1 DEF DeclareWar, Capture, SetBoth
<1>8. frozen' = [frozen EXCEPT ![key] = record]
  <2>1. frozen' = [frozen EXCEPT ![key] = [p \in Players |->
                     IF p \in A \cup B THEN [number |-> number, side |-> IF p \in A THEN 1 ELSE 2]
                     ELSE frozen[key][p]]]
    BY <1>1, <1>2, <1>4 DEF DeclareWar, Capture, WarsOK
  <2> QED BY <1>6, <2>1
<1>9. rosters' = [rosters EXCEPT ![key] = sides]
  <2>1. rosters' = [rosters EXCEPT ![Key(a, b)] =
                      [side \in 1 .. 2 |-> ToSet(memberList[IF side = 1 THEN a ELSE b])]]
    BY DEF DeclareWar
  <2>2. [side \in 1 .. 2 |-> ToSet(memberList[IF side = 1 THEN a ELSE b])] = sides
    <3>1. \A side \in 1 .. 2 : ToSet(memberList[IF side = 1 THEN a ELSE b]) = IF side = 1 THEN A ELSE B
      BY <1>4
    <3> QED BY <1>6, <3>1
  <2> QED BY <1>1, <2>1, <2>2
<1>10. record \in [Players -> [number : Nat, side : 0 .. 2]]
  <2>1. frozen[key] \in [Players -> [number : Nat, side : 0 .. 2]]
    BY <1>2 DEF WarsOK
  <2> QED BY <1>3, <1>6, <2>1
<1>11. sides \in [1 .. 2 -> SUBSET Players] /\ sides[1] = A /\ sides[2] = B
  BY <1>5, <1>6
<1>12. /\ diplomacy' \in [OrderedPairs -> {"None", "Pact", "War"}]
       /\ warDeclarer' \in [OrderedPairs -> {0} \cup Ids]
       /\ snapshot' \in [Pairs -> [number : Nat, tooStrong : BOOLEAN]]
       /\ frozen' \in [Pairs -> [Players -> [number : Nat, side : 0 .. 2]]]
       /\ rosters' \in [Pairs -> [1 .. 2 -> SUBSET Players]]
  BY <1>2, <1>3, <1>7, <1>8, <1>9, <1>10, <1>11 DEF WarsOK
<1>13. warAge' \in [OrderedPairs -> -1 .. WarMinimum]
  <2>1. WarMinimum \in Nat /\ 0 \in -1 .. WarMinimum /\ -1 \in -1 .. WarMinimum
    BY AllianceConstants
  <2> QED BY <1>7, <2>1 DEF WarsOK
<1>14. ASSUME NEW x \in Ids, NEW y \in Ids, x < y PROVE WarOK(x, y)'
  <2>0. x # y /\ WarOK(x, y) /\ <<x, y>> \in OrderedPairs /\ <<y, x>> \in OrderedPairs /\ <<x, y>> \in Pairs
    BY <1>14 DEF WarsOK, OrderedPairs, Pairs, Ids
  <2>1. CASE <<x, y>> # key
    <3>1. <<x, y>> \notin {<<a, b>>, <<b, a>>} /\ <<y, x>> \notin {<<a, b>>, <<b, a>>}
      BY <1>2, <1>14, <2>1 DEF Ids
    <3>2. /\ diplomacy'[<<x, y>>] = diplomacy[<<x, y>>] /\ diplomacy'[<<y, x>>] = diplomacy[<<y, x>>]
          /\ warDeclarer'[<<x, y>>] = warDeclarer[<<x, y>>]
          /\ warDeclarer'[<<y, x>>] = warDeclarer[<<y, x>>]
      BY <1>7, <2>0, <3>1 DEF WarsOK
    <3>3. /\ snapshot'[<<x, y>>] = snapshot[<<x, y>>] /\ frozen'[<<x, y>>] = frozen[<<x, y>>]
          /\ rosters'[<<x, y>>] = rosters[<<x, y>>]
      BY <1>7, <1>8, <1>9, <2>0, <2>1 DEF WarsOK
    <3> QED BY <1>14, <2>0, <3>2, <3>3, WarKept
  <2>2. CASE <<x, y>> = key
    <3>1. {x, y} = {a, b}
      BY <1>2, <2>2
    <3>2. /\ snapshot'[key].number = number /\ frozen'[key] = record /\ rosters'[key] = sides
      BY <1>2, <1>7, <1>8, <1>9 DEF WarsOK
    <3>3. warDeclarer'[<<x, y>>] = a /\ warDeclarer'[<<y, x>>] = a
      BY <1>2, <1>7, <2>2 DEF WarsOK
    <3>4. \A p \in Players : frozen[key][p].number <= snapshot[key].number /\ frozen[key][p].number \in Nat
      <4>1. frozen[key] \in [Players -> [number : Nat, side : 0 .. 2]]
        BY <1>2 DEF WarsOK
      <4>2. \A p \in Players : frozen[<<x, y>>][p].number <= snapshot[<<x, y>>].number
        BY <2>0 DEF WarOK
      <4> QED BY <2>2, <4>1, <4>2
    <3>5. ASSUME NEW p \in Players
          PROVE  /\ record[p].number <= number
                 /\ \A side \in 1 .. 2 : p \in sides[side] <=> record[p] = [number |-> number, side |-> side]
      <4>1. CASE p \in A
        <5>1. record[p] = [number |-> number, side |-> 1]
          BY <1>6, <4>1
        <5> QED BY <1>3, <1>5, <1>11, <4>1, <5>1
      <4>2. CASE p \in B
        <5>1. record[p] = [number |-> number, side |-> 2] /\ p \notin A
          BY <1>5, <1>6, <4>2
        <5> QED BY <1>3, <1>11, <4>2, <5>1
      <4>3. CASE p \notin A \cup B
        <5>1. record[p] = frozen[key][p] /\ record[p].number < number
          BY <1>3, <1>6, <3>4, <4>3
        <5>2. record[p].number # number
          BY <1>3, <3>4, <5>1
        <5>3. \A side \in 1 .. 2 : record[p] # [number |-> number, side |-> side]
          BY <5>2
        <5> QED BY <1>3, <1>11, <3>4, <4>3, <5>1, <5>3
      <4> QED BY <4>1, <4>2, <4>3
    <3>6. number # 0
      BY <1>3
    <3> QED BY <2>2, <3>1, <3>2, <3>3, <3>5, <3>6 DEF WarOK
  <2> QED BY <2>1, <2>2
<1> QED BY <1>12, <1>13, <1>14 DEF WarsOK

\* An end of a war, a pact or its end leave the pair in peace.
LEMMA PeaceKeepsWars ==
    ASSUME WarsOK, NEW a \in Ids, NEW b \in Ids, a # b, NEW status \in {"None", "Pact"},
           diplomacy' = SetBoth(diplomacy, a, b, status), warAge' = SetBoth(warAge, a, b, -1),
           warDeclarer' = SetBoth(warDeclarer, a, b, 0), UNCHANGED <<snapshot, frozen>>,
           NEW none \in [1 .. 2 -> SUBSET Players],
           rosters' = rosters \/ rosters' = [rosters EXCEPT ![Key(a, b)] = none]
    PROVE  WarsOK'
<1>1. /\ Key(a, b) \in Pairs /\ <<a, b>> \in OrderedPairs /\ <<b, a>> \in OrderedPairs
      /\ \/ Key(a, b) = <<a, b>> /\ a < b
         \/ Key(a, b) = <<b, a>> /\ b < a
  BY KeyOfPair
<1>2. /\ diplomacy' \in [OrderedPairs -> {"None", "Pact", "War"}]
      /\ warDeclarer' \in [OrderedPairs -> {0} \cup Ids]
      /\ rosters' \in [Pairs -> [1 .. 2 -> SUBSET Players]]
  BY <1>1 DEF SetBoth, WarsOK
<1>3. warAge' \in [OrderedPairs -> -1 .. WarMinimum]
  <2>1. WarMinimum \in Nat /\ -1 \in -1 .. WarMinimum
    BY AllianceConstants
  <2> QED BY <2>1 DEF SetBoth, WarsOK
<1>4. ASSUME NEW x \in Ids, NEW y \in Ids, x < y PROVE WarOK(x, y)'
  <2>0. x # y /\ WarOK(x, y) /\ <<x, y>> \in OrderedPairs /\ <<y, x>> \in OrderedPairs /\ <<x, y>> \in Pairs
    BY <1>4 DEF WarsOK, OrderedPairs, Pairs, Ids
  <2>1. CASE <<x, y>> # Key(a, b)
    <3>1. <<x, y>> \notin {<<a, b>>, <<b, a>>} /\ <<y, x>> \notin {<<a, b>>, <<b, a>>}
      BY <1>1, <1>4, <2>1 DEF Ids
    <3>2. /\ diplomacy'[<<x, y>>] = diplomacy[<<x, y>>] /\ diplomacy'[<<y, x>>] = diplomacy[<<y, x>>]
          /\ warDeclarer'[<<x, y>>] = warDeclarer[<<x, y>>]
          /\ warDeclarer'[<<y, x>>] = warDeclarer[<<y, x>>]
      BY <2>0, <3>1 DEF WarsOK, SetBoth
    <3>3. rosters'[<<x, y>>] = rosters[<<x, y>>]
      BY <2>0, <2>1 DEF WarsOK
    <3> QED BY <1>4, <2>0, <3>2, <3>3, WarKept
  <2>2. CASE <<x, y>> = Key(a, b)
    <3>1. diplomacy'[<<x, y>>] = status /\ diplomacy'[<<y, x>>] = status
      <4>1. diplomacy'[<<a, b>>] = status /\ diplomacy'[<<b, a>>] = status
        BY <1>1 DEF SetBoth, WarsOK
      <4>2. (x = a /\ y = b) \/ (x = b /\ y = a)
        BY <1>1, <2>2
      <4> QED BY <4>1, <4>2
    <3>2. "War" \notin {diplomacy'[<<x, y>>], diplomacy'[<<y, x>>]}
      BY <3>1
    <3> QED BY <2>0, <3>2 DEF WarOK, AtWar
  <2> QED BY <2>1, <2>2
<1> QED BY <1>2, <1>3, <1>4 DEF WarsOK

\* Every step keeps the records of each war as its declaration made them.
LEMMA WarStep ==
    ASSUME RosterOK, BonusOK, WarsOK, RosterStep \/ OtherStep
    PROVE  WarsOK'
<1>1. ASSUME UNCHANGED <<diplomacy, warDeclarer, snapshot, frozen, rosters>>,
             warAge' \in [OrderedPairs -> -1 .. WarMinimum]
      PROVE  WarsOK'
  <2>1. \A a, b \in Ids : a < b => WarOK(a, b)'
    BY <1>1, WarKept DEF WarsOK
  <2> QED BY <1>1, <2>1 DEF WarsOK
<1>2. ASSUME Tick PROVE WarsOK'
  <2>1. warAge' \in [OrderedPairs -> -1 .. WarMinimum]
    <3>1. \A ab \in OrderedPairs : warAge[ab] \in -1 .. WarMinimum
      BY DEF WarsOK
    <3>2. \A ab \in OrderedPairs : (IF warAge[ab] \in 0 .. WarMinimum - 1 THEN warAge[ab] + 1 ELSE warAge[ab])
                                   \in -1 .. WarMinimum
      BY <3>1, AllianceConstants
    <3> QED BY <1>2, <3>2 DEF Tick
  <2> QED BY <1>1, <1>2, <2>1 DEF Tick
<1>3. ASSUME NEW actor, NEW a \in Ids, NEW b \in Ids, a # b, EndWar(actor, a, b) PROVE WarsOK'
  <2>1. PICK none : none = [side \in 1 .. 2 |-> {}]
    OBVIOUS
  <2>2. none \in [1 .. 2 -> SUBSET Players]
    BY <2>1
  <2> QED BY <1>3, <2>1, <2>2, PeaceKeepsWars DEF EndWar
<1>4. ASSUME NEW actor, NEW a \in Ids, NEW b \in Ids, a # b, NEW status \in {"None", "Pact"},
             SetDiplomacy(actor, a, b, status)
      PROVE  WarsOK'
  <2>1. PICK none : none = [side \in 1 .. 2 |-> {}]
    OBVIOUS
  <2>2. none \in [1 .. 2 -> SUBSET Players]
    BY <2>1
  <2> QED BY <1>4, <2>2, PeaceKeepsWars DEF SetDiplomacy
<1>5. ASSUME NEW actor \in Players, NEW ab \in OrderedPairs, Diplomacy(actor, ab[1], ab[2]) PROVE WarsOK'
  <2>1. ab[1] \in Ids /\ ab[2] \in Ids /\ ab[1] # ab[2]
    BY DEF OrderedPairs
  <2> QED BY <1>3, <1>4, <1>5, <2>1, DeclarationFreezes DEF Diplomacy
<1>9. ASSUME ImportRelation PROVE WarsOK'
  <2>1. PICK ab \in OrderedPairs, status \in {"None", "Pact"} : ImportDiplomacy(ab[1], ab[2], status)
    BY <1>9 DEF ImportRelation
  <2>2. ab[1] \in Ids /\ ab[2] \in Ids /\ ab[1] # ab[2]
    BY DEF OrderedPairs
  <2>3. PICK none : none = [side \in 1 .. 2 |-> {}]
    OBVIOUS
  <2>4. none \in [1 .. 2 -> SUBSET Players]
    BY <2>3
  <2> QED BY <2>1, <2>2, <2>3, <2>4, PeaceKeepsWars DEF ImportDiplomacy
<1>6. ASSUME \/ \E p \in Players : \/ Buy(p) \/ Produce(p) \/ Collect(p)
                                   \/ AttackArrives(p) \/ BattleBegins(p) \/ BattleEnds(p)
             \/ \E p \in Players, a \in Ids : RequestJoin(p, a)
             \/ \E actor, p \in Players, a \in Ids :
                   InviteMember(actor, a, p) \/ CancelInvite(actor, a, p) \/ DropJoinRequest(actor, a, p)
             \/ UNCHANGED vars
      PROVE  UNCHANGED wars
  BY <1>6 DEF Buy, Produce, Collect, AttackArrives, BattleBegins, BattleEnds, RequestJoin, InviteMember,
              CancelInvite, DropJoinRequest, vars
<1>7. ASSUME RosterStep PROVE UNCHANGED wars
  BY <1>7, RosterSteps
<1>8. ASSUME UNCHANGED wars PROVE WarsOK'
  BY <1>1, <1>8 DEF wars, WarsOK
<1> QED BY <1>2, <1>5, <1>6, <1>7, <1>8, <1>9 DEF OtherStep

-----------------------------------------------------------------------------
(* The theorems *)

\* The invariant holds at first.
LEMMA InitInv == Init => Inv
<1> SUFFICES ASSUME Init PROVE Inv
  OBVIOUS
<1> USE DEF Init
<1>1. Listed(<<>>, [p \in Players |-> 0])
  <2>1. <<>> \in Seq(Players) /\ Len(<<>>) = 0
    BY EmptySeq
  <2> QED BY <2>1 DEF Listed
<1>2. RosterOK
  BY <1>1 DEF RosterOK, RosterLists, Alliance, Outsider, Roles, Ids, Listed
<1>3. RequestsOK
  BY <1>1 DEF RequestsOK, RequestLists, Listed
<1>4. WarsOK
  <2>1. WarMinimum \in Nat
    BY AllianceConstants
  <2>2. /\ diplomacy \in [OrderedPairs -> {"None", "Pact", "War"}]
        /\ warAge \in [OrderedPairs -> -1 .. WarMinimum]
        /\ warDeclarer \in [OrderedPairs -> {0} \cup Ids]
        /\ rosters \in [Pairs -> [1 .. 2 -> SUBSET Players]]
    BY <2>1
  <2>3. /\ snapshot \in [Pairs -> [number : Nat, tooStrong : BOOLEAN]]
        /\ frozen \in [Pairs -> [Players -> [number : Nat, side : 0 .. 2]]]
    BY DEF NoRecord
  <2>4. ASSUME NEW a \in Ids, NEW b \in Ids, a < b PROVE WarOK(a, b)
    <3>1. <<a, b>> \in Pairs /\ <<a, b>> \in OrderedPairs /\ <<b, a>> \in OrderedPairs
      BY <2>4 DEF Pairs, OrderedPairs, Ids
    <3>2. ~AtWar(a, b)
      BY <3>1 DEF AtWar
    <3>3. \A p \in Players : frozen[<<a, b>>][p].number = 0 /\ snapshot[<<a, b>>].number = 0
      BY <3>1 DEF NoRecord
    <3>4. ASSUME NEW p \in Players PROVE frozen[<<a, b>>][p].number <= snapshot[<<a, b>>].number
      <4>1. PICK m, n : m = frozen[<<a, b>>][p].number /\ n = snapshot[<<a, b>>].number
        OBVIOUS
      <4>2. m = 0 /\ n = 0
        BY <3>3, <4>1
      <4> HIDE DEF Init
      <4>3. m <= n
        BY <4>2
      <4> QED BY <4>1, <4>3
    <3> QED BY <3>2, <3>4 DEF WarOK
  <2> QED BY <2>2, <2>3, <2>4 DEF WarsOK
<1>5. BonusOK
  <2>1. bought \in 0 .. MaxPaid
    BY AllianceConstants
  <2> QED BY <2>1 DEF BonusOK
<1> QED BY <1>2, <1>3, <1>4, <1>5 DEF Inv

\* Every step keeps the invariant.
LEMMA InvStep == Inv /\ [Next]_vars => Inv'
<1> SUFFICES ASSUME Inv, [Next]_vars PROVE Inv'
  OBVIOUS
<1>1. RosterStep \/ OtherStep
  BY StepCases
<1>2. RosterOK'
  BY <1>1, RosterSteps, OthersKeepRoster, RosterKept DEF Inv
<1> QED BY <1>1, <1>2, RequestStep, WarStep, BonusAfterRoster, BonusAfterOther DEF Inv

\* Rosters, requests, wars and the bonus fit together in every state.
THEOREM Invariant == Spec => []Inv
BY InitInv, InvStep, PTL DEF Spec

\* Every variable keeps its type, and the lists have no repetitions.
THEOREM Types == Spec => []TypeOK
<1>1. ASSUME Inv PROVE TypeOK
  <2>1. memberList \in [Ids -> Uniques] /\ memberIndex \in [Ids -> [Players -> Nat]]
    <3>1. \A a \in Ids : memberList[a] \in Uniques
      BY <1>1, ListedPlaces DEF Inv, RosterOK
    <3> QED BY <1>1, <3>1 DEF Inv, RosterOK, RosterLists
  <2>2. requestList \in [Ids -> Uniques] /\ requestIndex \in [Ids -> [Players -> Nat]]
    <3>1. \A a \in Ids : requestList[a] \in Uniques
      BY <1>1, ListedPlaces DEF Inv, RequestsOK
    <3> QED BY <1>1, <3>1 DEF Inv, RequestsOK, RequestLists
  <2>3. paid \in [Ids -> 0 .. MaxPaid]
    BY <1>1, AllianceConstants DEF Inv, BonusOK
  <2> QED BY <1>1, <2>1, <2>2, <2>3 DEF Inv, RosterOK, RequestsOK, WarsOK, BonusOK, TypeOK
<1> QED BY <1>1, Invariant, PTL

\* The four books of every roster and the three of its join requests agree,
\* whatever the order of joins, removals, transfers and imports.
THEOREM BooksAgree == Spec => []RostersAgree
<1>1. ASSUME Inv PROVE RostersAgree
  <2>1. ASSUME NEW a \in Ids
        PROVE  /\ Places(memberList[a], memberIndex[a]) /\ profile[a].count = Len(memberList[a])
               /\ ToSet(memberList[a]) = {p \in Players : In(p, a)}
    <3>1. Listed(memberList[a], memberIndex[a]) /\ profile[a].count = Len(memberList[a]) /\ a # 0
      BY <1>1 DEF Inv, RosterOK, Ids
    <3>2. Places(memberList[a], memberIndex[a])
      BY <3>1, ListedPlaces
    <3>3. ToSet(memberList[a]) = {p \in Players : Alliance(p) = a}
      BY <1>1, MembersOf DEF Inv
    <3> QED BY <3>1, <3>2, <3>3 DEF Alliance, In
  <2>2. ASSUME NEW a \in Ids
        PROVE  /\ Places(requestList[a], requestIndex[a])
               /\ ToSet(requestList[a]) = {p \in Players : <<p, a>> \in requested}
    <3>1. /\ Listed(requestList[a], requestIndex[a])
          /\ \A p \in Players : requestIndex[a][p] # 0 <=> <<p, a>> \in requested
      BY <1>1 DEF Inv, RequestsOK
    <3>2. /\ Places(requestList[a], requestIndex[a])
          /\ ToSet(requestList[a]) = {p \in Players : requestIndex[a][p] # 0}
      BY <3>1, ListedPlaces
    <3> QED BY <3>1, <3>2
  <2>3. \A p \in Players : membership[p].role = "Owner" => profile[membership[p].alliance].owner = p
    BY <1>1 DEF Inv, RosterOK, Alliance
  <2> QED BY <2>1, <2>2, <2>3 DEF RostersAgree
<1> QED BY <1>1, Invariant, PTL

\* The exceptions of a war are for those whom its declaration found in the two
\* alliances and who are in them now, whatever wars and moves came between.
THEOREM ExceptionsAreFrozen == Spec => []WarExceptionsAreFrozen
<1>1. ASSUME Inv PROVE WarExceptionsAreFrozen
  <2> SUFFICES ASSUME NEW ab \in OrderedPairs, NEW p \in Players, NEW q \in Players,
                      In(p, ab[1]), In(q, ab[2]), AtWar(ab[1], ab[2])
               PROVE  LET declarer == warDeclarer[ab]
                          then(x, c) == x \in rosters[Key(ab[1], ab[2])][IF c = declarer THEN 1 ELSE 2]
                      IN  WarException(p, q) <=>
                              /\ then(p, ab[1]) /\ then(q, ab[2])
                              /\ snapshot[Key(ab[1], ab[2])].tooStrong => ab[2] = declarer
    BY DEF WarExceptionsAreFrozen
  <2>1. PICK a \in Ids, b \in Ids : ab = <<a, b>> /\ a = ab[1] /\ b = ab[2] /\ a # b
    BY DEF OrderedPairs
  <2>2. PICK key, d : key = Key(a, b) /\ d = warDeclarer[<<a, b>>]
    OBVIOUS
  <2>3. membership[p].alliance = a /\ membership[q].alliance = b /\ AtWar(a, b) /\ AtWar(b, a)
    BY <2>1 DEF In, AtWar
  <2>4. /\ snapshot[key].number # 0 /\ d \in {a, b}
        /\ \A x \in Players, side \in 1 .. 2 :
              x \in rosters[key][side] <=> frozen[key][x] = [number |-> snapshot[key].number, side |-> side]
    <3>1. CASE key = <<a, b>> /\ a < b
      <4>1. WarOK(a, b)
        BY <1>1, <3>1 DEF Inv, WarsOK
      <4> QED BY <2>2, <2>3, <3>1, <4>1 DEF WarOK
    <3>2. CASE key = <<b, a>> /\ b < a
      <4>1. WarOK(b, a)
        BY <1>1, <3>2 DEF Inv, WarsOK
      <4> QED BY <2>2, <2>3, <3>2, <4>1 DEF WarOK
    <3> QED BY <2>1, <2>2, <3>1, <3>2, KeyOfPair
  <2>5. d # 0
    BY <2>4 DEF Ids
  <2>6. WarException(p, q) <=>
           /\ frozen[key][p] = [number |-> snapshot[key].number, side |-> IF a = d THEN 1 ELSE 2]
           /\ frozen[key][q] = [number |-> snapshot[key].number, side |-> IF b = d THEN 1 ELSE 2]
           /\ snapshot[key].tooStrong => b = d
    BY <2>2, <2>3, <2>4, <2>5 DEF WarException
  <2>7. /\ p \in rosters[key][IF a = d THEN 1 ELSE 2] <=>
              frozen[key][p] = [number |-> snapshot[key].number, side |-> IF a = d THEN 1 ELSE 2]
        /\ q \in rosters[key][IF b = d THEN 1 ELSE 2] <=>
              frozen[key][q] = [number |-> snapshot[key].number, side |-> IF b = d THEN 1 ELSE 2]
    BY <2>4
  <2> QED BY <2>1, <2>2, <2>6, <2>7
<1> QED BY <1>1, Invariant, PTL

\* Unsettled production was made under the membership it will be judged by,
\* unless an attack that waits for its battle holds it back.
THEOREM BonusIsByMembership == Spec => []BonusFollowsMembership
<1>1. ASSUME Inv PROVE BonusFollowsMembership
  BY <1>1 DEF Inv, BonusOK, BonusFollowsMembership
<1> QED BY <1>1, Invariant, PTL

=============================================================================
