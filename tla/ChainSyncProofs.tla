--------------------------- MODULE ChainSyncProofs ---------------------------
(***************************************************************************)
(* What the indexer serves as safe is what the chain of its watermark      *)
(* holds, for any logs, any overlap and any number of blocks and faults.   *)
(***************************************************************************)
EXTENDS ChainSync, SequenceTheorems, WellFoundedInduction, TLAPS

(* The inductive invariant.                                                *)

Held(hash, l) == blocks[hash].holds[l]
Block(hash) == hash \in DOMAIN blocks

\* A path leads to its block over blocks with the beginnings of that path, and
\* the logs of a block are those of the blocks on its path.
PathOK(h) ==
    /\ Height(h) \in 1 .. h /\ HashAt(h, Height(h)) = h
    /\ \A i \in 1 .. Height(h) :
          /\ Block(HashAt(h, i)) /\ Height(HashAt(h, i)) = i
          /\ \A j \in 1 .. i : HashAt(HashAt(h, i), j) = HashAt(h, j)
          /\ \A l \in Logs : Held(HashAt(h, i), l) =
                IF Held(h, l) = 0 \/ Height(Held(h, l)) > i THEN 0 ELSE Held(h, l)
    /\ \A l \in Logs : Held(h, l) # 0 =>
          /\ Block(Held(h, l)) /\ Height(Held(h, l)) \in 1 .. Height(h)
          /\ HashAt(h, Height(Held(h, l))) = Held(h, l)

\* No block is higher than the tip, and all that are as high have the same
\* blocks below the overlap.
ChainOK ==
    /\ \A h \in DOMAIN blocks : PathOK(h) /\ Height(h) <= Height(tip)
    /\ \A h \in DOMAIN blocks : Height(h) = Height(tip) =>
          \A i \in 1 .. Height(tip) - Overlap : HashAt(h, i) = HashAt(tip, i)

\* A log whose removal is still to be told, and not late, has no place below
\* the overlap.
NoticesOK ==
    \A n \in notices \cup removals :
        /\ Block(n[2])
        /\ n[1] \notin late /\ Held(tip, n[1]) # 0 => Height(Held(tip, n[1])) > Height(tip) - Overlap

RowsOK ==
    /\ latest <= Height(tip) /\ cursor <= Height(tip)
    /\ \A l \in Logs : IF rows[l].hash = 0 THEN rows[l] = NoRow
                       ELSE Block(rows[l].hash) /\ Height(rows[l].hash) <= latest
    /\ \A l \in handled : rows[l] # NoRow /\ (l \in Restored => Live(l))
    /\ \A l \in OtherLogs : Live(l) =>
          \/ Held(tip, l) = rows[l].hash
          \/ <<l, rows[l].hash>> \in notices \cup removals \cup missed

\* The highest block that was scanned, as far as is known.
Scanned == IF cursor = -1 THEN latest ELSE cursor

\* Below the overlap with what was scanned, the ledger is the chain.
SettledOK ==
    /\ latest <= Scanned
    /\ \A l \in GameLogs : Live(l) =>
          /\ Height(rows[l].hash) <= Scanned - Overlap => Held(tip, l) = rows[l].hash
          /\ Held(tip, l) # 0 /\ Height(Held(tip, l)) <= Scanned - Overlap => rows[l].hash = Held(tip, l)
    /\ \A l \in Logs : Held(tip, l) # 0 /\ Height(Held(tip, l)) <= Scanned - Overlap =>
          rows[l] # NoRow /\ (l \in Restored \ late => Live(l))

\* The ledger shows the logs of this block's chain.
Shows(h) ==
    /\ \A l \in GameLogs : Live(l) => Held(h, l) = rows[l].hash
    /\ \A l \in Logs : Held(h, l) # 0 => rows[l] # NoRow /\ (l \in Restored \ late => Live(l))

PassOK ==
    /\ pass.at \notin {"idle", "head"} => Block(pass.head)
    /\ pass.at \in {"fetch", "commit"} =>
          cursor # -1 /\ pass.from = FirstBlock(Height(pass.head), cursor)
    /\ pass.at = "commit" /\ SameHead =>
          pass.logs = {<<l, Held(pass.head, l)>> : l \in {k \in Logs :
              Held(pass.head, k) # 0 /\ Height(Held(pass.head, k)) >= pass.from}}
    /\ pass.at \in {"repair", "publish"} /\ pending # "reorg" /\ latest <= Height(pass.head) =>
          Shows(pass.head)
    /\ pass.at = "publish" => repairs = {}

\* A removed completion is repaired or will be.
RepairsOK ==
    verified \/ pass.at \in {"repair", "publish"} =>
        \A l \in Completions : rows[l].removed => rows[l].repaired \/ l \in repairs

Told(l, hash) == <<l, hash>> \in notices \cup removals \cup missed

AnchorOK ==
    Stands =>
        /\ Block(watermark.hash)
        /\ watermark.current /\ pending # "reorg" =>
              /\ Shows(watermark.hash)
              /\ \A l \in OtherLogs : Live(l) =>
                    Held(watermark.hash, l) = rows[l].hash \/ Told(l, rows[l].hash)
              /\ \A l \in Completions : rows[l].removed => rows[l].repaired

Inv ==
    /\ TypeOK /\ ChainOK /\ NoticesOK /\ RowsOK /\ (pending # "reorg" => SettledOK)
    /\ PassOK /\ RepairsOK /\ AnchorOK

-----------------------------------------------------------------------------
(* Lemmas about the operators.                                             *)

\* The least of a set of numbers.
LEMMA MinOfNumbers ==
    ASSUME NEW S, S \subseteq Nat, S # {}
    PROVE  \E m \in S : \A n \in S : m <= n
<1> DEFINE Less == {ss \in Nat \X Nat : ss[1] < ss[2]}
<1>1. PICK m \in S : \A n \in S : ~ (<<n, m>> \in Less)
  <2>1. OpToRel(<, Nat) = Less
    BY Zenon DEF OpToRel
  <2>2. IsWellFoundedOn(Less, Nat)
    BY <2>1, NatLessThanWellFounded, Zenon
  <2> HIDE DEF Less
  <2> QED BY <2>2, WFMin, Zenon
<1>2. ASSUME NEW n \in S PROVE m <= n
  <2>1. m \in Nat /\ n \in Nat /\ <<n, m>> \in Nat \X Nat
    OBVIOUS
  <2> QED BY <1>1, <2>1
<1> QED BY <1>2

\* A bounded set of numbers has a greatest one.
LEMMA MaxOfBounded ==
    ASSUME NEW S, S \subseteq Nat, S # {}, NEW b \in Nat, \A n \in S : n <= b
    PROVE  Max(S) \in S /\ Max(S) \in Nat /\ \A n \in S : n <= Max(S)
<1> DEFINE Bounds == {c \in Nat : \A n \in S : n <= c}
<1>1. b \in Bounds /\ Bounds \subseteq Nat
  OBVIOUS
<1>2. PICK c \in Bounds : \A d \in Bounds : c <= d
  BY <1>1, MinOfNumbers
<1>3. c \in S
  <2>1. SUFFICES ASSUME c \notin S PROVE FALSE
    OBVIOUS
  <2>2. \A n \in S : n <= c - 1
    BY <1>2, <2>1
  <2>3. c - 1 \in Nat
    <3>1. PICK n \in S : n \in Nat
      OBVIOUS
    <3> QED BY <1>2, <2>2, <3>1
  <2>4. c - 1 \in Bounds
    BY <2>2, <2>3
  <2> QED BY <1>2, <2>4
<1>4. \E x \in S : \A y \in S : x >= y
  BY <1>2, <1>3
<1> QED BY <1>4 DEF Max

\* A member that no other exceeds is the greatest.
LEMMA MaxIs ==
    ASSUME NEW S, S \subseteq Nat, NEW m \in S, \A n \in S : n <= m
    PROVE  Max(S) = m
<1>1. \A x \in S : (\A y \in S : x >= y) => x = m
  OBVIOUS
<1>2. \A y \in S : m >= y
  OBVIOUS
<1> QED BY <1>1, <1>2 DEF Max

\* The least and the greatest of two numbers.
LEMMA OfTwo ==
    ASSUME NEW a \in Int, NEW b \in Int
    PROVE  /\ Max({a, b}) = IF a >= b THEN a ELSE b
           /\ Min({a, b}) = IF a <= b THEN a ELSE b
<1>1. \E x \in {a, b} : \A y \in {a, b} : x >= y
  OBVIOUS
<1>2. \E x \in {a, b} : \A y \in {a, b} : x <= y
  OBVIOUS
<1> QED BY <1>1, <1>2 DEF Max, Min

\* A list that is given by its entries.
LEMMA ListOfEntries ==
    ASSUME NEW S, NEW n \in Nat, NEW f, f \in [1 .. n -> S]
    PROVE  f \in Seq(S) /\ Len(f) = n
  OBVIOUS

\* Two lists one after the other.
LEMMA Joined ==
    ASSUME NEW S, NEW s \in Seq(S), NEW t \in Seq(S), NEW u, u = s \o t
    PROVE  /\ u \in Seq(S) /\ Len(u) = Len(s) + Len(t)
           /\ \A i \in 1 .. Len(s) + Len(t) : u[i] = IF i <= Len(s) THEN s[i] ELSE t[i - Len(s)]
  BY ConcatProperties, Zenon

-----------------------------------------------------------------------------
(* The chain.                                                              *)

\* Blocks are numbered, with a list of hashes and a hash or none for each log.
LEMMA BlockTypes ==
    ASSUME TypeOK
    PROVE  /\ Len(blocks) \in Nat \ {0} /\ DOMAIN blocks = 1 .. Len(blocks) /\ Block(tip)
           /\ Len(blocks) <= MaxBlocks /\ MaxBlocks \in Nat
           /\ blocks \in Seq([path : Seq(Hashes), holds : [Logs -> Hashes]])
           /\ \A h : Block(h) =>
                 /\ h \in Nat \ {0} /\ h \in Hashes
                 /\ blocks[h] \in [path : Seq(Hashes), holds : [Logs -> Hashes]]
                 /\ Height(h) \in Nat
                 /\ \A l \in Logs : Held(h, l) \in Hashes
<1>1. /\ Len(blocks) \in 1 .. MaxBlocks /\ tip \in DOMAIN blocks
      /\ blocks \in Seq([path : Seq(Hashes), holds : [Logs -> Hashes]])
  BY DEF TypeOK
<1>2. MaxBlocks \in Nat
  BY ChainSyncConstants
<1>3. DOMAIN blocks = 1 .. Len(blocks)
  BY <1>1, LenProperties
<1>4. ASSUME NEW h, Block(h)
      PROVE  /\ h \in Nat \ {0} /\ h \in Hashes
             /\ blocks[h] \in [path : Seq(Hashes), holds : [Logs -> Hashes]]
             /\ Height(h) \in Nat
             /\ \A l \in Logs : Held(h, l) \in Hashes
  <2>1. h \in 1 .. Len(blocks)
    BY <1>3, <1>4 DEF Block
  <2>2. blocks[h] \in [path : Seq(Hashes), holds : [Logs -> Hashes]]
    BY <1>1, <2>1, ElementOfSeq
  <2>3. h \in Nat \ {0} /\ h \in Hashes
    BY <1>1, <1>2, <2>1 DEF Hashes
  <2> QED BY <2>2, <2>3, LenProperties DEF Height, Held
<1> QED BY <1>1, <1>2, <1>3, <1>4 DEF Block

\* The tip is the highest block.
LEMMA TopIsTip ==
    ASSUME TypeOK, ChainOK
    PROVE  Top = Height(tip) /\ Height(tip) \in Nat
<1>1. PICK S : S = {Height(h) : h \in DOMAIN blocks}
  OBVIOUS
<1>2. Height(tip) \in S /\ Height(tip) \in Nat /\ S \subseteq Nat /\ \A n \in S : n <= Height(tip)
  BY <1>1, BlockTypes DEF Block, ChainOK
<1>3. Max(S) = Height(tip)
  BY <1>2, MaxIs
<1> QED BY <1>1, <1>2, <1>3 DEF Top

\* Blocks that agree at a height hold the same logs up to there.
LEMMA SamePlace ==
    ASSUME TypeOK, ChainOK, NEW g, NEW h, Block(g), Block(h), NEW i \in 1 .. Height(g), i <= Height(h),
           HashAt(g, i) = HashAt(h, i), NEW l \in Logs, Held(g, l) # 0, Height(Held(g, l)) <= i
    PROVE  Held(h, l) = Held(g, l)
<1>1. PICK a : a = HashAt(g, i)
  OBVIOUS
<1>2. Held(a, l) = IF Held(g, l) = 0 \/ Height(Held(g, l)) > i THEN 0 ELSE Held(g, l)
  BY <1>1 DEF ChainOK, PathOK, Block
<1>3. i \in 1 .. Height(h)
  BY BlockTypes
<1>4. Held(a, l) = IF Held(h, l) = 0 \/ Height(Held(h, l)) > i THEN 0 ELSE Held(h, l)
  BY <1>1, <1>3 DEF ChainOK, PathOK, Block
<1>5. Height(Held(g, l)) \in Nat
  BY BlockTypes DEF ChainOK, PathOK, Block
<1>6. Held(a, l) = Held(g, l)
  BY <1>2, <1>5
<1> QED BY <1>4, <1>6

\* The blocks stay.
Kept == \A h \in DOMAIN blocks : h \in DOMAIN blocks' /\ blocks'[h] = blocks[h]

\* What a branch adds: blocks over one another from a height of the tip's path
\* on, up to one that is the tip, each numbered d above its height, and with each
\* log in the block that it is placed in.
Grown(L, d, height, top, place) ==
    /\ top <= MaxBlocks /\ Len(blocks') = top /\ DOMAIN blocks' = 1 .. top /\ tip' = top
    /\ blocks' \in Seq([path : Seq(Hashes), holds : [Logs -> Hashes]])
    /\ Kept
    /\ \A b \in L + 1 .. top :
          /\ Height(b)' = b - d
          /\ \A j \in 1 .. b - d : HashAt(b, j)' = IF j <= height THEN HashAt(tip, j) ELSE j + d
          /\ \A l \in Logs : Held(b, l)' =
                IF place[l] \in L + 1 .. b THEN place[l] ELSE Held(HashAt(tip, height), l)

\* The sets of logs for n blocks, as the block that each log is in or 0.
Laid(parts, n, place) ==
    /\ parts \in Seq(SUBSET Logs) /\ Len(parts) = n /\ place \in [Logs -> 0 .. n]
    /\ \A l \in Logs : \A j \in 1 .. n : l \in parts[j] <=> place[l] = j

Numbered(L, place) == [l \in Logs |-> IF place[l] = 0 THEN 0 ELSE L + place[l]]

\* A branch with every log in one block at most is of this form.
LEMMA BranchGrows ==
    ASSUME TypeOK, ChainOK, NEW height \in 1 .. Height(tip), NEW n \in Nat \ {0}, NEW parts,
           NEW place, Laid(parts, n, place), Branch(height, parts), NEW L, L = Len(blocks),
           NEW d, d = L - height, NEW at, at = Numbered(L, place)
    PROVE  Grown(L, d, height, L + n, at)
<1>0. /\ parts \in Seq(SUBSET Logs) /\ Len(parts) = n /\ place \in [Logs -> 0 .. n]
      /\ \A l \in Logs : \A j \in 1 .. n : l \in parts[j] <=> place[l] = j
      /\ at = [l \in Logs |-> IF place[l] = 0 THEN 0 ELSE L + place[l]]
  BY DEF Laid, Numbered
<1> USE <1>0
<1> DEFINE Rec == [path : Seq(Hashes), holds : [Logs -> Hashes]]
<1>1. /\ L \in Nat \ {0} /\ DOMAIN blocks = 1 .. L /\ Block(tip) /\ blocks \in Seq(Rec)
      /\ blocks[tip].path \in Seq(Hashes) /\ Height(tip) \in Nat
  BY BlockTypes
<1>2. L + n <= MaxBlocks /\ MaxBlocks \in Nat
  <2>1. Budget \in Nat /\ faults \in Nat /\ MaxBlocks \in Nat
    BY ChainSyncConstants DEF TypeOK
  <2>2. Min({MaxBlocks, Budget - faults}) <= MaxBlocks /\ Min({MaxBlocks, Budget - faults}) \in Int
    <3>1. PICK left : left = Budget - faults /\ left \in Int
      BY <2>1
    <3>2. Min({MaxBlocks, left}) = IF MaxBlocks <= left THEN MaxBlocks ELSE left
      <4>1. MaxBlocks \in Int /\ left \in Int
        BY <2>1, <3>1
      <4> QED BY <4>1, OfTwo, Zenon
    <3> QED BY <2>1, <3>1, <3>2
  <2>3. L + n <= Min({MaxBlocks, Budget - faults})
    BY DEF Branch
  <2> QED BY <1>1, <2>1, <2>2, <2>3
<1>3. PICK base : base = SubSeq(blocks[tip].path, 1, height)
  OBVIOUS
<1>4. base \in Seq(Hashes) /\ Len(base) = height /\ \A j \in 1 .. height : base[j] = HashAt(tip, j)
  <2>1. \A j \in 1 .. height : blocks[tip].path[j] \in Hashes
    BY <1>1, ElementOfSeq DEF Height
  <2>3. 1 \in Int /\ height \in Int
    BY <1>1 DEF Height
  <2>2. /\ SubSeq(blocks[tip].path, 1, height) \in Seq(Hashes)
        /\ Len(SubSeq(blocks[tip].path, 1, height)) = IF 1 <= height THEN height - 1 + 1 ELSE 0
        /\ \A j \in 1 .. height - 1 + 1 : SubSeq(blocks[tip].path, 1, height)[j] = blocks[tip].path[1 + j - 1]
    BY <2>1, <2>3, SubSeqProperties, SMTT(30)
  <2> QED BY <1>3, <2>2 DEF HashAt
<1>5. PICK fork : fork = HashAt(tip, height)
  OBVIOUS
<1>6. Block(fork)
  BY <1>1, <1>5 DEF ChainOK, PathOK, Block
<1> DEFINE Above(i) == [j \in 1 .. i |-> L + j]
<1> DEFINE Path(i) == base \o Above(i)
<1> DEFINE Holds(i) == [l \in Logs |-> IF \E j \in 1 .. i : l \in parts[j]
                                       THEN L + (CHOOSE j \in 1 .. i : l \in parts[j])
                                       ELSE blocks[fork].holds[l]]
<1> DEFINE New == [i \in 1 .. n |-> [path |-> Path(i), holds |-> Holds(i)]]
<1>7. blocks' = blocks \o New /\ tip' = L + n
  BY <1>3, <1>5 DEF Branch
<1>8. ASSUME NEW i \in 1 .. n
      PROVE  /\ Path(i) \in Seq(Hashes) /\ Len(Path(i)) = height + i
             /\ \A j \in 1 .. height + i :
                   Path(i)[j] = IF j <= height THEN HashAt(tip, j) ELSE L + (j - height)
  <2>1. Above(i) \in [1 .. i -> Hashes] /\ i \in Nat
    BY <1>1, <1>2 DEF Hashes
  <2>2. Above(i) \in Seq(Hashes) /\ Len(Above(i)) = i
    BY <2>1, ListOfEntries
  <2>3. \A j \in 1 .. i : Above(i)[j] = L + j
    OBVIOUS
  <2>6. PICK t : t = Above(i)
    OBVIOUS
  <2>7. PICK u : u = base \o t
    OBVIOUS
  <2>8. u = Path(i) /\ t \in Seq(Hashes) /\ Len(t) = i /\ \A j \in 1 .. i : t[j] = L + j
    BY <2>2, <2>3, <2>6, <2>7
  <2> HIDE DEF Above, Path
  <2>4. /\ u \in Seq(Hashes) /\ Len(u) = height + i
        /\ \A j \in 1 .. height + i : u[j] = IF j <= height THEN base[j] ELSE t[j - height]
    <3>1. /\ u \in Seq(Hashes) /\ Len(u) = Len(base) + Len(t)
          /\ \A j \in 1 .. Len(base) + Len(t) : u[j] = IF j <= Len(base) THEN base[j] ELSE t[j - Len(base)]
      <4>1. base \in Seq(Hashes) /\ t \in Seq(Hashes) /\ u = base \o t
        BY <1>4, <2>7, <2>8
      <4> QED BY <4>1, Joined
    <3> QED BY <1>4, <2>8, <3>1
  <2>5. ASSUME NEW j \in 1 .. height + i
        PROVE  u[j] = IF j <= height THEN HashAt(tip, j) ELSE L + (j - height)
    <3>1. CASE j <= height
      BY <1>4, <2>4, <3>1
    <3>2. CASE ~ (j <= height)
      <4>1. j - height \in 1 .. i
        BY <3>2
      <4> QED BY <2>4, <2>8, <3>2, <4>1
    <3> QED BY <3>1, <3>2
  <2> QED BY <2>4, <2>5, <2>8
<1>9. ASSUME NEW i \in 1 .. n
      PROVE  /\ Holds(i) \in [Logs -> Hashes]
             /\ \A l \in Logs : Holds(i)[l] = IF place[l] \in 1 .. i THEN L + place[l] ELSE Held(fork, l)
  <2>1. ASSUME NEW l \in Logs
        PROVE  /\ Holds(i)[l] = IF place[l] \in 1 .. i THEN L + place[l] ELSE Held(fork, l)
               /\ Holds(i)[l] \in Hashes
    <3>1. \A j \in 1 .. i : l \in parts[j] <=> place[l] = j
      OBVIOUS
    <3>2. CASE place[l] \in 1 .. i
      <4>1. (CHOOSE j \in 1 .. i : l \in parts[j]) = place[l]
        BY <3>1, <3>2
      <4>2. \E j \in 1 .. i : l \in parts[j]
        BY <3>1, <3>2
      <4>3. L + place[l] \in Hashes
        BY <1>1, <1>2, <3>2 DEF Hashes
      <4> QED BY <3>2, <4>1, <4>2, <4>3
    <3>3. CASE place[l] \notin 1 .. i
      <4>1. ~ \E j \in 1 .. i : l \in parts[j]
        BY <3>1, <3>3
      <4>2. Held(fork, l) \in Hashes
        BY <1>6, BlockTypes
      <4> QED BY <3>3, <4>1, <4>2 DEF Held
    <3> QED BY <3>2, <3>3
  <2> QED BY <2>1
<1> HIDE DEF Path, Holds
<1>10. New \in [1 .. n -> Rec]
  BY <1>8, <1>9
<1>11. New \in Seq(Rec) /\ Len(New) = n /\ \A i \in 1 .. n : New[i] = [path |-> Path(i), holds |-> Holds(i)]
  <2>1. \A i \in 1 .. n : New[i] = [path |-> Path(i), holds |-> Holds(i)]
    OBVIOUS
  <2> HIDE DEF New
  <2>2. New \in Seq(Rec) /\ Len(New) = n
    <3>1. New \in [1 .. n -> Rec] /\ n \in Nat
      BY <1>10
    <3> HIDE DEF Rec
    <3> QED BY <3>1, ListOfEntries
  <2> QED BY <2>1, <2>2
<1> HIDE DEF New, Rec
<1>12. /\ blocks \o New \in Seq(Rec) /\ Len(blocks \o New) = L + n
       /\ \A i \in 1 .. L + n : (blocks \o New)[i] = IF i <= L THEN blocks[i] ELSE New[i - L]
  <2>1. PICK N, U : N = New /\ U = blocks \o N
    OBVIOUS
  <2>2. N \in Seq(Rec) /\ Len(N) = n
    BY <1>11, <2>1
  <2>3. /\ U \in Seq(Rec) /\ Len(U) = Len(blocks) + Len(N)
        /\ \A i \in 1 .. Len(blocks) + Len(N) :
              U[i] = IF i <= Len(blocks) THEN blocks[i] ELSE N[i - Len(blocks)]
    <3>1. blocks \in Seq(Rec) /\ N \in Seq(Rec) /\ U = blocks \o N
      BY <1>1, <2>1, <2>2
    <3> QED BY <3>1, Joined
  <2> QED BY <2>1, <2>2, <2>3
<1>13. Len(blocks') = L + n /\ DOMAIN blocks' = 1 .. L + n /\ blocks' \in Seq(Rec)
  BY <1>7, <1>12, LenProperties
<1>14. \A h \in DOMAIN blocks : h \in DOMAIN blocks' /\ blocks'[h] = blocks[h]
  BY <1>1, <1>7, <1>12, <1>13
<1>15. ASSUME NEW i \in 1 .. n PROVE blocks'[L + i].path = Path(i) /\ blocks'[L + i].holds = Holds(i)
  <2>1. L + i \in 1 .. L + n /\ ~ (L + i <= L) /\ L + i - L = i
    BY <1>1
  <2>2. blocks'[L + i] = New[i]
    BY <1>7, <1>12, <2>1
  <2> QED BY <1>11, <2>2
<1>16. ASSUME NEW i \in 1 .. n
       PROVE  /\ Height(L + i)' = height + i
              /\ \A j \in 1 .. height + i :
                    HashAt(L + i, j)' = IF j <= height THEN HashAt(tip, j) ELSE L + (j - height)
              /\ \A l \in Logs : Held(L + i, l)' = IF place[l] \in 1 .. i THEN L + place[l] ELSE Held(fork, l)
  <2>1. PICK h, path, holds : h = L + i /\ path = Path(i) /\ holds = Holds(i)
    OBVIOUS
  <2>2. blocks'[h].path = path /\ blocks'[h].holds = holds
    BY <1>15, <2>1
  <2>3. Height(h)' = Len(path) /\ \A j : HashAt(h, j)' = path[j] /\ \A l : Held(h, l)' = holds[l]
    BY <2>2 DEF Height, HashAt, Held
  <2> QED BY <1>8, <1>9, <2>1, <2>3, ZenonT(40)
<1> HIDE <1>0
<1>17. ASSUME NEW b \in L + 1 .. L + n
       PROVE  /\ Height(b)' = b - d
              /\ \A j \in 1 .. b - d : HashAt(b, j)' = IF j <= height THEN HashAt(tip, j) ELSE j + d
              /\ \A l \in Logs : Held(b, l)' =
                    IF at[l] \in L + 1 .. b THEN at[l] ELSE Held(HashAt(tip, height), l)
  <2>1. PICK i : i = b - L
    OBVIOUS
  <2>6. height \in Int /\ L \in Int /\ n \in Int /\ b \in Int /\ b >= L + 1 /\ b <= L + n
    BY <1>1
  <2>7. i \in 1 .. n /\ L + i = b
    BY <2>1, <2>6
  <2>8. d \in Int /\ height + d = L
    BY <2>6
  <2>2. i \in 1 .. n /\ L + i = b /\ height + i = b - d /\ height + d = L /\ d \in Int
    BY <2>6, <2>7, <2>8
  <2>3. /\ Height(b)' = b - d
        /\ \A j \in 1 .. b - d : HashAt(b, j)' = IF j <= height THEN HashAt(tip, j) ELSE L + (j - height)
        /\ \A l \in Logs : Held(b, l)' = IF place[l] \in 1 .. i THEN L + place[l] ELSE Held(fork, l)
    BY <1>16, <2>2, ZenonT(40)
  <2>4. \A j \in Int : L + (j - height) = j + d
    BY <1>1
  <2>9. \A j \in 1 .. b - d : HashAt(b, j)' = IF j <= height THEN HashAt(tip, j) ELSE j + d
    BY <2>2, <2>3, <2>4
  <2>10. \A l \in Logs : Held(b, l)' = IF at[l] \in L + 1 .. b THEN at[l] ELSE Held(fork, l)
    <3>1. ASSUME NEW l \in Logs PROVE Held(b, l)' = IF at[l] \in L + 1 .. b THEN at[l] ELSE Held(fork, l)
      <4>1. Held(b, l)' = IF place[l] \in 1 .. i THEN L + place[l] ELSE Held(fork, l)
        BY <2>3
      <4>2. CASE place[l] \in 1 .. i
        <5>1. at[l] = L + place[l] /\ at[l] \in L + 1 .. b
          BY <1>0, <1>1, <2>2, <4>2
        <5>2. Held(b, l)' = at[l]
          BY <4>1, <4>2, <5>1
        <5> QED BY <5>1, <5>2
      <4>3. CASE place[l] \notin 1 .. i
        <5>1. ~ (at[l] \in L + 1 .. b)
          BY <1>0, <1>1, <2>2, <4>3
        <5> QED BY <4>1, <4>3, <5>1
      <4> QED BY <4>2, <4>3
    <3> QED BY <3>1
  <2> QED BY <1>5, <2>3, <2>9, <2>10
<1> QED BY <1>2, <1>7, <1>13, <1>14, <1>17 DEF Rec, Grown, Kept

\* What is known of a block stays.
LEMMA KeptBlock ==
    ASSUME Kept, NEW h, Block(h)
    PROVE  /\ Block(h)' /\ Height(h)' = Height(h)
           /\ \A i : HashAt(h, i)' = HashAt(h, i)
           /\ \A l : Held(h, l)' = Held(h, l)
  BY DEF Kept, Block, Height, HashAt, Held

\* And its path.
LEMMA KeptPath ==
    ASSUME Kept, TypeOK, NEW h, Block(h), PathOK(h)
    PROVE  PathOK(h)'
<1>1. /\ Height(h)' = Height(h) /\ \A i : HashAt(h, i)' = HashAt(h, i)
      /\ \A l : Held(h, l)' = Held(h, l)
  BY KeptBlock
<1>2. Height(h)' \in 1 .. h /\ HashAt(h, Height(h))' = h
  BY <1>1 DEF PathOK, HashAt, Height
<1>3. ASSUME NEW i \in 1 .. Height(h)
      PROVE  /\ Block(HashAt(h, i))' /\ Height(HashAt(h, i))' = i
             /\ \A j \in 1 .. i : HashAt(HashAt(h, i), j)' = HashAt(h, j)'
             /\ \A l \in Logs : Held(HashAt(h, i), l)' =
                   IF Held(h, l)' = 0 \/ Height(Held(h, l))' > i THEN 0 ELSE Held(h, l)'
  <2>1. PICK a : a = HashAt(h, i)
    OBVIOUS
  <2>2. /\ Block(a) /\ Height(a) = i /\ \A j \in 1 .. i : HashAt(a, j) = HashAt(h, j)
        /\ \A l \in Logs : Held(a, l) =
              IF Held(h, l) = 0 \/ Height(Held(h, l)) > i THEN 0 ELSE Held(h, l)
    BY <2>1 DEF PathOK
  <2>3. /\ Block(a)' /\ Height(a)' = i /\ \A j : HashAt(a, j)' = HashAt(a, j)
        /\ \A l : Held(a, l)' = Held(a, l)
    BY <2>2, KeptBlock
  <2>4. HashAt(h, i)' = a
    BY <1>1, <2>1
  <2>5. \A l \in Logs : Held(h, l) # 0 => Height(Held(h, l))' = Height(Held(h, l))
    BY <1>1, KeptBlock DEF PathOK
  <2> QED BY <1>1, <2>2, <2>3, <2>4, <2>5
<1>4. ASSUME NEW l \in Logs, Held(h, l)' # 0
      PROVE  /\ Block(Held(h, l))' /\ Height(Held(h, l))' \in 1 .. Height(h)'
             /\ HashAt(h, Height(Held(h, l)))' = Held(h, l)'
  <2>1. PICK p : p = Held(h, l)
    OBVIOUS
  <2>2. Block(p) /\ Height(p) \in 1 .. Height(h) /\ HashAt(h, Height(p)) = p
    BY <1>1, <1>4, <2>1 DEF PathOK
  <2>3. Block(p)' /\ Height(p)' = Height(p) /\ p = Held(h, l)'
    BY <1>1, <2>1, <2>2, KeptBlock
  <2> QED BY <1>1, <2>2, <2>3
<1> QED BY <1>1, <1>2, <1>3, <1>4 DEF PathOK

\* So are the paths of the blocks that a branch adds, if what it places has no
\* place below.
LEMMA GrownPath ==
    ASSUME TypeOK, ChainOK, NEW height \in 1 .. Height(tip), NEW d \in Int, NEW L, L = Len(blocks),
           height + d = L, NEW top \in Nat, NEW place \in [Logs -> {0} \cup L + 1 .. top],
           Grown(L, d, height, top, place),
           \A l \in Logs : place[l] # 0 => Held(HashAt(tip, height), l) = 0,
           NEW h \in L + 1 .. top
    PROVE  PathOK(h)'
<1>1. /\ L \in Nat \ {0} /\ Block(tip) /\ Height(tip) \in Nat /\ tip <= L
      /\ \A b : Block(b) <=> b \in 1 .. L
  BY BlockTypes DEF Block
<1>2. PICK fork : fork = HashAt(tip, height)
  OBVIOUS
<1>3. /\ Block(fork) /\ Height(fork) = height /\ PathOK(fork)
      /\ \A j \in 1 .. height : HashAt(fork, j) = HashAt(tip, j)
  BY <1>1, <1>2 DEF ChainOK, PathOK, Block
<1>4. Kept
  BY DEF Grown
<1>5. \A b \in L + 1 .. top :
         /\ Block(b)' /\ Height(b)' = b - d
         /\ \A j \in 1 .. b - d : HashAt(b, j)' = IF j <= height THEN HashAt(tip, j) ELSE j + d
         /\ \A l \in Logs : Held(b, l)' = IF place[l] \in L + 1 .. b THEN place[l] ELSE Held(fork, l)
  BY <1>1, <1>2 DEF Grown, Block
<1>6. /\ Height(h)' = h - d
      /\ \A j \in 1 .. h - d : HashAt(h, j)' = IF j <= height THEN HashAt(tip, j) ELSE j + d
      /\ \A l \in Logs : Held(h, l)' = IF place[l] \in L + 1 .. h THEN place[l] ELSE Held(fork, l)
  BY <1>5
<1>7. /\ height <= L /\ d \in Nat /\ h - d > height /\ h - d \in Nat
  <2>1. Height(tip) <= tip
    BY <1>1 DEF ChainOK, PathOK, Block
  <2> QED BY <1>1, <2>1
<1>8. Height(h)' \in 1 .. h /\ HashAt(h, Height(h))' = h
  <2>1. PICK m : m = h - d
    OBVIOUS
  <2>2. m \in 1 .. h /\ m \in 1 .. h - d /\ ~ (m <= height) /\ m + d = h
    BY <1>1, <1>7, <2>1
  <2>3. HashAt(h, m)' = h /\ Height(h)' = m
    BY <1>6, <2>1, <2>2
  <2> QED BY <2>2, <2>3
<1>9. \A l \in Logs : \A p : p = Held(fork, l) /\ p # 0 =>
         /\ Block(p)' /\ Height(p)' \in 1 .. height /\ Height(p)' = Height(p)
         /\ HashAt(fork, Height(p)) = p
  BY <1>3, <1>4, KeptBlock DEF PathOK
<1>10. ASSUME NEW j \in 1 .. h - d
       PROVE  /\ Block(HashAt(h, j))' /\ Height(HashAt(h, j))' = j
              /\ \A k \in 1 .. j : HashAt(HashAt(h, j), k)' = HashAt(h, k)'
              /\ \A l \in Logs : Held(HashAt(h, j), l)' =
                    IF Held(h, l)' = 0 \/ Height(Held(h, l))' > j THEN 0 ELSE Held(h, l)'
  <2>1. PICK a : a = HashAt(h, j)'
    OBVIOUS
  <2>2. CASE j <= height
    <3>1. a = HashAt(tip, j) /\ a = HashAt(fork, j) /\ j \in 1 .. height
      BY <1>3, <1>6, <2>1, <2>2
    <3>2. /\ Block(a) /\ Height(a) = j /\ \A k \in 1 .. j : HashAt(a, k) = HashAt(fork, k)
          /\ \A l \in Logs : Held(a, l) =
                IF Held(fork, l) = 0 \/ Height(Held(fork, l)) > j THEN 0 ELSE Held(fork, l)
      BY <1>3, <3>1 DEF PathOK
    <3>3. /\ Block(a)' /\ Height(a)' = j /\ \A k : HashAt(a, k)' = HashAt(a, k)
          /\ \A l : Held(a, l)' = Held(a, l)
      BY <1>4, <3>2, KeptBlock
    <3>4. \A k \in 1 .. j : HashAt(a, k)' = HashAt(h, k)'
      BY <1>3, <1>6, <2>2, <3>2, <3>3
    <3>5. ASSUME NEW l \in Logs
          PROVE  Held(a, l)' = IF Held(h, l)' = 0 \/ Height(Held(h, l))' > j THEN 0 ELSE Held(h, l)'
      <4>1. CASE place[l] \in L + 1 .. h
        <5>1. PICK b \in L + 1 .. top : place[l] = b /\ b <= h
          BY <4>1
        <5>2. Held(h, l)' = b /\ Height(b)' = b - d /\ b - d > height
          BY <1>1, <1>5, <1>6, <4>1, <5>1, SMTT(30)
        <5>3. Held(fork, l) = 0
          BY <1>1, <1>2, <5>1
        <5> QED BY <2>2, <3>2, <3>3, <5>2, <5>3
      <4>2. CASE place[l] \notin L + 1 .. h
        <5>1. PICK p : p = Held(fork, l)
          OBVIOUS
        <5>2. Held(h, l)' = p
          BY <1>6, <4>2, <5>1
        <5>3. Held(a, l)' = IF p = 0 \/ Height(p) > j THEN 0 ELSE p
          BY <3>2, <3>3, <5>1
        <5> QED BY <1>9, <5>1, <5>2, <5>3
      <4> QED BY <4>1, <4>2
    <3> QED BY <2>1, <3>3, <3>4, <3>5
  <2>3. CASE ~ (j <= height)
    <3>1. a = j + d /\ a \in L + 1 .. top /\ a - d = j /\ a <= h
      BY <1>1, <1>6, <1>7, <2>1, <2>3
    <3>2. /\ Block(a)' /\ Height(a)' = j
          /\ \A k \in 1 .. j : HashAt(a, k)' = IF k <= height THEN HashAt(tip, k) ELSE k + d
          /\ \A l \in Logs : Held(a, l)' = IF place[l] \in L + 1 .. a THEN place[l] ELSE Held(fork, l)
      BY <1>5, <3>1
    <3>3. \A k \in 1 .. j : HashAt(a, k)' = HashAt(h, k)'
      BY <1>6, <3>2
    <3>4. ASSUME NEW l \in Logs
          PROVE  Held(a, l)' = IF Held(h, l)' = 0 \/ Height(Held(h, l))' > j THEN 0 ELSE Held(h, l)'
      <4>1. CASE place[l] \in L + 1 .. h
        <5>1. PICK b \in L + 1 .. top : place[l] = b /\ b <= h
          BY <4>1
        <5>2. Held(h, l)' = b /\ Height(b)' = b - d /\ b # 0
          BY <1>1, <1>5, <1>6, <4>1, <5>1
        <5>3. Held(fork, l) = 0
          BY <1>1, <1>2, <5>1
        <5>4. b <= a <=> ~ (b - d > j)
          BY <1>1, <3>1, <5>1
        <5>5. Held(a, l)' = IF b <= a THEN b ELSE 0
          BY <1>1, <3>1, <3>2, <5>1, <5>3
        <5> QED BY <5>2, <5>4, <5>5
      <4>2. CASE place[l] \notin L + 1 .. h
        <5>1. PICK p : p = Held(fork, l)
          OBVIOUS
        <5>2. Held(h, l)' = p
          BY <1>6, <4>2, <5>1
        <5>3. place[l] \notin L + 1 .. a
          BY <1>1, <3>1, <4>2
        <5>4. Held(a, l)' = p
          BY <3>2, <5>1, <5>3
        <5>5. p # 0 => ~ (Height(p)' > j)
          BY <1>9, <2>3, <5>1
        <5> QED BY <5>2, <5>4, <5>5
      <4> QED BY <4>1, <4>2
    <3> QED BY <2>1, <3>2, <3>3, <3>4
  <2> QED BY <2>2, <2>3
<1>11. ASSUME NEW l \in Logs, Held(h, l)' # 0
       PROVE  /\ Block(Held(h, l))' /\ Height(Held(h, l))' \in 1 .. h - d
              /\ HashAt(h, Height(Held(h, l)))' = Held(h, l)'
  <2>1. PICK p : p = Held(h, l)'
    OBVIOUS
  <2>2. CASE place[l] \in L + 1 .. h
    <3>1. PICK b \in L + 1 .. top : place[l] = b /\ b <= h
      BY <2>2
    <3>2. p = b /\ Block(b)' /\ Height(b)' = b - d
      BY <1>5, <1>6, <2>1, <2>2, <3>1
    <3>3. PICK m : m = b - d
      OBVIOUS
    <3>4. m \in 1 .. h - d /\ ~ (m <= height) /\ m + d = b
      BY <1>1, <1>7, <3>1, <3>3
    <3>5. HashAt(h, m)' = b
      BY <1>6, <3>4
    <3> QED BY <2>1, <3>2, <3>3, <3>4, <3>5
  <2>3. CASE place[l] \notin L + 1 .. h
    <3>1. p = Held(fork, l) /\ p # 0
      BY <1>6, <1>11, <2>1, <2>3
    <3>2. Block(p)' /\ Height(p)' \in 1 .. height /\ Height(p)' = Height(p) /\ HashAt(fork, Height(p)) = p
      BY <1>9, <3>1
    <3>3. PICK m : m = Height(p)
      OBVIOUS
    <3>4. Height(p)' = m /\ m \in 1 .. height /\ HashAt(fork, m) = p /\ m \in 1 .. h - d
      BY <1>7, <3>2, <3>3
    <3>5. HashAt(h, m)' = p
      BY <1>3, <1>6, <3>4
    <3> QED BY <2>1, <3>2, <3>4, <3>5
  <2> QED BY <2>2, <2>3
<1> QED BY <1>6, <1>8, <1>10, <1>11 DEF PathOK

\* A branch from the tip, or one as high as the tip that leaves its path no
\* deeper than the overlap, keeps the chain in order.
LEMMA GrownChain ==
    ASSUME TypeOK, ChainOK, NEW height \in 1 .. Height(tip), NEW d \in Int, NEW L, L = Len(blocks),
           height + d = L, NEW top \in Nat, top > L, NEW place \in [Logs -> {0} \cup L + 1 .. top],
           Grown(L, d, height, top, place),
           \A l \in Logs : place[l] # 0 => Held(HashAt(tip, height), l) = 0,
           \/ height = Height(tip) /\ top = L + 1
           \/ height >= Height(tip) - Overlap /\ top - d = Height(tip)
    PROVE  /\ ChainOK' /\ Height(tip)' = top - d
           /\ \A i \in 1 .. height : HashAt(tip, i)' = HashAt(tip, i)
<1>1. /\ L \in Nat \ {0} /\ DOMAIN blocks = 1 .. L /\ Block(tip) /\ Height(tip) \in Nat
      /\ \A b : Block(b) <=> b \in 1 .. L
      /\ \A h : Block(h) => Height(h) \in Nat
  BY BlockTypes DEF Block
<1>2. Overlap \in Nat \ {0}
  BY ChainSyncConstants
<1>3. /\ Kept /\ DOMAIN blocks' = 1 .. top /\ tip' = top /\ top \in L + 1 .. top
      /\ \A b \in L + 1 .. top :
            /\ Height(b)' = b - d
            /\ \A j \in 1 .. b - d : HashAt(b, j)' = IF j <= height THEN HashAt(tip, j) ELSE j + d
  BY <1>1 DEF Grown
<1>4. Height(top)' = top - d /\ \A i \in 1 .. height : HashAt(top, i)' = HashAt(tip, i)
  <2>1. height <= top - d
    BY <1>1
  <2> QED BY <1>1, <1>3, <2>1
<1>5. Height(tip)' = top - d /\ \A i : HashAt(tip, i)' = HashAt(top, i)'
  BY <1>3, <1>4 DEF Height, HashAt
<1>6. ASSUME NEW h \in DOMAIN blocks' PROVE PathOK(h)' /\ Height(h)' <= Height(tip)'
  <2>1. CASE h \in 1 .. L
    <3>1. PathOK(h) /\ Height(h) <= Height(tip) /\ Block(h)
      BY <1>1, <2>1 DEF ChainOK
    <3>2. PathOK(h)' /\ Height(h)' = Height(h)
      BY <1>3, <3>1, KeptPath, KeptBlock
    <3>3. Height(tip) <= top - d
      BY <1>1
    <3> QED BY <1>1, <1>5, <3>1, <3>2, <3>3
  <2>2. CASE h \in L + 1 .. top
    <3>1. PathOK(h)'
      BY <2>2, GrownPath
    <3> QED BY <1>1, <1>3, <1>5, <2>2, <3>1
  <2> QED BY <1>1, <1>3, <2>1, <2>2
<1>7. ASSUME NEW h \in DOMAIN blocks', Height(h)' = Height(tip)', NEW i \in 1 .. Height(tip)' - Overlap
      PROVE  HashAt(h, i)' = HashAt(tip, i)'
  <2>1. CASE h = top
    BY <1>5, <2>1
  <2>2. CASE h \in L + 1 .. top /\ h # top
    BY <1>1, <1>3, <1>5, <1>7, <2>2
  <2>3. CASE h \in 1 .. L
    <3>1. Block(h) /\ Height(h)' = Height(h) /\ HashAt(h, i)' = HashAt(h, i) /\ Height(h) <= Height(tip)
      BY <1>1, <1>3, <2>3, KeptBlock DEF ChainOK
    <3>2. height >= Height(tip) - Overlap /\ top - d = Height(tip) /\ Height(h) = Height(tip)
      BY <1>1, <1>5, <1>7, <3>1
    <3>3. i \in 1 .. Height(tip) - Overlap /\ i \in 1 .. height
      BY <1>1, <1>2, <1>5, <3>2
    <3>4. HashAt(h, i) = HashAt(tip, i)
      BY <1>1, <2>3, <3>2, <3>3 DEF ChainOK
    <3> QED BY <1>4, <1>5, <3>1, <3>3, <3>4
  <2> QED BY <1>1, <1>3, <2>1, <2>2, <2>3
<1> QED BY <1>4, <1>5, <1>6, <1>7 DEF ChainOK

\* What the steps of the chain do for the rest: the blocks stay, the path of
\* the tip is the same below the overlap, a log of the tip that loses its block
\* is told of, and the head of a pass that was left does not come back.
ChainMoves ==
    /\ Kept /\ ChainOK' /\ NoticesOK' /\ Block(tip)'
    /\ blocks' \in Seq([path : Seq(Hashes), holds : [Logs -> Hashes]]) /\ Len(blocks') \in 1 .. MaxBlocks
    /\ Height(tip) <= Height(tip)'
    /\ \A i \in 1 .. Height(tip) - Overlap : HashAt(tip, i)' = HashAt(tip, i)
    /\ notices' \subseteq Logs \X Hashes /\ notices \subseteq notices'
    /\ late \subseteq late' /\ late' \subseteq Logs
    /\ \A l \in Logs : Held(tip, l) # 0 /\ Held(tip, l)' # Held(tip, l) => <<l, Held(tip, l)>> \in notices'
    /\ pass # Idle /\ Block(pass.head) /\ SameHead' => SameHead
    /\ faults' \in 0 .. MaxFaults
    /\ UNCHANGED <<missed, ledger, projection, handled, cursor, removals, repairs, verified, announcing, pass>>

\* A new block on the tip.
LEMMA MineMoves ==
    ASSUME TypeOK, ChainOK, NoticesOK, Mine
    PROVE  ChainMoves
<1>1. PICK L, H : L = Len(blocks) /\ H = Height(tip)
  OBVIOUS
<1>2. PICK part \in SUBSET Open(H) : Branch(H, <<part>>)
  BY <1>1 DEF Mine
<1>3. PICK top, d : top = L + 1 /\ d = L - H
  OBVIOUS
<1>4. /\ L \in Nat \ {0} /\ Block(tip) /\ H \in Nat /\ H <= tip /\ tip <= L /\ HashAt(tip, H) = tip /\ H \in 1 .. Height(tip)
      /\ \A b : Block(b) <=> b \in 1 .. L
      /\ Overlap \in Nat \ {0}
  BY <1>1, BlockTypes, ChainSyncConstants DEF Block, ChainOK, PathOK
<1>5. part \subseteq {l \in Logs : Held(tip, l) = 0}
  BY <1>2, <1>4 DEF Open, Held, HashAt
<1>6. PICK in : in = [l \in Logs |-> IF l \in part THEN 1 ELSE 0]
  OBVIOUS
<1>7. PICK place : place = Numbered(L, in)
  OBVIOUS
<1>8. /\ <<part>> \in Seq(SUBSET Logs) /\ Len(<<part>>) = 1 /\ 1 \in Nat \ {0} /\ in \in [Logs -> 0 .. 1]
      /\ \A l \in Logs : \A j \in 1 .. 1 : l \in <<part>>[j] <=> in[l] = j
  BY <1>5, <1>6
<1>9. Grown(L, d, H, top, place)
  <2>1. PICK parts : parts = <<part>>
    OBVIOUS
  <2>2. H \in 1 .. Height(tip) /\ 1 \in Nat \ {0} /\ Laid(parts, 1, in)
    BY <1>1, <1>4, <1>8, <2>1 DEF Laid
  <2>4. Branch(H, parts) /\ L = Len(blocks) /\ d = L - H
    BY <1>1, <1>2, <1>3, <2>1
  <2>3. Grown(L, d, H, L + 1, place)
    BY <1>7, <2>2, <2>4, BranchGrows
  <2> QED BY <1>3, <2>3
<1>10. /\ place \in [Logs -> {0} \cup L + 1 .. top] /\ H + d = L /\ d \in Int /\ top \in Nat /\ top > L
       /\ \A l \in Logs : place[l] # 0 => place[l] = top /\ Held(HashAt(tip, H), l) = 0
  BY <1>3, <1>4, <1>5, <1>6, <1>7 DEF Numbered
<1>11. /\ ChainOK' /\ Height(tip)' = top - d
       /\ \A i \in 1 .. H : HashAt(tip, i)' = HashAt(tip, i)
  <2>1. /\ H \in 1 .. Height(tip) /\ d \in Int /\ L = Len(blocks) /\ H + d = L /\ top \in Nat /\ top > L
        /\ place \in [Logs -> {0} \cup L + 1 .. top]
        /\ \A l \in Logs : place[l] # 0 => Held(HashAt(tip, H), l) = 0
        /\ H = Height(tip) /\ top = L + 1
    BY <1>1, <1>3, <1>4, <1>10
  <2> QED BY <1>9, <2>1, GrownChain
<1>12. Height(tip)' = H + 1 /\ tip' = top /\ Kept /\ DOMAIN blocks' = 1 .. top
  <2>1. top - d = H + 1
    BY <1>3, <1>4
  <2> QED BY <1>9, <1>11, <2>1 DEF Grown
<1>13. \A l \in Logs : Held(tip, l)' = IF place[l] = 0 THEN Held(tip, l) ELSE top
  <2>1. top \in L + 1 .. top
    BY <1>4, <1>10
  <2>2. \A l \in Logs : Held(top, l)' = IF place[l] \in L + 1 .. top THEN place[l] ELSE Held(tip, l)
    BY <1>4, <1>9, <2>1 DEF Grown
  <2> QED BY <1>4, <1>10, <1>12, <2>1, <2>2 DEF Held
<1>14. /\ UNCHANGED <<notices, missed, ledger, projection, handled, cursor, removals, repairs, verified,
                     announcing, pass, faults>>
       /\ late' = late \cup {l \in Logs : /\ \E n \in notices \cup removals : n[1] = l
                                         /\ Held(tip, l) # 0 /\ Height(Held(tip, l)) <= H + 1 - Overlap}
  BY <1>1 DEF Mine, Held
<1>15. NoticesOK'
  <2>1. ASSUME NEW n \in notices \cup removals, n[1] \notin late'
        PROVE  Block(n[2])' /\ (Held(tip, n[1])' # 0 => Height(Held(tip, n[1]))' > H + 1 - Overlap)
    <3>1. n[1] \in Logs /\ Block(n[2])
      BY DEF NoticesOK, TypeOK
    <3>2. Block(n[2])'
      BY <1>12, <3>1, KeptBlock
    <3>3. PICK l, p : l = n[1] /\ p = Held(tip, l)
      OBVIOUS
    <3>4. p # 0 => Height(p) > H + 1 - Overlap
      <4>1. p # 0 => Height(p) \in Nat
        BY <1>4, <3>1, <3>3, BlockTypes DEF ChainOK, PathOK, Block
      <4>2. ~ (p # 0 /\ Height(p) <= H + 1 - Overlap)
        BY <1>14, <2>1, <3>1, <3>3
      <4> QED BY <1>4, <4>1, <4>2
    <3>5. p # 0 => Block(p) /\ Height(p)' = Height(p)
      BY <1>4, <1>12, <3>1, <3>3, KeptBlock DEF ChainOK, PathOK, Block
    <3>6. CASE place[l] = 0
      <4>1. Held(tip, l)' = p
        BY <1>13, <3>1, <3>3, <3>6
      <4> QED BY <3>2, <3>3, <3>4, <3>5, <4>1
    <3>7. CASE place[l] # 0
      <4>1. Held(tip, l)' = top /\ Height(top)' = H + 1
        BY <1>12, <1>13, <3>1, <3>3, <3>7 DEF Height
      <4> QED BY <1>4, <3>2, <3>3, <4>1
    <3> QED BY <3>6, <3>7
  <2>2. notices' = notices /\ removals' = removals
    BY <1>14
  <2>4. ASSUME NEW n \in notices' \cup removals' PROVE Block(n[2])'
    BY <1>12, <2>2, <2>4, KeptBlock DEF NoticesOK
  <2>3. ASSUME NEW n \in notices' \cup removals', n[1] \notin late'
        PROVE  Block(n[2])' /\ (Held(tip, n[1])' # 0 => Height(Held(tip, n[1]))' > Height(tip)' - Overlap)
    <3>1. Block(n[2])' /\ (Held(tip, n[1])' # 0 => Height(Held(tip, n[1]))' > H + 1 - Overlap)
      BY <2>1, <2>2, <2>3
    <3>2. Height(tip)' = H + 1
      BY <1>12
    <3>3. Height(tip)' - Overlap = H + 1 - Overlap
      BY <1>4, <3>2
    <3> QED BY <3>1, <3>3
  <2> QED BY <2>3, <2>4 DEF NoticesOK
<1>16. \A l \in Logs : Held(tip, l) # 0 => Held(tip, l)' = Held(tip, l)
  BY <1>4, <1>10, <1>13
<1>17. ASSUME Block(pass.head), SameHead' PROVE SameHead
  <2>1. PICK h, k : h = pass.head /\ k = Height(h)
    OBVIOUS
  <2>2. pass.head' = h /\ Height(h)' = k /\ k \in 1 .. H
    <3>1. Height(h)' = k /\ k \in 1 .. h /\ k <= H
      BY <1>1, <1>12, <1>17, <2>1, KeptBlock DEF ChainOK, PathOK, Block
    <3> QED BY <1>4, <1>14, <1>17, <2>1, <3>1
  <2>3. HashAt(tip, k)' = h
    BY <1>17, <2>1, <2>2 DEF SameHead
  <2> QED BY <1>11, <2>1, <2>2, <2>3 DEF SameHead
<1>18. Block(tip)' /\ blocks' \in Seq([path : Seq(Hashes), holds : [Logs -> Hashes]]) /\ Len(blocks') \in 1 .. MaxBlocks
  BY <1>4, <1>9, <1>10, <1>12, BlockTypes DEF Grown, Block
<1>19. /\ notices' \subseteq Logs \X Hashes /\ notices \subseteq notices' /\ faults' \in 0 .. MaxFaults
       /\ late \subseteq late' /\ late' \subseteq Logs
  BY <1>14 DEF TypeOK
<1>20. H <= H + 1 /\ \A i \in 1 .. H - Overlap : i \in 1 .. H
  BY <1>4
<1> QED BY <1>1, <1>11, <1>12, <1>14, <1>15, <1>16, <1>17, <1>18, <1>19, <1>20 DEF ChainMoves

\* A reorganisation, no deeper than the overlap.
LEMMA ReorganiseMoves ==
    ASSUME TypeOK, ChainOK, NoticesOK, Reorganise
    PROVE  ChainMoves
<1>1. PICK L, H : L = Len(blocks) /\ H = Height(tip)
  OBVIOUS
<1>2. PICK depth \in 1 .. Overlap : \E height :
         /\ height = H - depth /\ height >= 1
         /\ \E in \in [Open(height) -> 0 .. depth] :
               Branch(height, [i \in 1 .. depth |-> {l \in Open(height) : in[l] = i}])
  BY <1>1 DEF Reorganise
<1>3. PICK height : /\ height = H - depth /\ height >= 1
                    /\ \E in \in [Open(height) -> 0 .. depth] :
                          Branch(height, [i \in 1 .. depth |-> {l \in Open(height) : in[l] = i}])
  BY <1>2
<1>4. PICK in, parts :
         /\ in \in [Open(height) -> 0 .. depth]
         /\ parts = [i \in 1 .. depth |-> {l \in Open(height) : in[l] = i}] /\ Branch(height, parts)
  BY <1>3
<1>5. /\ L \in Nat \ {0} /\ Block(tip) /\ H \in Nat /\ H <= tip /\ tip <= L /\ PathOK(tip)
      /\ \A b : Block(b) <=> b \in 1 .. L
      /\ \A b : Block(b) => PathOK(b) /\ Height(b) <= H
      /\ Overlap \in Nat \ {0}
  <2>1. /\ L \in Nat \ {0} /\ Block(tip) /\ H \in Nat /\ \A b : Block(b) <=> b \in 1 .. L
        /\ Overlap \in Nat \ {0}
    BY <1>1, BlockTypes, ChainSyncConstants DEF Block
  <2>2. \A b : Block(b) => PathOK(b) /\ Height(b) <= H
    BY <1>1 DEF ChainOK, Block
  <2>3. H \in 1 .. tip /\ tip \in 1 .. L
    BY <1>1, <2>1, <2>2 DEF PathOK
  <2> QED BY <2>1, <2>2, <2>3
<1>6. PICK top, d, fork : top = L + depth /\ d = L - height /\ fork = HashAt(tip, height)
  OBVIOUS
<1>7. /\ height \in 1 .. H /\ height \in 1 .. Height(tip) /\ depth \in Nat \ {0} /\ d \in Int /\ height + d = L
      /\ top \in Nat /\ top > L /\ top - d = H /\ height >= H - Overlap
  <2>1. depth \in Nat \ {0} /\ height \in Nat /\ height <= H
    BY <1>3, <1>5
  <2>2. height + d = L /\ d \in Int
    BY <1>5, <1>6, <2>1
  <2>3. height + depth = H /\ L + depth - d = height + depth
    BY <1>3, <1>5, <1>6, <2>1
  <2>4. top \in Nat /\ top > L /\ top - d = H
    BY <1>5, <1>6, <2>1, <2>3
  <2>5. depth <= Overlap /\ height >= H - Overlap
    BY <1>3, <1>5, <2>1
  <2> QED BY <1>1, <1>3, <2>1, <2>2, <2>4, <2>5
<1>8. Block(fork) /\ \A l \in Logs : Held(fork, l) =
          IF Held(tip, l) = 0 \/ Height(Held(tip, l)) > height THEN 0 ELSE Held(tip, l)
  BY <1>5, <1>6, <1>7 DEF PathOK
<1>9. Open(height) = {l \in Logs : Held(fork, l) = 0}
  BY <1>6 DEF Open, Held
<1>10. PICK all : all = [l \in Logs |-> IF l \in Open(height) THEN in[l] ELSE 0]
  OBVIOUS
<1>11. PICK place : place = Numbered(L, all)
  OBVIOUS
<1>12. /\ parts \in Seq(SUBSET Logs) /\ Len(parts) = depth /\ all \in [Logs -> 0 .. depth]
       /\ \A l \in Logs : \A j \in 1 .. depth : l \in parts[j] <=> all[l] = j
  <2>1. parts \in [1 .. depth -> SUBSET Logs]
    BY <1>4, <1>9
  <2>2. parts \in Seq(SUBSET Logs) /\ Len(parts) = depth
    <3>1. depth \in Nat
      BY <1>7
    <3> QED BY <2>1, <3>1, ListOfEntries
  <2>3. all \in [Logs -> 0 .. depth]
    BY <1>4, <1>7, <1>10
  <2>4. ASSUME NEW l \in Logs, NEW j \in 1 .. depth PROVE l \in parts[j] <=> all[l] = j
    BY <1>4, <1>7, <1>10
  <2> QED BY <2>2, <2>3, <2>4
<1>13. Grown(L, d, height, top, place)
  <2>1. Grown(L, d, height, L + depth, place)
    <3>1. height \in 1 .. Height(tip) /\ depth \in Nat \ {0} /\ Laid(parts, depth, all)
      BY <1>7, <1>12 DEF Laid
    <3>2. Branch(height, parts) /\ L = Len(blocks) /\ d = L - height
      BY <1>1, <1>4, <1>6
    <3> QED BY <1>11, <3>1, <3>2, BranchGrows
  <2> QED BY <1>6, <2>1
<1>14. /\ place \in [Logs -> {0} \cup L + 1 .. top]
       /\ \A l \in Logs : place[l] # 0 => Held(fork, l) = 0
  BY <1>5, <1>6, <1>7, <1>9, <1>10, <1>11, <1>12 DEF Numbered
<1>15. /\ ChainOK' /\ Height(tip)' = H
       /\ \A i \in 1 .. height : HashAt(tip, i)' = HashAt(tip, i)
  <2>1. /\ height \in 1 .. Height(tip) /\ d \in Int /\ L = Len(blocks) /\ height + d = L
        /\ top \in Nat /\ top > L /\ place \in [Logs -> {0} \cup L + 1 .. top]
        /\ \A l \in Logs : place[l] # 0 => Held(HashAt(tip, height), l) = 0
        /\ height >= Height(tip) - Overlap /\ top - d = Height(tip)
    BY <1>1, <1>6, <1>7, <1>14
  <2>2. /\ ChainOK' /\ Height(tip)' = top - d
        /\ \A i \in 1 .. height : HashAt(tip, i)' = HashAt(tip, i)
    BY <1>13, <2>1, GrownChain
  <2> QED BY <1>7, <2>2
<1>16. /\ tip' = top /\ Kept /\ DOMAIN blocks' = 1 .. top /\ top \in L + 1 .. top
       /\ \A b \in L + 1 .. top :
             /\ Height(b)' = b - d
             /\ \A j \in 1 .. b - d : HashAt(b, j)' = IF j <= height THEN HashAt(tip, j) ELSE j + d
             /\ \A l \in Logs : Held(b, l)' = IF place[l] \in L + 1 .. b THEN place[l] ELSE Held(fork, l)
  BY <1>5, <1>6, <1>7, <1>13 DEF Grown
<1>17. \A l \in Logs : Held(tip, l)' = IF place[l] = 0 THEN Held(fork, l) ELSE place[l]
  <2>1. \A l \in Logs : Held(top, l)' = IF place[l] \in L + 1 .. top THEN place[l] ELSE Held(fork, l)
    BY <1>16
  <2>2. \A l : Held(tip, l)' = Held(top, l)'
    BY <1>16 DEF Held
  <2> QED BY <1>5, <1>14, <2>1, <2>2
<1>18. /\ notices' = notices \cup {<<l, Held(tip, l)>> : l \in {k \in Logs :
              Held(tip, k) # 0 /\ Held(tip, k)' # Held(tip, k)}}
       /\ UNCHANGED <<missed, late, ledger, projection, handled, cursor, removals, repairs, verified,
                      announcing, pass, faults>>
  BY DEF Reorganise, Abandoned, Held
<1>19. ASSUME NEW l \in Logs, Held(tip, l)' # 0
       PROVE  \/ Height(Held(tip, l))' > H - Overlap
              \/ Held(tip, l)' = Held(tip, l) /\ Height(Held(tip, l))' = Height(Held(tip, l))
  <2>1. PICK p : p = Held(tip, l)'
    OBVIOUS
  <2>2. CASE place[l] = 0
    <3>1. p = Held(fork, l) /\ p # 0
      BY <1>17, <1>19, <2>1, <2>2
    <3>2. p = Held(tip, l) /\ Block(p)
      BY <1>5, <1>8, <3>1 DEF PathOK
    <3>3. Height(p)' = Height(p)
      BY <1>16, <3>2, KeptBlock
    <3> QED BY <2>1, <3>2, <3>3
  <2>3. CASE place[l] # 0
    <3>1. p \in L + 1 .. top
      BY <1>14, <1>17, <2>1, <2>3
    <3>2. Height(p)' = p - d
      BY <1>16, <3>1
    <3>3. p - d > H - Overlap
      BY <1>5, <1>7, <3>1
    <3> QED BY <2>1, <3>2, <3>3
  <2> QED BY <2>2, <2>3
<1>20. NoticesOK'
  <2>1. ASSUME NEW n \in notices' \cup removals'
        PROVE  /\ Block(n[2])'
               /\ n[1] \notin late' /\ Held(tip, n[1])' # 0 => Height(Held(tip, n[1]))' > Height(tip)' - Overlap
    <3>1. CASE n \in notices \cup removals
      <4>1. n[1] \in Logs /\ Block(n[2])
        BY <3>1 DEF NoticesOK, TypeOK
      <4>2. Block(n[2])'
        BY <1>16, <4>1, KeptBlock
      <4>3. n[1] \notin late /\ Held(tip, n[1]) # 0 => Height(Held(tip, n[1])) > H - Overlap
        BY <1>1, <3>1 DEF NoticesOK
      <4> QED BY <1>15, <1>18, <1>19, <4>1, <4>2, <4>3
    <3>2. CASE n \notin notices \cup removals
      <4>1. PICK l \in Logs : /\ n = <<l, Held(tip, l)>> /\ Held(tip, l) # 0
                              /\ Held(tip, l)' # Held(tip, l)
        BY <1>18, <2>1, <3>2
      <4>2. n[1] = l /\ n[2] = Held(tip, l) /\ Block(Held(tip, l))
        BY <1>5, <4>1 DEF PathOK
      <4>3. Block(n[2])'
        BY <1>16, <4>2, KeptBlock
      <4>4. Held(tip, l)' # 0 => Height(Held(tip, l))' > H - Overlap
        BY <1>19, <4>1
      <4> QED BY <1>15, <4>2, <4>3, <4>4
    <3> QED BY <3>1, <3>2
  <2> QED BY <2>1 DEF NoticesOK
<1>21. ASSUME Block(pass.head), SameHead' PROVE SameHead
  <2>1. PICK h, k : h = pass.head /\ k = Height(h)
    OBVIOUS
  <2>2. pass.head' = h /\ Height(h)' = k /\ k \in 1 .. H /\ h <= L /\ h \in Nat
    <3>1. Height(h)' = k /\ k \in 1 .. h /\ k <= H /\ h \in 1 .. L
      BY <1>5, <1>16, <1>21, <2>1, KeptBlock DEF PathOK
    <3> QED BY <1>5, <1>18, <1>21, <2>1, <3>1
  <2>3. HashAt(top, k)' = h
    <3>1. HashAt(tip, k)' = h
      BY <1>21, <2>1, <2>2 DEF SameHead
    <3> QED BY <1>16, <3>1 DEF HashAt
  <2>4. h = IF k <= height THEN HashAt(tip, k) ELSE k + d
    BY <1>7, <1>16, <2>2, <2>3
  <2>5. ~ (k <= height) => k + d > L
    BY <1>5, <1>7, <2>2
  <2>6. k <= height
    BY <1>5, <2>2, <2>4, <2>5
  <2> QED BY <2>1, <2>4, <2>6 DEF SameHead
<1>22. Block(tip)' /\ blocks' \in Seq([path : Seq(Hashes), holds : [Logs -> Hashes]]) /\ Len(blocks') \in 1 .. MaxBlocks
  <2>1. Len(blocks') = top /\ top <= MaxBlocks /\ blocks' \in Seq([path : Seq(Hashes), holds : [Logs -> Hashes]])
    BY <1>13 DEF Grown
  <2>2. MaxBlocks \in Nat /\ top \in 1 .. top
    BY <1>5, <1>7, BlockTypes, SMTT(30)
  <2> QED BY <1>5, <1>7, <1>16, <2>1, <2>2 DEF Block
<1>23. /\ notices' \subseteq Logs \X Hashes /\ notices \subseteq notices' /\ faults' \in 0 .. MaxFaults
       /\ late \subseteq late' /\ late' \subseteq Logs
  <2>1. notices \subseteq Logs \X Hashes /\ faults \in 0 .. MaxFaults /\ late \subseteq Logs
    BY DEF TypeOK
  <2>2. \A l \in Logs : <<l, Held(tip, l)>> \in Logs \X Hashes
    BY <1>5, BlockTypes
  <2> QED BY <1>18, <2>1, <2>2
<1>24. /\ Height(tip) <= Height(tip)'
       /\ \A i \in 1 .. Height(tip) - Overlap : HashAt(tip, i)' = HashAt(tip, i)
  <2>1. \A i \in 1 .. H - Overlap : i \in 1 .. height
    BY <1>5, <1>7
  <2>2. H <= H
    BY <1>5
  <2> QED BY <1>1, <1>15, <2>1, <2>2
<1>25. \A l \in Logs : Held(tip, l) # 0 /\ Held(tip, l)' # Held(tip, l) => <<l, Held(tip, l)>> \in notices'
  BY <1>18
<1> QED BY <1>15, <1>16, <1>18, <1>20, <1>21, <1>22, <1>23, <1>24, <1>25 DEF ChainMoves

\* The branch that was left comes back.
LEMMA ReturnMoves ==
    ASSUME TypeOK, ChainOK, NoticesOK, Return
    PROVE  ChainMoves
<1>1. PICK old \in DOMAIN blocks :
         /\ Height(old) >= Height(tip) /\ tip' = old /\ notices' = notices \cup Abandoned(tip, blocks[old])
  BY DEF Return
<1>2. PICK H : H = Height(tip)
  OBVIOUS
<1>3. /\ Block(tip) /\ H \in Nat /\ Block(old) /\ Height(old) = H /\ PathOK(tip) /\ PathOK(old)
      /\ \A b : Block(b) => PathOK(b) /\ Height(b) <= H /\ Height(b) \in Nat
      /\ Overlap \in Nat \ {0} /\ \A i \in 1 .. H - Overlap : HashAt(old, i) = HashAt(tip, i)
  <2>1. Block(tip) /\ H \in Nat /\ Block(old) /\ Height(old) \in Nat /\ Overlap \in Nat \ {0}
        /\ \A b : Block(b) => Height(b) \in Nat
    BY <1>2, BlockTypes, ChainSyncConstants DEF Block
  <2>2. \A b : Block(b) => PathOK(b) /\ Height(b) <= H
    BY <1>2 DEF ChainOK, Block
  <2>3. Height(old) = H
    BY <1>1, <1>2, <2>1, <2>2
  <2>4. \A i \in 1 .. H - Overlap : HashAt(old, i) = HashAt(tip, i)
    BY <1>2, <2>3 DEF ChainOK
  <2> QED BY <2>1, <2>2, <2>3, <2>4
<1>4. /\ blocks' = blocks /\ pass = Idle /\ Fault
      /\ UNCHANGED <<missed, late, ledger, projection, handled, cursor, removals, repairs, verified,
                     announcing, pass>>
  BY DEF Return
<1>5. Kept /\ DOMAIN blocks' = DOMAIN blocks /\ \A b : Block(b)' <=> Block(b)
  BY <1>4 DEF Kept, Block
<1>6. /\ \A b : Height(b)' = Height(b) /\ \A i : HashAt(b, i)' = HashAt(b, i)
      /\ \A b : \A l : Held(b, l)' = Held(b, l)
  BY <1>4 DEF Height, HashAt, Held
<1>7. /\ Height(tip)' = Height(old) /\ \A i : HashAt(tip, i)' = HashAt(old, i)
      /\ \A l : Held(tip, l)' = Held(old, l) /\ Height(Held(tip, l))' = Height(Held(old, l))
  BY <1>1, <1>4 DEF Height, HashAt, Held
<1>8. ChainOK'
  <2>1. ASSUME NEW h \in DOMAIN blocks' PROVE PathOK(h)' /\ Height(h)' <= Height(tip)'
    <3>1. Block(h) /\ PathOK(h)
      BY <1>3, <1>5, <2>1 DEF Block
    <3>2. PathOK(h)'
      BY <1>5, <3>1, KeptPath
    <3> QED BY <1>3, <1>6, <1>7, <3>1, <3>2
  <2>2. ASSUME NEW h \in DOMAIN blocks', Height(h)' = Height(tip)', NEW i \in 1 .. Height(tip)' - Overlap
        PROVE  HashAt(h, i)' = HashAt(tip, i)'
    <3>1. h \in DOMAIN blocks /\ Height(h) = H /\ i \in 1 .. H - Overlap
      BY <1>3, <1>5, <1>6, <1>7, <2>2
    <3>2. HashAt(h, i) = HashAt(tip, i)
      BY <1>2, <3>1 DEF ChainOK
    <3> QED BY <1>3, <1>6, <1>7, <3>1, <3>2
  <2> QED BY <2>1, <2>2 DEF ChainOK
<1>9. notices' = notices \cup {<<l, Held(tip, l)>> : l \in {k \in Logs :
              Held(tip, k) # 0 /\ Held(old, k) # Held(tip, k)}}
  BY <1>1 DEF Abandoned, Held
<1>10. ASSUME NEW l \in Logs, Held(old, l) # 0
       PROVE  Height(Held(old, l)) > H - Overlap \/ Held(tip, l) = Held(old, l)
  <2>1. PICK p, i : p = Held(old, l) /\ i = Height(p)
    OBVIOUS
  <2>2. i \in 1 .. H /\ Block(p)
    BY <1>3, <1>10, <2>1 DEF PathOK
  <2>3. CASE i > H - Overlap
    BY <2>1, <2>3
  <2>4. CASE ~ (i > H - Overlap)
    <3>1. i \in 1 .. Height(old) /\ i <= Height(tip) /\ HashAt(old, i) = HashAt(tip, i) /\ Height(Held(old, l)) <= i
      BY <1>2, <1>3, <2>1, <2>2, <2>4
    <3>2. Held(tip, l) = Held(old, l)
      BY <1>3, <1>10, <3>1, SamePlace
    <3> QED BY <3>2
  <2> QED BY <2>3, <2>4
<1>11. NoticesOK'
  <2>1. ASSUME NEW n \in notices' \cup removals'
        PROVE  /\ Block(n[2])'
               /\ n[1] \notin late' /\ Held(tip, n[1])' # 0 => Height(Held(tip, n[1]))' > Height(tip)' - Overlap
    <3>1. CASE n \in notices \cup removals
      <4>1. n[1] \in Logs /\ Block(n[2])
        BY <3>1 DEF NoticesOK, TypeOK
      <4>2. n[1] \notin late /\ Held(tip, n[1]) # 0 => Height(Held(tip, n[1])) > H - Overlap
        BY <1>2, <3>1 DEF NoticesOK
      <4>3. n[1] \notin late /\ Held(old, n[1]) # 0 => Height(Held(old, n[1])) > H - Overlap
        BY <1>10, <4>1, <4>2
      <4> QED BY <1>3, <1>4, <1>5, <1>7, <4>1, <4>3
    <3>2. CASE n \notin notices \cup removals
      <4>1. PICK l \in Logs : /\ n = <<l, Held(tip, l)>> /\ Held(tip, l) # 0
                              /\ Held(old, l) # Held(tip, l)
        BY <1>4, <1>9, <2>1, <3>2
      <4>2. n[1] = l /\ n[2] = Held(tip, l) /\ Block(Held(tip, l))
        BY <1>3, <4>1 DEF PathOK
      <4>3. Held(old, l) # 0 => Height(Held(old, l)) > H - Overlap
        BY <1>10, <4>1
      <4> QED BY <1>3, <1>5, <1>7, <4>2, <4>3
    <3> QED BY <3>1, <3>2
  <2> QED BY <2>1 DEF NoticesOK
<1>12. /\ Block(tip)' /\ blocks' \in Seq([path : Seq(Hashes), holds : [Logs -> Hashes]])
       /\ Len(blocks') \in 1 .. MaxBlocks
  BY <1>1, <1>4 DEF Block, TypeOK
<1>13. /\ notices' \subseteq Logs \X Hashes /\ notices \subseteq notices' /\ faults' \in 0 .. MaxFaults
       /\ late \subseteq late' /\ late' \subseteq Logs
  <2>1. notices \subseteq Logs \X Hashes /\ faults \in 0 .. MaxFaults /\ MaxFaults \in Nat /\ late \subseteq Logs
    BY ChainSyncConstants DEF TypeOK
  <2>2. \A l \in Logs : <<l, Held(tip, l)>> \in Logs \X Hashes
    BY <1>3, BlockTypes
  <2>3. faults < MaxFaults /\ faults' = faults + 1
    BY <1>4 DEF Fault
  <2> QED BY <1>4, <1>9, <2>1, <2>2, <2>3
<1>14. /\ Height(tip) <= Height(tip)'
       /\ \A i \in 1 .. Height(tip) - Overlap : HashAt(tip, i)' = HashAt(tip, i)
  BY <1>2, <1>3, <1>7
<1>15. \A l \in Logs : Held(tip, l) # 0 /\ Held(tip, l)' # Held(tip, l) => <<l, Held(tip, l)>> \in notices'
  BY <1>7, <1>9
<1> QED BY <1>4, <1>5, <1>8, <1>11, <1>12, <1>13, <1>14, <1>15 DEF ChainMoves

\* Places below the overlap are the same after a step of the chain.
LEMMA SettledPlaces ==
    ASSUME TypeOK, ChainOK, ChainMoves, NEW l \in Logs, NEW p, p # 0
    PROVE  /\ Held(tip, l) = p /\ Height(p) <= Height(tip) - Overlap => Held(tip, l)' = p
           /\ Held(tip, l)' = p /\ Height(p)' <= Height(tip) - Overlap =>
                 Held(tip, l) = p /\ Height(p)' = Height(p)
<1>1. PICK H, t, u : H = Height(tip) /\ t = tip /\ u = tip'
  OBVIOUS
<1>2. /\ Block(t) /\ PathOK(t) /\ H \in Nat /\ Overlap \in Nat \ {0} /\ Height(t) = H
  BY <1>1, BlockTypes, ChainSyncConstants DEF ChainOK, Block
<1>3. /\ Kept /\ Height(u)' >= H /\ Height(u)' \in 1 .. u
      /\ \A i \in 1 .. Height(u)' :
            /\ Block(HashAt(u, i))' /\ Height(HashAt(u, i))' = i
            /\ Held(HashAt(u, i), l)' = IF Held(u, l)' = 0 \/ Height(Held(u, l))' > i THEN 0 ELSE Held(u, l)'
      /\ Held(u, l)' # 0 => /\ Block(Held(u, l))' /\ Height(Held(u, l))' \in 1 .. Height(u)'
                            /\ HashAt(u, Height(Held(u, l)))' = Held(u, l)'
      /\ \A i \in 1 .. H - Overlap : HashAt(u, i)' = HashAt(t, i)
  <2>1. ChainOK' /\ Block(tip)' /\ tip' = u
    BY <1>1 DEF ChainMoves
  <2>2. PathOK(u)'
    BY <2>1 DEF ChainOK, Block
  <2>3. /\ Kept /\ Height(u)' >= H /\ \A i \in 1 .. H - Overlap : HashAt(u, i)' = HashAt(t, i)
    <3>1. \A i : HashAt(u, i)' = HashAt(tip, i)' /\ Height(u)' = Height(tip)' /\ HashAt(t, i) = HashAt(tip, i)
      BY <1>1 DEF HashAt, Height
    <3>2. Kept /\ H <= Height(tip)' /\ \A i \in 1 .. H - Overlap : HashAt(tip, i)' = HashAt(tip, i)
      BY <1>1 DEF ChainMoves
    <3>3. Height(tip)' \in Int
      BY <2>2, <3>1 DEF PathOK
    <3> QED BY <1>2, <3>1, <3>2, <3>3
  <2> QED BY <2>2, <2>3 DEF PathOK
<1>4. Held(u, l)' = Held(tip, l)' /\ Held(t, l) = Held(tip, l)
  BY <1>1 DEF Held
<1>5. ASSUME Held(t, l) = p, Height(p) <= H - Overlap PROVE Held(u, l)' = p
  <2>1. PICK i : i = Height(p)
    OBVIOUS
  <2>2. i \in 1 .. H - Overlap /\ i \in 1 .. H /\ i \in 1 .. Height(u)'
    BY <1>2, <1>3, <1>5, <2>1 DEF PathOK
  <2>3. PICK b : b = HashAt(t, i)
    OBVIOUS
  <2>4. Block(b) /\ Held(b, l) = p
    BY <1>2, <1>5, <2>1, <2>2, <2>3 DEF PathOK
  <2>5. HashAt(u, i)' = b /\ Held(b, l)' = p
    BY <1>3, <2>2, <2>3, <2>4, KeptBlock
  <2> QED BY <1>3, <2>2, <2>5
<1>6. ASSUME Held(u, l)' = p, Height(p)' <= H - Overlap PROVE Held(t, l) = p /\ Height(p)' = Height(p)
  <2>1. PICK i : i = Height(p)'
    OBVIOUS
  <2>2. i \in 1 .. H - Overlap /\ i \in 1 .. H /\ i \in 1 .. Height(u)' /\ HashAt(u, i)' = p
    BY <1>2, <1>3, <1>6, <2>1
  <2>3. HashAt(t, i) = p /\ Held(p, l)' = p
    BY <1>3, <1>6, <2>1, <2>2
  <2>4. Block(p) /\ Height(p) = i /\ Held(p, l) = IF Held(t, l) = 0 \/ Height(Held(t, l)) > i THEN 0 ELSE Held(t, l)
    BY <1>2, <2>2, <2>3 DEF PathOK
  <2>5. Held(p, l)' = Held(p, l)
    BY <1>3, <2>4, KeptBlock
  <2> QED BY <2>1, <2>3, <2>4, <2>5
<1> QED BY <1>1, <1>4, <1>5, <1>6

\* A step of the chain keeps the invariant.
LEMMA ChainStep ==
    ASSUME Inv, ChainMoves
    PROVE  Inv'
<1>1. TypeOK /\ ChainOK /\ NoticesOK /\ RowsOK /\ PassOK /\ RepairsOK /\ AnchorOK
      /\ (pending # "reorg" => SettledOK)
  BY DEF Inv
<1>2. /\ Kept /\ ChainOK' /\ NoticesOK' /\ notices \subseteq notices'
      /\ rows' = rows /\ latest' = latest /\ watermark' = watermark /\ pending' = pending
      /\ lostAnchor' = lostAnchor /\ transport' = transport /\ handled' = handled /\ cursor' = cursor
      /\ removals' = removals /\ missed' = missed /\ repairs' = repairs /\ verified' = verified
      /\ event' = event /\ owed' = owed /\ pass' = pass /\ late \subseteq late'
  BY DEF ChainMoves, ledger, projection, announcing
<1>3. /\ \A h : Block(h) => Block(h)' /\ Height(h)' = Height(h) /\ PathOK(h)
      /\ \A h : Block(h) => \A l : Held(h, l)' = Held(h, l)
  BY <1>1, <1>2, KeptBlock DEF ChainOK, Block
<1>4. /\ Height(tip) \in Nat /\ Height(tip)' \in Nat /\ Height(tip)' >= Height(tip)
      /\ Top = Height(tip) /\ Top' = Height(tip)'
  <2>1. Height(tip) \in Nat /\ Top = Height(tip)
    BY <1>1, TopIsTip
  <2>2. PICK S, m : S = {Height(h) : h \in DOMAIN blocks}' /\ m = Height(tip)'
    OBVIOUS
  <2>3. \A h \in DOMAIN blocks' : Height(h)' \in Nat
    <3>1. \A h \in DOMAIN blocks' : Height(h)' \in 1 .. h /\ h \in 1 .. Len(blocks')
      BY <1>2, LenProperties DEF ChainMoves, ChainOK, PathOK
    <3> QED BY <3>1
  <2>4. m \in S /\ S \subseteq Nat /\ \A n \in S : n <= m
    BY <1>2, <2>2, <2>3 DEF ChainMoves, ChainOK, Block
  <2>5. Max(S) = m
    BY <2>4, MaxIs
  <2>6. Top' = m /\ m \in Nat
    BY <2>2, <2>4, <2>5 DEF Top
  <2> QED BY <2>1, <2>2, <2>6 DEF ChainMoves
<1>5. TypeOK'
  <2>1. cursor' \in -1 .. Top'
    BY <1>1, <1>2, <1>4 DEF TypeOK
  <2>2. /\ Len(blocks') \in 1 .. MaxBlocks /\ tip' \in DOMAIN blocks'
        /\ blocks' \in Seq([path : Seq(Hashes), holds : [Logs -> Hashes]])
        /\ faults' \in 0 .. MaxFaults /\ notices' \subseteq Logs \X Hashes /\ late' \subseteq Logs
    BY DEF ChainMoves, Block
  <2> QED BY <1>1, <1>2, <2>1, <2>2 DEF TypeOK
<1>6. RowsOK'
  <2>1. latest' <= Height(tip)' /\ cursor' <= Height(tip)'
    <3>1. latest \in Int /\ cursor \in Int
      BY <1>1, <1>4 DEF TypeOK, Hashes
    <3> QED BY <1>1, <1>2, <1>4, <3>1 DEF RowsOK
  <2>2. \A l \in Logs : IF rows'[l].hash = 0 THEN rows'[l] = NoRow
                       ELSE Block(rows[l].hash)' /\ Height(rows[l].hash)' <= latest'
    BY <1>1, <1>2, <1>3 DEF RowsOK
  <2>3. \A l \in handled' : rows'[l] # NoRow /\ (l \in Restored => Live(l)')
    BY <1>1, <1>2 DEF RowsOK, Live
  <2>4. ASSUME NEW l \in OtherLogs, Live(l)'
        PROVE  \/ Held(tip, l)' = rows'[l].hash
               \/ <<l, rows'[l].hash>> \in notices' \cup removals' \cup missed'
    <3>1. PICK p : p = rows[l].hash
      OBVIOUS
    <3>2. p # 0 /\ l \in Logs /\ (Held(tip, l) = p \/ <<l, p>> \in notices \cup removals \cup missed)
      BY <1>1, <1>2, <2>4, <3>1 DEF RowsOK, Live, Logs
    <3>3. Held(tip, l) = p => Held(tip, l)' = p \/ <<l, p>> \in notices'
      BY <3>2 DEF ChainMoves
    <3> QED BY <1>2, <3>1, <3>2, <3>3
  <2> QED BY <2>1, <2>2, <2>3, <2>4 DEF RowsOK
<1>7. ASSUME pending' # "reorg" PROVE SettledOK'
  <2>1. PICK k : k = Scanned - Overlap
    OBVIOUS
  <2>2. SettledOK /\ Scanned' = Scanned /\ Scanned \in Int /\ Scanned <= Height(tip) /\ k \in Int
        /\ k <= Height(tip) - Overlap /\ Overlap \in Nat
    <3>1. latest \in Int /\ cursor \in Int /\ Overlap \in Nat
      BY <1>1, <1>4, ChainSyncConstants DEF TypeOK, Hashes
    <3>2. SettledOK /\ Scanned' = Scanned
      BY <1>1, <1>2, <1>7 DEF Scanned
    <3>3. Scanned \in Int /\ Scanned <= Height(tip)
      BY <1>1, <3>1 DEF RowsOK, Scanned
    <3> QED BY <1>4, <2>1, <3>1, <3>2, <3>3
  <2>3. ASSUME NEW l \in Logs, NEW p, p # 0, Block(p)
        PROVE  /\ Held(tip, l) = p /\ Height(p) <= k => Held(tip, l)' = p
               /\ Held(tip, l)' = p /\ Height(p)' <= k => Held(tip, l) = p /\ Height(p)' = Height(p)
    <3>1. Height(p)' = Height(p) /\ Height(p) \in Int
      BY <1>1, <1>3, <2>3, BlockTypes
    <3> QED BY <1>1, <1>4, <2>2, <2>3, <3>1, SettledPlaces
  <2>4. ASSUME NEW l \in Logs, Held(tip, l)' # 0, Height(Held(tip, l))' <= k
        PROVE  Held(tip, l) = Held(tip, l)' /\ Held(tip, l) # 0 /\ Height(Held(tip, l)) <= k
    <3>1. PICK p : p = Held(tip, l)'
      OBVIOUS
    <3>2. p # 0 /\ Height(p)' <= k /\ Held(tip, l)' = p
      BY <2>4, <3>1
    <3>3. Height(p)' \in Int
      BY <1>2, <2>4, <3>1 DEF ChainMoves, ChainOK, PathOK, Block
    <3>4. Height(p)' <= Height(tip) - Overlap
      BY <1>4, <2>2, <3>2, <3>3
    <3>5. Held(tip, l) = p /\ Height(p)' = Height(p)
      BY <1>1, <3>2, <3>4, SettledPlaces
    <3> QED BY <3>1, <3>2, <3>5
  <2>5. ASSUME NEW l \in GameLogs, Live(l)', Height(rows[l].hash)' <= k
        PROVE  Held(tip, l)' = rows[l].hash
    <3>1. PICK p : p = rows[l].hash
      OBVIOUS
    <3>2. l \in Logs /\ p # 0 /\ Live(l) /\ Block(p) /\ Height(p) <= k
      BY <1>1, <1>2, <1>3, <2>5, <3>1 DEF RowsOK, Live, Logs
    <3>3. Held(tip, l) = p
      BY <2>1, <2>2, <3>1, <3>2 DEF SettledOK
    <3> QED BY <2>3, <3>1, <3>2, <3>3
  <2>6. /\ latest' <= Scanned'
        /\ \A l \in GameLogs : Live(l)' /\ Height(rows[l].hash)' <= k => Held(tip, l)' = rows'[l].hash
        /\ \A l \in GameLogs : Live(l)' /\ Held(tip, l)' # 0 /\ Height(Held(tip, l))' <= k =>
              rows'[l].hash = Held(tip, l)'
        /\ \A l \in Logs : Held(tip, l)' # 0 /\ Height(Held(tip, l))' <= k =>
              rows'[l] # NoRow /\ (l \in Restored \ late' => Live(l)')
    <3>1. latest' <= Scanned' /\ \A l : Live(l)' <=> Live(l)
      BY <1>2, <2>2 DEF SettledOK, Live
    <3>2. \A l \in GameLogs : Live(l)' /\ Height(rows[l].hash)' <= k => Held(tip, l)' = rows'[l].hash
      BY <1>2, <2>5
    <3>3. \A l \in GameLogs : Live(l)' /\ Held(tip, l)' # 0 /\ Height(Held(tip, l))' <= k =>
              rows'[l].hash = Held(tip, l)'
      BY <1>2, <2>1, <2>2, <2>4, <3>1 DEF SettledOK, Logs
    <3>4. \A l \in Logs : Held(tip, l)' # 0 /\ Height(Held(tip, l))' <= k =>
              rows'[l] # NoRow /\ (l \in Restored \ late' => Live(l)')
      BY <1>2, <2>1, <2>2, <2>4, <3>1 DEF SettledOK
    <3> QED BY <3>1, <3>2, <3>3, <3>4
  <2>7. Scanned' - Overlap = k
    BY <2>1, <2>2
  <2> QED BY <2>6, <2>7 DEF SettledOK
<1>8. ASSUME NEW h, Block(h), Shows(h) PROVE Shows(h)'
  BY <1>2, <1>3, <1>8 DEF Shows, Live
<1>9. PassOK'
  <2>1. PICK h : h = pass.head
    OBVIOUS
  <2>2. pass.at \notin {"idle", "head"} => Block(h) /\ Block(h)' /\ Height(h)' = Height(h)
    BY <1>1, <1>3, <2>1 DEF PassOK
  <2>3. pass'.at \notin {"idle", "head"} => Block(pass.head)'
    BY <1>2, <2>1, <2>2
  <2>4. pass'.at \in {"fetch", "commit"} =>
          cursor' # -1 /\ pass'.from = FirstBlock(Height(pass.head), cursor)'
    <3>1. FirstBlock(Height(pass.head), cursor)' = FirstBlock(Height(pass.head)', cursor')
      BY DEF FirstBlock
    <3>2. pass.at \in {"fetch", "commit"} => Height(pass.head)' = Height(pass.head)
      BY <1>2, <2>1, <2>2
    <3> QED BY <1>1, <1>2, <3>1, <3>2 DEF PassOK
  <2>5. ASSUME pass.at = "commit", SameHead'
        PROVE  pass.logs = {<<l, Held(h, l)'>> : l \in {k \in Logs :
                   Held(h, k)' # 0 /\ Height(Held(h, k))' >= pass.from}}
    <3>1. SameHead /\ Block(h)
      BY <2>1, <2>2, <2>5 DEF ChainMoves, Idle
    <3>2. pass.logs = {<<l, Held(h, l)>> : l \in {k \in Logs :
              Held(h, k) # 0 /\ Height(Held(h, k)) >= pass.from}}
      BY <1>1, <2>1, <2>5, <3>1 DEF PassOK
    <3>3. ASSUME NEW l \in Logs
          PROVE  Held(h, l)' = Held(h, l) /\ (Held(h, l) # 0 => Height(Held(h, l))' = Height(Held(h, l)))
      <4>1. PICK p : p = Held(h, l)
        OBVIOUS
      <4>2. Held(h, l)' = p
        BY <1>3, <3>1, <4>1
      <4>3. p # 0 => Block(p)
        BY <1>3, <3>1, <4>1 DEF PathOK
      <4> QED BY <1>3, <4>1, <4>2, <4>3
    <3> QED BY <3>2, <3>3
  <2>6. ASSUME pass.at = "commit", SameHead'
        PROVE  pass'.logs = {<<l, Held(pass.head, l)>> : l \in {k \in Logs :
                   Held(pass.head, k) # 0 /\ Height(Held(pass.head, k)) >= pass.from}}'
    BY <1>2, <2>1, <2>5, <2>6
  <2>7. ASSUME pass'.at \in {"repair", "publish"}, pending' # "reorg", latest' <= Height(pass.head)'
        PROVE  Shows(pass.head)'
    <3>1. Block(h) /\ latest <= Height(h) /\ Shows(h)
      BY <1>1, <1>2, <2>1, <2>2, <2>7 DEF PassOK
    <3>2. Shows(h)'
      BY <1>8, <3>1
    <3> QED BY <1>2, <2>1, <3>2 DEF Shows
  <2>8. pass'.at = "publish" => repairs' = {}
    BY <1>1, <1>2 DEF PassOK
  <2> QED BY <1>2, <2>3, <2>4, <2>6, <2>7, <2>8 DEF PassOK
<1>10. RepairsOK'
  BY <1>1, <1>2 DEF RepairsOK
<1>11. AnchorOK'
  <2>1. PICK w : w = watermark.hash
    OBVIOUS
  <2>2. SUFFICES ASSUME Stands'
                 PROVE  Block(w)' /\ (watermark.current /\ pending # "reorg" =>
                          /\ Shows(w)'
                          /\ \A l \in OtherLogs : Live(l)' =>
                                Held(w, l)' = rows[l].hash \/ Told(l, rows[l].hash)'
                          /\ \A l \in Completions : rows[l].removed => rows[l].repaired)
    BY <1>2, <2>1 DEF AnchorOK, Shows, Told, Held
  <2>3. Stands /\ Block(w) /\ Block(w)'
    BY <1>1, <1>2, <1>3, <2>1, <2>2 DEF AnchorOK, Stands, None
  <2>4. ASSUME watermark.current, pending # "reorg"
        PROVE  /\ Shows(w)'
               /\ \A l \in OtherLogs : Live(l)' => Held(w, l)' = rows[l].hash \/ Told(l, rows[l].hash)'
               /\ \A l \in Completions : rows[l].removed => rows[l].repaired
    <3>1. /\ Shows(w)
          /\ \A l \in OtherLogs : Live(l) => Held(w, l) = rows[l].hash \/ Told(l, rows[l].hash)
          /\ \A l \in Completions : rows[l].removed => rows[l].repaired
      BY <1>1, <2>1, <2>3, <2>4 DEF AnchorOK
    <3>2. Shows(w)'
      BY <1>8, <2>3, <3>1
    <3>3. \A l \in OtherLogs : Live(l)' => Held(w, l)' = rows[l].hash \/ Told(l, rows[l].hash)'
      BY <1>2, <1>3, <2>3, <3>1 DEF Told, Live
    <3> QED BY <3>1, <3>2, <3>3
  <2> QED BY <2>3, <2>4
<1> QED BY <1>2, <1>5, <1>6, <1>7, <1>9, <1>10, <1>11 DEF Inv

-----------------------------------------------------------------------------
(* The steps that leave the rows as they are.                              *)

Still == blocks' = blocks /\ tip' = tip

\* The rows are the same, but for repairs that were made.
SameRows ==
    \A l \in Logs : /\ rows'[l].hash = rows[l].hash /\ rows'[l].removed = rows[l].removed
                    /\ rows'[l] = NoRow <=> rows[l] = NoRow
                    /\ rows[l].repaired => rows'[l].repaired

\* No notice is forgotten, and none gets late.
Remembered ==
    /\ notices' \cup removals' \subseteq notices \cup removals
    /\ notices \cup removals \cup missed \subseteq notices' \cup removals' \cup missed'
    /\ late' = late

\* While the chain rests, what is known of it rests.
LEMMA StillChain ==
    ASSUME Still
    PROVE  /\ \A h : Height(h)' = Height(h) /\ (Block(h)' <=> Block(h))
           /\ \A h : \A i : HashAt(h, i)' = HashAt(h, i)
           /\ \A h : \A l : Held(h, l)' = Held(h, l) /\ Height(Held(h, l))' = Height(Held(h, l))
           /\ \A l : Held(tip, l)' = Held(tip, l) /\ Height(Held(tip, l))' = Height(Held(tip, l))
           /\ Height(tip)' = Height(tip) /\ Top' = Top /\ (ChainOK' <=> ChainOK)
           /\ \A h : \A b : OnChain(h, b)' <=> OnChain(h, b)
<1> USE DEF Still
<1>1. /\ \A h : Height(h)' = Height(h) /\ (Block(h)' <=> Block(h))
      /\ \A h : \A i : HashAt(h, i)' = HashAt(h, i)
      /\ \A h : \A l : Held(h, l)' = Held(h, l) /\ Height(Held(h, l))' = Height(Held(h, l))
      /\ \A l : Held(tip, l)' = Held(tip, l) /\ Height(Held(tip, l))' = Height(Held(tip, l))
      /\ Height(tip)' = Height(tip)
  BY DEF Height, Block, HashAt, Held
<1>2. Top' = Top
  BY DEF Top, Height
<1>3. ChainOK' <=> ChainOK
  BY DEF ChainOK, PathOK, Height, Block, HashAt, Held
<1>4. \A h : \A b : OnChain(h, b)' <=> OnChain(h, b)
  BY DEF OnChain, Height, HashAt
<1> QED BY <1>1, <1>2, <1>3, <1>4

\* The rows keep their order when nothing is told, nothing is handled and no
\* block is scanned.
LEMMA RowsStay ==
    ASSUME Inv, TypeOK', Still, SameRows, Remembered, latest' = latest, handled' \subseteq handled,
           cursor' <= Height(tip), pending = "reorg" => pending' = "reorg",
           pending' # "reorg" => latest <= Scanned' /\ Scanned' <= Scanned
    PROVE  ChainOK' /\ NoticesOK' /\ RowsOK' /\ (pending' # "reorg" => SettledOK')
<1>1. /\ TypeOK /\ ChainOK /\ NoticesOK /\ RowsOK
      /\ pending' # "reorg" => SettledOK
  BY DEF Inv
<1>2. /\ \A h : Height(h)' = Height(h) /\ (Block(h)' <=> Block(h))
      /\ \A l : Held(tip, l)' = Held(tip, l) /\ Height(Held(tip, l))' = Height(Held(tip, l))
      /\ Height(tip)' = Height(tip) /\ ChainOK'
  BY <1>1, StillChain
<1>3. \A l \in Logs : /\ rows'[l].hash = rows[l].hash /\ (Live(l)' <=> Live(l))
                      /\ rows'[l] = NoRow <=> rows[l] = NoRow
  BY DEF SameRows, Live
<1>4. NoticesOK'
  <2>1. ASSUME NEW n \in notices' \cup removals'
        PROVE  /\ Block(n[2])'
               /\ n[1] \notin late' /\ Held(tip, n[1])' # 0 => Height(Held(tip, n[1]))' > Height(tip)' - Overlap
    <3>1. /\ Block(n[2]) /\ late' = late
          /\ n[1] \notin late /\ Held(tip, n[1]) # 0 => Height(Held(tip, n[1])) > Height(tip) - Overlap
      BY <1>1, <2>1 DEF NoticesOK, Remembered
    <3> QED BY <1>2, <3>1
  <2> QED BY <2>1 DEF NoticesOK
<1>5. /\ latest \in Int /\ cursor \in Int /\ cursor' \in Int /\ Scanned \in Int /\ Scanned' \in Int
      /\ Overlap \in Int /\ Height(tip) \in Nat /\ cursor' >= -1
      /\ \A h : Block(h) => Height(h) \in Nat
  <2>1. /\ latest \in Int /\ cursor \in Int /\ cursor' \in Int /\ Overlap \in Int /\ Height(tip) \in Nat
        /\ cursor' >= -1 /\ \A h : Block(h) => Height(h) \in Nat
    <3>1. Top = Height(tip) /\ Height(tip) \in Nat /\ Top' = Top
      BY <1>1, TopIsTip, StillChain
    <3>2. \A h : Block(h) => Height(h) \in Nat
      BY <1>1, BlockTypes
    <3>3. MaxBlocks \in Nat /\ Overlap \in Int
      BY ChainSyncConstants
    <3>4. latest \in Int /\ cursor \in Int /\ cursor' \in Int /\ cursor' >= -1
      BY <1>1, <3>1, <3>3 DEF TypeOK, Hashes
    <3> QED BY <3>1, <3>2, <3>3, <3>4
  <2> QED BY <2>1 DEF Scanned
<1>6. RowsOK'
  <2>1. latest' <= Height(tip)' /\ cursor' <= Height(tip)'
    BY <1>1, <1>2 DEF RowsOK
  <2>2. \A l \in Logs : IF rows'[l].hash = 0 THEN rows'[l] = NoRow
                       ELSE Block(rows[l].hash)' /\ Height(rows[l].hash)' <= latest'
    <3>1. ASSUME NEW l \in Logs, rows'[l].hash # 0
          PROVE  Block(rows[l].hash)' /\ Height(rows[l].hash)' <= latest'
      <4>1. PICK p : p = rows'[l].hash
        OBVIOUS
      <4>2. p = rows[l].hash /\ Block(p) /\ Height(p) <= latest
        BY <1>1, <1>3, <3>1, <4>1 DEF RowsOK
      <4>3. Block(p)' /\ Height(p)' <= latest'
        BY <1>2, <4>2
      <4> QED BY <4>1, <4>3
    <3>2. \A l \in Logs : rows'[l].hash = 0 => rows'[l] = NoRow
      BY <1>1, <1>3 DEF RowsOK
    <3> QED BY <3>1, <3>2
  <2>3. \A l \in handled' : rows'[l] # NoRow /\ (l \in Restored => Live(l)')
    <3>1. \A l \in handled : l \in Logs
      BY <1>1 DEF TypeOK
    <3> QED BY <1>1, <1>3, <3>1 DEF RowsOK
  <2>4. \A l \in OtherLogs : Live(l)' =>
           \/ Held(tip, l)' = rows'[l].hash
           \/ <<l, rows'[l].hash>> \in notices' \cup removals' \cup missed'
    BY <1>1, <1>2, <1>3 DEF RowsOK, Logs, Remembered
  <2> QED BY <2>1, <2>2, <2>3, <2>4 DEF RowsOK
<1>7. ASSUME pending' # "reorg" PROVE SettledOK'
  <2>1. SettledOK /\ latest' <= Scanned' /\ Scanned' <= Scanned
    BY <1>1, <1>7
  <2>2. PICK k, m : k = Scanned' - Overlap /\ m = Scanned - Overlap
    OBVIOUS
  <2>3. k \in Int /\ m \in Int /\ k <= m /\ \A h : Block(h) /\ Height(h) <= k => Height(h) <= m
    <3>1. k \in Int /\ m \in Int /\ k <= m
      <4>1. PICK a, b : a = Scanned' /\ b = Scanned
        OBVIOUS
      <4>2. a \in Int /\ b \in Int /\ Overlap \in Int /\ a <= b
        BY <1>5, <2>1, <4>1
      <4>3. k = a - Overlap /\ m = b - Overlap
        BY <2>2, <4>1
      <4> QED BY <4>2, <4>3
    <3>2. ASSUME NEW h, Block(h), Height(h) <= k PROVE Height(h) <= m
      BY <1>5, <3>1, <3>2
    <3> QED BY <3>1, <3>2
  <2>4. ASSUME NEW l \in Logs, Held(tip, l) # 0, Height(Held(tip, l)) <= k
        PROVE  Height(Held(tip, l)) <= m
    <3>1. Block(Held(tip, l))
      BY <1>1, <2>4, BlockTypes DEF ChainOK, PathOK, Block
    <3> QED BY <2>3, <2>4, <3>1
  <2>5. ASSUME NEW l \in Logs, Live(l), Height(rows[l].hash) <= k
        PROVE  Height(rows[l].hash) <= m
    <3>1. Block(rows[l].hash)
      BY <1>1, <2>5 DEF RowsOK, Live
    <3> QED BY <2>3, <2>5, <3>1
  <2>6. ASSUME NEW l \in GameLogs, Live(l)', Height(rows[l].hash)' <= k
        PROVE  Held(tip, l)' = rows'[l].hash
    <3>1. PICK p : p = rows'[l].hash
      OBVIOUS
    <3>2. p = rows[l].hash /\ Live(l) /\ Height(p)' <= k /\ l \in Logs
      BY <1>3, <2>6, <3>1 DEF Logs
    <3>3. Height(rows[l].hash) <= k
      BY <1>2, <3>2
    <3>4. Held(tip, l) = p
      BY <2>1, <2>2, <2>5, <3>2, <3>3 DEF SettledOK
    <3> QED BY <1>2, <3>1, <3>4
  <2>7. ASSUME NEW l \in Logs, Held(tip, l)' # 0, Height(Held(tip, l))' <= k
        PROVE  Held(tip, l) # 0 /\ Height(Held(tip, l)) <= m
    BY <1>2, <2>4, <2>7
  <2>8. \A l \in GameLogs : Live(l)' /\ Held(tip, l)' # 0 /\ Height(Held(tip, l))' <= k =>
              rows'[l].hash = Held(tip, l)'
    <3>1. ASSUME NEW l \in GameLogs, Live(l)', Held(tip, l)' # 0, Height(Held(tip, l))' <= k
          PROVE  rows'[l].hash = Held(tip, l)'
      <4>1. l \in Logs /\ Held(tip, l) # 0 /\ Height(Held(tip, l)) <= m /\ Live(l)
        BY <1>3, <2>7, <3>1 DEF Logs
      <4>2. rows[l].hash = Held(tip, l)
        BY <2>1, <2>2, <4>1 DEF SettledOK
      <4> QED BY <1>2, <1>3, <4>1, <4>2
    <3> QED BY <3>1
  <2>9. \A l \in Logs : Held(tip, l)' # 0 /\ Height(Held(tip, l))' <= k =>
              rows'[l] # NoRow /\ (l \in Restored \ late' => Live(l)')
    <3>1. ASSUME NEW l \in Logs, Held(tip, l)' # 0, Height(Held(tip, l))' <= k
          PROVE  rows'[l] # NoRow /\ (l \in Restored \ late' => Live(l)')
      <4>1. Held(tip, l) # 0 /\ Height(Held(tip, l)) <= m
        BY <2>7, <3>1
      <4>2. rows[l] # NoRow /\ (l \in Restored \ late => Live(l))
        BY <2>1, <2>2, <4>1 DEF SettledOK
      <4> QED BY <1>3, <4>2 DEF Remembered
    <3> QED BY <3>1
  <2> QED BY <2>1, <2>2, <2>6, <2>8, <2>9 DEF SettledOK
<1> QED BY <1>2, <1>4, <1>6, <1>7

\* The watermark keeps its promise, or falls.
LEMMA AnchorStays ==
    ASSUME Inv, Still, SameRows, Remembered, pending = "reorg" => pending' = "reorg",
           watermark' \in {watermark, None}
    PROVE  AnchorOK'
<1>1. TypeOK /\ AnchorOK /\ Completions \subseteq Logs
  BY ChainSyncConstants DEF Inv, Logs
<1>2. /\ \A h : Block(h)' <=> Block(h)
      /\ \A h : \A l : Held(h, l)' = Held(h, l)
  BY StillChain
<1>3. \A l \in Logs : /\ rows'[l].hash = rows[l].hash /\ (Live(l)' <=> Live(l))
                      /\ rows'[l] = NoRow <=> rows[l] = NoRow
                      /\ rows'[l].removed = rows[l].removed
                      /\ rows[l].repaired => rows'[l].repaired
  BY DEF SameRows, Live
<1>4. CASE watermark' = None
  BY <1>4 DEF AnchorOK, Stands
<1>5. CASE watermark' = watermark
  <2>1. PICK w : w = watermark.hash
    OBVIOUS
  <2>2. SUFFICES ASSUME Stands'
                 PROVE  Block(w)' /\ (watermark.current /\ pending' # "reorg" =>
                          /\ Shows(w)'
                          /\ \A l \in OtherLogs : Live(l)' =>
                                Held(w, l)' = rows'[l].hash \/ Told(l, rows[l].hash)'
                          /\ \A l \in Completions : rows'[l].removed => rows'[l].repaired)
    BY <1>5, <2>1 DEF AnchorOK, Shows, Told, Held
  <2>3. Stands /\ Block(w) /\ Block(w)'
    BY <1>1, <1>2, <1>5, <2>1, <2>2 DEF AnchorOK, Stands, None
  <2>4. ASSUME watermark.current, pending' # "reorg"
        PROVE  /\ Shows(w)'
               /\ \A l \in OtherLogs : Live(l)' => Held(w, l)' = rows'[l].hash \/ Told(l, rows[l].hash)'
               /\ \A l \in Completions : rows'[l].removed => rows'[l].repaired
    <3>1. /\ Shows(w)
          /\ \A l \in OtherLogs : Live(l) => Held(w, l) = rows[l].hash \/ Told(l, rows[l].hash)
          /\ \A l \in Completions : rows[l].removed => rows[l].repaired
      BY <1>1, <2>1, <2>3, <2>4 DEF AnchorOK
    <3>2. Shows(w)'
      BY <1>2, <1>3, <3>1 DEF Shows, Logs, Remembered
    <3>3. \A l \in OtherLogs : Live(l)' => Held(w, l)' = rows'[l].hash \/ Told(l, rows[l].hash)'
      BY <1>2, <1>3, <3>1 DEF Told, Logs, Remembered
    <3>4. \A l \in Completions : rows'[l].removed => rows'[l].repaired
      BY <1>1, <1>3, <3>1
    <3> QED BY <3>2, <3>3, <3>4
  <2> QED BY <2>3, <2>4
<1> QED BY <1>4, <1>5

\* Nothing happens to the rows.
Untouched == UNCHANGED <<chain, ledger>>

\* Then the chain rests and the rows are the same.
LEMMA UntouchedRows ==
    ASSUME Untouched
    PROVE  Still /\ SameRows /\ latest' = latest /\ rows' = rows
  BY DEF Untouched, chain, ledger, Still, SameRows

\* What a pass that goes on as before relies on stays.
LEMMA PassStays ==
    ASSUME Inv, Still, rows' = rows, latest' = latest, pending = "reorg" => pending' = "reorg",
           cursor' = cursor, pass' = pass, repairs' = repairs, late' = late
    PROVE  PassOK'
<1>1. PassOK
  BY DEF Inv
<1>2. /\ \A h : Height(h)' = Height(h) /\ (Block(h)' <=> Block(h))
      /\ \A h : \A i : HashAt(h, i)' = HashAt(h, i)
      /\ \A h : \A l : Held(h, l)' = Held(h, l) /\ Height(Held(h, l))' = Height(Held(h, l))
      /\ \A i : HashAt(tip, i)' = HashAt(tip, i)
  BY StillChain DEF Still, HashAt
<1>3. PICK h : h = pass.head
  OBVIOUS
<1>4. pass'.at \notin {"idle", "head"} => Block(pass.head)'
  BY <1>1, <1>2, <1>3 DEF PassOK
<1>5. pass'.at \in {"fetch", "commit"} =>
          cursor' # -1 /\ pass'.from = FirstBlock(Height(pass.head), cursor)'
  <2>1. Height(pass.head)' = Height(pass.head)
    BY <1>2
  <2>2. FirstBlock(Height(pass.head), cursor)' = FirstBlock(Height(pass.head)', cursor')
    BY DEF FirstBlock
  <2> QED BY <1>1, <2>1, <2>2 DEF PassOK
<1>6. SameHead' => SameHead
  BY <1>2 DEF SameHead
<1>7. \A k \in Logs : /\ Held(pass.head, k)' = Held(pass.head, k)
                      /\ Height(Held(pass.head, k))' = Height(Held(pass.head, k))
  <2>1. \A k \in Logs : Held(h, k)' = Held(h, k) /\ Height(Held(h, k))' = Height(Held(h, k))
    BY <1>2
  <2> QED BY <1>3, <2>1 DEF Held, Height
<1>8. pass'.at = "commit" /\ SameHead' =>
         pass'.logs = {<<l, Held(pass.head, l)>> : l \in {k \in Logs :
             Held(pass.head, k) # 0 /\ Height(Held(pass.head, k)) >= pass.from}}'
  BY <1>1, <1>6, <1>7 DEF PassOK
<1>9. pass'.at \in {"repair", "publish"} /\ pending' # "reorg" /\ latest' <= Height(pass.head)' =>
         Shows(pass.head)'
  <2>1. Shows(pass.head) => Shows(pass.head)'
    BY <1>7 DEF Shows, Live, Logs
  <2>2. Height(pass.head)' = Height(pass.head)
    BY <1>2
  <2> QED BY <1>1, <2>1, <2>2 DEF PassOK
<1>10. pass'.at = "publish" => repairs' = {}
  BY <1>1 DEF PassOK
<1> QED BY <1>4, <1>5, <1>8, <1>9, <1>10 DEF PassOK

\* A notice arrives or is lost.
LEMMA NoticeStep ==
    ASSUME Inv, Deliver \/ Miss
    PROVE  Inv'
<1>1. TypeOK /\ ChainOK /\ PassOK /\ RepairsOK /\ RowsOK /\ (pending # "reorg" => SettledOK)
  BY DEF Inv
<1>2. /\ Untouched /\ UNCHANGED <<projection, handled, cursor, repairs, verified, announcing, pass>>
      /\ (faults' = faults \/ Fault)
  BY DEF Deliver, Miss, Untouched
<1>3. Still /\ SameRows /\ latest' = latest /\ rows' = rows /\ Top' = Top
  BY <1>2, UntouchedRows, StillChain
<1>4. Remembered /\ notices' \cup removals' \cup missed' \subseteq notices \cup removals \cup missed
  BY DEF Deliver, Miss, Remembered
<1>5. TypeOK'
  <2>1. notices' \cup missed' \cup removals' \subseteq Logs \X Hashes
    BY <1>1, <1>4 DEF TypeOK
  <2>2. faults' \in 0 .. MaxFaults
    BY <1>1, <1>2, ChainSyncConstants, SMTT(30) DEF TypeOK, Fault
  <2>3. late' = late
    BY <1>4 DEF Remembered
  <2> QED BY <1>1, <1>2, <1>3, <2>1, <2>2, <2>3 DEF TypeOK, Still, projection, announcing
<1>6. /\ pending' = pending /\ watermark' = watermark /\ handled' = handled /\ cursor' = cursor
      /\ repairs' = repairs /\ verified' = verified /\ pass' = pass
  BY <1>2 DEF projection
<1>7. ChainOK' /\ NoticesOK' /\ RowsOK' /\ (pending' # "reorg" => SettledOK')
  <2>1. Scanned' = Scanned /\ Scanned \in Int
    BY <1>1, <1>3, <1>6, TopIsTip DEF Scanned, TypeOK, Hashes
  <2>2. pending' # "reorg" => latest <= Scanned' /\ Scanned' <= Scanned
    BY <1>1, <1>6, <2>1 DEF SettledOK
  <2>3. cursor' <= Height(tip)
    BY <1>1, <1>6 DEF RowsOK
  <2> QED BY <1>3, <1>4, <1>5, <1>6, <2>2, <2>3, RowsStay
<1>8. PassOK' /\ AnchorOK'
  BY <1>3, <1>4, <1>6, PassStays, AnchorStays DEF Remembered
<1>9. RepairsOK'
  BY <1>1, <1>3, <1>6 DEF RepairsOK
<1> QED BY <1>5, <1>7, <1>8, <1>9 DEF Inv

\* A step that touches no row and tells nothing new.
LEMMA QuietStep ==
    ASSUME Inv, Untouched, TypeOK', Remembered, handled' \subseteq handled, cursor' <= Height(tip),
           pending = "reorg" => pending' = "reorg",
           pending' # "reorg" => latest <= Scanned' /\ Scanned' <= Scanned,
           watermark' \in {watermark, None}, PassOK', RepairsOK'
    PROVE  Inv'
<1>1. Still /\ SameRows /\ latest' = latest
  BY UntouchedRows
<1>2. ChainOK' /\ NoticesOK' /\ RowsOK' /\ (pending' # "reorg" => SettledOK')
  BY <1>1, RowsStay
<1>3. AnchorOK'
  BY <1>1, AnchorStays
<1> QED BY <1>2, <1>3 DEF Inv

\* What a step that leaves the cursor or forgets it knows of it.
LEMMA CursorStays ==
    ASSUME Inv, Untouched, cursor' = cursor \/ cursor' = -1, pending = "reorg" => pending' = "reorg"
    PROVE  /\ cursor' <= Height(tip)
           /\ pending' # "reorg" => latest <= Scanned' /\ Scanned' <= Scanned
<1>1. TypeOK /\ ChainOK /\ RowsOK /\ (pending' # "reorg" => SettledOK) /\ latest' = latest
  BY DEF Inv, Untouched, ledger
<1>2. Height(tip) \in Nat /\ latest \in Int /\ cursor \in Int /\ Scanned \in Int
  <2>1. Height(tip) \in Nat /\ MaxBlocks \in Nat /\ Top = Height(tip)
    BY <1>1, TopIsTip, ChainSyncConstants
  <2> QED BY <1>1, <2>1 DEF Scanned, TypeOK, Hashes
<1>3. cursor' <= Height(tip)
  BY <1>1, <1>2 DEF RowsOK
<1>4. ASSUME pending' # "reorg" PROVE latest <= Scanned' /\ Scanned' <= Scanned
  <2>1. latest <= Scanned
    BY <1>1, <1>4 DEF SettledOK
  <2>2. Scanned' = Scanned \/ Scanned' = latest
    BY <1>1 DEF Scanned
  <2> QED BY <1>2, <2>1, <2>2
<1> QED BY <1>3, <1>4

\* A pass begins with the head that the node tells.
LEMMA ReadHeadStep ==
    ASSUME Inv, ReadHead
    PROVE  Inv'
<1>1. TypeOK /\ ChainOK /\ RepairsOK
  BY DEF Inv
<1>2. /\ Untouched /\ UNCHANGED <<socket, projection, handled, cursor, removals, repairs, verified, announcing>>
      /\ faults' = faults \/ Fault
  BY DEF ReadHead, Untouched
<1>3. Still /\ Top' = Top /\ rows' = rows /\ latest' = latest
  BY <1>2, UntouchedRows, StillChain
<1>4. PICK h : Block(h) /\ pass' = [Idle EXCEPT !.at = "check", !.head = h]
  <2>1. Block(tip) /\ Height(tip) \in Nat
    BY <1>1, BlockTypes
  <2>2. Height(tip) > 1 => Block(HashAt(tip, Height(tip) - 1))
    <3>1. PICK i : i = Height(tip) - 1
      OBVIOUS
    <3>2. Height(tip) > 1 => i \in 1 .. Height(tip)
      BY <2>1, <3>1
    <3> QED BY <1>1, <2>1, <3>1, <3>2 DEF ChainOK, PathOK, Block
  <2> QED BY <2>1, <2>2 DEF ReadHead
<1>5. h \in Hashes /\ MaxBlocks \in Nat \ {0}
  BY <1>1, <1>4, BlockTypes, ChainSyncConstants
<1>6. TypeOK'
  <2>1. faults' \in 0 .. MaxFaults
    BY <1>1, <1>2, ChainSyncConstants, SMTT(30) DEF TypeOK, Fault
  <2>2. pass' \in [at : {"idle", "head", "check", "fetch", "commit", "repair", "publish"},
                   head : Hashes, from : Base .. MaxBlocks, logs : SUBSET (Logs \X Hashes)]
    <3>1. pass' = [at |-> "check", head |-> h, from |-> 1, logs |-> {}]
      BY <1>4 DEF Idle, Base
    <3>2. 1 \in Base .. MaxBlocks
      BY <1>5 DEF Base
    <3> QED BY <1>5, <3>1, <3>2
  <2> QED BY <1>1, <1>2, <1>3, <2>1, <2>2 DEF TypeOK, Still, socket, projection, announcing
<1>7. PassOK'
  <2>1. pass'.at = "check" /\ pass'.head = h
    BY <1>4 DEF Idle
  <2>2. Block(pass.head)'
    BY <1>3, <1>4, <2>1 DEF Block, Still
  <2> QED BY <2>1, <2>2 DEF PassOK
<1>8. RepairsOK'
  BY <1>1, <1>2, <1>3, <1>4 DEF RepairsOK, Idle
<1>9. /\ Remembered /\ handled' \subseteq handled /\ cursor' = cursor /\ pending' = pending
      /\ watermark' = watermark
  BY <1>2 DEF Remembered, socket, projection
<1>10. /\ cursor' <= Height(tip)
       /\ pending' # "reorg" => latest <= Scanned' /\ Scanned' <= Scanned
  BY <1>2, <1>9, CursorStays
<1> QED BY <1>2, <1>6, <1>7, <1>8, <1>9, <1>10, QuietStep

\* The values of a watermark.
LEMMA AnchorTypes ==
    ASSUME NEW a \in Anchors
    PROVE  /\ None \in Anchors /\ [a EXCEPT !.current = TRUE] \in Anchors /\ Dirty(a) \in Anchors
           /\ Dirty(a).hash = a.hash /\ Dirty(a).current = FALSE
           /\ Dirty(a) # None => a # None
<1>1. 0 \in Hashes
  BY ChainSyncConstants DEF Hashes
<1>2. None \in [hash : Hashes, current : BOOLEAN]
  BY <1>1, Zenon DEF None
<1>3. a \in [hash : Hashes, current : BOOLEAN]
  BY DEF Anchors
<1>4. /\ [a EXCEPT !.current = TRUE] \in [hash : Hashes, current : BOOLEAN]
      /\ [a EXCEPT !.current = FALSE] \in [hash : Hashes, current : BOOLEAN]
      /\ [a EXCEPT !.current = FALSE].hash = a.hash /\ [a EXCEPT !.current = FALSE].current = FALSE
  BY <1>3
<1>5. a = None => Dirty(a) = None
  BY <1>2, <1>3, <1>4 DEF Dirty, None
<1> QED BY <1>2, <1>4, <1>5 DEF Dirty, Anchors

\* The pass ends before its time or the process dies.
LEMMA AbortStep ==
    ASSUME Inv, PassFails \/ Crash \/ HeadChanged
    PROVE  Inv'
<1>1. TypeOK /\ RepairsOK
  BY DEF Inv
<1>2. Untouched /\ transport' = transport /\ pass' = Idle /\ (faults' = faults \/ Fault)
  BY DEF PassFails, Crash, HeadChanged, Untouched, ledger, chain, projection
<1>3. Still /\ Top' = Top /\ rows' = rows /\ latest' = latest
  BY <1>2, UntouchedRows, StillChain
<1>4. \/ UNCHANGED projection
      \/ Invalidate("headChanged")
  BY DEF PassFails, Crash, HeadChanged
<1>5. /\ watermark' \in {watermark, None}
      /\ pending = "reorg" => pending' = "reorg"
      /\ pending' \in {"none", "anchorChanged", "headChanged", "removedLog", "reorg"}
      /\ watermark' \in Anchors /\ lostAnchor' \in Anchors
  <2>1. /\ pending \in {"none", "anchorChanged", "headChanged", "removedLog", "reorg"}
        /\ watermark \in Anchors /\ lostAnchor \in Anchors
    BY <1>1 DEF TypeOK
  <2>2. MaxBlocks \in Nat
    BY ChainSyncConstants
  <2>3. CASE UNCHANGED projection
    BY <2>1, <2>3 DEF projection
  <2>4. CASE Invalidate("headChanged")
    <3>1. None \in Anchors /\ [watermark EXCEPT !.current = TRUE] \in Anchors
      BY <2>1, AnchorTypes
    <3> QED BY <2>1, <2>4, <3>1 DEF Invalidate
  <2> QED BY <1>4, <2>3, <2>4
<1>6. \/ /\ handled' = handled /\ cursor' = cursor /\ repairs' = repairs /\ verified' = verified
         /\ UNCHANGED <<socket, removals, announcing>>
      \/ /\ handled' = {} /\ cursor' = -1 /\ repairs' = {} /\ verified' = FALSE /\ event' = FALSE /\ owed' = FALSE
         /\ removals' = {} /\ notices' = {} /\ missed' = missed \cup notices \cup removals
         /\ late' = late
  BY DEF PassFails, Crash, HeadChanged, RolledBack, projection
<1>7. TypeOK'
  <2>1. faults' \in 0 .. MaxFaults
    BY <1>1, <1>2, ChainSyncConstants, SMTT(30) DEF TypeOK, Fault
  <2>2. pass' \in [at : {"idle", "head", "check", "fetch", "commit", "repair", "publish"},
                   head : Hashes, from : Base .. MaxBlocks, logs : SUBSET (Logs \X Hashes)]
    BY <1>2, ChainSyncConstants DEF Idle, Base, Hashes
  <2>3. /\ notices' \cup missed' \cup removals' \subseteq Logs \X Hashes
        /\ handled' \subseteq Logs /\ repairs' \subseteq Completions
        /\ {verified', event', owed'} \subseteq BOOLEAN /\ late' \subseteq Logs
    BY <1>1, <1>6 DEF TypeOK, socket, announcing
  <2>4. cursor' \in -1 .. Top'
    <3>1. Top \in Nat
      BY <1>1, TopIsTip DEF Inv
    <3> QED BY <1>1, <1>3, <1>6, <3>1 DEF TypeOK
  <2> QED BY <1>1, <1>2, <1>3, <1>5, <2>1, <2>2, <2>3, <2>4 DEF TypeOK, Still
<1>8. PassOK'
  BY <1>2 DEF PassOK, Idle
<1>9. RepairsOK'
  BY <1>1, <1>2, <1>3, <1>6 DEF RepairsOK, Idle
<1>10. Remembered /\ handled' \subseteq handled /\ (cursor' = cursor \/ cursor' = -1)
  BY <1>6 DEF Remembered, socket
<1>11. /\ cursor' <= Height(tip)
       /\ pending' # "reorg" => latest <= Scanned' /\ Scanned' <= Scanned
  BY <1>2, <1>5, <1>10, CursorStays
<1> QED BY <1>2, <1>5, <1>7, <1>8, <1>9, <1>10, <1>11, QuietStep

\* The first block of a pass: the first of the index, or one of the overlap.
LEMMA FirstBlockIs ==
    ASSUME NEW head \in Nat \ {0}, NEW at \in Nat
    PROVE  /\ FirstBlock(head, at) \in 1 .. head
           /\ \/ FirstBlock(head, at) = 1
              \/ at >= 1 /\ FirstBlock(head, at) + Overlap - 1 = IF head <= at THEN head ELSE at
<1>1. Overlap \in Nat \ {0}
  BY ChainSyncConstants
<1>2. CASE at < 1
  BY <1>2 DEF FirstBlock, Base
<1>3. CASE ~ (at < 1)
  <2>1. PICK m : m = Min({head, at})
    OBVIOUS
  <2>2. m = (IF head <= at THEN head ELSE at) /\ m \in Nat /\ m <= head
    <3>1. head \in Int /\ at \in Int
      OBVIOUS
    <3>2. m = IF head <= at THEN head ELSE at
      BY <2>1, <3>1, OfTwo
    <3> QED BY <3>1, <3>2
  <2>3. PICK k : k = m - (Overlap - 1)
    OBVIOUS
  <2>4. k \in Int /\ k <= head /\ k + Overlap - 1 = m
    BY <1>1, <2>2, <2>3
  <2>5. Max({1, k}) = IF 1 >= k THEN 1 ELSE k
    BY <2>4, OfTwo
  <2>6. FirstBlock(head, at) = Max({1, k})
    BY <1>3, <2>1, <2>3 DEF FirstBlock, Base
  <2> QED BY <1>3, <2>2, <2>4, <2>5, <2>6
<1> QED BY <1>2, <1>3

\* A pass compares the watermark with the chain.
LEMMA CheckAnchorStep ==
    ASSUME Inv, CheckAnchor
    PROVE  Inv'
<1>1. TypeOK /\ ChainOK /\ RepairsOK /\ PassOK /\ RowsOK /\ (pending # "reorg" => SettledOK)
  BY DEF Inv
<1>2. /\ Untouched /\ UNCHANGED <<socket, handled, removals, repairs, announcing, faults>> /\ pass.at = "check"
  BY DEF CheckAnchor, Untouched
<1>3. Still /\ Top' = Top /\ rows' = rows /\ latest' = latest
  BY <1>2, UntouchedRows, StillChain
<1>4. PICK start, head : start = (IF cursor = -1 THEN InitialCursor ELSE cursor) /\ head = Height(pass.head)
  OBVIOUS
<1>5. /\ Block(pass.head) /\ head \in Nat \ {0} /\ head <= MaxBlocks /\ Top = Height(tip)
      /\ Height(tip) \in Nat /\ latest \in Nat /\ cursor \in -1 .. Height(tip) /\ latest <= Height(tip)
      /\ MaxBlocks \in Nat \ {0}
  <2>1. Block(pass.head) /\ Top = Height(tip) /\ Height(tip) \in Nat /\ latest \in Nat
    <3>1. Block(pass.head)
      BY <1>1, <1>2 DEF PassOK
    <3>2. latest \in 0 .. MaxBlocks /\ MaxBlocks \in Nat
      BY <1>1, ChainSyncConstants DEF TypeOK, Hashes
    <3> QED BY <1>1, <3>1, <3>2, TopIsTip
  <2>2. cursor \in -1 .. Height(tip) /\ latest <= Height(tip)
    BY <1>1, <2>1 DEF RowsOK, TypeOK
  <2>3. pass.head \in 1 .. Len(blocks) /\ Len(blocks) <= MaxBlocks /\ head \in 1 .. pass.head
    BY <1>1, <1>4, <2>1, BlockTypes DEF Block, ChainOK, PathOK
  <2> QED BY <2>1, <2>2, <2>3, BlockTypes, ChainSyncConstants
<1>6. start \in 0 .. Height(tip) /\ (latest # 0 \/ cursor # -1 => start = Scanned) /\ (cursor = -1 /\ latest = 0 => start = 0)
  BY <1>4, <1>5 DEF InitialCursor, Base, Scanned
<1>7. \/ /\ pass' = Idle /\ transport' = "behind" /\ UNCHANGED <<watermark, pending, lostAnchor, verified, cursor>>
      \/ /\ transport' = transport /\ cursor' = start
         /\ pass' = [pass EXCEPT !.at = "fetch", !.from = FirstBlock(head, start)]
         /\ \/ Invalidate("anchorChanged") /\ verified' = FALSE
            \/ UNCHANGED <<watermark, pending, lostAnchor, verified>>
  BY <1>4 DEF CheckAnchor
<1>8. FirstBlock(head, start) \in Base .. MaxBlocks
  <2>1. FirstBlock(head, start) \in 1 .. head
    <3>1. start \in Nat
      BY <1>6
    <3> QED BY <1>5, <3>1, FirstBlockIs
  <2> QED BY <1>5, <2>1 DEF Base
<1>9. /\ watermark' \in {watermark, None}
      /\ pending = "reorg" => pending' = "reorg"
      /\ pending' \in {"none", "anchorChanged", "headChanged", "removedLog", "reorg"}
      /\ watermark' \in Anchors /\ lostAnchor' \in Anchors
      /\ verified' \in BOOLEAN /\ (verified' => verified)
  <2>1. /\ pending \in {"none", "anchorChanged", "headChanged", "removedLog", "reorg"}
        /\ watermark \in Anchors /\ lostAnchor \in Anchors /\ verified \in BOOLEAN
    BY <1>1 DEF TypeOK
  <2>2. CASE UNCHANGED <<watermark, pending, lostAnchor, verified>>
    BY <2>1, <2>2
  <2>3. CASE Invalidate("anchorChanged") /\ verified' = FALSE
    <3>1. None \in Anchors /\ [watermark EXCEPT !.current = TRUE] \in Anchors
      BY <2>1, AnchorTypes
    <3> QED BY <2>1, <2>3, <3>1 DEF Invalidate
  <2> QED BY <1>7, <2>2, <2>3
<1>10. /\ pass'.at \in {"idle", "fetch"} /\ transport' \in {"none", "behind"}
       /\ pass' \in [at : {"idle", "head", "check", "fetch", "commit", "repair", "publish"},
                     head : Hashes, from : Base .. MaxBlocks, logs : SUBSET (Logs \X Hashes)]
       /\ pass'.at = "fetch" => pass'.head = pass.head /\ cursor' = start /\ pass'.from = FirstBlock(head, start)
  <2>1. /\ pass \in [at : {"idle", "head", "check", "fetch", "commit", "repair", "publish"},
                     head : Hashes, from : Base .. MaxBlocks, logs : SUBSET (Logs \X Hashes)]
        /\ transport \in {"none", "behind"}
    BY <1>1 DEF TypeOK
  <2>2. CASE pass' = Idle /\ transport' = "behind"
    <3>1. 0 \in Hashes /\ 1 \in Base .. MaxBlocks /\ Idle = [at |-> "idle", head |-> 0, from |-> 1, logs |-> {}]
      BY <1>5 DEF Hashes, Base, Idle
    <3> QED BY <2>2, <3>1
  <2>3. CASE /\ pass' = [pass EXCEPT !.at = "fetch", !.from = FirstBlock(head, start)]
             /\ transport' = transport /\ cursor' = start
    BY <1>8, <2>1, <2>3
  <2> QED BY <1>7, <2>2, <2>3
<1>11. cursor' \in -1 .. Height(tip) /\ (cursor' = cursor \/ cursor' = start)
  BY <1>5, <1>6, <1>7
<1>12. TypeOK'
  BY <1>1, <1>2, <1>3, <1>5, <1>9, <1>10, <1>11 DEF TypeOK, Still, socket, announcing
<1>13. PassOK'
  <2>1. PICK h : h = pass.head
    OBVIOUS
  <2>2. ASSUME pass'.at = "fetch"
        PROVE  /\ Block(pass.head)'
               /\ cursor' # -1 /\ pass'.from = FirstBlock(Height(pass.head), cursor)'
    <3>1. pass'.head = h /\ Block(h)' /\ Height(h)' = head
      BY <1>3, <1>4, <1>5, <1>10, <2>1, <2>2, StillChain
    <3>2. cursor' = start /\ start # -1
      BY <1>6, <1>10, <2>2
    <3>3. FirstBlock(Height(pass.head), cursor)' = FirstBlock(Height(pass.head)', cursor')
      BY DEF FirstBlock
    <3>4. Height(pass.head)' = head /\ Block(pass.head)'
      BY <3>1 DEF Height, Block
    <3> QED BY <1>10, <2>2, <3>2, <3>3, <3>4
  <2> QED BY <1>10, <2>2 DEF PassOK
<1>14. RepairsOK'
  BY <1>1, <1>2, <1>3, <1>9, <1>10 DEF RepairsOK
<1>15. Remembered /\ handled' \subseteq handled /\ cursor' <= Height(tip)
  BY <1>2, <1>5, <1>11 DEF Remembered, socket
<1>16. ASSUME pending' # "reorg" PROVE latest <= Scanned' /\ Scanned' <= Scanned
  <2>1. latest <= Scanned
    BY <1>1, <1>9, <1>16 DEF SettledOK
  <2>2. Scanned' = Scanned
    <3>1. CASE cursor' = cursor
      BY <1>3, <3>1 DEF Scanned
    <3>2. CASE cursor' = start /\ (latest # 0 \/ cursor # -1)
      BY <1>6, <3>2 DEF Scanned
    <3>3. CASE cursor' = start /\ latest = 0 /\ cursor = -1
      BY <1>6, <3>3 DEF Scanned
    <3> QED BY <1>11, <3>1, <3>2, <3>3
  <2>3. Scanned \in Int
    BY <1>5 DEF Scanned
  <2> QED BY <2>1, <2>2, <2>3
<1> QED BY <1>2, <1>9, <1>12, <1>13, <1>14, <1>15, <1>16, QuietStep

\* A pass reads the logs of the chain of the moment.
LEMMA FetchStep ==
    ASSUME Inv, Fetch
    PROVE  Inv'
<1>1. TypeOK /\ ChainOK /\ RepairsOK /\ PassOK
  BY DEF Inv
<1>2. /\ Untouched /\ UNCHANGED <<socket, projection, handled, cursor, removals, repairs, verified, announcing, faults>>
      /\ pass.at = "fetch"
  BY DEF Fetch, Untouched
<1>3. Still /\ Top' = Top /\ rows' = rows /\ latest' = latest
  BY <1>2, UntouchedRows, StillChain
<1>4. PICK h, k, from, logs :
         /\ h = pass.head /\ k = Height(h) /\ from = pass.from
         /\ logs = {<<l, Held(tip, l)>> : l \in {m \in Logs :
                       Held(tip, m) # 0 /\ Height(Held(tip, m)) \in from .. k}}
  OBVIOUS
<1>5. pass' = [pass EXCEPT !.at = "commit", !.logs = logs]
  BY <1>4 DEF Fetch, Held
<1>6. /\ Block(h) /\ k \in 1 .. Height(tip) /\ PathOK(tip) /\ from \in Int /\ Block(tip)
      /\ cursor # -1 /\ from = FirstBlock(k, cursor)
  <2>1. Block(h) /\ cursor # -1 /\ from = FirstBlock(k, cursor)
    BY <1>1, <1>2, <1>4 DEF PassOK
  <2>2. Block(tip) /\ PathOK(tip) /\ k \in 1 .. h /\ k <= Height(tip) /\ h \in Nat /\ Height(tip) \in Nat
    BY <1>1, <1>4, <2>1, BlockTypes DEF ChainOK, PathOK, Block
  <2>3. from \in Base .. MaxBlocks
    BY <1>1, <1>4 DEF TypeOK
  <2> QED BY <2>1, <2>2, <2>3 DEF Base
<1>7. logs \in SUBSET (Logs \X Hashes)
  BY <1>1, <1>4, <1>6, BlockTypes
<1>8. /\ pass' \in [at : {"idle", "head", "check", "fetch", "commit", "repair", "publish"},
                    head : Hashes, from : Base .. MaxBlocks, logs : SUBSET (Logs \X Hashes)]
      /\ pass'.at = "commit" /\ pass'.head = h /\ pass'.from = from /\ pass'.logs = logs
  <2>1. pass \in [at : {"idle", "head", "check", "fetch", "commit", "repair", "publish"},
                  head : Hashes, from : Base .. MaxBlocks, logs : SUBSET (Logs \X Hashes)]
    BY <1>1 DEF TypeOK
  <2> QED BY <1>4, <1>5, <1>7, <2>1
<1>9. TypeOK'
  BY <1>1, <1>2, <1>3, <1>8 DEF TypeOK, Still, socket, projection, announcing
<1>10. /\ \A b : Height(b)' = Height(b) /\ (Block(b)' <=> Block(b))
       /\ \A b : \A l : Held(b, l)' = Held(b, l) /\ Height(Held(b, l))' = Height(Held(b, l))
       /\ \A i : HashAt(tip, i)' = HashAt(tip, i)
  BY <1>3, StillChain DEF Still, HashAt
<1>11. /\ Block(pass.head)' /\ cursor' # -1 /\ pass'.from = FirstBlock(Height(pass.head), cursor)'
  <2>1. FirstBlock(Height(pass.head), cursor)' = FirstBlock(Height(pass.head)', cursor')
    BY DEF FirstBlock
  <2>2. Height(pass.head)' = k /\ Block(pass.head)'
    <3>1. Height(h)' = k /\ Block(h)'
      BY <1>4, <1>6, <1>10
    <3> QED BY <1>8, <3>1 DEF Height, Block
  <2> QED BY <1>2, <1>6, <1>8, <2>1, <2>2
<1>12. ASSUME SameHead'
       PROVE  logs = {<<l, Held(h, l)>> : l \in {m \in Logs : Held(h, m) # 0 /\ Height(Held(h, m)) >= from}}
  <2>1. HashAt(tip, k) = h
    <3>1. HashAt(tip, Height(h))' = h
      BY <1>8, <1>12 DEF SameHead, HashAt, Height
    <3>2. Height(h)' = k
      BY <1>4, <1>10
    <3> QED BY <1>10, <3>1, <3>2 DEF HashAt
  <2>2. \A l \in Logs : Held(h, l) = IF Held(tip, l) = 0 \/ Height(Held(tip, l)) > k THEN 0 ELSE Held(tip, l)
    BY <1>6, <2>1 DEF PathOK
  <2>3. \A l \in Logs : Held(tip, l) # 0 => Height(Held(tip, l)) \in Int
    BY <1>6 DEF PathOK
  <2>4. ASSUME NEW l \in Logs
        PROVE  (Held(tip, l) # 0 /\ Height(Held(tip, l)) \in from .. k)
               <=> (Held(h, l) # 0 /\ Height(Held(h, l)) >= from)
    BY <1>6, <2>2, <2>3
  <2>5. PICK A, B : /\ A = {m \in Logs : Held(tip, m) # 0 /\ Height(Held(tip, m)) \in from .. k}
                    /\ B = {m \in Logs : Held(h, m) # 0 /\ Height(Held(h, m)) >= from}
    OBVIOUS
  <2>6. A = B
    <3>1. \A l \in Logs : l \in A <=> l \in B
      BY <2>4, <2>5, Zenon
    <3>2. A \subseteq Logs /\ B \subseteq Logs
      BY <2>5
    <3> QED BY <3>1, <3>2
  <2>7. \A l \in B : <<l, Held(tip, l)>> = <<l, Held(h, l)>>
    BY <2>2, <2>5
  <2>8. logs = {<<l, Held(tip, l)>> : l \in A}
    BY <1>4, <2>5
  <2> QED BY <2>5, <2>6, <2>7, <2>8
<1>13. ASSUME SameHead'
       PROVE  pass'.logs = {<<l, Held(pass.head, l)>> : l \in {m \in Logs :
                  Held(pass.head, m) # 0 /\ Height(Held(pass.head, m)) >= pass.from}}'
  <2>1. pass'.logs = {<<l, Held(h, l)'>> : l \in {m \in Logs : Held(h, m)' # 0 /\ Height(Held(h, m))' >= from}}
    BY <1>8, <1>10, <1>12, <1>13
  <2> QED BY <1>8, <2>1 DEF Held, Height
<1>14. PassOK'
  BY <1>8, <1>11, <1>13 DEF PassOK
<1>15. RepairsOK'
  BY <1>1, <1>2, <1>3, <1>8 DEF RepairsOK
<1>16. /\ Remembered /\ handled' \subseteq handled /\ cursor' = cursor /\ pending' = pending
       /\ watermark' = watermark
  BY <1>2 DEF Remembered, socket, projection
<1>17. /\ cursor' <= Height(tip)
       /\ pending' # "reorg" => latest <= Scanned' /\ Scanned' <= Scanned
  BY <1>2, <1>16, CursorStays
<1> QED BY <1>2, <1>9, <1>14, <1>15, <1>16, <1>17, QuietStep

\* What shows a chain still shows it when no row is another.
LEMMA ShownStays ==
    ASSUME Still, SameRows, late' = late, NEW h, Shows(h)
    PROVE  Shows(h)'
<1>1. \A l : Held(h, l)' = Held(h, l)
  BY StillChain
<1>2. \A l \in Logs : /\ rows'[l].hash = rows[l].hash /\ (Live(l)' <=> Live(l))
                      /\ rows'[l] = NoRow <=> rows[l] = NoRow
  BY DEF SameRows, Live
<1> QED BY <1>1, <1>2 DEF Shows, Logs

Row == [hash : Hashes, removed : BOOLEAN, repaired : BOOLEAN]

\* A row is known by its fields.
LEMMA SameRow ==
    ASSUME NEW r \in Row, NEW s \in Row, r.hash = s.hash, r.removed = s.removed, r.repaired = s.repaired
    PROVE  r = s
  BY DEF Row

\* What stands for no row.
LEMMA NoRowIs == NoRow \in Row /\ NoRow.hash = 0 /\ NoRow.removed = FALSE /\ NoRow.repaired = TRUE
<1>1. 0 \in Hashes
  BY ChainSyncConstants DEF Hashes
<1> QED BY <1>1, Zenon DEF NoRow, Row

\* Canonical reads settle what the removed completions had done.
LEMMA RepairStep ==
    ASSUME Inv, Repair
    PROVE  Inv'
<1>1. TypeOK /\ ChainOK /\ RepairsOK /\ PassOK /\ RowsOK /\ (pending # "reorg" => SettledOK)
      /\ Completions \subseteq Logs
  BY ChainSyncConstants DEF Inv, Logs
<1>2. /\ UNCHANGED <<chain, socket, latest, projection, handled, cursor, removals, verified, announcing, faults>>
      /\ pass.at = "repair" /\ repairs' = {} /\ pass' = [pass EXCEPT !.at = "publish"]
      /\ rows' = [l \in Logs |-> IF l \in repairs THEN [rows[l] EXCEPT !.repaired = TRUE] ELSE rows[l]]
  BY DEF Repair
<1>3. /\ Still /\ latest' = latest /\ pending' = pending /\ watermark' = watermark /\ cursor' = cursor
      /\ handled' = handled
  BY <1>2 DEF chain, Still, projection
<1>4. /\ rows \in [Logs -> Row]
      /\ \A l \in Logs : rows[l].hash = 0 => rows[l] = NoRow
  BY <1>1 DEF TypeOK, RowsOK, Row
<1>5. ASSUME NEW l \in Logs
      PROVE  /\ rows'[l] \in Row
             /\ rows'[l].hash = rows[l].hash /\ rows'[l].removed = rows[l].removed
             /\ l \in repairs => rows'[l].repaired
             /\ rows[l].repaired => rows'[l].repaired
             /\ rows[l] = NoRow => rows'[l] = NoRow
  <2>1. rows[l] \in Row
    BY <1>4
  <2>2. CASE l \in repairs
    <3>1. rows'[l] = [rows[l] EXCEPT !.repaired = TRUE]
      BY <1>2, <2>2
    <3>2. /\ rows'[l] \in Row
          /\ rows'[l].hash = rows[l].hash /\ rows'[l].removed = rows[l].removed /\ rows'[l].repaired = TRUE
      BY <2>1, <3>1 DEF Row
    <3>3. rows[l] = NoRow => rows'[l].hash = NoRow.hash /\ rows'[l].removed = NoRow.removed
      BY <3>2
    <3>4. rows[l] = NoRow => rows'[l] = NoRow
      BY <3>2, <3>3, NoRowIs, SameRow
    <3> QED BY <3>2, <3>4
  <2>3. CASE l \notin repairs
    <3>1. rows'[l] = rows[l]
      BY <1>2, <2>3
    <3> QED BY <2>1, <2>3, <3>1
  <2> QED BY <2>2, <2>3
<1>6. SameRows
  <2>1. \A l \in Logs : rows'[l] = NoRow => rows[l] = NoRow
    BY <1>4, <1>5 DEF NoRow
  <2> QED BY <1>5, <2>1 DEF SameRows
<1>7. /\ pass' \in [at : {"idle", "head", "check", "fetch", "commit", "repair", "publish"},
                    head : Hashes, from : Base .. MaxBlocks, logs : SUBSET (Logs \X Hashes)]
      /\ pass'.at = "publish" /\ pass'.head = pass.head
  BY <1>1, <1>2 DEF TypeOK
<1>8. TypeOK'
  <2>1. Top' = Top
    BY <1>3, StillChain
  <2>2. rows' \in [Logs -> Row]
    BY <1>2, <1>5
  <2> QED BY <1>1, <1>2, <1>3, <1>7, <2>1, <2>2, ZenonT(40) DEF TypeOK, Still, socket, projection, announcing
<1>9. ChainOK' /\ NoticesOK' /\ RowsOK' /\ (pending' # "reorg" => SettledOK')
  <2>1. Remembered /\ handled' \subseteq handled
    BY <1>2, <1>3 DEF Remembered, socket
  <2>2. Scanned' = Scanned /\ Scanned \in Int /\ cursor' <= Height(tip)
    <3>1. MaxBlocks \in Nat /\ Top \in Nat
      BY <1>1, TopIsTip, ChainSyncConstants
    <3>2. cursor \in Int /\ latest \in Int
      BY <1>1, <3>1 DEF TypeOK, Hashes
    <3> QED BY <1>1, <1>3, <3>2 DEF Scanned, RowsOK
  <2>3. pending' # "reorg" => latest <= Scanned' /\ Scanned' <= Scanned
    BY <1>1, <1>3, <2>2 DEF SettledOK
  <2> QED BY <1>3, <1>6, <1>8, <2>1, <2>2, <2>3, RowsStay
<1>10. PassOK'
  <2>1. Block(pass.head)' /\ Height(pass.head)' = Height(pass.head)
    BY <1>1, <1>2, <1>3, <1>7 DEF PassOK, Still, Block, Height
  <2>2. ASSUME pending' # "reorg", latest' <= Height(pass.head)' PROVE Shows(pass.head)'
    <3>1. PICK h : h = pass.head
      OBVIOUS
    <3>2. Shows(h)
      BY <1>1, <1>2, <1>3, <2>1, <2>2, <3>1 DEF PassOK
    <3>3. Shows(h)'
      BY <1>2, <1>3, <1>6, <3>2, ShownStays DEF socket
    <3> QED BY <1>7, <3>1, <3>3 DEF Shows, Held
  <2> QED BY <1>2, <1>7, <2>1, <2>2 DEF PassOK
<1>11. RepairsOK'
  <2>1. \A l \in Completions : rows[l].removed => rows[l].repaired \/ l \in repairs
    BY <1>1, <1>2 DEF RepairsOK
  <2>2. \A l \in Completions : rows'[l].removed => rows'[l].repaired
    BY <1>1, <1>5, <2>1
  <2> QED BY <2>2 DEF RepairsOK
<1>12. AnchorOK'
  <2>1. Remembered
    BY <1>2 DEF Remembered, socket
  <2> QED BY <1>3, <1>6, <2>1, AnchorStays
<1> QED BY <1>8, <1>9, <1>10, <1>11, <1>12 DEF Inv

\* A block on the path of another holds what the other holds up to it.
LEMMA HeldBelow ==
    ASSUME TypeOK, ChainOK, NEW h, Block(h), HashAt(tip, Height(h)) = h, NEW l \in Logs
    PROVE  /\ Height(h) \in 1 .. Height(tip)
           /\ Held(h, l) = IF Held(tip, l) = 0 \/ Height(Held(tip, l)) > Height(h) THEN 0 ELSE Held(tip, l)
<1>1. PICK k : k = Height(h)
  OBVIOUS
<1>2. Block(tip) /\ PathOK(tip) /\ k \in 1 .. h /\ k <= Height(tip) /\ h \in Nat /\ Height(tip) \in Nat
  BY <1>1, BlockTypes DEF ChainOK, PathOK, Block
<1>3. k \in 1 .. Height(tip) /\ HashAt(tip, k) = h
  BY <1>1, <1>2
<1>4. Held(HashAt(tip, k), l) = IF Held(tip, l) = 0 \/ Height(Held(tip, l)) > k THEN 0 ELSE Held(tip, l)
  BY <1>2, <1>3 DEF PathOK
<1> QED BY <1>1, <1>3, <1>4

\* The repairs are done and the pass records its head.
LEMMA PublishRepairedStep ==
    ASSUME Inv, PublishRepaired
    PROVE  Inv'
<1>1. TypeOK /\ ChainOK /\ RepairsOK /\ PassOK /\ RowsOK /\ Completions \subseteq Logs
  BY ChainSyncConstants DEF Inv, Logs
<1>2. /\ Untouched /\ UNCHANGED <<socket, handled, cursor, removals, repairs, faults>>
      /\ pass.at = "publish" /\ SameHead /\ verified' = TRUE /\ pass' = Idle
  BY DEF PublishRepaired, Publish, Untouched
<1>3. Still /\ Top' = Top /\ rows' = rows /\ latest' = latest /\ SameRows
  BY <1>2, UntouchedRows, StillChain
<1>4. PICK h : h = pass.head /\ Block(h)
  BY <1>1, <1>2 DEF PassOK
<1>5. /\ watermark' = None \/ (watermark' = [hash |-> h, current |-> TRUE] /\ latest <= Height(h))
      /\ pending' = pending \/ (pending' = "none" /\ pending # "reorg")
      /\ lostAnchor' \in {None, lostAnchor} /\ transport' \in {"none", transport}
      /\ event' \in BOOLEAN /\ owed' \in BOOLEAN
  BY <1>4 DEF PublishRepaired, Publish, ReasonAfter
<1>6. TypeOK'
  <2>1. /\ pending \in {"none", "anchorChanged", "headChanged", "removedLog", "reorg"}
        /\ watermark \in Anchors /\ lostAnchor \in Anchors /\ transport \in {"none", "behind"}
    BY <1>1 DEF TypeOK
  <2>2. None \in Anchors /\ [hash |-> h, current |-> TRUE] \in Anchors
    BY <1>1, <1>4, <2>1, AnchorTypes, BlockTypes DEF Anchors
  <2>3. 0 \in Hashes /\ 1 \in Base .. MaxBlocks /\ Idle = [at |-> "idle", head |-> 0, from |-> 1, logs |-> {}]
    BY ChainSyncConstants DEF Hashes, Base, Idle
  <2>4. pass' \in [at : {"idle", "head", "check", "fetch", "commit", "repair", "publish"},
                   head : Hashes, from : Base .. MaxBlocks, logs : SUBSET (Logs \X Hashes)]
    BY <1>2, <2>3
  <2>5. /\ pending' \in {"none", "anchorChanged", "headChanged", "removedLog", "reorg"}
        /\ watermark' \in Anchors /\ lostAnchor' \in Anchors /\ transport' \in {"none", "behind"}
        /\ {verified', event', owed'} \subseteq BOOLEAN
    BY <1>2, <1>5, <2>1, <2>2
  <2> QED BY <1>1, <1>2, <1>3, <2>4, <2>5 DEF TypeOK, Still, socket
<1>7. ChainOK' /\ NoticesOK' /\ RowsOK' /\ (pending' # "reorg" => SettledOK')
  <2>1. Remembered /\ handled' \subseteq handled /\ cursor' = cursor
    BY <1>2 DEF Remembered, socket
  <2>2. /\ cursor' <= Height(tip)
        /\ pending' # "reorg" => latest <= Scanned' /\ Scanned' <= Scanned
    BY <1>2, <1>5, <2>1, CursorStays
  <2> QED BY <1>3, <1>5, <1>6, <2>1, <2>2, RowsStay
<1>8. PassOK'
  BY <1>2 DEF PassOK, Idle
<1>9. \A l \in Completions : rows[l].removed => rows[l].repaired
  BY <1>1, <1>2 DEF RepairsOK, PassOK
<1>10. RepairsOK'
  BY <1>3, <1>9 DEF RepairsOK
<1>11. AnchorOK'
  <2>1. CASE watermark' = None
    BY <2>1 DEF AnchorOK, Stands
  <2>2. CASE watermark' = [hash |-> h, current |-> TRUE] /\ latest <= Height(h)
    <3>1. Block(h)' /\ \A l : Held(h, l)' = Held(h, l)
      BY <1>3, <1>4, StillChain
    <3>2. ASSUME pending' # "reorg"
          PROVE  /\ Shows(h)'
                 /\ \A l \in OtherLogs : Live(l)' => Held(h, l)' = rows'[l].hash \/ Told(l, rows[l].hash)'
                 /\ \A l \in Completions : rows'[l].removed => rows'[l].repaired
      <4>1. Shows(h)
        BY <1>1, <1>2, <1>4, <1>5, <2>2, <3>2 DEF PassOK
      <4>2. Shows(h)'
        BY <1>2, <1>3, <4>1, ShownStays DEF socket
      <4>3. ASSUME NEW l \in OtherLogs, Live(l)
            PROVE  Held(h, l) = rows[l].hash \/ Told(l, rows[l].hash)
        <5>1. PICK p : p = rows[l].hash
          OBVIOUS
        <5>2. l \in Logs /\ p # 0 /\ Block(p) /\ Height(p) <= latest
          BY <1>1, <4>3, <5>1 DEF RowsOK, Live, Logs
        <5>3. Held(tip, l) = p \/ Told(l, p)
          BY <1>1, <4>3, <5>1 DEF RowsOK, Told
        <5>4. HashAt(tip, Height(h)) = h
          BY <1>2, <1>4 DEF SameHead
        <5>5. Height(p) \in Nat /\ Height(h) \in Nat /\ latest \in Nat
          <6>1. latest \in 0 .. MaxBlocks /\ MaxBlocks \in Nat
            BY <1>1, ChainSyncConstants DEF TypeOK, Hashes
          <6>2. Height(p) \in Nat /\ Height(h) \in Nat
            BY <1>1, <1>4, <5>2, BlockTypes
          <6> QED BY <6>1, <6>2
        <5>6. Held(tip, l) = p => Held(h, l) = p
          BY <1>1, <1>4, <2>2, <5>2, <5>4, <5>5, HeldBelow
        <5> QED BY <5>1, <5>3, <5>6
      <4>4. \A l : Told(l, rows[l].hash)' <=> Told(l, rows[l].hash)
        BY <1>2, <1>3 DEF Told, socket
      <4> QED BY <1>3, <1>9, <3>1, <4>2, <4>3, <4>4 DEF Live
    <3>3. watermark'.hash = h
      BY <2>2
    <3> QED BY <3>1, <3>2, <3>3 DEF AnchorOK, Shows, Held, Told, Block
  <2> QED BY <1>5, <2>1, <2>2
<1> QED BY <1>6, <1>7, <1>8, <1>10, <1>11 DEF Inv

-----------------------------------------------------------------------------
(* The steps that change the rows.                                         *)

\* No block is higher than there are blocks.
LEMMA HeightsAreBounded ==
    ASSUME TypeOK, ChainOK
    PROVE  /\ Height(tip) \in Nat /\ Height(tip) <= MaxBlocks /\ Top = Height(tip) /\ MaxBlocks \in Nat \ {0}
           /\ \A h : Block(h) => Height(h) \in Nat /\ Height(h) <= Height(tip)
<1>1. Height(tip) \in 1 .. tip /\ tip \in 1 .. Len(blocks) /\ Len(blocks) <= MaxBlocks /\ Len(blocks) \in Nat
      /\ MaxBlocks \in Nat \ {0}
  BY BlockTypes, ChainSyncConstants DEF Block, ChainOK, PathOK
<1>2. Height(tip) \in Nat /\ Height(tip) <= MaxBlocks
  BY <1>1
<1>3. \A h : Block(h) => Height(h) \in Nat /\ Height(h) <= Height(tip)
  BY BlockTypes DEF ChainOK, Block
<1> QED BY <1>1, <1>2, <1>3, TopIsTip

\* What the removals do for the rest: each log that was told of has a removed
\* row, as high as its notice if there was none.
DrainedOf(done, removed) ==
    /\ \A l \in removed : \E hash : <<l, hash>> \in done
    /\ \A n \in done : n[1] \in removed
    /\ \A l \in Logs : IF l \in removed
                       THEN /\ rows'[l] \in Row /\ rows'[l].removed
                            /\ rows[l] # NoRow => rows'[l].hash = rows[l].hash
                            /\ rows[l] = NoRow => Block(rows'[l].hash) /\ Height(rows'[l].hash) <= latest'
                       ELSE rows'[l] = rows[l]
    /\ rows' = [l \in Logs |-> rows'[l]]
    /\ latest <= latest' /\ latest' \in Nat /\ latest' <= Height(tip)
    /\ pending' # "reorg" => pending # "reorg" /\ latest' = latest
    /\ pending' \in {"none", "anchorChanged", "headChanged", "removedLog", "reorg"}
    /\ watermark' = None /\ lostAnchor' \in Anchors
    /\ handled' = handled \ removed /\ repairs' = repairs \cup (removed \cap Completions) /\ removals' = {}

\* And this is what the drain comes to.
LEMMA DrainedRows ==
    ASSUME TypeOK, ChainOK, NoticesOK, RowsOK, NEW done \in SUBSET removals, DrainRemovals(done)
    PROVE  \E removed \in SUBSET Logs : DrainedOf(done, removed)
<1>1. PICK removed : removed = {r[1] : r \in done}
  OBVIOUS
<1> DEFINE hashOf(l) == (CHOOSE r \in done : r[1] = l)[2]
<1> DEFINE unknown == {l \in removed : rows[l] = NoRow}
<1>2. /\ rows' = [l \in Logs |-> IF l \in removed THEN Removed(rows[l], l, hashOf(l)) ELSE rows[l]]
      /\ latest' = Max({latest} \cup {Height(hashOf(l)) : l \in unknown})
      /\ watermark' = None
      /\ pending' = IF unknown # {} THEN "reorg" ELSE IF pending = "none" THEN "removedLog" ELSE pending
      /\ lostAnchor' = IF removed = {} THEN lostAnchor ELSE Dirty(lostAnchor)
      /\ handled' = handled \ removed /\ repairs' = repairs \cup (removed \cap Completions) /\ removals' = {}
  BY <1>1 DEF DrainRemovals
<1>3. /\ \A n \in done : n \in Logs \X Hashes /\ Block(n[2])
      /\ rows \in [Logs -> Row] /\ latest \in Nat /\ latest <= Height(tip)
      /\ pending \in {"none", "anchorChanged", "headChanged", "removedLog", "reorg"}
      /\ lostAnchor \in Anchors
  <2>1. MaxBlocks \in Nat
    BY ChainSyncConstants
  <2> QED BY <2>1 DEF TypeOK, NoticesOK, RowsOK, Row, Hashes
<1>4. removed \in SUBSET Logs /\ \A n \in done : n[1] \in removed
  BY <1>1, <1>3
<1>5. ASSUME NEW l \in removed
      PROVE  /\ <<l, hashOf(l)>> \in done /\ Block(hashOf(l)) /\ hashOf(l) \in Hashes
             /\ Height(hashOf(l)) \in Nat /\ Height(hashOf(l)) <= Height(tip)
  <2>1. PICK r : r \in done /\ r[1] = l
    BY <1>1
  <2>2. PICK n : n = CHOOSE q \in done : q[1] = l
    OBVIOUS
  <2>3. n \in done /\ n[1] = l /\ hashOf(l) = n[2]
    BY <2>1, <2>2
  <2>4. n \in Logs \X Hashes /\ Block(n[2])
    BY <1>3, <2>3
  <2>5. n = <<l, n[2]>> /\ n[2] \in Hashes
    BY <2>3, <2>4
  <2> QED BY <2>3, <2>4, <2>5, HeightsAreBounded
<1> HIDE DEF hashOf
<1>6. PICK S : S = {latest} \cup {Height(hashOf(l)) : l \in unknown}
  OBVIOUS
<1>7. S \subseteq Nat /\ latest \in S /\ Height(tip) \in Nat /\ \A m \in S : m <= Height(tip)
  BY <1>3, <1>5, <1>6, HeightsAreBounded
<1>8. latest' \in S /\ latest' \in Nat /\ \A m \in S : m <= latest'
  <2>1. Max(S) \in S /\ Max(S) \in Nat /\ \A m \in S : m <= Max(S)
    BY <1>7, MaxOfBounded
  <2> QED BY <1>2, <1>6, <2>1
<1>9. latest <= latest' /\ latest' \in Nat /\ latest' <= Height(tip)
  BY <1>7, <1>8
<1>10. pending' # "reorg" => pending # "reorg" /\ latest' = latest
  <2>1. ASSUME pending' # "reorg" PROVE unknown = {} /\ pending # "reorg"
    BY <1>2, <2>1
  <2>2. unknown = {} => S = {latest}
    BY <1>6
  <2> QED BY <1>8, <2>1, <2>2
<1>11. ASSUME NEW l \in Logs
       PROVE  IF l \in removed
              THEN /\ rows'[l] \in Row /\ rows'[l].removed
                   /\ rows[l] # NoRow => rows'[l].hash = rows[l].hash
                   /\ rows[l] = NoRow => Block(rows'[l].hash) /\ Height(rows'[l].hash) <= latest'
              ELSE rows'[l] = rows[l]
  <2>1. CASE l \notin removed
    BY <1>2, <2>1
  <2>2. CASE l \in removed
    <3>1. PICK hash : hash = hashOf(l)
      OBVIOUS
    <3>2. /\ rows'[l] = [hash |-> IF rows[l] = NoRow THEN hash ELSE rows[l].hash, removed |-> TRUE,
                         repaired |-> l \notin Completions]
          /\ hash \in Hashes /\ Block(hash) /\ rows[l] \in Row
      BY <1>2, <1>3, <1>5, <2>2, <3>1 DEF Removed
    <3>3. rows'[l].removed = TRUE /\ rows'[l].hash = IF rows[l] = NoRow THEN hash ELSE rows[l].hash
      BY <3>2
    <3>4. rows'[l] \in Row
      <4>1. PICK first, second : /\ first = (IF rows[l] = NoRow THEN hash ELSE rows[l].hash)
                                 /\ second = (l \notin Completions)
        OBVIOUS
      <4>2. first \in Hashes /\ second \in BOOLEAN
        BY <3>2, <4>1 DEF Row
      <4>3. rows'[l] = [hash |-> first, removed |-> TRUE, repaired |-> second]
        BY <3>2, <4>1, Zenon
      <4> QED BY <4>2, <4>3 DEF Row
    <3>5. rows[l] = NoRow => Height(hash) \in S
      BY <1>6, <2>2, <3>1
    <3> QED BY <1>8, <2>2, <3>2, <3>3, <3>4, <3>5
  <2> QED BY <2>1, <2>2
<1>12. rows' = [l \in Logs |-> rows'[l]]
  BY <1>2
<1>13. \A l \in removed : \E hash : <<l, hash>> \in done
  BY <1>5
<1>14. /\ pending' \in {"none", "anchorChanged", "headChanged", "removedLog", "reorg"}
       /\ lostAnchor' \in Anchors
  BY <1>2, <1>3, AnchorTypes
<1>15. DrainedOf(done, removed)
  BY <1>2, <1>4, <1>9, <1>10, <1>11, <1>12, <1>13, <1>14 DEF DrainedOf
<1> QED BY <1>4, <1>15

\* The removals that arrived are applied.
LEMMA DrainStep ==
    ASSUME Inv, Drain \/ DrainFails
    PROVE  Inv'
<1>1. TypeOK /\ ChainOK /\ NoticesOK /\ RowsOK /\ RepairsOK /\ (pending # "reorg" => SettledOK)
      /\ Completions \subseteq Logs /\ Overlap \in Nat
  BY ChainSyncConstants DEF Inv, Logs
<1>2. /\ UNCHANGED <<chain, notices, late, cursor, transport, verified, announcing>> /\ pass = Idle
      /\ pass' = Idle \/ pass' = [Idle EXCEPT !.at = "head"]
      /\ faults' = faults \/ Fault
  BY DEF Drain, DrainFails, socket
<1>3. PICK done \in SUBSET removals : DrainRemovals(done) /\ missed' = missed \cup (removals \ done)
  <2>1. CASE Drain
    BY <2>1 DEF Drain, socket
  <2>2. CASE DrainFails
    BY <2>2 DEF DrainFails
  <2> QED BY <2>1, <2>2
<1>4. PICK removed \in SUBSET Logs : DrainedOf(done, removed)
  BY <1>1, <1>3, DrainedRows
<1>5. Still /\ notices' = notices /\ late' = late /\ cursor' = cursor /\ verified' = verified
  BY <1>2 DEF chain, Still
<1>6. /\ \A l \in removed : \E hash : <<l, hash>> \in done
      /\ \A n \in done : n[1] \in removed
      /\ \A l \in Logs : l \notin removed => rows'[l] = rows[l] /\ (Live(l)' <=> Live(l))
      /\ \A l \in removed : /\ rows'[l] \in Row /\ rows'[l].removed /\ ~Live(l)' /\ rows'[l] # NoRow
                            /\ rows[l] # NoRow => rows'[l].hash = rows[l].hash
                            /\ rows[l] = NoRow => Block(rows'[l].hash) /\ Height(rows'[l].hash) <= latest'
      /\ latest <= latest' /\ latest' \in Nat /\ latest' <= Height(tip)
      /\ pending' # "reorg" => pending # "reorg" /\ latest' = latest
      /\ watermark' = None /\ handled' = handled \ removed /\ removals' = {}
      /\ repairs' = repairs \cup (removed \cap Completions)
  BY <1>4, NoRowIs DEF DrainedOf, Live
<1>7. /\ \A h : Height(h)' = Height(h) /\ (Block(h)' <=> Block(h))
      /\ \A l : Held(tip, l)' = Held(tip, l) /\ Height(Held(tip, l))' = Height(Held(tip, l))
      /\ Height(tip)' = Height(tip) /\ ChainOK' /\ Top' = Top
  BY <1>1, <1>5, StillChain
<1>8. /\ Height(tip) \in Nat /\ Height(tip) <= MaxBlocks /\ MaxBlocks \in Nat \ {0}
      /\ \A h : Block(h) => Height(h) \in Nat /\ Height(h) <= Height(tip)
      /\ latest \in Nat /\ cursor \in Int /\ Top = Height(tip)
  <2>1. latest \in 0 .. MaxBlocks /\ cursor \in -1 .. Top
    BY <1>1 DEF TypeOK, Hashes
  <2> QED BY <1>1, <2>1, HeightsAreBounded
<1>9. TypeOK'
  <2>1. rows' \in [Logs -> Row]
    <3>1. \A l \in Logs : rows'[l] \in Row
      BY <1>1, <1>6 DEF TypeOK, Row
    <3>2. rows' = [l \in Logs |-> rows'[l]]
      BY <1>4 DEF DrainedOf
    <3> QED BY <3>1, <3>2
  <2>2. faults' \in 0 .. MaxFaults
    BY <1>1, <1>2, ChainSyncConstants DEF TypeOK, Fault
  <2>3. notices' \cup missed' \cup removals' \subseteq Logs \X Hashes
    BY <1>1, <1>3, <1>5, <1>6 DEF TypeOK
  <2>4. latest' \in Hashes /\ cursor' \in -1 .. Top'
    BY <1>1, <1>5, <1>6, <1>7, <1>8 DEF TypeOK, Hashes
  <2>5. /\ pending' \in {"none", "anchorChanged", "headChanged", "removedLog", "reorg"}
        /\ watermark' \in Anchors /\ lostAnchor' \in Anchors
    <3>1. /\ pending' \in {"none", "anchorChanged", "headChanged", "removedLog", "reorg"}
          /\ watermark' = None /\ lostAnchor' \in Anchors
      BY <1>4 DEF DrainedOf
    <3> QED BY <3>1, AnchorTypes
  <2>6. pass' \in [at : {"idle", "head", "check", "fetch", "commit", "repair", "publish"},
                   head : Hashes, from : Base .. MaxBlocks, logs : SUBSET (Logs \X Hashes)]
    <3>1. 0 \in Hashes /\ 1 \in Base .. MaxBlocks /\ Idle = [at |-> "idle", head |-> 0, from |-> 1, logs |-> {}]
      BY <1>8 DEF Hashes, Base, Idle
    <3> QED BY <1>2, <3>1
  <2> QED BY <1>1, <1>2, <1>5, <1>6, <2>1, <2>2, <2>3, <2>4, <2>5, <2>6 DEF TypeOK, Still, announcing, Row
<1>10. NoticesOK'
  <2>1. ASSUME NEW n \in notices' \cup removals'
        PROVE  /\ Block(n[2])'
               /\ n[1] \notin late' /\ Held(tip, n[1])' # 0 => Height(Held(tip, n[1]))' > Height(tip)' - Overlap
    <3>1. /\ Block(n[2])
          /\ n[1] \notin late /\ Held(tip, n[1]) # 0 => Height(Held(tip, n[1])) > Height(tip) - Overlap
      BY <1>1, <1>5, <1>6, <2>1 DEF NoticesOK
    <3> QED BY <1>5, <1>7, <3>1
  <2> QED BY <2>1 DEF NoticesOK
<1>11. RowsOK'
  <2>1. latest' <= Height(tip)' /\ cursor' <= Height(tip)'
    BY <1>1, <1>5, <1>6, <1>7 DEF RowsOK
  <2>2. ASSUME NEW l \in Logs
        PROVE  IF rows'[l].hash = 0 THEN rows'[l] = NoRow
               ELSE Block(rows[l].hash)' /\ Height(rows[l].hash)' <= latest'
    <3>1. PICK p : p = rows'[l].hash
      OBVIOUS
    <3>2. CASE l \notin removed
      <4>1. IF p = 0 THEN rows'[l] = NoRow ELSE Block(p) /\ Height(p) <= latest
        BY <1>1, <1>6, <3>1, <3>2 DEF RowsOK
      <4>2. p # 0 => Block(p)' /\ Height(p)' <= latest'
        BY <1>6, <1>7, <1>8, <4>1
      <4> QED BY <3>1, <4>1, <4>2
    <3>3. CASE l \in removed
      <4>1. Block(p) /\ Height(p) <= latest'
        <5>1. CASE rows[l] = NoRow
          BY <1>6, <3>1, <3>3, <5>1
        <5>2. CASE rows[l] # NoRow
          <6>1. p = rows[l].hash /\ Block(p) /\ Height(p) <= latest
            BY <1>1, <1>6, <3>1, <3>3, <5>2 DEF RowsOK
          <6> QED BY <1>6, <1>8, <6>1
        <5> QED BY <5>1, <5>2
      <4>2. p # 0
        BY <1>1, <4>1, BlockTypes
      <4>3. Block(p)' /\ Height(p)' <= latest'
        BY <1>7, <4>1
      <4> QED BY <3>1, <4>2, <4>3
    <3> QED BY <3>2, <3>3
  <2>3. \A l \in handled' : rows'[l] # NoRow /\ (l \in Restored => Live(l)')
    <3>1. \A l \in handled : l \in Logs
      BY <1>1 DEF TypeOK
    <3> QED BY <1>1, <1>6, <3>1 DEF RowsOK
  <2>4. ASSUME NEW l \in OtherLogs, Live(l)'
        PROVE  \/ Held(tip, l)' = rows'[l].hash
               \/ <<l, rows'[l].hash>> \in notices' \cup removals' \cup missed'
    <3>1. l \in Logs /\ l \notin removed /\ rows'[l] = rows[l] /\ Live(l)
      BY <1>6, <2>4 DEF Logs
    <3>2. \/ Held(tip, l) = rows[l].hash
          \/ <<l, rows[l].hash>> \in notices \cup removals \cup missed
      BY <1>1, <3>1 DEF RowsOK
    <3>3. <<l, rows[l].hash>> \notin done
      BY <1>6, <3>1
    <3> QED BY <1>3, <1>5, <1>7, <3>1, <3>2, <3>3
  <2> QED BY <2>1, <2>2, <2>3, <2>4 DEF RowsOK
<1>12. ASSUME pending' # "reorg" PROVE SettledOK'
  <2>1. /\ SettledOK /\ latest' = latest /\ Scanned' = Scanned /\ Scanned \in Int /\ Scanned <= Height(tip)
    <3>1. latest' = latest /\ SettledOK
      BY <1>1, <1>6, <1>12
    <3> QED BY <1>1, <1>5, <1>8, <3>1 DEF Scanned, RowsOK
  <2>2. PICK k : k = Scanned - Overlap
    OBVIOUS
  <2>3. k \in Int /\ k <= Height(tip) - Overlap /\ Scanned' - Overlap = k
    BY <1>1, <1>8, <2>1, <2>2
  <2>4. ASSUME NEW l \in removed \ late, Held(tip, l) # 0 PROVE ~ (Height(Held(tip, l)) <= k)
    <3>1. PICK n \in removals : n[1] = l
      BY <1>6
    <3>2. Height(Held(tip, l)) > Height(tip) - Overlap
      BY <1>1, <2>4, <3>1 DEF NoticesOK
    <3>3. Block(Held(tip, l))
      BY <1>1, <2>4, BlockTypes DEF ChainOK, PathOK, Block
    <3> QED BY <1>1, <1>8, <2>3, <3>2, <3>3
  <2>5. ASSUME NEW l \in GameLogs, Live(l)', Height(rows[l].hash)' <= k
        PROVE  Held(tip, l)' = rows'[l].hash
    <3>1. PICK p : p = rows'[l].hash
      OBVIOUS
    <3>2. l \in Logs /\ l \notin removed /\ p = rows[l].hash /\ Live(l) /\ Height(p)' <= k
      BY <1>6, <2>5, <3>1 DEF Logs
    <3>3. Height(rows[l].hash) <= k
      BY <1>7, <3>2
    <3>4. Held(tip, l) = p
      BY <2>1, <2>2, <3>2, <3>3 DEF SettledOK
    <3> QED BY <1>7, <3>1, <3>4
  <2>6. ASSUME NEW l \in GameLogs, Live(l)', Held(tip, l)' # 0, Height(Held(tip, l))' <= k
        PROVE  rows'[l].hash = Held(tip, l)'
    <3>1. l \in Logs /\ Held(tip, l) # 0 /\ Height(Held(tip, l)) <= k /\ l \notin removed /\ Live(l)
      BY <1>6, <1>7, <2>6 DEF Logs
    <3>2. rows[l].hash = Held(tip, l)
      BY <2>1, <2>2, <3>1 DEF SettledOK
    <3> QED BY <1>6, <1>7, <3>1, <3>2
  <2>7. ASSUME NEW l \in Logs, Held(tip, l)' # 0, Height(Held(tip, l))' <= k
        PROVE  rows'[l] # NoRow /\ (l \in Restored \ late' => Live(l)')
    <3>1. Held(tip, l) # 0 /\ Height(Held(tip, l)) <= k
      BY <1>7, <2>7
    <3>2. rows[l] # NoRow /\ (l \in Restored \ late => Live(l))
      BY <2>1, <2>2, <3>1 DEF SettledOK
    <3>3. l \in Restored \ late => l \notin removed
      BY <2>4, <3>1
    <3> QED BY <1>5, <1>6, <3>2, <3>3
  <2>8. latest' <= Scanned'
    BY <2>1 DEF SettledOK
  <2> QED BY <2>3, <2>5, <2>6, <2>7, <2>8 DEF SettledOK
<1>13. PassOK'
  BY <1>2 DEF PassOK, Idle
<1>14. RepairsOK'
  <2>1. ASSUME verified', NEW l \in Completions, rows'[l].removed
        PROVE  rows'[l].repaired \/ l \in repairs'
    BY <1>1, <1>5, <1>6, <2>1 DEF RepairsOK
  <2>2. pass'.at \notin {"repair", "publish"}
    BY <1>2 DEF Idle
  <2> QED BY <2>1, <2>2 DEF RepairsOK
<1>15. AnchorOK'
  BY <1>6 DEF AnchorOK, Stands
<1> QED BY <1>7, <1>9, <1>10, <1>11, <1>12, <1>13, <1>14, <1>15 DEF Inv

\* A removed row keeps its block.
LEMMA RowRemoved ==
    ASSUME NEW row, row \in Row, NEW l, row # NoRow, NEW gone, gone = Removed(row, l, 0)
    PROVE  gone \in Row /\ gone.hash = row.hash /\ gone.removed = TRUE
<1>1. PICK first, second : first = row.hash /\ second = (l \notin Completions)
  OBVIOUS
<1>2. first \in Hashes /\ second \in BOOLEAN
  BY <1>1 DEF Row
<1>3. gone = [hash |-> first, removed |-> TRUE, repaired |-> second]
  BY <1>1, Zenon DEF Removed
<1>4. gone \in Row
  <2>1. [hash |-> first, removed |-> TRUE, repaired |-> second] \in Row
    BY <1>2 DEF Row
  <2> QED BY <1>3, <2>1, Zenon
<1>5. gone.hash = first /\ gone.removed = TRUE
  BY <1>3
<1> QED BY <1>1, <1>4, <1>5

\* The log is among those that a pass over the chain of this block brings.
Fetched(h, from, l) == Held(h, l) # 0 /\ Height(Held(h, l)) >= from

\* What a commit does with a row: it stays, it is that of a fetched log, or it
\* is removed because its block was fetched and does not show it (one that the
\* fetched logs show elsewhere comes back at once if its kind is restored).
RowStays(h, from, l) ==
    /\ rows'[l] = rows[l]
    /\ Fetched(h, from, l) => rows[l] # NoRow /\ (l \in Restored => Live(l))
    /\ l \in GameLogs /\ Live(l) /\ Height(rows[l].hash) \in from .. Height(h) => Held(h, l) = rows[l].hash
RowComes(h, from, l) ==
    /\ Fetched(h, from, l)
    /\ rows'[l] \in Row /\ rows'[l].hash = Held(h, l) /\ ~rows'[l].removed
    /\ Height(Held(h, l)) <= latest'
RowGoes(h, from, l) ==
    /\ l \in MissingLogs /\ Live(l) /\ (Fetched(h, from, l) => l \notin Restored)
    /\ Height(rows[l].hash) >= from /\ Height(rows[l].hash) <= Height(h)
    /\ rows'[l] \in Row /\ rows'[l].hash = rows[l].hash /\ rows'[l].removed

CommitOf(h, from) ==
    /\ Block(h) /\ HashAt(tip, Height(h)) = h /\ cursor \in Nat /\ from = FirstBlock(Height(h), cursor)
    /\ \A l \in Logs : RowStays(h, from, l) \/ RowComes(h, from, l) \/ RowGoes(h, from, l)
    /\ rows' = [l \in Logs |-> rows'[l]]
    /\ latest' \in Nat /\ latest <= latest' /\ (latest' = latest \/ latest' <= Height(h))
    /\ handled' \subseteq Logs
    /\ \A l \in handled' : Fetched(h, from, l) \/ (l \in handled /\ rows'[l] = rows[l])
    /\ cursor' = IF cursor >= Height(h) THEN cursor ELSE Height(h)

\* The commit does so.
LEMMA CommittedRows ==
    ASSUME Inv, Commit
    PROVE  CommitOf(pass.head, pass.from)
<1>1. TypeOK /\ ChainOK /\ RowsOK /\ PassOK
  BY DEF Inv
<1>2. PICK h, k, from, logs, missing, new :
         /\ h = pass.head /\ k = Height(h) /\ from = pass.from /\ logs = pass.logs /\ missing = MissingLogs
         /\ new = {p \in logs : p[1] \notin handled \ missing}
  OBVIOUS
<1>3. PICK retired : retired = [l \in Logs |-> IF l \in missing THEN Removed(rows[l], l, 0) ELSE rows[l]]
  OBVIOUS
<1>4. /\ pass.at = "commit" /\ SameHead
      /\ rows' = [l \in Logs |-> IF \E p \in new : p[1] = l
                                 THEN Added(retired[l], l, Held(h, l)) ELSE retired[l]]
      /\ latest' = Max({latest} \cup {Height(p[2]) : p \in new})
      /\ handled' = (handled \ missing) \cup {p[1] : p \in logs}
      /\ cursor' = Max({cursor, k})
  BY <1>2, <1>3 DEF Commit, Held
<1>5. /\ Block(h) /\ HashAt(tip, k) = h /\ cursor # -1 /\ from = FirstBlock(k, cursor)
      /\ logs = {<<l, Held(h, l)>> : l \in {m \in Logs : Held(h, m) # 0 /\ Height(Held(h, m)) >= from}}
  BY <1>1, <1>2, <1>4 DEF PassOK, SameHead
<1>6. /\ k \in Nat \ {0} /\ k <= Height(tip) /\ Height(tip) \in Nat /\ cursor \in Nat /\ latest \in Nat
      /\ \A b : Block(b) => Height(b) \in Nat
  <2>1. k \in 1 .. h /\ h \in Nat
    BY <1>1, <1>2, <1>5, BlockTypes DEF ChainOK, PathOK, Block
  <2>2. cursor \in -1 .. Top /\ latest \in 0 .. MaxBlocks
    BY <1>1 DEF TypeOK, Hashes
  <2>3. Height(tip) \in Nat /\ Top = Height(tip) /\ MaxBlocks \in Nat /\ \A b : Block(b) => Height(b) \in Nat
        /\ k <= Height(tip)
    BY <1>1, <1>2, <1>5, HeightsAreBounded
  <2> QED BY <1>5, <2>1, <2>2, <2>3
<1>7. \A l \in Logs : Fetched(h, from, l) <=> \E p \in logs : p[1] = l
  <2>1. PICK A : A = {m \in Logs : Held(h, m) # 0 /\ Height(Held(h, m)) >= from}
    OBVIOUS
  <2>2. logs = {<<l, Held(h, l)>> : l \in A} /\ \A l \in Logs : l \in A <=> Fetched(h, from, l)
    BY <1>5, <2>1 DEF Fetched
  <2>3. \A l \in A : <<l, Held(h, l)>> \in logs /\ <<l, Held(h, l)>>[1] = l
    BY <2>2
  <2>4. \A p \in logs : p[1] \in A
    BY <2>2
  <2> QED BY <2>2, <2>3, <2>4
<1>8. ASSUME NEW p \in logs
      PROVE  /\ p[1] \in Logs /\ p = <<p[1], Held(h, p[1])>> /\ Fetched(h, from, p[1])
             /\ Block(p[2]) /\ Height(p[2]) \in Nat /\ Height(p[2]) <= k
  <2>1. PICK l \in Logs : p = <<l, Held(h, l)>> /\ Held(h, l) # 0 /\ Height(Held(h, l)) >= from
    BY <1>5
  <2>2. Block(Held(h, l)) /\ Height(Held(h, l)) \in 1 .. k
    BY <1>1, <1>2, <1>5, <2>1 DEF ChainOK, PathOK, Block
  <2> QED BY <1>6, <2>1, <2>2 DEF Fetched
<1>9. \A l \in Logs : (\E p \in new : p[1] = l) <=> (Fetched(h, from, l) /\ l \notin handled \ missing)
  BY <1>2, <1>7
<1>10. PICK S : S = {latest} \cup {Height(p[2]) : p \in new}
  OBVIOUS
<1>11. /\ S \subseteq Nat /\ latest \in S /\ \A m \in S : m <= k \/ m = latest
  BY <1>2, <1>6, <1>8, <1>10
<1>12. latest' \in S /\ latest' \in Nat /\ \A m \in S : m <= latest'
  <2>1. PICK b : b = IF latest >= k THEN latest ELSE k
    OBVIOUS
  <2>2. b \in Nat /\ \A m \in S : m <= b
    BY <1>6, <1>11, <2>1
  <2>3. Max(S) \in S /\ Max(S) \in Nat /\ \A m \in S : m <= Max(S)
    BY <1>11, <2>2, MaxOfBounded
  <2> QED BY <1>4, <1>10, <2>3
<1>13. latest <= latest' /\ (latest' = latest \/ latest' <= k)
  BY <1>11, <1>12
<1>14. cursor' = IF cursor >= k THEN cursor ELSE k
  <2>1. cursor \in Int /\ k \in Int
    BY <1>6
  <2> QED BY <1>4, <2>1, OfTwo
<1>15. /\ \A l : l \in missing <=> /\ l \in GameLogs /\ Live(l) /\ <<l, rows[l].hash>> \notin logs
                                   /\ Height(rows[l].hash) \in from .. k
       /\ rows \in [Logs -> Row]
  BY <1>1, <1>2 DEF MissingLogs, TypeOK, Row
<1>20. ASSUME NEW l \in Logs, Fetched(h, from, l), l \notin handled \ missing
       PROVE  Held(h, l) \in Hashes /\ Height(Held(h, l)) <= latest'
  <2>1. PICK p \in new : p[1] = l
    BY <1>9, <1>20
  <2>2. p = <<l, Held(h, l)>> /\ Height(p[2]) \in S
    BY <1>2, <1>8, <1>10, <2>1
  <2>3. Height(Held(h, l)) \in S
    BY <2>2
  <2> QED BY <1>1, <1>5, <1>12, <2>3, BlockTypes
<1>16. ASSUME NEW l \in Logs
       PROVE  RowStays(h, from, l) \/ RowComes(h, from, l) \/ RowGoes(h, from, l)
  <2>1. rows[l] \in Row /\ (rows[l].hash = 0 => rows[l] = NoRow)
        /\ (l \in handled => rows[l] # NoRow /\ (l \in Restored => Live(l)))
    BY <1>1, <1>15 DEF RowsOK
  <2>2. from \in Nat
    <3>1. FirstBlock(k, cursor) \in 1 .. k
      BY <1>6, FirstBlockIs
    <3> QED BY <1>5, <1>6, <3>1
  <2>3. CASE l \notin missing
    <3>1. retired[l] = rows[l]
      BY <1>3, <2>3
    <3>2. l \in GameLogs /\ Live(l) /\ Height(rows[l].hash) \in from .. k => Held(h, l) = rows[l].hash
      <4>1. SUFFICES ASSUME l \in GameLogs, Live(l), Height(rows[l].hash) \in from .. k
                     PROVE  Held(h, l) = rows[l].hash
        OBVIOUS
      <4>2. PICK p : p = <<l, rows[l].hash>>
        OBVIOUS
      <4>3. p \in logs
        BY <1>15, <2>3, <4>1, <4>2
      <4>4. p = <<p[1], Held(h, p[1])>>
        BY <1>8, <4>3
      <4> QED BY <4>2, <4>4
    <3>3. CASE ~Fetched(h, from, l)
      <4>1. rows'[l] = rows[l]
        BY <1>4, <1>9, <3>1, <3>3
      <4> QED BY <1>2, <3>2, <3>3, <4>1 DEF RowStays
    <3>4. CASE Fetched(h, from, l) /\ l \in handled
      <4>1. rows'[l] = rows[l]
        BY <1>4, <1>9, <2>3, <3>1, <3>4
      <4> QED BY <1>2, <2>1, <3>2, <3>4, <4>1 DEF RowStays
    <3>5. CASE Fetched(h, from, l) /\ l \notin handled
      <4>1. rows'[l] = Added(rows[l], l, Held(h, l))
        BY <1>4, <1>9, <3>1, <3>5
      <4>2. CASE rows[l] = NoRow \/ (rows[l].removed /\ l \in Restored)
        <5>1. Held(h, l) \in Hashes /\ Height(Held(h, l)) <= latest'
          BY <1>9, <3>5, <1>20
        <5>2. rows'[l] \in Row /\ rows'[l].hash = Held(h, l) /\ rows'[l].removed = FALSE
          <6>1. PICK row, hash : row = rows[l] /\ hash = Held(h, l)
            OBVIOUS
          <6>2. /\ row \in Row /\ hash \in Hashes /\ (row = NoRow \/ (row.removed /\ l \in Restored))
                /\ rows'[l] = Added(row, l, hash)
            BY <2>1, <4>1, <4>2, <5>1, <6>1
          <6>3. PICK added : added = rows'[l]
            OBVIOUS
          <6>4. added = Added(row, l, hash)
            BY <6>2, <6>3, Zenon
          <6>5. added = [hash |-> hash, removed |-> FALSE, repaired |-> TRUE]
            BY <6>2, <6>4 DEF Added
          <6>6. added \in Row /\ added.hash = hash /\ added.removed = FALSE
            BY <6>2, <6>5 DEF Row
          <6> QED BY <6>1, <6>3, <6>6
        <5> QED BY <3>5, <4>2, <5>1, <5>2 DEF RowComes
      <4>3. CASE ~ (rows[l] = NoRow \/ (rows[l].removed /\ l \in Restored))
        <5>1. rows'[l] = rows[l]
          BY <4>1, <4>3 DEF Added
        <5>2. rows[l] # NoRow /\ (l \in Restored => Live(l))
          BY <2>1, <4>3 DEF Live
        <5> QED BY <1>2, <3>2, <5>1, <5>2 DEF RowStays
      <4> QED BY <4>2, <4>3
    <3> QED BY <3>3, <3>4, <3>5
  <2>4. CASE l \in missing
    <3>1. l \in GameLogs /\ Live(l) /\ Height(rows[l].hash) \in from .. k /\ rows[l] # NoRow
      BY <1>15, <2>4, NoRowIs DEF Live
    <3>2. retired[l] = Removed(rows[l], l, 0)
      BY <1>3, <2>4
    <3>3. retired[l] \in Row /\ retired[l].hash = rows[l].hash /\ retired[l].removed
      <4>1. PICK row : row = rows[l]
        OBVIOUS
      <4>2. row \in Row /\ row # NoRow /\ retired[l] = Removed(row, l, 0)
        BY <2>1, <3>1, <3>2, <4>1
      <4>3. PICK gone : gone = retired[l]
        OBVIOUS
      <4>4. gone = Removed(row, l, 0)
        BY <4>2, <4>3, Zenon
      <4>5. gone \in Row /\ gone.hash = row.hash /\ gone.removed = TRUE
        BY <4>2, <4>4, RowRemoved, Zenon
      <4> QED BY <4>1, <4>3, <4>5
    <3>4. CASE Fetched(h, from, l) => l \notin Restored
      <4>1. rows'[l] = retired[l]
        <5>1. CASE ~Fetched(h, from, l)
          BY <1>4, <1>9, <5>1
        <5>2. CASE Fetched(h, from, l)
          <6>1. rows'[l] = Added(retired[l], l, Held(h, l))
            BY <1>4, <1>9, <2>4, <5>2
          <6>2. retired[l] # NoRow /\ l \notin Restored
            BY <3>3, <3>4, <5>2, NoRowIs
          <6> QED BY <6>1, <6>2 DEF Added
        <5> QED BY <5>1, <5>2
      <4>2. Height(rows[l].hash) >= from /\ Height(rows[l].hash) <= k
        BY <2>2, <1>6, <3>1
      <4> QED BY <1>2, <2>4, <3>1, <3>3, <3>4, <4>1, <4>2 DEF RowGoes
    <3>5. CASE Fetched(h, from, l) /\ l \in Restored
      <4>1. rows'[l] = Added(retired[l], l, Held(h, l))
        BY <1>4, <1>9, <2>4, <3>5
      <4>2. Held(h, l) \in Hashes /\ Height(Held(h, l)) <= latest'
        BY <1>20, <2>4, <3>5
      <4>3. rows'[l] \in Row /\ rows'[l].hash = Held(h, l) /\ rows'[l].removed = FALSE
        <5>1. PICK row, hash : row = retired[l] /\ hash = Held(h, l)
          OBVIOUS
        <5>2. /\ row \in Row /\ hash \in Hashes /\ (row = NoRow \/ (row.removed /\ l \in Restored))
              /\ rows'[l] = Added(row, l, hash)
          BY <3>1, <3>3, <3>5, <4>1, <4>2, <5>1
        <5>3. PICK added : added = rows'[l]
          OBVIOUS
        <5>4. added = Added(row, l, hash)
          BY <5>2, <5>3, Zenon
        <5>5. added = [hash |-> hash, removed |-> FALSE, repaired |-> TRUE]
          BY <5>2, <5>4 DEF Added
        <5>6. added \in Row /\ added.hash = hash /\ added.removed = FALSE
          BY <5>2, <5>5 DEF Row
        <5> QED BY <5>1, <5>3, <5>6
      <4> QED BY <3>1, <3>5, <4>2, <4>3 DEF RowComes
    <3> QED BY <3>4, <3>5
  <2> QED BY <2>3, <2>4
<1>17. rows' = [l \in Logs |-> rows'[l]]
  BY <1>4
<1>18. handled' \subseteq Logs
  BY <1>1, <1>4, <1>8 DEF TypeOK
<1>19. ASSUME NEW l \in handled'
       PROVE  Fetched(h, from, l) \/ (l \in handled /\ rows'[l] = rows[l])
  <2>1. CASE \E p \in logs : p[1] = l
    BY <1>8, <2>1
  <2>2. CASE ~ \E p \in logs : p[1] = l
    <3>1. l \in handled \ missing /\ l \in Logs
      BY <1>4, <1>18, <2>2
    <3>2. rows'[l] = retired[l] /\ retired[l] = rows[l]
      BY <1>3, <1>4, <1>9, <3>1
    <3> QED BY <3>1, <3>2
  <2> QED BY <2>1, <2>2
<1> QED BY <1>2, <1>5, <1>6, <1>12, <1>13, <1>14, <1>16, <1>17, <1>18, <1>19 DEF CommitOf

\* The numbers of a commit, and the places of the logs.
LEMMA CommitGrounds ==
    ASSUME Inv, NEW h, NEW from, CommitOf(h, from), NEW k, k = Height(h)
    PROVE  /\ k \in Nat \ {0} /\ k <= Height(tip) /\ from \in 1 .. k /\ Overlap \in Nat \ {0}
           /\ cursor \in Nat /\ latest \in Nat /\ latest' \in Nat /\ Height(tip) \in Nat /\ Scanned = cursor
           /\ cursor <= Height(tip) /\ latest' <= Height(tip) /\ latest <= Height(tip)
           /\ from = 1 \/ from + Overlap - 1 = IF k <= cursor THEN k ELSE cursor
           /\ \A b : Block(b) => Height(b) \in Nat \ {0} /\ b # 0
           /\ \A l \in Logs :
                 /\ Held(tip, l) # 0 => Block(Held(tip, l))
                 /\ Held(h, l) = IF Held(tip, l) = 0 \/ Height(Held(tip, l)) > k THEN 0 ELSE Held(tip, l)
                 /\ Held(h, l) # 0 => Block(Held(h, l)) /\ Height(Held(h, l)) <= k
                 /\ Live(l) => Block(rows[l].hash) /\ Height(rows[l].hash) <= latest
<1>1. TypeOK /\ ChainOK /\ RowsOK
  BY DEF Inv
<1>2. /\ Block(h) /\ HashAt(tip, k) = h /\ cursor \in Nat /\ from = FirstBlock(k, cursor)
      /\ latest' \in Nat /\ latest <= latest' /\ (latest' = latest \/ latest' <= k)
  BY DEF CommitOf
<1>3. /\ Height(tip) \in Nat /\ MaxBlocks \in Nat /\ Top = Height(tip)
      /\ \A b : Block(b) => Height(b) \in Nat \ {0} /\ b # 0
  <2>1. ASSUME NEW b, Block(b) PROVE Height(b) \in Nat \ {0} /\ b # 0
    <3>1. Height(b) \in 1 .. b /\ b \in Nat \ {0}
      BY <1>1, <2>1, BlockTypes DEF ChainOK, PathOK, Block
    <3> QED BY <3>1
  <2> QED BY <1>1, <2>1, HeightsAreBounded
<1>4. k \in Nat \ {0} /\ k <= Height(tip)
  BY <1>1, <1>2, <1>3, HeightsAreBounded
<1>5. /\ from \in 1 .. k /\ Overlap \in Nat \ {0}
      /\ from = 1 \/ from + Overlap - 1 = IF k <= cursor THEN k ELSE cursor
  BY <1>2, <1>4, FirstBlockIs, ChainSyncConstants
<1>6. latest \in Nat /\ cursor <= Height(tip) /\ latest <= Height(tip) /\ latest' <= Height(tip)
      /\ Scanned = cursor
  <2>1. latest \in 0 .. MaxBlocks /\ latest <= Height(tip) /\ cursor <= Height(tip)
    BY <1>1 DEF TypeOK, RowsOK, Hashes
  <2>2. Scanned = cursor
    BY <1>2 DEF Scanned
  <2> QED BY <1>2, <1>3, <1>4, <2>1, <2>2
<1>7. ASSUME NEW l \in Logs
      PROVE  /\ Held(tip, l) # 0 => Block(Held(tip, l))
             /\ Held(h, l) = IF Held(tip, l) = 0 \/ Height(Held(tip, l)) > k THEN 0 ELSE Held(tip, l)
             /\ Held(h, l) # 0 => Block(Held(h, l)) /\ Height(Held(h, l)) <= k
             /\ Live(l) => Block(rows[l].hash) /\ Height(rows[l].hash) <= latest
  <2>1. Held(tip, l) # 0 => Block(Held(tip, l))
    BY <1>1, BlockTypes DEF ChainOK, PathOK, Block
  <2>2. Held(h, l) = IF Held(tip, l) = 0 \/ Height(Held(tip, l)) > k THEN 0 ELSE Held(tip, l)
    BY <1>1, <1>2, HeldBelow
  <2>3. Held(h, l) # 0 => Block(Held(h, l)) /\ Height(Held(h, l)) <= k
    <3>1. Held(h, l) # 0 => Block(Held(h, l)) /\ Height(Held(h, l)) \in 1 .. k
      BY <1>1, <1>2 DEF ChainOK, PathOK, Block
    <3> QED BY <1>4, <3>1
  <2>4. Live(l) => Block(rows[l].hash) /\ Height(rows[l].hash) <= latest
    BY <1>1 DEF RowsOK, Live
  <2> QED BY <2>1, <2>2, <2>3, <2>4
<1> QED BY <1>2, <1>3, <1>4, <1>5, <1>6, <1>7

\* Below the first block of a pass the ledger is settled.
LEMMA BelowPass ==
    ASSUME Inv, SettledOK, NEW h, NEW from, CommitOf(h, from)
    PROVE  /\ \A l \in GameLogs :
                 /\ Live(l) /\ ~ (Height(rows[l].hash) >= from) => Held(tip, l) = rows[l].hash
                 /\ Live(l) /\ Held(tip, l) # 0 /\ ~ (Height(Held(tip, l)) >= from) =>
                       rows[l].hash = Held(tip, l)
           /\ \A l \in Logs : Held(tip, l) # 0 /\ ~ (Height(Held(tip, l)) >= from) =>
                 rows[l] # NoRow /\ (l \in Restored \ late => Live(l))
<1>1. PICK k : k = Height(h)
  OBVIOUS
<1>2. /\ k \in Nat \ {0} /\ from \in 1 .. k /\ Overlap \in Nat \ {0} /\ cursor \in Nat /\ Scanned = cursor
      /\ from = 1 \/ from + Overlap - 1 = IF k <= cursor THEN k ELSE cursor
      /\ \A b : Block(b) => Height(b) \in Nat \ {0}
      /\ \A l \in Logs : /\ Held(tip, l) # 0 => Block(Held(tip, l))
                         /\ Live(l) => Block(rows[l].hash)
  BY <1>1, CommitGrounds
<1>3. PICK m : m = Scanned - Overlap
  OBVIOUS
<1>4. ASSUME NEW b, Block(b), ~ (Height(b) >= from) PROVE Height(b) <= m
  <2>1. PICK n : n = Height(b)
    OBVIOUS
  <2>2. n \in Nat \ {0} /\ ~ (n >= from)
    BY <1>2, <1>4, <2>1
  <2> QED BY <1>2, <1>3, <2>1, <2>2
<1>5. /\ \A l \in GameLogs :
            /\ Live(l) /\ Height(rows[l].hash) <= m => Held(tip, l) = rows[l].hash
            /\ Live(l) /\ Held(tip, l) # 0 /\ Height(Held(tip, l)) <= m => rows[l].hash = Held(tip, l)
      /\ \A l \in Logs : Held(tip, l) # 0 /\ Height(Held(tip, l)) <= m =>
            rows[l] # NoRow /\ (l \in Restored \ late => Live(l))
  BY <1>3 DEF SettledOK
<1> QED BY <1>2, <1>4, <1>5 DEF Logs

\* What the commit does to the life of a row.
LEMMA CommittedLife ==
    ASSUME NEW h, NEW from, NEW l
    PROVE  /\ RowStays(h, from, l) => (Live(l)' <=> Live(l))
           /\ RowComes(h, from, l) => Live(l)' /\ rows'[l] # NoRow
           /\ RowGoes(h, from, l) => ~Live(l)' /\ rows'[l] # NoRow /\ l \in GameLogs /\ rows[l] # NoRow
<1>1. RowStays(h, from, l) => (Live(l)' <=> Live(l))
  BY DEF RowStays, Live
<1>2. RowComes(h, from, l) => rows'[l].hash # 0 /\ ~rows'[l].removed
  BY DEF RowComes, Fetched
<1>3. RowGoes(h, from, l) => rows'[l].removed /\ l \in GameLogs /\ Live(l)
  BY DEF RowGoes, MissingLogs
<1>4. /\ rows'[l].removed => ~Live(l)' /\ rows'[l] # NoRow
      /\ rows'[l].hash # 0 => rows'[l] # NoRow
      /\ rows'[l].hash # 0 /\ ~rows'[l].removed => Live(l)'
      /\ Live(l) => rows[l] # NoRow
  BY NoRowIs DEF Live
<1> QED BY <1>1, <1>2, <1>3, <1>4

\* The commit makes the ledger show the chain of the head.
LEMMA CommitShows ==
    ASSUME Inv, Still, SettledOK, NEW h, NEW from, CommitOf(h, from), latest' <= Height(h), late' = late
    PROVE  Shows(h)'
<1>1. PICK k : k = Height(h)
  OBVIOUS
<1>2. /\ k \in Nat \ {0} /\ from \in 1 .. k /\ latest \in Nat /\ latest' \in Nat /\ latest <= latest' /\ latest <= k
      /\ \A b : Block(b) => Height(b) \in Nat \ {0} /\ b # 0
      /\ \A l \in Logs :
            /\ Held(tip, l) # 0 => Block(Held(tip, l))
            /\ Held(h, l) = IF Held(tip, l) = 0 \/ Height(Held(tip, l)) > k THEN 0 ELSE Held(tip, l)
            /\ Live(l) => Block(rows[l].hash) /\ Height(rows[l].hash) <= latest
  <2>1. latest \in Nat /\ latest' \in Nat /\ k \in Nat /\ latest <= latest' /\ latest' <= k
    BY <1>1, CommitGrounds DEF CommitOf
  <2>2. latest <= k
    BY <2>1
  <2> QED BY <1>1, <2>1, <2>2, CommitGrounds
<1>3. \A l \in Logs : RowStays(h, from, l) \/ RowComes(h, from, l) \/ RowGoes(h, from, l)
  BY DEF CommitOf
<1>4. \A l : Held(h, l)' = Held(h, l)
  BY StillChain
<1>5. ASSUME NEW l \in GameLogs, Live(l)'
      PROVE  Held(h, l) = rows'[l].hash
  <2>0. l \in Logs
    BY DEF Logs
  <2>1. PICK p, q : p = Held(h, l) /\ q = rows[l].hash
    OBVIOUS
  <2>2. p # 0 => p = Held(tip, l) /\ Block(p)
    BY <1>2, <2>0, <2>1
  <2>3. CASE RowComes(h, from, l)
    BY <2>3, CommittedLife DEF RowComes
  <2>4. CASE RowStays(h, from, l)
    <3>1. rows'[l] = rows[l] /\ (Live(l)' <=> Live(l))
      BY <2>4, CommittedLife DEF RowStays
    <3>2. Live(l)
      BY <1>5, <3>1
    <3>3. Block(q) /\ Height(q) \in Nat \ {0} /\ Height(q) <= k /\ q # 0
      <4>1. Block(q) /\ Height(q) <= latest
        BY <1>2, <2>0, <2>1, <3>2
      <4>2. Height(q) \in Nat \ {0} /\ q # 0
        BY <1>2, <4>1
      <4> QED BY <1>2, <4>1, <4>2
    <3>4. CASE Height(q) >= from
      <4>1. Height(q) \in from .. k
        BY <1>2, <3>3, <3>4
      <4> QED BY <1>1, <2>1, <2>4, <3>1, <3>2, <4>1 DEF RowStays
    <3>5. CASE ~ (Height(q) >= from)
      <4>1. Held(tip, l) = q
        BY <2>1, <3>2, <3>5, BelowPass
      <4>2. ~ (Height(q) > k)
        BY <1>2, <3>3
      <4>3. Held(h, l) = q
        BY <1>2, <2>0, <3>3, <4>1, <4>2
      <4> QED BY <2>1, <3>1, <4>3
    <3> QED BY <3>4, <3>5
  <2>5. ~RowGoes(h, from, l)
    BY <1>5, CommittedLife
  <2> QED BY <1>3, <2>0, <2>3, <2>4, <2>5
<1>6. ASSUME NEW l \in Logs, Held(h, l) # 0
      PROVE  rows'[l] # NoRow /\ (l \in Restored \ late => Live(l)')
  <2>1. CASE RowComes(h, from, l)
    BY <2>1, CommittedLife
  <2>2. CASE RowStays(h, from, l) /\ Fetched(h, from, l)
    BY <2>2, CommittedLife DEF RowStays
  <2>3. ASSUME ~Fetched(h, from, l)
        PROVE  /\ Held(tip, l) = Held(h, l) /\ ~ (Height(Held(tip, l)) >= from)
               /\ rows[l] # NoRow /\ (l \in Restored \ late => Live(l))
    <3>1. Held(tip, l) = Held(h, l) /\ ~ (Height(Held(tip, l)) >= from)
      BY <1>2, <1>6, <2>3 DEF Fetched
    <3> QED BY <1>6, <3>1, BelowPass
  <2>4. CASE RowStays(h, from, l) /\ ~Fetched(h, from, l)
    BY <2>3, <2>4, CommittedLife DEF RowStays
  <2>5. CASE RowGoes(h, from, l)
    <3>1. rows'[l] # NoRow /\ l \in GameLogs /\ Live(l) /\ Height(rows[l].hash) >= from
      BY <2>5, CommittedLife DEF RowGoes
    <3>2. ASSUME l \in Restored PROVE FALSE
      <4>1. ~Fetched(h, from, l)
        BY <2>5, <3>2 DEF RowGoes
      <4>2. Held(tip, l) # 0 /\ ~ (Height(Held(tip, l)) >= from)
        BY <1>6, <2>3, <4>1
      <4>3. rows[l].hash = Held(tip, l)
        BY <3>1, <4>2, BelowPass
      <4> QED BY <3>1, <4>2, <4>3
    <3> QED BY <3>1, <3>2
  <2> QED BY <1>3, <2>1, <2>2, <2>4, <2>5
<1> QED BY <1>4, <1>5, <1>6 DEF Shows

\* Below the overlap with what was scanned, the ledger is still the chain.
LEMMA CommitSettled ==
    ASSUME Inv, Still, SettledOK, NEW h, NEW from, CommitOf(h, from), late' = late
    PROVE  SettledOK'
<1>1. PICK k : k = Height(h)
  OBVIOUS
<1>2. /\ k \in Nat \ {0} /\ from \in 1 .. k /\ latest \in Nat /\ latest' \in Nat /\ cursor \in Nat
      /\ Overlap \in Nat \ {0} /\ Scanned = cursor
      /\ \A b : Block(b) => Height(b) \in Nat \ {0} /\ b # 0
      /\ \A l \in Logs :
            /\ Held(tip, l) # 0 => Block(Held(tip, l))
            /\ Held(h, l) = IF Held(tip, l) = 0 \/ Height(Held(tip, l)) > k THEN 0 ELSE Held(tip, l)
            /\ Live(l) => Block(rows[l].hash) /\ Height(rows[l].hash) <= latest
  BY <1>1, CommitGrounds
<1>3. PICK m : m = cursor - Overlap
  OBVIOUS
<1>4. /\ latest <= cursor
      /\ \A l \in GameLogs :
            /\ Live(l) /\ Height(rows[l].hash) <= m => Held(tip, l) = rows[l].hash
            /\ Live(l) /\ Held(tip, l) # 0 /\ Height(Held(tip, l)) <= m => rows[l].hash = Held(tip, l)
      /\ \A l \in Logs : Held(tip, l) # 0 /\ Height(Held(tip, l)) <= m =>
            rows[l] # NoRow /\ (l \in Restored \ late => Live(l))
  BY <1>2, <1>3 DEF SettledOK
<1>5. PICK c : c = cursor'
  OBVIOUS
<1>6. /\ c = (IF cursor >= k THEN cursor ELSE k) /\ c \in Nat /\ Scanned' = c
      /\ latest' = latest \/ latest' <= k
      /\ \A l \in Logs : RowStays(h, from, l) \/ RowComes(h, from, l) \/ RowGoes(h, from, l)
  <2>1. /\ c = (IF cursor >= k THEN cursor ELSE k)
        /\ latest' = latest \/ latest' <= k
        /\ \A l \in Logs : RowStays(h, from, l) \/ RowComes(h, from, l) \/ RowGoes(h, from, l)
    BY <1>1, <1>5 DEF CommitOf
  <2>2. c \in Nat
    BY <1>2, <2>1
  <2>3. Scanned' = c
    BY <1>5, <2>2 DEF Scanned
  <2> QED BY <2>1, <2>2, <2>3
<1>7. PICK n : n = c - Overlap
  OBVIOUS
<1>8. n \in Int /\ m \in Int /\ m <= n /\ latest' <= c /\ (n = m \/ (cursor < k /\ n = k - Overlap))
  BY <1>2, <1>3, <1>4, <1>6, <1>7
<1>9. /\ \A h1 : Height(h1)' = Height(h1)
      /\ \A l : Held(tip, l)' = Held(tip, l) /\ Height(Held(tip, l))' = Height(Held(tip, l))
  BY StillChain
<1>10. ASSUME NEW l \in GameLogs, Live(l)', NEW q, q = rows'[l].hash, Height(q) <= n
       PROVE  Held(tip, l) = q
  <2>0. l \in Logs
    BY DEF Logs
  <2>1. ~RowGoes(h, from, l)
    BY <1>10, CommittedLife
  <2>2. CASE RowComes(h, from, l)
    <3>1. q = Held(h, l) /\ Held(h, l) # 0
      BY <1>10, <2>2 DEF RowComes, Fetched
    <3> QED BY <1>2, <2>0, <3>1
  <2>3. CASE RowStays(h, from, l)
    <3>1. q = rows[l].hash /\ Live(l)
      BY <1>10, <2>3, CommittedLife DEF RowStays
    <3>2. Block(q) /\ Height(q) \in Nat \ {0} /\ q # 0
      BY <1>2, <2>0, <3>1
    <3>3. CASE Height(q) <= m
      BY <1>4, <3>1, <3>3
    <3>4. CASE ~ (Height(q) <= m) /\ ~ (Height(q) >= from)
      BY <3>1, <3>4, BelowPass
    <3>5. CASE ~ (Height(q) <= m) /\ Height(q) >= from
      <4>1. Height(q) <= k
        <5>1. n = k - Overlap
          BY <1>8, <1>10, <3>5
        <5> QED BY <1>2, <1>8, <1>10, <3>2, <5>1
      <4>2. Height(q) \in from .. k
        BY <1>2, <3>2, <3>5, <4>1
      <4>3. Held(h, l) = q
        BY <1>1, <2>3, <3>1, <4>2 DEF RowStays
      <4> QED BY <1>2, <2>0, <3>2, <4>3
    <3> QED BY <3>3, <3>4, <3>5
  <2> QED BY <1>6, <2>0, <2>1, <2>2, <2>3
<1>11. ASSUME NEW l \in Logs, NEW p, p = Held(tip, l), p # 0, Height(p) <= n
       PROVE  \/ Height(p) <= m /\ ~Fetched(h, from, l)
              \/ ~ (Height(p) >= from) /\ ~Fetched(h, from, l)
              \/ Fetched(h, from, l) /\ Held(h, l) = p /\ Height(p) >= from
  <2>1. Block(p) /\ Height(p) \in Nat \ {0}
    BY <1>2, <1>11
  <2>2. CASE Height(p) > k
    <3>1. Held(h, l) = 0
      BY <1>2, <1>11, <2>2
    <3>2. Height(p) <= m
      <4>1. ~ (n = k - Overlap)
        BY <1>2, <1>11, <2>1, <2>2
      <4> QED BY <1>8, <1>11, <4>1
    <3> QED BY <3>1, <3>2 DEF Fetched
  <2>3. CASE ~ (Height(p) > k)
    <3>1. Held(h, l) = p
      BY <1>2, <1>11, <2>3
    <3> QED BY <1>11, <3>1 DEF Fetched
  <2> QED BY <2>2, <2>3
<1>15. ASSUME NEW l \in Logs, NEW p, p = Held(tip, l), p # 0, Height(p) <= n, ~Fetched(h, from, l)
       PROVE  /\ rows[l] # NoRow /\ (l \in Restored \ late => Live(l))
              /\ l \in GameLogs /\ Live(l) => rows[l].hash = p
  <2>1. Height(p) <= m \/ ~ (Height(p) >= from)
    BY <1>11, <1>15
  <2> QED BY <1>4, <1>15, <2>1, BelowPass
<1>12. ASSUME NEW l \in GameLogs, Live(l)', NEW p, p = Held(tip, l), p # 0, Height(p) <= n
       PROVE  rows'[l].hash = p
  <2>0. l \in Logs /\ ~RowGoes(h, from, l)
    BY <1>12, CommittedLife DEF Logs
  <2>1. CASE ~Fetched(h, from, l)
    <3>1. RowStays(h, from, l)
      BY <1>6, <2>0, <2>1 DEF RowComes
    <3>2. Live(l) /\ rows'[l] = rows[l]
      BY <1>12, <3>1, CommittedLife DEF RowStays
    <3> QED BY <1>12, <1>15, <2>0, <2>1, <3>2
  <2>2. CASE Fetched(h, from, l)
    <3>1. Held(h, l) = p /\ Height(p) >= from
      BY <1>11, <1>12, <2>0, <2>2, <1>2 DEF Fetched
    <3>3. CASE RowComes(h, from, l)
      BY <3>1, <3>3 DEF RowComes
    <3>4. CASE RowStays(h, from, l)
      <4>1. Live(l) /\ rows'[l] = rows[l]
        BY <1>12, <3>4, CommittedLife DEF RowStays
      <4>2. PICK q : q = rows[l].hash
        OBVIOUS
      <4>3. Block(q) /\ Height(q) \in Nat \ {0} /\ q # 0 /\ Height(q) <= latest
        BY <1>2, <2>0, <4>1, <4>2
      <4>4. CASE ~ (Height(q) >= from)
        BY <1>12, <4>1, <4>2, <4>4, BelowPass
      <4>5. CASE Height(q) >= from /\ Height(q) <= k
        <5>1. Height(q) \in from .. k
          BY <1>2, <4>3, <4>5
        <5> QED BY <1>1, <3>1, <3>4, <4>1, <4>2, <5>1 DEF RowStays
      <4>6. CASE ~ (Height(q) <= k)
        <5>1. n = m
          BY <1>2, <1>4, <1>8, <4>3, <4>6
        <5> QED BY <1>4, <1>12, <4>1, <5>1
      <4> QED BY <4>4, <4>5, <4>6
    <3> QED BY <1>6, <2>0, <3>3, <3>4
  <2> QED BY <2>1, <2>2
<1>13. ASSUME NEW l \in Logs, NEW p, p = Held(tip, l), p # 0, Height(p) <= n
       PROVE  rows'[l] # NoRow /\ (l \in Restored \ late => Live(l)')
  <2>1. CASE RowComes(h, from, l)
    BY <2>1, CommittedLife
  <2>2. CASE RowStays(h, from, l)
    <3>1. CASE Fetched(h, from, l)
      BY <2>2, <3>1, CommittedLife DEF RowStays
    <3>2. CASE ~Fetched(h, from, l)
      BY <1>13, <1>15, <2>2, <3>2, CommittedLife DEF RowStays
    <3> QED BY <3>1, <3>2
  <2>3. CASE RowGoes(h, from, l)
    <3>1. rows'[l] # NoRow /\ l \in GameLogs /\ Live(l)
      BY <2>3, CommittedLife DEF RowGoes
    <3>2. ASSUME l \in Restored PROVE FALSE
      <4>1. ~Fetched(h, from, l)
        BY <2>3, <3>2 DEF RowGoes
      <4>2. rows[l].hash = p
        BY <1>13, <1>15, <3>1, <4>1
      <4>3. Height(p) >= from /\ Height(p) <= k /\ Height(p) \in Nat
        BY <1>1, <1>2, <1>13, <2>3, <4>2 DEF RowGoes
      <4>4. Held(h, l) = p
        BY <1>2, <1>13, <4>3
      <4> QED BY <1>13, <4>1, <4>3, <4>4 DEF Fetched
    <3> QED BY <3>1, <3>2
  <2> QED BY <1>6, <2>1, <2>2, <2>3
<1>14. /\ \A l \in GameLogs : Live(l)' =>
             /\ Height(rows[l].hash)' <= n => Held(tip, l)' = rows'[l].hash
             /\ Held(tip, l)' # 0 /\ Height(Held(tip, l))' <= n => rows'[l].hash = Held(tip, l)'
       /\ \A l \in Logs : Held(tip, l)' # 0 /\ Height(Held(tip, l))' <= n =>
             rows'[l] # NoRow /\ (l \in Restored \ late' => Live(l)')
  <2>1. \A l : Height(rows[l].hash)' = Height(rows'[l].hash)
    BY DEF Still, Height
  <2> QED BY <1>9, <1>10, <1>12, <1>13, <2>1
<1> QED BY <1>6, <1>7, <1>8, <1>14 DEF SettledOK

\* The rows after the commit are in order.
LEMMA CommitRows ==
    ASSUME Inv, Still, UNCHANGED <<socket, removals>>, NEW h, NEW from, CommitOf(h, from)
    PROVE  NoticesOK' /\ RowsOK' /\ rows' \in [Logs -> Row]
<1>1. TypeOK /\ NoticesOK /\ RowsOK
  BY DEF Inv
<1>2. PICK k : k = Height(h)
  OBVIOUS
<1>3. /\ k \in Nat \ {0} /\ k <= Height(tip) /\ cursor <= Height(tip) /\ latest' <= Height(tip)
      /\ latest \in Nat /\ latest' \in Nat /\ latest <= latest'
      /\ \A b : Block(b) => Height(b) \in Nat \ {0} /\ b # 0
      /\ \A l \in Logs :
            /\ Held(tip, l) # 0 => Block(Held(tip, l))
            /\ Held(h, l) = IF Held(tip, l) = 0 \/ Height(Held(tip, l)) > k THEN 0 ELSE Held(tip, l)
            /\ Held(h, l) # 0 => Block(Held(h, l)) /\ Height(Held(h, l)) <= k
            /\ Live(l) => Block(rows[l].hash) /\ Height(rows[l].hash) <= latest
  BY <1>2, CommitGrounds DEF CommitOf
<1>4. /\ cursor' = IF cursor >= k THEN cursor ELSE k
      /\ \A l \in Logs : RowStays(h, from, l) \/ RowComes(h, from, l) \/ RowGoes(h, from, l)
      /\ rows' = [l \in Logs |-> rows'[l]]
      /\ handled' \subseteq Logs
      /\ \A l \in handled' : Fetched(h, from, l) \/ (l \in handled /\ rows'[l] = rows[l])
  BY <1>2 DEF CommitOf
<1>5. /\ \A b : Height(b)' = Height(b) /\ (Block(b)' <=> Block(b))
      /\ \A l : Held(tip, l)' = Held(tip, l) /\ Height(Held(tip, l))' = Height(Held(tip, l))
      /\ Height(tip)' = Height(tip)
  BY StillChain
<1>6. rows' \in [Logs -> Row]
  <2>1. \A l \in Logs : rows'[l] \in Row
    <3>1. \A l \in Logs : rows[l] \in Row
      BY <1>1 DEF TypeOK, Row
    <3> QED BY <1>4, <3>1 DEF RowStays, RowComes, RowGoes
  <2> QED BY <1>4, <2>1
<1>7. NoticesOK'
  <2>1. ASSUME NEW n \in notices' \cup removals'
        PROVE  /\ Block(n[2])'
               /\ n[1] \notin late' /\ Held(tip, n[1])' # 0 => Height(Held(tip, n[1]))' > Height(tip)' - Overlap
    <3>1. /\ Block(n[2]) /\ late' = late
          /\ n[1] \notin late /\ Held(tip, n[1]) # 0 => Height(Held(tip, n[1])) > Height(tip) - Overlap
      BY <1>1, <2>1 DEF NoticesOK, socket
    <3> QED BY <1>5, <3>1
  <2> QED BY <2>1 DEF NoticesOK
<1>8. latest' <= Height(tip)' /\ cursor' <= Height(tip)'
  BY <1>3, <1>4, <1>5
<1>9. ASSUME NEW l \in Logs
      PROVE  IF rows'[l].hash = 0 THEN rows'[l] = NoRow
             ELSE Block(rows[l].hash)' /\ Height(rows[l].hash)' <= latest'
  <2>1. PICK q : q = rows'[l].hash
    OBVIOUS
  <2>2. CASE RowStays(h, from, l)
    <3>1. IF q = 0 THEN rows'[l] = NoRow ELSE Block(q) /\ Height(q) <= latest
      BY <1>1, <2>1, <2>2 DEF RowsOK, RowStays
    <3>2. q # 0 => Block(q)' /\ Height(q)' <= latest'
      BY <1>3, <1>5, <3>1
    <3> QED BY <2>1, <3>1, <3>2
  <2>3. CASE RowComes(h, from, l)
    <3>1. q = Held(h, l) /\ q # 0 /\ Height(q) <= latest'
      BY <2>1, <2>3 DEF RowComes, Fetched
    <3>2. Block(q)' /\ Height(q)' <= latest'
      BY <1>3, <1>5, <3>1
    <3> QED BY <2>1, <3>1, <3>2
  <2>4. CASE RowGoes(h, from, l)
    <3>1. q = rows[l].hash /\ Live(l)
      BY <2>1, <2>4 DEF RowGoes
    <3>2. Block(q) /\ Height(q) <= latest /\ q # 0 /\ Height(q) \in Nat
      BY <1>3, <3>1
    <3>3. Block(q)' /\ Height(q)' <= latest'
      BY <1>3, <1>5, <3>2
    <3> QED BY <2>1, <3>2, <3>3
  <2> QED BY <1>4, <2>2, <2>3, <2>4
<1>10. ASSUME NEW l \in handled'
       PROVE  rows'[l] # NoRow /\ (l \in Restored => Live(l)')
  <2>0. l \in Logs
    BY <1>4
  <2>1. CASE Fetched(h, from, l)
    <3>1. CASE RowGoes(h, from, l)
      BY <2>1, <3>1, CommittedLife DEF RowGoes
    <3>2. CASE RowComes(h, from, l)
      BY <3>2, CommittedLife
    <3>3. CASE RowStays(h, from, l)
      BY <2>1, <3>3, CommittedLife DEF RowStays
    <3> QED BY <1>4, <2>0, <3>1, <3>2, <3>3
  <2>2. CASE l \in handled /\ rows'[l] = rows[l]
    <3>1. Live(l)' <=> Live(l)
      BY <2>2 DEF Live
    <3> QED BY <1>1, <2>2, <3>1 DEF RowsOK
  <2> QED BY <1>4, <2>1, <2>2
<1>11. ASSUME NEW l \in OtherLogs, Live(l)'
       PROVE  \/ Held(tip, l)' = rows'[l].hash
              \/ <<l, rows'[l].hash>> \in notices' \cup removals' \cup missed'
  <2>0. l \in Logs
    BY DEF Logs
  <2>1. CASE RowStays(h, from, l)
    <3>1. rows'[l] = rows[l] /\ Live(l)
      BY <1>11, <2>1, CommittedLife DEF RowStays
    <3>2. Held(tip, l) = rows[l].hash \/ <<l, rows[l].hash>> \in notices \cup removals \cup missed
      BY <1>1, <3>1 DEF RowsOK
    <3> QED BY <1>5, <3>1, <3>2 DEF socket
  <2>2. CASE RowComes(h, from, l)
    <3>1. rows'[l].hash = Held(h, l) /\ Held(h, l) # 0
      BY <2>2 DEF RowComes, Fetched
    <3> QED BY <1>3, <1>5, <2>0, <3>1
  <2> QED BY <1>4, <1>11, <2>0, <2>1, <2>2, CommittedLife
<1> QED BY <1>6, <1>7, <1>8, <1>9, <1>10, <1>11 DEF RowsOK

\* The repairs that are due when the commit is made.
Due == repairs \cup UnfinishedRepairs \cup (MissingLogs \cap Completions)

\* What the commit records of itself: the watermark, or the repairs to come.
Recorded(h) ==
    /\ verified' = TRUE /\ repairs' = repairs /\ pass' = Idle
    /\ watermark' = None \/ (watermark' = [hash |-> h, current |-> TRUE] /\ latest' <= Height(h))
Deferred ==
    /\ repairs' = Due /\ verified' = verified /\ pending' = pending
    /\ pass' = [pass EXCEPT !.at = "repair"]
    /\ watermark' = IF rows' # rows THEN Dirty(watermark) ELSE watermark
CommitRest(h) ==
    /\ Still /\ UNCHANGED <<socket, removals, faults>>
    /\ pending' = pending \/ (pending' = "none" /\ pending # "reorg")
    /\ transport' \in {"none", transport} /\ event' \in BOOLEAN /\ owed' \in BOOLEAN
    /\ lostAnchor' \in {None, lostAnchor, Dirty(lostAnchor)}
    /\ (Due = {} /\ Recorded(h)) \/ (Due # {} /\ Deferred)

\* The commit does one of the two.
LEMMA CommitEnds ==
    ASSUME Inv, Commit
    PROVE  CommitRest(pass.head)
<1>1. TypeOK
  BY DEF Inv
<1>2. event \in BOOLEAN /\ owed \in BOOLEAN
  BY <1>1 DEF TypeOK
<1>3. PICK changed, lost : changed = (rows' # rows) /\ lost = IF changed THEN Dirty(lostAnchor) ELSE lostAnchor
  OBVIOUS
<1>4. changed \in BOOLEAN /\ lost \in {lostAnchor, Dirty(lostAnchor)}
  BY <1>3
<1>5. /\ UNCHANGED <<chain, socket, removals, faults>>
      /\ \/ /\ Due = {} /\ verified' = TRUE /\ UNCHANGED repairs
            /\ Publish(latest', changed, lost, event \/ changed)
         \/ /\ Due # {} /\ repairs' = Due
            /\ watermark' = IF changed THEN Dirty(watermark) ELSE watermark
            /\ lostAnchor' = lost
            /\ event' = (event \/ changed) /\ owed' = (owed \/ changed)
            /\ pass' = [pass EXCEPT !.at = "repair"]
            /\ UNCHANGED <<pending, transport, verified>>
  BY <1>3 DEF Commit, Due
<1>6. Still /\ UNCHANGED <<socket, removals, faults>>
  BY <1>5 DEF chain, Still
<1>7. CASE Due = {} /\ verified' = TRUE /\ UNCHANGED repairs /\ Publish(latest', changed, lost, event \/ changed)
  <2>1. /\ watermark' = None \/ (watermark' = [hash |-> pass.head, current |-> TRUE] /\ latest' <= Height(pass.head))
        /\ pending' = pending \/ (pending' = "none" /\ pending # "reorg")
        /\ lostAnchor' \in {None, lost} /\ transport' \in {"none", transport}
        /\ event' \in BOOLEAN /\ owed' \in BOOLEAN /\ pass' = Idle
    BY <1>7 DEF Publish, ReasonAfter
  <2> QED BY <1>4, <1>6, <1>7, <2>1 DEF CommitRest, Recorded
<1>8. CASE /\ Due # {} /\ repairs' = Due
           /\ watermark' = IF changed THEN Dirty(watermark) ELSE watermark
           /\ lostAnchor' = lost
           /\ event' = (event \/ changed) /\ owed' = (owed \/ changed)
           /\ pass' = [pass EXCEPT !.at = "repair"]
           /\ UNCHANGED <<pending, transport, verified>>
  <2>1. event' \in BOOLEAN /\ owed' \in BOOLEAN
    BY <1>2, <1>4, <1>8
  <2>2. watermark' = IF rows' # rows THEN Dirty(watermark) ELSE watermark
    BY <1>3, <1>8
  <2> QED BY <1>4, <1>6, <1>8, <2>1, <2>2 DEF CommitRest, Deferred
<1> QED BY <1>5, <1>7, <1>8

\* A completion that is removed now is repaired or will be.
LEMMA CommittedRepairs ==
    ASSUME Inv, NEW h, NEW from, CommitOf(h, from), NEW l \in Completions, rows'[l].removed
    PROVE  rows'[l].repaired \/ l \in Due
<1>1. RepairsOK /\ l \in Logs
  BY ChainSyncConstants DEF Inv, Logs
<1>2. CASE RowStays(h, from, l)
  <2>1. rows'[l] = rows[l] /\ rows[l].removed
    BY <1>2 DEF RowStays
  <2>2. CASE verified
    BY <1>1, <2>1, <2>2 DEF RepairsOK, Due
  <2>3. CASE ~verified
    BY <2>1, <2>3 DEF UnfinishedRepairs, Due
  <2> QED BY <2>2, <2>3
<1>3. CASE RowComes(h, from, l)
  BY <1>3 DEF RowComes
<1>4. CASE RowGoes(h, from, l)
  BY <1>4 DEF RowGoes, Due
<1> QED BY <1>1, <1>2, <1>3, <1>4 DEF CommitOf

\* A log of another contract that is live after the commit is on the chain, or
\* its removal is still to be told.
LEMMA CommittedOthers ==
    ASSUME Inv, RowsOK', Still, NEW h, NEW from, CommitOf(h, from), latest' <= Height(h),
           NEW l \in OtherLogs, Live(l)'
    PROVE  Held(h, l) = rows'[l].hash \/ Told(l, rows[l].hash)'
<1>1. PICK q, k, top : q = rows'[l].hash /\ k = Height(h) /\ top = latest'
  OBVIOUS
<1>2. /\ k \in Nat /\ top \in Nat /\ top <= k
      /\ \A b : Block(b) => Height(b) \in Nat \ {0}
      /\ Held(h, l) = IF Held(tip, l) = 0 \/ Height(Held(tip, l)) > k THEN 0 ELSE Held(tip, l)
  BY <1>1, CommitGrounds DEF Logs
<1>3. /\ q # 0 /\ Block(q) /\ Height(q) <= top
      /\ Held(tip, l) = q \/ Told(l, rows[l].hash)'
  <2>1. /\ q # 0 /\ Block(q)' /\ Height(q)' <= top
        /\ Held(tip, l)' = q \/ <<l, q>> \in notices' \cup removals' \cup missed'
    BY <1>1 DEF RowsOK, Live, Logs
  <2>2. (Block(q)' <=> Block(q)) /\ Height(q)' = Height(q) /\ Held(tip, l)' = Held(tip, l)
    BY StillChain
  <2>3. <<l, q>> \in notices' \cup removals' \cup missed' => Told(l, rows[l].hash)'
    BY <1>1 DEF Told
  <2> QED BY <2>1, <2>2, <2>3
<1>4. Held(tip, l) = q => Held(h, l) = q
  <2>1. Height(q) \in Nat /\ ~ (Height(q) > k)
    BY <1>2, <1>3
  <2> QED BY <1>2, <1>3, <2>1
<1> QED BY <1>1, <1>3, <1>4

\* The pass writes what it fetched.
LEMMA CommitStep ==
    ASSUME Inv, Commit
    PROVE  Inv'
<1>1. TypeOK /\ ChainOK /\ AnchorOK /\ (pending # "reorg" => SettledOK) /\ Completions \subseteq Logs /\ PassOK
  BY ChainSyncConstants DEF Inv, Logs
<1>2. PICK h, from : h = pass.head /\ from = pass.from
  OBVIOUS
<1>3. CommitOf(h, from) /\ CommitRest(h)
  BY <1>2, CommittedRows, CommitEnds
<1>4. /\ Still /\ UNCHANGED <<socket, removals, faults>> /\ late' = late
      /\ Block(h) /\ pass.at = "commit"
      /\ pending' = pending \/ (pending' = "none" /\ pending # "reorg")
      /\ (Due = {} /\ Recorded(h)) \/ (Due # {} /\ Deferred)
  BY <1>3 DEF CommitRest, CommitOf, Commit, socket
<1>5. NoticesOK' /\ RowsOK' /\ rows' \in [Logs -> Row]
  BY <1>3, <1>4, CommitRows
<1>6. pending' # "reorg" => pending # "reorg" /\ SettledOK /\ SettledOK'
  BY <1>1, <1>3, <1>4, CommitSettled
<1>7. ASSUME pending' # "reorg", latest' <= Height(h) PROVE Shows(h)'
  BY <1>3, <1>4, <1>6, <1>7, CommitShows
<1>8. /\ \A b : Block(b)' <=> Block(b)
      /\ \A b : Height(b)' = Height(b)
      /\ \A b : \A l : Held(b, l)' = Held(b, l)
      /\ ChainOK' /\ Top' = Top
  BY <1>1, <1>4, StillChain
<1>9. Due \subseteq Completions
  BY <1>1 DEF Due, UnfinishedRepairs, TypeOK
<1>10. TypeOK'
  <2>1. /\ pending \in {"none", "anchorChanged", "headChanged", "removedLog", "reorg"}
        /\ watermark \in Anchors /\ lostAnchor \in Anchors /\ transport \in {"none", "behind"}
        /\ pass \in [at : {"idle", "head", "check", "fetch", "commit", "repair", "publish"},
                     head : Hashes, from : Base .. MaxBlocks, logs : SUBSET (Logs \X Hashes)]
    BY <1>1 DEF TypeOK
  <2>2. /\ None \in Anchors /\ [hash |-> h, current |-> TRUE] \in Anchors
        /\ Dirty(watermark) \in Anchors /\ Dirty(lostAnchor) \in Anchors
    BY <1>1, <1>4, <2>1, AnchorTypes, BlockTypes DEF Anchors
  <2>3. 0 \in Hashes /\ 1 \in Base .. MaxBlocks /\ Idle = [at |-> "idle", head |-> 0, from |-> 1, logs |-> {}]
    BY ChainSyncConstants DEF Hashes, Base, Idle
  <2>4. pass' \in [at : {"idle", "head", "check", "fetch", "commit", "repair", "publish"},
                   head : Hashes, from : Base .. MaxBlocks, logs : SUBSET (Logs \X Hashes)]
    <3>1. CASE pass' = Idle
      BY <2>3, <3>1
    <3>2. CASE pass' = [pass EXCEPT !.at = "repair"]
      BY <2>1, <3>2
    <3> QED BY <1>4, <3>1, <3>2 DEF Recorded, Deferred
  <2>5. /\ pending' \in {"none", "anchorChanged", "headChanged", "removedLog", "reorg"}
        /\ watermark' \in Anchors /\ lostAnchor' \in Anchors /\ transport' \in {"none", "behind"}
        /\ {event', owed'} \subseteq BOOLEAN
    BY <1>3, <1>4, <2>1, <2>2 DEF CommitRest, Recorded, Deferred
  <2>6. verified' \in BOOLEAN /\ repairs' \subseteq Completions
    BY <1>1, <1>4, <1>9 DEF TypeOK, Recorded, Deferred
  <2>7. latest' \in Hashes /\ cursor' \in -1 .. Top' /\ handled' \subseteq Logs
    <3>1. PICK k : k = Height(h)
      OBVIOUS
    <3>2. /\ latest' \in Nat /\ latest' <= Height(tip) /\ k \in Nat /\ k <= Height(tip)
          /\ cursor \in Nat /\ cursor <= Height(tip)
      BY <1>3, <3>1, CommitGrounds
    <3>3. /\ cursor' = (IF cursor >= k THEN cursor ELSE k) /\ handled' \subseteq Logs
      BY <1>3, <3>1 DEF CommitOf
    <3>4. Height(tip) \in Nat /\ Height(tip) <= MaxBlocks /\ MaxBlocks \in Nat /\ Top' = Height(tip)
      BY <1>1, <1>8, HeightsAreBounded
    <3> QED BY <3>2, <3>3, <3>4 DEF Hashes
  <2> QED BY <1>1, <1>4, <1>5, <2>4, <2>5, <2>6, <2>7 DEF TypeOK, Still, socket, Row
<1>11. PassOK'
  <2>1. CASE Recorded(h)
    BY <2>1 DEF PassOK, Recorded, Idle
  <2>2. CASE Deferred
    <3>1. pass'.at = "repair" /\ pass'.head = h
      BY <1>1, <1>2, <2>2 DEF Deferred, TypeOK
    <3>2. pending' # "reorg" /\ latest' <= Height(h)' => Shows(h)'
      BY <1>7, <1>8
    <3>3. Block(h)'
      BY <1>4, <1>8
    <3>4. Shows(pass.head)' <=> Shows(h)'
      BY <3>1 DEF Shows, Held
    <3>5. (Height(pass.head)' = Height(h)') /\ (Block(pass.head)' <=> Block(h)')
      BY <3>1 DEF Height, Block
    <3> QED BY <3>1, <3>2, <3>3, <3>4, <3>5 DEF PassOK
  <2> QED BY <1>4, <2>1, <2>2
<1>12. \A l \in Completions : rows'[l].removed => rows'[l].repaired \/ l \in Due
  BY <1>3, CommittedRepairs
<1>13. RepairsOK'
  BY <1>4, <1>12 DEF RepairsOK, Deferred
<1>14. AnchorOK'
  <2>1. CASE watermark' = None
    BY <2>1 DEF AnchorOK, Stands
  <2>2. CASE Due = {} /\ watermark' = [hash |-> h, current |-> TRUE] /\ latest' <= Height(h)
    <3>1. ASSUME pending' # "reorg"
          PROVE  /\ Shows(h)'
                 /\ \A l \in OtherLogs : Live(l)' => Held(h, l)' = rows'[l].hash \/ Told(l, rows[l].hash)'
                 /\ \A l \in Completions : rows'[l].removed => rows'[l].repaired
      BY <1>3, <1>4, <1>5, <1>7, <1>8, <1>12, <2>2, <3>1, CommittedOthers
    <3>2. watermark'.hash = h /\ Block(h)'
      BY <1>4, <1>8, <2>2
    <3> QED BY <3>1, <3>2 DEF AnchorOK, Shows, Held, Told, Block
  <2>3. CASE Deferred /\ rows' = rows
    <3>1. SameRows /\ Remembered /\ watermark' = watermark /\ (pending = "reorg" => pending' = "reorg")
      BY <1>4, <2>3 DEF SameRows, Remembered, socket, Deferred
    <3> QED BY <1>4, <3>1, AnchorStays
  <2>4. CASE Deferred /\ rows' # rows
    <3>1. watermark' = Dirty(watermark) /\ watermark \in Anchors
      BY <1>1, <2>4 DEF Deferred, TypeOK
    <3>2. watermark'.hash = watermark.hash /\ watermark'.current = FALSE
          /\ (watermark' # None => watermark # None)
      BY <3>1, AnchorTypes
    <3>3. watermark' # None => Block(watermark.hash)'
      BY <1>1, <1>8, <3>2 DEF AnchorOK, Stands, Block, Still
    <3> QED BY <3>2, <3>3 DEF AnchorOK, Stands
  <2> QED BY <1>4, <2>1, <2>2, <2>3, <2>4 DEF Recorded
<1> QED BY <1>5, <1>6, <1>8, <1>10, <1>11, <1>13, <1>14 DEF Inv

-----------------------------------------------------------------------------
(* The theorems.                                                           *)

\* It holds at first: there is one block, and nothing is known of it.
LEMMA InitInv == Init => Inv
<1> SUFFICES ASSUME Init PROVE Inv
  OBVIOUS
<1>1. /\ blocks = <<[path |-> <<1>>, holds |-> NoLogs]>> /\ tip = 1
      /\ notices = {} /\ missed = {} /\ late = {} /\ removals = {}
      /\ rows = [l \in Logs |-> NoRow] /\ latest = 0
      /\ watermark = None /\ lostAnchor = None /\ pending = "none" /\ transport = "none"
      /\ handled = {} /\ cursor = -1
      /\ repairs = {} /\ verified = FALSE /\ event = FALSE /\ owed = FALSE
      /\ pass = Idle /\ faults = 0
  BY DEF Init
<1>2. Overlap \in Nat \ {0} /\ MaxBlocks \in Nat \ {0} /\ MaxFaults \in Nat /\ Completions \subseteq Logs
  BY ChainSyncConstants DEF Logs
<1>3. 0 \in Hashes /\ 1 \in Hashes
  BY <1>2 DEF Hashes
<1>4. /\ Len(blocks) = 1 /\ DOMAIN blocks = {1} /\ Height(1) = 1 /\ HashAt(1, 1) = 1
      /\ \A h : Block(h) <=> h = 1
      /\ \A l \in Logs : Held(1, l) = 0
  <2>1. Len(blocks) = 1 /\ DOMAIN blocks = {1} /\ blocks[1] = [path |-> <<1>>, holds |-> NoLogs]
    BY <1>1
  <2>2. blocks[1].path = <<1>> /\ blocks[1].holds = NoLogs
    BY <2>1
  <2> QED BY <2>1, <2>2 DEF Height, HashAt, Held, Block, NoLogs
<1>5. ChainOK
  <2>1. PathOK(1)
    BY <1>4 DEF PathOK
  <2>2. \A i \in 1 .. Height(tip) - Overlap : HashAt(1, i) = HashAt(tip, i)
    BY <1>1
  <2> QED BY <1>1, <1>4, <2>1, <2>2 DEF ChainOK
<1>6. \A l \in Logs : rows[l] = NoRow /\ ~Live(l) /\ rows[l].hash = 0 /\ rows[l].removed = FALSE
  BY <1>1, NoRowIs DEF Live
<1>7. TypeOK
  <2>1. blocks \in Seq([path : Seq(Hashes), holds : [Logs -> Hashes]])
    <3>1. NoLogs \in [Logs -> Hashes] /\ <<1>> \in Seq(Hashes)
      BY <1>3 DEF NoLogs
    <3>2. [path |-> <<1>>, holds |-> NoLogs] \in [path : Seq(Hashes), holds : [Logs -> Hashes]]
      BY <3>1
    <3> QED BY <1>1, <3>2
  <2>2. rows \in [Logs -> [hash : Hashes, removed : BOOLEAN, repaired : BOOLEAN]]
    BY <1>1, NoRowIs DEF Row
  <2>3. Top \in Nat /\ Top = 1
    <3>1. {Height(h) : h \in DOMAIN blocks} = {1}
      BY <1>4
    <3>2. Max({1}) = 1
      <4>1. \A x \in {1} : \A y \in {1} : x >= y
        OBVIOUS
      <4> QED BY <4>1 DEF Max
    <3> QED BY <3>1, <3>2 DEF Top
  <2>4. None \in Anchors
    BY <1>3, Zenon DEF None, Anchors
  <2>5. Idle \in [at : {"idle", "head", "check", "fetch", "commit", "repair", "publish"},
                  head : Hashes, from : Base .. MaxBlocks, logs : SUBSET (Logs \X Hashes)]
    BY <1>2, <1>3 DEF Idle, Base
  <2>6. Len(blocks) \in 1 .. MaxBlocks /\ tip \in DOMAIN blocks /\ latest \in Hashes /\ cursor \in -1 .. Top
    BY <1>1, <1>2, <1>3, <1>4, <2>3
  <2>7. /\ notices \cup missed \cup removals \subseteq Logs \X Hashes
        /\ handled \subseteq Logs /\ repairs \subseteq Completions /\ late \subseteq Logs
        /\ {verified, event, owed} \subseteq BOOLEAN
        /\ faults \in 0 .. MaxFaults
    <3>1. notices \cup missed \cup removals = {} /\ handled = {} /\ repairs = {} /\ late = {}
      BY <1>1
    <3>2. verified = FALSE /\ event = FALSE /\ owed = FALSE
      BY <1>1
    <3>3. {verified, event, owed} \subseteq BOOLEAN
      BY <3>2
    <3>4. faults \in 0 .. MaxFaults
      BY <1>1, <1>2
    <3> QED BY <3>1, <3>3, <3>4
  <2>8. /\ watermark \in Anchors /\ lostAnchor \in Anchors
        /\ pending \in {"none", "anchorChanged", "headChanged", "removedLog", "reorg"}
        /\ transport \in {"none", "behind"}
    BY <1>1, <2>4
  <2>9. pass \in [at : {"idle", "head", "check", "fetch", "commit", "repair", "publish"},
                  head : Hashes, from : Base .. MaxBlocks, logs : SUBSET (Logs \X Hashes)]
    BY <1>1, <2>5, Zenon
  <2> QED BY <2>1, <2>2, <2>6, <2>7, <2>8, <2>9 DEF TypeOK
<1>8. NoticesOK
  BY <1>1 DEF NoticesOK
<1>9. RowsOK
  <2>1. latest <= Height(tip) /\ cursor <= Height(tip)
    BY <1>1, <1>4
  <2>2. \A l \in OtherLogs : ~Live(l)
    BY <1>6 DEF Logs
  <2> QED BY <1>1, <1>6, <2>1, <2>2 DEF RowsOK
<1>10. SettledOK
  <2>1. latest <= Scanned
    BY <1>1 DEF Scanned
  <2>2. \A l \in Logs : ~Live(l) /\ Held(tip, l) = 0
    BY <1>1, <1>4, <1>6
  <2> QED BY <2>1, <2>2 DEF SettledOK, Logs
<1>11. PassOK
  BY <1>1 DEF PassOK, Idle
<1>12. RepairsOK
  BY <1>1 DEF RepairsOK, Idle
<1>13. AnchorOK
  BY <1>1 DEF AnchorOK, Stands
<1> QED BY <1>5, <1>7, <1>8, <1>9, <1>10, <1>11, <1>12, <1>13 DEF Inv

\* It depends on the variables only.
LEMMA StutterInv ==
    ASSUME Inv, UNCHANGED vars
    PROVE  Inv'
<1>1. /\ TypeOK /\ ChainOK /\ NoticesOK /\ RowsOK /\ (pending # "reorg" => SettledOK)
      /\ PassOK /\ RepairsOK /\ AnchorOK
  BY DEF Inv
<1>2. /\ UNCHANGED <<blocks, tip, notices, missed, late, rows, latest, watermark, pending, lostAnchor, transport>>
      /\ UNCHANGED <<handled, cursor, removals, repairs, verified, event, owed, pass, faults>>
  BY DEF vars, chain, socket, ledger, projection, announcing
<1>3. Still /\ Untouched /\ Remembered
  BY <1>2 DEF Still, Untouched, Remembered, chain, ledger
<1>4. SameRows /\ latest' = latest /\ Top' = Top
  BY <1>3, UntouchedRows, StillChain
<1>5. TypeOK'
  BY <1>1, <1>2, <1>4 DEF TypeOK
<1>6. /\ cursor' <= Height(tip)
      /\ pending' # "reorg" => latest <= Scanned' /\ Scanned' <= Scanned
  BY <1>2, <1>3, CursorStays
<1>7. PassOK'
  BY <1>1, <1>2 DEF PassOK, SameHead, Shows, Held, Block, Height, HashAt, Live
<1>8. RepairsOK'
  BY <1>1, <1>2 DEF RepairsOK
<1> QED BY <1>2, <1>3, <1>4, <1>5, <1>6, <1>7, <1>8, QuietStep

\* Every step keeps it.
LEMMA StepInv ==
    ASSUME Inv, [Next]_vars
    PROVE  Inv'
<1>1. CASE UNCHANGED vars
  BY <1>1, StutterInv
<1>2. CASE Mine
  BY <1>2, MineMoves, ChainStep DEF Inv
<1>3. CASE Reorganise
  BY <1>3, ReorganiseMoves, ChainStep DEF Inv
<1>4. CASE Return
  BY <1>4, ReturnMoves, ChainStep DEF Inv
<1>5. CASE Deliver \/ Miss
  BY <1>5, NoticeStep
<1>6. CASE Drain \/ DrainFails
  BY <1>6, DrainStep
<1>7. CASE ReadHead
  BY <1>7, ReadHeadStep
<1>8. CASE CheckAnchor
  BY <1>8, CheckAnchorStep
<1>9. CASE Fetch
  BY <1>9, FetchStep
<1>10. CASE Commit
  BY <1>10, CommitStep
<1>11. CASE Repair
  BY <1>11, RepairStep
<1>12. CASE PublishRepaired
  BY <1>12, PublishRepairedStep
<1>13. CASE PassFails \/ Crash \/ HeadChanged
  BY <1>13, AbortStep
<1> QED BY <1>1, <1>2, <1>3, <1>4, <1>5, <1>6, <1>7, <1>8, <1>9, <1>10, <1>11, <1>12, <1>13 DEF Next, PassStep

\* The invariant of the indexer: how the ledger, the cursor, the pass and the
\* watermark stand to the chain, in every reachable state.
THEOREM Invariant == Spec => []Inv
<1>1. Init => Inv
  BY InitInv
<1>2. Inv /\ [Next]_vars => Inv'
  BY StepInv
<1> QED BY <1>1, <1>2, PTL DEF Spec

\* Every variable of the indexer has its type, whatever the logs and the overlap.
THEOREM Types == Spec => []TypeOK
<1>1. Inv => TypeOK
  BY DEF Inv
<1> QED BY <1>1, Invariant, PTL

\* What is served as safe is what the chain of the watermark holds: no log of it
\* lacks its row, which is live where the kind is restored and no notice came
\* late, no game log is left over, one of another contract that has left the chain
\* is live only while its removal is untold, and no repair is open.
THEOREM Exact == Spec => []SafeIsExact
<1>1. Inv => SafeIsExact
  <2>1. SUFFICES ASSUME Inv, Safe PROVE SafeIsExact
    BY DEF SafeIsExact
  <2>2. Stands /\ watermark.current /\ pending # "reorg"
    BY <2>1 DEF Safe
  <2>3. /\ Shows(watermark.hash)
        /\ \A l \in OtherLogs : Live(l) =>
              Held(watermark.hash, l) = rows[l].hash \/ Told(l, rows[l].hash)
        /\ \A l \in Completions : rows[l].removed => rows[l].repaired
    BY <2>1, <2>2 DEF Inv, AnchorOK
  <2> QED BY <2>3 DEF SafeIsExact, Shows, Held, Told
<1> QED BY <1>1, Invariant, PTL

=============================================================================
