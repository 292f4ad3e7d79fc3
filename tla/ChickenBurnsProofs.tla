------------------------- MODULE ChickenBurnsProofs -------------------------
(***************************************************************************)
(* Proofs about the listener of the burnt chickens.  What makes its record *)
(* sound is said of each pass at each place where it may wait: the chunks  *)
(* behind it hold granted burns only, and the burns of its own chunk are   *)
(* granted or still among its logs (or was passed over, or its grant taken *)
(* back by the game chain); and of every text on its way to the            *)
(* state file, whoever renames it.  Neither needs to know what the other   *)
(* passes do, since grants only grow and new burns come above the head.    *)
(***************************************************************************)
EXTENDS ChickenBurns, FiniteSetTheorems, TLAPS

Stages == {"idle", "head", "fetch", "burn", "ask", "send", "receipt", "save", "open", "write", "rename"}
Chunked == Stages \ {"idle", "head", "fetch"}
Contents == (SUBSET Burns) \X Nat

PassRecords ==
    [at : Stages, lookback : Nat, start : Nat, end : Nat, to : Nat, logs : Seq(Burns),
     mined : {"none", "success", "reverted"}, file : {"none", "tmp", "disk", "gone"},
     content : Contents]

\* A pass is well formed under this head of the chain.
Formed(q, head) ==
    /\ q \in PassRecords
    /\ q.start <= q.end /\ q.end <= q.to /\ q.to <= head /\ q.content[2] <= head
    /\ q.at \in {"ask", "send", "receipt"} => q.logs # <<>>
    /\ q.file = "none" <=> q.at # "write"
    /\ q.mined = "success" => q.at = "receipt"

\* The burns up to this block are accounted for, when these are and burnt at these
\* blocks.
Upto(block, told, at) == \A b \in Burns : at[b] \in First .. block => b \in told

\* The same of all that a memory or a file claims: what it names is settled.
Backed(content, done, told, at) ==
    /\ content[1] \subseteq done
    /\ Stored # 0 => Stored <= content[2] /\ Upto(content[2], told, at)

\* A burn of the chunk is accounted for or still to come.
InHand(q, told, at) ==
    \A b \in Burns : at[b] \in First .. q.end =>
        b \in told \/ \E i \in DOMAIN q.logs : q.logs[i] = b

\* What a pass leaves behind and carries with it is granted or accounted for.
Clear(q, done, told, at) ==
    /\ Stored # 0 /\ q.at = "fetch" => Upto(q.start - 1, told, at)
    /\ Stored # 0 /\ q.at \in Chunked => InHand(q, told, at)
    /\ q.at \in {"open", "write"} => Backed(q.content, done, told, at)
    /\ q.mined = "success" => Head(q.logs) \in done

\* A file is well formed, and what can be read of it is so.
Sound(file, head, done, told, at) ==
    /\ file \in [here : BOOLEAN, content : Contents, whole : BOOLEAN]
    /\ file.content[2] <= head
    /\ file.whole => Backed(file.content, done, told, at)

ChainsOK ==
    /\ height \in Nat /\ height <= MaxHeight /\ burntAt \in [Burns -> Nat]
    /\ \A b \in Burns : burntAt[b] <= height
    /\ granted \subseteq Burns /\ undone \subseteq Burns
    /\ refusing \subseteq Planets /\ flight \subseteq Passes \X Burns
    /\ up \in BOOLEAN /\ faults \in 0 .. MaxFaults

StoreOK ==
    /\ processed \subseteq Settled /\ scanned \in Nat /\ scanned <= height /\ unseen \subseteq Burns
    /\ up => Backed(<<processed, scanned>>, Settled, Accounted, burntAt)

FilesOK ==
    /\ Sound(disk, height, Settled, Accounted, burntAt) /\ Sound(tmp, height, Settled, Accounted, burntAt)
    /\ disk.here

PassesOK ==
    /\ DOMAIN pass = Passes
    /\ \A p \in Passes : /\ Formed(pass[p], height) /\ Clear(pass[p], Settled, Accounted, burntAt)
                         /\ pass[p].file = "tmp" => tmp.here

Inv == ChainsOK /\ StoreOK /\ FilesOK /\ PassesOK

-----------------------------------------------------------------------------
(* Lemmas about the operators *)

\* The larger of two numbers: what moves the scanned block.
LEMMA MaxOfTwo ==
    ASSUME NEW m \in Int, NEW n \in Int
    PROVE  /\ Max({m, n}) \in {m, n} /\ m <= Max({m, n}) /\ n <= Max({m, n})
<1> DEFINE larger == IF m >= n THEN m ELSE n
<1>1. larger \in {m, n} /\ \A y \in {m, n} : larger >= y
  OBVIOUS
<1>2. \E x \in {m, n} : \A y \in {m, n} : x >= y
  <2> HIDE DEF larger
  <2> QED BY <1>1
<1>3. Max({m, n}) \in {m, n} /\ \A y \in {m, n} : Max({m, n}) >= y
  BY <1>2, Zenon DEF Max
<1> QED BY <1>3

\* The smaller of two numbers: where a chunk ends.
LEMMA MinOfTwo ==
    ASSUME NEW m \in Int, NEW n \in Int
    PROVE  /\ Min({m, n}) \in {m, n} /\ Min({m, n}) <= m /\ Min({m, n}) <= n
<1> DEFINE smaller == IF m <= n THEN m ELSE n
<1>1. smaller \in {m, n} /\ \A y \in {m, n} : smaller <= y
  OBVIOUS
<1>2. \E x \in {m, n} : \A y \in {m, n} : x <= y
  <2> HIDE DEF smaller
  <2> QED BY <1>1
<1>3. Min({m, n}) \in {m, n} /\ \A y \in {m, n} : Min({m, n}) <= y
  BY <1>2, Zenon DEF Min
<1> QED BY <1>3

\* The first block to read is none of those that the store came with.
LEMMA FirstAbove == First \in Nat /\ StartBlock <= First /\ Stored < First
<1>1. StartBlock \in Nat /\ Stored \in Nat
  BY ChickenBurnsConstants
<1>2. StartBlock \in Int /\ Stored + 1 \in Int
  BY <1>1
<1>3. First \in {StartBlock, Stored + 1} /\ StartBlock <= First /\ Stored + 1 <= First
  BY <1>2, MaxOfTwo DEF First
<1> QED BY <1>1, <1>3

\* Grants only grow, and a new burn comes above the head that was read: what was
\* granted up to a block stays so.
LEMMA UptoStays ==
    ASSUME NEW block, NEW head \in Nat, block \in Int, block <= head,
           NEW told, NEW told2, told \subseteq told2,
           NEW at \in [Burns -> Nat], NEW later \in [Burns -> Nat],
           \A b \in Burns : later[b] = at[b] \/ later[b] > head,
           Upto(block, told, at)
    PROVE  Upto(block, told2, later)
BY ChickenBurnsConstants DEF Upto

\* The same of what a memory or a file claims.
LEMMA BackedStays ==
    ASSUME NEW content \in Contents, NEW head \in Nat, content[2] <= head,
           NEW done, NEW told, NEW done2, NEW told2, done \subseteq done2, told \subseteq told2,
           NEW at \in [Burns -> Nat], NEW later \in [Burns -> Nat],
           \A b \in Burns : later[b] = at[b] \/ later[b] > head,
           Backed(content, done, told, at)
    PROVE  Backed(content, done2, told2, later)
<1>1. content[2] \in Int /\ content[1] \subseteq done2
  BY DEF Contents, Backed
<1>2. Stored # 0 => Upto(content[2], told2, later)
  BY <1>1, UptoStays DEF Backed
<1> QED BY <1>1, <1>2 DEF Backed

\* The same of a file.
LEMMA SoundStays ==
    ASSUME NEW file, NEW head \in Nat, NEW above \in Nat, head <= above,
           NEW done, NEW told, NEW done2, NEW told2, done \subseteq done2, told \subseteq told2,
           NEW at \in [Burns -> Nat], NEW later \in [Burns -> Nat],
           \A b \in Burns : later[b] = at[b] \/ later[b] > head,
           Sound(file, head, done, told, at)
    PROVE  Sound(file, above, done2, told2, later)
<1>1. file.content \in Contents /\ file.content[2] \in Nat /\ file.content[2] <= head
  BY DEF Sound, Contents
<1>2. file.whole => Backed(file.content, done2, told2, later)
  BY <1>1, BackedStays DEF Sound
<1> QED BY <1>1, <1>2 DEF Sound

\* The same of a pass that does not move.
LEMMA ClearStays ==
    ASSUME NEW q, NEW head \in Nat, NEW above \in Nat, head <= above,
           NEW done, NEW told, NEW done2, NEW told2, done \subseteq done2, told \subseteq told2,
           NEW at \in [Burns -> Nat], NEW later \in [Burns -> Nat],
           \A b \in Burns : later[b] = at[b] \/ later[b] > head,
           Formed(q, head), Clear(q, done, told, at)
    PROVE  Formed(q, above) /\ Clear(q, done2, told2, later)
<1>1. /\ q.start \in Nat /\ q.end \in Nat /\ q.to \in Nat /\ q.content \in Contents
      /\ q.content[2] \in Nat /\ q.start <= head /\ q.end <= head /\ q.content[2] <= head
  BY DEF Formed, PassRecords, Contents
<1>2. Formed(q, above)
  BY <1>1 DEF Formed, PassRecords
<1>3. Stored # 0 /\ q.at = "fetch" => Upto(q.start - 1, told2, later)
  <2> SUFFICES ASSUME Stored # 0, q.at = "fetch" PROVE Upto(q.start - 1, told2, later)
    OBVIOUS
  <2>1. q.start - 1 \in Int /\ q.start - 1 <= head /\ Upto(q.start - 1, told, at)
    BY <1>1 DEF Clear
  <2> QED BY <2>1, UptoStays
<1>4. Stored # 0 /\ q.at \in Chunked => InHand(q, told2, later)
  BY <1>1, ChickenBurnsConstants DEF Clear, InHand
<1>5. q.at \in {"open", "write"} => Backed(q.content, done2, told2, later)
  BY <1>1, BackedStays DEF Clear
<1>6. q.mined = "success" => Head(q.logs) \in done2
  BY DEF Clear
<1> QED BY <1>2, <1>3, <1>4, <1>5, <1>6 DEF Clear

\* An idle pass claims nothing.
LEMMA IdleClear ==
    ASSUME NEW head \in Nat, NEW done, NEW told, NEW at
    PROVE  Formed(Idle, head) /\ Clear(Idle, done, told, at)
BY DEF Formed, PassRecords, Contents, Stages, Chunked, Clear, Idle

-----------------------------------------------------------------------------
(* The initial state, the chains, a crash and a restart *)

\* The invariant holds at first: the file holds the block it was given.
LEMMA InitInv == ASSUME Init PROVE Inv
<1> USE ChickenBurnsConstants
<1>1. ChainsOK
  BY DEF Init, ChainsOK
<1>2. Backed(<<{}, Stored>>, Settled, Accounted, burntAt)
  BY FirstAbove DEF Init, Backed, Upto
<1>3. StoreOK
  BY <1>2 DEF Init, StoreOK
<1>4. FilesOK
  BY <1>2 DEF Init, FilesOK, Sound, Absent, Contents
<1>5. \A p \in Passes : Formed(Idle, height) /\ Clear(Idle, Settled, Accounted, burntAt) /\ Idle.file # "tmp"
  <2>1. height \in Nat
    BY DEF Init
  <2> QED BY <2>1, IdleClear DEF Idle
<1>6. PassesOK
  BY <1>5 DEF Init, PassesOK
<1> QED BY <1>1, <1>3, <1>4, <1>6 DEF Inv

\* What is settled and accounted for depends on the chains and the skipped burns.
LEMMA SettledStay ==
    ASSUME UNCHANGED <<chains, unseen>>
    PROVE  UNCHANGED <<height, burntAt, granted, undone, refusing, flight, Settled, Accounted>>
BY DEF chains, Settled, Accounted

\* Whatever the chains do, as long as grants grow and new burns come above the
\* head, what the store, the files and the passes claim stays granted.
LEMMA ChainsMove ==
    ASSUME Inv, ChainsOK', UNCHANGED <<store, fs, up, pass>>,
           height <= height', Settled \subseteq Settled', Accounted \subseteq Accounted',
           \A b \in Burns : burntAt'[b] = burntAt[b] \/ burntAt'[b] > height
    PROVE  Inv'
<1>1. /\ height \in Nat /\ height' \in Nat /\ burntAt \in [Burns -> Nat] /\ burntAt' \in [Burns -> Nat]
      /\ UNCHANGED <<processed, scanned, unseen, disk, tmp, up, pass>>
  BY DEF Inv, ChainsOK, store, fs
<1>2. StoreOK'
  <2>1. /\ processed \subseteq Settled /\ scanned \in Nat /\ scanned <= height /\ unseen \subseteq Burns
        /\ Settled \subseteq Burns
        /\ up => Backed(<<processed, scanned>>, Settled, Accounted, burntAt)
    BY DEF Inv, StoreOK, ChainsOK, Settled
  <2>2. <<processed, scanned>> \in Contents /\ <<processed, scanned>>[2] <= height
    BY <2>1 DEF Inv, ChainsOK, Contents
  <2>3. up => Backed(<<processed, scanned>>, Settled', Accounted', burntAt')
    BY <1>1, <2>1, <2>2, BackedStays
  <2> QED BY <1>1, <2>1, <2>3 DEF StoreOK
<1>3. FilesOK'
  <2>1. Sound(disk, height, Settled, Accounted, burntAt) /\ Sound(tmp, height, Settled, Accounted, burntAt) /\ disk.here
    BY DEF Inv, FilesOK
  <2>2. Sound(disk, height', Settled', Accounted', burntAt')
    BY <1>1, <2>1, SoundStays
  <2>3. Sound(tmp, height', Settled', Accounted', burntAt')
    BY <1>1, <2>1, SoundStays
  <2> QED BY <1>1, <2>1, <2>2, <2>3 DEF FilesOK
<1>4. PassesOK'
  <2>1. ASSUME NEW p \in Passes
        PROVE  Formed(pass[p], height') /\ Clear(pass[p], Settled', Accounted', burntAt')
    <3>1. Formed(pass[p], height) /\ Clear(pass[p], Settled, Accounted, burntAt)
      BY DEF Inv, PassesOK
    <3> QED BY <1>1, <3>1, ClearStays
  <2> QED BY <1>1, <2>1 DEF Inv, PassesOK
<1> QED BY <1>2, <1>3, <1>4 DEF Inv

\* A block is confirmed: its burns stand above all that was read.
LEMMA ConfirmStep == ASSUME Inv, Confirm PROVE Inv'
<1> USE ChickenBurnsConstants
<1>1. PICK new \in SUBSET {b \in Burns : burntAt[b] = 0} :
         burntAt' = [b \in Burns |-> IF b \in new THEN height + 1 ELSE burntAt[b]]
  BY DEF Confirm
<1>2. /\ height \in Nat /\ height < MaxHeight /\ height' = height + 1 /\ MaxHeight \in Nat
      /\ burntAt \in [Burns -> Nat]
      /\ UNCHANGED <<granted, undone, refusing, flight, processed, scanned, unseen, disk, tmp, up, pass, faults>>
  BY DEF Confirm, Inv, ChainsOK, store, fs
<1>3. \A b \in Burns : burntAt'[b] = burntAt[b] \/ burntAt'[b] = height + 1
  BY <1>1
<1>4. ChainsOK'
  BY <1>1, <1>2, <1>3 DEF Inv, ChainsOK
<1>5. \A b \in Burns : burntAt'[b] = burntAt[b] \/ burntAt'[b] > height
  BY <1>2, <1>3
<1>6. Settled' = Settled /\ Accounted' = Accounted
  BY <1>2 DEF Settled, Accounted
<1>7. UNCHANGED <<store, fs, up, pass>> /\ height <= height'
  BY <1>2 DEF store, fs
<1> QED BY <1>4, <1>5, <1>6, <1>7, ChainsMove

\* A planet that refuses changes nothing that was granted.
LEMMA RefuseStep == ASSUME Inv, Refuse PROVE Inv'
<1> USE ChickenBurnsConstants
<1>1. /\ UNCHANGED <<height, burntAt, granted, undone, flight, processed, scanned, unseen, disk, tmp, up, pass>>
      /\ faults < MaxFaults /\ faults' = faults + 1 /\ refusing' \subseteq Planets
  BY DEF Refuse, Fault, Inv, ChainsOK, store, fs
<1>2. ChainsOK'
  BY <1>1 DEF Inv, ChainsOK
<1>3. /\ height <= height' /\ Settled' = Settled /\ Accounted' = Accounted
      /\ \A b \in Burns : burntAt'[b] = burntAt[b] \/ burntAt'[b] > height
  BY <1>1 DEF Inv, ChainsOK, Settled, Accounted
<1>4. UNCHANGED <<store, fs, up, pass>>
  BY <1>1 DEF store, fs
<1> QED BY <1>2, <1>3, <1>4, ChainsMove

\* A grant that the game chain takes back stays settled: nothing looks again.
LEMMA UndoStep == ASSUME Inv, Undo PROVE Inv'
<1> USE ChickenBurnsConstants
<1>1. PICK b \in granted :
        /\ granted' = granted \ {b} /\ undone' = undone \cup {b}
        /\ refusing' = refusing \ {Target[b]}
        /\ flight' \in {flight, flight \cup {<<CHOOSE p \in Passes : TRUE, b>>}}
        /\ Fault /\ UNCHANGED <<height, burntAt, store, fs, up, pass>>
  BY Zenon DEF Undo
<1>2. (CHOOSE p \in Passes : TRUE) \in Passes
  OBVIOUS
<1>3. b \in Burns /\ faults' \in 0 .. MaxFaults /\ UNCHANGED <<unseen, up>>
  BY <1>1 DEF Inv, ChainsOK, Fault, store
<1>4. flight' \subseteq Passes \X Burns
  BY <1>1, <1>2, <1>3 DEF Inv, ChainsOK
<1>5. /\ granted' \subseteq Burns /\ undone' \subseteq Burns /\ refusing' \subseteq Planets
  BY <1>1, <1>3 DEF Inv, ChainsOK
<1>6. ChainsOK'
  BY <1>1, <1>3, <1>4, <1>5, Zenon DEF Inv, ChainsOK
<1>7. Settled' = Settled
  BY <1>1 DEF Settled
<1>8. Accounted' = Accounted
  BY <1>3, <1>7 DEF Accounted
<1>9. height <= height' /\ \A c \in Burns : burntAt'[c] = burntAt[c] \/ burntAt'[c] > height
  BY <1>1 DEF Inv, ChainsOK
<1> QED BY <1>1, <1>6, <1>7, <1>8, <1>9, ChainsMove

\* A grant is mined: a receipt says success only of a burn that is granted by it.
LEMMA MineGrantStep == ASSUME Inv, MineGrant PROVE Inv'
<1> USE ChickenBurnsConstants
<1>1. PICK p \in Passes, b \in Burns :
        /\ flight' = flight \ {<<p, b>>}
        /\ IF Grantable(b)
           THEN granted' = granted \cup {b} /\ refusing' = refusing \cup {Target[b]}
           ELSE UNCHANGED <<granted, refusing>>
        /\ pass' = IF At(p, "receipt") /\ Head(pass[p].logs) = b /\ pass[p].mined = "none"
                   THEN [pass EXCEPT ![p].mined = IF Grantable(b) THEN "success" ELSE "reverted"]
                   ELSE pass
        /\ UNCHANGED <<height, burntAt, undone, processed, scanned, unseen, disk, tmp, up, faults>>
  BY Zenon DEF MineGrant, store, fs
<1>2. Settled \subseteq Settled' /\ Accounted \subseteq Accounted' /\ ChainsOK'
  <2>1. granted \subseteq granted' /\ undone' = undone /\ unseen' = unseen
    BY <1>1
  <2>2. Settled \subseteq Settled' /\ Accounted \subseteq Accounted'
    BY <2>1 DEF Settled, Accounted
  <2> QED BY <1>1, <2>2 DEF Inv, ChainsOK
<1>3. /\ height \in Nat /\ burntAt \in [Burns -> Nat] /\ burntAt' = burntAt /\ height' = height
      /\ \A c \in Burns : burntAt'[c] = burntAt[c] \/ burntAt'[c] > height
  BY <1>1 DEF Inv, ChainsOK
<1>4. StoreOK'
  <2>1. /\ processed \subseteq Settled /\ scanned \in Nat /\ scanned <= height /\ unseen \subseteq Burns
        /\ up => Backed(<<processed, scanned>>, Settled, Accounted, burntAt)
    BY DEF Inv, StoreOK
  <2>2. up => Backed(<<processed, scanned>>, Settled', Accounted', burntAt')
    BY <1>2, <1>3, <2>1 DEF Backed, Upto
  <2> QED BY <1>1, <1>2, <1>3, <2>1, <2>2 DEF StoreOK
<1>5. FilesOK'
  <2>1. Sound(disk, height, Settled, Accounted, burntAt) /\ Sound(tmp, height, Settled, Accounted, burntAt) /\ disk.here
    BY DEF Inv, FilesOK
  <2>2. Sound(disk, height', Settled', Accounted', burntAt') /\ Sound(tmp, height', Settled', Accounted', burntAt')
    BY <1>2, <1>3, <2>1 DEF Sound, Backed, Upto
  <2> QED BY <1>1, <2>1, <2>2 DEF FilesOK
<1>6. \A r \in Passes : Formed(pass[r], height') /\ Clear(pass[r], Settled', Accounted', burntAt')
  <2>1. ASSUME NEW r \in Passes PROVE Formed(pass[r], height') /\ Clear(pass[r], Settled', Accounted', burntAt')
    <3>1. Formed(pass[r], height) /\ Clear(pass[r], Settled, Accounted, burntAt)
      BY DEF Inv, PassesOK
    <3> QED BY <1>2, <1>3, <3>1, ClearStays
  <2> QED BY <2>1
<1>7. CASE At(p, "receipt") /\ Head(pass[p].logs) = b /\ pass[p].mined = "none"
  <2>1. pass' = [pass EXCEPT ![p].mined = IF Grantable(b) THEN "success" ELSE "reverted"]
    BY <1>1, <1>7
  <2>2. DOMAIN pass' = Passes /\ \A r \in Passes \ {p} : pass'[r] = pass[r]
    BY <2>1 DEF Inv, PassesOK
  <2>3. /\ pass[p] \in PassRecords /\ pass[p].at = "receipt"
        /\ pass'[p] = [pass[p] EXCEPT !.mined = IF Grantable(b) THEN "success" ELSE "reverted"]
    BY <1>6, <1>7, <2>1 DEF Inv, PassesOK, Formed, At
  <2>4. pass'[p].mined = "success" => b \in Settled'
    BY <1>1, <2>3 DEF PassRecords, Settled
  <2>5. Formed(pass'[p], height')
    BY <1>6, <2>3 DEF Formed, PassRecords
  <2>6. Clear(pass'[p], Settled', Accounted', burntAt')
    BY <1>6, <1>7, <2>3, <2>4 DEF Clear, InHand, PassRecords
  <2>7. pass'[p].file = pass[p].file
    BY <2>3 DEF PassRecords
  <2>8. PassesOK'
    BY <1>1, <1>6, <2>2, <2>5, <2>6, <2>7 DEF Inv, PassesOK
  <2> QED BY <1>2, <1>4, <1>5, <2>8 DEF Inv
<1>8. CASE ~(At(p, "receipt") /\ Head(pass[p].logs) = b /\ pass[p].mined = "none")
  <2>1. pass' = pass
    BY <1>1, <1>8
  <2>2. PassesOK'
    BY <1>1, <1>6, <2>1 DEF Inv, PassesOK
  <2> QED BY <1>2, <1>4, <1>5, <2>2 DEF Inv
<1> QED BY <1>7, <1>8

\* After a crash the memory and the passes are gone, the files stay as they are.
LEMMA CrashStep == ASSUME Inv, Crash PROVE Inv'
<1> USE ChickenBurnsConstants
<1>1. /\ UNCHANGED <<height, burntAt, granted, undone, refusing, flight, unseen, disk, tmp, Settled, Accounted>>
      /\ up' = FALSE /\ faults < MaxFaults /\ faults' = faults + 1
      /\ pass' = [p \in Passes |-> Idle] /\ processed' = {} /\ scanned' = 0
  BY SettledStay DEF Crash, Fault, chains, fs
<1>2. ChainsOK'
  <2>1. up' \in BOOLEAN
    BY <1>1, Zenon
  <2>2. faults' \in 0 .. MaxFaults
    BY <1>1 DEF Inv, ChainsOK
  <2> QED BY <1>1, <2>1, <2>2, Zenon DEF Inv, ChainsOK
<1>5. StoreOK' /\ FilesOK'
  BY <1>1, <1>2 DEF Inv, ChainsOK, StoreOK, FilesOK
<1>3. \A p \in Passes : Formed(Idle, height') /\ Clear(Idle, Settled', Accounted', burntAt') /\ Idle.file # "tmp"
  BY <1>1, IdleClear DEF Inv, ChainsOK, Idle
<1>4. PassesOK'
  BY <1>1, <1>3 DEF PassesOK
<1> QED BY <1>2, <1>5, <1>4 DEF Inv

\* What a restart reads is backed, since the file is whole.
LEMMA RestartStep == ASSUME Inv, Restart PROVE Inv'
<1> USE ChickenBurnsConstants
<1>1. /\ UNCHANGED <<height, burntAt, granted, undone, refusing, flight, unseen, disk, tmp, pass, faults,
                     Settled, Accounted>>
      /\ up' = TRUE /\ disk.whole /\ processed' = disk.content[1] /\ scanned' = disk.content[2]
  BY SettledStay DEF Restart, Torn, chains, fs
<1>2. /\ Backed(disk.content, Settled, Accounted, burntAt) /\ disk.content \in Contents
      /\ disk.content[2] \in Nat /\ disk.content[2] <= height
  BY <1>1 DEF Inv, FilesOK, Sound, Contents
<1>3. Backed(<<processed', scanned'>>, Settled', Accounted', burntAt')
  BY <1>1, <1>2 DEF Backed
<1>4. ChainsOK' /\ FilesOK' /\ PassesOK'
  BY <1>1 DEF Inv, ChainsOK, FilesOK, PassesOK
<1>5. StoreOK'
  BY <1>1, <1>2, <1>3 DEF Inv, StoreOK, Backed
<1> QED BY <1>4, <1>5 DEF Inv

-----------------------------------------------------------------------------
(* The passes *)

\* What is not the first log is among the others.
LEMMA TailKeeps ==
    ASSUME NEW S, NEW s \in Seq(S), s # <<>>
    PROVE  /\ Head(s) \in S /\ Tail(s) \in Seq(S)
           /\ \A i \in DOMAIN s : s[i] = Head(s) \/ \E j \in DOMAIN Tail(s) : Tail(s)[j] = s[i]
<1>1. Head(s) \in S /\ Tail(s) \in Seq(S) /\ Len(s) \in Nat /\ Head(s) = s[1]
  OBVIOUS
<1>2. Len(Tail(s)) = Len(s) - 1 /\ \A j \in 1 .. Len(s) - 1 : Tail(s)[j] = s[j + 1]
  OBVIOUS
<1>3. DOMAIN s = 1 .. Len(s) /\ DOMAIN Tail(s) = 1 .. Len(s) - 1
  BY <1>1, <1>2
<1>4. ASSUME NEW i \in DOMAIN s, i # 1 PROVE \E j \in DOMAIN Tail(s) : Tail(s)[j] = s[i]
  <2>1. i - 1 \in 1 .. Len(s) - 1 /\ (i - 1) + 1 = i
    BY <1>1, <1>3, <1>4
  <2>2. i - 1 \in DOMAIN Tail(s) /\ Tail(s)[i - 1] = s[i]
    BY <1>2, <1>3, <2>1
  <2> QED BY <2>2
<1> QED BY <1>1, <1>4

\* A pass moves, whose new place is well formed and backed; the others stay.
LEMMA PassMoves ==
    ASSUME Inv, NEW p \in Passes, UNCHANGED <<chains, unseen, up, faults>>, StoreOK', FilesOK',
           DOMAIN pass' = Passes, \A r \in Passes \ {p} : pass'[r] = pass[r],
           Formed(pass'[p], height), Clear(pass'[p], Settled, Accounted, burntAt),
           pass'[p].file = "tmp" => tmp'.here, tmp.here => tmp'.here
    PROVE  Inv'
<1>1. UNCHANGED <<height, burntAt, granted, undone, refusing, flight, up, faults, Settled, Accounted>>
  BY SettledStay DEF chains
<1>2. ChainsOK'
  BY <1>1 DEF Inv, ChainsOK
<1>3. PassesOK'
  <2>1. ASSUME NEW r \in Passes
        PROVE  /\ Formed(pass'[r], height') /\ Clear(pass'[r], Settled', Accounted', burntAt')
               /\ pass'[r].file = "tmp" => tmp'.here
    <3>1. CASE r = p
      BY <1>1, <3>1
    <3>2. CASE r # p
      <4>1. pass'[r] = pass[r]
        BY <3>2
      <4> QED BY <1>1, <4>1 DEF Inv, PassesOK
    <3> QED BY <3>1, <3>2
  <2> QED BY <2>1 DEF PassesOK
<1> QED BY <1>2, <1>3 DEF Inv

\* Memory and files that nothing touches stay backed.
LEMMA StoreStays ==
    ASSUME Inv, UNCHANGED <<chains, up, store>>
    PROVE  StoreOK' /\ UNCHANGED unseen
<1>1. UNCHANGED <<height, Settled, Accounted, burntAt, processed, scanned, unseen, up>>
  BY SettledStay DEF store, chains
<1> QED BY <1>1 DEF Inv, StoreOK

\* The same of the files.
LEMMA FilesStay ==
    ASSUME Inv, UNCHANGED <<chains, unseen, fs>>
    PROVE  FilesOK' /\ tmp' = tmp
<1>1. UNCHANGED <<height, Settled, Accounted, burntAt, disk, tmp>>
  BY SettledStay DEF chains, fs
<1> QED BY <1>1 DEF Inv, FilesOK

\* A pass that only changes its own place.
LEMMA PassOnly ==
    ASSUME Inv, NEW p \in Passes, UNCHANGED <<chains, store, fs, up, faults>>,
           DOMAIN pass' = Passes, \A r \in Passes \ {p} : pass'[r] = pass[r],
           Formed(pass'[p], height), Clear(pass'[p], Settled, Accounted, burntAt), pass'[p].file # "tmp"
    PROVE  Inv'
<1>1. /\ UNCHANGED <<chains, up, store>> /\ UNCHANGED <<chains, unseen, fs>>
      /\ UNCHANGED <<chains, unseen, up, faults>>
  BY DEF store
<1>2. StoreOK' /\ FilesOK' /\ tmp' = tmp
  BY <1>1, StoreStays, FilesStay
<1> QED BY <1>1, <1>2, PassMoves

\* A pass that moves within its chunk, with the same logs before it.
LEMMA ClearWithin ==
    ASSUME NEW q, NEW next, NEW done, NEW told, NEW at, Clear(q, done, told, at),
           q.at \in Chunked, next.at \in Chunked, next.logs = q.logs, next.end = q.end,
           next.mined # "success",
           next.at \in {"open", "write"} => Backed(next.content, done, told, at)
    PROVE  Clear(next, done, told, at)
<1>1. Stored # 0 => InHand(next, told, at)
  BY DEF Clear, InHand
<1>2. next.at # "fetch"
  BY DEF Chunked
<1> QED BY <1>1, <1>2 DEF Clear

\* A pass that ends, as it is or by a failure, claims nothing.
LEMMA EndsStep ==
    ASSUME Inv, NEW p \in Passes, Ends(p), UNCHANGED <<chains, store, fs, up, faults>>
    PROVE  Inv'
<1>1. DOMAIN pass' = Passes /\ pass'[p] = Idle /\ \A r \in Passes \ {p} : pass'[r] = pass[r]
  BY DEF Ends, Inv, PassesOK
<1>2. height \in Nat
  BY DEF Inv, ChainsOK
<1>3. Formed(pass'[p], height) /\ Clear(pass'[p], Settled, Accounted, burntAt) /\ pass'[p].file # "tmp"
  BY <1>1, <1>2, IdleClear DEF Idle
<1> QED BY <1>1, <1>3, PassOnly

\* A pass starts with the head it reads.
LEMMA StartStep == ASSUME Inv, NEW p \in Passes, Start(p) PROVE Inv'
<1> USE ChickenBurnsConstants
<1>1. PICK lookback \in {0, Lookback} :
         pass' = [pass EXCEPT ![p] = [Idle EXCEPT !.at = "head", !.lookback = lookback, !.to = height]]
  BY DEF Start
<1>2. /\ DOMAIN pass' = Passes /\ \A r \in Passes \ {p} : pass'[r] = pass[r]
      /\ pass'[p] = [Idle EXCEPT !.at = "head", !.lookback = lookback, !.to = height]
  BY <1>1 DEF Inv, PassesOK
<1>3. height \in Nat /\ lookback \in Nat
  BY DEF Inv, ChainsOK
<1>4. pass'[p] = [at |-> "head", lookback |-> lookback, start |-> 0, end |-> 0, to |-> height,
                  logs |-> <<>>, mined |-> "none", file |-> "none", content |-> <<{}, 0>>]
  BY <1>2 DEF Idle
<1>5. Formed(pass'[p], height)
  BY <1>3, <1>4 DEF Formed, PassRecords, Contents, Stages
<1>6. Clear(pass'[p], Settled, Accounted, burntAt) /\ pass'[p].file # "tmp"
  BY <1>4 DEF Clear, Chunked
<1> QED BY <1>2, <1>5, <1>6, PassOnly DEF Start

\* A pass that goes to the chunk at a block up to which all is granted.
LEMMA ChunkStep ==
    ASSUME Inv, NEW p \in Passes, NEW start \in Nat, Chunk(p, start),
           pass[p].at \in {"head", "burn"},
           Stored # 0 => Upto(start - 1, Accounted, burntAt),
           UNCHANGED <<chains, store, fs, up, faults>>
    PROVE  Inv'
<1> USE ChickenBurnsConstants
<1>1. CASE start > pass[p].to
  <2>1. Ends(p)
    BY <1>1 DEF Chunk, Ends
  <2> QED BY <2>1, EndsStep
<1>2. CASE ~(start > pass[p].to)
  <2>1. /\ pass[p] \in PassRecords /\ pass[p].to \in Nat /\ pass[p].to <= height
        /\ pass[p].content[2] <= height
        /\ pass[p].mined # "success" /\ pass[p].file = "none" /\ height \in Nat
    BY DEF Inv, PassesOK, Formed, ChainsOK, PassRecords
  <2>2. /\ DOMAIN pass' = Passes /\ \A r \in Passes \ {p} : pass'[r] = pass[r]
        /\ pass'[p] = [pass[p] EXCEPT !.at = "fetch", !.start = start,
                                      !.end = ChunkEnd(start, pass[p].to)]
    BY <1>2 DEF Chunk, Inv, PassesOK
  <2> DEFINE end == ChunkEnd(start, pass[p].to)
  <2>3. end \in Nat /\ start <= end /\ end <= pass[p].to
    <3>1. RangeBlocks \in Nat /\ start + RangeBlocks \in Int /\ pass[p].to \in Int
      BY <2>1
    <3>2. end \in {start + RangeBlocks, pass[p].to} /\ end <= pass[p].to
      BY <3>1, MinOfTwo DEF ChunkEnd
    <3> QED BY <1>2, <2>1, <3>1, <3>2
  <2> HIDE DEF end
  <2>4. Formed(pass'[p], height)
    BY <2>1, <2>2, <2>3 DEF Formed, PassRecords, Stages, end
  <2>5. /\ pass'[p].start = start /\ pass'[p].at = "fetch" /\ pass'[p].mined # "success"
        /\ pass'[p].file # "tmp"
    BY <2>1, <2>2 DEF PassRecords
  <2>6. Clear(pass'[p], Settled, Accounted, burntAt)
    BY <2>5 DEF Clear, Chunked
  <2> QED BY <2>2, <2>4, <2>5, <2>6, PassOnly
<1> QED BY <1>1, <1>2

\* The first chunk begins right above the scanned block.
LEMMA PlanStep == ASSUME Inv, NEW p \in Passes, Plan(p) PROVE Inv'
<1> USE ChickenBurnsConstants
<1> DEFINE start == FromBlock(pass[p].to, pass[p].lookback)
<1>1. /\ pass[p].to \in Nat /\ pass[p].lookback \in Nat /\ scanned \in Nat /\ pass[p].at = "head"
      /\ up /\ Backed(<<processed, scanned>>, Settled, Accounted, burntAt)
  BY DEF Inv, PassesOK, Formed, PassRecords, StoreOK, Plan, At
<1> DEFINE near == Max({0, pass[p].to - pass[p].lookback})
           above == IF scanned = 0 THEN near ELSE scanned + 1
<1>2. start \in {StartBlock, above} /\ StartBlock <= start /\ above <= start /\ above \in Nat
  <2>1. 0 \in Int /\ pass[p].to - pass[p].lookback \in Int
    BY <1>1
  <2>2. near \in {0, pass[p].to - pass[p].lookback} /\ 0 <= near
    BY <2>1, MaxOfTwo
  <2>3. near \in Nat
    BY <2>1, <2>2
  <2> HIDE DEF near
  <2>4. above \in Nat /\ StartBlock \in Int
    BY <1>1, <2>3
  <2>5. start = Max({StartBlock, above})
    BY DEF FromBlock, near
  <2> HIDE DEF above, start
  <2> QED BY <2>4, <2>5, MaxOfTwo
<1>3. Stored # 0 => above = scanned + 1 /\ Upto(scanned, Accounted, burntAt)
  BY <1>1 DEF Backed
<1>4. First \in Nat /\ StartBlock <= First
  BY FirstAbove
<1>7. start \in Nat
  BY <1>2
<1>5. Stored # 0 => Upto(start - 1, Accounted, burntAt)
  <2> HIDE DEF start, above
  <2> SUFFICES ASSUME Stored # 0, NEW b \in Burns, burntAt[b] \in First .. start - 1
               PROVE  b \in Accounted
    BY DEF Upto
  <2>1. start # StartBlock /\ burntAt[b] \in Nat
    BY <1>4, <1>7 DEF Inv, ChainsOK
  <2>2. burntAt[b] \in First .. scanned
    BY <1>1, <1>2, <1>3, <1>4, <1>7, <2>1
  <2> QED BY <1>3, <2>2 DEF Upto
<1> HIDE DEF start
<1>6. Chunk(p, start) /\ UNCHANGED <<chains, store, fs, up, faults>>
  BY DEF Plan, start
<1> QED BY <1>1, <1>7, <1>5, <1>6, ChunkStep

\* The logs of a chunk hold all burns of its blocks.
LEMMA FetchStep == ASSUME Inv, NEW p \in Passes, Fetch(p) PROVE Inv'
<1> USE ChickenBurnsConstants
<1> DEFINE found == {b \in Burns : burntAt[b] \in pass[p].start .. pass[p].end}
           size == Cardinality(found)
<1>1. PICK logs \in [1 .. size -> found] :
         /\ ToSet(logs) = found
         /\ pass' = [pass EXCEPT ![p].at = "burn", ![p].logs = logs]
  BY DEF Fetch
<1>2. logs \in Seq(Burns)
  <2>1. IsFiniteSet(found)
    <3>1. found \subseteq Burns
      OBVIOUS
    <3> QED BY <3>1, FS_Subset
  <2>2. size \in Nat
    BY <2>1, FS_CardinalityType
  <2> HIDE DEF size
  <2>3. logs \in [1 .. size -> Burns]
    OBVIOUS
  <2> QED BY <2>2, <2>3
<1>3. \A b \in found : \E i \in DOMAIN logs : logs[i] = b
  <2> HIDE DEF found
  <2> QED BY <1>1, Zenon DEF ToSet
<1>4. /\ pass[p] \in PassRecords /\ pass[p].at = "fetch" /\ pass[p].start \in Nat
      /\ pass[p].end \in Nat /\ pass[p].mined # "success" /\ pass[p].file = "none"
      /\ Formed(pass[p], height) /\ Clear(pass[p], Settled, Accounted, burntAt)
      /\ height \in Nat /\ burntAt \in [Burns -> Nat]
  BY DEF Fetch, At, Inv, PassesOK, Formed, PassRecords, ChainsOK
<1>5. /\ DOMAIN pass' = Passes /\ \A r \in Passes \ {p} : pass'[r] = pass[r]
      /\ pass'[p] = [pass[p] EXCEPT !.at = "burn", !.logs = logs]
  BY <1>1 DEF Inv, PassesOK
<1> HIDE DEF found, size
<1>6. /\ pass'[p].at = "burn" /\ pass'[p].logs = logs /\ pass'[p].end = pass[p].end
      /\ pass'[p].mined # "success" /\ pass'[p].file = "none"
  BY <1>4, <1>5 DEF PassRecords
<1>7. Formed(pass'[p], height)
  BY <1>2, <1>4, <1>5 DEF Formed, PassRecords, Stages
<1>8. ASSUME Stored # 0, NEW b \in Burns, burntAt[b] \in First .. pass[p].end
      PROVE  b \in Accounted \/ \E i \in DOMAIN logs : logs[i] = b
  <2>1. CASE burntAt[b] < pass[p].start
    BY <1>4, <1>8, <2>1 DEF Clear, Upto
  <2>2. CASE burntAt[b] >= pass[p].start
    <3>1. b \in found
      BY <1>4, <1>8, <2>2 DEF found
    <3> QED BY <1>3, <3>1
  <2> QED BY <1>4, <2>1, <2>2
<1>9. Clear(pass'[p], Settled, Accounted, burntAt)
  BY <1>6, <1>8 DEF Clear, InHand
<1>10. UNCHANGED <<chains, store, fs, up, faults>> /\ pass'[p].file # "tmp"
  BY <1>6 DEF Fetch
<1> QED BY <1>5, <1>7, <1>9, <1>10, PassOnly

\* A pass that goes on with its chunk, by one step or past a log that is granted.
LEMMA GoesOn ==
    ASSUME Inv, NEW p \in Passes, NEW place \in {"burn", "ask", "send", "receipt"}, NEW logs \in Seq(Burns),
           pass[p].at \in {"burn", "ask", "send"}, place # "burn" => logs # <<>>,
           DOMAIN pass' = Passes, \A r \in Passes \ {p} : pass'[r] = pass[r],
           pass'[p] = [pass[p] EXCEPT !.at = place, !.logs = logs],
           \A i \in DOMAIN pass[p].logs :
               pass[p].logs[i] \in Accounted \/ \E j \in DOMAIN logs : logs[j] = pass[p].logs[i]
    PROVE  Formed(pass'[p], height) /\ Clear(pass'[p], Settled, Accounted, burntAt) /\ pass'[p].file # "tmp"
<1>1. /\ pass[p] \in PassRecords /\ pass[p].mined # "success" /\ pass[p].file = "none"
      /\ Formed(pass[p], height) /\ Clear(pass[p], Settled, Accounted, burntAt)
  BY DEF Inv, PassesOK, Formed
<1>2. /\ pass'[p].at = place /\ pass'[p].logs = logs /\ pass'[p].end = pass[p].end
      /\ pass'[p].mined # "success" /\ pass'[p].file = "none"
  BY <1>1 DEF PassRecords
<1>3. Formed(pass'[p], height)
  BY <1>1 DEF Formed, PassRecords, Stages
<1>4. Stored # 0 => InHand(pass[p], Accounted, burntAt)
  BY <1>1 DEF Clear, Chunked, Stages
<1>5. Stored # 0 => InHand(pass'[p], Accounted, burntAt)
  BY <1>2, <1>4 DEF InHand
<1>6. Clear(pass'[p], Settled, Accounted, burntAt)
  BY <1>2, <1>5 DEF Clear
<1> QED BY <1>2, <1>3, <1>6

\* The memory takes what is granted, and the pass goes on past it.
LEMMA UpdateStep ==
    ASSUME Inv, NEW p \in Passes, up, pass[p].at \in {"burn", "ask", "receipt"},
           NEW burns, burns \subseteq Settled, burns \subseteq Burns, NEW block \in Nat, block <= height,
           Stored # 0 => Upto(block, Accounted, burntAt),
           NEW logs \in Seq(Burns),
           \A i \in DOMAIN pass[p].logs :
               pass[p].logs[i] \in Accounted \/ \E j \in DOMAIN logs : logs[j] = pass[p].logs[i],
           Update(p, burns, block, logs), UNCHANGED <<chains, fs, up, faults>>
    PROVE  Inv'
<1> USE ChickenBurnsConstants
<1>1. /\ pass[p] \in PassRecords /\ pass[p].file = "none"
      /\ Formed(pass[p], height) /\ Clear(pass[p], Settled, Accounted, burntAt)
  BY DEF Inv, PassesOK, Formed
<1> DEFINE place == IF store' = store THEN "burn" ELSE "save"
<1>2. /\ DOMAIN pass' = Passes /\ \A r \in Passes \ {p} : pass'[r] = pass[r]
      /\ pass'[p] = [pass[p] EXCEPT !.at = place, !.logs = logs, !.mined = "none"]
  BY DEF Update, Inv, PassesOK
<1>3. place \in {"burn", "save"}
  OBVIOUS
<1> HIDE DEF place
<1>4. /\ pass'[p].at = place /\ pass'[p].logs = logs /\ pass'[p].end = pass[p].end
      /\ pass'[p].mined = "none" /\ pass'[p].file = "none"
  BY <1>1, <1>2 DEF PassRecords
<1>5. Formed(pass'[p], height)
  BY <1>1, <1>2, <1>3 DEF Formed, PassRecords, Stages
<1>6. Stored # 0 => InHand(pass[p], Accounted, burntAt)
  BY <1>1 DEF Clear, Chunked, Stages
<1>7. Stored # 0 => InHand(pass'[p], Accounted, burntAt)
  BY <1>4, <1>6 DEF InHand
<1>8. Clear(pass'[p], Settled, Accounted, burntAt)
  BY <1>3, <1>4, <1>7 DEF Clear
<1>9. StoreOK'
  <2>1. /\ processed \subseteq Settled /\ scanned \in Nat /\ scanned <= height /\ unseen \subseteq Burns
        /\ Backed(<<processed, scanned>>, Settled, Accounted, burntAt)
    BY DEF Inv, StoreOK
  <2>2. /\ scanned' \in {scanned, block} /\ scanned <= scanned'
        /\ processed' \subseteq Settled
    BY <2>1, MaxOfTwo, SMTT(30) DEF Update
  <2>3. UNCHANGED <<height, burntAt, unseen, Settled, Accounted, up>>
    BY SettledStay DEF chains, Update
  <2>4. Stored # 0 => Stored <= scanned' /\ Upto(scanned', Accounted, burntAt)
    BY <2>1, <2>2 DEF Backed
  <2>5. Backed(<<processed', scanned'>>, Settled', Accounted', burntAt')
    BY <2>2, <2>3, <2>4 DEF Backed
  <2>6. scanned' \in Nat /\ scanned' <= height' /\ processed' \subseteq Settled'
    BY <2>1, <2>2, <2>3
  <2> QED BY <2>1, <2>3, <2>5, <2>6 DEF StoreOK
<1>10. UNCHANGED <<chains, unseen, fs>> /\ UNCHANGED <<chains, unseen, up, faults>>
  BY DEF Update
<1>11. FilesOK' /\ tmp' = tmp
  BY <1>10, FilesStay
<1> QED BY <1>2, <1>4, <1>5, <1>8, <1>9, <1>10, <1>11, PassMoves

\* A log that nobody can explain is skipped: its burn is among those not seen.
LEMMA DropStep ==
    ASSUME Inv, NEW p \in Passes, NEW logs, logs = pass[p].logs, pass[p].at = "burn", logs # <<>>,
           pass' = [pass EXCEPT ![p].logs = Tail(logs)], unseen' = unseen \cup {Head(logs)},
           Fault, UNCHANGED <<chains, fs, up, processed, scanned>>
    PROVE  Inv'
<1> USE ChickenBurnsConstants
<1>1. /\ UNCHANGED <<height, burntAt, granted, undone, refusing, flight, disk, tmp, up, Settled>>
      /\ Accounted \subseteq Accounted' /\ Head(logs) \in Accounted'
  BY DEF chains, fs, Settled, Accounted
<1>2. /\ pass[p] \in PassRecords /\ logs \in Seq(Burns) /\ pass[p].mined # "success"
      /\ pass[p].file = "none" /\ height \in Nat /\ burntAt \in [Burns -> Nat]
  BY DEF Inv, PassesOK, Formed, PassRecords, ChainsOK
<1>3. /\ Head(logs) \in Burns /\ Tail(logs) \in Seq(Burns)
      /\ \A i \in DOMAIN logs : logs[i] = Head(logs) \/ \E j \in DOMAIN Tail(logs) : Tail(logs)[j] = logs[i]
  BY <1>2, TailKeeps
<1>4. \A c \in Burns : burntAt'[c] = burntAt[c] \/ burntAt'[c] > height
  BY <1>1
<1>5. \A r \in Passes : Formed(pass[r], height) /\ Clear(pass[r], Settled, Accounted', burntAt)
  <2>1. ASSUME NEW r \in Passes
        PROVE  Formed(pass[r], height) /\ Clear(pass[r], Settled, Accounted', burntAt)
    <3>1. Formed(pass[r], height) /\ Clear(pass[r], Settled, Accounted, burntAt)
      BY DEF Inv, PassesOK
    <3>2. /\ height <= height /\ Settled \subseteq Settled
          /\ \A c \in Burns : burntAt[c] = burntAt[c] \/ burntAt[c] > height
      BY <1>2
    <3> QED BY <1>1, <1>2, <3>1, <3>2, ClearStays
  <2> QED BY <2>1
<1>6. /\ DOMAIN pass' = Passes /\ \A r \in Passes \ {p} : pass'[r] = pass[r]
      /\ pass'[p] = [pass[p] EXCEPT !.logs = Tail(logs)]
  BY DEF Inv, PassesOK
<1>7. /\ pass'[p].at = "burn" /\ pass'[p].logs = Tail(logs) /\ pass'[p].end = pass[p].end
      /\ pass'[p].mined = pass[p].mined /\ pass'[p].file = "none"
  BY <1>2, <1>6 DEF PassRecords
<1>8. Formed(pass'[p], height)
  BY <1>2, <1>3, <1>5, <1>6, <1>7 DEF Formed, PassRecords
<1>9. Stored # 0 => InHand(pass'[p], Accounted', burntAt)
  <2>1. Stored # 0 => InHand(pass[p], Accounted', burntAt)
    BY <1>5 DEF Clear, Chunked, Stages
  <2>2. ASSUME Stored # 0, NEW b \in Burns, burntAt[b] \in First .. pass[p].end
        PROVE  b \in Accounted' \/ \E j \in DOMAIN Tail(logs) : Tail(logs)[j] = b
    <3>1. CASE b \notin Accounted'
      <4>1. PICK i \in DOMAIN logs : logs[i] = b
        BY <2>1, <2>2, <3>1 DEF InHand
      <4> QED BY <1>1, <1>3, <3>1, <4>1
    <3> QED BY <3>1
  <2>3. PICK q, told : q = pass'[p] /\ told = Accounted'
    OBVIOUS
  <2>4. ASSUME Stored # 0 PROVE InHand(q, told, burntAt)
    <3>1. q.end = pass[p].end /\ q.logs = Tail(logs)
      BY <1>7, <2>3
    <3>2. \A b \in Burns : burntAt[b] \in First .. q.end =>
             b \in told \/ \E j \in DOMAIN q.logs : q.logs[j] = b
      BY <2>2, <2>3, <2>4, <3>1, Zenon
    <3> QED BY <3>2, Zenon DEF InHand
  <2> QED BY <2>3, <2>4
<1>10. Clear(pass'[p], Settled, Accounted', burntAt)
  BY <1>2, <1>7, <1>9 DEF Clear
<1>11. PassesOK'
  <2>1. ASSUME NEW r \in Passes
        PROVE  /\ Formed(pass'[r], height') /\ Clear(pass'[r], Settled', Accounted', burntAt')
               /\ pass'[r].file = "tmp" => tmp'.here
    <3>1. CASE r = p
      BY <1>1, <1>7, <1>8, <1>10, <3>1
    <3>2. CASE r # p
      <4>1. pass'[r] = pass[r]
        BY <1>6, <3>2
      <4> QED BY <1>1, <1>5, <4>1 DEF Inv, PassesOK
    <3> QED BY <3>1, <3>2
  <2> QED BY <1>6, <2>1 DEF PassesOK
<1>12. ChainsOK'
  <2>1. faults' \in 0 .. MaxFaults
    BY DEF Fault, Inv, ChainsOK
  <2> QED BY <1>1, <2>1, Zenon DEF Inv, ChainsOK
<1>13. StoreOK'
  <2>1. /\ processed \subseteq Settled /\ scanned \in Nat /\ scanned <= height /\ unseen \subseteq Burns
        /\ up => Backed(<<processed, scanned>>, Settled, Accounted, burntAt)
    BY DEF Inv, StoreOK
  <2>2. up => Backed(<<processed, scanned>>, Settled, Accounted', burntAt)
    BY <1>1, <2>1 DEF Backed, Upto
  <2> QED BY <1>1, <1>3, <2>1, <2>2 DEF StoreOK
<1>14. FilesOK'
  <2>1. Sound(disk, height, Settled, Accounted, burntAt) /\ Sound(tmp, height, Settled, Accounted, burntAt) /\ disk.here
    BY DEF Inv, FilesOK
  <2>2. Sound(disk, height, Settled, Accounted', burntAt) /\ Sound(tmp, height, Settled, Accounted', burntAt)
    BY <1>1, <2>1 DEF Sound, Backed, Upto
  <2> QED BY <1>1, <2>1, <2>2 DEF FilesOK
<1> QED BY <1>11, <1>12, <1>13, <1>14 DEF Inv

\* A log that is known is skipped, and the scanned block moves on only when no
\* log is left.
LEMMA NextBurnStep == ASSUME Inv, NEW p \in Passes, NextBurn(p) PROVE Inv'
<1> USE ChickenBurnsConstants
<1> DEFINE logs == pass[p].logs
<1>1. /\ up /\ pass[p].at = "burn" /\ logs \in Seq(Burns) /\ pass[p].end \in Nat
      /\ pass[p].end <= height /\ pass[p].to \in Nat /\ height \in Nat
      /\ Clear(pass[p], Settled, Accounted, burntAt) /\ UNCHANGED <<chains, fs, up>>
      /\ pass[p] \in PassRecords /\ processed \subseteq Settled /\ scanned \in Nat
  <2>1. up /\ pass[p].at = "burn" /\ UNCHANGED <<chains, fs, up>>
    BY DEF NextBurn, At
  <2>2. Formed(pass[p], height) /\ Clear(pass[p], Settled, Accounted, burntAt)
    BY DEF Inv, PassesOK
  <2>3. height \in Nat /\ processed \subseteq Settled /\ scanned \in Nat
    BY DEF Inv, ChainsOK, StoreOK
  <2>4. /\ pass[p] \in PassRecords /\ logs \in Seq(Burns) /\ pass[p].end \in Nat
        /\ pass[p].to \in Nat /\ pass[p].end <= height
    BY <2>2, <2>3 DEF Formed, PassRecords
  <2> QED BY <2>1, <2>2, <2>3, <2>4
<1>2. CASE logs # <<>> /\ Head(logs) \in processed
           /\ pass' = [pass EXCEPT ![p].logs = Tail(logs)] /\ UNCHANGED <<store, faults>>
  <2>1. /\ DOMAIN pass' = Passes /\ \A r \in Passes \ {p} : pass'[r] = pass[r]
        /\ pass'[p] = [pass[p] EXCEPT !.logs = Tail(logs)]
    BY <1>2 DEF Inv, PassesOK
  <2>2. pass'[p] = [pass[p] EXCEPT !.at = "burn", !.logs = Tail(logs)]
    BY <1>1, <2>1 DEF PassRecords
  <2>3. /\ Tail(logs) \in Seq(Burns) /\ Head(logs) \in Accounted
        /\ \A i \in DOMAIN logs : logs[i] = Head(logs) \/ \E j \in DOMAIN Tail(logs) : Tail(logs)[j] = logs[i]
    BY <1>1, <1>2, TailKeeps DEF Accounted
  <2>4. \A i \in DOMAIN logs : logs[i] \in Accounted \/ \E j \in DOMAIN Tail(logs) : Tail(logs)[j] = logs[i]
    BY <2>3
  <2>5. Formed(pass'[p], height) /\ Clear(pass'[p], Settled, Accounted, burntAt) /\ pass'[p].file # "tmp"
    BY <1>1, <2>1, <2>2, <2>3, <2>4, GoesOn
  <2> QED BY <1>1, <1>2, <2>1, <2>5, PassOnly
<1>3. CASE logs # <<>> /\ Head(logs) \notin processed /\ Goto(p, "ask") /\ UNCHANGED <<store, faults>>
  <2>1. /\ DOMAIN pass' = Passes /\ \A r \in Passes \ {p} : pass'[r] = pass[r]
        /\ pass'[p] = [pass[p] EXCEPT !.at = "ask"]
    BY <1>3 DEF Goto, Inv, PassesOK
  <2>2. pass'[p] = [pass[p] EXCEPT !.at = "ask", !.logs = logs]
    BY <1>1, <2>1 DEF PassRecords
  <2>3. Formed(pass'[p], height) /\ Clear(pass'[p], Settled, Accounted, burntAt) /\ pass'[p].file # "tmp"
    BY <1>1, <1>3, <2>1, <2>2, GoesOn
  <2> QED BY <1>1, <1>3, <2>1, <2>3, PassOnly
<1>4. logs = <<>> /\ Stored # 0 => Upto(pass[p].end, Accounted, burntAt)
  BY <1>1 DEF Clear, Chunked, Stages, InHand, Upto
<1>5. CASE logs = <<>> /\ scanned < pass[p].end /\ Update(p, {}, pass[p].end, <<>>) /\ UNCHANGED faults
  <2>1. {} \subseteq Settled /\ {} \subseteq Burns /\ <<>> \in Seq(Burns)
    OBVIOUS
  <2>2. \A i \in DOMAIN logs : logs[i] \in Accounted \/ \E j \in DOMAIN <<>> : <<>>[j] = logs[i]
    BY <1>5
  <2> QED BY <1>1, <1>4, <1>5, <2>1, <2>2, UpdateStep
<1>6. CASE logs = <<>> /\ scanned >= pass[p].end /\ Chunk(p, pass[p].end + 1) /\ UNCHANGED <<store, faults>>
  <2>1. pass[p].end + 1 \in Nat /\ (pass[p].end + 1) - 1 = pass[p].end
    BY <1>1, SMTT(30)
  <2>2. Stored # 0 => Upto((pass[p].end + 1) - 1, Accounted, burntAt)
    BY <1>4, <1>6, <2>1
  <2> QED BY <1>1, <1>6, <2>1, <2>2, ChunkStep
<1>7. CASE logs # <<>> /\ Head(logs) \in Fallback /\ Fault
           /\ pass' = [pass EXCEPT ![p].logs = Tail(logs)]
           /\ unseen' = unseen \cup {Head(logs)} /\ UNCHANGED <<processed, scanned>>
  BY <1>1, <1>7, DropStep
<1> QED BY <1>2, <1>3, <1>5, <1>6, <1>7 DEF NextBurn, HandleRawLog

\* What the game has granted already is recorded.
LEMMA AskStep == ASSUME Inv, NEW p \in Passes, Ask(p) PROVE Inv'
<1> USE ChickenBurnsConstants
<1> DEFINE logs == pass[p].logs
           b == Head(logs)
<1>1. /\ up /\ pass[p].at = "ask" /\ UNCHANGED <<chains, fs, up, faults>>
      /\ (IF b \in granted THEN Update(p, {b}, 0, Tail(logs)) ELSE Goto(p, "send") /\ UNCHANGED store)
  BY DEF Ask, At
<1>2. /\ Formed(pass[p], height) /\ logs \in Seq(Burns) /\ logs # <<>> /\ pass[p] \in PassRecords
      /\ height \in Nat
  BY <1>1 DEF Inv, PassesOK, Formed, PassRecords, ChainsOK
<1>3. CASE b \in granted
  <2>1. /\ Tail(logs) \in Seq(Burns)
        /\ \A i \in DOMAIN logs : logs[i] = b \/ \E j \in DOMAIN Tail(logs) : Tail(logs)[j] = logs[i]
    BY <1>2, TailKeeps
  <2>2. \A i \in DOMAIN logs : logs[i] \in Accounted \/ \E j \in DOMAIN Tail(logs) : Tail(logs)[j] = logs[i]
    BY <1>3, <2>1 DEF Settled, Accounted
  <2>3. Stored # 0 => Upto(0, Accounted, burntAt)
    BY FirstAbove DEF Upto
  <2>4. /\ {b} \subseteq Settled /\ {b} \subseteq Burns /\ 0 \in Nat /\ 0 <= height
        /\ Update(p, {b}, 0, Tail(logs))
    BY <1>1, <1>2, <1>3, TailKeeps DEF Settled
  <2> QED BY <1>1, <2>1, <2>2, <2>3, <2>4, UpdateStep
<1>4. CASE b \notin granted
  <2>1. Goto(p, "send") /\ UNCHANGED store
    BY <1>1, <1>4
  <2>2. /\ DOMAIN pass' = Passes /\ \A r \in Passes \ {p} : pass'[r] = pass[r]
        /\ pass'[p] = [pass[p] EXCEPT !.at = "send"]
    BY <2>1 DEF Goto, Inv, PassesOK
  <2>3. pass'[p] = [pass[p] EXCEPT !.at = "send", !.logs = logs]
    BY <1>2, <2>2 DEF PassRecords
  <2>4. Formed(pass'[p], height) /\ Clear(pass'[p], Settled, Accounted, burntAt) /\ pass'[p].file # "tmp"
    BY <1>1, <1>2, <2>2, <2>3, GoesOn
  <2> QED BY <1>1, <2>1, <2>2, <2>4, PassOnly
<1> QED BY <1>3, <1>4

\* A grant that is sent changes nothing that was granted.
LEMMA SendStep == ASSUME Inv, NEW p \in Passes, Send(p) PROVE Inv'
<1> USE ChickenBurnsConstants
<1> DEFINE logs == pass[p].logs
           b == Head(logs)
<1>1. /\ up /\ pass[p].at = "send" /\ UNCHANGED <<height, burntAt, granted, undone, refusing, store, fs, up, faults>>
      /\ UNCHANGED <<unseen, Settled, Accounted>>
      /\ (IF Grantable(b) THEN flight' = flight \cup {<<p, b>>} /\ Goto(p, "receipt")
          ELSE Ends(p) /\ UNCHANGED flight)
  BY DEF Send, At, store, Settled, Accounted
<1>2. /\ Formed(pass[p], height) /\ logs \in Seq(Burns) /\ logs # <<>> /\ pass[p] \in PassRecords
      /\ height \in Nat
  BY <1>1 DEF Inv, PassesOK, Formed, PassRecords, ChainsOK
<1>3. CASE Grantable(b)
  <2>1. Goto(p, "receipt") /\ flight' = flight \cup {<<p, b>>}
    BY <1>1, <1>3
  <2>2. /\ DOMAIN pass' = Passes /\ \A r \in Passes \ {p} : pass'[r] = pass[r]
        /\ pass'[p] = [pass[p] EXCEPT !.at = "receipt"]
    BY <2>1 DEF Goto, Inv, PassesOK
  <2>3. pass'[p] = [pass[p] EXCEPT !.at = "receipt", !.logs = logs]
    BY <1>2, <2>2 DEF PassRecords
  <2>4. Formed(pass'[p], height) /\ Clear(pass'[p], Settled, Accounted, burntAt) /\ pass'[p].file # "tmp"
    BY <1>1, <1>2, <2>2, <2>3, GoesOn
  <2>5. ChainsOK'
    <3>1. flight' \subseteq Passes \X Burns
      BY <1>2, <2>1, TailKeeps DEF Inv, ChainsOK
    <3> QED BY <1>1, <3>1 DEF Inv, ChainsOK
  <2>6. StoreOK' /\ FilesOK' /\ tmp' = tmp
    BY <1>1 DEF Inv, StoreOK, FilesOK, store, fs
  <2>7. PassesOK'
    <3>1. ASSUME NEW r \in Passes
          PROVE  /\ Formed(pass'[r], height') /\ Clear(pass'[r], Settled', Accounted', burntAt')
                 /\ pass'[r].file = "tmp" => tmp'.here
      <4>1. CASE r = p
        BY <1>1, <2>4, <4>1
      <4>2. CASE r # p
        BY <1>1, <2>2, <2>6, <4>2 DEF Inv, PassesOK
      <4> QED BY <4>1, <4>2
    <3> QED BY <2>2, <3>1 DEF PassesOK
  <2> QED BY <2>5, <2>6, <2>7 DEF Inv
<1>4. CASE ~Grantable(b)
  <2>1. Ends(p) /\ UNCHANGED flight
    BY <1>1, <1>4
  <2>2. UNCHANGED <<chains, store, fs, up, faults>>
    BY <1>1, <2>1 DEF chains
  <2> QED BY <2>1, <2>2, EndsStep
<1> QED BY <1>3, <1>4

\* A receipt of success is of a burn that is granted.
LEMMA ReceiptStep == ASSUME Inv, NEW p \in Passes, Receipt(p) PROVE Inv'
<1> USE ChickenBurnsConstants
<1> DEFINE logs == pass[p].logs
           b == Head(logs)
<1>1. /\ up /\ pass[p].at = "receipt" /\ UNCHANGED <<chains, fs, up, faults>>
      /\ (IF pass[p].mined = "success" THEN Update(p, {b}, 0, Tail(logs)) ELSE Ends(p) /\ UNCHANGED store)
  BY DEF Receipt, At
<1>2. /\ logs \in Seq(Burns) /\ logs # <<>> /\ height \in Nat
  BY <1>1 DEF Inv, PassesOK, Formed, PassRecords, ChainsOK
<1>3. CASE pass[p].mined = "success"
  <2>1. b \in Settled
    BY <1>3 DEF Inv, PassesOK, Clear
  <2>2. /\ Tail(logs) \in Seq(Burns)
        /\ \A i \in DOMAIN logs : logs[i] = b \/ \E j \in DOMAIN Tail(logs) : Tail(logs)[j] = logs[i]
    BY <1>2, TailKeeps
  <2>3. \A i \in DOMAIN logs : logs[i] \in Accounted \/ \E j \in DOMAIN Tail(logs) : Tail(logs)[j] = logs[i]
    BY <2>1, <2>2 DEF Accounted
  <2>4. Stored # 0 => Upto(0, Accounted, burntAt)
    BY FirstAbove DEF Upto
  <2>5. /\ {b} \subseteq Settled /\ {b} \subseteq Burns /\ 0 \in Nat /\ 0 <= height
        /\ Update(p, {b}, 0, Tail(logs))
    BY <1>1, <1>2, <1>3, <2>1, TailKeeps
  <2> QED BY <1>1, <2>2, <2>3, <2>4, <2>5, UpdateStep
<1>4. CASE pass[p].mined # "success"
  <2>1. Ends(p) /\ UNCHANGED <<chains, store, fs, up, faults>>
    BY <1>1, <1>4
  <2> QED BY <2>1, EndsStep
<1> QED BY <1>3, <1>4

\* A call that fails ends its pass.
LEMMA CallFailsStep == ASSUME Inv, NEW p \in Passes, CallFails(p) PROVE Inv'
<1> USE ChickenBurnsConstants
<1>1. /\ Ends(p) /\ faults < MaxFaults /\ faults' = faults + 1 /\ UNCHANGED <<chains, store, fs, up>>
  BY DEF CallFails, Fault
<1>2. UNCHANGED <<height, burntAt, granted, undone, refusing, flight, processed, scanned, unseen, disk, tmp, up,
                  Settled, Accounted>>
  BY <1>1, SettledStay DEF chains, store, fs
<1>3. DOMAIN pass' = Passes /\ pass'[p] = Idle /\ \A r \in Passes \ {p} : pass'[r] = pass[r]
  BY <1>1 DEF Ends, Inv, PassesOK
<1>4. height \in Nat
  BY DEF Inv, ChainsOK
<1>5. Formed(Idle, height) /\ Clear(Idle, Settled, Accounted, burntAt) /\ Idle.file # "tmp"
  BY <1>4, IdleClear DEF Idle
<1>6. PassesOK'
  <2>1. ASSUME NEW r \in Passes
        PROVE  /\ Formed(pass'[r], height') /\ Clear(pass'[r], Settled', Accounted', burntAt')
               /\ pass'[r].file = "tmp" => tmp'.here
    <3>1. CASE r = p
      BY <1>2, <1>3, <1>5, <3>1
    <3>2. CASE r # p
      BY <1>2, <1>3, <3>2 DEF Inv, PassesOK
    <3> QED BY <3>1, <3>2
  <2> QED BY <1>3, <2>1 DEF PassesOK
<1>7. faults' \in 0 .. MaxFaults
  BY <1>1 DEF Inv, ChainsOK
<1>8. ChainsOK'
  BY <1>2, <1>7, Zenon DEF Inv, ChainsOK
<1>9. StoreOK' /\ FilesOK'
  BY <1>2 DEF Inv, StoreOK, FilesOK
<1> QED BY <1>6, <1>8, <1>9 DEF Inv

-----------------------------------------------------------------------------
(* The file *)

\* What a pass is about to write is backed, since the memory is.
LEMMA SaveStep == ASSUME Inv, NEW p \in Passes, Save(p) PROVE Inv'
<1>1. /\ up /\ pass[p].at = "save" /\ UNCHANGED <<chains, store, fs, up, faults>>
      /\ pass' = [pass EXCEPT ![p].at = "open", ![p].content = <<processed, scanned>>]
  BY DEF Save, At
<1>2. /\ Formed(pass[p], height) /\ Clear(pass[p], Settled, Accounted, burntAt) /\ pass[p] \in PassRecords
      /\ pass[p].file = "none" /\ pass[p].mined # "success"
  BY <1>1 DEF Inv, PassesOK, Formed
<1>3. /\ processed \subseteq Burns /\ scanned \in Nat /\ scanned <= height
      /\ Backed(<<processed, scanned>>, Settled, Accounted, burntAt)
  BY <1>1 DEF Inv, ChainsOK, StoreOK, Settled
<1>4. /\ DOMAIN pass' = Passes /\ \A r \in Passes \ {p} : pass'[r] = pass[r]
      /\ pass'[p] = [pass[p] EXCEPT !.at = "open", !.content = <<processed, scanned>>]
  BY <1>1 DEF Inv, PassesOK
<1>5. /\ pass'[p].at = "open" /\ pass'[p].content = <<processed, scanned>> /\ pass'[p].file = "none"
      /\ pass'[p].mined = pass[p].mined /\ pass'[p].logs = pass[p].logs /\ pass'[p].end = pass[p].end
  BY <1>2, <1>4 DEF PassRecords
<1>6. <<processed, scanned>> \in Contents /\ <<processed, scanned>>[2] <= height
  BY <1>3 DEF Contents
<1>7. Formed(pass'[p], height)
  <2>1. pass'[p] \in PassRecords
    BY <1>2, <1>4, <1>6 DEF PassRecords, Stages
  <2>2. /\ pass'[p].start = pass[p].start /\ pass'[p].to = pass[p].to
    BY <1>2, <1>4 DEF PassRecords
  <2> QED BY <1>2, <1>5, <1>6, <2>1, <2>2 DEF Formed
<1>8. Clear(pass'[p], Settled, Accounted, burntAt)
  <2>1. pass[p].at \in Chunked /\ pass'[p].at \in Chunked
    BY <1>1, <1>5 DEF Chunked, Stages
  <2>2. pass'[p].mined # "success" /\ Backed(pass'[p].content, Settled, Accounted, burntAt)
    BY <1>2, <1>3, <1>5
  <2> QED BY <1>2, <1>5, <2>1, <2>2, ClearWithin
<1> QED BY <1>1, <1>4, <1>5, <1>7, <1>8, PassOnly

\* The file beside is emptied: nothing can be read of it.
LEMMA OpenStep == ASSUME Inv, NEW p \in Passes, Open(p) PROVE Inv'
<1>1. /\ up /\ pass[p].at = "open" /\ UNCHANGED <<chains, store, disk, up, faults>> /\ tmp' = Empty
      /\ pass' = [pass EXCEPT ![p].at = "write", ![p].file = "tmp"]
  BY DEF Open, At
<1>2. /\ Formed(pass[p], height) /\ Clear(pass[p], Settled, Accounted, burntAt) /\ pass[p] \in PassRecords
      /\ pass[p].mined # "success" /\ height \in Nat
  BY <1>1 DEF Inv, PassesOK, Formed, ChainsOK
<1>3. /\ DOMAIN pass' = Passes /\ \A r \in Passes \ {p} : pass'[r] = pass[r]
      /\ pass'[p] = [pass[p] EXCEPT !.at = "write", !.file = "tmp"]
  BY <1>1 DEF Inv, PassesOK
<1>4. /\ pass'[p].at = "write" /\ pass'[p].content = pass[p].content /\ pass'[p].file = "tmp"
      /\ pass'[p].mined = pass[p].mined /\ pass'[p].logs = pass[p].logs /\ pass'[p].end = pass[p].end
      /\ pass'[p].start = pass[p].start /\ pass'[p].to = pass[p].to /\ pass'[p] \in PassRecords
  BY <1>2, <1>3 DEF PassRecords, Stages
<1>5. Formed(pass'[p], height)
  BY <1>2, <1>4 DEF Formed
<1>6. Clear(pass'[p], Settled, Accounted, burntAt)
  <2>1. pass[p].at \in Chunked /\ pass'[p].at \in Chunked
    BY <1>1, <1>4 DEF Chunked, Stages
  <2>2. pass'[p].mined # "success" /\ Backed(pass'[p].content, Settled, Accounted, burntAt)
    BY <1>1, <1>2, <1>4 DEF Clear
  <2> QED BY <1>2, <1>4, <2>1, <2>2, ClearWithin
<1>7. tmp'.here /\ Sound(tmp', height, Settled, Accounted, burntAt)
  <2>1. tmp' = [here |-> TRUE, content |-> <<{}, 0>>, whole |-> FALSE]
    BY <1>1 DEF Empty, Absent
  <2>2. <<{}, 0>> \in Contents /\ <<{}, 0>>[2] = 0
    BY DEF Contents
  <2> QED BY <1>2, <2>1, <2>2 DEF Sound
<1>8. FilesOK'
  BY <1>1, <1>7, SettledStay DEF Inv, FilesOK, chains, store
<1>9. StoreOK' /\ UNCHANGED <<chains, unseen, up, faults>>
  BY <1>1, StoreStays
<1> QED BY <1>3, <1>5, <1>6, <1>7, <1>8, <1>9, PassMoves

\* A sound file over which something backed is written is sound: either that can
\* be read now, or nothing can.
LEMMA WrittenSound ==
    ASSUME NEW file, NEW head \in Nat, NEW done, NEW told, NEW at, NEW content \in Contents,
           content[2] <= head, Backed(content, done, told, at), Sound(file, head, done, told, at)
    PROVE  Sound(Written(file, content), head, done, told, at) /\ Written(file, content).here = file.here
<1>1. file \in [here : BOOLEAN, content : Contents, whole : BOOLEAN] /\ file.content[2] <= head
  BY DEF Sound
<1>2. CASE file.content[1] \subseteq content[1]
  <2>1. Written(file, content) = [file EXCEPT !.content = content, !.whole = TRUE]
    BY <1>2 DEF Written
  <2>2. Written(file, content) = [here |-> file.here, content |-> content, whole |-> TRUE]
    BY <1>1, <2>1
  <2> QED BY <1>1, <2>2 DEF Sound
<1>3. CASE ~(file.content[1] \subseteq content[1])
  <2>1. Written(file, content) = [file EXCEPT !.whole = FALSE]
    BY <1>3 DEF Written
  <2>2. Written(file, content) = [here |-> file.here, content |-> file.content, whole |-> FALSE]
    BY <1>1, <2>1
  <2> QED BY <1>1, <2>2 DEF Sound
<1> QED BY <1>2, <1>3

\* Whichever file the pass has open gets a text that is backed.
LEMMA WriteStep == ASSUME Inv, NEW p \in Passes, Write(p) PROVE Inv'
<1>1. /\ up /\ pass[p].at = "write" /\ UNCHANGED <<chains, store, up, faults>>
      /\ disk' = (IF pass[p].file = "disk" THEN Written(disk, pass[p].content) ELSE disk)
      /\ tmp' = (IF pass[p].file = "tmp" THEN Written(tmp, pass[p].content) ELSE tmp)
      /\ pass' = [pass EXCEPT ![p].at = "rename", ![p].file = "none", ![p].content = Idle.content]
  BY DEF Write, At
<1>2. /\ Formed(pass[p], height) /\ Clear(pass[p], Settled, Accounted, burntAt) /\ pass[p] \in PassRecords
      /\ pass[p].mined # "success" /\ height \in Nat
  BY <1>1 DEF Inv, PassesOK, Formed, ChainsOK
<1>3. /\ pass[p].content \in Contents /\ pass[p].content[2] <= height
      /\ Backed(pass[p].content, Settled, Accounted, burntAt)
  BY <1>1, <1>2 DEF Formed, Clear, PassRecords
<1>4. /\ DOMAIN pass' = Passes /\ \A r \in Passes \ {p} : pass'[r] = pass[r]
      /\ pass'[p] = [pass[p] EXCEPT !.at = "rename", !.file = "none", !.content = <<{}, 0>>]
  BY <1>1 DEF Inv, PassesOK, Idle
<1>5. /\ pass'[p].at = "rename" /\ pass'[p].content = <<{}, 0>> /\ pass'[p].file = "none"
      /\ pass'[p].mined = pass[p].mined /\ pass'[p].logs = pass[p].logs /\ pass'[p].end = pass[p].end
      /\ pass'[p].start = pass[p].start /\ pass'[p].to = pass[p].to
  BY <1>2, <1>4 DEF PassRecords
<1>6. Formed(pass'[p], height)
  <2>1. <<{}, 0>> \in Contents /\ <<{}, 0>>[2] = 0
    BY DEF Contents
  <2>2. pass'[p] \in PassRecords
    BY <1>2, <1>4, <2>1 DEF PassRecords, Stages
  <2> QED BY <1>2, <1>5, <2>1, <2>2 DEF Formed
<1>7. Clear(pass'[p], Settled, Accounted, burntAt)
  <2>1. pass[p].at \in Chunked /\ pass'[p].at \in Chunked
    BY <1>1, <1>5 DEF Chunked, Stages
  <2>2. pass'[p].mined # "success" /\ pass'[p].at \notin {"open", "write"}
    BY <1>2, <1>5
  <2> QED BY <1>2, <1>5, <2>1, <2>2, ClearWithin
<1>8. Sound(disk, height, Settled, Accounted, burntAt) /\ Sound(tmp, height, Settled, Accounted, burntAt) /\ disk.here
  BY DEF Inv, FilesOK
<1>9. Sound(disk', height, Settled, Accounted, burntAt) /\ disk'.here = disk.here
  BY <1>1, <1>2, <1>3, <1>8, WrittenSound
<1>10. Sound(tmp', height, Settled, Accounted, burntAt) /\ tmp'.here = tmp.here
  BY <1>1, <1>2, <1>3, <1>8, WrittenSound
<1>11. FilesOK'
  BY <1>1, <1>8, <1>9, <1>10, SettledStay DEF FilesOK, chains, store
<1>12. StoreOK' /\ UNCHANGED <<chains, unseen, up, faults>>
  BY <1>1, StoreStays
<1> QED BY <1>4, <1>5, <1>6, <1>7, <1>10, <1>11, <1>12, PassMoves

\* Whatever text lies beside becomes the state file, and those who have it open
\* will write into the state file.
LEMMA RenameStep == ASSUME Inv, NEW p \in Passes, Rename(p) PROVE Inv'
<1>1. up /\ pass[p].at = "rename" /\ UNCHANGED <<chains, store, up, faults>>
  BY DEF Rename, At
<1>2. CASE ~tmp.here
  <2>1. Ends(p) /\ UNCHANGED <<chains, store, fs, up, faults>>
    BY <1>1, <1>2 DEF Rename
  <2> QED BY <2>1, EndsStep
<1>3. CASE tmp.here
  <2>1. /\ disk' = tmp /\ tmp' = Absent
        /\ pass' = [q \in Passes |-> IF q = p THEN [pass[p] EXCEPT !.at = "burn"]
                                     ELSE [pass[q] EXCEPT !.file = Moved(pass[q].file)]]
    BY <1>3 DEF Rename
  <2>2. UNCHANGED <<height, burntAt, granted, undone, refusing, flight, processed, scanned, unseen, up, faults,
                    Settled, Accounted>>
    BY <1>1, SettledStay DEF chains, store
  <2>3. ChainsOK' /\ StoreOK'
    BY <2>2 DEF Inv, ChainsOK, StoreOK
  <2>4. height \in Nat
    BY DEF Inv, ChainsOK
  <2>5. FilesOK'
    <3>1. Sound(Absent, height, Settled, Accounted, burntAt)
      BY <2>4 DEF Sound, Absent, Contents
    <3> QED BY <1>3, <2>1, <2>2, <3>1 DEF Inv, FilesOK
  <2>6. ASSUME NEW r \in Passes
        PROVE  Formed(pass'[r], height) /\ Clear(pass'[r], Settled, Accounted, burntAt) /\ pass'[r].file # "tmp"
    <3>1. pass[r] \in PassRecords /\ Formed(pass[r], height) /\ Clear(pass[r], Settled, Accounted, burntAt)
      BY DEF Inv, PassesOK, Formed
    <3>2. CASE r = p
      <4>1. pass'[r] = [pass[r] EXCEPT !.at = "burn"]
        BY <2>1, <3>2
      <4>2. /\ pass'[r].at = "burn" /\ pass'[r].file = pass[r].file /\ pass'[r].mined = pass[r].mined
            /\ pass'[r].logs = pass[r].logs /\ pass'[r].end = pass[r].end
            /\ pass'[r].content = pass[r].content
            /\ pass'[r].start = pass[r].start /\ pass'[r].to = pass[r].to /\ pass'[r] \in PassRecords
        BY <3>1, <4>1 DEF PassRecords, Stages
      <4>3. pass[r].at = "rename" /\ pass[r].file = "none" /\ pass[r].mined # "success"
        BY <1>1, <3>1, <3>2 DEF Formed
      <4>4. Formed(pass'[r], height)
        BY <3>1, <4>2, <4>3 DEF Formed
      <4>5. Clear(pass'[r], Settled, Accounted, burntAt)
        BY <3>1, <4>2, <4>3 DEF Clear, InHand, Chunked, Stages
      <4> QED BY <4>2, <4>3, <4>4, <4>5
    <3>3. CASE r # p
      <4>1. pass'[r] = [pass[r] EXCEPT !.file = Moved(pass[r].file)]
        BY <2>1, <3>3
      <4>2. /\ Moved(pass[r].file) \in {"none", "disk", "gone"}
            /\ Moved(pass[r].file) = "none" <=> pass[r].file = "none"
        BY <3>1 DEF Moved, PassRecords
      <4>3. /\ pass'[r].at = pass[r].at /\ pass'[r].file = Moved(pass[r].file)
            /\ pass'[r].mined = pass[r].mined
            /\ pass'[r].logs = pass[r].logs /\ pass'[r].end = pass[r].end
            /\ pass'[r].content = pass[r].content
            /\ pass'[r].start = pass[r].start /\ pass'[r].to = pass[r].to /\ pass'[r] \in PassRecords
        BY <3>1, <4>1, <4>2 DEF PassRecords
      <4>4. Formed(pass'[r], height)
        BY <3>1, <4>2, <4>3 DEF Formed
      <4>5. Clear(pass'[r], Settled, Accounted, burntAt)
        BY <3>1, <4>3 DEF Clear, InHand
      <4> QED BY <4>2, <4>3, <4>4, <4>5
    <3> QED BY <3>2, <3>3
  <2>7. DOMAIN pass' = Passes
    BY <2>1
  <2>8. PassesOK'
    BY <2>2, <2>6, <2>7 DEF PassesOK
  <2> QED BY <2>3, <2>5, <2>8 DEF Inv
<1> QED BY <1>2, <1>3 DEF Inv, FilesOK, Sound

-----------------------------------------------------------------------------
(* The theorems *)

\* Every step keeps the invariant.
LEMMA NextInv == ASSUME Inv, [Next]_vars PROVE Inv'
<1>1. CASE Confirm \/ Refuse \/ MineGrant \/ Undo \/ Crash \/ Restart
  BY <1>1, ConfirmStep, RefuseStep, MineGrantStep, UndoStep, CrashStep, RestartStep
<1>2. CASE \E p \in Passes : PassStep(p) \/ CallFails(p)
  <2>1. PICK p \in Passes : PassStep(p) \/ CallFails(p)
    BY <1>2
  <2>2. CASE Start(p) \/ Plan(p) \/ Fetch(p) \/ NextBurn(p) \/ Ask(p) \/ Send(p) \/ Receipt(p)
    BY <2>2, StartStep, PlanStep, FetchStep, NextBurnStep, AskStep, SendStep, ReceiptStep
  <2>3. CASE Save(p) \/ Open(p) \/ Write(p) \/ Rename(p)
    BY <2>3, SaveStep, OpenStep, WriteStep, RenameStep
  <2> QED BY <2>1, <2>2, <2>3, CallFailsStep DEF PassStep
<1>3. CASE UNCHANGED vars
  BY <1>3 DEF vars, chains, store, fs, Inv, ChainsOK, StoreOK, FilesOK, PassesOK, Settled, Accounted
<1> QED BY <1>1, <1>2, <1>3 DEF Next

\* The inductive invariant: every claim of the memory, of a pass and of a file
\* that can be read is backed by the game, in every reachable state.
THEOREM Invariant == Spec => []Inv
BY InitInv, NextInv, PTL DEF Spec

\* Every reachable state is well typed: the scanned block, chunks and files never
\* go beyond the confirmed head, and a file that is open for writing is there.
THEOREM Types == Spec => []TypeOK
<1>1. ASSUME Inv PROVE TypeOK
  <2> USE ChickenBurnsConstants
  <2>1. height \in Nat /\ height <= MaxHeight /\ MaxHeight \in Nat
    BY <1>1 DEF Inv, ChainsOK
  <2>2. height \in Heights /\ burntAt \in [Burns -> Heights]
    BY <1>1, <2>1 DEF Inv, ChainsOK, Heights
  <2>3. /\ granted \cup undone \cup processed \cup unseen \subseteq Burns /\ refusing \subseteq Planets
        /\ flight \subseteq Passes \X Burns /\ scanned \in 0 .. height
        /\ up \in BOOLEAN /\ faults \in 0 .. MaxFaults
    BY <1>1, <2>1 DEF Inv, ChainsOK, StoreOK, Settled
  <2>4. ASSUME NEW file, Sound(file, height, Settled, Accounted, burntAt)
        PROVE  file \in [here : BOOLEAN, content : (SUBSET Burns) \X (0 .. height), whole : BOOLEAN]
    <3>1. file \in [here : BOOLEAN, content : Contents, whole : BOOLEAN] /\ file.content[2] <= height
      BY <2>4 DEF Sound
    <3>2. file.content \in (SUBSET Burns) \X (0 .. height)
      BY <2>1, <3>1 DEF Contents
    <3> QED BY <3>1, <3>2
  <2>5. /\ {disk, tmp} \subseteq [here : BOOLEAN, content : (SUBSET Burns) \X (0 .. height), whole : BOOLEAN]
        /\ disk.here
    BY <1>1, <2>4 DEF Inv, FilesOK
  <2>6. ASSUME NEW p \in Passes
        PROVE  /\ pass[p].at \in {"idle", "head", "fetch", "burn", "ask", "send", "receipt",
                                  "save", "open", "write", "rename"}
               /\ pass[p].to \in 0 .. height /\ pass[p].end \in 0 .. pass[p].to
               /\ pass[p].start \in 0 .. pass[p].end
               /\ pass[p].logs \in Seq(Burns) /\ pass[p].file \in {"none", "tmp", "disk", "gone"}
               /\ (pass[p].file = "tmp" => tmp.here)
               /\ (pass[p].file = "none" <=> pass[p].at # "write")
    <3>1. Formed(pass[p], height) /\ (pass[p].file = "tmp" => tmp.here)
      BY <1>1 DEF Inv, PassesOK
    <3> QED BY <2>1, <3>1 DEF Formed, PassRecords, Stages
  <2> QED BY <2>2, <2>3, <2>5, <2>6 DEF TypeOK
<1> QED BY <1>1, Invariant, PTL

\* However many passes overlap, write the one file and rename it, whatever fails
\* or crashes: what the memory or a readable state file has as processed or
\* scanned is granted.
THEOREM NoBurnSkipped == Spec => []NoneSkipped
<1>1. ASSUME Inv PROVE NoneSkipped
  <2>1. up => processed \subseteq Settled /\ (Stored # 0 => Covered(scanned))
    BY <1>1 DEF Inv, StoreOK, Backed, Upto, Covered
  <2>2. ~Torn => disk.content[1] \subseteq Settled /\ (Stored # 0 => Covered(disk.content[2]))
    BY <1>1 DEF Inv, FilesOK, Sound, Torn, Backed, Upto, Covered
  <2> QED BY <2>1, <2>2 DEF NoneSkipped
<1> QED BY <1>1, Invariant, PTL

=============================================================================
