---------------------------- MODULE ChickenBurns ----------------------------
(***************************************************************************)
(* The listener that grants a moon for every burnt chicken.  A pass of the *)
(* backfill reads the confirmed head of the source chain, takes the logs   *)
(* above the last scanned block chunk by chunk, asks the game for a grant  *)
(* for each burn and then moves the scanned block on.  Passes are started  *)
(* by the timer and by each websocket message and may overlap; they share  *)
(* the store and its file, which is written beside and then renamed.  The  *)
(* game refuses a second grant of a burn and a planet that has a moon.     *)
(* What is confirmed of the source chain stays; the game chain is believed *)
(* after one block, and may undo it.                                       *)
(***************************************************************************)
EXTENDS Integers, SequencesExt, FiniteSetsExt

CONSTANTS
    Burns, Planets, Target,     \* the planet that a burn names
    Fallback,                   \* burns told by a Transfer log alone
    Passes,                     \* bound: passes at one time
    Stored,                     \* the scanned block in the file at first
    StartBlock, Lookback, RangeBlocks,      \* of the configuration
    MaxHeight, MaxFaults        \* bounds

ASSUME ChickenBurnsConstants ==
    /\ Target \in [Burns -> Planets] /\ IsFiniteSet(Burns) /\ Passes # {}
    /\ {StartBlock, Lookback, RangeBlocks, MaxHeight, MaxFaults} \subseteq Nat /\ Stored \in 0 .. MaxHeight

VARIABLES
    height,         \* confirmed head of the source chain
    burntAt,        \* burn -> confirmed block, or 0
    granted,        \* burns granted by the game
    undone,         \* history: burns whose grant the game chain took back
    refusing,       \* planets that get no moon: they have one, or the owner changed
    flight,         \* grants sent and not mined: <<pass, burn>>
    processed, scanned,     \* memory of the store
    unseen,         \* history: burns passed over, as the node did not know their transaction
    disk, tmp,      \* the state file, and that beside it
    up,             \* does the process run?
    pass,           \* the passes
    faults

chains == <<height, burntAt, granted, undone, refusing, flight>>
store == <<processed, scanned, unseen>>
fs == <<disk, tmp>>
vars == <<chains, store, fs, up, pass, faults>>

Idle == [at |-> "idle", lookback |-> 0, start |-> 0, end |-> 0, to |-> 0, logs |-> <<>>,
         mined |-> "none", file |-> "none", content |-> <<{}, 0>>]
Absent == [here |-> FALSE, content |-> <<{}, 0>>, whole |-> FALSE]
Empty == [Absent EXCEPT !.here = TRUE]
Heights == 0 .. MaxHeight

TypeOK ==
    /\ height \in Heights /\ burntAt \in [Burns -> Heights]
    /\ granted \cup undone \cup processed \cup unseen \subseteq Burns /\ refusing \subseteq Planets
    /\ flight \subseteq Passes \X Burns /\ scanned \in 0 .. height
    /\ {disk, tmp} \subseteq [here : BOOLEAN, content : (SUBSET Burns) \X (0 .. height), whole : BOOLEAN]
    /\ disk.here
    /\ up \in BOOLEAN /\ faults \in 0 .. MaxFaults
    /\ \A p \in Passes :
          /\ pass[p].at \in {"idle", "head", "fetch", "burn", "ask", "send", "receipt",
                             "save", "open", "write", "rename"}
          /\ pass[p].to \in 0 .. height /\ pass[p].end \in 0 .. pass[p].to
          /\ pass[p].start \in 0 .. pass[p].end
          /\ pass[p].logs \in Seq(Burns) /\ pass[p].file \in {"none", "tmp", "disk", "gone"}
          /\ (pass[p].file = "tmp" => tmp.here) /\ (pass[p].file = "none" <=> pass[p].at # "write")

Init ==
    /\ height = Stored /\ burntAt = [b \in Burns |-> 0]
    /\ granted = {} /\ undone = {} /\ refusing = {} /\ flight = {}
    /\ processed = {} /\ scanned = Stored /\ unseen = {}
    /\ disk = [here |-> TRUE, content |-> <<{}, Stored>>, whole |-> TRUE] /\ tmp = Absent
    /\ up = TRUE /\ pass = [p \in Passes |-> Idle] /\ faults = 0

Fault == faults < MaxFaults /\ faults' = faults + 1              \* bound
At(p, step) == up /\ pass[p].at = step
Goto(p, step) == pass' = [pass EXCEPT ![p].at = step]
Ends(p) == pass' = [pass EXCEPT ![p] = Idle]

-----------------------------------------------------------------------------
(* The chains *)

\* A block is confirmed; what is not confirmed is never read.
Confirm ==
    /\ height < MaxHeight /\ height' = height + 1
    /\ \E new \in SUBSET {b \in Burns : burntAt[b] = 0} :
          burntAt' = [b \in Burns |-> IF b \in new THEN height + 1 ELSE burntAt[b]]
    /\ UNCHANGED <<granted, undone, refusing, flight, store, fs, up, pass, faults>>

\* A moon by a battle, or a sale of the planet.
Refuse ==
    /\ \E l \in Planets \ refusing : refusing' = refusing \cup {l}
    /\ Fault
    /\ UNCHANGED <<height, burntAt, granted, undone, flight, store, fs, up, pass>>

Grantable(b) == b \notin granted /\ Target[b] \notin refusing

\* grantMoonFromChickenBurn is mined, also after the sender has died.
MineGrant ==
    \E p \in Passes, b \in Burns :
        /\ <<p, b>> \in flight /\ flight' = flight \ {<<p, b>>}
        /\ IF Grantable(b)
           THEN granted' = granted \cup {b} /\ refusing' = refusing \cup {Target[b]}
           ELSE UNCHANGED <<granted, refusing>>
        /\ pass' = IF At(p, "receipt") /\ Head(pass[p].logs) = b /\ pass[p].mined = "none"
                   THEN [pass EXCEPT ![p].mined = IF Grantable(b) THEN "success" ELSE "reverted"]
                   ELSE pass
        /\ UNCHANGED <<height, burntAt, undone, store, fs, up, faults>>

\* The game chain is reorganised after the one block that the receipt waits for:
\* the moon goes (a sale of its planet in the meantime is a Refuse after this), and
\* the transaction is lost or is in flight again, for nobody.
Undo ==
    \E b \in granted :
        /\ granted' = granted \ {b} /\ undone' = undone \cup {b}
        /\ refusing' = refusing \ {Target[b]}
        /\ flight' \in {flight, flight \cup {<<CHOOSE p \in Passes : TRUE, b>>}}
        /\ Fault /\ UNCHANGED <<height, burntAt, store, fs, up, pass>>

-----------------------------------------------------------------------------
(* The store: memory first, then the file beside, then the rename *)

\* Changes the memory, and goes on with the pass when that is saved.
Update(p, burns, block, logs) ==
    /\ processed' = processed \cup burns /\ scanned' = Max({scanned, block}) /\ UNCHANGED unseen
    /\ pass' = [pass EXCEPT ![p].at = IF store' = store THEN "burn" ELSE "save",
                            ![p].logs = logs, ![p].mined = "none"]

\* What is written is what the memory is before the file is opened.
Save(p) ==
    /\ At(p, "save")
    /\ pass' = [pass EXCEPT ![p].at = "open", ![p].content = <<processed, scanned>>]
    /\ UNCHANGED <<chains, store, fs, up, faults>>

\* The file beside is made, or emptied if there is one.
Open(p) ==
    /\ At(p, "open")
    /\ tmp' = Empty /\ pass' = [pass EXCEPT ![p].at = "write", ![p].file = "tmp"]
    /\ UNCHANGED <<chains, store, disk, up, faults>>

\* A shorter text over a longer one leaves the longer one's tail.
Written(file, content) ==
    IF file.content[1] \subseteq content[1] THEN [file EXCEPT !.content = content, !.whole = TRUE]
    ELSE [file EXCEPT !.whole = FALSE]

\* The file that was opened is written, also if it is renamed by now.
Write(p) ==
    /\ At(p, "write")
    /\ disk' = IF pass[p].file = "disk" THEN Written(disk, pass[p].content) ELSE disk
    /\ tmp' = IF pass[p].file = "tmp" THEN Written(tmp, pass[p].content) ELSE tmp
    /\ pass' = [pass EXCEPT ![p].at = "rename", ![p].file = "none", ![p].content = Idle.content]
    /\ UNCHANGED <<chains, store, up, faults>>

Moved(file) == CASE file = "tmp" -> "disk" [] file = "disk" -> "gone" [] OTHER -> file

\* Whatever lies beside is renamed; if another pass has done so, it fails.
Rename(p) ==
    /\ At(p, "rename")
    /\ IF ~tmp.here THEN Ends(p) /\ UNCHANGED fs
       ELSE /\ disk' = tmp /\ tmp' = Absent
            /\ pass' = [q \in Passes |-> IF q = p THEN [pass[p] EXCEPT !.at = "burn"]
                                         ELSE [pass[q] EXCEPT !.file = Moved(@)]]
    /\ UNCHANGED <<chains, store, up, faults>>

-----------------------------------------------------------------------------
(* A pass of the backfill *)

\* By the timer, with the configured lookback, or by a websocket message, with none.
Start(p) ==
    /\ At(p, "idle")
    /\ \E lookback \in {0, Lookback} :
          pass' = [pass EXCEPT ![p] = [Idle EXCEPT !.at = "head", !.lookback = lookback, !.to = height]]
    /\ UNCHANGED <<chains, store, fs, up, faults>>

\* Mutant of FromBlock: the store is not asked.
FromBlock_Near(to, lookback) == Max({0, to - lookback})

FromBlock(to, lookback) ==
    Max({StartBlock, IF scanned = 0 THEN Max({0, to - lookback}) ELSE scanned + 1})

\* Mutant of ChunkEnd: beyond the confirmed head.
ChunkEnd_Unclipped(start, to) == start + RangeBlocks + 1

ChunkEnd(start, to) == Min({start + RangeBlocks, to})

\* The chunk that starts at this block, if there is one.
Chunk(p, start) ==
    pass' = [pass EXCEPT ![p] =
        IF start > pass[p].to THEN Idle
        ELSE [@ EXCEPT !.at = "fetch", !.start = start, !.end = ChunkEnd(start, pass[p].to)]]

\* The store is read when the head has been read.
Plan(p) ==
    /\ At(p, "head")
    /\ Chunk(p, FromBlock(pass[p].to, pass[p].lookback))
    /\ UNCHANGED <<chains, store, fs, up, faults>>

\* The logs come by their blocks; those of one block in some order.
Fetch(p) ==
    /\ At(p, "fetch")
    /\ LET found == {b \in Burns : burntAt[b] \in pass[p].start .. pass[p].end}
           size == Cardinality(found) IN
       \E logs \in [1 .. size -> found] :
          /\ ToSet(logs) = found
          /\ \A i, j \in 1 .. size : i < j => burntAt[logs[i]] <= burntAt[logs[j]]
          /\ pass' = [pass EXCEPT ![p].at = "burn", ![p].logs = logs]
    /\ UNCHANGED <<chains, store, fs, up, faults>>

\* A burn that is known is skipped, and so is one that only its transaction could
\* explain, if the node does not know that: nothing is recorded of it.
HandleRawLog(p, b, others) ==
    \/ b \in Fallback /\ Fault
       /\ pass' = [pass EXCEPT ![p].logs = others]
       /\ unseen' = unseen \cup {b} /\ UNCHANGED <<processed, scanned>>
    \/ b \in processed /\ pass' = [pass EXCEPT ![p].logs = others] /\ UNCHANGED <<store, faults>>
    \/ b \notin processed /\ Goto(p, "ask") /\ UNCHANGED <<store, faults>>

\* After the last log the scanned block moves on.
NextBurn(p) ==
    /\ At(p, "burn")
    /\ LET logs == pass[p].logs IN
       \/ logs # <<>> /\ HandleRawLog(p, Head(logs), Tail(logs))
       \/ logs = <<>> /\ scanned < pass[p].end /\ Update(p, {}, pass[p].end, <<>>) /\ UNCHANGED faults
       \/ logs = <<>> /\ scanned >= pass[p].end /\ Chunk(p, pass[p].end + 1)
          /\ UNCHANGED <<store, faults>>
    /\ UNCHANGED <<chains, fs, up>>

\* Was it granted already, by another pass or before a crash?
Ask(p) ==
    /\ At(p, "ask")
    /\ LET b == Head(pass[p].logs) IN
       IF b \in granted THEN Update(p, {b}, 0, Tail(pass[p].logs))
       ELSE Goto(p, "send") /\ UNCHANGED store
    /\ UNCHANGED <<chains, fs, up, faults>>

\* Sent if the simulation succeeds.
Send(p) ==
    /\ At(p, "send")
    /\ LET b == Head(pass[p].logs) IN
       IF Grantable(b) THEN flight' = flight \cup {<<p, b>>} /\ Goto(p, "receipt")
       ELSE Ends(p) /\ UNCHANGED flight
    /\ UNCHANGED <<height, burntAt, granted, undone, refusing, store, fs, up, faults>>

\* Mutant of Receipt: its status is not looked at.
Receipt_Unchecked(p) ==
    /\ At(p, "receipt") /\ pass[p].mined # "none"
    /\ Update(p, {Head(pass[p].logs)}, 0, Tail(pass[p].logs))
    /\ UNCHANGED <<chains, fs, up, faults>>

Receipt(p) ==
    /\ At(p, "receipt") /\ pass[p].mined # "none"
    /\ IF pass[p].mined = "success" THEN Update(p, {Head(pass[p].logs)}, 0, Tail(pass[p].logs))
       ELSE Ends(p) /\ UNCHANGED store
    /\ UNCHANGED <<chains, fs, up, faults>>

\* A call fails, or the receipt does not come in time: a pass of the timer is over.
CallFails(p) ==
    /\ up /\ pass[p].at \in {"head", "fetch", "burn", "ask", "send", "receipt"}
    /\ pass[p].at = "burn" => pass[p].logs # <<>> /\ Head(pass[p].logs) \in Fallback
    /\ Ends(p) /\ Fault
    /\ UNCHANGED <<chains, store, fs, up>>

\* The platform ends the process, or a pass of a message fails, be it by a call,
\* a refusal or a rename: nobody catches its rejection.
Crash ==
    /\ up /\ up' = FALSE /\ Fault
    /\ pass' = [p \in Passes |-> Idle] /\ processed' = {} /\ scanned' = 0
    /\ UNCHANGED <<chains, unseen, fs>>

\* A file that cannot be read keeps the process down.
Torn == ~disk.whole

Restart ==
    /\ ~up /\ ~Torn /\ up' = TRUE
    /\ processed' = disk.content[1] /\ scanned' = disk.content[2]
    /\ UNCHANGED <<chains, unseen, fs, pass, faults>>

PassStep(p) ==
    \/ Start(p) \/ Plan(p) \/ Fetch(p) \/ NextBurn(p) \/ Ask(p) \/ Send(p) \/ Receipt(p)
    \/ Save(p) \/ Open(p) \/ Write(p) \/ Rename(p)

Next ==
    \/ Confirm \/ Refuse \/ MineGrant \/ Undo \/ Crash \/ Restart
    \/ \E p \in Passes : PassStep(p) \/ CallFails(p)

\* The timer starts passes for ever, transactions are mined, and the platform
\* starts the process again.  (Each of these steps changes its subscript.)
Spec ==
    /\ Init /\ [][Next]_vars
    /\ \A p \in Passes : WF_pass(PassStep(p))
    /\ WF_flight(MineGrant) /\ WF_up(Restart)

-----------------------------------------------------------------------------
(* Properties *)

\* The first block that the listener is to read.
First == Max({StartBlock, Stored + 1})

\* What was granted, also if the game chain took it back.
Settled == granted \cup undone

\* Every burn from the first block up to this one is settled, or was passed over
\* because the node did not know its transaction.
Accounted == Settled \cup unseen
Covered(block) == \A b \in Burns : burntAt[b] \in First .. block => b \in Accounted

\* Neither the memory nor a state file that a restart can read claims more than
\* the game has granted, whatever passes overlap, write the file or crash: each
\* burn that is recorded was granted, and so was each up to the scanned block,
\* which no later pass will read again.  The claim is wrong in two cases: a burn
\* that a node's null answer hid, and a grant that the game chain undid after the
\* one block the listener waits for.  (From an empty store the first pass begins
\* where its lookback says.)
NoneSkipped ==
    /\ up => processed \subseteq Settled /\ (Stored # 0 => Covered(scanned))
    /\ ~Torn => disk.content[1] \subseteq Settled /\ (Stored # 0 => Covered(disk.content[2]))

\* What a planet refuses stops every pass at its block for good, unless the store
\* knows the burn.
Refused(b) == burntAt[b] >= First /\ b \notin granted \cup processed /\ Target[b] \in refusing

\* Every confirmed burn is granted in the end, whatever overlaps, fails, crashes
\* (though not for ever) or is undone, unless the game refuses it or one that
\* stands before it, a null answer hid it, its grant was undone, or a crash came
\* when the state file was torn.
EveryBurnGranted ==
    \A b \in Burns : burntAt[b] >= First ~>
        \/ b \in Accounted \/ (~up /\ Torn)
        \/ \E c \in Burns : Refused(c) /\ burntAt[c] <= burntAt[b]

=============================================================================
