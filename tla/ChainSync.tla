----------------------------- MODULE ChainSync -----------------------------
(***************************************************************************)
(* How the indexer follows the chain.  A pass polls the head, fetches the  *)
(* logs of an overlap with what it has, and commits them, together with    *)
(* the watermark (the block whose complete logs the database holds), in    *)
(* one transaction after it has seen that the head is still the same.  A   *)
(* websocket brings notices of logs that a reorganisation removed.  The    *)
(* projection is safe to serve while the watermark stands and nothing is   *)
(* pending.  A block is known by its hash, which fixes all blocks below.   *)
(* Logs of the game are retired when the overlap shows them no more; those *)
(* of other contracts by notices only.  A log that was removed and is on   *)
(* the chain again comes back only if it is of one of the kinds that the   *)
(* indexer restores.  A removed completion of a queue takes a repair from  *)
(* canonical reads.  The scans of referrals and paid invites and the       *)
(* failover of a stalled head are not modelled.                            *)
(***************************************************************************)
EXTENDS Integers, SequencesExt, FiniteSetsExt

CONSTANTS
    GameLogs, OtherLogs,    \* identities: transaction and place in the block
    Completions,            \* those that complete a queue
    Restored,               \* those of the kinds that come back after a removal
    Overlap,                \* blocks fetched again below the cursor
    Together,               \* bound: sets of logs that occur in one behaviour
    MaxBlocks, MaxFaults,   \* bounds
    Budget                  \* bound: of the blocks and the faults together

ASSUME ChainSyncConstants == /\ GameLogs \cap OtherLogs = {} /\ Completions \subseteq GameLogs
                             /\ {Overlap, MaxBlocks} \subseteq Nat \ {0}
                             /\ {MaxFaults, Budget} \subseteq Nat

VARIABLES
    blocks,         \* hash -> the path to it and, for each log, the hash that holds it
    tip,
    notices,        \* notices of removed logs on their way: <<log, hash>>
    missed,         \* history: notices that never arrived
    late,           \* history: logs with a notice still on its way when the place
                    \* that the log has got since left the overlap
    rows,           \* the ledger: log -> hash, is it removed, was that repaired
    latest,         \* highest block that brought a row
    watermark,      \* hash, and has nothing changed since it was recorded?
    pending,        \* why a repair is asked for
    lostAnchor,     \* the watermark that was found off the chain, likewise
    transport,      \* why the node is not trusted
    handled,        \* memory: logs applied lately
    cursor,         \* memory: highest block scanned, or -1
    removals,       \* memory: notices that arrived and wait for the drain
    repairs,        \* memory: completions to be repaired
    verified,       \* memory: was the ledger checked in this run for open repairs?
    event,          \* memory: is there a change to be announced?
    owed,           \* history: was there a change not announced yet?
    pass,           \* the pass: its step, the head, the first block and the logs
    faults

chain == <<blocks, tip>>
socket == <<notices, missed, late>>
ledger == <<rows, latest>>
projection == <<watermark, pending, lostAnchor, transport>>
announcing == <<event, owed>>
vars == <<chain, socket, ledger, projection, handled, cursor, removals, repairs, verified,
          announcing, pass, faults>>

Logs == GameLogs \cup OtherLogs
Base == 1                   \* the first block of the index
None == [hash |-> 0, current |-> FALSE]
NoRow == [hash |-> 0, removed |-> FALSE, repaired |-> TRUE]
Idle == [at |-> "idle", head |-> 0, from |-> Base, logs |-> {}]
NoLogs == [l \in Logs |-> 0]

Height(hash) == Len(blocks[hash].path)
Top == Max({Height(hash) : hash \in DOMAIN blocks})
HashAt(hash, height) == blocks[hash].path[height]
OnChain(hash, block) == Height(hash) <= Height(block) /\ HashAt(block, Height(hash)) = hash
Live(l) == rows[l].hash # 0 /\ ~rows[l].removed
Stands == watermark # None
Safe == Stands /\ watermark.current /\ pending = "none" /\ transport = "none"

Hashes == 0 .. MaxBlocks
Anchors == [hash : Hashes, current : BOOLEAN]

TypeOK ==
    /\ Len(blocks) \in 1 .. MaxBlocks /\ tip \in DOMAIN blocks
    /\ blocks \in Seq([path : Seq(Hashes), holds : [Logs -> Hashes]])
    /\ notices \cup missed \cup removals \subseteq Logs \X Hashes
    /\ late \subseteq Logs
    /\ rows \in [Logs -> [hash : Hashes, removed : BOOLEAN, repaired : BOOLEAN]]
    /\ latest \in Hashes /\ cursor \in -1 .. Top
    /\ watermark \in Anchors /\ lostAnchor \in Anchors
    /\ pending \in {"none", "anchorChanged", "headChanged", "removedLog", "reorg"}
    /\ transport \in {"none", "behind"}
    /\ handled \subseteq Logs /\ repairs \subseteq Completions
    /\ {verified, event, owed} \subseteq BOOLEAN
    /\ pass \in [at : {"idle", "head", "check", "fetch", "commit", "repair", "publish"},
                 head : Hashes, from : Base .. MaxBlocks, logs : SUBSET (Logs \X Hashes)]
    /\ faults \in 0 .. MaxFaults

Init ==
    /\ blocks = <<[path |-> <<1>>, holds |-> NoLogs]>> /\ tip = 1
    /\ notices = {} /\ missed = {} /\ late = {}
    /\ rows = [l \in Logs |-> NoRow] /\ latest = 0
    /\ watermark = None /\ lostAnchor = None /\ pending = "none" /\ transport = "none"
    /\ handled = {} /\ cursor = -1 /\ removals = {}
    /\ repairs = {} /\ verified = FALSE /\ event = FALSE /\ owed = FALSE
    /\ pass = Idle /\ faults = 0

Fault ==
    /\ faults < MaxFaults /\ Len(blocks) + faults < Budget       \* bound
    /\ faults' = faults + 1

-----------------------------------------------------------------------------
(* The chain *)

\* New blocks above a height of the present chain, one for each set of logs.
Branch(height, parts) ==
    LET fork == HashAt(tip, height)
        new(i) == Len(blocks) + i
        block(i) == [path |-> SubSeq(blocks[tip].path, 1, height) \o [j \in 1 .. i |-> new(j)],
                     holds |-> [l \in Logs |->
                         IF \E j \in 1 .. i : l \in parts[j]
                         THEN new(CHOOSE j \in 1 .. i : l \in parts[j]) ELSE blocks[fork].holds[l]]]
        known == {l \in Logs : \E h \in DOMAIN blocks : blocks[h].holds[l] # 0}
    IN  /\ \E logs \in Together : known \cup UNION ToSet(parts) \subseteq logs  \* bound
        /\ Len(blocks) + Len(parts) <= Min({MaxBlocks, Budget - faults})    \* bound
        /\ blocks' = blocks \o [i \in 1 .. Len(parts) |-> block(i)]
        /\ tip' = Len(blocks) + Len(parts)

Abandoned(old, new) ==
    {<<l, blocks[old].holds[l]>> : l \in {k \in Logs :
        LET h == blocks[old].holds[k] IN h # 0 /\ new.holds[k] # h}}

Open(height) == {l \in Logs : blocks[HashAt(tip, height)].holds[l] = 0}

Mine ==
    /\ \E part \in SUBSET Open(Height(tip)) : Branch(Height(tip), <<part>>)
    /\ late' = late \cup {l \in Logs :
           LET place == blocks[tip].holds[l]
           IN  /\ \E n \in notices \cup removals : n[1] = l
               /\ place # 0 /\ Height(place) <= Height(tip) + 1 - Overlap}
    /\ UNCHANGED <<notices, missed, ledger, projection, handled, cursor, removals, repairs, verified,
                   announcing, pass, faults>>

\* No deeper than the overlap: the depth for which the code fetches again.
Reorganise ==
    /\ \E depth \in 1 .. Overlap :
          LET height == Height(tip) - depth
          IN  /\ height >= 1
              /\ \E place \in [Open(height) -> 0 .. depth] :
                    Branch(height, [i \in 1 .. depth |-> {l \in Open(height) : place[l] = i}])
    /\ notices' = notices \cup Abandoned(tip, blocks'[tip'])
    /\ UNCHANGED <<missed, late, ledger, projection, handled, cursor, removals, repairs, verified,
                   announcing, pass, faults>>

\* The branch that was left comes back.  (Bound: between two passes.)
Return ==
    /\ pass = Idle
    /\ \E old \in DOMAIN blocks :
          /\ Height(old) >= Height(tip) /\ ~OnChain(old, tip)
          /\ tip' = old /\ notices' = notices \cup Abandoned(tip, blocks[old])
    /\ Fault
    /\ UNCHANGED <<blocks, missed, late, ledger, projection, handled, cursor, removals, repairs, verified,
                   announcing, pass>>

-----------------------------------------------------------------------------
(* The ledger *)

\* A log that is known stays as it is.  One that was removed comes back if it is
\* of a kind that is restored (settlements, completions, counts, missions, moons,
\* paid invites ...); any other, a renamed planet say, counts as known.
Added(row, l, hash) ==
    IF row = NoRow \/ (row.removed /\ l \in Restored)
    THEN [hash |-> hash, removed |-> FALSE, repaired |-> TRUE] ELSE row

\* Whatever block the notice is of.
Removed(row, l, hash) ==
    [hash |-> IF row = NoRow THEN hash ELSE row.hash, removed |-> TRUE,
     repaired |-> l \notin Completions]

Dirty(anchor) == [anchor EXCEPT !.current = FALSE]

\* The watermark falls.  The first reason stays; what a removed log
\* invalidates cannot be recovered.
Invalidate(cause) ==
    /\ watermark' = None
    /\ pending' = IF pending = "none" THEN cause ELSE pending
    /\ lostAnchor' = IF pending = "none" /\ Stands THEN [watermark EXCEPT !.current = TRUE]
                     ELSE lostAnchor

-----------------------------------------------------------------------------
(* The websocket *)

\* Providers may split the notices of a block over several calls.
Deliver ==
    /\ \E n \in notices : removals' = removals \cup {n} /\ notices' = notices \ {n}
    /\ UNCHANGED <<chain, missed, late, ledger, projection, handled, cursor, repairs, verified,
                   announcing, pass, faults>>

Miss ==
    /\ \E n \in notices : notices' = notices \ {n} /\ missed' = missed \cup {n}
    /\ Fault
    /\ UNCHANGED <<chain, late, ledger, projection, handled, cursor, removals, repairs, verified,
                   announcing, pass>>

\* The removals that arrived are applied one by one, outside of any batch and
\* of any pass, and a pass follows.  A failure of a handler loses those not applied yet.
DrainRemovals(done) ==
    LET removed == {r[1] : r \in done}
        hashOf(l) == (CHOOSE r \in done : r[1] = l)[2]
        unknown == {l \in removed : rows[l] = NoRow}
    IN  /\ rows' = [l \in Logs |-> IF l \in removed THEN Removed(rows[l], l, hashOf(l)) ELSE rows[l]]
        /\ latest' = Max({latest} \cup {Height(hashOf(l)) : l \in unknown})
        /\ watermark' = None
        /\ pending' = IF unknown # {} THEN "reorg" ELSE IF pending = "none" THEN "removedLog" ELSE pending
        /\ lostAnchor' = IF removed = {} THEN lostAnchor ELSE Dirty(lostAnchor)
        /\ handled' = handled \ removed
        /\ repairs' = repairs \cup (removed \cap Completions)
        /\ removals' = {}

Drain ==
    /\ removals # {} /\ pass = Idle
    /\ DrainRemovals(removals)
    /\ pass' = [Idle EXCEPT !.at = "head"]
    /\ UNCHANGED <<chain, socket, cursor, transport, verified, announcing, faults>>

DrainFails ==
    /\ removals # {} /\ pass = Idle
    /\ \E done \in SUBSET removals :
          DrainRemovals(done) /\ done # removals /\ missed' = missed \cup (removals \ done)
    /\ Fault
    /\ UNCHANGED <<chain, notices, late, cursor, transport, verified, announcing, pass>>

-----------------------------------------------------------------------------
(* The pass *)

\* Started by the timer, by a notice of new logs or after the drain, which
\* goes first.  The node may be behind.
ReadHead ==
    /\ pass.at = "head" \/ (pass = Idle /\ removals = {})
    /\ \/ pass' = [Idle EXCEPT !.at = "check", !.head = tip] /\ UNCHANGED faults
       \/ /\ Height(tip) > 1 /\ Fault
          /\ pass' = [Idle EXCEPT !.at = "check", !.head = HashAt(tip, Height(tip) - 1)]
    /\ UNCHANGED <<chain, socket, ledger, projection, handled, cursor, removals, repairs, verified,
                   announcing>>

InitialCursor == IF latest > 0 THEN latest ELSE Base - 1

\* Mutant of FirstBlock: the overlap reaches below the first block of the index.
FirstBlock_Unbounded(head, at) == Min({head, at}) - (Overlap - 1)

FirstBlock(head, at) ==
    IF at < Base THEN Base ELSE Max({Base, Min({head, at}) - (Overlap - 1)})

\* The watermark is still on the chain, or it falls.
CheckAnchor ==
    LET behind == Stands /\ Height(watermark.hash) > Height(pass.head)
        present == IF Height(watermark.hash) = Height(pass.head) THEN pass.head
                   ELSE HashAt(tip, Height(watermark.hash))
        start == IF cursor = -1 THEN InitialCursor ELSE cursor
    IN  /\ pass.at = "check"
        /\ \/ /\ behind /\ transport' = "behind" /\ pass' = Idle
              /\ UNCHANGED <<watermark, pending, lostAnchor, verified, cursor>>
           \/ /\ ~behind /\ UNCHANGED transport
              /\ IF Stands /\ present # watermark.hash
                 THEN Invalidate("anchorChanged") /\ verified' = FALSE
                 ELSE UNCHANGED <<watermark, pending, lostAnchor, verified>>
              /\ cursor' = start
              /\ pass' = [pass EXCEPT !.at = "fetch", !.from = FirstBlock(Height(pass.head), start)]
        /\ UNCHANGED <<chain, socket, ledger, handled, removals, repairs, announcing, faults>>

Fetch ==
    /\ pass.at = "fetch"
    /\ pass' = [pass EXCEPT !.at = "commit",
                   !.logs = {<<l, blocks[tip].holds[l]>> : l \in {k \in Logs :
                       LET h == blocks[tip].holds[k]
                       IN  h # 0 /\ Height(h) \in pass.from .. Height(pass.head)}}]
    /\ UNCHANGED <<chain, socket, ledger, projection, handled, cursor, removals, repairs, verified,
                   announcing, faults>>

\* Mutant of ReasonAfter: a removed log blocks for good.
ReasonAfter_Kept(recovered) == IF recovered THEN "none" ELSE pending

\* A complete scan settles what a removed log asked for.
ReasonAfter(recovered) == IF recovered \/ pending = "removedLog" THEN "none" ELSE pending

SameHead == HashAt(tip, Height(pass.head)) = pass.head

\* Records the head of the pass as the watermark, unless a row of a later
\* block is known.  The reasons that a complete scan settles are dropped, the
\* change is announced and the pass is over.
Publish(newest, changed, lost, news) ==
    LET recorded == newest <= Height(pass.head)
        recovered == /\ pending \in {"anchorChanged", "headChanged"}
                     /\ lost.current /\ OnChain(lost.hash, pass.head)
    IN  /\ watermark' = IF recorded THEN [hash |-> pass.head, current |-> TRUE] ELSE None
        /\ pending' = IF recorded THEN ReasonAfter(recovered) ELSE pending
        /\ lostAnchor' = IF recorded /\ recovered THEN None ELSE lost
        /\ transport' = IF recorded THEN "none" ELSE transport
        /\ event' = (news /\ ~recorded)
        /\ owed' = ((owed \/ changed) /\ ~(recorded /\ news))
        /\ pass' = Idle

\* The logs of the game in the range that the fetched ones do not show.
MissingLogs ==
    {l \in GameLogs : /\ Live(l) /\ Height(rows[l].hash) \in pass.from .. Height(pass.head)
                      /\ <<l, rows[l].hash>> \notin pass.logs}

\* A former process may have died between a removal and its repair.
UnfinishedRepairs == IF verified THEN {} ELSE {l \in Completions : rows[l].removed}

\* One transaction: rows, and the watermark if no repair is due.
Commit ==
    LET missing == MissingLogs
        new == {p \in pass.logs : p[1] \notin handled \ missing}
        retired == [l \in Logs |-> IF l \in missing THEN Removed(rows[l], l, 0) ELSE rows[l]]
        due == repairs \cup UnfinishedRepairs \cup (missing \cap Completions)
        newest == Max({latest} \cup {Height(p[2]) : p \in new})
        changed == rows' # rows
        lost == IF changed THEN Dirty(lostAnchor) ELSE lostAnchor
    IN  /\ pass.at = "commit" /\ SameHead
        /\ rows' = [l \in Logs |-> IF \E p \in new : p[1] = l
                                   THEN Added(retired[l], l, blocks[pass.head].holds[l]) ELSE retired[l]]
        /\ latest' = newest
        /\ handled' = (handled \ missing) \cup {p[1] : p \in pass.logs}
        /\ cursor' = Max({cursor, Height(pass.head)})
        /\ \/ /\ due = {} /\ verified' = TRUE /\ UNCHANGED repairs
              /\ Publish(newest, changed, lost, event \/ changed)
           \/ /\ due # {} /\ repairs' = due
              /\ watermark' = IF changed THEN Dirty(watermark) ELSE watermark
              /\ lostAnchor' = lost
              /\ event' = (event \/ changed) /\ owed' = (owed \/ changed)
              /\ pass' = [pass EXCEPT !.at = "repair"]
              /\ UNCHANGED <<pending, transport, verified>>
        /\ UNCHANGED <<chain, socket, removals, faults>>

\* Canonical reads settle what the removed completions had done.
Repair ==
    /\ pass.at = "repair"
    /\ rows' = [l \in Logs |-> IF l \in repairs THEN [rows[l] EXCEPT !.repaired = TRUE] ELSE rows[l]]
    /\ repairs' = {} /\ pass' = [pass EXCEPT !.at = "publish"]
    /\ UNCHANGED <<chain, socket, latest, projection, handled, cursor, removals, verified, announcing,
                   faults>>

PublishRepaired ==
    /\ pass.at = "publish" /\ SameHead
    /\ verified' = TRUE /\ Publish(latest, FALSE, lostAnchor, event)
    /\ UNCHANGED <<chain, socket, ledger, handled, cursor, removals, repairs, faults>>

\* What was fetched or repaired is not of the head any more.
HeadChanged ==
    /\ pass.at \in {"commit", "publish"} /\ ~SameHead
    /\ Invalidate("headChanged") /\ pass' = Idle
    /\ UNCHANGED <<chain, socket, ledger, transport, handled, cursor, removals, repairs, verified,
                   announcing, faults>>

\* Mutant of RolledBack: the memory keeps what the transaction lost.
RolledBack_Kept(applied) == handled \cup applied

\* The memory after a batch that failed when it had applied these.
RolledBack(applied) == handled

\* A call of the node fails, or a handler in the transaction.
PassFails ==
    /\ pass # Idle /\ pass' = Idle /\ Fault
    /\ handled' = RolledBack({p[1] : p \in pass.logs})
    /\ UNCHANGED <<chain, socket, ledger, projection, cursor, removals, repairs, verified, announcing>>

\* Notices of what happens while the process is down come to no one.
Crash ==
    /\ Fault
    /\ missed' = missed \cup notices \cup removals /\ notices' = {}
    /\ handled' = {} /\ cursor' = -1 /\ removals' = {}
    /\ repairs' = {} /\ verified' = FALSE /\ event' = FALSE /\ owed' = FALSE /\ pass' = Idle
    /\ UNCHANGED <<chain, late, ledger, projection>>

PassStep == \/ ReadHead \/ CheckAnchor \/ Fetch \/ Commit \/ Repair
            \/ PublishRepaired \/ HeadChanged

Next ==
    \/ Mine \/ Reorganise \/ Return \/ Deliver \/ Miss \/ Drain \/ DrainFails
    \/ PassStep \/ PassFails \/ Crash

\* The timer polls on, and a notice wakes the drain.
Spec == Init /\ [][Next]_vars /\ WF_vars(PassStep) /\ WF_vars(Drain)

-----------------------------------------------------------------------------
(* Properties *)

\* What is served is what the chain of the watermark holds.  Every log that it
\* holds has a row, which is live if the indexer restores logs of its kind and no
\* notice of it came after its place had left the overlap.  A live log of the
\* game is where the chain holds it, and one of another contract too, unless its
\* removal was not told.  No repair of a removed completion is open.
SafeIsExact ==
    Safe => LET held == blocks[watermark.hash].holds
            IN  /\ \A l \in Logs : held[l] # 0 =>
                      rows[l] # NoRow /\ (l \in Restored \ late => Live(l))
                /\ \A l \in GameLogs : Live(l) => rows[l].hash = held[l]
                /\ \A l \in OtherLogs : Live(l) /\ rows[l].hash # held[l] =>
                      <<l, rows[l].hash>> \in notices \cup removals \cup missed
                /\ \A l \in Completions : rows[l].removed => rows[l].repaired

\* When the chain rests, the projection is served again or asks for a
\* reconciliation, and every change that was committed has been announced:
\* neither a removal notice nor a failed pass blocks or silences it for good.
Settles == []<>(~owed /\ (Safe \/ pending \in {"anchorChanged", "headChanged", "reorg"}))

=============================================================================
