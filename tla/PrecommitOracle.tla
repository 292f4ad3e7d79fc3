-------------------------- MODULE PrecommitOracle --------------------------
(***************************************************************************)
(* What the randomness oracle promises the game, with no inventory, roles, *)
(* pauses or switches: every request is either bound, for good, to a       *)
(* commitment posted in a strictly earlier block that no other request was *)
(* or will be bound to, or openly asks for any word; its reveal matches    *)
(* its binding; a gated request is always bound, and revealed only after   *)
(* it was sealed.  Only an ungated request may be bound anew, to a fresh   *)
(* commitment that must then wait for the next block.                      *)
(***************************************************************************)
EXTENDS Naturals

CONSTANTS Words, Requests, Commitment(_), NoWord, Open, Unbound

Commitments == {Commitment(w) : w \in Words}

VARIABLES
    now,        \* the block number
    posted,     \* the block each commitment was posted in, 0 before
    spent,      \* the commitments that were ever bound to a request
    bound,      \* the commitment of each request, Open, or Unbound
    gated, sealed,  \* the requests whose reveal waits for a seal, has one
    word        \* the revealed words

vars == <<now, posted, spent, bound, gated, sealed, word>>

Init ==
    /\ now = 1
    /\ posted = [c \in Commitments |-> 0]
    /\ spent = {}
    /\ bound = [r \in Requests |-> Unbound]
    /\ gated = {}
    /\ sealed = {}
    /\ word = [r \in Requests |-> NoWord]

Tick == now' = now + 1 /\ UNCHANGED <<posted, spent, bound, gated, sealed, word>>

Post(S) ==
    /\ \A c \in S : posted[c] = 0
    /\ posted' = [c \in Commitments |-> IF c \in S THEN now ELSE posted[c]]
    /\ UNCHANGED <<now, spent, bound, gated, sealed, word>>

\* A request takes a commitment nobody had, posted in an earlier block.
Bind(r, c, g) ==
    /\ bound[r] = Unbound
    /\ 0 < posted[c] /\ posted[c] < now
    /\ c \notin spent
    /\ bound' = [bound EXCEPT ![r] = c]
    /\ spent' = spent \cup {c}
    /\ gated' = IF g THEN gated \cup {r} ELSE gated
    /\ UNCHANGED <<now, posted, sealed, word>>

AskOpenly(r) ==
    /\ bound[r] = Unbound
    /\ bound' = [bound EXCEPT ![r] = Open]
    /\ UNCHANGED <<now, posted, spent, gated, sealed, word>>

\* The binding of an unanswered, ungated request is replaced.
Rebind(r, c) ==
    /\ bound[r] # Unbound /\ word[r] = NoWord
    /\ r \notin gated
    /\ posted[c] = 0
    /\ posted' = [posted EXCEPT ![c] = now]
    /\ bound' = [bound EXCEPT ![r] = c]
    /\ spent' = spent \cup {c}
    /\ UNCHANGED <<now, gated, sealed, word>>

Seal(r) ==
    /\ r \in gated
    /\ sealed' = sealed \cup {r}
    /\ UNCHANGED <<now, posted, spent, bound, gated, word>>

Reveal(r, w) ==
    /\ word[r] = NoWord
    /\ r \in gated => r \in sealed
    /\ \/ bound[r] = Open
       \/ bound[r] = Commitment(w) /\ posted[bound[r]] < now
    /\ word' = [word EXCEPT ![r] = w]
    /\ UNCHANGED <<now, posted, spent, bound, gated, sealed>>

Next ==
    \/ Tick
    \/ \E S \in SUBSET Commitments : Post(S)
    \/ \E r \in Requests, c \in Commitments, g \in BOOLEAN : Bind(r, c, g)
    \/ \E r \in Requests : AskOpenly(r)
    \/ \E r \in Requests, c \in Commitments : Rebind(r, c)
    \/ \E r \in Requests : Seal(r)
    \/ \E r \in Requests, w \in Words : Reveal(r, w)

Spec == Init /\ [][Next]_vars

=============================================================================
