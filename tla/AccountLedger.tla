---------------------------- MODULE AccountLedger ----------------------------
(***************************************************************************)
(* What paid work may rely on when it spends the balance of an account: a  *)
(* balance is read once, offered once and, once forgotten, never offered   *)
(* again; a video borrows from an offered balance no more than it has left *)
(* after all that was spent and lent on the strength of it.  Runtime's     *)
(* counters, connections and refreshes are AccountCredits', which          *)
(* implements this ledger.                                                 *)
(***************************************************************************)
EXTENDS Naturals, FiniteSets

CONSTANTS Videos, Cost, Balance

VARIABLES
    state,    \* of each balance: unread, fetched, offered or gone
    amount,   \* what Google Flow said it is, 0 before it is read
    spent,    \* credits of the requests sent on the strength of it
    lender    \* the balance a video has borrowed from and not spent yet, or 0

vars == <<state, amount, spent, lender>>

Init ==
    /\ state = [b \in Balance |-> "unread"]
    /\ amount = [b \in Balance |-> 0]
    /\ spent = [b \in Balance |-> 0]
    /\ lender = [v \in Videos |-> 0]

Move(b, from, to) == state[b] \in from /\ state'[b] = to

Read(b)  == Move(b, {"unread"}, "fetched") /\ amount'[b] \in Nat
Offer(b) == Move(b, {"fetched"}, "offered") /\ amount'[b] = amount[b]
Drop(b)  == Move(b, {"fetched", "offered"}, "gone") /\ amount'[b] = amount[b]
Keep(b)  == state'[b] = state[b] /\ amount'[b] = amount[b]

\* One event may move several balances: a new one replaces the one on offer, a
\* session that ends drops what it showed and what was asked for it.
Moves ==
    /\ UNCHANGED <<spent, lender>>
    /\ \A b \in Balance : Keep(b) \/ Read(b) \/ Offer(b) \/ Drop(b)

Credits(S) == Cardinality(UNION {{v} \X (1..Cost[v]) : v \in S})
Borrowers(b) == {v \in Videos : lender[v] = b}

\* What is lent and what was spent fits into the balance.
Lend(v, b) ==
    /\ state[b] = "offered" /\ lender[v] = 0
    /\ spent[b] + Credits(Borrowers(b) \cup {v}) <= amount[b]
    /\ lender' = [lender EXCEPT ![v] = b]
    /\ UNCHANGED <<state, amount, spent>>

\* Credits that were not spent come back, spent ones never do.
Return(v) ==
    /\ lender[v] # 0
    /\ lender' = [lender EXCEPT ![v] = 0]
    /\ UNCHANGED <<state, amount, spent>>

Spend(v) ==
    /\ lender[v] # 0
    /\ lender' = [lender EXCEPT ![v] = 0]
    /\ spent' = [spent EXCEPT ![lender[v]] = @ + Cost[v]]
    /\ UNCHANGED <<state, amount>>

Next ==
    \/ Moves
    \/ \E v \in Videos : Return(v) \/ Spend(v) \/ \E b \in Balance : Lend(v, b)

Spec == Init /\ [][Next]_vars
=============================================================================
