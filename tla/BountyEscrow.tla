---------------------------- MODULE BountyEscrow ----------------------------
(***************************************************************************)
(* What the request economy promises, with no transaction, lock or stale   *)
(* read in sight: a bounty leaves its backer's balance and is held by the  *)
(* request, the whole pot is paid to one payee, taken back from that same  *)
(* payee, or refunded to the backers, and each of these happens at once.   *)
(* RequestEscrow implements it.                                            *)
(***************************************************************************)
EXTENDS Integers, Sums

CONSTANTS Members, Requests, Opening, Amounts, None

VARIABLES balance,  \* per member, what is left to spend; a take-back may overdraw
          stake,    \* per request and backer, what is held or was paid out
          outcome,  \* per request
          payee     \* per request, whom the pot was paid to

vars == <<balance, stake, outcome, payee>>

Outcomes == {"unknown", "open", "paid", "refunded", "closed"}

Init ==
    /\ balance = Opening
    /\ stake = [r \in Requests |-> [u \in Members |-> 0]]
    /\ outcome = [r \in Requests |-> "unknown"]
    /\ payee = [r \in Requests |-> None]

\* u backs r, which is new or open, with bytes they have.
Back(u, r, a) ==
    /\ outcome[r] \in {"unknown", "open"}
    /\ balance[u] >= a
    /\ balance' = [balance EXCEPT ![u] = @ - a]
    /\ stake' = [stake EXCEPT ![r][u] = @ + a]
    /\ outcome' = [outcome EXCEPT ![r] = "open"]
    /\ UNCHANGED payee

Pay(u, r) ==
    /\ outcome[r] = "open"
    /\ balance' = [balance EXCEPT ![u] = @ + Total(stake[r])]
    /\ outcome' = [outcome EXCEPT ![r] = "paid"]
    /\ payee' = [payee EXCEPT ![r] = u]
    /\ UNCHANGED stake

TakeBack(r) ==
    /\ outcome[r] = "paid"
    /\ balance' = [balance EXCEPT ![payee[r]] = @ - Total(stake[r])]
    /\ outcome' = [outcome EXCEPT ![r] = "open"]
    /\ payee' = [payee EXCEPT ![r] = None]
    /\ UNCHANGED stake

Refund(r) ==
    /\ outcome[r] = "open"
    /\ balance' = [u \in Members |-> balance[u] + stake[r][u]]
    /\ outcome' = [outcome EXCEPT ![r] = "refunded"]
    /\ UNCHANGED <<stake, payee>>

\* A paid request may be closed; its pot stays paid.
Close(r) ==
    /\ outcome[r] = "paid"
    /\ outcome' = [outcome EXCEPT ![r] = "closed"]
    /\ UNCHANGED <<balance, stake, payee>>

Next ==
    \E r \in Requests :
        \/ \E u \in Members : Pay(u, r) \/ \E a \in Amounts : Back(u, r, a)
        \/ TakeBack(r) \/ Refund(r) \/ Close(r)

Spec == Init /\ [][Next]_vars
=============================================================================
