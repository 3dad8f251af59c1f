--------------------------- MODULE Invites_proofs ---------------------------
(***************************************************************************)
(* Invites for any finite sets of members and addresses, any number of     *)
(* requests in flight, any grant size, cap, lifetime and bounds: the types *)
(* (no balance goes below zero), that no invite is made or lost, that the  *)
(* tree names the inviters of the invites that were used, that a cancelled *)
(* invite holds its address and that no grant passes the cap.              *)
(***************************************************************************)
EXTENDS Invites, Sums_proofs

(***************************************************************************)
(* The strengthening: a row has a sender, a request in flight names a      *)
(* member, an address and a past instant, and the key a registration has   *)
(* read is not newer than the row's and, while it is the row's, was sent   *)
(* by the inviter the registration has read.                               *)
(***************************************************************************)
RowsHaveSenders == \A a \in Addresses : invite[a].status # "none" => invite[a].inviter \in Members

KeyNamesSender(x) ==
    x.op = "register" /\ x.by # None =>
        /\ x.key <= invite[x.address].key
        /\ x.key = invite[x.address].key => invite[x.address].inviter = x.by

Formed(x) ==
    /\ x.op \in {"send", "recount"} => x.by \in Members
    /\ x.op \in {"send", "register"} => x.address \in Addresses
    /\ x.op = "send" => x.now <= clock

RequestsFormed == \A s \in Requests : Formed(req[s]) /\ KeyNamesSender(req[s])

IInv ==
    TypeOK /\ RowsHaveSenders /\ RequestsFormed /\ TreeFollowsInvites /\ InvitesConserved

\* What a step may do, as the two action properties state it.
HoldsAddress ==
    \A a \in Addresses :
        invite[a].status = "cancelled" /\ invite'[a] # invite[a] => invite[a].expires <= clock

KeepsToCap ==
    \A u \in Members :
        inviteCount'[u] > inviteCount[u] /\ inviteCount'[u] > grants.cap
        => EditedByStaff(u) \/ \E a \in Addresses : Pending(a) /\ invite'[a] # invite[a]

Moves == HoldsAddress /\ KeepsToCap

-----------------------------------------------------------------------------
(* The books.                                                              *)

IsPaid(row) == row.status \in {"pending", "accepted"} /\ row.spent

\* Rewriting one row moves the number of paid invites by that row alone.
LEMMA PaidOutMoves ==
  ASSUME invite \in [Addresses -> InviteRows], NEW a \in Addresses, NEW row \in InviteRows,
         invite' = [invite EXCEPT ![a] = row]
  PROVE  /\ Cardinality(PaidOut) \in Nat
         /\ Cardinality(PaidOut') = Cardinality(PaidOut) - (IF IsPaid(invite[a]) THEN 1 ELSE 0)
                                                         + (IF IsPaid(row) THEN 1 ELSE 0)
  <1> DEFINE Others == PaidOut \ {a}
  <1>1. IsFiniteSet(PaidOut)
    <2>1. PaidOut \in SUBSET Addresses
      BY DEF PaidOut
    <2> QED BY <2>1, FiniteAddresses, FS_Subset
  <1>2. PaidOut = IF IsPaid(invite[a]) THEN Others \cup {a} ELSE Others
    BY DEF PaidOut, IsPaid
  <1>3. PaidOut' = IF IsPaid(row) THEN Others \cup {a} ELSE Others
    BY DEF PaidOut, IsPaid
  <1>4. IsFiniteSet(Others) /\ a \notin Others
    BY <1>1, FS_RemoveElement
  <1> HIDE DEF Others
  <1>5. Cardinality(Others \cup {a}) = Cardinality(Others) + 1
    BY <1>4, FS_AddElement
  <1>6. Cardinality(Others) \in Nat
    BY <1>4, FS_CardinalityType
  <1> QED BY <1>2, <1>3, <1>5, <1>6

\* A refund raises the total by one when the invite was a spent one.
LEMMA RefundRaises ==
  ASSUME TypeOK, NEW a \in Addresses, NEW m \in Members
  PROVE  /\ Refund(a, m) \in [Members -> Nat]
         /\ Total(inviteCount) \in Nat
         /\ Total(Refund(a, m)) = Total(inviteCount) + (IF invite[a].spent THEN 1 ELSE 0)
         /\ \A u \in Members : Refund(a, m)[u] >= inviteCount[u]
  <1>1. inviteCount \in [Members -> Nat] /\ invite[a].spent \in BOOLEAN
    BY DEF TypeOK, InviteRows
  <1>2. Total(inviteCount) \in Nat
    BY <1>1, FiniteMembers, TotalType
  <1>3. CASE invite[a].spent
    <2>1. Refund(a, m) = [inviteCount EXCEPT ![m] = inviteCount[m] + 1]
      BY <1>1, <1>3 DEF Refund
    <2>2. inviteCount[m] \in Nat /\ inviteCount[m] + 1 \in Nat
      BY <1>1
    <2>3. \A n \in Nat : Total([inviteCount EXCEPT ![m] = n])
                            = Total(inviteCount) - inviteCount[m] + n
      BY <1>1, FiniteMembers, TotalSet
    <2>4. Total(Refund(a, m)) = Total(inviteCount) - inviteCount[m] + (inviteCount[m] + 1)
      BY <2>1, <2>2, <2>3, Zenon
    <2>5. Refund(a, m) \in [Members -> Nat] /\ \A u \in Members : Refund(a, m)[u] >= inviteCount[u]
      BY <1>1, <2>1, <2>2
    <2> QED BY <1>2, <1>3, <2>2, <2>4, <2>5
  <1>4. CASE ~invite[a].spent
    BY <1>1, <1>2, <1>4 DEF Refund
  <1> QED BY <1>3, <1>4

-----------------------------------------------------------------------------
(* Requests in flight.                                                     *)

LEMMA IdleIsFormed == Idle \in RequestStates /\ Formed(Idle) /\ KeyNamesSender(Idle)
  BY DEF Idle, RequestStates, Formed, KeyNamesSender

\* Replacing one request by a formed one keeps them all so.
LEMMA ReplaceRequest ==
  ASSUME req \in [Requests -> RequestStates], RequestsFormed, NEW s \in Requests,
         NEW x \in RequestStates, Formed(x), KeyNamesSender(x),
         req' = [req EXCEPT ![s] = x], UNCHANGED <<clock, invite>>
  PROVE  req' \in [Requests -> RequestStates] /\ RequestsFormed'
  <1>1. req' \in [Requests -> RequestStates]
    OBVIOUS
  <1>2. ASSUME NEW r \in Requests
        PROVE  (Formed(req[r]) /\ KeyNamesSender(req[r]))'
    <2>1. CASE r = s
      <3>1. req'[r] = x
        BY <2>1
      <3> QED BY <3>1 DEF Formed, KeyNamesSender
    <2>2. CASE r # s
      <3>1. req'[r] = req[r]
        BY <2>2
      <3> QED BY <3>1 DEF RequestsFormed, Formed, KeyNamesSender
    <2> QED BY <2>1, <2>2
  <1> QED BY <1>1, <1>2, Zenon DEF RequestsFormed

\* A step that ends one request and rewrites one row without touching its key
\* and its inviter, or gives it a new key, keeps what the others know true.
LEMMA RewriteRow ==
  ASSUME req \in [Requests -> RequestStates], RequestsFormed,
         invite \in [Addresses -> InviteRows], NEW a \in Addresses, NEW row \in InviteRows,
         invite' = [invite EXCEPT ![a] = row], UNCHANGED clock,
         \/ row.key = invite[a].key /\ row.inviter = invite[a].inviter
         \/ row.key = invite[a].key + 1,
         \A r \in Requests : req'[r] = req[r] \/ req'[r] = Idle
  PROVE  RequestsFormed'
  <1> SUFFICES ASSUME NEW r \in Requests
               PROVE  (Formed(req[r]) /\ KeyNamesSender(req[r]))'
    BY Zenon DEF RequestsFormed
  <1>1. CASE req'[r] = Idle
    BY <1>1 DEF Idle, Formed, KeyNamesSender
  <1>2. CASE req'[r] = req[r]
    <2>1. Formed(req[r]) /\ KeyNamesSender(req[r]) /\ req[r].key \in Nat
      BY DEF RequestsFormed, RequestStates
    <2>2. Formed(req[r])'
      BY <1>2, <2>1 DEF Formed
    <2>3. KeyNamesSender(req[r])'
      <3> SUFFICES ASSUME req[r].op = "register", req[r].by # None
                   PROVE  /\ req[r].key <= invite'[req[r].address].key
                          /\ req[r].key = invite'[req[r].address].key
                             => invite'[req[r].address].inviter = req[r].by
        BY <1>2 DEF KeyNamesSender
      <3>1. req[r].address \in Addresses
        BY <2>1 DEF Formed
      <3>2. CASE req[r].address # a
        BY <2>1, <3>1, <3>2 DEF KeyNamesSender
      <3>3. CASE req[r].address = a
        <4>1. invite'[a] = row /\ invite[a].key \in Nat
          BY DEF InviteRows
        <4> QED BY <2>1, <3>3, <4>1 DEF KeyNamesSender
      <3> QED BY <3>2, <3>3
    <2> QED BY <2>2, <2>3
  <1> QED BY <1>1, <1>2
\* A step that touches no row and no request in flight keeps what they know.
LEMMA KeepRequests ==
  ASSUME RequestsFormed, TypeOK, clock' \in Nat, clock' >= clock, UNCHANGED <<req, invite>>
  PROVE  RequestsFormed'
  <1> SUFFICES ASSUME NEW r \in Requests
               PROVE  (Formed(req[r]) /\ KeyNamesSender(req[r]))'
    BY Zenon DEF RequestsFormed
  <1>1. Formed(req[r]) /\ KeyNamesSender(req[r]) /\ req[r].now \in Nat /\ clock \in Nat
    BY DEF RequestsFormed, TypeOK, RequestStates
  <1> QED BY <1>1 DEF Formed, KeyNamesSender

-----------------------------------------------------------------------------
(* Kinds of step.                                                          *)

\* A step that leaves the books, the rows and the tree alone.
LEMMA QuietStep ==
  ASSUME IInv, TypeOK', RequestsFormed',
         UNCHANGED <<inviteCount, handedOut, invite, registered, tree>>
  PROVE  IInv' /\ Moves
  <1>1. RowsHaveSenders' /\ TreeFollowsInvites'
    BY DEF IInv, RowsHaveSenders, TreeFollowsInvites
  <1>2. InvitesConserved'
    BY DEF IInv, InvitesConserved, PaidOut
  <1>3. HoldsAddress
    BY DEF HoldsAddress
  <1>4. KeepsToCap
    BY DEF KeepsToCap, IInv, TypeOK
  <1> QED BY <1>1, <1>2, <1>3, <1>4 DEF IInv, Moves

\* A step of a request that only reads, or that ends it with nothing written.
LEMMA RequestStep ==
  ASSUME IInv, NEW s \in Requests, NEW x \in RequestStates, Formed(x), KeyNamesSender(x),
         req' = [req EXCEPT ![s] = x],
         UNCHANGED <<clock, userVars, invite, registered, tree, sweep, grants>>
  PROVE  IInv' /\ Moves
  <1>1. req \in [Requests -> RequestStates] /\ RequestsFormed
    BY DEF IInv, TypeOK
  <1>2. req' \in [Requests -> RequestStates] /\ RequestsFormed'
    BY <1>1, ReplaceRequest
  <1>3. TypeOK'
    BY <1>2 DEF IInv, TypeOK, userVars
  <1> QED BY <1>2, <1>3, QuietStep DEF userVars

\* A pending invite ends unused and is paid back to a member.
LEMMA RefundStep ==
  ASSUME IInv, NEW a \in Addresses, NEW m \in Members, NEW st \in {"expired", "cancelled"},
         Pending(a), invite' = [invite EXCEPT ![a].status = st], inviteCount' = Refund(a, m),
         sweep' \in [now : Nat, rows : SUBSET (Addresses \X Members)],
         UNCHANGED <<clock, canInvite, disabled, handedOut, registered, tree, req, grants>>
  PROVE  IInv' /\ Moves
  <1> DEFINE row == [invite[a] EXCEPT !.status = st]
  <1>1. invite \in [Addresses -> InviteRows] /\ invite[a] \in InviteRows
        /\ req \in [Requests -> RequestStates] /\ handedOut \in Int
    BY DEF IInv, TypeOK
  <1>2. /\ row \in InviteRows /\ row.status = st /\ row.key = invite[a].key
        /\ row.inviter = invite[a].inviter /\ row.spent = invite[a].spent
    BY <1>1 DEF InviteRows
  <1>3. invite' = [invite EXCEPT ![a] = row]
    BY <1>1
  <1> HIDE DEF row
  <1>4. RequestsFormed'
    BY <1>1, <1>2, <1>3, RewriteRow DEF IInv
  <1>5. /\ inviteCount' \in [Members -> Nat] /\ Total(inviteCount) \in Nat
        /\ Total(inviteCount') = Total(inviteCount) + (IF invite[a].spent THEN 1 ELSE 0)
    BY RefundRaises DEF IInv
  <1>6. TypeOK'
    BY <1>1, <1>2, <1>3, <1>5 DEF IInv, TypeOK
  <1>7. RowsHaveSenders' /\ TreeFollowsInvites'
    BY <1>1, <1>2, <1>3 DEF IInv, RowsHaveSenders, TreeFollowsInvites, Pending
  <1>8. InvitesConserved'
    <2>1. /\ Cardinality(PaidOut) \in Nat
          /\ Cardinality(PaidOut') = Cardinality(PaidOut) - (IF IsPaid(invite[a]) THEN 1 ELSE 0)
                                                         + (IF IsPaid(row) THEN 1 ELSE 0)
      BY <1>1, <1>2, <1>3, PaidOutMoves
    <2>2. ~IsPaid(row) /\ (IsPaid(invite[a]) <=> invite[a].spent)
      BY <1>2 DEF IsPaid, Pending
    <2>3. Total(inviteCount) + Cardinality(PaidOut) = handedOut
      BY DEF IInv, InvitesConserved
    <2>4. Total(inviteCount') + Cardinality(PaidOut') = handedOut
      BY <1>1, <1>5, <2>1, <2>2, <2>3
    <2> QED BY <2>4 DEF InvitesConserved
  <1>9. Moves
    <2>1. invite'[a] # invite[a]
      BY <1>1, <1>2, <1>3 DEF Pending
    <2>2. KeepsToCap
      BY <2>1 DEF KeepsToCap
    <2>3. HoldsAddress
      BY <1>1, <1>3 DEF HoldsAddress, Pending
    <2> QED BY <2>2, <2>3 DEF Moves
  <1> QED BY <1>4, <1>6, <1>7, <1>8, <1>9 DEF IInv

-----------------------------------------------------------------------------
(* The actions.                                                            *)

LEMMA SendReadStep ==
  ASSUME IInv, NEW s \in Requests, NEW u \in Members, NEW a \in Addresses,
         NEW unlimited \in BOOLEAN, SendRead(s, u, a, unlimited)
  PROVE  IInv' /\ Moves
  <1> DEFINE x == [Idle EXCEPT !.op = "send", !.by = u, !.address = a,
                               !.from = invite[a].inviter, !.now = clock, !.flag = unlimited]
  <1>1. /\ x \in RequestStates /\ x.op = "send" /\ x.by = u /\ x.address = a /\ x.now = clock
    BY DEF IInv, TypeOK, InviteRows, Idle, RequestStates
  <1>2. req' = [req EXCEPT ![s] = x]
        /\ UNCHANGED <<clock, userVars, invite, registered, tree, sweep, grants>>
    BY DEF SendRead
  <1>3. Formed(x) /\ KeyNamesSender(x)
    BY <1>1 DEF IInv, TypeOK, Formed, KeyNamesSender
  <1> HIDE DEF x
  <1> QED BY <1>1, <1>2, <1>3, RequestStep

LEMMA RecountReadStep ==
  ASSUME IInv, NEW s \in Requests, NEW u \in Moderated, RecountRead(s, u)
  PROVE  IInv' /\ Moves
  <1> DEFINE x == [Idle EXCEPT !.op = "recount", !.by = u, !.key = inviteCount[u]]
  <1>1. x \in RequestStates /\ x.op = "recount" /\ x.by = u /\ u \in Members
    BY ModeratedAreMembers DEF IInv, TypeOK, Idle, RequestStates
  <1>2. req' = [req EXCEPT ![s] = x]
        /\ UNCHANGED <<clock, userVars, invite, registered, tree, sweep, grants>>
    BY DEF RecountRead
  <1>3. Formed(x) /\ KeyNamesSender(x)
    BY <1>1 DEF Formed, KeyNamesSender
  <1> HIDE DEF x
  <1> QED BY <1>1, <1>2, <1>3, RequestStep

\* The key registration reads is the row's, and so is its inviter.
LEMMA RegisterReadStep ==
  ASSUME IInv, NEW s \in Requests, NEW a \in Addresses, NEW open \in BOOLEAN,
         NEW presented \in BOOLEAN, RegisterRead(s, a, open, presented)
  PROVE  IInv' /\ Moves
  <1> DEFINE x == [Idle EXCEPT !.op = "register", !.address = a, !.flag = open,
                               !.by = IF presented THEN invite[a].inviter ELSE None,
                               !.key = IF presented THEN invite[a].key ELSE 0]
  <1>1. invite[a].inviter \in Members \cup {None} /\ invite[a].key \in Nat
    BY DEF IInv, TypeOK, InviteRows
  <1>2. /\ x \in RequestStates /\ x.op = "register" /\ x.address = a
        /\ x.by = IF presented THEN invite[a].inviter ELSE None
        /\ x.key = IF presented THEN invite[a].key ELSE 0
    BY <1>1 DEF Idle, RequestStates
  <1>3. req' = [req EXCEPT ![s] = x]
        /\ UNCHANGED <<clock, userVars, invite, registered, tree, sweep, grants>>
    BY DEF RegisterRead
  <1>4. Formed(x) /\ KeyNamesSender(x)
    BY <1>1, <1>2 DEF Formed, KeyNamesSender
  <1> HIDE DEF x
  <1> QED BY <1>2, <1>3, <1>4, RequestStep

LEMMA RefusedStep ==
  ASSUME IInv, NEW s \in Requests, Refused(s)
  PROVE  IInv' /\ Moves
  BY IdleIsFormed, RequestStep DEF Refused, Done
\* A lapsed row is expired and its address re-invited, or a free one is taken.
LEMMA SendWriteStep ==
  ASSUME IInv, NEW s \in Requests, SendWrite(s)
  PROVE  IInv' /\ Moves
  <1> DEFINE u == req[s].by
             a == req[s].address
             now == req[s].now
             unlimited == req[s].flag
             claimed == req[s].from # None /\ ExpiryClaims(a, now)
             balance == IF claimed THEN Refund(a, req[s].from) ELSE inviteCount
             row == [status |-> "pending", inviter |-> u, key |-> invite[a].key + 1,
                     expires |-> now + Lifetime, spent |-> ~unlimited]
  <1>1. /\ u \in Members /\ a \in Addresses /\ now \in Nat /\ now <= clock
        /\ unlimited \in BOOLEAN /\ req[s].from \in Members \cup {None}
    BY DEF IInv, TypeOK, RequestsFormed, Formed, RequestStates, SendWrite
  <1>2. /\ IF req[s].from = None THEN invite[a].status = "none" ELSE claimed \/ Reusable(a, now)
        /\ canInvite[u] /\ (unlimited \/ balance[u] > 0)
        /\ inviteCount' = [balance EXCEPT ![u] = IF unlimited THEN @ ELSE @ - 1]
        /\ invite' = [invite EXCEPT ![a] = [status |-> "pending", inviter |-> u, key |-> @.key + 1,
                                            expires |-> now + Lifetime, spent |-> ~unlimited]]
        /\ req' = [req EXCEPT ![s] = Idle]
        /\ UNCHANGED <<clock, canInvite, disabled, handedOut, registered, tree, sweep, grants>>
    BY DEF SendWrite, MaySpend, Done
  <1>3. /\ invite \in [Addresses -> InviteRows] /\ invite[a] \in InviteRows
        /\ req \in [Requests -> RequestStates] /\ handedOut \in Int
        /\ inviteCount \in [Members -> Nat] /\ invite[a].key \in Nat /\ invite[a].expires \in Nat
        /\ invite[a].spent \in BOOLEAN /\ clock \in Nat /\ clock' = clock
    BY <1>1, <1>2 DEF IInv, TypeOK, InviteRows
  <1>4. claimed => Pending(a) /\ req[s].from \in Members
    BY <1>1 DEF ExpiryClaims, LapsedPending
  <1>5. ~claimed => /\ invite[a].status \in {"none", "expired", "cancelled"}
                    /\ invite[a].status = "cancelled" => invite[a].expires <= now
    BY <1>2 DEF Reusable
  <1>6. /\ row \in InviteRows /\ row.status = "pending" /\ row.inviter = u
        /\ row.key = invite[a].key + 1 /\ row.spent = ~unlimited
    BY <1>1, <1>3, LifetimeIsPositive DEF InviteRows
  <1>7. invite' = [invite EXCEPT ![a] = row]
    BY <1>1, <1>2, <1>3
  <1>8. /\ balance \in [Members -> Nat]
        /\ Total(inviteCount) \in Nat
        /\ Total(balance) = Total(inviteCount) + (IF claimed /\ invite[a].spent THEN 1 ELSE 0)
    <2>1. \A m \in Members :
              /\ Refund(a, m) \in [Members -> Nat] /\ Total(inviteCount) \in Nat
              /\ Total(Refund(a, m)) = Total(inviteCount) + (IF invite[a].spent THEN 1 ELSE 0)
      BY <1>1, RefundRaises DEF IInv
    <2>2. CASE claimed
      BY <1>4, <2>1, <2>2
    <2>3. CASE ~claimed
      BY <1>1, <1>3, <2>1, <2>3
    <2> QED BY <2>2, <2>3
  <1>9. ~claimed => balance = inviteCount
    OBVIOUS
  <1> HIDE DEF u, a, now, unlimited, claimed, balance, row
  <1>10. /\ inviteCount' \in [Members -> Nat]
         /\ Total(inviteCount') = Total(balance) - (IF unlimited THEN 0 ELSE 1)
    <2>1. \A n \in Nat : Total([balance EXCEPT ![u] = n]) = Total(balance) - balance[u] + n
      <3>1. u \in Members /\ balance \in [Members -> Nat]
        BY <1>1, <1>8
      <3> QED BY <3>1, FiniteMembers, TotalSet
    <2>2. Total(balance) \in Nat
      BY <1>8, FiniteMembers, TotalType
    <2>3. CASE unlimited
      <3>1. inviteCount' = balance
        BY <1>1, <1>2, <1>8, <2>3
      <3> QED BY <1>8, <2>2, <2>3, <3>1
    <2>4. CASE ~unlimited
      <3>1. balance[u] \in Nat /\ balance[u] - 1 \in Nat
        BY <1>1, <1>2, <1>8, <2>4
      <3>2. inviteCount' = [balance EXCEPT ![u] = balance[u] - 1]
        BY <1>1, <1>2, <1>8, <2>4
      <3>3. Total(inviteCount') = Total(balance) - balance[u] + (balance[u] - 1)
        BY <2>1, <3>1, <3>2, Zenon
      <3>4. inviteCount' \in [Members -> Nat]
        BY <1>1, <1>8, <3>1, <3>2
      <3> QED BY <2>2, <2>4, <3>1, <3>3, <3>4
    <2> QED BY <2>3, <2>4
  <1>11. RequestsFormed'
    <2>1. \A r \in Requests : req'[r] = req[r] \/ req'[r] = Idle
      BY <1>2, <1>3
    <2>2. RequestsFormed
      BY DEF IInv
    <2> QED BY <1>1, <1>3, <1>6, <1>7, <2>1, <2>2, RewriteRow
  <1>12. TypeOK'
    <2>1. req' \in [Requests -> RequestStates]
      BY <1>2, <1>3, IdleIsFormed
    <2>2. invite' \in [Addresses -> InviteRows]
      BY <1>3, <1>6, <1>7
    <2> QED BY <1>2, <1>10, <2>1, <2>2 DEF IInv, TypeOK
  <1>13. RowsHaveSenders' /\ TreeFollowsInvites'
    <2>1. invite[a].status # "accepted"
      BY <1>4, <1>5 DEF Pending
    <2> QED BY <1>1, <1>2, <1>3, <1>6, <1>7, <2>1 DEF IInv, RowsHaveSenders, TreeFollowsInvites
  <1>14. InvitesConserved'
    <2>1. /\ Cardinality(PaidOut) \in Nat
          /\ Cardinality(PaidOut') = Cardinality(PaidOut) - (IF IsPaid(invite[a]) THEN 1 ELSE 0)
                                                         + (IF IsPaid(row) THEN 1 ELSE 0)
      BY <1>1, <1>3, <1>6, <1>7, PaidOutMoves
    <2>2. IsPaid(row) <=> ~unlimited
      BY <1>6 DEF IsPaid
    <2>3. IsPaid(invite[a]) <=> claimed /\ invite[a].spent
      BY <1>4, <1>5 DEF IsPaid, Pending
    <2>4. Total(inviteCount) + Cardinality(PaidOut) = handedOut /\ handedOut' = handedOut
      BY <1>2 DEF IInv, InvitesConserved
    <2>5. Total(inviteCount') + Cardinality(PaidOut') = handedOut'
      BY <1>3, <1>8, <1>10, <2>1, <2>2, <2>3, <2>4
    <2> QED BY <2>5 DEF InvitesConserved
  <1>15. HoldsAddress
    <2> SUFFICES ASSUME NEW b \in Addresses, invite[b].status = "cancelled",
                        invite'[b] # invite[b]
                 PROVE  invite[b].expires <= clock
      BY DEF HoldsAddress
    <2>1. b = a
      BY <1>3, <1>7
    <2>2. ~claimed
      BY <1>4, <2>1 DEF Pending
    <2> QED BY <1>1, <1>3, <1>5, <2>1, <2>2
  <1>16. KeepsToCap
    <2> SUFFICES ASSUME NEW v \in Members, inviteCount'[v] > inviteCount[v]
                 PROVE  \E b \in Addresses : Pending(b) /\ invite'[b] # invite[b]
      BY DEF KeepsToCap
    <2>1. claimed
      <3> SUFFICES ASSUME ~claimed PROVE FALSE
        OBVIOUS
      <3>1. balance = inviteCount
        BY <1>9
      <3>2. inviteCount'[v] = inviteCount[v] \/ inviteCount'[v] = inviteCount[v] - 1
        BY <1>1, <1>2, <1>3, <3>1
      <3>3. inviteCount[v] \in Nat
        BY <1>3
      <3> QED BY <3>2, <3>3
    <2>2. Pending(a)
      BY <1>4, <2>1
    <2>3. invite'[a] # invite[a]
      <3>1. invite'[a].key = invite[a].key + 1
        BY <1>1, <1>3, <1>6, <1>7
      <3>2. invite[a].key # invite[a].key + 1
        BY <1>3
      <3> QED BY <3>1, <3>2
    <2> QED BY <1>1, <2>2, <2>3
  <1> QED BY <1>11, <1>12, <1>13, <1>14, <1>15, <1>16 DEF IInv, Moves

\* Staff write the count only over the one they were shown.
LEMMA RecountWriteStep ==
  ASSUME IInv, NEW s \in Requests, NEW n \in 0 .. StaffMax, RecountWrite(s, n)
  PROVE  IInv' /\ Moves
  <1> DEFINE u == req[s].by
  <1>1. /\ u \in Members /\ inviteCount \in [Members -> Nat] /\ n \in Nat
        /\ req \in [Requests -> RequestStates] /\ handedOut \in Int
    BY StaffMaxIsNatural DEF IInv, TypeOK, RequestsFormed, Formed, RecountWrite
  <1>2. /\ inviteCount' = [inviteCount EXCEPT ![u] = n]
        /\ handedOut' = handedOut + n - inviteCount[u]
        /\ req' = [req EXCEPT ![s] = Idle]
        /\ UNCHANGED <<clock, canInvite, disabled, invite, registered, tree, sweep, grants>>
    BY DEF RecountWrite, Done
  <1> HIDE DEF u
  <1>3. req' \in [Requests -> RequestStates] /\ RequestsFormed'
    BY <1>1, <1>2, IdleIsFormed, ReplaceRequest DEF IInv
  <1>4. TypeOK'
    <2>1. inviteCount' \in [Members -> Nat]
      BY <1>1, <1>2
    <2>2. handedOut' \in Int
      BY <1>1, <1>2
    <2> QED BY <1>2, <1>3, <2>1, <2>2 DEF IInv, TypeOK
  <1>5. RowsHaveSenders' /\ TreeFollowsInvites'
    BY <1>2 DEF IInv, RowsHaveSenders, TreeFollowsInvites
  <1>6. InvitesConserved'
    <2>1. Total(inviteCount) \in Nat /\ inviteCount[u] \in Nat
      BY <1>1, FiniteMembers, TotalType
    <2>2. Total(inviteCount') = Total(inviteCount) - inviteCount[u] + n
      <3>1. Total([inviteCount EXCEPT ![u] = n]) = Total(inviteCount) - inviteCount[u] + n
        BY <1>1, FiniteMembers, TotalSet
      <3> QED BY <1>2, <3>1, Zenon
    <2>3. Cardinality(PaidOut) = handedOut - Total(inviteCount) /\ PaidOut' = PaidOut
      <3>1. Total(inviteCount) + Cardinality(PaidOut) = handedOut
        BY DEF IInv, InvitesConserved
      <3>2. IsFiniteSet(PaidOut)
        <4>1. PaidOut \in SUBSET Addresses
          BY DEF PaidOut
        <4> QED BY <4>1, FiniteAddresses, FS_Subset
      <3>3. Cardinality(PaidOut) \in Nat
        BY <3>2, FS_CardinalityType
      <3>4. PaidOut' = PaidOut
        BY <1>2 DEF PaidOut
      <3> QED BY <1>1, <2>1, <3>1, <3>3, <3>4
    <2>4. Total(inviteCount') + Cardinality(PaidOut') = handedOut'
      <3>1. Cardinality(PaidOut') = handedOut - Total(inviteCount)
        BY <2>3
      <3> QED BY <1>1, <1>2, <2>1, <2>2, <3>1
    <2> QED BY <2>4 DEF InvitesConserved
  <1>7. HoldsAddress
    BY <1>2 DEF HoldsAddress
  <1>8. KeepsToCap
    <2> SUFFICES ASSUME NEW v \in Members, inviteCount'[v] > inviteCount[v]
                 PROVE  EditedByStaff(v)
      BY DEF KeepsToCap
    <2>1. v = u
      BY <1>1, <1>2
    <2>2. req'[s] = Idle /\ req[s].op = "recount"
      BY <1>1, <1>2 DEF RecountWrite
    <2> QED BY <2>1, <2>2 DEF EditedByStaff, u
  <1> QED BY <1>3, <1>4, <1>5, <1>6, <1>7, <1>8 DEF IInv, Moves
\* What the claim took is the invite the registration read: same key, so same
\* inviter.  Else the account is created with no edge.
LEMMA RegisterWriteStep ==
  ASSUME IInv, NEW s \in Requests, RegisterWrite(s)
  PROVE  IInv' /\ Moves
  <1> DEFINE a == req[s].address
  <1>1. /\ a \in Addresses /\ KeyNamesSender(req[s]) /\ req[s].op = "register"
        /\ invite \in [Addresses -> InviteRows] /\ invite[a] \in InviteRows
        /\ req \in [Requests -> RequestStates] /\ RequestsFormed
        /\ registered \subseteq Addresses /\ tree \in [Addresses -> Members \cup {None}]
        /\ req[s].by \in Members \cup {None}
    BY DEF IInv, TypeOK, RequestsFormed, Formed, RegisterWrite, RequestStates
  <1>2. /\ registered' = registered \cup {a}
        /\ req' = [req EXCEPT ![s] = Idle]
        /\ UNCHANGED <<clock, userVars, sweep, grants>>
    BY DEF RegisterWrite, Done
  <1>3. CASE Accepts(s) /\ invite' = [invite EXCEPT ![a].status = "accepted"]
                        /\ tree' = [tree EXCEPT ![a] = req[s].by]
    <2> DEFINE row == [invite[a] EXCEPT !.status = "accepted"]
    <2>1. /\ invite[a].status = "pending" /\ req[s].by # None /\ invite[a].key = req[s].key
      BY <1>3 DEF Accepts, LivePending, Pending
    <2>2. invite[a].inviter = req[s].by
      BY <1>1, <2>1 DEF KeyNamesSender
    <2>3. /\ row \in InviteRows /\ row.status = "accepted" /\ row.key = invite[a].key
          /\ row.inviter = invite[a].inviter /\ row.spent = invite[a].spent
      BY <1>1 DEF InviteRows
    <2>4. invite' = [invite EXCEPT ![a] = row]
      BY <1>1, <1>3
    <2> HIDE DEF row, a
    <2>5. RequestsFormed'
      <3>1. \A r \in Requests : req'[r] = req[r] \/ req'[r] = Idle
        BY <1>1, <1>2
      <3> QED BY <1>1, <1>2, <2>3, <2>4, <3>1, RewriteRow
    <2>6. TypeOK'
      <3>1. req' \in [Requests -> RequestStates]
        BY <1>1, <1>2, IdleIsFormed
      <3>2. /\ invite' \in [Addresses -> InviteRows] /\ tree' \in [Addresses -> Members \cup {None}]
            /\ registered' \subseteq Addresses
        BY <1>1, <1>2, <1>3, <2>3, <2>4
      <3> QED BY <1>2, <3>1, <3>2 DEF IInv, TypeOK, userVars
    <2>7. RowsHaveSenders' /\ TreeFollowsInvites'
      BY <1>1, <1>2, <1>3, <2>1, <2>2, <2>3, <2>4 DEF IInv, RowsHaveSenders, TreeFollowsInvites
    <2>8. InvitesConserved'
      <3>1. /\ Cardinality(PaidOut) \in Nat
            /\ Cardinality(PaidOut') = Cardinality(PaidOut) - (IF IsPaid(invite[a]) THEN 1 ELSE 0)
                                                           + (IF IsPaid(row) THEN 1 ELSE 0)
        BY <1>1, <2>3, <2>4, PaidOutMoves
      <3>2. IsPaid(invite[a]) <=> IsPaid(row)
        BY <2>1, <2>3 DEF IsPaid
      <3>3. Cardinality(PaidOut') = Cardinality(PaidOut)
        BY <3>1, <3>2
      <3> QED BY <1>2, <3>3 DEF IInv, InvitesConserved, userVars
    <2>9. HoldsAddress
      BY <1>1, <2>1, <2>4 DEF HoldsAddress
    <2>10. KeepsToCap
      BY <1>2 DEF KeepsToCap, IInv, TypeOK, userVars
    <2> QED BY <2>5, <2>6, <2>7, <2>8, <2>9, <2>10 DEF IInv, Moves
  <1>4. CASE UNCHANGED <<invite, tree>>
    <2> HIDE DEF a
    <2>1. req' \in [Requests -> RequestStates] /\ RequestsFormed'
      BY <1>1, <1>2, <1>4, IdleIsFormed, ReplaceRequest
    <2>2. TypeOK'
      BY <1>1, <1>2, <1>4, <2>1 DEF IInv, TypeOK, userVars
    <2>3. RowsHaveSenders' /\ TreeFollowsInvites'
      BY <1>2, <1>4 DEF IInv, RowsHaveSenders, TreeFollowsInvites
    <2>4. InvitesConserved'
      BY <1>2, <1>4 DEF IInv, InvitesConserved, PaidOut, userVars
    <2>5. HoldsAddress
      BY <1>4 DEF HoldsAddress
    <2>6. KeepsToCap
      BY <1>2 DEF KeepsToCap, IInv, TypeOK, userVars
    <2> QED BY <2>1, <2>2, <2>3, <2>4, <2>5, <2>6 DEF IInv, Moves
  <1> QED BY <1>3, <1>4 DEF RegisterWrite

\* The grant adds only where the where clause finds room for all of it.
LEMMA GrantWriteStep ==
  ASSUME IInv, GrantWrite
  PROVE  IInv' /\ Moves
  <1> DEFINE winners == {u \in grants.ids : HasRoom(u)}
             perPeriod == grants.perPeriod
             cap == grants.cap
  <1>1. /\ inviteCount \in [Members -> Nat] /\ winners \in SUBSET Members /\ handedOut \in Int
        /\ perPeriod \in Nat /\ cap \in Nat
        /\ \A u \in winners : inviteCount[u] + perPeriod <= cap
    <2>1. \A u \in grants.ids : u \in Members /\ inviteCount[u] \in Nat
      BY DEF IInv, TypeOK
    <2> QED BY <2>1 DEF IInv, TypeOK, HasRoom
  <1>2. /\ inviteCount' = [u \in Members |-> inviteCount[u] + (IF u \in winners THEN perPeriod ELSE 0)]
        /\ handedOut' = handedOut + perPeriod * Cardinality(winners)
        /\ grants' = NoGrants
        /\ UNCHANGED <<clock, canInvite, disabled, invite, registered, tree, req, sweep>>
    BY DEF GrantWrite
  <1> HIDE DEF winners, perPeriod
  <1>3. Total(inviteCount') = Total(inviteCount) + perPeriod * Cardinality(winners)
    <2>1. Total([u \in Members |-> inviteCount[u] + (IF u \in winners THEN perPeriod ELSE 0)])
            = Total(inviteCount) + perPeriod * Cardinality(winners)
      BY <1>1, FiniteMembers, TotalRaise
    <2> QED BY <1>2, <2>1, Zenon
  <1>4. Cardinality(winners) \in Nat /\ perPeriod * Cardinality(winners) \in Nat
    <2>1. IsFiniteSet(winners)
      BY <1>1, FiniteMembers, FS_Subset
    <2>2. Cardinality(winners) \in Nat
      BY <2>1, FS_CardinalityType
    <2> QED BY <1>1, <2>2
  <1>5. TypeOK'
    <2>1. inviteCount' \in [Members -> Nat] /\ handedOut' \in Int
      BY <1>1, <1>2, <1>4
    <2> QED BY <1>2, <2>1 DEF IInv, TypeOK, NoGrants
  <1>6. RequestsFormed' /\ RowsHaveSenders' /\ TreeFollowsInvites'
    <2>1. RequestsFormed'
      BY <1>2, KeepRequests DEF IInv, TypeOK
    <2> QED BY <1>2, <2>1 DEF IInv, RowsHaveSenders, TreeFollowsInvites
  <1>7. InvitesConserved'
    <2>1. Total(inviteCount) + Cardinality(PaidOut) = handedOut /\ PaidOut' = PaidOut
      BY <1>2 DEF IInv, InvitesConserved, PaidOut
    <2>2. Total(inviteCount) \in Nat
      BY <1>1, FiniteMembers, TotalType
    <2>3. Cardinality(PaidOut) \in Nat
      <3>1. PaidOut \in SUBSET Addresses
        BY DEF PaidOut
      <3> QED BY <3>1, FiniteAddresses, FS_Subset, FS_CardinalityType
    <2>4. Total(inviteCount') + Cardinality(PaidOut') = handedOut'
      <3> DEFINE more == perPeriod * Cardinality(winners)
      <3>1. /\ more \in Nat /\ Total(inviteCount') = Total(inviteCount) + more
            /\ handedOut' = handedOut + more
        BY <1>2, <1>3, <1>4
      <3> HIDE DEF more
      <3> QED BY <1>1, <2>1, <2>2, <2>3, <3>1
    <2> QED BY <2>4 DEF InvitesConserved
  <1>8. HoldsAddress
    BY <1>2 DEF HoldsAddress
  <1>9. KeepsToCap
    <2> SUFFICES ASSUME NEW v \in Members, inviteCount'[v] > inviteCount[v],
                        inviteCount'[v] > cap
                 PROVE  FALSE
      BY DEF KeepsToCap
    <2>1. inviteCount[v] \in Nat
      BY <1>1
    <2>2. v \in winners
      BY <1>2, <2>1
    <2> QED BY <1>1, <1>2, <2>1, <2>2
  <1> QED BY <1>5, <1>6, <1>7, <1>8, <1>9 DEF IInv, Moves

\* The sweep and the steps that only move the flags, the clock or the jobs.
LEMMA SweepExpireStep ==
  ASSUME IInv, NEW row \in Addresses \X Members, SweepExpire(row)
  PROVE  IInv' /\ Moves
  <1> DEFINE a == row[1]
             m == row[2]
  <1>1. a \in Addresses /\ m \in Members
    OBVIOUS
  <1>2. /\ sweep' \in [now : Nat, rows : SUBSET (Addresses \X Members)]
        /\ UNCHANGED <<clock, canInvite, disabled, handedOut, registered, tree, req, grants>>
    BY DEF SweepExpire, SweepPast, NoSweep, IInv, TypeOK
  <1>3. CASE /\ ExpiryClaims(a, sweep.now)
             /\ invite' = [invite EXCEPT ![a].status = "expired"]
             /\ inviteCount' = Refund(a, m)
    <2>1. Pending(a)
      BY <1>3 DEF ExpiryClaims, LapsedPending
    <2> HIDE DEF a, m
    <2> QED BY <1>1, <1>2, <1>3, <2>1, RefundStep
  <1>4. CASE UNCHANGED <<invite, inviteCount>>
    <2>1. TypeOK'
      BY <1>2, <1>4 DEF IInv, TypeOK
    <2>2. RequestsFormed'
      BY <1>2, <1>4, KeepRequests DEF IInv, TypeOK
    <2> QED BY <1>2, <1>4, <2>1, <2>2, QuietStep
  <1> QED BY <1>3, <1>4 DEF SweepExpire

LEMMA CancelStep ==
  ASSUME IInv, NEW a \in Addresses, Cancel(a)
  PROVE  IInv' /\ Moves
  <1>1. Pending(a) /\ invite[a].inviter \in Members
    BY DEF Cancel, Pending, IInv, RowsHaveSenders
  <1>2. sweep' \in [now : Nat, rows : SUBSET (Addresses \X Members)]
    BY DEF Cancel, IInv, TypeOK
  <1> QED BY <1>1, <1>2, RefundStep DEF Cancel

LEMMA OtherSteps ==
  ASSUME IInv,
         \/ SweepRead
         \/ \E row \in Addresses \X Members : SweepFail(row)
         \/ \E u \in Moderated, b \in BOOLEAN : SetCanInvite(u, b) \/ SetDisabled(u, b)
         \/ \E batch \in SUBSET Members, rank \in RankSettings : GrantRead(batch, rank)
         \/ GrantLost \/ Tick
  PROVE  IInv' /\ Moves
  <1>1. /\ UNCHANGED <<inviteCount, handedOut, invite, registered, tree, req>>
        /\ clock' = clock \/ clock' = clock + 1
    BY DEF SweepRead, SweepFail, SetCanInvite, SetDisabled, GrantRead, GrantLost, Tick, userVars
  <1>2. RequestsFormed'
    BY <1>1, KeepRequests DEF IInv, TypeOK
  <1>3. TypeOK'
    <2>1. clock' \in Nat
      BY <1>1 DEF IInv, TypeOK
    <2>2. canInvite' \in [Members -> BOOLEAN] /\ disabled' \in [Members -> BOOLEAN]
      BY DEF SweepRead, SweepFail, SetCanInvite, SetDisabled, GrantRead, GrantLost, Tick, userVars,
             IInv, TypeOK
    <2>3. sweep' \in [now : Nat, rows : SUBSET (Addresses \X Members)]
      <3>1. ASSUME SweepRead PROVE sweep' \in [now : Nat, rows : SUBSET (Addresses \X Members)]
        <4>1. \A b \in Addresses : LapsedPending(b, clock) => invite[b].inviter \in Members
          BY DEF LapsedPending, Pending, IInv, RowsHaveSenders
        <4>2. clock \in Nat
          BY DEF IInv, TypeOK
        <4>3. {<<b, invite[b].inviter>> : b \in {c \in Addresses : LapsedPending(c, clock)}}
                \in SUBSET (Addresses \X Members)
          BY <4>1
        <4> QED BY <3>1, <4>2, <4>3 DEF SweepRead
      <3> QED BY <3>1 DEF SweepFail, SweepPast, NoSweep, SetCanInvite, SetDisabled, GrantRead,
                          GrantLost, Tick, IInv, TypeOK
    <2>4. grants' \in [ids : SUBSET Members, perPeriod : Nat, cap : Nat]
      <3>1. ASSUME NEW batch \in SUBSET Members, NEW rank \in RankSettings, GrantRead(batch, rank)
            PROVE  grants' \in [ids : SUBSET Members, perPeriod : Nat, cap : Nat]
        BY <3>1, RankEarnsInvites DEF GrantRead
      <3> QED BY <3>1 DEF SweepRead, SweepFail, SetCanInvite, SetDisabled, GrantLost, NoGrants, Tick,
                          IInv, TypeOK
    <2> QED BY <1>1, <2>1, <2>2, <2>3, <2>4 DEF IInv, TypeOK
  <1> QED BY <1>1, <1>2, <1>3, QuietStep

-----------------------------------------------------------------------------
(* The theorems.                                                           *)

LEMMA InitIsInvariant == Init => IInv
  <1> SUFFICES ASSUME Init PROVE IInv
    OBVIOUS
  <1>1. TypeOK
    <2>1. Idle \in RequestStates
      BY IdleIsFormed
    <2>2. Total(Opening) \in Nat
      BY FiniteMembers, OpeningIsBalance, TotalType
    <2>3. NoInvite \in InviteRows
      BY DEF NoInvite, InviteRows
    <2> QED BY <2>1, <2>2, <2>3, OpeningIsBalance DEF Init, TypeOK, NoSweep, NoGrants
  <1>2. RowsHaveSenders /\ TreeFollowsInvites
    BY DEF Init, RowsHaveSenders, TreeFollowsInvites, NoInvite
  <1>3. RequestsFormed
    BY DEF Init, RequestsFormed, Idle, Formed, KeyNamesSender
  <1>4. InvitesConserved
    <2>1. PaidOut = {}
      BY DEF Init, PaidOut, NoInvite
    <2>2. Total(Opening) \in Nat
      BY FiniteMembers, OpeningIsBalance, TotalType
    <2>3. Cardinality(PaidOut) = 0
      BY <2>1, FS_EmptySet
    <2> QED BY <2>2, <2>3 DEF Init, InvitesConserved
  <1> QED BY <1>1, <1>2, <1>3, <1>4 DEF IInv

LEMMA NextIsInductive == IInv /\ [Next]_vars => IInv' /\ Moves
  <1> SUFFICES ASSUME IInv, [Next]_vars PROVE IInv' /\ Moves
    OBVIOUS
  <1>1. CASE UNCHANGED vars
    <2>1. UNCHANGED <<clock, userVars, invite, registered, tree, req, sweep, grants>>
      BY <1>1 DEF vars
    <2>2. TypeOK'
      BY <2>1 DEF IInv, TypeOK, userVars
    <2>3. RequestsFormed'
      BY <2>1, KeepRequests DEF IInv, TypeOK
    <2> QED BY <2>1, <2>2, <2>3, QuietStep DEF userVars
  <1>2. ASSUME NEW s \in Requests,
               Send(s) \/ SendWrite(s) \/ Register(s) \/ RegisterWrite(s) \/ Recount(s) \/ Refused(s)
        PROVE  IInv' /\ Moves
    <2>1. CASE Send(s)
      BY <2>1, SendReadStep DEF Send
    <2>2. CASE SendWrite(s)
      BY <2>2, SendWriteStep
    <2>3. CASE Register(s)
      BY <2>3, RegisterReadStep DEF Register
    <2>4. CASE RegisterWrite(s)
      BY <2>4, RegisterWriteStep
    <2>5. CASE Recount(s)
      BY <2>5, RecountReadStep, RecountWriteStep DEF Recount
    <2>6. CASE Refused(s)
      BY <2>6, RefusedStep
    <2> QED BY <1>2, <2>1, <2>2, <2>3, <2>4, <2>5, <2>6
  <1>3. ASSUME NEW row \in Addresses \X Members, SweepExpire(row)
        PROVE  IInv' /\ Moves
    BY <1>3, SweepExpireStep
  <1>4. ASSUME NEW a \in Addresses, Cancel(a)
        PROVE  IInv' /\ Moves
    BY <1>4, CancelStep
  <1>5. CASE GrantWrite
    BY <1>5, GrantWriteStep
  <1> QED BY <1>1, <1>2, <1>3, <1>4, <1>5, OtherSteps DEF Next

\* Balances stay natural numbers: no send takes a member below zero.
THEOREM InvitesTypeCorrect == Spec => []TypeOK
  <1>1. IInv => TypeOK
    BY DEF IInv
  <1>2. IInv /\ [Next]_vars => IInv'
    BY NextIsInductive
  <1> QED BY <1>1, <1>2, InitIsInvariant, PTL DEF Spec

\* No invite is made or lost, through every race of sends, sweeps, re-sends,
\* cancellations, registrations, staff edits and grants.
THEOREM InvitesConservedTheorem == Spec => []InvitesConserved
  <1>1. IInv => InvitesConserved
    BY DEF IInv
  <1>2. IInv /\ [Next]_vars => IInv'
    BY NextIsInductive
  <1> QED BY <1>1, <1>2, InitIsInvariant, PTL DEF Spec

\* The tree names the inviter of each invite that was used, and nobody else.
THEOREM TreeTheorem == Spec => []TreeFollowsInvites
  <1>1. IInv => TreeFollowsInvites
    BY DEF IInv
  <1>2. IInv /\ [Next]_vars => IInv'
    BY NextIsInductive
  <1> QED BY <1>1, <1>2, InitIsInvariant, PTL DEF Spec

\* No step rewrites a cancelled row before its lifetime is over.
THEOREM CancelledHoldsTheorem == Spec => CancelledHoldsAddress
  <1>1. IInv /\ [Next]_vars => IInv'
    BY NextIsInductive
  <1>2. IInv /\ [Next]_vars => [HoldsAddress]_vars
    BY NextIsInductive DEF Moves
  <1>3. CancelledHoldsAddress <=> [][HoldsAddress]_vars
    BY DEF CancelledHoldsAddress, HoldsAddress
  <1> QED BY <1>1, <1>2, <1>3, InitIsInvariant, PTL DEF Spec

\* No grant takes a member above the cap, only a refund or a staff edit does.
THEOREM CapTheorem == Spec => GrantsKeepToCap
  <1>1. IInv /\ [Next]_vars => IInv'
    BY NextIsInductive
  <1>2. IInv /\ [Next]_vars => [KeepsToCap]_vars
    BY NextIsInductive DEF Moves
  <1>3. GrantsKeepToCap <=> [][KeepsToCap]_vars
    BY DEF GrantsKeepToCap, KeepsToCap
  <1> QED BY <1>1, <1>2, <1>3, InitIsInvariant, PTL DEF Spec
=============================================================================
