------------------------------ MODULE Invites ------------------------------
(***************************************************************************)
(* Invites: a member spends one to invite an address (modules/invite.ts),  *)
(* registration claims it (modules/auth.ts), an expiry sweep or a re-invite *)
(* of the address ends it and pays it back (modules/inviteExpiryJob.ts),   *)
(* staff and inviters cancel it (modules/inviteControls.ts), and a grant   *)
(* job hands out new ones (modules/inviteGrantJob.ts).                     *)
(*                                                                         *)
(* Each operation reads, and later writes in one transaction that first    *)
(* claims the invite row, so the writes are one action: its other          *)
(* statements run under the lock of the row it has claimed.                *)
(***************************************************************************)
EXTENDS Integers, Sums

CONSTANTS Members,      \* the members who invite
          Addresses,    \* the addresses they invite; a registration is known by its own
          Requests,     \* slots for HTTP requests in flight
          Moderated,    \* bound: the members whose invites staff restrict or edit
          None,         \* SQL null
          Opening,      \* inviteCount of each member at the start
          RankSettings, \* what staff may set the rank's inviteGrantPerPeriod and inviteCap to
          StaffMax,     \* STAFF_INVITE_COUNT_MAX
          Lifetime,     \* INVITE_TTL_DAYS
          MaxClock,     \* bound: the instants the clock reaches
          MaxSends      \* bound: the invites sent to one address

VARIABLES clock,
          inviteCount, canInvite, disabled,  \* the User columns
          invite,       \* the Invite row of each address
          registered,   \* the addresses that have an account
          tree,         \* InviteTree.inviterId of an address's account, or None
          req,          \* the requests in flight
          sweep,        \* the expiry sweep: its instant, the lapsed rows it read
          grants,       \* the batch of the grant job: its members, and their rank as read
          handedOut     \* the invites granted, and added or taken by staff, in all

userVars == <<inviteCount, canInvite, disabled, handedOut>>
vars == <<clock, userVars, invite, registered, tree, req, sweep, grants>>

ASSUME NoneIsNoMember == None \notin Members
ASSUME FiniteMembers == IsFiniteSet(Members)
ASSUME FiniteAddresses == IsFiniteSet(Addresses)
ASSUME ModeratedAreMembers == Moderated \subseteq Members
ASSUME OpeningIsBalance == Opening \in [Members -> Nat]
ASSUME RankEarnsInvites == RankSettings \subseteq [perPeriod : Nat \ {0}, cap : Nat \ {0}]
ASSUME StaffMaxIsNatural == StaffMax \in Nat
ASSUME LifetimeIsPositive == Lifetime \in Nat \ {0}
ASSUME BoundsAreNaturals == MaxClock \in Nat /\ MaxSends \in Nat

\* key counts the sends: each one replaces the row's inviteKey by a fresh one.
NoInvite == [status |-> "none", inviter |-> None, key |-> 0, expires |-> 0, spent |-> FALSE]

InviteRows ==
    [status : {"none", "pending", "accepted", "expired", "cancelled"},
     inviter : Members \cup {None}, key : Nat, expires : Nat, spent : BOOLEAN]

\* by: the sender, or the inviter registration has read, or the member whose
\* count staff edit; from: the inviter of the row the send has read.
Idle == [op |-> "idle", by |-> None, address |-> None, from |-> None, key |-> 0,
         now |-> 0, flag |-> FALSE]

RequestStates ==
    [op : {"idle", "send", "register", "recount"}, by : Members \cup {None},
     address : Addresses \cup {None}, from : Members \cup {None}, key : Nat, now : Nat,
     flag : BOOLEAN]

NoSweep == [now |-> 0, rows |-> {}]

NoGrants == [ids |-> {}, perPeriod |-> 0, cap |-> 0]

TypeOK ==
    /\ clock \in Nat
    /\ inviteCount \in [Members -> Nat]
    /\ canInvite \in [Members -> BOOLEAN] /\ disabled \in [Members -> BOOLEAN]
    /\ invite \in [Addresses -> InviteRows]
    /\ registered \subseteq Addresses
    /\ tree \in [Addresses -> Members \cup {None}]
    /\ req \in [Requests -> RequestStates]
    /\ sweep \in [now : Nat, rows : SUBSET (Addresses \X Members)]
    /\ grants \in [ids : SUBSET Members, perPeriod : Nat, cap : Nat]
    /\ handedOut \in Int

Init ==
    /\ clock = 0
    /\ inviteCount = Opening
    /\ canInvite = [u \in Members |-> TRUE] /\ disabled = [u \in Members |-> FALSE]
    /\ invite = [a \in Addresses |-> NoInvite]
    /\ registered = {}
    /\ tree = [a \in Addresses |-> None]
    /\ req = [s \in Requests |-> Idle]
    /\ sweep = NoSweep
    /\ grants = NoGrants
    /\ handedOut = Total(Opening)

-----------------------------------------------------------------------------
(* The lapse rule (modules/inviteExpiry.ts).                               *)

Pending(a) == invite[a].status = "pending"

\* lapsedPendingInviteWhere: a pending invite no key holder may use any more.
LapsedPending(a, now) ==
    /\ Pending(a)
    /\ \/ invite[a].expires <= now
       \/ disabled[invite[a].inviter]
       \/ ~canInvite[invite[a].inviter]

\* livePendingInviteWhere.
LivePending(a, now) == Pending(a) /\ ~LapsedPending(a, now)

\* Mutant: a cancelled row gives its address up at once.
ReusableAtOnce(a, now) == invite[a].status \in {"expired", "cancelled"}

\* reusableInviteWhere: a cancelled row holds its address for its lifetime.
Reusable(a, now) ==
    \/ invite[a].status = "expired"
    \/ invite[a].status = "cancelled" /\ invite[a].expires <= now

\* isAddressFree, or no row at all.
AddressFree(a, now) ==
    invite[a].status = "none" \/ Reusable(a, now) \/ LapsedPending(a, now)

\* Mutant: only invites past their date are claimed.
ExpiryClaimsOverdue(a, now) == Pending(a) /\ invite[a].expires <= now

\* The claim of expireLapsedInvite.
ExpiryClaims(a, now) == LapsedPending(a, now)

\* Mutant: an invite nothing was spent on is paid back too.
RefundUnspent(a, m) == [inviteCount EXCEPT ![m] = @ + 1]

\* The balances once m is paid back the invite to a, if it was a spent one.
Refund(a, m) ==
    IF invite[a].spent THEN [inviteCount EXCEPT ![m] = @ + 1] ELSE inviteCount

Done(s) == req' = [req EXCEPT ![s] = Idle]

-----------------------------------------------------------------------------
(* createInvite                                                            *)

\* The address's row and the sender's gates are read.  A member out of
\* invites passes when ending their own lapsed invite will refund them.
\* Standing, ratio watch, registration status and capacity may refuse too.
SendRead(s, u, a, unlimited) ==
    /\ req[s] = Idle
    /\ ~disabled[u] /\ canInvite[u]
    /\ AddressFree(a, clock)
    /\ unlimited \/ inviteCount[u] > 0 \/ (Pending(a) /\ invite[a].inviter = u)
    /\ req' = [req EXCEPT ![s] = [Idle EXCEPT !.op = "send", !.by = u, !.address = a,
                                              !.from = invite[a].inviter, !.now = clock,
                                              !.flag = unlimited]]
    /\ UNCHANGED <<clock, userVars, invite, registered, tree, sweep, grants>>

\* Mutant: the decrement trusts the balance read before.
SpendTrusted(u, unlimited, balance) == canInvite[u]

\* inviteSpendWhere, on the balances a refund has already reached.
MaySpend(u, unlimited, balance) == canInvite[u] /\ (unlimited \/ balance[u] > 0)

\* writeInvite: a lapsed pending row is expired and paid back to the inviter
\* read before, the address's row is taken, one invite is spent.
SendWrite(s) ==
    LET u == req[s].by
        a == req[s].address
        now == req[s].now
        unlimited == req[s].flag
        claimed == req[s].from # None /\ ExpiryClaims(a, now)
        balance == IF claimed THEN Refund(a, req[s].from) ELSE inviteCount
    IN
    /\ req[s].op = "send"
    /\ invite[a].key < MaxSends
    /\ IF req[s].from = None THEN invite[a].status = "none" ELSE claimed \/ Reusable(a, now)
    /\ MaySpend(u, unlimited, balance)
    /\ inviteCount' = [balance EXCEPT ![u] = IF unlimited THEN @ ELSE @ - 1]
    /\ invite' = [invite EXCEPT ![a] = [status |-> "pending", inviter |-> u, key |-> @.key + 1,
                                        expires |-> now + Lifetime, spent |-> ~unlimited]]
    /\ Done(s)
    /\ UNCHANGED <<clock, canInvite, disabled, handedOut, registered, tree, sweep, grants>>

-----------------------------------------------------------------------------
(* The expiry sweep                                                        *)

\* A cycle reads the lapsed rows, with their inviters, one batch of them.
SweepRead ==
    /\ sweep = NoSweep
    /\ \E a \in Addresses : LapsedPending(a, clock)
    /\ sweep' = [now |-> clock,
                 rows |-> {<<a, invite[a].inviter>> : a \in {b \in Addresses : LapsedPending(b, clock)}}]
    /\ UNCHANGED <<clock, userVars, invite, registered, tree, req, grants>>

\* The cycle is over after its last row.
SweepPast(row) ==
    IF sweep.rows = {row} THEN NoSweep ELSE [sweep EXCEPT !.rows = @ \ {row}]

\* expireOne: the row leaves pending, and what was spent on it is paid back.
SweepExpire(row) ==
    LET a == row[1]
        from == row[2] IN
    /\ row \in sweep.rows
    /\ sweep' = SweepPast(row)
    /\ \/ /\ ExpiryClaims(a, sweep.now)
          /\ invite' = [invite EXCEPT ![a].status = "expired"]
          /\ inviteCount' = Refund(a, from)
       \/ /\ ~ExpiryClaims(a, sweep.now)
          /\ UNCHANGED <<invite, inviteCount>>
    /\ UNCHANGED <<clock, canInvite, disabled, handedOut, registered, tree, req, grants>>

\* Its transaction fails; the cycle goes on with the next row.
SweepFail(row) ==
    /\ row \in sweep.rows
    /\ sweep' = SweepPast(row)
    /\ UNCHANGED <<clock, userVars, invite, registered, tree, req, grants>>

-----------------------------------------------------------------------------
(* Staff and inviters                                                      *)

\* claimCancellation, by staff or by the inviter, for any row still pending.
Cancel(a) ==
    /\ Pending(a)
    /\ invite' = [invite EXCEPT ![a].status = "cancelled"]
    /\ inviteCount' = Refund(a, invite[a].inviter)
    /\ UNCHANGED <<clock, canInvite, disabled, handedOut, registered, tree, req, sweep, grants>>

SetCanInvite(u, allowed) ==
    /\ canInvite' = [canInvite EXCEPT ![u] = allowed]
    /\ UNCHANGED <<clock, inviteCount, disabled, handedOut, invite, registered, tree, req, sweep,
                   grants>>

\* disableAccounts, and the staff route that enables an account again.
SetDisabled(u, off) ==
    /\ disabled' = [disabled EXCEPT ![u] = off]
    /\ UNCHANGED <<clock, inviteCount, canInvite, handedOut, invite, registered, tree, req, sweep,
                   grants>>

\* Staff open the form that shows a member's invite count.
RecountRead(s, u) ==
    /\ req[s] = Idle
    /\ req' = [req EXCEPT ![s] = [Idle EXCEPT !.op = "recount", !.by = u, !.key = inviteCount[u]]]
    /\ UNCHANGED <<clock, userVars, invite, registered, tree, sweep, grants>>

\* setInviteCount: refused when the count has moved from the one shown.  The
\* form takes a count up to StaffMax, which is not tied to the rank's cap.
RecountWrite(s, n) ==
    LET u == req[s].by IN
    /\ req[s].op = "recount"
    /\ inviteCount[u] = req[s].key
    /\ inviteCount' = [inviteCount EXCEPT ![u] = n]
    /\ handedOut' = handedOut + n - req[s].key
    /\ Done(s)
    /\ UNCHANGED <<clock, canInvite, disabled, invite, registered, tree, sweep, grants>>

-----------------------------------------------------------------------------
(* registerUser                                                            *)

\* The key is checked; it is the one the row has now, since an older one finds
\* no row.  On an open site (flag) a key is optional and a dead one is ignored.
RegisterRead(s, a, open, presented) ==
    /\ req[s] = Idle
    /\ a \notin registered
    /\ presented => LivePending(a, clock)
    /\ presented \/ open
    /\ req' = [req EXCEPT ![s] =
                  [Idle EXCEPT !.op = "register", !.address = a, !.flag = open,
                               !.by = IF presented THEN invite[a].inviter ELSE None,
                               !.key = IF presented THEN invite[a].key ELSE 0]]
    /\ UNCHANGED <<clock, userVars, invite, registered, tree, sweep, grants>>

\* Mutant: the claim finds the row by its address, whatever key it has now.
AcceptsAddress(s) ==
    LET a == req[s].address IN req[s].by # None /\ LivePending(a, clock)

\* The claim: the row with the presented key, if it is live at this instant.
Accepts(s) ==
    LET a == req[s].address IN
    req[s].by # None /\ invite[a].key = req[s].key /\ LivePending(a, clock)

\* The transaction: the invite is claimed, then the account and its tree row
\* are created from what the claim took.  A second account for the address
\* fails, and where the key was the gate so does a claim that took nothing.
RegisterWrite(s) ==
    LET a == req[s].address IN
    /\ req[s].op = "register"
    /\ a \notin registered
    /\ req[s].flag \/ Accepts(s)
    /\ registered' = registered \cup {a}
    /\ \/ /\ Accepts(s)
          /\ invite' = [invite EXCEPT ![a].status = "accepted"]
          /\ tree' = [tree EXCEPT ![a] = req[s].by]
       \/ /\ ~Accepts(s)
          /\ UNCHANGED <<invite, tree>>
    /\ Done(s)
    /\ UNCHANGED <<clock, userVars, sweep, grants>>

-----------------------------------------------------------------------------
(* The grant job                                                           *)

\* A batch is read and planned: members of good standing whose period is over
\* (either may be, so any of them), with room for a full grant.  Staff may have
\* set their rank to anything, and set it anew before the batch is written.
GrantRead(batch, rank) ==
    /\ grants = NoGrants /\ batch # {}
    /\ \A u \in batch : /\ ~disabled[u] /\ canInvite[u]
                        /\ inviteCount[u] <= rank.cap - rank.perPeriod
    /\ grants' = [ids |-> batch, perPeriod |-> rank.perPeriod, cap |-> rank.cap]
    /\ UNCHANGED <<clock, userVars, invite, registered, tree, req, sweep>>

\* Mutant: the write trusts the room the evaluator saw.
HasRoomAsRead(u) == canInvite[u]

\* The where clause of the grant: today's balance, the rank as it was read.
HasRoom(u) == canInvite[u] /\ inviteCount[u] <= grants.cap - grants.perPeriod

\* One statement adds to the members who still qualify and skips the others.
GrantWrite ==
    LET winners == {u \in grants.ids : HasRoom(u)} IN
    /\ grants # NoGrants
    /\ inviteCount' =
          [u \in Members |-> inviteCount[u] + (IF u \in winners THEN grants.perPeriod ELSE 0)]
    /\ handedOut' = handedOut + grants.perPeriod * Cardinality(winners)
    /\ grants' = NoGrants
    /\ UNCHANGED <<clock, canInvite, disabled, invite, registered, tree, req, sweep>>

-----------------------------------------------------------------------------
\* A request is refused, fails or is lost with its process; nothing is written.
Refused(s) ==
    /\ req[s] # Idle
    /\ Done(s)
    /\ UNCHANGED <<clock, userVars, invite, registered, tree, sweep, grants>>

\* The grant job is lost between its read and its write.
GrantLost ==
    /\ grants # NoGrants
    /\ grants' = NoGrants
    /\ UNCHANGED <<clock, userVars, invite, registered, tree, req, sweep>>

Tick ==
    /\ clock < MaxClock
    /\ clock' = clock + 1
    /\ UNCHANGED <<userVars, invite, registered, tree, req, sweep, grants>>

Send(s) == \E u \in Members, a \in Addresses, b \in BOOLEAN : SendRead(s, u, a, b)
Register(s) == \E a \in Addresses, o, p \in BOOLEAN : RegisterRead(s, a, o, p)
Recount(s) == (\E u \in Moderated : RecountRead(s, u)) \/ (\E n \in 0 .. StaffMax : RecountWrite(s, n))

Next ==
    \/ \E s \in Requests : \/ Send(s) \/ SendWrite(s) \/ Register(s) \/ RegisterWrite(s)
                           \/ Recount(s) \/ Refused(s)
    \/ SweepRead
    \/ \E row \in Addresses \X Members : SweepExpire(row) \/ SweepFail(row)
    \/ \E a \in Addresses : Cancel(a)
    \/ \E u \in Moderated, b \in BOOLEAN : SetCanInvite(u, b) \/ SetDisabled(u, b)
    \/ \E batch \in SUBSET Members, rank \in RankSettings : GrantRead(batch, rank)
    \/ GrantWrite \/ GrantLost \/ Tick

Spec == Init /\ [][Next]_vars

\* The sweep is an hourly timer; a row's transaction does not fail every time.
Fairness ==
    /\ WF_vars(SweepRead)
    /\ \A row \in Addresses \X Members : SF_vars(SweepExpire(row))

FairSpec == Spec /\ Fairness

-----------------------------------------------------------------------------
(* Properties                                                              *)

\* The paid invites that are out, pending or used.
PaidOut == {a \in Addresses : invite[a].status \in {"pending", "accepted"} /\ invite[a].spent}

(***************************************************************************)
(* No invite is made or lost: what members hold and what they have spent   *)
(* on invites pending or used is what was handed out.  An invite returned  *)
(* twice, one both used and returned, and a count written over a           *)
(* concurrent spend would break it.                                        *)
(***************************************************************************)
InvitesConserved == Total(inviteCount) + Cardinality(PaidOut) = handedOut

(***************************************************************************)
(* An invite that leaves pending without being accepted returns to its     *)
(* inviter, as the schema's comment on cancelled says: to the member who   *)
(* spent it, not to one who had invited the address before.                *)
(***************************************************************************)
InviteReturnsToInviter ==
    [][\A a \in Addresses :
          /\ Pending(a) /\ invite[a].spent
          /\ invite'[a].status \in {"expired", "cancelled"}
          => inviteCount'[invite[a].inviter] = inviteCount[invite[a].inviter] + 1]_vars

(***************************************************************************)
(* The invite tree records exactly the invites that were used: an account  *)
(* has an edge to the sender of the accepted invite to its address, and    *)
(* none otherwise, whatever was re-sent, cancelled or swept in between.    *)
(***************************************************************************)
TreeFollowsInvites ==
    \A a \in Addresses :
        /\ invite[a].status = "accepted" => a \in registered /\ tree[a] = invite[a].inviter
        /\ tree[a] # None => invite[a].status = "accepted"

(***************************************************************************)
(* A cancelled invite holds its address to the end of its lifetime, so     *)
(* sending and withdrawing in a loop mails an address once a lifetime.     *)
(***************************************************************************)
CancelledHoldsAddress ==
    [][\A a \in Addresses :
          invite[a].status = "cancelled" /\ invite'[a] # invite[a] => invite[a].expires <= clock]_vars

\* Staff's edit of u's count ends.
EditedByStaff(u) == \E s \in Requests : req[s].op = "recount" /\ req[s].by = u /\ req'[s] = Idle

(***************************************************************************)
(* The cap bounds accrual: a grant, however stale the balance it was       *)
(* planned on, takes nobody above their rank's cap as the batch read it.   *)
(* Only an invite coming back does, or a staff edit, which the cap does    *)
(* not bind.                                                               *)
(***************************************************************************)
GrantsKeepToCap ==
    [][\A u \in Members :
          inviteCount'[u] > inviteCount[u] /\ inviteCount'[u] > grants.cap
          => EditedByStaff(u) \/ \E a \in Addresses : Pending(a) /\ invite'[a] # invite[a]]_vars

(***************************************************************************)
(* No invite stays lapsed and unreturned: the sweep comes to it.           *)
(***************************************************************************)
LapsedInvitesEnd ==
    \A a \in Addresses : ~<>[](LapsedPending(a, clock))
=============================================================================
