------------------------------ MODULE Recovery ------------------------------
(***************************************************************************)
(* Password recovery of one member (modules/auth.ts persistRecoveryToken,  *)
(* resetPasswordWithToken; routes/api/user.ts staff revoke). Rows of       *)
(* different members never meet.                                           *)
(*                                                                         *)
(* A transaction's statements run one at a time. An UPDATE picks its rows  *)
(* from the ones committed when it begins, waits for those another         *)
(* transaction has locked, and then takes the ones that still match.  What *)
(* it compares expiresAt with is the instant the request looked at its     *)
(* clock, before it waited for anything.                                   *)
(***************************************************************************)
EXTENDS Naturals

CONSTANTS Tokens,        \* the tokens that may be mailed
          Transactions,  \* slots for the requests in flight
          None,          \* no token
          Lifetime,      \* the two hours a token is good for
          LastInstant    \* bound: the clock stops there

VARIABLES instant,  \* the time
          token,    \* the committed AccountRecovery rows
          recovery, \* the requests in flight
          revoking, \* the tokens staff are about to delete
          sets,     \* how often each token has set the password
          retired   \* <<token, instant>>: a finished reset or request of that
                    \* instant has put an end to the token

vars == <<instant, token, recovery, revoking, sets, retired>>

\* "open": usedAt is null.
Rows == [status : {"unissued", "open", "used", "deleted"}, expires : Nat]

\* held: the rows the transaction has locked; rows: the ones its UPDATE has picked.
TxStates ==
    [step : {"idle", "issue", "picking", "issuing", "read", "reset", "claimed", "picked", "done"},
     own : Tokens \cup {None}, now : Nat, held : SUBSET Tokens, rows : SUBSET Tokens]

\* What the constants are assumed to be.
Assumptions == None \notin Tokens /\ Lifetime \in Nat /\ LastInstant \in Nat

TypeOK ==
    /\ instant \in Nat
    /\ token \in [Tokens -> Rows]
    /\ recovery \in [Transactions -> TxStates]
    /\ revoking \subseteq Tokens
    /\ sets \in [Tokens -> Nat]
    /\ retired \subseteq Tokens \X Nat

Idle == [step |-> "idle", own |-> None, now |-> 0, held |-> {}, rows |-> {}]

Init ==
    /\ instant = 0
    /\ token = [k \in Tokens |-> [status |-> "unissued", expires |-> 0]]
    /\ recovery = [t \in Transactions |-> Idle]
    /\ revoking = {}
    /\ sets = [k \in Tokens |-> 0]
    /\ retired = {}

\* usedAt: null, expiresAt: { gt: now }
Outlives(k, now) == token[k].status = "open" /\ token[k].expires > now

Live(now) == {k \in Tokens : Outlives(k, now)}

\* No other transaction holds a lock on one of the rows.
MayLock(t, rows) == \A u \in Transactions \ {t} : recovery[u].held \cap rows = {}

Finish(t) == [recovery EXCEPT ![t] = Idle]

\* The rows of transaction t that still match are its own now.
Take(t, step) ==
    LET x == recovery[t] IN
    [recovery EXCEPT ![t].step = step, ![t].held = x.held \cup (x.rows \cap Live(x.now))]

\* data: { expiresAt: now }, on the rows transaction t holds.
Expired(t, k) ==
    IF k \in recovery[t].held THEN [token[k] EXCEPT !.expires = recovery[t].now] ELSE token[k]

\* Mutant: the token is claimed by its id alone.
ClaimById(k, now) == token[k].status \in {"open", "used"}

\* The claim's condition: unused, and unexpired at the instant of the reset.
ClaimMatches(k, now) == Outlives(k, now)

-----------------------------------------------------------------------------
(* A recovery request, once its mail is sent.                              *)

IssueBegin(t, k) ==
    /\ recovery[t] = Idle
    /\ token[k].status = "unissued"
    /\ \A u \in Transactions :
          recovery[u].step \in {"issue", "picking", "issuing"} => recovery[u].own # k
    /\ recovery' = [recovery EXCEPT ![t] = [Idle EXCEPT !.step = "issue", !.own = k, !.now = instant]]
    /\ UNCHANGED <<instant, token, revoking, sets, retired>>

\* The UPDATE that expires the member's pending tokens begins.
IssuePick(t) ==
    /\ recovery[t].step = "issue"
    /\ recovery' = [recovery EXCEPT ![t].step = "picking", ![t].rows = Live(recovery[t].now)]
    /\ UNCHANGED <<instant, token, revoking, sets, retired>>

IssueExpire(t) ==
    /\ recovery[t].step = "picking"
    /\ MayLock(t, recovery[t].rows)
    /\ recovery' = Take(t, "issuing")
    /\ UNCHANGED <<instant, token, revoking, sets, retired>>

IssueCommit(t) ==
    LET x == recovery[t] IN
    /\ x.step = "issuing"
    /\ token' = [k \in Tokens |->
                   IF k = x.own THEN [status |-> "open", expires |-> x.now + Lifetime]
                   ELSE Expired(t, k)]
    /\ retired' = retired \cup (x.held \X {x.now})
    /\ recovery' = Finish(t)
    /\ UNCHANGED <<instant, revoking, sets>>

-----------------------------------------------------------------------------
(* A reset.                                                                *)

ResetRead(t, k) ==
    /\ recovery[t] = Idle
    /\ Outlives(k, instant)
    /\ recovery' = [recovery EXCEPT ![t] = [Idle EXCEPT !.step = "read", !.own = k]]
    /\ UNCHANGED <<instant, token, revoking, sets, retired>>

\* The password is hashed; the transaction looks at the clock.
ResetBegin(t) ==
    /\ recovery[t].step = "read"
    /\ recovery' = [recovery EXCEPT ![t].step = "reset", ![t].now = instant]
    /\ UNCHANGED <<instant, token, revoking, sets, retired>>

\* A claim that matches nothing answers as an unknown token does.
ResetClaim(t) ==
    LET x == recovery[t] IN
    /\ x.step = "reset"
    /\ MayLock(t, {x.own})
    /\ recovery' = IF ClaimMatches(x.own, x.now)
                   THEN [recovery EXCEPT ![t].step = "claimed", ![t].held = {x.own}]
                   ELSE Finish(t)
    /\ UNCHANGED <<instant, token, revoking, sets, retired>>

\* The UPDATE that expires the member's other tokens begins.
ResetPick(t) ==
    LET x == recovery[t] IN
    /\ x.step = "claimed"
    /\ recovery' = [recovery EXCEPT ![t].step = "picked", ![t].rows = Live(x.now) \ {x.own}]
    /\ UNCHANGED <<instant, token, revoking, sets, retired>>

ResetExpire(t) ==
    /\ recovery[t].step = "picked"
    /\ MayLock(t, recovery[t].rows)
    /\ recovery' = Take(t, "done")
    /\ UNCHANGED <<instant, token, revoking, sets, retired>>

\* The password is set and the sessions are revoked.
ResetCommit(t) ==
    LET x == recovery[t] IN
    /\ x.step = "done"
    /\ token' = [k \in Tokens |->
                   IF k = x.own THEN [token[k] EXCEPT !.status = "used"] ELSE Expired(t, k)]
    /\ sets' = [sets EXCEPT ![x.own] = @ + 1]
    /\ retired' = retired \cup (x.held \X {x.now})
    /\ recovery' = Finish(t)
    /\ UNCHANGED <<instant, revoking>>

-----------------------------------------------------------------------------
(* Staff, time and failures.                                               *)

\* Staff delete a token they have read as unused.
RevokeRead(k) ==
    /\ token[k].status = "open"
    /\ revoking' = revoking \cup {k}
    /\ UNCHANGED <<instant, token, recovery, sets, retired>>

Revoke(k) ==
    /\ k \in revoking
    /\ \A t \in Transactions : k \notin recovery[t].held
    /\ token' = [token EXCEPT ![k].status = "deleted"]
    /\ revoking' = revoking \ {k}
    /\ UNCHANGED <<instant, recovery, sets, retired>>

Tick ==
    /\ instant < LastInstant
    /\ instant' = instant + 1
    /\ UNCHANGED <<token, recovery, revoking, sets, retired>>

\* A banned password, an error, a crash, or the victim of a deadlock: two
\* resets that have claimed one token each wait for the other's.
Abort(t) ==
    /\ recovery[t] # Idle
    /\ recovery' = Finish(t)
    /\ UNCHANGED <<instant, token, revoking, sets, retired>>

Next ==
    \/ \E t \in Transactions :
          \/ \E k \in Tokens : IssueBegin(t, k) \/ ResetRead(t, k)
          \/ IssuePick(t) \/ IssueExpire(t) \/ IssueCommit(t)
          \/ ResetBegin(t) \/ ResetClaim(t) \/ ResetPick(t) \/ ResetExpire(t) \/ ResetCommit(t)
          \/ Abort(t)
    \/ \E k \in Tokens : RevokeRead(k) \/ Revoke(k)
    \/ Tick

Spec == Init /\ [][Next]_vars

-----------------------------------------------------------------------------
(* A token that has set the password never sets it again, and one that a   *)
(* newer request or a finished reset has put an end to sets none for a     *)
(* reset of that instant or a later one (auth.ts:614, #764), whatever was  *)
(* in flight meanwhile.  A reset that looked at the clock before them and  *)
(* claims after them is served: expiresAt is later than its instant.       *)
RetiredTokensSetNothing ==
    [][\A t \in Transactions :
          LET x == recovery[t] IN
          sets' # sets /\ recovery'[t] # x /\ x.step = "done" =>
              /\ sets[x.own] = 0
              /\ \A n \in 0 .. x.now : <<x.own, n>> \notin retired]_vars
=============================================================================
