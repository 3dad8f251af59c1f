----------------------------- MODULE RatioPolicy -----------------------------
(***************************************************************************)
(* The ratio policy (modules/ratioPolicy.ts, ratioPolicyRules.ts and       *)
(* ratioPolicyJob.ts): a member short of their required ratio is put on    *)
(* watch by their next download, a watch ends cleared or with downloads    *)
(* disabled, and a disable the rules made lifts once the ratio is met.     *)
(* Staff overrides are absolute writes.                                    *)
(*                                                                         *)
(* An evaluation reads the ratio figures, then the policy row, decides,    *)
(* and claims the row as it read it; evaluations of one member, started    *)
(* by downloads and by the daily sweep, and overrides interleave.          *)
(***************************************************************************)
EXTENDS Integers, FiniteSets

CONSTANTS Members,
          Evaluations,    \* slots for evaluations in flight
          Sweeper,        \* the slot of the daily sweep, which runs one at a time
          WatchDuration,  \* WATCH_DURATION_MS, in ticks of the clock
          DownloadLimit,  \* WATCH_DOWNLOAD_LIMIT, in downloads
          MaxClock,       \* bound: the last tick
          MaxConsumed,    \* bound: the most a member downloads
          Never           \* SQL null in a date or byte column

VARIABLES clock,
          meets,          \* getRatioStats(u).meetsRequirement, were it read now
          consumed,       \* User.consumed
          canDownload,    \* User.canDownload
          policy,         \* the RatioPolicyState rows
          cycleNow,       \* the instant the sweep's current cycle started
          ev,             \* the evaluations in flight
          bytesRead       \* the consumed a staff override in flight has read

vars == <<clock, meets, consumed, canDownload, policy, cycleNow, ev, bytesRead>>

ASSUME NeverIsNoNumber == Never \notin Int
ASSUME SweeperIsEvaluation == Sweeper \in Evaluations
ASSUME BoundsAreNatural ==
    /\ WatchDuration \in Nat \ {0} /\ DownloadLimit \in Nat \ {0}
    /\ MaxClock \in Nat /\ MaxConsumed \in Nat

Statuses == {"OK", "WATCH", "DOWNLOAD_DISABLED"}

PolicyRows ==
    [status : Statuses, cause : {"none", "RATIO", "STAFF"},
     started : Nat \cup {Never}, expires : Nat \cup {Never}, baseline : Nat \cup {Never}]

\* A row from a clean slate: no watch, no disable.
Cleared == [status |-> "OK", cause |-> "none",
            started |-> Never, expires |-> Never, baseline |-> Never]

\* Mutant: the watch expires before it starts.
WatchBackdated(now, bytes) ==
    [status |-> "WATCH", cause |-> "none",
     started |-> now, expires |-> now - WatchDuration, baseline |-> bytes]

Watch(now, bytes) ==
    [status |-> "WATCH", cause |-> "none",
     started |-> now, expires |-> now + WatchDuration, baseline |-> bytes]

Movers == {"nobody", "download", "sweep"}

Idle == [step |-> "idle", of |-> Never, by |-> "nobody", now |-> 0, meets |-> TRUE,
         consumed |-> 0, row |-> Cleared, overridden |-> FALSE]

EvaluationStates ==
    [step : {"idle", "read", "load", "claim"}, of : Members \cup {Never}, by : Movers,
     now : Nat, meets : BOOLEAN, consumed : Nat, row : PolicyRows, overridden : BOOLEAN]

TypeOK ==
    /\ clock \in Nat
    /\ meets \in [Members -> BOOLEAN]
    /\ consumed \in [Members -> Nat]
    /\ canDownload \in [Members -> BOOLEAN]
    /\ policy \in [Members -> PolicyRows]
    /\ cycleNow \in Nat
    /\ ev \in [Evaluations -> EvaluationStates]
    /\ bytesRead \in [Members -> Nat \cup {Never}]

\* A member without a row reads as OK, which is the row loadPolicyRow creates.
Init ==
    /\ clock = 0
    /\ meets = [u \in Members |-> TRUE]
    /\ consumed = [u \in Members |-> 0]
    /\ canDownload = [u \in Members |-> TRUE]
    /\ policy = [u \in Members |-> Cleared]
    /\ cycleNow = 0
    /\ ev = [e \in Evaluations |-> Idle]
    /\ bytesRead = [u \in Members |-> Never]

-----------------------------------------------------------------------------
(* The rules: the row a transition of `row` writes, or `row` for none.     *)

LimitReached(row, bytes) == row.baseline # Never /\ bytes - row.baseline >= DownloadLimit
Expired(row, now) == row.expires # Never /\ now >= row.expires

\* A disable keeps the fields of the watch it ended.
Disabled(row) == [row EXCEPT !.status = "DOWNLOAD_DISABLED", !.cause = "RATIO"]

\* requiredRatio > 0 is implied by not meeting it.
FromOK(row, m, bytes, now, by) ==
    IF by = "download" /\ ~m THEN Watch(now, bytes) ELSE row

FromWatch(row, m, bytes, now) ==
    IF m THEN Cleared
    ELSE IF LimitReached(row, bytes) \/ Expired(row, now) THEN Disabled(row) ELSE row

\* Only a disable the rules made lifts.
FromDisabled(row, m) == IF row.cause = "RATIO" /\ m THEN Cleared ELSE row

Decide(row, m, bytes, now, by) ==
    CASE row.status = "OK" -> FromOK(row, m, bytes, now, by)
      [] row.status = "WATCH" -> FromWatch(row, m, bytes, now)
      [] row.status = "DOWNLOAD_DISABLED" -> FromDisabled(row, m)

\* Mutants: the sweep leaves out the disabled; it leaves out the watched.
SweepableWatches(u) == policy[u].status = "WATCH"
SweepableDisables(u) == policy[u].status = "DOWNLOAD_DISABLED" /\ policy[u].cause = "RATIO"

\* Whom the sweep walks.
Sweepable(u) ==
    \/ policy[u].status = "WATCH"
    \/ policy[u].status = "DOWNLOAD_DISABLED" /\ policy[u].cause = "RATIO"

-----------------------------------------------------------------------------
(* An evaluation: applyRatioRules.                                         *)

Start(e, u, by, now) ==
    /\ ev[e] = Idle
    /\ ev' = [ev EXCEPT ![e] = [Idle EXCEPT !.step = "read", !.of = u, !.by = by, !.now = now]]

\* The figures move: a download, a pledge, a refund or a reversal moves consumed,
\* and these, contributions, fills and dead links move the ratio.
FiguresMove(u, step) ==
    /\ consumed[u] + step \in 0 .. MaxConsumed
    /\ consumed' = [consumed EXCEPT ![u] = @ + step]
    /\ \E m \in BOOLEAN : meets' = [meets EXCEPT ![u] = m]

\* A download, whose grant may be an exempt or a repeated one, and the evaluation
\* it starts in the background (evaluateRatioPolicy).  What can start a watch, a
\* download or an override, has an instant of its own: the clock moves on.
Download(e, u) ==
    /\ e # Sweeper
    /\ clock < MaxClock
    /\ canDownload[u]
    /\ \E step \in {0, 1} : FiguresMove(u, step)
    /\ Start(e, u, "download", clock)
    /\ clock' = clock + 1
    /\ UNCHANGED <<canDownload, policy, cycleNow, bytesRead>>

\* runRatioPolicyCycle begins; every member it walks is judged at this instant.
StartCycle ==
    /\ ev[Sweeper] = Idle
    /\ cycleNow' = clock
    /\ UNCHANGED <<clock, meets, consumed, canDownload, policy, ev, bytesRead>>

\* The cycle comes to u.  One its batch query found sweepable who is not any
\* more when their turn comes is evaluated to no effect.
Sweep(u) ==
    /\ Sweepable(u)
    /\ Start(Sweeper, u, "sweep", cycleNow)
    /\ UNCHANGED <<clock, meets, consumed, canDownload, policy, cycleNow, bytesRead>>

\* getRatioStats and the member's consumed.  meets moves freely, so reading the
\* two one after the other would read nothing that reading them at once cannot.
ReadFigures(e) ==
    LET u == ev[e].of IN
    /\ ev[e].step = "read"
    /\ ev' = [ev EXCEPT ![e].step = "load", ![e].meets = meets[u], ![e].consumed = consumed[u]]
    /\ UNCHANGED <<clock, meets, consumed, canDownload, policy, cycleNow, bytesRead>>

Decided(e, row) == Decide(row, ev[e].meets, ev[e].consumed, ev[e].now, ev[e].by)

\* loadPolicyRow and the decision; without a transition the evaluation is over.
LoadRow(e) ==
    LET row == policy[ev[e].of] IN
    /\ ev[e].step = "load"
    /\ ev' = [ev EXCEPT ![e] = IF Decided(e, row) = row THEN Idle
                               ELSE [@ EXCEPT !.step = "claim", !.row = row]]
    /\ UNCHANGED <<clock, meets, consumed, canDownload, policy, cycleNow, bytesRead>>

\* Mutants: the claim matches the status only; it leaves the watch start out.
ClaimMatchesStatus(u, row) == policy[u].status = row.status
ClaimMatchesCause(u, row) == policy[u].status = row.status /\ policy[u].cause = row.cause

\* ratioClaimWhere
ClaimMatches(u, row) ==
    /\ policy[u].status = row.status
    /\ policy[u].cause = row.cause
    /\ policy[u].started = row.started

\* What an UPDATE with the target of a transition leaves of the row it found.
Written(found, target) ==
    IF target.cause = "RATIO" THEN Disabled(found) ELSE target

\* Mutant: canDownload is written whether or not the claim matched.
DownloadAfterAnyClaim(u, target, claimed) ==
    [canDownload EXCEPT ![u] = target.status # "DOWNLOAD_DISABLED"]

DownloadAfter(u, target, claimed) ==
    [canDownload EXCEPT ![u] = IF claimed THEN target.status # "DOWNLOAD_DISABLED" ELSE @]

\* claimTransition: the row, canDownload and the audit row, if the claim matched.
ClaimTransition(e) ==
    LET u == ev[e].of
        target == Decided(e, ev[e].row) IN
    /\ ev[e].step = "claim"
    /\ ev' = [ev EXCEPT ![e] = Idle]
    /\ \/ /\ ClaimMatches(u, ev[e].row)
          /\ policy' = [policy EXCEPT ![u] = Written(@, target)]
       \/ /\ ~ClaimMatches(u, ev[e].row)
          /\ UNCHANGED policy
    /\ canDownload' = DownloadAfter(u, target, ClaimMatches(u, ev[e].row))
    /\ UNCHANGED <<clock, meets, consumed, cycleNow, bytesRead>>

\* A failed evaluation is logged and forgotten; so is one a restart cuts off.
Fail(e) ==
    /\ ev[e] # Idle
    /\ ev' = [ev EXCEPT ![e] = Idle]
    /\ UNCHANGED <<clock, meets, consumed, canDownload, policy, cycleNow, bytesRead>>

-----------------------------------------------------------------------------
(* overridePolicyStatus                                                    *)

OverrideState(status, bytes, now) ==
    CASE status = "OK" -> Cleared
      [] status = "WATCH" -> Watch(now, bytes)
      [] status = "DOWNLOAD_DISABLED" -> [Cleared EXCEPT !.status = status, !.cause = "STAFF"]

\* The transaction reads the member's consumed.
OverrideRead(u) ==
    /\ bytesRead[u] = Never
    /\ bytesRead' = [bytesRead EXCEPT ![u] = consumed[u]]
    /\ UNCHANGED <<clock, meets, consumed, canDownload, policy, cycleNow, ev>>

\* The instant and, at it, one absolute write, whatever moved since the read.
\* Evaluations that have read the row remember that staff have decided since.
Override(u, status) ==
    /\ bytesRead[u] # Never
    /\ status = "WATCH" => clock < MaxClock
    /\ clock' = IF status = "WATCH" THEN clock + 1 ELSE clock
    /\ policy' = [policy EXCEPT ![u] = OverrideState(status, bytesRead[u], clock)]
    /\ canDownload' = [canDownload EXCEPT ![u] = status # "DOWNLOAD_DISABLED"]
    /\ bytesRead' = [bytesRead EXCEPT ![u] = Never]
    /\ ev' = [e \in Evaluations |->
                 IF ev[e].of = u /\ ev[e].step = "claim" THEN [ev[e] EXCEPT !.overridden = TRUE]
                                                         ELSE ev[e]]
    /\ UNCHANGED <<meets, consumed, cycleNow>>

-----------------------------------------------------------------------------
(* Around them.                                                            *)

\* None of these calls the evaluator.
FiguresChange(u) ==
    /\ \E step \in {-1, 0, 1} : FiguresMove(u, step)
    /\ UNCHANGED <<clock, canDownload, policy, cycleNow, ev, bytesRead>>

Tick ==
    /\ clock < MaxClock
    /\ clock' = clock + 1
    /\ UNCHANGED <<meets, consumed, canDownload, policy, cycleNow, ev, bytesRead>>

Evaluate(e) == ReadFigures(e) \/ LoadRow(e) \/ ClaimTransition(e)

Next ==
    \/ \E e \in Evaluations : Evaluate(e) \/ Fail(e) \/ \E u \in Members : Download(e, u)
    \/ \E u \in Members : \/ Sweep(u) \/ FiguresChange(u) \/ OverrideRead(u)
                          \/ \E status \in Statuses : Override(u, status)
    \/ StartCycle \/ Tick

Spec == Init /\ [][Next]_vars

(***************************************************************************)
(* The sweep runs daily and comes to every member its query finds, time    *)
(* passes, and the sweep's evaluation of a member is not cut off every     *)
(* time: strong fairness on its steps, since a failure may end any one.    *)
(* Nothing is asked of evaluations started by downloads.                   *)
(***************************************************************************)
Fairness ==
    /\ SF_vars(StartCycle) /\ \A u \in Members : SF_vars(Sweep(u))
    /\ SF_vars(ReadFigures(Sweeper)) /\ SF_vars(LoadRow(Sweeper))
    /\ SF_vars(ClaimTransition(Sweeper))
    /\ WF_vars(Tick)

FairSpec == Spec /\ Fairness

-----------------------------------------------------------------------------
(* Properties                                                              *)

(***************************************************************************)
(* A member can download exactly while the policy has not disabled them,   *)
(* whoever wrote the row last and whatever was in flight.                  *)
(***************************************************************************)
CanDownloadFollowsStatus ==
    \A u \in Members : canDownload[u] <=> policy[u].status # "DOWNLOAD_DISABLED"

(***************************************************************************)
(* An evaluation moves a row only along the rules' four transitions, from  *)
(* what the row is when it is written: a watch is not restarted by a       *)
(* second evaluation and a staff disable never lifts, however stale the    *)
(* read the evaluation decided on.                                         *)
(***************************************************************************)
LegalMove(from, to) ==
    \/ from.status = "OK" /\ to.status = "WATCH"
    \/ from.status = "WATCH" /\ to.status = "OK"
    \/ from.status = "WATCH" /\ to.status = "DOWNLOAD_DISABLED" /\ to.cause = "RATIO"
    \/ from.cause = "RATIO" /\ to.status = "OK"

\* Evaluation e of member u ends, by its claim or by a failure.
Ends(e, u) == ev[e].step = "claim" /\ ev[e].of = u /\ ev'[e] = Idle

EvaluationsMoveLegally ==
    [][\A e \in Evaluations, u \in Members :
          Ends(e, u) /\ policy'[u] # policy[u] => LegalMove(policy[u], policy'[u])]_vars

(***************************************************************************)
(* A watch is ended with a disable only on its own account: its own term   *)
(* has expired at the instant the evaluation judges by, or the bytes it    *)
(* read reach the limit counted from the watch's own start.  A stale read  *)
(* of an expired watch must not disable the watch staff have re-set since. *)
(***************************************************************************)
WatchJudgedOnItself ==
    [][\A e \in Evaluations, u \in Members :
          Ends(e, u) /\ policy[u].status = "WATCH" /\ policy'[u].cause = "RATIO"
          => Expired(policy[u], ev[e].now) \/ LimitReached(policy[u], ev[e].consumed)]_vars

(***************************************************************************)
(* A staff override that landed after an evaluation read the row leaves    *)
(* that evaluation nothing to move, as the comment on claimTransition      *)
(* says.                                                                   *)
(***************************************************************************)
OverrideWins ==
    [][\A e \in Evaluations, u \in Members :
          Ends(e, u) /\ ev[e].overridden => policy'[u] = policy[u]]_vars

(***************************************************************************)
(* A disable the rules made lifts: no member goes on meeting their         *)
(* requirement for ever with downloads disabled for their ratio.           *)
(***************************************************************************)
RatioDisableLifts ==
    \A u \in Members :
        ~<>[](meets[u] /\ policy[u].status = "DOWNLOAD_DISABLED" /\ policy[u].cause = "RATIO")

(***************************************************************************)
(* Every watch ends: none stays on past its term, idle as the member be.   *)
(***************************************************************************)
WatchEnds ==
    \A u \in Members : ~<>[](policy[u].status = "WATCH" /\ Expired(policy[u], clock))
=============================================================================
