------------------------- MODULE RatioPolicy_proofs -------------------------
(***************************************************************************)
(* RatioPolicy for any set of members, any number of evaluations in flight *)
(* and any watch length, limit and bound: the type invariant, that         *)
(* canDownload always agrees with the policy row, that no evaluation,      *)
(* however stale what it read, moves a row off the rules' transitions, and *)
(* that a disable ends a watch only on that watch's own account.           *)
(***************************************************************************)
EXTENDS RatioPolicy, TLAPS

(***************************************************************************)
(* The strengthening: a disable has a cause and nothing else does, and an  *)
(* evaluation that is about to claim has a member, a row of that shape and *)
(* a transition to make.                                                   *)
(***************************************************************************)
WellFormed(row) == row.status = "DOWNLOAD_DISABLED" <=> row.cause # "none"

RowsWellFormed == \A u \in Members : WellFormed(policy[u])

HasWork(x) ==
    /\ x.step # "idle" => x.of \in Members
    /\ x.step = "claim" =>
          /\ WellFormed(x.row)
          /\ Decide(x.row, x.meets, x.consumed, x.now, x.by) # x.row

EvaluationsHaveWork == \A e \in Evaluations : HasWork(ev[e])

IInv == TypeOK /\ CanDownloadFollowsStatus /\ RowsWellFormed /\ EvaluationsHaveWork

-----------------------------------------------------------------------------
(* The rules.                                                              *)

LEMMA ClearedIsRow == Cleared \in PolicyRows
  BY DEF Cleared, PolicyRows, Statuses

LEMMA WatchIsRow ==
  ASSUME NEW now \in Nat, NEW bytes \in Nat
  PROVE  Watch(now, bytes) \in PolicyRows
  <1>1. now + WatchDuration \in Nat
    BY BoundsAreNatural
  <1> QED BY <1>1 DEF Watch, PolicyRows, Statuses

LEMMA DisabledIsRow ==
  ASSUME NEW row \in PolicyRows
  PROVE  Disabled(row) \in PolicyRows
  BY DEF Disabled, PolicyRows, Statuses

(***************************************************************************)
(* decideRatioTransition on a well-formed row either leaves it or answers  *)
(* with a well-formed target of one of the four transitions.               *)
(***************************************************************************)
LEMMA DecideIsLegal ==
  ASSUME NEW row \in PolicyRows, WellFormed(row),
         NEW m \in BOOLEAN, NEW bytes \in Nat, NEW now \in Nat, NEW by \in Movers,
         NEW target, target = Decide(row, m, bytes, now, by)
  PROVE  /\ target \in PolicyRows
         /\ WellFormed(target)
         /\ target # row => /\ LegalMove(row, target)
                            /\ target.cause # "none" => target.cause = "RATIO"
  <1>1. CASE row.status = "OK"
    <2>1. target = FromOK(row, m, bytes, now, by)
      BY <1>1 DEF Decide
    <2>2. CASE by = "download" /\ ~m
      <3>1. target = Watch(now, bytes)
        BY <2>1, <2>2 DEF FromOK
      <3>2. target.status = "WATCH" /\ target.cause = "none"
        BY <3>1 DEF Watch
      <3> QED BY <1>1, <3>1, <3>2, WatchIsRow DEF WellFormed, LegalMove
    <2>3. CASE ~(by = "download" /\ ~m)
      BY <2>1, <2>3 DEF FromOK
    <2> QED BY <2>2, <2>3
  <1>2. CASE row.status = "WATCH"
    <2>1. target = FromWatch(row, m, bytes, now)
      BY <1>2 DEF Decide
    <2>2. CASE m
      <3>1. target = Cleared
        BY <2>1, <2>2 DEF FromWatch
      <3> QED BY <1>2, <3>1, ClearedIsRow DEF Cleared, WellFormed, LegalMove
    <2>3. CASE ~m /\ (LimitReached(row, bytes) \/ Expired(row, now))
      <3>1. target = Disabled(row)
        BY <2>1, <2>3 DEF FromWatch
      <3>2. target.status = "DOWNLOAD_DISABLED" /\ target.cause = "RATIO"
        BY <3>1 DEF Disabled, PolicyRows
      <3> QED BY <1>2, <3>1, <3>2, DisabledIsRow DEF WellFormed, LegalMove
    <2>4. CASE ~m /\ ~(LimitReached(row, bytes) \/ Expired(row, now))
      BY <2>1, <2>4 DEF FromWatch
    <2> QED BY <2>2, <2>3, <2>4
  <1>3. CASE row.status = "DOWNLOAD_DISABLED"
    <2>1. target = FromDisabled(row, m)
      BY <1>3 DEF Decide
    <2>2. CASE row.cause = "RATIO" /\ m
      <3>1. target = Cleared
        BY <2>1, <2>2 DEF FromDisabled
      <3>2. target.status = "OK" /\ target.cause = "none"
        BY <3>1 DEF Cleared
      <3> QED BY <2>2, <3>1, <3>2, ClearedIsRow DEF WellFormed, LegalMove
    <2>3. CASE ~(row.cause = "RATIO" /\ m)
      BY <2>1, <2>3 DEF FromDisabled
    <2> QED BY <2>2, <2>3
  <1> QED BY <1>1, <1>2, <1>3 DEF PolicyRows, Statuses

-----------------------------------------------------------------------------
(* The evaluations in flight.                                              *)

LEMMA IdleIsState == Idle \in EvaluationStates /\ HasWork(Idle)
  BY ClearedIsRow DEF Idle, EvaluationStates, Movers, HasWork

(***************************************************************************)
(* Replacing one evaluation by another that has work keeps them all so.    *)
(***************************************************************************)
LEMMA ReplaceEvaluation ==
  ASSUME ev \in [Evaluations -> EvaluationStates], EvaluationsHaveWork,
         NEW e \in Evaluations, NEW x \in EvaluationStates, HasWork(x),
         ev' = [ev EXCEPT ![e] = x]
  PROVE  ev' \in [Evaluations -> EvaluationStates] /\ EvaluationsHaveWork'
  <1>1. ev' \in [Evaluations -> EvaluationStates]
    OBVIOUS
  <1>2. ASSUME NEW d \in Evaluations
        PROVE  HasWork(ev'[d])
    BY <1>2, ev'[d] = IF d = e THEN x ELSE ev[d] DEF EvaluationsHaveWork
  <1>3. EvaluationsHaveWork'
    BY <1>2 DEF EvaluationsHaveWork
  <1> QED BY <1>1, <1>3

(***************************************************************************)
(* Steps that leave the policy alone and touch one evaluation at most.     *)
(***************************************************************************)
Moves == \A e \in Evaluations, u \in Members :
            Ends(e, u) /\ policy'[u] # policy[u] => LegalMove(policy[u], policy'[u])

LEMMA QuietStep ==
  ASSUME IInv,
         clock' \in Nat, cycleNow' \in Nat,
         meets' \in [Members -> BOOLEAN], consumed' \in [Members -> Nat],
         bytesRead' \in [Members -> Nat \cup {Never}],
         UNCHANGED <<canDownload, policy>>,
         \/ ev' = ev
         \/ \E e \in Evaluations, x \in EvaluationStates :
               HasWork(x) /\ ev' = [ev EXCEPT ![e] = x]
  PROVE  IInv' /\ Moves
  <1>1. ev' \in [Evaluations -> EvaluationStates] /\ EvaluationsHaveWork'
    <2>1. CASE ev' = ev
      BY <2>1 DEF IInv, TypeOK, EvaluationsHaveWork
    <2>2. ASSUME NEW e \in Evaluations, NEW x \in EvaluationStates, HasWork(x),
                 ev' = [ev EXCEPT ![e] = x]
          PROVE  ev' \in [Evaluations -> EvaluationStates] /\ EvaluationsHaveWork'
      BY <2>2, ReplaceEvaluation DEF IInv, TypeOK
    <2> QED BY <2>1, <2>2
  <1>2. TypeOK'
    BY <1>1 DEF IInv, TypeOK
  <1>3. CanDownloadFollowsStatus' /\ RowsWellFormed'
    BY DEF IInv, CanDownloadFollowsStatus, RowsWellFormed
  <1>4. Moves
    BY DEF Moves
  <1> QED BY <1>1, <1>2, <1>3, <1>4 DEF IInv

LEMMA StartStep ==
  ASSUME IInv, NEW e \in Evaluations, NEW u \in Members, NEW by \in Movers, NEW now \in Nat, Start(e, u, by, now)
  PROVE  \E x \in EvaluationStates : HasWork(x) /\ ev' = [ev EXCEPT ![e] = x]
  <1> DEFINE x == [Idle EXCEPT !.step = "read", !.of = u, !.by = by, !.now = now]
  <1>1. x \in EvaluationStates /\ HasWork(x)
    BY IdleIsState DEF IInv, TypeOK, Idle, EvaluationStates, HasWork
  <1> QED BY <1>1 DEF Start

LEMMA DownloadStep ==
  ASSUME IInv, NEW e \in Evaluations, NEW u \in Members, Download(e, u)
  PROVE  IInv' /\ Moves
  <1>1. /\ clock' \in Nat /\ cycleNow' \in Nat
        /\ meets' \in [Members -> BOOLEAN] /\ consumed' \in [Members -> Nat]
        /\ bytesRead' \in [Members -> Nat \cup {Never}]
    BY DEF IInv, TypeOK, Download, FiguresMove
  <1>2. \E x \in EvaluationStates : HasWork(x) /\ ev' = [ev EXCEPT ![e] = x]
    BY StartStep DEF Download, Movers, IInv, TypeOK
  <1> QED BY <1>1, <1>2, QuietStep DEF Download

LEMMA SweepStep ==
  ASSUME IInv, NEW u \in Members, Sweep(u)
  PROVE  IInv' /\ Moves
  <1>1. \E x \in EvaluationStates : HasWork(x) /\ ev' = [ev EXCEPT ![Sweeper] = x]
    BY StartStep, SweeperIsEvaluation DEF Sweep, Movers, IInv, TypeOK
  <1>2. /\ clock' \in Nat /\ cycleNow' \in Nat
        /\ meets' \in [Members -> BOOLEAN] /\ consumed' \in [Members -> Nat]
        /\ bytesRead' \in [Members -> Nat \cup {Never}]
    BY DEF IInv, TypeOK, Sweep
  <1> QED BY <1>1, <1>2, QuietStep, SweeperIsEvaluation DEF Sweep

LEMMA ReadFiguresStep ==
  ASSUME IInv, NEW e \in Evaluations, ReadFigures(e)
  PROVE  IInv' /\ Moves
  <1> DEFINE u == ev[e].of
             x == [ev[e] EXCEPT !.step = "load", !.meets = meets[u], !.consumed = consumed[u]]
  <1>1. ev[e] \in EvaluationStates /\ u \in Members
    BY DEF IInv, TypeOK, EvaluationsHaveWork, HasWork, ReadFigures
  <1>2. meets[u] \in BOOLEAN /\ consumed[u] \in Nat
    BY <1>1 DEF IInv, TypeOK
  <1>3. x \in EvaluationStates /\ HasWork(x)
    BY <1>1, <1>2 DEF EvaluationStates, HasWork
  <1>4. ev' = [ev EXCEPT ![e] = x]
    BY DEF ReadFigures
  <1>5. /\ clock' \in Nat /\ cycleNow' \in Nat
        /\ meets' \in [Members -> BOOLEAN] /\ consumed' \in [Members -> Nat]
        /\ bytesRead' \in [Members -> Nat \cup {Never}]
    BY DEF IInv, TypeOK, ReadFigures
  <1> QED BY <1>3, <1>4, <1>5, QuietStep DEF ReadFigures

LEMMA LoadRowStep ==
  ASSUME IInv, NEW e \in Evaluations, LoadRow(e)
  PROVE  IInv' /\ Moves
  <1> DEFINE row == policy[ev[e].of]
             x == [ev[e] EXCEPT !.step = "claim", !.row = row]
  <1>1. ev[e] \in EvaluationStates /\ ev[e].of \in Members
    BY DEF IInv, TypeOK, EvaluationsHaveWork, HasWork, LoadRow
  <1>2. row \in PolicyRows /\ WellFormed(row)
    BY <1>1 DEF IInv, TypeOK, RowsWellFormed
  <1>3. /\ clock' \in Nat /\ cycleNow' \in Nat
        /\ meets' \in [Members -> BOOLEAN] /\ consumed' \in [Members -> Nat]
        /\ bytesRead' \in [Members -> Nat \cup {Never}]
    BY DEF IInv, TypeOK, LoadRow
  <1>4. CASE Decided(e, row) = row
    <2>1. ev' = [ev EXCEPT ![e] = Idle]
      BY <1>4 DEF LoadRow
    <2> QED BY <1>3, <2>1, IdleIsState, QuietStep DEF LoadRow
  <1>5. CASE Decided(e, row) # row
    <2>1. ev' = [ev EXCEPT ![e] = x]
      BY <1>5 DEF LoadRow
    <2>2. x \in EvaluationStates
      BY <1>1, <1>2 DEF EvaluationStates
    <2>3. /\ x.of = ev[e].of /\ x.row = row /\ x.meets = ev[e].meets
          /\ x.consumed = ev[e].consumed /\ x.now = ev[e].now /\ x.by = ev[e].by
      BY <1>1 DEF EvaluationStates
    <2>4. HasWork(x)
      BY <1>1, <1>2, <1>5, <2>3 DEF HasWork, Decided
    <2> QED BY <1>3, <2>1, <2>2, <2>4, QuietStep DEF LoadRow
  <1> QED BY <1>4, <1>5

LEMMA FailStep ==
  ASSUME IInv, NEW e \in Evaluations, Fail(e)
  PROVE  IInv' /\ Moves
  <1>1. /\ clock' \in Nat /\ cycleNow' \in Nat
        /\ meets' \in [Members -> BOOLEAN] /\ consumed' \in [Members -> Nat]
        /\ bytesRead' \in [Members -> Nat \cup {Never}]
    BY DEF IInv, TypeOK, Fail
  <1> QED BY <1>1, IdleIsState, QuietStep DEF Fail

LEMMA FiguresChangeStep ==
  ASSUME IInv, NEW u \in Members, FiguresChange(u)
  PROVE  IInv' /\ Moves
  <1>1. /\ clock' \in Nat /\ cycleNow' \in Nat
        /\ meets' \in [Members -> BOOLEAN] /\ consumed' \in [Members -> Nat]
        /\ bytesRead' \in [Members -> Nat \cup {Never}]
    BY DEF IInv, TypeOK, FiguresChange, FiguresMove
  <1> QED BY <1>1, QuietStep DEF FiguresChange

LEMMA StartCycleStep ==
  ASSUME IInv, StartCycle
  PROVE  IInv' /\ Moves
  <1>1. /\ clock' \in Nat /\ cycleNow' \in Nat
        /\ meets' \in [Members -> BOOLEAN] /\ consumed' \in [Members -> Nat]
        /\ bytesRead' \in [Members -> Nat \cup {Never}]
    BY DEF IInv, TypeOK, StartCycle
  <1> QED BY <1>1, QuietStep DEF StartCycle

LEMMA OverrideReadStep ==
  ASSUME IInv, NEW u \in Members, OverrideRead(u)
  PROVE  IInv' /\ Moves
  <1>1. /\ clock' \in Nat /\ cycleNow' \in Nat
        /\ meets' \in [Members -> BOOLEAN] /\ consumed' \in [Members -> Nat]
        /\ bytesRead' \in [Members -> Nat \cup {Never}]
    BY DEF IInv, TypeOK, OverrideRead
  <1> QED BY <1>1, QuietStep DEF OverrideRead

LEMMA TickStep ==
  ASSUME IInv, Tick
  PROVE  IInv' /\ Moves
  <1>1. /\ clock' \in Nat /\ cycleNow' \in Nat
        /\ meets' \in [Members -> BOOLEAN] /\ consumed' \in [Members -> Nat]
        /\ bytesRead' \in [Members -> Nat \cup {Never}]
    BY DEF IInv, TypeOK, Tick
  <1> QED BY <1>1, QuietStep DEF Tick

-----------------------------------------------------------------------------
(* The two writers of the policy row.                                      *)

(***************************************************************************)
(* What a claim that matched leaves in the row is well-formed, has the     *)
(* status of the target and is a legal move from the row it found, which   *)
(* need not be the row the evaluation read.                                *)
(***************************************************************************)
LEMMA WrittenIsLegal ==
  ASSUME NEW row \in PolicyRows, NEW found \in PolicyRows, NEW target \in PolicyRows,
         WellFormed(target), LegalMove(row, target),
         target.cause # "none" => target.cause = "RATIO",
         found.status = row.status, found.cause = row.cause
  PROVE  /\ Written(found, target) \in PolicyRows
         /\ WellFormed(Written(found, target))
         /\ Written(found, target).status = target.status
         /\ LegalMove(found, Written(found, target))
  <1>1. CASE target.cause = "RATIO"
    <2>1. Written(found, target) = Disabled(found)
      BY <1>1 DEF Written
    <2>2. Disabled(found).status = "DOWNLOAD_DISABLED" /\ Disabled(found).cause = "RATIO"
      BY DEF Disabled, PolicyRows
    <2>3. target.status = "DOWNLOAD_DISABLED"
      BY <1>1 DEF WellFormed
    <2>4. found.status = "WATCH"
      BY <2>3 DEF LegalMove
    <2> QED BY <2>1, <2>2, <2>3, <2>4, DisabledIsRow DEF WellFormed, LegalMove
  <1>2. CASE target.cause # "RATIO"
    <2>1. Written(found, target) = target
      BY <1>2 DEF Written
    <2> QED BY <1>2, <2>1 DEF LegalMove
  <1> QED BY <1>1, <1>2

LEMMA ClaimTransitionStep ==
  ASSUME IInv, NEW e \in Evaluations, ClaimTransition(e)
  PROVE  IInv' /\ Moves
  <1> DEFINE x == ev[e]
             u == x.of
             found == policy[u]
             target == Decided(e, x.row)
  <1>1. x \in EvaluationStates /\ u \in Members /\ HasWork(x) /\ x.step = "claim"
    BY DEF IInv, TypeOK, EvaluationsHaveWork, HasWork, ClaimTransition
  <1>2. /\ x.row \in PolicyRows /\ WellFormed(x.row) /\ target # x.row
        /\ x.meets \in BOOLEAN /\ x.consumed \in Nat /\ x.now \in Nat /\ x.by \in Movers
    BY <1>1 DEF HasWork, EvaluationStates, Decided
  <1>3. /\ target \in PolicyRows /\ WellFormed(target) /\ LegalMove(x.row, target)
        /\ target.cause # "none" => target.cause = "RATIO"
    BY <1>2, DecideIsLegal DEF Decided
  <1>4. ev' \in [Evaluations -> EvaluationStates] /\ EvaluationsHaveWork'
    BY IdleIsState, ReplaceEvaluation DEF IInv, TypeOK, ClaimTransition
  <1>5. /\ clock' \in Nat /\ cycleNow' \in Nat
        /\ meets' \in [Members -> BOOLEAN] /\ consumed' \in [Members -> Nat]
        /\ bytesRead' \in [Members -> Nat \cup {Never}]
    BY DEF IInv, TypeOK, ClaimTransition
  <1>6. CASE ~ClaimMatches(u, x.row)
    <2>1. policy' = policy
      BY <1>6 DEF ClaimTransition
    <2>2. canDownload' = canDownload
      BY <1>6 DEF ClaimTransition, DownloadAfter, IInv, TypeOK
    <2>3. TypeOK' /\ CanDownloadFollowsStatus' /\ RowsWellFormed' /\ Moves
      BY <1>4, <1>5, <2>1, <2>2
         DEF IInv, TypeOK, CanDownloadFollowsStatus, RowsWellFormed, Moves
    <2> QED BY <1>4, <2>3 DEF IInv
  <1>7. CASE ClaimMatches(u, x.row)
    <2> DEFINE row == Written(found, target)
    <2>1. policy' = [policy EXCEPT ![u] = row]
      BY <1>7 DEF ClaimTransition
    <2>2. canDownload' = [canDownload EXCEPT ![u] = target.status # "DOWNLOAD_DISABLED"]
      BY <1>7 DEF ClaimTransition, DownloadAfter
    <2>3. found \in PolicyRows /\ found.status = x.row.status /\ found.cause = x.row.cause
      BY <1>1, <1>7 DEF IInv, TypeOK, ClaimMatches
    <2>4. /\ row \in PolicyRows /\ WellFormed(row) /\ row.status = target.status
          /\ LegalMove(found, row)
      BY <1>2, <1>3, <2>3, WrittenIsLegal
    <2> HIDE DEF row, target
    <2>5. TypeOK'
      BY <1>2, <1>4, <1>5, <2>1, <2>2, <2>4 DEF IInv, TypeOK
    <2>6. CanDownloadFollowsStatus'
      BY <2>1, <2>2, <2>4 DEF IInv, TypeOK, CanDownloadFollowsStatus
    <2>7. RowsWellFormed'
      BY <2>1, <2>4 DEF IInv, TypeOK, RowsWellFormed
    <2>8. Moves
      BY <2>1, <2>4 DEF IInv, TypeOK, Moves
    <2> QED BY <1>4, <2>5, <2>6, <2>7, <2>8 DEF IInv
  <1> QED BY <1>6, <1>7

LEMMA OverrideStep ==
  ASSUME IInv, NEW u \in Members, NEW status \in Statuses, Override(u, status)
  PROVE  IInv' /\ Moves
  <1> DEFINE row == OverrideState(status, bytesRead[u], clock)
  <1>1. row \in PolicyRows /\ WellFormed(row) /\ row.status = status
    <2>1. bytesRead[u] \in Nat /\ clock \in Nat
      BY DEF IInv, TypeOK, Override
    <2>2. CASE status = "OK"
      BY <2>2, ClearedIsRow DEF OverrideState, Cleared, WellFormed
    <2>3. CASE status = "WATCH"
      <3>1. row = Watch(clock, bytesRead[u])
        BY <2>3 DEF OverrideState
      <3> QED BY <2>1, <2>3, <3>1, WatchIsRow DEF Watch, WellFormed
    <2>4. CASE status = "DOWNLOAD_DISABLED"
      <3>1. row = [status |-> status, cause |-> "STAFF",
                   started |-> Never, expires |-> Never, baseline |-> Never]
        BY <2>4 DEF OverrideState, Cleared
      <3> QED BY <2>4, <3>1 DEF PolicyRows, Statuses, WellFormed
    <2> QED BY <2>2, <2>3, <2>4 DEF Statuses
  <1>2. clock' \in Nat
    BY DEF IInv, TypeOK, Override
  <1>3. policy' = [policy EXCEPT ![u] = row]
    BY DEF Override
  <1>4. canDownload' = [canDownload EXCEPT ![u] = status # "DOWNLOAD_DISABLED"]
    BY DEF Override
  <1>5. ASSUME NEW e \in Evaluations
        PROVE  /\ ev'[e] \in EvaluationStates /\ HasWork(ev'[e])
    <2>1. ev[e] \in EvaluationStates /\ HasWork(ev[e])
      BY DEF IInv, TypeOK, EvaluationsHaveWork
    <2> DEFINE x == [ev[e] EXCEPT !.overridden = TRUE]
    <2>2. x \in EvaluationStates
      BY <2>1 DEF EvaluationStates
    <2>3. /\ x.step = ev[e].step /\ x.of = ev[e].of /\ x.row = ev[e].row
          /\ x.meets = ev[e].meets /\ x.consumed = ev[e].consumed /\ x.now = ev[e].now
          /\ x.by = ev[e].by
      BY <2>1 DEF EvaluationStates
    <2>4. HasWork(x)
      BY <2>1, <2>3 DEF HasWork
    <2>5. ev'[e] \in {ev[e], x}
      BY DEF Override
    <2> QED BY <2>1, <2>2, <2>4, <2>5
  <1>6. ev' \in [Evaluations -> EvaluationStates] /\ EvaluationsHaveWork'
    <2>1. ev' = [e \in Evaluations |-> ev'[e]]
      BY DEF Override
    <2> QED BY <1>5, <2>1 DEF EvaluationsHaveWork
  <1> HIDE DEF row
  <1>7. TypeOK'
    BY <1>1, <1>2, <1>3, <1>4, <1>6 DEF IInv, TypeOK, Override, Movers
  <1>8. CanDownloadFollowsStatus'
    BY <1>1, <1>3, <1>4 DEF IInv, TypeOK, CanDownloadFollowsStatus
  <1>9. RowsWellFormed'
    BY <1>1, <1>3 DEF IInv, TypeOK, RowsWellFormed
  <1>10. Moves
    <2> SUFFICES ASSUME NEW e \in Evaluations, ev[e].step = "claim" PROVE ev'[e] # Idle
      BY DEF Moves, Ends
    <2>1. ev'[e].step = "claim"
      BY DEF IInv, TypeOK, EvaluationStates, Override
    <2> QED BY <2>1 DEF Idle
  <1> QED BY <1>6, <1>7, <1>8, <1>9, <1>10 DEF IInv

-----------------------------------------------------------------------------
(* A watch is known by its start.                                          *)

(***************************************************************************)
(* ratioClaimWhere compares the status, the cause and the start of a watch *)
(* and leaves its term and baseline out. That is enough because no two     *)
(* watches start at one instant: every start known to a row or to an       *)
(* evaluation has passed, a download's evaluation in flight judges at an   *)
(* instant no watch it could meet has started at, and no two share one.    *)
(***************************************************************************)
StartPassed(row) == row.status = "WATCH" => row.started \in Nat /\ row.started < clock

StartsElsewhere(row, now) == row.status = "WATCH" => row.started # now

SameTerm(row, other) ==
    row.status = "WATCH" /\ other.status = "WATCH" /\ row.started = other.started
    => row.expires = other.expires /\ row.baseline = other.baseline

OwnInstant(e) ==
    ev[e].by = "download" =>
        /\ ev[e].now < clock
        /\ \A u \in Members : StartsElsewhere(policy[u], ev[e].now)
        /\ \A d \in Evaluations : /\ StartsElsewhere(ev[d].row, ev[e].now)
                                  /\ d # e /\ ev[d].by = "download" => ev[d].now # ev[e].now

WatchesKnownByStart ==
    /\ \A u \in Members : StartPassed(policy[u])
    /\ \A e \in Evaluations :
          /\ StartPassed(ev[e].row)
          /\ ev[e].of \in Members => SameTerm(ev[e].row, policy[ev[e].of])
          /\ OwnInstant(e)

\* Only a download's evaluation starts a watch, at the instant it judges by.
LEMMA DecidesToWatch ==
  ASSUME NEW row \in PolicyRows, NEW m \in BOOLEAN, NEW bytes \in Nat, NEW now \in Nat,
         NEW by \in Movers, NEW target, target = Decide(row, m, bytes, now, by),
         target # row, target.status = "WATCH"
  PROVE  by = "download" /\ target.started = now
  <1>1. CASE row.status = "OK"
    BY <1>1 DEF Decide, FromOK, Watch
  <1>2. CASE row.status = "WATCH"
    BY <1>2 DEF Decide, FromWatch, Cleared, Disabled, PolicyRows
  <1>3. CASE row.status = "DOWNLOAD_DISABLED"
    BY <1>3 DEF Decide, FromDisabled, Cleared
  <1> QED BY <1>1, <1>2, <1>3 DEF PolicyRows, Statuses

\* An evaluation that keeps what it knows, learns the row of its member, or ends.
KeepsOrLearns(x, y) ==
    /\ y.by = "download" => x.by = "download" /\ y.now = x.now
    /\ y.row.status = "WATCH" =>
          \/ y.row = x.row /\ y.of = x.of
          \/ policy' = policy /\ y.of \in Members /\ y.row = policy[y.of]

\* A row that is kept, is no watch, or is a watch nobody knows yet.
KeptOrNew(u) ==
    \/ policy'[u] = policy[u]
    \/ policy'[u].status # "WATCH"
    \/ /\ policy'[u].started \in Nat /\ policy'[u].started < clock'
       /\ \A e \in Evaluations :
             /\ ev'[e].row.status = "WATCH" => ev'[e].row.started # policy'[u].started
             /\ ev'[e].by = "download" => ev'[e].now # policy'[u].started

LEMMA StartsStayUnique ==
  ASSUME TypeOK, WatchesKnownByStart, clock' \in Nat, clock' >= clock,
         \A e \in Evaluations : ev'[e] \in EvaluationStates /\ KeepsOrLearns(ev[e], ev'[e]),
         \A u \in Members : KeptOrNew(u)
  PROVE  WatchesKnownByStart'
  <1> USE DEF StartPassed
  <1>1. ASSUME NEW u \in Members PROVE StartPassed(policy[u])'
    BY <1>1 DEF WatchesKnownByStart, KeptOrNew, TypeOK
  <1>2. ASSUME NEW e \in Evaluations PROVE StartPassed(ev[e].row)'
    BY <1>2 DEF WatchesKnownByStart, KeepsOrLearns, TypeOK
  <1>3. ASSUME NEW e \in Evaluations, ev'[e].of \in Members
        PROVE  SameTerm(ev[e].row, policy[ev[e].of])'
    <2> DEFINE y == ev'[e]
               u == y.of
    <2> SUFFICES ASSUME y.row.status = "WATCH", policy'[u].status = "WATCH",
                        y.row.started = policy'[u].started
                 PROVE  y.row.expires = policy'[u].expires /\ y.row.baseline = policy'[u].baseline
      BY DEF SameTerm
    <2>1. policy'[u] = policy[u]
      BY <1>3 DEF KeptOrNew
    <2>2. \/ y.row = ev[e].row /\ u = ev[e].of
          \/ y.row = policy[u]
      BY <1>3 DEF KeepsOrLearns
    <2> QED BY <1>3, <2>1, <2>2 DEF WatchesKnownByStart, SameTerm
  <1>4. ASSUME NEW e \in Evaluations PROVE OwnInstant(e)'
    <2> DEFINE now == ev'[e].now
    <2> SUFFICES ASSUME ev'[e].by = "download"
                 PROVE  /\ now < clock'
                        /\ \A u \in Members : StartsElsewhere(policy'[u], now)
                        /\ \A d \in Evaluations :
                              /\ StartsElsewhere(ev'[d].row, now)
                              /\ d # e /\ ev'[d].by = "download" => ev'[d].now # now
      BY DEF OwnInstant
    <2>1. ev[e].by = "download" /\ now = ev[e].now
      BY <1>4 DEF KeepsOrLearns
    <2>2. OwnInstant(e)
      BY <1>4 DEF WatchesKnownByStart
    <2>3. now < clock'
      BY <1>4, <2>1, <2>2 DEF OwnInstant, TypeOK, EvaluationStates
    <2>4. ASSUME NEW u \in Members PROVE StartsElsewhere(policy'[u], now)
      BY <1>4, <2>1, <2>2, <2>4 DEF OwnInstant, StartsElsewhere, KeptOrNew
    <2>5. ASSUME NEW d \in Evaluations
          PROVE  /\ StartsElsewhere(ev'[d].row, now)
                 /\ d # e /\ ev'[d].by = "download" => ev'[d].now # now
      <3>1. KeepsOrLearns(ev[d], ev'[d])
        BY <2>5
      <3>2. StartsElsewhere(ev[d].row, now)
        BY <2>1, <2>2, <2>5 DEF OwnInstant
      <3>3. ASSUME ev'[d].of \in Members PROVE StartsElsewhere(policy[ev'[d].of], now)
        BY <2>1, <2>2, <3>3 DEF OwnInstant
      <3>4. StartsElsewhere(ev'[d].row, now)
        BY <3>1, <3>2, <3>3 DEF KeepsOrLearns, StartsElsewhere
      <3>5. ASSUME d # e, ev'[d].by = "download" PROVE ev'[d].now # now
        <4>1. ev[d].by = "download" /\ ev'[d].now = ev[d].now
          BY <3>1, <3>5 DEF KeepsOrLearns
        <4> QED BY <2>1, <2>2, <2>5, <3>5, <4>1 DEF OwnInstant
      <3> QED BY <3>4, <3>5
    <2> QED BY <2>3, <2>4, <2>5
  <1> QED BY <1>1, <1>2, <1>3, <1>4 DEF WatchesKnownByStart

\* Steps that leave the policy alone and touch one evaluation at most.
LEMMA QuietKeepsStarts ==
  ASSUME IInv, IInv', WatchesKnownByStart, clock' >= clock, policy' = policy,
         \/ ev' = ev
         \/ \E e \in Evaluations : \E x \in EvaluationStates :
               ev' = [ev EXCEPT ![e] = x] /\ KeepsOrLearns(ev[e], x)
  PROVE  WatchesKnownByStart'
  <1>1. ASSUME NEW d \in Evaluations
        PROVE  ev'[d] \in EvaluationStates /\ KeepsOrLearns(ev[d], ev'[d])
    <2>1. ev'[d] \in EvaluationStates
      BY DEF IInv, TypeOK
    <2>2. CASE ev'[d] = ev[d]
      BY <2>1, <2>2 DEF KeepsOrLearns
    <2> QED BY <2>1, <2>2 DEF IInv, TypeOK
  <1>2. \A u \in Members : KeptOrNew(u)
    BY DEF KeptOrNew
  <1>3. TypeOK /\ clock' \in Nat
    BY DEF IInv, TypeOK
  <1> QED BY <1>1, <1>2, <1>3, StartsStayUnique

LEMMA NobodysEvaluation ==
  ASSUME NEW x \in EvaluationStates, NEW y \in EvaluationStates, y.by # "download", y.row = Cleared
  PROVE  KeepsOrLearns(x, y)
  BY DEF KeepsOrLearns, Cleared

LEMMA DownloadKeepsStarts ==
  ASSUME IInv, IInv', WatchesKnownByStart, NEW e \in Evaluations, NEW u \in Members, Download(e, u)
  PROVE  WatchesKnownByStart'
  <1>1. /\ clock' = clock + 1 /\ policy' = policy /\ clock \in Nat
        /\ \A d \in Evaluations : ev[d] \in EvaluationStates
    BY DEF Download, IInv, TypeOK
  <1>2. /\ ev'[e].by = "download" /\ ev'[e].now = clock /\ ev'[e].row = Cleared
        /\ \A d \in Evaluations \ {e} : ev'[d] = ev[d]
    BY DEF Download, Start, Idle, IInv, TypeOK
  <1>3. Cleared.status # "WATCH"
    BY DEF Cleared
  <1>4. \A d \in Evaluations : ev'[d].row.status = "WATCH" => d # e
    BY <1>2, <1>3
  <1>5. \A v \in Members : StartPassed(policy[v]) /\ StartPassed(policy[v])'
    BY <1>1 DEF WatchesKnownByStart, StartPassed
  <1>6. \A d \in Evaluations : StartPassed(ev[d].row) /\ StartPassed(ev[d].row)'
    BY <1>1, <1>2, <1>4 DEF WatchesKnownByStart, StartPassed
  <1>7. ASSUME NEW d \in Evaluations, ev'[d].of \in Members
        PROVE  SameTerm(ev[d].row, policy[ev[d].of])'
    BY <1>1, <1>2, <1>4, <1>7 DEF WatchesKnownByStart, SameTerm
  <1>8. OwnInstant(e)'
    <2>1. \A v \in Members : StartsElsewhere(policy'[v], clock)
      BY <1>1, <1>5 DEF StartPassed, StartsElsewhere
    <2>2. \A d \in Evaluations : StartsElsewhere(ev'[d].row, clock)
      BY <1>1, <1>2, <1>4, <1>6 DEF StartPassed, StartsElsewhere
    <2>3. \A d \in Evaluations \ {e} : ev[d].by = "download" => ev[d].now # clock
      BY <1>1 DEF WatchesKnownByStart, OwnInstant, EvaluationStates
    <2> QED BY <1>1, <1>2, <2>1, <2>2, <2>3 DEF OwnInstant
  <1>9. ASSUME NEW d \in Evaluations \ {e} PROVE OwnInstant(d)'
    <2>1. OwnInstant(d) /\ ev'[d] = ev[d] /\ ev[d] \in EvaluationStates
      BY <1>1, <1>2 DEF WatchesKnownByStart
    <2> SUFFICES ASSUME ev[d].by = "download"
                 PROVE  /\ ev[d].now < clock'
                        /\ \A v \in Members : StartsElsewhere(policy'[v], ev[d].now)
                        /\ \A c \in Evaluations :
                              /\ StartsElsewhere(ev'[c].row, ev[d].now)
                              /\ c # d /\ ev'[c].by = "download" => ev'[c].now # ev[d].now
      BY <2>1 DEF OwnInstant
    <2>2. ev[d].now < clock /\ ev[d].now < clock'
      BY <1>1, <2>1 DEF OwnInstant, EvaluationStates
    <2>3. \A v \in Members : StartsElsewhere(policy'[v], ev[d].now)
      BY <1>1, <2>1 DEF OwnInstant
    <2>4. ASSUME NEW c \in Evaluations
          PROVE  /\ StartsElsewhere(ev'[c].row, ev[d].now)
                 /\ c # d /\ ev'[c].by = "download" => ev'[c].now # ev[d].now
      BY <1>1, <1>2, <1>3, <2>1, <2>2, <2>4 DEF OwnInstant, StartsElsewhere, EvaluationStates
    <2> QED BY <2>2, <2>3, <2>4
  <1> QED BY <1>5, <1>6, <1>7, <1>8, <1>9 DEF WatchesKnownByStart

LEMMA ClaimKeepsStarts ==
  ASSUME IInv, IInv', WatchesKnownByStart, NEW e \in Evaluations, ClaimTransition(e)
  PROVE  WatchesKnownByStart'
  <1> DEFINE x == ev[e]
             u == x.of
             target == Decided(e, x.row)
  <1>1. /\ clock' = clock /\ clock \in Nat /\ TypeOK /\ ev' = [ev EXCEPT ![e] = Idle]
        /\ \A d \in Evaluations : ev[d] \in EvaluationStates
        /\ x.step = "claim" /\ HasWork(x)
    BY DEF ClaimTransition, IInv, TypeOK, EvaluationsHaveWork
  <1>2. \A d \in Evaluations : ev'[d] \in EvaluationStates /\ KeepsOrLearns(ev[d], ev'[d])
    BY <1>1, IdleIsState DEF KeepsOrLearns, Idle, Cleared
  <1>3. ASSUME NEW v \in Members PROVE KeptOrNew(v)
    <2>1. CASE policy'[v] = policy[v]
      BY <2>1 DEF KeptOrNew
    <2>2. CASE policy'[v] # policy[v]
      <3>1. v = u /\ policy'[v] = Written(policy[v], target)
        BY <1>1, <1>3, <2>2 DEF ClaimTransition, IInv, TypeOK
      <3>2. CASE target.cause = "RATIO"
        <4>1. policy'[v].status = "DOWNLOAD_DISABLED"
          BY <1>3, <3>1, <3>2 DEF Written, Disabled, IInv, TypeOK, PolicyRows
        <4> QED BY <4>1 DEF KeptOrNew
      <3>3. CASE target.cause # "RATIO"
        <4>1. policy'[v] = target
          BY <3>1, <3>3 DEF Written
        <4>2. CASE target.status # "WATCH"
          BY <4>1, <4>2 DEF KeptOrNew
        <4>3. CASE target.status = "WATCH"
          <5>1. x.by = "download" /\ target.started = x.now
            BY <1>1, <4>3, DecidesToWatch DEF HasWork, Decided, EvaluationStates
          <5>2. OwnInstant(e)
            BY DEF WatchesKnownByStart
          <5>3. x.now \in Nat /\ x.now < clock
            BY <1>1, <5>1, <5>2 DEF OwnInstant, EvaluationStates
          <5>4. \A d \in Evaluations \ {e} :
                   /\ ev[d].row.status = "WATCH" => ev[d].row.started # x.now
                   /\ ev[d].by = "download" => ev[d].now # x.now
            BY <5>1, <5>2 DEF OwnInstant, StartsElsewhere
          <5>5. \A d \in Evaluations :
                   /\ ev'[d].row.status = "WATCH" => ev'[d].row.started # x.now
                   /\ ev'[d].by = "download" => ev'[d].now # x.now
            <6>1. Idle.row.status # "WATCH" /\ Idle.by # "download"
              BY DEF Idle, Cleared
            <6>2. /\ ev'[e] = Idle
                  /\ \A d \in Evaluations \ {e} : ev'[d] = ev[d]
              BY <1>1 DEF TypeOK
            <6> QED BY <5>4, <6>1, <6>2
          <5> QED BY <1>1, <4>1, <5>1, <5>3, <5>5 DEF KeptOrNew
        <4> QED BY <4>2, <4>3
      <3> QED BY <3>2, <3>3
    <2> QED BY <2>1, <2>2
  <1> QED BY <1>1, <1>2, <1>3, StartsStayUnique

LEMMA OverrideKeepsStarts ==
  ASSUME IInv, IInv', WatchesKnownByStart, NEW u \in Members, NEW status \in Statuses,
         Override(u, status)
  PROVE  WatchesKnownByStart'
  <1>1. /\ clock \in Nat /\ TypeOK /\ clock' \in Nat /\ clock' >= clock
        /\ \A d \in Evaluations : ev[d] \in EvaluationStates /\ ev'[d] \in EvaluationStates
    BY DEF Override, IInv, TypeOK
  <1>2. \A d \in Evaluations : /\ ev'[d].row = ev[d].row /\ ev'[d].of = ev[d].of
                               /\ ev'[d].by = ev[d].by /\ ev'[d].now = ev[d].now
    BY <1>1 DEF Override, EvaluationStates
  <1>3. \A d \in Evaluations : ev'[d] \in EvaluationStates /\ KeepsOrLearns(ev[d], ev'[d])
    BY <1>1, <1>2 DEF KeepsOrLearns
  <1>4. ASSUME NEW v \in Members PROVE KeptOrNew(v)
    <2>1. CASE v # u
      BY <2>1 DEF KeptOrNew, Override, IInv, TypeOK
    <2>2. CASE v = u
      <3>1. policy'[v] = OverrideState(status, bytesRead[u], clock)
        BY <2>2 DEF Override, IInv, TypeOK
      <3>2. CASE status # "WATCH"
        <4>1. policy'[v].status # "WATCH"
          BY <3>1, <3>2 DEF OverrideState, Cleared, Statuses
        <4> QED BY <4>1 DEF KeptOrNew
      <3>3. CASE status = "WATCH"
        <4>1. policy'[v].started = clock /\ clock' = clock + 1
          BY <3>1, <3>3 DEF OverrideState, Watch, Override
        <4>2. \A d \in Evaluations : /\ ev[d].row.status = "WATCH" => ev[d].row.started # clock
                                     /\ ev[d].by = "download" => ev[d].now # clock
          BY <1>1 DEF WatchesKnownByStart, StartPassed, OwnInstant, EvaluationStates
        <4> QED BY <1>1, <1>2, <4>1, <4>2 DEF KeptOrNew
      <3> QED BY <3>2, <3>3
    <2> QED BY <2>1, <2>2
  <1> QED BY <1>1, <1>3, <1>4, StartsStayUnique

-----------------------------------------------------------------------------
(* The specification.                                                      *)

LEMMA InitIsInvariant == Init => IInv
  <1> SUFFICES ASSUME Init PROVE IInv
    OBVIOUS
  <1>1. TypeOK
    BY ClearedIsRow, IdleIsState DEF Init, TypeOK, Movers
  <1>2. CanDownloadFollowsStatus /\ RowsWellFormed
    BY DEF Init, CanDownloadFollowsStatus, RowsWellFormed, WellFormed, Cleared
  <1>3. EvaluationsHaveWork
    BY IdleIsState DEF Init, EvaluationsHaveWork
  <1> QED BY <1>1, <1>2, <1>3 DEF IInv

LEMMA NextIsInductive == IInv /\ [Next]_vars => IInv' /\ Moves
  <1> SUFFICES ASSUME IInv, [Next]_vars PROVE IInv' /\ Moves
    OBVIOUS
  <1>1. ASSUME NEW e \in Evaluations, Evaluate(e) PROVE IInv' /\ Moves
    BY <1>1, ReadFiguresStep, LoadRowStep, ClaimTransitionStep DEF Evaluate
  <1>2. ASSUME NEW e \in Evaluations, Fail(e) PROVE IInv' /\ Moves
    BY <1>2, FailStep
  <1>3. ASSUME NEW e \in Evaluations, NEW u \in Members, Download(e, u) PROVE IInv' /\ Moves
    BY <1>3, DownloadStep
  <1>4. ASSUME NEW u \in Members, Sweep(u) PROVE IInv' /\ Moves
    BY <1>4, SweepStep
  <1>5. ASSUME NEW u \in Members, FiguresChange(u) PROVE IInv' /\ Moves
    BY <1>5, FiguresChangeStep
  <1>6. ASSUME NEW u \in Members, NEW status \in Statuses, Override(u, status)
        PROVE  IInv' /\ Moves
    BY <1>6, OverrideStep
  <1>7. ASSUME NEW u \in Members, OverrideRead(u) PROVE IInv' /\ Moves
    BY <1>7, OverrideReadStep
  <1>8. CASE StartCycle \/ Tick
    BY <1>8, StartCycleStep, TickStep
  <1>9. CASE UNCHANGED vars
    BY <1>9, QuietStep DEF vars, IInv, TypeOK
  <1> QED BY <1>1, <1>2, <1>3, <1>4, <1>5, <1>6, <1>7, <1>8, <1>9 DEF Next

(***************************************************************************)
(* The type invariant of the ratio policy.                                 *)
(***************************************************************************)
THEOREM PolicyTypeCorrect == Spec => []TypeOK
  <1>1. IInv => TypeOK
    BY DEF IInv
  <1> QED BY <1>1, InitIsInvariant, NextIsInductive, PTL DEF Spec

(***************************************************************************)
(* For any number of members, evaluations in flight and overrides, a       *)
(* member can download exactly while the policy row does not disable them. *)
(***************************************************************************)
THEOREM CanDownloadTheorem == Spec => []CanDownloadFollowsStatus
  <1>1. IInv => CanDownloadFollowsStatus
    BY DEF IInv
  <1> QED BY <1>1, InitIsInvariant, NextIsInductive, PTL DEF Spec

(***************************************************************************)
(* However stale its reads, no evaluation moves a policy row off the four  *)
(* transitions of the rules; a disable staff made only staff lift.         *)
(***************************************************************************)
THEOREM LegalMovesTheorem == Spec => EvaluationsMoveLegally
  <1>1. IInv /\ [Next]_vars
        => [\A e \in Evaluations, u \in Members :
               Ends(e, u) /\ policy'[u] # policy[u] => LegalMove(policy[u], policy'[u])]_vars
    BY NextIsInductive DEF Moves
  <1> QED BY <1>1, InitIsInvariant, NextIsInductive, PTL DEF Spec, EvaluationsMoveLegally

-----------------------------------------------------------------------------
(* A disable ends the watch it was decided on.                             *)

(***************************************************************************)
(* Every step keeps the starts unique.                                     *)
(***************************************************************************)
LEMMA NextKeepsStarts == IInv /\ WatchesKnownByStart /\ [Next]_vars => WatchesKnownByStart'
  <1> SUFFICES ASSUME IInv, WatchesKnownByStart, [Next]_vars PROVE WatchesKnownByStart'
    OBVIOUS
  <1>1. IInv'
    BY NextIsInductive
  <1>2. /\ clock \in Nat
        /\ \A e \in Evaluations : ev[e] \in EvaluationStates /\ ev'[e] \in EvaluationStates
    BY <1>1 DEF IInv, TypeOK
  <1>3. ASSUME NEW e \in Evaluations, Fail(e) PROVE WatchesKnownByStart'
    <2>1. ev' = [ev EXCEPT ![e] = Idle] /\ clock' = clock /\ policy' = policy
      BY <1>3 DEF Fail
    <2>2. KeepsOrLearns(ev[e], Idle)
      BY <1>2, IdleIsState, NobodysEvaluation DEF Idle
    <2>3. clock' >= clock /\ policy' = policy
      BY <1>2, <2>1
    <2>4. \E d \in Evaluations : \E x \in EvaluationStates :
             ev' = [ev EXCEPT ![d] = x] /\ KeepsOrLearns(ev[d], x)
      BY <1>3, <2>1, <2>2, IdleIsState
    <2> QED BY <1>1, <2>3, <2>4, QuietKeepsStarts
  <1>4. ASSUME NEW e \in Evaluations, ReadFigures(e) \/ LoadRow(e) PROVE WatchesKnownByStart'
    <2> DEFINE y == ev'[e]
    <2>1. y \in EvaluationStates /\ ev' = [ev EXCEPT ![e] = y] /\ clock' = clock /\ policy' = policy
      BY <1>2, <1>4 DEF ReadFigures, LoadRow, IInv, TypeOK
    <2>2. KeepsOrLearns(ev[e], y)
      <3>1. CASE y = Idle
        BY <1>2, <3>1, IdleIsState, NobodysEvaluation DEF Idle
      <3>2. CASE ReadFigures(e)
        <4>1. y = [ev[e] EXCEPT !.step = "load", !.meets = meets[ev[e].of],
                                !.consumed = consumed[ev[e].of]]
          BY <1>4, <3>2 DEF ReadFigures, IInv, TypeOK
        <4>2. /\ y.row = ev[e].row /\ y.of = ev[e].of /\ y.by = ev[e].by /\ y.now = ev[e].now
          BY <1>2, <1>4, <4>1 DEF EvaluationStates
        <4> QED BY <4>2 DEF KeepsOrLearns
      <3>3. CASE LoadRow(e) /\ y # Idle
        <4>1. y = [ev[e] EXCEPT !.step = "claim", !.row = policy[ev[e].of]]
          BY <1>4, <3>3 DEF LoadRow, IInv, TypeOK
        <4>2. y.row = policy[ev[e].of] /\ y.of = ev[e].of /\ y.by = ev[e].by /\ y.now = ev[e].now
          BY <1>2, <1>4, <4>1 DEF EvaluationStates
        <4>3. ev[e].of \in Members
          BY <3>3 DEF LoadRow, IInv, EvaluationsHaveWork, HasWork
        <4> QED BY <2>1, <4>2, <4>3 DEF KeepsOrLearns
      <3> QED BY <1>4, <3>1, <3>2, <3>3
    <2> HIDE DEF y
    <2>3. clock' >= clock /\ policy' = policy
      BY <1>2, <2>1
    <2>4. \E d \in Evaluations : \E x \in EvaluationStates :
             ev' = [ev EXCEPT ![d] = x] /\ KeepsOrLearns(ev[d], x)
      BY <1>4, <2>1, <2>2
    <2> QED BY <1>1, <2>3, <2>4, QuietKeepsStarts
  <1>5. ASSUME NEW u \in Members, Sweep(u) PROVE WatchesKnownByStart'
    <2> DEFINE y == ev'[Sweeper]
    <2>1. /\ y \in EvaluationStates /\ ev' = [ev EXCEPT ![Sweeper] = y]
          /\ clock' = clock /\ policy' = policy
      BY <1>2, <1>5, SweeperIsEvaluation DEF Sweep, Start, IInv, TypeOK
    <2>2. y.by = "sweep" /\ y.row = Cleared
      BY <1>2, <1>5, SweeperIsEvaluation DEF Sweep, Start, Idle, IInv, TypeOK
    <2>3. KeepsOrLearns(ev[Sweeper], y)
      BY <1>2, <2>1, <2>2, SweeperIsEvaluation, NobodysEvaluation
    <2> HIDE DEF y
    <2>4. clock' >= clock /\ policy' = policy
      BY <1>2, <2>1
    <2>5. \E d \in Evaluations : \E x \in EvaluationStates :
             ev' = [ev EXCEPT ![d] = x] /\ KeepsOrLearns(ev[d], x)
      BY <2>1, <2>3, SweeperIsEvaluation
    <2> QED BY <1>1, <2>4, <2>5, QuietKeepsStarts
  <1>6. ASSUME NEW u \in Members, FiguresChange(u) \/ OverrideRead(u)
        PROVE  WatchesKnownByStart'
    <2>1. clock' >= clock /\ policy' = policy /\ ev' = ev
      BY <1>2, <1>6 DEF FiguresChange, OverrideRead
    <2> QED BY <1>1, <2>1, QuietKeepsStarts
  <1>7. CASE StartCycle \/ Tick \/ UNCHANGED vars
    <2>1. clock' >= clock /\ policy' = policy /\ ev' = ev
      BY <1>2, <1>7 DEF StartCycle, Tick, vars
    <2> QED BY <1>1, <2>1, QuietKeepsStarts
  <1> QED BY <1>1, <1>3, <1>4, <1>5, <1>6, <1>7, DownloadKeepsStarts, ClaimKeepsStarts,
             OverrideKeepsStarts DEF Next, Evaluate

(***************************************************************************)
(* A claim that disables found the watch the evaluation judged.            *)
(***************************************************************************)
Judged(e, u) ==
    Ends(e, u) /\ policy[u].status = "WATCH" /\ policy'[u].cause = "RATIO"
    => Expired(policy[u], ev[e].now) \/ LimitReached(policy[u], ev[e].consumed)

LEMMA ClaimJudgesTheWatchItFinds ==
  ASSUME IInv, WatchesKnownByStart, NEW e \in Evaluations, ClaimTransition(e), NEW u \in Members,
         ev[e].of = u, policy[u].status = "WATCH", policy'[u].cause = "RATIO"
  PROVE  Expired(policy[u], ev[e].now) \/ LimitReached(policy[u], ev[e].consumed)
  <1> DEFINE x == ev[e]
             found == policy[u]
             target == Decided(e, x.row)
  <1>1. /\ x.row \in PolicyRows /\ found \in PolicyRows /\ x.step = "claim"
        /\ target # x.row /\ WellFormed(found)
    BY DEF IInv, TypeOK, EvaluationStates, ClaimTransition, RowsWellFormed, EvaluationsHaveWork,
           HasWork, Decided
  <1>2. found.cause = "none"
    BY <1>1 DEF WellFormed, PolicyRows
  <1>3. policy' = [policy EXCEPT ![u] = Written(@, target)] /\ ClaimMatches(u, x.row)
    BY <1>2 DEF ClaimTransition
  <1>4. policy'[u] = Written(found, target)
    BY <1>3 DEF IInv, TypeOK
  <1>5. target.cause = "RATIO"
    BY <1>4 DEF Written
  <1>6. x.row.status = "WATCH" /\ found.started = x.row.started
    BY <1>3 DEF ClaimMatches
  <1>7. target = FromWatch(x.row, x.meets, x.consumed, x.now)
    BY <1>6 DEF Decided, Decide
  <1>8. LimitReached(x.row, x.consumed) \/ Expired(x.row, x.now)
    BY <1>1, <1>5, <1>7 DEF FromWatch, Cleared
  <1>9. found.expires = x.row.expires /\ found.baseline = x.row.baseline
    BY <1>6 DEF WatchesKnownByStart, SameTerm
  <1> QED BY <1>8, <1>9 DEF LimitReached, Expired

LEMMA NextJudgesFairly ==
  ASSUME IInv, WatchesKnownByStart, [Next]_vars, NEW e \in Evaluations, NEW u \in Members
  PROVE  Judged(e, u)
  <1> SUFFICES ASSUME ev[e].step = "claim", ev[e].of = u, ev'[e] = Idle,
                      policy[u].status = "WATCH", policy'[u].cause = "RATIO"
               PROVE  Expired(policy[u], ev[e].now) \/ LimitReached(policy[u], ev[e].consumed)
    BY DEF Judged, Ends
  <1>1. ev[e] # Idle /\ ev'[e] # ev[e]
    BY DEF Idle
  <1>2. policy'[u] # policy[u]
    BY DEF IInv, RowsWellFormed, WellFormed
  <1>3. PICK d \in Evaluations : ClaimTransition(d)
    <2>1. ASSUME NEW v \in Members, NEW status \in Statuses, Override(v, status) PROVE FALSE
      <3>1. ev'[e].step = "claim"
        BY <2>1 DEF Override, IInv, TypeOK, EvaluationStates
      <3> QED BY <3>1 DEF Idle
    <2> QED BY <1>2, <2>1 DEF Next, vars, Evaluate, ReadFigures, LoadRow, Fail, Download, Sweep,
                              FiguresChange, OverrideRead, StartCycle, Tick
  <1>4. d = e
    BY <1>1, <1>3 DEF ClaimTransition, IInv, TypeOK
  <1> QED BY <1>3, <1>4, ClaimJudgesTheWatchItFinds

(***************************************************************************)
(* However late an evaluation claims, the watch it ends with a disable has *)
(* itself expired or run out of downloads: matching a watch by its start   *)
(* is matching the watch, since no two start at one instant.               *)
(***************************************************************************)
THEOREM WatchJudgedTheorem == Spec => WatchJudgedOnItself
  <1>1. Init => WatchesKnownByStart
    <2> SUFFICES ASSUME Init PROVE WatchesKnownByStart
      OBVIOUS
    <2>1. Cleared.status = "OK" /\ Idle.row = Cleared /\ Idle.by = "nobody"
      BY DEF Cleared, Idle
    <2> QED BY <2>1 DEF Init, WatchesKnownByStart, StartPassed, SameTerm, OwnInstant
  <1>2. IInv /\ WatchesKnownByStart /\ [Next]_vars
        => [\A e \in Evaluations, u \in Members :
               Ends(e, u) /\ policy[u].status = "WATCH" /\ policy'[u].cause = "RATIO"
               => Expired(policy[u], ev[e].now) \/ LimitReached(policy[u], ev[e].consumed)]_vars
    BY NextJudgesFairly DEF Judged
  <1> QED BY <1>1, <1>2, InitIsInvariant, NextIsInductive, NextKeepsStarts, PTL
          DEF Spec, WatchJudgedOnItself
=============================================================================
