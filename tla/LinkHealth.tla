----------------------------- MODULE LinkHealth -----------------------------
(***************************************************************************)
(* Link health (modules/linkHealth.ts): probes, member reports and the     *)
(* WARN sweep all move a contribution's link status and its uptime clock.  *)
(*                                                                         *)
(* A check or a report writes by compare-and-swap on the status and the    *)
(* open segment it computed from, and after a miss reads the row again,    *)
(* keeping its evidence and its instant. The sweep reads the links to fail *)
(* and then updates them in one statement that repeats its condition.      *)
(***************************************************************************)
EXTENDS Integers

CONSTANTS Links,      \* the contributions
          Writers,    \* slots for checks and reports in flight
          Window,     \* WARN_SWEEP_AFTER_MS
          Attempts,   \* LINK_WRITE_ATTEMPTS
          MaxTime,    \* bound: the last instant
          None        \* no link

VARIABLES clock,
          link,     \* the link-state columns of a Contribution
          writer,   \* the checks and reports in flight
          sweep     \* the sweep in flight: its instant and the links it read

vars == <<clock, link, writer, sweep>>

\* What the constants are assumed to be.
Assumptions == Window \in Nat /\ Attempts \in Nat \ {0} /\ MaxTime \in Nat \ {0} /\ None \notin Links

Null == 0   \* the clock starts at 1, so no instant is 0
Statuses == {"UNKNOWN", "PASS", "WARN", "FAIL"}

Rows == [status : Statuses, changedAt : Nat, ms : Nat, since : Nat]

WriterStates ==
    [step : {"idle", "probe", "swap", "reread"}, report : BOOLEAN, on : Links \cup {None},
     status : Statuses, now : Nat, row : Rows, left : 0 .. Attempts]

NoSweep == [now |-> Null, on |-> {}]

TypeOK ==
    /\ clock \in 1 .. MaxTime
    /\ link \in [Links -> Rows]
    /\ writer \in [Writers -> WriterStates]
    /\ sweep \in [now : 0 .. MaxTime, on : SUBSET Links]

NewRow == [status |-> "UNKNOWN", changedAt |-> Null, ms |-> 0, since |-> Null]
Idle == [step |-> "idle", report |-> FALSE, on |-> None, status |-> "UNKNOWN", now |-> Null,
            row |-> NewRow, left |-> 0]

Init ==
    /\ clock = 1
    /\ link = [l \in Links |-> NewRow]
    /\ writer = [w \in Writers |-> Idle]
    /\ sweep = NoSweep

-----------------------------------------------------------------------------
(* What is written.                                                        *)

\* applyHealthAccrual: PASS opens a segment, anything else banks the open one.
Accrue(row, status, now) ==
    IF status = "PASS" /\ row.since = Null THEN [row EXCEPT !.since = now]
    ELSE IF status # "PASS" /\ row.since # Null
    THEN [row EXCEPT !.ms = @ + (IF now > row.since THEN now - row.since ELSE 0),
                     !.since = Null]
    ELSE row

\* Mutant: every check restarts the sweep's clock.
StampsAlways(row, status) == TRUE

\* The transition is stamped when the status changes or never was stamped.
Stamps(row, status) == status # row.status \/ row.changedAt = Null

\* What the write leaves of the link when it was computed from row.
Written(l, row, status, now) ==
    [Accrue(row, status, now) EXCEPT
        !.status = status,
        !.changedAt = IF Stamps(row, status) THEN now ELSE link[l].changedAt]

\* A report only warns a link that is healthy or unknown.
NothingToWrite(w) == writer[w].report /\ writer[w].row.status \in {"WARN", "FAIL"}

\* The condition of the compare-and-swap.
SwapMatches(w) ==
    LET now == link[writer[w].on]
        was == writer[w].row
    IN now.status = was.status /\ now.since = was.since

-----------------------------------------------------------------------------
(* A check, and a report that has reached the threshold of reporters.      *)

Free(w) == [writer EXCEPT ![w] = Idle]

CheckRead(w, l) ==
    /\ writer[w] = Idle
    /\ writer' = [writer EXCEPT ![w] = [Idle EXCEPT !.step = "probe", !.on = l, !.row = link[l]]]
    /\ UNCHANGED <<clock, link, sweep>>

\* The request may take any time; its instant is taken when it ends.
Probe(w, status) ==
    /\ writer[w].step = "probe" /\ ~writer[w].report
    /\ writer' = [writer EXCEPT ![w].step = "swap", ![w].status = status, ![w].now = clock,
                                ![w].left = Attempts]
    /\ UNCHANGED <<clock, link, sweep>>

ReportRead(w, l) ==
    /\ writer[w] = Idle
    /\ writer' = [writer EXCEPT ![w] = [step |-> "swap", report |-> TRUE, on |-> l,
                                        status |-> "WARN", now |-> clock, row |-> link[l],
                                        left |-> Attempts]]
    /\ UNCHANGED <<clock, link, sweep>>

Swap(w) ==
    /\ writer[w].step = "swap"
    /\ ~NothingToWrite(w) /\ SwapMatches(w)
    /\ link' = [link EXCEPT ![writer[w].on] =
                   Written(writer[w].on, writer[w].row, writer[w].status, writer[w].now)]
    /\ writer' = Free(w)
    /\ UNCHANGED <<clock, sweep>>

Miss(w) ==
    /\ writer[w].step = "swap"
    /\ ~NothingToWrite(w) /\ ~SwapMatches(w)
    /\ writer' = [writer EXCEPT ![w].step = "reread", ![w].left = @ - 1]
    /\ UNCHANGED <<clock, link, sweep>>

Reread(w) ==
    /\ writer[w].step = "reread"
    /\ writer' = IF writer[w].left = 0 THEN Free(w)
                 ELSE [writer EXCEPT ![w].step = "swap", ![w].row = link[writer[w].on]]
    /\ UNCHANGED <<clock, link, sweep>>

\* A report that finds the link warned or failed, an error, or a crash.
GiveUp(w) ==
    /\ writer[w] # Idle
    /\ writer' = Free(w)
    /\ UNCHANGED <<clock, link, sweep>>

-----------------------------------------------------------------------------
(* The daily sweep of links that have stayed at WARN.                      *)

Stale(l, now) ==
    /\ link[l].status = "WARN"
    /\ link[l].changedAt # Null /\ link[l].changedAt + Window < now

\* Mutant: the update names the links it read and nothing else.
SweptUnchecked(l) == l \in sweep.on

Swept(l) == l \in sweep.on /\ Stale(l, sweep.now)

SweepRead ==
    /\ sweep = NoSweep
    /\ \E l \in Links : Stale(l, clock)
    /\ sweep' = [now |-> clock, on |-> {l \in Links : Stale(l, clock)}]
    /\ UNCHANGED <<clock, link, writer>>

SweepWrite ==
    /\ sweep # NoSweep
    /\ link' = [l \in Links |-> IF Swept(l)
                                THEN [link[l] EXCEPT !.status = "FAIL", !.changedAt = sweep.now]
                                ELSE link[l]]
    /\ sweep' = NoSweep
    /\ UNCHANGED <<clock, writer>>

Tick ==
    /\ clock < MaxTime
    /\ clock' = clock + 1
    /\ UNCHANGED <<link, writer, sweep>>

Next ==
    \/ \E w \in Writers :
          \/ \E l \in Links : CheckRead(w, l) \/ ReportRead(w, l)
          \/ \E status \in {"PASS", "WARN", "FAIL"} : Probe(w, status)
          \/ Swap(w) \/ Miss(w) \/ Reread(w) \/ GiveUp(w)
    \/ SweepRead \/ SweepWrite \/ Tick

Spec == Init /\ [][Next]_vars

\* Time passes and the job runs daily.
Fairness == WF_vars(Tick) /\ WF_vars(SweepRead) /\ WF_vars(SweepWrite)

FairSpec == Spec /\ Fairness

-----------------------------------------------------------------------------
(* Uptime is counted while the link is known to be up and at no other      *)
(* time (ADR-0019): whatever checks, reports and sweeps overlap, a segment *)
(* is open exactly while the status is PASS (linkHealth.ts:154, 232).      *)
SegmentOpenWhilePass == \A l \in Links : link[l].status = "PASS" <=> link[l].since # Null

(* Under a fair sweep a suspect link is settled: however often it is       *)
(* probed or reported, it does not stay at WARN past its window            *)
(* (linkHealth.ts:222, ADR-0006). The clock must have room for the window. *)
SuspectLinksSettle ==
    \A l \in Links :
        link[l].status = "WARN" /\ link[l].changedAt + Window < MaxTime
            ~> link[l].status # "WARN"
=============================================================================
