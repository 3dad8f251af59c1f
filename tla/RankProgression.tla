-------------------------- MODULE RankProgression --------------------------
(***************************************************************************)
(* The promotion of one member along the ladder of ranks                   *)
(* (modules/rankProgression.ts, modules/rankProgressionJob.ts).            *)
(*                                                                         *)
(* A sweep reads the ladder, reads the member, evaluates the member's      *)
(* record and claims the row as it was read. Between the steps staff move  *)
(* ranks to other levels (which may strand rules), switch rules, assign    *)
(* the member a rank, or lock and warn the member; the record changes too. *)
(***************************************************************************)
EXTENDS Naturals

CONSTANTS Ranks,       \* the primary ranks
          Entry,       \* the rank new members join at, which keeps its level
          Levels,      \* bound: the levels ranks may have
          StaffLevel,  \* STAFF_LEVEL
          Rules,       \* the RankPromotionRule rows, as <<from, to>>
          Sweeps,      \* slots for sweeps in flight
          MaxEdits     \* bound: what staff, the member and failures do

VARIABLES level, enabled,  \* UserRank.level, the rules that are enabled
          rank, frozen,    \* User.userRankId; what keeps the member at it
          stock, ready,    \* the rules whose stock criteria hold, and whose criteria all hold
          sweep,           \* the sweeps in flight
          edits

vars == <<level, enabled, rank, frozen, stock, ready, sweep, edits>>

\* What the constants are assumed to be.
Assumptions ==
    /\ Entry \in Ranks /\ Rules \subseteq Ranks \X Ranks
    /\ Levels \subseteq Nat /\ StaffLevel \in Nat /\ MaxEdits \in Nat

\* UserRank.level is unique.
Ladders == {f \in [Ranks -> Levels] : \A p, q \in Ranks : p # q => f[p] # f[q]}

\* A lock and a disable are read with the member, a warning with the record.
Causes == {"locked", "warned"}

SweepStates ==
    [step : {"idle", "ladder", "read", "decided"}, level : Ladders, enabled : SUBSET Rules,
     rank : Ranks, to : Ranks]

TypeOK ==
    /\ level \in Ladders /\ enabled \subseteq Rules
    /\ rank \in Ranks /\ frozen \subseteq Causes
    /\ stock \subseteq Rules /\ ready \subseteq stock
    /\ sweep \in [Sweeps -> SweepStates]
    /\ edits \in 0 .. MaxEdits

Idle(ladder) ==
    [step |-> "idle", level |-> ladder, enabled |-> {}, rank |-> Entry, to |-> Entry]

Init ==
    /\ level \in Ladders
    /\ \A p \in Ranks : level[Entry] <= level[p]
    /\ level[Entry] < StaffLevel
    /\ enabled = Rules
    /\ rank \in {p \in Ranks : level[p] < StaffLevel} /\ frozen = {}
    /\ stock \in SUBSET Rules /\ ready = stock
    /\ sweep = [s \in Sweeps |-> Idle(level)]
    /\ edits = 0

-----------------------------------------------------------------------------
(* evaluateRankChange, over the ladder and the rules a sweep has read.     *)

AutoManaged(ladder, p) == ladder[p] < StaffLevel

\* Mutant: a rule may step over a rung.
OnLadderAnywhere(ladder, rule) ==
    /\ AutoManaged(ladder, rule[1]) /\ AutoManaged(ladder, rule[2])
    /\ ladder[rule[1]] < ladder[rule[2]]

\* isOnLadder: between auto-managed ranks, and to the very next of them.
OnLadder(ladder, rule) ==
    /\ AutoManaged(ladder, rule[1]) /\ AutoManaged(ladder, rule[2])
    /\ ladder[rule[1]] < ladder[rule[2]]
    /\ \A p \in Ranks : ~(ladder[rule[1]] < ladder[p] /\ ladder[p] < ladder[rule[2]])

\* Where a member of rank p may be moved: demotion comes first, and which of
\* several rules is found first is the database's choice.
Steps(ladder, on, p) ==
    LET live == {rule \in on : OnLadder(ladder, rule)}
        incoming == {rule \in live : rule[2] = p}
        outgoing == {rule \in live : rule[1] = p}
    IN IF ~AutoManaged(ladder, p) THEN {}
       ELSE {rule[1] : rule \in incoming \ stock}
            \cup IF incoming # {} /\ incoming \cap stock = {} THEN {}
                 ELSE {rule[2] : rule \in outgoing \cap ready}

-----------------------------------------------------------------------------
(* The sweep.                                                              *)

LoadLadder(s) ==
    /\ sweep[s].step = "idle"
    /\ sweep' = [sweep EXCEPT ![s].step = "ladder", ![s].level = level, ![s].enabled = enabled]
    /\ UNCHANGED <<level, enabled, rank, frozen, stock, ready, edits>>

Finish(s) == [sweep EXCEPT ![s] = Idle(level)]

\* loadBatch, and the freeze of the locked: the evaluator has the lock from here.
LoadMember(s) ==
    /\ sweep[s].step = "ladder"
    /\ sweep' = IF AutoManaged(sweep[s].level, rank) /\ "locked" \notin frozen
                THEN [sweep EXCEPT ![s].step = "read", ![s].rank = rank]
                ELSE Finish(s)
    /\ UNCHANGED <<level, enabled, rank, frozen, stock, ready, edits>>

\* buildProgressionInput reads the record and the warnings as they are now.
Decide(s) ==
    /\ sweep[s].step = "read"
    /\ LET targets == Steps(sweep[s].level, sweep[s].enabled, sweep[s].rank)
       IN IF "warned" \in frozen \/ targets = {} THEN sweep' = Finish(s)
          ELSE \E p \in targets : sweep' = [sweep EXCEPT ![s].step = "decided", ![s].to = p]
    /\ UNCHANGED <<level, enabled, rank, frozen, stock, ready, edits>>

\* applyRankChange claims the member as read.
ApplyRankChange(s) ==
    /\ sweep[s].step = "decided"
    /\ rank' = IF rank = sweep[s].rank /\ frozen = {} THEN sweep[s].to ELSE rank
    /\ sweep' = Finish(s)
    /\ UNCHANGED <<level, enabled, frozen, stock, ready, edits>>

-----------------------------------------------------------------------------
(* Staff, the member's record, failures.                                   *)

Edit == edits < MaxEdits /\ edits' = edits + 1

\* An error or a crash.
Fail(s) ==
    /\ Edit
    /\ sweep[s].step # "idle"
    /\ sweep' = Finish(s)
    /\ UNCHANGED <<level, enabled, rank, frozen, stock, ready>>

\* PUT /tools/user-ranks/:id moves any rank but the entry rank to a free level.
MoveRank(p, n) ==
    /\ Edit
    /\ p # Entry
    /\ level' = [level EXCEPT ![p] = n]
    /\ level' \in Ladders
    /\ UNCHANGED <<enabled, rank, frozen, stock, ready, sweep>>

SwitchRule(rule) ==
    /\ Edit
    /\ enabled' = IF rule \in enabled THEN enabled \ {rule} ELSE enabled \cup {rule}
    /\ UNCHANGED <<level, rank, frozen, stock, ready, sweep>>

SetUserRank(p) ==
    /\ Edit
    /\ rank' = p
    /\ UNCHANGED <<level, enabled, frozen, stock, ready, sweep>>

\* A lock, a disable or a warning comes or goes.
Freeze(cause) ==
    /\ Edit
    /\ frozen' = IF cause \in frozen THEN frozen \ {cause} ELSE frozen \cup {cause}
    /\ UNCHANGED <<level, enabled, rank, stock, ready, sweep>>

RecordChanges(st, rd) ==
    /\ Edit
    /\ stock' = st /\ ready' = rd
    /\ UNCHANGED <<level, enabled, rank, frozen, sweep>>

SweepNext(s) == LoadLadder(s) \/ LoadMember(s) \/ Decide(s) \/ ApplyRankChange(s)

Next ==
    \/ \E s \in Sweeps : SweepNext(s) \/ Fail(s)
    \/ \E p \in Ranks : SetUserRank(p) \/ \E n \in Levels : MoveRank(p, n)
    \/ \E rule \in Rules : SwitchRule(rule)
    \/ \E cause \in Causes : Freeze(cause)
    \/ \E st \in SUBSET Rules : \E rd \in SUBSET st : RecordChanges(st, rd)

Spec == Init /\ [][Next]_vars

\* The job runs its sweeps to the end.
Fairness == \A s \in Sweeps : WF_vars(SweepNext(s))

FairSpec == Spec /\ Fairness

-----------------------------------------------------------------------------
(* Promotion comes to rest (rankProgression.ts:199, #718): once staff and  *)
(* the record have stopped changing, whatever ladder and rules they have   *)
(* left, the member reaches a rank the sweep does not move them from, and  *)
(* no two rules carry them round and round.                                *)
RanksSettle == <>[](frozen = {} => Steps(level, enabled, rank) = {})
=============================================================================
