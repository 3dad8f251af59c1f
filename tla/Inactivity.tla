----------------------------- MODULE Inactivity -----------------------------
(***************************************************************************)
(* The inactivity sweep (modules/inactivity.ts, modules/inactivityJob.ts): *)
(* idle members are warned, and disabled when the warning has been left    *)
(* unanswered for its grace.                                               *)
(*                                                                         *)
(* A cycle reads a batch, decides on its members as it read them, writes   *)
(* one member at a time, with mail between the writes, and pages on by a   *)
(* cursor. Members sign in, and staff disable, re-enable and exempt them,  *)
(* at any moment.                                                          *)
(* Time is kept as ages that stop counting at the thresholds.              *)
(***************************************************************************)
EXTENDS Integers, FiniteSets

CONSTANTS Members,       \* by id
          Cycles,        \* slots for cycles in flight
          WarnAfter, DisableAfter, Grace, NeverAfter,   \* the thresholds, in days
          BatchSize,     \* BATCH_SIZE
          Cap,           \* INACTIVITY_MAX_DISABLES_PER_CYCLE
          AdminCreated,  \* the members staff created
          Moderated,     \* bound: the members staff act on
          MaxFailures    \* bound: errors and crashes

VARIABLES user,      \* the User rows
          signingIn, \* the sign-ins that have found their account enabled
          cycle,     \* the cycles in flight
          ran,       \* the slots that have had a cycle today
          failures

vars == <<user, signingIn, cycle, ran, failures>>

\* What the constants are assumed to be.
Assumptions ==
    /\ Members \subseteq Nat /\ IsFiniteSet(Members) /\ Moderated \subseteq Members
    /\ WarnAfter \in Nat /\ DisableAfter \in Nat /\ Grace \in Nat /\ NeverAfter \in Nat
    /\ WarnAfter <= DisableAfter /\ NeverAfter <= DisableAfter
    /\ BatchSize \in Nat \ {0} /\ Cap \in Nat /\ MaxFailures \in Nat

Never == -1
Stamps == {"lastLogin", "reactivatedAt", "inactivityWarnedAt"}

\* used: lastLogin or reactivatedAt is set; idle: days since lastActivityAt;
\* warned: days since inactivityWarnedAt; exempt: staff, rank-locked or donor.
Rows ==
    [disabled : BOOLEAN, exempt : BOOLEAN, used : BOOLEAN,
     idle : 0 .. DisableAfter, warned : {Never} \cup 0 .. Grace]

\* plan: what the cycle decided of each member of its batch and has not done;
\* moved: the stamps written since the cycle read the member;
\* cursor: the id to page on from, Never when no batch is to follow.
CycleStates ==
    [plan : [Members -> {"none", "warn", "disable"}], moved : [Members -> SUBSET Stamps],
     disables : 0 .. Cap, cursor : {Never} \cup Members]

TypeOK ==
    /\ user \in [Members -> Rows]
    /\ signingIn \subseteq Members
    /\ cycle \in [Cycles -> CycleStates]
    /\ ran \subseteq Cycles
    /\ failures \in 0 .. MaxFailures

NoCycle == [plan |-> [u \in Members |-> "none"], moved |-> [u \in Members |-> {}],
            disables |-> 0, cursor |-> Never]

Init ==
    /\ user = [u \in Members |-> [disabled |-> FALSE, exempt |-> FALSE, used |-> FALSE,
                                  idle |-> 0, warned |-> Never]]
    /\ signingIn = {}
    /\ cycle = [c \in Cycles |-> NoCycle]
    /\ ran = {}
    /\ failures = 0

-----------------------------------------------------------------------------
(* The rule.                                                               *)

InScope(row) == ~row.disabled /\ ~row.exempt

\* evaluateNeverLoggedIn.
NeverUsed(u, row) ==
    IF u \notin AdminCreated /\ row.idle >= NeverAfter THEN "disable" ELSE "none"

\* Mutant: warning comes first, whether or not a warning is out.
DormancyWarnsFirst(row) ==
    IF row.idle >= WarnAfter THEN "warn"
    ELSE IF row.idle >= DisableAfter THEN "disable" ELSE "none"

\* evaluateDormancy.
Dormancy(row) ==
    IF row.idle >= DisableAfter /\ row.warned # Never
    THEN IF row.warned >= Grace THEN "disable" ELSE "none"
    ELSE IF row.idle >= WarnAfter /\ row.warned = Never THEN "warn" ELSE "none"

\* evaluateInactivity.
Evaluate(u, row) ==
    IF ~InScope(row) THEN "none" ELSE IF row.used THEN Dormancy(row) ELSE NeverUsed(u, row)

\* Mutant: the claim does not compare the stamps.
AsReadInScope(c, u) == InScope(user[u])

\* The claim: in scope, and every stamp the one that was read.
AsRead(c, u) == InScope(user[u]) /\ cycle[c].moved[u] = {}

-----------------------------------------------------------------------------
(* The cycles.                                                             *)

\* What the cycles keep after stamps of u were written.
Moved(cs, u, stamps) ==
    [c \in Cycles |-> IF cs[c].plan[u] = "none" THEN cs[c]
                      ELSE [cs[c] EXCEPT !.moved[u] = @ \cup stamps]]

\* The member the cycle comes to next.
NextIs(c, u) ==
    /\ cycle[c].plan[u] # "none"
    /\ \A v \in Members : cycle[c].plan[v] # "none" => u <= v

Passed(c, u) ==
    [cycle EXCEPT ![c].plan[u] = "none", ![c].moved[u] = {}]

\* The rows of loadBatch: those in scope from the cursor on, less the first of
\* them, which is the cursor's own as long as that one is in scope.
Batch(cursor) ==
    LET found == {u \in Members : InScope(user[u]) /\ u >= cursor}
        skipped == IF cursor = Never THEN 0 ELSE 1
    IN  {u \in found : Cardinality({v \in found : v < u}) \in skipped .. skipped + BatchSize - 1}

\* Mutant: a bare limit instead of the cursor.
NoCursor(batch) == {Never}

\* The last row of a full batch is the cursor of the next one.
NextCursor(batch) ==
    IF Cardinality(batch) < BatchSize THEN {Never} ELSE {u \in batch : \A v \in batch : v <= u}

\* A batch is loaded when the one before it is done, and decided on as read.
Load(c, cursor, disables) ==
    /\ \A u \in Members : cycle[c].plan[u] = "none"
    /\ LET batch == Batch(cursor) IN
       \E next \in NextCursor(batch) :
          cycle' = [cycle EXCEPT ![c] =
                      [NoCycle EXCEPT !.plan = [u \in Members |-> IF u \in batch
                                                                  THEN Evaluate(u, user[u])
                                                                  ELSE "none"],
                                      !.disables = disables, !.cursor = next]]
    /\ UNCHANGED <<user, signingIn, failures>>

\* The job starts a cycle a day.
StartCycle(c) ==
    /\ c \notin ran /\ cycle[c].cursor = Never
    /\ \E u \in Members : Evaluate(u, user[u]) # "none"
    /\ Load(c, Never, 0)
    /\ ran' = ran \cup {c}

LoadBatch(c) ==
    /\ cycle[c].cursor # Never
    /\ Load(c, cycle[c].cursor, cycle[c].disables)
    /\ UNCHANGED ran

ApplyWarn(c, u) ==
    /\ NextIs(c, u) /\ cycle[c].plan[u] = "warn"
    /\ IF AsRead(c, u)
       THEN /\ user' = [user EXCEPT ![u].warned = 0]
            /\ cycle' = Moved(Passed(c, u), u, {"inactivityWarnedAt"})
       ELSE /\ cycle' = Passed(c, u)
            /\ UNCHANGED user
    /\ UNCHANGED <<signingIn, ran, failures>>

\* Past the cap a disable is deferred to another cycle.
ApplyDisable(c, u) ==
    /\ NextIs(c, u) /\ cycle[c].plan[u] = "disable"
    /\ IF cycle[c].disables < Cap /\ AsRead(c, u)
       THEN /\ user' = [user EXCEPT ![u].disabled = TRUE]
            /\ cycle' = [Passed(c, u) EXCEPT ![c].disables = @ + 1]
       ELSE /\ cycle' = Passed(c, u)
            /\ UNCHANGED user
    /\ UNCHANGED <<signingIn, ran, failures>>

\* The claim commits and the audit row after it fails: the error is caught, and
\* the disable is not counted.
DisableUncounted(c, u) ==
    /\ NextIs(c, u) /\ cycle[c].plan[u] = "disable" /\ failures < MaxFailures
    /\ cycle[c].disables < Cap /\ AsRead(c, u)
    /\ user' = [user EXCEPT ![u].disabled = TRUE]
    /\ cycle' = Passed(c, u)
    /\ failures' = failures + 1
    /\ UNCHANGED <<signingIn, ran>>

\* An error before the claim is logged and its member skipped.
Skip(c, u) ==
    /\ NextIs(c, u) /\ failures < MaxFailures
    /\ cycle' = Passed(c, u)
    /\ failures' = failures + 1
    /\ UNCHANGED <<user, signingIn, ran>>

\* A restart starts another cycle; a batch that cannot be loaded ends the day's.
Crash(c) ==
    /\ cycle[c] # NoCycle /\ failures < MaxFailures
    /\ cycle' = [cycle EXCEPT ![c] = NoCycle]
    /\ ran' \in {ran, ran \ {c}}
    /\ failures' = failures + 1
    /\ UNCHANGED <<user, signingIn>>

-----------------------------------------------------------------------------
(* Members, staff and time.                                                *)

SignInRead(u) ==
    /\ ~user[u].disabled /\ u \notin signingIn
    /\ signingIn' = signingIn \cup {u}
    /\ UNCHANGED <<user, cycle, ran, failures>>

\* loginUser writes by id alone, after the password is compared.
SignInWrite(u) ==
    /\ u \in signingIn
    /\ user' = [user EXCEPT ![u].used = TRUE, ![u].idle = 0, ![u].warned = Never]
    /\ cycle' = Moved(cycle, u, {"lastLogin", "inactivityWarnedAt"})
    /\ signingIn' = signingIn \ {u}
    /\ UNCHANGED <<ran, failures>>

StaffDisable(u) ==
    /\ user' = [user EXCEPT ![u].disabled = TRUE]
    /\ UNCHANGED <<signingIn, cycle, ran, failures>>

StaffEnable(u) ==
    /\ user' = [user EXCEPT ![u].disabled = FALSE, ![u].used = TRUE, ![u].idle = 0,
                            ![u].warned = Never]
    /\ cycle' = Moved(cycle, u, {"reactivatedAt", "inactivityWarnedAt"})
    /\ UNCHANGED <<signingIn, ran, failures>>

\* Staff lock a rank or assign one, donors come and go.
SetExempt(u) ==
    /\ user' = [user EXCEPT ![u].exempt = ~@]
    /\ UNCHANGED <<signingIn, cycle, ran, failures>>

Older(age, threshold) == IF age = Never \/ age = threshold THEN age ELSE age + 1

\* A day has its cycles; those with nothing to do are left out.
Day ==
    /\ ran = Cycles \/ \A u \in Members : Evaluate(u, user[u]) = "none"
    /\ ran' = {}
    /\ user' = [u \in Members |->
                  [user[u] EXCEPT !.idle = Older(@, DisableAfter), !.warned = Older(@, Grace)]]
    /\ UNCHANGED <<signingIn, cycle, failures>>

CycleNext ==
    \E c \in Cycles :
       \/ StartCycle(c) \/ LoadBatch(c) \/ Crash(c)
       \/ \E u \in Members : \/ ApplyWarn(c, u) \/ ApplyDisable(c, u)
                             \/ DisableUncounted(c, u) \/ Skip(c, u)

MemberNext ==
    \/ \E u \in Members : SignInRead(u) \/ SignInWrite(u)
    \/ \E u \in Moderated : StaffDisable(u) \/ StaffEnable(u) \/ SetExempt(u)

Next == CycleNext \/ MemberNext \/ Day

Spec == Init /\ [][Next]_vars

\* What the job and the calendar do: one of it is always enabled.
Progress ==
    \/ Day
    \/ \E c \in Cycles :
          StartCycle(c) \/ LoadBatch(c) \/ \E u \in Members : ApplyWarn(c, u) \/ ApplyDisable(c, u)

\* Days pass, and the job runs its cycles to the end.
Fairness == WF_vars(Progress)

FairSpec == Spec /\ Fairness

-----------------------------------------------------------------------------
(* Signing in answers a warning (inactivityJob.ts:118, #825): whatever was *)
(* read before it, the sweep disables a member who has used the account    *)
(* only on a warning at least its grace old that nothing has answered.     *)
NobodyIsDisabledUnwarned ==
    [][\A u \in Members :
          user'[u].disabled /\ ~user[u].disabled /\ user[u].used
              => \/ StaffDisable(u)
                 \/ user[u].warned >= Grace /\ user[u].idle >= DisableAfter]_vars

(* No member is immortal (inactivityJob.ts:310, inactivity.ts:130): one    *)
(* who is idle past every threshold does not stay enabled and in scope for *)
(* ever, though each cycle disables no more than its cap and goes by       *)
(* batches.                                                                *)
Overstays(u) == InScope(user[u]) /\ user[u].idle = DisableAfter
DormantMembersGo ==
    \A u \in Members \ AdminCreated : []<>~Overstays(u)
=============================================================================
