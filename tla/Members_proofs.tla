--------------------------- MODULE Members_proofs ---------------------------
(***************************************************************************)
(* The components of the site that decide about members - registration,    *)
(* account recovery, the leadership of a community and the inactivity      *)
(* sweep - for any constants: what each promises holds in every behaviour  *)
(* of the site, whatever the other components do meanwhile.                *)
(*                                                                         *)
(* Each part gives the component's inductive invariant, then why its steps *)
(* keep it; the end joins the parts.                                       *)
(***************************************************************************)
EXTENDS Site, FiniteSetTheorems, TLAPS

(***************************************************************************)
(* Seats. The strengthening: the advisory lock admits one registration,    *)
(* which goes by a limit there has been; what it has counted leaves it a   *)
(* seat until it commits, apart from those staff have opened since.        *)
(***************************************************************************)
OneInside ==
    \A t, u \in Registrations : reg[t].step \in Seat!Inside /\ reg[u].step \in Seat!Inside => t = u

LimitsKnown ==
    /\ maxUsers <= highest
    /\ \A t \in Registrations : reg[t].step # "idle" => reg[t].limit <= highest

SeatKept ==
    \A t \in Registrations :
        reg[t].step = "counted" => Seat!SeatsTaken + 1 <= reg[t].limit + uncapped

\* A registration in flight knows for whom.
Named ==
    \A t \in Registrations :
        reg[t].step # "idle" => reg[t].who \in People /\ reg[t].limit \in Limits

SeatsInv == Seat!TypeOK /\ OneInside /\ LimitsKnown /\ Named /\ SeatKept /\ Seat!SeatsNeverOversold

EnabledPeople == {p \in People : account[p] = "enabled"}

-----------------------------------------------------------------------------
LEMMA SeatsCardinality ==
  ASSUME NEW S
  PROVE  Seat!Cardinality(S) = Cardinality(S) /\ (Seat!IsFiniteSet(S) <=> IsFiniteSet(S))
  BY DEF Seat!Cardinality, Cardinality, Seat!IsFiniteSet, IsFiniteSet

\* The seats taken are finitely many.
LEMMA SeatsCounted ==
  ASSUME Seat!Assumptions
  PROVE  IsFiniteSet(EnabledPeople) /\ Seat!SeatsTaken = Cardinality(EnabledPeople) /\ Seat!SeatsTaken \in Nat
  <1>1. EnabledPeople \subseteq People
    BY DEF EnabledPeople
  <1>2. IsFiniteSet(EnabledPeople)
    BY <1>1, FS_Subset, SeatsCardinality DEF Seat!Assumptions
  <1> QED BY <1>2, FS_CardinalityType, SeatsCardinality DEF Seat!SeatsTaken, EnabledPeople

\* An account that is enabled takes one more.
LEMMA OneMore ==
  ASSUME Seat!Assumptions, Seat!TypeOK, NEW p \in People, account[p] # "enabled",
         account' = [account EXCEPT ![p] = "enabled"]
  PROVE  Seat!SeatsTaken' = Seat!SeatsTaken + 1
  <1>1. EnabledPeople' = EnabledPeople \cup {p} /\ p \notin EnabledPeople
    BY DEF EnabledPeople, Seat!TypeOK
  <1>2. Cardinality(EnabledPeople \cup {p}) = Cardinality(EnabledPeople) + 1
    BY <1>1, SeatsCounted, FS_AddElement
  <1> QED BY <1>1, <1>2, SeatsCounted, SeatsCardinality DEF Seat!SeatsTaken, EnabledPeople

\* One that is disabled takes one less.
LEMMA OneLess ==
  ASSUME Seat!Assumptions, Seat!TypeOK, NEW p \in People, account[p] = "enabled",
         account' = [account EXCEPT ![p] = "disabled"]
  PROVE  Seat!SeatsTaken' = Seat!SeatsTaken - 1
  <1>1. EnabledPeople' = EnabledPeople \ {p} /\ p \in EnabledPeople
    BY DEF EnabledPeople, Seat!TypeOK
  <1>2. Cardinality(EnabledPeople \ {p}) = Cardinality(EnabledPeople) - 1
    BY <1>1, SeatsCounted, FS_RemoveElement
  <1> QED BY <1>1, <1>2, SeatsCounted, SeatsCardinality DEF Seat!SeatsTaken, EnabledPeople

LEMMA NatTypes ==
  ASSUME Seat!Assumptions, Seat!TypeOK, Named
  PROVE  /\ highest \in Nat /\ maxUsers \in Nat /\ uncapped \in Nat
         /\ \A t \in Registrations : reg[t].limit \in Nat
  <1>1. Limits \subseteq Nat /\ MaxUncapped \in Nat
    BY DEF Seat!Assumptions
  <1>2. uncapped \in 0 .. MaxUncapped
    BY DEF Seat!TypeOK
  <1>3. highest \in Nat /\ maxUsers \in Nat /\ uncapped \in Nat
    BY <1>1, <1>2 DEF Seat!TypeOK
  <1>4. ASSUME NEW t \in Registrations
        PROVE  reg[t].limit \in Nat
    <2>1. reg[t].limit \in Limits \cup {0}
      BY DEF Seat!TypeOK
    <2>2. \A n \in Limits \cup {0} : n \in Nat
      BY <1>1
    <2> QED BY <2>1, <2>2
  <1> QED BY <1>3, <1>4

-----------------------------------------------------------------------------
LEMMA SeatsInit ==
  ASSUME Seat!Assumptions, Seat!Init
  PROVE  SeatsInv
  <1>0. maxUsers \in Nat
    BY DEF Seat!Init, Seat!Assumptions
  <1>1. Seat!TypeOK
    BY DEF Seat!Init, Seat!TypeOK, Seat!NoRegistration, Seat!Steps, Seat!Statuses, Seat!Assumptions
  <1>2. Seat!SeatsTaken <= highest + uncapped
    BY <1>1, SeatsCounted, SeatsCardinality DEF Seat!Init, Seat!SeatsTaken, Seat!Assumptions
  <1> QED BY <1>0, <1>1, <1>2 DEF Seat!Init, SeatsInv, OneInside, LimitsKnown, Named, SeatKept,
                            Seat!SeatsNeverOversold, Seat!NoRegistration, Seat!Inside

LEMMA SeatsNext ==
  ASSUME Seat!Assumptions, SeatsInv, [Seat!Next]_(Seat!vars)
  PROVE  SeatsInv'
  <1> USE DEF SeatsInv, Seat!Inside
  <1>0. /\ Seat!SeatsTaken \in Nat /\ highest \in Nat /\ maxUsers \in Nat /\ uncapped \in Nat
        /\ \A t \in Registrations : reg[t].limit \in Nat
    BY SeatsCounted, NatTypes
  <1>1. ASSUME NEW t \in Registrations, NEW p \in People, Seat!RegisterRead(t, p)
        PROVE  SeatsInv'
    <2>1. Seat!TypeOK' /\ Named'
      BY <1>1 DEF Seat!RegisterRead, Seat!TypeOK, Named, Seat!Steps, Seat!NoRegistration
    <2>2. Seat!SeatsTaken' = Seat!SeatsTaken
      BY <1>1 DEF Seat!RegisterRead, Seat!SeatsTaken
    <2> QED BY <1>0, <1>1, <2>1, <2>2 DEF Seat!RegisterRead, OneInside, LimitsKnown, SeatKept,
               Seat!SeatsNeverOversold, Seat!TypeOK
  <1>2. ASSUME NEW t \in Registrations, Seat!RegisterLock(t)
        PROVE  SeatsInv'
    <2>1. Seat!TypeOK' /\ Named'
      BY <1>2 DEF Seat!RegisterLock, Seat!TypeOK, Named, Seat!Steps
    <2>2. Seat!SeatsTaken' = Seat!SeatsTaken
      BY <1>2 DEF Seat!RegisterLock, Seat!SeatsTaken
    <2>3. OneInside'
      BY <1>2 DEF Seat!RegisterLock, Seat!MayEnter, OneInside, Seat!TypeOK
    <2> QED BY <1>0, <1>2, <2>1, <2>2, <2>3 DEF Seat!RegisterLock, LimitsKnown, SeatKept,
               Seat!SeatsNeverOversold, Seat!TypeOK
  <1>3. ASSUME NEW t \in Registrations, Seat!RegisterCount(t)
        PROVE  SeatsInv'
    <2>1. Seat!TypeOK' /\ Named'
      BY <1>3 DEF Seat!RegisterCount, Seat!Ended, Seat!TypeOK, Named, Seat!Steps, Seat!NoRegistration
    <2>2. Seat!SeatsTaken' = Seat!SeatsTaken
      BY <1>3 DEF Seat!RegisterCount, Seat!SeatsTaken
    <2>3. OneInside' /\ LimitsKnown'
      BY <1>3 DEF Seat!RegisterCount, Seat!Ended, Seat!NoRegistration, OneInside, LimitsKnown, Seat!TypeOK
    <2>4. SeatKept'
      BY <1>0, <1>3, <2>2 DEF Seat!RegisterCount, Seat!Ended, Seat!NoRegistration, SeatKept, Seat!TypeOK
    <2> QED BY <1>3, <2>1, <2>2, <2>3, <2>4 DEF Seat!RegisterCount, Seat!SeatsNeverOversold
  <1>4. ASSUME NEW t \in Registrations, Seat!RegisterCommit(t)
        PROVE  SeatsInv'
    <2>1. reg[t].who \in People /\ reg[t].limit <= highest /\ Seat!SeatsTaken + 1 <= reg[t].limit + uncapped
      BY <1>4 DEF Seat!RegisterCommit, Named, LimitsKnown, SeatKept
    <2>2. Seat!TypeOK' /\ Named'
      BY <1>4, <2>1 DEF Seat!RegisterCommit, Seat!Ended, Seat!TypeOK, Named, Seat!NoRegistration, Seat!Statuses, Seat!Steps
    <2>3. OneInside' /\ LimitsKnown'
      BY <1>4 DEF Seat!RegisterCommit, Seat!Ended, Seat!NoRegistration, OneInside, LimitsKnown, Seat!TypeOK
    <2>4. Seat!SeatsTaken' = Seat!SeatsTaken \/ Seat!SeatsTaken' = Seat!SeatsTaken + 1
      <3>1. CASE account[reg[t].who] = "none"
        BY <1>4, <2>1, <3>1, OneMore DEF Seat!RegisterCommit
      <3>2. CASE account[reg[t].who] # "none"
        BY <1>4, <3>2 DEF Seat!RegisterCommit, Seat!SeatsTaken
      <3> QED BY <3>1, <3>2
    <2>5. SeatKept'
      BY <1>4 DEF Seat!RegisterCommit, Seat!Ended, Seat!NoRegistration, SeatKept, OneInside, Seat!TypeOK
    <2>6. Seat!SeatsNeverOversold'
      BY <1>0, <1>4, <2>1, <2>4 DEF Seat!RegisterCommit, Seat!SeatsNeverOversold
    <2> QED BY <2>2, <2>3, <2>5, <2>6
  <1>5. ASSUME NEW t \in Registrations, Seat!Abort(t)
        PROVE  SeatsInv'
    <2>1. Seat!TypeOK' /\ Named'
      BY <1>5 DEF Seat!Abort, Seat!Ended, Seat!TypeOK, Named, Seat!NoRegistration, Seat!Steps
    <2>2. Seat!SeatsTaken' = Seat!SeatsTaken
      BY <1>5 DEF Seat!Abort, Seat!SeatsTaken
    <2> QED BY <1>5, <2>1, <2>2 DEF Seat!Abort, Seat!Ended, Seat!NoRegistration, OneInside, LimitsKnown, SeatKept,
               Seat!SeatsNeverOversold, Seat!TypeOK
  <1>6. ASSUME NEW p \in People, Seat!StaffOpen(p)
        PROVE  SeatsInv'
    <2>1. Seat!TypeOK' /\ Named'
      BY <1>0, <1>6 DEF Seat!StaffOpen, Seat!TypeOK, Named, Seat!Statuses, Seat!Assumptions
    <2>2. Seat!SeatsTaken' = Seat!SeatsTaken + 1
      BY <1>6, OneMore DEF Seat!StaffOpen
    <2>3. OneInside' /\ LimitsKnown'
      BY <1>6 DEF Seat!StaffOpen, OneInside, LimitsKnown
    <2>4. SeatKept' /\ Seat!SeatsNeverOversold'
      BY <1>0, <1>6, <2>2 DEF Seat!StaffOpen, SeatKept, Seat!SeatsNeverOversold
    <2> QED BY <2>1, <2>3, <2>4
  <1>7. ASSUME NEW p \in People, Seat!Disable(p)
        PROVE  SeatsInv'
    <2>1. Seat!TypeOK' /\ Named'
      BY <1>7 DEF Seat!Disable, Seat!TypeOK, Named, Seat!Statuses
    <2>2. Seat!SeatsTaken' = Seat!SeatsTaken - 1
      BY <1>7, OneLess DEF Seat!Disable
    <2>3. OneInside' /\ LimitsKnown'
      BY <1>7 DEF Seat!Disable, OneInside, LimitsKnown
    <2>4. SeatKept' /\ Seat!SeatsNeverOversold'
      BY <1>0, <1>7, <2>2 DEF Seat!Disable, SeatKept, Seat!SeatsNeverOversold
    <2> QED BY <2>1, <2>3, <2>4
  <1>8. ASSUME NEW n \in Limits, Seat!SetLimit(n)
        PROVE  SeatsInv'
    <2>1. n \in Nat
      BY DEF Seat!Assumptions
    <2>2. Seat!TypeOK' /\ Named'
      BY <1>8 DEF Seat!SetLimit, Seat!TypeOK, Named
    <2>3. Seat!SeatsTaken' = Seat!SeatsTaken
      BY <1>8 DEF Seat!SetLimit, Seat!SeatsTaken
    <2> QED BY <1>0, <1>8, <2>1, <2>2, <2>3 DEF Seat!SetLimit, OneInside, LimitsKnown, SeatKept,
               Seat!SeatsNeverOversold
  <1>9. CASE UNCHANGED Seat!vars
    BY <1>9 DEF Seat!vars, Seat!TypeOK, OneInside, LimitsKnown, Named, SeatKept, Seat!SeatsNeverOversold,
                Seat!SeatsTaken
  <1> QED BY <1>1, <1>2, <1>3, <1>4, <1>5, <1>6, <1>7, <1>8, <1>9 DEF Seat!Next

-----------------------------------------------------------------------------
(***************************************************************************)
(* Recovery.  The strengthening: row locks keep apart what transactions    *)
(* have picked; what one holds still outlives its own instant, and what    *)
(* was put an end to at an instant does not outlive that.                  *)
(***************************************************************************)
Issuing(x) == x.step \in {"issue", "picking", "issuing"}

LocksApart ==
    \A t, u \in RecoveryRequests : t # u => recovery[t].held \cap recovery[u].held = {}

HeldOutlives ==
    \A t \in RecoveryRequests : \A k \in recovery[t].held : Rec!Outlives(k, recovery[t].now)

ClaimIsHeld ==
    \A t \in RecoveryRequests :
        /\ recovery[t].step \in {"claimed", "picked", "done"} => recovery[t].own \in recovery[t].held
        /\ recovery[t].step \in {"idle", "issue", "picking", "read", "reset"} => recovery[t].held = {}
        /\ recovery[t].step # "idle" => recovery[t].own \in Tokens

\* The token a request will issue is nobody else's.
IssuesAlone ==
    \A t \in RecoveryRequests :
        Issuing(recovery[t]) =>
            /\ recovery[t].own \in Tokens /\ token[recovery[t].own].status = "unissued"
            /\ \A u \in RecoveryRequests :
                  Issuing(recovery[u]) /\ recovery[u].own = recovery[t].own => u = t

EndsStay ==
    /\ \A k \in Tokens, n \in Nat : <<k, n>> \in retired =>
          token[k].status # "unissued" /\ ~Rec!Outlives(k, n)
    /\ \A k \in Tokens : sets[k] # 0 => token[k].status \in {"used", "deleted"}
    /\ \A k \in revoking : token[k].status # "unissued"

RowLocks == LocksApart /\ HeldOutlives /\ ClaimIsHeld /\ IssuesAlone /\ EndsStay

RecoveryInv == Rec!TypeOK /\ RowLocks

\* What RetiredTokensSetNothing says of one step.
SetsNothingRetired ==
    \A t \in RecoveryRequests :
        LET x == recovery[t] IN
        sets' # sets /\ recovery'[t] # x /\ x.step = "done" =>
            /\ sets[x.own] = 0
            /\ \A n \in 0 .. x.now : <<x.own, n>> \notin retired

-----------------------------------------------------------------------------
LEMMA RecoveryInit ==
  ASSUME Rec!Init
  PROVE  RecoveryInv
  BY DEF Rec!Init, RecoveryInv, Rec!TypeOK, Rec!TxStates, Rec!Rows, Rec!Idle, RowLocks, LocksApart,
         HeldOutlives, ClaimIsHeld, IssuesAlone, Issuing, EndsStay

\* One request moves and no row: what it takes outlives its instant.
LEMMA RequestMoves ==
  ASSUME RecoveryInv, NEW t \in RecoveryRequests, NEW x \in Rec!TxStates,
         recovery' = [recovery EXCEPT ![t] = x],
         \A k \in x.held : k \in recovery[t].held \/ \A u \in RecoveryRequests \ {t} : k \notin recovery[u].held,
         \A k \in x.held : Rec!Outlives(k, x.now),
         x.step \in {"claimed", "picked", "done"} => x.own \in x.held,
         x.step \in {"idle", "issue", "picking", "read", "reset"} => x.held = {},
         x.step # "idle" => x.own \in Tokens,
         Issuing(x) => /\ token[x.own].status = "unissued"
                       /\ \A u \in RecoveryRequests \ {t} :
                             Issuing(recovery[u]) => recovery[u].own # x.own,
         UNCHANGED <<token, sets, retired, revoking>>, instant' \in Nat
  PROVE  RecoveryInv'
  <1>1. Rec!TypeOK'
    BY DEF RecoveryInv, Rec!TypeOK
  <1>2. recovery'[t] = x /\ \A u \in RecoveryRequests \ {t} : recovery'[u] = recovery[u]
    BY DEF RecoveryInv, Rec!TypeOK
  <1>3. LocksApart'
    BY <1>2 DEF RecoveryInv, RowLocks, LocksApart
  <1>4. HeldOutlives'
    BY <1>2 DEF RecoveryInv, RowLocks, HeldOutlives, Rec!Outlives
  <1>5. ClaimIsHeld'
    BY <1>2 DEF RecoveryInv, RowLocks, ClaimIsHeld
  <1>6. IssuesAlone'
    <2>1. \A u \in RecoveryRequests : Issuing(recovery[u])' = Issuing(IF u = t THEN x ELSE recovery[u])
      BY <1>2 DEF Issuing
    <2>2. Issuing(x) => x.own \in Tokens
      BY DEF Issuing
    <2> QED BY <1>2, <2>1, <2>2 DEF RecoveryInv, RowLocks, IssuesAlone
  <1>7. EndsStay'
    BY DEF RecoveryInv, RowLocks, EndsStay, Rec!Outlives
  <1> QED BY <1>1, <1>3, <1>4, <1>5, <1>6, <1>7 DEF RecoveryInv, RowLocks

\* A request that ends has no lock and no claim.
LEMMA EndKeeps ==
  ASSUME RecoveryInv, NEW t \in RecoveryRequests, recovery' = Rec!Finish(t),
         UNCHANGED <<instant, token, sets, retired, revoking>>
  PROVE  RecoveryInv'
  <1> DEFINE x == Rec!Idle
  <1>1. x \in Rec!TxStates /\ x.held = {} /\ x.step = "idle" /\ ~Issuing(x)
    BY DEF Rec!Idle, Rec!TxStates, Issuing
  <1>2. recovery' = [recovery EXCEPT ![t] = x] /\ instant' \in Nat
    BY DEF Rec!Finish, RecoveryInv, Rec!TypeOK
  <1> HIDE DEF x
  <1> QED BY <1>1, <1>2, RequestMoves

\* A request that goes on with what it holds.
LEMMA GoOnKeeps ==
  ASSUME RecoveryInv, NEW t \in RecoveryRequests, NEW x \in Rec!TxStates,
         recovery' = [recovery EXCEPT ![t] = x],
         x.held = recovery[t].held, x.own = recovery[t].own,
         x.now = recovery[t].now \/ x.held = {},
         recovery[t].step # "idle", x.step # "idle",
         Issuing(x) <=> Issuing(recovery[t]),
         x.step \in {"claimed", "picked", "done"} => x.own \in x.held,
         x.step \in {"issue", "picking", "read", "reset"} => x.held = {},
         UNCHANGED <<instant, token, sets, retired, revoking>>
  PROVE  RecoveryInv'
  <1>1. \A k \in x.held : Rec!Outlives(k, x.now)
    BY DEF RecoveryInv, RowLocks, HeldOutlives
  <1>2. x.own \in Tokens /\ instant' \in Nat
    BY DEF RecoveryInv, RowLocks, ClaimIsHeld, Rec!TypeOK
  <1>3. Issuing(x) => /\ token[x.own].status = "unissued"
                      /\ \A u \in RecoveryRequests \ {t} :
                            Issuing(recovery[u]) => recovery[u].own # x.own
    BY DEF RecoveryInv, RowLocks, IssuesAlone
  <1> QED BY <1>1, <1>2, <1>3, RequestMoves

\* A request takes the rows of its UPDATE that still match.
LEMMA TakeKeeps ==
  ASSUME RecoveryInv, NEW t \in RecoveryRequests, NEW step, recovery' = Rec!Take(t, step),
         Rec!MayLock(t, recovery[t].rows),
         \/ recovery[t].step = "picking" /\ step = "issuing"
         \/ recovery[t].step = "picked" /\ step = "done",
         UNCHANGED <<instant, token, sets, retired, revoking>>
  PROVE  RecoveryInv'
  <1> DEFINE held == recovery[t].held \cup (recovery[t].rows \cap Rec!Live(recovery[t].now))
             x == [recovery[t] EXCEPT !.step = step, !.held = held]
  <1>1. recovery[t] \in Rec!TxStates
    BY DEF RecoveryInv, Rec!TypeOK
  <1>2. /\ x \in Rec!TxStates /\ x.step = step /\ x.held = held
        /\ x.own = recovery[t].own /\ x.now = recovery[t].now
    BY <1>1 DEF Rec!TxStates, Rec!Live
  <1>3. recovery' = [recovery EXCEPT ![t] = x] /\ instant' \in Nat
    BY <1>1 DEF Rec!Take, RecoveryInv, Rec!TypeOK
  <1>4. \A k \in held : k \in recovery[t].held \/ \A u \in RecoveryRequests \ {t} : k \notin recovery[u].held
    BY DEF Rec!MayLock
  <1>5. \A k \in held : Rec!Outlives(k, recovery[t].now)
    BY DEF RecoveryInv, RowLocks, HeldOutlives, Rec!Live
  <1>6. /\ step = "done" => recovery[t].own \in held
        /\ recovery[t].own \in Tokens
        /\ step # "idle" /\ Issuing(recovery[t]) = (step = "issuing")
    BY DEF RecoveryInv, RowLocks, ClaimIsHeld, Issuing
  <1>7. step = "issuing" => /\ token[recovery[t].own].status = "unissued"
                            /\ \A u \in RecoveryRequests \ {t} :
                                  Issuing(recovery[u]) => recovery[u].own # recovery[t].own
    BY <1>6 DEF RecoveryInv, RowLocks, IssuesAlone
  <1>8. Issuing(x) = (step = "issuing")
    BY <1>2 DEF Issuing
  <1> HIDE DEF x, held
  <1>9. /\ \A k \in x.held : k \in recovery[t].held \/ \A u \in RecoveryRequests \ {t} : k \notin recovery[u].held
        /\ \A k \in x.held : Rec!Outlives(k, x.now)
    BY <1>2, <1>4, <1>5
  <1>10. /\ x.step \in {"claimed", "picked", "done"} => x.own \in x.held
         /\ x.step \notin {"idle", "issue", "picking", "read", "reset"}
         /\ x.own \in Tokens
    BY <1>2, <1>6
  <1>11. Issuing(x) => /\ token[x.own].status = "unissued"
                       /\ \A u \in RecoveryRequests \ {t} :
                             Issuing(recovery[u]) => recovery[u].own # x.own
    BY <1>2, <1>7, <1>8
  <1> QED BY <1>2, <1>3, <1>9, <1>10, <1>11, RequestMoves

-----------------------------------------------------------------------------
(* A recovery request.                                                     *)

LEMMA IssueBeginKeeps ==
  ASSUME RecoveryInv, NEW t \in RecoveryRequests, NEW k \in Tokens, Rec!IssueBegin(t, k)
  PROVE  RecoveryInv' /\ SetsNothingRetired
  <1> DEFINE x == [Rec!Idle EXCEPT !.step = "issue", !.own = k, !.now = instant]
  <1>1. instant \in Nat
    BY DEF RecoveryInv, Rec!TypeOK
  <1>2. x \in Rec!TxStates /\ x.step = "issue" /\ x.own = k /\ x.held = {}
    BY <1>1 DEF Rec!Idle, Rec!TxStates
  <1>3. /\ token[k].status = "unissued"
        /\ \A u \in RecoveryRequests : Issuing(recovery[u]) => recovery[u].own # k
    BY DEF Rec!IssueBegin, Issuing
  <1>4. recovery' = [recovery EXCEPT ![t] = x] /\ UNCHANGED <<instant, token, sets, retired, revoking>>
    BY DEF Rec!IssueBegin
  <1> HIDE DEF x
  <1> QED BY <1>1, <1>2, <1>3, <1>4, RequestMoves DEF SetsNothingRetired

LEMMA IssuePickKeeps ==
  ASSUME RecoveryInv, NEW t \in RecoveryRequests, Rec!IssuePick(t)
  PROVE  RecoveryInv' /\ SetsNothingRetired
  <1> DEFINE x == [recovery[t] EXCEPT !.step = "picking", !.rows = Rec!Live(recovery[t].now)]
  <1>1. recovery[t] \in Rec!TxStates /\ recovery[t].step = "issue" /\ recovery[t].held = {}
    BY DEF RecoveryInv, Rec!TypeOK, RowLocks, ClaimIsHeld, Rec!IssuePick
  <1>2. /\ recovery' = [recovery EXCEPT ![t] = x]
        /\ UNCHANGED <<instant, token, sets, retired, revoking>>
    BY <1>1 DEF Rec!IssuePick, RecoveryInv, Rec!TypeOK
  <1>3. /\ x \in Rec!TxStates /\ x.held = recovery[t].held /\ x.own = recovery[t].own
        /\ x.step = "picking" /\ x.now = recovery[t].now
    BY <1>1 DEF Rec!TxStates, Rec!Live
  <1>4. Issuing(x) /\ Issuing(recovery[t])
    BY <1>1, <1>3 DEF Issuing
  <1> HIDE DEF x
  <1> QED BY <1>1, <1>2, <1>3, <1>4, GoOnKeeps DEF SetsNothingRetired

LEMMA IssueExpireKeeps ==
  ASSUME RecoveryInv, NEW t \in RecoveryRequests, Rec!IssueExpire(t)
  PROVE  RecoveryInv' /\ SetsNothingRetired
  BY TakeKeeps DEF Rec!IssueExpire, SetsNothingRetired

\* A request commits: the rows it holds expire at its instant, but its own,
\* which is issued or used, and it ends.
LEMMA CommitKeeps ==
  ASSUME RecoveryInv, NEW t \in RecoveryRequests, recovery[t].step \in {"issuing", "done"},
         NEW own \in Rec!Rows,
         \A k \in Tokens : token'[k] = IF k = recovery[t].own THEN own ELSE Rec!Expired(t, k),
         DOMAIN token' = Tokens, token' = [k \in Tokens |-> token'[k]],
         own.status = IF recovery[t].step = "issuing" THEN "open" ELSE "used",
         recovery' = Rec!Finish(t), retired' = retired \cup (recovery[t].held \X {recovery[t].now}),
         sets' \in [Tokens -> Nat],
         \A k \in Tokens : sets'[k] = sets[k] \/ (k = recovery[t].own /\ own.status = "used"),
         UNCHANGED <<instant, revoking>>
  PROVE  RecoveryInv'
  <1> DEFINE mine == recovery[t].own
             now == recovery[t].now
  <1>1. /\ mine \in Tokens /\ now \in Nat /\ recovery[t].held \subseteq Tokens
        /\ own.status = "open" => token[mine].status = "unissued" /\ mine \notin recovery[t].held
        /\ own.status = "used" => mine \in recovery[t].held
    BY DEF RecoveryInv, Rec!TypeOK, Rec!TxStates, RowLocks, ClaimIsHeld, IssuesAlone, Issuing,
           HeldOutlives, Rec!Outlives
  <1>2. \A u \in RecoveryRequests \ {t} : mine \notin recovery[u].held
    BY <1>1 DEF RecoveryInv, RowLocks, LocksApart, HeldOutlives, Rec!Outlives
  <1>3. /\ recovery'[t] = Rec!Idle /\ \A u \in RecoveryRequests \ {t} : recovery'[u] = recovery[u]
        /\ Rec!Idle.held = {} /\ Rec!Idle.step = "idle" /\ Rec!Idle \in Rec!TxStates
    BY DEF Rec!Finish, RecoveryInv, Rec!TypeOK, Rec!Idle, Rec!TxStates
  <1>4. /\ \A k \in Tokens \ {mine} : /\ token'[k] \in Rec!Rows /\ token'[k].status = token[k].status
                                      /\ token'[k].expires =
                                           IF k \in recovery[t].held THEN now ELSE token[k].expires
        /\ token'[mine] = own
    BY <1>1 DEF Rec!Expired, RecoveryInv, Rec!TypeOK, Rec!Rows
  <1>5. Rec!TypeOK'
    <2>1. token' \in [Tokens -> Rec!Rows]
      BY <1>4
    <2>2. recovery' \in [RecoveryRequests -> Rec!TxStates]
      BY <1>3 DEF RecoveryInv, Rec!TypeOK, Rec!Finish
    <2>3. retired' \subseteq Tokens \X Nat
      BY <1>1 DEF RecoveryInv, Rec!TypeOK
    <2> QED BY <2>1, <2>2, <2>3 DEF RecoveryInv, Rec!TypeOK
  <1>6. LocksApart' /\ ClaimIsHeld'
    BY <1>3 DEF RecoveryInv, RowLocks, LocksApart, ClaimIsHeld
  <1>7. HeldOutlives'
    <2>1. ASSUME NEW u \in RecoveryRequests, NEW k \in recovery'[u].held
          PROVE  Rec!Outlives(k, recovery[u].now)' /\ recovery'[u].now = recovery[u].now
      <3>1. u # t /\ k \in recovery[u].held /\ k \notin recovery[t].held
        BY <1>3, <2>1 DEF RecoveryInv, RowLocks, LocksApart
      <3>2. k \in Tokens /\ k # mine /\ Rec!Outlives(k, recovery[u].now)
        BY <1>2, <3>1 DEF RecoveryInv, Rec!TypeOK, Rec!TxStates, RowLocks, HeldOutlives
      <3> QED BY <1>3, <1>4, <3>1, <3>2 DEF Rec!Outlives
    <2> QED BY <2>1 DEF HeldOutlives, Rec!Outlives
  <1>8. IssuesAlone'
    <2>1. ASSUME NEW u \in RecoveryRequests, Issuing(recovery[u])'
          PROVE  /\ u # t /\ recovery'[u] = recovery[u]
                 /\ recovery[u].own \in Tokens /\ recovery[u].own # mine
                 /\ token[recovery[u].own].status = "unissued"
      <3>1. u # t /\ recovery'[u] = recovery[u] /\ Issuing(recovery[u])
        BY <1>3, <2>1 DEF Issuing
      <3>2. recovery[u].own \in Tokens /\ token[recovery[u].own].status = "unissued"
        BY <3>1 DEF RecoveryInv, RowLocks, IssuesAlone
      <3>3. recovery[u].own # mine
        <4>1. CASE own.status = "open"
          BY <3>1, <4>1 DEF RecoveryInv, RowLocks, IssuesAlone, Issuing
        <4>2. CASE own.status = "used"
          BY <1>1, <3>2, <4>2 DEF RecoveryInv, RowLocks, HeldOutlives, Rec!Outlives
        <4> QED BY <4>1, <4>2
      <3> QED BY <3>1, <3>2, <3>3
    <2>2. \A u \in RecoveryRequests : Issuing(recovery[u])' => token'[recovery'[u].own].status = "unissued"
      BY <1>4, <2>1
    <2>3. \A u \in RecoveryRequests : Issuing(recovery[u])' => Issuing(recovery[u])
      BY <2>1 DEF Issuing
    <2> QED BY <2>1, <2>2, <2>3 DEF RecoveryInv, RowLocks, IssuesAlone
  <1>9. EndsStay'
    <2>1. ASSUME NEW k \in Tokens, NEW n \in Nat, <<k, n>> \in retired'
          PROVE  token'[k].status # "unissued" /\ ~Rec!Outlives(k, n)'
      <3>1. CASE <<k, n>> \in retired
        <4>1. token[k].status # "unissued" /\ ~Rec!Outlives(k, n)
          BY <3>1 DEF RecoveryInv, RowLocks, EndsStay
        <4>2. CASE k \in recovery[t].held
          <5>1. Rec!Outlives(k, now) /\ token[k].expires \in Nat
            BY <4>2 DEF RecoveryInv, RowLocks, HeldOutlives, Rec!TypeOK, Rec!Rows
          <5>2. now < n
            BY <1>1, <4>1, <5>1 DEF Rec!Outlives
          <5> QED BY <1>1, <1>4, <4>1, <4>2, <5>2 DEF Rec!Outlives
        <4>3. CASE k \notin recovery[t].held
          BY <1>1, <1>4, <4>1, <4>3 DEF Rec!Outlives
        <4> QED BY <4>2, <4>3
      <3>2. CASE k \in recovery[t].held /\ n = now
        <4>1. token[k].status = "open"
          BY <3>2 DEF RecoveryInv, RowLocks, HeldOutlives, Rec!Outlives
        <4> QED BY <1>1, <1>4, <3>2, <4>1 DEF Rec!Outlives
      <3> QED BY <2>1, <3>1, <3>2
    <2>2. ASSUME NEW k \in Tokens, sets'[k] # 0
          PROVE  token'[k].status \in {"used", "deleted"}
      <3>1. CASE k = mine /\ own.status = "used"
        BY <1>4, <3>1
      <3>2. CASE sets'[k] = sets[k]
        <4>1. token[k].status \in {"used", "deleted"}
          BY <2>2, <3>2 DEF RecoveryInv, RowLocks, EndsStay
        <4>2. k = mine => own.status = "used"
          BY <1>1, <4>1
        <4> QED BY <1>4, <4>1, <4>2
      <3> QED BY <3>1, <3>2
    <2>3. ASSUME NEW k \in revoking
          PROVE  token'[k].status # "unissued"
      BY <1>4, <2>3 DEF RecoveryInv, Rec!TypeOK, RowLocks, EndsStay
    <2> QED BY <2>1, <2>2, <2>3 DEF EndsStay
  <1> QED BY <1>5, <1>6, <1>7, <1>8, <1>9 DEF RecoveryInv, RowLocks

LEMMA IssueCommitKeeps ==
  ASSUME RecoveryInv, NEW t \in RecoveryRequests, Rec!IssueCommit(t)
  PROVE  RecoveryInv' /\ SetsNothingRetired
  <1> DEFINE own == [status |-> "open", expires |-> recovery[t].now + Lifetime]
  <1>1. own \in Rec!Rows /\ own.status = "open"
    BY RecoveryAssumptions DEF Rec!Assumptions, Rec!Rows, RecoveryInv, Rec!TypeOK, Rec!TxStates
  <1>2. /\ recovery[t].step = "issuing" /\ recovery' = Rec!Finish(t)
        /\ retired' = retired \cup (recovery[t].held \X {recovery[t].now})
        /\ UNCHANGED <<instant, sets, revoking>>
        /\ token' = [k \in Tokens |-> IF k = recovery[t].own THEN own ELSE Rec!Expired(t, k)]
    BY DEF Rec!IssueCommit
  <1>3. sets' \in [Tokens -> Nat]
    BY <1>2 DEF RecoveryInv, Rec!TypeOK
  <1> HIDE DEF own
  <1>4. RecoveryInv'
    BY <1>1, <1>2, <1>3, CommitKeeps
  <1> QED BY <1>2, <1>4 DEF SetsNothingRetired

-----------------------------------------------------------------------------
(* A reset.                                                                *)

LEMMA ResetReadKeeps ==
  ASSUME RecoveryInv, NEW t \in RecoveryRequests, NEW k \in Tokens, Rec!ResetRead(t, k)
  PROVE  RecoveryInv' /\ SetsNothingRetired
  <1> DEFINE x == [Rec!Idle EXCEPT !.step = "read", !.own = k]
  <1>1. x \in Rec!TxStates /\ x.step = "read" /\ x.own = k /\ x.held = {} /\ ~Issuing(x)
    BY DEF Rec!Idle, Rec!TxStates, Issuing
  <1>2. /\ recovery' = [recovery EXCEPT ![t] = x] /\ UNCHANGED <<instant, token, sets, retired, revoking>>
        /\ instant' \in Nat
    BY DEF Rec!ResetRead, RecoveryInv, Rec!TypeOK
  <1> HIDE DEF x
  <1> QED BY <1>1, <1>2, RequestMoves DEF SetsNothingRetired

LEMMA ResetBeginKeeps ==
  ASSUME RecoveryInv, NEW t \in RecoveryRequests, Rec!ResetBegin(t)
  PROVE  RecoveryInv' /\ SetsNothingRetired
  <1> DEFINE x == [recovery[t] EXCEPT !.step = "reset", !.now = instant]
  <1>1. /\ recovery[t] \in Rec!TxStates /\ recovery[t].step = "read" /\ recovery[t].held = {}
        /\ instant \in Nat
    BY DEF RecoveryInv, Rec!TypeOK, RowLocks, ClaimIsHeld, Rec!ResetBegin
  <1>2. /\ recovery' = [recovery EXCEPT ![t] = x]
        /\ UNCHANGED <<instant, token, sets, retired, revoking>>
    BY <1>1 DEF Rec!ResetBegin, RecoveryInv, Rec!TypeOK
  <1>3. /\ x \in Rec!TxStates /\ x.held = {} /\ x.own = recovery[t].own /\ x.step = "reset"
    BY <1>1 DEF Rec!TxStates
  <1>4. ~Issuing(x) /\ ~Issuing(recovery[t])
    BY <1>1, <1>3 DEF Issuing
  <1> HIDE DEF x
  <1> QED BY <1>1, <1>2, <1>3, <1>4, GoOnKeeps DEF SetsNothingRetired

LEMMA ResetClaimKeeps ==
  ASSUME RecoveryInv, NEW t \in RecoveryRequests, Rec!ResetClaim(t)
  PROVE  RecoveryInv' /\ SetsNothingRetired
  <1> DEFINE k == recovery[t].own
             x == [recovery[t] EXCEPT !.step = "claimed", !.held = {k}]
  <1>1. /\ recovery[t] \in Rec!TxStates /\ recovery[t].step = "reset" /\ k \in Tokens
    BY DEF RecoveryInv, Rec!TypeOK, RowLocks, ClaimIsHeld, Rec!ResetClaim
  <1>2. CASE ~Rec!ClaimMatches(k, recovery[t].now)
    BY <1>2, EndKeeps DEF Rec!ResetClaim, SetsNothingRetired
  <1>3. CASE Rec!ClaimMatches(k, recovery[t].now)
    <2>1. /\ recovery' = [recovery EXCEPT ![t] = x] /\ Rec!MayLock(t, {k})
          /\ UNCHANGED <<instant, token, sets, retired, revoking>> /\ instant' \in Nat
      BY <1>1, <1>3 DEF Rec!ResetClaim, RecoveryInv, Rec!TypeOK
    <2>2. /\ x \in Rec!TxStates /\ x.held = {k} /\ x.own = k /\ x.step = "claimed"
          /\ x.now = recovery[t].now
      BY <1>1 DEF Rec!TxStates
    <2>3. ~Issuing(x) /\ Rec!Outlives(k, recovery[t].now)
      BY <1>3, <2>2 DEF Issuing, Rec!ClaimMatches
    <2>4. \A u \in RecoveryRequests \ {t} : k \notin recovery[u].held
      BY <2>1 DEF Rec!MayLock
    <2> HIDE DEF x, k
    <2>5. /\ \A j \in x.held : \A u \in RecoveryRequests \ {t} : j \notin recovery[u].held
          /\ \A j \in x.held : Rec!Outlives(j, x.now)
      BY <2>2, <2>3, <2>4
    <2>6. x.own \in x.held /\ x.own \in Tokens /\ x.step \notin {"idle", "issue", "picking", "read", "reset"}
      BY <1>1, <2>2
    <2>7. RecoveryInv'
      BY <2>1, <2>2, <2>3, <2>5, <2>6, RequestMoves
    <2> QED BY <2>1, <2>7 DEF SetsNothingRetired
  <1> QED BY <1>2, <1>3

LEMMA ResetPickKeeps ==
  ASSUME RecoveryInv, NEW t \in RecoveryRequests, Rec!ResetPick(t)
  PROVE  RecoveryInv' /\ SetsNothingRetired
  <1> DEFINE x == [recovery[t] EXCEPT !.step = "picked",
                                      !.rows = Rec!Live(recovery[t].now) \ {recovery[t].own}]
  <1>1. recovery[t] \in Rec!TxStates /\ recovery[t].step = "claimed" /\ recovery[t].own \in recovery[t].held
    BY DEF RecoveryInv, Rec!TypeOK, RowLocks, ClaimIsHeld, Rec!ResetPick
  <1>2. /\ recovery' = [recovery EXCEPT ![t] = x]
        /\ UNCHANGED <<instant, token, sets, retired, revoking>>
    BY <1>1 DEF Rec!ResetPick, RecoveryInv, Rec!TypeOK
  <1>3. /\ x \in Rec!TxStates /\ x.held = recovery[t].held /\ x.own = recovery[t].own
        /\ x.step = "picked" /\ x.now = recovery[t].now
    BY <1>1 DEF Rec!TxStates, Rec!Live
  <1>4. ~Issuing(x) /\ ~Issuing(recovery[t])
    BY <1>1, <1>3 DEF Issuing
  <1> HIDE DEF x
  <1> QED BY <1>1, <1>2, <1>3, <1>4, GoOnKeeps DEF SetsNothingRetired

LEMMA ResetExpireKeeps ==
  ASSUME RecoveryInv, NEW t \in RecoveryRequests, Rec!ResetExpire(t)
  PROVE  RecoveryInv' /\ SetsNothingRetired
  BY TakeKeeps DEF Rec!ResetExpire, SetsNothingRetired

\* The token that sets the password was held, and so outlives the reset's instant.
LEMMA ResetCommitKeeps ==
  ASSUME RecoveryInv, NEW t \in RecoveryRequests, Rec!ResetCommit(t)
  PROVE  RecoveryInv' /\ SetsNothingRetired
  <1> DEFINE mine == recovery[t].own
             own == [token[mine] EXCEPT !.status = "used"]
  <1>1. /\ mine \in Tokens /\ token[mine] \in Rec!Rows /\ Rec!Outlives(mine, recovery[t].now)
        /\ recovery[t].now \in Nat /\ recovery[t].step = "done"
    BY DEF RecoveryInv, Rec!TypeOK, Rec!TxStates, RowLocks, ClaimIsHeld, HeldOutlives, Rec!ResetCommit
  <1>2. own \in Rec!Rows /\ own.status = "used"
    BY <1>1 DEF Rec!Rows
  <1>3. /\ recovery' = Rec!Finish(t)
        /\ retired' = retired \cup (recovery[t].held \X {recovery[t].now})
        /\ UNCHANGED <<instant, revoking>>
        /\ token' = [k \in Tokens |-> IF k = recovery[t].own THEN own ELSE Rec!Expired(t, k)]
    BY DEF Rec!ResetCommit
  <1>4. /\ sets' \in [Tokens -> Nat]
        /\ \A k \in Tokens : sets'[k] = sets[k] \/ k = recovery[t].own
    BY <1>1 DEF Rec!ResetCommit, RecoveryInv, Rec!TypeOK
  <1>5. SetsNothingRetired
    <2>1. \A u \in RecoveryRequests : recovery'[u] # recovery[u] => u = t
      BY <1>3 DEF Rec!Finish, RecoveryInv, Rec!TypeOK
    <2>2. sets[mine] = 0
      BY <1>1 DEF RecoveryInv, RowLocks, EndsStay, Rec!Outlives
    <2>3. ASSUME NEW n \in 0 .. recovery[t].now
          PROVE  <<mine, n>> \notin retired
      <3>1. n \in Nat /\ Rec!Outlives(mine, n)
        BY <1>1, <2>3 DEF Rec!Outlives, Rec!Rows
      <3> QED BY <1>1, <3>1 DEF RecoveryInv, RowLocks, EndsStay
    <2> QED BY <2>1, <2>2, <2>3 DEF SetsNothingRetired
  <1> HIDE DEF own, mine
  <1>6. RecoveryInv'
    BY <1>1, <1>2, <1>3, <1>4, CommitKeeps
  <1> QED BY <1>5, <1>6

-----------------------------------------------------------------------------
(* Staff, time and failures.                                               *)

LEMMA RevokeReadKeeps ==
  ASSUME RecoveryInv, NEW k \in Tokens, Rec!RevokeRead(k)
  PROVE  RecoveryInv' /\ SetsNothingRetired
  <1>1. Rec!TypeOK'
    BY DEF RecoveryInv, Rec!RevokeRead, Rec!TypeOK
  <1>2. RowLocks'
    BY DEF RecoveryInv, Rec!RevokeRead, RowLocks, LocksApart, HeldOutlives, ClaimIsHeld, IssuesAlone,
           Issuing, EndsStay, Rec!Outlives
  <1> QED BY <1>1, <1>2 DEF RecoveryInv, Rec!RevokeRead, SetsNothingRetired

LEMMA RevokeKeeps ==
  ASSUME RecoveryInv, NEW k \in Tokens, Rec!Revoke(k)
  PROVE  RecoveryInv' /\ SetsNothingRetired
  <1>1. /\ token' \in [Tokens -> Rec!Rows]
        /\ \A j \in Tokens \ {k} : token'[j] = token[j]
        /\ token'[k].status = "deleted"
        /\ UNCHANGED <<instant, recovery, sets, retired>> /\ revoking' = revoking \ {k}
    BY DEF RecoveryInv, Rec!Revoke, Rec!TypeOK, Rec!Rows
  <1>2. token[k].status # "unissued" /\ \A t \in RecoveryRequests : k \notin recovery[t].held
    BY DEF RecoveryInv, RowLocks, EndsStay, Rec!Revoke
  <1>3. Rec!TypeOK'
    BY <1>1 DEF RecoveryInv, Rec!TypeOK
  <1>4. LocksApart' /\ ClaimIsHeld'
    BY <1>1 DEF RecoveryInv, RowLocks, LocksApart, ClaimIsHeld
  <1>5. HeldOutlives'
    <2>1. \A t \in RecoveryRequests : recovery[t].held \subseteq Tokens
      BY DEF RecoveryInv, Rec!TypeOK, Rec!TxStates
    <2> QED BY <1>1, <1>2, <2>1 DEF RecoveryInv, RowLocks, HeldOutlives, Rec!Outlives
  <1>6. IssuesAlone'
    BY <1>1, <1>2 DEF RecoveryInv, RowLocks, IssuesAlone, Issuing
  <1>7. EndsStay'
    BY <1>1 DEF RecoveryInv, Rec!TypeOK, RowLocks, EndsStay, Rec!Outlives
  <1> QED BY <1>1, <1>3, <1>4, <1>5, <1>6, <1>7 DEF RecoveryInv, RowLocks, SetsNothingRetired

LEMMA TickKeeps ==
  ASSUME RecoveryInv, Rec!Tick
  PROVE  RecoveryInv' /\ SetsNothingRetired
  <1>1. Rec!TypeOK'
    BY DEF RecoveryInv, Rec!Tick, Rec!TypeOK
  <1>2. RowLocks'
    BY DEF RecoveryInv, Rec!Tick, RowLocks, LocksApart, HeldOutlives, ClaimIsHeld, IssuesAlone,
           Issuing, EndsStay, Rec!Outlives
  <1> QED BY <1>1, <1>2 DEF RecoveryInv, Rec!Tick, SetsNothingRetired

LEMMA RecoveryNext ==
  ASSUME RecoveryInv, [Rec!Next]_(Rec!vars)
  PROVE  RecoveryInv' /\ [SetsNothingRetired]_(Rec!vars)
  <1>1. CASE UNCHANGED Rec!vars
    BY <1>1 DEF Rec!vars, RecoveryInv, Rec!TypeOK, RowLocks, LocksApart, HeldOutlives, ClaimIsHeld,
                IssuesAlone, Issuing, EndsStay, Rec!Outlives
  <1>2. ASSUME NEW t \in RecoveryRequests, Rec!Abort(t)
        PROVE  RecoveryInv' /\ SetsNothingRetired
    BY <1>2, EndKeeps DEF Rec!Abort, SetsNothingRetired
  <1> QED BY <1>1, <1>2, IssueBeginKeeps, IssuePickKeeps, IssueExpireKeeps, IssueCommitKeeps,
             ResetReadKeeps, ResetBeginKeeps, ResetClaimKeeps, ResetPickKeeps, ResetExpireKeeps,
             ResetCommitKeeps, RevokeReadKeeps, RevokeKeeps, TickKeeps DEF Rec!Next

-----------------------------------------------------------------------------
(***************************************************************************)
(* Leadership.  Its type is inductive as it stands, and enough: an answer  *)
(* is written under the leader it read and the caller it records.          *)
(***************************************************************************)
\* What HandoffsHappened says of one step.
HandoffHappens ==
    \A n \in DOMAIN log' \ DOMAIN log :
       log'[n].kind = "handed_off"
           => /\ log'[n].from = leader /\ log'[n].to = leader'

LEMMA LeadershipInit ==
  ASSUME Lead!Assumptions, Lead!Init
  PROVE  Lead!TypeOK
  <1>1. log \in Seq(Lead!Events) /\ Len(log) = 0
    BY DEF Lead!Init
  <1> QED BY <1>1 DEF Lead!Init, Lead!Assumptions, Lead!TypeOK, Lead!Offers, Lead!NoOffer,
                      Lead!Idle, Lead!ReqStates, Lead!NoForm, Lead!FormStates

\* One event joins the log, and the others stay where they are.
LEMMA Recorded ==
  ASSUME Lead!TypeOK, NEW kind \in {"handed_off", "assigned", "cleared"},
         NEW from \in Leaders \cup {None}, NEW to \in Leaders \cup {None},
         Lead!Record(kind, from, to)
  PROVE  /\ log' \in Seq(Lead!Events) /\ Len(log') <= MaxEvents
         /\ DOMAIN log' \ DOMAIN log = {Len(log) + 1}
         /\ log'[Len(log) + 1] = [kind |-> kind, from |-> from, to |-> to]
  <1> DEFINE e == [kind |-> kind, from |-> from, to |-> to]
  <1>1. e \in Lead!Events
    BY DEF Lead!Events
  <1>2. log \in Seq(Lead!Events) /\ Len(log) \in Nat /\ Len(log) < MaxEvents /\ log' = Append(log, e)
    BY DEF Lead!TypeOK, Lead!Record
  <1> HIDE DEF e
  <1>3. /\ log' \in Seq(Lead!Events) /\ Len(log') = Len(log) + 1
        /\ log'[Len(log) + 1] = e
    BY <1>1, <1>2
  <1>4. DOMAIN log' = 1 .. Len(log) + 1 /\ DOMAIN log = 1 .. Len(log)
    BY <1>2, <1>3
  <1>5. Len(log') <= MaxEvents
    BY <1>2, <1>3, LeadershipAssumptions DEF Lead!Assumptions
  <1> QED BY <1>2, <1>3, <1>4, <1>5 DEF e

LEMMA LeadershipNext ==
  ASSUME Lead!Assumptions, Lead!TypeOK, [Lead!Next]_(Lead!vars)
  PROVE  Lead!TypeOK' /\ [HandoffHappens]_(Lead!vars)
  <1> USE DEF Lead!TypeOK
  <1>0. /\ \A s \in Answers : answer[s].by \in Leaders \cup {None} /\ answer[s].read \in Leaders \cup {None}
        /\ \A s \in Forms : form[s].to \in Leaders \cup {None} /\ form[s].read \in Leaders \cup {None}
        /\ \A s \in Forms : form[s].leads \in BOOLEAN
        /\ Lead!Idle \in Lead!ReqStates /\ Lead!NoForm \in Lead!FormStates /\ Lead!NoOffer \in Lead!Offers
    BY DEF Lead!ReqStates, Lead!FormStates, Lead!Idle, Lead!NoForm, Lead!NoOffer, Lead!Offers
  <1>1. ASSUME NEW u \in Leaders, NEW v \in Leaders, Lead!OfferLeadership(u, v)
        PROVE  Lead!TypeOK' /\ HandoffHappens
    BY <1>1 DEF Lead!OfferLeadership, Lead!Offers, HandoffHappens
  <1>2. ASSUME NEW u \in Leaders, Lead!EditCurators(u) \/ Lead!SetDisabled(u)
        PROVE  Lead!TypeOK' /\ HandoffHappens
    BY <1>2 DEF Lead!EditCurators, Lead!SetDisabled, HandoffHappens
  <1>3. CASE Lead!OfferLapses
    BY <1>3 DEF Lead!OfferLapses, Lead!Offers, HandoffHappens
  <1>4. ASSUME NEW s \in Answers, NEW u \in Leaders, Lead!WithdrawRead(s, u)
        PROVE  Lead!TypeOK' /\ HandoffHappens
    BY <1>4 DEF Lead!WithdrawRead, Lead!ReqStates, Lead!Offers, HandoffHappens
  <1>5. ASSUME NEW s \in Answers, NEW u \in Leaders, NEW op \in {"accept", "decline"},
               Lead!AnswerRead(s, u, op)
        PROVE  Lead!TypeOK' /\ HandoffHappens
    BY <1>5 DEF Lead!AnswerRead, Lead!ReqStates, HandoffHappens
  <1>6. ASSUME NEW s \in Answers, Lead!Withdraw(s) \/ Lead!Decline(s) \/ Lead!AnswerLost(s)
        PROVE  Lead!TypeOK' /\ HandoffHappens
    BY <1>0, <1>6 DEF Lead!Withdraw, Lead!Decline, Lead!AnswerLost, Lead!Done, HandoffHappens
  <1>7. ASSUME NEW s \in Answers, Lead!Accept(s)
        PROVE  Lead!TypeOK' /\ HandoffHappens
    <2>1. /\ Lead!Record("handed_off", answer[s].read, answer[s].by)
          /\ leader = answer[s].read /\ leader' = answer[s].by
      BY <1>7 DEF Lead!Accept, Lead!AnswerClaims
    <2>2. /\ log' \in Seq(Lead!Events) /\ Len(log') <= MaxEvents
          /\ DOMAIN log' \ DOMAIN log = {Len(log) + 1}
          /\ log'[Len(log) + 1] = [kind |-> "handed_off", from |-> leader, to |-> leader']
      BY <1>0, <2>1, Recorded
    <2>3. Lead!TypeOK'
      BY <1>0, <1>7, <2>2 DEF Lead!Accept, Lead!Done
    <2> QED BY <2>2, <2>3 DEF HandoffHappens
  <1>8. ASSUME NEW s \in Forms, NEW leads \in BOOLEAN, NEW to \in Leaders \cup {None},
               Lead!FormRead(s, leads, to)
        PROVE  Lead!TypeOK' /\ HandoffHappens
    BY <1>8 DEF Lead!FormRead, Lead!FormStates, HandoffHappens
  <1>9. ASSUME NEW s \in Forms, NEW listed \in BOOLEAN, NEW ids \in SUBSET Leaders,
               Lead!FormWrite(s, listed, ids)
        PROVE  Lead!TypeOK' /\ HandoffHappens
    <2>1. curators' \subseteq Leaders
      BY <1>0, <1>9 DEF Lead!FormWrite, Lead!CuratorsAfter
    <2>2. leader' \in Leaders \cup {None} /\ form' \in [Forms -> Lead!FormStates]
      BY <1>0, <1>9 DEF Lead!FormWrite
    <2>3. CASE ~form[s].leads \/ form[s].to = form[s].read
      <3>1. UNCHANGED <<offer, log>>
        BY <1>9, <2>3 DEF Lead!FormWrite
      <3> QED BY <1>9, <2>1, <2>2, <3>1 DEF Lead!FormWrite, HandoffHappens
    <2>4. CASE ~(~form[s].leads \/ form[s].to = form[s].read)
      <3>1. PICK kind \in {"assigned", "cleared"} : Lead!Record(kind, form[s].read, form[s].to)
        BY <1>9, <2>4 DEF Lead!FormWrite
      <3>2. /\ log' \in Seq(Lead!Events) /\ Len(log') <= MaxEvents
            /\ DOMAIN log' \ DOMAIN log = {Len(log) + 1}
            /\ log'[Len(log) + 1] = [kind |-> kind, from |-> form[s].read, to |-> form[s].to]
        <4>1. /\ kind \in {"handed_off", "assigned", "cleared"}
              /\ form[s].read \in Leaders \cup {None} /\ form[s].to \in Leaders \cup {None}
          BY <1>0
        <4> HIDE DEF Lead!TypeOK
        <4> QED BY <3>1, <4>1, Recorded
      <3>3. offer' \in Lead!Offers
        BY <1>0, <1>9, <2>4 DEF Lead!FormWrite
      <3> QED BY <1>9, <2>1, <2>2, <3>2, <3>3 DEF Lead!FormWrite, HandoffHappens
    <2> QED BY <2>3, <2>4
  <1>10. CASE UNCHANGED Lead!vars
    BY <1>10 DEF Lead!vars
  <1>11. {} \in SUBSET Leaders /\ Lists \subseteq SUBSET Leaders /\ Unsteady \subseteq Leaders
    BY DEF Lead!Assumptions
  <1> HIDE DEF Lead!TypeOK
  <1>12. CASE \E s \in Answers :
                \/ \E u \in Leaders :
                      \/ Lead!WithdrawRead(s, u)
                      \/ \E op \in {"accept", "decline"} : Lead!AnswerRead(s, u, op)
                \/ Lead!Withdraw(s) \/ Lead!Accept(s) \/ Lead!Decline(s) \/ Lead!AnswerLost(s)
    BY <1>4, <1>5, <1>6, <1>7, <1>12
  <1>13. CASE \E s \in Forms :
                \/ \E leads \in BOOLEAN, to \in Leaders \cup {None} : Lead!FormRead(s, leads, to)
                \/ Lead!FormWrite(s, FALSE, {}) \/ \E ids \in Lists : Lead!FormWrite(s, TRUE, ids)
    BY <1>8, <1>9, <1>11, <1>13
  <1>14. CASE \E u \in Unsteady : Lead!EditCurators(u) \/ Lead!SetDisabled(u)
    BY <1>2, <1>11, <1>14
  <1> QED BY <1>1, <1>3, <1>10, <1>12, <1>13, <1>14 DEF Lead!Next

-----------------------------------------------------------------------------
(***************************************************************************)
(* Inactivity.  The strengthening: a cycle's decision to disable stands on *)
(* a warning that is out for its grace as long as no stamp has moved since *)
(* the decision, whatever has become of the member otherwise.              *)
(***************************************************************************)
DecisionsStand ==
    \A c \in InactivityCycles, u \in MemberIds :
       inactivityCycle[c].plan[u] = "disable" /\ inactivityCycle[c].moved[u] = {} /\ user[u].used
          => user[u].warned >= Grace /\ user[u].idle >= DisableAfter

InactivityInv == Idle!TypeOK /\ DecisionsStand

\* What NobodyIsDisabledUnwarned says of one step.
DisablesOnlyTheWarned ==
    \A u \in MemberIds :
       user'[u].disabled /\ ~user[u].disabled /\ user[u].used
          => \/ Idle!StaffDisable(u)
             \/ user[u].warned >= Grace /\ user[u].idle >= DisableAfter

LEMMA InactivityInit ==
  ASSUME Idle!Assumptions, Idle!Init
  PROVE  InactivityInv
  BY DEF Idle!Assumptions, Idle!Init, InactivityInv, Idle!TypeOK, Idle!Rows, Idle!CycleStates,
         Idle!NoCycle, Idle!Never, DecisionsStand

\* The fields of a row and of a cycle.
LEMMA InactivityFields ==
  ASSUME Idle!Assumptions, Idle!TypeOK
  PROVE  /\ WarnAfter \in Nat /\ DisableAfter \in Nat /\ Grace \in Nat /\ Cap \in Nat
         /\ \A u \in MemberIds :
               /\ user[u] \in Idle!Rows
               /\ user[u].idle \in 0 .. DisableAfter /\ user[u].warned \in {-1} \cup 0 .. Grace
         /\ \A c \in InactivityCycles :
               /\ inactivityCycle[c] \in Idle!CycleStates
               /\ inactivityCycle[c].disables \in 0 .. Cap
               /\ inactivityCycle[c].plan \in [MemberIds -> {"none", "warn", "disable"}]
               /\ inactivityCycle[c].moved \in [MemberIds -> SUBSET Idle!Stamps]
  BY DEF Idle!Assumptions, Idle!TypeOK, Idle!Rows, Idle!CycleStates, Idle!Never

\* A cycle that has come to its end, and one that passes a member.
LEMMA NoCycleType ==
  ASSUME Idle!Assumptions
  PROVE  /\ Idle!NoCycle \in Idle!CycleStates
         /\ \A u \in MemberIds : Idle!NoCycle.plan[u] = "none"
  BY DEF Idle!Assumptions, Idle!NoCycle, Idle!CycleStates

LEMMA PassedKeeps ==
  ASSUME Idle!Assumptions, Idle!TypeOK, NEW c \in InactivityCycles, NEW u \in MemberIds
  PROVE  /\ Idle!Passed(c, u) \in [InactivityCycles -> Idle!CycleStates]
         /\ \A d \in InactivityCycles, v \in MemberIds :
               /\ Idle!Passed(c, u)[d].disables = inactivityCycle[d].disables
               /\ \/ d = c /\ v = u /\ Idle!Passed(c, u)[d].plan[v] = "none"
                  \/ /\ d # c \/ v # u
                     /\ Idle!Passed(c, u)[d].plan[v] = inactivityCycle[d].plan[v]
                     /\ Idle!Passed(c, u)[d].moved[v] = inactivityCycle[d].moved[v]
  <1> DEFINE y == [inactivityCycle[c] EXCEPT !.plan[u] = "none", !.moved[u] = {}]
  <1>1. Idle!Passed(c, u) = [inactivityCycle EXCEPT ![c] = y]
    BY InactivityFields DEF Idle!Passed, Idle!CycleStates, Idle!TypeOK
  <1>2. /\ y \in Idle!CycleStates /\ y.disables = inactivityCycle[c].disables
        /\ y.plan = [inactivityCycle[c].plan EXCEPT ![u] = "none"]
        /\ y.moved = [inactivityCycle[c].moved EXCEPT ![u] = {}]
    BY InactivityFields DEF Idle!CycleStates
  <1> HIDE DEF y
  <1> QED BY <1>1, <1>2, InactivityFields DEF Idle!TypeOK

\* Stamps are written: whoever had decided on the member knows.
LEMMA MovedKeeps ==
  ASSUME NEW cs \in [InactivityCycles -> Idle!CycleStates], NEW u \in MemberIds,
         NEW stamps \in SUBSET Idle!Stamps, stamps # {}
  PROVE  /\ Idle!Moved(cs, u, stamps) \in [InactivityCycles -> Idle!CycleStates]
         /\ \A d \in InactivityCycles, v \in MemberIds :
               /\ Idle!Moved(cs, u, stamps)[d].plan[v] = cs[d].plan[v]
               /\ v # u => Idle!Moved(cs, u, stamps)[d].moved[v] = cs[d].moved[v]
               /\ v = u /\ cs[d].plan[v] # "none" => Idle!Moved(cs, u, stamps)[d].moved[v] # {}
  <1> SUFFICES ASSUME NEW d \in InactivityCycles
               PROVE  /\ Idle!Moved(cs, u, stamps)[d] \in Idle!CycleStates
                      /\ \A v \in MemberIds :
                           /\ Idle!Moved(cs, u, stamps)[d].plan[v] = cs[d].plan[v]
                           /\ v # u => Idle!Moved(cs, u, stamps)[d].moved[v] = cs[d].moved[v]
                           /\ v = u /\ cs[d].plan[v] # "none"
                                 => Idle!Moved(cs, u, stamps)[d].moved[v] # {}
    BY DEF Idle!Moved
  <1>1. cs[d] \in Idle!CycleStates
    OBVIOUS
  <1>2. CASE cs[d].plan[u] = "none"
    BY <1>1, <1>2 DEF Idle!Moved
  <1>3. CASE cs[d].plan[u] # "none"
    <2> DEFINE y == [cs[d] EXCEPT !.moved[u] = @ \cup stamps]
    <2>1. Idle!Moved(cs, u, stamps)[d] = y
      BY <1>3 DEF Idle!Moved
    <2>2. /\ y \in Idle!CycleStates /\ y.plan = cs[d].plan
          /\ y.moved = [cs[d].moved EXCEPT ![u] = @ \cup stamps]
          /\ cs[d].moved \in [MemberIds -> SUBSET Idle!Stamps]
      BY <1>1 DEF Idle!CycleStates
    <2> HIDE DEF y
    <2>3. y.moved[u] # {} /\ \A v \in MemberIds \ {u} : y.moved[v] = cs[d].moved[v]
      BY <2>2
    <2> QED BY <2>1, <2>2, <2>3
  <1> QED BY <1>2, <1>3

\* A cycle passes a member and writes nothing.
LEMMA PassKeeps ==
  ASSUME Idle!Assumptions, InactivityInv, NEW c \in InactivityCycles, NEW u \in MemberIds,
         inactivityCycle' = Idle!Passed(c, u), UNCHANGED <<user, signingIn, ran>>,
         failures' \in 0 .. MaxFailures
  PROVE  InactivityInv' /\ DisablesOnlyTheWarned
  <1>1. Idle!TypeOK /\ DecisionsStand
    BY DEF InactivityInv
  <1>2. /\ inactivityCycle' \in [InactivityCycles -> Idle!CycleStates]
        /\ \A d \in InactivityCycles, v \in MemberIds :
              \/ inactivityCycle'[d].plan[v] = "none"
              \/ /\ inactivityCycle'[d].plan[v] = inactivityCycle[d].plan[v]
                 /\ inactivityCycle'[d].moved[v] = inactivityCycle[d].moved[v]
    BY <1>1, PassedKeeps
  <1>3. Idle!TypeOK'
    BY <1>1, <1>2 DEF Idle!TypeOK
  <1>4. DecisionsStand'
    BY <1>1, <1>2 DEF DecisionsStand
  <1> QED BY <1>3, <1>4 DEF InactivityInv, DisablesOnlyTheWarned

\* A claim that finds the member as read disables them.
LEMMA DisableKeeps ==
  ASSUME Idle!Assumptions, InactivityInv, NEW c \in InactivityCycles, NEW u \in MemberIds,
         Idle!AsRead(c, u), inactivityCycle[c].plan[u] = "disable",
         user' = [user EXCEPT ![u].disabled = TRUE], UNCHANGED <<signingIn, ran>>,
         failures' \in 0 .. MaxFailures,
         inactivityCycle' \in [InactivityCycles -> Idle!CycleStates],
         \A d \in InactivityCycles, v \in MemberIds :
            \/ inactivityCycle'[d].plan[v] = "none"
            \/ /\ inactivityCycle'[d].plan[v] = inactivityCycle[d].plan[v]
               /\ inactivityCycle'[d].moved[v] = inactivityCycle[d].moved[v]
  PROVE  InactivityInv' /\ DisablesOnlyTheWarned
  <1> DEFINE row1 == [user[u] EXCEPT !.disabled = TRUE]
  <1>0. Idle!TypeOK /\ DecisionsStand /\ user \in [MemberIds -> Idle!Rows]
    BY DEF InactivityInv, Idle!TypeOK
  <1>1. /\ row1 \in Idle!Rows /\ row1.used = user[u].used
        /\ row1.warned = user[u].warned /\ row1.idle = user[u].idle
    BY <1>0, InactivityFields DEF Idle!Rows
  <1>2. user' = [user EXCEPT ![u] = row1]
    BY <1>0
  <1> HIDE DEF row1
  <1>3. Idle!TypeOK'
    BY <1>0, <1>1, <1>2 DEF Idle!TypeOK
  <1>4. DecisionsStand'
    BY <1>0, <1>1, <1>2 DEF DecisionsStand
  <1>5. user[u].used => user[u].warned >= Grace /\ user[u].idle >= DisableAfter
    BY <1>0 DEF Idle!AsRead, DecisionsStand
  <1>6. \A v \in MemberIds \ {u} : user'[v] = user[v]
    BY <1>0, <1>2
  <1> QED BY <1>3, <1>4, <1>5, <1>6 DEF InactivityInv, DisablesOnlyTheWarned

\* A member's stamps are written: no decision on the member stands.
LEMMA StampKeeps ==
  ASSUME Idle!Assumptions, InactivityInv, NEW u \in MemberIds, NEW r \in Idle!Rows,
         NEW stamps \in SUBSET Idle!Stamps, stamps # {},
         user' = [user EXCEPT ![u] = r], inactivityCycle' = Idle!Moved(inactivityCycle, u, stamps),
         signingIn' \subseteq MemberIds, ran' \subseteq InactivityCycles, failures' \in 0 .. MaxFailures
  PROVE  Idle!TypeOK' /\ DecisionsStand'
  <1>1. /\ Idle!TypeOK /\ DecisionsStand /\ user \in [MemberIds -> Idle!Rows]
        /\ inactivityCycle \in [InactivityCycles -> Idle!CycleStates]
    BY DEF InactivityInv, Idle!TypeOK
  <1>2. /\ inactivityCycle' \in [InactivityCycles -> Idle!CycleStates]
        /\ \A d \in InactivityCycles, v \in MemberIds :
           /\ inactivityCycle'[d].plan[v] = inactivityCycle[d].plan[v]
           /\ v # u => inactivityCycle'[d].moved[v] = inactivityCycle[d].moved[v]
           /\ v = u /\ inactivityCycle[d].plan[v] # "none" => inactivityCycle'[d].moved[v] # {}
    BY <1>1, MovedKeeps
  <1>3. Idle!TypeOK'
    BY <1>1, <1>2 DEF Idle!TypeOK
  <1>4. DecisionsStand'
    BY <1>1, <1>2 DEF DecisionsStand
  <1> QED BY <1>3, <1>4

\* A batch is loaded and decided on.
LEMMA LoadKeeps ==
  ASSUME Idle!Assumptions, InactivityInv, NEW c \in InactivityCycles,
         NEW cursor \in {-1} \cup MemberIds, NEW disables \in 0 .. Cap,
         Idle!Load(c, cursor, disables),
         UNCHANGED <<user, signingIn, failures>>, ran' \subseteq InactivityCycles
  PROVE  InactivityInv' /\ DisablesOnlyTheWarned
  <1>0. /\ Idle!TypeOK /\ DecisionsStand
        /\ inactivityCycle \in [InactivityCycles -> Idle!CycleStates]
    BY DEF InactivityInv, Idle!TypeOK
  <1> DEFINE batch == Idle!Batch(cursor)
             plan == [u \in MemberIds |-> IF u \in batch THEN Idle!Evaluate(u, user[u]) ELSE "none"]
  <1>1. PICK next \in Idle!NextCursor(batch) :
           inactivityCycle' = [inactivityCycle EXCEPT ![c] =
                                 [Idle!NoCycle EXCEPT !.plan = plan, !.disables = disables,
                                                      !.cursor = next]]
    BY DEF Idle!Load
  <1> DEFINE y == [Idle!NoCycle EXCEPT !.plan = plan, !.disables = disables, !.cursor = next]
  <1>2. plan \in [MemberIds -> {"none", "warn", "disable"}]
    BY DEF Idle!Evaluate, Idle!Dormancy, Idle!NeverUsed
  <1>3. ASSUME NEW u \in MemberIds, plan[u] = "disable", user[u].used
        PROVE  user[u].warned >= Grace /\ user[u].idle >= DisableAfter
    BY <1>3 DEF Idle!Evaluate, Idle!Dormancy
  <1>4. next \in {Idle!Never} \cup MemberIds
    <2>1. batch \subseteq MemberIds
      BY DEF Idle!Batch
    <2> HIDE DEF batch
    <2> QED BY <2>1 DEF Idle!NextCursor
  <1> HIDE DEF plan
  <1>5. /\ y \in Idle!CycleStates /\ y.plan = plan
        /\ y.moved = [u \in MemberIds |-> {}]
    BY <1>2, <1>4 DEF Idle!NoCycle, Idle!CycleStates
  <1>6. inactivityCycle' = [inactivityCycle EXCEPT ![c] = y]
    BY <1>1
  <1> HIDE DEF y
  <1>7. Idle!TypeOK'
    BY <1>0, <1>5, <1>6 DEF Idle!TypeOK
  <1>8. DecisionsStand'
    BY <1>0, <1>3, <1>5, <1>6 DEF DecisionsStand
  <1> QED BY <1>7, <1>8 DEF InactivityInv, DisablesOnlyTheWarned

LEMMA InactivityNext ==
  ASSUME Idle!Assumptions, InactivityInv, [Idle!Next]_(Idle!vars)
  PROVE  InactivityInv' /\ [DisablesOnlyTheWarned]_(Idle!vars)
  <1>0. /\ Idle!TypeOK /\ DecisionsStand
        /\ user \in [MemberIds -> Idle!Rows] /\ signingIn \subseteq MemberIds
        /\ inactivityCycle \in [InactivityCycles -> Idle!CycleStates]
        /\ ran \subseteq InactivityCycles /\ failures \in 0 .. MaxFailures
        /\ MaxFailures \in Nat
    BY DEF InactivityInv, Idle!TypeOK, Idle!Assumptions
  <1>1. ASSUME NEW c \in InactivityCycles, Idle!StartCycle(c) \/ Idle!LoadBatch(c)
        PROVE  InactivityInv' /\ DisablesOnlyTheWarned
    <2>1. PICK cursor \in {-1} \cup MemberIds, disables \in 0 .. Cap : Idle!Load(c, cursor, disables)
      <3>1. CASE Idle!StartCycle(c)
        <4>1. 0 \in 0 .. Cap
          BY <1>0, InactivityFields
        <4> QED BY <3>1, <4>1 DEF Idle!StartCycle, Idle!Never
      <3>2. CASE Idle!LoadBatch(c)
        <4>1. /\ inactivityCycle[c].cursor \in {-1} \cup MemberIds
              /\ inactivityCycle[c].disables \in 0 .. Cap
          BY <1>0, InactivityFields DEF Idle!CycleStates, Idle!Never
        <4> QED BY <3>2, <4>1 DEF Idle!LoadBatch
      <3> QED BY <1>1, <3>1, <3>2
    <2>2. UNCHANGED <<user, signingIn, failures>> /\ ran' \subseteq InactivityCycles
      BY <1>0, <1>1 DEF Idle!StartCycle, Idle!LoadBatch, Idle!Load
    <2> QED BY <1>0, <2>1, <2>2, LoadKeeps
  <1>2. ASSUME NEW c \in InactivityCycles, NEW u \in MemberIds, Idle!ApplyWarn(c, u)
        PROVE  InactivityInv' /\ DisablesOnlyTheWarned
    <2>1. CASE Idle!AsRead(c, u)
      <3> DEFINE passed == Idle!Passed(c, u)
                 row1 == [user[u] EXCEPT !.warned = 0]
      <3>1. row1 \in Idle!Rows /\ row1.disabled = user[u].disabled
        BY <1>0, InactivityFields DEF Idle!Rows
      <3>2. user' = [user EXCEPT ![u] = row1]
        BY <1>0, <1>2, <2>1 DEF Idle!ApplyWarn
      <3>3. inactivityCycle' = Idle!Moved(passed, u, {"inactivityWarnedAt"})
        BY <1>2, <2>1 DEF Idle!ApplyWarn
      <3>4. /\ passed \in [InactivityCycles -> Idle!CycleStates]
            /\ \A d \in InactivityCycles, v \in MemberIds :
                  /\ \/ passed[d].plan[v] = "none"
                     \/ /\ passed[d].plan[v] = inactivityCycle[d].plan[v]
                        /\ passed[d].moved[v] = inactivityCycle[d].moved[v]
        BY <1>0, PassedKeeps
      <3> HIDE DEF passed, row1
      <3>5. {"inactivityWarnedAt"} \in SUBSET Idle!Stamps /\ {"inactivityWarnedAt"} # {}
        BY DEF Idle!Stamps
      <3>6. /\ inactivityCycle' \in [InactivityCycles -> Idle!CycleStates]
            /\ \A d \in InactivityCycles, v \in MemberIds :
               /\ inactivityCycle'[d].plan[v] = passed[d].plan[v]
               /\ v # u => inactivityCycle'[d].moved[v] = passed[d].moved[v]
               /\ v = u /\ passed[d].plan[v] # "none" => inactivityCycle'[d].moved[v] # {}
        BY <3>3, <3>4, <3>5, MovedKeeps
      <3>7. Idle!TypeOK'
        BY <1>0, <1>2, <3>1, <3>2, <3>6 DEF Idle!ApplyWarn, Idle!TypeOK
      <3>8. DecisionsStand'
        BY <1>0, <3>2, <3>4, <3>6 DEF DecisionsStand
      <3>9. \A v \in MemberIds : user'[v].disabled = user[v].disabled
        BY <1>0, <3>1, <3>2
      <3> QED BY <3>7, <3>8, <3>9 DEF InactivityInv, DisablesOnlyTheWarned
    <2>2. CASE ~Idle!AsRead(c, u)
      <3>1. inactivityCycle' = Idle!Passed(c, u) /\ UNCHANGED <<user, signingIn, ran, failures>>
        BY <1>2, <2>2 DEF Idle!ApplyWarn
      <3>2. failures' \in 0 .. MaxFailures
        BY <1>0, <3>1
      <3> QED BY <3>1, <3>2, PassKeeps
    <2> QED BY <2>1, <2>2
  <1>3. ASSUME NEW c \in InactivityCycles, NEW u \in MemberIds, Idle!ApplyDisable(c, u)
        PROVE  InactivityInv' /\ DisablesOnlyTheWarned
    <2>1. CASE inactivityCycle[c].disables < Cap /\ Idle!AsRead(c, u)
      <3> DEFINE passed == Idle!Passed(c, u)
                 y == [passed[c] EXCEPT !.disables = @ + 1]
      <3>1. /\ user' = [user EXCEPT ![u].disabled = TRUE] /\ UNCHANGED <<signingIn, ran, failures>>
            /\ inactivityCycle[c].plan[u] = "disable"
        BY <1>3, <2>1 DEF Idle!ApplyDisable
      <3>2. /\ passed \in [InactivityCycles -> Idle!CycleStates]
            /\ passed[c].disables = inactivityCycle[c].disables
            /\ \A d \in InactivityCycles, v \in MemberIds :
                  /\ \/ passed[d].plan[v] = "none"
                     \/ /\ passed[d].plan[v] = inactivityCycle[d].plan[v]
                        /\ passed[d].moved[v] = inactivityCycle[d].moved[v]
        BY <1>0, PassedKeeps
      <3>3. inactivityCycle' = [passed EXCEPT ![c] = y]
        BY <1>3, <2>1, <3>2 DEF Idle!ApplyDisable
      <3> HIDE DEF passed
      <3>4. y \in Idle!CycleStates /\ y.plan = passed[c].plan /\ y.moved = passed[c].moved
        <4>1. passed[c].disables + 1 \in 0 .. Cap /\ passed[c] \in Idle!CycleStates
          <5>1. inactivityCycle[c].disables \in 0 .. Cap /\ Cap \in Nat
            BY <1>0, InactivityFields
          <5> QED BY <2>1, <3>2, <5>1
        <4> QED BY <4>1 DEF Idle!CycleStates
      <3> HIDE DEF y
      <3>5. /\ inactivityCycle' \in [InactivityCycles -> Idle!CycleStates]
            /\ \A d \in InactivityCycles, v \in MemberIds :
                  \/ inactivityCycle'[d].plan[v] = "none"
                  \/ /\ inactivityCycle'[d].plan[v] = inactivityCycle[d].plan[v]
                     /\ inactivityCycle'[d].moved[v] = inactivityCycle[d].moved[v]
        BY <3>2, <3>3, <3>4
      <3>6. failures' \in 0 .. MaxFailures
        BY <1>0, <3>1
      <3> QED BY <2>1, <3>1, <3>5, <3>6, DisableKeeps
    <2>2. CASE ~(inactivityCycle[c].disables < Cap /\ Idle!AsRead(c, u))
      <3>1. inactivityCycle' = Idle!Passed(c, u) /\ UNCHANGED <<user, signingIn, ran, failures>>
        BY <1>3, <2>2 DEF Idle!ApplyDisable
      <3>2. failures' \in 0 .. MaxFailures
        BY <1>0, <3>1
      <3> QED BY <3>1, <3>2, PassKeeps
    <2> QED BY <2>1, <2>2
  <1>4. ASSUME NEW c \in InactivityCycles, NEW u \in MemberIds, Idle!DisableUncounted(c, u)
         PROVE  InactivityInv' /\ DisablesOnlyTheWarned
    <2>1. /\ user' = [user EXCEPT ![u].disabled = TRUE] /\ UNCHANGED <<signingIn, ran>>
          /\ Idle!AsRead(c, u) /\ inactivityCycle[c].plan[u] = "disable"
          /\ inactivityCycle' = Idle!Passed(c, u)
          /\ failures' \in 0 .. MaxFailures
      BY <1>0, <1>4 DEF Idle!DisableUncounted
    <2>2. /\ inactivityCycle' \in [InactivityCycles -> Idle!CycleStates]
          /\ \A d \in InactivityCycles, v \in MemberIds :
                \/ inactivityCycle'[d].plan[v] = "none"
                \/ /\ inactivityCycle'[d].plan[v] = inactivityCycle[d].plan[v]
                   /\ inactivityCycle'[d].moved[v] = inactivityCycle[d].moved[v]
      BY <1>0, <2>1, PassedKeeps
    <2> QED BY <2>1, <2>2, DisableKeeps
  <1>5. ASSUME NEW c \in InactivityCycles, NEW u \in MemberIds, Idle!Skip(c, u)
        PROVE  InactivityInv' /\ DisablesOnlyTheWarned
    <2>1. /\ inactivityCycle' = Idle!Passed(c, u) /\ UNCHANGED <<user, signingIn, ran>>
          /\ failures' \in 0 .. MaxFailures
      BY <1>0, <1>5 DEF Idle!Skip
    <2> QED BY <2>1, PassKeeps
  <1>6. ASSUME NEW c \in InactivityCycles, Idle!Crash(c)
        PROVE  InactivityInv' /\ DisablesOnlyTheWarned
    <2>1. /\ inactivityCycle' = [inactivityCycle EXCEPT ![c] = Idle!NoCycle]
          /\ UNCHANGED <<user, signingIn>>
          /\ failures' \in 0 .. MaxFailures /\ ran' \subseteq InactivityCycles
      BY <1>0, <1>6 DEF Idle!Crash
    <2>2. Idle!NoCycle \in Idle!CycleStates /\ \A u \in MemberIds : Idle!NoCycle.plan[u] # "disable"
      BY NoCycleType
    <2>3. Idle!TypeOK'
      BY <1>0, <2>1, <2>2 DEF Idle!TypeOK
    <2>4. DecisionsStand'
      BY <1>0, <2>1, <2>2 DEF DecisionsStand
    <2> QED BY <2>1, <2>3, <2>4 DEF InactivityInv, DisablesOnlyTheWarned
  <1>7. ASSUME NEW u \in MemberIds, Idle!SignInRead(u)
        PROVE  InactivityInv' /\ DisablesOnlyTheWarned
    BY <1>0, <1>7 DEF Idle!SignInRead, InactivityInv, Idle!TypeOK, DecisionsStand, DisablesOnlyTheWarned
  <1>8. ASSUME NEW u \in MemberIds, Idle!SignInWrite(u)
        PROVE  InactivityInv' /\ DisablesOnlyTheWarned
    <2> DEFINE row1 == [user[u] EXCEPT !.used = TRUE, !.idle = 0, !.warned = -1]
    <2>0. 0 \in 0 .. DisableAfter /\ -1 \in {Idle!Never} \cup 0 .. Grace /\ user[u] \in Idle!Rows
      BY <1>0, InactivityFields DEF Idle!Never
    <2>1. row1 \in Idle!Rows /\ row1.disabled = user[u].disabled
      BY <2>0 DEF Idle!Rows
    <2>2. /\ user' = [user EXCEPT ![u] = row1]
          /\ inactivityCycle' = Idle!Moved(inactivityCycle, u, {"lastLogin", "inactivityWarnedAt"})
      BY <1>0, <1>8 DEF Idle!SignInWrite, Idle!Never, Idle!Rows
    <2> HIDE DEF row1
    <2>3. Idle!TypeOK' /\ DecisionsStand'
      <3>1. {"lastLogin", "inactivityWarnedAt"} \in SUBSET Idle!Stamps /\ {"lastLogin", "inactivityWarnedAt"} # {}
        BY DEF Idle!Stamps
      <3>2. ran' \subseteq InactivityCycles /\ failures' \in 0 .. MaxFailures /\ signingIn' \subseteq MemberIds
        BY <1>0, <1>8 DEF Idle!SignInWrite
      <3> QED BY <2>1, <2>2, <3>1, <3>2, StampKeeps
    <2>4. \A v \in MemberIds : user'[v].disabled = user[v].disabled
      BY <1>0, <2>1, <2>2
    <2> QED BY <2>3, <2>4 DEF InactivityInv, DisablesOnlyTheWarned
  <1>9. ASSUME NEW u \in MemberIds, Idle!StaffDisable(u)
        PROVE  InactivityInv' /\ DisablesOnlyTheWarned
    <2> DEFINE row1 == [user[u] EXCEPT !.disabled = TRUE]
    <2>1. /\ row1 \in Idle!Rows /\ row1.used = user[u].used
          /\ row1.warned = user[u].warned /\ row1.idle = user[u].idle
      BY <1>0, InactivityFields DEF Idle!Rows
    <2>2. user' = [user EXCEPT ![u] = row1] /\ UNCHANGED <<signingIn, inactivityCycle, ran, failures>>
      BY <1>0, <1>9 DEF Idle!StaffDisable
    <2> HIDE DEF row1
    <2>3. Idle!TypeOK'
      BY <1>0, <2>1, <2>2 DEF Idle!TypeOK
    <2>4. DecisionsStand'
      BY <1>0, <2>1, <2>2 DEF DecisionsStand
    <2>5. \A v \in MemberIds \ {u} : user'[v] = user[v]
      BY <1>0, <2>2
    <2>6. DisablesOnlyTheWarned
      <3> SUFFICES ASSUME NEW v \in MemberIds, user'[v].disabled /\ ~user[v].disabled
                   PROVE  Idle!StaffDisable(v)
        BY DEF DisablesOnlyTheWarned
      <3>1. v = u
        BY <2>5
      <3> QED BY <1>9, <3>1
    <2> QED BY <2>3, <2>4, <2>6 DEF InactivityInv
  <1>10. ASSUME NEW u \in MemberIds, Idle!StaffEnable(u)
        PROVE  InactivityInv' /\ DisablesOnlyTheWarned
    <2> DEFINE row1 == [user[u] EXCEPT !.disabled = FALSE, !.used = TRUE, !.idle = 0, !.warned = -1]
    <2>0. 0 \in 0 .. DisableAfter /\ -1 \in {Idle!Never} \cup 0 .. Grace /\ user[u] \in Idle!Rows
      BY <1>0, InactivityFields DEF Idle!Never
    <2>1. row1 \in Idle!Rows /\ ~row1.disabled
      BY <2>0 DEF Idle!Rows
    <2>2. /\ user' = [user EXCEPT ![u] = row1]
          /\ inactivityCycle' = Idle!Moved(inactivityCycle, u, {"reactivatedAt", "inactivityWarnedAt"})
      BY <1>0, <1>10 DEF Idle!StaffEnable, Idle!Never, Idle!Rows
    <2> HIDE DEF row1
    <2>3. Idle!TypeOK' /\ DecisionsStand'
      <3>1. {"reactivatedAt", "inactivityWarnedAt"} \in SUBSET Idle!Stamps /\ {"reactivatedAt", "inactivityWarnedAt"} # {}
        BY DEF Idle!Stamps
      <3>2. ran' \subseteq InactivityCycles /\ failures' \in 0 .. MaxFailures /\ signingIn' \subseteq MemberIds
        BY <1>0, <1>10 DEF Idle!StaffEnable
      <3> QED BY <2>1, <2>2, <3>1, <3>2, StampKeeps
    <2>4. ~user'[u].disabled /\ \A v \in MemberIds \ {u} : user'[v] = user[v]
      BY <1>0, <2>1, <2>2
    <2> QED BY <2>3, <2>4 DEF InactivityInv, DisablesOnlyTheWarned
  <1>11. ASSUME NEW u \in MemberIds, Idle!SetExempt(u)
         PROVE  InactivityInv' /\ DisablesOnlyTheWarned
    <2> DEFINE row1 == [user[u] EXCEPT !.exempt = ~@]
    <2>1. /\ row1 \in Idle!Rows /\ row1.used = user[u].used /\ row1.disabled = user[u].disabled
          /\ row1.warned = user[u].warned /\ row1.idle = user[u].idle
      BY <1>0, InactivityFields DEF Idle!Rows
    <2>2. user' = [user EXCEPT ![u] = row1] /\ UNCHANGED <<signingIn, inactivityCycle, ran, failures>>
      BY <1>0, <1>11 DEF Idle!SetExempt
    <2> HIDE DEF row1
    <2>3. Idle!TypeOK'
      BY <1>0, <2>1, <2>2 DEF Idle!TypeOK
    <2>4. DecisionsStand'
      BY <1>0, <2>1, <2>2 DEF DecisionsStand
    <2>5. \A v \in MemberIds : user'[v].disabled = user[v].disabled
      BY <1>0, <2>1, <2>2
    <2> QED BY <2>3, <2>4, <2>5 DEF InactivityInv, DisablesOnlyTheWarned
  <1>12. CASE Idle!Day
    <2>1. ASSUME NEW u \in MemberIds
          PROVE  /\ user'[u] \in Idle!Rows /\ user'[u].disabled = user[u].disabled
                 /\ user'[u].used = user[u].used
                 /\ user[u].warned >= Grace => user'[u].warned >= Grace
                 /\ user[u].idle >= DisableAfter => user'[u].idle >= DisableAfter
      <3> DEFINE w == Idle!Older(user[u].warned, Grace)
                 i == Idle!Older(user[u].idle, DisableAfter)
                 row1 == [user[u] EXCEPT !.idle = i, !.warned = w]
      <3>0. /\ DisableAfter \in Nat /\ Grace \in Nat
            /\ user[u].idle \in 0 .. DisableAfter /\ user[u].warned \in {-1} \cup 0 .. Grace
        BY InactivityFields, <1>0
      <3>1. w \in {-1} \cup 0 .. Grace /\ (user[u].warned >= Grace => w >= Grace)
        BY <3>0 DEF Idle!Older, Idle!Never
      <3>2. i \in 0 .. DisableAfter /\ (user[u].idle >= DisableAfter => i >= DisableAfter)
        BY <3>0 DEF Idle!Older, Idle!Never
      <3>3. user'[u] = row1
        BY <1>0, <1>12 DEF Idle!Day, Idle!Rows
      <3> HIDE DEF w, i
      <3>4. /\ row1 \in Idle!Rows /\ row1.disabled = user[u].disabled /\ row1.used = user[u].used
            /\ row1.idle = i /\ row1.warned = w
        BY <1>0, <3>1, <3>2 DEF Idle!Rows, Idle!Never
      <3> HIDE DEF row1
      <3> QED BY <3>1, <3>2, <3>3, <3>4
    <2>2. /\ UNCHANGED <<signingIn, inactivityCycle, failures>> /\ ran' = {}
          /\ user' = [u \in MemberIds |-> user'[u]]
      BY <1>12 DEF Idle!Day
    <2>3. Idle!TypeOK'
      BY <1>0, <2>1, <2>2 DEF Idle!TypeOK
    <2>4. DecisionsStand'
      BY <1>0, <2>1, <2>2 DEF DecisionsStand
    <2> QED BY <2>1, <2>3, <2>4 DEF InactivityInv, DisablesOnlyTheWarned
  <1>13. CASE UNCHANGED Idle!vars
    BY <1>0, <1>13 DEF Idle!vars, InactivityInv, Idle!TypeOK, DecisionsStand
  <1>14. CASE Idle!CycleNext
    BY <1>1, <1>2, <1>3, <1>4, <1>5, <1>6, <1>14 DEF Idle!CycleNext
  <1>15. CASE Idle!MemberNext
    <2>1. Moderated \subseteq MemberIds
      BY DEF Idle!Assumptions
    <2> QED BY <1>7, <1>8, <1>9, <1>10, <1>11, <1>15, <2>1 DEF Idle!MemberNext
  <1> QED BY <1>12, <1>13, <1>14, <1>15 DEF Idle!Next

-----------------------------------------------------------------------------
(***************************************************************************)
(* The components side by side.                                            *)
(***************************************************************************)
\* A step of the site is a step of each component, or leaves it alone.
LEMMA EachMovesAlone ==
  ASSUME [Next]_vars
  PROVE  /\ [Down!Next]_(Down!vars) /\ [Seat!Next]_(Seat!vars) /\ [Rec!Next]_(Rec!vars)
         /\ [Lead!Next]_(Lead!vars) /\ [Links!Next]_(Links!vars) /\ [Idle!Next]_(Idle!vars)
         /\ [Images!Next]_(Images!vars) /\ [Forums!Next]_(Forums!vars) /\ [Votes!Next]_(Votes!vars)
  <1> USE DEF vars, downloadsVars, seatsVars, recoveryVars, leadershipVars, linksVars,
              inactivityVars, imagesVars, forumVars, votesVars,
              Down!vars, Down!accountVars, Down!grantVars, Seat!vars, Rec!vars, Lead!vars,
              Links!vars, Idle!vars, Images!vars,
              Forums!vars, Votes!vars
  <1>1. CASE DownloadsMove
    BY <1>1 DEF DownloadsMove
  <1>2. CASE SeatsMove
    BY <1>2 DEF SeatsMove
  <1>3. CASE RecoveryMoves
    BY <1>3 DEF RecoveryMoves
  <1>4. CASE LeadershipMoves
    BY <1>4 DEF LeadershipMoves
  <1>5. CASE LinksMove
    BY <1>5 DEF LinksMove
  <1>6. CASE InactivityMoves
    BY <1>6 DEF InactivityMoves
  <1>7. CASE ImagesMove
    BY <1>7 DEF ImagesMove
  <1>8. CASE ForumMoves
    BY <1>8 DEF ForumMoves
  <1>9. CASE VotesMove
    BY <1>9 DEF VotesMove
  <1>10. CASE UNCHANGED vars
    BY <1>10
  <1> QED BY <1>1, <1>2, <1>3, <1>4, <1>5, <1>6, <1>7, <1>8, <1>9, <1>10 DEF Next

MembersInv == SeatsInv /\ RecoveryInv /\ Lead!TypeOK /\ InactivityInv

LEMMA MembersInitially ==
  ASSUME Init
  PROVE  MembersInv
  <1>1. Seat!Assumptions /\ Lead!Assumptions /\ Idle!Assumptions
    BY SeatsAssumptions, LeadershipAssumptions, InactivityAssumptions
  <1>2. Seat!Init /\ Rec!Init /\ Lead!Init /\ Idle!Init
    BY DEF Init
  <1> QED BY <1>1, <1>2, SeatsInit, RecoveryInit, LeadershipInit, InactivityInit DEF MembersInv

LEMMA MembersStep ==
  ASSUME MembersInv, [Next]_vars
  PROVE  /\ MembersInv'
         /\ [SetsNothingRetired]_(Rec!vars) /\ [HandoffHappens]_(Lead!vars)
         /\ [DisablesOnlyTheWarned]_(Idle!vars)
  <1>1. Seat!Assumptions /\ Lead!Assumptions /\ Idle!Assumptions
    BY SeatsAssumptions, LeadershipAssumptions, InactivityAssumptions
  <1>2. /\ [Seat!Next]_(Seat!vars) /\ [Rec!Next]_(Rec!vars)
        /\ [Lead!Next]_(Lead!vars) /\ [Idle!Next]_(Idle!vars)
    BY EachMovesAlone
  <1>3. SeatsInv /\ RecoveryInv /\ Lead!TypeOK /\ InactivityInv
    BY DEF MembersInv
  <1>4. SeatsInv'
    BY <1>1, <1>2, <1>3, SeatsNext
  <1>5. RecoveryInv' /\ [SetsNothingRetired]_(Rec!vars)
    BY <1>2, <1>3, RecoveryNext
  <1>6. Lead!TypeOK' /\ [HandoffHappens]_(Lead!vars)
    BY <1>1, <1>2, <1>3, LeadershipNext
  <1>7. InactivityInv' /\ [DisablesOnlyTheWarned]_(Idle!vars)
    BY <1>1, <1>2, <1>3, InactivityNext
  <1> QED BY <1>4, <1>5, <1>6, <1>7 DEF MembersInv

LEMMA MembersInvariant ==
  Spec => /\ []MembersInv
          /\ [][SetsNothingRetired]_(Rec!vars) /\ [][HandoffHappens]_(Lead!vars)
          /\ [][DisablesOnlyTheWarned]_(Idle!vars)
  <1>1. Init => MembersInv
    BY MembersInitially
  <1>2. MembersInv /\ [Next]_vars
          => /\ MembersInv'
             /\ [SetsNothingRetired]_(Rec!vars) /\ [HandoffHappens]_(Lead!vars)
             /\ [DisablesOnlyTheWarned]_(Idle!vars)
    BY MembersStep
  <1> QED BY <1>1, <1>2, PTL DEF Spec

(***************************************************************************)
(* Registrations never oversell the site (auth.ts:414): however many run   *)
(* and whatever staff set, the seats taken stay within the highest limit   *)
(* there has been and those staff opened.                                  *)
(***************************************************************************)
THEOREM SeatsTheorem == Spec => []SeatsNeverOversold
  <1>1. MembersInv => SeatsNeverOversold
    BY DEF MembersInv, SeatsInv, SeatsNeverOversold
  <1> QED BY <1>1, MembersInvariant, PTL

(***************************************************************************)
(* A token that is used up never sets the password again, and one that a   *)
(* finished reset or a newer request has expired sets none for a reset of  *)
(* that instant or a later one (auth.ts:614, #764): for any number of      *)
(* requests, resets and revocations in flight.                             *)
(***************************************************************************)
THEOREM RetiredTokensTheorem == Spec => RetiredTokensSetNothing
  <1>1. [][SetsNothingRetired]_(Rec!vars) => RetiredTokensSetNothing
    BY PTL DEF RetiredTokensSetNothing, Rec!RetiredTokensSetNothing, SetsNothingRetired
  <1> QED BY MembersInvariant, <1>1, PTL

(***************************************************************************)
(* A handoff in the leadership log is one that happened, between the       *)
(* members it names (communityLeadership.ts:260): whatever staff and the   *)
(* leader do between the successor's read and the write.                   *)
(***************************************************************************)
THEOREM HandoffsTheorem == Spec => HandoffsHappened
  <1> QED BY MembersInvariant, PTL DEF HandoffsHappened, Lead!HandoffsHappened, HandoffHappens

(***************************************************************************)
(* The sweep disables a member who uses the account only on a warning as   *)
(* old as its grace that nothing has answered (inactivityJob.ts:118): for  *)
(* any number of cycles, overlapping, failing and restarted.               *)
(***************************************************************************)
THEOREM UnwarnedTheorem == Spec => NobodyIsDisabledUnwarned
  <1> QED BY MembersInvariant, PTL
          DEF NobodyIsDisabledUnwarned, Idle!NobodyIsDisabledUnwarned, DisablesOnlyTheWarned
=============================================================================
