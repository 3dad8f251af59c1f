--------------------------- MODULE Content_proofs ---------------------------
(***************************************************************************)
(* The components of the site that keep content and its counters -         *)
(* downloads, link health, remote images, forums and request votes - for   *)
(* any constants: what each promises holds in every behaviour of the site. *)
(* With the members' part this types the whole composition.                *)
(***************************************************************************)
EXTENDS Members_proofs, WellFoundedInduction

(***************************************************************************)
(* Downloads.  DownloadGrants_proofs has proved the invariant; its facts   *)
(* apply to this instance, whose steps are the steps it speaks of.         *)
(***************************************************************************)
Granting == INSTANCE DownloadGrants_proofs

LEMMA GrantingAssumptions ==
  /\ Granting!Assumptions
  /\ None \notin Members /\ None \notin Transactions /\ Granting!IsFiniteSet(Members)
  /\ Opening \in [Members -> Nat]
  BY DownloadsAssumptions DEF Down!Assumptions, Granting!Assumptions, Down!IsFiniteSet,
                              Granting!IsFiniteSet, IsFiniteSet

LEMMA DownloadsInit ==
  ASSUME Down!Init
  PROVE  Granting!OnlyDownloads
  <1>1. Granting!Init
    BY DEF Down!Init, Granting!Init, Down!AccountsInit, Granting!AccountsInit, Down!NoGrant,
           Granting!NoGrant, Down!Idle, Granting!Idle
  <1> QED BY <1>1, GrantingAssumptions, Granting!InitHolds DEF Granting!OnlyDownloads

LEMMA DownloadsNext ==
  ASSUME Granting!OnlyDownloads, [Down!Next]_(Down!vars)
  PROVE  Granting!OnlyDownloads'
  <1>1. /\ Granting!Assumptions
        /\ None \notin Members /\ None \notin Transactions /\ Granting!IsFiniteSet(Members)
        /\ Opening \in [Members -> Nat]
    BY GrantingAssumptions
  <1>2. ASSUME NEW t \in Transactions, NEW g \in Grants, NEW u \in Members, NEW c \in Contributions,
              Down!GrantRead(t, u, c, g)
        PROVE  Granting!GrantRead(t, u, c, g)
    BY <1>2 DEF Down!GrantRead, Granting!GrantRead, Down!UnusedId, Granting!UnusedId, Down!Idle,
                Granting!Idle, Down!accountVars, Granting!accountVars, Down!grantVars,
                Granting!grantVars
  <1>3. ASSUME NEW t \in Transactions, NEW g \in Grants, Down!ReverseRead(t, g)
        PROVE  Granting!ReverseRead(t, g)
    BY <1>3 DEF Down!ReverseRead, Granting!ReverseRead, Down!ReversedAs, Granting!ReversedAs,
                Down!Idle, Granting!Idle, Down!accountVars, Granting!accountVars,
                Down!grantVars, Granting!grantVars
  <1>4. ASSUME NEW t \in Transactions, Down!GrantReadConsumer(t)
        PROVE  Granting!GrantReadConsumer(t)
    BY <1>4 DEF Down!GrantReadConsumer, Granting!GrantReadConsumer, Down!Snapshot,
                Granting!Snapshot, Down!Idle, Granting!Idle, Down!Rollback, Granting!Rollback,
                Down!End, Granting!End, Down!ReleaseAll, Granting!ReleaseAll, Down!accountVars,
                Granting!accountVars, Down!grantVars, Granting!grantVars
  <1>5. ASSUME NEW t \in Transactions, Down!GrantFindRecent(t)
        PROVE  Granting!GrantFindRecent(t)
    BY <1>5 DEF Down!GrantFindRecent, Granting!GrantFindRecent, Down!RecentGrant,
                Granting!RecentGrant, Down!SuppressConsumer, Granting!SuppressConsumer,
                Down!Proceed, Granting!Proceed, Down!Idle, Granting!Idle, Down!Rollback,
                Granting!Rollback, Down!End, Granting!End, Down!ReleaseAll, Granting!ReleaseAll,
                Down!accountVars, Granting!accountVars, Down!grantVars, Granting!grantVars
  <1>6. ASSUME NEW t \in Transactions, Down!GrantDebit(t)
        PROVE  Granting!GrantDebit(t)
    BY <1>6 DEF Down!GrantDebit, Granting!GrantDebit, Down!Affords, Granting!Affords,
                Down!SnapshotHolds, Granting!SnapshotHolds, Down!Snapshot, Granting!Snapshot,
                Down!Idle, Granting!Idle, Down!LockMember, Granting!LockMember, Down!MayLock,
                Granting!MayLock, Down!TakeLock, Granting!TakeLock, Down!Proceed,
                Granting!Proceed, Down!Rollback, Granting!Rollback, Down!End, Granting!End,
                Down!ReleaseAll, Granting!ReleaseAll, Down!accountVars, Granting!accountVars,
                Down!grantVars, Granting!grantVars
  <1>7. ASSUME NEW t \in Transactions, Down!GrantCredit(t)
        PROVE  Granting!GrantCredit(t)
    BY <1>7 DEF Down!GrantCredit, Granting!GrantCredit, Down!SuppressContributor,
                Granting!SuppressContributor, Down!LockMember, Granting!LockMember,
                Down!MayLock, Granting!MayLock, Down!TakeLock, Granting!TakeLock, Down!Proceed,
                Granting!Proceed, Down!accountVars, Granting!accountVars, Down!grantVars,
                Granting!grantVars
  <1>8. ASSUME NEW t \in Transactions, Down!GrantLink(t)
        PROVE  Granting!GrantLink(t)
    BY <1>8 DEF Down!GrantLink, Granting!GrantLink, Down!accountVars, Granting!accountVars,
                Down!grantVars, Granting!grantVars
  <1>9. ASSUME NEW t \in Transactions, Down!GrantCommit(t)
        PROVE  Granting!GrantCommit(t)
    BY <1>9 DEF Down!GrantCommit, Granting!GrantCommit, Down!LinkRaced, Granting!LinkRaced,
                Down!Debit, Granting!Debit, Down!Credit, Granting!Credit, Down!SuppressConsumer,
                Granting!SuppressConsumer, Down!SuppressContributor,
                Granting!SuppressContributor, Down!PostGrant, Granting!PostGrant, Down!Post,
                Granting!Post, Down!Idle, Granting!Idle, Down!Rollback, Granting!Rollback,
                Down!End, Granting!End, Down!ReleaseAll, Granting!ReleaseAll
  <1>10. ASSUME NEW t \in Transactions, Down!ReverseClaim(t)
         PROVE  Granting!ReverseClaim(t)
    BY <1>10 DEF Down!ReverseClaim, Granting!ReverseClaim, Down!Reversible, Granting!Reversible,
                 Down!TakeLock, Granting!TakeLock, Down!Proceed, Granting!Proceed, Down!Idle,
                 Granting!Idle, Down!Rollback, Granting!Rollback, Down!End, Granting!End,
                 Down!ReleaseAll, Granting!ReleaseAll, Down!accountVars, Granting!accountVars,
                 Down!grantVars, Granting!grantVars
  <1>11. ASSUME NEW t \in Transactions, Down!ReverseRefund(t)
         PROVE  Granting!ReverseRefund(t)
    BY <1>11 DEF Down!ReverseRefund, Granting!ReverseRefund, Down!SuppressConsumer,
                 Granting!SuppressConsumer, Down!LockMember, Granting!LockMember, Down!MayLock,
                 Granting!MayLock, Down!TakeLock, Granting!TakeLock, Down!Proceed,
                 Granting!Proceed, Down!accountVars, Granting!accountVars, Down!grantVars,
                 Granting!grantVars
  <1>12. ASSUME NEW t \in Transactions, Down!ReverseCommit(t)
         PROVE  Granting!ReverseCommit(t)
    BY <1>12 DEF Down!ReverseCommit, Granting!ReverseCommit, Down!SuppressConsumer,
                 Granting!SuppressConsumer, Down!SuppressContributor,
                 Granting!SuppressContributor, Down!Debit, Granting!Debit, Down!Credit,
                 Granting!Credit, Down!MayLock, Granting!MayLock, Down!FloorSub,
                 Granting!FloorSub, Down!Post, Granting!Post, Down!End, Granting!End,
                 Down!ReleaseAll, Granting!ReleaseAll, Down!Idle, Granting!Idle
  <1>13. ASSUME NEW t \in Transactions, Down!DeadlockVictim(t)
         PROVE  Granting!DeadlockVictim(t)
    BY <1>13 DEF Down!DeadlockVictim, Granting!DeadlockVictim, Down!Circle, Granting!Circle,
                 Down!WaitsFor, Granting!WaitsFor,
                 Down!SuppressConsumer, Granting!SuppressConsumer, Down!SuppressContributor,
                 Granting!SuppressContributor, Down!Idle, Granting!Idle, Down!Rollback,
                 Granting!Rollback, Down!End, Granting!End, Down!ReleaseAll, Granting!ReleaseAll
  <1>14. ASSUME NEW t \in Transactions, Down!Crash(t)
         PROVE  Granting!Crash(t)
    BY <1>14 DEF Down!Crash, Granting!Crash, Down!Idle, Granting!Idle, Down!Rollback,
                 Granting!Rollback, Down!End, Granting!End, Down!ReleaseAll, Granting!ReleaseAll
  <1>15. ASSUME Down!Environment
         PROVE  Granting!Environment
    BY <1>15 DEF Down!Environment, Granting!Environment, Down!SetContributionRatioExempt,
                 Granting!SetContributionRatioExempt, Down!WindowPasses, Granting!WindowPasses,
                 Down!Exemptions, Granting!Exemptions, Down!accountVars, Granting!accountVars
  <1>16. Down!Next => Granting!Next
    BY <1>2, <1>3, <1>4, <1>5, <1>6, <1>7, <1>8, <1>9, <1>10, <1>11, <1>12, <1>13, <1>14, <1>15
       DEF Down!Next, Granting!Next, Down!Begin, Granting!Begin, Down!Advance,
           Granting!Advance
  <1>17. UNCHANGED Down!vars => UNCHANGED Granting!vars
    BY DEF Down!vars, Granting!vars, Down!accountVars, Granting!accountVars, Down!grantVars,
           Granting!grantVars
  <1> QED BY <1>1, <1>16, <1>17, Granting!OnlyDownloadsKept

LEMMA DownloadsProved ==
  ASSUME Granting!OnlyDownloads
  PROVE  Down!TypeOK /\ BalancesMatchGrants /\ LedgerExplainsBalances
  <1>1. Down!TypeOK
    BY DEF Granting!OnlyDownloads, Granting!IInv, Down!TypeOK, Granting!TypeOK,
           Down!AccountsTypeOK, Granting!AccountsTypeOK, Down!Exemptions, Granting!Exemptions,
           Down!GrantRows, Granting!GrantRows, Down!TransactionStates, Granting!TransactionStates
  <1>2. Granting!BalancesMatchGrants
    BY GrantingAssumptions, Granting!GrantsExplainBalances
  <1>3. BalancesMatchGrants
    BY <1>2 DEF BalancesMatchGrants, Down!BalancesMatchGrants,
           Granting!BalancesMatchGrants, Down!Total, Granting!Total, Down!Units, Granting!Units,
           Down!Cardinality, Granting!Cardinality, Down!ConsumedBy, Granting!ConsumedBy,
           Down!ContributedBy, Granting!ContributedBy, Down!Completed, Granting!Completed,
           Down!Debit, Granting!Debit, Down!Credit, Granting!Credit, Down!SuppressConsumer,
           Granting!SuppressConsumer, Down!SuppressContributor, Granting!SuppressContributor
  <1>4. LedgerExplainsBalances
    BY DEF Granting!OnlyDownloads, Granting!IInv, Granting!Books, LedgerExplainsBalances,
           Down!LedgerExplainsBalances, Granting!LedgerExplainsBalances, Down!Balance,
           Granting!Balance
  <1> QED BY <1>1, <1>3, <1>4

-----------------------------------------------------------------------------
(***************************************************************************)
(* Links.  The strengthening: a writer in flight is on a link and has an   *)
(* instant, and the row it computes from has a segment open exactly while  *)
(* it is PASS.                                                             *)
(***************************************************************************)
WritersKnown ==
    \A w \in Writers :
       /\ writer[w].step # "idle" => writer[w].on \in CheckedLinks
       /\ writer[w].step \in {"swap", "reread"} => writer[w].now # 0
       /\ writer[w].step = "swap" => writer[w].left >= 1

LinksInv == Links!TypeOK /\ WritersKnown /\ SegmentOpenWhilePass

LEMMA LinksInit ==
  ASSUME Links!Assumptions, Links!Init
  PROVE  LinksInv
  BY DEF Links!Assumptions, Links!Init, LinksInv, Links!TypeOK, WritersKnown,
         SegmentOpenWhilePass, Links!SegmentOpenWhilePass, Links!Rows, Links!NewRow,
         Links!Statuses, Links!WriterStates, Links!Idle, Links!NoSweep, Links!Null

\* What a writer in flight may hold.
LEMMA WriterFields ==
  ASSUME Links!Assumptions, Links!TypeOK
  PROVE  /\ Attempts \in Nat /\ Attempts >= 1 /\ clock \in Nat /\ clock >= 1
         /\ \A w \in Writers :
               /\ writer[w] \in Links!WriterStates
               /\ writer[w].status \in Links!Statuses /\ writer[w].now \in Nat
               /\ writer[w].row \in Links!Rows /\ writer[w].left \in 0 .. Attempts
         /\ \A l \in CheckedLinks : link[l] \in Links!Rows
         /\ Links!Idle \in Links!WriterStates /\ Links!Idle.step = "idle"
  <1>1. /\ Attempts \in Nat /\ Attempts >= 1 /\ clock \in Nat /\ clock >= 1
        /\ \A l \in CheckedLinks : link[l] \in Links!Rows
    BY DEF Links!Assumptions, Links!TypeOK
  <1>2. \A w \in Writers :
           /\ writer[w] \in Links!WriterStates
           /\ writer[w].status \in Links!Statuses /\ writer[w].now \in Nat
           /\ writer[w].row \in Links!Rows /\ writer[w].left \in 0 .. Attempts
    BY DEF Links!TypeOK, Links!WriterStates
  <1>3. Links!Idle \in Links!WriterStates /\ Links!Idle.step = "idle"
    BY <1>1 DEF Links!WriterStates, Links!Idle, Links!Rows, Links!NewRow, Links!Statuses,
                Links!Null
  <1> QED BY <1>1, <1>2, <1>3

\* One writer moves: what is left to show is where it has come to.
LEMMA WriterKeeps ==
  ASSUME LinksInv, NEW w \in Writers, NEW x \in Links!WriterStates,
         x.step # "idle" => x.on \in CheckedLinks,
         x.step \in {"swap", "reread"} => x.now # 0,
         x.step = "swap" => x.left >= 1,
         writer' = [writer EXCEPT ![w] = x], UNCHANGED <<clock, warnSweep>>,
         link' \in [CheckedLinks -> Links!Rows], SegmentOpenWhilePass'
  PROVE  LinksInv'
  <1>1. Links!TypeOK'
    BY DEF LinksInv, Links!TypeOK
  <1>2. WritersKnown'
    BY DEF LinksInv, Links!TypeOK, WritersKnown
  <1> QED BY <1>1, <1>2 DEF LinksInv

\* What is written has a segment open exactly if it is PASS, whatever row it
\* was computed from.
LEMMA WrittenIs ==
  ASSUME Links!TypeOK, NEW l \in CheckedLinks, NEW r \in Links!Rows,
         NEW status \in Links!Statuses, NEW now \in Nat, now # 0
  PROVE  /\ Links!Written(l, r, status, now) \in Links!Rows
         /\ Links!Written(l, r, status, now).status = status
         /\ status = "PASS" <=> Links!Written(l, r, status, now).since # 0
  <1> DEFINE a == Links!Accrue(r, status, now)
             at == IF Links!Stamps(r, status) THEN now ELSE link[l].changedAt
  <1>1. a \in Links!Rows /\ (status = "PASS" <=> a.since # 0)
    <2>1. CASE status = "PASS" /\ r.since = 0
      <3>1. a = [r EXCEPT !.since = now]
        BY <2>1 DEF Links!Accrue, Links!Null
      <3> QED BY <2>1, <3>1 DEF Links!Rows
    <2>2. CASE status # "PASS" /\ r.since # 0
      <3> DEFINE m == r.ms + (IF now > r.since THEN now - r.since ELSE 0)
      <3>1. m \in Nat
        BY DEF Links!Rows
      <3>2. a = [r EXCEPT !.ms = m, !.since = 0]
        BY <2>2 DEF Links!Accrue, Links!Null, Links!Rows
      <3> HIDE DEF m
      <3> HIDE DEF a
      <3>3. a \in Links!Rows /\ a.since = 0
        BY <3>1, <3>2 DEF Links!Rows
      <3> QED BY <2>2, <3>3
    <2>3. CASE (status = "PASS" /\ r.since # 0) \/ (status # "PASS" /\ r.since = 0)
      <3>1. a = r
        BY <2>3 DEF Links!Accrue, Links!Null
      <3> QED BY <2>3, <3>1
    <2> QED BY <2>1, <2>2, <2>3
  <1>2. at \in Nat
    BY DEF Links!TypeOK, Links!Rows
  <1>3. Links!Written(l, r, status, now) = [a EXCEPT !.status = status, !.changedAt = at]
    BY DEF Links!Written
  <1> HIDE DEF a, at
  <1> QED BY <1>1, <1>2, <1>3 DEF Links!Rows

LEMMA LinksNext ==
  ASSUME Links!Assumptions, LinksInv, [Links!Next]_(Links!vars)
  PROVE  LinksInv'
  <1>0. /\ Links!TypeOK /\ WritersKnown
        /\ link \in [CheckedLinks -> Links!Rows]
        /\ \A l \in CheckedLinks : link[l].status = "PASS" <=> link[l].since # 0
        /\ writer \in [Writers -> Links!WriterStates]
    BY DEF LinksInv, Links!TypeOK, SegmentOpenWhilePass, Links!SegmentOpenWhilePass, Links!Null
  <1>a. ASSUME link' = link
        PROVE  link' \in [CheckedLinks -> Links!Rows] /\ SegmentOpenWhilePass'
    BY <1>0, <1>a DEF SegmentOpenWhilePass, Links!SegmentOpenWhilePass, Links!Null
  <1>b. ASSUME NEW w \in Writers, writer' = Links!Free(w), UNCHANGED <<clock, warnSweep>>,
               link' \in [CheckedLinks -> Links!Rows], SegmentOpenWhilePass'
        PROVE  LinksInv'
    <2>1. writer' = [writer EXCEPT ![w] = Links!Idle]
      BY <1>b DEF Links!Free
    <2>2. Links!Idle \in Links!WriterStates /\ Links!Idle.step = "idle"
      BY <1>0, WriterFields
    <2> QED BY <1>b, <2>1, <2>2, WriterKeeps
  <1>1. ASSUME NEW w \in Writers, NEW l \in CheckedLinks, Links!CheckRead(w, l)
        PROVE  LinksInv'
    <2> DEFINE x == [Links!Idle EXCEPT !.step = "probe", !.on = l, !.row = link[l]]
    <2>1. Links!Idle \in Links!WriterStates /\ link[l] \in Links!Rows
      BY <1>0, WriterFields
    <2>2. x \in Links!WriterStates /\ x.step = "probe" /\ x.on = l
      BY <2>1 DEF Links!WriterStates
    <2>3. writer' = [writer EXCEPT ![w] = x] /\ UNCHANGED <<clock, link, warnSweep>>
      BY <1>1 DEF Links!CheckRead
    <2> HIDE DEF x
    <2> QED BY <1>a, <2>2, <2>3, WriterKeeps
  <1>2. ASSUME NEW w \in Writers, NEW status \in {"PASS", "WARN", "FAIL"}, Links!Probe(w, status)
        PROVE  LinksInv'
    <2> DEFINE x == [writer[w] EXCEPT !.step = "swap", !.status = status, !.now = clock,
                                      !.left = Attempts]
    <2>1. /\ writer[w] \in Links!WriterStates /\ clock \in Nat /\ clock # 0
          /\ Attempts \in 0 .. Attempts /\ Attempts >= 1 /\ status \in Links!Statuses
      BY <1>0, WriterFields DEF Links!Statuses
    <2>2. /\ x \in Links!WriterStates /\ x.step = "swap" /\ x.on = writer[w].on
          /\ x.now = clock /\ x.left = Attempts
      BY <2>1 DEF Links!WriterStates
    <2>3. writer' = [writer EXCEPT ![w] = x] /\ UNCHANGED <<clock, link, warnSweep>>
      BY <1>0, <1>2 DEF Links!Probe, Links!WriterStates
    <2>4. writer[w].on \in CheckedLinks
      BY <1>0, <1>2 DEF Links!Probe, WritersKnown
    <2> HIDE DEF x
    <2> QED BY <1>a, <2>1, <2>2, <2>3, <2>4, WriterKeeps
  <1>3. ASSUME NEW w \in Writers, NEW l \in CheckedLinks, Links!ReportRead(w, l)
        PROVE  LinksInv'
    <2> DEFINE x == [step |-> "swap", report |-> TRUE, on |-> l, status |-> "WARN",
                     now |-> clock, row |-> link[l], left |-> Attempts]
    <2>1. /\ link[l] \in Links!Rows /\ clock \in Nat /\ clock # 0
          /\ Attempts \in 0 .. Attempts /\ Attempts >= 1
      BY <1>0, WriterFields
    <2>2. /\ x \in Links!WriterStates /\ x.step = "swap" /\ x.on = l
          /\ x.now = clock /\ x.left = Attempts
      BY <2>1 DEF Links!WriterStates, Links!Statuses
    <2>3. writer' = [writer EXCEPT ![w] = x] /\ UNCHANGED <<clock, link, warnSweep>>
      BY <1>3 DEF Links!ReportRead
    <2> HIDE DEF x
    <2> QED BY <1>a, <2>1, <2>2, <2>3, WriterKeeps
  <1>4. ASSUME NEW w \in Writers, Links!Swap(w)
        PROVE  LinksInv'
    <2>1. /\ writer[w].on \in CheckedLinks /\ writer[w].now # 0 /\ writer[w].now \in Nat
          /\ writer[w].row \in Links!Rows /\ writer[w].status \in Links!Statuses
      BY <1>0, <1>4, WriterFields DEF Links!Swap, WritersKnown
    <2> DEFINE y == Links!Written(writer[w].on, writer[w].row, writer[w].status, writer[w].now)
    <2>2. y \in Links!Rows /\ (y.status = "PASS" <=> y.since # 0)
      BY <1>0, <2>1, WrittenIs
    <2>3. /\ link' = [link EXCEPT ![writer[w].on] = y] /\ writer' = Links!Free(w)
          /\ UNCHANGED <<clock, warnSweep>>
      BY <1>4 DEF Links!Swap
    <2> HIDE DEF y
    <2>4. link' \in [CheckedLinks -> Links!Rows] /\ SegmentOpenWhilePass'
      BY <1>0, <2>1, <2>2, <2>3 DEF SegmentOpenWhilePass, Links!SegmentOpenWhilePass, Links!Null
    <2> QED BY <1>b, <2>3, <2>4
  <1>5. ASSUME NEW w \in Writers, Links!Miss(w)
        PROVE  LinksInv'
    <2> DEFINE x == [writer[w] EXCEPT !.step = "reread", !.left = @ - 1]
    <2>1. /\ writer[w] \in Links!WriterStates /\ writer[w].on \in CheckedLinks
          /\ writer[w].now # 0 /\ writer[w].left - 1 \in 0 .. Attempts
      BY <1>0, <1>5, WriterFields DEF Links!Miss, WritersKnown
    <2>2. /\ x \in Links!WriterStates /\ x.step = "reread" /\ x.on = writer[w].on
          /\ x.now = writer[w].now
      BY <2>1 DEF Links!WriterStates
    <2>3. writer' = [writer EXCEPT ![w] = x] /\ UNCHANGED <<clock, link, warnSweep>>
      BY <1>0, <1>5 DEF Links!Miss, Links!WriterStates
    <2> HIDE DEF x
    <2> QED BY <1>a, <2>1, <2>2, <2>3, WriterKeeps
  <1>6. ASSUME NEW w \in Writers, Links!Reread(w)
        PROVE  LinksInv'
    <2>1. CASE writer[w].left = 0
      BY <1>a, <1>b, <1>6, <2>1 DEF Links!Reread
    <2>2. CASE writer[w].left # 0
      <3> DEFINE x == [writer[w] EXCEPT !.step = "swap", !.row = link[writer[w].on]]
      <3>1. /\ writer[w] \in Links!WriterStates /\ writer[w].on \in CheckedLinks
            /\ writer[w].now # 0 /\ writer[w].left >= 1
        BY <1>0, <1>6, <2>2, WriterFields DEF Links!Reread, WritersKnown
      <3>2. link[writer[w].on] \in Links!Rows
        BY <1>0, <3>1
      <3>3. /\ x \in Links!WriterStates /\ x.step = "swap" /\ x.on = writer[w].on
            /\ x.now = writer[w].now /\ x.left = writer[w].left
        BY <3>1, <3>2 DEF Links!WriterStates
      <3>4. writer' = [writer EXCEPT ![w] = x] /\ UNCHANGED <<clock, link, warnSweep>>
        BY <1>0, <1>6, <2>2 DEF Links!Reread, Links!WriterStates
      <3> HIDE DEF x
      <3> QED BY <1>a, <3>1, <3>3, <3>4, WriterKeeps
    <2> QED BY <2>1, <2>2
  <1>7. ASSUME NEW w \in Writers, Links!GiveUp(w)
        PROVE  LinksInv'
    BY <1>a, <1>b, <1>7 DEF Links!GiveUp
  <1>8. CASE Links!SweepRead
    <2>1. UNCHANGED <<clock, link, writer>>
      BY <1>8 DEF Links!SweepRead
    <2>2. warnSweep' \in [now : 0 .. MaxTime, on : SUBSET CheckedLinks]
      BY <1>0, <1>8 DEF Links!SweepRead, Links!TypeOK, Links!Assumptions
    <2> QED BY <1>0, <1>a, <2>1, <2>2 DEF LinksInv, Links!TypeOK, WritersKnown
  <1>9. CASE Links!SweepWrite
    <2>1. ASSUME NEW l \in CheckedLinks
          PROVE  link'[l] \in Links!Rows /\ (link'[l].status = "PASS" <=> link'[l].since # 0)
      <3>1. CASE Links!Swept(l)
        <4>1. link'[l] = [link[l] EXCEPT !.status = "FAIL", !.changedAt = warnSweep.now]
          BY <1>9, <3>1 DEF Links!SweepWrite
        <4>2. link[l].status = "WARN" /\ link[l].since = 0 /\ link[l] \in Links!Rows
          BY <1>0, <3>1 DEF Links!Swept, Links!Stale
        <4>3. warnSweep.now \in Nat
          BY <1>0 DEF Links!TypeOK
        <4> QED BY <4>1, <4>2, <4>3 DEF Links!Rows, Links!Statuses
      <3>2. CASE ~Links!Swept(l)
        BY <1>0, <1>9, <3>2 DEF Links!SweepWrite
      <3> QED BY <3>1, <3>2
    <2>2. link' = [l \in CheckedLinks |-> link'[l]]
      BY <1>9 DEF Links!SweepWrite
    <2>3. link' \in [CheckedLinks -> Links!Rows] /\ SegmentOpenWhilePass'
      BY <2>1, <2>2 DEF SegmentOpenWhilePass, Links!SegmentOpenWhilePass, Links!Null
    <2>4. /\ UNCHANGED <<clock, writer>>
          /\ warnSweep' \in [now : 0 .. MaxTime, on : SUBSET CheckedLinks]
      <3>1. 0 \in 0 .. MaxTime
        BY DEF Links!Assumptions
      <3>2. UNCHANGED <<clock, writer>> /\ warnSweep' = [now |-> 0, on |-> {}]
        BY <1>9 DEF Links!SweepWrite, Links!NoSweep, Links!Null
      <3> QED BY <3>1, <3>2
    <2> QED BY <1>0, <2>3, <2>4 DEF LinksInv, Links!TypeOK, WritersKnown
  <1>10. CASE Links!Tick
    <2>1. UNCHANGED <<link, writer, warnSweep>> /\ clock' \in 1 .. MaxTime
      BY <1>0, <1>10 DEF Links!Tick, Links!TypeOK, Links!Assumptions
    <2> QED BY <1>0, <1>a, <2>1 DEF LinksInv, Links!TypeOK, WritersKnown
  <1>11. CASE UNCHANGED Links!vars
    BY <1>0, <1>a, <1>11 DEF Links!vars, LinksInv, Links!TypeOK, WritersKnown
  <1> QED BY <1>1, <1>2, <1>3, <1>4, <1>5, <1>6, <1>7, <1>8, <1>9, <1>10, <1>11 DEF Links!Next

-----------------------------------------------------------------------------
(***************************************************************************)
(* Remote images. The strengthening: what a cycle holds is pending under a *)
(* lease, and every other cycle that had read it as due has read it before *)
(* the lease: its own conditional update will find nextAttemptAt moved.    *)
(***************************************************************************)
Shapes ==
    /\ row \in [Urls -> [status : {"none", "pending", "imported", "failed"}, attempts : Nat,
                         wait : {"none", "backoff", "lease"}, old : BOOLEAN]]
    /\ imageCycle \in [ImportCycles -> [Urls -> Images!Phases]]

Engaged == {"read", "leased", "stored"}

HeldAlone ==
    \A c \in ImportCycles, u \in Urls :
        Images!Holds(c, u) =>
            /\ row[u].status = "pending" /\ row[u].wait = "lease"
            /\ \A d \in ImportCycles \ {c} : imageCycle[d][u] \notin Engaged

ImagesHeld == Shapes /\ HeldAlone

-----------------------------------------------------------------------------
LEMMA ImagesHeldInit ==
  ASSUME Images!Init
  PROVE  ImagesHeld
  BY DEF Images!Init, ImagesHeld, Shapes, HeldAlone, Images!Holds, Images!NoRow, Images!NoCycle,
         Images!Phases

\* Cycles that let go of rows, or find them moved, take nothing from others.
LEMMA ReleaseKeeps ==
  ASSUME ImagesHeld, row' = row, imageCycle' \in [ImportCycles -> [Urls -> Images!Phases]],
         \A c \in ImportCycles, u \in Urls :
            \/ imageCycle'[c][u] = imageCycle[c][u]
            \/ imageCycle'[c][u] = "stored" /\ Images!Holds(c, u)
            \/ imageCycle'[c][u] \notin Engaged
            \/ imageCycle'[c][u] = "read" /\ row[u].wait = "none"
  PROVE  ImagesHeld'
  <1>1. Shapes'
    BY DEF ImagesHeld, Shapes
  <1>2. ASSUME NEW c \in ImportCycles, NEW u \in Urls, Images!Holds(c, u)'
        PROVE  /\ row[u].status = "pending" /\ row[u].wait = "lease"
               /\ \A d \in ImportCycles \ {c} : imageCycle'[d][u] \notin Engaged
    <2>1. Images!Holds(c, u)
      BY <1>2 DEF Images!Holds, Engaged
    <2>2. /\ row[u].status = "pending" /\ row[u].wait = "lease"
          /\ \A d \in ImportCycles \ {c} : imageCycle[d][u] \notin Engaged
      BY <2>1 DEF ImagesHeld, HeldAlone
    <2> QED BY <2>2 DEF Images!Holds, Engaged
  <1> QED BY <1>1, <1>2 DEF ImagesHeld, HeldAlone

\* Rows that nobody holds may change freely.
LEMMA RowsKeep ==
  ASSUME ImagesHeld, Shapes', imageCycle' \in [ImportCycles -> [Urls -> Images!Phases]],
         \A u \in Urls : \/ row'[u].status = row[u].status /\ row'[u].wait = row[u].wait
                         \/ \A c \in ImportCycles : imageCycle'[c][u] \notin {"leased", "stored"},
         \A c \in ImportCycles, u \in Urls :
            imageCycle'[c][u] = imageCycle[c][u] \/ imageCycle'[c][u] \notin Engaged
  PROVE  ImagesHeld'
  <1>1. ASSUME NEW c \in ImportCycles, NEW u \in Urls, Images!Holds(c, u)'
        PROVE  /\ row'[u].status = "pending" /\ row'[u].wait = "lease"
               /\ \A d \in ImportCycles \ {c} : imageCycle'[d][u] \notin Engaged
    <2>1. Images!Holds(c, u)
      BY <1>1 DEF Images!Holds, Engaged
    <2>2. /\ row[u].status = "pending" /\ row[u].wait = "lease"
          /\ \A d \in ImportCycles \ {c} : imageCycle[d][u] \notin Engaged
      BY <2>1 DEF ImagesHeld, HeldAlone
    <2> QED BY <1>1, <2>2 DEF Images!Holds, Engaged
  <1> QED BY <1>1 DEF ImagesHeld, HeldAlone

\* What a deletion leaves a cycle with.
LEMMA DeletedKeeps ==
  ASSUME ImagesHeld, NEW gone \in SUBSET Urls, imageCycle' = Images!Deleted(gone),
         row' = [u \in Urls |-> IF u \in gone THEN Images!NoRow ELSE row[u]]
  PROVE  ImagesHeld'
  <1>1. Shapes'
    BY DEF ImagesHeld, Shapes, Images!Deleted, Images!NoRow, Images!Phases
  <1>2. \A c \in ImportCycles, u \in Urls :
           /\ u \notin gone => imageCycle'[c][u] = imageCycle[c][u]
           /\ u \in gone => imageCycle'[c][u] \notin Engaged
    BY DEF ImagesHeld, Shapes, Images!Deleted, Engaged, Images!Holds, Images!Phases
  <1>3. \A u \in Urls : u \notin gone => row'[u] = row[u]
    OBVIOUS
  <1> QED BY <1>1, <1>2, <1>3, RowsKeep DEF Shapes, Engaged

-----------------------------------------------------------------------------
(* Members and time.                                                       *)

LEMMA RegisterKeeps ==
  ASSUME ImagesHeld, NEW u \in Urls, Images!Register(u)
  PROVE  ImagesHeld'
  <1>1. Shapes'
    BY DEF ImagesHeld, Shapes, Images!Register, Images!NewRow, Images!NoRow
  <1>2. \A c \in ImportCycles : Images!Holds(c, u) => Images!Known(u)
    BY DEF ImagesHeld, HeldAlone, Images!Known
  <1>3. \A v \in Urls : row'[v] = row[v] \/ (v = u /\ ~Images!Known(u))
    BY DEF ImagesHeld, Shapes, Images!Register
  <1>4. imageCycle' = imageCycle
    BY DEF Images!Register
  <1> QED BY <1>1, <1>2, <1>3, <1>4, RowsKeep DEF ImagesHeld, Shapes, Images!Holds

LEMMA ComesDueKeeps ==
  ASSUME ImagesHeld, NEW u \in Urls, Images!ComesDue(u)
  PROVE  ImagesHeld'
  <1>1. Shapes'
    BY DEF ImagesHeld, Shapes, Images!ComesDue
  <1>2. \A c \in ImportCycles : ~Images!Holds(c, u)
    BY DEF ImagesHeld, HeldAlone, Images!ComesDue
  <1>3. \A v \in Urls : row'[v] = row[v] \/ v = u
    BY DEF ImagesHeld, Shapes, Images!ComesDue
  <1>4. imageCycle' = imageCycle
    BY DEF Images!ComesDue
  <1> QED BY <1>1, <1>2, <1>3, <1>4, RowsKeep DEF ImagesHeld, Shapes, Images!Holds

LEMMA RowAgesKeeps ==
  ASSUME ImagesHeld, NEW u \in Urls, Images!RowAges(u)
  PROVE  ImagesHeld'
  <1>1. Shapes'
    BY DEF ImagesHeld, Shapes, Images!RowAges
  <1>2. \A v \in Urls : row'[v].status = row[v].status /\ row'[v].wait = row[v].wait
    BY DEF ImagesHeld, Shapes, Images!RowAges
  <1>3. imageCycle' = imageCycle
    BY DEF Images!RowAges
  <1> QED BY <1>1, <1>2, <1>3, RowsKeep DEF ImagesHeld, Shapes

-----------------------------------------------------------------------------
(* The cycles.                                                             *)

LEMMA DueReadKeeps ==
  ASSUME ImagesHeld, NEW c \in ImportCycles, Images!DueRead(c)
  PROVE  ImagesHeld'
  <1>1. /\ row' = row
        /\ imageCycle' = [imageCycle EXCEPT ![c] = [u \in Urls |->
              IF row[u].status = "pending" /\ row[u].wait = "none" THEN "read" ELSE "none"]]
    BY DEF Images!DueRead
  <1>2. imageCycle' \in [ImportCycles -> [Urls -> Images!Phases]]
    BY <1>1 DEF ImagesHeld, Shapes, Images!Phases
  <1>3. \A d \in ImportCycles, u \in Urls :
           \/ imageCycle'[d][u] = imageCycle[d][u]
           \/ imageCycle'[d][u] \notin Engaged
           \/ imageCycle'[d][u] = "read" /\ row[u].wait = "none"
    BY <1>1 DEF ImagesHeld, Shapes, Engaged
  <1> QED BY <1>1, <1>2, <1>3, ReleaseKeeps

\* Where other cycles stand once c has rescheduled u.
LEMMA RescheduledIs ==
  ASSUME NEW cs \in [ImportCycles -> [Urls -> Images!Phases]], NEW c \in ImportCycles,
         NEW u \in Urls
  PROVE  /\ Images!Rescheduled(cs, c, u) \in [ImportCycles -> [Urls -> Images!Phases]]
         /\ \A d \in ImportCycles, v \in Urls :
               Images!Rescheduled(cs, c, u)[d][v] =
                  IF d # c /\ v = u /\ cs[d][u] = "read" THEN "moved" ELSE cs[d][v]
  BY DEF Images!Rescheduled, Images!Phases

LEMMA LeaseKeeps ==
  ASSUME ImagesHeld, NEW c \in ImportCycles, NEW u \in Urls, Images!Lease(c, u)
  PROVE  ImagesHeld'
  <1>1. CASE ~Images!Leases(c, u)
    <2>1. row' = row /\ imageCycle' = [imageCycle EXCEPT ![c][u] = "none"]
      BY <1>1 DEF Images!Lease
    <2> QED BY <2>1, ReleaseKeeps DEF ImagesHeld, Shapes, Images!Phases, Engaged
  <1>2. CASE Images!Leases(c, u)
    <2> DEFINE cs == [imageCycle EXCEPT ![c][u] = "leased"]
    <2>1. /\ row' = [row EXCEPT ![u].wait = "lease"] /\ imageCycle' = Images!Rescheduled(cs, c, u)
          /\ row[u].status = "pending" /\ imageCycle[c][u] = "read"
      BY <1>2 DEF Images!Lease, Images!Leases
    <2>2. cs \in [ImportCycles -> [Urls -> Images!Phases]]
      BY DEF ImagesHeld, Shapes, Images!Phases
    <2>3. \A d \in ImportCycles, v \in Urls :
             cs[d][v] = IF d = c /\ v = u THEN "leased" ELSE imageCycle[d][v]
      BY DEF ImagesHeld, Shapes
    <2> HIDE DEF cs
    <2>4. /\ imageCycle' \in [ImportCycles -> [Urls -> Images!Phases]]
          /\ \A d \in ImportCycles, v \in Urls :
                imageCycle'[d][v] = IF d = c /\ v = u THEN "leased"
                               ELSE IF v = u /\ imageCycle[d][u] = "read" THEN "moved"
                               ELSE imageCycle[d][v]
      BY <2>1, <2>2, <2>3, RescheduledIs
    <2>5. Shapes'
      BY <2>1, <2>4 DEF ImagesHeld, Shapes
    <2>6. \A d \in ImportCycles : ~Images!Holds(d, u)
      BY <2>1 DEF ImagesHeld, HeldAlone, Images!Holds, Engaged
    <2>7. row'[u].status = "pending" /\ row'[u].wait = "lease"
      BY <2>1 DEF ImagesHeld, Shapes
    <2>8. \A v \in Urls \ {u} : row'[v] = row[v]
      BY <2>1 DEF ImagesHeld, Shapes
    <2>9. ASSUME NEW d \in ImportCycles, NEW v \in Urls, Images!Holds(d, v)'
          PROVE  /\ row'[v].status = "pending" /\ row'[v].wait = "lease"
                 /\ \A e \in ImportCycles \ {d} : imageCycle'[e][v] \notin Engaged
      <3>1. CASE v = u
        <4>1. d = c
          BY <2>4, <2>6, <2>9, <3>1 DEF Images!Holds
        <4>2. \A e \in ImportCycles \ {c} : imageCycle'[e][u] \notin Engaged
          BY <2>4, <2>6 DEF Images!Holds, Engaged
        <4> QED BY <2>7, <3>1, <4>1, <4>2
      <3>2. CASE v # u
        BY <2>4, <2>8, <2>9, <3>2 DEF ImagesHeld, HeldAlone, Images!Holds
      <3> QED BY <3>1, <3>2
    <2> QED BY <2>5, <2>9 DEF ImagesHeld, HeldAlone
  <1> QED BY <1>1, <1>2

\* A cycle that is done with a row it alone holds may write it.
LEMMA FetchFailsKeeps ==
  ASSUME ImagesHeld, NEW c \in ImportCycles, NEW u \in Urls, NEW retryable \in BOOLEAN,
         Images!FetchFails(c, u, retryable)
  PROVE  ImagesHeld'
  <1>1. Images!Settled(c, u) \in [ImportCycles -> [Urls -> Images!Phases]]
    BY DEF ImagesHeld, Shapes, Images!Settled, Images!Phases
  <1>2. \A d \in ImportCycles, v \in Urls :
           Images!Settled(c, u)[d][v] = IF d = c /\ v = u THEN "none" ELSE imageCycle[d][v]
    BY DEF ImagesHeld, Shapes, Images!Settled
  <1>3. CASE imageCycle[c][u] = "gone"
    <2>1. row' = row /\ imageCycle' = Images!Settled(c, u)
      BY <1>3 DEF Images!FetchFails
    <2> QED BY <1>1, <1>2, <2>1, ReleaseKeeps DEF Engaged
  <1>4. CASE imageCycle[c][u] # "gone"
    <2>1. Images!Holds(c, u)
      BY <1>4 DEF Images!FetchFails, Images!Importing
    <2>2. /\ imageCycle' \in [ImportCycles -> [Urls -> Images!Phases]]
          /\ \A d \in ImportCycles, v \in Urls :
                imageCycle'[d][v] =
                   IF d # c /\ v = u /\ Images!Settled(c, u)[d][u] = "read" THEN "moved"
                   ELSE Images!Settled(c, u)[d][v]
      BY <1>1, <1>4, RescheduledIs DEF Images!FetchFails
    <2> DEFINE n == Images!Counted(row[u])
               again == retryable /\ n <= Retries
               written == [row[u] EXCEPT !.attempts = n,
                                         !.status = IF again THEN @ ELSE "failed",
                                         !.wait = IF again THEN "backoff" ELSE @]
    <2>a. row' = [row EXCEPT ![u] = written]
      BY <1>4 DEF Images!FetchFails, ImagesHeld, Shapes
    <2>b. n \in Nat
      BY DEF Images!Counted, ImagesHeld, Shapes
    <2>c. written \in [status : {"none", "pending", "imported", "failed"}, attempts : Nat,
                       wait : {"none", "backoff", "lease"}, old : BOOLEAN]
      <3> HIDE DEF n, again
      <3>1. CASE again
        BY <2>b, <3>1 DEF ImagesHeld, Shapes
      <3>2. CASE ~again
        BY <2>b, <3>2 DEF ImagesHeld, Shapes
      <3> QED BY <3>1, <3>2
    <2> HIDE DEF written
    <2>3. /\ row' \in [Urls -> [status : {"none", "pending", "imported", "failed"},
                                attempts : Nat, wait : {"none", "backoff", "lease"},
                                old : BOOLEAN]]
          /\ \A v \in Urls \ {u} : row'[v] = row[v]
      BY <2>a, <2>c DEF ImagesHeld, Shapes
    <2>4. \A d \in ImportCycles : imageCycle'[d][u] \notin {"leased", "stored"}
      BY <1>2, <2>1, <2>2 DEF ImagesHeld, HeldAlone, Engaged
    <2>5. \A d \in ImportCycles, v \in Urls :
             imageCycle'[d][v] = imageCycle[d][v] \/ imageCycle'[d][v] \notin Engaged
      BY <1>2, <2>2 DEF Engaged
    <2>6. \A v \in Urls : \/ row'[v].status = row[v].status /\ row'[v].wait = row[v].wait
                          \/ \A d \in ImportCycles : imageCycle'[d][v] \notin {"leased", "stored"}
      BY <2>3, <2>4
    <2>7. Shapes'
      BY <2>2, <2>3 DEF Shapes
    <2> QED BY <2>2, <2>5, <2>6, <2>7, RowsKeep
  <1> QED BY <1>3, <1>4

LEMMA PutAssetKeeps ==
  ASSUME ImagesHeld, NEW c \in ImportCycles, NEW u \in Urls, Images!PutAsset(c, u)
  PROVE  ImagesHeld'
  <1>1. row' = row
    BY DEF Images!PutAsset
  <1>2. CASE imageCycle[c][u] = "gone"
    <2>1. imageCycle' = [imageCycle EXCEPT ![c][u] = "none"]
      BY <1>2 DEF Images!PutAsset, Images!Settled
    <2> QED BY <1>1, <2>1, ReleaseKeeps DEF ImagesHeld, Shapes, Images!Phases, Engaged
  <1>3. CASE imageCycle[c][u] # "gone"
    <2>1. imageCycle' = [imageCycle EXCEPT ![c][u] = "stored"] /\ Images!Holds(c, u)
      BY <1>3 DEF Images!PutAsset, Images!Importing
    <2> QED BY <1>1, <2>1, ReleaseKeeps DEF ImagesHeld, Shapes, Images!Phases
  <1> QED BY <1>2, <1>3

LEMMA RecordImportedKeeps ==
  ASSUME ImagesHeld, NEW c \in ImportCycles, NEW u \in Urls, Images!RecordImported(c, u)
  PROVE  ImagesHeld'
  <1>1. Images!Holds(c, u) /\ imageCycle' = [imageCycle EXCEPT ![c][u] = "none"]
    BY DEF Images!RecordImported, Images!Settled, Images!Holds
  <1>2. Shapes'
    BY <1>1 DEF ImagesHeld, Shapes, Images!RecordImported, Images!Counted, Images!Phases
  <1>3. \A v \in Urls \ {u} : row'[v] = row[v]
    BY DEF ImagesHeld, Shapes, Images!RecordImported
  <1>4. \A d \in ImportCycles, v \in Urls :
           imageCycle'[d][v] = IF d = c /\ v = u THEN "none" ELSE imageCycle[d][v]
    BY <1>1 DEF ImagesHeld, Shapes
  <1>5. \A d \in ImportCycles : imageCycle'[d][u] \notin {"leased", "stored"}
    BY <1>1, <1>4 DEF ImagesHeld, HeldAlone, Engaged
  <1>6. \A v \in Urls : \/ row'[v].status = row[v].status /\ row'[v].wait = row[v].wait
                        \/ \A d \in ImportCycles : imageCycle'[d][v] \notin {"leased", "stored"}
    BY <1>3, <1>5
  <1>7. \A d \in ImportCycles, v \in Urls :
           imageCycle'[d][v] = imageCycle[d][v] \/ imageCycle'[d][v] \notin Engaged
    BY <1>4 DEF Engaged
  <1> QED BY <1>2, <1>6, <1>7, RowsKeep DEF Shapes

LEMMA FailuresKeep ==
  ASSUME ImagesHeld, NEW c \in ImportCycles,
         Images!Crash(c) \/ \E u \in Urls : Images!ImportErrs(c, u)
  PROVE  ImagesHeld'
  <1>1. CASE Images!Crash(c)
    <2>1. row' = row /\ imageCycle' = [imageCycle EXCEPT ![c] = [u \in Urls |-> "none"]]
      BY <1>1 DEF Images!Crash, Images!NoCycle
    <2> QED BY <2>1, ReleaseKeeps DEF ImagesHeld, Shapes, Images!Phases, Engaged
  <1>2. ASSUME NEW u \in Urls, Images!ImportErrs(c, u)
        PROVE  ImagesHeld'
    <2>1. row' = row /\ imageCycle' = [imageCycle EXCEPT ![c][u] = "none"]
      BY <1>2 DEF Images!ImportErrs, Images!Settled
    <2> QED BY <2>1, ReleaseKeeps DEF ImagesHeld, Shapes, Images!Phases, Engaged
  <1> QED BY <1>1, <1>2

-----------------------------------------------------------------------------
LEMMA SweepKeeps ==
  ASSUME ImagesHeld, Images!SweepNext
  PROVE  ImagesHeld'
  <1>1. CASE Images!SweepAssets
    <2> DEFINE gone == {u \in Images!Imported : Bytes[u] \in assetSweep.doomed}
    <2>1. gone \in SUBSET Urls
      BY DEF Images!Imported
    <2>2. /\ imageCycle' = Images!Deleted(gone)
          /\ row' = [u \in Urls |-> IF u \in gone THEN Images!NoRow ELSE row[u]]
      BY <1>1 DEF Images!SweepAssets
    <2> HIDE DEF gone
    <2> QED BY <2>1, <2>2, DeletedKeeps
  <1>2. CASE Images!PruneRows
    <2> DEFINE gone == {u \in Urls \ assetSweep.urls : row[u].status \in {"pending", "failed"}
                                                  /\ row[u].old}
    <2>1. gone \in SUBSET Urls
      OBVIOUS
    <2>2. /\ imageCycle' = Images!Deleted(gone)
          /\ row' = [u \in Urls |-> IF u \in gone THEN Images!NoRow ELSE row[u]]
      BY <1>2 DEF Images!PruneRows
    <2> HIDE DEF gone
    <2> QED BY <2>1, <2>2, DeletedKeeps
  <1>3. CASE Images!SweepColumns \/ Images!SweepCandidates \/ Images!PruneColumns
    BY <1>3 DEF Images!SweepColumns, Images!SweepCandidates, Images!PruneColumns, ImagesHeld,
                Shapes, HeldAlone, Images!Holds
  <1> QED BY <1>1, <1>2, <1>3 DEF Images!SweepNext

LEMMA ImagesHeldNext ==
  ASSUME ImagesHeld, [Images!Next]_(Images!vars)
  PROVE  ImagesHeld'
  <1>1. CASE UNCHANGED <<row, imageCycle>>
    BY <1>1 DEF ImagesHeld, Shapes, HeldAlone, Images!Holds
  <1>2. ASSUME NEW c \in ImportCycles, Images!CycleNext(c)
        PROVE  ImagesHeld'
    BY <1>2, DueReadKeeps, LeaseKeeps, PutAssetKeeps, RecordImportedKeeps, FetchFailsKeeps
       DEF Images!CycleNext
  <1>3. ASSUME NEW u \in Urls, Images!Store(u) \/ Images!Drop(u)
        PROVE  ImagesHeld'
    BY <1>1, <1>3 DEF Images!Store, Images!Drop
  <1>4. ASSUME NEW h \in Images!Hashes, Images!AssetAges(h)
        PROVE  ImagesHeld'
    BY <1>1, <1>4 DEF Images!AssetAges
  <1> QED BY <1>1, <1>2, <1>3, <1>4, FailuresKeep, RegisterKeeps, ComesDueKeeps, RowAgesKeeps,
             SweepKeeps DEF Images!Next, Images!vars

-----------------------------------------------------------------------------
(* The retries are counted: a row still pending has retries left, so no    *)
(* row is tried more often than the schedule has waits (remoteImage.ts:41).*)
RetriesLeft == \A u \in Urls : row[u].status = "pending" => row[u].attempts <= Retries

ImagesInv == Images!TypeOK /\ RetriesLeft /\ ImagesHeld

LEMMA ImagesInit ==
  ASSUME Images!Assumptions, Images!Init
  PROVE  ImagesInv
  <1>1. Images!TypeOK
    BY DEF Images!Assumptions, Images!Init, Images!TypeOK, Images!Rows, Images!NoRow,
           Images!NoCycle, Images!Phases, Images!NoSweep, Images!SweepStates
  <1>2. RetriesLeft
    BY DEF Images!Init, RetriesLeft, Images!NoRow
  <1> QED BY <1>1, <1>2, ImagesHeldInit DEF ImagesInv

\* The rows, when all else is left as it was or is of its type.
LEMMA RowTypesKeep ==
  ASSUME Images!Assumptions, ImagesInv, ImagesHeld',
         \A u \in Urls : \/ row'[u] = row[u]
                         \/ /\ row'[u] \in Images!Rows
                            /\ row'[u].status = "pending" => row'[u].attempts <= Retries,
         row' = [u \in Urls |-> row'[u]],
         asset' \in [Images!Hashes -> {"none", "young", "old"}],
         refs' \subseteq Urls, writing' \subseteq Urls, assetSweep' \in Images!SweepStates,
         writes' \in 0 .. MaxWrites, crashes' \in 0 .. MaxCrashes
  PROVE  ImagesInv'
  <1>1. \A u \in Urls : row'[u] \in Images!Rows
    BY DEF ImagesInv, Images!TypeOK
  <1>2. row' \in [Urls -> Images!Rows]
    BY <1>1
  <1>3. imageCycle' \in [ImportCycles -> [Urls -> Images!Phases]]
    BY DEF ImagesHeld, Shapes
  <1>4. Images!TypeOK'
    BY <1>2, <1>3 DEF Images!TypeOK
  <1>5. RetriesLeft'
    BY DEF ImagesInv, RetriesLeft
  <1> QED BY <1>4, <1>5 DEF ImagesInv

LEMMA NewRowType ==
  ASSUME Images!Assumptions
  PROVE  /\ Images!NoRow \in Images!Rows /\ Images!NoRow.status = "none"
         /\ Images!NewRow \in Images!Rows /\ Images!NewRow.attempts = 0
  <1>1. 0 \in 0 .. Retries + 1
    BY DEF Images!Assumptions
  <1>2. Images!NoRow \in Images!Rows /\ Images!NoRow.status = "none" /\ Images!NoRow.attempts = 0
    BY <1>1 DEF Images!NoRow, Images!Rows
  <1>3. Images!NewRow \in Images!Rows /\ Images!NewRow.attempts = 0
    BY <1>2 DEF Images!NewRow, Images!Rows
  <1> QED BY <1>2, <1>3

LEMMA ImagesNext ==
  ASSUME Images!Assumptions, ImagesInv, [Images!Next]_(Images!vars)
  PROVE  ImagesInv'
  <1>0. ImagesHeld /\ ImagesHeld' /\ Images!TypeOK /\ RetriesLeft /\ Retries \in Nat
    BY ImagesHeldNext DEF ImagesInv, Images!Assumptions
  <1>a. /\ row \in [Urls -> Images!Rows]
        /\ asset \in [Images!Hashes -> {"none", "young", "old"}]
        /\ refs \subseteq Urls /\ writing \subseteq Urls /\ assetSweep \in Images!SweepStates
        /\ writes \in 0 .. MaxWrites /\ crashes \in 0 .. MaxCrashes
    BY <1>0 DEF Images!TypeOK
  <1>b. row = [u \in Urls |-> row[u]]
    BY <1>a
  <1>c. MaxWrites \in Nat /\ MaxCrashes \in Nat
    BY DEF Images!Assumptions
  <1> USE <1>0, <1>a, <1>b
  <1>1. ASSUME NEW u \in Urls, Images!Register(u)
        PROVE  ImagesInv'
    <2>1. Images!NewRow \in Images!Rows /\ Images!NewRow.attempts = 0
      BY NewRowType
    <2>2. row' = row \/ row' = [row EXCEPT ![u] = Images!NewRow]
      BY <1>1 DEF Images!Register
    <2>3. \A v \in Urls : \/ row'[v] = row[v]
                          \/ row'[v] \in Images!Rows /\ row'[v].attempts <= Retries
      BY <2>1, <2>2
    <2>4. row' = [v \in Urls |-> row'[v]]
      BY <2>2
    <2>5. /\ UNCHANGED <<asset, refs, assetSweep, crashes>> /\ writing' \subseteq Urls
          /\ writes' \in 0 .. MaxWrites
      BY <1>1, <1>c DEF Images!Register
    <2> QED BY <2>3, <2>4, <2>5, RowTypesKeep
  <1>2. ASSUME NEW u \in Urls, Images!Store(u) \/ Images!Drop(u)
        PROVE  ImagesInv'
    <2>1. /\ UNCHANGED <<row, asset, assetSweep, writes, crashes>>
          /\ refs' \subseteq Urls /\ writing' \subseteq Urls
      BY <1>2 DEF Images!Store, Images!Drop
    <2> QED BY <2>1, RowTypesKeep
  <1>3. ASSUME NEW c \in ImportCycles, Images!DueRead(c)
        PROVE  ImagesInv'
    <2>1. UNCHANGED <<row, asset, refs, writing, assetSweep, writes, crashes>>
      BY <1>3 DEF Images!DueRead
    <2> QED BY <2>1, RowTypesKeep
  <1>4. ASSUME NEW c \in ImportCycles, NEW u \in Urls, Images!Lease(c, u)
        PROVE  ImagesInv'
    <2>1. UNCHANGED <<asset, refs, writing, assetSweep, writes, crashes>>
      BY <1>4 DEF Images!Lease
    <2>2. row' = row \/ row' = [row EXCEPT ![u].wait = "lease"]
      BY <1>4 DEF Images!Lease
    <2>3. \A v \in Urls : /\ row'[v] \in Images!Rows
                          /\ row'[v].status = row[v].status /\ row'[v].attempts = row[v].attempts
      BY <2>2 DEF Images!Rows
    <2>4. row' = [v \in Urls |-> row'[v]]
      BY <2>2
    <2> QED BY <2>1, <2>3, <2>4, RowTypesKeep DEF RetriesLeft
  <1>5. ASSUME NEW c \in ImportCycles, NEW u \in Urls, NEW retryable \in BOOLEAN,
               Images!FetchFails(c, u, retryable)
        PROVE  ImagesInv'
    <2>1. UNCHANGED <<asset, refs, writing, assetSweep, writes, crashes>>
      BY <1>5 DEF Images!FetchFails
    <2>2. CASE imageCycle[c][u] = "gone"
      <3>1. row' = row
        BY <1>5, <2>2 DEF Images!FetchFails
      <3> QED BY <2>1, <3>1, RowTypesKeep
    <2>3. CASE imageCycle[c][u] # "gone"
      <3> DEFINE n == row[u].attempts + 1
                 again == retryable /\ n <= Retries
                 written == [row[u] EXCEPT !.attempts = n,
                                           !.status = IF again THEN @ ELSE "failed",
                                           !.wait = IF again THEN "backoff" ELSE @]
      <3>1. row[u].status = "pending"
        BY <1>5, <2>3 DEF Images!FetchFails, Images!Importing, ImagesHeld, HeldAlone
      <3>2. n \in 0 .. Retries + 1
        BY <3>1 DEF RetriesLeft, Images!Rows
      <3>3. row' = [row EXCEPT ![u] = written]
        BY <1>5, <2>3 DEF Images!FetchFails, Images!Counted, Images!Rows
      <3>4. written \in Images!Rows /\ (written.status = "pending" => written.attempts <= Retries)
        <4>1. CASE again
          <5>1. n <= Retries
            BY <4>1
          <5>2. written = [row[u] EXCEPT !.attempts = n, !.wait = "backoff"]
            BY <4>1 DEF Images!Rows
          <5> HIDE DEF n, written
          <5> QED BY <3>2, <5>1, <5>2 DEF Images!Rows
        <4>2. CASE ~again
          <5>1. written = [row[u] EXCEPT !.attempts = n, !.status = "failed"]
            BY <4>2 DEF Images!Rows
          <5> HIDE DEF n, written
          <5> QED BY <3>2, <5>1 DEF Images!Rows
        <4> QED BY <4>1, <4>2
      <3> HIDE DEF written
      <3>5. \A v \in Urls : row'[v] = IF v = u THEN written ELSE row[v]
        BY <3>3
      <3>6. row' = [v \in Urls |-> row'[v]]
        BY <3>3
      <3> QED BY <2>1, <3>4, <3>5, <3>6, RowTypesKeep
    <2> QED BY <2>2, <2>3
  <1>6. ASSUME NEW c \in ImportCycles, NEW u \in Urls, Images!PutAsset(c, u)
        PROVE  ImagesInv'
    <2>1. UNCHANGED <<row, refs, writing, assetSweep, writes, crashes>>
      BY <1>6 DEF Images!PutAsset
    <2>2. asset' \in [Images!Hashes -> {"none", "young", "old"}]
      BY <1>6 DEF Images!PutAsset
    <2> QED BY <2>1, <2>2, RowTypesKeep
  <1>7. ASSUME NEW c \in ImportCycles, NEW u \in Urls, Images!RecordImported(c, u)
        PROVE  ImagesInv'
    <2> DEFINE n == row[u].attempts + 1
               written == [row[u] EXCEPT !.status = "imported", !.attempts = n]
    <2>1. UNCHANGED <<asset, refs, writing, assetSweep, writes, crashes>>
      BY <1>7 DEF Images!RecordImported
    <2>2. row[u].status = "pending"
      BY <1>7 DEF Images!RecordImported, ImagesHeld, HeldAlone, Images!Holds
    <2>3. n \in 0 .. Retries + 1
      BY <2>2 DEF RetriesLeft, Images!Rows
    <2>4. row' = row \/ row' = [row EXCEPT ![u] = written]
      BY <1>7 DEF Images!RecordImported, Images!Counted, Images!Rows
    <2>5. written \in Images!Rows /\ written.status = "imported"
      <3> HIDE DEF n
      <3> QED BY <2>3 DEF Images!Rows
    <2> HIDE DEF written
    <2>6. \A v \in Urls : row'[v] = row[v] \/ row'[v] = written
      BY <2>4
    <2>7. row' = [v \in Urls |-> row'[v]]
      BY <2>4
    <2> QED BY <2>1, <2>5, <2>6, <2>7, RowTypesKeep
  <1>8. ASSUME NEW c \in ImportCycles, Images!Crash(c) \/ \E u \in Urls : Images!ImportErrs(c, u)
        PROVE  ImagesInv'
    <2>1. /\ UNCHANGED <<row, asset, refs, writing, assetSweep, writes>>
          /\ crashes' \in 0 .. MaxCrashes
      BY <1>8, <1>c DEF Images!Crash, Images!ImportErrs
    <2> QED BY <2>1, RowTypesKeep
  <1>9. ASSUME NEW u \in Urls, Images!ComesDue(u) \/ Images!RowAges(u)
        PROVE  ImagesInv'
    <2>1. UNCHANGED <<asset, refs, writing, assetSweep, writes, crashes>>
      BY <1>9 DEF Images!ComesDue, Images!RowAges
    <2>2. row' = [row EXCEPT ![u].wait = "none"] \/ row' = [row EXCEPT ![u].old = TRUE]
      BY <1>9 DEF Images!ComesDue, Images!RowAges
    <2>3. ASSUME NEW v \in Urls
          PROVE  /\ row'[v] \in Images!Rows
                 /\ row'[v].status = row[v].status /\ row'[v].attempts = row[v].attempts
      <3>1. \/ row'[v] = row[v]
            \/ row'[v] = [row[v] EXCEPT !.wait = "none"] \/ row'[v] = [row[v] EXCEPT !.old = TRUE]
        BY <2>2
      <3> QED BY <3>1 DEF Images!Rows
    <2>4. row' = [v \in Urls |-> row'[v]]
      BY <2>2
    <2> QED BY <2>1, <2>3, <2>4, RowTypesKeep DEF RetriesLeft
  <1>10. CASE Images!SweepNext
    <2>1. CASE Images!SweepColumns \/ Images!PruneColumns
      <3>1. UNCHANGED <<row, asset, refs, writing, writes, crashes>>
        BY <2>1 DEF Images!SweepColumns, Images!PruneColumns
      <3>2. \/ assetSweep' = [assetSweep EXCEPT !.step = "columns", !.urls = refs]
            \/ assetSweep' = [assetSweep EXCEPT !.step = "prune", !.urls = refs]
        BY <2>1 DEF Images!SweepColumns, Images!PruneColumns
      <3>3. assetSweep' \in Images!SweepStates
        BY <3>2 DEF Images!SweepStates
      <3> QED BY <3>1, <3>3, RowTypesKeep
    <2>2. CASE Images!SweepCandidates
      <3>1. UNCHANGED <<row, asset, refs, writing, writes, crashes>>
        BY <2>2 DEF Images!SweepCandidates
      <3>2. PICK D \in SUBSET Images!Hashes :
               assetSweep' = [assetSweep EXCEPT !.step = "assets", !.doomed = D]
        BY <2>2 DEF Images!SweepCandidates
      <3>3. assetSweep' \in Images!SweepStates
        BY <3>2 DEF Images!SweepStates
      <3> QED BY <3>1, <3>3, RowTypesKeep
    <2>3. CASE Images!SweepAssets \/ Images!PruneRows
      <3>1. UNCHANGED <<refs, writing, writes, crashes>>
        BY <2>3 DEF Images!SweepAssets, Images!PruneRows
      <3>2. assetSweep' \in Images!SweepStates
        BY <2>3 DEF Images!SweepAssets, Images!PruneRows, Images!SweepStates, Images!NoSweep
      <3>3. asset' \in [Images!Hashes -> {"none", "young", "old"}]
        BY <2>3 DEF Images!SweepAssets, Images!PruneRows
      <3>4. PICK gone \in SUBSET Urls :
               row' = [u \in Urls |-> IF u \in gone THEN Images!NoRow ELSE row[u]]
        <4>1. CASE Images!SweepAssets
          <5>1. {u \in Images!Imported : Bytes[u] \in assetSweep.doomed} \in SUBSET Urls
            BY DEF Images!Imported
          <5> QED BY <4>1, <5>1 DEF Images!SweepAssets
        <4>2. CASE Images!PruneRows
          BY <4>2 DEF Images!PruneRows
        <4> QED BY <2>3, <4>1, <4>2
      <3>5. Images!NoRow \in Images!Rows /\ Images!NoRow.status = "none"
        BY DEF Images!NoRow, Images!Rows
      <3>6. \A u \in Urls : row'[u] = row[u] \/ row'[u] = Images!NoRow
        BY <3>4
      <3>7. row' = [u \in Urls |-> row'[u]]
        BY <3>4
      <3> QED BY <3>1, <3>2, <3>3, <3>5, <3>6, <3>7, RowTypesKeep
    <2> QED BY <1>10, <2>1, <2>2, <2>3 DEF Images!SweepNext
  <1>11. ASSUME NEW h \in Images!Hashes, Images!AssetAges(h)
         PROVE  ImagesInv'
    <2>1. UNCHANGED <<row, refs, writing, assetSweep, writes, crashes>>
      BY <1>11 DEF Images!AssetAges
    <2>2. asset' \in [Images!Hashes -> {"none", "young", "old"}]
      BY <1>11 DEF Images!AssetAges
    <2> QED BY <2>1, <2>2, RowTypesKeep
  <1>12. CASE UNCHANGED Images!vars
    BY <1>12, RowTypesKeep DEF Images!vars
  <1>13. ASSUME NEW c \in ImportCycles, Images!CycleNext(c)
         PROVE  ImagesInv'
    BY <1>3, <1>4, <1>5, <1>6, <1>7, <1>13 DEF Images!CycleNext
  <1> QED BY <1>1, <1>2, <1>8, <1>9, <1>10, <1>11, <1>12, <1>13 DEF Images!Next

-----------------------------------------------------------------------------
\* A nonempty set of parts of a finite set has a least one.
LEMMA LeastSubset ==
  ASSUME NEW S, IsFiniteSet(S), NEW T, \A V \in T : V \subseteq S, T # {}
  PROVE  \E U \in T : \A V \in T : V \subseteq U => V = U
  <1> DEFINE R == StrictSubsetOrdering(S)
  <1>1. IsWellFoundedOn(R, FiniteSubsetsOf(S))
    BY FS_StrictSubsetOrderingWellFounded
  <1>2. T \subseteq FiniteSubsetsOf(S)
    BY FS_Subset DEF FiniteSubsetsOf
  <1>3. \E U \in T : \A V \in T : ~ (<<V, U>> \in R)
    <2> HIDE DEF R
    <2> QED BY <1>1, <1>2, WFMin
  <1> QED BY <1>3 DEF StrictSubsetOrdering

\* A finite set of numbers has a greatest.
LEMMA MaxExists ==
  ASSUME NEW S \in SUBSET Int, IsFiniteSet(S), S # {}
  PROVE  \E m \in S : \A n \in S : n <= m
  <1> DEFINE Above(p) == {q \in S : q > p}
  <1>1. PICK T : T = {Above(p) : p \in S}
    OBVIOUS
  <1>2. PICK U \in T : \A V \in T : V \subseteq U => V = U
    <2>1. \A V \in T : V \subseteq S
      BY <1>1
    <2>2. T # {}
      BY <1>1
    <2> QED BY <2>1, <2>2, LeastSubset, SMT
  <1>3. PICK m \in S : U = Above(m)
    BY <1>1, <1>2
  <1>4. ASSUME NEW n \in S, ~(n <= m) PROVE FALSE
    <2>1. n \in Int /\ m \in Int /\ n > m
      BY <1>4
    <2>2. Above(n) \in T
      BY <1>1
    <2>3. \A q \in S : q > n => q > m
      BY <2>1
    <2>4. Above(n) \subseteq U
      BY <1>3, <2>3
    <2>5. n \in U /\ n \notin Above(n)
      BY <1>3, <2>1
    <2> QED BY <1>2, <2>2, <2>4, <2>5
  <1> QED BY <1>4

(***************************************************************************)
(* Forums.  The strengthening: a pointer is at a post of the topic itself, *)
(* a request in flight is on a topic there has been and, if it names a     *)
(* post, on one of that topic, and a live topic is on a board.             *)
(***************************************************************************)
PointersAreOwn ==
    \A t \in Topics :
       /\ topic[t].last # None => post[topic[t].last].of = t
       /\ topic[t].live => topic[t].in \in Boards

PostsAreOnTopics == \A p \in Posts : post[p].live => post[p].of \in Topics

RequestsKnown ==
    \A s \in ForumRequests :
       /\ forumReq[s].op # "idle" => forumReq[s].topic \in Topics /\ forumReq[s].in \in Boards
       /\ forumReq[s].op \in {"append", "deletePost"}
             => forumReq[s].post \in Posts /\ post[forumReq[s].post].of = forumReq[s].topic

TopicsAreListed ==
    \A t \in Topics :
       topic[t].live => topic[t].last # None /\ \E p \in Posts : post[p].of = t /\ post[p].live

ForumInv == Forums!TypeOK /\ PointersAreOwn /\ PostsAreOnTopics /\ RequestsKnown /\ TopicsAreListed

TopicRows == [in : Boards \cup {None}, live : BOOLEAN, last : Posts \cup {None}]
PostRows == [of : Topics \cup {None}, by : Authors \cup {None}, live : BOOLEAN]
ForumRows == [exists : BOOLEAN, last : Topics \cup {None}]
RequestRows ==
    [op : Forums!Ops, in : Boards \cup {None}, topic : Topics \cup {None},
     post : Posts \cup {None}, by : Authors \cup {None}]

LEMMA ForumTypes ==
  Forums!TypeOK <=> /\ forum \in [Boards -> ForumRows] /\ topic \in [Topics -> TopicRows]
                    /\ post \in [Posts -> PostRows] /\ forumReq \in [ForumRequests -> RequestRows]
  BY DEF Forums!TypeOK, ForumRows, TopicRows, PostRows, RequestRows

LEMMA ForumInit ==
  ASSUME Forums!Assumptions, Forums!Init
  PROVE  ForumInv
  <1>1. Forums!TypeOK
    BY DEF Forums!Init, Forums!TypeOK, Forums!Unused, Forums!Unwritten, Forums!Idle, Forums!Ops
  <1>2. PointersAreOwn /\ PostsAreOnTopics /\ RequestsKnown /\ TopicsAreListed
    BY DEF Forums!Init, Forums!Unused, Forums!Unwritten, Forums!Idle, PointersAreOwn,
           PostsAreOnTopics, RequestsKnown, TopicsAreListed
  <1> QED BY <1>1, <1>2 DEF ForumInv

\* The newest of some posts is one of them.
LEMMA NewestIs ==
  ASSUME Forums!Assumptions, NEW S \in SUBSET Posts, S # {}
  PROVE  Forums!Newest(S) \in S
  <1>1. Posts \subseteq Nat /\ IsFiniteSet(Posts)
    BY DEF Forums!Assumptions, Forums!IsFiniteSet, IsFiniteSet
  <1>2. IsFiniteSet(S)
    <2>1. S \subseteq Posts
      OBVIOUS
    <2> QED BY <1>1, <2>1, FS_Subset
  <1>3. \E m \in S : \A n \in S : n <= m
    <2>1. S \in SUBSET Int
      BY <1>1
    <2> QED BY <1>2, <2>1, MaxExists
  <1> QED BY <1>3 DEF Forums!Newest

\* A forum shows one of the topics, or none.
LEMMA LastTopicIs ==
  ASSUME Forums!Assumptions, NEW ts \in [Topics -> TopicRows], NEW f
  PROVE  Forums!LastTopic(ts, f) \in Topics \cup {None}
  <1> DEFINE lasts == {ts[t].last : t \in {u \in Topics : ts[u].in = f /\ ts[u].live}} \ {None}
  <1>1. CASE lasts = {}
    BY <1>1 DEF Forums!LastTopic
  <1>2. CASE lasts # {}
    <2>1. lasts \in SUBSET Posts
      BY DEF TopicRows
    <2>2. Forums!Newest(lasts) \in lasts
      <3> HIDE DEF lasts
      <3> QED BY <1>2, <2>1, NewestIs
    <2>3. \E t \in Topics : ts[t].in = f /\ ts[t].live /\ ts[t].last = Forums!Newest(lasts)
      BY <2>2
    <2>4. Forums!LastTopic(ts, f)
            = CHOOSE t \in Topics : ts[t].in = f /\ ts[t].live /\ ts[t].last = Forums!Newest(lasts)
      BY <1>2 DEF Forums!LastTopic
    <2> HIDE DEF lasts
    <2> QED BY <2>3, <2>4
  <1> QED BY <1>1, <1>2

\* Requests that come to their end, or begin.
LEMMA EndsRequest ==
  ASSUME ForumInv, NEW s \in ForumRequests, forumReq' = Forums!Done(s),
         \A p \in Posts : post'[p].of = post[p].of \/ post[p].of = None,
         Forums!Assumptions
  PROVE  forumReq' \in [ForumRequests -> RequestRows] /\ RequestsKnown'
  <1>1. forumReq \in [ForumRequests -> RequestRows]
    BY ForumTypes DEF ForumInv
  <1>2. Forums!Idle \in RequestRows /\ Forums!Idle.op = "idle"
    BY DEF Forums!Idle, RequestRows, Forums!Ops
  <1>3. None \notin Topics
    BY DEF Forums!Assumptions
  <1>4. forumReq' = [forumReq EXCEPT ![s] = Forums!Idle]
    BY DEF Forums!Done
  <1>5. forumReq' \in [ForumRequests -> RequestRows]
    BY <1>1, <1>2, <1>4
  <1>6. ASSUME NEW r \in ForumRequests
        PROVE  /\ forumReq'[r].op # "idle"
                     => forumReq'[r].topic \in Topics /\ forumReq'[r].in \in Boards
               /\ forumReq'[r].op \in {"append", "deletePost"}
                     => /\ forumReq'[r].post \in Posts
                        /\ post'[forumReq'[r].post].of = forumReq'[r].topic
    <2>1. CASE r = s
      BY <1>1, <1>2, <1>4, <2>1
    <2>2. CASE r # s
      <3>1. forumReq'[r] = forumReq[r]
        BY <1>1, <1>4, <2>2
      <3>2. /\ forumReq[r].op # "idle" => forumReq[r].topic \in Topics /\ forumReq[r].in \in Boards
            /\ forumReq[r].op \in {"append", "deletePost"}
                  => forumReq[r].post \in Posts /\ post[forumReq[r].post].of = forumReq[r].topic
        BY DEF ForumInv, RequestsKnown
      <3>3. ASSUME forumReq[r].op \in {"append", "deletePost"}
            PROVE  post'[forumReq[r].post].of = forumReq[r].topic
        BY <1>3, <3>2, <3>3
      <3> QED BY <3>1, <3>2, <3>3
    <2> QED BY <2>1, <2>2
  <1> QED BY <1>5, <1>6 DEF RequestsKnown

LEMMA BeginsRequest ==
  ASSUME ForumInv, NEW s \in ForumRequests, NEW op \in Forums!Ops, NEW t \in Topics,
         NEW p \in Posts \cup {None}, NEW u \in Authors \cup {None}, Forums!Begin(s, op, t, p, u),
         op \in {"append", "deletePost"} => p \in Posts /\ post[p].of = t
  PROVE  ForumInv'
  <1> DEFINE x == [op |-> op, in |-> topic[t].in, topic |-> t, post |-> p, by |-> u]
  <1>1. /\ forumReq' = [forumReq EXCEPT ![s] = x] /\ topic[t].live
        /\ UNCHANGED <<forum, topic, post>>
    BY DEF Forums!Begin
  <1>2. topic[t].in \in Boards
    BY <1>1 DEF ForumInv, PointersAreOwn
  <1>3. /\ x \in RequestRows /\ x.op = op /\ x.topic = t /\ x.in \in Boards /\ x.post = p
    BY <1>2 DEF RequestRows
  <1> HIDE DEF x
  <1>4. Forums!TypeOK'
    BY <1>1, <1>3, ForumTypes DEF ForumInv, Forums!TypeOK, RequestRows
  <1>5. RequestsKnown'
    BY <1>1, <1>3, ForumTypes DEF ForumInv, RequestsKnown
  <1> QED BY <1>1, <1>4, <1>5 DEF ForumInv, PointersAreOwn, PostsAreOnTopics, TopicsAreListed

LEMMA ForumStep ==
  ASSUME forum' \in [Boards -> ForumRows], topic' \in [Topics -> TopicRows],
         post' \in [Posts -> PostRows], forumReq' \in [ForumRequests -> RequestRows],
         PointersAreOwn', PostsAreOnTopics', RequestsKnown', TopicsAreListed'
  PROVE  ForumInv'
  BY DEF ForumInv, Forums!TypeOK, ForumRows, TopicRows, PostRows, RequestRows

\* The pointers that follow a reply: the topic's, at a post of its own, and the
\* forum's, or neither if the forum is gone.
LEMMA ShowIs ==
  ASSUME ForumInv, NEW s \in ForumRequests, forumReq[s].op # "idle", NEW p \in Posts,
         Forums!Show(s, p)
  PROVE  /\ forum' \in [Boards -> ForumRows] /\ topic' \in [Topics -> TopicRows]
         /\ \A t \in Topics :
               /\ topic'[t].in = topic[t].in /\ topic'[t].live = topic[t].live
               /\ \/ topic'[t].last = topic[t].last
                  \/ /\ topic'[t].last = p /\ t = forumReq[s].topic
                     /\ forum[forumReq[s].in].exists
  <1> DEFINE t == forumReq[s].topic
             x == [topic[t] EXCEPT !.last = p]
             z == [forum[forumReq[s].in] EXCEPT !.last = t]
  <1>0. /\ forum \in [Boards -> ForumRows] /\ topic \in [Topics -> TopicRows]
        /\ t \in Topics /\ forumReq[s].in \in Boards
    BY ForumTypes DEF ForumInv, RequestsKnown
  <1>1. /\ x \in TopicRows /\ x.last = p /\ x.in = topic[t].in /\ x.live = topic[t].live
    BY <1>0 DEF TopicRows
  <1>2. z \in ForumRows
    BY <1>0 DEF ForumRows
  <1>3. CASE forum[forumReq[s].in].exists
    <2>1. topic' = [topic EXCEPT ![t] = x] /\ forum' = [forum EXCEPT ![forumReq[s].in] = z]
      BY <1>3 DEF Forums!Show
    <2> HIDE DEF x, z, t
    <2> QED BY <1>0, <1>1, <1>2, <1>3, <2>1 DEF t
  <1>4. CASE ~forum[forumReq[s].in].exists
    BY <1>0, <1>4 DEF Forums!Show
  <1> QED BY <1>3, <1>4

LEMMA ForumNext ==
  ASSUME Forums!Assumptions, ForumInv, [Forums!Next]_(Forums!vars)
  PROVE  ForumInv'
  <1>0. /\ forum \in [Boards -> ForumRows] /\ topic \in [Topics -> TopicRows]
        /\ post \in [Posts -> PostRows] /\ forumReq \in [ForumRequests -> RequestRows]
        /\ PointersAreOwn /\ PostsAreOnTopics /\ RequestsKnown /\ TopicsAreListed
    BY ForumTypes DEF ForumInv
  <1>a. None \notin Topics /\ None \notin Posts /\ Trash \in Boards
    BY DEF Forums!Assumptions
  <1>1. ASSUME NEW t \in Topics, NEW p \in Posts, NEW f \in Boards, NEW u \in Authors,
               Forums!CreateTopic(t, p, f, u)
        PROVE  ForumInv'
    <2> DEFINE x == [in |-> f, live |-> TRUE, last |-> p]
               y == [of |-> t, by |-> u, live |-> TRUE]
               z == [forum[f] EXCEPT !.last = t]
    <2>1. x \in TopicRows /\ y \in PostRows /\ z \in ForumRows
      BY <1>0 DEF TopicRows, PostRows, ForumRows
    <2>2. x.last = p /\ x.in = f /\ y.of = t /\ y.live
      OBVIOUS
    <2>3. /\ topic' = [topic EXCEPT ![t] = x] /\ post' = [post EXCEPT ![p] = y]
          /\ forum' = [forum EXCEPT ![f] = z] /\ forumReq' = forumReq /\ post[p].of = None
      BY <1>0, <1>1 DEF Forums!CreateTopic, Forums!NextPost, Forums!Written, ForumRows
    <2> HIDE DEF x, y, z
    <2>4. PointersAreOwn'
      BY <1>0, <1>a, <2>1, <2>2, <2>3 DEF PointersAreOwn, TopicRows
    <2>5. RequestsKnown'
      BY <1>0, <1>a, <2>3 DEF RequestsKnown
    <2>6. TopicsAreListed'
      BY <1>0, <1>a, <2>1, <2>2, <2>3 DEF TopicsAreListed
    <2>7. PostsAreOnTopics'
      BY <1>0, <2>1, <2>2, <2>3 DEF PostsAreOnTopics
    <2> QED BY <1>0, <2>1, <2>3, <2>4, <2>5, <2>6, <2>7, ForumStep
  <1>2. ASSUME NEW s \in ForumRequests, NEW t \in Topics,
               \/ \E u \in Authors : Forums!ReplyRead(s, t, u)
               \/ Forums!DeleteTopicRead(s, t) \/ Forums!TrashRead(s, t)
        PROVE  ForumInv'
    <2>1. PICK op \in {"reply", "deleteTopic", "trash"}, u \in Authors \cup {None} :
             Forums!Begin(s, op, t, None, u)
      BY <1>2 DEF Forums!ReplyRead, Forums!DeleteTopicRead, Forums!TrashRead
    <2>2. op \in Forums!Ops /\ op \notin {"append", "deletePost"} /\ None \in Posts \cup {None}
      BY DEF Forums!Ops
    <2> QED BY <2>1, <2>2, BeginsRequest
  <1>3. ASSUME NEW s \in ForumRequests, NEW p \in Posts, Forums!DeletePostRead(s, p)
        PROVE  ForumInv'
    <2>1. Forums!Begin(s, "deletePost", post[p].of, p, None) /\ topic[post[p].of].live
      BY <1>3 DEF Forums!DeletePostRead, Forums!Begin
    <2>2. post[p].of \in Topics
      BY <1>0, <1>3 DEF Forums!DeletePostRead, PostsAreOnTopics
    <2>3. "deletePost" \in Forums!Ops /\ p \in Posts \cup {None} /\ None \in Authors \cup {None}
      BY DEF Forums!Ops
    <2> QED BY <2>1, <2>2, <2>3, BeginsRequest
  <1>4. ASSUME NEW s \in ForumRequests, Forums!ReplyLooks(s)
        PROVE  ForumInv'
    <2> DEFINE t == forumReq[s].topic
               p == topic[t].last
               own == p # None /\ post[p].live /\ post[p].by = forumReq[s].by
               x == [forumReq[s] EXCEPT !.op = IF own THEN "append" ELSE "post",
                                        !.post = IF own THEN p ELSE None]
    <2>1. forumReq[s] \in RequestRows /\ t \in Topics /\ forumReq[s].in \in Boards
      BY <1>0, <1>4 DEF Forums!ReplyLooks, RequestsKnown
    <2>2. p \in Posts \cup {None} /\ (p # None => post[p].of = t)
      BY <1>0, <2>1 DEF TopicRows, PointersAreOwn
    <2>3. forumReq' = [forumReq EXCEPT ![s] = x] /\ UNCHANGED <<forum, topic, post>>
      BY <1>0, <1>4 DEF Forums!ReplyLooks, RequestRows
    <2> HIDE DEF t, p
    <2>4. /\ x \in RequestRows /\ x.topic = forumReq[s].topic /\ x.in = forumReq[s].in
          /\ x.op \in {"append", "deletePost"} => x.post \in Posts /\ post[x.post].of = x.topic
      <3>1. CASE own
        <4>1. x = [forumReq[s] EXCEPT !.op = "append", !.post = p] /\ p \in Posts
          BY <2>2, <3>1
        <4> HIDE DEF x, own
        <4>2. /\ x \in RequestRows /\ x.topic = forumReq[s].topic /\ x.in = forumReq[s].in
              /\ x.post = p
          BY <2>1, <4>1 DEF RequestRows, Forums!Ops
        <4>3. post[p].of = forumReq[s].topic
          BY <1>a, <2>2, <4>1 DEF t
        <4> QED BY <4>1, <4>2, <4>3
      <3>2. CASE ~own
        <4>1. x = [forumReq[s] EXCEPT !.op = "post", !.post = None]
          BY <3>2
        <4> HIDE DEF x, own
        <4> QED BY <2>1, <4>1 DEF RequestRows, Forums!Ops
      <3> QED BY <3>1, <3>2
    <2> HIDE DEF x, own
    <2>5. RequestsKnown'
      BY <1>0, <2>1, <2>3, <2>4 DEF RequestsKnown, t
    <2>6. PointersAreOwn' /\ PostsAreOnTopics' /\ TopicsAreListed'
      BY <1>0, <2>3 DEF PointersAreOwn, PostsAreOnTopics, TopicsAreListed
    <2> QED BY <1>0, <2>3, <2>4, <2>5, <2>6, ForumStep
  <1>5. ASSUME NEW s \in ForumRequests, Forums!ReplyAppends(s)
        PROVE  ForumInv'
    <2>1. /\ forumReq[s].op = "append" /\ forumReq' = Forums!Done(s) /\ post' = post
          /\ Forums!Show(s, forumReq[s].post)
          /\ forumReq[s].post \in Posts /\ post[forumReq[s].post].of = forumReq[s].topic
      BY <1>0, <1>5 DEF Forums!ReplyAppends, RequestsKnown
    <2>2. forumReq' \in [ForumRequests -> RequestRows] /\ RequestsKnown'
      BY <2>1, EndsRequest
    <2>3. /\ forum' \in [Boards -> ForumRows] /\ topic' \in [Topics -> TopicRows]
          /\ \A t \in Topics :
                /\ topic'[t].in = topic[t].in /\ topic'[t].live = topic[t].live
                /\ \/ topic'[t].last = topic[t].last
                   \/ /\ topic'[t].last = forumReq[s].post /\ t = forumReq[s].topic
                      /\ forum[forumReq[s].in].exists
      BY <2>1, ShowIs
    <2>4. PointersAreOwn'
      BY <1>0, <2>1, <2>3 DEF PointersAreOwn
    <2>5. TopicsAreListed' /\ PostsAreOnTopics'
      BY <1>0, <1>a, <2>1, <2>3 DEF TopicsAreListed, PostsAreOnTopics
    <2> QED BY <1>0, <2>1, <2>2, <2>3, <2>4, <2>5, ForumStep
  <1>6. ASSUME NEW s \in ForumRequests, NEW p \in Posts, Forums!ReplyPosts(s, p)
        PROVE  ForumInv'
    <2> DEFINE y == [of |-> forumReq[s].topic, by |-> forumReq[s].by, live |-> TRUE]
    <2>1. /\ forumReq[s].op = "post" /\ forumReq' = Forums!Done(s) /\ Forums!Show(s, p)
          /\ post[p].of = None /\ forumReq[s].topic \in Topics
          /\ post' = IF forum[forumReq[s].in].exists THEN [post EXCEPT ![p] = y] ELSE post
      BY <1>0, <1>6 DEF Forums!ReplyPosts, Forums!NextPost, Forums!Written, RequestsKnown
    <2>2. y \in PostRows /\ y.of = forumReq[s].topic /\ y.live
      BY <1>0, <2>1 DEF PostRows, RequestRows
    <2> HIDE DEF y
    <2>3. /\ post' \in [Posts -> PostRows]
          /\ \A q \in Posts : post'[q].of = post[q].of \/ post[q].of = None
      BY <1>0, <2>1, <2>2
    <2>4. forumReq' \in [ForumRequests -> RequestRows] /\ RequestsKnown'
      BY <2>1, <2>3, EndsRequest
    <2>5. /\ forum' \in [Boards -> ForumRows] /\ topic' \in [Topics -> TopicRows]
          /\ \A t \in Topics :
                /\ topic'[t].in = topic[t].in /\ topic'[t].live = topic[t].live
                /\ \/ topic'[t].last = topic[t].last
                   \/ /\ topic'[t].last = p /\ t = forumReq[s].topic
                      /\ forum[forumReq[s].in].exists
      BY <2>1, ShowIs
    <2>6. PointersAreOwn'
      <3>1. ASSUME NEW t \in Topics, topic'[t].last # None
            PROVE  post'[topic'[t].last].of = t
        <4>1. CASE topic'[t].last = topic[t].last
          <5>1. topic[t].last \in Posts /\ post[topic[t].last].of = t
            BY <1>0, <3>1, <4>1 DEF PointersAreOwn, TopicRows
          <5> QED BY <1>a, <2>3, <4>1, <5>1
        <4>2. CASE /\ topic'[t].last = p /\ t = forumReq[s].topic
                   /\ forum[forumReq[s].in].exists
          BY <1>0, <2>1, <2>2, <4>2
        <4> QED BY <2>5, <4>1, <4>2
      <3> QED BY <1>0, <2>5, <3>1 DEF PointersAreOwn
    <2>7. TopicsAreListed'
      <3>1. ASSUME NEW q \in Posts, post[q].live
            PROVE  post'[q].live /\ (post[q].of # None => post'[q].of = post[q].of)
        BY <1>0, <2>1, <2>2, <2>3, <3>1
      <3>2. ASSUME NEW t \in Topics, topic[t].live
            PROVE  \E q \in Posts : post'[q].of = t /\ post'[q].live
        BY <1>0, <1>a, <3>1, <3>2 DEF TopicsAreListed
      <3> QED BY <1>0, <1>a, <2>5, <3>2 DEF TopicsAreListed
    <2>8. PostsAreOnTopics'
      BY <1>0, <2>1, <2>2 DEF PostsAreOnTopics
    <2> QED BY <2>3, <2>4, <2>5, <2>6, <2>7, <2>8, ForumStep
  <1>7. ASSUME NEW s \in ForumRequests, Forums!DeletePost(s)
        PROVE  ForumInv'
    <2> DEFINE t == forumReq[s].topic
               f == forumReq[s].in
               y == [post[forumReq[s].post] EXCEPT !.live = FALSE]
               ps == [post EXCEPT ![forumReq[s].post] = y]
               left == Forums!LivePosts(ps, t)
               x == [topic[t] EXCEPT !.last = Forums!Newest(left), !.live = @ /\ left # {}]
               ts == [topic EXCEPT ![t] = x]
               z == [forum[f] EXCEPT !.last = Forums!LastTopic(ts, f)]
    <2>1. /\ forumReq[s].op = "deletePost" /\ t \in Topics /\ f \in Boards
          /\ forumReq[s].post \in Posts /\ post[forumReq[s].post].of = t
          /\ forumReq' = Forums!Done(s)
      BY <1>0, <1>7 DEF Forums!DeletePost, RequestsKnown
    <2>2. /\ y \in PostRows /\ y.of = t /\ ~y.live
      BY <1>0, <2>1 DEF PostRows
    <2>3. CASE ~forum[f].exists
      <3>1. UNCHANGED <<forum, topic, post>>
        BY <1>7, <2>3 DEF Forums!DeletePost
      <3>2. forumReq' \in [ForumRequests -> RequestRows] /\ RequestsKnown'
        BY <2>1, <3>1, EndsRequest
      <3> QED BY <1>0, <3>1, <3>2, ForumStep DEF PointersAreOwn, PostsAreOnTopics, TopicsAreListed
    <2>4. CASE forum[f].exists
      <3>1. ps = [post EXCEPT ![forumReq[s].post].live = FALSE]
        BY <1>0, <2>1 DEF PostRows
      <3>2. ts = [topic EXCEPT ![t].last = Forums!Newest(left), ![t].live = @ /\ left # {}]
        BY <1>0, <2>1 DEF TopicRows
      <3>3. post' = ps /\ topic' = ts /\ forum' = [forum EXCEPT ![f] = z]
        BY <1>7, <2>4, <3>1, <3>2 DEF Forums!DeletePost, Forums!Cascades, ForumRows
      <3> HIDE DEF y
      <3>4. /\ ps \in [Posts -> PostRows]
            /\ \A q \in Posts : /\ ps[q].of = post[q].of
                                 /\ (ps[q].live => post[q].live)
                                 /\ (post[q].live /\ post[q].of # t => ps[q].live)
        BY <1>0, <2>1, <2>2
      <3> HIDE DEF ps
      <3>5. left \in SUBSET Posts /\ \A q \in Posts : q \in left <=> ps[q].of = t /\ ps[q].live
        BY DEF Forums!LivePosts
      <3> HIDE DEF left
      <3>6. left # {} => Forums!Newest(left) \in left
        BY <3>5, NewestIs
      <3>7. left = {} => Forums!Newest(left) = None
        BY DEF Forums!Newest
      <3>8. Forums!Newest(left) \in Posts \cup {None}
        BY <3>5, <3>6, <3>7
      <3>9. /\ x \in TopicRows /\ x.last = Forums!Newest(left) /\ x.in = topic[t].in
            /\ (x.live => topic[t].live /\ left # {})
        BY <1>0, <2>1, <3>8 DEF TopicRows
      <3> HIDE DEF x
      <3>10. /\ ts \in [Topics -> TopicRows] /\ ts[t] = x
             /\ \A u \in Topics \ {t} : ts[u] = topic[u]
        BY <1>0, <2>1, <3>9
      <3> HIDE DEF ts
      <3>11. Forums!LastTopic(ts, f) \in Topics \cup {None}
        BY <3>10, LastTopicIs
      <3>12. z \in ForumRows
        BY <1>0, <2>1, <3>11 DEF ForumRows
      <3> HIDE DEF z
      <3>13. forum' \in [Boards -> ForumRows]
        BY <1>0, <2>1, <3>3, <3>12
      <3>14. forumReq' \in [ForumRequests -> RequestRows] /\ RequestsKnown'
        BY <2>1, <3>3, <3>4, EndsRequest
      <3> HIDE DEF t, f
      <3>15. PointersAreOwn'
        <4>1. ASSUME NEW u \in Topics
              PROVE  /\ (ts[u].last # None => ps[ts[u].last].of = u)
                     /\ (ts[u].live => ts[u].in \in Boards)
          <5>1. CASE u = t
            <6>1. ts[u].live => ts[u].in \in Boards
              BY <1>0, <2>1, <3>9, <3>10, <5>1 DEF PointersAreOwn
            <6>2. ts[u].last # None => ps[ts[u].last].of = u
              BY <3>5, <3>6, <3>7, <3>9, <3>10, <5>1
            <6> QED BY <6>1, <6>2
          <5>2. CASE u # t
            <6>1. ts[u] = topic[u] /\ topic[u].last \in Posts \cup {None}
              BY <1>0, <3>10, <5>2 DEF TopicRows
            <6> QED BY <1>0, <3>4, <6>1 DEF PointersAreOwn
          <5> QED BY <5>1, <5>2
        <4> QED BY <3>3, <4>1 DEF PointersAreOwn
      <3>16. TopicsAreListed'
        <4>1. ASSUME NEW u \in Topics, ts[u].live
              PROVE  ts[u].last # None /\ \E q \in Posts : ps[q].of = u /\ ps[q].live
          <5>1. CASE u = t
            BY <1>a, <3>5, <3>6, <3>9, <3>10, <4>1, <5>1
          <5>2. CASE u # t
            BY <1>0, <3>4, <3>10, <4>1, <5>2 DEF TopicsAreListed
          <5> QED BY <5>1, <5>2
        <4> QED BY <3>3, <4>1 DEF TopicsAreListed
      <3>17. PostsAreOnTopics'
        BY <1>0, <3>3, <3>4 DEF PostsAreOnTopics
      <3> QED BY <3>3, <3>4, <3>10, <3>13, <3>14, <3>15, <3>16, <3>17, ForumStep
    <2> QED BY <2>3, <2>4
  <1>8. ASSUME NEW s \in ForumRequests, Forums!DeleteTopic(s) \/ Forums!TrashTopic(s)
        PROVE  ForumInv'
    <2> DEFINE t == forumReq[s].topic
               f == forumReq[s].in
    <2>1. /\ t \in Topics /\ f \in Boards /\ forumReq' = Forums!Done(s) /\ post' = post
      BY <1>0, <1>8 DEF Forums!DeleteTopic, Forums!TrashTopic, RequestsKnown
    <2>2. forumReq' \in [ForumRequests -> RequestRows] /\ RequestsKnown'
      BY <2>1, EndsRequest
    <2>3. CASE ~forum[f].exists
      <3>1. UNCHANGED <<forum, topic>>
        BY <1>8, <2>3 DEF Forums!DeleteTopic, Forums!TrashTopic
      <3> QED BY <1>0, <2>1, <2>2, <3>1, ForumStep DEF PointersAreOwn, PostsAreOnTopics,
                                                       TopicsAreListed
    <2>4. CASE forum[f].exists
      <3> DEFINE dead == [topic[t] EXCEPT !.live = FALSE]
                 moved == [topic[t] EXCEPT !.in = Trash]
      <3>1. /\ dead \in TopicRows /\ dead.last = topic[t].last /\ ~dead.live
            /\ moved \in TopicRows /\ moved.last = topic[t].last /\ moved.live = topic[t].live
            /\ moved.in = Trash
        BY <1>0, <1>a, <2>1 DEF TopicRows
      <3>2. PICK x \in {dead, moved} : topic' = [topic EXCEPT ![t] = x]
        <4>1. CASE Forums!DeleteTopic(s)
          BY <1>0, <2>4, <4>1 DEF Forums!DeleteTopic
        <4>2. CASE Forums!TrashTopic(s)
          BY <1>0, <2>4, <4>2 DEF Forums!TrashTopic
        <4> QED BY <1>8, <4>1, <4>2
      <3>3. forum' = [forum EXCEPT ![f] = [forum[f] EXCEPT !.last = Forums!LastTopic(topic', f)]]
        BY <1>0, <1>8, <2>4 DEF Forums!DeleteTopic, Forums!TrashTopic
      <3>4. /\ x \in TopicRows /\ x.last = topic[t].last
            /\ (x.live => topic[t].live /\ x.in \in Boards)
        BY <1>a, <3>1
      <3> HIDE DEF dead, moved, t, f
      <3>5. /\ topic' \in [Topics -> TopicRows]
            /\ \A u \in Topics : /\ topic'[u].last = topic[u].last
                                  /\ (topic'[u].live => topic[u].live)
                                  /\ (topic'[u].live => topic'[u].in \in Boards)
        BY <1>0, <2>1, <3>2, <3>4 DEF PointersAreOwn
      <3>6. forum' \in [Boards -> ForumRows]
        <4>1. Forums!LastTopic(topic', f) \in Topics \cup {None}
          BY <3>5, LastTopicIs
        <4>2. [forum[f] EXCEPT !.last = Forums!LastTopic(topic', f)] \in ForumRows
          BY <1>0, <2>1, <4>1 DEF ForumRows
        <4> QED BY <1>0, <2>1, <3>3, <4>2
      <3>7. PointersAreOwn' /\ PostsAreOnTopics' /\ TopicsAreListed'
        BY <1>0, <2>1, <3>5 DEF PointersAreOwn, PostsAreOnTopics, TopicsAreListed
      <3> QED BY <1>0, <2>1, <2>2, <3>5, <3>6, <3>7, ForumStep
    <2> QED BY <2>3, <2>4
  <1>9. ASSUME NEW f \in Boards, Forums!DeleteForum(f)
        PROVE  ForumInv'
    <2>1. /\ UNCHANGED <<post, forumReq>> /\ forum' = [forum EXCEPT ![f] = Forums!Boardless]
          /\ topic' = [t \in Topics |-> IF topic[t].in = f THEN [topic[t] EXCEPT !.in = Trash]
                                         ELSE topic[t]]
      BY <1>9 DEF Forums!DeleteForum
    <2>2. forum' \in [Boards -> ForumRows]
      BY <1>0, <2>1 DEF Forums!Boardless, ForumRows
    <2>3. ASSUME NEW t \in Topics
          PROVE  /\ topic'[t] \in TopicRows /\ topic'[t].last = topic[t].last
                 /\ topic'[t].live = topic[t].live
                 /\ topic'[t].in = topic[t].in \/ topic'[t].in \in Boards
      <3>1. topic'[t] = topic[t] \/ topic'[t] = [topic[t] EXCEPT !.in = Trash]
        BY <2>1
      <3> QED BY <1>0, <1>a, <3>1 DEF TopicRows
    <2>4. topic' \in [Topics -> TopicRows]
      <3>1. topic' = [t \in Topics |-> topic'[t]]
        BY <2>1
      <3> QED BY <2>3, <3>1
    <2>5. PointersAreOwn' /\ PostsAreOnTopics' /\ TopicsAreListed'
      BY <1>0, <2>1, <2>3 DEF PointersAreOwn, PostsAreOnTopics, TopicsAreListed
    <2>6. RequestsKnown'
      BY <1>0, <2>1 DEF RequestsKnown
    <2> QED BY <1>0, <2>1, <2>2, <2>4, <2>5, <2>6, ForumStep
  <1>10. ASSUME NEW s \in ForumRequests, Forums!Abort(s)
         PROVE  ForumInv'
    <2>1. forumReq' = Forums!Done(s) /\ UNCHANGED <<forum, topic, post>>
      BY <1>10 DEF Forums!Abort
    <2>2. forumReq' \in [ForumRequests -> RequestRows] /\ RequestsKnown'
      BY <2>1, EndsRequest
    <2> QED BY <1>0, <2>1, <2>2, ForumStep DEF PointersAreOwn, PostsAreOnTopics, TopicsAreListed
  <1>11. CASE UNCHANGED Forums!vars
    BY <1>0, <1>11, ForumStep DEF Forums!vars, PointersAreOwn, PostsAreOnTopics, RequestsKnown,
                                  TopicsAreListed
  <1> QED BY <1>1, <1>2, <1>3, <1>4, <1>5, <1>6, <1>7, <1>8, <1>9, <1>10, <1>11 DEF Forums!Next

-----------------------------------------------------------------------------
(***************************************************************************)
(* Votes.  The strengthening: a toggle in flight is one of a member, so    *)
(* what it finds it can remove, and what it does not find it can add.      *)
(***************************************************************************)
TogglesKnown ==
    \A t \in Toggles :
       toggle[t] # Votes!Idle => toggle[t].op \in {"remove", "add"} /\ toggle[t].by \in Voters

VotesInv == Votes!TypeOK /\ TogglesKnown /\ VoteCountMatches

LEMMA VotesCardinality ==
  ASSUME NEW S
  PROVE  Votes!Cardinality(S) = Cardinality(S) /\ (Votes!IsFiniteSet(S) <=> IsFiniteSet(S))
  BY DEF Votes!Cardinality, Cardinality, Votes!IsFiniteSet, IsFiniteSet

LEMMA VotesInit ==
  ASSUME Votes!Init
  PROVE  VotesInv
  <1>1. Cardinality({}) = 0
    BY FS_EmptySet
  <1> QED BY <1>1, VotesCardinality
          DEF Votes!Init, VotesInv, Votes!TypeOK, TogglesKnown, VoteCountMatches,
              Votes!VoteCountMatches, Votes!Idle, Votes!Ops

LEMMA VotesNext ==
  ASSUME Votes!Assumptions, VotesInv, [Votes!Next]_(Votes!vars)
  PROVE  VotesInv'
  <1>1. /\ vote \subseteq Voters /\ voteCount = Cardinality(vote) /\ voteCount \in Nat
        /\ toggle \in [Toggles -> [op : Votes!Ops, by : Voters \cup {None}]]
        /\ TogglesKnown
    BY VotesCardinality DEF VotesInv, Votes!TypeOK, VoteCountMatches, Votes!VoteCountMatches
  <1>2. IsFiniteSet(vote)
    BY <1>1, VotesCardinality, FS_Subset DEF Votes!Assumptions
  <1>3. ASSUME NEW t \in Toggles, toggle[t] # Votes!Idle,
               toggle' = [toggle EXCEPT ![t] = Votes!Idle]
        PROVE  /\ toggle' \in [Toggles -> [op : Votes!Ops, by : Voters \cup {None}]]
               /\ TogglesKnown'
    BY <1>1, <1>3 DEF TogglesKnown, Votes!Idle, Votes!Ops
  <1>4. ASSUME voteCount' = Cardinality(vote')
        PROVE  VoteCountMatches'
    BY <1>4, VotesCardinality DEF VoteCountMatches, Votes!VoteCountMatches
  <1>5. ASSUME NEW t \in Toggles, NEW u \in Voters, Votes!ToggleRead(t, u)
        PROVE  VotesInv'
    <2>1. UNCHANGED <<vote, voteCount>>
      BY <1>5 DEF Votes!ToggleRead
    <2>2. /\ toggle' \in [Toggles -> [op : Votes!Ops, by : Voters \cup {None}]]
          /\ TogglesKnown'
      BY <1>1, <1>5 DEF Votes!ToggleRead, TogglesKnown, Votes!Ops
    <2> QED BY <1>1, <1>4, <2>1, <2>2 DEF VotesInv, Votes!TypeOK
  <1>6. ASSUME NEW t \in Toggles, Votes!ToggleWrite(t)
        PROVE  VotesInv'
    <2>1. /\ toggle[t] # Votes!Idle /\ toggle' = [toggle EXCEPT ![t] = Votes!Idle]
          /\ toggle[t].op \in {"remove", "add"} /\ toggle[t].by \in Voters
      BY <1>1, <1>6 DEF Votes!ToggleWrite, TogglesKnown
    <2>2. CASE ~Votes!Finds(t)
      BY <1>1, <1>3, <1>4, <1>6, <2>1, <2>2 DEF Votes!ToggleWrite, VotesInv, Votes!TypeOK
    <2>3. CASE Votes!Finds(t) /\ toggle[t].op = "remove"
      <3>1. /\ vote' = vote \ {toggle[t].by} /\ voteCount' = voteCount - 1
            /\ toggle[t].by \in vote
        BY <1>6, <2>3 DEF Votes!ToggleWrite, Votes!Finds
      <3>2. Cardinality(vote \ {toggle[t].by}) = Cardinality(vote) - 1
        BY <1>2, <3>1, FS_RemoveElement
      <3>3. Cardinality(vote \ {toggle[t].by}) \in Nat
        BY <1>2, FS_Subset, FS_CardinalityType
      <3>4. VoteCountMatches'
        BY <1>1, <1>4, <3>1, <3>2
      <3> QED BY <1>1, <1>3, <2>1, <3>1, <3>2, <3>3, <3>4 DEF VotesInv, Votes!TypeOK
    <2>4. CASE Votes!Finds(t) /\ toggle[t].op # "remove"
      <3>1. /\ vote' = vote \cup {toggle[t].by} /\ voteCount' = voteCount + 1
            /\ toggle[t].by \notin vote
        BY <1>6, <2>1, <2>4 DEF Votes!ToggleWrite, Votes!Finds
      <3>2. Cardinality(vote \cup {toggle[t].by}) = Cardinality(vote) + 1
        BY <1>2, <3>1, FS_AddElement
      <3>3. VoteCountMatches'
        BY <1>1, <1>4, <3>1, <3>2
      <3>4. vote' \subseteq Voters
        BY <1>1, <2>1, <3>1
      <3>5. voteCount' \in Nat
        BY <1>1, <3>1
      <3> QED BY <1>3, <2>1, <3>3, <3>4, <3>5 DEF VotesInv, Votes!TypeOK
    <2> QED BY <2>2, <2>3, <2>4
  <1>7. ASSUME NEW t \in Toggles, Votes!Abort(t)
        PROVE  VotesInv'
    BY <1>1, <1>3, <1>4, <1>7 DEF Votes!Abort, VotesInv, Votes!TypeOK
  <1>8. CASE UNCHANGED Votes!vars
    BY <1>1, <1>4, <1>8 DEF Votes!vars, VotesInv, Votes!TypeOK, TogglesKnown
  <1> QED BY <1>5, <1>6, <1>7, <1>8 DEF Votes!Next

(***************************************************************************)
(* The components side by side.                                            *)
(***************************************************************************)
ContentInv == MembersInv /\ Granting!OnlyDownloads /\ LinksInv /\ ImagesInv /\ ForumInv /\ VotesInv

LEMMA ContentInitially ==
  ASSUME Init
  PROVE  ContentInv
  <1>1. Links!Assumptions /\ Images!Assumptions /\ Forums!Assumptions /\ Votes!Assumptions
    BY LinksAssumptions, ImagesAssumptions, ForumAssumptions, VotesAssumptions
  <1>2. Down!Init /\ Links!Init /\ Images!Init /\ Forums!Init /\ Votes!Init
    BY DEF Init
  <1> QED BY <1>1, <1>2, MembersInitially, DownloadsInit, LinksInit, ImagesInit, ForumInit,
             VotesInit DEF ContentInv

LEMMA ContentStep ==
  ASSUME ContentInv, [Next]_vars
  PROVE  ContentInv'
  <1>1. Links!Assumptions /\ Images!Assumptions /\ Forums!Assumptions /\ Votes!Assumptions
    BY LinksAssumptions, ImagesAssumptions, ForumAssumptions, VotesAssumptions
  <1>2. /\ [Down!Next]_(Down!vars) /\ [Links!Next]_(Links!vars) /\ [Images!Next]_(Images!vars)
        /\ [Forums!Next]_(Forums!vars) /\ [Votes!Next]_(Votes!vars)
    BY EachMovesAlone
  <1>3. MembersInv /\ Granting!OnlyDownloads /\ LinksInv /\ ImagesInv /\ ForumInv /\ VotesInv
    BY DEF ContentInv
  <1>4. MembersInv'
    BY <1>3, MembersStep
  <1>5. Granting!OnlyDownloads'
    BY <1>2, <1>3, DownloadsNext
  <1>6. LinksInv'
    BY <1>1, <1>2, <1>3, LinksNext
  <1>7. ImagesInv'
    BY <1>1, <1>2, <1>3, ImagesNext
  <1>8. ForumInv'
    BY <1>1, <1>2, <1>3, ForumNext
  <1>9. VotesInv'
    BY <1>1, <1>2, <1>3, VotesNext
  <1> QED BY <1>4, <1>5, <1>6, <1>7, <1>8, <1>9 DEF ContentInv

LEMMA ContentInvariant == Spec => []ContentInv
  <1>1. Init => ContentInv
    BY ContentInitially
  <1>2. ContentInv /\ [Next]_vars => ContentInv'
    BY ContentStep
  <1> QED BY <1>1, <1>2, PTL DEF Spec

(***************************************************************************)
(* Types of the whole site: every row, slot and pointer stays one the code *)
(* can have written, in every interleaving of the nine components.         *)
(***************************************************************************)
THEOREM SiteTypeCorrect == Spec => []TypeOK
  <1>1. ContentInv => TypeOK
    BY DownloadsProved
       DEF ContentInv, MembersInv, SeatsInv, RecoveryInv, InactivityInv, LinksInv, ImagesInv,
           ForumInv, VotesInv, TypeOK
  <1> QED BY <1>1, ContentInvariant, PTL

(***************************************************************************)
(* Balances are exactly what the completed grants moved (downloads.ts:132) *)
(* and the ledger adds up to them (ratio.ts), beside everything else the   *)
(* site does.                                                              *)
(***************************************************************************)
THEOREM SiteBalancesTheorem == Spec => []BalancesMatchGrants
  <1>1. ContentInv => BalancesMatchGrants
    BY DownloadsProved DEF ContentInv
  <1> QED BY <1>1, ContentInvariant, PTL

(***************************************************************************)
(* The ledger adds up to the balances, exempt grants included (ratio.ts).  *)
(***************************************************************************)
THEOREM SiteLedgerTheorem == Spec => []LedgerExplainsBalances
  <1>1. ContentInv => LedgerExplainsBalances
    BY DownloadsProved DEF ContentInv
  <1> QED BY <1>1, ContentInvariant, PTL

(***************************************************************************)
(* A link's uptime segment is open exactly while the link is PASS          *)
(* (linkHealth.ts:154), whatever writers race and however often the        *)
(* compare-and-swap is retried.                                            *)
(***************************************************************************)
THEOREM SegmentsTheorem == Spec => []SegmentOpenWhilePass
  <1>1. ContentInv => SegmentOpenWhilePass
    BY DEF ContentInv, LinksInv
  <1> QED BY <1>1, ContentInvariant, PTL

(***************************************************************************)
(* No two cycles import one row at a time (remoteImage.ts:50), for any     *)
(* number of overlapping cycles, of crashes and of retries.                *)
(***************************************************************************)
THEOREM OneImportTheorem == Spec => []OneImportAtATime
  <1>1. ContentInv => OneImportAtATime
    BY DEF ContentInv, ImagesInv, ImagesHeld, HeldAlone, OneImportAtATime,
           Images!OneImportAtATime, Images!Holds, Engaged
  <1> QED BY <1>1, ContentInvariant, PTL

(***************************************************************************)
(* No empty topic is listed (forum.ts:364, #598): a live topic has a live  *)
(* post and its pointer is at a post of its own, whatever replies, deletes *)
(* and moves race.                                                         *)
(***************************************************************************)
THEOREM TopicsTheorem == Spec => []LiveTopicsHavePosts
  <1>1. ContentInv => LiveTopicsHavePosts
    BY DEF ContentInv, ForumInv, TopicsAreListed, PointersAreOwn, LiveTopicsHavePosts,
           Forums!LiveTopicsHavePosts, Forums!LivePosts
  <1> QED BY <1>1, ContentInvariant, PTL

(***************************************************************************)
(* The vote counter of a request is the number of its votes                *)
(* (requestLifecycle.ts:200), for any number of toggles in flight.         *)
(***************************************************************************)
THEOREM VoteCountTheorem == Spec => []VoteCountMatches
  <1>1. ContentInv => VoteCountMatches
    BY DEF ContentInv, VotesInv
  <1> QED BY <1>1, ContentInvariant, PTL
=============================================================================
