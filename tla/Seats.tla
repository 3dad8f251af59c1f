------------------------------- MODULE Seats -------------------------------
(***************************************************************************)
(* The seats of the site: an enabled account takes one (modules/settings,  *)
(* countSeats), self-registration may take only a free one (modules/auth,  *)
(* registerUser), staff may exceed the limit by creating or re-enabling an *)
(* account (modules/user createUser, routes/api/user enable).              *)
(*                                                                         *)
(* A registration is a transaction of statements: it takes an advisory     *)
(* lock, counts, and creates the account. Its claim of an invite is in     *)
(* module Invites; losing it here is an Abort.                             *)
(***************************************************************************)
EXTENDS Integers, FiniteSets

CONSTANTS People,         \* whoever may have an account
          Registrations,  \* slots for registrations in flight
          Limits,         \* the values staff give maxUsers
          MaxUncapped,    \* bound: the accounts staff create or re-enable
          None            \* nobody

VARIABLES account,   \* the User row of a person: none, enabled or disabled
          maxUsers,  \* SiteSettings.maxUsers
          reg,       \* the registrations in flight
          highest,   \* the highest limit there has been
          uncapped   \* the seats staff have opened

vars == <<account, maxUsers, reg, highest, uncapped>>

\* What the constants are assumed to be.
Assumptions == IsFiniteSet(People) /\ Limits \subseteq Nat /\ MaxUncapped \in Nat /\ None \notin People

Statuses == {"none", "enabled", "disabled"}
Steps == {"idle", "waiting", "locked", "counted"}
NoRegistration == [step |-> "idle", who |-> None, limit |-> 0]

TypeOK ==
    /\ account \in [People -> Statuses]
    /\ maxUsers \in Limits /\ highest \in Limits
    /\ reg \in [Registrations -> [step : Steps, who : People \cup {None}, limit : Limits \cup {0}]]
    /\ uncapped \in 0 .. MaxUncapped

Init ==
    /\ account \in [People -> {"none", "enabled"}]
    /\ maxUsers \in Limits
    /\ highest = maxUsers
    /\ Cardinality({p \in People : account[p] = "enabled"}) <= maxUsers
    /\ reg = [t \in Registrations |-> NoRegistration]
    /\ uncapped = 0

\* countSeats, of the rows committed when its statement begins.
SeatsTaken == Cardinality({p \in People : account[p] = "enabled"})

Inside == {"locked", "counted"}

\* Mutant: the seats are counted without the lock.
MayEnterAlways(t) == TRUE

\* pg_advisory_xact_lock is free.
MayEnter(t) == \A u \in Registrations : reg[u].step \notin Inside

Ended(t) == [reg EXCEPT ![t] = NoRegistration]

\* The route reads the limit and the duplicate check finds nobody.
RegisterRead(t, p) ==
    /\ reg[t] = NoRegistration
    /\ account[p] = "none"
    /\ reg' = [reg EXCEPT ![t] = [step |-> "waiting", who |-> p, limit |-> maxUsers]]
    /\ UNCHANGED <<account, maxUsers, highest, uncapped>>

RegisterLock(t) ==
    /\ reg[t].step = "waiting"
    /\ MayEnter(t)
    /\ reg' = [reg EXCEPT ![t].step = "locked"]
    /\ UNCHANGED <<account, maxUsers, highest, uncapped>>

\* A full site refuses before any write.
RegisterCount(t) ==
    /\ reg[t].step = "locked"
    /\ reg' = IF SeatsTaken >= reg[t].limit THEN Ended(t)
              ELSE [reg EXCEPT ![t].step = "counted"]
    /\ UNCHANGED <<account, maxUsers, highest, uncapped>>

\* The unique keys refuse an account somebody else has created meanwhile.
RegisterCommit(t) ==
    /\ reg[t].step = "counted"
    /\ reg' = Ended(t)
    /\ IF account[reg[t].who] = "none"
       THEN account' = [account EXCEPT ![reg[t].who] = "enabled"]
       ELSE UNCHANGED account
    /\ UNCHANGED <<maxUsers, highest, uncapped>>

\* A lapsed invite, an error or a crash rolls the registration back.
Abort(t) ==
    /\ reg[t] # NoRegistration
    /\ reg' = Ended(t)
    /\ UNCHANGED <<account, maxUsers, highest, uncapped>>

StaffOpen(p) ==
    /\ account[p] # "enabled"
    /\ uncapped < MaxUncapped
    /\ account' = [account EXCEPT ![p] = "enabled"]
    /\ uncapped' = uncapped + 1
    /\ UNCHANGED <<maxUsers, highest, reg>>

\* By staff or by the inactivity sweep.
Disable(p) ==
    /\ account[p] = "enabled"
    /\ account' = [account EXCEPT ![p] = "disabled"]
    /\ UNCHANGED <<maxUsers, highest, reg, uncapped>>

SetLimit(n) ==
    /\ maxUsers' = n
    /\ highest' = IF n > highest THEN n ELSE highest
    /\ UNCHANGED <<account, reg, uncapped>>

Next ==
    \/ \E t \in Registrations :
          \/ \E p \in People : RegisterRead(t, p)
          \/ RegisterLock(t) \/ RegisterCount(t) \/ RegisterCommit(t) \/ Abort(t)
    \/ \E p \in People : StaffOpen(p) \/ Disable(p)
    \/ \E n \in Limits : SetLimit(n)

Spec == Init /\ [][Next]_vars

-----------------------------------------------------------------------------
(* Registrations never oversell the site (auth.ts:414, ADR-0040): however  *)
(* many race for the last seat, the seats taken exceed every limit there   *)
(* has been by no more than the accounts staff let in past it.             *)
SeatsNeverOversold == SeatsTaken <= highest + uncapped
=============================================================================
