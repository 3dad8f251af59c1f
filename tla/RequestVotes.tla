---------------------------- MODULE RequestVotes ----------------------------
(***************************************************************************)
(* The votes for one request (modules/requestLifecycle.ts toggleVote): a   *)
(* toggle reads whether the member's vote is there, and then removes it or *)
(* adds it and moves the counter, in one transaction. A second toggle of   *)
(* the same member may come between.                                       *)
(***************************************************************************)
EXTENDS Integers, FiniteSets

CONSTANTS Members,
          Toggles,  \* slots for toggles in flight
          None      \* nobody

VARIABLES vote,       \* the members with a RequestVote row
          voteCount,  \* Request.voteCount
          toggle      \* the toggles in flight

vars == <<vote, voteCount, toggle>>

\* What the constants are assumed to be.
Assumptions == IsFiniteSet(Members) /\ None \notin Members

Idle == [op |-> "idle", by |-> None]
Ops == {"idle", "remove", "add"}

TypeOK ==
    /\ vote \subseteq Members
    /\ voteCount \in Nat
    /\ toggle \in [Toggles -> [op : Ops, by : Members \cup {None}]]

\* A request begins without votes.
Init ==
    /\ vote = {} /\ voteCount = 0
    /\ toggle = [t \in Toggles |-> Idle]

ToggleRead(t, u) ==
    /\ toggle[t] = Idle
    /\ toggle' = [toggle EXCEPT ![t] = [op |-> IF u \in vote THEN "remove" ELSE "add", by |-> u]]
    /\ UNCHANGED <<vote, voteCount>>

\* Mutant: the write does not care what has become of the vote (deleteMany, upsert).
FindsAnyway(t) == TRUE

\* The delete finds the row it was to delete, or the insert none in its way.
Finds(t) == toggle[t].op = "remove" <=> toggle[t].by \in vote

\* Otherwise P2025 or P2002 rolls the counter back and the caller is told.
ToggleWrite(t) ==
    /\ toggle[t] # Idle
    /\ IF ~Finds(t) THEN UNCHANGED <<vote, voteCount>>
       ELSE IF toggle[t].op = "remove"
       THEN vote' = vote \ {toggle[t].by} /\ voteCount' = voteCount - 1
       ELSE vote' = vote \cup {toggle[t].by} /\ voteCount' = voteCount + 1
    /\ toggle' = [toggle EXCEPT ![t] = Idle]

\* An error or a crash.
Abort(t) ==
    /\ toggle[t] # Idle
    /\ toggle' = [toggle EXCEPT ![t] = Idle]
    /\ UNCHANGED <<vote, voteCount>>

Next == \E t \in Toggles : (\E u \in Members : ToggleRead(t, u)) \/ ToggleWrite(t) \/ Abort(t)

Spec == Init /\ [][Next]_vars

-----------------------------------------------------------------------------
(* The counter a request is sorted by is the number of its votes           *)
(* (requestLifecycle.ts:200, #756), whatever toggles of one member race.   *)
VoteCountMatches == voteCount = Cardinality(vote)
=============================================================================
