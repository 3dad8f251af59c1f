----------------------------- MODULE Leadership -----------------------------
(***************************************************************************)
(* The leader of one community: the handoff by offer and answer            *)
(* (modules/communityLeadership.ts) beside the staff form that writes the  *)
(* whole row (routes/api/communities PUT /:id) and edits of the curators.  *)
(*                                                                         *)
(* Every operation reads the row, decides, and writes it in one statement. *)
(* Only the answer and the withdrawal repeat in the write what they read;  *)
(* the staff form does not.                                                *)
(***************************************************************************)
EXTENDS Naturals, Sequences

CONSTANTS Members,    \* the members of the site
          Requests,   \* slots for answers and withdrawals in flight
          Forms,      \* slots for staff forms in flight
          Lists,      \* bound: the lists of curators a form may send
          Unsteady,   \* bound: the members who are disabled or leave the curators
          None,       \* SQL null
          MaxEvents   \* bound: rows of the leadership log

VARIABLES leader, curators,  \* Community.leaderId, Community.curators
          offer,             \* leaderOfferToId, whether it is within its TTL, who made it
          open,              \* registrationStatus = open, which no form here changes
          disabled,          \* User.disabled
          log,               \* CommunityLeadershipEvent
          req, form          \* the requests and the forms in flight

vars == <<leader, curators, offer, open, disabled, log, req, form>>

\* What the constants are assumed to be.
Assumptions ==
    /\ None \notin Members
    /\ Lists \subseteq SUBSET Members /\ Unsteady \subseteq Members
    /\ MaxEvents \in Nat

Offers == [to : Members \cup {None}, fresh : BOOLEAN, by : Members \cup {None}]

\* LEADER_OFFER_CLEARED.
NoOffer == [to |-> None, fresh |-> FALSE, by |-> None]

Events == [kind : {"handed_off", "assigned", "cleared"}, from : Members \cup {None},
           to : Members \cup {None}]

Idle == [op |-> "idle", by |-> None, read |-> None]

\* read: the leader, or for a withdrawal the successor, that the request read.
ReqStates ==
    [op : {"idle", "withdraw", "accept", "decline"}, by : Members \cup {None},
     read : Members \cup {None}]

NoForm == [sent |-> FALSE, leads |-> FALSE, to |-> None, read |-> None]

\* leads: the form names a leader, to or nobody; read: the leader it found.
FormStates ==
    [sent : BOOLEAN, leads : BOOLEAN, to : Members \cup {None}, read : Members \cup {None}]

TypeOK ==
    /\ leader \in Members \cup {None} /\ curators \subseteq Members
    /\ offer \in Offers /\ open \in BOOLEAN /\ disabled \subseteq Members
    /\ log \in Seq(Events) /\ Len(log) <= MaxEvents
    /\ req \in [Requests -> ReqStates] /\ form \in [Forms -> FormStates]

Init ==
    /\ leader \in Members
    /\ curators = Members
    /\ offer = NoOffer /\ open \in BOOLEAN /\ disabled = {} /\ log = <<>>
    /\ req = [s \in Requests |-> Idle] /\ form = [s \in Forms |-> NoForm]

\* liveLeaderOfferWhere.
LiveOffer ==
    /\ offer.to # None /\ offer.fresh
    /\ leader # None /\ leader \notin disabled
    /\ offer.to \in curators \ disabled

\* Mutant: the write does not ask whether the leader is still the one read.
AnswerClaimsAnyLeader(s) == LiveOffer /\ offer.to = req[s].by

\* The conditions answerLeaderOffer repeats in its write.
AnswerClaims(s) == LiveOffer /\ offer.to = req[s].by /\ leader = req[s].read

Record(kind, from, to) ==
    /\ Len(log) < MaxEvents
    /\ log' = Append(log, [kind |-> kind, from |-> from, to |-> to])

Done(s) == req' = [req EXCEPT ![s] = Idle]

-----------------------------------------------------------------------------
(* The handoff.                                                            *)

\* The write is the check: it repeats all that was read before it.
OfferLeadership(caller, to) ==
    /\ leader = caller /\ to # caller
    /\ to \in curators \ disabled
    /\ offer' = [to |-> to, fresh |-> TRUE, by |-> caller]
    /\ UNCHANGED <<leader, curators, open, disabled, log, req, form>>

WithdrawRead(s, caller) ==
    /\ req[s] = Idle /\ leader = caller /\ LiveOffer
    /\ req' = [req EXCEPT ![s] = [op |-> "withdraw", by |-> caller, read |-> offer.to]]
    /\ UNCHANGED <<leader, curators, offer, open, disabled, log, form>>

Withdraw(s) ==
    /\ req[s].op = "withdraw"
    /\ offer' = IF LiveOffer /\ leader = req[s].by /\ offer.to = req[s].read
                THEN NoOffer ELSE offer
    /\ Done(s)
    /\ UNCHANGED <<leader, curators, open, disabled, log, form>>

AnswerRead(s, caller, op) ==
    /\ req[s] = Idle /\ op \in {"accept", "decline"}
    /\ LiveOffer /\ offer.to = caller
    /\ req' = [req EXCEPT ![s] = [op |-> op, by |-> caller, read |-> leader]]
    /\ UNCHANGED <<leader, curators, offer, open, disabled, log, form>>

Accept(s) ==
    /\ req[s].op = "accept"
    /\ AnswerClaims(s)
    /\ leader' = req[s].by
    /\ offer' = NoOffer
    /\ Record("handed_off", req[s].read, req[s].by)
    /\ Done(s)
    /\ UNCHANGED <<curators, open, disabled, form>>

Decline(s) ==
    /\ req[s].op = "decline"
    /\ AnswerClaims(s)
    /\ offer' = NoOffer
    /\ Done(s)
    /\ UNCHANGED <<leader, curators, open, disabled, log, form>>

\* The write matched nothing: there is no pending offer to the caller.
AnswerLost(s) ==
    /\ req[s].op \in {"accept", "decline"}
    /\ ~AnswerClaims(s)
    /\ Done(s)
    /\ UNCHANGED <<leader, curators, offer, open, disabled, log, form>>

-----------------------------------------------------------------------------
(* The staff form: it reads the row, and later writes the leader it sends. *)

\* leavesLeaderless refuses to leave any but an open community without a leader.
FormRead(s, leads, to) ==
    /\ form[s] = NoForm
    /\ IF leads THEN to # None \/ open ELSE to = None
    /\ form' = [form EXCEPT ![s] = [sent |-> TRUE, leads |-> leads, to |-> to, read |-> leader]]
    /\ UNCHANGED <<leader, curators, offer, open, disabled, log, req>>

\* leaderCuratorWrite: what the form leaves of the curators, whose list it may send.
CuratorsAfter(s, listed, ids) ==
    LET kept == IF form[s].leads THEN form[s].to ELSE form[s].read
    IN IF listed THEN ids \cup ({kept} \ {None})
       ELSE IF ~form[s].leads THEN curators
       ELSE IF kept # None THEN curators \cup {kept}
       ELSE curators \ {form[s].read}

\* leaderChangeWrite: a leader other than the one read ends the offer and is logged.
FormWrite(s, listed, ids) ==
    /\ form[s].sent
    /\ LET to == form[s].to
           was == form[s].read
       IN /\ leader' = IF form[s].leads THEN to ELSE leader
          /\ curators' = CuratorsAfter(s, listed, ids)
          /\ IF ~form[s].leads \/ to = was THEN UNCHANGED <<offer, log>>
             ELSE /\ offer' = NoOffer
                  /\ Record(IF to = None THEN "cleared" ELSE "assigned", was, to)
    /\ form' = [form EXCEPT ![s] = NoForm]
    /\ UNCHANGED <<open, disabled, req>>

-----------------------------------------------------------------------------
(* The surroundings: curators come and go, staff disable and re-enable     *)
(* members, an offer's seven days end.                                     *)

\* DELETE /:id/curators refuses the leader (communities.ts:425). Its read and
\* its write are one step here: what matters below is that the lists change.
EditCurators(u) ==
    /\ curators' = IF u \in curators THEN curators \ {u} ELSE curators \cup {u}
    /\ u # leader
    /\ UNCHANGED <<leader, offer, open, disabled, log, req, form>>

SetDisabled(u) ==
    /\ disabled' = IF u \in disabled THEN disabled \ {u} ELSE disabled \cup {u}
    /\ UNCHANGED <<leader, curators, offer, open, log, req, form>>

OfferLapses ==
    /\ offer.fresh
    /\ offer' = [offer EXCEPT !.fresh = FALSE]
    /\ UNCHANGED <<leader, curators, open, disabled, log, req, form>>

Next ==
    \/ \E u, v \in Members : OfferLeadership(u, v)
    \/ \E u \in Unsteady : EditCurators(u) \/ SetDisabled(u)
    \/ OfferLapses
    \/ \E s \in Requests :
          \/ \E u \in Members :
                \/ WithdrawRead(s, u)
                \/ \E op \in {"accept", "decline"} : AnswerRead(s, u, op)
          \/ Withdraw(s) \/ Accept(s) \/ Decline(s) \/ AnswerLost(s)
    \/ \E s \in Forms :
          \/ \E leads \in BOOLEAN, to \in Members \cup {None} : FormRead(s, leads, to)
          \/ FormWrite(s, FALSE, {}) \/ \E ids \in Lists : FormWrite(s, TRUE, ids)

Spec == Init /\ [][Next]_vars

-----------------------------------------------------------------------------
(* A handoff in the leadership log is one that happened: whatever staff or *)
(* the leader did since the successor's request read the row, the member   *)
(* it names as outgoing led until that step, and the successor leads after *)
(* it (communityLeadership.ts:260, ADR-0054).                              *)
HandoffsHappened ==
    [][\A n \in DOMAIN log' \ DOMAIN log :
          log'[n].kind = "handed_off"
              => /\ log'[n].from = leader /\ log'[n].to = leader']_vars

(* "every write that moves `leaderId` clears the offer ..., so a stored     *)
(* offer is always the current leader's" (communityLeadership.ts:90).      *)
OffersAreTheLeaders == offer.to # None => offer.by = leader
=============================================================================
