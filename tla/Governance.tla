----------------------------- MODULE Governance -----------------------------
(* One governance proposal and the requests that race on its row            *)
(* (src/governance). A request is a call with its own entity: read, check,  *)
(* change, save. A save writes every column of the entity, the ones another *)
(* request has changed since the read too. Decimal columns come back as     *)
(* text from Postgres and as numbers from SQLite, the two databases the     *)
(* application can be configured for, and no column has a transformer:      *)
(* `+` joins texts, and a joined text is refused by a decimal column and is *)
(* NaN in a comparison.                                                     *)
EXTENDS Integers, FiniteSets, Functions

CONSTANTS
  Users,        \* the users with an account
  Proposer,     \* the user whose proposal this is
  Holding,      \* token balance of each user, None where there is no row
  None,
  Calls,        \* requests that can be under way at the same time
  MinTokens,    \* MIN_TOKEN_THRESHOLD
  Quorum,       \* QUORUM_PERCENTAGE
  PassPercent,  \* passThresholdVotes
  Period,       \* voting period
  Terms,        \* bound: delegation periods asked for
  MaxStarts,    \* bound: requests on the proposal
  MaxDelegations, \* bound: delegations made
  MaxNow        \* bound: the last instant considered

(* Users hold amounts that are not negative, or have no row; periods are     *)
(* lengths of time and the quorum is a percentage.                           *)
Assumptions ==
  /\ Proposer \in Users /\ Holding \in [Users -> Nat \cup {None}]
  /\ Terms \subseteq Nat /\ {Quorum, Period, MaxNow, MaxStarts} \subseteq Nat

VARIABLES
  textDecimals, \* the database returns decimals as text
  now,
  proposal,     \* the row
  votes,        \* governance_votes
  delegations,  \* vote_delegations
  call,         \* requests under way
  started,      \* how many requests there have been (MaxStarts)
  stale         \* history: a save has overwritten a row newer than its entity
vars == <<textDecimals, now, proposal, votes, delegations, call, started, stale>>

Kinds == {"FOR", "AGAINST", "ABSTAIN"}
Final == {"PASSED", "DEFEATED", "EXECUTED", "CANCELLED"}

ProposalRow == [status : {"NONE", "PENDING", "ACTIVE"} \cup Final,
                tally : [Kinds -> Nat], supply : Nat, start : 0 .. MaxNow, end : 0 .. MaxNow + Period]
VoteRow == [voter : Users, kind : Kinds, weight : Nat]
DelegationRow == [from : Users, to : Users, balance : Nat, end : Nat, active : BOOLEAN]
Request == [pc : {"idle", "save", "read", "insert", "tally"},
            op : {"none", "approve", "cancel", "finalize", "execute", "vote"},
            user : Users, kind : Kinds, ent : ProposalRow, power : Nat, valid : BOOLEAN]

NoRow == [status |-> "NONE", tally |-> [k \in Kinds |-> 0], supply |-> 0, start |-> 0, end |-> 0]
Idle == [pc |-> "idle", op |-> "none", user |-> Proposer, kind |-> "FOR", ent |-> NoRow, power |-> 0, valid |-> TRUE]

Init == /\ textDecimals \in BOOLEAN
        /\ now = 0 /\ proposal = NoRow /\ votes = {} /\ delegations = {}
        /\ call = [c \in Calls |-> Idle] /\ started = 0 /\ stale = FALSE

Balance(u) == IF Holding[u] = None THEN 0 ELSE Holding[u]

DelegationsTo(u) == {d \in delegations : d.to = u /\ d.active /\ d.end >= now}

GetEffectiveVotingPower(u) ==
  Balance(u) + SumFunctionOnSet([d \in DelegationsTo(u) |-> d.balance], DelegationsTo(u))

(* A sum of at most one text (an absent holding is the number 0) is still a decimal. *)
IsDecimal(u) == ~textDecimals \/ Cardinality(DelegationsTo(u)) + (IF Holding[u] = None THEN 0 ELSE 1) <= 1

TotalVotes(row) == row.tally["FOR"] + row.tally["AGAINST"] + row.tally["ABSTAIN"]

CheckQuorumMet(row) == ~textDecimals /\ TotalVotes(row) * 100 >= row.supply * Quorum

ProposalHasPassed(row) ==
  /\ CheckQuorumMet(row)
  /\ TotalVotes(row) # 0
  /\ row.tally["FOR"] * 100 >= PassPercent * TotalVotes(row)

IsVotingActive(row) == row.status = "ACTIVE" /\ now >= row.start /\ now <= row.end

(* The unique index on (proposal, voter). *)
HasVoted(u) == \E v \in votes : v.voter = u

CanUserVote(u, row) == IsVotingActive(row) /\ u # Proposer /\ ~HasVoted(u)

Become(c, rec) == call' = [call EXCEPT ![c] = rec]
End(c) == Become(c, Idle)

CreateProposal ==
  /\ proposal.status = "NONE" /\ Balance(Proposer) >= MinTokens
  /\ proposal' = [NoRow EXCEPT !.status = "PENDING", !.supply = Balance(Proposer), !.start = now, !.end = now + Period]
  /\ UNCHANGED <<textDecimals, now, votes, delegations, call, started, stale>>

(* proposalRepo.save: the entity, as changed by this request, replaces the row. *)
Save(c, ent) ==
  /\ proposal' = ent
  /\ stale' = (stale \/ proposal # call[c].ent)
  /\ End(c)
  /\ UNCHANGED <<textDecimals, now, votes, delegations, started>>

(* The first statement of approve, cancel, finalize and execute reads the row; *)
(* a request its guard refuses ends there.                                     *)
Allowed(op, row) ==
  CASE op = "approve"  -> TRUE
    [] op = "cancel"   -> row.status \notin {"ACTIVE", "EXECUTED"}
    [] op = "finalize" -> row.status = "ACTIVE" /\ now >= row.end
    [] op = "execute"  -> row.status = "PASSED"

Start(c, op) ==
  /\ call[c].pc = "idle" /\ proposal.status # "NONE" /\ Allowed(op, proposal)
  /\ Become(c, [Idle EXCEPT !.pc = "save", !.op = op, !.ent = proposal])
  /\ started < MaxStarts /\ started' = started + 1
  /\ UNCHANGED <<textDecimals, now, proposal, votes, delegations, stale>>

Approve(c) ==
  /\ call[c].op = "approve"
  /\ Save(c, [call[c].ent EXCEPT !.status = "ACTIVE", !.start = now, !.end = now + Period])

Cancel(c) == call[c].op = "cancel" /\ Save(c, [call[c].ent EXCEPT !.status = "CANCELLED"])

\* Mutant: a proposal that fails gets a status the column does not have.
FinalizeRejects(c) ==
  /\ call[c].op = "finalize"
  /\ Save(c, [call[c].ent EXCEPT !.status = IF ProposalHasPassed(proposal) THEN "PASSED" ELSE "REJECTED"])
(* proposalHasPassed reads the row again, after the entity was read. *)
Finalize(c) ==
  /\ call[c].op = "finalize"
  /\ Save(c, [call[c].ent EXCEPT !.status = IF ProposalHasPassed(proposal) THEN "PASSED" ELSE "DEFEATED"])

\* Mutant: a failed execution opens the vote again.
ExecuteReopens(c) ==
  /\ call[c].op = "execute"
  /\ \E s \in {"EXECUTED", "ACTIVE"} : Save(c, [call[c].ent EXCEPT !.status = s])
(* A save that throws is followed by one that writes PASSED back. *)
Execute(c) ==
  /\ call[c].op = "execute"
  /\ \E s \in {"EXECUTED", "PASSED"} : Save(c, [call[c].ent EXCEPT !.status = s])

StartVote(c, u, k) ==
  /\ call[c].pc = "idle" /\ CanUserVote(u, proposal)
  /\ Become(c, [Idle EXCEPT !.pc = "read", !.op = "vote", !.user = u, !.kind = k])
  /\ started < MaxStarts /\ started' = started + 1
  /\ UNCHANGED <<textDecimals, now, proposal, votes, delegations, stale>>

(* castVote reads the proposal a second time, then the voting power. *)
ReadPower(c) ==
  LET u == call[c].user IN
  /\ call[c].pc = "read"
  /\ IF GetEffectiveVotingPower(u) <= 0 THEN End(c)
     ELSE Become(c, [call[c] EXCEPT !.pc = "insert", !.ent = proposal,
                                    !.power = GetEffectiveVotingPower(u), !.valid = IsDecimal(u)])
  /\ UNCHANGED <<textDecimals, now, proposal, votes, delegations, started, stale>>

(* The unique index on (proposal, voter) or a malformed weight refuses the row. *)
InsertVote(c) ==
  LET x == call[c] IN
  /\ x.pc = "insert"
  /\ IF x.valid /\ ~HasVoted(x.user)
     THEN /\ votes' = votes \cup {[voter |-> x.user, kind |-> x.kind, weight |-> x.power]}
          /\ Become(c, [x EXCEPT !.pc = "tally"])
     ELSE End(c) /\ UNCHANGED votes
  /\ UNCHANGED <<textDecimals, now, proposal, delegations, started, stale>>

(* With texts the new tally is no decimal and the save throws. *)
SaveTally(c) ==
  /\ call[c].pc = "tally"
  /\ IF textDecimals THEN End(c) /\ UNCHANGED <<textDecimals, now, proposal, votes, delegations, started, stale>>
     ELSE Save(c, [call[c].ent EXCEPT !.tally[call[c].kind] = @ + call[c].power])

DelegateVotes(u, v, days) ==
  /\ Cardinality(delegations) < MaxDelegations
  /\ u # v /\ ~\E d \in delegations : d.from = u /\ d.to = v /\ d.active
  /\ Balance(u) > 0
  /\ delegations' = delegations \cup {[from |-> u, to |-> v, balance |-> Balance(u), end |-> now + days, active |-> TRUE]}
  /\ UNCHANGED <<textDecimals, now, proposal, votes, call, started, stale>>

RevokeDelegation(d) ==
  /\ d.active
  /\ delegations' = (delegations \ {d}) \cup {[d EXCEPT !.active = FALSE, !.end = now]}
  /\ UNCHANGED <<textDecimals, now, proposal, votes, call, started, stale>>

Tick ==
  /\ now < MaxNow /\ now' = now + 1
  /\ UNCHANGED <<textDecimals, proposal, votes, delegations, call, started, stale>>

Step(c) ==
  \/ call[c].pc = "save" /\ (Approve(c) \/ Cancel(c) \/ Finalize(c) \/ Execute(c))
  \/ ReadPower(c) \/ InsertVote(c) \/ SaveTally(c)

Next ==
  \/ CreateProposal \/ Tick
  \/ \E c \in Calls : \/ Step(c)
                      \/ \E op \in {"approve", "cancel", "finalize", "execute"} : Start(c, op)
                      \/ \E u \in Users, k \in Kinds : StartVote(c, u, k)
  \/ \E u, v \in Users, days \in Terms : DelegateVotes(u, v, days)
  \/ \E d \in delegations : RevokeDelegation(d)

Spec == Init /\ [][Next]_vars

-----------------------------------------------------------------------------
TypeOK ==
  /\ textDecimals \in BOOLEAN /\ now \in 0 .. MaxNow /\ started \in 0 .. MaxStarts /\ stale \in BOOLEAN
  /\ proposal \in ProposalRow
  /\ votes \subseteq VoteRow /\ delegations \subseteq DelegationRow
  /\ call \in [Calls -> Request]

Weight(vs) == SumFunctionOnSet([v \in vs |-> v.weight], vs)
OfKind(k) == {v \in votes : v.kind = k}
Pending(v) == \E c \in Calls : call[c].pc = "tally" /\ call[c].user = v.voter

(* castVote (index.ts 299-306) never credits a tally with more than the votes *)
(* on record, whatever requests overlap; and while no save has overwritten a  *)
(* newer row, the tallies are exactly the votes whose request has finished.   *)
TalliesMatchVotes ==
  \A k \in Kinds :
    /\ proposal.tally[k] <= Weight(OfKind(k))
    /\ ~stale /\ ~textDecimals => proposal.tally[k] = Weight({v \in OfKind(k) : ~Pending(v)})

(* A proposal that has passed has a quorum of recorded votes behind it, even  *)
(* when finalizeProposal raced votes, approvals and other finalizations.      *)
PassedWithQuorum ==
  proposal.status \in {"PASSED", "EXECUTED"} => Weight(votes) * 100 >= proposal.supply * Quorum

(* A decided proposal becomes votable again only through approveProposal, or  *)
(* through the save of an entity that was read before the decision.           *)
ReopenedOnlyByApproval ==
  [][proposal.status \in Final /\ proposal'.status = "ACTIVE" =>
       stale' \/ \E c \in Calls : call[c].op = "approve" /\ call'[c].pc = "idle"]_vars
=============================================================================
