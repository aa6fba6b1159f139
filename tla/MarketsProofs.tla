--------------------------- MODULE MarketsProofs ---------------------------
(***************************************************************************)
(* Theorems about the four parts of Markets. A part's lemmas and theorems  *)
(* are about its own specification, from its own assumptions; at the end   *)
(* they are put together for the specification that the run markets        *)
(* checks.                                                                 *)
(***************************************************************************)
EXTENDS Markets, Sequences, FiniteSums, TLAPS

-----------------------------------------------------------------------------
(* Governance: what votes weigh.                                           *)

\* The instance's operators are the library's.
LEMMA GovSum == \A f, S : Gov!SumFunctionOnSet(f, S) = SumFunctionOnSet(f, S)
BY DEF Gov!SumFunctionOnSet, SumFunctionOnSet, Gov!FoldFunctionOnSet, FoldFunctionOnSet,
       Gov!MapThenFoldSet, MapThenFoldSet

LEMMA WeightNat ==
  ASSUME NEW S, IsFiniteSet(S), S \subseteq Gov!VoteRow
  PROVE  Gov!Weight(S) \in Nat
<1> DEFINE f == [v \in S |-> v.weight]
<1>1. \A v \in S : f[v] \in Nat
  BY DEF Gov!VoteRow
<1> HIDE DEF f
<1>2. SumFunctionOnSet(f, S) \in Nat
  BY <1>1, SumNonnegative
<1> QED
  BY <1>2, GovSum DEF Gov!Weight, f

\* The weight of a part of a set, as a sum of the weights of the whole set's function.
LEMMA WeightPart ==
  ASSUME NEW B, IsFiniteSet(B), B \subseteq Gov!VoteRow, NEW A, A \subseteq B
  PROVE  Gov!Weight(A) = SumFunctionOnSet([v \in B |-> v.weight], A)
<1> DEFINE f == [v \in A |-> v.weight]
           g == [v \in B |-> v.weight]
<1>1. IsFiniteSet(A)
  BY FS_Subset
<1>2. \A v \in A : f[v] \in Int /\ g[v] = f[v]
  BY DEF Gov!VoteRow
<1> HIDE DEF f, g
<1>3. SumFunctionOnSet(g, A) = SumFunctionOnSet(f, A)
  BY <1>1, <1>2, SumAgree
<1> QED
  BY <1>3, GovSum DEF Gov!Weight, f, g

LEMMA WeightUnion ==
  ASSUME NEW A, NEW B, IsFiniteSet(A), IsFiniteSet(B), A \subseteq Gov!VoteRow, B \subseteq Gov!VoteRow,
         A \cap B = {}
  PROVE  Gov!Weight(A \cup B) = Gov!Weight(A) + Gov!Weight(B)
<1> DEFINE C == A \cup B
           f == [v \in C |-> v.weight]
<1>1. IsFiniteSet(C) /\ C \subseteq Gov!VoteRow /\ A \subseteq C /\ B \subseteq C
  BY FS_Union
<1>2. \A v \in A \cup B : f[v] \in Int
  BY DEF Gov!VoteRow
<1> HIDE DEF f
<1>3. SumFunctionOnSet(f, A \cup B) = SumFunctionOnSet(f, A) + SumFunctionOnSet(f, B)
  BY <1>2, SumUnion
<1>4. /\ Gov!Weight(A) = SumFunctionOnSet(f, A) /\ Gov!Weight(B) = SumFunctionOnSet(f, B)
      /\ Gov!Weight(C) = SumFunctionOnSet(f, C)
  BY <1>1, WeightPart DEF f
<1> QED
  BY <1>3, <1>4

LEMMA WeightMonotone ==
  ASSUME NEW A, NEW B, IsFiniteSet(B), A \subseteq B, B \subseteq Gov!VoteRow
  PROVE  Gov!Weight(A) <= Gov!Weight(B)
<1> DEFINE f == [v \in B |-> v.weight]
<1>1. \A v \in B : f[v] \in Nat
  BY DEF Gov!VoteRow
<1>2. Gov!Weight(A) = SumFunctionOnSet(f, A) /\ Gov!Weight(B) = SumFunctionOnSet(f, B)
  BY WeightPart
<1> HIDE DEF f
<1>3. SumFunctionOnSet(f, A) <= SumFunctionOnSet(f, B)
  BY <1>1, SumSubset
<1> QED
  BY <1>2, <1>3

LEMMA WeightOne ==
  ASSUME NEW v \in Gov!VoteRow
  PROVE  Gov!Weight({v}) = v.weight
<1> DEFINE f == [w \in {v} |-> w.weight]
<1>1. f[v] = v.weight /\ v.weight \in Int
  BY DEF Gov!VoteRow
<1> HIDE DEF f
<1>2. SumFunctionOnSet(f, {} \cup {v}) = SumFunctionOnSet(f, {}) + f[v]
  BY <1>1, SumAdd, FS_EmptySet
<1>3. SumFunctionOnSet(f, {v}) = SumFunctionOnSet(f, {}) + f[v]
  <2>1. {} \cup {v} = {v}
    OBVIOUS
  <2> QED
    BY <1>2, <2>1, Zenon
<1>4. SumFunctionOnSet(f, {v}) = v.weight
  BY <1>1, <1>3, SumEmpty
<1> QED
  BY <1>4, GovSum DEF Gov!Weight, f

LEMMA WeightAdd ==
  ASSUME NEW S, IsFiniteSet(S), S \subseteq Gov!VoteRow, NEW v \in Gov!VoteRow, v \notin S
  PROVE  Gov!Weight(S \cup {v}) = Gov!Weight(S) + v.weight
<1>1. Gov!Weight(S \cup {v}) = Gov!Weight(S) + Gov!Weight({v})
  <2>1. IsFiniteSet({v}) /\ {v} \subseteq Gov!VoteRow /\ S \cap {v} = {}
    BY FS_Singleton
  <2> QED
    BY <2>1, WeightUnion
<1> QED
  BY <1>1, WeightOne

Of(S, k) == {v \in S : v.kind = k}

\* Votes are for, against or abstentions.
LEMMA WeightKinds ==
  ASSUME NEW S, IsFiniteSet(S), S \subseteq Gov!VoteRow
  PROVE  Gov!Weight(S) = Gov!Weight(Of(S, "FOR")) + Gov!Weight(Of(S, "AGAINST")) + Gov!Weight(Of(S, "ABSTAIN"))
<1> DEFINE A == Of(S, "FOR")  B == Of(S, "AGAINST")  C == Of(S, "ABSTAIN")
<1>1. /\ A \subseteq S /\ B \subseteq S /\ C \subseteq S
      /\ A \cap B = {} /\ (A \cup B) \cap C = {} /\ (A \cup B) \cup C = S
  BY DEF Of, Gov!VoteRow, Gov!Kinds
<1> HIDE DEF A, B, C
<1>2. IsFiniteSet(A) /\ IsFiniteSet(B) /\ IsFiniteSet(C) /\ IsFiniteSet(A \cup B)
  BY <1>1, FS_Subset, FS_Union
<1>3. Gov!Weight(A \cup B) = Gov!Weight(A) + Gov!Weight(B)
  BY <1>1, <1>2, WeightUnion
<1>4. Gov!Weight((A \cup B) \cup C) = Gov!Weight(A \cup B) + Gov!Weight(C)
  <2>1. A \cup B \subseteq Gov!VoteRow /\ C \subseteq Gov!VoteRow
    BY <1>1
  <2> QED
    BY <1>1, <1>2, <2>1, WeightUnion
<1>5. Gov!Weight((A \cup B) \cup C) = Gov!Weight(S)
  BY <1>1
<1> QED
  BY <1>3, <1>4, <1>5 DEF A, B, C

-----------------------------------------------------------------------------
(* Governance: the inductive invariant.                                    *)

\* The vote that a request has inserted and not yet counted.
OwnVote(c) == [voter |-> call[c].user, kind |-> call[c].kind, weight |-> call[c].power]

\* The votes that the entity of a request can have counted.
Countable(c) == IF call[c].pc = "tally" THEN votes \ {OwnVote(c)} ELSE votes

\* A row that says PASSED or EXECUTED has a quorum of recorded votes.
Decided(row) == row.status \in {"PASSED", "EXECUTED"} => Gov!Weight(votes) * 100 >= row.supply * Quorum

\* What the entity of a request can say.
EntityOK(c) ==
  /\ call[c].ent.status # "NONE" /\ call[c].ent.supply = proposal.supply
  /\ \A k \in Gov!Kinds : call[c].ent.tally[k] <= Gov!Weight(Of(Countable(c), k))
  /\ Decided(call[c].ent)

RequestOK(c) ==
  /\ call[c].pc \in {"save", "insert", "tally"} => EntityOK(c)
  /\ call[c].pc = "tally" => OwnVote(c) \in votes
  /\ call[c].pc = "save" /\ call[c].op = "execute" => call[c].ent.status = "PASSED"

GovTypes == Gov!TypeOK /\ IsFiniteSet(votes) /\ IsFiniteSet(delegations)

\* The unique index: one vote and one uncounted vote per user.
OneVote ==
  /\ \A v, w \in votes : v.voter = w.voter => v = w
  /\ \A c, d \in Calls : call[c].pc = "tally" /\ call[d].pc = "tally" /\ call[c].user = call[d].user => c = d

NothingBefore ==
  proposal.status = "NONE" => proposal = Gov!NoRow /\ votes = {} /\ \A c \in Calls : call[c].pc = "idle"

GovInv ==
  /\ GovTypes /\ OneVote /\ NothingBefore
  /\ \A c \in Calls : RequestOK(c)
  /\ Decided(proposal) /\ Gov!TalliesMatchVotes

-----------------------------------------------------------------------------
(* Governance: what the steps do.                                          *)

\* A request changes and the tables do not.
Moved(c, rec) ==
  /\ call' = [call EXCEPT ![c] = rec] /\ UNCHANGED <<textDecimals, proposal, votes, stale>>
  /\ call[c].pc = "tally" => textDecimals
  /\ rec.pc \in {"idle", "read", "save", "insert"}
  /\ rec.pc # "idle" => proposal.status # "NONE"
  /\ rec.pc \in {"save", "insert"} => rec.ent = proposal
  /\ rec.pc = "save" /\ rec.op = "execute" => proposal.status = "PASSED"

Inserted(c) ==
  /\ call[c].pc = "insert" /\ ~Gov!HasVoted(call[c].user)
  /\ votes' = votes \cup {OwnVote(c)} /\ call' = [call EXCEPT ![c] = [@ EXCEPT !.pc = "tally"]]
  /\ UNCHANGED <<textDecimals, proposal, stale>>

\* A request saves its entity with another status.
Decides(c, row) ==
  /\ call[c].pc = "save" /\ proposal' = row /\ call' = [call EXCEPT ![c] = Gov!Idle]
  /\ stale' = (stale \/ proposal # call[c].ent) /\ UNCHANGED <<textDecimals, votes>>
  /\ row.supply = call[c].ent.supply /\ row.tally = call[c].ent.tally /\ row.status # "NONE"
  /\ row.status \in {"PASSED", "EXECUTED"} =>
       call[c].op = "execute" \/ Gov!ProposalHasPassed(proposal)
  /\ row.status = "ACTIVE" => call[c].op = "approve"

Tallied(c) ==
  /\ call[c].pc = "tally" /\ ~textDecimals /\ call' = [call EXCEPT ![c] = Gov!Idle]
  /\ proposal' = [call[c].ent EXCEPT !.tally[call[c].kind] = @ + call[c].power]
  /\ stale' = (stale \/ proposal # call[c].ent) /\ UNCHANGED <<textDecimals, votes>>

Created ==
  /\ proposal.status = "NONE" /\ proposal'.status = "PENDING" /\ proposal'.tally = Gov!NoRow.tally
  /\ UNCHANGED <<textDecimals, votes, call, stale>>

Aside == UNCHANGED <<textDecimals, proposal, votes, call, stale>>

LEMMA GovRequest ==
  ASSUME Gov!TypeOK, NEW c \in Calls
  PROVE  /\ call[c] \in Gov!Request /\ call[c].ent \in Gov!ProposalRow /\ call[c].power \in Nat
         /\ call[c].kind \in Gov!Kinds /\ call[c].user \in Users
BY DEF Gov!TypeOK, Gov!Request

LEMMA GovRow ==
  ASSUME NEW row \in Gov!ProposalRow
  PROVE  row.supply \in Nat /\ \A k \in Gov!Kinds : row.tally[k] \in Nat
BY DEF Gov!ProposalRow

LEMMA GovSteps ==
  ASSUME Gov!TypeOK, NothingBefore, Gov!Next
  PROVE  \/ Aside \/ Created
         \/ \E c \in Calls : \/ \E rec : Moved(c, rec)
                             \/ Inserted(c)
                             \/ \E row : Decides(c, row)
                             \/ Tallied(c)
<1>1. CASE Gov!CreateProposal
  BY <1>1 DEF Gov!CreateProposal, Created, Gov!NoRow
<1>2. CASE Gov!Tick
  BY <1>2 DEF Gov!Tick, Aside
<1>3. ASSUME NEW u \in Users, NEW v \in Users, NEW days \in Terms, Gov!DelegateVotes(u, v, days)
      PROVE  Aside
  BY <1>3 DEF Gov!DelegateVotes, Aside
<1>4. ASSUME NEW d \in delegations, Gov!RevokeDelegation(d)
      PROVE  Aside
  BY <1>4 DEF Gov!RevokeDelegation, Aside
<1>5. ASSUME NEW c \in Calls, NEW op \in {"approve", "cancel", "finalize", "execute"}, Gov!Start(c, op)
      PROVE  \E rec : Moved(c, rec)
  <2> DEFINE rec == [Gov!Idle EXCEPT !.pc = "save", !.op = op, !.ent = proposal]
  <2>1. rec.pc = "save" /\ rec.op = op /\ rec.ent = proposal
    BY DEF Gov!Idle
  <2>2. op = "execute" => proposal.status = "PASSED"
    BY <1>5 DEF Gov!Start, Gov!Allowed
  <2>3. /\ call' = [call EXCEPT ![c] = rec] /\ UNCHANGED <<textDecimals, proposal, votes, stale>>
        /\ call[c].pc = "idle" /\ proposal.status # "NONE"
    BY <1>5 DEF Gov!Start, Gov!Become
  <2> HIDE DEF rec
  <2>4. Moved(c, rec)
    BY <2>1, <2>2, <2>3 DEF Moved
  <2> QED
    BY <2>4
<1>6. ASSUME NEW c \in Calls, NEW u \in Users, NEW k \in Gov!Kinds, Gov!StartVote(c, u, k)
      PROVE  \E rec : Moved(c, rec)
  <2> DEFINE rec == [Gov!Idle EXCEPT !.pc = "read", !.op = "vote", !.user = u, !.kind = k]
  <2>1. rec.pc = "read"
    BY DEF Gov!Idle
  <2>2. /\ call' = [call EXCEPT ![c] = rec] /\ UNCHANGED <<textDecimals, proposal, votes, stale>>
        /\ call[c].pc = "idle" /\ proposal.status # "NONE"
    BY <1>6 DEF Gov!StartVote, Gov!Become, Gov!CanUserVote, Gov!IsVotingActive
  <2> HIDE DEF rec
  <2>3. Moved(c, rec)
    BY <2>1, <2>2 DEF Moved
  <2> QED
    BY <2>3
<1>7. ASSUME NEW c \in Calls, Gov!ReadPower(c)
      PROVE  \E rec : Moved(c, rec)
  <2>1. proposal.status # "NONE" /\ call[c].pc = "read" /\ UNCHANGED <<textDecimals, proposal, votes, stale>>
    BY <1>7 DEF Gov!ReadPower, NothingBefore
  <2>2. CASE Gov!End(c)
    <3>1. Gov!Idle.pc = "idle"
      BY DEF Gov!Idle
    <3>2. Moved(c, Gov!Idle)
      BY <2>1, <2>2, <3>1 DEF Moved, Gov!End, Gov!Become
    <3> QED
      BY <3>2
  <2>3. CASE ~Gov!End(c)
    <3> DEFINE rec == [call[c] EXCEPT !.pc = "insert", !.ent = proposal,
                         !.power = Gov!GetEffectiveVotingPower(call[c].user), !.valid = Gov!IsDecimal(call[c].user)]
    <3>1. call' = [call EXCEPT ![c] = rec]
      BY <1>7, <2>3 DEF Gov!ReadPower, Gov!Become
    <3>2. rec.pc = "insert" /\ rec.ent = proposal
      BY GovRequest DEF Gov!Request
    <3> HIDE DEF rec
    <3>3. Moved(c, rec)
      BY <2>1, <3>1, <3>2 DEF Moved
    <3> QED
      BY <3>3
  <2> QED
    BY <2>2, <2>3
<1>8. ASSUME NEW c \in Calls, Gov!InsertVote(c)
      PROVE  Inserted(c) \/ \E rec : Moved(c, rec)
  <2>1. call[c].pc = "insert" /\ UNCHANGED <<textDecimals, proposal, stale>>
    BY <1>8 DEF Gov!InsertVote
  <2>2. CASE call[c].valid /\ ~Gov!HasVoted(call[c].user)
    BY <1>8, <2>1, <2>2 DEF Gov!InsertVote, Inserted, OwnVote, Gov!Become
  <2>3. CASE ~(call[c].valid /\ ~Gov!HasVoted(call[c].user))
    <3>1. Gov!Idle.pc = "idle"
      BY DEF Gov!Idle
    <3>2. Moved(c, Gov!Idle)
      BY <1>8, <2>1, <2>3, <3>1 DEF Moved, Gov!InsertVote, Gov!End, Gov!Become
    <3> QED
      BY <3>2
  <2> QED
    BY <2>2, <2>3
<1>9. ASSUME NEW c \in Calls, Gov!SaveTally(c)
      PROVE  Tallied(c) \/ \E rec : Moved(c, rec)
  <2>1. CASE textDecimals
    <3>1. Gov!Idle.pc = "idle"
      BY DEF Gov!Idle
    <3>2. Moved(c, Gov!Idle)
      BY <1>9, <2>1, <3>1 DEF Moved, Gov!SaveTally, Gov!End, Gov!Become
    <3> QED
      BY <3>2
  <2>2. CASE ~textDecimals
    <3> DEFINE row == [call[c].ent EXCEPT !.tally[call[c].kind] = @ + call[c].power]
    <3>1. call[c].pc = "tally" /\ Gov!Save(c, row)
      BY <1>9, <2>2 DEF Gov!SaveTally
    <3> HIDE DEF row
    <3>2. /\ proposal' = row /\ call' = [call EXCEPT ![c] = Gov!Idle]
          /\ stale' = (stale \/ proposal # call[c].ent) /\ UNCHANGED <<textDecimals, votes>>
      BY <3>1 DEF Gov!Save, Gov!End, Gov!Become
    <3> QED
      BY <2>2, <3>1, <3>2 DEF Tallied, row
  <2> QED
    BY <2>1, <2>2
<1>10. ASSUME NEW c \in Calls, call[c].pc = "save",
              Gov!Approve(c) \/ Gov!Cancel(c) \/ Gov!Finalize(c) \/ Gov!Execute(c)
       PROVE  \E row : Decides(c, row)
  <2> DEFINE ent == call[c].ent
  <2>0. ent \in Gov!ProposalRow
    BY GovRequest
  <2>1. ASSUME NEW row, Gov!Save(c, row), row.supply = ent.supply, row.tally = ent.tally, row.status # "NONE",
               row.status \in {"PASSED", "EXECUTED"} => call[c].op = "execute" \/ Gov!ProposalHasPassed(proposal),
               row.status = "ACTIVE" => call[c].op = "approve"
        PROVE  \E r : Decides(c, r)
    <3>1. Decides(c, row)
      BY <1>10, <2>1 DEF Decides, Gov!Save, Gov!End, Gov!Become
    <3> QED
      BY <3>1
  <2>2. CASE Gov!Approve(c)
    <3> DEFINE row == [ent EXCEPT !.status = "ACTIVE", !.start = now, !.end = now + Period]
    <3>1. row.supply = ent.supply /\ row.tally = ent.tally /\ row.status = "ACTIVE"
      BY <2>0 DEF Gov!ProposalRow
    <3>2. Gov!Save(c, row) /\ call[c].op = "approve"
      BY <2>2 DEF Gov!Approve
    <3> HIDE DEF row, ent
    <3> QED
      BY <2>1, <3>1, <3>2
  <2>3. CASE Gov!Cancel(c)
    <3> DEFINE row == [ent EXCEPT !.status = "CANCELLED"]
    <3>1. row.supply = ent.supply /\ row.tally = ent.tally /\ row.status = "CANCELLED"
      BY <2>0 DEF Gov!ProposalRow
    <3>2. Gov!Save(c, row)
      BY <2>3 DEF Gov!Cancel
    <3> HIDE DEF row, ent
    <3> QED
      BY <2>1, <3>1, <3>2
  <2>4. CASE Gov!Finalize(c)
    <3> DEFINE s == IF Gov!ProposalHasPassed(proposal) THEN "PASSED" ELSE "DEFEATED"
               row == [ent EXCEPT !.status = s]
    <3>1. row.supply = ent.supply /\ row.tally = ent.tally /\ row.status = s
      BY <2>0 DEF Gov!ProposalRow
    <3>2. Gov!Save(c, row)
      BY <2>4 DEF Gov!Finalize
    <3>3. s \in {"PASSED", "DEFEATED"} /\ (s = "PASSED" => Gov!ProposalHasPassed(proposal))
      OBVIOUS
    <3> HIDE DEF row, ent, s
    <3> QED
      BY <2>1, <3>1, <3>2, <3>3
  <2>5. CASE Gov!Execute(c)
    <3>0. PICK s \in {"EXECUTED", "PASSED"} : Gov!Save(c, [ent EXCEPT !.status = s])
      BY <2>5 DEF Gov!Execute
    <3> DEFINE row == [ent EXCEPT !.status = s]
    <3>1. row.supply = ent.supply /\ row.tally = ent.tally /\ row.status = s
      BY <2>0 DEF Gov!ProposalRow
    <3>2. call[c].op = "execute" /\ Gov!Save(c, row)
      BY <2>5, <3>0 DEF Gov!Execute
    <3> HIDE DEF row, ent
    <3> QED
      BY <2>1, <3>0, <3>1, <3>2
  <2> QED
    BY <1>10, <2>2, <2>3, <2>4, <2>5
<1>11. ASSUME NEW c \in Calls, Gov!Step(c)
       PROVE  \/ \E rec : Moved(c, rec)
              \/ Inserted(c) \/ Tallied(c) \/ \E row : Decides(c, row)
  <2>1. CASE Gov!ReadPower(c)
    BY <1>7, <2>1
  <2>2. CASE Gov!InsertVote(c)
    BY <1>8, <2>2
  <2>3. CASE Gov!SaveTally(c)
    BY <1>9, <2>3
  <2>4. CASE call[c].pc = "save" /\ (Gov!Approve(c) \/ Gov!Cancel(c) \/ Gov!Finalize(c) \/ Gov!Execute(c))
    BY <1>10, <2>4
  <2> QED
    BY <1>11, <2>1, <2>2, <2>3, <2>4 DEF Gov!Step
<1>12. CASE \E c \in Calls : \/ Gov!Step(c)
                             \/ \E op \in {"approve", "cancel", "finalize", "execute"} : Gov!Start(c, op)
                             \/ \E u \in Users, k \in Gov!Kinds : Gov!StartVote(c, u, k)
  BY <1>5, <1>6, <1>11, <1>12
<1> QED
  BY <1>1, <1>2, <1>3, <1>4, <1>12 DEF Gov!Next

-----------------------------------------------------------------------------
(* Governance: types.                                                      *)

LEMMA BalanceNat ==
  ASSUME Gov!Assumptions, NEW u \in Users
  PROVE  Gov!Balance(u) \in Nat
BY DEF Gov!Assumptions, Gov!Balance

LEMMA PowerNat ==
  ASSUME Gov!Assumptions, GovTypes, NEW u \in Users
  PROVE  Gov!GetEffectiveVotingPower(u) \in Nat
<1> DEFINE D == Gov!DelegationsTo(u)
           f == [d \in D |-> d.balance]
<1>1. D \subseteq delegations /\ delegations \subseteq Gov!DelegationRow /\ IsFiniteSet(delegations)
  BY DEF GovTypes, Gov!TypeOK, Gov!DelegationsTo
<1>2. IsFiniteSet(D) /\ \A d \in D : f[d] \in Nat
  BY <1>1, FS_Subset DEF Gov!DelegationRow
<1> HIDE DEF f, D
<1>3. SumFunctionOnSet(f, D) \in Nat
  BY <1>2, SumNonnegative
<1>4. Gov!GetEffectiveVotingPower(u) = Gov!Balance(u) + SumFunctionOnSet(f, D)
  BY GovSum DEF Gov!GetEffectiveVotingPower, f, D
<1> QED
  BY <1>3, <1>4, BalanceNat

LEMMA NoRowType ==
  ASSUME Gov!Assumptions
  PROVE  Gov!NoRow \in Gov!ProposalRow /\ Gov!Idle \in Gov!Request
<1>1. Gov!NoRow \in Gov!ProposalRow
  BY DEF Gov!Assumptions, Gov!NoRow, Gov!ProposalRow, Gov!Kinds, Gov!Final
<1> HIDE DEF Gov!NoRow
<1>2. Gov!Idle \in Gov!Request
  BY <1>1 DEF Gov!Assumptions, Gov!Idle, Gov!Request, Gov!Kinds
<1> QED
  BY <1>1, <1>2

LEMMA SaveTypes ==
  ASSUME Gov!Assumptions, GovTypes, NEW c \in Calls, NEW row \in Gov!ProposalRow, Gov!Save(c, row)
  PROVE  GovTypes'
<1>1. call' \in [Calls -> Gov!Request]
  BY NoRowType DEF GovTypes, Gov!TypeOK, Gov!Save, Gov!End, Gov!Become
<1>2. stale' \in BOOLEAN
  BY DEF GovTypes, Gov!TypeOK, Gov!Save
<1> QED
  BY <1>1, <1>2 DEF GovTypes, Gov!TypeOK, Gov!Save

\* A request changes its own record and nothing else that has a type.
LEMMA BecomeTypes ==
  ASSUME Gov!Assumptions, GovTypes, NEW c \in Calls, NEW rec \in Gov!Request, Gov!Become(c, rec),
         UNCHANGED <<textDecimals, now, proposal, votes, delegations, stale>>, started' \in 0 .. MaxStarts
  PROVE  GovTypes'
<1>1. call' \in [Calls -> Gov!Request]
  BY DEF GovTypes, Gov!TypeOK, Gov!Become
<1> QED
  BY <1>1 DEF GovTypes, Gov!TypeOK

LEMMA GovTypesKept ==
  ASSUME Gov!Assumptions, GovTypes, Gov!Next
  PROVE  GovTypes'
<1> USE DEF GovTypes
<1>0. /\ now \in 0 .. MaxNow /\ MaxNow \in Nat /\ Period \in Nat /\ started \in 0 .. MaxStarts /\ MaxStarts \in Nat
      /\ proposal \in Gov!ProposalRow /\ Terms \subseteq Nat /\ Proposer \in Users
  BY DEF Gov!TypeOK, Gov!Assumptions
<1>1. CASE Gov!CreateProposal
  <2> DEFINE row == [Gov!NoRow EXCEPT !.status = "PENDING", !.supply = Gov!Balance(Proposer), !.start = now,
                                      !.end = now + Period]
  <2>1. Gov!Balance(Proposer) \in Nat /\ now + Period \in 0 .. MaxNow + Period
    BY <1>0, BalanceNat
  <2>2. row \in Gov!ProposalRow
    BY <1>0, <2>1, NoRowType DEF Gov!ProposalRow
  <2>3. proposal' = row /\ UNCHANGED <<textDecimals, now, votes, delegations, call, started, stale>>
    BY <1>1 DEF Gov!CreateProposal
  <2> HIDE DEF row
  <2> QED
    BY <2>2, <2>3 DEF Gov!TypeOK
<1>2. CASE Gov!Tick
  <2>1. now' \in 0 .. MaxNow
    BY <1>0, <1>2 DEF Gov!Tick
  <2> QED
    BY <1>2, <2>1 DEF Gov!Tick, Gov!TypeOK
<1>3. ASSUME NEW u \in Users, NEW v \in Users, NEW days \in Terms, Gov!DelegateVotes(u, v, days)
      PROVE  GovTypes'
  <2> DEFINE d == [from |-> u, to |-> v, balance |-> Gov!Balance(u), end |-> now + days, active |-> TRUE]
  <2>1. d \in Gov!DelegationRow
    BY <1>0, BalanceNat DEF Gov!DelegationRow
  <2>2. delegations' = delegations \cup {d} /\ UNCHANGED <<textDecimals, now, proposal, votes, call, started, stale>>
    BY <1>3 DEF Gov!DelegateVotes
  <2> HIDE DEF d
  <2>3. IsFiniteSet(delegations')
    BY <2>2, FS_AddElement
  <2> QED
    BY <2>1, <2>2, <2>3 DEF Gov!TypeOK
<1>4. ASSUME NEW d \in delegations, Gov!RevokeDelegation(d)
      PROVE  GovTypes'
  <2> DEFINE e == [d EXCEPT !.active = FALSE, !.end = now]
  <2>0. d \in Gov!DelegationRow /\ now \in Nat
    BY <1>0 DEF Gov!TypeOK
  <2>1. e \in Gov!DelegationRow
    <3> HIDE DEF GovTypes
    <3> QED
      BY <2>0 DEF Gov!DelegationRow
  <2>2. /\ delegations' = (delegations \ {d}) \cup {e}
        /\ UNCHANGED <<textDecimals, now, proposal, votes, call, started, stale>>
    BY <1>4 DEF Gov!RevokeDelegation
  <2> HIDE DEF e
  <2>3. IsFiniteSet(delegations')
    BY <2>2, FS_AddElement, FS_RemoveElement
  <2> QED
    BY <2>1, <2>2, <2>3 DEF Gov!TypeOK
<1>5. ASSUME NEW c \in Calls, NEW op \in {"approve", "cancel", "finalize", "execute"}, Gov!Start(c, op)
      PROVE  GovTypes'
  <2> DEFINE rec == [Gov!Idle EXCEPT !.pc = "save", !.op = op, !.ent = proposal]
  <2>1. rec \in Gov!Request
    BY <1>0, NoRowType DEF Gov!Request
  <2>2. /\ Gov!Become(c, rec) /\ UNCHANGED <<textDecimals, now, proposal, votes, delegations, stale>>
        /\ started' \in 0 .. MaxStarts
    BY <1>0, <1>5 DEF Gov!Start
  <2> HIDE DEF rec
  <2> QED
    BY <2>1, <2>2, BecomeTypes
<1>6. ASSUME NEW c \in Calls, NEW u \in Users, NEW k \in Gov!Kinds, Gov!StartVote(c, u, k)
      PROVE  GovTypes'
  <2> DEFINE rec == [Gov!Idle EXCEPT !.pc = "read", !.op = "vote", !.user = u, !.kind = k]
  <2>1. rec \in Gov!Request
    BY NoRowType DEF Gov!Request
  <2>2. /\ Gov!Become(c, rec) /\ UNCHANGED <<textDecimals, now, proposal, votes, delegations, stale>>
        /\ started' \in 0 .. MaxStarts
    BY <1>0, <1>6 DEF Gov!StartVote
  <2> HIDE DEF rec
  <2> QED
    BY <2>1, <2>2, BecomeTypes
<1>7. ASSUME NEW c \in Calls, Gov!ReadPower(c)
      PROVE  GovTypes'
  <2>0. UNCHANGED <<textDecimals, now, proposal, votes, delegations, started, stale>>
    BY <1>7 DEF Gov!ReadPower
  <2> DEFINE power == Gov!GetEffectiveVotingPower(call[c].user)
             valid == Gov!IsDecimal(call[c].user)
             rec == [call[c] EXCEPT !.pc = "insert", !.ent = proposal, !.power = power, !.valid = valid]
  <2>1. power \in Nat /\ valid \in BOOLEAN
    BY GovRequest, PowerNat DEF Gov!IsDecimal
  <2>2. Gov!Become(c, Gov!Idle) \/ Gov!Become(c, rec)
    BY <1>7 DEF Gov!ReadPower, Gov!End
  <2> HIDE DEF power, valid
  <2>3. rec \in Gov!Request
    BY <1>0, <2>1, GovRequest DEF Gov!Request
  <2> HIDE DEF rec
  <2> QED
    BY <1>0, <2>0, <2>2, <2>3, NoRowType, BecomeTypes
<1>8. ASSUME NEW c \in Calls, Gov!InsertVote(c)
      PROVE  GovTypes'
  <2>0. UNCHANGED <<textDecimals, now, proposal, delegations, started, stale>>
    BY <1>8 DEF Gov!InsertVote
  <2>1. CASE call[c].valid /\ ~Gov!HasVoted(call[c].user)
    <3> DEFINE v == [voter |-> call[c].user, kind |-> call[c].kind, weight |-> call[c].power]
               rec == [call[c] EXCEPT !.pc = "tally"]
    <3>1. v \in Gov!VoteRow /\ rec \in Gov!Request
      BY GovRequest DEF Gov!VoteRow, Gov!Request
    <3>2. votes' = votes \cup {v} /\ call' = [call EXCEPT ![c] = rec]
      BY <1>8, <2>1 DEF Gov!InsertVote, Gov!Become
    <3> HIDE DEF v, rec
    <3>3. votes' \subseteq Gov!VoteRow /\ IsFiniteSet(votes') /\ call' \in [Calls -> Gov!Request]
      BY <3>1, <3>2, FS_AddElement DEF Gov!TypeOK
    <3> QED
      BY <2>0, <3>3 DEF Gov!TypeOK
  <2>2. CASE ~(call[c].valid /\ ~Gov!HasVoted(call[c].user))
    <3>1. Gov!Become(c, Gov!Idle) /\ UNCHANGED votes
      BY <1>8, <2>2 DEF Gov!InsertVote, Gov!End
    <3> QED
      BY <1>0, <2>0, <3>1, NoRowType, BecomeTypes
  <2> QED
    BY <2>1, <2>2
<1>9. ASSUME NEW c \in Calls, Gov!SaveTally(c)
      PROVE  GovTypes'
  <2>1. CASE textDecimals
    <3>1. Gov!Become(c, Gov!Idle) /\ UNCHANGED <<textDecimals, now, proposal, votes, delegations, started, stale>>
      BY <1>9, <2>1 DEF Gov!SaveTally, Gov!End
    <3> QED
      BY <1>0, <3>1, NoRowType, BecomeTypes
  <2>2. CASE ~textDecimals
    <3> DEFINE row == [call[c].ent EXCEPT !.tally[call[c].kind] = @ + call[c].power]
    <3>1. Gov!Save(c, row)
      BY <1>9, <2>2 DEF Gov!SaveTally
    <3>2. row \in Gov!ProposalRow
      BY GovRequest DEF Gov!ProposalRow
    <3> HIDE DEF row
    <3> QED
      BY <3>1, <3>2, SaveTypes
  <2> QED
    BY <2>1, <2>2
<1>10. ASSUME NEW c \in Calls,
              Gov!Approve(c) \/ Gov!Cancel(c) \/ Gov!Finalize(c) \/ Gov!Execute(c)
       PROVE  GovTypes'
  <2> DEFINE ent == call[c].ent
  <2>0. ent \in Gov!ProposalRow
    BY GovRequest
  <2> HIDE DEF ent
  <2>1. now + Period \in 0 .. MaxNow + Period
    BY <1>0
  <2>2. \/ Gov!Save(c, [ent EXCEPT !.status = "ACTIVE", !.start = now, !.end = now + Period])
        \/ \E s \in Gov!Final : Gov!Save(c, [ent EXCEPT !.status = s])
    BY <1>10 DEF Gov!Approve, Gov!Cancel, Gov!Finalize, Gov!Execute, Gov!Final, ent
  <2>3. [ent EXCEPT !.status = "ACTIVE", !.start = now, !.end = now + Period] \in Gov!ProposalRow
    BY <1>0, <2>0, <2>1 DEF Gov!ProposalRow
  <2>4. \A s \in Gov!Final : [ent EXCEPT !.status = s] \in Gov!ProposalRow
    BY <2>0 DEF Gov!ProposalRow
  <2> QED
    BY <2>2, <2>3, <2>4, SaveTypes
<1>11. CASE \E c \in Calls : \/ Gov!Step(c)
                             \/ \E op \in {"approve", "cancel", "finalize", "execute"} : Gov!Start(c, op)
                             \/ \E u \in Users, k \in Gov!Kinds : Gov!StartVote(c, u, k)
  BY <1>5, <1>6, <1>7, <1>8, <1>9, <1>10, <1>11 DEF Gov!Step
<1> QED
  BY <1>1, <1>2, <1>3, <1>4, <1>11 DEF Gov!Next

-----------------------------------------------------------------------------
(* Governance: the invariant is kept.                                      *)

Counted(k) == {v \in Of(votes, k) : ~Gov!Pending(v)}
AtMost(k) == proposal.tally[k] <= Gov!Weight(Of(votes, k))
Exact(k) == ~stale /\ ~textDecimals => proposal.tally[k] = Gov!Weight(Counted(k))

LEMMA TalliesParts == Gov!TalliesMatchVotes <=> \A k \in Gov!Kinds : AtMost(k) /\ Exact(k)
BY DEF Gov!TalliesMatchVotes, AtMost, Exact, Counted, Of, Gov!OfKind

\* Weights of the votes on record are numbers, and larger sets weigh more.
LEMMA WeightsOnRecord ==
  ASSUME GovTypes, NEW A, A \subseteq votes
  PROVE  /\ IsFiniteSet(A) /\ A \subseteq Gov!VoteRow /\ Gov!Weight(A) \in Nat
         /\ \A B : B \subseteq A => IsFiniteSet(B) /\ Gov!Weight(B) <= Gov!Weight(A) /\ Gov!Weight(B) \in Nat
<1>1. votes \subseteq Gov!VoteRow /\ IsFiniteSet(votes)
  BY DEF GovTypes, Gov!TypeOK
<1>2. IsFiniteSet(A) /\ A \subseteq Gov!VoteRow
  BY <1>1, FS_Subset
<1>3. ASSUME NEW B, B \subseteq A
      PROVE  IsFiniteSet(B) /\ Gov!Weight(B) <= Gov!Weight(A) /\ Gov!Weight(B) \in Nat
  <2>1. IsFiniteSet(B) /\ B \subseteq Gov!VoteRow
    BY <1>2, <1>3, FS_Subset
  <2> QED
    BY <1>2, <1>3, <2>1, WeightMonotone, WeightNat
<1> QED
  BY <1>2, <1>3, WeightNat

\* The tallies of a row that counted no more than is on record, all together.
LEMMA TotalOnRecord ==
  ASSUME GovTypes, NEW row \in Gov!ProposalRow, \A k \in Gov!Kinds : row.tally[k] <= Gov!Weight(Of(votes, k))
  PROVE  Gov!TotalVotes(row) <= Gov!Weight(votes)
<1>1. votes \subseteq Gov!VoteRow /\ IsFiniteSet(votes)
  BY DEF GovTypes, Gov!TypeOK
<1>2. Gov!Weight(votes) = Gov!Weight(Of(votes, "FOR")) + Gov!Weight(Of(votes, "AGAINST")) + Gov!Weight(Of(votes, "ABSTAIN"))
  BY <1>1, WeightKinds
<1>3. \A k \in Gov!Kinds : Gov!Weight(Of(votes, k)) \in Nat
  BY WeightsOnRecord DEF Of
<1>4. \A k \in Gov!Kinds : row.tally[k] \in Nat
  BY GovRow
<1>5. {"FOR", "AGAINST", "ABSTAIN"} = Gov!Kinds
  BY DEF Gov!Kinds
<1> QED
  BY <1>2, <1>3, <1>4, <1>5 DEF Gov!TotalVotes

LEMMA AsideKeeps ==
  ASSUME GovInv, GovTypes', Aside
  PROVE  GovInv'
<1>1. /\ OneVote' /\ NothingBefore' /\ Decided(proposal)' /\ \A c \in Calls : RequestOK(c)'
  BY DEF GovInv, Aside, OneVote, NothingBefore, Decided, RequestOK, EntityOK, Countable, OwnVote
<1>2. Gov!TalliesMatchVotes'
  BY DEF GovInv, Aside, Gov!TalliesMatchVotes, Gov!OfKind, Gov!Pending
<1> QED
  BY <1>1, <1>2 DEF GovInv

LEMMA CreatedKeeps ==
  ASSUME GovInv, GovTypes', Created
  PROVE  GovInv'
<1>1. /\ votes = {} /\ votes' = {} /\ call' = call /\ \A c \in Calls : call[c].pc = "idle"
      /\ \A k \in Gov!Kinds : proposal'.tally[k] = 0
      /\ proposal'.status = "PENDING"
  BY DEF GovInv, NothingBefore, Created, Gov!NoRow
<1>2. /\ OneVote' /\ NothingBefore' /\ Decided(proposal)' /\ \A c \in Calls : RequestOK(c)'
  BY <1>1 DEF OneVote, NothingBefore, Decided, RequestOK
<1>3. Gov!Weight({}) = 0
  BY SumEmpty, GovSum DEF Gov!Weight
<1>4. Gov!TalliesMatchVotes'
  <2>1. \A k \in Gov!Kinds : Gov!OfKind(k)' = {} /\ {v \in Gov!OfKind(k)' : ~Gov!Pending(v)'} = {}
    BY <1>1 DEF Gov!OfKind
  <2> QED
    BY <1>1, <1>3, <2>1 DEF Gov!TalliesMatchVotes
<1> QED
  BY <1>2, <1>4 DEF GovInv

LEMMA MovedKeeps ==
  ASSUME GovInv, GovTypes', NEW c \in Calls, NEW rec, Moved(c, rec)
  PROVE  GovInv'
<1>1. /\ call' = [call EXCEPT ![c] = rec] /\ call'[c] = rec /\ \A d \in Calls \ {c} : call'[d] = call[d]
      /\ UNCHANGED <<textDecimals, proposal, votes, stale>> /\ rec.pc # "tally"
  BY DEF GovInv, GovTypes, Gov!TypeOK, Moved
<1>2. OneVote' /\ NothingBefore'
  BY <1>1 DEF GovInv, OneVote, NothingBefore, Moved
<1>3. Decided(proposal)'
  BY <1>1 DEF GovInv, Decided
<1>4. ASSUME NEW d \in Calls PROVE RequestOK(d)'
  <2>1. CASE d # c
    <3>1. Countable(d)' = Countable(d) /\ OwnVote(d)' = OwnVote(d)
      BY <1>1, <2>1 DEF Countable, OwnVote
    <3> QED
      BY <1>1, <2>1, <3>1 DEF GovInv, RequestOK, EntityOK, Decided
  <2>2. CASE d = c
    <3>1. Countable(d)' = votes
      BY <1>1, <2>2 DEF Countable
    <3>2. rec.pc \in {"save", "insert"} => EntityOK(d)'
      <4> SUFFICES ASSUME rec.pc \in {"save", "insert"} PROVE EntityOK(d)'
        OBVIOUS
      <4>1. rec.ent = proposal /\ proposal.status # "NONE"
        BY DEF Moved
      <4>2. \A k \in Gov!Kinds : proposal.tally[k] <= Gov!Weight(Of(votes, k))
        BY TalliesParts DEF GovInv, AtMost
      <4> QED
        BY <1>1, <2>2, <3>1, <4>1, <4>2 DEF GovInv, EntityOK, Decided
    <3> QED
      BY <1>1, <2>2, <3>2 DEF RequestOK, Moved
  <2> QED
    BY <2>1, <2>2
<1>5. \A k \in Gov!Kinds : AtMost(k)' /\ Exact(k)'
  <2> TAKE k \in Gov!Kinds
  <2>1. AtMost(k)'
    BY <1>1, TalliesParts DEF GovInv, AtMost
  <2>2. CASE textDecimals
    BY <1>1, <2>1, <2>2 DEF Exact
  <2>3. CASE ~textDecimals
    <3>1. call[c].pc # "tally"
      BY <2>3 DEF Moved
    <3>2. \A v \in votes : Gov!Pending(v)' <=> Gov!Pending(v)
      BY <1>1, <3>1 DEF Gov!Pending
    <3>3. Counted(k)' = Counted(k)
      BY <1>1, <3>2 DEF Counted, Of
    <3> QED
      BY <1>1, <2>1, <3>3, TalliesParts DEF GovInv, Exact
  <2> QED
    BY <2>2, <2>3
<1> QED
  <2>1. Gov!TalliesMatchVotes'
    BY <1>5 DEF Gov!TalliesMatchVotes, AtMost, Exact, Counted, Of, Gov!OfKind
  <2> QED
    BY <1>2, <1>3, <1>4, <2>1 DEF GovInv

\* A set of rows weighs at least as much as any part of it, kind by kind too.
LEMMA WeightsGrow ==
  ASSUME NEW B, IsFiniteSet(B), B \subseteq Gov!VoteRow, NEW A, A \subseteq B
  PROVE  /\ Gov!Weight(A) \in Nat /\ Gov!Weight(B) \in Nat /\ Gov!Weight(A) <= Gov!Weight(B)
         /\ \A k : /\ Gov!Weight(Of(A, k)) \in Nat /\ Gov!Weight(Of(B, k)) \in Nat
                   /\ Gov!Weight(Of(A, k)) <= Gov!Weight(Of(B, k))
<1>1. IsFiniteSet(A) /\ A \subseteq Gov!VoteRow
  BY FS_Subset
<1>2. ASSUME NEW k
      PROVE  /\ Gov!Weight(Of(A, k)) \in Nat /\ Gov!Weight(Of(B, k)) \in Nat
             /\ Gov!Weight(Of(A, k)) <= Gov!Weight(Of(B, k))
  <2>1. /\ Of(A, k) \subseteq Of(B, k) /\ Of(B, k) \subseteq B /\ Of(A, k) \subseteq B
    BY DEF Of
  <2>2. IsFiniteSet(Of(A, k)) /\ IsFiniteSet(Of(B, k))
    BY <2>1, FS_Subset
  <2>3. Of(A, k) \subseteq Gov!VoteRow /\ Of(B, k) \subseteq Gov!VoteRow
    BY <2>1
  <2> QED
    BY <2>1, <2>2, <2>3, WeightNat, WeightMonotone
<1> QED
  BY <1>1, <1>2, WeightNat, WeightMonotone

LEMMA InsertedKeeps ==
  ASSUME Gov!Assumptions, GovInv, GovTypes', NEW c \in Calls, Inserted(c)
  PROVE  GovInv'
<1> DEFINE own == OwnVote(c)
<1>0. GovTypes /\ Gov!TypeOK /\ Quorum \in Nat
  BY DEF GovInv, GovTypes, Gov!Assumptions
<1>1. /\ call'[c].pc = "tally" /\ call'[c].ent = call[c].ent /\ call'[c].user = call[c].user
      /\ call'[c].kind = call[c].kind /\ call'[c].power = call[c].power
      /\ \A d \in Calls \ {c} : call'[d] = call[d]
  BY <1>0, GovRequest DEF Gov!TypeOK, Gov!Request, Inserted
<1>2. call[c].pc = "insert" /\ votes' = votes \cup {own} /\ UNCHANGED <<textDecimals, proposal, stale>>
  BY DEF Inserted
<1>3. \A v \in votes : v.voter # call[c].user
  BY DEF Inserted, Gov!HasVoted
<1>4. own.voter = call[c].user /\ own \notin votes /\ OwnVote(c)' = own
  BY <1>1, <1>3 DEF OwnVote
<1>5. \A d \in Calls \ {c} : OwnVote(d)' = OwnVote(d) /\ OwnVote(d).voter = call[d].user
  BY <1>1 DEF OwnVote
<1> HIDE DEF own
<1>6. OneVote'
  <2>1. \A v, w \in votes' : v.voter = w.voter => v = w
    BY <1>2, <1>3, <1>4 DEF GovInv, OneVote
  <2>2. \A d \in Calls \ {c} : call[d].pc = "tally" => call[d].user # call[c].user
    BY <1>3, <1>5 DEF GovInv, RequestOK
  <2> QED
    BY <1>1, <2>1, <2>2 DEF GovInv, OneVote
<1>7. proposal.status # "NONE" /\ NothingBefore'
  BY <1>2 DEF GovInv, NothingBefore
<1>8. /\ IsFiniteSet(votes') /\ votes' \subseteq Gov!VoteRow /\ votes \subseteq votes'
      /\ IsFiniteSet(votes) /\ votes \subseteq Gov!VoteRow
  BY <1>0, <1>2 DEF GovTypes, Gov!TypeOK
<1>9. ASSUME NEW row \in Gov!ProposalRow, Decided(row)
      PROVE  row.status \in {"PASSED", "EXECUTED"} => Gov!Weight(votes') * 100 >= row.supply * Quorum
  <2>1. Gov!Weight(votes) \in Nat /\ Gov!Weight(votes') \in Nat /\ Gov!Weight(votes) <= Gov!Weight(votes')
    BY <1>8, WeightsGrow
  <2>2. row.supply * Quorum \in Int
    BY <1>0, GovRow
  <2> QED
    BY <1>9, <2>1, <2>2 DEF Decided
<1>10. Decided(proposal)'
  BY <1>0, <1>2, <1>9 DEF GovInv, Decided, Gov!TypeOK
<1>11. ASSUME NEW d \in Calls PROVE RequestOK(d)'
  <2>0. call[d].ent \in Gov!ProposalRow /\ call'[d].ent = call[d].ent
    BY <1>0, <1>1, GovRequest
  <2>1. Countable(d) \subseteq Countable(d)' /\ Countable(d)' \subseteq votes'
    BY <1>1, <1>2, <1>4, <1>5 DEF Countable
  <2>2. IsFiniteSet(Countable(d)') /\ Countable(d)' \subseteq Gov!VoteRow
    BY <1>8, <2>1, FS_Subset
  <2>3. call[d].pc \in {"save", "insert", "tally"} => EntityOK(d)'
    <3> SUFFICES ASSUME EntityOK(d) PROVE EntityOK(d)'
      BY DEF GovInv, RequestOK
    <3>1. \A k \in Gov!Kinds : call[d].ent.tally[k] <= Gov!Weight(Of(Countable(d)', k))
      <4> TAKE k \in Gov!Kinds
      <4>1. call[d].ent.tally[k] <= Gov!Weight(Of(Countable(d), k)) /\ call[d].ent.tally[k] \in Nat
        BY <2>0, GovRow DEF EntityOK
      <4>2. /\ Gov!Weight(Of(Countable(d), k)) \in Nat /\ Gov!Weight(Of(Countable(d)', k)) \in Nat
            /\ Gov!Weight(Of(Countable(d), k)) <= Gov!Weight(Of(Countable(d)', k))
        BY <2>1, <2>2, WeightsGrow
      <4> QED
        BY <4>1, <4>2
    <3>2. Decided(call[d].ent)'
      BY <1>9, <2>0 DEF EntityOK, Decided
    <3> QED
      BY <1>2, <2>0, <3>1, <3>2 DEF EntityOK
  <2>4. CASE d = c
    BY <1>1, <1>2, <1>4, <2>3, <2>4 DEF RequestOK
  <2>5. CASE d # c
    BY <1>1, <1>2, <1>5, <2>3, <2>5 DEF GovInv, RequestOK
  <2> QED
    BY <2>4, <2>5
<1>12. \A k \in Gov!Kinds : AtMost(k)' /\ Exact(k)'
  <2> TAKE k \in Gov!Kinds
  <2>1. AtMost(k) /\ Exact(k)
    BY TalliesParts DEF GovInv
  <2>2. AtMost(k)'
    <3>1. proposal.tally[k] \in Nat
      BY <1>0, GovRow DEF Gov!TypeOK
    <3>2. /\ Gov!Weight(Of(votes, k)) \in Nat /\ Gov!Weight(Of(votes', k)) \in Nat
          /\ Gov!Weight(Of(votes, k)) <= Gov!Weight(Of(votes', k))
      BY <1>8, WeightsGrow
    <3> QED
      BY <1>2, <2>1, <3>1, <3>2 DEF AtMost
  <2>3. \A v \in votes : Gov!Pending(v)' <=> Gov!Pending(v)
    BY <1>1, <1>2, <1>3 DEF Gov!Pending
  <2>4. ASSUME NEW v, v = own PROVE Gov!Pending(v)'
    BY <1>1, <1>4, <2>4 DEF Gov!Pending
  <2>5. Counted(k)' = Counted(k)
    BY <1>2, <2>3, <2>4 DEF Counted, Of
  <2> QED
    BY <1>2, <2>1, <2>2, <2>5 DEF Exact
<1> QED
  <2>1. Gov!TalliesMatchVotes'
    BY <1>12 DEF Gov!TalliesMatchVotes, AtMost, Exact, Counted, Of, Gov!OfKind
  <2> QED
    BY <1>6, <1>7, <1>10, <1>11, <2>1 DEF GovInv

LEMMA DecidesKeeps ==
  ASSUME Gov!Assumptions, GovInv, GovTypes', NEW c \in Calls, NEW row, Decides(c, row)
  PROVE  GovInv'
<1> DEFINE ent == call[c].ent
<1>0. GovTypes /\ Gov!TypeOK /\ Quorum \in Nat
  BY DEF GovInv, GovTypes, Gov!Assumptions
<1>1. call'[c].pc = "idle" /\ \A d \in Calls \ {c} : call'[d] = call[d]
  BY <1>0 DEF Gov!TypeOK, Decides, Gov!Idle
<1>2. /\ call[c].pc = "save" /\ proposal' = row /\ UNCHANGED <<textDecimals, votes>>
      /\ row.supply = ent.supply /\ row.tally = ent.tally /\ row.status # "NONE"
      /\ stale' = (stale \/ proposal # ent)
  BY DEF Decides
<1>3. EntityOK(c) /\ RequestOK(c)
  BY <1>2 DEF GovInv, RequestOK
<1>4. row.supply = proposal.supply /\ Decided(ent)
  BY <1>2, <1>3 DEF EntityOK
<1>5. ent \in Gov!ProposalRow /\ proposal \in Gov!ProposalRow
  BY <1>0, GovRequest DEF Gov!TypeOK
<1>6. \A k \in Gov!Kinds : ent.tally[k] <= Gov!Weight(Of(votes, k))
  BY <1>2, <1>3 DEF EntityOK, Countable
<1>7. \A k \in Gov!Kinds : AtMost(k) /\ Exact(k)
  BY TalliesParts DEF GovInv
<1> HIDE DEF ent
<1>8. OneVote' /\ NothingBefore'
  BY <1>1, <1>2 DEF GovInv, OneVote, NothingBefore
<1>9. Decided(proposal)'
  <2>1. CASE call[c].op = "execute"
    <3>1. ent.status = "PASSED"
      BY <1>2, <1>3, <2>1 DEF RequestOK, ent
    <3> QED
      BY <1>2, <1>4, <3>1 DEF Decided
  <2>2. CASE Gov!ProposalHasPassed(proposal)
    <3>1. Gov!TotalVotes(proposal) * 100 >= proposal.supply * Quorum
      BY <2>2 DEF Gov!ProposalHasPassed, Gov!CheckQuorumMet
    <3>2. Gov!TotalVotes(proposal) <= Gov!Weight(votes)
      BY <1>0, <1>5, <1>7, TotalOnRecord DEF AtMost
    <3>3. Gov!TotalVotes(proposal) \in Nat /\ Gov!Weight(votes) \in Nat
      <4>1. {"FOR", "AGAINST", "ABSTAIN"} = Gov!Kinds
        BY DEF Gov!Kinds
      <4> QED
        BY <1>0, <1>5, <4>1, GovRow, WeightsOnRecord DEF Gov!TotalVotes
    <3>4. proposal.supply * Quorum \in Int
      BY <1>0, <1>5, GovRow
    <3> QED
      BY <1>2, <1>4, <3>1, <3>2, <3>3, <3>4 DEF Decided
  <2>3. CASE row.status \notin {"PASSED", "EXECUTED"}
    BY <1>2, <2>3 DEF Decided
  <2> QED
    BY <2>1, <2>2, <2>3 DEF Decides
<1>10. ASSUME NEW d \in Calls PROVE RequestOK(d)'
  <2>1. CASE d = c
    BY <1>1, <2>1 DEF RequestOK
  <2>2. CASE d # c
    <3>1. Countable(d)' = Countable(d) /\ OwnVote(d)' = OwnVote(d)
      BY <1>1, <1>2, <2>2 DEF Countable, OwnVote
    <3> QED
      BY <1>1, <1>2, <1>4, <2>2, <3>1 DEF GovInv, RequestOK, EntityOK, Decided
  <2> QED
    BY <2>1, <2>2
<1>11. \A k \in Gov!Kinds : AtMost(k)' /\ Exact(k)'
  <2> TAKE k \in Gov!Kinds
  <2>1. AtMost(k)'
    BY <1>2, <1>6 DEF AtMost
  <2>2. \A v \in votes : Gov!Pending(v)' <=> Gov!Pending(v)
    BY <1>1, <1>2 DEF Gov!Pending
  <2>3. Counted(k)' = Counted(k)
    BY <1>2, <2>2 DEF Counted, Of
  <2>4. ~stale' => ~stale /\ proposal = ent
    BY <1>2
  <2> QED
    BY <1>2, <1>7, <2>1, <2>3, <2>4 DEF Exact
<1> QED
  <2>1. Gov!TalliesMatchVotes'
    BY <1>11 DEF Gov!TalliesMatchVotes, AtMost, Exact, Counted, Of, Gov!OfKind
  <2> QED
    BY <1>8, <1>9, <1>10, <2>1 DEF GovInv

LEMMA TalliedKeeps ==
  ASSUME Gov!Assumptions, GovInv, GovTypes', NEW c \in Calls, Tallied(c)
  PROVE  GovInv'
<1> DEFINE ent == call[c].ent
           own == OwnVote(c)
           kind == call[c].kind
           power == call[c].power
<1>0. GovTypes /\ Gov!TypeOK /\ Quorum \in Nat
  BY DEF GovInv, GovTypes, Gov!Assumptions
<1>1. call'[c].pc = "idle" /\ \A d \in Calls \ {c} : call'[d] = call[d]
  BY <1>0 DEF Gov!TypeOK, Tallied, Gov!Idle
<1>2. /\ call[c].pc = "tally" /\ UNCHANGED <<textDecimals, votes>>
      /\ stale' = (stale \/ proposal # ent) /\ proposal' = [ent EXCEPT !.tally[kind] = @ + power]
  BY DEF Tallied
<1>3. ent \in Gov!ProposalRow /\ kind \in Gov!Kinds /\ power \in Nat /\ proposal \in Gov!ProposalRow
  BY <1>0, GovRequest DEF Gov!TypeOK
<1>4. EntityOK(c) /\ own \in votes
  BY <1>2 DEF GovInv, RequestOK
<1>5. own.voter = call[c].user /\ own.kind = kind /\ own.weight = power
  BY DEF OwnVote
<1>6. \A k \in Gov!Kinds : ent.tally[k] <= Gov!Weight(Of(votes \ {own}, k)) /\ ent.tally[k] \in Nat
  BY <1>2, <1>3, <1>4, GovRow DEF EntityOK, Countable
<1>7. ent.supply = proposal.supply /\ Decided(ent) /\ ent.status # "NONE"
  BY <1>4 DEF EntityOK
<1>8. \A k \in Gov!Kinds : AtMost(k) /\ Exact(k)
  BY TalliesParts DEF GovInv
<1> HIDE DEF ent, own, kind, power
<1>9. /\ proposal'.supply = ent.supply /\ proposal'.status = ent.status
      /\ \A k \in Gov!Kinds : proposal'.tally[k] = IF k = kind THEN ent.tally[k] + power ELSE ent.tally[k]
  BY <1>2, <1>3 DEF Gov!ProposalRow
<1>10. OneVote' /\ NothingBefore'
  BY <1>1, <1>2, <1>7, <1>9 DEF GovInv, OneVote, NothingBefore
<1>11. Decided(proposal)'
  BY <1>2, <1>7, <1>9 DEF Decided
<1>12. ASSUME NEW d \in Calls PROVE RequestOK(d)'
  <2>1. CASE d = c
    BY <1>1, <2>1 DEF RequestOK
  <2>2. CASE d # c
    <3>1. Countable(d)' = Countable(d) /\ OwnVote(d)' = OwnVote(d)
      BY <1>1, <1>2, <2>2 DEF Countable, OwnVote
    <3> QED
      BY <1>1, <1>2, <1>7, <1>9, <2>2, <3>1 DEF GovInv, RequestOK, EntityOK, Decided
  <2> QED
    BY <2>1, <2>2
<1>13. /\ IsFiniteSet(votes) /\ votes \subseteq Gov!VoteRow /\ own \in Gov!VoteRow
  BY <1>0, <1>4 DEF GovTypes, Gov!TypeOK
<1>14. ASSUME NEW k \in Gov!Kinds PROVE AtMost(k)'
  <2>1. /\ Gov!Weight(Of(votes \ {own}, k)) \in Nat /\ Gov!Weight(Of(votes, k)) \in Nat
        /\ Gov!Weight(Of(votes \ {own}, k)) <= Gov!Weight(Of(votes, k))
    BY <1>13, WeightsGrow
  <2>2. CASE k # kind
    BY <1>2, <1>6, <1>9, <2>1, <2>2 DEF AtMost
  <2>3. CASE k = kind
    <3> DEFINE S == Of(votes \ {own}, k)
    <3>1. S \cup {own} = Of(votes, k) /\ own \notin S /\ S \subseteq votes
      BY <1>4, <1>5, <2>3 DEF Of
    <3> HIDE DEF S
    <3>2. Gov!Weight(S \cup {own}) = Gov!Weight(S) + power
      BY <1>5, <1>13, <3>1, FS_Subset, WeightAdd
    <3>3. Gov!Weight(Of(votes, k)) = Gov!Weight(Of(votes \ {own}, k)) + power
      BY <3>1, <3>2 DEF S
    <3>4. ent.tally[k] <= Gov!Weight(Of(votes \ {own}, k)) /\ ent.tally[k] \in Nat
      BY <1>6
    <3>5. proposal'.tally[k] = ent.tally[k] + power
      BY <1>9, <2>3
    <3>6. proposal'.tally[k] <= Gov!Weight(Of(votes, k))
      BY <1>3, <2>1, <3>3, <3>4, <3>5
    <3> QED
      BY <1>2, <3>6 DEF AtMost
  <2> QED
    BY <2>2, <2>3
<1>15. ASSUME NEW k \in Gov!Kinds PROVE Exact(k)'
  <2> SUFFICES ASSUME ~stale', ~textDecimals'
               PROVE  proposal'.tally[k] = Gov!Weight(Counted(k)')
    BY DEF Exact
  <2>1. proposal = ent /\ ent.tally[k] = Gov!Weight(Counted(k))
    BY <1>2, <1>8 DEF Exact
  <2>2. \A v \in votes : v.voter = own.voter => v = own
    BY <1>4 DEF GovInv, OneVote
  <2>3. \A v \in votes : v # own => (Gov!Pending(v)' <=> Gov!Pending(v))
    BY <1>1, <1>2, <1>5, <2>2 DEF Gov!Pending
  <2>4. \A v : v = own => Gov!Pending(v) /\ ~Gov!Pending(v)'
    BY <1>1, <1>2, <1>5 DEF Gov!Pending, GovInv, OneVote
  <2>5. CASE k # kind
    <3>1. Counted(k)' = Counted(k)
      BY <1>2, <1>5, <2>3, <2>5 DEF Counted, Of
    <3> QED
      BY <1>9, <2>1, <2>5, <3>1
  <2>6. CASE k = kind
    <3>1. Counted(k)' = Counted(k) \cup {own} /\ own \notin Counted(k) /\ Counted(k) \subseteq votes
      BY <1>2, <1>4, <1>5, <2>3, <2>4, <2>6 DEF Counted, Of
    <3>2. Gov!Weight(Counted(k) \cup {own}) = Gov!Weight(Counted(k)) + power
      BY <1>5, <1>13, <3>1, FS_Subset, WeightAdd
    <3> QED
      BY <1>9, <2>1, <2>6, <3>1, <3>2
  <2> QED
    BY <2>5, <2>6
<1> QED
  <2>1. Gov!TalliesMatchVotes'
    BY <1>14, <1>15 DEF Gov!TalliesMatchVotes, AtMost, Exact, Counted, Of, Gov!OfKind
  <2> QED
    BY <1>10, <1>11, <1>12, <2>1 DEF GovInv

-----------------------------------------------------------------------------
(* Governance: theorems.                                                   *)

LEMMA GovInit ==
  ASSUME Gov!Assumptions, Gov!Init
  PROVE  GovInv
<1>1. GovTypes
  <2>1. Gov!NoRow \in Gov!ProposalRow /\ Gov!Idle \in Gov!Request /\ IsFiniteSet({})
    BY NoRowType, FS_EmptySet
  <2>2. 0 \in 0 .. MaxNow /\ 0 \in 0 .. MaxStarts
    BY DEF Gov!Assumptions
  <2> QED
    BY <2>1, <2>2 DEF Gov!Init, GovTypes, Gov!TypeOK
<1>2. /\ proposal = Gov!NoRow /\ proposal.status = "NONE" /\ votes = {} /\ \A k \in Gov!Kinds : proposal.tally[k] = 0
      /\ \A c \in Calls : call[c].pc = "idle"
  BY DEF Gov!Init, Gov!NoRow, Gov!Idle
<1>3. OneVote /\ NothingBefore /\ Decided(proposal) /\ \A c \in Calls : RequestOK(c)
  BY <1>2 DEF OneVote, NothingBefore, Decided, RequestOK
<1>4. Gov!Weight({}) = 0
  BY SumEmpty, GovSum DEF Gov!Weight
<1>5. Gov!TalliesMatchVotes
  <2>1. \A k \in Gov!Kinds : Gov!OfKind(k) = {} /\ {v \in Gov!OfKind(k) : ~Gov!Pending(v)} = {}
    BY <1>2 DEF Gov!OfKind
  <2> QED
    BY <1>2, <1>4, <2>1 DEF Gov!TalliesMatchVotes
<1> QED
  BY <1>1, <1>3, <1>5 DEF GovInv

LEMMA GovInvKept ==
  ASSUME Gov!Assumptions, GovInv, [Gov!Next]_Gov!vars
  PROVE  GovInv'
<1>1. CASE UNCHANGED Gov!vars
  <2>1. Aside /\ GovTypes'
    BY <1>1 DEF GovInv, GovTypes, Gov!vars, Aside, Gov!TypeOK
  <2> QED
    BY <2>1, AsideKeeps
<1>2. CASE Gov!Next
  <2>1. GovTypes'
    BY <1>2, GovTypesKept DEF GovInv
  <2>2. \/ Aside \/ Created
        \/ \E c \in Calls : (\E rec : Moved(c, rec)) \/ Inserted(c) \/ (\E row : Decides(c, row)) \/ Tallied(c)
    BY <1>2, GovSteps DEF GovInv, GovTypes
  <2> QED
    BY <2>1, <2>2, AsideKeeps, CreatedKeeps, MovedKeeps, InsertedKeeps, DecidesKeeps, TalliedKeeps
<1> QED
  BY <1>1, <1>2

\* The rows of src/governance keep the shapes of their columns, and every
\* request an entity that could have been read from one of them.
THEOREM GovTypeCorrect ==
  ASSUME Gov!Assumptions
  PROVE  Gov!Spec => []Gov!TypeOK
<1>1. GovInv => Gov!TypeOK
  BY DEF GovInv, GovTypes
<1> QED
  BY <1>1, GovInit, GovInvKept, PTL DEF Gov!Spec

\* castVote never credits a tally with more than the votes on record, however
\* many requests overlap, and is exact while no save overwrote a newer row.
THEOREM TalliesAlwaysMatchVotes ==
  ASSUME Gov!Assumptions
  PROVE  Gov!Spec => []Gov!TalliesMatchVotes
<1>1. GovInv => Gov!TalliesMatchVotes
  BY DEF GovInv
<1> QED
  BY <1>1, GovInit, GovInvKept, PTL DEF Gov!Spec

\* A proposal that says PASSED or EXECUTED has a quorum of votes on record,
\* whatever finalizeProposal, executeProposal and approveProposal raced with.
THEOREM PassedAlwaysWithQuorum ==
  ASSUME Gov!Assumptions
  PROVE  Gov!Spec => []Gov!PassedWithQuorum
<1>1. GovInv => Gov!PassedWithQuorum
  BY DEF GovInv, Decided, Gov!PassedWithQuorum
<1> QED
  BY <1>1, GovInit, GovInvKept, PTL DEF Gov!Spec

\* No step of src/governance makes a decided proposal votable again, except
\* approveProposal and the save of an entity read before the decision.
THEOREM AlwaysReopenedOnlyByApproval ==
  ASSUME Gov!Assumptions
  PROVE  Gov!Spec => Gov!ReopenedOnlyByApproval
<1> DEFINE Reopening == /\ proposal.status \in Gov!Final /\ proposal'.status = "ACTIVE"
           Excuse == stale' \/ \E c \in Calls : call[c].op = "approve" /\ call'[c].pc = "idle"
<1>1. ASSUME GovInv, [Gov!Next]_Gov!vars
      PROVE  [Reopening => Excuse]_Gov!vars
  <2> SUFFICES ASSUME Gov!Next, Reopening PROVE Excuse
    BY <1>1
  <2>0. Gov!TypeOK /\ proposal.status # proposal'.status /\ proposal.status # "NONE"
    BY <1>1 DEF GovInv, GovTypes, Gov!Final
  <2>1. \/ Aside \/ Created
        \/ \E c \in Calls : (\E rec : Moved(c, rec)) \/ Inserted(c) \/ (\E row : Decides(c, row)) \/ Tallied(c)
    BY <1>1, GovSteps DEF GovInv, GovTypes
  <2>2. \E c \in Calls : (\E row : Decides(c, row)) \/ Tallied(c)
    BY <2>0, <2>1 DEF Aside, Created, Moved, Inserted
  <2>3. ASSUME NEW c \in Calls, NEW row, Decides(c, row) PROVE Excuse
    <3>1. call[c].op = "approve" /\ call'[c].pc = "idle"
      BY <2>0, <2>3 DEF Decides, Gov!Idle, Gov!TypeOK
    <3> QED
      BY <3>1
  <2>4. ASSUME NEW c \in Calls, Tallied(c) PROVE Excuse
    <3>1. proposal'.status = call[c].ent.status
      BY <2>0, <2>4, GovRequest DEF Tallied, Gov!ProposalRow
    <3>2. proposal # call[c].ent
      BY <2>0, <3>1
    <3> QED
      BY <2>4, <3>2 DEF Tallied
  <2> QED
    BY <2>2, <2>3, <2>4
<1> QED
  BY <1>1, GovInit, GovInvKept, PTL DEF Gov!Spec, Gov!ReopenedOnlyByApproval

-----------------------------------------------------------------------------
(* Liquidity pools: arithmetic.                                            *)

\* The instance's operators are the library's.
LEMMA PoolLibrary ==
  /\ \A f, S : Pool!SumFunctionOnSet(f, S) = SumFunctionOnSet(f, S)
  /\ \A S : Pool!Cardinality(S) = Cardinality(S)
  /\ \A S : Pool!IsFiniteSet(S) <=> IsFiniteSet(S)
<1>1. \A f, S : Pool!SumFunctionOnSet(f, S) = SumFunctionOnSet(f, S)
  BY DEF Pool!SumFunctionOnSet, SumFunctionOnSet, Pool!FoldFunctionOnSet, FoldFunctionOnSet,
         Pool!MapThenFoldSet, MapThenFoldSet
<1>2. \A S : Pool!IsFiniteSet(S) <=> IsFiniteSet(S)
  BY DEF Pool!IsFiniteSet, IsFiniteSet
<1>3. \A S : Pool!Cardinality(S) = Cardinality(S)
  BY DEF Pool!Cardinality, Cardinality
<1> QED
  BY <1>1, <1>2, <1>3

LEMMA PoolConstants ==
  ASSUME Pool!Assumptions
  PROVE  /\ Providers # {} /\ IsFiniteSet(Providers) /\ IsFiniteSet(Calls) /\ "pool" \notin Providers /\ "row" \notin Providers
         /\ FeeBps \in 0 .. 10000 /\ Amounts \subseteq Nat /\ MaxRequests \in Nat /\ Cardinality(Providers) \in Nat
<1>1. IsFiniteSet(Providers) /\ IsFiniteSet(Calls)
  BY PoolLibrary DEF Pool!Assumptions
<1>2. Cardinality(Providers) \in Nat
  BY <1>1, FS_CardinalityType
<1> QED
  BY <1>1, <1>2 DEF Pool!Assumptions

LEMMA Quotient ==
  ASSUME NEW n \in Nat, NEW d \in Nat, d > 0
  PROVE  n \div d \in Nat /\ d * (n \div d) <= n
OBVIOUS

LEMMA RoundBounds ==
  ASSUME NEW n \in Nat, NEW d \in Nat, d > 0
  PROVE  Pool!Round(n, d) \in Nat /\ 2 * d * Pool!Round(n, d) <= 2 * n + d
<1>1. 2 * n + d \in Nat /\ 2 * d \in Nat /\ 2 * d > 0
  OBVIOUS
<1> QED
  BY <1>1, Quotient DEF Pool!Round

\* What a position is credited, times the supply.
LEMMA ShareBound ==
  ASSUME NEW fee \in Nat, NEW lp \in Nat, NEW total \in Nat
  PROVE  /\ Pool!DistributeFees(fee, lp, total) \in Nat
         /\ total * Pool!DistributeFees(fee, lp, total) <= fee * lp + total
         /\ total = 0 => Pool!DistributeFees(fee, lp, total) = 0
<1>1. fee * lp \in Nat
  OBVIOUS
<1>2. CASE total <= 0 \/ lp <= 0
  BY <1>1, <1>2 DEF Pool!DistributeFees
<1>3. CASE ~(total <= 0 \/ lp <= 0)
  <2> DEFINE r == Pool!Round(fee * lp, total)
  <2>1. r \in Nat /\ 2 * total * r <= 2 * (fee * lp) + total
    BY <1>1, <1>3, RoundBounds
  <2>2. Pool!DistributeFees(fee, lp, total) = r
    BY <1>3 DEF Pool!DistributeFees
  <2> HIDE DEF r
  <2>3. total * r \in Nat /\ 2 * total * r = 2 * (total * r)
    BY <2>1
  <2> QED
    BY <1>1, <1>3, <2>1, <2>2, <2>3
<1> QED
  BY <1>2, <1>3

\* Sums of shares: the bounds of the terms add up.
LEMMA SharesAddUp ==
  ASSUME NEW S, IsFiniteSet(S), NEW r, NEW l, NEW d \in Nat, NEW fee \in Nat,
         \A x \in S : r[x] \in Nat /\ l[x] \in Nat /\ d * r[x] <= fee * l[x] + d
  PROVE  d * SumFunctionOnSet(r, S) <= fee * SumFunctionOnSet(l, S) + d * Cardinality(S)
<1> DEFINE R(s) == SumFunctionOnSet(r, s)
           L(s) == SumFunctionOnSet(l, s)
           Good(s) == d * R(s) <= fee * L(s) + d * Cardinality(s)
           F == {s \in SUBSET S : ~Good(s)}
<1> SUFFICES ASSUME F # {} PROVE FALSE
  OBVIOUS
<1>1. PICK s \in F : \A u \in F : u \subseteq s => u = s
  <2>1. F \in SUBSET SUBSET S
    OBVIOUS
  <2> HIDE DEF F
  <2> QED
    BY <2>1, SmallestSet
<1>2. s \subseteq S /\ IsFiniteSet(s) /\ R(s) \in Nat /\ L(s) \in Nat /\ Cardinality(s) \in Nat /\ ~Good(s)
  BY <1>1, FS_Subset, SumNonnegative, FS_CardinalityType
<1>3. s # {}
  <2>1. R({}) = 0 /\ L({}) = 0 /\ Cardinality({}) = 0
    BY SumEmpty, FS_EmptySet
  <2>2. Good({})
    BY <2>1
  <2> QED
    BY <1>2, <2>2
<1>4. PICK e : e \in s
  BY <1>3
<1> DEFINE u == s \ {e}
<1>5. u \subseteq S /\ u # s /\ u \subseteq s /\ IsFiniteSet(u)
  BY <1>2, <1>4, FS_Subset
<1>6. Good(u)
  BY <1>1, <1>5
<1>7. R(u) \in Nat /\ L(u) \in Nat /\ Cardinality(u) \in Nat /\ Cardinality(u) = Cardinality(s) - 1
  BY <1>2, <1>4, <1>5, SumNonnegative, FS_CardinalityType, FS_RemoveElement
<1>8. R(s) = r[e] + R(u) /\ L(s) = l[e] + L(u)
  BY <1>2, <1>4, SumRemove
<1>9. r[e] \in Nat /\ l[e] \in Nat /\ d * r[e] <= fee * l[e] + d
  BY <1>2, <1>4
<1> HIDE DEF R, L, u
<1>10. /\ d * (r[e] + R(u)) = d * r[e] + d * R(u) /\ fee * (l[e] + L(u)) = fee * l[e] + fee * L(u)
       /\ d * Cardinality(s) = d * Cardinality(u) + d
  BY <1>2, <1>7, <1>9
<1>11. /\ d * r[e] \in Int /\ d * R(u) \in Int /\ fee * l[e] \in Int /\ fee * L(u) \in Int
       /\ d * Cardinality(u) \in Int
  BY <1>7, <1>9
<1>12. Good(s)
  BY <1>6, <1>8, <1>9, <1>10, <1>11
<1> QED
  BY <1>2, <1>12

\* What all positions are credited, when they add up to the supply.
LEMMA SharesBound ==
  ASSUME NEW S, IsFiniteSet(S), NEW l, NEW r, NEW fee \in Nat, NEW total, total = SumFunctionOnSet(l, S),
         \A x \in S : l[x] \in Nat /\ (r[x] = 0 \/ r[x] = Pool!DistributeFees(fee, l[x], total))
  PROVE  SumFunctionOnSet(r, S) <= fee + Cardinality(S)
<1> DEFINE R == SumFunctionOnSet(r, S)
<1>1. total \in Nat /\ Cardinality(S) \in Nat
  BY SumNonnegative, FS_CardinalityType
<1>2. \A x \in S : /\ r[x] \in Nat /\ l[x] \in Nat /\ total * r[x] <= fee * l[x] + total
                   /\ total = 0 => r[x] = 0
  <2> TAKE x \in S
  <2>1. l[x] \in Nat /\ (r[x] = 0 \/ r[x] = Pool!DistributeFees(fee, l[x], total))
    OBVIOUS
  <2>2. CASE r[x] = 0
    <3>1. total * 0 = 0 /\ fee * l[x] \in Nat
      BY <1>1, <2>1
    <3> QED
      BY <1>1, <2>1, <2>2, <3>1
  <2>3. CASE r[x] # 0
    BY <1>1, <2>1, <2>3, ShareBound
  <2> QED
    BY <2>2, <2>3
<1>3. R \in Nat
  BY <1>2, SumNonnegative
<1> HIDE DEF R
<1>4. CASE total = 0
  <2>1. R = 0
    BY <1>2, <1>4, SumZero DEF R
  <2> QED
    BY <1>1, <2>1 DEF R
<1>5. CASE total > 0
  <2> DEFINE n == fee + Cardinality(S)
  <2>1. total * R <= fee * total + total * Cardinality(S)
    BY <1>1, <1>2, SharesAddUp DEF R
  <2>2. n \in Nat /\ fee * total + total * Cardinality(S) = total * n
    BY <1>1
  <2> HIDE DEF n
  <2>3. R <= n
    BY <1>1, <1>3, <1>5, <2>1, <2>2
  <2> QED
    BY <2>3 DEF R, n
<1> QED
  BY <1>1, <1>4, <1>5

\* A swap does not lower the product of the reserves by more than its rounding.
LEMMA OutBound ==
  ASSUME FeeBps \in 0 .. 10000, NEW a \in Nat, a > 0, NEW b \in Nat, NEW in \in Nat
  PROVE  /\ Pool!Minus(b, Pool!GetAmountOut(in, a, b)) \in Nat
         /\ 2 * (a + in) * Pool!Minus(b, Pool!GetAmountOut(in, a, b)) + (a + in) >= 2 * a * b
<1> DEFINE w == Pool!WithFee(in)
           d == 10000 * a + w
           out == Pool!Round(w * b, d)
           new == Pool!Minus(b, out)
           sum == a + in
<1>1. w \in Nat /\ w <= 10000 * in
  BY DEF Pool!WithFee
<1> HIDE DEF w
<1>2. d \in Nat /\ d > 0 /\ w * b \in Nat /\ d <= 10000 * sum
  BY <1>1
<1>3. out \in Nat /\ 2 * d * out <= 2 * (w * b) + d
  <2> HIDE DEF d
  <2> QED
    BY <1>2, RoundBounds
<1> HIDE DEF out
<1>4. new \in Nat /\ new >= b - out
  BY <1>3 DEF Pool!Minus
<1> HIDE DEF new
<1>5. 2 * d * new >= 2 * d * b - 2 * d * out
  <2>1. 2 * d * new >= 2 * d * (b - out)
    BY <1>2, <1>3, <1>4
  <2> QED
    BY <1>2, <1>3, <1>4, <2>1
<1>6. 2 * d * b = 20000 * (a * b) + 2 * (w * b)
  BY <1>1
<1> HIDE DEF d
<1>7. d * (2 * new + 1) >= 20000 * (a * b)
  <2>1. d * (2 * new + 1) = 2 * d * new + d
    BY <1>2, <1>4
  <2>2. 2 * d * new \in Int /\ 2 * d * b \in Int /\ 2 * d * out \in Int /\ w * b \in Int /\ a * b \in Int
    BY <1>1, <1>2, <1>3, <1>4
  <2> QED
    BY <1>2, <1>3, <1>5, <1>6, <2>1, <2>2
<1>8. 10000 * (sum * (2 * new + 1)) >= 20000 * (a * b)
  <2> DEFINE k == 2 * new + 1
  <2>1. k \in Nat
    BY <1>4
  <2> HIDE DEF k
  <2>2. d * k <= 10000 * sum * k
    BY <1>2, <2>1
  <2>3. 10000 * sum * k = 10000 * (sum * k) /\ sum * k \in Int /\ d * k \in Int /\ a * b \in Int
    BY <1>2, <2>1
  <2>4. d * k >= 20000 * (a * b)
    BY <1>7 DEF k
  <2>5. 10000 * (sum * k) >= 20000 * (a * b)
    BY <2>2, <2>3, <2>4
  <2> QED
    BY <2>5 DEF k
<1>9. 2 * sum * new + sum >= 2 * a * b
  <2>1. sum * (2 * new + 1) = 2 * sum * new + sum /\ 2 * a * b = 2 * (a * b)
    BY <1>4
  <2>2. sum * (2 * new + 1) \in Int /\ a * b \in Int
    BY <1>4
  <2> QED
    BY <1>8, <2>1, <2>2
<1>10. Pool!GetAmountOut(in, a, b) = out
  BY DEF Pool!GetAmountOut, out, d, w
<1> QED
  BY <1>3, <1>4, <1>9, <1>10 DEF new

-----------------------------------------------------------------------------
(* Liquidity pools: the inductive invariant.                               *)

\* What a request credits a position in fees.
Credits(x) == [u \in Providers |-> Pool!Fees(x.new[u]) - Pool!Fees(x.old[u])]

\* The fees a pool has charged, and a unit for each share that may be rounded up.
Worth(p) == Pool!Fees(p) + p.swaps * Cardinality(Providers)

\* What a request has written in the pool's supply and not yet in the position.
Due(x) == IF x.saved /\ x.op # "swap" /\ x.user \in x.saves THEN x.new[x.user].lp - x.old[x.user].lp ELSE 0

\* What a request has credited in fees and not yet written in the pool.
Given(x) == IF x.saved /\ x.op = "swap" THEN SumFunctionOnSet(Credits(x), Providers \ x.saves) ELSE 0

\* The fee covers the shares.
Shared(x) == SumFunctionOnSet(Credits(x), Providers) <= Worth(x.newPool) - Worth(x.pool)

\* The product of the reserves is kept, up to rounding.
Product(p, q) == 2 * q.a * q.b + q.a + q.b >= 2 * p.a * p.b

\* addLiquidity, removeLiquidity and emergencyWithdraw change both tables alike.
DepositOK(x) ==
  /\ x.newPool.lp - x.pool.lp = x.new[x.user].lp - x.old[x.user].lp
  /\ x.newPool.exists = x.pool.exists /\ Worth(x.newPool) = Worth(x.pool) /\ x.newPool.swaps = x.pool.swaps
  /\ \A u \in Providers : Credits(x)[u] = 0
  /\ x.saves \subseteq {"pool", "row", x.user}
  /\ "pool" \in x.saves => x.user \in x.saves /\ ~x.saved
  /\ "pool" \notin x.saves => x.saved

SwapOK(x) ==
  /\ x.newPool.exists = x.pool.exists /\ x.newPool.lp = x.pool.lp /\ Product(x.pool, x.newPool)
  /\ "pool" \in x.saves
  /\ \A u \in Providers : x.new[u].lp = x.old[u].lp /\ Credits(x)[u] \in Nat
  /\ ~x.saved => \A u \in Providers \ x.saves : Credits(x)[u] = 0

CallOK(x) ==
  /\ x.saves = {} => ~x.saved
  /\ IF x.op = "none" THEN x.saves = {} ELSE x.pool.exists
  /\ x.saves # {} => IF x.op = "swap" THEN SwapOK(x) ELSE DepositOK(x)

AllDue == SumFunctionOnSet([c \in Calls |-> Due(request[c])], Calls)
AllGiven == SumFunctionOnSet([c \in Calls |-> Given(request[c])], Calls)

LpHeld == ~outdated /\ ~torn => pool.lp = Pool!TotalLp + AllDue
FeesHeld == ~outdated /\ ~torn /\ ~uneven => Pool!TotalFees <= Worth(pool) + AllGiven
SharedAll == ~uneven => \A c \in Calls : request[c].op = "swap" /\ request[c].saves # {} => Shared(request[c])

PoolInv ==
  /\ Pool!TypeOK /\ (~pool.exists => pool = Pool!NoPool)
  /\ \A c \in Calls : CallOK(request[c])
  /\ SharedAll /\ LpHeld /\ FeesHeld

-----------------------------------------------------------------------------
(* Liquidity pools: what the handlers compute.                             *)

LEMMA PoolRequest ==
  ASSUME Pool!TypeOK, NEW c \in Calls
  PROVE  /\ request[c] \in Pool!RequestRow /\ request[c].pool \in Pool!PoolRow /\ request[c].newPool \in Pool!PoolRow
         /\ request[c].old \in [Providers -> Pool!PositionRow] /\ request[c].new \in [Providers -> Pool!PositionRow]
         /\ request[c].user \in Providers /\ request[c].saved \in BOOLEAN
BY DEF Pool!TypeOK, Pool!RequestRow

LEMMA PoolFields ==
  ASSUME NEW p \in Pool!PoolRow
  PROVE  /\ p.a \in Nat /\ p.b \in Nat /\ p.lp \in Nat /\ p.feesA \in Nat /\ p.feesB \in Nat /\ p.swaps \in Nat
         /\ Pool!Fees(p) \in Nat
BY DEF Pool!PoolRow, Pool!Fees

LEMMA PositionFields ==
  ASSUME NEW q \in Pool!PositionRow
  PROVE  q.lp \in Nat /\ q.feesA \in Nat /\ q.feesB \in Nat /\ Pool!Fees(q) \in Nat /\ q.exists \in BOOLEAN
BY DEF Pool!PositionRow, Pool!Fees

LEMMA WorthNat ==
  ASSUME Pool!Assumptions, NEW p \in Pool!PoolRow
  PROVE  Worth(p) \in Nat
BY PoolConstants, PoolFields DEF Worth

\* The record of a request after it has computed what it will save.
Computed(x, rec, old) ==
  /\ rec \in Pool!RequestRow /\ rec.op = x.op /\ rec.user = x.user /\ rec.saved = x.saved /\ rec.pool = x.pool
  /\ rec.old = old /\ rec.saves # {}
  /\ IF x.op = "swap" THEN SwapOK(rec) ELSE DepositOK(rec)

\* A deposit or withdrawal of lp, as saved in both tables.
LEMMA DepositComputed ==
  ASSUME Pool!Assumptions,
         NEW x \in Pool!RequestRow, ~x.saved, x.op # "swap", NEW p \in Pool!PoolRow, NEW old \in [Providers -> Pool!PositionRow],
         NEW new \in [Providers -> Pool!PositionRow], NEW saves \in SUBSET {"pool", "row", x.user},
         "pool" \in saves, x.user \in saves,
         NEW rec, rec = [x EXCEPT !.newPool = p, !.old = old, !.new = new, !.saves = saves],
         p.lp - x.pool.lp = new[x.user].lp - old[x.user].lp,
         p.exists = x.pool.exists, p.feesA = x.pool.feesA, p.feesB = x.pool.feesB, p.swaps = x.pool.swaps,
         \A u \in Providers : new[u].feesA = old[u].feesA /\ new[u].feesB = old[u].feesB
  PROVE  Computed(x, rec, old)
<1>1. x.user \in Providers
  BY DEF Pool!RequestRow
<1>2. /\ rec \in Pool!RequestRow /\ rec.op = x.op /\ rec.user = x.user /\ rec.saved = x.saved /\ rec.pool = x.pool
      /\ rec.newPool = p /\ rec.old = old /\ rec.new = new /\ rec.saves = saves
  <2>1. saves \in SUBSET (Providers \cup {"pool", "row"})
    BY <1>1
  <2> QED
    BY <2>1 DEF Pool!RequestRow
<1>3. Worth(p) = Worth(x.pool)
  BY DEF Worth, Pool!Fees
<1>4. \A u \in Providers : Credits(rec)[u] = 0
  <2> TAKE u \in Providers
  <2>1. Pool!Fees(new[u]) = Pool!Fees(old[u]) /\ Pool!Fees(old[u]) \in Nat
    <3>1. old[u] \in Pool!PositionRow
      OBVIOUS
    <3> QED
      BY <3>1, PositionFields DEF Pool!Fees
  <2>2. Credits(rec)[u] = Pool!Fees(new[u]) - Pool!Fees(old[u])
    BY <1>2 DEF Credits
  <2> QED
    BY <2>1, <2>2
<1>5. DepositOK(rec)
  BY <1>2, <1>3, <1>4 DEF DepositOK
<1> QED
  BY <1>2, <1>5 DEF Computed

LEMMA QuoteNat ==
  ASSUME NEW a \in Nat, NEW b \in Nat, NEW p \in Pool!PoolRow, Pool!CanMint(p)
  PROVE  LET quote == Pool!CalculateLpTokensToMint(a, b, p) IN
         quote.lp \in Nat /\ quote.a \in Nat /\ quote.b \in Nat
<1> DEFINE quote == Pool!CalculateLpTokensToMint(a, b, p)
<1>0. p.a \in Nat /\ p.b \in Nat /\ p.lp \in Nat
  BY PoolFields
<1>1. CASE p.lp = 0
  <2>1. quote = [lp |-> Pool!SqrtRound(a * b), a |-> a, b |-> b]
    BY <1>1 DEF Pool!CalculateLpTokensToMint
  <2>2. Pool!SqrtRound(a * b) \in Nat
    <3> DEFINE n == a * b
               S == {r \in 1 .. n : (2 * r - 1) * (2 * r - 1) < 4 * n}
    <3>1. n \in Nat
      OBVIOUS
    <3> HIDE DEF n
    <3>2. IsFiniteSet(1 .. n) /\ S \subseteq 1 .. n
      BY <3>1, FS_Interval
    <3> HIDE DEF S
    <3>3. Cardinality(S) \in Nat
      BY <3>2, FS_Subset, FS_CardinalityType
    <3> QED
      BY <3>3, PoolLibrary DEF Pool!SqrtRound, S, n
  <2> QED
    BY <2>1, <2>2
<1>2. CASE p.lp # 0
  <2>1. p.a > 0 /\ p.b > 0
    BY <1>2 DEF Pool!CanMint
  <2>2. a * p.lp \in Nat /\ a * p.b \in Nat /\ b * p.lp \in Nat /\ b * p.a \in Nat
    BY <1>0
  <2>3. /\ Pool!Round(a * p.lp, p.a) \in Nat /\ Pool!Round(a * p.b, p.a) \in Nat
        /\ Pool!Round(b * p.lp, p.b) \in Nat /\ Pool!Round(b * p.a, p.b) \in Nat
    BY <1>0, <2>1, <2>2, RoundBounds
  <2>4. \/ quote = [lp |-> Pool!Round(a * p.lp, p.a), a |-> a, b |-> Pool!Round(a * p.b, p.a)]
        \/ quote = [lp |-> Pool!Round(b * p.lp, p.b), a |-> Pool!Round(b * p.a, p.b), b |-> b]
    BY <1>2 DEF Pool!CalculateLpTokensToMint
  <2> QED
    BY <2>3, <2>4
<1> QED
  BY <1>1, <1>2

\* A request that has read what it needs computes its changes.
Computes(c, rec) ==
  /\ request[c].saves = {} /\ request[c].op # "none" /\ Computed(request[c], rec, position)
  /\ request' = [request EXCEPT ![c] = rec] /\ UNCHANGED <<pool, position, requests, outdated, torn>>
  /\ uneven' = (uneven \/ (request[c].op = "swap" /\ Pool!TotalLp # request[c].pool.lp))
  /\ request[c].op = "swap" /\ ~uneven' => Shared(rec)

LEMMA AddComputes ==
  ASSUME Pool!Assumptions, Pool!TypeOK, NEW c \in Calls, CallOK(request[c]), NEW a \in Amounts, NEW b \in Amounts,
         Pool!AddLiquidity(c, a, b)
  PROVE  \E rec : Computes(c, rec)
<1> DEFINE x == request[c]
           quote == Pool!CalculateLpTokensToMint(a, b, x.pool)
           p == [x.pool EXCEPT !.a = @ + quote.a, !.b = @ + quote.b, !.lp = @ + quote.lp]
           new == [position EXCEPT ![x.user].lp = @ + quote.lp, ![x.user].exists = TRUE]
           saves == {"pool", x.user}
           rec == [x EXCEPT !.newPool = p, !.old = position, !.new = new, !.saves = saves]
<1>1. /\ x \in Pool!RequestRow /\ x.pool \in Pool!PoolRow /\ x.user \in Providers /\ position \in [Providers -> Pool!PositionRow]
      /\ a \in Nat /\ b \in Nat
  BY PoolRequest, PoolConstants DEF Pool!TypeOK
<1>2. x.op = "add" /\ x.saves = {} /\ Pool!CanMint(x.pool) /\ Pool!Compute(c, p, new, saves)
  BY DEF Pool!AddLiquidity, Pool!Reading
<1>3. quote.lp \in Nat /\ quote.a \in Nat /\ quote.b \in Nat
  BY <1>1, <1>2, QuoteNat
<1>4. ~x.saved
  BY <1>2 DEF CallOK
<1>5. /\ request' = [request EXCEPT ![c] = rec] /\ UNCHANGED <<pool, position, requests, outdated, torn>>
      /\ uneven' = (uneven \/ (x.op = "swap" /\ Pool!TotalLp # x.pool.lp))
  BY <1>2 DEF Pool!Compute
<1> HIDE DEF x, quote
<1>6. /\ p \in Pool!PoolRow /\ p.lp = x.pool.lp + quote.lp /\ p.feesA = x.pool.feesA /\ p.feesB = x.pool.feesB
      /\ p.swaps = x.pool.swaps /\ p.exists = x.pool.exists
  <2> DEFINE q == x.pool  a2 == q.a + quote.a  b2 == q.b + quote.b  lp2 == q.lp + quote.lp
  <2>1. a2 \in Nat /\ b2 \in Nat /\ lp2 \in Nat
    BY <1>1, <1>3, PoolFields
  <2>2. p = [q EXCEPT !.a = a2, !.b = b2, !.lp = lp2]
    OBVIOUS
  <2>3. q \in Pool!PoolRow
    BY <1>1
  <2> HIDE DEF a2, b2, lp2, p, q
  <2>4. /\ p \in Pool!PoolRow /\ p.lp = lp2 /\ p.feesA = q.feesA /\ p.feesB = q.feesB /\ p.swaps = q.swaps /\ p.exists = q.exists
    BY <2>1, <2>2, <2>3 DEF Pool!PoolRow
  <2> QED
    BY <2>4 DEF lp2, q
<1>7. /\ new \in [Providers -> Pool!PositionRow] /\ new[x.user].lp = position[x.user].lp + quote.lp
      /\ \A u \in Providers : new[u].feesA = position[u].feesA /\ new[u].feesB = position[u].feesB
  <2> DEFINE lp2 == position[x.user].lp + quote.lp
  <2>1. lp2 \in Nat
    BY <1>1, <1>3, PositionFields
  <2>2. new = [position EXCEPT ![x.user] = [@ EXCEPT !.lp = lp2, !.exists = TRUE]]
    BY <1>1
  <2> DEFINE q == position[x.user]
             q2 == [q EXCEPT !.lp = lp2, !.exists = TRUE]
  <2>3. q \in Pool!PositionRow
    BY <1>1
  <2> HIDE DEF lp2, q
  <2>4. q2 \in Pool!PositionRow /\ q2.lp = lp2 /\ q2.feesA = q.feesA /\ q2.feesB = q.feesB
    BY <2>1, <2>3 DEF Pool!PositionRow
  <2>5. new = [position EXCEPT ![x.user] = q2]
    BY <2>2 DEF q
  <2> HIDE DEF q2, new
  <2> QED
    BY <1>1, <2>4, <2>5 DEF lp2, q
<1>8. p.lp - x.pool.lp = new[x.user].lp - position[x.user].lp
  <2>1. x.pool.lp \in Nat /\ position[x.user].lp \in Nat
    BY <1>1, PoolFields, PositionFields
  <2> QED
    BY <1>3, <1>6, <1>7, <2>1
<1>9. Computed(x, rec, position)
  <2> HIDE DEF p, new
  <2> QED
    BY <1>1, <1>2, <1>4, <1>6, <1>7, <1>8, DepositComputed
<1>10. Computes(c, rec)
  BY <1>2, <1>5, <1>9 DEF Computes, x
<1> QED
  BY <1>10

LEMMA BurnComputes ==
  ASSUME Pool!Assumptions, Pool!TypeOK, NEW c \in Calls, CallOK(request[c]), NEW lp \in Amounts,
         Pool!RemoveLiquidity(c, lp) \/ Pool!EmergencyWithdraw(c, lp)
  PROVE  \E rec : Computes(c, rec)
<1> DEFINE x == request[c]
           amounts == Pool!CalculateWithdrawAmounts(lp, x.pool)
           p == [x.pool EXCEPT !.a = Pool!Minus(@, amounts.a), !.b = Pool!Minus(@, amounts.b), !.lp = @ - lp]
           new == [position EXCEPT ![x.user].lp = @ - lp]
           saves == {"pool", x.user} \cup (IF x.op = "emergency" THEN {"row"} ELSE {})
           rec == [x EXCEPT !.newPool = p, !.old = position, !.new = new, !.saves = saves]
<1>1. /\ x \in Pool!RequestRow /\ x.pool \in Pool!PoolRow /\ x.user \in Providers /\ position \in [Providers -> Pool!PositionRow]
      /\ lp \in Nat
  BY PoolRequest, PoolConstants DEF Pool!TypeOK
<1>2. /\ x.op \in {"remove", "emergency"} /\ x.saves = {} /\ position[x.user].lp >= lp /\ x.pool.lp > 0 /\ lp <= x.pool.lp
      /\ Pool!Compute(c, p, new, saves)
  BY DEF Pool!RemoveLiquidity, Pool!EmergencyWithdraw, Pool!Burn, Pool!Reading, Pool!CanWithdraw
<1>3. /\ x.pool.lp \in Nat /\ position[x.user].lp \in Nat /\ x.pool.a \in Nat /\ x.pool.b \in Nat
  BY <1>1, PoolFields, PositionFields
<1>4. amounts.a \in Nat /\ amounts.b \in Nat
  <2>1. x.pool.a * lp \in Nat /\ x.pool.b * lp \in Nat
    BY <1>1, <1>3
  <2>2. Pool!Round(x.pool.a * lp, x.pool.lp) \in Nat /\ Pool!Round(x.pool.b * lp, x.pool.lp) \in Nat
    BY <1>2, <1>3, <2>1, RoundBounds
  <2> QED
    BY <2>2 DEF Pool!CalculateWithdrawAmounts
<1>5. ~x.saved
  BY <1>2 DEF CallOK
<1>6. /\ request' = [request EXCEPT ![c] = rec] /\ UNCHANGED <<pool, position, requests, outdated, torn>>
      /\ uneven' = (uneven \/ (x.op = "swap" /\ Pool!TotalLp # x.pool.lp))
  BY <1>2 DEF Pool!Compute
<1> HIDE DEF x, amounts
<1>7. Pool!Minus(x.pool.a, amounts.a) \in Nat /\ Pool!Minus(x.pool.b, amounts.b) \in Nat
  BY <1>3, <1>4 DEF Pool!Minus
<1>8. /\ p \in Pool!PoolRow /\ p.lp = x.pool.lp - lp /\ p.feesA = x.pool.feesA /\ p.feesB = x.pool.feesB
      /\ p.swaps = x.pool.swaps /\ p.exists = x.pool.exists
  <2> DEFINE q == x.pool  a2 == Pool!Minus(q.a, amounts.a)  b2 == Pool!Minus(q.b, amounts.b)  lp2 == q.lp - lp
  <2>1. a2 \in Nat /\ b2 \in Nat /\ lp2 \in Nat
    BY <1>1, <1>2, <1>3, <1>7
  <2>2. p = [q EXCEPT !.a = a2, !.b = b2, !.lp = lp2]
    OBVIOUS
  <2>3. q \in Pool!PoolRow
    BY <1>1
  <2> HIDE DEF a2, b2, lp2, p, q
  <2>4. /\ p \in Pool!PoolRow /\ p.lp = lp2 /\ p.feesA = q.feesA /\ p.feesB = q.feesB /\ p.swaps = q.swaps /\ p.exists = q.exists
    BY <2>1, <2>2, <2>3 DEF Pool!PoolRow
  <2> QED
    BY <2>4 DEF lp2, q
<1>9. /\ new \in [Providers -> Pool!PositionRow] /\ new[x.user].lp = position[x.user].lp - lp
      /\ \A u \in Providers : new[u].feesA = position[u].feesA /\ new[u].feesB = position[u].feesB
  BY <1>1, <1>2, <1>3 DEF Pool!PositionRow
<1>10. p.lp - x.pool.lp = new[x.user].lp - position[x.user].lp
  BY <1>1, <1>3, <1>8, <1>9
<1>11. saves \in SUBSET {"pool", "row", x.user} /\ "pool" \in saves /\ x.user \in saves /\ x.op # "swap"
  BY <1>2
<1>12. Computed(x, rec, position)
  <2> HIDE DEF p, new, saves
  <2> QED
    BY <1>1, <1>5, <1>8, <1>9, <1>10, <1>11, DepositComputed
<1>13. Computes(c, rec)
  BY <1>2, <1>6, <1>11, <1>12 DEF Computes, x
<1> QED
  BY <1>13

\* The record of a request that has computed the rows it will save.
Filled(x, rec, p, old, new, holders) ==
  rec = [x EXCEPT !.newPool = p, !.old = old, !.new = new, !.saves = holders \cup {"row", "pool"}]

LpOf(rows) == SumFunctionOnSet([u \in Providers |-> rows[u].lp], Providers)

\* Every holder is credited his share of the fee.
SharesOut(old, new, holders, fee, total) ==
  /\ holders \subseteq Providers
  /\ \A u \in Providers : /\ new[u].lp = old[u].lp
                      /\ Pool!Fees(new[u]) = Pool!Fees(old[u]) + IF u \in holders
                           THEN Pool!DistributeFees(fee, old[u].lp, total) ELSE 0

\* The pool keeps its supply and its product, and charges fee.
Charged(q, p, fee) ==
  p.exists = q.exists /\ p.lp = q.lp /\ p.swaps = q.swaps + 1 /\ Pool!Fees(p) = Pool!Fees(q) + fee /\ Product(q, p)

\* A swap that charges fee and credits every holder his share of it.
LEMMA SwapComputed ==
  ASSUME Pool!Assumptions, NEW x \in Pool!RequestRow, ~x.saved, x.op = "swap",
         NEW p \in Pool!PoolRow, NEW old \in [Providers -> Pool!PositionRow], NEW new \in [Providers -> Pool!PositionRow],
         NEW holders, NEW fee \in Nat, NEW rec, Filled(x, rec, p, old, new, holders),
         Charged(x.pool, p, fee),
         SharesOut(old, new, holders, fee, x.pool.lp)
  PROVE  /\ Computed(x, rec, old)
         /\ LpOf(old) = x.pool.lp => Shared(rec)
<1>1. /\ rec \in Pool!RequestRow /\ rec.op = x.op /\ rec.user = x.user /\ rec.saved = x.saved /\ rec.pool = x.pool
      /\ rec.newPool = p /\ rec.old = old /\ rec.new = new /\ rec.saves = holders \cup {"row", "pool"}
  <2>1. holders \cup {"row", "pool"} \in SUBSET (Providers \cup {"pool", "row"})
    BY DEF SharesOut
  <2> QED
    BY <2>1 DEF Pool!RequestRow, Filled
<1>2. x.pool \in Pool!PoolRow /\ x.pool.lp \in Nat /\ x.pool.swaps \in Nat /\ Pool!Fees(x.pool) \in Nat
  <2>1. x.pool \in Pool!PoolRow
    BY DEF Pool!RequestRow
  <2> QED
    BY <2>1, PoolFields
<1> DEFINE share(u) == Pool!DistributeFees(fee, old[u].lp, x.pool.lp)
<1>3. \A u \in Providers : /\ old[u].lp \in Nat /\ share(u) \in Nat
                       /\ Credits(rec)[u] = IF u \in holders THEN share(u) ELSE 0
  <2> TAKE u \in Providers
  <2>1. old[u] \in Pool!PositionRow
    OBVIOUS
  <2>2. old[u].lp \in Nat /\ Pool!Fees(old[u]) \in Nat
    BY <2>1, PositionFields
  <2>3. share(u) \in Nat
    BY <1>2, <2>2, ShareBound
  <2> HIDE DEF share
  <2>4. Credits(rec)[u] = Pool!Fees(new[u]) - Pool!Fees(old[u])
    BY <1>1 DEF Credits
  <2>5. Pool!Fees(new[u]) = Pool!Fees(old[u]) + IF u \in holders THEN share(u) ELSE 0
    BY DEF share, SharesOut
  <2> QED
    BY <2>2, <2>3, <2>4, <2>5
<1>4. \A u \in Providers : Credits(rec)[u] \in Nat
  BY <1>3
<1>5. SwapOK(rec)
  <2>1. \A u \in Providers \ (holders \cup {"row", "pool"}) : Credits(rec)[u] = 0
    BY <1>3
  <2> QED
    BY <1>1, <1>4, <2>1 DEF SwapOK, SharesOut, Charged
<1>6. ASSUME LpOf(old) = x.pool.lp
      PROVE  Shared(rec)
  <2> DEFINE l == [u \in Providers |-> old[u].lp]
             r == Credits(rec)
             total == x.pool.lp
  <2>1. \A u \in Providers : l[u] \in Nat /\ (r[u] = 0 \/ r[u] = Pool!DistributeFees(fee, l[u], total))
    BY <1>3
  <2>1a. total = SumFunctionOnSet(l, Providers)
    BY <1>6 DEF LpOf
  <2> HIDE DEF l, r, total
  <2>2. SumFunctionOnSet(r, Providers) <= fee + Cardinality(Providers)
    BY <2>1, <2>1a, PoolConstants, SharesBound
  <2>3. Worth(p) - Worth(x.pool) = fee + Cardinality(Providers)
    <3> DEFINE n == Cardinality(Providers)
    <3>1. n \in Nat
      BY PoolConstants
    <3>2. Worth(p) = Pool!Fees(x.pool) + fee + (x.pool.swaps + 1) * n /\ Worth(x.pool) = Pool!Fees(x.pool) + x.pool.swaps * n
      BY DEF Worth, Charged
    <3> HIDE DEF n
    <3>3. (x.pool.swaps + 1) * n = x.pool.swaps * n + n /\ x.pool.swaps * n \in Int
      <4>1. \A i, j \in Nat : (i + 1) * j = i * j + j /\ i * j \in Int
        OBVIOUS
      <4> QED
        BY <1>2, <3>1, <4>1
    <3>4. Worth(p) - Worth(x.pool) = fee + n
      BY <1>2, <3>1, <3>2, <3>3
    <3> QED
      BY <3>4 DEF n
  <2> QED
    BY <1>1, <2>2, <2>3 DEF Shared, r
<1> QED
  BY <1>1, <1>5, <1>6 DEF Computed

\* The reserves after a swap.
LEMMA SwappedReserves ==
  ASSUME FeeBps \in 0 .. 10000, NEW x \in Nat, NEW y \in Nat, NEW in \in Nat, x > 0,
         NEW a, a = x + in, NEW b, b = Pool!Minus(y, Pool!GetAmountOut(in, x, y))
  PROVE  a \in Nat /\ b \in Nat /\ 2 * a * b + a + b >= 2 * x * y
<1>1. a \in Nat /\ b \in Nat /\ 2 * a * b + a >= 2 * x * y
  BY OutBound
<1>2. 2 * a * b \in Int /\ 2 * x * y \in Int
  BY <1>1
<1> QED
  BY <1>1, <1>2

LEMMA SwapComputes ==
  ASSUME Pool!Assumptions, Pool!TypeOK, NEW c \in Calls, CallOK(request[c]), NEW inA \in BOOLEAN, NEW in \in Amounts,
         Pool!Swap(c, inA, in)
  PROVE  \E rec : Computes(c, rec)
<1> DEFINE x == request[c]
           q == x.pool
           fee == Pool!FeeAmount(in)
           share(u) == Pool!DistributeFees(fee, position[u].lp, q.lp)
           holders == {u \in Providers : position[u].exists}
           pA == [q EXCEPT !.a = @ + in, !.b = Pool!Minus(@, Pool!GetAmountOut(in, q.a, q.b)), !.feesA = @ + fee, !.swaps = @ + 1]
           pB == [q EXCEPT !.b = @ + in, !.a = Pool!Minus(@, Pool!GetAmountOut(in, q.b, q.a)), !.feesB = @ + fee, !.swaps = @ + 1]
           p == IF inA THEN pA ELSE pB
           new == [u \in Providers |-> IF u \notin holders THEN position[u]
                                   ELSE IF inA THEN [position[u] EXCEPT !.feesA = @ + share(u)]
                                   ELSE [position[u] EXCEPT !.feesB = @ + share(u)]]
           saves == holders \cup {"row", "pool"}
           rec == [x EXCEPT !.newPool = p, !.old = position, !.new = new, !.saves = saves]
<1>1. /\ x \in Pool!RequestRow /\ q \in Pool!PoolRow /\ x.user \in Providers /\ position \in [Providers -> Pool!PositionRow]
      /\ in \in Nat /\ FeeBps \in 0 .. 10000
  BY PoolRequest, PoolConstants DEF Pool!TypeOK
<1>2. x.op = "swap" /\ x.saves = {} /\ q.a > 0 /\ q.b > 0
  BY DEF Pool!Swap, Pool!Reading
<1>2a. Pool!Compute(c, p, new, saves)
  <2>1. CASE inA
    BY <2>1 DEF Pool!Swap
  <2>2. CASE ~inA
    BY <2>2 DEF Pool!Swap
  <2> QED
    BY <2>1, <2>2
<1>3. q.a \in Nat /\ q.b \in Nat /\ q.lp \in Nat /\ q.feesA \in Nat /\ q.feesB \in Nat /\ q.swaps \in Nat
  BY <1>1, PoolFields
<1>4. fee \in Nat
  <2>1. in * FeeBps \in Nat
    BY <1>1
  <2> QED
    BY <2>1, RoundBounds DEF Pool!FeeAmount
<1>5. \A u \in Providers : position[u] \in Pool!PositionRow /\ position[u].lp \in Nat /\ share(u) \in Nat
  <2> HIDE DEF fee
  <2> TAKE u \in Providers
  <2>1. position[u] \in Pool!PositionRow
    BY <1>1
  <2>2. position[u].lp \in Nat
    BY <2>1, PositionFields
  <2> QED
    BY <1>3, <1>4, <2>1, <2>2, ShareBound
<1>6. ~x.saved
  BY <1>2 DEF CallOK
<1>7. /\ request' = [request EXCEPT ![c] = rec] /\ UNCHANGED <<pool, position, requests, outdated, torn>>
      /\ uneven' = (uneven \/ (x.op = "swap" /\ Pool!TotalLp # x.pool.lp))
  BY <1>2a DEF Pool!Compute
<1> HIDE DEF x, fee, share
<1>8. /\ p \in Pool!PoolRow /\ p.exists = q.exists /\ p.lp = q.lp /\ p.swaps = q.swaps + 1 /\ Pool!Fees(p) = Pool!Fees(q) + fee
      /\ Product(q, p)
  <2>1. CASE inA
    <3> DEFINE a == q.a + in
               b == Pool!Minus(q.b, Pool!GetAmountOut(in, q.a, q.b))
               f == q.feesA + fee
               n == q.swaps + 1
    <3>1. p = [q EXCEPT !.a = a, !.b = b, !.feesA = f, !.swaps = n]
      BY <2>1
    <3>2. f \in Nat /\ n \in Nat
      BY <1>3, <1>4
    <3> HIDE DEF p, q
    <3>3. a \in Nat /\ b \in Nat /\ 2 * a * b + a + b >= 2 * q.a * q.b
      <4> DEFINE x0 == q.a  y0 == q.b
      <4>1. a = x0 + in /\ b = Pool!Minus(y0, Pool!GetAmountOut(in, x0, y0)) /\ x0 \in Nat /\ y0 \in Nat /\ x0 > 0
        BY <1>2, <1>3
      <4>2. FeeBps \in 0 .. 10000 /\ in \in Nat
        BY <1>1
      <4> HIDE DEF a, b, x0, y0
      <4>3. a \in Nat /\ b \in Nat /\ 2 * a * b + a + b >= 2 * x0 * y0
        BY <4>1, <4>2, SwappedReserves
      <4> QED
        BY <4>3 DEF x0, y0
    <3>3a. a \in Nat /\ b \in Nat
      BY <3>3
    <3> HIDE DEF a, b, f, n
    <3>4. /\ p \in Pool!PoolRow /\ p.a = a /\ p.b = b /\ p.lp = q.lp /\ p.swaps = n /\ p.feesA = f /\ p.feesB = q.feesB
          /\ p.exists = q.exists
      <4> DEFINE p1 == [q EXCEPT !.a = a, !.b = b]
                 p2 == [p1 EXCEPT !.feesA = f, !.swaps = n]
      <4>1. q \in Pool!PoolRow /\ p = p2
        BY <1>1, <3>1
      <4>2. /\ p1 \in Pool!PoolRow /\ p1.a = a /\ p1.b = b /\ p1.lp = q.lp /\ p1.swaps = q.swaps /\ p1.feesA = q.feesA
            /\ p1.feesB = q.feesB /\ p1.exists = q.exists
        BY <4>1, <3>3a DEF Pool!PoolRow
      <4> HIDE DEF p1
      <4>3. /\ p2 \in Pool!PoolRow /\ p2.a = a /\ p2.b = b /\ p2.lp = q.lp /\ p2.swaps = n /\ p2.feesA = f
            /\ p2.feesB = q.feesB /\ p2.exists = q.exists
        BY <4>2, <3>2 DEF Pool!PoolRow
      <4> QED
        BY <4>1, <4>3
    <3>5. Pool!Fees(p) = Pool!Fees(q) + fee
      BY <1>3, <1>4, <3>4 DEF Pool!Fees, f
    <3>6. 2 * a * b + a + b >= 2 * q.a * q.b
      BY <1>3, <3>3
    <3> QED
      BY <3>4, <3>5, <3>6 DEF Product, n
  <2>2. CASE ~inA
    <3> DEFINE a == Pool!Minus(q.a, Pool!GetAmountOut(in, q.b, q.a))
               b == q.b + in
               f == q.feesB + fee
               n == q.swaps + 1
    <3>1. p = [q EXCEPT !.b = b, !.a = a, !.feesB = f, !.swaps = n]
      BY <2>2
    <3>2. f \in Nat /\ n \in Nat
      BY <1>3, <1>4
    <3> HIDE DEF p, q
    <3>3. a \in Nat /\ b \in Nat /\ 2 * b * a + b + a >= 2 * q.b * q.a
      <4> DEFINE x0 == q.b  y0 == q.a
      <4>1. b = x0 + in /\ a = Pool!Minus(y0, Pool!GetAmountOut(in, x0, y0)) /\ x0 \in Nat /\ y0 \in Nat /\ x0 > 0
        BY <1>2, <1>3
      <4>2. FeeBps \in 0 .. 10000 /\ in \in Nat
        BY <1>1
      <4> HIDE DEF a, b, x0, y0
      <4>3. a \in Nat /\ b \in Nat /\ 2 * b * a + b + a >= 2 * x0 * y0
        BY <4>1, <4>2, SwappedReserves
      <4> QED
        BY <4>3 DEF x0, y0
    <3>3a. a \in Nat /\ b \in Nat
      BY <3>3
    <3> HIDE DEF a, b, f, n
    <3>4. /\ p \in Pool!PoolRow /\ p.a = a /\ p.b = b /\ p.lp = q.lp /\ p.swaps = n /\ p.feesB = f /\ p.feesA = q.feesA
          /\ p.exists = q.exists
      <4> DEFINE p1 == [q EXCEPT !.b = b, !.a = a]
                 p2 == [p1 EXCEPT !.feesB = f, !.swaps = n]
      <4>1. q \in Pool!PoolRow /\ p = p2
        BY <1>1, <3>1
      <4>2. /\ p1 \in Pool!PoolRow /\ p1.a = a /\ p1.b = b /\ p1.lp = q.lp /\ p1.swaps = q.swaps /\ p1.feesB = q.feesB
            /\ p1.feesA = q.feesA /\ p1.exists = q.exists
        BY <4>1, <3>3a DEF Pool!PoolRow
      <4> HIDE DEF p1
      <4>3. /\ p2 \in Pool!PoolRow /\ p2.a = a /\ p2.b = b /\ p2.lp = q.lp /\ p2.swaps = n /\ p2.feesB = f
            /\ p2.feesA = q.feesA /\ p2.exists = q.exists
        BY <4>2, <3>2 DEF Pool!PoolRow
      <4> QED
        BY <4>1, <4>3
    <3>5. Pool!Fees(p) = Pool!Fees(q) + fee
      BY <1>3, <1>4, <3>4 DEF Pool!Fees, f
    <3>6. 2 * a * b + a + b >= 2 * q.a * q.b
      BY <1>3, <3>3
    <3> QED
      BY <3>4, <3>5, <3>6 DEF Product, n
  <2> QED
    BY <2>1, <2>2
<1>9. /\ new \in [Providers -> Pool!PositionRow]
      /\ \A u \in Providers : /\ new[u].lp = position[u].lp
                          /\ Pool!Fees(new[u]) = Pool!Fees(position[u]) + IF u \in holders THEN share(u) ELSE 0
  <2>1. ASSUME NEW u \in Providers
        PROVE  /\ new[u] \in Pool!PositionRow /\ new[u].lp = position[u].lp
               /\ Pool!Fees(new[u]) = Pool!Fees(position[u]) + IF u \in holders THEN share(u) ELSE 0
    <3> DEFINE r == position[u]  s == share(u)
    <3>1. r \in Pool!PositionRow /\ s \in Nat /\ r.feesA \in Nat /\ r.feesB \in Nat /\ Pool!Fees(r) \in Nat
      BY <1>5, PositionFields
    <3>2. new[u] = IF u \notin holders THEN r ELSE IF inA THEN [r EXCEPT !.feesA = @ + s] ELSE [r EXCEPT !.feesB = @ + s]
      OBVIOUS
    <3> HIDE DEF new, r, s, holders
    <3>3. CASE u \notin holders
      BY <3>1, <3>2, <3>3 DEF s, r
    <3>4. CASE u \in holders /\ inA
      <4>1. /\ new[u] = [r EXCEPT !.feesA = @ + s] /\ new[u] \in Pool!PositionRow /\ new[u].lp = r.lp
            /\ new[u].feesA = r.feesA + s /\ new[u].feesB = r.feesB
        BY <3>1, <3>2, <3>4 DEF Pool!PositionRow
      <4>2. Pool!Fees(new[u]) = Pool!Fees(r) + s
        BY <3>1, <4>1 DEF Pool!Fees
      <4> QED
        BY <3>4, <4>1, <4>2 DEF s, r
    <3>5. CASE u \in holders /\ ~inA
      <4>1. /\ new[u] = [r EXCEPT !.feesB = @ + s] /\ new[u] \in Pool!PositionRow /\ new[u].lp = r.lp
            /\ new[u].feesA = r.feesA /\ new[u].feesB = r.feesB + s
        BY <3>1, <3>2, <3>5 DEF Pool!PositionRow
      <4>2. Pool!Fees(new[u]) = Pool!Fees(r) + s
        BY <3>1, <4>1 DEF Pool!Fees
      <4> QED
        BY <3>5, <4>1, <4>2 DEF s, r
    <3> QED
      BY <3>3, <3>4, <3>5
  <2> QED
    BY <2>1
<1>10. /\ Computed(x, rec, position)
       /\ LpOf(position) = q.lp => Shared(rec)
  <2>1. holders \in SUBSET Providers
    OBVIOUS
  <2>2. SharesOut(position, new, holders, fee, x.pool.lp)
    <3> HIDE DEF new, holders
    <3> QED
      BY <1>9, <2>1 DEF share, SharesOut
  <2>4. Filled(x, rec, p, position, new, holders)
    BY DEF Filled
  <2>5. p \in Pool!PoolRow /\ Charged(x.pool, p, fee) /\ new \in [Providers -> Pool!PositionRow]
    BY <1>8, <1>9 DEF Charged
  <2> HIDE DEF p, new, holders, saves, rec
  <2> QED
    BY <1>1, <1>2, <1>4, <1>6, <2>2, <2>4, <2>5, SwapComputed
<1>11. ~uneven' => Shared(rec)
  BY <1>2, <1>7, <1>10, PoolLibrary DEF Pool!TotalLp, LpOf
<1>12. Computes(c, rec)
  <2>1. /\ request' = [request EXCEPT ![c] = rec] /\ UNCHANGED <<pool, position, requests, outdated, torn>>
        /\ uneven' = (uneven \/ (x.op = "swap" /\ Pool!TotalLp # x.pool.lp))
    BY <1>7
  <2> HIDE DEF rec
  <2> QED
    BY <1>2, <1>10, <1>11, <2>1 DEF Computes, x
<1> QED
  BY <1>12

-----------------------------------------------------------------------------
(* Liquidity pools: sums over requests and positions.                      *)

LEMMA FreeRow ==
  ASSUME Pool!Assumptions
  PROVE  /\ Pool!Free \in Pool!RequestRow /\ Pool!Free.op = "none" /\ Pool!Free.saves = {} /\ ~Pool!Free.saved
         /\ CallOK(Pool!Free)
<1>1. (CHOOSE u \in Providers : TRUE) \in Providers
  BY PoolConstants
<1>2. Pool!NoPool \in Pool!PoolRow
  BY DEF Pool!NoPool, Pool!PoolRow
<1>3. [u \in Providers |-> Pool!NoPosition] \in [Providers -> Pool!PositionRow]
  BY DEF Pool!NoPosition, Pool!PositionRow
<1>4. Pool!Free \in Pool!RequestRow /\ Pool!Free.op = "none" /\ Pool!Free.saves = {} /\ ~Pool!Free.saved
  BY <1>1, <1>2, <1>3 DEF Pool!Free, Pool!RequestRow
<1> QED
  BY <1>4 DEF CallOK

LEMMA CreditsInt ==
  ASSUME NEW x \in Pool!RequestRow
  PROVE  \A u \in Providers : Credits(x)[u] \in Int
<1> TAKE u \in Providers
<1>1. x.new[u] \in Pool!PositionRow /\ x.old[u] \in Pool!PositionRow
  BY DEF Pool!RequestRow
<1>2. Credits(x)[u] = Pool!Fees(x.new[u]) - Pool!Fees(x.old[u])
  BY DEF Credits
<1> QED
  BY <1>1, <1>2, PositionFields

LEMMA DueGivenInt ==
  ASSUME Pool!Assumptions, NEW x \in Pool!RequestRow
  PROVE  /\ Due(x) \in Int /\ Given(x) \in Int
         /\ ~x.saved => Due(x) = 0 /\ Given(x) = 0
<1>1. Due(x) \in Int
  <2>1. x.user \in Providers /\ x.new[x.user] \in Pool!PositionRow /\ x.old[x.user] \in Pool!PositionRow
    BY DEF Pool!RequestRow
  <2>2. x.new[x.user].lp \in Nat /\ x.old[x.user].lp \in Nat
    BY <2>1, PositionFields
  <2> QED
    BY <2>2 DEF Due
<1>2. Given(x) \in Int
  <2> DEFINE f == Credits(x)
             S == Providers \ x.saves
  <2>1. IsFiniteSet(S)
    BY PoolConstants, FS_Subset
  <2>1a. \A u \in S : f[u] \in Int
    BY CreditsInt
  <2>2. SumFunctionOnSet(f, S) \in Int
    <3> HIDE DEF f, S
    <3> QED
      BY <2>1, <2>1a, SumType
  <2> QED
    BY <2>2 DEF Given, f, S
<1> QED
  BY <1>1, <1>2 DEF Due, Given

LEMMA CallSums ==
  ASSUME Pool!Assumptions, Pool!TypeOK
  PROVE  AllDue \in Int /\ AllGiven \in Int
<1>1. \A c \in Calls : request[c] \in Pool!RequestRow
  BY PoolRequest
<1>2. \A c \in Calls : Due(request[c]) \in Int /\ Given(request[c]) \in Int
  BY <1>1, DueGivenInt
<1> DEFINE f == [c \in Calls |-> Due(request[c])]
           g == [c \in Calls |-> Given(request[c])]
<1>3. \A c \in Calls : f[c] \in Int /\ g[c] \in Int
  BY <1>2
<1> HIDE DEF f, g
<1>4. SumFunctionOnSet(f, Calls) \in Int /\ SumFunctionOnSet(g, Calls) \in Int
  BY <1>3, PoolConstants, SumType
<1> QED
  BY <1>4 DEF AllDue, AllGiven, f, g

\* One request changes.
LEMMA CallChanges ==
  ASSUME Pool!Assumptions, Pool!TypeOK, NEW c \in Calls, NEW y \in Pool!RequestRow,
         request' = [request EXCEPT ![c] = y]
  PROVE  /\ AllDue' = AllDue + Due(y) - Due(request[c])
         /\ AllGiven' = AllGiven + Given(y) - Given(request[c])
<1>1. /\ \A i \in Calls : request[i] \in Pool!RequestRow /\ request'[i] \in Pool!RequestRow
      /\ request'[c] = y /\ \A i \in Calls \ {c} : request'[i] = request[i]
  BY DEF Pool!TypeOK
<1> DEFINE f == [i \in Calls |-> Due(request[i])]
           g == [i \in Calls |-> Given(request[i])]
           f2 == [i \in Calls |-> Due(request'[i])]
           g2 == [i \in Calls |-> Given(request'[i])]
<1>2. \A i \in Calls : f[i] \in Int /\ g[i] \in Int /\ f2[i] \in Int /\ g2[i] \in Int
  BY <1>1, DueGivenInt
<1>3. \A i \in Calls \ {c} : f2[i] = f[i] /\ g2[i] = g[i]
  BY <1>1
<1>4. f2[c] = Due(y) /\ g2[c] = Given(y) /\ f[c] = Due(request[c]) /\ g[c] = Given(request[c])
  BY <1>1
<1>5. AllDue = SumFunctionOnSet(f, Calls) /\ AllGiven = SumFunctionOnSet(g, Calls)
  BY DEF AllDue, AllGiven
<1>6. AllDue' = SumFunctionOnSet(f2, Calls) /\ AllGiven' = SumFunctionOnSet(g2, Calls)
  BY DEF AllDue, AllGiven, Due, Given, Credits
<1> HIDE DEF f, g, f2, g2
<1>7. SumFunctionOnSet(f2, Calls) = SumFunctionOnSet(f, Calls) + f2[c] - f[c]
  BY <1>2, <1>3, PoolConstants, SumUpdate
<1>8. SumFunctionOnSet(g2, Calls) = SumFunctionOnSet(g, Calls) + g2[c] - g[c]
  BY <1>2, <1>3, PoolConstants, SumUpdate
<1> QED
  BY <1>4, <1>5, <1>6, <1>7, <1>8

LEMMA PositionSums ==
  ASSUME Pool!Assumptions, Pool!TypeOK
  PROVE  Pool!TotalLp \in Nat /\ Pool!TotalFees \in Nat
<1> DEFINE f == [u \in Providers |-> position[u].lp]
           g == [u \in Providers |-> Pool!Fees(position[u])]
<1>1. \A u \in Providers : f[u] \in Nat /\ g[u] \in Nat
  <2> TAKE u \in Providers
  <2>1. position[u] \in Pool!PositionRow
    BY DEF Pool!TypeOK
  <2> QED
    BY <2>1, PositionFields
<1> HIDE DEF f, g
<1>2. SumFunctionOnSet(f, Providers) \in Nat /\ SumFunctionOnSet(g, Providers) \in Nat
  BY <1>1, PoolConstants, SumNonnegative
<1> QED
  BY <1>2, PoolLibrary DEF Pool!TotalLp, Pool!TotalFees, f, g

\* One position changes.
LEMMA PositionChanges ==
  ASSUME Pool!Assumptions, Pool!TypeOK, NEW u \in Providers, NEW q \in Pool!PositionRow,
         position' = [position EXCEPT ![u] = q]
  PROVE  /\ Pool!TotalLp' = Pool!TotalLp + q.lp - position[u].lp
         /\ Pool!TotalFees' = Pool!TotalFees + Pool!Fees(q) - Pool!Fees(position[u])
<1>1. /\ \A i \in Providers : position[i] \in Pool!PositionRow /\ position'[i] \in Pool!PositionRow
      /\ position'[u] = q /\ \A i \in Providers \ {u} : position'[i] = position[i]
  BY DEF Pool!TypeOK
<1> DEFINE f == [i \in Providers |-> position[i].lp]
           g == [i \in Providers |-> Pool!Fees(position[i])]
           f2 == [i \in Providers |-> position'[i].lp]
           g2 == [i \in Providers |-> Pool!Fees(position'[i])]
<1>2. \A i \in Providers : f[i] \in Int /\ g[i] \in Int /\ f2[i] \in Int /\ g2[i] \in Int
  <2> TAKE i \in Providers
  <2> QED
    BY <1>1, PositionFields
<1>3. \A i \in Providers \ {u} : f2[i] = f[i] /\ g2[i] = g[i]
  BY <1>1
<1>4. f2[u] = q.lp /\ g2[u] = Pool!Fees(q) /\ f[u] = position[u].lp /\ g[u] = Pool!Fees(position[u])
  BY <1>1
<1>5. Pool!TotalLp = SumFunctionOnSet(f, Providers) /\ Pool!TotalFees = SumFunctionOnSet(g, Providers)
  BY PoolLibrary DEF Pool!TotalLp, Pool!TotalFees
<1>6. Pool!TotalLp' = SumFunctionOnSet(f2, Providers) /\ Pool!TotalFees' = SumFunctionOnSet(g2, Providers)
  BY PoolLibrary DEF Pool!TotalLp, Pool!TotalFees, Pool!Fees
<1> HIDE DEF f, g, f2, g2
<1>7. SumFunctionOnSet(f2, Providers) = SumFunctionOnSet(f, Providers) + f2[u] - f[u]
  BY <1>2, <1>3, PoolConstants, SumUpdate
<1>8. SumFunctionOnSet(g2, Providers) = SumFunctionOnSet(g, Providers) + g2[u] - g[u]
  BY <1>2, <1>3, PoolConstants, SumUpdate
<1> QED
  BY <1>4, <1>5, <1>6, <1>7, <1>8

-----------------------------------------------------------------------------
(* Liquidity pools: the steps.                                             *)

\* A request begins, computes its changes or ends without a save.
Turned(c, y) ==
  /\ y \in Pool!RequestRow /\ ~y.saved /\ CallOK(y)
  /\ request' = [request EXCEPT ![c] = y] /\ UNCHANGED <<pool, position, outdated>>
  /\ requests' \in 0 .. MaxRequests /\ torn' \in BOOLEAN /\ uneven' \in BOOLEAN
  /\ ~torn' => ~torn /\ ~request[c].saved
  /\ ~uneven' => ~uneven /\ (y.op = "swap" /\ y.saves # {} => Shared(y))

LEMMA ComputesTurned ==
  ASSUME Pool!Assumptions, PoolInv, NEW c \in Calls, NEW rec, Computes(c, rec)
  PROVE  Turned(c, rec)
<1> DEFINE x == request[c]
<1>1. /\ x.saves = {} /\ x.op # "none" /\ Computed(x, rec, position) /\ x.pool.exists /\ ~x.saved
      /\ request' = [request EXCEPT ![c] = rec] /\ UNCHANGED <<pool, position, requests, outdated, torn>>
  BY DEF Computes, PoolInv, CallOK
<1>2. /\ rec \in Pool!RequestRow /\ rec.op = x.op /\ ~rec.saved /\ rec.pool = x.pool /\ rec.saves # {}
      /\ IF x.op = "swap" THEN SwapOK(rec) ELSE DepositOK(rec)
  BY <1>1 DEF Computed
<1>3. CallOK(rec)
  BY <1>1, <1>2 DEF CallOK
<1>4. uneven' \in BOOLEAN /\ (~uneven' => ~uneven /\ (x.op = "swap" => Shared(rec)))
  BY DEF Computes, PoolInv, Pool!TypeOK
<1>5. requests' \in 0 .. MaxRequests /\ torn' \in BOOLEAN
  BY <1>1 DEF PoolInv, Pool!TypeOK
<1> QED
  BY <1>1, <1>2, <1>3, <1>4, <1>5 DEF Turned

LEMMA StartTurned ==
  ASSUME Pool!Assumptions, PoolInv, NEW c \in Calls, NEW u \in Providers, NEW op \in Pool!Ops, Pool!Start(c, op, u)
  PROVE  \E y : Turned(c, y)
<1> DEFINE y == [Pool!Free EXCEPT !.op = op, !.user = u, !.pool = pool]
<1>1. /\ request[c].op = "none" /\ pool.exists /\ request' = [request EXCEPT ![c] = y]
      /\ requests < MaxRequests /\ requests' = requests + 1 /\ UNCHANGED <<pool, position, outdated, torn, uneven>>
  BY DEF Pool!Start
<1>2. y \in Pool!RequestRow /\ y.op = op /\ op # "none" /\ y.saves = {} /\ ~y.saved /\ y.pool = pool
  BY FreeRow DEF Pool!RequestRow, Pool!Ops, PoolInv, Pool!TypeOK
<1>3. ~request[c].saved
  BY <1>1 DEF PoolInv, CallOK
<1> HIDE DEF y
<1>4. CallOK(y)
  BY <1>1, <1>2 DEF CallOK
<1>5. requests' \in 0 .. MaxRequests /\ torn' \in BOOLEAN /\ uneven' \in BOOLEAN
  BY <1>1, PoolConstants DEF PoolInv, Pool!TypeOK
<1>6. Turned(c, y)
  BY <1>1, <1>2, <1>3, <1>4, <1>5 DEF Turned
<1> QED
  BY <1>6

\* A request that ends without saving a row: refused, failed, or its new position refused.
LEMMA EndTurned ==
  ASSUME Pool!Assumptions, PoolInv, NEW c \in Calls, request' = [request EXCEPT ![c] = Pool!Free],
         UNCHANGED <<pool, position, requests, outdated, uneven>>,
         torn' \in BOOLEAN, ~torn' => ~torn /\ ~request[c].saved
  PROVE  Turned(c, Pool!Free)
<1>1. requests' \in 0 .. MaxRequests /\ uneven' \in BOOLEAN
  BY DEF PoolInv, Pool!TypeOK
<1> QED
  BY <1>1, FreeRow DEF Turned

\* The steps that save a row; Rest(x, item) is what is left of the request.
Rest(x, item) == IF x.saves = {item} THEN Pool!Free ELSE [x EXCEPT !.saves = @ \ {item}, !.saved = TRUE]

SavesPool(c) ==
  /\ Pool!Turn(c, "pool") /\ pool' = request[c].newPool /\ outdated' = (outdated \/ pool # request[c].pool)
  /\ request' = [request EXCEPT ![c] = Rest(request[c], "pool")] /\ UNCHANGED <<position, requests, torn, uneven>>
SavesPosition(c, u) ==
  /\ Pool!Turn(c, u) /\ position' = [position EXCEPT ![u] = request[c].new[u]]
  /\ outdated' = (outdated \/ position[u] # request[c].old[u])
  /\ request' = [request EXCEPT ![c] = Rest(request[c], u)] /\ UNCHANGED <<pool, requests, torn, uneven>>
SavesRow(c) ==
  /\ Pool!Turn(c, "row") /\ request' = [request EXCEPT ![c] = Rest(request[c], "row")]
  /\ UNCHANGED <<pool, position, requests, outdated, torn, uneven>>

LEMMA SavedRest ==
  ASSUME Pool!TypeOK, NEW c \in Calls, NEW item, Pool!Saved(c, item)
  PROVE  request' = [request EXCEPT ![c] = Rest(request[c], item)]
BY DEF Pool!Saved, Rest

LEMMA PoolSteps ==
  ASSUME Pool!Assumptions, PoolInv, Pool!Next
  PROVE  \/ Pool!CreatePool
         \/ \E c \in Calls : (\E y : Turned(c, y)) \/ SavesPool(c) \/ SavesRow(c) \/ \E u \in Providers : SavesPosition(c, u)
<1> DEFINE Goal == \E c \in Calls : \/ \E y : Turned(c, y)
                                    \/ SavesPool(c) \/ SavesRow(c) \/ \E u \in Providers : SavesPosition(c, u)
<1>0. Pool!TypeOK /\ \A c \in Calls : CallOK(request[c])
  BY DEF PoolInv
<1>1. ASSUME NEW c \in Calls, NEW u \in Providers, NEW op \in Pool!Ops, Pool!Start(c, op, u) PROVE Goal
  BY <1>1, StartTurned
<1>2. ASSUME NEW c \in Calls, NEW a \in Amounts, NEW b \in Amounts, Pool!AddLiquidity(c, a, b) PROVE Goal
  BY <1>0, <1>2, AddComputes, ComputesTurned
<1>3. ASSUME NEW c \in Calls, NEW lp \in Amounts, Pool!RemoveLiquidity(c, lp) \/ Pool!EmergencyWithdraw(c, lp) PROVE Goal
  BY <1>0, <1>3, BurnComputes, ComputesTurned
<1>4. ASSUME NEW c \in Calls, NEW inA \in BOOLEAN, NEW x \in Amounts, Pool!Swap(c, inA, x) PROVE Goal
  BY <1>0, <1>4, SwapComputes, ComputesTurned
<1>5. ASSUME NEW c \in Calls, Pool!Refuse(c) PROVE Goal
  <2>1. ~request[c].saved
    BY <1>0, <1>5 DEF Pool!Refuse, CallOK
  <2>2. Turned(c, Pool!Free)
    BY <1>0, <1>5, <2>1, EndTurned DEF Pool!Refuse, Pool!TypeOK
  <2> QED
    BY <2>2
<1>6. ASSUME NEW c \in Calls, Pool!Fail(c) PROVE Goal
  <2>1. torn' \in BOOLEAN /\ (~torn' => ~torn /\ ~request[c].saved)
    BY <1>0, <1>6, PoolRequest DEF Pool!Fail, Pool!TypeOK
  <2>2. Turned(c, Pool!Free)
    BY <1>6, <2>1, EndTurned DEF Pool!Fail
  <2> QED
    BY <2>2
<1>7. ASSUME NEW c \in Calls, Pool!SavePool(c) PROVE Goal
  <2>1. SavesPool(c)
    BY <1>0, <1>7, SavedRest DEF Pool!SavePool, SavesPool
  <2> QED
    BY <2>1
<1>8. ASSUME NEW c \in Calls, Pool!SaveRow(c) PROVE Goal
  <2>1. SavesRow(c)
    BY <1>0, <1>8, SavedRest DEF Pool!SaveRow, SavesRow
  <2> QED
    BY <2>1
<1>9. ASSUME NEW c \in Calls, NEW u \in Providers, Pool!SavePosition(c, u) PROVE Goal
  <2>1. CASE position[u].exists /\ ~request[c].old[u].exists
    <3>1. torn' = TRUE /\ request' = [request EXCEPT ![c] = Pool!Free] /\ UNCHANGED <<pool, position, requests, outdated, uneven>>
      BY <1>9, <2>1 DEF Pool!SavePosition
    <3>2. Turned(c, Pool!Free)
      BY <3>1, EndTurned
    <3> QED
      BY <3>2
  <2>2. CASE ~(position[u].exists /\ ~request[c].old[u].exists)
    <3>1. SavesPosition(c, u)
      BY <1>0, <1>9, <2>2, SavedRest DEF Pool!SavePosition, SavesPosition
    <3> QED
      BY <3>1
  <2> QED
    BY <2>1, <2>2
<1> QED
  BY <1>1, <1>2, <1>3, <1>4, <1>5, <1>6, <1>7, <1>8, <1>9 DEF Pool!Next

-----------------------------------------------------------------------------
(* Liquidity pools: the steps keep the invariant.                          *)

\* The requests keep their form when one of them changes.
LEMMA CallsKept ==
  ASSUME PoolInv, NEW c \in Calls, NEW y \in Pool!RequestRow, CallOK(y), request' = [request EXCEPT ![c] = y],
         ~uneven' => ~uneven /\ (y.op = "swap" /\ y.saves # {} => Shared(y))
  PROVE  request' \in [Calls -> Pool!RequestRow] /\ (\A i \in Calls : CallOK(request'[i])) /\ SharedAll'
<1>1. /\ request' \in [Calls -> Pool!RequestRow] /\ request'[c] = y
      /\ \A i \in Calls \ {c} : request'[i] = request[i]
  BY DEF PoolInv, Pool!TypeOK
<1>2. \A i \in Calls : CallOK(request'[i])
  BY <1>1 DEF PoolInv
<1>3. ~uneven' => \A i \in Calls : request'[i].op = "swap" /\ request'[i].saves # {} => Shared(request'[i])
  <2> SUFFICES ASSUME ~uneven', NEW i \in Calls, request'[i].op = "swap", request'[i].saves # {}
               PROVE  Shared(request'[i])
    OBVIOUS
  <2>1. CASE i = c
    BY <1>1, <2>1
  <2>2. CASE i # c
    BY <1>1, <2>2 DEF PoolInv, SharedAll
  <2> QED
    BY <2>1, <2>2
<1>4. SharedAll'
  BY <1>3 DEF SharedAll, Shared, Worth, Credits
<1> QED
  BY <1>1, <1>2, <1>4

\* PoolInv in the next state, from its parts.
LEMMA InvParts ==
  ASSUME pool' \in Pool!PoolRow, position' \in [Providers -> Pool!PositionRow], request' \in [Calls -> Pool!RequestRow],
         requests' \in 0 .. MaxRequests, outdated' \in BOOLEAN, torn' \in BOOLEAN, uneven' \in BOOLEAN,
         ~pool'.exists => pool' = Pool!NoPool, \A i \in Calls : CallOK(request'[i]), SharedAll',
         ~outdated' /\ ~torn' => pool'.lp = Pool!TotalLp' + AllDue',
         ~outdated' /\ ~torn' /\ ~uneven' => Pool!TotalFees' <= Worth(pool') + AllGiven'
  PROVE  PoolInv'
<1>1. Pool!TypeOK'
  BY DEF Pool!TypeOK
<1>2. LpHeld' /\ FeesHeld'
  BY DEF LpHeld, FeesHeld, Worth
<1>3. (\A i \in Calls : CallOK(request[i]))'
  BY DEF CallOK, DepositOK, SwapOK, Credits, Worth, Product
<1> QED
  BY <1>1, <1>2, <1>3 DEF PoolInv, Pool!NoPool

LEMMA CreateKeeps ==
  ASSUME Pool!Assumptions, PoolInv, Pool!CreatePool
  PROVE  PoolInv'
<1>1. /\ pool = Pool!NoPool /\ pool' = [Pool!NoPool EXCEPT !.exists = TRUE]
      /\ UNCHANGED <<position, request, requests, outdated, torn, uneven>> /\ Pool!TypeOK
  BY DEF Pool!CreatePool, PoolInv
<1>2. pool' \in Pool!PoolRow /\ pool'.exists /\ pool'.lp = pool.lp /\ Worth(pool') = Worth(pool)
  BY <1>1 DEF Pool!PoolRow, Pool!NoPool, Worth, Pool!Fees
<1>3. Pool!TotalLp' = Pool!TotalLp /\ Pool!TotalFees' = Pool!TotalFees
  BY <1>1 DEF Pool!TotalLp, Pool!TotalFees, Pool!Fees
<1>4. AllDue' = AllDue /\ AllGiven' = AllGiven
  BY <1>1 DEF AllDue, AllGiven, Due, Given, Credits
<1>5. SharedAll'
  BY <1>1 DEF PoolInv, SharedAll, Shared, Worth, Credits
<1>6. \A i \in Calls : CallOK(request'[i])
  BY <1>1 DEF PoolInv
<1> QED
  BY <1>1, <1>2, <1>3, <1>4, <1>5, <1>6, InvParts DEF PoolInv, Pool!TypeOK, LpHeld, FeesHeld

LEMMA TurnedKeeps ==
  ASSUME Pool!Assumptions, PoolInv, NEW c \in Calls, NEW y, Turned(c, y)
  PROVE  PoolInv'
<1>1. /\ y \in Pool!RequestRow /\ ~y.saved /\ CallOK(y) /\ request' = [request EXCEPT ![c] = y]
      /\ UNCHANGED <<pool, position, outdated>> /\ Pool!TypeOK
  BY DEF Turned, PoolInv
<1>2. /\ requests' \in 0 .. MaxRequests /\ torn' \in BOOLEAN /\ uneven' \in BOOLEAN
      /\ (~torn' => ~torn /\ ~request[c].saved)
      /\ (~uneven' => ~uneven /\ (y.op = "swap" /\ y.saves # {} => Shared(y)))
  BY DEF Turned
<1>3. request' \in [Calls -> Pool!RequestRow] /\ (\A i \in Calls : CallOK(request'[i])) /\ SharedAll'
  BY <1>1, <1>2, CallsKept
<1>4. Pool!TotalLp' = Pool!TotalLp /\ Pool!TotalFees' = Pool!TotalFees
  BY <1>1 DEF Pool!TotalLp, Pool!TotalFees, Pool!Fees
<1>5. ~torn' => AllDue' = AllDue /\ AllGiven' = AllGiven
  <2> SUFFICES ASSUME ~torn' PROVE AllDue' = AllDue /\ AllGiven' = AllGiven
    OBVIOUS
  <2>1. ~request[c].saved /\ request[c] \in Pool!RequestRow
    BY <1>1, <1>2, PoolRequest
  <2>2. Due(y) = 0 /\ Given(y) = 0 /\ Due(request[c]) = 0 /\ Given(request[c]) = 0
    BY <1>1, <2>1, DueGivenInt
  <2>3. AllDue \in Int /\ AllGiven \in Int
    BY <1>1, CallSums
  <2>4. AllDue' = AllDue + Due(y) - Due(request[c]) /\ AllGiven' = AllGiven + Given(y) - Given(request[c])
    BY <1>1, CallChanges
  <2> QED
    BY <2>2, <2>3, <2>4
<1>6. /\ ~outdated' /\ ~torn' => pool'.lp = Pool!TotalLp' + AllDue'
      /\ ~outdated' /\ ~torn' /\ ~uneven' => Pool!TotalFees' <= Worth(pool') + AllGiven'
  BY <1>1, <1>2, <1>4, <1>5 DEF PoolInv, LpHeld, FeesHeld
<1>7. /\ pool' \in Pool!PoolRow /\ position' \in [Providers -> Pool!PositionRow] /\ outdated' \in BOOLEAN
      /\ (~pool'.exists => pool' = Pool!NoPool)
  BY <1>1 DEF PoolInv, Pool!TypeOK
<1> QED
  BY <1>2, <1>3, <1>6, <1>7, InvParts

\* What is left of a request after a save.
LEMMA RestRow ==
  ASSUME Pool!Assumptions, PoolInv, NEW c \in Calls, NEW item, Pool!Turn(c, item)
  PROVE  LET x == request[c]  y == Rest(x, item) IN
         /\ y \in Pool!RequestRow /\ CallOK(y)
         /\ IF x.saves = {item} THEN y = Pool!Free
            ELSE /\ y.op = x.op /\ y.user = x.user /\ y.pool = x.pool /\ y.newPool = x.newPool /\ y.old = x.old
                 /\ y.new = x.new /\ y.saves = x.saves \ {item} /\ y.saved = TRUE
         /\ SharedAll => (~uneven => (y.op = "swap" /\ y.saves # {} => Shared(y)))
<1> DEFINE x == request[c]
           y == Rest(x, item)
<1>1. x \in Pool!RequestRow /\ CallOK(x) /\ item \in x.saves /\ x.saves # {}
  BY PoolRequest DEF PoolInv, Pool!Turn
<1>2. /\ x.op = "swap" => (item = "row" => x.saves = {"row", "pool"}) /\ (item = "pool" => x.saves = {"pool"})
      /\ x.op # "swap" => (item # "pool" => "pool" \notin x.saves) /\ (item = "row" => x.saves = {"row"})
  BY DEF Pool!Turn
<1>3. CASE x.saves = {item}
  <2>1. y = Pool!Free
    BY <1>3 DEF Rest
  <2> HIDE DEF y
  <2> QED
    BY <1>3, <2>1, FreeRow DEF y
<1>4. CASE x.saves # {item}
  <2>1. y = [x EXCEPT !.saves = @ \ {item}, !.saved = TRUE]
    BY <1>4 DEF Rest
  <2> HIDE DEF x, y
  <2>2. /\ y \in Pool!RequestRow /\ y.op = x.op /\ y.user = x.user /\ y.pool = x.pool /\ y.newPool = x.newPool
        /\ y.old = x.old /\ y.new = x.new /\ y.saves = x.saves \ {item} /\ y.saved = TRUE
    BY <1>1, <2>1 DEF Pool!RequestRow
  <2>3. Credits(y) = Credits(x)
    BY <2>2 DEF Credits
  <2>4. y.saves # {} /\ x.op # "none" /\ x.pool.exists
    BY <1>1, <1>4, <2>2 DEF CallOK
  <2>5. CASE x.op = "swap"
    <3>1. SwapOK(x)
      BY <1>1, <2>5 DEF CallOK
    <3>2. "pool" \in y.saves
      BY <1>2, <1>4, <2>2, <2>5, <3>1 DEF SwapOK
    <3>3. SwapOK(y)
      BY <2>2, <2>3, <3>1, <3>2 DEF SwapOK
    <3>4. SharedAll => (~uneven => Shared(y))
      BY <1>1, <2>2, <2>3, <2>5 DEF SharedAll, Shared, x
    <3> QED
      BY <1>4, <2>2, <2>4, <2>5, <3>3, <3>4 DEF CallOK, x, y
  <2>6. CASE x.op # "swap"
    <3>1. DepositOK(x)
      BY <1>1, <2>6 DEF CallOK
    <3>2. "pool" \notin y.saves /\ y.saves \subseteq {"pool", "row", y.user}
      BY <1>2, <2>2, <2>6, <3>1 DEF DepositOK
    <3>3. DepositOK(y)
      BY <2>2, <2>3, <3>1, <3>2 DEF DepositOK
    <3> QED
      BY <1>4, <2>2, <2>4, <2>6, <3>3 DEF CallOK, x, y
  <2> QED
    BY <2>5, <2>6
<1> QED
  BY <1>3, <1>4

\* What a swap has credited, before and after its first save.
LEMMA SwapGiven ==
  ASSUME Pool!Assumptions, NEW x \in Pool!RequestRow, x.op = "swap", SwapOK(x)
  PROVE  Given(x) = SumFunctionOnSet(Credits(x), Providers \ x.saves)
<1>1. CASE x.saved
  BY <1>1 DEF Given
<1>2. CASE ~x.saved
  <2> DEFINE f == Credits(x)
             S == Providers \ x.saves
  <2>1. \A u \in S : f[u] = 0
    BY <1>2 DEF SwapOK
  <2>2. IsFiniteSet(S)
    BY PoolConstants, FS_Subset
  <2> HIDE DEF f, S
  <2>3. SumFunctionOnSet(f, S) = 0
    BY <2>1, <2>2, SumZero
  <2> QED
    BY <1>2, <2>3 DEF Given, f, S
<1> QED
  BY <1>1, <1>2

LEMMA NextSums ==
  ASSUME Pool!Assumptions, position' \in [Providers -> Pool!PositionRow]
  PROVE  Pool!TotalLp' \in Nat /\ Pool!TotalFees' \in Nat
<1> DEFINE f == [u \in Providers |-> position'[u].lp]
           g == [u \in Providers |-> Pool!Fees(position'[u])]
<1>1. \A u \in Providers : f[u] \in Nat /\ g[u] \in Nat
  <2> TAKE u \in Providers
  <2>1. position'[u] \in Pool!PositionRow
    OBVIOUS
  <2> QED
    BY <2>1, PositionFields
<1>2. Pool!TotalLp' = SumFunctionOnSet(f, Providers) /\ Pool!TotalFees' = SumFunctionOnSet(g, Providers)
  BY PoolLibrary DEF Pool!TotalLp, Pool!TotalFees, Pool!Fees
<1> HIDE DEF f, g
<1>3. SumFunctionOnSet(f, Providers) \in Nat /\ SumFunctionOnSet(g, Providers) \in Nat
  BY <1>1, PoolConstants, SumNonnegative
<1> QED
  BY <1>2, <1>3

\* A save whose balance is even keeps the invariant.
LEMMA SaveKeeps ==
  ASSUME Pool!Assumptions, PoolInv, NEW c \in Calls, NEW item, Pool!Turn(c, item), NEW y, y = Rest(request[c], item),
         request' = [request EXCEPT ![c] = y], UNCHANGED <<requests, torn, uneven>>,
         pool' \in Pool!PoolRow, ~pool'.exists => pool' = Pool!NoPool,
         position' \in [Providers -> Pool!PositionRow], outdated' \in BOOLEAN, ~outdated' => ~outdated,
         ~outdated' => /\ pool'.lp - pool.lp = Pool!TotalLp' - Pool!TotalLp + Due(y) - Due(request[c])
                       /\ ~uneven => Pool!TotalFees' - Pool!TotalFees
                                       <= Worth(pool') - Worth(pool) + Given(y) - Given(request[c])
  PROVE  PoolInv'
<1>1. Pool!TypeOK /\ SharedAll /\ pool \in Pool!PoolRow /\ request[c] \in Pool!RequestRow
  BY PoolRequest DEF PoolInv, Pool!TypeOK
<1>2. y \in Pool!RequestRow /\ CallOK(y) /\ (~uneven => (y.op = "swap" /\ y.saves # {} => Shared(y)))
  BY <1>1, RestRow
<1>3. request' \in [Calls -> Pool!RequestRow] /\ (\A i \in Calls : CallOK(request'[i])) /\ SharedAll'
  BY <1>2, CallsKept
<1>4. AllDue' = AllDue + Due(y) - Due(request[c]) /\ AllGiven' = AllGiven + Given(y) - Given(request[c])
  BY <1>1, <1>2, CallChanges
<1>5. /\ AllDue \in Int /\ AllGiven \in Int /\ Due(y) \in Int /\ Due(request[c]) \in Int
      /\ Given(y) \in Int /\ Given(request[c]) \in Int
  BY <1>1, <1>2, CallSums, DueGivenInt
<1>6. Pool!TotalLp \in Int /\ Pool!TotalFees \in Int /\ Pool!TotalLp' \in Int /\ Pool!TotalFees' \in Int
  BY <1>1, PositionSums, NextSums
<1>7. Worth(pool) \in Nat /\ Worth(pool') \in Nat /\ pool.lp \in Nat /\ pool'.lp \in Nat
  BY <1>1, WorthNat, PoolFields
<1>8. ~outdated' /\ ~torn' => pool'.lp = Pool!TotalLp' + AllDue'
  <2> SUFFICES ASSUME ~outdated', ~torn' PROVE pool'.lp = Pool!TotalLp' + AllDue'
    OBVIOUS
  <2>1. pool.lp = Pool!TotalLp + AllDue
    BY DEF PoolInv, LpHeld
  <2>2. pool'.lp - pool.lp = Pool!TotalLp' - Pool!TotalLp + Due(y) - Due(request[c])
    OBVIOUS
  <2> QED
    BY <1>4, <1>5, <1>6, <1>7, <2>1, <2>2
<1>9. ~outdated' /\ ~torn' /\ ~uneven' => Pool!TotalFees' <= Worth(pool') + AllGiven'
  <2> SUFFICES ASSUME ~outdated', ~torn', ~uneven' PROVE Pool!TotalFees' <= Worth(pool') + AllGiven'
    OBVIOUS
  <2>1. Pool!TotalFees <= Worth(pool) + AllGiven
    BY DEF PoolInv, FeesHeld
  <2>2. Pool!TotalFees' - Pool!TotalFees <= Worth(pool') - Worth(pool) + Given(y) - Given(request[c])
    OBVIOUS
  <2> QED
    BY <1>4, <1>5, <1>6, <1>7, <2>1, <2>2
<1>10. requests' \in 0 .. MaxRequests /\ torn' \in BOOLEAN /\ uneven' \in BOOLEAN
  BY <1>1 DEF Pool!TypeOK
<1> QED
  BY <1>3, <1>8, <1>9, <1>10, InvParts

LEMMA SavesPoolKeeps ==
  ASSUME Pool!Assumptions, PoolInv, NEW c \in Calls, SavesPool(c)
  PROVE  PoolInv'
<1> DEFINE x == request[c]
           y == Rest(x, "pool")
<1>1. /\ Pool!Turn(c, "pool") /\ pool' = x.newPool /\ outdated' = (outdated \/ pool # x.pool)
      /\ request' = [request EXCEPT ![c] = y] /\ UNCHANGED <<position, requests, torn, uneven>>
  BY DEF SavesPool
<1>2. /\ x \in Pool!RequestRow /\ CallOK(x) /\ "pool" \in x.saves /\ x.saves # {} /\ Pool!TypeOK /\ SharedAll
      /\ x.pool \in Pool!PoolRow /\ x.newPool \in Pool!PoolRow /\ x.user \in Providers
  BY <1>1, PoolRequest DEF PoolInv, Pool!Turn
<1>3. /\ y \in Pool!RequestRow /\ CallOK(y)
      /\ IF x.saves = {"pool"} THEN y = Pool!Free
         ELSE y.op = x.op /\ y.user = x.user /\ y.old = x.old /\ y.new = x.new /\ y.saves = x.saves \ {"pool"} /\ y.saved = TRUE
  BY <1>1, RestRow
<1>4. /\ Due(x) \in Int /\ Given(x) \in Int /\ Due(y) \in Int /\ Given(y) \in Int
  BY <1>2, <1>3, DueGivenInt
<1>5. Pool!TotalLp' = Pool!TotalLp /\ Pool!TotalFees' = Pool!TotalFees /\ Pool!TotalLp \in Int /\ Pool!TotalFees \in Int
  BY <1>1, <1>2, PositionSums DEF Pool!TotalLp, Pool!TotalFees, Pool!Fees
<1>6. x.op # "none" /\ x.pool.exists /\ x.newPool.exists
  BY <1>2 DEF CallOK, SwapOK, DepositOK
<1>7. /\ x.newPool.lp \in Nat /\ x.pool.lp \in Nat /\ Worth(x.newPool) \in Nat /\ Worth(x.pool) \in Nat
  BY <1>2, PoolFields, WorthNat
<1> HIDE DEF x, y
<1>8. /\ x.newPool.lp - x.pool.lp = Due(y) - Due(x)
      /\ ~uneven => 0 <= Worth(x.newPool) - Worth(x.pool) + Given(y) - Given(x)
  <2>1. CASE x.op = "swap"
    <3>1. SwapOK(x) /\ x.saves = {"pool"} /\ y = Pool!Free
      BY <1>1, <1>2, <1>3, <2>1 DEF CallOK, Pool!Turn, x
    <3>2. Due(x) = 0 /\ Due(y) = 0 /\ Given(y) = 0
      BY <2>1, <3>1, FreeRow, DueGivenInt DEF Due
    <3>3. x.newPool.lp = x.pool.lp
      BY <3>1 DEF SwapOK
    <3>4. Given(x) = SumFunctionOnSet(Credits(x), Providers)
      <4>1. Providers \ x.saves = Providers
        BY <3>1, PoolConstants
      <4> QED
        BY <1>2, <2>1, <3>1, <4>1, SwapGiven
    <3>5. ~uneven => Given(x) <= Worth(x.newPool) - Worth(x.pool)
      BY <1>2, <2>1, <3>4 DEF SharedAll, Shared, x
    <3> QED
      BY <1>4, <1>7, <3>2, <3>3, <3>5
  <2>2. CASE x.op # "swap"
    <3>1. DepositOK(x)
      BY <1>2, <2>2 DEF CallOK
    <3>2. x.user \in x.saves /\ ~x.saved /\ x.user # "pool"
      BY <1>2, <3>1, PoolConstants DEF DepositOK
    <3>3. /\ y.op = x.op /\ y.user = x.user /\ y.old = x.old /\ y.new = x.new /\ y.saves = x.saves \ {"pool"}
          /\ y.saved = TRUE
      BY <1>3, <3>2
    <3>4. Due(x) = 0 /\ Given(x) = 0 /\ Given(y) = 0
      BY <1>2, <2>2, <3>2, <3>3, DueGivenInt DEF Given
    <3>5. Due(y) = x.new[x.user].lp - x.old[x.user].lp
      BY <2>2, <3>2, <3>3 DEF Due
    <3>6. x.newPool.lp - x.pool.lp = Due(y) /\ Worth(x.newPool) = Worth(x.pool)
      BY <3>1, <3>5 DEF DepositOK
    <3> QED
      BY <1>4, <1>7, <3>4, <3>6
  <2> QED
    BY <2>1, <2>2
<1>9. /\ outdated' \in BOOLEAN /\ (~outdated' => ~outdated /\ pool = x.pool)
      /\ position' \in [Providers -> Pool!PositionRow] /\ pool' \in Pool!PoolRow /\ pool'.exists
  BY <1>1, <1>2, <1>6 DEF Pool!TypeOK, x
<1>10. ~outdated' => /\ pool'.lp - pool.lp = Pool!TotalLp' - Pool!TotalLp + Due(y) - Due(x)
                     /\ ~uneven => Pool!TotalFees' - Pool!TotalFees <= Worth(pool') - Worth(pool) + Given(y) - Given(x)
  <2>1. pool' = x.newPool
    BY <1>1 DEF x
  <2> QED
    BY <1>4, <1>5, <1>7, <1>8, <1>9, <2>1
<1> QED
  BY <1>1, <1>9, <1>10, SaveKeeps DEF x, y

LEMMA SavesRowKeeps ==
  ASSUME Pool!Assumptions, PoolInv, NEW c \in Calls, SavesRow(c)
  PROVE  PoolInv'
<1> DEFINE x == request[c]
           y == Rest(x, "row")
<1>1. /\ Pool!Turn(c, "row") /\ request' = [request EXCEPT ![c] = y]
      /\ UNCHANGED <<pool, position, requests, outdated, torn, uneven>>
  BY DEF SavesRow
<1>2. x \in Pool!RequestRow /\ CallOK(x) /\ "row" \in x.saves /\ Pool!TypeOK /\ x.user \in Providers /\ pool \in Pool!PoolRow
  BY <1>1, PoolRequest DEF PoolInv, Pool!Turn, Pool!TypeOK
<1>3. /\ y \in Pool!RequestRow /\ CallOK(y)
      /\ IF x.saves = {"row"} THEN y = Pool!Free
         ELSE /\ y.op = x.op /\ y.user = x.user /\ y.pool = x.pool /\ y.newPool = x.newPool /\ y.old = x.old
              /\ y.new = x.new /\ y.saves = x.saves \ {"row"} /\ y.saved = TRUE
  BY <1>1, RestRow
<1> HIDE DEF x, y
<1>4. Due(y) = Due(x) /\ Given(y) = Given(x) /\ Due(x) \in Int /\ Given(x) \in Int
  <2>1. Due(x) \in Int /\ Given(x) \in Int
    BY <1>2, DueGivenInt
  <2>2. CASE x.op = "swap"
    <3>1. SwapOK(x) /\ x.saves = {"row", "pool"}
      BY <1>1, <1>2, <2>2 DEF CallOK, Pool!Turn, x
    <3>2. y.op = x.op /\ y.old = x.old /\ y.new = x.new /\ y.saves = {"pool"} /\ y.saved = TRUE
      BY <1>3, <3>1
    <3>3. SwapOK(y)
      BY <1>3, <2>2, <3>2 DEF CallOK
    <3>4. Providers \ x.saves = Providers /\ Providers \ y.saves = Providers /\ Credits(y) = Credits(x)
      BY <3>1, <3>2, PoolConstants DEF Credits
    <3>5. Given(x) = SumFunctionOnSet(Credits(x), Providers) /\ Given(y) = SumFunctionOnSet(Credits(x), Providers)
      BY <1>2, <1>3, <2>2, <3>1, <3>2, <3>3, <3>4, SwapGiven
    <3>6. Due(x) = 0 /\ Due(y) = 0
      BY <2>2, <3>2 DEF Due
    <3> QED
      BY <2>1, <3>5, <3>6
  <2>3. CASE x.op # "swap"
    <3>1. x.saves = {"row"} /\ y = Pool!Free
      BY <1>1, <1>3, <2>3 DEF Pool!Turn, x
    <3>2. Due(y) = 0 /\ Given(y) = 0
      BY <3>1, FreeRow, DueGivenInt
    <3>3. Due(x) = 0 /\ Given(x) = 0
      BY <1>2, <2>3, <3>1, PoolConstants DEF Due, Given
    <3> QED
      BY <2>1, <3>2, <3>3
  <2> QED
    BY <2>2, <2>3
<1>5. Pool!TotalLp' = Pool!TotalLp /\ Pool!TotalFees' = Pool!TotalFees /\ Pool!TotalLp \in Int /\ Pool!TotalFees \in Int
  BY <1>1, <1>2, PositionSums DEF Pool!TotalLp, Pool!TotalFees, Pool!Fees
<1>6. ~pool'.exists => pool' = Pool!NoPool
  BY <1>1 DEF PoolInv
<1>7. outdated' \in BOOLEAN /\ position' \in [Providers -> Pool!PositionRow] /\ pool' = pool /\ pool' \in Pool!PoolRow
  BY <1>1, <1>2 DEF Pool!TypeOK
<1>8. pool.lp \in Nat /\ Worth(pool) \in Nat
  BY <1>2, PoolFields, WorthNat
<1>9. /\ pool'.lp - pool.lp = Pool!TotalLp' - Pool!TotalLp + Due(y) - Due(x)
      /\ Pool!TotalFees' - Pool!TotalFees <= Worth(pool') - Worth(pool) + Given(y) - Given(x)
  BY <1>4, <1>5, <1>7, <1>8
<1> QED
  BY <1>1, <1>6, <1>7, <1>9, SaveKeeps DEF x, y

LEMMA SavesPositionKeeps ==
  ASSUME Pool!Assumptions, PoolInv, NEW c \in Calls, NEW u \in Providers, SavesPosition(c, u)
  PROVE  PoolInv'
<1> DEFINE x == request[c]
           y == Rest(x, u)
<1>1. /\ Pool!Turn(c, u) /\ position' = [position EXCEPT ![u] = x.new[u]]
      /\ outdated' = (outdated \/ position[u] # x.old[u])
      /\ request' = [request EXCEPT ![c] = y] /\ UNCHANGED <<pool, requests, torn, uneven>>
  BY DEF SavesPosition
<1>2. /\ x \in Pool!RequestRow /\ CallOK(x) /\ u \in x.saves /\ Pool!TypeOK /\ x.user \in Providers /\ pool \in Pool!PoolRow
      /\ x.new[u] \in Pool!PositionRow /\ x.old[u] \in Pool!PositionRow /\ position[u] \in Pool!PositionRow
      /\ u # "pool" /\ u # "row"
  BY <1>1, PoolRequest, PoolConstants DEF PoolInv, Pool!Turn, Pool!TypeOK
<1>3. /\ y \in Pool!RequestRow /\ CallOK(y)
      /\ IF x.saves = {u} THEN y = Pool!Free
         ELSE /\ y.op = x.op /\ y.user = x.user /\ y.pool = x.pool /\ y.newPool = x.newPool /\ y.old = x.old
              /\ y.new = x.new /\ y.saves = x.saves \ {u} /\ y.saved = TRUE
  BY <1>1, RestRow
<1>4. /\ Due(x) \in Int /\ Given(x) \in Int /\ Due(y) \in Int /\ Given(y) \in Int
  BY <1>2, <1>3, DueGivenInt
<1>5. /\ Pool!TotalLp' = Pool!TotalLp + x.new[u].lp - position[u].lp
      /\ Pool!TotalFees' = Pool!TotalFees + Pool!Fees(x.new[u]) - Pool!Fees(position[u])
      /\ Pool!TotalLp \in Int /\ Pool!TotalFees \in Int
  <2> DEFINE q == x.new[u]
  <2>1. q \in Pool!PositionRow /\ position' = [position EXCEPT ![u] = q] /\ Pool!TypeOK
    BY <1>1, <1>2
  <2> HIDE DEF q
  <2>2. /\ Pool!TotalLp' = Pool!TotalLp + q.lp - position[u].lp
        /\ Pool!TotalFees' = Pool!TotalFees + Pool!Fees(q) - Pool!Fees(position[u])
    BY <2>1, PositionChanges
  <2>3. Pool!TotalLp \in Nat /\ Pool!TotalFees \in Nat
    BY <2>1, PositionSums
  <2> QED
    BY <2>2, <2>3 DEF q
<1>6. /\ x.new[u].lp \in Nat /\ x.old[u].lp \in Nat /\ Pool!Fees(x.new[u]) \in Nat /\ Pool!Fees(x.old[u]) \in Nat
  BY <1>2, PositionFields
<1> HIDE DEF x, y
<1>7. Credits(x)[u] = Pool!Fees(x.new[u]) - Pool!Fees(x.old[u])
  BY DEF Credits
<1>8. /\ 0 = x.new[u].lp - x.old[u].lp + Due(y) - Due(x)
      /\ Credits(x)[u] = Given(y) - Given(x)
  <2>1. CASE x.op = "swap"
    <3>1. SwapOK(x)
      BY <1>2, <2>1 DEF CallOK
    <3>2. y.op = x.op /\ y.old = x.old /\ y.new = x.new /\ y.saves = x.saves \ {u} /\ y.saved = TRUE
      BY <1>2, <1>3, <3>1 DEF SwapOK
    <3>3. SwapOK(y)
      BY <1>2, <1>3, <2>1, <3>1, <3>2 DEF CallOK, SwapOK
    <3>4. Due(x) = 0 /\ Due(y) = 0 /\ x.new[u].lp = x.old[u].lp
      BY <2>1, <3>1, <3>2 DEF Due, SwapOK
    <3> DEFINE f == Credits(x)
               S == Providers \ x.saves
    <3>5. Credits(y) = f /\ Providers \ y.saves = S \cup {u}
      BY <1>2, <3>2 DEF Credits
    <3>6. Given(x) = SumFunctionOnSet(f, S) /\ Given(y) = SumFunctionOnSet(f, S \cup {u})
      BY <1>2, <1>3, <2>1, <3>1, <3>2, <3>3, <3>5, SwapGiven
    <3>7. IsFiniteSet(S)
      BY PoolConstants, FS_Subset
    <3>8. u \notin S /\ f[u] \in Int /\ \A i \in S : f[i] \in Int
      BY <1>2, CreditsInt
    <3> HIDE DEF f, S
    <3>9. SumFunctionOnSet(f, S \cup {u}) = SumFunctionOnSet(f, S) + f[u]
      BY <3>7, <3>8, SumAdd
    <3>10. f[u] = Given(y) - Given(x)
      BY <1>4, <3>6, <3>8, <3>9
    <3> QED
      BY <1>6, <3>4, <3>10 DEF f
  <2>2. CASE x.op # "swap"
    <3>1. DepositOK(x)
      BY <1>2, <2>2 DEF CallOK
    <3>2. u = x.user /\ "pool" \notin x.saves /\ x.saved
      BY <1>1, <1>2, <2>2, <3>1 DEF DepositOK, Pool!Turn, x
    <3>3. Due(x) = x.new[u].lp - x.old[u].lp /\ Given(x) = 0 /\ Credits(x)[u] = 0
      BY <1>2, <2>2, <3>1, <3>2 DEF Due, Given, DepositOK
    <3>4. Due(y) = 0 /\ Given(y) = 0
      <4>1. CASE x.saves = {u}
        BY <1>3, <4>1, FreeRow, DueGivenInt
      <4>2. CASE x.saves # {u}
        BY <1>3, <2>2, <3>2, <4>2 DEF Due, Given
      <4> QED
        BY <4>1, <4>2
    <3> QED
      BY <1>6, <3>3, <3>4
  <2> QED
    BY <2>1, <2>2
<1>9. /\ outdated' \in BOOLEAN /\ (~outdated' => ~outdated /\ position[u] = x.old[u])
      /\ position' \in [Providers -> Pool!PositionRow] /\ pool' = pool /\ pool' \in Pool!PoolRow
      /\ (~pool'.exists => pool' = Pool!NoPool)
  <2> DEFINE q == x.new[u]
  <2>1. position' = [position EXCEPT ![u] = q] /\ pool' = pool /\ outdated' = (outdated \/ position[u] # x.old[u])
    BY <1>1 DEF x
  <2>2. q \in Pool!PositionRow /\ position \in [Providers -> Pool!PositionRow] /\ (~pool.exists => pool = Pool!NoPool)
    BY <1>2 DEF PoolInv, Pool!TypeOK
  <2>3. position' \in [Providers -> Pool!PositionRow]
    <3> HIDE DEF q
    <3> QED
      BY <2>1, <2>2
  <2>4. outdated' \in BOOLEAN /\ (~outdated' => ~outdated /\ position[u] = x.old[u])
    BY <2>1
  <2> QED
    BY <1>2, <2>1, <2>2, <2>3, <2>4
<1>10. pool.lp \in Nat /\ Worth(pool) \in Nat
  BY <1>2, PoolFields, WorthNat
<1>11. ~outdated' => /\ pool'.lp - pool.lp = Pool!TotalLp' - Pool!TotalLp + Due(y) - Due(x)
                     /\ Pool!TotalFees' - Pool!TotalFees <= Worth(pool') - Worth(pool) + Given(y) - Given(x)
  <2> SUFFICES ASSUME ~outdated'
               PROVE  /\ pool'.lp - pool.lp = Pool!TotalLp' - Pool!TotalLp + Due(y) - Due(x)
                      /\ Pool!TotalFees' - Pool!TotalFees <= Worth(pool') - Worth(pool) + Given(y) - Given(x)
    OBVIOUS
  <2>1. position[u] = x.old[u]
    BY <1>9
  <2>2. Pool!TotalLp' - Pool!TotalLp = x.new[u].lp - x.old[u].lp /\ Pool!TotalFees' - Pool!TotalFees = Credits(x)[u]
    BY <1>5, <1>6, <1>7, <2>1
  <2>3. pool'.lp - pool.lp = 0 /\ Worth(pool') - Worth(pool) = 0
    BY <1>9, <1>10
  <2> QED
    BY <1>4, <1>6, <1>7, <1>8, <2>2, <2>3
<1> QED
  BY <1>1, <1>9, <1>11, SaveKeeps DEF x, y

\* Between requests nothing is due and nothing is given in advance.
LEMMA QuietSums ==
  ASSUME Pool!Assumptions, Pool!TypeOK, \A c \in Calls : ~request[c].saved
  PROVE  AllDue = 0 /\ AllGiven = 0
<1> DEFINE f == [c \in Calls |-> Due(request[c])]
           g == [c \in Calls |-> Given(request[c])]
<1>1. \A c \in Calls : f[c] = 0 /\ g[c] = 0
  BY DEF Due, Given
<1>2. AllDue = SumFunctionOnSet(f, Calls) /\ AllGiven = SumFunctionOnSet(g, Calls)
  BY DEF AllDue, AllGiven
<1> HIDE DEF f, g
<1>3. SumFunctionOnSet(f, Calls) = 0 /\ SumFunctionOnSet(g, Calls) = 0
  BY <1>1, PoolConstants, SumZero
<1> QED
  BY <1>2, <1>3

LEMMA PoolInvKept ==
  ASSUME Pool!Assumptions, PoolInv, [Pool!Next]_Pool!vars
  PROVE  PoolInv'
<1>1. CASE Pool!Next
  BY <1>1, PoolSteps, CreateKeeps, TurnedKeeps, SavesPoolKeeps, SavesRowKeeps, SavesPositionKeeps
<1>2. CASE UNCHANGED Pool!vars
  <2>1. UNCHANGED <<pool, position, request, requests, outdated, torn, uneven>>
    BY <1>2 DEF Pool!vars
  <2>2. Pool!TotalLp' = Pool!TotalLp /\ Pool!TotalFees' = Pool!TotalFees
    BY <2>1 DEF Pool!TotalLp, Pool!TotalFees, Pool!Fees
  <2>3. AllDue' = AllDue /\ AllGiven' = AllGiven
    BY <2>1 DEF AllDue, AllGiven, Due, Given, Credits
  <2>4. SharedAll'
    BY <2>1 DEF PoolInv, SharedAll, Shared, Worth, Credits
  <2>5. \A i \in Calls : CallOK(request'[i])
    BY <2>1 DEF PoolInv
  <2> QED
    BY <2>1, <2>2, <2>3, <2>4, <2>5, InvParts DEF PoolInv, Pool!TypeOK, LpHeld, FeesHeld
<1> QED
  BY <1>1, <1>2

LEMMA PoolInit ==
  ASSUME Pool!Assumptions, Pool!Init
  PROVE  PoolInv
<1>1. /\ pool = Pool!NoPool /\ position = [u \in Providers |-> Pool!NoPosition] /\ request = [c \in Calls |-> Pool!Free]
      /\ requests = 0 /\ outdated = FALSE /\ torn = FALSE /\ uneven = FALSE
  BY DEF Pool!Init
<1>2. Pool!TypeOK
  <2>1. Pool!NoPool \in Pool!PoolRow /\ Pool!NoPosition \in Pool!PositionRow
    BY DEF Pool!NoPool, Pool!PoolRow, Pool!NoPosition, Pool!PositionRow
  <2>2. position \in [Providers -> Pool!PositionRow] /\ pool \in Pool!PoolRow
    BY <1>1, <2>1
  <2>3. request \in [Calls -> Pool!RequestRow]
    BY <1>1, FreeRow
  <2>4. requests \in 0 .. MaxRequests
    BY <1>1, PoolConstants
  <2> QED
    BY <1>1, <2>2, <2>3, <2>4 DEF Pool!TypeOK
<1>3. \A c \in Calls : request[c] = Pool!Free /\ CallOK(request[c]) /\ request[c].op = "none" /\ ~request[c].saved
  BY <1>1, FreeRow
<1>4. SharedAll
  BY <1>3 DEF SharedAll
<1>5. AllDue = 0 /\ AllGiven = 0
  BY <1>2, <1>3, QuietSums
<1>6. Pool!TotalLp = 0 /\ Pool!TotalFees = 0
  <2> DEFINE f == [u \in Providers |-> position[u].lp]
             g == [u \in Providers |-> Pool!Fees(position[u])]
  <2>1. \A u \in Providers : f[u] = 0 /\ g[u] = 0
    BY <1>1 DEF Pool!NoPosition, Pool!Fees
  <2> HIDE DEF f, g
  <2>2. SumFunctionOnSet(f, Providers) = 0 /\ SumFunctionOnSet(g, Providers) = 0
    BY <2>1, PoolConstants, SumZero
  <2> QED
    BY <2>2, PoolLibrary DEF Pool!TotalLp, Pool!TotalFees, f, g
<1>7. pool.lp = 0 /\ Worth(pool) \in Nat
  <2>1. pool \in Pool!PoolRow
    BY <1>2 DEF Pool!TypeOK
  <2> QED
    BY <1>1, <2>1, WorthNat DEF Pool!NoPool
<1> QED
  BY <1>1, <1>2, <1>3, <1>4, <1>5, <1>6, <1>7 DEF PoolInv, LpHeld, FeesHeld

(* Rows and requests keep their types: no amount, supply or fee of a pool or  *)
(* a position becomes negative, whatever requests interleave                  *)
(* (liquidity-pool.service.ts 122-369).                                       *)
THEOREM PoolTypeCorrect ==
  ASSUME Pool!Assumptions
  PROVE  Pool!Spec => []Pool!TypeOK
<1>1. PoolInv => Pool!TypeOK
  BY DEF PoolInv
<1> QED
  BY <1>1, PoolInit, PoolInvKept, PTL DEF Pool!Spec

(* Whenever no handler is between two of its saves, none has failed there and *)
(* no save has replaced a newer row, a pool's LP supply is what its positions *)
(* hold: addLiquidity, removeLiquidity, emergencyWithdraw and swap change     *)
(* both tables alike, in two saves each (liquidity-pool.service.ts 122-369).  *)
THEOREM SupplyAlwaysHeld ==
  ASSUME Pool!Assumptions
  PROVE  Pool!Spec => []Pool!SupplyIsHeld
<1>1. ASSUME PoolInv PROVE Pool!SupplyIsHeld
  <2> SUFFICES ASSUME Pool!Quiet, ~outdated, ~torn PROVE pool.lp = Pool!TotalLp
    BY DEF Pool!SupplyIsHeld
  <2>1. AllDue = 0 /\ pool.lp = Pool!TotalLp + AllDue
    BY <1>1, QuietSums DEF PoolInv, LpHeld, Pool!Quiet
  <2>2. Pool!TotalLp \in Nat
    BY <1>1, PositionSums DEF PoolInv
  <2> QED
    BY <2>1, <2>2
<1> QED
  BY <1>1, PoolInit, PoolInvKept, PTL DEF Pool!Spec

(* Under the same conditions, and if no swap has shared its fee by a supply   *)
(* and positions of two different moments, what positions have been credited  *)
(* is covered by the fees charged, up to a unit per share: the rounding of    *)
(* distributeFees (liquidity-pool.service.ts 320-343, amm.service.ts).        *)
THEOREM FeesAlwaysShared ==
  ASSUME Pool!Assumptions
  PROVE  Pool!Spec => []Pool!FeesAreShared
<1>1. ASSUME PoolInv PROVE Pool!FeesAreShared
  <2> SUFFICES ASSUME Pool!Quiet, ~outdated, ~torn, ~uneven
               PROVE  Pool!TotalFees <= Worth(pool)
    BY PoolLibrary DEF Pool!FeesAreShared, Worth
  <2>1. AllGiven = 0 /\ Pool!TotalFees <= Worth(pool) + AllGiven
    BY <1>1, QuietSums DEF PoolInv, FeesHeld, Pool!Quiet
  <2>2. Worth(pool) \in Nat
    BY <1>1, WorthNat DEF PoolInv, Pool!TypeOK
  <2> QED
    BY <2>1, <2>2
<1> QED
  BY <1>1, PoolInit, PoolInvKept, PTL DEF Pool!Spec

(* A swap's save of the pool, unless it replaces a newer row, does not lower  *)
(* the product of the reserves by more than the rounding of its output: the   *)
(* fee stays in the pool (amm.service.ts 35-63).                              *)
THEOREM ProductAlwaysKept ==
  ASSUME Pool!Assumptions
  PROVE  Pool!Spec => Pool!ProductKept
<1> DEFINE Kept == pool'.swaps > pool.swaps /\ outdated' = FALSE =>
                     2 * pool'.a * pool'.b + pool'.a + pool'.b >= 2 * pool.a * pool.b
<1>1. ASSUME PoolInv, [Pool!Next]_Pool!vars PROVE [Kept]_Pool!vars
  <2> SUFFICES ASSUME Pool!Next, pool'.swaps > pool.swaps, outdated' = FALSE
               PROVE  2 * pool'.a * pool'.b + pool'.a + pool'.b >= 2 * pool.a * pool.b
    BY <1>1
  <2>1. pool \in Pool!PoolRow /\ pool.swaps \in Nat /\ pool' # pool
    BY <1>1, PoolFields DEF PoolInv, Pool!TypeOK
  <2>2. ~Pool!CreatePool
    <3> SUFFICES ASSUME Pool!CreatePool PROVE FALSE
      OBVIOUS
    <3>1. pool = Pool!NoPool /\ pool' = [Pool!NoPool EXCEPT !.exists = TRUE]
      BY <1>1 DEF Pool!CreatePool, PoolInv
    <3>2. pool'.swaps = 0 /\ pool.swaps = 0
      BY <3>1 DEF Pool!NoPool
    <3> QED
      BY <3>2
  <2>3. PICK c \in Calls : SavesPool(c)
    BY <1>1, <2>1, <2>2, PoolSteps DEF Turned, SavesRow, SavesPosition
  <2> DEFINE x == request[c]
  <2>4. pool' = x.newPool /\ pool = x.pool /\ "pool" \in x.saves /\ CallOK(x)
    BY <1>1, <2>3 DEF SavesPool, Pool!Turn, PoolInv, Pool!TypeOK
  <2>5. x.op = "swap" /\ SwapOK(x)
    <3>1. x.op # "swap" => x.newPool.swaps = x.pool.swaps
      BY <2>4 DEF CallOK, DepositOK
    <3>2. x.op = "swap"
      BY <2>1, <2>4, <3>1
    <3> QED
      BY <2>4, <3>2 DEF CallOK
  <2> QED
    BY <2>4, <2>5 DEF SwapOK, Product
<1> QED
  BY <1>1, PoolInit, PoolInvKept, PTL DEF Pool!Spec, Pool!ProductKept

-----------------------------------------------------------------------------
(* WebSocket clients: the inductive invariant.                             *)

\* Who gets a user's messages has been that user.
WsEarned ==
  \A u \in Users : userSubscriptions[u] # None =>
    \A c \in userSubscriptions[u] : \E i \in been[c] : i.user = u

\* A connected client is nobody and has subscribed to nothing, or one of those it has been.
WsIdentity ==
  \A c \in Clients :
    /\ Ws!Connected(c) => \/ clients[c].as = Ws!Anonymous /\ been[c] = {} /\ clients[c].subs = {}
                          \/ clients[c].as \in been[c]
    /\ clients[c] = Away => been[c] = {}

\* The lists of the channels and those of the clients are the same.
WsListed ==
  \A ch \in Channels : \A c \in Clients :
    c \in subscriptions[ch] <=> Ws!Connected(c) /\ ch \in clients[c].subs

\* Who listens to an admin channel has been an admin.
WsAdmins ==
  \A ch \in Channels \cap AdminChannels : \A c \in subscriptions[ch] : \E i \in been[c] : i.role = "admin"

\* A subscriber that has been one user only is among the clients of that user,
\* unless one of these has left.
WsReached ==
  \A c \in Clients :
    /\ Ws!Connected(c) /\ clients[c].subs # {} /\ clients[c].as.user \notin deserted
    /\ \A i \in been[c] : i.user = clients[c].as.user
    => userSubscriptions[clients[c].as.user] # None /\ c \in userSubscriptions[clients[c].as.user]

WsInv == Ws!TypeOK /\ WsEarned /\ WsIdentity /\ WsListed /\ WsAdmins /\ WsReached


-----------------------------------------------------------------------------
(* WebSocket clients: types.                                               *)

\* The instance's operators are the library's.
LEMMA WsLibrary ==
  /\ \A S : Ws!Cardinality(S) = Cardinality(S)
  /\ \A S : Ws!IsFiniteSet(S) <=> IsFiniteSet(S)
<1>1. \A S : Ws!IsFiniteSet(S) <=> IsFiniteSet(S)
  BY DEF Ws!IsFiniteSet, IsFiniteSet
<1>2. \A S : Ws!Cardinality(S) = Cardinality(S)
  BY DEF Ws!Cardinality, Cardinality
<1> QED
  BY <1>1, <1>2

LEMMA WsFinite ==
  ASSUME Ws!Assumptions
  PROVE  IsFiniteSet(Clients) /\ IsFiniteSet(Tokens)
BY WsLibrary DEF Ws!Assumptions

LEMMA WsRows ==
  ASSUME Ws!Assumptions
  PROVE  /\ Away \notin Ws!ClientRow /\ Gone \notin Ws!ClientRow /\ Away # Gone
         /\ None \notin Users /\ None \notin SUBSET Clients
         /\ Ws!NewClient \in Ws!ClientRow
         /\ \A t \in Tokens : t.user \in Users /\ t # Ws!Anonymous
<1>1. Ws!NewClient \in Ws!ClientRow
  BY DEF Ws!NewClient, Ws!ClientRow
<1>2. \A t \in Tokens : t.user \in Users /\ t # Ws!Anonymous
  BY DEF Ws!Assumptions, Ws!Anonymous
<1> QED
  BY <1>1, <1>2 DEF Ws!Assumptions

\* What the row of a connected client is.
LEMMA WsConnected ==
  ASSUME Ws!Assumptions, Ws!TypeOK, NEW c \in Clients
  PROVE  /\ Ws!Connected(c) <=> clients[c] \in Ws!ClientRow
         /\ Ws!Connected(c) => /\ clients[c].as \in Tokens \cup {Ws!Anonymous}
                               /\ clients[c].subs \in SUBSET Channels /\ clients[c].age \in 0 .. 2
<1>1. clients[c] \in Ws!ClientRow \cup {Away, Gone}
  BY DEF Ws!TypeOK
<1>2. Ws!Connected(c) <=> clients[c] \in Ws!ClientRow
  BY <1>1, WsRows DEF Ws!Connected
<1>3. clients[c] \in Ws!ClientRow => /\ clients[c].as \in Tokens \cup {Ws!Anonymous}
                                     /\ clients[c].subs \in SUBSET Channels /\ clients[c].age \in 0 .. 2
  BY DEF Ws!ClientRow
<1> QED
  BY <1>2, <1>3

\* Clients that stay keep their identity and their subscriptions.
Staying(cs, stay) ==
  /\ stay \in [Clients -> Ws!ClientRow \cup {Away, Gone}]
  /\ \A c \in Clients \ cs :
       \/ ~Ws!Connected(c) /\ stay[c] = clients[c]
       \/ /\ Ws!Connected(c) /\ stay[c] \in Ws!ClientRow
          /\ stay[c].as = clients[c].as /\ stay[c].subs = clients[c].subs

LEMMA StayingSame ==
  ASSUME Ws!Assumptions, Ws!TypeOK, NEW cs
  PROVE  Staying(cs, clients)
BY WsConnected DEF Staying, Ws!TypeOK

LEMMA StayingOlder ==
  ASSUME Ws!Assumptions, Ws!TypeOK,
         NEW old, old = {c \in Clients : Ws!Connected(c) /\ clients[c].age = 2}
  PROVE  Staying(old, [c \in Clients |-> IF Ws!Connected(c) /\ c \notin old
                                         THEN [clients[c] EXCEPT !.age = @ + 1] ELSE clients[c]])
<1> DEFINE older(c) == [clients[c] EXCEPT !.age = @ + 1]
           stay == [c \in Clients |-> IF Ws!Connected(c) /\ c \notin old THEN older(c) ELSE clients[c]]
<1>1. ASSUME NEW c \in Clients, Ws!Connected(c), c \notin old
      PROVE  older(c) \in Ws!ClientRow /\ older(c).as = clients[c].as /\ older(c).subs = clients[c].subs
  <2>1. clients[c].age \in 0 .. 1 /\ clients[c] \in Ws!ClientRow
    BY <1>1, WsConnected
  <2> QED
    BY <2>1 DEF Ws!ClientRow
<1>2. \A c \in Clients : clients[c] \in Ws!ClientRow \cup {Away, Gone}
  BY DEF Ws!TypeOK
<1> HIDE DEF older
<1>3. stay \in [Clients -> Ws!ClientRow \cup {Away, Gone}]
  BY <1>1, <1>2
<1>4. \A c \in Clients \ old : \/ ~Ws!Connected(c) /\ stay[c] = clients[c]
                               \/ /\ Ws!Connected(c) /\ stay[c] \in Ws!ClientRow
                                  /\ stay[c].as = clients[c].as /\ stay[c].subs = clients[c].subs
  BY <1>1
<1> HIDE DEF stay
<1>5. Staying(old, stay)
  BY <1>3, <1>4 DEF Staying
<1> QED
  BY <1>5 DEF stay, older

-----------------------------------------------------------------------------
(* WebSocket clients: the steps keep the invariant.                        *)

LEMMA WsLeft ==
  ASSUME Ws!Assumptions, WsInv, NEW cs \in SUBSET Clients, \A c \in cs : Ws!Connected(c),
         NEW stay, Staying(cs, stay), Ws!Leave(cs, stay)
  PROVE  WsInv'
<1> DEFINE us == {clients[c].as.user : c \in cs} \ {None}
<1>1. /\ clients' = [c \in Clients |-> IF c \in cs THEN Gone ELSE stay[c]]
      /\ subscriptions' = [ch \in Channels |-> subscriptions[ch] \ cs]
      /\ userSubscriptions' = [u \in Users |-> IF u \in us THEN None ELSE userSubscriptions[u]]
      /\ deserted' = deserted \cup us /\ been' = been
  BY DEF Ws!Leave
<1>2. us \subseteq Users
  <2>1. \A c \in cs : clients[c].as \in Tokens \cup {Ws!Anonymous}
    BY WsConnected DEF WsInv
  <2> QED
    BY <2>1, WsRows DEF Ws!Anonymous
<1>3. \A c \in Clients : \/ c \in cs /\ ~Ws!Connected(c)'
                         \/ c \notin cs /\ ~Ws!Connected(c) /\ ~Ws!Connected(c)' /\ clients'[c] = clients[c]
                         \/ /\ c \notin cs /\ Ws!Connected(c) /\ Ws!Connected(c)'
                            /\ clients'[c].as = clients[c].as /\ clients'[c].subs = clients[c].subs
  BY <1>1, WsRows DEF Staying, Ws!Connected
<1> HIDE DEF us
<1>4. Ws!TypeOK'
  <2>1. clients' \in [Clients -> Ws!ClientRow \cup {Away, Gone}]
    BY <1>1 DEF Staying
  <2>2. subscriptions' \in [Channels -> SUBSET Clients]
    BY <1>1 DEF WsInv, Ws!TypeOK
  <2>3. userSubscriptions' \in [Users -> (SUBSET Clients) \cup {None}]
    BY <1>1 DEF WsInv, Ws!TypeOK
  <2> QED
    BY <1>1, <1>2, <2>1, <2>2, <2>3 DEF WsInv, Ws!TypeOK
<1>5. WsEarned'
  BY <1>1 DEF WsInv, WsEarned
<1>6. WsIdentity'
  <2>1. \A c \in Clients : clients'[c] = Away => clients[c] = Away
    BY <1>1, WsRows, WsConnected DEF Staying, WsInv, Ws!Connected
  <2> QED
    BY <1>1, <1>3, <2>1 DEF WsInv, WsIdentity, Ws!Anonymous
<1>7. WsListed'
  BY <1>1, <1>3 DEF WsInv, WsListed
<1>8. WsAdmins'
  BY <1>1 DEF WsInv, WsAdmins
<1>9. WsReached'
  <2> SUFFICES ASSUME NEW c \in Clients, Ws!Connected(c)', clients'[c].subs # {},
                      clients'[c].as.user \notin deserted',
                      \A i \in been'[c] : i.user = clients'[c].as.user
               PROVE  userSubscriptions'[clients'[c].as.user] # None /\ c \in userSubscriptions'[clients'[c].as.user]
    BY DEF WsReached
  <2>1. Ws!Connected(c) /\ clients'[c].as = clients[c].as /\ clients'[c].subs = clients[c].subs
    BY <1>3
  <2>2. userSubscriptions[clients[c].as.user] # None /\ c \in userSubscriptions[clients[c].as.user]
    BY <2>1, <1>1 DEF WsInv, WsReached
  <2>3. clients[c].as.user \in Users
    <3>1. clients[c].as \in been[c]
      BY <2>1 DEF WsInv, WsIdentity
    <3> QED
      BY <3>1, WsRows DEF WsInv, Ws!TypeOK
  <2> QED
    BY <1>1, <2>1, <2>2, <2>3
<1> QED
  BY <1>4, <1>5, <1>6, <1>7, <1>8, <1>9 DEF WsInv

LEMMA WsJoined ==
  ASSUME Ws!Assumptions, WsInv, NEW c \in Clients, Ws!HandleConnection(c)
  PROVE  WsInv'
<1>1. /\ clients[c] = Away /\ clients' = [clients EXCEPT ![c] = Ws!NewClient]
      /\ UNCHANGED <<subscriptions, userSubscriptions, been, deserted>>
  BY DEF Ws!HandleConnection
<1>2. /\ clients'[c] = Ws!NewClient /\ ~Ws!Connected(c) /\ Ws!Connected(c)'
      /\ \A d \in Clients \ {c} : clients'[d] = clients[d] /\ (Ws!Connected(d)' <=> Ws!Connected(d))
  BY <1>1, WsRows DEF Ws!Connected, WsInv, Ws!TypeOK
<1>3. clients'[c].as = Ws!Anonymous /\ clients'[c].subs = {}
  BY <1>2 DEF Ws!NewClient
<1>4. Ws!TypeOK'
  BY <1>1, WsRows DEF WsInv, Ws!TypeOK
<1>5. WsEarned' /\ WsAdmins'
  BY <1>1 DEF WsInv, WsEarned, WsAdmins
<1>6. WsIdentity'
  BY <1>1, <1>2, <1>3, WsRows DEF WsInv, WsIdentity, Ws!Anonymous
<1>7. WsListed'
  BY <1>1, <1>2, <1>3 DEF WsInv, WsListed
<1>8. WsReached'
  BY <1>1, <1>2, <1>3 DEF WsInv, WsReached
<1> QED
  BY <1>4, <1>5, <1>6, <1>7, <1>8 DEF WsInv

LEMMA WsNamed ==
  ASSUME Ws!Assumptions, WsInv, NEW c \in Clients, NEW payload \in Tokens, Ws!HandleAuthenticate(c, payload)
  PROVE  WsInv'
<1> DEFINE u == payload.user
<1>1. /\ Ws!Connected(c) /\ clients' = [clients EXCEPT ![c].as = payload, ![c].age = 0]
      /\ userSubscriptions' = IF userSubscriptions[u] = None THEN userSubscriptions
                              ELSE [userSubscriptions EXCEPT ![u] = userSubscriptions[u] \cup {c}]
      /\ been' = [been EXCEPT ![c] = been[c] \cup {payload}] /\ UNCHANGED <<subscriptions, deserted>>
  BY DEF Ws!HandleAuthenticate, Ws!RestoreUserSubscriptions
<1>2. u \in Users
  BY WsRows
<1> HIDE DEF u
<1>3. clients'[c] \in Ws!ClientRow /\ clients'[c].as = payload /\ clients'[c].subs = clients[c].subs
  <2>1. clients[c] \in Ws!ClientRow
    BY <1>1, WsConnected DEF WsInv
  <2>2. clients'[c] = [clients[c] EXCEPT !.as = payload, !.age = 0]
    BY <1>1 DEF WsInv, Ws!TypeOK
  <2> DEFINE x == [clients[c] EXCEPT !.as = payload]
             y == [x EXCEPT !.age = 0]
  <2>3. x \in Ws!ClientRow /\ x.as = payload /\ x.subs = clients[c].subs
    BY <2>1 DEF Ws!ClientRow
  <2>4. clients'[c] = y
    BY <2>1, <2>2 DEF Ws!ClientRow
  <2> HIDE DEF x
  <2>5. y \in Ws!ClientRow /\ y.as = x.as /\ y.subs = x.subs
    BY <2>3 DEF Ws!ClientRow
  <2> QED
    BY <2>3, <2>4, <2>5
<1>4. /\ Ws!Connected(c)'
      /\ \A d \in Clients \ {c} : clients'[d] = clients[d] /\ (Ws!Connected(d)' <=> Ws!Connected(d))
  BY <1>1, <1>3, WsRows DEF Ws!Connected, WsInv, Ws!TypeOK
<1>5. been'[c] = been[c] \cup {payload} /\ \A d \in Clients \ {c} : been'[d] = been[d]
  BY <1>1 DEF WsInv, Ws!TypeOK
<1>6. \A v \in Users : \/ userSubscriptions'[v] = userSubscriptions[v]
                       \/ /\ v = u /\ userSubscriptions[v] # None
                          /\ userSubscriptions'[v] = userSubscriptions[v] \cup {c}
  BY <1>1 DEF WsInv, Ws!TypeOK
<1>7. Ws!TypeOK'
  <2>1. clients' \in [Clients -> Ws!ClientRow \cup {Away, Gone}]
    BY <1>1, <1>3, <1>4 DEF WsInv, Ws!TypeOK
  <2>2. userSubscriptions' \in [Users -> (SUBSET Clients) \cup {None}]
    BY <1>1, <1>2 DEF WsInv, Ws!TypeOK
  <2>3. been' \in [Clients -> SUBSET Tokens]
    BY <1>1 DEF WsInv, Ws!TypeOK
  <2> QED
    BY <1>1, <2>1, <2>2, <2>3 DEF WsInv, Ws!TypeOK
<1>8. WsEarned'
  <2> SUFFICES ASSUME NEW v \in Users, userSubscriptions'[v] # None, NEW d \in userSubscriptions'[v]
               PROVE  \E i \in been'[d] : i.user = v
    BY DEF WsEarned
  <2>1. d \in Clients
    BY <1>7 DEF Ws!TypeOK
  <2>2. CASE d = c /\ v = u
    BY <1>5, <2>2 DEF u
  <2>3. CASE ~(d = c /\ v = u)
    <3>1. userSubscriptions[v] # None /\ d \in userSubscriptions[v]
      BY <1>6, <2>3
    <3>2. \E i \in been[d] : i.user = v
      BY <3>1 DEF WsInv, WsEarned
    <3> QED
      BY <3>2, <1>5, <2>1
  <2> QED
    BY <2>2, <2>3
<1>9. WsIdentity'
  BY <1>3, <1>4, <1>5, WsRows DEF WsInv, WsIdentity, Ws!Anonymous
<1>10. WsListed'
  BY <1>1, <1>3, <1>4 DEF WsInv, WsListed
<1>11. WsAdmins'
  <2>1. \A d \in Clients : been[d] \subseteq been'[d]
    BY <1>5
  <2>2. \A ch \in Channels : subscriptions'[ch] \subseteq Clients /\ subscriptions'[ch] = subscriptions[ch]
    BY <1>1, <1>7 DEF Ws!TypeOK
  <2> QED
    BY <2>1, <2>2 DEF WsInv, WsAdmins
<1>12. WsReached'
  <2> SUFFICES ASSUME NEW d \in Clients, Ws!Connected(d)', clients'[d].subs # {},
                      clients'[d].as.user \notin deserted',
                      \A i \in been'[d] : i.user = clients'[d].as.user
               PROVE  userSubscriptions'[clients'[d].as.user] # None /\ d \in userSubscriptions'[clients'[d].as.user]
    BY DEF WsReached
  <2>1. Ws!Connected(d) /\ clients'[d].subs = clients[d].subs
    BY <1>1, <1>3, <1>4
  <2>2. clients[d].as \in been[d]
    BY <2>1 DEF WsInv, WsIdentity
  <2>3. clients[d].as.user = clients'[d].as.user
    BY <2>2, <1>5
  <2>4. userSubscriptions[clients[d].as.user] # None /\ d \in userSubscriptions[clients[d].as.user]
    <3>1. clients[d].as.user \notin deserted /\ clients[d].subs # {}
      BY <2>1, <2>3, <1>1
    <3>2. \A i \in been[d] : i.user = clients[d].as.user
      BY <2>3, <1>5
    <3> QED
      BY <2>1, <3>1, <3>2 DEF WsInv, WsReached
  <2>5. clients[d].as.user \in Users
    BY <2>2, WsRows DEF WsInv, Ws!TypeOK
  <2>6. userSubscriptions[clients[d].as.user] \cup {c} # None
    BY <2>4, <2>5, WsRows DEF WsInv, Ws!TypeOK
  <2> QED
    BY <1>6, <2>3, <2>4, <2>5, <2>6
<1> QED
  BY <1>7, <1>8, <1>9, <1>10, <1>11, <1>12 DEF WsInv

\* One client changes only its age.
LEMMA WsPinged ==
  ASSUME Ws!Assumptions, WsInv, NEW c \in Clients, Ws!HandlePing(c)
  PROVE  WsInv'
<1>1. /\ Ws!Connected(c) /\ clients' = [clients EXCEPT ![c].age = 0]
      /\ UNCHANGED <<subscriptions, userSubscriptions, been, deserted>>
  BY DEF Ws!HandlePing
<1>2. /\ clients'[c] \in Ws!ClientRow /\ clients'[c].as = clients[c].as
      /\ clients'[c].subs = clients[c].subs
  <2>1. clients[c] \in Ws!ClientRow
    BY <1>1, WsConnected DEF WsInv
  <2>2. clients'[c] = [clients[c] EXCEPT !.age = 0]
    BY <1>1 DEF WsInv, Ws!TypeOK
  <2> QED
    BY <2>1, <2>2 DEF Ws!ClientRow
<1>3. /\ Ws!Connected(c)'
      /\ \A d \in Clients \ {c} : clients'[d] = clients[d] /\ (Ws!Connected(d)' <=> Ws!Connected(d))
  BY <1>1, <1>2, WsRows DEF Ws!Connected, WsInv, Ws!TypeOK
<1>4. Ws!TypeOK'
  <2>1. clients' \in [Clients -> Ws!ClientRow \cup {Away, Gone}]
    BY <1>1, <1>2, <1>3 DEF WsInv, Ws!TypeOK
  <2> QED
    BY <1>1, <2>1 DEF WsInv, Ws!TypeOK
<1>5. WsEarned' /\ WsAdmins'
  BY <1>1 DEF WsInv, WsEarned, WsAdmins
<1>6. WsIdentity'
  BY <1>1, <1>2, <1>3, WsRows DEF WsInv, WsIdentity, Ws!Anonymous
<1>7. WsListed'
  BY <1>1, <1>2, <1>3 DEF WsInv, WsListed
<1>8. WsReached'
  BY <1>1, <1>2, <1>3 DEF WsInv, WsReached
<1> QED
  BY <1>4, <1>5, <1>6, <1>7, <1>8 DEF WsInv

LEMMA WsUnsubscribed ==
  ASSUME Ws!Assumptions, WsInv, NEW c \in Clients, NEW chs \in SUBSET Channels, Ws!HandleUnsubscribe(c, chs)
  PROVE  WsInv'
<1>1. /\ Ws!Connected(c) /\ clients' = [clients EXCEPT ![c].subs = clients[c].subs \ chs]
      /\ subscriptions' = [ch \in Channels |-> IF ch \in chs THEN subscriptions[ch] \ {c} ELSE subscriptions[ch]]
      /\ UNCHANGED <<userSubscriptions, been, deserted>>
  BY DEF Ws!HandleUnsubscribe, Ws!UnsubscribeFromChannels
<1>2. /\ clients'[c] \in Ws!ClientRow /\ clients'[c].as = clients[c].as
      /\ clients'[c].subs = clients[c].subs \ chs
  <2>1. clients[c] \in Ws!ClientRow
    BY <1>1, WsConnected DEF WsInv
  <2>2. clients'[c] = [clients[c] EXCEPT !.subs = clients[c].subs \ chs]
    BY <1>1 DEF WsInv, Ws!TypeOK
  <2> QED
    BY <2>1, <2>2 DEF Ws!ClientRow
<1>3. /\ Ws!Connected(c)'
      /\ \A d \in Clients \ {c} : clients'[d] = clients[d] /\ (Ws!Connected(d)' <=> Ws!Connected(d))
  BY <1>1, <1>2, WsRows DEF Ws!Connected, WsInv, Ws!TypeOK
<1>4. Ws!TypeOK'
  <2>1. clients' \in [Clients -> Ws!ClientRow \cup {Away, Gone}]
    BY <1>1, <1>2, <1>3 DEF WsInv, Ws!TypeOK
  <2>2. subscriptions' \in [Channels -> SUBSET Clients]
    BY <1>1 DEF WsInv, Ws!TypeOK
  <2> QED
    BY <1>1, <2>1, <2>2 DEF WsInv, Ws!TypeOK
<1>5. WsEarned' /\ WsAdmins'
  BY <1>1 DEF WsInv, WsEarned, WsAdmins
<1>6. WsIdentity'
  BY <1>1, <1>2, <1>3, WsRows DEF WsInv, WsIdentity, Ws!Anonymous
<1>7. WsListed'
  BY <1>1, <1>2, <1>3 DEF WsInv, WsListed
<1>8. WsReached'
  BY <1>1, <1>2, <1>3 DEF WsInv, WsReached
<1> QED
  BY <1>4, <1>5, <1>6, <1>7, <1>8 DEF WsInv

LEMMA WsSubscribed ==
  ASSUME Ws!Assumptions, WsInv, NEW c \in Clients, NEW asked \in SUBSET Channels, Ws!HandleSubscribe(c, asked)
  PROVE  WsInv'
<1> DEFINE chs == {ch \in asked : Ws!ValidateSubscription(c, ch)}
           u == clients[c].as.user
<1>1. /\ Ws!Connected(c) /\ clients[c].as # Ws!Anonymous
      /\ clients' = [clients EXCEPT ![c].subs = clients[c].subs \cup chs]
      /\ subscriptions' = [ch \in Channels |-> IF ch \in chs THEN subscriptions[ch] \cup {c} ELSE subscriptions[ch]]
      /\ userSubscriptions' = IF chs = {} THEN userSubscriptions
           ELSE [userSubscriptions EXCEPT ![u] = IF userSubscriptions[u] = None THEN {c}
                                                 ELSE userSubscriptions[u] \cup {c}]
      /\ UNCHANGED <<been, deserted>>
  BY DEF Ws!HandleSubscribe, Ws!SubscribeToChannels, Ws!Authenticated
<1>2. chs \subseteq Channels /\ \A ch \in chs : ch \in AdminChannels => clients[c].as.role = "admin"
  BY DEF Ws!ValidateSubscription
<1>3. clients[c].as \in been[c] /\ u \in Users
  <2>1. clients[c].as \in been[c]
    BY <1>1 DEF WsInv, WsIdentity
  <2> QED
    BY <2>1, WsRows DEF WsInv, Ws!TypeOK
<1> HIDE DEF chs, u
<1>4. /\ clients'[c] \in Ws!ClientRow /\ clients'[c].as = clients[c].as
      /\ clients'[c].subs = clients[c].subs \cup chs
  <2>1. clients[c] \in Ws!ClientRow
    BY <1>1, WsConnected DEF WsInv
  <2>2. clients'[c] = [clients[c] EXCEPT !.subs = clients[c].subs \cup chs]
    BY <1>1 DEF WsInv, Ws!TypeOK
  <2> QED
    BY <2>1, <2>2, <1>2 DEF Ws!ClientRow
<1>5. /\ Ws!Connected(c)'
      /\ \A d \in Clients \ {c} : clients'[d] = clients[d] /\ (Ws!Connected(d)' <=> Ws!Connected(d))
  BY <1>1, <1>4, WsRows DEF Ws!Connected, WsInv, Ws!TypeOK
<1>6. \A v \in Users :
        \/ userSubscriptions'[v] = userSubscriptions[v] /\ (v # u \/ chs = {})
        \/ v = u /\ userSubscriptions[v] = None /\ userSubscriptions'[v] = {c}
        \/ v = u /\ userSubscriptions[v] # None /\ userSubscriptions'[v] = userSubscriptions[v] \cup {c}
  BY <1>1 DEF WsInv, Ws!TypeOK
<1>7. Ws!TypeOK'
  <2>1. clients' \in [Clients -> Ws!ClientRow \cup {Away, Gone}]
    BY <1>1, <1>4, <1>5 DEF WsInv, Ws!TypeOK
  <2>2. subscriptions' \in [Channels -> SUBSET Clients]
    BY <1>1 DEF WsInv, Ws!TypeOK
  <2>3. userSubscriptions' \in [Users -> (SUBSET Clients) \cup {None}]
    BY <1>1, <1>3 DEF WsInv, Ws!TypeOK
  <2> QED
    BY <1>1, <2>1, <2>2, <2>3 DEF WsInv, Ws!TypeOK
<1>8. WsEarned'
  <2> SUFFICES ASSUME NEW v \in Users, userSubscriptions'[v] # None, NEW d \in userSubscriptions'[v]
               PROVE  \E i \in been[d] : i.user = v
    BY <1>1 DEF WsEarned
  <2>1. CASE d = c /\ v = u
    BY <1>3, <2>1 DEF u
  <2>2. CASE ~(d = c /\ v = u)
    BY <1>6, <2>2 DEF WsInv, WsEarned
  <2> QED
    BY <2>1, <2>2
<1>9. WsIdentity'
  BY <1>1, <1>3, <1>4, <1>5, WsRows DEF WsInv, WsIdentity, Ws!Anonymous
<1>10. WsListed'
  BY <1>1, <1>4, <1>5 DEF WsInv, WsListed
<1>11. WsAdmins'
  <2> SUFFICES ASSUME NEW ch \in Channels \cap AdminChannels, NEW d \in subscriptions'[ch]
               PROVE  \E i \in been[d] : i.role = "admin"
    BY <1>1 DEF WsAdmins
  <2>1. d \in subscriptions[ch] \/ (d = c /\ ch \in chs)
    BY <1>1
  <2> QED
    BY <1>2, <1>3, <2>1 DEF WsInv, WsAdmins
<1>12. WsReached'
  <2> SUFFICES ASSUME NEW d \in Clients, Ws!Connected(d)', clients'[d].subs # {},
                      clients'[d].as.user \notin deserted',
                      \A i \in been'[d] : i.user = clients'[d].as.user
               PROVE  userSubscriptions'[clients'[d].as.user] # None /\ d \in userSubscriptions'[clients'[d].as.user]
    BY DEF WsReached
  <2>1. Ws!Connected(d) /\ clients'[d].as = clients[d].as
    BY <1>1, <1>4, <1>5
  <2>2. CASE d = c /\ chs # {}
    <3>1. {c} # None /\ (userSubscriptions[u] # None => userSubscriptions[u] \cup {c} # None)
      BY <1>3, WsRows DEF WsInv, Ws!TypeOK
    <3> QED
      BY <1>3, <1>6, <2>1, <2>2, <3>1 DEF u
  <2>3. CASE d # c \/ chs = {}
    <3>1. clients[d].subs # {}
      BY <1>4, <1>5, <2>3
    <3>2. userSubscriptions[clients[d].as.user] # None /\ d \in userSubscriptions[clients[d].as.user]
      BY <1>1, <2>1, <3>1 DEF WsInv, WsReached
    <3>3. clients[d].as.user \in Users
      <4>1. clients[d].as \in been[d]
        BY <2>1, <3>1 DEF WsInv, WsIdentity
      <4> QED
        BY <4>1, WsRows DEF WsInv, Ws!TypeOK
    <3>4. userSubscriptions[clients[d].as.user] \cup {c} # None
      BY <3>2, <3>3, WsRows DEF WsInv, Ws!TypeOK
    <3> QED
      BY <1>6, <2>1, <3>2, <3>3, <3>4
  <2> QED
    BY <2>2, <2>3
<1> QED
  BY <1>7, <1>8, <1>9, <1>10, <1>11, <1>12 DEF WsInv

LEMMA WsStart ==
  ASSUME Ws!Assumptions, Ws!Init
  PROVE  WsInv
<1>1. \A c \in Clients : clients[c] = Away /\ ~Ws!Connected(c) /\ been[c] = {}
  BY DEF Ws!Init, Ws!Connected
<1>2. /\ \A ch \in Channels : subscriptions[ch] = {}
      /\ \A u \in Users : userSubscriptions[u] = None
  BY DEF Ws!Init
<1>3. Ws!TypeOK
  BY DEF Ws!Init, Ws!TypeOK
<1>4. WsEarned /\ WsAdmins
  BY <1>2 DEF WsEarned, WsAdmins
<1>5. WsIdentity /\ WsListed /\ WsReached
  BY <1>1, <1>2 DEF WsIdentity, WsListed, WsReached
<1> QED
  BY <1>3, <1>4, <1>5 DEF WsInv

LEMMA WsStep ==
  ASSUME Ws!Assumptions, WsInv, [Ws!Next]_Ws!vars
  PROVE  WsInv'
<1>1. CASE UNCHANGED Ws!vars
  BY <1>1 DEF WsInv, Ws!vars, Ws!TypeOK, WsEarned, WsIdentity, WsListed, WsAdmins, WsReached, Ws!Connected, Ws!Anonymous
<1>2. CASE Ws!SendHeartbeat
  <2> DEFINE old == {c \in Clients : Ws!Connected(c) /\ clients[c].age = 2}
             stay == [c \in Clients |-> IF Ws!Connected(c) /\ c \notin old
                                        THEN [clients[c] EXCEPT !.age = @ + 1] ELSE clients[c]]
  <2>1. Staying(old, stay)
    BY StayingOlder DEF WsInv
  <2>2. Ws!Leave(old, stay)
    BY <1>2 DEF Ws!SendHeartbeat
  <2>3. old \in SUBSET Clients /\ \A c \in old : Ws!Connected(c)
    OBVIOUS
  <2> HIDE DEF old, stay
  <2> QED
    BY <2>1, <2>2, <2>3, WsLeft
<1>3. ASSUME NEW c \in Clients, Ws!HandleDisconnect(c)
      PROVE  WsInv'
  <2>1. Staying({c}, clients)
    BY StayingSame DEF WsInv
  <2>2. Ws!Leave({c}, clients) /\ Ws!Connected(c)
    BY <1>3 DEF Ws!HandleDisconnect
  <2> QED
    BY <2>1, <2>2, WsLeft
<1> QED
  BY <1>1, <1>2, <1>3, WsJoined, WsPinged, WsNamed, WsSubscribed, WsUnsubscribed DEF Ws!Next

-----------------------------------------------------------------------------
(* WebSocket clients: who is sent what.                                    *)

LEMMA WsPrivate ==
  ASSUME Ws!Assumptions, NEW u, NEW d \in Ws!Private(u), d[1] \in Users
  PROVE  d[1] = u /\ d[2] \in Ws!SendToUser(u)
BY DEF Ws!Private

LEMMA WsPublic ==
  ASSUME Ws!Assumptions, NEW d, d[1] \in Users
  PROVE  /\ \A ch : d \notin Ws!Public(ch)
         /\ \A cs : d \notin Ws!Status(cs)
<1>1. d[1] # "public" /\ d[1] # "status"
  BY DEF Ws!Assumptions
<1> QED
  BY <1>1 DEF Ws!Public, Ws!Status

\* Only the deliveries of a user's own messages carry the user.
LEMMA WsDelivered ==
  ASSUME Ws!Assumptions, NEW d \in Ws!Deliveries, d[1] \in Users
  PROVE  d[2] \in Ws!SendToUser(d[1])
<1> DEFINE own(u) == Ws!BroadcastBalanceUpdate([user |-> u]) \cup Ws!BroadcastPortfolioUpdate([user |-> u])
                     \cup Ws!BroadcastUserAchievement(u) \cup Ws!BroadcastUserTierProgress(u)
           ofTrades == UNION {Ws!BroadcastTradeExecution(t) : t \in Ws!TradeExecuted}
           ofOrders == UNION {Ws!BroadcastOrderUpdate(o) : o \in Ws!OrderUpdate}
           ofUsers == UNION {own(u) : u \in Users}
<1>1. d \in Ws!PrivateDeliveries
  BY WsPublic DEF Ws!Deliveries, Ws!BroadcastOrderBookUpdate, Ws!BroadcastMarketDataUpdate,
                  Ws!BroadcastSystemStatus, Ws!BroadcastMaintenanceNotice
<1>2. CASE d \in ofTrades
  <2>1. PICK t \in Ws!TradeExecuted : d \in Ws!BroadcastTradeExecution(t)
    BY <1>2
  <2> QED
    BY <2>1, WsPublic, WsPrivate DEF Ws!BroadcastTradeExecution
<1>3. CASE d \in ofOrders
  <2>1. PICK o \in Ws!OrderUpdate : d \in Ws!BroadcastOrderUpdate(o)
    BY <1>3
  <2> QED
    BY <2>1, WsPublic, WsPrivate DEF Ws!BroadcastOrderUpdate
<1>4. CASE d \in ofUsers
  <2>1. PICK u \in Users : d \in own(u)
    BY <1>4
  <2>2. own(u) = Ws!Private(u)
    BY DEF Ws!BroadcastBalanceUpdate, Ws!BroadcastPortfolioUpdate, Ws!BroadcastUserAchievement,
           Ws!BroadcastUserTierProgress
  <2> QED
    BY <2>1, <2>2, WsPrivate
<1>5. Ws!PrivateDeliveries = ofTrades \cup ofOrders \cup ofUsers
  BY DEF Ws!PrivateDeliveries
<1> HIDE DEF ofTrades, ofOrders, ofUsers
<1> QED
  BY <1>1, <1>2, <1>3, <1>4, <1>5

LEMMA WsEarnedByAll ==
  ASSUME Ws!Assumptions, WsInv
  PROVE  Ws!DeliveriesAreEarned
<1>1. ASSUME NEW d \in Ws!Deliveries, d[1] \in Users
      PROVE  /\ \E i \in been[d[2]] : i.user = d[1]
             /\ clients[d[2]].as.user # d[1] => Cardinality(been[d[2]]) > 1
  <2> DEFINE u == d[1]
             c == d[2]
  <2>1. userSubscriptions[u] # None /\ c \in userSubscriptions[u] /\ Ws!Connected(c)
    BY <1>1, WsDelivered DEF Ws!SendToUser, Ws!SendTo
  <2>2. u \in Users /\ c \in Clients
    BY <1>1, <2>1 DEF WsInv, Ws!TypeOK
  <2> HIDE DEF u, c
  <2>3. PICK i \in been[c] : i.user = u
    BY <2>1, <2>2 DEF WsInv, WsEarned
  <2>4. ASSUME clients[c].as.user # u
        PROVE  Cardinality(been[c]) > 1
    <3>1. clients[c].as \in been[c] /\ clients[c].as # i
      BY <2>1, <2>2, <2>3, <2>4 DEF WsInv, WsIdentity
    <3>2. IsFiniteSet(been[c])
      BY <2>2, WsFinite, FS_Subset DEF WsInv, Ws!TypeOK
    <3>3. Cardinality(been[c]) \in Nat
      BY <3>2, FS_CardinalityType
    <3>4. Cardinality(been[c]) # 0
      BY <3>1, <3>2, FS_EmptySet
    <3>5. Cardinality(been[c]) # 1
      <4> SUFFICES ASSUME Cardinality(been[c]) = 1 PROVE FALSE
        OBVIOUS
      <4>1. \E x : been[c] = {x}
        BY <3>2, FS_Singleton
      <4> QED
        BY <3>1, <4>1
    <3> QED
      BY <3>3, <3>4, <3>5
  <2> QED
    BY <2>3, <2>4 DEF u, c
<1>2. \A ch \in AdminChannels : \A c \in Ws!BroadcastToChannel(ch) : \E i \in been[c] : i.role = "admin"
  BY DEF Ws!BroadcastToChannel, Ws!SendTo, WsInv, WsAdmins
<1> QED
  BY <1>1, <1>2, WsLibrary DEF Ws!DeliveriesAreEarned

LEMMA WsSubscribersReached ==
  ASSUME Ws!Assumptions, WsInv
  PROVE  Ws!SubscribersReached
<1>1. \A c \in Clients : Ws!Connected(c) /\ clients[c].subs # {} => Ws!Authenticated(c) /\ clients[c].as \in been[c]
  BY WsRows DEF WsInv, WsIdentity, Ws!TypeOK, Ws!Authenticated
<1>2. ASSUME NEW ch \in Channels
      PROVE  /\ Ws!BroadcastToChannel(ch) = {c \in Clients : Ws!Authenticated(c) /\ ch \in clients[c].subs}
             /\ Ws!GetStats.channels[ch] <= Ws!GetStats.authenticated
  <2>1. subscriptions[ch] \subseteq Clients
    BY DEF WsInv, Ws!TypeOK
  <2>2. \A c \in Clients : c \in subscriptions[ch] <=> Ws!Authenticated(c) /\ ch \in clients[c].subs
    BY <1>1 DEF WsInv, WsListed, Ws!Authenticated
  <2>3. Ws!BroadcastToChannel(ch) = {c \in Clients : Ws!Authenticated(c) /\ ch \in clients[c].subs}
    BY <2>1, <2>2 DEF Ws!BroadcastToChannel, Ws!SendTo, Ws!Authenticated
  <2> DEFINE known == {c \in Clients : Ws!Authenticated(c)}
  <2>4. subscriptions[ch] \subseteq known
    BY <2>1, <2>2
  <2>5. IsFiniteSet(known)
    BY WsFinite, FS_Subset
  <2>6. Cardinality(subscriptions[ch]) <= Cardinality(known)
    BY <2>4, <2>5, FS_Subset
  <2>7. Ws!GetStats.channels[ch] = Cardinality(subscriptions[ch]) /\ Ws!GetStats.authenticated = Cardinality(known)
    BY WsLibrary DEF Ws!GetStats
  <2> QED
    BY <2>3, <2>6, <2>7
<1>3. ASSUME NEW c \in Clients, Ws!Authenticated(c), clients[c].subs # {}, clients[c].as.user \notin deserted,
             Cardinality({i.user : i \in been[c]}) = 1
      PROVE  <<clients[c].as.user, c>> \in Ws!Deliveries
  <2> DEFINE u == clients[c].as.user
             names == {i.user : i \in been[c]}
  <2>1. Ws!Connected(c) /\ clients[c].as \in been[c]
    BY <1>1, <1>3 DEF Ws!Authenticated
  <2>2. u \in Users
    BY <2>1, WsRows DEF WsInv, Ws!TypeOK
  <2>3. IsFiniteSet(been[c])
    BY WsFinite, FS_Subset DEF WsInv, Ws!TypeOK
  <2>4. IsFiniteSet(names)
    <3> DEFINE f == [i \in been[c] |-> i.user]
    <3>1. f \in Surjection(been[c], names)
      BY DEF Surjection
    <3> QED
      BY <2>3, <3>1, FS_Surjection
  <2>5. \A i \in been[c] : i.user \in names
    OBVIOUS
  <2>6. Cardinality(names) = 1
    BY <1>3
  <2> HIDE DEF names
  <2>7. \E x : names = {x}
    BY <2>4, <2>6, FS_Singleton
  <2>8. \A i \in been[c] : i.user = u
    BY <2>1, <2>5, <2>7
  <2>9. userSubscriptions[u] # None /\ c \in userSubscriptions[u]
    BY <1>3, <2>1, <2>8 DEF WsInv, WsReached
  <2>10. <<u, c>> \in Ws!BroadcastUserAchievement(u)
    BY <2>1, <2>9 DEF Ws!BroadcastUserAchievement, Ws!Private, Ws!SendToUser, Ws!SendTo
  <2> QED
    <3> DEFINE own(v) == Ws!BroadcastBalanceUpdate([user |-> v]) \cup Ws!BroadcastPortfolioUpdate([user |-> v])
                         \cup Ws!BroadcastUserAchievement(v) \cup Ws!BroadcastUserTierProgress(v)
               ofUsers == UNION {own(v) : v \in Users}
    <3>1. <<u, c>> \in own(u)
      BY <2>10
    <3> HIDE DEF own
    <3>2. <<u, c>> \in ofUsers
      BY <2>2, <3>1
    <3>3. ofUsers \subseteq Ws!Deliveries
      BY DEF Ws!Deliveries, Ws!PrivateDeliveries, own
    <3> QED
      BY <3>2, <3>3
<1> QED
  BY <1>2, <1>3, WsLibrary DEF Ws!SubscribersReached

-----------------------------------------------------------------------------
(* WebSocket clients: theorems.                                            *)

LEMMA WsInvariant ==
  ASSUME Ws!Assumptions
  PROVE  Ws!Spec => []WsInv
<1>1. Ws!Init => WsInv
  BY WsStart
<1>2. WsInv /\ [Ws!Next]_Ws!vars => WsInv'
  BY WsStep
<1> QED
  BY <1>1, <1>2, PTL DEF Ws!Spec

(* The three maps of WebSocketService keep their types under any sequence of  *)
(* connections, authentications, subscriptions, pings, departures and         *)
(* heartbeats (websocket.service.ts 45-47).                                   *)
THEOREM WsTypeCorrect ==
  ASSUME Ws!Assumptions
  PROVE  Ws!Spec => []Ws!TypeOK
<1>1. WsInv => Ws!TypeOK
  BY DEF WsInv
<1> QED
  BY <1>1, WsInvariant, PTL

(* For any number of clients, users and channels, a user's messages go only   *)
(* to connected clients that have authenticated as that user, and an admin    *)
(* channel's only to clients that have been an admin's (handleAuthenticate    *)
(* 116-163, validateSubscription 436-447).                                    *)
THEOREM DeliveriesAlwaysEarned ==
  ASSUME Ws!Assumptions
  PROVE  Ws!Spec => []Ws!DeliveriesAreEarned
<1>1. WsInv => Ws!DeliveriesAreEarned
  BY WsEarnedByAll
<1> QED
  BY <1>1, WsInvariant, PTL

(* The subscribers of a channel are the authenticated clients that list it,   *)
(* and a subscriber that has been one user only gets that user's messages     *)
(* until a client of this user leaves (subscribeToChannel 381-417,            *)
(* handleDisconnect 107-109).                                                 *)
THEOREM SubscribersAlwaysReached ==
  ASSUME Ws!Assumptions
  PROVE  Ws!Spec => []Ws!SubscribersReached
<1>1. WsInv => Ws!SubscribersReached
  BY WsSubscribersReached
<1> QED
  BY <1>1, WsInvariant, PTL

-----------------------------------------------------------------------------
(* Margin notices: the inductive invariant.                                *)

Number(e) == EventOf[e].user

\* A contact is the account that was registered as the number of its event.
NoticeContacts ==
  \A e \in Events : listener[e].contact # None =>
    /\ Notices!Skipped(Number(e)) < Len(auths)
    /\ listener[e].contact = auths[Notices!Skipped(Number(e)) + 1]

\* A job with an address has that of the contact its handler has found, and a
\* handler at work has found one.
NoticeJobs ==
  /\ \A j \in sentJobs : /\ j.contact # None => j.contact = listener[j.event].contact
                         /\ listener[j.event].pc # "idle"
  /\ \A e \in Events : listener[e].pc \in {"notice", "email", "sms"} => listener[e].contact # None

Told(e) == {j.channel : j \in {x \in sentJobs : x.event = e}}
HasPhone(e) == EventOf[e].kind = "margin.call" /\ listener[e].contact \in Phones

\* What has been told of an event, by how far its handler is.
NoticeProgress ==
  \A e \in Events \ aborted :
    /\ listener[e].pc \in {"idle", "notice"} => Told(e) = {}
    /\ listener[e].pc = "email" => Told(e) = {"notice"}
    /\ listener[e].pc = "sms" => Told(e) = {"notice", "email"} /\ HasPhone(e)
    /\ listener[e].pc = "done" /\ listener[e].contact # None =>
         Told(e) = {"notice", "email"} \cup (IF HasPhone(e) THEN {"sms"} ELSE {})

NoticeInv == Notices!TypeOK /\ NoticeContacts /\ NoticeJobs /\ NoticeProgress

-----------------------------------------------------------------------------
(* Margin notices: the steps keep the invariant.                           *)

LEMMA SkippedNat ==
  ASSUME NEW n \in Nat
  PROVE  Notices!Skipped(n) \in Nat
BY DEF Notices!Skipped

LEMMA NoticeNumbers ==
  ASSUME Notices!Assumptions, NEW e \in Events
  PROVE  Number(e) \in Nat /\ Notices!Skipped(Number(e)) \in Nat
BY SkippedNat DEF Notices!Assumptions, Number

LEMMA NoticeRegistered ==
  ASSUME Notices!Assumptions, NoticeInv, NEW a \in Accounts, Notices!Register(a)
  PROVE  NoticeInv'
<1>1. auths' = Append(auths, a) /\ UNCHANGED <<listener, sentJobs, aborted>> /\ auths \in Seq(Accounts)
  BY DEF Notices!Register, NoticeInv, Notices!TypeOK
<1>2. Notices!TypeOK'
  BY <1>1 DEF NoticeInv, Notices!TypeOK
<1>3. Len(auths') = Len(auths) + 1 /\ \A i \in 1 .. Len(auths) : auths'[i] = auths[i]
  BY <1>1
<1>4. NoticeContacts'
  <2> SUFFICES ASSUME NEW e \in Events, listener[e].contact # None
               PROVE  /\ Notices!Skipped(Number(e)) < Len(auths')
                      /\ listener[e].contact = auths'[Notices!Skipped(Number(e)) + 1]
    BY <1>1 DEF NoticeContacts, Number, Notices!Skipped
  <2>1. /\ Notices!Skipped(Number(e)) < Len(auths) /\ Len(auths) \in Nat
        /\ listener[e].contact = auths[Notices!Skipped(Number(e)) + 1]
    BY <1>1 DEF NoticeInv, NoticeContacts
  <2>2. Notices!Skipped(Number(e)) \in Nat
    BY NoticeNumbers
  <2> QED
    BY <1>3, <2>1, <2>2
<1>5. NoticeJobs' /\ NoticeProgress'
  BY <1>1 DEF NoticeInv, NoticeJobs, NoticeProgress, Told, HasPhone
<1> QED
  BY <1>2, <1>4, <1>5 DEF NoticeInv

LEMMA NoticeHandled ==
  ASSUME Notices!Assumptions, NoticeInv, NEW e \in Events, Notices!Handle(e)
  PROVE  NoticeInv'
<1> DEFINE contact == Notices!ResolveContact(Number(e))
           row == [pc |-> IF contact = None THEN "done" ELSE "notice", contact |-> contact]
           k == Notices!Skipped(Number(e))
<1>1. /\ listener[e].pc = "idle" /\ listener' = [listener EXCEPT ![e] = row]
      /\ UNCHANGED <<auths, sentJobs, aborted>>
  BY DEF Notices!Handle, Number
<1>2. /\ contact = IF k < Len(auths) THEN auths[k + 1] ELSE None
      /\ k \in Nat /\ auths \in Seq(Accounts)
  BY NoticeNumbers DEF Notices!ResolveContact, NoticeInv, Notices!TypeOK
<1>3. contact \in Accounts \cup {None} /\ (contact # None => k < Len(auths) /\ contact = auths[k + 1])
  BY <1>2
<1>4. row.contact = contact /\ row.pc = IF contact = None THEN "done" ELSE "notice"
  OBVIOUS
<1>5. row \in [pc : {"idle", "notice", "email", "sms", "done"}, contact : Accounts \cup {None}]
  BY <1>3
<1> HIDE DEF row, contact
<1>6. listener'[e] = row /\ \A f \in Events \ {e} : listener'[f] = listener[f]
  BY <1>1 DEF NoticeInv, Notices!TypeOK
<1>7. Notices!TypeOK'
  BY <1>1, <1>5 DEF NoticeInv, Notices!TypeOK
<1>8. NoticeContacts'
  BY <1>1, <1>3, <1>4, <1>6 DEF NoticeInv, NoticeContacts, Number, Notices!Skipped
<1>9. NoticeJobs'
  <2>1. \A x \in sentJobs : x.event \in Events /\ x.event # e
    BY <1>1 DEF NoticeInv, NoticeJobs, Notices!TypeOK
  <2> QED
    BY <1>1, <1>4, <1>6, <2>1 DEF NoticeInv, NoticeJobs
<1>10. NoticeProgress'
  BY <1>1, <1>4, <1>6 DEF NoticeInv, NoticeProgress, Told, HasPhone
<1> QED
  BY <1>7, <1>8, <1>9, <1>10 DEF NoticeInv

\* The channel that follows.
Follows(e, channel, next) ==
  \/ channel = "notice" /\ next = "email"
  \/ channel = "email" /\ next = IF HasPhone(e) THEN "sms" ELSE "done"
  \/ channel = "sms" /\ next = "done"

LEMMA NoticeQueued ==
  ASSUME Notices!Assumptions, NoticeInv, NEW e \in Events, NEW channel, NEW next, Follows(e, channel, next),
         Notices!Queue(e, channel, next)
  PROVE  NoticeInv'
<1> DEFINE job == Notices!Job(e, channel)
<1>1. listener[e].pc = channel /\ UNCHANGED auths
  BY DEF Notices!Queue
<1>2. channel \in {"notice", "email", "sms"} /\ next \in {"email", "sms", "done"}
  BY DEF Follows
<1>3. listener[e].contact # None /\ listener[e].contact \in Accounts
  BY <1>1, <1>2 DEF NoticeInv, NoticeJobs, Notices!TypeOK
<1>4. job \in [event : Events, channel : {"notice", "email", "sms"}, user : Nat \cup {None},
               contact : Accounts \cup {None}]
  BY <1>2, <1>3 DEF Notices!Job, Notices!Assumptions
<1>5. /\ job.event = e /\ job.channel = channel
      /\ job.contact # None => job.contact = listener[e].contact
  BY DEF Notices!Job
<1> HIDE DEF job
<1>6. ASSUME NEW pc \in {"email", "sms", "done"}, listener' = [listener EXCEPT ![e].pc = pc]
      PROVE  /\ listener'[e].pc = pc /\ listener'[e].contact = listener[e].contact
             /\ \A f \in Events \ {e} : listener'[f] = listener[f]
             /\ listener' \in [Events -> [pc : {"idle", "notice", "email", "sms", "done"}, contact : Accounts \cup {None}]]
             /\ NoticeContacts'
  <2>1. /\ listener'[e].pc = pc /\ listener'[e].contact = listener[e].contact
        /\ \A f \in Events \ {e} : listener'[f] = listener[f]
    BY <1>6 DEF NoticeInv, Notices!TypeOK
  <2>2. listener' \in [Events -> [pc : {"idle", "notice", "email", "sms", "done"}, contact : Accounts \cup {None}]]
    BY <1>6 DEF NoticeInv, Notices!TypeOK
  <2>3. \A f \in Events : listener'[f].contact = listener[f].contact
    BY <2>1
  <2>4. NoticeContacts'
    BY <1>1, <2>3 DEF NoticeInv, NoticeContacts, Number, Notices!Skipped
  <2> QED
    BY <2>1, <2>2, <2>4
<1>7. CASE /\ sentJobs' = sentJobs \cup {job} /\ listener' = [listener EXCEPT ![e].pc = next]
           /\ aborted' = aborted
  <2>1. /\ listener'[e].pc = next /\ listener'[e].contact = listener[e].contact
        /\ \A f \in Events \ {e} : listener'[f] = listener[f]
    BY <1>2, <1>6, <1>7
  <2>2. Notices!TypeOK' /\ NoticeContacts'
    BY <1>1, <1>2, <1>4, <1>6, <1>7 DEF NoticeInv, Notices!TypeOK
  <2>3. NoticeJobs'
    <3>1. \A x \in sentJobs : x.event \in Events
      BY DEF NoticeInv, Notices!TypeOK
    <3>2. \A x \in sentJobs' : /\ x.contact # None => x.contact = listener'[x.event].contact
                               /\ listener'[x.event].pc # "idle"
      BY <1>2, <1>5, <1>7, <2>1, <3>1 DEF NoticeInv, NoticeJobs
    <3>3. \A f \in Events : listener'[f].pc \in {"notice", "email", "sms"} => listener'[f].contact # None
      BY <1>3, <2>1 DEF NoticeInv, NoticeJobs
    <3> QED
      BY <3>2, <3>3 DEF NoticeJobs
  <2>4. Told(e)' = Told(e) \cup {channel}
    BY <1>5, <1>7 DEF Told
  <2>5. \A f \in Events \ {e} : Told(f)' = Told(f)
    BY <1>5, <1>7 DEF Told
  <2>6. \A f \in Events : HasPhone(f)' <=> HasPhone(f)
    BY <2>1 DEF HasPhone
  <2>7. NoticeProgress'
    <3> SUFFICES ASSUME NEW f \in Events \ aborted
                 PROVE  /\ listener'[f].pc \in {"idle", "notice"} => Told(f)' = {}
                        /\ listener'[f].pc = "email" => Told(f)' = {"notice"}
                        /\ listener'[f].pc = "sms" => Told(f)' = {"notice", "email"} /\ HasPhone(f)'
                        /\ listener'[f].pc = "done" /\ listener'[f].contact # None =>
                             Told(f)' = {"notice", "email"} \cup (IF HasPhone(f)' THEN {"sms"} ELSE {})
      BY <1>7 DEF NoticeProgress
    <3>1. CASE f # e
      BY <2>1, <2>5, <2>6, <3>1 DEF NoticeInv, NoticeProgress
    <3>2. CASE f = e
      BY <1>1, <2>1, <2>4, <2>6, <3>2 DEF NoticeInv, NoticeProgress, Follows
    <3> QED
      BY <3>1, <3>2
  <2> QED
    BY <2>2, <2>3, <2>7 DEF NoticeInv
<1>8. CASE listener' = [listener EXCEPT ![e].pc = "done"] /\ aborted' = aborted \cup {e} /\ sentJobs' = sentJobs
  <2>1. /\ listener'[e].pc = "done" /\ listener'[e].contact = listener[e].contact
        /\ \A f \in Events \ {e} : listener'[f] = listener[f]
    BY <1>6, <1>8
  <2>2. Notices!TypeOK' /\ NoticeContacts'
    BY <1>1, <1>6, <1>8 DEF NoticeInv, Notices!TypeOK
  <2>3. NoticeJobs'
    <3>1. \A x \in sentJobs : x.event \in Events
      BY DEF NoticeInv, Notices!TypeOK
    <3> QED
      BY <1>8, <2>1, <3>1 DEF NoticeInv, NoticeJobs
  <2>4. NoticeProgress'
    BY <1>8, <2>1 DEF NoticeInv, NoticeProgress, Told, HasPhone
  <2> QED
    BY <2>2, <2>3, <2>4 DEF NoticeInv
<1> QED
  BY <1>7, <1>8 DEF Notices!Queue, job

LEMMA NoticeStart ==
  ASSUME Notices!Assumptions, Notices!Init
  PROVE  NoticeInv
<1>1. \A e \in Events : listener[e].pc = "idle" /\ listener[e].contact = None
  BY DEF Notices!Init
<1>2. sentJobs = {} /\ aborted = {}
  BY DEF Notices!Init
<1>3. Notices!TypeOK
  BY DEF Notices!Init, Notices!TypeOK
<1>4. NoticeContacts /\ NoticeJobs /\ NoticeProgress
  BY <1>1, <1>2 DEF NoticeContacts, NoticeJobs, NoticeProgress, Told
<1> QED
  BY <1>3, <1>4 DEF NoticeInv

LEMMA NoticeStep ==
  ASSUME Notices!Assumptions, NoticeInv, [Notices!Next]_Notices!vars
  PROVE  NoticeInv'
<1>1. CASE UNCHANGED Notices!vars
  BY <1>1 DEF NoticeInv, Notices!vars, Notices!TypeOK, NoticeContacts, NoticeJobs, NoticeProgress, Told, HasPhone,
              Number, Notices!Skipped
<1>2. ASSUME NEW e \in Events, Notices!HandleMarginCall(e)
      PROVE  NoticeInv'
  <2>1. EventOf[e].kind = "margin.call"
    BY <1>2 DEF Notices!HandleMarginCall
  <2>2. PICK channel, next : Follows(e, channel, next) /\ Notices!Queue(e, channel, next)
    <3>1. HasPhone(e) <=> listener[e].contact \in Phones
      BY <2>1 DEF HasPhone
    <3> QED
      BY <1>2, <3>1 DEF Notices!HandleMarginCall, Follows
  <2> QED
    BY <2>2, NoticeQueued
<1>3. ASSUME NEW e \in Events, Notices!HandlePositionLiquidated(e)
      PROVE  NoticeInv'
  <2>1. ~HasPhone(e)
    BY <1>3 DEF Notices!HandlePositionLiquidated, HasPhone
  <2>2. \E channel, next : Follows(e, channel, next) /\ Notices!Queue(e, channel, next)
    BY <1>3, <2>1 DEF Notices!HandlePositionLiquidated, Follows
  <2> QED
    BY <2>2, NoticeQueued
<1> QED
  BY <1>1, <1>2, <1>3, NoticeRegistered, NoticeHandled DEF Notices!Next

LEMMA NoticeOneAccount ==
  ASSUME Notices!Assumptions, NoticeInv
  PROVE  Notices!OneAccountPerNumber
<1> DEFINE addressed == {x \in sentJobs : x.contact # None}
<1>1. \A j, k \in addressed : EventOf[j.event].user = EventOf[k.event].user => j.contact = k.contact
  <2>1. \A j \in addressed : /\ j.event \in Events /\ j.contact = listener[j.event].contact
                             /\ listener[j.event].contact # None
    BY DEF NoticeInv, NoticeJobs, Notices!TypeOK
  <2>2. \A j \in addressed : j.contact = auths[Notices!Skipped(EventOf[j.event].user) + 1]
    BY <2>1 DEF NoticeInv, NoticeContacts, Number
  <2> QED
    BY <2>2
<1>2. ASSUME NEW e \in Events \ aborted, listener[e].pc = "done", listener[e].contact # None
      PROVE  Told(e) = {"notice", "email"} \cup (IF HasPhone(e) THEN {"sms"} ELSE {})
  BY <1>2 DEF NoticeInv, NoticeProgress
<1> QED
  BY <1>1, <1>2 DEF Notices!OneAccountPerNumber, Told, HasPhone

-----------------------------------------------------------------------------
(* Margin notices: theorems.                                               *)

LEMMA NoticeInvariant ==
  ASSUME Notices!Assumptions
  PROVE  Notices!Spec => []NoticeInv
<1>1. Notices!Init => NoticeInv
  BY NoticeStart
<1>2. NoticeInv /\ [Notices!Next]_Notices!vars => NoticeInv'
  BY NoticeStep
<1> QED
  BY <1>1, <1>2, PTL DEF Notices!Spec

(* Handlers, contacts and jobs of MarginListener keep their types             *)
(* (margin.listener.ts 39-135).                                               *)
THEOREM NoticeTypeCorrect ==
  ASSUME Notices!Assumptions
  PROVE  Notices!Spec => []Notices!TypeOK
<1>1. NoticeInv => Notices!TypeOK
  BY DEF NoticeInv
<1> QED
  BY <1>1, NoticeInvariant, PTL

(* However many accounts are registered while events are handled, all e-mails *)
(* and SMSs about one user number go to addresses of the same account, and an *)
(* event none of whose jobs was refused has reached every channel             *)
(* (resolveContact 137-162).                                                  *)
THEOREM AlwaysOneAccountPerNumber ==
  ASSUME Notices!Assumptions
  PROVE  Notices!Spec => []Notices!OneAccountPerNumber
<1>1. NoticeInv => Notices!OneAccountPerNumber
  BY NoticeOneAccount
<1> QED
  BY <1>1, NoticeInvariant, PTL

-----------------------------------------------------------------------------
(* All four parts.                                                         *)

\* Whichever part an execution is about, every part behaves as it is specified.
LEMMA SpecOfParts == Spec => Gov!Spec /\ Pool!Spec /\ Ws!Spec /\ Notices!Spec
<1>1. Init => Gov!Init /\ Pool!Init /\ Ws!Init /\ Notices!Init
  BY DEF Init
<1>2. [Next]_vars => [Gov!Next]_Gov!vars
  BY DEF Next, vars, govVars, Gov!vars
<1>3. [Next]_vars => [Pool!Next]_Pool!vars
  BY DEF Next, vars, poolVars, Pool!vars
<1>4. [Next]_vars => [Ws!Next]_Ws!vars
  BY DEF Next, vars, wsVars, Ws!vars
<1>5. [Next]_vars => [Notices!Next]_Notices!vars
  BY DEF Next, vars, noticeVars, Notices!vars
<1> QED
  BY <1>1, <1>2, <1>3, <1>4, <1>5, PTL DEF Spec, Gov!Spec, Pool!Spec, Ws!Spec, Notices!Spec

(* Every row, call, list and counter of governance, pools, WebSocket clients  *)
(* and margin notices keeps its type; nothing that counts becomes negative.   *)
THEOREM TypeCorrect == Spec => []TypeOK
<1>1. Gov!Spec => []Gov!TypeOK
  BY GovernanceAssumptions, GovTypeCorrect
<1>2. Pool!Spec => []Pool!TypeOK
  BY PoolAssumptions, PoolTypeCorrect
<1>3. Ws!Spec => []Ws!TypeOK
  BY WebSocketAssumptions, WsTypeCorrect
<1>4. Notices!Spec => []Notices!TypeOK
  BY NoticeAssumptions, NoticeTypeCorrect
<1> QED
  BY <1>1, <1>2, <1>3, <1>4, SpecOfParts, PTL DEF TypeOK

(* What is kept beside the rows agrees with them: tallies with votes          *)
(* (castVote), supplies and fees with positions (addLiquidity, removeLiquidity,*)
(* swap), subscriber lists with clients (subscribeToChannel), and contacts    *)
(* with accounts (resolveContact), for every number of users and of           *)
(* overlapping requests, and except after the races and failures that the     *)
(* parts name.                                                                *)
THEOREM TotalsAlwaysMatchRows == Spec => []TotalsMatchRows
<1>1. Gov!Spec => []Gov!TalliesMatchVotes /\ []Gov!PassedWithQuorum
  BY GovernanceAssumptions, TalliesAlwaysMatchVotes, PassedAlwaysWithQuorum
<1>2. Pool!Spec => []Pool!SupplyIsHeld /\ []Pool!FeesAreShared
  BY PoolAssumptions, SupplyAlwaysHeld, FeesAlwaysShared
<1>3. Ws!Spec => []Ws!DeliveriesAreEarned /\ []Ws!SubscribersReached
  BY WebSocketAssumptions, DeliveriesAlwaysEarned, SubscribersAlwaysReached
<1>4. Notices!Spec => []Notices!OneAccountPerNumber
  BY NoticeAssumptions, AlwaysOneAccountPerNumber
<1> QED
  BY <1>1, <1>2, <1>3, <1>4, SpecOfParts, PTL DEF TotalsMatchRows

(* No step opens a decided proposal again, other than an approval or a stale  *)
(* save (finalizeProposal, executeProposal), and none that saves a swap       *)
(* lowers the product of the reserves by more than its rounding (swap).       *)
THEOREM StepsAlwaysKeepValue == Spec => StepsKeepValue
<1>1. Gov!Spec => Gov!ReopenedOnlyByApproval
  BY GovernanceAssumptions, AlwaysReopenedOnlyByApproval
<1>2. Pool!Spec => Pool!ProductKept
  BY PoolAssumptions, ProductAlwaysKept
<1> QED
  BY <1>1, <1>2, SpecOfParts, PTL DEF StepsKeepValue

=============================================================================
