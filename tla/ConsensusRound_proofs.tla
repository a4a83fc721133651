----------------------- MODULE ConsensusRound_proofs -----------------------
(***************************************************************************)
(* Theorems of ConsensusRound, for any nodes of which an honest majority,  *)
(* any sources, panel answers, leaders' payloads and rotations.            *)
(***************************************************************************)
EXTENDS ConsensusRound, Verdict_proofs, FiniteSetTheorems

\* Where the leader and the votes of an attempt may stand.  An honest node
\* that voted did so by its own derivation, which own[n] still holds.
RoundType ==
    /\ ctx \in ContextType
    /\ leader \in Nodes
    /\ votes \in [Nodes -> {"none", "agree", "disagree"}]
    /\ own \in [Nodes -> NodeRound \cup {NoResult}]
    /\ result.kind \in {"none", "return", "error"}
    /\ result = NoResult <=> result.kind = "none"

VotesAreOwn ==
    /\ result = NoResult => \A n \in Nodes : votes[n] = "none"
    /\ result # NoResult => /\ votes[leader] = "agree"
                            /\ leader \in Honest => own[leader] = result
    /\ \A n \in Honest :
          /\ votes[n] # "none" => own[n] \in NodeRound
          /\ n # leader /\ votes[n] # "none" =>
                (votes[n] = "agree" <=> ValidatorDecision(result, own[n]))

\* What a decided round was decided on stays in place.
OutcomeIsRatified ==
    /\ outcome.kind \in {"stored", "failed"} => result # NoResult /\ Majority
    /\ outcome.kind = "stored" =>
          /\ result.kind = "return"
          /\ Gate(ctx, result.payload, Unchecked)
          /\ outcome = Stored(Receipt(ctx, result.payload))
    /\ outcome.kind = "failed" =>
          \/ result.kind = "error"
          \/ result.kind = "return" /\ ~Gate(ctx, result.payload, Unchecked)

RoundInv == RoundType /\ VotesAreOwn /\ OutcomeIsRatified

\* An honest node derives a payload or raises.
LEMMA NodeRoundKinds ==
    ASSUME NEW mine \in NodeRound
    PROVE  \/ /\ mine.kind = "return"
              /\ \E s \in Sources, a \in Answers(ctx.policy) :
                    mine.payload = NodePayload(ctx, s, a)
           \/ mine = Raised(ERROR_TRANSIENT)
<1>1. CASE \E s \in Sources, a \in Answers(ctx.policy) :
              mine = Returned(NodePayload(ctx, s, a))
  <2>1. PICK s \in Sources, a \in Answers(ctx.policy) :
            mine = Returned(NodePayload(ctx, s, a))
    BY <1>1
  <2>2. mine.kind = "return" /\ mine.payload = NodePayload(ctx, s, a)
    BY <2>1 DEF Returned
  <2> QED BY <2>2
<1>2. CASE mine = Raised(ERROR_TRANSIENT)
  BY <1>2
<1>3. mine \in Derivations \/ mine \in ModelErrors
  BY DEF NodeRound
<1>4. mine \in ModelErrors => mine = Raised(ERROR_TRANSIENT)
  BY DEF ModelErrors
<1>5. mine \in Derivations =>
         \E s \in Sources, a \in Answers(ctx.policy) :
            mine = Returned(NodePayload(ctx, s, a))
  BY DEF Derivations
<1> QED BY <1>1, <1>2, <1>3, <1>4, <1>5

\* A round that has not begun has no result, no vote and no outcome.
LEMMA RoundInit == Init => RoundInv
<1> SUFFICES ASSUME Init PROVE RoundInv
  OBVIOUS
<1>1. RoundType
  BY InputsAssumption DEF Init, RoundType, NoResult, NoVotes
<1>2. VotesAreOwn
  BY DEF Init, VotesAreOwn, NoVotes, Honest
<1>3. OutcomeIsRatified
  BY DEF Init, OutcomeIsRatified, InProgress
<1> QED BY <1>1, <1>2, <1>3 DEF RoundInv

\* Neither a leader, a validator, the decision nor a rotation breaks RoundInv.
LEMMA RoundStep == RoundInv /\ [Next]_vars => RoundInv'
<1> SUFFICES ASSUME RoundInv, [Next]_vars PROVE RoundInv'
  OBVIOUS
<1>0. ASSUME ctx' = ctx PROVE NodeRound' = NodeRound
  BY <1>0 DEF NodeRound, Derivations, ModelErrors
<1>1. CASE Lead
  <2>1. /\ outcome = InProgress /\ outcome' = outcome
        /\ result = NoResult /\ ctx' = ctx /\ leader' = leader
        /\ votes' = [votes EXCEPT ![leader] = "agree"]
    BY <1>1 DEF Lead
  <2>2. /\ result'.kind \in {"return", "error"} /\ result' # NoResult
        /\ leader \in Honest => /\ result' \in NodeRound
                                /\ own' = [own EXCEPT ![leader] = result']
        /\ leader \notin Honest => own' = own
    <3>1. CASE leader \in Honest /\ result' \in NodeRound
                  /\ own' = [own EXCEPT ![leader] = result']
      BY <3>1, NodeRoundKinds DEF Raised, NoResult
    <3>2. CASE leader \in Faulty /\ own' = own
                  /\ \/ \E p \in Payloads(ctx) : result' = Returned(p)
                     \/ \E e \in LEADER_ERRORS : result' = Raised(e)
      BY <3>2 DEF Honest, Returned, Raised, NoResult
    <3> QED BY <1>1, <3>1, <3>2 DEF Lead
  <2>3. RoundType'
    BY <1>0, <2>1, <2>2 DEF RoundInv, RoundType, NoResult
  <2>4. VotesAreOwn'
    BY <1>0, <2>1, <2>2 DEF RoundInv, RoundType, VotesAreOwn, Honest
  <2>5. OutcomeIsRatified'
    BY <2>1 DEF OutcomeIsRatified, InProgress
  <2> QED BY <2>3, <2>4, <2>5 DEF RoundInv
<1>2. ASSUME NEW n \in Nodes, Vote(n)
      PROVE  RoundInv'
  <2>1. /\ outcome = InProgress /\ outcome' = outcome
        /\ result # NoResult /\ votes[n] = "none" /\ n # leader
        /\ ctx' = ctx /\ leader' = leader /\ result' = result
    BY <1>2 DEF Vote, RoundInv, VotesAreOwn
  <2>2. CASE n \in Honest
    <3>1. PICK mine \in NodeRound :
              /\ own' = [own EXCEPT ![n] = mine]
              /\ votes' = [votes EXCEPT ![n] =
                     IF ValidatorDecision(result, mine) THEN "agree"
                                                        ELSE "disagree"]
      BY <1>2, <2>2 DEF Vote, Honest
    <3>2. RoundType'
      BY <1>0, <2>1, <3>1 DEF RoundInv, RoundType
    <3>3. \A m \in Nodes : m # n => own'[m] = own[m] /\ votes'[m] = votes[m]
      BY <3>1 DEF RoundInv, RoundType
    <3>4. /\ own'[n] = mine
          /\ votes'[n] \in {"agree", "disagree"}
          /\ votes'[n] = "agree" <=> ValidatorDecision(result, mine)
      BY <3>1 DEF RoundInv, RoundType
    <3>5. \A m \in Honest : ValidatorDecision(result, own'[m])
                              <=> ValidatorDecision(result, own[m])'
      BY <2>1 DEF ValidatorDecision, VoteOnLeaderError
    <3>6. VotesAreOwn'
      <4>1. ASSUME NEW m \in Honest
            PROVE  /\ votes'[m] # "none" => own'[m] \in NodeRound'
                   /\ m # leader' /\ votes'[m] # "none" =>
                        (votes'[m] = "agree" <=> ValidatorDecision(result, own[m])')
        BY <1>0, <2>1, <3>1, <3>3, <3>4, <3>5
           DEF RoundInv, VotesAreOwn, Honest, ValidatorDecision, VoteOnLeaderError
      <4> QED
        BY <2>1, <3>3, <4>1 DEF RoundInv, RoundType, VotesAreOwn, Honest
    <3>7. OutcomeIsRatified'
      BY <2>1 DEF OutcomeIsRatified, InProgress
    <3> QED BY <3>2, <3>6, <3>7 DEF RoundInv
  <2>3. CASE n \in Faulty /\ n \notin Honest
    <3>1. /\ own' = own
          /\ \E v \in {"agree", "disagree"} : votes' = [votes EXCEPT ![n] = v]
      BY <1>2, <2>3 DEF Vote
    <3>2. RoundType'
      BY <1>0, <2>1, <3>1 DEF RoundInv, RoundType
    <3>3. \A m \in Nodes : m # n => votes'[m] = votes[m]
      BY <3>1 DEF RoundInv, RoundType
    <3>4. VotesAreOwn'
      <4>1. ASSUME NEW m \in Honest
            PROVE  /\ votes'[m] # "none" => own'[m] \in NodeRound'
                   /\ m # leader' /\ votes'[m] # "none" =>
                        (votes'[m] = "agree" <=> ValidatorDecision(result, own[m])')
        BY <1>0, <2>1, <2>3, <3>1, <3>3
           DEF RoundInv, VotesAreOwn, Honest, ValidatorDecision, VoteOnLeaderError
      <4> QED
        BY <2>1, <2>3, <3>1, <3>3, <4>1 DEF RoundInv, RoundType, VotesAreOwn, Honest
    <3>5. OutcomeIsRatified'
      BY <2>1 DEF OutcomeIsRatified, InProgress
    <3> QED BY <3>2, <3>4, <3>5 DEF RoundInv
  <2> QED BY <2>2, <2>3 DEF Honest
<1>3. CASE Ratify
  <2>1. /\ UNCHANGED <<ctx, past, leader, result, own, votes>>
        /\ Majority /\ AllVoted
        /\ outcome' =
              IF result.kind = "error" THEN Failed(result.text)
              ELSE IF Gate(ctx, result.payload, Unchecked)
                   THEN Stored(Receipt(ctx, result.payload))
                   ELSE Failed(ERROR_LLM)
    BY <1>3 DEF Ratify
  <2>2. RoundType' /\ VotesAreOwn'
    BY <1>0, <2>1
       DEF RoundInv, RoundType, VotesAreOwn, ValidatorDecision, VoteOnLeaderError
  <2>3. Majority' /\ result' # NoResult
    BY <2>1 DEF Majority, Agreeing, AllVoted, RoundInv, RoundType, VotesAreOwn
  <2>4. result.kind \in {"return", "error"}
    BY <2>1, <2>3 DEF RoundInv, RoundType
  <2>5. OutcomeIsRatified'
    <3>1. CASE result.kind = "error"
      BY <2>1, <2>3, <3>1 DEF OutcomeIsRatified, Failed
    <3>2. CASE result.kind = "return" /\ Gate(ctx, result.payload, Unchecked)
      BY <2>1, <2>3, <3>2 DEF OutcomeIsRatified, Stored
    <3>3. CASE result.kind = "return" /\ ~Gate(ctx, result.payload, Unchecked)
      BY <2>1, <2>3, <3>3 DEF OutcomeIsRatified, Failed
    <3> QED BY <2>4, <3>1, <3>2, <3>3
  <2> QED BY <2>2, <2>5 DEF RoundInv
<1>4. CASE Rotate
  <2>1. CASE leader' \in Nodes \ past' /\ FreshAttempt /\ UNCHANGED <<ctx, outcome>>
                /\ outcome = InProgress
    <3>1. RoundType'
      BY <2>1, <1>0 DEF FreshAttempt, RoundInv, RoundType, NoVotes, NoResult
    <3>2. VotesAreOwn'
      BY <2>1 DEF FreshAttempt, VotesAreOwn, NoVotes, Honest
    <3>3. OutcomeIsRatified'
      BY <2>1 DEF OutcomeIsRatified, InProgress
    <3> QED BY <3>1, <3>2, <3>3 DEF RoundInv
  <2>2. CASE outcome' = Undetermined /\ UNCHANGED <<ctx, leader, result, own, votes>>
    <3>1. RoundType' /\ VotesAreOwn'
      BY <1>0, <2>2
         DEF RoundInv, RoundType, VotesAreOwn, ValidatorDecision, VoteOnLeaderError
    <3>2. OutcomeIsRatified'
      BY <2>2 DEF OutcomeIsRatified, Undetermined
    <3> QED BY <3>1, <3>2 DEF RoundInv
  <2> QED BY <1>4, <2>1, <2>2 DEF Rotate
<1>5. CASE UNCHANGED vars
  BY <1>0, <1>5
     DEF vars, RoundInv, RoundType, VotesAreOwn, OutcomeIsRatified, Majority,
         Agreeing, ValidatorDecision, VoteOnLeaderError
<1> QED BY <1>1, <1>2, <1>3, <1>4, <1>5 DEF Next

(* What every vote and every outcome rests on, in every reachable state.   *)
THEOREM RoundIsSound == Spec => []RoundInv
BY RoundInit, RoundStep, PTL DEF Spec

----------------------------------------------------------------------------
(* What a vote says of the voter *)

\* A majority of the nodes counts an honest one.
LEMMA HonestSupporter ==
    ASSUME Majority PROVE Supporters # {}
<1>1. IsFiniteSet(Nodes) /\ Honest \subseteq Nodes /\ Agreeing \subseteq Nodes
  BY MajorityAssumption DEF Honest, Agreeing
<1>2. /\ Cardinality(Nodes) \in Nat /\ Cardinality(Honest) \in Nat
      /\ Cardinality(Agreeing) \in Nat
  BY <1>1, FS_Subset, FS_CardinalityType
<1>3. 2 * Cardinality(Honest) > Cardinality(Nodes)
  BY MajorityAssumption
<1>4. 2 * Cardinality(Agreeing) > Cardinality(Nodes)
  BY DEF Majority
<1>5. Cardinality(Agreeing) + Cardinality(Honest) > Cardinality(Nodes)
  BY <1>2, <1>3, <1>4
<1> QED BY <1>1, <1>5, FS_MajoritiesIntersect DEF Supporters

\* What an honest node derived is well formed for its own text.
LEMMA OwnPayload ==
    ASSUME ctx \in ContextType, NEW mine \in NodeRound, mine.kind = "return"
    PROVE  /\ mine.payload.source \in SourceType
           /\ Gate(ctx, mine.payload, TextSeen(mine.payload.source))
<1>1. mine # Raised(ERROR_TRANSIENT)
  BY DEF Raised
<1>2. PICK s \in Sources, a \in Answers(ctx.policy) :
          mine.payload = NodePayload(ctx, s, a)
  BY <1>1, NodeRoundKinds
<1>3. s \in SourceType
  BY InputsAssumption
<1>4. NodePayload(ctx, s, a).source = s
  BY DEF NodePayload
<1> QED BY <1>2, <1>3, <1>4, HonestGate

\* An honest node that supports a payload, as its leader or by a vote, has
\* one of its own that the payload is compared with.
Corroborates(mine, p) ==
    /\ mine.source \in SourceType
    /\ Gate(ctx, p, TextSeen(mine.source))
    /\ SameEvidence(ctx, mine, p)
    /\ Consequence(ctx, mine) = Consequence(ctx, p)

\* An honest node that supports a returned payload corroborates it, whether it
\* led or voted.
LEMMA SupporterCorroborates ==
    ASSUME RoundInv, result # NoResult, NEW n \in Supporters
    PROVE  /\ result.kind = "return" =>
                 own[n].kind = "return" /\ Corroborates(own[n].payload, result.payload)
           /\ result.kind = "error" => own[n].kind = "error"
<1>1. /\ n \in Honest /\ votes[n] = "agree" /\ own[n] \in NodeRound
      /\ ctx \in ContextType
  BY DEF Supporters, Agreeing, RoundInv, RoundType, VotesAreOwn
<1>2. own[n].kind = "return" => Corroborates(own[n].payload, own[n].payload)
  BY <1>1, OwnPayload DEF Corroborates, SameEvidence
<1>3. CASE n = leader
  BY <1>1, <1>2, <1>3 DEF RoundInv, VotesAreOwn
<1>4. CASE n # leader
  <2>1. ValidatorDecision(result, own[n])
    BY <1>1, <1>4 DEF RoundInv, VotesAreOwn
  <2>2. own[n].kind = "return" => own[n].payload.source \in SourceType
    BY <1>1, OwnPayload
  <2>3. CASE result.kind = "return"
    BY <2>1, <2>2, <2>3 DEF ValidatorDecision, Corroborates
  <2>4. CASE result.kind = "error"
    BY <2>1, <2>4 DEF ValidatorDecision, VoteOnLeaderError
  <2> QED BY <2>3, <2>4
<1> QED BY <1>3, <1>4

(* A round fails the transaction only when an honest node's own model call *)
(* failed: no payload that a majority agreed on is refused afterwards by   *)
(* the contract's gate, and no error of a leader alone is ratified.        *)
THEOREM FailureIsAlwaysShared == Spec => []FailureIsShared
<1>1. RoundInv => FailureIsShared
  <2> SUFFICES ASSUME RoundInv, outcome.kind = "failed"
               PROVE  \E n \in Honest : own[n].kind = "error"
    BY DEF FailureIsShared
  <2>1. /\ result # NoResult /\ Majority
        /\ \/ result.kind = "error"
           \/ result.kind = "return" /\ ~Gate(ctx, result.payload, Unchecked)
    BY DEF RoundInv, OutcomeIsRatified
  <2>2. PICK n : n \in Supporters
    BY <2>1, HonestSupporter
  <2>3. n \in Honest
    BY <2>2 DEF Supporters
  <2>4. result.kind # "return"
    <3> SUFFICES ASSUME result.kind = "return",
                        ~Gate(ctx, result.payload, Unchecked)
                 PROVE  FALSE
      BY <2>1
    <3>1. Corroborates(own[n].payload, result.payload)
      BY <2>1, <2>2, SupporterCorroborates
    <3>2. TextSeen(own[n].payload.source) \in SUBSET Passages
      BY <3>1, TextType DEF Corroborates
    <3> QED BY <3>1, <3>2, GateForgetsText DEF Corroborates
  <2> QED BY <2>1, <2>2, <2>3, <2>4, SupporterCorroborates
<1> QED BY <1>1, RoundIsSound, PTL

(* Honest nodes that derived the same agree with each other, so that a     *)
(* round whose honest nodes read alike is never split by them.             *)
THEOREM EqualReadingsAgree == Spec => []SameReadingAgrees
<1>1. RoundInv => SameReadingAgrees
  <2> SUFFICES ASSUME RoundInv, NEW n \in Honest, leader \in Honest,
                      votes[n] # "none", own[n] = own[leader]
               PROVE  votes[n] = "agree"
    BY DEF SameReadingAgrees
  <2>1. result # NoResult /\ votes[leader] = "agree" /\ own[leader] = result
    BY DEF RoundInv, VotesAreOwn, Honest
  <2>2. own[n] \in NodeRound /\ ctx \in ContextType
    BY DEF RoundInv, RoundType, VotesAreOwn
  <2>3. ValidatorDecision(own[n], own[n])
    <3>1. CASE own[n].kind = "return"
      BY <2>2, <3>1, OwnPayload DEF ValidatorDecision, SameEvidence
    <3>2. CASE own[n] = Raised(ERROR_TRANSIENT)
      BY <3>2
         DEF ValidatorDecision, VoteOnLeaderError, Raised, ERROR_TRANSIENT, ERROR_LLM
    <3> QED BY <2>2, <3>1, <3>2, NodeRoundKinds
  <2> QED BY <2>1, <2>3 DEF RoundInv, VotesAreOwn
<1> QED BY <1>1, RoundIsSound, PTL

----------------------------------------------------------------------------
(* What is stored *)

\* Every quote of a payload that a text's gate accepts is in that text, and
\* so is the date it gives.
LEMMA GatedQuotes ==
    ASSUME NEW p, NEW text, Gate(ctx, p, text), NEW s \in Subjects(ctx.policy)
    PROVE  /\ p.findings[s].quotes \subseteq text
           /\ p.findings[s].date # NoDate =>
                 \E q \in text : p.findings[s].date \in DatesIn[q]
<1> DEFINE f == p.findings[s]
<1>1. ValidFinding(f, s, text, p.panel_state)
  BY DEF Gate
<1> HIDE DEF f
<1>2. CASE p.panel_state # "ASSESSED"
  <2>1. f.quotes = {} /\ f.date = NoDate
    BY <1>1, <1>2 DEF ValidFinding, DefaultFinding
  <2> QED BY <2>1 DEF f
<1>3. CASE p.panel_state = "ASSESSED"
  <2>1. f.quotes \subseteq text /\ SupportMet(s, f)
    BY <1>1, <1>3 DEF ValidFinding, Grounded
  <2>2. f.date # NoDate => \E q \in f.quotes : f.date \in DatesIn[q]
    BY <2>1 DEF SupportMet
  <2> QED BY <2>1, <2>2 DEF f
<1> QED BY <1>2, <1>3

\* What is stored of a component: its reading, or nothing.
LEMMA StoredComponent ==
    ASSUME NEW p, NEW reason, NEW c \in Components
    PROVE  LET stored == StoredComponents(ctx, p, reason)[c] IN
           /\ stored.compared <=> AllCompared(reason) /\ c \in ctx.policy.required
           /\ \/ stored.reading.quotes = {}
              \/ stored.reading.quotes = p.findings[c].quotes
           /\ AllCompared(reason) => stored.reading.state = State(p, c)
<1> DEFINE stored == StoredComponents(ctx, p, reason)[c]
           kept == IF reason = "COMPONENT_CONTRADICTED"
                   THEN c \in ctx.policy.required /\ State(p, c) = "CONTRADICTED"
                   ELSE reason \in COMPONENT_DECIDED
           found == [state |-> State(p, c), quotes |-> p.findings[c].quotes]
           both == AllCompared(reason) /\ c \in ctx.policy.required
<1>1. stored = [compared |-> both, reading |-> IF kept THEN found ELSE NotStored]
  BY DEF StoredComponents
<1>2. AllCompared(reason) => kept
  BY DEF AllCompared
<1>3. /\ found.state = State(p, c) /\ found.quotes = p.findings[c].quotes
      /\ NotStored.quotes = {}
  BY DEF NotStored
<1> HIDE DEF stored, kept, found, both
<1>4. stored.reading = IF kept THEN found ELSE NotStored
  BY <1>1
<1>5. stored.compared <=> both
  BY <1>1
<1>6. \/ stored.reading.quotes = {}
      \/ stored.reading.quotes = p.findings[c].quotes
  BY <1>3, <1>4
<1>7. AllCompared(reason) => stored.reading.state = State(p, c)
  BY <1>2, <1>3, <1>4
<1> QED BY <1>5, <1>6, <1>7 DEF stored, both

\* A receipt stores no quote but of the payload it is made of.
LEMMA ReceiptQuotes ==
    ASSUME ctx \in ContextType, NEW p, NEW text, Gate(ctx, p, text)
    PROVE  StoredQuotes(Receipt(ctx, p)) \subseteq text
<1> DEFINE receipt == Receipt(ctx, p)
<1>1. /\ Components \subseteq Subjects(ctx.policy) /\ SHAPE \in Subjects(ctx.policy)
      /\ ctx.policy.required \subseteq Components
  BY DEF Subjects, ContextType, PolicyType
<1>2. receipt.source_shape.quotes \subseteq text
  <2>1. receipt.source_shape.quotes = p.findings[SHAPE].quotes
    BY DEF Receipt
  <2> QED BY <1>1, <2>1, GatedQuotes
<1>3. receipt.relevant_excerpt \subseteq text
  <2>1. receipt.relevant_excerpt \subseteq Excerpt(ctx, p)
    BY DEF Receipt
  <2>2. ASSUME NEW e \in Excerpt(ctx, p)
        PROVE  e \in text
    <3>1. PICK c \in ctx.policy.required :
              /\ p.findings[c].quotes # {}
              /\ e = CHOOSE q \in p.findings[c].quotes : TRUE
      BY DEF Excerpt
    <3>2. e \in p.findings[c].quotes
      BY <3>1
    <3> QED BY <1>1, <3>2, GatedQuotes
  <2> QED BY <2>1, <2>2
<1>4. ASSUME NEW c \in Components
      PROVE  receipt.components[c].reading.quotes \subseteq text
  <2>1. receipt.components = StoredComponents(ctx, p, Consequence(ctx, p).verdict.reason_code)
    BY DEF Receipt
  <2> HIDE DEF receipt
  <2>2. \/ receipt.components[c].reading.quotes = {}
        \/ receipt.components[c].reading.quotes = p.findings[c].quotes
    BY <2>1, StoredComponent
  <2> QED BY <1>1, <2>2, GatedQuotes
<1> HIDE DEF receipt
<1>5. StoredQuotes(receipt) \subseteq text
  BY <1>2, <1>3, <1>4 DEF StoredQuotes
<1> QED BY <1>5 DEF receipt

\* A component a receipt marks as compared is read as the consequence says.
LEMMA ComparedReading ==
    ASSUME NEW mine, NEW p, Consequence(ctx, mine) = Consequence(ctx, p),
           NEW c \in Components, Receipt(ctx, p).components[c].compared
    PROVE  Collapse(State(mine, c))
              = Collapse(Receipt(ctx, p).components[c].reading.state)
<1> DEFINE k == Consequence(ctx, p)
           reason == k.verdict.reason_code
<1>1. Receipt(ctx, p).components = StoredComponents(ctx, p, reason)
  BY DEF Receipt
<1>2. /\ AllCompared(reason) /\ c \in ctx.policy.required
      /\ reason \in COMPONENT_DECIDED /\ reason # "COMPONENT_CONTRADICTED"
  BY <1>1, StoredComponent DEF AllCompared
<1>3. Receipt(ctx, p).components[c].reading.state = State(p, c)
  BY <1>1, <1>2, StoredComponent
<1>4. k.required_components = RequiredReadings(ctx, p)
  BY <1>2 DEF Consequence
<1>5. Consequence(ctx, mine).required_components = RequiredReadings(ctx, mine)
  <2>1. AllCompared(Consequence(ctx, mine).verdict.reason_code)
    BY <1>2
  <2> QED BY <2>1 DEF Consequence
<1>6. RequiredReadings(ctx, mine)[c] = RequiredReadings(ctx, p)[c]
  BY <1>4, <1>5
<1> QED BY <1>2, <1>3, <1>6 DEF RequiredReadings

\* An honest node that supports a payload read what its receipt says.
LEMMA ReceiptOfSupporter ==
    ASSUME ctx \in ContextType, NEW mine, NEW p, Corroborates(mine, p)
    PROVE  LET receipt == Receipt(ctx, p) IN
           /\ StatusFor(ctx, mine) = receipt.verdict
           /\ mine.source.status = receipt.source.status
           /\ mine.source.http_status = receipt.source.http_status
           /\ receipt.source.body \in {NoBody, mine.source.body}
           /\ mine.markers = receipt.markers
           /\ receipt.freshness \in {"", OutcomeOf(ctx, mine)}
           /\ receipt.stated_date # NoDate =>
                 \E q \in TextSeen(mine.source) : receipt.stated_date \in DatesIn[q]
<1> DEFINE receipt == Receipt(ctx, p)
<1>1. /\ receipt.verdict = Consequence(ctx, p).verdict
      /\ receipt.freshness = Consequence(ctx, p).freshness
      /\ receipt.source = StoredSource(ctx, p.source)
      /\ receipt.markers = p.markers
      /\ receipt.stated_date \in {NoDate, StatedDate(ctx, p)}
  BY DEF Receipt
<1>2. /\ Consequence(ctx, mine).verdict = StatusFor(ctx, mine)
      /\ Consequence(ctx, mine).freshness \in {"", OutcomeOf(ctx, mine)}
  BY DEF Consequence
<1>3. /\ Gate(ctx, p, TextSeen(mine.source))
      /\ Consequence(ctx, mine) = Consequence(ctx, p)
      /\ mine.markers = p.markers
      /\ mine.source.status = p.source.status
      /\ mine.source.http_status = p.source.http_status
      /\ ctx.stability = "STABLE" => mine.source.body = p.source.body
  BY DEF Corroborates, SameEvidence
<1> HIDE DEF receipt
<1>4. DOMAIN p.source = {"status", "http_status", "body"}
  BY <1>3 DEF Gate, ValidSource
<1>5. /\ receipt.source.status = p.source.status
      /\ receipt.source.http_status = p.source.http_status
      /\ receipt.source.body \in {NoBody, mine.source.body}
  <2>1. CASE ctx.stability = "DYNAMIC"
    <3>1. receipt.source = [p.source EXCEPT !.body = NoBody]
      BY <1>1, <2>1 DEF StoredSource
    <3> QED BY <1>4, <3>1
  <2>2. CASE ctx.stability = "STABLE"
    BY <1>1, <1>3, <2>2 DEF StoredSource
  <2> QED BY <2>1, <2>2 DEF ContextType
<1>6. ASSUME receipt.stated_date # NoDate
      PROVE  \E q \in TextSeen(mine.source) : receipt.stated_date \in DatesIn[q]
  <2>1. /\ ctx.policy.freshness_required
        /\ receipt.stated_date = p.findings[FRESHNESS].date
    BY <1>1, <1>6 DEF StatedDate
  <2>2. FRESHNESS \in Subjects(ctx.policy)
    BY <2>1 DEF Subjects
  <2> QED BY <1>3, <1>6, <2>1, <2>2, GatedQuotes
<1> QED BY <1>1, <1>2, <1>3, <1>5, <1>6 DEF receipt

\* The receipt a stored outcome holds, and who stands behind it.
LEMMA StoredOutcome ==
    ASSUME RoundInv, IsStored
    PROVE  /\ outcome.receipt = Receipt(ctx, result.payload)
           /\ Supporters # {}
           /\ \A n \in Supporters : Corroborates(own[n].payload, result.payload)
<1>1. /\ result # NoResult /\ Majority /\ result.kind = "return"
      /\ outcome = Stored(Receipt(ctx, result.payload))
  BY DEF RoundInv, OutcomeIsRatified, IsStored
<1>2. outcome.receipt = Receipt(ctx, result.payload)
  BY <1>1 DEF Stored
<1> QED BY <1>1, <1>2, HonestSupporter, SupporterCorroborates

(* Whoever led, a stored receipt is what some honest node found itself,    *)
(* and every honest node that agreed derived its verdict, its source       *)
(* status, its markers and its compared readings, and has every stored     *)
(* quote and the stated date in the text it retrieved.                     *)
THEOREM ReceiptIsHonest == Spec => []ReceiptReflectsHonestReading
<1>1. RoundInv => ReceiptReflectsHonestReading
  <2> SUFFICES ASSUME RoundInv, IsStored
               PROVE  ReceiptReflectsHonestReading
    BY DEF ReceiptReflectsHonestReading
  <2> DEFINE p == result.payload
             receipt == Receipt(ctx, p)
  <2>1. /\ outcome.receipt = receipt /\ Supporters # {}
        /\ \A n \in Supporters : Corroborates(own[n].payload, p)
    BY StoredOutcome
  <2>2. ctx \in ContextType
    BY DEF RoundInv, RoundType
  <2>3. ASSUME NEW n \in Supporters
        PROVE  LET mine == own[n].payload IN
               /\ StatusFor(ctx, mine) = receipt.verdict
               /\ mine.source.status = receipt.source.status
               /\ mine.markers = receipt.markers
               /\ StoredQuotes(receipt) \subseteq TextSeen(mine.source)
               /\ receipt.stated_date # NoDate =>
                     \E q \in TextSeen(mine.source) :
                         receipt.stated_date \in DatesIn[q]
               /\ \A c \in Components :
                     receipt.components[c].compared =>
                         Collapse(State(mine, c)) =
                             Collapse(receipt.components[c].reading.state)
    <3> DEFINE mine == own[n].payload
    <3>1. Corroborates(mine, p)
      BY <2>1
    <3>2. /\ Gate(ctx, p, TextSeen(mine.source))
          /\ Consequence(ctx, mine) = Consequence(ctx, p)
      BY <3>1 DEF Corroborates
    <3> HIDE DEF mine, p
    <3>3. StoredQuotes(receipt) \subseteq TextSeen(mine.source)
      BY <2>2, <3>2, ReceiptQuotes
    <3>4. \A c \in Components :
             receipt.components[c].compared =>
                 Collapse(State(mine, c)) =
                     Collapse(receipt.components[c].reading.state)
      BY <3>2, ComparedReading
    <3> QED BY <2>2, <3>1, <3>3, <3>4, ReceiptOfSupporter DEF mine
  <2> HIDE DEF p, receipt
  <2> QED BY <2>1, <2>3 DEF ReceiptReflectsHonestReading
<1> QED BY <1>1, RoundIsSound, PTL

(* What the receipt records of the retrieval is what every agreeing honest *)
(* node retrieved, or is not recorded; so is the freshness outcome.        *)
THEOREM RecordIsAgreed == Spec => []StoredRecordAgreed
<1>1. RoundInv => StoredRecordAgreed
  <2> SUFFICES ASSUME RoundInv, IsStored
               PROVE  StoredRecordAgreed
    BY DEF StoredRecordAgreed
  <2> DEFINE p == result.payload
             receipt == Receipt(ctx, p)
  <2>1. /\ outcome.receipt = receipt
        /\ \A n \in Supporters : Corroborates(own[n].payload, p)
    BY StoredOutcome
  <2>2. ctx \in ContextType
    BY DEF RoundInv, RoundType
  <2>3. ASSUME NEW n \in Supporters
        PROVE  LET mine == own[n].payload IN
               /\ receipt.source.body \in {NoBody, mine.source.body}
               /\ receipt.source.http_status = mine.source.http_status
               /\ receipt.freshness \in {"", OutcomeOf(ctx, mine)}
    BY <2>1, <2>2, ReceiptOfSupporter
  <2> HIDE DEF p, receipt
  <2> QED BY <2>1, <2>3 DEF StoredRecordAgreed
<1> QED BY <1>1, RoundIsSound, PTL
=============================================================================
