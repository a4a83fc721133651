--------------------------- MODULE ConsensusRound ---------------------------
(***************************************************************************)
(* One verification round on several nodes: the leader's payload, the      *)
(* validators' votes on it by reproduction (_validator_decision), and what *)
(* the contract does with a ratified payload (_run_round, _receipt).       *)
(*                                                                         *)
(* gl.vm.run_nondet_unsafe is the platform's, and modelled from its use: a *)
(* leader is drawn, the others vote, a majority that counts the leader     *)
(* ratifies, and otherwise another leader is drawn, a bounded number of    *)
(* times.  Honest nodes retrieve on their own and may see different        *)
(* pages; a faulty node returns and votes as it likes.                     *)
(***************************************************************************)
EXTENDS Verdict

CONSTANTS
    Nodes, Faulty,
    Contexts,       \* what the round is asked: policy, stability, now
    Sources,        \* source records _fetch_source may return
    Answers(_),     \* Answers(policy): what an honest node's panel may answer
    ModelFails,     \* whether a model call may fail
    Payloads(_),    \* Payloads(ctx): what a faulty leader may return
    MaxRotations    \* bound on the leaders drawn for one round

Honest == Nodes \ Faulty

\* The assumption of the README: an honest validator majority.
ASSUME MajorityAssumption ==
    /\ Faulty \subseteq Nodes /\ IsFiniteSet(Nodes)
    /\ 2 * Cardinality(Honest) > Cardinality(Nodes)
ASSUME InputsAssumption == Contexts \subseteq ContextType /\ Sources \subseteq SourceType
ASSUME RotationsAssumption == MaxRotations \in Nat /\ ModelFails \in BOOLEAN

VARIABLES
    ctx,        \* what is asked
    past,       \* leaders drawn before this one
    leader,
    result,     \* what the leader returned or raised
    own,        \* own[n]: what an honest node derived itself in this attempt
    votes,
    outcome     \* of the transaction

vars == <<ctx, past, leader, result, own, votes, outcome>>

NoResult == [kind |-> "none"]
Returned(payload) == [kind |-> "return", payload |-> payload]
Raised(text) == [kind |-> "error", text |-> text]

ERROR_TRANSIENT == "TRANSIENT"
ERROR_LLM == "LLM_ERROR"
\* What a faulty leader may raise; a crash of its VM is no UserError.
LEADER_ERRORS == {ERROR_TRANSIENT, ERROR_LLM, "EXPECTED", "VM"}

InProgress == [kind |-> "in progress"]
Undetermined == [kind |-> "undetermined"]
Failed(text) == [kind |-> "failed", text |-> text]
Stored(receipt) == [kind |-> "stored", receipt |-> receipt]

\* _node_round: what an honest node may return or raise.  Only the model
\* call raises; a failed retrieval is a source status.
Derivations ==
    {Returned(NodePayload(ctx, s, a)) : s \in Sources, a \in Answers(ctx.policy)}

ModelErrors ==
    IF ModelFails /\ \E s \in Sources : CodeReason(s, MarkersSeen(s)) = ""
    THEN {Raised(ERROR_TRANSIENT)} ELSE {}

NodeRound == Derivations \cup ModelErrors

----------------------------------------------------------------------------
(* A validator's decision, from its own derivation *)

Fault_ErrorsAreRatified(text, mine) == text # ERROR_LLM
Fault_ErrorsNeverRatified(text, mine) == FALSE

\* _vote_on_leader_error; a node's own error is its model call's.
VoteOnLeaderError(text, mine) ==
    /\ text \notin {ERROR_LLM, "VM"}
    /\ mine.kind = "error"
    /\ mine.text = text

\* A node whose own derivation raises does not agree.
ValidatorDecision(theirs, mine) ==
    \/ /\ theirs.kind = "return" /\ mine.kind = "return"
       /\ Gate(ctx, theirs.payload, TextSeen(mine.payload.source))
       /\ SameEvidence(ctx, mine.payload, theirs.payload)
       /\ Consequence(ctx, mine.payload) = Consequence(ctx, theirs.payload)
    \/ theirs.kind = "error" /\ VoteOnLeaderError(theirs.text, mine)

----------------------------------------------------------------------------
NoVotes == [n \in Nodes |-> "none"]

Init ==
    /\ ctx \in Contexts
    /\ past = {}
    /\ leader \in Nodes
    /\ result = NoResult
    /\ own = [n \in Nodes |-> NoResult]
    /\ votes = NoVotes
    /\ outcome = InProgress

Lead ==
    /\ outcome = InProgress
    /\ result = NoResult
    /\ \/ /\ leader \in Honest
          /\ result' \in NodeRound
          /\ own' = [own EXCEPT ![leader] = result']
       \/ /\ leader \in Faulty
          /\ \/ \E p \in Payloads(ctx) : result' = Returned(p)
             \/ \E e \in LEADER_ERRORS : result' = Raised(e)
          /\ UNCHANGED own
    /\ votes' = [votes EXCEPT ![leader] = "agree"]
    /\ UNCHANGED <<ctx, past, leader, outcome>>

Vote(n) ==
    /\ outcome = InProgress
    /\ result # NoResult
    /\ votes[n] = "none"
    /\ \/ /\ n \in Honest
          /\ \E mine \in NodeRound :
                /\ own' = [own EXCEPT ![n] = mine]
                /\ votes' = [votes EXCEPT ![n] =
                       IF ValidatorDecision(result, mine) THEN "agree"
                                                          ELSE "disagree"]
       \/ /\ n \in Faulty
          /\ \E v \in {"agree", "disagree"} : votes' = [votes EXCEPT ![n] = v]
          /\ UNCHANGED own
    /\ UNCHANGED <<ctx, past, leader, result, outcome>>

Agreeing == {n \in Nodes : votes[n] = "agree"}
AllVoted == \A n \in Nodes : votes[n] # "none"
Majority == 2 * Cardinality(Agreeing) > Cardinality(Nodes)

\* The contract gates the ratified payload once more, then stores.
Ratify ==
    /\ outcome = InProgress
    /\ AllVoted /\ Majority
    /\ outcome' =
           IF result.kind = "error" THEN Failed(result.text)
           ELSE IF Gate(ctx, result.payload, Unchecked)
                THEN Stored(Receipt(ctx, result.payload))
                ELSE Failed(ERROR_LLM)
    /\ UNCHANGED <<ctx, past, leader, result, own, votes>>

\* What a node did for the last leader counts for nothing with the next.
FreshAttempt ==
    /\ result' = NoResult
    /\ own' = [n \in Nodes |-> NoResult]
    /\ votes' = NoVotes

Rotate ==
    /\ outcome = InProgress
    /\ AllVoted /\ ~Majority
    /\ past' = past \cup {leader}
    /\ \/ /\ Cardinality(past') < MaxRotations
          /\ leader' \in Nodes \ past'
          /\ FreshAttempt
          /\ UNCHANGED outcome
       \/ /\ Cardinality(past') = MaxRotations \/ past' = Nodes
          /\ outcome' = Undetermined
          /\ UNCHANGED <<leader, result, own, votes>>
    /\ UNCHANGED ctx

Next == Lead \/ (\E n \in Nodes : Vote(n)) \/ Ratify \/ Rotate

Spec == Init /\ [][Next]_vars

\* The platform drives a round on: a node that does not answer in time is
\* counted as one that does not agree.
FairSpec == Spec /\ WF_vars(Next)

----------------------------------------------------------------------------
(* Properties *)

Supporters == Agreeing \cap Honest
IsStored == outcome.kind = "stored"

StoredQuotes(receipt) ==
    receipt.source_shape.quotes \cup receipt.relevant_excerpt \cup
        UNION {receipt.components[c].reading.quotes : c \in Components}

(* Whoever led, a stored receipt is what some honest node found itself:    *)
(* every honest node that agreed derived the same verdict and the same     *)
(* source status from its own retrieval, read the compared components the  *)
(* same way, and has every stored quote in its own text.                   *)
ReceiptReflectsHonestReading ==
    IsStored =>
        LET receipt == outcome.receipt IN
        /\ Supporters # {}
        /\ \A n \in Supporters :
              LET mine == own[n].payload IN
              /\ StatusFor(ctx, mine) = receipt.verdict
              /\ mine.source.status = receipt.source.status
              /\ mine.markers = receipt.markers
              /\ StoredQuotes(receipt) \subseteq TextSeen(mine.source)
              /\ receipt.stated_date # NoDate =>
                    \E q \in TextSeen(mine.source) :
                        receipt.stated_date \in DatesIn[q]
              /\ \A c \in Components :
                    receipt.components[c].compared =>
                        Collapse(State(mine, c)) =
                            Collapse(receipt.components[c].reading.state)

(* What the receipt records of the retrieval itself - digest, byte count,  *)
(* title, HTTP status - is what every agreeing honest node retrieved, or   *)
(* is not recorded: two agreeing nodes may have seen different bytes of a  *)
(* DYNAMIC source.  The same holds of the freshness outcome.               *)
StoredRecordAgreed ==
    IsStored =>
        LET receipt == outcome.receipt IN
        \A n \in Supporters :
            LET mine == own[n].payload IN
            /\ receipt.source.body \in {NoBody, mine.source.body}
            /\ receipt.source.http_status = mine.source.http_status
            /\ receipt.freshness \in {"", OutcomeOf(ctx, mine)}

(* A round fails the transaction only when an honest node's own model call *)
(* failed too; an error a leader makes up, and a payload the contract's    *)
(* gate would refuse after ratification, never are ratified.               *)
FailureIsShared ==
    outcome.kind = "failed" => \E n \in Honest : own[n].kind = "error"

(* Two honest nodes that retrieved the same and were answered the same do  *)
(* not split, whatever the answer was; nor do two whose model calls both   *)
(* failed in passing, so that an outage they share ends the round.         *)
SameReadingAgrees ==
    \A n \in Honest :
        leader \in Honest /\ votes[n] # "none" /\ own[n] = own[leader]
            => votes[n] = "agree"

\* In every attempt the honest nodes that have read the source did so
\* alike, and no model call failed.
HonestReadAlike ==
    \A m, n \in Honest :
        own[m] # NoResult /\ own[n] # NoResult =>
            own[m] = own[n] /\ own[m].kind = "return"

(* When the honest nodes read the source alike, whatever they read, the    *)
(* round stores a receipt: faulty nodes can cost rotations, not the        *)
(* receipt, as long as there are more rotations than faulty nodes.         *)
AgreementIsReached == []HonestReadAlike => <>IsStored
=============================================================================
