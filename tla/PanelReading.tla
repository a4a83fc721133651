---------------------------- MODULE PanelReading ----------------------------
(***************************************************************************)
(* One node's reading, from any answer a panel may give of any source to   *)
(* the payload and its verdict, and what must hold of them.  The verdict   *)
(* is compared with the precedence table of docs/EVIDENCE_POLICY.md, with  *)
(* one difference: the code takes a date of up to a day ahead for usable,  *)
(* which the document counts as UNDATED (FutureDateIsUndated).             *)
(***************************************************************************)
EXTENDS Verdict

CONSTANTS Contexts,   \* what the round is asked: policy, stability, now
          Sources,    \* source records _fetch_source may return
          Answers(_)  \* Answers(policy): what the panel may answer

ASSUME InputsAssumption == Contexts \subseteq ContextType /\ Sources \subseteq SourceType

VARIABLES ctx, source, answer, payload

vars == <<ctx, source, answer, payload>>

NoPayload == <<>>

Init ==
    /\ ctx \in Contexts
    /\ source \in Sources
    /\ answer \in Answers(ctx.policy)
    /\ payload = NoPayload

Derive ==
    /\ payload = NoPayload
    /\ payload' = NodePayload(ctx, source, answer)
    /\ UNCHANGED <<ctx, source, answer>>

Next == Derive

Spec == Init /\ [][Next]_vars

----------------------------------------------------------------------------
(* The table of docs/EVIDENCE_POLICY.md, each row by its own description,  *)
(* with the rows before it excluded.  Where the document reads "no usable  *)
(* date" no date in the future is usable; here one is, up to Ahead.        *)

\* How far a stated date may lie ahead of the transaction: the document has
\* none of it, the code a day.
Ahead == Day

Policy == ctx.policy
Required(state) == \E c \in Policy.required : State(payload, c) = state
AllRequired(states) == \A c \in Policy.required : State(payload, c) \in states

Unreadable == payload.source.status \notin {"RETRIEVED", "PARTIAL"}
Addressed  == payload.markers # {}
Unusable   == payload.panel_state = "INVALID"
Dated      == State(payload, FRESHNESS) = "DATED"
Age        == ctx.now - payload.findings[FRESHNESS].date
Datable    == Policy.freshness_required => Dated /\ Age >= -Ahead
Fresh      == Policy.freshness_required => Age <= Policy.max_age

Read        == ~Unreadable /\ ~Addressed /\ ~Unusable
RightSource == Read /\ State(payload, SHAPE) = "MATCHES"
Consistent  == RightSource /\ ~Required("CONTRADICTED")
Timely      == Consistent /\ Datable /\ Fresh
Clear       == Timely /\ ~Required("UNCLEAR")
Present     == Clear /\ ~Required("ABSENT")

Table ==
    [SOURCE_ADDRESSES_VERIFIER |-> ~Unreadable /\ Addressed,
     MODEL_OUTPUT_INVALID      |-> ~Unreadable /\ ~Addressed /\ Unusable,
     WRONG_SOURCE_TYPE         |-> Read /\ State(payload, SHAPE) = "MISMATCH",
     SOURCE_TYPE_UNCLEAR       |-> Read /\ State(payload, SHAPE) = "UNCLEAR",
     COMPONENT_CONTRADICTED    |-> RightSource /\ Required("CONTRADICTED"),
     FRESHNESS_UNVERIFIABLE    |-> Consistent /\ ~Datable,
     EVIDENCE_STALE            |-> Consistent /\ Datable /\ ~Fresh,
     COMPONENT_UNCLEAR         |-> Timely /\ Required("UNCLEAR"),
     EVIDENCE_ABSENT           |-> Clear /\ AllRequired({"ABSENT"}),
     COMPONENTS_MISSING        |-> Clear /\ Required("ABSENT")
                                     /\ ~AllRequired({"ABSENT"}),
     BELOW_MINIMUM_SUPPORT     |-> Present /\ Required("IMPLIED")
                                     /\ Policy.minimum_support_level = "DIRECT",
     SUPPORT_MET               |-> Present /\ (Required("IMPLIED") =>
                                     Policy.minimum_support_level = "STRONG")]

INCONCLUSIVE_REASONS ==
    {"SOURCE_ADDRESSES_VERIFIER", "MODEL_OUTPUT_INVALID", "SOURCE_TYPE_UNCLEAR",
     "FRESHNESS_UNVERIFIABLE", "EVIDENCE_STALE", "COMPONENT_UNCLEAR"}

FinalResultOf(reason) ==
    CASE reason \in INCONCLUSIVE_REASONS -> "INCONCLUSIVE"
      [] reason \in {"WRONG_SOURCE_TYPE", "EVIDENCE_ABSENT"} -> "NOT_SUPPORTED"
      [] reason \in {"COMPONENTS_MISSING", "BELOW_MINIMUM_SUPPORT"}
             -> "PARTIALLY_SUPPORTED"
      [] reason = "COMPONENT_CONTRADICTED" -> "CONTRADICTED"
      [] reason = "SUPPORT_MET" -> "SUPPORTED"
      [] OTHER -> "UNAVAILABLE"

Derived == payload # NoPayload

(* For every reading, _status_for gives the reason whose row of the table  *)
(* describes it - the rows are exclusive and cover every reading - and the *)
(* final result of that row; DIRECT support only when all is explicit.     *)
(* The row of FRESHNESS_UNVERIFIABLE is the document's only for dates that *)
(* are not ahead of the transaction: one of up to a day ahead is usable.   *)
VerdictMatchesTable ==
    Derived =>
        LET verdict == StatusFor(ctx, payload) IN
        /\ \A reason \in DOMAIN Table :
              Table[reason] <=> verdict.reason_code = reason
        /\ Unreadable <=> verdict.final_result = "UNAVAILABLE"
        /\ verdict.final_result = FinalResultOf(verdict.reason_code)
        /\ verdict.support_level = "DIRECT"
              => AllRequired({"EXPLICIT"}) /\ verdict.final_result = "SUPPORTED"

(* Whatever the panel answered - quotes that are not in the source, dates  *)
(* where none belongs, states outside the vocabulary - the payload a node  *)
(* makes of it passes the gate of a node that retrieved the same source,   *)
(* and the contract's own gate: an honest leader is never refused for what *)
(* its model said.                                                         *)
HonestPayloadPasses ==
    Derived => /\ Gate(ctx, payload, TextSeen(source))
               /\ Gate(ctx, payload, Unchecked)

(* A supported claim is shown in the source: every required component, the *)
(* kind of source, and a date that is not too old and at most a day ahead, *)
(* each by a passage of the retrieved text that no marker accompanies.     *)
SupportIsShown ==
    Derived /\ StatusFor(ctx, payload).final_result = "SUPPORTED" =>
        LET shown(s) == payload.findings[s].quotes \cap TextSeen(source) IN
        /\ MarkersSeen(source) = {}
        /\ \A s \in Policy.required \cup {SHAPE} : shown(s) # {}
        /\ Policy.freshness_required =>
              \E q \in shown(FRESHNESS) :
                 /\ payload.findings[FRESHNESS].date \in DatesIn[q]
                 /\ payload.findings[FRESHNESS].date
                       \in (ctx.now - Policy.max_age)..(ctx.now + Ahead)

(* docs/EVIDENCE_POLICY.md: "a date in the future cannot vouch for         *)
(* freshness and counts as UNDATED".  It does not hold: _freshness takes a *)
(* date that begins within a day of the transaction for the present.       *)
FutureDateIsUndated ==
    Derived /\ Policy.freshness_required /\ Dated /\ Age < 0 =>
        FreshnessOutcome(ctx, payload) = "UNDATED"
=============================================================================
