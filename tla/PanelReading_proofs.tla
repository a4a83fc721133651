------------------------ MODULE PanelReading_proofs ------------------------
(***************************************************************************)
(* Theorems of PanelReading, for every set of components, passages and     *)
(* bodies, every source and policy the code admits, and whatever a panel   *)
(* answers.                                                                *)
(***************************************************************************)
EXTENDS PanelReading, Verdict_proofs

\* The payload, once there, is the derivation of this source and answer.
PayloadIsDerived ==
    /\ ctx \in ContextType
    /\ source \in SourceType
    /\ payload \in {NoPayload, NodePayload(ctx, source, answer)}

\* The payload under judgment is always one an honest leader derived.
LEMMA DerivedThroughout == Spec => []PayloadIsDerived
<1>1. Init => PayloadIsDerived
  BY InputsAssumption DEF Init, PayloadIsDerived
<1>2. PayloadIsDerived /\ [Next]_vars => PayloadIsDerived'
  BY DEF PayloadIsDerived, Next, Derive, vars
<1> QED BY <1>1, <1>2, PTL DEF Spec

(* Whatever a panel answers - quotes that are not in the source, dates     *)
(* where none belongs, states outside the vocabulary - the payload passes  *)
(* the gate of a node that retrieved the same source, and the contract's.  *)
THEOREM HonestLeaderIsNotRefused == Spec => []HonestPayloadPasses
<1>1. PayloadIsDerived => HonestPayloadPasses
  <2> SUFFICES ASSUME PayloadIsDerived, Derived
               PROVE  /\ Gate(ctx, payload, TextSeen(source))
                      /\ Gate(ctx, payload, Unchecked)
    BY DEF HonestPayloadPasses
  <2>1. payload = NodePayload(ctx, source, answer) /\ source \in SourceType
    BY DEF PayloadIsDerived, Derived
  <2>2. Gate(ctx, payload, TextSeen(source))
    BY <2>1, HonestGate
  <2>3. Gate(ctx, payload, Unchecked)
    BY <2>1, <2>2, TextType, GateForgetsText
  <2> QED BY <2>2, <2>3
<1> QED BY <1>1, DerivedThroughout, PTL

----------------------------------------------------------------------------
(* The table *)

Reasons == {"SOURCE_ADDRESSES_VERIFIER", "MODEL_OUTPUT_INVALID",
            "WRONG_SOURCE_TYPE", "SOURCE_TYPE_UNCLEAR", "COMPONENT_CONTRADICTED",
            "FRESHNESS_UNVERIFIABLE", "EVIDENCE_STALE", "COMPONENT_UNCLEAR",
            "EVIDENCE_ABSENT", "COMPONENTS_MISSING", "BELOW_MINIMUM_SUPPORT",
            "SUPPORT_MET"}

\* The rows of the table, each under its reason.
LEMMA Rows ==
    /\ DOMAIN Table = Reasons
    /\ Table["SOURCE_ADDRESSES_VERIFIER"] <=> ~Unreadable /\ Addressed
    /\ Table["MODEL_OUTPUT_INVALID"] <=> ~Unreadable /\ ~Addressed /\ Unusable
    /\ Table["WRONG_SOURCE_TYPE"] <=> Read /\ State(payload, SHAPE) = "MISMATCH"
    /\ Table["SOURCE_TYPE_UNCLEAR"] <=> Read /\ State(payload, SHAPE) = "UNCLEAR"
    /\ Table["COMPONENT_CONTRADICTED"] <=> RightSource /\ Required("CONTRADICTED")
    /\ Table["FRESHNESS_UNVERIFIABLE"] <=> Consistent /\ ~Datable
    /\ Table["EVIDENCE_STALE"] <=> Consistent /\ Datable /\ ~Fresh
    /\ Table["COMPONENT_UNCLEAR"] <=> Timely /\ Required("UNCLEAR")
    /\ Table["EVIDENCE_ABSENT"] <=> Clear /\ AllRequired({"ABSENT"})
    /\ Table["COMPONENTS_MISSING"]
          <=> Clear /\ Required("ABSENT") /\ ~AllRequired({"ABSENT"})
    /\ Table["BELOW_MINIMUM_SUPPORT"]
          <=> Present /\ Required("IMPLIED")
                /\ Policy.minimum_support_level = "DIRECT"
    /\ Table["SUPPORT_MET"]
          <=> Present /\ (Required("IMPLIED") =>
                              Policy.minimum_support_level = "STRONG")
BY DEF Table, Reasons

\* A reading is of one row at most, and of none when the source is unreadable.
LEMMA RowsExclude ==
    ASSUME Policy.required # {}, NEW a \in Reasons, Table[a]
    PROVE  /\ ~Unreadable
           /\ \A b \in Reasons : Table[b] => a = b
<1>1. AllRequired({"ABSENT"}) => Required("ABSENT")
  BY DEF AllRequired, Required
<1> HIDE DEF Table
<1> QED
  BY <1>1, Rows
     DEF Reasons, Present, Clear, Timely, Consistent, RightSource, Read

\* The outcome of freshness against the two limits of the table, Ahead of
\* the transaction and max_age behind it.
LEMMA OutcomeOfAge ==
    ASSUME ctx \in ContextType,
           Policy.freshness_required => payload.findings[FRESHNESS].date \in Int
    PROVE  /\ FreshnessOutcome(ctx, payload) = "UNDATED" <=> ~Datable
           /\ FreshnessOutcome(ctx, payload) = "STALE" <=> Datable /\ ~Fresh
<1>1. /\ Policy.freshness_required \in BOOLEAN
      /\ Policy.max_age \in Nat /\ ctx.now \in Nat
  BY DEF ContextType, PolicyType, Policy
<1>2. CASE ~Policy.freshness_required
  BY <1>2 DEF FreshnessOutcome, Datable, Fresh, Policy
<1>3. CASE Policy.freshness_required /\ ~Dated
  BY <1>3 DEF FreshnessOutcome, Datable, Dated, Policy
<1>4. CASE Policy.freshness_required /\ Dated
  <2> DEFINE d == payload.findings[FRESHNESS].date
  <2>1. d \in Int
    BY <1>4
  <2>2. /\ Age = ctx.now - d
        /\ FreshnessOutcome(ctx, payload) =
              IF d > ctx.now + Day THEN "UNDATED"
              ELSE IF ctx.now - d > Policy.max_age THEN "STALE" ELSE "CURRENT"
        /\ Datable <=> Age >= -Ahead
        /\ Fresh <=> Age <= Policy.max_age
    BY <1>4 DEF FreshnessOutcome, Age, Datable, Fresh, Dated, Policy
  <2> HIDE DEF d
  <2> QED BY <1>1, <2>1, <2>2 DEF Ahead, Day
<1> QED BY <1>1, <1>2, <1>3, <1>4

\* The final result that goes with each reason.
LEMMA ResultOfReason ==
    /\ \A r \in INCONCLUSIVE_REASONS : FinalResultOf(r) = "INCONCLUSIVE"
    /\ FinalResultOf("WRONG_SOURCE_TYPE") = "NOT_SUPPORTED"
    /\ FinalResultOf("EVIDENCE_ABSENT") = "NOT_SUPPORTED"
    /\ FinalResultOf("COMPONENTS_MISSING") = "PARTIALLY_SUPPORTED"
    /\ FinalResultOf("BELOW_MINIMUM_SUPPORT") = "PARTIALLY_SUPPORTED"
    /\ FinalResultOf("COMPONENT_CONTRADICTED") = "CONTRADICTED"
    /\ FinalResultOf("SUPPORT_MET") = "SUPPORTED"
    /\ \A r : r \notin Reasons => FinalResultOf(r) = "UNAVAILABLE"
<1>1. \A r \in INCONCLUSIVE_REASONS : FinalResultOf(r) = "INCONCLUSIVE"
  BY DEF FinalResultOf, INCONCLUSIVE_REASONS
<1>2. /\ FinalResultOf("WRONG_SOURCE_TYPE") = "NOT_SUPPORTED"
      /\ FinalResultOf("EVIDENCE_ABSENT") = "NOT_SUPPORTED"
  BY DEF FinalResultOf, INCONCLUSIVE_REASONS
<1>3. /\ FinalResultOf("COMPONENTS_MISSING") = "PARTIALLY_SUPPORTED"
      /\ FinalResultOf("BELOW_MINIMUM_SUPPORT") = "PARTIALLY_SUPPORTED"
  BY DEF FinalResultOf, INCONCLUSIVE_REASONS
<1>4. /\ FinalResultOf("COMPONENT_CONTRADICTED") = "CONTRADICTED"
      /\ FinalResultOf("SUPPORT_MET") = "SUPPORTED"
  BY DEF FinalResultOf, INCONCLUSIVE_REASONS
<1>5. \A r : r \notin Reasons => FinalResultOf(r) = "UNAVAILABLE"
  BY DEF FinalResultOf, INCONCLUSIVE_REASONS, Reasons
<1> QED BY <1>1, <1>2, <1>3, <1>4, <1>5

\* What VerdictMatchesTable says of a verdict, its row named.
Matches(verdict) ==
    /\ IF Unreadable THEN /\ verdict.reason_code \notin Reasons
                          /\ verdict.final_result = "UNAVAILABLE"
       ELSE /\ verdict.reason_code \in Reasons
            /\ Table[verdict.reason_code]
            /\ verdict.final_result = FinalResultOf(verdict.reason_code)
            /\ verdict.final_result # "UNAVAILABLE"
    /\ verdict.support_level = "DIRECT"
          => AllRequired({"EXPLICIT"}) /\ verdict.final_result = "SUPPORTED"

\* The verdict on the components, once the source is right and timely.
LEMMA ComponentRow ==
    ASSUME Policy \in PolicyType, Timely, ~Required("CONTRADICTED"),
           \A c \in Policy.required : State(payload, c) \in COMPONENT_STATES
    PROVE  Matches(ComponentVerdict(Policy,
                       {State(payload, c) : c \in Policy.required}))
<1> DEFINE states == {State(payload, c) : c \in Policy.required}
           verdict == ComponentVerdict(Policy, states)
<1> SUFFICES Matches(verdict)
  OBVIOUS
<1>1. /\ Policy.required # {}
      /\ Policy.minimum_support_level \in {"STRONG", "DIRECT"}
  BY DEF PolicyType
<1>2. /\ "UNCLEAR" \in states <=> Required("UNCLEAR")
      /\ "ABSENT" \in states <=> Required("ABSENT")
      /\ states = {"ABSENT"} <=> AllRequired({"ABSENT"})
      /\ states = {"EXPLICIT"} <=> AllRequired({"EXPLICIT"})
  BY <1>1 DEF Required, AllRequired
<1>3. ~Required("UNCLEAR") /\ ~Required("ABSENT")
         => (Required("IMPLIED") <=> ~AllRequired({"EXPLICIT"}))
  BY <1>1 DEF Required, AllRequired, COMPONENT_STATES
<1>4. ~Unreadable
  BY DEF Timely, Consistent, RightSource, Read
<1> HIDE DEF states, verdict
<1>5. CASE Required("UNCLEAR")
  <2>1. verdict = Verdict("INCONCLUSIVE", "INSUFFICIENT", "COMPONENT_UNCLEAR")
    BY <1>2, <1>5 DEF ComponentVerdict, verdict
  <2> QED
    BY <1>4, <1>5, <2>1, Rows, ResultOfReason
       DEF Matches, Verdict, Reasons, INCONCLUSIVE_REASONS
<1>6. CASE Clear /\ AllRequired({"ABSENT"})
  <2>1. verdict = Verdict("NOT_SUPPORTED", "INSUFFICIENT", "EVIDENCE_ABSENT")
    BY <1>2, <1>6 DEF ComponentVerdict, Clear, verdict
  <2> QED
    BY <1>4, <1>6, <2>1, Rows, ResultOfReason DEF Matches, Verdict, Reasons
<1>7. CASE Clear /\ Required("ABSENT") /\ ~AllRequired({"ABSENT"})
  <2>1. verdict = Verdict("PARTIALLY_SUPPORTED", "PARTIAL", "COMPONENTS_MISSING")
    BY <1>2, <1>7 DEF ComponentVerdict, Clear, verdict
  <2> QED
    BY <1>4, <1>7, <2>1, Rows, ResultOfReason DEF Matches, Verdict, Reasons
<1>8. CASE Present /\ Required("IMPLIED") /\ Policy.minimum_support_level = "DIRECT"
  <2>1. verdict = Verdict("PARTIALLY_SUPPORTED", "STRONG", "BELOW_MINIMUM_SUPPORT")
    BY <1>1, <1>2, <1>3, <1>8 DEF ComponentVerdict, Clear, Present, AllRequired, verdict
  <2> QED
    BY <1>4, <1>8, <2>1, Rows, ResultOfReason DEF Matches, Verdict, Reasons
<1>9. CASE Present /\ Required("IMPLIED") /\ Policy.minimum_support_level = "STRONG"
  <2>1. verdict = Verdict("SUPPORTED", "STRONG", "SUPPORT_MET")
    BY <1>1, <1>2, <1>3, <1>9 DEF ComponentVerdict, Clear, Present, AllRequired, verdict
  <2> QED
    BY <1>4, <1>9, <2>1, Rows, ResultOfReason DEF Matches, Verdict, Reasons
<1>10. CASE Present /\ ~Required("IMPLIED")
  <2>1. AllRequired({"EXPLICIT"})
    BY <1>3, <1>10 DEF Present, Clear
  <2>2. verdict = Verdict("SUPPORTED", "DIRECT", "SUPPORT_MET")
    BY <1>2, <1>10, <2>1 DEF ComponentVerdict, Clear, Present, verdict
  <2> QED
    BY <1>4, <1>10, <2>1, <2>2, Rows, ResultOfReason
       DEF Matches, Verdict, Reasons
<1> QED
  BY <1>1, <1>5, <1>6, <1>7, <1>8, <1>9, <1>10 DEF Clear, Present

\* The verdict on any payload that passes the contract's gate.
LEMMA VerdictRow ==
    ASSUME ctx \in ContextType, Gate(ctx, payload, Unchecked)
    PROVE  Matches(StatusFor(ctx, payload))
<1> DEFINE verdict == StatusFor(ctx, payload)
           outcome == FreshnessOutcome(ctx, payload)
           states  == {State(payload, c) : c \in Policy.required}
           shape   == State(payload, SHAPE)
           reason  == payload.panel_reason
<1> SUFFICES Matches(verdict)
  OBVIOUS
<1>1. /\ payload.source.status \in EMITTED_STATUSES
      /\ payload.panel_state \in {"ASSESSED", "SKIPPED", "INVALID"}
      /\ ~Unreadable /\ ~Addressed <=> reason = ""
      /\ ~Unreadable /\ Addressed <=> reason = "SOURCE_ADDRESSES_VERIFIER"
      /\ Unreadable => reason = UNAVAILABLE_REASON[payload.source.status]
      /\ reason # "" <=> payload.panel_state = "SKIPPED"
      /\ shape \in SHAPE_STATES
      /\ \A c \in Policy.required : State(payload, c) \in COMPONENT_STATES
      /\ Policy.freshness_required => payload.findings[FRESHNESS].date \in Int
  BY GatedPayload DEF Unreadable, Addressed, READABLE, Policy
<1>2. /\ outcome = "UNDATED" <=> ~Datable
      /\ outcome = "STALE" <=> Datable /\ ~Fresh
  BY <1>1, OutcomeOfAge
<1>3. "CONTRADICTED" \in states <=> Required("CONTRADICTED")
  BY DEF Required
<1>4. verdict =
        IF reason \notin {"", "SOURCE_ADDRESSES_VERIFIER"}
            THEN Verdict("UNAVAILABLE", "UNAVAILABLE", reason)
        ELSE IF reason # ""
            THEN Verdict("INCONCLUSIVE", "INCONCLUSIVE", reason)
        ELSE IF payload.panel_state # "ASSESSED"
            THEN Verdict("INCONCLUSIVE", "INCONCLUSIVE", "MODEL_OUTPUT_INVALID")
        ELSE IF shape = "MISMATCH"
            THEN Verdict("NOT_SUPPORTED", "INSUFFICIENT", "WRONG_SOURCE_TYPE")
        ELSE IF shape = "UNCLEAR"
            THEN Verdict("INCONCLUSIVE", "INSUFFICIENT", "SOURCE_TYPE_UNCLEAR")
        ELSE IF "CONTRADICTED" \in states
            THEN Verdict("CONTRADICTED", "CONTRADICTED", "COMPONENT_CONTRADICTED")
        ELSE IF outcome = "UNDATED"
            THEN Verdict("INCONCLUSIVE", "INSUFFICIENT", "FRESHNESS_UNVERIFIABLE")
        ELSE IF outcome = "STALE"
            THEN Verdict("INCONCLUSIVE", "INSUFFICIENT", "EVIDENCE_STALE")
        ELSE ComponentVerdict(Policy, states)
  BY DEF StatusFor, Policy
<1>5. Policy \in PolicyType
  BY DEF ContextType, Policy
<1>6. Timely /\ ~Required("CONTRADICTED") => Matches(ComponentVerdict(Policy, states))
  BY <1>1, <1>5, ComponentRow
<1> HIDE DEF verdict, outcome, states, shape, reason
<1>7. CASE Unreadable
  <2>1. verdict = Verdict("UNAVAILABLE", "UNAVAILABLE", reason)
    BY <1>1, <1>4, <1>7
  <2>2. reason \notin Reasons
    BY <1>1, <1>7, UnavailableReasons
       DEF Unreadable, READABLE, Reasons, COMPONENT_DECIDED
  <2> QED BY <1>7, <2>1, <2>2 DEF Matches, Verdict
<1>8. CASE ~Unreadable /\ Addressed
  <2>1. verdict = Verdict("INCONCLUSIVE", "INCONCLUSIVE", "SOURCE_ADDRESSES_VERIFIER")
    BY <1>1, <1>4, <1>8
  <2> QED
    BY <1>8, <2>1, Rows, ResultOfReason
       DEF Matches, Verdict, Reasons, INCONCLUSIVE_REASONS
<1>9. CASE ~Unreadable /\ ~Addressed /\ Unusable
  <2>1. verdict = Verdict("INCONCLUSIVE", "INCONCLUSIVE", "MODEL_OUTPUT_INVALID")
    BY <1>1, <1>4, <1>9 DEF Unusable
  <2> QED
    BY <1>9, <2>1, Rows, ResultOfReason
       DEF Matches, Verdict, Reasons, INCONCLUSIVE_REASONS
<1>10. CASE Read
  <2>1. /\ ~Unreadable /\ reason = "" /\ payload.panel_state = "ASSESSED"
        /\ RightSource <=> shape = "MATCHES"
    BY <1>1, <1>10 DEF Read, RightSource, Unusable, shape
  <2>2. CASE shape = "MISMATCH"
    <3>1. verdict = Verdict("NOT_SUPPORTED", "INSUFFICIENT", "WRONG_SOURCE_TYPE")
      BY <1>4, <2>1, <2>2
    <3> QED
      BY <1>10, <2>1, <2>2, <3>1, Rows, ResultOfReason
         DEF Matches, Verdict, Reasons, shape
  <2>3. CASE shape = "UNCLEAR"
    <3>1. verdict = Verdict("INCONCLUSIVE", "INSUFFICIENT", "SOURCE_TYPE_UNCLEAR")
      BY <1>4, <2>1, <2>3
    <3> QED
      BY <1>10, <2>1, <2>3, <3>1, Rows, ResultOfReason
         DEF Matches, Verdict, Reasons, INCONCLUSIVE_REASONS, shape
  <2>4. CASE RightSource /\ Required("CONTRADICTED")
    <3>1. verdict = Verdict("CONTRADICTED", "CONTRADICTED", "COMPONENT_CONTRADICTED")
      BY <1>3, <1>4, <2>1, <2>4
    <3> QED
      BY <2>1, <2>4, <3>1, Rows, ResultOfReason DEF Matches, Verdict, Reasons
  <2>5. CASE Consistent /\ ~Datable
    <3>1. verdict = Verdict("INCONCLUSIVE", "INSUFFICIENT", "FRESHNESS_UNVERIFIABLE")
      BY <1>2, <1>3, <1>4, <2>1, <2>5 DEF Consistent
    <3> QED
      BY <2>1, <2>5, <3>1, Rows, ResultOfReason
         DEF Matches, Verdict, Reasons, INCONCLUSIVE_REASONS
  <2>6. CASE Consistent /\ Datable /\ ~Fresh
    <3>1. verdict = Verdict("INCONCLUSIVE", "INSUFFICIENT", "EVIDENCE_STALE")
      BY <1>2, <1>3, <1>4, <2>1, <2>6 DEF Consistent
    <3> QED
      BY <2>1, <2>6, <3>1, Rows, ResultOfReason
         DEF Matches, Verdict, Reasons, INCONCLUSIVE_REASONS
  <2>7. CASE Timely
    <3>1. verdict = ComponentVerdict(Policy, states) /\ ~Required("CONTRADICTED")
      BY <1>2, <1>3, <1>4, <2>1, <2>7 DEF Timely, Consistent
    <3> QED BY <1>6, <2>7, <3>1
  <2> QED
    BY <1>1, <2>1, <2>2, <2>3, <2>4, <2>5, <2>6, <2>7
       DEF SHAPE_STATES, Consistent, Timely
<1> QED BY <1>7, <1>8, <1>9, <1>10 DEF Read

(* For every payload a node can derive, the verdict's reason is the one    *)
(* row of the table that describes the reading, its final result is that   *)
(* row's, and only an unreadable source is UNAVAILABLE.  The table is that *)
(* of docs/EVIDENCE_POLICY.md except that a date of up to Ahead in the     *)
(* future is usable in it, as _freshness has it and the document has not.  *)
THEOREM VerdictIsTheTable == Spec => []VerdictMatchesTable
<1>1. PayloadIsDerived /\ HonestPayloadPasses => VerdictMatchesTable
  <2> SUFFICES ASSUME PayloadIsDerived, HonestPayloadPasses, Derived
               PROVE  VerdictMatchesTable
    BY DEF VerdictMatchesTable
  <2> DEFINE verdict == StatusFor(ctx, payload)
  <2>1. ctx \in ContextType /\ Gate(ctx, payload, Unchecked)
    BY DEF PayloadIsDerived, HonestPayloadPasses
  <2>2. Matches(verdict)
    BY <2>1, VerdictRow
  <2>3. Policy.required # {}
    BY <2>1 DEF ContextType, PolicyType, Policy
  <2> HIDE DEF verdict
  <2>4. \A reason \in Reasons : Table[reason] <=> verdict.reason_code = reason
    BY <2>2, <2>3, RowsExclude DEF Matches
  <2>5. /\ Unreadable <=> verdict.final_result = "UNAVAILABLE"
        /\ verdict.final_result = FinalResultOf(verdict.reason_code)
        /\ verdict.support_level = "DIRECT"
              => AllRequired({"EXPLICIT"}) /\ verdict.final_result = "SUPPORTED"
    BY <2>2, ResultOfReason DEF Matches
  <2> QED BY <2>4, <2>5, Rows DEF VerdictMatchesTable, verdict
<1> QED BY <1>1, DerivedThroughout, HonestLeaderIsNotRefused, PTL

\* What the rows of the table leave of a reading that supports the claim.
LEMMA SupportedReading ==
    ASSUME ctx \in ContextType, Gate(ctx, payload, Unchecked),
           StatusFor(ctx, payload).final_result = "SUPPORTED"
    PROVE  /\ payload.markers = {} /\ payload.panel_state = "ASSESSED"
           /\ State(payload, SHAPE) = "MATCHES"
           /\ \A c \in Policy.required :
                 State(payload, c) \in {"EXPLICIT", "IMPLIED"}
           /\ Datable /\ Fresh
<1> DEFINE verdict == StatusFor(ctx, payload)
<1>1. Matches(verdict) /\ verdict.final_result = "SUPPORTED"
  BY VerdictRow
<1> HIDE DEF verdict
<1>2. verdict.reason_code = "SUPPORT_MET"
  BY <1>1, ResultOfReason DEF Matches, Reasons, INCONCLUSIVE_REASONS
<1>3. Present
  BY <1>1, <1>2, Rows DEF Matches
<1>4. /\ payload.panel_state \in {"ASSESSED", "SKIPPED", "INVALID"}
      /\ (~Unreadable /\ payload.markers = {}) <=> payload.panel_reason = ""
      /\ payload.panel_reason # "" <=> payload.panel_state = "SKIPPED"
      /\ \A c \in Policy.required : State(payload, c) \in COMPONENT_STATES
  BY GatedPayload DEF Unreadable, READABLE, Policy
<1>5. Read /\ RightSource /\ Consistent /\ Timely /\ Clear
  BY <1>3 DEF Present, Clear, Timely, Consistent, RightSource
<1>6. payload.markers = {} /\ payload.panel_state = "ASSESSED"
  BY <1>4, <1>5 DEF Read, Addressed, Unusable
<1>7. ASSUME NEW c \in Policy.required
      PROVE  State(payload, c) \in {"EXPLICIT", "IMPLIED"}
  BY <1>3, <1>4, <1>5 DEF Present, Clear, Consistent, Required, COMPONENT_STATES
<1> QED BY <1>5, <1>6, <1>7 DEF RightSource, Timely

(* A reading that supports the claim shows it: every required component,   *)
(* the kind of source and a date that is not too old and at most Ahead of  *)
(* the transaction are each backed by a passage of the text this node      *)
(* retrieved, and no marker was in it.                                     *)
THEOREM SupportAlwaysShown == Spec => []SupportIsShown
<1>1. PayloadIsDerived /\ HonestPayloadPasses => SupportIsShown
  <2> SUFFICES ASSUME PayloadIsDerived, HonestPayloadPasses, Derived,
                      StatusFor(ctx, payload).final_result = "SUPPORTED"
               PROVE  SupportIsShown
    BY DEF SupportIsShown
  <2> DEFINE text == TextSeen(source)
             shown(s) == payload.findings[s].quotes \cap text
  <2>1. /\ ctx \in ContextType /\ source \in SourceType
        /\ payload = NodePayload(ctx, source, answer)
        /\ Gate(ctx, payload, text) /\ Gate(ctx, payload, Unchecked)
    BY DEF PayloadIsDerived, HonestPayloadPasses, Derived
  <2> HIDE DEF text
  <2>2. /\ payload.markers = {} /\ payload.panel_state = "ASSESSED"
        /\ State(payload, SHAPE) = "MATCHES"
        /\ \A c \in Policy.required :
              State(payload, c) \in {"EXPLICIT", "IMPLIED"}
        /\ Datable /\ Fresh
    BY <2>1, SupportedReading
  <2>3. MarkersSeen(source) = {}
    BY <2>1, <2>2, PayloadParts
  <2>4. /\ Policy.required \subseteq Components
        /\ Policy.required \cup {SHAPE} \subseteq Subjects(ctx.policy)
        /\ Policy.freshness_required => FRESHNESS \in Subjects(ctx.policy)
        /\ Policy.max_age \in Nat /\ ctx.now \in Nat
    BY <2>1 DEF ContextType, PolicyType, Policy, Subjects
  <2>5. ASSUME NEW s \in Subjects(ctx.policy)
        PROVE  /\ payload.findings[s].quotes \subseteq text
               /\ SupportMet(s, payload.findings[s])
    BY <2>1, <2>2 DEF Gate, ValidFinding, Grounded
  <2>6. ASSUME NEW s \in Policy.required \cup {SHAPE}
        PROVE  shown(s) # {}
    <3>1. s # FRESHNESS
      BY <2>4, ComponentsAssumption DEF SHAPE, FRESHNESS
    <3>2. payload.findings[s].state \in {"MATCHES", "EXPLICIT", "IMPLIED"}
      BY <2>2 DEF State
    <3>3. payload.findings[s].quotes # {} /\ payload.findings[s].quotes \subseteq text
      BY <2>4, <2>5, <3>1, <3>2 DEF SupportMet
    <3> QED BY <3>3
  <2>7. ASSUME Policy.freshness_required
        PROVE  \E q \in shown(FRESHNESS) :
                  /\ payload.findings[FRESHNESS].date \in DatesIn[q]
                  /\ payload.findings[FRESHNESS].date
                        \in (ctx.now - Policy.max_age)..(ctx.now + Ahead)
    <3> DEFINE d == payload.findings[FRESHNESS].date
    <3>1. Dated /\ ctx.now - d >= -Ahead /\ ctx.now - d <= Policy.max_age
      BY <2>2, <2>7 DEF Datable, Fresh, Age
    <3>2. PICK q \in payload.findings[FRESHNESS].quotes : d \in DatesIn[q]
      BY <2>4, <2>5, <2>7, <3>1 DEF SupportMet, Dated, State
    <3>3. q \in text /\ q \in Passages
      BY <2>1, <2>4, <2>5, <2>7, TextType DEF text
    <3>4. d \in Nat
      BY <3>2, <3>3, DatesAssumption
    <3>5. d \in (ctx.now - Policy.max_age)..(ctx.now + Ahead)
      BY <2>4, <3>1, <3>4 DEF Ahead, Day
    <3> QED BY <3>2, <3>3, <3>5
  <2> QED BY <2>3, <2>6, <2>7 DEF SupportIsShown, text
<1> QED BY <1>1, DerivedThroughout, HonestLeaderIsNotRefused, PTL
=============================================================================
