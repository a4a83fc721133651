------------------------------ MODULE Verdict ------------------------------
(***************************************************************************)
(* What one node makes of a source and what code makes of that: the        *)
(* normalisation of a panel's answer into findings, the structural gate on *)
(* a payload, the verdict, and the receipt that is stored                  *)
(* (contracts/evidence_receipt.py, from _code_reason to _derive, and       *)
(* _receipt).  Pure operators: PanelReading runs them on one node,   *)
(* ConsensusRound on several.                                              *)
(*                                                                         *)
(* The text of a source is a set of passages; a quote is a passage.  The   *)
(* byte count, digests, title and content type of a source are one value,  *)
(* its body; of a response that is not read only the content type and the  *)
(* byte count are recorded, a blank.  Notes and wording are left out.      *)
(***************************************************************************)
EXTENDS Integers, FiniteSets

CONSTANTS
    Components,   \* component ids of the policy
    Passages,     \* what can be quoted
    DatesIn,      \* DatesIn[q]: the dates a passage carries in full
    Bodies,       \* response bodies, by their bytes
    Blanks,       \* records of responses that are not read
    NoBody,       \* the blank of no content type and no byte
    TextOf,       \* TextOf[b]: the passages of the normalised text
    MarkersOf     \* MarkersOf[b]: where the body addresses the verifier

Day == 2          \* times are in half days; a stated date is a midnight
NoDate == -1

ASSUME DatesAssumption ==
    DatesIn \in [Passages -> SUBSET Nat]
ASSUME BodiesAssumption ==
    /\ NoBody \in Blanks /\ Blanks \cap Bodies = {}
    /\ TextOf \in [Bodies -> SUBSET Passages]
    /\ MarkersOf \in [Bodies -> SUBSET {"BODY", "META", "TITLE"}]
    \* _markers looks for META only when the visible text has no hit
    /\ \A b \in Bodies : ~({"BODY", "META"} \subseteq MarkersOf[b])

READABLE == {"RETRIEVED", "PARTIAL"}
UNAVAILABLE_REASON ==
    [REDIRECTED |-> "SOURCE_REDIRECTED", NOT_FOUND |-> "SOURCE_NOT_FOUND",
     FORBIDDEN |-> "SOURCE_FORBIDDEN", SERVER_ERROR |-> "SOURCE_SERVER_ERROR",
     TIMEOUT |-> "SOURCE_TIMEOUT", INVALID_CONTENT |-> "SOURCE_INVALID_CONTENT",
     UNSUPPORTED_CONTENT |-> "SOURCE_UNSUPPORTED_CONTENT"]
EMITTED_STATUSES == READABLE \cup DOMAIN UNAVAILABLE_REASON

SHAPE == "SOURCE_SHAPE"
FRESHNESS == "FRESHNESS"

\* _valid_ident refuses the built-in subjects as component ids.
ASSUME ComponentsAssumption == {SHAPE, FRESHNESS} \cap Components = {}

SHAPE_STATES == {"MATCHES", "MISMATCH", "UNCLEAR"}
FRESHNESS_STATES == {"DATED", "UNDATED"}
COMPONENT_STATES == {"EXPLICIT", "IMPLIED", "ABSENT", "CONTRADICTED", "UNCLEAR"}

\* What _parse_policy admits of a policy: some component is required.
PolicyType ==
    [freshness_required : BOOLEAN, required : (SUBSET Components) \ {{}},
     max_age : Nat, minimum_support_level : {"STRONG", "DIRECT"}]
ContextType ==
    [policy : PolicyType, stability : {"STABLE", "DYNAMIC"}, now : Nat]

\* What _fetch_source returns.
SourceType ==
    [status : READABLE, http_status : 200..299, body : Bodies]
        \cup [status : DOMAIN UNAVAILABLE_REASON, http_status : 0..999,
              body : Blanks]

\* The reasons reached at the component step.
COMPONENT_DECIDED ==
    {"COMPONENT_CONTRADICTED", "COMPONENT_UNCLEAR", "EVIDENCE_ABSENT",
     "COMPONENTS_MISSING", "BELOW_MINIMUM_SUPPORT", "SUPPORT_MET"}

----------------------------------------------------------------------------
(* Findings *)

Subjects(policy) ==
    {SHAPE} \cup Components
        \cup (IF policy.freshness_required THEN {FRESHNESS} ELSE {})

Vocab(subject) == CASE subject = SHAPE     -> SHAPE_STATES
                    [] subject = FRESHNESS -> FRESHNESS_STATES
                    [] OTHER               -> COMPONENT_STATES

DefaultState(subject) == IF subject = FRESHNESS THEN "UNDATED" ELSE "UNCLEAR"

DefaultFinding(subject) ==
    [state |-> DefaultState(subject), quotes |-> {}, date |-> NoDate]

CodeFindings(policy) == [s \in Subjects(policy) |-> DefaultFinding(s)]

\* What a finding must show: a quote when it bears on the claim, and the
\* stated date inside one quote; only FRESHNESS carries a date.
SupportMet(subject, f) ==
    IF subject = FRESHNESS
    THEN IF f.state = "DATED" THEN \E q \in f.quotes : f.date \in DatesIn[q]
                              ELSE f.date = NoDate
    ELSE /\ f.date = NoDate
         /\ f.state \in {"MATCHES", "EXPLICIT", "IMPLIED", "CONTRADICTED"}
                => f.quotes # {}

\* Reduces the panel's answer for a subject to a finding: quotes that are
\* not in this node's text are dropped, a date survives only on DATED, and
\* an answer whose support rule is not met falls back to the default.
Fault_DateKept(subject, answer, text) ==
    LET f == [state |-> answer.state, quotes |-> answer.quotes \cap text,
              date |-> answer.date]
    IN  IF answer.state \in Vocab(subject)
           /\ SupportMet(subject, [f EXCEPT !.date =
                  IF answer.state = "DATED" THEN @ ELSE NoDate])
        THEN f ELSE DefaultFinding(subject)

NormalizeFinding(subject, answer, text) ==
    LET f == [state |-> answer.state, quotes |-> answer.quotes \cap text,
              date |-> IF subject = FRESHNESS /\ answer.state = "DATED"
                       THEN answer.date ELSE NoDate]
    IN  IF answer.state \in Vocab(subject) /\ SupportMet(subject, f)
        THEN f ELSE DefaultFinding(subject)

\* Decided in code: the source is unavailable or addresses the verifier.
CodeReason(source, markers) ==
    IF source.status \notin READABLE THEN UNAVAILABLE_REASON[source.status]
    ELSE IF markers # {} THEN "SOURCE_ADDRESSES_VERIFIER" ELSE ""

TextSeen(source) == IF source.body \in Bodies THEN TextOf[source.body] ELSE {}
MarkersSeen(source) ==
    IF source.body \in Bodies THEN MarkersOf[source.body] ELSE {}

\* One node's derivation from the source it retrieved and its panel's answer.
PanelInvalid == <<>>   \* the model's output is not one JSON object

NodePayload(ctx, source, answer) ==
    LET markers == MarkersSeen(source)
        reason  == CodeReason(source, markers)
        panel_state == IF reason # "" THEN "SKIPPED"
                       ELSE IF answer = PanelInvalid THEN "INVALID"
                       ELSE "ASSESSED"
    IN  [source |-> source, markers |-> markers, panel_state |-> panel_state,
         panel_reason |-> reason,
         findings |->
             IF panel_state # "ASSESSED" THEN CodeFindings(ctx.policy)
             ELSE [s \in Subjects(ctx.policy) |->
                      NormalizeFinding(s, answer[s], TextSeen(source))]]

----------------------------------------------------------------------------
(* The structural gate *)

Unchecked == Passages   \* the contract's own gate has no text to check against

ValidSource(s) ==
    /\ DOMAIN s = {"status", "http_status", "body"}
    /\ s.status \in EMITTED_STATUSES /\ s.http_status \in 0..999
    /\ s.body \in IF s.status \in READABLE THEN Bodies ELSE Blanks
    /\ s.status \in READABLE => s.http_status \in 200..299

Fault_OneQuoteGrounded(f, text) == f.quotes # {} => f.quotes \cap text # {}

Grounded(f, text) == f.quotes \subseteq text

Fault_EveryFindingQuotes(f, subject, text, panel_state) ==
    /\ f.state \in Vocab(subject)
    /\ IF panel_state # "ASSESSED" THEN f = DefaultFinding(subject)
       ELSE Grounded(f, text) /\ (f.quotes # {} \/ f.state = "ABSENT")

ValidFinding(f, subject, text, panel_state) ==
    /\ f.state \in Vocab(subject)
    /\ IF panel_state # "ASSESSED" THEN f = DefaultFinding(subject)
       ELSE Grounded(f, text) /\ SupportMet(subject, f)

\* _parse_payload: what a validator (with its own text) and the contract
\* (without) accept as a payload.
Gate(ctx, p, text) ==
    /\ ValidSource(p.source)
    /\ p.markers # {} => p.source.status \in READABLE
    /\ ~({"BODY", "META"} \subseteq p.markers)
    /\ p.panel_reason = CodeReason(p.source, p.markers)
    /\ (p.panel_reason # "") <=> (p.panel_state = "SKIPPED")
    /\ p.panel_state \in {"ASSESSED", "SKIPPED", "INVALID"}
    /\ DOMAIN p.findings = Subjects(ctx.policy)
    /\ \A s \in Subjects(ctx.policy) :
          ValidFinding(p.findings[s], s, text, p.panel_state)

----------------------------------------------------------------------------
(* The verdict *)

State(p, subject) == p.findings[subject].state

\* The date the source gives, aged against the transaction time.
Fault_FutureDateIsCurrent(ctx, p) ==
    IF ~ctx.policy.freshness_required THEN "NOT_REQUIRED"
    ELSE IF State(p, FRESHNESS) # "DATED" THEN "UNDATED"
    ELSE IF ctx.now - p.findings[FRESHNESS].date > ctx.policy.max_age
         THEN "STALE" ELSE "CURRENT"

FreshnessOutcome(ctx, p) ==
    IF ~ctx.policy.freshness_required THEN "NOT_REQUIRED"
    ELSE IF State(p, FRESHNESS) # "DATED" THEN "UNDATED"
    ELSE IF p.findings[FRESHNESS].date > ctx.now + Day THEN "UNDATED"
    ELSE IF ctx.now - p.findings[FRESHNESS].date > ctx.policy.max_age
         THEN "STALE" ELSE "CURRENT"

Collapse(state) == IF state \in {"EXPLICIT", "IMPLIED"} THEN "PRESENT" ELSE state

Verdict(final_result, support_level, reason_code) ==
    [final_result |-> final_result, support_level |-> support_level,
     reason_code |-> reason_code]

\* The states of the required components decide, once the source is right.
Fault_AbsentBeforeUnclear(policy, states) ==
    IF states \ {"UNCLEAR"} = {"ABSENT"}
        THEN Verdict("NOT_SUPPORTED", "INSUFFICIENT", "EVIDENCE_ABSENT")
    ELSE IF "UNCLEAR" \in states
        THEN Verdict("INCONCLUSIVE", "INSUFFICIENT", "COMPONENT_UNCLEAR")
    ELSE Verdict("SUPPORTED", "STRONG", "SUPPORT_MET")

ComponentVerdict(policy, states) ==
    LET level == IF states = {"EXPLICIT"} THEN "DIRECT" ELSE "STRONG" IN
    IF "UNCLEAR" \in states
        THEN Verdict("INCONCLUSIVE", "INSUFFICIENT", "COMPONENT_UNCLEAR")
    ELSE IF states = {"ABSENT"}
        THEN Verdict("NOT_SUPPORTED", "INSUFFICIENT", "EVIDENCE_ABSENT")
    ELSE IF "ABSENT" \in states
        THEN Verdict("PARTIALLY_SUPPORTED", "PARTIAL", "COMPONENTS_MISSING")
    ELSE IF level = "STRONG" /\ policy.minimum_support_level = "DIRECT"
        THEN Verdict("PARTIALLY_SUPPORTED", "STRONG", "BELOW_MINIMUM_SUPPORT")
    ELSE Verdict("SUPPORTED", level, "SUPPORT_MET")

\* _status_for, in precedence order.
StatusFor(ctx, p) ==
    LET shape   == State(p, SHAPE)
        states  == {State(p, c) : c \in ctx.policy.required}
        outcome == FreshnessOutcome(ctx, p)
    IN  IF p.panel_reason \notin {"", "SOURCE_ADDRESSES_VERIFIER"}
            THEN Verdict("UNAVAILABLE", "UNAVAILABLE", p.panel_reason)
        ELSE IF p.panel_reason # ""
            THEN Verdict("INCONCLUSIVE", "INCONCLUSIVE", p.panel_reason)
        ELSE IF p.panel_state # "ASSESSED"
            THEN Verdict("INCONCLUSIVE", "INCONCLUSIVE", "MODEL_OUTPUT_INVALID")
        ELSE IF shape = "MISMATCH"
            THEN Verdict("NOT_SUPPORTED", "INSUFFICIENT", "WRONG_SOURCE_TYPE")
        ELSE IF shape = "UNCLEAR"
            THEN Verdict("INCONCLUSIVE", "INSUFFICIENT", "SOURCE_TYPE_UNCLEAR")
        ELSE IF "CONTRADICTED" \in states
            THEN Verdict("CONTRADICTED", "CONTRADICTED", "COMPONENT_CONTRADICTED")
        ELSE IF outcome = "UNDATED"
            THEN Verdict("INCONCLUSIVE", "INSUFFICIENT", "FRESHNESS_UNVERIFIABLE")
        ELSE IF outcome = "STALE"
            THEN Verdict("INCONCLUSIVE", "INSUFFICIENT", "EVIDENCE_STALE")
        ELSE ComponentVerdict(ctx.policy, states)

----------------------------------------------------------------------------
(* The consequence validators compare, and the receipt *)

AllCompared(reason) == reason \in COMPONENT_DECIDED \ {"COMPONENT_CONTRADICTED"}

FreshnessDecides(reason) ==
    reason \in {"EVIDENCE_STALE", "FRESHNESS_UNVERIFIABLE"} \/ AllCompared(reason)

\* Readings of the required components, as validators compare them.
RequiredReadings(ctx, p) ==
    [c \in ctx.policy.required |-> Collapse(State(p, c))]

OutcomeOf(ctx, p) ==
    IF p.panel_state = "ASSESSED" THEN FreshnessOutcome(ctx, p)
    ELSE IF ctx.policy.freshness_required THEN "UNDATED" ELSE "NOT_REQUIRED"

\* The date that goes with the outcome, when the panel gave one.
StatedDate(ctx, p) ==
    IF ctx.policy.freshness_required THEN p.findings[FRESHNESS].date ELSE NoDate

\* _derive's consequence.  The digest of a response that is not read is empty.
Consequence(ctx, p) ==
    LET verdict == StatusFor(ctx, p)
        reason  == verdict.reason_code
    IN  [verdict |-> verdict, source_status |-> p.source.status,
         content |-> IF ctx.stability = "STABLE" /\ p.source.body \in Bodies
                     THEN p.source.body ELSE NoBody,
         required_components |->
             IF AllCompared(reason) THEN RequiredReadings(ctx, p) ELSE <<>>,
         evidence_found |-> AllCompared(reason)
             /\ \E c \in ctx.policy.required : Collapse(State(p, c)) = "PRESENT",
         freshness |-> IF FreshnessDecides(reason) THEN OutcomeOf(ctx, p) ELSE ""]

\* _evidence_difference: what every node retrieved must agree, where it is
\* recorded; a DYNAMIC source may differ in its content.
SameEvidence(ctx, own, theirs) ==
    /\ own.panel_state = theirs.panel_state
    /\ own.panel_reason = theirs.panel_reason
    /\ own.markers = theirs.markers
    /\ own.source.status = theirs.source.status
    /\ own.source.http_status = theirs.source.http_status
    /\ ctx.stability = "STABLE" => own.source.body = theirs.source.body

NotStored == [state |-> "", quotes |-> {}]

\* _receipt: which readings of a ratified payload the receipt keeps.
StoredComponents(ctx, p, reason) ==
    [c \in Components |->
        LET kept == IF reason = "COMPONENT_CONTRADICTED"
                    THEN c \in ctx.policy.required /\ State(p, c) = "CONTRADICTED"
                    ELSE reason \in COMPONENT_DECIDED
        IN  [compared |-> AllCompared(reason) /\ c \in ctx.policy.required,
             reading |-> IF kept THEN [state |-> State(p, c),
                                       quotes |-> p.findings[c].quotes]
                                 ELSE NotStored]]

\* _excerpt: the first quote of every required component found or contradicted.
Excerpt(ctx, p) ==
    {CHOOSE q \in p.findings[c].quotes : TRUE :
        c \in {c \in ctx.policy.required :
                 /\ State(p, c) \in {"EXPLICIT", "IMPLIED", "CONTRADICTED"}
                 /\ p.findings[c].quotes # {}}}

Fault_DynamicContentStored(ctx, source) == source

StoredSource(ctx, source) ==
    IF ctx.stability = "DYNAMIC" THEN [source EXCEPT !.body = NoBody] ELSE source

Receipt(ctx, p) ==
    LET consequence == Consequence(ctx, p)
        reason == consequence.verdict.reason_code
    IN  [source |-> StoredSource(ctx, p.source), markers |-> p.markers,
         panel_state |-> p.panel_state, verdict |-> consequence.verdict,
         source_shape |-> [state |-> State(p, SHAPE),
                           quotes |-> p.findings[SHAPE].quotes],
         components |-> StoredComponents(ctx, p, reason),
         freshness |-> consequence.freshness,
         stated_date |-> IF consequence.freshness = "" THEN NoDate
                         ELSE StatedDate(ctx, p),
         relevant_excerpt |-> IF reason \in COMPONENT_DECIDED
                              THEN Excerpt(ctx, p) ELSE {},
         evidence_found |-> consequence.evidence_found]
=============================================================================
