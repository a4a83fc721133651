--------------------------- MODULE Verdict_proofs ---------------------------
(***************************************************************************)
(* What every reading, gate and receipt of Verdict satisfies, for all      *)
(* components, passages, bodies, policies and answers.  Lemmas only: the   *)
(* theorems of PanelReading and ConsensusRound rest on them.               *)
(***************************************************************************)
EXTENDS Verdict, TLAPS

\* A text is a set of passages, and an unreadable source has none.
LEMMA TextType ==
    ASSUME NEW source \in SourceType
    PROVE  /\ TextSeen(source) \subseteq Passages
           /\ MarkersSeen(source) \subseteq {"BODY", "META", "TITLE"}
           /\ ~({"BODY", "META"} \subseteq MarkersSeen(source))
           /\ source.status \notin READABLE => MarkersSeen(source) = {}
BY BodiesAssumption
   DEF TextSeen, MarkersSeen, SourceType, READABLE, UNAVAILABLE_REASON

\* A source record that was retrieved is one the gate takes.
LEMMA RetrievedIsValid ==
    ASSUME NEW source \in SourceType
    PROVE  ValidSource(source)
BY BodiesAssumption
   DEF ValidSource, SourceType, EMITTED_STATUSES, READABLE, UNAVAILABLE_REASON

\* A finding is well formed: its state is of its subject's vocabulary, it
\* quotes the text alone and shows what it must.
WellShown(f, subject, text) ==
    /\ f.state \in Vocab(subject)
    /\ Grounded(f, text)
    /\ SupportMet(subject, f)

\* The default finding is well formed, whatever the text.
LEMMA DefaultIsShown ==
    ASSUME NEW subject, NEW text
    PROVE  WellShown(DefaultFinding(subject), subject, text)
BY DEF WellShown, DefaultFinding, DefaultState, Vocab, Grounded, SupportMet,
       SHAPE, FRESHNESS, SHAPE_STATES, FRESHNESS_STATES, COMPONENT_STATES

\* Whatever a panel answers of a subject, the finding made of it is well
\* formed.
LEMMA NormalizedIsShown ==
    ASSUME NEW subject, NEW answer, NEW text
    PROVE  WellShown(NormalizeFinding(subject, answer, text), subject, text)
<1> DEFINE f == [state |-> answer.state, quotes |-> answer.quotes \cap text,
                 date |-> IF subject = FRESHNESS /\ answer.state = "DATED"
                          THEN answer.date ELSE NoDate]
<1>1. Grounded(f, text)
  BY DEF Grounded
<1>2. CASE f.state \in Vocab(subject) /\ SupportMet(subject, f)
  <2>1. NormalizeFinding(subject, answer, text) = f
    BY <1>2 DEF NormalizeFinding
  <2> QED BY <1>1, <1>2, <2>1 DEF WellShown
<1>3. CASE ~(f.state \in Vocab(subject) /\ SupportMet(subject, f))
  <2>1. NormalizeFinding(subject, answer, text) = DefaultFinding(subject)
    BY <1>3 DEF NormalizeFinding
  <2> QED BY <2>1, DefaultIsShown
<1> QED BY <1>2, <1>3

\* What a gate with a text accepts, the contract's own gate accepts.
LEMMA GateForgetsText ==
    ASSUME NEW ctx, NEW p, NEW text \in SUBSET Passages, Gate(ctx, p, text)
    PROVE  Gate(ctx, p, Unchecked)
<1>1. ASSUME NEW s \in Subjects(ctx.policy)
      PROVE  ValidFinding(p.findings[s], s, Unchecked, p.panel_state)
  BY DEF Gate, ValidFinding, Grounded, Unchecked
<1> QED BY <1>1 DEF Gate

\* No status of a failed retrieval gives a reason that is another's.
LEMMA UnavailableReasons ==
    ASSUME NEW s \in EMITTED_STATUSES, s \notin READABLE
    PROVE  UNAVAILABLE_REASON[s] \notin
              {"", "SOURCE_ADDRESSES_VERIFIER", "MODEL_OUTPUT_INVALID",
               "WRONG_SOURCE_TYPE", "SOURCE_TYPE_UNCLEAR", "EVIDENCE_STALE",
               "FRESHNESS_UNVERIFIABLE"} \cup COMPONENT_DECIDED
<1>1. s \in {"REDIRECTED", "NOT_FOUND", "FORBIDDEN", "SERVER_ERROR", "TIMEOUT",
             "INVALID_CONTENT", "UNSUPPORTED_CONTENT"}
  BY DEF EMITTED_STATUSES, UNAVAILABLE_REASON
<1>2. UNAVAILABLE_REASON[s] \in
         {"SOURCE_REDIRECTED", "SOURCE_NOT_FOUND", "SOURCE_FORBIDDEN",
          "SOURCE_SERVER_ERROR", "SOURCE_TIMEOUT", "SOURCE_INVALID_CONTENT",
          "SOURCE_UNSUPPORTED_CONTENT"}
  BY <1>1 DEF UNAVAILABLE_REASON
<1> QED BY <1>2 DEF COMPONENT_DECIDED

\* The parts of the payload a node derives.
LEMMA PayloadParts ==
    ASSUME NEW ctx, NEW source, NEW answer
    PROVE  LET p == NodePayload(ctx, source, answer) IN
           /\ p.source = source
           /\ p.markers = MarkersSeen(source)
           /\ p.panel_reason = CodeReason(source, p.markers)
           /\ p.panel_state \in {"ASSESSED", "SKIPPED", "INVALID"}
           /\ p.panel_reason # "" <=> p.panel_state = "SKIPPED"
           /\ DOMAIN p.findings = Subjects(ctx.policy)
           /\ \A s \in Subjects(ctx.policy) :
                 p.findings[s] =
                     IF p.panel_state # "ASSESSED" THEN DefaultFinding(s)
                     ELSE NormalizeFinding(s, answer[s], TextSeen(source))
BY DEF NodePayload, CodeFindings

\* An honest payload passes the gate of whoever retrieved the same source.
LEMMA HonestGate ==
    ASSUME NEW ctx, NEW source \in SourceType, NEW answer
    PROVE  Gate(ctx, NodePayload(ctx, source, answer), TextSeen(source))
<1> DEFINE p == NodePayload(ctx, source, answer)
           text == TextSeen(source)
<1>1. /\ p.source = source
      /\ p.markers = MarkersSeen(source)
      /\ p.panel_reason = CodeReason(source, p.markers)
      /\ p.panel_state \in {"ASSESSED", "SKIPPED", "INVALID"}
      /\ p.panel_reason # "" <=> p.panel_state = "SKIPPED"
      /\ DOMAIN p.findings = Subjects(ctx.policy)
      /\ \A s \in Subjects(ctx.policy) :
            p.findings[s] =
                IF p.panel_state # "ASSESSED" THEN DefaultFinding(s)
                ELSE NormalizeFinding(s, answer[s], text)
  BY PayloadParts
<1> HIDE DEF p, text
<1>2. ASSUME NEW s \in Subjects(ctx.policy)
      PROVE  ValidFinding(p.findings[s], s, text, p.panel_state)
  <2>1. CASE p.panel_state # "ASSESSED"
    <3>1. p.findings[s] = DefaultFinding(s)
      BY <1>1, <2>1
    <3> QED BY <2>1, <3>1, DefaultIsShown DEF ValidFinding, WellShown
  <2>2. CASE p.panel_state = "ASSESSED"
    <3>1. p.findings[s] = NormalizeFinding(s, answer[s], text)
      BY <1>1, <2>2
    <3> QED BY <2>2, <3>1, NormalizedIsShown DEF ValidFinding, WellShown
  <2> QED BY <2>1, <2>2
<1>3. /\ ValidSource(p.source)
      /\ p.markers # {} => p.source.status \in READABLE
      /\ ~({"BODY", "META"} \subseteq p.markers)
  BY <1>1, RetrievedIsValid, TextType
<1>4. Gate(ctx, p, text)
  BY <1>1, <1>2, <1>3 DEF Gate
<1> QED BY <1>4 DEF p, text

----------------------------------------------------------------------------
(* What a gated payload is made of *)

\* The kinds of reading a payload that passed the contract's gate falls in,
\* and the types of the fields its verdict is taken from.
LEMMA GatedPayload ==
    ASSUME NEW ctx \in ContextType, NEW p, Gate(ctx, p, Unchecked)
    PROVE  /\ p.source.status \in EMITTED_STATUSES
           /\ p.panel_state \in {"ASSESSED", "SKIPPED", "INVALID"}
           /\ (p.source.status \in READABLE /\ p.markers = {})
                 <=> p.panel_reason = ""
           /\ (p.source.status \in READABLE /\ p.markers # {})
                 <=> p.panel_reason = "SOURCE_ADDRESSES_VERIFIER"
           /\ p.source.status \notin READABLE
                 => p.panel_reason = UNAVAILABLE_REASON[p.source.status]
           /\ p.panel_reason # "" <=> p.panel_state = "SKIPPED"
           /\ State(p, SHAPE) \in SHAPE_STATES
           /\ \A c \in ctx.policy.required : State(p, c) \in COMPONENT_STATES
           /\ ctx.policy.freshness_required =>
                 /\ State(p, FRESHNESS) \in FRESHNESS_STATES
                 /\ p.findings[FRESHNESS].date \in Int
<1>1. /\ ctx.policy \in PolicyType /\ ctx.policy.required \subseteq Components
      /\ ctx.policy.required \subseteq Subjects(ctx.policy)
      /\ SHAPE \in Subjects(ctx.policy)
      /\ ctx.policy.freshness_required => FRESHNESS \in Subjects(ctx.policy)
  BY DEF ContextType, PolicyType, Subjects
<1>2. \A s \in Subjects(ctx.policy) : State(p, s) \in Vocab(s)
  BY DEF Gate, ValidFinding, State
<1>3. /\ Vocab(SHAPE) = SHAPE_STATES
      /\ Vocab(FRESHNESS) = FRESHNESS_STATES
      /\ \A c \in Components : Vocab(c) = COMPONENT_STATES
  BY ComponentsAssumption DEF Vocab, SHAPE, FRESHNESS
<1>4. /\ State(p, SHAPE) \in SHAPE_STATES
      /\ \A c \in ctx.policy.required : State(p, c) \in COMPONENT_STATES
      /\ ctx.policy.freshness_required => State(p, FRESHNESS) \in FRESHNESS_STATES
  BY <1>1, <1>2, <1>3
<1>5. ASSUME ctx.policy.freshness_required
      PROVE  p.findings[FRESHNESS].date \in Int
  <2> DEFINE f == p.findings[FRESHNESS]
  <2>1. /\ ValidFinding(f, FRESHNESS, Unchecked, p.panel_state)
        /\ f.state \in {"DATED", "UNDATED"}
    BY <1>1, <1>4, <1>5 DEF Gate, State, FRESHNESS_STATES
  <2> HIDE DEF f
  <2>2. CASE p.panel_state # "ASSESSED"
    BY <2>1, <2>2 DEF ValidFinding, DefaultFinding, NoDate, f
  <2>3. CASE p.panel_state = "ASSESSED" /\ f.state = "UNDATED"
    BY <2>1, <2>3 DEF ValidFinding, SupportMet, NoDate, f
  <2>4. CASE p.panel_state = "ASSESSED" /\ f.state = "DATED"
    <3>1. PICK q \in f.quotes : f.date \in DatesIn[q]
      BY <2>1, <2>4 DEF ValidFinding, SupportMet
    <3>2. q \in Passages
      BY <2>1, <2>4 DEF ValidFinding, Grounded, Unchecked
    <3> QED BY <3>1, <3>2, DatesAssumption DEF f
  <2> QED BY <2>1, <2>2, <2>3, <2>4 DEF Gate
<1>6. /\ p.source.status \in EMITTED_STATUSES
      /\ p.panel_state \in {"ASSESSED", "SKIPPED", "INVALID"}
      /\ p.panel_reason # "" <=> p.panel_state = "SKIPPED"
      /\ p.panel_reason = CodeReason(p.source, p.markers)
  BY DEF Gate, ValidSource
<1>7. \A s \in EMITTED_STATUSES \ READABLE :
         UNAVAILABLE_REASON[s] \notin {"", "SOURCE_ADDRESSES_VERIFIER"}
  BY UnavailableReasons
<1>8. /\ (p.source.status \in READABLE /\ p.markers = {})
            <=> p.panel_reason = ""
      /\ (p.source.status \in READABLE /\ p.markers # {})
            <=> p.panel_reason = "SOURCE_ADDRESSES_VERIFIER"
      /\ p.source.status \notin READABLE
            => p.panel_reason = UNAVAILABLE_REASON[p.source.status]
  BY <1>6, <1>7 DEF CodeReason
<1> QED BY <1>4, <1>5, <1>6, <1>8
=============================================================================
