--------------------------- MODULE MCPanelReading ---------------------------
(* PanelReading for TLC.  Times are in half days, so that a transaction    *)
(* may fall at a midnight or between two; the stated dates lie on both     *)
(* sides of, and on, the two limits of freshness.                          *)
EXTENDS PanelReading

CONSTANTS title, notice, absent, clean, marked, optional, binary

Dates == {6, 8, 10, 12, 14}

\* The notice carries every date; the passage absent is on no page.
MCDatesIn == [q \in Passages |-> IF q = title THEN {} ELSE Dates]
MCTextOf == [b \in Bodies |-> {title, notice}]
MCMarkersOf == [b \in Bodies |-> IF b = marked THEN {"META"} ELSE {}]

Policies(required, ages, levels) ==
    [freshness_required : BOOLEAN, required : required, max_age : ages,
     minimum_support_level : levels]
ContextsOf(policies) ==
    [policy : policies, stability : {"STABLE"}, now : {10, 11}]

Readable == [status : READABLE, http_status : {200}, body : Bodies]
Failed == [status : {"UNSUPPORTED_CONTENT"}, http_status : {200}, body : {binary}]
              \cup [status : {"TIMEOUT"}, http_status : {0}, body : {NoBody}]
AllSources == Readable \cup Failed

----------------------------------------------------------------------------
(* Table: well-formed answers, so that every state of every subject and    *)
(* every age meets every other.                                            *)

TableContexts ==
    ContextsOf(Policies({Components, Components \ {optional}}, {2, 3},
                        {"STRONG", "DIRECT"}))

\* Chosen subject by subject: a reading of each component, a kind of source
\* and a date.
WellFormed(policy) ==
    LET say(state, date) == [state |-> state, quotes |-> {notice}, date |-> date]
    IN  {[s \in Subjects(policy) |->
            IF s = SHAPE THEN say(shape, NoDate)
            ELSE IF s = FRESHNESS
                 THEN say(IF date = NoDate THEN "UNDATED" ELSE "DATED", date)
                 ELSE say(states[s], NoDate)] :
            shape \in SHAPE_STATES, date \in Dates \cup {NoDate},
            states \in [Components -> COMPONENT_STATES]}
        \cup {PanelInvalid}

----------------------------------------------------------------------------
(* Panel: answers as a model may give them - a state of another subject or *)
(* none, a quote that is not in the source, a date where none belongs.     *)

PanelContexts == ContextsOf(Policies({Components}, {2}, {"STRONG"}))

Loose(states, dates) ==
    [state : states, quotes : SUBSET {notice, absent}, date : dates]

AnyAnswer(policy) ==
    {[s \in Subjects(policy) |->
        IF s = SHAPE THEN shape ELSE IF s = FRESHNESS THEN fresh ELSE component] :
        shape \in Loose({"MATCHES", "UNCLEAR", "YES"}, {NoDate, 10}),
        fresh \in Loose({"DATED", "UNDATED", "EXPLICIT"}, {NoDate, 8, 14}),
        component \in Loose({"EXPLICIT", "ABSENT", "CONTRADICTED", "DATED"},
                            {NoDate, 10})}
    \cup {PanelInvalid}

\* Every policy meets the well-formed answers, some also the others.
MCContexts == TableContexts \cup PanelContexts
MCAnswers(policy) ==
    WellFormed(policy)
        \cup (IF policy \in {c.policy : c \in PanelContexts}
              THEN AnyAnswer(policy) ELSE {})
=============================================================================
