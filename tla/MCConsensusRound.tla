-------------------------- MODULE MCConsensusRound --------------------------
(* ConsensusRound for TLC: a page, an edited version of it that shares one *)
(* passage, and two answers that it is not found.  Times are half days.    *)
EXTENDS ConsensusRound

CONSTANTS n1, n2, n3, statement, notice, correction, page, edited, c1, c2,
          other

MCDatesIn == [q \in Passages |-> IF q = statement THEN {} ELSE {8}]
MCTextOf == [b \in Bodies |-> IF b = edited THEN {statement, correction}
                                            ELSE {statement, notice}]
MCMarkersOf == [b \in Bodies |-> {}]

Asked(freshness_required, required, stability) ==
    [policy |-> [freshness_required |-> freshness_required, required |-> required,
                 max_age |-> 2, minimum_support_level |-> "STRONG"],
     stability |-> stability, now |-> 10]

MCContexts ==
    {Asked(FALSE, {c1, c2}, s) : s \in {"STABLE", "DYNAMIC"}}
    \cup {Asked(TRUE, {c1}, s) : s \in {"STABLE", "DYNAMIC"}}

Retrieved(b) == [status |-> "RETRIEVED", http_status |-> 200, body |-> b]
NotFound(blank) == [status |-> "NOT_FOUND", http_status |-> 404, body |-> blank]
TwoPages == {Retrieved(page), Retrieved(edited), NotFound(NoBody), NotFound(other)}

Says(state, quotes) == [state |-> state, quotes |-> quotes, date |-> NoDate]

\* An answer with one reading of each component, all quoting the same.
Answer(policy, first, second, quotes, date) ==
    [s \in Subjects(policy) |->
        CASE s = SHAPE -> Says("MATCHES", {statement})
          [] s = FRESHNESS -> [state |-> "DATED", quotes |-> quotes, date |-> date]
          [] s = c1 -> Says(first, quotes)
          [] s = c2 -> Says(second, quotes)]

\* Readings that differ in what matters, in what does not, and in the quote.
Split(policy) ==
    {Answer(policy, "EXPLICIT", "IMPLIED", {statement}, 8),
     Answer(policy, "IMPLIED", "EXPLICIT", {statement}, 8),
     Answer(policy, "EXPLICIT", "EXPLICIT", {notice}, 8),
     Answer(policy, "CONTRADICTED", "EXPLICIT", {statement, correction}, 8),
     Answer(policy, "IMPLIED", "ABSENT", {notice}, 8),
     PanelInvalid}

\* What an honest node might have returned, and the same with findings that
\* were never normalised, or with the panel skipped.
MCPayloads(asked) ==
    LET derived == {NodePayload(asked, s, a) :
                       s \in TwoPages, a \in Split(asked.policy)}
    IN  derived
        \cup {[p EXCEPT !.findings =
                  Answer(asked.policy, "EXPLICIT", "IMPLIED", q, d)] :
                 p \in derived, q \in {{statement, correction}, {}}, d \in {8, 10}}
        \cup {[p EXCEPT !.panel_state = "SKIPPED"] : p \in derived}

=============================================================================
