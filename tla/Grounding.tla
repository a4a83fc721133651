----------------------------- MODULE Grounding -----------------------------
(***************************************************************************)
(* When a quote counts as evidence: contracts/evidence_receipt.py, quote   *)
(* grounding, as one node keeps a quote of its panel (_normalize_finding,  *)
(* _ground_quote) and as the gate of every node judges it (_valid_finding).*)
(*                                                                         *)
(* Texts are sequences of symbols: letters (whatever a word is made of,    *)
(* case-folded), a space, a comma and an ellipsis, in either spelling.     *)
(* The text that a panel is shown has no line breaks, and a break in a     *)
(* quote, a third separator, is left out.  A round has one source, so      *)
(* which item a quote cites is left out too.                               *)
(***************************************************************************)
EXTENDS Positions, FiniteSetsExt

CONSTANTS Letters, QUOTE_MIN, QUOTE_CAP, MAX_QUOTES, NOTE_CAP

ASSUME QuoteCapsAssumption ==
    /\ QUOTE_MIN \in Nat \ {0} /\ QUOTE_CAP \in Nat /\ QUOTE_MIN <= QUOTE_CAP
    /\ MAX_QUOTES \in Nat /\ NOTE_CAP \in Nat

Space == " "
Comma == ","
Ellipsis == "..."
Control == "control"

ASSUME LettersAssumption == Letters \cap {Space, Comma, Ellipsis, Control} = {}

\* s[:cap]
UpTo(s, cap) == SubSeq(s, 1, Min({Len(s), cap}))

\* str.strip
Strip(s) ==
    LET inked == {p \in DOMAIN s : s[p] # Space}
    IN  IF inked = {} THEN <<>> ELSE SubSeq(s, Min(inked), Max(inked))

\* " ".join(s.split()): a space is kept between two symbols that are none.
Joined(s) ==
    LET inked(p) == s[p] # Space
    IN  Selected(s, {p \in DOMAIN s :
            \/ inked(p)
            \/ p > 1 /\ inked(p - 1) /\ \E q \in p..Len(s) : inked(q)})

\* Maximal runs of letters, in order.
IsLetter(s, p) == p \in DOMAIN s /\ s[p] \in Letters
WordStarts(s) == {p \in DOMAIN s : IsLetter(s, p) /\ ~IsLetter(s, p - 1)}
WordEnd(s, p) == Min({q \in p..Len(s) : ~IsLetter(s, q + 1)})
WordTokens(s) ==
    [k \in 1..Cardinality(WordStarts(s)) |->
        LET start == Nth(WordStarts(s), k)
        IN  SubSeq(s, start, WordEnd(s, start))]

NotFound == -1

\* Where the first run of needle that begins after start ends.
FindRun(haystack, needle, start) ==
    LET ends == {e \in (start + Len(needle))..Len(haystack) :
                    SubSeq(haystack, e - Len(needle) + 1, e) = needle}
    IN  IF ends = {} THEN NotFound ELSE Min(ends)

\* The parts of a quote that its ellipses separate.
Parts(quote) ==
    LET marks == {p \in DOMAIN quote : quote[p] = Ellipsis} \cup {Len(quote) + 1}
    IN  [k \in 1..Cardinality(marks) |->
            SubSeq(quote, IF k = 1 THEN 1 ELSE Nth(marks, k - 1) + 1,
                   Nth(marks, k) - 1)]

\* Part by part and in order; a part of one word grounds nothing.
GroundsInOrder(haystack, quote) ==
    LET parts == Parts(quote)
        words(k) == WordTokens(parts[k])
        position[k \in 0..Len(parts)] ==
            IF k = 0 THEN 0
            ELSE IF words(k) = <<>> THEN position[k - 1]
            ELSE IF position[k - 1] = NotFound \/ Len(words(k)) = 1 THEN NotFound
            ELSE FindRun(haystack, words(k), position[k - 1])
    IN  /\ position[Len(parts)] # NotFound
        /\ \E k \in DOMAIN parts : words(k) # <<>>

QuoteGrounded(quote, text) == GroundsInOrder(WordTokens(text), quote)

Fault_SplicesAllowed(quote) == FALSE
Spliced(quote) == \E p \in DOMAIN quote : quote[p] = Ellipsis

----------------------------------------------------------------------------
(* Keeping a quote of the panel *)

\* The last place at which s may be cut: an ellipsis, or a comma and a space.
LastSeparator(s) ==
    LET at == {p \in DOMAIN s : \/ s[p] = Ellipsis
                                \/ s[p] = Comma /\ p < Len(s) /\ s[p + 1] = Space}
    IN  IF at = {} THEN NotFound ELSE Max(at)

Fault_CutsInsideWords(quote) == Strip(SubSeq(quote, 1, QUOTE_CAP))

Fault_CutLeftUnstripped(quote) ==
    LET spaces == {p \in 1..QUOTE_CAP : quote[p] = Space}
    IN  IF spaces = {} THEN <<>> ELSE SubSeq(quote, 1, Max(spaces) - 1)

\* An over-long quote loses what is past the cap, and the word it falls in.
FirstCut(quote) ==
    LET spaces == {p \in 1..QUOTE_CAP : quote[p] = Space}
    IN  IF spaces = {} THEN <<>> ELSE Strip(SubSeq(quote, 1, Max(spaces) - 1))

\* What is left of a cut before its last separator.
Shorter(s) ==
    IF LastSeparator(s) = NotFound THEN <<>>
    ELSE Strip(SubSeq(s, 1, LastSeparator(s) - 1))

\* Candidate cuts, longest first, as long as they are long enough.
Cuts(quote) ==
    LET cut[n \in 1..Len(quote)] ==
            IF n = 1 THEN FirstCut(quote) ELSE Shorter(cut[n - 1])
    IN  Selected(cut, {n \in 1..Len(quote) : Len(cut[n]) >= QUOTE_MIN})

Dropped == <<>>

\* _ground_quote: the quote, or its longest cut that the text shows.
GroundQuote(answer, text) ==
    LET quote == Strip(answer)
        cuts  == IF Len(quote) > QUOTE_CAP THEN Cuts(quote) ELSE <<quote>>
        shown == {k \in DOMAIN cuts : QuoteGrounded(cuts[k], text)}
    IN  IF Len(quote) < QUOTE_MIN \/ shown = {} THEN Dropped
        ELSE cuts[Min(shown)]

KeepQuote(answer, text) ==
    IF Spliced(answer) THEN Dropped ELSE GroundQuote(answer, text)

Fault_KeptAgain(quote, quotes) == TRUE

\* Two answers may be cut to one quote.
IsNew(quote, quotes) == \A k \in DOMAIN quotes : quotes[k] # quote

KeepQuotes(answers, text) ==
    LET keep[n \in 0..Len(answers)] ==
            IF n = 0 THEN <<>>
            ELSE LET quote == KeepQuote(answers[n], text)
                     quotes == keep[n - 1]
                 IN  IF quote # Dropped /\ IsNew(quote, quotes)
                         /\ Len(quotes) < MAX_QUOTES
                     THEN Append(quotes, quote) ELSE quotes
    IN  keep[Len(answers)]

OneLine(note) ==
    Joined([p \in DOMAIN note |-> IF note[p] = Control THEN Space ELSE note[p]])

Fault_NoteLeftUnstripped(note) == UpTo(OneLine(note), NOTE_CAP)
CleanNote(note) == Strip(UpTo(OneLine(note), NOTE_CAP))

----------------------------------------------------------------------------
(* The gate's judgement of a leader's finding, against this node's own text *)

ValidQuote(quote, text) ==
    /\ Len(quote) \in QUOTE_MIN..QUOTE_CAP
    /\ quote = Strip(quote)
    /\ ~Spliced(quote)
    /\ QuoteGrounded(quote, text)

ValidQuotes(quotes, text) ==
    /\ Len(quotes) <= MAX_QUOTES
    /\ \A k \in DOMAIN quotes : ValidQuote(quotes[k], text)
    /\ \A k, l \in DOMAIN quotes : quotes[k] = quotes[l] => k = l

ValidNote(note) == Len(note) <= NOTE_CAP /\ CleanNote(note) = note
=============================================================================
