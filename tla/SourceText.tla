----------------------------- MODULE SourceText -----------------------------
(***************************************************************************)
(* From an HTTP response to the text the panel reads, and to the quotes    *)
(* that are kept of it (contracts/evidence_receipt.py: _fetch_source,      *)
(* _decode, _strip_markup, _normalize, and Grounding).  One node; the      *)
(* forward pass over the markup is taken branch by branch.                 *)
(*                                                                         *)
(* A body is a sequence of symbols, beside which the response tells where  *)
(* the pieces begin that the page was written as; the code sees the body.  *)
(* A letter may take several bytes, and the symbol Invalid is a byte that  *)
(* is not UTF-8.  One raw-text element stands for the four, and one symbol *)
(* for the openings that tell HTML.  Titles, entities and the scan for     *)
(* text addressed to the verifier are left out.                            *)
(***************************************************************************)
EXTENDS Grounding, SequencesExt

CONSTANTS
    Responses,       \* what gl.nondet.web.get may return
    Readings(_),     \* Readings(text): what the panel may quote and note
    BytesOf(_),      \* BytesOf(symbol): its length in UTF-8
    HEAD_CAP,        \* how much of a text is searched for a sign of HTML
    BODY_BYTES_CAP, TEXT_CAP

ASSUME TextCapsAssumption ==
    HEAD_CAP \in Nat /\ BODY_BYTES_CAP \in Nat /\ TEXT_CAP \in Nat \ {0}

ASSUME ResponsesAssumption ==
    \A r \in Responses :
        /\ r.body \in Seq(STRING) /\ r.starts \subseteq 1..Len(r.body)
        /\ \A p \in DOMAIN r.body : BytesOf(r.body[p]) \in 1..4

Hidden == "hidden"
Invalid == "invalid"
CommentOpen == "<!--"
RawOpen == "<script"
RawClose == "</script"
TagOpens == {"<", "<html", RawOpen, RawClose, CommentOpen}   \* contain a '<'
Brackets == {">", "-->"}                                     \* contain a '>'

ASSUME MarkupAssumption ==
    Letters \cap ({Hidden, Invalid, RawClose} \cup TagOpens \cup Brackets) = {}

VARIABLES
    response, phase,
    text,         \* the decoded body
    i, out,       \* of the pass: where it is, and what it has kept
    source,       \* status and truncated of the source record
    panel_text,
    answer, kept, \* the quotes of a panel, and what this node keeps of them
    note          \* ... and of its note

vars == <<response, phase, text, i, out, source, panel_text,
          answer, kept, note>>

----------------------------------------------------------------------------
(* Retrieval *)

NoResponse == [status |-> 0, content_type |-> "", body |-> <<>>, starts |-> {}]
Body == response.body

StatusForHttp(code) ==
    CASE code \in 300..399  -> "REDIRECTED"
      [] code \in {404, 410} -> "NOT_FOUND"
      [] code \in {401, 403} -> "FORBIDDEN"
      [] code >= 500        -> "SERVER_ERROR"
      [] OTHER              -> "INVALID_CONTENT"

\* A body as bytes: each symbol, and which of its bytes.
Encode(body) ==
    LET upTo[n \in 0..Len(body)] ==
            IF n = 0 THEN <<>>
            ELSE upTo[n - 1] \o [b \in 1..BytesOf(body[n]) |-> <<body[n], b>>]
    IN  upTo[Len(body)]

\* Strict: no invalid byte, and no character that lacks its last byte.
IsUtf8(bytes) ==
    /\ \A p \in DOMAIN bytes : bytes[p][1] # Invalid
    /\ bytes # <<>> => bytes[Len(bytes)][2] = BytesOf(bytes[Len(bytes)][1])

Undecodable == <<Invalid>>

Fault_OneByteDropped(truncated) == IF truncated THEN 0..1 ELSE {0}
BytesDropped(truncated) == IF truncated THEN 0..3 ELSE {0}

Decode(raw, truncated) ==
    LET cuts == {c \in BytesDropped(truncated) :
                    c <= Len(raw) /\ IsUtf8(SubSeq(raw, 1, Len(raw) - c))}
        bytes == SubSeq(raw, 1, Len(raw) - Min(cuts))
        chars == Selected(bytes, {p \in DOMAIN bytes : bytes[p][2] = 1})
    IN  IF cuts = {} THEN Undecodable ELSE [p \in DOMAIN chars |-> chars[p][1]]

BytesCut(body) == Len(Encode(body)) > BODY_BYTES_CAP

DecodedBody(body) ==
    Decode(UpTo(Encode(body), BODY_BYTES_CAP), BytesCut(body))

LooksHtml(t, content_type) ==
    \/ content_type = "text/html"
    \/ \E p \in DOMAIN t : p <= HEAD_CAP /\ t[p] = "<html"

Unreadable(status) ==
    /\ source' = [status |-> status, truncated |-> FALSE]
    /\ phase' = "done"
    /\ UNCHANGED <<text, i, out>>

\* What the response itself decides, and the body's decoding.
Fetch ==
    /\ phase = "fetch"
    /\ IF response = NoResponse THEN Unreadable("TIMEOUT")
       ELSE IF response.status \notin 200..299
       THEN Unreadable(StatusForHttp(response.status))
       ELSE IF Body = <<>> THEN Unreadable("INVALID_CONTENT")
       ELSE IF response.content_type \notin {"", "text/html", "text/plain"}
       THEN Unreadable("UNSUPPORTED_CONTENT")
       ELSE LET decoded == DecodedBody(Body) IN
            IF decoded = Undecodable THEN Unreadable("INVALID_CONTENT")
            ELSE /\ text' = decoded
                 /\ IF LooksHtml(decoded, response.content_type)
                    THEN phase' = "strip" /\ i' = 1 /\ out' = <<>>
                    ELSE phase' = "normalize" /\ out' = decoded /\ UNCHANGED i
                 /\ UNCHANGED source
    /\ UNCHANGED <<response, panel_text, answer, kept, note>>

----------------------------------------------------------------------------
(* _strip_markup *)

\* The first position from p on that holds one of Symbols, or 0.
Find(Symbols, p) ==
    LET at == {q \in p..Len(text) : text[q] \in Symbols}
    IN  IF at = {} THEN 0 ELSE Min(at)

NextOpen == Find(TagOpens, i)

\* <script, and not the beginning of another tag's name
IsRaw(j) ==
    text[j] = RawOpen /\ ~(j < Len(text) /\ text[j + 1] \in Letters)

\* Where the element that opens at j ends; a comment or a raw element that
\* is never closed takes the rest of the page.
Fault_CommentEndsAtBracket(j) == Find(Brackets, j + 1)
CommentEnd(j) == Find({"-->"}, j + 1)
RawEnd(j) == LET close == Find({RawClose}, j)
             IN  IF close = 0 THEN 0 ELSE Find(Brackets, close)
OrRest(k) == IF k = 0 THEN Len(text) ELSE k

DropElement(j, last) ==
    /\ out' = out \o SubSeq(text, i, j - 1) \o <<Space>>
    /\ i' = last + 1
    /\ UNCHANGED phase

KeepRest ==
    /\ out' = out \o SubSeq(text, i, Len(text))
    /\ phase' = "normalize"
    /\ UNCHANGED i

StripMarkup ==
    /\ phase = "strip"
    /\ \/ NextOpen = 0 /\ KeepRest
       \/ /\ NextOpen # 0
          /\ LET j == NextOpen
                 k == Find(Brackets, j + 1) IN
             \/ text[j] = CommentOpen /\ DropElement(j, OrRest(CommentEnd(j)))
             \/ IsRaw(j) /\ DropElement(j, OrRest(RawEnd(j)))
             \/ /\ text[j] # CommentOpen /\ ~IsRaw(j)
                /\ IF k = 0 THEN KeepRest ELSE DropElement(j, k)
    /\ UNCHANGED <<response, text, source, panel_text, answer, kept, note>>

----------------------------------------------------------------------------
(* Normalisation and caps *)

\* Hidden characters dropped, white space collapsed.
Collapse(s) == Joined(Selected(s, {p \in DOMAIN s : s[p] # Hidden}))

Fault_OnlyBytesCounted(body, normalized) == BytesCut(body)
Truncated(body, normalized) ==
    BytesCut(body) \/ Len(normalized) > TEXT_CAP

Normalize ==
    /\ phase = "normalize"
    /\ LET normalized == Collapse(out)
           truncated  == Truncated(Body, normalized)
       IN  IF normalized = <<>>
           THEN /\ source' = [status |-> "INVALID_CONTENT", truncated |-> FALSE]
                /\ phase' = "done"
                /\ UNCHANGED panel_text
           ELSE /\ source' = [status |-> IF truncated THEN "PARTIAL"
                                                      ELSE "RETRIEVED",
                              truncated |-> truncated]
                /\ panel_text' = UpTo(normalized, TEXT_CAP)
                /\ phase' = "read"
    /\ UNCHANGED <<response, text, i, out, answer, kept, note>>

Quote ==
    /\ phase = "read"
    /\ \E reading \in Readings(panel_text) :
          /\ reading \in [quotes : Seq(Seq(STRING)), note : Seq(STRING)]
          /\ answer' = reading.quotes
          /\ kept' = KeepQuotes(reading.quotes, panel_text)
          /\ note' = CleanNote(reading.note)
    /\ phase' = "done"
    /\ UNCHANGED <<response, text, i, out, source, panel_text>>

Init ==
    /\ response \in Responses
    /\ phase = "fetch"
    /\ text = <<>> /\ i = 1 /\ out = <<>>
    /\ source = [status |-> "none", truncated |-> FALSE]
    /\ panel_text = <<>>
    /\ answer = <<>> /\ kept = <<>> /\ note = <<>>

Next == Fetch \/ StripMarkup \/ Normalize \/ Quote

Spec == Init /\ [][Next]_vars

----------------------------------------------------------------------------
(* Properties *)

Without(s, Symbols) == \A p \in DOMAIN s : s[p] \notin Symbols
EndsIn(s, closing, Symbols) ==
    s # <<>> /\ Last(s) = closing /\ Without(Front(s), Symbols)

\* Text, and an element that is whole: a tag, a comment, a raw-text element.
IsText(e) == Without(e, TagOpens)
IsElement(e) ==
    /\ Len(e) >= 2
    /\ \/ e[1] \in TagOpens \ {CommentOpen} /\ e[2] \in Letters
             /\ EndsIn(e, ">", Brackets)
       \/ e[1] = CommentOpen /\ EndsIn(e, "-->", {"-->"})
       \/ /\ e[1] = RawOpen /\ e[2] = ">"
          /\ \E p \in DOMAIN e :
                /\ EndsIn(SubSeq(e, 1, p), RawClose, {RawClose})
                /\ EndsIn(SubSeq(e, p, Len(e)), ">", Brackets)

LettersOf(s) == Selected(s, {p \in DOMAIN s : s[p] \in Letters})

\* The piece of the page that begins at p.
PieceEnd(p) == Min({q \in p..Len(Body) : q + 1 \in response.starts \/ q = Len(Body)})
Piece(p) == SubSeq(Body, p, PieceEnd(p))

\* What the reader of an HTML page sees of it: the letters of its text.
IsWhole ==
    /\ LooksHtml(Body, response.content_type)
    /\ Body # <<>> => 1 \in response.starts
    /\ \A p \in response.starts : IsText(Piece(p)) \/ IsElement(Piece(p))
InText(q) ==
    \E p \in response.starts : q \in p..PieceEnd(p) /\ IsText(Piece(p))
ReaderSees ==
    Selected(Body, {q \in DOMAIN Body : Body[q] \in Letters /\ InText(q)})

(* The pass removes the elements of a page and nothing else: whatever a    *)
(* comment or a script contains - brackets, comments, tags - and wherever  *)
(* it stands, the text outside of elements is left and no text inside is.  *)
OnlyMarkupIsRemoved ==
    phase \in {"normalize", "read", "done"} /\ text # <<>> /\ text = Body
        /\ IsWhole
        => LettersOf(out) = ReaderSees

(* A source that is not marked PARTIAL was read to its end: neither the    *)
(* cap on bytes nor the cap on the panel's text took anything a reader of  *)
(* the page sees.                                                          *)
TruncationIsDeclared ==
    source.status = "RETRIEVED" /\ IsWhole => LettersOf(panel_text) = ReaderSees

(* A page of valid text is decoded wherever the cap cuts it: up to the     *)
(* last character that is whole.                                           *)
CutPageIsDecoded ==
    /\ phase \in {"strip", "normalize", "done"}
    /\ phase = "done" => source.status = "INVALID_CONTENT"
    /\ response.status \in 200..299
    /\ Without(Body, {Invalid})
    => LET whole == {n \in 0..Len(Body) :
                        Len(Encode(UpTo(Body, n))) <= BODY_BYTES_CAP}
       IN  text = UpTo(Body, Max(whole))

(* A quote that is kept is one passage: its words stand in the panel's     *)
(* text one after the other, and are the first words of something the      *)
(* panel quoted - no splice of distant parts, no half word.                *)
KeptQuoteIsOnePassage ==
    \A c \in DOMAIN kept :
        LET words == WordTokens(kept[c])
            n     == Len(words)
            read  == WordTokens(panel_text)
        IN  /\ n >= 2
            /\ \E k \in 0..(Len(read) - n) : SubSeq(read, k + 1, k + n) = words
            /\ \E k \in DOMAIN answer : UpTo(WordTokens(answer[k]), n) = words

(* What normalisation keeps, the gate of a node with the same text admits: *)
(* no honest leader is refused for the way its quotes or its note were     *)
(* cut, or because two of its quotes came out as one.                      *)
KeptFindingPassesGate == ValidQuotes(kept, panel_text) /\ ValidNote(note)

(* An over-long quote of the source is cut and not lost, as long as two    *)
(* whole words are left of it under the cap.                               *)
LongQuoteIsSalvaged ==
    phase = "done" /\ Len(answer) \in 1..MAX_QUOTES =>
        \A k \in DOMAIN answer :
            LET quote == Strip(answer[k])
                left(p) == Strip(UpTo(quote, p - 1))
            IN  /\ Len(quote) > QUOTE_CAP /\ ~Spliced(quote)
                /\ QuoteGrounded(quote, panel_text)
                /\ \E p \in 1..QUOTE_CAP :
                      /\ quote[p] = Space
                      /\ Len(left(p)) >= QUOTE_MIN
                      /\ Len(WordTokens(left(p))) >= 2
                => \E c \in DOMAIN kept : IsPrefix(kept[c], quote)
=============================================================================
