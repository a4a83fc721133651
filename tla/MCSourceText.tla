---------------------------- MODULE MCSourceText ----------------------------
(* SourceText for TLC: pages made of whole elements, pages of any symbols, *)
(* pages with characters of several bytes, and two texts to quote from.    *)
EXTENDS SourceText

MCLetters == {"a", "b", "wide"}
MCBytesOf(symbol) == IF symbol = "wide" THEN 4 ELSE 1

\* Text and whole elements; hidden text, and elements inside of elements.
Items ==
    {<<"a", Hidden, "b">>, <<"a", Space, "b", Space, "b">>, <<">", "b">>,
     <<"<", "a", ">">>,
     <<RawOpen, "b", ">">>,
     <<CommentOpen, "a", "-->">>,
     <<CommentOpen, ">", "b", RawOpen, "-->">>,
     <<RawOpen, ">", "b", RawClose, ">">>,
     <<RawOpen, ">", "-->", "<", "a", RawClose, "a", ">">>}

\* A page, and where its items begin.
Page(items) ==
    [body   |-> FlattenSeq(items),
     starts |-> {1 + Len(FlattenSeq(SubSeq(items, 1, k))) :
                    k \in {k \in 0..(Len(items) - 1) : items[k + 1] # <<>>}}]
Pages(sequences) == {Page(items) : items \in sequences}

WholePages == BoundedSeq(Items, 4)

\* Of one element each, whole or not.
AnyPages ==
    {<<page>> : page \in
        BoundedSeq(TagOpens \cup Brackets \cup {"a"}, 4)}
WidePages ==
    {<<page>> : page \in BoundedSeq({"a", "wide", Invalid, Space}, 5)}

\* Two texts to quote from.
Verses == {<<"a", Space, "b", Comma, Space, "a", Comma, Space, "b", Space, "a">>,
           <<"a", "b", Space, "b", Space, "a", "b">>}
Fragments == {<<"a">>, <<"b">>, <<Space>>, <<Comma, Space>>, <<Ellipsis>>,
              <<"b", "b">>, <<"a", Space, "b">>, <<"b", Space, "a">>}

\* Answers of which some are cut to the same quote, to be given together.
Answers ==
    Verses \cup {<<"a", Space, "b">>, <<"b", Space, "a">>, <<"a">>,
                <<"b", Comma, Space, "a">>,
                <<"a", Space, "b", Comma, Space, "a", Comma>>,
                <<"a", Space, "b", Comma, Space, "b", "b", Space, "a">>}

Response(status, type, page) ==
    [status |-> status, content_type |-> type,
     body |-> page.body, starts |-> page.starts]
Responds(statuses, types, pages) ==
    {Response(c, t, page) : c \in statuses, t \in types, page \in Pages(pages)}
MCResponses ==
    Responds({200}, {"text/html"}, WholePages \cup AnyPages)
    \cup Responds({200}, {""}, WidePages \cup AnyPages)
    \cup Responds({200}, {"text/plain"}, {<<verse>> : verse \in Verses})
    \cup Responds({200, 301, 404, 403, 400, 503}, {"text/html", "image/png"},
                  {<< <<"a">> >>, <<>>})
    \cup {NoResponse}

\* Notes to be cut at, before and behind a space.
Notes == BoundedSeq({"a", Space, Control}, 5)

Reading(quoted, noted) == [quotes |-> quoted, note |-> noted]
MCReadings(t) ==
    IF t \in Verses
    THEN {Reading(<<FlattenSeq(f)>>, <<>>) : f \in BoundedSeq(Fragments, 5)}
         \cup {Reading(quotes, <<>>) : quotes \in BoundedSeq(Answers, 4)}
         \cup {Reading(<<t>>, noted) : noted \in Notes}
    ELSE {Reading(<<t>>, <<>>)}
=============================================================================
