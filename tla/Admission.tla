------------------------------ MODULE Admission -----------------------------
(* What evidence_receipt.py admits from its callers: the URL, the authority  *)
(* domains, the components and the texts of policies and requests, and the   *)
(* stamps it puts on them.  A URL, a domain and a text are sequences of      *)
(* symbols: a label, a character that the checks treat alike, or one of the  *)
(* names and characters they look for.  Ids, hashes, keys and slots are in   *)
(* EvidenceReceipt.                                                          *)
EXTENDS Calendar, Positions, SequencesExt

CONSTANTS
    Urls,                       \* what is submitted as a URL
    Texts,                      \* ... as a claim, as its context
    Policies,                   \* ... as a policy
    Idents,                     \* names of lowercase letters, digits and _
    UpperOf(_),                 \* a name in upper case
    URL_CAP, DOMAIN_CAP, CLAIM_CAP, CONTEXT_CAP, MAX_DOMAINS, MAX_COMPONENTS,
    Nothing, Refused,
    LastYear                    \* bound of the walk over the calendar

\* A component, of which the description is left out.
Components == [component_id : STRING, required : BOOLEAN]

ASSUME InputsAssumption ==
    /\ Urls \subseteq Seq(STRING) /\ Refused \notin Urls
    /\ URL_CAP \in Nat
    /\ Policies \subseteq
          [components : Seq(Components), authority_domains : Seq(Seq(STRING)),
           freshness_required : BOOLEAN]

\* The walk ends before years have a fifth digit, which no date has.
ASSUME YearsAssumption == LastYear \in Nat /\ LastYear <= 9999

\* Names of lowercase letters keep apart in upper case, which has them already.
ASSUME UpperAssumption ==
    /\ Idents \subseteq STRING
    /\ \A a, b \in Idents : UpperOf(a) = UpperOf(b) => a = b
    /\ \A s \in {"SOURCE_SHAPE", "FRESHNESS"} : UpperOf(s) = s

VARIABLES
    today, days,    \* the date of the transaction, and its number from 1970 on
    policy,         \* the policy that was created, or Nothing
    source_url,     \* the URL the requester is about to submit, or Nothing
    request         \* the request filed under the policy, or Nothing

vars == <<today, days, policy, source_url, request>>


----------------------------------------------------------------------------
(* Symbols *)

Scheme == "https://"
Small == {"a", "b", "localhost", "local", "internal", "sixty-four letters"}
Capital == [s \in {"A", "B"} |-> IF s = "A" THEN "a" ELSE "b"]
Digits == {"8", "443"}
HostSymbols == Small \cup DOMAIN Capital \cup Digits \cup {"-"}
Unprintable == {" ", "\t"}
Encoded == {"%2e", "%2f", "%5c"}

Lower(t) == [p \in DOMAIN t |-> IF t[p] \in DOMAIN Capital THEN Capital[t[p]]
                                ELSE t[p]]
At(t, symbol) == {p \in DOMAIN t : t[p] = symbol}
Has(t, symbols) == \E p \in DOMAIN t : t[p] \in symbols
First(t, symbol) == Min(At(t, symbol))
Before(t, symbol) ==
    IF At(t, symbol) = {} THEN t ELSE SubSeq(t, 1, First(t, symbol) - 1)

\* text.split(symbol): what lies between two stops.
Stops(t, symbol) == At(t, symbol) \cup {Len(t) + 1}
Split(t, symbol) ==
    LET stops == Stops(t, symbol)
    IN  [k \in 1..Cardinality(stops) |->
            SubSeq(t, IF k = 1 THEN 1 ELSE Nth(stops, k - 1) + 1,
                   Nth(stops, k) - 1)]

EndsWith(t, suffix) == IsSuffix(suffix, t)
Labels(host) == Split(host, ".")

----------------------------------------------------------------------------
(* _url_parts *)

AllDigits(label) == label # <<>> /\ \A p \in DOMAIN label : label[p] \in Digits

Fault_AnyPort(authority) == TRUE

\* The host of an authority without its port; only 443 may be named.
PortIsRight(authority) ==
    LET colons == At(authority, ":")
    IN  colons # {} =>
            SubSeq(authority, Max(colons) + 1, Len(authority)) = <<"443">>

Fault_HostAsWritten(authority) ==
    LET colons == At(authority, ":")
    IN  IF colons = {} THEN authority
        ELSE SubSeq(authority, 1, Max(colons) - 1)

HostIn(authority) ==
    LET colons == At(authority, ":")
    IN  Lower(IF colons = {} THEN authority
              ELSE SubSeq(authority, 1, Max(colons) - 1))

LabelIsRight(label) ==
    /\ label # <<>>
    /\ ~Has(label, {"sixty-four letters"})
    /\ label[1] # "-" /\ label[Len(label)] # "-"
    /\ \A p \in DOMAIN label : label[p] \in HostSymbols

IsLocal(host) ==
    \/ host = <<"localhost">>
    \/ \E name \in {"localhost", "local", "internal"} :
           EndsWith(host, <<".", name>>)

HostIsRight(host) ==
    LET labels == Labels(host)
    IN  /\ ~EndsWith(host, <<".">>)
        /\ ~IsLocal(host)
        /\ Len(labels) >= 2
        /\ \A k \in DOMAIN labels : LabelIsRight(labels[k])
        /\ ~AllDigits(Last(labels))

PathIsRight(path) ==
    LET segments == Tail(Split(Before(path, "?"), "/"))
    IN  /\ ~Has(Before(path, "?"), Encoded)
        /\ \A k \in DOMAIN segments :
               /\ segments[k] \notin {<<".">>, <<".", ".">>}
               /\ segments[k] = <<>> => k = Len(segments)

AuthorityIsRight(authority) ==
    /\ ~Has(authority, {"?", "@"})
    /\ authority[1] # "["

\* The canonical form of an admitted URL, or Refused.
CanonicalUrl(url) ==
    IF \/ url = <<>> \/ Len(url) > URL_CAP
       \/ Has(url, Unprintable \cup {"\\"})
       \/ url[1] # Scheme
    THEN Refused
    ELSE LET rest == Tail(url)
             authority == Before(rest, "/")
             path == SubSeq(rest, Len(authority) + 1, Len(rest))
             host == HostIn(authority)
         IN  IF /\ ~Has(rest, {"#"})
                /\ authority # <<>> /\ path # <<>>
                /\ AuthorityIsRight(authority)
                /\ PortIsRight(authority)
                /\ HostIsRight(host)
                /\ PathIsRight(path)
             THEN <<Scheme>> \o host \o path
             ELSE Refused

HostOf(url) == Lower(Before(Before(Tail(url), "/"), ":"))

----------------------------------------------------------------------------
(* Authority domains *)

\* Anything that makes a URL with "https://" before it and "/" after it.
ValidDomain(text) ==
    /\ text # <<>> /\ Len(text) <= DOMAIN_CAP
    /\ text = Lower(text)
    /\ CanonicalUrl(<<Scheme>> \o text \o <<"/">>) # Refused

Fault_SuffixWithoutDot(host, domains) ==
    domains # {} => \E d \in domains : EndsWith(host, d)

DomainAllowed(host, domains) ==
    domains # {} => \E d \in domains : host = d \/ EndsWith(host, <<".">> \o d)

----------------------------------------------------------------------------
(* Texts: _text_error.  Both spaces and some control characters are white. *)

White == {" ", "\n", "\t"}
Control == {"\n", "\t", "bell"}

TextIsRight(text, cap, allow_newlines, required) ==
    IF \A p \in DOMAIN text : text[p] \in White
    THEN ~required
    ELSE /\ Len(text) <= cap
         /\ ~Has(text, Control \ IF allow_newlines THEN {"\n"} ELSE {})
         /\ ~Has(text, {"marker", "hidden"})
         /\ \A p \in At(text, "byte-order mark") : p = 1

----------------------------------------------------------------------------
(* Components: _valid_ident and _components_error *)

BUILT_IN_SUBJECTS == {"SOURCE_SHAPE", "FRESHNESS"}

Fault_BuiltInsInLowerCase(id) == id \in Idents /\ id \notin BUILT_IN_SUBJECTS
ValidIdent(id) == id \in Idents /\ UpperOf(id) \notin BUILT_IN_SUBJECTS

ComponentsAreRight(components) ==
    /\ Len(components) \in 1..MAX_COMPONENTS
    /\ \A k \in DOMAIN components : ValidIdent(components[k].component_id)
    /\ \A k, l \in DOMAIN components :
           components[k].component_id = components[l].component_id => k = l
    /\ \E k \in DOMAIN components : components[k].required

----------------------------------------------------------------------------
(* The two entry points *)

\* _parse_policy: the lists.  Every other field is typed and bounded by
\* itself, and is left out.
PolicyIsRight(p) ==
    /\ ComponentsAreRight(p.components)
    /\ Len(p.authority_domains) <= MAX_DOMAINS
    /\ Cardinality(ToSet(p.authority_domains)) = Len(p.authority_domains)
    /\ \A d \in ToSet(p.authority_domains) : ValidDomain(d)

\* What the panel is asked about under a policy, in order.
Subjects(p) ==
    <<"SOURCE_SHAPE">>
    \o (IF p.freshness_required THEN <<"FRESHNESS">> ELSE <<>>)
    \o [k \in DOMAIN p.components |-> p.components[k].component_id]

FirstDay == [year |-> 1970, month |-> 1, day |-> 1]

Init ==
    /\ today = FirstDay /\ days = 0
    /\ policy = Nothing /\ source_url = Nothing /\ request = Nothing

\* The calendar turns by its own rule, by which the arithmetic is judged.
MonthLength(year, month) ==
    CASE month \in {4, 6, 9, 11} -> 30
      [] month = 2 -> IF \/ year % 400 = 0
                         \/ year % 4 = 0 /\ year % 100 # 0 THEN 29 ELSE 28
      [] OTHER -> 31

\* Bound: until LastYear, and only while nothing is created.
NextDay ==
    /\ policy = Nothing
    /\ today' = IF today.day < MonthLength(today.year, today.month)
                THEN [today EXCEPT !.day = @ + 1]
                ELSE IF today.month < 12
                THEN [today EXCEPT !.day = 1, !.month = @ + 1]
                ELSE [year |-> today.year + 1, month |-> 1, day |-> 1]
    /\ today'.year <= LastYear
    /\ days' = days + 1
    /\ UNCHANGED <<policy, source_url, request>>

\* Bound: one policy, on the first day.
CreatePolicy ==
    /\ policy = Nothing /\ today = FirstDay
    /\ \E p \in Policies : PolicyIsRight(p) /\ policy' = p
    /\ UNCHANGED <<today, days, source_url, request>>

ComposeUrl ==
    /\ policy # Nothing /\ source_url = Nothing
    /\ source_url' \in Urls
    /\ UNCHANGED <<today, days, policy, request>>

\* A URL that is right but not canonical is refused with its canonical form,
\* which the requester then submits.
TakeAdvice ==
    /\ source_url # Nothing /\ request = Nothing
    /\ CanonicalUrl(source_url) \notin {Refused, source_url}
    /\ source_url' = CanonicalUrl(source_url)
    /\ UNCHANGED <<today, days, policy, request>>

RequestVerification(claim, claim_context) ==
    /\ source_url # Nothing /\ request = Nothing
    /\ TextIsRight(claim, CLAIM_CAP, FALSE, TRUE)
    /\ TextIsRight(claim_context, CONTEXT_CAP, TRUE, FALSE)
    /\ CanonicalUrl(source_url) = source_url
    /\ DomainAllowed(HostOf(source_url), ToSet(policy.authority_domains))
    /\ request' = [claim |-> claim, claim_context |-> claim_context,
                   source_url |-> source_url,
                   source_domain |-> HostOf(source_url)]
    /\ UNCHANGED <<today, days, policy, source_url>>

Next ==
    \/ NextDay
    \/ CreatePolicy
    \/ ComposeUrl
    \/ TakeAdvice
    \/ \E claim, claim_context \in Texts :
           RequestVerification(claim, claim_context)

Spec == Init /\ [][Next]_vars

----------------------------------------------------------------------------
(* Properties *)

\* The day number that _days_from_civil computes is the number of days the
\* calendar has turned since 1970, and _valid_date admits the days it turns
\* through and no other: no day 0, and none behind the last of a month.
DatesFollowTheCalendar ==
    /\ DaysFromCivil(today) = days
    /\ ValidDate(today)
    /\ ~ValidDate([today EXCEPT !.day = 0])
    /\ ValidDate([today EXCEPT !.day = @ + 1])
           <=> today.day < MonthLength(today.year, today.month)

Times == [hour : 0..HOURS - 1, minute : 0..SIXTY - 1, second : 0..SIXTY - 1]

\* Deadlines and settling times are stored as stamps and read back as seconds:
\* at any second of any day both readings agree, so that a window closes when
\* its stamp says.
StampsRoundTrip ==
    \A t \in Times :
        LET stamp == [date |-> today, hour |-> t.hour, minute |-> t.minute,
                      second |-> t.second]
        IN  ValidStamp(stamp) /\ EpochIso(IsoEpoch(stamp)) = stamp

\* A character that needs no encoding and has one all the same is that
\* character (RFC 3986, 2.3); "%61" stands for those the checks let through.
Unreserved == [s \in {"%61", "%2e"} |-> IF s = "%61" THEN "a" ELSE "."]
Decoded(t) == [p \in DOMAIN t |-> IF t[p] \in DOMAIN Unreserved
                                  THEN Unreserved[t[p]] ELSE t[p]]

\* The page a URL names by its generic syntax, whatever the contract checks:
\* the case of the host, the port that https has, the fragment and needless
\* encoding make no difference.
Generic(url) ==
    LET rest == Tail(url)
        ends == UNION {At(rest, s) : s \in {"/", "?", "#"}}
        authority == SubSeq(rest, 1, Min(ends \cup {Len(rest) + 1}) - 1)
        host_port == Last(Split(authority, "@"))
        colon == Max(At(host_port, ":") \cup {0})
    IN  [userinfo |-> Has(authority, {"@"}),
         host |-> Lower(IF colon = 0 THEN host_port
                        ELSE SubSeq(host_port, 1, colon - 1)),
         port |-> IF colon = 0 THEN <<"443">>
                  ELSE SubSeq(host_port, colon + 1, Len(host_port)),
         rest |-> Decoded(Before(SubSeq(rest, Len(authority) + 1, Len(rest)),
                                 "#"))]

\* A policy with authority domains takes a request only of a page whose URL
\* names one of them or a subdomain of one, label by label: _url_parts and
\* _host_of divide the URL each in their own way.
SourceIsUnderListedDomain ==
    request # Nothing /\ policy.authority_domains # <<>> =>
        LET host == Generic(request.source_url).host IN
        /\ host = request.source_domain
        /\ \E d \in ToSet(policy.authority_domains) :
               IsSuffix(Labels(d), Labels(host))

CanonicalUrls == {url \in Urls : CanonicalUrl(url) = url}

\* Two URLs that requests may carry and that name one page differ in needless
\* encoding and in nothing else - not in the case of the host, the port or a
\* fragment: that encoding is all that gives one question another key.
OnlyEncodingVaries ==
    request # Nothing =>
        LET page == Generic(request.source_url) IN
        \A url \in CanonicalUrls :
            Generic(url) = page => Decoded(url) = Decoded(request.source_url)

\* The canonical form that a refusal advises is admitted as it is, and names
\* the page that was asked for.
AdviceIsRight ==
    [][source_url # Nothing /\ source_url' # source_url =>
           /\ CanonicalUrl(source_url') = source_url'
           /\ Generic(source_url') = Generic(source_url)]_vars

\* The keys of the model's answer are read in upper case, and no two subjects
\* of a policy then share one.
SubjectsStayApart ==
    policy # Nothing =>
        LET subjects == Subjects(policy) IN
        \A k, l \in DOMAIN subjects :
            UpperOf(subjects[k]) = UpperOf(subjects[l]) => k = l
=============================================================================
