---------------------------- MODULE MCAdmission ----------------------------
(* Admission for TLC: any authority before a plain path, any path after a  *)
(* plain authority, and policies that differ in domains or in components.  *)
EXTENDS Admission

Host == <<"a", ".", "b">>

Names ==
    {<<"a", ".", "b">>, <<"A", ".", "b">>, <<"a", ".", "8">>, <<"a", "-", ".", "b">>,
     <<"localhost">>, <<"a", ".", "localhost">>, <<"a", ".", "local">>,
     <<"local", ".", "b">>, <<"A", ".", "internal">>, <<"b", "internal", ".", "a">>,
     <<"a", ".", "sixty-four letters">>, <<"[", "8", "]">>,
     <<"b", ".", "a", ".", "b">>, <<"b", "a", ".", "b">>, <<"a", ".", "b", ".", "b">>,
     <<"a", ":", "a", ".", "b">>, <<"a", "@", "a", ".", "b">>}

Authorities ==
    BoundedSeq({"a", "A", "8", "443", ".", ":", "-", "@", "?"}, 4)
    \cup {name \o tail : name \in Names,
            tail \in {<<>>, <<".">>, <<":">>, <<":", "8">>, <<":", "443">>,
                     <<"@", "b", ".", "a">>}}
Paths ==
    BoundedSeq({"a", ".", "/", "?", "#", "%2e", "%61"}, 4)
    \cup BoundedSeq({"A", "/", "?", "%2f"}, 4)

MCUrls ==
    {<<Scheme>> \o authority \o <<"/">> : authority \in Authorities}
    \cup {<<Scheme>> \o Host \o path : path \in Paths}
    \cup {<<>>, <<"http://">> \o Host \o <<"/">>}
    \cup {<<Scheme>> \o Host \o <<"/", symbol>> : symbol \in {" ", "\t", "\\"}}

Component(id, required) == [component_id |-> id, required |-> required]
MCIdents == {"scope", "freshness", "source_shape"}
MCUpperOf(id) ==
    CASE id \in {"scope", "Scope"} -> "SCOPE"
      [] id = "freshness" -> "FRESHNESS"
      [] id = "source_shape" -> "SOURCE_SHAPE"
      [] OTHER -> id

Policy(components, domains, freshness) ==
    [components |-> components, authority_domains |-> domains,
     freshness_required |-> freshness]
Scope == <<Component("scope", TRUE)>>

\* Names, a name with a port, with a path, and what is no name at all.
Domains == {Host, <<"b">>, <<"a", ".", "a">>, Host \o <<":", "443">>,
            Host \o <<"/", "a">>, <<"A", ".", "b">>, <<"8", ".", "8">>, <<>>}

MCPolicies ==
    {Policy(Scope, domains, FALSE) : domains \in BoundedSeq(Domains, 2)}
    \cup {Policy(components, <<Host>>, freshness) :
            components \in BoundedSeq(
                {Component(id, r) : id \in MCIdents \cup {"Scope", "FRESHNESS"},
                                    r \in BOOLEAN}, 2),
            freshness \in BOOLEAN}

MCTexts ==
    {<<>>, <<" ">>, <<"x">>, <<"x", " ", "x">>, <<"x", "\n", "x">>,
     <<"x", "x", "x", "x">>, <<"\n", "\t">>, <<" ", " ", " ", " ">>,
     <<"x", "bell">>, <<"marker">>, <<"x", "hidden">>,
     <<"byte-order mark", "x">>, <<"x", "byte-order mark">>}
=============================================================================
