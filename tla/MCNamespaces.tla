---------------------------- MODULE MCNamespaces ----------------------------
(***************************************************************************)
(* Names and namespace names for the filter: two families of documents,    *)
(* and one that is read again after a reset.                               *)
(***************************************************************************)
EXTENDS NamespaceFilter

Prefixes == {"", "xml", "xmlns", "p", "q", "p:q"}
Uris     == {<<>>, <<"u">>, <<"u", "v">>, XmlUri, XmlnsUri}
BadLocal == {"", "p:q", ":a"}

\* Two prefixes, declared and used at each of two levels.
ScopedElements   == {Name("", "a"), Name("p", "a")}
ScopedAttributes == {Name("xmlns", "p"), Name("xmlns", "q"), Name("p", "b"), Name("q", "b")}
ScopedValues     == {<<>>, <<"u">>, <<"u", "v">>}

\* Everything reserved or malformed, in one tag.
OddElements   == {Name("xmlns", "a"), Name("", ":a"), Name("xml", "a")}
OddAttributes == {Name("", "xmlns"), Name("xmlns", "xml"), Name("xmlns", "xmlns"),
                  Name("xmlns", "p"), Name("xmlns", ""), Name("xml", "b"),
                  Name("p", "p:q"), Name("", "b")}

\* One prefix and what is refused about it, small enough for a second document.
FewElements   == {Name("", ":a"), Name("p", "a")}
FewAttributes == {Name("xmlns", "p"), Name("p", "b"), Name("p", "p:q")}
FewValues     == {<<>>, <<"u">>}

AllVersions   == {"none", "1.0", "1.1"}
TwoVersions   == {"none", "1.1"}

\* The documents of each kind: a tag of one is not a tag of the other.
AllElements   == ScopedElements \cup OddElements
AllAttributes == ScopedAttributes \cup OddAttributes
Families ==
    { [elements |-> ScopedElements, attributes |-> ScopedAttributes,
       values |-> ScopedValues, versions |-> {"1.0"}, depth |-> 2],
      [elements |-> OddElements, attributes |-> OddAttributes,
       values |-> Uris, versions |-> {"1.0", "1.1"}, depth |-> 1] }

InFamily ==
    \E f \in Families :
        /\ Len(open) <= f.depth /\ version \in f.versions
        /\ \A k \in DOMAIN open :
             /\ open[k].name \in f.elements
             /\ \A a \in open[k].attrs : a[1] \in f.attributes /\ a[2] \in f.values
        /\ tag = "value" =>
             /\ attr.name \in f.attributes
             /\ \E v \in f.values : \E n \in 0 .. Len(v) : attr.value = SubSeq(v, 1, n)

FamilySpec == Init /\ [][Next /\ InFamily']_vars
=============================================================================
