----------------------- MODULE NamespaceScopeTracker ------------------------
(***************************************************************************)
(* struct NamespaceScopeTracker of namespace.rs: all declarations in scope *)
(* in one list, each with the depth of its element.  The code keeps the    *)
(* text of a binding in one buffer and its offsets here; a binding is its  *)
(* prefix and URI, and the buffer is cut exactly where the list is.        *)
(***************************************************************************)
EXTENDS Integers, Sequences, FiniteSetsExt

CONSTANTS
    Prefix,     \* the prefixes of a document; "" is the default namespace
    Uri         \* namespace names; <<>> is the empty one

\* The two reserved names (XML_NAMESPACE_URI, XMLNS_NAMESPACE_URI).
XmlUri   == <<"w3", "1998">>
XmlnsUri == <<"w3", "2000">>
Unbound  == <<>>

ASSUME PrefixAssumption == {"", "xml", "xmlns"} \subseteq Prefix
ASSUME UriAssumption    == {XmlUri, XmlnsUri, Unbound} \subseteq Uri

VARIABLES bindings, scope_depth

tracker == <<bindings, scope_depth>>

Binding == [prefix : Prefix, uri : Uri, level : Nat]

Bind(prefix, uri, level) == [prefix |-> prefix, uri |-> uri, level |-> level]

\* new(), and what reset() leaves.
NewTracker ==
    /\ scope_depth = 0
    /\ bindings = <<Bind("xml", XmlUri, 0), Bind("xmlns", XmlnsUri, 0)>>

PushContext ==
    /\ scope_depth' = scope_depth + 1
    /\ UNCHANGED bindings

\* The bindings of the scopes around a depth.
Outer(list, depth) == {i \in DOMAIN list : list[i].level < depth}

\* Variant: the scope's own bindings stay.
PopContext_Keeps ==
    /\ bindings' = IF Outer(bindings, scope_depth + 1) = {} THEN <<>>
                   ELSE SubSeq(bindings, 1, Max(Outer(bindings, scope_depth + 1)))
    /\ scope_depth' = scope_depth - 1

\* Variant: the bindings of the scope that is left open go too.
PopContext_TooFar ==
    /\ bindings' = IF Outer(bindings, scope_depth - 1) = {} THEN <<>>
                   ELSE SubSeq(bindings, 1, Max(Outer(bindings, scope_depth - 1)))
    /\ scope_depth' = scope_depth - 1

\* Everything past the last binding of an outer scope goes.  The code panics
\* when scope_depth < 0; its callers keep the root scope (RootScopeKept).
PopContext ==
    /\ bindings' = IF Outer(bindings, scope_depth) = {} THEN <<>>
                   ELSE SubSeq(bindings, 1, Max(Outer(bindings, scope_depth)))
    /\ scope_depth' = scope_depth - 1

\* Variant: the binding belongs to the parent's scope.
DeclarePrefix_Outside(prefix, uri) ==
    /\ bindings' = Append(bindings, Bind(prefix, uri, scope_depth - 1))
    /\ UNCHANGED scope_depth

DeclarePrefix(prefix, uri) ==
    /\ bindings' = Append(bindings, Bind(prefix, uri, scope_depth))
    /\ UNCHANGED scope_depth

ResetTracker == NewTracker'

\* Variant: an empty URI is passed over, not taken for unbound.
GetUri_SkipsEmpty(prefix) ==
    LET Found == {i \in DOMAIN bindings :
                    bindings[i].prefix = prefix /\ bindings[i].uri # Unbound}
    IN  IF Found = {} THEN Unbound ELSE bindings[Max(Found)].uri

\* The last binding of the prefix; an empty URI counts as none.
GetUri(prefix) ==
    LET Found == {i \in DOMAIN bindings : bindings[i].prefix = prefix}
    IN  IF Found = {} THEN Unbound ELSE bindings[Max(Found)].uri

\* A caller that pairs push_context and pop_context.
TrackerNext ==
    \/ PushContext
    \/ scope_depth > 0 /\ PopContext
    \/ \E prefix \in Prefix, uri \in Uri : DeclarePrefix(prefix, uri)
    \/ ResetTracker

TrackerSpec == NewTracker /\ [][TrackerNext]_tracker
-----------------------------------------------------------------------------
(* Each scope, as the list of bindings describes it.                       *)

\* The bindings of the prefix in a list, in the scopes up to a depth.
Of(list, prefix, depth) ==
    {i \in DOMAIN list : list[i].prefix = prefix /\ list[i].level <= depth}

UriAt(list, prefix, depth) ==
    IF Of(list, prefix, depth) = {} THEN Unbound
    ELSE list[Max(Of(list, prefix, depth))].uri

Predeclared == [prefix \in Prefix |->
    IF prefix = "xml" THEN XmlUri ELSE IF prefix = "xmlns" THEN XmlnsUri ELSE Unbound]

ScopeAt(list, depth) == [prefix \in Prefix |-> UriAt(list, prefix, depth)]

ScopesNow == [k \in 1 .. scope_depth + 1 |-> ScopeAt(bindings, k - 1)]

Scopes == INSTANCE NamespaceScopes WITH scopes <- ScopesNow

\* However declarations, scopes that open and scopes that close follow each
\* other, the flat list answers as a stack of environments would: what an
\* element redeclares or unbinds comes back when it ends.
LexicalScoping == Scopes!Spec
=============================================================================
