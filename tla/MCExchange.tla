----------------------------- MODULE MCExchange -----------------------------
(***************************************************************************)
(* Instances of Exchange for TLC.                                          *)
(***************************************************************************)
EXTENDS Exchange, TLC

\* Nothing tells one worker from another.
Symmetry == Permutations(Workers)

\* Header names: one that keeps its name, the one of the extension
\* "eventgateway", two of which one shrinks to the other, one that vanishes.
Names == {<<"F">>, Eventgateway, <<"C", "O">>, <<"O">>, <<"X">>}

UserType == "user.created"

ManyTypeNames == {HTTPRequest, System, UserType}

\* Every content type and body in every mode, and every set of at most two
\* names in the binary mode.
PlainRequests ==
    [contentType : ContentTypes, event : {None, HTTPRequest, System, UserType}, attributes : {None},
     names : {{}}, body : Bodies]
BinaryRequests ==
    [contentType : ContentTypes, event : {None, UserType}, attributes : Attributes,
     names : {n \in SUBSET Names : Cardinality(n) <= 2}, body : {[kind |-> "empty"], [kind |-> "object"]}]
AllRequests == PlainRequests \cup BinaryRequests

\* Few requests for many sites: an event with each kind of extension.
FewRequests ==
    {r \in PlainRequests : r.contentType = "cloudevents" /\ r.event = None /\ r.body.kind = "event"}

Stored(type) == [type |-> type, config |-> Required(type) \cup Keys \cup {"note"}]

Site(sync, authorizers, first, listeners) ==
    [sync |-> sync, authorizers |-> authorizers, listeners |-> listeners,
     functions |-> [i \in Subscribers |-> Stored(IF i = 0 THEN first ELSE "http")]]

\* Any set of authorizers with few listeners; any provider of the sync
\* function with all listeners.
ManySites ==
    {Site(sync, as, "awslambda", ls) :
        sync \in BOOLEAN, as \in SUBSET Subscribers, ls \in {{}, {"received"}}}
    \cup {Site(TRUE, {0}, type, SystemKinds) : type \in ProviderTypes}

AuthorizedSites == {Site(FALSE, Async, "http", {})}
ListenedSites == {Site(TRUE, {}, "http", {"invoked"})}
=============================================================================
