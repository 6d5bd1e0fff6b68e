------------------------------- MODULE Event -------------------------------
(***************************************************************************)
(* Events and how requests become events (src/event).                      *)
(*                                                                         *)
(* A request is a record of what FromRequest looks at:                     *)
(*   contentType  the Content-Type header, see ContentTypes                *)
(*   event        the legacy Event header: a type name or None             *)
(*   attributes   the CE- headers: None unless the four required ones are  *)
(*                there, else the type name, whether CE-Source is a URI    *)
(*                and what CE-EventTime is                                 *)
(*   names        what follows "Ce-X-" in the names of the headers that    *)
(*                begin so, as sequences of characters                     *)
(*   body         what the body is, see Bodies                             *)
(***************************************************************************)
EXTENDS Integers, Sequences, FiniteSets, FiniteSetsExt, Functions

CONSTANTS
    TypeNames,  \* names of event types
    None

HTTPRequest == "http.request"
System == "eventgateway"      \* stands for the names with this prefix

ASSUME TypeNamesAssumption == {HTTPRequest, System} \subseteq TypeNames /\ None \notin TypeNames

(* "json params" is application/json with parameters such as a charset,    *)
(* "suffix" a type that ends in +json.                                     *)
ContentTypes ==
    {"none", "malformed", "json", "json params", "suffix", "cloudevents", "form", "text"}

(* Whether an event has the extension "eventgateway", and whether its      *)
(* value is an object.                                                     *)
ExtensionKinds == {"none", "object", "other"}

(* A body that is a CloudEvent in JSON has all required attributes.  Other *)
(* JSON objects lack some, "array" is JSON that is no object.              *)
PlainBodies == {[kind |-> k] : k \in {"unreadable", "empty", "object", "array", "text"}}
EventBodies ==
    [kind : {"event"}, type : TypeNames, eventgateway : ExtensionKinds, names : {{}, {<<"f">>}}]
Bodies == PlainBodies \cup EventBodies

Attributes == [type : TypeNames, uri : BOOLEAN, time : {"none", "valid", "invalid"}]

(***************************************************************************)
(* Extension names of the binary mode.                                     *)
(***************************************************************************)

Cutset == {"C", "e", "-", "X"}      \* the characters of "Ce-X-"
ToLower(c) == CASE c = "C" -> "c" [] c = "E" -> "e" [] c = "F" -> "f" [] OTHER -> c

(* Stands for the header name of the extension "eventgateway".             *)
Eventgateway == <<"E", "v">>

(* strings.TrimLeft removes every leading character of the cutset.         *)
TrimLeft(name) ==
    LET kept == {i \in DOMAIN name : name[i] \notin Cutset}
    IN  IF kept = {} THEN <<>> ELSE SubSeq(name, Min(kept), Len(name))

Lower(name) == [name EXCEPT ![1] = ToLower(@)]

ExtensionKey(name) == Lower(TrimLeft(name))

(* An empty key has no first character: indexing it panics.                *)
KeyPanics(names) == \E n \in names : TrimLeft(n) = <<>>

(* The maps key -> header that the loop over the headers, in the order of  *)
(* a Go map, may end with.                                                 *)
ExtensionMaps(names) ==
    {m \in [{ExtensionKey(n) : n \in names} -> names] : \A k \in DOMAIN m : ExtensionKey(m[k]) = k}

(***************************************************************************)
(* Payloads: bytes of a request, what they were decoded to, or the data of *)
(* an http.request event with the request's body in it.                    *)
(***************************************************************************)

Bytes(body) == [form |-> "bytes", body |-> body.kind]
Decoded(body) == [form |-> "object", body |-> body.kind]

(* mime.ParseMediaType.                                                    *)
MediaType(contentType) ==
    CASE contentType = "none"        -> "octet-stream"
      [] contentType = "json params" -> "json"
      [] OTHER                       -> contentType

(* normalizePayload, given what it compares: a media type or the header.   *)
NormalizePayload(body, mime) ==
    CASE mime \in {"json", "suffix", "cloudevents"} /\ body.kind \in {"event", "object"} ->
            Decoded(body)
      [] mime = "form" /\ body.kind # "empty" -> [form |-> "string", body |-> body.kind]
      [] OTHER -> Bytes(body)

(***************************************************************************)
(* Events.  `eventgateway` is what the extension of this name is, `names`  *)
(* maps the other ones to the header, or the key of the body, whose value  *)
(* they have.                                                              *)
(***************************************************************************)

NoNames == [k \in {} |-> None]

(* The transformation's own extension is an object.                        *)
New(type, data) ==
    [type |-> type, mode |-> "new", eventgateway |-> "object", names |-> NoNames, data |-> data]

(* NewHTTPRequestData: the body is normalised by the header.               *)
NewHTTPRequestData(r) == [form |-> "http", body |-> NormalizePayload(r.body, r.contentType)]

(* Data that a CloudEvent carries was decoded with it.                     *)
ParseAsCloudEvent(body) ==
    [type |-> body.type, mode |-> "structured", eventgateway |-> body.eventgateway,
     names |-> [k \in body.names |-> k], data |-> Decoded(body)]

(* What FromRequest may return: an event, an error or a panic.             *)
Parsed(event) == [outcome |-> "event", event |-> event]
Invalid == [outcome |-> "invalid"]
Panic == [outcome |-> "panic"]

(* The value of the extension comes from a header: a string.               *)
ParseAsCloudEventBinary(r) ==
    LET key == ExtensionKey(Eventgateway)
        binary(m) ==
            [type |-> r.attributes.type, mode |-> "binary",
             eventgateway |-> IF key \in DOMAIN m THEN "other" ELSE "none",
             names |-> Restrict(m, DOMAIN m \ {key}),
             data |-> NormalizePayload(r.body, r.contentType)]
    IN  IF ~r.attributes.uri \/ r.attributes.time = "invalid" THEN {Invalid}
        ELSE IF KeyPanics(r.names) THEN {Panic}
        ELSE {Parsed(binary(m)) : m \in ExtensionMaps(r.names)}

FromRequest(r) ==
    LET mime == MediaType(r.contentType)
    IN  IF mime = "malformed" \/ r.body.kind = "unreadable" THEN {Invalid}
        ELSE IF mime = "cloudevents" THEN
            IF r.body.kind = "event" THEN {Parsed(ParseAsCloudEvent(r.body))} ELSE {Invalid}
        ELSE IF r.attributes # None THEN ParseAsCloudEventBinary(r)
        ELSE IF r.event = None THEN {Parsed(New(HTTPRequest, NewHTTPRequestData(r)))}
        ELSE IF mime = "json" /\ r.body.kind = "event" THEN {Parsed(ParseAsCloudEvent(r.body))}
        ELSE {Parsed(New(r.event, NormalizePayload(r.body, mime)))}

IsSystem(event) == event.type = System
=============================================================================
