------------------------------ MODULE Provider ------------------------------
(***************************************************************************)
(* Functions and the providers that call them (src/function,               *)
(* src/providers).                                                         *)
(*                                                                         *)
(* A function is its provider's type and configuration.  A configuration   *)
(* is the set of the fields that are there with a valid value.             *)
(***************************************************************************)
EXTENDS Integers, FiniteSets

Streams == {"awskinesis", "awssqs", "awsfirehose"}
ProviderTypes == {"http", "awslambda"} \cup Streams

Required(type) ==
    CASE type = "http"        -> {"url"}
      [] type = "awslambda"   -> {"arn", "region"}
      [] type = "awskinesis"  -> {"streamName", "region"}
      [] type = "awssqs"      -> {"queueUrl", "region"}
      [] type = "awsfirehose" -> {"deliveryStreamName", "region"}

Keys == {"awsAccessKeyId", "awsSecretAccessKey"}
Fields(type) == Required(type) \cup (IF type = "http" THEN {} ELSE Keys \cup {"awsSessionToken"})

(* Load of the provider, {} when it returns an error: unknown fields are   *)
(* ignored, required ones must be there.  `session` is whether             *)
(* session.NewSession succeeds.                                            *)
Load(type, config, session) ==
    {f \in {[type |-> type, config |-> config \cap Fields(type)]} :
        Required(type) \subseteq config /\ (type = "http" \/ session)}

(* json is what the API receives and the store keeps.  Without a provider  *)
(* configuration nil is dereferenced: the API's handler panics and nothing *)
(* is stored.                                                              *)
UnmarshalJSON(json, session) ==
    IF json.type \in ProviderTypes THEN Load(json.type, json.config, session) ELSE {}

MarshalJSON(f) == [type |-> f.type, config |-> f.config]

(***************************************************************************)
(* Call.  A reply is what the function, or the service in front of it,     *)
(* does with the payload; the codes of AWS are grouped as Call groups      *)
(* them.  An output is an HTTP response object, other JSON objects         *)
(* included, or something that does not unmarshal to one.                  *)
(***************************************************************************)

Outputs == {"response", "other"}

Replies(type) ==
    CASE type = "http" ->
            {[kind |-> "unreachable"], [kind |-> "cut"]} \cup
            [kind : {"500", "answer"}, output : Outputs]
      [] type = "awslambda" ->
            {[kind |-> k] : k \in {"denied", "service", "unreachable", "functionError"}} \cup
            [kind : {"answer"}, output : Outputs]
      [] OTHER -> {[kind |-> "unreachable"], [kind |-> "answer", output |-> "other"]}

Success(output) == [ok |-> TRUE, output |-> output]
Failure(error) == [ok |-> FALSE, error |-> error]

(* Only the status 500 is an error of a function behind HTTP.              *)
CallHTTP(reply) ==
    CASE reply.kind = "unreachable" -> Failure("callFailed")
      [] reply.kind = "500"         -> Failure("functionError")
      [] reply.kind = "cut"         -> Failure("unread")
      [] reply.kind = "answer"      -> Success(reply.output)

CallLambda(reply) ==
    CASE reply.kind = "denied"        -> Failure("accessDenied")
      [] reply.kind = "service"       -> Failure("providerError")
      [] reply.kind = "unreachable"   -> Failure("callFailed")
      [] reply.kind = "functionError" -> Failure("functionError")
      [] reply.kind = "answer"        -> Success(reply.output)

(* The output is the id of the record that was stored.                     *)
CallStream(reply) ==
    IF reply.kind = "unreachable" THEN Failure("callFailed") ELSE Success(reply.output)

Call(f, reply) ==
    CASE f.type = "http"      -> CallHTTP(reply)
      [] f.type = "awslambda" -> CallLambda(reply)
      [] f.type \in Streams   -> CallStream(reply)
=============================================================================
