-------------------------- MODULE DocumensoClient --------------------------
(***************************************************************************)
(* What DocumensoHttpClient makes of an HTTP answer: a value or one of the *)
(* exceptions of docusign_integration/exceptions.py.                       *)
(***************************************************************************)

\* "none" is a transport failure or a time-out.
Code == {"none", "200", "401", "403", "500"}

\* A body: a JSON object with what the caller looks for, one without it, other
\* JSON, nothing, or no JSON at all.
Body == {"object", "bare", "json", "empty", "text"}

Response == [code : Code, body : Body]

\* A result to work with, or an exception by its name.  AttributeError is no
\* DocumensoError.
Value(body) == [value |-> body]

Raise(name) == [raise |-> name]

IsValue(o) == "value" \in DOMAIN o

Send_Mutant(r) ==
    CASE r.code = "none" -> Raise("DocumensoRequestError")
      [] r.code \in {"401", "403"} -> Raise("DocumensoAuthenticationError")
      [] OTHER -> Value(r.body)

\* _send: an error whose body is JSON but no object has no `get`.  (The mutant
\* lets an error answer through.)
Send(r) ==
    CASE r.code = "none" -> Raise("DocumensoRequestError")
      [] r.code \in {"401", "403"} -> Raise("DocumensoAuthenticationError")
      [] r.code = "500" /\ r.body = "json" -> Raise("AttributeError")
      [] r.code = "500" /\ r.body # "json" -> Raise("DocumensoApiError")
      [] OTHER -> Value(r.body)

\* request: an empty body is None, not an error.
JSONRequest(r) ==
    IF Send(r) = Value("text") THEN Raise("DocumensoApiError") ELSE Send(r)

\* create_document, whose caller takes `id` from the answer.
CreateAnswer(r) == JSONRequest(r) = Value("object")

\* distribute_document, whose caller takes `recipients` if the object has any.
DistributeAnswer(r) == JSONRequest(r) \in {Value("object"), Value("bare")}
=============================================================================
