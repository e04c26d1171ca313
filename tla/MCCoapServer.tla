---------------------------- MODULE MCCoapServer ----------------------------
(* A small instance of CoapServer for TLC.                                 *)
EXTENDS CoapServer, TLC

\* Names: "ab" and "b" come from the table, "ac" and "b" are registered; "a" is
\* a prefix of two of them.  The last row has a column that is NULL.
ab == <<97, 98>>
ac == <<97, 99>>
MCRows == << [dir |-> ab, whole |-> TRUE], [dir |-> <<98>>, whole |-> TRUE],
             [dir |-> ac, whole |-> FALSE] >>

None == [o \in {} |-> 0]
Tok == "TOKEN" :> TokenKey(7)
Path(dir, name) == "URI_PATH" :> [dir |-> dir, name |-> name]
Asked(query) == "URI_QUERY" :> query
Link == <<47>>

Pdu(type, code, options, payload) ==
  [id |-> 256, code |-> code, type |-> type, from |-> "c1",
   options |-> Tok @@ options, payload |-> payload]

Rd1(code, name, options, payload) ==
  Pdu("CON", code, Path("rd", name) @@ options, payload)
Format == "CONTENT_TYPE" :> 40

Registrations == {
  Rd1("POST", <<>>, Asked("ep" :> ac @@ "lt" :> 60) @@ Format, <<Link>>),
  [Rd1("POST", <<>>, Asked("ep" :> <<98>>) @@ Format, <<Link, Link>>)
     EXCEPT !.type = "NON", !.id = 7, !.from = "c2"],
  Rd1("POST", <<>>, Format, <<Link>>),
  Rd1("POST", <<>>, Asked("ep" :> ac) @@ ("CONTENT_TYPE" :> 0), <<Link>>),
  Rd1("POST", <<>>, Asked("lt" :> 60) @@ Format, <<Link>>),
  Rd1("POST", <<>>, Asked("ep" :> ac) @@ Format, <<>>) }

Lookups == {
  Rd1("GET", <<97>>, None, <<>>),
  Rd1("DELETE", <<97>>, None, <<>>),
  Rd1("DELETE", <<>>, None, <<>>),
  Rd1("PUT", ab, Asked("lt" :> 60), <<Link>>),
  Rd1("PUT", <<97>>, Asked("lt" :> 30), <<>>),
  Rd1("PATCH", <<97>>, None, <<>>) }

Discoveries == {
  Pdu("CON", "GET", Path("core", <<>>), <<Link>>),
  Pdu("NON", "GET", Path("core", <<>>) @@ Asked("rt" :> CoreRd), <<>>),
  Pdu("CON", "PUT", Path("core", <<>>), <<>>),
  Pdu("CON", "GET", Path("other", <<112>>), <<>>),
  Pdu("CON", "GET", Path("other", <<120>>), <<>>) }

To(scheme, host, path, query) ==
  "PROXY_URI" :> [host |-> host, path |-> path, query |-> query, scheme |-> scheme]
Others == {
  Pdu("CON", "GET", To("coap", "address", ac, None), <<Link>>),
  Pdu("NON", "GET", To("coap", "address", <<>>, "rt" :> CoreRd), <<>>),
  Pdu("CON", "GET", To("http", "address", ac, None), <<>>),
  Pdu("CON", "GET", To("coap", "name", ac, None), <<>>),
  Pdu("CON", "GET", Path("core", <<>>) @@ ("URI_HOST" :> ab), <<>>),
  Pdu("NON", "GET", "URI_HOST" :> ab, <<>>),
  Pdu("ACK", "EMPTY", None, <<>>),
  [Pdu("CON", "GET", None, <<>>) EXCEPT !.options = Path("rd", ab)] }

MCRequests == Registrations \cup Lookups \cup Discoveries \cup Others

\* The token counter of the inner client wraps after the first request.
MCTokens == {65535}
MCIds == {255}
=============================================================================
