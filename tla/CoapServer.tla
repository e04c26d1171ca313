----------------------------- MODULE CoapServer -----------------------------
(***************************************************************************)
(* The CoAP server of the proxy (coap/coap_server.c), its resource         *)
(* directory (coap/coap_rd.c) and the SQLite tables it is read from when   *)
(* the process starts (proxy/main.c): coap_server_read and                 *)
(* coap_server_dispatch as serve() calls them, one datagram at a time.     *)
(*                                                                         *)
(* pc is "down" before the process starts and after it has stopped,        *)
(* "select" in serve() and "dispatch" in the loop of coap_server_dispatch; *)
(* "at" is the node of the dispatch queue the loop has come to.  A branch  *)
(* of the loop is an action.                                               *)
(*                                                                         *)
(* Undefined behaviour is a choice between a process that stops (Crash)    *)
(* and one that goes on.                                                   *)
(*                                                                         *)
(* A PDU is a record; its options are a function from the codes it has.    *)
(* A Uri-Path is .well-known/core ("core"), a path that starts with rd     *)
(* ("rd", "name" is what follows rd/), or another; an Uri-Query is a       *)
(* function from its parameters; a payload is a sequence of links.         *)
(*                                                                         *)
(* Nothing in the program reads the socket of the inner client, so what it *)
(* forwards is never answered (proxy_response_received does not run), and  *)
(* nothing is ever put into the pending queues of the two contexts or the  *)
(* observers of a resource.                                                *)
(*                                                                         *)
(* SlipX is a fault in X; no specification uses one.                       *)
(***************************************************************************)
EXTENDS CoapClient

CONSTANTS
  Requests,      \* PDUs the network may bring
  Rows,          \* table "resource" joined with "resource_directory"
  InitIds, InitTokens,
  SocketCap,     \* datagrams the socket holds
  MaxRequests,   \* bound: datagrams that arrive
  MaxStarts      \* bound: starts of the process

\* Types and codes; "PATCH" stands for the methods the server does not know.
Types == {"CON", "NON", "ACK", "RST"}
Methods == {"EMPTY", "GET", "POST", "PUT", "DELETE", "PATCH"}
Codes == Methods \cup {"2.01", "2.02", "2.04", "2.05", "4.00", "4.02", "4.05"}

\* What coap_pdu_packet_read hands on: the fields have their types; the name of
\* a path and of an endpoint and the path of an URI are strings, a lifetime is
\* what atoi makes of it.
IsPdu(r) == r \in [id : Uint16, type : Types, code : Codes, from : STRING,
                   options : {r.options}, payload : Seq(Str)]
IsRead(r) ==
  LET options == r.options
      has(code) == code \in DOMAIN options
  IN  /\ IsPdu(r) /\ options = [c \in DOMAIN options |-> options[c]]
      /\ has("URI_PATH") => options["URI_PATH"].name \in Str
      /\ has("URI_QUERY") =>
           LET query == options["URI_QUERY"]
           IN  /\ "ep" \in DOMAIN query => query["ep"] \in Str
               /\ "lt" \in DOMAIN query => query["lt"] \in Int

ASSUME RequestsAreRead == \A r \in Requests : IsRead(r)
ASSUME RowsAreNamed == Rows \in Seq([dir : Str, whole : BOOLEAN])
ASSUME CountersAreRandom == InitIds \cup InitTokens \subseteq Random
ASSUME BoundsAreNat == {SocketCap, MaxRequests, MaxStarts} \subseteq Nat

VARIABLES
  pc,
  socketq,             \* datagrams in the socket of the server
  dispatch, at,        \* context->dispatch_queue and the place in it
  entries,             \* rd->entries
  proxy,               \* server->proxy: requests that were forwarded
  message_id, token,   \* counters of the inner client
  known,               \* names in the table resource_directory
  owed,                \* answers due to what was dispatched (history)
  answers, forwarded,  \* PDUs the server and its inner client have sent
  loaded,              \* rows that were read at the start (history)
  requests, starts

memory == <<dispatch, at, entries, proxy, message_id, token>>
sent   == <<answers, forwarded>>
vars   == <<pc, memory, sent, owed, known, socketq, requests, starts, loaded>>

----------------------------------------------------------------------------
(* PDUs and keys.                                                          *)

Has(r, code) == code \in DOMAIN r.options
OptionUnset(r, codes) ==
  [r EXCEPT !.options = [c \in DOMAIN r.options \ codes |-> r.options[c]]]
OptionInsert(r, code, value) ==
  [r EXCEPT !.options = [c \in DOMAIN r.options \cup {code} |->
                           IF c = code THEN value ELSE r.options[c]]]

CommonOptions == {"PROXY_URI", "ETAG", "LOCATION_PATH", "URI_PATH", "URI_QUERY",
                  "IF_MATCH", "IF_NONE_MATCH", "ACCEPT", "URI_PORT"}
CleanCommonOptions(r) == OptionUnset(r, CommonOptions)

\* check_options: critical options (odd codes) the server does not know.
CheckOptions(r) == DOMAIN r.options \cap {"URI_HOST", "URI_PORT", "IF_MATCH",
                                          "IF_NONE_MATCH"} = {}

\* coap_pdu_parse_query for one parameter, with an option there or without.
Query(r) == IF Has(r, "URI_QUERY") THEN r.options["URI_QUERY"] ELSE [v \in {} |-> 0]
Asks(r, var) == var \in DOMAIN Query(r)

EntryFor(name) == NodeGet(entries, name, Len(name))

\* coap_rd_entry_create; "watched" says that the observers of the entry, which
\* the proxy fills with connections, are not empty.
NewEntry(name) == [key |-> name, lt |-> 86400, coap_res |-> <<>>, watched |-> FALSE]

\* coap_resource_create, which refuses a resource without a path or a name, and
\* coap_resource_link_format, which prints the attributes behind the path.
NewResource(path, rt, ifd, sz) == [key |-> path, rt |-> rt, ifd |-> ifd, sz |-> sz]
LinkFormat(res) == res.key

\* The one resource of context_create: "prox", without attributes.
Prox == <<112, 114, 111, 120>>
Resources == << NewResource(Prox, <<>>, <<>>, 0) >>
ResourceFor(r) ==
  NodeGet(Resources, r.options["URI_PATH"].name, Len(r.options["URI_PATH"].name))

----------------------------------------------------------------------------
(* The process.                                                            *)

Init ==
  /\ pc = "down" /\ dispatch = <<>> /\ at = 1
  /\ entries = <<>> /\ proxy = <<>> /\ message_id = 0 /\ token = 0
  /\ answers = <<>> /\ forwarded = <<>> /\ owed = [w \in {} |-> 0]
  /\ socketq = <<>> /\ requests = 0 /\ starts = 0 /\ loaded = 0
  /\ known = {Rows[i].dir : i \in DOMAIN Rows}

\* The process stops, whatever it was doing; its sockets go with it.
Stop ==
  /\ pc' = "down" /\ dispatch' = <<>> /\ at' = 1
  /\ entries' = <<>> /\ proxy' = <<>> /\ message_id' = 0 /\ token' = 0
  /\ answers' = <<>> /\ forwarded' = <<>> /\ socketq' = <<>>
  /\ owed' = [w \in {} |-> 0] /\ loaded' = 0
  /\ UNCHANGED <<known, requests, starts>>

\* get_resource_directory makes an entry of each row it reads.  Each becomes the
\* second of the list (NodeInsert), so the first row stays the first and the n-th
\* is followed by the ones before it.
Place(n, i) == IF i = 1 THEN 1 ELSE (n + 2) - i
Loaded(n) == [i \in 1..n |-> NewEntry(Rows[Place(n, i)].dir)]

\* The rows it may have read when it reports success: the loop ends with the
\* table, but also with any error of SQLite's, and reads nothing where the
\* statement could not be prepared (its errors are positive, "< 0" is tested).
Reads == {n \in 0..Len(Rows) : \A i \in 1..n : Rows[i].whole}

\* coap_client_create: a context of its own, with counters from rand().
NewClient == message_id' \in InitIds /\ token' \in InitTokens

\* coap_server_create: empty lists, and an inner client.
NewServer == dispatch' = <<>> /\ at' = 1 /\ proxy' = <<>> /\ NewClient

\* context_create.  A socket, an address or a list that cannot be had, a database
\* that cannot be opened, or a row with a column that is NULL ends the process; a
\* server that could not be created (its memory is freed and used) leaves none
\* that answers, be there a process or not.  The resource of a row is filed under
\* entry->coap_res, which nobody has set.
Start ==
  /\ pc = "down" /\ starts < MaxStarts /\ starts' = starts + 1
  /\ \/ \E n \in Reads :
          pc' = "select" /\ NewServer /\ entries' = Loaded(n) /\ loaded' = n
     \/ UNCHANGED <<pc, memory, loaded>>
  /\ UNCHANGED <<sent, owed, known, socketq, requests>>

\* The process is stopped from outside.
Kill == pc # "down" /\ Stop

\* Datagrams that coap_pdu_packet_read can read.
Arrive(r) ==
  /\ pc # "down" /\ requests < MaxRequests /\ Len(socketq) < SocketCap
  /\ socketq' = Append(socketq, r) /\ requests' = requests + 1
  /\ UNCHANGED <<pc, memory, sent, owed, known, starts, loaded>>

\* A browser joins the observers of an entry (ObserveProxy, Join).
Watch(k) ==
  /\ pc = "select" /\ ~entries[k].watched
  /\ entries' = [entries EXCEPT ![k].watched = TRUE]
  /\ UNCHANGED <<pc, dispatch, at, proxy, message_id, token, sent, owed, known,
                 socketq, requests, starts, loaded>>

\* select finds the socket of the server.
SlipReadable == Len(socketq) > 1
Readable == socketq # <<>>

\* coap_context_read.
Read ==
  /\ pc = "select" /\ Readable
  /\ dispatch' = NodeInsert(dispatch, [key |-> IdKey(Head(socketq).id),
                                       pdu |-> Head(socketq)])
  /\ socketq' = Tail(socketq) /\ at' = 1 /\ pc' = "dispatch"
  /\ UNCHANGED <<entries, proxy, message_id, token, sent, owed, known, requests,
                 starts, loaded>>

----------------------------------------------------------------------------
(* coap_server_dispatch.                                                   *)

Current == dispatch[at].pdu

\* How many PDUs the server owes to a request: the directory answers twice
\* (the response is sent behind the switch and again behind the branch), what is
\* forwarded or not understood is not answered here.
Owed(r) ==
  LET served == r.type = "NON" \/ (r.type = "CON" /\ CheckOptions(r))
      local  == served /\ ~Has(r, "PROXY_URI") /\ Has(r, "URI_PATH")
  IN  IF ~Has(r, "TOKEN") THEN 0
      ELSE IF r.type = "CON" /\ ~CheckOptions(r) THEN 1
      ELSE IF ~local THEN 0
      ELSE IF r.options["URI_PATH"].dir = "rd" THEN 2
      ELSE IF r.options["URI_PATH"].dir = "core" THEN 1
      ELSE IF ResourceFor(r) = 0 THEN 0 ELSE 1

\* What an answer has of its request, and what is owed to each.
Who(r) == <<r.from, r.id, r.options["TOKEN"]>>
Charged(r) ==
  IF ~Has(r, "TOKEN") THEN owed
  ELSE [w \in DOMAIN owed \cup {Who(r)} |->
          (IF w \in DOMAIN owed THEN owed[w] ELSE 0)
            + (IF w = Who(r) THEN Owed(r) ELSE 0)]

\* The node of a PDU leaves the dispatch queue.
Delete(queue, r) == NodeDelete(queue, IdKey(r.id), IdKeyLen)

\* The loop goes on to the next node, or ends.
GoOn(queue) ==
  LET next == IF Len(queue) < Len(dispatch) THEN at ELSE at + 1
  IN  /\ dispatch' = queue
      /\ at' = IF next <= Len(queue) THEN next ELSE 1
      /\ pc' = IF next <= Len(queue) THEN "dispatch" ELSE "select"
      /\ owed' = Charged(Current)
      /\ UNCHANGED <<socketq, requests, starts, loaded>>

\* coap_server_response_send.
SlipResponseSend(queue, r) == queue
ResponseSend(queue, r) == IF r.type # "CON" THEN Delete(queue, r) ELSE queue

\* One answer, and the loop goes on.
Answer(r) ==
  /\ answers' = Append(answers, r)
  /\ GoOn(ResponseSend(dispatch, r))

Drop == GoOn(Delete(dispatch, Current)) /\ UNCHANGED answers

NoToken ==
  /\ pc = "dispatch" /\ ~Has(Current, "TOKEN")
  /\ Drop
  /\ UNCHANGED <<entries, proxy, message_id, token, known, forwarded>>

BadOption ==
  /\ pc = "dispatch" /\ Has(Current, "TOKEN")
  /\ Current.type = "CON" /\ ~CheckOptions(Current)
  /\ Answer([CleanCommonOptions(Current) EXCEPT !.type = "ACK", !.code = "4.02"])
  /\ UNCHANGED <<entries, proxy, message_id, token, known, forwarded>>

\* ACK and RST look for a pending connection, and there is none.
NotARequest ==
  /\ pc = "dispatch" /\ Has(Current, "TOKEN") /\ Current.type \in {"ACK", "RST"}
  /\ Drop
  /\ UNCHANGED <<entries, proxy, message_id, token, known, forwarded>>

IsRequest ==
  /\ pc = "dispatch" /\ Has(Current, "TOKEN")
  /\ Current.type = "NON" \/ (Current.type = "CON" /\ CheckOptions(Current))
IsServed == IsRequest /\ ~Has(Current, "PROXY_URI") /\ Has(Current, "URI_PATH")

\* coap_pdu_parse_uri: coap:// and an address in brackets; a path and a query
\* are looked for, and left unset when there are none.
ParseUri(uri) == uri.scheme = "coap" /\ uri.host = "address"

\* Another Proxy-Uri.
BadUri ==
  /\ IsRequest /\ Has(Current, "PROXY_URI")
  /\ ~ParseUri(Current.options["PROXY_URI"])
  /\ Drop
  /\ UNCHANGED <<entries, proxy, message_id, token, known, forwarded>>

\* coap_pdu_copy: header and options.  The payload is printed into the new PDU as
\* a format (what that does to the memory is in Crash), but the length of the new
\* PDU stays zero, so that none of it is ever sent.
CopyOf(r) == [OptionUnset(r, {"PROXY_URI", "TOKEN"}) EXCEPT !.payload = <<>>]

\* What a pointer that nobody has set points to.
Junk == <<255>>

\* A request for another server, and what is sent of it, with a new id and token.
\* Where the URI has no path or no query, uri_path or uri_query is read unset.
Target == Current.options["PROXY_URI"]
ForAnother == IsRequest /\ Has(Current, "PROXY_URI") /\ ParseUri(Target)

Routed ==
  OptionInsert(OptionInsert([CopyOf(Current) EXCEPT !.id = message_id % 65536],
                            "TOKEN", TokenKey(token)),
               "URI_PATH", IF Target.path = <<>> THEN Junk ELSE Target.path)
Asking ==
  OptionInsert(Routed, "URI_QUERY",
    IF DOMAIN Target.query = {} THEN [v \in {"junk"} |-> Junk] ELSE Target.query)

\* coap_client_send of the inner client always succeeds, and the request is kept
\* under the new token.
Forward ==
  /\ ForAnother
  /\ \/ DOMAIN Target.query = {} /\ forwarded' = Append(forwarded, Routed)
     \/ forwarded' = Append(forwarded, Asking)
  /\ proxy' = NodeInsert(proxy, [key |-> TokenKey(token), pdu |-> Current])
  /\ message_id' = Advance(message_id) /\ token' = Advance(token)
  /\ GoOn(Delete(dispatch, Current))
  /\ UNCHANGED <<entries, known, answers>>

NoPath ==
  /\ IsRequest /\ ~Has(Current, "PROXY_URI") /\ ~Has(Current, "URI_PATH")
  /\ Drop
  /\ UNCHANGED <<entries, proxy, message_id, token, known, forwarded>>

----------------------------------------------------------------------------
(* .well-known/core.                                                       *)

\* The filters of a query on a resource.
Fits(r, res) ==
  /\ Asks(r, "rt") => Query(r).rt = res.rt
  /\ Asks(r, "if") => Query(r)["if"] = res.ifd
  /\ Asks(r, "sz") => Query(r).sz = res.sz

\* The type core-rd, and the line that stands for the directory.
CoreRd == <<0>>

\* The links are printed behind the payload of the request, unless a query asks
\* for the directory, or for no type: then the line of the directory is first.
\* There is one resource.
Listing(r) ==
  LET first == Has(r, "URI_QUERY") /\ (Asks(r, "rt") => Query(r).rt = CoreRd)
      links == IF Fits(r, Resources[1]) THEN <<LinkFormat(Resources[1])>> ELSE <<>>
  IN  (IF first THEN <<CoreRd>> ELSE r.payload) \o links

Discover ==
  /\ IsServed /\ Current.options["URI_PATH"].dir = "core"
  /\ Answer(CleanCommonOptions(
       IF Current.code = "GET"
         THEN [Current EXCEPT !.type = "ACK", !.code = "2.05", !.payload = Listing(Current)]
         ELSE [Current EXCEPT !.type = "ACK", !.code = "4.05"]))
  /\ UNCHANGED <<entries, proxy, message_id, token, known, forwarded>>

----------------------------------------------------------------------------
(* The resource directory.                                                 *)

IsDirectory(code) ==
  /\ IsServed /\ Current.options["URI_PATH"].dir = "rd" /\ Current.code = code

\* rd_send: the answer goes out here and again behind the switch.
RdSend(r) ==
  LET a == OptionUnset([r EXCEPT !.type = "ACK"],
                       {"URI_PATH", "URI_QUERY", "CONTENT_TYPE"})
  IN  /\ answers' = answers \o <<a, a>>
      /\ GoOn(ResponseSend(ResponseSend(dispatch, a), a))

BadRequest(text) ==
  RdSend([Current EXCEPT !.code = "4.00", !.payload = << <<text>> >>])

\* A registration without a name, of the wrong type or without a link.
RdRefuse ==
  /\ IsDirectory("POST")
  /\ \/ /\ ~Has(Current, "URI_QUERY") \/ ~Has(Current, "CONTENT_TYPE")
        /\ BadRequest(1)
     \/ /\ Has(Current, "URI_QUERY") /\ Has(Current, "CONTENT_TYPE")
        /\ \/ Current.options["CONTENT_TYPE"] # 40 /\ BadRequest(2)
           \/ /\ Current.options["CONTENT_TYPE"] = 40
              /\ \/ ~Asks(Current, "ep") /\ BadRequest(3)
                 \/ Asks(Current, "ep") /\ Current.payload = <<>> /\ BadRequest(4)
  /\ UNCHANGED <<entries, proxy, message_id, token, known, forwarded>>

\* coap_server_rd_update keeps one resource, its path the link of the payload,
\* or what lies between the first attribute and the last link of several; the
\* location in the answer is made of it.
RdPost ==
  /\ IsDirectory("POST")
  /\ Has(Current, "URI_QUERY") /\ Has(Current, "CONTENT_TYPE")
  /\ Current.options["CONTENT_TYPE"] = 40
  /\ Asks(Current, "ep") /\ Current.payload # <<>>
  /\ LET entry == [NewEntry(Query(Current).ep) EXCEPT
                     !.lt = IF Asks(Current, "lt") THEN Query(Current).lt ELSE @,
                     !.coap_res = Current.payload]
     IN  entries' = NodeInsert(entries, entry)
  /\ RdSend(OptionInsert([Current EXCEPT !.code = "2.01", !.payload = <<>>],
                         "LOCATION_PATH", Current.payload))
  /\ UNCHANGED <<proxy, message_id, token, known, forwarded>>

\* resource_filter prints the observers of an entry, not its resource: the
\* answer is as long as the payload of the request was, and blank; or whatever
\* the browsers look like that watch the entry.
Blank == [i \in DOMAIN Current.payload |-> <<>>]
Printed == IF \E k \in DOMAIN entries : entries[k].watched
             THEN {Blank, Append(Blank, <<255>>)} ELSE {Blank}

RdGet ==
  /\ IsDirectory("GET")
  /\ \E payload \in Printed :
       RdSend([Current EXCEPT !.code = "2.05", !.payload = payload])
  /\ UNCHANGED <<entries, proxy, message_id, token, known, forwarded>>

\* update_rd, for each browser that watches the entry: its name is put into
\* resource_directory if it is not there; the statements that would change the
\* resources name a table that does not exist.
Recorded(k) == IF entries[k].watched THEN known \cup {entries[k].key} ELSE known

\* The first entry whose name starts with the one that is asked for goes.
\* Otherwise the code of the answer is that of the request.
SlipLeft(name) == SelectSeq(entries, LAMBDA e : ~StartsWith(e.key, name))
Left(name) == NodeDelete(entries, name, Len(name))

RdDelete ==
  /\ IsDirectory("DELETE")
  /\ LET name == Current.options["URI_PATH"].name
         k    == EntryFor(name)
     IN  IF k = 0
           THEN RdSend(Current) /\ UNCHANGED <<entries, known>>
           ELSE /\ entries' = Left(name)
                /\ known' = Recorded(k)
                /\ RdSend([Current EXCEPT !.code = "2.02", !.payload = <<>>])
  /\ UNCHANGED <<proxy, message_id, token, forwarded>>

\* The entry that a PUT changes stays where it is, and keeps its name.
SlipUpdated(k, lt, links) ==
  [entries EXCEPT ![k] = [NewEntry(Current.options["URI_PATH"].name) EXCEPT
                            !.lt = lt, !.coap_res = links]]
Updated(k, lt, links) == [entries EXCEPT ![k].lt = lt, ![k].coap_res = links]

\* The lifetime is changed before the payload is looked at; an entry that is not
\* there is changed with success.
RdPut ==
  /\ IsDirectory("PUT")
  /\ LET k  == EntryFor(Current.options["URI_PATH"].name)
         lt == IF Asks(Current, "lt") THEN Query(Current).lt ELSE entries[k].lt
         ok == k = 0 \/ Current.payload # <<>>
     IN  /\ entries' = IF k = 0 THEN entries
                       ELSE Updated(k, lt, IF ok THEN Current.payload
                                                 ELSE entries[k].coap_res)
         /\ IF ok THEN RdSend([Current EXCEPT !.code = "2.04", !.payload = <<>>])
                  ELSE BadRequest(4)
  /\ UNCHANGED <<proxy, message_id, token, known, forwarded>>

\* Any other code is acknowledged as it came.
RdOther ==
  /\ IsServed /\ Current.options["URI_PATH"].dir = "rd"
  /\ Current.code \notin {"GET", "POST", "PUT", "DELETE"}
  /\ RdSend(Current)
  /\ UNCHANGED <<entries, proxy, message_id, token, known, forwarded>>

----------------------------------------------------------------------------
(* Resources.                                                              *)

\* handler_resource of main.c.
Handled(r) == [OptionUnset(r, {"URI_PATH"}) EXCEPT
                 !.type = "ACK", !.code = "2.05", !.payload = << <<5>> >>]

\* Every method is handled alike, and every prefix of the path is found.
Generic ==
  /\ IsServed /\ Current.options["URI_PATH"].dir = "other"
  /\ IF ResourceFor(Current) = 0 THEN Drop ELSE Answer(Handled(Current))
  /\ UNCHANGED <<entries, proxy, message_id, token, known, forwarded>>

\* Undefined behaviour that ends the process: "obs" is read at 387 though the
\* lookup at 383 has not set it; a path or a query is read that the URI did not
\* have; the payload of what is forwarded is printed as a format; the type of a
\* registration is printed through a pointer nobody has set; a payload without the
\* marks of a link is read past its end; browsers are taken for resources.
Crash ==
  /\ \/ IsServed
     \/ /\ ForAnother
        /\ Target.path = <<>> \/ DOMAIN Target.query = {} \/ Current.payload # <<>>
  /\ Stop

----------------------------------------------------------------------------
Rd == RdRefuse \/ RdPost \/ RdGet \/ RdDelete \/ RdPut \/ RdOther
Dispatched == NoToken \/ BadOption \/ NotARequest \/ BadUri \/ Forward \/ NoPath
              \/ Discover \/ Rd \/ Generic

Environment == \/ Start \/ Kill
               \/ \E r \in Requests : Arrive(r)
               \/ \E k \in DOMAIN entries : Watch(k)

Next == Environment \/ Read \/ Dispatched \/ Crash
Spec == Init /\ [][Next]_vars

\* The loop of serve() never rests.
FairSpec == Spec /\ WF_vars(Read \/ Dispatched)

----------------------------------------------------------------------------
(* Properties.                                                             *)

\* The state has its types; the counters of the inner client are 16 bits wide
\* once they have been used, and the loop stands on a node while it runs.
TypeOK ==
  /\ pc \in {"down", "select", "dispatch"}
  /\ \A i \in DOMAIN socketq : IsPdu(socketq[i])
  /\ \A i \in DOMAIN dispatch : IsPdu(dispatch[i].pdu)
  /\ \A i \in DOMAIN answers : IsPdu(answers[i])
  /\ \A i \in DOMAIN forwarded : IsPdu(forwarded[i])
  /\ \A k \in DOMAIN entries : entries[k].lt \in Int /\ entries[k].watched \in BOOLEAN
  /\ message_id \in InitIds \cup Uint16 /\ token \in InitTokens \cup Uint16
  /\ pc = "dispatch" => at \in DOMAIN dispatch
  /\ requests \in 0..MaxRequests /\ starts \in 0..MaxStarts
  /\ loaded \in 0..Len(Rows)

Answering(w) == {i \in DOMAIN answers : Who(answers[i]) = w}

\* Back in serve(), nothing is left in the dispatch queue, and each PDU that was
\* dispatched has been answered as often as the code owes, to the host that sent
\* it and with its id and token; every answer is an acknowledgement, and there
\* is no other (a PDU that stayed in the queue would be answered again with the
\* next datagram).
Settled ==
  pc = "select" =>
    /\ dispatch = <<>>
    /\ \A w \in DOMAIN owed : Cardinality(Answering(w)) = owed[w]
    /\ \A i \in DOMAIN answers :
         answers[i].type = "ACK" /\ Who(answers[i]) \in DOMAIN owed

Answered(code) == {i \in DOMAIN answers : answers[i].code = code}

\* The directory agrees with what its clients were told since the start: it has
\* the rows that were read, one entry for each registration confirmed with 2.01
\* (repeated datagrams count, each is confirmed), less one for each confirmed
\* removal; each answer was sent twice.
Ledger ==
  pc = "select" =>
    2 * Len(entries) + Cardinality(Answered("2.02"))
      = 2 * loaded + Cardinality(Answered("2.01"))

\* What the server promises of its directory (Directory).
Told(e) == [name |-> e.key, lt |-> e.lt, links |-> e.coap_res]
D == INSTANCE Directory WITH
       open    <- pc # "down",
       listed  <- ToBag([k \in DOMAIN entries |-> Told(entries[k])]),
       initials <- {ToBag([i \in 1..n |-> Told(NewEntry(Rows[i].dir))]) : n \in Reads},
       told    <- [code \in {"2.01", "2.02"} |-> Cardinality(Answered(code))]

\* Every step of the server is a step of the directory, or none of its business.
ImplementsDirectory == D!Spec

\* Every datagram in the socket is taken and dispatched, unless the process
\* stops: the loop always comes back to serve(), however the queue changes
\* under it.
Settles ==
  (socketq # <<>> \/ pc = "dispatch") ~>
    (pc = "down" \/ (pc = "select" /\ socketq = <<>>))
=============================================================================
