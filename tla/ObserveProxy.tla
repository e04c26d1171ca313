---------------------------- MODULE ObserveProxy ----------------------------
(***************************************************************************)
(* The proxy process of proxy/main.c: one thread, one select loop, and the *)
(* web clients and CoAP nodes around it.                                   *)
(*                                                                         *)
(* A node registers a name in the resource directory (POST rd?ep=<name>).  *)
(* A browser opens a WebSocket for "<name>" or "observe/<name>".  The      *)
(* first "observe" on an entry nobody watches makes the proxy send one     *)
(* CoAP observe request; the later browsers only join the observers of the *)
(* entry.  Each notification that comes back is sent to all of them.       *)
(*                                                                         *)
(* pc is the place in the loop of serve(): "select", then the turns of the *)
(* "client", "server", "fcgi" and "websocket" sockets, "accept" while      *)
(* FCGX_Accept_r waits for a connection and "request" while it reads the   *)
(* request of one, "handshake" while the blocking read of                  *)
(* websocket_do_handshake waits, "hung" inside the endless loop of         *)
(* write_fd and "crashed" after undefined behaviour.                       *)
(*                                                                         *)
(* An operator SlipX is a fault someone could make in X; Spec uses none.   *)
(* They show that the properties notice such faults (see README.md).       *)
(***************************************************************************)
EXTENDS CoapClient

CONSTANTS
  Ws,            \* WebSocket connections browsers may open
  HttpReqs,      \* HTTP requests the web server may pass on by FastCGI
  Names,         \* names nodes register (character sequences)
  Asks,          \* names browsers ask for
  Values,        \* payloads a node may send
  Methods,       \* what nodes ask of the directory: POST, GET, PUT, DELETE
  Types,         \* CoAP message types nodes send, of CON, NON, ACK and RST
  StrayTokens,   \* tokens no request of this run carries; <<>> is "no token"
  InitIds,       \* first message ids and tokens rand() may give
  InitTokens,
  SocketCap,     \* datagrams a UDP socket holds
  MaxDatagrams,  \* bound: datagrams that reach the client socket
  MaxRd          \* bound: requests that reach the resource directory

ASSUME KeysAreStrings == Names \cup Asks \cup StrayTokens \subseteq Str
ASSUME CountersAreRandom == InitIds \cup InitTokens \subseteq Random
ASSUME BoundsAreNat == {SocketCap, MaxDatagrams, MaxRd} \subseteq Nat
ASSUME MethodsAreRd == Methods \subseteq {"POST", "GET", "PUT", "DELETE"}
ASSUME TypesAreCoap == Types \subseteq {"CON", "NON", "ACK", "RST"}

VARIABLES
  pc, ready,           \* place in serve() and the sockets select reported
  message_id, token,   \* counters of the client context
  pending,             \* client->context->pending_queue
  entries,             \* server->rd->entries; each with its observers
  clientq, serverq,    \* datagrams in the two UDP sockets
  backlog,             \* connections the WebSocket port has not accepted yet
  ws,                  \* each WebSocket: its request and what became of it
  inbox,               \* frames each browser has received
  http,                \* each HTTP request
  sent,                \* requests the client has sent
  datagrams, rdRequests

proxyVars == <<pc, ready, message_id, token, pending, entries, sent>>
vars == <<proxyVars, clientq, serverq, backlog, ws, inbox, http,
          datagrams, rdRequests>>

Halted == pc \in {"hung", "crashed"}

Init ==
  /\ pc = "select" /\ ready = {}
  /\ message_id \in InitIds /\ token \in InitTokens
  /\ pending = <<>> /\ entries = <<>> /\ sent = {}
  /\ clientq = <<>> /\ serverq = <<>> /\ backlog = <<>>
  /\ ws = [w \in Ws |-> [stage |-> "idle", name |-> <<>>, observe |-> FALSE,
                         spoken |-> FALSE, open |-> FALSE]]
  /\ inbox = [w \in Ws |-> <<>>]
  /\ http = [h \in HttpReqs |-> [stage |-> "idle", name |-> <<>>,
                                 spoken |-> FALSE, open |-> FALSE]]
  /\ datagrams = 0 /\ rdRequests = 0

-----------------------------------------------------------------------------
(* Browsers, the web server, the nodes and the network.                    *)

\* A browser connects; its request says what it wants to see and is there (now)
\* when the proxy comes to read it, or not yet.
Connect(w, n, o, now) ==
  /\ ws[w].stage = "idle"
  /\ ws' = [ws EXCEPT ![w] = [stage |-> "backlog", name |-> n, observe |-> o,
                              spoken |-> now, open |-> TRUE]]
  /\ backlog' = Append(backlog, w)
  /\ UNCHANGED <<proxyVars, clientq, serverq, inbox, http, datagrams, rdRequests>>

\* The handshake request of a browser the proxy waits for arrives.
Speak(w) ==
  /\ ws[w].stage = "handshake" /\ ws[w].open /\ ~ws[w].spoken
  /\ ws' = [ws EXCEPT ![w].spoken = TRUE]
  /\ UNCHANGED <<proxyVars, clientq, serverq, backlog, inbox, http,
                 datagrams, rdRequests>>

\* The browser goes away, at any moment.
Close(w) ==
  /\ ws[w].open
  /\ ws' = [ws EXCEPT ![w].open = FALSE]
  /\ UNCHANGED <<proxyVars, clientq, serverq, backlog, inbox, http,
                 datagrams, rdRequests>>

\* The web server opens a connection for an HTTP request; the whole request is
\* there (now) when the proxy comes to read it, or not yet, or never.
HttpRequest(h, n, now) ==
  /\ http[h].stage = "idle"
  /\ http' = [http EXCEPT ![h] = [stage |-> "queued", name |-> n,
                                  spoken |-> now, open |-> TRUE]]
  /\ UNCHANGED <<proxyVars, clientq, serverq, backlog, ws, inbox,
                 datagrams, rdRequests>>

\* The rest of a request the proxy waits for arrives.
HttpSpeak(h) ==
  /\ http[h].stage = "reading" /\ http[h].open /\ ~http[h].spoken
  /\ http' = [http EXCEPT ![h].spoken = TRUE]
  /\ UNCHANGED <<proxyVars, clientq, serverq, backlog, ws, inbox,
                 datagrams, rdRequests>>

\* The web server hangs up before the end of its request, or sends something
\* FCGX_Accept_r makes nothing of.
HttpClose(h) ==
  /\ http[h].open /\ ~http[h].spoken
  /\ http' = [http EXCEPT ![h].open = FALSE]
  /\ UNCHANGED <<proxyVars, clientq, serverq, backlog, ws, inbox,
                 datagrams, rdRequests>>

\* Answers and notifications a node can give to a request it has received.
\* Any of them may arrive any number of times, in any order, or never: that is
\* the network losing, repeating and reordering datagrams.
Answers(r) ==
  {[type |-> t, code |-> c, id |-> r.id, token |-> r.key, observe |-> o,
    path |-> r.path, value |-> v] :
      t \in Types, c \in {"EMPTY", "2.05"}, o \in BOOLEAN, v \in Values \cup {0}}

WellFormed(m) ==
  /\ m.code = "EMPTY" => m.type \in {"ACK", "RST"} /\ ~m.observe
  /\ m.type = "RST" => m.code = "EMPTY"
  /\ m.value = 0 <=> m.code = "EMPTY"

Stray(t) == [type |-> "CON", code |-> "2.05", id |-> 0, token |-> t,
             observe |-> TRUE, path |-> <<0>>, value |-> 1]

ClientDatagram(m) ==
  /\ datagrams < MaxDatagrams /\ Len(clientq) < SocketCap
  /\ WellFormed(m)
  /\ clientq' = Append(clientq, m)
  /\ datagrams' = datagrams + 1
  /\ UNCHANGED <<proxyVars, serverq, backlog, ws, inbox, http, rdRequests>>

RdDatagram(method, n) ==
  /\ rdRequests < MaxRd /\ Len(serverq) < SocketCap
  /\ serverq' = Append(serverq, [method |-> method, name |-> n])
  /\ rdRequests' = rdRequests + 1
  /\ UNCHANGED <<proxyVars, clientq, backlog, ws, inbox, http, datagrams>>

\* Nothing the environment does after the process has stopped matters.
Environment ==
  /\ ~Halted
  /\ \/ \E w \in Ws, n \in Asks, o, now \in BOOLEAN : Connect(w, n, o, now)
     \/ \E w \in Ws : Speak(w) \/ Close(w)
     \/ \E h \in HttpReqs, n \in Asks, now \in BOOLEAN : HttpRequest(h, n, now)
     \/ \E h \in HttpReqs : HttpSpeak(h) \/ HttpClose(h)
     \/ \E r \in sent : \E m \in Answers(r) : ClientDatagram(m)
     \/ \E t \in StrayTokens : ClientDatagram(Stray(t))
     \/ \E method \in Methods, n \in Names : RdDatagram(method, n)
-----------------------------------------------------------------------------
(* The loop of serve().                                                    *)

Sockets == {"client", "server", "fcgi", "websocket"}
Readable(s) ==
  CASE s = "client"    -> clientq # <<>>
    [] s = "server"    -> serverq # <<>>
    [] s = "fcgi"      -> \E h \in HttpReqs : http[h].stage = "queued"
    [] s = "websocket" -> backlog # <<>>

SlipNextTurn(s) == CASE s = "client" -> "server" [] s = "server" -> "fcgi"
                     [] s \in {"fcgi", "websocket"} -> "select"
NextTurn(s) == CASE s = "client" -> "server" [] s = "server" -> "fcgi"
                 [] s = "fcgi" -> "websocket" [] s = "websocket" -> "select"

\* select() returns at once when a socket is readable and after two seconds
\* otherwise.  The rest of the turn works on this snapshot; on that of all the
\* sockets when select() fails with anything but EINTR, for nobody looks at rc
\* and the sets are as the loop has filled them.
Select ==
  /\ pc = "select"
  /\ pc' = "client"
  /\ ready' \in {{s \in Sockets : Readable(s)}, Sockets}
  /\ UNCHANGED <<message_id, token, pending, entries, sent, clientq, serverq,
                 backlog, ws, inbox, http, datagrams, rdRequests>>

\* A socket that was not readable.  coap_server_clean_pending, called when it
\* is the server's, finds every list it works on empty.
Pass(s) ==
  /\ pc = s /\ s \notin ready
  /\ pc' = NextTurn(s)
  /\ pending' = IF s = "client" THEN CleanPending(pending) ELSE pending
  /\ UNCHANGED <<ready, message_id, token, entries, sent, clientq, serverq,
                 backlog, ws, inbox, http, datagrams, rdRequests>>

SlipEntryFor(name) == NodeGet(entries, name, 0)   \* a length of 0 fits all
EntryFor(name) == NodeGet(entries, name, Len(name))

\* The connections client_response_received sends a response to; the slip has
\* lost the loop over the observers.
SlipRecipients(queue, m) ==
  LET j == NodeGet(queue, m.token, Len(m.token))
  IN  IF j = 0 THEN <<>> ELSE <<queue[j].owner>>
Recipients(queue, m) ==
  LET j == NodeGet(queue, m.token, Len(m.token))
      k == EntryFor(queue[j].path)
  IN  IF j = 0 THEN <<>>
      ELSE IF ~m.observe THEN <<queue[j].owner>>
      ELSE IF k = 0 THEN <<>> ELSE entries[k].observers

\* A frame reaches a browser that is still there.
Frame(m) == [path |-> m.path, value |-> m.value, observe |-> m.observe]
Listening(w) == ws[w].open /\ ws[w].stage # "freed"

\* One frame for each node of the list a connection is in.
Times(w, out) == Cardinality({i \in DOMAIN out : out[i] = w})
Receive(out, m) ==
  inbox' = [w \in Ws |-> IF Listening(w)
                           THEN inbox[w] \o [i \in 1..Times(w, out) |-> Frame(m)]
                           ELSE inbox[w]]

\* The connections freed with the nodes that left the pending queue.
OwnersIn(queue) == {queue[i].owner : i \in DOMAIN queue}
FreeOwners(gone) ==
  ws' = [w \in Ws |-> IF w \in gone THEN [ws[w] EXCEPT !.stage = "freed"]
                                    ELSE ws[w]]

\* The frames of m go out to the connections of "out" one by one; d is what
\* the dispatcher made of m.  A write to a browser that has gone may be
\* swallowed or fail, and then write_fd never returns; a connection that was
\* freed is undefined behaviour.
PassOn(m, d, out) ==
  \/ /\ Receive(out, m)
     /\ pending' = d.after
     /\ FreeOwners(OwnersIn(pending) \ OwnersIn(d.after))
     /\ pc' = "server"
  \/ \E k \in DOMAIN out :
       /\ ~Listening(out[k])
       /\ Receive(SubSeq(out, 1, k - 1), m)
       /\ pending' = d.seen
       /\ FreeOwners(OwnersIn(pending) \ OwnersIn(d.seen))
       /\ pc' = IF ws[out[k]].stage = "freed" THEN "crashed" ELSE "hung"

\* One datagram from the client socket: coap_client_read, which waits for it,
\* coap_client_dispatch and, from inside it, client_response_received.
ClientTurn ==
  /\ pc = "client" /\ "client" \in ready /\ clientq # <<>>
  /\ \E m \in {Head(clientq)} : \E d \in {Dispatch(pending, m)} :
       PassOn(m, d, IF d.handled THEN Recipients(d.seen, m) ELSE <<>>)
  /\ clientq' = Tail(clientq)
  /\ UNCHANGED <<ready, message_id, token, entries, sent, serverq, backlog,
                 http, datagrams, rdRequests>>

\* POST adds an entry, DELETE takes the first that matches away and hands its
\* observers, which are connections, to the function that frees resources.
NewEntry(n) == [key |-> n, observers |-> <<>>]
Register(n) == /\ entries' = NodeInsert(entries, NewEntry(n))
               /\ UNCHANGED ws
Unregister(n) ==
  LET k == EntryFor(n)
  IN  /\ entries' = NodeDelete(entries, n, Len(n))
      /\ IF k = 0 THEN UNCHANGED ws ELSE FreeOwners(Range(entries[k].observers))

\* One request to the resource directory; PUT replaces what the entry says of
\* its node, which nothing here depends on.  "obs" of line 268 is read at 387
\* though the lookup at 383 has left it unset: the process may crash on any
\* request.  So it may when GET or DELETE take observers for resources.
ServerTurn ==
  /\ pc = "server" /\ "server" \in ready /\ serverq # <<>>
  /\ LET m == Head(serverq)
     IN  \/ /\ pc' = "fcgi"
            /\ \/ m.method = "POST" /\ Register(m.name)
               \/ m.method = "DELETE" /\ Unregister(m.name)
               \/ m.method \in {"GET", "PUT"} /\ UNCHANGED <<entries, ws>>
         \/ pc' = "crashed" /\ UNCHANGED <<entries, ws>>
  /\ serverq' = Tail(serverq)
  /\ UNCHANGED <<ready, message_id, token, pending, sent, clientq, backlog,
                 inbox, http, datagrams, rdRequests>>

\* process_fastcgi_request goes into FCGX_Accept_r.
FcgiTurn ==
  /\ pc = "fcgi" /\ "fcgi" \in ready
  /\ pc' = "accept"
  /\ UNCHANGED <<ready, message_id, token, pending, entries, sent, clientq,
                 serverq, backlog, ws, inbox, http, datagrams, rdRequests>>

\* FCGX_Accept_r takes the next connection as soon as there is one ...
AcceptHttp(h) ==
  /\ pc = "accept" /\ http[h].stage = "queued"
  /\ pc' = "request"
  /\ http' = [http EXCEPT ![h].stage = "reading"]
  /\ UNCHANGED <<ready, message_id, token, pending, entries, sent, clientq,
                 serverq, backlog, ws, inbox, datagrams, rdRequests>>

\* ... or its accept() fails, and the connection_t of this turn is deleted.  So may
\* the accept() of process_websocket_request.
AcceptFails ==
  /\ \/ pc = "accept" /\ pc' = "websocket"
     \/ pc = "websocket" /\ "websocket" \in ready /\ pc' = "select"
  /\ UNCHANGED <<ready, message_id, token, pending, entries, sent, clientq,
                 serverq, backlog, ws, inbox, http, datagrams, rdRequests>>

\* A connection without a request is closed, and FCGX_Accept_r waits for the
\* next one (TryAgain).
DropHttp(h) ==
  /\ pc = "request" /\ http[h].stage = "reading"
  /\ ~http[h].spoken /\ ~http[h].open
  /\ pc' = "accept"
  /\ http' = [http EXCEPT ![h].stage = "dropped"]
  /\ UNCHANGED <<ready, message_id, token, pending, entries, sent, clientq,
                 serverq, backlog, ws, inbox, datagrams, rdRequests>>

\* The rest of process_fastcgi_request.  An unknown path is finished at once.
\* For a known one coap_pdu_create writes through the unset pdu of the
\* connection; if the process survives that, a request goes out that nothing
\* remembers.  Without a REQUEST_URI line 102 reads through a null pointer.
HttpTurn(h) ==
  /\ pc = "request" /\ http[h].stage = "reading" /\ http[h].spoken
  /\ \/ /\ EntryFor(http[h].name) = 0
        /\ http' = [http EXCEPT ![h].stage = "finished"]
        /\ pc' = "websocket"
        /\ UNCHANGED <<message_id, token>>
     \/ /\ EntryFor(http[h].name) # 0
        /\ http' = [http EXCEPT ![h].stage = "forwarded"]
        /\ pc' = "websocket"
        /\ message_id' = Advance(message_id)
        /\ token' = Advance(token)
     \/ pc' = "crashed" /\ UNCHANGED <<http, message_id, token>>
  /\ UNCHANGED <<ready, pending, entries, sent, clientq, serverq, backlog, ws,
                 inbox, datagrams, rdRequests>>

\* process_websocket_request up to the blocking read of the handshake; accept()
\* waits for a browser.
WebsocketTurn ==
  /\ pc = "websocket" /\ "websocket" \in ready /\ backlog # <<>>
  /\ pc' = "handshake"
  /\ ws' = [ws EXCEPT ![Head(backlog)].stage = "handshake"]
  /\ backlog' = Tail(backlog)
  /\ UNCHANGED <<ready, message_id, token, pending, entries, sent, clientq,
                 serverq, inbox, http, datagrams, rdRequests>>

\* A browser joins the observers of entry k under the request (n, o); the slip
\* puts it there again for the observation it starts.
SlipJoin(w, k, n, o) ==
  /\ ws' = [ws EXCEPT ![w].stage = "observing", ![w].name = n, ![w].observe = o]
  /\ entries' = [entries EXCEPT ![k].observers =
                    NodeInsert(IF o THEN NodeInsert(@, w) ELSE @, w)]
Join(w, k, n, o) ==
  /\ ws' = [ws EXCEPT ![w].stage = "observing", ![w].name = n, ![w].observe = o]
  /\ entries' = [entries EXCEPT ![k].observers = NodeInsert(@, w)]

SlipNeedsObservation(o, entry) == o   \* without the second test of line 193
NeedsObservation(o, entry) == o /\ entry.observers = <<>>

\* The connection that waits for the answers to req (coap_context_connection_t,
\* main.c:173-199); the slip has lost line 196.
SlipAwaiting(req) == [key |-> req.key, id |-> req.id, path |-> req.path,
                      owner |-> req.owner, is_observe |-> FALSE,
                      is_separate_response |-> FALSE, n_retransmit |-> 0]
Awaiting(req) == [key |-> req.key, id |-> req.id, path |-> req.path,
                  owner |-> req.owner, is_observe |-> TRUE,
                  is_separate_response |-> FALSE, n_retransmit |-> 0]

\* The CoAP observe request goes out, and its connection is pending.
StartObservation(w, n) ==
  LET req == Stamp([key |-> <<>>, id |-> 0, path |-> n, owner |-> w],
                   message_id, token)
  IN  /\ sent' = sent \cup {req}
      /\ pending' = NodeInsert(pending, Awaiting(req))
      /\ message_id' = Advance(message_id)
      /\ token' = Advance(token)

\* The rest of process_websocket_request for a request read as (n, o).
Enter(w, n, o) ==
  LET k == EntryFor(n)
  IN  \/ /\ k # 0
         /\ pc' = "select"
         /\ Join(w, k, n, o)
         /\ IF NeedsObservation(o, entries[k])
              THEN StartObservation(w, n)
              ELSE UNCHANGED <<message_id, token, pending, sent>>
      \/ /\ k = 0
         /\ ws' = [ws EXCEPT ![w].stage = "freed"]
         \* free(uri) of a pointer into the block
         /\ pc' \in IF o THEN {"select", "crashed"} ELSE {"select"}
         /\ UNCHANGED <<message_id, token, pending, sent, entries>>

\* The browser's request arrives; or it has gone: its request, if it sent none,
\* is whatever the buffer held, and the answer may be the write that never ends.
Handshake(w) ==
  /\ pc = "handshake" /\ ws[w].stage = "handshake"
  /\ \/ ws[w].spoken /\ Enter(w, ws[w].name, ws[w].observe)
     \/ /\ ~ws[w].spoken /\ ~ws[w].open
        /\ \E n \in Names \cup {<<>>}, o \in BOOLEAN : Enter(w, n, o)
     \/ /\ ~ws[w].open
        /\ pc' \in IF ws[w].spoken THEN {"hung"} ELSE {"hung", "crashed"}
        /\ UNCHANGED <<message_id, token, pending, entries, sent, ws>>
  /\ UNCHANGED <<ready, clientq, serverq, backlog, inbox, http,
                 datagrams, rdRequests>>

ProxyStep ==
  \/ Select
  \/ \E s \in Sockets : Pass(s)
  \/ ClientTurn \/ ServerTurn \/ FcgiTurn \/ WebsocketTurn
  \/ \E h \in HttpReqs : AcceptHttp(h) \/ DropHttp(h) \/ HttpTurn(h)
  \/ \E w \in Ws : Handshake(w)

Next == Environment \/ AcceptFails \/ ProxyStep
Spec == Init /\ [][Next]_vars
\* The loop never rests: it is the only thread of a running process.  What ends
\* a wait is no step of it, and nothing makes an accept() fail.
FairSpec == Spec /\ WF_vars(ProxyStep)

-----------------------------------------------------------------------------
(* What the proxy promises.                                                *)

Request == [key : Str, id : Uint16, path : Str, owner : Ws]
Conn == [key : Str, id : Uint16, path : Str, owner : Ws,
         is_observe : BOOLEAN, is_separate_response : BOOLEAN,
         n_retransmit : Nat]
Entry == [key : Str, observers : Seq(Ws)]
Datagram == [type : {"CON", "NON", "ACK", "RST"}, code : {"EMPTY", "2.05"},
             id : Uint16, token : Str, observe : BOOLEAN, path : Str,
             value : Values \cup {0, 1}]
RdRequest == [method : Methods, name : Names]
WsState == [stage : {"idle", "backlog", "handshake", "observing", "freed"},
            name : Str, observe : BOOLEAN, spoken : BOOLEAN, open : BOOLEAN]
HttpState == [stage : {"idle", "queued", "reading", "dropped", "finished",
                       "forwarded"},
              name : Str, spoken : BOOLEAN, open : BOOLEAN]
FrameType == [path : Str, value : Values \cup {0, 1}, observe : BOOLEAN]

\* rand() gives a counter its first value, which may need 31 bits.
Ids == InitIds \cup Uint16
Tokens == InitTokens \cup Uint16

\* The state keeps its shape; above all the two counters, once they have moved,
\* stay within the 16 bits of an id, and the tokens with it (coap_client_send).
TypeOK ==
  /\ pc \in {"select", "accept", "request", "handshake", "hung", "crashed"}
            \cup Sockets
  /\ ready \subseteq Sockets
  /\ message_id \in Ids /\ token \in Tokens
  /\ pending \in Seq(Conn) /\ entries \in Seq(Entry) /\ sent \subseteq Request
  /\ clientq \in Seq(Datagram) /\ serverq \in Seq(RdRequest)
  /\ backlog \in Seq(Ws)
  /\ ws \in [Ws -> WsState] /\ inbox \in [Ws -> Seq(FrameType)]
  /\ http \in [HttpReqs -> HttpState]
  /\ datagrams \in Nat /\ rdRequests \in Nat

\* Each entry has at most one CoAP observation, and it belongs to the first
\* observer of the entry: whoever joins later, asking to observe or not, causes
\* no request (process_websocket_request, main.c:193), and stays behind the
\* first in the list through every insertion.  If the first did not ask to
\* observe, nobody behind it ever gets an observation.
Owners == {r.owner : r \in sent}
OneObservation ==
  \A k \in DOMAIN entries :
    LET obs == entries[k].observers
    IN  \A i \in DOMAIN obs :
          obs[i] \in Owners <=> i = 1 /\ ws[obs[1]].observe

\* Whose connection is where.  A pending request always observes and belongs to
\* a browser that has sent one, so coap_client_clean_pending never repeats or
\* drops it (coap_client.c:209); a browser that has sent one, or that is in the
\* observers of an entry, has been accepted, and is in no socket's backlog; the
\* backlog holds nobody twice, and neither do the observers of an entry, each
\* node of which is sent every notification (main.c:61).
Accepted(w) == ws[w].stage \in {"observing", "freed"}
Accounts ==
  /\ \A i \in DOMAIN pending : pending[i].is_observe /\ pending[i].owner \in Owners
  /\ \A w \in Owners : Accepted(w)
  /\ \A k \in DOMAIN entries : \A i \in DOMAIN entries[k].observers :
       Accepted(entries[k].observers[i])
  /\ \A k \in DOMAIN entries : IsInjective(entries[k].observers)
  /\ \A i \in DOMAIN backlog : ws[backlog[i]].stage = "backlog"
  /\ IsInjective(backlog)

\* The inductive invariant of the proofs.
IInv == TypeOK /\ Accounts /\ OneObservation

\* A browser receives nothing but answers about the name it asked for.  Lookups
\* compare prefixes, so "about" means that one name is a prefix of the other;
\* with names of which none is a prefix of another it means the same name.
\* The way goes through two lookups, token -> connection and path -> entry
\* (client_response_received), while entries come and go.
NoForeignDelivery ==
  \A w \in Ws : \A i \in DOMAIN inbox[w] :
    LET path == inbox[w][i].path
    IN  StartsWith(path, ws[w].name) \/ StartsWith(ws[w].name, path)

\* Every notification that is passed on reaches all the observers of the entry,
\* in one order: of two observers the one that joined later has received
\* exactly the last notifications of the other.  Later means nearer to the
\* front of the list, behind its first node.  (client_response_received,
\* main.c:61; not once write_fd hangs half way through the list.)
Notes(w) == SelectSeq(inbox[w], LAMBDA f : f.observe)
FanOut ==
  ~Halted =>
    \A k \in DOMAIN entries :
      LET obs == entries[k].observers
      IN  \A i, j \in DOMAIN obs :
            /\ i # 1 /\ (j = 1 \/ i < j)
            /\ Listening(obs[i]) /\ Listening(obs[j])
            => IsSuffix(Notes(obs[i]), Notes(obs[j]))

\* The proxy as publisher: entries are topics, joining is subscribing, and a
\* datagram that is handled is one notification to all the observers of one
\* entry or one answer to one browser, whatever goes on in the queues; deletion
\* of an entry takes its observers along (serve and all that it calls).
Topics == {Range(entries[k].observers) : k \in DOMAIN entries} \ {{}}
P == INSTANCE PubSub WITH
       Subscribers <- Ws,
       Frames   <- [path : Names \cup Asks \cup {<<>>, <<0>>},
                    value : Values \cup {0, 1}, observe : BOOLEAN],
       topics   <- Topics,
       present  <- {w \in Ws : Listening(w)},
       received <- inbox,
       stopped  <- Halted
ImplementsPubSub == P!Spec

\* A datagram puts at most one frame in front of a browser, the frame with its
\* own payload, and is gone from the socket after that (coap_client_dispatch
\* with client_response_received).
OneFramePerDatagram ==
  [][\A w \in Ws :
       \/ inbox'[w] = inbox[w]
       \/ /\ clientq # <<>> /\ clientq' = Tail(clientq)
          /\ inbox'[w] = Append(inbox[w], Frame(Head(clientq)))]_vars

\* The waits nothing bounds: for the request of a browser that is silent, for
\* that of a web server that is silent or stops half way, for a connection from
\* it after one that came to nothing, and, once a select() has failed, in
\* recvfrom(), FCGX_Accept_r or accept() for whatever the turn is about.
Waiting ==
  \/ /\ pc = "handshake"
     /\ \E w \in Ws : ws[w].stage = "handshake" /\ ws[w].open /\ ~ws[w].spoken
  \/ /\ pc = "request"
     /\ \E h \in HttpReqs :
          http[h].stage = "reading" /\ http[h].open /\ ~http[h].spoken
  \/ pc = "accept" /\ ~Readable("fcgi")
  \/ pc \in {"client", "server", "websocket"} /\ pc \in ready /\ ~Readable(pc)

\* No source of work starves: whatever waits in a socket is taken from it,
\* unless the process has stopped or its only thread waits for good; and a
\* connection also unless accept() fails again and again (serve).
EverySocketServed ==
  /\ clientq # <<>> ~> (clientq = <<>> \/ Halted \/ []Waiting)
  /\ serverq # <<>> ~> (serverq = <<>> \/ Halted \/ []Waiting)
  /\ \/ []<><<AcceptFails>>_vars
     \/ \A w \in Ws : ws[w].stage = "backlog"
                     ~> (ws[w].stage # "backlog" \/ Halted \/ []Waiting)
  /\ \/ []<><<AcceptFails>>_vars
     \/ \A h \in HttpReqs : http[h].stage = "queued"
                     ~> (http[h].stage # "queued" \/ Halted \/ []Waiting)
=============================================================================
