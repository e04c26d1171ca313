------------------------- MODULE ObserveProxyClaims -------------------------
(***************************************************************************)
(* What comments and documents of the repository say of the proxy and its  *)
(* client, and the code does not do.  Each claim is checked by a run of    *)
(* its own, in which TLC finds a behaviour that breaks it.                 *)
(***************************************************************************)
EXTENDS ObserveProxy

\* coap_client.h:48, of coap_client_dispatch: "Matches received responses with
\* sent requests and calls the response handler to pass the CoAP response to
\* upper layers."  So a notification whose token is that of a pending request
\* reaches the observers of the entry the request is about.
MatchedIsHandled ==
  [][\A i \in DOMAIN pending :
       LET m == Head(clientq)
           k == EntryFor(pending[i].path)
       IN  /\ pc = "client" /\ "client" \in ready /\ pc' = "server"
           /\ m.token = pending[i].key /\ m.type = "CON" /\ m.observe
           /\ k # 0
           => \A w \in Range(entries[k].observers) :
                Listening(w) => inbox'[w] = Append(inbox[w], Frame(m))]_vars

\* coap_client.c:135, of an answer in an ACK without Observe: "Piggy-backed
\* response: remove from connections list."  So the connection of the request
\* it answers is not pending any more.
PiggybackedIsRemoved ==
  [][LET m == Head(clientq)
     IN  /\ pc = "client" /\ "client" \in ready /\ pc' = "server"
         /\ m.type = "ACK" /\ m.code # "EMPTY" /\ ~m.observe
         /\ pending # <<>>
         /\ m.token = pending[1].key /\ m.id = pending[1].id
         => pending[1].owner \notin OwnersIn(pending')]_vars

\* coap_server.c:572, of POST: "If resource were previously sent, then delete
\* them if is a POST request."  So a name is registered once.
RegisteredOnce ==
  \A i, j \in DOMAIN entries : i # j => entries[i].key # entries[j].key

\* README.md:4: "HTTP-CoAP proxy using WebSocket and FastCGI."  So an HTTP
\* request the proxy has read is answered, unless the process has stopped.
HttpIsAnswered ==
  \A h \in HttpReqs : http[h].stage = "reading" /\ http[h].spoken
                        ~> (http[h].stage = "finished" \/ Halted)
=============================================================================
