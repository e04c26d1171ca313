----------------------------- MODULE CoapClient -----------------------------
(***************************************************************************)
(* The CoAP client of coap/coap_client.c as operators on its state: the    *)
(* two counters of its context and the pending queue.  The programs that   *)
(* embed a client call these operators from their own actions.             *)
(*                                                                         *)
(* A node of the pending queue stands for a coap_context_connection_t and  *)
(* the request in it:                                                      *)
(*   key                  the token of the request, which the program that *)
(*                        inserts the node also uses as its key            *)
(*   id, path             message id and Uri-Path of the request           *)
(*   is_observe, is_separate_response, n_retransmit                        *)
(*   owner                the connection_t the answer is for               *)
(* A datagram has a type, a code (EMPTY is 0, anything else a response),   *)
(* an id, a token (<<>> when it has none) and observe, TRUE when it        *)
(* carries an Observe option.                                              *)
(*                                                                         *)
(* SlipAdvance is a fault of Advance; no specification uses it.            *)
(***************************************************************************)
EXTENDS CoapList, FiniteSets, SequencesExt

MAX_RETRANSMIT == 4

\* message_id and token advance modulo pow(2,16); the sum of the code is
\* unsigned, so the largest value of rand() is no exception.
SlipAdvance(n) == n + 1
Advance(n) == ((n % 65536) + 1) % 65536

\* coap_client_send of a request: the id, cut to its 16 bits, and the token it
\* goes out with.
Stamp(request, message_id, token) ==
  [request EXCEPT !.id = message_id % 65536, !.key = TokenKey(token)]

\* Why the inner loop of coap_client_dispatch goes on to the next connection:
\* line 165, a notification without Observe for a connection that observes.
\* Every other way through the body ends in the "break" of line 191.
Skipped(conn, m) ==
  /\ conn.key = m.token
  /\ m.type \in {"CON", "NON"}
  /\ conn.is_observe
  /\ ~m.observe

\* The connection the inner loop stops at, or 0 when there is none.
Examined(pending, m) ==
  LET kept == {i \in DOMAIN pending : ~Skipped(pending[i], m)}
  IN  IF kept = {} THEN 0 ELSE CHOOSE i \in kept : \A j \in kept : i <= j

\* What coap_client_dispatch does with one datagram.
\*   handled  response_received is called
\*   seen     the pending queue as it is when response_received runs
\*   after    the pending queue when the datagram is done with
\*   acked    an empty ACK 2.05 is sent back
Dispatch(pending, m) ==
  LET i        == IF m.token = <<>> THEN 0 ELSE Examined(pending, m)
      conn     == pending[i]
      matched  == i # 0 /\ conn.key = m.token
      isAck    == matched /\ m.type = "ACK" /\ conn.id = m.id
      answered == isAck /\ m.code # "EMPTY"
      separate == matched /\ m.type \in {"CON", "NON"}
      removed  == NodeDelete(pending, IdKey(conn.id), IdKeyLen)
      ended    == separate /\ ~conn.is_observe
  IN  [ handled |-> answered \/ separate,
        seen    |-> IF ended THEN removed ELSE pending,
        after   |-> IF answered /\ m.observe
                      THEN [pending EXCEPT ![i].is_observe = TRUE]
                    ELSE IF answered \/ ended THEN removed
                    ELSE IF isAck
                      THEN [pending EXCEPT ![i].is_separate_response = TRUE]
                    ELSE pending,
        acked   |-> separate ]

\* The condition of line 209.  Its third part compares an unsigned sum with 0,
\* so it always holds.
Due(conn) == ~conn.is_observe /\ ~conn.is_separate_response

\* One turn of the loop of coap_client_clean_pending.
CleanOne(pending, conn) ==
  IF ~Due(conn) THEN pending
  ELSE IF conn.n_retransmit + 1 > MAX_RETRANSMIT
         THEN NodeDelete(pending, conn.key, Len(conn.key))
         ELSE [i \in DOMAIN pending |->
                 IF pending[i] = conn
                   THEN [conn EXCEPT !.n_retransmit = @ + 1] ELSE pending[i]]

\* coap_client_clean_pending: the whole loop, which does nothing when no
\* connection is due.
CleanPending(pending) ==
  IF \E i \in DOMAIN pending : Due(pending[i])
    THEN FoldLeft(CleanOne, pending, pending)
    ELSE pending
=============================================================================
