--------------------------- MODULE PduCodecClaims ---------------------------
(***************************************************************************)
(* What the headers say of messages and the code does not keep.            *)
(***************************************************************************)
EXTENDS PduCodec

\* coap_option.h:24: "COAP_OPTION_URI_PATH = 9, /* C, string, 1-270 B, "" */".
\* So a request for a path of such a length is read as it was written.
PathsArrive ==
  sent # <<>> /\ Len(sent[1].opts) = 1 /\ sent[1].opts[1].code = URI_PATH
    /\ Len(sent[1].opts[1].data) \in 1..270
    => /\ status \notin {"refused", "crashed"}
       /\ status = "done" => in = sent[1]
=============================================================================
