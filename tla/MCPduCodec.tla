----------------------------- MODULE MCPduCodec -----------------------------
(* A small instance of PduCodec for TLC.                                   *)
EXTENDS PduCodecClaims, TLC

\* Contents of the lengths at which the form changes.
Bytes(len, b) == SubSeq([i \in 1..len |-> b], 1, len)
MCDatas == {Bytes(len, 240) : len \in {0, 14, 15, 16, 142, 143}}

\* Uri-Path and If-None-Match.
MCCodes == {9, 21}
MCPayloads == {<<>>, <<255, 31>>}

\* Too short; an option twice; an option that ends behind the packet, as the last
\* and with one to follow; extension bytes taken for negative; a code beyond 127.
MCPackets ==
  { <<96, 0, 1, 2>>,
    <<66, 1, 1, 2, 177, 5, 1, 6>>,
    <<65, 1, 1, 2, 178, 5>>,
    <<66, 1, 1, 2, 178, 5>>,
    <<65, 1, 1, 2, 191, 128, 1>>,
    <<65, 1, 1, 2, 191, 241, 1>>,
    <<74, 1, 1, 2>> \o Bytes(10, 208) }
=============================================================================
