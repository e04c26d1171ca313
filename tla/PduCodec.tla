------------------------------ MODULE PduCodec ------------------------------
(***************************************************************************)
(* CoAP messages in memory and on the wire: coap/coap_pdu.c and            *)
(* coap/coap_option.c.                                                     *)
(*                                                                         *)
(* A program edits the message "out" and writes it, one option per step.   *)
(* The network brings the reader of another program these bytes or bytes   *)
(* of its own.  The reader takes one option per step into "in", which that *)
(* program may edit and send in its turn, as the server makes a request    *)
(* into its response.                                                      *)
(*                                                                         *)
(* All the lengths stay far from those of the buffers.                     *)
(*                                                                         *)
(* An operator SlipX is a fault someone could make in X; Spec uses none.   *)
(***************************************************************************)
EXTENDS CoapList, SequencesExt

CONSTANTS
  Codes,      \* option codes programs use
  Datas,      \* contents of options
  Payloads,
  Ids,        \* message ids
  Methods,    \* methods programs ask for
  Packets,    \* packets that come from no writer of this code
  MaxReads    \* bound: packets read

Byte == 0..255
Char == -128..127

ASSUME CodesAreChars == Codes \subseteq Char
ASSUME ContentsAreBytes == Datas \cup Payloads \cup Packets \subseteq Seq(Byte)
ASSUME IdsAreShort == Ids \subseteq Uint16
ASSUME MaxReadsIsNat == MaxReads \in Nat

VARIABLES
  status,     \* what is going on: "idle" (edits), "writing", "written" (bytes
              \* wait for the reader), "options" (reading), or the reader's
              \* result
  out,        \* the message a program edits
  wire,       \* bytes written, then in the hands of the reader
  li,         \* the next option to write
  sent,       \* <<m>> when the bytes are those of the message m, or <<>>
  p,          \* offset of the reader
  opt_code,   \* code of the last option read
  cnt,        \* options still to read
  in,         \* the message read so far
  reads

writerVars == <<wire, li, sent>>
cursor == <<p, opt_code, cnt>>
vars == <<status, out, writerVars, cursor, in, reads>>

DEFAULT_VERSION == 1
CON == 0
GET == 1
POST == 2
URI_PATH == 9
OBSERVE == 10

-----------------------------------------------------------------------------
(* Messages.  optcnt is kept by hand next to the list.                     *)

\* coap_pdu_create, and what coap_pdu_clean leaves.
Blank == [opts |-> <<>>, code |-> 0, version |-> 0, type |-> 0, id |-> 0,
          optcnt |-> 0, payload |-> <<>>]

\* A number cut to a char, which is signed.  In the slip it is not.
SlipAsChar(n) == n % 256
AsChar(n) == IF n % 256 < 128 THEN n % 256 ELSE (n % 256) - 256

\* An option in its list, under the key strcpy makes of its code.  Bytes of the
\* stack may follow the code in a key; lookups compare one byte only.
OptionKey(c) == IF c = 0 THEN <<>> ELSE <<c>>
Option(c, data) == [code |-> c, data |-> data, key |-> OptionKey(c)]

\* coap_list_node_insert with order_option_func: before the first option of a
\* greater code.
InsertInOrder(opts, o) ==
  LET later == {i \in DOMAIN opts : opts[i].code > o.code}
      at == IF later = {} THEN Len(opts) + 1
                          ELSE CHOOSE i \in later : \A j \in later : i <= j
  IN  InsertAt(opts, at, o)

\* coap_pdu_option_unset.  The slip forgets the count.
SlipOptionUnset(m, c) == [m EXCEPT !.opts = NodeDelete(@, OptionKey(c), 1)]
OptionUnset(m, c) ==
  IF NodeGet(m.opts, OptionKey(c), 1) = 0 THEN m
  ELSE [m EXCEPT !.opts = NodeDelete(@, OptionKey(c), 1),
                 !.optcnt = IF @ > 0 THEN @ - 1 ELSE @]

\* coap_pdu_option_insert.  Codes are distinct, so a byte has room for optcnt.
OptionInsert(m, c, data) ==
  LET n == OptionUnset(m, c)
  IN  [n EXCEPT !.opts = InsertInOrder(@, Option(c, data)), !.optcnt = @ + 1]

\* coap_pdu_request.  strcmp is not 0 for strings that differ.
MethodCode(method) == IF method # "GET" THEN GET ELSE POST
RequestOf(path, method, observe) ==
  LET header == [Blank EXCEPT !.version = DEFAULT_VERSION, !.type = CON,
                              !.code = MethodCode(method)]
      m == OptionInsert(header, URI_PATH, path)
  IN  IF observe THEN OptionInsert(m, OBSERVE, <<48>>) ELSE m

-----------------------------------------------------------------------------
(* The writer.                                                             *)

\* The one byte behind a length that does not fit in four bits.
SlipExtension(len) == len - 14
Extension(len) == (len - 15) % 256

\* One option behind an option of code "last".
OptionBytes(last, o) ==
  LET delta == (o.code - last) % 16
  IN  IF Len(o.data) > 15
        THEN <<delta * 16 + 15, Extension(Len(o.data))>> \o o.data
        ELSE <<delta * 16 + Len(o.data)>> \o o.data

\* The header, then the options, then the payload.
Header(m) ==
  << m.version * 64 + m.type * 16 + (m.optcnt % 16), m.code,
     m.id % 256, m.id \div 256 >>

-----------------------------------------------------------------------------
Init ==
  /\ status = "idle"
  /\ out = Blank /\ wire = <<>> /\ li = 1 /\ sent = <<>>
  /\ p = 0 /\ opt_code = 0 /\ cnt = 0 /\ in = Blank
  /\ reads = 0

\* A program changes its message.
Edit(m) ==
  /\ status = "idle"
  /\ out' = m
  /\ UNCHANGED <<status, writerVars, cursor, in, reads>>

Insert(c, data) == Edit(OptionInsert(out, c, data))
Unset(c) == Edit(OptionUnset(out, c))
Request(path, method, observe) == Edit(RequestOf(path, method, observe))
Clean == Edit(Blank)
Fill(id, payload) == Edit([out EXCEPT !.id = id, !.payload = payload])

\* coap_context_send: the header, one turn of the loop over the options, the
\* payload.
WriteHeader ==
  /\ status = "idle"
  /\ status' = "writing" /\ wire' = Header(out) /\ li' = 1
  /\ UNCHANGED <<out, sent, cursor, in, reads>>

WriteOption ==
  /\ status = "writing" /\ li \in DOMAIN out.opts
  /\ LET last == IF li = 1 THEN 0 ELSE out.opts[li - 1].code
     IN  wire' = wire \o OptionBytes(last, out.opts[li])
  /\ li' = li + 1
  /\ UNCHANGED <<status, out, sent, cursor, in, reads>>

WritePayload ==
  /\ status = "writing" /\ li > Len(out.opts)
  /\ status' = "written" /\ wire' = wire \o out.payload /\ sent' = <<out>>
  /\ li' = 1
  /\ UNCHANGED <<out, cursor, in, reads>>

\* A packet from elsewhere.
Noise(bytes) ==
  /\ status = "idle"
  /\ status' = "written" /\ wire' = bytes
  /\ UNCHANGED <<out, li, sent, cursor, in, reads>>

-----------------------------------------------------------------------------
(* The reader, coap_pdu_packet_read.                                       *)

\* The buffer behind the packet is zero.
At(i) == IF i < Len(wire) THEN wire[i + 1] ELSE 0

\* The header.  Six bytes, the size of coap_hdr_t, are asked for; the header
\* has four.  Line 198 compares p before it has a value and may give up.
ReadHeader ==
  /\ status = "written" /\ reads < MaxReads
  /\ reads' = reads + 1
  /\ \/ /\ Len(wire) < 6
        /\ status' = "short" /\ UNCHANGED <<cursor, in>>
     \/ /\ Len(wire) >= 6
        /\ status' = "dropped" /\ UNCHANGED <<cursor, in>>
     \/ /\ Len(wire) >= 6
        /\ status' = "options"
        /\ p' = 4 /\ opt_code' = 0 /\ cnt' = At(0) % 16
        /\ in' = [Blank EXCEPT !.version = At(0) \div 64,
                               !.type = (At(0) \div 16) % 4,
                               !.code = At(1), !.id = At(2) + 256 * At(3)]
  /\ UNCHANGED <<out, writerVars>>

\* One turn of the loop over the options: the length, where the data begin, and
\* what comes of it.  A negative length goes to memcpy as a size.
ReadOption ==
  /\ status = "options" /\ cnt > 0
  /\ LET code == opt_code + (At(p) \div 16)
         long == At(p) % 16 = 15
         len  == IF long THEN 15 + AsChar(At(p + 1)) ELSE At(p) % 16
         data == IF long THEN p + 2 ELSE p + 1
     IN  \/ /\ data > Len(wire)
            /\ status' = "refused" /\ UNCHANGED <<cursor, in>>
         \/ /\ data <= Len(wire) /\ len < 0
            /\ status' = "crashed" /\ UNCHANGED <<cursor, in>>
         \/ /\ data <= Len(wire) /\ len >= 0
            /\ in' = OptionInsert(in, AsChar(code),
                                  [i \in 1..len |-> At(data + i - 1)])
            /\ p' = data + len /\ opt_code' = code /\ cnt' = cnt - 1
            /\ UNCHANGED status
  /\ UNCHANGED <<out, writerVars, reads>>

\* What is left is the payload.
ReadPayload ==
  /\ status = "options" /\ cnt = 0
  /\ \/ /\ p > Len(wire)
        /\ status' = "refused" /\ UNCHANGED in
     \/ /\ p <= Len(wire)
        /\ status' = "done"
        /\ in' = [in EXCEPT !.payload = SubSeq(wire, p + 1, Len(wire))]
  /\ UNCHANGED <<out, writerVars, cursor, reads>>

\* The message is handed on, or deleted if it could not be read.
HandOn ==
  /\ status \in {"done", "dropped", "short", "refused"}
  /\ status' = "idle"
  /\ out' = IF status = "done" THEN in ELSE Blank
  /\ wire' = <<>> /\ li' = 1 /\ sent' = <<>>
  /\ p' = 0 /\ opt_code' = 0 /\ cnt' = 0 /\ in' = Blank
  /\ UNCHANGED reads

Next ==
  \/ \E c \in Codes : Unset(c) \/ \E data \in Datas : Insert(c, data)
  \/ \E path \in Datas, method \in Methods, observe \in BOOLEAN :
       Request(path, method, observe)
  \/ \E id \in Ids, payload \in Payloads : Fill(id, payload)
  \/ Clean \/ WriteHeader \/ WriteOption \/ WritePayload
  \/ \E bytes \in Packets : Noise(bytes)
  \/ ReadHeader \/ ReadOption \/ ReadPayload \/ HandOn

Spec == Init /\ [][Next]_vars

-----------------------------------------------------------------------------
(* What messages promise.                                                  *)

OptionType == [code : Char, data : Seq(Byte), key : Seq(Char)]
Message == [opts : Seq(OptionType), code : Byte, version : 0..3, type : 0..3,
            id : Uint16, optcnt : Nat, payload : Seq(Byte)]

\* The messages keep their shape and the writer writes bytes: no field of
\* coap_pdu_packet_write spills into the next, and the reader leaves only codes
\* of type char (coap_pdu_option_insert).
TypeOK ==
  /\ status \in {"idle", "writing", "written", "options", "done", "dropped",
                 "short", "refused", "crashed"}
  /\ out \in Message /\ in \in Message
  /\ wire \in Seq(Byte) /\ li \in Nat \ {0} /\ sent \in Seq(Message)
  /\ p \in Nat /\ opt_code \in Nat /\ cnt \in Nat /\ reads \in Nat

\* The options of a message are in the order the differences of their codes
\* need, no code occurs twice, and the count in the header is their number,
\* however inserting, unsetting, reading and handing on follow one another.
InOrder(opts) == \A i, j \in DOMAIN opts : i < j => opts[i].code < opts[j].code
Kept(m) == InOrder(m.opts) /\ m.optcnt = Len(m.opts)
WellKept == Kept(out) /\ Kept(in)

\* Messages the format can carry: what four bits of difference and the two forms
\* of a length leave.
Portable(m) ==
  /\ Len(m.opts) <= 15
  /\ \A i \in DOMAIN m.opts :
       /\ m.opts[i].code - (IF i = 1 THEN 0 ELSE m.opts[i - 1].code) \in 0..15
       /\ Len(m.opts[i].data) \in 0..142 \ {15}

\* Such a message of six bytes and more arrives as it was sent: the function
\* coap_pdu_packet_read is the inverse of coap_pdu_packet_write, unless line 198
\* gives up.
RoundTrip ==
  sent # <<>> /\ Portable(sent[1]) /\ Len(wire) >= 6 =>
    /\ status \notin {"short", "refused", "crashed"}
    /\ status = "done" => in = sent[1]
=============================================================================
