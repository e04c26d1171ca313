---------------------------- MODULE FcgiStreams ----------------------------
(***************************************************************************)
(* The streams of proxy/fcgi/fcgiapp.c as records: FCGX_Stream and its     *)
(* FCGX_Stream_Data in one.  FcgiApp drives them.                          *)
(*                                                                         *)
(* A record of the FastCGI protocol is sent as cells: HeaderLen of header, *)
(* then its content, then its padding.  A cell knows the record it belongs *)
(* to and its place in it, which is what the bytes of a header say; Value  *)
(* gives the byte of a content cell.  The library never looks at anything  *)
(* else.  HeaderLen is 8 in the code; two are enough for a header to be    *)
(* cut by a read.  Writers count real bytes.                               *)
(*                                                                         *)
(* A reader that has lost its place takes other bytes for a header, which  *)
(* have no bytes here: they may announce each of the Forgeries.            *)
(*                                                                         *)
(* SlipAlignInt8 and SlipCloseRecords are faults; no specification uses    *)
(* them.                                                                   *)
(***************************************************************************)
EXTENDS Integers, Sequences

CONSTANTS
  HeaderLen,      \* cells of a header
  BeginLen,       \* sizeof(FCGI_BeginRequestBody), in cells
  ParamBytes,     \* the name-value pairs the web server sends, as bytes
  BodyBytes,      \* the request body it sends
  BuffLen,        \* bufflen of a writer
  Forgeries       \* records that bytes which are no header may announce

ASSUME LengthsAssumption ==
  /\ HeaderLen \in Nat \ {0} /\ BeginLen \in Nat \ {0}
  /\ ParamBytes \in Seq(0..255) /\ BodyBytes \in Seq(0..255)
  /\ BuffLen \in Nat /\ BuffLen >= 32 /\ BuffLen % 8 = 0

----------------------------------------------------------------------------
(* The wire.                                                               *)

\* FCGI_Header and what it announces; "from" is where its content starts in
\* the stream it carries.
\* A BEGIN_REQUEST carries a role and the flag FCGI_KEEP_CONN.
Record(type, id, len, pad, from) ==
  [type |-> type, id |-> id, len |-> len, pad |-> pad, from |-> from,
   role |-> "NONE", keep |-> FALSE]
BeginRequest(id, pad, role, keep) ==
  [Record("BEGIN", id, BeginLen, pad, 0) EXCEPT !.role = role, !.keep = keep]

\* The types by what ProcessHeader makes of them: with the request id 0 each that
\* is not known is "UNKNOWN", otherwise "ABORT" stands for what is no stream.
RecordTypes == {"BEGIN", "PARAMS", "STDIN", "GET_VALUES", "UNKNOWN", "ABORT"}
Records ==
  [type : RecordTypes, id : 0..2, len : Nat, pad : Nat, from : Nat,
   role : {"NONE", "RESPONDER", "OTHER"}, keep : BOOLEAN]

ASSUME ForgeriesAreRecords ==
  \A r \in Forgeries :
    /\ r \in Records
    /\ r.id = 0 => r.type \in {"BEGIN", "GET_VALUES", "UNKNOWN"}
    /\ r.id # 0 => r.type \in {"BEGIN", "PARAMS", "STDIN", "ABORT"}
    /\ r.type = "BEGIN" /\ r.role = "RESPONDER" => r.id = 1

Cells(r) == [i \in 1..(HeaderLen + r.len + r.pad) |-> [of |-> r, at |-> i]]

\* The byte of a content cell; padding and the bodies of other records are 0.
Value(cell) ==
  LET r == cell.of
      i == r.from + cell.at - HeaderLen
  IN  IF cell.at <= HeaderLen \/ cell.at > HeaderLen + r.len THEN 0
      ELSE IF r.type = "PARAMS" THEN ParamBytes[i]
      ELSE IF r.type = "STDIN" THEN BodyBytes[i] ELSE 0

Values(cells) == [i \in DOMAIN cells |-> Value(cells[i])]

\* The header read cell by cell is one when it starts at the start of a record.
\* ProcessHeader looks at its first byte alone: of other bytes it refuses those
\* that do not begin with FCGI_VERSION_1, and takes the rest for a header.
IsHeader(cells) == cells[1].at = 1

First(cells, n) == SubSeq(cells, 1, n)
Drop(cells, n) == SubSeq(cells, n + 1, Len(cells))

Least(a, b) == IF a <= b THEN a ELSE b

----------------------------------------------------------------------------
(* Parameters.                                                             *)

\* ReadParams: the length at p, of one byte or of four, and where it ends;
\* 0 when the stream ends first.
LengthAt(b, p) ==
  IF b[p] < 128 THEN [len |-> b[p], next |-> p + 1]
  ELSE IF p + 3 > Len(b) THEN [len |-> 0, next |-> 0]
  ELSE [len  |-> (b[p] - 128) * 16777216 + b[p + 1] * 65536 + b[p + 2] * 256
                   + b[p + 3],
        next |-> p + 4]

\* The place after the pair that starts at p, or 0 when it is cut.
AfterPair(b, p) ==
  LET name  == LengthAt(b, p)
      value == LengthAt(b, name.next)
      after == value.next + name.len + value.len
  IN  IF name.next = 0 \/ name.next > Len(b) THEN 0
      ELSE IF value.next = 0 \/ after > Len(b) + 1 THEN 0 ELSE after

\* ReadParams returns 0: the bytes up to the end of the stream are whole pairs.
WholePairs(b) ==
  LET whole[p \in 1..(Len(b) + 1)] ==
        \/ p = Len(b) + 1
        \/ LET next == AfterPair(b, p) IN next # 0 /\ whole[next]
  IN  whole[1]

----------------------------------------------------------------------------
(* Readers.  "buff" is what lies between rdNext and buffStop, "stop" how   *)
(* much of it may be delivered (stop - rdNext).                            *)

NewReader(type) ==
  [buff |-> <<>>, stop |-> 0, type |-> type, eorStop |-> FALSE, skip |-> FALSE,
   contentLen |-> 0, paddingLen |-> 0, isClosed |-> FALSE, FCGI_errno |-> FALSE]

\* SetReaderType forgets the rest of the current record.
SetReaderType(in, type) ==
  [in EXCEPT !.type = type, !.eorStop = FALSE, !.skip = FALSE,
             !.contentLen = 0, !.paddingLen = 0, !.stop = 0, !.isClosed = FALSE]

SetError(stream) == [stream EXCEPT !.FCGI_errno = TRUE, !.isClosed = TRUE]

\* FCGX_GetChar and FCGX_GetStr take all that is there to deliver.
Delivered(in) == Values(First(in.buff, in.stop))
Taken(in) == [in EXCEPT !.buff = Drop(in.buff, in.stop), !.stop = 0]

----------------------------------------------------------------------------
(* Writers.  "wrNext" counts from data->buff; a header is 8 bytes.         *)

Header == 8
Room == BuffLen - Header
SlipAlignInt8(n) == (n \div 8 + 1) * 8
AlignInt8(n) == ((n + 7) \div 8) * 8

NewWriter(type) ==
  [type |-> type, wrNext |-> Header, stop |-> BuffLen, isClosed |-> FALSE,
   FCGI_errno |-> FALSE, isAnythingWritten |-> FALSE]

\* MakeHeader and EmptyBuffProc: the record made of the content of the buffer;
\* its padding stays within the buffer because BuffLen is a multiple of 8.
Content(w, id) ==
  LET cLen == w.wrNext - Header
  IN  IF cLen <= 0 THEN <<>>
      ELSE << [type |-> w.type, id |-> id, len |-> cLen,
               pad |-> AlignInt8(cLen) - cLen] >>

\* A write that works empties the buffer; one that fails leaves it as it is,
\* with the padding counted in.
Emptied(w) ==
  [w EXCEPT !.wrNext = Header,
            !.isAnythingWritten = w.isAnythingWritten \/ w.wrNext > Header]
Failed(w) ==
  [SetError(w) EXCEPT !.wrNext = Header + AlignInt8(w.wrNext - Header),
                      !.isAnythingWritten = TRUE]

\* FCGX_PutStr of n bytes: how often the buffer has to be emptied on the way,
\* and what is left in it.  A closed stream only fills its buffer.
Flushes(w, n) ==
  LET all == w.wrNext - Header + n
  IN  IF w.isClosed \/ n <= w.stop - w.wrNext THEN 0 ELSE (all - 1) \div Room
PutStr(w, n) ==
  IF Flushes(w, n) = 0
    THEN [w EXCEPT !.wrNext = Least(w.wrNext + n, w.stop)]
    ELSE [w EXCEPT !.wrNext = w.wrNext + n - Flushes(w, n) * Room,
                   !.isAnythingWritten = TRUE]

\* The records of PutStr: full buffers.
PutRecords(w, n, id) ==
  [i \in 1..Flushes(w, n) |->
     [type |-> w.type, id |-> id, len |-> Room, pad |-> 0]]

\* The end of the request after either writer.
SlipCloseRecords(w, id, nWriters) ==
  << [type |-> w.type, id |-> id, len |-> 0, pad |-> 0],
     [type |-> "END_REQUEST", id |-> id, len |-> 8, pad |-> 0] >>

\* WriteCloseRecords: the end of the stream, unless an error stream was never
\* used, and the end of the request after the last writer.
CloseRecords(w, id, nWriters) ==
  (IF w.type = "STDERR" /\ w.wrNext <= Header /\ ~w.isAnythingWritten
     THEN <<>>
     ELSE << [type |-> w.type, id |-> id, len |-> 0, pad |-> 0] >>)
  \o
  (IF nWriters # 1 THEN <<>>
   ELSE << [type |-> "END_REQUEST", id |-> id, len |-> 8, pad |-> 0] >>)
=============================================================================
