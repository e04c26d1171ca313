--------------------------- MODULE FcgiApp_proofs ---------------------------
(***************************************************************************)
(* Proofs about FcgiApp, for every length of headers, parameters, bodies   *)
(* and buffers, any number of connections and records, and every way in    *)
(* which reads cut them.                                                   *)
(***************************************************************************)
EXTENDS FcgiApp, SequenceTheorems, WellFoundedInduction, TLAPS

-----------------------------------------------------------------------------
(* The inductive invariant.                                                *)

\* The content of the records the web server sends lies within the stream it belongs
\* to; only request 1 asks for a responder, in the headers nobody sent as well.
Sound ==
  { c \in Cell :
      /\ c.at > HeaderLen =>
           /\ c.of.type = "PARAMS" => c.of.from + c.of.len <= Len(ParamBytes)
           /\ c.of.type = "STDIN" => c.of.from + c.of.len <= Len(BodyBytes)
      /\ c.of.type = "BEGIN" /\ c.of.role = "RESPONDER" => c.of.id = 1 }

\* A reader of such cells.
Stream ==
  [buff : Seq(Sound), stop : Nat, type : {"NONE", "PARAMS", "STDIN"},
   eorStop : BOOLEAN, skip : BOOLEAN, contentLen : Nat, paddingLen : Nat,
   isClosed : BOOLEAN, FCGI_errno : BOOLEAN]
Readable(s) == s \in Stream /\ s.stop <= Len(s.buff)

\* What the web server still has of the stream it sends.
Bytes(type) ==
  IF type = "PARAMS" THEN ParamBytes ELSE IF type = "STDIN" THEN BodyBytes ELSE <<>>
ServerOK ==
  /\ server \in [state : {"none", "open", "hungup", "forgotten"}, count : Nat,
                 phase : [Ids -> {"begin", "PARAMS", "STDIN", "done"}],
                 at : [Ids -> Nat], odd : Nat, unsafe : BOOLEAN,
                 forged : BOOLEAN]
  /\ \A id \in Ids : server.at[id] <= Len(Bytes(server.phase[id]))

\* FCGX_Request without its streams.
Request ==
  [ipcFd : BOOLEAN, requestId : 0..2, isBeginProcessed : BOOLEAN,
   keepConnection : BOOLEAN, role : {"NONE", "RESPONDER", "OTHER"},
   nWriters : {0, 2}]

\* A writer, whose buffer has room for the padding.
Writable(w, type) ==
  w \in Writer(type) /\ Header + AlignInt8(w.wrNext - Header) <= BuffLen

Typed ==
  /\ pc \in {"idle", "accept", "fill", "header", "nested", "begun", "params", "serve"}
  /\ caller \in {"begun", "params", "serve"}
  /\ request \in Request
  /\ Readable(in) /\ header \in Seq(Sound) /\ wire \in Seq(Sound)
  /\ Writable(out, "STDOUT") /\ Writable(err, "STDERR")
  /\ env \in Seq(0..255) /\ body \in Seq(0..255)
  /\ printed \in Nat /\ shutdownPending \in BOOLEAN /\ ServerOK

\* The header is whole while ProcessHeader runs, which is when eorStop is set, and
\* a part of one is there only between two records; nothing is left to deliver when
\* FillBuffProc goes round its loop.
InPlace ==
  /\ in.eorStop => pc \in {"fill", "header", "nested"} /\ Len(header) = HeaderLen
  /\ ~in.eorStop => Len(header) < HeaderLen
  /\ ~in.eorStop /\ header # <<>> => in.contentLen = 0
  /\ pc \in {"header", "nested"} => in.eorStop
  /\ pc \notin {"fill", "header", "nested"} => header = <<>>
  /\ pc \in {"fill", "header"} => in.stop = 0

TInv == Typed /\ InPlace

-----------------------------------------------------------------------------
(* The request and its reply.                                              *)

\* The start of a BEGIN_REQUEST of request 1, and where one is on its way.
Opens(c) == c.at = 1 /\ c.of.type = "BEGIN" /\ c.of.id = 1
Has(cells) == \E i \in DOMAIN cells : Opens(cells[i])
Opening == Has(header) \/ Has(in.buff) \/ Has(wire)

OneOf(cells) == \A i, j \in DOMAIN cells : Opens(cells[i]) /\ Opens(cells[j]) => i = j
OneOpening ==
  /\ OneOf(header) /\ OneOf(in.buff) /\ OneOf(wire)
  /\ ~(Has(header) /\ Has(in.buff)) /\ ~(Has(header) /\ Has(wire))
  /\ ~(Has(in.buff) /\ Has(wire))

\* Request 1 has begun, or is being served.
Serving == request.nWriters = 2
HasBegun ==
  /\ request.isBeginProcessed /\ request.requestId = 1
  /\ pc \notin {"idle", "accept"}

\* Records the web server gets; those that are not of the request; those of a request
\* that is being served.
OfRequest == {"STDOUT", "STDERR", "END_REQUEST"}
Replies ==
  [type : OfRequest \cup {"CUT", "CANT_MPX_CONN", "GET_VALUES_RESULT", "UNKNOWN_TYPE"},
   id : 0..2, len : Nat, pad : Nat]
Others == { r \in Replies : r.type \notin OfRequest }
Running ==
  { r \in Replies : r.type # "END_REQUEST" /\ (r.type = "STDOUT" => r.len # 0) }

Whole(records) == \A i \in DOMAIN records : records[i].type # "CUT"

\* Where the request stands: the connection is there while it is read; it is
\* request 1 that has begun when it is a responder's; what is served has begun.
Standing ==
  /\ server.state = "none" => wire = <<>>
  /\ server.state \in {"none", "forgotten"} => ~request.ipcFd
  /\ ~request.ipcFd => pc \in {"idle", "accept"}
  /\ pc \in {"idle", "accept"} => in.buff = <<>>
  /\ pc \in {"fill", "nested"} /\ in.eorStop =>
       /\ IsHeader(header)
       /\ Current.type = "BEGIN" => /\ request.requestId = Current.id
                                    /\ ~request.isBeginProcessed
  /\ /\ request.isBeginProcessed /\ request.role = "RESPONDER"
     /\ pc \notin {"idle", "accept"}
     => request.requestId = 1
  /\ caller # "begun" /\ pc \notin {"idle", "accept"} =>
       request.isBeginProcessed /\ request.role = "RESPONDER"
  /\ Serving <=> caller = "serve" /\ pc \notin {"idle", "accept"}
  /\ pc \in {"begun", "params", "serve"} => pc = caller

\* Until a header is taken that nobody sent, and again on the next connection:
\* nothing of the reply is there before the request is served, no second request
\* 1 is sent before the first is answered, and what was printed is accounted for.
Ended ==
  \A i \in DOMAIN reply : reply[i].type = "END_REQUEST" =>
    /\ OutputSent = printed
    /\ \A j \in DOMAIN reply :
         /\ j > i => reply[j].type \notin OfRequest
         /\ reply[j].type = "STDOUT" => (reply[j].len = 0 <=> j = i - 1)
Answering ==
  /\ reply \in Seq(Replies)
  /\ OneOpening
  /\ Opening => ~HasBegun
  /\ Opening \/ HasBegun => server.phase[1] # "begin"
  /\ Opening \/ (HasBegun /\ ~Serving) => reply \in Seq(Others)
  /\ Serving => reply \in Seq(Running)
  /\ Serving /\ Whole(reply) /\ server.state = "open" =>
       ~out.isClosed /\ OutputSent + (out.wrNext - Header) = printed
  /\ Whole(reply) => Ended

IInv == TInv /\ Standing /\ (server.forged \/ Answering)
-----------------------------------------------------------------------------
(* Cells.                                                                  *)

\* A part from the front of a list and the rest of it.
LEMMA FirstOf ==
  ASSUME NEW S, NEW s \in Seq(S), NEW n \in 0..Len(s)
  PROVE  /\ First(s, n) \in Seq(S) /\ Len(First(s, n)) = n
         /\ \A i \in 1..n : First(s, n)[i] = s[i]
  BY SubSeqProperties DEF First

\* What is left behind the first n cells.
LEMMA DropOf ==
  ASSUME NEW S, NEW s \in Seq(S), NEW n \in 0..Len(s)
  PROVE  /\ Drop(s, n) \in Seq(S) /\ Len(Drop(s, n)) = Len(s) - n
         /\ \A i \in 1..(Len(s) - n) : Drop(s, n)[i] = s[n + i]
<1> DEFINE t == Drop(s, n)
<1>1. n + 1 \in 1..(Len(s) + 1) /\ Len(s) \in 0..Len(s)
  OBVIOUS
<1>2. /\ t \in Seq(S) /\ Len(t) = Len(s) - n
      /\ \A i \in 1..(Len(s) - n) : t[i] = s[n + i]
  BY <1>1, SubSeqProperties DEF Drop
<1> QED BY <1>2

\* The lesser of two numbers.
LEMMA LeastOf ==
  ASSUME NEW a \in Nat, NEW b \in Nat
  PROVE  Least(a, b) \in Nat /\ Least(a, b) <= a /\ Least(a, b) <= b
  BY DEF Least

\* A byte of a cell is a byte.
LEMMA ValueIsByte == ASSUME NEW c \in Sound PROVE Value(c) \in 0..255
<1> DEFINE i == c.of.from + c.at - HeaderLen
<1>0. ParamBytes \in Seq(0..255) /\ BodyBytes \in Seq(0..255)
  BY LengthsAssumption
<1>4. /\ \A k \in 1..Len(ParamBytes) : ParamBytes[k] \in 0..255
      /\ \A k \in 1..Len(BodyBytes) : BodyBytes[k] \in 0..255
  <2>1. \A S : \A s \in Seq(S) : \A k \in 1..Len(s) : s[k] \in S
    BY ONLY ElementOfSeq
  <2> QED BY ONLY <1>0, <2>1, Zenon
<1>1. c.at \in Nat /\ c.of.len \in Nat /\ c.of.from \in Nat /\ HeaderLen \in Nat
  BY LengthsAssumption DEF Sound, Cell, Records
<1>2. CASE c.at <= HeaderLen \/ c.at > HeaderLen + c.of.len
  BY <1>2 DEF Value
<1>3. CASE ~(c.at <= HeaderLen \/ c.at > HeaderLen + c.of.len)
  <2>1. i \in Nat /\ i >= 1 /\ i <= c.of.from + c.of.len
    BY <1>1, <1>3
  <2>2. ASSUME c.of.type = "PARAMS" PROVE ParamBytes[i] \in 0..255
    <3>1. c.of.from + c.of.len <= Len(ParamBytes) /\ Len(ParamBytes) \in Nat
      BY <1>0, <1>1, <1>3, <2>2 DEF Sound
    <3> HIDE DEF i
    <3>2. i \in 1..Len(ParamBytes)
      BY ONLY <1>1, <2>1, <3>1
    <3>3. \A k \in 1..Len(ParamBytes) : ParamBytes[k] \in 0..255
      BY <1>4
    <3> QED BY ONLY <3>2, <3>3, Zenon
  <2>3. ASSUME c.of.type = "STDIN" PROVE BodyBytes[i] \in 0..255
    <3>1. c.of.from + c.of.len <= Len(BodyBytes) /\ Len(BodyBytes) \in Nat
      BY <1>0, <1>1, <1>3, <2>3 DEF Sound
    <3> HIDE DEF i
    <3>2. i \in 1..Len(BodyBytes)
      BY ONLY <1>1, <2>1, <3>1
    <3>3. \A k \in 1..Len(BodyBytes) : BodyBytes[k] \in 0..255
      BY <1>4
    <3> QED BY ONLY <3>2, <3>3, Zenon
  <2>4. Value(c) = (IF c.of.type = "PARAMS" THEN ParamBytes[i]
                    ELSE IF c.of.type = "STDIN" THEN BodyBytes[i] ELSE 0)
    BY <1>3 DEF Value
  <2>5. CASE c.of.type = "PARAMS"
    BY <2>2, <2>4, <2>5
  <2>6. CASE c.of.type # "PARAMS" /\ c.of.type = "STDIN"
    BY <2>3, <2>4, <2>6
  <2>7. CASE c.of.type # "PARAMS" /\ c.of.type # "STDIN"
    BY <2>4, <2>7
  <2> HIDE DEF i
  <2> QED BY <2>5, <2>6, <2>7
<1> QED BY <1>2, <1>3

\* What a reader delivers are bytes.
LEMMA DeliveredAreBytes ==
  ASSUME NEW s, Readable(s)
  PROVE  Delivered(s) \in Seq(0..255)
<1> DEFINE t == First(s.buff, s.stop)
<1>1. t \in Seq(Sound)
  <2>1. s.buff \in Seq(Sound) /\ s.stop \in 0..Len(s.buff)
    BY DEF Readable, Stream
  <2> QED BY <2>1, FirstOf, Zenon
<1> HIDE DEF t
<1>2. \A i \in 1..Len(t) : Value(t[i]) \in 0..255
  BY <1>1, ElementOfSeq, ValueIsByte
<1>3. Values(t) = [i \in 1..Len(t) |-> Value(t[i])] /\ Len(t) \in Nat
  BY <1>1 DEF Values
<1>4. \A S : (\A i \in 1..Len(t) : Value(t[i]) \in S) => Values(t) \in Seq(S)
  BY <1>3
<1>5. Values(t) \in Seq(0..255)
  BY <1>2, <1>4, Zenon
<1> QED BY <1>5 DEF Delivered, t

-----------------------------------------------------------------------------
(* Readers.                                                                *)

\* FCGX_Init: nothing is in the buffer.
LEMMA NewReaderReadable ==
  ASSUME NEW type \in {"NONE", "PARAMS", "STDIN"}
  PROVE  /\ Readable(NewReader(type)) /\ NewReader(type).buff = <<>>
         /\ ~NewReader(type).eorStop /\ NewReader(type).stop = 0
         /\ ~NewReader(type).isClosed /\ ~NewReader(type).FCGI_errno
  BY DEF Readable, Stream, NewReader

\* SetReaderType keeps the buffer and starts a stream.
LEMMA SetReaderTypeReadable ==
  ASSUME NEW s, Readable(s), NEW type \in {"PARAMS", "STDIN"}
  PROVE  /\ Readable(SetReaderType(s, type)) /\ SetReaderType(s, type).buff = s.buff
         /\ ~SetReaderType(s, type).eorStop /\ SetReaderType(s, type).stop = 0
<1> DEFINE t == SetReaderType(s, type)
<1>1. s \in Stream
  BY DEF Readable
<1>2. /\ t.buff = s.buff /\ t.stop = 0 /\ t.type = type /\ ~t.eorStop /\ ~t.skip
      /\ t.contentLen = 0 /\ t.paddingLen = 0 /\ ~t.isClosed
      /\ t.FCGI_errno = s.FCGI_errno
  BY <1>1 DEF Stream, SetReaderType
<1>3. t \in Stream
  BY <1>1 DEF Stream, SetReaderType
<1> HIDE DEF t
<1>4. Len(t.buff) \in Nat
  BY <1>1, <1>2 DEF Stream
<1> QED BY <1>2, <1>3, <1>4 DEF t, Readable

\* SetError changes nothing but its flags.
LEMMA SetErrorReadable ==
  ASSUME NEW s, Readable(s)
  PROVE  /\ Readable(SetError(s)) /\ SetError(s).buff = s.buff
         /\ SetError(s).eorStop = s.eorStop /\ SetError(s).stop = s.stop
  BY DEF Readable, Stream, SetError

\* FillBuffProc, back from ProcessHeader.
LEMMA BackReadable ==
  ASSUME NEW s, Readable(s)
  PROVE  /\ Readable(Back(s)) /\ Back(s).buff = s.buff
         /\ ~Back(s).eorStop /\ Back(s).stop = s.stop
  BY DEF Readable, Stream, Back

\* What was delivered is taken.
LEMMA TakenReadable ==
  ASSUME NEW s, Readable(s)
  PROVE  /\ Readable(Taken(s)) /\ Taken(s).buff = Drop(s.buff, s.stop)
         /\ Taken(s).eorStop = s.eorStop /\ Taken(s).stop = 0
<1>1. s.buff \in Seq(Sound) /\ s.stop \in 0..Len(s.buff)
  BY DEF Readable, Stream
<1> DEFINE rest == Drop(s.buff, s.stop)
<1>2. rest \in Seq(Sound) /\ Len(rest) \in Nat
  <2>1. rest \in Seq(Sound)
    BY <1>1, DropOf, Zenon
  <2> HIDE DEF rest
  <2> QED BY <2>1
<1>3. Taken(s) = [s EXCEPT !.buff = rest, !.stop = 0]
  BY DEF Taken
<1> HIDE DEF rest
<1>4. /\ Readable(Taken(s)) /\ Taken(s).buff = rest
      /\ Taken(s).eorStop = s.eorStop /\ Taken(s).stop = 0
  <2> DEFINE t == [s EXCEPT !.buff = rest, !.stop = 0]
  <2>1. s \in Stream
    BY DEF Readable
  <2>2. t \in Stream
    BY <1>2, <2>1 DEF Stream
  <2>3. t.buff = rest /\ t.eorStop = s.eorStop /\ t.stop = 0
    BY <2>1 DEF Stream
  <2> HIDE DEF t
  <2>4. t.stop <= Len(t.buff)
    BY <1>2, <2>3
  <2> QED BY <1>3, <2>2, <2>3, <2>4 DEF Readable, t
<1> QED BY <1>4 DEF rest

\* Content that is passed over, and padding: the rest of the buffer stays.
LEMMA PastContentReadable ==
  ASSUME NEW s, Readable(s), s.stop = 0
  PROVE  /\ Readable(PastContent(s)) /\ PastContent(s).stop = 0
         /\ PastContent(s).eorStop = s.eorStop
         /\ \E n \in 0..Len(s.buff) : PastContent(s).buff = Drop(s.buff, n)
<1> DEFINE n == Least(s.contentLen, Len(s.buff))
           rest == Drop(s.buff, n)
           skips == s.skip /\ (s.contentLen = 0 \/ n < s.contentLen)
           t == PastContent(s)
<1>1. s.buff \in Seq(Sound) /\ s.contentLen \in Nat /\ Len(s.buff) \in Nat
  BY DEF Readable, Stream
<1>2. n \in Nat /\ n <= s.contentLen /\ n <= Len(s.buff)
  BY <1>1, LeastOf, Zenon
<1>3. n \in 0..Len(s.buff) /\ s.contentLen - n \in Nat
  <2> HIDE DEF n
  <2> QED BY <1>1, <1>2
<1>4. rest \in Seq(Sound)
  BY <1>1, <1>3, DropOf, Zenon
<1>5. t = [s EXCEPT !.buff = rest, !.contentLen = s.contentLen - n, !.skip = skips]
  BY DEF Readable, Stream, PastContent
<1>6. skips \in BOOLEAN
  BY DEF Readable, Stream
<1> HIDE DEF n, rest, skips, t
<1>7. Readable(t) /\ t.stop = 0 /\ t.eorStop = s.eorStop /\ t.buff = rest
  <2> DEFINE u == [s EXCEPT !.buff = rest, !.contentLen = s.contentLen - n, !.skip = skips]
  <2>1. s \in Stream
    BY DEF Readable
  <2>2. u \in Stream
    BY <1>3, <1>4, <1>6, <2>1 DEF Stream
  <2>3. u.buff = rest /\ u.eorStop = s.eorStop /\ u.stop = 0
    BY <2>1 DEF Stream
  <2> HIDE DEF u
  <2>4. u.stop <= Len(u.buff)
    BY <1>4, <2>3
  <2> QED BY <1>5, <2>2, <2>3, <2>4 DEF Readable, u
<1> QED BY <1>3, <1>7, Zenon DEF rest, t

\* Skipping the padding leaves a reader, whose buffer has lost cells at its head only.
LEMMA PastPaddingReadable ==
  ASSUME NEW s, Readable(s), s.stop = 0
  PROVE  /\ Readable(PastPadding(s)) /\ PastPadding(s).stop = 0
         /\ PastPadding(s).eorStop = s.eorStop
         /\ \E n \in 0..Len(s.buff) : PastPadding(s).buff = Drop(s.buff, n)
<1> DEFINE n == Least(s.paddingLen, Len(s.buff))
           rest == Drop(s.buff, n)
           t == PastPadding(s)
<1>1. s.buff \in Seq(Sound) /\ s.paddingLen \in Nat /\ Len(s.buff) \in Nat
  BY DEF Readable, Stream
<1>2. n \in Nat /\ n <= s.paddingLen /\ n <= Len(s.buff)
  BY <1>1, LeastOf, Zenon
<1>3. n \in 0..Len(s.buff) /\ s.paddingLen - n \in Nat
  <2> HIDE DEF n
  <2> QED BY <1>1, <1>2
<1>4. rest \in Seq(Sound)
  BY <1>1, <1>3, DropOf, Zenon
<1>5. t = [s EXCEPT !.buff = rest, !.paddingLen = s.paddingLen - n]
  BY DEF Readable, Stream, PastPadding
<1> HIDE DEF n, rest, t
<1>6. Readable(t) /\ t.stop = 0 /\ t.eorStop = s.eorStop /\ t.buff = rest
  <2> DEFINE u == [s EXCEPT !.buff = rest, !.paddingLen = s.paddingLen - n]
  <2>1. s \in Stream
    BY DEF Readable
  <2>2. u \in Stream
    BY <1>3, <1>4, <2>1 DEF Stream
  <2>3. u.buff = rest /\ u.eorStop = s.eorStop /\ u.stop = 0
    BY <2>1 DEF Stream
  <2> HIDE DEF u
  <2>4. u.stop <= Len(u.buff)
    BY <1>4, <2>3
  <2> QED BY <1>5, <2>2, <2>3, <2>4 DEF Readable, u
<1> QED BY <1>3, <1>6, Zenon DEF rest, t

\* Dropping twice is dropping once.
LEMMA DropDrop ==
  ASSUME NEW S, NEW s \in Seq(S), NEW n \in 0..Len(s), NEW m \in 0..Len(Drop(s, n))
  PROVE  n + m \in 0..Len(s) /\ Drop(Drop(s, n), m) = Drop(s, n + m)
<1> DEFINE t == Drop(s, n)
<1>1. /\ t \in Seq(S) /\ Len(t) = Len(s) - n /\ Len(s) \in Nat
      /\ \A i \in 1..(Len(s) - n) : t[i] = s[n + i]
  BY DropOf
<1> HIDE DEF t
<1>2. m \in 0..Len(t)
  BY DEF t
<1> DEFINE u == Drop(t, m)
           v == Drop(s, n + m)
<1>3. n + m \in 0..Len(s)
  BY <1>1, <1>2
<1>4. /\ u \in Seq(S) /\ Len(u) = Len(t) - m
      /\ \A i \in 1..(Len(t) - m) : u[i] = t[m + i]
  <2>1. t \in Seq(S)
    BY <1>1
  <2> QED BY <1>2, <2>1, DropOf, Zenon
<1>5. /\ v \in Seq(S) /\ Len(v) = Len(s) - (n + m)
      /\ \A i \in 1..(Len(s) - (n + m)) : v[i] = s[(n + m) + i]
  BY <1>3, DropOf, Zenon
<1> HIDE DEF u, v
<1>6. Len(u) = Len(v) /\ \A i \in 1..Len(u) : u[i] = v[i]
  <2>1. Len(u) = Len(v)
    BY <1>1, <1>2, <1>4, <1>5
  <2>2. ASSUME NEW i \in 1..Len(u) PROVE u[i] = v[i]
    <3>1. i \in 1..(Len(t) - m) /\ i \in 1..(Len(s) - (n + m))
      BY <1>4, <1>5, <2>1
    <3>2. u[i] = t[m + i] /\ v[i] = s[(n + m) + i]
      BY <1>4, <1>5, <3>1
    <3>3. m + i \in 1..(Len(s) - n) /\ n + (m + i) = (n + m) + i
      BY <1>1, <1>2, <3>1
    <3> QED BY <1>1, <3>2, <3>3
  <2> QED BY <2>1, <2>2
<1>7. u = v
  BY <1>4, <1>5, <1>6, SeqEqual
<1> QED BY <1>3, <1>7 DEF t, u, v

-----------------------------------------------------------------------------
(* Writers.                                                                *)

\* The next multiple of eight.
LEMMA AlignOf ==
  ASSUME NEW n \in Nat
  PROVE  /\ AlignInt8(n) \in Nat /\ n <= AlignInt8(n) /\ AlignInt8(n) <= n + 7
         /\ AlignInt8(AlignInt8(n)) = AlignInt8(n)
         /\ n <= Room => AlignInt8(n) <= Room
<1>1. BuffLen \in Nat /\ BuffLen >= 32 /\ BuffLen % 8 = 0
  BY LengthsAssumption
<1>2. Room \in Nat /\ Room % 8 = 0 /\ Room > 0
  BY <1>1 DEF Room, Header
<1> QED BY <1>2 DEF AlignInt8

\* A writer fits its buffer when its place does.
LEMMA Fits ==
  ASSUME NEW type, NEW w \in Writer(type)
  PROVE  Writable(w, type)
<1>1. BuffLen \in Nat /\ BuffLen >= 32
  BY LengthsAssumption
<1>2. w.wrNext - Header \in Nat /\ w.wrNext - Header <= Room
  BY <1>1 DEF Writer, Header, Room
<1>3. AlignInt8(w.wrNext - Header) <= Room /\ AlignInt8(w.wrNext - Header) \in Nat
  BY <1>2, AlignOf
<1> QED BY <1>1, <1>3 DEF Writable, Header, Room

\* FCGX_InitStream: the writer stands behind the place of the header.
LEMMA NewWriterWritable ==
  ASSUME NEW type
  PROVE  /\ Writable(NewWriter(type), type) /\ NewWriter(type).wrNext = Header
         /\ ~NewWriter(type).isClosed /\ ~NewWriter(type).FCGI_errno
<1>1. BuffLen \in Nat /\ BuffLen >= 32
  BY LengthsAssumption
<1>2. NewWriter(type) \in Writer(type)
  BY <1>1 DEF NewWriter, Writer, Header
<1> QED BY <1>2, Fits DEF NewWriter

\* EmptyBuffProc, whether the write works or not.
LEMMA EmptiedWritable ==
  ASSUME NEW type, NEW w, Writable(w, type)
  PROVE  /\ Writable(Emptied(w), type) /\ Emptied(w).wrNext = Header
         /\ Emptied(w).isClosed = w.isClosed
<1>1. Header \in Header..BuffLen
  BY LengthsAssumption DEF Header
<1>2. w \in Writer(type)
  BY DEF Writable
<1> DEFINE b == w.isAnythingWritten \/ w.wrNext > Header
           t == [w EXCEPT !.wrNext = Header, !.isAnythingWritten = b]
<1>3. b \in BOOLEAN
  OBVIOUS
<1> HIDE DEF b
<1>4. t \in Writer(type)
  <2>1. [w EXCEPT !.wrNext = Header, !.isAnythingWritten = TRUE] \in Writer(type)
    BY <1>1, <1>2 DEF Writer
  <2>2. [w EXCEPT !.wrNext = Header, !.isAnythingWritten = FALSE] \in Writer(type)
    BY <1>1, <1>2 DEF Writer
  <2> QED BY <1>3, <2>1, <2>2, Zenon
<1>5. t.wrNext = Header /\ t.isClosed = w.isClosed
  BY <1>2 DEF Writer
<1>6. Emptied(w) = t
  BY DEF Emptied, b
<1> HIDE DEF t
<1> QED BY <1>4, <1>5, <1>6, Fits

\* A write that failed leaves a writer, closed.
LEMMA FailedWritable ==
  ASSUME NEW type, NEW w, Writable(w, type)
  PROVE  Writable(Failed(w), type)
<1> DEFINE at == Header + AlignInt8(w.wrNext - Header)
<1>1. BuffLen \in Nat /\ BuffLen >= 32
  BY LengthsAssumption
<1>2. w.wrNext - Header \in Nat
  BY <1>1 DEF Writable, Writer, Header
<1>3. at \in Header..BuffLen
  BY <1>1, <1>2, AlignOf DEF Writable, Header
<1>4. Failed(w) = [SetError(w) EXCEPT !.wrNext = at, !.isAnythingWritten = TRUE]
  BY DEF Failed
<1> HIDE DEF at
<1>5. Failed(w) \in Writer(type)
  BY <1>3, <1>4 DEF Writable, Writer, SetError
<1> QED BY <1>5, Fits

\* FCGX_PutStr stays in the buffer, and what does not fit went out in full
\* buffers.  A closed stream takes what fits.
LEMMA PutStrWritable ==
  ASSUME NEW type, NEW w, Writable(w, type), NEW n \in Nat
  PROVE  /\ Writable(PutStr(w, n), type) /\ Flushes(w, n) \in Nat
         /\ PutStr(w, n).isClosed = w.isClosed
         /\ ~w.isClosed =>
              PutStr(w, n).wrNext + Flushes(w, n) * Room = w.wrNext + n
<1> DEFINE all == w.wrNext - Header + n
           k == Flushes(w, n)
           t == PutStr(w, n)
<1>1. BuffLen \in Nat /\ BuffLen >= 32 /\ Room = BuffLen - Header /\ Header = 8
  BY LengthsAssumption DEF Room, Header
<1>2. /\ w.wrNext \in Nat /\ w.wrNext >= Header /\ w.wrNext <= BuffLen
      /\ w.stop = BuffLen /\ w.isClosed \in BOOLEAN
  BY <1>1 DEF Writable, Writer
<1>3. CASE w.isClosed \/ n <= w.stop - w.wrNext
  <2>1. k = 0
    BY <1>3 DEF Flushes
  <2>2. t = [w EXCEPT !.wrNext = Least(w.wrNext + n, w.stop)]
    BY <2>1 DEF PutStr
  <2>3. /\ Least(w.wrNext + n, w.stop) \in Header..BuffLen
        /\ ~w.isClosed => Least(w.wrNext + n, w.stop) = w.wrNext + n
    BY <1>1, <1>2, <1>3 DEF Least
  <2>4. t \in Writer(type) /\ t.isClosed = w.isClosed
        /\ t.wrNext = Least(w.wrNext + n, w.stop)
    BY <2>2, <2>3 DEF Writable, Writer
  <2>5. t.wrNext \in Nat /\ k * Room = 0
    BY <1>1, <2>1, <2>3, <2>4
  <2> QED BY <2>1, <2>3, <2>4, <2>5, Fits
<1>4. CASE ~(w.isClosed \/ n <= w.stop - w.wrNext)
  <2>1. all \in Nat /\ all > Room /\ Room \in Nat /\ Room > 0
    BY <1>1, <1>2, <1>4
  <2>2. k = (all - 1) \div Room
    BY <1>4 DEF Flushes
  <2> HIDE DEF all
  <2>3. /\ k \in Nat /\ k > 0
        /\ (all - 1) - k * Room \in 0..(Room - 1)
    BY <2>1, <2>2
  <2>4. t = [w EXCEPT !.wrNext = w.wrNext + n - k * Room, !.isAnythingWritten = TRUE]
    BY <2>3 DEF PutStr
  <2> DEFINE x == k * Room
  <2>5. x \in Nat
    BY <2>1, <2>3
  <2>6. (all - 1) - x \in 0..(Room - 1) /\ all = w.wrNext - Header + n
    BY <2>3 DEF all
  <2> HIDE DEF x, k
  <2>7. w.wrNext + n - x \in Header..BuffLen
    BY <1>1, <1>2, <2>1, <2>5, <2>6
  <2>8. /\ t \in Writer(type) /\ t.isClosed = w.isClosed
        /\ t.wrNext = w.wrNext + n - x
    BY <2>4, <2>7 DEF Writable, Writer, x
  <2>9. t.wrNext + x = w.wrNext + n
    BY <1>1, <1>2, <2>5, <2>8
  <2> QED BY <2>3, <2>8, <2>9, Fits DEF x, k
<1> QED BY <1>3, <1>4

-----------------------------------------------------------------------------
(* The types, step by step.                                                *)

\* The places of FillBuffProc and of the application.
Places == {"idle", "accept", "fill", "header", "nested", "begun", "params", "serve"}

\* write_it_all: all the records have gone out, or the web server is gone, or the
\* reply is cut.
LEMMA WriteAllOf ==
  ASSUME NEW before, NEW records, NEW w \in WriteAll(before, records)
  PROVE  /\ w.ok \in BOOLEAN /\ w.signal \in BOOLEAN
         /\ w.ok => w.reply = IF server.state = "open"
                                THEN before \o First(records, Len(records)) ELSE before
         /\ ~w.ok =>
              \/ server.state # "open" /\ w.reply = before
              \/ \E k \in 0..(Len(records) - 1) :
                   w.reply = Append(IF server.state = "open"
                                      THEN before \o First(records, k) ELSE before, Cut)
<1> DEFINE sent(k) == IF server.state = "open" THEN before \o First(records, k) ELSE before
<1>1. CASE w = [ok |-> TRUE, reply |-> sent(Len(records)), signal |-> FALSE]
  BY <1>1
<1>2. CASE /\ w = [ok |-> FALSE, reply |-> before, signal |-> FALSE]
           /\ server.state # "open"
  BY <1>2
<1>3. CASE \E k \in 0..(Len(records) - 1) :
             w = [ok |-> FALSE, reply |-> Append(sent(k), Cut), signal |-> TRUE]
  <2>1. PICK k \in 0..(Len(records) - 1) :
          w = [ok |-> FALSE, reply |-> Append(sent(k), Cut), signal |-> TRUE]
    BY <1>3
  <2>2. w.ok = FALSE /\ w.signal = TRUE /\ w.reply = Append(sent(k), Cut)
    BY <2>1, Zenon
  <2> QED BY <2>2, Zenon
<1>4. \/ w = [ok |-> TRUE, reply |-> sent(Len(records)), signal |-> FALSE]
      \/ \E k \in IF server.state = "open" \/ records = <<>> THEN {} ELSE {0} :
           w = [ok |-> FALSE, reply |-> before, signal |-> FALSE]
      \/ \E k \in 0..(Len(records) - 1) :
             w = [ok |-> FALSE, reply |-> Append(sent(k), Cut), signal |-> TRUE]
  BY Zenon DEF WriteAll
<1> HIDE DEF sent
<1>5. (\E k \in IF server.state = "open" \/ records = <<>> THEN {} ELSE {0} :
           w = [ok |-> FALSE, reply |-> before, signal |-> FALSE])
      => /\ w = [ok |-> FALSE, reply |-> before, signal |-> FALSE]
         /\ server.state # "open"
  OBVIOUS
<1> QED BY <1>1, <1>2, <1>3, <1>4, <1>5

\* What changes only the reader, its place and the header.
LEMMA ReaderStep ==
  ASSUME TInv, Readable(in)', InPlace', pc' \in Places, header' \in Seq(Sound),
         UNCHANGED <<caller, request, env, body, wire, writer, printed, server>>,
         shutdownPending' \in BOOLEAN
  PROVE  TInv'
  BY DEF TInv, Typed, ServerOK, Places, writer

\* 1635-1645: a read brings some of the cells that are there.
LEMMA FillReadTypes == ASSUME TInv, FillRead PROVE TInv'
<1>1. PICK n \in 1..Len(wire) :
        /\ in' = [in EXCEPT !.buff = First(wire, n)] /\ wire' = Drop(wire, n)
  BY DEF FillRead
<1>2. wire \in Seq(Sound) /\ n \in 0..Len(wire) /\ in \in Stream
  BY DEF TInv, Typed, Readable
<1> DEFINE s == First(wire, n)
<1>3. s \in Seq(Sound) /\ Len(s) \in Nat /\ wire' \in Seq(Sound)
  <2>1. s \in Seq(Sound) /\ Len(s) = n
    BY <1>2, FirstOf, Zenon
  <2>2. wire' \in Seq(Sound)
    BY <1>1, <1>2, DropOf, Zenon
  <2> QED BY <1>2, <2>1, <2>2
<1> HIDE DEF s
<1>4. in' = [in EXCEPT !.buff = s]
  BY <1>1 DEF s
<1>5. in.stop = 0
  BY DEF FillRead, TInv, InPlace
<1>6. /\ in' \in Stream /\ in'.stop = 0 /\ in'.eorStop = in.eorStop /\ in'.buff = s
      /\ in'.contentLen = in.contentLen
  BY <1>2, <1>3, <1>4, <1>5 DEF Stream
<1>7. Readable(in)'
  BY <1>3, <1>6 DEF Readable
<1>8. /\ UNCHANGED <<pc, caller, header, request, env, body, out, err, printed,
                     server, shutdownPending>>
      /\ pc = "fill"
  BY DEF FillRead, writer
<1>9. InPlace'
  BY <1>6, <1>8 DEF TInv, InPlace
<1> QED BY <1>3, <1>7, <1>8, <1>9 DEF TInv, Typed, ServerOK

\* SetError, where the read of FillBuffProc fails.
LEMMA ReadErrorTypes ==
  ASSUME TInv, ReadError, pc = "fill",
         UNCHANGED <<caller, request, env, body, wire, writer, printed, server>>,
         shutdownPending' \in BOOLEAN
  PROVE  TInv'
<1>1. Readable(in) /\ header \in Seq(Sound) /\ caller \in {"begun", "params", "serve"}
  BY DEF TInv, Typed
<1>2. /\ Readable(in)' /\ in'.eorStop = in.eorStop /\ in'.stop = in.stop
      /\ in.eorStop \in BOOLEAN
  <2>1. in' = SetError(in)
    BY DEF ReadError
  <2> QED BY <1>1, <2>1, SetErrorReadable DEF Readable, Stream
<1>3. header' \in Seq(Sound) /\ pc' \in Places
  BY <1>1 DEF ReadError, Returns, Places
<1>4. InPlace'
  <2>1. CASE in.eorStop
    BY <1>2, <2>1 DEF TInv, InPlace, ReadError, Returns
  <2>2. CASE ~in.eorStop
    <3>1. header' = <<>> /\ pc' = caller
      BY <2>2 DEF ReadError, Returns
    <3>2. Len(header') < HeaderLen
      BY <3>1, LengthsAssumption
    <3> QED BY <1>1, <1>2, <2>2, <3>1, <3>2 DEF InPlace
  <2> QED BY <2>1, <2>2
<1> QED BY <1>2, <1>3, <1>4, ReaderStep

\* A read that ends the stream, which the loop of the caller sees.
LEMMA FillFailsTypes == ASSUME TInv, FillFails PROVE TInv'
<1>1. shutdownPending' \in BOOLEAN
  BY DEF FillFails, TInv, Typed
<1> QED BY <1>1, ReadErrorTypes DEF FillFails

\* OS_Sigusr1Handler.
LEMMA Sigusr1Types == ASSUME TInv, Sigusr1 PROVE TInv'
<1>1. shutdownPending' \in BOOLEAN
  BY DEF Sigusr1
<1>2. CASE pc = "fill" /\ ReadError
  BY <1>1, <1>2, ReadErrorTypes DEF Sigusr1
<1>3. CASE UNCHANGED <<pc, in, header>>
  <2>1. InPlace' /\ Readable(in)' /\ pc' \in Places /\ header' \in Seq(Sound)
    BY <1>3 DEF TInv, InPlace, Typed, Readable, Places
  <2> QED BY <1>1, <2>1, ReaderStep DEF Sigusr1
<1> QED BY <1>2, <1>3 DEF Sigusr1

\* 1650-1656: content is delivered.
LEMMA FillContentTypes == ASSUME TInv, FillContent PROVE TInv'
<1> DEFINE n == Least(in.contentLen, Len(in.buff))
<1>1. in \in Stream /\ Readable(in) /\ header \in Seq(Sound)
      /\ caller \in {"begun", "params", "serve"}
  BY DEF TInv, Typed, Readable
<1>2. in.contentLen \in Nat /\ Len(in.buff) \in Nat /\ in.eorStop \in BOOLEAN
  BY <1>1 DEF Stream
<1>3. n \in Nat /\ n <= in.contentLen /\ n <= Len(in.buff)
  BY <1>2, LeastOf, Zenon
<1> HIDE DEF n
<1>9. in.contentLen - n \in Nat
  BY <1>2, <1>3
<1>4. in' = [in EXCEPT !.stop = n, !.contentLen = in.contentLen - n]
  BY <1>1 DEF FillContent, Stream, n
<1>5. in' \in Stream /\ in'.stop = n /\ in'.eorStop = in.eorStop /\ in'.buff = in.buff
  BY <1>1, <1>3, <1>4, <1>9 DEF Stream
<1>6. Readable(in)'
  BY <1>3, <1>5 DEF Readable
<1>7. /\ pc = "fill" /\ pc' = Returns /\ pc' \in Places
      /\ UNCHANGED <<caller, header, request, env, body, wire, writer, printed, server,
                     shutdownPending>>
  BY <1>1 DEF FillContent, Returns, Places
<1>8. InPlace'
  <2>1. in.contentLen > 0 /\ ~in.skip
    BY DEF FillContent
  <2>2. CASE in.eorStop
    BY <1>5, <1>7, <2>2 DEF TInv, InPlace, Returns
  <2>3. CASE ~in.eorStop
    <3>1. header = <<>> /\ Len(header) < HeaderLen
      BY <1>2, <2>1, <2>3 DEF TInv, InPlace
    <3> QED BY <1>1, <1>5, <1>7, <2>3, <3>1 DEF TInv, InPlace, Returns
  <2> QED BY <1>2, <2>2, <2>3
<1> QED BY <1>1, <1>6, <1>7, <1>8, ReaderStep DEF TInv, Typed

\* 1657-1696: content and padding are passed over, then the next header is
\* collected.
LEMMA FillRestTypes == ASSUME TInv, FillRest PROVE TInv'
<1> DEFINE c == PastContent(in)
           past == PastPadding(c)
           n == Least(HeaderLen - Len(header), Len(past.buff))
           rest == Drop(past.buff, n)
           part == First(past.buff, n)
           next == [past EXCEPT !.buff = rest, !.stop = 0]
<1>1. /\ Readable(in) /\ in.stop = 0 /\ header \in Seq(Sound) /\ pc = "fill"
      /\ in.eorStop \in BOOLEAN /\ shutdownPending \in BOOLEAN
      /\ UNCHANGED <<caller, request, env, body, wire, writer, printed, server,
                     shutdownPending>>
  BY DEF FillRest, TInv, Typed, InPlace, Readable, Stream
<1>2. Readable(c) /\ c.stop = 0 /\ c.eorStop = in.eorStop
  BY <1>1, PastContentReadable
<1>3. Readable(past) /\ past.stop = 0 /\ past.eorStop = in.eorStop
  <2> HIDE DEF c
  <2> QED BY <1>2, PastPaddingReadable
<1>4. CASE c.contentLen > 0 /\ in' = c /\ UNCHANGED <<pc, header>>
  <2>1. ~in.eorStop => header = <<>> \/ in.contentLen = 0
    BY DEF TInv, InPlace
  <2>2. in.contentLen = 0 => c.contentLen = 0
    <3>1. in.contentLen = 0 => Least(in.contentLen, Len(in.buff)) = 0
      BY <1>1 DEF Least, Readable, Stream
    <3> QED BY <1>1, <3>1 DEF PastContent, Readable, Stream
  <2>3. in.contentLen # 0
    BY <1>4, <2>2
  <2> HIDE DEF c
  <2>4. InPlace'
    BY <1>1, <1>2, <1>4, <2>1, <2>3 DEF TInv, InPlace
  <2> QED BY <1>1, <1>2, <1>4, <2>4, ReaderStep DEF Places
<1>5. CASE c.contentLen = 0 /\ past.paddingLen > 0 /\ in' = past /\ UNCHANGED <<pc, header>>
  <2>1. past.contentLen = 0
    <3>1. past.contentLen = c.contentLen
      BY <1>2 DEF PastPadding, Readable, Stream
    <3> QED BY <1>5, <3>1
  <2> HIDE DEF c, past
  <2>2. InPlace'
    BY <1>1, <1>3, <1>5, <2>1 DEF TInv, InPlace
  <2> QED BY <1>1, <1>3, <1>5, <2>2, ReaderStep DEF Places
<1>6. CASE /\ in.eorStop /\ pc' = "nested" /\ UNCHANGED header
           /\ in' = [past EXCEPT !.stop = 0, !.isClosed = TRUE]
  <2> HIDE DEF past
  <2>1. in' \in Stream /\ in'.stop = 0 /\ in'.eorStop /\ in'.buff = past.buff
    BY <1>3, <1>6 DEF Readable, Stream
  <2>2. Readable(in)'
    BY <1>3, <2>1 DEF Readable
  <2>3. InPlace'
    BY <1>1, <1>6, <2>1 DEF TInv, InPlace
  <2> QED BY <1>1, <1>6, <2>2, <2>3, ReaderStep DEF Places
<1>7. CASE /\ ~in.eorStop /\ c.contentLen = 0 /\ past.paddingLen = 0
           /\ header' = header \o part
           /\ IF Len(header') < HeaderLen
                THEN in' = next /\ UNCHANGED pc
                ELSE in' = [next EXCEPT !.eorStop = TRUE] /\ pc' = "header"
  <2>1. /\ Len(header) \in Nat /\ Len(header) < HeaderLen /\ HeaderLen \in Nat
    BY <1>1, <1>7, LengthsAssumption DEF TInv, InPlace
  <2>2. past.buff \in Seq(Sound) /\ Len(past.buff) \in Nat
    BY <1>3 DEF Readable, Stream
  <2>3. n \in 0..Len(past.buff) /\ Len(header) + n <= HeaderLen
    <3>1. HeaderLen - Len(header) \in Nat
      BY <2>1
    <3>2. n \in Nat /\ n <= HeaderLen - Len(header) /\ n <= Len(past.buff)
      BY <2>2, <3>1, LeastOf, Zenon
    <3> HIDE DEF n, past
    <3> QED BY <2>1, <2>2, <3>2
  <2>4. /\ part \in Seq(Sound) /\ Len(part) = n /\ rest \in Seq(Sound)
    BY <2>2, <2>3, FirstOf, DropOf, Zenon
  <2>5. past.contentLen = 0
    <3>1. past.contentLen = c.contentLen
      BY <1>2 DEF PastPadding, Readable, Stream
    <3> QED BY <1>7, <3>1
  <2> HIDE DEF past, n, part, rest, c
  <2>6. header' \in Seq(Sound) /\ Len(header') = Len(header) + n
    <3>1. header' = header \o part
      BY <1>7
    <3>2. header \o part \in Seq(Sound) /\ Len(header \o part) = Len(header) + Len(part)
      BY <1>1, <2>4, ConcatProperties
    <3> QED BY <2>4, <3>1, <3>2
  <2>7. /\ next \in Stream /\ next.stop = 0 /\ ~next.eorStop /\ next.buff = rest
        /\ next.contentLen = 0
    BY <1>3, <1>7, <2>4, <2>5 DEF Readable, Stream
  <2>8. Len(rest) \in Nat
    BY <2>4
  <2> HIDE DEF next
  <2>9. CASE Len(header') < HeaderLen
    <3>1. in' = next /\ pc' = "fill"
      BY <1>1, <1>7, <2>9
    <3>2. Readable(in)' /\ InPlace'
      BY <2>7, <2>8, <2>9, <3>1 DEF Readable, InPlace
    <3> QED BY <1>1, <2>6, <3>1, <3>2, ReaderStep DEF Places
  <2>10. CASE Len(header') >= HeaderLen
    <3>1. in' = [next EXCEPT !.eorStop = TRUE] /\ pc' = "header"
      BY <1>7, <2>1, <2>3, <2>6, <2>10
    <3>2. in' \in Stream /\ in'.stop = 0 /\ in'.eorStop /\ in'.buff = rest
      BY <2>7, <3>1 DEF Stream
    <3>3. Len(header') = HeaderLen
      BY <2>1, <2>3, <2>6, <2>10
    <3>4. Readable(in)' /\ InPlace'
      BY <2>8, <3>1, <3>2, <3>3 DEF Readable, InPlace
    <3> QED BY <1>1, <2>6, <3>1, <3>4, ReaderStep DEF Places
  <2> QED BY <2>1, <2>3, <2>6, <2>9, <2>10
<1> HIDE DEF c, past, next, part, rest
<1> QED BY <1>4, <1>5, <1>6, <1>7, Zenon DEF FillRest, c, past, next, part, rest, n

\* The record of a header: its length and its padding are numbers.
LEMMA CurrentIsSound ==
  ASSUME TInv, pc \in {"header", "nested"}
  PROVE  /\ header[1] \in Sound /\ Current.len \in Nat /\ Current.pad \in Nat
         /\ Current.id \in 0..2 /\ Current.keep \in BOOLEAN
         /\ Current.role \in {"NONE", "RESPONDER", "OTHER"}
         /\ Current.type \in RecordTypes
<1>1. header \in Seq(Sound) /\ Len(header) = HeaderLen
  BY DEF TInv, Typed, InPlace
<1>2. 1 \in 1..Len(header)
  BY <1>1, LengthsAssumption
<1>3. header[1] \in Sound
  BY <1>1, <1>2, ElementOfSeq
<1>4. header[1] \in Cell
  BY <1>3 DEF Sound
<1> QED BY <1>3, <1>4 DEF Current, Cell, Records

\* ProcessHeader announces what the record has.
LEMMA AnnouncedReadable ==
  ASSUME TInv, pc = "header"
  PROVE  /\ Readable(Announced) /\ Announced.stop = 0 /\ Announced.buff = in.buff
         /\ Announced.eorStop
         /\ Readable([Announced EXCEPT !.skip = TRUE])
         /\ [Announced EXCEPT !.skip = TRUE].stop = 0
         /\ [Announced EXCEPT !.skip = TRUE].buff = in.buff
<1> DEFINE len == Current.len
           pad == Current.pad
           t == [in EXCEPT !.contentLen = len, !.paddingLen = pad]
           u == [t EXCEPT !.skip = TRUE]
<1>1. len \in Nat /\ pad \in Nat
  BY CurrentIsSound
<1> HIDE DEF len, pad
<1>2. in \in Stream /\ in.eorStop /\ in.stop = 0
  BY DEF TInv, InPlace, Typed, Readable
<1>3. /\ t \in Stream /\ t.stop = 0 /\ t.eorStop /\ t.buff = in.buff
      /\ Len(in.buff) \in Nat
  <2>1. t \in Stream
    BY <1>1, <1>2 DEF Stream
  <2>2. t.stop = in.stop /\ t.eorStop = in.eorStop /\ t.buff = in.buff
    BY <1>2 DEF Stream
  <2>3. Len(in.buff) \in Nat
    BY <1>2 DEF Stream
  <2> HIDE DEF t
  <2> QED BY <1>2, <2>1, <2>2, <2>3
<1> HIDE DEF t
<1>4. u \in Stream /\ u.stop = 0 /\ u.buff = in.buff
  BY <1>3 DEF Stream
<1>5. Announced = t
  BY DEF Announced, t, len, pad
<1> HIDE DEF u
<1> QED BY <1>3, <1>4, <1>5 DEF Readable, u

\* The ways back from ProcessHeader to the loop of FillBuffProc.
LEMMA EndsInErrorTypes ==
  ASSUME TInv, NEW s, Readable(s), EndsInError(s),
         UNCHANGED <<caller, request, env, body, wire, writer, printed, server>>,
         shutdownPending' \in BOOLEAN
  PROVE  TInv'
<1>1. Readable(in)' /\ ~in'.eorStop /\ pc' = caller /\ header' = <<>>
  BY BackReadable, SetErrorReadable DEF EndsInError
<1>2. pc' \in Places /\ header' \in Seq(Sound) /\ pc' \notin {"fill", "header", "nested"}
  BY <1>1 DEF TInv, Typed, Places
<1>3. InPlace'
  BY <1>1, <1>2, LengthsAssumption DEF InPlace
<1> QED BY <1>1, <1>2, <1>3, ReaderStep DEF TInv, Typed

\* ProcessHeader came back without the end of the stream: FillBuffProc goes round.
LEMMA GoesOnTypes ==
  ASSUME TInv, NEW s, Readable(s), s.stop = 0, GoesOn(s),
         UNCHANGED <<caller, request, env, body, wire, writer, printed, server>>,
         shutdownPending' \in BOOLEAN
  PROVE  TInv'
<1>1. Readable(in)' /\ ~in'.eorStop /\ pc' = "fill" /\ header' = <<>> /\ in'.stop = 0
  BY BackReadable DEF GoesOn
<1>2. pc' \in Places /\ header' \in Seq(Sound)
  BY <1>1 DEF Places
<1>3. InPlace'
  BY <1>1, LengthsAssumption DEF InPlace
<1> QED BY <1>1, <1>2, <1>3, ReaderStep DEF TInv, Typed

\* A version or a type ProcessHeader does not take.
LEMMA ProtocolErrorTypes == ASSUME TInv, ProtocolError PROVE TInv'
<1>1. Readable(in) /\ Readable(Announced)
  BY AnnouncedReadable DEF ProtocolError, TInv, Typed
<1>2. EndsInError(in) \/ EndsInError(Announced)
  BY DEF ProtocolError
<1>3. /\ UNCHANGED <<caller, request, env, body, wire, writer, printed, server,
                     shutdownPending>>
      /\ shutdownPending' \in BOOLEAN
  BY DEF ProtocolError, TInv, Typed
<1> QED BY <1>1, <1>2, <1>3, EndsInErrorTypes

\* The header of a record that nobody sent.
LEMMA ForgedHeader ==
  ASSUME NEW r \in Forgeries
  PROVE  /\ First(Cells(r), HeaderLen) \in Seq(Sound)
         /\ Len(First(Cells(r), HeaderLen)) = HeaderLen
         /\ \A i \in 1..HeaderLen : First(Cells(r), HeaderLen)[i] = [of |-> r, at |-> i]
<1> DEFINE n == HeaderLen + r.len + r.pad
           c == [i \in 1..n |-> [of |-> r, at |-> i]]
<1>1. /\ r \in Records /\ n \in Nat /\ HeaderLen \in 0..n /\ HeaderLen \in Nat
      /\ r.type = "BEGIN" /\ r.role = "RESPONDER" => r.id = 1
  BY ForgeriesAreRecords, LengthsAssumption DEF Records
<1> HIDE DEF n
<1>2. Cells(r) = c
  BY DEF Cells, n
<1>3. c \in Seq([of : {r}, at : Nat]) /\ Len(c) = n
  BY <1>1
<1>4. \A i \in 1..HeaderLen : c[i] = [of |-> r, at |-> i]
  BY <1>1
<1> HIDE DEF c
<1> DEFINE h == First(c, HeaderLen)
<1>5. /\ Len(h) = HeaderLen /\ h \in Seq([of : {r}, at : Nat])
      /\ \A i \in 1..HeaderLen : h[i] = c[i]
  BY ONLY <1>1, <1>3, FirstOf, Zenon
<1> HIDE DEF h
<1>6. \A i \in 1..HeaderLen : h[i] = [of |-> r, at |-> i]
  BY <1>4, <1>5
<1>7. ASSUME NEW i \in 1..HeaderLen PROVE h[i] \in Sound
  <2> DEFINE e == [of |-> r, at |-> i]
  <2>1. i \in Nat \ {0} /\ i <= HeaderLen
    BY <1>1
  <2>2. e \in Cell /\ e.of = r /\ e.at = i
    BY <1>1, <2>1 DEF Cell
  <2>3. h[i] = e
    BY <1>6
  <2> HIDE DEF e
  <2>4. e \in Sound
    BY ONLY <1>1, <2>1, <2>2 DEF Sound
  <2> QED BY <2>3, <2>4
<1>8. h \in [1..HeaderLen -> [of : {r}, at : Nat]]
  <2>1. h \in [1..Len(h) -> [of : {r}, at : Nat]]
    <3> DEFINE S == [of : {r}, at : Nat]
    <3>1. h \in Seq(S)
      BY <1>5
    <3> HIDE DEF S
    <3>2. h \in [1..Len(h) -> S]
      BY ONLY <3>1, LenProperties
    <3> QED BY ONLY <3>2 DEF S
  <2> QED BY ONLY <1>5, <2>1, Zenon
<1>9. h \in [1..HeaderLen -> Sound]
  BY ONLY <1>7, <1>8
<1>10. h \in Seq(Sound)
  BY <1>1, <1>9
<1> QED BY <1>2, <1>5, <1>6, <1>10 DEF h

\* Other bytes are taken for it.
LEMMA MisreadTypes == ASSUME TInv, Misread PROVE TInv'
<1>1. /\ pc = "header" /\ header' \in Seq(Sound) /\ Len(header') = HeaderLen
      /\ UNCHANGED <<pc, caller, request, in, env, body, wire, out, err, printed,
                     shutdownPending>>
  <2>1. PICK r \in Forgeries : header' = First(Cells(r), HeaderLen)
    BY DEF Misread
  <2>2. header' \in Seq(Sound) /\ Len(header') = HeaderLen
    BY <2>1, ForgedHeader
  <2> QED BY <2>2 DEF Misread, writer
<1>2. ServerOK'
  <2>2. ServerOK
    BY DEF TInv, Typed
  <2> DEFINE o == IF server.forged THEN server.odd ELSE server.odd + 1
  <2>5. o \in Nat
    BY <2>2 DEF ServerOK
  <2>1. server' = [server EXCEPT !.forged = TRUE, !.odd = o]
    BY DEF Misread
  <2> HIDE DEF o
  <2>3. server'.at = server.at /\ server'.phase = server.phase
    BY <2>1, <2>2 DEF ServerOK
  <2>4. server' \in [state : {"none", "open", "hungup", "forgotten"}, count : Nat,
                    phase : [Ids -> {"begin", "PARAMS", "STDIN", "done"}],
                    at : [Ids -> Nat], odd : Nat, unsafe : BOOLEAN,
                    forged : BOOLEAN]
    BY <2>1, <2>2, <2>5 DEF ServerOK
  <2> QED BY <2>2, <2>3, <2>4 DEF ServerOK
<1>3. InPlace'
  <2>1. in.eorStop /\ in.stop = 0
    BY <1>1 DEF TInv, InPlace
  <2>2. in' = in /\ pc' = pc
    BY <1>1
  <2> QED BY ONLY <1>1, <2>1, <2>2 DEF InPlace
<1>4. Readable(in')
  <2>1. in' = in
    BY <1>1
  <2>2. Readable(in)
    BY DEF TInv, Typed
  <2> QED BY ONLY <2>1, <2>2
<1> QED BY <1>1, <1>2, <1>3, <1>4 DEF TInv, Typed

\* A second BEGIN_REQUEST while one request is served.
LEMMA MultiplexedTypes == ASSUME TInv, Multiplexed PROVE TInv'
<1> DEFINE record == [type |-> "CANT_MPX_CONN", id |-> Current.id, len |-> 8, pad |-> 0]
<1>1. /\ Readable(Announced) /\ Readable([Announced EXCEPT !.skip = TRUE])
      /\ [Announced EXCEPT !.skip = TRUE].stop = 0
  BY AnnouncedReadable DEF Multiplexed
<1>2. PICK w \in WriteAll(reply, <<record>>) :
        /\ IF w.ok THEN GoesOn([Announced EXCEPT !.skip = TRUE]) ELSE EndsInError(Announced)
        /\ shutdownPending' = (shutdownPending \/ w.signal)
  BY DEF Multiplexed
<1>3. /\ UNCHANGED <<caller, request, env, body, wire, writer, printed, server>>
      /\ shutdownPending' \in BOOLEAN
  <2>1. w.signal \in BOOLEAN
    BY <1>2, WriteAllOf, Zenon
  <2> QED BY <1>2, <2>1 DEF Multiplexed, TInv, Typed
<1> QED BY <1>1, <1>2, <1>3, EndsInErrorTypes, GoesOnTypes

\* A management record of a type nobody knows.
LEMMA UnknownManagementTypes == ASSUME TInv, UnknownManagement PROVE TInv'
<1> DEFINE record == [type |-> "UNKNOWN_TYPE", id |-> 0, len |-> 8, pad |-> 0]
<1>1. Readable(Announced) /\ Announced.stop = 0
  BY AnnouncedReadable DEF UnknownManagement
<1>2. PICK w \in WriteAll(reply, <<record>>) :
        /\ IF w.ok THEN GoesOn(Announced) ELSE EndsInError(Announced)
        /\ shutdownPending' = (shutdownPending \/ w.signal)
  BY DEF UnknownManagement
<1>3. /\ UNCHANGED <<caller, request, env, body, wire, writer, printed, server>>
      /\ shutdownPending' \in BOOLEAN
  <2>1. w.signal \in BOOLEAN
    BY <1>2, WriteAllOf, Zenon
  <2> QED BY <1>2, <2>1 DEF UnknownManagement, TInv, Typed
<1> QED BY <1>1, <1>2, <1>3, EndsInErrorTypes, GoesOnTypes

\* A record of another request is skipped.
LEMMA OtherRequestTypes == ASSUME TInv, OtherRequest PROVE TInv'
<1>1. /\ Readable([Announced EXCEPT !.skip = TRUE])
      /\ [Announced EXCEPT !.skip = TRUE].stop = 0
  BY AnnouncedReadable DEF OtherRequest
<1>2. /\ UNCHANGED <<caller, request, env, body, wire, writer, printed, server,
                     shutdownPending>>
      /\ shutdownPending' \in BOOLEAN
  BY DEF OtherRequest, TInv, Typed
<1> QED BY <1>1, <1>2, GoesOnTypes DEF OtherRequest

\* A record of the stream that is read.
LEMMA StreamRecordTypes == ASSUME TInv, StreamRecord PROVE TInv'
<1>1. Readable(Announced) /\ Announced.stop = 0
  BY AnnouncedReadable DEF StreamRecord
<1>2. /\ UNCHANGED <<caller, request, env, body, wire, writer, printed, server,
                     shutdownPending>>
      /\ shutdownPending' \in BOOLEAN
  BY DEF StreamRecord, TInv, Typed
<1>3. CASE GoesOn(Announced)
  BY <1>1, <1>2, <1>3, GoesOnTypes
<1>4. CASE /\ in' = [Back(Announced) EXCEPT !.isClosed = TRUE]
           /\ pc' = caller /\ header' = <<>>
  <2> DEFINE s == Back(Announced)
  <2>1. Readable(s) /\ ~s.eorStop /\ s.stop = 0
    BY <1>1, BackReadable
  <2>2. in' = [s EXCEPT !.isClosed = TRUE]
    BY <1>4
  <2> HIDE DEF s
  <2>3. in' \in Stream /\ ~in'.eorStop /\ in'.stop = s.stop /\ in'.buff = s.buff
    BY <2>1, <2>2 DEF Readable, Stream
  <2>4. Readable(in)'
    BY <2>1, <2>3 DEF Readable
  <2>5. pc' \in Places /\ header' \in Seq(Sound) /\ pc' \notin {"fill", "header", "nested"}
    BY <1>4 DEF TInv, Typed, Places
  <2>6. InPlace'
    BY <1>4, <2>3, <2>5, LengthsAssumption DEF InPlace
  <2> QED BY <1>2, <2>4, <2>5, <2>6, ReaderStep DEF TInv, Typed
<1> QED BY <1>3, <1>4 DEF StreamRecord

\* 1560-1583: the body of a record is read with calls of FillBuffProc's own.
LEMMA ProcessContentTypes == ASSUME TInv, ProcessContent PROVE TInv'
<1>1. /\ Readable(Announced) /\ Announced.stop = 0 /\ Announced.eorStop
      /\ Current.id \in 0..2
  BY AnnouncedReadable, CurrentIsSound DEF ProcessContent
<1>2. /\ in' = Announced /\ pc = "header" /\ pc' = "fill"
      /\ UNCHANGED <<caller, header, env, body, wire, out, err, printed, server,
                     shutdownPending>>
      /\ request' = request \/ request' = [request EXCEPT !.requestId = Current.id]
  BY DEF ProcessContent, writer
<1>3. request' \in Request
  <2>1. request \in Request
    BY DEF TInv, Typed
  <2>2. [request EXCEPT !.requestId = Current.id] \in Request
    BY <1>1, <2>1 DEF Request
  <2> QED BY <1>2, <2>1, <2>2
<1>4. Len(header) = HeaderLen
  BY <1>2 DEF TInv, InPlace
<1> HIDE DEF Announced
<1>5. InPlace' /\ Readable(in)'
  BY <1>1, <1>2, <1>4 DEF InPlace
<1> QED BY <1>2, <1>3, <1>5 DEF TInv, Typed, ServerOK

\* The reader ProcessHeader opens for the body of a BEGIN_REQUEST takes what is there.
LEMMA NestedTakeTypes == ASSUME TInv, NestedTake PROVE TInv'
<1>1. /\ Readable(in) /\ in.eorStop /\ pc = "nested" /\ Len(header) = HeaderLen
      /\ header \in Seq(Sound) /\ caller \in {"begun", "params", "serve"}
      /\ Current.keep \in BOOLEAN /\ Current.role \in {"NONE", "RESPONDER", "OTHER"}
  BY CurrentIsSound DEF NestedTake, TInv, Typed, InPlace
<1>2. /\ Readable(Taken(in)) /\ Taken(in).stop = 0 /\ Taken(in).eorStop
  BY <1>1, TakenReadable
<1>3. /\ Readable(Back(Taken(in))) /\ Back(Taken(in)).stop = 0
      /\ ~Back(Taken(in)).eorStop
  BY <1>2, BackReadable
<1>4. UNCHANGED <<caller, env, body, wire, out, err, printed, server, shutdownPending>>
  BY DEF NestedTake, writer
<1>5. CASE /\ in' = Back(Taken(in)) /\ pc' = caller /\ header' = <<>>
           /\ request' = [request EXCEPT !.isBeginProcessed = TRUE,
                             !.keepConnection = Current.keep, !.role = Current.role]
  <2>1. request' \in Request
    BY <1>1, <1>5 DEF TInv, Typed, Request
  <2>2. InPlace' /\ Readable(in)'
    BY <1>1, <1>3, <1>5, LengthsAssumption DEF InPlace
  <2>3. pc' \in Places /\ header' \in Seq(Sound)
    BY <1>1, <1>5 DEF Places
  <2> QED BY <1>4, <2>1, <2>2, <2>3 DEF TInv, Typed, ServerOK, Places
<1>6. CASE in' = Taken(in) /\ pc' = "fill" /\ UNCHANGED <<header, request>>
  <2>1. InPlace' /\ Readable(in)'
    BY <1>1, <1>2, <1>6 DEF InPlace
  <2> QED BY <1>4, <1>6, <2>1 DEF TInv, Typed, ServerOK
<1> QED BY <1>5, <1>6 DEF NestedTake

\* That reader is closed with the body read, or without.
LEMMA NestedClosedTypes == ASSUME TInv, NestedClosed PROVE TInv'
<1>1. Readable(in) /\ in.stop = 0
  BY DEF NestedClosed, TInv, Typed
<1>2. EndsInError(in) \/ GoesOn(in)
  BY DEF NestedClosed
<1>3. UNCHANGED <<caller, request, env, body, wire, writer, printed, server>>
  BY DEF NestedClosed
<1>4. shutdownPending' \in BOOLEAN
  <2>1. CASE UNCHANGED shutdownPending
    BY <2>1 DEF TInv, Typed
  <2>2. ASSUME NEW record, NEW w \in WriteAll(reply, <<record>>),
               shutdownPending' = (shutdownPending \/ w.signal)
        PROVE  shutdownPending' \in BOOLEAN
    BY <2>2, WriteAllOf, Zenon
  <2> QED BY <2>1, <2>2 DEF NestedClosed
<1> QED BY <1>1, <1>2, <1>3, <1>4, EndsInErrorTypes, GoesOnTypes

\* A connection that the library has closed.
LEMMA ConnectionTypes ==
  ASSUME NEW n \in Nat
  PROVE  /\ NewConnection(n) \in [state : {"none", "open", "hungup", "forgotten"}, count : Nat,
                 phase : [Ids -> {"begin", "PARAMS", "STDIN", "done"}],
                 at : [Ids -> Nat], odd : Nat, unsafe : BOOLEAN,
                 forged : BOOLEAN]
         /\ \A id \in Ids : NewConnection(n).phase[id] = "begin"
                            /\ NewConnection(n).at[id] = 0
         /\ NewConnection(n).state = "open" /\ NewConnection(n).count = n
  BY DEF NewConnection

\* The web server of a closed connection starts from nothing.
LEMMA DroppedTypes ==
  ASSUME ServerOK, server' = Dropped
  PROVE  /\ ServerOK' /\ server'.state = "none" /\ server'.phase[1] = "begin"
         /\ server'.phase[2] = "begin" /\ server'.forged = server.forged
<1> DEFINE t == NewConnection(server.count)
<1>1. server.count \in Nat /\ server.forged \in BOOLEAN
  BY DEF ServerOK
<1>2. /\ t \in [state : {"none", "open", "hungup", "forgotten"}, count : Nat,
                phase : [Ids -> {"begin", "PARAMS", "STDIN", "done"}],
                at : [Ids -> Nat], odd : Nat, unsafe : BOOLEAN,
                forged : BOOLEAN]
      /\ \A id \in Ids : t.phase[id] = "begin" /\ t.at[id] = 0
  BY <1>1, ConnectionTypes
<1>3. server' = [t EXCEPT !.state = "none", !.forged = server.forged]
  BY DEF Dropped
<1> HIDE DEF t
<1>4. /\ server' \in [state : {"none", "open", "hungup", "forgotten"}, count : Nat,
                phase : [Ids -> {"begin", "PARAMS", "STDIN", "done"}],
                at : [Ids -> Nat], odd : Nat, unsafe : BOOLEAN,
                forged : BOOLEAN]
      /\ server'.phase = t.phase /\ server'.at = t.at /\ server'.state = "none"
      /\ server'.forged = server.forged
  BY <1>1, <1>2, <1>3
<1>5. \A id \in Ids : server'.at[id] <= Len(Bytes(server'.phase[id]))
  <2>1. \A id \in Ids : server'.at[id] = 0 /\ server'.phase[id] = "begin"
    BY <1>2, <1>4
  <2>2. Len(Bytes("begin")) = 0
    BY DEF Bytes
  <2> QED BY <2>1, <2>2
<1> QED BY <1>2, <1>4, <1>5 DEF ServerOK, Ids

\* A connection that is kept has at most lost its place.
LEMMA KeptTypes ==
  ASSUME ServerOK, server' = Kept
  PROVE  /\ ServerOK' /\ server'.state = server.state /\ server'.phase = server.phase
         /\ server'.at = server.at /\ server'.forged = server.forged
         /\ server'.unsafe = (server.unsafe \/ Midway(wire))
<1> DEFINE b == server.unsafe \/ Midway(wire)
<1>1. b \in BOOLEAN
  OBVIOUS
<1>2. server' = [server EXCEPT !.unsafe = b]
  BY DEF Kept, ServerOK
<1> HIDE DEF b
<1>3. /\ ServerOK' /\ server'.state = server.state /\ server'.phase = server.phase
      /\ server'.at = server.at /\ server'.forged = server.forged /\ server'.unsafe = b
  BY <1>1, <1>2 DEF ServerOK
<1> QED BY <1>3 DEF b

\* FCGX_Accept_r.
LEMMA AcceptRequestTypes == ASSUME TInv, AcceptRequest PROVE TInv'
<1>1. /\ InPlace' /\ Readable(in)'
  BY DEF AcceptRequest, TInv, InPlace, Typed, Readable
<1> QED BY <1>1, ReaderStep DEF AcceptRequest, TInv, Typed, Places

\* FCGX_InitRequest forgets the last request and its connection.
LEMMA InitRequestTypes == ASSUME TInv, InitRequest PROVE TInv'
<1>1. ServerOK'
  BY DEF InitRequest, TInv, Typed, ServerOK
<1>2. request' \in Request
  BY DEF InitRequest, NoRequest, Request
<1>3. UNCHANGED <<pc, caller, header, in, env, body, wire, out, err, printed,
                  shutdownPending>>
  BY DEF InitRequest, writer
<1>4. InPlace' /\ Readable(in)'
  BY <1>3 DEF TInv, InPlace, Typed, Readable
<1> QED BY <1>1, <1>2, <1>3, <1>4 DEF TInv, Typed

\* The reader of a request that is to begin.
LEMMA StartsReadingTypes ==
  ASSUME StartsReading
  PROVE  /\ Readable(in)' /\ in'.buff = <<>> /\ ~in'.eorStop /\ in'.stop = 0
         /\ header' = <<>> /\ pc' = "fill" /\ caller' = "begun" /\ InPlace'
<1>1. /\ Readable(in)' /\ in'.buff = <<>> /\ ~in'.eorStop /\ in'.stop = 0
      /\ header' = <<>> /\ pc' = "fill" /\ caller' = "begun"
  BY NewReaderReadable DEF StartsReading
<1> QED BY <1>1, LengthsAssumption DEF InPlace

\* OS_Accept: a connection that was kept, a new one, one refused, or the end.
LEMMA AcceptTypes == ASSUME TInv, Accept PROVE TInv'
<1>1. /\ UNCHANGED <<env, body, wire, out, err, printed, shutdownPending>>
      /\ pc = "accept" /\ header = <<>> /\ ~in.eorStop
      /\ header \in Seq(Sound) /\ Readable(in) /\ in \in Stream
  BY DEF Accept, writer, TInv, InPlace, Typed, Readable, Stream
<1>2. request' \in Request
  BY DEF Accept, TInv, Typed, Request
<1>3. ServerOK'
  <2>1. server' = server \/ server' = Dropped
    BY DEF Accept
  <2> QED BY <2>1, DroppedTypes DEF TInv, Typed, ServerOK
<1>4. CASE StartsReading
  <2>1. header' \in Seq(Sound) /\ pc' \in Places /\ caller' \in {"begun", "params", "serve"}
    BY <1>4, StartsReadingTypes DEF Places
  <2> QED BY <1>1, <1>2, <1>3, <1>4, <2>1, StartsReadingTypes DEF TInv, Typed, Places
<1>5. CASE pc' \in {"idle", "accept"} /\ UNCHANGED <<in, caller, header>>
  <2>1. InPlace' /\ Readable(in)'
    BY <1>1, <1>5, LengthsAssumption DEF InPlace, Readable
  <2> QED BY <1>1, <1>2, <1>3, <1>5, <2>1 DEF TInv, Typed
<1> QED BY <1>1, <1>4, <1>5 DEF Accept

\* FCGX_Free and the next turn of the loop.
LEMMA TryAgainTypes ==
  ASSUME TInv, TryAgain, header = <<>>, UNCHANGED body, printed' \in Nat,
         UNCHANGED shutdownPending
  PROVE  TInv'
<1>1. /\ pc' = "accept" /\ in' = NewReader("NONE") /\ wire' = <<>> /\ env' = <<>>
      /\ UNCHANGED <<caller, header, out, err>> /\ server' = Dropped
      /\ request' = [request EXCEPT !.ipcFd = FALSE]
  BY DEF TryAgain, writer
<1>2. request' \in Request
  BY <1>1 DEF TInv, Typed, Request
<1>3. ServerOK'
  BY <1>1, DroppedTypes DEF TInv, Typed
<1>4. Readable(in)' /\ ~in'.eorStop /\ in'.stop = 0
  BY <1>1, NewReaderReadable
<1>5. InPlace'
  BY <1>1, <1>4, LengthsAssumption DEF InPlace
<1> QED BY <1>1, <1>2, <1>3, <1>4, <1>5 DEF TInv, Typed

\* The loop over BEGIN_REQUEST ends, one way or the other.
LEMMA BegunTypes == ASSUME TInv, Begun PROVE TInv'
<1>1. header = <<>> /\ printed \in Nat /\ Readable(in)
      /\ UNCHANGED <<body, printed, shutdownPending>>
  BY DEF Begun, TInv, InPlace, Typed
<1>2. CASE TryAgain
  BY <1>1, <1>2, TryAgainTypes
<1>3. CASE /\ in' = SetReaderType(in, "PARAMS") /\ env' = <<>>
           /\ pc' = "fill" /\ caller' = "params"
           /\ UNCHANGED <<header, request, wire, writer, server>>
  <2>1. Readable(in)' /\ ~in'.eorStop /\ in'.stop = 0
    BY <1>1, <1>3, SetReaderTypeReadable
  <2>2. InPlace'
    BY <1>1, <1>3, <2>1, LengthsAssumption DEF InPlace
  <2> QED BY <1>1, <1>3, <2>1, <2>2 DEF TInv, Typed, ServerOK, writer
<1> QED BY <1>2, <1>3 DEF Begun

\* ReadParams takes a pair.
LEMMA ReadParamsTypes == ASSUME TInv, ReadParams PROVE TInv'
<1>1. /\ Readable(in) /\ header = <<>> /\ ~in.eorStop /\ env \in Seq(0..255)
      /\ UNCHANGED <<caller, header, request, body, wire, out, err, printed,
                     server, shutdownPending>>
      /\ pc' = "fill" /\ in' = Taken(in) /\ env' = env \o Delivered(in)
  BY DEF ReadParams, TInv, InPlace, Typed, writer
<1>2. env' \in Seq(0..255)
  BY <1>1, DeliveredAreBytes, ConcatProperties, Zenon
<1>3. Readable(in)' /\ ~in'.eorStop /\ in'.stop = 0
  BY <1>1, TakenReadable
<1>4. InPlace'
  BY <1>1, <1>3, LengthsAssumption DEF InPlace
<1> QED BY <1>1, <1>2, <1>3, <1>4 DEF TInv, Typed, ServerOK

\* ReadParams comes to its end, and the writers are opened.
LEMMA ParamsEndTypes == ASSUME TInv, ParamsEnd PROVE TInv'
<1>1. header = <<>> /\ printed \in Nat /\ Readable(in)
      /\ UNCHANGED <<body, shutdownPending>>
  BY DEF ParamsEnd, TInv, InPlace, Typed
<1>2. CASE TryAgain /\ UNCHANGED printed
  BY <1>1, <1>2, TryAgainTypes
<1>3. CASE /\ in' = SetReaderType(in, "STDIN") /\ pc' = "serve" /\ caller' = "serve"
           /\ out' = NewWriter("STDOUT") /\ err' = NewWriter("STDERR")
           /\ request' = [request EXCEPT !.nWriters = 2] /\ printed' = 0
           /\ UNCHANGED <<header, env, wire, server>>
  <2>1. Readable(in)' /\ ~in'.eorStop /\ in'.stop = 0
    BY <1>1, <1>3, SetReaderTypeReadable
  <2>2. InPlace'
    BY <1>1, <1>3, <2>1, LengthsAssumption DEF InPlace
  <2>3. Writable(out, "STDOUT")' /\ Writable(err, "STDERR")'
    BY <1>3, NewWriterWritable
  <2>4. request' \in Request
    BY <1>3 DEF TInv, Typed, Request
  <2> QED BY <1>1, <1>3, <2>1, <2>2, <2>3, <2>4 DEF TInv, Typed, ServerOK
<1> QED BY <1>2, <1>3 DEF ParamsEnd

\* The application's calls.
LEMMA ReadBodyTypes == ASSUME TInv, ReadBody PROVE TInv'
<1>1. /\ Readable(in) /\ header = <<>> /\ ~in.eorStop /\ body \in Seq(0..255)
      /\ in.stop \in Nat
      /\ UNCHANGED <<caller, header, request, env, wire, out, err, printed,
                     server, shutdownPending>>
      /\ pc = "serve"
  BY DEF ReadBody, TInv, InPlace, Typed, writer, Readable, Stream
<1>2. CASE body' = body \o Delivered(in) /\ in' = Taken(in) /\ UNCHANGED pc
  <2>1. body' \in Seq(0..255)
    BY <1>1, <1>2, DeliveredAreBytes, ConcatProperties, Zenon
  <2>2. Readable(in)' /\ ~in'.eorStop /\ in'.stop = 0
    BY <1>1, <1>2, TakenReadable
  <2>3. InPlace'
    BY <1>1, <1>2, <2>2, LengthsAssumption DEF InPlace
  <2> QED BY <1>1, <1>2, <2>1, <2>2, <2>3 DEF TInv, Typed, ServerOK
<1>3. CASE in.stop = 0 /\ pc' = "fill" /\ UNCHANGED <<in, body>>
  <2>1. InPlace' /\ Readable(in)'
    BY <1>1, <1>3, LengthsAssumption DEF InPlace, Readable
  <2> QED BY <1>1, <1>3, <2>1 DEF TInv, Typed, ServerOK
<1>4. in.stop > 0 \/ in.stop = 0
  BY <1>1
<1> QED BY <1>1, <1>2, <1>3, <1>4 DEF ReadBody

\* What changes only the writers.
LEMMA WriterStep ==
  ASSUME TInv, Writable(out, "STDOUT")', Writable(err, "STDERR")', printed' \in Nat,
         shutdownPending' \in BOOLEAN, UNCHANGED <<lib, body, wire, server>>
  PROVE  TInv'
<1>1. UNCHANGED <<pc, caller, header, request, in, env>>
  BY DEF lib
<1>2. InPlace' /\ Readable(in)'
  BY <1>1 DEF TInv, InPlace, Typed, Readable
<1> QED BY <1>1, <1>2 DEF TInv, Typed, ServerOK

\* FCGX_FPrintF, with every cut of what it prints.
LEMMA FPrintFTypes == ASSUME TInv, FPrintF PROVE TInv'
<1>1. PICK n \in Writes : \E w \in WriteAll(reply, PutRecords(out, n, request.requestId)) :
         /\ out' = IF w.ok THEN PutStr(out, n)
                   ELSE Failed([out EXCEPT !.wrNext = BuffLen])
         /\ shutdownPending' = (shutdownPending \/ w.signal)
         /\ printed' = IF w.ok /\ ~out.isClosed THEN printed + n ELSE printed
  BY DEF FPrintF
<1>2. PICK w \in WriteAll(reply, PutRecords(out, n, request.requestId)) :
         /\ out' = IF w.ok THEN PutStr(out, n)
                   ELSE Failed([out EXCEPT !.wrNext = BuffLen])
         /\ shutdownPending' = (shutdownPending \/ w.signal)
         /\ printed' = IF w.ok /\ ~out.isClosed THEN printed + n ELSE printed
  BY <1>1
<1>3. n \in Nat /\ printed \in Nat /\ shutdownPending \in BOOLEAN
      /\ Writable(out, "STDOUT") /\ Writable(err, "STDERR")
  BY BoundsAreNat DEF TInv, Typed
<1>4. w.ok \in BOOLEAN /\ w.signal \in BOOLEAN
  BY <1>2, WriteAllOf
<1>5. Writable([out EXCEPT !.wrNext = BuffLen], "STDOUT")
  <2> DEFINE t == [out EXCEPT !.wrNext = BuffLen]
  <2>1. BuffLen \in Header..BuffLen
    BY LengthsAssumption DEF Header
  <2>2. t \in Writer("STDOUT")
    BY <1>3, <2>1 DEF Writable, Writer
  <2> QED BY <2>2, Fits
<1>6. Writable(out, "STDOUT")'
  BY <1>2, <1>3, <1>5, PutStrWritable, FailedWritable
<1>7. printed' \in Nat /\ shutdownPending' \in BOOLEAN
  BY <1>2, <1>3, <1>4
<1>8. Writable(err, "STDERR")' /\ UNCHANGED <<lib, body, wire, server>>
  BY <1>3 DEF FPrintF, Writable
<1> QED BY <1>6, <1>7, <1>8, WriterStep

\* The application prints an error.
LEMMA PrintErrorTypes == ASSUME TInv, PrintError PROVE TInv'
<1>1. Writable(err, "STDERR")' /\ UNCHANGED <<out, printed, shutdownPending>>
  BY PutStrWritable DEF PrintError, TInv, Typed
<1>2. Writable(out, "STDOUT")'
  BY <1>1 DEF TInv, Typed, Writable
<1> QED BY <1>1, <1>2, WriterStep DEF PrintError, TInv, Typed

\* FCGX_FFlush.
LEMMA FlushTypes == ASSUME TInv, Flush PROVE TInv'
<1>1. PICK w \in WriteAll(reply, Content(out, request.requestId)) :
        /\ out' = IF w.ok THEN Emptied(out) ELSE Failed(out)
        /\ shutdownPending' = (shutdownPending \/ w.signal)
  BY DEF Flush
<1>2. Writable(out, "STDOUT")'
  BY <1>1, EmptiedWritable, FailedWritable DEF TInv, Typed
<1>3. shutdownPending' \in BOOLEAN
  BY <1>1, WriteAllOf DEF TInv, Typed
<1>4. Writable(err, "STDERR")' /\ UNCHANGED <<lib, body, wire, server, printed>>
  BY DEF Flush, TInv, Typed, Writable
<1> QED BY <1>2, <1>3, <1>4, WriterStep DEF TInv, Typed

\* FCGX_Finish_r closes the writers and goes back to accept.
LEMMA FinishTypes == ASSUME TInv, Finish PROVE TInv'
<1>1. PICK e \in WriteAll(reply, CloseOutput(err, 2)) :
        \E o \in WriteAll(e.reply, CloseOutput(out, 1)) :
         LET failed == ~e.ok \/ ~o.ok \/ err.FCGI_errno \/ out.FCGI_errno
                       \/ in.FCGI_errno
             close  == ~request.keepConnection \/ failed
         IN  /\ shutdownPending' = (shutdownPending \/ e.signal \/ o.signal)
             /\ request' = [request EXCEPT !.nWriters = 0, !.ipcFd = ~close]
             /\ IF close THEN server' = Dropped /\ wire' = <<>>
                         ELSE server' = Kept /\ UNCHANGED wire
  BY DEF Finish
<1>2. PICK o \in WriteAll(e.reply, CloseOutput(out, 1)) :
         LET failed == ~e.ok \/ ~o.ok \/ err.FCGI_errno \/ out.FCGI_errno
                       \/ in.FCGI_errno
             close  == ~request.keepConnection \/ failed
         IN  /\ shutdownPending' = (shutdownPending \/ e.signal \/ o.signal)
             /\ request' = [request EXCEPT !.nWriters = 0, !.ipcFd = ~close]
             /\ IF close THEN server' = Dropped /\ wire' = <<>>
                         ELSE server' = Kept /\ UNCHANGED wire
  BY <1>1
<1>3. shutdownPending' \in BOOLEAN
  <2>1. e.signal \in BOOLEAN /\ o.signal \in BOOLEAN
    BY <1>1, <1>2, WriteAllOf, Zenon
  <2>2. shutdownPending' = (shutdownPending \/ e.signal \/ o.signal)
    BY <1>2
  <2> QED BY <2>2
<1>4. ServerOK' /\ wire' \in Seq(Sound)
  <2>1. (server' = Dropped /\ wire' = <<>>) \/ (server' = Kept /\ UNCHANGED wire)
    <3> DEFINE failed == ~e.ok \/ ~o.ok \/ err.FCGI_errno \/ out.FCGI_errno
                         \/ in.FCGI_errno
               close == ~request.keepConnection \/ failed
    <3>1. IF close THEN server' = Dropped /\ wire' = <<>>
                   ELSE server' = Kept /\ UNCHANGED wire
      BY <1>2
    <3> HIDE DEF close
    <3> QED BY <3>1
  <2>2. ServerOK /\ wire \in Seq(Sound)
    BY DEF TInv, Typed
  <2>3. server' = Kept => ServerOK'
    BY <2>2, KeptTypes
  <2>4. server' = Dropped => ServerOK'
    BY <2>2, DroppedTypes
  <2>5. <<>> \in Seq(Sound)
    OBVIOUS
  <2> QED BY <2>1, <2>2, <2>3, <2>4, <2>5
<1>5. request' \in Request
  <2>1. \E b \in BOOLEAN : request' = [request EXCEPT !.nWriters = 0, !.ipcFd = b]
    BY <1>2
  <2> QED BY <2>1 DEF TInv, Typed, Request
<1>6. /\ in' = NewReader("NONE") /\ env' = <<>> /\ body' = <<>>
      /\ out' = NewWriter("STDOUT") /\ err' = NewWriter("STDERR")
      /\ pc' = "idle" /\ UNCHANGED <<caller, header, printed>> /\ header = <<>>
  BY DEF Finish, TInv, InPlace
<1>7. Readable(in)' /\ ~in'.eorStop /\ in'.stop = 0
  BY <1>6, NewReaderReadable
<1>8. InPlace'
  BY <1>6, <1>7, LengthsAssumption DEF InPlace
<1>9. Writable(out, "STDOUT")' /\ Writable(err, "STDERR")'
  BY <1>6, NewWriterWritable
<1> QED BY <1>3, <1>4, <1>5, <1>6, <1>7, <1>8, <1>9 DEF TInv, Typed

\* The web server.
LEMMA ConnectTypes == ASSUME TInv, Connect PROVE TInv'
<1>1. server' = NewConnection(server.count + 1) /\ server.count + 1 \in Nat
  BY DEF Connect, TInv, Typed, ServerOK
<1>2. ServerOK'
  <2>1. /\ server' \in [state : {"none", "open", "hungup", "forgotten"}, count : Nat,
                 phase : [Ids -> {"begin", "PARAMS", "STDIN", "done"}],
                 at : [Ids -> Nat], odd : Nat, unsafe : BOOLEAN,
                 forged : BOOLEAN]
        /\ \A id \in Ids : server'.phase[id] = "begin" /\ server'.at[id] = 0
    BY <1>1, ConnectionTypes
  <2>2. Len(Bytes("begin")) = 0
    BY DEF Bytes
  <2> QED BY <2>1, <2>2 DEF ServerOK
<1>3. /\ UNCHANGED <<pc, caller, header, request, in, env, out, err, body, printed,
                     shutdownPending>>
      /\ wire' = <<>> /\ wire' \in Seq(Sound)
  BY DEF Connect, lib, writer
<1>4. InPlace' /\ Readable(in)'
  BY <1>3 DEF TInv, InPlace, Typed, Readable
<1> QED BY <1>2, <1>3, <1>4 DEF TInv, Typed

\* The web server hangs up.
LEMMA HangUpTypes == ASSUME TInv, HangUp PROVE TInv'
<1>1. ServerOK'
  BY DEF HangUp, TInv, Typed, ServerOK
<1>2. UNCHANGED <<pc, caller, header, request, in, env, out, err, body, wire, printed,
                  shutdownPending>>
  BY DEF HangUp, lib, writer
<1>3. InPlace' /\ Readable(in)'
  BY <1>2 DEF TInv, InPlace, Typed, Readable
<1> QED BY <1>1, <1>2, <1>3 DEF TInv, Typed

\* Records whose cells are sound.
SoundRecord(r) ==
  /\ r \in Records
  /\ r.type = "PARAMS" => r.from + r.len <= Len(ParamBytes)
  /\ r.type = "STDIN" => r.from + r.len <= Len(BodyBytes)
  /\ r.type = "BEGIN" /\ r.role = "RESPONDER" => r.id = 1

\* The cells of such a record: header, content, padding.
LEMMA CellsOf ==
  ASSUME NEW r, SoundRecord(r)
  PROVE  /\ Cells(r) \in Seq(Sound) /\ Len(Cells(r)) = HeaderLen + r.len + r.pad
         /\ \A i \in DOMAIN Cells(r) : Cells(r)[i] = [of |-> r, at |-> i]
<1> DEFINE n == HeaderLen + r.len + r.pad
<1>1. n \in Nat
  BY LengthsAssumption DEF SoundRecord, Records
<1> HIDE DEF n
<1>2. \A i \in 1..n : [of |-> r, at |-> i] \in Sound
  BY <1>1 DEF SoundRecord, Sound, Cell, Records
<1>3. Cells(r) = [i \in 1..n |-> [of |-> r, at |-> i]]
  BY DEF Cells, n
<1> QED BY <1>1, <1>2, <1>3 DEF n

\* A record goes out: the types stay, if those of its stream do.
LEMMA TransmitTypes ==
  ASSUME TInv, NEW r, SoundRecord(r), NEW phase, NEW at, Transmit(r, phase, at),
         phase \in [Ids -> {"begin", "PARAMS", "STDIN", "done"}],
         at \in [Ids -> Nat], \A id \in Ids : at[id] <= Len(Bytes(phase[id])),
         UNCHANGED <<lib, writer, body, printed, shutdownPending>>
  PROVE  TInv'
<1> DEFINE isOdd == \/ r.id = 0 \/ r.pad > 0 \/ r.type = "ABORT"
                    \/ r.id = 2 /\ r.type = "BEGIN"
           n == server.odd + (IF isOdd THEN 1 ELSE 0)
           b == server.unsafe \/ Unsafe(r)
<1>1. wire' = wire \o Cells(r) /\ wire \in Seq(Sound) /\ ServerOK
  BY DEF Transmit, TInv, Typed
<1>2. wire' \in Seq(Sound)
  BY <1>1, CellsOf, ConcatProperties
<1>3. server' = [server EXCEPT !.phase = phase, !.at = at, !.odd = n, !.unsafe = b]
  BY <1>1 DEF Transmit, ServerOK
<1>4. n \in Nat
  BY <1>1 DEF ServerOK
<1>5. b \in BOOLEAN
  OBVIOUS
<1> HIDE DEF n, b
<1>6. /\ server' \in [state : {"none", "open", "hungup", "forgotten"}, count : Nat,
                 phase : [Ids -> {"begin", "PARAMS", "STDIN", "done"}],
                 at : [Ids -> Nat], odd : Nat, unsafe : BOOLEAN,
                 forged : BOOLEAN]
      /\ server'.phase = phase /\ server'.at = at
  BY <1>1, <1>3, <1>4, <1>5 DEF ServerOK
<1>7. ServerOK'
  BY <1>6 DEF ServerOK
<1>8. UNCHANGED <<pc, caller, header, request, in, env, out, err, body, printed,
                  shutdownPending>>
  BY DEF lib, writer
<1>9. InPlace' /\ Readable(in)'
  BY <1>8 DEF TInv, InPlace, Typed, Readable
<1> QED BY <1>2, <1>7, <1>8, <1>9 DEF TInv, Typed

\* A BEGIN_REQUEST of the web server: request 2 asks for no responder.
LEMMA BeginIsSound ==
  ASSUME NEW id \in Ids, NEW pad \in {0, 1}, NEW role \in {"RESPONDER", "OTHER"},
         NEW keep \in BOOLEAN, id = 2 => role = "OTHER"
  PROVE  /\ SoundRecord(BeginRequest(id, pad, role, keep))
         /\ BeginRequest(id, pad, role, keep).id = id
         /\ BeginRequest(id, pad, role, keep).type = "BEGIN"
<1> DEFINE RS == [type : RecordTypes, id : 0..2, len : Nat, pad : Nat, from : Nat,
                  role : {"NONE", "RESPONDER", "OTHER"}, keep : BOOLEAN]
           t == Record("BEGIN", id, BeginLen, pad, 0)
           r == [t EXCEPT !.role = role, !.keep = keep]
<1>1. t \in RS /\ t.type = "BEGIN" /\ t.id = id
  BY LengthsAssumption DEF Record, RecordTypes, Ids
<1> HIDE DEF t
<1>2. r \in RS
  BY <1>1
<1>3. r.type = "BEGIN" /\ r.role = role /\ r.id = id
  BY <1>1
<1>4. r = BeginRequest(id, pad, role, keep)
  BY DEF BeginRequest, t
<1> HIDE DEF r
<1>5. SoundRecord(r)
  BY <1>2, <1>3 DEF SoundRecord, Records, Ids
<1> QED BY <1>3, <1>4, <1>5

\* The web server begins a request.
LEMMA SendBeginTypes ==
  ASSUME TInv, NEW id \in Ids, NEW pad \in {0, 1}, SendBegin(id, pad),
         UNCHANGED <<lib, writer, body, printed, shutdownPending>>
  PROVE  TInv'
<1> DEFINE phase == [server.phase EXCEPT ![id] = "PARAMS"]
           at == [server.at EXCEPT ![id] = 0]
<1>1. PICK role \in {"RESPONDER", "OTHER"}, keep \in BOOLEAN :
        /\ id = 2 => role = "OTHER"
        /\ Transmit(BeginRequest(id, pad, role, keep), phase, at)
  BY DEF SendBegin
<1> DEFINE r == BeginRequest(id, pad, role, keep)
<1>2. SoundRecord(r)
  BY <1>1, BeginIsSound
<1>4. phase \in [Ids -> {"begin", "PARAMS", "STDIN", "done"}] /\ at \in [Ids -> Nat]
  BY DEF TInv, Typed, ServerOK
<1>5. \A i \in Ids : at[i] <= Len(Bytes(phase[i]))
  <2>1. Len(Bytes("PARAMS")) \in Nat
    BY LengthsAssumption DEF Bytes
  <2> QED BY <2>1 DEF TInv, Typed, ServerOK
<1> HIDE DEF r, phase, at
<1> QED BY <1>1, <1>2, <1>4, <1>5, TransmitTypes DEF r

\* The web server sends a piece of a stream, or its end.
LEMMA SendStreamTypes ==
  ASSUME TInv, NEW id \in Ids, NEW pad \in {0, 1}, SendStream(id, pad),
         UNCHANGED <<lib, writer, body, printed, shutdownPending>>
  PROVE  TInv'
<1> DEFINE type == server.phase[id]
           bytes == IF type = "PARAMS" THEN ParamBytes ELSE BodyBytes
           from == server.at[id]
           after == IF type = "PARAMS" /\ id = 1 THEN "STDIN" ELSE "done"
<1>1. type \in {"PARAMS", "STDIN"}
  BY DEF SendStream
<1>2. PICK n \in 0..(Len(bytes) - from) :
        /\ n = 0 => from = Len(bytes)
        /\ Transmit(Record(type, id, n, pad, from),
                    IF n = 0 THEN [server.phase EXCEPT ![id] = after] ELSE server.phase,
                    [server.at EXCEPT ![id] = IF n = 0 THEN 0 ELSE from + n])
  BY DEF SendStream
<1> DEFINE phase == IF n = 0 THEN [server.phase EXCEPT ![id] = after] ELSE server.phase
           at == [server.at EXCEPT ![id] = IF n = 0 THEN 0 ELSE from + n]
           r == Record(type, id, n, pad, from)
<1>3. /\ bytes = Bytes(type) /\ Len(ParamBytes) \in Nat /\ Len(BodyBytes) \in Nat
      /\ ServerOK
  BY <1>1, LengthsAssumption DEF Bytes, TInv, Typed
<1>4. from \in Nat /\ n \in Nat /\ from + n <= Len(bytes) /\ Len(bytes) \in Nat
  BY <1>2, <1>3 DEF ServerOK
<1>5. SoundRecord(r)
  BY <1>1, <1>4 DEF SoundRecord, Records, RecordTypes, Ids, Record
<1>6. phase \in [Ids -> {"begin", "PARAMS", "STDIN", "done"}] /\ at \in [Ids -> Nat]
  BY <1>3, <1>4 DEF ServerOK
<1>7. ASSUME NEW i \in Ids PROVE at[i] <= Len(Bytes(phase[i]))
  <2>1. CASE i # id
    BY <1>3, <2>1 DEF ServerOK
  <2>2. CASE i = id /\ n = 0
    <3>1. at[i] = 0 /\ phase[i] = after
      BY <1>3, <2>2 DEF ServerOK
    <3>2. Len(Bytes(after)) \in Nat
      BY <1>3 DEF Bytes
    <3> QED BY <3>1, <3>2
  <2>3. CASE i = id /\ n # 0
    <3>1. at[i] = from + n /\ phase[i] = type
      BY <1>3, <2>3 DEF ServerOK
    <3> QED BY <1>3, <1>4, <3>1
  <2> QED BY <2>1, <2>2, <2>3
<1>8. Transmit(r, phase, at)
  BY <1>2 DEF r, phase, at
<1> HIDE DEF r, phase, at
<1> QED BY <1>5, <1>6, <1>7, <1>8, TransmitTypes

\* Whatever the web server sends.
LEMMA SendTypes == ASSUME TInv, Send PROVE TInv'
<1>1. UNCHANGED <<lib, writer, body, printed, shutdownPending>>
  BY DEF Send
<1>2. PICK pad \in {0, 1} :
        \/ \E id \in Ids : SendBegin(id, pad)
        \/ \E id \in Ids : SendStream(id, pad)
        \/ SendManagement(pad)
        \/ pad = 0 /\ SendAbort
  BY DEF Send
<1>3. /\ server.phase \in [Ids -> {"begin", "PARAMS", "STDIN", "done"}]
      /\ server.at \in [Ids -> Nat]
      /\ \A id \in Ids : server.at[id] <= Len(Bytes(server.phase[id]))
  BY DEF TInv, Typed, ServerOK
<1>4. CASE SendManagement(pad)
  <2>1. PICK type \in {"GET_VALUES", "UNKNOWN"}, n \in 0..2 :
          Transmit(Record(type, 0, n, pad, 0), server.phase, server.at)
    BY <1>4 DEF SendManagement
  <2>2. SoundRecord(Record(type, 0, n, pad, 0))
    BY DEF SoundRecord, Records, Record, RecordTypes
  <2> QED BY <1>1, <1>3, <2>1, <2>2, TransmitTypes
<1>5. CASE SendAbort
  <2>1. Transmit(Record("ABORT", 1, 0, 0, 0), server.phase, server.at)
    BY <1>5 DEF SendAbort
  <2>2. SoundRecord(Record("ABORT", 1, 0, 0, 0))
    BY DEF SoundRecord, Records, Record, RecordTypes
  <2> QED BY <1>1, <1>3, <2>1, <2>2, TransmitTypes
<1> QED BY <1>1, <1>2, <1>4, <1>5, SendBeginTypes, SendStreamTypes

\* Every step keeps the types.
LEMMA StepTypes == ASSUME TInv, [Next]_vars PROVE TInv'
<1>1. CASE Fill
  BY <1>1, FillReadTypes, FillFailsTypes, FillContentTypes, FillRestTypes DEF Fill
<1>2. CASE ProcessHeader
  BY <1>2, ProtocolErrorTypes, MisreadTypes, MultiplexedTypes, ProcessContentTypes,
     NestedTakeTypes, NestedClosedTypes, UnknownManagementTypes, OtherRequestTypes, StreamRecordTypes
     DEF ProcessHeader
<1>3. CASE AcceptLoop
  BY <1>3, AcceptRequestTypes, InitRequestTypes, AcceptTypes, BegunTypes,
     ReadParamsTypes, ParamsEndTypes DEF AcceptLoop
<1>4. CASE Serve
  BY <1>4, ReadBodyTypes, FPrintFTypes, PrintErrorTypes, FlushTypes, FinishTypes
     DEF Serve
<1>5. CASE WebServer
  BY <1>5, ConnectTypes, HangUpTypes, SendTypes DEF WebServer
<1>6. CASE UNCHANGED vars
  <2>1. UNCHANGED <<pc, caller, header, request, in, env, out, err, body, wire, printed,
                    server, shutdownPending>>
    BY <1>6 DEF vars, lib, writer
  <2>2. InPlace' /\ Readable(in)'
    BY <2>1 DEF TInv, InPlace, Typed, Readable
  <2> QED BY <2>1, <2>2 DEF TInv, Typed, ServerOK
<1> QED BY <1>1, <1>2, <1>3, <1>4, <1>5, <1>6, Sigusr1Types DEF Next, Library

-----------------------------------------------------------------------------
(* Where the request stands, step by step.                                 *)

\* Inside the library, with a request that stays as it is: a nested call keeps
\* the header it belongs to.
LEMMA StandingStays ==
  ASSUME TInv, TInv', Standing, UNCHANGED <<caller, request, server>>,
         pc \notin {"idle", "accept"}, pc' \notin {"idle", "accept"},
         pc' \in {"begun", "params", "serve"} => pc' = caller,
         \/ pc \in {"fill", "nested"} /\ header' = header
         \/ Len(header') < HeaderLen
         \/ pc' = "header"
  PROVE  Standing'
<1>1. server.state \notin {"none", "forgotten"}
  BY DEF Standing
<1>2. in.eorStop \in BOOLEAN /\ in'.eorStop \in BOOLEAN
  BY DEF TInv, Typed, Readable, Stream
<1>3. ASSUME pc' \in {"fill", "nested"}, in'.eorStop
      PROVE  /\ IsHeader(header)'
             /\ Current'.type = "BEGIN" =>
                  request'.requestId = Current'.id /\ ~request'.isBeginProcessed
  <2>1. Len(header') = HeaderLen
    BY <1>3 DEF TInv, InPlace
  <2>2. pc \in {"fill", "nested"} /\ header' = header
    BY <1>3, <2>1, LengthsAssumption
  <2>3. in.eorStop
    BY <2>1, <2>2, LengthsAssumption DEF TInv, InPlace
  <2> QED BY <2>2, <2>3 DEF Standing, Current, IsHeader
<1> QED BY <1>1, <1>3 DEF Standing, Serving

\* A read does not move the request.
LEMMA FillStands == ASSUME TInv, TInv', Standing, Fill PROVE Standing'
<1>1. UNCHANGED <<caller, request, server>> /\ pc = "fill"
      /\ caller \in {"begun", "params", "serve"}
  BY DEF Fill, FillRead, FillFails, FillContent, FillRest, TInv, Typed
<1>2. CASE FillRead
  BY <1>1, <1>2, StandingStays DEF FillRead
<1>3. CASE FillFails
  <2>1. header' = header \/ Len(header') < HeaderLen
    BY <1>3, LengthsAssumption DEF FillFails, ReadError
  <2> QED BY <1>1, <1>3, <2>1, StandingStays DEF FillFails, ReadError, Returns
<1>4. CASE FillContent
  BY <1>1, <1>4, StandingStays DEF FillContent, Returns
<1>5. CASE FillRest
  <2>1. \/ pc' \in {"fill", "nested"} /\ header' = header
        \/ pc' = "header"
        \/ pc' = "fill" /\ Len(header') < HeaderLen
    BY <1>1, <1>5 DEF FillRest
  <2> QED BY <1>1, <2>1, StandingStays
<1> QED BY <1>2, <1>3, <1>4, <1>5 DEF Fill

\* Neither does a signal, except that it ends the wait.
LEMMA Sigusr1Stands == ASSUME TInv, TInv', Standing, Sigusr1 PROVE Standing'
<1>1. UNCHANGED <<caller, request, server, wire>>
  BY DEF Sigusr1
<1>2. CASE pc = "fill" /\ ReadError
  <2>1. header' = header \/ Len(header') < HeaderLen
    BY <1>2, LengthsAssumption DEF ReadError
  <2>2. caller \in {"begun", "params", "serve"}
    BY DEF TInv, Typed
  <2> QED BY <1>1, <1>2, <2>1, <2>2, StandingStays DEF ReadError, Returns
<1>3. CASE pc \in {"idle", "accept"} /\ UNCHANGED <<pc, in, header>>
  BY <1>1, <1>3 DEF Standing, Serving
<1> QED BY <1>2, <1>3 DEF Sigusr1

\* Back in the loop of FillBuffProc, or out of it.
LEMMA WayBack ==
  ASSUME NEW s, EndsInError(s) \/ GoesOn(s), TInv
  PROVE  /\ header' = <<>> /\ Len(header') < HeaderLen
         /\ pc' = "fill" \/ (pc' = caller /\ pc' \in {"begun", "params", "serve"})
<1>1. caller \in {"begun", "params", "serve"}
  BY DEF TInv, Typed
<1> QED BY <1>1, LengthsAssumption DEF EndsInError, GoesOn

\* ProcessHeader begins a request with the number of the record it read.
LEMMA ProcessHeaderStands == ASSUME TInv, TInv', Standing, ProcessHeader PROVE Standing'
<1>1. caller \in {"begun", "params", "serve"} /\ Len(<<>>) < HeaderLen
  BY LengthsAssumption DEF TInv, Typed
<1>2. CASE ProtocolError
  <2>1. EndsInError(in) \/ EndsInError(Announced)
    BY <1>2 DEF ProtocolError
  <2>2. /\ header' = <<>> /\ Len(header') < HeaderLen
        /\ pc' = "fill" \/ (pc' = caller /\ pc' \in {"begun", "params", "serve"})
    BY <2>1, WayBack
  <2> QED BY <1>2, <2>2, StandingStays DEF ProtocolError
<1>10. CASE Misread
  <2>1. /\ pc = "header" /\ UNCHANGED <<pc, caller, request, in, wire>>
        /\ server'.state = server.state
    BY <1>10 DEF Misread, TInv, Typed, ServerOK
  <2> QED BY <2>1 DEF Standing, Serving
<1>3. CASE Multiplexed
  <2>1. EndsInError(Announced) \/ GoesOn([Announced EXCEPT !.skip = TRUE])
    BY <1>3 DEF Multiplexed
  <2>2. /\ header' = <<>> /\ Len(header') < HeaderLen
        /\ pc' = "fill" \/ (pc' = caller /\ pc' \in {"begun", "params", "serve"})
    BY <2>1, WayBack
  <2> QED BY <1>3, <2>2, StandingStays DEF Multiplexed
<1>4. CASE ProcessContent
  <2>1. /\ pc = "header" /\ pc' = "fill" /\ IsHeader(header) /\ ReadsContent
        /\ request' = IF Current.type = "BEGIN"
                        THEN [request EXCEPT !.requestId = Current.id] ELSE request
        /\ UNCHANGED <<caller, header, wire, server>>
    BY <1>4 DEF ProcessContent
  <2>2. request \in Request /\ server.state \notin {"none", "forgotten"}
    BY <2>1 DEF TInv, Typed, Standing
  <2>3. /\ request'.ipcFd = request.ipcFd /\ request'.nWriters = request.nWriters
        /\ request'.isBeginProcessed = request.isBeginProcessed
        /\ request'.role = request.role
    BY <2>1, <2>2 DEF Request
  <2>4. CASE Current.type = "BEGIN"
    <3>1. ~request.isBeginProcessed
      BY <2>1, <2>4 DEF ReadsContent
    <3>2. request'.requestId = Current.id
      BY <2>1, <2>2, <2>4 DEF Request
    <3> QED BY <2>1, <2>2, <2>3, <3>1, <3>2 DEF Standing, Serving, Current, IsHeader
  <2>5. CASE Current.type # "BEGIN"
    BY <2>1, <2>2, <2>5 DEF Standing, Serving, Current, IsHeader
  <2> QED BY <2>4, <2>5
<1>5. CASE NestedTake
  <2>1. /\ pc = "nested" /\ in.eorStop /\ UNCHANGED <<caller, wire, server>>
    BY <1>5 DEF NestedTake, TInv, InPlace
  <2>2. CASE pc' = "fill" /\ UNCHANGED <<header, request>>
    BY <2>1, <2>2, StandingStays
  <2>3. CASE /\ pc' = caller /\ header' = <<>> /\ Current.type = "BEGIN"
             /\ request' = [request EXCEPT !.isBeginProcessed = TRUE,
                              !.keepConnection = Current.keep, !.role = Current.role]
    <3>1. request \in Request /\ server.state \notin {"none", "forgotten"}
      BY <2>1 DEF TInv, Typed, Standing
    <3>2. /\ request'.ipcFd = request.ipcFd /\ request'.nWriters = request.nWriters
          /\ request'.isBeginProcessed /\ request'.requestId = request.requestId
          /\ request'.role = Current.role
      BY <2>3, <3>1 DEF Request
    <3>3. request.requestId = Current.id /\ ~request.isBeginProcessed
      BY <2>1, <2>3 DEF Standing
    <3>4. caller = "begun" /\ ~Serving
      BY <1>1, <2>1, <3>3 DEF Standing
    <3>5. Current.role = "RESPONDER" => Current.id = 1
      BY <2>1, <2>3, CurrentIsSound DEF Sound, Current
    <3>6. pc' \notin {"fill", "nested"}
      BY <1>1, <2>3
    <3> QED BY <1>1, <2>1, <2>3, <3>1, <3>2, <3>3, <3>4, <3>5, <3>6 DEF Standing, Serving
  <2> QED BY <1>5, <2>2, <2>3 DEF NestedTake
<1>6. CASE NestedClosed
  <2>1. EndsInError(in) \/ GoesOn(in)
    BY <1>6 DEF NestedClosed
  <2>2. /\ header' = <<>> /\ Len(header') < HeaderLen
        /\ pc' = "fill" \/ (pc' = caller /\ pc' \in {"begun", "params", "serve"})
    BY <2>1, WayBack
  <2> QED BY <1>6, <2>2, StandingStays DEF NestedClosed
<1>7. CASE UnknownManagement
  <2>1. EndsInError(Announced) \/ GoesOn(Announced)
    BY <1>7 DEF UnknownManagement
  <2>2. /\ header' = <<>> /\ Len(header') < HeaderLen
        /\ pc' = "fill" \/ (pc' = caller /\ pc' \in {"begun", "params", "serve"})
    BY <2>1, WayBack
  <2> QED BY <1>7, <2>2, StandingStays DEF UnknownManagement
<1>8. CASE OtherRequest
  <2>1. /\ header' = <<>> /\ Len(header') < HeaderLen /\ pc' = "fill"
    BY <1>1, <1>8 DEF OtherRequest, GoesOn
  <2> QED BY <1>8, <2>1, StandingStays DEF OtherRequest
<1>9. CASE StreamRecord
  <2>1. /\ header' = <<>> /\ Len(header') < HeaderLen
        /\ pc' = "fill" \/ (pc' = caller /\ pc' \in {"begun", "params", "serve"})
    BY <1>1, <1>9 DEF StreamRecord, GoesOn
  <2> QED BY <1>9, <2>1, StandingStays DEF StreamRecord
<1> QED BY <1>2, <1>3, <1>4, <1>5, <1>6, <1>7, <1>8, <1>9, <1>10
        DEF ProcessHeader

\* The connection is closed, and the loop of FCGX_Accept_r starts again.
LEMMA TryAgainStands ==
  ASSUME TInv, TInv', Standing, TryAgain, pc \in {"begun", "params"}, ~Serving
  PROVE  Standing'
<1>1. /\ pc' = "accept" /\ in' = NewReader("NONE") /\ wire' = <<>> /\ caller' = caller
      /\ server'.state = "none" /\ request' = [request EXCEPT !.ipcFd = FALSE]
  BY DroppedTypes DEF TryAgain, TInv, Typed
<1>2. in'.buff = <<>>
  BY <1>1, NewReaderReadable
<1>3. ~request'.ipcFd /\ request'.nWriters = request.nWriters
  BY <1>1 DEF TInv, Typed, Request
<1> QED BY <1>1, <1>2, <1>3 DEF Standing, Serving

\* Whoever is accepted has no request that has begun.
LEMMA AcceptStands == ASSUME TInv, TInv', Standing, Accept PROVE Standing'
<1>1. /\ pc = "accept" /\ UNCHANGED wire /\ request \in Request /\ ~Serving
      /\ in.buff = <<>>
      /\ request' = IF pc' = "fill"
                      THEN [request EXCEPT !.ipcFd = TRUE, !.isBeginProcessed = FALSE]
                      ELSE request
  BY DEF Accept, TInv, Typed, Standing
<1>2. CASE StartsReading
  <2>1. /\ pc' = "fill" /\ caller' = "begun" /\ ~in'.eorStop
    BY <1>2, StartsReadingTypes
  <2>2. /\ request'.ipcFd /\ ~request'.isBeginProcessed
        /\ request'.nWriters = request.nWriters
    BY <1>1, <2>1 DEF Request
  <2>3. UNCHANGED server /\ server.state \notin {"none", "forgotten"}
    BY <1>2, <2>1 DEF Accept, Standing
  <2> QED BY <1>1, <2>1, <2>2, <2>3 DEF Standing, Serving
<1>3. CASE pc' = "idle" /\ UNCHANGED <<in, caller, header, server>>
  BY <1>1, <1>3 DEF Standing, Serving
<1>4. CASE /\ ~request.ipcFd /\ ~IsUnixKeeper /\ server' = Dropped
           /\ UNCHANGED <<pc, in, caller, header>>
  <2>1. server'.state = "none"
    BY <1>4, DroppedTypes DEF TInv, Typed
  <2>2. wire = <<>>
    BY <1>4 DEF IsUnixKeeper
  <2> QED BY <1>1, <1>4, <2>1, <2>2 DEF Standing, Serving
<1> QED BY <1>2, <1>3, <1>4 DEF Accept

\* The loop serves only a responder's request that has begun.
LEMMA AcceptLoopStands == ASSUME TInv, TInv', Standing, AcceptLoop PROVE Standing'
<1>1. CASE AcceptRequest
  BY <1>1 DEF AcceptRequest, Standing, Serving
<1>2. CASE InitRequest
  <2>1. /\ pc = "idle" /\ request' = NoRequest /\ UNCHANGED <<pc, caller, in>>
    BY <1>2 DEF InitRequest
  <2>2. server'.state = "none" => wire' = <<>>
    BY <1>2 DEF InitRequest, Standing, TInv, Typed, ServerOK
  <2> QED BY <2>1, <2>2 DEF Standing, Serving, NoRequest
<1>3. CASE Begun
  <2>1. pc = "begun" /\ caller = "begun" /\ ~Serving
    BY <1>3 DEF Begun, Standing
  <2>2. CASE TryAgain
    BY <2>1, <2>2, TryAgainStands
  <2>3. CASE /\ request.isBeginProcessed /\ request.role = "RESPONDER"
             /\ in' = SetReaderType(in, "PARAMS") /\ pc' = "fill" /\ caller' = "params"
             /\ UNCHANGED <<header, request, wire, server>>
    <3>1. ~in'.eorStop
      BY <2>3, SetReaderTypeReadable DEF TInv, Typed
    <3> QED BY <2>1, <2>3, <3>1 DEF Standing, Serving
  <2> QED BY <1>3, <2>2, <2>3 DEF Begun
<1>4. CASE ReadParams
  <2>1. pc = "params" /\ pc' = "fill" /\ UNCHANGED <<caller, header, request, wire, server>>
    BY <1>4 DEF ReadParams
  <2>2. Len(header') < HeaderLen
    BY <2>1, LengthsAssumption DEF TInv, InPlace
  <2> QED BY <2>1, <2>2, StandingStays
<1>5. CASE ParamsEnd
  <2>1. pc = "params" /\ caller = "params" /\ ~Serving
    BY <1>5 DEF ParamsEnd, Standing
  <2>2. CASE TryAgain
    BY <2>1, <2>2, TryAgainStands
  <2>3. CASE /\ pc' = "serve" /\ caller' = "serve"
             /\ request' = [request EXCEPT !.nWriters = 2]
             /\ UNCHANGED <<wire, server>>
    <3>1. /\ request'.nWriters = 2 /\ request'.ipcFd = request.ipcFd
          /\ request'.isBeginProcessed = request.isBeginProcessed
          /\ request'.role = request.role /\ request'.requestId = request.requestId
      BY <2>3 DEF TInv, Typed, Request
    <3> QED BY <2>1, <2>3, <3>1 DEF Standing, Serving
  <2> QED BY <1>5, <2>2, <2>3 DEF ParamsEnd
<1> QED BY <1>1, <1>2, <1>3, <1>4, <1>5, AcceptStands DEF AcceptLoop

\* FCGX_Finish_r closes the connection or leaves it as it is.
LEMMA FinishOf ==
  ASSUME Finish
  PROVE  \E b \in BOOLEAN :
           /\ request' = [request EXCEPT !.nWriters = 0, !.ipcFd = ~b]
           /\ \/ b /\ server' = Dropped /\ wire' = <<>>
              \/ server' = Kept /\ UNCHANGED wire
<1>1. PICK e \in WriteAll(reply, CloseOutput(err, 2)) :
        \E o \in WriteAll(e.reply, CloseOutput(out, 1)) :
         LET failed == ~e.ok \/ ~o.ok \/ err.FCGI_errno \/ out.FCGI_errno
                       \/ in.FCGI_errno
             close  == ~request.keepConnection \/ failed
         IN  /\ request' = [request EXCEPT !.nWriters = 0, !.ipcFd = ~close]
             /\ IF close THEN server' = Dropped /\ wire' = <<>>
                         ELSE server' = Kept /\ UNCHANGED wire
  BY DEF Finish
<1>2. PICK o \in WriteAll(e.reply, CloseOutput(out, 1)) :
         LET failed == ~e.ok \/ ~o.ok \/ err.FCGI_errno \/ out.FCGI_errno
                       \/ in.FCGI_errno
             close  == ~request.keepConnection \/ failed
         IN  /\ request' = [request EXCEPT !.nWriters = 0, !.ipcFd = ~close]
             /\ IF close THEN server' = Dropped /\ wire' = <<>>
                         ELSE server' = Kept /\ UNCHANGED wire
  BY <1>1
<1> DEFINE failed == ~e.ok \/ ~o.ok \/ err.FCGI_errno \/ out.FCGI_errno
                     \/ in.FCGI_errno
           close == ~request.keepConnection \/ failed
<1>3. /\ request' = [request EXCEPT !.nWriters = 0, !.ipcFd = ~close]
      /\ IF close THEN server' = Dropped /\ wire' = <<>>
                  ELSE server' = Kept /\ UNCHANGED wire
  BY <1>2
<1>4. close \in BOOLEAN
  OBVIOUS
<1> HIDE DEF close
<1> QED BY <1>3, <1>4

\* The application leaves a request only through FCGX_Finish_r.
LEMMA ServeStands == ASSUME TInv, TInv', Standing, Serve PROVE Standing'
<1>1. CASE ReadBody
  <2>1. /\ pc = "serve" /\ caller = "serve" /\ pc' \in {"fill", "serve"}
        /\ UNCHANGED <<caller, header, request, wire, server>>
    BY <1>1 DEF ReadBody, Standing
  <2>2. Len(header') < HeaderLen
    BY <2>1, LengthsAssumption DEF TInv, InPlace
  <2> QED BY <2>1, <2>2, StandingStays
<1>2. CASE FPrintF \/ PrintError \/ Flush
  <2>1. UNCHANGED <<lib, wire, server>>
    BY <1>2 DEF FPrintF, PrintError, Flush
  <2> QED BY <2>1 DEF lib, Standing, Serving, Current, IsHeader
<1>3. CASE Finish
  <2>1. /\ pc = "serve" /\ pc' = "idle" /\ in' = NewReader("NONE") /\ UNCHANGED caller
    BY <1>3 DEF Finish
  <2>2. PICK b \in BOOLEAN :
          /\ request' = [request EXCEPT !.nWriters = 0, !.ipcFd = ~b]
          /\ \/ b /\ server' = Dropped /\ wire' = <<>>
             \/ server' = Kept /\ UNCHANGED wire
    BY <1>3, FinishOf
  <2>3. request'.nWriters = 0 /\ request'.ipcFd = ~b
    BY <2>2 DEF TInv, Typed, Request
  <2>4. server.state \notin {"none", "forgotten"}
    BY <2>1 DEF Standing
  <2>5. /\ server'.state = "none" => wire' = <<>>
        /\ server'.state \in {"none", "forgotten"} => ~request'.ipcFd
    BY <2>2, <2>3, <2>4, DroppedTypes, KeptTypes DEF TInv, Typed
  <2>6. in'.buff = <<>>
    BY <2>1, NewReaderReadable
  <2> QED BY <2>1, <2>3, <2>5, <2>6 DEF Standing, Serving
<1> QED BY <1>1, <1>2, <1>3 DEF Serve

\* The web server cannot change the place of the library; it sends only on an open
\* connection.
LEMMA WebServerStands == ASSUME TInv, TInv', Standing, WebServer PROVE Standing'
<1>1. UNCHANGED lib
  BY DEF WebServer, Connect, HangUp, Send
<1>2. server'.state \notin {"none", "forgotten"}
  <2>1. CASE Connect
    BY <2>1 DEF Connect, NewConnection
  <2>2. CASE HangUp
    BY <2>2 DEF HangUp, TInv, Typed, ServerOK
  <2>3. CASE Send
    <3>1. PICK r, phase, at : Transmit(r, phase, at)
      BY <2>3 DEF Send, SendBegin, SendStream, SendManagement, SendAbort
    <3>2. server.state = "open" /\ server'.state = server.state
      BY <2>3, <3>1 DEF Send, Transmit, TInv, Typed, ServerOK
    <3> QED BY <3>2
  <2> QED BY <2>1, <2>2, <2>3 DEF WebServer
<1> QED BY <1>1, <1>2 DEF lib, Standing, Serving, Current, IsHeader

\* Every step keeps the place of the request.
LEMMA StepStands == ASSUME TInv, TInv', Standing, [Next]_vars PROVE Standing'
<1>1. CASE UNCHANGED vars
  BY <1>1 DEF vars, lib, Standing, Serving, Current, IsHeader
<1> QED BY <1>1, FillStands, ProcessHeaderStands, AcceptLoopStands, ServeStands,
           WebServerStands, Sigusr1Stands DEF Next, Library
-----------------------------------------------------------------------------
(* Types.                                                                  *)

\* Nothing has happened yet.
LEMMA InitTypes == ASSUME Init PROVE TInv
<1>1. /\ pc = "idle" /\ caller = "begun" /\ header = <<>> /\ request = NoRequest
      /\ in = NewReader("NONE") /\ out = NewWriter("STDOUT") /\ err = NewWriter("STDERR")
      /\ env = <<>> /\ body = <<>> /\ wire = <<>> /\ printed = 0 /\ shutdownPending = FALSE
      /\ server = [NewConnection(0) EXCEPT !.state = "none"]
  BY DEF Init
<1>2. Readable(in) /\ ~in.eorStop /\ in.stop = 0
  BY <1>1, NewReaderReadable
<1>3. Writable(out, "STDOUT") /\ Writable(err, "STDERR")
  BY <1>1, NewWriterWritable
<1>4. ServerOK
  <2> DEFINE c == NewConnection(0)
  <2>1. /\ c \in [state : {"none", "open", "hungup", "forgotten"}, count : Nat,
                 phase : [Ids -> {"begin", "PARAMS", "STDIN", "done"}],
                 at : [Ids -> Nat], odd : Nat, unsafe : BOOLEAN,
                 forged : BOOLEAN]
        /\ \A id \in Ids : c.phase[id] = "begin" /\ c.at[id] = 0
    BY ConnectionTypes
  <2>2. Len(Bytes("begin")) = 0
    BY DEF Bytes
  <2>3. server = [c EXCEPT !.state = "none"]
    BY <1>1
  <2> HIDE DEF c
  <2>4. /\ server \in [state : {"none", "open", "hungup", "forgotten"}, count : Nat,
                 phase : [Ids -> {"begin", "PARAMS", "STDIN", "done"}],
                 at : [Ids -> Nat], odd : Nat, unsafe : BOOLEAN,
                 forged : BOOLEAN]
        /\ server.phase = c.phase /\ server.at = c.at
    BY <2>1, <2>3
  <2>5. \A id \in Ids : server.at[id] <= Len(Bytes(server.phase[id]))
    BY <2>1, <2>2, <2>4
  <2> QED BY <2>4, <2>5 DEF ServerOK
<1>5. request \in Request
  BY <1>1 DEF NoRequest, Request
<1>6. InPlace
  BY <1>1, <1>2, LengthsAssumption DEF InPlace
<1>7. /\ \A S : <<>> \in Seq(S)
      /\ header = <<>> /\ env = <<>> /\ body = <<>> /\ wire = <<>>
  BY <1>1
<1>8. /\ header \in Seq(Sound) /\ env \in Seq(0..255) /\ body \in Seq(0..255)
      /\ wire \in Seq(Sound)
  BY <1>7, Zenon
<1> QED BY <1>1, <1>2, <1>3, <1>4, <1>5, <1>6, <1>8 DEF TInv, Typed

\* The types of the specification are the invariant's, with less said of cells.
LEMMA TypesFollow == ASSUME TInv PROVE TypeOK
<1>1. \A s \in Seq(Sound) : s \in Seq(Cell)
  BY DEF Sound
<1>2. in \in Reader /\ in.stop <= Len(in.buff)
  BY <1>1 DEF TInv, Typed, Readable, Stream, Reader
<1>3. header \in Seq(Cell) /\ wire \in Seq(Cell)
  BY <1>1 DEF TInv, Typed
<1>4. /\ out \in Writer("STDOUT") /\ err \in Writer("STDERR")
      /\ \A w \in {out, err} : Header + AlignInt8(w.wrNext - Header) <= BuffLen
  BY DEF TInv, Typed, Writable
<1> QED BY <1>2, <1>3, <1>4 DEF TInv, Typed, TypeOK, Request

\* Every value keeps its type, and a writer always has room for the padding that
\* EmptyBuffProc adds, while a reader delivers only what is in its buffer: for
\* every length of the buffers and however reads cut the records.
THEOREM TypeCorrect == Spec => []TypeOK
<1>1. Init => TInv
  BY InitTypes
<1>2. TInv /\ [Next]_vars => TInv'
  BY StepTypes
<1>3. TInv => TypeOK
  BY TypesFollow
<1> QED BY <1>1, <1>2, <1>3, PTL DEF Spec

-----------------------------------------------------------------------------
(* The output in a list of records.                                        *)

\* The output up to each record of a list.
SumsOf(records, f) ==
  /\ f \in [0..Len(records) -> Nat] /\ f[0] = 0
  /\ \A i \in 1..Len(records) : f[i] = f[i - 1] + OutputIn(records[i])

Smaller == {ss \in Nat \X Nat : ss[1] < ss[2]}

\* A set of numbers that is not empty has a smallest one.
LEMMA Minimum ==
  ASSUME NEW S \in SUBSET Nat, S # {}
  PROVE  \E i \in S : \A j \in S : i <= j
<1>1. IsWellFoundedOn(Smaller, Nat)
  BY NatLessThanWellFounded DEF OpToRel, Smaller
<1>2. \E i \in S : \A j \in S : <<j, i>> \notin Smaller
  BY <1>1, WFMin
<1>3. ASSUME NEW i \in S, NEW j \in S, <<j, i>> \notin Smaller
      PROVE  i <= j
  BY <1>3 DEF Smaller
<1> QED BY <1>2, <1>3

\* The output in a record is a number.
LEMMA OutputInNat == ASSUME NEW r \in Replies PROVE OutputIn(r) \in Nat
  BY DEF Replies, OutputIn

\* Every list has such sums.
LEMMA SumsExist ==
  ASSUME NEW s \in Seq(Replies)
  PROVE  \E f : SumsOf(s, f)
<1> DEFINE n == Len(s)
           Upto(k) == \E f \in [0..k -> Nat] :
                        f[0] = 0 /\ \A i \in 1..k : f[i] = f[i - 1] + OutputIn(s[i])
           bad == {k \in 0..n : ~Upto(k)}
<1>1. n \in Nat /\ \A i \in 1..n : OutputIn(s[i]) \in Nat
  BY ElementOfSeq, OutputInNat
<1>2. Upto(0)
  <2> DEFINE f == [k \in 0..0 |-> 0]
  <2>1. f \in [0..0 -> Nat] /\ f[0] = 0 /\ \A i \in 1..0 : f[i] = f[i - 1] + OutputIn(s[i])
    OBVIOUS
  <2> QED BY <2>1, Zenon
<1>3. ASSUME NEW k \in 1..n, Upto(k - 1) PROVE Upto(k)
  <2>1. PICK f \in [0..(k - 1) -> Nat] :
          f[0] = 0 /\ \A i \in 1..(k - 1) : f[i] = f[i - 1] + OutputIn(s[i])
    BY <1>3
  <2> DEFINE c == f[k - 1] + OutputIn(s[k])
             g == [i \in 0..k |-> IF i = k THEN c ELSE f[i]]
  <2>2. k \in Nat /\ k >= 1 /\ f[k - 1] \in Nat /\ c \in Nat
    BY <1>1
  <2>3. g \in [0..k -> Nat] /\ g[0] = 0
    BY <2>1, <2>2
  <2>4. \A i \in 1..k : g[i] = g[i - 1] + OutputIn(s[i])
    BY <2>1, <2>2
  <2> HIDE DEF g
  <2> QED BY <2>3, <2>4
<1> HIDE DEF Upto
<1>4. bad = {}
  <2> SUFFICES ASSUME bad # {} PROVE FALSE
    OBVIOUS
  <2>1. bad \in SUBSET Nat
    BY <1>1
  <2>2. PICK k \in bad : \A j \in bad : k <= j
    BY <2>1, Minimum
  <2>3. k \in 1..n /\ ~Upto(k)
    BY <1>1, <1>2, <2>2
  <2>4. k - 1 \in 0..n /\ k - 1 \notin bad
    BY <1>1, <2>2, <2>3
  <2> QED BY <1>3, <2>3, <2>4
<1>5. Upto(n)
  BY <1>1, <1>4
<1> QED BY <1>5 DEF Upto, SumsOf

\* There is only one such function, and OutputOf is its last value.
LEMMA OutputOfSums ==
  ASSUME NEW s \in Seq(Replies), NEW f, SumsOf(s, f)
  PROVE  OutputOf(s) = f[Len(s)] /\ OutputOf(s) \in Nat
<1> DEFINE n == Len(s)
           sum == CHOOSE g : g = [i \in 0..n |->
                    IF i = 0 THEN 0 ELSE g[i - 1] + OutputIn(s[i])]
           bad == {i \in 0..n : sum[i] # f[i]}
<1>1. n \in Nat
  OBVIOUS
<1>2. f = [i \in 0..n |-> IF i = 0 THEN 0 ELSE f[i - 1] + OutputIn(s[i])]
  BY <1>1 DEF SumsOf
<1>3. sum = [i \in 0..n |-> IF i = 0 THEN 0 ELSE sum[i - 1] + OutputIn(s[i])]
  BY <1>2
<1>4. OutputOf(s) = sum[n]
  BY DEF OutputOf
<1> HIDE DEF sum
<1>5. bad = {}
  <2> SUFFICES ASSUME bad # {} PROVE FALSE
    OBVIOUS
  <2>1. bad \in SUBSET Nat
    BY <1>1
  <2>2. PICK k \in bad : \A j \in bad : k <= j
    BY <2>1, Minimum
  <2>3. k \in 0..n /\ sum[k] # f[k]
    BY <2>2
  <2>4. k # 0
    BY <1>1, <1>3, <2>3 DEF SumsOf
  <2>5. k - 1 \in 0..n /\ k - 1 \notin bad
    BY <1>1, <2>2, <2>3, <2>4
  <2>6. sum[k - 1] = f[k - 1]
    BY <2>5
  <2>7. sum[k] = sum[k - 1] + OutputIn(s[k])
    BY <1>1, <1>3, <2>3, <2>4
  <2>8. f[k] = f[k - 1] + OutputIn(s[k])
    BY <1>1, <2>3, <2>4 DEF SumsOf
  <2> QED BY <2>3, <2>6, <2>7, <2>8
<1>6. sum[n] = f[n] /\ f[n] \in Nat
  BY <1>1, <1>5 DEF SumsOf
<1> QED BY <1>4, <1>6

\* The output in two lists, one after the other.
LEMMA OutputOfBoth ==
  ASSUME NEW s \in Seq(Replies), NEW t \in Seq(Replies)
  PROVE  /\ OutputOf(s \o t) = OutputOf(s) + OutputOf(t)
         /\ OutputOf(s) \in Nat /\ OutputOf(t) \in Nat
<1>1. PICK f : SumsOf(s, f)
  BY SumsExist
<1>2. PICK g : SumsOf(t, g)
  BY SumsExist
<1> DEFINE m == Len(s)
           n == Len(t)
           u == s \o t
           h == [i \in 0..(m + n) |-> IF i <= m THEN f[i] ELSE f[m] + g[i - m]]
<1>3. m \in Nat /\ n \in Nat
  OBVIOUS
<1>4. /\ u \in Seq(Replies) /\ Len(u) = m + n
      /\ \A i \in 1..m : u[i] = s[i]
      /\ \A i \in (m + 1)..(m + n) : u[i] = t[i - m]
  BY ConcatProperties
<1>5. /\ f \in [0..m -> Nat] /\ f[0] = 0 /\ f[m] \in Nat
      /\ \A i \in 1..m : f[i] = f[i - 1] + OutputIn(s[i])
  BY <1>1, <1>3 DEF SumsOf
<1>6. /\ g \in [0..n -> Nat] /\ g[0] = 0
      /\ \A i \in 1..n : g[i] = g[i - 1] + OutputIn(t[i])
  BY <1>2, <1>3 DEF SumsOf
<1> HIDE DEF u
<1>7. h \in [0..(m + n) -> Nat] /\ h[0] = 0
  BY <1>3, <1>5, <1>6
<1>8. \A i \in 1..m : h[i] = h[i - 1] + OutputIn(u[i])
  BY <1>3, <1>4, <1>5
<1>9. ASSUME NEW i \in (m + 1)..(m + n) PROVE h[i] = h[i - 1] + OutputIn(u[i])
  <2>1. /\ i \in 0..(m + n) /\ i - 1 \in 0..(m + n) /\ ~(i <= m) /\ i - m \in 1..n
        /\ (i - m) - 1 = (i - 1) - m /\ (i - m) - 1 \in 0..n
        /\ i - 1 <= m => i - 1 = m /\ (i - m) - 1 = 0
    BY <1>3
  <2>2. h[i] = f[m] + g[i - m]
    BY <2>1
  <2>3. h[i - 1] = f[m] + g[(i - m) - 1]
    <3>1. CASE i - 1 <= m
      <4>1. h[i - 1] = f[m] /\ g[(i - m) - 1] = 0
        BY <1>6, <2>1, <3>1
      <4> QED BY <1>5, <4>1
    <3>2. CASE ~(i - 1 <= m)
      BY <2>1, <3>2
    <3> QED BY <3>1, <3>2
  <2>4. g[i - m] = g[(i - m) - 1] + OutputIn(t[i - m]) /\ u[i] = t[i - m]
    BY <1>4, <1>6, <2>1
  <2>5. g[(i - m) - 1] \in Nat
    BY <1>6, <2>1
  <2>6. OutputIn(t[i - m]) \in Nat
    BY <2>1, ElementOfSeq, OutputInNat
  <2> HIDE DEF h
  <2> QED BY <1>5, <2>2, <2>3, <2>4, <2>5, <2>6
<1>10. SumsOf(u, h)
  <2> HIDE DEF h
  <2>1. ASSUME NEW i \in 1..(m + n) PROVE h[i] = h[i - 1] + OutputIn(u[i])
    <3>1. i \in 1..m \/ i \in (m + 1)..(m + n)
      BY <1>3
    <3> QED BY <1>8, <1>9, <3>1
  <2>2. Len(u) = m + n
    BY <1>4
  <2> HIDE DEF m, n
  <2> QED BY ONLY <1>7, <2>1, <2>2 DEF SumsOf
<1>11. OutputOf(u) = h[m + n] /\ h[m + n] = f[m] + g[n]
  <2>1. /\ m + n \in 0..(m + n) /\ (m + n) - m = n
        /\ m + n <= m => n = 0 /\ m + n = m
    BY <1>3
  <2>2. ASSUME m + n <= m PROVE h[m + n] = f[m] + g[n]
    <3>1. h[m + n] = f[m] /\ n = 0
      BY <2>1, <2>2
    <3> HIDE DEF h
    <3> QED BY <1>5, <1>6, <3>1
  <2>3. ASSUME ~(m + n <= m) PROVE h[m + n] = f[m] + g[n]
    BY <2>1, <2>3
  <2>4. h[m + n] = f[m] + g[n]
    BY <2>2, <2>3
  <2> HIDE DEF h
  <2> QED BY <1>4, <1>10, <2>4, OutputOfSums
<1>12. OutputOf(s) = f[m] /\ OutputOf(t) = g[n] /\ OutputOf(s) \in Nat /\ OutputOf(t) \in Nat
  BY <1>1, <1>2, OutputOfSums
<1> QED BY <1>11, <1>12 DEF u

\* Records with the same output each.
LEMMA OutputOfEach ==
  ASSUME NEW s \in Seq(Replies), NEW c \in Nat, \A i \in DOMAIN s : OutputIn(s[i]) = c
  PROVE  OutputOf(s) = Len(s) * c
<1> DEFINE n == Len(s)
           f == [i \in 0..n |-> i * c]
<1>1. n \in Nat /\ n * c \in Nat
  OBVIOUS
<1>2. f \in [0..n -> Nat] /\ f[0] = 0 /\ f[n] = n * c
  BY <1>1
<1>3. ASSUME NEW i \in 1..n PROVE f[i] = f[i - 1] + OutputIn(s[i])
  <2>1. f[i] = i * c /\ f[i - 1] = (i - 1) * c /\ OutputIn(s[i]) = c
    BY <1>1
  <2>2. i \in Nat /\ i * c = (i - 1) * c + c
    BY <1>1
  <2> HIDE DEF f
  <2> QED BY <2>1, <2>2
<1> HIDE DEF f
<1>4. SumsOf(s, f)
  BY <1>2, <1>3 DEF SumsOf
<1> QED BY <1>2, <1>4, OutputOfSums

-----------------------------------------------------------------------------
(* A BEGIN_REQUEST of request 1 on its way.                                *)

\* A part of a list has what the list has, and the two parts share nothing.
LEMMA PartsHave ==
  ASSUME NEW s \in Seq(Sound), NEW n \in 0..Len(s)
  PROVE  /\ Has(First(s, n)) => Has(s)
         /\ Has(Drop(s, n)) => Has(s)
         /\ OneOf(s) => /\ OneOf(First(s, n)) /\ OneOf(Drop(s, n))
                        /\ ~(Has(First(s, n)) /\ Has(Drop(s, n)))
<1> DEFINE a == First(s, n)
           b == Drop(s, n)
<1>1. /\ DOMAIN a = 1..n /\ n \in Nat /\ Len(s) \in Nat /\ n <= Len(s)
      /\ \A i \in 1..n : a[i] = s[i]
  <2>1. a \in Seq(Sound) /\ Len(a) = n /\ \A i \in 1..n : a[i] = s[i]
    BY FirstOf
  <2> HIDE DEF a
  <2> QED BY <2>1
<1>2. DOMAIN b = 1..(Len(s) - n) /\ \A i \in 1..(Len(s) - n) : b[i] = s[n + i]
  <2>1. /\ b \in Seq(Sound) /\ Len(b) = Len(s) - n
        /\ \A i \in 1..(Len(s) - n) : b[i] = s[n + i]
    BY DropOf
  <2> HIDE DEF b
  <2> QED BY <2>1
<1> HIDE DEF a, b
<1>3. DOMAIN s = 1..Len(s)
  OBVIOUS
<1>4. \A i \in DOMAIN a : i \in DOMAIN s /\ a[i] = s[i] /\ i <= n
  BY <1>1, <1>3
<1>5. \A i \in DOMAIN b : n + i \in DOMAIN s /\ b[i] = s[n + i] /\ n + i > n /\ i \in Nat
  BY <1>1, <1>2, <1>3
<1>6. (Has(a) => Has(s)) /\ (OneOf(s) => OneOf(a))
  BY <1>4, Zenon DEF Has, OneOf
<1>7. Has(b) => Has(s)
  BY <1>5, Zenon DEF Has
<1>8. OneOf(s) => OneOf(b)
  <2> SUFFICES ASSUME OneOf(s), NEW i \in DOMAIN b, NEW j \in DOMAIN b,
                      Opens(b[i]), Opens(b[j])
               PROVE  i = j
    BY DEF OneOf
  <2>1. n + i = n + j
    BY <1>5, Zenon DEF OneOf
  <2> QED BY <1>1, <1>5, <2>1
<1>9. OneOf(s) => ~(Has(a) /\ Has(b))
  <2> SUFFICES ASSUME OneOf(s), NEW i \in DOMAIN a, NEW j \in DOMAIN b,
                      Opens(a[i]), Opens(b[j])
               PROVE  FALSE
    BY Zenon DEF Has
  <2>1. i = n + j
    BY <1>4, <1>5, Zenon DEF OneOf
  <2> QED BY <1>1, <1>4, <1>5, <2>1
<1> QED BY <1>6, <1>7, <1>8, <1>9 DEF a, b

\* Two lists, one after the other.
LEMMA BothHave ==
  ASSUME NEW s \in Seq(Sound), NEW t \in Seq(Sound)
  PROVE  /\ Has(s \o t) => Has(s) \/ Has(t)
         /\ OneOf(s) /\ OneOf(t) /\ ~(Has(s) /\ Has(t)) => OneOf(s \o t)
<1> DEFINE u == s \o t
           m == Len(s)
<1>1. /\ DOMAIN s = 1..m /\ DOMAIN t = 1..Len(t) /\ m \in Nat /\ Len(t) \in Nat
  OBVIOUS
<1>2. /\ DOMAIN u = 1..(m + Len(t))
      /\ \A i \in 1..m : u[i] = s[i]
      /\ \A i \in (m + 1)..(m + Len(t)) : u[i] = t[i - m]
  BY ConcatProperties
<1> HIDE DEF u
<1>3. ASSUME NEW i \in DOMAIN u
      PROVE  \/ i \in DOMAIN s /\ u[i] = s[i]
             \/ i - m \in DOMAIN t /\ u[i] = t[i - m] /\ i \in Nat
  BY <1>1, <1>2
<1>4. Has(u) => Has(s) \/ Has(t)
  BY <1>3 DEF Has
<1>5. ASSUME OneOf(s), OneOf(t), ~(Has(s) /\ Has(t)) PROVE OneOf(u)
  <2> SUFFICES ASSUME NEW i \in DOMAIN u, NEW j \in DOMAIN u, Opens(u[i]), Opens(u[j])
               PROVE  i = j
    BY DEF OneOf
  <2>1. CASE i \in DOMAIN s /\ j \in DOMAIN s /\ u[i] = s[i] /\ u[j] = s[j]
    BY <1>5, <2>1 DEF OneOf
  <2>2. CASE /\ i - m \in DOMAIN t /\ u[i] = t[i - m] /\ i \in Nat
             /\ j - m \in DOMAIN t /\ u[j] = t[j - m] /\ j \in Nat
    <3>1. i - m = j - m
      BY <1>5, <2>2 DEF OneOf
    <3> QED BY <1>1, <2>2, <3>1
  <2>3. (i \in DOMAIN s /\ u[i] = s[i]) => Has(s)
    BY DEF Has
  <2>4. (j \in DOMAIN s /\ u[j] = s[j]) => Has(s)
    BY DEF Has
  <2>5. (i - m \in DOMAIN t /\ u[i] = t[i - m]) => Has(t)
    BY DEF Has
  <2>6. (j - m \in DOMAIN t /\ u[j] = t[j - m]) => Has(t)
    BY DEF Has
  <2> QED BY <1>3, <1>5, <2>1, <2>2, <2>3, <2>4, <2>5, <2>6
<1> QED BY <1>4, <1>5 DEF u

\* There is nothing in an empty list.
LEMMA EmptyHas == ~Has(<<>>) /\ OneOf(<<>>)
  BY DEF Has, OneOf

\* A record starts once.
LEMMA CellsHave ==
  ASSUME NEW r, SoundRecord(r)
  PROVE  OneOf(Cells(r)) /\ (Has(Cells(r)) => r.type = "BEGIN" /\ r.id = 1)
<1> DEFINE s == Cells(r)
<1>1. \A i \in DOMAIN s : s[i] = [of |-> r, at |-> i]
  BY CellsOf
<1> HIDE DEF s
<1>2. \A i \in DOMAIN s : Opens(s[i]) => i = 1 /\ r.type = "BEGIN" /\ r.id = 1
  BY <1>1 DEF Opens
<1>3. OneOf(s) /\ (Has(s) => r.type = "BEGIN" /\ r.id = 1)
  BY <1>2, Zenon DEF OneOf, Has
<1> QED BY <1>3 DEF s

\* What is in the buffer and on the wire only gets less, the header is kept or
\* forgotten.
LEMMA CellsTaken ==
  ASSUME TInv, OneOpening,
         header' = header \/ header' = <<>>,
         \/ in'.buff \in {in.buff, <<>>}
         \/ \E n \in 0..Len(in.buff) : in'.buff = Drop(in.buff, n),
         wire' \in {wire, <<>>}
  PROVE  /\ OneOpening' /\ (Opening' => Opening)
         /\ Has(header)' => Has(header)
         /\ Has(in.buff)' => Has(in.buff)
         /\ Has(wire)' => Has(wire)
<1>1. in.buff \in Seq(Sound)
  BY DEF TInv, Typed, Readable, Stream
<1>2. (Has(in.buff)' => Has(in.buff)) /\ OneOf(in.buff)'
  <2>1. CASE in'.buff \in {in.buff, <<>>}
    BY <2>1, EmptyHas DEF OneOpening
  <2>2. CASE \E n \in 0..Len(in.buff) : in'.buff = Drop(in.buff, n)
    <3>1. PICK n \in 0..Len(in.buff) : in'.buff = Drop(in.buff, n)
      BY <2>2
    <3> QED BY <1>1, <3>1, PartsHave DEF OneOpening
  <2> QED BY <2>1, <2>2
<1>3. (Has(header)' => Has(header)) /\ OneOf(header)'
  BY EmptyHas DEF OneOpening
<1>4. (Has(wire)' => Has(wire)) /\ OneOf(wire)'
  BY EmptyHas DEF OneOpening
<1> QED BY <1>2, <1>3, <1>4 DEF OneOpening, Opening

-----------------------------------------------------------------------------
(* The reply, step by step.                                                *)

\* A record that is not of the request changes nothing of the accounts.
LEMMA AppendOther ==
  ASSUME reply \in Seq(Replies), NEW r \in Others, reply' = Append(reply, r),
         printed' = printed
  PROVE  /\ reply' \in Seq(Replies) /\ OutputSent' = OutputSent
         /\ Whole(reply') => Whole(reply)
         /\ reply \in Seq(Others) => reply' \in Seq(Others)
         /\ reply \in Seq(Running) => reply' \in Seq(Running)
         /\ Ended => Ended'
<1> DEFINE n == Len(reply)
<1>1. r \in Replies /\ r.type \notin OfRequest /\ r \in Running
  BY DEF Others, Running, OfRequest
<1>2. /\ reply' \in Seq(Replies) /\ DOMAIN reply = 1..n /\ n \in Nat
      /\ DOMAIN reply' = 1..(n + 1)
      /\ \A i \in 1..n : reply'[i] = reply[i]
      /\ reply'[n + 1] = r
  <2>1. /\ reply' \in Seq(Replies) /\ Len(reply') = n + 1
        /\ \A i \in 1..n : reply'[i] = reply[i]
        /\ reply'[n + 1] = r
    BY <1>1, AppendProperties
  <2> QED BY <2>1
<1>3. OutputSent' = OutputSent
  <2> DEFINE t == <<r>>
  <2>1. t \in Seq(Replies) /\ Len(t) = 1 /\ DOMAIN t = 1..1 /\ t[1] = r
    BY <1>1
  <2>2. reply' = reply \o t
    BY <1>1, AppendIsConcat
  <2> HIDE DEF t
  <2>3. OutputIn(r) = 0
    BY <1>1 DEF OutputIn, OfRequest
  <2>4. \A i \in DOMAIN t : OutputIn(t[i]) = 0
    BY <2>1, <2>3
  <2>5. OutputOf(t) = 0
    BY <2>1, <2>4, OutputOfEach
  <2>6. OutputOf(reply \o t) = OutputOf(reply) + OutputOf(t) /\ OutputOf(reply) \in Nat
    BY <2>1, OutputOfBoth
  <2>7. OutputOf(reply') = OutputOf(reply)
    BY <2>2, <2>5, <2>6
  <2> QED BY <2>7 DEF OutputSent
<1>4. Whole(reply') => Whole(reply)
  BY <1>2 DEF Whole
<1>5. /\ reply \in Seq(Others) => reply' \in Seq(Others)
      /\ reply \in Seq(Running) => reply' \in Seq(Running)
  BY <1>1, AppendProperties, Zenon
<1>6. ASSUME Ended PROVE Ended'
  <2> SUFFICES ASSUME NEW i \in DOMAIN reply', reply'[i].type = "END_REQUEST"
               PROVE  /\ (OutputSent = printed)'
                      /\ \A j \in DOMAIN reply' :
                           /\ j > i => reply'[j].type \notin OfRequest
                           /\ reply'[j].type = "STDOUT" =>
                                (reply'[j].len = 0 <=> j = i - 1)
    BY DEF Ended
  <2>1. i \in DOMAIN reply /\ reply[i].type = "END_REQUEST"
    BY <1>1, <1>2 DEF OfRequest
  <2>2. /\ OutputSent = printed
        /\ \A j \in DOMAIN reply :
             /\ j > i => reply[j].type \notin OfRequest
             /\ reply[j].type = "STDOUT" => (reply[j].len = 0 <=> j = i - 1)
    BY <1>6, <2>1 DEF Ended
  <2>3. ASSUME NEW j \in DOMAIN reply'
        PROVE  /\ j > i => reply'[j].type \notin OfRequest
               /\ reply'[j].type = "STDOUT" => (reply'[j].len = 0 <=> j = i - 1)
    <3>1. CASE j \in DOMAIN reply
      BY <1>2, <2>2, <3>1
    <3>2. CASE j = n + 1
      BY <1>1, <1>2, <3>2 DEF OfRequest
    <3> QED BY <1>2, <3>1, <3>2
  <2> QED BY <1>3, <2>2, <2>3
<1> QED BY <1>2, <1>3, <1>4, <1>5, <1>6

\* A step of the library or of the web server that begins nothing, serves nothing
\* and at most answers a record that is not of the request.
LEMMA AnsweringStays ==
  ASSUME TInv, Answering, OneOpening', Opening' => Opening, HasBegun' => HasBegun,
         Serving' <=> Serving,
         Opening' \/ HasBegun' => server'.phase[1] # "begin",
         server'.state = "open" => server.state = "open",
         UNCHANGED <<out, printed>>,
         \/ reply' = reply
         \/ \E r \in Others : reply' = Append(reply, r)
  PROVE  Answering'
<1>1. /\ reply' \in Seq(Replies) /\ OutputSent' = OutputSent
      /\ Whole(reply') => Whole(reply)
      /\ reply \in Seq(Others) => reply' \in Seq(Others)
      /\ reply \in Seq(Running) => reply' \in Seq(Running)
      /\ Ended => Ended'
  <2>1. CASE reply' = reply
    BY <2>1 DEF Answering, OutputSent, Ended
  <2>2. CASE \E r \in Others : reply' = Append(reply, r)
    BY <2>2, AppendOther DEF Answering
  <2> QED BY <2>1, <2>2
<1>2. Opening' => ~HasBegun'
  BY DEF Answering
<1>3. Opening' \/ (HasBegun' /\ ~Serving') => reply' \in Seq(Others)
  BY <1>1 DEF Answering
<1>4. Serving' => reply' \in Seq(Running)
  BY <1>1 DEF Answering
<1>5. (Serving /\ Whole(reply) /\ server.state = "open" =>
         ~out.isClosed /\ OutputSent + (out.wrNext - Header) = printed)'
  <2>1. SUFFICES ASSUME Serving', Whole(reply'), server'.state = "open"
                 PROVE  (~out.isClosed /\ OutputSent + (out.wrNext - Header) = printed)'
    OBVIOUS
  <2>2. ~out.isClosed /\ OutputSent + (out.wrNext - Header) = printed
    BY <1>1, <2>1 DEF Answering
  <2> QED BY <1>1, <2>2
<1>6. Whole(reply') => Ended'
  BY <1>1 DEF Answering
<1> QED BY <1>1, <1>2, <1>3, <1>4, <1>5, <1>6 DEF Answering

\* Inside the library, with a request that stays as it is.
LEMMA InsideAnswers ==
  ASSUME TInv, Standing, Answering, OneOpening', Opening' => Opening,
         pc \notin {"idle", "accept"}, UNCHANGED <<request, out, printed, server>>,
         \/ reply' = reply
         \/ \E r \in Others : reply' = Append(reply, r)
  PROVE  Answering'
<1>1. HasBegun' => HasBegun
  BY DEF HasBegun
<1>2. Serving' <=> Serving
  BY DEF Serving
<1>3. Opening' \/ HasBegun' => server'.phase[1] # "begin"
  BY <1>1 DEF Answering
<1> QED BY <1>1, <1>2, <1>3, AnsweringStays

\* FillBuffProc: cells go from the wire to the buffer and on to the header.
LEMMA FillReadAnswers ==
  ASSUME TInv, Standing, Answering, FillRead
  PROVE  Answering'
<1>1. PICK n \in 1..Len(wire) :
        /\ in' = [in EXCEPT !.buff = First(wire, n)] /\ wire' = Drop(wire, n)
  BY DEF FillRead
<1>2. wire \in Seq(Sound) /\ n \in 0..Len(wire) /\ in \in Stream /\ in.buff = <<>>
  BY DEF FillRead, TInv, Typed, Readable
<1>3. in'.buff = First(wire, n)
  BY <1>1, <1>2 DEF Stream
<1>4. /\ Has(in.buff)' => Has(wire)
      /\ Has(wire)' => Has(wire)
      /\ OneOf(in.buff)' /\ OneOf(wire)' /\ ~(Has(in.buff)' /\ Has(wire)')
  BY <1>1, <1>2, <1>3, PartsHave DEF Answering, OneOpening
<1>5. header' = header
  BY DEF FillRead
<1>6. OneOpening' /\ (Opening' => Opening)
  BY <1>4, <1>5 DEF Answering, OneOpening, Opening
<1> QED BY <1>6, InsideAnswers DEF FillRead, writer

\* What is passed over, and what becomes part of the header.
LEMMA FillRestCells ==
  ASSUME TInv, FillRest
  PROVE  \E b \in Seq(Sound), n \in 0..Len(in.buff) :
           /\ b = Drop(in.buff, n)
           /\ \/ in'.buff = b /\ header' = header
              \/ \E k \in 0..Len(b) :
                   header' = header \o First(b, k) /\ in'.buff = Drop(b, k)
<1> DEFINE c == PastContent(in)
           past == PastPadding(c)
           k == Least(HeaderLen - Len(header), Len(past.buff))
           rest == Drop(past.buff, k)
           next == [past EXCEPT !.buff = rest, !.stop = 0]
<1>1. Readable(in) /\ in.stop = 0 /\ in.buff \in Seq(Sound)
  BY DEF FillRest, TInv, Typed, InPlace, Readable, Stream
<1>2. Readable(c) /\ c.stop = 0 /\ \E n \in 0..Len(in.buff) : c.buff = Drop(in.buff, n)
  BY <1>1, PastContentReadable
<1>3. /\ Readable(past) /\ past.buff \in Seq(Sound)
      /\ \E m \in 0..Len(c.buff) : past.buff = Drop(c.buff, m)
  <2> HIDE DEF c
  <2> QED BY <1>2, PastPaddingReadable DEF Readable, Stream
<1>4. PICK n \in 0..Len(in.buff) : c.buff = Drop(in.buff, n)
  BY <1>2
<1>5. PICK m \in 0..Len(c.buff) : past.buff = Drop(c.buff, m)
  BY <1>3
<1>6. n + m \in 0..Len(in.buff) /\ past.buff = Drop(in.buff, n + m)
  <2> HIDE DEF c, past
  <2>1. m \in 0..Len(Drop(in.buff, n)) /\ past.buff = Drop(Drop(in.buff, n), m)
    BY <1>4, <1>5
  <2> QED BY <1>1, <2>1, DropDrop
<1>7. c.buff \in Seq(Sound)
  BY <1>2 DEF Readable, Stream
<1>8. CASE in' = c /\ UNCHANGED header
  BY <1>4, <1>7, <1>8
<1>9. CASE in'.buff = past.buff /\ UNCHANGED header
  BY <1>3, <1>6, <1>9
<1>10. CASE /\ ~in.eorStop /\ header' = header \o First(past.buff, k)
            /\ in' = next \/ in' = [next EXCEPT !.eorStop = TRUE]
  <2>1. in'.buff = rest
    <3> HIDE DEF c, past, rest
    <3>1. next.buff = rest /\ [next EXCEPT !.eorStop = TRUE].buff = rest
      BY <1>3 DEF Readable, Stream
    <3> HIDE DEF next
    <3> QED BY <1>10, <3>1
  <2>2. HeaderLen - Len(header) \in Nat /\ Len(past.buff) \in Nat
    <3>1. Len(header) \in Nat /\ Len(header) < HeaderLen /\ HeaderLen \in Nat
      BY <1>10, LengthsAssumption DEF TInv, Typed, InPlace
    <3> HIDE DEF past
    <3> QED BY <1>3, <3>1
  <2>3. k \in 0..Len(past.buff)
    <3>1. k \in Nat /\ k <= Len(past.buff)
      BY <2>2, LeastOf, Zenon
    <3> HIDE DEF k, past
    <3> QED BY <2>2, <3>1
  <2> HIDE DEF c, past, k
  <2> QED BY <1>3, <1>6, <1>10, <2>1, <2>3 DEF rest
<1>11. [past EXCEPT !.stop = 0, !.isClosed = TRUE].buff = past.buff
  <2> HIDE DEF past
  <2> QED BY <1>3 DEF Readable, Stream
<1>12. \/ in' = c /\ UNCHANGED header
       \/ in' = past /\ UNCHANGED header
       \/ in' = [past EXCEPT !.stop = 0, !.isClosed = TRUE] /\ UNCHANGED header
       \/ /\ ~in.eorStop /\ header' = header \o First(past.buff, k)
          /\ in' = next \/ in' = [next EXCEPT !.eorStop = TRUE]
  <2>1. \/ in' = c /\ UNCHANGED header
        \/ in' = past /\ UNCHANGED header
        \/ in' = [past EXCEPT !.stop = 0, !.isClosed = TRUE] /\ UNCHANGED header
        \/ /\ ~in.eorStop /\ header' = header \o First(past.buff, k)
           /\ IF Len(header') < HeaderLen
                THEN in' = next /\ UNCHANGED pc
                ELSE in' = [next EXCEPT !.eorStop = TRUE] /\ pc' = "header"
    BY Zenon DEF FillRest
  <2> HIDE DEF c, past, k, next
  <2> QED BY <2>1
<1>13. in' = past => in'.buff = past.buff
  OBVIOUS
<1>14. in' = [past EXCEPT !.stop = 0, !.isClosed = TRUE] => in'.buff = past.buff
  BY <1>11, Zenon
<1> HIDE DEF c, past, k, rest, next
<1> QED BY <1>8, <1>9, <1>10, <1>12, <1>13, <1>14

\* FillBuffProc goes on with what it has read: cells move to the header or go.
LEMMA FillRestAnswers ==
  ASSUME TInv, Standing, Answering, FillRest
  PROVE  Answering'
<1>1. PICK b \in Seq(Sound), n \in 0..Len(in.buff) :
        /\ b = Drop(in.buff, n)
        /\ \/ in'.buff = b /\ header' = header
           \/ \E k \in 0..Len(b) :
                header' = header \o First(b, k) /\ in'.buff = Drop(b, k)
  BY FillRestCells
<1>2. in.buff \in Seq(Sound) /\ header \in Seq(Sound) /\ UNCHANGED wire
  BY DEF FillRest, TInv, Typed, Readable, Stream
<1>3. (Has(b) => Has(in.buff)) /\ OneOf(b)
  BY <1>1, <1>2, PartsHave DEF Answering, OneOpening
<1>4. CASE in'.buff = b /\ header' = header
  <2>1. OneOpening' /\ (Opening' => Opening)
    BY <1>2, <1>3, <1>4 DEF Answering, OneOpening, Opening
  <2> QED BY <2>1, InsideAnswers DEF FillRest, writer
<1>5. CASE \E k \in 0..Len(b) :
             header' = header \o First(b, k) /\ in'.buff = Drop(b, k)
  <2>1. PICK k \in 0..Len(b) :
          header' = header \o First(b, k) /\ in'.buff = Drop(b, k)
    BY <1>5
  <2> DEFINE f == First(b, k)
  <2>2. f \in Seq(Sound)
    BY FirstOf
  <2>3. /\ Has(f) => Has(in.buff)
        /\ Has(in.buff)' => Has(in.buff)
        /\ OneOf(f) /\ OneOf(in.buff)' /\ ~(Has(f) /\ Has(in.buff)')
    BY <1>3, <2>1, PartsHave
  <2> HIDE DEF f
  <2>4. header' = header \o f
    BY <2>1 DEF f
  <2>5. (Has(header)' => Has(header) \/ Has(f)) /\ OneOf(header)'
    BY <1>2, <2>2, <2>3, <2>4, BothHave DEF Answering, OneOpening
  <2>6. OneOpening' /\ (Opening' => Opening)
    BY <1>2, <2>3, <2>5 DEF Answering, OneOpening, Opening
  <2> QED BY <2>6, InsideAnswers DEF FillRest, writer
<1> QED BY <1>1, <1>4, <1>5

\* FillBuffProc, read or not.
LEMMA FillAnswers == ASSUME TInv, Standing, Answering, Fill PROVE Answering'
<1>1. CASE FillFails \/ FillContent
  <2>1. in'.buff = in.buff /\ (header' = header \/ header' = <<>>) /\ wire' = wire
    BY <1>1 DEF FillFails, FillContent, ReadError, SetError, TInv, Typed, Readable, Stream
  <2>2. OneOpening' /\ (Opening' => Opening)
    BY <2>1, CellsTaken DEF Answering
  <2>3. pc = "fill" /\ UNCHANGED <<request, out, printed, server, reply>>
    BY <1>1 DEF FillFails, FillContent, writer
  <2> QED BY <2>2, <2>3, InsideAnswers
<1> QED BY <1>1, FillReadAnswers, FillRestAnswers DEF Fill

\* A signal during the wait ends the stream or changes nothing of it.
LEMMA Sigusr1Answers ==
  ASSUME TInv, Standing, Answering, Sigusr1
  PROVE  Answering'
<1>1. UNCHANGED <<request, out, printed, server, reply, wire>>
  BY DEF Sigusr1, writer
<1>2. CASE pc = "fill" /\ ReadError
  <2>1. in'.buff = in.buff /\ (header' = header \/ header' = <<>>)
    BY <1>2 DEF ReadError, SetError, TInv, Typed, Readable, Stream
  <2>2. OneOpening' /\ (Opening' => Opening)
    BY <1>1, <2>1, CellsTaken DEF Answering
  <2> QED BY <1>1, <1>2, <2>2, InsideAnswers
<1>3. CASE UNCHANGED <<pc, in, header>>
  <2>1. OneOpening' /\ (Opening' => Opening)
    BY <1>1, <1>3, CellsTaken DEF Answering
  <2>2. (HasBegun' <=> HasBegun) /\ (Serving' <=> Serving)
    BY <1>1, <1>3 DEF HasBegun, Serving
  <2>3. Opening' \/ HasBegun' => server'.phase[1] # "begin"
    BY <1>1, <2>1, <2>2 DEF Answering
  <2> QED BY <1>1, <2>1, <2>2, <2>3, AnsweringStays
<1> QED BY <1>2, <1>3 DEF Sigusr1

\* Back from ProcessHeader, the header is forgotten and the buffer as it was.
LEMMA BackCells ==
  ASSUME TInv, OneOpening, pc \in {"header", "nested"},
         NEW s, s.buff = in.buff, Readable(s),
         EndsInError(s) \/ GoesOn(s), wire' = wire
  PROVE  OneOpening' /\ (Opening' => Opening)
<1>1. in'.buff = in.buff
  <2>1. Readable(Back(s)) /\ Back(s).buff = s.buff
    BY BackReadable
  <2>2. SetError(Back(s)).buff = s.buff
    BY <2>1, SetErrorReadable
  <2> QED BY <2>1, <2>2 DEF EndsInError, GoesOn
<1>2. header' = <<>>
  BY DEF EndsInError, GoesOn
<1> QED BY <1>1, <1>2, CellsTaken

\* The records with which the library answers by itself.
LEMMA AnswersAreOthers ==
  ASSUME TInv, pc \in {"header", "nested"}
  PROVE  /\ [type |-> "CANT_MPX_CONN", id |-> Current.id, len |-> 8, pad |-> 0] \in Others
         /\ [type |-> "GET_VALUES_RESULT", id |-> 0, len |-> 0, pad |-> 0] \in Others
         /\ [type |-> "UNKNOWN_TYPE", id |-> 0, len |-> 8, pad |-> 0] \in Others
  BY CurrentIsSound DEF Others, Replies, OfRequest

\* All of a list.
LEMMA FirstAll ==
  ASSUME NEW S, NEW s \in Seq(S)
  PROVE  First(s, Len(s)) = s
<1> DEFINE t == First(s, Len(s))
<1>1. t \in Seq(S) /\ Len(t) = Len(s) /\ \A i \in 1..Len(s) : t[i] = s[i]
  BY FirstOf
<1> HIDE DEF t
<1>2. t = s
  BY <1>1, SeqEqual
<1> QED BY <1>2 DEF t

\* One such record is sent, or the write ends early.
LEMMA AnswerAlone ==
  ASSUME reply \in Seq(Replies), NEW r \in Others, NEW w \in WriteAll(reply, <<r>>)
  PROVE  w.reply = reply \/ \E q \in Others : w.reply = Append(reply, q)
<1> DEFINE s == <<r>>
<1>1. s \in Seq(Others) /\ Len(s) = 1
  OBVIOUS
<1>2. reply \o s = Append(reply, r)
  BY AppendIsConcat DEF Others
<1>3. First(s, 1) = s
  <2> HIDE DEF s
  <2>1. First(s, Len(s)) = s
    BY ONLY <1>1, FirstAll
  <2> QED BY ONLY <1>1, <2>1
<1>4. First(s, 0) = <<>>
  <2> HIDE DEF s
  <2>0. 0 \in 0..Len(s)
    BY <1>1
  <2>1. First(s, 0) \in Seq(Others) /\ Len(First(s, 0)) = 0
    BY ONLY <1>1, <2>0, FirstOf, Zenon
  <2> QED BY <2>1, EmptySeq
<1>5. reply \o <<>> = reply
  BY ConcatEmptySeq
<1>6. Cut \in Others
  BY DEF Cut, Others, Replies, OfRequest
<1> DEFINE before == reply
<1>7. /\ w.ok \in BOOLEAN
      /\ w.ok => w.reply = IF server.state = "open"
                             THEN before \o First(s, Len(s)) ELSE before
      /\ ~w.ok =>
           \/ server.state # "open" /\ w.reply = before
           \/ \E k \in 0..(Len(s) - 1) :
                w.reply = Append(IF server.state = "open"
                                   THEN before \o First(s, k) ELSE before, Cut)
  BY WriteAllOf
<1> HIDE DEF s
<1>8. ASSUME NEW k \in 0..(Len(s) - 1) PROVE k = 0
  BY <1>1
<1>9. CASE w.ok
  BY ONLY <1>1, <1>2, <1>3, <1>7, <1>9
<1>10. CASE ~w.ok
  BY ONLY <1>4, <1>5, <1>6, <1>7, <1>8, <1>10
<1> QED BY <1>7, <1>9, <1>10

\* The body of a BEGIN_REQUEST is read: the request has begun, and nothing else of
\* it is on its way.
LEMMA BeginAnswers ==
  ASSUME TInv, Standing, Answering, NestedTake, Current.type = "BEGIN",
         header' = <<>>, pc' = caller, pc = "nested",
         request' = [request EXCEPT !.isBeginProcessed = TRUE,
                       !.keepConnection = Current.keep, !.role = Current.role],
         \E n \in 0..Len(in.buff) : in'.buff = Drop(in.buff, n)
  PROVE  Answering'
<1>1. UNCHANGED <<wire, out, printed, server, reply>>
  BY DEF NestedTake, writer
<1>2. /\ OneOpening' /\ (Opening' => Opening)
      /\ Has(in.buff)' => Has(in.buff)
      /\ Has(wire)' => Has(wire)
  BY <1>1, CellsTaken DEF Answering
<1>3. IsHeader(header) /\ request.requestId = Current.id
  BY DEF Standing, TInv, InPlace
<1>4. /\ request'.requestId = request.requestId /\ request'.nWriters = request.nWriters
  BY DEF TInv, Typed, Request
<1>5. ~Has(header)'
  BY EmptyHas
<1>6. Current.id = 1 => Has(header)
  <2>1. 1 \in DOMAIN header
    BY LengthsAssumption DEF TInv, Typed, InPlace
  <2>2. Current.id = 1 => Opens(header[1])
    BY <1>3 DEF Opens, IsHeader, Current
  <2> QED BY <2>1, <2>2 DEF Has
<1>7. HasBegun' => Has(header)
  BY <1>3, <1>4, <1>6 DEF HasBegun
<1>8. Has(header) => ~Opening'
  BY <1>2, <1>5 DEF Answering, OneOpening, Opening
<1>9. OutputSent' = OutputSent /\ (Serving' <=> Serving)
  BY <1>1, <1>4 DEF OutputSent, Serving
<1>10. Opening' \/ HasBegun' => Opening
  BY <1>2, <1>7 DEF Opening
<1>11. Opening' => ~HasBegun'
  BY <1>7, <1>8
<1>12. Opening' \/ (HasBegun' /\ ~Serving') => reply' \in Seq(Others)
  BY <1>1, <1>10 DEF Answering
<1>13. Whole(reply') => Ended'
  BY <1>1, <1>9 DEF Answering, Ended
<1> QED BY <1>1, <1>2, <1>9, <1>10, <1>11, <1>12, <1>13 DEF Answering

\* The body of a BEGIN_REQUEST, without its header, is taken.
LEMMA NestedTakeAnswers ==
  ASSUME TInv, Standing, Answering, NestedTake
  PROVE  Answering'
<1>1. /\ pc = "nested" /\ UNCHANGED <<wire, out, printed, server, reply>>
      /\ Readable(in)
  BY DEF NestedTake, writer, TInv, Typed
<1>2. /\ Readable(Taken(in)) /\ Taken(in).buff = Drop(in.buff, in.stop)
      /\ in.stop \in 0..Len(in.buff)
  BY <1>1, TakenReadable DEF Readable, Stream
<1>3. Back(Taken(in)).buff = Drop(in.buff, in.stop)
  <2> DEFINE t == Taken(in)
  <2> HIDE DEF t
  <2>1. Readable(t) /\ t.buff = Drop(in.buff, in.stop)
    BY <1>2 DEF t
  <2>2. Back(t).buff = t.buff
    BY <2>1, BackReadable
  <2> QED BY <2>1, <2>2 DEF t
<1>4. \E n \in 0..Len(in.buff) : in'.buff = Drop(in.buff, n)
  <2>1. in' = Taken(in) \/ in' = Back(Taken(in))
    BY DEF NestedTake
  <2> QED BY <1>2, <1>3, <2>1, Zenon
<1>5. CASE in' = Taken(in) /\ pc' = "fill" /\ UNCHANGED <<header, request>>
  <2>1. OneOpening' /\ (Opening' => Opening)
    BY <1>1, <1>4, <1>5, CellsTaken DEF Answering
  <2> QED BY <1>1, <1>5, <2>1, InsideAnswers
<1>6. CASE /\ Current.type = "BEGIN" /\ pc' = caller /\ header' = <<>>
           /\ request' = [request EXCEPT !.isBeginProcessed = TRUE,
                              !.keepConnection = Current.keep, !.role = Current.role]
  BY <1>1, <1>4, <1>6, BeginAnswers
<1> QED BY <1>5, <1>6 DEF NestedTake

\* ProcessHeader answers what is not of the request, and nothing else.
LEMMA ProcessHeaderAnswers ==
  ASSUME TInv, Standing, Answering, ProcessHeader, ~Misread
  PROVE  Answering'
<1>1. Readable(in) /\ OneOpening /\ reply \in Seq(Replies)
  BY DEF TInv, Typed, Answering
<1>2. CASE ProtocolError
  <2>1. pc = "header" /\ UNCHANGED <<request, wire, out, printed, server, reply>>
    BY <1>2 DEF ProtocolError, writer
  <2>2. EndsInError(in) \/ EndsInError(Announced)
    BY <1>2 DEF ProtocolError
  <2>3. Readable(Announced) /\ Announced.buff = in.buff
    BY <2>1, AnnouncedReadable
  <2>4. OneOpening' /\ (Opening' => Opening)
    BY <1>1, <2>1, <2>2, <2>3, BackCells
  <2> QED BY <2>1, <2>4, InsideAnswers
<1>3. CASE Multiplexed
  <2>1. pc = "header" /\ UNCHANGED <<request, wire, out, printed, server>>
    BY <1>3 DEF Multiplexed, writer
  <2> DEFINE u == [Announced EXCEPT !.skip = TRUE]
             r == [type |-> "CANT_MPX_CONN", id |-> Current.id, len |-> 8, pad |-> 0]
  <2>2. /\ GoesOn(u) \/ EndsInError(Announced)
        /\ reply' = reply \/ \E w \in WriteAll(reply, <<r>>) : reply' = w.reply
    BY <1>3 DEF Multiplexed
  <2>3. Readable(Announced) /\ Announced.buff = in.buff /\ Readable(u) /\ u.buff = in.buff
    BY <2>1, AnnouncedReadable
  <2>4. r \in Others
    BY <2>1, AnswersAreOthers
  <2> HIDE DEF u, r
  <2>5. OneOpening' /\ (Opening' => Opening)
    BY <1>1, <2>1, <2>2, <2>3, BackCells
  <2>6. reply' = reply \/ \E q \in Others : reply' = Append(reply, q)
    BY <1>1, <2>2, <2>4, AnswerAlone
  <2> QED BY <2>1, <2>5, <2>6, InsideAnswers
<1>4. CASE ProcessContent
  <2>1. /\ pc = "header" /\ pc' = "fill" /\ in' = Announced /\ ReadsContent
        /\ request' = IF Current.type = "BEGIN"
                        THEN [request EXCEPT !.requestId = Current.id] ELSE request
        /\ UNCHANGED <<header, wire, out, printed, server, reply>>
    BY <1>4 DEF ProcessContent, writer
  <2>2. OneOpening' /\ (Opening' => Opening)
    BY <1>1, <2>1, AnnouncedReadable, CellsTaken
  <2>3. CASE Current.type = "BEGIN"
    <3>1. ~request.isBeginProcessed
      BY <2>1, <2>3 DEF ReadsContent
    <3>2. /\ request'.isBeginProcessed = request.isBeginProcessed
          /\ request'.nWriters = request.nWriters
      BY <2>1, <2>3 DEF TInv, Typed, Request
    <3>3. ~HasBegun' /\ (Serving' <=> Serving)
      BY <3>1, <3>2 DEF HasBegun, Serving
    <3>4. Opening' => server'.phase[1] # "begin"
      BY <2>1, <2>2 DEF Answering
    <3> QED BY <2>1, <2>2, <3>3, <3>4, AnsweringStays
  <2>4. CASE Current.type # "BEGIN"
    BY <2>1, <2>2, <2>4, InsideAnswers
  <2> QED BY <2>3, <2>4
<1>5. CASE NestedClosed
  <2>1. pc = "nested" /\ UNCHANGED <<request, wire, out, printed, server>>
    BY <1>5 DEF NestedClosed, writer
  <2> DEFINE r == [type |-> "GET_VALUES_RESULT", id |-> 0, len |-> 0, pad |-> 0]
  <2>2. /\ GoesOn(in) \/ EndsInError(in)
        /\ reply' = reply \/ \E w \in WriteAll(reply, <<r>>) : reply' = w.reply
    BY <1>5 DEF NestedClosed
  <2>3. r \in Others
    BY <2>1, AnswersAreOthers
  <2> HIDE DEF r
  <2>4. OneOpening' /\ (Opening' => Opening)
    BY <1>1, <2>1, <2>2, BackCells
  <2>6. reply' = reply \/ \E q \in Others : reply' = Append(reply, q)
    BY <1>1, <2>2, <2>3, AnswerAlone
  <2> QED BY <2>1, <2>4, <2>6, InsideAnswers
<1>6. CASE UnknownManagement
  <2>1. pc = "header" /\ UNCHANGED <<request, wire, out, printed, server>>
    BY <1>6 DEF UnknownManagement, writer
  <2> DEFINE r == [type |-> "UNKNOWN_TYPE", id |-> 0, len |-> 8, pad |-> 0]
  <2>2. /\ GoesOn(Announced) \/ EndsInError(Announced)
        /\ reply' = reply \/ \E w \in WriteAll(reply, <<r>>) : reply' = w.reply
    BY <1>6 DEF UnknownManagement
  <2>3. r \in Others
    BY <2>1, AnswersAreOthers
  <2>4. Readable(Announced) /\ Announced.buff = in.buff
    BY <2>1, AnnouncedReadable
  <2> HIDE DEF r
  <2>5. OneOpening' /\ (Opening' => Opening)
    BY <1>1, <2>1, <2>2, <2>4, BackCells
  <2>6. reply' = reply \/ \E q \in Others : reply' = Append(reply, q)
    BY <1>1, <2>2, <2>3, AnswerAlone
  <2> QED BY <2>1, <2>5, <2>6, InsideAnswers
<1>7. CASE OtherRequest
  <2>1. pc = "header" /\ UNCHANGED <<request, wire, out, printed, server, reply>>
    BY <1>7 DEF OtherRequest, writer
  <2> DEFINE u == [Announced EXCEPT !.skip = TRUE]
  <2>2. GoesOn(u) /\ Readable(u) /\ u.buff = in.buff
    BY <1>7, <2>1, AnnouncedReadable DEF OtherRequest
  <2> HIDE DEF u
  <2>3. OneOpening' /\ (Opening' => Opening)
    BY <1>1, <2>1, <2>2, BackCells
  <2> QED BY <2>1, <2>3, InsideAnswers
<1>8. CASE StreamRecord
  <2>1. pc = "header" /\ UNCHANGED <<request, wire, out, printed, server, reply>>
    BY <1>8 DEF StreamRecord, writer
  <2>2. Readable(Announced) /\ Announced.buff = in.buff
    BY <2>1, AnnouncedReadable
  <2>3. header' = <<>>
    BY <1>8 DEF StreamRecord, GoesOn
  <2>4. in'.buff = in.buff
    <3>1. in' = Back(Announced) \/ in' = [Back(Announced) EXCEPT !.isClosed = TRUE]
      BY <1>8 DEF StreamRecord, GoesOn
    <3> DEFINE t == Back(Announced)
    <3>2. t \in Stream /\ t.buff = in.buff
      BY <2>2, BackReadable DEF Readable
    <3> HIDE DEF t
    <3>3. [t EXCEPT !.isClosed = TRUE].buff = in.buff
      BY <3>2 DEF Stream
    <3> QED BY <3>1, <3>2, <3>3, Zenon DEF t
  <2>5. OneOpening' /\ (Opening' => Opening)
    BY <1>1, <2>1, <2>3, <2>4, CellsTaken
  <2> QED BY <2>1, <2>5, InsideAnswers
<1> QED BY <1>2, <1>3, <1>4, <1>5, <1>6, <1>7, <1>8, NestedTakeAnswers DEF ProcessHeader

\* Nothing is on its way.
LEMMA NothingOpening ==
  ASSUME header' = <<>>, in'.buff = <<>>, wire' = <<>>
  PROVE  OneOpening' /\ ~Opening'
  BY EmptyHas DEF OneOpening, Opening

\* FCGX_Accept_r before the request is read.
LEMMA AcceptAnswers ==
  ASSUME TInv, Standing, Answering, AcceptRequest \/ InitRequest \/ Accept
  PROVE  Answering'
<1>1. /\ header = <<>> /\ in.buff = <<>> /\ pc \in {"idle", "accept"} /\ ~Serving
      /\ request \in Request /\ OneOpening /\ ServerOK
  BY DEF AcceptRequest, InitRequest, Accept, TInv, InPlace, Typed, Standing, Answering
<1>2. UNCHANGED <<out, printed, reply>>
  BY DEF AcceptRequest, InitRequest, Accept, writer
<1>3. ~Serving' /\ ~HasBegun'
  <2>1. CASE AcceptRequest
    BY <1>1, <2>1 DEF AcceptRequest, Serving, HasBegun
  <2>2. CASE InitRequest
    BY <1>1, <2>2 DEF InitRequest, Serving, HasBegun, NoRequest
  <2>3. CASE Accept
    <3>1. \/ request' = request /\ pc' # "fill"
          \/ request' = [request EXCEPT !.ipcFd = TRUE, !.isBeginProcessed = FALSE]
      BY <2>3 DEF Accept
    <3>2. \/ request' = request /\ pc' \in {"idle", "accept"}
          \/ request' = [request EXCEPT !.ipcFd = TRUE, !.isBeginProcessed = FALSE]
      BY <1>1, <2>3, <3>1 DEF Accept, StartsReading
    <3> QED BY <1>1, <3>2 DEF Request, Serving, HasBegun
  <2> QED BY <2>1, <2>2, <2>3
<1>4. CASE UNCHANGED <<server, wire>> /\ header' = <<>> /\ in'.buff = <<>>
  <2>1. OneOpening' /\ (Opening' => Opening)
    BY <1>1, <1>4, CellsTaken
  <2>2. Opening' => server'.phase[1] # "begin"
    BY <1>4, <2>1 DEF Answering
  <2> QED BY <1>1, <1>2, <1>3, <1>4, <2>1, <2>2, AnsweringStays
<1>5. CASE server' = Dropped /\ wire' = <<>> /\ header' = <<>> /\ in'.buff = <<>>
  <2>1. OneOpening' /\ ~Opening'
    BY <1>5, NothingOpening
  <2>2. server'.state = "none"
    BY <1>1, <1>5, DroppedTypes
  <2> QED BY <1>1, <1>2, <1>3, <2>1, <2>2, AnsweringStays
<1>6. CASE AcceptRequest
  BY <1>1, <1>4, <1>6 DEF AcceptRequest
<1>7. CASE InitRequest
  <2>1. header' = <<>> /\ in'.buff = <<>> /\ wire' = wire
    BY <1>1, <1>7 DEF InitRequest
  <2>2. server'.phase = server.phase /\ (server'.state = "open" => server.state = "open")
    BY <1>1, <1>7 DEF InitRequest, ServerOK
  <2>3. OneOpening' /\ (Opening' => Opening)
    BY <1>1, <2>1, CellsTaken
  <2>4. Opening' => server'.phase[1] # "begin"
    BY <2>2, <2>3 DEF Answering
  <2> QED BY <1>1, <1>2, <1>3, <2>2, <2>3, <2>4, AnsweringStays
<1>8. CASE Accept
  <2>1. NewReader("NONE").buff = <<>>
    BY NewReaderReadable
  <2>2. ~IsUnixKeeper => wire = <<>>
    BY DEF IsUnixKeeper
  <2> QED BY <1>1, <1>4, <1>5, <1>8, <2>1, <2>2 DEF Accept, StartsReading
<1> QED BY <1>6, <1>7, <1>8

\* The connection is closed: nothing is on its way any more.
LEMMA TryAgainAnswers ==
  ASSUME TInv, Standing, Answering, TryAgain, pc \in {"begun", "params"}, ~Serving,
         UNCHANGED <<reply, printed>>
  PROVE  Answering'
<1>1. header' = <<>> /\ in'.buff = <<>> /\ wire' = <<>> /\ pc' = "accept" /\ out' = out
  BY NewReaderReadable DEF TryAgain, TInv, InPlace, writer
<1>2. OneOpening' /\ ~Opening'
  BY <1>1, NothingOpening
<1>3. server'.state = "none"
  BY DroppedTypes DEF TryAgain, TInv, Typed
<1>4. request'.nWriters = request.nWriters
  BY DEF TryAgain, TInv, Typed, Request
<1>5. ~HasBegun' /\ ~Serving'
  BY <1>1, <1>4 DEF HasBegun, Serving
<1> QED BY <1>1, <1>2, <1>3, <1>5, AnsweringStays

\* The parameters are read: the application gets the request, with nothing printed
\* and nothing of its reply sent.
LEMMA ServedAnswers ==
  ASSUME TInv, Standing, Answering, pc = "params", pc' = "serve",
         in' = SetReaderType(in, "STDIN"), out' = NewWriter("STDOUT"),
         request' = [request EXCEPT !.nWriters = 2], printed' = 0,
         UNCHANGED <<header, wire, server, reply>>
  PROVE  Answering'
<1>1. /\ request'.isBeginProcessed = request.isBeginProcessed
      /\ request'.requestId = request.requestId /\ request'.nWriters = 2
  BY DEF TInv, Typed, Request
<1>2. HasBegun /\ ~Serving
  BY DEF Standing, HasBegun
<1>3. in'.buff = in.buff
  BY SetReaderTypeReadable DEF TInv, Typed
<1>4. OneOpening' /\ (Opening' => Opening)
  BY <1>3, CellsTaken DEF Answering
<1>5. HasBegun' /\ Serving' /\ ~Opening'
  BY <1>1, <1>2, <1>4 DEF HasBegun, Serving, Answering
<1>6. reply \in Seq(Others)
  BY <1>2 DEF Answering
<1>7. \A i \in DOMAIN reply : reply[i] \in Others
  BY <1>6, ElementOfSeq
<1>8. reply' \in Seq(Running)
  <2>1. Others \subseteq Running
    BY DEF Others, Running, OfRequest
  <2> QED BY <1>6, <2>1
<1>9. OutputSent' = 0
  <2>1. \A i \in DOMAIN reply : OutputIn(reply[i]) = 0
    BY <1>7 DEF Others, OfRequest, OutputIn
  <2>2. reply \in Seq(Replies) /\ Len(reply) * 0 = 0
    BY DEF Answering
  <2>3. OutputOf(reply) = 0
    BY <2>1, <2>2, OutputOfEach
  <2> QED BY <2>3 DEF OutputSent
<1>10. ~out'.isClosed /\ out'.wrNext = Header
  BY NewWriterWritable
<1>11. Ended'
  BY <1>7 DEF Ended, Others, OfRequest
<1>12. (~out.isClosed /\ OutputSent + (out.wrNext - Header) = printed)'
  BY <1>9, <1>10 DEF Header
<1>13. server'.phase[1] # "begin" /\ reply' \in Seq(Replies)
  BY <1>2 DEF Answering
<1> QED BY <1>4, <1>5, <1>8, <1>11, <1>12, <1>13 DEF Answering

\* FCGX_Accept_r, from the begin of a request to its service.
LEMMA AcceptLoopAnswers ==
  ASSUME TInv, Standing, Answering, AcceptLoop
  PROVE  Answering'
<1>1. OneOpening /\ Readable(in)
  BY DEF Answering, TInv, Typed
<1>2. CASE Begun
  <2>1. pc = "begun" /\ caller = "begun" /\ ~Serving /\ UNCHANGED <<reply, printed>>
    BY <1>2 DEF Begun, Standing
  <2>2. CASE TryAgain
    BY <2>1, <2>2, TryAgainAnswers
  <2>3. CASE in' = SetReaderType(in, "PARAMS") /\ UNCHANGED <<header, request, wire, writer, server>>
    <3>1. OneOpening' /\ (Opening' => Opening)
      BY <1>1, <2>3, SetReaderTypeReadable, CellsTaken
    <3> QED BY <2>1, <2>3, <3>1, InsideAnswers DEF writer
  <2> QED BY <1>2, <2>2, <2>3 DEF Begun
<1>3. CASE ReadParams
  <2>1. Taken(in).buff = Drop(in.buff, in.stop) /\ in.stop \in 0..Len(in.buff)
    BY <1>1, TakenReadable DEF Readable, Stream
  <2>2. \E n \in 0..Len(in.buff) : in'.buff = Drop(in.buff, n)
    BY <1>3, <2>1 DEF ReadParams
  <2>3. OneOpening' /\ (Opening' => Opening)
    BY <1>1, <1>3, <2>2, CellsTaken DEF ReadParams
  <2> QED BY <1>3, <2>3, InsideAnswers DEF ReadParams, writer
<1>4. CASE ParamsEnd
  <2>1. pc = "params" /\ ~Serving /\ UNCHANGED reply
    BY <1>4 DEF ParamsEnd, Standing
  <2> QED BY <1>4, <2>1, TryAgainAnswers, ServedAnswers DEF ParamsEnd
<1> QED BY <1>2, <1>3, <1>4, AcceptAnswers DEF AcceptLoop

\* A new connection: whatever came before it is forgotten.
LEMMA ConnectAnswers == ASSUME TInv, Standing, Connect PROVE Answering'
<1>1. /\ UNCHANGED <<header, in, request, pc, out, printed>> /\ reply' = <<>>
      /\ wire' = <<>> /\ server.state \in {"none", "forgotten"}
  BY DEF Connect, lib, writer
<1>2. pc \in {"idle", "accept"} /\ in.buff = <<>> /\ header = <<>>
  BY <1>1 DEF Standing, TInv, InPlace
<1>3. OneOpening' /\ ~Opening'
  BY <1>1, <1>2, NothingOpening
<1>4. ~HasBegun' /\ ~Serving'
  BY <1>1, <1>2 DEF HasBegun, Serving, Standing
<1>5. Ended' /\ reply' \in Seq(Replies)
  BY <1>1 DEF Ended
<1> QED BY <1>3, <1>4, <1>5 DEF Answering

\* Hanging up changes neither the reply nor what is on its way.
LEMMA HangUpAnswers == ASSUME TInv, Standing, Answering, HangUp PROVE Answering'
<1>1. /\ UNCHANGED <<header, in, wire, request, pc, out, printed, reply>>
      /\ server' = [server EXCEPT !.state = "hungup"] /\ ServerOK
  BY DEF HangUp, lib, writer, TInv, Typed
<1>2. server'.phase = server.phase /\ server'.state = "hungup"
  BY <1>1 DEF ServerOK
<1>3. OneOpening' /\ (Opening' => Opening)
  BY <1>1, CellsTaken DEF Answering
<1>4. (HasBegun' <=> HasBegun) /\ (Serving' <=> Serving)
  BY <1>1 DEF HasBegun, Serving
<1>5. Opening' \/ HasBegun' => server'.phase[1] # "begin"
  BY <1>2, <1>3, <1>4 DEF Answering
<1> QED BY <1>1, <1>2, <1>3, <1>4, <1>5, AnsweringStays

\* What is served has begun.
LEMMA ServingHasBegun == ASSUME TInv, Standing, Serving PROVE HasBegun
  BY DEF Standing, HasBegun

\* A record that starts no request 1 goes out.
LEMMA TransmitOther ==
  ASSUME TInv, Standing, Answering, NEW r, SoundRecord(r), NEW phase, NEW at,
         Transmit(r, phase, at), r.type # "BEGIN" \/ r.id # 1,
         server.phase[1] # "begin" => phase[1] # "begin",
         UNCHANGED <<lib, writer, body, printed, shutdownPending, reply>>
  PROVE  Answering'
<1>1. /\ wire' = wire \o Cells(r) /\ wire \in Seq(Sound) /\ ServerOK
      /\ Cells(r) \in Seq(Sound)
  BY CellsOf DEF Transmit, TInv, Typed
<1>2. server'.phase = phase /\ server'.state = server.state
  BY <1>1 DEF Transmit, ServerOK
<1>3. UNCHANGED <<header, in, request, pc, out>>
  BY DEF lib, writer
<1>4. (Has(wire)' => Has(wire)) /\ OneOf(wire)'
  BY <1>1, CellsHave, BothHave DEF Answering, OneOpening
<1>5. OneOpening' /\ (Opening' => Opening)
  BY <1>3, <1>4 DEF Answering, OneOpening, Opening
<1>6. (HasBegun' <=> HasBegun) /\ (Serving' <=> Serving)
  BY <1>3 DEF HasBegun, Serving
<1>7. Opening' \/ HasBegun' => server'.phase[1] # "begin"
  BY <1>2, <1>5, <1>6 DEF Answering
<1> QED BY <1>2, <1>3, <1>5, <1>6, <1>7, AnsweringStays

\* Request 1 is begun only when nothing of one is on its way or in work.
LEMMA FirstBeginAnswers ==
  ASSUME TInv, Standing, Answering, NEW pad \in {0, 1}, SendBegin(1, pad),
         UNCHANGED <<lib, writer, body, printed, shutdownPending>>
  PROVE  Answering'
<1>1. ~Opening /\ ~HasBegun
  <2>1. CASE server.phase[1] = "begin"
    BY <2>1 DEF Answering
  <2>2. CASE Answered
    <3>1. PICK i \in DOMAIN reply : reply[i].type = "END_REQUEST"
      BY <2>2 DEF Answered
    <3>2. reply \notin Seq(Others) /\ reply \notin Seq(Running)
      BY <3>1 DEF Others, Running, OfRequest
    <3> QED BY <3>2 DEF Answering
  <2> QED BY <2>1, <2>2 DEF SendBegin
<1>2. PICK role \in {"RESPONDER", "OTHER"}, keep \in BOOLEAN :
        Transmit(BeginRequest(1, pad, role, keep),
                 [server.phase EXCEPT ![1] = "PARAMS"], [server.at EXCEPT ![1] = 0])
  BY DEF SendBegin
<1> DEFINE r == BeginRequest(1, pad, role, keep)
           phase == [server.phase EXCEPT ![1] = "PARAMS"]
<1>3. SoundRecord(r)
  BY BeginIsSound DEF Ids
<1>4. phase[1] # "begin"
  BY DEF TInv, Typed, ServerOK, Ids
<1> HIDE DEF r, phase
<1>5. /\ wire' = wire \o Cells(r) /\ wire \in Seq(Sound) /\ ServerOK
      /\ Cells(r) \in Seq(Sound) /\ reply' = <<>>
  BY <1>2, <1>3, CellsOf DEF Transmit, TInv, Typed, r, SendBegin
<1>6. server'.phase = phase
  BY <1>2, <1>5 DEF Transmit, ServerOK, phase
<1>7. UNCHANGED <<header, in, request, pc, out>>
  BY DEF lib, writer
<1>8. ~Has(header) /\ ~Has(in.buff) /\ ~Has(wire)
  BY <1>1 DEF Opening
<1>9. OneOf(wire)'
  BY <1>3, <1>5, <1>8, CellsHave, BothHave DEF Answering, OneOpening
<1>10. OneOpening'
  BY <1>7, <1>8, <1>9 DEF Answering, OneOpening
<1>11. ~HasBegun' /\ ~Serving'
  BY <1>1, <1>7, ServingHasBegun DEF HasBegun, Serving
<1>12. /\ \A S : reply' \in Seq(S)
       /\ Ended'
  BY <1>5 DEF Ended
<1> QED BY <1>4, <1>6, <1>10, <1>11, <1>12 DEF Answering

\* The web server begins request 1 again only when it has its answer.
LEMMA SendAnswers == ASSUME TInv, Standing, Answering, Send PROVE Answering'
<1>1. UNCHANGED <<lib, writer, body, printed, shutdownPending>> /\ ServerOK
  BY DEF Send, TInv, Typed
<1>2. PICK pad \in {0, 1} :
        \/ \E id \in Ids : SendBegin(id, pad)
        \/ \E id \in Ids : SendStream(id, pad)
        \/ SendManagement(pad)
        \/ pad = 0 /\ SendAbort
  BY DEF Send
<1>3. CASE \E id \in Ids : SendBegin(id, pad)
  <2>1. CASE SendBegin(2, pad)
    <3>1. PICK role \in {"RESPONDER", "OTHER"}, keep \in BOOLEAN :
            /\ role = "OTHER"
            /\ Transmit(BeginRequest(2, pad, role, keep),
                        [server.phase EXCEPT ![2] = "PARAMS"],
                        [server.at EXCEPT ![2] = 0])
      BY <2>1 DEF SendBegin
    <3> DEFINE r == BeginRequest(2, pad, role, keep)
               phase == [server.phase EXCEPT ![2] = "PARAMS"]
    <3>2. SoundRecord(r) /\ r.id = 2
      BY <3>1, BeginIsSound DEF Ids
    <3>3. phase[1] = server.phase[1]
      BY <1>1 DEF ServerOK, Ids
    <3>4. UNCHANGED reply
      BY <2>1 DEF SendBegin
    <3> DEFINE at == [server.at EXCEPT ![2] = 0]
    <3>5. Transmit(r, phase, at)
      BY <3>1
    <3> HIDE DEF r, phase, at
    <3> QED BY <1>1, <3>2, <3>3, <3>4, <3>5, TransmitOther
  <2> QED BY <1>1, <1>3, <2>1, FirstBeginAnswers DEF Ids
<1>4. CASE \E id \in Ids : SendStream(id, pad)
  <2>1. PICK id \in Ids : SendStream(id, pad)
    BY <1>4
  <2> DEFINE type == server.phase[id]
             bytes == IF type = "PARAMS" THEN ParamBytes ELSE BodyBytes
             from == server.at[id]
             after == IF type = "PARAMS" /\ id = 1 THEN "STDIN" ELSE "done"
  <2>2. type \in {"PARAMS", "STDIN"} /\ UNCHANGED reply
    BY <2>1 DEF SendStream
  <2>3. PICK n \in 0..(Len(bytes) - from) :
          Transmit(Record(type, id, n, pad, from),
                   IF n = 0 THEN [server.phase EXCEPT ![id] = after] ELSE server.phase,
                   [server.at EXCEPT ![id] = IF n = 0 THEN 0 ELSE from + n])
    BY <2>1 DEF SendStream
  <2> DEFINE phase == IF n = 0 THEN [server.phase EXCEPT ![id] = after] ELSE server.phase
             r == Record(type, id, n, pad, from)
  <2>4. /\ bytes = Bytes(type) /\ Len(ParamBytes) \in Nat /\ Len(BodyBytes) \in Nat
    BY <2>2, LengthsAssumption DEF Bytes
  <2>5. from \in Nat /\ n \in Nat /\ from + n <= Len(bytes)
    BY <1>1, <2>3, <2>4 DEF ServerOK
  <2>6. SoundRecord(r) /\ r.type # "BEGIN"
    BY <2>2, <2>5 DEF SoundRecord, Records, RecordTypes, Ids, Record
  <2>7. server.phase[1] # "begin" => phase[1] # "begin"
    BY <1>1 DEF ServerOK, Ids
  <2> DEFINE at == [server.at EXCEPT ![id] = IF n = 0 THEN 0 ELSE from + n]
  <2>8. Transmit(r, phase, at)
    BY <2>3
  <2> HIDE DEF r, phase, at
  <2> QED BY <1>1, <2>2, <2>6, <2>7, <2>8, TransmitOther
<1>5. CASE SendManagement(pad)
  <2>1. PICK type \in {"GET_VALUES", "UNKNOWN"}, n \in 0..2 :
          Transmit(Record(type, 0, n, pad, 0), server.phase, server.at)
    BY <1>5 DEF SendManagement
  <2>2. SoundRecord(Record(type, 0, n, pad, 0)) /\ Record(type, 0, n, pad, 0).id = 0
    BY DEF SoundRecord, Records, Record, RecordTypes
  <2>3. UNCHANGED reply
    BY <1>5 DEF SendManagement
  <2> QED BY <1>1, <2>1, <2>2, <2>3, TransmitOther
<1>6. CASE SendAbort
  <2>1. Transmit(Record("ABORT", 1, 0, 0, 0), server.phase, server.at) /\ UNCHANGED reply
    BY <1>6 DEF SendAbort
  <2>2. /\ SoundRecord(Record("ABORT", 1, 0, 0, 0))
        /\ Record("ABORT", 1, 0, 0, 0).type = "ABORT"
    BY DEF SoundRecord, Records, Record, RecordTypes
  <2> QED BY <1>1, <2>1, <2>2, TransmitOther
<1> QED BY <1>2, <1>3, <1>4, <1>5, <1>6

-----------------------------------------------------------------------------
(* The output.                                                             *)

\* What is cut stays cut.
LEMMA WholeParts ==
  ASSUME NEW s \in Seq(Replies), NEW t \in Seq(Replies), Whole(s \o t)
  PROVE  Whole(s) /\ Whole(t)
<1> DEFINE u == s \o t
           m == Len(s)
           n == Len(t)
<1>1. m \in Nat /\ n \in Nat /\ DOMAIN s = 1..m /\ DOMAIN t = 1..n
  OBVIOUS
<1>2. /\ DOMAIN u = 1..(m + n)
      /\ \A i \in 1..m : u[i] = s[i]
      /\ \A i \in (m + 1)..(m + n) : u[i] = t[i - m]
  BY ConcatProperties
<1> HIDE DEF u
<1>3. \A i \in DOMAIN u : u[i].type # "CUT"
  BY DEF Whole, u
<1>4. ASSUME NEW i \in 1..m PROVE s[i].type # "CUT"
  <2>1. i \in DOMAIN u /\ u[i] = s[i]
    BY <1>1, <1>2
  <2> QED BY <1>3, <2>1
<1>5. ASSUME NEW i \in 1..n PROVE t[i].type # "CUT"
  <2>1. m + i \in (m + 1)..(m + n) /\ m + i \in DOMAIN u /\ (m + i) - m = i
    BY <1>1, <1>2
  <2>2. u[m + i] = t[i]
    BY <1>2, <2>1
  <2> QED BY <1>3, <2>1, <2>2
<1> QED BY <1>1, <1>4, <1>5 DEF Whole

\* The record that stands for a cut.
LEMMA CutIs == Cut \in Running /\ Cut.type = "CUT"
  BY DEF Cut, Running, Replies, OfRequest

\* write_it_all: the records behind what was there, or the reply is cut; nothing
\* when the web server is gone.
LEMMA WriteAllReply ==
  ASSUME NEW S \in SUBSET Replies, NEW before \in Seq(S), NEW records \in Seq(S),
         Cut \in S, NEW w \in WriteAll(before, records)
  PROVE  /\ w.reply \in Seq(S) /\ w.ok \in BOOLEAN
         /\ Whole(w.reply) =>
              /\ Whole(before)
              /\ server.state = "open" => w.ok /\ w.reply = before \o records
              /\ server.state # "open" => w.reply = before
<1>1. /\ w.ok \in BOOLEAN
      /\ w.ok => w.reply = IF server.state = "open"
                             THEN before \o First(records, Len(records)) ELSE before
      /\ ~w.ok =>
           \/ server.state # "open" /\ w.reply = before
           \/ \E k \in 0..(Len(records) - 1) :
                w.reply = Append(IF server.state = "open"
                                   THEN before \o First(records, k) ELSE before, Cut)
  BY WriteAllOf
<1>2. before \o records \in Seq(S)
  BY ConcatProperties
<1>3. before \in Seq(Replies) /\ records \in Seq(Replies)
  OBVIOUS
<1>4. CASE w.ok
  <2>1. w.reply = IF server.state = "open" THEN before \o records ELSE before
    BY <1>1, <1>4, FirstAll
  <2>2. Whole(before \o records) => Whole(before)
    BY <1>3, WholeParts
  <2> QED BY <1>2, <1>4, <2>1, <2>2
<1>5. CASE ~w.ok /\ server.state # "open" /\ w.reply = before
  BY <1>1, <1>5
<1>6. CASE ~w.ok /\ \E k \in 0..(Len(records) - 1) :
             w.reply = Append(IF server.state = "open"
                                THEN before \o First(records, k) ELSE before, Cut)
  <2>1. PICK k \in 0..(Len(records) - 1) :
          w.reply = Append(IF server.state = "open"
                             THEN before \o First(records, k) ELSE before, Cut)
    BY <1>6
  <2>2. First(records, k) \in Seq(S)
    BY FirstOf
  <2>3. before \o First(records, k) \in Seq(S)
    BY <2>2, ConcatProperties
  <2>4. PICK p \in Seq(S) : w.reply = Append(p, Cut)
    BY <2>1, <2>3
  <2>5. /\ w.reply \in Seq(S) /\ Len(w.reply) = Len(p) + 1 /\ Len(p) \in Nat
        /\ w.reply[Len(p) + 1] = Cut
    BY <2>4, AppendProperties
  <2>6. Len(p) + 1 \in DOMAIN w.reply
    BY <2>5
  <2>7. ~Whole(w.reply)
    BY <2>5, <2>6, CutIs DEF Whole
  <2> QED BY <1>1, <2>5, <2>7
<1> QED BY <1>1, <1>4, <1>5, <1>6

\* A step of the application that goes on with the request.
LEMMA RunningAnswers ==
  ASSUME TInv, Standing, Answering, Serving, UNCHANGED <<lib, wire, server>>,
         reply' \in Seq(Running),
         Whole(reply') /\ server.state = "open" =>
           (~out.isClosed /\ OutputSent + (out.wrNext - Header) = printed)'
  PROVE  Answering'
<1>1. UNCHANGED <<header, in, request, pc, wire, server>>
  BY DEF lib
<1>2. OneOpening' /\ (Opening' => Opening)
  BY <1>1, CellsTaken DEF Answering
<1>3. HasBegun' /\ Serving' /\ HasBegun
  BY <1>1, ServingHasBegun DEF HasBegun, Serving
<1>4. ~Opening'
  BY <1>2, <1>3 DEF Answering
<1>5. server'.phase[1] # "begin"
  BY <1>1, <1>3 DEF Answering
<1>6. reply' \in Seq(Replies) /\ Ended'
  <2>1. \A i \in DOMAIN reply' : reply'[i] \in Running
    BY ElementOfSeq
  <2> QED BY <2>1 DEF Ended, Running
<1> QED BY <1>1, <1>2, <1>3, <1>4, <1>5, <1>6 DEF Answering

\* FCGX_PutStr sends full buffers.
LEMMA PutRecordsOf ==
  ASSUME NEW w, Writable(w, "STDOUT"), NEW n \in Nat, NEW id \in 0..2
  PROVE  /\ PutRecords(w, n, id) \in Seq(Running)
         /\ OutputOf(PutRecords(w, n, id)) = Flushes(w, n) * Room
<1> DEFINE k == Flushes(w, n)
           r == [type |-> w.type, id |-> id, len |-> Room, pad |-> 0]
           s == PutRecords(w, n, id)
<1>1. k \in Nat
  BY PutStrWritable
<1>2. Room \in Nat /\ Room # 0
  BY LengthsAssumption DEF Room, Header
<1>3. r \in Running /\ r \in Replies /\ OutputIn(r) = Room
  BY <1>2 DEF Writable, Writer, Running, Replies, OfRequest, OutputIn
<1>4. s = [i \in 1..k |-> r]
  BY DEF PutRecords
<1> HIDE DEF r, k, s
<1>5. s \in Seq(Running) /\ s \in Seq(Replies) /\ Len(s) = k
      /\ \A i \in DOMAIN s : s[i] = r
  BY <1>1, <1>3, <1>4
<1>6. OutputOf(s) = k * Room
  BY <1>2, <1>3, <1>5, OutputOfEach
<1> QED BY <1>5, <1>6 DEF k, s

\* Running and Replies.
LEMMA RunningIn == Running \subseteq Replies /\ Cut \in Running
  BY CutIs DEF Running

\* What is printed goes to the buffer, and from there to the reply.
LEMMA FPrintFAnswers ==
  ASSUME TInv, Standing, Answering, FPrintF
  PROVE  Answering'
<1>1. PICK n \in Writes : \E w \in WriteAll(reply, PutRecords(out, n, request.requestId)) :
         /\ out' = IF w.ok THEN PutStr(out, n)
                   ELSE Failed([out EXCEPT !.wrNext = BuffLen])
         /\ reply' = w.reply
         /\ printed' = IF w.ok /\ ~out.isClosed THEN printed + n ELSE printed
  BY DEF FPrintF
<1> DEFINE records == PutRecords(out, n, request.requestId)
<1>2. PICK w \in WriteAll(reply, records) :
         /\ out' = IF w.ok THEN PutStr(out, n)
                   ELSE Failed([out EXCEPT !.wrNext = BuffLen])
         /\ reply' = w.reply
         /\ printed' = IF w.ok /\ ~out.isClosed THEN printed + n ELSE printed
  BY <1>1
<1>3. n \in Nat /\ printed \in Nat /\ Writable(out, "STDOUT") /\ request.requestId \in 0..2
  BY BoundsAreNat DEF TInv, Typed, Request
<1>4. Serving /\ UNCHANGED <<lib, wire, server>>
  BY DEF FPrintF, Standing
<1>5. reply \in Seq(Running) /\ reply \in Seq(Replies)
  BY <1>4 DEF Answering
<1>6. records \in Seq(Running) /\ OutputOf(records) = Flushes(out, n) * Room
  BY <1>3, PutRecordsOf
<1> HIDE DEF records
<1>7. /\ reply' \in Seq(Running)
      /\ Whole(reply') =>
           /\ Whole(reply)
           /\ server.state = "open" => w.ok /\ reply' = reply \o records
  BY <1>2, <1>5, <1>6, WriteAllReply, RunningIn
<1>8. ASSUME Whole(reply'), server.state = "open"
      PROVE  (~out.isClosed /\ OutputSent + (out.wrNext - Header) = printed)'
  <2>1. ~out.isClosed /\ OutputSent + (out.wrNext - Header) = printed
    BY <1>4, <1>7, <1>8 DEF Answering
  <2>2. out' = PutStr(out, n) /\ printed' = printed + n /\ reply' = reply \o records
    BY <1>2, <1>7, <1>8, <2>1
  <2> DEFINE x == Flushes(out, n) * Room
  <2>3. ~out'.isClosed /\ out'.wrNext + x = out.wrNext + n
    BY <1>3, <2>1, <2>2, PutStrWritable
  <2>4. out.wrNext \in Nat /\ out'.wrNext \in Nat
    <3>1. Writable(out, "STDOUT")'
      BY <1>3, <2>2, PutStrWritable
    <3>2. \A v : Writable(v, "STDOUT") => v.wrNext \in Nat
      BY LengthsAssumption DEF Writable, Writer, Header
    <3> QED BY <1>3, <3>1, <3>2
  <2>5. /\ OutputOf(reply \o records) = OutputOf(reply) + x /\ OutputOf(reply) \in Nat
        /\ OutputOf(records) = x /\ OutputOf(records) \in Nat
    <3>1. records \in Seq(Replies)
      BY <1>6, RunningIn
    <3> QED BY <1>5, <1>6, <3>1, OutputOfBoth
  <2> HIDE DEF x
  <2>6. x \in Nat
    BY <2>5
  <2>7. OutputSent' = OutputSent + x /\ OutputSent \in Nat
    BY <2>2, <2>5 DEF OutputSent
  <2> DEFINE a == OutputSent
             b == out.wrNext
             d == out'.wrNext
  <2>8. /\ a \in Nat /\ b \in Nat /\ d \in Nat /\ x \in Nat /\ n \in Nat
        /\ a + (b - Header) = printed /\ d + x = b + n
    BY <1>3, <2>1, <2>3, <2>4, <2>6, <2>7
  <2>9. OutputSent' + (out'.wrNext - Header) = printed'
    <3>1. OutputSent' = a + x /\ printed' = printed + n
      BY <2>2, <2>7
    <3> HIDE DEF a, b, d
    <3>2. (a + x) + (d - Header) = printed + n
      BY ONLY <1>3, <2>8 DEF Header
    <3> QED BY <3>1, <3>2 DEF d
  <2> QED BY <2>3, <2>9 DEF Header
<1> QED BY <1>4, <1>7, <1>8, RunningAnswers

\* EmptyBuffProc sends what is in the buffer.
LEMMA ContentOf ==
  ASSUME NEW type \in {"STDOUT", "STDERR"}, NEW w, Writable(w, type), NEW id \in 0..2
  PROVE  /\ Content(w, id) \in Seq(Running)
         /\ type = "STDOUT" => OutputOf(Content(w, id)) = w.wrNext - Header
         /\ type = "STDERR" => OutputOf(Content(w, id)) = 0
<1> DEFINE c == w.wrNext - Header
           r == [type |-> w.type, id |-> id, len |-> c, pad |-> AlignInt8(c) - c]
           s == Content(w, id)
<1>1. w.type = type /\ c \in Nat
  BY LengthsAssumption DEF Writable, Writer, Header
<1>2. AlignInt8(c) - c \in Nat
  BY <1>1, AlignOf
<1>3. s = IF c <= 0 THEN <<>> ELSE <<r>>
  BY DEF Content
<1> HIDE DEF s
<1>4. CASE c = 0
  <2>1. s = <<>>
    BY <1>3, <1>4
  <2>2. OutputOf(s) = 0
    <3>1. s \in Seq(Replies) /\ Len(s) * 0 = 0 /\ \A i \in DOMAIN s : OutputIn(s[i]) = 0
      BY <2>1
    <3> QED BY <3>1, OutputOfEach
  <2> QED BY <1>4, <2>1, <2>2 DEF s
<1>5. CASE c # 0
  <2>1. r \in Running /\ r \in Replies
    BY <1>1, <1>2, <1>5 DEF Running, Replies, OfRequest
  <2>2. OutputIn(r) = IF type = "STDOUT" THEN c ELSE 0
    BY <1>1 DEF OutputIn
  <2>3. s = <<r>> /\ c > 0
    BY <1>1, <1>3, <1>5
  <2> HIDE DEF r, c
  <2>4. /\ s \in Seq(Running) /\ s \in Seq(Replies) /\ Len(s) = 1
        /\ \A i \in DOMAIN s : s[i] = r
    BY <2>1, <2>3
  <2>5. type = "STDOUT" => OutputOf(s) = c
    <3>1. type = "STDOUT" => OutputOf(s) = Len(s) * c
      BY <1>1, <2>2, <2>4, OutputOfEach
    <3> QED BY <1>1, <2>4, <3>1
  <2>6. type = "STDERR" => OutputOf(s) = 0
    <3>1. type = "STDERR" => OutputOf(s) = Len(s) * 0
      BY <1>1, <2>2, <2>4, OutputOfEach
    <3> QED BY <2>4, <3>1
  <2> QED BY <2>4, <2>5, <2>6 DEF s, c
<1> QED BY <1>4, <1>5

\* FCGX_FFlush moves the buffer to the reply.
LEMMA FlushAnswers == ASSUME TInv, Standing, Answering, Flush PROVE Answering'
<1> DEFINE records == Content(out, request.requestId)
<1>1. PICK w \in WriteAll(reply, records) :
        out' = (IF w.ok THEN Emptied(out) ELSE Failed(out)) /\ reply' = w.reply
  BY DEF Flush
<1>2. printed \in Nat /\ Writable(out, "STDOUT") /\ request.requestId \in 0..2
  BY DEF TInv, Typed, Request
<1>3. Serving /\ UNCHANGED <<lib, wire, server, printed>>
  BY DEF Flush, Standing
<1>4. reply \in Seq(Running) /\ reply \in Seq(Replies)
  BY <1>3 DEF Answering
<1>5. records \in Seq(Running) /\ OutputOf(records) = out.wrNext - Header
  BY <1>2, ContentOf
<1> HIDE DEF records
<1>6. /\ reply' \in Seq(Running)
      /\ Whole(reply') =>
           /\ Whole(reply)
           /\ server.state = "open" => w.ok /\ reply' = reply \o records
  BY <1>1, <1>4, <1>5, WriteAllReply, RunningIn
<1>7. ASSUME Whole(reply'), server.state = "open"
      PROVE  (~out.isClosed /\ OutputSent + (out.wrNext - Header) = printed)'
  <2>1. ~out.isClosed /\ OutputSent + (out.wrNext - Header) = printed
    BY <1>3, <1>6, <1>7 DEF Answering
  <2>2. out' = Emptied(out) /\ reply' = reply \o records
    BY <1>1, <1>6, <1>7
  <2>3. ~out'.isClosed /\ out'.wrNext = Header
    BY <1>2, <2>1, <2>2, EmptiedWritable
  <2>4. records \in Seq(Replies)
    BY <1>5, RunningIn
  <2>5. OutputOf(reply') = OutputOf(reply) + (out.wrNext - Header) /\ OutputOf(reply) \in Nat
        /\ out.wrNext - Header \in Nat
    BY <1>4, <1>5, <2>2, <2>4, OutputOfBoth
  <2> QED BY <1>3, <2>1, <2>3, <2>5 DEF OutputSent, Header
<1> QED BY <1>3, <1>6, <1>7, RunningAnswers

\* Errors are not output.
LEMMA PrintErrorAnswers ==
  ASSUME TInv, Standing, Answering, PrintError
  PROVE  Answering'
<1>1. Serving /\ UNCHANGED <<lib, wire, server, printed, reply, out>>
  BY DEF PrintError, Standing
<1>2. reply' \in Seq(Running)
  BY <1>1 DEF Answering
<1>3. OutputSent' = OutputSent
  BY <1>1 DEF OutputSent
<1> QED BY <1>1, <1>2, <1>3, RunningAnswers DEF Answering

\* Reading the body leaves the reply alone.
LEMMA ReadBodyAnswers ==
  ASSUME TInv, Standing, Answering, ReadBody
  PROVE  Answering'
<1>1. Readable(in) /\ OneOpening /\ pc = "serve"
      /\ UNCHANGED <<request, header, wire, out, printed, server, reply>>
  BY DEF ReadBody, writer, TInv, Typed, Answering
<1>2. Taken(in).buff = Drop(in.buff, in.stop) /\ in.stop \in 0..Len(in.buff)
  BY <1>1, TakenReadable DEF Readable, Stream
<1>3. in' = in \/ in' = Taken(in)
  BY DEF ReadBody
<1>4. OneOpening' /\ (Opening' => Opening)
  BY <1>1, <1>2, <1>3, CellsTaken
<1> QED BY <1>1, <1>4, InsideAnswers

\* FCGX_FClose: the content and the closing records, unless the reply is cut.
LEMMA CloseOutputOf ==
  ASSUME NEW w, NEW k, Content(w, request.requestId) \in Seq(Replies),
         CloseRecords(w, request.requestId, k) \in Seq(Replies)
  PROVE  /\ CloseOutput(w, k) \in Seq(Replies)
         /\ Whole(CloseOutput(w, k)) =>
              CloseOutput(w, k) = Content(w, request.requestId)
                                    \o CloseRecords(w, request.requestId, k)
<1> DEFINE content == Content(w, request.requestId)
           closing == CloseRecords(w, request.requestId, k)
           room == BuffLen - Header - AlignInt8(w.wrNext - Header)
           fits == IF room < Header THEN 0
                   ELSE IF Len(closing) > 1 /\ room < 3 * Header THEN 1 ELSE Len(closing)
           s == CloseOutput(w, k)
<1>1. content \in Seq(Replies) /\ closing \in Seq(Replies) /\ Len(closing) \in Nat
  OBVIOUS
<1>2. s = IF w.isClosed /\ content # <<>> /\ fits < Len(closing)
            THEN Append(content \o First(closing, fits), Cut)
            ELSE content \o closing
  BY DEF CloseOutput
<1> HIDE DEF content, closing, s, room
<1>3. fits \in 0..Len(closing)
  BY <1>1
<1> HIDE DEF fits
<1>4. CASE s = content \o closing
  BY <1>1, <1>4, ConcatProperties DEF s, content, closing
<1>5. CASE s = Append(content \o First(closing, fits), Cut)
  <2> DEFINE p == content \o First(closing, fits)
  <2>1. First(closing, fits) \in Seq(Replies)
    BY <1>1, <1>3, FirstOf
  <2>2. p \in Seq(Replies) /\ Cut \in Replies
    BY <1>1, <2>1, ConcatProperties, RunningIn
  <2> HIDE DEF p
  <2>3. s \in Seq(Replies) /\ Len(s) = Len(p) + 1 /\ s[Len(p) + 1] = Cut
    BY <1>5, <2>2, AppendProperties DEF p
  <2>4. Len(p) + 1 \in DOMAIN s
    BY <2>2, <2>3
  <2>5. ~Whole(s)
    BY <2>3, <2>4, CutIs DEF Whole
  <2> QED BY <2>3, <2>5 DEF s
<1> QED BY <1>2, <1>4, <1>5

\* WriteCloseRecords of the error stream.
LEMMA CloseErrorOf ==
  ASSUME NEW w, Writable(w, "STDERR"), NEW id \in 0..2
  PROVE  /\ CloseRecords(w, id, 2) \in Seq(Running)
         /\ OutputOf(CloseRecords(w, id, 2)) = 0
<1> DEFINE r == [type |-> w.type, id |-> id, len |-> 0, pad |-> 0]
           s == CloseRecords(w, id, 2)
<1>1. r \in Running /\ r \in Replies /\ OutputIn(r) = 0
  BY DEF Writable, Writer, Running, Replies, OfRequest, OutputIn
<1> HIDE DEF r
<1>2. s = <<>> \o <<>> \/ s = <<r>> \o <<>>
  BY DEF CloseRecords, r
<1> HIDE DEF s
<1>3. s = <<>> \/ s = <<r>>
  <2>1. <<r>> \in Seq(Replies) /\ <<>> \in Seq(Replies)
    BY <1>1
  <2> QED BY <1>2, <2>1, ConcatEmptySeq
<1>4. s \in Seq(Running) /\ s \in Seq(Replies) /\ Len(s) * 0 = 0
      /\ \A i \in DOMAIN s : OutputIn(s[i]) = 0
  <2>1. CASE s = <<>>
    BY <2>1
  <2>2. CASE s = <<r>>
    <3>1. <<r>> \in Seq(Running) /\ <<r>> \in Seq(Replies)
      BY <1>1
    <3>2. Len(<<r>>) = 1 /\ DOMAIN <<r>> = 1..1 /\ <<r>>[1] = r
      OBVIOUS
    <3> QED BY <1>1, <2>2, <3>1, <3>2
  <2> QED BY <1>3, <2>1, <2>2
<1>5. OutputOf(s) = Len(s) * 0
  BY <1>4, OutputOfEach
<1> QED BY <1>4, <1>5 DEF s

\* Two records written one behind the other.
LEMMA PairOf ==
  ASSUME NEW S, NEW y \in S, NEW z \in S
  PROVE  <<y>> \o <<z>> = <<y, z>>
<1> DEFINE a == <<y>>
           b == <<z>>
           c == <<y, z>>
           u == a \o b
<1>1. /\ a \in Seq(S) /\ b \in Seq(S) /\ c \in Seq(S)
      /\ Len(a) = 1 /\ Len(b) = 1 /\ Len(c) = 2
      /\ a[1] = y /\ b[1] = z /\ c[1] = y /\ c[2] = z
  OBVIOUS
<1> HIDE DEF a, b, c
<1>2. u \in Seq(S) /\ Len(u) = 2 /\ u[1] = y /\ u[2] = z
  BY <1>1, ConcatProperties
<1> HIDE DEF u
<1>3. \A i \in 1..Len(u) : u[i] = c[i]
  BY <1>1, <1>2
<1>4. u = c
  BY <1>1, <1>2, <1>3, SeqEqual
<1> QED BY <1>4 DEF u, a, b, c

\* WriteCloseRecords of the output: the end of the stream and of the request.
LEMMA CloseOutOf ==
  ASSUME NEW w, Writable(w, "STDOUT"), NEW id \in 0..2
  PROVE  \E y, z \in Replies :
           /\ CloseRecords(w, id, 1) = <<y, z>>
           /\ y.type = "STDOUT" /\ y.len = 0 /\ z.type = "END_REQUEST"
<1> DEFINE y == [type |-> "STDOUT", id |-> id, len |-> 0, pad |-> 0]
           z == [type |-> "END_REQUEST", id |-> id, len |-> 8, pad |-> 0]
<1>1. w.type = "STDOUT"
  BY DEF Writable, Writer
<1>2. CloseRecords(w, id, 1) = <<y>> \o <<z>>
  BY <1>1 DEF CloseRecords
<1>3. y \in Replies /\ z \in Replies
  BY DEF Replies, OfRequest
<1>4. y.type = "STDOUT" /\ y.len = 0 /\ z.type = "END_REQUEST"
  OBVIOUS
<1> HIDE DEF y, z
<1>5. CloseRecords(w, id, 1) = <<y, z>>
  BY <1>2, <1>3, PairOf, Zenon
<1> QED BY <1>3, <1>4, <1>5

\* The end of the output and of the request, behind a reply that goes on.
LEMMA EndsWell ==
  ASSUME NEW p \in Seq(Running), NEW y \in Replies, NEW z \in Replies,
         y.type = "STDOUT", y.len = 0, z.type = "END_REQUEST",
         reply' = p \o <<y, z>>, OutputOf(p) = printed, printed' = printed
  PROVE  Ended' /\ reply' \in Seq(Replies)
<1> DEFINE n == Len(p)
           t == <<y, z>>
<1>1. p \in Seq(Replies) /\ t \in Seq(Replies) /\ n \in Nat /\ Len(t) = 2
      /\ t[1] = y /\ t[2] = z
  BY RunningIn
<1> HIDE DEF t
<1>2. /\ reply' \in Seq(Replies) /\ DOMAIN reply' = 1..(n + 2)
      /\ \A i \in 1..n : reply'[i] = p[i]
      /\ reply'[n + 1] = y /\ reply'[n + 2] = z
  <2>1. reply' = p \o t
    BY DEF t
  <2>2. /\ reply' \in Seq(Replies) /\ Len(reply') = n + 2
        /\ \A i \in 1..n : reply'[i] = p[i]
        /\ \A i \in (n + 1)..(n + 2) : reply'[i] = t[i - n]
    BY <1>1, <2>1, ConcatProperties
  <2>3. n + 1 \in (n + 1)..(n + 2) /\ n + 2 \in (n + 1)..(n + 2)
        /\ (n + 1) - n = 1 /\ (n + 2) - n = 2
    BY <1>1
  <2>4. reply'[n + 1] = t[1] /\ reply'[n + 2] = t[2]
    BY <2>2, <2>3
  <2> QED BY <1>1, <2>2, <2>4
<1>3. \A i \in 1..n : p[i].type # "END_REQUEST" /\ (p[i].type = "STDOUT" => p[i].len # 0)
  BY ElementOfSeq DEF Running
<1>4. (OutputSent = printed)'
  <2>1. OutputOf(t) = 0
    <3>1. OutputIn(y) = 0 /\ OutputIn(z) = 0
      BY DEF OutputIn
    <3>2. \A i \in DOMAIN t : i = 1 \/ i = 2
      BY <1>1
    <3>3. \A i \in DOMAIN t : OutputIn(t[i]) = 0
      BY <1>1, <3>1, <3>2
    <3>4. OutputOf(t) = Len(t) * 0
      BY <1>1, <3>3, OutputOfEach
    <3> QED BY <1>1, <3>4
  <2>2. OutputOf(p \o t) = OutputOf(p) + OutputOf(t) /\ OutputOf(p) \in Nat
    BY <1>1, OutputOfBoth
  <2>3. OutputOf(reply') = printed'
    BY <2>1, <2>2 DEF t
  <2> QED BY <2>3 DEF OutputSent
<1>5. ASSUME NEW i \in DOMAIN reply', reply'[i].type = "END_REQUEST" PROVE i = n + 2
  BY <1>1, <1>2, <1>3, <1>5
<1>6. ASSUME NEW j \in DOMAIN reply'
      PROVE  ~(j > n + 2) /\ (reply'[j].type = "STDOUT" => (reply'[j].len = 0 <=> j = n + 1))
  <2>1. j \in 1..n \/ j = n + 1 \/ j = n + 2
    BY <1>1, <1>2
  <2>2. CASE j \in 1..n
    BY <1>1, <1>2, <1>3, <2>2
  <2>3. CASE j = n + 1
    BY <1>1, <1>2, <2>3
  <2>4. CASE j = n + 2
    BY <1>1, <1>2, <2>4
  <2> QED BY <2>1, <2>2, <2>3, <2>4
<1>7. (n + 2) - 1 = n + 1
  BY <1>1
<1>8. Ended'
  <2> SUFFICES ASSUME NEW i \in DOMAIN reply', reply'[i].type = "END_REQUEST"
               PROVE  /\ (OutputSent = printed)'
                      /\ \A j \in DOMAIN reply' :
                           /\ j > i => reply'[j].type \notin OfRequest
                           /\ reply'[j].type = "STDOUT" =>
                                (reply'[j].len = 0 <=> j = i - 1)
    BY DEF Ended
  <2>1. i = n + 2
    BY <1>5
  <2> QED BY <1>4, <1>6, <1>7, <2>1
<1> QED BY <1>2, <1>8

\* What FCGX_Finish_r does to the reply.
LEMMA FinishReply ==
  ASSUME TInv, Standing, Answering, Finish, Serving
  PROVE  reply' \in Seq(Replies) /\ (Whole(reply') => Ended')
<1>1. PICK e \in WriteAll(reply, CloseOutput(err, 2)) :
        \E o \in WriteAll(e.reply, CloseOutput(out, 1)) : reply' = o.reply
  BY DEF Finish
<1>2. PICK o \in WriteAll(e.reply, CloseOutput(out, 1)) : reply' = o.reply
  BY <1>1
<1> DEFINE id == request.requestId
           ec == Content(err, id)
           ez == CloseRecords(err, id, 2)
           oc == Content(out, id)
           oz == CloseRecords(out, id, 1)
           E == CloseOutput(err, 2)
           O == CloseOutput(out, 1)
<1>3. /\ id \in 0..2 /\ Writable(out, "STDOUT") /\ Writable(err, "STDERR")
      /\ printed \in Nat /\ printed' = printed
  BY DEF TInv, Typed, Request, Finish
<1>4. reply \in Seq(Running) /\ reply \in Seq(Replies)
  BY DEF Answering
<1>5. /\ ec \in Seq(Running) /\ OutputOf(ec) = 0
      /\ oc \in Seq(Running) /\ OutputOf(oc) = out.wrNext - Header
  BY <1>3, ContentOf
<1>6. ez \in Seq(Running) /\ OutputOf(ez) = 0
  BY <1>3, CloseErrorOf
<1>7. PICK y \in Replies, z \in Replies :
        oz = <<y, z>> /\ y.type = "STDOUT" /\ y.len = 0 /\ z.type = "END_REQUEST"
  BY <1>3, CloseOutOf
<1> HIDE DEF ec, ez, oc, oz
<1>8. /\ ec \in Seq(Replies) /\ ez \in Seq(Replies) /\ oc \in Seq(Replies)
      /\ oz \in Seq(Replies)
  BY <1>5, <1>6, <1>7, RunningIn
<1>9. E \in Seq(Replies) /\ (Whole(E) => E = ec \o ez)
  BY <1>8, CloseOutputOf DEF ec, ez
<1>10. O \in Seq(Replies) /\ (Whole(O) => O = oc \o oz)
  BY <1>8, CloseOutputOf DEF oc, oz
<1> HIDE DEF E, O
<1>11. /\ e.reply \in Seq(Replies)
       /\ Whole(e.reply) =>
            /\ Whole(reply)
            /\ server.state = "open" => e.reply = reply \o E
            /\ server.state # "open" => e.reply = reply
  BY <1>1, <1>4, <1>9, WriteAllReply, RunningIn DEF E
<1>12. /\ reply' \in Seq(Replies)
       /\ Whole(reply') =>
            /\ Whole(e.reply)
            /\ server.state = "open" => reply' = e.reply \o O
            /\ server.state # "open" => reply' = e.reply
  <2> DEFINE mid == e.reply
  <2>1. o \in WriteAll(mid, O) /\ mid \in Seq(Replies) /\ Cut \in Replies
    BY <1>2, <1>11, RunningIn DEF O
  <2> HIDE DEF mid
  <2>2. /\ o.reply \in Seq(Replies)
        /\ Whole(o.reply) =>
             /\ Whole(mid)
             /\ server.state = "open" => o.reply = mid \o O
             /\ server.state # "open" => o.reply = mid
    BY <1>10, <2>1, WriteAllReply
  <2> QED BY <1>2, <2>2 DEF mid
<1>13. CASE Whole(reply') /\ server.state # "open"
  <2>1. reply' = reply
    BY <1>11, <1>12, <1>13
  <2>2. \A i \in DOMAIN reply : reply[i].type # "END_REQUEST"
    BY <1>4, ElementOfSeq DEF Running
  <2> QED BY <1>12, <2>1, <2>2 DEF Ended
<1>14. CASE Whole(reply') /\ server.state = "open"
  <2>1. e.reply = reply \o E /\ reply' = e.reply \o O /\ Whole(reply) /\ Whole(e.reply)
    BY <1>11, <1>12, <1>14
  <2>2. Whole(E)
    BY <1>4, <1>9, <2>1, WholeParts
  <2>3. Whole(O)
    BY <1>10, <1>11, <1>14, <2>1, WholeParts
  <2>4. E = ec \o ez /\ O = oc \o oz
    BY <1>9, <1>10, <2>2, <2>3
  <2>5. E \in Seq(Running) /\ OutputOf(E) = 0
    BY <1>5, <1>6, <1>8, <2>4, ConcatProperties, OutputOfBoth
  <2> DEFINE q == reply \o E
             p == q \o oc
  <2>6. q \in Seq(Running) /\ q \in Seq(Replies) /\ OutputOf(q) = OutputSent + 0
        /\ OutputSent \in Nat
    BY <1>4, <1>9, <2>5, ConcatProperties, OutputOfBoth DEF OutputSent
  <2> HIDE DEF q
  <2>7. p \in Seq(Running) /\ OutputOf(p) = OutputSent + 0 + (out.wrNext - Header)
    BY <1>5, <1>8, <2>6, ConcatProperties, OutputOfBoth
  <2>8. OutputSent + (out.wrNext - Header) = printed
    BY <1>14, <2>1 DEF Answering
  <2>9. OutputOf(p) = printed
    BY <2>6, <2>7, <2>8
  <2>10. reply' = p \o oz
    <3>1. reply' = q \o (oc \o oz)
      BY <2>1, <2>4, Zenon DEF q
    <3>2. (q \o oc) \o oz = q \o (oc \o oz)
      <4>1. \A a, b, c \in Seq(Replies) : (a \o b) \o c = a \o (b \o c)
        BY ONLY ConcatAssociative
      <4>2. q \in Seq(Replies) /\ oc \in Seq(Replies) /\ oz \in Seq(Replies)
        BY ONLY <1>8, <2>6
      <4> QED BY ONLY <4>1, <4>2, Zenon
    <3> QED BY <3>1, <3>2, Zenon
  <2> HIDE DEF p
  <2> QED BY <1>3, <1>7, <2>7, <2>9, <2>10, EndsWell
<1> QED BY <1>12, <1>13, <1>14

\* FCGX_Finish_r ends the reply, and the request with it.
LEMMA FinishAnswers == ASSUME TInv, Standing, Answering, Finish PROVE Answering'
<1>1. /\ Serving /\ pc' = "idle" /\ in'.buff = <<>> /\ header' = header
  BY NewReaderReadable DEF Finish, Standing
<1>2. PICK b \in BOOLEAN :
        /\ request' = [request EXCEPT !.nWriters = 0, !.ipcFd = ~b]
        /\ wire' = <<>> \/ wire' = wire
  BY FinishOf
<1>3. ~HasBegun' /\ ~Serving'
  <2>1. request'.nWriters = 0
    BY <1>2 DEF TInv, Typed, Request
  <2> QED BY <1>1, <2>1 DEF HasBegun, Serving
<1>4. OneOpening' /\ (Opening' => Opening)
  BY <1>1, <1>2, CellsTaken DEF Answering
<1>5. ~Opening'
  BY <1>1, <1>4, ServingHasBegun DEF Answering
<1>6. reply' \in Seq(Replies) /\ (Whole(reply') => Ended')
  BY <1>1, FinishReply
<1> QED BY <1>3, <1>4, <1>5, <1>6 DEF Answering

\* Only a new connection makes up for a header that nobody sent.
LEMMA ForgedStays ==
  ASSUME TInv, [Next]_vars, server.forged
  PROVE  Connect \/ server'.forged
<1>1. ServerOK
  BY DEF TInv, Typed
<1>2. server' = Dropped => server'.forged
  BY DEF Dropped, NewConnection
<1>3. server' = Kept => server'.forged
  BY <1>1, KeptTypes
<1>4. CASE UNCHANGED vars
  BY <1>4 DEF vars
<1>5. CASE Fill \/ Sigusr1
  BY <1>5 DEF Fill, FillRead, FillFails, FillContent, FillRest, Sigusr1
<1>6. CASE ProcessHeader /\ ~Misread
  BY <1>6 DEF ProcessHeader, ProtocolError, Multiplexed, ProcessContent, NestedTake,
              NestedClosed, UnknownManagement, OtherRequest, StreamRecord
<1>7. CASE Misread
  BY <1>1, <1>7 DEF Misread, ServerOK
<1>8. CASE AcceptLoop
  <2>1. \/ server' = server \/ server' = Dropped
        \/ server' = [server EXCEPT !.state = "forgotten", !.unsafe = TRUE]
    BY <1>8 DEF AcceptLoop, AcceptRequest, InitRequest, Accept, Begun, ReadParams,
                ParamsEnd, TryAgain
  <2> QED BY <1>1, <1>2, <2>1 DEF ServerOK
<1>9. CASE Serve
  <2>1. server' = server \/ server' = Dropped \/ server' = Kept
    BY <1>9, FinishOf DEF Serve, ReadBody, FPrintF, PrintError, Flush
  <2> QED BY <1>2, <1>3, <2>1
<1>10. CASE HangUp
  BY <1>1, <1>10 DEF HangUp, ServerOK
<1>11. CASE Send
  <2>1. PICK r, phase, at : Transmit(r, phase, at)
    BY <1>11 DEF Send, SendBegin, SendStream, SendManagement, SendAbort
  <2> QED BY <1>1, <2>1 DEF Transmit, ServerOK
<1> QED BY <1>4, <1>5, <1>6, <1>7, <1>8, <1>9, <1>10, <1>11
       DEF Next, Library, WebServer

\* Every step keeps the accounts of the reply.
LEMMA StepAnswers ==
  ASSUME TInv, Standing, Answering, [Next]_vars, ~Connect, ~Misread
  PROVE  Answering'
<1>1. CASE UNCHANGED vars
  <2>1. UNCHANGED <<header, in, request, pc, wire, server, out, printed, reply>>
    BY <1>1 DEF vars, lib, writer
  <2>2. OneOpening' /\ (Opening' => Opening)
    BY <2>1, CellsTaken DEF Answering
  <2>3. (HasBegun' <=> HasBegun) /\ (Serving' <=> Serving)
    BY <2>1 DEF HasBegun, Serving
  <2>4. Opening' \/ HasBegun' => server'.phase[1] # "begin"
    BY <2>1, <2>2, <2>3 DEF Answering
  <2> QED BY <2>1, <2>2, <2>3, <2>4, AnsweringStays
<1>2. CASE Serve
  BY <1>2, ReadBodyAnswers, FPrintFAnswers, PrintErrorAnswers, FlushAnswers, FinishAnswers
     DEF Serve
<1>3. CASE WebServer
  BY <1>3, HangUpAnswers, SendAnswers DEF WebServer
<1> QED BY <1>1, <1>2, <1>3, FillAnswers, ProcessHeaderAnswers, AcceptLoopAnswers,
           Sigusr1Answers DEF Next, Library

\* So the reply is accounted for as long as every header was one that was sent.
LEMMA StepKeeps ==
  ASSUME IInv, [Next]_vars
  PROVE  (server.forged \/ Answering)'
<1>1. CASE Connect
  BY <1>1, ConnectAnswers DEF IInv
<1>2. CASE Misread
  <2>1. server'.forged
    BY <1>2 DEF Misread, IInv, TInv, Typed, ServerOK
  <2> QED BY <2>1
<1>3. CASE server.forged /\ ~Connect
  BY <1>3, ForgedStays DEF IInv
<1>4. CASE ~server.forged /\ ~Connect /\ ~Misread
  BY <1>4, StepAnswers DEF IInv
<1> QED BY <1>1, <1>2, <1>3, <1>4

\* Nothing is on its way and nothing has been answered.
LEMMA InitAnswers == ASSUME Init PROVE Standing /\ Answering
<1>1. /\ pc = "idle" /\ caller = "begun" /\ header = <<>> /\ request = NoRequest
      /\ in.buff = <<>> /\ wire = <<>> /\ reply = <<>> /\ printed = 0
  BY NewReaderReadable DEF Init
<1>2. Standing
  BY <1>1 DEF Standing, Serving, NoRequest
<1>3. OneOpening /\ ~Opening
  BY <1>1, EmptyHas DEF OneOpening, Opening
<1>4. ~HasBegun /\ ~Serving
  BY <1>1 DEF HasBegun, Serving, NoRequest
<1>5. Ended /\ reply \in Seq(Replies)
  BY <1>1 DEF Ended
<1> QED BY <1>2, <1>3, <1>4, <1>5 DEF Answering

\* As long as no write was cut short, and no header was taken on the connection that
\* nobody sent, what the application has printed is on its way
\* to the web server or in the buffer of the stream, byte for byte; the end of the
\* request comes once, behind the end of the output, with nothing of the request
\* behind it and nothing missing: for every length of the buffer and of what is
\* printed, however many requests one connection carries, and whatever the library
\* answers in between.
THEOREM ReplyTheorem == Spec => []ReplyWhole
<1>1. Init => IInv
  BY InitTypes, InitAnswers DEF IInv
<1>2. IInv /\ [Next]_vars => IInv'
  BY StepTypes, StepStands, StepKeeps DEF IInv
<1>3. IInv => ReplyWhole
  <2> SUFFICES ASSUME TInv, Standing, Answering, Whole(reply) PROVE ReplyWhole
    BY DEF IInv, ReplyWhole, Whole
  <2>1. pc = "serve" /\ server.state = "open" =>
          OutputSent + (out.wrNext - Header) = printed
    BY DEF Standing, Answering
  <2>2. Ended
    BY DEF Answering
  <2> QED BY <2>1, <2>2 DEF ReplyWhole, Ended, OfRequest
<1> QED BY <1>1, <1>2, <1>3, PTL DEF Spec
=============================================================================
