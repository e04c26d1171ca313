------------------------------ MODULE FcgiApp ------------------------------
(***************************************************************************)
(* A FastCGI application on the library of proxy/fcgi: the web server, one *)
(* FCGX_Request, its reader and its two writers.                           *)
(*                                                                         *)
(* The application is one thread inside one call of the library at a time; *)
(* pc says how far that call is:                                           *)
(*   idle     outside the library, no request                              *)
(*   accept   at the top of the loop of FCGX_Accept_r                      *)
(*   fill     at the top of the loop of FillBuffProc                       *)
(*   header   in ProcessHeader                                             *)
(*   nested   ProcessHeader, back from a FillBuffProc of its own           *)
(*   begun    FCGX_Accept_r, back from its FillBuffProc                    *)
(*   params   ReadParams, back from FillBuffProc                           *)
(*   serve    outside the library, with a request                          *)
(* "caller" is where the outer FillBuffProc returns to, "header" the bytes *)
(* it has collected of the next header.                                    *)
(*                                                                         *)
(* The web server sends what the protocol allows: the records of request 1 *)
(* in order, those of a second request on the same connection, management  *)
(* records, padding, FCGI_ABORT_REQUEST; it may hang up at any time.  It   *)
(* begins request 1 first, and only request 1 is one for a responder, so   *)
(* that request 2 is never served.  MaxConnections bounds its connections, *)
(* MaxOdd what there is on each besides the records of a plain request 1   *)
(* (a request 2, a single other record, a padded record, that other bytes  *)
(* are taken for headers), MaxWire the cells on their way (the socket is   *)
(* full), MaxPrints the bytes after which the application prints no more   *)
(* on a request.                                                           *)
(*                                                                         *)
(* SIGUSR1, for which OS_LibInit installs a handler without SA_RESTART,    *)
(* may come at any time and again: it ends a read or write that waits with *)
(* EINTR and makes OS_Accept refuse from then on.                          *)
(*                                                                         *)
(* SlipPastContent (skip is not cleared) and SlipStreamRecord (the end of  *)
(* a stream is not delivered) are faults; no specification uses them.      *)
(***************************************************************************)
EXTENDS FcgiStreams

CONSTANTS MaxConnections, MaxOdd, MaxWire, MaxPrints, Writes

ASSUME BoundsAreNat ==
  {MaxConnections, MaxOdd, MaxWire, MaxPrints} \cup Writes \subseteq Nat

VARIABLES
  pc, caller, header,
  request,    \* FCGX_Request, without its streams
  in, out, err,
  env,        \* the bytes ReadParams has taken
  body,       \* the bytes of FCGI_STDIN the application has read
  wire,       \* cells sent and not yet read
  reply,      \* records the web server has got
  printed,    \* bytes of output the stream has taken (history)
  server,     \* the web server's end of the connection
  shutdownPending

lib    == <<pc, caller, header, request, in, env>>
writer == <<out, err>>
vars   == <<lib, writer, body, wire, reply, printed, server, shutdownPending>>

Ids == {1, 2}

\* FCGX_InitRequest.
NoRequest ==
  [ipcFd |-> FALSE, requestId |-> 0, isBeginProcessed |-> FALSE,
   keepConnection |-> FALSE, role |-> "NONE", nWriters |-> 0]

\* A connection as the web server opens it: "phase" is what it sends next for
\* a request, "at" how much of it went out, "unsafe" whether the library may
\* have lost its place (see Unsafe, Midway and InitRequest), "forged" whether
\* it has taken other bytes for a header since the connection was opened.  When
\* a new connection is opened a forgotten one is left out.
NewConnection(n) ==
  [state |-> "open", count |-> n, phase |-> [id \in Ids |-> "begin"],
   at |-> [id \in Ids |-> 0], odd |-> 0, unsafe |-> FALSE, forged |-> FALSE]

Init ==
  /\ pc = "idle" /\ caller = "begun" /\ header = <<>>
  /\ request = NoRequest
  /\ in = NewReader("NONE") /\ out = NewWriter("STDOUT") /\ err = NewWriter("STDERR")
  /\ env = <<>> /\ body = <<>> /\ wire = <<>> /\ reply = <<>>
  /\ printed = 0
  /\ server = [NewConnection(0) EXCEPT !.state = "none"]
  /\ shutdownPending = FALSE

----------------------------------------------------------------------------
(* The web server.                                                         *)

Connect ==
  /\ server.state \in {"none", "forgotten"} /\ server.count < MaxConnections
  /\ server' = NewConnection(server.count + 1)
  /\ wire' = <<>> /\ reply' = <<>>
  /\ UNCHANGED <<lib, writer, body, printed, shutdownPending>>

HangUp ==
  /\ server.state = "open"
  /\ server' = [server EXCEPT !.state = "hungup"]
  /\ UNCHANGED <<lib, writer, body, wire, reply, printed, shutdownPending>>

\* Records after which FillBuffProc is no longer where the web server thinks:
\* the padding that SetReaderType forgets, the content of an unknown management
\* record, which is delivered, and the flag "skip" that an empty record of
\* another request leaves behind.
Unsafe(r) ==
  \/ r.id = 1 /\ r.pad > 0 /\ (r.type = "BEGIN" \/ r.len = 0)
  \/ r.type = "UNKNOWN" /\ r.len > 0
  \/ r.id = 2 /\ r.len = 0

\* A record goes out; the odd ones, besides a plain request 1, are counted.
Transmit(r, phase, at) ==
  LET isOdd == \/ r.id = 0 \/ r.pad > 0 \/ r.type = "ABORT"
               \/ r.id = 2 /\ r.type = "BEGIN"
  IN  /\ Len(wire) + Len(Cells(r)) <= MaxWire
      /\ server.odd + (IF isOdd THEN 1 ELSE 0) <= MaxOdd
      /\ wire' = wire \o Cells(r)
      /\ server' = [server EXCEPT !.phase = phase, !.at = at,
                      !.odd = @ + (IF isOdd THEN 1 ELSE 0),
                      !.unsafe = @ \/ Unsafe(r)]

\* The next request on a kept connection follows the answer to the last one.
Answered ==
  \E i \in DOMAIN reply : reply[i].type = "END_REQUEST" /\ reply[i].id = 1

SendBegin(id, pad) ==
  /\ \/ server.phase[id] = "begin" /\ (id = 1 \/ server.phase[1] # "begin")
     \/ id = 1 /\ server.phase[1] = "done" /\ Answered
  /\ \E role \in {"RESPONDER", "OTHER"}, keep \in BOOLEAN :
       /\ id = 2 => role = "OTHER"
       /\ role = "OTHER" => ~keep            \* nobody looks at it
       /\ Transmit(BeginRequest(id, pad, role, keep),
                   [server.phase EXCEPT ![id] = "PARAMS"],
                   [server.at EXCEPT ![id] = 0])
  /\ reply' = IF id = 1 THEN <<>> ELSE reply

\* A part of a stream of the request, or its end.  Request 2 has one stream:
\* nobody looks at it.
SendStream(id, pad) ==
  LET type  == server.phase[id]
      bytes == IF type = "PARAMS" THEN ParamBytes ELSE BodyBytes
      at    == server.at[id]
      after == IF type = "PARAMS" /\ id = 1 THEN "STDIN" ELSE "done"
  IN  /\ type \in {"PARAMS", "STDIN"}
      /\ \E n \in 0..(Len(bytes) - at) :
           /\ n = 0 => at = Len(bytes)
           /\ Transmit(Record(type, id, n, pad, at),
                       IF n = 0 THEN [server.phase EXCEPT ![id] = after]
                                ELSE server.phase,
                       [server.at EXCEPT ![id] = IF n = 0 THEN 0 ELSE at + n])
      /\ UNCHANGED reply

\* Management records have the request id 0.  The names asked for are whole
\* pairs, the shortest of them two bytes.
SendManagement(pad) ==
  /\ \/ \E n \in {0, 2} : Transmit(Record("GET_VALUES", 0, n, pad, 0),
                                   server.phase, server.at)
     \/ \E n \in {0, 1} : Transmit(Record("UNKNOWN", 0, n, pad, 0),
                                   server.phase, server.at)
  /\ UNCHANGED reply

SendAbort ==
  /\ server.phase[1] \in {"PARAMS", "STDIN"}
  /\ Transmit(Record("ABORT", 1, 0, 0, 0), server.phase, server.at)
  /\ UNCHANGED reply

Send ==
  /\ server.state = "open"
  /\ \E pad \in {0, 1} :
       \/ \E id \in Ids : SendBegin(id, pad)
       \/ \E id \in Ids : SendStream(id, pad)
       \/ SendManagement(pad)
       \/ pad = 0 /\ SendAbort
  /\ UNCHANGED <<lib, writer, body, printed, shutdownPending>>

\* The connection is closed by the library; what was answered was answered.
Dropped ==
  [NewConnection(server.count) EXCEPT !.state = "none", !.forged = server.forged]

\* Where a write ended early, in the middle of a record or before one.
Cut == [type |-> "CUT", id |-> 0, len |-> 0, pad |-> 0]

\* write_it_all of some records: they go out, to nobody when the web server has
\* gone; or the write fails because of that or of a signal.
WriteAll(before, records) ==
  LET sent(k) == IF server.state = "open" THEN before \o First(records, k) ELSE before
  IN  { [ok |-> TRUE, reply |-> sent(Len(records)), signal |-> FALSE] }
      \cup { [ok |-> FALSE, reply |-> before, signal |-> FALSE] :
               k \in IF server.state = "open" \/ records = <<>> THEN {} ELSE {0} }
      \cup { [ok |-> FALSE, reply |-> Append(sent(k), Cut), signal |-> TRUE] :
               k \in 0..(Len(records) - 1) }

----------------------------------------------------------------------------
(* FillBuffProc.  An iteration of its loop is an action.                   *)

Returns == IF in.eorStop THEN "nested" ELSE caller

\* An empty buffer is filled from the socket, first thing in an iteration.
FillRead ==
  /\ pc = "fill" /\ in.buff = <<>> /\ wire # <<>>
  /\ \E n \in 1..Len(wire) :
       /\ in' = [in EXCEPT !.buff = First(wire, n)]
       /\ wire' = Drop(wire, n)
  /\ UNCHANGED <<pc, caller, header, request, env, body, writer, reply, printed,
                 server, shutdownPending>>

\* The end of the connection is an error of the stream; so is EINTR.  The bytes
\* of a header that are there are forgotten, but not those of an outer call.
ReadError ==
  /\ in' = SetError(in) /\ pc' = Returns
  /\ header' = IF in.eorStop THEN header ELSE <<>>

FillFails ==
  /\ pc = "fill" /\ in.buff = <<>> /\ wire = <<>> /\ server.state = "hungup"
  /\ ReadError
  /\ UNCHANGED <<caller, request, env, body, wire, writer, reply, printed,
                 server, shutdownPending>>

\* OS_Sigusr1Handler, while the library waits for input, or before it accepts:
\* only OS_Accept asks for the flag.
Sigusr1 ==
  /\ shutdownPending' = TRUE
  /\ \/ pc = "fill" /\ in.buff = <<>> /\ wire = <<>> /\ ReadError
     \/ pc \in {"idle", "accept"} /\ UNCHANGED <<pc, in, header>>
  /\ UNCHANGED <<caller, request, env, body, wire, writer, reply, printed,
                 server>>

\* What is in the buffer of the content of the record is delivered...
FillContent ==
  /\ pc = "fill" /\ in.buff # <<>> /\ in.contentLen > 0 /\ ~in.skip
  /\ LET count == Least(in.contentLen, Len(in.buff))
     IN  in' = [in EXCEPT !.stop = count, !.contentLen = @ - count]
  /\ pc' = Returns
  /\ UNCHANGED <<caller, header, request, env, body, wire, writer, reply, printed,
                 server, shutdownPending>>

\* ... or passed over; "skip" is cleared only here, with the last byte.
SlipPastContent(s) ==
  LET count == Least(s.contentLen, Len(s.buff))
  IN  [s EXCEPT !.buff = Drop(s.buff, count), !.contentLen = @ - count]
PastContent(s) ==
  LET count == Least(s.contentLen, Len(s.buff))
  IN  [s EXCEPT !.buff = Drop(s.buff, count), !.contentLen = @ - count,
                !.skip = @ /\ (s.contentLen = 0 \/ count < s.contentLen)]

PastPadding(s) ==
  LET count == Least(s.paddingLen, Len(s.buff))
  IN  [s EXCEPT !.buff = Drop(s.buff, count), !.paddingLen = @ - count]

\* The rest of the iteration: the record is passed over as far as it is there,
\* and when it ends a nested call delivers EOF, the outer one collects bytes of
\* the next header.
FillRest ==
  /\ pc = "fill" /\ in.buff # <<>> /\ (in.contentLen = 0 \/ in.skip)
  /\ LET past  == PastPadding(PastContent(in))
         whole == PastContent(in).contentLen = 0 /\ past.paddingLen = 0
         count == Least(HeaderLen - Len(header), Len(past.buff))
         next  == [past EXCEPT !.buff = Drop(past.buff, count), !.stop = 0]
     IN  \/ /\ PastContent(in).contentLen > 0
            /\ in' = PastContent(in) /\ UNCHANGED <<pc, header>>
         \/ /\ PastContent(in).contentLen = 0 /\ past.paddingLen > 0
            /\ in' = past /\ UNCHANGED <<pc, header>>
         \/ /\ whole /\ in.eorStop
            /\ in' = [past EXCEPT !.stop = 0, !.isClosed = TRUE]
            /\ pc' = "nested" /\ UNCHANGED header
         \/ /\ whole /\ ~in.eorStop
            /\ header' = header \o First(past.buff, count)
            /\ IF Len(header') < HeaderLen
                 THEN in' = next /\ UNCHANGED pc
                 ELSE in' = [next EXCEPT !.eorStop = TRUE] /\ pc' = "header"
  /\ UNCHANGED <<caller, request, env, body, wire, writer, reply, printed,
                 server, shutdownPending>>

----------------------------------------------------------------------------
(* ProcessHeader, and what FillBuffProc does with its answer.              *)

\* Bytes that are no header's and begin with FCGI_VERSION_1 announce a record
\* nobody sent; ProcessHeader goes on with it as with any other.
Misread ==
  /\ pc = "header" /\ ~IsHeader(header) /\ (server.forged \/ server.odd < MaxOdd)
  /\ \E r \in Forgeries : header' = First(Cells(r), HeaderLen)
  /\ server' = [server EXCEPT !.forged = TRUE,
                              !.odd = IF server.forged THEN @ ELSE @ + 1]
  /\ UNCHANGED <<pc, caller, request, in, env, body, wire, writer, reply, printed,
                 shutdownPending>>

\* The record of the header that was read.
Current == header[1].of
Announced == [in EXCEPT !.contentLen = Current.len, !.paddingLen = Current.pad]

\* FillBuffProc, back from ProcessHeader.
Back(s) == [s EXCEPT !.eorStop = FALSE, !.isClosed = FALSE]

\* A protocol error or a failed write ends the stream.
EndsInError(s) ==
  /\ in' = SetError(Back(s)) /\ pc' = caller /\ header' = <<>>

\* SKIP, MGMT_RECORD and STREAM_RECORD with content: the loop goes on.
GoesOn(s) ==
  /\ in' = Back(s) /\ pc' = "fill" /\ header' = <<>>

\* A version that is not 1, a BEGIN_REQUEST of the wrong form, or a record of
\* the request that is not of the stream being read.
ProtocolError ==
  /\ pc = "header"
  /\ LET r == Current
         badBegin  == r.type = "BEGIN" /\ (r.id = 0 \/ r.len # BeginLen)
         wrongType == /\ r.type # "BEGIN" /\ r.id # 0
                      /\ r.id = request.requestId /\ r.type # in.type
     IN  IF ~IsHeader(header) THEN EndsInError(in)
         ELSE (badBegin \/ wrongType) /\ EndsInError(Announced)
  /\ UNCHANGED <<caller, request, env, body, wire, writer, reply, printed,
                 server, shutdownPending>>

\* ProcessBeginRecord: a second request is refused; the body of the first one,
\* and the values a web server asks for, are read from the stream.
Multiplexed ==
  /\ pc = "header" /\ IsHeader(header)
  /\ Current.type = "BEGIN" /\ Current.id # 0 /\ Current.len = BeginLen
  /\ request.isBeginProcessed
  /\ \E w \in WriteAll(reply, << [type |-> "CANT_MPX_CONN", id |-> Current.id,
                                  len |-> 8, pad |-> 0] >>) :
       /\ IF w.ok THEN GoesOn([Announced EXCEPT !.skip = TRUE])
                  ELSE EndsInError(Announced)
       /\ reply' = w.reply
       /\ shutdownPending' = (shutdownPending \/ w.signal)
  /\ UNCHANGED <<caller, request, env, body, wire, writer, printed, server>>

ReadsContent ==
  \/ /\ Current.type = "BEGIN" /\ Current.id # 0 /\ Current.len = BeginLen
     /\ ~request.isBeginProcessed
  \/ Current.type = "GET_VALUES"

ProcessContent ==
  /\ pc = "header" /\ IsHeader(header) /\ ReadsContent
  /\ in' = Announced /\ pc' = "fill"
  /\ request' = IF Current.type = "BEGIN"
                  THEN [request EXCEPT !.requestId = Current.id] ELSE request
  /\ UNCHANGED <<caller, header, env, body, wire, writer, reply, printed,
                 server, shutdownPending>>

\* FCGX_GetStr in ProcessBeginRecord, ReadParams in ProcessManagementRecord.
NestedTake ==
  /\ pc = "nested" /\ in.stop > 0
  /\ IF Current.type = "BEGIN" /\ in.contentLen = 0
       THEN /\ in' = Back(Taken(in)) /\ pc' = caller /\ header' = <<>>
            /\ request' = [request EXCEPT !.isBeginProcessed = TRUE,
                              !.keepConnection = Current.keep, !.role = Current.role]
       ELSE in' = Taken(in) /\ pc' = "fill" /\ UNCHANGED <<header, request>>
  /\ UNCHANGED <<caller, env, body, wire, writer, reply, printed,
                 server, shutdownPending>>

NestedClosed ==
  /\ pc = "nested" /\ in.stop = 0
  /\ IF Current.type = "GET_VALUES" /\ ~in.FCGI_errno /\ in.contentLen = 0
       THEN \E w \in WriteAll(reply, << [type |-> "GET_VALUES_RESULT", id |-> 0,
                                         len |-> 0, pad |-> 0] >>) :
              /\ IF w.ok THEN GoesOn(in) ELSE EndsInError(in)
              /\ reply' = w.reply
              /\ shutdownPending' = (shutdownPending \/ w.signal)
       ELSE EndsInError(in) /\ UNCHANGED <<reply, shutdownPending>>
  /\ UNCHANGED <<caller, request, env, body, wire, writer, printed, server>>

\* Management records the library does not know; their content is not read.
UnknownManagement ==
  /\ pc = "header" /\ IsHeader(header) /\ Current.type = "UNKNOWN"
  /\ \E w \in WriteAll(reply, << [type |-> "UNKNOWN_TYPE", id |-> 0,
                                  len |-> 8, pad |-> 0] >>) :
       /\ IF w.ok THEN GoesOn(Announced) ELSE EndsInError(Announced)
       /\ reply' = w.reply
       /\ shutdownPending' = (shutdownPending \/ w.signal)
  /\ UNCHANGED <<caller, request, env, body, wire, writer, printed, server>>

\* A record of another request is passed over.
OtherRequest ==
  /\ pc = "header" /\ IsHeader(header)
  /\ Current.type # "BEGIN" /\ Current.id \notin {0, request.requestId}
  /\ GoesOn([Announced EXCEPT !.skip = TRUE])
  /\ UNCHANGED <<caller, request, env, body, wire, writer, reply, printed,
                 server, shutdownPending>>

SlipStreamRecord ==
  /\ pc = "header" /\ IsHeader(header)
  /\ Current.type = in.type /\ Current.id = request.requestId
  /\ GoesOn(Announced)
  /\ UNCHANGED <<caller, request, env, body, wire, writer, reply, printed,
                 server, shutdownPending>>

\* A record of the stream; an empty one is its end.
StreamRecord ==
  /\ pc = "header" /\ IsHeader(header)
  /\ Current.type = in.type /\ Current.id = request.requestId
  /\ IF Current.len = 0
       THEN /\ in' = [Back(Announced) EXCEPT !.isClosed = TRUE]
            /\ pc' = caller /\ header' = <<>>
       ELSE GoesOn(Announced)
  /\ UNCHANGED <<caller, request, env, body, wire, writer, reply, printed,
                 server, shutdownPending>>

----------------------------------------------------------------------------
(* FCGX_Accept_r.                                                          *)

\* The application asks for a request: with a request structure it has used
\* before, or, as process_fastcgi_request does, with a new one.
AcceptRequest ==
  /\ pc = "idle" /\ pc' = "accept" /\ UNCHANGED request
  /\ UNCHANGED <<caller, header, in, env, body, wire, writer, reply, printed,
                 server, shutdownPending>>

\* FCGX_InitRequest forgets the descriptor of a connection that was kept: it
\* stays open with what is on its way, is never read again, and the web server
\* learns nothing.  What it goes on sending there is left out.
InitRequest ==
  /\ pc = "idle" /\ request # NoRequest
  /\ request' = NoRequest
  /\ server' = IF request.ipcFd
                 THEN [server EXCEPT !.state = "forgotten", !.unsafe = TRUE]
                 ELSE server
  /\ UNCHANGED <<pc, caller, header, in, env, body, wire, writer, reply, printed,
                 shutdownPending>>

StartsReading ==
  /\ in' = NewReader("NONE") /\ pc' = "fill" /\ caller' = "begun" /\ header' = <<>>

\* is_af_unix_keeper: something can be read within two seconds.
IsUnixKeeper == wire # <<>> \/ server.state = "hungup"

\* OS_Accept: refuses after SIGUSR1, and gives a connection up that is not worth
\* keeping.
Accept ==
  /\ pc = "accept"
  /\ \/ /\ request.ipcFd
        /\ StartsReading /\ UNCHANGED server
     \/ /\ ~request.ipcFd /\ shutdownPending
        /\ pc' = "idle" /\ UNCHANGED <<in, caller, header, server>>
     \/ /\ ~request.ipcFd /\ ~shutdownPending
        /\ server.state \in {"open", "hungup"}
        /\ IF IsUnixKeeper
             THEN StartsReading /\ UNCHANGED server
             ELSE server' = Dropped /\ UNCHANGED <<pc, in, caller, header>>
  /\ request' = IF pc' = "fill"
                  THEN [request EXCEPT !.ipcFd = TRUE, !.isBeginProcessed = FALSE]
                  ELSE request
  /\ UNCHANGED <<env, body, wire, writer, reply, printed,
                 shutdownPending>>

\* TryAgain: FCGX_Free closes the connection.
TryAgain ==
  /\ pc' = "accept" /\ in' = NewReader("NONE") /\ wire' = <<>>
  /\ request' = [request EXCEPT !.ipcFd = FALSE] /\ server' = Dropped
  /\ env' = <<>> /\ UNCHANGED <<caller, header, writer>>

\* Back from FillBuffProc: the request has begun or it has not.
Begun ==
  /\ pc = "begun"
  /\ IF request.isBeginProcessed /\ request.role = "RESPONDER"
       THEN /\ in' = SetReaderType(in, "PARAMS") /\ env' = <<>>
            /\ pc' = "fill" /\ caller' = "params"
            /\ UNCHANGED <<header, request, wire, writer, server>>
       ELSE TryAgain
  /\ UNCHANGED <<body, reply, printed, shutdownPending>>

\* ReadParams takes what there is, until the stream is closed.
ReadParams ==
  /\ pc = "params" /\ in.stop > 0
  /\ env' = env \o Delivered(in) /\ in' = Taken(in) /\ pc' = "fill"
  /\ UNCHANGED <<caller, header, request, body, wire, writer, reply, printed,
                 server, shutdownPending>>

\* The end of the stream, for whatever reason; what has been read has to be
\* whole pairs, and nothing else is asked.  Bytes of headers read as parameters
\* may be pairs or not.
ParamsEnd ==
  /\ pc = "params" /\ in.stop = 0
  /\ \E whole \in IF server.forged THEN BOOLEAN ELSE {WholePairs(env)} :
       IF whole
         THEN /\ in' = SetReaderType(in, "STDIN") /\ pc' = "serve" /\ caller' = "serve"
              /\ out' = NewWriter("STDOUT") /\ err' = NewWriter("STDERR")
              /\ request' = [request EXCEPT !.nWriters = 2] /\ printed' = 0
              /\ UNCHANGED <<header, env, wire, server>>
         ELSE TryAgain /\ UNCHANGED printed
  /\ UNCHANGED <<body, reply, shutdownPending>>

----------------------------------------------------------------------------
(* The application with a request.                                         *)

\* FCGX_GetStr or FCGX_GetChar on the input.
ReadBody ==
  /\ pc = "serve" /\ ~in.isClosed
  /\ IF in.stop > 0
       THEN body' = body \o Delivered(in) /\ in' = Taken(in) /\ UNCHANGED pc
       ELSE pc' = "fill" /\ UNCHANGED <<in, body>>
  /\ UNCHANGED <<caller, header, request, env, wire, writer, reply, printed,
                 server, shutdownPending>>

\* FCGX_FPrintF to the output: the pieces of the format go to the stream one
\* after the other, n bytes in all.
FPrintF ==
  /\ pc = "serve" /\ printed < MaxPrints
  /\ \E n \in Writes :
       \E w \in WriteAll(reply, PutRecords(out, n, request.requestId)) :
         /\ out' = IF w.ok THEN PutStr(out, n)
                   ELSE Failed([out EXCEPT !.wrNext = BuffLen])
         /\ reply' = w.reply
         /\ shutdownPending' = (shutdownPending \/ w.signal)
         /\ printed' = IF w.ok /\ ~out.isClosed THEN printed + n ELSE printed
  /\ UNCHANGED <<lib, err, body, wire, server>>

\* A message about the input on the error stream, which fits its buffer.
PrintError ==
  /\ pc = "serve" /\ in.isClosed /\ err.wrNext = Header
  /\ err' = PutStr(err, 1)
  /\ UNCHANGED <<lib, out, body, wire, reply, printed, server, shutdownPending>>

\* FCGX_FFlush.
Flush ==
  /\ pc = "serve" /\ ~out.isClosed /\ out.wrNext > Header
  /\ \E w \in WriteAll(reply, Content(out, request.requestId)) :
       /\ out' = IF w.ok THEN Emptied(out) ELSE Failed(out)
       /\ reply' = w.reply
       /\ shutdownPending' = (shutdownPending \/ w.signal)
  /\ UNCHANGED <<lib, err, body, wire, printed, server>>

\* FCGX_FClose of a writer: its content, whatever became of it before, and its
\* closing records.  A closed stream does not empty its buffer for them.
CloseOutput(w, nWriters) ==
  LET content == Content(w, request.requestId)
      closing == CloseRecords(w, request.requestId, nWriters)
      room    == BuffLen - Header - AlignInt8(w.wrNext - Header)
      fits    == IF room < Header THEN 0
                 ELSE IF Len(closing) > 1 /\ room < 3 * Header THEN 1 ELSE Len(closing)
  IN  IF w.isClosed /\ content # <<>> /\ fits < Len(closing)
        THEN Append(content \o First(closing, fits), Cut)
        ELSE content \o closing

\* The connection stays open, wherever it is in the records.
Midway(cells) == cells # <<>> /\ cells[1].at # 1
Kept == [server EXCEPT !.unsafe = @ \/ Midway(wire)]

\* FCGX_Finish_r and FCGX_Free: the error stream is closed first; the
\* connection stays open when the web server asked for it and nothing failed.
Finish ==
  /\ pc = "serve" /\ pc' = "idle"
  /\ \E e \in WriteAll(reply, CloseOutput(err, 2)) :
       \E o \in WriteAll(e.reply, CloseOutput(out, 1)) :
         LET failed == ~e.ok \/ ~o.ok \/ err.FCGI_errno \/ out.FCGI_errno
                       \/ in.FCGI_errno
             close  == ~request.keepConnection \/ failed
         IN  /\ ~(e.signal /\ o.signal)
             /\ reply' = o.reply
             /\ shutdownPending' = (shutdownPending \/ e.signal \/ o.signal)
             /\ request' = [request EXCEPT !.nWriters = 0, !.ipcFd = ~close]
             /\ IF close THEN server' = Dropped /\ wire' = <<>>
                         ELSE server' = Kept /\ UNCHANGED wire
  /\ in' = NewReader("NONE") /\ env' = <<>> /\ body' = <<>>
  /\ out' = NewWriter("STDOUT") /\ err' = NewWriter("STDERR")
  /\ UNCHANGED <<caller, header, printed>>

----------------------------------------------------------------------------
Fill == FillRead \/ FillFails \/ FillContent \/ FillRest
ProcessHeader ==
  \/ ProtocolError \/ Misread \/ Multiplexed \/ ProcessContent
  \/ NestedTake \/ NestedClosed \/ UnknownManagement \/ OtherRequest \/ StreamRecord
AcceptLoop ==
  AcceptRequest \/ InitRequest \/ Accept \/ Begun \/ ReadParams \/ ParamsEnd
Serve == ReadBody \/ FPrintF \/ PrintError \/ Flush \/ Finish

Library == Fill \/ ProcessHeader \/ AcceptLoop \/ Serve
WebServer == Connect \/ HangUp \/ Send

Next == WebServer \/ Library \/ Sigusr1
Spec == Init /\ [][Next]_vars

\* The thread of the application takes a step whenever it can.
FairSpec == Spec /\ WF_vars(Library)

----------------------------------------------------------------------------
(* Correctness.                                                            *)

Cell == [of : Records, at : Nat \ {0}]
Reader ==
  [buff : Seq(Cell), stop : Nat, type : {"NONE", "PARAMS", "STDIN"},
   eorStop : BOOLEAN, skip : BOOLEAN, contentLen : Nat, paddingLen : Nat,
   isClosed : BOOLEAN, FCGI_errno : BOOLEAN]
Writer(type) ==
  [type : {type}, wrNext : Header..BuffLen, stop : {BuffLen}, isClosed : BOOLEAN,
   FCGI_errno : BOOLEAN, isAnythingWritten : BOOLEAN]

\* Types.  A writer stays within its buffer, with room for the padding that
\* EmptyBuffProc adds; a reader delivers what it has.
TypeOK ==
  /\ pc \in {"idle", "accept", "fill", "header", "nested", "begun", "params", "serve"}
  /\ caller \in {"begun", "params", "serve"} /\ header \in Seq(Cell)
  /\ request \in [ipcFd : BOOLEAN, requestId : 0..2, isBeginProcessed : BOOLEAN,
                  keepConnection : BOOLEAN, role : {"NONE", "RESPONDER", "OTHER"},
                  nWriters : {0, 2}]
  /\ in \in Reader /\ in.stop <= Len(in.buff)
  /\ out \in Writer("STDOUT") /\ err \in Writer("STDERR")
  /\ \A w \in {out, err} : Header + AlignInt8(w.wrNext - Header) <= BuffLen
  /\ env \in Seq(0..255) /\ body \in Seq(0..255)
  /\ wire \in Seq(Cell) /\ printed \in Nat /\ shutdownPending \in BOOLEAN

Starts(bytes) == { First(bytes, n) : n \in 0..Len(bytes) }

\* What FillBuffProc delivers is what the web server sent, each byte once, in
\* order, in the right stream, to the end: however the reads cut the records,
\* and whatever other records lie between.  Until the web server has sent a
\* record after which the library loses its place (Unsafe), or the application
\* has finished a request whose connection is kept in the middle of a record:
\* what is left of it is then taken for headers.
InputIntact ==
  ~server.unsafe =>
    /\ pc = "params" => env \in Starts(ParamBytes)
    /\ pc = "serve" /\ ~in.FCGI_errno =>
         /\ env = ParamBytes /\ body \in Starts(BodyBytes)
         /\ in.isClosed => body = BodyBytes

\* The bytes of output in a list of records.
OutputIn(r) == IF r.type = "STDOUT" THEN r.len ELSE 0
OutputOf(records) ==
  LET sum[i \in 0..Len(records)] ==
        IF i = 0 THEN 0 ELSE sum[i - 1] + OutputIn(records[i])
  IN  sum[Len(records)]
OutputSent == OutputOf(reply)

\* EmptyBuffProc, WriteCloseRecords and FCGX_PutStr together: as long as no
\* write was cut short and no header was one nobody sent, all that was printed is
\* on its way or in the buffer; the end of the request comes once, after the end
\* of the output and of the errors, with nothing of the request behind it and
\* nothing missing.
ReplyWhole ==
  ~server.forged /\ (\A i \in DOMAIN reply : reply[i].type # "CUT") =>
    /\ pc = "serve" /\ server.state = "open" =>
         OutputSent + (out.wrNext - Header) = printed
    /\ \A i \in DOMAIN reply : reply[i].type = "END_REQUEST" =>
         /\ OutputSent = printed
         /\ \A j \in DOMAIN reply :
              /\ j > i => reply[j].type \notin {"STDOUT", "STDERR", "END_REQUEST"}
              /\ reply[j].type = "STDOUT" => (reply[j].len = 0 <=> j = i - 1)

\* Nothing is on its way, and no request whose parameters are all sent waits for
\* its answer: the library owes the web server nothing.
ItsTurn ==
  wire = <<>> /\ (server.phase[1] \in {"STDIN", "done"} => Answered)

\* What the web server sends is read until a request is served, and when it has
\* sent all parameters of a request and waits it is served, or the connection is
\* closed: nothing it has sent before keeps FillBuffProc from getting there.
\* Unless it hangs up, the process is told to end, the library has taken other
\* bytes for a header, or FCGX_InitRequest has forgotten the connection with
\* what was on it.
GivenUp ==
  \/ server.state \in {"none", "hungup", "forgotten"}
  \/ server.forged \/ shutdownPending
Served == []<>(ItsTurn \/ in.type = "STDIN" \/ GivenUp)
=============================================================================
