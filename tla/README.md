# A TLA+ model of CoAPXY

CoAPXY is a proxy between the web and CoAP nodes: a small C library (`coap/`:
messages, client, server, resource directory, cache) and a proxy process
(`proxy/`) that lets browsers watch the resources of nodes over WebSocket and
web servers ask for them over FastCGI. This directory holds TLA+ modules that
model it, TLC configurations that check them on small instances, and proofs for
all instances.

## 1. The system

The proxy is **one thread around one `select` loop** (`serve`, `proxy/main.c:284`).
What is concurrent is everything around it: nodes, browsers, the web server and a
datagram network that loses, repeats and reorders.

```
 browser --WebSocket--+                       +--CoAP/UDP (client socket)-- node
 web server --FastCGI-+--> serve() select loop+--CoAP/UDP (server socket)-- node
                           client | server | fcgi | websocket
                              \       |        /        /
                    pending queue   resource directory (entries -> observers)
```

### Components

| Component | State | Operations | Interacts with | Hard parts | What makes it correct |
|---|---|---|---|---|---|
| List (`coap_list.c`) | nodes: key, data; one embedded iterator | insert, get, delete, iterate, clean | everything | keys compared by prefix; insertion "at the end" is behind the first node; binary keys end at NUL | the right node is found, removed once; nothing else moves |
| CoAP client (`coap_client.c`) | pending queue, dispatch queue, message id, token | send, read, dispatch, clean_pending | calls `response_received` of its owner in the middle of dispatch | lost/repeated/reordered answers, counter wrap, retransmission, deletion while iterating | answers reach the request they belong to, requests end |
| Context (`coap_context.c`) | socket, queues, counters; pending record | read, send, record create/delete | client, server, connection | deleting a record frees a connection others may hold | no use after free |
| Proxy loop (`main.c`) | socket set, directory, client | four turns per round | all | blocking calls in a select loop, whose failure nobody looks at; one observation shared by many browsers | no socket starves; one observation per entry; everybody gets every notification |
| Connection, WebSocket (`connection.c`, `websocket.c`) | type, socket | create, delete, response_send; handshake, frames | loop, client callback | silent or closed browsers | frames to the right browser, once |
| Resource directory (`coap_rd.c`, `coap_server.c` 537-695) | entries, each with observers | POST, GET, PUT, DELETE | server, proxy | duplicate names; observers taken for resources | one entry per name |
| CoAP server (`coap_server.c`) | resources, observe relations, dispatch queue | read, dispatch, notify, clean_pending | context, RD, inner client | redelivery, expiry, observer identity | each request answered once; relations end |
| CoAP-to-CoAP proxying (`coap_server.c` 60-98, 277-372) | list of proxied requests by token | forward, relay | inner client | token rewriting, inner socket | the answer goes to who asked |
| PDU, options (`coap_pdu.c`, `coap_option.c`) | header, sorted options, payload | write, read, insert, unset, parse | all | lengths 14/15/16, deltas, signed bytes | read(write(p)) = p |
| Cache (`coap_cache.c`) | Berkeley DB: MD5 of request -> packet | add, get, revalidate, delete | nobody at this commit | freshness | what is served is fresh |
| Persistence (`main.c` 232-282, 366-525) | SQLite tables | update_rd, get_resource_directory, rebuild | RD, restart | errors that look like the end of a table, restart | what was read of the table is what the directory opens with |
| FastCGI streams and requests (`fcgi/fcgiapp.c`, `os_unix.c` 960-1240) | a reader and two writers per request, the place in the record, the request's flags | FCGX_Accept_r, the reads of a stream, PutStr, FFlush, FCGX_Finish_r, SIGUSR1 | the web server over a socket, the loop | records cut anywhere, mixed and padded, nested reads, hang-up, signals | the application reads what was sent, the reply is whole, a complete request is served |
| FastCGI asynchronous I/O (`fcgi/os_unix.c` 571-920) | the table of operations, four descriptor sets, two counts, the highest descriptor | OS_AsyncRead, ReadStdin, Write, OS_Close, OS_CloseRead, OS_DoIo | callbacks of the program | callbacks change what the loop works on; descriptor numbers come back | every operation is called back or given up, none is begun where it has to wait |
| Resources, link format (`coap_resource.c`) | path, attributes | create, link | server | - | the list of links |
| FastCGI stdio (`fcgi_stdio.c`), proxy resources (`proxy/resource.c`), examples | - | wrappers, command lines | - | - | - |

`PROJECT.json` lists the hazards of this code line by line; the properties below
were chosen from that list.

## 2. Modules

| Module | Models |
|---|---|
| `CoapList` | `coap_list.c`: a list is a sequence of records with a `key`; `NodeGet`, `NodeDelete`, `NodeInsert`. Also the two kinds of key in use: bytes of an id (`IdKey`) and digits of a token (`TokenKey`). |
| `CoapClient` | `coap_client.c` as operators on a pending queue and two counters: `Stamp`/`Advance` (send), `Dispatch`, `CleanPending`. |
| `ObserveProxy` | the process of `proxy/main.c` with its surroundings: state, actions, properties. |
| `ObserveProxyClaims` | statements of comments and documents that the code does not keep. |
| `MCObserveProxy` | constants of the small instances. |
| `PduCodec` | `coap_pdu.c`, `coap_option.c`: the option list of a message, `coap_pdu_request`, the packet writer and the packet reader, one option per step. |
| `PduCodecClaims`, `MCPduCodec` | what the headers say of options and the code does not keep; constants of the small instances. |
| `PubSub` | the abstract promise of the proxy: topics, subscribers, a notification to all of one topic at once, an answer to one subscriber. `ObserveProxy` implements it. |
| `CoapServer`, `MCCoapServer` | `coap_server.c` with `coap_rd.c` and the tables read at a start: one datagram read, then the loop over the dispatch queue, each branch an action. Uses `CoapClient` for the inner client. |
| `Directory` | the abstract resource directory: open, close, register, remove, update; it tells its clients of each registration that comes or goes. `CoapServer` implements it. |
| `FcgiStreams` | the streams of `fcgiapp.c` as records: reader, writer, name-value pairs, closing records. |
| `FcgiApp`, `MCFcgiApp` | an application on the library with its web server: accept, fill, header, parameters, serve, finish. |
| `AsyncIo`, `MCAsyncIo` | the asynchronous I/O of `os_unix.c`. |
| `CoapList_proofs` | lemmas on lists and keys, for all the others. |
| `ObserveProxy_proofs`, `ObserveProxy_delivery` | theorems on the proxy: its invariants, that it implements `PubSub`, what reaches whom. |
| `PduCodec_proofs`, `AsyncIo_proofs`, `CoapServer_proofs`, `FcgiApp_proofs` | theorems on the codec, the asynchronous I/O, the server and the FastCGI requests. |
| `FcgiApp_input` | the theorem on what the application reads, on top of `FcgiApp_proofs`. |

```
CoapList <- CoapClient <- ObserveProxy --implements--> PubSub
                       <- CoapServer   --implements--> Directory
FcgiStreams <- FcgiApp        PduCodec        AsyncIo
```

### State of ObserveProxy

| Variable | In the code |
|---|---|
| `pc`, `ready` | place in `serve()`; the `fd_set` select left in `lset`. `"accept"`, `"request"`: `FCGX_Accept_r` waits for a connection, reads a request; `"handshake"`: inside the blocking read of `websocket_do_handshake`; `"hung"`: inside `write_fd`'s loop; `"crashed"`: undefined behaviour happened |
| `message_id`, `token`, `pending` | `client->context` |
| `entries` | `server->rd->entries`; `observers` is the list in the entry |
| `clientq`, `serverq`, `backlog` | receive queues of the sockets, held by the kernel |
| `ws`, `inbox`, `http` | browsers, the frames they received, HTTP requests |
| `sent` | requests that have gone out (history; nodes answer them) |
| `datagrams`, `rdRequests` | bounds only |

### Actions

| Action | Code |
|---|---|
| `Select`, `Pass` | the `select` call, which may also fail and leave the full set (`main.c:294-301`), and the `else` branches of a round (with `coap_client_clean_pending`) |
| `ClientTurn` | `coap_client_read`, `coap_client_dispatch`, from inside it `client_response_received`, `connection_response_send`, `websocket_send`, and what the deletion of a pending node frees |
| `ServerTurn` | `coap_server_read`, `coap_server_dispatch` for directory requests, including the freeing of an entry's observers |
| `FcgiTurn`, `AcceptHttp`, `DropHttp`, `HttpTurn` | `process_fastcgi_request`, split where `FCGX_Accept_r` waits: for a connection, and for the request on it; one that is closed without a request sends it back to wait for the next |
| `AcceptFails` | an `accept` that fails, in `FCGX_Accept_r` or in `process_websocket_request` |
| `WebsocketTurn`, `Handshake` | `process_websocket_request`, split at the one place where it waits: the blocking read of the handshake |
| `Connect`, `Speak`, `Close`, `HttpRequest`, `HttpSpeak`, `HttpClose`, `ClientDatagram`, `RdDatagram` | browsers, web server, nodes and network (external) |

A turn is one action because the process has one thread and nothing else touches
its memory. It is split at its waits: the handshake, and the two of
`FCGX_Accept_r`. After a `select` that failed a turn also waits at its start, for
what it is about: its guard asks for a datagram, a connection or a browser. What
`FCGX_Accept_r` does inside is in `FcgiApp`.

### State and actions of PduCodec

`out` is the message a program edits (`Insert`, `Unset`, `Request`, `Clean`, and
`Fill` for the fields a program sets itself), `wire` the packet, `in` the message
the reader builds. `WriteHeader`, `WriteOption` and `WritePayload` are
`coap_pdu_packet_write` as `coap_context_send` calls it; `ReadHeader`,
`ReadOption` and `ReadPayload` are `coap_pdu_packet_read`, each early `return 0`
a disjunct; `HandOn` is the rest of `coap_context_read`. Packets of other
writers come from `Noise`. `li`, `p`, `opt_code` and `cnt` are the variables of
the two loops; `sent` remembers the message behind the bytes. Steps are single
turns of the loops so that the proofs can follow them; nothing runs in between.
Options keep their code, their bytes and the key they are filed under, whose
later bytes come from the stack (`coap_pdu.c:263`) and are never compared.
Line 198 compares `p` before it has a value: the reader may give up. A negative
length goes to `memcpy` (`coap_option.c:16`): status `"crashed"`. Address and
timestamp are left out; packets stay far shorter than the buffers of 1400 bytes.
`coap_pdu_ack` is left out because nothing calls it; `coap_pdu_copy` and the
parsers of URIs and queries are in `CoapServer`, as far as the server sees them.

### State and actions of CoapServer

| Variable | In the code |
|---|---|
| `pc`, `at` | `serve()` or the loop of `coap_server_dispatch`, and the node the iterator stands on |
| `socketq` | the receive queue of the server's socket |
| `dispatch` | `context->dispatch_queue`, keyed by the bytes of the id |
| `entries` | `rd->entries`; `watched` says that the proxy has put observers in |
| `proxy`, `message_id`, `token` | `server->proxy` and the counters of the inner client |
| `known` | the names in the table `resource_directory` |
| `answers`, `forwarded` | what went out since the start |
| `owed` | how many answers are due to each client, id and token, counted where a PDU is taken up (history) |

`Start` is `context_create` with the directory read from SQLite. The loop of
`get_resource_directory` ends with any error as it does with the last row, and the
statement that could not be prepared is not noticed (`main.c:487` asks for a
negative result, SQLite's errors are positive): the server opens with the first n rows
for any n from none to all (`Reads`), and `loaded` remembers how many. Insertion
is behind the first node, so the first row stays first and the others come out from
the last to the second (`Loaded`). A row with a column that is NULL ends the
process; where a call fails that is noticed, or `coap_server_create` did, nothing
answers. `Kill` takes everything but the tables.
`Read` is `coap_server_read`. The branches of the dispatch loop are `NoToken`,
`BadOption`, `NotARequest`, `BadUri`, `Forward`, `NoPath`, `Discover`, `Rd`
(`RdRefuse`, `RdPost`, `RdGet`, `RdDelete`, `RdPut`, `RdOther`) and `Generic`.
Each ends in `ResponseSend`, which deletes what is not a CON from the queue, and
`GoOn`, which moves to the next node. A directory request is answered twice,
behind its switch (line 695) and behind the branch (708): the model sends twice.
Deleting goes by the bytes of the id up to the first zero, as in `CoapList`.
`Watch` is the other half of the program, which puts a browser among the
observers of an entry. `Crash` is undefined behaviour that stops the process: the
use of an unset pointer (line 387), and the payload of a proxied request, which
`coap_pdu_copy` prints as a format (`coap_pdu.c:304`). Where the process
survives the latter, the copy goes on without a payload: its length is not set.

### State and actions of FcgiApp

`pc` is the place inside the one call of the library that runs. `in`, `out` and
`err` are the three streams, `request` the rest of `FCGX_Request`, `header` the
bytes of the header that has not come whole, `env` and `body` what the
application has got. `wire` holds the cells (header, content and padding bytes)
that are on their way, `reply` the records the web server has received.

| Actions | Code |
|---|---|
| `FillRead`, `FillFails`, `FillContent`, `FillRest` | one turn of the loop of `FillBuffProc`: a read of any length, an error or an end, content, then skipped bytes, padding and the next header |
| `ProtocolError`, `Misread`, `Multiplexed`, `NestedTake`, `NestedClosed`, `UnknownManagement`, `OtherRequest`, `StreamRecord`, ... | `ProcessHeader` and what it calls, with the reads of its own that it does with `eorStop` |
| `AcceptRequest`, `InitRequest`, `Accept`, `TryAgain`, `Begun`, `ReadParams`, `ParamsEnd` | `FCGX_InitRequest`, `FCGX_Accept_r` with `OS_Accept` |
| `ReadBody`, `FPrintF`, `PrintError`, `Flush`, `Finish` | what the application calls |
| `Sigusr1` | the handler and the EINTR it causes |
| `Connect`, `Send`, `HangUp` | the web server (external) |

A read may return any number of the cells that are there, so every cut is
covered. Writers count real bytes: the boundaries of the 8 byte alignment matter.

`fcgiapp.c:1592` knows a header by its version byte alone. Where the library has lost
its place, bytes of a body or of padding may begin with that byte: `Misread` then
takes them for the header of any record in `Forgeries`, and `ProtocolError` refuses
them where they do not. `server.forged` remembers the first. The place is lost
where a record is `Unsafe` (section 6), and where `FCGX_Finish_r` keeps a connection
in the middle of a record (`Midway`). `FCGX_InitRequest`, which the proxy calls for
each request (`main.c:91`), only forgets the descriptor of a connection that was kept:
the connection is `"forgotten"`, neither closed nor read. A reply of any kind may be
cut by EINTR (`WriteAll`).

### State and actions of AsyncIo

A slot is a descriptor with a direction. `table` is `asyncIoTable`, `wanted` and
`posted` are the four descriptor sets, `numPosted` the two counts; `ops` and
`lost` are histories. `Start` is `OS_AsyncRead` and `OS_AsyncWrite`, `Close` and
`CloseRead` the two calls that give operations up. `OS_DoIo` is split where
callbacks run: `Select`, `SelectNothing` or `Resume`, one `Dispatch` for each
posted slot, `Return` when its callback does, `Leave`. Descriptors are blocking: a
write of more bytes than there is room for has begun on a descriptor that `select`
reported and waits for the rest (`"writing"`, `WriteOn`), whatever else is ready.
`Start` may stop the process where the table cannot grow. `Close` is one action with
its lingering `read`s (lines 765-772), which go on as long as the peer sends: that a
peer ends is what fairness of `Return` assumes. In a callback the program
may call everything but `OS_DoIo`. Entries behind the table are written by
`OS_Close` of a descriptor that never had an operation (lines 728-742): the
process may stop there.

**What is abstracted in ObserveProxy.** Payloads are abstract values. Addresses are left out: the
model does not say which node a datagram comes from. ACKs the client sends back
change nothing here (`Dispatch.acked` records them). Time is left out because
the one place where it decides something in this part, `coap_client.c:209`,
compares an unsigned sum with zero and is always true. The environment is quiet
once the process has stopped. Of a FastCGI request only its arrival
is seen here (`HttpSpeak`): a web server that stops half way is one that has
not spoken. Datagrams parse: what the reader refuses is
dropped by `coap_context_read`, like a lost datagram.

**Undefined behaviour** is a choice between the outcomes a build can show: an
unset pointer (`main.c:111`, `coap_server.c:387`), a null one (`main.c:102`), a
payload printed as a format (`coap_pdu.c:304`), a wrong `free` (`main.c:226`),
a write to a freed connection may crash or go on, an entry behind the table of
operations (`os_unix.c:732`).

## 3. Runs

| Run | Instance | Shows |
|---|---|---|
| `safety` | 2 browsers, names "ab" and "c", asked for "a", "ab", "c" (a prefix), 2 datagrams CON/ACK, 2 directory requests POST/DELETE | `TypeOK`, `NoForeignDelivery`, `OneFramePerDatagram`, and the refinement `ImplementsPubSub` |
| `fanout` | 3 browsers on one entry, 2 values, 2 datagrams, stray tokens | `OneObservation`, `Accounts`, `FanOut` |
| `liveness` | 2 browsers, an HTTP request, 1 datagram, 1 directory request; browsers and web server may be silent, `select` and `accept` may fail | `EverySocketServed` |
| `codec` | codes 9, 10 and 21, options of 0, 14, 15, 16, 142 and 143 bytes, two ids, two payloads, 7 packets of other writers, 2 packets read | `TypeOK`, `WellKept`, `RoundTrip` of `PduCodec` |
| `server` | 25 requests (every branch of the dispatch loop), 2 of them at a time or one after the other, 2 rows in the table, of which 0, 1 or 2 are read, 2 starts | `TypeOK`, `Settled`, `Ledger`, `Settles`, and the refinement `ImplementsDirectory` |
| `fcgi` | 1 connection, a request with a pair and a body byte, 1 odd record, 4 cells on the way, signals at any time, output of 30 bytes | `TypeOK`, `InputIntact`, `ReplyWhole`, `Served` |
| `async` | 2 descriptors, 3 operations, a table that grows | `TypeOK`, `Tally`, `NoneForgotten`, `BegunWhenReady`, `Completes` |
| `paths` | requests only | breaks a statement of `coap_option.h` (section 6) |
| `match`, `piggyback`, `register`, `http` | the smallest instance that has the case | each breaks one statement of a comment or document (section 6) |

**Bounds.** The token starts at 65535, so that the first request wraps it. In
`fanout` the id starts at 255, so that the second request has one whose key is
empty; in `safety` at 48, a byte that spells "0", the token of the second request,
so that a deletion by id meets the connection of another; in `liveness` and
`match` the first token has the ten digits `rand()` can give. Two datagrams are enough
for a repeat and for a reordering of two values, and to let a second one meet
what the first left. Two directory requests give register/register and
register/delete, the latter with observers inside. Three browsers are what the
order of a list in which insertion is behind the first node needs. The stray
tokens are a prefix of a live token and no token at all. A socket holds one
datagram: the loop takes one per round whatever waits behind it.

In `codec` the lengths lie on both sides of each boundary: 14/15 (the mark of an
extension), 15/16 (its first use), 142/143 (the last the signed byte carries).
The codes give deltas of 1, 9, 11, 12, 10 and 21, the last one above four bits.
The packets of others are too short, name an option twice, end inside an option,
carry extension bytes the reader takes for negative, and reach a code beyond
127. Two packets let a message that was read be edited, sent and read again.

In `server` two requests are what redelivery, reordering, a queue with two PDUs
of one key and a removal after a registration need; the two rows share no prefix
with each other but with names that are registered and asked for ("ab", "b",
"ac", and "a"). The id 256 has an empty key, 7 has one. The second start comes
after a kill in any state, so that a restart meets registrations that are gone.
The inner client's token wraps with its first use.

In `fcgi` a header has 2 cells instead of 8 (`HeaderLen`) and the body of a
BEGIN_REQUEST 1 (`BeginLen`): enough to be cut in the middle, which is all the
library's code distinguishes. `MaxWire = 4` keeps less than two records on the
way, so reads meet a part of a record, a whole one and the start of the next;
`MaxOdd = 1` adds to the plain request one padded, management, abort or foreign
record at any place, or the first header that is none. `MCForgeries` has one of each
kind that leads on: a request that begins, a piece of its stream, and a record
of another request that swallows more than all there is. The writer's buffer has `BuffLen = 32` bytes (8192 in
`FCGX_Accept_r`): the smallest in which two headers and content fit, and 30
bytes of output do not fit behind a header, so the stream is emptied on the way.
One connection carries several requests when FCGI_KEEP_CONN is set. The second id
never asks for a responder: the library serves one request at a time, and what it does
with a request is not a matter of its id. A forgotten connection is followed
by no other, as `MaxConnections` is 1: the next request comes from a new one in the
code, where the state of the library is that of the start.
`MaxPrints` ends the output.

In `async` a table of two entries holds the first descriptor and grows for the
second (16 entries in the code); three operations let a callback start one on a
descriptor that is posted, was closed, or was opened again under the same
number. With two descriptors the loop has something before and behind the one
whose callback runs.

**Symmetry** in the browsers is used in the safety runs only; no definition
tells one browser from another.

**Deadlock** is not checked: in `PduCodec` a reader may crash and the number of
packets is bounded; `CoapServer` ends when its starts or its requests are used
up; an application of `FcgiApp` waits for a web server that has gone; a process
of `AsyncIo` may be gone; in `ObserveProxy` a process that hangs in `write_fd`, has crashed, or
waits for a silent browser or web server really stops, and the bounds end the
environment's steps.

**Fairness.** `FairSpec` asks weak fairness of `ProxyStep` alone, the whole
loop: the process is the only thread, `select` has a two second timeout, and it
never rests while it can move. Browsers, the web server, nodes and the network owe
nothing, and `select` and `accept` may fail.
That each socket has its turn is not assumed but follows from the order of the
turns. `EverySocketServed` excepts the ways in which it really fails:

- the process has stopped (`Halted`);
- it waits for good (`Waiting`): for a browser that connects and stays silent
  (`websocket.c:138`), for a web server that does, or that stops half way
  (`fcgiapp.c:1635`), for another connection after one that was closed without a request,
  or, after a `select` that failed with anything but EINTR, in `recvfrom`,
  `FCGX_Accept_r` or `accept` on a socket where nothing comes;
- for what waits to be accepted also that `accept` fails again and again
  (`AcceptFails`).

`Waiting` ends when what is waited for comes; only a wait that lasts for ever
(`[]Waiting`) excuses the loop.

In `CoapServer` the same loop has weak fairness for `Read \/ Dispatched`. In
`FcgiApp` it is weak fairness of `Library`, the one thread of the application; the
web server owes nothing, so `Served` is about one that has sent a whole request.
In `AsyncIo` there is weak fairness of `DoIo`, which a program with this interface
calls again and again, and of `Return`: callbacks end. Nothing is assumed of the
descriptors: a write may wait for ever for the rest of its room, and then `Completes`
promises nothing to the others.

**Sensitivity.** Next to some definitions stands a `Slip...` of the same
parameters: the mistake one could make there (a counter that does not wrap, a
turn that is left out, a browser that joins twice, a lookup of length zero, a list that
appends, a forgotten `is_observe`, a response that leaves its CON in the queue, a
deletion that takes every entry of the prefix, an alignment that always adds,
an end of the request with each of its streams, a bit that stays posted). No specification uses them; put in place of
the original, each one breaks the property it was written for.

## 4. Properties

- `OneObservation`: an entry has at most one CoAP observation, owned by its
  first observer; if the first did not ask to observe, nobody behind it ever
  gets one. Either direction would surprise a user, and it depends on where the
  list puts later nodes.
- `Accounts`: pending requests observe and belong to accepted browsers. This is
  the only reason why `coap_client_clean_pending` does not repeat and drop every
  request within seconds.
- `NoForeignDelivery`: frames are about the name the browser asked for, up to
  prefixes, although the way leads through two prefix lookups in lists that
  change in between.
- `FanOut`: all observers of an entry see the same notifications in the same
  order from the moment they join.
- `OneFramePerDatagram`: no step shows a browser more than the datagram it takes
  from the socket, and that once. A frame goes out for each node of an observer list
  (`main.c:61`), so this rests on no connection being in a list twice, whatever joins,
  goes or is registered again in between.
- `EverySocketServed`: no source of work starves, but for the waits named under
  "Fairness".
- `ImplementsPubSub`: a datagram that is handled is one notification to all the
  observers of one entry or an answer to one browser, an entry that goes takes its
  observers along, and nothing else reaches anybody. With an answer one subscriber
  may be given up, and not always the one it was for: the deletion goes by the bytes
  of the id (`coap_client.c:135`), which may spell the token of another request. Entries that stand twice
  under one name, or are found by prefix, still are topics of their own.
- `WellKept` (`PduCodec`): options strictly in the order of their codes, and
  `optcnt` their number. List and count are kept by separate statements in three
  functions, and the reader inserts what others wrote.
- `RoundTrip` (`PduCodec`): the reader is the inverse of the writer for what the
  format carries; `Portable` names the exceptions, each of them a line of code.
- `Settled` (`CoapServer`): back in `serve()` nothing is queued, and every PDU was
  answered exactly as often as it is owed (`owed`), with its id and token, to its host.
  Each branch has to take out what it answered, from a queue that is keyed by
  bytes that may be none.
- `Ledger`: the entries are the rows that were read of the table, plus what was
  confirmed with 2.01, less what was confirmed with 2.02. It holds although a name may stand
  twice, and DELETE finds it by prefix, because one entry goes at a time.
- `ImplementsDirectory`: each step adds, removes or updates one registration,
  without changing its name, or opens the directory with the first rows of the table,
  as many as were read, and the clients are told in the same step, twice; what was
  confirmed before a restart and is no row is gone.
- `Settles`: the loop comes back to `serve()` with an empty socket, however its
  queue changes under the iterator.
- `InputIntact` (`FcgiApp`): parameters and body reach the application byte for
  byte, in their stream, however reads cut the records and whatever lies between
  them. What it rests on is that the library keeps its place: nothing but the version
  byte tells a header from other bytes, and nothing that is sent before the place is lost may
  be misread. Its exceptions are `Unsafe` and `Midway`, see section 6.
- `ReplyWhole`: what was printed is in the reply or in the buffer; END_REQUEST
  comes once and last, behind the end of the output, with nothing missing, also
  when output, errors and flushes alternate. Unless a header was misread.
- `Served`: whatever a web server sends first, the library comes to serve a request, or
  to owe nothing (`ItsTurn`), or the connection ends. Excepted are a misread header,
  whose length may swallow all that follows, a process that was told to end, and a
  connection that `FCGX_InitRequest` has forgotten (`GivenUp`).
- `Tally` (`AsyncIo`): the counts are what is posted and what `OS_Close` cleared.
- `NoneForgotten`: an operation in the table is in a set somebody works on and is
  the one the program waits for; a callback comes at most once, and never for an
  operation that was given up.
- `BegunWhenReady`: a read or write is begun only where it goes on at once: a posted
  bit belongs to a descriptor that is ready, also after it was closed in a callback and
  its number came back, and also behind a write that had to wait for the rest of its
  room.
- `Completes`: a ready operation is called back or given up, except in the two
  ways in which `OS_DoIo` starves (section 6) and behind a write that waits for ever.

## 5. Proofs

For every choice of browsers, names, values, bounds and counters that meets the
ASSUMEs of `ObserveProxy` (names are character strings, first counters are 31
bit values as `rand()` gives them, bounds are naturals, methods and types are CoAP's), TLAPS proves

`Invariance`, `TypeCorrect`, `OneObservationTheorem`,
`AccountsTheorem` (invariants) and `OneFrameTheorem` (an action property).

The inductive invariant is `IInv == TypeOK /\ Accounts /\
OneObservation`. `OneObservation` alone is not inductive: a browser that joins
must not already own a request, and must not already be in another entry. That
is what `Accounts` adds: owners and observers have been accepted, whereas the
browser of a handshake has not, and the backlog holds nobody twice. Nor does an
observer list (`IsInjective`), which is what `OneFrameTheorem` stands on: a datagram
gives a connection as many frames as it has nodes in the list (`Times`), at most one. `TypeOK`
gives the lists their sequence types, without which insertion and deletion say
nothing. `ObserverLists` carries the one list fact that matters: the head of an
observer list never changes (`NodeInsertHead`). `CoapList_proofs` has the lemmas
on the list operators and on token keys; the least position that `NodeGet` chooses
exists because the naturals are well-founded.

For every choice of codes, contents, ids, methods and packets, TLAPS also proves
`CodecTypeCorrect` and `WellKeptTheorem` of `PduCodec`. Order alone is not
inductive: `coap_pdu_option_insert` removes an older option of the same code by
its key, so the invariant adds `Filed`, that every option is filed under its own
code. `WithoutSorted` and `InsertSorted` are the two list facts: a list in strict
order stays so without one of its options, and with a new code put in front of
the first greater one. The bytes are where `TypeOK` is interesting: that no field
of a header spills into the next needs the types of the message that is written.

For every set of descriptors below `FD_SETSIZE`, first size of the table and number of
operations, TLAPS proves `TallyTheorem`, `NoneForgottenTheorem` and
`BegunWhenReadyTheorem` of `AsyncIo`. They stand on each other: `Dispatch` may count
down only what is posted (`Tally`), the descriptor it reads is ready only because
it is posted (`BegunWhenReady`), and the operation it ends exists only because the
slot is in use (`NoneForgotten`). What has to be added is `Unused`: `OS_Close`
skips its bookkeeping before the first operation, so nothing may be posted then;
and `Typed`, which has the bound of every set by `maxFd`. `OneLess` and
`WithoutDescriptor` are the facts on cardinalities. `TypeCorrect` adds the size of
the table: it doubles until the descriptor fits (`Doubled`), stays a positive number and
keeps what the table holds.

**Delivery in the proxy.** `DeliveryTheorem` states `NoForeignDelivery` for every
instance in which no two requests went out with one token (`KeysDistinct`) and no
stray datagram carries a token of the client's (`NoStrayMatches`); without either it is
false, and rightly so: the code knows an answer by nothing but the digits of its token.
`FewRequestsTheorem` discharges the first hypothesis for up to 65536 browsers and HTTP
requests: `Counted` says that the counter has advanced once per request at most and
that the tokens that went out are behind it, and `TokenAt` is injective over one
turn of the counter (the first token has 31 bits, the others 16). The invariant
`Related` is the chain of names from the browser to the frame: the request is
about the name its owner asked for, the connection waits for a request, the datagram
answers one, and an observer of an entry asked for a prefix of its name. What
closes it is that of two prefixes of one string one is a prefix of the other.

**The proxy implements `PubSub`** (`Refinement` of `ObserveProxy_proofs`): the
mapping takes the entries with observers to topics and the accepted browsers whose
connection is alive to those present. `RInv` adds to `IInv` that no browser
observes two entries (`Apart`), without which topics are not disjoint and a
notification could reach one browser twice, and that every path on the way is known
(`PathsKnown`). Each turn of the loop is one step of `PubSub` or none.

**The server.** Assumed is `RequestsAreRead`: what the network brings has the
types `coap_pdu_packet_read` gives it. For every set of such requests, every table and
any number of starts, TLAPS proves `TypeCorrect` and `SettledTheorem`, and for requests
that are none of them a response (`NoResponses`) `LedgerTheorem` and
`Refinement`, that the server implements `Directory`. The inductive invariant
`IInv` has two parts that matter. `OneAtATime`: there is one PDU in the
dispatch queue while the loop runs and none when it ends. That is what makes
deletion by the bytes of an id that may be none safe, and it fails if one branch
forgets its PDU. `Books`: each client, id and token has had as many
answers as it is owed, counted as cardinalities. The ledger is `LInv`, twice
the entries plus the confirmed deletions equals twice the rows that were read (`loaded`)
plus the confirmed registrations, which each turn keeps because it registers (`Registers`), removes
(`Removes`), changes (`Changes`) or leaves (`Leaves`) one entry and tells as much.
`NoResponses` is needed because of `coap_server.c:687` (section 6). The
refinement rests on lemmas on the bag of what a list registers (`BagInserted`,
`BagWithout`, `BagReplaced`, `BagLoaded`): inserting or deleting one node adds or
takes one copy, wherever it is. Bags are counted as cardinalities of sets of
positions, so no induction is needed.

**FastCGI requests.** Assumed is that bounds are naturals, that headers have a
length, and that a writer's buffer is a multiple of 8 bytes and has 32 at least, as
`FCGX_NewStream` makes it (`LengthsAssumption`, `BoundsAreNat`). For every
parameter and body text, every length of header and buffer, any number of connections,
and every way in which reads cut records, writes fail, signals come and the web
server hangs up, TLAPS proves `TypeCorrect` and `ReplyTheorem`.

The inductive invariant is `IInv == TInv /\ Standing /\ (server.forged \/ Answering)`:
once a header was misread, a request may begin that nobody sent, and only types and
places remain.

`TInv` is behind the first: the cells that are on their way are `Sound`, they lie
within the stream they were cut from (what is delivered is looked up there), and
`InPlace`, which ties the place in the library to the reader: the header is whole exactly
while `eorStop` is set, between records only a part of one is there, and nothing is
left to deliver when `FillBuffProc` goes round its loop.

`ReplyTheorem` states `ReplyWhole`: as long as no write was cut short and no header was
misread, what the web
server has plus what is in the buffer is what was printed, byte for byte, and the end of
the request comes once, behind the end of the output, with nothing of the request
behind it. It is not inductive, because nothing in it says that a request is
served once. `Standing` says where the request is while the library runs: request 1 is
the only one that is served, and the header that is being worked on is its own.
`Answering` adds that at most one BEGIN_REQUEST of request 1 is on its way, at one
place among header, buffer and socket (`OneOpening`), that none is while one has
begun, and that until the service starts the reply holds records of the library's
own only (`Others`): so a new service starts from an empty account. Bytes of
output are a sum over the reply; a sum is a recursive function, and that it
adds up over a concatenation (`OutputOfBoth`) follows without induction,
from the least place where two partial sums would differ (`Minimum`). Writers then
give one lemma per call: content and closing records are what was in the buffer
(`ContentOf`, `CloseOutOf`), a write adds all of them or leaves a cut
(`WriteAllReply`).

The proof found an error of the model: a read that fails while a header has come in
part left that part behind, but `header` is a local of `FillBuffProc`
(`fcgiapp.c:1627`) and is gone when it returns. `ReadError` says so now.

**What the application reads.** `InputTheorem` (module `FcgiApp_input`) states
`InputIntact` under the same assumptions. Nothing in that property says what is still
on its way, so it is far from inductive. `Reading` adds it, in three parts:

- *Marks.* A `Mark` is where the web server is in request 1: the stream it sends next
  and how much of that went out. `Track` says that the cells in header, buffer and
  socket, taken as one queue (`Ahead`), are records one behind the other, whole but for
  the front of the first, and that each record takes the mark in front of it to
  the mark behind it (`Allowed`, `After`), from the mark of the reader to that of
  the web server. Sending appends a record (`TrackAppend`); taking cells from the front
  leaves a queue of the same kind (`TrackDrop`, `TrackLeft`, `TrackHeader`).
- *The reader.* `InStep`: the content and padding that the reader still counts are
  what is left of the first record. `Steady`: what the flags `skip`, `eorStop` and
  `isClosed` mean at each place in the library. `Flowing`: what was taken of a
  stream is its text up to the mark, less the content of the record in front.
  `Placed` puts these together for accept, parameters and service.
- *Exceptions.* A connection that was kept may start in the middle of a record: its
  remains are read as headers, and nothing is said of it from then on (`Midway`), as
  nothing is after an `Unsafe` record. A stream with an error is read no further
  (`Broken`).
- *Headers.* `Genuine`: as long as the place is kept no header was misread. The model
  lets any bytes that are no header be taken for one, so this has to be proved: what
  `Track` says of the front of the queue is that it is the beginning of a record whenever
  the reader has finished the last (`InStep`), and `Misread` finds nothing to misread.

`Reading` holds together with `IInv`: that the header being worked on belongs to the
request, that none begins twice and where the nested call stands come from
`Standing` and `Answering`.

There is one lemma per action (`...Keeps`, `...Branch`, `...Types`, `...Stands`, `...Answers`, `...Reads`), a step lemma puts them
together and the theorems follow with PTL.

**Only model-checked**: `RoundTrip` (it compares two runs through a packet of
any length, an induction over its options), `EverySocketServed`, `Settles`,
`Served` and `Completes` (liveness under fairness is out of this prover's reach), and
`FanOut` (a statement on the history of two inboxes, future work).

## 6. Where the code disagrees with its words

| Run | Said | Done |
|---|---|---|
| `match` | `coap_client.h:48` "Matches received responses with sent requests and calls the response handler ..." | the search ends at the first pending request, matching or not (`coap_client.c:191`) |
| `piggyback` | `coap_client.c:135` "remove from connections list" | deletes by message id from a queue keyed by token |
| `register` | `coap_server.c:572` earlier resources are deleted by a POST | a second entry is added |
| `paths` | `coap_option.h:24` Uri-Path has "1-270 B" | 15 bytes are written as the mark of an extension (`coap_pdu.c:142`); 143 and more are read as a shorter or negative length (`coap_pdu.c:225`) |
| `http` | `README.md:4` "HTTP-CoAP proxy" | the request is sent and forgotten, no HTTP answer is ever made |

**Met while modelling, without a run of their own** (no document contradicts the
code, or the model has the outcome as a choice):

- `fcgiapp.c:1635`: `FillBuffProc` reads more before it looks at `eorStop`. A web
  server that sends FCGI_GET_VALUES and waits for the answer before anything else
  waits for ever. `Served` speaks of web servers that have sent a whole request.
- `fcgiapp.c:2231`: `ReadParams` answers 0 when the stream fails between two
  pairs; the request is served with a part of its environment. `InputIntact` says
  nothing of streams with an error.
- `fcgiapp.c:1850`: `SetReaderType` forgets padding that is still to come, an
  empty record of another request leaves `skip` set (`fcgiapp.c:1649`), and the
  content of an unknown management record is delivered (`Unsafe`).
- `fcgiapp.c:2033`: a connection that is kept while a part of the input is unread
  starts its next request in the middle of a record, and the bytes of a body that begin
  with 1 are headers (`fcgiapp.c:1592`, `Misread`).
- `fcgiapp.c:2051`: `FCGX_InitRequest`, called for every request by `main.c:91`,
  forgets the descriptor of a connection that was kept and does not close it.
- `main.c:294`: a `select` that fails with anything but EINTR is followed by four turns
  on the full set; each waits for something to come.
- `main.c:487`: errors of SQLite are positive and the test is `< 0`; the loop behind it
  ends with any error as with the last row. The directory opens with a part of the table,
  or with nothing, and no message.
- `main.c:196`: a lost observe request is never sent again, as `is_observe` keeps it
  from being repeated, and the entry counts as observed.
- `os_unix.c:731`: `OS_Close` clears posted bits and leaves `numRdPosted` and
  `numWrPosted`; `os_unix.c:794`: `OS_CloseRead` leaves the bit. Either way a
  count is never worked off, and `OS_DoIo` never calls select again (`Starved`).
- `coap_server.c:404`: `coap_pdu_option_get` with no place for the value always
  answers 0, so an observe request never makes a relation; what
  `coap_server_notify_observers` and the expiry do to relations never runs.
- `coap_server.c:687`: a CON or NON that is itself a response and has a Uri-Path
  under rd is taken for a request, and sent back with its own code: an echo of 2.01 reads
  like the confirmation of a registration that was never made. `Ledger` and
  `ImplementsDirectory` are about networks that bring requests.
- `main.c:580`: the inner client's socket is selected and never read.

## 7. Not modelled

- Observe relations of the server: no request can create one (above).
- `proxy_response_received`: nothing reads the socket its answers come to.
- Cache: the proxy opens the database and never uses it; the calls in
  `coap_client.c` are commented out.
- Proxy resources (`proxy/resource.c`, `main.c` 232-282): made from SQLite only,
  never dispatched.
- `fcgi_stdio.c`: wrappers the proxy does not use. Of `fcgiapp.c`: the conversions
  of `FCGX_VFPrintF`, unget, the filter's data stream, the global request of
  `FCGX_Accept`. Of `OS_Accept`: locks and address lists, which are empty here, and
  the errors of `accept` that end a request that has not begun (`AcceptFails` of
  `ObserveProxy` has them).
- What a web server sends on a connection that was forgotten: nobody reads it.
- MD5, Berkeley DB and SQLite, socket creation, printing, command lines.

## 8. Plan

Done: the list, the client, the proxy loop with its invariants, delivery and the
refinement of `PubSub` proved; the codec with its theorems; the server with
its invariants, restarts and the refinement of `Directory` proved; FastCGI streams,
requests and asynchronous I/O, with the types, the input, the reply and the operations
proved. Left:

1. `FanOut` of the proxy as a theorem.
2. `FcgiApp` with two connections, one after the other.
3. The maximum of the socket set, which nothing initialises (`sockset.c:7`).
