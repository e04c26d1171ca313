------------------------- MODULE ObserveProxy_proofs -------------------------
(***************************************************************************)
(* Proofs about ObserveProxy, for every set of browsers, names and tokens, *)
(* every size of the sockets and any number of datagrams.                  *)
(***************************************************************************)
EXTENDS ObserveProxy, CoapList_proofs, FiniteSetTheorems

-----------------------------------------------------------------------------
(* Strings.                                                                *)

\* The names, tokens and keys of the constants and of the code are strings.
LEMMA Strings ==
  /\ <<>> \in Str /\ <<0>> \in Str
  /\ Names \subseteq Str /\ Asks \subseteq Str /\ StrayTokens \subseteq Str
  /\ \A n \in Nat : TokenKey(n) \in Str
<1>1. <<>> \in Str /\ <<0>> \in Str
  BY DEF Str
<1> QED BY <1>1, KeysAreStrings, TokenKeyIsString

-----------------------------------------------------------------------------
(* The client's operators.                                                 *)

\* The inner loop of coap_client_dispatch stops at a connection or at none.
LEMMA ExaminedRange ==
  ASSUME NEW S, NEW p \in Seq(S), NEW m
  PROVE  Examined(p, m) \in {0} \cup DOMAIN p
<1> DEFINE kept == {i \in DOMAIN p : ~Skipped(p[i], m)}
<1>1. kept \in SUBSET Nat
  OBVIOUS
<1>2. CASE kept = {}
  BY <1>2 DEF Examined
<1>3. CASE kept # {}
  <2>1. \E i \in kept : \A j \in kept : i <= j
    BY <1>1, <1>3, Minimum
  <2>2. Examined(p, m) \in kept
    BY <1>3, <2>1 DEF Examined
  <2> QED BY <2>2
<1> QED BY <1>2, <1>3

\* Whatever rand() gave, a counter that moves is a 16 bit number from then on
\* (coap_client_send).
LEMMA AdvanceIsUint16 ==
  ASSUME NEW n \in Nat
  PROVE  Advance(n) \in Uint16
  BY DEF Advance, Uint16

\* The counters in all their states.
LEMMA Counters ==
  /\ Ids \subseteq Nat /\ Tokens \subseteq Nat
  /\ Uint16 \subseteq Ids /\ Uint16 \subseteq Tokens
  BY CountersAreRandom DEF Ids, Tokens, Uint16, Random

\* What a datagram leaves of the pending queue: its connections, waiting for
\* the answers to the same requests, those that observe observing
\* (coap_client_dispatch).
SameRequest(a, b) == a.key = b.key /\ a.path = b.path /\ a.owner = b.owner
Descends(q, p) ==
  /\ q \in Seq(Conn)
  /\ \A j \in DOMAIN q : \E i \in DOMAIN p :
       SameRequest(q[j], p[i]) /\ (p[i].is_observe => q[j].is_observe)

\* What is pending after coap_client_dispatch was pending before.
LEMMA DispatchDescends ==
  ASSUME NEW p \in Seq(Conn), NEW m
  PROVE  Descends(Dispatch(p, m).seen, p) /\ Descends(Dispatch(p, m).after, p)
<1> DEFINE i == IF m.token = <<>> THEN 0 ELSE Examined(p, m)
           conn == p[i]
           matched == i # 0 /\ conn.key = m.token
           isAck == matched /\ m.type = "ACK" /\ conn.id = m.id
           removed == NodeDelete(p, IdKey(conn.id), IdKeyLen)
<1>1. i \in {0} \cup DOMAIN p
  BY ExaminedRange
<1>2. Descends(p, p)
  BY DEF Descends, SameRequest
<1>3. Descends(removed, p)
  <2> DEFINE k == IdKey(conn.id)
  <2> HIDE DEF k
  <2>1. /\ NodeDelete(p, k, IdKeyLen) \in Seq(Conn)
        /\ \A j \in DOMAIN NodeDelete(p, k, IdKeyLen) :
             \E l \in DOMAIN p : NodeDelete(p, k, IdKeyLen)[j] = p[l]
    BY NodeDeleteIsSeq
  <2> QED BY <2>1 DEF Descends, SameRequest, k
<1>4. ASSUME isAck
      PROVE  /\ Descends([p EXCEPT ![i].is_observe = TRUE], p)
             /\ Descends([p EXCEPT ![i].is_separate_response = TRUE], p)
  <2>1. i \in DOMAIN p
    BY <1>1, <1>4
  <2> HIDE DEF i
  <2>2. p[i] \in Conn
    BY <2>1
  <2>3. \A b \in BOOLEAN : /\ [p[i] EXCEPT !.is_observe = b] \in Conn
                           /\ [p[i] EXCEPT !.is_separate_response = b] \in Conn
    BY <2>2 DEF Conn
  <2>4. \A b \in BOOLEAN :
          /\ [p EXCEPT ![i].is_observe = b] \in Seq(Conn)
          /\ [p EXCEPT ![i].is_separate_response = b] \in Seq(Conn)
    BY <2>1, <2>3
  <2>5. /\ \A j \in DOMAIN p :
             LET q == [p EXCEPT ![i].is_observe = TRUE]
             IN  SameRequest(q[j], p[j]) /\ (p[j].is_observe => q[j].is_observe)
        /\ \A j \in DOMAIN p :
             LET q == [p EXCEPT ![i].is_separate_response = TRUE]
             IN  SameRequest(q[j], p[j]) /\ (p[j].is_observe => q[j].is_observe)
    BY <2>1, <2>2 DEF Conn, SameRequest
  <2>6. /\ DOMAIN [p EXCEPT ![i].is_observe = TRUE] = DOMAIN p
        /\ DOMAIN [p EXCEPT ![i].is_separate_response = TRUE] = DOMAIN p
    OBVIOUS
  <2> QED BY <2>4, <2>5, <2>6 DEF Descends
<1>5. Dispatch(p, m).seen \in {p, removed}
  BY DEF Dispatch
<1>6. \/ Dispatch(p, m).after \in {p, removed}
      \/ /\ isAck
         /\ Dispatch(p, m).after \in
              {[p EXCEPT ![i].is_observe = TRUE],
               [p EXCEPT ![i].is_separate_response = TRUE]}
  BY DEF Dispatch
<1> HIDE DEF removed, isAck
<1> QED BY <1>2, <1>3, <1>4, <1>5, <1>6

\* A queue of observing connections is not cleaned (coap_client_clean_pending).
LEMMA CleanNothing ==
  ASSUME NEW p, \A i \in DOMAIN p : p[i].is_observe
  PROVE  CleanPending(p) = p
  BY DEF CleanPending, Due

-----------------------------------------------------------------------------
(* The inductive invariant at the start.                                   *)

\* The initial state of context_create satisfies the inductive invariant.
LEMMA InitIInv == Init => IInv
<1> SUFFICES ASSUME Init PROVE IInv
  OBVIOUS
<1>1. TypeOK
  <2>1. \A f \in BOOLEAN :
          [stage |-> "idle", name |-> <<>>, observe |-> f, spoken |-> f,
           open |-> f] \in WsState
    BY Strings DEF WsState
  <2>4. ws \in [Ws -> WsState]
    BY <2>1 DEF Init
  <2>5. http \in [HttpReqs -> HttpState]
    <3>1. [stage |-> "idle", name |-> <<>>, spoken |-> FALSE, open |-> FALSE]
            \in HttpState
      BY Strings DEF HttpState
    <3> QED BY <3>1 DEF Init
  <2>2. inbox \in [Ws -> Seq(FrameType)]
    BY DEF Init
  <2>3. message_id \in Ids /\ token \in Tokens
    BY DEF Init, Ids, Tokens
  <2> QED BY <2>2, <2>3, <2>4, <2>5 DEF Init, TypeOK
<1>2. Accounts
  BY DEF Init, Accounts, Owners, IsInjective
<1>3. OneObservation
  BY DEF Init, OneObservation
<1> QED BY <1>1, <1>2, <1>3 DEF IInv

-----------------------------------------------------------------------------
(* What a step may change without disturbing the accounts.                 *)

\* The observers of an entry are a list of browsers.
LEMMA ObserverLists ==
  ASSUME IInv, NEW k \in DOMAIN entries
  PROVE  entries[k] \in Entry /\ entries[k].observers \in Seq(Ws)
<1>1. entries \in Seq(Entry)
  BY DEF IInv, TypeOK
<1>2. entries[k] \in Entry
  BY <1>1
<1> QED BY <1>2 DEF Entry

\* The state of a browser that has been accepted matters in three ways: that it
\* stays accepted, whether it asked to observe, and what it asked for.
KeepsAccepted ==
  \A w \in Ws : Accepted(w) =>
    /\ ws'[w].stage \in {"observing", "freed"}
    /\ ws'[w].observe = ws[w].observe /\ ws'[w].name = ws[w].name

\* A step that sends nothing, brings no observers into an entry and no stranger
\* into the pending queue keeps the accounts, and one observation per entry.
EntriesDescend ==
  \A k \in DOMAIN entries' :
    entries'[k].observers = <<>> \/ \E j \in DOMAIN entries : entries'[k] = entries[j]
PendingDescends ==
  \A j \in DOMAIN pending' : pending'[j].is_observe /\ pending'[j].owner \in Owners
BacklogKept ==
  /\ IsInjective(backlog')
  /\ \A i \in DOMAIN backlog' : ws'[backlog'[i]].stage = "backlog"

\* Steps that send nothing and bring in no observer, connection or browser.
LEMMA AccountsKept ==
  ASSUME IInv, KeepsAccepted, sent' = sent, EntriesDescend, PendingDescends,
         BacklogKept
  PROVE  Accounts' /\ OneObservation'
<1>1. Owners' = Owners /\ Owners \subseteq Ws
  BY DEF Owners, IInv, TypeOK, Request
<1>2. ASSUME NEW k \in DOMAIN entries', NEW i \in DOMAIN entries'[k].observers
      PROVE  LET obs == entries'[k].observers
             IN  /\ ws'[obs[i]].stage \in {"observing", "freed"}
                 /\ obs[i] \in Owners' <=> i = 1 /\ ws'[obs[1]].observe
  <2> DEFINE obs == entries'[k].observers
  <2>1. PICK j \in DOMAIN entries : entries'[k] = entries[j]
    BY <1>2 DEF EntriesDescend
  <2>2. obs = entries[j].observers /\ obs \in Seq(Ws)
    BY <2>1, ObserverLists
  <2>3. 1 \in DOMAIN obs /\ obs[1] \in Ws /\ obs[i] \in Ws
    BY <1>2, <2>2
  <2>4. Accepted(obs[1]) /\ Accepted(obs[i])
    BY <1>2, <2>2, <2>3 DEF IInv, Accounts
  <2>5. obs[i] \in Owners <=> i = 1 /\ ws[obs[1]].observe
    BY <1>2, <2>2 DEF IInv, OneObservation
  <2>6. /\ ws'[obs[1]].observe = ws[obs[1]].observe
        /\ ws'[obs[i]].stage \in {"observing", "freed"}
    BY <2>3, <2>4 DEF KeepsAccepted
  <2> QED BY <1>1, <2>5, <2>6
<1>3. \A w \in Owners' : Accepted(w)'
  BY <1>1 DEF IInv, Accounts, KeepsAccepted, Accepted
<1>4. ASSUME NEW k \in DOMAIN entries'
      PROVE  IsInjective(entries'[k].observers)
  <2>1. CASE entries'[k].observers = <<>>
    BY <2>1 DEF IsInjective
  <2>2. CASE \E j \in DOMAIN entries : entries'[k] = entries[j]
    BY <2>2 DEF IInv, Accounts
  <2> QED BY <2>1, <2>2 DEF EntriesDescend
<1>5. Accounts'
  BY <1>1, <1>2, <1>3, <1>4 DEF Accounts, Accepted, PendingDescends, BacklogKept
<1>6. OneObservation'
  BY <1>2 DEF OneObservation
<1> QED BY <1>5, <1>6

\* What stays as it was descends from itself.
LEMMA Stays ==
  ASSUME IInv
  PROVE  /\ ws' = ws => KeepsAccepted
         /\ entries' = entries => EntriesDescend
         /\ pending' = pending => PendingDescends
         /\ /\ backlog' = backlog
            /\ \A w \in Ws : ws[w].stage = "backlog" => ws'[w].stage = "backlog"
            => BacklogKept
<1>1. backlog \in Seq(Ws)
  BY DEF IInv, TypeOK
<1>2. ws' = ws => KeepsAccepted
  BY DEF KeepsAccepted, Accepted
<1>3. entries' = entries => EntriesDescend
  BY DEF EntriesDescend
<1>4. pending' = pending => PendingDescends
  BY DEF PendingDescends, IInv, Accounts
<1> QED BY <1>1, <1>2, <1>3, <1>4 DEF IInv, Accounts, BacklogKept

-----------------------------------------------------------------------------
(* The steps of browsers, web server, nodes and network.                   *)

\* A browser that connects is new, so it is in no list yet.
LEMMA ConnectKeeps ==
  ASSUME IInv, NEW w \in Ws, NEW n \in Asks, NEW o \in BOOLEAN,
         NEW now \in BOOLEAN, Connect(w, n, o, now)
  PROVE  IInv'
<1> USE DEF Connect, proxyVars
<1>1. \A b \in BOOLEAN : [stage |-> "backlog", name |-> n, observe |-> o,
                          spoken |-> now, open |-> b] \in WsState
  BY Strings DEF WsState
<1>2. ws' \in [Ws -> WsState]
  BY <1>1 DEF IInv, TypeOK
<1>3. backlog \in Seq(Ws) /\ backlog' \in Seq(Ws) /\ backlog' # <<>>
  <2>1. backlog \in Seq(Ws)
    BY DEF IInv, TypeOK
  <2>2. backlog' = Append(backlog, w)
    OBVIOUS
  <2> QED BY <2>1, <2>2, AppendProperties
<1>4. TypeOK'
  BY <1>2, <1>3 DEF IInv, TypeOK
<1>5. KeepsAccepted
  BY DEF KeepsAccepted, Accepted, IInv, TypeOK
<1>6. BacklogKept
  BY SMTT(40), <1>3 DEF BacklogKept, IInv, TypeOK, Accounts, IsInjective
<1>7. Accounts' /\ OneObservation'
  BY <1>5, <1>6, AccountsKept, Stays
<1> QED BY <1>4, <1>7 DEF IInv

\* Of a browser only what it has said and whether it is there changes.
LEMMA SpeakCloseKeeps ==
  ASSUME IInv, NEW w \in Ws, Speak(w) \/ Close(w)
  PROVE  IInv'
<1> USE DEF Speak, Close, proxyVars
<1>1. \A b \in BOOLEAN : /\ [ws[w] EXCEPT !.spoken = b] \in WsState
                         /\ [ws[w] EXCEPT !.open = b] \in WsState
  BY ZenonT(40) DEF IInv, TypeOK, WsState
<1>2. ws' \in [Ws -> WsState]
  BY <1>1 DEF IInv, TypeOK
<1>3. TypeOK'
  BY <1>2 DEF IInv, TypeOK
<1>4. \A v \in Ws : /\ ws'[v].stage = ws[v].stage /\ ws'[v].observe = ws[v].observe
                    /\ ws'[v].name = ws[v].name
  <2>1. ws \in [Ws -> WsState]
    BY DEF IInv, TypeOK
  <2> QED BY <2>1 DEF WsState
<1>5. KeepsAccepted
  BY <1>4 DEF KeepsAccepted, Accepted
<1>6. Accounts' /\ OneObservation'
  BY <1>4, <1>5, AccountsKept, Stays
<1> QED BY <1>3, <1>6 DEF IInv

\* Steps that touch none of ws, backlog and the lists of the proxy keep the
\* accounts and the observations.
LEMMA ListsKept ==
  ASSUME IInv, UNCHANGED <<entries, sent, pending, ws, backlog>>
  PROVE  Accounts' /\ OneObservation'
  BY DEF IInv, Accounts, OneObservation, Owners, Accepted

\* A datagram for the client, of a node or of nobody the client knows, is one.
LEMMA DatagramTypes ==
  /\ \A r \in sent : sent \subseteq Request => Answers(r) \subseteq Datagram
  /\ \A t \in StrayTokens : Stray(t) \in Datagram
<1>1. ASSUME sent \subseteq Request, NEW r \in sent, NEW m \in Answers(r)
      PROVE  m \in Datagram
  <2>1. r.id \in Uint16 /\ r.key \in Str /\ r.path \in Str
    BY <1>1 DEF Request
  <2>2. Types \subseteq {"CON", "NON", "ACK", "RST"}
    BY TypesAreCoap
  <2>3. PICK t \in Types, c \in {"EMPTY", "2.05"}, o \in BOOLEAN,
             v \in Values \cup {0} :
          m = [type |-> t, code |-> c, id |-> r.id, token |-> r.key,
               observe |-> o, path |-> r.path, value |-> v]
    BY <1>1 DEF Answers
  <2> QED BY <2>1, <2>2, <2>3 DEF Datagram
<1>2. ASSUME NEW t \in StrayTokens
      PROVE  Stray(t) \in Datagram
  <2>1. 0 \in Uint16
    BY DEF Uint16
  <2>2. \A b \in BOOLEAN :
          [type |-> "CON", code |-> "2.05", id |-> 0, token |-> t,
           observe |-> b, path |-> <<0>>, value |-> 1] \in Datagram
    BY <2>1, Strings DEF Datagram
  <2> QED BY <2>2 DEF Stray
<1> QED BY <1>1, <1>2

\* Whatever browsers, the web server, nodes and the network do keeps it.
LEMMA EnvironmentKeeps == IInv /\ Environment => IInv'
<1> SUFFICES ASSUME IInv, Environment PROVE IInv'
  OBVIOUS
<1>1. ASSUME NEW h \in HttpReqs,
             \/ \E n \in Asks, now \in BOOLEAN : HttpRequest(h, n, now)
             \/ HttpSpeak(h) \/ HttpClose(h)
      PROVE  IInv'
  <2>1. http \in [HttpReqs -> HttpState]
    BY DEF IInv, TypeOK
  <2>2. /\ \A n \in Asks, now \in BOOLEAN, b \in BOOLEAN :
             [stage |-> "queued", name |-> n, spoken |-> now, open |-> b] \in HttpState
        /\ \A b \in BOOLEAN : /\ [http[h] EXCEPT !.spoken = b] \in HttpState
                             /\ [http[h] EXCEPT !.open = b] \in HttpState
    BY <2>1, Strings DEF HttpState
  <2>3. \E r \in HttpState : http' = [http EXCEPT ![h] = r]
    BY <1>1, <2>1, <2>2 DEF HttpRequest, HttpSpeak, HttpClose
  <2>4. http' \in [HttpReqs -> HttpState]
    BY <2>1, <2>3
  <2>5. UNCHANGED <<proxyVars, clientq, serverq, backlog, ws, inbox, datagrams,
                    rdRequests>>
    BY <1>1 DEF HttpRequest, HttpSpeak, HttpClose
  <2>6. TypeOK'
    BY <2>4, <2>5 DEF proxyVars, IInv, TypeOK
  <2> QED BY <2>5, <2>6, ListsKept DEF proxyVars, IInv
<1>2. ASSUME NEW m \in Datagram, ClientDatagram(m)
      PROVE  IInv'
  <2>1. clientq' \in Seq(Datagram) /\ clientq' # <<>> /\ datagrams' \in Nat
    <3>1. clientq \in Seq(Datagram) /\ datagrams \in Nat
      BY DEF IInv, TypeOK
    <3> QED BY <1>2, <3>1 DEF ClientDatagram
  <2>2. TypeOK'
    BY <1>2, <2>1 DEF ClientDatagram, proxyVars, IInv, TypeOK
  <2> QED BY <1>2, <2>2, ListsKept DEF ClientDatagram, proxyVars, IInv
<1>3. ASSUME NEW method \in Methods, NEW n \in Names, RdDatagram(method, n)
      PROVE  IInv'
  <2>1. /\ serverq' \in Seq(RdRequest) /\ serverq' # <<>>
        /\ rdRequests' \in Nat
    <3>1. serverq \in Seq(RdRequest) /\ rdRequests \in Nat
      BY DEF IInv, TypeOK
    <3>2. [method |-> method, name |-> n] \in RdRequest
      BY DEF RdRequest
    <3> QED BY <1>3, <3>1, <3>2 DEF RdDatagram
  <2>2. TypeOK'
    BY <1>3, <2>1 DEF RdDatagram, proxyVars, IInv, TypeOK
  <2> QED BY <1>3, <2>2, ListsKept DEF RdDatagram, proxyVars, IInv
<1>4. ASSUME NEW r \in sent, NEW m \in Answers(r), ClientDatagram(m)
      PROVE  IInv'
  BY <1>2, <1>4, DatagramTypes DEF IInv, TypeOK
<1>5. ASSUME NEW t \in StrayTokens, ClientDatagram(Stray(t))
      PROVE  IInv'
  BY <1>2, <1>5, DatagramTypes
<1> QED BY <1>1, <1>3, <1>4, <1>5, ConnectKeeps, SpeakCloseKeeps DEF Environment

-----------------------------------------------------------------------------
(* The steps of the loop.                                                  *)

\* select() reports what is there, and a turn that is passed changes only the
\* place in the loop: clean_pending finds only connections that observe.
LEMMA SelectPassKeeps ==
  ASSUME IInv,
         Select \/ \E s \in Sockets : Pass(s)
  PROVE  IInv' /\ UNCHANGED inbox
<1>1. CASE Select
  <2>1. TypeOK'
    BY <1>1 DEF Select, IInv, TypeOK, Sockets
  <2> QED BY <1>1, <2>1, ListsKept DEF Select, IInv
<1>2. ASSUME NEW s \in Sockets, Pass(s)
      PROVE  IInv' /\ UNCHANGED inbox
  <2>1. pending' = pending
    BY <1>2, CleanNothing DEF Pass, IInv, Accounts
  <2>2. TypeOK'
    BY <1>2, <2>1 DEF Pass, NextTurn, IInv, TypeOK, Sockets
  <2> QED BY <1>2, <2>1, <2>2, ListsKept DEF Pass, IInv
<1> QED BY <1>1, <1>2

\* Freeing connections that were accepted keeps every browser's request, and
\* takes no browser out of a backlog.
LEMMA FreeKeeps ==
  ASSUME IInv, NEW gone, \A w \in gone : Accepted(w), FreeOwners(gone)
  PROVE  /\ ws' \in [Ws -> WsState]
         /\ KeepsAccepted
         /\ \A w \in Ws : ws[w].stage = "backlog" => ws'[w].stage = "backlog"
<1>1. ws \in [Ws -> WsState]
  BY DEF IInv, TypeOK
<1>2. ASSUME NEW w \in Ws
      PROVE  [ws[w] EXCEPT !.stage = "freed"] \in WsState
  BY <1>1 DEF WsState
<1>3. ws' \in [Ws -> WsState]
  BY <1>1, <1>2 DEF FreeOwners
<1>4. ASSUME NEW w \in Ws
      PROVE  /\ ws'[w].observe = ws[w].observe /\ ws'[w].name = ws[w].name
             /\ ws'[w].stage \in {ws[w].stage, "freed"}
             /\ ws[w].stage # ws'[w].stage => Accepted(w)
  <2>1. ws[w] \in WsState
    BY <1>1
  <2>2. CASE w \in gone
    <3>1. ws'[w] = [ws[w] EXCEPT !.stage = "freed"]
      BY <2>2 DEF FreeOwners
    <3> QED BY <2>1, <2>2, <3>1 DEF WsState
  <2>3. CASE w \notin gone
    BY <2>3 DEF FreeOwners
  <2> QED BY <2>2, <2>3
<1>5. KeepsAccepted
  BY <1>4 DEF KeepsAccepted, Accepted
<1>6. \A w \in Ws : ws[w].stage = "backlog" => ws'[w].stage = "backlog"
  BY <1>4 DEF Accepted
<1> QED BY <1>3, <1>5, <1>6

\* Taking one node out of the pending queue frees one owner at most.
LEMMA DeleteFreesOne ==
  ASSUME NEW p \in Seq(Conn), NEW key, NEW len
  PROVE  \E t : OwnersIn(p) \ OwnersIn(NodeDelete(p, key, len)) \subseteq {t}
<1> DEFINE n == NodeGet(p, key, len)
           rest == Without(p, n)
<1>1. n \in {0} \cup DOMAIN p
  BY NodeGetRange
<1>2. CASE n = 0
  BY <1>2 DEF NodeDelete
<1>3. CASE n # 0
  <2>1. n \in DOMAIN p /\ NodeDelete(p, key, len) = rest
    BY <1>1, <1>3 DEF NodeDelete
  <2> HIDE DEF n
  <2>2. /\ rest \in Seq(Conn) /\ Len(rest) = Len(p) - 1
        /\ \A j \in 1..(Len(p) - 1) : rest[j] = IF j < n THEN p[j] ELSE p[j + 1]
    BY <2>1, WithoutElements
  <2> HIDE DEF rest
  <2>3. ASSUME NEW i \in DOMAIN p, i # n
        PROVE  p[i].owner \in OwnersIn(rest)
    <3>1. CASE i < n
      <4>1. i \in DOMAIN rest /\ rest[i] = p[i]
        BY <2>1, <2>2, <3>1
      <4> QED BY <4>1 DEF OwnersIn
    <3>2. CASE i > n
      <4>1. i - 1 \in DOMAIN rest /\ rest[i - 1] = p[i]
        BY <2>1, <2>2, <3>2
      <4> QED BY <4>1 DEF OwnersIn
    <3> QED BY <2>1, <2>3, <3>1, <3>2
  <2>4. OwnersIn(p) \ OwnersIn(rest) \subseteq {p[n].owner}
    BY <2>3 DEF OwnersIn
  <2> QED BY <2>1, <2>4
<1> QED BY <1>2, <1>3

\* What coap_client_dispatch does with a queue of observing connections: it
\* finds the connection of the token again that it has looked at, and only an
\* answer without Observe takes one away.
LEMMA DispatchOfObserving ==
  ASSUME NEW p \in Seq(Conn), \A i \in DOMAIN p : p[i].is_observe, NEW m
  PROVE  LET d == Dispatch(p, m)
         IN  /\ d.seen = p
             /\ d.handled => NodeGet(p, m.token, Len(m.token)) # 0
             /\ \/ OwnersIn(p) \ OwnersIn(d.after) = {}
                \/ /\ d.handled /\ ~m.observe
                   /\ \E t : OwnersIn(p) \ OwnersIn(d.after) \subseteq {t}
<1> DEFINE i == IF m.token = <<>> THEN 0 ELSE Examined(p, m)
           conn == p[i]
           matched == i # 0 /\ conn.key = m.token
           isAck == matched /\ m.type = "ACK" /\ conn.id = m.id
           answered == isAck /\ m.code # "EMPTY"
           separate == matched /\ m.type \in {"CON", "NON"}
           removed == NodeDelete(p, IdKey(conn.id), IdKeyLen)
           d == Dispatch(p, m)
<1>1. i \in {0} \cup DOMAIN p
  BY ExaminedRange
<1>2. matched => i \in DOMAIN p /\ conn.is_observe
  BY <1>1
<1>3. d.handled => matched
  BY DEF Dispatch
<1>4. matched => NodeGet(p, m.token, Len(m.token)) # 0
  <2> SUFFICES ASSUME matched PROVE NodeGet(p, m.token, Len(m.token)) # 0
    OBVIOUS
  <2>1. i \in DOMAIN p /\ conn.key = m.token
    BY <1>2
  <2>2. p[i] \in Conn
    BY <2>1
  <2>3. m.token \in Seq(Int)
    BY <2>1, <2>2 DEF Conn, Str
  <2>4. StrNEq(m.token, m.token, Len(m.token))
    BY <2>3 DEF StrNEq
  <2>5. StrNEq(p[i].key, m.token, Len(m.token))
    BY <2>1, <2>4
  <2> HIDE DEF i
  <2> QED BY <2>1, <2>5, NodeGetFinds
<1>5. d.seen = p
  BY <1>2 DEF Dispatch
<1>6. \/ d.after = p
      \/ d.handled /\ ~m.observe /\ d.after = removed
      \/ isAck /\ d.after \in {[p EXCEPT ![i].is_observe = TRUE],
                               [p EXCEPT ![i].is_separate_response = TRUE]}
  BY <1>2 DEF Dispatch
<1>7. ASSUME isAck
      PROVE  /\ OwnersIn([p EXCEPT ![i].is_observe = TRUE]) = OwnersIn(p)
             /\ OwnersIn([p EXCEPT ![i].is_separate_response = TRUE]) = OwnersIn(p)
  <2>1. i \in DOMAIN p
    BY <1>2, <1>7
  <2> HIDE DEF i
  <2>2. /\ \A j \in DOMAIN p : [p EXCEPT ![i].is_observe = TRUE][j].owner = p[j].owner
        /\ \A j \in DOMAIN p :
             [p EXCEPT ![i].is_separate_response = TRUE][j].owner = p[j].owner
    BY <2>1 DEF Conn
  <2>3. /\ DOMAIN [p EXCEPT ![i].is_observe = TRUE] = DOMAIN p
        /\ DOMAIN [p EXCEPT ![i].is_separate_response = TRUE] = DOMAIN p
    OBVIOUS
  <2> QED BY <2>2, <2>3 DEF OwnersIn
<1>8. \E t : OwnersIn(p) \ OwnersIn(removed) \subseteq {t}
  BY DeleteFreesOne
<1> HIDE DEF removed, isAck, d, i
<1>9. d = Dispatch(p, m)
  BY DEF d
<1> QED BY <1>3, <1>4, <1>5, <1>6, <1>7, <1>8, <1>9

\* Whom client_response_received writes to: one browser, or the observers of
\* one entry.
LEMMA RecipientsAre ==
  ASSUME IInv, NEW m, NEW out, out = Recipients(pending, m)
  PROVE  \/ out = <<>> /\ (m.observe \/ NodeGet(pending, m.token, Len(m.token)) = 0)
         \/ ~m.observe /\ \E w \in Ws : out = <<w>>
         \/ m.observe /\ \E k \in DOMAIN entries : out = entries[k].observers
<1> DEFINE j == NodeGet(pending, m.token, Len(m.token))
           k == EntryFor(pending[j].path)
<1>1. pending \in Seq(Conn) /\ entries \in Seq(Entry)
  BY DEF IInv, TypeOK
<1>2. j \in {0} \cup DOMAIN pending
  BY <1>1, NodeGetRange
<1>3. k \in {0} \cup DOMAIN entries
  BY <1>1, NodeGetRange DEF EntryFor
<1>4. out = IF j = 0 THEN <<>>
            ELSE IF ~m.observe THEN <<pending[j].owner>>
            ELSE IF k = 0 THEN <<>> ELSE entries[k].observers
  BY DEF Recipients
<1> HIDE DEF j, k
<1>5. ASSUME j # 0
      PROVE  pending[j].owner \in Ws
  <2>1. pending[j] \in Conn
    BY <1>1, <1>2, <1>5
  <2> QED BY <2>1 DEF Conn
<1>6. j = NodeGet(pending, m.token, Len(m.token))
  BY DEF j
<1> QED BY <1>3, <1>4, <1>5, <1>6

\* A list that names nobody twice: m reaches each of its browsers that is still
\* there once (connection_response_send).
Reaches(S, m) ==
  inbox' = [w \in Ws |-> IF w \in S /\ Listening(w) THEN Append(inbox[w], Frame(m))
                         ELSE inbox[w]]

\* One node of the list, one frame.
LEMMA ReceiveReaches ==
  ASSUME IInv, NEW m, NEW out \in Seq(Ws), IsInjective(out), Receive(out, m)
  PROVE  Reaches(Range(out), m)
<1>1. ASSUME NEW w \in Ws
      PROVE  /\ w \in Range(out) =>
                  inbox[w] \o [i \in 1..Times(w, out) |-> Frame(m)]
                    = Append(inbox[w], Frame(m))
             /\ w \notin Range(out) =>
                  inbox[w] \o [i \in 1..Times(w, out) |-> Frame(m)] = inbox[w]
  <2> DEFINE at == {i \in DOMAIN out : out[i] = w}
             f == Frame(m)
             old == inbox[w]
  <2>1. Times(w, out) = Cardinality(at)
    BY DEF Times
  <2>2. old \in Seq(FrameType)
    BY DEF IInv, TypeOK
  <2> HIDE DEF f, old
  <2>3. ASSUME w \in Range(out)
        PROVE  old \o [i \in 1..Times(w, out) |-> f] = Append(old, f)
    <3>1. PICK i \in DOMAIN out : out[i] = w
      BY <2>3 DEF Range
    <3>2. at = {i}
      BY <3>1 DEF IsInjective
    <3>3. Cardinality({i}) = 1
      BY FS_Singleton
    <3>4. Times(w, out) = 1
      BY <2>1, <3>2, <3>3
    <3>5. [j \in 1..1 |-> f] = <<f>>
      OBVIOUS
    <3>6. old \o <<f>> = Append(old, f)
      BY <2>2
    <3> QED BY <3>4, <3>5, <3>6
  <2>4. ASSUME w \notin Range(out)
        PROVE  old \o [i \in 1..Times(w, out) |-> f] = old
    <3>1. at = {}
      BY <2>4 DEF Range
    <3>2. Times(w, out) = 0
      BY <2>1, <3>1, FS_EmptySet
    <3>3. [j \in 1..0 |-> f] = <<>>
      OBVIOUS
    <3>4. old \o <<>> = old
      BY <2>2
    <3> QED BY <3>2, <3>3, <3>4
  <2> QED BY <2>3, <2>4 DEF f, old
<1>2. inbox' = [w \in Ws |-> IF Listening(w)
                               THEN inbox[w] \o [i \in 1..Times(w, out) |-> Frame(m)]
                               ELSE inbox[w]]
  BY DEF Receive
<1>3. inbox \in [Ws -> Seq(FrameType)]
  BY DEF IInv, TypeOK
<1> HIDE DEF Times, Frame
<1> QED BY <1>1, <1>2 DEF Reaches

\* The first nodes of a list that names nobody twice.
LEMMA FirstOnes ==
  ASSUME NEW out \in Seq(Ws), IsInjective(out), NEW k \in DOMAIN out
  PROVE  LET front == SubSeq(out, 1, k - 1)
         IN  /\ front \in Seq(Ws) /\ IsInjective(front)
             /\ Range(front) = {out[i] : i \in 1..(k - 1)}
<1> DEFINE front == SubSeq(out, 1, k - 1)
<1>1. /\ front \in Seq(Ws) /\ Len(front) = k - 1
      /\ \A j \in 1..(k - 1) : front[j] = out[j]
  BY SubSeqProperties
<1>2. 1..(k - 1) \subseteq DOMAIN out
  OBVIOUS
<1> HIDE DEF front
<1>3. DOMAIN front = 1..(k - 1)
  BY <1>1
<1>4. IsInjective(front)
  BY <1>1, <1>2, <1>3 DEF IsInjective
<1>5. Range(front) = {out[i] : i \in 1..(k - 1)}
  BY <1>1, <1>3 DEF Range
<1> QED BY <1>1, <1>4, <1>5 DEF front

\* Whom a datagram is sent to: a list that names nobody twice.
LEMMA RecipientsOnce ==
  ASSUME IInv, NEW m, NEW out,
         out \in {Recipients(pending, m), <<>>}
  PROVE  out \in Seq(Ws) /\ IsInjective(out)
<1>1. \/ out = <<>>
      \/ \E w \in Ws : out = <<w>>
      \/ \E k \in DOMAIN entries : out = entries[k].observers
  BY RecipientsAre
<1>2. IsInjective(<<>>) /\ \A w \in Ws : IsInjective(<<w>>)
  BY DEF IsInjective
<1>3. \A k \in DOMAIN entries :
        entries[k].observers \in Seq(Ws) /\ IsInjective(entries[k].observers)
  BY ObserverLists DEF IInv, Accounts
<1>4. <<>> \in Seq(Ws) /\ \A w \in Ws : <<w>> \in Seq(Ws)
  OBVIOUS
<1> QED BY ONLY <1>1, <1>2, <1>3, <1>4, Zenon

\* What a datagram does, in terms of the browsers it reaches: all those of the
\* list, or those before one whose connection is broken.
LEMMA PassOnReaches ==
  ASSUME IInv, NEW m, NEW d, NEW out \in Seq(Ws), IsInjective(out),
         PassOn(m, d, out)
  PROVE  \/ /\ Reaches(Range(out), m)
            /\ pending' = d.after
            /\ FreeOwners(OwnersIn(pending) \ OwnersIn(d.after))
            /\ pc' = "server"
         \/ \E k \in DOMAIN out :
              /\ Reaches({out[i] : i \in 1..(k - 1)}, m)
              /\ pending' = d.seen
              /\ FreeOwners(OwnersIn(pending) \ OwnersIn(d.seen))
              /\ pc' \in {"hung", "crashed"}
              /\ ~Listening(out[k])
<1>1. CASE /\ Receive(out, m) /\ pending' = d.after
           /\ FreeOwners(OwnersIn(pending) \ OwnersIn(d.after))
           /\ pc' = "server"
  <2>1. Reaches(Range(out), m)
    BY <1>1, ReceiveReaches
  <2> QED BY <1>1, <2>1
<1>2. ASSUME NEW k \in DOMAIN out, ~Listening(out[k]),
             Receive(SubSeq(out, 1, k - 1), m)
      PROVE  Reaches({out[i] : i \in 1..(k - 1)}, m)
  <2> DEFINE front == SubSeq(out, 1, k - 1)
  <2>1. /\ front \in Seq(Ws) /\ IsInjective(front) /\ Receive(front, m)
        /\ Range(front) = {out[i] : i \in 1..(k - 1)}
    BY <1>2, FirstOnes
  <2> HIDE DEF front
  <2>2. Reaches(Range(front), m)
    BY <2>1, ReceiveReaches
  <2> QED BY <2>1, <2>2
<1> QED BY <1>1, <1>2 DEF PassOn

\* A datagram leaves only observing connections of browsers that have sent a
\* request, and frees only browsers that were accepted.
LEMMA ClientTurnKeeps ==
  ASSUME IInv, ClientTurn
  PROVE  /\ IInv'
         /\ \A w \in Ws : \/ inbox'[w] = inbox[w]
                          \/ /\ clientq # <<>> /\ clientq' = Tail(clientq)
                             /\ inbox'[w] = Append(inbox[w], Frame(Head(clientq)))
<1> DEFINE m == Head(clientq)
           d == Dispatch(pending, m)
<1> HIDE DEF d
<1>1. clientq \in Seq(Datagram) /\ clientq # <<>>
  BY DEF IInv, TypeOK, ClientTurn
<1>2. m \in Datagram /\ clientq' = Tail(clientq) /\ clientq' \in Seq(Datagram)
  BY <1>1 DEF ClientTurn
<1>3. PICK out : PassOn(m, d, out) /\ out \in Seq(Ws) /\ IsInjective(out)
  <2>1. PassOn(m, d, IF d.handled THEN Recipients(d.seen, m) ELSE <<>>)
    BY DEF ClientTurn, d
  <2>2. d.seen = pending
    BY DispatchOfObserving DEF d, IInv, TypeOK, Accounts
  <2> HIDE DEF m
  <2> QED BY <2>1, <2>2, RecipientsOnce
<1>4. PICK S, q : /\ Reaches(S, m) /\ pending' = q
                  /\ q \in {d.seen, d.after}
                  /\ FreeOwners(OwnersIn(pending) \ OwnersIn(q))
                  /\ pc' \in {"server", "hung", "crashed"}
  <2> HIDE DEF m
  <2> QED BY <1>3, PassOnReaches
<1>5. Descends(q, pending)
  <2>1. pending \in Seq(Conn)
    BY DEF IInv, TypeOK
  <2> QED BY <1>4, <2>1, DispatchDescends DEF d
<1>6. \A w \in OwnersIn(pending) : w \in Owners /\ Accepted(w)
  BY DEF IInv, Accounts, OwnersIn
<1>7. /\ ws' \in [Ws -> WsState] /\ KeepsAccepted
      /\ \A w \in Ws : ws[w].stage = "backlog" => ws'[w].stage = "backlog"
  BY <1>4, <1>6, FreeKeeps
<1>8. UNCHANGED <<ready, message_id, token, entries, sent, serverq, backlog,
                  http, datagrams, rdRequests>>
  BY DEF ClientTurn
<1>9. \A w \in Ws : inbox'[w] \in {inbox[w], Append(inbox[w], Frame(m))}
  BY <1>4 DEF Reaches
<1>10. TypeOK'
  <2>1. Frame(m) \in FrameType
    BY <1>2 DEF Frame, FrameType, Datagram
  <2>2. inbox \in [Ws -> Seq(FrameType)]
    BY DEF IInv, TypeOK
  <2>3. inbox' \in [Ws -> Seq(FrameType)]
    BY <1>4, <2>1, <2>2 DEF Reaches
  <2>4. pending' \in Seq(Conn)
    BY <1>4, <1>5 DEF Descends
  <2> QED BY <1>2, <1>4, <1>7, <1>8, <2>3, <2>4 DEF IInv, TypeOK, Sockets
<1>11. Accounts' /\ OneObservation'
  <2>1. PendingDescends
    BY <1>4, <1>5 DEF Descends, SameRequest, IInv, Accounts, PendingDescends
  <2> QED BY <1>7, <1>8, <2>1, AccountsKept, Stays
<1> QED BY <1>1, <1>2, <1>9, <1>10, <1>11 DEF IInv

\* A request to the directory brings in an entry nobody watches, or takes one
\* away and frees its observers.
LEMMA ServerTurnKeeps ==
  ASSUME IInv, ServerTurn
  PROVE  IInv' /\ UNCHANGED inbox
<1> DEFINE m == Head(serverq)
<1>1. serverq \in Seq(RdRequest) /\ serverq # <<>>
  BY DEF IInv, TypeOK, ServerTurn
<1>2. m.name \in Names /\ serverq' \in Seq(RdRequest)
  <2>1. m \in RdRequest
    BY <1>1
  <2>2. serverq' = Tail(serverq)
    BY DEF ServerTurn
  <2> QED BY <1>1, <2>1, <2>2 DEF RdRequest
<1>3. entries \in Seq(Entry) /\ ws \in [Ws -> WsState]
  BY DEF IInv, TypeOK
<1>4. UNCHANGED <<ready, message_id, token, pending, sent, clientq, backlog,
                  inbox, http, datagrams, rdRequests>>
  BY DEF ServerTurn
<1>5. pc' \in {"fcgi", "crashed"}
  BY DEF ServerTurn
<1>6. \/ Register(m.name)
      \/ Unregister(m.name)
      \/ UNCHANGED <<entries, ws>>
  BY DEF ServerTurn
<1> DEFINE Goal == /\ entries' \in Seq(Entry) /\ EntriesDescend
                   /\ ws' \in [Ws -> WsState] /\ KeepsAccepted
                   /\ \A w \in Ws : ws[w].stage = "backlog" => ws'[w].stage = "backlog"
<1>7. ASSUME Register(m.name)
      PROVE  Goal
  <2> DEFINE node == NewEntry(m.name)
  <2>1. node \in Entry
    BY <1>2, Strings DEF NewEntry, Entry
  <2>2. node.observers = <<>>
    BY DEF NewEntry
  <2>3. entries' = NodeInsert(entries, node) /\ ws' = ws
    BY <1>7 DEF Register
  <2> HIDE DEF node
  <2>4. entries' \in Seq(Entry)
    BY <1>3, <2>1, <2>3, NodeInsertIsSeq
  <2>5. \A k \in DOMAIN entries' :
          entries'[k] = node \/ \E j \in DOMAIN entries : entries'[k] = entries[j]
    BY <1>3, <2>1, <2>3, NodeInsertIsSeq
  <2>6. EntriesDescend
    BY <2>2, <2>5 DEF EntriesDescend
  <2> QED BY <1>3, <2>3, <2>4, <2>6, Stays
<1>8. ASSUME Unregister(m.name)
      PROVE  Goal
  <2> DEFINE k == EntryFor(m.name)
  <2>1. k \in {0} \cup DOMAIN entries
    BY <1>3, NodeGetRange DEF EntryFor
  <2>2. entries' = NodeDelete(entries, m.name, Len(m.name))
    BY <1>8 DEF Unregister
  <2>3. entries' \in Seq(Entry) /\ EntriesDescend
    BY <1>3, <2>2, NodeDeleteIsSeq DEF EntriesDescend
  <2>4. CASE k = 0
    <3>1. ws' = ws
      BY <1>8, <2>4 DEF Unregister
    <3> QED BY <1>3, <2>3, <3>1, Stays
  <2>5. CASE k # 0
    <3>1. FreeOwners(Range(entries[k].observers))
      BY <1>8, <2>5 DEF Unregister
    <3>2. \A w \in Range(entries[k].observers) : Accepted(w)
      BY <2>1, <2>5, ObserverLists DEF Range, IInv, Accounts
    <3> QED BY <2>3, <3>1, <3>2, FreeKeeps
  <2> QED BY <2>4, <2>5
<1>9. ASSUME UNCHANGED <<entries, ws>>
      PROVE  Goal
  BY <1>3, <1>9, Stays
<1>10. Goal
  BY <1>6, <1>7, <1>8, <1>9
<1> HIDE DEF m
<1>11. TypeOK'
  BY <1>2, <1>4, <1>5, <1>10 DEF IInv, TypeOK, Sockets
<1>12. Accounts' /\ OneObservation'
  BY <1>4, <1>10, AccountsKept, Stays
<1> QED BY <1>4, <1>11, <1>12 DEF IInv

\* The steps of process_fastcgi_request, and an accept() of either kind that fails.
FcgiStep ==
  \/ FcgiTurn \/ AcceptFails
  \/ \E h \in HttpReqs : AcceptHttp(h) \/ DropHttp(h) \/ HttpTurn(h)

\* An HTTP request leaves no trace but the counters.
LEMMA FcgiStepKeeps ==
  ASSUME IInv, FcgiStep
  PROVE  IInv' /\ UNCHANGED inbox
<1> USE DEF FcgiTurn, AcceptFails, AcceptHttp, DropHttp, HttpTurn
<1>1. message_id' \in Ids /\ token' \in Tokens
  <2>1. message_id \in Ids /\ token \in Tokens
    BY DEF IInv, TypeOK
  <2>2. message_id' \in {message_id, Advance(message_id)}
        /\ token' \in {token, Advance(token)}
    BY DEF FcgiStep
  <2> QED BY <2>1, <2>2, AdvanceIsUint16, Counters
<1>2. http' \in [HttpReqs -> HttpState]
  <2>1. http \in [HttpReqs -> HttpState]
    BY DEF IInv, TypeOK
  <2>2. \A h \in HttpReqs :
          \A b \in {"reading", "dropped", "finished", "forwarded"} :
            [http[h] EXCEPT !.stage = b] \in HttpState
    BY <2>1 DEF HttpState
  <2> QED BY <2>1, <2>2 DEF FcgiStep
<1>3. /\ pc' \in {"accept", "request", "websocket", "select", "crashed"}
      /\ UNCHANGED <<ready, pending, entries, sent, clientq, serverq, backlog,
                     ws, inbox, datagrams, rdRequests>>
  BY DEF FcgiStep
<1>4. TypeOK'
  BY <1>1, <1>2, <1>3 DEF IInv, TypeOK, Sockets
<1> QED BY <1>3, <1>4, ListsKept DEF IInv

\* Accepting takes the first of the backlog, who is in it only once.
LEMMA WebsocketTurnKeeps ==
  ASSUME IInv, WebsocketTurn
  PROVE  IInv' /\ UNCHANGED inbox
<1> DEFINE v == Head(backlog)
<1>1. backlog \in Seq(Ws) /\ backlog # <<>> /\ ws \in [Ws -> WsState]
  BY DEF IInv, TypeOK, WebsocketTurn
<1>2. /\ v \in Ws /\ v = backlog[1] /\ ws[v].stage = "backlog"
      /\ backlog' = Tail(backlog) /\ backlog' \in Seq(Ws)
      /\ Len(backlog') = Len(backlog) - 1
      /\ \A i \in DOMAIN backlog' :
           backlog'[i] = backlog[i + 1] /\ i + 1 \in DOMAIN backlog
  BY <1>1 DEF WebsocketTurn, IInv, Accounts
<1>3. ws' = [ws EXCEPT ![v].stage = "handshake"]
  BY DEF WebsocketTurn
<1> HIDE DEF v
<1>4. [ws[v] EXCEPT !.stage = "handshake"] \in WsState
  BY <1>1, <1>2 DEF WsState
<1>5. ws' \in [Ws -> WsState]
  BY <1>1, <1>2, <1>3, <1>4
<1>6. /\ pc' = "handshake"
      /\ UNCHANGED <<ready, message_id, token, pending, entries, sent, clientq,
                     serverq, inbox, http, datagrams, rdRequests>>
  BY DEF WebsocketTurn
<1>7. TypeOK'
  BY <1>2, <1>5, <1>6 DEF IInv, TypeOK
<1>8. KeepsAccepted
  BY <1>1, <1>2, <1>3 DEF KeepsAccepted, Accepted
<1>9. BacklogKept
  <2>1. \A i \in DOMAIN backlog' : backlog'[i] # v /\ backlog'[i] \in Ws
    BY <1>1, <1>2 DEF IInv, Accounts, IsInjective
  <2>2. \A i \in DOMAIN backlog' : ws'[backlog'[i]].stage = "backlog"
    BY <1>1, <1>2, <1>3, <2>1 DEF IInv, Accounts
  <2>3. IsInjective(backlog')
    BY <1>1, <1>2 DEF IInv, Accounts, IsInjective
  <2> QED BY <2>2, <2>3 DEF BacklogKept
<1> QED BY <1>6, <1>7, <1>8, <1>9, AccountsKept, Stays DEF IInv

\* The observe request of StartObservation, and the connection that waits.
LEMMA StartObservationKeeps ==
  ASSUME IInv, NEW w \in Ws, NEW n \in Str, StartObservation(w, n)
  PROVE  /\ message_id' \in Ids /\ token' \in Tokens
         /\ sent' \subseteq Request /\ Owners' = Owners \cup {w}
         /\ pending' \in Seq(Conn)
         /\ \A j \in DOMAIN pending' :
              pending'[j].is_observe /\ pending'[j].owner \in Owners \cup {w}
<1> DEFINE blank == [key |-> <<>>, id |-> 0, path |-> n, owner |-> w]
           req == Stamp(blank, message_id, token)
           new == Awaiting(req)
<1>1. /\ message_id \in Ids /\ token \in Tokens /\ sent \subseteq Request
      /\ pending \in Seq(Conn)
  BY DEF IInv, TypeOK
<1>2. sent' = sent \cup {req} /\ pending' = NodeInsert(pending, new)
  BY DEF StartObservation
<1>3. message_id' \in Ids /\ token' \in Tokens
  BY <1>1, AdvanceIsUint16, Counters DEF StartObservation
<1>4. req \in Request /\ req.owner = w
  <2>1. TokenKey(token) \in Str /\ 0 \in Uint16
    BY <1>1, Counters, TokenKeyIsString DEF Uint16
  <2>3. message_id % 65536 \in Uint16
    BY <1>1, Counters DEF Uint16
  <2>2. blank \in Request /\ blank.owner = w
    BY <2>1, Strings DEF Request
  <2> HIDE DEF blank
  <2>4. \A i \in Uint16, t \in Str :
          /\ [blank EXCEPT !.id = i, !.key = t] \in Request
          /\ [blank EXCEPT !.id = i, !.key = t].owner = w
    BY <2>2 DEF Request
  <2> DEFINE mid == message_id % 65536
             key == TokenKey(token)
  <2>5. req = [blank EXCEPT !.id = mid, !.key = key]
    BY DEF Stamp
  <2>6. mid \in Uint16 /\ key \in Str
    BY <2>1, <2>3
  <2> HIDE DEF mid, key, req
  <2> QED BY <2>4, <2>5, <2>6
<1>5. new \in Conn /\ new.is_observe /\ new.owner = w
  <2>1. /\ req.key \in Str /\ req.id \in Uint16 /\ req.path \in Str
        /\ req.owner \in Ws
    BY <1>4 DEF Request
  <2> HIDE DEF req
  <2>2. \A b, c \in BOOLEAN :
          [key |-> req.key, id |-> req.id, path |-> req.path,
           owner |-> req.owner, is_observe |-> b,
           is_separate_response |-> c, n_retransmit |-> 0] \in Conn
    BY <2>1 DEF Conn
  <2> QED BY <1>4, <2>2 DEF Awaiting
<1> HIDE DEF req, new
<1>6. sent' \subseteq Request /\ Owners' = Owners \cup {w}
  BY <1>1, <1>2, <1>4 DEF Owners
<1>7. /\ pending' \in Seq(Conn)
      /\ \A j \in DOMAIN pending' :
           pending'[j] = new \/ \E i \in DOMAIN pending : pending'[j] = pending[i]
  BY <1>1, <1>2, <1>5, NodeInsertIsSeq
<1>8. \A j \in DOMAIN pending' :
         pending'[j].is_observe /\ pending'[j].owner \in Owners \cup {w}
  BY <1>5, <1>7 DEF IInv, Accounts
<1> QED BY <1>3, <1>6, <1>7, <1>8

\* A browser that has just been accepted is in no list: it has sent nothing and
\* observes nothing.
LEMMA Newcomer ==
  ASSUME IInv, NEW w \in Ws, ws[w].stage = "handshake"
  PROVE  /\ ~Accepted(w) /\ w \notin Owners
         /\ \A k \in DOMAIN entries : \A i \in DOMAIN entries[k].observers :
              entries[k].observers[i] # w
         /\ \A i \in DOMAIN backlog : backlog[i] # w
  BY DEF Accepted, IInv, Accounts

\* Inserting a node that is not there names nobody twice.
LEMMA InsertInjective ==
  ASSUME NEW S, NEW list \in Seq(S), IsInjective(list), NEW node \in S,
         \A i \in DOMAIN list : list[i] # node
  PROVE  IsInjective(NodeInsert(list, node))
<1> DEFINE new == NodeInsert(list, node)
<1>1. new \in Seq(S) /\ Len(new) = Len(list) + 1
  BY NodeInsertLength
<1>2. /\ Len(list) = 0 => new[1] = node
      /\ Len(list) # 0 => new[1] = list[1] /\ new[2] = node
      /\ \A j \in 3..(Len(list) + 1) : new[j] = list[j - 1]
  BY NodeInsertHead, NodeInsertRest
<1>3. new = NodeInsert(list, node)
  OBVIOUS
<1> HIDE DEF new
<1>4. DOMAIN new = 1..(Len(list) + 1)
  BY <1>1
<1>5. CASE Len(list) = 0
  BY <1>3, <1>4, <1>5 DEF IsInjective
<1>6. CASE Len(list) # 0
  <2> DEFINE from(k) == IF k = 1 THEN 1 ELSE k - 1
  <2>1. \A k \in DOMAIN new : k # 2 =>
           /\ from(k) \in DOMAIN list /\ new[k] = list[from(k)]
           /\ new[k] # node
    BY <1>2, <1>4, <1>6
  <2>2. \A k, l \in DOMAIN new : k # 2 /\ l # 2 /\ from(k) = from(l) => k = l
    BY <1>4
  <2> HIDE DEF from
  <2>3. \A k, l \in DOMAIN new : new[k] = new[l] => k = l
    BY <1>2, <1>6, <2>1, <2>2 DEF IsInjective
  <2> QED BY <1>3, <2>3 DEF IsInjective
<1> QED BY <1>1, <1>5, <1>6

\* A browser that joins an entry becomes its first observer and the owner of an
\* observation, if it asked to observe and nobody watched; or its first observer
\* without one; or the second.
LEMMA JoinKeeps ==
  ASSUME IInv, NEW w \in Ws, ws[w].stage = "handshake",
         NEW k \in DOMAIN entries, NEW n \in Str, NEW o \in BOOLEAN,
         Join(w, k, n, o),
         IF NeedsObservation(o, entries[k])
           THEN StartObservation(w, n)
           ELSE UNCHANGED <<message_id, token, pending, sent>>,
         UNCHANGED backlog
  PROVE  /\ message_id' \in Ids /\ token' \in Tokens /\ sent' \subseteq Request
         /\ pending' \in Seq(Conn) /\ entries' \in Seq(Entry)
         /\ ws' \in [Ws -> WsState]
         /\ Accounts' /\ OneObservation'
<1> DEFINE obs == entries[k].observers
           new == NodeInsert(obs, w)
           starts == o /\ obs = <<>>
<1>1. /\ entries \in Seq(Entry) /\ ws \in [Ws -> WsState] /\ backlog \in Seq(Ws)
      /\ message_id \in Ids /\ token \in Tokens /\ sent \subseteq Request
      /\ pending \in Seq(Conn)
  BY DEF IInv, TypeOK
<1>2. /\ obs \in Seq(Ws) /\ entries[k] \in Entry
      /\ new \in Seq(Ws) /\ Len(new) = Len(obs) + 1
  BY ObserverLists, NodeInsertLength
<1>3. /\ message_id' \in Ids /\ token' \in Tokens /\ sent' \subseteq Request
      /\ pending' \in Seq(Conn)
      /\ Owners' = IF starts THEN Owners \cup {w} ELSE Owners
      /\ \A j \in DOMAIN pending' :
           pending'[j].is_observe /\ pending'[j].owner \in Owners'
  <2>1. CASE starts
    BY <2>1, StartObservationKeeps DEF NeedsObservation
  <2>2. CASE ~starts
    <3>1. UNCHANGED <<message_id, token, pending, sent>>
      BY <2>2 DEF NeedsObservation
    <3>2. Owners' = Owners
      BY <3>1 DEF Owners
    <3> QED BY <1>1, <2>2, <3>1, <3>2 DEF IInv, Accounts
  <2> QED BY <2>1, <2>2
<1>4. entries' = [entries EXCEPT ![k].observers = new]
  BY DEF Join
<1>5. ws' = [ws EXCEPT ![w].stage = "observing", ![w].name = n, ![w].observe = o]
  BY DEF Join
<1>6. /\ ws' \in [Ws -> WsState]
      /\ ws'[w].stage = "observing" /\ ws'[w].observe = o
      /\ \A v \in Ws : v # w => ws'[v] = ws[v]
  <2>1. [ws[w] EXCEPT !.stage = "observing", !.name = n, !.observe = o] \in WsState
    BY <1>1 DEF WsState
  <2>2. ws'[w] = [ws[w] EXCEPT !.stage = "observing", !.name = n, !.observe = o]
    BY <1>1, <1>5
  <2>3. \A v \in Ws : v # w => ws'[v] = ws[v]
    BY <1>1, <1>5
  <2>4. ws' \in [Ws -> WsState]
    BY <1>1, <1>5, <2>1
  <2>5. ws[w] \in WsState
    BY <1>1
  <2> QED BY <2>2, <2>3, <2>4, <2>5 DEF WsState
<1> HIDE DEF new
<1>7. /\ entries' \in Seq(Entry) /\ DOMAIN entries' = DOMAIN entries
      /\ entries'[k].observers = new
      /\ \A l \in DOMAIN entries : l # k => entries'[l] = entries[l]
  <2>1. [entries[k] EXCEPT !.observers = new] \in Entry
    BY <1>2 DEF Entry
  <2>2. entries'[k] = [entries[k] EXCEPT !.observers = new]
    BY <1>1, <1>4
  <2>3. entries'[k].observers = new
    BY <1>2, <2>2 DEF Entry
  <2>4. entries' \in Seq(Entry) /\ DOMAIN entries' = DOMAIN entries
    BY <1>1, <1>4, <2>1
  <2>5. \A l \in DOMAIN entries : l # k => entries'[l] = entries[l]
    BY <1>1, <1>4
  <2> QED BY <2>3, <2>4, <2>5
<1>8. ASSUME NEW l \in DOMAIN entries, l # k, NEW i \in DOMAIN entries[l].observers
      PROVE  LET old == entries[l].observers
             IN  /\ ws'[old[i]].stage \in {"observing", "freed"}
                 /\ old[i] \in Owners' <=> i = 1 /\ ws'[old[1]].observe
  <2> DEFINE old == entries[l].observers
  <2>1. old \in Seq(Ws) /\ 1 \in DOMAIN old /\ old[1] \in Ws /\ old[i] \in Ws
    BY <1>8, ObserverLists
  <2>2. old[1] # w /\ old[i] # w /\ Accepted(old[i])
    BY <2>1, Newcomer DEF IInv, Accounts
  <2>3. old[i] \in Owners <=> i = 1 /\ ws[old[1]].observe
    BY DEF IInv, OneObservation
  <2>4. old[i] \in Owners' <=> old[i] \in Owners
    BY <1>3, <2>2
  <2> QED BY <1>6, <2>1, <2>2, <2>3, <2>4 DEF Accepted
<1>9. ASSUME NEW i \in DOMAIN new
      PROVE  /\ ws'[new[i]].stage \in {"observing", "freed"}
             /\ new[i] \in Owners' <=> i = 1 /\ ws'[new[1]].observe
  <2>1. i \in 1..(Len(obs) + 1)
    BY <1>2
  <2>2. CASE obs = <<>>
    <3>1. i = 1 /\ new[1] = w
      <4>1. new = <<w>>
        BY <2>2 DEF new, NodeInsert
      <4> QED BY <4>1
    <3>2. w \in Owners' <=> o
      BY <1>3, <2>2, Newcomer
    <3> QED BY <1>6, <3>1, <3>2
  <2>3. CASE obs # <<>>
    <3>1. new[1] = obs[1] /\ new[2] = w
      BY <1>2, <2>3, NodeInsertHead DEF new
    <3>2. Owners' = Owners
      BY <1>3, <2>3
    <3>3. \A j \in DOMAIN obs :
            /\ obs[j] \in Ws /\ obs[j] # w /\ Accepted(obs[j])
            /\ obs[j] \in Owners <=> j = 1 /\ ws[obs[1]].observe
      BY <1>2, Newcomer DEF IInv, Accounts, OneObservation
    <3>4. 1 \in DOMAIN obs
      BY <1>2, <2>3
    <3>5. ws'[new[1]] = ws[obs[1]]
      BY <1>6, <3>1, <3>3, <3>4
    <3>6. CASE i = 1
      BY <3>1, <3>2, <3>3, <3>4, <3>5, <3>6 DEF Accepted
    <3>7. CASE i = 2
      BY <1>6, <3>1, <3>2, <3>7, Newcomer
    <3>8. CASE i \in 3..(Len(obs) + 1)
      <4>1. new[i] = obs[i - 1]
        BY <1>2, <3>8, NodeInsertRest DEF new
      <4>2. i - 1 \in DOMAIN obs /\ i - 1 # 1 /\ i # 1
        BY <1>2, <3>8
      <4> QED BY ZenonT(40), <1>6, <3>2, <3>3, <4>1, <4>2 DEF Accepted
    <3> QED BY <2>1, <3>6, <3>7, <3>8
  <2> QED BY <2>2, <2>3
<1>10. OneObservation'
  BY <1>7, <1>8, <1>9 DEF OneObservation
<1>11. \A v \in Owners' : ws'[v].stage \in {"observing", "freed"}
  <2>1. Owners \subseteq Ws
    BY <1>1 DEF Owners, Request
  <2> QED BY <1>3, <1>6, <2>1, Newcomer DEF IInv, Accounts, Accepted
<1>12. \A i \in DOMAIN backlog : ws'[backlog[i]].stage = "backlog"
  BY <1>1, <1>6, Newcomer DEF IInv, Accounts
<1>13. \A l \in DOMAIN entries' : IsInjective(entries'[l].observers)
  <2>1. IsInjective(new)
    BY <1>2, Newcomer, InsertInjective DEF new, IInv, Accounts
  <2> QED BY <1>7, <2>1 DEF IInv, Accounts
<1>14. Accounts'
  BY <1>3, <1>7, <1>8, <1>9, <1>11, <1>12, <1>13 DEF Accounts, Accepted, IInv
<1> QED BY <1>3, <1>6, <1>7, <1>10, <1>14

\* The handshake ends in an entry, in a refusal, or in the write that does not.
LEMMA HandshakeKeeps ==
  ASSUME IInv, NEW w \in Ws, Handshake(w)
  PROVE  IInv' /\ UNCHANGED inbox
<1>1. /\ pc = "handshake" /\ ws[w].stage = "handshake"
      /\ UNCHANGED <<ready, clientq, serverq, backlog, inbox, http,
                     datagrams, rdRequests>>
  BY DEF Handshake
<1>2. ws \in [Ws -> WsState] /\ entries \in Seq(Entry)
  BY DEF IInv, TypeOK
<1>3. ASSUME NEW n \in Str, NEW o \in BOOLEAN, Enter(w, n, o)
      PROVE  IInv'
  <2> DEFINE k == EntryFor(n)
  <2>1. k \in {0} \cup DOMAIN entries
    BY <1>2, NodeGetRange DEF EntryFor
  <2>2. pc' \in {"select", "crashed"}
    BY <1>3 DEF Enter
  <2>3. CASE k # 0
    <3>1. /\ Join(w, k, n, o)
          /\ IF NeedsObservation(o, entries[k])
               THEN StartObservation(w, n)
               ELSE UNCHANGED <<message_id, token, pending, sent>>
      BY <1>3, <2>3 DEF Enter
    <3>2. k \in DOMAIN entries
      BY <2>1, <2>3
    <3> HIDE DEF k
    <3>3. /\ message_id' \in Ids /\ token' \in Tokens
          /\ sent' \subseteq Request /\ pending' \in Seq(Conn)
          /\ entries' \in Seq(Entry) /\ ws' \in [Ws -> WsState]
          /\ Accounts' /\ OneObservation'
      BY <1>1, <3>1, <3>2, JoinKeeps
    <3>4. TypeOK'
      BY <1>1, <2>2, <3>3 DEF IInv, TypeOK
    <3> QED BY <3>3, <3>4 DEF IInv
  <2>4. CASE k = 0
    <3>1. /\ ws' = [ws EXCEPT ![w].stage = "freed"]
          /\ UNCHANGED <<message_id, token, pending, sent, entries>>
      BY <1>3, <2>4 DEF Enter
    <3>2. [ws[w] EXCEPT !.stage = "freed"] \in WsState
      BY <1>2 DEF WsState
    <3>3. ws' \in [Ws -> WsState]
      BY <1>2, <3>1, <3>2
    <3>4. KeepsAccepted
      BY <1>1, <1>2, <3>1 DEF KeepsAccepted, Accepted
    <3>5. \A v \in Ws : ws[v].stage = "backlog" => ws'[v].stage = "backlog"
      BY <1>1, <1>2, <3>1
    <3>6. Accounts' /\ OneObservation'
      BY <1>1, <3>1, <3>4, <3>5, AccountsKept, Stays
    <3>7. TypeOK'
      BY <1>1, <2>2, <3>1, <3>3 DEF IInv, TypeOK
    <3> QED BY <3>6, <3>7 DEF IInv
  <2> QED BY <2>3, <2>4
<1>4. ASSUME pc' \in {"hung", "crashed"},
             UNCHANGED <<message_id, token, pending, entries, sent, ws>>
      PROVE  IInv'
  <2>1. TypeOK'
    BY <1>1, <1>4 DEF IInv, TypeOK
  <2> QED BY <1>1, <1>4, <2>1, ListsKept DEF IInv
<1>5. CASE ws[w].spoken /\ Enter(w, ws[w].name, ws[w].observe)
  <2>1. ws[w] \in WsState
    BY <1>2
  <2>2. ws[w].name \in Str /\ ws[w].observe \in BOOLEAN
    BY <2>1 DEF WsState
  <2> QED BY <1>1, <1>3, <1>5, <2>2
<1>6. CASE \E n \in Names \cup {<<>>}, o \in BOOLEAN : Enter(w, n, o)
  BY <1>1, <1>3, <1>6, Strings
<1>7. CASE /\ pc' \in IF ws[w].spoken THEN {"hung"} ELSE {"hung", "crashed"}
           /\ UNCHANGED <<message_id, token, pending, entries, sent, ws>>
  <2>1. pc' \in {"hung", "crashed"}
    BY <1>7
  <2> QED BY <1>1, <1>4, <1>7, <2>1
<1> QED BY <1>5, <1>6, <1>7 DEF Handshake

-----------------------------------------------------------------------------
(* The theorems.                                                           *)

\* What a step does to the frames a browser has received.
FrameStep ==
  \A w \in Ws :
    \/ inbox'[w] = inbox[w]
    \/ /\ clientq # <<>> /\ clientq' = Tail(clientq)
       /\ inbox'[w] = Append(inbox[w], Frame(Head(clientq)))

\* Every step keeps the inductive invariant and puts at most one frame in front
\* of a browser.
LEMMA StepKeeps == IInv /\ [Next]_vars => IInv' /\ FrameStep
<1> SUFFICES ASSUME IInv, [Next]_vars PROVE IInv' /\ FrameStep
  OBVIOUS
<1>1. CASE Environment
  <2>1. UNCHANGED inbox
    BY <1>1 DEF Environment, Connect, Speak, Close, HttpRequest, HttpSpeak,
                HttpClose, ClientDatagram, RdDatagram
  <2> QED BY <1>1, <2>1, EnvironmentKeeps DEF FrameStep
<1>2. CASE Select \/ \E s \in Sockets : Pass(s)
  BY <1>2, SelectPassKeeps DEF FrameStep
<1>3. CASE ClientTurn
  BY <1>3, ClientTurnKeeps DEF FrameStep
<1>4. CASE ServerTurn
  BY <1>4, ServerTurnKeeps DEF FrameStep
<1>5. CASE FcgiStep
  BY <1>5, FcgiStepKeeps DEF FrameStep
<1>6. CASE WebsocketTurn
  BY <1>6, WebsocketTurnKeeps DEF FrameStep
<1>7. CASE \E w \in Ws : Handshake(w)
  BY <1>7, HandshakeKeeps DEF FrameStep
<1>8. CASE UNCHANGED vars
  <2>1. UNCHANGED <<ws, entries, sent, pending, backlog, inbox>>
    BY <1>8 DEF vars, proxyVars
  <2>2. TypeOK'
    BY <1>8 DEF vars, proxyVars, IInv, TypeOK
  <2> QED BY <2>1, <2>2, ListsKept DEF IInv, FrameStep
<1> QED BY <1>1, <1>2, <1>3, <1>4, <1>5, <1>6, <1>7, <1>8
        DEF Next, ProxyStep, FcgiStep

\* The inductive invariant holds in every reachable state.
THEOREM Invariance == Spec => []IInv
<1>1. IInv /\ [Next]_vars => IInv'
  BY StepKeeps
<1> QED BY InitIInv, <1>1, PTL DEF Spec

\* The state keeps its shape; in particular the id and token counters of
\* coap_client_send stay within 16 bits.
THEOREM TypeCorrect == Spec => []TypeOK
<1>1. IInv => TypeOK
  BY DEF IInv
<1> QED BY Invariance, <1>1, PTL

\* Each entry has at most one CoAP observation, that of its first observer, for
\* every number of browsers, names, registrations and notifications
\* (process_websocket_request).
THEOREM OneObservationTheorem == Spec => []OneObservation
<1>1. IInv => OneObservation
  BY DEF IInv
<1> QED BY Invariance, <1>1, PTL

\* The accounts hold; in particular every pending connection observes, so that
\* coap_client_clean_pending never sends a request again.
THEOREM AccountsTheorem == Spec => []Accounts
<1>1. IInv => Accounts
  BY DEF IInv
<1> QED BY Invariance, <1>1, PTL

\* A datagram puts at most one frame in front of a browser, and is gone from the
\* socket after that: one frame is sent for each node of the list, and no
\* history of joining, deleting and registering puts a browser in a list twice
\* (client_response_received, process_websocket_request).
THEOREM OneFrameTheorem == Spec => OneFramePerDatagram
<1>1. IInv /\ [Next]_vars => [FrameStep]_vars
  BY StepKeeps
<1> QED BY Invariance, <1>1, PTL DEF Spec, OneFramePerDatagram, FrameStep

-----------------------------------------------------------------------------
(* ObserveProxy implements PubSub: the step of PubSub that each step of the *)
(* proxy is, for every number of browsers, names and datagrams.            *)

\* The browsers that observe an entry of a list, and the topics the list makes.
Watchers(list, k) == Range(list[k].observers)
TopicsOf(list) == {Watchers(list, k) : k \in DOMAIN list} \ {{}}

\* No browser observes two entries.
Apart(list) ==
  \A k, l \in DOMAIN list :
    k # l => Watchers(list, k) \cap Watchers(list, l) = {}

\* What a path can be: a name somebody asked for, what an empty buffer holds,
\* or what a stranger sends.
Known == Names \cup Asks \cup {<<>>, <<0>>}
PathsKnown ==
  /\ \A r \in sent : r.path \in Known
  /\ \A i \in DOMAIN clientq : clientq[i].path \in Known
  /\ \A w \in Ws : ws[w].name \in Known

\* What the mapping needs: topics are disjoint, and frames are about known names.
RInv == IInv /\ Apart(entries) /\ PathsKnown

-----------------------------------------------------------------------------
(* Topics of lists of entries.                                             *)

\* Who observes an entry after an insertion: one more.
LEMMA InsertRange ==
  ASSUME NEW S, NEW list \in Seq(S), NEW node \in S
  PROVE  Range(NodeInsert(list, node)) = Range(list) \cup {node}
<1> DEFINE new == NodeInsert(list, node)
<1>1. new \in Seq(S) /\ Len(new) = Len(list) + 1
  BY NodeInsertLength
<1>2. \A k \in DOMAIN new : new[k] = node \/ \E j \in DOMAIN list : new[k] = list[j]
  BY NodeInsertIsSeq
<1>3. /\ Len(list) = 0 => new[1] = node
      /\ Len(list) # 0 => new[1] = list[1] /\ new[2] = node
      /\ \A j \in 3..(Len(list) + 1) : new[j] = list[j - 1]
  BY NodeInsertHead, NodeInsertRest
<1> HIDE DEF new
<1>4. ASSUME NEW j \in DOMAIN list
      PROVE  \E k \in DOMAIN new : new[k] = list[j]
  <2>1. CASE j = 1
    BY <1>1, <1>3, <2>1
  <2>2. CASE j # 1
    <3>1. j + 1 \in 3..(Len(list) + 1) /\ j + 1 \in DOMAIN new
      BY <1>1, <2>2
    <3>2. new[j + 1] = list[j]
      BY <1>3, <3>1
    <3> QED BY <3>1, <3>2
  <2> QED BY <2>1, <2>2
<1>5. \E k \in DOMAIN new : new[k] = node
  <2>1. CASE Len(list) = 0
    BY <1>1, <1>3, <2>1
  <2>2. CASE Len(list) # 0
    <3>1. 2 \in DOMAIN new
      BY <1>1, <2>2
    <3> QED BY <1>3, <2>2, <3>1
  <2> QED BY <2>1, <2>2
<1>6. new = NodeInsert(list, node)
  BY DEF new
<1> QED BY <1>2, <1>4, <1>5, <1>6 DEF Range

\* Where the nodes of a list come from after an insertion: each from a place of
\* its own.
LEMMA InsertPlaces ==
  ASSUME NEW S, NEW list \in Seq(S), NEW node \in S
  PROVE  \A k, l \in DOMAIN NodeInsert(list, node) :
           \/ NodeInsert(list, node)[k] = node
           \/ NodeInsert(list, node)[l] = node
           \/ k = l
           \/ \E i, j \in DOMAIN list :
                /\ i # j /\ NodeInsert(list, node)[k] = list[i]
                /\ NodeInsert(list, node)[l] = list[j]
<1> DEFINE new == NodeInsert(list, node)
           from(k) == IF k = 1 THEN 1 ELSE k - 1
<1>1. new \in Seq(S) /\ Len(new) = Len(list) + 1
  BY NodeInsertLength
<1>2. /\ Len(list) = 0 => new[1] = node
      /\ Len(list) # 0 => new[1] = list[1] /\ new[2] = node
      /\ \A j \in 3..(Len(list) + 1) : new[j] = list[j - 1]
  BY NodeInsertHead, NodeInsertRest
<1>3. new = NodeInsert(list, node)
  OBVIOUS
<1> HIDE DEF new
<1>4. ASSUME NEW k \in DOMAIN new, new[k] # node
      PROVE  /\ from(k) \in DOMAIN list /\ new[k] = list[from(k)]
             /\ k \in Nat /\ k # 2 /\ k >= 1
  <2>1. Len(list) # 0 /\ k \in 1..(Len(list) + 1) /\ k # 2
    BY <1>1, <1>2, <1>4
  <2>2. CASE k = 1
    BY <1>2, <2>1, <2>2
  <2>3. CASE k # 1
    <3>1. k \in 3..(Len(list) + 1)
      BY <2>1, <2>3
    <3> QED BY <1>2, <3>1
  <2> QED BY <2>2, <2>3
<1>5. ASSUME NEW k \in DOMAIN new, NEW l \in DOMAIN new, k # l,
             new[k] # node, new[l] # node
      PROVE  \E i, j \in DOMAIN list : i # j /\ new[k] = list[i] /\ new[l] = list[j]
  <2>1. from(k) # from(l)
    BY <1>4, <1>5
  <2> QED BY <1>4, <1>5, <2>1
<1> QED BY <1>3, <1>5

\* POST brings in an entry nobody observes.
LEMMA RegisterTopics ==
  ASSUME NEW list \in Seq(Entry), Apart(list), NEW node \in Entry,
         node.observers = <<>>
  PROVE  /\ TopicsOf(NodeInsert(list, node)) = TopicsOf(list)
         /\ Apart(NodeInsert(list, node))
<1> DEFINE new == NodeInsert(list, node)
<1>1. Range(node.observers) = {}
  BY DEF Range
<1>2. Range(new) = Range(list) \cup {node}
  BY InsertRange
<1>3. \A q : TopicsOf(q) = {Range(e.observers) : e \in Range(q)} \ {{}}
  BY DEF TopicsOf, Watchers, Range
<1>4. TopicsOf(new) = TopicsOf(list)
  <2> HIDE DEF new
  <2> QED BY <1>1, <1>2, <1>3
<1>5. Apart(new)
  <2> SUFFICES ASSUME NEW k \in DOMAIN new, NEW l \in DOMAIN new, k # l
               PROVE  Watchers(new, k) \cap Watchers(new, l) = {}
    BY DEF Apart
  <2>1. \/ new[k] = node \/ new[l] = node
        \/ \E i, j \in DOMAIN list : i # j /\ new[k] = list[i] /\ new[l] = list[j]
    BY InsertPlaces
  <2> HIDE DEF new
  <2> QED BY <1>1, <2>1 DEF Watchers, Apart
<1> QED BY <1>4, <1>5

\* DELETE takes one entry, and so its topic, away.
LEMMA UnregisterTopics ==
  ASSUME NEW list \in Seq(Entry), Apart(list), NEW k \in DOMAIN list
  PROVE  /\ TopicsOf(Without(list, k)) = TopicsOf(list) \ {Watchers(list, k)}
         /\ Apart(Without(list, k))
<1> DEFINE rest == Without(list, k)
           from(j) == IF j < k THEN j ELSE j + 1
<1>1. /\ rest \in Seq(Entry) /\ Len(rest) = Len(list) - 1
      /\ \A j \in 1..(Len(list) - 1) :
           rest[j] = IF j < k THEN list[j] ELSE list[j + 1]
  BY WithoutElements
<1> HIDE DEF rest
<1>2. DOMAIN rest = 1..(Len(list) - 1) /\ k \in 1..Len(list) /\ Len(list) \in Nat
  BY <1>1
<1>3. ASSUME NEW j \in DOMAIN rest
      PROVE  /\ from(j) \in DOMAIN list /\ from(j) # k
             /\ Watchers(rest, j) = Watchers(list, from(j))
  BY <1>1, <1>2 DEF Watchers
<1>4. ASSUME NEW i \in DOMAIN list, i # k
      PROVE  \E j \in DOMAIN rest : i = from(j)
  <2>1. CASE i < k
    <3>1. i \in DOMAIN rest
      BY <1>2, <2>1
    <3> QED BY <2>1, <3>1
  <2>2. CASE i > k
    <3>1. i - 1 \in DOMAIN rest /\ from(i - 1) = i
      BY <1>2, <2>2
    <3> QED BY <3>1
  <2> QED BY <1>2, <1>4, <2>1, <2>2
<1>5. \A i, j \in DOMAIN rest : i # j => from(i) # from(j)
  BY <1>2
<1> HIDE DEF from
<1>6. Apart(rest)
  BY <1>3, <1>5 DEF Apart
<1>7. TopicsOf(rest) = TopicsOf(list) \ {Watchers(list, k)}
  <2>1. ASSUME NEW j \in DOMAIN rest, Watchers(rest, j) # {}
        PROVE  Watchers(rest, j) \in TopicsOf(list) \ {Watchers(list, k)}
    <3>1. Watchers(list, from(j)) \cap Watchers(list, k) = {}
      BY <1>3 DEF Apart
    <3> QED BY <1>3, <2>1, <3>1 DEF TopicsOf
  <2>2. ASSUME NEW i \in DOMAIN list, Watchers(list, i) # Watchers(list, k),
               Watchers(list, i) # {}
        PROVE  Watchers(list, i) \in TopicsOf(rest)
    <3>1. PICK j \in DOMAIN rest : i = from(j)
      BY <1>4, <2>2
    <3> QED BY <1>3, <2>2, <3>1 DEF TopicsOf
  <2> QED BY <2>1, <2>2 DEF TopicsOf
<1> QED BY <1>6, <1>7 DEF rest

\* A browser that observes nothing yet joins an entry: the topic of the entry
\* grows, or is new.
LEMMA JoinTopics ==
  ASSUME NEW list \in Seq(Entry), Apart(list), NEW k \in DOMAIN list,
         NEW w \in Ws, \A l \in DOMAIN list : w \notin Watchers(list, l),
         NEW grown \in Seq(Entry), DOMAIN grown = DOMAIN list,
         grown[k].observers = NodeInsert(list[k].observers, w),
         \A l \in DOMAIN list : l # k => grown[l] = list[l]
  PROVE  LET T == Watchers(list, k)
         IN  /\ T \in TopicsOf(list) \cup {{}}
             /\ TopicsOf(grown) = (TopicsOf(list) \ {T}) \cup {T \cup {w}}
             /\ Apart(grown)
<1> DEFINE T == Watchers(list, k)
<1>1. list[k].observers \in Seq(Ws)
  <2>1. list[k] \in Entry
    OBVIOUS
  <2> QED BY <2>1 DEF Entry
<1>2. Watchers(grown, k) = T \cup {w}
  BY <1>1, InsertRange DEF Watchers
<1>3. \A l \in DOMAIN list : l # k => Watchers(grown, l) = Watchers(list, l)
  BY DEF Watchers
<1>4. Apart(grown)
  BY <1>2, <1>3 DEF Apart
<1>5. T \in TopicsOf(list) \cup {{}}
  BY DEF TopicsOf
<1>6. TopicsOf(grown) = (TopicsOf(list) \ {T}) \cup {T \cup {w}}
  <2>1. ASSUME NEW l \in DOMAIN list, Watchers(grown, l) # {}
        PROVE  Watchers(grown, l) \in (TopicsOf(list) \ {T}) \cup {T \cup {w}}
    <3>1. CASE l = k
      BY <1>2, <3>1
    <3>2. CASE l # k
      <4>1. Watchers(list, l) \cap T = {}
        BY <3>2 DEF Apart
      <4> QED BY <1>3, <2>1, <3>2, <4>1 DEF TopicsOf
    <3> QED BY <3>1, <3>2
  <2>2. ASSUME NEW l \in DOMAIN list, Watchers(list, l) # T, Watchers(list, l) # {}
        PROVE  Watchers(list, l) \in TopicsOf(grown)
    BY <1>3, <2>2 DEF TopicsOf
  <2>3. T \cup {w} \in TopicsOf(grown)
    BY <1>2 DEF TopicsOf
  <2> QED BY ZenonT(40), <2>1, <2>2, <2>3 DEF TopicsOf
<1> QED BY <1>4, <1>5, <1>6

-----------------------------------------------------------------------------
(* Steps that PubSub does not see, and the parts of the others.            *)

\* The browsers that can be reached.
Present == {w \in Ws : Listening(w)}

\* The proxy makes a step of PubSub or none.
Maps == P!Next \/ UNCHANGED P!vars

\* The topics are those of the list of entries, before and after a step.
LEMMA TopicsAre == Topics = TopicsOf(entries) /\ Topics' = TopicsOf(entries')
  BY DEF Topics, TopicsOf, Watchers

\* Nothing PubSub speaks of changes.
LEMMA Unseen ==
  ASSUME UNCHANGED <<Topics, inbox, Present>>, Halted' <=> Halted
  PROVE  Maps
<1>1. Halted' = Halted
  BY DEF Halted
<1> QED BY <1>1 DEF Maps, P!vars, Present

\* The process stops without a word, and may give browsers up.
LEMMA StopsSilently ==
  ASSUME UNCHANGED <<entries, inbox>>, Present' \subseteq Present,
         ~Halted, Halted' = TRUE
  PROVE  Maps
<1>1. Topics' = Topics
  BY DEF Topics
<1> QED BY <1>1 DEF Maps, P!Next, P!Stop, Present

\* Of the browsers only what Listening does not look at changes.
LEMMA StillThere ==
  ASSUME \A w \in Ws : /\ ws'[w].open = ws[w].open
                       /\ ws'[w].stage = "freed" <=> ws[w].stage = "freed"
  PROVE  Present' = Present
  BY DEF Present, Listening

\* Freeing takes the freed ones away, and nobody else.
LEMMA FreeTakesAway ==
  ASSUME IInv, NEW gone, FreeOwners(gone)
  PROVE  /\ Present' = Present \ gone
         /\ \A w \in Ws : ws'[w].name = ws[w].name
<1>1. ASSUME NEW w \in Ws
      PROVE  /\ ws'[w].name = ws[w].name /\ ws'[w].open = ws[w].open
             /\ w \in gone => ws'[w].stage = "freed"
             /\ w \notin gone => ws'[w].stage = ws[w].stage
  <2>1. ws[w] \in WsState
    BY DEF IInv, TypeOK
  <2>2. CASE w \in gone
    <3>1. ws'[w] = [ws[w] EXCEPT !.stage = "freed"]
      BY <2>2 DEF FreeOwners
    <3> QED BY <2>1, <2>2, <3>1 DEF WsState
  <2>3. CASE w \notin gone
    BY <2>3 DEF FreeOwners
  <2> QED BY <2>2, <2>3
<1> QED BY <1>1 DEF Present, Listening

\* Only an accepted browser observes, so that a newcomer is in no topic.
LEMMA OnlyAccepted ==
  ASSUME IInv, NEW w \in Ws, ~Accepted(w)
  PROVE  /\ w \notin UNION Topics
         /\ \A l \in DOMAIN entries : w \notin Watchers(entries, l)
<1>1. \A l \in DOMAIN entries : w \notin Watchers(entries, l)
  BY DEF Watchers, Range, IInv, Accounts
<1> QED BY <1>1, TopicsAre DEF TopicsOf

\* Names of the constants are known.
LEMMA KnownNames ==
  Names \subseteq Known /\ Asks \subseteq Known /\ <<>> \in Known /\ <<0>> \in Known
  BY DEF Known

-----------------------------------------------------------------------------
(* The steps of browsers, web server, nodes and network.                   *)

\* A browser that connects comes.
LEMMA ConnectMaps ==
  ASSUME RInv, ~Halted, NEW w \in Ws, NEW n \in Asks, NEW o \in BOOLEAN,
         NEW now \in BOOLEAN, Connect(w, n, o, now)
  PROVE  Maps /\ Apart(entries') /\ PathsKnown'
<1> USE DEF Connect, proxyVars
<1>1. ws \in [Ws -> WsState]
  BY DEF RInv, IInv, TypeOK
<1>2. ~Accepted(w)
  BY DEF Accepted
<1>3. w \notin UNION Topics
  BY <1>2, OnlyAccepted DEF RInv
<1>4. /\ ws'[w].open = TRUE /\ ws'[w].stage = "backlog" /\ ws'[w].name = n
      /\ \A v \in Ws : v # w => ws'[v] = ws[v]
  BY <1>1
<1>5. Present' = Present \cup {w}
  BY <1>4 DEF Present, Listening
<1>6. UNCHANGED <<Topics, inbox, Halted>>
  BY DEF Topics, Halted
<1>7. P!Come(w)
  BY <1>3, <1>5, <1>6 DEF P!Come, Present
<1>8. Maps
  BY <1>7 DEF Maps, P!Next
<1>9. PathsKnown'
  BY <1>4, KnownNames DEF RInv, PathsKnown
<1> QED BY <1>8, <1>9 DEF RInv

\* One that closes its connection leaves; what it says is not seen.
LEMMA SpeakCloseMaps ==
  ASSUME RInv, ~Halted, NEW w \in Ws, Speak(w) \/ Close(w)
  PROVE  Maps /\ Apart(entries') /\ PathsKnown'
<1>1. ws \in [Ws -> WsState] /\ ws[w] \in WsState
  BY DEF RInv, IInv, TypeOK
<1>2. UNCHANGED <<entries, sent, clientq, inbox, pc>>
  BY DEF Speak, Close, proxyVars
<1>3. /\ \A v \in Ws : v # w => ws'[v] = ws[v]
      /\ ws'[w].stage = ws[w].stage /\ ws'[w].name = ws[w].name
      /\ Speak(w) => ws'[w].open = ws[w].open
      /\ Close(w) => ws'[w].open = FALSE
  <2>1. CASE Speak(w)
    <3>1. ws' = [ws EXCEPT ![w].spoken = TRUE] /\ ~ws[w].spoken
      BY <2>1 DEF Speak
    <3>2. ~Close(w)
      BY <1>1, <2>1, <3>1 DEF Speak, Close, WsState
    <3> QED BY <1>1, <3>1, <3>2 DEF WsState
  <2>2. CASE Close(w)
    <3>1. ws' = [ws EXCEPT ![w].open = FALSE] /\ ws[w].open
      BY <2>2 DEF Close
    <3>2. ~Speak(w)
      BY <1>1, <2>2, <3>1 DEF Speak, WsState
    <3> QED BY <1>1, <3>1, <3>2 DEF WsState
  <2> QED BY <2>1, <2>2
<1>4. UNCHANGED <<Topics, inbox, Halted>>
  BY <1>2 DEF Topics, Halted
<1>5. CASE Speak(w)
  <2>1. Present' = Present
    BY <1>3, <1>5 DEF Present, Listening
  <2> QED BY <1>2, <1>3, <1>4, <2>1, Unseen DEF RInv, PathsKnown
<1>6. CASE Close(w)
  <2>1. Present' = Present \ {w}
    BY <1>3, <1>6 DEF Present, Listening
  <2>2. P!Leave(w)
    BY <1>4, <2>1 DEF P!Leave, Present
  <2> QED BY <1>2, <1>3, <2>2 DEF RInv, PathsKnown, Maps, P!Next
<1> QED BY <1>5, <1>6

\* What the others do is not seen; answers are about the name of a request.
LEMMA EnvironmentMaps ==
  ASSUME RInv, Environment
  PROVE  Maps /\ Apart(entries') /\ PathsKnown'
<1>1. ~Halted
  BY DEF Environment
<1>2. ASSUME UNCHANGED <<entries, sent, inbox, ws, pc>>,
             \A i \in DOMAIN clientq' : clientq'[i].path \in Known
      PROVE  Maps /\ Apart(entries') /\ PathsKnown'
  BY <1>2, Unseen DEF RInv, PathsKnown, Present, Listening, Halted, Topics
<1>3. ASSUME NEW m, m.path \in Known, ClientDatagram(m)
      PROVE  Maps /\ Apart(entries') /\ PathsKnown'
  <2>1. clientq \in Seq(Datagram) /\ clientq' = Append(clientq, m)
    BY <1>3 DEF RInv, IInv, TypeOK, ClientDatagram
  <2>2. \A i \in DOMAIN clientq' : clientq'[i].path \in Known
    BY <1>3, <2>1 DEF RInv, PathsKnown
  <2> QED BY <1>2, <1>3, <2>2 DEF ClientDatagram, proxyVars
<1>4. ASSUME NEW r \in sent, NEW m \in Answers(r)
      PROVE  m.path \in Known
  <2>1. m.path = r.path
    BY DEF Answers
  <2> QED BY <2>1 DEF RInv, PathsKnown
<1>5. \A t \in StrayTokens : Stray(t).path \in Known
  BY KnownNames DEF Stray
<1>6. CASE \/ \E h \in HttpReqs, n \in Asks, now \in BOOLEAN :
                HttpRequest(h, n, now)
           \/ \E h \in HttpReqs : HttpSpeak(h) \/ HttpClose(h)
           \/ \E method \in Methods, n \in Names : RdDatagram(method, n)
  BY <1>2, <1>6 DEF HttpRequest, HttpSpeak, HttpClose, RdDatagram, proxyVars,
                    RInv, PathsKnown
<1> QED BY <1>1, <1>3, <1>4, <1>5, <1>6, ConnectMaps, SpeakCloseMaps
        DEF Environment

-----------------------------------------------------------------------------
(* The turns of the loop.                                                  *)

\* The turns that only look, take a browser in, or pass an HTTP request on.
LEMMA QuietTurnMaps ==
  ASSUME RInv,
         \/ Select \/ \E s \in Sockets : Pass(s)
         \/ FcgiStep \/ WebsocketTurn
  PROVE  Maps /\ Apart(entries') /\ PathsKnown'
<1> USE DEF FcgiStep, FcgiTurn, AcceptFails, AcceptHttp, DropHttp, HttpTurn
<1>1. UNCHANGED <<entries, sent, clientq, inbox>> /\ ~Halted
  BY DEF Select, Pass, WebsocketTurn, Halted, Sockets
<1>2. ASSUME UNCHANGED ws
      PROVE  Present' = Present /\ PathsKnown'
  BY <1>1, <1>2 DEF Present, Listening, RInv, PathsKnown
<1>3. CASE Select \/ \E s \in Sockets : Pass(s)
  <2>1. UNCHANGED ws /\ ~Halted'
    BY <1>3 DEF Select, Pass, NextTurn, Halted, Sockets
  <2> QED BY <1>1, <1>2, <2>1, Unseen DEF RInv, Topics
<1>4. CASE FcgiStep
  <2>1. UNCHANGED ws
    BY <1>4
  <2>2. CASE Halted'
    <3>1. Halted' = TRUE
      BY <2>2 DEF Halted
    <3> QED BY <1>1, <1>2, <2>1, <3>1, StopsSilently DEF RInv
  <2>3. CASE ~Halted'
    BY <1>1, <1>2, <2>1, <2>3, Unseen DEF RInv, Topics
  <2> QED BY <2>2, <2>3
<1>5. CASE WebsocketTurn
  <2> DEFINE v == Head(backlog)
  <2>1. ws' = [ws EXCEPT ![v].stage = "handshake"] /\ pc' = "handshake"
    BY <1>5 DEF WebsocketTurn
  <2>2. ws \in [Ws -> WsState] /\ v \in Ws /\ ws[v].stage = "backlog"
    <3>1. backlog \in Seq(Ws) /\ backlog # <<>> /\ ws \in [Ws -> WsState]
      BY <1>5 DEF RInv, IInv, TypeOK, WebsocketTurn
    <3>2. v = backlog[1] /\ 1 \in DOMAIN backlog /\ v \in Ws
      BY <3>1
    <3> QED BY <3>1, <3>2 DEF RInv, IInv, Accounts
  <2> HIDE DEF v
  <2>3. ws[v] \in WsState
    BY <2>2
  <2>4. \A w \in Ws : /\ ws'[w].open = ws[w].open /\ ws'[w].name = ws[w].name
                      /\ ws'[w].stage = "freed" <=> ws[w].stage = "freed"
    <3>1. ws'[v] = [ws[v] EXCEPT !.stage = "handshake"]
      BY <2>1, <2>2
    <3>2. \A w \in Ws : w # v => ws'[w] = ws[w]
      BY <2>1, <2>2
    <3> QED BY <2>2, <2>3, <3>1, <3>2 DEF WsState
  <2>5. Present' = Present
    BY <2>4, StillThere
  <2>6. PathsKnown'
    BY <1>1, <2>4 DEF RInv, PathsKnown
  <2>7. ~Halted'
    BY <2>1 DEF Halted
  <2> QED BY <1>1, <2>5, <2>6, <2>7, Unseen DEF RInv, Topics
<1> QED BY <1>3, <1>4, <1>5

\* DELETE withdraws the topic of an entry, if it has observers.
LEMMA ServerTurnMaps ==
  ASSUME RInv, ServerTurn
  PROVE  Maps /\ Apart(entries') /\ PathsKnown'
<1> DEFINE n == Head(serverq).name
<1>1. UNCHANGED <<sent, clientq, inbox>> /\ ~Halted
  BY DEF ServerTurn, Halted
<1>2. entries \in Seq(Entry) /\ Apart(entries) /\ IInv
  BY DEF RInv, IInv, TypeOK
<1>3. n \in Names
  <2>1. serverq \in Seq(RdRequest) /\ serverq # <<>>
    BY DEF RInv, IInv, TypeOK, ServerTurn
  <2>2. Head(serverq) \in RdRequest
    BY <2>1
  <2> QED BY <2>2 DEF RdRequest
<1>4. \/ pc' = "fcgi" /\ Register(n)
      \/ pc' = "fcgi" /\ Unregister(n)
      \/ pc' \in {"fcgi", "crashed"} /\ UNCHANGED <<entries, ws>>
  BY DEF ServerTurn
<1> HIDE DEF n
<1>5. CASE pc' \in {"fcgi", "crashed"} /\ UNCHANGED <<entries, ws>>
  <2>1. Present' = Present /\ PathsKnown' /\ Apart(entries')
    BY <1>1, <1>2, <1>5 DEF Present, Listening, RInv, PathsKnown
  <2>2. CASE pc' = "crashed"
    <3>1. Halted' = TRUE
      BY <2>2 DEF Halted
    <3> QED BY <1>1, <1>5, <2>1, <3>1, StopsSilently
  <2>3. CASE pc' = "fcgi"
    <3>1. ~Halted'
      BY <2>3 DEF Halted
    <3> QED BY <1>1, <1>5, <2>1, <3>1, Unseen DEF Topics
  <2> QED BY <1>5, <2>2, <2>3
<1>6. CASE pc' = "fcgi" /\ Register(n)
  <2> DEFINE node == NewEntry(n)
  <2>1. node \in Entry /\ node.observers = <<>>
    BY <1>3, Strings DEF NewEntry, Entry
  <2>2. entries' = NodeInsert(entries, node) /\ ws' = ws
    BY <1>6 DEF Register
  <2> HIDE DEF node
  <2>3. Topics' = Topics /\ Apart(entries')
    BY <1>2, <2>1, <2>2, RegisterTopics, TopicsAre
  <2>4. Present' = Present /\ PathsKnown' /\ ~Halted'
    BY <1>1, <1>6, <2>2 DEF Present, Listening, RInv, PathsKnown, Halted
  <2> QED BY <1>1, <2>3, <2>4, Unseen
<1>7. CASE pc' = "fcgi" /\ Unregister(n)
  <2> DEFINE k == EntryFor(n)
  <2>1. k \in {0} \cup DOMAIN entries
    BY <1>2, NodeGetRange DEF EntryFor
  <2>2. ~Halted'
    BY <1>7 DEF Halted
  <2>3. CASE k = 0
    <3>1. entries' = entries /\ ws' = ws
      BY <1>7, <2>3 DEF Unregister, NodeDelete, EntryFor
    <3>2. Present' = Present /\ PathsKnown'
      BY <1>1, <3>1 DEF Present, Listening, RInv, PathsKnown
    <3> QED BY <1>1, <1>2, <2>2, <3>1, <3>2, Unseen DEF Topics
  <2>4. CASE k # 0
    <3> DEFINE T == Watchers(entries, k)
    <3>1. entries' = Without(entries, k) /\ FreeOwners(T)
      BY <1>7, <2>4 DEF Unregister, NodeDelete, EntryFor, Watchers
    <3>2. Topics' = Topics \ {T} /\ Apart(entries')
      BY <1>2, <2>1, <2>4, <3>1, UnregisterTopics, TopicsAre
    <3>3. T \in Topics \cup {{}}
      BY <2>1, <2>4, TopicsAre DEF TopicsOf
    <3> HIDE DEF T, k
    <3>4. Present' = Present \ T /\ \A w \in Ws : ws'[w].name = ws[w].name
      BY <1>2, <3>1, FreeTakesAway
    <3>5. PathsKnown'
      BY <1>1, <3>4 DEF RInv, PathsKnown
    <3>6. CASE T = {}
      <4>1. Topics' = Topics
        BY <3>2, <3>6, TopicsAre DEF TopicsOf
      <4>2. Present' = Present
        BY <3>4, <3>6
      <4> QED BY <1>1, <2>2, <3>2, <3>5, <4>1, <4>2, Unseen
    <3>7. CASE T \in Topics
      <4>1. Halted' = Halted
        BY <1>1, <2>2 DEF Halted
      <4>2. P!Withdraw(T)
        BY <1>1, <3>2, <3>4, <4>1 DEF P!Withdraw, Present
      <4> QED BY <3>2, <3>5, <3>7, <4>2 DEF Maps, P!Next
    <3> QED BY <3>3, <3>6, <3>7
  <2> QED BY <2>3, <2>4
<1> QED BY <1>4, <1>5, <1>6, <1>7

\* The handshake ends in a subscription, or the browser is given up; or the
\* process stops.
LEMMA HandshakeMaps ==
  ASSUME RInv, NEW w \in Ws, Handshake(w)
  PROVE  Maps /\ Apart(entries') /\ PathsKnown'
<1>1. /\ ws[w].stage = "handshake" /\ ~Halted
      /\ UNCHANGED <<clientq, inbox>>
  BY DEF Handshake, Halted
<1>2. /\ ws \in [Ws -> WsState] /\ entries \in Seq(Entry)
      /\ Apart(entries) /\ IInv /\ ws[w] \in WsState
  BY DEF RInv, IInv, TypeOK
<1>3. /\ w \notin UNION Topics
      /\ \A l \in DOMAIN entries : w \notin Watchers(entries, l)
  <2>1. ~Accepted(w)
    BY <1>1 DEF Accepted
  <2> QED BY <1>2, <2>1, OnlyAccepted
<1>4. ASSUME NEW n \in Known, NEW o, Enter(w, n, o)
      PROVE  Maps /\ Apart(entries') /\ PathsKnown'
  <2> DEFINE k == EntryFor(n)
  <2>1. k \in {0} \cup DOMAIN entries
    BY <1>2, NodeGetRange DEF EntryFor
  <2>2. CASE k # 0
    <3>1. /\ ~Halted' /\ Join(w, k, n, o)
          /\ sent' = sent \/ StartObservation(w, n)
      BY <1>4, <2>2 DEF Enter, Halted
    <3>2. k \in DOMAIN entries
      BY <2>1, <2>2
    <3> HIDE DEF k
    <3> DEFINE T == Watchers(entries, k)
    <3>3. /\ ws'[w].stage = "observing" /\ ws'[w].name = n
          /\ ws'[w].open = ws[w].open
          /\ \A v \in Ws : v # w => ws'[v] = ws[v]
      <4>1. ws' = [ws EXCEPT ![w].stage = "observing", ![w].name = n, ![w].observe = o]
        BY <3>1 DEF Join
      <4> QED BY <1>2, <4>1 DEF WsState
    <3>4. /\ entries' \in Seq(Entry) /\ DOMAIN entries' = DOMAIN entries
          /\ entries'[k].observers = NodeInsert(entries[k].observers, w)
          /\ \A l \in DOMAIN entries : l # k => entries'[l] = entries[l]
      <4> DEFINE new == NodeInsert(entries[k].observers, w)
      <4>1. entries[k] \in Entry /\ entries[k].observers \in Seq(Ws)
        BY <1>2, <3>2, ObserverLists
      <4>2. entries' = [entries EXCEPT ![k].observers = new]
        BY <3>1 DEF Join
      <4>3. new \in Seq(Ws)
        BY <4>1, NodeInsertLength
      <4> HIDE DEF new
      <4>4. /\ [entries[k] EXCEPT !.observers = new] \in Entry
            /\ [entries[k] EXCEPT !.observers = new].observers = new
        BY <4>1, <4>3 DEF Entry
      <4>5. entries'[k] = [entries[k] EXCEPT !.observers = new]
        BY <1>2, <3>2, <4>2
      <4>6. entries'[k].observers = new
        BY <4>4, <4>5
      <4>7. entries' \in Seq(Entry) /\ DOMAIN entries' = DOMAIN entries
        BY <1>2, <3>2, <4>2, <4>4
      <4>8. \A l \in DOMAIN entries : l # k => entries'[l] = entries[l]
        BY <1>2, <4>2
      <4> QED BY <4>6, <4>7, <4>8 DEF new
    <3>5. /\ T \in Topics \cup {{}}
          /\ Topics' = (Topics \ {T}) \cup {T \cup {w}}
          /\ Apart(entries')
      BY <1>2, <1>3, <3>2, <3>4, JoinTopics, TopicsAre
    <3> HIDE DEF T
    <3>6. Present' = Present
      BY <1>1, <3>3, StillThere
    <3>7. P!Subscribe(w)
      <4>1. Halted' = Halted
        BY <1>1, <3>1 DEF Halted
      <4> QED BY <1>1, <1>3, <3>5, <3>6, <4>1 DEF P!Subscribe, Present
    <3>8. \A r \in sent' : r.path \in Known
      <4>1. CASE sent' = sent
        BY <4>1 DEF RInv, PathsKnown
      <4>2. CASE StartObservation(w, n)
        <5> DEFINE blank == [key |-> <<>>, id |-> 0, path |-> n, owner |-> w]
                   req == Stamp(blank, message_id, token)
        <5>1. sent' = sent \cup {req}
          BY <4>2 DEF StartObservation
        <5>2. req.path = n
          BY DEF Stamp
        <5> HIDE DEF req
        <5> QED BY <1>4, <5>1, <5>2 DEF RInv, PathsKnown
      <4> QED BY <3>1, <4>1, <4>2
    <3>9. PathsKnown'
      BY <1>1, <1>4, <3>3, <3>8 DEF RInv, PathsKnown
    <3> QED BY <3>5, <3>7, <3>9 DEF Maps, P!Next
  <2>3. CASE k = 0
    <3>1. /\ ws' = [ws EXCEPT ![w].stage = "freed"] /\ pc' \in {"select", "crashed"}
          /\ UNCHANGED <<sent, entries>>
      BY <1>4, <2>3 DEF Enter
    <3>2. /\ ws'[w].stage = "freed" /\ ws'[w].name = ws[w].name
          /\ \A v \in Ws : v # w => ws'[v] = ws[v]
      BY <1>2, <3>1 DEF WsState
    <3>3. Present' = Present \ {w} /\ PathsKnown' /\ Topics' = Topics
      BY <1>1, <3>1, <3>2 DEF Present, Listening, RInv, PathsKnown, Topics
    <3>4. CASE pc' = "crashed"
      <4>1. Halted' = TRUE
        BY <3>4 DEF Halted
      <4> QED BY <1>1, <1>2, <3>1, <3>3, <4>1, StopsSilently
    <3>5. CASE pc' = "select"
      <4>1. Halted' = Halted
        BY <1>1, <3>5 DEF Halted
      <4>2. P!Leave(w)
        BY <1>1, <3>3, <4>1 DEF P!Leave, Present
      <4> QED BY <1>2, <3>1, <3>3, <4>2 DEF Maps, P!Next
    <3> QED BY <3>1, <3>4, <3>5
  <2> QED BY <2>2, <2>3
<1>5. CASE ws[w].spoken /\ Enter(w, ws[w].name, ws[w].observe)
  BY <1>4, <1>5 DEF RInv, PathsKnown
<1>6. CASE \E n \in Names \cup {<<>>}, o \in BOOLEAN : Enter(w, n, o)
  BY <1>4, <1>6, KnownNames
<1>7. CASE /\ pc' \in IF ws[w].spoken THEN {"hung"} ELSE {"hung", "crashed"}
           /\ UNCHANGED <<message_id, token, pending, entries, sent, ws>>
  <2>1. Halted' = TRUE
    BY <1>7 DEF Halted
  <2>2. Present' = Present /\ PathsKnown'
    BY <1>1, <1>7 DEF Present, Listening, RInv, PathsKnown
  <2> QED BY <1>1, <1>2, <1>7, <2>1, <2>2, StopsSilently
<1> QED BY <1>5, <1>6, <1>7 DEF Handshake

-----------------------------------------------------------------------------
(* A datagram.                                                             *)

\* A datagram is one notification to a topic, one answer to a browser, nothing,
\* or the end.
LEMMA ClientTurnMaps ==
  ASSUME RInv, ClientTurn
  PROVE  Maps /\ Apart(entries') /\ PathsKnown'
<1> DEFINE m == Head(clientq)
           d == Dispatch(pending, m)
           out == IF d.handled THEN Recipients(d.seen, m) ELSE <<>>
           f == Frame(m)
<1>1. /\ clientq \in Seq(Datagram) /\ clientq # <<>> /\ pending \in Seq(Conn)
      /\ inbox \in [Ws -> Seq(FrameType)] /\ IInv /\ Apart(entries)
      /\ \A i \in DOMAIN pending : pending[i].is_observe
  BY DEF RInv, IInv, TypeOK, ClientTurn, Accounts
<1>2. /\ m \in Datagram /\ m = clientq[1] /\ 1 \in DOMAIN clientq
      /\ clientq' = Tail(clientq)
      /\ \A i \in DOMAIN clientq' : \E j \in DOMAIN clientq : clientq'[i] = clientq[j]
  BY <1>1 DEF ClientTurn
<1>3. /\ f.observe = m.observe /\ m.observe \in BOOLEAN
      /\ f \in [path : Names \cup Asks \cup {<<>>, <<0>>},
                value : Values \cup {0, 1}, observe : BOOLEAN]
  <2>1. m.path \in Known
    BY <1>2 DEF RInv, PathsKnown
  <2> QED BY <1>2, <2>1 DEF Frame, Known, Datagram
<1>4. PassOn(m, d, out)
  BY DEF ClientTurn
<1>5. ~Halted /\ UNCHANGED <<entries, sent>>
  BY DEF ClientTurn, Halted
<1>6. /\ d.seen = pending
      /\ d.handled => NodeGet(pending, m.token, Len(m.token)) # 0
      /\ \/ OwnersIn(pending) \ OwnersIn(d.after) = {}
         \/ /\ d.handled /\ ~m.observe
            /\ \E t : OwnersIn(pending) \ OwnersIn(d.after) \subseteq {t}
  <2> HIDE DEF m
  <2> QED BY <1>1, DispatchOfObserving
<1>7. \/ out = <<>> /\ (m.observe \/ ~d.handled)
      \/ ~m.observe /\ \E w \in Ws : out = <<w>>
      \/ m.observe /\ \E k \in DOMAIN entries : out = entries[k].observers
  <2> HIDE DEF m, d
  <2> QED BY <1>1, <1>6, RecipientsAre
<1>8. out \in Seq(Ws) /\ IsInjective(out)
  <2>1. out \in {Recipients(pending, m), <<>>}
    BY <1>6
  <2> HIDE DEF m, out
  <2> QED BY <1>1, <2>1, RecipientsOnce
<1> HIDE DEF d, out
<1>9. \A S : Reaches(S, m) <=> P!Deliver(S, f)
  BY DEF Reaches, P!Deliver
<1>10. Reaches({}, m) => inbox' = inbox
  BY <1>1 DEF Reaches
<1> HIDE DEF m, f
<1>11. ASSUME NEW gone, FreeOwners(gone)
       PROVE  /\ Present' = Present \ gone
              /\ Apart(entries') /\ PathsKnown'
  <2>1. Present' = Present \ gone /\ \A w \in Ws : ws'[w].name = ws[w].name
    BY <1>1, <1>11, FreeTakesAway
  <2>2. PathsKnown'
    BY <1>2, <1>5, <2>1 DEF RInv, PathsKnown
  <2> QED BY <1>1, <1>5, <2>1, <2>2
<1>12. Topics' = Topics
  BY <1>5 DEF Topics
<1>13. ASSUME NEW k \in DOMAIN entries, out = entries[k].observers, out # <<>>
       PROVE  Range(out) \in Topics
  <2>1. out \in Seq(Ws)
    BY <1>1, <1>13, ObserverLists
  <2>2. 1 \in DOMAIN out
    BY <1>13, <2>1
  <2>3. out[1] \in Range(out)
    BY <2>2 DEF Range
  <2> QED BY <1>13, <2>3 DEF Topics
<1>14. \A w : Range(<<w>>) = {w} /\ DOMAIN <<w>> = {1}
  BY DEF Range
<1>15. Range(<<>>) = {} /\ DOMAIN <<>> = {}
  BY DEF Range
<1> DEFINE gone == OwnersIn(pending) \ OwnersIn(d.after)
<1>16. CASE /\ Reaches(Range(out), m) /\ FreeOwners(gone) /\ pc' = "server"
  <2>1. Present' = Present \ gone /\ Apart(entries') /\ PathsKnown'
    BY <1>11, <1>16
  <2>2. Halted' = Halted
    BY <1>5, <1>16 DEF Halted
  <2>3. gone \subseteq Ws
    <3>1. \A i \in DOMAIN pending : pending[i] \in Conn
      BY <1>1
    <3> QED BY <3>1 DEF OwnersIn, Conn
  <2>4. gone = {} \/ /\ d.handled /\ ~m.observe
                     /\ \E t : gone \subseteq {t}
    BY <1>6
  <2> HIDE DEF gone
  <2>5. CASE out = <<>> /\ (m.observe \/ ~d.handled)
    <3>1. Present' = Present /\ inbox' = inbox
      BY <1>10, <1>15, <1>16, <2>1, <2>4, <2>5
    <3> QED BY <1>12, <2>1, <2>2, <3>1, Unseen
  <2>6. CASE ~m.observe /\ \E w \in Ws : out = <<w>>
    <3>1. PICK w \in Ws : out = <<w>>
      BY <2>6
    <3>2. P!Deliver({w}, f)
      BY <1>9, <1>14, <1>16, <3>1
    <3>3. Present' \in {Present} \cup {Present \ {t} : t \in Ws}
      <4>1. CASE gone = {}
        BY <2>1, <4>1
      <4>2. CASE gone # {}
        <5>1. PICK t : gone \subseteq {t}
          BY <2>4, <4>2
        <5>2. gone = {t} /\ t \in Ws
          BY <2>3, <4>2, <5>1
        <5> QED BY <2>1, <5>2
      <4> QED BY <4>1, <4>2
    <3>4. P!AnswerTo(w, f)
      BY <1>3, <1>5, <1>12, <2>2, <2>6, <3>2, <3>3 DEF P!AnswerTo, Present
    <3> QED BY <1>3, <2>1, <3>4 DEF Maps, P!Next
  <2>7. CASE /\ m.observe /\ out # <<>>
             /\ \E k \in DOMAIN entries : out = entries[k].observers
    <3>1. Present' = Present /\ Range(out) \in Topics
      BY <1>13, <2>1, <2>4, <2>7
    <3>2. P!Deliver(Range(out), f)
      BY <1>9, <1>16
    <3>3. P!Publish(Range(out), f)
      BY <1>3, <1>5, <1>12, <2>2, <2>7, <3>1, <3>2 DEF P!Publish, Present
    <3> QED BY <1>3, <2>1, <3>1, <3>3 DEF Maps, P!Next
  <2> QED BY <1>7, <2>5, <2>6, <2>7
<1>17. CASE \E k \in DOMAIN out :
              /\ Reaches({out[i] : i \in 1..(k - 1)}, m)
              /\ FreeOwners(OwnersIn(pending) \ OwnersIn(d.seen))
              /\ pc' \in {"hung", "crashed"}
  <2>1. PICK k \in DOMAIN out :
              /\ Reaches({out[i] : i \in 1..(k - 1)}, m)
              /\ FreeOwners(OwnersIn(pending) \ OwnersIn(d.seen))
              /\ pc' \in {"hung", "crashed"}
    BY <1>17
  <2>2. Halted' = TRUE
    BY <2>1 DEF Halted
  <2>3. Present' \subseteq Present /\ Apart(entries') /\ PathsKnown'
    BY <1>11, <2>1
  <2> DEFINE S == {out[i] : i \in 1..(k - 1)}
  <2>4. CASE \E w \in Ws : out = <<w>>
    <3>1. k = 1
      BY <1>14, <2>4
    <3>2. S = {}
      BY <3>1
    <3>3. inbox' = inbox
      BY <1>10, <2>1, <3>2
    <3> QED BY <1>5, <2>2, <2>3, <3>3, StopsSilently
  <2>5. CASE \E l \in DOMAIN entries : out = entries[l].observers
    <3>1. out \in Seq(Ws)
      BY <1>1, <2>5, ObserverLists
    <3>2. S \subseteq Range(out) /\ Range(out) \in Topics
      <4>1. 1..(k - 1) \subseteq DOMAIN out /\ out # <<>>
        BY <3>1
      <4> QED BY <1>13, <2>5, <4>1 DEF Range
    <3>3. P!Deliver(S, f)
      BY <1>9, <2>1
    <3> HIDE DEF S
    <3>4. Present' \in SUBSET Present
      BY <2>3
    <3>5. P!Stop
      BY <1>3, <1>5, <1>12, <2>2, <3>2, <3>3, <3>4 DEF P!Stop, Present
    <3> QED BY <2>3, <3>5 DEF Maps, P!Next
  <2> QED BY <1>7, <1>15, <2>4, <2>5
<1> QED BY <1>1, <1>4, <1>16, <1>17, <1>8, PassOnReaches

-----------------------------------------------------------------------------
(* The theorem.                                                            *)

\* The first state of the proxy is the first state of PubSub.
LEMMA InitMaps == Init => P!Init /\ RInv
<1> SUFFICES ASSUME Init PROVE P!Init /\ RInv
  OBVIOUS
<1>1. entries = <<>> /\ clientq = <<>> /\ sent = {} /\ pc = "select"
  BY DEF Init
<1>2. \A w \in Ws : ~ws[w].open /\ ws[w].name = <<>>
  BY DEF Init
<1>3. Topics = {} /\ Apart(entries)
  BY <1>1 DEF Topics, Apart
<1>4. ~Halted /\ {w \in Ws : Listening(w)} = {}
  BY <1>1, <1>2 DEF Halted, Listening
<1>5. P!Init
  BY <1>3, <1>4 DEF P!Init, Init
<1>6. PathsKnown
  BY <1>1, <1>2, KnownNames DEF PathsKnown
<1> QED BY <1>3, <1>5, <1>6, InitIInv DEF RInv

\* Every step keeps what the mapping needs and is a step of PubSub or none.
LEMMA StepMaps == RInv /\ [Next]_vars => RInv' /\ [P!Next]_(P!vars)
<1> SUFFICES ASSUME RInv, [Next]_vars PROVE RInv' /\ [P!Next]_(P!vars)
  OBVIOUS
<1>1. IInv'
  BY StepKeeps DEF RInv
<1>2. Maps /\ Apart(entries') /\ PathsKnown'
  <2>1. CASE Environment
    BY <2>1, EnvironmentMaps
  <2>2. CASE \/ Select
             \/ \E s \in Sockets : Pass(s)
             \/ FcgiStep \/ WebsocketTurn
    BY <2>2, QuietTurnMaps
  <2>3. CASE ClientTurn
    BY <2>3, ClientTurnMaps
  <2>4. CASE ServerTurn
    BY <2>4, ServerTurnMaps
  <2>5. CASE \E w \in Ws : Handshake(w)
    BY <2>5, HandshakeMaps
  <2>6. CASE UNCHANGED vars
    BY <2>6, Unseen DEF vars, proxyVars, RInv, PathsKnown, Present, Listening,
                        Halted, Topics
  <2> QED BY <2>1, <2>2, <2>3, <2>4, <2>5, <2>6 DEF Next, ProxyStep, FcgiStep
<1> QED BY <1>1, <1>2 DEF RInv, Maps

\* The proxy implements PubSub: whatever goes on in queues and sockets, a
\* datagram that is handled is one notification to all the browsers of one entry
\* that are there, or one answer to one browser, and an entry that is deleted
\* takes its browsers along (serve and all that it calls).
THEOREM Refinement == Spec => ImplementsPubSub
<1>1. Spec => []RInv
  BY InitMaps, StepMaps, PTL DEF Spec
<1> QED BY <1>1, InitMaps, StepMaps, PTL DEF Spec, ImplementsPubSub, P!Spec
=============================================================================
