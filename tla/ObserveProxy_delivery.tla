------------------------ MODULE ObserveProxy_delivery ------------------------
(***************************************************************************)
(* ObserveProxy delivers to a browser only what it has asked for, as long  *)
(* as no token has come back: for every number of browsers, names,         *)
(* registrations and datagrams.                                            *)
(***************************************************************************)
EXTENDS ObserveProxy_proofs

\* No two requests went out with one token; the counter has 16 bits.
KeysDistinct == \A r, s \in sent : r.key = s.key => r = s

\* The tokens of nobody's requests are not those of the client's.
NoStrayMatches == \A r \in sent : r.key \notin StrayTokens

\* The request a connection waits for, and the one a datagram answers.
Waits(c) == \E r \in sent : c.key = r.key /\ c.path = r.path /\ c.owner = r.owner
Answering(m) == \E r \in sent : m.token = r.key /\ m.path = r.path

\* How names, requests, connections and datagrams belong together:  a request is
\* about the name its owner asked for, a connection waits for a request, a
\* datagram that is not a stray answers one, and who observes an entry asked for
\* a prefix of its name.  Frames go to browsers that were accepted, whose names
\* do not change any more.
Related ==
  /\ \A r \in sent : ws[r.owner].name = r.path
  /\ \A i \in DOMAIN pending : Waits(pending[i])
  /\ \A i \in DOMAIN clientq :
       Answering(clientq[i]) \/ clientq[i].token \in StrayTokens
  /\ \A k \in DOMAIN entries : \A i \in DOMAIN entries[k].observers :
       StartsWith(entries[k].key, ws[entries[k].observers[i]].name)
  /\ \A w \in Ws : inbox[w] # <<>> => Accepted(w)

DInv ==
  /\ IInv /\ Related
  /\ KeysDistinct /\ NoStrayMatches => NoForeignDelivery

-----------------------------------------------------------------------------
(* Prefixes.                                                               *)

\* Every string starts with itself, and of two prefixes of one string one is a
\* prefix of the other: what lookups by prefix rest on (strncmp).
LEMMA PrefixOfItself ==
  ASSUME NEW s \in Str
  PROVE  StartsWith(s, s)
  BY DEF StartsWith, StrNEq, Str

\* Two prefixes of one string compare.
LEMMA PrefixesCompare ==
  ASSUME NEW s \in Str, NEW a \in Str, NEW b \in Str,
         StartsWith(s, a), StartsWith(s, b)
  PROVE  StartsWith(a, b) \/ StartsWith(b, a)
<1>1. /\ Len(a) \in Nat /\ Len(b) \in Nat /\ Len(s) \in Nat
  BY DEF Str
<1>2. \A i \in 1..Len(a) : i <= Len(s) /\ s[i] = a[i]
  BY <1>1 DEF StartsWith, StrNEq
<1>3. \A i \in 1..Len(b) : i <= Len(s) /\ s[i] = b[i]
  BY <1>1 DEF StartsWith, StrNEq
<1>4. CASE Len(a) <= Len(b)
  <2>1. \A i \in 1..Len(a) : i <= Len(b) /\ b[i] = a[i]
    BY <1>1, <1>2, <1>3, <1>4
  <2> QED BY <1>1, <2>1 DEF StartsWith, StrNEq
<1>5. CASE Len(b) <= Len(a)
  <2>1. \A i \in 1..Len(b) : i <= Len(a) /\ a[i] = b[i]
    BY <1>1, <1>2, <1>3, <1>5
  <2> QED BY <1>1, <2>1 DEF StartsWith, StrNEq
<1> QED BY <1>1, <1>4, <1>5

-----------------------------------------------------------------------------
(* Steps that send nothing and put nothing in front of a browser.          *)

\* The connections that are left wait for what they waited for.
QueueDescends ==
  \A j \in DOMAIN pending' : \E i \in DOMAIN pending :
    SameRequest(pending'[j], pending[i])

\* A datagram is in the socket already, or answers a request, or is a stray.
SocketDescends ==
  \A j \in DOMAIN clientq' :
    \/ \E i \in DOMAIN clientq : clientq'[j] = clientq[i]
    \/ Answering(clientq'[j]) \/ clientq'[j].token \in StrayTokens

\* Steps that add nothing to what Related speaks of keep it.
LEMMA RelatedKept ==
  ASSUME IInv, Related, KeepsAccepted, sent' = sent, EntriesDescend,
         QueueDescends, SocketDescends,
         \A w \in Ws : inbox'[w] # <<>> => inbox[w] # <<>> \/ Accepted(w)
  PROVE  Related'
<1>1. \A r \in sent' : ws'[r.owner].name = r.path
  <2>1. \A r \in sent : r.owner \in Ws /\ Accepted(r.owner)
    BY DEF IInv, TypeOK, Request, Accounts, Owners
  <2> QED BY <2>1 DEF Related, KeepsAccepted
<1>2. (\A i \in DOMAIN pending : Waits(pending[i]))'
  BY DEF Related, QueueDescends, SameRequest, Waits
<1>3. (\A i \in DOMAIN clientq :
         Answering(clientq[i]) \/ clientq[i].token \in StrayTokens)'
  BY DEF Related, SocketDescends, Answering
<1>4. ASSUME NEW k \in DOMAIN entries', NEW i \in DOMAIN entries'[k].observers
      PROVE  StartsWith(entries'[k].key, ws'[entries'[k].observers[i]].name)
  <2>1. PICK j \in DOMAIN entries : entries'[k] = entries[j]
    BY <1>4 DEF EntriesDescend
  <2> DEFINE w == entries[j].observers[i]
  <2>2. i \in DOMAIN entries[j].observers /\ w \in Ws /\ Accepted(w)
    BY <1>4, <2>1, ObserverLists DEF IInv, Accounts
  <2>3. StartsWith(entries[j].key, ws[w].name)
    BY <2>2 DEF Related
  <2>4. ws'[w].name = ws[w].name
    BY <2>2 DEF KeepsAccepted
  <2> QED BY <2>1, <2>3, <2>4
<1>5. (\A w \in Ws : inbox[w] # <<>> => Accepted(w))'
  BY DEF Related, KeepsAccepted, Accepted
<1> QED BY <1>1, <1>2, <1>3, <1>4, <1>5 DEF Related

\* Frames stay about what the browser asked for.
LEMMA DeliveredStays ==
  ASSUME Related, KeepsAccepted, UNCHANGED inbox, NoForeignDelivery
  PROVE  NoForeignDelivery'
<1>1. ASSUME NEW w \in Ws, NEW i \in DOMAIN inbox[w]
      PROVE  ws'[w].name = ws[w].name
  <2>1. inbox[w] # <<>>
    OBVIOUS
  <2> QED BY <2>1 DEF Related, KeepsAccepted
<1> QED BY <1>1 DEF NoForeignDelivery

\* What stays as it was descends from itself, as in Stays.
LEMMA QueuesStay ==
  /\ pending' = pending => QueueDescends
  /\ clientq' = clientq => SocketDescends
  BY DEF QueueDescends, SameRequest, SocketDescends

\* All the steps but those of three: a datagram, an unregistration and a
\* handshake.
LEMMA QuietSteps ==
  ASSUME IInv, Related,
         \/ Environment \/ Select
         \/ \E s \in Sockets : Pass(s)
         \/ FcgiStep \/ WebsocketTurn \/ UNCHANGED vars
  PROVE  Related' /\ KeepsAccepted /\ UNCHANGED <<sent, inbox>>
<1> USE DEF FcgiStep, FcgiTurn, AcceptFails, AcceptHttp, DropHttp, HttpTurn
<1>1. ws \in [Ws -> WsState]
  BY DEF IInv, TypeOK
<1>2. UNCHANGED <<sent, entries, inbox, pending>>
  <2>1. \A s \in Sockets :
          Pass(s) => pending' = pending
    BY CleanNothing DEF Pass, IInv, Accounts
  <2> QED BY <2>1 DEF Environment, Connect, Speak, Close, HttpRequest, HttpSpeak,
        HttpClose, ClientDatagram, RdDatagram, Select, Pass, WebsocketTurn,
        vars, proxyVars
<1>3. KeepsAccepted
  <2>1. CASE \E w \in Ws, n \in Asks, o, now \in BOOLEAN : Connect(w, n, o, now)
    BY <1>1, <2>1 DEF Connect, KeepsAccepted, Accepted
  <2>2. CASE \E w \in Ws : Speak(w) \/ Close(w)
    <3>1. PICK w \in Ws : Speak(w) \/ Close(w)
      BY <2>2
    <3>2. ws[w] \in WsState
      BY <1>1
    <3>3. \E b \in BOOLEAN : \/ ws' = [ws EXCEPT ![w].spoken = b]
                             \/ ws' = [ws EXCEPT ![w].open = b]
      BY <3>1 DEF Speak, Close
    <3>4. \A v \in Ws : /\ ws'[v].stage = ws[v].stage /\ ws'[v].name = ws[v].name
                        /\ ws'[v].observe = ws[v].observe
      BY <1>1, <3>2, <3>3 DEF WsState
    <3> QED BY <3>4 DEF KeepsAccepted, Accepted
  <2>3. CASE WebsocketTurn
    <3> DEFINE v == Head(backlog)
    <3>1. ws' = [ws EXCEPT ![v].stage = "handshake"]
      BY <2>3 DEF WebsocketTurn
    <3>2. v = backlog[1] /\ 1 \in DOMAIN backlog
      BY <2>3 DEF WebsocketTurn, IInv, TypeOK
    <3>3. ws[v].stage = "backlog"
      BY <3>2 DEF IInv, Accounts
    <3> HIDE DEF v
    <3> QED BY <1>1, <3>1, <3>3 DEF KeepsAccepted, Accepted
  <2>4. CASE UNCHANGED ws
    BY <2>4, Stays
  <2>5. CASE ~UNCHANGED ws
    <3>1. \/ \E w \in Ws, n \in Asks, o, now \in BOOLEAN : Connect(w, n, o, now)
          \/ \E w \in Ws : Speak(w) \/ Close(w)
          \/ WebsocketTurn
      BY <2>5 DEF Environment, HttpRequest, HttpSpeak, HttpClose, ClientDatagram,
                  RdDatagram, Select, Pass, vars
    <3> QED BY <2>1, <2>2, <2>3, <3>1
  <2> QED BY <2>4, <2>5
<1>4. SocketDescends
  <2>1. ASSUME NEW m, ClientDatagram(m),
               Answering(m) \/ m.token \in StrayTokens
        PROVE  SocketDescends
    <3>1. clientq \in Seq(Datagram) /\ clientq' = Append(clientq, m)
      BY <2>1 DEF IInv, TypeOK, ClientDatagram
    <3> QED BY <2>1, <3>1 DEF SocketDescends
  <2>2. \A r \in sent : \A m \in Answers(r) : Answering(m)
    BY DEF Answers, Answering
  <2>3. \A t \in StrayTokens : Stray(t).token \in StrayTokens
    BY DEF Stray
  <2>4. \/ clientq' = clientq
        \/ \E r \in sent : \E m \in Answers(r) : ClientDatagram(m)
        \/ \E t \in StrayTokens : ClientDatagram(Stray(t))
    BY DEF Environment, Connect, Speak, Close, HttpRequest, HttpSpeak, HttpClose,
           RdDatagram, Select, Pass, WebsocketTurn, vars
  <2> QED BY <2>1, <2>2, <2>3, <2>4, QueuesStay
<1> QED BY <1>2, <1>3, <1>4, RelatedKept, QueuesStay, Stays

\* An unregistration frees observers, and takes no name from them.
LEMMA ServerTurnRelated ==
  ASSUME IInv, Related, ServerTurn
  PROVE  Related' /\ KeepsAccepted /\ UNCHANGED <<sent, inbox>>
<1> DEFINE n == Head(serverq).name
<1>1. UNCHANGED <<sent, inbox, pending, clientq>>
  BY DEF ServerTurn
<1>2. entries \in Seq(Entry) /\ n \in Str
  <2>1. serverq \in Seq(RdRequest) /\ serverq # <<>>
    BY DEF IInv, TypeOK, ServerTurn
  <2>2. Head(serverq) \in RdRequest
    BY <2>1
  <2> QED BY <2>2, Strings DEF RdRequest, IInv, TypeOK
<1>3. Register(n) \/ Unregister(n) \/ UNCHANGED <<entries, ws>>
  BY DEF ServerTurn
<1> HIDE DEF n
<1>4. KeepsAccepted /\ EntriesDescend
  <2>1. CASE Register(n)
    <3> DEFINE node == NewEntry(n)
    <3>1. node \in Entry /\ node.observers = <<>>
      BY <1>2 DEF NewEntry, Entry
    <3>2. entries' = NodeInsert(entries, node) /\ ws' = ws
      BY <2>1 DEF Register
    <3> HIDE DEF node
    <3>3. \A k \in DOMAIN entries' :
            entries'[k] = node \/ \E j \in DOMAIN entries : entries'[k] = entries[j]
      BY <1>2, <3>1, <3>2, NodeInsertIsSeq
    <3> QED BY <3>1, <3>2, <3>3, Stays DEF EntriesDescend
  <2>2. CASE Unregister(n)
    <3> DEFINE k == EntryFor(n)
    <3>1. k \in {0} \cup DOMAIN entries
      BY <1>2, NodeGetRange DEF EntryFor
    <3>2. entries' = NodeDelete(entries, n, Len(n))
      BY <2>2 DEF Unregister
    <3>3. EntriesDescend
      BY <1>2, <3>2, NodeDeleteIsSeq DEF EntriesDescend
    <3>4. CASE k = 0
      BY <2>2, <3>3, <3>4, Stays DEF Unregister
    <3>5. CASE k # 0
      <4>1. FreeOwners(Range(entries[k].observers))
        BY <2>2, <3>5 DEF Unregister
      <4>2. \A w \in Range(entries[k].observers) : Accepted(w)
        BY <3>1, <3>5, ObserverLists DEF Range, IInv, Accounts
      <4> QED BY <3>3, <4>1, <4>2, FreeKeeps
    <3> QED BY <3>4, <3>5
  <2>3. CASE UNCHANGED <<entries, ws>>
    BY <2>3, Stays
  <2> QED BY <1>3, <2>1, <2>2, <2>3
<1> QED BY <1>1, <1>4, RelatedKept, QueuesStay

-----------------------------------------------------------------------------
(* A datagram.                                                             *)

\* When response_received is called, the connections before the one that was
\* looked at were skipped for the same token; so the lookup by prefix that
\* follows stops at the first of the queue, and that has the token itself.
LEMMA MatchedIsFirst ==
  ASSUME NEW p \in Seq(Conn), NEW m, Dispatch(p, m).handled
  PROVE  /\ 1 \in DOMAIN p /\ p[1].key = m.token
         /\ NodeGet(p, m.token, Len(m.token)) = 1
<1> DEFINE kept == {i \in DOMAIN p : ~Skipped(p[i], m)}
           e == Examined(p, m)
           hits == {i \in DOMAIN p : StrNEq(p[i].key, m.token, Len(m.token))}
<1>1. e # 0 /\ p[e].key = m.token
  BY DEF Dispatch
<1>2. kept \in SUBSET Nat /\ hits \in SUBSET Nat
  OBVIOUS
<1>3. kept # {}
  BY <1>1 DEF Examined
<1>4. \E i \in kept : \A j \in kept : i <= j
  BY <1>2, <1>3, Minimum
<1>5. e \in kept /\ \A j \in kept : e <= j
  BY <1>3, <1>4 DEF Examined
<1>6. 1 \in DOMAIN p
  BY <1>5
<1>7. p[1].key = m.token
  <2>1. CASE e = 1
    BY <1>1, <2>1
  <2>2. CASE e # 1
    <3>1. 1 \notin kept
      BY <1>5, <2>2
    <3> QED BY <1>6, <3>1 DEF Skipped
  <2> QED BY <2>1, <2>2
<1>8. 1 \in hits
  <2>1. p[1] \in Conn
    BY <1>6
  <2>2. m.token \in Str
    BY <1>7, <2>1 DEF Conn
  <2>3. StartsWith(m.token, m.token)
    BY <2>2, PrefixOfItself
  <2> QED BY <1>6, <1>7, <2>3 DEF StartsWith
<1>9. NodeGet(p, m.token, Len(m.token)) = 1
  <2> DEFINE n == NodeGet(p, m.token, Len(m.token))
  <2>1. \E i \in hits : \A j \in hits : i <= j
    BY <1>2, <1>8, Minimum
  <2>2. n \in hits /\ \A j \in hits : n <= j
    BY <1>8, <2>1 DEF NodeGet
  <2>3. n <= 1 /\ n \in DOMAIN p
    BY <1>8, <2>2
  <2> HIDE DEF n
  <2>4. n = 1
    BY <2>3
  <2> QED BY <2>4 DEF n
<1> QED BY <1>6, <1>7, <1>9

\* The recipients of a response were accepted.
LEMMA RecipientsAccepted ==
  ASSUME IInv, NEW m, NEW w \in Range(Recipients(pending, m))
  PROVE  w \in Ws /\ Accepted(w)
<1> DEFINE j == NodeGet(pending, m.token, Len(m.token))
           k == EntryFor(pending[j].path)
           out == Recipients(pending, m)
<1>1. pending \in Seq(Conn) /\ entries \in Seq(Entry)
  BY DEF IInv, TypeOK
<1>2. j \in {0} \cup DOMAIN pending
  BY <1>1, NodeGetRange
<1>3. k \in {0} \cup DOMAIN entries
  BY <1>1, NodeGetRange DEF EntryFor
<1>4. out = IF j = 0 THEN <<>>
            ELSE IF ~m.observe THEN <<pending[j].owner>>
            ELSE IF k = 0 THEN <<>> ELSE entries[k].observers
  BY DEF Recipients
<1>5. PICK i \in DOMAIN out : w = out[i]
  BY DEF Range
<1> HIDE DEF j, k, out
<1>6. CASE out = <<>>
  BY <1>5, <1>6
<1>7. CASE j # 0 /\ out = <<pending[j].owner>>
  <2>1. pending[j] \in Conn /\ pending[j].owner \in Owners
    BY <1>1, <1>2, <1>7 DEF IInv, Accounts
  <2>2. w = pending[j].owner
    BY <1>5, <1>7
  <2> QED BY <2>1, <2>2 DEF Conn, IInv, Accounts
<1>8. CASE k # 0 /\ out = entries[k].observers
  <2>1. k \in DOMAIN entries /\ entries[k].observers \in Seq(Ws)
    BY <1>3, <1>8, ObserverLists
  <2> QED BY <1>5, <1>8, <2>1 DEF IInv, Accounts
<1> QED BY <1>4, <1>6, <1>7, <1>8

\* Each of them asked for a name the response is about.
About(path, name) == StartsWith(path, name) \/ StartsWith(name, path)

\* Whoever is sent a datagram has asked about its path.
LEMMA RecipientsAsked ==
  ASSUME IInv, Related, KeysDistinct, NoStrayMatches,
         NEW m \in Datagram, Answering(m) \/ m.token \in StrayTokens,
         Dispatch(pending, m).handled,
         NEW w \in Range(Recipients(pending, m))
  PROVE  About(m.path, ws[w].name)
<1> DEFINE k == EntryFor(pending[1].path)
           out == Recipients(pending, m)
<1>1. pending \in Seq(Conn) /\ entries \in Seq(Entry) /\ ws \in [Ws -> WsState]
  BY DEF IInv, TypeOK
<1>2. /\ 1 \in DOMAIN pending /\ pending[1].key = m.token
      /\ NodeGet(pending, m.token, Len(m.token)) = 1
  BY <1>1, MatchedIsFirst
<1>3. PICK r \in sent : /\ pending[1].key = r.key /\ pending[1].path = r.path
                        /\ pending[1].owner = r.owner
  BY <1>2 DEF Related, Waits
<1>4. Answering(m)
  BY <1>2, <1>3 DEF NoStrayMatches
<1>5. m.path = r.path
  BY <1>2, <1>3, <1>4 DEF Answering, KeysDistinct
<1>6. out = IF ~m.observe THEN <<pending[1].owner>>
            ELSE IF k = 0 THEN <<>> ELSE entries[k].observers
  BY <1>2 DEF Recipients
<1>7. PICK i \in DOMAIN out : w = out[i]
  BY DEF Range
<1>8. m.path \in Str
  BY DEF Datagram
<1>9. /\ k \in {0} \cup DOMAIN entries
      /\ k # 0 => StartsWith(entries[k].key, m.path)
  <2>1. k = NodeGet(entries, m.path, Len(m.path))
    BY <1>3, <1>5 DEF EntryFor
  <2> QED BY <1>1, <2>1, NodeGetFinds DEF StartsWith
<1> HIDE DEF k, out
<1>10. CASE out = <<pending[1].owner>>
  <2>1. w = r.owner
    BY <1>3, <1>7, <1>10
  <2>2. ws[w].name = m.path
    BY <1>5, <2>1 DEF Related
  <2> QED BY <1>8, <2>2, PrefixOfItself DEF About
<1>11. CASE out = <<>>
  BY <1>7, <1>11
<1>12. CASE k # 0 /\ out = entries[k].observers
  <2>1. k \in DOMAIN entries /\ entries[k] \in Entry /\ w \in Ws
    <3>1. k \in DOMAIN entries
      BY <1>9, <1>12
    <3> QED BY <1>7, <1>12, <3>1, ObserverLists
  <2>2. StartsWith(entries[k].key, ws[w].name)
    BY <1>7, <1>12, <2>1 DEF Related
  <2>3. entries[k].key \in Str /\ ws[w].name \in Str
    <3>1. ws[w] \in WsState
      BY <1>1, <2>1
    <3> QED BY <2>1, <3>1 DEF Entry, WsState
  <2> QED BY <1>8, <1>9, <1>12, <2>2, <2>3, PrefixesCompare DEF About
<1> QED BY <1>6, <1>10, <1>11, <1>12

\* A datagram puts its frame only in front of browsers that asked for it.
LEMMA ClientTurnDelivers ==
  ASSUME IInv, Related, ClientTurn
  PROVE  /\ Related' /\ UNCHANGED sent
         /\ KeysDistinct /\ NoStrayMatches /\ NoForeignDelivery
              => NoForeignDelivery'
<1> DEFINE m == Head(clientq)
           d == Dispatch(pending, m)
           out == IF d.handled THEN Recipients(d.seen, m) ELSE <<>>
<1>1. /\ clientq \in Seq(Datagram) /\ clientq # <<>> /\ pending \in Seq(Conn)
      /\ inbox \in [Ws -> Seq(FrameType)]
      /\ \A i \in DOMAIN pending : pending[i].is_observe
  BY DEF IInv, TypeOK, ClientTurn, Accounts
<1>2. /\ m \in Datagram /\ m = clientq[1] /\ 1 \in DOMAIN clientq
      /\ clientq' = Tail(clientq)
      /\ \A i \in DOMAIN clientq' : \E j \in DOMAIN clientq : clientq'[i] = clientq[j]
  BY <1>1 DEF ClientTurn
<1>3. Answering(m) \/ m.token \in StrayTokens
  BY <1>2 DEF Related
<1>4. PassOn(m, d, out) /\ UNCHANGED <<entries, sent>>
  BY DEF ClientTurn
<1> HIDE DEF m
<1>5. d.seen = pending
  BY <1>1, DispatchOfObserving
<1>6. Descends(d.seen, pending) /\ Descends(d.after, pending)
  BY <1>1, DispatchDescends
<1>7. \A w \in Range(out) : w \in Ws /\ Accepted(w)
  <2>1. CASE d.handled
    BY <1>5, <2>1, RecipientsAccepted
  <2>2. CASE ~d.handled
    BY <2>2 DEF Range
  <2> QED BY <2>1, <2>2
<1>8. ASSUME KeysDistinct, NoStrayMatches, NEW w \in Range(out)
      PROVE  About(m.path, ws[w].name)
  <2>1. CASE d.handled
    BY <1>2, <1>3, <1>5, <1>8, <2>1, RecipientsAsked
  <2>2. CASE ~d.handled
    BY <1>8, <2>2 DEF Range
  <2> QED BY <2>1, <2>2
<1> HIDE DEF d, out
<1>9. PICK S, q : /\ S \subseteq Range(out) /\ Reaches(S, m)
                  /\ pending' = q /\ q \in {d.seen, d.after}
                  /\ FreeOwners(OwnersIn(pending) \ OwnersIn(q))
  <2>1. out \in Seq(Ws) /\ IsInjective(out)
    <3>1. out \in {Recipients(pending, m), <<>>}
      BY <1>5 DEF out
    <3> QED BY <3>1, RecipientsOnce
  <2>2. ASSUME NEW k \in DOMAIN out
        PROVE  {out[i] : i \in 1..(k - 1)} \subseteq Range(out)
    <3>1. 1..(k - 1) \subseteq DOMAIN out
      BY <2>1
    <3> QED BY <3>1 DEF Range
  <2> QED BY <1>4, <2>1, <2>2, PassOnReaches
<1>10. KeepsAccepted /\ QueueDescends /\ SocketDescends /\ EntriesDescend
  <2>1. \A w \in OwnersIn(pending) : Accepted(w)
    BY DEF IInv, Accounts, OwnersIn
  <2>2. KeepsAccepted
    BY <1>9, <2>1, FreeKeeps
  <2>3. QueueDescends
    BY <1>6, <1>9 DEF QueueDescends, Descends
  <2>4. SocketDescends
    BY <1>2 DEF SocketDescends
  <2> QED BY <1>4, <2>2, <2>3, <2>4, Stays
<1>11. \A w \in Ws :
         \/ inbox'[w] = inbox[w]
         \/ w \in Range(out) /\ inbox'[w] = Append(inbox[w], Frame(m))
  BY <1>9 DEF Reaches
<1>12. Related'
  <2>1. \A w \in Ws : inbox'[w] # <<>> => inbox[w] # <<>> \/ Accepted(w)
    BY <1>7, <1>11
  <2> QED BY <1>4, <1>10, <2>1, RelatedKept
<1>13. ASSUME KeysDistinct, NoStrayMatches, NoForeignDelivery
       PROVE  NoForeignDelivery'
  <2> SUFFICES ASSUME NEW w \in Ws, NEW i \in DOMAIN inbox'[w]
               PROVE  About(inbox'[w][i].path, ws'[w].name)
    BY DEF NoForeignDelivery, About
  <2>1. inbox[w] \in Seq(FrameType)
    BY <1>1
  <2>2. Accepted(w) => ws'[w].name = ws[w].name
    BY <1>10 DEF KeepsAccepted
  <2>3. CASE i \in DOMAIN inbox[w]
    <3>1. inbox[w] # <<>>
      BY <2>1, <2>3
    <3>2. ws'[w].name = ws[w].name
      BY <2>2, <3>1 DEF Related
    <3>3. inbox'[w][i] = inbox[w][i]
      BY <1>11, <2>1, <2>3
    <3> QED BY <1>13, <2>3, <3>2, <3>3 DEF NoForeignDelivery, About
  <2>4. CASE i \notin DOMAIN inbox[w]
    <3>1. w \in Range(out) /\ inbox'[w] = Append(inbox[w], Frame(m))
      BY <1>11, <2>4
    <3>2. inbox'[w][i] = Frame(m)
      BY <2>1, <2>4, <3>1
    <3>3. inbox'[w][i].path = m.path
      BY <3>2 DEF Frame
    <3> QED BY <1>7, <1>8, <1>13, <2>2, <3>1, <3>3
  <2> QED BY <2>3, <2>4
<1> QED BY <1>4, <1>12, <1>13

-----------------------------------------------------------------------------
(* A handshake.                                                            *)

\* A browser that joins an entry asked for a prefix of its name, and the request
\* that goes out is about what it asked for.
LEMMA HandshakeRelated ==
  ASSUME IInv, Related, NEW w \in Ws, Handshake(w)
  PROVE  Related' /\ KeepsAccepted /\ UNCHANGED inbox
<1>1. ws[w].stage = "handshake" /\ UNCHANGED <<clientq, inbox>>
  BY DEF Handshake
<1>2. /\ ws \in [Ws -> WsState] /\ ws[w] \in WsState /\ entries \in Seq(Entry)
      /\ pending \in Seq(Conn) /\ sent \subseteq Request
  BY DEF IInv, TypeOK
<1>3. ~Accepted(w) /\ w \notin Owners
  BY <1>1, Newcomer
<1>4. ASSUME UNCHANGED <<entries, sent, pending>>,
             \A v \in Ws : v # w => ws'[v] = ws[v]
      PROVE  Related' /\ KeepsAccepted
  <2>1. KeepsAccepted
    BY <1>3, <1>4 DEF KeepsAccepted, Accepted
  <2> QED BY <1>1, <1>4, <2>1, RelatedKept, QueuesStay, Stays
<1>5. ASSUME NEW n \in Str, NEW o, Enter(w, n, o)
      PROVE  Related' /\ KeepsAccepted
  <2> DEFINE k == EntryFor(n)
  <2>1. CASE k = 0
    <3>1. ws' = [ws EXCEPT ![w].stage = "freed"] /\ UNCHANGED <<sent, entries, pending>>
      BY <1>5, <2>1 DEF Enter
    <3> QED BY <1>2, <1>4, <3>1
  <2>2. CASE k # 0
    <3> DEFINE obs == entries[k].observers
               new == NodeInsert(obs, w)
    <3>1. k \in DOMAIN entries /\ StartsWith(entries[k].key, n)
      BY <1>2, <2>2, NodeGetFinds DEF EntryFor, StartsWith
    <3>2. /\ Join(w, k, n, o)
          /\ StartObservation(w, n) \/ UNCHANGED <<pending, sent>>
      BY <1>5, <2>2 DEF Enter
    <3> HIDE DEF k
    <3>3. /\ ws'[w].stage = "observing" /\ ws'[w].name = n
          /\ \A v \in Ws : v # w => ws'[v] = ws[v]
      <4>1. ws' = [ws EXCEPT ![w].stage = "observing", ![w].name = n, ![w].observe = o]
        BY <3>2 DEF Join
      <4> QED BY <1>2, <4>1 DEF WsState
    <3>4. KeepsAccepted
      BY <1>3, <3>3 DEF KeepsAccepted, Accepted
    <3>5. entries[k] \in Entry /\ obs \in Seq(Ws)
      BY <3>1, ObserverLists
    <3>6. entries' = [entries EXCEPT ![k].observers = new]
      BY <3>2 DEF Join
    <3>7. /\ new \in Seq(Ws)
          /\ \A i \in DOMAIN new : new[i] = w \/ \E j \in DOMAIN obs : new[i] = obs[j]
      <4>1. obs \in Seq(Ws)
        BY <3>5
      <4> HIDE DEF obs
      <4> QED BY <4>1, NodeInsertIsSeq
    <3> HIDE DEF new
    <3>8. /\ DOMAIN entries' = DOMAIN entries
          /\ entries'[k].observers = new /\ entries'[k].key = entries[k].key
          /\ \A l \in DOMAIN entries : l # k => entries'[l] = entries[l]
      BY <1>2, <3>1, <3>5, <3>6 DEF Entry
    <3>9. \A l \in DOMAIN entries : \A i \in DOMAIN entries[l].observers :
            /\ entries[l].observers[i] \in Ws
            /\ ws'[entries[l].observers[i]].name = ws[entries[l].observers[i]].name
            /\ StartsWith(entries[l].key, ws[entries[l].observers[i]].name)
      <4>1. \A l \in DOMAIN entries : entries[l].observers \in Seq(Ws)
        BY ObserverLists
      <4>2. \A l \in DOMAIN entries : \A i \in DOMAIN entries[l].observers :
              entries[l].observers[i] # w
        BY <1>1, Newcomer
      <4> QED BY <3>3, <4>1, <4>2 DEF Related
    <3>10. (\A l \in DOMAIN entries : \A i \in DOMAIN entries[l].observers :
              StartsWith(entries[l].key, ws[entries[l].observers[i]].name))'
      <4>1. ASSUME NEW l \in DOMAIN entries, NEW i \in DOMAIN entries'[l].observers
            PROVE  StartsWith(entries'[l].key, ws'[entries'[l].observers[i]].name)
        <5>1. CASE l # k
          BY <3>8, <3>9, <4>1, <5>1
        <5>2. CASE l = k /\ new[i] = w
          BY <3>1, <3>3, <3>8, <5>2
        <5>3. CASE l = k /\ \E j \in DOMAIN obs : new[i] = obs[j]
          BY <3>1, <3>8, <3>9, <5>3
        <5> QED BY <3>7, <3>8, <4>1, <5>1, <5>2, <5>3
      <4> QED BY <3>8, <4>1
    <3> DEFINE blank == [key |-> <<>>, id |-> 0, path |-> n, owner |-> w]
               req == Stamp(blank, message_id, token)
               conn == Awaiting(req)
    <3>11. /\ req.path = n /\ req.owner = w
           /\ conn.key = req.key /\ conn.path = req.path /\ conn.owner = req.owner
      BY DEF Stamp, Awaiting
    <3>12. \/ UNCHANGED <<pending, sent>>
           \/ /\ sent' = sent \cup {req}
              /\ \A i \in DOMAIN pending' :
                   \/ pending'[i] = conn
                   \/ \E j \in DOMAIN pending : pending'[i] = pending[j]
      <4>1. CASE StartObservation(w, n)
        <5>1. sent' = sent \cup {req} /\ pending' = NodeInsert(pending, conn)
          BY <4>1 DEF StartObservation
        <5> HIDE DEF conn, req
        <5>2. \A i \in DOMAIN NodeInsert(pending, conn) :
                \/ NodeInsert(pending, conn)[i] = conn
                \/ \E j \in DOMAIN pending : NodeInsert(pending, conn)[i] = pending[j]
          <6>1. pending \in Seq(Conn \cup {conn}) /\ conn \in Conn \cup {conn}
            BY <1>2
          <6> QED BY <6>1, NodeInsertIsSeq
        <5> QED BY <5>1, <5>2
      <4> QED BY <3>2, <4>1
    <3> HIDE DEF conn, req
    <3>13. (\A r \in sent : ws[r.owner].name = r.path)'
      <4>1. \A r \in sent : r.owner \in Ws /\ r.owner # w
        BY <1>2, <1>3 DEF Request, Owners
      <4> QED BY <3>3, <3>11, <3>12, <4>1 DEF Related
    <3>14. (\A i \in DOMAIN pending : Waits(pending[i]))'
      BY <3>11, <3>12 DEF Related, Waits
    <3>15. (\A i \in DOMAIN clientq :
              Answering(clientq[i]) \/ clientq[i].token \in StrayTokens)'
      BY <1>1, <3>12 DEF Related, Answering
    <3>16. (\A v \in Ws : inbox[v] # <<>> => Accepted(v))'
      BY <1>1, <3>4 DEF Related, KeepsAccepted, Accepted
    <3> QED BY <3>4, <3>10, <3>13, <3>14, <3>15, <3>16 DEF Related
  <2> QED BY <2>1, <2>2
<1>6. CASE ws[w].spoken /\ Enter(w, ws[w].name, ws[w].observe)
  <2>1. ws[w].name \in Str
    BY <1>2 DEF WsState
  <2> QED BY <1>1, <1>5, <1>6, <2>1
<1>7. CASE \E n \in Names \cup {<<>>}, o \in BOOLEAN : Enter(w, n, o)
  BY <1>1, <1>5, <1>7, Strings
<1>8. CASE UNCHANGED <<message_id, token, pending, entries, sent, ws>>
  BY <1>1, <1>4, <1>8
<1> QED BY <1>6, <1>7, <1>8 DEF Handshake

-----------------------------------------------------------------------------
(* The theorem.                                                            *)

\* In the beginning nothing was sent and nobody has received anything.
LEMMA InitDInv == Init => DInv
<1> SUFFICES ASSUME Init PROVE DInv
  OBVIOUS
<1>1. /\ sent = {} /\ pending = <<>> /\ clientq = <<>> /\ entries = <<>>
      /\ \A w \in Ws : inbox[w] = <<>>
  BY DEF Init
<1> QED BY <1>1, InitIInv DEF DInv, Related, NoForeignDelivery

\* Tokens that are distinct were distinct before: no request is unsent.
LEMMA StepDInv == DInv /\ [Next]_vars => DInv'
<1> SUFFICES ASSUME DInv, [Next]_vars PROVE DInv'
  OBVIOUS
<1>1. IInv'
  BY StepKeeps DEF DInv
<1>2. CASE ClientTurn
  BY <1>1, <1>2, ClientTurnDelivers DEF DInv, KeysDistinct, NoStrayMatches
<1>3. CASE \E w \in Ws : Handshake(w)
  <2>1. PICK w \in Ws : Handshake(w)
    BY <1>3
  <2>2. Related' /\ KeepsAccepted /\ UNCHANGED inbox
    BY <2>1, HandshakeRelated DEF DInv
  <2>3. sent \subseteq sent'
    BY <2>1 DEF Handshake, Enter, StartObservation
  <2>4. /\ KeysDistinct' => KeysDistinct
        /\ NoStrayMatches' => NoStrayMatches
    BY <2>3 DEF KeysDistinct, NoStrayMatches
  <2> QED BY <1>1, <2>2, <2>4, DeliveredStays DEF DInv
<1>4. CASE \/ Environment \/ Select
           \/ \E s \in Sockets : Pass(s)
           \/ FcgiStep \/ WebsocketTurn \/ UNCHANGED vars
  <2>1. Related' /\ KeepsAccepted /\ UNCHANGED <<sent, inbox>>
    BY <1>4, QuietSteps DEF DInv
  <2> QED BY <1>1, <2>1, DeliveredStays DEF DInv, KeysDistinct, NoStrayMatches
<1>5. CASE ServerTurn
  <2>1. Related' /\ KeepsAccepted /\ UNCHANGED <<sent, inbox>>
    BY <1>5, ServerTurnRelated DEF DInv
  <2> QED BY <1>1, <2>1, DeliveredStays DEF DInv, KeysDistinct, NoStrayMatches
<1> QED BY <1>2, <1>3, <1>4, <1>5 DEF Next, ProxyStep, FcgiStep

\* As long as no token has come back and no stranger uses one, a browser receives
\* nothing but answers about the name it asked for, whatever entries come and go
\* (client_response_received).
THEOREM DeliveryTheorem ==
  Spec => [](KeysDistinct /\ NoStrayMatches => NoForeignDelivery)
<1>1. DInv => (KeysDistinct /\ NoStrayMatches => NoForeignDelivery)
  BY DEF DInv
<1> QED BY InitDInv, StepDInv, <1>1, PTL DEF Spec

-----------------------------------------------------------------------------
(* How long tokens are distinct.                                           *)

\* The i-th token after the first one, T, as Advance makes them.
TokenAt(T, i) == IF i = 0 THEN T ELSE (T + i) % 65536

\* The HTTP requests for which the counters have advanced.
Forwarded == {h \in HttpReqs : http[h].stage = "forwarded"}

\* The counter has advanced once for each request that was sent or forwarded at
\* most, and the tokens that went out are behind it.
Counted ==
  \E T \in InitTokens, i \in Nat :
    /\ i <= Cardinality(Owners) + Cardinality(Forwarded)
    /\ token = TokenAt(T, i)
    /\ \A r \in sent : \E j \in 0..(i - 1) : r.key = TokenKey(TokenAt(T, j))

\* The next token is the next.
LEMMA AdvanceIsNext ==
  ASSUME NEW T \in Nat, NEW i \in Nat
  PROVE  Advance(TokenAt(T, i)) = TokenAt(T, i + 1)
<1>1. CASE i = 0
  BY <1>1 DEF Advance, TokenAt
<1>2. CASE i # 0
  BY <1>2 DEF Advance, TokenAt
<1> QED BY <1>1, <1>2

\* 65536 tokens in a row are different, whatever rand() gave, and so are their
\* keys.
LEMMA TokensDiffer ==
  ASSUME NEW T \in Random, NEW i \in Nat, i < 65536, NEW j \in Nat, j < i,
         TokenKey(TokenAt(T, i)) = TokenKey(TokenAt(T, j))
  PROVE  FALSE
<1>1. T \in Nat /\ T <= 2147483647
  BY DEF Random
<1>2. /\ TokenAt(T, i) \in Nat /\ TokenAt(T, i) < 10000000000
      /\ TokenAt(T, j) \in Nat /\ TokenAt(T, j) < 10000000000
  BY <1>1 DEF TokenAt
<1>3. TokenAt(T, i) = TokenAt(T, j)
  BY <1>2, TokenKeyInjective
<1>4. TokenAt(T, i) = (T + i) % 65536
  BY DEF TokenAt
<1>5. CASE j = 0
  BY <1>1, <1>3, <1>4, <1>5 DEF TokenAt
<1>6. CASE j # 0
  BY <1>1, <1>3, <1>4, <1>6 DEF TokenAt
<1> QED BY <1>5, <1>6

\* Owners and forwarded requests are finite sets, one more with each new one.
LEMMA CountsAreNat ==
  ASSUME IInv, IsFiniteSet(Ws), IsFiniteSet(HttpReqs)
  PROVE  /\ IsFiniteSet(Owners) /\ Cardinality(Owners) \in Nat
         /\ Cardinality(Owners) <= Cardinality(Ws)
         /\ IsFiniteSet(Forwarded) /\ Cardinality(Forwarded) \in Nat
         /\ Cardinality(Forwarded) <= Cardinality(HttpReqs)
<1>1. Owners \subseteq Ws /\ Forwarded \subseteq HttpReqs
  BY DEF Owners, Forwarded, IInv, TypeOK, Request
<1> QED BY <1>1, FS_Subset, FS_CardinalityType

\* What a step does to the counter and to the requests: nothing, or one request
\* is forwarded, or one is sent.
CounterStep ==
  \/ UNCHANGED <<token, sent>> /\ Forwarded \subseteq Forwarded'
  \/ /\ token' = Advance(token) /\ sent' = sent
     /\ \E h \in HttpReqs : h \notin Forwarded /\ Forwarded' = Forwarded \cup {h}
  \/ /\ token' = Advance(token) /\ UNCHANGED Forwarded
     /\ \E r : /\ sent' = sent \cup {r} /\ r.key = TokenKey(token)
               /\ r.owner \notin Owners

\* Every step advances the counters with each request it sends, or leaves them.
LEMMA CounterSteps ==
  ASSUME IInv, [Next]_vars
  PROVE  CounterStep
<1>1. http \in [HttpReqs -> HttpState] /\ token \in Nat
  BY Counters DEF IInv, TypeOK
<1>2. CASE \E h \in HttpReqs : HttpTurn(h)
  <2>1. PICK h \in HttpReqs :
          /\ http[h].stage = "reading" /\ sent' = sent
          /\ \/ /\ http' = [http EXCEPT ![h].stage = "finished"]
                /\ UNCHANGED token
             \/ /\ http' = [http EXCEPT ![h].stage = "forwarded"]
                /\ token' = Advance(token)
             \/ UNCHANGED <<http, token>>
    BY <1>2 DEF HttpTurn
  <2>2. h \notin Forwarded /\ http[h] \in HttpState
    BY <1>1, <2>1 DEF Forwarded
  <2>3. CASE http' = [http EXCEPT ![h].stage = "finished"] /\ UNCHANGED token
    <3>1. \A g \in HttpReqs : g # h => http'[g] = http[g]
      BY <1>1, <2>3
    <3>2. Forwarded \subseteq Forwarded'
      BY <2>2, <3>1 DEF Forwarded
    <3> QED BY <2>1, <2>3, <3>2 DEF CounterStep
  <2>4. CASE /\ http' = [http EXCEPT ![h].stage = "forwarded"]
             /\ token' = Advance(token)
    <3>1. /\ http'[h].stage = "forwarded"
          /\ \A g \in HttpReqs : g # h => http'[g] = http[g]
      BY <1>1, <2>2, <2>4 DEF HttpState
    <3>2. Forwarded' = Forwarded \cup {h}
      BY <3>1 DEF Forwarded
    <3> QED BY <2>1, <2>2, <2>4, <3>2 DEF CounterStep
  <2>5. CASE UNCHANGED <<http, token>>
    BY <2>1, <2>5 DEF CounterStep, Forwarded
  <2> QED BY <2>1, <2>3, <2>4, <2>5
<1>3. CASE \E w \in Ws : Handshake(w)
  <2>1. PICK w \in Ws : Handshake(w)
    BY <1>3
  <2>2. w \notin Owners /\ Forwarded' = Forwarded
    BY <2>1, Newcomer DEF Handshake, Forwarded
  <2>3. \/ UNCHANGED <<token, sent>>
        \/ \E n : StartObservation(w, n)
    BY <2>1 DEF Handshake, Enter
  <2>4. ASSUME NEW n, StartObservation(w, n)
        PROVE  CounterStep
    <3> DEFINE blank == [key |-> <<>>, id |-> 0, path |-> n, owner |-> w]
               req == Stamp(blank, message_id, token)
    <3>1. sent' = sent \cup {req} /\ token' = Advance(token)
      BY <2>4 DEF StartObservation
    <3>2. req.key = TokenKey(token) /\ req.owner = w
      BY DEF Stamp
    <3> HIDE DEF req
    <3> QED BY <2>2, <3>1, <3>2 DEF CounterStep
  <2> QED BY <2>2, <2>3, <2>4 DEF CounterStep
<1>4. ASSUME NEW h \in HttpReqs,
             \/ \E n \in Asks, now \in BOOLEAN : HttpRequest(h, n, now)
             \/ HttpSpeak(h) \/ HttpClose(h) \/ AcceptHttp(h) \/ DropHttp(h)
      PROVE  CounterStep
  <2>1. UNCHANGED <<token, sent>>
    BY <1>4 DEF HttpRequest, HttpSpeak, HttpClose, AcceptHttp, DropHttp, proxyVars
  <2>2. \E r : /\ http' = [http EXCEPT ![h] = r]
               /\ http[h].stage = "forwarded" => r.stage = "forwarded"
    <3>1. http[h] \in HttpState
      BY <1>1
    <3>2. CASE HttpSpeak(h) \/ HttpClose(h)
      <4>1. \E b \in BOOLEAN :
              http' \in {[http EXCEPT ![h].spoken = b], [http EXCEPT ![h].open = b]}
        BY <3>2 DEF HttpSpeak, HttpClose
      <4>2. \A b \in BOOLEAN : /\ [http[h] EXCEPT !.spoken = b].stage = http[h].stage
                              /\ [http[h] EXCEPT !.open = b].stage = http[h].stage
        BY <3>1 DEF HttpState
      <4> QED BY <4>1, <4>2
    <3>3. CASE ~(HttpSpeak(h) \/ HttpClose(h))
      BY <1>4, <3>3 DEF HttpRequest, AcceptHttp, DropHttp
    <3> QED BY <3>2, <3>3
  <2>3. Forwarded \subseteq Forwarded'
    BY <1>1, <2>2 DEF Forwarded
  <2> QED BY <2>1, <2>3 DEF CounterStep
<1>5. CASE UNCHANGED <<token, sent, http>>
  BY <1>5 DEF CounterStep, Forwarded
<1>6. \/ \E h \in HttpReqs : HttpTurn(h)
      \/ \E w \in Ws : Handshake(w)
      \/ \E h \in HttpReqs :
           \/ \E n \in Asks, now \in BOOLEAN : HttpRequest(h, n, now)
           \/ HttpSpeak(h) \/ HttpClose(h) \/ AcceptHttp(h) \/ DropHttp(h)
      \/ UNCHANGED <<token, sent, http>>
  BY DEF Next, ProxyStep, Environment, Connect, Speak, Close, ClientDatagram,
         RdDatagram, Select, Pass, ClientTurn, ServerTurn, FcgiTurn,
         AcceptFails, WebsocketTurn, vars, proxyVars
<1> QED BY <1>2, <1>3, <1>4, <1>5, <1>6

\* While there are tokens left, a new request has a key of its own.
LEMMA StepCounted ==
  ASSUME IsFiniteSet(Ws), IsFiniteSet(HttpReqs),
         Cardinality(Ws) + Cardinality(HttpReqs) <= 65536,
         IInv, IInv', Counted, KeysDistinct, [Next]_vars
  PROVE  Counted' /\ KeysDistinct'
<1>1. PICK T \in InitTokens, i \in Nat :
        /\ i <= Cardinality(Owners) + Cardinality(Forwarded)
        /\ token = TokenAt(T, i)
        /\ \A r \in sent : \E j \in 0..(i - 1) : r.key = TokenKey(TokenAt(T, j))
  BY DEF Counted
<1>2. T \in Random /\ T \in Nat
  BY CountersAreRandom DEF Random
<1>3. /\ IsFiniteSet(Owners) /\ Cardinality(Owners) \in Nat
      /\ IsFiniteSet(Forwarded) /\ Cardinality(Forwarded) \in Nat
      /\ IsFiniteSet(Owners') /\ Cardinality(Owners') \in Nat
      /\ IsFiniteSet(Forwarded') /\ Cardinality(Forwarded') \in Nat
      /\ Cardinality(Owners') <= Cardinality(Ws)
      /\ Cardinality(Forwarded') <= Cardinality(HttpReqs)
      /\ Cardinality(Ws) \in Nat /\ Cardinality(HttpReqs) \in Nat
  <2>1. (/\ IsFiniteSet(Owners) /\ Cardinality(Owners) \in Nat
         /\ Cardinality(Owners) <= Cardinality(Ws)
         /\ IsFiniteSet(Forwarded) /\ Cardinality(Forwarded) \in Nat
         /\ Cardinality(Forwarded) <= Cardinality(HttpReqs))'
    <3>1. Owners' \subseteq Ws /\ Forwarded' \subseteq HttpReqs
      BY SMTT(40) DEF Owners, Forwarded, IInv, TypeOK, Request
    <3> QED BY <3>1, FS_Subset, FS_CardinalityType
  <2> QED BY <2>1, CountsAreNat, FS_CardinalityType
<1>4. CounterStep
  BY CounterSteps
<1>5. CASE UNCHANGED <<token, sent>> /\ Forwarded \subseteq Forwarded'
  <2>1. Owners' = Owners
    BY <1>5 DEF Owners
  <2>2. Cardinality(Forwarded) <= Cardinality(Forwarded')
    BY <1>3, <1>5, FS_Subset
  <2>3. i <= Cardinality(Owners') + Cardinality(Forwarded')
    BY <1>1, <1>3, <2>1, <2>2
  <2> QED BY <1>1, <1>5, <2>3 DEF Counted, KeysDistinct
<1>6. CASE /\ token' = Advance(token) /\ sent' = sent
           /\ \E h \in HttpReqs : h \notin Forwarded /\ Forwarded' = Forwarded \cup {h}
  <2>1. Owners' = Owners
    BY <1>6 DEF Owners
  <2>2. Cardinality(Forwarded') = Cardinality(Forwarded) + 1
    BY <1>3, <1>6, FS_AddElement
  <2>3. i + 1 <= Cardinality(Owners') + Cardinality(Forwarded')
    BY <1>1, <1>3, <2>1, <2>2
  <2>4. token' = TokenAt(T, i + 1)
    BY <1>1, <1>2, <1>6, AdvanceIsNext
  <2>5. \A r \in sent' : \E j \in 0..((i + 1) - 1) : r.key = TokenKey(TokenAt(T, j))
    <3>1. 0..(i - 1) \subseteq 0..((i + 1) - 1)
      OBVIOUS
    <3> QED BY <1>1, <1>6, <3>1
  <2>6. Counted'
    BY <2>3, <2>4, <2>5 DEF Counted
  <2> QED BY <1>6, <2>6 DEF KeysDistinct
<1>7. CASE /\ token' = Advance(token) /\ UNCHANGED Forwarded
           /\ \E r : /\ sent' = sent \cup {r} /\ r.key = TokenKey(token)
                     /\ r.owner \notin Owners
  <2>1. PICK q : /\ sent' = sent \cup {q} /\ q.key = TokenKey(token)
                 /\ q.owner \notin Owners
    BY <1>7
  <2>2. Owners' = Owners \cup {q.owner}
    BY <2>1 DEF Owners
  <2>3. Cardinality(Owners') = Cardinality(Owners) + 1
    BY <1>3, <2>1, <2>2, FS_AddElement
  <2>4. Forwarded' = Forwarded
    BY <1>7
  <2>5. i + 1 <= Cardinality(Owners') + Cardinality(Forwarded') /\ i < 65536
    BY <1>1, <1>3, <2>3, <2>4
  <2>6. token' = TokenAt(T, i + 1)
    BY <1>1, <1>2, <1>7, AdvanceIsNext
  <2>7. \A r \in sent' : \E j \in 0..((i + 1) - 1) : r.key = TokenKey(TokenAt(T, j))
    <3>1. 0..(i - 1) \subseteq 0..((i + 1) - 1) /\ i \in 0..((i + 1) - 1)
      OBVIOUS
    <3> QED BY <1>1, <2>1, <3>1
  <2>8. Counted'
    BY <2>5, <2>6, <2>7 DEF Counted
  <2>9. ASSUME NEW r \in sent
        PROVE  r.key # q.key
    <3>1. PICK j \in 0..(i - 1) : r.key = TokenKey(TokenAt(T, j))
      BY <1>1
    <3>2. j \in Nat /\ j < i
      BY <3>1
    <3> QED BY <1>1, <1>2, <2>1, <2>5, <3>1, <3>2, TokensDiffer
  <2>10. KeysDistinct'
    BY <2>1, <2>9 DEF KeysDistinct
  <2> QED BY <2>8, <2>10
<1> QED BY <1>4, <1>5, <1>6, <1>7 DEF CounterStep

\* With no more than 65536 browsers and HTTP requests no token comes back, and a
\* browser receives nothing but answers about the name it asked for, unless a
\* stranger answers with the token of a request (coap_client_send,
\* client_response_received).
THEOREM FewRequestsTheorem ==
  ASSUME IsFiniteSet(Ws), IsFiniteSet(HttpReqs),
         Cardinality(Ws) + Cardinality(HttpReqs) <= 65536
  PROVE  Spec => [](NoStrayMatches => NoForeignDelivery)
<1>1. Init => Counted /\ KeysDistinct
  <2> SUFFICES ASSUME Init PROVE Counted /\ KeysDistinct
    OBVIOUS
  <2>1. sent = {} /\ token \in InitTokens
    BY DEF Init
  <2>2. IInv
    BY InitIInv
  <2>3. Cardinality(Owners) \in Nat /\ Cardinality(Forwarded) \in Nat
    BY <2>2, CountsAreNat
  <2>4. 0 <= Cardinality(Owners) + Cardinality(Forwarded) /\ token = TokenAt(token, 0)
    BY <2>3 DEF TokenAt
  <2> QED BY <2>1, <2>4 DEF Counted, KeysDistinct
<1>2. IInv /\ IInv' /\ Counted /\ KeysDistinct /\ [Next]_vars
        => Counted' /\ KeysDistinct'
  BY StepCounted
<1>3. Spec => []KeysDistinct
  BY Invariance, <1>1, <1>2, PTL DEF Spec
<1> QED BY <1>3, DeliveryTheorem, PTL
=============================================================================
