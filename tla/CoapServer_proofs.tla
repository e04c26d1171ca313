------------------------- MODULE CoapServer_proofs -------------------------
(***************************************************************************)
(* Proofs about CoapServer, for any requests, any table and any number of  *)
(* datagrams and starts: the state keeps its types, every request that is  *)
(* dispatched is answered as often as the code owes, the entries agree     *)
(* with what the clients were told, and the server implements Directory.   *)
(***************************************************************************)
EXTENDS CoapServer, CoapList_proofs, FiniteSetTheorems, FunctionTheorems, TLAPS

----------------------------------------------------------------------------
(* Counting the places of a value in a sequence.                           *)

\* The places of x among the first n values of f.
Places(f, n, x) == {i \in 1..n : f[i] = x}

\* t is s with one value more, which stands at p.
OneMore(s, n, t, p) ==
  \A i \in 1..n : /\ i < p => t[i] = s[i]
                  /\ i >= p => t[i + 1] = s[i]

\* A value has finitely many places.
LEMMA PlacesFinite ==
  ASSUME NEW f, NEW n \in Nat, NEW x
  PROVE  /\ IsFiniteSet(Places(f, n, x))
         /\ Cardinality(Places(f, n, x)) \in Nat
<1>1. IsFiniteSet(1..n)
  BY FS_Interval
<1>2. Places(f, n, x) \in SUBSET (1..n)
  BY DEF Places
<1>3. IsFiniteSet(Places(f, n, x))
  BY <1>1, <1>2, FS_Subset
<1> QED BY <1>3, FS_CardinalityType

\* A value more at any place counts one more, and the others as they did
\* (coap_list_node_insert puts it second, the answers end with it).
LEMMA CountOneMore ==
  ASSUME NEW s, NEW n \in Nat, NEW t, NEW p \in 1..(n + 1), OneMore(s, n, t, p),
         NEW x
  PROVE  Cardinality(Places(t, n + 1, x)) =
           Cardinality(Places(s, n, x)) + (IF t[p] = x THEN 1 ELSE 0)
<1> DEFINE old == Places(s, n, x)
           rest == Places(t, n + 1, x) \ {p}
           move == [i \in old |-> IF i < p THEN i ELSE i + 1]
<1>1. move \in [old -> rest]
  <2> SUFFICES ASSUME NEW i \in old PROVE (IF i < p THEN i ELSE i + 1) \in rest
    OBVIOUS
  <2>1. i \in 1..n /\ s[i] = x
    BY DEF Places
  <2> QED BY <2>1 DEF Places, OneMore
<1>2. \A a, b \in old : move[a] = move[b] => a = b
  BY DEF Places
<1>3. \A j \in rest : \E i \in old : move[i] = j
  <2> SUFFICES ASSUME NEW j \in rest PROVE \E i \in old : move[i] = j
    OBVIOUS
  <2>1. j \in 1..(n + 1) /\ t[j] = x /\ j # p
    BY DEF Places
  <2>2. CASE j < p
    <3>1. j \in 1..n
      BY <2>1, <2>2
    <3>2. j \in old
      BY <2>1, <2>2, <3>1 DEF Places, OneMore
    <3>3. move[j] = j
      BY <3>2, <2>2
    <3> QED BY <3>2, <3>3
  <2>3. CASE j > p
    <3>1. j - 1 \in 1..n /\ j - 1 >= p /\ (j - 1) + 1 = j
      BY <2>1, <2>3
    <3>2. j - 1 \in old
      BY <2>1, <3>1 DEF Places, OneMore
    <3>3. move[j - 1] = j
      BY <3>2, <3>1
    <3> QED BY <3>2, <3>3
  <2> QED BY <2>1, <2>2, <2>3
<1>4. move \in Bijection(old, rest)
  BY <1>1, <1>2, <1>3, Fun_IsBij
<1>5. IsFiniteSet(old) /\ Cardinality(old) \in Nat
  BY PlacesFinite
<1>6. IsFiniteSet(rest) /\ Cardinality(rest) = Cardinality(old)
  <2>1. ExistsBijection(old, rest)
    BY <1>4 DEF ExistsBijection
  <2> HIDE DEF old, rest
  <2> QED BY <2>1, <1>5, FS_Bijection
<1>7. CASE t[p] = x
  <2>1. Places(t, n + 1, x) = rest \cup {p} /\ p \notin rest
    BY <1>7 DEF Places
  <2> HIDE DEF old, rest
  <2>2. Cardinality(rest \cup {p}) = Cardinality(rest) + 1
    BY <2>1, <1>6, FS_AddElement
  <2>3. Cardinality(Places(t, n + 1, x)) = Cardinality(old) + 1
    BY <2>1, <2>2, <1>6
  <2> QED BY <2>3, <1>7 DEF old
<1>8. CASE t[p] # x
  <2>1. Places(t, n + 1, x) = rest
    BY <1>8 DEF Places
  <2> HIDE DEF rest
  <2> QED BY <2>1, <1>6, <1>8, <1>5
<1> QED BY <1>7, <1>8

\* Places that hold the same values count the same.
LEMMA CountSame ==
  ASSUME NEW s, NEW t, NEW n \in Nat, \A i \in 1..n : s[i] = t[i], NEW x
  PROVE  Places(s, n, x) = Places(t, n, x)
BY DEF Places

----------------------------------------------------------------------------
(* The answers.                                                            *)

\* The answers to "w", and those with a code, in any sequence of PDUs.
To(list, w) == {i \in DOMAIN list : Who(list[i]) = w}
Coded(list, code) == {i \in DOMAIN list : list[i].code = code}

\* t is s with a behind it.
Extends(t, s, a) ==
  /\ Len(s) \in Nat /\ \A i \in 1..Len(s) : t[i] = s[i]
  /\ t[Len(s) + 1] = a
  /\ DOMAIN s = 1..Len(s) /\ DOMAIN t = 1..(Len(s) + 1)

\* Appending puts one value behind the others.
LEMMA AppendExtends ==
  ASSUME NEW S, NEW s \in Seq(S), NEW a
  PROVE  Append(s, a) \in Seq(S \cup {a}) /\ Extends(Append(s, a), s, a)
<1>1. s \in Seq(S \cup {a})
  OBVIOUS
<1> QED BY <1>1 DEF Extends

\* An answer more is one more to its receiver, and none to the others.
LEMMA CountAnswer ==
  ASSUME NEW s, NEW t, NEW a, Extends(t, s, a), NEW w
  PROVE  /\ Who(a) = w => Cardinality(To(t, w)) = Cardinality(To(s, w)) + 1
         /\ Who(a) # w => Cardinality(To(t, w)) = Cardinality(To(s, w))
         /\ Cardinality(To(s, w)) \in Nat
<1> DEFINE n == Len(s)
           f == [i \in 1..n |-> Who(s[i])]
           g == [i \in 1..(n + 1) |-> Who(t[i])]
<1>1. /\ n \in Nat /\ \A i \in 1..n : t[i] = s[i]
      /\ t[n + 1] = a /\ DOMAIN s = 1..n /\ DOMAIN t = 1..(n + 1)
  BY DEF Extends
<1> HIDE DEF n
<1>2. To(s, w) = Places(f, n, w) /\ To(t, w) = Places(g, n + 1, w)
  BY <1>1 DEF To, Places
<1>3. OneMore(f, n, g, n + 1) /\ g[n + 1] = Who(a) /\ n + 1 \in 1..(n + 1)
  BY <1>1 DEF OneMore
<1> HIDE DEF f, g
<1> QED BY <1>1, <1>2, <1>3, CountOneMore, PlacesFinite

\* An answer more is one more of its code, and none of the others.
LEMMA CountCode ==
  ASSUME NEW s, NEW t, NEW a, Extends(t, s, a), NEW code
  PROVE  /\ a.code = code => Cardinality(Coded(t, code)) = Cardinality(Coded(s, code)) + 1
         /\ a.code # code => Cardinality(Coded(t, code)) = Cardinality(Coded(s, code))
         /\ Cardinality(Coded(s, code)) \in Nat
<1> DEFINE n == Len(s)
           f == [i \in 1..n |-> s[i].code]
           g == [i \in 1..(n + 1) |-> t[i].code]
<1>1. /\ n \in Nat /\ \A i \in 1..n : t[i] = s[i]
      /\ t[n + 1] = a /\ DOMAIN s = 1..n /\ DOMAIN t = 1..(n + 1)
  BY DEF Extends
<1> HIDE DEF n
<1>2. Coded(s, code) = Places(f, n, code) /\ Coded(t, code) = Places(g, n + 1, code)
  BY <1>1 DEF Coded, Places
<1>3. OneMore(f, n, g, n + 1) /\ g[n + 1] = a.code /\ n + 1 \in 1..(n + 1)
  BY <1>1 DEF OneMore
<1> HIDE DEF f, g
<1> QED BY <1>1, <1>2, <1>3, CountOneMore, PlacesFinite

----------------------------------------------------------------------------
(* PDUs.                                                                   *)

\* What the branches set in a PDU leaves the rest as it was.
LEMMA FieldsOf ==
  ASSUME NEW r, IsPdu(r)
  PROVE  /\ r.id \in Uint16 /\ r.type \in Types /\ r.code \in Codes
         /\ r.from \in STRING /\ r.payload \in Seq(Str)
         /\ r = [id |-> r.id, type |-> r.type, code |-> r.code, from |-> r.from,
                 options |-> r.options, payload |-> r.payload]
BY DEF IsPdu

\* Fields of the right types make a PDU.
LEMMA MadeOf ==
  ASSUME NEW id \in Uint16, NEW type \in Types, NEW code \in Codes,
         NEW from \in STRING, NEW options, NEW payload \in Seq(Str)
  PROVE  IsPdu([id |-> id, type |-> type, code |-> code, from |-> from,
                options |-> options, payload |-> payload])
BY DEF IsPdu

\* coap_pdu_option_unset.
LEMMA UnsetKeeps ==
  ASSUME NEW r, IsPdu(r), NEW codes
  PROVE  LET a == OptionUnset(r, codes)
         IN  /\ IsPdu(a) /\ a.id = r.id /\ a.from = r.from /\ a.type = r.type
             /\ a.code = r.code /\ a.payload = r.payload
             /\ "TOKEN" \notin codes /\ Has(r, "TOKEN") =>
                  Has(a, "TOKEN") /\ Who(a) = Who(r)
<1> DEFINE new == [c \in DOMAIN r.options \ codes |-> r.options[c]]
           a == OptionUnset(r, codes)
<1>1. a = [id |-> r.id, type |-> r.type, code |-> r.code, from |-> r.from,
           options |-> new, payload |-> r.payload]
  <2>1. a = [r EXCEPT !.options = new]
    BY DEF OptionUnset
  <2> HIDE DEF new, a
  <2> QED BY <2>1, FieldsOf
<1>2. "TOKEN" \notin codes /\ Has(r, "TOKEN") =>
        "TOKEN" \in DOMAIN new /\ new["TOKEN"] = r.options["TOKEN"]
  BY DEF Has
<1> HIDE DEF new, a
<1>3. IsPdu(a)
  BY <1>1, FieldsOf, MadeOf
<1>4. /\ a.id = r.id /\ a.from = r.from /\ a.type = r.type /\ a.code = r.code
      /\ a.payload = r.payload /\ a.options = new
  BY <1>1
<1> QED BY <1>2, <1>3, <1>4 DEF Who, Has, a

\* coap_pdu_option_insert.
LEMMA InsertKeeps ==
  ASSUME NEW r, IsPdu(r), NEW code, NEW value
  PROVE  LET a == OptionInsert(r, code, value)
         IN  /\ IsPdu(a) /\ a.id = r.id /\ a.from = r.from /\ a.type = r.type
             /\ a.code = r.code /\ a.payload = r.payload
             /\ code # "TOKEN" /\ Has(r, "TOKEN") =>
                  Has(a, "TOKEN") /\ Who(a) = Who(r)
<1> DEFINE new == [c \in DOMAIN r.options \cup {code} |->
                     IF c = code THEN value ELSE r.options[c]]
           a == OptionInsert(r, code, value)
<1>1. a = [id |-> r.id, type |-> r.type, code |-> r.code, from |-> r.from,
           options |-> new, payload |-> r.payload]
  <2>1. a = [r EXCEPT !.options = new]
    BY DEF OptionInsert
  <2> HIDE DEF new, a
  <2> QED BY <2>1, FieldsOf
<1>2. code # "TOKEN" /\ Has(r, "TOKEN") =>
        "TOKEN" \in DOMAIN new /\ new["TOKEN"] = r.options["TOKEN"]
  BY DEF Has
<1> HIDE DEF new, a
<1>3. IsPdu(a)
  BY <1>1, FieldsOf, MadeOf
<1>4. /\ a.id = r.id /\ a.from = r.from /\ a.type = r.type /\ a.code = r.code
      /\ a.payload = r.payload /\ a.options = new
  BY <1>1
<1> QED BY <1>2, <1>3, <1>4 DEF Who, Has, a

\* An answer is its request with another type, code or payload; "Same" is what
\* none of these changes.
Same(a, r) ==
  IsPdu(a) /\ a.id = r.id /\ a.from = r.from /\ a.options = r.options

WithType(r, type) == [r EXCEPT !.type = type]
WithCode(r, code) == [r EXCEPT !.code = code]
WithPayload(r, payload) == [r EXCEPT !.payload = payload]

\* Setting the type changes nothing else.
LEMMA SetType ==
  ASSUME NEW r, IsPdu(r), NEW type \in Types
  PROVE  LET a == WithType(r, type)
         IN  /\ Same(a, r)
             /\ a.type = type /\ a.code = r.code /\ a.payload = r.payload
<1> DEFINE a == WithType(r, type)
<1>1. a = [id |-> r.id, type |-> type, code |-> r.code, from |-> r.from,
           options |-> r.options, payload |-> r.payload]
  BY FieldsOf DEF WithType
<1> HIDE DEF a
<1>2. IsPdu(a)
  BY <1>1, FieldsOf, MadeOf
<1> QED BY <1>1, <1>2 DEF Same, a

\* Setting the code changes nothing else.
LEMMA SetCode ==
  ASSUME NEW r, IsPdu(r), NEW code \in Codes
  PROVE  LET a == WithCode(r, code)
         IN  /\ Same(a, r)
             /\ a.type = r.type /\ a.code = code /\ a.payload = r.payload
<1> DEFINE a == WithCode(r, code)
<1>1. a = [id |-> r.id, type |-> r.type, code |-> code, from |-> r.from,
           options |-> r.options, payload |-> r.payload]
  BY FieldsOf DEF WithCode
<1> HIDE DEF a
<1>2. IsPdu(a)
  BY <1>1, FieldsOf, MadeOf
<1> QED BY <1>1, <1>2 DEF Same, a

\* Setting the payload changes nothing else.
LEMMA SetPayload ==
  ASSUME NEW r, IsPdu(r), NEW payload \in Seq(Str)
  PROVE  LET a == WithPayload(r, payload)
         IN  /\ Same(a, r)
             /\ a.type = r.type /\ a.code = r.code /\ a.payload = payload
<1> DEFINE a == WithPayload(r, payload)
<1>1. a = [id |-> r.id, type |-> r.type, code |-> r.code, from |-> r.from,
           options |-> r.options, payload |-> payload]
  BY FieldsOf DEF WithPayload
<1> HIDE DEF a
<1>2. IsPdu(a)
  BY <1>1, FieldsOf, MadeOf
<1> QED BY <1>1, <1>2 DEF Same, a

\* What keeps the id, the sender and the options is for the same client.
LEMMA SameIsFor ==
  ASSUME NEW a, NEW r, Same(a, r), Has(r, "TOKEN")
  PROVE  Has(a, "TOKEN") /\ Who(a) = Who(r)
BY DEF Same, Has, Who

\* What is sent for a request: to the host that sent it, with its id and token.
Reply(a, r) ==
  IsPdu(a) /\ a.type = "ACK" /\ Has(a, "TOKEN") /\ a.id = r.id /\ Who(a) = Who(r)

----------------------------------------------------------------------------
(* The invariant.                                                          *)

Entry == [key : Str, lt : Int, coap_res : Seq(Str), watched : BOOLEAN]
NodeOf(r) == [key |-> IdKey(r.id), pdu |-> r]

\* The dispatch queue holds the one datagram that was read, and is empty again
\* whenever the loop ends: the branches free the PDU they have come to, for the
\* key of its id agrees with itself, whatever it is.
OneAtATime ==
  IF pc = "dispatch" THEN at = 1 /\ \E r \in Requests : dispatch = <<NodeOf(r)>>
                     ELSE dispatch = <<>>

\* Each answer is owed to somebody, and each has had what is owed to it.
Books(list, owing) ==
  /\ \E S : list \in Seq(S)
  /\ \A i \in DOMAIN list :
       IsPdu(list[i]) /\ list[i].type = "ACK" /\ Who(list[i]) \in DOMAIN owing
  /\ \A w \in DOMAIN owing : Cardinality(To(list, w)) = owing[w]

Relayed(list) == (\E S : list \in Seq(S)) /\ \A i \in DOMAIN list : IsPdu(list[i])

IInv ==
  /\ pc \in {"down", "select", "dispatch"}
  /\ socketq \in Seq(Requests) /\ OneAtATime
  /\ entries \in Seq(Entry)
  /\ message_id \in InitIds \cup Uint16 /\ token \in InitTokens \cup Uint16
  /\ Books(answers, owed) /\ Relayed(forwarded)
  /\ requests \in 0..MaxRequests /\ starts \in 0..MaxStarts
  /\ loaded \in 0..Len(Rows)

----------------------------------------------------------------------------
(* What is owed.                                                           *)

\* n more for "w".
Owing(owing, w, n) ==
  [v \in DOMAIN owing \cup {w} |->
     (IF v \in DOMAIN owing THEN owing[v] ELSE 0) + (IF v = w THEN n ELSE 0)]

\* Dispatching a PDU with a token adds what is owed for it.
LEMMA ChargedIs ==
  ASSUME NEW r, Has(r, "TOKEN")
  PROVE  Charged(r) = Owing(owed, Who(r), Owed(r))
BY DEF Charged, Owing

\* Nobody has had an answer who is owed none.
LEMMA NoneYet ==
  ASSUME NEW list, NEW owing, Books(list, owing), NEW w, w \notin DOMAIN owing
  PROVE  Cardinality(To(list, w)) = 0
<1>1. To(list, w) = {}
  BY DEF Books, To
<1> QED BY <1>1, FS_EmptySet

\* What is owed is a number of answers.
LEMMA OwedIsNumber ==
  ASSUME NEW list, NEW owing, Books(list, owing), NEW w \in DOMAIN owing
  PROVE  owing[w] \in Nat
<1>1. PICK S : list \in Seq(S)
  BY DEF Books
<1>2. Cardinality(To(list, w)) \in Nat
  <2>1. \E t : Extends(t, list, w)
    BY <1>1, AppendExtends
  <2> QED BY <2>1, CountAnswer, Zenon
<1> QED BY <1>2 DEF Books

\* A branch that owes nothing and sends nothing.
LEMMA BooksStay ==
  ASSUME NEW list, NEW owing, Books(list, owing), NEW w
  PROVE  Books(list, Owing(owing, w, 0))
<1> DEFINE new == Owing(owing, w, 0)
<1>1. DOMAIN new = DOMAIN owing \cup {w}
  BY DEF Owing
<1>2. ASSUME NEW v \in DOMAIN new
      PROVE  Cardinality(To(list, v)) = new[v]
  <2>1. CASE v \in DOMAIN owing
    <3>1. owing[v] \in Nat /\ Cardinality(To(list, v)) = owing[v]
      BY <2>1, OwedIsNumber DEF Books
    <3>2. new[v] = owing[v] + 0
      BY <1>1, <2>1 DEF Owing
    <3> QED BY <3>1, <3>2
  <2>2. CASE v \notin DOMAIN owing
    <3>1. new[v] = 0 + 0
      BY <1>1, <2>2 DEF Owing
    <3> QED BY <3>1, <2>2, NoneYet
  <2> QED BY <2>1, <2>2
<1> HIDE DEF new
<1> QED BY <1>1, <1>2 DEF Books, new

\* One answer, to the one that is owed one more.
LEMMA BooksOne ==
  ASSUME NEW list, NEW owing, Books(list, owing), NEW r, NEW a, Reply(a, r)
  PROVE  Books(Append(list, a), Owing(owing, Who(r), 1))
<1> DEFINE w == Who(r)
           new == Owing(owing, w, 1)
           t == Append(list, a)
<1>1. PICK S : list \in Seq(S)
  BY DEF Books
<1>2. DOMAIN new = DOMAIN owing \cup {w}
  BY DEF Owing
<1> HIDE DEF new
<1>3. /\ t \in Seq(S \cup {a})
      /\ \A i \in DOMAIN list : t[i] = list[i]
      /\ t[Len(list) + 1] = a
      /\ DOMAIN t = DOMAIN list \cup {Len(list) + 1}
      /\ \A v : /\ Who(a) = v => Cardinality(To(t, v)) = Cardinality(To(list, v)) + 1
                /\ Who(a) # v => Cardinality(To(t, v)) = Cardinality(To(list, v))
  <2>1. t \in Seq(S \cup {a}) /\ Extends(t, list, a)
    BY <1>1, AppendExtends
  <2> HIDE DEF t, w
  <2>2. /\ \A i \in DOMAIN list : t[i] = list[i]
        /\ t[Len(list) + 1] = a /\ DOMAIN t = DOMAIN list \cup {Len(list) + 1}
    BY <2>1 DEF Extends
  <2>3. ASSUME NEW v
        PROVE  /\ Who(a) = v => Cardinality(To(t, v)) = Cardinality(To(list, v)) + 1
               /\ Who(a) # v => Cardinality(To(t, v)) = Cardinality(To(list, v))
    BY <2>1, CountAnswer
  <2> QED BY <2>1, <2>2, <2>3
<1>4. Who(a) = w /\ IsPdu(a) /\ a.type = "ACK"
  BY DEF Reply
<1>5. ASSUME NEW v \in DOMAIN new
      PROVE  Cardinality(To(t, v)) = new[v]
  <2> HIDE DEF t
  <2>1. CASE v \in DOMAIN owing
    <3>1. owing[v] \in Nat /\ Cardinality(To(list, v)) = owing[v]
      BY <2>1, OwedIsNumber DEF Books
    <3>2. new[v] = owing[v] + (IF v = w THEN 1 ELSE 0)
      BY <1>2, <2>1 DEF Owing, new
    <3> QED BY <3>1, <3>2, <1>3, <1>4
  <2>2. CASE v \notin DOMAIN owing
    <3>1. v = w /\ new[v] = 0 + 1
      BY <1>2, <2>2 DEF Owing, new
    <3>2. Cardinality(To(list, v)) = 0
      BY <2>2, NoneYet
    <3> QED BY <3>1, <3>2, <1>3, <1>4
  <2> QED BY <2>1, <2>2
<1> HIDE DEF t
<1>6. \A i \in DOMAIN t : IsPdu(t[i]) /\ t[i].type = "ACK" /\ Who(t[i]) \in DOMAIN new
  <2>1. \A i \in DOMAIN list :
          IsPdu(list[i]) /\ list[i].type = "ACK" /\ Who(list[i]) \in DOMAIN owing
    BY DEF Books
  <2> QED BY <2>1, <1>2, <1>3, <1>4
<1> QED BY <1>3, <1>5, <1>6 DEF Books, new, t

\* Owing one and one more is owing two.
LEMMA OwingTwice ==
  ASSUME NEW list, NEW owing, Books(list, owing), NEW w
  PROVE  Owing(Owing(owing, w, 1), w, 1) = Owing(owing, w, 2)
<1> DEFINE one == Owing(owing, w, 1)
<1>1. DOMAIN one = DOMAIN owing \cup {w}
  BY DEF Owing
<1>2. ASSUME NEW v \in DOMAIN owing \cup {w}
      PROVE  one[v] + (IF v = w THEN 1 ELSE 0) =
               (IF v \in DOMAIN owing THEN owing[v] ELSE 0) + (IF v = w THEN 2 ELSE 0)
  <2>1. one[v] = (IF v \in DOMAIN owing THEN owing[v] ELSE 0)
                   + (IF v = w THEN 1 ELSE 0)
    BY DEF Owing
  <2>2. (IF v \in DOMAIN owing THEN owing[v] ELSE 0) \in Nat
    BY OwedIsNumber
  <2> HIDE DEF one
  <2> QED BY <2>1, <2>2
<1> HIDE DEF one
<1>3. Owing(one, w, 1) =
        [v \in DOMAIN owing \cup {w} |-> one[v] + (IF v = w THEN 1 ELSE 0)]
  BY <1>1 DEF Owing
<1>4. Owing(owing, w, 2) =
        [v \in DOMAIN owing \cup {w} |->
           (IF v \in DOMAIN owing THEN owing[v] ELSE 0) + (IF v = w THEN 2 ELSE 0)]
  BY DEF Owing
<1> QED BY <1>2, <1>3, <1>4 DEF one

\* Sending twice is appending twice.
LEMMA TwiceIs ==
  ASSUME NEW S, NEW list \in Seq(S), NEW a
  PROVE  list \o <<a, a>> = Append(Append(list, a), a)
<1>1. list \in Seq(S \cup {a})
  OBVIOUS
<1> QED BY <1>1

\* The two answers of the directory.
LEMMA BooksTwo ==
  ASSUME NEW list, NEW owing, Books(list, owing), NEW r, NEW a, Reply(a, r)
  PROVE  Books(list \o <<a, a>>, Owing(owing, Who(r), 2))
<1>1. PICK S : list \in Seq(S)
  BY DEF Books
<1>2. Books(Append(list, a), Owing(owing, Who(r), 1))
  BY BooksOne
<1>3. Books(Append(Append(list, a), a), Owing(Owing(owing, Who(r), 1), Who(r), 1))
  BY <1>2, BooksOne
<1> QED BY <1>1, <1>3, TwiceIs, OwingTwice

----------------------------------------------------------------------------
(* The turn of the loop.                                                   *)

\* What the loop has come to was read from the socket.
LEMMA CurrentIs ==
  ASSUME IInv, pc = "dispatch"
  PROVE  /\ Current \in Requests /\ dispatch = <<NodeOf(Current)>> /\ at = 1
         /\ IsPdu(Current) /\ IsRead(Current)
<1>1. PICK r \in Requests : dispatch = <<NodeOf(r)>>
  BY DEF IInv, OneAtATime
<1>2. at = 1
  BY DEF IInv, OneAtATime
<1>3. Current = r
  BY <1>1, <1>2 DEF Current, NodeOf
<1>4. IsRead(r)
  BY RequestsAreRead
<1> QED BY <1>1, <1>2, <1>3, <1>4 DEF IsRead

\* coap_list_node_delete by the id of an answer takes the request out, and has
\* nothing to take the second time.
LEMMA QueueEmpties ==
  ASSUME NEW r, NEW a, a.id = r.id
  PROVE  Delete(<<NodeOf(r)>>, a) = <<>> /\ Delete(<<>>, a) = <<>>
<1> DEFINE list == <<NodeOf(r)>>
           key == IdKey(a.id)
<1>1. list \in Seq({NodeOf(r)}) /\ DOMAIN list = {1} /\ Len(list) = 1
  OBVIOUS
<1>2. list[1].key = key
  BY DEF NodeOf
<1>3. StrNEq(key, key, IdKeyLen)
  BY DEF StrNEq
<1> HIDE DEF list, key
<1>4. NodeGet(list, key, IdKeyLen) \in DOMAIN list
  BY <1>1, <1>2, <1>3, NodeGetFinds
<1>5. NodeGet(list, key, IdKeyLen) = 1
  BY <1>1, <1>4
<1>6. Without(list, 1) \in Seq({NodeOf(r)}) /\ Len(Without(list, 1)) = 0
  BY <1>1, WithoutElements
<1>7. NodeDelete(list, key, IdKeyLen) = <<>>
  <2>1. NodeDelete(list, key, IdKeyLen) = Without(list, 1)
    BY <1>5 DEF NodeDelete
  <2> QED BY <2>1, <1>6
<1>8. NodeDelete(<<>>, key, IdKeyLen) = <<>>
  <2>1. NodeGet(<<>>, key, IdKeyLen) = 0
    BY DEF NodeGet
  <2> QED BY <2>1 DEF NodeDelete
<1> QED BY <1>7, <1>8 DEF Delete, list, key

\* The loop is back in serve().
Done(list) ==
  /\ pc' = "select" /\ dispatch' = <<>> /\ UNCHANGED <<socketq, requests, starts, loaded>>
  /\ answers' = list /\ Books(answers', owed')

\* With the queue empty the loop ends.
LEMMA GoesOn ==
  ASSUME IInv, pc = "dispatch", GoOn(<<>>)
  PROVE  /\ pc' = "select" /\ dispatch' = <<>> /\ owed' = Charged(Current)
         /\ UNCHANGED <<socketq, requests, starts, loaded>>
<1>1. Len(dispatch) = 1 /\ at = 1
  BY CurrentIs
<1> QED BY <1>1 DEF GoOn

\* A branch that drops the PDU.
LEMMA Drops ==
  ASSUME IInv, pc = "dispatch", GoOn(Delete(dispatch, Current)), UNCHANGED answers,
         Has(Current, "TOKEN") => Owed(Current) = 0
  PROVE  Done(answers)
<1>1. GoOn(<<>>)
  BY CurrentIs, QueueEmpties
<1>2. /\ pc' = "select" /\ dispatch' = <<>> /\ owed' = Charged(Current)
      /\ UNCHANGED <<socketq, requests, starts, loaded>>
  BY <1>1, GoesOn
<1>3. Books(answers, owed)
  BY DEF IInv
<1>4. Books(answers, owed')
  <2>1. CASE Has(Current, "TOKEN")
    BY <2>1, <1>2, <1>3, ChargedIs, BooksStay
  <2>2. CASE ~Has(Current, "TOKEN")
    BY <2>2, <1>2, <1>3 DEF Charged
  <2> QED BY <2>1, <2>2
<1> QED BY <1>2, <1>4 DEF Done

\* A branch that answers once.
LEMMA AnswersOnce ==
  ASSUME IInv, pc = "dispatch", Has(Current, "TOKEN"), Owed(Current) = 1,
         NEW a, Reply(a, Current), Answer(a)
  PROVE  Done(Append(answers, a))
<1>1. ResponseSend(dispatch, a) = <<>>
  <2>1. a.type # "CON" /\ a.id = Current.id
    BY DEF Reply
  <2> QED BY <2>1, CurrentIs, QueueEmpties DEF ResponseSend
<1>2. answers' = Append(answers, a) /\ GoOn(<<>>)
  BY <1>1 DEF Answer
<1>3. /\ pc' = "select" /\ dispatch' = <<>> /\ owed' = Charged(Current)
      /\ UNCHANGED <<socketq, requests, starts, loaded>>
  BY <1>2, GoesOn
<1>4. Books(Append(answers, a), Owing(owed, Who(Current), 1))
  BY BooksOne DEF IInv
<1>5. Books(answers', owed')
  BY <1>2, <1>3, <1>4, ChargedIs
<1> QED BY <1>2, <1>3, <1>5 DEF Done

\* What RdSend sends.
Sent(r) == OptionUnset(WithType(r, "ACK"), {"URI_PATH", "URI_QUERY", "CONTENT_TYPE"})

\* The directory answers twice: it sends at 695, and again at 708.
LEMMA AnswersTwice ==
  ASSUME IInv, pc = "dispatch", Has(Current, "TOKEN"), Owed(Current) = 2,
         NEW r, IsPdu(r), Has(r, "TOKEN"), Who(r) = Who(Current), r.id = Current.id,
         RdSend(r)
  PROVE  /\ Done(answers \o <<Sent(r), Sent(r)>>)
         /\ Reply(Sent(r), Current) /\ Sent(r).code = r.code
<1> DEFINE b == WithType(r, "ACK")
           a == Sent(r)
<1>1. Same(b, r) /\ b.type = "ACK" /\ b.code = r.code
  BY SetType DEF Types
<1>2. Has(b, "TOKEN") /\ Who(b) = Who(r) /\ IsPdu(b) /\ b.id = r.id
  BY <1>1, SameIsFor DEF Same
<1> HIDE DEF b
<1>3. /\ IsPdu(a) /\ a.id = b.id /\ a.type = b.type /\ a.code = b.code
      /\ Has(a, "TOKEN") /\ Who(a) = Who(b)
  BY <1>2, UnsetKeeps DEF Sent, b
<1>4. Reply(a, Current) /\ a.code = r.code
  BY <1>1, <1>2, <1>3 DEF Reply
<1>5. /\ answers' = answers \o <<a, a>>
      /\ GoOn(ResponseSend(ResponseSend(dispatch, a), a))
  BY DEF RdSend, Sent, WithType
<1> HIDE DEF a
<1>6. ResponseSend(ResponseSend(dispatch, a), a) = <<>>
  <2>1. a.type # "CON" /\ a.id = Current.id
    BY <1>4 DEF Reply
  <2> QED BY <2>1, CurrentIs, QueueEmpties DEF ResponseSend
<1>7. /\ pc' = "select" /\ dispatch' = <<>> /\ owed' = Charged(Current)
      /\ UNCHANGED <<socketq, requests, starts, loaded>>
  BY <1>5, <1>6, GoesOn
<1>8. Books(answers \o <<a, a>>, Owing(owed, Who(Current), 2))
  BY <1>4, BooksTwo DEF IInv
<1>9. Books(answers', owed')
  BY <1>5, <1>7, <1>8, ChargedIs
<1> QED BY <1>4, <1>5, <1>7, <1>9 DEF Done, a

----------------------------------------------------------------------------
(* The branches.  Each ends its turn of the loop; "Once" and "Twice" say    *)
(* how often it has answered, and with which code.                         *)

Once(code) == \E a : Done(Append(answers, a)) /\ a.code = code
Twice(code) == \E a : Done(answers \o <<a, a>>) /\ a.code = code

\* What the branches owe.
LEMMA OwedByBranch ==
  ASSUME Has(Current, "TOKEN")
  PROVE  /\ Current.type = "CON" /\ ~CheckOptions(Current) => Owed(Current) = 1
         /\ Current.type \in {"ACK", "RST"} => Owed(Current) = 0
         /\ IsRequest /\ ~IsServed => Owed(Current) = 0
         /\ IsServed =>
              LET dir == Current.options["URI_PATH"].dir
              IN  /\ dir = "rd" => Owed(Current) = 2
                  /\ dir = "core" => Owed(Current) = 1
                  /\ dir = "other" /\ ResourceFor(Current) = 0 => Owed(Current) = 0
                  /\ dir = "other" /\ ResourceFor(Current) # 0 => Owed(Current) = 1
BY DEF Owed, IsRequest, IsServed

\* coap_pdu_clean_common_options leaves the token alone.
LEMMA Cleaned ==
  ASSUME NEW r, IsPdu(r), Has(r, "TOKEN")
  PROVE  LET a == CleanCommonOptions(r)
         IN  /\ IsPdu(a) /\ a.id = r.id /\ a.type = r.type /\ a.code = r.code
             /\ Has(a, "TOKEN") /\ Who(a) = Who(r)
<1>1. "TOKEN" \notin CommonOptions
  BY DEF CommonOptions
<1> QED BY <1>1, UnsetKeeps DEF CleanCommonOptions

\* 277-379: the branches that free the PDU and send nothing.
LEMMA DropBranches ==
  ASSUME IInv, NoToken \/ NotARequest \/ BadUri \/ NoPath
  PROVE  Done(answers)
<1>1. CASE NoToken
  BY <1>1, Drops DEF NoToken, Drop
<1>2. CASE NotARequest
  BY <1>2, Drops, OwedByBranch DEF NotARequest, Drop
<1>3. CASE BadUri
  <2>1. Has(Current, "TOKEN") /\ IsRequest /\ ~IsServed /\ pc = "dispatch"
    BY <1>3 DEF BadUri, IsRequest, IsServed
  <2> QED BY <1>3, <2>1, Drops, OwedByBranch DEF BadUri, Drop
<1>4. CASE NoPath
  <2>1. Has(Current, "TOKEN") /\ IsRequest /\ ~IsServed /\ pc = "dispatch"
    BY <1>4 DEF NoPath, IsRequest, IsServed
  <2> QED BY <1>4, <2>1, Drops, OwedByBranch DEF NoPath, Drop
<1> QED BY <1>1, <1>2, <1>3, <1>4

\* An answer with another type, code and payload.
Ack3(r, code, payload) == [r EXCEPT !.type = "ACK", !.code = code, !.payload = payload]
Ack2(r, code) == [r EXCEPT !.type = "ACK", !.code = code]
Coded2(r, code, payload) == [r EXCEPT !.code = code, !.payload = payload]

\* EXCEPT with several fields is EXCEPT field by field.
LEMMA FieldByField ==
  ASSUME NEW r, NEW code, NEW payload
  PROVE  /\ Ack2(r, code) = WithCode(WithType(r, "ACK"), code)
         /\ Ack3(r, code, payload)
              = WithPayload(WithCode(WithType(r, "ACK"), code), payload)
         /\ Coded2(r, code, payload) = WithPayload(WithCode(r, code), payload)
<1>1. Ack2(r, code) = WithCode(WithType(r, "ACK"), code)
  BY DEF WithType, WithCode, Ack2
<1>2. Ack3(r, code, payload)
        = WithPayload(WithCode(WithType(r, "ACK"), code), payload)
  BY DEF WithType, WithCode, WithPayload, Ack3
<1>3. Coded2(r, code, payload) = WithPayload(WithCode(r, code), payload)
  BY DEF WithCode, WithPayload, Coded2
<1> QED BY <1>1, <1>2, <1>3

\* A request with another type and code is an answer to it.
LEMMA Ack2Replies ==
  ASSUME NEW r, IsPdu(r), Has(r, "TOKEN"), NEW code \in Codes
  PROVE  Reply(Ack2(r, code), r) /\ Ack2(r, code).code = code
<1> DEFINE b == WithType(r, "ACK")
           a == Ack2(r, code)
<1>1. Same(b, r) /\ b.type = "ACK"
  BY SetType DEF Types
<1>2. a = WithCode(b, code)
  BY FieldByField
<1> HIDE DEF a, b
<1>3. Same(a, b) /\ a.type = "ACK" /\ a.code = code
  BY <1>1, <1>2, SetCode DEF Same
<1>4. Same(a, r)
  BY <1>1, <1>3 DEF Same
<1>5. Reply(a, r)
  BY <1>3, <1>4, SameIsFor DEF Same, Reply
<1> QED BY <1>3, <1>5 DEF a

\* So it is with another payload.
LEMMA Ack3Replies ==
  ASSUME NEW r, IsPdu(r), Has(r, "TOKEN"), NEW code \in Codes,
         NEW payload \in Seq(Str)
  PROVE  Reply(Ack3(r, code, payload), r) /\ Ack3(r, code, payload).code = code
<1> DEFINE b == Ack2(r, code)
           a == Ack3(r, code, payload)
<1>1. Reply(b, r) /\ b.code = code
  BY Ack2Replies
<1>2. a = WithPayload(b, payload)
  BY FieldByField
<1> HIDE DEF a, b
<1>3. Same(a, b) /\ a.type = b.type /\ a.code = code
  BY <1>1, <1>2, SetPayload DEF Reply
<1>4. Has(a, "TOKEN") /\ Who(a) = Who(b)
  BY <1>1, <1>3, SameIsFor DEF Reply
<1>5. Reply(a, r)
  BY <1>1, <1>3, <1>4 DEF Same, Reply
<1> QED BY <1>3, <1>5 DEF a

\* What RdSend is given.
LEMMA Coded2Keeps ==
  ASSUME NEW r, IsPdu(r), Has(r, "TOKEN"), NEW code \in Codes,
         NEW payload \in Seq(Str)
  PROVE  LET a == Coded2(r, code, payload)
         IN  /\ IsPdu(a) /\ Has(a, "TOKEN") /\ Who(a) = Who(r) /\ a.id = r.id
             /\ a.code = code
<1> DEFINE b == WithCode(r, code)
           a == Coded2(r, code, payload)
<1>1. Same(b, r) /\ b.code = code
  BY SetCode
<1>2. a = WithPayload(b, payload)
  BY FieldByField
<1> HIDE DEF a, b
<1>3. Same(a, b) /\ a.code = code
  BY <1>1, <1>2, SetPayload DEF Same
<1>4. Same(a, r)
  BY <1>1, <1>3 DEF Same
<1> QED BY <1>3, <1>4, SameIsFor DEF Same, a

\* A critical option that the server does not know.
LEMMA BadOptionBranch ==
  ASSUME IInv, BadOption
  PROVE  Once("4.02")
<1> DEFINE c == CleanCommonOptions(Current)
           a == Ack2(c, "4.02")
<1>1. pc = "dispatch" /\ Has(Current, "TOKEN") /\ Owed(Current) = 1
  BY OwedByBranch DEF BadOption
<1>2. IsPdu(Current)
  BY <1>1, CurrentIs
<1>3. IsPdu(c) /\ c.id = Current.id /\ Has(c, "TOKEN") /\ Who(c) = Who(Current)
  BY <1>1, <1>2, Cleaned
<1>4. Answer(a)
  BY Zenon DEF BadOption, Ack2
<1> HIDE DEF c
<1>5. Reply(a, c) /\ a.code = "4.02"
  BY <1>3, Ack2Replies DEF Codes
<1> HIDE DEF a
<1>6. Reply(a, Current)
  BY <1>3, <1>5 DEF Reply
<1>7. Done(Append(answers, a))
  BY <1>1, <1>4, <1>6, AnswersOnce
<1> QED BY <1>5, <1>7 DEF Once

\* The payload of the list of links is made of strings.
LEMMA ListingIs ==
  ASSUME NEW r, IsPdu(r)
  PROVE  Listing(r) \in Seq(Str)
<1>1. r.payload \in Seq(Str)
  BY FieldsOf
<1>2. Prox \in Str /\ <<0>> \in Str
  BY DEF Prox, Str
<1>3. <<CoreRd>> \in Seq(Str)
  BY <1>2 DEF CoreRd
<1>4. <<LinkFormat(Resources[1])>> \in Seq(Str)
  BY <1>2 DEF LinkFormat, Resources, NewResource
<1> DEFINE links == IF Fits(r, Resources[1]) THEN <<LinkFormat(Resources[1])>> ELSE <<>>
           first == Has(r, "URI_QUERY") /\ (Asks(r, "rt") => Query(r).rt = CoreRd)
<1>5. links \in Seq(Str)
  BY <1>4
<1>6. (IF first THEN <<CoreRd>> ELSE r.payload) \in Seq(Str)
  BY <1>1, <1>3
<1>7. Listing(r) = (IF first THEN <<CoreRd>> ELSE r.payload) \o links
  BY DEF Listing
<1> HIDE DEF links, first
<1> QED BY <1>5, <1>6, <1>7

\* .well-known/core.
LEMMA DiscoverBranch ==
  ASSUME IInv, Discover
  PROVE  Once("2.05") \/ Once("4.05")
<1>1. /\ pc = "dispatch" /\ Has(Current, "TOKEN") /\ Owed(Current) = 1
  <2>1. IsServed /\ Has(Current, "TOKEN") /\ pc = "dispatch"
    BY DEF Discover, IsServed, IsRequest
  <2> QED BY <2>1, OwedByBranch DEF Discover
<1>2. IsPdu(Current)
  BY <1>1, CurrentIs
<1>3. ASSUME NEW a, Reply(a, Current), Answer(CleanCommonOptions(a))
      PROVE  Once(a.code)
  <2> DEFINE b == CleanCommonOptions(a)
  <2>1. /\ IsPdu(b) /\ b.id = a.id /\ b.type = a.type /\ b.code = a.code
        /\ Has(b, "TOKEN") /\ Who(b) = Who(a)
    BY <1>3, Cleaned DEF Reply
  <2>2. Answer(b)
    BY <1>3
  <2> HIDE DEF b
  <2>3. Reply(b, Current)
    BY <1>3, <2>1 DEF Reply
  <2>4. Done(Append(answers, b))
    BY <1>1, <2>2, <2>3, AnswersOnce
  <2> QED BY <2>1, <2>4 DEF Once
<1>4. CASE Current.code = "GET"
  <2> DEFINE a == Ack3(Current, "2.05", Listing(Current))
  <2>1. Answer(CleanCommonOptions(a))
    BY <1>4, Zenon DEF Discover, Ack3
  <2>2. Reply(a, Current) /\ a.code = "2.05"
    BY <1>1, <1>2, ListingIs, Ack3Replies DEF Codes
  <2> HIDE DEF a
  <2> QED BY <2>1, <2>2, <1>3
<1>5. CASE Current.code # "GET"
  <2> DEFINE a == Ack2(Current, "4.05")
  <2>1. Answer(CleanCommonOptions(a))
    BY <1>5, Zenon DEF Discover, Ack2
  <2>2. Reply(a, Current) /\ a.code = "4.05"
    BY <1>1, <1>2, Ack2Replies DEF Codes
  <2> HIDE DEF a
  <2> QED BY <2>1, <2>2, <1>3
<1> QED BY <1>4, <1>5

----------------------------------------------------------------------------
(* The branches of the directory.                                          *)

IsRd == IsServed /\ Current.options["URI_PATH"].dir = "rd"

\* What every branch of the directory can rely on.
LEMMA RdTurn ==
  ASSUME IInv, IsRd
  PROVE  /\ pc = "dispatch" /\ Has(Current, "TOKEN") /\ Owed(Current) = 2
         /\ IsPdu(Current) /\ IsRead(Current) /\ Current.payload \in Seq(Str)
         /\ Current.options["URI_PATH"].name \in Str
<1>1. IsServed /\ Has(Current, "TOKEN") /\ pc = "dispatch"
  BY DEF IsRd, IsServed, IsRequest
<1>2. Owed(Current) = 2
  BY <1>1, OwedByBranch DEF IsRd
<1>3. IsPdu(Current) /\ IsRead(Current)
  BY <1>1, CurrentIs
<1>4. Current.payload \in Seq(Str)
  BY <1>3, FieldsOf
<1>5. Current.options["URI_PATH"].name \in Str
  BY <1>1, <1>3 DEF IsServed, Has, IsRead
<1> QED BY <1>1, <1>2, <1>3, <1>4, <1>5

\* The directory sends what it has made of a request twice.
LEMMA RdSends ==
  ASSUME IInv, IsRd, NEW code \in Codes, NEW payload \in Seq(Str),
         RdSend(Coded2(Current, code, payload))
  PROVE  Twice(code)
<1> DEFINE r == Coded2(Current, code, payload)
<1>1. /\ IsPdu(r) /\ Has(r, "TOKEN") /\ Who(r) = Who(Current) /\ r.id = Current.id
      /\ r.code = code
  BY RdTurn, Coded2Keeps
<1> HIDE DEF r
<1>2. Done(answers \o <<Sent(r), Sent(r)>>) /\ Sent(r).code = r.code
  <2>1. RdSend(r)
    BY DEF r
  <2> QED BY <1>1, <2>1, RdTurn, AnswersTwice
<1> QED BY <1>1, <1>2 DEF Twice

\* 545-600: a registration that is refused.
LEMMA RdRefuseBranch ==
  ASSUME IInv, RdRefuse
  PROVE  Twice("4.00")
<1>1. IsRd
  BY DEF RdRefuse, IsDirectory, IsRd
<1>2. PICK text \in 1..4 : BadRequest(text)
  BY DEF RdRefuse
<1>3. << <<text>> >> \in Seq(Str)
  BY DEF Str
<1> DEFINE payload == << <<text>> >>
<1>4. RdSend(Coded2(Current, "4.00", payload))
  BY <1>2, Zenon DEF BadRequest, Coded2
<1> HIDE DEF payload
<1>5. payload \in Seq(Str)
  BY <1>3 DEF payload
<1> QED BY <1>1, <1>4, <1>5, RdSends DEF Codes

\* 687: any other code comes back as it was.
LEMMA RdSendsItself ==
  ASSUME IInv, IsRd, RdSend(Current)
  PROVE  Twice(Current.code)
<1>1. Done(answers \o <<Sent(Current), Sent(Current)>>) /\ Sent(Current).code = Current.code
  BY RdTurn, AnswersTwice
<1> QED BY <1>1 DEF Twice

\* 608-634: a lookup.
LEMMA RdGetBranch ==
  ASSUME IInv, RdGet
  PROVE  Twice("2.05")
<1>1. IsRd
  BY DEF RdGet, IsDirectory, IsRd
<1>2. PICK payload \in Printed : RdSend(Coded2(Current, "2.05", payload))
  BY Zenon DEF RdGet, Coded2
<1>3. Blank \in Seq(Str)
  <2>1. Current.payload \in Seq(Str)
    BY <1>1, RdTurn
  <2>2. <<>> \in Str /\ DOMAIN Current.payload = 1..Len(Current.payload)
        /\ Len(Current.payload) \in Nat
    BY <2>1 DEF Str
  <2> QED BY <2>2 DEF Blank
<1>4. <<255>> \in Str
  BY DEF Str
<1>5. payload \in Seq(Str)
  <2> HIDE DEF Blank
  <2>1. payload = Blank \/ payload = Append(Blank, <<255>>)
    BY <1>2 DEF Printed
  <2> QED BY <2>1, <1>3, <1>4
<1> QED BY <1>1, <1>2, <1>5, RdSends DEF Codes

\* The entry of a registration, and what it is given.
Registered == [NewEntry(Query(Current).ep) EXCEPT
                 !.lt = IF Asks(Current, "lt") THEN Query(Current).lt ELSE @,
                 !.coap_res = Current.payload]

Given(e, lt, links) == [e EXCEPT !.lt = lt, !.coap_res = links]

\* coap_rd_entry_create makes an entry.
LEMMA EntryMade ==
  ASSUME NEW name \in Str
  PROVE  NewEntry(name) \in Entry
BY DEF NewEntry, Entry

\* Another lifetime and other links leave the name and the browsers.
LEMMA GivenIs ==
  ASSUME NEW e \in Entry, NEW lt \in Int, NEW links \in Seq(Str)
  PROVE  /\ Given(e, lt, links) \in Entry /\ Given(e, lt, links).key = e.key
         /\ Given(e, lt, links).lt = lt /\ Given(e, lt, links).coap_res = links
         /\ Given(e, lt, links).watched = e.watched
BY DEF Entry, Given

\* 574-607: a registration.
LEMMA RdPostBranch ==
  ASSUME IInv, RdPost
  PROVE  /\ Twice("2.01")
         /\ Registered \in Entry /\ entries' = NodeInsert(entries, Registered)
<1>1. IsRd /\ Has(Current, "URI_QUERY") /\ Asks(Current, "ep")
  BY DEF RdPost, IsDirectory, IsRd
<1>2. IsPdu(Current) /\ IsRead(Current) /\ Current.payload \in Seq(Str)
      /\ Has(Current, "TOKEN")
  BY <1>1, RdTurn
<1>3. Registered \in Entry
  <2> DEFINE lt == IF Asks(Current, "lt") THEN Query(Current).lt ELSE 86400
             base == NewEntry(Query(Current).ep)
  <2>1. Query(Current) = Current.options["URI_QUERY"]
    BY <1>1 DEF Query
  <2>2. Query(Current).ep \in Str /\ lt \in Int
    BY <1>1, <1>2, <2>1 DEF IsRead, Asks, Has
  <2>3. base.lt = 86400
    BY DEF NewEntry
  <2>4. Registered = [base EXCEPT !.lt = IF Asks(Current, "lt") THEN Query(Current).lt
                                                                ELSE base.lt,
                                  !.coap_res = Current.payload]
    BY DEF Registered
  <2> HIDE DEF base
  <2>5. Registered = Given(base, lt, Current.payload)
    BY <2>3, <2>4 DEF Given
  <2>6. base \in Entry
    BY <2>2, EntryMade DEF base
  <2> HIDE DEF lt
  <2>7. lt \in Int
    BY <2>2 DEF lt
  <2> QED BY <2>5, <2>6, <2>7, <1>2, GivenIs
<1>4. entries' = NodeInsert(entries, Registered)
  BY DEF RdPost, Registered
<1> DEFINE r == Coded2(Current, "2.01", <<>>)
           q == OptionInsert(r, "LOCATION_PATH", Current.payload)
<1>5. RdSend(q)
  <2>1. RdSend(OptionInsert([Current EXCEPT !.code = "2.01", !.payload = <<>>],
                            "LOCATION_PATH", Current.payload))
    BY DEF RdPost
  <2> QED BY <2>1, Zenon DEF Coded2
<1>6. /\ IsPdu(r) /\ Has(r, "TOKEN") /\ Who(r) = Who(Current) /\ r.id = Current.id
      /\ r.code = "2.01"
  <2>1. <<>> \in Seq(Str) /\ "2.01" \in Codes
    BY DEF Codes
  <2> QED BY <1>2, <2>1, Coded2Keeps
<1> HIDE DEF r
<1>7. /\ IsPdu(q) /\ Has(q, "TOKEN") /\ Who(q) = Who(Current) /\ q.id = Current.id
      /\ q.code = "2.01"
  BY <1>6, InsertKeeps
<1> HIDE DEF q
<1>8. Done(answers \o <<Sent(q), Sent(q)>>) /\ Sent(q).code = q.code
  BY <1>1, <1>5, <1>7, RdTurn, AnswersTwice
<1> QED BY <1>3, <1>4, <1>7, <1>8 DEF Twice

\* 635-659: a removal.  Where there is no entry the request comes back.
LEMMA RdDeleteBranch ==
  ASSUME IInv, RdDelete
  PROVE  \/ Twice("DELETE") /\ entries' = entries
         \/ /\ Twice("2.02")
            /\ \E k \in DOMAIN entries : entries' = Without(entries, k)
<1>1. IsRd /\ Current.code = "DELETE"
  BY DEF RdDelete, IsDirectory, IsRd
<1> DEFINE name == Current.options["URI_PATH"].name
           k == EntryFor(name)
<1>2. CASE k = 0
  <2>1. RdSend(Current) /\ entries' = entries
    BY <1>2 DEF RdDelete
  <2> QED BY <1>1, <2>1, RdSendsItself
<1>3. CASE k # 0
  <2>1. /\ entries' = Left(name)
        /\ RdSend([Current EXCEPT !.code = "2.02", !.payload = <<>>])
    BY <1>3 DEF RdDelete
  <2>2. RdSend(Coded2(Current, "2.02", <<>>))
    BY <2>1, Zenon DEF Coded2
  <2>3. Twice("2.02")
    <3>1. <<>> \in Seq(Str) /\ "2.02" \in Codes
      BY DEF Codes
    <3> QED BY <1>1, <2>2, <3>1, RdSends
  <2>4. entries' = Without(entries, k)
    BY <2>1, <1>3 DEF Left, NodeDelete, EntryFor
  <2>5. k \in DOMAIN entries
    <3>1. entries \in Seq(Entry)
      BY DEF IInv
    <3> QED BY <1>3, <3>1, NodeGetRange DEF EntryFor
  <2> QED BY <2>3, <2>4, <2>5
<1> QED BY <1>2, <1>3

\* The k-th of the entries changed.
Replaced(k, e) == [entries EXCEPT ![k] = e]

\* 660-686: a change, of the entry that is found, if one is.
LEMMA RdPutBranch ==
  ASSUME IInv, RdPut
  PROVE  /\ Twice("2.04") \/ Twice("4.00")
         /\ \/ entries' = entries
            \/ \E k \in DOMAIN entries, e \in Entry :
                 entries' = Replaced(k, e) /\ e.key = entries[k].key
<1>1. IsRd
  BY DEF RdPut, IsDirectory, IsRd
<1> DEFINE k == EntryFor(Current.options["URI_PATH"].name)
           lt == IF Asks(Current, "lt") THEN Query(Current).lt ELSE entries[k].lt
           ok == k = 0 \/ Current.payload # <<>>
           links == IF ok THEN Current.payload ELSE entries[k].coap_res
<1>2. Twice("2.04") \/ Twice("4.00")
  <2>1. CASE ok
    <3>1. RdSend([Current EXCEPT !.code = "2.04", !.payload = <<>>])
      BY <2>1 DEF RdPut
    <3>2. RdSend(Coded2(Current, "2.04", <<>>))
      BY <3>1, Zenon DEF Coded2
    <3>3. <<>> \in Seq(Str) /\ "2.04" \in Codes
      BY DEF Codes
    <3> QED BY <1>1, <3>2, <3>3, RdSends
  <2>2. CASE ~ok
    <3>1. BadRequest(4)
      BY <2>2 DEF RdPut
    <3>2. RdSend(Coded2(Current, "4.00", << <<4>> >>))
      BY <3>1, Zenon DEF BadRequest, Coded2
    <3>3. << <<4>> >> \in Seq(Str) /\ "4.00" \in Codes
      BY DEF Codes, Str
    <3> QED BY <1>1, <3>2, <3>3, RdSends
  <2> QED BY <2>1, <2>2
<1>3. entries \in Seq(Entry) /\ k \in {0} \cup DOMAIN entries
  <2>1. entries \in Seq(Entry)
    BY DEF IInv
  <2> QED BY <2>1, NodeGetRange DEF EntryFor
<1>4. entries' = IF k = 0 THEN entries ELSE Updated(k, lt, links)
  BY DEF RdPut
<1>5. CASE k # 0
  <2> DEFINE e == Given(entries[k], lt, links)
  <2>1. entries[k] \in Entry /\ k \in DOMAIN entries
    BY <1>3, <1>5
  <2>2. lt \in Int
    <3>1. CASE Asks(Current, "lt")
      <4>1. Query(Current) = Current.options["URI_QUERY"] /\ Has(Current, "URI_QUERY")
        BY <3>1 DEF Query, Asks
      <4>2. IsRead(Current)
        BY <1>1, RdTurn
      <4> QED BY <3>1, <4>1, <4>2 DEF IsRead, Asks, Has
    <3>2. CASE ~Asks(Current, "lt")
      BY <3>2, <2>1 DEF Entry
    <3> QED BY <3>1, <3>2
  <2>3. links \in Seq(Str)
    <3>1. Current.payload \in Seq(Str)
      BY <1>1, RdTurn
    <3>2. entries[k].coap_res \in Seq(Str)
      BY <2>1 DEF Entry
    <3> QED BY <3>1, <3>2
  <2> HIDE DEF k, lt, links
  <2>4. e \in Entry /\ e.key = entries[k].key
    BY <2>1, <2>2, <2>3, GivenIs
  <2>5. Updated(k, lt, links) = Replaced(k, e)
    BY <2>1, <1>3 DEF Updated, Replaced, Given
  <2> QED BY <1>2, <1>4, <1>5, <2>1, <2>4, <2>5
<1> QED BY <1>2, <1>4, <1>5

\* 687: a method the directory does not know.
LEMMA RdOtherBranch ==
  ASSUME IInv, RdOther
  PROVE  Twice(Current.code) /\ entries' = entries
<1>1. IsRd /\ RdSend(Current)
  BY DEF RdOther, IsRd
<1> QED BY <1>1, RdSendsItself DEF RdOther

\* 696-709: the resource of the server.
LEMMA GenericBranch ==
  ASSUME IInv, Generic
  PROVE  Done(answers) \/ Once("2.05")
<1>1. IsServed /\ Has(Current, "TOKEN") /\ pc = "dispatch"
  BY DEF Generic, IsServed, IsRequest
<1>2. CASE ResourceFor(Current) = 0
  <2>1. Owed(Current) = 0
    BY <1>1, <1>2, OwedByBranch DEF Generic
  <2> QED BY <1>1, <1>2, <2>1, Drops DEF Generic, Drop
<1>3. CASE ResourceFor(Current) # 0
  <2> DEFINE c == OptionUnset(Current, {"URI_PATH"})
             a == Ack3(c, "2.05", << <<5>> >>)
  <2>1. Owed(Current) = 1
    BY <1>1, <1>3, OwedByBranch DEF Generic
  <2>2. Answer(Handled(Current))
    BY <1>3 DEF Generic
  <2>3. Answer(a)
    BY <2>2, Zenon DEF Handled, Ack3
  <2>4. IsPdu(Current)
    BY <1>1, CurrentIs
  <2>5. IsPdu(c) /\ c.id = Current.id /\ Has(c, "TOKEN") /\ Who(c) = Who(Current)
    BY <1>1, <2>4, UnsetKeeps
  <2> HIDE DEF c
  <2>6. Reply(a, c) /\ a.code = "2.05"
    <3>1. << <<5>> >> \in Seq(Str) /\ "2.05" \in Codes
      BY DEF Codes, Str
    <3> QED BY <2>5, <3>1, Ack3Replies
  <2> HIDE DEF a
  <2>7. Reply(a, Current)
    BY <2>5, <2>6 DEF Reply
  <2>8. Done(Append(answers, a))
    BY <1>1, <2>1, <2>3, <2>7, AnswersOnce
  <2> QED BY <2>6, <2>8 DEF Once
<1> QED BY <1>2, <1>3

----------------------------------------------------------------------------
(* A request that is forwarded.                                            *)

\* The counters of the inner client are numbers.
LEMMA CounterIs ==
  ASSUME IInv
  PROVE  message_id \in Nat /\ token \in Nat
<1>1. InitIds \subseteq Nat /\ InitTokens \subseteq Nat
  BY CountersAreRandom DEF Random
<1>2. Uint16 \subseteq Nat
  BY DEF Uint16
<1> QED BY <1>1, <1>2 DEF IInv

\* They have 16 bits once they were advanced (coap_client_send).
LEMMA AdvanceIs ==
  ASSUME NEW n \in Nat
  PROVE  Advance(n) \in Uint16
BY DEF Advance, Uint16

\* A PDU with another message id.
LEMMA SetId ==
  ASSUME NEW r, IsPdu(r), NEW id \in Uint16
  PROVE  IsPdu([r EXCEPT !.id = id])
<1> DEFINE a == [r EXCEPT !.id = id]
<1>1. a = [id |-> id, type |-> r.type, code |-> r.code, from |-> r.from,
           options |-> r.options, payload |-> r.payload]
  BY FieldsOf
<1> HIDE DEF a
<1>2. IsPdu(a)
  BY <1>1, FieldsOf, MadeOf
<1> QED BY <1>2 DEF a

\* What is sent on is a PDU, with a query or without.
LEMMA RoutedIs ==
  ASSUME IInv, IsPdu(Current)
  PROVE  IsPdu(Routed) /\ IsPdu(Asking)
<1> DEFINE u == OptionUnset(Current, {"PROXY_URI", "TOKEN"})
           c == CopyOf(Current)
           b == [c EXCEPT !.id = message_id % 65536]
           p == OptionInsert(b, "TOKEN", TokenKey(token))
<1>1. IsPdu(c)
  <2>1. IsPdu(u)
    BY UnsetKeeps
  <2> HIDE DEF u
  <2>2. <<>> \in Seq(Str)
    OBVIOUS
  <2>3. IsPdu(WithPayload(u, <<>>))
    BY <2>1, <2>2, SetPayload DEF Same
  <2> QED BY <2>3 DEF CopyOf, WithPayload, u
<1>2. message_id % 65536 \in Uint16
  BY CounterIs DEF Uint16
<1> HIDE DEF c
<1>3. IsPdu(b)
  BY <1>1, <1>2, SetId
<1> HIDE DEF b
<1>4. IsPdu(p)
  BY <1>3, InsertKeeps
<1>5. Routed = OptionInsert(p, "URI_PATH", IF Target.path = <<>> THEN Junk
                                                                 ELSE Target.path)
  BY DEF Routed, p, b, c
<1> HIDE DEF p
<1>6. IsPdu(Routed)
  BY <1>4, <1>5, InsertKeeps
<1> QED BY <1>6, InsertKeeps DEF Asking

\* One PDU more that was sent on.
LEMMA RelayedOne ==
  ASSUME NEW list, Relayed(list), NEW a, IsPdu(a)
  PROVE  Relayed(Append(list, a))
<1> DEFINE t == Append(list, a)
<1>1. PICK S : list \in Seq(S)
  BY DEF Relayed
<1>2. t \in Seq(S \cup {a}) /\ Extends(t, list, a)
  BY <1>1, AppendExtends
<1> HIDE DEF t
<1>3. \A i \in DOMAIN t : (i \in DOMAIN list /\ t[i] = list[i]) \/ t[i] = a
  BY <1>2 DEF Extends
<1> QED BY <1>2, <1>3 DEF Relayed, t

\* 337-372: what is sent on is a PDU with a message id of 16 bits, and the
\* counters of the inner client stay as wide.
LEMMA ForwardBranch ==
  ASSUME IInv, Forward
  PROVE  /\ Done(answers) /\ Relayed(forwarded') /\ entries' = entries
         /\ message_id' \in Uint16 /\ token' \in Uint16
<1>1. /\ pc = "dispatch" /\ Has(Current, "TOKEN") /\ IsRequest /\ ~IsServed
  BY DEF Forward, ForAnother, IsRequest, IsServed
<1>2. IsPdu(Current)
  BY <1>1, CurrentIs
<1>3. Done(answers)
  <2>1. GoOn(Delete(dispatch, Current)) /\ UNCHANGED answers
    BY DEF Forward
  <2> QED BY <1>1, <2>1, OwedByBranch, Drops
<1>4. Relayed(forwarded')
  <2>1. forwarded' = Append(forwarded, Routed) \/ forwarded' = Append(forwarded, Asking)
    BY DEF Forward
  <2> QED BY <1>2, <2>1, RoutedIs, RelayedOne DEF IInv
<1>5. message_id' \in Uint16 /\ token' \in Uint16
  BY CounterIs, AdvanceIs DEF Forward
<1> QED BY <1>3, <1>4, <1>5 DEF Forward

----------------------------------------------------------------------------
(* Every step keeps the invariant.                                         *)

\* What a branch does, whichever it is.
LEMMA DispatchedDoes ==
  ASSUME IInv, Dispatched
  PROVE  /\ \E list : Done(list)
         /\ entries' \in Seq(Entry) /\ Relayed(forwarded')
         /\ message_id' \in InitIds \cup Uint16 /\ token' \in InitTokens \cup Uint16
<1>1. /\ entries \in Seq(Entry) /\ Relayed(forwarded)
      /\ message_id \in InitIds \cup Uint16 /\ token \in InitTokens \cup Uint16
  BY DEF IInv
<1> DEFINE rest == UNCHANGED <<message_id, token, forwarded>>
<1>2. CASE NoToken \/ NotARequest \/ BadUri \/ NoPath
  <2>1. rest /\ entries' = entries
    BY <1>2 DEF NoToken, NotARequest, BadUri, NoPath
  <2> QED BY <1>1, <1>2, <2>1, DropBranches
<1>3. CASE BadOption
  <2>1. rest /\ entries' = entries
    BY <1>3 DEF BadOption
  <2> QED BY <1>1, <1>3, <2>1, BadOptionBranch DEF Once
<1>4. CASE Forward
  BY <1>1, <1>4, ForwardBranch
<1>5. CASE Discover
  <2>1. rest /\ entries' = entries
    BY <1>5 DEF Discover
  <2> QED BY <1>1, <1>5, <2>1, DiscoverBranch DEF Once
<1>6. CASE Generic
  <2>1. rest /\ entries' = entries
    BY <1>6 DEF Generic
  <2> QED BY <1>1, <1>6, <2>1, GenericBranch DEF Once
<1>7. CASE RdRefuse \/ RdGet \/ RdOther
  <2>1. rest /\ entries' = entries
    BY <1>7 DEF RdRefuse, RdGet, RdOther
  <2>2. \E code : Twice(code)
    BY <1>7, RdRefuseBranch, RdGetBranch, RdOtherBranch
  <2> QED BY <1>1, <2>1, <2>2 DEF Twice
<1>8. CASE RdPost
  <2>1. rest
    BY <1>8 DEF RdPost
  <2>2. /\ Twice("2.01") /\ Registered \in Entry
        /\ entries' = NodeInsert(entries, Registered)
    BY <1>8, RdPostBranch
  <2>3. entries' \in Seq(Entry)
    BY <1>1, <2>2, NodeInsertLength
  <2> QED BY <1>1, <2>1, <2>2, <2>3 DEF Twice
<1>9. CASE RdDelete
  <2>1. rest
    BY <1>9 DEF RdDelete
  <2>2. /\ \E code : Twice(code)
        /\ entries' = entries \/ \E k \in DOMAIN entries : entries' = Without(entries, k)
    BY <1>9, RdDeleteBranch
  <2>3. entries' \in Seq(Entry)
    BY <1>1, <2>2, WithoutElements
  <2> QED BY <1>1, <2>1, <2>2, <2>3 DEF Twice
<1>10. CASE RdPut
  <2>1. rest
    BY <1>10 DEF RdPut
  <2>2. /\ \E code : Twice(code)
        /\ \/ entries' = entries
           \/ \E k \in DOMAIN entries, e \in Entry : entries' = Replaced(k, e)
    BY <1>10, RdPutBranch
  <2>3. entries' \in Seq(Entry)
    BY <1>1, <2>2 DEF Replaced
  <2> QED BY <1>1, <2>1, <2>2, <2>3 DEF Twice
<1> QED BY <1>2, <1>3, <1>4, <1>5, <1>6, <1>7, <1>8, <1>9, <1>10 DEF Dispatched, Rd

\* Where nothing was sent nothing is owed.
LEMMA EmptyBooks ==
  /\ Books(<<>>, [w \in {} |-> 0]) /\ Relayed(<<>>)
BY DEF Books, Relayed

\* get_resource_directory makes an entry of each row.
LEMMA LoadedIs ==
  ASSUME NEW n \in Reads
  PROVE  /\ n \in 0..Len(Rows) /\ Len(Rows) \in Nat
         /\ Loaded(n) \in Seq(Entry) /\ Len(Loaded(n)) = n
<1> DEFINE R == [dir : Str, whole : BOOLEAN]
<1> HIDE DEF R
<1>1. /\ Rows \in Seq(R)
      /\ DOMAIN Rows = 1..Len(Rows) /\ Len(Rows) \in Nat
  <2>1. Rows \in Seq(R)
    BY RowsAreNamed DEF R
  <2> QED BY <2>1
<1>2. n \in 0..Len(Rows)
  BY DEF Reads
<1>3. \A i \in 1..n : Place(n, i) \in DOMAIN Rows
  BY <1>1, <1>2 DEF Place
<1>4. \A i \in 1..n : NewEntry(Rows[Place(n, i)].dir) \in Entry
  <2>1. \A i \in DOMAIN Rows : Rows[i] \in R
    BY <1>1
  <2>2. \A i \in DOMAIN Rows : Rows[i].dir \in Str
    BY <2>1 DEF R
  <2> QED BY <2>2, <1>3, EntryMade
<1> QED BY <1>1, <1>2, <1>4 DEF Loaded

\* The invariant holds before the first start.
LEMMA InitIInv == Init => IInv
<1> SUFFICES ASSUME Init PROVE IInv
  OBVIOUS
<1>1. 0 \in Uint16 /\ MaxRequests \in Nat /\ MaxStarts \in Nat
  BY BoundsAreNat DEF Uint16
<1>2. /\ pc = "down" /\ dispatch = <<>> /\ entries = <<>> /\ socketq = <<>>
      /\ message_id = 0 /\ token = 0 /\ requests = 0 /\ starts = 0
      /\ loaded = 0 /\ Len(Rows) \in Nat
      /\ answers = <<>> /\ forwarded = <<>> /\ owed = [w \in {} |-> 0]
  BY RowsAreNamed DEF Init
<1>3. Books(answers, owed) /\ Relayed(forwarded)
  BY <1>2, EmptyBooks
<1>4. OneAtATime
  BY <1>2 DEF OneAtATime
<1> QED BY <1>1, <1>2, <1>3, <1>4 DEF IInv

\* The process ends: nothing is left but the tables.
LEMMA StopKeeps ==
  ASSUME IInv, Stop
  PROVE  IInv'
<1>1. /\ pc' = "down" /\ dispatch' = <<>> /\ entries' = <<>> /\ socketq' = <<>>
      /\ message_id' = 0 /\ token' = 0 /\ requests' = requests /\ starts' = starts
      /\ loaded' = 0 /\ Len(Rows) \in Nat
      /\ answers' = <<>> /\ forwarded' = <<>> /\ owed' = [w \in {} |-> 0]
  BY RowsAreNamed DEF Stop
<1>2. Books(answers', owed') /\ Relayed(forwarded')
  BY <1>1, EmptyBooks
<1>3. OneAtATime'
  BY <1>1 DEF OneAtATime
<1>4. 0 \in Uint16
  BY DEF Uint16
<1> QED BY <1>1, <1>2, <1>3, <1>4 DEF IInv

\* context_create.
LEMMA StartKeeps ==
  ASSUME IInv, Start
  PROVE  IInv'
<1>1. /\ answers' = answers /\ forwarded' = forwarded /\ owed' = owed
      /\ socketq' = socketq /\ requests' = requests /\ starts' \in 0..MaxStarts
  <2>1. starts \in 0..MaxStarts /\ MaxStarts \in Nat
    BY BoundsAreNat DEF IInv
  <2> QED BY <2>1 DEF Start, sent
<1>2. CASE UNCHANGED <<pc, memory, loaded>>
  BY <1>1, <1>2 DEF IInv, OneAtATime, memory
<1>3. ASSUME NEW n \in Reads,
             pc' = "select", NewServer, entries' = Loaded(n), loaded' = n
      PROVE  IInv'
  <2>1. OneAtATime'
    BY <1>3 DEF NewServer, OneAtATime
  <2>2. message_id' \in InitIds /\ token' \in InitTokens
    BY <1>3 DEF NewServer, NewClient
  <2> QED BY <1>1, <1>3, <2>1, <2>2, LoadedIs DEF IInv
<1> QED BY <1>2, <1>3 DEF Start

\* A datagram arrives.
LEMMA ArriveKeeps ==
  ASSUME IInv, NEW r \in Requests, Arrive(r)
  PROVE  IInv'
<1>1. /\ UNCHANGED <<pc, memory, sent, owed, starts, loaded>>
      /\ socketq' \in Seq(Requests) /\ requests' \in 0..MaxRequests
  <2>1. requests \in 0..MaxRequests /\ MaxRequests \in Nat /\ socketq \in Seq(Requests)
    BY BoundsAreNat DEF IInv
  <2> QED BY <2>1 DEF Arrive
<1> QED BY <1>1 DEF IInv, OneAtATime, memory, sent

\* A browser joins the observers of an entry.
LEMMA WatchKeeps ==
  ASSUME IInv, NEW k \in DOMAIN entries, Watch(k)
  PROVE  IInv'
<1>1. entries' \in Seq(Entry)
  <2>1. entries \in Seq(Entry) /\ entries[k] \in Entry
    BY DEF IInv
  <2>2. [entries[k] EXCEPT !.watched = TRUE] \in Entry
    BY <2>1 DEF Entry
  <2>3. entries' = [entries EXCEPT ![k] = [entries[k] EXCEPT !.watched = TRUE]]
    BY DEF Watch
  <2> QED BY <2>1, <2>2, <2>3
<1>2. UNCHANGED <<pc, dispatch, at, proxy, message_id, token, sent, owed, known,
                  socketq, requests, starts, loaded>>
  BY DEF Watch
<1> QED BY <1>1, <1>2 DEF IInv, OneAtATime, sent

\* coap_context_read.
LEMMA ReadKeeps ==
  ASSUME IInv, Read
  PROVE  IInv'
<1> DEFINE r == Head(socketq)
<1>1. r \in Requests /\ Tail(socketq) \in Seq(Requests)
  BY DEF IInv, Read, Readable
<1>2. dispatch = <<>>
  BY DEF IInv, OneAtATime, Read
<1>3. dispatch' = <<NodeOf(r)>>
  BY <1>2 DEF Read, NodeInsert, NodeOf
<1>4. OneAtATime'
  BY <1>1, <1>3 DEF Read, OneAtATime
<1>5. UNCHANGED <<entries, message_id, token, sent, owed, requests, starts, loaded>>
  BY DEF Read
<1> HIDE DEF r
<1> QED BY <1>1, <1>4, <1>5 DEF IInv, Read, sent

\* A turn of the loop.
LEMMA DispatchedKeeps ==
  ASSUME IInv, Dispatched
  PROVE  IInv'
<1>1. PICK list : Done(list)
  BY DispatchedDoes
<1>2. /\ entries' \in Seq(Entry) /\ Relayed(forwarded')
      /\ message_id' \in InitIds \cup Uint16 /\ token' \in InitTokens \cup Uint16
  BY DispatchedDoes
<1>3. OneAtATime'
  BY <1>1 DEF Done, OneAtATime
<1> QED BY <1>1, <1>2, <1>3 DEF Done, IInv

\* All steps together.
LEMMA StepKeeps == IInv /\ [Next]_vars => IInv'
<1> SUFFICES ASSUME IInv, [Next]_vars PROVE IInv'
  OBVIOUS
<1>1. CASE Start
  BY <1>1, StartKeeps
<1>2. CASE Kill \/ Crash
  BY <1>2, StopKeeps DEF Kill, Crash
<1>3. CASE \E r \in Requests : Arrive(r)
  BY <1>3, ArriveKeeps
<1>4. CASE \E k \in DOMAIN entries : Watch(k)
  BY <1>4, WatchKeeps
<1>5. CASE Read
  BY <1>5, ReadKeeps
<1>6. CASE Dispatched
  BY <1>6, DispatchedKeeps
<1>7. CASE UNCHANGED vars
  BY <1>7 DEF IInv, OneAtATime, vars, memory, sent
<1> QED BY <1>1, <1>2, <1>3, <1>4, <1>5, <1>6, <1>7 DEF Next, Environment

\* The invariant holds in every reachable state.
LEMMA Invariance == Spec => []IInv
<1>1. IInv /\ [Next]_vars => IInv'
  BY StepKeeps
<1> QED BY InitIInv, <1>1, PTL DEF Spec

----------------------------------------------------------------------------
(* The theorems.                                                           *)

\* The state keeps its types: whatever the server sends or hands on is a PDU, the
\* counters of the inner client are 16 bits wide once they have been used, and
\* the loop stands on a node of the queue as long as it runs.
THEOREM TypeCorrect == Spec => []TypeOK
<1>1. IInv => TypeOK
  <2> SUFFICES ASSUME IInv PROVE TypeOK
    OBVIOUS
  <2>1. \A i \in DOMAIN socketq : IsPdu(socketq[i])
    <3>1. socketq \in Seq(Requests)
      BY DEF IInv
    <3>2. \A i \in DOMAIN socketq : socketq[i] \in Requests
      BY <3>1
    <3>3. \A r \in Requests : IsPdu(r)
      BY RequestsAreRead DEF IsRead
    <3> HIDE DEF IsPdu
    <3> QED BY <3>2, <3>3
  <2>2. \A i \in DOMAIN dispatch : IsPdu(dispatch[i].pdu)
    <3>1. CASE pc = "dispatch"
      <4>1. dispatch = <<NodeOf(Current)>> /\ IsPdu(Current)
        BY <3>1, CurrentIs
      <4> HIDE DEF Current
      <4> QED BY <4>1 DEF NodeOf
    <3>2. CASE pc # "dispatch"
      BY <3>2 DEF IInv, OneAtATime
    <3> QED BY <3>1, <3>2
  <2>3. pc = "dispatch" => at \in DOMAIN dispatch
    BY CurrentIs
  <2>4. /\ \A i \in DOMAIN answers : IsPdu(answers[i])
        /\ \A i \in DOMAIN forwarded : IsPdu(forwarded[i])
    BY DEF IInv, Books, Relayed
  <2>5. \A k \in DOMAIN entries : entries[k].lt \in Int /\ entries[k].watched \in BOOLEAN
    <3>1. \A k \in DOMAIN entries : entries[k] \in Entry
      BY DEF IInv
    <3> QED BY <3>1 DEF Entry
  <2> QED BY <2>1, <2>2, <2>3, <2>4, <2>5 DEF TypeOK, IInv
<1> QED BY Invariance, <1>1, PTL

\* Back in serve(), the dispatch queue is empty, and every request that was
\* dispatched has been answered as often as the code owes: to its host, with its
\* id and token, by acknowledgements, and nobody else has been answered.
THEOREM SettledTheorem == Spec => []Settled
<1>1. IInv => Settled
  <2> SUFFICES ASSUME IInv, pc = "select" PROVE Settled
    BY DEF Settled
  <2>1. dispatch = <<>>
    BY DEF IInv, OneAtATime
  <2>2. \A w : Answering(w) = To(answers, w)
    BY DEF Answering, To
  <2> QED BY <2>1, <2>2 DEF Settled, IInv, Books
<1> QED BY Invariance, <1>1, PTL

----------------------------------------------------------------------------
(* What the clients are told.                                              *)

\* No request carries a code of the directory's own answers: RdOther sends every
\* code it does not know back as it came, and such an echo reads like a
\* confirmation of nothing.
NoResponses == \A r \in Requests : r.code \notin {"2.01", "2.02"}

Count(list, code) == Cardinality(Coded(list, code))

\* What a turn of the loop adds to the answers of the two codes.
Quiet ==
  \A c \in {"2.01", "2.02"} : Count(answers', c) = Count(answers, c)
Tells(code) ==
  \A c \in {"2.01", "2.02"} :
    /\ c = code => Count(answers', c) = Count(answers, c) + 2
    /\ c # code => Count(answers', c) = Count(answers, c)

\* How often a code was sent is a number.
LEMMA CountIsNumber ==
  ASSUME IInv, NEW c
  PROVE  Count(answers, c) \in Nat
<1>1. PICK S : answers \in Seq(S)
  BY DEF IInv, Books
<1>2. \E t : Extends(t, answers, c)
  BY <1>1, AppendExtends
<1> QED BY <1>2, CountCode, Zenon DEF Count

\* CountCode for Count.
LEMMA CountExtended ==
  ASSUME NEW list, NEW t, NEW a, Extends(t, list, a), NEW c
  PROVE  /\ a.code = c => Count(t, c) = Count(list, c) + 1
         /\ a.code # c => Count(t, c) = Count(list, c)
         /\ Count(list, c) \in Nat
BY CountCode DEF Count

\* A branch that does not answer leaves the counts.
LEMMA SilentIsQuiet ==
  ASSUME Done(answers)
  PROVE  pc' = "select" /\ Quiet
BY DEF Done, Quiet

\* One answer of another code leaves the counts.
LEMMA OnceIsQuiet ==
  ASSUME IInv, NEW code, Once(code), code \notin {"2.01", "2.02"}
  PROVE  pc' = "select" /\ Quiet
<1>1. PICK S : answers \in Seq(S)
  BY DEF IInv, Books
<1>2. PICK a : Done(Append(answers, a)) /\ a.code = code
  BY DEF Once
<1> DEFINE t == Append(answers, a)
<1>3. answers' = t /\ pc' = "select"
  BY <1>2 DEF Done
<1>4. ASSUME NEW c \in {"2.01", "2.02"}
      PROVE  Count(t, c) = Count(answers, c)
  <2>1. a.code # c
    BY <1>2, <1>4
  <2>2. Extends(t, answers, a)
    BY <1>1, AppendExtends
  <2> HIDE DEF t
  <2> QED BY <2>1, <2>2, CountExtended
<1> HIDE DEF t
<1> QED BY <1>3, <1>4 DEF Quiet

\* Two answers of a code count two for it, and none for the other.
LEMMA TwiceTells ==
  ASSUME IInv, NEW code, Twice(code)
  PROVE  /\ pc' = "select" /\ Tells(code)
         /\ code \notin {"2.01", "2.02"} => Quiet
<1>1. PICK S : answers \in Seq(S)
  BY DEF IInv, Books
<1>2. PICK a : Done(answers \o <<a, a>>) /\ a.code = code
  BY DEF Twice
<1> DEFINE one == Append(answers, a)
           two == Append(one, a)
<1>3. answers' = two /\ pc' = "select"
  BY <1>1, <1>2, TwiceIs DEF Done
<1>4. ASSUME NEW c
      PROVE  /\ code = c => Count(two, c) = Count(answers, c) + 2
             /\ code # c => Count(two, c) = Count(answers, c)
  <2>1. a.code = code
    BY <1>2
  <2>2. one \in Seq(S \cup {a}) /\ Extends(one, answers, a)
    BY <1>1, AppendExtends
  <2> HIDE DEF one
  <2>3. Extends(two, one, a)
    BY <2>2, AppendExtends
  <2> HIDE DEF two
  <2>4. /\ code = c => Count(one, c) = Count(answers, c) + 1
        /\ code # c => Count(one, c) = Count(answers, c)
        /\ Count(answers, c) \in Nat
    BY <2>1, <2>2, CountExtended
  <2>5. /\ code = c => Count(two, c) = Count(one, c) + 1
        /\ code # c => Count(two, c) = Count(one, c)
    BY <2>1, <2>3, CountExtended
  <2> QED BY <2>4, <2>5
<1> HIDE DEF two
<1> QED BY <1>3, <1>4 DEF Quiet, Tells

\* A turn of the loop registers and says so, removes and says so, changes an
\* entry under its name, or leaves the entries alone.
Registers ==
  Tells("2.01") /\ \E e \in Entry : entries' = NodeInsert(entries, e)
Removes ==
  Tells("2.02") /\ \E k \in DOMAIN entries : entries' = Without(entries, k)
Changes ==
  Quiet /\ \E k \in DOMAIN entries, e \in Entry :
             entries' = Replaced(k, e) /\ e.key = entries[k].key
Leaves == Quiet /\ entries' = entries

\* Each branch does one of these (coap_server_dispatch).
LEMMA DispatchedTells ==
  ASSUME IInv, NoResponses, Dispatched
  PROVE  /\ pc = "dispatch" /\ pc' = "select"
         /\ Registers \/ Removes \/ Changes \/ Leaves
<1>1. pc = "dispatch"
  BY DEF Dispatched, Rd, NoToken, BadOption, NotARequest, BadUri, NoPath, Forward,
         ForAnother, Discover, Generic, RdRefuse, RdPost, RdGet, RdDelete, RdPut,
         RdOther, IsDirectory, IsServed, IsRequest
<1>2. CASE NoToken \/ NotARequest \/ BadUri \/ NoPath
  <2>1. entries' = entries
    BY <1>2 DEF NoToken, NotARequest, BadUri, NoPath
  <2> QED BY <1>1, <1>2, <2>1, DropBranches, SilentIsQuiet DEF Leaves
<1>3. CASE BadOption
  <2>1. entries' = entries
    BY <1>3 DEF BadOption
  <2>2. "4.02" \notin {"2.01", "2.02"}
    OBVIOUS
  <2> QED BY <1>1, <1>3, <2>1, <2>2, BadOptionBranch, OnceIsQuiet DEF Leaves
<1>4. CASE Forward
  BY <1>1, <1>4, ForwardBranch, SilentIsQuiet DEF Leaves
<1>5. CASE Discover
  <2>1. entries' = entries
    BY <1>5 DEF Discover
  <2>2. "2.05" \notin {"2.01", "2.02"} /\ "4.05" \notin {"2.01", "2.02"}
    OBVIOUS
  <2> QED BY <1>1, <1>5, <2>1, <2>2, DiscoverBranch, OnceIsQuiet DEF Leaves
<1>6. CASE Generic
  <2>1. entries' = entries
    BY <1>6 DEF Generic
  <2>2. "2.05" \notin {"2.01", "2.02"}
    OBVIOUS
  <2> QED BY <1>1, <1>6, <2>1, <2>2, GenericBranch, OnceIsQuiet, SilentIsQuiet DEF Leaves
<1>7. CASE RdRefuse \/ RdGet \/ RdOther
  <2>1. entries' = entries
    BY <1>7 DEF RdRefuse, RdGet, RdOther
  <2>2. Current.code \notin {"2.01", "2.02"}
    BY <1>1, CurrentIs DEF NoResponses
  <2>3. "4.00" \notin {"2.01", "2.02"} /\ "2.05" \notin {"2.01", "2.02"}
    OBVIOUS
  <2>4. \E code : Twice(code) /\ code \notin {"2.01", "2.02"}
    BY <1>7, <2>2, <2>3, RdRefuseBranch, RdGetBranch, RdOtherBranch
  <2> QED BY <1>1, <2>1, <2>4, TwiceTells DEF Leaves
<1>8. CASE RdPost
  BY <1>1, <1>8, RdPostBranch, TwiceTells DEF Registers
<1>9. CASE RdDelete
  <2>1. "DELETE" \notin {"2.01", "2.02"}
    OBVIOUS
  <2> QED BY <1>1, <1>9, <2>1, RdDeleteBranch, TwiceTells DEF Leaves, Removes
<1>10. CASE RdPut
  <2>1. "2.04" \notin {"2.01", "2.02"} /\ "4.00" \notin {"2.01", "2.02"}
    OBVIOUS
  <2>2. pc' = "select" /\ Quiet
    BY <1>10, <2>1, RdPutBranch, TwiceTells
  <2> QED BY <1>1, <1>10, <2>2, RdPutBranch DEF Leaves, Changes
<1> QED BY <1>2, <1>3, <1>4, <1>5, <1>6, <1>7, <1>8, <1>9, <1>10 DEF Dispatched, Rd

\* The directory and what its clients were told, at every step: a stopped process
\* has neither.
LInv ==
  /\ pc = "down" => entries = <<>> /\ answers = <<>>
  /\ pc # "down" =>
       2 * Len(entries) + Count(answers, "2.02")
         = 2 * loaded + Count(answers, "2.01")

\* Where nothing was sent nothing counts.
LEMMA NothingCounted == \A c : Count(<<>>, c) = 0
<1>1. \A c : Coded(<<>>, c) = {}
  BY DEF Coded
<1> QED BY <1>1, FS_EmptySet DEF Count

\* A turn of the loop keeps entries and answers in balance.
LEMMA DispatchedBalances ==
  ASSUME IInv, LInv, NoResponses, Dispatched
  PROVE  LInv'
<1> DEFINE made == Count(answers, "2.01")
           gone == Count(answers, "2.02")
           made1 == Count(answers', "2.01")
           gone1 == Count(answers', "2.02")
<1>1. /\ pc = "dispatch" /\ pc' = "select"
      /\ Registers \/ Removes \/ Changes \/ Leaves
  BY DispatchedTells
<1>2. /\ made \in Nat /\ gone \in Nat /\ entries \in Seq(Entry)
      /\ Len(entries) \in Nat /\ loaded \in Nat /\ loaded' = loaded
  <2>1. made \in Nat /\ gone \in Nat
    BY CountIsNumber
  <2>2. entries \in Seq(Entry)
    BY DEF IInv
  <2>3. loaded \in Nat
    BY RowsAreNamed DEF IInv
  <2>4. loaded' = loaded
    BY DispatchedDoes DEF Done
  <2> QED BY <2>1, <2>2, <2>3, <2>4
<1>3. 2 * Len(entries) + gone = 2 * loaded + made
  BY <1>1 DEF LInv
<1> DEFINE n == Len(entries)
           n1 == Len(entries')
           rows == loaded
<1>4. \/ n1 = n + 1 /\ made1 = made + 2 /\ gone1 = gone
      \/ n1 = n - 1 /\ made1 = made /\ gone1 = gone + 2
      \/ n1 = n /\ made1 = made /\ gone1 = gone
  <2>1. CASE Registers
    <3>1. PICK e \in Entry : entries' = NodeInsert(entries, e)
      BY <2>1 DEF Registers
    <3>2. n1 = n + 1
      BY <1>2, <3>1, NodeInsertLength
    <3>3. made1 = made + 2 /\ gone1 = gone
      BY <2>1 DEF Registers, Tells
    <3> QED BY <3>2, <3>3
  <2>2. CASE Removes
    <3>1. PICK k \in DOMAIN entries : entries' = Without(entries, k)
      BY <2>2 DEF Removes
    <3>2. n1 = n - 1
      BY <1>2, <3>1, WithoutElements
    <3>3. made1 = made /\ gone1 = gone + 2
      BY <2>2 DEF Removes, Tells
    <3> QED BY <3>2, <3>3
  <2>3. CASE Changes \/ Leaves
    <3>1. n1 = n
      <4>1. entries' = entries \/ \E k \in DOMAIN entries, e \in Entry :
                                     entries' = [entries EXCEPT ![k] = e]
        BY <2>3 DEF Changes, Leaves, Replaced
      <4> QED BY <1>2, <4>1
    <3>2. made1 = made /\ gone1 = gone
      BY <2>3 DEF Changes, Leaves, Quiet
    <3> QED BY <3>1, <3>2
  <2> QED BY <1>1, <2>1, <2>2, <2>3
<1>5. 2 * n1 + gone1 = 2 * rows + made1
  <2>1. n \in Nat /\ rows \in Nat /\ made \in Nat /\ gone \in Nat
        /\ 2 * n + gone = 2 * rows + made
    BY <1>2, <1>3
  <2> HIDE DEF n, n1, rows, made, gone, made1, gone1
  <2> QED BY <2>1, <1>4
<1> QED BY <1>1, <1>2, <1>5 DEF LInv

\* Before the first start there is neither an entry nor an answer.
LEMMA LInvInit == Init => LInv
BY DEF Init, LInv

\* Every step keeps the balance.
LEMMA LInvKeeps ==
  ASSUME NoResponses
  PROVE  IInv /\ LInv /\ [Next]_vars => LInv'
<1> SUFFICES ASSUME IInv, LInv, [Next]_vars PROVE LInv'
  OBVIOUS
<1>1. CASE Start
  <2>1. answers' = answers /\ answers = <<>> /\ pc = "down"
    BY <1>1 DEF Start, LInv, sent
  <2>2. ASSUME NEW n \in Reads, pc' = "select", entries' = Loaded(n), loaded' = n
        PROVE  LInv'
    <3>1. Len(entries') = n /\ n \in Nat
      BY <2>2, LoadedIs
    <3> QED BY <2>1, <2>2, <3>1, NothingCounted DEF LInv
  <2>3. CASE UNCHANGED <<pc, memory, loaded>>
    BY <2>1, <2>3 DEF LInv, memory
  <2> QED BY <1>1, <2>2, <2>3 DEF Start
<1>2. CASE Kill \/ Crash
  BY <1>2 DEF Kill, Crash, Stop, LInv
<1>3. CASE \E r \in Requests : Arrive(r)
  BY <1>3 DEF Arrive, memory, sent, LInv
<1>4. CASE \E k \in DOMAIN entries : Watch(k)
  <2>1. PICK k \in DOMAIN entries : Watch(k)
    BY <1>4
  <2>2. pc = "select" /\ pc' = pc /\ answers' = answers /\ loaded' = loaded
    BY <2>1 DEF Watch, sent
  <2>3. entries' = Replaced(k, [entries[k] EXCEPT !.watched = TRUE])
    BY <2>1 DEF Watch, Replaced
  <2>4. Len(entries') = Len(entries)
    BY <2>3 DEF Replaced, IInv
  <2> QED BY <2>2, <2>4 DEF LInv
<1>5. CASE Read
  BY <1>5 DEF Read, LInv, sent
<1>6. CASE Dispatched
  BY <1>6, DispatchedBalances
<1>7. CASE UNCHANGED vars
  BY <1>7 DEF LInv, vars, memory, sent
<1> QED BY <1>1, <1>2, <1>3, <1>4, <1>5, <1>6, <1>7 DEF Next, Environment

\* Where no request carries the code of an answer, the directory has the rows that
\* were read at the start, one entry for each registration that was confirmed, and one less for
\* each removal that was (every confirmation is sent twice).
THEOREM LedgerTheorem ==
  ASSUME NoResponses
  PROVE  Spec => []Ledger
<1>1. LInv => Ledger
  <2>1. \A code : Answered(code) = Coded(answers, code)
    BY DEF Answered, Coded
  <2> QED BY <2>1 DEF LInv, Ledger, Count
<1>2. IInv /\ LInv /\ [Next]_vars => LInv'
  BY LInvKeeps
<1> QED BY Invariance, LInvInit, <1>1, <1>2, PTL DEF Spec

----------------------------------------------------------------------------
(* Bags of what a list registers.                                          *)

\* The bag of a sequence counts its places.
LEMMA BagIs ==
  ASSUME NEW s, NEW n \in Nat, DOMAIN s = 1..n
  PROVE  /\ DOMAIN ToBag(s) = {s[i] : i \in 1..n}
         /\ \A x \in DOMAIN ToBag(s) :
              /\ ToBag(s)[x] = Cardinality(Places(s, n, x))
              /\ ToBag(s)[x] \in Nat \ {0}
         /\ \A x : x \notin DOMAIN ToBag(s) => Cardinality(Places(s, n, x)) = 0
         /\ ToBag(s) = [x \in DOMAIN ToBag(s) |-> ToBag(s)[x]]
<1> DEFINE values == {s[i] : i \in 1..n}
<1>1. ToBag(s) = [x \in values |-> Cardinality(Places(s, n, x))]
  BY DEF ToBag, Range, Places
<1>2. ASSUME NEW x \in values
      PROVE  Cardinality(Places(s, n, x)) \in Nat \ {0}
  <2>1. Places(s, n, x) # {}
    BY DEF Places
  <2>2. IsFiniteSet(Places(s, n, x)) /\ Cardinality(Places(s, n, x)) \in Nat
    BY PlacesFinite
  <2> QED BY <2>1, <2>2, FS_EmptySet
<1>3. ASSUME NEW x, x \notin values
      PROVE  Cardinality(Places(s, n, x)) = 0
  <2>1. Places(s, n, x) = {}
    BY <1>3 DEF Places
  <2> QED BY <2>1, FS_EmptySet
<1> HIDE DEF values
<1>4. DOMAIN ToBag(s) = values
  BY <1>1
<1> QED BY <1>1, <1>2, <1>3, <1>4 DEF values

\* A value more in the sequence is one more in the bag, wherever it stands.
LEMMA BagOneMore ==
  ASSUME NEW s, NEW n \in Nat, DOMAIN s = 1..n, NEW t, DOMAIN t = 1..(n + 1),
         NEW p \in 1..(n + 1), OneMore(s, n, t, p), NEW e, e = t[p]
  PROVE  ToBag(t) = D!BagAdd(ToBag(s), e)
<1> DEFINE B == ToBag(s)
           C == ToBag(t)
<1>1. /\ DOMAIN B = {s[i] : i \in 1..n}
      /\ \A x \in DOMAIN B : B[x] = Cardinality(Places(s, n, x)) /\ B[x] \in Nat \ {0}
      /\ \A x : x \notin DOMAIN B => Cardinality(Places(s, n, x)) = 0
  BY BagIs
<1>2. /\ DOMAIN C = {t[i] : i \in 1..(n + 1)}
      /\ \A x \in DOMAIN C : C[x] = Cardinality(Places(t, n + 1, x))
      /\ C = [x \in DOMAIN C |-> C[x]]
  <2>1. n + 1 \in Nat
    OBVIOUS
  <2> HIDE DEF C
  <2> QED BY ZenonT(40), <2>1, BagIs DEF C
<1> HIDE DEF B, C
<1>3. DOMAIN C = DOMAIN B \cup {e}
  <2>1. \A i \in 1..n : s[i] \in {t[j] : j \in 1..(n + 1)}
    <3> SUFFICES ASSUME NEW i \in 1..n
                 PROVE  \E j \in 1..(n + 1) : t[j] = s[i]
      OBVIOUS
    <3>1. CASE i < p
      BY <3>1 DEF OneMore
    <3>2. CASE i >= p
      <4>1. i + 1 \in 1..(n + 1) /\ t[i + 1] = s[i]
        BY <3>2 DEF OneMore
      <4> QED BY <4>1
    <3> QED BY <3>1, <3>2
  <2>2. ASSUME NEW j \in 1..(n + 1), j # p
        PROVE  \E i \in 1..n : s[i] = t[j]
    <3>1. CASE j < p
      <4>1. j \in 1..n /\ t[j] = s[j]
        BY <3>1 DEF OneMore
      <4> QED BY <4>1
    <3>2. CASE j > p
      <4>1. j - 1 \in 1..n /\ j - 1 >= p /\ (j - 1) + 1 = j
        BY <3>2
      <4>2. t[j] = s[j - 1]
        BY <4>1 DEF OneMore
      <4> QED BY <4>1, <4>2
    <3> QED BY <2>2, <3>1, <3>2
  <2> QED BY <1>1, <1>2, <2>1, <2>2
<1>4. ASSUME NEW x
      PROVE  /\ x = e => Cardinality(Places(t, n + 1, x))
                           = Cardinality(Places(s, n, x)) + 1
             /\ x # e => Cardinality(Places(t, n + 1, x))
                           = Cardinality(Places(s, n, x))
  <2>1. Cardinality(Places(s, n, x)) \in Nat
    BY PlacesFinite
  <2> QED BY <2>1, CountOneMore
<1>5. CASE e \in DOMAIN B
  <2>1. DOMAIN C = DOMAIN B
    BY <1>3, <1>5
  <2>2. \A x \in DOMAIN B : C[x] = IF x = e THEN B[x] + 1 ELSE B[x]
    BY <1>1, <1>2, <1>4, <2>1
  <2> QED BY <1>2, <1>5, <2>1, <2>2 DEF D!BagAdd, B, C
<1>6. CASE e \notin DOMAIN B
  <2>1. \A x \in DOMAIN C : C[x] = IF x = e THEN 1 ELSE B[x]
    <3> SUFFICES ASSUME NEW x \in DOMAIN C
                 PROVE  C[x] = IF x = e THEN 1 ELSE B[x]
      OBVIOUS
    <3>1. CASE x = e
      <4>1. Cardinality(Places(s, n, x)) = 0
        BY <1>1, <1>6, <3>1
      <4> QED BY <1>2, <1>4, <3>1, <4>1
    <3>2. CASE x # e
      <4>1. x \in DOMAIN B
        BY <1>3, <3>2
      <4> QED BY <1>1, <1>2, <1>4, <3>2, <4>1
    <3> QED BY <3>1, <3>2
  <2> QED BY SMTT(40), <1>2, <1>3, <1>6, <2>1 DEF D!BagAdd, B, C
<1> QED BY <1>5, <1>6

\* What is added to a bag can be taken out again.
LEMMA RemoveAdded ==
  ASSUME NEW B, B = [x \in DOMAIN B |-> B[x]],
         \A x \in DOMAIN B : B[x] \in Nat \ {0}, NEW e
  PROVE  /\ e \in DOMAIN D!BagAdd(B, e)
         /\ D!BagRemove(D!BagAdd(B, e), e) = B
<1> DEFINE C == D!BagAdd(B, e)
<1>1. CASE e \in DOMAIN B
  <2>1. C = [x \in DOMAIN B |-> IF x = e THEN B[x] + 1 ELSE B[x]]
    BY <1>1 DEF D!BagAdd
  <2> HIDE DEF C
  <2>2. DOMAIN C = DOMAIN B /\ C[e] # 1
    BY <1>1, <2>1
  <2>3. D!BagRemove(C, e) = [x \in DOMAIN B |-> IF x = e THEN C[x] - 1 ELSE C[x]]
    BY <1>1, <2>2 DEF D!BagRemove
  <2>4. \A x \in DOMAIN B : (IF x = e THEN C[x] - 1 ELSE C[x]) = B[x]
    BY <2>1
  <2> QED BY <1>1, <2>2, <2>3, <2>4 DEF C
<1>2. CASE e \notin DOMAIN B
  <2>1. C = [x \in DOMAIN B \cup {e} |-> IF x = e THEN 1 ELSE B[x]]
    BY <1>2 DEF D!BagAdd
  <2> HIDE DEF C
  <2>2. e \in DOMAIN C /\ C[e] = 1 /\ DOMAIN C \ {e} = DOMAIN B
    BY <1>2, <2>1
  <2>3. D!BagRemove(C, e) = [x \in DOMAIN B |-> C[x]]
    BY <2>2 DEF D!BagRemove
  <2>4. \A x \in DOMAIN B : C[x] = B[x]
    BY <1>2, <2>1
  <2> QED BY <2>2, <2>3, <2>4 DEF C
<1> QED BY <1>1, <1>2

\* What the entries of a list register.
Listed(list) == [k \in DOMAIN list |-> Told(list[k])]
BagOf(list) == ToBag(Listed(list))

\* The k-th registration is that of the k-th entry.
LEMMA ListedIs ==
  ASSUME NEW list \in Seq(Entry)
  PROVE  /\ Len(list) \in Nat /\ DOMAIN list = 1..Len(list)
         /\ DOMAIN Listed(list) = 1..Len(list)
         /\ \A k \in 1..Len(list) : Listed(list)[k] = Told(list[k])
BY DEF Listed

\* A registration is one more (coap_list_node_insert).
LEMMA BagInserted ==
  ASSUME NEW list \in Seq(Entry), NEW e \in Entry
  PROVE  BagOf(NodeInsert(list, e)) = D!BagAdd(BagOf(list), Told(e))
<1> DEFINE new == NodeInsert(list, e)
           n == Len(list)
           p == IF n = 0 THEN 1 ELSE 2
           s == Listed(list)
           t == Listed(new)
<1>1. /\ new \in Seq(Entry) /\ Len(new) = n + 1
      /\ n = 0 => new[1] = e
      /\ n # 0 => new[1] = list[1] /\ new[2] = e
      /\ \A j \in 3..(n + 1) : new[j] = list[j - 1]
  BY ZenonT(40), NodeInsertLength, NodeInsertHead, NodeInsertRest
<1> HIDE DEF new
<1>2. /\ n \in Nat /\ DOMAIN s = 1..n /\ DOMAIN t = 1..(n + 1)
      /\ \A k \in 1..n : s[k] = Told(list[k])
      /\ \A k \in 1..(n + 1) : t[k] = Told(new[k])
  BY <1>1, ListedIs
<1> HIDE DEF n, s, t
<1>3. p \in 1..(n + 1) /\ t[p] = Told(e)
  BY <1>1, <1>2
<1>4. OneMore(s, n, t, p)
  <2> SUFFICES ASSUME NEW i \in 1..n
               PROVE  /\ i < p => t[i] = s[i]
                      /\ i >= p => t[i + 1] = s[i]
    BY DEF OneMore
  <2>1. CASE i = 1
    BY <1>1, <1>2, <2>1
  <2>2. CASE i # 1
    <3>1. i + 1 \in 3..(n + 1) /\ i + 1 \in 1..(n + 1) /\ (i + 1) - 1 = i
          /\ i >= p /\ ~(i < p)
      BY <1>2, <2>2
    <3>2. new[i + 1] = list[i]
      BY <1>1, <3>1
    <3> QED BY <1>2, <3>1, <3>2
  <2> QED BY <2>1, <2>2
<1> HIDE DEF p
<1>5. ToBag(t) = D!BagAdd(ToBag(s), Told(e))
  BY <1>2, <1>3, <1>4, BagOneMore
<1> QED BY <1>5 DEF BagOf, s, t, new

\* Any sequence that differs from the rest by one value at k has one more.
LEMMA BagAround ==
  ASSUME NEW list \in Seq(Entry), NEW k \in DOMAIN list,
         NEW other \in Seq(Entry), Len(other) = Len(list),
         \A j \in DOMAIN list : j # k => other[j] = list[j]
  PROVE  BagOf(other) = D!BagAdd(BagOf(Without(list, k)), Told(other[k]))
<1> DEFINE rest == Without(list, k)
           n == Len(list) - 1
           s == Listed(rest)
           t == Listed(other)
<1>1. /\ rest \in Seq(Entry) /\ Len(rest) = n
      /\ \A j \in 1..n : rest[j] = IF j < k THEN list[j] ELSE list[j + 1]
  BY WithoutElements
<1> HIDE DEF rest
<1>2. /\ DOMAIN list = 1..(n + 1) /\ n \in Nat /\ k \in 1..(n + 1)
      /\ Len(other) = n + 1
  OBVIOUS
<1> HIDE DEF n
<1>3. /\ DOMAIN s = 1..n /\ DOMAIN t = 1..(n + 1)
      /\ \A j \in 1..n : s[j] = Told(rest[j])
      /\ \A j \in 1..(n + 1) : t[j] = Told(other[j])
  BY <1>1, <1>2, ListedIs
<1> HIDE DEF s, t
<1>4. OneMore(s, n, t, k)
  <2> SUFFICES ASSUME NEW i \in 1..n
               PROVE  /\ i < k => t[i] = s[i]
                      /\ i >= k => t[i + 1] = s[i]
    BY DEF OneMore
  <2>1. CASE i < k
    <3>1. i \in 1..(n + 1) /\ i # k /\ ~(i >= k)
      BY <1>2, <2>1
    <3> QED BY <1>1, <1>2, <1>3, <2>1, <3>1
  <2>2. CASE i >= k
    <3>1. i + 1 \in 1..(n + 1) /\ i + 1 # k /\ ~(i < k)
      BY <1>2, <2>2
    <3> QED BY SMTT(40), <1>1, <1>2, <1>3, <2>2, <3>1
  <2> QED BY <1>2, <2>1, <2>2
<1>5. ToBag(t) = D!BagAdd(ToBag(s), Told(other[k]))
  BY <1>2, <1>3, <1>4, BagOneMore
<1> QED BY <1>5 DEF BagOf, s, t, rest

\* A removal is one less.
LEMMA BagWithout ==
  ASSUME NEW list \in Seq(Entry), NEW k \in DOMAIN list
  PROVE  /\ Told(list[k]) \in DOMAIN BagOf(list)
         /\ BagOf(Without(list, k)) = D!BagRemove(BagOf(list), Told(list[k]))
<1> DEFINE rest == Without(list, k)
           B == BagOf(rest)
<1>1. BagOf(list) = D!BagAdd(B, Told(list[k]))
  BY BagAround
<1>2. rest \in Seq(Entry)
  BY WithoutElements
<1> HIDE DEF rest
<1>3. B = [x \in DOMAIN B |-> B[x]] /\ \A x \in DOMAIN B : B[x] \in Nat \ {0}
  BY <1>2, ListedIs, BagIs DEF BagOf
<1> HIDE DEF B
<1> QED BY <1>1, <1>3, RemoveAdded DEF B, rest

\* A change is one less and one more.
LEMMA BagReplaced ==
  ASSUME NEW list \in Seq(Entry), NEW k \in DOMAIN list, NEW e \in Entry
  PROVE  LET other == [list EXCEPT ![k] = e]
         IN  /\ Told(e) \in DOMAIN BagOf(other)
             /\ BagOf(other)
                  = D!BagAdd(D!BagRemove(BagOf(list), Told(list[k])), Told(e))
<1> DEFINE other == [list EXCEPT ![k] = e]
<1>1. /\ other \in Seq(Entry) /\ Len(other) = Len(list) /\ other[k] = e
      /\ \A j \in DOMAIN list : j # k => other[j] = list[j]
      /\ k \in DOMAIN other
  OBVIOUS
<1> HIDE DEF other
<1>2. BagOf(other) = D!BagAdd(BagOf(Without(list, k)), Told(e))
  BY <1>1, BagAround
<1>3. Told(e) \in DOMAIN BagOf(other)
  BY <1>1, BagWithout
<1> QED BY <1>2, <1>3, BagWithout DEF other

\* The entries the process starts with are the rows it has read, in another order.
LEMMA BagLoaded ==
  ASSUME NEW n \in Reads
  PROVE  BagOf(Loaded(n)) = ToBag([i \in 1..n |-> Told(NewEntry(Rows[i].dir))])
<1> DEFINE f == [i \in 1..n |-> Told(NewEntry(Rows[i].dir))]
           g == Listed(Loaded(n))
<1>1. n \in Nat
  BY LoadedIs
<1>2. \A i \in 1..n : Place(n, i) \in 1..n /\ Place(n, Place(n, i)) = i
  BY <1>1 DEF Place
<1>3. DOMAIN f = 1..n /\ DOMAIN g = 1..n /\ \A i \in 1..n : g[i] = f[Place(n, i)]
  BY <1>1, <1>2 DEF Listed, Loaded
<1> HIDE DEF f, g
<1>4. {g[i] : i \in 1..n} = {f[i] : i \in 1..n}
  <2>1. \A i \in 1..n : g[i] = f[Place(n, i)] /\ f[i] = g[Place(n, i)]
    BY <1>2, <1>3
  <2> QED BY <1>2, <2>1
<1>5. ASSUME NEW x
      PROVE  Cardinality(Places(g, n, x)) = Cardinality(Places(f, n, x))
  <2> DEFINE move == [i \in Places(g, n, x) |-> Place(n, i)]
  <2>1. move \in [Places(g, n, x) -> Places(f, n, x)]
    BY <1>2, <1>3 DEF Places
  <2>2. \A a, b \in Places(g, n, x) : move[a] = move[b] => a = b
    BY <1>2 DEF Places
  <2>3. \A j \in Places(f, n, x) : \E i \in Places(g, n, x) : move[i] = j
    <3> SUFFICES ASSUME NEW j \in Places(f, n, x)
                 PROVE  Place(n, j) \in Places(g, n, x) /\ move[Place(n, j)] = j
      OBVIOUS
    <3>1. j \in 1..n /\ f[j] = x
      BY DEF Places
    <3>2. Place(n, j) \in Places(g, n, x)
      BY <1>2, <1>3, <3>1 DEF Places
    <3> QED BY <1>2, <3>1, <3>2
  <2>4. move \in Bijection(Places(g, n, x), Places(f, n, x))
    BY <2>1, <2>2, <2>3, Fun_IsBij
  <2>5. ExistsBijection(Places(g, n, x), Places(f, n, x))
    BY <2>4 DEF ExistsBijection
  <2>6. IsFiniteSet(Places(g, n, x))
    BY <1>1, PlacesFinite
  <2> QED BY <2>5, <2>6, FS_Bijection
<1>6. /\ ToBag(f) = [x \in {f[i] : i \in 1..n} |-> Cardinality(Places(f, n, x))]
      /\ ToBag(g) = [x \in {g[i] : i \in 1..n} |-> Cardinality(Places(g, n, x))]
  BY <1>3 DEF ToBag, Range, Places
<1>7. ToBag(f) = ToBag(g)
  BY <1>4, <1>5, <1>6
<1> QED BY <1>7 DEF BagOf, f, g

----------------------------------------------------------------------------
(* The step of Directory that each step of the server is.                  *)

\* How often the clients were told, as the mapping has it.
Tolds(list) == [code \in {"2.01", "2.02"} |-> Count(list, code)]

\* Two answers of a code are what Directory calls telling.
LEMMA TellsTell ==
  ASSUME NEW code \in {"2.01", "2.02"}, Tells(code)
  PROVE  D!Tell(code)
<1>1. Tolds(answers') = [Tolds(answers) EXCEPT ![code] = @ + 2]
  BY DEF Tells, Tolds
<1> QED BY <1>1 DEF D!Tell, Tolds, Count, Coded, Answered

\* Where the counts stay nobody is told.
LEMMA QuietTells ==
  ASSUME Quiet
  PROVE  [code \in {"2.01", "2.02"} |-> Cardinality(Answered(code))]'
           = [code \in {"2.01", "2.02"} |-> Cardinality(Answered(code))]
BY DEF Quiet, Count, Coded, Answered

\* A turn of the loop is a step of Directory, or none of its business.
LEMMA DispatchedMaps ==
  ASSUME IInv, NoResponses, Dispatched
  PROVE  [D!Next]_(D!vars)
<1>1. /\ pc = "dispatch" /\ pc' = "select"
      /\ Registers \/ Removes \/ Changes \/ Leaves
  BY DispatchedTells
<1>2. entries \in Seq(Entry)
  BY DEF IInv
<1>3. CASE Registers
  <2>1. PICK e \in Entry : entries' = NodeInsert(entries, e)
    BY <1>3 DEF Registers
  <2>2. BagOf(entries') = D!BagAdd(BagOf(entries), Told(e))
    BY <1>2, <2>1, BagInserted
  <2>3. Told(e) \in DOMAIN BagOf(entries')
    <3> DEFINE B == BagOf(entries)
    <3>1. B = [x \in DOMAIN B |-> B[x]] /\ \A x \in DOMAIN B : B[x] \in Nat \ {0}
      BY <1>2, ListedIs, BagIs DEF BagOf
    <3> HIDE DEF B
    <3>2. Told(e) \in DOMAIN D!BagAdd(B, Told(e))
      BY <3>1, RemoveAdded
    <3> QED BY <2>2, <3>2 DEF B
  <2>4. D!Tell("2.01")
    BY <1>3, TellsTell DEF Registers
  <2>5. D!Register
    BY <1>1, <2>2, <2>3, <2>4 DEF D!Register, BagOf, Listed
  <2> QED BY <2>5 DEF D!Next
<1>4. CASE Removes
  <2>1. PICK k \in DOMAIN entries : entries' = Without(entries, k)
    BY <1>4 DEF Removes
  <2>2. /\ Told(entries[k]) \in DOMAIN BagOf(entries)
        /\ BagOf(entries') = D!BagRemove(BagOf(entries), Told(entries[k]))
    BY <1>2, <2>1, BagWithout
  <2>3. D!Tell("2.02")
    BY <1>4, TellsTell DEF Removes
  <2>4. D!Remove
    BY <1>1, <2>2, <2>3 DEF D!Remove, BagOf, Listed
  <2> QED BY <2>4 DEF D!Next
<1>5. CASE Changes
  <2>1. PICK k \in DOMAIN entries, e \in Entry :
          entries' = Replaced(k, e) /\ e.key = entries[k].key
    BY <1>5 DEF Changes
  <2> DEFINE old == Told(entries[k])
             new == Told(e)
  <2>2. /\ new \in DOMAIN BagOf(entries')
        /\ BagOf(entries') = D!BagAdd(D!BagRemove(BagOf(entries), old), new)
    BY <1>2, <2>1, BagReplaced DEF Replaced
  <2>3. old \in DOMAIN BagOf(entries)
    BY <1>2, BagWithout
  <2>4. new.name = old.name
    BY <2>1 DEF Told
  <2>5. UNCHANGED [code \in {"2.01", "2.02"} |-> Cardinality(Answered(code))]
    BY <1>5, QuietTells DEF Changes
  <2> HIDE DEF old, new
  <2>6. D!Update
    BY <1>1, <2>2, <2>3, <2>4, <2>5 DEF D!Update, BagOf, Listed
  <2> QED BY <2>6 DEF D!Next
<1>6. CASE Leaves
  <2>1. UNCHANGED [code \in {"2.01", "2.02"} |-> Cardinality(Answered(code))]
    BY <1>6, QuietTells DEF Leaves
  <2>2. entries' = entries
    BY <1>6 DEF Leaves
  <2> QED BY <1>1, <2>1, <2>2 DEF D!vars
<1> QED BY <1>1, <1>3, <1>4, <1>5, <1>6

\* A stopped process lists nothing.
LEMMA NothingListed == D!Empty = ToBag([k \in DOMAIN <<>> |-> Told(<<>>[k])])
BY DEF D!Empty, ToBag, Range

\* Where nothing was sent nobody was told.
LEMMA NothingTold ==
  [code \in {"2.01", "2.02"} |-> Cardinality({i \in DOMAIN <<>> : <<>>[i].code = code})]
    = D!Nothing
<1>1. \A code : {i \in DOMAIN <<>> : <<>>[i].code = code} = {}
  OBVIOUS
<1> QED BY <1>1, FS_EmptySet DEF D!Nothing

\* context_create opens the directory with the rows it reads.
LEMMA StartMaps ==
  ASSUME LInv, Start
  PROVE  [D!Next]_(D!vars)
<1>1. pc = "down" /\ answers' = answers /\ answers = <<>>
  BY DEF Start, sent, LInv
<1>2. ASSUME NEW n \in Reads, pc' = "select", entries' = Loaded(n)
      PROVE  [D!Next]_(D!vars)
  <2>1. BagOf(entries') = ToBag([i \in 1..n |-> Told(NewEntry(Rows[i].dir))])
    BY <1>2, BagLoaded
  <2>2. [code \in {"2.01", "2.02"} |-> Cardinality(Answered(code))]' = D!Nothing
    BY <1>1, NothingTold DEF Answered
  <2>3. D!Open
    BY <1>1, <1>2, <2>1, <2>2 DEF D!Open, BagOf, Listed
  <2> QED BY <2>3 DEF D!Next
<1>3. CASE UNCHANGED <<pc, memory, loaded>>
  BY <1>1, <1>3 DEF memory, D!vars, Answered
<1> QED BY <1>2, <1>3 DEF Start, NewServer

\* The end of the process closes it.
LEMMA StopMaps ==
  ASSUME Kill \/ Crash
  PROVE  [D!Next]_(D!vars)
<1>1. pc # "down" /\ pc' = "down" /\ entries' = <<>> /\ answers' = <<>>
  BY DEF Kill, Crash, IsServed, ForAnother, IsRequest, Stop
<1>2. ToBag([k \in DOMAIN entries |-> Told(entries[k])])' = D!Empty
  BY <1>1, NothingListed
<1>3. [code \in {"2.01", "2.02"} |-> Cardinality(Answered(code))]' = D!Nothing
  BY <1>1, NothingTold DEF Answered
<1>4. D!Close
  BY <1>1, <1>2, <1>3 DEF D!Close
<1> QED BY <1>4 DEF D!Next

\* Browsers and datagrams that come are none of its business.
LEMMA EnvironmentMaps ==
  ASSUME IInv, \/ \E r \in Requests : Arrive(r)
               \/ \E k \in DOMAIN entries : Watch(k)
               \/ Read
               \/ UNCHANGED vars
  PROVE  UNCHANGED D!vars
<1>1. CASE \E k \in DOMAIN entries : Watch(k)
  <2>1. PICK k \in DOMAIN entries : Watch(k)
    BY <1>1
  <2>2. pc' = pc /\ answers' = answers
    BY <2>1 DEF Watch, sent
  <2>3. entries' = [entries EXCEPT ![k] = [entries[k] EXCEPT !.watched = TRUE]]
    BY <2>1 DEF Watch
  <2>4. entries \in Seq(Entry) /\ entries[k] \in Entry
    BY DEF IInv
  <2>5. Told([entries[k] EXCEPT !.watched = TRUE]) = Told(entries[k])
    BY <2>4 DEF Entry, Told
  <2>6. DOMAIN entries' = DOMAIN entries
        /\ \A j \in DOMAIN entries : Told(entries'[j]) = Told(entries[j])
    BY <2>3, <2>4, <2>5
  <2>7. [j \in DOMAIN entries |-> Told(entries[j])]' = [j \in DOMAIN entries |-> Told(entries[j])]
    BY <2>6
  <2> QED BY <2>2, <2>7 DEF D!vars, Answered
<1>2. CASE \E r \in Requests : Arrive(r)
  BY <1>2 DEF Arrive, memory, sent, D!vars, Answered
<1>3. CASE Read
  <2>1. pc = "select" /\ pc' = "dispatch" /\ entries' = entries /\ answers' = answers
    BY <1>3 DEF Read, sent
  <2> QED BY <2>1 DEF D!vars, Answered
<1>4. CASE UNCHANGED vars
  BY <1>4 DEF vars, memory, sent, D!vars, Answered
<1> QED BY <1>1, <1>2, <1>3, <1>4

\* Before the first start the directory is closed and empty.
LEMMA InitMaps == Init => D!Init
<1> SUFFICES ASSUME Init PROVE D!Init
  OBVIOUS
<1>1. pc = "down" /\ entries = <<>> /\ answers = <<>>
  BY DEF Init
<1>2. ToBag([k \in DOMAIN entries |-> Told(entries[k])]) = D!Empty
  BY <1>1, NothingListed
<1>3. [code \in {"2.01", "2.02"} |-> Cardinality(Answered(code))] = D!Nothing
  BY <1>1, NothingTold DEF Answered
<1> QED BY <1>1, <1>2, <1>3 DEF D!Init

\* Every step of the server is one of Directory, or none of its business.
LEMMA StepMaps ==
  ASSUME NoResponses
  PROVE  IInv /\ LInv /\ [Next]_vars => [D!Next]_(D!vars)
<1> SUFFICES ASSUME IInv, LInv, [Next]_vars PROVE [D!Next]_(D!vars)
  OBVIOUS
<1>1. CASE Start
  BY <1>1, StartMaps
<1>2. CASE Kill \/ Crash
  BY <1>2, StopMaps
<1>3. CASE \/ \E r \in Requests : Arrive(r)
           \/ \E k \in DOMAIN entries : Watch(k)
           \/ Read
           \/ UNCHANGED vars
  BY <1>3, EnvironmentMaps
<1>4. CASE Dispatched
  BY <1>4, DispatchedMaps
<1> QED BY <1>1, <1>2, <1>3, <1>4 DEF Next, Environment

\* Where no request carries the code of an answer, the server implements
\* Directory: its clients are told twice of each registration that comes and of
\* each that goes, in the step in which the list changes; a change keeps the
\* name; whatever else is read, dispatched, watched or forwarded leaves the
\* registrations and what was told of them alone; and a process that starts
\* again lists the rows that it has read of the table, from none to all of them.
THEOREM Refinement ==
  ASSUME NoResponses
  PROVE  Spec => ImplementsDirectory
<1>1. IInv /\ LInv /\ [Next]_vars => LInv' /\ [D!Next]_(D!vars)
  BY LInvKeeps, StepMaps
<1> QED BY Invariance, InitMaps, LInvInit, <1>1, PTL
        DEF Spec, ImplementsDirectory, D!Spec
=============================================================================
