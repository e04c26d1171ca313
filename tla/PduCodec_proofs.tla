--------------------------- MODULE PduCodec_proofs ---------------------------
(***************************************************************************)
(* Proofs about PduCodec, for all codes, contents, packets and methods,    *)
(* and for any number of options and packets.                              *)
(***************************************************************************)
EXTENDS PduCodec, CoapList_proofs

-----------------------------------------------------------------------------
(* The inductive invariant.                                                *)

\* Every option is filed under its own code.
Filed(m) == \A i \in DOMAIN m.opts : m.opts[i].key = OptionKey(m.opts[i].code)

\* What holds of a message, and what holds of the state.
Sound(m) == m \in Message /\ Kept(m) /\ Filed(m)
IInv == TypeOK /\ Sound(out) /\ Sound(in)

-----------------------------------------------------------------------------
(* Option lists.                                                           *)

\* Keys of different codes differ in their first byte.
LEMMA KeysDiffer ==
  ASSUME NEW a \in Char, NEW b \in Char
  PROVE  /\ StrNEq(OptionKey(a), OptionKey(b), 1) <=> a = b
         /\ OptionKey(a) \in Seq(Char)
<1>1. a \in Int /\ b \in Int
  BY DEF Char
<1>2. OptionKey(a) \in Seq(Char)
  BY DEF OptionKey
<1>3. StrNEq(OptionKey(a), OptionKey(b), 1) <=> a = b
  BY <1>1 DEF StrNEq, OptionKey
<1> QED BY <1>2, <1>3

\* The code of an option is a number.
LEMMA CodeIsInt ==
  ASSUME NEW o \in OptionType
  PROVE  o.code \in Char /\ o.code \in Int
<1>1. o.code \in Char
  BY DEF OptionType
<1> QED BY <1>1 DEF Char

\* A list of options in order, each under its code.
Sorted(opts) ==
  /\ opts \in Seq(OptionType)
  /\ InOrder(opts)
  /\ \A i \in DOMAIN opts : opts[i].key = OptionKey(opts[i].code)

\* Without one of its options such a list stays what it is, and the code of
\* that option is gone (coap_list_node_delete).
LEMMA WithoutSorted ==
  ASSUME NEW opts, Sorted(opts), NEW i \in DOMAIN opts
  PROVE  /\ Sorted(Without(opts, i))
         /\ Len(Without(opts, i)) = Len(opts) - 1
         /\ \A j \in DOMAIN Without(opts, i) :
              Without(opts, i)[j].code # opts[i].code
<1> DEFINE rest == Without(opts, i)
           from(j) == IF j < i THEN j ELSE j + 1
<1>1. opts \in Seq(OptionType) /\ \A j \in DOMAIN opts : opts[j].code \in Int
  <2>1. opts \in Seq(OptionType)
    BY DEF Sorted
  <2> QED BY <2>1, CodeIsInt
<1>2. /\ rest \in Seq(OptionType) /\ Len(rest) = Len(opts) - 1
      /\ \A j \in 1..(Len(opts) - 1) :
           rest[j] = IF j < i THEN opts[j] ELSE opts[j + 1]
  BY <1>1, WithoutElements
<1> HIDE DEF rest
<1>3. ASSUME NEW j \in DOMAIN rest
      PROVE  from(j) \in DOMAIN opts /\ from(j) # i /\ rest[j] = opts[from(j)]
  BY <1>1, <1>2
<1>4. InOrder(rest)
  <2>1. ASSUME NEW j \in DOMAIN rest, NEW k \in DOMAIN rest, j < k
        PROVE  rest[j].code < rest[k].code
    <3>1. from(j) < from(k)
      BY <1>1, <1>2, <2>1
    <3>2. opts[from(j)].code < opts[from(k)].code
      BY <1>3, <3>1 DEF Sorted, InOrder
    <3> QED BY <1>3, <3>2
  <2> QED BY <2>1 DEF InOrder
<1>5. \A j \in DOMAIN rest : rest[j].key = OptionKey(rest[j].code)
  BY <1>3 DEF Sorted
<1>6. ASSUME NEW j \in DOMAIN rest
      PROVE  rest[j].code # opts[i].code
  <2>1. from(j) < i \/ i < from(j)
    BY <1>1, <1>3
  <2>2. opts[from(j)].code < opts[i].code \/ opts[i].code < opts[from(j)].code
    BY <1>3, <2>1 DEF Sorted, InOrder
  <2> QED BY <1>1, <1>3, <2>2
<1> QED BY <1>2, <1>4, <1>5, <1>6 DEF Sorted, rest

\* The first option of a greater code, in front of which a new one goes.
LEMMA FirstLater ==
  ASSUME NEW opts \in Seq(OptionType), NEW o \in OptionType
  PROVE  LET later == {i \in DOMAIN opts : opts[i].code > o.code}
             at == IF later = {} THEN Len(opts) + 1
                                 ELSE CHOOSE i \in later : \A j \in later : i <= j
         IN  /\ at \in 1..(Len(opts) + 1)
             /\ \A j \in DOMAIN opts : j < at => ~(opts[j].code > o.code)
             /\ at \in DOMAIN opts => opts[at].code > o.code
<1> DEFINE later == {i \in DOMAIN opts : opts[i].code > o.code}
<1>1. CASE later = {}
  BY <1>1
<1>2. CASE later # {}
  <2>1. later \in SUBSET Nat
    OBVIOUS
  <2>2. \E i \in later : \A j \in later : i <= j
    BY <1>2, <2>1, Minimum
  <2> DEFINE at == CHOOSE i \in later : \A j \in later : i <= j
  <2>3. at \in later /\ \A j \in later : at <= j
    BY <2>2
  <2> HIDE DEF at
  <2>4. \A j \in DOMAIN opts : j < at => ~(opts[j].code > o.code)
    BY <2>3
  <2> QED BY <1>2, <2>3, <2>4 DEF at
<1> QED BY <1>1, <1>2

\* Where the elements of a list go when one is put in.
LEMMA InsertElements ==
  ASSUME NEW opts \in Seq(OptionType), NEW o \in OptionType,
         NEW at \in 1..(Len(opts) + 1)
  PROVE  /\ InsertAt(opts, at, o) \in Seq(OptionType)
         /\ Len(InsertAt(opts, at, o)) = Len(opts) + 1
         /\ \A j \in 1..(Len(opts) + 1) :
              InsertAt(opts, at, o)[j] =
                IF j < at THEN opts[j] ELSE IF j = at THEN o ELSE opts[j - 1]
<1> DEFINE front == SubSeq(opts, 1, at - 1)
           back == SubSeq(opts, at, Len(opts))
<1>1. /\ front \in Seq(OptionType) /\ Len(front) = at - 1
      /\ \A j \in 1..(at - 1) : front[j] = opts[j]
  BY SubSeqProperties
<1>2. /\ back \in Seq(OptionType) /\ Len(back) = Len(opts) - at + 1
      /\ \A j \in 1..(Len(opts) - at + 1) : back[j] = opts[at + j - 1]
  BY SubSeqProperties
<1> DEFINE most == front \o <<o>>
           new == most \o back
<1>3. InsertAt(opts, at, o) = new
  BY DEF InsertAt
<1> HIDE DEF front, back
<1>4. /\ most \in Seq(OptionType) /\ Len(most) = at
      /\ \A j \in 1..at : most[j] = IF j < at THEN front[j] ELSE o
  BY <1>1
<1> HIDE DEF most
<1>5. /\ new \in Seq(OptionType) /\ Len(new) = Len(most) + Len(back)
      /\ \A j \in 1..(Len(most) + Len(back)) :
           new[j] = IF j <= Len(most) THEN most[j] ELSE back[j - Len(most)]
  BY <1>2, <1>4, ConcatProperties
<1> HIDE DEF new
<1>6. new \in Seq(OptionType) /\ Len(new) = Len(opts) + 1
  BY <1>2, <1>4, <1>5
<1>7. ASSUME NEW j \in 1..(Len(opts) + 1)
      PROVE  new[j] = IF j < at THEN opts[j] ELSE IF j = at THEN o ELSE opts[j - 1]
  <2>1. new[j] = IF j <= at THEN most[j] ELSE back[j - at]
    BY <1>2, <1>4, <1>5
  <2>2. CASE j <= at
    BY <1>1, <1>4, <2>1, <2>2
  <2>3. CASE j > at
    <3>1. j - at \in 1..(Len(opts) - at + 1) /\ at + (j - at) - 1 = j - 1
      BY <2>3
    <3> QED BY <1>2, <2>1, <2>3, <3>1
  <2> QED BY <2>2, <2>3
<1> QED BY <1>3, <1>6, <1>7

\* Put in its place, a new code keeps the list in order
\* (coap_list_node_insert with order_option_func).
LEMMA InsertSorted ==
  ASSUME NEW opts, Sorted(opts), NEW c \in Char, NEW data \in Seq(Byte),
         \A j \in DOMAIN opts : opts[j].code # c
  PROVE  /\ Sorted(InsertInOrder(opts, Option(c, data)))
         /\ Len(InsertInOrder(opts, Option(c, data))) = Len(opts) + 1
<1> DEFINE o == Option(c, data)
           new == InsertInOrder(opts, o)
           from(j, k) == IF j < k THEN j ELSE j - 1
<1>1. o \in OptionType /\ o.code = c /\ o.key = OptionKey(c)
  BY KeysDiffer DEF Option, OptionType
<1>2. opts \in Seq(OptionType)
  BY DEF Sorted
<1>3. c \in Int /\ \A j \in DOMAIN opts : opts[j].code \in Int
  <2>1. c \in Int
    BY <1>1, CodeIsInt
  <2> QED BY <1>2, <2>1, CodeIsInt
<1> HIDE DEF o
<1>4. PICK at \in 1..(Len(opts) + 1) :
        /\ new = InsertAt(opts, at, o)
        /\ \A j \in DOMAIN opts : j < at => ~(opts[j].code > c)
        /\ at \in DOMAIN opts => opts[at].code > c
  <2> DEFINE later == {j \in DOMAIN opts : opts[j].code > o.code}
             first == IF later = {} THEN Len(opts) + 1
                      ELSE CHOOSE j \in later : \A k \in later : j <= k
  <2>1. new = InsertAt(opts, first, o)
    BY DEF InsertInOrder
  <2>2. /\ first \in 1..(Len(opts) + 1)
        /\ \A j \in DOMAIN opts : j < first => ~(opts[j].code > o.code)
        /\ first \in DOMAIN opts => opts[first].code > o.code
    BY <1>1, <1>2, FirstLater
  <2> HIDE DEF first, new
  <2>3. /\ \A j \in DOMAIN opts : j < first => ~(opts[j].code > c)
        /\ first \in DOMAIN opts => opts[first].code > c
    BY <1>1, <2>2
  <2>4. first \in 1..(Len(opts) + 1)
    BY <2>2
  <2> QED BY <2>1, <2>3, <2>4
<1>5. /\ new \in Seq(OptionType) /\ Len(new) = Len(opts) + 1
      /\ \A j \in 1..(Len(opts) + 1) :
           new[j] = IF j < at THEN opts[j] ELSE IF j = at THEN o ELSE opts[j - 1]
  <2> DEFINE r == InsertAt(opts, at, o)
  <2>1. /\ r \in Seq(OptionType) /\ Len(r) = Len(opts) + 1
        /\ \A j \in 1..(Len(opts) + 1) :
             r[j] = IF j < at THEN opts[j] ELSE IF j = at THEN o ELSE opts[j - 1]
    <3>1. o \in OptionType
      BY <1>1
    <3> HIDE DEF new
    <3> QED BY <1>2, <3>1, InsertElements
  <2>2. new = r
    BY <1>4
  <2> HIDE DEF r, new
  <2> QED BY <2>1, <2>2
<1> HIDE DEF new
<1>6. ASSUME NEW j \in DOMAIN new
      PROVE  \/ j = at /\ new[j] = o
             \/ /\ j # at /\ from(j, at) \in DOMAIN opts
                /\ new[j] = opts[from(j, at)]
  BY <1>2, <1>5
<1>7. ASSUME NEW j \in DOMAIN opts
      PROVE  IF j < at THEN opts[j].code < c ELSE opts[j].code > c
  <2>1. CASE j < at
    BY <1>3, <1>4, <2>1
  <2>2. CASE j >= at
    <3>1. at \in DOMAIN opts
      BY <1>2, <2>2
    <3>2. j = at \/ opts[at].code < opts[j].code
      BY <2>2, <3>1 DEF Sorted, InOrder
    <3> QED BY <1>3, <1>4, <2>2, <3>1, <3>2
  <2> QED BY <1>2, <2>1, <2>2
<1>8. InOrder(new)
  <2>1. ASSUME NEW j \in DOMAIN new, NEW k \in DOMAIN new, j < k
        PROVE  new[j].code < new[k].code
    <3>0. j \in Int /\ k \in Int
      BY <1>5
    <3>1. CASE j = at
      <4>1. from(k, at) \in DOMAIN opts /\ new[k] = opts[from(k, at)]
            /\ ~(from(k, at) < at)
        BY <1>6, <2>1, <3>0, <3>1
      <4> QED BY <1>1, <1>5, <1>7, <3>1, <4>1
    <3>2. CASE k = at
      <4>1. from(j, at) \in DOMAIN opts /\ new[j] = opts[from(j, at)]
            /\ from(j, at) < at
        BY <1>6, <2>1, <3>0, <3>2
      <4> QED BY <1>1, <1>5, <1>7, <3>2, <4>1
    <3>3. CASE j # at /\ k # at
      <4>1. /\ from(j, at) \in DOMAIN opts /\ new[j] = opts[from(j, at)]
            /\ from(k, at) \in DOMAIN opts /\ new[k] = opts[from(k, at)]
        BY <1>6, <3>3
      <4>2. from(j, at) < from(k, at)
        BY <2>1, <3>0, <3>3
      <4> QED BY <4>1, <4>2 DEF Sorted, InOrder
    <3> QED BY <3>1, <3>2, <3>3
  <2> QED BY <2>1 DEF InOrder
<1>9. ASSUME NEW j \in DOMAIN new
      PROVE  new[j].key = OptionKey(new[j].code)
  BY <1>1, <1>6 DEF Sorted
<1> QED BY <1>5, <1>8, <1>9 DEF Sorted, new, o

-----------------------------------------------------------------------------
(* Messages.                                                               *)

\* A sound message, taken apart.
LEMMA SoundOpts ==
  ASSUME NEW m \in Message
  PROVE  Sound(m) <=> Sorted(m.opts) /\ m.optcnt = Len(m.opts)
<1>1. m.opts \in Seq(OptionType)
  BY DEF Message
<1> QED BY <1>1 DEF Sound, Kept, Filed, Sorted

\* The message of coap_pdu_create is sound.
LEMMA BlankSound == Sound(Blank)
<1>1. Blank \in Message
  BY DEF Blank, Message, Byte, Uint16
<1>2. Blank.opts = <<>> /\ Blank.optcnt = 0
  BY DEF Blank
<1>3. Sorted(<<>>)
  BY DEF Sorted, InOrder
<1> QED BY <1>1, <1>2, <1>3, SoundOpts

\* After coap_pdu_option_unset a sound message is one without that option.
LEMMA UnsetSound ==
  ASSUME NEW m, Sound(m), NEW c \in Char
  PROVE  /\ Sound(OptionUnset(m, c))
         /\ \A j \in DOMAIN OptionUnset(m, c).opts :
              OptionUnset(m, c).opts[j].code # c
<1> DEFINE i == NodeGet(m.opts, OptionKey(c), 1)
           n == OptionUnset(m, c)
<1>1. m \in Message /\ m.opts \in Seq(OptionType)
      /\ Sorted(m.opts) /\ m.optcnt = Len(m.opts)
  <2>1. m \in Message
    BY DEF Sound
  <2>2. m.opts \in Seq(OptionType)
    BY <2>1 DEF Message
  <2> QED BY <2>1, <2>2, SoundOpts
<1>2. \A j \in DOMAIN m.opts :
        StrNEq(m.opts[j].key, OptionKey(c), 1) <=> m.opts[j].code = c
  <2>1. ASSUME NEW j \in DOMAIN m.opts
        PROVE  m.opts[j].code \in Char /\ m.opts[j].key = OptionKey(m.opts[j].code)
    <3>1. m.opts[j] \in OptionType
      BY <1>1
    <3> QED BY <1>1, <3>1 DEF OptionType, Sorted
  <2> QED BY <2>1, KeysDiffer
<1>3. \/ i = 0 /\ \A j \in DOMAIN m.opts : m.opts[j].code # c
      \/ i \in DOMAIN m.opts /\ m.opts[i].code = c
  BY <1>1, <1>2, NodeGetFinds
<1> HIDE DEF i
<1>4. CASE i = 0
  <2>1. n = m
    BY <1>4 DEF OptionUnset, i
  <2>2. \A j \in DOMAIN m.opts : m.opts[j].code # c
    BY <1>1, <1>3, <1>4
  <2> QED BY <2>1, <2>2
<1>5. CASE i \in DOMAIN m.opts /\ m.opts[i].code = c
  <2> DEFINE rest == Without(m.opts, i)
  <2>1. /\ Sorted(rest) /\ Len(rest) = Len(m.opts) - 1
        /\ \A j \in DOMAIN rest : rest[j].code # c
    BY <1>1, <1>5, WithoutSorted
  <2>2. i # 0 /\ Len(m.opts) \in Nat /\ Len(m.opts) > 0
    BY <1>1, <1>5
  <2>3. NodeDelete(m.opts, OptionKey(c), 1) = rest
    BY <2>2 DEF NodeDelete, i
  <2> HIDE DEF rest
  <2>4. n = [m EXCEPT !.opts = rest, !.optcnt = Len(m.opts) - 1]
    BY <1>1, <2>2, <2>3 DEF OptionUnset, i
  <2>5. rest \in Seq(OptionType) /\ Len(m.opts) - 1 \in Nat
    BY <2>1, <2>2 DEF Sorted
  <2> HIDE DEF n
  <2>6. n \in Message /\ n.opts = rest /\ n.optcnt = Len(m.opts) - 1
    BY <1>1, <2>4, <2>5 DEF Message
  <2>7. Sound(n)
    BY <2>1, <2>6, SoundOpts
  <2> QED BY <2>1, <2>6, <2>7 DEF n
<1> QED BY <1>3, <1>4, <1>5

\* coap_pdu_option_insert keeps a message sound.
LEMMA InsertSound ==
  ASSUME NEW m, Sound(m), NEW c \in Char, NEW data \in Seq(Byte)
  PROVE  Sound(OptionInsert(m, c, data))
<1> DEFINE n == OptionUnset(m, c)
           new == InsertInOrder(n.opts, Option(c, data))
           r == OptionInsert(m, c, data)
<1>1. Sound(n) /\ \A j \in DOMAIN n.opts : n.opts[j].code # c
  BY UnsetSound
<1>2. r = [n EXCEPT !.opts = new, !.optcnt = n.optcnt + 1]
  BY DEF OptionInsert
<1> HIDE DEF n, r
<1>3. n \in Message /\ Sorted(n.opts) /\ n.optcnt = Len(n.opts)
  BY <1>1, SoundOpts DEF Sound
<1>4. Sorted(new) /\ Len(new) = Len(n.opts) + 1
  BY <1>1, <1>3, InsertSorted
<1> HIDE DEF new
<1>5. new \in Seq(OptionType) /\ n.optcnt + 1 \in Nat
  BY <1>3, <1>4 DEF Sorted, Message
<1>6. r \in Message /\ r.opts = new /\ r.optcnt = n.optcnt + 1
  BY <1>2, <1>3, <1>5 DEF Message
<1> QED BY <1>3, <1>4, <1>6, SoundOpts DEF r

\* A message whose header or payload changes keeps its options.
LEMMA HeaderSound ==
  ASSUME NEW m, NEW n, Sound(m), n \in Message, n.opts = m.opts,
         n.optcnt = m.optcnt
  PROVE  Sound(n)
<1>1. m \in Message
  BY DEF Sound
<1> QED BY <1>1, SoundOpts

\* coap_pdu_request leaves a sound message.
LEMMA RequestSound ==
  ASSUME NEW path \in Seq(Byte), NEW method, NEW observe \in BOOLEAN
  PROVE  Sound(RequestOf(path, method, observe))
<1> DEFINE header == [Blank EXCEPT !.version = DEFAULT_VERSION, !.type = CON,
                                   !.code = MethodCode(method)]
           m == OptionInsert(header, URI_PATH, path)
<1>1. MethodCode(method) \in Byte
  BY DEF MethodCode, GET, POST, Byte
<1>2. header \in Message /\ header.opts = Blank.opts
      /\ header.optcnt = Blank.optcnt
  <2> DEFINE code == MethodCode(method)
  <2>1. code \in Byte /\ DEFAULT_VERSION \in 0..3 /\ CON \in 0..3
    BY <1>1 DEF DEFAULT_VERSION, CON
  <2>2. Blank \in Message
    BY BlankSound DEF Sound
  <2> HIDE DEF code
  <2>3. header = [Blank EXCEPT !.version = DEFAULT_VERSION, !.type = CON,
                               !.code = code]
    BY DEF code
  <2> HIDE DEF header
  <2> QED BY <2>1, <2>2, <2>3 DEF Message
<1>3. Sound(header)
  BY <1>2, BlankSound, HeaderSound
<1>4. URI_PATH \in Char /\ OBSERVE \in Char /\ <<48>> \in Seq(Byte)
  BY DEF URI_PATH, OBSERVE, Char, Byte
<1> HIDE DEF header
<1>5. Sound(m)
  BY <1>3, <1>4, InsertSound
<1> HIDE DEF m
<1>6. Sound(OptionInsert(m, OBSERVE, <<48>>))
  BY <1>4, <1>5, InsertSound
<1>7. RequestOf(path, method, observe)
        = IF observe THEN OptionInsert(m, OBSERVE, <<48>>) ELSE m
  BY DEF RequestOf, m, header
<1> QED BY <1>5, <1>6, <1>7

-----------------------------------------------------------------------------
(* Bytes.                                                                  *)

\* The reader finds bytes wherever it looks (coap_context_read clears the
\* buffer).
LEMMA AtIsByte ==
  ASSUME wire \in Seq(Byte), NEW i \in Nat
  PROVE  At(i) \in Byte
<1>1. CASE i < Len(wire)
  BY <1>1 DEF At
<1>2. CASE ~(i < Len(wire))
  BY <1>2 DEF At, Byte
<1> QED BY <1>1, <1>2

\* The fields of the header's first byte and of an option's.
LEMMA ByteFields ==
  ASSUME NEW b \in Byte
  PROVE  /\ b \div 64 \in 0..3 /\ (b \div 16) % 4 \in 0..3
         /\ b \div 16 \in Nat /\ b % 16 \in Nat
<1>1. b \in Nat /\ b < 256
  BY DEF Byte
<1>2. b \div 64 \in 0..3
  BY <1>1
<1> DEFINE high == b \div 16
<1>3. high \in Nat
  BY <1>1
<1> HIDE DEF high
<1>4. high % 4 \in 0..3
  BY <1>3
<1> QED BY <1>1, <1>2, <1>3, <1>4 DEF high

\* The id of two bytes.
LEMMA IdOfBytes ==
  ASSUME NEW lo \in Byte, NEW hi \in Byte
  PROVE  lo + 256 * hi \in Uint16
<1>1. lo \in Nat /\ lo < 256 /\ hi \in Nat /\ hi < 256
  BY DEF Byte
<1> QED BY <1>1 DEF Uint16

\* A number cut to a char is a char.
LEMMA AsCharIsChar ==
  ASSUME NEW n \in Nat
  PROVE  AsChar(n) \in Char
<1> DEFINE low == n % 256
<1>1. low \in Nat /\ low < 256
  OBVIOUS
<1>2. AsChar(n) = IF low < 128 THEN low ELSE low - 256
  BY DEF AsChar
<1> HIDE DEF low
<1> QED BY <1>1, <1>2 DEF Char

\* The four bytes of a header are bytes.
LEMMA HeaderIsBytes ==
  ASSUME NEW m \in Message
  PROVE  Header(m) \in Seq(Byte)
<1>1. /\ m.version \in 0..3 /\ m.type \in 0..3 /\ m.code \in Byte
      /\ m.id \in Nat /\ m.id < 65536 /\ m.optcnt \in Nat
  BY DEF Message, Uint16
<1> DEFINE first == m.version * 64 + m.type * 16 + (m.optcnt % 16)
           lo == m.id % 256
           hi == m.id \div 256
<1>2. first \in Byte
  <2> DEFINE low == m.optcnt % 16
  <2>1. low \in 0..15
    BY <1>1
  <2> HIDE DEF low
  <2>2. m.version * 64 + m.type * 16 + low \in 0..255
    BY <1>1, <2>1
  <2> QED BY <2>2 DEF low, Byte
<1>3. lo \in Byte
  BY <1>1 DEF Byte
<1>4. hi \in Byte
  BY <1>1 DEF Byte
<1>5. Header(m) = <<first, m.code, lo, hi>>
  BY DEF Header
<1> HIDE DEF first, lo, hi
<1> QED BY <1>1, <1>2, <1>3, <1>4, <1>5

\* So are those of an option.
LEMMA OptionIsBytes ==
  ASSUME NEW last \in Int, NEW o \in OptionType
  PROVE  OptionBytes(last, o) \in Seq(Byte)
<1> DEFINE delta == (o.code - last) % 16
           n == Len(o.data)
           ext == Extension(n)
<1>1. o.code \in Int
  BY CodeIsInt
<1>2. o.data \in Seq(Byte)
  BY DEF OptionType
<1>3. delta \in Int /\ 0 <= delta /\ delta <= 15
  BY <1>1
<1>4. n \in Nat
  BY <1>2
<1>5. ext \in Byte
  <2>1. n - 15 \in Int
    BY <1>4
  <2> HIDE DEF n
  <2> QED BY <2>1 DEF Extension, Byte
<1>6. OptionBytes(last, o) =
        IF n > 15 THEN <<delta * 16 + 15, ext>> \o o.data
                  ELSE <<delta * 16 + n>> \o o.data
  BY DEF OptionBytes
<1> HIDE DEF delta, n, ext
<1>7. CASE n > 15
  <2>1. delta * 16 + 15 \in Byte
    BY <1>3 DEF Byte
  <2>2. <<delta * 16 + 15, ext>> \in Seq(Byte)
    BY <1>5, <2>1
  <2> QED BY <1>2, <1>6, <1>7, <2>2, ConcatProperties
<1>8. CASE ~(n > 15)
  <2>1. delta * 16 + n \in Byte
    BY <1>3, <1>4, <1>8 DEF Byte
  <2>2. <<delta * 16 + n>> \in Seq(Byte)
    BY <2>1
  <2> QED BY <1>2, <1>6, <1>8, <2>2, ConcatProperties
<1> QED BY <1>7, <1>8

-----------------------------------------------------------------------------
(* The invariant is inductive.                                             *)

\* It holds at the start.
LEMMA InitIInv == Init => IInv
<1> SUFFICES ASSUME Init PROVE IInv
  OBVIOUS
<1>1. Sound(out) /\ Sound(in)
  BY BlankSound DEF Init
<1>2. TypeOK
  BY <1>1 DEF Init, TypeOK, Sound
<1> QED BY <1>1, <1>2 DEF IInv

\* A program may put any sound message into its own.
LEMMA EditKeeps ==
  ASSUME IInv, NEW m, Sound(m), Edit(m)
  PROVE  IInv'
<1>1. /\ out' = m
      /\ UNCHANGED <<status, wire, li, sent, p, opt_code, cnt, in, reads>>
  BY DEF Edit, writerVars, cursor
<1>2. Sound(out)' /\ Sound(in)'
  BY <1>1 DEF IInv, Sound, Kept, Filed
<1>3. TypeOK'
  BY <1>1, <1>2 DEF IInv, TypeOK, Sound
<1> QED BY <1>2, <1>3 DEF IInv

\* Every change of the message that the library offers, and filling in the rest.
LEMMA EditsKeep ==
  ASSUME IInv,
         \/ \E c \in Codes : Unset(c) \/ \E data \in Datas : Insert(c, data)
         \/ \E path \in Datas, method \in Methods, observe \in BOOLEAN :
              Request(path, method, observe)
         \/ \E id \in Ids, payload \in Payloads : Fill(id, payload)
         \/ Clean
  PROVE  IInv'
<1>1. Sound(out) /\ out \in Message
  BY DEF IInv, Sound
<1>2. ASSUME NEW c \in Codes, Unset(c)
      PROVE  IInv'
  BY <1>1, <1>2, CodesAreChars, UnsetSound, EditKeeps DEF Unset
<1>3. ASSUME NEW c \in Codes, NEW data \in Datas, Insert(c, data)
      PROVE  IInv'
  BY <1>1, <1>3, CodesAreChars, ContentsAreBytes, InsertSound, EditKeeps
     DEF Insert
<1>4. ASSUME NEW path \in Datas, NEW method \in Methods,
             NEW observe \in BOOLEAN, Request(path, method, observe)
      PROVE  IInv'
  BY <1>4, ContentsAreBytes, RequestSound, EditKeeps DEF Request
<1>5. ASSUME NEW id \in Ids, NEW payload \in Payloads, Fill(id, payload)
      PROVE  IInv'
  <2> DEFINE m == [out EXCEPT !.id = id, !.payload = payload]
  <2>1. id \in Uint16 /\ payload \in Seq(Byte)
    BY IdsAreShort, ContentsAreBytes
  <2>2. m \in Message /\ m.opts = out.opts /\ m.optcnt = out.optcnt
    BY <1>1, <2>1 DEF Message
  <2>3. Edit(m)
    BY <1>5 DEF Fill
  <2> HIDE DEF m
  <2> QED BY <1>1, <2>2, <2>3, HeaderSound, EditKeeps
<1>6. CASE Clean
  BY <1>6, BlankSound, EditKeeps DEF Clean
<1> QED BY <1>2, <1>3, <1>4, <1>5, <1>6

\* Steps that leave both messages alone.
LEMMA MessagesKept ==
  ASSUME IInv, UNCHANGED <<out, in>>, TypeOK'
  PROVE  IInv'
BY DEF IInv, Sound, Kept, Filed

\* The steps of coap_pdu_packet_write, and the network.
LEMMA WriterKeeps ==
  ASSUME IInv,
         \/ WriteHeader \/ WriteOption \/ WritePayload
         \/ \E bytes \in Packets : Noise(bytes)
  PROVE  IInv'
<1>1. TypeOK /\ out \in Message /\ Sorted(out.opts)
  <2>1. TypeOK /\ Sound(out) /\ out \in Message
    BY DEF IInv, Sound
  <2> QED BY <2>1, SoundOpts
<1>2. out.opts \in Seq(OptionType) /\ out.payload \in Seq(Byte)
  BY <1>1 DEF Message
<1>3. CASE WriteHeader
  <2>1. TypeOK'
    BY <1>1, <1>3, HeaderIsBytes DEF WriteHeader, TypeOK, cursor
  <2> QED BY <1>3, <2>1, MessagesKept DEF WriteHeader
<1>4. CASE WriteOption
  <2> DEFINE last == IF li = 1 THEN 0 ELSE out.opts[li - 1].code
  <2>1. li \in DOMAIN out.opts /\ out.opts[li] \in OptionType
    BY <1>2, <1>4 DEF WriteOption
  <2>2. last \in Int
    <3>1. CASE li = 1
      BY <3>1
    <3>2. CASE li # 1
      <4>1. out.opts[li - 1] \in OptionType
        BY <1>2, <2>1, <3>2
      <4> QED BY <3>2, <4>1, CodeIsInt
    <3> QED BY <3>1, <3>2
  <2>3. wire' = wire \o OptionBytes(last, out.opts[li])
    BY <1>4 DEF WriteOption
  <2> HIDE DEF last
  <2>4. wire' \in Seq(Byte)
    BY <1>1, <2>1, <2>2, <2>3, OptionIsBytes, ConcatProperties DEF TypeOK
  <2>5. TypeOK'
    BY <1>1, <1>4, <2>4 DEF WriteOption, TypeOK, cursor
  <2> QED BY <1>4, <2>5, MessagesKept DEF WriteOption
<1>5. CASE WritePayload
  <2>1. wire' \in Seq(Byte) /\ sent' \in Seq(Message)
    BY <1>1, <1>2, <1>5, ConcatProperties DEF WritePayload, TypeOK
  <2>2. TypeOK'
    BY <1>1, <1>5, <2>1 DEF WritePayload, TypeOK, cursor
  <2> QED BY <1>5, <2>2, MessagesKept DEF WritePayload
<1>6. ASSUME NEW bytes \in Packets, Noise(bytes)
      PROVE  IInv'
  <2>1. bytes \in Seq(Byte)
    BY ContentsAreBytes
  <2>2. TypeOK'
    BY <1>1, <1>6, <2>1 DEF Noise, TypeOK, cursor
  <2> QED BY <1>6, <2>2, MessagesKept DEF Noise
<1> QED BY <1>3, <1>4, <1>5, <1>6

\* The header of coap_pdu_packet_read.
LEMMA ReadHeaderKeeps ==
  ASSUME IInv, ReadHeader
  PROVE  IInv'
<1>1. TypeOK /\ wire \in Seq(Byte) /\ UNCHANGED <<out, wire, li, sent>>
      /\ reads' \in Nat
  BY DEF ReadHeader, writerVars, IInv, TypeOK
<1>2. CASE status' \in {"short", "dropped"} /\ UNCHANGED <<cursor, in>>
  <2>1. TypeOK'
    BY <1>1, <1>2 DEF TypeOK, cursor
  <2> QED BY <1>1, <1>2, <2>1, MessagesKept
<1>3. CASE /\ status' = "options" /\ p' = 4 /\ opt_code' = 0
           /\ cnt' = At(0) % 16
           /\ in' = [Blank EXCEPT !.version = At(0) \div 64,
                                  !.type = (At(0) \div 16) % 4,
                                  !.code = At(1), !.id = At(2) + 256 * At(3)]
  <2>1. /\ At(0) \in Byte /\ At(1) \in Byte /\ At(2) \in Byte /\ At(3) \in Byte
    BY <1>1, AtIsByte
  <2> DEFINE version == At(0) \div 64
             type == (At(0) \div 16) % 4
             id == At(2) + 256 * At(3)
             left == At(0) % 16
  <2>2. version \in 0..3 /\ type \in 0..3 /\ left \in Nat
    BY <2>1, ByteFields
  <2>3. id \in Uint16
    BY <2>1, IdOfBytes
  <2>4. Blank \in Message
    BY BlankSound DEF Sound
  <2>5. in' = [Blank EXCEPT !.version = version, !.type = type,
                            !.code = At(1), !.id = id]
    BY <1>3
  <2>6. cnt' = left
    BY <1>3
  <2> HIDE DEF version, type, id, left
  <2>7. in' \in Message /\ in'.opts = Blank.opts /\ in'.optcnt = Blank.optcnt
    BY <2>1, <2>2, <2>3, <2>4, <2>5 DEF Message
  <2>8. Sound(in')
    BY <2>7, BlankSound, HeaderSound
  <2>9. TypeOK'
    BY <1>1, <1>3, <2>2, <2>6, <2>7 DEF TypeOK
  <2> QED BY <1>1, <2>8, <2>9 DEF IInv, Sound, Kept, Filed
<1> QED BY <1>2, <1>3 DEF ReadHeader

\* One option of coap_pdu_packet_read.
LEMMA ReadOptionKeeps ==
  ASSUME IInv, ReadOption
  PROVE  IInv'
<1> DEFINE code == opt_code + (At(p) \div 16)
           long == At(p) % 16 = 15
           len  == IF long THEN 15 + AsChar(At(p + 1)) ELSE At(p) % 16
           data == IF long THEN p + 2 ELSE p + 1
           content == [i \in 1..len |-> At(data + i - 1)]
<1>1. /\ TypeOK /\ wire \in Seq(Byte) /\ p \in Nat /\ opt_code \in Nat
      /\ cnt \in Nat /\ cnt > 0 /\ UNCHANGED <<out, wire, li, sent, reads>>
  BY DEF ReadOption, writerVars, IInv, TypeOK
<1>2. At(p) \in Byte /\ At(p + 1) \in Byte
  BY <1>1, AtIsByte
<1>3. code \in Nat
  <2>1. At(p) \div 16 \in Nat
    BY <1>2, ByteFields
  <2> QED BY <1>1, <2>1
<1>4. len \in Int
  <2>1. At(p + 1) \in Nat
    BY <1>2 DEF Byte
  <2>2. AsChar(At(p + 1)) \in Char
    BY <2>1, AsCharIsChar
  <2>3. AsChar(At(p + 1)) \in Int
    BY <2>2 DEF Char
  <2>4. At(p) % 16 \in Int
    BY <1>2, ByteFields
  <2> QED BY <2>3, <2>4
<1>5. data \in Nat
  BY <1>1
<1>6. \/ status' = "refused" /\ UNCHANGED <<cursor, in>>
      \/ status' = "crashed" /\ UNCHANGED <<cursor, in>>
      \/ /\ len >= 0
         /\ in' = OptionInsert(in, AsChar(code), content)
         /\ p' = data + len /\ opt_code' = code /\ cnt' = cnt - 1
         /\ UNCHANGED status
  BY DEF ReadOption
<1> HIDE DEF code, long, len, data
<1>7. CASE status' \in {"refused", "crashed"} /\ UNCHANGED <<cursor, in>>
  <2>1. TypeOK'
    BY <1>1, <1>7 DEF TypeOK, cursor
  <2> QED BY <1>1, <1>7, <2>1, MessagesKept
<1>8. CASE /\ len >= 0
           /\ in' = OptionInsert(in, AsChar(code), content)
           /\ p' = data + len /\ opt_code' = code /\ cnt' = cnt - 1
           /\ UNCHANGED status
  <2>1. content \in Seq(Byte)
    <3>1. ASSUME NEW i \in 1..len
          PROVE  At(data + i - 1) \in Byte
      <4>1. data + i - 1 \in Nat
        BY <1>4, <1>5
      <4> QED BY <1>1, <4>1, AtIsByte
    <3>2. len \in Nat
      BY <1>4, <1>8
    <3> QED BY <3>1, <3>2
  <2>2. AsChar(code) \in Char
    BY <1>3, AsCharIsChar
  <2> HIDE DEF content
  <2>3. Sound(in')
    BY <1>8, <2>1, <2>2, InsertSound DEF IInv
  <2>4. p' \in Nat /\ opt_code' \in Nat /\ cnt' \in Nat
    BY <1>1, <1>3, <1>4, <1>5, <1>8
  <2>5. TypeOK'
    BY <1>1, <1>8, <2>3, <2>4 DEF TypeOK, Sound
  <2> QED BY <1>1, <2>3, <2>5 DEF IInv, Sound, Kept, Filed
<1> QED BY <1>6, <1>7, <1>8

\* The payload, and what coap_context_read does with the message.
LEMMA ReadPayloadKeeps ==
  ASSUME IInv, ReadPayload
  PROVE  IInv'
<1>1. /\ TypeOK /\ wire \in Seq(Byte) /\ p \in Nat /\ in \in Message
      /\ UNCHANGED <<out, wire, li, sent, reads, p, opt_code, cnt>>
  BY DEF ReadPayload, writerVars, cursor, IInv, TypeOK
<1>2. CASE status' = "refused" /\ UNCHANGED in
  <2>1. TypeOK'
    BY <1>1, <1>2 DEF TypeOK
  <2> QED BY <1>1, <1>2, <2>1, MessagesKept
<1>3. CASE /\ status' = "done"
           /\ in' = [in EXCEPT !.payload = SubSeq(wire, p + 1, Len(wire))]
  <2> DEFINE rest == SubSeq(wire, p + 1, Len(wire))
  <2>1. rest \in Seq(Byte)
    BY <1>1, SubSeqProperties
  <2> HIDE DEF rest
  <2>2. in' = [in EXCEPT !.payload = rest]
    BY <1>3 DEF rest
  <2>3. in' \in Message /\ in'.opts = in.opts /\ in'.optcnt = in.optcnt
    BY <1>1, <2>1, <2>2 DEF Message
  <2>4. Sound(in')
    BY <2>3, HeaderSound DEF IInv
  <2>5. TypeOK'
    BY <1>1, <1>3, <2>3 DEF TypeOK
  <2> QED BY <1>1, <2>4, <2>5 DEF IInv, Sound, Kept, Filed
<1> QED BY <1>2, <1>3 DEF ReadPayload

\* The rest of coap_context_read.
LEMMA HandOnKeeps ==
  ASSUME IInv, HandOn
  PROVE  IInv'
<1>1. Sound(out') /\ in' = Blank
  BY BlankSound DEF HandOn, IInv
<1>2. Sound(in')
  BY <1>1, BlankSound
<1>3. TypeOK'
  BY <1>1, <1>2 DEF HandOn, TypeOK, IInv, Sound
<1> QED BY <1>1, <1>2, <1>3 DEF IInv, Sound, Kept, Filed

\* Every step keeps the invariant.
LEMMA StepKeeps == IInv /\ [Next]_vars => IInv'
<1> SUFFICES ASSUME IInv, [Next]_vars PROVE IInv'
  OBVIOUS
<1>1. CASE UNCHANGED vars
  <2>1. TypeOK' /\ UNCHANGED <<out, in>>
    BY <1>1 DEF vars, writerVars, cursor, IInv, TypeOK
  <2> QED BY <2>1, MessagesKept
<1>2. CASE Next
  BY <1>2, EditsKeep, WriterKeeps, ReadHeaderKeeps, ReadOptionKeeps,
     ReadPayloadKeeps, HandOnKeeps DEF Next
<1> QED BY <1>1, <1>2

-----------------------------------------------------------------------------
\* The inductive invariant holds in every reachable state.
LEMMA Invariance == Spec => []IInv
<1>1. IInv /\ [Next]_vars => IInv'
  BY StepKeeps
<1> QED BY InitIInv, <1>1, PTL DEF Spec

\* Whatever is written and read, by whomever, the writer writes bytes and the
\* reader makes messages of the right shape (coap_pdu_packet_write,
\* coap_pdu_packet_read).
THEOREM CodecTypeCorrect == Spec => []TypeOK
<1>1. IInv => TypeOK
  BY DEF IInv
<1> QED BY Invariance, <1>1, PTL

\* For all codes, contents and packets the options of a message stay in order,
\* each code once, and optcnt counts them, although coap_pdu_option_insert and
\* coap_pdu_option_unset keep list and count apart.
THEOREM WellKeptTheorem == Spec => []WellKept
<1>1. IInv => WellKept
  BY DEF IInv, Sound, WellKept
<1> QED BY Invariance, <1>1, PTL
=============================================================================
