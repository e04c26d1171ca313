--------------------------- MODULE CoapList_proofs ---------------------------
(***************************************************************************)
(* Facts about the list operations of CoapList, for lists of any length.   *)
(***************************************************************************)
EXTENDS CoapList, SequenceTheorems, WellFoundedInduction, TLAPS

-----------------------------------------------------------------------------
(* A set of numbers that is not empty has a smallest one.                  *)

Smaller == {ss \in Nat \X Nat : ss[1] < ss[2]}

\* "Smaller" is well founded on the numbers; the loops over lists, which take
\* the first hit, rest on it.
LEMMA SmallerWellFounded == IsWellFoundedOn(Smaller, Nat)
  BY NatLessThanWellFounded DEF OpToRel, Smaller

\* The loop of coap_list_node_get has a first hit whenever it has a hit.
LEMMA Minimum ==
  ASSUME NEW S \in SUBSET Nat, S # {}
  PROVE  \E i \in S : \A j \in S : i <= j
<1>1. \E i \in S : \A j \in S : <<j, i>> \notin Smaller
  BY SmallerWellFounded, WFMin
<1>2. ASSUME NEW i \in S, NEW j \in S, <<j, i>> \notin Smaller
      PROVE  i <= j
  BY <1>2 DEF Smaller
<1> QED BY <1>1, <1>2

-----------------------------------------------------------------------------
(* The list operations.                                                    *)

\* A lookup returns a position of the list or 0 (coap_list_node_get).
LEMMA NodeGetRange ==
  ASSUME NEW S, NEW list \in Seq(S), NEW key, NEW len
  PROVE  NodeGet(list, key, len) \in {0} \cup DOMAIN list
<1> DEFINE hits == {i \in DOMAIN list : StrNEq(list[i].key, key, len)}
<1>1. hits \in SUBSET Nat
  OBVIOUS
<1>2. CASE hits = {}
  BY <1>2 DEF NodeGet
<1>3. CASE hits # {}
  <2>1. \E i \in hits : \A j \in hits : i <= j
    BY <1>1, <1>3, Minimum
  <2>2. NodeGet(list, key, len) \in hits
    BY <1>3, <2>1 DEF NodeGet
  <2> QED BY <2>2
<1> QED BY <1>2, <1>3

\* A lookup finds a node of the key, or there is none.
LEMMA NodeGetFinds ==
  ASSUME NEW S, NEW list \in Seq(S), NEW key, NEW len
  PROVE  LET i == NodeGet(list, key, len)
         IN  \/ i = 0 /\ \A j \in DOMAIN list : ~StrNEq(list[j].key, key, len)
             \/ i \in DOMAIN list /\ StrNEq(list[i].key, key, len)
<1> DEFINE hits == {i \in DOMAIN list : StrNEq(list[i].key, key, len)}
<1>1. CASE hits = {}
  BY <1>1 DEF NodeGet
<1>2. CASE hits # {}
  <2>1. hits \in SUBSET Nat
    OBVIOUS
  <2>2. \E i \in hits : \A j \in hits : i <= j
    BY <1>2, <2>1, Minimum
  <2>3. NodeGet(list, key, len) \in hits
    BY <1>2, <2>2 DEF NodeGet
  <2> QED BY <2>3
<1> QED BY <1>1, <1>2

\* Taking a node out moves those behind it up by one.
LEMMA WithoutElements ==
  ASSUME NEW S, NEW list \in Seq(S), NEW i \in DOMAIN list
  PROVE  /\ Without(list, i) \in Seq(S)
         /\ Len(Without(list, i)) = Len(list) - 1
         /\ \A j \in 1..(Len(list) - 1) :
              Without(list, i)[j] = IF j < i THEN list[j] ELSE list[j + 1]
<1> DEFINE front == SubSeq(list, 1, i - 1)
           back == SubSeq(list, i + 1, Len(list))
<1>1. /\ front \in Seq(S) /\ Len(front) = i - 1
      /\ \A j \in 1..(i - 1) : front[j] = list[j]
  BY SubSeqProperties
<1>2. /\ back \in Seq(S) /\ Len(back) = Len(list) - i
      /\ \A j \in 1..(Len(list) - i) : back[j] = list[i + j]
  BY SubSeqProperties
<1> DEFINE both == front \o back
<1>3. Without(list, i) = both
  BY DEF Without
<1> HIDE DEF front, back
<1>4. /\ both \in Seq(S) /\ Len(both) = Len(list) - 1
      /\ \A j \in 1..(Len(list) - 1) :
           both[j] = IF j <= i - 1 THEN front[j] ELSE back[j - (i - 1)]
  <2>1. i - 1 \in Nat /\ (i - 1) + (Len(list) - i) = Len(list) - 1
    OBVIOUS
  <2>2. /\ both \in Seq(S) /\ Len(both) = Len(front) + Len(back)
        /\ \A j \in 1..(Len(front) + Len(back)) :
             both[j] = IF j <= Len(front) THEN front[j]
                                          ELSE back[j - Len(front)]
    BY <1>1, <1>2, ConcatProperties
  <2> HIDE DEF both
  <2> QED BY <1>1, <1>2, <2>1, <2>2
<1> HIDE DEF both
<1>5. ASSUME NEW j \in 1..(Len(list) - 1)
      PROVE  both[j] = IF j < i THEN list[j] ELSE list[j + 1]
  <2>1. CASE j < i
    BY <1>1, <1>4, <2>1
  <2>2. CASE j >= i
    <3>1. j - (i - 1) \in 1..(Len(list) - i) /\ i + (j - (i - 1)) = j + 1
      BY <2>2
    <3> QED BY <1>2, <1>4, <2>2, <3>1
  <2> QED BY <2>1, <2>2
<1> QED BY <1>3, <1>4, <1>5

\* Taking a node out leaves a list of the others.
LEMMA WithoutIsSeq ==
  ASSUME NEW S, NEW list \in Seq(S), NEW i \in DOMAIN list
  PROVE  /\ Without(list, i) \in Seq(S)
         /\ \A j \in DOMAIN Without(list, i) :
              \E k \in DOMAIN list : Without(list, i)[j] = list[k]
<1> DEFINE rest == Without(list, i)
<1>1. /\ rest \in Seq(S) /\ Len(rest) = Len(list) - 1
      /\ \A j \in 1..(Len(list) - 1) :
           rest[j] = IF j < i THEN list[j] ELSE list[j + 1]
  BY WithoutElements
<1> HIDE DEF rest
<1>2. ASSUME NEW j \in DOMAIN rest
      PROVE  \E k \in DOMAIN list : rest[j] = list[k]
  <2>1. j \in DOMAIN list /\ j + 1 \in DOMAIN list
    BY <1>1
  <2> QED BY <1>1, <2>1
<1> QED BY <1>1, <1>2 DEF rest

\* Deleting keeps a list a list, and brings in no node.
LEMMA NodeDeleteIsSeq ==
  ASSUME NEW S, NEW list \in Seq(S), NEW key, NEW len
  PROVE  /\ NodeDelete(list, key, len) \in Seq(S)
         /\ \A j \in DOMAIN NodeDelete(list, key, len) :
              \E k \in DOMAIN list : NodeDelete(list, key, len)[j] = list[k]
<1> DEFINE i == NodeGet(list, key, len)
<1>1. CASE i = 0
  BY <1>1 DEF NodeDelete
<1>2. CASE i \in DOMAIN list
  BY <1>2, WithoutIsSeq DEF NodeDelete
<1> QED BY <1>1, <1>2, NodeGetRange

\* Inserting makes a list longer by one (coap_list_node_insert).
LEMMA NodeInsertLength ==
  ASSUME NEW S, NEW list \in Seq(S), NEW node \in S
  PROVE  /\ NodeInsert(list, node) \in Seq(S)
         /\ Len(NodeInsert(list, node)) = Len(list) + 1
  BY DEF NodeInsert

\* A node inserted in a list that is not empty becomes the second, behind the
\* head that was there (coap_list_node_insert, lines 65-76).
LEMMA NodeInsertHead ==
  ASSUME NEW S, NEW list \in Seq(S), NEW node \in S
  PROVE  /\ Len(list) = 0 => NodeInsert(list, node)[1] = node
         /\ Len(list) # 0 => NodeInsert(list, node)[1] = list[1]
         /\ Len(list) # 0 => NodeInsert(list, node)[2] = node
  BY DEF NodeInsert

\* The rest moves back by one.
LEMMA NodeInsertRest ==
  ASSUME NEW S, NEW list \in Seq(S), NEW node \in S,
         NEW j \in 3..(Len(list) + 1)
  PROVE  NodeInsert(list, node)[j] = list[j - 1]
  BY DEF NodeInsert

\* Inserting brings in the node and nothing else.
LEMMA NodeInsertIsSeq ==
  ASSUME NEW S, NEW list \in Seq(S), NEW node \in S
  PROVE  /\ NodeInsert(list, node) \in Seq(S)
         /\ \A k \in DOMAIN NodeInsert(list, node) :
              \/ NodeInsert(list, node)[k] = node
              \/ \E j \in DOMAIN list : NodeInsert(list, node)[k] = list[j]
<1> DEFINE new == NodeInsert(list, node)
<1>1. /\ new \in Seq(S) /\ Len(new) = Len(list) + 1
      /\ Len(list) = 0 => new[1] = node
      /\ Len(list) # 0 => new[1] = list[1] /\ new[2] = node
      /\ \A j \in 3..(Len(list) + 1) : new[j] = list[j - 1]
  BY ZenonT(40), NodeInsertLength, NodeInsertHead, NodeInsertRest
<1> HIDE DEF new
<1>2. ASSUME NEW k \in DOMAIN new
      PROVE  new[k] = node \/ \E j \in DOMAIN list : new[k] = list[j]
  <2>1. k \in 1..(Len(list) + 1)
    BY <1>1
  <2>2. CASE Len(list) = 0
    BY <1>1, <2>1, <2>2
  <2>3. CASE Len(list) # 0 /\ k \in {1, 2}
    BY <1>1, <2>3
  <2>4. CASE k \in 3..(Len(list) + 1)
    <3>1. k - 1 \in DOMAIN list
      BY <2>4
    <3> QED BY <1>1, <2>4, <3>1
  <2> QED BY <2>1, <2>2, <2>3, <2>4
<1> QED BY <1>1, <1>2 DEF new

\* A number of at most ten digits has a number of digits.
LEMMA DigitsRange ==
  ASSUME NEW n \in Nat
  PROVE  /\ Digits(n) \in 1..10
         /\ Digits(n) = 1 \/ n >= Pow10[Digits(n)]
         /\ Digits(n) = 10 \/ n < Pow10[Digits(n) + 1]
<1> DEFINE fits(k) == /\ k = 1 \/ n >= Pow10[k]
                      /\ k = 10 \/ n < Pow10[k + 1]
<1>1. \E k \in 1..10 : fits(k)
  <2>1. CASE n < 10  BY <2>1 DEF Pow10
  <2>2. CASE n >= 10 /\ n < 100  BY <2>2 DEF Pow10
  <2>3. CASE n >= 100 /\ n < 1000  BY <2>3 DEF Pow10
  <2>4. CASE n >= 1000 /\ n < 10000  BY <2>4 DEF Pow10
  <2>5. CASE n >= 10000 /\ n < 100000  BY <2>5 DEF Pow10
  <2>6. CASE n >= 100000 /\ n < 1000000  BY <2>6 DEF Pow10
  <2>7. CASE n >= 1000000 /\ n < 10000000  BY <2>7 DEF Pow10
  <2>8. CASE n >= 10000000 /\ n < 100000000  BY <2>8 DEF Pow10
  <2>9. CASE n >= 100000000 /\ n < 1000000000  BY <2>9 DEF Pow10
  <2>10. CASE n >= 1000000000  BY <2>10 DEF Pow10
  <2> HIDE DEF fits
  <2> QED BY <2>1, <2>2, <2>3, <2>4, <2>5, <2>6, <2>7, <2>8, <2>9, <2>10
<1> QED BY <1>1 DEF Digits

\* The powers of ten.
LEMMA PowersOfTen ==
  /\ \A k \in 1..10 : Pow10[k] \in Nat \ {0}
  /\ \A k, l \in 1..10 : k <= l => Pow10[k] <= Pow10[l]
  BY DEF Pow10

\* The key of a token is a string (coap_client_send, coap_client.c:63).
LEMMA TokenKeyIsString ==
  ASSUME NEW n \in Nat
  PROVE  TokenKey(n) \in Str
<1>2. Digits(n) \in 1..10
  BY DigitsRange
<1> DEFINE c(i) == 48 + ((n \div Pow10[Digits(n) - i + 1]) % 10)
<1>3. ASSUME NEW i \in 1..Digits(n)
      PROVE  c(i) \in Int
  <2> DEFINE p == Pow10[Digits(n) - i + 1]
  <2>1. Digits(n) - i + 1 \in 1..10
    BY <1>2
  <2>3. p \in Nat \ {0}
    BY <2>1, PowersOfTen
  <2> HIDE DEF p
  <2>4. n \div p \in Int
    BY <2>3
  <2>5. 48 + ((n \div p) % 10) \in Int
    BY <2>4
  <2> QED BY <2>5 DEF p
<1>4. TokenKey(n) = [i \in 1..Digits(n) |-> c(i)]
  BY DEF TokenKey
<1> HIDE DEF c
<1>5. TokenKey(n) \in [1..Digits(n) -> Int]
  BY <1>3, <1>4
<1> QED BY <1>2, <1>5, SeqDef DEF Str

\* The decimal digits of a number, the lowest first.
Digit(n, k) == (n \div Pow10[k]) % 10

\* A number of at most ten digits is made of them.
LEMMA OfItsDigits ==
  ASSUME NEW n \in Nat, n < 10000000000
  PROVE  n = Digit(n, 1) + 10 * Digit(n, 2) + 100 * Digit(n, 3)
             + 1000 * Digit(n, 4) + 10000 * Digit(n, 5) + 100000 * Digit(n, 6)
             + 1000000 * Digit(n, 7) + 10000000 * Digit(n, 8)
             + 100000000 * Digit(n, 9) + 1000000000 * Digit(n, 10)
<1> DEFINE q(p) == n \div p
<1>1. n = 10 * q(10) + Digit(n, 1)
  BY DEF Digit, Pow10
<1>2. q(10) = 10 * q(100) + Digit(n, 2)
  BY DEF Digit, Pow10
<1>3. q(100) = 10 * q(1000) + Digit(n, 3)
  BY DEF Digit, Pow10
<1>4. q(1000) = 10 * q(10000) + Digit(n, 4)
  BY DEF Digit, Pow10
<1>5. q(10000) = 10 * q(100000) + Digit(n, 5)
  BY DEF Digit, Pow10
<1>6. q(100000) = 10 * q(1000000) + Digit(n, 6)
  BY DEF Digit, Pow10
<1>7. q(1000000) = 10 * q(10000000) + Digit(n, 7)
  BY DEF Digit, Pow10
<1>8. q(10000000) = 10 * q(100000000) + Digit(n, 8)
  BY DEF Digit, Pow10
<1>9. q(100000000) = 10 * q(1000000000) + Digit(n, 9)
  BY DEF Digit, Pow10
<1>10. q(1000000000) = Digit(n, 10)
  BY DEF Digit, Pow10
<1>11. \A k \in 1..10 : Digit(n, k) \in Int
  BY DEF Digit, Pow10
<1>12. \A p \in {10, 100, 1000, 10000, 100000, 1000000, 10000000, 100000000,
                 1000000000} : q(p) \in Int
  OBVIOUS
<1> HIDE DEF q
<1> QED BY <1>1, <1>2, <1>3, <1>4, <1>5, <1>6, <1>7, <1>8, <1>9, <1>10, <1>11, <1>12

\* The digits of a key are those of the number, and where the key is too short
\* they are 0.
LEMMA KeyHasDigits ==
  ASSUME NEW n \in Nat, n < 10000000000, NEW k \in 1..10
  PROVE  Digit(n, k) = IF k <= Digits(n)
                         THEN TokenKey(n)[Digits(n) - k + 1] - 48 ELSE 0
<1>1. /\ Digits(n) \in 1..10
      /\ Digits(n) = 10 \/ n < Pow10[Digits(n) + 1]
  BY DigitsRange
<1>2. Pow10[k] \in Nat \ {0}
  BY PowersOfTen
<1>3. CASE k <= Digits(n)
  <2> DEFINE i == Digits(n) - k + 1
  <2>1. i \in 1..Digits(n) /\ Digits(n) - i + 1 = k
    BY <1>1, <1>3
  <2>2. TokenKey(n)[i] = 48 + ((n \div Pow10[k]) % 10)
    BY <2>1 DEF TokenKey
  <2>3. Digit(n, k) \in Int
    BY <1>2 DEF Digit
  <2> HIDE DEF i
  <2>4. TokenKey(n)[i] - 48 = Digit(n, k)
    BY <2>2, <2>3 DEF Digit
  <2> QED BY <1>3, <2>4 DEF i
<1>4. CASE k > Digits(n)
  <2>1. Digits(n) + 1 \in 1..10 /\ Digits(n) + 1 <= k
    BY <1>1, <1>4
  <2>2. n < Pow10[k]
    BY <1>1, <1>2, <2>1, PowersOfTen
  <2> DEFINE p == Pow10[k]
  <2> HIDE DEF p
  <2>3. p \in Nat \ {0} /\ n < p
    BY <1>2, <2>2 DEF p
  <2>4. n \div p = 0
    BY <2>3
  <2>5. Digit(n, k) = 0
    BY <2>4 DEF Digit, p
  <2> QED BY <1>1, <1>4, <2>5
<1> QED BY <1>1, <1>3, <1>4

\* sprintf("%d") gives different tokens different keys (coap_client_send).
LEMMA TokenKeyInjective ==
  ASSUME NEW n \in Nat, n < 10000000000, NEW m \in Nat, m < 10000000000,
         TokenKey(n) = TokenKey(m)
  PROVE  n = m
<1>1. Digits(n) \in 1..10 /\ Digits(m) \in 1..10
  BY DigitsRange
<1>2. DOMAIN TokenKey(n) = 1..Digits(n) /\ DOMAIN TokenKey(m) = 1..Digits(m)
  BY DEF TokenKey
<1>3. Digits(n) = Digits(m)
  BY <1>1, <1>2
<1>4. ASSUME NEW k \in 1..10
      PROVE  Digit(n, k) = Digit(m, k)
  BY <1>3, KeyHasDigits
<1> QED BY <1>4, OfItsDigits
=============================================================================
