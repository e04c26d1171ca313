------------------------------ MODULE CoapList ------------------------------
(***************************************************************************)
(* The singly linked list of coap/coap_list.c, on which every queue and    *)
(* table of the program is built: the pending queues, the entries of the   *)
(* resource directory and the observers of an entry.                       *)
(*                                                                         *)
(* A list is a sequence of nodes; a node is a record with at least a field *)
(* "key", a C string written as the sequence of its characters without the *)
(* closing NUL.  The data of a node are the other fields of its record.    *)
(* Nothing here is RECURSIVE, so the lists can be reasoned about.          *)
(*                                                                         *)
(* SlipNodeInsert is a fault of NodeInsert; no specification uses it.      *)
(***************************************************************************)
EXTENDS Integers, Sequences

\* C strings, the values of a 16 bit counter and those of rand().
Str == Seq(Int)
Uint16 == {n \in Nat : n < 65536}
Random == {n \in Nat : n <= 2147483647}

\* strncmp(a, b, n) = 0: no difference within n characters or up to the NUL.
StrNEq(a, b, n) ==
  \A i \in 1..n : i <= Len(a) \/ i <= Len(b) =>
                    i <= Len(a) /\ i <= Len(b) /\ a[i] = b[i]

\* Looking a key up with len = strlen(key) asks for a prefix of the node key.
StartsWith(str, prefix) == StrNEq(str, prefix, Len(prefix))

\* coap_list_node_get: the position of the first node whose key agrees with
\* "key" on len characters, or 0.  The code answers "not there" for every key
\* when it is given no place for the data (data == NULL, line 100).
NodeGet(list, key, len) ==
  LET hits == {i \in DOMAIN list : StrNEq(list[i].key, key, len)}
  IN  IF hits = {} THEN 0 ELSE CHOOSE i \in hits : \A j \in hits : i <= j

\* The list without the node at position i.
Without(list, i) == SubSeq(list, 1, i - 1) \o SubSeq(list, i + 1, Len(list))

\* coap_list_node_delete: only the first node that matches.
NodeDelete(list, key, len) ==
  LET i == NodeGet(list, key, len) IN IF i = 0 THEN list ELSE Without(list, i)

\* coap_list_node_insert in a list without order_func: the loop at line 68
\* stops after one turn, so the node becomes the second of the list.
SlipNodeInsert(list, node) == Append(list, node)
NodeInsert(list, node) ==
  IF list = <<>> THEN <<node>> ELSE <<list[1], node>> \o Tail(list)

\* The key made from a message id: the bytes of a 16 bit id in host order
\* (little endian), up to the first NUL.
IdKey(id) ==
  LET lo == id % 256
      hi == id \div 256
  IN  IF lo = 0 THEN <<>> ELSE IF hi = 0 THEN <<lo>> ELSE <<lo, hi>>

\* sizeof(int): the length given with an id key.
IdKeyLen == 4

\* sprintf("%d"): the ASCII digits of a token, ten at most.
Pow10 == <<1, 10, 100, 1000, 10000, 100000, 1000000, 10000000, 100000000,
           1000000000>>
Digits(n) == CHOOSE k \in 1..10 : /\ k = 1 \/ n >= Pow10[k]
                                  /\ k = 10 \/ n < Pow10[k + 1]
TokenKey(n) == [i \in 1..Digits(n) |->
                  48 + ((n \div Pow10[Digits(n) - i + 1]) % 10)]
=============================================================================
