------------------------------ MODULE Directory ------------------------------
(***************************************************************************)
(* What a resource directory promises, without queues, keys or PDUs: while *)
(* it is open it lists registrations, which come and go one at a time, and *)
(* it tells its clients of each that has come or gone.  A directory that   *)
(* is opened lists what it has been given to start with, which need not be *)
(* the same each time; what was registered before is forgotten.            *)
(***************************************************************************)
EXTENDS Integers, BagsExt

CONSTANTS
  initials   \* the bags of registrations it may open with

VARIABLES
  open,
  listed,   \* bag of [name, lt, links]
  told      \* how often its clients were told: "2.01" created, "2.02" deleted

vars == <<open, listed, told>>

\* A bag maps what it holds to how many there are.
Empty == [e \in {} |-> 0]
Nothing == [code \in {"2.01", "2.02"} |-> 0]

Init == ~open /\ listed = Empty /\ told = Nothing

Open == ~open /\ open' = TRUE /\ listed' \in initials /\ told' = Nothing
Close == open /\ open' = FALSE /\ listed' = Empty /\ told' = Nothing

\* A client is told twice.
Tell(code) == told' = [told EXCEPT ![code] = @ + 2]

Register ==
  /\ open /\ open' = open
  /\ \E e \in DOMAIN listed' : listed' = BagAdd(listed, e)
  /\ Tell("2.01")

\* One registration goes, however many have its name.
Remove ==
  /\ open /\ open' = open
  /\ \E e \in DOMAIN listed : listed' = BagRemove(listed, e)
  /\ Tell("2.02")

\* A registration is given another lifetime or other links; it keeps its name.
Update ==
  /\ open /\ open' = open
  /\ \E e \in DOMAIN listed, n \in DOMAIN listed' :
       n.name = e.name /\ listed' = BagAdd(BagRemove(listed, e), n)
  /\ UNCHANGED told

Next == Open \/ Close \/ Register \/ Remove \/ Update
Spec == Init /\ [][Next]_vars
=============================================================================
