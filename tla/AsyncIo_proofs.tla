--------------------------- MODULE AsyncIo_proofs ---------------------------
(***************************************************************************)
(* Proofs about AsyncIo, for every set of descriptors below FD_SETSIZE,    *)
(* every first size of the table and any number of operations.             *)
(***************************************************************************)
EXTENDS AsyncIo, FiniteSetTheorems, TLAPS

\* Before the first operation there is nothing to close.
Unused == ~asyncIoInUse => posted = {}

\* A write that waits is that of an operation, and no longer posted.
Awaits == pc = "writing" => at \in Slots /\ table[at] # 0 /\ at \notin posted

\* The parts stand on each other: a descriptor that is dispatched is ready
\* (BegunWhenReady) only if it is in posted, and numPosted is positive then only if
\* it counts what is posted (Tally).
IInv == Typed /\ Tally /\ NoneForgotten /\ BegunWhenReady /\ Unused /\ Awaits

----------------------------------------------------------------------------
(* Slots and how many are posted.                                          *)

\* The bits of one side, as numRdPosted and numWrPosted count them.
Of(slots, d) == {s \in slots : s[2] = d}

\* Descriptors are natural numbers, and finitely many.
LEMMA FdsFinite == Fds \subseteq Nat /\ IsFiniteSet(Fds)
<1>1. FdSetSize \in Nat /\ Fds \in SUBSET (0..(FdSetSize - 1))
  BY AsyncIoAssumption
<1>2. IsFiniteSet(0..(FdSetSize - 1))
  BY <1>1, FS_Interval
<1>3. IsFiniteSet(Fds)
  BY <1>1, <1>2, FS_Subset
<1> QED BY <1>1, <1>3

\* A descriptor has two slots, so there are finitely many.
LEMMA SlotsFinite ==
  ASSUME NEW slots \in SUBSET Slots, NEW d
  PROVE  /\ IsFiniteSet(slots) /\ IsFiniteSet(Of(slots, d))
         /\ Cardinality(Of(slots, d)) \in Nat
<1>1. IsFiniteSet(Sides)
  <2>1. Sides = {"read"} \cup {"write"}
    BY DEF Sides
  <2>2. IsFiniteSet({"read"})
    BY FS_Singleton
  <2> QED BY <2>1, <2>2, FS_AddElement
<1>2. IsFiniteSet(Slots)
  BY <1>1, FdsFinite, FS_Product DEF Slots
<1>3. Of(slots, d) \in SUBSET Slots
  BY DEF Of
<1>4. IsFiniteSet(slots) /\ IsFiniteSet(Of(slots, d))
  BY <1>2, <1>3, FS_Subset
<1> QED BY <1>4, FS_CardinalityType

\* With one slot less, the side it is on counts one less.
LEMMA OneLess ==
  ASSUME NEW slots \in SUBSET Slots, NEW s \in Slots, NEW d \in Sides
  PROVE  Cardinality(Of(slots \ {s}, d)) =
           IF s \in slots /\ s[2] = d THEN Cardinality(Of(slots, d)) - 1
                                      ELSE Cardinality(Of(slots, d))
<1>1. Of(slots \ {s}, d) = Of(slots, d) \ {s}
  BY DEF Of
<1>2. s \in Of(slots, d) <=> (s \in slots /\ s[2] = d)
  BY DEF Of
<1>3. Cardinality(Of(slots, d) \ {s}) =
        IF s \in Of(slots, d) THEN Cardinality(Of(slots, d)) - 1
                              ELSE Cardinality(Of(slots, d))
  BY SlotsFinite, FS_RemoveElement
<1> QED BY <1>1, <1>2, <1>3

\* Without the two slots of a descriptor each side counts at most one less.
LEMMA WithoutDescriptor ==
  ASSUME NEW slots \in SUBSET Slots, NEW fd \in Fds, NEW d \in Sides
  PROVE  Cardinality(Of(slots \ On(fd), d)) =
           IF <<fd, d>> \in slots THEN Cardinality(Of(slots, d)) - 1
                                  ELSE Cardinality(Of(slots, d))
<1>1. Of(slots \ On(fd), d) = Of(slots \ {<<fd, d>>}, d)
  <2>1. ASSUME NEW s \in Slots, s[2] = d
        PROVE  s \in On(fd) <=> s = <<fd, d>>
    BY <2>1 DEF On, Slots
  <2> QED BY <2>1 DEF Of
<1>2. <<fd, d>> \in Slots /\ <<fd, d>>[2] = d
  BY DEF Slots
<1> QED BY <1>1, <1>2, OneLess

\* Tally with the name of what it counts.
LEMMA TallyOf ==
  /\ Tally <=> \A d \in Sides :
                 numPosted[d] = Cardinality(Of(posted, d)) + lost[d]
  /\ Tally' <=> \A d \in Sides :
                  numPosted'[d] = Cardinality(Of(posted', d)) + lost'[d]
  BY DEF Tally, Of

\* An operation is in a slot for good; its state changes.
LEMMA NewState ==
  ASSUME NEW o \in Operation, NEW state \in {"pending", "done", "cancelled"}
  PROVE  /\ [o EXCEPT !.state = state] \in Operation
         /\ [o EXCEPT !.state = state].slot = o.slot
         /\ [o EXCEPT !.state = state].state = state
         /\ o.slot \in Slots
  BY DEF Operation

\* A sequence may be changed at each of its places.
LEMMA SameLength ==
  ASSUME NEW S, NEW q \in Seq(S), NEW r, DOMAIN r = DOMAIN q,
         r = [i \in DOMAIN q |-> r[i]], \A i \in DOMAIN q : r[i] \in S
  PROVE  r \in Seq(S)
<1>1. Len(q) \in Nat /\ DOMAIN q = 1..Len(q)
  OBVIOUS
<1>2. r \in [1..Len(q) -> S]
  BY <1>1
<1> QED BY <1>1, <1>2

----------------------------------------------------------------------------
(* What is the same for several actions.                                   *)

\* The program and the files move, the tables do not (Open, GetReady).
LEMMA TablesKept ==
  ASSUME IInv, UNCHANGED <<table, wanted, posted, numPosted, lost, maxFd, ops>>,
         pc' \in {"app", "loop", "callback", "writing", "stopped"},
         pc' = "writing" <=> pc = "writing", pc = "writing" => at' = at,
         at' \in Slots \cup {<<-1, "write">>}, asyncIoInUse' \in BOOLEAN,
         asyncIoInUse => asyncIoInUse',
         open' \subseteq Fds, ready' \subseteq Slots, ready \subseteq ready'
  PROVE  IInv'
<1>1. Typed'
  BY DEF IInv, Typed
<1>2. Tally' /\ NoneForgotten'
  BY DEF IInv, Tally, NoneForgotten, Writing
<1>3. BegunWhenReady' /\ Unused' /\ Awaits'
  BY DEF IInv, BegunWhenReady, Unused, Awaits
<1> QED BY <1>1, <1>2, <1>3 DEF IInv

\* The operations of some slots are given up (OS_Close, OS_CloseRead).
LEMMA GivenUp ==
  ASSUME Typed, NoneForgotten, NEW slots \in SUBSET Slots, InProgram,
         table' = Cleared(slots), ops' = Cancelled(slots),
         (wanted \cup posted) \ slots \subseteq wanted' \cup posted'
  PROVE  /\ NoneForgotten' /\ table' \in [Slots -> Nat]
         /\ ops' \in Seq(Operation)
<1>1. table \in [Slots -> Nat] /\ ops \in Seq(Operation)
  BY DEF Typed
<1>2. table' \in [Slots -> Nat]
  BY <1>1 DEF Cleared
<1>3. DOMAIN ops' = DOMAIN ops /\ DOMAIN ops = 1..Len(ops)
  BY <1>1 DEF Cancelled
<1>4. ASSUME NEW i \in DOMAIN ops
      PROVE  /\ ops[i] \in Operation /\ ops'[i] \in Operation
             /\ ops'[i].slot = ops[i].slot
             /\ ops'[i].state = "pending" <=>
                  (ops[i].state = "pending" /\ ops[i].slot \notin slots)
  <2>1. ops[i] \in Operation
    BY <1>1
  <2>2. ops'[i] = IF ops[i].slot \in slots /\ ops[i].state = "pending"
                    THEN [ops[i] EXCEPT !.state = "cancelled"] ELSE ops[i]
    BY DEF Cancelled
  <2> DEFINE o == ops[i]
             c == [o EXCEPT !.state = "cancelled"]
  <2>3. c \in Operation /\ c.slot = o.slot /\ c.state = "cancelled"
    BY <2>1, NewState
  <2>4. ops'[i] = IF o.slot \in slots /\ o.state = "pending" THEN c ELSE o
    BY <2>2
  <2> HIDE DEF c
  <2> QED BY <2>1, <2>3, <2>4
<1>5. ops' \in Seq(Operation)
  <2>1. ops' = [i \in DOMAIN ops |-> ops'[i]]
    BY DEF Cancelled
  <2> QED BY <1>1, <1>3, <1>4, <2>1, SameLength
<1>6. \A s \in Slots : table'[s] = IF s \in slots THEN 0 ELSE table[s]
  BY DEF Cleared
<1>7. NoneForgotten'
  <2>1. ASSUME NEW s \in Slots, table'[s] # 0
        PROVE  /\ s \in wanted' \cup posted' /\ table'[s] \in DOMAIN ops'
               /\ ops'[table'[s]].slot = s
    BY <1>3, <1>4, <1>6, <2>1 DEF NoneForgotten, InProgram, Writing
  <2>2. ASSUME NEW i \in DOMAIN ops'
        PROVE  ops'[i].state = "pending" <=> table'[ops'[i].slot] = i
    <3>1. i \in DOMAIN ops /\ i # 0 /\ ops[i].slot \in Slots
      BY <1>1, <1>3, <1>4 DEF Operation
    <3> QED BY <1>4, <1>6, <3>1 DEF NoneForgotten
  <2> QED BY <2>1, <2>2 DEF NoneForgotten
<1> QED BY <1>2, <1>5, <1>7

----------------------------------------------------------------------------
(* One lemma for each action.                                              *)

\* The invariant holds before the first operation.
LEMMA InitIInv == Init => IInv
<1> SUFFICES ASSUME Init PROVE IInv
  OBVIOUS
<1>1. Typed
  <2>1. ops = <<>> /\ ops \in Seq(Operation)
    BY DEF Init
  <2>2. open \subseteq Fds /\ maxFd = -1
    BY DEF Init
  <2> QED BY <2>1, <2>2 DEF Init, Typed
<1>4. NoneForgotten
  <2>1. DOMAIN ops = {} /\ \A s \in Slots : table[s] = 0
    BY DEF Init
  <2> QED BY <2>1 DEF NoneForgotten
<1>2. Tally
  <2>1. posted = {} /\ \A d \in Sides : numPosted[d] = 0 /\ lost[d] = 0
    BY DEF Init
  <2>2. \A d \in Sides : Of(posted, d) = {}
    BY <2>1 DEF Of
  <2>3. \A d \in Sides : Cardinality(Of(posted, d)) = 0
    BY <2>2, FS_EmptySet
  <2> QED BY <2>1, <2>3, TallyOf
<1>3. BegunWhenReady /\ Unused /\ Awaits
  BY DEF Init, BegunWhenReady, Unused, Awaits
<1> QED BY <1>1, <1>2, <1>3, <1>4 DEF IInv

\* OS_AsyncRead and OS_AsyncWrite.
LEMMA StartKeeps ==
  ASSUME IInv, NEW s \in Slots, Start(s)
  PROVE  IInv'
<1> DEFINE new == [slot |-> s, state |-> "pending"]
           n == Len(ops) + 1
<1>1. /\ Typed /\ table[s] = 0 /\ InProgram
      /\ ops' = Append(ops, new) /\ table' = [table EXCEPT ![s] = n]
      /\ wanted' = wanted \cup {s} /\ maxFd' = IF s[1] > maxFd THEN s[1] ELSE maxFd
      /\ asyncIoInUse' = TRUE /\ UNCHANGED <<at, posted, numPosted, lost, files>>
      /\ pc' \in {pc, "stopped"} /\ pc \in {"app", "callback"}
  BY DEF IInv, Start, InProgram
<1>2. /\ ops \in Seq(Operation) /\ table \in [Slots -> Nat] /\ s[1] \in Nat
      /\ new \in Operation /\ new.slot = s /\ new.state = "pending"
  BY <1>1, FdsFinite DEF Typed, Slots, Operation
<1> HIDE DEF new
<1>3. /\ ops' \in Seq(Operation) /\ n \in Nat \ {0} /\ DOMAIN ops' = DOMAIN ops \cup {n}
      /\ n \notin DOMAIN ops /\ ops'[n] = new
      /\ \A i \in DOMAIN ops : ops'[i] = ops[i] /\ ops[i] \in Operation
  BY <1>1, <1>2
<1> HIDE DEF n
<1>4. Typed'
  <2>1. \A t \in wanted \cup posted : t[1] \in Nat /\ t[1] <= maxFd
    BY <1>1, FdsFinite DEF Typed, Slots
  <2>2. maxFd \in Int /\ maxFd' \in Nat \cup {-1}
    BY <1>1, <1>2 DEF Typed
  <2>3. \A t \in wanted' \cup posted' : t[1] <= maxFd'
    BY <1>1, <1>2, <2>1, <2>2
  <2>4. table' \in [Slots -> Nat]
    BY <1>1, <1>2, <1>3
  <2> QED BY <1>1, <1>3, <2>2, <2>3, <2>4 DEF Typed, files
<1>5. NoneForgotten'
  <2>1. \A t \in Slots : table'[t] = IF t = s THEN n ELSE table[t]
    BY <1>1, <1>2
  <2>2. ASSUME NEW t \in Slots, table'[t] # 0
        PROVE  /\ t \in wanted' \cup posted' /\ table'[t] \in DOMAIN ops'
               /\ ops'[table'[t]].slot = t
    <3>1. CASE t = s
      BY <1>1, <1>2, <1>3, <2>1, <3>1
    <3>2. CASE t # s
      <4>1. table'[t] = table[t] /\ table[t] # 0
        BY <2>1, <2>2, <3>2
      <4>2. /\ t \in wanted \cup posted /\ table[t] \in DOMAIN ops
            /\ ops[table[t]].slot = t
        BY <1>1, <4>1 DEF IInv, NoneForgotten, Writing
      <4> QED BY <1>1, <1>3, <4>1, <4>2
    <3> QED BY <3>1, <3>2
  <2>3. ASSUME NEW i \in DOMAIN ops'
        PROVE  ops'[i].state = "pending" <=> table'[ops'[i].slot] = i
    <3>1. CASE i = n
      BY <1>2, <1>3, <2>1, <3>1
    <3>2. CASE i \in DOMAIN ops
      <4>1. i # n /\ i # 0 /\ ops[i].slot \in Slots
        BY <1>2, <1>3, <3>2 DEF Operation
      <4> QED BY <1>1, <1>3, <2>1, <3>2, <4>1 DEF IInv, NoneForgotten
    <3> QED BY <1>3, <3>1, <3>2
  <2> QED BY <2>2, <2>3 DEF NoneForgotten
<1>6. Tally'
  BY <1>1 DEF IInv, Tally
<1>7. BegunWhenReady' /\ Unused' /\ Awaits'
  BY <1>1 DEF IInv, BegunWhenReady, Unused, Awaits, files
<1> QED BY <1>4, <1>5, <1>6, <1>7 DEF IInv

\* OS_Close.
LEMMA CloseKeeps ==
  ASSUME IInv, NEW fd \in Fds, Close(fd)
  PROVE  IInv'
<1>1. /\ Typed /\ InProgram /\ On(fd) \subseteq Slots
      /\ open' = open \ {fd} /\ ready' = ready \ On(fd)
      /\ UNCHANGED <<at, numPosted, asyncIoInUse>>
  BY DEF IInv, Close, On, Slots
<1>2. CASE asyncIoInUse
  <2>1. /\ wanted' = wanted \ On(fd) /\ posted' = posted \ On(fd)
        /\ table' = Cleared(On(fd)) /\ ops' = Cancelled(On(fd))
        /\ maxFd' = Lower(fd) /\ pc' \in {pc, "stopped"}
        /\ lost' = [d \in Sides |->
                      lost[d] + (IF <<fd, d>> \in posted THEN 1 ELSE 0)]
    BY <1>2 DEF Close, Unposted, MayStop
  <2>2. /\ NoneForgotten' /\ table' \in [Slots -> Nat]
        /\ ops' \in Seq(Operation)
    <3>1. (wanted \cup posted) \ On(fd) \subseteq wanted' \cup posted'
      BY <2>1
    <3> QED BY <1>1, <2>1, <3>1, GivenUp DEF IInv
  <2>3. Typed'
    <3>1. maxFd' \in Nat \cup {-1}
      BY <1>1, <2>1, FdsFinite DEF Lower, Typed
    <3>2. ASSUME NEW s \in wanted' \cup posted'
          PROVE  s[1] <= maxFd'
      <4>1. s \in Slots /\ s \notin On(fd) /\ s[1] <= maxFd
        BY <1>1, <2>1 DEF Typed
      <4>2. s[1] # fd /\ s[1] \in Nat /\ fd \in Nat /\ maxFd \in Int
        <5>1. s \in Fds \X Sides /\ s = <<s[1], s[2]>>
          BY <4>1 DEF Slots
        <5>2. s[1] # fd
          BY <4>1, <5>1 DEF On
        <5>3. maxFd \in Int
          BY <1>1 DEF Typed
        <5> QED BY <5>1, <5>2, <5>3, FdsFinite
      <4> QED BY <2>1, <4>1, <4>2 DEF Lower
    <3>3. lost' \in [Sides -> Nat]
      BY <1>1, <2>1 DEF Typed
    <3>4. pc' \in {"app", "loop", "callback", "writing", "blocked", "stopped"}
      BY <1>1, <2>1 DEF Typed
    <3>5. /\ wanted' \subseteq Slots /\ posted' \subseteq Slots
          /\ open' \subseteq Fds /\ ready' \subseteq Slots
      BY <1>1, <2>1 DEF Typed
    <3> QED BY <1>1, <2>2, <3>1, <3>2, <3>3, <3>4, <3>5 DEF Typed
  <2>4. Tally'
    <3> SUFFICES ASSUME NEW d \in Sides
                 PROVE  numPosted'[d] = Cardinality(Of(posted', d)) + lost'[d]
      BY TallyOf
    <3>1. posted \in SUBSET Slots /\ lost[d] \in Nat
      BY <1>1 DEF Typed
    <3>2. numPosted[d] = Cardinality(Of(posted, d)) + lost[d]
      BY TallyOf DEF IInv
    <3>3. Cardinality(Of(posted', d)) =
            IF <<fd, d>> \in posted THEN Cardinality(Of(posted, d)) - 1
                                    ELSE Cardinality(Of(posted, d))
      BY <2>1, <3>1, WithoutDescriptor
    <3>4. lost'[d] = lost[d] + (IF <<fd, d>> \in posted THEN 1 ELSE 0)
      BY <2>1
    <3>5. Cardinality(Of(posted, d)) \in Nat
      BY <3>1, SlotsFinite
    <3> QED BY <1>1, <3>1, <3>2, <3>3, <3>4, <3>5
  <2>5. BegunWhenReady' /\ Unused' /\ Awaits'
    BY <1>1, <1>2, <2>1 DEF IInv, BegunWhenReady, Unused, Awaits, InProgram
  <2> QED BY <2>2, <2>3, <2>4, <2>5 DEF IInv
<1>3. CASE ~asyncIoInUse
  <2>1. UNCHANGED <<wanted, posted, table, ops, maxFd, lost, pc>>
    BY <1>3 DEF Close
  <2>2. Typed'
    BY <1>1, <2>1 DEF Typed
  <2>3. Tally' /\ NoneForgotten'
    BY <1>1, <2>1 DEF IInv, Tally, NoneForgotten, Writing
  <2>4. BegunWhenReady' /\ Unused' /\ Awaits'
    BY <1>1, <1>3, <2>1 DEF IInv, BegunWhenReady, Unused, Awaits
  <2> QED BY <2>2, <2>3, <2>4 DEF IInv
<1> QED BY <1>2, <1>3

\* OS_CloseRead.
LEMMA CloseReadKeeps ==
  ASSUME IInv, NEW fd \in Fds, CloseRead(fd)
  PROVE  IInv'
<1> DEFINE s == <<fd, "read">>
<1>1. /\ Typed /\ InProgram /\ s \in Slots
      /\ table' = Cleared({s}) /\ ops' = Cancelled({s})
      /\ wanted' \in {wanted, wanted \ {s}} /\ ready' \in {ready, ready \cup {s}}
      /\ pc' \in {pc, "stopped"}
      /\ UNCHANGED <<at, posted, numPosted, lost, maxFd, asyncIoInUse, open>>
  BY DEF IInv, CloseRead, Emptied, MayStop, Slots, Sides
<1> HIDE DEF s
<1>2. /\ NoneForgotten' /\ table' \in [Slots -> Nat]
      /\ ops' \in Seq(Operation)
  <2>1. {s} \in SUBSET Slots /\ (wanted \cup posted) \ {s} \subseteq wanted' \cup posted'
    BY <1>1
  <2> QED BY <1>1, <2>1, GivenUp DEF IInv
<1>3. Typed'
  <2>1. /\ wanted' \subseteq wanted /\ ready' \subseteq Slots
        /\ pc' \in {"app", "loop", "callback", "writing", "blocked", "stopped"}
    BY <1>1 DEF Typed
  <2> QED BY <1>1, <1>2, <2>1 DEF Typed
<1>4. Tally'
  BY <1>1 DEF IInv, Tally
<1>5. BegunWhenReady' /\ Unused' /\ Awaits'
  BY <1>1 DEF IInv, BegunWhenReady, Unused, Awaits, InProgram
<1> QED BY <1>2, <1>3, <1>4, <1>5 DEF IInv

\* The select call of OS_DoIo.
LEMMA SelectKeeps ==
  ASSUME IInv, Select
  PROVE  IInv'
<1>1. /\ Typed /\ NothingPosted /\ pc = "app"
      /\ pc' = "loop" /\ at' = <<-1, "write">> /\ asyncIoInUse' = TRUE
      /\ wanted' = wanted \ Reported /\ posted' = posted \cup Reported
      /\ numPosted' = [d \in Sides |->
                         numPosted[d] + Cardinality({t \in Reported : t[2] = d})]
      /\ UNCHANGED <<table, lost, maxFd, open, ready, ops>>
  BY DEF IInv, Select, Dispatching, files
<1>2. Reported \subseteq wanted /\ Reported \subseteq ready /\ Reported \in SUBSET Slots
  BY <1>1 DEF Reported, InReach, Typed
<1>3. ASSUME NEW d \in Sides
      PROVE  /\ Of(posted, d) = {} /\ lost[d] = 0 /\ numPosted[d] = 0
             /\ numPosted'[d] = Cardinality(Of(Reported, d)) /\ numPosted'[d] \in Nat
  <2>1. /\ numPosted[d] = 0 /\ lost[d] \in Nat
        /\ numPosted[d] = Cardinality(Of(posted, d)) + lost[d]
    BY <1>1, TallyOf DEF IInv, NothingPosted, Typed
  <2>2. posted \in SUBSET Slots
    BY <1>1 DEF Typed
  <2>3. Cardinality(Of(posted, d)) \in Nat /\ IsFiniteSet(Of(posted, d))
    BY <2>2, SlotsFinite
  <2>4. Cardinality(Of(posted, d)) = 0 /\ lost[d] = 0
    BY <2>1, <2>3
  <2>5. Of(posted, d) = {}
    BY <2>3, <2>4, FS_EmptySet
  <2>6. Cardinality(Of(Reported, d)) \in Nat
    BY <1>2, SlotsFinite
  <2>7. numPosted'[d] = numPosted[d] + Cardinality(Of(Reported, d))
    BY <1>1 DEF Of
  <2> QED BY <2>1, <2>4, <2>5, <2>6, <2>7
<1>4. posted = {} /\ posted' = Reported
  <2>1. ASSUME NEW s \in posted
        PROVE  FALSE
    <3>1. s[2] \in Sides /\ s \in Of(posted, s[2])
      BY <1>1 DEF Typed, Of, Slots
    <3> QED BY <1>3, <3>1
  <2> QED BY <1>1, <2>1
<1>5. Typed'
  <2>1. numPosted' \in [Sides -> Nat]
    BY <1>1, <1>3
  <2> QED BY <1>1, <1>2, <2>1 DEF Typed
<1>6. Tally'
  BY <1>1, <1>3, <1>4, TallyOf, SlotsFinite, <1>2
<1>7. NoneForgotten'
  BY <1>1 DEF IInv, NoneForgotten, Writing
<1>8. BegunWhenReady' /\ Unused' /\ Awaits'
  BY <1>1, <1>2, <1>4 DEF BegunWhenReady, Unused, Awaits
<1> QED BY <1>5, <1>6, <1>7, <1>8 DEF IInv

\* The call back of an operation (OS_DoIo).
LEMMA DoneKeeps ==
  ASSUME Typed, NoneForgotten, NEW s \in Slots, table[s] # 0, Done(s),
         (wanted \cup posted) \ {s} \subseteq wanted' \cup posted',
         pc = "writing" => s = at
  PROVE  /\ NoneForgotten' /\ table' \in [Slots -> Nat] /\ ops' \in Seq(Operation)
<1>1. /\ table' = [table EXCEPT ![s] = 0]
      /\ ops' = [ops EXCEPT ![table[s]].state = "done"]
  BY DEF Done
<1>2. ops \in Seq(Operation) /\ table \in [Slots -> Nat]
  BY DEF Typed
<1>3. /\ table[s] \in DOMAIN ops /\ ops[table[s]].slot = s
      /\ ops[table[s]].state = "pending"
  BY DEF NoneForgotten
<1>4. /\ DOMAIN ops' = DOMAIN ops /\ ops' \in Seq(Operation)
      /\ \A i \in DOMAIN ops :
           /\ ops[i] \in Operation /\ ops'[i].slot = ops[i].slot
           /\ ops'[i].state = IF i = table[s] THEN "done" ELSE ops[i].state
  <2> DEFINE n == table[s]
             o == ops[n]
             c == [o EXCEPT !.state = "done"]
  <2>1. o \in Operation
    BY <1>2, <1>3
  <2>2. c \in Operation /\ c.slot = o.slot /\ c.state = "done"
    BY <2>1, NewState
  <2>3. ops' = [ops EXCEPT ![n] = c]
    BY <1>1
  <2> HIDE DEF c
  <2>4. DOMAIN ops' = DOMAIN ops /\ ops' \in Seq(Operation)
    BY <1>2, <1>3, <2>2, <2>3
  <2>5. ASSUME NEW i \in DOMAIN ops
        PROVE  /\ ops[i] \in Operation /\ ops'[i].slot = ops[i].slot
               /\ ops'[i].state = IF i = table[s] THEN "done" ELSE ops[i].state
    <3>1. ops[i] \in Operation
      BY <1>2
    <3>2. ops'[i] = IF i = n THEN c ELSE ops[i]
      BY <2>3
    <3> QED BY <2>2, <3>1, <3>2
  <2> QED BY <2>4, <2>5
<1>5. \A t \in Slots : table'[t] = IF t = s THEN 0 ELSE table[t]
  BY <1>1, <1>2
<1>6. ASSUME NEW t \in Slots, table'[t] # 0
      PROVE  /\ t \in wanted' \cup posted' /\ table'[t] \in DOMAIN ops'
             /\ ops'[table'[t]].slot = t
  <2>1. t # s /\ table'[t] = table[t]
    BY <1>5, <1>6
  <2>2. /\ t \in wanted \cup posted /\ table[t] \in DOMAIN ops
        /\ ops[table[t]].slot = t
    BY <1>6, <2>1 DEF NoneForgotten, Writing
  <2> QED BY <1>4, <2>1, <2>2
<1>7. ASSUME NEW i \in DOMAIN ops'
      PROVE  ops'[i].state = "pending" <=> table'[ops'[i].slot] = i
  <2>1. i \in DOMAIN ops /\ i # 0 /\ ops[i] \in Operation
    BY <1>2, <1>4
  <2>2. ops[i].slot \in Slots
    BY <2>1 DEF Operation
  <2>3. ops[i].state = "pending" <=> table[ops[i].slot] = i
    BY <2>1 DEF NoneForgotten
  <2> QED BY <1>3, <1>4, <1>5, <2>1, <2>2, <2>3
<1>8. table' \in [Slots -> Nat]
  BY <1>1, <1>2
<1> QED BY <1>4, <1>6, <1>7, <1>8 DEF NoneForgotten

\* The turn of a posted slot in OS_DoIo, up to its callback, or to where a write
\* has to wait.
LEMMA DispatchKeeps ==
  ASSUME IInv, Dispatch
  PROVE  IInv'
<1>1. PICK s \in Ahead :
        /\ at' = s /\ posted' = posted \ {s} /\ numPosted' = Dispatched(s)
        /\ \/ s \in ready /\ Done(s) /\ ready' \in {ready, ready \ {s}}
           \/ /\ s \in ready /\ s[2] = "write"
              /\ pc' = "writing" /\ ready' = ready \ {s} /\ UNCHANGED <<table, ops>>
           \/ s \notin ready /\ pc' = "blocked" /\ UNCHANGED <<ready, table, ops>>
  BY DEF Dispatch
<1>2. /\ Typed /\ s \in posted /\ s \in Slots /\ s \in ready /\ table[s] # 0
      /\ s[2] \in Sides /\ pc = "loop"
      /\ UNCHANGED <<wanted, lost, maxFd, asyncIoInUse, open>>
  BY <1>1 DEF IInv, Dispatch, Ahead, InReach, BegunWhenReady, Typed, Slots
<1>3. /\ ops \in Seq(Operation) /\ table \in [Slots -> Nat] /\ posted \in SUBSET Slots
      /\ numPosted \in [Sides -> Nat] /\ lost \in [Sides -> Nat]
  BY <1>2 DEF Typed
<1>4. \/ Done(s) /\ pc' = "callback" /\ ready' \in {ready, ready \ {s}}
      \/ pc' = "writing" /\ ready' = ready \ {s} /\ UNCHANGED <<table, ops>>
  BY <1>1, <1>2 DEF Done
<1>5. /\ NoneForgotten' /\ table' \in [Slots -> Nat] /\ ops' \in Seq(Operation)
  <2>1. (wanted \cup posted) \ {s} \subseteq wanted' \cup posted'
    BY <1>1, <1>2
  <2>2. CASE Done(s)
    BY <1>2, <2>1, <2>2, DoneKeeps DEF IInv
  <2>3. CASE pc' = "writing" /\ UNCHANGED <<table, ops>>
    <3>1. \A t \in Slots : t \in wanted \cup posted \/ Writing(t) =>
                              t \in wanted' \cup posted' \/ (pc' = "writing" /\ t = at')
      BY <1>1, <1>2, <2>1, <2>3 DEF Writing
    <3> QED BY <1>3, <2>3, <3>1 DEF IInv, NoneForgotten, Writing
  <2> QED BY <1>4, <2>2, <2>3
<1>6. ASSUME NEW d \in Sides
      PROVE  numPosted'[d] = Cardinality(Of(posted', d)) + lost'[d] /\ numPosted'[d] \in Nat
  <2>1. numPosted[d] = Cardinality(Of(posted, d)) + lost[d]
    BY TallyOf DEF IInv
  <2>2. Cardinality(Of(posted', d)) =
          IF s[2] = d THEN Cardinality(Of(posted, d)) - 1
                      ELSE Cardinality(Of(posted, d))
    <3>1. s \in posted /\ s \in Slots /\ posted \in SUBSET Slots
      BY <1>2, <1>3
    <3>2. posted' = posted \ {s}
      BY <1>1
    <3> QED BY <3>1, <3>2, OneLess
  <2>3. Cardinality(Of(posted, d)) \in Nat /\ Cardinality(Of(posted', d)) \in Nat
    <3>1. posted' \in SUBSET Slots
      BY <1>1, <1>3
    <3> QED BY <1>3, <3>1, SlotsFinite
  <2>4. numPosted'[d] = IF s[2] = d THEN numPosted[d] - 1 ELSE numPosted[d]
    BY <1>1, <1>3 DEF Dispatched
  <2> QED BY <1>2, <1>3, <2>1, <2>2, <2>3, <2>4
<1>7. Tally'
  BY <1>6, TallyOf
<1>8. Typed'
  <2>1. numPosted' \in [Sides -> Nat]
    <3>1. numPosted' = [d \in Sides |-> numPosted'[d]]
      BY <1>1, <1>3 DEF Dispatched
    <3> QED BY <1>6, <3>1
  <2>2. ready' \subseteq Slots /\ posted' \subseteq Slots /\ at' \in Slots
    BY <1>1, <1>2, <1>3, <1>4 DEF Typed
  <2>3. pc' \in {"callback", "writing"}
    BY <1>4
  <2> QED BY <1>1, <1>2, <1>5, <2>1, <2>2, <2>3 DEF Typed
<1>9. BegunWhenReady' /\ Unused'
  BY <1>1, <1>2, <1>4 DEF IInv, BegunWhenReady, Unused
<1>10. Awaits'
  BY <1>1, <1>2, <1>4 DEF Awaits
<1> QED BY <1>5, <1>7, <1>8, <1>9, <1>10 DEF IInv

\* The end of a write that has waited.
LEMMA WriteOnKeeps ==
  ASSUME IInv, WriteOn
  PROVE  IInv'
<1>1. /\ Typed /\ pc = "writing" /\ at \in ready /\ at \in Slots /\ table[at] # 0
      /\ Done(at) /\ pc' = "callback" /\ ready' \in {ready, ready \ {at}}
      /\ UNCHANGED <<at, wanted, posted, numPosted, lost, maxFd, asyncIoInUse, open>>
  BY DEF IInv, WriteOn, Done, Awaits
<1>2. /\ NoneForgotten' /\ table' \in [Slots -> Nat] /\ ops' \in Seq(Operation)
  BY <1>1, DoneKeeps DEF IInv
<1>3. Typed'
  BY <1>1, <1>2 DEF Typed
<1>4. Tally' /\ Unused' /\ Awaits'
  BY <1>1 DEF IInv, Tally, Unused, Awaits
<1>5. BegunWhenReady'
  BY <1>1 DEF IInv, BegunWhenReady, Awaits
<1> QED BY <1>2, <1>3, <1>4, <1>5 DEF IInv

\* The steps that leave the tables alone.
LEMMA OthersKeep ==
  ASSUME IInv,
         \/ \E fd \in Fds : Open(fd)
         \/ \E s \in Slots : GetReady(s)
         \/ SelectNothing \/ Resume \/ Return \/ Leave
  PROVE  IInv'
<1>1. /\ pc \in {"app", "loop", "callback", "writing", "stopped"}
      /\ at \in Slots \cup {<<-1, "write">>} /\ asyncIoInUse \in BOOLEAN
      /\ open \subseteq Fds /\ ready \subseteq Slots
  BY DEF IInv, Typed, BegunWhenReady
<1>2. UNCHANGED <<table, wanted, posted, numPosted, lost, maxFd, ops>>
  BY DEF Open, GetReady, SelectNothing, Resume, Return, Leave, Dispatching, sets
<1>3. CASE \E fd \in Fds : Open(fd)
  BY <1>1, <1>2, <1>3, TablesKept DEF Open
<1>4. CASE \E s \in Slots : GetReady(s)
  BY <1>1, <1>2, <1>4, TablesKept DEF GetReady
<1>5. CASE SelectNothing \/ Resume \/ Return \/ Leave
  BY <1>1, <1>2, <1>5, TablesKept
  DEF SelectNothing, Resume, Return, Leave, Dispatching, files
<1> QED BY <1>3, <1>4, <1>5

\* Every step keeps the invariant.
LEMMA StepKeeps == IInv /\ [Next]_vars => IInv'
<1> SUFFICES ASSUME IInv, [Next]_vars PROVE IInv'
  OBVIOUS
<1>1. CASE AsyncReadStdin \/ \E fd \in Fds : AsyncRead(fd) \/ AsyncWrite(fd)
  <2>1. \A fd \in Fds : <<fd, "read">> \in Slots /\ <<fd, "write">> \in Slots
    BY DEF Slots, Sides
  <2> QED BY <1>1, <2>1, StartKeeps DEF AsyncReadStdin, AsyncRead, AsyncWrite
<1>2. CASE \E fd \in Fds : Close(fd)
  BY <1>2, CloseKeeps
<1>3. CASE \E fd \in Fds : CloseRead(fd)
  BY <1>3, CloseReadKeeps
<1>4. CASE Select
  BY <1>4, SelectKeeps
<1>5. CASE Dispatch \/ WriteOn
  BY <1>5, DispatchKeeps, WriteOnKeeps
<1>6. CASE \/ \E fd \in Fds : Open(fd)
           \/ \E s \in Slots : GetReady(s)
           \/ SelectNothing \/ Resume \/ Return \/ Leave
  BY <1>6, OthersKeep
<1>7. CASE UNCHANGED vars
  <2>1. UNCHANGED <<pc, at, table, wanted, posted, numPosted, lost, maxFd,
                    asyncIoInUse, open, ready, ops>>
    BY <1>7 DEF vars, sets, files
  <2>2. Typed'
    BY <2>1 DEF IInv, Typed
  <2>3. Tally' /\ NoneForgotten'
    BY <2>1 DEF IInv, Tally, NoneForgotten, Writing
  <2>4. BegunWhenReady' /\ Unused' /\ Awaits'
    BY <2>1 DEF IInv, BegunWhenReady, Unused, Awaits
  <2> QED BY <2>2, <2>3, <2>4 DEF IInv
<1> QED BY <1>1, <1>2, <1>3, <1>4, <1>5, <1>6, <1>7 DEF Next, DoIo, Calls

----------------------------------------------------------------------------
(* The size of the table.                                                  *)

\* An operation is started behind the end of the table never, since the table
\* grows first and does not shrink.
LEMMA SizeGrows ==
  ASSUME IInv, TypeOK, NEW s \in Slots, Start(s)
  PROVE  TypeOK'
<1> DEFINE i == Index(s)
           sizes == Doubled(i)
<1>1. /\ tableSize' \in sizes /\ i < tableSize'
      /\ table' = [table EXCEPT ![s] = Len(ops) + 1]
  BY DEF Start, Grown
<1>2. \A t \in Slots : Index(t) \in Nat
  <2>1. \A t \in Slots : t[1] \in Nat
    BY FdsFinite DEF Slots
  <2> QED BY <2>1 DEF Index
<1>3. tableSize \in Nat \ {0}
  BY DEF TypeOK
<1>4. i \in Nat
  BY <1>2
<1>5. sizes \subseteq tableSize..(tableSize + 2 * i)
  BY DEF Doubled
<1> HIDE DEF sizes, i
<1>6. tableSize' \in Nat \ {0} /\ tableSize <= tableSize'
  BY <1>1, <1>3, <1>4, <1>5
<1>7. ASSUME NEW t \in Slots, table'[t] # 0
      PROVE  Index(t) < tableSize'
  <2>1. CASE t = s
    BY <1>1, <2>1 DEF i
  <2>2. CASE t # s
    <3>1. table'[t] = table[t]
      BY <1>1, <2>2 DEF TypeOK, Typed
    <3>2. Index(t) < tableSize
      BY <1>7, <3>1 DEF TypeOK
    <3> QED BY <1>2, <1>3, <1>6, <3>2
  <2> QED BY <2>1, <2>2
<1>8. Typed'
  BY StartKeeps DEF IInv
<1> QED BY <1>6, <1>7, <1>8 DEF TypeOK

\* The other steps do not change the size, and fill no entry.
LEMMA SizeStays ==
  ASSUME TypeOK, Typed', UNCHANGED tableSize,
         \A s \in Slots : table'[s] \in {table[s], 0}
  PROVE  TypeOK'
  BY DEF TypeOK

\* What each of them does to the table.
LEMMA NothingFilled ==
  ASSUME Typed,
         \/ \E fd \in Fds : Open(fd) \/ Close(fd) \/ CloseRead(fd)
         \/ \E s \in Slots : GetReady(s)
         \/ DoIo \/ Return \/ UNCHANGED vars
  PROVE  UNCHANGED tableSize /\ \A s \in Slots : table'[s] \in {table[s], 0}
<1>1. CASE \E fd \in Fds : Close(fd) \/ CloseRead(fd)
  <2>1. PICK fd \in Fds : Close(fd) \/ CloseRead(fd)
    BY <1>1
  <2>2. CASE Close(fd)
    BY <2>2 DEF Close, Cleared
  <2>3. CASE CloseRead(fd)
    BY <2>3 DEF CloseRead, Emptied, Cleared
  <2> QED BY <2>1, <2>2, <2>3
<1>2. CASE Dispatch \/ WriteOn
  <2>1. UNCHANGED tableSize /\ (table' = table \/ \E s : table' = [table EXCEPT ![s] = 0])
    BY <1>2 DEF Dispatch, WriteOn, Done
  <2> QED BY <2>1 DEF Typed
<1>3. CASE \/ \E fd \in Fds : Open(fd)
           \/ \E s \in Slots : GetReady(s)
           \/ Select \/ SelectNothing \/ Resume \/ Leave \/ Return
           \/ UNCHANGED vars
  <2>1. UNCHANGED <<table, tableSize>>
    BY <1>3
    DEF Open, GetReady, Select, SelectNothing, Resume, Leave, Return, vars, sets
  <2> QED BY <2>1
<1> QED BY <1>1, <1>2, <1>3 DEF DoIo

\* Every step keeps the table as large as it must be.
LEMMA SizeKeeps == IInv /\ TypeOK /\ [Next]_vars => TypeOK'
<1> SUFFICES ASSUME IInv, TypeOK, [Next]_vars PROVE TypeOK'
  OBVIOUS
<1>1. CASE AsyncReadStdin \/ \E fd \in Fds : AsyncRead(fd) \/ AsyncWrite(fd)
  <2>1. \A fd \in Fds : <<fd, "read">> \in Slots /\ <<fd, "write">> \in Slots
    BY DEF Slots, Sides
  <2> QED BY <1>1, <2>1, SizeGrows DEF AsyncReadStdin, AsyncRead, AsyncWrite
<1>2. CASE \/ \E fd \in Fds : Open(fd) \/ Close(fd) \/ CloseRead(fd)
           \/ \E s \in Slots : GetReady(s)
           \/ DoIo \/ Return \/ UNCHANGED vars
  <2>1. Typed /\ Typed'
    BY StepKeeps DEF IInv
  <2> QED BY <1>2, <2>1, NothingFilled, SizeStays
<1> QED BY <1>1, <1>2 DEF Next, Calls

----------------------------------------------------------------------------
(* The theorems.                                                           *)

\* The invariant holds in every reachable state.
LEMMA Invariance == Spec => []IInv
<1>1. IInv /\ [Next]_vars => IInv'
  BY StepKeeps
<1> QED BY InitIInv, <1>1, PTL DEF Spec

\* The variables keep their types, no bit is above maxFd, and no entry that is
\* in use is behind asyncIoTable, whatever was opened and closed in between.
THEOREM TypeCorrect == Spec => []TypeOK
<1>1. Init => TypeOK
  <2> SUFFICES ASSUME Init PROVE TypeOK
    OBVIOUS
  <2>1. tableSize \in Nat \ {0} /\ \A s \in Slots : table[s] = 0
    BY AsyncIoAssumption DEF Init
  <2> QED BY <2>1, InitIInv DEF TypeOK, IInv
<1>2. IInv /\ TypeOK /\ [Next]_vars => TypeOK'
  BY SizeKeeps
<1> QED BY Invariance, <1>1, <1>2, PTL DEF Spec

\* numRdPosted and numWrPosted count what is posted and what OS_Close lost,
\* for any number of descriptors and operations.
THEOREM TallyTheorem == Spec => []Tally
<1>1. IInv => Tally
  BY DEF IInv
<1> QED BY Invariance, <1>1, PTL

\* An operation that was started is in a set that select or OS_DoIo works on,
\* until its callback is called or the program gives it up.
THEOREM NoneForgottenTheorem == Spec => []NoneForgotten
<1>1. IInv => NoneForgotten
  BY DEF IInv
<1> QED BY Invariance, <1>1, PTL

\* OS_DoIo begins a read or write only on a descriptor that is ready, whatever the
\* callbacks start, close and open again, and however long a write has waited for
\* room for the rest of what it had begun: no read ever waits.
THEOREM BegunWhenReadyTheorem == Spec => []BegunWhenReady
<1>1. IInv => BegunWhenReady
  BY DEF IInv
<1> QED BY Invariance, <1>1, PTL
=============================================================================
